SPECIFICATION PipelineSpec
CONSTANTS
  None = None
  XLEN = 8
  WLEN = 4
  StartPc = 16
  MaxSteps = 5
  Regs <- MCRegs
  Scenarios <- MCScenarios
INVARIANTS TypeOK HonestTraceAccepted
PROPERTY ReplayRunsTheMachine
CHECK_DEADLOCK FALSE
