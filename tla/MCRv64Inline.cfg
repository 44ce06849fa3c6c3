SPECIFICATION PipelineSpec
CONSTANTS
  None = None
  XLEN = 4
  WLEN = 2
  StartPc = 0
  MaxSteps = 3
  Regs <- MCRegs
  Scenarios <- MCScenarios
INVARIANTS HonestTraceAccepted EffectRowsMatch DivisionRowsReconcile
PROPERTY ReplayRunsTheMachine
CHECK_DEADLOCK FALSE
