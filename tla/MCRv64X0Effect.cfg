SPECIFICATION PipelineSpec
CONSTANTS
  None = None
  XLEN = 4
  WLEN = 2
  StartPc = 0
  MaxSteps = 2
  Regs <- MCRegs
  Scenarios <- EdgeScenarios
INVARIANT InlineEffectResultMatches
CHECK_DEADLOCK FALSE
