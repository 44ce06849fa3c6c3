SPECIFICATION Spec
CONSTANTS
  KRho = 2
  MaxClaims = 3
  Modes = {"Optimized", "PaperExact"}
  Steps <- AllSteps
  CallerChunks <- Calls
  CallerRuns <- Runs
  PublicChunks <- Others
  Damages <- Kinds
INVARIANTS
  SessionTypeOK
  OutcomeIsFeasibility
  CarryCoherent
  TranscriptsAgree
  HonestSessionAccepted
  AcceptedIsProved
  ReplayAgrees
PROPERTY
  SessionsSettle
CHECK_DEADLOCK FALSE
