SPECIFICATION Spec
CONSTANTS
  Rate = 4
  BytesPerLimb = 2
  ByteBase = 4
  WordBase = 4
  Chunk = 3
  ZeroState <- SymZero
  Overwrite <- SymOverwrite
  Permute <- SymPermute
  Lane <- SymLane
  AppDomain <- MCApp
  ChalLabel <- MCChal
  ForkLabel <- MCFork
  Calls <- MCCalls
  MaxCalls = 2
INVARIANTS SlicingIsInvisible DigestDeterminesCalls
CHECK_DEADLOCK FALSE
