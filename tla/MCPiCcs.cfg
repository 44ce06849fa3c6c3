SPECIFICATION Spec
CONSTANTS
    P = 257
    Sixth = 1
    Rows = 3
    Cols = 7
    Matrices <- MCMatrices
    Terms <- MCTerms
    Rate = 4
    BytesPerLimb = 2
    ByteBase = 16
    WordBase = 256
    Chunk = 8
    ZeroState <- MCZero
    Overwrite <- MCOverwrite
    Permute <- MCPermute
    Lane <- MCLane
    AppDomain <- MCAppDomain
    ChalLabel <- MCChalLabel
    ForkLabel <- MCForkLabel
    CoeffLabel <- MCCoeffLabel
    RoundLabel <- MCRoundLabel
    Instances <- MCInstances
    Seeds <- MCSeeds
    Label <- MCLabel
    Damages <- MCDamages
    Altered <- MCAltered
INVARIANTS
    RoundsArePaperRounds
    HonestProofAccepted
    StopsAtTheFirstRound
    OutputsOpenTheWitness
    AcceptedIsTrueOrLucky
CHECK_DEADLOCK FALSE
