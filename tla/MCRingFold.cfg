SPECIFICATION Spec
CONSTANTS
    P = 1009
    Sixth = 1
    Rows = 3
    Cols = 7
    Matrices <- MCMatrices
    Terms <- MCTerms
    Ajtai <- MCAjtai
    Alphabet <- MCAlphabet
    Draws <- MCDraws
    Starts <- MCStarts
    Damages <- MCDamages
    Altered <- MCAltered
INVARIANTS
    NormGuardSuffices
    ParentOpensTheMix
    HonestFoldAccepted
    AcceptedFoldIsTrue
CHECK_DEADLOCK FALSE
