CONSTANTS
    CharBits = 2
    ShortBits = 3
    IntBits = 4
    LongBits = 6
    Constants <- MCConstants
    DeepConstants <- MCDeepConstants
    DeepOps <- MCDeepOps
    MaxHeight = 8
SPECIFICATION FairSpec
INVARIANTS
    RebuiltIsDefined
    EvaluationIsSound
    NeverAborts
PROPERTIES
    RepairKeepsType
    Terminates
CHECK_DEADLOCK FALSE
