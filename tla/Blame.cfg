CONSTANTS
    NumPhases = 3
    MinOpt = 1
    MaxOpt = 6
SPECIFICATION FairSpec
INVARIANTS
    Bracket
    FoundSwitchPoint
    FewProbes
PROPERTIES
    TriageEnds
