CONSTANTS
    Targets <- MCTargets
    SpecOf <- MCSpecOf
    NoOptSets <- MCNoOptSets
    Checksums <- MCChecksums
    ErrorSums <- MCErrorSums
    FailTag = "fail"
SPECIFICATION Spec
INVARIANTS
    ComputesVerdict
    BlamesTheLessPreferred
    LoneDeviatorBlamed
    AcceptedMeansSame
