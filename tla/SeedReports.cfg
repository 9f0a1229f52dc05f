CONSTANTS
    s1 = s1  s2 = s2
    NumJobs = 2
    Main = Main
    Nobody = Nobody
    NoSeed = NoSeed
    SeedIds = {s1, s2}
    Setups <- BuildSetups
    Targets <- ThreeTargets
    SpecOf <- ThreeSpecs
    NoOptSets = {}
    Checksums = {"sum1", "sum2"}
    ErrorSums = {}
    UbsanSpecs = {"ubsan_clang"}
    Timeout = 1
    PipeSize = 1
    MaxClock = 1
    MaxTests = 2
SPECIFICATION Spec
INVARIANT
    RejectedProgramSaved
