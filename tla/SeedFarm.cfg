CONSTANTS
    s1 = s1  s2 = s2
    NumJobs = 2
    Main = Main
    Nobody = Nobody
    NoSeed = NoSeed
    SeedIds = {s1, s2}
    Setups <- AllSetups
    Targets <- TwoTargets
    SpecOf <- TwoSpecs
    NoOptSets = {}
    Checksums = {"sum1", "sum2"}
    ErrorSums = {}
    UbsanSpecs = {"ubsan_clang"}
    Timeout = 1
    PipeSize = 1
    MaxClock = 1
    MaxTests = 2
SPECIFICATION FairSpec
INVARIANTS
    LockInv
    EveryFailureSaved
PROPERTIES
    ReportsKept
    SeedsSettled
    MainEnds
