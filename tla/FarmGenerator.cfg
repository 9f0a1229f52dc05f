CONSTANTS
    w1 = w1  w2 = w2  p1 = p1  p2 = p2  p3 = p3
    Jobs = {w1, w2}
    Main = Main
    Nobody = Nobody
    NoSeed = NoSeed
    Programs = {}
    TestName <- OwnName
    Targets <- OneTarget
    SpecOf <- OneSpec
    NoOptSets = {}
    Checksums = {"sum"}
    ErrorSums = {}
    UbsanSpecs = {}
    Fuzzer = "grammarinator"
    Standards = {"c", "c++"}
    NeedSanitizer = TRUE
    Blame = FALSE
    Creduce = FALSE
    Timeout = 1
    Missing = FALSE
    Garbled = TRUE
    DiskCanFail = TRUE
    CleanerMissing = TRUE
    MaxClock = 1
    MaxTests = 1
    MaxIce = 1
SPECIFICATION FairSpec
INVARIANTS
    LockInv
    StatusFitsPlace
    CleanupAfterWorkers
PROPERTY
    Termination
