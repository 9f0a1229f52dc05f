CONSTANTS
    w1 = w1  w2 = w2  p1 = p1  p2 = p2  p3 = p3
    Jobs = {w1, w2}
    Main = Main
    Nobody = Nobody
    NoSeed = NoSeed
    Programs = {p1, p2}
    TestName <- OwnName
    Targets <- TwoTargets
    SpecOf <- TwoSpecs
    NoOptSets <- NoOptSecond
    Checksums = {"sum1", "sum2", "ERROR"}
    ErrorSums = {"ERROR"}
    UbsanSpecs = {}
    Fuzzer = "file"
    Standards = {"c", "c++"}
    NeedSanitizer = FALSE
    Blame = TRUE
    Creduce = FALSE
    Timeout = 1
    Missing = TRUE
    Garbled = TRUE
    DiskCanFail = FALSE
    CleanerMissing = TRUE
    MaxClock = 0
    MaxTests = 0
    MaxIce = 0
SYMMETRY FarmSymmetry
SPECIFICATION Spec
INVARIANTS
    TypeOK
    FailReported
    DifCounted
PROPERTIES
    SeedsTracked
    VerdictSound
    ReportsKept
