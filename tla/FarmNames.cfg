CONSTANTS
    w1 = w1  w2 = w2  p1 = p1  p2 = p2  p3 = p3
    Jobs = {w1, w2}
    Main = Main
    Nobody = Nobody
    NoSeed = NoSeed
    Programs = {p1, p2}
    TestName <- EmptyName
    Targets <- OneTarget
    SpecOf <- OneSpec
    NoOptSets = {}
    Checksums = {"sum1", "sum2", "ERROR"}
    ErrorSums = {"ERROR"}
    UbsanSpecs = {}
    Fuzzer = "grammarinator"
    Standards = {"c"}
    NeedSanitizer = FALSE
    Blame = FALSE
    Creduce = FALSE
    Timeout = 1
    Missing = FALSE
    Garbled = FALSE
    DiskCanFail = FALSE
    CleanerMissing = FALSE
    MaxClock = 0
    MaxTests = 0
    MaxIce = 0
SPECIFICATION Spec
PROPERTY
    ReportsKept
