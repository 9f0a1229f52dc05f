SPECIFICATION Spec
CONSTANTS
    Opts <- MCOpts
    Seeds <- MCSeeds
    TestC = "test.c"
    Inserts = {"insert-for"}
    Prunes = {"prune-if"}
    Modes = {"random", "guided"}
    MutateNum = 2
    LastingTimes = {2, 5}
    Day = 5
    MaxRound = 2
INVARIANTS
    AllTriedEarly
    RewardsTellSaves
    SavedWasChecked
    SavedChain
    StopsInTime
PROPERTY Terminates
