CONSTANTS
    Procs = {"sh", "make", "cc"}
    Leader = "sh"
    Manners <- AnyManner
SPECIFICATION FairSpec
CHECK_DEADLOCK FALSE
INVARIANT
    NothingLeftBehind
PROPERTY
    Returns
