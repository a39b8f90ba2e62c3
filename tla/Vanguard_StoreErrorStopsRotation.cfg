\* A failed store of the state file ends the maintenance task.
CONSTANTS
    Relays <- MCRelays
    Listings <- MCListings
    Lifetimes = {1, 2}
    L2Target = 1
    L3Target = 1
    MaxNow = 2
    StoreCanFail = TRUE
    DirCanLapse = FALSE
    DirCanErr = FALSE
SPECIFICATION Spec
PROPERTY ExpiredVanguardRotated
