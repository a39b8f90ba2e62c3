\* Liveness of the maintenance task when neither the store nor the netdir fails.
CONSTANTS
    Relays <- MCRelays
    Listings <- MCListings
    Lifetimes = {1, 2}
    L2Target = 1
    L3Target = 1
    MaxNow = 2
    StoreCanFail = FALSE
    DirCanLapse = FALSE
    DirCanErr = FALSE
SPECIFICATION Spec
PROPERTY ExpiredVanguardRotated
