\* Safety, with store errors, a netdir that stops being timely and netdir errors.
CONSTANTS
    Relays <- MCRelays
    Listings <- MCListings
    Lifetimes = {1, 2}
    L2Target = 2
    L3Target = 1
    MaxNow = 2
    StoreCanFail = TRUE
    DirCanLapse = TRUE
    DirCanErr = TRUE
SPECIFICATION Spec
INVARIANT TypeOK
INVARIANT SleepCoversEveryVanguard
INVARIANT PersistedSetsMatch
