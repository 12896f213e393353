SPECIFICATION WSpec
CONSTANTS
    Procs = {p1}
    Sids = {a}
    Inodes = {1, 2, 3}
    NoFile = noFile
    Nobody = nobody
    Unset = unset
    NoCookie = noCookie
    MaxVisits = 0
    CollectGarbage = FALSE
    ChangeIds = FALSE
    MayCrash = FALSE
    MayFailOpen = FALSE
    Reopen = FALSE
    MayRaise = FALSE
    AutoStart = FALSE
    MayMiss = TRUE
    MayFail = TRUE
INVARIANT ResetsAll
