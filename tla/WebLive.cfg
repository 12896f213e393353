SPECIFICATION LiveSpec
CONSTANTS
    Procs = {p1, p2}
    Sids = {a}
    Inodes = {1, 2}
    NoFile = noFile
    Nobody = nobody
    Unset = unset
    NoCookie = noCookie
    MaxVisits = 0
    CollectGarbage = FALSE
    ChangeIds = FALSE
    MayCrash = TRUE
    MayFailOpen = FALSE
    Reopen = TRUE
    MayRaise = TRUE
    AutoStart = FALSE
    MayMiss = TRUE
    MayFail = TRUE
PROPERTY EveryRequestAnswered
