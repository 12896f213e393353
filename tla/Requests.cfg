SPECIFICATION AllSpec
CONSTANTS
    MaxInt = 2
    StrKeys = {}
    Vals = {0}
    Null = 0
    Boxes = {}
    Absent = absent
    AtEnd = atEnd
    Entries = {1, 2, 3, 4, 5}
    Nil = nil
    NoWalk = noWalk
    HashNumber <- HashIsKey
    DefaultSize = 2
    FirstThreshold = 1
    MaxSize = 4
    FillUnit = 7
    Forms <- MCForms
    Queries <- MCQueries
    Extensions = {".php", ".app"}
    MaxExts = 2
    MaxSettings = 2
    MaxRequests = 3
    Procs = {p1}
    Sids = {a, b}
    Inodes = {1, 2, 3}
    NoFile = noFile
    Nobody = nobody
    Unset = unset
    NoCookie = noCookie
    MaxVisits = 1
    CollectGarbage = FALSE
    ChangeIds = TRUE
    MayCrash = TRUE
    MayFailOpen = TRUE
    Reopen = TRUE
    MayRaise = TRUE
    AutoStart = TRUE
    MayMiss = TRUE
    MayFail = TRUE
VIEW RequestView
INVARIANTS TableTypeOK TableAgrees WalkMissesNone
    FormAsSent LeftByTheUnfinished LeftLocked IdleIsClean
PROPERTIES WalkOnce ImplementsArray UsesSessions
CHECK_DEADLOCK FALSE
