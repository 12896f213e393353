SPECIFICATION PSpec
CONSTANTS
    Procs = {p1, p2}
    Sids = {a}
    Inodes = {1, 2, 3, 4}
    NoFile = noFile
    Nobody = nobody
    Unset = unset
    MaxVisits = 2
    CollectGarbage = TRUE
    ChangeIds = TRUE
    MayCrash = TRUE
    MayFailOpen = TRUE
    Reopen = FALSE
    MayRaise = FALSE
    Pids = {c1, c2}
    NumChildren = 2
    Sent = {"TERM", "INT"}
    MaxBuffers = 2
    MaxSaid = 1
    MaxWork = 1
    Kinds = {"none", "busy", "bad"}
VIEW ProcessView
INVARIANTS IInv LockIsCurrent NoLostVisit
PROPERTIES EveryPageStarts PoolMoves FlushEnds
CHECK_DEADLOCK FALSE
