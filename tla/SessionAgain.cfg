SPECIFICATION Spec
CONSTANTS
    Procs = {p1}
    Sids = {a, b}
    Inodes = {1, 2, 3}
    NoFile = noFile
    Nobody = nobody
    Unset = unset
    MaxVisits = 2
    CollectGarbage = FALSE
    ChangeIds = FALSE
    MayCrash = FALSE
    MayFailOpen = FALSE
    Reopen = TRUE
    MayRaise = FALSE
PROPERTY StartInitializes
