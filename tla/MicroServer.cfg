SPECIFICATION FairServerSpec
CONSTANTS
    Clients = {c1, c2}
    NoClient = noClient
    Fds = {3, 4}
    NoFd = noFd
    Asks <- MCAsks
    Timeout = 3
    ReadMax = 2
    WriteMax = 2
    Window = 1
    BlankSize = 1
    MayFail = TRUE
    Leaving = {c1}
    Silent = {}
INVARIANTS ServerTypeOK ServedWereReadable TempFilesOwned SentIsAnswer
CHECK_DEADLOCK FALSE
PROPERTIES HandedOnWhole EveryoneServed
