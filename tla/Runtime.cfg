SPECIFICATION RSpec
CONSTANTS
    MaxInt = 1
    StrKeys = {}
    Vals = {null, x}
    Null = null
    Boxes = {b1}
    Absent = absent
    AtEnd = atEnd
    Vars = {va, vb}
    RVars = {r1}
    NoArray = noArray
    NoBox = noBox
    Stores = {s1, s2, s3}
    Cells = {c1, c2, c3}
    MaxCount = 1
    Pids = {q1, q2, q3}
    NumChildren = 2
    Sent = {"TERM", "INT"}
    MaxBuffers = 2
    MaxSaid = 2
    MaxWork = 2
    Kinds = {"none", "busy", "bad"}
    Exceptions = {"Base", "Derived"}
    IsA <- MCIsA
    MaxDepth = 3
    MaxEntries = 4
    MaxSerial = 5
    Dirs = {"a", "b"}
    Names = {"x"}
    Texts = {"t1", "t2", "t3", "big"}
    TooBig = {"big"}
    MaxMemoized = 1
    MaxNesting = 3
    Half = 8
    Mant = 16
    OverflowFlag = FALSE
    Operands <- AllLongs
    MaxFloat = 64
    Strings <- MCStrings
    FoldCase = TRUE
    Bytes = 6
    Quote = 3
    MaxLength = 5
    Ndig = 6
    Numbers <- MCNumbers
    Precisions = {0, 1, 2, 3, 7}
    Batch = 5
    Middle = 3
    Top = 16
    BitXor <- MCXor
    BitAnd <- MCAnd
    BitOr <- MCOr
    Magic = 19
    Multiplier = 13
    Shifts <- MCShifts
    Masks <- MCMasks
    Seeds = {2, 7, 23}
    Ranges <- MCRanges
    MaxDraws = 16
    Block = 8
    LengthOctets = 4
    OctetBits = 2
    Pieces = {1, 3}
    MaxMessage = 130
    DigestOctets = 1
INVARIANTS
    IInv ZeroMeansSole
    CountsChildren ToldAll OnceInOrder
    RunningHaveEntries RunsWhatIsThere OnceIsOnce CacheBounded ResultsRight
    SortsByOrder BinaryKept TextIsRounded FollowsSeed HashesPadded
PROPERTIES ImplementsPhpArray InnermostCatches
CHECK_DEADLOCK FALSE
VIEW RView
SYMMETRY AnyVars
