SPECIFICATION TrySpec
CONSTANTS
    Exceptions = {"Base", "Derived"}
    IsA <- MCIsA
    MaxDepth = 2
    MaxEntries = 2
    MaxSerial = 3
INVARIANT EntriesAreLive
CHECK_DEADLOCK FALSE
