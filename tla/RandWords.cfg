SPECIFICATION RandSpec
CONSTANTS
    Batch = 5
    Middle = 3
    Top = 16
    BitXor <- MCXor
    BitAnd <- MCAnd
    BitOr <- MCOr
    Magic = 19
    Multiplier = 13
    Shifts <- MCShifts
    Masks <- MCMasks
    Seeds = {2, 7, 23}
    Ranges <- MCRanges
    MaxDraws = 16
INVARIANT DrawsWholeWords
CHECK_DEADLOCK FALSE
