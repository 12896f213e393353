SPECIFICATION Sha1Spec
CONSTANTS
    Block = 8
    LengthOctets = 4
    OctetBits = 4
    Pieces = {1}
    MaxMessage = 8
    DigestOctets = 2
INVARIANT HexIsWhole
CHECK_DEADLOCK FALSE
