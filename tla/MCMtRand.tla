------------------------------ MODULE MCMtRand ------------------------------
(***************************************************************************)
(* Instances of MtRand for TLC: words of five bits, in batches of five.    *)
(***************************************************************************)
EXTENDS MtRand
LOCAL INSTANCE Bitwise

(* The bit operations on words, the factors of shifts, and ranges: all that *)
(* a number can be, and one that is small.                                  *)
MCXor(x, y) == x ^^ y
MCAnd(x, y) == x & y
MCOr(x, y) == x | y
MCShifts == <<8, 2, 4, 16>>
MCMasks == <<20, 26>>
MCRanges == {[min |-> 0, max |-> Top - 1], [min |-> -1, max |-> 4]}
=============================================================================
