-------------------------------- MODULE Sha1 --------------------------------
(***************************************************************************)
(* sha1 and sha1_file (ext/standard/sha1.c, php-sha1.scm): a message comes *)
(* in pieces and is cut into blocks, of which the last ones are filled up  *)
(* and end with the length of the message in bits, kept in two words.      *)
(*                                                                         *)
(* What the function makes of a block is left open: the digest is the      *)
(* blocks that went into it, and its octets may be any.  The message has   *)
(* octet Octet(i) in place i.                                              *)
(***************************************************************************)
EXTENDS Integers, Sequences, Powers

CONSTANTS
    Block,          \* octets in a block: 64
    LengthOctets,   \* at the end of the last one, for both words: 8
    OctetBits,      \* 8
    Pieces,         \* the lengths of what is read at once
    MaxMessage,     \* bound: octets of a message
    DigestOctets    \* 20

OctetSize == PowersOf(2)[OctetBits]
WordOctets == LengthOctets \div 2  \* the octets of a word
WordSize == PowersOf(OctetSize)[WordOctets]

ASSUME Sha1Assumption ==
    /\ OctetBits \in {2, 4, 6, 8} /\ LengthOctets \in {2 * k : k \in 1..Block}
    /\ Block \in Nat /\ Block > LengthOctets /\ Pieces \subseteq Nat
    /\ MaxMessage \in Nat /\ DigestOctets \in Nat
    /\ WordSize % OctetBits = 0

VARIABLES
    context,    \* SHA1Context
    fed,        \* octets that were read
    hex         \* the digits that sha1 returns

hashing == <<context, fed, hex>>

Octet(i) == i % OctetSize
Nothing == <<-1>>

SHA1Reset ==
    [blocks |-> <<>>, block |-> <<>>, low |-> 0, high |-> 0, computed |-> FALSE,
     corrupted |-> FALSE]

Sha1Init == context = SHA1Reset /\ fed = 0 /\ hex = Nothing

-----------------------------------------------------------------------------
SHA1ProcessMessageBlock(c) == [c EXCEPT !.blocks = Append(@, c.block), !.block = <<>>]

(* One octet: into the block and into the length, whose carry out of the    *)
(* second word makes the message too long.                                  *)
Take(c, octet) ==
    LET low == (c.low + OctetBits) % WordSize
        high == IF low = 0 THEN (c.high + 1) % WordSize ELSE c.high
        taken == [c EXCEPT !.block = Append(@, octet), !.low = low, !.high = high,
                           !.corrupted = low = 0 /\ high = 0]
    IN IF c.corrupted THEN c
       ELSE IF Len(taken.block) = Block THEN SHA1ProcessMessageBlock(taken) ELSE taken

SHA1Input(c, octets) ==
    LET after[n \in 0..Len(octets)] == IF n = 0 THEN c ELSE Take(after[n - 1], octets[n])
    IN IF octets # <<>> /\ (c.computed \/ c.corrupted) THEN [c EXCEPT !.corrupted = TRUE]
       ELSE after[Len(octets)]

(* Zeros up to a place in the block.                                        *)
Filled(block, place) == block \o [i \in 1..(place - Len(block)) |-> 0]

(* The octets of the length, the first one first.                           *)
LengthAsOctets(c) ==
    LET octets(w) == [i \in 1..WordOctets |->
                        (w \div PowersOf(OctetSize)[WordOctets - i]) % OctetSize]
    IN octets(c.high) \o octets(c.low)

(* Whether the first bit and the length do not fit the block.               *)
(* Mutant: the octet of that bit is forgotten.                              *)
TooSmallForLength(block) == Len(block) > Block - LengthOctets

TooSmall(block) == Len(block) > Block - LengthOctets - 1

SHA1PadMessage(c) ==
    LET begun == [c EXCEPT !.block = Append(@, OctetSize \div 2)]
        room == Block - LengthOctets
        last == IF TooSmall(c.block)
                THEN SHA1ProcessMessageBlock([begun EXCEPT !.block = Filled(@, Block)])
                ELSE begun
    IN SHA1ProcessMessageBlock(
           [last EXCEPT !.block = SubSeq(Filled(@, room), 1, room) \o LengthAsOctets(c)])

SHA1Result(c) ==
    IF c.corrupted \/ c.computed THEN c ELSE [SHA1PadMessage(c) EXCEPT !.computed = TRUE]

(* unsigned->string: as many digits as a number has, and one of 0.          *)
Radix == PowersOf(2)[OctetBits \div 2]
HexOf(n) == IF n < Radix THEN <<n>> ELSE <<n \div Radix, n % Radix>>

HexDigits(digest) ==
    LET d[n \in 0..DigestOctets] == IF n = 0 THEN <<>> ELSE d[n - 1] \o HexOf(digest[n])
    IN d[DigestOctets]

-----------------------------------------------------------------------------
(* The loop of sha1 over a port, and what follows it.                       *)
Read(n) ==
    /\ hex = Nothing /\ fed + n <= MaxMessage
    /\ context' = SHA1Input(context, [i \in 1..n |-> Octet(fed + i)])
    /\ fed' = fed + n
    /\ UNCHANGED hex

AtEof ==
    /\ hex = Nothing
    /\ context' = SHA1Result(context)
    /\ \E digest \in [1..DigestOctets -> 0..(OctetSize - 1)] : hex' = HexDigits(digest)
    /\ UNCHANGED fed

Sha1Next == (\E n \in Pieces : Read(n)) \/ AtEof

Sha1Spec == Sha1Init /\ [][Sha1Next]_hashing

-----------------------------------------------------------------------------
(* What is hashed is the message, a bit, as many zeros as make the whole a  *)
(* number of blocks and no more, and its length, in whatever pieces it was  *)
(* read; only a message whose length does not fit two words is not hashed.  *)
Length == OctetBits * fed
Hashed(c, i) == c.blocks[((i - 1) \div Block) + 1][((i - 1) % Block) + 1]

Padded(c, octets) ==
    LET all == Block * Len(c.blocks)
        zeros == all - ((octets + 1) + LengthOctets)
        number[i \in 0..LengthOctets] ==
            IF i = 0 THEN 0
            ELSE (number[i - 1] * OctetSize) + Hashed(c, (all - LengthOctets) + i)
    IN /\ \A b \in DOMAIN c.blocks : Len(c.blocks[b]) = Block
       /\ zeros \in 0..(Block - 1)
       /\ \A i \in 1..(all - LengthOctets) :
             Hashed(c, i) = IF i <= octets THEN Octet(i)
                            ELSE IF i = octets + 1 THEN OctetSize \div 2 ELSE 0
       /\ number[LengthOctets] = OctetBits * octets

HashesPadded ==
    /\ context.corrupted <=> Length >= WordSize * WordSize
    /\ context.computed => Padded(context, fed)

(* php-sha1.scm:48 says "convert to 40 digit hex string": two digits of     *)
(* every octet.                                                             *)
HexIsWhole == hex # Nothing => Len(hex) = 2 * DigestOctets
=============================================================================
