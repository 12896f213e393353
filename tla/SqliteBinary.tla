---------------------------- MODULE SqliteBinary ----------------------------
(***************************************************************************)
(* Binary strings in SQL text (ext/sqlite/encode.c, and its use by         *)
(* php-sqlite.scm).  SQLite takes a string up to its first 0 and between   *)
(* quotes, so the bytes are shifted by an offset that leaves few of them   *)
(* to be escaped.  The text is told from a plain string by a 1 in front.   *)
(***************************************************************************)
EXTENDS Integers, Sequences, FiniteSets

CONSTANTS
    Bytes,      \* how many values a byte has: 256
    Quote,      \* the quote among them: 39
    MaxLength   \* bound: length of the strings

ASSUME BinaryAssumption ==
    /\ Bytes \in Nat /\ Quote \in 3..(Bytes - 2) /\ Bytes > 5
    /\ MaxLength \in Nat

VARIABLES
    bytes,      \* the string that was stored
    column      \* how it was stored

stored == <<bytes, column>>

Byte == 0..(Bytes - 1)
Escape == 1
Special == {0, Escape, Quote}

(* cnt, and the escapes that an offset costs.                               *)
Count(s, b) == Cardinality({i \in DOMAIN s : s[i] = b % Bytes})
Cost(s, e) == Count(s, e) + Count(s, e + Escape) + Count(s, e + Quote)

(* The first of the offsets that cost least.                                *)
Offsets == (1..(Bytes - 1)) \ {Quote}
Offset(s) ==
    CHOOSE e \in Offsets :
        \A f \in Offsets : Cost(s, f) <= Cost(s, e) => Cost(s, f) = Cost(s, e) /\ e <= f

(* Mutant: the quote is not escaped.                                        *)
EncodedByteQuote(x) == IF x \in {0, Escape} THEN <<Escape, x + 1>> ELSE <<x>>

EncodedByte(x) == IF x \in Special THEN <<Escape, x + 1>> ELSE <<x>>

(* The offset, then byte by byte; of no bytes it makes an x.                *)
Encoded(s, e) ==
    LET text[n \in 0..Len(s)] ==
            IF n = 0 THEN <<>> ELSE text[n - 1] \o EncodedByte((s[n] - e) % Bytes)
    IN text

sqlite_encode_binary(s) ==
    IF s = <<>> THEN <<Bytes - 1>> ELSE <<Offset(s)>> \o Encoded(s, Offset(s))[Len(s)]

(* Whether the last one was the escape, and what came out.                  *)
DecodedByte(got, c, e) ==
    IF got.escaped THEN [escaped |-> FALSE, out |-> Append(got.out, (c - 1 + e) % Bytes)]
    ELSE IF c = Escape THEN [got EXCEPT !.escaped = TRUE]
    ELSE [got EXCEPT !.out = Append(@, (c + e) % Bytes)]

Decoded(code, e) ==
    LET got[n \in 0..Len(code)] ==
            IF n = 0 THEN [escaped |-> FALSE, out |-> <<>>]
            ELSE DecodedByte(got[n - 1], code[n], e)
    IN got

sqlite_decode_binary(text) == Decoded(Tail(text), Head(text))[Len(text) - 1].out

(* php-sqlite.scm: only strings with a 0, or a 1 in front, are encoded.     *)
IsBinStr(s) == s # <<>> /\ (s[1] = Escape \/ \E i \in DOMAIN s : s[i] = 0)
EncodeBinary(s) == IF IsBinStr(s) THEN <<Escape>> \o sqlite_encode_binary(s) ELSE s
DecodeBinary(t) ==
    IF t # <<>> /\ t[1] = Escape THEN sqlite_decode_binary(Tail(t)) ELSE t

(* The room it asks for, times Bytes - 2.                                   *)
Room2(s) == (Len(s) + Bytes - 2) * (Bytes + 1) + 3 * (Bytes - 2)

-----------------------------------------------------------------------------
SqliteInit == bytes = <<>> /\ column = <<>>

Store(b) ==
    /\ Len(bytes) < MaxLength
    /\ bytes' = Append(bytes, b)
    /\ column' = EncodeBinary(bytes')

SqliteNext == \E b \in Byte : Store(b)

SqliteSpec == SqliteInit /\ [][SqliteNext]_stored

-----------------------------------------------------------------------------
(* What is read is what was stored.  A binary string is stored without 0    *)
(* and without quotes, in the room that was asked for, its end included.    *)
BinaryKept ==
    /\ DecodeBinary(column) = bytes
    /\ IsBinStr(bytes) =>
          /\ \A i \in DOMAIN column : column[i] \notin {0, Quote}
          /\ (Len(column) + 1) * (Bytes - 2) <= Room2(bytes)
=============================================================================
