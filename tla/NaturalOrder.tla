---------------------------- MODULE NaturalOrder ----------------------------
(***************************************************************************)
(* The natural order of strings (ext/standard/strnatcmp.c), which natsort  *)
(* hands to a sort.  Runs of digits compare as numbers, or as fractions    *)
(* when one of them begins with a zero, so the order of two strings is not *)
(* that of their first characters that differ; a sort by it is only worth  *)
(* something if it is an order all the same.                               *)
(*                                                                         *)
(* Strings are sequences of character codes.                               *)
(***************************************************************************)
EXTENDS Integers, Sequences

CONSTANTS
    Strings,    \* what is compared
    FoldCase    \* strnatcasecmp

(* No character is the 0 that ends a string; a char may be signed.           *)
ASSUME OrderAssumption == FoldCase \in BOOLEAN /\ Strings \subseteq Seq(Int \ {0})

VARIABLE compared   \* two strings, and the sign of their comparison

Space == 32
Zero == 48
IsDigit(c) == c \in Zero..57
ToUpper(c) == IF FoldCase /\ c \in 97..122 THEN c - 32 ELSE c

(* What is left of a string; its end is the character 0.                    *)
From(s, i) == SubSeq(s, i, Len(s))
First(s) == IF s = <<>> THEN 0 ELSE s[1]
LeastOr(positions, none) ==
    IF positions = {} THEN none ELSE CHOOSE i \in positions : \A j \in positions : i <= j

SkipSpaces(s) == From(s, LeastOr({i \in DOMAIN s : s[i] # Space}, Len(s) + 1))
Digits(s) == SubSeq(s, 1, LeastOr({i \in DOMAIN s : ~IsDigit(s[i])}, Len(s) + 1) - 1)

Sign(x, y) == IF x < y THEN -1 ELSE IF x > y THEN 1 ELSE 0

(* The first digit that differs decides, then the length.                   *)
compare_left(a, b) ==
    LET x == Digits(a)
        y == Digits(b)
        differ == {i \in DOMAIN x \cap DOMAIN y : x[i] # y[i]}
        i == LeastOr(differ, 0)
    IN IF i = 0 THEN Sign(Len(x), Len(y)) ELSE Sign(x[i], y[i])

(* The length decides, then the first digit that differs, the bias.         *)
compare_right(a, b) ==
    IF Len(Digits(a)) # Len(Digits(b)) THEN Sign(Len(Digits(a)), Len(Digits(b)))
    ELSE compare_left(a, b)

(* Mutant: the zero is looked for in one of the strings only.               *)
IsFractionalLeft(a, b) == First(a) = Zero

IsFractional(a, b) == First(a) = Zero \/ First(b) = Zero

(* One round of the loop, on what is left of the strings.                   *)
Round(a, b) ==
    LET run == IF ~(IsDigit(First(a)) /\ IsDigit(First(b))) THEN 0
               ELSE IF IsFractional(a, b) THEN compare_left(a, b)
               ELSE compare_right(a, b)
    IN IF run # 0 THEN run ELSE Sign(ToUpper(First(a)), ToUpper(First(b)))

(* What is left of a string in round n, the first of which is 0.            *)
Rounds(s) ==
    LET left[n \in Nat] == SkipSpaces(IF n = 0 THEN s ELSE From(left[n - 1], 2))
    IN left

(* The first round that tells, if one does before both strings are over.    *)
strnatcmp0(s, t) ==
    LET round(n) == Round(Rounds(s)[n], Rounds(t)[n])
        last == LeastOr({n \in 0..Len(s) : round(n) # 0}, Len(s))
    IN round(last)

Order == [ab \in Strings \X Strings |-> strnatcmp0(ab[1], ab[2])]

-----------------------------------------------------------------------------
Untold == 2

OrderInit == \E a \in Strings : compared = [a |-> a, b |-> a, sign |-> Untold]

(* One comparison of a sort: the string at hand with another one, and one   *)
(* of the two with the next.                                                *)
Compare(b) ==
    \E a \in {compared.a, compared.b} :
        compared' = [a |-> a, b |-> b, sign |-> Order[<<a, b>>]]

OrderNext == \E b \in Strings : Compare(b)

OrderSpec == OrderInit /\ [][OrderNext]_compared

-----------------------------------------------------------------------------
(* Comparing the other way round gives the other sign, and what follows     *)
(* from two comparisons is what the third one says: a sort may compare      *)
(* whichever two it likes.                                                  *)
SortsByOrder ==
    compared.sign = Untold \/
    LET a == compared.a
        b == compared.b
    IN /\ Order[<<b, a>>] = -compared.sign
       /\ \A c \in Strings :
            compared.sign <= 0 /\ Order[<<b, c>>] <= 0 =>
                /\ Order[<<a, c>>] <= 0
                /\ Order[<<a, c>>] = 0 => compared.sign = 0 /\ Order[<<b, c>>] = 0
=============================================================================
