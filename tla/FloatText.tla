----------------------------- MODULE FloatText ------------------------------
(***************************************************************************)
(* Floats as text (pcc_snprintf.c, for phpnum_to_string of opaque-math.c): *)
(* what printf makes of %e and %f and var_dump of a float.  The digits are *)
(* made one at a time in a buffer, one more than is asked for, and that    *)
(* one rounds the others; a carry that runs out of the first digit moves   *)
(* the decimal point after the digits were placed.                         *)
(*                                                                         *)
(* A number is a whole number of halves, quarters...: num / 2^bits, as a   *)
(* double is, and small enough for its products with 10 to be exact.       *)
(* Text is a sequence of character codes.                                  *)
(***************************************************************************)
EXTENDS Integers, Sequences, Powers

CONSTANTS
    Ndig,       \* NDIG, the digits there is room for: 80
    Numbers,
    Precisions

ASSUME TextAssumption ==
    /\ Ndig \in Nat /\ Ndig > 3
    /\ Numbers \subseteq [num : Int, bits : Nat]
    /\ Precisions \subseteq Nat

VARIABLE printed    \* a number, how it was asked for and its text

Minus == 45
Plus == 43
Dot == 46
CharE == 69
Char(digit) == 48 + digit
Chars(digits) == [i \in DOMAIN digits |-> Char(digits[i])]
Zeros(n) == [i \in 1..n |-> 0]
If(condition, text) == IF condition THEN text ELSE <<>>
Two == PowersOf(2)
Ten == PowersOf(10)

-----------------------------------------------------------------------------
Magnitude(n) == IF n < 0 THEN -n ELSE n
Whole(x) == Magnitude(x.num) \div Two[x.bits]
Rest(x) == Magnitude(x.num) % Two[x.bits]

Decimal[n \in Nat] == IF n = 0 THEN <<>> ELSE Append(Decimal[n \div 10], n % 10)

(* At least one digit.                                                      *)
conv_10(n) == IF n = 0 THEN <<0>> ELSE Decimal[n]

(* The first k digits of part / 2^bits.                                     *)
DigitsAfter(part, bits, k) ==
    LET left[i \in 0..k] == IF i = 0 THEN part ELSE (10 * left[i - 1]) % Two[bits]
    IN [i \in 1..k |-> (10 * left[i - 1]) \div Two[bits]]

(* The zeros after the point, which are no digits of the e format, nor of   *)
(* the f format if no decimals are asked for.                               *)
LeadingZeros(x) ==
    IF Rest(x) = 0 THEN 0
    ELSE CHOOSE k \in 0..x.bits :
            /\ Rest(x) * Ten[k + 1] >= Two[x.bits]
            /\ \A j \in 1..k : Rest(x) * Ten[j] < Two[x.bits]

Capped(n) == IF n >= Ndig - 1 THEN Ndig - 2 ELSE n

(* Mutant: the point stays where it was.                                    *)
CarriedPointKept(point) == point

CarriedPoint(point) == point + 1

(* The digits rounded by the next one, and where the point is.  A carry out *)
(* of the first digit adds a digit in the f format only.                    *)
Rounded(digits, next, point, eflag) ==
    LET last == CHOOSE k \in 0..Len(digits) :
                    /\ \A i \in (k + 1)..Len(digits) : digits[i] = 9
                    /\ k = 0 \/ digits[k] # 9
    IN IF next < 5 THEN [digits |-> digits, point |-> point]
       ELSE IF last = 0
       THEN [digits |-> <<1>> \o Zeros(IF eflag THEN Len(digits) - 1 ELSE Len(digits)),
             point |-> CarriedPoint(point)]
       ELSE [digits |-> [SubSeq(digits, 1, last) EXCEPT ![last] = @ + 1]
                        \o Zeros(Len(digits) - last),
             point |-> point]

(* ndigits significant digits (eflag) or decimals.  Where they do not fit   *)
(* the buffer they are cut and not rounded.                                 *)
pcc_cvt(x, ndigits, eflag) ==
    LET n == Capped(ndigits)
        whole == Decimal[Whole(x)]
        skipped == IF whole # <<>> \/ (~eflag /\ n > 0) THEN 0 ELSE LeadingZeros(x)
        point == IF whole # <<>> THEN Len(whole) ELSE -skipped
        rounding == IF eflag THEN n ELSE n + point
        all(k) == whole \o DigitsAfter(Rest(x) * Ten[skipped], x.bits, k)
    IN IF rounding < 0 THEN [digits |-> <<>>, point |-> point]
       ELSE IF rounding >= Ndig
       THEN [digits |-> SubSeq(all(Ndig), 1, Ndig - 1), point |-> point]
       ELSE Rounded(SubSeq(all(rounding), 1, rounding), all(rounding + 1)[rounding + 1],
                    point, eflag)

-----------------------------------------------------------------------------
Exponent(e, digits) ==
    <<CharE, IF e < 0 THEN Minus ELSE Plus>> \o Chars(digits)

(* The shortest text: no zeros at the end, and an exponent for what is very *)
(* small or ends in too many zeros.                                         *)
pcc_gcvt(x, ndigit) ==
    LET made == pcc_cvt(x, Capped(ndigit), TRUE)
        point == made.point
        used == CHOOSE k \in 1..Len(made.digits) :
                    /\ \A i \in (k + 1)..Len(made.digits) : made.digits[i] = 0
                    /\ k = 1 \/ made.digits[k] # 0
        digits == SubSeq(made.digits, 1, used)
        front == SubSeq(digits \o Zeros(point), 1, point)
        e == point - 1
    IN IF (point >= 0 /\ point - used > 4) \/ point < -3
       THEN Chars(<<digits[1]>>) \o <<Dot>>
            \o Chars(IF used = 1 THEN <<0>> ELSE Tail(digits)) \o Exponent(e, conv_10(Magnitude(e)))
       ELSE IF digits = <<0>> THEN Chars(digits)
       ELSE IF point <= 0 THEN <<Char(0), Dot>> \o Chars(Zeros(-point) \o digits)
       ELSE Chars(front) \o If(used > point, <<Dot>> \o Chars(SubSeq(digits, point + 1, used)))

(* The f format, and the e format with an exponent of two digits or more.   *)
conv_f(x, precision) ==
    LET made == pcc_cvt(x, precision, FALSE)
        front == SubSeq(made.digits, 1, made.point)
        decimals == SubSeq(made.digits, made.point + 1, Len(made.digits))
    IN IF made.point <= 0
       THEN <<Char(0)>> \o If(precision > 0, <<Dot>> \o Chars(Zeros(-made.point)))
            \o Chars(made.digits)
       ELSE Chars(front) \o If(precision > 0, <<Dot>>) \o Chars(decimals)

conv_e(x, precision) ==
    LET made == pcc_cvt(x, precision + 1, TRUE)
        e == made.point - 1
        digits == conv_10(Magnitude(e))
    IN Chars(<<made.digits[1]>>) \o If(precision > 0, <<Dot>>) \o Chars(Tail(made.digits))
       \o Exponent(e, If(Len(digits) = 1, <<0>>) \o digits)

(* efg: 0 for %.*E, 1 for %.*f and 2 for the %.*G of var_dump.              *)
phpnum_to_string(x, precision, efg) ==
    If(x.num < 0, <<Minus>>) \o
    CASE efg = 0 -> conv_e(x, precision)
      [] efg = 1 -> conv_f(x, precision)
      [] efg = 2 -> pcc_gcvt(x, IF precision = 0 THEN 1 ELSE precision)

-----------------------------------------------------------------------------
TextInit == \E x \in Numbers : printed = [x |-> x, efg |-> 0, precision |-> 0, text |-> <<>>]

(* php-strings.scm asks for at least one decimal of the f format.  Bounds:  *)
(* one text of a number, and what is before the point fits the buffer, of   *)
(* the f format with its end; the code drops digits of longer ones.         *)
Convert(efg, precision) ==
    /\ printed.text = <<>>
    /\ efg = 1 => precision > 0 /\ Whole(printed.x) < Ten[Ndig - 1]
    /\ Whole(printed.x) < Ten[Ndig]
    /\ printed' = [printed EXCEPT !.efg = efg, !.precision = precision,
                                  !.text = phpnum_to_string(printed.x, precision, efg)]

TextNext == \E efg \in 0..2, precision \in Precisions : Convert(efg, precision)

TextSpec == TextInit /\ [][TextNext]_printed

-----------------------------------------------------------------------------
(* x * 10^s to the nearest whole number, halves up, and rounded down.       *)
Up(s) == IF s > 0 THEN Ten[s] ELSE 1
RoundedTo(x, s) ==
    LET divisor == Two[x.bits] * Up(-s)
    IN ((2 * (Magnitude(x.num) * Up(s))) + divisor) \div (2 * divisor)
Floor(x, s) == (Magnitude(x.num) * Up(s)) \div (Two[x.bits] * Up(-s))

(* What a text says: digits * 10^scale.  It is read character by character. *)
Unread ==
    [minus |-> FALSE, digits |-> 0, inDecimals |-> FALSE, decimals |-> 0,
     inExponent |-> FALSE, down |-> FALSE, exponent |-> 0]

ReadChar(r, c) ==
    CASE c = CharE -> [r EXCEPT !.inExponent = TRUE]
      [] c = Dot -> [r EXCEPT !.inDecimals = TRUE]
      [] c \in {Plus, Minus} /\ ~r.inExponent -> [r EXCEPT !.minus = (c = Minus)]
      [] c \in {Plus, Minus} /\ r.inExponent -> [r EXCEPT !.down = (c = Minus)]
      [] c \in Char(0)..Char(9) /\ ~r.inExponent ->
            [r EXCEPT !.digits = (10 * @) + (c - Char(0)),
                      !.decimals = IF r.inDecimals THEN @ + 1 ELSE @]
      [] c \in Char(0)..Char(9) /\ r.inExponent -> [r EXCEPT !.exponent = (10 * @) + (c - Char(0))]

ReadFrom(r, s) ==
    LET read[n \in 0..Len(s)] == IF n = 0 THEN r ELSE ReadChar(read[n - 1], s[n])
    IN read[Len(s)]

Reading(s) ==
    LET r == ReadFrom(Unread, s)
    IN [minus |-> r.minus, digits |-> r.digits,
        scale |-> (IF r.down THEN -r.exponent ELSE r.exponent) - r.decimals]

(* Read back, a text is the number rounded to the digits it was asked for,  *)
(* or to as many as there is room for; of a number in the f format that     *)
(* fills the buffer what follows is cut.                                    *)
TextIsRounded ==
    printed.text # <<>> =>
    LET x == printed.x
        read == Reading(printed.text)
        wholes == Len(Decimal[Whole(x)])
        decimals == Capped(printed.precision)
        significant == Capped(IF printed.efg = 0 THEN printed.precision + 1
                              ELSE IF printed.precision = 0 THEN 1 ELSE printed.precision)
        missing == significant - Len(Decimal[read.digits])
    IN /\ read.minus <=> x.num < 0
       /\ IF printed.efg = 1
          THEN IF decimals + wholes < Ndig
               THEN read.scale = -decimals /\ read.digits = RoundedTo(x, decimals)
               ELSE read.scale = wholes + 1 - Ndig /\ read.digits = Floor(x, -read.scale)
          ELSE IF x.num = 0 THEN read.digits = 0
          ELSE /\ printed.efg = 0 => missing = 0
               /\ read.digits * Up(missing) = RoundedTo(x, missing - read.scale) * Up(-missing)
=============================================================================
