------------------------------- MODULE Powers -------------------------------
(***************************************************************************)
(* Powers of a whole number, as a function: the weights of the digits of a *)
(* number, and the sizes of words of a number of bits.                     *)
(***************************************************************************)
EXTENDS Integers

PowersOf(b) == LET p[n \in Nat] == IF n = 0 THEN 1 ELSE b * p[n - 1] IN p
=============================================================================
