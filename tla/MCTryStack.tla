----------------------------- MODULE MCTryStack -----------------------------
(***************************************************************************)
(* TryStack by itself: an exception class and one derived from it.         *)
(***************************************************************************)
EXTENDS TryStack

MCIsA == [e \in Exceptions |-> {"Base", e}]
=============================================================================
