--------------------------- MODULE MCSessionFiles ---------------------------
(***************************************************************************)
(* Instances of SessionFiles for TLC.  Files are numbered, so the choice   *)
(* of an unused one is the same for states that differ by a renaming.      *)
(***************************************************************************)
EXTENDS SessionFiles

StateView ==
    << dir, sess, step, holder,
       [i \in Inodes \ Unused |-> <<data[i], expired[i], saves[i]>>] >>
=============================================================================
