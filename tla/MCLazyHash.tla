----------------------------- MODULE MCLazyHash -----------------------------
(***************************************************************************)
(* Instances of LazyHash for TLC.  The view forgets the names of stores    *)
(* and cells and what garbage holds: two states with one view have the     *)
(* same future.  Variables are alike, so their names may be permuted.      *)
(***************************************************************************)
EXTENDS LazyHash, TLC

UsedBoxes == Boxes \ FreeBoxes

StateView ==
    << ArrOf, bound,
       [v \in Live |-> count[tab[v].cell]],
       [v \in Live |-> {u \in Live : tab[u].store = tab[v].store}],
       [v \in Live |-> {u \in Live : tab[u].cell = tab[v].cell}],
       [b \in UsedBoxes |-> boxVal[b]] >>

AnyVars == Permutations(Vars)

=============================================================================
