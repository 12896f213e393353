----------------------------- MODULE MCRequests -----------------------------
(***************************************************************************)
(* The two halves of mod_pcc, the hash tables that what they read ends up  *)
(* in, and a FastCGI worker, side by side: they share no state, a behaviour *)
(* picks one of them and the others stay where they are.                   *)
(***************************************************************************)
EXTENDS MCHashTable, ApacheRequest, ApacheModule, MCWebWorkers

(* Values that fill the buffer, and that look like ends of lines or like    *)
(* the boundary until it goes on.                                           *)
FieldValues ==
    { <<>>, <<"lf", "x">>, <<"x", "lf">>, <<"cr">>, <<"cr", "lf", "-">>, <<"lf", "-", "x">>,
      <<"x", "x", "x">>, <<"x", "x", "x", "lf", "cr">>, <<"x", "x", "x", "x", "x", "cr">>,
      <<"x", "x", "x", "cr", "x", "lf", "x">>, <<"x", "x", "x", "x", "cr", "x", "lf", "x">> }
Field(n, k, v) == [name |-> n, kind |-> k, value |-> v]
MCForms ==
    {<<Field("n1", k, v), Field("n2", "file", w)>> :
        k \in {"field", "file"}, v \in FieldValues, w \in {<<>>, <<"x", "cr">>}}
    \cup {<<Field("n1", "bare", <<>>), Field("n2", "field", v)>> : v \in FieldValues}
MCQueries == {<<>>, <<[name |-> "q", value |-> <<"x">>]>>}

VARIABLE focus

RequestView == <<TableView, asked, apache, StateView, focus>>

(* What does not move starts in one of its initial states.                  *)
AllInit ==
    /\ focus \in {"table", "request", "apache", "worker"}
    /\ RequestInit
    /\ \/ focus = "request"
       \/ /\ input.net = "whole"
          /\ posted = [enc |-> "none", query |-> <<>>, form |-> CHOOSE form \in Forms : TRUE]
    /\ TableInit /\ ApacheInit /\ WInit

AllNext ==
    /\ UNCHANGED focus
    /\ \/ focus = "table" /\ TableNext /\ UNCHANGED <<asked, apache, wvars>>
       \/ focus = "request" /\ RequestNext /\ UNCHANGED <<table, apache, wvars>>
       \/ focus = "apache" /\ ApacheNext /\ UNCHANGED <<table, asked, wvars>>
       \/ focus = "worker" /\ WNext /\ UNCHANGED <<table, asked, apache>>

AllSpec == AllInit /\ [][AllNext]_<<table, asked, apache, wvars, focus>>
=============================================================================
