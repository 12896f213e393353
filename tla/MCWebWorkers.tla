---------------------------- MODULE MCWebWorkers ----------------------------
(***************************************************************************)
(* Instances of WebWorkers for TLC.                                        *)
(***************************************************************************)
EXTENDS WebWorkers

StateView ==
    << dir, sess, step, holder, phase, page, escaped, request,
       [i \in Inodes \ Unused |-> <<data[i], expired[i], saves[i]>>] >>

(* Only one worker gets requests for missing pages and scripts that         *)
(* register what fails, leave session calls, or use sessions after the end  *)
(* of the page: a bound on what the others are asked for, which they have   *)
(* to answer whatever comes of that one.                                    *)
Troubled == CHOOSE p \in Procs : TRUE
Untroubled(p) ==
    /\ request'[p].found /\ ~page'[p].hooks /\ ~page'[p].buffers /\ ~LeaveCall(p)
    /\ phase'[p] \in {"shutdown", "flush"} => step'[p] = "page" /\ sess'[p] = sess[p]

LiveNext == WNext /\ \A p \in Procs \ {Troubled} : Untroubled(p)
LiveSpec == WInit /\ [][LiveNext]_wvars /\ WFairness
=============================================================================
