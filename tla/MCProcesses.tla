---------------------------- MODULE MCProcesses -----------------------------
(***************************************************************************)
(* Three components that share no state with one another, checked side by  *)
(* side: a behaviour picks one of them and the others stay where they are. *)
(***************************************************************************)
EXTENDS MCSessionFiles, FcgiPool, OutputBuffer

VARIABLE focus

processes == <<vars, pool, buffering, focus>>

ProcessView == <<StateView, pool, buffering, focus>>

PInit ==
    /\ focus \in {"sessions", "pool", "buffers"}
    /\ Init /\ PoolInit /\ BufferInit

PNext ==
    /\ UNCHANGED focus
    /\ \/ focus = "sessions" /\ Next /\ UNCHANGED <<pool, buffering>>
       \/ focus = "pool" /\ PoolNext /\ UNCHANGED <<vars, buffering>>
       \/ focus = "buffers" /\ BufferNext /\ UNCHANGED <<vars, pool>>

(* The fairness of each of them, for the one that moves.                    *)
PFairness ==
    /\ \A p \in Procs :
          /\ SF_vars(focus = "sessions" /\ Lock(p))
          /\ WF_vars(focus = "sessions" /\ Starting(p))
          /\ WF_vars(focus = "sessions" /\ DeleteFile(p))
          /\ WF_vars(focus = "sessions" /\ Ending(p))
    /\ WF_pool(focus = "pool" /\ ParentStep)
    /\ \A c \in Pids :
          WF_pool(focus = "pool" /\ ChildStep(c)) /\ SF_pool(focus = "pool" /\ Wait(c))
    /\ WF_buffering(focus = "buffers" /\ BufferStep)
    /\ SF_buffering(focus = "buffers" /\ CallbackReturns)

PSpec == PInit /\ [][PNext]_processes /\ PFairness
=============================================================================
