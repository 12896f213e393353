------------------------------ MODULE FcgiPool ------------------------------
(***************************************************************************)
(* The process pool of pcc_fcgi_spawn (c-fcgi.c): a parent that forks up   *)
(* to NumChildren workers, waits for one to end and forks again, and that  *)
(* passes a signal it gets on to its process group before it goes.  A      *)
(* child starts with the parent's handlers and puts the old ones back one  *)
(* by one.  It then serves requests (the loop of fastcgi.scm) until it has *)
(* served as many as it should or there is nothing more to accept.         *)
(***************************************************************************)
EXTENDS Integers, FiniteSets

CONSTANTS
    Pids,           \* processes the system may make
    NumChildren,    \* PHP_FCGI_CHILDREN; without children there is no pool
    Sent            \* the signals that somebody may send

Signals == {"TERM", "INT", "QUIT"}

ASSUME PoolAssumption ==
    /\ IsFiniteSet(Pids)
    /\ NumChildren \in Nat \ {0} /\ Sent \subseteq Signals

VARIABLES
    parent,     \* "up", "restored" and "told" in the handler, or "gone"
    catching,   \* the signal its handler was called for, blocked meanwhile
    mail,       \* the signals on their way to the parent
    forked,     \* "running" of the code: the parent's count of its children
    child,      \* "none", "newborn", "serving", or "zombie" until waited for
    handles,    \* the signals for which a child has the parent's handler
    pending     \* the signals on their way to a child

pool == <<parent, catching, mail, forked, child, handles, pending>>

None == "none"
Alive == {c \in Pids : child[c] \in {"newborn", "serving"}}

PoolInit ==
    /\ parent = "up" /\ catching = None /\ mail = {} /\ forked = 0
    /\ child = [c \in Pids |-> "none"]
    /\ handles = [c \in Pids |-> {}] /\ pending = [c \in Pids |-> {}]

-----------------------------------------------------------------------------
(* The parent: the spawn loop, and wait when there are enough.  A fork that *)
(* fails ends the parent and leaves the children.  A signal that is there   *)
(* is delivered before the process goes on.  Mutants: a count taken down     *)
(* only by the last child, and a wait for the whole generation.              *)
Undisturbed == parent = "up" /\ mail = {}

Fork(c) ==
    /\ Undisturbed /\ forked < NumChildren /\ child[c] = "none"
    /\ child' = [child EXCEPT ![c] = "newborn"]
    /\ handles' = [handles EXCEPT ![c] = Signals]
    /\ pending' = [pending EXCEPT ![c] = {}]
    /\ forked' = forked + 1
    /\ UNCHANGED <<parent, catching, mail>>

ForkFails ==
    /\ Undisturbed /\ forked < NumChildren
    /\ parent' = "gone"
    /\ UNCHANGED <<catching, mail, forked, child, handles, pending>>

WaitUncounted(c) ==
    /\ Undisturbed /\ forked >= NumChildren /\ child[c] = "zombie"
    /\ child' = [child EXCEPT ![c] = "none"]
    /\ forked' = IF Alive = {} THEN forked - 1 ELSE forked
    /\ UNCHANGED <<parent, catching, mail, handles, pending>>

WaitForAll(c) ==
    /\ Undisturbed /\ forked >= NumChildren /\ child[c] = "zombie" /\ Alive = {}
    /\ child' = [child EXCEPT ![c] = "none"]
    /\ forked' = forked - 1
    /\ UNCHANGED <<parent, catching, mail, handles, pending>>

Wait(c) ==
    /\ Undisturbed /\ forked >= NumChildren /\ child[c] = "zombie"
    /\ child' = [child EXCEPT ![c] = "none"]
    /\ forked' = forked - 1
    /\ UNCHANGED <<parent, catching, mail, handles, pending>>

(* catch_fcgi_shutdown, in the parent.  Once TERM has its old action again, *)
(* a TERM that comes for real ends the parent before it has told anybody,   *)
(* unless the handler runs for a TERM, which then is blocked.  Mutant: kill  *)
(* of the children that serve, instead of the group.                         *)
Catch(sig) ==
    /\ parent = "up" /\ sig \in mail
    /\ parent' = "restored" /\ catching' = sig /\ mail' = mail \ {sig}
    /\ UNCHANGED <<forked, child, handles, pending>>

CutShort ==
    /\ parent = "restored" /\ catching # "TERM" /\ "TERM" \in mail
    /\ parent' = "gone" /\ mail' = {}
    /\ UNCHANGED <<catching, forked, child, handles, pending>>

ToGroup == [c \in Pids |-> IF c \in Alive THEN pending[c] \cup {"TERM"} ELSE pending[c]]

TellServing ==
    /\ parent = "restored"
    /\ parent' = "told"
    /\ pending' = [c \in Pids |-> IF child[c] = "serving" THEN pending[c] \cup {"TERM"}
                                  ELSE pending[c]]
    /\ UNCHANGED <<catching, mail, forked, child, handles>>

Tell ==
    /\ parent = "restored"
    /\ parent' = "told"
    /\ pending' = ToGroup
    /\ UNCHANGED <<catching, mail, forked, child, handles>>

-----------------------------------------------------------------------------
(* A child puts the old actions back in this order, and then serves.        *)
FirstOf(sigs) == IF "TERM" \in sigs THEN "TERM" ELSE IF "QUIT" \in sigs THEN "QUIT" ELSE "INT"

RestoreOne(c) ==
    /\ child[c] = "newborn"
    /\ handles' = [handles EXCEPT ![c] = @ \ {FirstOf(@)}]
    /\ child' = IF handles'[c] = {} THEN [child EXCEPT ![c] = "serving"] ELSE child
    /\ UNCHANGED <<parent, catching, mail, forked, pending>>

(* The loop ends at the limit, or when there is nothing more to accept.     *)
ChildEnds(c) ==
    /\ child[c] = "serving"
    /\ child' = [child EXCEPT ![c] = "zombie"]
    /\ pending' = [pending EXCEPT ![c] = {}]
    /\ UNCHANGED <<parent, catching, mail, forked, handles>>

(* A signal with its old action ends a child; with the parent's handler it  *)
(* makes the child tell the whole group, the parent included, and end.      *)
Die(c, sig) ==
    /\ c \in Alive /\ sig \in pending[c] /\ sig \notin handles[c]
    /\ child' = [child EXCEPT ![c] = "zombie"]
    /\ handles' = [handles EXCEPT ![c] = {}] /\ pending' = [pending EXCEPT ![c] = {}]
    /\ UNCHANGED <<parent, catching, mail, forked>>

CatchInChild(c, sig) ==
    /\ c \in Alive /\ sig \in pending[c] /\ sig \in handles[c]
    /\ child' = [child EXCEPT ![c] = "zombie"]
    /\ handles' = [handles EXCEPT ![c] = {}] /\ pending' = [ToGroup EXCEPT ![c] = {}]
    /\ mail' = IF parent = "gone" THEN mail ELSE mail \cup {"TERM"}
    /\ UNCHANGED <<parent, catching, forked>>

(* exit(0), or the TERM the parent has sent to itself.                      *)
ParentExits ==
    /\ parent = "told"
    /\ parent' = "gone" /\ mail' = {}
    /\ UNCHANGED <<catching, forked, child, handles, pending>>

(* Somebody sends a signal to the parent or to one of the children.         *)
SignalParent(sig) ==
    /\ parent # "gone"
    /\ mail' = mail \cup {sig}
    /\ UNCHANGED <<parent, catching, forked, child, handles, pending>>

SignalChild(c, sig) ==
    /\ c \in Alive
    /\ pending' = [pending EXCEPT ![c] = @ \cup {sig}]
    /\ UNCHANGED <<parent, catching, mail, forked, child, handles>>

-----------------------------------------------------------------------------
ParentStep ==
    \/ \E c \in Pids : Fork(c) \/ Wait(c)
    \/ \E sig \in Signals : Catch(sig)
    \/ CutShort \/ Tell \/ ParentExits

ChildStep(c) ==
    \/ RestoreOne(c)
    \/ \E sig \in Signals : Die(c, sig) \/ CatchInChild(c, sig)

PoolNext ==
    \/ ParentStep \/ ForkFails
    \/ \E c \in Pids : ChildStep(c) \/ ChildEnds(c)
    \/ \E sig \in Sent : SignalParent(sig) \/ \E c \in Pids : SignalChild(c, sig)

PoolSpec == PoolInit /\ [][PoolNext]_pool

(* The system runs every process and delivers signals, and wait returns     *)
(* ended children in the order of their age.                                *)
PoolFairness ==
    /\ WF_pool(ParentStep)
    /\ \A c \in Pids : WF_pool(ChildStep(c)) /\ SF_pool(Wait(c))

-----------------------------------------------------------------------------
(* The parent's count is that of the children it has not waited for, and    *)
(* there are never more than it was asked for: it never forks one too many  *)
(* and never waits when there is nobody to wait for.                        *)
CountsChildren ==
    parent # "gone" =>
        /\ forked = Cardinality({c \in Pids : child[c] # "none"})
        /\ forked <= NumChildren

(* When the parent has gone down by its handler, every child that lives has *)
(* been told to: also one that was forked while the signal came and has the *)
(* parent's handlers still.  (A parent that could not fork, or that got a   *)
(* TERM in the middle of another signal's handler, leaves its children.)    *)
ToldAll ==
    parent = "told" => \A c \in Alive : "TERM" \in pending[c]

(* A child that has ended is waited for as long as the parent is up, and    *)
(* after a shutdown nobody is left.                                         *)
PoolMoves ==
    /\ \A c \in Pids : child[c] = "zombie" ~> child[c] # "zombie" \/ parent # "up"
    /\ parent = "told" ~> Alive = {}
=============================================================================
