---------------------------- MODULE SessionFiles ----------------------------
(***************************************************************************)
(* PHP sessions in files, runtime/ext/standard/php-session.scm: several    *)
(* processes serve pages, a page opens and locks the file of its session,  *)
(* reads it, and at its end truncates it, writes it and lets the lock go.  *)
(* Each step below is one call another process can see the effect of.      *)
(*                                                                         *)
(* The page is a script that adds one to a counter kept in $_SESSION every *)
(* time it opens a session, so what a file holds is a number, 0 for an     *)
(* empty file, and its length is taken to be that number.  saves is what   *)
(* the number has to be.  The in-house handlers are modelled, not those a  *)
(* script sets with session_set_save_handler, and one save path.           *)
(*                                                                         *)
(* Script code runs inside session calls: the error handler of a warning,  *)
(* __wakeup of what is read and __sleep of what is saved.  An exit, a fatal *)
(* error or an exception there leaves the call where it is.                *)
(***************************************************************************)
EXTENDS Integers, FiniteSets

CONSTANTS
    Procs,      \* processes that serve pages
    Sids,       \* session ids
    Inodes,     \* files
    NoFile,     \* no such file, or no file open
    Nobody,     \* nobody holds the lock
    Unset,      \* the session id before there is one
    MaxVisits,  \* bound: the counter stops there
    CollectGarbage, ChangeIds, MayCrash,   \* what an instance lets happen
    MayFailOpen,                           \* fopen of a session file may fail
    Reopen,     \* a page may open a session after it has closed one
    MayRaise    \* script code in a session call may leave it

ASSUME SessionAssumption ==
    /\ MaxVisits \in Nat
    /\ IsFiniteSet(Inodes)
    /\ NoFile \notin Inodes
    /\ Nobody \notin Procs
    /\ Unset \notin Sids
    /\ {CollectGarbage, ChangeIds, MayCrash, MayFailOpen, Reopen, MayRaise}
          \subseteq BOOLEAN

VARIABLES
    dir,        \* the file each session id names in the save path
    data,       \* what each file holds
    expired,    \* whether a file was modified longer ago than gc_maxlifetime
    holder,     \* who holds the lock on each file
    saves,      \* the visits that were saved into each file
    sess,       \* the current session of each process
    step        \* where each process is

vars == <<dir, data, expired, holder, saves, sess, step>>

Steps == {"page", "lock", "measure", "gc", "unlink", "read", "write", "destroy"}

Session == [active: BOOLEAN, sid: Sids \cup {Unset}, fd: Inodes \cup {NoFile},
            size: -1 .. MaxVisits, visits: 0 .. MaxVisits,
            todo: SUBSET Sids, doomed: Sids \cup {Unset}]

TypeOK ==
    /\ dir \in [Sids -> Inodes \cup {NoFile}]
    /\ data \in [Inodes -> 0 .. MaxVisits]
    /\ expired \in [Inodes -> BOOLEAN]
    /\ holder \in [Inodes -> Procs \cup {Nobody}]
    /\ saves \in [Inodes -> 0 .. MaxVisits]
    /\ sess \in [Procs -> Session]
    /\ step \in [Procs -> Steps]

(* What a page begins with.  visits is the counter in $_SESSION, which      *)
(* php-session-reset leaves alone and the end of the page clears.           *)
NoSession == [active |-> FALSE, sid |-> Unset, fd |-> NoFile, size |-> 0,
              visits |-> 0, todo |-> {}, doomed |-> Unset]

Closed(p) == [NoSession EXCEPT !.visits = sess[p].visits]

Init ==
    /\ dir = [s \in Sids |-> NoFile]
    /\ data = [i \in Inodes |-> 0]
    /\ expired = [i \in Inodes |-> FALSE]
    /\ holder = [i \in Inodes |-> Nobody]
    /\ saves = [i \in Inodes |-> 0]
    /\ sess = [p \in Procs |-> NoSession]
    /\ step = [p \in Procs |-> "page"]

Linked(i) == \E s \in Sids : dir[s] = i
Unused == {i \in Inodes : ~Linked(i) /\ \A p \in Procs : sess[p].fd # i}

CountUp(n) == IF n < MaxVisits THEN n + 1 ELSE n

At(p, here) == step[p] = here
Goto(p, there) == step' = [step EXCEPT ![p] = there]

-----------------------------------------------------------------------------
FreshFile == {i \in Unused : i = CHOOSE j \in Unused : TRUE}

(* The dice decide whether a page that opens a session collects garbage.    *)
RollDice(p, se) ==
    \/ sess' = [sess EXCEPT ![p] = se] /\ Goto(p, "read")
    \/ /\ CollectGarbage
       /\ sess' = [sess EXCEPT ![p] =
                     [se EXCEPT !.todo = {s \in Sids : dir[s] # NoFile}]]
       /\ Goto(p, "gc")

MayStart(p) ==
    At(p, "page") /\ ~sess[p].active /\ (Reopen \/ sess[p].visits = 0)

(* session_start.  The id comes from the cookie, the request, an earlier    *)
(* session_id() or the generator.  fopen "a+" makes the file if need be;    *)
(* when it fails the session goes on without a file.                        *)
Start(p, s) ==
    /\ MayStart(p)
    /\ \E i \in IF dir[s] = NoFile THEN FreshFile ELSE {dir[s]} :
          /\ dir' = [dir EXCEPT ![s] = i]
          /\ data' = IF dir[s] = i THEN data ELSE [data EXCEPT ![i] = 0]
          /\ saves' = IF dir[s] = i THEN saves ELSE [saves EXCEPT ![i] = 0]
          /\ expired' = IF dir[s] = i THEN expired ELSE [expired EXCEPT ![i] = FALSE]
          /\ sess' = [sess EXCEPT ![p].active = TRUE, ![p].sid = s, ![p].fd = i]
          /\ Goto(p, "lock")
    /\ UNCHANGED holder

Lost(p, s) == [sess[p] EXCEPT !.active = TRUE, !.sid = s]
StartLost(p, s) ==
    /\ MayFailOpen
    /\ MayStart(p)
    /\ RollDice(p, Lost(p, s))
    /\ UNCHANGED <<dir, data, expired, holder, saves>>

(* ... and is left by the handler of the warning that says so.              *)
StartLeft(p, s) ==
    /\ MayRaise /\ MayFailOpen
    /\ MayStart(p)
    /\ sess' = [sess EXCEPT ![p] = Lost(p, s)]
    /\ UNCHANGED <<dir, data, expired, holder, saves, step>>

(* Mutant: the lock is not exclusive. *)
LockShared(p) ==
    /\ At(p, "lock")
    /\ holder' = [holder EXCEPT ![sess[p].fd] = p]
    /\ Goto(p, "measure")
    /\ UNCHANGED <<dir, data, expired, saves, sess>>

(* flock LOCK_EX blocks until the file is free. *)
Lock(p) ==
    /\ At(p, "lock")
    /\ holder[sess[p].fd] = Nobody
    /\ holder' = [holder EXCEPT ![sess[p].fd] = p]
    /\ Goto(p, "measure")
    /\ UNCHANGED <<dir, data, expired, saves, sess>>

(* file-size takes the NAME; it answers -1 if the file is gone.             *)
Measured(p) ==
    [sess[p] EXCEPT !.size =
        IF dir[sess[p].sid] = NoFile THEN -1 ELSE data[dir[sess[p].sid]]]

Measure(p) ==
    /\ At(p, "measure")
    /\ RollDice(p, Measured(p))
    /\ UNCHANGED <<dir, data, expired, holder, saves>>

(* The cookie comes too late, or the cache limiter is unknown, and the      *)
(* handler of that warning leaves the session open, locked and unread.      *)
MeasureLeft(p) ==
    /\ MayRaise
    /\ At(p, "measure")
    /\ sess' = [sess EXCEPT ![p] = Measured(p)]
    /\ Goto(p, "page")
    /\ UNCHANGED <<dir, data, expired, holder, saves>>

(* session-files-gc looks at the modification time of one file after the    *)
(* other, and deletes what it found expired by name.                        *)
FoundExpired(s) == IF dir[s] = NoFile THEN TRUE ELSE expired[dir[s]]

Collect(p) ==
    /\ At(p, "gc")
    /\ \/ \E s \in sess[p].todo :
             \/ /\ FoundExpired(s)
                /\ sess' = [sess EXCEPT ![p].todo = @ \ {s}, ![p].doomed = s]
                /\ Goto(p, "unlink")
             \/ /\ ~FoundExpired(s)
                /\ sess' = [sess EXCEPT ![p].todo = @ \ {s}]
                /\ UNCHANGED step
       \/ sess[p].todo = {} /\ Goto(p, "read") /\ UNCHANGED sess
    /\ UNCHANGED <<dir, data, expired, holder, saves>>

Unlink(p) ==
    /\ At(p, "unlink")
    /\ dir' = [dir EXCEPT ![sess[p].doomed] = NoFile]
    /\ sess' = [sess EXCEPT ![p].doomed = Unset]
    /\ Goto(p, "gc")
    /\ UNCHANGED <<data, expired, holder, saves>>

(* fread of the measured size.  A size that is not the file's reads a part, *)
(* or nothing.  What is read is decoded INTO $_SESSION, whose variables stay *)
(* when the file has none.  The page then counts its visit.                 *)
Loaded(p) ==
    IF sess[p].fd = NoFile THEN {0}
    ELSE IF sess[p].size >= data[sess[p].fd] THEN {data[sess[p].fd]}
    ELSE 0 .. data[sess[p].fd]

Decoded(p, n) == IF n = 0 THEN sess[p].visits ELSE n

Read(p) ==
    /\ At(p, "read") /\ sess[p].size >= 0
    /\ \E n \in Loaded(p) :
          sess' = [sess EXCEPT ![p].visits = CountUp(Decoded(p, n))]
    /\ Goto(p, "page")
    /\ UNCHANGED <<dir, data, expired, holder, saves>>

(* __wakeup of something in the file leaves: the variables before it are in *)
(* $_SESSION, and the page does not count a visit.                          *)
ReadLeft(p) ==
    /\ MayRaise
    /\ At(p, "read") /\ sess[p].size >= 0
    /\ \E n \in Loaded(p) \ {0} : \E v \in {sess[p].visits, n} :
          sess' = [sess EXCEPT ![p].visits = v]
    /\ Goto(p, "page")
    /\ UNCHANGED <<dir, data, expired, holder, saves>>

(* A string of -1 bytes cannot be made: the page ends in an error.          *)
ReadFails(p) ==
    /\ At(p, "read") /\ sess[p].size < 0
    /\ Goto(p, "page")
    /\ UNCHANGED <<dir, data, expired, holder, saves, sess>>

-----------------------------------------------------------------------------
(* session_id(s), and session_regenerate_id() when nothing is named s.      *)
ChangeId(p, s) ==
    /\ ChangeIds
    /\ At(p, "page")
    /\ sess' = [sess EXCEPT ![p].sid = s]
    /\ UNCHANGED <<dir, data, expired, holder, saves, step>>

(* Mutants: unlocked before it is written; written and never unlocked;      *)
(* unlocked when the writing is left.                                       *)
TruncateUnlocked(p) ==
    /\ At(p, "page") /\ sess[p].active /\ sess[p].fd # NoFile
    /\ data' = [data EXCEPT ![sess[p].fd] = 0]
    /\ expired' = [expired EXCEPT ![sess[p].fd] = FALSE]
    /\ holder' = [holder EXCEPT ![sess[p].fd] = Nobody]
    /\ Goto(p, "write")
    /\ UNCHANGED <<dir, saves, sess>>

WriteAndKeep(p) ==
    /\ At(p, "write")
    /\ data' = [data EXCEPT ![sess[p].fd] = sess[p].visits]
    /\ saves' = [saves EXCEPT ![sess[p].fd] = CountUp(@)]
    /\ expired' = [expired EXCEPT ![sess[p].fd] = FALSE]
    /\ sess' = [sess EXCEPT ![p] = Closed(p)]
    /\ Goto(p, "page")
    /\ UNCHANGED <<dir, holder>>

WriteLeftUnlocked(p) ==
    /\ MayRaise
    /\ At(p, "write")
    /\ holder' = [holder EXCEPT ![sess[p].fd] = Nobody]
    /\ Goto(p, "page")
    /\ UNCHANGED <<dir, data, expired, saves, sess>>

(* php-session-reset, from session_write_close() and at the end of a page:  *)
(* truncate; write and update the modification time; unlock and close, then *)
(* forget the session.                                                      *)
Truncate(p) ==
    /\ At(p, "page") /\ sess[p].active /\ sess[p].fd # NoFile
    /\ data' = [data EXCEPT ![sess[p].fd] = 0]
    /\ expired' = [expired EXCEPT ![sess[p].fd] = FALSE]
    /\ Goto(p, "write")
    /\ UNCHANGED <<dir, holder, saves, sess>>

Write(p) ==
    /\ At(p, "write")
    /\ data' = [data EXCEPT ![sess[p].fd] = sess[p].visits]
    /\ saves' = [saves EXCEPT ![sess[p].fd] = CountUp(@)]
    /\ expired' = [expired EXCEPT ![sess[p].fd] = FALSE]
    /\ holder' = [holder EXCEPT ![sess[p].fd] = Nobody]
    /\ sess' = [sess EXCEPT ![p] = Closed(p)]
    /\ Goto(p, "page")
    /\ UNCHANGED dir

(* __sleep of something in $_SESSION leaves after the file was truncated:   *)
(* it stays empty, open and locked until it is written again or let go.     *)
WriteLeft(p) ==
    /\ MayRaise
    /\ At(p, "write")
    /\ Goto(p, "page")
    /\ UNCHANGED <<dir, data, expired, holder, saves, sess>>

(* ... when there is no session, or it has no file any more.                *)
Forget(p) ==
    /\ At(p, "page") /\ sess[p].fd = NoFile
    /\ sess' = [sess EXCEPT ![p] = Closed(p)]
    /\ UNCHANGED <<dir, data, expired, holder, saves, step>>

(* The page is over: the superglobals are reset.                            *)
EndPage(p) ==
    /\ At(p, "page") /\ ~sess[p].active
    /\ sess' = [sess EXCEPT ![p] = NoSession]
    /\ UNCHANGED <<dir, data, expired, holder, saves, step>>

(* Mutant: the lock stays with the process. *)
DestroyLocked(p) ==
    /\ At(p, "page") /\ sess[p].active
    /\ sess' = [sess EXCEPT ![p].fd = NoFile]
    /\ Goto(p, "destroy")
    /\ UNCHANGED <<dir, data, expired, holder, saves>>

(* session_destroy: unlock and close, then delete the file of the id the    *)
(* session has now, and clear $_SESSION.  The session stays active, without  *)
(* a file.                                                                  *)
Destroy(p) ==
    /\ At(p, "page") /\ sess[p].active
    /\ holder' = [i \in Inodes |-> IF i = sess[p].fd THEN Nobody ELSE holder[i]]
    /\ sess' = [sess EXCEPT ![p].fd = NoFile]
    /\ Goto(p, "destroy")
    /\ UNCHANGED <<dir, data, expired, saves>>

DeleteFile(p) ==
    /\ At(p, "destroy")
    /\ dir' = [dir EXCEPT ![sess[p].sid] = NoFile]
    /\ sess' = [sess EXCEPT ![p].visits = 0]
    /\ Goto(p, "page")
    /\ UNCHANGED <<data, expired, holder, saves>>

-----------------------------------------------------------------------------
(* The process is killed and another takes its place: the system closes its *)
(* file, which unlocks it.  Killed between truncating and writing, it       *)
(* leaves an empty file.                                                    *)
Crash(p) ==
    /\ MayCrash
    /\ holder' = [i \in Inodes |-> IF holder[i] = p THEN Nobody ELSE holder[i]]
    /\ saves' = IF At(p, "write") THEN [saves EXCEPT ![sess[p].fd] = 0] ELSE saves
    /\ sess' = [sess EXCEPT ![p] = NoSession]
    /\ Goto(p, "page")
    /\ UNCHANGED <<dir, data, expired>>

(* A file gets older than gc_maxlifetime. *)
Expire(i) ==
    /\ CollectGarbage
    /\ Linked(i)
    /\ expired' = [expired EXCEPT ![i] = TRUE]
    /\ UNCHANGED <<dir, data, holder, saves, sess, step>>

Opening(p) == Measure(p) \/ Collect(p) \/ Unlink(p) \/ Read(p)
Starting(p) == Opening(p) \/ ReadFails(p)
Left(p) == MeasureLeft(p) \/ ReadLeft(p) \/ WriteLeft(p)
Ending(p) == Truncate(p) \/ Write(p) \/ (sess[p].active /\ Forget(p))

Next ==
    \/ \E p \in Procs :
          \/ Lock(p) \/ Starting(p) \/ Truncate(p) \/ Write(p) \/ Forget(p)
          \/ EndPage(p) \/ Destroy(p) \/ DeleteFile(p) \/ Left(p) \/ Crash(p)
          \/ \E s \in Sids :
                Start(p, s) \/ StartLost(p, s) \/ StartLeft(p, s) \/ ChangeId(p, s)
    \/ \E i \in Inodes : Expire(i)

Spec == Init /\ [][Next]_vars

(* A process that runs goes on, a page ends, and a process that waits for a *)
(* lock that is released again and again gets it: the kernel queues them.   *)
Fairness ==
    \A p \in Procs :
        /\ SF_vars(Lock(p))
        /\ WF_vars(Starting(p)) /\ WF_vars(DeleteFile(p)) /\ WF_vars(Ending(p))

FairSpec == Spec /\ Fairness

-----------------------------------------------------------------------------
(* The lock of a file is with the one process that has got past flock with  *)
(* it; nobody else keeps it, whatever ids change and files go under it.     *)
LockIsCurrent ==
    \A i \in Inodes, p \in Procs :
        holder[i] = p <=> sess[p].active /\ sess[p].fd = i /\ step[p] # "lock"

(* No visit is lost while the file of a session stays in place: what a new  *)
(* page would read counts every save, although sizes are asked by name and  *)
(* other processes destroy, collect and open sessions at any time.          *)
NoLostVisit ==
    \A s \in Sids : dir[s] # NoFile =>
        \/ data[dir[s]] = saves[dir[s]]
        \/ \E p \in Procs : sess[p].fd = dir[s] /\ step[p] = "write"

(* php-session.scm "session_start -- Initialize session data": what a page  *)
(* then has in $_SESSION comes from the session it has opened.              *)
StartInitializes ==
    [][\A p \in Procs :
         Read(p) => \E n \in Loaded(p) : sess'[p].visits = CountUp(n)]_vars

-----------------------------------------------------------------------------
(* What every step keeps, and NoLostVisit rests on.                         *)

(* Where a process is and what it has open.                                 *)
StepsFit ==
    \A p \in Procs :
        /\ step[p] # "page" => sess[p].active
        /\ sess[p].active => sess[p].sid \in Sids
        /\ step[p] \in {"lock", "measure", "write"} => sess[p].fd # NoFile
        /\ ~sess[p].active \/ step[p] = "destroy" => sess[p].fd = NoFile

OneName == \A s, u \in Sids : dir[s] = dir[u] /\ dir[s] # NoFile => s = u

Starts == {"lock", "measure", "gc", "unlink", "read"}

(* $_SESSION is empty when a session is opened by a page that opens one.    *)
OpensEmpty ==
    ~Reopen => \A p \in Procs : step[p] \in Starts => sess[p].visits = 0

(* A file that is open and still in the save path is under the id that was  *)
(* used to open it, until the page may change its id; the size that was     *)
(* asked for by that name is the size of the open file; and a page that has *)
(* read its session, when no script code left a call, knows every visit.    *)
OpenedByName ==
    \A p \in Procs, s \in Sids :
        sess[p].fd = dir[s] /\ dir[s] # NoFile =>
            /\ step[p] \in Starts => s = sess[p].sid
            /\ step[p] \in {"gc", "unlink", "read"} => sess[p].size = data[dir[s]]
            /\ step[p] \in {"page", "write"} /\ ~Reopen /\ ~MayRaise =>
                  sess[p].visits = CountUp(saves[dir[s]])

HalfWritten == \A p \in Procs : step[p] = "write" => data[sess[p].fd] = 0

IInv ==
    /\ TypeOK /\ LockIsCurrent /\ StepsFit /\ OneName /\ OpensEmpty
    /\ OpenedByName /\ HalfWritten /\ (~Reopen /\ ~MayRaise => NoLostVisit)

(* A page that asks for its session gets it. *)
EveryPageStarts == \A p \in Procs : step[p] = "lock" ~> step[p] # "lock"

=============================================================================
