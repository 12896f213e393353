----------------------------- MODULE WebProofs ------------------------------
(***************************************************************************)
(* The workers use sessions as SessionFiles allows, a session call that is *)
(* left keeps its lock where its file is open, and a worker that has come  *)
(* to its reset is clean, for any number of workers and ids and whatever   *)
(* may fail; and a page of the Apache module finds nothing of the requests *)
(* before the last whole one.                                              *)
(***************************************************************************)
EXTENDS WebWorkers, ApacheModule, SessionFilesProofs

(* The types of what WebWorkers adds. *)
Served ==
    /\ phase \in [Procs -> Phases]
    /\ page \in [Procs -> [cookie: Sids \cup {NoCookie}, hooks: BOOLEAN,
                           buffers: BOOLEAN]]
    /\ escaped \in [Procs -> BOOLEAN]
    /\ request \in [Procs -> [cookie: Sids \cup {NoCookie}, found: BOOLEAN,
                              retry: BOOLEAN]]

(* A response puts a worker back to where it started. *)
LEMMA RespondType ==
    ASSUME Served, NEW p \in Procs, Respond(p)
    PROVE  /\ phase' \in [Procs -> Phases]
           /\ request' \in [Procs -> [cookie: Sids \cup {NoCookie}, found: BOOLEAN,
                                      retry: BOOLEAN]]
BY DEF Served, Respond, Enter, Phases, NoRequest

(* A new phase, and an error that leaves run-url. *)
LEMMA EnterType ==
    ASSUME Served, NEW p \in Procs, NEW there \in Phases
    PROVE  /\ Enter(p, there) => phase' \in [Procs -> Phases]
           /\ Escape(p) => escaped' \in [Procs -> BOOLEAN]
BY DEF Served, Enter, Escape

(* Every step keeps the types. *)
LEMMA ServedStep == Served /\ [WNext]_wvars => Served'
<1> SUFFICES ASSUME Served, [WNext]_wvars PROVE Served'
  OBVIOUS
<1>1. ASSUME UNCHANGED served PROVE Served'
  BY <1>1 DEF Served, served
<1>2. \A x \in {"idle", "startup", "script", "shutdown", "flush", "reset"} : x \in Phases
  BY DEF Phases
<1>3. ASSUME NEW p \in Procs, Accept(p) PROVE Served'
  <2>1. PICK c \in Sids \cup {NoCookie}, found \in {TRUE, ~MayMiss} :
           /\ request' = [request EXCEPT ![p] =
                 [cookie |-> c, found |-> found, retry |-> FALSE]]
           /\ page' = [page EXCEPT ![p].cookie =
                          IF c = NoCookie THEN page[p].cookie ELSE c]
    BY <1>3 DEF Accept
  <2>2. found \in BOOLEAN
    BY WorkerAssumption
  <2>3. phase' \in [Procs -> Phases] /\ escaped' = escaped
    BY <1>2, <1>3, EnterType DEF Accept
  <2>4. QED
    BY <2>1, <2>2, <2>3 DEF Served
<1>4. ASSUME NEW p \in Procs, RunPage(p) \/ EndScript(p) PROVE Served'
  BY <1>2, <1>4, EnterType DEF RunPage, EndScript, Served
<1>5. ASSUME NEW p \in Procs, NotFound(p) PROVE Served'
  <2>1. escaped' \in [Procs -> BOOLEAN] /\ page' = page
    BY <1>2, <1>5, EnterType DEF NotFound
  <2>2. CASE request[p].retry /\ Respond(p)
    BY <2>1, <2>2, RespondType DEF Served
  <2>3. CASE /\ \E found \in BOOLEAN :
                   request' = [request EXCEPT ![p].retry = TRUE, ![p].found = found]
             /\ UNCHANGED phase
    <3>1. PICK found \in BOOLEAN :
             request' = [request EXCEPT ![p].retry = TRUE, ![p].found = found]
      BY <2>3
    <3>2. request' \in [Procs -> [cookie: Sids \cup {NoCookie}, found: BOOLEAN,
                                 retry: BOOLEAN]]
      BY <3>1 DEF Served
    <3>3. QED
      BY <2>1, <2>3, <3>2 DEF Served
  <2>4. QED
    BY <1>5, <2>2, <2>3 DEF NotFound
<1>6. ASSUME NEW p \in Procs, Register(p) PROVE Served'
  <2>1. CASE page' = [page EXCEPT ![p].hooks = TRUE]
    BY <1>6, <2>1 DEF Register, Served
  <2>2. CASE page' = [page EXCEPT ![p].buffers = TRUE]
    BY <1>6, <2>2 DEF Register, Served
  <2>3. QED
    BY <1>6, <2>1, <2>2 DEF Register
<1>7. ASSUME NEW p \in Procs, RunShutdown(p) \/ FlushAll(p) PROVE Served'
  <2>1. page' = page
    BY <1>7 DEF RunShutdown, FlushAll
  <2>2. CASE Respond(p) /\ Escape(p)
    BY <1>2, <2>1, <2>2, RespondType, EnterType DEF Served
  <2>3. CASE (Enter(p, "flush") \/ Enter(p, "reset")) /\ UNCHANGED <<request, escaped>>
    BY <1>2, <2>1, <2>3, EnterType DEF Served
  <2>4. QED
    BY <1>7, <2>2, <2>3 DEF RunShutdown, FlushAll
<1>8. ASSUME NEW p \in Procs, CommonReset(p) \/ Kill(p) PROVE Served'
  <2>1. Respond(p) /\ page' = [page EXCEPT ![p] = CleanPage]
        /\ escaped' = [escaped EXCEPT ![p] = FALSE]
    BY <1>8 DEF CommonReset, Kill
  <2>2. CleanPage \in [cookie: Sids \cup {NoCookie}, hooks: BOOLEAN, buffers: BOOLEAN]
    BY DEF CleanPage
  <2>3. QED
    BY <2>1, <2>2, RespondType DEF Served
<1>9. ASSUME NEW p \in Procs, BadSession(p) \/ LeaveCall(p) PROVE Served'
  <2>1. page' = page
    BY <1>9 DEF BadSession, LeaveCall
  <2>2. CASE Respond(p) /\ Escape(p)
    BY <1>2, <2>1, <2>2, RespondType, EnterType DEF Served
  <2>3. CASE Enter(p, "shutdown") /\ UNCHANGED <<request, escaped>>
    BY <1>2, <2>1, <2>3, EnterType DEF Served
  <2>4. CASE UNCHANGED <<phase, request, escaped>>
    BY <2>1, <2>4 DEF Served
  <2>5. QED
    BY <1>9, <2>2, <2>3, <2>4 DEF BadSession, LeaveCall
<1>10. ASSUME NEW p \in Procs,
              \/ AutoStartSession(p) \/ ResetSession(p) \/ Going(p)
              \/ GetLock(p) \/ UseSession(p)
       PROVE  Served'
  BY <1>1, <1>10 DEF AutoStartSession, StartSession, ResetSession, Going, GetLock, UseSession
<1>11. CASE \E i \in Inodes : Expire(i) /\ UNCHANGED served
  BY <1>1, <1>11
<1>12. CASE UNCHANGED wvars
  BY <1>1, <1>12 DEF wvars, served
<1>13. QED
  BY <1>3, <1>4, <1>5, <1>6, <1>7, <1>8, <1>9, <1>10, <1>11, <1>12 DEF WNext, Serve

-----------------------------------------------------------------------------
(* Every step of a worker is a step of SessionFiles, or leaves sessions     *)
(* alone; the common reset is the end of a page.                            *)
LEMMA SessionsStep == Served /\ [WNext]_wvars => [Next]_vars
<1> SUFFICES ASSUME Served, [WNext]_wvars PROVE [Next]_vars
  OBVIOUS
<1>1. ASSUME NEW p \in Procs, StartSession(p) PROVE Next
  <2>1. IdFor(p) \subseteq Sids
    BY DEF IdFor, Served
  <2>2. QED
    BY <1>1, <2>1 DEF StartSession, Next
<1>2. ASSUME NEW p \in Procs, CommonReset(p) PROVE Next
  <2>1. EndPage(p)
    BY <1>2 DEF CommonReset, EndPage, In
  <2>2. QED
    BY <2>1 DEF Next
<1>3. ASSUME NEW p \in Procs,
             \/ ResetSession(p) \/ Going(p) \/ BadSession(p) \/ GetLock(p) \/ Kill(p)
             \/ AutoStartSession(p) \/ UseSession(p) \/ LeaveCall(p)
      PROVE  Next
  <2>1. CASE ResetSession(p)
    BY <2>1 DEF ResetSession, Next
  <2>2. CASE Going(p) \/ BadSession(p)
    BY <2>2 DEF Going, BadSession, Starting, Next
  <2>3. CASE GetLock(p) \/ Kill(p)
    BY <2>3 DEF GetLock, Kill, Next
  <2>4. CASE AutoStartSession(p)
    BY <1>1, <2>4 DEF AutoStartSession
  <2>5. CASE UseSession(p)
    <3>1. CASE StartSession(p)
      BY <1>1, <3>1
    <3>2. CASE \/ Truncate(p) \/ Forget(p) \/ Destroy(p)
               \/ \E s \in Sids : ChangeId(p, s)
      BY <3>2 DEF Next
    <3>3. QED
      BY <2>5, <3>1, <3>2 DEF UseSession
  <2>6. CASE LeaveCall(p)
    <3>1. IdFor(p) \subseteq Sids
      BY DEF IdFor, Served
    <3>2. QED
      BY <2>6, <3>1 DEF LeaveCall, CallLeft, Next
  <2>7. QED
    BY <1>3, <2>1, <2>2, <2>3, <2>4, <2>5, <2>6
<1>4. ASSUME NEW p \in Procs,
             \/ RunPage(p) \/ NotFound(p) \/ EndScript(p) \/ RunShutdown(p)
             \/ FlushAll(p) \/ Accept(p) \/ Register(p)
      PROVE  UNCHANGED vars
  BY <1>4 DEF RunPage, NotFound, EndScript, RunShutdown, FlushAll, Accept, Register
<1>5. CASE \E i \in Inodes : Expire(i) /\ UNCHANGED served
  BY <1>5 DEF Next
<1>6. CASE UNCHANGED wvars
  BY <1>6 DEF wvars
<1>7. QED
  BY <1>2, <1>3, <1>4, <1>5, <1>6 DEF WNext, Serve

(* The workers start without a page. *)
LEMMA ServedInit == WInit => Served
BY DEF WInit, Served, Phases, CleanPage, NoRequest

(* The workers, errors and all, use sessions in no way SessionFiles does    *)
(* not allow: no reset drops a session whose file is open.                  *)
THEOREM WorkersUseSessions == WSpec => UsesSessions
<1>1. WInit => Init
  BY DEF WInit
<1>2. WSpec => []Served
  BY ServedInit, ServedStep, PTL DEF WSpec
<1>3. QED
  BY <1>1, <1>2, SessionsStep, PTL DEF WSpec, Spec, UsesSessions

(* So what SessionFiles proves of its processes holds of the workers. *)
THEOREM WorkersInvariant == WSpec => []IInv
BY WorkersUseSessions, SessionInvariant, PTL DEF UsesSessions

-----------------------------------------------------------------------------
(* A step of one worker's session changes no other worker's. *)
LEMMA OthersKeep ==
    ASSUME IInv, NEW p \in Procs, NEW q \in Procs \ {p},
           \/ StartSession(p) \/ Opening(p) \/ Write(p) \/ DeleteFile(p) \/ Lock(p)
           \/ Truncate(p) \/ Forget(p) \/ Destroy(p) \/ (\E s \in Sids : ChangeId(p, s))
           \/ CallLeft(p) \/ ReadFails(p) \/ Crash(p)
    PROVE  sess'[q] = sess[q]
<1>1. sess \in [Procs -> Session]
  BY DEF IInv, TypeOK
<1>2. CASE StartSession(p)
  BY <1>1, <1>2 DEF StartSession, Start, StartLost, RollDice
<1>3. CASE Opening(p)
  BY <1>1, <1>3 DEF Opening, Measure, Collect, Unlink, Read, RollDice
<1>4. CASE Write(p) \/ DeleteFile(p) \/ Lock(p)
  BY <1>1, <1>4 DEF Write, DeleteFile, Lock
<1>5. CASE Truncate(p) \/ Forget(p) \/ Destroy(p)
  BY <1>1, <1>5 DEF Truncate, Forget, Destroy
<1>6. CASE (\E s \in Sids : ChangeId(p, s)) \/ ReadFails(p) \/ Crash(p)
  BY <1>1, <1>6 DEF ChangeId, ReadFails, Crash
<1>7. CASE CallLeft(p)
  BY <1>1, <1>7 DEF CallLeft, Left, StartLeft, MeasureLeft, ReadLeft, WriteLeft
<1>8. QED
  BY <1>2, <1>3, <1>4, <1>5, <1>6, <1>7

(* The inductive invariant of the workers, apart from their sessions. *)
WInv == Served /\ IdleIsClean

(* A step that moves one worker needs to be looked at for that one only. *)
LEMMA OneWorker ==
    ASSUME WInv, Served', NEW p \in Procs,
           \A q \in Procs \ {p} :
              /\ sess'[q] = sess[q] /\ phase'[q] = phase[q]
              /\ page'[q] = page[q] /\ escaped'[q] = escaped[q],
           phase'[p] # "idle" \/ escaped'[p]
              \/ (page'[p] = CleanPage /\ sess'[p] = NoSession)
    PROVE  WInv'
BY DEF WInv, IdleIsClean, Clean

(* A worker in the middle of a session call serves a page, or an error has  *)
(* left run-url: one that waits and is clean has no session.                *)
LEMMA CallServes ==
    ASSUME WInv, IInv, NEW p \in Procs, step[p] # "page"
    PROVE  phase[p] # "idle" \/ escaped[p]
<1>1. sess[p].active
  BY DEF IInv, StepsFit
<1>2. sess[p] # NoSession
  BY <1>1 DEF NoSession
<1>3. QED
  BY <1>2 DEF WInv, IdleIsClean, Clean

(* A session call of a worker that serves a page. *)
LEMMA CallStep ==
    ASSUME WInv, IInv, Served', NEW p \in Procs,
           \/ AutoStartSession(p) \/ UseSession(p) \/ ResetSession(p)
           \/ Going(p) \/ GetLock(p)
    PROVE  WInv'
<1>1. UNCHANGED served
  BY DEF AutoStartSession, UseSession, ResetSession, Going, GetLock, StartSession
<1>2. \A q \in Procs \ {p} : sess'[q] = sess[q]
  BY OthersKeep DEF AutoStartSession, UseSession, ResetSession, Going, GetLock
<1>3. phase[p] # "idle" \/ escaped[p]
  <2>1. CASE AutoStartSession(p) \/ UseSession(p) \/ ResetSession(p)
    BY <2>1 DEF AutoStartSession, UseSession, ResetSession, ScriptRuns, In
  <2>2. CASE Going(p) \/ GetLock(p)
    <3>1. step[p] # "page"
      BY <2>2 DEF Going, GetLock, Opening, Measure, Collect, Unlink, Read, Write,
                  DeleteFile, Lock, At
    <3>2. QED
      BY <3>1, CallServes
  <2>3. QED
    BY <2>1, <2>2
<1>4. QED
  BY <1>1, <1>2, <1>3, OneWorker DEF served

(* A worker that goes on to another phase with its session as it is. *)
LEMMA PhaseStep ==
    ASSUME WInv, IInv, Served', NEW p \in Procs,
           \/ RunPage(p) \/ NotFound(p) \/ EndScript(p) \/ RunShutdown(p)
           \/ FlushAll(p) \/ Accept(p) \/ Register(p)
    PROVE  WInv'
<1>1. UNCHANGED vars
  BY DEF RunPage, NotFound, EndScript, RunShutdown, FlushAll, Accept, Register
<1>2. \A q \in Procs \ {p} :
         phase'[q] = phase[q] /\ page'[q] = page[q] /\ escaped'[q] = escaped[q]
  <2>1. CASE RunPage(p) \/ EndScript(p) \/ Accept(p) \/ Register(p)
    BY <2>1 DEF RunPage, EndScript, Accept, Register, Enter, WInv, Served
  <2>2. CASE NotFound(p) \/ RunShutdown(p) \/ FlushAll(p)
    BY <2>2 DEF NotFound, RunShutdown, FlushAll, Enter, Escape, Respond, WInv, Served
  <2>3. QED
    BY <2>1, <2>2
<1>3. phase'[p] # "idle" \/ escaped'[p]
  <2>1. CASE RunPage(p) \/ EndScript(p) \/ Accept(p)
    BY <2>1 DEF RunPage, EndScript, Accept, Enter, WInv, Served
  <2>2. CASE NotFound(p)
    BY <2>2 DEF NotFound, Escape, WInv, Served
  <2>3. CASE RunShutdown(p) \/ FlushAll(p)
    BY <2>3 DEF RunShutdown, FlushAll, Enter, Escape, WInv, Served
  <2>4. CASE Register(p)
    BY <2>4 DEF Register
  <2>5. QED
    BY <2>1, <2>2, <2>3, <2>4
<1>4. QED
  BY <1>1, <1>2, <1>3, OneWorker DEF vars

(* The two ways to a clean worker: the common reset, and a new process. *)
LEMMA ResetStep ==
    ASSUME WInv, IInv, Served', NEW p \in Procs, CommonReset(p) \/ Kill(p)
    PROVE  WInv'
<1>1. /\ sess' = [sess EXCEPT ![p] = NoSession]
      /\ page' = [page EXCEPT ![p] = CleanPage]
      /\ phase' = [phase EXCEPT ![p] = "idle"]
      /\ escaped' = [escaped EXCEPT ![p] = FALSE]
  BY DEF CommonReset, Kill, Crash, Respond, Enter
<1>2. /\ sess'[p] = NoSession /\ page'[p] = CleanPage
      /\ \A q \in Procs \ {p} :
            /\ sess'[q] = sess[q] /\ phase'[q] = phase[q]
            /\ page'[q] = page[q] /\ escaped'[q] = escaped[q]
  BY <1>1 DEF IInv, TypeOK, WInv, Served
<1>3. QED
  BY <1>2, OneWorker

(* A session call that ends in an error: the worker stays where it is, goes *)
(* on to the shutdown functions, or has run-url left by it.                 *)
LEMMA ErrorStep ==
    ASSUME WInv, IInv, Served', NEW p \in Procs, BadSession(p) \/ LeaveCall(p)
    PROVE  WInv'
<1>1. \A q \in Procs \ {p} : sess'[q] = sess[q]
  BY OthersKeep DEF BadSession, LeaveCall
<1>2. page' = page
  BY DEF BadSession, LeaveCall
<1>3. CASE Enter(p, "shutdown") /\ UNCHANGED <<request, escaped>>
  BY <1>1, <1>2, <1>3, OneWorker DEF Enter, WInv, Served
<1>4. CASE Respond(p) /\ Escape(p)
  BY <1>1, <1>2, <1>4, OneWorker DEF Respond, Enter, Escape, WInv, Served
<1>5. CASE ScriptRuns(p) /\ UNCHANGED <<phase, request, escaped>>
  BY <1>1, <1>2, <1>5, OneWorker DEF ScriptRuns, WInv, Served
<1>6. QED
  BY <1>3, <1>4, <1>5 DEF BadSession, LeaveCall

(* Nothing is said of how old a file is. *)
LEMMA QuietStep ==
    ASSUME WInv, Served', UNCHANGED <<sess, served>>
    PROVE  WInv'
BY DEF WInv, IdleIsClean, Clean, served

(* Every step keeps it. *)
LEMMA WorkersStep == WInv /\ IInv /\ [WNext]_wvars => WInv'
<1> SUFFICES ASSUME WInv, IInv, [WNext]_wvars PROVE WInv'
  OBVIOUS
<1>1. Served'
  BY ServedStep DEF WInv
<1>2. ASSUME NEW p \in Procs, Serve(p) PROVE WInv'
  BY <1>1, <1>2, CallStep, PhaseStep, ResetStep, ErrorStep DEF Serve
<1>3. ASSUME NEW p \in Procs,
             \/ GetLock(p) \/ Accept(p) \/ UseSession(p) \/ Register(p)
             \/ LeaveCall(p) \/ Kill(p)
      PROVE  WInv'
  BY <1>1, <1>3, CallStep, PhaseStep, ResetStep, ErrorStep
<1>4. CASE \E i \in Inodes : Expire(i) /\ UNCHANGED served
  BY <1>1, <1>4, QuietStep DEF Expire
<1>5. CASE UNCHANGED wvars
  BY <1>1, <1>5, QuietStep DEF wvars, vars, served
<1>6. QED
  BY <1>2, <1>3, <1>4, <1>5 DEF WNext

(* Before the first request. *)
LEMMA WorkersInit == WInit => WInv
<1> SUFFICES ASSUME WInit PROVE WInv
  OBVIOUS
<1>1. Served
  BY ServedInit
<1>2. \A p \in Procs : sess[p] = NoSession /\ page[p] = CleanPage
  BY DEF WInit, Init
<1>3. QED
  BY <1>1, <1>2 DEF WInv, IdleIsClean, Clean

(* It holds always. *)
LEMMA WorkersAlways == WSpec => []WInv
BY WorkersInit, WorkersStep, WorkersInvariant, PTL DEF WSpec

(* A worker that waits for a request keeps nothing of the last one, unless  *)
(* an error has left run-url since its last reset.                          *)
THEOREM IdleWorkersClean == WSpec => []IdleIsClean
<1>1. WInv => IdleIsClean
  BY DEF WInv
<1>2. QED
  BY <1>1, WorkersAlways, PTL

(* A session call that is left half done, in whatever phase and by whatever *)
(* is raised in it, leaves the lock with the worker that has the file open; *)
(* and one that waits for a request with a session locked has had run-url   *)
(* left by an error.                                                        *)
THEOREM LeftCallsLocked == WSpec => []LeftLocked
<1>1. IInv /\ WInv => LeftLocked
  <2> SUFFICES ASSUME IInv, WInv PROVE LeftLocked
    OBVIOUS
  <2>1. WTypeOK
    BY DEF WTypeOK, WInv, Served, IInv
  <2>2. ASSUME NEW p \in Procs, NEW i \in Inodes, sess[p].fd = i, step[p] # "lock"
        PROVE  holder[i] = p
    <3>1. i # NoFile
      BY SessionAssumption
    <3>2. sess[p].active
      BY <2>2, <3>1 DEF IInv, StepsFit
    <3>3. QED
      BY <2>2, <3>2 DEF IInv, LockIsCurrent
  <2>3. ASSUME NEW p \in Procs, NEW i \in Inodes, holder[i] = p
        PROVE  /\ sess[p].active /\ sess[p].fd = i
               /\ phase[p] = "idle" => escaped[p]
    <3>1. sess[p].active /\ sess[p].fd = i
      BY <2>3 DEF IInv, LockIsCurrent
    <3>2. sess[p] # NoSession
      BY <3>1 DEF NoSession
    <3>3. QED
      BY <3>1, <3>2 DEF WInv, IdleIsClean, Clean
  <2>4. QED
    BY <2>1, <2>2, <2>3 DEF LeftLocked
<1>2. QED
  BY <1>1, WorkersInvariant, WorkersAlways, PTL

-----------------------------------------------------------------------------
(* The Apache module.                                                       *)

(* What lies in the runtime was put there by the requests since the last    *)
(* page that ran to its end; a page has what its own request put there.     *)
RuntimeType == [files : SUBSET Nat, vars : SUBSET Nat, temp : SUBSET Nat,
                paths : SUBSET Nat, headers : SUBSET Nat, code : Nat]
Places == {"idle", "handler", "run", "page"}
Included == ConfOf(serving.dir).include
Since(n) == {m \in Nat : lastWhole < m /\ m <= n}

ApacheInv ==
    /\ serving \in [n : Nat, dir : ConfDirs, at : Places]
    /\ runtime \in RuntimeType /\ lastWhole \in 0..serving.n
    /\ serving.at # "idle" => lastWhole < serving.n
    /\ InRuntime \cup runtime.temp \subseteq Since(serving.n)
    /\ serving.at = "run" => (Included => reqno \in runtime.temp)
    /\ serving.at = "page" => reqno \in runtime.vars /\ (Included => reqno \in runtime.paths)

USE DEF reqno

LEMMA ApacheStarts ==
  ASSUME ApacheInit
  PROVE  ApacheInv
BY DEF ApacheInit, ApacheInv, NoOne, FreshRuntime, ConfDirs, Places, RuntimeType, InRuntime, Since

(* A step of the request that is served: what it adds is its own.           *)
LEMMA ServingStep ==
  ASSUME ApacheInv, general_handler \/ Declined \/ do_run_url \/ Escaped \/ SendHeader \/ PageDone
  PROVE  ApacheInv'
<1>1. /\ serving \in [n : Nat, dir : ConfDirs, at : Places]
      /\ runtime \in RuntimeType /\ lastWhole \in 0..serving.n
      /\ serving.at # "idle" => lastWhole < serving.n
      /\ InRuntime \cup runtime.temp \subseteq Since(serving.n)
  BY DEF ApacheInv
<1>2. serving.n \in Nat /\ (serving.at # "idle" => {reqno} \subseteq Since(serving.n))
  BY <1>1 DEF Since
<1>3. ASSUME NEW there \in Places, Now(there)
      PROVE  /\ serving' \in [n : Nat, dir : ConfDirs, at : Places]
             /\ serving'.n = serving.n /\ serving'.dir = serving.dir /\ serving'.at = there
  BY <1>1, <1>3 DEF Now
<1>4. ASSUME UNCHANGED conf, serving'.dir = serving.dir PROVE Included' = Included
  BY <1>4 DEF Included, ConfOf, Merged
<1>5. ASSUME UNCHANGED lastWhole, serving'.n = serving.n PROVE Since(serving.n)' = Since(serving.n)
  BY <1>5 DEF Since
<1>6. CASE Declined \/ Escaped
  <2>1. Now("idle") /\ UNCHANGED <<runtime, lastWhole>>
    BY <1>6 DEF Declined, Escaped
  <2>2. InRuntime' = InRuntime
    BY <2>1 DEF InRuntime
  <2> QED
    BY <1>1, <1>3, <1>5, <2>1, <2>2 DEF ApacheInv, Places
<1>7. CASE general_handler
  <2> DEFINE put == IF Included THEN [runtime EXCEPT !.temp = {reqno}] ELSE runtime
  <2>1. /\ UNCHANGED <<conf, lastWhole>> /\ serving.at = "handler"
        /\ \/ runtime' \in {runtime, put} /\ Now("idle")
           \/ \E files \in {{}, {reqno}} :
                runtime' = [put EXCEPT !.files = @ \cup files] /\ Now("run")
    BY <1>7 DEF general_handler, Kept, Included
  <2>2. ASSUME NEW r \in {runtime, put} PROVE
          /\ r \in RuntimeType
          /\ r.files \cup r.vars \cup r.paths \cup r.headers \cup r.temp \subseteq Since(serving.n)
    BY <1>1, <1>2, <2>1 DEF RuntimeType, InRuntime
  <2>3. Included => put.temp = {reqno}
    BY <1>1 DEF RuntimeType
  <2> HIDE DEF put
  <2>4. CASE runtime' \in {runtime, put} /\ Now("idle")
    <3>1. runtime' \in RuntimeType /\ InRuntime' \cup runtime'.temp \subseteq Since(serving.n)
      BY <2>2, <2>4 DEF InRuntime
    <3> QED
      BY <1>1, <1>3, <1>5, <2>1, <2>4, <3>1 DEF ApacheInv, Places
  <2>5. ASSUME NEW files \in {{}, {reqno}},
               runtime' = [put EXCEPT !.files = @ \cup files], Now("run")
        PROVE  ApacheInv'
    <3>1. put \in RuntimeType /\ files \subseteq Since(serving.n) /\ files \subseteq Nat
      BY <1>2, <2>1, <2>2
    <3>2. /\ runtime' \in RuntimeType /\ runtime'.temp = put.temp
          /\ InRuntime' \cup runtime'.temp \subseteq Since(serving.n)
      BY <2>2, <2>5, <3>1 DEF RuntimeType, InRuntime
    <3>3. /\ serving' \in [n : Nat, dir : ConfDirs, at : Places]
          /\ serving'.n = serving.n /\ serving'.dir = serving.dir /\ serving'.at = "run"
      BY <1>3, <2>5 DEF Places
    <3>4. Included' = Included /\ Since(serving.n)' = Since(serving.n)
      BY <1>4, <1>5, <2>1, <3>3
    <3> QED
      BY <1>1, <2>1, <2>3, <3>2, <3>3, <3>4 DEF ApacheInv
  <2> QED
    BY <2>1, <2>4, <2>5
<1>8. CASE do_run_url
  <2>1. /\ UNCHANGED <<conf, lastWhole>> /\ serving.at = "run" /\ Now("page")
        /\ runtime' = [runtime EXCEPT !.vars = @ \cup {reqno}, !.paths = @ \cup runtime.temp]
    BY <1>8 DEF do_run_url, Kept
  <2>2. /\ runtime' \in RuntimeType /\ reqno \in runtime'.vars
        /\ runtime.temp \subseteq runtime'.paths
        /\ InRuntime' \cup runtime'.temp \subseteq Since(serving.n)
    BY <1>1, <1>2, <2>1 DEF RuntimeType, InRuntime
  <2>3. /\ serving' \in [n : Nat, dir : ConfDirs, at : Places]
        /\ serving'.n = serving.n /\ serving'.dir = serving.dir /\ serving'.at = "page"
    BY <1>3, <2>1 DEF Places
  <2>4. Included' = Included /\ Since(serving.n)' = Since(serving.n)
    BY <1>4, <1>5, <2>1, <2>3
  <2>5. Included => reqno \in runtime.temp
    BY <2>1 DEF ApacheInv
  <2> QED
    BY <1>1, <2>1, <2>2, <2>3, <2>4, <2>5 DEF ApacheInv
<1>9. CASE SendHeader
  <2>1. /\ UNCHANGED <<conf, serving, lastWhole>> /\ serving.at = "page"
        /\ \/ runtime' = [runtime EXCEPT !.headers = @ \cup {reqno}]
           \/ runtime' = [runtime EXCEPT !.code = reqno]
    BY <1>9 DEF SendHeader, Kept
  <2>2. /\ runtime' \in RuntimeType /\ runtime'.vars = runtime.vars /\ runtime'.paths = runtime.paths
        /\ InRuntime' \cup runtime'.temp \subseteq Since(serving.n)
    BY <1>1, <1>2, <2>1 DEF RuntimeType, InRuntime
  <2>3. Included' = Included /\ Since(serving.n)' = Since(serving.n)
    BY <1>4, <1>5, <2>1
  <2> QED
    BY <1>1, <2>1, <2>2, <2>3 DEF ApacheInv
<1>10. CASE PageDone
  <2>1. /\ runtime' = [FreshRuntime EXCEPT !.code = runtime.code]
        /\ lastWhole' = reqno /\ Now("idle")
    BY <1>10 DEF PageDone
  <2>2. runtime' \in RuntimeType /\ InRuntime' \cup runtime'.temp = {}
    BY <1>1, <2>1 DEF RuntimeType, InRuntime, FreshRuntime
  <2>3. /\ serving' \in [n : Nat, dir : ConfDirs, at : Places]
        /\ serving'.n = serving.n /\ serving'.at = "idle"
    BY <1>3, <2>1 DEF Places
  <2>4. lastWhole' \in 0..serving'.n
    BY <1>2, <2>1, <2>3
  <2> QED
    BY <2>2, <2>3, <2>4 DEF ApacheInv
<1> QED
  BY <1>6, <1>7, <1>8, <1>9, <1>10

LEMMA ApacheStep ==
  ASSUME ApacheInv, [ApacheNext]_apache
  PROVE  ApacheInv'
<1>1. /\ serving \in [n : Nat, dir : ConfDirs, at : Places]
      /\ runtime \in RuntimeType /\ lastWhole \in 0..serving.n
      /\ serving.at # "idle" => lastWhole < serving.n
      /\ InRuntime \cup runtime.temp \subseteq Since(serving.n)
  BY DEF ApacheInv
<1>2. ASSUME NEW d \in ConfDirs, Configure(d) PROVE ApacheInv'
  <2>1. serving.n = 0 /\ UNCHANGED <<runtime, serving, lastWhole>>
    BY <1>2 DEF Configure
  <2>2. serving.at = "idle"
    BY <1>1, <2>1
  <2> QED
    BY <1>1, <2>1, <2>2 DEF ApacheInv, InRuntime, Since
<1>3. ASSUME NEW d \in ConfDirs, NEW ext \in Extensions, NEW isDir \in BOOLEAN, Fixup(d, ext, isDir)
      PROVE  ApacheInv'
  <2>1. /\ UNCHANGED <<runtime, lastWhole>>
        /\ serving' = [n |-> serving.n + 1, dir |-> d, at |-> "handler"]
    BY <1>3 DEF Fixup
  <2>2. /\ serving' \in [n : Nat, dir : ConfDirs, at : Places] /\ serving'.n = serving.n + 1
        /\ serving'.at = "handler"
    BY <1>1, <2>1 DEF Places
  <2>3. lastWhole' \in 0..serving'.n /\ lastWhole' < serving'.n
    BY <1>1, <2>1, <2>2
  <2>4. Since(serving.n) \subseteq Since(serving.n)'
    BY <1>1, <2>1, <2>2 DEF Since
  <2>5. InRuntime' \cup runtime'.temp \subseteq Since(serving.n)'
    BY <1>1, <2>1, <2>4 DEF InRuntime
  <2> QED
    BY <1>1, <2>1, <2>2, <2>3, <2>5 DEF ApacheInv
<1>4. CASE general_handler \/ Declined \/ do_run_url \/ Escaped \/ SendHeader \/ PageDone
  BY <1>4, ServingStep
<1>5. CASE UNCHANGED apache
  BY <1>5 DEF apache, ApacheInv, InRuntime, Since, Included, ConfOf, Merged
<1> QED
  BY <1>2, <1>3, <1>4, <1>5 DEF ApacheNext

(* A page of mod_pcc has its own variables and the include path of its      *)
(* directory, and finds nothing from before the last page that ran to its   *)
(* end.                                                                     *)
THEOREM PagesStartClean == ApacheSpec => []LeftByTheUnfinished
<1>1. ApacheInit => ApacheInv
  BY ApacheStarts
<1>2. ApacheInv /\ [ApacheNext]_apache => ApacheInv'
  BY ApacheStep
<1>3. ApacheInv => LeftByTheUnfinished
  BY DEF ApacheInv, LeftByTheUnfinished, Included, Since
<1> QED
  BY <1>1, <1>2, <1>3, PTL DEF ApacheSpec
=============================================================================
