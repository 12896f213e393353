----------------------------- MODULE WebWorkers -----------------------------
(***************************************************************************)
(* The FastCGI workers: webconnect/fastcgi/fastcgi.scm accepts a request,  *)
(* run-url of compiler/driver.scm runs the page, and reset-runtime-state   *)
(* puts the runtime back for the next one.  The state that outlives a page *)
(* in a worker is the session of SessionFiles, the request variables (here *)
(* the session cookie), the user's shutdown functions and the output       *)
(* buffers.                                                                *)
(*                                                                         *)
(* The try of run-url is around the script only.  What is raised before it *)
(* (file-not-found, a session that cannot be opened) and after it (by      *)
(* shutdown functions, output callbacks, and __sleep in the save of the    *)
(* session at the reset) leaves run-url without the common reset.          *)
(***************************************************************************)
EXTENDS SessionFiles

CONSTANTS
    NoCookie,   \* the request has no session cookie
    AutoStart,  \* session.auto_start
    MayMiss,    \* pages may be missing
    MayFail     \* shutdown functions and output callbacks may raise an error

ASSUME WorkerAssumption ==
    /\ NoCookie \notin Sids
    /\ {AutoStart, MayMiss, MayFail} \subseteq BOOLEAN

VARIABLES
    phase,      \* where each worker is in serving a request
    page,       \* what each worker keeps for a page
    request,    \* the request each worker serves
    escaped     \* whether an error has left run-url since the last reset

wvars == <<vars, phase, page, request, escaped>>
served == <<phase, page, request, escaped>>

Phases == {"idle", "startup", "script", "shutdown", "flush", "reset"}

(* $_COOKIE, and whether a shutdown function or an output callback that is  *)
(* going to raise an error is registered.                                   *)
CleanPage == [cookie |-> NoCookie, hooks |-> FALSE, buffers |-> FALSE]

(* What the client sent, whether the page is there, and whether this is the *)
(* 404 page.                                                                *)
NoRequest == [cookie |-> NoCookie, found |-> TRUE, retry |-> FALSE]

WTypeOK ==
    /\ TypeOK
    /\ phase \in [Procs -> Phases]
    /\ page \in [Procs -> [cookie: Sids \cup {NoCookie}, hooks: BOOLEAN,
                           buffers: BOOLEAN]]
    /\ escaped \in [Procs -> BOOLEAN]
    /\ request \in [Procs -> [cookie: Sids \cup {NoCookie}, found: BOOLEAN,
                              retry: BOOLEAN]]

WInit ==
    /\ Init
    /\ phase = [p \in Procs |-> "idle"]
    /\ page = [p \in Procs |-> CleanPage]
    /\ request = [p \in Procs |-> NoRequest]
    /\ escaped = [p \in Procs |-> FALSE]

In(p, here) == phase[p] = here /\ At(p, "page")
Enter(p, there) == phase' = [phase EXCEPT ![p] = there]
Escape(p) == escaped' = [escaped EXCEPT ![p] = TRUE]
Respond(p) == Enter(p, "idle") /\ request' = [request EXCEPT ![p] = NoRequest]

-----------------------------------------------------------------------------
(* FCGI_Accept and fastcgi-request-init: the cookies of the request are     *)
(* added to those $_COOKIE has.                                             *)
Accept(p) ==
    /\ In(p, "idle")
    /\ \E c \in Sids \cup {NoCookie}, found \in {TRUE, ~MayMiss} :
          /\ request' = [request EXCEPT ![p] =
                [cookie |-> c, found |-> found, retry |-> FALSE]]
          /\ page' = [page EXCEPT ![p].cookie = IF c = NoCookie THEN @ ELSE c]
    /\ Enter(p, "startup")
    /\ UNCHANGED <<vars, escaped>>

(* The session id session_start settles on. *)
IdFor(p) == IF page[p].cookie = NoCookie THEN Sids ELSE {page[p].cookie}
StartSession(p) ==
    /\ \E s \in IdFor(p) : Start(p, s) \/ StartLost(p, s)
    /\ UNCHANGED served

(* The startup functions, which start the session if auto_start says so.    *)
AutoStartSession(p) == AutoStart /\ In(p, "startup") /\ StartSession(p)

StartupDone(p) == In(p, "startup") /\ (AutoStart => sess[p].active)

RunPage(p) ==
    /\ StartupDone(p) /\ request[p].found
    /\ Enter(p, "script")
    /\ UNCHANGED <<vars, page, request, escaped>>

(* Mutant: the 404 page is tried for ever when it is missing itself. *)
NotFoundAgain(p) ==
    /\ StartupDone(p) /\ ~request[p].found
    /\ Escape(p)
    /\ request' = [request EXCEPT ![p].retry = TRUE]
    /\ UNCHANGED <<vars, page, phase>>

(* file-not-found: once to the 404 page, and then to a fixed text.          *)
NotFound(p) ==
    /\ StartupDone(p) /\ ~request[p].found
    /\ Escape(p)
    /\ \/ /\ ~request[p].retry
          /\ \E found \in BOOLEAN :
                request' = [request EXCEPT ![p].retry = TRUE, ![p].found = found]
          /\ UNCHANGED phase
       \/ request[p].retry /\ Respond(p)
    /\ UNCHANGED <<vars, page>>

-----------------------------------------------------------------------------
(* What script code does, in the page as in its shutdown functions and      *)
(* output callbacks: it may use the session as it likes, register shutdown  *)
(* functions, and open output buffers.                                      *)
ScriptRuns(p) == phase[p] \in {"script", "shutdown", "flush"}

UseSession(p) ==
    /\ ScriptRuns(p) /\ At(p, "page")
    /\ \/ StartSession(p)
       \/ /\ \/ Truncate(p) \/ Forget(p) \/ Destroy(p)
             \/ \E s \in Sids : ChangeId(p, s)
          /\ UNCHANGED served

Register(p) ==
    /\ MayFail
    /\ At(p, "page")
    /\ \/ phase[p] = "script" /\ page' = [page EXCEPT ![p].hooks = TRUE]
       \/ phase[p] \in {"script", "shutdown"} /\ page' = [page EXCEPT ![p].buffers = TRUE]
    /\ UNCHANGED <<vars, phase, request, escaped>>

(* The end of the script, exit() and a fatal error come to the same: the    *)
(* error handler of the try escapes to what follows.  Those raised inside a *)
(* session call are LeaveCall below.                                        *)
EndScript(p) ==
    /\ In(p, "script")
    /\ Enter(p, "shutdown")
    /\ UNCHANGED <<vars, page, request, escaped>>

(* run-php-shutdown-funcs and ob-flush-all.  What they raise ends run-url   *)
(* and becomes the page of the runtime-error-handler.  ob-flush-all pops    *)
(* every buffer it has flushed.                                             *)
RunShutdown(p) ==
    /\ In(p, "shutdown")
    /\ IF page[p].hooks THEN Respond(p) /\ Escape(p)
                       ELSE Enter(p, "flush") /\ UNCHANGED <<request, escaped>>
    /\ UNCHANGED <<vars, page>>

FlushAll(p) ==
    /\ In(p, "flush")
    /\ IF page[p].buffers THEN Respond(p) /\ Escape(p)
                         ELSE Enter(p, "reset") /\ UNCHANGED <<request, escaped>>
    /\ UNCHANGED <<vars, page>>

(* reset-runtime-state: the end-of-page functions, php-session-reset among  *)
(* them, and then the common reset.                                         *)
ResetSession(p) ==
    /\ In(p, "reset") /\ sess[p].active
    /\ (Truncate(p) \/ Forget(p))
    /\ UNCHANGED served

(* Mutants: the session is dropped unsaved; the cookies stay.               *)
CommonResetUnsaved(p) ==
    /\ In(p, "reset")
    /\ page' = [page EXCEPT ![p] = CleanPage]
    /\ sess' = [sess EXCEPT ![p] = NoSession]
    /\ escaped' = [escaped EXCEPT ![p] = FALSE]
    /\ Respond(p)
    /\ UNCHANGED <<dir, data, expired, holder, saves, step>>

CommonResetButCookies(p) ==
    /\ In(p, "reset") /\ ~sess[p].active
    /\ page' = [page EXCEPT ![p].hooks = FALSE, ![p].buffers = FALSE]
    /\ sess' = [sess EXCEPT ![p] = NoSession]
    /\ escaped' = [escaped EXCEPT ![p] = FALSE]
    /\ Respond(p)
    /\ UNCHANGED <<dir, data, expired, holder, saves, step>>

CommonReset(p) ==
    /\ In(p, "reset") /\ ~sess[p].active
    /\ page' = [page EXCEPT ![p] = CleanPage]
    /\ sess' = [sess EXCEPT ![p] = NoSession]
    /\ escaped' = [escaped EXCEPT ![p] = FALSE]
    /\ Respond(p)
    /\ UNCHANGED <<dir, data, expired, holder, saves, step>>

-----------------------------------------------------------------------------
(* The steps of a session call or of a save that is under way. *)
Going(p) == (Opening(p) \/ Write(p) \/ DeleteFile(p)) /\ UNCHANGED served

(* A session that cannot be read: the error ends the script, or run-url     *)
(* itself when it was a startup function that opened the session.           *)
BadSession(p) ==
    /\ ReadFails(p)
    /\ IF phase[p] = "script"
       THEN Enter(p, "shutdown") /\ UNCHANGED <<request, escaped>>
       ELSE Respond(p) /\ Escape(p)
    /\ UNCHANGED page

(* Script code that a session call runs leaves the call: for a catch of the *)
(* script, for the try around it, or, where there is none, out of run-url.  *)
MayCall(p) == ScriptRuns(p) \/ (AutoStart /\ phase[p] = "startup")
CallLeft(p) == Left(p) \/ (MayCall(p) /\ \E s \in IdFor(p) : StartLeft(p, s))

LeaveCall(p) ==
    /\ phase[p] # "idle"
    /\ CallLeft(p)
    /\ \/ ScriptRuns(p) /\ UNCHANGED <<phase, request, escaped>>
       \/ phase[p] = "script" /\ Enter(p, "shutdown") /\ UNCHANGED <<request, escaped>>
       \/ phase[p] # "script" /\ Respond(p) /\ Escape(p)
    /\ UNCHANGED page

GetLock(p) == Lock(p) /\ UNCHANGED served

(* The worker is killed, and the parent forks another. *)
Kill(p) ==
    /\ Crash(p)
    /\ Respond(p)
    /\ page' = [page EXCEPT ![p] = CleanPage]
    /\ escaped' = [escaped EXCEPT ![p] = FALSE]

Serve(p) ==
    \/ AutoStartSession(p) \/ RunPage(p) \/ NotFound(p)
    \/ EndScript(p) \/ RunShutdown(p) \/ FlushAll(p)
    \/ ResetSession(p) \/ CommonReset(p) \/ Going(p) \/ BadSession(p)

WNext ==
    \/ \E p \in Procs :
          \/ Serve(p) \/ GetLock(p)
          \/ Accept(p) \/ UseSession(p) \/ Register(p) \/ LeaveCall(p) \/ Kill(p)
    \/ \E i \in Inodes : Expire(i) /\ UNCHANGED served

WSpec == WInit /\ [][WNext]_wvars

(* A request that is being served is served on; a script comes to its end,  *)
(* and so do its shutdown functions and output callbacks.  Requests need    *)
(* not come.                                                                *)
WFairness ==
    \A p \in Procs :
        /\ SF_wvars(GetLock(p))
        /\ SF_wvars(EndScript(p) \/ RunShutdown(p) \/ FlushAll(p))
        /\ WF_wvars(Serve(p))

-----------------------------------------------------------------------------
Clean(p) == page[p] = CleanPage /\ sess[p] = NoSession

(* The types; and wherever exit, an error or an exception leaves a session  *)
(* call, the lock of the file stays with the worker and its active session, *)
(* so nobody else gets a session that is half opened, or truncated and not  *)
(* yet written; and a worker that keeps one while it waits for a request is *)
(* one that an error has made leave run-url.                                *)
LeftLocked ==
    /\ WTypeOK
    /\ \A p \in Procs, i \in Inodes :
          /\ sess[p].fd = i /\ step[p] # "lock" => holder[i] = p
          /\ holder[i] = p => /\ sess[p].active /\ sess[p].fd = i
                              /\ phase[p] = "idle" => escaped[p]

(* A worker that waits for a request is as clean as a new one and keeps no  *)
(* session file locked, unless an error has left run-url since the last     *)
(* reset; and one page that comes to its reset puts all of that right.      *)
IdleIsClean ==
    \A p \in Procs : phase[p] = "idle" /\ ~escaped[p] => Clean(p)

(* The workers use sessions in no way that SessionFiles does not allow: a   *)
(* reset never drops a session whose file is still open.                    *)
UsesSessions == Spec

(* A worker that waits for a request and keeps a session locked, which only *)
(* an error that has left run-url can make it do.                           *)
Stranded == \E p \in Procs, i \in Inodes : phase[p] = "idle" /\ escaped[p] /\ holder[i] = p

(* Every request is answered: no page waits for a session for ever, unless  *)
(* again and again a worker is left with one.                               *)
EveryRequestAnswered ==
    \A p \in Procs : phase[p] # "idle" ~> phase[p] = "idle" \/ Stranded

(* php-runtime.scm:285 says of reset-runtime-state: "this function is run   *)
(* after a page view / it should reset any toplevel variable to it's top    *)
(* level state".  So a worker that waits for a request is as clean as a new *)
(* one, whatever became of the page before.                                 *)
ResetsAll == \A p \in Procs : phase[p] = "idle" => Clean(p)

=============================================================================
