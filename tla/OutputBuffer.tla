---------------------------- MODULE OutputBuffer ----------------------------
(***************************************************************************)
(* Output buffering (output-buffering.scm, php-output-control.scm): two    *)
(* parallel stacks, of string ports and of callbacks.  Flushing closes the *)
(* port, which empties it, then runs the callback on the text, then shows  *)
(* the result in the next port or on the page.  A callback is a function   *)
(* of the script and may use the buffers itself while that goes on.        *)
(*                                                                         *)
(* What echo writes is numbered, so order and loss can be told.            *)
(***************************************************************************)
EXTENDS Integers, Sequences

CONSTANTS
    MaxBuffers, MaxSaid, MaxWork,   \* bounds: buffers, echoes, nested calls
    Kinds                           \* the callbacks that scripts install

(* "none", "plain" ones that only rewrite their argument, "busy" ones that  *)
(* use output functions, and "bad" ones that are undefined or raise.        *)
ASSUME BufferAssumption ==
    /\ {MaxBuffers, MaxSaid, MaxWork} \subseteq Nat \ {0}
    /\ Kinds \subseteq {"none", "plain", "busy", "bad"}

VARIABLES
    ports,      \* *output-buffer-stack*, the current buffer first
    callbacks,  \* *output-callback-stack*
    text,       \* what each port holds
    page,       \* what went to the page itself
    work,       \* what the running output functions still have to do
    phase,      \* "script", "ending" (flush-all), "leaving" after an error
    said,       \* how many echoes there were, on this page
    cleaned,    \* what the script cleaned or echoed in a callback
    meddled     \* a callback has changed the stacks; or an error lost output

buffering == <<ports, callbacks, text, page, work, phase, said, cleaned, meddled>>

Ports == 1..(MaxBuffers + MaxWork)
Page == 0

BufferInit ==
    /\ ports = <<>> /\ callbacks = <<>> /\ text = [p \in Ports |-> <<>>]
    /\ page = <<>> /\ work = <<>> /\ phase = "script"
    /\ said = 0 /\ cleaned = {} /\ meddled = FALSE

Values(s) == {s[i] : i \in DOMAIN s}

InCallback == work # <<>> /\ Head(work).do = "call"
ScriptRuns == (phase = "script" /\ work = <<>>) \/ InCallback
Meddles == meddled' = (meddled \/ InCallback)

Flush == [do |-> "flush"]
PopTop == [do |-> "pop"]
Again == [do |-> "again"]
Call == [do |-> "call"]
Move(from, to, cb) == [do |-> "move", from |-> from, to |-> to, cb |-> cb]
Put(to, t) == [do |-> "put", to |-> to, text |-> t]

Busy(p) == \E i \in DOMAIN work :
              work[i].do \in {"move", "put"} /\ p \in {work[i].to} \cup
                  (IF work[i].do = "move" THEN {work[i].from} ELSE {})
FreePorts == {p \in Ports : p \notin Values(ports) /\ ~Busy(p)}

-----------------------------------------------------------------------------
(* What scripts do.                                                         *)
ObEcho ==
    /\ ScriptRuns /\ said < MaxSaid
    /\ said' = said + 1
    /\ IF ports = <<>> THEN page' = Append(page, said + 1) /\ UNCHANGED text
       ELSE text' = [text EXCEPT ![Head(ports)] = Append(@, said + 1)] /\ UNCHANGED page
    /\ cleaned' = IF InCallback THEN cleaned \cup {said + 1} ELSE cleaned
    /\ UNCHANGED <<ports, callbacks, work, phase, meddled>>

ObStart(cb) ==
    /\ ScriptRuns /\ Len(ports) < MaxBuffers
    /\ LET p == CHOOSE q \in FreePorts : TRUE
       IN ports' = <<p>> \o ports /\ text' = [text EXCEPT ![p] = <<>>]
    /\ callbacks' = <<cb>> \o callbacks
    /\ Meddles
    /\ UNCHANGED <<page, work, phase, said, cleaned>>

ObClean ==
    /\ ScriptRuns /\ ports # <<>>
    /\ cleaned' = cleaned \cup Values(text[Head(ports)])
    /\ text' = [text EXCEPT ![Head(ports)] = <<>>]
    /\ Meddles
    /\ UNCHANGED <<ports, callbacks, page, work, phase, said>>

ObEndClean ==
    /\ ScriptRuns /\ ports # <<>>
    /\ cleaned' = cleaned \cup Values(text[Head(ports)])
    /\ text' = [text EXCEPT ![Head(ports)] = <<>>]
    /\ ports' = Tail(ports) /\ callbacks' = Tail(callbacks)
    /\ Meddles
    /\ UNCHANGED <<page, work, phase, said>>

(* ob_flush, ob_end_flush, and flush, which goes down the whole stack.      *)
Begin(items) ==
    /\ ScriptRuns /\ Len(work) < MaxWork
    /\ work' = items \o work
    /\ Meddles
    /\ UNCHANGED <<ports, callbacks, text, page, phase, said, cleaned>>

NextPort(i) == IF i = Len(ports) THEN Page ELSE ports[i + 1]

ObFlush == Begin(<<Flush>>)
ObEndFlush == Begin(<<Flush, PopTop>>)
FlushAll == Begin([i \in DOMAIN ports |-> Move(ports[i], NextPort(i), callbacks[i])])

(* The script ends, by itself or by exit(); ob-flush-all follows.           *)
ObEndPage ==
    /\ phase = "script" /\ ScriptRuns /\ ~InCallback
    /\ phase' = "ending" /\ work' = <<Flush, Again>>
    /\ UNCHANGED <<ports, callbacks, text, page, said, cleaned, meddled>>

-----------------------------------------------------------------------------
(* What the output functions do, one step after the other.                  *)
StepFlush ==
    /\ work # <<>> /\ Head(work).do = "flush"
    /\ work' = (IF ports = <<>> THEN <<>>
                ELSE <<Move(ports[1], NextPort(1), callbacks[1])>>) \o Tail(work)
    /\ UNCHANGED <<ports, callbacks, text, page, phase, said, cleaned, meddled>>

(* Mutant: everything goes to the page.                                     *)
StepMoveToPage ==
    /\ work # <<>> /\ Head(work).do = "move" /\ Head(work).cb \in {"none", "plain"}
    /\ page' = page \o text[Head(work).from]
    /\ text' = [text EXCEPT ![Head(work).from] = <<>>]
    /\ work' = Tail(work)
    /\ UNCHANGED <<ports, callbacks, phase, said, cleaned, meddled>>

StepMove ==
    /\ work # <<>> /\ Head(work).do = "move" /\ Head(work).cb \in {"none", "plain"}
    /\ LET from == Head(work).from
           to == Head(work).to
       IN /\ page' = IF to = Page THEN page \o text[from] ELSE page
          /\ text' = [p \in Ports |-> IF p = from THEN <<>>
                                      ELSE IF p = to THEN text[p] \o text[from]
                                      ELSE text[p]]
    /\ work' = Tail(work)
    /\ UNCHANGED <<ports, callbacks, phase, said, cleaned, meddled>>

StepCall ==
    /\ work # <<>> /\ Head(work).do = "move" /\ Head(work).cb = "busy"
    /\ LET from == Head(work).from
       IN /\ work' = <<Call, Put(Head(work).to, text[from])>> \o Tail(work)
          /\ text' = [text EXCEPT ![from] = <<>>]
    /\ UNCHANGED <<ports, callbacks, page, phase, said, cleaned, meddled>>

(* A callback that is undefined or raises: the text is gone, and so is what *)
(* was to be done.  In the script the page ends; while it ends, run-url     *)
(* itself is left, without the reset.                                       *)
StepRaise ==
    /\ work # <<>> /\ Head(work).do = "move" /\ Head(work).cb = "bad"
    /\ text' = [text EXCEPT ![Head(work).from] = <<>>]
    /\ work' = IF phase = "script" THEN <<Flush, Again>> ELSE <<>>
    /\ phase' = IF phase = "script" THEN "ending" ELSE "leaving"
    /\ meddled' = TRUE
    /\ UNCHANGED <<ports, callbacks, page, said, cleaned>>

CallbackReturns ==
    /\ InCallback
    /\ work' = Tail(work)
    /\ UNCHANGED <<ports, callbacks, text, page, phase, said, cleaned, meddled>>

StepPut ==
    /\ work # <<>> /\ Head(work).do = "put"
    /\ IF Head(work).to = Page
       THEN page' = page \o Head(work).text /\ UNCHANGED text
       ELSE text' = [text EXCEPT ![Head(work).to] = @ \o Head(work).text] /\ UNCHANGED page
    /\ work' = Tail(work)
    /\ UNCHANGED <<ports, callbacks, phase, said, cleaned, meddled>>

(* ob-pop-stacks, and in ob-flush-all the next round if there was one.      *)
(* Mutant: a round more as long as there are buffers, none popped.          *)
StepPopKept ==
    /\ work # <<>> /\ Head(work).do \in {"pop", "again"}
    /\ work' = (IF Head(work).do = "again" /\ ports # <<>> THEN <<Flush, Again>> ELSE <<>>)
               \o Tail(work)
    /\ UNCHANGED <<ports, callbacks, text, page, phase, said, cleaned, meddled>>

StepPop ==
    /\ work # <<>> /\ Head(work).do \in {"pop", "again"}
    /\ work' = (IF Head(work).do = "again" /\ ports # <<>> THEN <<Flush, Again>> ELSE <<>>)
               \o Tail(work)
    /\ IF ports = <<>> THEN UNCHANGED <<ports, callbacks, text>>
       ELSE /\ ports' = Tail(ports) /\ callbacks' = Tail(callbacks)
            /\ text' = [text EXCEPT ![Head(ports)] = <<>>]
    /\ UNCHANGED <<page, phase, said, cleaned, meddled>>

(* ob-reset!, and the next page.  After "leaving" the worker goes on with   *)
(* the stacks as they are; the model ends there.                            *)
ObReset ==
    /\ phase = "ending" /\ work = <<>>
    /\ ports' = <<>> /\ callbacks' = <<>> /\ text' = [p \in Ports |-> <<>>]
    /\ page' = <<>> /\ phase' = "script"
    /\ said' = 0 /\ cleaned' = {} /\ meddled' = FALSE
    /\ UNCHANGED work

-----------------------------------------------------------------------------
Script ==
    \/ ObEcho \/ (\E cb \in Kinds : ObStart(cb))
    \/ ObClean \/ ObEndClean \/ ObFlush \/ ObEndFlush \/ FlushAll

BufferStep ==
    \/ StepFlush \/ StepMove \/ StepCall \/ StepRaise \/ StepPut \/ StepPop
    \/ CallbackReturns \/ ObReset

BufferNext == Script \/ ObEndPage \/ BufferStep

BufferSpec == BufferInit /\ [][BufferNext]_buffering

(* The program goes on, and callbacks come to their end.                    *)
BufferFairness == WF_buffering(BufferStep) /\ SF_buffering(CallbackReturns)

-----------------------------------------------------------------------------
(* What a page has said comes out once and in the order it was said, unless *)
(* the script cleaned it or said it in a callback, whatever it flushes and  *)
(* nests, as long as callbacks leave the stacks alone and do not fail.      *)
Level(a) == IF a = 0 THEN page ELSE text[ports[Len(ports) + 1 - a]]
Flow ==
    LET upto[a \in 0..Len(ports)] == IF a = 0 THEN page ELSE upto[a - 1] \o Level(a)
    IN upto[Len(ports)]

Underway == UNION {Values(work[i].text) : i \in {j \in DOMAIN work : work[j].do = "put"}}

OnceInOrder ==
    ~meddled =>
        LET flow == Flow
        IN /\ \A i, j \in DOMAIN flow : i < j => flow[i] < flow[j]
           /\ Values(flow) \cup Underway \cup cleaned = 1..said
           /\ Values(flow) \cap Underway = {}

(* The flush at the end of a page ends, unless callbacks open new buffers.  *)
FlushEnds == phase = "ending" ~> phase # "ending" \/ meddled
=============================================================================
