------------------------------ MODULE TryStack ------------------------------
(***************************************************************************)
(* Exceptions (php-errors.scm, evaluate.scm, generate.scm).  A try puts an *)
(* entry on *try-stack* when it begins and takes one off when it ends; a   *)
(* call does so with its arguments on *func-args-stack*.  Both stacks are  *)
(* kept by hand beside the stack of the program itself, which return,      *)
(* break, exit and exceptions unwind without looking at them.  So entries  *)
(* stay behind, in the page and in the worker after it.                    *)
(*                                                                         *)
(* Every try and call has a number, so that one can tell whose an entry is. *)
(***************************************************************************)
EXTENDS Integers, Sequences

CONSTANTS
    Exceptions,     \* classes of exceptions
    IsA,            \* for each of them, the set of classes it is
    MaxDepth,       \* bounds: nested tries and calls, entries on a stack,
    MaxEntries,     \* and tries and calls altogether
    MaxSerial

ASSUME TryAssumption ==
    /\ IsA \in [Exceptions -> SUBSET Exceptions]
    /\ \A e \in Exceptions : e \in IsA[e]
    /\ {MaxDepth, MaxEntries, MaxSerial} \subseteq Nat

VARIABLES
    frames,     \* what is running, outermost first: tries and calls, each
                \* with the place its entry was put at
    tries,      \* *try-stack*, the top last: the try and the classes it catches
    funcArgs,   \* *func-args-stack*, the top last: the call
    thrown,     \* the exception looking for its catch, if any
    serial      \* how many tries and calls there were

trying == <<frames, tries, funcArgs, thrown, serial>>

NoException == [class |-> "none"]
Thrown(e) == [class |-> e]

TryInit ==
    /\ frames = <<>> /\ tries = <<>> /\ funcArgs = <<>>
    /\ thrown = NoException /\ serial = 0

Cut(s, n) == SubSeq(s, 1, n)
WithoutTop(s) == IF s = <<>> THEN s ELSE Cut(s, Len(s) - 1)

Running == thrown = NoException
Room == Len(frames) < MaxDepth /\ serial < MaxSerial

-----------------------------------------------------------------------------
(* A try begins, and ends without an exception.                             *)
PushTryStack(classes) ==
    /\ Running /\ Room /\ Len(tries) < MaxEntries
    /\ serial' = serial + 1
    /\ frames' = Append(frames, [kind |-> "try", id |-> serial, at |-> Len(tries) + 1])
    /\ tries' = Append(tries, [id |-> serial, classes |-> classes])
    /\ UNCHANGED <<funcArgs, thrown>>

Innermost == frames[Len(frames)]

EndTry ==
    /\ Running /\ frames # <<>> /\ Innermost.kind = "try"
    /\ frames' = WithoutTop(frames)
    /\ tries' = WithoutTop(tries)
    /\ UNCHANGED <<funcArgs, thrown, serial>>

(* break and continue leave tries without their pop-try-stack.              *)
BreakOut(n) ==
    /\ Running /\ n \in 0..(Len(frames) - 1)
    /\ \A i \in (n + 1)..Len(frames) : frames[i].kind = "try"
    /\ frames' = Cut(frames, n)
    /\ UNCHANGED <<tries, funcArgs, thrown, serial>>

(* A call, and its end, by return or at the end of its body.  Here too the  *)
(* tries in between keep their entries.                                     *)
CallFunction ==
    /\ Running /\ Room /\ Len(funcArgs) < MaxEntries
    /\ serial' = serial + 1
    /\ frames' = Append(frames, [kind |-> "call", id |-> serial, at |-> Len(funcArgs) + 1])
    /\ funcArgs' = Append(funcArgs, serial)
    /\ UNCHANGED <<tries, thrown>>

InnermostCall(i) ==
    /\ frames[i].kind = "call"
    /\ \A j \in (i + 1)..Len(frames) : frames[j].kind = "try"

Return(i) ==
    /\ Running /\ i \in DOMAIN frames /\ InnermostCall(i)
    /\ frames' = Cut(frames, i - 1)
    /\ funcArgs' = WithoutTop(funcArgs)
    /\ UNCHANGED <<tries, thrown, serial>>

-----------------------------------------------------------------------------
(* throw, and php-exception: the entry nearest to the top with a class that *)
(* the exception is.                                                        *)
Throw(e) ==
    /\ Running /\ frames # <<>>
    /\ thrown' = Thrown(e)
    /\ UNCHANGED <<frames, tries, funcArgs, serial>>

Catches(k) == tries[k].classes \cap IsA[thrown.class] # {}

(* Mutant: the search begins at the oldest entry.                           *)
OldestCatch(k) ==
    /\ k \in DOMAIN tries /\ Catches(k)
    /\ \A j \in 1..(k - 1) : ~Catches(j)

FirstCatch(k) ==
    /\ k \in DOMAIN tries /\ Catches(k)
    /\ \A j \in (k + 1)..Len(tries) : ~Catches(j)

IsTry(i, id) == frames[i].kind = "try" /\ frames[i].id = id

(* Its try is running: go there, take one entry off, run the catch.         *)
(* Mutant: two entries off, one in php-exception and one there.             *)
CaughtPopTwo(i, k) ==
    /\ ~Running /\ FirstCatch(k)
    /\ i \in DOMAIN frames /\ IsTry(i, tries[k].id)
    /\ frames' = Cut(frames, i - 1)
    /\ tries' = WithoutTop(WithoutTop(tries))
    /\ thrown' = NoException
    /\ UNCHANGED <<funcArgs, serial>>

Caught(i, k) ==
    /\ ~Running /\ FirstCatch(k)
    /\ i \in DOMAIN frames /\ IsTry(i, tries[k].id)
    /\ frames' = Cut(frames, i - 1)
    /\ tries' = WithoutTop(tries)
    /\ thrown' = NoException
    /\ UNCHANGED <<funcArgs, serial>>

(* Its try is over: there is no place to go to any more, and the page ends. *)
CaughtTooLate(k) ==
    /\ ~Running /\ FirstCatch(k)
    /\ \A i \in DOMAIN frames : ~IsTry(i, tries[k].id)
    /\ frames' = <<>> /\ thrown' = NoException
    /\ UNCHANGED <<tries, funcArgs, serial>>

(* No entry: an error and the end of the page, or a handler that the script *)
(* has set, after which it goes on behind the throw.                        *)
Uncaught ==
    /\ ~Running /\ \A k \in DOMAIN tries : ~Catches(k)
    /\ frames' \in {<<>>, frames}
    /\ thrown' = NoException
    /\ UNCHANGED <<tries, funcArgs, serial>>

(* exit, an error, or return outside of functions; reset-errors! leaves     *)
(* both stacks to the next page.                                            *)
AbandonPage ==
    /\ Running /\ frames # <<>>
    /\ frames' = <<>>
    /\ UNCHANGED <<tries, funcArgs, thrown, serial>>

-----------------------------------------------------------------------------
TryNext ==
    \/ \E classes \in SUBSET Exceptions \ {{}} : PushTryStack(classes)
    \/ EndTry \/ CallFunction \/ Uncaught \/ AbandonPage
    \/ \E n \in 0..MaxDepth : BreakOut(n) \/ Return(n)
    \/ \E e \in Exceptions : Throw(e)
    \/ \E k \in 1..MaxEntries : CaughtTooLate(k) \/ \E i \in 1..MaxDepth : Caught(i, k)

TrySpec == TryInit /\ [][TryNext]_trying

-----------------------------------------------------------------------------
(* Whatever stays behind, every try and every call that is running still    *)
(* has its entry on its stack, where it was put and in the order of their   *)
(* nesting: so a pop never finds an empty stack (the assertion of           *)
(* pop-func-args), and a running try that should catch is always found.     *)
EntryOf(f) ==
    IF f.kind = "try" THEN f.at \in DOMAIN tries /\ tries[f.at].id = f.id
                      ELSE f.at \in DOMAIN funcArgs /\ funcArgs[f.at] = f.id

RunningHaveEntries ==
    \A i \in DOMAIN frames :
        /\ EntryOf(frames[i])
        /\ \A j \in 1..(i - 1) : frames[j].kind = frames[i].kind => frames[j].at < frames[i].at

(* "which push on at the begining of the try, and pop off at the end"       *)
(* (evaluate.scm): an entry is that of a try that is running.               *)
Stale(k) == \A i \in DOMAIN frames : ~IsTry(i, tries[k].id)
EntriesAreLive == \A k \in DOMAIN tries : ~Stale(k)

(* As long as no entry is stale, an exception goes to the innermost of the  *)
(* running tries that catch it.  A stale entry may take it from that try    *)
(* but never keeps it inside: what it leaves, it leaves at least up to there. *)
Willing(i) == frames[i].kind = "try" /\ Catches(frames[i].at)
InnermostCatches ==
    [][(~Running /\ frames' # frames) =>
         \A i \in DOMAIN frames :
            Willing(i) => /\ Len(frames') >= i - 1 \/ \E k \in DOMAIN tries : Stale(k)
                          /\ Len(frames') <= i - 1 \/ \E j \in (i + 1)..Len(frames) : Willing(j)
      ]_trying
=============================================================================
