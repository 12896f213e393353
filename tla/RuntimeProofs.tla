--------------------------- MODULE RuntimeProofs ----------------------------
(***************************************************************************)
(* What TLAPS proves of parts of the runtime that a page goes through, for *)
(* any files, classes, buffers, processes and limits: the process pool,    *)
(* included files and the parse cache, the try stack and output buffering. *)
(***************************************************************************)
EXTENDS FcgiPool, Includes, TryStack, OutputBuffer, Induction, SequenceTheorems

-----------------------------------------------------------------------------
(* The FastCGI process pool.                                                *)

PoolTypeOK ==
    /\ parent \in {"up", "restored", "told", "gone"}
    /\ mail \subseteq Signals
    /\ forked \in Nat
    /\ child \in [Pids -> {"none", "newborn", "serving", "zombie"}]
    /\ handles \in [Pids -> SUBSET Signals]
    /\ pending \in [Pids -> SUBSET Signals]

(* The children the parent has not waited for.                              *)
Forked == {c \in Pids : child[c] # "none"}

PoolInv == PoolTypeOK /\ CountsChildren /\ ToldAll

USE PoolAssumption

LEMMA ForkedFinite == IsFiniteSet(Forked)
  BY FS_Subset DEF Forked

LEMMA PoolInitInv == PoolInit => PoolInv
<1> SUFFICES ASSUME PoolInit PROVE PoolInv
  OBVIOUS
<1>1. PoolTypeOK
  BY DEF PoolInit, PoolTypeOK
<1>2. {c \in Pids : child[c] # "none"} = {}
  BY DEF PoolInit
<1>3. CountsChildren
  BY <1>2, FS_EmptySet DEF PoolInit, CountsChildren
<1>4. ToldAll
  BY DEF PoolInit, ToldAll
<1> QED
  BY <1>1, <1>3, <1>4 DEF PoolInv

-----------------------------------------------------------------------------
LEMMA PoolTypeStep == PoolTypeOK /\ CountsChildren /\ [PoolNext]_pool => PoolTypeOK'
<1> SUFFICES ASSUME PoolTypeOK, CountsChildren, [PoolNext]_pool
             PROVE  PoolTypeOK'
  OBVIOUS
<1> USE DEF PoolTypeOK
<1>1. ASSUME NEW c \in Pids, Fork(c) PROVE PoolTypeOK'
  BY <1>1 DEF Fork
<1>2. ASSUME NEW c \in Pids, Wait(c) PROVE PoolTypeOK'
  <2>1. forked - 1 \in Nat
    BY <1>2 DEF Wait, Undisturbed
  <2> QED
    BY <1>2, <2>1 DEF Wait
<1>3. ASSUME NEW sig \in Signals, Catch(sig) PROVE PoolTypeOK'
  BY <1>3 DEF Catch
<1>4. CASE CutShort
  BY <1>4 DEF CutShort
<1>5. CASE Tell
  BY <1>5 DEF Tell, ToGroup, Signals
<1>6. CASE ParentExits
  BY <1>6 DEF ParentExits
<1>7. CASE ForkFails
  BY <1>7 DEF ForkFails
<1>8. ASSUME NEW c \in Pids, RestoreOne(c) PROVE PoolTypeOK'
  BY <1>8 DEF RestoreOne
<1>9. ASSUME NEW c \in Pids, ChildEnds(c) PROVE PoolTypeOK'
  BY <1>9 DEF ChildEnds
<1>10. ASSUME NEW c \in Pids, NEW sig \in Signals, Die(c, sig) PROVE PoolTypeOK'
  BY <1>10 DEF Die
<1>11. ASSUME NEW c \in Pids, NEW sig \in Signals, CatchInChild(c, sig) PROVE PoolTypeOK'
  BY <1>11 DEF CatchInChild, ToGroup, Signals
<1>12. ASSUME NEW sig \in Sent, SignalParent(sig) PROVE PoolTypeOK'
  BY <1>12 DEF SignalParent
<1>13. ASSUME NEW sig \in Sent, NEW c \in Pids, SignalChild(c, sig) PROVE PoolTypeOK'
  BY <1>13 DEF SignalChild
<1>14. CASE UNCHANGED pool
  BY <1>14 DEF pool
<1> QED
  BY <1>1, <1>2, <1>3, <1>4, <1>5, <1>6, <1>7, <1>8, <1>9, <1>10, <1>11, <1>12, <1>13, <1>14
  DEF PoolNext, ParentStep, ChildStep

-----------------------------------------------------------------------------
(* A fork adds one to the count and to the children, a wait takes one off   *)
(* both, and whatever else happens to a child leaves it to be waited for.   *)
LEMMA CountStep == PoolTypeOK /\ CountsChildren /\ [PoolNext]_pool => CountsChildren'
<1> SUFFICES ASSUME PoolTypeOK, CountsChildren, [PoolNext]_pool, (parent # "gone")'
             PROVE  forked' = Cardinality(Forked') /\ forked' <= NumChildren
  BY DEF CountsChildren, Forked
<1>0. parent # "gone" => forked = Cardinality(Forked) /\ forked <= NumChildren
  BY DEF CountsChildren, Forked
<1>k. ASSUME Forked' = Forked, forked' = forked, parent # "gone"
      PROVE  forked' = Cardinality(Forked') /\ forked' <= NumChildren
  BY <1>k, <1>0
<1>1. ASSUME NEW c \in Pids, Fork(c)
      PROVE  forked' = Cardinality(Forked') /\ forked' <= NumChildren
  <2>1. parent # "gone" /\ c \notin Forked /\ Forked' = Forked \cup {c}
    BY <1>1 DEF Fork, Undisturbed, Forked, PoolTypeOK
  <2>2. Cardinality(Forked') = Cardinality(Forked) + 1
    BY <2>1, ForkedFinite, FS_AddElement
  <2> QED
    BY <1>0, <1>1, <2>1, <2>2 DEF Fork, PoolTypeOK
<1>2. ASSUME NEW c \in Pids, Wait(c)
      PROVE  forked' = Cardinality(Forked') /\ forked' <= NumChildren
  <2>1. parent # "gone" /\ c \in Forked /\ Forked' = Forked \ {c}
    BY <1>2 DEF Wait, Undisturbed, Forked, PoolTypeOK
  <2>2. Cardinality(Forked') = Cardinality(Forked) - 1
    BY <2>1, ForkedFinite, FS_RemoveElement
  <2> QED
    BY <1>0, <1>2, <2>1, <2>2 DEF Wait, PoolTypeOK
<1>3. ASSUME NEW sig \in Signals, Catch(sig)
      PROVE  forked' = Cardinality(Forked') /\ forked' <= NumChildren
  BY <1>3, <1>k DEF Catch, Forked
<1>4. CASE CutShort \/ ParentExits \/ ForkFails
  BY <1>4 DEF CutShort, ParentExits, ForkFails
<1>5. CASE Tell
  BY <1>5, <1>k DEF Tell, Forked
<1>6. ASSUME NEW c \in Pids, RestoreOne(c)
      PROVE  forked' = Cardinality(Forked') /\ forked' <= NumChildren
  <2>1. Forked' = Forked
    BY <1>6 DEF RestoreOne, Forked, PoolTypeOK
  <2> QED
    BY <1>6, <2>1, <1>k DEF RestoreOne
<1>7. ASSUME NEW c \in Pids, ChildEnds(c)
      PROVE  forked' = Cardinality(Forked') /\ forked' <= NumChildren
  <2>1. Forked' = Forked
    BY <1>7 DEF ChildEnds, Forked, PoolTypeOK
  <2> QED
    BY <1>7, <2>1, <1>k DEF ChildEnds
<1>8. ASSUME NEW c \in Pids, NEW sig \in Signals, Die(c, sig) \/ CatchInChild(c, sig)
      PROVE  forked' = Cardinality(Forked') /\ forked' <= NumChildren
  <2>1. child' = [child EXCEPT ![c] = "zombie"] /\ child[c] # "none"
    BY <1>8 DEF Die, CatchInChild, Alive
  <2>2. Forked' = Forked
    BY <2>1 DEF Forked, PoolTypeOK
  <2> QED
    BY <1>8, <2>2, <1>k DEF Die, CatchInChild
<1>9. ASSUME NEW sig \in Sent, SignalParent(sig)
      PROVE  forked' = Cardinality(Forked') /\ forked' <= NumChildren
  BY <1>9, <1>k DEF SignalParent, Forked
<1>10. ASSUME NEW sig \in Sent, NEW c \in Pids, SignalChild(c, sig)
       PROVE  forked' = Cardinality(Forked') /\ forked' <= NumChildren
  BY <1>10, <1>k DEF SignalChild, Forked
<1>11. CASE UNCHANGED pool
  BY <1>11, <1>k DEF pool, Forked
<1> QED
  BY <1>1, <1>2, <1>3, <1>4, <1>5, <1>6, <1>7, <1>8, <1>9, <1>10, <1>11
  DEF PoolNext, ParentStep, ChildStep

-----------------------------------------------------------------------------
(* Once the parent has told its children nobody is forked any more, and     *)
(* nothing takes a signal from a child without ending it.                   *)
LEMMA ToldStep == PoolTypeOK /\ ToldAll /\ [PoolNext]_pool => ToldAll'
<1> SUFFICES ASSUME PoolTypeOK, ToldAll, [PoolNext]_pool, (parent = "told")',
                    NEW d \in Alive'
             PROVE  "TERM" \in pending'[d]
  BY DEF ToldAll
<1>0. d \in Pids /\ child'[d] \in {"newborn", "serving"}
  BY DEF Alive
<1>k. ASSUME parent = "told", d \in Alive PROVE "TERM" \in pending[d]
  BY <1>k DEF ToldAll
<1>1. CASE Tell
  <2>1. d \in Alive
    BY <1>0, <1>1 DEF Tell, Alive
  <2> QED
    BY <1>0, <1>1, <2>1 DEF Tell, ToGroup
<1>2. ASSUME NEW c \in Pids, Fork(c) \/ Wait(c) PROVE FALSE
  BY <1>2 DEF Fork, Wait, Undisturbed
<1>3. ASSUME NEW sig \in Signals, Catch(sig) PROVE FALSE
  BY <1>3 DEF Catch
<1>4. CASE CutShort \/ ParentExits \/ ForkFails
  BY <1>4 DEF CutShort, ParentExits, ForkFails
<1>5. ASSUME NEW c \in Pids, RestoreOne(c) PROVE "TERM" \in pending'[d]
  <2>1. d \in Alive
    BY <1>0, <1>5 DEF RestoreOne, Alive, PoolTypeOK
  <2> QED
    BY <1>5, <1>k, <2>1 DEF RestoreOne
<1>6. ASSUME NEW c \in Pids, ChildEnds(c) PROVE "TERM" \in pending'[d]
  <2>1. d \in Alive /\ d # c
    BY <1>0, <1>6 DEF ChildEnds, Alive, PoolTypeOK
  <2> QED
    BY <1>0, <1>6, <1>k, <2>1 DEF ChildEnds, PoolTypeOK
<1>7. ASSUME NEW c \in Pids, NEW sig \in Signals, Die(c, sig) PROVE "TERM" \in pending'[d]
  <2>1. d \in Alive /\ d # c
    BY <1>0, <1>7 DEF Die, Alive, PoolTypeOK
  <2> QED
    BY <1>0, <1>7, <1>k, <2>1 DEF Die, PoolTypeOK
<1>8. ASSUME NEW c \in Pids, NEW sig \in Signals, CatchInChild(c, sig)
      PROVE  "TERM" \in pending'[d]
  <2>1. d \in Alive /\ d # c
    BY <1>0, <1>8 DEF CatchInChild, Alive, PoolTypeOK
  <2> QED
    BY <1>0, <1>8, <2>1 DEF CatchInChild, ToGroup
<1>9. ASSUME NEW sig \in Sent, SignalParent(sig) PROVE "TERM" \in pending'[d]
  <2>1. d \in Alive
    BY <1>0, <1>9 DEF SignalParent, Alive
  <2> QED
    BY <1>9, <1>k, <2>1 DEF SignalParent
<1>10. ASSUME NEW sig \in Sent, NEW c \in Pids, SignalChild(c, sig)
       PROVE  "TERM" \in pending'[d]
  <2>1. d \in Alive
    BY <1>0, <1>10 DEF SignalChild, Alive
  <2> QED
    BY <1>0, <1>10, <1>k, <2>1 DEF SignalChild, PoolTypeOK
<1>11. CASE UNCHANGED pool
  <2>1. d \in Alive
    BY <1>0, <1>11 DEF pool, Alive
  <2> QED
    BY <1>11, <1>k, <2>1 DEF pool
<1> QED
  BY <1>1, <1>2, <1>3, <1>4, <1>5, <1>6, <1>7, <1>8, <1>9, <1>10, <1>11
  DEF PoolNext, ParentStep, ChildStep

-----------------------------------------------------------------------------
(* Every reachable state of the pool (pcc_fcgi_spawn and its handler)       *)
(* satisfies the invariant.                                                 *)
THEOREM PoolInvariant == PoolSpec => []PoolInv
<1>1. PoolInit => PoolInv
  BY PoolInitInv
<1>2. PoolInv /\ [PoolNext]_pool => PoolInv'
  BY PoolTypeStep, CountStep, ToldStep DEF PoolInv
<1> QED
  BY <1>1, <1>2, PTL DEF PoolSpec

(* The parent's count is the number of children it has not waited for, and  *)
(* at most the number it was asked for.                                     *)
THEOREM CountIsRight == PoolSpec => []CountsChildren
<1>1. PoolInv => CountsChildren
  BY DEF PoolInv
<1> QED
  BY PoolInvariant, <1>1, PTL

(* A parent that went down by its handler has told every living child.      *)
THEOREM EveryoneTold == PoolSpec => []ToldAll
<1>1. PoolInv => ToldAll
  BY DEF PoolInv
<1> QED
  BY PoolInvariant, <1>1, PTL

-----------------------------------------------------------------------------
(* Included files and the parse cache.                                      *)

Trees == [text: Texts \cup {Missing}, file: Files]
FileRun == [file: Files, text: Texts \cup {Missing}, tree: Trees]

IncludesTypeOK ==
    /\ fileText \in [Files -> Texts \cup {Missing}]
    /\ memo \subseteq Trees /\ IsFiniteSet(memo)
    /\ nested \in Seq(FileRun) /\ cwd \in Dirs
    /\ included \subseteq Files
    /\ twice \in BOOLEAN /\ restored \in BOOLEAN

(* Unless the page forgot it, every included file that is in the middle of  *)
(* running counts as included; the first one is the page itself.            *)
RunningAreIncluded ==
    ~restored => \A i \in DOMAIN nested : i > 1 => nested[i].file \in included

IncludesInv ==
    /\ IncludesTypeOK /\ RunningAreIncluded
    /\ RunsWhatIsThere /\ OnceIsOnce /\ CacheBounded

LEMMA NothingNested == <<>> \in Seq(FileRun) /\ DOMAIN <<>> = {}
  OBVIOUS

(* The cache before an insertion is within its limit.                       *)
LEMMA EmptiedBounded ==
    ASSUME IncludesTypeOK
    PROVE  /\ Emptied \subseteq Trees /\ IsFiniteSet(Emptied)
           /\ Cardinality(Emptied) <= MaxMemoized
BY IncludesAssumption, FS_EmptySet, FS_CardinalityType DEF Emptied, IncludesTypeOK

LEMMA OneMore ==
    ASSUME NEW S, NEW x, NEW n \in Nat, IsFiniteSet(S), Cardinality(S) <= n
    PROVE  IsFiniteSet(S \cup {x}) /\ Cardinality(S \cup {x}) <= n + 1
<1>1. Cardinality(S) \in Nat
  BY FS_CardinalityType
<1>2. /\ IsFiniteSet(S \cup {x})
      /\ Cardinality(S \cup {x}) = IF x \in S THEN Cardinality(S) ELSE Cardinality(S) + 1
  BY FS_AddElement
<1> QED
  BY <1>1, <1>2

(* A file is run with a tree of its own text, and the cache grows by one.   *)
LEMMA EvaluateRight ==
    ASSUME IncludesTypeOK, NEW file \in Files, Evaluate(file)
    PROVE  /\ memo' \subseteq Trees /\ IsFiniteSet(memo')
           /\ Cardinality(memo') <= MaxMemoized + 1
           /\ \E new \in FileRun :
                 /\ new.file = file /\ new.tree.text = new.text
                 /\ nested' = Append(nested, new)
<1> DEFINE fresh == [text |-> fileText[file], file |-> file]
<1>1. fresh \in Trees
  BY DEF Trees, IncludesTypeOK
<1>2. PICK tree \in memo \cup {fresh} :
         /\ Parse(file, tree)
         /\ nested' = Append(nested, [file |-> file, text |-> fileText[file], tree |-> tree])
  BY DEF Evaluate
<1>3. memo' = Emptied \/ memo' = Emptied \cup {fresh}
  BY <1>2 DEF Parse
<1>4. IsFiniteSet(Emptied \cup {fresh})
      /\ Cardinality(Emptied \cup {fresh}) <= MaxMemoized + 1
  BY EmptiedBounded, OneMore, IncludesAssumption
<1>5. /\ memo' \subseteq Trees /\ IsFiniteSet(memo')
      /\ Cardinality(memo') <= MaxMemoized + 1
  <2>1. CASE memo' = Emptied
    <3>1. Cardinality(Emptied) \in Nat /\ MaxMemoized \in Nat
      BY EmptiedBounded, FS_CardinalityType, IncludesAssumption
    <3>2. Cardinality(Emptied) <= MaxMemoized + 1
      BY <3>1, EmptiedBounded
    <3> QED
      BY <2>1, <3>2, EmptiedBounded
  <2>2. CASE memo' = Emptied \cup {fresh}
    BY <1>1, <1>4, <2>2, EmptiedBounded
  <2> QED
    BY <1>3, <2>1, <2>2
<1>6. tree.text = fileText[file]
  BY <1>2 DEF Parse, Found
<1>7. tree \in Trees
  BY <1>1, <1>2 DEF IncludesTypeOK
<1>8. fileText[file] \in Texts \cup {Missing}
  BY DEF IncludesTypeOK
<1> DEFINE new == [file |-> file, text |-> fileText[file], tree |-> tree]
<1>9. new \in FileRun /\ new.file = file /\ new.tree.text = new.text
  BY <1>6, <1>7, <1>8 DEF FileRun
<1> QED
  BY <1>2, <1>5, <1>9

(* Cutting off what is run innermost keeps what is said of the others.      *)
LEMMA CutNested ==
    ASSUME IncludesTypeOK, NEW n \in Nat, n <= Len(nested), nested' = SubSeq(nested, 1, n)
    PROVE  /\ nested' \in Seq(FileRun)
           /\ DOMAIN nested' \subseteq DOMAIN nested
           /\ \A i \in DOMAIN nested' : nested'[i] = nested[i]
BY DEF IncludesTypeOK

-----------------------------------------------------------------------------
LEMMA IncludesInitInv == IncludesInit => IncludesInv
<1> SUFFICES ASSUME IncludesInit PROVE IncludesInv
  OBVIOUS
<1>1. IncludesTypeOK
  BY FS_EmptySet, NothingNested DEF IncludesInit, IncludesTypeOK
<1>2. RunningAreIncluded /\ RunsWhatIsThere /\ OnceIsOnce
  BY NothingNested DEF IncludesInit, RunningAreIncluded, RunsWhatIsThere, OnceIsOnce
<1>3. CacheBounded
  BY FS_EmptySet, IncludesAssumption DEF IncludesInit, CacheBounded
<1> QED
  BY <1>1, <1>2, <1>3 DEF IncludesInv

LEMMA RunUrlInv == ASSUME IncludesInv, NEW file \in Files, RunUrl(file) PROVE IncludesInv'
<1> USE DEF IncludesInv
<1>1. PICK new \in FileRun :
         /\ new.file = file /\ new.tree.text = new.text
         /\ nested' = Append(nested, new)
  BY EvaluateRight DEF RunUrl
<1>2. nested = <<>> /\ UNCHANGED <<fileText, included, twice, restored>>
  BY DEF RunUrl
<1>3. nested' = <<new>>
  BY <1>1, <1>2
<1>4. IncludesTypeOK'
  <2>1. cwd' \in Dirs
    BY DEF RunUrl, Files, DirOf
  <2> QED
    BY <1>2, <1>3, <2>1, EvaluateRight DEF RunUrl, IncludesTypeOK
<1>5. RunningAreIncluded' /\ RunsWhatIsThere'
  BY <1>1, <1>3 DEF RunningAreIncluded, RunsWhatIsThere
<1>6. OnceIsOnce'
  BY <1>2 DEF OnceIsOnce
<1>7. CacheBounded'
  BY EvaluateRight DEF RunUrl, CacheBounded
<1> QED
  BY <1>4, <1>5, <1>6, <1>7

(* A file is marked before it runs, so one that is running and not forgotten *)
(* is not run again by an include_once.                                     *)
LEMMA IncludeInv ==
    ASSUME IncludesInv, NEW name \in Names, NEW once \in BOOLEAN, Include(name, once)
    PROVE  IncludesInv'
<1> USE DEF IncludesInv
<1> DEFINE file == Search(name)
<1>1. CASE UNCHANGED <<memo, nested, included, twice>>
  <2>1. UNCHANGED <<fileText, cwd, memo, nested, included, twice, restored>>
    BY <1>1 DEF Include
  <2> QED
    BY <2>1 DEF IncludesTypeOK, RunningAreIncluded, RunsWhatIsThere, OnceIsOnce, CacheBounded
<1>2. CASE /\ file # NotFound /\ ~(once /\ file \in included)
           /\ Evaluate(file) /\ MarkIncluded(file)
           /\ twice' = (twice \/ (once /\ \E i \in 2..Len(nested) : nested[i].file = file))
  <2>0. UNCHANGED <<fileText, cwd, restored>> /\ Len(nested) \in Nat
    BY DEF Include, IncludesTypeOK
  <2>1. file \in Files
    <3>1. nested # <<>> /\ Len(nested) \in DOMAIN nested
      BY DEF Include, IncludesTypeOK
    <3>2. nested[Len(nested)] \in FileRun
      BY <3>1 DEF IncludesTypeOK
    <3>3. Current.tree.file \in Dirs \X Names
      BY <3>2 DEF Current, FileRun, Trees, Files
    <3> QED
      BY <1>2, <3>3 DEF Search, Files, DirOf, IncludesTypeOK
  <2>2. PICK new \in FileRun :
           /\ new.file = file /\ new.tree.text = new.text
           /\ nested' = Append(nested, new)
    BY <1>2, <2>1, EvaluateRight
  <2>3. included' = included \cup {file}
    BY <1>2 DEF MarkIncluded
  <2>4. IncludesTypeOK'
    BY <1>2, <2>0, <2>1, <2>2, <2>3, EvaluateRight DEF IncludesTypeOK
  <2>5. RunningAreIncluded' /\ RunsWhatIsThere'
    BY <2>0, <2>2, <2>3 DEF RunningAreIncluded, RunsWhatIsThere, IncludesTypeOK
  <2>6. OnceIsOnce'
    BY <1>2, <2>0 DEF OnceIsOnce, RunningAreIncluded, IncludesTypeOK
  <2>7. CacheBounded'
    BY <1>2, <2>1, EvaluateRight DEF CacheBounded
  <2> QED
    BY <2>4, <2>5, <2>6, <2>7
<1> QED
  BY <1>1, <1>2 DEF Include

LEMMA EndOneInv == ASSUME IncludesInv, FinishFile PROVE IncludesInv'
<1> USE DEF IncludesInv
<1>1. nested # <<>> /\ nested' = SubSeq(nested, 1, Len(nested) - 1)
      /\ UNCHANGED <<fileText, cwd, memo, included, twice, restored>>
  BY DEF FinishFile
<1>2. Len(nested) - 1 \in Nat /\ Len(nested) - 1 <= Len(nested)
  BY <1>1 DEF IncludesTypeOK
<1>3. /\ nested' \in Seq(FileRun) /\ DOMAIN nested' \subseteq DOMAIN nested
      /\ \A i \in DOMAIN nested' : nested'[i] = nested[i]
  BY <1>1, <1>2, CutNested
<1> QED
  BY <1>1, <1>3
  DEF IncludesTypeOK, RunningAreIncluded, RunsWhatIsThere, OnceIsOnce, CacheBounded

LEMMA RaiseInv ==
    ASSUME IncludesInv, NEW n \in 1..MaxNesting, RaiseInFile(n) PROVE IncludesInv'
<1> USE DEF IncludesInv
<1>1. nested' = SubSeq(nested, 1, n) /\ n \in Nat /\ n <= Len(nested)
      /\ UNCHANGED <<fileText, cwd, memo, included, twice, restored>>
  BY DEF RaiseInFile, IncludesTypeOK
<1>2. /\ nested' \in Seq(FileRun) /\ DOMAIN nested' \subseteq DOMAIN nested
      /\ \A i \in DOMAIN nested' : nested'[i] = nested[i]
  BY <1>1, CutNested
<1> QED
  BY <1>1, <1>2
  DEF IncludesTypeOK, RunningAreIncluded, RunsWhatIsThere, OnceIsOnce, CacheBounded

LEMMA IncludesStepInv == IncludesInv /\ [IncludesNext]_including => IncludesInv'
<1> SUFFICES ASSUME IncludesInv, [IncludesNext]_including PROVE IncludesInv'
  OBVIOUS
<1>1. ASSUME NEW file \in Files, RunUrl(file) PROVE IncludesInv'
  BY <1>1, RunUrlInv
<1>2. ASSUME NEW name \in Names, NEW once \in BOOLEAN, Include(name, once)
      PROVE  IncludesInv'
  BY <1>2, IncludeInv
<1>3. CASE FinishFile
  BY <1>3, EndOneInv
<1>4. CASE RestoreIncludePath
  BY <1>4 DEF RestoreIncludePath, IncludesInv, IncludesTypeOK, RunningAreIncluded,
              RunsWhatIsThere, OnceIsOnce, CacheBounded
<1>5. CASE EndOfPage
  BY <1>5, NothingNested DEF EndOfPage, IncludesInv, IncludesTypeOK, RunningAreIncluded,
              RunsWhatIsThere, OnceIsOnce, CacheBounded
<1>6. ASSUME NEW n \in 1..MaxNesting, RaiseInFile(n) PROVE IncludesInv'
  BY <1>6, RaiseInv
<1>7. ASSUME NEW file \in Files, NEW new \in Texts \cup {Missing}, Edit(file, new)
      PROVE  IncludesInv'
  BY <1>7 DEF Edit, IncludesInv, IncludesTypeOK, RunningAreIncluded, RunsWhatIsThere,
              OnceIsOnce, CacheBounded
<1>8. CASE UNCHANGED including
  BY <1>8 DEF including, IncludesInv, IncludesTypeOK, RunningAreIncluded,
              RunsWhatIsThere, OnceIsOnce, CacheBounded
<1> QED
  BY <1>1, <1>2, <1>3, <1>4, <1>5, <1>6, <1>7, <1>8 DEF IncludesNext

-----------------------------------------------------------------------------
(* Every reachable state of a worker's files satisfies the invariant.       *)
THEOREM IncludesInvariant == IncludesSpec => []IncludesInv
<1>1. IncludesInit => IncludesInv
  BY IncludesInitInv
<1>2. IncludesInv /\ [IncludesNext]_including => IncludesInv'
  BY IncludesStepInv
<1> QED
  BY <1>1, <1>2, PTL DEF IncludesSpec

(* Files run with the text they had when they were started, whatever the    *)
(* parse cache (%memoized-parse) holds.                                     *)
THEOREM TextsAreCurrent == IncludesSpec => []RunsWhatIsThere
<1>1. IncludesInv => RunsWhatIsThere
  BY DEF IncludesInv
<1> QED
  BY IncludesInvariant, <1>1, PTL

(* include_once never runs a file inside of itself, unless the page called  *)
(* restore_include_path.                                                    *)
THEOREM OnceOnly == IncludesSpec => []OnceIsOnce
<1>1. IncludesInv => OnceIsOnce
  BY DEF IncludesInv
<1> QED
  BY IncludesInvariant, <1>1, PTL

(* The parse cache is never more than one over its limit.                   *)
THEOREM CacheIsBounded == IncludesSpec => []CacheBounded
<1>1. IncludesInv => CacheBounded
  BY DEF IncludesInv
<1> QED
  BY IncludesInvariant, <1>1, PTL

-----------------------------------------------------------------------------
(* The try stack: what stays behind on it lies above or below but never in  *)
(* the place of the entry of a try that is running.                         *)

FrameType == [kind: {"try", "call"}, id: Nat, at: Nat]
EntryType == [id: Nat, classes: SUBSET Exceptions]

TryTypeOK ==
    /\ frames \in Seq(FrameType)
    /\ tries \in Seq(EntryType)
    /\ funcArgs \in Seq(Nat)
    /\ serial \in Nat

(* Entries are of different tries, the later ones above the earlier ones.   *)
InOrderOfAge ==
    /\ \A k \in DOMAIN tries : tries[k].id < serial
    /\ \A j, k \in DOMAIN tries : j < k => tries[j].id < tries[k].id

TryInv == TryTypeOK /\ InOrderOfAge /\ RunningHaveEntries

(* EntryOf on any two stacks.                                               *)
EntryIn(f, ts, as) ==
    IF f.kind = "try" THEN f.at \in DOMAIN ts /\ ts[f.at].id = f.id
                      ELSE f.at \in DOMAIN as /\ as[f.at] = f.id

LEMMA EntriesNow ==
    RunningHaveEntries <=>
        \A i \in DOMAIN frames :
            /\ EntryIn(frames[i], tries, funcArgs)
            /\ \A j \in 1..(i - 1) : frames[j].kind = frames[i].kind
                                      => frames[j].at < frames[i].at
BY DEF RunningHaveEntries, EntryOf, EntryIn

LEMMA EntriesThen ==
    RunningHaveEntries' <=>
        \A i \in DOMAIN frames' :
            /\ EntryIn(frames'[i], tries', funcArgs')
            /\ \A j \in 1..(i - 1) : frames'[j].kind = frames'[i].kind
                                      => frames'[j].at < frames'[i].at
BY DEF RunningHaveEntries, EntryOf, EntryIn

-----------------------------------------------------------------------------
(* Sequences that are cut or grow at their end.                             *)
LEMMA CutRight ==
    ASSUME NEW S, NEW s \in Seq(S), NEW n \in Nat, n <= Len(s)
    PROVE  /\ Cut(s, n) \in Seq(S) /\ Len(Cut(s, n)) = n
           /\ DOMAIN Cut(s, n) = 1..n /\ 1..n \subseteq DOMAIN s
           /\ \A i \in 1..n : Cut(s, n)[i] = s[i]
BY DEF Cut

LEMMA WithoutTopRight ==
    ASSUME NEW S, NEW s \in Seq(S), s # <<>>
    PROVE  /\ WithoutTop(s) \in Seq(S) /\ DOMAIN WithoutTop(s) = 1..(Len(s) - 1)
           /\ Len(s) \in Nat \ {0} /\ DOMAIN s = 1..Len(s)
           /\ \A i \in 1..(Len(s) - 1) : WithoutTop(s)[i] = s[i]
<1>1. Len(s) \in Nat \ {0} /\ DOMAIN s = 1..Len(s)
  OBVIOUS
<1>2. WithoutTop(s) = Cut(s, Len(s) - 1)
  BY DEF WithoutTop
<1> QED
  BY <1>1, <1>2, CutRight

LEMMA NoneLeft == ASSUME NEW S PROVE <<>> \in Seq(S) /\ DOMAIN <<>> = {}
  OBVIOUS

(* A shorter nesting, while the stacks stay as they are.                    *)
LEMMA UnwoundInv ==
    ASSUME TryInv, NEW n \in Nat, n <= Len(frames), frames' = Cut(frames, n),
           UNCHANGED <<tries, funcArgs, serial>>
    PROVE  TryInv'
<1>1. /\ frames' \in Seq(FrameType) /\ DOMAIN frames' = 1..n
      /\ 1..n \subseteq DOMAIN frames /\ \A i \in 1..n : frames'[i] = frames[i]
  BY CutRight DEF TryInv, TryTypeOK
<1>2. TryTypeOK' /\ InOrderOfAge'
  BY <1>1 DEF TryInv, TryTypeOK, InOrderOfAge
<1>3. RunningHaveEntries'
  BY EntriesNow, EntriesThen, <1>1 DEF TryInv, EntryIn
<1> QED
  BY <1>2, <1>3 DEF TryInv

(* The try at i goes and takes the top entry, which lies at its own place   *)
(* or above it.                                                             *)
LEMMA TryLeftInv ==
    ASSUME TryInv, NEW i \in DOMAIN frames, frames[i].kind = "try",
           frames' = Cut(frames, i - 1), tries' = WithoutTop(tries),
           UNCHANGED <<funcArgs, serial>>
    PROVE  TryInv'
<1> USE DEF TryInv
<1>1. i \in Nat /\ i - 1 \in Nat /\ i - 1 <= Len(frames)
  BY DEF TryTypeOK
<1>2. /\ frames' \in Seq(FrameType) /\ DOMAIN frames' = 1..(i - 1)
      /\ 1..(i - 1) \subseteq DOMAIN frames /\ \A j \in 1..(i - 1) : frames'[j] = frames[j]
  BY <1>1, CutRight DEF TryTypeOK
<1>3. frames[i].at \in DOMAIN tries
  BY EntriesNow, EntriesThen DEF EntryIn
<1>4. tries # <<>>
  BY <1>3, NoneLeft
<1>5. /\ tries' \in Seq(EntryType) /\ DOMAIN tries' = 1..(Len(tries) - 1)
      /\ Len(tries) \in Nat \ {0} /\ DOMAIN tries = 1..Len(tries)
      /\ \A k \in 1..(Len(tries) - 1) : tries'[k] = tries[k]
  BY <1>4, WithoutTopRight DEF TryTypeOK
<1>6. TryTypeOK'
  BY <1>2, <1>5 DEF TryTypeOK
<1>7. InOrderOfAge'
  BY <1>5 DEF InOrderOfAge
<1>8. ASSUME NEW j \in DOMAIN frames' PROVE EntryIn(frames'[j], tries', funcArgs') /\ frames'[j] = frames[j]
  <2>1. frames'[j] = frames[j] /\ j \in DOMAIN frames /\ j \in 1..(i - 1)
    BY <1>2
  <2>2. EntryIn(frames[j], tries, funcArgs)
    BY EntriesNow, EntriesThen, <2>1
  <2>3. CASE frames[j].kind = "try"
    <3>1. frames[j].at < frames[i].at
      BY EntriesNow, EntriesThen, <2>1, <2>3
    <3>2. frames[j].at \in DOMAIN tries
      BY <2>2, <2>3 DEF EntryIn
    <3>3. frames[j].at \in 1..(Len(tries) - 1)
      BY <1>3, <1>5, <3>1, <3>2
    <3> QED
      BY <1>5, <2>1, <2>2, <2>3, <3>3 DEF EntryIn
  <2>4. CASE frames[j].kind # "try"
    BY <2>1, <2>2, <2>4 DEF EntryIn
  <2> QED
    BY <2>1, <2>3, <2>4
<1>9. ASSUME NEW j \in DOMAIN frames', NEW k \in 1..(j - 1), frames'[k].kind = frames'[j].kind
      PROVE  frames'[k].at < frames'[j].at
  <2>1. j \in 1..(i - 1) /\ k \in 1..(i - 1) /\ frames'[k] = frames[k] /\ frames'[j] = frames[j]
    BY <1>1, <1>2
  <2> QED
    BY EntriesNow, <1>1, <1>2, <1>9, <2>1
<1>10. RunningHaveEntries'
  BY EntriesThen, <1>8, <1>9
<1> QED
  BY <1>6, <1>7, <1>10

(* The call at i returns, with the tries in between, and takes the top of   *)
(* the arguments.                                                           *)
LEMMA CallLeftInv ==
    ASSUME TryInv, NEW i \in DOMAIN frames, frames[i].kind = "call",
           frames' = Cut(frames, i - 1), funcArgs' = WithoutTop(funcArgs),
           UNCHANGED <<tries, serial>>
    PROVE  TryInv'
<1> USE DEF TryInv
<1>1. i \in Nat /\ i - 1 \in Nat /\ i - 1 <= Len(frames)
  BY DEF TryTypeOK
<1>2. /\ frames' \in Seq(FrameType) /\ DOMAIN frames' = 1..(i - 1)
      /\ 1..(i - 1) \subseteq DOMAIN frames /\ \A j \in 1..(i - 1) : frames'[j] = frames[j]
  BY <1>1, CutRight DEF TryTypeOK
<1>3. frames[i].at \in DOMAIN funcArgs
  BY EntriesNow, EntriesThen DEF EntryIn
<1>4. funcArgs # <<>>
  BY <1>3, NoneLeft
<1>5. /\ funcArgs' \in Seq(Nat) /\ DOMAIN funcArgs' = 1..(Len(funcArgs) - 1)
      /\ Len(funcArgs) \in Nat \ {0} /\ DOMAIN funcArgs = 1..Len(funcArgs)
      /\ \A k \in 1..(Len(funcArgs) - 1) : funcArgs'[k] = funcArgs[k]
  BY <1>4, WithoutTopRight DEF TryTypeOK
<1>6. TryTypeOK' /\ InOrderOfAge'
  BY <1>2, <1>5 DEF TryTypeOK, InOrderOfAge
<1>7. ASSUME NEW j \in DOMAIN frames' PROVE EntryIn(frames'[j], tries', funcArgs') /\ frames'[j] = frames[j]
  <2>1. frames'[j] = frames[j] /\ j \in DOMAIN frames /\ j \in 1..(i - 1)
    BY <1>2
  <2>2. EntryIn(frames[j], tries, funcArgs)
    BY EntriesNow, EntriesThen, <2>1
  <2>3. CASE frames[j].kind = "try"
    BY <2>1, <2>2, <2>3 DEF EntryIn
  <2>4. CASE frames[j].kind # "try"
    <3>a. frames[j] \in FrameType
      BY <2>1 DEF TryTypeOK
    <3>0. frames[j].kind = "call"
      BY <2>4, <3>a DEF FrameType
    <3>1. frames[j].at < frames[i].at
      BY EntriesNow, EntriesThen, <2>1, <3>0
    <3>2. frames[j].at \in DOMAIN funcArgs
      BY <2>2, <2>4 DEF EntryIn
    <3>3. frames[j].at \in 1..(Len(funcArgs) - 1)
      BY <1>3, <1>5, <3>1, <3>2
    <3> QED
      BY <1>5, <2>1, <2>2, <2>4, <3>3 DEF EntryIn
  <2> QED
    BY <2>1, <2>3, <2>4
<1>8. ASSUME NEW j \in DOMAIN frames', NEW k \in 1..(j - 1), frames'[k].kind = frames'[j].kind
      PROVE  frames'[k].at < frames'[j].at
  <2>1. j \in 1..(i - 1) /\ k \in 1..(i - 1) /\ frames'[k] = frames[k] /\ frames'[j] = frames[j]
    BY <1>1, <1>2
  <2> QED
    BY EntriesNow, <1>1, <1>2, <1>8, <2>1
<1>9. RunningHaveEntries'
  BY EntriesThen, <1>7, <1>8
<1> QED
  BY <1>6, <1>9

-----------------------------------------------------------------------------
LEMMA TryBeginsInv == ASSUME TryInv, NEW classes \in SUBSET Exceptions, PushTryStack(classes)
                      PROVE TryInv'
<1> USE DEF TryInv
<1> DEFINE frame == [kind |-> "try", id |-> serial, at |-> Len(tries) + 1]
           entry == [id |-> serial, classes |-> classes]
<1>1. /\ frames' = Append(frames, frame) /\ tries' = Append(tries, entry)
      /\ serial' = serial + 1 /\ funcArgs' = funcArgs
  BY DEF PushTryStack
<1>2. frame \in FrameType /\ entry \in EntryType
  BY DEF TryTypeOK, FrameType, EntryType
<1>3. /\ frames' \in Seq(FrameType) /\ DOMAIN frames' = 1..(Len(frames) + 1)
      /\ \A i \in DOMAIN frames : frames'[i] = frames[i]
      /\ frames'[Len(frames) + 1] = frame
      /\ DOMAIN frames = 1..Len(frames) /\ Len(frames) \in Nat
  BY <1>1, <1>2 DEF TryTypeOK
<1>4. /\ tries' \in Seq(EntryType) /\ DOMAIN tries' = 1..(Len(tries) + 1)
      /\ \A k \in DOMAIN tries : tries'[k] = tries[k]
      /\ tries'[Len(tries) + 1] = entry
      /\ DOMAIN tries = 1..Len(tries) /\ Len(tries) \in Nat
  BY <1>1, <1>2 DEF TryTypeOK
<1>5. TryTypeOK'
  BY <1>1, <1>3, <1>4 DEF TryTypeOK
<1>6. InOrderOfAge'
  <2>1. entry.id = serial /\ serial \in Nat
    BY DEF TryTypeOK
  <2>a. \A k \in DOMAIN tries : tries[k] \in EntryType
    BY DEF TryTypeOK
  <2>2. \A k \in DOMAIN tries : tries[k].id \in Nat
    BY <2>a DEF EntryType
  <2> QED
    BY <1>1, <1>4, <2>1, <2>2 DEF InOrderOfAge
<1>7. ASSUME NEW i \in DOMAIN frames
      PROVE  EntryIn(frames'[i], tries', funcArgs') /\ (frames[i].kind = "try" => frames[i].at < frame.at)
  <2>1. frames'[i] = frames[i] /\ EntryIn(frames[i], tries, funcArgs)
    BY EntriesNow, EntriesThen, <1>3
  <2> QED
    BY <1>1, <1>4, <2>1 DEF EntryIn
<1>8. EntryIn(frame, tries', funcArgs')
  BY <1>1, <1>4 DEF EntryIn
<1>9. ASSUME NEW i \in DOMAIN frames'
      PROVE  /\ EntryIn(frames'[i], tries', funcArgs')
             /\ \A j \in 1..(i - 1) :
                   frames'[j].kind = frames'[i].kind => frames'[j].at < frames'[i].at
  <2>1. CASE i \in DOMAIN frames
    <3>1. \A j \in 1..(i - 1) : j \in DOMAIN frames
      BY <1>3, <2>1
    <3> QED
      BY EntriesNow, EntriesThen, <1>3, <1>7, <2>1, <3>1
  <2>2. CASE i = Len(frames) + 1
    <3>1. \A j \in 1..(i - 1) : j \in DOMAIN frames
      BY <1>3, <2>2
    <3> QED
      BY <1>3, <1>7, <1>8, <2>2, <3>1
  <2> QED
    BY <1>3, <2>1, <2>2
<1> QED
  BY EntriesNow, EntriesThen, <1>5, <1>6, <1>9

LEMMA CallBeginsInv == ASSUME TryInv, CallFunction PROVE TryInv'
<1> USE DEF TryInv
<1> DEFINE frame == [kind |-> "call", id |-> serial, at |-> Len(funcArgs) + 1]
<1>1. /\ frames' = Append(frames, frame) /\ funcArgs' = Append(funcArgs, serial)
      /\ serial' = serial + 1 /\ tries' = tries
  BY DEF CallFunction
<1>2. frame \in FrameType /\ serial \in Nat
  BY DEF TryTypeOK, FrameType
<1>3. /\ frames' \in Seq(FrameType) /\ DOMAIN frames' = 1..(Len(frames) + 1)
      /\ \A i \in DOMAIN frames : frames'[i] = frames[i]
      /\ frames'[Len(frames) + 1] = frame
      /\ DOMAIN frames = 1..Len(frames) /\ Len(frames) \in Nat
  BY <1>1, <1>2 DEF TryTypeOK
<1>4. /\ funcArgs' \in Seq(Nat) /\ DOMAIN funcArgs' = 1..(Len(funcArgs) + 1)
      /\ \A k \in DOMAIN funcArgs : funcArgs'[k] = funcArgs[k]
      /\ funcArgs'[Len(funcArgs) + 1] = serial
      /\ DOMAIN funcArgs = 1..Len(funcArgs) /\ Len(funcArgs) \in Nat
  BY <1>1, <1>2 DEF TryTypeOK
<1>5. TryTypeOK'
  BY <1>1, <1>2, <1>3, <1>4 DEF TryTypeOK
<1>6. InOrderOfAge'
  <2>a. \A k \in DOMAIN tries : tries[k] \in EntryType
    BY DEF TryTypeOK
  <2>1. \A k \in DOMAIN tries : tries[k].id \in Nat
    BY <2>a DEF EntryType
  <2> QED
    BY <1>1, <1>2, <2>1 DEF InOrderOfAge
<1>7. ASSUME NEW i \in DOMAIN frames
      PROVE  EntryIn(frames'[i], tries', funcArgs') /\ (frames[i].kind = "call" => frames[i].at < frame.at)
  <2>1. frames'[i] = frames[i] /\ EntryIn(frames[i], tries, funcArgs)
    BY EntriesNow, EntriesThen, <1>3
  <2> QED
    BY <1>1, <1>4, <2>1 DEF EntryIn
<1>8. EntryIn(frame, tries', funcArgs')
  BY <1>1, <1>4 DEF EntryIn
<1>9. ASSUME NEW i \in DOMAIN frames'
      PROVE  /\ EntryIn(frames'[i], tries', funcArgs')
             /\ \A j \in 1..(i - 1) :
                   frames'[j].kind = frames'[i].kind => frames'[j].at < frames'[i].at
  <2>1. CASE i \in DOMAIN frames
    <3>1. \A j \in 1..(i - 1) : j \in DOMAIN frames
      BY <1>3, <2>1
    <3> QED
      BY EntriesNow, EntriesThen, <1>3, <1>7, <2>1, <3>1
  <2>2. CASE i = Len(frames) + 1
    <3>1. \A j \in 1..(i - 1) : j \in DOMAIN frames
      BY <1>3, <2>2
    <3> QED
      BY <1>3, <1>7, <1>8, <2>2, <3>1
  <2> QED
    BY <1>3, <2>1, <2>2
<1> QED
  BY EntriesNow, EntriesThen, <1>5, <1>6, <1>9

-----------------------------------------------------------------------------
LEMMA TryInitInv == TryInit => TryInv
BY DEF TryInit, TryInv, TryTypeOK, InOrderOfAge, RunningHaveEntries

LEMMA TryStepInv == ASSUME TryInv, [TryNext]_trying PROVE TryInv'
<1> USE DEF TryInv
<1>a. /\ Len(frames) \in Nat /\ DOMAIN frames = 1..Len(frames)
      /\ Cut(frames, Len(frames)) = frames /\ Cut(frames, 0) = <<>>
  BY DEF TryTypeOK, Cut
<1>1. CASE UNCHANGED trying
  BY <1>1 DEF trying, TryTypeOK, InOrderOfAge, RunningHaveEntries, EntryOf
<1>2. ASSUME NEW classes \in SUBSET Exceptions \ {{}}, PushTryStack(classes) PROVE TryInv'
  BY <1>2, TryBeginsInv
<1>3. CASE EndTry
  <2>1. Len(frames) \in DOMAIN frames /\ frames[Len(frames)].kind = "try"
    BY <1>3, <1>a DEF EndTry, Innermost, TryTypeOK
  <2>2. frames' = Cut(frames, Len(frames) - 1) /\ tries' = WithoutTop(tries)
        /\ UNCHANGED <<funcArgs, serial>>
    BY <1>3 DEF EndTry, WithoutTop
  <2> QED
    BY <2>1, <2>2, TryLeftInv
<1>4. CASE CallFunction
  BY <1>4, CallBeginsInv
<1>5. CASE Uncaught \/ AbandonPage \/ \E k \in 1..MaxEntries : CaughtTooLate(k)
  <2>1. /\ frames' = Cut(frames, 0) \/ frames' = Cut(frames, Len(frames))
        /\ UNCHANGED <<tries, funcArgs, serial>>
    BY <1>5, <1>a DEF Uncaught, AbandonPage, CaughtTooLate
  <2> QED
    BY <1>a, <2>1, UnwoundInv
<1>6. ASSUME NEW n \in 0..MaxDepth, BreakOut(n) PROVE TryInv'
  <2>1. n \in Nat /\ n <= Len(frames) /\ frames' = Cut(frames, n)
        /\ UNCHANGED <<tries, funcArgs, serial>>
    BY <1>6, <1>a DEF BreakOut
  <2> QED
    BY <2>1, UnwoundInv
<1>7. ASSUME NEW n \in 0..MaxDepth, Return(n) PROVE TryInv'
  BY <1>7, CallLeftInv DEF Return, InnermostCall
<1>8. ASSUME NEW e \in Exceptions, Throw(e) PROVE TryInv'
  BY <1>8, <1>a, UnwoundInv DEF Throw
<1>9. ASSUME NEW k \in 1..MaxEntries, NEW i \in 1..MaxDepth, Caught(i, k) PROVE TryInv'
  BY <1>9, TryLeftInv DEF Caught, IsTry
<1> QED
  BY <1>1, <1>2, <1>3, <1>4, <1>5, <1>6, <1>7, <1>8, <1>9 DEF TryNext

(* In every state the entries are in the order of their tries' beginnings,  *)
(* and every running try and call has its own.                              *)
THEOREM TryInvariant == TrySpec => []TryInv
<1>1. TryInit => TryInv
  BY TryInitInv
<1>2. TryInv /\ [TryNext]_trying => TryInv'
  BY TryStepInv
<1> QED
  BY <1>1, <1>2, PTL DEF TrySpec

(* However calls, tries, returns, breaks and exceptions are nested, what    *)
(* they leave behind on the two stacks never takes the entry of a try or of *)
(* a call that is still running.                                            *)
THEOREM EntriesKept == TrySpec => []RunningHaveEntries
<1>1. TryInv => RunningHaveEntries
  BY DEF TryInv
<1> QED
  BY <1>1, TryInvariant, PTL

-----------------------------------------------------------------------------
(* The entry of a running try is found at one place only.                   *)
LEMMA OnePlace ==
    ASSUME TryInv, NEW i \in DOMAIN frames, NEW k \in DOMAIN tries, IsTry(i, tries[k].id)
    PROVE  k = frames[i].at
<1>1. frames[i].at \in DOMAIN tries /\ tries[frames[i].at].id = tries[k].id
  BY DEF TryInv, RunningHaveEntries, EntryOf, IsTry
<1>2. \A j \in DOMAIN tries : tries[j] \in EntryType
  BY DEF TryInv, TryTypeOK
<1>3. \A j \in DOMAIN tries : tries[j].id \in Nat
  BY <1>2 DEF EntryType
<1>4. DOMAIN tries \subseteq Int
  BY DEF TryInv, TryTypeOK
<1> QED
  BY <1>1, <1>3, <1>4 DEF TryInv, InOrderOfAge

(* An exception goes to the innermost of the running tries that catch it,   *)
(* or past it, when an entry that a try has left behind takes it.           *)
THEOREM GoesToInnermost == TrySpec => InnermostCatches
<1>1. ASSUME TryInv, [TryNext]_trying, ~Running, frames' # frames,
             NEW i \in DOMAIN frames, Willing(i)
      PROVE  /\ Len(frames') >= i - 1 \/ \E k \in DOMAIN tries : Stale(k)
             /\ Len(frames') <= i - 1 \/ \E j \in (i + 1)..Len(frames) : Willing(j)
  <2> DEFINE a == frames[i].at
  <2>1. a \in DOMAIN tries /\ Catches(a) /\ frames[i].kind = "try"
    BY <1>1 DEF TryInv, RunningHaveEntries, EntryOf, Willing
  <2>2. DOMAIN frames = 1..Len(frames) /\ DOMAIN tries = 1..Len(tries)
        /\ Len(frames) \in Nat /\ Len(tries) \in Nat
    BY <1>1 DEF TryInv, TryTypeOK
  <2>3. \/ \E k \in 1..MaxEntries : CaughtTooLate(k) \/ \E n \in 1..MaxDepth : Caught(n, k)
        \/ Uncaught
    BY <1>1 DEF TryNext, trying, PushTryStack, EndTry, CallFunction, AbandonPage,
                BreakOut, Return, Throw
  <2>4. ~Uncaught
    BY <2>1 DEF Uncaught
  <2>5. ASSUME NEW k \in 1..MaxEntries, CaughtTooLate(k)
        PROVE  Len(frames') <= i - 1 /\ \E j \in DOMAIN tries : Stale(j)
    <3>1. k \in DOMAIN tries /\ Stale(k) /\ frames' = <<>>
      BY <2>5 DEF CaughtTooLate, FirstCatch, Stale
    <3>2. Len(frames') = 0
      BY <3>1
    <3> QED
      BY <2>2, <3>1, <3>2
  <2>6. ASSUME NEW k \in 1..MaxEntries, NEW n \in 1..MaxDepth, Caught(n, k)
        PROVE  /\ Len(frames') >= i - 1
               /\ Len(frames') <= i - 1 \/ \E j \in (i + 1)..Len(frames) : Willing(j)
    <3>1. /\ n \in DOMAIN frames /\ k \in DOMAIN tries /\ IsTry(n, tries[k].id)
          /\ Catches(k) /\ \A j \in (k + 1)..Len(tries) : ~Catches(j)
          /\ frames' = Cut(frames, n - 1)
      BY <2>6 DEF Caught, FirstCatch
    <3>2. k = frames[n].at /\ frames[n].kind = "try"
      BY <1>1, <3>1, OnePlace DEF IsTry
    <3>3. Willing(n)
      BY <3>1, <3>2 DEF Willing
    <3>4. Len(frames') = n - 1
      <4>1. n - 1 \in Nat /\ n - 1 <= Len(frames)
        BY <2>2, <3>1
      <4>2. frames \in Seq(FrameType)
        BY <1>1 DEF TryInv, TryTypeOK
      <4>3. Len(Cut(frames, n - 1)) = n - 1
        BY ONLY <4>1, <4>2, CutRight
      <4> QED
        BY <3>1, <4>3
    <3>5. a <= k
      BY <2>1, <2>2, <3>1
    <3>6. ~(n < i)
      BY <1>1, <2>1, <2>2, <3>1, <3>2, <3>5 DEF TryInv, RunningHaveEntries
    <3> QED
      BY <2>2, <3>1, <3>3, <3>4, <3>6
  <2> QED
    BY <2>3, <2>4, <2>5, <2>6
<1>2. TryInv /\ [TryNext]_trying =>
        [(~Running /\ frames' # frames) =>
           \A i \in DOMAIN frames :
              Willing(i) => /\ Len(frames') >= i - 1 \/ \E k \in DOMAIN tries : Stale(k)
                            /\ Len(frames') <= i - 1 \/ \E j \in (i + 1)..Len(frames) : Willing(j)
        ]_trying
  BY <1>1
<1> QED
  BY <1>2, TryInvariant, PTL DEF TrySpec, InnermostCatches

-----------------------------------------------------------------------------
(* Output buffering.                                                        *)

(* The levels of output, each increasing and above the ones below it.       *)
Increasing(s) == \A i, j \in DOMAIN s : i < j => s[i] < s[j]
Below(s, t) == \A x \in Values(s), y \in Values(t) : x < y
SortedOn(L, n) ==
    /\ \A a \in 0..n : L[a] \in Seq(Nat) /\ Increasing(L[a])
    /\ \A a, b \in 0..n : a < b => Below(L[a], L[b])
Held(L, n) == UNION {Values(L[a]) : a \in 0..n}

(* A text that comes right above level l.                                   *)
Fits(L, n, l, t) ==
    /\ t \in Seq(Nat) /\ Increasing(t)
    /\ \A a \in 0..n : (a <= l => Below(L[a], t)) /\ (l < a => Below(t, L[a]))

LEMMA ValuesFacts ==
  ASSUME NEW T, NEW s \in Seq(T)
  PROVE  /\ DOMAIN s = 1..Len(s) /\ Len(s) \in Nat /\ Values(s) \subseteq T
         /\ \A i \in 1..Len(s) : s[i] \in Values(s) /\ s[i] \in T
         /\ \A x \in Values(s) : \E i \in 1..Len(s) : s[i] = x
  BY DEF Values

LEMMA JoinFacts ==
  ASSUME NEW s \in Seq(Nat), NEW t \in Seq(Nat), NEW u, u = s \o t
  PROVE  /\ u \in Seq(Nat) /\ Values(u) = Values(s) \cup Values(t)
         /\ Increasing(s) /\ Increasing(t) /\ Below(s, t) => Increasing(u)
<1> DEFINE m == Len(s)
           n == Len(t)
<1>1. /\ m \in Nat /\ n \in Nat /\ DOMAIN s = 1..m /\ DOMAIN t = 1..n
      /\ u \in Seq(Nat) /\ DOMAIN u = 1..(m + n)
      /\ \A i \in 1..m : u[i] = s[i]
      /\ \A i \in 1..n : u[m + i] = t[i]
  OBVIOUS
<1> HIDE DEF m, n
<1>2. \A i \in 1..m : i \in 1..(m + n)
  BY <1>1
<1>3. \A i \in 1..n : m + i \in 1..(m + n)
  BY <1>1
<1>4. \A i \in 1..(m + n) : i \in 1..m \/ (i - m \in 1..n /\ m + (i - m) = i)
  BY <1>1
<1>5. Values(s) \cup Values(t) \subseteq Values(u)
  BY <1>1, <1>2, <1>3 DEF Values
<1>6. ASSUME NEW i \in 1..(m + n) PROVE u[i] \in Values(s) \cup Values(t)
  <2>1. CASE i \in 1..m
    BY <1>1, <2>1 DEF Values
  <2>2. CASE i - m \in 1..n /\ m + (i - m) = i
    <3>1. u[m + (i - m)] = t[i - m]
      BY <1>1, <2>2
    <3> QED
      BY <1>1, <2>2, <3>1 DEF Values
  <2> QED
    BY <1>4, <2>1, <2>2
<1>7. Values(u) \subseteq Values(s) \cup Values(t)
  BY <1>1, <1>6 DEF Values
<1>8. ASSUME Increasing(s), Increasing(t), Below(s, t), NEW i \in 1..(m + n), NEW j \in 1..(m + n), i < j
      PROVE  u[i] < u[j]
  <2>1. CASE i \in 1..m /\ j \in 1..m
    BY <1>1, <1>8, <2>1 DEF Increasing
  <2>2. CASE i \in 1..m /\ j \notin 1..m
    <3>1. j - m \in 1..n /\ m + (j - m) = j
      BY <1>4, <2>2
    <3>2. u[i] = s[i] /\ u[j] = t[j - m]
      BY <1>1, <2>2, <3>1
    <3>3. s[i] \in Values(s) /\ t[j - m] \in Values(t)
      BY <1>1, <2>2, <3>1 DEF Values
    <3> QED
      BY <1>8, <3>2, <3>3 DEF Below
  <2>3. CASE i \notin 1..m
    <3>1. i - m \in 1..n /\ m + (i - m) = i /\ j - m \in 1..n /\ m + (j - m) = j /\ i - m < j - m
      BY <1>1, <1>4, <1>8, <2>3
    <3>2. u[i] = t[i - m] /\ u[j] = t[j - m]
      BY <1>1, <3>1
    <3> QED
      BY <1>1, <1>8, <3>1, <3>2 DEF Increasing
  <2> QED
    BY <2>1, <2>2, <2>3
<1>9. Increasing(s) /\ Increasing(t) /\ Below(s, t) => Increasing(u)
  BY <1>1, <1>8 DEF Increasing
<1> QED
  BY <1>1, <1>5, <1>7, <1>9

(* What is put above a level's text where it fits.                          *)
PutOn(L, n, l, t, M) == \A a \in 0..n : M[a] = IF a = l THEN L[l] \o t ELSE L[a]
SortedWith(L, n, t, M) == SortedOn(M, n) /\ Held(M, n) = Held(L, n) \cup Values(t)

LEMMA PutFacts ==
  ASSUME NEW L, NEW n \in Nat, NEW l \in 0..n, NEW t, NEW M,
         SortedOn(L, n), Fits(L, n, l, t), PutOn(L, n, l, t, M)
  PROVE  SortedWith(L, n, t, M)
<1>1. L[l] \in Seq(Nat) /\ Increasing(L[l]) /\ t \in Seq(Nat) /\ Increasing(t) /\ Below(L[l], t)
  BY DEF SortedOn, Fits
<1>2. M[l] = L[l] \o t /\ \A a \in 0..n : a # l => M[a] = L[a]
  BY DEF PutOn
<1>3. M[l] \in Seq(Nat) /\ Values(M[l]) = Values(L[l]) \cup Values(t) /\ Increasing(M[l])
  BY <1>1, <1>2, JoinFacts
<1>4. \A a \in 0..n : M[a] \in Seq(Nat) /\ Increasing(M[a])
  BY <1>2, <1>3 DEF SortedOn
<1>5. ASSUME NEW a \in 0..n, NEW b \in 0..n, a < b PROVE Below(M[a], M[b])
  <2>1. Below(L[a], L[b])
    BY <1>5 DEF SortedOn
  <2>2. CASE a = l
    <3>0. l < b /\ b # l
      BY <1>5, <2>2
    <3>1. Below(t, L[b]) /\ M[b] = L[b]
      BY <1>2, <3>0 DEF Fits
    <3> QED
      BY <1>3, <2>1, <2>2, <3>1 DEF Below
  <2>3. CASE b = l
    <3>1. Below(L[a], t) /\ M[a] = L[a]
      BY <1>2, <1>5, <2>3 DEF Fits
    <3> QED
      BY <1>3, <2>1, <2>3, <3>1 DEF Below
  <2>4. CASE a # l /\ b # l
    BY <1>2, <2>1, <2>4
  <2> QED
    BY <2>2, <2>3, <2>4
<1>6. Held(M, n) = Held(L, n) \cup Values(t)
  <2>1. Held(M, n) \subseteq Held(L, n) \cup Values(t)
    BY <1>2, <1>3 DEF Held
  <2>2. Held(L, n) \subseteq Held(M, n)
    <3> SUFFICES ASSUME NEW a \in 0..n, NEW x \in Values(L[a]) PROVE x \in Values(M[a])
      BY DEF Held
    <3> QED
      BY <1>2, <1>3
  <2>3. Values(t) \subseteq Held(M, n)
    BY <1>3 DEF Held
  <2> QED
    BY <2>1, <2>2, <2>3
<1> QED
  BY <1>4, <1>5, <1>6 DEF SortedOn, SortedWith

(* A level that is emptied: what was there fits right above the next lower. *)
EmptyOn(L, n, l, M) == \A a \in 0..n : M[a] = IF a = l THEN <<>> ELSE L[a]
SortedBut(L, n, l, M) ==
    SortedOn(M, n) /\ Held(M, n) \cup Values(L[l]) = Held(L, n) /\ L[l] \in Seq(Nat)

LEMMA NoValues ==
  /\ Values(<<>>) = {} /\ <<>> \in Seq(Nat) /\ Increasing(<<>>)
  /\ \A s : Below(<<>>, s) /\ Below(s, <<>>)
<1>1. Values(<<>>) = {} /\ <<>> \in Seq(Nat) /\ DOMAIN <<>> = {}
  BY DEF Values
<1> QED
  BY <1>1 DEF Below, Increasing

LEMMA EmptyFacts ==
  ASSUME NEW L, NEW n \in Nat, NEW l \in 0..n, NEW M, SortedOn(L, n), EmptyOn(L, n, l, M)
  PROVE  /\ SortedBut(L, n, l, M)
         /\ l > 0 => Fits(M, n, l - 1, L[l])
<1>1. M[l] = <<>> /\ \A a \in 0..n : a # l => M[a] = L[a]
  BY DEF EmptyOn
<1>2. SortedOn(M, n)
  BY <1>1, NoValues DEF SortedOn
<1>3. Held(M, n) \cup Values(L[l]) = Held(L, n)
  <2>1. Held(M, n) \cup Values(L[l]) \subseteq Held(L, n)
    BY <1>1, NoValues DEF Held
  <2>2. ASSUME NEW a \in 0..n, NEW x \in Values(L[a]) PROVE x \in Held(M, n) \cup Values(L[l])
    BY <1>1, <2>2 DEF Held
  <2> QED
    BY <2>1, <2>2 DEF Held
<1>4. ASSUME l > 0 PROVE Fits(M, n, l - 1, L[l])
  <2>1. L[l] \in Seq(Nat) /\ Increasing(L[l])
    BY DEF SortedOn
  <2>2. ASSUME NEW a \in 0..n PROVE (a <= l - 1 => Below(M[a], L[l])) /\ (l - 1 < a => Below(L[l], M[a]))
    <3>1. CASE a <= l - 1
      BY <1>1, <3>1 DEF SortedOn
    <3>2. CASE a = l
      BY <1>1, <3>2, NoValues
    <3>3. CASE a > l
      BY <1>1, <3>3 DEF SortedOn
    <3> QED
      BY <3>1, <3>2, <3>3
  <2> QED
    BY <2>1, <2>2 DEF Fits
<1> QED
  BY <1>2, <1>3, <1>4 DEF SortedOn, SortedBut

LEMMA LastFits ==
  ASSUME NEW L, NEW n \in Nat, NEW x \in Nat, SortedOn(L, n), \A y \in Held(L, n) : y < x
  PROVE  Fits(L, n, n, <<x>>) /\ Values(<<x>>) = {x}
<1>1. <<x>> \in Seq(Nat) /\ Values(<<x>>) = {x} /\ Increasing(<<x>>)
  BY DEF Values, Increasing
<1>2. \A a \in 0..n : Below(L[a], <<x>>)
  BY <1>1 DEF Below, Held
<1>3. \A a \in 0..n : ~(n < a)
  OBVIOUS
<1> QED
  BY <1>1, <1>2, <1>3 DEF Fits

LEMMA StillFits ==
  ASSUME NEW L, NEW n \in Nat, NEW l \in 0..(n - 1), NEW t, NEW x \in Nat, NEW M,
         Fits(L, n, l, t), \A y \in Values(t) : y < x, PutOn(L, n, n, <<x>>, M),
         L[n] \in Seq(Nat)
  PROVE  Fits(M, n, l, t)
<1>1. M[n] = L[n] \o <<x>> /\ \A a \in 0..n : a # n => M[a] = L[a]
  <2>1. n \in 0..n
    OBVIOUS
  <2> QED
    BY <2>1 DEF PutOn
<1>2. Values(M[n]) = Values(L[n]) \cup {x}
  <2> DEFINE q == <<x>>
  <2>1. q \in Seq(Nat) /\ Values(q) = {x}
    BY DEF Values
  <2>2. M[n] = L[n] \o q
    BY <1>1
  <2> HIDE DEF q
  <2>3. Values(M[n]) = Values(L[n]) \cup Values(q)
    BY <2>1, <2>2, JoinFacts
  <2> QED
    BY <2>1, <2>3
<1>3. Below(t, M[n])
  <2>1. Below(t, L[n])
    BY DEF Fits
  <2> QED
    BY <1>2, <2>1 DEF Below
<1>4. ASSUME NEW a \in 0..n PROVE (a <= l => Below(M[a], t)) /\ (l < a => Below(t, M[a]))
  <2>1. CASE a = n
    <3>1. ~(a <= l)
      BY <2>1
    <3> QED
      BY <1>3, <2>1, <3>1
  <2>2. CASE a # n
    BY <1>1, <2>2 DEF Fits
  <2> QED
    BY <2>1, <2>2
<1> QED
  BY <1>4 DEF Fits

-----------------------------------------------------------------------------
(* The page and the buffers on it, as levels.                               *)
Depth == Len(ports)
Levels == [a \in 0..Depth |-> Level(a)]
PortOf(a) == IF a = 0 THEN Page ELSE ports[Depth + 1 - a]
Distinct == \A i, j \in DOMAIN ports : ports[i] = ports[j] => i = j

(* What an output function still has to do: what it puts somewhere fits     *)
(* there, what it moves goes one level down, and before it takes the top    *)
(* buffer away, that one will be flushed, or holds nothing that counts.     *)
Item ==
    {Flush, PopTop, Again, Call}
    \cup {Move(from, to, cb) : from \in Ports, to \in Ports \cup {Page}, cb \in Kinds}
    \cup {Put(to, t) : to \in Ports \cup {Page}, t \in Seq(Nat)}

PutFits(item) ==
    \E a \in 0..(Depth - 1) : item.to = PortOf(a) /\ Fits(Levels, Depth, a, item.text)
MovesDown(item) ==
    \E a \in 1..Depth : item.from = PortOf(a) /\ item.to = PortOf(a - 1)
TopDone == ports = <<>> \/ Values(text[Head(ports)]) \subseteq cleaned
FlushesTop(item) ==
    item.do = "flush" \/ (item.do = "move" /\ item.from = PortOf(Depth))

TopGoes == TopDone \/ \E h \in DOMAIN work : FlushesTop(work[h])
PlannedAt(w, j) ==
    /\ w[j].do = "call" => j = 1 /\ 2 \in DOMAIN w /\ w[2].do = "put"
    /\ w[j].do = "put" => (j = 1 \/ (j = 2 /\ w[1].do = "call")) /\ PutFits(w[j])
    /\ w[j].do = "move" => MovesDown(w[j])
    /\ w[j].do = "flush" => j = 1 /\ \A h \in DOMAIN w : h > 1 => w[h].do \in {"pop", "again"}
    /\ w[j].do \in {"pop", "again"} =>
          j = Len(w) /\ TopGoes
Planned == \A j \in DOMAIN work : PlannedAt(work, j)

BufferTypes ==
    /\ ports \in Seq(Ports) /\ Distinct
    /\ callbacks \in Seq(Kinds) /\ Len(callbacks) = Len(ports)
    /\ text \in [Ports -> Seq(Nat)] /\ page \in Seq(Nat)
    /\ work \in Seq(Item) /\ said \in Nat

Counted == Held(Levels, Depth) \cup Underway \cup cleaned = 1..said

BufferGood == BufferTypes /\ SortedOn(Levels, Depth) /\ Counted /\ Planned
BufferInv == ~meddled => BufferGood

LEMMA BoundFacts ==
  /\ MaxBuffers \in Nat \ {0} /\ MaxSaid \in Nat \ {0} /\ MaxWork \in Nat \ {0}
  /\ Ports \subseteq Nat \ {0} /\ Page = 0 /\ Page \notin Ports
  /\ Cardinality(Ports) = MaxBuffers + MaxWork /\ IsFiniteSet(Ports)
<1>1. MaxBuffers \in Nat \ {0} /\ MaxSaid \in Nat \ {0} /\ MaxWork \in Nat \ {0}
  BY BufferAssumption
<1>2. MaxBuffers + MaxWork \in Nat /\ 1 <= MaxBuffers + MaxWork
  BY <1>1
<1> DEFINE k == MaxBuffers + MaxWork
<1>3. IsFiniteSet(1..k) /\ Cardinality(1..k) = k
  <2> HIDE DEF k
  <2>1. k \in Nat /\ 1 <= k
    BY <1>2 DEF k
  <2>2. IsFiniteSet(1..k) /\ Cardinality(1..k) = IF 1 > k THEN 0 ELSE k - 1 + 1
    BY <2>1, FS_Interval
  <2> QED
    BY <2>1, <2>2
<1> QED
  BY <1>1, <1>3 DEF Ports, Page

LEMMA LevelFacts ==
  ASSUME BufferTypes
  PROVE  /\ Depth \in Nat /\ Levels[0] = page /\ PortOf(0) = Page
         /\ \A a \in 1..Depth : PortOf(a) \in Ports /\ Levels[a] = text[PortOf(a)]
         /\ \A a, b \in 0..Depth : PortOf(a) = PortOf(b) => a = b
         /\ \A a \in 0..Depth : PortOf(a) \in Ports \cup {Page}
         /\ \A i \in 1..Depth : ports[i] = PortOf(Depth + 1 - i) /\ ports[i] \in Ports
                                /\ NextPort(i) = PortOf(Depth - i)
         /\ ports # <<>> => Depth \in 1..Depth /\ Head(ports) = PortOf(Depth) /\ Head(ports) = ports[1]
<1>1. /\ Depth \in Nat /\ DOMAIN ports = 1..Depth /\ \A i \in 1..Depth : ports[i] \in Ports
      /\ ports # <<>> => Head(ports) = ports[1] /\ Depth \in 1..Depth
  BY DEF BufferTypes, Depth
<1>2. Levels[0] = page /\ PortOf(0) = Page
  BY <1>1 DEF Levels, Level, PortOf
<1>3. ASSUME NEW a \in 1..Depth
      PROVE  PortOf(a) \in Ports /\ Levels[a] = text[PortOf(a)] /\ PortOf(a) = ports[Depth + 1 - a]
             /\ Depth + 1 - a \in 1..Depth
  <2>1. Depth + 1 - a \in 1..Depth /\ a # 0 /\ a \in 0..Depth
    BY <1>1
  <2>2. PortOf(a) = ports[Depth + 1 - a] /\ Level(a) = text[ports[Depth + 1 - a]]
    BY <2>1 DEF PortOf, Level, Depth
  <2> QED
    BY <1>1, <2>1, <2>2 DEF Levels
<1>4. ASSUME NEW a \in 0..Depth, NEW b \in 0..Depth, PortOf(a) = PortOf(b) PROVE a = b
  <2>1. CASE a = 0 \/ b = 0
    <3>1. a # 0 => a \in 1..Depth
      OBVIOUS
    <3>2. b # 0 => b \in 1..Depth
      OBVIOUS
    <3> QED
      BY <1>2, <1>3, <1>4, <2>1, <3>1, <3>2, BoundFacts
  <2>2. CASE a # 0 /\ b # 0
    <3>1. a \in 1..Depth /\ b \in 1..Depth
      BY <2>2
    <3>2. ports[Depth + 1 - a] = ports[Depth + 1 - b]
      BY <1>3, <1>4, <3>1
    <3>3. Depth + 1 - a \in DOMAIN ports /\ Depth + 1 - b \in DOMAIN ports
      BY <1>1, <1>3, <3>1
    <3>4. Depth + 1 - a = Depth + 1 - b
      BY <3>2, <3>3 DEF BufferTypes, Distinct
    <3> QED
      BY <1>1, <3>1, <3>4
  <2> QED
    BY <2>1, <2>2
<1>5. ASSUME NEW i \in 1..Depth
      PROVE ports[i] = PortOf(Depth + 1 - i) /\ NextPort(i) = PortOf(Depth - i)
  <2>1. Depth + 1 - i \in 1..Depth /\ Depth + 1 - (Depth + 1 - i) = i
    BY <1>1
  <2>2. ports[i] = PortOf(Depth + 1 - i)
    BY <1>3, <2>1
  <2>3. CASE i = Depth
    BY <1>1, <2>3 DEF NextPort, PortOf, Depth
  <2>4. CASE i # Depth
    <3>1. Depth - i \in 1..Depth /\ Depth + 1 - (Depth - i) = i + 1
      BY <1>1, <2>4
    <3>2. PortOf(Depth - i) = ports[i + 1]
      BY <1>3, <3>1
    <3> QED
      BY <2>2, <2>4, <3>2 DEF NextPort, Depth
  <2> QED
    BY <2>2, <2>3, <2>4
<1>6. \A a \in 0..Depth : PortOf(a) \in Ports \cup {Page}
  <2>1. \A a \in 0..Depth : a = 0 \/ a \in 1..Depth
    BY <1>1
  <2> QED
    BY <1>2, <1>3, <2>1
<1>7. ports # <<>> => Head(ports) = PortOf(Depth)
  <2>1. ports # <<>> => Depth \in 1..Depth /\ 1 \in 1..Depth /\ Depth + 1 - Depth = 1
    BY <1>1
  <2> QED
    BY <1>1, <1>3, <2>1
<1> QED
  BY <1>1, <1>2, <1>3, <1>4, <1>5, <1>6, <1>7

-----------------------------------------------------------------------------
(* The flow, as it is put together.                                         *)
LEMMA FlowRecursion ==
  ASSUME BufferTypes
  PROVE  \E upto \in [0..Depth -> Seq(Nat)] :
            /\ upto[0] = page /\ Flow = upto[Depth]
            /\ \A a \in 1..Depth : upto[a] = upto[a - 1] \o Levels[a]
<1> DEFINE l == Depth
           more(a) == Level(a)
           g == [x \in Nat \X Seq(Nat) |-> IF x[1] \in 1..l THEN x[2] \o more(x[1]) ELSE x[2]]
           Is(f) == f = [a \in 0..l |-> IF a = 0 THEN page ELSE f[a - 1] \o more(a)]
<1>1. l \in Nat /\ page \in Seq(Nat) /\ l = Len(ports)
  BY LevelFacts DEF BufferTypes, Depth
<1>2. ASSUME NEW a \in 1..l PROVE more(a) \in Seq(Nat) /\ more(a) = Levels[a]
  <2>1. PortOf(a) \in Ports /\ Levels[a] = text[PortOf(a)] /\ a \in 0..Depth
    BY LevelFacts
  <2> QED
    BY <2>1 DEF Levels, BufferTypes
<1> HIDE DEF l, more
<1>3. g \in [Nat \X Seq(Nat) -> Seq(Nat)]
  <2>1. ASSUME NEW x \in Nat \X Seq(Nat)
        PROVE  (IF x[1] \in 1..l THEN x[2] \o more(x[1]) ELSE x[2]) \in Seq(Nat)
    <3>1. x[2] \in Seq(Nat)
      OBVIOUS
    <3>2. x[1] \in 1..l => x[2] \o more(x[1]) \in Seq(Nat)
      BY <1>2, <3>1, JoinFacts
    <3> QED
      BY <3>1, <3>2
  <2> QED
    BY <2>1
<1>4. PICK f \in [0..l -> Seq(Nat)] : f[0] = page /\ \A n \in 1..l : f[n] = g[<<n, f[n - 1]>>]
  <2> HIDE DEF g
  <2>1. Recursion(Seq(Nat), page, g, l)
    BY <1>1, <1>3, RecursiveFunction
  <2> QED
    BY <2>1 DEF Recursion
<1>5. ASSUME NEW n \in 1..l PROVE f[n] = f[n - 1] \o more(n)
  <2>0. n \in Nat /\ n - 1 \in 0..l
    <3> HIDE DEF g, Is
    <3> QED
      BY <1>1
  <2>1. f[n - 1] \in Seq(Nat)
    <3> HIDE DEF g, Is
    <3> QED
      BY <1>4, <2>0
  <2>2. g[<<n, f[n - 1]>>] = f[n - 1] \o more(n)
    BY <2>0, <2>1
  <2> HIDE DEF g
  <2> QED
    BY <1>4, <2>2
<1> HIDE DEF g
<1>6. Is(f)
  <2>1. ASSUME NEW n \in 0..l PROVE f[n] = IF n = 0 THEN page ELSE f[n - 1] \o more(n)
    <3>1. n = 0 \/ n \in 1..l
      BY <1>1
    <3> QED
      BY <1>4, <1>5, <3>1
  <2> QED
    BY <2>1
<1>7. \A k : Is(k) => k = f
  <2> SUFFICES ASSUME NEW k, Is(k) PROVE k = f
    OBVIOUS
  <2>1. UpTo(l, k) /\ UpTo(l, f)
    BY DEF UpTo
  <2>2. k[0] = f[0]
    BY <1>1, <1>4
  <2>3. ASSUME NEW n \in 1..l, k[n - 1] = f[n - 1] PROVE k[n] = f[n]
    <3>1. n \in 0..l /\ n # 0
      BY <1>1
    <3>2. k[n] = k[n - 1] \o more(n)
      BY <3>1
    <3> QED
      BY <1>5, <2>3, <3>2
  <2> HIDE DEF Is
  <2> QED
    BY <1>1, <2>1, <2>2, <2>3, SameRecursion
<1>8. (CHOOSE k : Is(k)) = f
  <2> HIDE DEF Is
  <2> QED
    BY <1>6, <1>7
<1>9. Flow = f[l]
  BY <1>1, <1>8 DEF Flow, more
<1> QED
  BY <1>2, <1>4, <1>5, <1>9 DEF l

LEMMA FlowFacts ==
  ASSUME BufferTypes, SortedOn(Levels, Depth)
  PROVE  Flow \in Seq(Nat) /\ Increasing(Flow) /\ Values(Flow) = Held(Levels, Depth)
<1>1. PICK upto \in [0..Depth -> Seq(Nat)] :
            /\ upto[0] = page /\ Flow = upto[Depth]
            /\ \A a \in 1..Depth : upto[a] = upto[a - 1] \o Levels[a]
  BY FlowRecursion
<1>2. Depth \in Nat /\ Levels[0] = page
  BY LevelFacts
<1> DEFINE P(a) == Increasing(upto[a]) /\ Values(upto[a]) = Held(Levels, a)
           S == {a \in Nat : a <= Depth => P(a)}
<1>3. 0 \in S
  <2>1. 0..0 = {0} /\ 0 \in 0..Depth
    BY <1>2
  <2> QED
    BY <1>1, <1>2, <2>1 DEF SortedOn, Held
<1>4. ASSUME NEW a \in Nat, a + 1 <= Depth, P(a) PROVE P(a + 1)
  <2> DEFINE b == a + 1
  <2>1. /\ b \in 1..Depth /\ b \in 0..Depth /\ a \in 0..Depth /\ b - 1 = a
        /\ \A c \in 0..a : c \in 0..Depth /\ c < b
        /\ 0..b = (0..a) \cup {b}
    BY <1>2, <1>4
  <2> HIDE DEF b
  <2>2. upto[b] = upto[a] \o Levels[b] /\ upto[a] \in Seq(Nat)
    BY <1>1, <2>1
  <2>3. Levels[b] \in Seq(Nat) /\ Increasing(Levels[b])
    BY <2>1 DEF SortedOn
  <2>4. Below(upto[a], Levels[b])
    BY <1>4, <2>1 DEF SortedOn, Below, Held
  <2>5. Increasing(upto[b]) /\ Values(upto[b]) = Values(upto[a]) \cup Values(Levels[b])
    BY <1>4, <2>2, <2>3, <2>4, JoinFacts
  <2>6. Held(Levels, b) = Held(Levels, a) \cup Values(Levels[b])
    BY <2>1 DEF Held
  <2>7. P(b)
    BY <1>4, <2>5, <2>6
  <2> QED
    BY <2>7 DEF b
<1>5. S = Nat
  <2>1. ASSUME NEW a \in S PROVE a + 1 \in S
    <3>1. a \in Nat /\ (a + 1 <= Depth => a <= Depth)
      BY <1>2
    <3>2. a + 1 <= Depth => P(a)
      BY <3>1
    <3> HIDE DEF P
    <3> QED
      BY <1>4, <3>1, <3>2
  <2>2. S \in SUBSET Nat
    OBVIOUS
  <2> HIDE DEF S
  <2> QED
    BY <1>3, <2>1, <2>2, NaturalInduction
<1>6. P(Depth)
  <2>1. Depth \in S
    BY <1>2, <1>5
  <2> HIDE DEF P
  <2> QED
    BY <1>2, <2>1
<1>7. Depth \in 0..Depth
  BY <1>2
<1> QED
  BY <1>1, <1>6, <1>7

(* What is to be put fits between the levels and is not on one of them.     *)
LEMMA UnderwayApart ==
  ASSUME BufferGood
  PROVE  Held(Levels, Depth) \cap Underway = {}
<1> SUFFICES ASSUME NEW x \in Held(Levels, Depth), x \in Underway PROVE FALSE
  OBVIOUS
<1>1. PICK a \in 0..Depth : x \in Values(Levels[a])
  BY DEF Held
<1>2. PICK j \in DOMAIN work : work[j].do = "put" /\ x \in Values(work[j].text)
  BY DEF Underway
<1>3. PICK l \in 0..(Depth - 1) : Fits(Levels, Depth, l, work[j].text)
  BY <1>2 DEF BufferGood, Planned, PlannedAt, PutFits
<1>4. Depth \in Nat
  BY LevelFacts DEF BufferGood
<1>5. a <= l \/ l < a
  BY <1>4
<1>6. x < x /\ x \in Nat
  <2>1. Levels[a] \in Seq(Nat)
    BY DEF BufferGood, SortedOn
  <2>2. x \in Nat
    BY <1>1, <2>1, ValuesFacts
  <2> QED
    BY <1>1, <1>2, <1>3, <1>5, <2>2 DEF Fits, Below
<1> QED
  BY <1>6

LEMMA GoodFlow ==
  ASSUME BufferInv
  PROVE  OnceInOrder
<1> SUFFICES ASSUME ~meddled
             PROVE  /\ \A i, j \in DOMAIN Flow : i < j => Flow[i] < Flow[j]
                    /\ Values(Flow) \cup Underway \cup cleaned = 1..said
                    /\ Values(Flow) \cap Underway = {}
  BY DEF OnceInOrder
<1>1. BufferGood
  BY DEF BufferInv
<1>2. Increasing(Flow) /\ Values(Flow) = Held(Levels, Depth)
  BY <1>1, FlowFacts DEF BufferGood
<1> QED
  BY <1>1, <1>2, UnderwayApart DEF BufferGood, Counted, Increasing

-----------------------------------------------------------------------------
(* The start of the list of what is to be done, taken off and replaced.     *)
LEMMA TailFacts ==
  ASSUME NEW T, NEW s \in Seq(T), s # <<>>
  PROVE  /\ Head(s) = s[1] /\ Tail(s) \in Seq(T) /\ Len(s) \in Nat \ {0}
         /\ Len(Tail(s)) = Len(s) - 1 /\ DOMAIN Tail(s) = 1..(Len(s) - 1) /\ DOMAIN s = 1..Len(s)
         /\ \A j \in DOMAIN Tail(s) : j + 1 \in DOMAIN s /\ Tail(s)[j] = s[j + 1]
         /\ \A j \in DOMAIN s : j > 1 => j - 1 \in DOMAIN Tail(s) /\ Tail(s)[j - 1] = s[j]
<1>1. /\ Head(s) = s[1] /\ Tail(s) \in Seq(T) /\ Len(s) \in Nat \ {0}
      /\ Len(Tail(s)) = Len(s) - 1 /\ DOMAIN s = 1..Len(s)
      /\ \A j \in 1..Len(Tail(s)) : Tail(s)[j] = s[j + 1]
  OBVIOUS
<1>2. DOMAIN Tail(s) = 1..(Len(s) - 1)
  BY <1>1
<1>3. \A j \in 1..(Len(s) - 1) : j + 1 \in 1..Len(s) /\ Tail(s)[j] = s[j + 1]
  BY <1>1
<1>4. ASSUME NEW j \in 1..Len(s), j > 1 PROVE j - 1 \in 1..(Len(s) - 1) /\ Tail(s)[j - 1] = s[j]
  <2>1. j - 1 \in 1..(Len(s) - 1) /\ (j - 1) + 1 = j
    BY <1>1, <1>4
  <2> QED
    BY <1>3, <2>1
<1> QED
  BY <1>1, <1>2, <1>3, <1>4

LEMMA OnTailFacts ==
  ASSUME NEW T, NEW s \in Seq(T), s # <<>>, NEW x \in T, NEW w, w = <<x>> \o Tail(s)
  PROVE  /\ w \in Seq(T) /\ Len(w) = Len(s) /\ DOMAIN w = DOMAIN s /\ w[1] = x /\ 1 \in DOMAIN s
         /\ \A j \in DOMAIN s : j # 1 => w[j] = s[j] /\ j > 1
<1> DEFINE q == <<x>>
           t == Tail(s)
<1>1. q \in Seq(T) /\ Len(q) = 1 /\ q[1] = x /\ w = q \o t
  OBVIOUS
<1>2. t \in Seq(T) /\ Len(t) = Len(s) - 1 /\ Len(s) \in Nat \ {0} /\ DOMAIN s = 1..Len(s)
      /\ \A j \in DOMAIN s : j > 1 => j - 1 \in 1..Len(t) /\ t[j - 1] = s[j]
  BY TailFacts
<1> HIDE DEF q, t
<1>3. /\ w \in Seq(T) /\ Len(w) = 1 + Len(t) /\ DOMAIN w = 1..Len(w)
      /\ w[1] = x /\ \A j \in 1..Len(t) : w[j + 1] = t[j]
  BY <1>1, <1>2
<1>4. ASSUME NEW j \in DOMAIN s, j # 1 PROVE w[j] = s[j] /\ j > 1
  <2>1. j > 1 /\ j \in Nat /\ (j - 1) + 1 = j
    BY <1>2, <1>4
  <2> QED
    BY <1>2, <1>3, <2>1
<1>5. Len(w) = Len(s) /\ 1 \in 1..Len(s)
  BY <1>2, <1>3
<1> QED
  BY <1>2, <1>3, <1>4, <1>5

LEMMA ThenFacts ==
  ASSUME NEW T, NEW q \in Seq(T), NEW t \in Seq(T), NEW w, w = q \o t
  PROVE  /\ w \in Seq(T) /\ Len(w) = Len(q) + Len(t) /\ DOMAIN w = 1..Len(w)
         /\ \A j \in 1..Len(q) : w[j] = q[j]
         /\ \A j \in 1..Len(t) : w[Len(q) + j] = t[j]
  OBVIOUS

TwoOnTail(s, x, y, w) == w = <<x, y>> \o Tail(s)
LEMMA TwoOnTailFacts ==
  ASSUME NEW T, NEW s \in Seq(T), s # <<>>, NEW x \in T, NEW y \in T, NEW w, TwoOnTail(s, x, y, w)
  PROVE  /\ w \in Seq(T) /\ Len(w) = Len(s) + 1 /\ DOMAIN w = 1..(Len(s) + 1) /\ w[1] = x /\ w[2] = y
         /\ \A j \in DOMAIN w : j \notin {1, 2} => j - 1 \in DOMAIN s /\ j - 1 > 1 /\ w[j] = s[j - 1]
         /\ \A j \in DOMAIN s : j > 1 => j + 1 \in DOMAIN w /\ w[j + 1] = s[j]
<1> DEFINE q == <<x, y>>
           t == Tail(s)
<1>0. q \in Seq(T) /\ w = q \o t
  BY DEF TwoOnTail
<1>1. Len(q) = 2 /\ q[1] = x /\ q[2] = y
  OBVIOUS
<1>2. t \in Seq(T) /\ Len(t) = Len(s) - 1 /\ Len(s) \in Nat \ {0} /\ DOMAIN s = 1..Len(s)
      /\ \A j \in DOMAIN s : j > 1 => j - 1 \in 1..Len(t) /\ t[j - 1] = s[j]
  BY TailFacts
<1> HIDE DEF q, t
<1>3. /\ w \in Seq(T) /\ Len(w) = 2 + Len(t) /\ DOMAIN w = 1..Len(w)
      /\ w[1] = x /\ w[2] = y /\ \A j \in 1..Len(t) : w[j + 2] = t[j]
  <2>1. t \in Seq(T) /\ Len(t) \in Nat
    BY <1>2
  <2>2. /\ w \in Seq(T) /\ Len(w) = Len(q) + Len(t) /\ DOMAIN w = 1..Len(w)
        /\ \A j \in 1..Len(q) : w[j] = q[j]
        /\ \A j \in 1..Len(t) : w[Len(q) + j] = t[j]
    BY <1>0, <2>1, ThenFacts
  <2>3. 1 \in 1..2 /\ 2 \in 1..2 /\ \A j \in 1..Len(t) : 2 + j = j + 2
    BY <2>1
  <2> QED
    BY <1>1, <2>2, <2>3
<1>4. Len(w) = Len(s) + 1 /\ DOMAIN w = 1..(Len(s) + 1)
  BY <1>2, <1>3
<1>5. ASSUME NEW j \in DOMAIN s, j > 1 PROVE j + 1 \in DOMAIN w /\ w[j + 1] = s[j]
  <2>1. j \in Nat /\ j - 1 \in 1..Len(t) /\ (j - 1) + 2 = j + 1 /\ j + 1 \in 1..(Len(s) + 1)
    BY <1>2, <1>5
  <2> QED
    BY <1>2, <1>3, <1>4, <1>5, <2>1
<1>6. ASSUME NEW j \in DOMAIN w, j \notin {1, 2} PROVE j - 1 \in DOMAIN s /\ j - 1 > 1 /\ w[j] = s[j - 1]
  <2>1. j - 1 \in DOMAIN s /\ j - 1 > 1 /\ (j - 1) + 1 = j
    BY <1>2, <1>4, <1>6
  <2>2. w[(j - 1) + 1] = s[j - 1]
    BY <1>5, <2>1
  <2> QED
    BY <2>1, <2>2
<1> QED
  BY <1>3, <1>4, <1>5, <1>6

LEMMA AppendIsJoin ==
  ASSUME NEW s \in Seq(Nat), NEW x \in Nat
  PROVE  Append(s, x) = s \o <<x>>
  OBVIOUS

-----------------------------------------------------------------------------
(* Steps that leave the stacks alone.                                       *)
LEMMA SamePorts ==
  ASSUME BufferTypes, ports' = ports
  PROVE  /\ Depth' = Depth /\ \A a \in 0..Depth : PortOf(a)' = PortOf(a)
         /\ Levels'[0] = page' /\ \A a \in 1..Depth : Levels'[a] = text'[PortOf(a)]
<1>1. Depth' = Depth /\ Depth = Len(ports)
  BY DEF Depth
<1>2. \A a \in 0..Depth : PortOf(a)' = PortOf(a)
  BY <1>1 DEF PortOf
<1>3. Levels' = [a \in 0..Depth |-> IF a = 0 THEN page' ELSE text'[ports[Depth + 1 - a]]]
  BY <1>1 DEF Levels, Level
<1>4. \A a \in 1..Depth : a \in 0..Depth /\ a # 0
  BY LevelFacts
<1>5. 0 \in 0..Depth
  BY LevelFacts
<1> QED
  BY <1>1, <1>2, <1>3, <1>4, <1>5 DEF PortOf

LEMMA SameText ==
  ASSUME ports' = ports, page' = page, text' = text
  PROVE  Levels' = Levels /\ Depth' = Depth /\ (cleaned' = cleaned => (TopDone' <=> TopDone))
  BY DEF Levels, Level, Depth, TopDone

(* A text put onto a level, or taken off one.                               *)
LEMMA TextPut ==
  ASSUME BufferTypes, ports' = ports, NEW l \in 0..Depth, NEW t \in Seq(Nat),
         IF l = 0 THEN page' = page \o t /\ text' = text
         ELSE page' = page /\ text' = [text EXCEPT ![PortOf(l)] = @ \o t]
  PROVE  PutOn(Levels, Depth, l, t, Levels') /\ text' \in [Ports -> Seq(Nat)] /\ page' \in Seq(Nat)
<1>1. page \in Seq(Nat) /\ text \in [Ports -> Seq(Nat)] /\ page \o t \in Seq(Nat)
  BY DEF BufferTypes
<1>2. text' \in [Ports -> Seq(Nat)] /\ page' \in Seq(Nat)
  <2>1. CASE l = 0
    BY <1>1, <2>1
  <2>2. CASE l # 0
    <3>1. \A p \in Ports : text[p] \o t \in Seq(Nat)
      BY <1>1
    <3> QED
      BY <1>1, <2>2, <3>1
  <2> QED
    BY <2>1, <2>2
<1>3. ASSUME NEW a \in 0..Depth PROVE Levels'[a] = IF a = l THEN Levels[l] \o t ELSE Levels[a]
  <2>1. CASE a = 0
    BY <2>1, LevelFacts, SamePorts
  <2>2. CASE a # 0
    <3>1. a \in 1..Depth
      BY <2>2, LevelFacts
    <3>2. Levels'[a] = text'[PortOf(a)] /\ Levels[a] = text[PortOf(a)] /\ PortOf(a) \in Ports
      BY <3>1, LevelFacts, SamePorts
    <3>3. PortOf(a) = PortOf(l) => a = l
      BY LevelFacts
    <3> QED
      BY <1>1, <2>2, <3>2, <3>3
  <2> QED
    BY <2>1, <2>2
<1> QED
  BY <1>2, <1>3 DEF PutOn

LEMMA TextTaken ==
  ASSUME BufferTypes, ports' = ports, page' = page, NEW l \in 1..Depth,
         text' = [text EXCEPT ![PortOf(l)] = <<>>]
  PROVE  EmptyOn(Levels, Depth, l, Levels') /\ text' \in [Ports -> Seq(Nat)] /\ Levels[l] = text[PortOf(l)]
<1>1. text \in [Ports -> Seq(Nat)] /\ <<>> \in Seq(Nat)
  BY DEF BufferTypes
<1>2. text' \in [Ports -> Seq(Nat)]
  BY <1>1
<1>3. ASSUME NEW a \in 0..Depth PROVE Levels'[a] = IF a = l THEN <<>> ELSE Levels[a]
  <2>1. CASE a = 0
    BY <2>1, LevelFacts, SamePorts
  <2>2. CASE a # 0
    <3>1. a \in 1..Depth /\ l \in 0..Depth
      BY <2>2, LevelFacts
    <3>2. Levels'[a] = text'[PortOf(a)] /\ Levels[a] = text[PortOf(a)] /\ PortOf(a) \in Ports
      BY <3>1, LevelFacts, SamePorts
    <3>3. PortOf(a) = PortOf(l) => a = l
      BY <3>1, LevelFacts
    <3> QED
      BY <1>1, <3>2, <3>3
  <2> QED
    BY <2>1, <2>2
<1> QED
  BY <1>2, <1>3, LevelFacts DEF EmptyOn

-----------------------------------------------------------------------------
(* What the first thing to do says of the others.                           *)
Later == {"move", "pop", "again"}

LEMMA WorkFacts ==
  ASSUME BufferGood
  PROVE  /\ work \in Seq(Item) /\ DOMAIN work = 1..Len(work) /\ Len(work) \in Nat
         /\ work = <<>> => DOMAIN work = {} /\ Underway = {}
         /\ work # <<>> => 1 \in DOMAIN work /\ work[1] = Head(work)
<1>1. work \in Seq(Item) /\ DOMAIN work = 1..Len(work) /\ Len(work) \in Nat
  BY DEF BufferGood, BufferTypes
<1>2. work = <<>> => DOMAIN work = {}
  OBVIOUS
<1>3. work = <<>> => Underway = {}
  BY <1>2 DEF Underway
<1> QED
  BY <1>1, <1>2, <1>3

LEMMA ItemFacts ==
  \A x \in Item : x.do \in Later \cup {"flush", "call", "put"}
  BY DEF Item, Later, Flush, PopTop, Again, Call, Move, Put

LEMMA Others ==
  ASSUME BufferGood, work # <<>>
  PROVE  /\ \A j \in DOMAIN work : j # 1 =>
               \/ work[j].do \in Later
               \/ j = 2 /\ work[1].do = "call" /\ work[2].do = "put"
         /\ work[1].do \in {"pop", "again"} => Len(work) = 1
         /\ work[1].do = "call" => 2 \in DOMAIN work /\ work[2].do = "put"
         /\ work[1].do \in Later \cup {"flush"} => Underway = {}
         /\ work[1].do = "put" => Underway = Values(work[1].text)
         /\ work[1].do = "call" => Underway = Values(work[2].text)
<1>1. 1 \in DOMAIN work /\ DOMAIN work = 1..Len(work)
  BY WorkFacts
<1>2. \A j \in DOMAIN work : work[j] \in Item /\ PlannedAt(work, j)
  BY WorkFacts DEF BufferGood, Planned
<1>3. ASSUME NEW j \in DOMAIN work, j # 1
      PROVE  work[j].do \in Later \/ (j = 2 /\ work[1].do = "call" /\ work[2].do = "put")
  BY <1>2, <1>3, ItemFacts DEF PlannedAt
<1>4. work[1].do \in {"pop", "again"} => Len(work) = 1
  BY <1>1, <1>2 DEF PlannedAt
<1>5. work[1].do = "call" => 2 \in DOMAIN work /\ work[2].do = "put"
  BY <1>1, <1>2 DEF PlannedAt
<1>6. work[1].do \in Later \cup {"flush"} => Underway = {}
  BY <1>3 DEF Underway, Later
<1>7. work[1].do = "put" => Underway = Values(work[1].text)
  BY <1>1, <1>3 DEF Underway, Later
<1>8. work[1].do = "call" => Underway = Values(work[2].text)
  BY <1>3, <1>5 DEF Underway, Later
<1> QED
  BY <1>3, <1>4, <1>5, <1>6, <1>7, <1>8

(* What was behind the first thing to do is still right where it is now.    *)
LEMMA LeftToDo ==
  ASSUME BufferGood, ports' = ports,
         NEW j \in DOMAIN work', NEW k \in DOMAIN work, work'[j] = work[k], work[k].do \in Later,
         k = Len(work) => j = Len(work'),
         TopDone => TopDone',
         \A i \in DOMAIN work : i > 1 => \E h \in DOMAIN work' : work'[h] = work[i],
         FlushesTop(work[1]) => TopGoes'
  PROVE  PlannedAt(work, j)'
<1>1. PlannedAt(work, k)
  BY DEF BufferGood, Planned
<1>2. Depth' = Depth /\ Depth \in Nat /\ \A a \in 0..Depth : PortOf(a)' = PortOf(a)
  BY SamePorts, LevelFacts DEF BufferGood
<1>3. work[k].do = "move" => MovesDown(work[j])'
  <2> SUFFICES ASSUME work[k].do = "move" PROVE MovesDown(work[j])'
    OBVIOUS
  <2>1. PICK a \in 1..Depth : work[k].from = PortOf(a) /\ work[k].to = PortOf(a - 1)
    BY <1>1 DEF PlannedAt, MovesDown
  <2>2. a \in 0..Depth /\ a - 1 \in 0..Depth
    BY <1>2
  <2>3. work'[j].from = PortOf(a)' /\ work'[j].to = PortOf(a - 1)' /\ a \in 1..Depth'
    BY <1>2, <2>1, <2>2
  <2> QED
    BY <2>3 DEF MovesDown
<1>4. TopGoes => TopGoes'
  <2>1. ASSUME NEW h \in DOMAIN work, FlushesTop(work[h]), h # 1 PROVE TopGoes'
    <3>1. h > 1
      BY <2>1, WorkFacts
    <3>2. PICK i \in DOMAIN work' : work'[i] = work[h]
      BY <3>1
    <3>3. PortOf(Depth)' = PortOf(Depth)
      BY <1>2
    <3>4. work'[i].do = "flush" \/ (work'[i].do = "move" /\ work'[i].from = PortOf(Depth)')
      BY <2>1, <3>2, <3>3 DEF FlushesTop
    <3>5. FlushesTop(work[i])'
      BY <3>4 DEF FlushesTop
    <3> QED
      BY <3>5 DEF TopGoes
  <2>2. TopDone' => TopGoes'
    BY DEF TopGoes
  <2> QED
    BY <2>1, <2>2 DEF TopGoes
<1> QED
  BY <1>1, <1>3, <1>4 DEF PlannedAt, Later

-----------------------------------------------------------------------------
(* What scripts do.                                                         *)
LEMMA EchoStep ==
  ASSUME BufferGood, ObEcho
  PROVE  BufferGood'
<1> DEFINE x == said + 1
           q == <<x>>
<1>1. /\ BufferTypes /\ SortedOn(Levels, Depth) /\ said \in Nat /\ x \in Nat /\ q \in Seq(Nat)
      /\ Held(Levels, Depth) \cup Underway \cup cleaned = 1..said
  BY DEF BufferGood, BufferTypes, Counted
<1>2. /\ ports' = ports /\ callbacks' = callbacks /\ work' = work /\ said' = x
      /\ cleaned' = (IF InCallback THEN cleaned \cup {x} ELSE cleaned)
  BY DEF ObEcho
<1>3. PutOn(Levels, Depth, Depth, q, Levels') /\ text' \in [Ports -> Seq(Nat)] /\ page' \in Seq(Nat)
  <2>1. CASE ports = <<>>
    <3>1. Depth = 0 /\ page' = page \o q /\ text' = text
      BY <1>1, <2>1, AppendIsJoin DEF ObEcho, Depth, BufferTypes
    <3> HIDE DEF q
    <3> QED
      BY <1>1, <1>2, <3>1, TextPut
  <2>2. CASE ports # <<>>
    <3>1. Depth \in 1..Depth /\ Depth \in 0..Depth /\ Depth # 0 /\ Head(ports) = PortOf(Depth) /\ PortOf(Depth) \in Ports
      BY <1>1, <2>2, LevelFacts
    <3>2. page' = page /\ text' = [text EXCEPT ![PortOf(Depth)] = Append(@, x)]
      BY <2>2, <3>1 DEF ObEcho
    <3>3. text[PortOf(Depth)] \in Seq(Nat)
      BY <1>1, <3>1 DEF BufferTypes
    <3>4. text' = [text EXCEPT ![PortOf(Depth)] = @ \o q]
      BY <1>1, <3>2, <3>3, AppendIsJoin
    <3> HIDE DEF q
    <3> QED
      BY <1>1, <1>2, <3>1, <3>2, <3>4, TextPut
  <2> QED
    BY <2>1, <2>2
<1>4. BufferTypes'
  BY <1>1, <1>2, <1>3 DEF BufferTypes, Distinct
<1>5. Depth' = Depth /\ Depth \in Nat /\ Depth \in 0..Depth /\ \A a \in 0..Depth : PortOf(a)' = PortOf(a)
  BY <1>1, <1>2, SamePorts, LevelFacts
<1>6. Fits(Levels, Depth, Depth, q) /\ Values(q) = {x}
  <2>1. \A y \in Held(Levels, Depth) : y < x
    BY <1>1
  <2> QED
    BY <1>1, <1>5, <2>1, LastFits
<1> HIDE DEF q
<1>7. SortedOn(Levels', Depth) /\ Held(Levels', Depth) = Held(Levels, Depth) \cup {x}
  BY <1>1, <1>3, <1>5, <1>6, PutFacts DEF SortedWith
<1>8. Counted'
  <2>1. Underway' = Underway
    BY <1>2 DEF Underway
  <2>2. 1..x = (1..said) \cup {x}
    BY <1>1
  <2> HIDE DEF x
  <2> QED
    BY <1>1, <1>2, <1>5, <1>7, <2>1, <2>2 DEF Counted
<1>9. ASSUME NEW j \in DOMAIN work' PROVE PlannedAt(work, j)'
  <2>1. j \in DOMAIN work /\ PlannedAt(work, j) /\ work # <<>>
    BY <1>2, <1>9, WorkFacts DEF BufferGood, Planned
  <2>2. InCallback /\ work[1].do = "call"
    BY <2>1, WorkFacts DEF ObEcho, ScriptRuns, InCallback
  <2>3. work[j].do = "call" \/ work[j].do \in Later \/ work[j].do = "put"
    BY <2>1, <2>2, Others
  <2>4. TopDone => TopDone'
    <3>1. CASE ports = <<>>
      BY <1>2, <3>1 DEF TopDone
    <3>2. CASE ports # <<>>
      <4>1. Depth \in 1..Depth /\ Depth \in 0..Depth /\ Head(ports) = PortOf(Depth)
        BY <1>1, <3>2, LevelFacts
      <4>2. Levels'[Depth] = text'[Head(ports)] /\ Levels[Depth] = text[Head(ports)] /\ Levels[Depth] \in Seq(Nat)
        BY <1>1, <1>2, <4>1, LevelFacts, SamePorts DEF SortedOn
      <4>3. Levels'[Depth] = Levels[Depth] \o q
        BY <1>3, <4>1 DEF PutOn
      <4>4. Values(Levels'[Depth]) = Values(Levels[Depth]) \cup Values(q)
        BY <1>1, <4>2, <4>3, JoinFacts DEF q
      <4> QED
        BY <1>2, <1>6, <2>2, <4>2, <4>4 DEF TopDone
    <3> QED
      BY <3>1, <3>2
  <2>5. CASE work[j].do = "call"
    BY <1>2, <2>1, <2>5 DEF PlannedAt
  <2>6. CASE work[j].do \in Later
    <3>1. FlushesTop(work[1]) => TopGoes'
      BY <2>2 DEF FlushesTop
    <3> QED
      BY <1>2, <2>1, <2>4, <2>6, <3>1, LeftToDo
  <2>7. CASE work[j].do = "put"
    <3>1. PICK a \in 0..(Depth - 1) : work[j].to = PortOf(a) /\ Fits(Levels, Depth, a, work[j].text)
      BY <2>1, <2>7 DEF PlannedAt, PutFits
    <3>2. \A y \in Values(work[j].text) : y < x
      <4>1. Values(work[j].text) \subseteq Underway
        BY <2>1, <2>7 DEF Underway
      <4> QED
        BY <1>1, <4>1
    <3>3. Fits(Levels', Depth, a, work[j].text)
      <4>1. Levels[Depth] \in Seq(Nat)
        BY <1>1, <1>5 DEF SortedOn
      <4>2. PutOn(Levels, Depth, Depth, <<x>>, Levels')
        BY <1>3 DEF q
      <4> HIDE DEF x
      <4> QED
        BY <1>1, <1>5, <3>1, <3>2, <4>1, <4>2, StillFits
    <3>4. work'[j].to = PortOf(a)' /\ a \in 0..(Depth' - 1)
      BY <1>2, <1>5, <3>1
    <3>5. PutFits(work[j])'
      BY <1>2, <1>5, <3>3, <3>4 DEF PutFits
    <3> QED
      BY <1>2, <2>1, <2>7, <3>5 DEF PlannedAt
  <2> QED
    BY <2>3, <2>5, <2>6, <2>7
<1>10. Planned'
  BY <1>9 DEF Planned
<1> QED
  BY <1>4, <1>5, <1>7, <1>8, <1>10 DEF BufferGood

(* A level more, with nothing on it yet, and one less.                      *)
LEMMA PushedFacts ==
  ASSUME NEW L, NEW n \in Nat, NEW M, SortedOn(L, n), \A a \in 0..n : M[a] = L[a], M[n + 1] = <<>>
  PROVE  SortedOn(M, n + 1) /\ Held(M, n + 1) = Held(L, n)
<1> DEFINE m == n + 1
<1>1. /\ \A a \in 0..m : a = m \/ a \in 0..n
      /\ \A a \in 0..n : a < m /\ ~(m < a) /\ a \in 0..m
      /\ M[m] = <<>> /\ ~(m < m) /\ m \in 0..m
  OBVIOUS
<1> HIDE DEF m
<1>2. SortedOn(M, m)
  <2>1. \A a \in 0..m : M[a] \in Seq(Nat) /\ Increasing(M[a])
    BY <1>1, NoValues DEF SortedOn
  <2>2. ASSUME NEW a \in 0..m, NEW b \in 0..m, a < b PROVE Below(M[a], M[b])
    <3>1. a \in 0..n
      BY <1>1, <2>2
    <3> QED
      BY <1>1, <2>2, <3>1, NoValues DEF SortedOn
  <2> QED
    BY <2>1, <2>2 DEF SortedOn
<1>3. Held(M, m) = Held(L, n)
  BY <1>1, NoValues DEF Held
<1> QED
  BY <1>2, <1>3 DEF m

LEMMA PoppedFacts ==
  ASSUME NEW L, NEW n \in Nat \ {0}, NEW M, SortedOn(L, n), \A a \in 0..(n - 1) : M[a] = L[a]
  PROVE  SortedOn(M, n - 1) /\ Held(M, n - 1) \cup Values(L[n]) = Held(L, n)
<1> DEFINE m == n - 1
<1>1. /\ \A a \in 0..n : a = n \/ a \in 0..m
      /\ \A a \in 0..m : a \in 0..n
      /\ n \in 0..n /\ \A a \in 0..m : M[a] = L[a]
  OBVIOUS
<1> HIDE DEF m
<1>2. SortedOn(M, m)
  BY <1>1 DEF SortedOn
<1>3. Held(M, m) \cup Values(L[n]) = Held(L, n)
  BY <1>1 DEF Held
<1> QED
  BY <1>2, <1>3 DEF m

LEMMA PortsLeft ==
  ASSUME BufferGood, work = <<>>, Len(ports) < MaxBuffers
  PROVE  \E p \in Ports : p \in FreePorts
<1>1. ports \in Seq(Ports) /\ Depth = Len(ports) /\ Depth \in Nat /\ DOMAIN ports = 1..Depth
  BY LevelFacts DEF BufferGood, BufferTypes, Depth
<1>2. IsFiniteSet(1..Depth) /\ Cardinality(1..Depth) = Depth
  <2>0. 1 \in Int /\ Depth \in Int
    BY <1>1
  <2>1. IsFiniteSet(1..Depth) /\ Cardinality(1..Depth) = IF 1 > Depth THEN 0 ELSE Depth - 1 + 1
    BY <2>0, FS_Interval
  <2> QED
    BY <1>1, <2>1
<1>3. ports \in Surjection(1..Depth, Values(ports))
  <2>1. ports \in [1..Depth -> Values(ports)]
    BY <1>1, ValuesFacts
  <2>2. \A x \in Values(ports) : \E i \in 1..Depth : ports[i] = x
    BY <1>1, ValuesFacts
  <2> QED
    BY <2>1, <2>2 DEF Surjection
<1>4. Cardinality(Values(ports)) <= Depth
  BY <1>2, <1>3, FS_Surjection
<1>5. Ports # Values(ports)
  BY <1>1, <1>4, BoundFacts
<1>6. Values(ports) \subseteq Ports
  BY <1>1, ValuesFacts
<1>7. PICK p \in Ports : p \notin Values(ports)
  BY <1>5, <1>6
<1>8. ~Busy(p)
  <2>1. DOMAIN work = {}
    BY WorkFacts
  <2> QED
    BY <2>1 DEF Busy
<1> QED
  BY <1>7, <1>8 DEF FreePorts

LEMMA OnFacts ==
  ASSUME NEW T, NEW s \in Seq(T), NEW x \in T, NEW w, w = <<x>> \o s
  PROVE  /\ w \in Seq(T) /\ Len(w) = Len(s) + 1 /\ w[1] = x /\ DOMAIN w = 1..(Len(s) + 1)
         /\ \A i \in 1..Len(s) : w[i + 1] = s[i]
  OBVIOUS

LEMMA StartStep ==
  ASSUME BufferGood, NEW cb \in Kinds, ObStart(cb), ~meddled'
  PROVE  BufferGood'
<1>1. work = <<>> /\ work' = work /\ Len(ports) < MaxBuffers
  BY DEF ObStart, Meddles, ScriptRuns
<1> DEFINE p == CHOOSE q \in FreePorts : TRUE
           n == Depth
<1>2. p \in FreePorts
  BY <1>1, PortsLeft
<1>3. /\ ports' = <<p>> \o ports /\ text' = [text EXCEPT ![p] = <<>>] /\ callbacks' = <<cb>> \o callbacks
      /\ page' = page /\ said' = said /\ cleaned' = cleaned
  BY DEF ObStart
<1> HIDE DEF p
<1>4. p \in Ports /\ p \notin Values(ports)
  BY <1>2 DEF FreePorts
<1>5. BufferTypes /\ SortedOn(Levels, n) /\ n \in Nat /\ n = Len(ports) /\ ports \in Seq(Ports)
      /\ text \in [Ports -> Seq(Nat)] /\ DOMAIN ports = 1..n /\ callbacks \in Seq(Kinds) /\ Len(callbacks) = n
  BY LevelFacts DEF BufferGood, BufferTypes, Depth
<1>6. /\ ports' \in Seq(Ports) /\ Len(ports') = n + 1 /\ ports'[1] = p /\ DOMAIN ports' = 1..(n + 1)
      /\ \A i \in 1..n : ports'[i + 1] = ports[i]
  BY <1>3, <1>4, <1>5, OnFacts
<1>7. callbacks' \in Seq(Kinds) /\ Len(callbacks') = n + 1
  <2>1. callbacks' = <<cb>> \o callbacks
    BY <1>3
  <2> HIDE DEF n
  <2> QED
    BY <1>5, <2>1, OnFacts
<1>0. \A i \in 1..n : ports[i] # p /\ ports[i] \in Ports
  <2>1. \A i \in 1..Len(ports) : ports[i] \in Values(ports) /\ ports[i] \in Ports
    BY <1>5, ValuesFacts
  <2> HIDE DEF n
  <2> QED
    BY <1>4, <1>5, <2>1
<1>8. BufferTypes'
  <2>1. ASSUME NEW i \in 1..(n + 1), NEW j \in 1..(n + 1), ports'[i] = ports'[j] PROVE i = j
    <3>1. \A h \in 1..(n + 1) : h # 1 => h - 1 \in 1..n /\ ports'[h] = ports[h - 1] /\ ports[h - 1] # p
      <4> SUFFICES ASSUME NEW h \in 1..(n + 1), h # 1
                   PROVE  h - 1 \in 1..n /\ ports'[h] = ports[h - 1] /\ ports[h - 1] # p
        OBVIOUS
      <4>1. h - 1 \in 1..n /\ (h - 1) + 1 = h
        BY <1>5
      <4>2. ports'[h] = ports[h - 1]
        BY <1>6, <4>1
      <4> QED
        BY <1>0, <4>1, <4>2
    <3>2. CASE i = 1 \/ j = 1
      BY <1>6, <2>1, <3>1, <3>2
    <3>3. CASE i # 1 /\ j # 1
      <4>1. ports[i - 1] = ports[j - 1] /\ i - 1 \in 1..n /\ j - 1 \in 1..n
        BY <2>1, <3>1, <3>3
      <4>2. i - 1 = j - 1
        BY <1>5, <4>1 DEF BufferTypes, Distinct
      <4> QED
        BY <1>5, <4>2
    <3> QED
      BY <3>2, <3>3
  <2>2. Distinct'
    BY <1>6, <2>1 DEF Distinct
  <2>3. text' \in [Ports -> Seq(Nat)]
    <3>1. <<>> \in Seq(Nat)
      BY NoValues
    <3> QED
      BY <1>3, <1>5, <3>1
  <2>4. work' \in Seq(Item) /\ said' \in Nat /\ page' \in Seq(Nat)
    BY <1>1, <1>3, <1>5 DEF BufferTypes
  <2> QED
    BY <1>6, <1>7, <2>2, <2>3, <2>4 DEF BufferTypes
<1>9. Depth' = n + 1
  BY <1>6 DEF Depth
<1>10. (\A a \in 0..n : Levels'[a] = Levels[a]) /\ Levels'[n + 1] = <<>>
  <2>1. Levels' = [a \in 0..(n + 1) |-> IF a = 0 THEN page' ELSE text'[ports'[n + 1 + 1 - a]]]
    BY <1>6, <1>9 DEF Levels, Level
  <2>2. Levels'[n + 1] = <<>>
    <3>1. n + 1 \in 0..(n + 1) /\ n + 1 # 0 /\ n + 1 + 1 - (n + 1) = 1
      BY <1>5
    <3>2. Levels'[n + 1] = text'[ports'[1]]
      BY <2>1, <3>1
    <3> QED
      BY <1>3, <1>4, <1>5, <1>6, <3>2
  <2>3. ASSUME NEW a \in 0..n PROVE Levels'[a] = Levels[a]
    <3>1. CASE a = 0
      <4>1. 0 \in 0..(n + 1)
        BY <1>5
      <4> QED
        BY <1>3, <1>5, <2>1, <3>1, <4>1, LevelFacts
    <3>2. CASE a # 0
      <4>1. a \in 0..(n + 1) /\ n + 1 - a \in 1..n /\ (n + 1 - a) + 1 = n + 1 + 1 - a
        BY <1>5, <3>2
      <4>2. Levels'[a] = text'[ports[n + 1 - a]]
        BY <1>6, <2>1, <3>2, <4>1
      <4>3. ports[n + 1 - a] # p /\ ports[n + 1 - a] \in Ports
        BY <1>0, <4>1
      <4>4. Levels[a] = text[ports[n + 1 - a]]
        BY <1>5, <3>2 DEF Levels, Level
      <4> QED
        BY <1>3, <1>5, <4>2, <4>3, <4>4
    <3> QED
      BY <3>1, <3>2
  <2> QED
    BY <2>2, <2>3
<1> HIDE DEF n
<1>11. SortedOn(Levels', n + 1) /\ Held(Levels', n + 1) = Held(Levels, n)
  BY <1>5, <1>10, PushedFacts
<1>12. Counted'
  <2>1. Underway' = Underway
    BY <1>1 DEF Underway
  <2>2. Held(Levels', Depth') = Held(Levels, Depth)
    BY <1>9, <1>11 DEF n
  <2> QED
    BY <1>3, <2>1, <2>2 DEF BufferGood, Counted
<1>13. Planned'
  BY <1>1, WorkFacts DEF Planned
<1> QED
  BY <1>8, <1>9, <1>11, <1>12, <1>13 DEF BufferGood

LEMMA CleanStep ==
  ASSUME BufferGood, ObClean, ~meddled'
  PROVE  BufferGood'
<1>1. work = <<>> /\ work' = work /\ ports # <<>> /\ ports' = ports /\ callbacks' = callbacks
      /\ page' = page /\ said' = said
  BY DEF ObClean, Meddles, ScriptRuns
<1>2. BufferTypes /\ SortedOn(Levels, Depth) /\ Held(Levels, Depth) \cup Underway \cup cleaned = 1..said
  BY DEF BufferGood, Counted
<1>3. Depth \in 1..Depth /\ Head(ports) = PortOf(Depth) /\ Depth \in Nat /\ Depth \in 0..Depth
  BY <1>1, <1>2, LevelFacts
<1>4. /\ text' = [text EXCEPT ![PortOf(Depth)] = <<>>]
      /\ cleaned' = cleaned \cup Values(text[PortOf(Depth)])
  BY <1>3 DEF ObClean
<1>5. EmptyOn(Levels, Depth, Depth, Levels') /\ text' \in [Ports -> Seq(Nat)] /\ Levels[Depth] = text[PortOf(Depth)]
  BY <1>1, <1>2, <1>3, <1>4, TextTaken
<1>6. SortedOn(Levels', Depth) /\ Held(Levels', Depth) \cup Values(Levels[Depth]) = Held(Levels, Depth)
  BY <1>2, <1>3, <1>5, EmptyFacts DEF SortedBut
<1>7. Depth' = Depth
  BY <1>1 DEF Depth
<1>8. BufferTypes'
  BY <1>1, <1>2, <1>5 DEF BufferTypes, Distinct
<1>9. Counted'
  <2>1. Underway' = Underway
    BY <1>1 DEF Underway
  <2> QED
    BY <1>1, <1>2, <1>4, <1>5, <1>6, <1>7, <2>1 DEF Counted
<1>10. Planned'
  BY <1>1, WorkFacts DEF Planned
<1> QED
  BY <1>6, <1>7, <1>8, <1>9, <1>10 DEF BufferGood

(* The top buffer taken away.                                               *)
LEMMA PopFacts ==
  ASSUME BufferTypes, SortedOn(Levels, Depth), ports # <<>>, ports' = Tail(ports),
         callbacks' = Tail(callbacks), page' = page, text' = [text EXCEPT ![Head(ports)] = <<>>]
  PROVE  /\ ports' \in Seq(Ports) /\ Distinct' /\ callbacks' \in Seq(Kinds) /\ Len(callbacks') = Len(ports')
         /\ text' \in [Ports -> Seq(Nat)] /\ SortedOn(Levels', Depth')
         /\ Held(Levels', Depth') \cup Values(text[Head(ports)]) = Held(Levels, Depth)
<1> DEFINE n == Depth
<1>1. /\ ports \in Seq(Ports) /\ callbacks \in Seq(Kinds) /\ Len(callbacks) = n /\ n = Len(ports) /\ n \in Nat \ {0}
      /\ DOMAIN ports = 1..n /\ text \in [Ports -> Seq(Nat)] /\ n \in 1..n /\ Head(ports) = PortOf(n)
      /\ Levels[n] = text[PortOf(n)] /\ PortOf(n) \in Ports /\ Head(ports) = ports[1]
  <2>1. /\ Depth \in Nat /\ Depth \in 1..Depth /\ Head(ports) = PortOf(Depth) /\ Head(ports) = ports[1]
        /\ Levels[Depth] = text[PortOf(Depth)] /\ PortOf(Depth) \in Ports
    BY LevelFacts
  <2>2. /\ ports \in Seq(Ports) /\ callbacks \in Seq(Kinds) /\ Len(callbacks) = Depth /\ Depth = Len(ports)
        /\ text \in [Ports -> Seq(Nat)]
    BY DEF BufferTypes, Depth
  <2>3. DOMAIN ports = 1..Depth /\ Depth # 0
    BY <2>1, <2>2
  <2> QED
    BY <2>1, <2>2, <2>3
<1>2. /\ ports' \in Seq(Ports) /\ Len(ports') = n - 1 /\ DOMAIN ports' = 1..(n - 1)
      /\ \A i \in 1..(n - 1) : i + 1 \in 1..n /\ ports'[i] = ports[i + 1]
  BY <1>1, TailFacts
<1>3. callbacks # <<>>
  BY <1>1
<1>4. callbacks' \in Seq(Kinds) /\ Len(callbacks') = n - 1
  BY <1>1, <1>3, TailFacts
<1>5. Distinct'
  <2>1. ASSUME NEW i \in 1..(n - 1), NEW j \in 1..(n - 1), ports'[i] = ports'[j] PROVE i = j
    <3>1. ports[i + 1] = ports[j + 1] /\ i + 1 \in DOMAIN ports /\ j + 1 \in DOMAIN ports
      BY <1>1, <1>2, <2>1
    <3>2. i + 1 = j + 1
      BY <3>1 DEF BufferTypes, Distinct
    <3> QED
      BY <3>2
  <2> QED
    BY <1>2, <2>1 DEF Distinct
<1>6. text' \in [Ports -> Seq(Nat)]
  <2>1. <<>> \in Seq(Nat)
    BY NoValues
  <2> QED
    BY <1>1, <2>1
<1>7. Depth' = n - 1
  BY <1>2 DEF Depth
<1>8. ASSUME NEW a \in 0..(n - 1) PROVE Levels'[a] = Levels[a]
  <2>1. Levels' = [b \in 0..(n - 1) |-> IF b = 0 THEN page' ELSE text'[ports'[n - 1 + 1 - b]]]
    BY <1>2, <1>7 DEF Levels, Level
  <2>2. CASE a = 0
    BY <1>1, <2>1, <2>2, LevelFacts
  <2>3. CASE a # 0
    <3> HIDE DEF n
    <3>1. n - 1 + 1 - a \in 1..(n - 1) /\ (n - 1 + 1 - a) + 1 = n + 1 - a /\ n + 1 - a \in 1..n /\ n + 1 - a # 1 /\ 1 \in 1..n
      BY <1>1, <2>3
    <3>2. Levels'[a] = text'[ports[n + 1 - a]]
      BY <1>2, <2>1, <2>3, <3>1
    <3>3. ports[n + 1 - a] # ports[1]
      BY <1>1, <3>1 DEF BufferTypes, Distinct
    <3>4. a \in 0..n /\ Levels[a] = text[ports[n + 1 - a]]
      <4>1. a \in 0..Depth
        BY <1>1 DEF n
      <4> QED
        BY <1>1, <2>3, <4>1 DEF Levels, Level, n
    <3>5. ports[n + 1 - a] \in Ports
      BY <1>1, <3>1, ValuesFacts
    <3> QED
      BY <1>1, <3>2, <3>3, <3>4, <3>5
  <2> QED
    BY <2>2, <2>3
<1>9. SortedOn(Levels', n - 1) /\ Held(Levels', n - 1) \cup Values(Levels[n]) = Held(Levels, n)
  BY <1>1, <1>8, PoppedFacts
<1> QED
  BY <1>1, <1>2, <1>4, <1>5, <1>6, <1>7, <1>9

LEMMA EndCleanStep ==
  ASSUME BufferGood, ObEndClean, ~meddled'
  PROVE  BufferGood'
<1>1. /\ work = <<>> /\ work' = work /\ ports # <<>> /\ ports' = Tail(ports) /\ callbacks' = Tail(callbacks)
      /\ page' = page /\ said' = said /\ text' = [text EXCEPT ![Head(ports)] = <<>>]
      /\ cleaned' = cleaned \cup Values(text[Head(ports)])
  BY DEF ObEndClean, Meddles, ScriptRuns
<1>2. BufferTypes /\ SortedOn(Levels, Depth) /\ Held(Levels, Depth) \cup Underway \cup cleaned = 1..said
  BY DEF BufferGood, Counted
<1>3. /\ ports' \in Seq(Ports) /\ Distinct' /\ callbacks' \in Seq(Kinds) /\ Len(callbacks') = Len(ports')
      /\ text' \in [Ports -> Seq(Nat)] /\ SortedOn(Levels', Depth')
      /\ Held(Levels', Depth') \cup Values(text[Head(ports)]) = Held(Levels, Depth)
  BY <1>1, <1>2, PopFacts
<1>4. BufferTypes'
  BY <1>1, <1>2, <1>3 DEF BufferTypes
<1>5. Counted'
  <2>1. Underway' = Underway
    BY <1>1 DEF Underway
  <2> QED
    BY <1>1, <1>2, <1>3, <2>1 DEF Counted
<1>6. Planned'
  BY <1>1, WorkFacts DEF Planned
<1> QED
  BY <1>3, <1>4, <1>5, <1>6 DEF BufferGood

-----------------------------------------------------------------------------
(* Functions that begin, and the end of a page.                             *)
LEMMA NewWork ==
  ASSUME BufferGood, ports' = ports, callbacks' = callbacks, text' = text, page' = page, said' = said,
         cleaned' = cleaned, work' \in Seq(Item), Underway' = Underway, Planned'
  PROVE  BufferGood'
<1>1. Levels' = Levels /\ Depth' = Depth
  BY SameText
<1>2. BufferTypes'
  BY DEF BufferGood, BufferTypes, Distinct
<1> QED
  BY <1>1, <1>2 DEF BufferGood, Counted

LEMMA ItemsFit ==
  /\ Flush \in Item /\ PopTop \in Item /\ Again \in Item /\ Call \in Item
  /\ Flush.do = "flush" /\ PopTop.do = "pop" /\ Again.do = "again" /\ Call.do = "call"
  BY DEF Item, Flush, PopTop, Again, Call

LEMMA MoveFits ==
  ASSUME NEW from \in Ports, NEW to \in Ports \cup {Page}, NEW cb \in Kinds, NEW x, x = Move(from, to, cb)
  PROVE  x \in Item /\ x.do = "move" /\ x.from = from /\ x.to = to
<1>1. x \in Item
  BY DEF Item
<1> QED
  BY <1>1 DEF Move

LEMMA PutItem ==
  ASSUME NEW to \in Ports \cup {Page}, NEW t \in Seq(Nat), NEW x, x = Put(to, t)
  PROVE  x \in Item /\ x.do = "put" /\ x.to = to /\ x.text = t
<1>1. x \in Item
  BY DEF Item
<1> QED
  BY <1>1 DEF Put

(* A flush, and what takes the top buffer away behind it.                   *)
LEMMA FlushPlanned ==
  ASSUME NEW x \in Item, x.do \in {"pop", "again"}, work' = <<Flush, x>>
  PROVE  work' \in Seq(Item) /\ Underway' = {} /\ Planned'
<1>1. work' \in Seq(Item) /\ Len(work') = 2 /\ DOMAIN work' = 1..2 /\ work'[1] = Flush /\ work'[2] = x
  BY ItemsFit
<1>2. Underway' = {}
  <2>1. \A j \in DOMAIN work' : work'[j].do # "put"
    <3>1. \A j \in 1..2 : j = 1 \/ j = 2
      OBVIOUS
    <3> QED
      BY <1>1, <3>1, ItemsFit
  <2> QED
    BY <2>1 DEF Underway
<1>3. TopGoes'
  <2>1. FlushesTop(work[1])'
    BY <1>1, ItemsFit DEF FlushesTop
  <2> QED
    BY <1>1, <2>1 DEF TopGoes
<1>4. PlannedAt(work, 1)'
  <2>1. \A h \in DOMAIN work' : h > 1 => work'[h].do \in {"pop", "again"}
    <3>1. \A h \in 1..2 : h > 1 => h = 2
      OBVIOUS
    <3> QED
      BY <1>1, <3>1
  <2> QED
    BY <1>1, <2>1, ItemsFit DEF PlannedAt
<1>5. PlannedAt(work, 2)'
  BY <1>1, <1>3 DEF PlannedAt
<1>6. ASSUME NEW j \in DOMAIN work' PROVE PlannedAt(work, j)'
  <2>1. j = 1 \/ j = 2
    BY <1>1
  <2> QED
    BY <1>4, <1>5, <2>1
<1> QED
  BY <1>1, <1>2, <1>6 DEF Planned

LEMMA BeginFacts ==
  ASSUME BufferGood, NEW items \in Seq(Item), Begin(items), ~meddled'
  PROVE  /\ work = <<>> /\ work' = items /\ ports' = ports /\ callbacks' = callbacks /\ text' = text
         /\ page' = page /\ said' = said /\ cleaned' = cleaned /\ Underway = {}
<1>1. work = <<>> /\ work' = items \o work
  BY DEF Begin, Meddles, ScriptRuns
<1>2. items \o <<>> = items
  OBVIOUS
<1> QED
  BY <1>1, <1>2, WorkFacts DEF Begin

LEMMA FlushStep ==
  ASSUME BufferGood, ObFlush, ~meddled'
  PROVE  BufferGood'
<1> DEFINE items == <<Flush>>
<1>1. items \in Seq(Item) /\ Len(items) = 1 /\ DOMAIN items = 1..1 /\ 1..1 = {1} /\ items[1] = Flush
  BY ItemsFit
<1>2. Begin(items)
  BY DEF ObFlush
<1> HIDE DEF items
<1>3. /\ work' = items /\ ports' = ports /\ callbacks' = callbacks /\ text' = text
      /\ page' = page /\ said' = said /\ cleaned' = cleaned /\ Underway = {}
  BY <1>1, <1>2, BeginFacts
<1>4. Underway' = {}
  BY <1>1, <1>3, ItemsFit DEF Underway
<1>5. Planned'
  <2>1. ASSUME NEW j \in DOMAIN work' PROVE PlannedAt(work, j)'
    <3>1. j = 1 /\ work'[j] = Flush /\ \A h \in DOMAIN work' : h = 1
      BY <1>1, <1>3
    <3>2. ~(1 > 1)
      OBVIOUS
    <3> QED
      BY <3>1, <3>2, ItemsFit DEF PlannedAt
  <2> QED
    BY <2>1 DEF Planned
<1> QED
  BY <1>1, <1>3, <1>4, <1>5, NewWork

LEMMA EndFlushStep ==
  ASSUME BufferGood, ObEndFlush, ~meddled'
  PROVE  BufferGood'
<1> DEFINE items == <<Flush, PopTop>>
<1>1. items \in Seq(Item) /\ Begin(items)
  BY ItemsFit DEF ObEndFlush
<1> HIDE DEF items
<1>2. /\ work' = items /\ ports' = ports /\ callbacks' = callbacks /\ text' = text
      /\ page' = page /\ said' = said /\ cleaned' = cleaned /\ Underway = {}
  BY <1>1, BeginFacts
<1>3. Underway' = {} /\ Planned'
  BY <1>2, ItemsFit, FlushPlanned DEF items
<1> QED
  BY <1>1, <1>2, <1>3, NewWork

LEMMA EndPageStep ==
  ASSUME BufferGood, ObEndPage
  PROVE  BufferGood'
<1>1. /\ work = <<>> /\ work' = <<Flush, Again>> /\ ports' = ports /\ callbacks' = callbacks /\ text' = text
      /\ page' = page /\ said' = said /\ cleaned' = cleaned
  BY DEF ObEndPage, ScriptRuns
<1>2. work' \in Seq(Item) /\ Underway' = {} /\ Planned'
  BY <1>1, ItemsFit, FlushPlanned
<1>3. Underway = {}
  BY <1>1, WorkFacts
<1> QED
  BY <1>1, <1>2, <1>3, NewWork

LEMMA FlushAllStep ==
  ASSUME BufferGood, FlushAll, ~meddled'
  PROVE  BufferGood'
<1> DEFINE items == [i \in DOMAIN ports |-> Move(ports[i], NextPort(i), callbacks[i])]
<1>1. BufferTypes /\ ports \in Seq(Ports) /\ Depth = Len(ports) /\ DOMAIN ports = 1..Depth /\ Depth \in Nat
      /\ callbacks \in Seq(Kinds) /\ Len(callbacks) = Depth
  BY LevelFacts DEF BufferGood, BufferTypes, Depth
<1>2. ASSUME NEW i \in 1..Depth
      PROVE  items[i] \in Item /\ items[i].do = "move"
             /\ items[i].from = PortOf(Depth + 1 - i) /\ items[i].to = PortOf(Depth - i)
  <2>1. ports[i] = PortOf(Depth + 1 - i) /\ ports[i] \in Ports /\ NextPort(i) = PortOf(Depth - i)
    BY <1>1, LevelFacts
  <2>2. Depth - i \in 0..Depth
    BY <1>1
  <2>3. NextPort(i) \in Ports \cup {Page}
    BY <1>1, <2>1, <2>2, LevelFacts
  <2>4. callbacks[i] \in Kinds
    BY <1>1
  <2>5. items[i] = Move(ports[i], NextPort(i), callbacks[i])
    BY <1>1
  <2> DEFINE x == ports[i]
             y == NextPort(i)
             z == callbacks[i]
  <2>6. x \in Ports /\ y \in Ports \cup {Page} /\ z \in Kinds /\ items[i] = Move(x, y, z)
        /\ x = PortOf(Depth + 1 - i) /\ y = PortOf(Depth - i)
    BY <2>1, <2>3, <2>4, <2>5
  <2> HIDE DEF items, x, y, z
  <2>7. items[i] \in Item /\ items[i].do = "move" /\ items[i].from = x /\ items[i].to = y
    BY <2>6, MoveFits
  <2> QED
    BY <2>6, <2>7
<1>3. DOMAIN items = 1..Depth
  BY <1>1
<1>4. items \in Seq(Item)
  <2>1. items \in [1..Depth -> Item]
    BY <1>1, <1>2
  <2> HIDE DEF items
  <2> QED
    BY <1>1, <2>1, SeqDef
<1>5. Begin(items)
  BY DEF FlushAll
<1> HIDE DEF items
<1>6. /\ work' = items /\ ports' = ports /\ callbacks' = callbacks /\ text' = text
      /\ page' = page /\ said' = said /\ cleaned' = cleaned /\ Underway = {}
  BY <1>4, <1>5, BeginFacts
<1>7. Underway' = {}
  BY <1>2, <1>3, <1>6 DEF Underway
<1>8. ASSUME NEW j \in DOMAIN work' PROVE PlannedAt(work, j)'
  <2>1. j \in 1..Depth /\ work'[j].do = "move" /\ work'[j].from = PortOf(Depth + 1 - j) /\ work'[j].to = PortOf(Depth - j)
    BY <1>2, <1>3, <1>6
  <2>2. Depth + 1 - j \in 1..Depth /\ (Depth + 1 - j) - 1 = Depth - j /\ Depth - j \in 0..Depth /\ Depth + 1 - j \in 0..Depth
    BY <1>1, <2>1
  <2>3. MovesDown(work[j])'
    <3>1. PICK a \in 1..Depth : a \in 0..Depth /\ a - 1 \in 0..Depth
                               /\ work'[j].from = PortOf(a) /\ work'[j].to = PortOf(a - 1)
      BY <2>1, <2>2
    <3>2. Depth' = Depth /\ PortOf(a)' = PortOf(a) /\ PortOf(a - 1)' = PortOf(a - 1)
      BY <1>1, <1>6, <3>1, SamePorts
    <3> QED
      BY <3>1, <3>2 DEF MovesDown
  <2> QED
    BY <2>1, <2>3 DEF PlannedAt
<1> QED
  BY <1>4, <1>6, <1>7, <1>8, NewWork DEF Planned

-----------------------------------------------------------------------------
(* What the output functions do.                                            *)
LEMMA HeadFacts ==
  ASSUME BufferGood, work # <<>>
  PROVE  /\ 1 \in DOMAIN work /\ work[1] = Head(work) /\ work \in Seq(Item) /\ PlannedAt(work, 1)
         /\ Tail(work) \in Seq(Item) /\ Len(Tail(work)) = Len(work) - 1 /\ Len(work) \in Nat \ {0}
         /\ \A j \in DOMAIN Tail(work) : j + 1 \in DOMAIN work /\ j + 1 > 1 /\ Tail(work)[j] = work[j + 1]
                                         /\ (j + 1 = Len(work) => j = Len(Tail(work)))
         /\ \A i \in DOMAIN work : i > 1 => \E h \in DOMAIN Tail(work) : Tail(work)[h] = work[i]
<1>1. 1 \in DOMAIN work /\ work[1] = Head(work) /\ work \in Seq(Item)
  BY WorkFacts
<1>2. /\ Tail(work) \in Seq(Item) /\ Len(work) \in Nat \ {0}
      /\ Len(Tail(work)) = Len(work) - 1 /\ DOMAIN Tail(work) = 1..(Len(work) - 1)
      /\ \A j \in DOMAIN Tail(work) : j + 1 \in DOMAIN work /\ Tail(work)[j] = work[j + 1]
      /\ \A j \in DOMAIN work : j > 1 => j - 1 \in DOMAIN Tail(work) /\ Tail(work)[j - 1] = work[j]
  BY <1>1, TailFacts
<1>3. \A j \in 1..(Len(work) - 1) : j + 1 > 1 /\ (j + 1 = Len(work) => j = Len(work) - 1)
  <2> DEFINE n == Len(work)
  <2>1. n \in Nat
    BY <1>2
  <2> HIDE DEF n
  <2>2. \A j \in 1..(n - 1) : j + 1 > 1 /\ (j + 1 = n => j = n - 1)
    BY <2>1
  <2> QED
    BY <2>2 DEF n
<1>4. PlannedAt(work, 1)
  BY <1>1 DEF BufferGood, Planned
<1>5. \A i \in DOMAIN work : i > 1 => \E h \in DOMAIN Tail(work) : Tail(work)[h] = work[i]
  BY <1>2
<1> QED
  BY <1>1, <1>2, <1>3, <1>4, <1>5

(* The rest of the list is still right after its first thing is done.       *)
LEMMA TailPlanned ==
  ASSUME BufferGood, work # <<>>, work[1].do # "call", ports' = ports, work' = Tail(work),
         TopDone => TopDone', FlushesTop(work[1]) => TopDone'
  PROVE  work' \in Seq(Item) /\ Underway' = {} /\ Planned'
<1>1. work' \in Seq(Item)
  BY HeadFacts
<1>2. ASSUME NEW j \in DOMAIN work' PROVE work'[j].do \in Later /\ PlannedAt(work, j)'
  <2>1. j + 1 \in DOMAIN work /\ j + 1 > 1 /\ work'[j] = work[j + 1] /\ (j + 1 = Len(work) => j = Len(work'))
    BY <1>2, HeadFacts
  <2>2. work[j + 1].do \in Later
    <3>1. j + 1 # 1
      BY <2>1, WorkFacts
    <3> QED
      BY <2>1, <3>1, Others
  <2>3. \A i \in DOMAIN work : i > 1 => \E h \in DOMAIN work' : work'[h] = work[i]
    BY HeadFacts
  <2>4. FlushesTop(work[1]) => TopGoes'
    BY DEF TopGoes
  <2> QED
    BY <2>1, <2>2, <2>3, <2>4, LeftToDo
<1>3. Underway' = {}
  BY <1>2 DEF Underway, Later
<1> QED
  BY <1>1, <1>2, <1>3 DEF Planned

LEMMA StepFlushGood ==
  ASSUME BufferGood, StepFlush
  PROVE  BufferGood'
<1>1. /\ work # <<>> /\ work[1].do = "flush" /\ ports' = ports /\ callbacks' = callbacks /\ text' = text
      /\ page' = page /\ said' = said /\ cleaned' = cleaned
  BY HeadFacts DEF StepFlush
<1>2. TopDone' <=> TopDone
  BY <1>1, SameText
<1>3. Underway = {}
  BY <1>1, Others
<1>4. CASE ports = <<>>
  <2>1. work' = Tail(work)
    BY <1>4, HeadFacts, <1>1 DEF StepFlush
  <2>2. TopDone'
    BY <1>1, <1>4 DEF TopDone
  <2>3. work' \in Seq(Item) /\ Underway' = {} /\ Planned'
    BY <1>1, <2>1, <2>2, TailPlanned
  <2> QED
    BY <1>1, <1>3, <2>3, NewWork
<1>5. CASE ports # <<>>
  <2> DEFINE x == Move(ports[1], NextPort(1), callbacks[1])
  <2>1. work' = <<x>> \o Tail(work)
    BY <1>5 DEF StepFlush
  <2>2. /\ Depth \in 1..Depth /\ Depth \in 0..Depth /\ Depth - 1 \in 0..Depth /\ Depth \in Nat
        /\ ports[1] = PortOf(Depth) /\ ports[1] \in Ports
        /\ NextPort(1) = PortOf(Depth - 1) /\ NextPort(1) \in Ports \cup {Page}
    <3>1. Depth \in 1..Depth /\ Depth \in Nat /\ Head(ports) = PortOf(Depth) /\ Head(ports) = ports[1]
      BY <1>5, LevelFacts DEF BufferGood
    <3>2. 1 \in 1..Depth /\ Depth - 1 \in 0..Depth /\ Depth \in 0..Depth
      BY <3>1
    <3> QED
      BY <3>1, <3>2, LevelFacts DEF BufferGood
  <2>3. callbacks[1] \in Kinds
    BY <2>2 DEF BufferGood, BufferTypes, Depth
  <2>4. x \in Item /\ x.do = "move" /\ x.from = PortOf(Depth) /\ x.to = PortOf(Depth - 1)
    BY <2>2, <2>3, MoveFits
  <2> HIDE DEF x
  <2>5. /\ work' \in Seq(Item) /\ Len(work') = Len(work) /\ DOMAIN work' = DOMAIN work /\ work'[1] = x /\ 1 \in DOMAIN work
        /\ \A j \in DOMAIN work : j # 1 => work'[j] = work[j] /\ j > 1
    BY <1>1, <2>1, <2>4, HeadFacts, OnTailFacts
  <2>6. Depth' = Depth /\ PortOf(Depth)' = PortOf(Depth) /\ \A a \in 0..Depth : PortOf(a)' = PortOf(a)
    BY <1>1, <2>2, SamePorts DEF BufferGood
  <2>7. FlushesTop(work[1])'
    BY <2>4, <2>5, <2>6 DEF FlushesTop
  <2>8. TopGoes'
    BY <2>5, <2>7 DEF TopGoes
  <2>9. PlannedAt(work, 1)'
    <3>1. MovesDown(work[1])'
      <4>1. PICK a \in 1..Depth : a = Depth /\ a \in 0..Depth /\ a - 1 \in 0..Depth
        BY <2>2
      <4>2. work'[1].from = PortOf(a)' /\ work'[1].to = PortOf(a - 1)' /\ a \in 1..Depth'
        BY <2>4, <2>5, <2>6, <4>1
      <4> QED
        BY <4>2 DEF MovesDown
    <3> QED
      BY <2>4, <2>5, <3>1 DEF PlannedAt
  <2>10. ASSUME NEW j \in DOMAIN work', j # 1 PROVE work[j].do \in Later /\ PlannedAt(work, j)'
    <3>1. j \in DOMAIN work /\ j > 1 /\ work'[j] = work[j]
      BY <2>5, <2>10
    <3>2. work[j].do \in Later
      BY <1>1, <2>10, <3>1, Others
    <3>3. \A i \in DOMAIN work : i > 1 => \E h \in DOMAIN work' : work'[h] = work[i]
      <4> SUFFICES ASSUME NEW i \in DOMAIN work, i > 1 PROVE \E h \in DOMAIN work' : work'[h] = work[i]
        OBVIOUS
      <4>1. i # 1
        BY WorkFacts
      <4> QED
        BY <2>5, <4>1
    <3> QED
      BY <1>1, <1>2, <2>5, <2>8, <3>1, <3>2, <3>3, LeftToDo
  <2>11. Planned'
    BY <2>9, <2>10 DEF Planned
  <2>12. Underway' = {}
    <3>1. \A j \in DOMAIN work' : work'[j].do # "put"
      BY <2>4, <2>5, <2>10 DEF Later
    <3> QED
      BY <3>1 DEF Underway
  <2> QED
    BY <1>1, <1>3, <2>5, <2>11, <2>12, NewWork
<1> QED
  BY <1>4, <1>5

LEMMA StepMoveGood ==
  ASSUME BufferGood, StepMove
  PROVE  BufferGood'
<1>1. /\ work # <<>> /\ work[1].do = "move" /\ Head(work) = work[1] /\ PlannedAt(work, 1) /\ work' = Tail(work)
      /\ ports' = ports /\ callbacks' = callbacks /\ said' = said /\ cleaned' = cleaned
  BY HeadFacts DEF StepMove
<1>2. BufferTypes /\ SortedOn(Levels, Depth) /\ Held(Levels, Depth) \cup Underway \cup cleaned = 1..said
  BY DEF BufferGood, Counted
<1>3. PICK a \in 1..Depth : work[1].from = PortOf(a) /\ work[1].to = PortOf(a - 1)
  BY <1>1 DEF PlannedAt, MovesDown
<1> DEFINE t == Levels[a]
           M == [b \in 0..Depth |-> IF b = a THEN <<>> ELSE Levels[b]]
<1>4. /\ Depth \in Nat /\ a \in 0..Depth /\ a - 1 \in 0..Depth /\ a > 0 /\ a - 1 # a /\ a - 1 < Depth /\ a # 0
      /\ Depth' = Depth
  <2>1. Depth \in Nat
    BY <1>2, LevelFacts
  <2> QED
    BY <1>1, <2>1 DEF Depth
<1>5. EmptyOn(Levels, Depth, a, M)
  BY DEF EmptyOn
<1>6. /\ SortedOn(M, Depth) /\ Held(M, Depth) \cup Values(t) = Held(Levels, Depth) /\ t \in Seq(Nat)
      /\ Fits(M, Depth, a - 1, t)
  BY <1>2, <1>4, <1>5, EmptyFacts DEF SortedBut
<1>7. t = text[PortOf(a)] /\ PortOf(a) \in Ports /\ text \in [Ports -> Seq(Nat)] /\ page \in Seq(Nat)
  BY <1>2, LevelFacts DEF BufferTypes
<1>8. /\ page' = IF PortOf(a - 1) = Page THEN page \o t ELSE page
      /\ text' = [p \in Ports |-> IF p = PortOf(a) THEN <<>>
                                  ELSE IF p = PortOf(a - 1) THEN text[p] \o t ELSE text[p]]
  BY <1>1, <1>3, <1>7 DEF StepMove
<1> HIDE DEF t
<1>9. PutOn(M, Depth, a - 1, t, Levels')
  <2>1. ASSUME NEW b \in 0..Depth PROVE Levels'[b] = IF b = a - 1 THEN M[a - 1] \o t ELSE M[b]
    <3>1. CASE b = 0
      <4>1. Levels'[b] = page' /\ Levels[b] = page /\ (PortOf(a - 1) = Page <=> a - 1 = 0)
        BY <1>1, <1>2, <1>4, <3>1, LevelFacts, SamePorts
      <4>2. M[b] = page /\ (b = a - 1 => M[a - 1] = page)
        BY <1>4, <3>1, <4>1
      <4> QED
        BY <1>8, <3>1, <4>1, <4>2
    <3>2. CASE b # 0
      <4>1. b \in 1..Depth
        BY <1>4, <3>2
      <4>2. Levels'[b] = text'[PortOf(b)] /\ Levels[b] = text[PortOf(b)] /\ PortOf(b) \in Ports
        BY <1>1, <1>2, <4>1, LevelFacts, SamePorts
      <4>3. (PortOf(b) = PortOf(a) <=> b = a) /\ (PortOf(b) = PortOf(a - 1) <=> b = a - 1)
        BY <1>2, <1>4, LevelFacts
      <4>4. Levels'[b] = IF b = a THEN <<>> ELSE IF b = a - 1 THEN Levels[b] \o t ELSE Levels[b]
        BY <1>8, <4>2, <4>3
      <4>5. M[b] = IF b = a THEN <<>> ELSE Levels[b]
        OBVIOUS
      <4> HIDE DEF M
      <4> QED
        BY <1>4, <4>4, <4>5
    <3> QED
      BY <3>1, <3>2
  <2> HIDE DEF M
  <2> QED
    BY <2>1 DEF PutOn
<1> HIDE DEF M
<1>10. SortedOn(Levels', Depth) /\ Held(Levels', Depth) = Held(Levels, Depth)
  <2>1. SortedWith(M, Depth, t, Levels')
    BY <1>4, <1>6, <1>9, PutFacts
  <2> QED
    BY <1>6, <2>1 DEF SortedWith
<1>11. text' \in [Ports -> Seq(Nat)] /\ page' \in Seq(Nat)
  <2>1. page \o t \in Seq(Nat) /\ \A p \in Ports : text[p] \o t \in Seq(Nat) /\ text[p] \in Seq(Nat)
    BY <1>6, <1>7
  <2>2. <<>> \in Seq(Nat)
    OBVIOUS
  <2> QED
    BY <1>7, <1>8, <2>1, <2>2
<1>12. (TopDone => TopDone') /\ (FlushesTop(work[1]) => TopDone')
  <2>1. CASE ports = <<>>
    BY <1>1, <2>1 DEF TopDone
  <2>2. CASE ports # <<>>
    <3>1. Head(ports) = PortOf(Depth) /\ Depth \in 0..Depth /\ PortOf(Depth) \in Ports
      BY <1>2, <1>4, <2>2, LevelFacts
    <3>2. PortOf(Depth) # PortOf(a - 1)
      BY <1>2, <1>4, <3>1, LevelFacts
    <3>3. text'[Head(ports)] = IF PortOf(Depth) = PortOf(a) THEN <<>> ELSE text[Head(ports)]
      BY <1>8, <3>1, <3>2
    <3>4. FlushesTop(work[1]) => PortOf(Depth) = PortOf(a)
      BY <1>1, <1>3 DEF FlushesTop
    <3> QED
      BY <1>1, <3>3, <3>4, NoValues DEF TopDone
  <2> QED
    BY <2>1, <2>2
<1>13. work' \in Seq(Item) /\ Underway' = {} /\ Planned'
  BY <1>1, <1>12, TailPlanned
<1>14. Underway = {}
  BY <1>1, Others DEF Later
<1>15. BufferTypes'
  BY <1>1, <1>2, <1>11, <1>13 DEF BufferTypes, Distinct
<1>16. Counted'
  BY <1>1, <1>2, <1>4, <1>10, <1>13, <1>14 DEF Counted
<1> QED
  BY <1>4, <1>10, <1>13, <1>15, <1>16 DEF BufferGood

LEMMA StepCallGood ==
  ASSUME BufferGood, StepCall
  PROVE  BufferGood'
<1>1. /\ work # <<>> /\ work[1].do = "move" /\ Head(work) = work[1] /\ PlannedAt(work, 1)
      /\ ports' = ports /\ callbacks' = callbacks /\ said' = said /\ cleaned' = cleaned /\ page' = page
  BY HeadFacts DEF StepCall
<1>2. BufferTypes /\ SortedOn(Levels, Depth) /\ Held(Levels, Depth) \cup Underway \cup cleaned = 1..said
  BY DEF BufferGood, Counted
<1>3. PICK a \in 1..Depth : work[1].from = PortOf(a) /\ work[1].to = PortOf(a - 1)
  BY <1>1 DEF PlannedAt, MovesDown
<1> DEFINE t == Levels[a]
           to == PortOf(a - 1)
           x == Put(to, t)
<1>4. /\ Depth \in Nat /\ a \in 0..Depth /\ a - 1 \in 0..Depth /\ a > 0 /\ a - 1 \in 0..(Depth - 1)
      /\ Depth' = Depth /\ \A b \in 0..Depth : PortOf(b)' = PortOf(b)
  <2>1. Depth \in Nat /\ Depth' = Depth /\ \A b \in 0..Depth : PortOf(b)' = PortOf(b)
    BY <1>1, <1>2, LevelFacts, SamePorts
  <2> QED
    BY <2>1
<1>5. t = text[PortOf(a)] /\ PortOf(a) \in Ports /\ to \in Ports \cup {Page} /\ t \in Seq(Nat)
  BY <1>2, <1>4, LevelFacts DEF SortedOn
<1>6. text' = [text EXCEPT ![PortOf(a)] = <<>>] /\ work' = <<Call, x>> \o Tail(work)
  BY <1>1, <1>3, <1>5 DEF StepCall
<1>7. EmptyOn(Levels, Depth, a, Levels') /\ text' \in [Ports -> Seq(Nat)]
  BY <1>1, <1>2, <1>6, TextTaken
<1>8. /\ SortedOn(Levels', Depth) /\ Held(Levels', Depth) \cup Values(t) = Held(Levels, Depth)
      /\ Fits(Levels', Depth, a - 1, t)
  BY <1>2, <1>4, <1>7, EmptyFacts DEF SortedBut
<1> HIDE DEF t
<1>9. x \in Item /\ x.do = "put" /\ x.to = to /\ x.text = t /\ Call \in Item /\ Call.do = "call"
  <2>1. x = Put(to, t)
    OBVIOUS
  <2> HIDE DEF x
  <2>2. x \in Item /\ x.do = "put" /\ x.to = to /\ x.text = t
    <3>1. to \in Ports \cup {Page} /\ t \in Seq(Nat)
      BY <1>5
    <3> HIDE DEF to
    <3> QED
      BY <2>1, <3>1, PutItem
  <2> QED
    BY <2>2, ItemsFit
<1> HIDE DEF x
<1>10. /\ work' \in Seq(Item) /\ Len(work') = Len(work) + 1 /\ DOMAIN work' = 1..(Len(work) + 1)
       /\ work'[1] = Call /\ work'[2] = x
       /\ \A j \in DOMAIN work' : j \notin {1, 2} => j - 1 \in DOMAIN work /\ j - 1 > 1 /\ work'[j] = work[j - 1]
       /\ \A j \in DOMAIN work : j > 1 => j + 1 \in DOMAIN work' /\ work'[j + 1] = work[j]
  <2>1. work \in Seq(Item)
    BY <1>1, HeadFacts
  <2>2. TwoOnTail(work, Call, x, work')
    BY <1>6 DEF TwoOnTail
  <2> QED
    BY <1>1, <1>9, <2>1, <2>2, TwoOnTailFacts
<1>11. Len(work) \in Nat \ {0} /\ 1 \in DOMAIN work' /\ 2 \in DOMAIN work'
  BY <1>1, <1>10, HeadFacts
<1>12. PutFits(work[2])'
  <2>1. work'[2].to = PortOf(a - 1)' /\ a - 1 \in 0..(Depth' - 1) /\ work'[2].text = t
    BY <1>4, <1>9, <1>10
  <2> QED
    BY <1>4, <1>8, <2>1 DEF PutFits
<1>13. (TopDone => TopDone') /\ (FlushesTop(work[1]) => TopDone')
  <2>1. CASE ports = <<>>
    BY <1>1, <2>1 DEF TopDone
  <2>2. CASE ports # <<>>
    <3>1. Head(ports) = PortOf(Depth) /\ Depth \in 0..Depth /\ PortOf(Depth) \in Ports
      BY <1>2, <1>4, <2>2, LevelFacts
    <3>2. text'[Head(ports)] = IF PortOf(Depth) = PortOf(a) THEN <<>> ELSE text[Head(ports)]
      BY <1>2, <1>6, <3>1 DEF BufferTypes
    <3>3. FlushesTop(work[1]) => PortOf(Depth) = PortOf(a)
      BY <1>1, <1>3 DEF FlushesTop
    <3> QED
      BY <1>1, <3>2, <3>3, NoValues DEF TopDone
  <2> QED
    BY <2>1, <2>2
<1>14. PlannedAt(work, 1)'
  BY <1>9, <1>10, <1>11 DEF PlannedAt
<1>15. PlannedAt(work, 2)'
  BY <1>9, <1>10, <1>12 DEF PlannedAt
<1>16. ASSUME NEW j \in DOMAIN work', j \notin {1, 2} PROVE work'[j].do \in Later /\ PlannedAt(work, j)'
  <2>1. j - 1 \in DOMAIN work /\ j - 1 > 1 /\ j - 1 # 1 /\ work'[j] = work[j - 1]
    BY <1>10, <1>16, WorkFacts
  <2>2. work[j - 1].do \in Later
    BY <1>1, <2>1, Others
  <2>3. j - 1 = Len(work) => j = Len(work')
    BY <1>10, <1>11, <1>16
  <2>4. \A i \in DOMAIN work : i > 1 => \E h \in DOMAIN work' : work'[h] = work[i]
    BY <1>10
  <2>5. FlushesTop(work[1]) => TopGoes'
    BY <1>13 DEF TopGoes
  <2> QED
    BY <1>1, <1>13, <2>1, <2>2, <2>3, <2>4, <2>5, LeftToDo
<1>17. Planned'
  BY <1>14, <1>15, <1>16 DEF Planned
<1>18. Underway' = Values(t) /\ Underway = {}
  <2>1. \A j \in DOMAIN work' : work'[j].do = "put" => j = 2
    BY <1>9, <1>10, <1>16 DEF Later
  <2>2. {j \in DOMAIN work' : work'[j].do = "put"} = {2}
    BY <1>9, <1>10, <1>11, <2>1
  <2>3. Underway' = Values(t)
    BY <1>9, <1>10, <2>2 DEF Underway
  <2> QED
    BY <1>1, <2>3, Others DEF Later
<1>19. BufferTypes'
  BY <1>1, <1>2, <1>7, <1>10 DEF BufferTypes, Distinct
<1>20. Counted'
  BY <1>1, <1>2, <1>4, <1>8, <1>18 DEF Counted
<1> QED
  BY <1>4, <1>8, <1>17, <1>19, <1>20 DEF BufferGood

LEMMA CallbackReturnsGood ==
  ASSUME BufferGood, CallbackReturns
  PROVE  BufferGood'
<1>1. /\ work # <<>> /\ work[1].do = "call" /\ work' = Tail(work) /\ ports' = ports /\ callbacks' = callbacks
      /\ text' = text /\ page' = page /\ said' = said /\ cleaned' = cleaned
  BY HeadFacts DEF CallbackReturns, InCallback
<1>2. 2 \in DOMAIN work /\ work[2].do = "put" /\ Underway = Values(work[2].text)
  BY <1>1, Others
<1>3. /\ work' \in Seq(Item)
      /\ \A j \in DOMAIN work' : j + 1 \in DOMAIN work /\ j + 1 > 1 /\ work'[j] = work[j + 1]
                                 /\ (j + 1 = Len(work) => j = Len(work'))
      /\ \A i \in DOMAIN work : i > 1 => \E h \in DOMAIN work' : work'[h] = work[i]
  BY <1>1, HeadFacts
<1>4. 1 \in DOMAIN work' /\ work'[1] = work[2]
  <2>1. DOMAIN work = 1..Len(work) /\ Len(work) \in Nat /\ Len(work') = Len(work) - 1 /\ DOMAIN work' = 1..Len(work')
    BY <1>1, <1>3, HeadFacts, WorkFacts
  <2>2. 1 \in DOMAIN work'
    BY <1>2, <2>1
  <2> QED
    BY <1>3, <2>2
<1>5. TopDone' <=> TopDone
  BY <1>1, SameText
<1>6. Levels' = Levels /\ Depth' = Depth /\ Depth \in Nat /\ \A a \in 0..Depth : PortOf(a)' = PortOf(a)
  BY <1>1, SameText, SamePorts, LevelFacts DEF BufferGood
<1>7. PlannedAt(work, 1)'
  <2>1. PICK a \in 0..(Depth - 1) : work[2].to = PortOf(a) /\ Fits(Levels, Depth, a, work[2].text)
    BY <1>2 DEF BufferGood, Planned, PlannedAt, PutFits
  <2>2. a \in 0..Depth
    BY <1>6
  <2>3. work'[1].to = PortOf(a)' /\ Fits(Levels', Depth', a, work'[1].text) /\ a \in 0..(Depth' - 1)
    BY <1>4, <1>6, <2>1, <2>2
  <2>4. PutFits(work[1])'
    BY <2>3 DEF PutFits
  <2> QED
    BY <1>2, <1>4, <2>4 DEF PlannedAt
<1>8. ASSUME NEW j \in DOMAIN work', j # 1 PROVE work'[j].do \in Later /\ PlannedAt(work, j)'
  <2>1. j + 1 \in DOMAIN work /\ j + 1 > 1 /\ j + 1 # 2 /\ j + 1 # 1 /\ work'[j] = work[j + 1]
        /\ (j + 1 = Len(work) => j = Len(work'))
    <3>1. j + 1 \in DOMAIN work /\ j + 1 > 1 /\ work'[j] = work[j + 1] /\ (j + 1 = Len(work) => j = Len(work'))
      BY <1>3, <1>8
    <3>2. j \in Nat
      BY <1>3, <1>8
    <3> QED
      BY <1>8, <3>1, <3>2
  <2>2. work[j + 1].do \in Later
    BY <1>1, <2>1, Others
  <2>3. FlushesTop(work[1]) => TopGoes'
    BY <1>1 DEF FlushesTop
  <2> QED
    BY <1>1, <1>3, <1>5, <2>1, <2>2, <2>3, LeftToDo
<1>9. Planned'
  BY <1>7, <1>8 DEF Planned
<1>10. Underway' = Underway
  <2>1. \A j \in DOMAIN work' : work'[j].do = "put" => j = 1
    BY <1>8 DEF Later
  <2>2. {j \in DOMAIN work' : work'[j].do = "put"} = {1}
    BY <1>2, <1>4, <2>1
  <2> QED
    BY <1>2, <1>4, <2>2 DEF Underway
<1> QED
  BY <1>1, <1>3, <1>9, <1>10, NewWork

LEMMA StepPutGood ==
  ASSUME BufferGood, StepPut
  PROVE  BufferGood'
<1>1. /\ work # <<>> /\ work[1].do = "put" /\ Head(work) = work[1] /\ PlannedAt(work, 1) /\ work' = Tail(work)
      /\ ports' = ports /\ callbacks' = callbacks /\ said' = said /\ cleaned' = cleaned
  BY HeadFacts DEF StepPut
<1>2. BufferTypes /\ SortedOn(Levels, Depth) /\ Held(Levels, Depth) \cup Underway \cup cleaned = 1..said
  BY DEF BufferGood, Counted
<1> DEFINE t == work[1].text
<1>3. PICK a \in 0..(Depth - 1) : work[1].to = PortOf(a) /\ Fits(Levels, Depth, a, t)
  BY <1>1 DEF PlannedAt, PutFits
<1>4. Depth \in Nat /\ a \in 0..Depth /\ a # Depth /\ Depth' = Depth /\ t \in Seq(Nat)
  <2>1. Depth \in Nat
    BY <1>2, LevelFacts
  <2> QED
    BY <1>1, <1>3, <2>1 DEF Depth, Fits
<1>5. PortOf(a) = Page <=> a = 0
  <2>1. 0 \in 0..Depth
    BY <1>4
  <2> QED
    BY <1>2, <1>4, <2>1, LevelFacts
<1>6. IF a = 0 THEN page' = page \o t /\ text' = text
      ELSE page' = page /\ text' = [text EXCEPT ![PortOf(a)] = @ \o t]
  BY <1>1, <1>3, <1>5 DEF StepPut
<1>7. Underway = Values(t)
  BY <1>1, Others
<1> HIDE DEF t
<1>8. PutOn(Levels, Depth, a, t, Levels') /\ text' \in [Ports -> Seq(Nat)] /\ page' \in Seq(Nat)
  BY <1>1, <1>2, <1>4, <1>6, TextPut
<1>9. SortedOn(Levels', Depth) /\ Held(Levels', Depth) = Held(Levels, Depth) \cup Values(t)
  <2>1. SortedWith(Levels, Depth, t, Levels')
    BY <1>2, <1>3, <1>4, <1>8, PutFacts
  <2> QED
    BY <2>1 DEF SortedWith
<1>10. TopDone => TopDone'
  <2>1. CASE ports = <<>>
    BY <1>1, <2>1 DEF TopDone
  <2>2. CASE ports # <<>>
    <3>1. Head(ports) = PortOf(Depth) /\ Depth \in 1..Depth /\ Depth \in 0..Depth
      BY <1>2, <1>4, <2>2, LevelFacts
    <3>2. text'[Head(ports)] = Levels'[Depth] /\ text[Head(ports)] = Levels[Depth]
      BY <1>1, <1>2, <3>1, LevelFacts, SamePorts
    <3>3. Levels'[Depth] = Levels[Depth]
      BY <1>4, <1>8, <3>1 DEF PutOn
    <3> QED
      BY <1>1, <3>2, <3>3 DEF TopDone
  <2> QED
    BY <2>1, <2>2
<1>11. work' \in Seq(Item) /\ Underway' = {} /\ Planned'
  <2>1. ~FlushesTop(work[1]) /\ work[1].do # "call"
    BY <1>1 DEF FlushesTop
  <2> QED
    BY <1>1, <1>10, <2>1, TailPlanned
<1>12. BufferTypes'
  BY <1>1, <1>2, <1>8, <1>11 DEF BufferTypes, Distinct
<1>13. Counted'
  BY <1>1, <1>2, <1>4, <1>7, <1>9, <1>11 DEF Counted
<1> QED
  BY <1>4, <1>9, <1>11, <1>12, <1>13 DEF BufferGood

LEMMA StepPopGood ==
  ASSUME BufferGood, StepPop
  PROVE  BufferGood'
<1>1. /\ work # <<>> /\ work[1].do \in {"pop", "again"} /\ PlannedAt(work, 1)
      /\ page' = page /\ said' = said /\ cleaned' = cleaned
      /\ work' = (IF work[1].do = "again" /\ ports # <<>> THEN <<Flush, Again>> ELSE <<>>) \o Tail(work)
  BY HeadFacts DEF StepPop
<1>2. BufferTypes /\ SortedOn(Levels, Depth) /\ Held(Levels, Depth) \cup Underway \cup cleaned = 1..said
  BY DEF BufferGood, Counted
<1>3. Len(work) = 1 /\ Underway = {} /\ Tail(work) = <<>>
  <2>1. Len(work) = 1 /\ Underway = {}
    BY <1>1, Others DEF Later
  <2>2. Tail(work) \in Seq(Item) /\ Len(Tail(work)) = 0
    BY <1>1, <2>1, HeadFacts
  <2>3. Tail(work) = <<>>
    BY <2>2, EmptySeq
  <2> QED
    BY <2>1, <2>3
<1>4. TopDone
  <2>1. \A h \in DOMAIN work : h = 1
    BY <1>3, WorkFacts
  <2>2. \A h \in DOMAIN work : ~FlushesTop(work[h])
    BY <1>1, <2>1 DEF FlushesTop
  <2> QED
    BY <1>1, <2>2 DEF PlannedAt, TopGoes
<1>5. work' = <<Flush, Again>> \/ work' = <<>>
  <2>1. <<Flush, Again>> \o <<>> = <<Flush, Again>> /\ <<>> \o <<>> = <<>>
    OBVIOUS
  <2> QED
    BY <1>1, <1>3, <2>1
<1>6. work' \in Seq(Item) /\ Underway' = {} /\ Planned'
  <2>1. CASE work' = <<Flush, Again>>
    BY <2>1, ItemsFit, FlushPlanned
  <2>2. CASE work' = <<>>
    <3>1. DOMAIN work' = {} /\ work' \in Seq(Item)
      BY <2>2
    <3> QED
      BY <3>1 DEF Planned, Underway
  <2> QED
    BY <1>5, <2>1, <2>2
<1>7. CASE ports = <<>>
  <2>1. ports' = ports /\ callbacks' = callbacks /\ text' = text
    BY <1>7 DEF StepPop
  <2> QED
    BY <1>1, <1>3, <1>6, <2>1, NewWork
<1>8. CASE ports # <<>>
  <2>1. ports' = Tail(ports) /\ callbacks' = Tail(callbacks) /\ text' = [text EXCEPT ![Head(ports)] = <<>>]
    BY <1>8 DEF StepPop
  <2>2. /\ ports' \in Seq(Ports) /\ Distinct' /\ callbacks' \in Seq(Kinds) /\ Len(callbacks') = Len(ports')
        /\ text' \in [Ports -> Seq(Nat)] /\ SortedOn(Levels', Depth')
        /\ Held(Levels', Depth') \cup Values(text[Head(ports)]) = Held(Levels, Depth)
    BY <1>1, <1>2, <1>8, <2>1, PopFacts
  <2>3. BufferTypes'
    BY <1>1, <1>2, <1>6, <2>2 DEF BufferTypes
  <2>4. Values(text[Head(ports)]) \subseteq cleaned
    BY <1>4, <1>8 DEF TopDone
  <2>5. Counted'
    BY <1>1, <1>2, <1>3, <1>6, <2>2, <2>4 DEF Counted
  <2> QED
    BY <1>6, <2>2, <2>3, <2>5 DEF BufferGood
<1> QED
  BY <1>7, <1>8

(* A page with nothing on it, at the start and after each page.             *)
LEMMA EmptyPage ==
  ASSUME ports = <<>>, callbacks = <<>>, text = [p \in Ports |-> <<>>], page = <<>>, work = <<>>,
         said = 0, cleaned = {}
  PROVE  BufferGood
<1>1. BufferTypes
  BY NoValues DEF BufferTypes, Distinct
<1>2. Depth = 0
  BY DEF Depth
<1>3. Levels[0] = <<>> /\ 0..0 = {0}
  BY <1>1, LevelFacts
<1>4. SortedOn(Levels, 0)
  BY <1>3, NoValues DEF SortedOn
<1>5. Held(Levels, 0) = {}
  BY <1>3, NoValues DEF Held
<1>6. DOMAIN work = {} /\ 1..said = {}
  BY SMT
<1>7. Underway = {} /\ Planned
  BY <1>6 DEF Underway, Planned
<1> QED
  BY <1>1, <1>2, <1>4, <1>5, <1>6, <1>7 DEF BufferGood, Counted

LEMMA BufferStarts ==
  BufferInit => BufferInv
<1> SUFFICES ASSUME BufferInit PROVE BufferGood
  BY DEF BufferInv
<1> QED
  BY EmptyPage DEF BufferInit

LEMMA ResetStep ==
  ASSUME ObReset
  PROVE  BufferGood'
<1>1. /\ ports' = <<>> /\ callbacks' = <<>> /\ text' = [p \in Ports |-> <<>>] /\ page' = <<>>
      /\ work' = <<>> /\ said' = 0 /\ cleaned' = {}
  BY DEF ObReset
<1>2. BufferTypes'
  BY <1>1, NoValues DEF BufferTypes, Distinct
<1>3. Depth' = 0
  BY <1>1 DEF Depth
<1>4. Levels'[0] = <<>> /\ 0..0 = {0}
  <2>1. Levels' = [a \in 0..0 |-> Level(a)']
    BY <1>3 DEF Levels
  <2>2. Levels'[0] = page'
    BY <2>1 DEF Level
  <2> QED
    BY <1>1, <2>2
<1>5. SortedOn(Levels', 0)
  BY <1>4, NoValues DEF SortedOn
<1>6. Held(Levels', 0) = {}
  BY <1>4, NoValues DEF Held
<1>7. DOMAIN work' = {}
  BY <1>1
<1>8. 1..said' = {}
  <2>1. 1..0 = {}
    OBVIOUS
  <2> QED
    BY <1>1, <2>1
<1>9. Underway' = {} /\ Planned'
  BY <1>7 DEF Underway, Planned
<1> QED
  BY <1>1, <1>2, <1>3, <1>5, <1>6, <1>8, <1>9 DEF BufferGood, Counted

LEMMA BufferUnchanged ==
  ASSUME BufferGood, UNCHANGED buffering
  PROVE  BufferGood'
<1>1. /\ ports' = ports /\ callbacks' = callbacks /\ text' = text /\ page' = page
      /\ work' = work /\ said' = said /\ cleaned' = cleaned
  BY DEF buffering
<1>2. Levels' = Levels /\ Depth' = Depth /\ (TopDone' <=> TopDone)
  BY <1>1, SameText
<1>3. \A a \in 0..Depth : PortOf(a)' = PortOf(a)
  BY <1>1, SamePorts DEF BufferGood
<1>4. Planned'
  <2> SUFFICES ASSUME NEW j \in DOMAIN work' PROVE PlannedAt(work, j)'
    BY DEF Planned
  <2>1. j \in DOMAIN work /\ PlannedAt(work, j) /\ Depth \in Nat
    BY <1>1, LevelFacts DEF BufferGood, Planned
  <2>2. work[j].do = "put" => PutFits(work[j])'
    <3> SUFFICES ASSUME work[j].do = "put" PROVE PutFits(work[j])'
      OBVIOUS
    <3>1. PICK a \in 0..(Depth - 1) : work[j].to = PortOf(a) /\ Fits(Levels, Depth, a, work[j].text)
      BY <2>1 DEF PlannedAt, PutFits
    <3>2. work'[j].to = PortOf(a)' /\ Fits(Levels', Depth', a, work'[j].text) /\ a \in 0..(Depth' - 1)
      BY <1>1, <1>2, <1>3, <2>1, <3>1
    <3> QED
      BY <3>2 DEF PutFits
  <2>3. work[j].do = "move" => MovesDown(work[j])'
    <3> SUFFICES ASSUME work[j].do = "move" PROVE MovesDown(work[j])'
      OBVIOUS
    <3>1. PICK a \in 1..Depth : work[j].from = PortOf(a) /\ work[j].to = PortOf(a - 1)
      BY <2>1 DEF PlannedAt, MovesDown
    <3>2. a \in 0..Depth /\ a - 1 \in 0..Depth
      BY <2>1
    <3>3. work'[j].from = PortOf(a)' /\ work'[j].to = PortOf(a - 1)' /\ a \in 1..Depth'
      BY <1>1, <1>2, <1>3, <3>1, <3>2
    <3> QED
      BY <3>3 DEF MovesDown
  <2>4. TopGoes => TopGoes'
    <3>1. Depth \in 0..Depth
      BY <2>1
    <3>2. ASSUME NEW h \in DOMAIN work, FlushesTop(work[h]) PROVE FlushesTop(work[h])'
      BY <1>1, <1>2, <1>3, <3>1, <3>2 DEF FlushesTop
    <3> QED
      BY <1>1, <1>2, <3>2 DEF TopGoes
  <2> QED
    BY <1>1, <2>1, <2>2, <2>3, <2>4 DEF PlannedAt
<1>5. Underway' = Underway
  BY <1>1 DEF Underway
<1> QED
  BY <1>1, <1>4, <1>5, NewWork DEF BufferGood, BufferTypes

(* A callback that changes the stacks, or fails, is where it ends.          *)
LEMMA OnceMeddled ==
  ASSUME meddled, [BufferNext]_buffering
  PROVE  meddled' \/ ObReset
<1>1. CASE Script
  <2>1. ASSUME NEW items, Begin(items) PROVE meddled'
    BY <2>1 DEF Begin, Meddles
  <2> QED
    BY <1>1, <2>1 DEF Script, ObEcho, ObStart, ObClean, ObEndClean, ObFlush, ObEndFlush, FlushAll, Meddles
<1>2. CASE ObEndPage
  BY <1>2 DEF ObEndPage
<1>3. CASE BufferStep
  BY <1>3 DEF BufferStep, StepFlush, StepMove, StepCall, StepRaise, StepPut, StepPop, CallbackReturns
<1>4. CASE UNCHANGED buffering
  BY <1>4 DEF buffering
<1> QED
  BY <1>1, <1>2, <1>3, <1>4 DEF BufferNext

LEMMA BufferKept ==
  BufferInv /\ [BufferNext]_buffering => BufferInv'
<1> SUFFICES ASSUME BufferInv, [BufferNext]_buffering, ~meddled' PROVE BufferGood'
  BY DEF BufferInv
<1>1. CASE ObReset
  BY <1>1, ResetStep
<1>2. CASE ~ObReset
  <2>1. BufferGood
    BY <1>2, OnceMeddled DEF BufferInv
  <2>2. CASE Script
    BY <2>1, <2>2, EchoStep, StartStep, CleanStep, EndCleanStep, FlushStep, EndFlushStep, FlushAllStep DEF Script
  <2>3. CASE ObEndPage
    BY <2>1, <2>3, EndPageStep
  <2>4. CASE BufferStep
    <3>1. ~StepRaise
      BY DEF StepRaise
    <3> QED
      BY <1>2, <2>1, <2>4, <3>1, StepFlushGood, StepMoveGood, StepCallGood, StepPutGood, StepPopGood,
         CallbackReturnsGood DEF BufferStep
  <2>5. CASE UNCHANGED buffering
    BY <2>1, <2>5, BufferUnchanged
  <2> QED
    BY <2>2, <2>3, <2>4, <2>5 DEF BufferNext
<1> QED
  BY <1>1, <1>2

(* For any number of buffers, echoes and nested calls: whatever the script  *)
(* flushes, nests, cleans and ends, what a page has said and not cleaned    *)
(* comes out once and in the order it was said, as long as callbacks leave  *)
(* the stacks alone and do not fail (output-buffering.scm).                 *)
THEOREM FlowInOrder == BufferSpec => []OnceInOrder
<1>1. BufferInit => BufferInv
  BY BufferStarts
<1>2. BufferInv /\ [BufferNext]_buffering => BufferInv'
  BY BufferKept
<1>3. BufferInv => OnceInOrder
  BY GoodFlow
<1> QED
  BY <1>1, <1>2, <1>3, PTL DEF BufferSpec
=============================================================================
