------------------------- MODULE SessionFilesProofs -------------------------
(***************************************************************************)
(* The locks of SessionFiles are with the pages that work on the files,    *)
(* and no visit is lost, for any number of processes, ids and files.       *)
(***************************************************************************)
EXTENDS SessionFiles, TLAPS

(* What IInv says of one process with session se at step st, d the save     *)
(* path: by itself, and of the file it has open.                            *)
Fits(se, st) ==
    /\ st # "page" => se.active
    /\ se.active => se.sid \in Sids
    /\ st \in {"lock", "measure", "write"} => se.fd # NoFile
    /\ ~se.active \/ st = "destroy" => se.fd = NoFile
    /\ ~Reopen /\ st \in Starts => se.visits = 0

Knows(se, st, d) ==
    \A s \in Sids : se.fd = d[s] /\ d[s] # NoFile =>
        /\ st \in Starts => s = se.sid
        /\ st \in {"gc", "unlink", "read"} => se.size = data[d[s]]
        /\ st \in {"page", "write"} /\ ~Reopen /\ ~MayRaise => se.visits = CountUp(saves[d[s]])

(* The counter stays within its bound. *)
LEMMA CountUpType ==
    ASSUME NEW n \in 0 .. MaxVisits
    PROVE  CountUp(n) \in 0 .. MaxVisits
BY SessionAssumption DEF CountUp

(* IInv, process by process. *)
LEMMA EachProcess ==
    ASSUME IInv, NEW p \in Procs
    PROVE  /\ sess[p] \in Session /\ step[p] \in Steps
           /\ Fits(sess[p], step[p]) /\ Knows(sess[p], step[p], dir)
<1>1. sess[p] \in Session /\ step[p] \in Steps
  BY DEF IInv, TypeOK
<1>2. Fits(sess[p], step[p])
  BY DEF IInv, StepsFit, OpensEmpty, Fits
<1>3. Knows(sess[p], step[p], dir)
  BY DEF IInv, OpenedByName, Knows
<1>4. QED
  BY <1>1, <1>2, <1>3

(* A file is open past flock in one process at most, which has its lock. *)
LEMMA Owner ==
    ASSUME IInv, NEW p \in Procs, sess[p].fd # NoFile, step[p] # "lock"
    PROVE  /\ sess[p].fd \in Inodes /\ sess[p].active
           /\ holder[sess[p].fd] = p
           /\ \A q \in Procs : sess[q].fd = sess[p].fd /\ step[q] # "lock" => q = p
<1>1. sess[p].fd \in Inodes /\ sess[p].active
  BY EachProcess DEF Session, Fits
<1>2. holder[sess[p].fd] = p
  BY <1>1 DEF IInv, LockIsCurrent
<1>3. ASSUME NEW q \in Procs, sess[q].fd = sess[p].fd, step[q] # "lock"
      PROVE  q = p
  <2>1. sess[q].active
    BY <1>1, <1>3, EachProcess DEF Fits
  <2>2. holder[sess[p].fd] = q
    BY <1>1, <1>3, <2>1 DEF IInv, LockIsCurrent
  <2>3. QED
    BY <1>2, <2>2
<1>4. QED
  BY <1>1, <1>2, <1>3

(* A step of one process that opens, closes, locks, writes and adds no      *)
(* file, and may remove names.                                              *)
LEMMA Local ==
    ASSUME IInv, NEW p \in Procs, NEW se \in Session, NEW st \in Steps,
           sess' = [sess EXCEPT ![p] = se],
           step' = [step EXCEPT ![p] = st],
           dir' \in [Sids -> Inodes \cup {NoFile}],
           \A s \in Sids : dir'[s] = dir[s] \/ dir'[s] = NoFile,
           UNCHANGED <<data, expired, holder, saves>>,
           step[p] \notin {"lock", "write"}, st \notin {"lock", "write"},
           se.fd = sess[p].fd,
           Fits(se, st), Knows(se, st, dir')
    PROVE  IInv'
<1>1. /\ sess'[p] = se /\ step'[p] = st
      /\ \A q \in Procs \ {p} : sess'[q] = sess[q] /\ step'[q] = step[q]
  BY DEF IInv, TypeOK
<1>2. TypeOK'
  BY DEF IInv, TypeOK
<1>3. LockIsCurrent'
  <2> SUFFICES ASSUME NEW i \in Inodes, NEW q \in Procs
               PROVE  holder[i] = q
                      <=> sess'[q].active /\ sess'[q].fd = i /\ step'[q] # "lock"
    BY DEF LockIsCurrent
  <2>1. CASE q # p
    BY <1>1, <2>1 DEF IInv, LockIsCurrent
  <2>2. CASE q = p
    <3>1. i # NoFile
      BY SessionAssumption
    <3>2. sess[p].fd = i => sess[p].active /\ se.active
      BY <3>1, EachProcess DEF Fits
    <3>3. QED
      BY <1>1, <2>2, <3>2 DEF IInv, LockIsCurrent
  <2>3. QED
    BY <2>1, <2>2
<1>4. StepsFit' /\ OpensEmpty'
  BY <1>1 DEF IInv, StepsFit, OpensEmpty, Fits
<1>5. OneName'
  BY DEF IInv, OneName
<1>6. OpenedByName'
  <2> SUFFICES ASSUME NEW q \in Procs PROVE Knows(sess'[q], step'[q], dir')
    BY DEF OpenedByName, Knows, CountUp
  <2>1. CASE q # p
    BY <1>1, <2>1, EachProcess DEF Knows
  <2>2. QED
    BY <1>1, <2>1
<1>7. HalfWritten'
  BY <1>1 DEF IInv, HalfWritten
<1>8. ~Reopen /\ ~MayRaise => NoLostVisit'
  <2> SUFFICES ASSUME ~Reopen, ~MayRaise, NEW s \in Sids, dir'[s] # NoFile
               PROVE  \/ data[dir[s]] = saves[dir[s]]
                      \/ \E q \in Procs : sess'[q].fd = dir[s] /\ step'[q] = "write"
    BY DEF NoLostVisit
  <2>1. \/ data[dir[s]] = saves[dir[s]]
        \/ \E q \in Procs : sess[q].fd = dir[s] /\ step[q] = "write"
    BY DEF IInv, NoLostVisit
  <2>2. QED
    BY <1>1, <2>1
<1>9. QED
  BY <1>2, <1>3, <1>4, <1>5, <1>6, <1>7, <1>8 DEF IInv

-----------------------------------------------------------------------------
(* The dice of a page that opens a session. *)
LEMMA Rolled ==
    ASSUME IInv, NEW p \in Procs, NEW se \in Session, RollDice(p, se),
           UNCHANGED <<dir, data, expired, holder, saves>>,
           step[p] \notin {"lock", "write"},
           se.fd = sess[p].fd, se.active, se.sid \in Sids,
           Reopen \/ se.visits = 0,
           \A s \in Sids : se.fd = dir[s] /\ dir[s] # NoFile =>
               s = se.sid /\ se.size = data[dir[s]]
    PROVE  IInv'
<1> USE DEF Steps, Starts, Fits, Knows
<1>1. dir \in [Sids -> Inodes \cup {NoFile}]
  BY DEF IInv, TypeOK
<1>2. CASE sess' = [sess EXCEPT ![p] = se] /\ Goto(p, "read")
  BY <1>1, <1>2, Local DEF Goto
<1>3. CASE /\ sess' = [sess EXCEPT ![p] =
                          [se EXCEPT !.todo = {s \in Sids : dir[s] # NoFile}]]
           /\ Goto(p, "gc")
  <2> DEFINE sf == [se EXCEPT !.todo = {s \in Sids : dir[s] # NoFile}]
  <2>1. sf \in Session
    BY DEF Session
  <2>2. /\ sf.fd = se.fd /\ sf.active = se.active /\ sf.sid = se.sid
        /\ sf.visits = se.visits /\ sf.size = se.size
    BY DEF Session
  <2> HIDE DEF sf
  <2>3. sess' = [sess EXCEPT ![p] = sf] /\ step' = [step EXCEPT ![p] = "gc"]
    BY <1>3 DEF sf, Goto
  <2>4. Fits(sf, "gc") /\ Knows(sf, "gc", dir)
    BY <2>2
  <2>5. QED
    BY <1>1, <2>1, <2>2, <2>3, <2>4, Local
<1>4. QED
  BY <1>2, <1>3 DEF RollDice

(* fopen failed: the session goes on without a file, or is left without.   *)
LEMMA StartLostStep ==
    ASSUME IInv, NEW p \in Procs, NEW s \in Sids, StartLost(p, s) \/ StartLeft(p, s)
    PROVE  IInv'
<1> DEFINE se == Lost(p, s)
<1>1. sess[p] \in Session /\ step[p] = "page" /\ sess[p].fd = NoFile
  BY EachProcess DEF StartLost, StartLeft, MayStart, At, Fits
<1>2. Reopen \/ sess[p].visits = 0
  BY DEF StartLost, StartLeft, MayStart
<1>3. /\ se \in Session /\ se.fd = NoFile /\ se.active /\ se.sid = s
      /\ se.visits = sess[p].visits
  BY <1>1 DEF Session, Lost
<1>4. UNCHANGED <<dir, data, expired, holder, saves>>
  BY DEF StartLost, StartLeft
<1> HIDE DEF se
<1>5. CASE StartLost(p, s)
  <2>1. RollDice(p, se)
    BY <1>5 DEF StartLost, se
  <2>2. QED
    BY <1>1, <1>2, <1>3, <1>4, <2>1, Rolled
<1>6. CASE StartLeft(p, s)
  <2>1. sess' = [sess EXCEPT ![p] = se] /\ step' = [step EXCEPT ![p] = "page"]
    BY <1>1, <1>6 DEF StartLeft, se, IInv, TypeOK
  <2>2. dir' = dir /\ dir \in [Sids -> Inodes \cup {NoFile}]
    BY <1>4 DEF IInv, TypeOK
  <2>3. Fits(se, "page") /\ Knows(se, "page", dir')
    BY <1>3 DEF Fits, Knows, Starts
  <2>4. QED
    BY <1>1, <1>3, <1>4, <2>1, <2>2, <2>3, Local DEF Steps
<1>7. QED
  BY <1>5, <1>6

(* The size asked for by name is that of the open file, if that is the one. *)
LEMMA MeasureStep ==
    ASSUME IInv, NEW p \in Procs, Measure(p) \/ MeasureLeft(p)
    PROVE  IInv'
<1> DEFINE n == IF dir[sess[p].sid] = NoFile THEN -1 ELSE data[dir[sess[p].sid]]
<1> DEFINE se == Measured(p)
<1>1. /\ sess[p] \in Session /\ step[p] = "measure" /\ sess[p].active
      /\ sess[p].sid \in Sids /\ (Reopen \/ sess[p].visits = 0)
  BY EachProcess DEF Measure, MeasureLeft, At, Fits, Starts
<1>2. \A s \in Sids : sess[p].fd = dir[s] /\ dir[s] # NoFile => s = sess[p].sid
  BY <1>1, EachProcess DEF Knows, Starts
<1>3. n \in -1 .. MaxVisits
  BY <1>1, SessionAssumption DEF IInv, TypeOK
<1>4. /\ se \in Session /\ se.fd = sess[p].fd /\ se.active
      /\ se.sid = sess[p].sid /\ se.visits = sess[p].visits /\ se.size = n
  BY <1>1, <1>3 DEF Session, Measured
<1>5. UNCHANGED <<dir, data, expired, holder, saves>>
  BY DEF Measure, MeasureLeft
<1>6. \A s \in Sids : sess[p].fd = dir[s] /\ dir[s] # NoFile => n = data[dir[s]]
  BY <1>2
<1> HIDE DEF n, se
<1>7. CASE Measure(p)
  <2>1. RollDice(p, se)
    BY <1>7 DEF Measure, se
  <2>2. QED
    BY <1>1, <1>2, <1>4, <1>5, <1>6, <2>1, Rolled
<1>8. CASE MeasureLeft(p)
  <2>1. /\ sess' = [sess EXCEPT ![p] = se] /\ step' = [step EXCEPT ![p] = "page"]
        /\ MayRaise
    BY <1>8 DEF MeasureLeft, Goto, se
  <2>2. dir' = dir /\ dir \in [Sids -> Inodes \cup {NoFile}]
    BY <1>5 DEF IInv, TypeOK
  <2>3. Fits(se, "page") /\ Knows(se, "page", dir')
    BY <1>1, <1>4, <2>1 DEF Fits, Knows, Starts
  <2>4. QED
    BY <1>1, <1>4, <1>5, <2>1, <2>2, <2>3, Local DEF Steps
<1>9. QED
  BY <1>7, <1>8

(* Garbage collection looks at one name after the other, and removes names. *)
LEMMA CollectStep ==
    ASSUME IInv, NEW p \in Procs, Collect(p)
    PROVE  IInv'
<1> USE DEF Steps, Starts, Fits, Knows
<1>1. /\ sess[p] \in Session /\ step[p] = "gc" /\ Fits(sess[p], step[p])
      /\ Knows(sess[p], step[p], dir)
  BY EachProcess DEF Collect, At
<1>2. UNCHANGED <<dir, data, expired, holder, saves>>
      /\ dir' \in [Sids -> Inodes \cup {NoFile}]
  BY DEF Collect, IInv, TypeOK
<1>3. CASE sess' = sess /\ step' = [step EXCEPT ![p] = "read"]
  <2>1. sess' = [sess EXCEPT ![p] = sess[p]]
    BY <1>3 DEF IInv, TypeOK
  <2>2. QED
    BY <1>1, <1>2, <1>3, <2>1, Local
<1>4. ASSUME NEW s \in Sids,
             sess' = [sess EXCEPT ![p].todo = @ \ {s}, ![p].doomed = s],
             step' = [step EXCEPT ![p] = "unlink"]
      PROVE  IInv'
  <2> DEFINE se == [sess[p] EXCEPT !.todo = @ \ {s}, !.doomed = s]
  <2>1. /\ se \in Session /\ se.fd = sess[p].fd /\ se.active = sess[p].active
        /\ se.sid = sess[p].sid /\ se.visits = sess[p].visits
        /\ se.size = sess[p].size
    BY <1>1 DEF Session
  <2>2. sess' = [sess EXCEPT ![p] = se]
    BY <1>4 DEF IInv, TypeOK
  <2> HIDE DEF se
  <2>3. Fits(se, "unlink") /\ Knows(se, "unlink", dir')
    BY <1>1, <1>2, <2>1
  <2>4. QED
    BY <1>1, <1>2, <1>4, <2>1, <2>2, <2>3, Local
<1>5. ASSUME NEW s \in Sids, sess' = [sess EXCEPT ![p].todo = @ \ {s}], step' = step
      PROVE  IInv'
  <2> DEFINE se == [sess[p] EXCEPT !.todo = @ \ {s}]
  <2>1. /\ se \in Session /\ se.fd = sess[p].fd /\ se.active = sess[p].active
        /\ se.sid = sess[p].sid /\ se.visits = sess[p].visits
        /\ se.size = sess[p].size
    BY <1>1 DEF Session
  <2>2. sess' = [sess EXCEPT ![p] = se] /\ step' = [step EXCEPT ![p] = "gc"]
    BY <1>1, <1>5 DEF IInv, TypeOK
  <2> HIDE DEF se
  <2>3. Fits(se, "gc") /\ Knows(se, "gc", dir')
    BY <1>1, <1>2, <2>1
  <2>4. QED
    BY <1>1, <1>2, <2>1, <2>2, <2>3, Local
<1>6. \A s \in sess[p].todo : s \in Sids
  BY <1>1 DEF Session
<1>7. QED
  BY <1>3, <1>4, <1>5, <1>6 DEF Collect, Goto

(* Fewer names: what was known of the open file is still known. *)
LEMMA UnlinkStep ==
    ASSUME IInv, NEW p \in Procs, Unlink(p)
    PROVE  IInv'
<1> USE DEF Steps, Starts, Fits, Knows
<1> DEFINE se == [sess[p] EXCEPT !.doomed = Unset]
<1>1. /\ sess[p] \in Session /\ step[p] = "unlink" /\ Fits(sess[p], step[p])
      /\ Knows(sess[p], step[p], dir)
  BY EachProcess DEF Unlink, At
<1>2. /\ UNCHANGED <<data, expired, holder, saves>>
      /\ dir' \in [Sids -> Inodes \cup {NoFile}]
      /\ \A s \in Sids : dir'[s] = dir[s] \/ dir'[s] = NoFile
  BY DEF Unlink, IInv, TypeOK
<1>3. /\ se \in Session /\ se.fd = sess[p].fd /\ se.active = sess[p].active
      /\ se.sid = sess[p].sid /\ se.visits = sess[p].visits
      /\ se.size = sess[p].size
  BY <1>1 DEF Session
<1>4. sess' = [sess EXCEPT ![p] = se] /\ step' = [step EXCEPT ![p] = "gc"]
  BY DEF Unlink, Goto
<1> HIDE DEF se
<1>5. Fits(se, "gc") /\ Knows(se, "gc", dir')
  BY <1>1, <1>2, <1>3
<1>6. QED
  BY <1>1, <1>2, <1>3, <1>4, <1>5, Local

(* A page that has read its session knows every visit that was saved: the   *)
(* size was right, nobody is in the middle of writing the file, and what    *)
(* was in $_SESSION before, nothing, does not matter.                       *)
LEMMA ReadStep ==
    ASSUME IInv, NEW p \in Procs, Read(p)
    PROVE  IInv'
<1>1. /\ sess[p] \in Session /\ step[p] = "read" /\ Fits(sess[p], step[p])
      /\ Knows(sess[p], step[p], dir)
  BY EachProcess DEF Read, At
<1>2. PICK n \in Loaded(p) :
         sess' = [sess EXCEPT ![p].visits = CountUp(Decoded(p, n))]
  BY DEF Read
<1>3. n \in 0 .. MaxVisits
  <2>1. sess[p].fd # NoFile => data[sess[p].fd] \in 0 .. MaxVisits
    BY <1>1 DEF Session, IInv, TypeOK
  <2>2. QED
    BY <1>2, <2>1, SessionAssumption DEF Loaded
<1> DEFINE se == [sess[p] EXCEPT !.visits = CountUp(Decoded(p, n))]
<1>4. Decoded(p, n) \in 0 .. MaxVisits
  BY <1>1, <1>3 DEF Decoded, Session
<1>5. /\ se \in Session /\ se.fd = sess[p].fd /\ se.active = sess[p].active
      /\ se.sid = sess[p].sid /\ se.visits = CountUp(Decoded(p, n))
  BY <1>1, <1>4, CountUpType DEF Session
<1>6. sess' = [sess EXCEPT ![p] = se] /\ step' = [step EXCEPT ![p] = "page"]
  BY <1>2 DEF Read, Goto
<1> HIDE DEF se
<1>7. /\ UNCHANGED <<dir, data, expired, holder, saves>>
      /\ dir' \in [Sids -> Inodes \cup {NoFile}]
  BY DEF Read, IInv, TypeOK
<1>8. ASSUME ~Reopen, ~MayRaise, NEW s \in Sids, sess[p].fd = dir[s], dir[s] # NoFile
      PROVE  se.visits = CountUp(saves[dir[s]])
  <2>1. sess[p].size = data[dir[s]] /\ data[dir[s]] \in 0 .. MaxVisits
    BY <1>1, <1>8 DEF Knows, Session, IInv, TypeOK
  <2>2. n = data[dir[s]]
    BY <1>2, <1>8, <2>1, SessionAssumption DEF Loaded
  <2>3. ~ \E q \in Procs : sess[q].fd = dir[s] /\ step[q] = "write"
    BY <1>1, <1>8, Owner
  <2>4. data[dir[s]] = saves[dir[s]]
    BY <1>8, <2>3 DEF IInv, NoLostVisit
  <2>5. Decoded(p, n) = n
    BY <1>1, <1>8 DEF Decoded, Fits, Starts
  <2>6. QED
    BY <1>5, <2>2, <2>4, <2>5
<1>9. Fits(se, "page") /\ Knows(se, "page", dir')
  BY <1>1, <1>5, <1>7, <1>8 DEF Fits, Knows, Starts
<1>10. QED
  BY <1>1, <1>5, <1>6, <1>7, <1>9, Local DEF Steps

(* A read that is left leaves $_SESSION with nothing that has to be right.  *)
LEMMA ReadLeftStep ==
    ASSUME IInv, NEW p \in Procs, ReadLeft(p)
    PROVE  IInv'
<1>1. /\ sess[p] \in Session /\ step[p] = "read" /\ Fits(sess[p], step[p])
      /\ MayRaise
  BY EachProcess DEF ReadLeft, At
<1>2. PICK n \in Loaded(p) \ {0} : \E v \in {sess[p].visits, n} :
         sess' = [sess EXCEPT ![p].visits = v]
  BY DEF ReadLeft
<1>3. PICK v \in {sess[p].visits, n} : sess' = [sess EXCEPT ![p].visits = v]
  BY <1>2
<1>4. v \in 0 .. MaxVisits
  <2>1. sess[p].fd # NoFile => data[sess[p].fd] \in 0 .. MaxVisits
    BY <1>1 DEF Session, IInv, TypeOK
  <2>2. n \in 0 .. MaxVisits /\ sess[p].visits \in 0 .. MaxVisits
    BY <1>1, <1>2, <2>1, SessionAssumption DEF Loaded, Session
  <2>3. QED
    BY <1>3, <2>2
<1> DEFINE se == [sess[p] EXCEPT !.visits = v]
<1>5. /\ se \in Session /\ se.fd = sess[p].fd /\ se.active = sess[p].active
      /\ se.sid = sess[p].sid
  BY <1>1, <1>4 DEF Session
<1>6. sess' = [sess EXCEPT ![p] = se] /\ step' = [step EXCEPT ![p] = "page"]
  BY <1>3 DEF ReadLeft, Goto
<1> HIDE DEF se
<1>7. /\ UNCHANGED <<dir, data, expired, holder, saves>>
      /\ dir' \in [Sids -> Inodes \cup {NoFile}]
  BY DEF ReadLeft, IInv, TypeOK
<1>8. Fits(se, "page") /\ Knows(se, "page", dir')
  BY <1>1, <1>5 DEF Fits, Knows, Starts
<1>9. QED
  BY <1>1, <1>5, <1>6, <1>7, <1>8, Local DEF Steps

(* A size of -1 was asked when the name was gone, so no name leads to the   *)
(* open file and nothing has to be known of it.                             *)
LEMMA ReadFailsStep ==
    ASSUME IInv, NEW p \in Procs, ReadFails(p)
    PROVE  IInv'
<1>1. /\ sess[p] \in Session /\ step[p] = "read" /\ Fits(sess[p], step[p])
      /\ Knows(sess[p], step[p], dir) /\ sess[p].size < 0
  BY EachProcess DEF ReadFails, At
<1>2. /\ UNCHANGED <<dir, data, expired, holder, saves>>
      /\ dir' \in [Sids -> Inodes \cup {NoFile}]
  BY DEF ReadFails, IInv, TypeOK
<1>3. sess' = [sess EXCEPT ![p] = sess[p]] /\ step' = [step EXCEPT ![p] = "page"]
  BY DEF ReadFails, Goto, IInv, TypeOK
<1>4. \A s \in Sids : ~(sess[p].fd = dir[s] /\ dir[s] # NoFile)
  <2> SUFFICES ASSUME NEW s \in Sids, sess[p].fd = dir[s], dir[s] # NoFile
               PROVE  FALSE
    OBVIOUS
  <2>1. sess[p].size = data[dir[s]] /\ data[dir[s]] \in 0 .. MaxVisits
    BY <1>1 DEF Knows, Session, IInv, TypeOK
  <2>2. QED
    BY <1>1, <2>1, SessionAssumption
<1>5. Fits(sess[p], "page") /\ Knows(sess[p], "page", dir')
  BY <1>1, <1>2, <1>4 DEF Fits, Knows, Starts
<1>6. QED
  BY <1>1, <1>2, <1>3, <1>5, Local DEF Steps

-----------------------------------------------------------------------------
(* A page at its own steps: another id, no session any more, the next page. *)
LEMMA ChangeIdStep ==
    ASSUME IInv, NEW p \in Procs, NEW s \in Sids, ChangeId(p, s)
    PROVE  IInv'
<1> USE DEF Steps, Starts, Fits, Knows
<1> DEFINE se == [sess[p] EXCEPT !.sid = s]
<1>1. /\ sess[p] \in Session /\ step[p] = "page" /\ Fits(sess[p], step[p])
      /\ Knows(sess[p], step[p], dir)
  BY EachProcess DEF ChangeId, At
<1>2. /\ UNCHANGED <<dir, data, expired, holder, saves>>
      /\ dir' \in [Sids -> Inodes \cup {NoFile}]
  BY DEF ChangeId, IInv, TypeOK
<1>3. /\ se \in Session /\ se.fd = sess[p].fd /\ se.active = sess[p].active
      /\ se.sid = s /\ se.visits = sess[p].visits
  BY <1>1 DEF Session
<1>4. sess' = [sess EXCEPT ![p] = se] /\ step' = [step EXCEPT ![p] = "page"]
  BY <1>1 DEF ChangeId, IInv, TypeOK
<1> HIDE DEF se
<1>5. Fits(se, "page") /\ Knows(se, "page", dir')
  BY <1>1, <1>2, <1>3
<1>6. QED
  BY <1>1, <1>2, <1>3, <1>4, <1>5, Local

(* A process without a session can be anything there is without one. *)
LEMMA NoSessionType ==
    ASSUME IInv, NEW p \in Procs
    PROVE  /\ NoSession \in Session /\ ~NoSession.active /\ NoSession.fd = NoFile
           /\ Closed(p) \in Session /\ ~Closed(p).active /\ Closed(p).fd = NoFile
           /\ Closed(p).visits = sess[p].visits
<1>1. sess[p].visits \in 0 .. MaxVisits
  BY EachProcess DEF Session
<1>2. NoSession \in Session /\ ~NoSession.active /\ NoSession.fd = NoFile
  BY SessionAssumption DEF NoSession, Session
<1>3. QED
  BY <1>1, <1>2 DEF Closed, NoSession, Session

(* The end of a session that has no file. *)
LEMMA ForgetStep ==
    ASSUME IInv, NEW p \in Procs, Forget(p)
    PROVE  IInv'
<1>1. step[p] = "page" /\ sess[p].fd = NoFile
  BY DEF Forget, At
<1>2. /\ UNCHANGED <<dir, data, expired, holder, saves>>
      /\ dir' \in [Sids -> Inodes \cup {NoFile}]
  BY DEF Forget, IInv, TypeOK
<1>3. sess' = [sess EXCEPT ![p] = Closed(p)] /\ step' = [step EXCEPT ![p] = "page"]
  BY <1>1 DEF Forget, IInv, TypeOK
<1>4. Fits(Closed(p), "page") /\ Knows(Closed(p), "page", dir')
  BY NoSessionType DEF Fits, Knows, Starts
<1>5. QED
  BY <1>1, <1>2, <1>3, <1>4, NoSessionType, Local DEF Steps

(* The end of a page. *)
LEMMA EndPageStep ==
    ASSUME IInv, NEW p \in Procs, EndPage(p)
    PROVE  IInv'
<1>1. step[p] = "page" /\ sess[p].fd = NoFile
  BY EachProcess DEF EndPage, At, Fits
<1>2. /\ UNCHANGED <<dir, data, expired, holder, saves>>
      /\ dir' \in [Sids -> Inodes \cup {NoFile}]
  BY DEF EndPage, IInv, TypeOK
<1>3. sess' = [sess EXCEPT ![p] = NoSession] /\ step' = [step EXCEPT ![p] = "page"]
  BY <1>1 DEF EndPage, IInv, TypeOK
<1>4. Fits(NoSession, "page") /\ Knows(NoSession, "page", dir')
  BY NoSessionType DEF Fits, Knows, Starts
<1>5. QED
  BY <1>1, <1>2, <1>3, <1>4, NoSessionType, Local DEF Steps

(* The page has let its file go before it deletes the name. *)
LEMMA DeleteFileStep ==
    ASSUME IInv, NEW p \in Procs, DeleteFile(p)
    PROVE  IInv'
<1> DEFINE se == [sess[p] EXCEPT !.visits = 0]
<1>1. /\ sess[p] \in Session /\ step[p] = "destroy" /\ sess[p].fd = NoFile
      /\ Fits(sess[p], step[p])
  BY EachProcess DEF DeleteFile, At, Fits
<1>2. /\ UNCHANGED <<data, expired, holder, saves>>
      /\ dir' \in [Sids -> Inodes \cup {NoFile}]
      /\ \A s \in Sids : dir'[s] = dir[s] \/ dir'[s] = NoFile
  BY DEF DeleteFile, IInv, TypeOK
<1>3. /\ se \in Session /\ se.fd = NoFile /\ se.active = sess[p].active
      /\ se.sid = sess[p].sid
  BY <1>1, SessionAssumption DEF Session
<1>4. sess' = [sess EXCEPT ![p] = se] /\ step' = [step EXCEPT ![p] = "page"]
  BY DEF DeleteFile, Goto
<1> HIDE DEF se
<1>5. Fits(se, "page") /\ Knows(se, "page", dir')
  BY <1>1, <1>3 DEF Fits, Knows, Starts
<1>6. QED
  BY <1>1, <1>2, <1>3, <1>4, <1>5, Local DEF Steps

-----------------------------------------------------------------------------
(* The steps that open, lock, write and unlock. *)

(* flock: the file was nobody's. *)
LEMMA LockStep ==
    ASSUME IInv, NEW p \in Procs, Lock(p)
    PROVE  IInv'
<1> DEFINE f == sess[p].fd
<1>1. /\ sess[p] \in Session /\ step[p] = "lock" /\ f \in Inodes /\ sess[p].active
      /\ Fits(sess[p], step[p])
  BY EachProcess DEF Lock, At, Fits, Session
<1>2. /\ holder[f] = Nobody /\ holder' = [holder EXCEPT ![f] = p]
      /\ step' = [step EXCEPT ![p] = "measure"]
      /\ UNCHANGED <<dir, data, expired, saves, sess>>
  BY DEF Lock, Goto
<1>3. step'[p] = "measure" /\ \A q \in Procs \ {p} : step'[q] = step[q]
  BY <1>2 DEF IInv, TypeOK
<1>4. TypeOK'
  BY <1>2 DEF IInv, TypeOK, Steps
<1>5. LockIsCurrent'
  <2> SUFFICES ASSUME NEW i \in Inodes, NEW q \in Procs
               PROVE  holder'[i] = q
                      <=> sess[q].active /\ sess[q].fd = i /\ step'[q] # "lock"
    BY <1>2 DEF LockIsCurrent
  <2>1. CASE i = f /\ q = p
    BY <1>1, <1>2, <1>3, <2>1 DEF IInv, TypeOK
  <2>2. CASE i = f /\ q # p
    <3>1. holder'[i] = p /\ holder[i] # q
      BY <1>1, <1>2, <2>2, SessionAssumption DEF IInv, TypeOK
    <3>2. QED
      BY <1>3, <2>2, <3>1 DEF IInv, LockIsCurrent
  <2>3. CASE i # f
    <3>1. holder'[i] = holder[i]
      BY <1>2, <2>3 DEF IInv, TypeOK
    <3>2. QED
      BY <1>1, <1>3, <2>3, <3>1 DEF IInv, LockIsCurrent
  <2>4. QED
    BY <2>1, <2>2, <2>3
<1>6. StepsFit' /\ OpensEmpty'
  BY <1>1, <1>2, <1>3 DEF IInv, StepsFit, OpensEmpty, Fits, Starts
<1>7. OneName'
  BY <1>2 DEF IInv, OneName
<1>8. OpenedByName'
  <2> SUFFICES ASSUME NEW q \in Procs PROVE Knows(sess[q], step'[q], dir)
    BY <1>2 DEF OpenedByName, Knows, CountUp
  <2>1. QED
    BY <1>1, <1>3, EachProcess DEF Knows, Starts
<1>9. HalfWritten'
  BY <1>2, <1>3 DEF IInv, HalfWritten
<1>10. ~Reopen /\ ~MayRaise => NoLostVisit'
  BY <1>1, <1>2, <1>3 DEF IInv, NoLostVisit
<1>11. QED
  BY <1>4, <1>5, <1>6, <1>7, <1>8, <1>9, <1>10 DEF IInv

(* fopen: a file of another session is not touched, and a new one is        *)
(* nobody's and has no other name.                                          *)
LEMMA StartStep ==
    ASSUME IInv, NEW p \in Procs, NEW s \in Sids, Start(p, s)
    PROVE  IInv'
<1>1. PICK i \in IF dir[s] = NoFile THEN FreshFile ELSE {dir[s]} :
         /\ dir' = [dir EXCEPT ![s] = i]
         /\ data' = IF dir[s] = i THEN data ELSE [data EXCEPT ![i] = 0]
         /\ saves' = IF dir[s] = i THEN saves ELSE [saves EXCEPT ![i] = 0]
         /\ expired' = IF dir[s] = i THEN expired ELSE [expired EXCEPT ![i] = FALSE]
         /\ sess' = [sess EXCEPT ![p].active = TRUE, ![p].sid = s, ![p].fd = i]
         /\ step' = [step EXCEPT ![p] = "lock"]
  BY DEF Start, Goto
<1>2. /\ step[p] = "page" /\ ~sess[p].active /\ (Reopen \/ sess[p].visits = 0)
      /\ sess[p] \in Session /\ Fits(sess[p], step[p]) /\ holder' = holder
  BY EachProcess DEF Start, MayStart, At
<1>3. /\ i \in Inodes /\ i # NoFile
      /\ dir[s] # i => /\ dir[s] = NoFile
                       /\ \A u \in Sids : dir[u] # i
                       /\ \A q \in Procs : sess[q].fd # i
  BY <1>1, SessionAssumption DEF FreshFile, Unused, Linked, IInv, TypeOK
<1> DEFINE se == [sess[p] EXCEPT !.active = TRUE, !.sid = s, !.fd = i]
<1>4. /\ se \in Session /\ se.active /\ se.sid = s /\ se.fd = i
      /\ se.visits = sess[p].visits
  BY <1>2, <1>3 DEF Session
<1>5. sess' = [sess EXCEPT ![p] = se]
  BY <1>1
<1> HIDE DEF se
<1>6. /\ sess'[p] = se /\ step'[p] = "lock"
      /\ \A q \in Procs \ {p} : sess'[q] = sess[q] /\ step'[q] = step[q]
  BY <1>1, <1>5 DEF IInv, TypeOK
<1>7. dir'[s] = i /\ \A u \in Sids \ {s} : dir'[u] = dir[u]
  BY <1>1 DEF IInv, TypeOK
<1>8. \A j \in Inodes : (j # i \/ dir[s] = i) => data'[j] = data[j] /\ saves'[j] = saves[j]
  BY <1>1 DEF IInv, TypeOK
<1>9. dir[s] # i => data'[i] = 0 /\ saves'[i] = 0
  BY <1>1, <1>3 DEF IInv, TypeOK
<1>10. TypeOK'
  <2>1. /\ data' \in [Inodes -> 0 .. MaxVisits] /\ saves' \in [Inodes -> 0 .. MaxVisits]
        /\ expired' \in [Inodes -> BOOLEAN]
    BY <1>1, <1>3, SessionAssumption DEF IInv, TypeOK
  <2>2. dir' \in [Sids -> Inodes \cup {NoFile}]
    BY <1>1, <1>3 DEF IInv, TypeOK
  <2>3. sess' \in [Procs -> Session]
    BY <1>4, <1>5 DEF IInv, TypeOK
  <2>4. step' \in [Procs -> Steps]
    BY <1>1 DEF IInv, TypeOK, Steps
  <2>5. QED
    BY <1>2, <2>1, <2>2, <2>3, <2>4 DEF IInv, TypeOK
<1>11. LockIsCurrent'
  <2> SUFFICES ASSUME NEW j \in Inodes, NEW q \in Procs
               PROVE  holder[j] = q
                      <=> sess'[q].active /\ sess'[q].fd = j /\ step'[q] # "lock"
    BY <1>2 DEF LockIsCurrent
  <2>1. QED
    BY <1>2, <1>6 DEF IInv, LockIsCurrent
<1>12. StepsFit' /\ OpensEmpty'
  BY <1>2, <1>3, <1>4, <1>6 DEF IInv, StepsFit, OpensEmpty, Starts
<1>13. OneName'
  BY <1>3, <1>7 DEF IInv, OneName
<1>14. OpenedByName'
  <2> SUFFICES ASSUME NEW q \in Procs, NEW u \in Sids,
                      sess'[q].fd = dir'[u], dir'[u] # NoFile
               PROVE  /\ step'[q] \in Starts => u = sess'[q].sid
                      /\ step'[q] \in {"gc", "unlink", "read"} =>
                            sess'[q].size = data'[dir'[u]]
                      /\ step'[q] \in {"page", "write"} /\ ~Reopen /\ ~MayRaise =>
                            sess'[q].visits = CountUp(saves'[dir'[u]])
    BY DEF OpenedByName, CountUp
  <2>1. CASE q = p
    BY <1>3, <1>4, <1>6, <1>7, <2>1, <1>13 DEF OneName, Starts
  <2>2. CASE q # p
    <3>1. dir[u] = dir'[u] /\ sess[q].fd = dir[u]
      BY <1>3, <1>6, <1>7, <2>2
    <3>2. dir[u] \in Inodes /\ (dir[u] # i \/ dir[s] = i)
      BY <1>3, <3>1 DEF IInv, TypeOK
    <3>3. data'[dir[u]] = data[dir[u]] /\ saves'[dir[u]] = saves[dir[u]]
      BY <1>8, <3>2
    <3>4. QED
      BY <1>6, <2>2, <3>1, <3>3, EachProcess DEF Knows
  <2>3. QED
    BY <2>1, <2>2
<1>15. HalfWritten'
  <2> SUFFICES ASSUME NEW q \in Procs, step'[q] = "write"
               PROVE  data'[sess'[q].fd] = 0
    BY DEF HalfWritten
  <2>1. q # p /\ sess'[q] = sess[q] /\ step[q] = "write"
    BY <1>6
  <2>2. sess[q].fd \in Inodes /\ data[sess[q].fd] = 0
    BY <2>1, EachProcess DEF Fits, Session, IInv, HalfWritten
  <2>3. QED
    BY <1>3, <1>8, <2>1, <2>2
<1>16. ~Reopen /\ ~MayRaise => NoLostVisit'
  <2> SUFFICES ASSUME ~Reopen, ~MayRaise, NEW u \in Sids, dir'[u] # NoFile
               PROVE  \/ data'[dir'[u]] = saves'[dir'[u]]
                      \/ \E q \in Procs : sess'[q].fd = dir'[u] /\ step'[q] = "write"
    BY DEF NoLostVisit
  <2>1. CASE dir'[u] = i /\ dir[s] # i
    BY <1>9, <2>1
  <2>2. CASE ~(dir'[u] = i /\ dir[s] # i)
    <3>1. dir[u] = dir'[u]
      BY <1>3, <1>7, <2>2
    <3>2. dir[u] \in Inodes /\ (dir[u] # i \/ dir[s] = i)
      BY <2>2, <3>1 DEF IInv, TypeOK
    <3>3. \/ data[dir[u]] = saves[dir[u]]
          \/ \E q \in Procs : sess[q].fd = dir[u] /\ step[q] = "write"
      BY <3>1 DEF IInv, NoLostVisit
    <3>4. QED
      BY <1>2, <1>6, <1>8, <3>1, <3>2, <3>3
  <2>3. QED
    BY <2>1, <2>2
<1>17. QED
  BY <1>10, <1>11, <1>12, <1>13, <1>14, <1>15, <1>16 DEF IInv

(* The file is emptied by the one page that has its lock. *)
LEMMA TruncateStep ==
    ASSUME IInv, NEW p \in Procs, Truncate(p)
    PROVE  IInv'
<1> DEFINE f == sess[p].fd
<1>1. /\ step[p] = "page" /\ f # NoFile /\ f \in Inodes /\ sess[p].active
      /\ Fits(sess[p], step[p]) /\ Knows(sess[p], step[p], dir)
      /\ \A q \in Procs : sess[q].fd = f /\ step[q] # "lock" => q = p
  BY EachProcess, Owner DEF Truncate, At
<1>2. /\ data' = [data EXCEPT ![f] = 0]
      /\ expired' = [expired EXCEPT ![f] = FALSE]
      /\ step' = [step EXCEPT ![p] = "write"]
      /\ UNCHANGED <<dir, holder, saves, sess>>
  BY DEF Truncate, Goto
<1>3. step'[p] = "write" /\ \A q \in Procs \ {p} : step'[q] = step[q]
  BY <1>2 DEF IInv, TypeOK
<1>4. data'[f] = 0 /\ \A i \in Inodes \ {f} : data'[i] = data[i]
  BY <1>1, <1>2 DEF IInv, TypeOK
<1>5. TypeOK'
  <2>1. data' \in [Inodes -> 0 .. MaxVisits] /\ expired' \in [Inodes -> BOOLEAN]
    BY <1>1, <1>2, SessionAssumption DEF IInv, TypeOK
  <2>2. step' \in [Procs -> Steps]
    BY <1>2 DEF IInv, TypeOK, Steps
  <2>3. QED
    BY <1>2, <2>1, <2>2 DEF IInv, TypeOK
<1>6. LockIsCurrent' /\ OneName'
  BY <1>1, <1>2, <1>3 DEF IInv, LockIsCurrent, OneName
<1>7. StepsFit' /\ OpensEmpty'
  BY <1>1, <1>2, <1>3 DEF IInv, StepsFit, OpensEmpty, Starts
<1>8. OpenedByName'
  <2> SUFFICES ASSUME NEW q \in Procs, NEW u \in Sids,
                      sess[q].fd = dir[u], dir[u] # NoFile
               PROVE  /\ step'[q] \in Starts => u = sess[q].sid
                      /\ step'[q] \in {"gc", "unlink", "read"} =>
                            sess[q].size = data'[dir[u]]
                      /\ step'[q] \in {"page", "write"} /\ ~Reopen /\ ~MayRaise =>
                            sess[q].visits = CountUp(saves[dir[u]])
    BY <1>2 DEF OpenedByName, CountUp
  <2>1. CASE q = p
    BY <1>1, <1>3, <2>1 DEF Knows, Starts
  <2>2. CASE q # p
    <3>1. step[q] # "lock" => dir[u] \in Inodes \ {f}
      BY <1>1, <2>2 DEF IInv, TypeOK
    <3>2. QED
      BY <1>3, <1>4, <2>2, <3>1, EachProcess DEF Knows
  <2>3. QED
    BY <2>1, <2>2
<1>9. HalfWritten'
  <2> SUFFICES ASSUME NEW q \in Procs, step'[q] = "write"
               PROVE  data'[sess[q].fd] = 0
    BY <1>2 DEF HalfWritten
  <2>1. CASE q = p
    BY <1>4, <2>1
  <2>2. CASE q # p
    <3>1. step[q] = "write" /\ sess[q].fd \in Inodes \ {f}
      BY <1>1, <1>3, <2>2, EachProcess DEF Fits, Session
    <3>2. QED
      BY <1>4, <3>1 DEF IInv, HalfWritten
  <2>3. QED
    BY <2>1, <2>2
<1>10. ~Reopen /\ ~MayRaise => NoLostVisit'
  <2> SUFFICES ASSUME ~Reopen, ~MayRaise, NEW u \in Sids, dir[u] # NoFile
               PROVE  \/ data'[dir[u]] = saves[dir[u]]
                      \/ \E q \in Procs : sess[q].fd = dir[u] /\ step'[q] = "write"
    BY <1>2 DEF NoLostVisit
  <2>1. CASE dir[u] = f
    BY <1>3, <2>1
  <2>2. CASE dir[u] # f
    <3>1. data'[dir[u]] = data[dir[u]]
      BY <1>4, <2>2 DEF IInv, TypeOK
    <3>2. \/ data[dir[u]] = saves[dir[u]]
          \/ \E q \in Procs : sess[q].fd = dir[u] /\ step[q] = "write"
      BY DEF IInv, NoLostVisit
    <3>3. QED
      BY <1>1, <1>3, <3>1, <3>2
  <2>3. QED
    BY <2>1, <2>2
<1>11. QED
  BY <1>5, <1>6, <1>7, <1>8, <1>9, <1>10 DEF IInv

(* A process that closes its file leaves what it had open to nobody.  The   *)
(* file f it had, if any, may change its content and its count; all other   *)
(* files stay as they are.                                                  *)
LEMMA Closing ==
    ASSUME IInv, NEW p \in Procs, NEW se \in Session, NEW st \in Steps,
           sess' = [sess EXCEPT ![p] = se],
           step' = [step EXCEPT ![p] = st],
           dir' = dir,
           step[p] # "lock", st \notin {"lock", "measure", "write"},
           data' \in [Inodes -> 0 .. MaxVisits],
           expired' \in [Inodes -> BOOLEAN],
           saves' \in [Inodes -> 0 .. MaxVisits],
           holder' = [i \in Inodes |-> IF i = sess[p].fd THEN Nobody ELSE holder[i]],
           \A i \in Inodes : i # sess[p].fd => data'[i] = data[i] /\ saves'[i] = saves[i],
           ~Reopen /\ ~MayRaise /\ sess[p].fd \in Inodes /\ (\E s \in Sids : dir[s] = sess[p].fd) =>
               data'[sess[p].fd] = saves'[sess[p].fd],
           se.fd = NoFile, Fits(se, st)
    PROVE  IInv'
<1> DEFINE f == sess[p].fd
<1>1. /\ sess'[p] = se /\ step'[p] = st
      /\ \A q \in Procs \ {p} : sess'[q] = sess[q] /\ step'[q] = step[q]
  BY DEF IInv, TypeOK
<1>2. \A q \in Procs : sess[q].fd = f /\ f # NoFile /\ step[q] # "lock" => q = p
  BY Owner
<1>3. TypeOK'
  BY DEF IInv, TypeOK
<1>4. LockIsCurrent'
  <2> SUFFICES ASSUME NEW i \in Inodes, NEW q \in Procs
               PROVE  holder'[i] = q
                      <=> sess'[q].active /\ sess'[q].fd = i /\ step'[q] # "lock"
    BY DEF LockIsCurrent
  <2>1. i # NoFile /\ Nobody # q
    BY SessionAssumption
  <2>2. holder[i] = q <=> sess[q].active /\ sess[q].fd = i /\ step[q] # "lock"
    BY DEF IInv, LockIsCurrent
  <2>3. CASE q = p
    <3>1. holder'[i] # p
      BY <2>1, <2>2, <2>3
    <3>2. QED
      BY <1>1, <2>1, <2>3, <3>1
  <2>4. CASE q # p
    <3>1. i = f => ~(sess[q].fd = i /\ step[q] # "lock")
      BY <1>2, <2>1, <2>4
    <3>2. QED
      BY <1>1, <2>1, <2>2, <2>4, <3>1
  <2>5. QED
    BY <2>3, <2>4
<1>5. StepsFit' /\ OpensEmpty' /\ OneName'
  BY <1>1 DEF IInv, StepsFit, OpensEmpty, OneName, Fits, Starts
<1>6. OpenedByName'
  <2> SUFFICES ASSUME NEW q \in Procs, NEW u \in Sids,
                      sess'[q].fd = dir[u], dir[u] # NoFile
               PROVE  /\ step'[q] \in Starts => u = sess'[q].sid
                      /\ step'[q] \in {"gc", "unlink", "read"} =>
                            sess'[q].size = data'[dir[u]]
                      /\ step'[q] \in {"page", "write"} /\ ~Reopen /\ ~MayRaise =>
                            sess'[q].visits = CountUp(saves'[dir[u]])
    BY DEF OpenedByName, CountUp
  <2>1. q # p /\ sess'[q] = sess[q] /\ step'[q] = step[q]
    BY <1>1
  <2>2. step[q] # "lock" => dir[u] # f
    BY <1>2, <2>1
  <2>3. dir[u] \in Inodes
    BY DEF IInv, TypeOK
  <2>4. QED
    BY <2>1, <2>2, <2>3, EachProcess DEF Knows, Starts
<1>7. HalfWritten'
  <2> SUFFICES ASSUME NEW q \in Procs, step'[q] = "write"
               PROVE  data'[sess'[q].fd] = 0
    BY DEF HalfWritten
  <2>1. q # p /\ sess'[q] = sess[q] /\ step[q] = "write"
    BY <1>1
  <2>2. sess[q].fd \in Inodes /\ sess[q].fd # NoFile /\ data[sess[q].fd] = 0
    BY <2>1, EachProcess DEF Fits, Session, IInv, HalfWritten
  <2>3. sess[q].fd # f
    BY <1>2, <2>1, <2>2
  <2>4. QED
    BY <2>1, <2>2, <2>3
<1>8. ~Reopen /\ ~MayRaise => NoLostVisit'
  <2> SUFFICES ASSUME ~Reopen, ~MayRaise, NEW u \in Sids, dir[u] # NoFile
               PROVE  \/ data'[dir[u]] = saves'[dir[u]]
                      \/ \E q \in Procs : sess'[q].fd = dir[u] /\ step'[q] = "write"
    BY DEF NoLostVisit
  <2>1. dir[u] \in Inodes
    BY DEF IInv, TypeOK
  <2>2. CASE dir[u] = f
    BY <2>1, <2>2
  <2>3. CASE dir[u] # f
    <3>1. \/ data[dir[u]] = saves[dir[u]]
          \/ \E q \in Procs : sess[q].fd = dir[u] /\ step[q] = "write"
      BY DEF IInv, NoLostVisit
    <3>2. QED
      BY <1>1, <2>1, <2>3, <3>1
  <2>4. QED
    BY <2>2, <2>3
<1>9. QED
  BY <1>3, <1>4, <1>5, <1>6, <1>7, <1>8 DEF IInv

(* The page that wrote knew every visit, and has added its own. *)
LEMMA WriteStep ==
    ASSUME IInv, NEW p \in Procs, Write(p)
    PROVE  IInv'
<1> DEFINE f == sess[p].fd
<1>1. /\ sess[p] \in Session /\ step[p] = "write" /\ f # NoFile /\ f \in Inodes
      /\ Knows(sess[p], step[p], dir)
  BY EachProcess DEF Write, At, Fits, Session
<1>2. /\ data' = [data EXCEPT ![f] = sess[p].visits]
      /\ saves' = [saves EXCEPT ![f] = CountUp(saves[f])]
      /\ expired' = [expired EXCEPT ![f] = FALSE]
      /\ holder' = [holder EXCEPT ![f] = Nobody]
      /\ sess' = [sess EXCEPT ![p] = Closed(p)]
      /\ step' = [step EXCEPT ![p] = "page"]
      /\ dir' = dir
  BY DEF Write, Goto
<1>3. sess[p].visits \in 0 .. MaxVisits /\ CountUp(saves[f]) \in 0 .. MaxVisits
  BY <1>1, CountUpType DEF Session, IInv, TypeOK
<1>4. /\ data' \in [Inodes -> 0 .. MaxVisits] /\ saves' \in [Inodes -> 0 .. MaxVisits]
      /\ expired' \in [Inodes -> BOOLEAN]
  BY <1>2, <1>3 DEF IInv, TypeOK
<1>5. holder' = [i \in Inodes |-> IF i = f THEN Nobody ELSE holder[i]]
  BY <1>2 DEF IInv, TypeOK
<1>6. \A i \in Inodes : i # f => data'[i] = data[i] /\ saves'[i] = saves[i]
  BY <1>2 DEF IInv, TypeOK
<1>7. data'[f] = sess[p].visits /\ saves'[f] = CountUp(saves[f])
  BY <1>1, <1>2 DEF IInv, TypeOK
<1>8. ~Reopen /\ ~MayRaise /\ (\E s \in Sids : dir[s] = f) => data'[f] = saves'[f]
  BY <1>1, <1>7 DEF Knows
<1>9. Fits(Closed(p), "page")
  BY NoSessionType DEF Fits, Starts
<1>10. QED
  BY <1>1, <1>2, <1>4, <1>5, <1>6, <1>8, <1>9, NoSessionType, Closing DEF Steps

(* A save that is left changes nothing but where the page is: the file is   *)
(* as it was truncated, and the lock is where it was.                       *)
LEMMA WriteLeftStep ==
    ASSUME IInv, NEW p \in Procs, WriteLeft(p)
    PROVE  IInv'
<1>1. /\ step[p] = "write" /\ step' = [step EXCEPT ![p] = "page"] /\ MayRaise
      /\ UNCHANGED <<dir, data, expired, holder, saves, sess>>
  BY DEF WriteLeft, At, Goto
<1>2. step'[p] = "page" /\ \A q \in Procs \ {p} : step'[q] = step[q]
  BY <1>1 DEF IInv, TypeOK
<1>3. sess[p].active /\ sess[p].sid \in Sids
  BY <1>1, EachProcess DEF Fits
<1>4. TypeOK'
  BY <1>1 DEF IInv, TypeOK, Steps
<1>5. LockIsCurrent' /\ OneName' /\ HalfWritten'
  BY <1>1, <1>2 DEF IInv, LockIsCurrent, OneName, HalfWritten
<1>6. StepsFit' /\ OpensEmpty'
  BY <1>1, <1>2, <1>3 DEF IInv, StepsFit, OpensEmpty, Starts
<1>7. OpenedByName'
  <2> SUFFICES ASSUME NEW q \in Procs PROVE Knows(sess[q], step'[q], dir)
    BY <1>1 DEF OpenedByName, Knows, CountUp
  <2>1. QED
    BY <1>1, <1>2, EachProcess DEF Knows, Starts
<1>8. QED
  BY <1>1, <1>4, <1>5, <1>6, <1>7 DEF IInv

(* The file is let go as it was read. *)
LEMMA DestroyStep ==
    ASSUME IInv, NEW p \in Procs, Destroy(p)
    PROVE  IInv'
<1> DEFINE f == sess[p].fd
<1> DEFINE se == [sess[p] EXCEPT !.fd = NoFile]
<1>1. /\ sess[p] \in Session /\ step[p] = "page" /\ sess[p].active
      /\ Fits(sess[p], step[p])
  BY EachProcess DEF Destroy, At
<1>2. /\ holder' = [i \in Inodes |-> IF i = f THEN Nobody ELSE holder[i]]
      /\ step' = [step EXCEPT ![p] = "destroy"]
      /\ sess' = [sess EXCEPT ![p] = se]
      /\ UNCHANGED <<dir, data, expired, saves>>
  BY DEF Destroy, Goto
<1>3. /\ data' \in [Inodes -> 0 .. MaxVisits] /\ saves' \in [Inodes -> 0 .. MaxVisits]
      /\ expired' \in [Inodes -> BOOLEAN]
  BY <1>2 DEF IInv, TypeOK
<1>4. ASSUME ~Reopen, ~MayRaise, f \in Inodes, NEW s \in Sids, dir[s] = f
      PROVE  data'[f] = saves'[f]
  <2>1. f # NoFile
    BY <1>4, SessionAssumption
  <2>2. ~ \E q \in Procs : sess[q].fd = dir[s] /\ step[q] = "write"
    BY <1>1, <1>4, <2>1, Owner
  <2>3. QED
    BY <1>2, <1>4, <2>1, <2>2 DEF IInv, NoLostVisit
<1>5. /\ se \in Session /\ se.fd = NoFile /\ se.active /\ se.sid = sess[p].sid
  BY <1>1 DEF Session
<1> HIDE DEF se
<1>6. Fits(se, "destroy")
  BY <1>1, <1>5 DEF Fits, Starts
<1>7. QED
  BY <1>1, <1>2, <1>3, <1>4, <1>5, <1>6, Closing DEF Steps

(* A process that is killed loses its lock with its file; killed in the     *)
(* middle of a save, it leaves an empty file that no visits are in.         *)
LEMMA CrashStep ==
    ASSUME IInv, NEW p \in Procs, Crash(p)
    PROVE  IInv'
<1> DEFINE f == sess[p].fd
<1>1. /\ holder' = [i \in Inodes |-> IF holder[i] = p THEN Nobody ELSE holder[i]]
      /\ saves' = IF step[p] = "write" THEN [saves EXCEPT ![f] = 0] ELSE saves
      /\ sess' = [sess EXCEPT ![p] = NoSession]
      /\ step' = [step EXCEPT ![p] = "page"]
      /\ UNCHANGED <<dir, data, expired>>
  BY DEF Crash, Goto, At
<1>2. Fits(NoSession, "page") /\ Knows(NoSession, "page", dir')
  BY NoSessionType DEF Fits, Knows, Starts
<1>3. CASE step[p] = "lock"
  <2>1. /\ \A i \in Inodes : holder[i] # p
        /\ f \in Inodes /\ f # NoFile
    BY <1>3, EachProcess DEF IInv, LockIsCurrent, Fits, Session
  <2>2. holder' = holder /\ saves' = saves
    BY <1>1, <1>3, <2>1 DEF IInv, TypeOK
  <2>3. /\ sess'[p] = NoSession /\ step'[p] = "page"
        /\ \A q \in Procs \ {p} : sess'[q] = sess[q] /\ step'[q] = step[q]
    BY <1>1 DEF IInv, TypeOK
  <2>4. TypeOK'
    BY <1>1, <2>2, NoSessionType DEF IInv, TypeOK, Steps
  <2>5. LockIsCurrent'
    <3> SUFFICES ASSUME NEW i \in Inodes, NEW q \in Procs
                 PROVE  holder[i] = q
                        <=> sess'[q].active /\ sess'[q].fd = i /\ step'[q] # "lock"
      BY <2>2 DEF LockIsCurrent
    <3>1. QED
      BY <2>1, <2>3, NoSessionType DEF IInv, LockIsCurrent
  <2>6. StepsFit' /\ OpensEmpty'
    BY <1>2, <2>3 DEF IInv, StepsFit, OpensEmpty, Fits
  <2>7. OneName'
    BY <1>1 DEF IInv, OneName
  <2>8. OpenedByName'
    <3> SUFFICES ASSUME NEW q \in Procs PROVE Knows(sess'[q], step'[q], dir)
      BY <1>1, <2>2 DEF OpenedByName, Knows, CountUp
    <3>1. QED
      BY <1>1, <1>2, <2>3, EachProcess DEF Knows
  <2>9. HalfWritten'
    BY <1>1, <2>3 DEF IInv, HalfWritten
  <2>10. ~Reopen /\ ~MayRaise => NoLostVisit'
    BY <1>1, <1>3, <2>2, <2>3 DEF IInv, NoLostVisit
  <2>11. QED
    BY <2>4, <2>5, <2>6, <2>7, <2>8, <2>9, <2>10 DEF IInv
<1>4. CASE step[p] # "lock"
  <2>1. holder' = [i \in Inodes |-> IF i = f THEN Nobody ELSE holder[i]]
    <3>1. \A i \in Inodes : holder[i] = p <=> i = f
      <4>1. \A i \in Inodes : i = f => i # NoFile
        BY SessionAssumption
      <4>2. QED
        BY <1>4, <4>1, EachProcess DEF IInv, LockIsCurrent, Fits
    <3>2. QED
      BY <1>1, <3>1
  <2>2. /\ data' \in [Inodes -> 0 .. MaxVisits] /\ saves' \in [Inodes -> 0 .. MaxVisits]
        /\ expired' \in [Inodes -> BOOLEAN]
    <3>1. 0 \in 0 .. MaxVisits
      BY SessionAssumption
    <3>2. saves' \in [Inodes -> 0 .. MaxVisits]
      BY <1>1, <3>1 DEF IInv, TypeOK
    <3>3. QED
      BY <1>1, <3>2 DEF IInv, TypeOK
  <2>3. \A i \in Inodes : i # f => data'[i] = data[i] /\ saves'[i] = saves[i]
    BY <1>1 DEF IInv, TypeOK
  <2>4. ASSUME ~Reopen, ~MayRaise, f \in Inodes, NEW s \in Sids, dir[s] = f
        PROVE  data'[f] = saves'[f]
    <3>1. f # NoFile
      BY <2>4, SessionAssumption
    <3>2. CASE step[p] = "write"
      BY <1>1, <2>4, <3>2 DEF IInv, TypeOK, HalfWritten
    <3>3. CASE step[p] # "write"
      <4>1. ~ \E q \in Procs : sess[q].fd = dir[s] /\ step[q] = "write"
        BY <1>4, <2>4, <3>1, <3>3, Owner
      <4>2. QED
        BY <1>1, <2>4, <3>1, <3>3, <4>1 DEF IInv, NoLostVisit
    <3>4. QED
      BY <3>2, <3>3
  <2>5. QED
    BY <1>1, <1>2, <1>4, <2>1, <2>2, <2>3, <2>4, NoSessionType, Closing DEF Steps
<1>5. QED
  BY <1>3, <1>4

(* Nothing is said of how old a file is. *)
LEMMA StutterStep ==
    ASSUME IInv, UNCHANGED <<dir, data, holder, saves, sess, step>>,
           expired' \in [Inodes -> BOOLEAN]
    PROVE  IInv'
<1>1. TypeOK' /\ LockIsCurrent' /\ StepsFit' /\ OneName'
  BY DEF IInv, TypeOK, LockIsCurrent, StepsFit, OneName
<1>2. OpensEmpty' /\ OpenedByName'
  BY DEF IInv, OpensEmpty, OpenedByName, CountUp
<1>3. HalfWritten' /\ (~Reopen /\ ~MayRaise => NoLostVisit')
  BY DEF IInv, HalfWritten, NoLostVisit
<1>4. QED
  BY <1>1, <1>2, <1>3 DEF IInv

-----------------------------------------------------------------------------
(* Before the first page. *)
LEMMA InitInv == Init => IInv
<1> SUFFICES ASSUME Init PROVE IInv
  OBVIOUS
<1>1. NoSession \in Session /\ ~NoSession.active /\ NoSession.fd = NoFile
      /\ NoSession.visits = 0
  BY SessionAssumption DEF NoSession, Session
<1>2. \A p \in Procs : sess[p] = NoSession /\ step[p] = "page"
  BY DEF Init
<1>3. TypeOK
  BY <1>1, SessionAssumption DEF Init, TypeOK, Steps
<1>4. LockIsCurrent
  BY <1>1, <1>2, SessionAssumption DEF Init, LockIsCurrent
<1>5. StepsFit /\ OpensEmpty /\ HalfWritten
  BY <1>1, <1>2 DEF StepsFit, OpensEmpty, HalfWritten, Starts
<1>6. OneName /\ OpenedByName /\ NoLostVisit
  BY DEF Init, OneName, OpenedByName, NoLostVisit
<1>7. QED
  BY <1>3, <1>4, <1>5, <1>6 DEF IInv

(* Every step keeps it. *)
LEMMA NextStep == IInv /\ [Next]_vars => IInv'
<1> SUFFICES ASSUME IInv, [Next]_vars PROVE IInv'
  OBVIOUS
<1>1. ASSUME NEW p \in Procs, Lock(p) \/ Truncate(p) \/ Write(p)
      PROVE  IInv'
  BY <1>1, LockStep, TruncateStep, WriteStep
<1>2. ASSUME NEW p \in Procs, Starting(p)
      PROVE  IInv'
  BY <1>2, MeasureStep, CollectStep, UnlinkStep, ReadStep, ReadFailsStep
     DEF Starting, Opening
<1>3. ASSUME NEW p \in Procs, Forget(p) \/ EndPage(p) \/ Destroy(p) \/ DeleteFile(p)
      PROVE  IInv'
  BY <1>3, ForgetStep, EndPageStep, DestroyStep, DeleteFileStep
<1>4. ASSUME NEW p \in Procs, Left(p) \/ Crash(p)
      PROVE  IInv'
  BY <1>4, MeasureStep, ReadLeftStep, WriteLeftStep, CrashStep DEF Left
<1>5. ASSUME NEW p \in Procs, NEW s \in Sids,
             Start(p, s) \/ StartLost(p, s) \/ StartLeft(p, s) \/ ChangeId(p, s)
      PROVE  IInv'
  BY <1>5, StartStep, StartLostStep, ChangeIdStep
<1>6. ASSUME NEW i \in Inodes, Expire(i)
      PROVE  IInv'
  BY <1>6, StutterStep DEF Expire, IInv, TypeOK
<1>7. CASE UNCHANGED vars
  BY <1>7, StutterStep DEF vars, IInv, TypeOK
<1>8. QED
  BY <1>1, <1>2, <1>3, <1>4, <1>5, <1>6, <1>7 DEF Next

(* The inductive invariant of the session files: whoever is past flock has  *)
(* the lock; names, sizes and counts of open files are right.               *)
THEOREM SessionInvariant == Spec => []IInv
BY InitInv, NextStep, PTL DEF Spec

(* A session file is locked by the page that works on it and by nobody      *)
(* else, whatever is destroyed, collected, renamed, killed or left by an    *)
(* error meanwhile.                                                         *)
THEOREM LocksAreCurrent == Spec => []LockIsCurrent
<1>1. IInv => LockIsCurrent
  BY DEF IInv
<1>2. QED
  BY <1>1, SessionInvariant, PTL

(* When a page opens one session, and no script code leaves a session call, *)
(* every visit that was saved is in the file the next page will read.       *)
THEOREM VisitsAreKept == ASSUME ~Reopen, ~MayRaise PROVE Spec => []NoLostVisit
<1>1. IInv => NoLostVisit
  BY DEF IInv
<1>2. QED
  BY <1>1, SessionInvariant, PTL

=============================================================================
