------------------------- MODULE MicroServerProofs -------------------------
(***************************************************************************)
(* What TLAPS proves of the bundled web server, for any clients, sockets,  *)
(* requests, answers, buffer sizes and time limit.                         *)
(***************************************************************************)
EXTENDS MicroServer, Induction, SequenceTheorems

(* Sockets: who is in the list has one of its own, nobody else has one; and *)
(* a bit that select set is that of a listed client with something to read. *)
LoopInv ==
    /\ \A c \in Clients : c \in list <=> fd[c] # NoFd
    /\ \A c, d \in list : fd[c] = fd[d] => c = d
    /\ cur # NoClient => at = "scan" /\ cur \in list
    /\ \A c \in list : peer[c] # "away"
    /\ at = "accept" => ready \subseteq {fd[c] : c \in list}
    /\ at \in {"accept", "scan"} =>
          \A c \in list :
             fd[c] \in ready /\ conn[c].stat = 1 /\ conn[c].got = 0 => Readable(c)

(* Who is not being served is as add_client made it.                        *)
IsNew(c) == conn[c] = Fresh /\ out[c] = NoOutput /\ wire[c] = <<>> /\ due[c] = <<>>
OnlyCurrent == \A c \in Clients \ {cur} : IsNew(c)

(* The server never takes another length for the one a client declared.     *)
AskedLength == \A c \in Clients : conn[c].len \in {0, req[c].len}

(* The streams of an answer: all but the first are untouched, the first one *)
(* is open at the place up to which it was written.                         *)
StreamType == [id : Nat, temp : BOOLEAN, size : Nat, open : BOOLEAN, pos : Nat,
               rsize : Nat, wrote : Nat]
OutType == [streams : Seq(StreamType), header : Nat, readsize : Nat, skipped : BOOLEAN]

Begun(s) == IF s.rsize = 0 THEN s.wrote = 0 ELSE s.open /\ s.pos = s.wrote
NotBegun(s) == s.rsize = 0 /\ s.wrote = 0
InOrder(streams) ==
    /\ \A i \in DOMAIN streams : streams[i].wrote <= streams[i].size /\ Begun(streams[i])
    /\ \A i \in DOMAIN streams : i > 1 => NotBegun(streams[i])
    /\ \A i, j \in DOMAIN streams : i < j => streams[i].id < streams[j].id

Said == {"refused", "416", "206", "200"}
Byte == Nat \X Nat

Idle(c) == out[c] = NoOutput /\ wire[c] = <<>> /\ due[c] = <<>>
OutputInv ==
    /\ out \in [Clients -> OutType]
    /\ wire \in [Clients -> Seq(Said \cup Byte)] /\ due \in [Clients -> Seq(Byte)]
    /\ \A c \in Clients : InOrder(out[c].streams)
    /\ \A c \in Clients : conn[c].stat \in {1, 2} => Idle(c)
    /\ \A c \in Clients :
          conn[c].stat = 4 /\ Skipping(c) => out[c].readsize < out[c].header + conn[c].range

FilesInv == disk \ {Lost} = IF cur = NoClient THEN {} ELSE TempFiles(cur)

-----------------------------------------------------------------------------
LEMMA ConstantFacts ==
  /\ NoClient \notin Clients /\ NoFd \notin Fds
  /\ Timeout \in Nat \ {0} /\ ReadMax \in Nat \ {0} /\ WriteMax \in Nat \ {0}
  /\ Window \in Nat \ {0} /\ BlankSize \in Nat \ {0}
  BY ServerAssumption

LEMMA RequestFacts ==
  ASSUME NEW r \in Requests
  PROVE  /\ r.head \in Nat /\ r.len \in Nat /\ r.range \in Nat /\ r.body \in Nat
         /\ r.blank \in BOOLEAN
  BY ServerAssumption DEF Requests

LEMMA AnswerFacts ==
  ASSUME NEW r \in Requests, NEW a \in r.answers
  PROVE  /\ a.uselen \in BOOLEAN /\ a.stop \in BOOLEAN /\ a.header \in Nat
         /\ a.parts \in Seq([temp : BOOLEAN, size : Nat])
  BY ServerAssumption DEF Requests

LEMMA AnyIsRequest == \A c \in Clients : AnyRequest(c) \in Asks[c] /\ AnyRequest(c) \in Requests
  BY ServerAssumption DEF AnyRequest, Requests

USE ConstantFacts

LEMMA FreshType == Fresh \in ConnType
  BY DEF Fresh, ConnType

LEMMA ConnFields ==
  ASSUME NEW m \in ConnType, NEW x \in {1, 2, 4, 5}, NEW y \in Nat
  PROVE  /\ [m EXCEPT !.stat = x, !.range = y] \in ConnType
         /\ [m EXCEPT !.got = y, !.tries = 0] \in ConnType
<1>1. [m EXCEPT !.stat = x, !.range = y] \in ConnType
  BY DEF ConnType
<1>2. [m EXCEPT !.got = y, !.tries = 0] \in ConnType
  <2>1. 0 \in 0..Timeout
    OBVIOUS
  <2> HIDE ConstantFacts
  <2> QED
    BY <2>1 DEF ConnType
<1> QED
  BY <1>1, <1>2

LEMMA PolledType ==
  ASSUME NEW n \in ConnType, NEW r \in Requests
  PROVE  Polled(n, r) \subseteq ConnType
<1>1. Least(n.tries + 1, Timeout) \in 0..Timeout
  BY DEF ConnType, Least
<1>2. BlankSeen(r, n.got) \subseteq Nat
  BY RequestFacts DEF BlankSeen, ConnType
<1>3. Declared(r, n.got) \subseteq Nat \X Nat
  BY RequestFacts DEF Declared
<1> DEFINE tried == [n EXCEPT !.tries = Least(@ + 1, Timeout)]
           Ended(m) == IF m.tries >= Timeout THEN [m EXCEPT !.stat = 2] ELSE m
           Complete(m) == m.len = m.got - m.head - BlankSize
           Counted(m) == IF Complete(m) THEN [m EXCEPT !.tries = Timeout] ELSE m
           WithHead(h) == [tried EXCEPT !.head = h]
           WithLength(d) == [tried EXCEPT !.len = d[1], !.range = d[2]]
<1>4. tried \in ConnType
  BY <1>1 DEF ConnType
<1>5. ASSUME NEW m \in ConnType PROVE Ended(m) \in ConnType /\ Counted(m) \in ConnType
  BY DEF ConnType
<1>6. ASSUME NEW h \in BlankSeen(r, n.got) PROVE WithHead(h) \in ConnType
  BY <1>2, <1>4 DEF ConnType
<1>7. ASSUME NEW d \in Declared(r, n.got) PROVE WithLength(d) \in ConnType
  BY <1>3, <1>4 DEF ConnType
<1>8. Polled(n, r) =
        IF n.got = 0 THEN {tried}
        ELSE IF n.head = 0 THEN {Ended(WithHead(h)) : h \in BlankSeen(r, n.got)}
        ELSE IF n.len = 0
        THEN {Ended(Counted(WithLength(d))) : d \in Declared(r, n.got)}
        ELSE {Ended(Counted(tried))}
  BY DEF Polled
<1> HIDE DEF tried, Ended, Counted, WithHead, WithLength
<1> QED
  BY <1>4, <1>5, <1>6, <1>7, <1>8

(* What a poll makes of a client: it goes to a handler when it is whole or  *)
(* has waited long enough, if its blank line was found where it is.         *)
LEMMA PolledFacts ==
  ASSUME NEW n \in ConnType, n.stat = 1, NEW r \in Requests, NEW m \in Polled(n, r)
  PROVE  /\ m.got = n.got /\ m.len \in {0, n.len, r.len} /\ m.stat \in {1, 2}
         /\ m.stat = 2 /\ n.len \in {0, r.len} =>
               m.got = Whole(r) \/ n.tries >= Timeout - 1 \/ n.head # r.head
<1> DEFINE tried == [n EXCEPT !.tries = Least(@ + 1, Timeout)]
           Ended(k) == IF k.tries >= Timeout THEN [k EXCEPT !.stat = 2] ELSE k
           Complete(k) == k.len = k.got - k.head - BlankSize
           Counted(k) == IF Complete(k) THEN [k EXCEPT !.tries = Timeout] ELSE k
           Same(k) == k.stat = 1 /\ k.got = n.got /\ (k.tries >= Timeout => n.tries >= Timeout - 1)
<1>0. /\ n.got \in Nat /\ n.head \in Nat /\ n.len \in Nat /\ n.tries \in Nat
      /\ r.head \in Nat /\ r.len \in Nat
  BY RequestFacts DEF ConnType
<1>1. tried \in ConnType /\ Same(tried) /\ tried.len = n.len /\ tried.head = n.head
  <2>1. Least(n.tries + 1, Timeout) \in 0..Timeout
    BY <1>0 DEF Least
  <2>2. Least(n.tries + 1, Timeout) >= Timeout => n.tries >= Timeout - 1
    BY <1>0 DEF Least
  <2> HIDE ConstantFacts
  <2> QED
    BY <2>1, <2>2 DEF ConnType
<1>2. ASSUME NEW k \in ConnType
      PROVE  /\ Ended(k).got = k.got /\ Ended(k).len = k.len /\ Ended(k).stat \in {k.stat, 2}
             /\ k.stat = 1 /\ Ended(k).stat = 2 => k.tries >= Timeout
             /\ Counted(k) \in ConnType /\ Counted(k).got = k.got
             /\ Counted(k).len = k.len /\ Counted(k).stat = k.stat
             /\ Counted(k).tries >= Timeout => Complete(k) \/ k.tries >= Timeout
  BY DEF ConnType
<1>3. CASE n.got = 0
  <2>1. m = tried
    BY <1>3 DEF Polled
  <2> HIDE DEF tried
  <2> QED
    BY <1>0, <1>1, <2>1
<1>4. CASE n.got # 0 /\ n.head = 0
  <2>1. PICK h \in BlankSeen(r, n.got) : m = Ended([tried EXCEPT !.head = h])
    BY <1>4 DEF Polled
  <2>2. h \in Nat
    BY <2>1, <1>0, RequestFacts DEF BlankSeen
  <2> DEFINE k == [tried EXCEPT !.head = h]
  <2>3. k \in ConnType /\ Same(k) /\ k.len = n.len
    <3> HIDE DEF tried
    <3> QED
      BY <1>1, <2>2 DEF ConnType
  <2> HIDE DEF k, Ended
  <2>4. m = Ended(k)
    BY <2>1 DEF k
  <2> QED
    BY <2>3, <2>4, <1>2
<1>5. CASE n.got # 0 /\ n.head # 0 /\ n.len = 0
  <2>1. PICK d \in Declared(r, n.got) :
           m = Ended(Counted([tried EXCEPT !.len = d[1], !.range = d[2]]))
    BY <1>5 DEF Polled
  <2>2. /\ d[1] \in Nat /\ d[2] \in Nat /\ d[1] \in {0, r.len}
        /\ d[1] # r.len => n.got < r.head
    BY <2>1, <1>0, RequestFacts DEF Declared
  <2> DEFINE k == [tried EXCEPT !.len = d[1], !.range = d[2]]
  <2>3. k \in ConnType /\ Same(k) /\ k.len = d[1] /\ k.head = n.head
    <3> HIDE DEF tried
    <3> QED
      BY <1>1, <2>2 DEF ConnType
  <2> HIDE DEF k, Ended, Counted
  <2>4. m = Ended(Counted(k))
    BY <2>1 DEF k
  <2>5. Complete(k) /\ n.head = r.head => n.got = Whole(r)
    BY <2>2, <2>3, <1>0 DEF Whole
  <2> QED
    BY <2>2, <2>3, <2>4, <2>5, <1>2
<1>6. CASE n.got # 0 /\ n.head # 0 /\ n.len # 0
  <2> HIDE DEF tried, Ended, Counted
  <2>1. m = Ended(Counted(tried))
    BY <1>6 DEF Polled, tried, Ended, Counted
  <2>2. Complete(tried) /\ n.head = r.head /\ n.len = r.len => n.got = Whole(r)
    <3>1. tried.len = n.len /\ tried.got = n.got /\ tried.head = n.head
      BY <1>1
    <3>2. Complete(tried) => n.len = n.got - n.head - BlankSize
      BY <3>1
    <3> HIDE DEF Complete
    <3>3. n.len = n.got - n.head - BlankSize => n.got = n.head + BlankSize + n.len
      BY <1>0
    <3> QED
      BY <3>2, <3>3 DEF Whole
  <2> QED
    BY <2>1, <2>2, <1>1, <1>2, <1>6
<1> QED
  BY <1>3, <1>4, <1>5, <1>6

-----------------------------------------------------------------------------
(* What one client's service leaves alone.                                  *)
Work(c) ==
    \/ Receive(c) \/ ReceiveFails(c) \/ Poll(c)
    \/ Refuse(c) \/ NoRedirect(c) \/ NoStream(c)
    \/ \E a \in req[c].answers : Handle(c, a)
    \/ Finish(c) \/ CannotOpen(c) \/ AtEnd(c) \/ Skip(c) \/ Send(c) \/ SendFails(c)

(* What one call of output_client reads of the stream at hand.              *)
Chunk(s) == Least(WriteMax, s.size - s.wrote)

LEMMA FilledFacts ==
  ASSUME NEW s \in StreamType, s.wrote <= s.size, Begun(s), NEW n, n = Chunk(s)
  PROVE  /\ n \in 0..(s.size - s.wrote) /\ n \in Nat /\ (n = 0 <=> s.wrote = s.size)
         /\ s.wrote \in Nat /\ s.size \in Nat /\ s.id \in Nat /\ s.wrote + n \in Nat
         /\ Filled(s) = [s EXCEPT !.open = TRUE, !.pos = s.wrote + n, !.rsize = n]
         /\ Filled(s).pos = s.wrote + n /\ Filled(s).rsize = n
         /\ Filled(s).wrote = s.wrote /\ Filled(s).id = s.id
<1>1. s.wrote \in Nat /\ s.size \in Nat /\ s.id \in Nat
  BY DEF StreamType
<1>2. n \in 0..(s.size - s.wrote) /\ n \in Nat /\ (n = 0 <=> s.wrote = s.size)
  BY <1>1 DEF Least, Chunk
<1>3. (IF s.rsize = 0 THEN 0 ELSE s.pos) = s.wrote
  BY DEF Begun
<1>4. Filled(s) = [s EXCEPT !.open = TRUE, !.pos = s.wrote + n, !.rsize = n]
  BY <1>3 DEF Filled, Chunk
<1>5. /\ Filled(s).pos = s.wrote + n /\ Filled(s).rsize = n
      /\ Filled(s).wrote = s.wrote /\ Filled(s).id = s.id
  BY <1>4 DEF StreamType
<1> QED
  BY <1>1, <1>2, <1>4, <1>5

LEMMA HeadFacts ==
  ASSUME OutputInv, NEW c \in Clients, out[c].streams # <<>>
  PROVE  /\ out[c].streams \in Seq(StreamType) /\ Len(out[c].streams) \in Nat \ {0}
         /\ Head1(c) \in StreamType /\ Head1(c).wrote <= Head1(c).size /\ Begun(Head1(c))
<1>1. out[c].streams \in Seq(StreamType)
  BY DEF OutputInv, OutType
<1>2. 1 \in DOMAIN out[c].streams /\ Len(out[c].streams) \in Nat \ {0}
  BY <1>1
<1>3. Head1(c) \in StreamType
  BY <1>1, <1>2 DEF Head1
<1> QED
  BY <1>1, <1>2, <1>3 DEF Head1, OutputInv, InOrder

LEMMA WorkIsLocal ==
  ASSUME ServerTypeOK, OutputInv, NEW c \in Clients, Work(c)
  PROVE  /\ cur = c /\ UNCHANGED <<peer, req, list, fd, ready, at, cur>>
         /\ running' \in BOOLEAN /\ errno' \in {"EAGAIN", "other"}
         /\ inbox' \in [Clients -> Nat] /\ room' \in [Clients -> 0..Window]
         /\ \E n \in ConnType : conn' = [conn EXCEPT ![c] = n]
<1> DEFINE Local ==
         /\ cur = c /\ UNCHANGED <<peer, req, list, fd, ready, at, cur>>
         /\ running' \in BOOLEAN /\ errno' \in {"EAGAIN", "other"}
         /\ inbox' \in [Clients -> Nat] /\ room' \in [Clients -> 0..Window]
         /\ \E n \in ConnType : conn' = [conn EXCEPT ![c] = n]
<1>0. /\ conn[c] \in ConnType /\ conn = [conn EXCEPT ![c] = conn[c]]
      /\ \A x \in {1, 2, 4, 5} : [conn[c] EXCEPT !.stat = x] \in ConnType
      /\ running \in BOOLEAN /\ errno \in {"EAGAIN", "other"}
      /\ inbox \in [Clients -> Nat] /\ room \in [Clients -> 0..Window]
      /\ req[c] \in Requests /\ inbox[c] \in Nat
  BY DEF ServerTypeOK, ConnType
<1> USE DEF sockets, loop, answer
<1>1. CASE Receive(c)
  <2> DEFINE n == Least(inbox[c], ReadMax)
             m == [conn[c] EXCEPT !.got = @ + n, !.tries = 0]
  <2>1. n \in Nat /\ inbox[c] - n \in Nat
    BY <1>0 DEF Least
  <2>2. m \in ConnType
    <3>1. conn[c].got + n \in Nat
      BY <1>0, <2>1 DEF ConnType
    <3> HIDE DEF n
    <3> QED
      BY <1>0, <3>1, ConnFields
  <2>3. conn' = [conn EXCEPT ![c] = m]
    BY <1>1, <1>0 DEF Receive, ServerTypeOK
  <2> QED
    BY <1>0, <1>1, <2>1, <2>2, <2>3 DEF Receive, Reading
<1>2. CASE ReceiveFails(c)
  <2>1. conn' = [conn EXCEPT ![c] = [conn[c] EXCEPT !.stat = 5]]
    BY <1>2 DEF ReceiveFails
  <2> QED
    BY <1>0, <1>2, <2>1 DEF ReceiveFails, Reading
<1>3. CASE Poll(c)
  BY <1>0, <1>3, PolledType DEF Poll, Reading
<1>4. CASE Refuse(c)
  <2>1. conn' = [conn EXCEPT ![c] = [conn[c] EXCEPT !.stat = 5]]
    BY <1>4 DEF Refuse
  <2> QED
    BY <1>0, <1>4, <2>1 DEF Refuse, Processing
<1>5. CASE NoRedirect(c)
  <2>1. [conn[c] EXCEPT !.stat = 4] \in ConnType
    BY <1>0 DEF ConnType
  <2>2. conn' = [conn EXCEPT ![c] = [conn[c] EXCEPT !.stat = 4]]
    BY <1>5, <1>0 DEF NoRedirect, ServerTypeOK
  <2> QED
    BY <1>0, <1>5, <2>1, <2>2 DEF NoRedirect, Processing
<1>6. CASE NoStream(c)
  <2>1. conn' = [conn EXCEPT ![c] = [conn[c] EXCEPT !.stat = 5]]
    BY <1>6 DEF NoStream
  <2> QED
    BY <1>0, <1>6, <2>1 DEF NoStream, Processing
<1>7. ASSUME NEW a \in req[c].answers, Handle(c, a) PROVE Local
  <2>1. PICK x \in {4, 5}, y \in {0, conn[c].range} :
           conn' = [conn EXCEPT ![c].stat = x, ![c].range = y]
    BY <1>7 DEF Handle
  <2>2. [conn[c] EXCEPT !.stat = x, !.range = y] \in ConnType
    <3>1. y \in Nat /\ x \in {1, 2, 4, 5}
      BY <1>0, <2>1 DEF ConnType
    <3> QED
      BY <1>0, <3>1, ConnFields
  <2>3. conn' = [conn EXCEPT ![c] = [conn[c] EXCEPT !.stat = x, !.range = y]]
    BY <2>1, <1>0 DEF ServerTypeOK
  <2> QED
    BY <1>0, <1>7, <2>2, <2>3 DEF Handle, Processing, Stops
<1>8. CASE Finish(c)
  <2>1. conn' = [conn EXCEPT ![c] = [conn[c] EXCEPT !.stat = 5]]
    BY <1>8 DEF Finish
  <2> QED
    BY <1>0, <1>8, <2>1 DEF Finish, Sending
<1>9. CASE CannotOpen(c) \/ AtEnd(c) \/ Skip(c) \/ SendFails(c)
  BY <1>0, <1>9 DEF CannotOpen, AtEnd, Skip, SendFails, Sending
<1>10. CASE Send(c)
  <2> DEFINE n == Least(Filled(Head1(c)).rsize, room[c])
  <2>1. Filled(Head1(c)).rsize \in Nat
    BY <1>10, HeadFacts, FilledFacts DEF Send, StreamType
  <2>2. room[c] - n \in 0..Window
    BY <1>0, <2>1 DEF Least
  <2>3. room' = [room EXCEPT ![c] = room[c] - n]
    BY <1>10 DEF Send
  <2>4. errno' \in {"EAGAIN", "other"}
    BY <1>0, <1>10 DEF Send
  <2> QED
    BY <1>0, <1>10, <2>2, <2>3, <2>4 DEF Send, Sending
<1> QED
  BY <1>1, <1>2, <1>3, <1>4, <1>5, <1>6, <1>7, <1>8, <1>9, <1>10 DEF Work

(* A peer's step goes only forward, and takes nothing from the server.      *)
LEMMA PeerIsLocal ==
  ASSUME ServerTypeOK, NEW c \in Clients, Peer(c)
  PROVE  /\ UNCHANGED <<list, fd, ready, at, cur, running, errno, conn, out, disk, wire, due>>
         /\ peer' \in [Clients -> {"away", "open", "closed", "reset"}]
         /\ req' \in [Clients -> Requests]
         /\ inbox' \in [Clients -> Nat] /\ room' \in [Clients -> 0..Window]
         /\ \A d \in Clients : Readable(d) => Readable(d)'
         /\ \A d \in Clients :
               /\ peer[d] # "away" => peer'[d] # "away" /\ req'[d] = req[d]
               /\ peer'[d] # "reset" => peer[d] # "reset"
<1> USE DEF ServerTypeOK, loop, answer, Readable
<1>1. ASSUME NEW r \in Asks[c], Connect(c, r) PROVE r \in Requests
  BY DEF Requests
<1>2. ASSUME NEW r \in Asks[c], Connect(c, r)
      PROVE  /\ UNCHANGED <<loop, errno, conn, answer, inbox, room>>
             /\ peer' = [peer EXCEPT ![c] = "open"] /\ peer[c] = "away"
             /\ req' = [req EXCEPT ![c] = r]
  BY <1>2 DEF Connect
<1>3. ASSUME NEW n \in 1..Total(req[c]), PeerSends(c, n)
      PROVE  /\ UNCHANGED <<loop, errno, conn, answer, peer, req, room>>
             /\ inbox' = [inbox EXCEPT ![c] = @ + n] /\ n \in Nat
  BY <1>3 DEF PeerSends
<1>4. CASE \E r \in Asks[c] : Connect(c, r)
  BY <1>1, <1>2, <1>4
<1>5. CASE \E n \in 1..Total(req[c]) : PeerSends(c, n)
  BY <1>3, <1>5
<1>6. CASE PeerReads(c)
  <2>1. room[c] + 1 \in 0..Window
    BY <1>6 DEF PeerReads
  <2> QED
    BY <1>6, <2>1 DEF PeerReads
<1>7. CASE PeerCloses(c)
  BY <1>7 DEF PeerCloses
<1>8. CASE PeerResets(c)
  BY <1>8 DEF PeerResets
<1> QED
  BY <1>4, <1>5, <1>6, <1>7, <1>8 DEF Peer

LEMMA NextCases ==
  ASSUME [ServerNext]_server
  PROVE  \/ Select \/ AcceptFails \/ EndScan
         \/ \E c \in Clients : Visit(c) \/ Delete(c) \/ Work(c) \/ Peer(c)
                               \/ \E f \in Fds : Accept(c, f)
         \/ UNCHANGED server
  BY DEF ServerNext, Server, Serve, Work

-----------------------------------------------------------------------------
LEMMA DiskType ==
  ASSUME ServerTypeOK, NEW c \in Clients, Work(c)
  PROVE  disk' \subseteq (Clients \cup {NoClient}) \X Nat
<1>1. disk \subseteq (Clients \cup {NoClient}) \X Nat /\ req[c] \in Requests
  BY DEF ServerTypeOK
<1>2. CASE NoStream(c)
  <2>1. Lost \in (Clients \cup {NoClient}) \X Nat
    BY DEF Lost
  <2> QED
    BY <1>1, <1>2, <2>1 DEF NoStream
<1>3. ASSUME NEW a \in req[c].answers, Handle(c, a)
      PROVE  disk' \subseteq (Clients \cup {NoClient}) \X Nat
  <2>1. DOMAIN a.parts \subseteq Nat
    BY <1>1, AnswerFacts
  <2> QED
    BY <1>1, <1>3, <2>1 DEF Handle
<1>4. ASSUME Drop(c) PROVE disk' \subseteq disk
  BY <1>4 DEF Drop
<1>5. CASE CannotOpen(c) \/ AtEnd(c) \/ SendFails(c)
  BY <1>1, <1>4, <1>5 DEF CannotOpen, AtEnd, SendFails
<1>6. CASE \/ Receive(c) \/ ReceiveFails(c) \/ Poll(c) \/ Refuse(c) \/ NoRedirect(c)
           \/ Finish(c) \/ Skip(c) \/ Send(c)
  BY <1>1, <1>6 DEF Receive, ReceiveFails, Poll, Refuse, NoRedirect, Finish, Skip, Send, answer
<1> QED
  BY <1>2, <1>3, <1>5, <1>6 DEF Work

LEMMA TypeStep ==
  ASSUME ServerTypeOK, LoopInv, OutputInv, [ServerNext]_server
  PROVE  ServerTypeOK'
<1> USE DEF ServerTypeOK
<1>1. CASE Select
  <2>1. \A c \in list : fd[c] \in Fds
    BY DEF LoopInv
  <2>2. ready' \subseteq Fds
    BY <1>1, <2>1 DEF Select
  <2> QED
    BY <1>1, <2>2 DEF Select, sockets, answer
<1>2. CASE AcceptFails \/ EndScan
  BY <1>2 DEF AcceptFails, EndScan, sockets, answer
<1>3. ASSUME NEW c \in Clients, Visit(c) PROVE ServerTypeOK'
  BY <1>3 DEF Visit, sockets, answer
<1>4. ASSUME NEW c \in Clients, Delete(c) PROVE ServerTypeOK'
  BY <1>4, AnyIsRequest, FreshType DEF Delete
<1>5. ASSUME NEW c \in Clients, Work(c) PROVE ServerTypeOK'
  BY <1>5, WorkIsLocal, DiskType
<1>6. ASSUME NEW c \in Clients, Peer(c) PROVE ServerTypeOK'
  BY <1>6, PeerIsLocal
<1>7. ASSUME NEW c \in Clients, NEW f \in Fds, Accept(c, f) PROVE ServerTypeOK'
  BY <1>7 DEF Accept, sockets, answer
<1>8. CASE UNCHANGED server
  BY <1>8 DEF server, sockets, loop, answer
<1> QED
  BY <1>1, <1>2, <1>3, <1>4, <1>5, <1>6, <1>7, <1>8, NextCases

-----------------------------------------------------------------------------
(* A client that is served keeps its bit only as long as it is readable or  *)
(* has been read from: reading is what takes the data away.                 *)
LEMMA WorkKeepsReadable ==
  ASSUME ServerTypeOK, OutputInv, NEW c \in Clients, Work(c), NEW d \in Clients,
         conn'[d].stat = 1 /\ conn'[d].got = 0,
         conn[d].stat = 1 /\ conn[d].got = 0 => Readable(d)
  PROVE  Readable(d)'
<1>0. /\ peer' = peer /\ inbox \in [Clients -> Nat] /\ conn \in [Clients -> ConnType]
      /\ conn[c] \in ConnType /\ conn[d] \in ConnType /\ inbox[c] \in Nat
  BY WorkIsLocal DEF ServerTypeOK
<1>1. CASE Receive(c)
  <2> DEFINE n == Least(inbox[c], ReadMax)
  <2>1. n \in Nat \ {0}
    BY <1>0, <1>1 DEF Receive, Least
  <2>2. /\ inbox' = [inbox EXCEPT ![c] = @ - n]
        /\ conn' = [conn EXCEPT ![c].got = @ + n, ![c].tries = 0]
    BY <1>1 DEF Receive
  <2> HIDE DEF n
  <2>3. conn'[c].got = conn[c].got + n /\ conn[c].got \in Nat
    BY <1>0, <2>2 DEF ConnType
  <2>4. d # c
    BY <2>1, <2>3
  <2>5. conn'[d] = conn[d] /\ inbox'[d] = inbox[d]
    BY <1>0, <2>2, <2>4
  <2> QED
    BY <1>0, <2>5 DEF Readable
<1>2. ASSUME inbox' = inbox, conn'[d].stat = 1 /\ conn'[d].got = 0 => conn[d].stat = 1 /\ conn[d].got = 0
      PROVE  Readable(d)'
  BY <1>0, <1>2 DEF Readable
<1>3. CASE Poll(c)
  <2>1. PICK n \in Polled(conn[c], req[c]) : conn' = [conn EXCEPT ![c] = n]
    BY <1>3 DEF Poll
  <2>2. conn[c].stat = 1
    BY <1>3 DEF Poll, Reading
  <2>3. n.got = conn[c].got
    BY <1>0, <2>2, PolledFacts DEF ServerTypeOK
  <2> QED
    BY <1>0, <1>2, <1>3, <2>1, <2>2, <2>3 DEF Poll, sockets
<1>4. CASE ReceiveFails(c) \/ Refuse(c) \/ NoStream(c) \/ Finish(c)
  <2>1. conn' = [conn EXCEPT ![c] = [conn[c] EXCEPT !.stat = 5]] /\ inbox' = inbox
    BY <1>4 DEF ReceiveFails, Refuse, NoStream, Finish, sockets
  <2> QED
    BY <1>0, <1>2, <2>1 DEF ConnType
<1>5. CASE NoRedirect(c)
  BY <1>0, <1>2, <1>5 DEF NoRedirect, sockets, ConnType
<1>6. ASSUME NEW a \in req[c].answers, Handle(c, a) PROVE Readable(d)'
  <2>1. PICK x \in {4, 5}, y \in {0, conn[c].range} :
           conn' = [conn EXCEPT ![c].stat = x, ![c].range = y]
    BY <1>6 DEF Handle
  <2> QED
    BY <1>0, <1>2, <1>6, <2>1 DEF Handle, sockets, ConnType
<1>7. CASE CannotOpen(c) \/ AtEnd(c) \/ Skip(c) \/ Send(c) \/ SendFails(c)
  BY <1>2, <1>7 DEF CannotOpen, AtEnd, Skip, Send, SendFails, sockets
<1> QED
  BY <1>1, <1>3, <1>4, <1>5, <1>6, <1>7 DEF Work

LEMMA LoopStep ==
  ASSUME ServerTypeOK, LoopInv, OnlyCurrent, OutputInv, [ServerNext]_server
  PROVE  LoopInv'
<1>0. /\ fd \in [Clients -> Fds \cup {NoFd}] /\ list \subseteq Clients /\ ready \subseteq Fds
      /\ peer \in [Clients -> {"away", "open", "closed", "reset"}]
      /\ cur \in Clients \cup {NoClient} /\ conn \in [Clients -> ConnType]
      /\ inbox \in [Clients -> Nat]
  BY DEF ServerTypeOK
<1>1. CASE Select
  BY <1>0, <1>1 DEF LoopInv, Select, sockets, Readable
<1>2. CASE AcceptFails \/ EndScan
  BY <1>0, <1>2 DEF LoopInv, AcceptFails, EndScan, sockets, Readable
<1>3. ASSUME NEW c \in Clients, Visit(c) PROVE LoopInv'
  BY <1>0, <1>3 DEF LoopInv, Visit, sockets, Readable
<1>4. ASSUME NEW c \in Clients, Delete(c) PROVE LoopInv'
  BY <1>0, <1>4 DEF LoopInv, Delete, Readable
<1>5. ASSUME NEW c \in Clients, Work(c) PROVE LoopInv'
  <2>1. cur = c /\ UNCHANGED <<peer, req, list, fd, ready, at, cur>>
    BY <1>5, WorkIsLocal
  <2>2. \A d \in list : fd[d] \in ready =>
           (conn[d].stat = 1 /\ conn[d].got = 0 => Readable(d))
    BY <1>0, <2>1 DEF LoopInv
  <2>3. \A d \in list : fd[d] \in ready /\ conn'[d].stat = 1 /\ conn'[d].got = 0 => Readable(d)'
    BY <1>0, <1>5, <2>2, WorkKeepsReadable
  <2> QED
    BY <2>1, <2>3 DEF LoopInv
<1>6. ASSUME NEW c \in Clients, Peer(c) PROVE LoopInv'
  <2>1. /\ UNCHANGED <<list, fd, ready, at, cur, conn>>
        /\ \A d \in Clients : Readable(d) => Readable(d)'
        /\ \A d \in Clients : peer[d] # "away" => peer'[d] # "away"
    BY <1>6, PeerIsLocal
  <2> QED
    BY <1>0, <2>1 DEF LoopInv
<1>7. ASSUME NEW c \in Clients, NEW f \in Fds, Accept(c, f) PROVE LoopInv'
  BY <1>0, <1>7 DEF LoopInv, Accept, Backlog, sockets, Readable
<1>8. CASE UNCHANGED server
  BY <1>8 DEF LoopInv, server, sockets, loop, answer, Readable
<1> QED
  BY <1>1, <1>2, <1>3, <1>4, <1>5, <1>6, <1>7, <1>8, NextCases

-----------------------------------------------------------------------------
(* The streams of an answer as they come and go.                            *)
LEMMA StreamsFacts ==
  ASSUME NEW r \in Requests, NEW a \in r.answers
  PROVE  /\ Streams(a) \in Seq(StreamType) /\ Len(Streams(a)) = Len(a.parts)
         /\ DOMAIN Streams(a) = DOMAIN a.parts /\ DOMAIN a.parts = 1..Len(a.parts)
         /\ \A i \in DOMAIN a.parts :
               /\ Streams(a)[i].id = i /\ Streams(a)[i].temp = a.parts[i].temp
               /\ Streams(a)[i].size = a.parts[i].size
               /\ Streams(a)[i].rsize = 0 /\ Streams(a)[i].wrote = 0
               /\ a.uselen => Streams(a)[i].open
         /\ InOrder(Streams(a))
<1>1. a.parts \in Seq([temp : BOOLEAN, size : Nat]) /\ a.uselen \in BOOLEAN
  BY AnswerFacts
<1>2. DOMAIN a.parts = 1..Len(a.parts) /\ Len(a.parts) \in Nat
  BY <1>1
<1>a. ASSUME NEW i \in 1..Len(a.parts)
      PROVE  a.parts[i].temp \in BOOLEAN /\ a.parts[i].size \in Nat /\ i \in Nat
  <2>1. a.parts[i] \in [temp : BOOLEAN, size : Nat]
    BY <1>1, <1>2, ElementOfSeq
  <2> QED
    BY <1>2, <2>1
<1> DEFINE S(i) == IF a.uselen THEN [Stream(i, a.parts[i]) EXCEPT !.open = TRUE]
                   ELSE Stream(i, a.parts[i])
<1>3. ASSUME NEW i \in 1..Len(a.parts)
      PROVE  /\ S(i) \in StreamType /\ S(i).id = i /\ S(i).temp = a.parts[i].temp
             /\ S(i).size = a.parts[i].size /\ S(i).rsize = 0 /\ S(i).wrote = 0
             /\ a.uselen => S(i).open
  <2>1. a.parts[i].temp \in BOOLEAN /\ a.parts[i].size \in Nat /\ i \in Nat
    BY <1>a
  <2> QED
    BY <1>1, <2>1 DEF Stream, StreamType
<1>4. Streams(a) = [i \in 1..Len(a.parts) |-> S(i)]
  BY DEF Streams
<1> HIDE DEF S
<1>5. Streams(a) \in [1..Len(a.parts) -> StreamType]
  BY <1>3, <1>4
<1>6. Streams(a) \in Seq(StreamType) /\ Len(Streams(a)) = Len(a.parts)
      /\ DOMAIN Streams(a) = 1..Len(a.parts)
  BY <1>2, <1>5
<1>7. \A i \in 1..Len(a.parts) : Streams(a)[i] = S(i)
  BY <1>4
<1>8. ASSUME NEW i \in 1..Len(a.parts), NEW j \in 1..Len(a.parts), i < j
      PROVE  Streams(a)[i].id < Streams(a)[j].id
  BY <1>3, <1>7, <1>8
<1>9. ASSUME NEW i \in 1..Len(a.parts)
      PROVE  Streams(a)[i].wrote <= Streams(a)[i].size /\ Begun(Streams(a)[i]) /\ NotBegun(Streams(a)[i])
  <2>1. a.parts[i].size \in Nat
    BY <1>a
  <2> QED
    BY <1>3, <1>7, <2>1 DEF Begun, NotBegun
<1>10. InOrder(Streams(a))
  BY <1>6, <1>8, <1>9 DEF InOrder
<1> QED
  BY <1>2, <1>3, <1>6, <1>7, <1>10

LEMMA TailInOrder ==
  ASSUME NEW ss \in Seq(StreamType), ss # <<>>, InOrder(ss)
  PROVE  /\ Tail(ss) \in Seq(StreamType) /\ InOrder(Tail(ss))
         /\ Len(ss) \in Nat \ {0} /\ DOMAIN ss = 1..Len(ss)
         /\ DOMAIN Tail(ss) = 1..(Len(ss) - 1)
         /\ \A i \in 1..(Len(ss) - 1) : Tail(ss)[i] = ss[i + 1]
<1>1. /\ Tail(ss) \in Seq(StreamType) /\ Len(ss) \in Nat \ {0} /\ DOMAIN ss = 1..Len(ss)
      /\ DOMAIN Tail(ss) = 1..(Len(ss) - 1)
      /\ \A i \in 1..(Len(ss) - 1) : Tail(ss)[i] = ss[i + 1] /\ i + 1 \in DOMAIN ss /\ i + 1 > 1
  OBVIOUS
<1>2. InOrder(Tail(ss))
  BY <1>1 DEF InOrder
<1> QED
  BY <1>1, <1>2

LEMMA HeadInOrder ==
  ASSUME NEW ss \in Seq(StreamType), ss # <<>>, InOrder(ss),
         NEW s \in StreamType, s.id = ss[1].id, s.wrote <= s.size, Begun(s),
         NEW tt, tt = [ss EXCEPT ![1] = s]
  PROVE  /\ tt \in Seq(StreamType) /\ Len(tt) = Len(ss) /\ tt # <<>>
         /\ DOMAIN tt = DOMAIN ss /\ 1 \in DOMAIN ss /\ tt[1] = s
         /\ \A i \in DOMAIN ss : i # 1 => tt[i] = ss[i]
         /\ InOrder(tt)
<1>1. 1 \in DOMAIN ss /\ DOMAIN ss = 1..Len(ss) /\ Len(ss) \in Nat \ {0}
  OBVIOUS
<1>2. /\ tt \in Seq(StreamType) /\ Len(tt) = Len(ss)
      /\ DOMAIN tt = DOMAIN ss /\ tt[1] = s
      /\ \A i \in DOMAIN ss : i # 1 => tt[i] = ss[i]
  BY <1>1
<1>3. InOrder(tt)
  BY <1>1, <1>2 DEF InOrder
<1> QED
  BY <1>1, <1>2, <1>3

LEMMA BytesFacts ==
  ASSUME NEW i \in Nat, NEW from \in Nat, NEW to \in Nat, from <= to
  PROVE  /\ Bytes(i, from, to) \in Seq(Byte) /\ Len(Bytes(i, from, to)) = to - from
         /\ \A n \in 1..(to - from) : Bytes(i, from, to)[n] = <<i, from + n - 1>>
<1> DEFINE k == to - from
<1>1. k \in Nat
  OBVIOUS
<1>2. Bytes(i, from, to) = [n \in 1..k |-> <<i, from + n - 1>>]
  BY DEF Bytes
<1> HIDE DEF k
<1>3. \A n \in 1..k : <<i, from + n - 1>> \in Byte
  BY <1>1 DEF Byte
<1>4. Bytes(i, from, to) \in [1..k -> Byte]
  BY <1>2, <1>3
<1>5. Bytes(i, from, to) \in Seq(Byte) /\ Len(Bytes(i, from, to)) = k
  BY <1>1, <1>4
<1> QED
  BY <1>2, <1>5 DEF k

(* What one call of output_client does to the stream at hand.               *)
Written(s, n, m) == [s EXCEPT !.open = TRUE, !.pos = s.wrote + m, !.rsize = n, !.wrote = s.wrote + m]

LEMMA MoreBytes ==
  ASSUME NEW i \in Nat, NEW w \in Nat, NEW m \in Nat
  PROVE  /\ Bytes(i, w, w + m) \in Seq(Byte) /\ Len(Bytes(i, w, w + m)) = m
         /\ \A k \in 1..m : Bytes(i, w, w + m)[k] = <<i, w + k - 1>>
<1>1. (w + m) - w = m /\ \A k \in 1..m : w + k - 1 \in Nat
  OBVIOUS
<1> DEFINE g(k) == <<i, w + k - 1>>
<1>2. Bytes(i, w, w + m) = [k \in 1..m |-> g(k)]
  BY <1>1 DEF Bytes
<1>3. \A k \in 1..m : g(k) \in Byte
  BY <1>1 DEF Byte
<1>4. \A k \in 1..m : g(k) = <<i, w + k - 1>>
  OBVIOUS
<1> HIDE DEF g
<1>5. /\ [k \in 1..m |-> g(k)] \in Seq(Byte) /\ Len([k \in 1..m |-> g(k)]) = m
      /\ \A k \in 1..m : [j \in 1..m |-> g(j)][k] = g(k)
  BY <1>3
<1> QED
  BY <1>2, <1>4, <1>5

LEMMA WrittenFacts ==
  ASSUME NEW s \in StreamType, s.wrote <= s.size, Begun(s),
         NEW n, n = Chunk(s), n # 0, NEW m \in 0..n
  PROVE  /\ Written(s, n, m) \in StreamType /\ Written(s, n, m).id = s.id
         /\ Written(s, n, m).temp = s.temp /\ Written(s, n, m).size = s.size
         /\ Written(s, n, m).open /\ Written(s, n, m).wrote = s.wrote + m
         /\ s.wrote + m <= s.size /\ Begun(Written(s, n, m))
<1>1. n \in 0..(s.size - s.wrote) /\ n \in Nat /\ s.wrote \in Nat /\ s.size \in Nat
  BY FilledFacts
<1>2. s.wrote + m \in Nat /\ s.wrote + m <= s.size
  BY <1>1
<1>3. Written(s, n, m) \in StreamType
  BY <1>1, <1>2 DEF Written, StreamType
<1>4. /\ Written(s, n, m).id = s.id /\ Written(s, n, m).temp = s.temp
      /\ Written(s, n, m).size = s.size /\ Written(s, n, m).open
      /\ Written(s, n, m).wrote = s.wrote + m /\ Written(s, n, m).rsize = n
      /\ Written(s, n, m).pos = s.wrote + m
  BY DEF Written, StreamType
<1> QED
  BY <1>2, <1>3, <1>4 DEF Begun

LEMMA AtEndEffect ==
  ASSUME OutputInv, NEW c \in Clients, AtEnd(c)
  PROVE  /\ out[c].streams # <<>> /\ Head1(c).wrote = Head1(c).size /\ Drop(c)
         /\ UNCHANGED <<conn, wire, due>>
<1>1. out[c].streams # <<>> /\ UNCHANGED <<conn, wire, due>>
  BY DEF AtEnd
<1> DEFINE h == Head1(c)
           n == Chunk(h)
<1>2. h \in StreamType /\ h.wrote <= h.size /\ Begun(h)
  BY <1>1, HeadFacts
<1>3. /\ n = 0 <=> h.wrote = h.size
      /\ Filled(h).rsize = n /\ Filled(h).pos = h.wrote + n /\ Filled(h).wrote = h.wrote
      /\ h.wrote \in Nat
  BY <1>2, FilledFacts
<1>4. n = 0
  BY <1>3 DEF AtEnd
<1> HIDE DEF n
<1>5. Filled(h).pos = Filled(h).wrote
  BY <1>3, <1>4
<1> QED
  BY <1>1, <1>3, <1>4, <1>5 DEF AtEnd

(* The output of a client whose stream at hand has become s.                *)
WithHead(c, s, read, skipped) ==
    [out[c] EXCEPT !.readsize = read, !.skipped = skipped, !.streams[1] = s]

LEMMA WithHeadType ==
  ASSUME OutputInv, NEW c \in Clients, out[c].streams # <<>>, NEW s \in StreamType,
         NEW read \in Nat, NEW skipped \in BOOLEAN
  PROVE  /\ WithHead(c, s, read, skipped) \in OutType
         /\ WithHead(c, s, read, skipped).streams = [out[c].streams EXCEPT ![1] = s]
         /\ WithHead(c, s, read, skipped).header = out[c].header
         /\ WithHead(c, s, read, skipped).readsize = read
         /\ WithHead(c, s, read, skipped).skipped = skipped
<1>1. /\ out \in [Clients -> OutType] /\ out[c] \in OutType
      /\ out[c].streams \in Seq(StreamType) /\ 1 \in 1..Len(out[c].streams)
  BY HeadFacts DEF OutputInv
<1> DEFINE ss == [out[c].streams EXCEPT ![1] = s]
<1>2. ss \in Seq(StreamType)
  BY <1>1, ExceptSeq
<1>3. WithHead(c, s, read, skipped) =
         [out[c] EXCEPT !.readsize = read, !.skipped = skipped, !.streams = ss]
  BY <1>1 DEF OutType, WithHead
<1> HIDE DEF ss
<1>5. [out[c] EXCEPT !.readsize = read, !.skipped = skipped, !.streams = ss] \in OutType
  BY <1>1, <1>2 DEF OutType
<1>6. /\ WithHead(c, s, read, skipped).streams = ss
      /\ WithHead(c, s, read, skipped).header = out[c].header
      /\ WithHead(c, s, read, skipped).readsize = read
      /\ WithHead(c, s, read, skipped).skipped = skipped
  BY <1>1, <1>3 DEF OutType
<1> QED
  BY <1>3, <1>5, <1>6 DEF ss

LEMMA SkipEffect ==
  ASSUME OutputInv, NEW c \in Clients, Skip(c), conn[c].range \in Nat
  PROVE  \E n \in Nat \ {0} : \E m \in 0..n, skipped \in BOOLEAN :
            /\ out[c].streams # <<>> /\ n = Chunk(Head1(c))
            /\ out' = [out EXCEPT ![c] = WithHead(c, Written(Head1(c), n, m),
                                                  out[c].readsize + n, skipped)]
            /\ IF skipped THEN out[c].readsize + m = out[c].header + conn[c].range
               ELSE m = n /\ out[c].readsize + n < out[c].header + conn[c].range
            /\ UNCHANGED <<conn, disk, wire, due>>
<1> DEFINE h == Head1(c)
           n == Chunk(h)
           read == out[c].readsize + n
           skip == out[c].header + conn[c].range
           m == IF read < skip THEN n ELSE n - (read - skip)
           skipped == (read >= skip)
<1>1. /\ out[c].streams # <<>> /\ h \in StreamType /\ h.wrote <= h.size /\ Begun(h)
      /\ conn[c].stat = 4 /\ Skipping(c) /\ out \in [Clients -> OutType]
  BY HeadFacts DEF Skip, Sending, OutputInv
<1>2. /\ Filled(h) = [h EXCEPT !.open = TRUE, !.pos = h.wrote + n, !.rsize = n]
      /\ n \in Nat /\ Filled(h).rsize = n /\ Filled(h).wrote = h.wrote /\ h.wrote \in Nat
  BY <1>1, FilledFacts
<1>3. n # 0
  BY <1>2 DEF Skip
<1>4. out[c].readsize \in Nat /\ out[c].header \in Nat
  BY <1>1 DEF OutType
<1>5. out[c].readsize < skip /\ skip \in Nat
  BY <1>1, <1>4 DEF OutputInv
<1>6. /\ m \in 0..n /\ (skipped => out[c].readsize + m = skip)
      /\ read \in Nat /\ skipped \in BOOLEAN /\ (read < skip <=> ~skipped)
      /\ read < skip => m = n
  <2> HIDE DEF n
  <2> QED
    BY <1>2, <1>4, <1>5
<1>7. Written(h, n, m) \in StreamType
  <2> HIDE DEF m
  <2> QED
    BY <1>1, <1>3, <1>6, WrittenFacts
<1>8. out' = [out EXCEPT ![c] = WithHead(c, Written(h, n, m), read, skipped)]
      /\ UNCHANGED <<conn, disk, wire, due>>
  <2> DEFINE f == Filled(h)
             now == out[c].readsize + f.rsize
             excess == now - out[c].header - conn[c].range
             all == [f EXCEPT !.wrote = @ + f.rsize]
             kept == IF excess < 0 THEN all
                     ELSE [all EXCEPT !.wrote = @ - excess, !.pos = f.wrote + f.rsize - excess]
  <2>1. out' = [out EXCEPT ![c].readsize = now, ![c].skipped = excess >= 0, ![c].streams[1] = kept]
        /\ UNCHANGED <<conn, disk, wire, due>>
    BY DEF Skip
  <2>2. now = read /\ (excess >= 0) = skipped /\ (excess < 0 <=> read < skip)
        /\ (read >= skip => excess = read - skip)
    BY <1>2, <1>4, <1>5
  <2>3. kept = Written(h, n, m)
    <3>1. all = [h EXCEPT !.open = TRUE, !.pos = h.wrote + n, !.rsize = n, !.wrote = h.wrote + n]
      BY <1>1, <1>2 DEF StreamType
    <3>2. CASE read < skip
      BY <2>2, <3>1, <3>2 DEF Written
    <3>3. CASE ~(read < skip)
      <4>1. excess = read - skip /\ ~(excess < 0)
        BY <2>2, <3>3, <1>6
      <4>2. /\ kept = [all EXCEPT !.wrote = @ - excess, !.pos = f.wrote + f.rsize - excess]
            /\ h.wrote + n - excess = h.wrote + m
        BY <1>2, <3>3, <4>1, <1>6
      <4> HIDE DEF excess, m, kept, all
      <4>3. f.wrote + f.rsize - excess = h.wrote + m
        BY <1>2, <4>2
      <4>a. all.wrote = h.wrote + n
        <5> HIDE DEF n
        <5> QED
          BY <1>1, <3>1 DEF StreamType
      <4>b. h.wrote + n - excess = h.wrote + m
        BY <4>2
      <4>4. all.wrote - excess = h.wrote + m
        <5>1. all.wrote \in Int /\ excess \in Int /\ h.wrote \in Int /\ n \in Int /\ m \in Int
          <6>1. excess \in Int
            BY <4>1, <1>4, <1>5, <1>6
          <6> HIDE DEF n, h
          <6> QED
            BY <6>1, <1>2, <1>6, <4>a
        <5> HIDE DEF n, h
        <5>2. all.wrote - excess = (h.wrote + n) - excess
          BY <4>a
        <5> QED
          BY <5>1, <5>2, <4>b
      <4>5. kept = [all EXCEPT !.wrote = h.wrote + m, !.pos = h.wrote + m]
        BY <4>2, <4>3, <4>4
      <4>6. kept = [[h EXCEPT !.open = TRUE, !.pos = h.wrote + n, !.rsize = n, !.wrote = h.wrote + n]
                       EXCEPT !.wrote = h.wrote + m, !.pos = h.wrote + m]
        BY <3>1, <4>5
      <4> QED
        BY <1>1, <4>6 DEF Written, StreamType
    <3> QED
      BY <3>2, <3>3
  <2> HIDE DEF now, excess, kept, read, skip, m, n, h
  <2>4. out' = [out EXCEPT ![c].readsize = read, ![c].skipped = skipped,
                           ![c].streams[1] = Written(h, n, m)]
    BY <2>1, <2>2, <2>3
  <2> HIDE DEF skipped
  <2>5. out' = [out EXCEPT ![c] = WithHead(c, Written(h, n, m), read, skipped)]
    <3>1. out[c] \in OutType /\ 1 \in 1..Len(out[c].streams)
      BY <1>1, HeadFacts DEF OutputInv, h
    <3>2. out' = [out EXCEPT ![c] = [out[c] EXCEPT !.readsize = read, !.skipped = skipped,
                                !.streams = [out[c].streams EXCEPT ![1] = Written(h, n, m)]]]
      BY <1>1, <2>4, <3>1 DEF OutType
    <3> QED
      BY <1>1, <3>1, <3>2 DEF OutType, WithHead
  <2> QED
    BY <2>1, <2>5
<1>9. n \in Nat \ {0}
  BY <1>2, <1>3
<1>10. IF skipped THEN out[c].readsize + m = skip ELSE m = n /\ read < skip
  BY <1>6
<1> HIDE DEF h, n, m, skipped
<1> QED
  <2>1. n = Chunk(Head1(c)) /\ h = Head1(c)
    BY DEF n, h
  <2> QED
    BY <1>1, <1>6, <1>8, <1>9, <1>10, <2>1

LEMMA SendEffect ==
  ASSUME OutputInv, room \in [Clients -> 0..Window], NEW c \in Clients, Send(c)
  PROVE  \E n \in Nat \ {0} : \E m \in 0..n :
            /\ out[c].streams # <<>> /\ n = Chunk(Head1(c))
            /\ out' = [out EXCEPT ![c] = WithHead(c, Written(Head1(c), n, m),
                                                  out[c].readsize, out[c].skipped)]
            /\ wire' = [wire EXCEPT ![c] =
                          @ \o Bytes(Head1(c).id, Head1(c).wrote, Head1(c).wrote + m)]
            /\ conn[c].stat = 4 /\ ~Skipping(c)
            /\ UNCHANGED <<conn, disk, due>>
<1> DEFINE h == Head1(c)
           n == Chunk(h)
           m == Least(n, room[c])
<1>1. /\ out[c].streams # <<>> /\ h \in StreamType /\ h.wrote <= h.size /\ Begun(h)
      /\ conn[c].stat = 4 /\ ~Skipping(c) /\ out \in [Clients -> OutType]
      /\ out[c] \in OutType /\ 1 \in 1..Len(out[c].streams)
  BY HeadFacts DEF Send, Sending, OutputInv
<1>2. /\ Filled(h) = [h EXCEPT !.open = TRUE, !.pos = h.wrote + n, !.rsize = n]
      /\ n \in Nat /\ Filled(h).rsize = n /\ Filled(h).wrote = h.wrote /\ h.wrote \in Nat
      /\ Filled(h).pos = h.wrote + n /\ Filled(h).id = h.id
  BY <1>1, FilledFacts
<1>3. n # 0
  BY <1>2 DEF Send
<1>4. m \in 0..n /\ room[c] \in Nat
  <2> HIDE DEF n
  <2> QED
    BY <1>2 DEF Least
<1> DEFINE f == Filled(h)
           k == Least(f.rsize, room[c])
           kept == IF k = f.rsize THEN [f EXCEPT !.wrote = @ + k]
                   ELSE [f EXCEPT !.wrote = @ + k, !.pos = f.wrote + k]
<1>5. /\ out' = [out EXCEPT ![c].streams[1] = kept]
      /\ wire' = [wire EXCEPT ![c] = @ \o Bytes(f.id, f.pos - f.rsize, (f.pos - f.rsize) + k)]
      /\ UNCHANGED <<conn, disk, due>>
  BY DEF Send
<1>6. k = m
  BY <1>2
<1>7. kept = Written(h, n, m)
  <2>1. f.wrote + m = h.wrote + m
    BY <1>2
  <2>2. CASE m = n
    <3>1. kept = [f EXCEPT !.wrote = h.wrote + n]
      <4> HIDE DEF f, k
      <4> QED
        BY <1>2, <1>6, <2>1, <2>2 DEF f
    <3>2. kept = [[h EXCEPT !.open = TRUE, !.pos = h.wrote + n, !.rsize = n]
                     EXCEPT !.wrote = h.wrote + n]
      BY <1>2, <3>1
    <3> HIDE DEF kept, n, h, m
    <3> QED
      BY <1>1, <2>2, <3>2 DEF Written, StreamType
  <2>3. CASE m # n
    <3>1. kept = [f EXCEPT !.wrote = h.wrote + m, !.pos = h.wrote + m]
      <4> HIDE DEF f, k
      <4> QED
        BY <1>2, <1>6, <2>1, <2>3 DEF f
    <3>2. kept = [[h EXCEPT !.open = TRUE, !.pos = h.wrote + n, !.rsize = n]
                     EXCEPT !.wrote = h.wrote + m, !.pos = h.wrote + m]
      BY <1>2, <3>1
    <3> HIDE DEF kept, n, h, m
    <3> QED
      BY <1>1, <3>2 DEF Written, StreamType
  <2> QED
    BY <2>2, <2>3
<1>8. f.id = h.id /\ f.pos - f.rsize = h.wrote
  <2> HIDE DEF n
  <2> QED
    BY <1>2
<1>9. wire' = [wire EXCEPT ![c] = @ \o Bytes(h.id, h.wrote, h.wrote + m)]
  BY <1>5, <1>6, <1>8
<1> HIDE DEF f, k, kept, m, n, h
<1>10. out' = [out EXCEPT ![c] = WithHead(c, Written(h, n, m), out[c].readsize, out[c].skipped)]
  <2>1. out' = [out EXCEPT ![c].streams[1] = Written(h, n, m)]
    BY <1>5, <1>7
  <2>2. out' = [out EXCEPT ![c] = [out[c] EXCEPT !.streams =
                                     [out[c].streams EXCEPT ![1] = Written(h, n, m)]]]
    BY <1>1, <2>1 DEF OutType
  <2> QED
    BY <1>1, <2>2 DEF OutType, WithHead
<1> QED
  <2>1. n = Chunk(Head1(c)) /\ h = Head1(c)
    BY DEF n, h
  <2> QED
    BY <1>1, <1>2, <1>3, <1>4, <1>5, <1>9, <1>10, <2>1

-----------------------------------------------------------------------------
(* The bytes of an answer, in the order of its streams; what the streams    *)
(* still have to give is what lies behind a place in them.                  *)
Before(a, b) == a[1] < b[1] \/ (a[1] = b[1] /\ a[2] < b[2])
Ordered(bytes) == \A i, j \in DOMAIN bytes : i < j => Before(bytes[i], bytes[j])
From(bytes, p) == {bytes[i] : i \in (p + 1)..Len(bytes)}

Left(streams) ==
    {b \in Byte : \E i \in DOMAIN streams :
        b[1] = streams[i].id /\ b[2] >= streams[i].wrote /\ b[2] < streams[i].size}
Gone(streams) ==
    {b \in Byte : \A i \in DOMAIN streams :
        b[1] < streams[i].id \/ (b[1] = streams[i].id /\ b[2] < streams[i].wrote)}
Behind(bytes, p, streams) ==
    /\ bytes \in Seq(Byte) /\ Ordered(bytes) /\ p \in 0..Len(bytes)
    /\ From(bytes, p) = Left(streams)
    /\ \A i \in 1..p : bytes[i] \in Gone(streams)

LEMMA BeforeFacts ==
  ASSUME NEW a \in Byte, NEW b \in Byte
  PROVE  /\ a[1] \in Nat /\ a[2] \in Nat /\ a = <<a[1], a[2]>>
         /\ ~(Before(a, b) /\ Before(b, a)) /\ ~Before(a, a)
  BY DEF Byte, Before

LEMMA NextByte ==
  ASSUME NEW bytes \in Seq(Byte), Ordered(bytes), NEW p \in 0..Len(bytes),
         NEW b \in From(bytes, p), \A x \in From(bytes, p) : x = b \/ Before(b, x)
  PROVE  /\ p + 1 \in 1..Len(bytes) /\ bytes[p + 1] = b
         /\ From(bytes, p) \ {b} = From(bytes, p + 1)
<1>1. PICK j \in (p + 1)..Len(bytes) : b = bytes[j]
  BY DEF From
<1>2. p \in Nat /\ Len(bytes) \in Nat /\ p + 1 \in (p + 1)..Len(bytes) /\ p + 1 \in 1..Len(bytes)
      /\ j \in 1..Len(bytes)
  BY <1>1
<1>3. bytes[p + 1] \in From(bytes, p) /\ bytes[p + 1] \in Byte /\ b \in Byte
  BY <1>1, <1>2, ElementOfSeq DEF From
<1>4. j = p + 1
  <2> SUFFICES ASSUME p + 1 < j PROVE FALSE
    BY <1>1, <1>2
  <2>1. Before(bytes[p + 1], b)
    BY <1>1, <1>2 DEF Ordered
  <2> QED
    BY <1>3, <2>1, BeforeFacts
<1>5. ASSUME NEW i \in (p + 2)..Len(bytes) PROVE bytes[i] # b
  <2>1. i \in 1..Len(bytes) /\ p + 1 < i /\ DOMAIN bytes = 1..Len(bytes)
    BY <1>2
  <2>2. Before(bytes[p + 1], bytes[i])
    BY <1>2, <2>1 DEF Ordered
  <2> QED
    BY <1>1, <1>3, <1>4, <2>2, BeforeFacts
<1>6. (p + 1)..Len(bytes) = {p + 1} \cup ((p + 2)..Len(bytes)) /\ p + 1 + 1 = p + 2
  BY <1>2
<1> QED
  BY <1>1, <1>2, <1>4, <1>5, <1>6 DEF From

(* What the stream at hand gives next is what comes next.                   *)
AtFront(R, i, w, z) ==
    /\ R \subseteq Byte
    /\ \A k \in Nat : w <= k /\ k < z => <<i, k>> \in R
    /\ \A x \in R : x[1] > i \/ (x[1] = i /\ x[2] >= w)
Taken(bytes, p, R, i, w, m) ==
    /\ p + m \in 0..Len(bytes)
    /\ \A k \in 1..m : bytes[p + k] = <<i, w + k - 1>>
    /\ From(bytes, p + m) = {x \in R : x[1] > i \/ x[2] >= w + m}

LEMMA Consume ==
  ASSUME NEW bytes \in Seq(Byte), Ordered(bytes), NEW p \in 0..Len(bytes),
         NEW i \in Nat, NEW w \in Nat, NEW z \in Nat, NEW R,
         From(bytes, p) = R, AtFront(R, i, w, z), NEW m \in Nat, w + m <= z
  PROVE  Taken(bytes, p, R, i, w, m)
<1> USE DEF AtFront
<1> DEFINE Rest(n) == {x \in R : x[1] > i \/ x[2] >= w + n}
           P(n) == /\ p + n \in 0..Len(bytes)
                   /\ \A k \in 1..n : bytes[p + k] = <<i, w + k - 1>>
                   /\ From(bytes, p + n) = Rest(n)
           S == {n \in Nat : w + n <= z => P(n)}
<1>0. p \in Nat /\ Len(bytes) \in Nat /\ \A x \in R : x[1] \in Nat /\ x[2] \in Nat /\ x = <<x[1], x[2]>>
  BY DEF Byte
<1>1. P(0)
  <2>1. Rest(0) = R /\ p + 0 = p
    BY <1>0
  <2> QED
    BY <2>1
<1>2. ASSUME NEW n \in Nat, w + (n + 1) <= z, P(n) PROVE P(n + 1)
  <2>1. w + n < z /\ w + n \in Nat
    BY <1>2
  <2> DEFINE b == <<i, w + n>>
  <2>2. b \in Rest(n) /\ b \in Byte
    BY <2>1 DEF Byte
  <2>3. ASSUME NEW x \in Rest(n) PROVE x = b \/ Before(b, x)
    <3>1. x \in R /\ x[1] \in Nat /\ x[2] \in Nat /\ x = <<x[1], x[2]>>
      BY <1>0
    <3>2. x[1] > i \/ (x[1] = i /\ x[2] >= w + n)
      BY <3>1
    <3> QED
      BY <3>1, <3>2, <2>1 DEF Before
  <2>4. Rest(n + 1) = Rest(n) \ {b}
    <3>1. ASSUME NEW x \in R
          PROVE (x[1] > i \/ x[2] >= w + (n + 1)) <=> (x[1] > i \/ x[2] >= w + n) /\ x # b
      <4>1. x[1] \in Nat /\ x[2] \in Nat /\ x = <<x[1], x[2]>>
        BY <1>0
      <4>2. x = b <=> x[1] = i /\ x[2] = w + n
        BY <4>1
      <4>3. x[1] > i \/ (x[1] = i /\ x[2] >= w)
        OBVIOUS
      <4>4. \A u, v \in Nat : u > i \/ (u = i /\ v >= w) =>
               ((u > i \/ v >= w + (n + 1)) <=> (u > i \/ v >= w + n) /\ ~(u = i /\ v = w + n))
        OBVIOUS
      <4> HIDE DEF b
      <4> QED
        BY <4>1, <4>2, <4>3, <4>4
    <3> HIDE DEF b
    <3> QED
      BY <3>1
  <2> HIDE DEF Rest, b
  <2>5. /\ (p + n) + 1 \in 1..Len(bytes) /\ bytes[(p + n) + 1] = b
        /\ From(bytes, p + n) \ {b} = From(bytes, (p + n) + 1)
    BY <1>2, <2>2, <2>3, NextByte
  <2>6. (p + n) + 1 = p + (n + 1) /\ w + n = w + (n + 1) - 1
    BY <1>0, <2>1
  <2>7. ASSUME NEW k \in 1..(n + 1) PROVE bytes[p + k] = <<i, w + k - 1>>
    <3>1. k \in 1..n \/ k = n + 1
      OBVIOUS
    <3> QED
      BY <1>2, <2>5, <2>6, <3>1 DEF b
  <2>8. p + (n + 1) \in 0..Len(bytes) /\ From(bytes, p + (n + 1)) = Rest(n + 1)
    <3>1. p + (n + 1) \in 0..Len(bytes)
      BY <1>0, <2>5, <2>6
    <3>2. From(bytes, p + (n + 1)) = From(bytes, (p + n) + 1) /\ From(bytes, p + n) = Rest(n)
      BY <1>2, <2>6
    <3> QED
      BY <3>1, <3>2, <2>4, <2>5
  <2> QED
    BY <2>7, <2>8
<1>3. S = Nat
  <2> HIDE DEF P
  <2>1. 0 \in S
    BY <1>1
  <2>2. ASSUME NEW n \in S PROVE n + 1 \in S
    <3>1. n \in Nat /\ (w + (n + 1) <= z => w + n <= z)
      OBVIOUS
    <3> QED
      BY <1>2, <3>1
  <2>3. S \in SUBSET Nat
    OBVIOUS
  <2> HIDE DEF S
  <2> QED
    BY <2>1, <2>2, <2>3, NaturalInduction
<1> QED
  BY <1>3 DEF Taken

LEMMA StreamFields ==
  ASSUME NEW ss \in Seq(StreamType), NEW i \in DOMAIN ss
  PROVE  /\ ss[i] \in StreamType /\ ss[i].id \in Nat /\ ss[i].size \in Nat /\ ss[i].wrote \in Nat
         /\ i \in Nat /\ i >= 1
<1>1. ss[i] \in StreamType
  BY ElementOfSeq
<1> QED
  BY <1>1 DEF StreamType

LEMMA LeftFacts ==
  ASSUME NEW ss \in Seq(StreamType), ss # <<>>, InOrder(ss)
  PROVE  /\ \A k \in Nat : ss[1].wrote <= k /\ k < ss[1].size => <<ss[1].id, k>> \in Left(ss)
         /\ \A x \in Left(ss) : x[1] > ss[1].id \/ (x[1] = ss[1].id /\ x[2] >= ss[1].wrote)
<1>1. 1 \in DOMAIN ss /\ ss[1].id \in Nat
  BY StreamFields
<1>2. ASSUME NEW k \in Nat, ss[1].wrote <= k, k < ss[1].size PROVE <<ss[1].id, k>> \in Left(ss)
  <2>1. <<ss[1].id, k>> \in Byte
    BY <1>1 DEF Byte
  <2> QED
    BY <1>1, <1>2, <2>1 DEF Left
<1>3. ASSUME NEW x \in Left(ss)
      PROVE  x[1] > ss[1].id \/ (x[1] = ss[1].id /\ x[2] >= ss[1].wrote)
  <2>1. PICK i \in DOMAIN ss : x[1] = ss[i].id /\ x[2] >= ss[i].wrote
    BY DEF Left
  <2>2. i = 1 \/ 1 < i
    BY StreamFields
  <2>3. 1 < i => ss[1].id < ss[i].id
    BY <1>1 DEF InOrder
  <2>4. ss[i].id \in Nat
    BY StreamFields
  <2> QED
    BY <1>1, <2>1, <2>2, <2>3, <2>4
<1> QED
  BY <1>2, <1>3

LEMMA LeftOfHead ==
  ASSUME NEW ss \in Seq(StreamType), ss # <<>>, InOrder(ss),
         NEW m \in Nat, ss[1].wrote + m <= ss[1].size,
         NEW s \in StreamType, s.id = ss[1].id, s.size = ss[1].size, s.wrote = ss[1].wrote + m,
         NEW tt, tt = [ss EXCEPT ![1] = s]
  PROVE  /\ Left(tt) = {x \in Left(ss) : x[1] > ss[1].id \/ x[2] >= ss[1].wrote + m}
         /\ Gone(ss) \subseteq Gone(tt)
         /\ \A k \in 1..m : <<ss[1].id, ss[1].wrote + k - 1>> \in Gone(tt)
<1> DEFINE h == ss[1]
<1>1. /\ 1 \in DOMAIN ss /\ DOMAIN tt = DOMAIN ss /\ tt[1] = s
      /\ \A i \in DOMAIN ss : i # 1 => tt[i] = ss[i]
  OBVIOUS
<1>2. /\ h.id \in Nat /\ h.wrote \in Nat /\ h.size \in Nat
      /\ s.id = h.id /\ s.size = h.size /\ s.wrote = h.wrote + m /\ h.wrote + m <= h.size
  BY <1>1, StreamFields
<1>3. ASSUME NEW i \in DOMAIN ss, i # 1
      PROVE  ss[i].id > h.id /\ ss[i].id \in Nat /\ ss[i].wrote \in Nat /\ ss[i].size \in Nat
  <2>1. 1 < i
    BY <1>3, StreamFields
  <2> QED
    BY <1>1, <2>1, StreamFields DEF InOrder
<1> HIDE DEF h
<1>4. ASSUME NEW x \in Left(tt)
      PROVE  x \in Left(ss) /\ (x[1] > h.id \/ x[2] >= h.wrote + m)
  <2>1. PICK i \in DOMAIN tt : x[1] = tt[i].id /\ x[2] >= tt[i].wrote /\ x[2] < tt[i].size
    BY DEF Left
  <2>2. x \in Byte /\ x[1] \in Nat /\ x[2] \in Nat
    BY DEF Left, Byte
  <2>3. CASE i = 1
    <3>1. x[1] = h.id /\ x[2] >= h.wrote + m /\ x[2] < h.size
      BY <1>1, <1>2, <2>1, <2>3
    <3>2. x[2] >= h.wrote
      BY <1>2, <2>2, <3>1
    <3> QED
      BY <1>1, <2>2, <3>1, <3>2 DEF Left, h
  <2>4. CASE i # 1
    <3>1. tt[i] = ss[i] /\ i \in DOMAIN ss
      BY <1>1, <2>4
    <3>2. x[1] > h.id
      BY <1>3, <2>1, <2>4, <3>1
    <3> QED
      BY <2>1, <2>2, <3>1, <3>2 DEF Left
  <2> QED
    BY <2>3, <2>4
<1>5. ASSUME NEW x \in Left(ss), x[1] > h.id \/ x[2] >= h.wrote + m
      PROVE  x \in Left(tt)
  <2>1. PICK i \in DOMAIN ss : x[1] = ss[i].id /\ x[2] >= ss[i].wrote /\ x[2] < ss[i].size
    BY DEF Left
  <2>2. x \in Byte /\ x[1] \in Nat /\ x[2] \in Nat
    BY DEF Left, Byte
  <2>3. CASE i = 1
    <3>1. x[1] = h.id /\ x[2] >= h.wrote + m /\ x[2] < h.size
      BY <1>2, <1>5, <2>1, <2>2, <2>3 DEF h
    <3> QED
      BY <1>1, <1>2, <2>2, <3>1 DEF Left
  <2>4. CASE i # 1
    BY <1>1, <2>1, <2>2, <2>4 DEF Left
  <2> QED
    BY <2>3, <2>4
<1>6. ASSUME NEW x \in Gone(ss) PROVE x \in Gone(tt)
  <2>1. x \in Byte /\ x[1] \in Nat /\ x[2] \in Nat
    BY DEF Gone, Byte
  <2>2. x[1] < h.id \/ (x[1] = h.id /\ x[2] < h.wrote)
    BY <1>1 DEF Gone, h
  <2>3. x[1] < s.id \/ (x[1] = s.id /\ x[2] < s.wrote)
    BY <1>2, <2>1, <2>2
  <2> QED
    BY <1>1, <2>1, <2>3 DEF Gone
<1>7. ASSUME NEW k \in 1..m PROVE <<h.id, h.wrote + k - 1>> \in Gone(tt)
  <2> DEFINE x == <<h.id, h.wrote + k - 1>>
  <2>1. h.wrote + k - 1 \in Nat /\ h.wrote + k - 1 < h.wrote + m
    BY <1>2
  <2>2. x \in Byte /\ x[1] = h.id /\ x[2] = h.wrote + k - 1
    BY <1>2, <2>1 DEF Byte
  <2> HIDE DEF x
  <2>3. ASSUME NEW i \in DOMAIN tt
        PROVE  x[1] < tt[i].id \/ (x[1] = tt[i].id /\ x[2] < tt[i].wrote)
    BY <1>1, <1>2, <1>3, <2>1, <2>2
  <2> QED
    BY <2>2, <2>3 DEF Gone, x
<1> QED
  BY <1>4, <1>5, <1>6, <1>7 DEF h

(* Some bytes of the stream at hand, sent or skipped.                       *)
Consumed(bytes, p, m, s, tt) ==
    /\ Behind(bytes, p + m, tt)
    /\ \A k \in 1..m : bytes[p + k] = <<s.id, s.wrote + k - 1>>

LEMMA ConsumeHead ==
  ASSUME NEW bytes, NEW p, NEW ss \in Seq(StreamType), Behind(bytes, p, ss),
         ss # <<>>, InOrder(ss),
         NEW m \in Nat, ss[1].wrote + m <= ss[1].size,
         NEW s \in StreamType, s.id = ss[1].id, s.size = ss[1].size, s.wrote = ss[1].wrote + m,
         NEW tt, tt = [ss EXCEPT ![1] = s]
  PROVE  Consumed(bytes, p, m, ss[1], tt)
<1> DEFINE h == ss[1]
<1>1. 1 \in DOMAIN ss /\ h.id \in Nat /\ h.wrote \in Nat /\ h.size \in Nat
  BY StreamFields
<1>2. bytes \in Seq(Byte) /\ Ordered(bytes) /\ p \in 0..Len(bytes) /\ From(bytes, p) = Left(ss)
      /\ \A i \in 1..p : bytes[i] \in Gone(ss)
  BY DEF Behind
<1>3. Left(ss) \subseteq Byte
  BY DEF Left
<1>4. /\ \A k \in Nat : h.wrote <= k /\ k < h.size => <<h.id, k>> \in Left(ss)
      /\ \A x \in Left(ss) : x[1] > h.id \/ (x[1] = h.id /\ x[2] >= h.wrote)
  BY LeftFacts
<1>5. /\ p + m \in 0..Len(bytes)
      /\ \A k \in 1..m : bytes[p + k] = <<h.id, h.wrote + k - 1>>
      /\ From(bytes, p + m) = {x \in Left(ss) : x[1] > h.id \/ x[2] >= h.wrote + m}
  <2> HIDE DEF h
  <2>1. h.wrote + m <= h.size
    BY DEF h
  <2>2. AtFront(Left(ss), h.id, h.wrote, h.size)
    BY <1>3, <1>4 DEF AtFront
  <2>3. Taken(bytes, p, Left(ss), h.id, h.wrote, m)
    BY <1>1, <1>2, <2>1, <2>2, Consume
  <2> QED
    BY <2>3 DEF Taken
<1>6. /\ Left(tt) = {x \in Left(ss) : x[1] > h.id \/ x[2] >= h.wrote + m}
      /\ Gone(ss) \subseteq Gone(tt)
      /\ \A k \in 1..m : <<h.id, h.wrote + k - 1>> \in Gone(tt)
  BY LeftOfHead
<1> HIDE DEF h
<1>7. ASSUME NEW i \in 1..(p + m) PROVE bytes[i] \in Gone(tt)
  <2>1. CASE i \in 1..p
    BY <1>2, <1>6, <2>1
  <2>2. CASE i \notin 1..p
    <3>1. i - p \in 1..m /\ p + (i - p) = i
      BY <1>2, <2>2
    <3> QED
      BY <1>5, <1>6, <3>1
  <2> QED
    BY <2>1, <2>2
<1>8. Behind(bytes, p + m, tt)
  BY <1>2, <1>5, <1>6, <1>7 DEF Behind
<1> QED
  BY <1>5, <1>8 DEF h, Consumed

(* A stream that is written to its end goes.                                *)
LEMMA DropHead ==
  ASSUME NEW bytes, NEW p, NEW ss \in Seq(StreamType), Behind(bytes, p, ss),
         ss # <<>>, InOrder(ss), ss[1].wrote = ss[1].size
  PROVE  Behind(bytes, p, Tail(ss))
<1>1. /\ Len(ss) \in Nat \ {0} /\ DOMAIN ss = 1..Len(ss)
      /\ DOMAIN Tail(ss) = 1..(Len(ss) - 1)
      /\ \A i \in 1..(Len(ss) - 1) : Tail(ss)[i] = ss[i + 1]
  BY TailInOrder
<1>2. \A i \in DOMAIN Tail(ss) : i + 1 \in DOMAIN ss /\ Tail(ss)[i] = ss[i + 1]
  BY <1>1
<1>3. Gone(ss) \subseteq Gone(Tail(ss))
  BY <1>2 DEF Gone
<1>4. ASSUME NEW x \in Left(ss) PROVE x \in Left(Tail(ss))
  <2>1. PICK i \in DOMAIN ss : x[1] = ss[i].id /\ x[2] >= ss[i].wrote /\ x[2] < ss[i].size
    BY DEF Left
  <2>2. x \in Byte /\ x[2] \in Nat /\ ss[1].size \in Nat
    <3>1. 1 \in DOMAIN ss
      BY <1>1
    <3> QED
      BY <3>1, StreamFields DEF Left, Byte
  <2>3. i # 1
    BY <2>1, <2>2
  <2>4. i - 1 \in DOMAIN Tail(ss) /\ Tail(ss)[i - 1] = ss[i]
    BY <1>1, <2>3
  <2> QED
    BY <2>1, <2>2, <2>4 DEF Left
<1>5. Left(Tail(ss)) \subseteq Left(ss)
  BY <1>2 DEF Left
<1>6. Left(Tail(ss)) = Left(ss)
  BY <1>4, <1>5
<1> QED
  BY <1>3, <1>6 DEF Behind

LEMMA NothingLeft ==
  ASSUME NEW bytes, NEW p, Behind(bytes, p, <<>>)
  PROVE  p = Len(bytes)
<1>1. Left(<<>>) = {}
  BY DEF Left
<1>2. p \in 0..Len(bytes) /\ Len(bytes) \in Nat /\ From(bytes, p) = {}
  BY <1>1 DEF Behind
<1>3. p # Len(bytes) => Len(bytes) \in (p + 1)..Len(bytes)
  BY <1>2
<1> QED
  BY <1>2, <1>3 DEF From

LEMMA NothingBehind == Behind(<<>>, 0, <<>>)
<1>1. Left(<<>>) = {} /\ From(<<>>, 0) = {}
  BY DEF Left, From
<1>2. <<>> \in Seq(Byte) /\ Len(<<>>) = 0 /\ Ordered(<<>>)
  BY DEF Ordered
<1>3. \A i \in 1..0 : <<>>[i] \in Gone(<<>>)
  OBVIOUS
<1>4. 0 \in 0..Len(<<>>)
  BY <1>2
<1> QED
  BY <1>1, <1>2, <1>3, <1>4 DEF Behind

(* What lies behind a place is an answer of its own.                        *)
LEMMA Shift ==
  ASSUME NEW bytes, NEW p, NEW ss, Behind(bytes, p, ss)
  PROVE  Behind(SubSeq(bytes, p + 1, Len(bytes)), 0, ss)
<1> DEFINE rest == SubSeq(bytes, p + 1, Len(bytes))
           l == Len(bytes) - p
<1>1. bytes \in Seq(Byte) /\ p \in Nat /\ Len(bytes) \in Nat /\ p <= Len(bytes) /\ l \in Nat
  BY DEF Behind
<1>2. /\ rest \in Seq(Byte) /\ Len(rest) = l /\ DOMAIN rest = 1..l
      /\ \A i \in 1..l : rest[i] = bytes[p + i] /\ p + i \in DOMAIN bytes
  BY <1>1
<1> HIDE DEF rest, l
<1>3. Ordered(rest)
  BY <1>1, <1>2 DEF Ordered, Behind
<1>4. From(rest, 0) = From(bytes, p)
  <2>1. \A i \in (0 + 1)..Len(rest) : i \in 1..l /\ p + i \in (p + 1)..Len(bytes)
    BY <1>1, <1>2 DEF l
  <2>2. \A i \in (p + 1)..Len(bytes) : i - p \in (0 + 1)..Len(rest) /\ i - p \in 1..l /\ p + (i - p) = i
    BY <1>1, <1>2 DEF l
  <2>3. ASSUME NEW x \in From(rest, 0) PROVE x \in From(bytes, p)
    BY <1>2, <2>1 DEF From
  <2>4. ASSUME NEW x \in From(bytes, p) PROVE x \in From(rest, 0)
    <3>1. PICK i \in (p + 1)..Len(bytes) : x = bytes[i]
      BY DEF From
    <3>2. x = rest[i - p] /\ i - p \in (0 + 1)..Len(rest)
      BY <1>2, <2>2, <3>1
    <3> QED
      BY <3>2 DEF From
  <2> QED
    BY <2>3, <2>4
<1>5. 0 \in 0..Len(rest)
  BY <1>1, <1>2
<1> QED
  BY <1>2, <1>3, <1>4, <1>5 DEF Behind, rest

-----------------------------------------------------------------------------
(* Recursion over a sequence: the functions by which AllBytes and Without   *)
(* are defined.                                                             *)
LEMMA WithoutFacts ==
  ASSUME NEW bytes \in Seq(Byte), NEW i
  PROVE  \E rest \in [0..Len(bytes) -> Seq(Byte)] :
            /\ rest[0] = <<>> /\ Without(bytes, i) = rest[Len(bytes)]
            /\ \A n \in 1..Len(bytes) :
                  rest[n] = IF bytes[n][1] = i THEN rest[n - 1] ELSE Append(rest[n - 1], bytes[n])
<1> DEFINE l == Len(bytes)
           g == [x \in Nat \X Seq(Byte) |->
                   IF x[1] \in 1..l /\ bytes[x[1]][1] # i THEN Append(x[2], bytes[x[1]]) ELSE x[2]]
           Is(f) == f = [n \in 0..l |->
                          IF n = 0 THEN <<>>
                          ELSE IF bytes[n][1] = i THEN f[n - 1] ELSE Append(f[n - 1], bytes[n])]
<1>1. l \in Nat /\ <<>> \in Seq(Byte)
  OBVIOUS
<1>2. g \in [Nat \X Seq(Byte) -> Seq(Byte)]
  <2>1. ASSUME NEW x \in Nat \X Seq(Byte)
        PROVE  (IF x[1] \in 1..l /\ bytes[x[1]][1] # i THEN Append(x[2], bytes[x[1]]) ELSE x[2]) \in Seq(Byte)
    <3>1. x[2] \in Seq(Byte) /\ (x[1] \in 1..l => bytes[x[1]] \in Byte)
      BY ElementOfSeq
    <3> QED
      BY <3>1
  <2> QED
    BY <2>1
<1>3. PICK f \in [0..l -> Seq(Byte)] : f[0] = <<>> /\ \A n \in 1..l : f[n] = g[<<n, f[n - 1]>>]
  <2> HIDE DEF g, l
  <2>1. Recursion(Seq(Byte), <<>>, g, l)
    BY <1>1, <1>2, RecursiveFunction
  <2> QED
    BY <2>1 DEF Recursion
<1>4. ASSUME NEW n \in 1..l
      PROVE  f[n] = IF bytes[n][1] = i THEN f[n - 1] ELSE Append(f[n - 1], bytes[n])
  <2>1. n \in Nat /\ n - 1 \in 0..l /\ f[n - 1] \in Seq(Byte)
    BY <1>1
  <2>2. g[<<n, f[n - 1]>>] = IF bytes[n][1] = i THEN f[n - 1] ELSE Append(f[n - 1], bytes[n])
    BY <2>1
  <2> HIDE DEF g
  <2> QED
    BY <1>3, <2>2
<1> HIDE DEF g
<1>5. Is(f)
  <2> HIDE DEF l
  <2>1. ASSUME NEW n \in 0..l
        PROVE  f[n] = IF n = 0 THEN <<>>
                      ELSE IF bytes[n][1] = i THEN f[n - 1] ELSE Append(f[n - 1], bytes[n])
    <3>1. n = 0 \/ n \in 1..l
      BY <1>1
    <3> QED
      BY <1>3, <1>4, <3>1
  <2> QED
    BY <2>1
<1>6. \A k : Is(k) => k = f
  <2> SUFFICES ASSUME NEW k, Is(k) PROVE k = f
    OBVIOUS
  <2>1. UpTo(l, k) /\ UpTo(l, f)
    BY DEF UpTo
  <2>2. k[0] = f[0]
    BY <1>1, <1>3
  <2>3. ASSUME NEW n \in 1..l, k[n - 1] = f[n - 1] PROVE k[n] = f[n]
    <3>1. n \in 0..l /\ n # 0
      BY <1>1
    <3>2. k[n] = IF bytes[n][1] = i THEN k[n - 1] ELSE Append(k[n - 1], bytes[n])
      BY <3>1
    <3> QED
      BY <1>4, <2>3, <3>2
  <2> HIDE DEF l, Is
  <2> QED
    BY <1>1, <2>1, <2>2, <2>3, SameRecursion
<1>7. (CHOOSE k : Is(k)) = f
  <2> HIDE DEF Is
  <2> QED
    BY <1>5, <1>6
<1>8. Without(bytes, i) = f[l]
  BY <1>7 DEF Without
<1> QED
  BY <1>3, <1>4, <1>8

LEMMA AppendFacts ==
  ASSUME NEW s \in Seq(Byte), NEW b \in Byte, NEW t, t = Append(s, b)
  PROVE  /\ t \in Seq(Byte) /\ Len(t) = Len(s) + 1 /\ Len(s) \in Nat
         /\ DOMAIN t = 1..(Len(s) + 1) /\ DOMAIN s = 1..Len(s)
         /\ t[Len(s) + 1] = b /\ \A k \in 1..Len(s) : t[k] = s[k]
  OBVIOUS

(* Without those of one stream, the others are there in their order.        *)
LEMMA WithoutOrdered ==
  ASSUME NEW bytes \in Seq(Byte), Ordered(bytes), NEW i, NEW p \in 0..Len(bytes),
         \A k \in 1..p : bytes[k][1] # i, NEW W, W = Without(bytes, i)
  PROVE  /\ W \in Seq(Byte) /\ Ordered(W) /\ p \in 0..Len(W)
         /\ \A k \in 1..p : W[k] = bytes[k]
         /\ From(W, p) = {x \in From(bytes, p) : x[1] # i}
<1> DEFINE l == Len(bytes)
           P(s, n) ==
              /\ s \in Seq(Byte) /\ Ordered(s)
              /\ \A k \in 1..Len(s) : \E j \in 1..n : s[k] = bytes[j] /\ bytes[j][1] # i
              /\ \A j \in 1..n : bytes[j][1] # i => \E k \in 1..Len(s) : s[k] = bytes[j]
              /\ n <= p => Len(s) = n
              /\ n >= p => Len(s) >= p
              /\ \A k \in 1..p : k <= n => s[k] = bytes[k]
<1>1. l \in Nat /\ p \in Nat /\ p <= l /\ DOMAIN bytes = 1..l /\ \A n \in 1..l : bytes[n] \in Byte
  BY ElementOfSeq
<1>2. PICK rest \in [0..l -> Seq(Byte)] :
         /\ rest[0] = <<>> /\ W = rest[l]
         /\ \A n \in 1..l :
               rest[n] = IF bytes[n][1] = i THEN rest[n - 1] ELSE Append(rest[n - 1], bytes[n])
  BY WithoutFacts
<1> HIDE DEF l
<1>3. P(rest[0], 0)
  <2>1. Ordered(<<>>) /\ <<>> \in Seq(Byte) /\ Len(<<>>) = 0 /\ 1..0 = {}
    BY DEF Ordered
  <2>2. \A k \in 1..p : ~(k <= 0)
    BY <1>1
  <2> QED
    BY <1>1, <1>2, <2>1, <2>2
<1>a. \A n \in Nat : n + 1 <= l => n + 1 \in 1..l /\ (n + 1) - 1 = n
  BY <1>1
<1>4. ASSUME NEW n \in Nat, n + 1 <= l, P(rest[n], n) PROVE P(rest[n + 1], n + 1)
  <2> DEFINE s == rest[n]
             b == bytes[n + 1]
             t == Append(s, b)
  <2>0. n + 1 <= l
    BY <1>4
  <2>1. n + 1 \in 1..l /\ (n + 1) - 1 = n
    BY <1>a, <2>0
  <2>2. rest[n + 1] = IF b[1] = i THEN s ELSE t
    BY <1>2, <2>1
  <2>3. s \in Seq(Byte) /\ b \in Byte /\ Len(s) \in Nat
    BY <1>1, <1>4, <2>1
  <2> HIDE DEF s, b, t
  <2>4. CASE b[1] = i
    <3>1. rest[n + 1] = s /\ ~(n + 1 <= p)
      BY <1>1, <2>2, <2>4 DEF b
    <3>2. \A j \in 1..(n + 1) : j \in 1..n \/ j = n + 1
      OBVIOUS
    <3>3. \A j \in 1..n : j \in 1..(n + 1)
      OBVIOUS
    <3>4. \A k \in 1..p : k <= n + 1 => k <= n
      BY <1>1, <3>1
    <3>5. n >= p
      BY <1>1, <3>1
    <3> QED
      BY <1>4, <2>4, <3>1, <3>2, <3>3, <3>4, <3>5 DEF s, b
  <2>5. CASE b[1] # i
    <3>1. /\ t \in Seq(Byte) /\ Len(t) = Len(s) + 1 /\ DOMAIN t = 1..(Len(s) + 1)
          /\ DOMAIN s = 1..Len(s)
          /\ t[Len(s) + 1] = b /\ \A k \in 1..Len(s) : t[k] = s[k]
      BY <2>3, AppendFacts DEF t
    <3>2. Ordered(t)
      <4>1. ASSUME NEW x \in 1..(Len(s) + 1), NEW y \in 1..(Len(s) + 1), x < y
            PROVE  Before(t[x], t[y])
        <5>1. x \in 1..Len(s)
          BY <2>3, <4>1
        <5>2. CASE y \in 1..Len(s)
          BY <1>4, <3>1, <4>1, <5>1, <5>2 DEF Ordered, s
        <5>3. CASE y \notin 1..Len(s)
          <6>1. y = Len(s) + 1
            BY <2>3, <5>3
          <6>2. PICK j \in 1..n : s[x] = bytes[j]
            BY <1>4, <5>1 DEF s
          <6>3. j \in DOMAIN bytes /\ n + 1 \in DOMAIN bytes /\ j < n + 1
            BY <1>1, <2>1
          <6>4. Before(bytes[j], bytes[n + 1])
            BY <6>3 DEF Ordered
          <6> QED
            BY <3>1, <5>1, <6>1, <6>2, <6>4 DEF b
        <5> QED
          BY <5>2, <5>3
      <4> QED
        BY <3>1, <4>1 DEF Ordered
    <3>3. ASSUME NEW k \in 1..Len(t) PROVE \E j \in 1..(n + 1) : t[k] = bytes[j] /\ bytes[j][1] # i
      <4>1. CASE k \in 1..Len(s)
        <5>1. PICK j \in 1..n : s[k] = bytes[j] /\ bytes[j][1] # i
          BY <1>4, <4>1 DEF s
        <5>2. j \in 1..(n + 1)
          OBVIOUS
        <5> QED
          BY <3>1, <4>1, <5>1, <5>2
      <4>2. CASE k \notin 1..Len(s)
        <5>1. k = Len(s) + 1 /\ n + 1 \in 1..(n + 1)
          BY <2>3, <3>1, <4>2
        <5> QED
          BY <2>5, <3>1, <5>1 DEF b
      <4> QED
        BY <4>1, <4>2
    <3>4. ASSUME NEW j \in 1..(n + 1), bytes[j][1] # i PROVE \E k \in 1..Len(t) : t[k] = bytes[j]
      <4>1. CASE j \in 1..n
        <5>1. PICK k \in 1..Len(s) : s[k] = bytes[j]
          BY <1>4, <3>4, <4>1 DEF s
        <5>2. k \in 1..Len(t)
          BY <2>3, <3>1
        <5> QED
          BY <3>1, <5>1, <5>2
      <4>2. CASE j \notin 1..n
        <5>1. j = n + 1 /\ Len(s) + 1 \in 1..Len(t)
          BY <2>3, <3>1, <4>2
        <5> QED
          BY <3>1, <5>1 DEF b
      <4> QED
        BY <4>1, <4>2
    <3>5. n + 1 <= p => Len(t) = n + 1
      BY <1>1, <1>4, <3>1 DEF s
    <3>6. n + 1 >= p => Len(t) >= p
      <4>1. n <= p => Len(s) = n
        BY <1>4 DEF s
      <4>2. n >= p => Len(s) >= p
        BY <1>4 DEF s
      <4>3. Len(t) \in Nat /\ Len(t) = Len(s) + 1
        BY <3>1
      <4>4. n + 1 >= p => n >= p \/ n + 1 = p
        BY <1>1
      <4>5. n + 1 = p => Len(s) = n
        BY <1>1, <4>1
      <4> QED
        BY <1>1, <2>3, <4>2, <4>3, <4>4, <4>5
    <3>7. ASSUME NEW k \in 1..p, k <= n + 1 PROVE t[k] = bytes[k]
      <4>1. CASE k <= n
        <5>1. s[k] = bytes[k]
          BY <1>4, <4>1 DEF s
        <5>2. k \in 1..Len(s)
          <6>1. n <= p => Len(s) = n
            BY <1>4 DEF s
          <6>2. n >= p => Len(s) >= p
            BY <1>4 DEF s
          <6> QED
            BY <1>1, <2>3, <4>1, <6>1, <6>2
        <5> QED
          BY <3>1, <5>1, <5>2
      <4>2. CASE ~(k <= n)
        <5>1. k = n + 1 /\ n <= p
          BY <1>1, <3>7, <4>2
        <5>2. Len(s) = n
          BY <1>4, <5>1 DEF s
        <5> QED
          BY <3>1, <5>1, <5>2 DEF b
      <4> QED
        BY <4>1, <4>2
    <3> HIDE DEF P
    <3>8. P(t, n + 1)
      BY <3>1, <3>2, <3>3, <3>4, <3>5, <3>6, <3>7 DEF P
    <3> QED
      BY <2>2, <2>5, <3>8
  <2> QED
    BY <2>4, <2>5
<1> HIDE DEF P
<1>5. P(W, l)
  <2> DEFINE S == {n \in Nat : n <= l => P(rest[n], n)}
  <2>1. 0 \in S
    BY <1>3
  <2>2. ASSUME NEW n \in S PROVE n + 1 \in S
    <3>1. n \in Nat /\ (n + 1 <= l => n <= l)
      BY <1>1
    <3> QED
      BY <1>4, <3>1
  <2>3. S \in SUBSET Nat
    OBVIOUS
  <2>4. S = Nat
    <3> HIDE DEF S
    <3> QED
      BY <2>1, <2>2, <2>3, NaturalInduction
  <2>5. l \in S
    BY <1>1, <2>4
  <2> QED
    BY <1>1, <1>2, <2>5
<1>6. /\ W \in Seq(Byte) /\ Ordered(W) /\ Len(W) \in Nat /\ Len(W) >= p /\ DOMAIN W = 1..Len(W)
      /\ \A k \in 1..p : W[k] = bytes[k]
  <2>1. W \in Seq(Byte) /\ Ordered(W)
    BY <1>5 DEF P
  <2>2. Len(W) \in Nat /\ DOMAIN W = 1..Len(W)
    BY <2>1
  <2>3. Len(W) >= p
    BY <1>1, <1>5 DEF P
  <2>4. ASSUME NEW k \in 1..p PROVE W[k] = bytes[k]
    <3>1. k <= l
      BY <1>1
    <3> QED
      BY <1>5, <3>1 DEF P
  <2> QED
    BY <2>1, <2>2, <2>3, <2>4
<1>7. ASSUME NEW x \in From(W, p) PROVE x \in From(bytes, p) /\ x[1] # i
  <2>1. PICK k \in (p + 1)..Len(W) : x = W[k]
    BY DEF From
  <2>2. k \in 1..Len(W) /\ p < k
    BY <1>1
  <2>3. PICK j \in 1..l : x = bytes[j] /\ bytes[j][1] # i
    BY <1>5, <2>1, <2>2 DEF P
  <2>4. j > p
    <3> SUFFICES ASSUME j \in 1..p PROVE FALSE
      BY <1>1
    <3>1. W[j] = x /\ j \in 1..Len(W) /\ j < k
      BY <1>1, <1>6, <2>2, <2>3
    <3>2. Before(x, x)
      BY <1>6, <2>1, <2>2, <3>1 DEF Ordered
    <3> QED
      BY <1>1, <2>3, <3>2, BeforeFacts
  <2>5. j \in (p + 1)..Len(bytes)
    BY <1>1, <2>4 DEF l
  <2> QED
    BY <2>3, <2>5 DEF From
<1>8. ASSUME NEW x \in From(bytes, p), x[1] # i PROVE x \in From(W, p)
  <2>1. PICK j \in (p + 1)..l : x = bytes[j]
    BY DEF From, l
  <2>2. j \in 1..l /\ p < j
    BY <1>1
  <2>3. PICK k \in 1..Len(W) : W[k] = x
    BY <1>5, <1>8, <2>1, <2>2 DEF P
  <2>4. k > p
    <3> SUFFICES ASSUME k \in 1..p PROVE FALSE
      BY <1>1
    <3>1. bytes[k] = x /\ k \in 1..l /\ k < j
      BY <1>1, <1>6, <2>2, <2>3
    <3>2. Before(bytes[k], bytes[j])
      BY <1>1, <2>2, <3>1 DEF Ordered, l
    <3>3. Before(x, x)
      BY <2>1, <3>1, <3>2
    <3> QED
      BY <1>1, <2>1, <2>2, <3>3, BeforeFacts
  <2>5. k \in (p + 1)..Len(W)
    BY <1>1, <1>6, <2>4
  <2> QED
    BY <2>3, <2>5 DEF From
<1> QED
  BY <1>1, <1>6, <1>7, <1>8

(* A file that cannot be opened: what it would have given is not due.       *)
LEMMA WithoutHead ==
  ASSUME NEW bytes, NEW p, NEW ss \in Seq(StreamType), Behind(bytes, p, ss),
         ss # <<>>, InOrder(ss), ss[1].wrote = 0, NEW W, W = Without(bytes, ss[1].id)
  PROVE  /\ Behind(W, p, Tail(ss))
         /\ \A k \in 1..p : W[k] = bytes[k]
<1> DEFINE i == ss[1].id
<1>1. /\ Len(ss) \in Nat \ {0} /\ DOMAIN ss = 1..Len(ss)
      /\ DOMAIN Tail(ss) = 1..(Len(ss) - 1)
      /\ \A j \in 1..(Len(ss) - 1) : Tail(ss)[j] = ss[j + 1]
  BY TailInOrder
<1>2. /\ \A j \in DOMAIN Tail(ss) : j + 1 \in DOMAIN ss /\ Tail(ss)[j] = ss[j + 1]
      /\ 1 \in DOMAIN ss
  BY <1>1
<1>3. /\ bytes \in Seq(Byte) /\ Ordered(bytes) /\ p \in 0..Len(bytes)
      /\ From(bytes, p) = Left(ss) /\ \A k \in 1..p : bytes[k] \in Gone(ss)
  BY DEF Behind
<1>4. i \in Nat
  BY <1>2, StreamFields
<1> HIDE DEF i
<1>5. ASSUME NEW k \in 1..p PROVE bytes[k][1] # i
  <2>1. bytes[k] \in Gone(ss)
    BY <1>3
  <2>2. bytes[k][1] \in Nat /\ bytes[k][2] \in Nat
    BY <2>1 DEF Gone, Byte
  <2>3. bytes[k][1] < i \/ (bytes[k][1] = i /\ bytes[k][2] < 0)
    BY <1>2, <2>1 DEF Gone, i
  <2> QED
    BY <1>4, <2>2, <2>3
<1>6. /\ W \in Seq(Byte) /\ Ordered(W) /\ p \in 0..Len(W)
      /\ \A k \in 1..p : W[k] = bytes[k]
      /\ From(W, p) = {x \in From(bytes, p) : x[1] # i}
  <2>1. W = Without(bytes, i)
    BY DEF i
  <2> QED
    BY <1>3, <1>5, <2>1, WithoutOrdered
<1>7. Left(Tail(ss)) = {x \in Left(ss) : x[1] # i}
  <2>1. ASSUME NEW x \in Left(Tail(ss)) PROVE x \in Left(ss) /\ x[1] # i
    <3>1. PICK j \in DOMAIN Tail(ss) :
             x[1] = Tail(ss)[j].id /\ x[2] >= Tail(ss)[j].wrote /\ x[2] < Tail(ss)[j].size
      BY DEF Left
    <3>2. x \in Byte /\ j + 1 \in DOMAIN ss /\ Tail(ss)[j] = ss[j + 1] /\ 1 < j + 1
      BY <1>1, <1>2 DEF Left
    <3>3. i < ss[j + 1].id
      BY <1>2, <3>2 DEF InOrder, i
    <3>4. ss[j + 1].id \in Nat
      BY <3>2, StreamFields
    <3>5. x[1] # i
      BY <1>4, <3>1, <3>2, <3>3, <3>4
    <3> QED
      BY <3>1, <3>2, <3>5 DEF Left
  <2>2. ASSUME NEW x \in Left(ss), x[1] # i PROVE x \in Left(Tail(ss))
    <3>1. PICK j \in DOMAIN ss : x[1] = ss[j].id /\ x[2] >= ss[j].wrote /\ x[2] < ss[j].size
      BY DEF Left
    <3>2. j # 1
      BY <2>2, <3>1 DEF i
    <3>3. j - 1 \in DOMAIN Tail(ss) /\ Tail(ss)[j - 1] = ss[j]
      BY <1>1, <3>2
    <3> QED
      BY <3>1, <3>3 DEF Left
  <2> QED
    BY <2>1, <2>2
<1>8. Gone(ss) \subseteq Gone(Tail(ss))
  BY <1>2 DEF Gone
<1>9. Behind(W, p, Tail(ss))
  BY <1>3, <1>6, <1>7, <1>8 DEF Behind
<1> QED
  BY <1>6, <1>9

LEMMA ConcatFacts ==
  ASSUME NEW s \in Seq(Byte), NEW b \in Seq(Byte), NEW t, t = s \o b
  PROVE  /\ t \in Seq(Byte) /\ Len(t) = Len(s) + Len(b) /\ Len(s) \in Nat /\ Len(b) \in Nat
         /\ DOMAIN t = 1..(Len(s) + Len(b)) /\ DOMAIN s = 1..Len(s) /\ DOMAIN b = 1..Len(b)
         /\ \A k \in 1..Len(s) : t[k] = s[k]
         /\ \A k \in 1..Len(b) : t[Len(s) + k] = b[k]
         /\ \A k \in 1..(Len(s) + Len(b)) : k \in 1..Len(s) \/ k - Len(s) \in 1..Len(b)
  OBVIOUS

LEMMA AllBytesRecursion ==
  ASSUME NEW r \in Requests, NEW a \in r.answers
  PROVE  \E upto \in [0..Len(a.parts) -> Seq(Byte)] :
            /\ upto[0] = <<>> /\ AllBytes(a) = upto[Len(a.parts)]
            /\ \A n \in 1..Len(a.parts) :
                  upto[n] = upto[n - 1] \o Bytes(n, 0, a.parts[n].size)
<1> DEFINE l == Len(a.parts)
           more(n) == Bytes(n, 0, a.parts[n].size)
           g == [x \in Nat \X Seq(Byte) |-> IF x[1] \in 1..l THEN x[2] \o more(x[1]) ELSE x[2]]
           Is(f) == f = [n \in 0..l |-> IF n = 0 THEN <<>> ELSE f[n - 1] \o more(n)]
<1>1. l \in Nat /\ <<>> \in Seq(Byte)
  BY AnswerFacts
<1>2. ASSUME NEW n \in 1..l PROVE more(n) \in Seq(Byte)
  <2>1. a.parts[n] \in [temp : BOOLEAN, size : Nat]
    BY AnswerFacts, ElementOfSeq
  <2>2. a.parts[n].size \in Nat /\ n \in Nat /\ 0 <= a.parts[n].size
    BY <1>1, <2>1
  <2> QED
    BY <2>2, BytesFacts
<1> HIDE DEF l, more
<1>3. g \in [Nat \X Seq(Byte) -> Seq(Byte)]
  <2>1. ASSUME NEW x \in Nat \X Seq(Byte)
        PROVE  (IF x[1] \in 1..l THEN x[2] \o more(x[1]) ELSE x[2]) \in Seq(Byte)
    <3>1. x[2] \in Seq(Byte)
      OBVIOUS
    <3>2. x[1] \in 1..l => x[2] \o more(x[1]) \in Seq(Byte)
      BY <1>2, <3>1, ConcatFacts
    <3> QED
      BY <3>1, <3>2
  <2> QED
    BY <2>1
<1>4. PICK f \in [0..l -> Seq(Byte)] : f[0] = <<>> /\ \A n \in 1..l : f[n] = g[<<n, f[n - 1]>>]
  <2> HIDE DEF g
  <2>1. Recursion(Seq(Byte), <<>>, g, l)
    BY <1>1, <1>3, RecursiveFunction
  <2> QED
    BY <2>1 DEF Recursion
<1>5. ASSUME NEW n \in 1..l PROVE f[n] = f[n - 1] \o more(n)
  <2>1. n \in Nat /\ n - 1 \in 0..l /\ f[n - 1] \in Seq(Byte)
    BY <1>1
  <2>2. g[<<n, f[n - 1]>>] = f[n - 1] \o more(n)
    BY <2>1
  <2> HIDE DEF g
  <2> QED
    BY <1>4, <2>2
<1> HIDE DEF g
<1>6. Is(f)
  <2>1. ASSUME NEW n \in 0..l PROVE f[n] = IF n = 0 THEN <<>> ELSE f[n - 1] \o more(n)
    <3>1. n = 0 \/ n \in 1..l
      BY <1>1
    <3> QED
      BY <1>4, <1>5, <3>1
  <2> QED
    BY <2>1
<1>7. \A k : Is(k) => k = f
  <2> SUFFICES ASSUME NEW k, Is(k) PROVE k = f
    OBVIOUS
  <2>1. UpTo(l, k) /\ UpTo(l, f)
    BY DEF UpTo
  <2>2. k[0] = f[0]
    BY <1>1, <1>4
  <2>3. ASSUME NEW n \in 1..l, k[n - 1] = f[n - 1] PROVE k[n] = f[n]
    <3>1. n \in 0..l /\ n # 0
      BY <1>1
    <3>2. k[n] = k[n - 1] \o more(n)
      BY <3>1
    <3> QED
      BY <1>5, <2>3, <3>2
  <2> HIDE DEF Is
  <2> QED
    BY <1>1, <2>1, <2>2, <2>3, SameRecursion
<1>8. (CHOOSE k : Is(k)) = f
  <2> HIDE DEF Is
  <2> QED
    BY <1>6, <1>7
<1>9. AllBytes(a) = f[l]
  BY <1>8 DEF AllBytes, l, more
<1> QED
  BY <1>4, <1>5, <1>9 DEF l, more

LEMMA AllOfFacts ==
  ASSUME NEW i \in Nat, NEW z \in Nat
  PROVE  /\ Bytes(i, 0, z) \in Seq(Byte) /\ Len(Bytes(i, 0, z)) = z
         /\ \A k \in 1..z : Bytes(i, 0, z)[k] = <<i, k - 1>>
<1>1. Bytes(i, 0, z) = [k \in 1..z |-> <<i, k - 1>>]
  BY DEF Bytes
<1>2. \A k \in 1..z : <<i, k - 1>> \in Byte
  BY DEF Byte
<1>3. Bytes(i, 0, z) \in [1..z -> Byte]
  BY <1>1, <1>2
<1>4. Bytes(i, 0, z) \in Seq(Byte) /\ Len(Bytes(i, 0, z)) = z
  BY <1>3
<1> QED
  BY <1>1, <1>4

(* All of an answer lies ahead of its streams as the handler left them.     *)
LEMMA AllBytesBehind ==
  ASSUME NEW r \in Requests, NEW a \in r.answers
  PROVE  Behind(AllBytes(a), 0, Streams(a))
<1> DEFINE l == Len(a.parts)
           size(n) == a.parts[n].size
           P(s, n) ==
              /\ s \in Seq(Byte) /\ Ordered(s)
              /\ \A k \in 1..Len(s) : s[k][1] \in 1..n /\ s[k][2] < size(s[k][1])
              /\ \A i \in 1..n, m \in Nat : m < size(i) => \E k \in 1..Len(s) : s[k] = <<i, m>>
<1>1. PICK upto \in [0..l -> Seq(Byte)] :
         /\ upto[0] = <<>> /\ AllBytes(a) = upto[l]
         /\ \A n \in 1..l : upto[n] = upto[n - 1] \o Bytes(n, 0, size(n))
  BY AllBytesRecursion
<1>2. l \in Nat
  BY AnswerFacts
<1>3. ASSUME NEW n \in 1..l PROVE size(n) \in Nat /\ n \in Nat
  <2>1. a.parts[n] \in [temp : BOOLEAN, size : Nat]
    BY AnswerFacts, ElementOfSeq
  <2> QED
    BY <1>2, <2>1
<1> HIDE DEF l, size
<1>4. P(upto[0], 0)
  <2>1. Ordered(<<>>) /\ <<>> \in Seq(Byte) /\ Len(<<>>) = 0 /\ 1..0 = {}
    BY DEF Ordered
  <2> QED
    BY <1>1, <2>1
<1>5. ASSUME NEW n \in Nat, n + 1 <= l, P(upto[n], n) PROVE P(upto[n + 1], n + 1)
  <2> DEFINE s == upto[n]
             b == Bytes(n + 1, 0, size(n + 1))
             t == upto[n + 1]
  <2>0. n + 1 \in 1..l /\ (n + 1) - 1 = n /\ n \in 0..l
    <3>1. n + 1 <= l
      BY <1>5
    <3> QED
      BY <1>2, <3>1
  <2>1. size(n + 1) \in Nat /\ 0 <= size(n + 1) /\ n + 1 \in Nat
    BY <1>3, <2>0
  <2>2. /\ b \in Seq(Byte) /\ Len(b) = size(n + 1)
        /\ \A k \in 1..size(n + 1) : b[k] = <<n + 1, k - 1>>
    BY <2>1, AllOfFacts
  <2>3. t = s \o b /\ s \in Seq(Byte)
    BY <1>1, <2>0
  <2> HIDE DEF s, b, t
  <2>4. /\ t \in Seq(Byte) /\ Len(t) = Len(s) + Len(b) /\ Len(s) \in Nat /\ Len(b) \in Nat
        /\ DOMAIN t = 1..(Len(s) + Len(b)) /\ DOMAIN s = 1..Len(s) /\ DOMAIN b = 1..Len(b)
        /\ \A k \in 1..Len(s) : t[k] = s[k]
        /\ \A k \in 1..Len(b) : t[Len(s) + k] = b[k]
        /\ \A k \in 1..(Len(s) + Len(b)) : k \in 1..Len(s) \/ k - Len(s) \in 1..Len(b)
    BY <2>2, <2>3, ConcatFacts
  <2>5. ASSUME NEW k \in 1..Len(t), k \notin 1..Len(s)
        PROVE  k - Len(s) \in 1..Len(b) /\ t[k] = <<n + 1, k - Len(s) - 1>>
    <3>1. k - Len(s) \in 1..Len(b) /\ Len(s) + (k - Len(s)) = k
      BY <2>4, <2>5
    <3>2. t[k] = b[k - Len(s)]
      BY <2>4, <3>1
    <3> QED
      BY <2>2, <3>1, <3>2
  <2>6. /\ Ordered(s)
        /\ \A k \in 1..Len(s) : s[k][1] \in 1..n /\ s[k][2] < size(s[k][1])
        /\ \A i \in 1..n, m \in Nat : m < size(i) => \E k \in 1..Len(s) : s[k] = <<i, m>>
    BY <1>5 DEF s
  <2>7. Ordered(t)
    <3>1. ASSUME NEW x \in 1..Len(t), NEW y \in 1..Len(t), x < y PROVE Before(t[x], t[y])
      <4>1. CASE y \in 1..Len(s)
        <5>1. x \in 1..Len(s)
          BY <2>4, <3>1, <4>1
        <5> QED
          BY <2>4, <2>6, <3>1, <4>1, <5>1 DEF Ordered
      <4>2. CASE y \notin 1..Len(s) /\ x \in 1..Len(s)
        <5>1. t[y][1] = n + 1 /\ t[x][1] \in 1..n
          BY <2>4, <2>5, <2>6, <4>2
        <5> QED
          BY <5>1 DEF Before
      <4>3. CASE y \notin 1..Len(s) /\ x \notin 1..Len(s)
        <5>1. /\ t[x] = <<n + 1, x - Len(s) - 1>> /\ t[y] = <<n + 1, y - Len(s) - 1>>
              /\ x - Len(s) - 1 < y - Len(s) - 1
          BY <2>4, <2>5, <3>1, <4>3
        <5> QED
          BY <5>1 DEF Before
      <4> QED
        BY <4>1, <4>2, <4>3
    <3>2. DOMAIN t = 1..Len(t)
      BY <2>4
    <3> QED
      BY <3>1, <3>2 DEF Ordered
  <2>8. ASSUME NEW k \in 1..Len(t) PROVE t[k][1] \in 1..(n + 1) /\ t[k][2] < size(t[k][1])
    <3>1. CASE k \in 1..Len(s)
      <4>1. t[k][1] \in 1..n /\ t[k][2] < size(t[k][1])
        BY <2>4, <2>6, <3>1
      <4> QED
        BY <4>1
    <3>2. CASE k \notin 1..Len(s)
      <4>1. t[k][1] = n + 1 /\ t[k][2] = k - Len(s) - 1 /\ k - Len(s) \in 1..size(n + 1)
        BY <2>2, <2>5, <3>2
      <4>2. k - Len(s) - 1 < size(n + 1)
        BY <2>1, <2>4, <4>1
      <4> QED
        BY <2>1, <4>1, <4>2
    <3> QED
      BY <3>1, <3>2
  <2>9. ASSUME NEW i \in 1..(n + 1), NEW m \in Nat, m < size(i)
        PROVE  \E k \in 1..Len(t) : t[k] = <<i, m>>
    <3>1. CASE i \in 1..n
      <4>1. PICK k \in 1..Len(s) : s[k] = <<i, m>>
        BY <2>6, <2>9, <3>1
      <4>2. k \in 1..Len(t)
        BY <2>4
      <4> QED
        BY <2>4, <4>1, <4>2
    <3>2. CASE i \notin 1..n
      <4>1. i = n + 1
        BY <3>2
      <4>2. m + 1 \in 1..Len(b) /\ (m + 1) - 1 = m
        BY <2>1, <2>2, <2>9, <4>1
      <4>3. t[Len(s) + (m + 1)] = <<i, m>>
        BY <2>2, <2>4, <4>1, <4>2
      <4>4. Len(s) + (m + 1) \in 1..Len(t)
        BY <2>4, <4>2
      <4> QED
        BY <4>3, <4>4
    <3> QED
      BY <3>1, <3>2
  <2> HIDE DEF P
  <2>10. P(t, n + 1)
    BY <2>4, <2>7, <2>8, <2>9 DEF P
  <2> QED
    BY <2>10 DEF t
<1> HIDE DEF P
<1>6. P(AllBytes(a), l)
  <2> DEFINE S == {n \in Nat : n <= l => P(upto[n], n)}
  <2>1. 0 \in S
    BY <1>4
  <2>2. ASSUME NEW n \in S PROVE n + 1 \in S
    <3>1. n \in Nat /\ (n + 1 <= l => n <= l)
      BY <1>2
    <3> QED
      BY <1>5, <3>1
  <2>3. S \in SUBSET Nat
    OBVIOUS
  <2>4. S = Nat
    <3> HIDE DEF S
    <3> QED
      BY <2>1, <2>2, <2>3, NaturalInduction
  <2>5. l \in S
    BY <1>2, <2>4
  <2> QED
    BY <1>1, <1>2, <2>5
<1> DEFINE all == AllBytes(a)
<1>7. /\ all \in Seq(Byte) /\ Ordered(all) /\ Len(all) \in Nat
      /\ \A k \in 1..Len(all) : all[k] \in Byte /\ all[k][1] \in 1..l /\ all[k][2] < size(all[k][1])
      /\ \A i \in 1..l, m \in Nat : m < size(i) => \E k \in 1..Len(all) : all[k] = <<i, m>>
  <2>1. all \in Seq(Byte)
    BY <1>6 DEF P
  <2>2. Len(all) \in Nat /\ \A k \in 1..Len(all) : all[k] \in Byte
    BY <2>1, ElementOfSeq
  <2> QED
    BY <1>6, <2>1, <2>2 DEF P
<1>8. /\ DOMAIN Streams(a) = 1..l
      /\ \A i \in 1..l : /\ Streams(a)[i].id = i /\ Streams(a)[i].size = size(i)
                         /\ Streams(a)[i].wrote = 0
  BY StreamsFacts DEF l, size
<1> HIDE DEF all
<1>9. ASSUME NEW x \in From(all, 0) PROVE x \in Left(Streams(a))
  <2>1. PICK k \in 1..Len(all) : x = all[k]
    BY DEF From
  <2>2. x \in Byte /\ x[1] \in 1..l /\ x[2] < size(x[1]) /\ x[2] \in Nat
    BY <1>7, <2>1 DEF Byte
  <2> DEFINE s == Streams(a)[x[1]]
  <2>3. x[1] = s.id /\ x[2] >= s.wrote /\ x[2] < s.size
    BY <1>8, <2>2
  <2> HIDE DEF s
  <2> QED
    BY <1>8, <2>2, <2>3 DEF Left, s
<1>10. ASSUME NEW x \in Left(Streams(a)) PROVE x \in From(all, 0)
  <2>1. PICK i \in 1..l : x \in Byte /\ x[1] = i /\ x[2] < size(i)
    BY <1>8 DEF Left
  <2>2. x = <<i, x[2]>> /\ x[2] \in Nat
    BY <2>1 DEF Byte
  <2>3. PICK k \in 1..Len(all) : all[k] = x
    BY <1>7, <2>1, <2>2
  <2> QED
    BY <2>3 DEF From
<1>11. 0 \in 0..Len(all) /\ 1..0 = {}
  BY <1>7
<1> QED
  BY <1>7, <1>9, <1>10, <1>11 DEF Behind, all

-----------------------------------------------------------------------------
(* What each step of a client's service does to its output.                 *)
Output(c, o, w, u) ==
    /\ out' = [out EXCEPT ![c] = o]
    /\ wire' = [wire EXCEPT ![c] = w]
    /\ due' = [due EXCEPT ![c] = u]

Dropped(c) == [out[c] EXCEPT !.streams = Tail(out[c].streams)]

LEMMA DropEffect ==
  ASSUME OutputInv, NEW c \in Clients, out[c].streams # <<>>, Drop(c)
  PROVE  /\ out' = [out EXCEPT ![c] = Dropped(c)]
         /\ Dropped(c) \in OutType /\ InOrder(Dropped(c).streams)
         /\ Dropped(c).streams = Tail(out[c].streams) /\ Dropped(c).header = out[c].header
         /\ Dropped(c).readsize = out[c].readsize /\ Dropped(c).skipped = out[c].skipped
<1>1. out \in [Clients -> OutType] /\ out[c] \in OutType
  BY DEF OutputInv
<1>2. out' = [out EXCEPT ![c] = Dropped(c)]
  BY <1>1 DEF Drop, Dropped
<1>3. Tail(out[c].streams) \in Seq(StreamType) /\ InOrder(Tail(out[c].streams))
  BY HeadFacts, TailInOrder DEF OutputInv
<1>4. /\ Dropped(c) \in OutType
      /\ Dropped(c).streams = Tail(out[c].streams) /\ Dropped(c).header = out[c].header
      /\ Dropped(c).readsize = out[c].readsize /\ Dropped(c).skipped = out[c].skipped
  BY <1>1, <1>3 DEF OutType, Dropped
<1> QED
  BY <1>2, <1>3, <1>4

LEMMA DueType ==
  ASSUME NEW bytes \in Seq(Byte), NEW k \in Nat
  PROVE  SubSeq(bytes, k + 1, Len(bytes)) \in Seq(Byte)
<1>1. \A i \in (k + 1)..Len(bytes) : i \in 1..Len(bytes) /\ bytes[i] \in Byte
  <2>1. \A i \in (k + 1)..Len(bytes) : i \in 1..Len(bytes)
    OBVIOUS
  <2> QED
    BY <2>1, ElementOfSeq
<1>2. k + 1 \in Int /\ Len(bytes) \in Int
  OBVIOUS
<1> QED
  BY <1>1, <1>2, SubSeqProperties

(* What a handler's answer consists of, from where its range begins.        *)
Due(a, range) ==
    IF range = 0 THEN AllBytes(a)
    ELSE SubSeq(AllBytes(a), a.header + range + 1, Len(AllBytes(a)))
Answered(a) == [NoOutput EXCEPT !.streams = Streams(a), !.header = a.header]

LEMMA AnsweredFacts ==
  ASSUME NEW r \in Requests, NEW a \in r.answers
  PROVE  /\ Answered(a) \in OutType /\ InOrder(Answered(a).streams)
         /\ Answered(a).streams = Streams(a) /\ Answered(a).header = a.header
         /\ Answered(a).readsize = 0 /\ Answered(a).skipped = FALSE /\ a.header \in Nat
<1>1. Streams(a) \in Seq(StreamType) /\ InOrder(Streams(a)) /\ a.header \in Nat
  BY StreamsFacts, AnswerFacts
<1> QED
  BY <1>1 DEF Answered, NoOutput, OutType

LEMMA HandleEffect ==
  ASSUME ServerTypeOK, OutputInv, NEW c \in Clients, NEW a \in req[c].answers, Handle(c, a)
  PROVE  \E range \in Nat, beyond \in BOOLEAN, status \in Said :
            /\ range > 0 => a.uselen
            /\ beyond <=> range > Len(AllBytes(a)) - a.header
            /\ status \in IF beyond THEN {"416"} ELSE {"200", "206"}
            /\ conn' = [conn EXCEPT ![c] = [conn[c] EXCEPT !.stat = IF beyond THEN 5 ELSE 4,
                                                           !.range = range]]
            /\ Output(c, Answered(a), IF peer[c] = "reset" THEN <<>> ELSE <<status>>, Due(a, range))
            /\ Due(a, range) \in Seq(Byte) /\ AllBytes(a) \in Seq(Byte)
<1>1. /\ req[c] \in Requests /\ conn \in [Clients -> ConnType] /\ conn[c].range \in Nat
      /\ conn[c].stat = 2 /\ out \in [Clients -> OutType]
  BY DEF Handle, Processing, ServerTypeOK, ConnType, OutputInv
<1> DEFINE range == IF a.uselen THEN conn[c].range ELSE 0
           beyond == range > Len(AllBytes(a)) - a.header
           status == IF beyond THEN "416" ELSE IF range > 0 THEN "206" ELSE "200"
<1>2. range \in Nat /\ (range > 0 => a.uselen) /\ a.uselen \in BOOLEAN /\ a.header \in Nat
  BY <1>1, AnswerFacts
<1>3. beyond \in BOOLEAN /\ status \in Said /\ status \in IF beyond THEN {"416"} ELSE {"200", "206"}
  BY DEF Said
<1>4. AllBytes(a) \in Seq(Byte)
  BY <1>1, AllBytesBehind DEF Behind
<1>5. Due(a, range) \in Seq(Byte)
  <2> HIDE DEF range
  <2>1. a.header + range \in Nat
    BY <1>2
  <2> QED
    BY <1>4, <2>1, DueType DEF Due
<1>6. /\ conn' = [conn EXCEPT ![c].stat = IF beyond THEN 5 ELSE 4, ![c].range = range]
      /\ wire' = [wire EXCEPT ![c] = IF peer[c] = "reset" THEN <<>> ELSE <<status>>]
      /\ due' = [due EXCEPT ![c] = Due(a, range)]
      /\ out' = [out EXCEPT ![c].streams = Streams(a), ![c].header = a.header]
  BY DEF Handle, Says, Due
<1> HIDE DEF range, beyond, status
<1>7. conn' = [conn EXCEPT ![c] = [conn[c] EXCEPT !.stat = IF beyond THEN 5 ELSE 4, !.range = range]]
  BY <1>1, <1>6
<1>8. out' = [out EXCEPT ![c] = Answered(a)]
  <2>1. out[c] = NoOutput
    BY <1>1 DEF OutputInv, Idle
  <2>2. out' = [out EXCEPT ![c] = [NoOutput EXCEPT !.streams = Streams(a), !.header = a.header]]
    BY <1>1, <1>6, <2>1
  <2> QED
    BY <2>2 DEF Answered
<1>9. beyond <=> range > Len(AllBytes(a)) - a.header
  BY DEF beyond
<1> QED
  BY <1>2, <1>3, <1>4, <1>5, <1>6, <1>7, <1>8, <1>9 DEF Output

LEMMA WrittenInOrder ==
  ASSUME OutputInv, NEW c \in Clients, out[c].streams # <<>>,
         NEW n \in Nat \ {0}, n = Chunk(Head1(c)), NEW m \in 0..n,
         NEW tt, tt = [out[c].streams EXCEPT ![1] = Written(Head1(c), n, m)]
  PROVE  InOrder(tt)
<1>1. /\ out[c].streams \in Seq(StreamType) /\ InOrder(out[c].streams)
      /\ Head1(c) \in StreamType /\ Head1(c).wrote <= Head1(c).size /\ Begun(Head1(c))
      /\ Head1(c) = out[c].streams[1]
  BY HeadFacts DEF OutputInv, Head1
<1> DEFINE s == Written(Head1(c), n, m)
<1>2. /\ s \in StreamType /\ s.id = Head1(c).id /\ s.size = Head1(c).size
      /\ s.wrote <= s.size /\ Begun(s)
  BY <1>1, WrittenFacts
<1> HIDE DEF s
<1>3. tt = [out[c].streams EXCEPT ![1] = s]
  BY DEF s
<1> QED
  BY <1>1, <1>2, <1>3, HeadInOrder

LEMMA LineType ==
  ASSUME NEW c, NEW status \in Said
  PROVE  (IF peer[c] = "reset" THEN <<>> ELSE <<status>>) \in Seq(Said \cup Byte)
<1> DEFINE T == Said \cup Byte
<1>1. status \in T
  OBVIOUS
<1> HIDE DEF T
<1>2. <<>> \in Seq(T) /\ <<status>> \in Seq(T)
  BY <1>1
<1> QED
  BY <1>2 DEF T

LEMMA WithoutType ==
  ASSUME NEW bytes \in Seq(Byte), NEW i
  PROVE  Without(bytes, i) \in Seq(Byte)
<1>1. PICK rest \in [0..Len(bytes) -> Seq(Byte)] : Without(bytes, i) = rest[Len(bytes)]
  BY WithoutFacts
<1>2. Len(bytes) \in 0..Len(bytes)
  OBVIOUS
<1> QED
  BY <1>1, <1>2

(* What a step of a client's service makes of its output, so that OutputInv *)
(* holds of it again.                                                       *)
Effect(c) ==
    \E o \in OutType, w \in Seq(Said \cup Byte), u \in Seq(Byte) :
        /\ Output(c, o, w, u) /\ InOrder(o.streams)
        /\ conn'[c].stat \in {1, 2} => o = NoOutput /\ w = <<>> /\ u = <<>>
        /\ conn'[c].stat = 4 /\ ~o.skipped /\ conn'[c].range > 0 =>
              o.readsize < o.header + conn'[c].range

LEMMA WorkEffect ==
  ASSUME ServerTypeOK, OutputInv, NEW c \in Clients, Work(c)
  PROVE  Effect(c)
<1>0. /\ out \in [Clients -> OutType] /\ wire \in [Clients -> Seq(Said \cup Byte)]
      /\ due \in [Clients -> Seq(Byte)] /\ conn \in [Clients -> ConnType]
      /\ out[c] \in OutType /\ wire[c] \in Seq(Said \cup Byte) /\ due[c] \in Seq(Byte)
      /\ conn[c] \in ConnType /\ InOrder(out[c].streams) /\ req[c] \in Requests
      /\ conn[c].range \in Nat
  BY DEF OutputInv, ServerTypeOK, ConnType
<1>a. /\ out = [out EXCEPT ![c] = out[c]] /\ wire = [wire EXCEPT ![c] = wire[c]]
      /\ due = [due EXCEPT ![c] = due[c]]
  BY <1>0
<1>b. ASSUME UNCHANGED <<out, wire, due>>,
             \/ conn'[c].stat = 5
             \/ conn'[c].stat \in {1, 2} /\ Idle(c)
      PROVE  Effect(c)
  <2>1. Output(c, out[c], wire[c], due[c])
    BY <1>a, <1>b DEF Output
  <2> QED
    BY <1>0, <1>b, <2>1 DEF Effect, Idle
<1>c. ASSUME NEW x, conn' = [conn EXCEPT ![c].stat = x] PROVE conn'[c].stat = x
  BY <1>0, <1>c DEF ConnType
<1>d. ASSUME UNCHANGED <<conn, wire>>, out[c].streams # <<>>, Drop(c), conn[c].stat = 4,
             NEW u \in Seq(Byte), due' = [due EXCEPT ![c] = u]
      PROVE  Effect(c)
  <2>1. /\ out' = [out EXCEPT ![c] = Dropped(c)]
        /\ Dropped(c) \in OutType /\ InOrder(Dropped(c).streams)
        /\ Dropped(c).header = out[c].header
        /\ Dropped(c).readsize = out[c].readsize /\ Dropped(c).skipped = out[c].skipped
    BY <1>d, DropEffect
  <2>2. Output(c, Dropped(c), wire[c], u)
    BY <1>a, <1>d, <2>1 DEF Output
  <2>3. ~Dropped(c).skipped /\ conn[c].range > 0 =>
           Dropped(c).readsize < Dropped(c).header + conn[c].range
    BY <1>d, <2>1 DEF OutputInv, Skipping
  <2>4. conn'[c].stat = 4 /\ conn'[c].range = conn[c].range
    BY <1>d
  <2> QED
    BY <1>0, <2>1, <2>2, <2>3, <2>4 DEF Effect
<1>1. CASE Receive(c)
  <2>1. conn[c].stat = 1 /\ UNCHANGED <<out, wire, due>>
    BY <1>1 DEF Receive, Reading, answer
  <2>2. conn'[c].stat = 1
    BY <1>0, <1>1, <2>1 DEF Receive, ConnType
  <2> QED
    BY <1>b, <2>1, <2>2 DEF OutputInv
<1>2. CASE ReceiveFails(c)
  BY <1>b, <1>c, <1>2 DEF ReceiveFails, answer
<1>3. CASE Poll(c)
  <2>1. conn[c].stat = 1 /\ UNCHANGED <<out, wire, due>>
    BY <1>3 DEF Poll, Reading, answer
  <2>2. PICK n \in Polled(conn[c], req[c]) : conn' = [conn EXCEPT ![c] = n]
    BY <1>3 DEF Poll
  <2>3. n.stat \in {1, 2}
    BY <1>0, <2>1, PolledFacts
  <2> QED
    BY <1>0, <1>b, <2>1, <2>2, <2>3 DEF OutputInv
<1>4. CASE Refuse(c)
  <2> DEFINE w == IF peer[c] = "reset" THEN <<>> ELSE <<"refused">>
  <2>1. w \in Seq(Said \cup Byte)
    BY LineType DEF Said
  <2>2. wire' = [wire EXCEPT ![c] = w] /\ UNCHANGED <<out, due>> /\ conn'[c].stat = 5
    BY <1>c, <1>4 DEF Refuse, Says
  <2> HIDE DEF w
  <2>3. Output(c, out[c], w, due[c])
    BY <1>a, <2>2 DEF Output
  <2> QED
    BY <1>0, <2>1, <2>2, <2>3 DEF Effect
<1>5. CASE NoRedirect(c)
  <2> DEFINE status == IF conn[c].range > 0 THEN "206" ELSE "200"
             w == IF peer[c] = "reset" THEN <<>> ELSE <<status>>
  <2>1. w \in Seq(Said \cup Byte)
    BY LineType DEF Said
  <2>2. wire' = [wire EXCEPT ![c] = w] /\ UNCHANGED <<out, due>>
    BY <1>5 DEF NoRedirect, Says
  <2>3. conn'[c].stat = 4 /\ conn'[c].range = conn[c].range
    BY <1>0, <1>5 DEF NoRedirect
  <2> HIDE DEF w
  <2>4. Output(c, out[c], w, due[c])
    BY <1>a, <2>2 DEF Output
  <2>5. out[c].readsize = 0 /\ out[c].header = 0
    BY <1>0, <1>5 DEF OutputInv, Idle, NoRedirect, Processing, NoOutput
  <2> QED
    BY <1>0, <2>1, <2>2, <2>3, <2>4, <2>5 DEF Effect
<1>6. CASE NoStream(c)
  BY <1>b, <1>c, <1>6 DEF NoStream
<1>7. ASSUME NEW a \in req[c].answers, Handle(c, a) PROVE Effect(c)
  <2>1. PICK range \in Nat, beyond \in BOOLEAN, status \in Said :
            /\ conn' = [conn EXCEPT ![c] = [conn[c] EXCEPT !.stat = IF beyond THEN 5 ELSE 4,
                                                           !.range = range]]
            /\ Output(c, Answered(a), IF peer[c] = "reset" THEN <<>> ELSE <<status>>, Due(a, range))
            /\ Due(a, range) \in Seq(Byte)
    BY <1>7, HandleEffect
  <2> DEFINE w == IF peer[c] = "reset" THEN <<>> ELSE <<status>>
  <2>2. w \in Seq(Said \cup Byte)
    BY LineType
  <2>3. /\ Answered(a) \in OutType /\ InOrder(Answered(a).streams)
        /\ Answered(a).header \in Nat /\ Answered(a).readsize = 0
    BY <1>0, AnsweredFacts
  <2>4. conn'[c].range = range /\ conn'[c].stat \in {4, 5}
    BY <1>0, <2>1 DEF ConnType
  <2>5. Output(c, Answered(a), w, Due(a, range))
    BY <2>1
  <2>6. range > 0 => 0 < Answered(a).header + range
    BY <2>3
  <2> HIDE DEF w
  <2> QED
    BY <2>1, <2>2, <2>3, <2>4, <2>5, <2>6 DEF Effect
<1>8. CASE Finish(c)
  BY <1>b, <1>c, <1>8 DEF Finish, answer
<1>9. CASE CannotOpen(c)
  <2>1. PICK W \in Seq(Byte) : due' = [due EXCEPT ![c] = W]
    <3>2. Without(due[c], Head1(c).id) \in Seq(Byte)
      BY <1>0, WithoutType
    <3> QED
      BY <1>9, <3>2 DEF CannotOpen
  <2> QED
    BY <1>d, <1>9, <2>1 DEF CannotOpen, Sending
<1>10. CASE AtEnd(c)
  <2>1. out[c].streams # <<>> /\ Drop(c) /\ UNCHANGED <<conn, wire, due>> /\ conn[c].stat = 4
    BY <1>10, AtEndEffect DEF AtEnd, Sending
  <2>2. due' = [due EXCEPT ![c] = due[c]]
    BY <1>a, <2>1
  <2> QED
    BY <1>0, <1>d, <2>1, <2>2
<1>11. CASE Skip(c)
  <2>1. PICK n \in Nat \ {0} : \E m \in 0..n, skipped \in BOOLEAN :
            /\ out[c].streams # <<>> /\ n = Chunk(Head1(c))
            /\ out' = [out EXCEPT ![c] = WithHead(c, Written(Head1(c), n, m),
                                                  out[c].readsize + n, skipped)]
            /\ IF skipped THEN out[c].readsize + m = out[c].header + conn[c].range
               ELSE m = n /\ out[c].readsize + n < out[c].header + conn[c].range
            /\ UNCHANGED <<conn, disk, wire, due>>
    BY <1>0, <1>11, SkipEffect
  <2>2. PICK m \in 0..n, skipped \in BOOLEAN :
            /\ out[c].streams # <<>> /\ n = Chunk(Head1(c))
            /\ out' = [out EXCEPT ![c] = WithHead(c, Written(Head1(c), n, m),
                                                  out[c].readsize + n, skipped)]
            /\ ~skipped => out[c].readsize + n < out[c].header + conn[c].range
            /\ UNCHANGED <<conn, disk, wire, due>>
    BY <2>1
  <2> DEFINE o == WithHead(c, Written(Head1(c), n, m), out[c].readsize + n, skipped)
  <2>3. out[c].readsize + n \in Nat
    BY <1>0 DEF OutType
  <2>4. Written(Head1(c), n, m) \in StreamType
    BY <2>2, HeadFacts, WrittenFacts
  <2>5. /\ o \in OutType /\ o.streams = [out[c].streams EXCEPT ![1] = Written(Head1(c), n, m)]
        /\ o.header = out[c].header /\ o.readsize = out[c].readsize + n /\ o.skipped = skipped
    BY <2>2, <2>3, <2>4, WithHeadType
  <2>6. InOrder(o.streams)
    BY <2>2, <2>4, <2>5, WrittenInOrder
  <2> HIDE DEF o
  <2>7. Output(c, o, wire[c], due[c])
    BY <1>a, <2>2 DEF Output, o
  <2>8. conn[c].stat = 4
    BY <1>11 DEF Skip, Sending
  <2> QED
    BY <1>0, <2>2, <2>5, <2>6, <2>7, <2>8 DEF Effect
<1>12. CASE Send(c)
  <2>1. PICK n \in Nat \ {0} : \E m \in 0..n :
            /\ out[c].streams # <<>> /\ n = Chunk(Head1(c))
            /\ out' = [out EXCEPT ![c] = WithHead(c, Written(Head1(c), n, m),
                                                  out[c].readsize, out[c].skipped)]
            /\ wire' = [wire EXCEPT ![c] =
                          @ \o Bytes(Head1(c).id, Head1(c).wrote, Head1(c).wrote + m)]
            /\ conn[c].stat = 4 /\ ~Skipping(c)
            /\ UNCHANGED <<conn, disk, due>>
    BY <1>12, SendEffect DEF ServerTypeOK
  <2>2. PICK m \in 0..n :
            /\ out[c].streams # <<>> /\ n = Chunk(Head1(c))
            /\ out' = [out EXCEPT ![c] = WithHead(c, Written(Head1(c), n, m),
                                                  out[c].readsize, out[c].skipped)]
            /\ wire' = [wire EXCEPT ![c] =
                          @ \o Bytes(Head1(c).id, Head1(c).wrote, Head1(c).wrote + m)]
            /\ conn[c].stat = 4 /\ ~Skipping(c)
            /\ UNCHANGED <<conn, disk, due>>
    BY <2>1
  <2> DEFINE o == WithHead(c, Written(Head1(c), n, m), out[c].readsize, out[c].skipped)
             w == wire[c] \o Bytes(Head1(c).id, Head1(c).wrote, Head1(c).wrote + m)
  <2>3. out[c].readsize \in Nat /\ out[c].skipped \in BOOLEAN
    BY <1>0 DEF OutType
  <2>4. Written(Head1(c), n, m) \in StreamType
    BY <2>2, HeadFacts, WrittenFacts
  <2>5. /\ o \in OutType /\ o.streams = [out[c].streams EXCEPT ![1] = Written(Head1(c), n, m)]
        /\ o.skipped = out[c].skipped
    BY <2>2, <2>3, <2>4, WithHeadType
  <2>6. InOrder(o.streams)
    BY <2>2, <2>4, <2>5, WrittenInOrder
  <2>7. w \in Seq(Said \cup Byte)
    <3>1. Head1(c).id \in Nat /\ Head1(c).wrote \in Nat
      BY <2>2, HeadFacts DEF StreamType
    <3>a. Head1(c).wrote + m \in Nat /\ Head1(c).wrote <= Head1(c).wrote + m
      BY <3>1
    <3>2. Bytes(Head1(c).id, Head1(c).wrote, Head1(c).wrote + m) \in Seq(Byte)
      BY <3>1, <3>a, BytesFacts
    <3>3. Bytes(Head1(c).id, Head1(c).wrote, Head1(c).wrote + m) \in Seq(Said \cup Byte)
      BY <3>2
    <3> QED
      BY <1>0, <3>3
  <2> HIDE DEF o, w
  <2>8. Output(c, o, w, due[c])
    BY <1>a, <2>2 DEF Output, o, w
  <2>9. conn'[c].stat = 4 /\ (~o.skipped => ~(conn'[c].range > 0))
    BY <2>2, <2>5 DEF Skipping
  <2>10. /\ conn'[c].stat \in {1, 2} => o = NoOutput /\ w = <<>> /\ due[c] = <<>>
         /\ conn'[c].stat = 4 /\ ~o.skipped /\ conn'[c].range > 0 =>
               o.readsize < o.header + conn'[c].range
    BY <2>9
  <2> QED
    BY <1>0, <2>5, <2>6, <2>7, <2>8, <2>10 DEF Effect
<1>13. CASE SendFails(c)
  <2>1. out[c].streams # <<>> /\ Drop(c) /\ UNCHANGED <<conn, wire, due>> /\ conn[c].stat = 4
    BY <1>13 DEF SendFails, Sending
  <2>2. due' = [due EXCEPT ![c] = due[c]]
    BY <1>a, <2>1
  <2> QED
    BY <1>0, <1>d, <2>1, <2>2
<1> QED
  BY <1>1, <1>2, <1>3, <1>4, <1>5, <1>6, <1>7, <1>8, <1>9, <1>10, <1>11, <1>12, <1>13 DEF Work

-----------------------------------------------------------------------------
(* Steps that leave every client and its answer as they are.                *)
LEMMA StepCases ==
  ASSUME ServerTypeOK, [ServerNext]_server
  PROVE  \/ UNCHANGED <<conn, out, disk, wire, due>> /\ (UNCHANGED cur \/ \E c \in Clients : Visit(c))
         \/ \E c \in Clients : Delete(c)
         \/ \E c \in Clients : Work(c)
<1> USE DEF sockets, loop, answer
<1>1. CASE Select \/ AcceptFails \/ EndScan
  BY <1>1 DEF Select, AcceptFails, EndScan
<1>2. CASE \E c \in Clients : Visit(c)
  BY <1>2 DEF Visit
<1>3. ASSUME NEW c \in Clients, Peer(c)
      PROVE  UNCHANGED <<conn, out, disk, wire, due, cur>>
  BY <1>3, PeerIsLocal
<1>4. CASE \E c \in Clients, f \in Fds : Accept(c, f)
  BY <1>4 DEF Accept
<1>5. CASE UNCHANGED server
  BY <1>5 DEF server
<1> QED
  BY <1>1, <1>2, <1>3, <1>4, <1>5, NextCases

LEMMA NoOutputFacts ==
  /\ NoOutput \in OutType /\ InOrder(NoOutput.streams) /\ NoOutput.streams = <<>>
  /\ Fresh.stat = 1 /\ Fresh.got = 0 /\ Fresh.len = 0
<1>1. <<>> \in Seq(StreamType) /\ DOMAIN <<>> = {}
  OBVIOUS
<1>2. InOrder(<<>>)
  BY <1>1 DEF InOrder
<1> QED
  BY <1>1, <1>2 DEF NoOutput, OutType, Fresh

LEMMA OutputStep ==
  ASSUME ServerTypeOK, OutputInv, [ServerNext]_server
  PROVE  OutputInv'
<1>0. /\ out \in [Clients -> OutType] /\ wire \in [Clients -> Seq(Said \cup Byte)]
      /\ due \in [Clients -> Seq(Byte)] /\ conn \in [Clients -> ConnType]
  BY DEF OutputInv, ServerTypeOK
<1>1. CASE UNCHANGED <<conn, out, disk, wire, due>>
  BY <1>1 DEF OutputInv, Idle, Skipping
<1>2. ASSUME NEW c \in Clients, Delete(c) PROVE OutputInv'
  <2>1. /\ conn' = [conn EXCEPT ![c] = Fresh] /\ out' = [out EXCEPT ![c] = NoOutput]
        /\ wire' = [wire EXCEPT ![c] = <<>>] /\ due' = [due EXCEPT ![c] = <<>>]
    BY <1>2 DEF Delete
  <2>2. <<>> \in Seq(Said \cup Byte) /\ <<>> \in Seq(Byte)
    OBVIOUS
  <2>3. /\ out' \in [Clients -> OutType] /\ wire' \in [Clients -> Seq(Said \cup Byte)]
        /\ due' \in [Clients -> Seq(Byte)]
    BY <1>0, <2>1, <2>2, NoOutputFacts
  <2>4. ASSUME NEW d \in Clients
        PROVE  /\ InOrder(out'[d].streams)
               /\ conn'[d].stat \in {1, 2} => Idle(d)'
               /\ conn'[d].stat = 4 /\ Skipping(d)' => out'[d].readsize < out'[d].header + conn'[d].range
    <3>1. CASE d = c
      BY <1>0, <2>1, <3>1, NoOutputFacts DEF Idle
    <3>2. CASE d # c
      <4>1. out'[d] = out[d] /\ conn'[d] = conn[d] /\ wire'[d] = wire[d] /\ due'[d] = due[d]
        BY <1>0, <2>1, <3>2
      <4> QED
        BY <4>1 DEF OutputInv, Idle, Skipping
    <3> QED
      BY <3>1, <3>2
  <2> QED
    BY <2>3, <2>4 DEF OutputInv
<1>3. ASSUME NEW c \in Clients, Work(c) PROVE OutputInv'
  <2>1. PICK o \in OutType, w \in Seq(Said \cup Byte), u \in Seq(Byte) :
        /\ Output(c, o, w, u) /\ InOrder(o.streams)
        /\ conn'[c].stat \in {1, 2} => o = NoOutput /\ w = <<>> /\ u = <<>>
        /\ conn'[c].stat = 4 /\ ~o.skipped /\ conn'[c].range > 0 =>
              o.readsize < o.header + conn'[c].range
    BY <1>3, WorkEffect DEF Effect
  <2>2. PICK n \in ConnType : conn' = [conn EXCEPT ![c] = n]
    BY <1>3, WorkIsLocal
  <2>3. out'[c] = o /\ wire'[c] = w /\ due'[c] = u
    BY <1>0, <2>1 DEF Output
  <2>4. /\ out' \in [Clients -> OutType] /\ wire' \in [Clients -> Seq(Said \cup Byte)]
        /\ due' \in [Clients -> Seq(Byte)]
    BY <1>0, <2>1 DEF Output
  <2>5. ASSUME NEW d \in Clients
        PROVE  /\ InOrder(out'[d].streams)
               /\ conn'[d].stat \in {1, 2} => Idle(d)'
               /\ conn'[d].stat = 4 /\ Skipping(d)' => out'[d].readsize < out'[d].header + conn'[d].range
    <3>1. CASE d = c
      BY <2>1, <2>3, <3>1 DEF Idle, Skipping
    <3>2. CASE d # c
      <4>1. out'[d] = out[d] /\ conn'[d] = conn[d] /\ wire'[d] = wire[d] /\ due'[d] = due[d]
        BY <1>0, <2>1, <2>2, <3>2 DEF Output
      <4> QED
        BY <4>1 DEF OutputInv, Idle, Skipping
    <3> QED
      BY <3>1, <3>2
  <2> QED
    BY <2>4, <2>5 DEF OutputInv
<1> QED
  BY <1>1, <1>2, <1>3, StepCases

LEMMA OnlyCurrentStep ==
  ASSUME ServerTypeOK, OutputInv, OnlyCurrent, [ServerNext]_server
  PROVE  OnlyCurrent'
<1>0. /\ out \in [Clients -> OutType] /\ wire \in [Clients -> Seq(Said \cup Byte)]
      /\ due \in [Clients -> Seq(Byte)] /\ conn \in [Clients -> ConnType]
  BY DEF OutputInv, ServerTypeOK
<1>1. CASE UNCHANGED <<conn, out, disk, wire, due>> /\ UNCHANGED cur
  BY <1>1 DEF OnlyCurrent, IsNew
<1>2. ASSUME NEW c \in Clients, Visit(c) PROVE OnlyCurrent'
  BY <1>2 DEF OnlyCurrent, IsNew, Visit, answer
<1>3. ASSUME NEW c \in Clients, Delete(c) PROVE OnlyCurrent'
  <2>1. /\ conn' = [conn EXCEPT ![c] = Fresh] /\ out' = [out EXCEPT ![c] = NoOutput]
        /\ wire' = [wire EXCEPT ![c] = <<>>] /\ due' = [due EXCEPT ![c] = <<>>]
        /\ cur = c /\ cur' = NoClient
    BY <1>3 DEF Delete
  <2> QED
    BY <1>0, <2>1 DEF OnlyCurrent, IsNew
<1>4. ASSUME NEW c \in Clients, Work(c) PROVE OnlyCurrent'
  <2>1. PICK o, w, u : Output(c, o, w, u)
    BY <1>4, WorkEffect DEF Effect
  <2>2. PICK n : conn' = [conn EXCEPT ![c] = n]
    BY <1>4, WorkIsLocal
  <2>3. cur = c /\ cur' = c
    BY <1>4, WorkIsLocal
  <2>4. ASSUME NEW d \in Clients \ {c} PROVE IsNew(d)'
    <3>1. out'[d] = out[d] /\ conn'[d] = conn[d] /\ wire'[d] = wire[d] /\ due'[d] = due[d]
      BY <1>0, <2>1, <2>2 DEF Output
    <3> QED
      BY <2>3, <3>1 DEF OnlyCurrent, IsNew
  <2> QED
    BY <2>3, <2>4 DEF OnlyCurrent
<1> QED
  BY <1>1, <1>2, <1>3, <1>4, StepCases

(* A client's length: what it declared, or not known yet.                   *)
LEMMA AskedLengthStep ==
  ASSUME ServerTypeOK, LoopInv, OnlyCurrent, AskedLength, OutputInv, [ServerNext]_server
  PROVE  AskedLength'
<1>0. conn \in [Clients -> ConnType] /\ req \in [Clients -> Requests]
      /\ cur \in Clients \cup {NoClient} /\ list \subseteq Clients
  BY DEF ServerTypeOK
<1>1. ASSUME NEW c \in Clients, Peer(c) PROVE AskedLength'
  <2>1. UNCHANGED conn /\ \A d \in Clients : peer[d] # "away" => req'[d] = req[d]
    BY <1>1, PeerIsLocal
  <2>2. ASSUME NEW d \in Clients PROVE conn'[d].len \in {0, req'[d].len}
    <3>1. CASE d = cur
      <4>1. peer[d] # "away"
        BY <3>1 DEF LoopInv
      <4> QED
        BY <2>1, <4>1 DEF AskedLength
    <3>2. CASE d # cur
      <4>1. conn[d].len = 0
        BY <3>2, NoOutputFacts DEF OnlyCurrent, IsNew
      <4> QED
        BY <2>1, <4>1
    <3> QED
      BY <3>1, <3>2
  <2> QED
    BY <2>2 DEF AskedLength
<1>2. ASSUME UNCHANGED <<conn, req>> PROVE AskedLength'
  BY <1>2 DEF AskedLength
<1>3. CASE Select \/ AcceptFails \/ EndScan \/ \E c \in Clients : Visit(c) \/ \E f \in Fds : Accept(c, f)
  BY <1>2, <1>3 DEF Select, AcceptFails, EndScan, Visit, Accept, sockets
<1>4. ASSUME NEW c \in Clients, Delete(c) PROVE AskedLength'
  <2>1. conn' = [conn EXCEPT ![c] = Fresh] /\ req' = [req EXCEPT ![c] = AnyRequest(c)]
    BY <1>4 DEF Delete
  <2> QED
    BY <1>0, <2>1, NoOutputFacts DEF AskedLength
<1>5. ASSUME NEW c \in Clients, Work(c) PROVE AskedLength'
  <2>1. UNCHANGED req /\ conn[c] \in ConnType /\ conn[c].len \in {0, req[c].len} /\ req[c] \in Requests
    BY <1>0, <1>5, WorkIsLocal DEF AskedLength
  <2>2. ASSUME NEW n, conn' = [conn EXCEPT ![c] = n], n.len \in {0, req[c].len} PROVE AskedLength'
    BY <1>0, <2>1, <2>2 DEF AskedLength
  <2>3. CASE Poll(c)
    <3>1. PICK n \in Polled(conn[c], req[c]) : conn' = [conn EXCEPT ![c] = n]
      BY <2>3 DEF Poll
    <3>2. conn[c].stat = 1
      BY <2>3 DEF Poll, Reading
    <3>3. n.len \in {0, conn[c].len, req[c].len}
      BY <2>1, <3>1, <3>2, PolledFacts
    <3> QED
      BY <2>1, <2>2, <3>1, <3>3
  <2>4. CASE Receive(c)
    <3>1. PICK n : conn' = [conn EXCEPT ![c] = [conn[c] EXCEPT !.got = n, !.tries = 0]]
      BY <1>0, <2>4 DEF Receive
    <3>2. [conn[c] EXCEPT !.got = n, !.tries = 0].len = conn[c].len
      BY <2>1 DEF ConnType
    <3> QED
      BY <2>1, <2>2, <3>1, <3>2
  <2>5. ASSUME NEW x, conn' = [conn EXCEPT ![c].stat = x] PROVE AskedLength'
    <3>1. [conn[c] EXCEPT !.stat = x].len = conn[c].len
      BY <2>1 DEF ConnType
    <3> QED
      BY <2>1, <2>2, <2>5, <3>1
  <2>6. ASSUME NEW x, NEW y, conn' = [conn EXCEPT ![c] = [conn[c] EXCEPT !.stat = x, !.range = y]]
        PROVE  AskedLength'
    <3>1. [conn[c] EXCEPT !.stat = x, !.range = y].len = conn[c].len
      BY <2>1 DEF ConnType
    <3> QED
      BY <2>1, <2>2, <2>6, <3>1
  <2>7. CASE ReceiveFails(c) \/ Refuse(c) \/ NoStream(c) \/ Finish(c)
    BY <2>5, <2>7 DEF ReceiveFails, Refuse, NoStream, Finish
  <2>8. CASE NoRedirect(c)
    BY <2>5, <2>8 DEF NoRedirect
  <2>9. ASSUME NEW a \in req[c].answers, Handle(c, a) PROVE AskedLength'
    BY <2>6, <2>9, HandleEffect
  <2>10. CASE CannotOpen(c) \/ AtEnd(c) \/ Skip(c) \/ Send(c) \/ SendFails(c)
    BY <1>2, <2>1, <2>10 DEF CannotOpen, AtEnd, Skip, Send, SendFails
  <2> QED
    BY <1>5, <2>3, <2>4, <2>7, <2>8, <2>9, <2>10 DEF Work
<1>6. CASE UNCHANGED server
  BY <1>2, <1>6 DEF server, sockets
<1> QED
  BY <1>1, <1>3, <1>4, <1>5, <1>6, NextCases

-----------------------------------------------------------------------------
(* The temporary files of some streams of one client.                       *)
FilesOf(c, ss) == {<<c, ss[i].id>> : i \in {j \in DOMAIN ss : ss[j].temp}}

LEMMA DropFiles ==
  ASSUME NEW c \in Clients, NEW ss \in Seq(StreamType), ss # <<>>, InOrder(ss)
  PROVE  FilesOf(c, Tail(ss)) = IF ss[1].temp THEN FilesOf(c, ss) \ {<<c, ss[1].id>>}
                                ELSE FilesOf(c, ss)
<1>1. /\ DOMAIN ss = 1..Len(ss) /\ Len(ss) \in Nat \ {0}
      /\ DOMAIN Tail(ss) = 1..(Len(ss) - 1)
      /\ \A j \in 1..(Len(ss) - 1) : Tail(ss)[j] = ss[j + 1]
  BY TailInOrder
<1>2. 1 \in DOMAIN ss /\ ss[1].id \in Nat
  BY <1>1, StreamFields
<1>3. ASSUME NEW x \in FilesOf(c, Tail(ss))
      PROVE  x \in FilesOf(c, ss) /\ x # <<c, ss[1].id>>
  <2>1. PICK j \in DOMAIN Tail(ss) : Tail(ss)[j].temp /\ x = <<c, Tail(ss)[j].id>>
    BY DEF FilesOf
  <2>2. j + 1 \in DOMAIN ss /\ Tail(ss)[j] = ss[j + 1] /\ 1 < j + 1
    BY <1>1
  <2>3. ss[1].id < ss[j + 1].id
    BY <1>2, <2>2 DEF InOrder
  <2>4. ss[j + 1].id # ss[1].id
    BY <1>2, <2>2, <2>3, StreamFields
  <2>5. x \in FilesOf(c, ss)
    BY <2>1, <2>2 DEF FilesOf
  <2> QED
    BY <2>1, <2>2, <2>4, <2>5
<1>4. ASSUME NEW x \in FilesOf(c, ss), ~(ss[1].temp /\ x = <<c, ss[1].id>>)
      PROVE  x \in FilesOf(c, Tail(ss))
  <2>1. PICK j \in DOMAIN ss : ss[j].temp /\ x = <<c, ss[j].id>>
    BY DEF FilesOf
  <2>2. j # 1
    BY <1>4, <2>1
  <2>3. j - 1 \in DOMAIN Tail(ss) /\ Tail(ss)[j - 1] = ss[j]
    BY <1>1, <2>2
  <2> QED
    BY <2>1, <2>3 DEF FilesOf
<1>5. CASE ss[1].temp
  BY <1>3, <1>4, <1>5
<1>6. CASE ~ss[1].temp
  BY <1>3, <1>4, <1>6
<1> QED
  BY <1>5, <1>6

LEMMA HeadFiles ==
  ASSUME NEW c \in Clients, NEW ss \in Seq(StreamType), ss # <<>>,
         NEW s \in StreamType, s.id = ss[1].id, s.temp = ss[1].temp,
         NEW tt, tt = [ss EXCEPT ![1] = s]
  PROVE  FilesOf(c, tt) = FilesOf(c, ss)
<1>1. DOMAIN tt = DOMAIN ss /\ \A i \in DOMAIN ss : tt[i].id = ss[i].id /\ tt[i].temp = ss[i].temp
  OBVIOUS
<1> QED
  BY <1>1 DEF FilesOf

LEMMA NotLost ==
  ASSUME NEW c \in Clients, NEW i
  PROVE  <<c, i>> # Lost
  BY DEF Lost

LEMMA FilesStep ==
  ASSUME ServerTypeOK, LoopInv, OnlyCurrent, OutputInv, FilesInv, [ServerNext]_server
  PROVE  FilesInv'
<1>0. /\ out \in [Clients -> OutType] /\ cur \in Clients \cup {NoClient}
      /\ req \in [Clients -> Requests]
  BY DEF OutputInv, ServerTypeOK
<1>a. \A c : TempFiles(c) = FilesOf(c, out[c].streams) /\ TempFiles(c)' = FilesOf(c, out'[c].streams)
  BY DEF TempFiles, FilesOf
<1>b. \A c : FilesOf(c, NoOutput.streams) = {} /\ FilesOf(c, <<>>) = {}
  BY NoOutputFacts DEF FilesOf
<1>1. CASE UNCHANGED <<conn, out, disk, wire, due>> /\ UNCHANGED cur
  BY <1>1, <1>a DEF FilesInv
<1>2. ASSUME NEW c \in Clients, Visit(c) PROVE FilesInv'
  <2>1. out'[c] = NoOutput /\ UNCHANGED disk /\ cur = NoClient /\ cur' = c
    BY <1>2 DEF Visit, answer, OnlyCurrent, IsNew
  <2> QED
    BY <1>a, <1>b, <2>1 DEF FilesInv
<1>3. ASSUME NEW c \in Clients, Delete(c) PROVE FilesInv'
  BY <1>3, <1>0 DEF FilesInv, Delete
<1>4. ASSUME NEW c \in Clients, Work(c) PROVE FilesInv'
  <2> DEFINE ss == out[c].streams
  <2>1. cur = c /\ cur' = c /\ c # NoClient /\ req[c] \in Requests
    BY <1>0, <1>4, WorkIsLocal
  <2>2. disk \ {Lost} = FilesOf(c, ss)
    BY <1>a, <2>1 DEF FilesInv
  <2>3. ss \in Seq(StreamType) /\ InOrder(ss)
    BY <1>0 DEF OutputInv, OutType
  <2> HIDE DEF ss
  <2>4. ASSUME disk' \ {Lost} = FilesOf(c, out'[c].streams) PROVE FilesInv'
    BY <1>a, <2>1, <2>4 DEF FilesInv
  <2>5. CASE UNCHANGED <<out, disk>>
    BY <2>2, <2>4, <2>5 DEF ss
  <2>6. CASE \/ Receive(c) \/ ReceiveFails(c) \/ Poll(c) \/ Refuse(c) \/ NoRedirect(c) \/ Finish(c)
    BY <2>5, <2>6 DEF Receive, ReceiveFails, Poll, Refuse, NoRedirect, Finish, answer
  <2>7. CASE NoStream(c)
    BY <2>2, <2>4, <2>7 DEF NoStream, ss
  <2>8. ASSUME NEW a \in req[c].answers, Handle(c, a) PROVE FilesInv'
    <3>1. FilesOf(c, ss) = {}
      BY <1>b, <2>8, <1>0 DEF Handle, Processing, OutputInv, Idle, ss
    <3>2. out' = [out EXCEPT ![c] = Answered(a)]
      BY <2>8, HandleEffect DEF Output
    <3>3. out'[c].streams = Streams(a)
      BY <1>0, <2>1, <3>2, AnsweredFacts
    <3>4. FilesOf(c, Streams(a)) = {<<c, i>> : i \in {j \in DOMAIN a.parts : a.parts[j].temp}}
      BY <2>1, StreamsFacts DEF FilesOf
    <3>5. disk' = disk \cup FilesOf(c, Streams(a))
      BY <2>8, <3>4 DEF Handle
    <3>6. Lost \notin FilesOf(c, Streams(a))
      BY NotLost DEF FilesOf
    <3> QED
      BY <2>2, <2>4, <3>1, <3>3, <3>5, <3>6
  <2>9. ASSUME ss # <<>>, Drop(c) PROVE FilesInv'
    <3>1. out'[c].streams = Tail(ss)
      BY <1>0, <2>9, DropEffect DEF ss
    <3>2. disk' = IF ss[1].temp THEN disk \ {<<c, ss[1].id>>} ELSE disk
      BY <2>9 DEF Drop, Head1, ss
    <3>3. FilesOf(c, Tail(ss)) = IF ss[1].temp THEN FilesOf(c, ss) \ {<<c, ss[1].id>>}
                                 ELSE FilesOf(c, ss)
      BY <2>3, <2>9, DropFiles
    <3> QED
      BY <2>2, <2>4, <3>1, <3>2, <3>3
  <2>10. CASE CannotOpen(c) \/ AtEnd(c) \/ SendFails(c)
    BY <2>9, <2>10, AtEndEffect DEF CannotOpen, SendFails, ss
  <2>11. ASSUME UNCHANGED disk, ss # <<>>, NEW n \in Nat \ {0}, n = Chunk(Head1(c)), NEW m \in 0..n,
                NEW read \in Nat, NEW skipped \in BOOLEAN,
                out' = [out EXCEPT ![c] = WithHead(c, Written(Head1(c), n, m), read, skipped)]
         PROVE  FilesInv'
    <3> DEFINE s == Written(Head1(c), n, m)
    <3>1. s \in StreamType /\ s.id = ss[1].id /\ s.temp = ss[1].temp
      BY <2>11, HeadFacts, WrittenFacts DEF ss, Head1
    <3>2. out'[c].streams = [ss EXCEPT ![1] = s]
      BY <1>0, <2>11, <3>1, WithHeadType DEF ss
    <3> HIDE DEF s
    <3>3. FilesOf(c, out'[c].streams) = FilesOf(c, ss)
      BY <2>3, <2>11, <3>1, <3>2, HeadFiles
    <3> QED
      BY <2>2, <2>4, <2>11, <3>3
  <2>12. /\ out[c].readsize \in Nat /\ out[c].skipped \in BOOLEAN /\ conn[c].range \in Nat
         /\ \A n \in Nat : out[c].readsize + n \in Nat
    <3>1. out[c] \in OutType /\ conn[c] \in ConnType
      BY <1>0 DEF ServerTypeOK
    <3>2. out[c].readsize \in Nat /\ out[c].skipped \in BOOLEAN /\ conn[c].range \in Nat
      BY <3>1 DEF OutType, ConnType
    <3> QED
      BY <3>2
  <2>13. CASE Skip(c)
    <3>1. PICK n \in Nat \ {0} : \E m \in 0..n, skipped \in BOOLEAN :
            /\ out[c].streams # <<>> /\ n = Chunk(Head1(c))
            /\ out' = [out EXCEPT ![c] = WithHead(c, Written(Head1(c), n, m),
                                                  out[c].readsize + n, skipped)]
            /\ UNCHANGED disk
      BY <2>12, <2>13, SkipEffect
    <3> QED
      BY <2>11, <2>12, <3>1 DEF ss
  <2>14. CASE Send(c)
    <3>1. PICK n \in Nat \ {0} : \E m \in 0..n :
            /\ out[c].streams # <<>> /\ n = Chunk(Head1(c))
            /\ out' = [out EXCEPT ![c] = WithHead(c, Written(Head1(c), n, m),
                                                  out[c].readsize, out[c].skipped)]
            /\ UNCHANGED disk
      BY <2>14, SendEffect DEF ServerTypeOK
    <3> QED
      BY <2>11, <2>12, <3>1 DEF ss
  <2> QED
    BY <1>4, <2>6, <2>7, <2>8, <2>10, <2>13, <2>14 DEF Work
<1> QED
  BY <1>1, <1>2, <1>3, <1>4, StepCases

-----------------------------------------------------------------------------
(* A client is owed what its streams have left: while the bytes before its  *)
(* range are skipped, of all of the answer; afterwards, of what is due.     *)
SentAlike(c) == \A k \in 1..(Len(wire[c]) - 1) : wire[c][k + 1] = due[c][k]
AllOpen(c) == \A i \in DOMAIN out[c].streams : out[c].streams[i].open
Start(c) == out[c].header + conn[c].range

SkippingInv(c) ==
    \E a \in req[c].answers :
       /\ Len(wire[c]) = 1 /\ wire[c][1] \in Said /\ AllOpen(c)
       /\ out[c].readsize < Start(c) /\ Start(c) <= Len(AllBytes(a))
       /\ due[c] = SubSeq(AllBytes(a), Start(c) + 1, Len(AllBytes(a)))
       /\ Behind(AllBytes(a), out[c].readsize, out[c].streams)

SendingInv(c) ==
    /\ conn[c].range > 0 => AllOpen(c)
    /\ wire[c] # <<>>
    /\ Behind(due[c], Len(wire[c]) - 1, out[c].streams)
    /\ SentAlike(c)

(* The empty answer, of which nothing is skipped whatever the range.        *)
EmptyAnswer(c) == out[c].streams = <<>> /\ Len(wire[c]) = 1 /\ due[c] = <<>>

AnswerOf(c) ==
    /\ peer[c] # "reset" /\ conn[c].stat = 4 /\ Skipping(c) => SkippingInv(c) \/ EmptyAnswer(c)
    /\ peer[c] # "reset" /\ conn[c].stat = 4 /\ ~Skipping(c) => SendingInv(c)
    /\ peer[c] # "reset" /\ conn[c].stat = 5 /\ wire[c] # <<>> =>
          \/ Len(wire[c]) - 1 = Len(due[c]) /\ SentAlike(c)
          \/ Len(wire[c]) = 1 /\ wire[c][1] \notin {"200", "206"}

AnswerInv == \A c \in Clients : AnswerOf(c)

(* A client that nothing is sent to has its answer as it was.               *)
LEMMA SameAnswer ==
  ASSUME NEW c, AnswerOf(c),
         out'[c] = out[c], conn'[c] = conn[c], wire'[c] = wire[c], due'[c] = due[c],
         conn[c].stat \in {4, 5} => req'[c] = req[c],
         peer'[c] # "reset" => peer[c] # "reset"
  PROVE  AnswerOf(c)'
<1>1. /\ Skipping(c)' <=> Skipping(c)
      /\ (SentAlike(c)' <=> SentAlike(c)) /\ (AllOpen(c)' <=> AllOpen(c)) /\ Start(c)' = Start(c)
  BY DEF Skipping, SentAlike, AllOpen, Start
<1>2. conn[c].stat = 4 /\ SkippingInv(c) => SkippingInv(c)'
  BY <1>1 DEF SkippingInv
<1>3. SendingInv(c) => SendingInv(c)'
  BY <1>1 DEF SendingInv
<1> QED
  BY <1>1, <1>2, <1>3 DEF AnswerOf, EmptyAnswer

LEMMA IdleAnswer ==
  ASSUME NEW c, conn[c].stat \in {1, 2} \/ (wire[c] = <<>> /\ conn[c].stat # 4)
  PROVE  AnswerOf(c)
  BY DEF AnswerOf

LEMMA OneLine ==
  ASSUME NEW x
  PROVE  Len(<<x>>) = 1 /\ <<x>>[1] = x /\ Tail(<<x>>) = <<>> /\ <<x>> # <<>>
  OBVIOUS

(* The handler answers.                                                     *)
LEMMA HandleAnswer ==
  ASSUME ServerTypeOK, OutputInv, NEW c \in Clients, NEW a \in req[c].answers, Handle(c, a)
  PROVE  AnswerOf(c)'
<1>1. PICK range \in Nat, beyond \in BOOLEAN, status \in Said :
            /\ range > 0 => a.uselen
            /\ beyond <=> range > Len(AllBytes(a)) - a.header
            /\ status \in IF beyond THEN {"416"} ELSE {"200", "206"}
            /\ conn' = [conn EXCEPT ![c] = [conn[c] EXCEPT !.stat = IF beyond THEN 5 ELSE 4,
                                                           !.range = range]]
            /\ Output(c, Answered(a), IF peer[c] = "reset" THEN <<>> ELSE <<status>>, Due(a, range))
            /\ Due(a, range) \in Seq(Byte) /\ AllBytes(a) \in Seq(Byte)
  BY HandleEffect
<1>2. /\ out \in [Clients -> OutType] /\ wire \in [Clients -> Seq(Said \cup Byte)]
      /\ due \in [Clients -> Seq(Byte)] /\ conn \in [Clients -> ConnType]
      /\ conn[c] \in ConnType /\ req[c] \in Requests
      /\ peer' = peer /\ req' = req
  BY DEF OutputInv, ServerTypeOK, Handle, sockets
<1>3. /\ out'[c] = Answered(a) /\ due'[c] = Due(a, range)
      /\ wire'[c] = IF peer[c] = "reset" THEN <<>> ELSE <<status>>
  BY <1>1, <1>2 DEF Output
<1>4. conn'[c].stat = (IF beyond THEN 5 ELSE 4) /\ conn'[c].range = range
  BY <1>1, <1>2 DEF ConnType
<1>5. /\ Answered(a).streams = Streams(a) /\ Answered(a).header = a.header
      /\ Answered(a).readsize = 0 /\ Answered(a).skipped = FALSE /\ a.header \in Nat
  BY <1>2, AnsweredFacts
<1>6. Behind(AllBytes(a), 0, Streams(a))
  BY <1>2, AllBytesBehind
<1> SUFFICES ASSUME peer[c] # "reset" PROVE AnswerOf(c)'
  BY <1>2 DEF AnswerOf
<1>7. wire'[c] = <<status>> /\ Len(wire'[c]) = 1 /\ wire'[c][1] = status /\ Tail(wire'[c]) = <<>>
  BY <1>3, OneLine
<1>8. range > 0 => AllOpen(c)'
  <2> SUFFICES ASSUME range > 0 PROVE AllOpen(c)'
    OBVIOUS
  <2>1. a.uselen
    BY <1>1
  <2>2. \A i \in DOMAIN Streams(a) : Streams(a)[i].open
    BY <1>2, <2>1, StreamsFacts
  <2> QED
    BY <1>3, <1>5, <2>2 DEF AllOpen
<1>9. CASE beyond
  BY <1>1, <1>4, <1>7, <1>9 DEF AnswerOf
<1>10. CASE ~beyond /\ range = 0
  <2>1. ~Skipping(c)'
    BY <1>4, <1>10 DEF Skipping
  <2>2. due'[c] = AllBytes(a)
    BY <1>3, <1>10 DEF Due
  <2>3. SentAlike(c)'
    BY <1>7 DEF SentAlike
  <2>4. wire'[c] # <<>> /\ Len(wire'[c]) - 1 = 0
    BY <1>7
  <2>5. SendingInv(c)'
    BY <1>3, <1>4, <1>5, <1>6, <1>7, <1>10, <2>2, <2>3, <2>4 DEF SendingInv
  <2> QED
    BY <1>4, <1>10, <2>1, <2>5 DEF AnswerOf
<1>11. CASE ~beyond /\ range > 0
  <2>1. Skipping(c)'
    BY <1>3, <1>4, <1>5, <1>11 DEF Skipping
  <2>2. Start(c)' = a.header + range /\ out'[c].readsize = 0 /\ out'[c].streams = Streams(a)
    BY <1>3, <1>4, <1>5 DEF Start
  <2>3. due'[c] = SubSeq(AllBytes(a), a.header + range + 1, Len(AllBytes(a)))
    <3>1. range # 0
      BY <1>11
    <3> QED
      BY <1>3, <3>1 DEF Due
  <2>4. 0 < a.header + range /\ a.header + range <= Len(AllBytes(a))
    BY <1>1, <1>5, <1>11
  <2>5. SkippingInv(c)'
    BY <1>2, <1>6, <1>7, <1>8, <1>11, <2>2, <2>3, <2>4 DEF SkippingInv
  <2> QED
    BY <1>4, <1>11, <2>1, <2>5 DEF AnswerOf
<1> QED
  BY <1>9, <1>10, <1>11

(* The stream at hand goes, written to its end.                             *)
LEMMA DropAnswer ==
  ASSUME OutputInv, NEW c \in Clients, AnswerOf(c), conn[c].stat = 4,
         out[c].streams # <<>>, Head1(c).wrote = Head1(c).size, Drop(c),
         UNCHANGED <<conn, wire, due, peer, req>>
  PROVE  AnswerOf(c)'
<1> DEFINE ss == out[c].streams
<1>1. ss \in Seq(StreamType) /\ InOrder(ss) /\ out \in [Clients -> OutType]
  BY DEF OutputInv, OutType
<1>2. /\ out'[c].streams = Tail(ss) /\ out'[c].header = out[c].header
      /\ out'[c].readsize = out[c].readsize /\ out'[c].skipped = out[c].skipped
  BY <1>1, DropEffect
<1>3. \A bytes, p : Behind(bytes, p, ss) => Behind(bytes, p, Tail(ss))
  BY <1>1, DropHead DEF Head1
<1>4. AllOpen(c) => AllOpen(c)'
  <2>1. \A i \in DOMAIN Tail(ss) : i + 1 \in DOMAIN ss /\ Tail(ss)[i] = ss[i + 1]
    BY <1>1, TailInOrder
  <2> QED
    BY <1>2, <2>1 DEF AllOpen
<1>5. (Skipping(c)' <=> Skipping(c)) /\ Start(c)' = Start(c) /\ (SentAlike(c)' <=> SentAlike(c))
  BY <1>2 DEF Skipping, Start, SentAlike
<1>6. SkippingInv(c) => SkippingInv(c)'
  BY <1>2, <1>3, <1>4, <1>5 DEF SkippingInv
<1>7. SendingInv(c) => SendingInv(c)'
  BY <1>2, <1>3, <1>4, <1>5 DEF SendingInv
<1> QED
  BY <1>5, <1>6, <1>7 DEF AnswerOf, EmptyAnswer

(* Nothing is left to send: everything was sent, and nothing was skipped    *)
(* that there was not.                                                      *)
LEMMA FinishAnswer ==
  ASSUME ServerTypeOK, OutputInv, NEW c \in Clients, AnswerOf(c), Finish(c)
  PROVE  AnswerOf(c)'
<1>1. /\ conn[c].stat = 4 /\ out[c].streams = <<>> /\ UNCHANGED <<peer, out, wire, due>>
      /\ conn'[c].stat = 5 /\ out[c] \in OutType
  BY DEF Finish, Sending, sockets, answer, ServerTypeOK, ConnType, OutputInv
<1> SUFFICES ASSUME peer[c] # "reset" PROVE AnswerOf(c)'
  BY <1>1 DEF AnswerOf
<1>2. Skipping(c) => EmptyAnswer(c)
  <2> SUFFICES ASSUME Skipping(c), SkippingInv(c) PROVE FALSE
    BY <1>1 DEF AnswerOf
  <2>1. SkippingInv(c)
    OBVIOUS
  <2>2. PICK a \in req[c].answers :
           /\ out[c].readsize < Start(c) /\ Start(c) <= Len(AllBytes(a))
           /\ Behind(AllBytes(a), out[c].readsize, <<>>)
    BY <1>1, <2>1 DEF SkippingInv
  <2>3. out[c].readsize = Len(AllBytes(a))
    BY <2>2, NothingLeft
  <2>4. out[c].readsize \in Nat /\ out[c].header \in Nat /\ conn[c].range \in Nat
    BY <1>1 DEF OutType, ServerTypeOK, ConnType
  <2> QED
    BY <2>2, <2>3, <2>4 DEF Start
<1>3. ASSUME SendingInv(c) PROVE Len(wire[c]) - 1 = Len(due[c]) /\ SentAlike(c)
  BY <1>1, <1>3, NothingLeft DEF SendingInv
<1>a. ASSUME EmptyAnswer(c) PROVE Len(wire[c]) - 1 = Len(due[c]) /\ SentAlike(c)
  <2>1. Len(wire[c]) - 1 = 0 /\ Len(due[c]) = 0
    BY <1>a DEF EmptyAnswer
  <2>2. 1..(Len(wire[c]) - 1) = 1..0
    BY <2>1
  <2>3. 1..0 = {}
    OBVIOUS
  <2> QED
    BY <2>1, <2>2, <2>3 DEF SentAlike
<1>4. Len(wire[c]) - 1 = Len(due[c]) /\ SentAlike(c)
  BY <1>1, <1>2, <1>3, <1>a DEF AnswerOf
<1>5. Len(wire'[c]) - 1 = Len(due'[c]) /\ SentAlike(c)'
  BY <1>1, <1>4 DEF SentAlike
<1> QED
  BY <1>1, <1>5 DEF AnswerOf

(* A file that is gone: what it would have given was neither sent nor       *)
(* skipped.                                                                 *)
LEMMA CannotOpenAnswer ==
  ASSUME ServerTypeOK, OutputInv, NEW c \in Clients, AnswerOf(c), CannotOpen(c)
  PROVE  AnswerOf(c)'
<1> DEFINE ss == out[c].streams
           W == Without(due[c], ss[1].id)
<1>1. /\ conn[c].stat = 4 /\ ss # <<>> /\ ~ss[1].open /\ Drop(c)
      /\ UNCHANGED <<peer, conn, wire>> /\ due' = [due EXCEPT ![c] = W]
      /\ due \in [Clients -> Seq(Byte)] /\ conn[c].range \in Nat
  BY DEF CannotOpen, Sending, Head1, sockets, OutputInv, ServerTypeOK, ConnType
<1>2. ss \in Seq(StreamType) /\ InOrder(ss) /\ out \in [Clients -> OutType]
  BY DEF OutputInv, OutType
<1>3. 1 \in DOMAIN ss /\ ss[1] \in StreamType
  BY <1>1, <1>2, StreamFields
<1>4. ss[1].wrote = 0
  <2>1. Begun(ss[1])
    BY <1>2, <1>3 DEF InOrder
  <2> QED
    BY <1>1, <2>1 DEF Begun
<1>5. ~AllOpen(c)
  BY <1>1, <1>3 DEF AllOpen
<1>6. /\ out'[c].streams = Tail(ss) /\ out'[c].header = out[c].header
      /\ out'[c].readsize = out[c].readsize /\ out'[c].skipped = out[c].skipped
  BY <1>1, <1>2, DropEffect
<1> SUFFICES ASSUME peer[c] # "reset" PROVE AnswerOf(c)'
  BY <1>1 DEF AnswerOf
<1>7. ~Skipping(c) /\ SendingInv(c)
  BY <1>1, <1>5 DEF AnswerOf, SkippingInv, EmptyAnswer
<1>8. ~(conn[c].range > 0) /\ due'[c] = W /\ wire'[c] = wire[c] /\ conn'[c] = conn[c]
  BY <1>1, <1>5, <1>7 DEF SendingInv
<1> HIDE DEF ss, W
<1>9. /\ Behind(W, Len(wire[c]) - 1, Tail(ss))
      /\ \A k \in 1..(Len(wire[c]) - 1) : W[k] = due[c][k]
  <2>1. Behind(due[c], Len(wire[c]) - 1, ss)
    BY <1>7 DEF SendingInv, ss
  <2> DEFINE p == Len(wire[c]) - 1
  <2> HIDE DEF p
  <2>2. Behind(due[c], p, ss)
    BY <2>1 DEF p
  <2>3. W = Without(due[c], ss[1].id)
    BY DEF W
  <2>4. Behind(W, p, Tail(ss)) /\ \A k \in 1..p : W[k] = due[c][k]
    BY <1>1, <1>2, <1>4, <2>2, <2>3, WithoutHead
  <2> QED
    BY <2>4 DEF p
<1>10. SentAlike(c)'
  BY <1>7, <1>8, <1>9 DEF SendingInv, SentAlike
<1>11. SendingInv(c)'
  BY <1>6, <1>7, <1>8, <1>9, <1>10 DEF SendingInv
<1>12. ~Skipping(c)'
  BY <1>8 DEF Skipping
<1> QED
  BY <1>1, <1>8, <1>11, <1>12 DEF AnswerOf

(* Some bytes of the stream at hand, as ConsumeHead has it.                 *)
HeadWritten(c, n, m) == [out[c].streams EXCEPT ![1] = Written(Head1(c), n, m)]
FurtherBehind(c, n, m, bytes, p) ==
    /\ Behind(bytes, p + m, HeadWritten(c, n, m))
    /\ \A k \in 1..m : bytes[p + k] = <<Head1(c).id, Head1(c).wrote + k - 1>>
    /\ \A i \in DOMAIN HeadWritten(c, n, m) :
          HeadWritten(c, n, m)[i].open \/ HeadWritten(c, n, m)[i] = out[c].streams[i]
    /\ DOMAIN HeadWritten(c, n, m) = DOMAIN out[c].streams

LEMMA WrittenBehind ==
  ASSUME OutputInv, NEW c \in Clients, out[c].streams # <<>>,
         NEW n \in Nat \ {0}, n = Chunk(Head1(c)), NEW m \in 0..n,
         NEW bytes, NEW p, Behind(bytes, p, out[c].streams)
  PROVE  FurtherBehind(c, n, m, bytes, p)
<1> DEFINE ss == out[c].streams
           s == Written(Head1(c), n, m)
           tt == HeadWritten(c, n, m)
<1>1. /\ ss \in Seq(StreamType) /\ InOrder(ss)
      /\ Head1(c) \in StreamType /\ Head1(c).wrote <= Head1(c).size /\ Begun(Head1(c))
      /\ Head1(c) = ss[1]
  BY HeadFacts DEF OutputInv, Head1
<1>2. /\ s \in StreamType /\ s.id = ss[1].id /\ s.size = ss[1].size /\ s.open
      /\ s.wrote = ss[1].wrote + m /\ ss[1].wrote + m <= ss[1].size
  BY <1>1, WrittenFacts
<1>3. m \in Nat /\ ss # <<>> /\ Behind(bytes, p, ss)
  OBVIOUS
<1>4. tt = [ss EXCEPT ![1] = s]
  BY DEF HeadWritten
<1> HIDE DEF ss, s, tt
<1>5. /\ Behind(bytes, p + m, tt)
      /\ \A k \in 1..m : bytes[p + k] = <<ss[1].id, ss[1].wrote + k - 1>>
  <2>1. Consumed(bytes, p, m, ss[1], tt)
    BY <1>1, <1>2, <1>3, <1>4, ConsumeHead
  <2> QED
    BY <2>1 DEF Consumed
<1>6. DOMAIN tt = DOMAIN ss /\ \A i \in DOMAIN tt : tt[i].open \/ tt[i] = ss[i]
  BY <1>1, <1>2, <1>3, <1>4
<1> QED
  BY <1>1, <1>5, <1>6 DEF ss, tt, FurtherBehind

(* Bytes before the range are read and thrown away.                         *)
LEMMA SkipAnswer ==
  ASSUME ServerTypeOK, OutputInv, NEW c \in Clients, AnswerOf(c), Skip(c)
  PROVE  AnswerOf(c)'
<1>1. /\ conn[c].stat = 4 /\ Skipping(c) /\ UNCHANGED <<peer, req>>
      /\ conn[c].range \in Nat /\ out \in [Clients -> OutType] /\ out[c] \in OutType
  BY DEF Skip, Sending, sockets, ServerTypeOK, ConnType, OutputInv
<1>2. out[c].readsize \in Nat /\ out[c].header \in Nat
  BY <1>1 DEF OutType
<1>3. PICK n \in Nat \ {0} : \E m \in 0..n, skipped \in BOOLEAN :
            /\ out[c].streams # <<>> /\ n = Chunk(Head1(c))
            /\ out' = [out EXCEPT ![c] = WithHead(c, Written(Head1(c), n, m),
                                                  out[c].readsize + n, skipped)]
            /\ IF skipped THEN out[c].readsize + m = out[c].header + conn[c].range
               ELSE m = n /\ out[c].readsize + n < out[c].header + conn[c].range
            /\ UNCHANGED <<conn, disk, wire, due>>
  BY <1>1, SkipEffect
<1>4. PICK m \in 0..n, skipped \in BOOLEAN :
            /\ out[c].streams # <<>> /\ n = Chunk(Head1(c))
            /\ out' = [out EXCEPT ![c] = WithHead(c, Written(Head1(c), n, m),
                                                  out[c].readsize + n, skipped)]
            /\ skipped => out[c].readsize + m = Start(c)
            /\ ~skipped => m = n /\ out[c].readsize + n < Start(c)
            /\ UNCHANGED <<conn, disk, wire, due>>
  BY <1>3 DEF Start
<1> DEFINE tt == HeadWritten(c, n, m)
<1>5. /\ out'[c].streams = tt /\ out'[c].header = out[c].header
      /\ out'[c].readsize = out[c].readsize + n /\ out'[c].skipped = skipped
  <2>1. Written(Head1(c), n, m) \in StreamType
    BY <1>4, HeadFacts, WrittenFacts
  <2>2. out[c].readsize + n \in Nat
    BY <1>2
  <2>3. out'[c] = WithHead(c, Written(Head1(c), n, m), out[c].readsize + n, skipped)
    BY <1>1, <1>4
  <2> QED
    BY <1>4, <2>1, <2>2, <2>3, WithHeadType DEF HeadWritten
<1> SUFFICES ASSUME peer[c] # "reset" PROVE AnswerOf(c)'
  BY <1>1 DEF AnswerOf
<1>6. SkippingInv(c)
  BY <1>1, <1>4 DEF AnswerOf, EmptyAnswer
<1>7. PICK a \in req[c].answers :
         /\ Len(wire[c]) = 1 /\ wire[c][1] \in Said /\ AllOpen(c)
         /\ Start(c) <= Len(AllBytes(a))
         /\ due[c] = SubSeq(AllBytes(a), Start(c) + 1, Len(AllBytes(a)))
         /\ Behind(AllBytes(a), out[c].readsize, out[c].streams)
  BY <1>6 DEF SkippingInv
<1>8. /\ Behind(AllBytes(a), out[c].readsize + m, tt)
      /\ \A i \in DOMAIN tt : tt[i].open \/ tt[i] = out[c].streams[i]
      /\ DOMAIN tt = DOMAIN out[c].streams
  <2> DEFINE q == out[c].readsize
  <2>1. Behind(AllBytes(a), q, out[c].streams)
    BY <1>7
  <2> HIDE DEF q
  <2>2. FurtherBehind(c, n, m, AllBytes(a), q)
    BY <1>4, <2>1, WrittenBehind
  <2> QED
    BY <2>2 DEF FurtherBehind, q
<1> HIDE DEF tt
<1>9. AllOpen(c)' /\ Start(c)' = Start(c)
  BY <1>4, <1>5, <1>7, <1>8 DEF AllOpen, Start
<1>10. CASE ~skipped
  <2>1. Skipping(c)'
    BY <1>1, <1>4, <1>5, <1>10 DEF Skipping
  <2>2. Behind(AllBytes(a), out'[c].readsize, out'[c].streams) /\ out'[c].readsize < Start(c)
    BY <1>4, <1>5, <1>8, <1>10
  <2>3. SkippingInv(c)'
    BY <1>1, <1>4, <1>7, <1>9, <2>2 DEF SkippingInv
  <2> QED
    BY <1>1, <1>4, <2>1, <2>3 DEF AnswerOf
<1>11. CASE skipped
  <2>1. ~Skipping(c)'
    BY <1>5, <1>11 DEF Skipping
  <2>2. Behind(AllBytes(a), Start(c), tt)
    BY <1>4, <1>8, <1>11
  <2>3. Behind(due[c], 0, tt)
    BY <1>7, <2>2, Shift
  <2>4. wire'[c] = wire[c] /\ due'[c] = due[c] /\ Len(wire[c]) - 1 = 0 /\ wire[c] # <<>>
    BY <1>4, <1>7
  <2>5. SentAlike(c)'
    <3>1. Len(wire'[c]) - 1 = 0
      BY <2>4
    <3>2. 1..(Len(wire'[c]) - 1) = 1..0
      BY <3>1
    <3>3. 1..0 = {}
      OBVIOUS
    <3> QED
      BY <3>2, <3>3 DEF SentAlike
  <2>6. SendingInv(c)'
    BY <1>5, <1>9, <2>3, <2>4, <2>5 DEF SendingInv
  <2> QED
    BY <1>1, <1>4, <2>1, <2>6 DEF AnswerOf
<1> QED
  BY <1>10, <1>11

(* Bytes are sent, as many as the kernel takes.                             *)
LEMMA SendAnswer ==
  ASSUME ServerTypeOK, OutputInv, NEW c \in Clients, AnswerOf(c), Send(c)
  PROVE  AnswerOf(c)'
<1>1. /\ peer[c] # "reset" /\ UNCHANGED <<peer, req>>
      /\ out \in [Clients -> OutType] /\ out[c] \in OutType
      /\ wire \in [Clients -> Seq(Said \cup Byte)] /\ wire[c] \in Seq(Said \cup Byte)
  BY DEF Send, OutputInv
<1>2. PICK n \in Nat \ {0} : \E m \in 0..n :
            /\ out[c].streams # <<>> /\ n = Chunk(Head1(c))
            /\ out' = [out EXCEPT ![c] = WithHead(c, Written(Head1(c), n, m),
                                                  out[c].readsize, out[c].skipped)]
            /\ wire' = [wire EXCEPT ![c] =
                          @ \o Bytes(Head1(c).id, Head1(c).wrote, Head1(c).wrote + m)]
            /\ conn[c].stat = 4 /\ ~Skipping(c)
            /\ UNCHANGED <<conn, disk, due>>
  BY SendEffect DEF ServerTypeOK
<1>3. PICK m \in 0..n :
            /\ out[c].streams # <<>> /\ n = Chunk(Head1(c))
            /\ out' = [out EXCEPT ![c] = WithHead(c, Written(Head1(c), n, m),
                                                  out[c].readsize, out[c].skipped)]
            /\ wire' = [wire EXCEPT ![c] =
                          @ \o Bytes(Head1(c).id, Head1(c).wrote, Head1(c).wrote + m)]
            /\ conn[c].stat = 4 /\ ~Skipping(c)
            /\ UNCHANGED <<conn, disk, due>>
  BY <1>2
<1> DEFINE tt == HeadWritten(c, n, m)
           i == Head1(c).id
           w == Head1(c).wrote
           b == Bytes(i, w, w + m)
           p == Len(wire[c]) - 1
<1>4. out'[c].streams = tt /\ out'[c].skipped = out[c].skipped
  <2>1. Written(Head1(c), n, m) \in StreamType
    BY <1>3, HeadFacts, WrittenFacts
  <2>2. out[c].readsize \in Nat /\ out[c].skipped \in BOOLEAN
    BY <1>1 DEF OutType
  <2>3. out'[c] = WithHead(c, Written(Head1(c), n, m), out[c].readsize, out[c].skipped)
    BY <1>1, <1>3
  <2> QED
    BY <1>3, <2>1, <2>2, <2>3, WithHeadType DEF HeadWritten
<1>5. SendingInv(c) /\ ~Skipping(c)'
  BY <1>1, <1>3, <1>4 DEF AnswerOf, Skipping
<1>6. /\ Behind(due[c], p + m, tt)
      /\ \A k \in 1..m : due[c][p + k] = <<i, w + k - 1>>
      /\ \A j \in DOMAIN tt : tt[j].open \/ tt[j] = out[c].streams[j]
      /\ DOMAIN tt = DOMAIN out[c].streams
  <2>1. Behind(due[c], p, out[c].streams)
    BY <1>5 DEF SendingInv
  <2> HIDE DEF p
  <2>2. FurtherBehind(c, n, m, due[c], p)
    BY <1>3, <2>1, WrittenBehind
  <2> QED
    BY <2>2 DEF FurtherBehind
<1>7. b \in Seq(Byte) /\ Len(b) = m /\ \A k \in 1..m : b[k] = <<i, w + k - 1>>
  <2>1. i \in Nat /\ w \in Nat /\ m \in Nat
    BY <1>3, HeadFacts DEF StreamType
  <2> HIDE DEF i, w
  <2> QED
    BY <2>1, MoreBytes
<1> HIDE DEF tt, i, w, b
<1>8. wire'[c] = wire[c] \o b
  BY <1>1, <1>3 DEF b, i, w
<1>9. /\ Len(wire[c]) \in Nat \ {0} /\ Len(wire'[c]) = Len(wire[c]) + m
      /\ \A k \in 1..Len(wire[c]) : wire'[c][k] = wire[c][k]
      /\ \A k \in 1..m : wire'[c][Len(wire[c]) + k] = b[k]
  <2>1. wire[c] # <<>>
    BY <1>5 DEF SendingInv
  <2>2. b \in Seq(Said \cup Byte)
    BY <1>7
  <2> DEFINE T == Said \cup Byte
  <2> HIDE DEF T
  <2>3. wire[c] \in Seq(T) /\ b \in Seq(T)
    BY <1>1, <2>2 DEF T
  <2>4. Len(b) = m /\ m \in Nat
    BY <1>7
  <2>5. /\ Len(wire[c] \o b) = Len(wire[c]) + Len(b)
        /\ \A k \in 1..(Len(wire[c]) + Len(b)) :
              (wire[c] \o b)[k] = IF k <= Len(wire[c]) THEN wire[c][k] ELSE b[k - Len(wire[c])]
    BY <2>3, ConcatProperties
  <2> DEFINE l == Len(wire[c])
  <2>6. l \in Nat \ {0}
    BY <2>1, <2>3
  <2> HIDE DEF l
  <2>7. /\ Len(wire'[c]) = l + m
        /\ \A k \in 1..(l + m) : wire'[c][k] = IF k <= l THEN wire[c][k] ELSE b[k - l]
    BY <1>8, <2>4, <2>5 DEF l
  <2>8. \A k \in 1..l : wire'[c][k] = wire[c][k]
    BY <2>4, <2>6, <2>7
  <2>9. ASSUME NEW k \in 1..m PROVE wire'[c][l + k] = b[k]
    <3>1. l + k \in 1..(l + m) /\ ~(l + k <= l) /\ (l + k) - l = k
      BY <2>4, <2>6
    <3>2. wire'[c][l + k] = b[(l + k) - l]
      BY <2>7, <3>1
    <3> QED
      BY <3>1, <3>2
  <2> QED
    BY <2>6, <2>7, <2>8, <2>9 DEF l
<1>10. Len(wire'[c]) - 1 = p + m /\ wire'[c] # <<>> /\ p \in Nat
  <2>1. Len(wire'[c]) - 1 = p + m /\ p \in Nat /\ Len(wire'[c]) # 0
    BY <1>9
  <2>2. wire'[c] # <<>>
    BY <2>1
  <2> QED
    BY <2>1, <2>2
<1>11. SentAlike(c)'
  <2>1. ASSUME NEW k \in 1..(p + m) PROVE wire'[c][k + 1] = due'[c][k]
    <3>1. CASE k \in 1..p
      <4> DEFINE l == Len(wire[c])
      <4> HIDE DEF l
      <4>0. l \in Nat \ {0} /\ k \in 1..(l - 1)
        BY <1>9, <3>1 DEF l
      <4>1. k + 1 \in 1..Len(wire[c]) /\ k \in 1..(Len(wire[c]) - 1)
        BY <4>0 DEF l
      <4> QED
        BY <1>3, <1>5, <1>9, <4>1 DEF SendingInv, SentAlike
    <3>2. CASE k \notin 1..p
      <4> DEFINE l == Len(wire[c])
      <4> HIDE DEF l
      <4>0. l \in Nat \ {0} /\ k \in 1..((l - 1) + m) /\ k \notin 1..(l - 1) /\ m \in Nat
        BY <1>9, <3>2 DEF l
      <4>a. k - (l - 1) \in 1..m /\ l + (k - (l - 1)) = k + 1 /\ (l - 1) + (k - (l - 1)) = k
        BY ONLY <4>0
      <4>1. k - p \in 1..m /\ Len(wire[c]) + (k - p) = k + 1 /\ p + (k - p) = k
        BY <4>a DEF l
      <4>2. wire'[c][Len(wire[c]) + (k - p)] = b[k - p]
        BY <1>9, <4>1
      <4>3. due[c][p + (k - p)] = b[k - p]
        BY <1>6, <1>7, <4>1
      <4> HIDE DEF p
      <4> QED
        BY <1>3, <4>1, <4>2, <4>3
    <3> QED
      BY <3>1, <3>2
  <2> QED
    BY <1>10, <2>1 DEF SentAlike
<1>12. AllOpen(c) => AllOpen(c)'
  BY <1>4, <1>6 DEF AllOpen
<1>13. SendingInv(c)'
  <2>1. Behind(due'[c], Len(wire'[c]) - 1, out'[c].streams)
    <3> HIDE DEF p
    <3> QED
      BY <1>3, <1>4, <1>6, <1>10
  <2>2. conn'[c].range > 0 => AllOpen(c)'
    BY <1>3, <1>5, <1>12 DEF SendingInv
  <2> QED
    BY <1>10, <1>11, <2>1, <2>2 DEF SendingInv
<1> QED
  BY <1>3, <1>5, <1>13 DEF AnswerOf

-----------------------------------------------------------------------------
(* Steps that send nothing of an answer yet.                                *)
LEMMA NotYetAnswer ==
  ASSUME ServerTypeOK, OutputInv, NEW c \in Clients,
         Receive(c) \/ ReceiveFails(c) \/ Poll(c) \/ Refuse(c) \/ NoRedirect(c) \/ NoStream(c)
  PROVE  AnswerOf(c)'
<1>0. /\ conn \in [Clients -> ConnType] /\ conn[c] \in ConnType
      /\ req[c] \in Requests /\ wire \in [Clients -> Seq(Said \cup Byte)]
      /\ due \in [Clients -> Seq(Byte)]
  BY DEF ServerTypeOK, OutputInv
<1>1. conn[c].stat \in {1, 2} => Idle(c)
  BY DEF OutputInv
<1>2. ASSUME conn'[c].stat \in {1, 2} PROVE AnswerOf(c)'
  BY <1>2 DEF AnswerOf
<1>3. CASE Receive(c)
  <2>1. conn'[c].stat = 1
    BY <1>0, <1>3 DEF Receive, Reading, ConnType
  <2> QED
    BY <1>2, <2>1
<1>4. CASE ReceiveFails(c) \/ NoStream(c)
  <2>1. conn'[c].stat = 5
    BY <1>0, <1>4 DEF ReceiveFails, NoStream, ConnType
  <2>2. Idle(c) /\ wire'[c] = wire[c]
    BY <1>1, <1>4 DEF ReceiveFails, NoStream, Reading, Processing, answer
  <2> QED
    BY <2>1, <2>2 DEF AnswerOf, Idle
<1>5. CASE Poll(c)
  <2>1. PICK m \in Polled(conn[c], req[c]) : conn' = [conn EXCEPT ![c] = m]
    BY <1>5 DEF Poll
  <2>2. conn[c].stat = 1
    BY <1>5 DEF Poll, Reading
  <2>3. m.stat \in {1, 2}
    BY <1>0, <2>1, <2>2, PolledFacts
  <2> QED
    BY <1>0, <1>2, <2>1, <2>3
<1>6. CASE Refuse(c)
  <2>1. conn'[c].stat = 5 /\ UNCHANGED peer
    BY <1>0, <1>6 DEF Refuse, ConnType, sockets
  <2>2. wire'[c] = IF peer[c] = "reset" THEN <<>> ELSE <<"refused">>
    BY <1>0, <1>6 DEF Refuse, Says
  <2> QED
    BY <2>1, <2>2, OneLine DEF AnswerOf
<1>7. CASE NoRedirect(c)
  <2> DEFINE status == IF conn[c].range > 0 THEN "206" ELSE "200"
  <2>1. conn'[c].stat = 4 /\ UNCHANGED <<peer, out, due>>
    BY <1>0, <1>7 DEF NoRedirect, ConnType, sockets
  <2>2. wire'[c] = IF peer[c] = "reset" THEN <<>> ELSE <<status>>
    BY <1>0, <1>7 DEF NoRedirect, Says
  <2> HIDE DEF status
  <2>3. out'[c] = NoOutput /\ due'[c] = <<>>
    BY <1>1, <1>7, <2>1 DEF NoRedirect, Processing, Idle
  <2> SUFFICES ASSUME peer[c] # "reset" PROVE AnswerOf(c)'
    BY <2>1 DEF AnswerOf
  <2>4. wire'[c] # <<>> /\ Len(wire'[c]) = 1 /\ Len(wire'[c]) - 1 = 0
    BY <2>2, OneLine
  <2>a. out'[c].streams = <<>> /\ ~out'[c].skipped
    BY <2>3 DEF NoOutput
  <2>b. EmptyAnswer(c)'
    BY <2>3, <2>4, <2>a DEF EmptyAnswer
  <2>5. 1..(Len(wire'[c]) - 1) = 1..0
    BY <2>4
  <2>6. 1..0 = {}
    OBVIOUS
  <2>7. SentAlike(c)'
    BY <2>5, <2>6 DEF SentAlike
  <2>8. Behind(due'[c], Len(wire'[c]) - 1, out'[c].streams)
    BY <2>3, <2>4, NothingBehind, NoOutputFacts
  <2>9. ~Skipping(c)' => SendingInv(c)'
    BY <2>1, <2>4, <2>7, <2>8, <2>a DEF SendingInv, Skipping
  <2> QED
    BY <2>1, <2>9, <2>b DEF AnswerOf
<1> QED
  BY <1>3, <1>4, <1>5, <1>6, <1>7

LEMMA WorkAnswer ==
  ASSUME ServerTypeOK, OutputInv, NEW c \in Clients, AnswerOf(c), Work(c)
  PROVE  AnswerOf(c)'
<1>1. CASE Receive(c) \/ ReceiveFails(c) \/ Poll(c) \/ Refuse(c) \/ NoRedirect(c) \/ NoStream(c)
  BY <1>1, NotYetAnswer
<1>2. CASE \E a \in req[c].answers : Handle(c, a)
  BY <1>2, HandleAnswer
<1>3. CASE Finish(c)
  BY <1>3, FinishAnswer
<1>4. CASE CannotOpen(c)
  BY <1>4, CannotOpenAnswer
<1>5. CASE AtEnd(c)
  <2>1. conn[c].stat = 4 /\ UNCHANGED <<peer, req>>
    BY <1>5 DEF AtEnd, Sending, sockets
  <2> QED
    BY <1>5, <2>1, AtEndEffect, DropAnswer
<1>6. CASE Skip(c)
  BY <1>6, SkipAnswer
<1>7. CASE Send(c)
  BY <1>7, SendAnswer
<1>8. CASE SendFails(c)
  BY <1>8 DEF SendFails, sockets, AnswerOf
<1> QED
  BY <1>1, <1>2, <1>3, <1>4, <1>5, <1>6, <1>7, <1>8 DEF Work

LEMMA AnswerStep ==
  ASSUME ServerTypeOK, LoopInv, OnlyCurrent, OutputInv, AnswerInv, [ServerNext]_server
  PROVE  AnswerInv'
<1>0. /\ out \in [Clients -> OutType] /\ wire \in [Clients -> Seq(Said \cup Byte)]
      /\ due \in [Clients -> Seq(Byte)] /\ conn \in [Clients -> ConnType]
      /\ peer \in [Clients -> {"away", "open", "closed", "reset"}]
      /\ req \in [Clients -> Requests]
  BY DEF OutputInv, ServerTypeOK
<1>1. \A d \in Clients : conn[d].stat \in {4, 5} => d = cur /\ peer[d] # "away"
  <2>1. \A d \in Clients : conn[d].stat \in {4, 5} => d = cur
    BY NoOutputFacts DEF OnlyCurrent, IsNew
  <2> QED
    BY <2>1 DEF LoopInv
<1>2. ASSUME UNCHANGED <<conn, out, wire, due>>,
             \A d \in Clients : /\ conn[d].stat \in {4, 5} => req'[d] = req[d]
                                /\ peer'[d] # "reset" => peer[d] # "reset"
      PROVE  AnswerInv'
  BY <1>2, SameAnswer DEF AnswerInv
<1>3. CASE \/ Select \/ AcceptFails \/ EndScan \/ UNCHANGED server
           \/ \E c \in Clients : Visit(c) \/ \E f \in Fds : Accept(c, f)
  <2>1. UNCHANGED <<conn, out, wire, due, peer, req>>
    BY <1>3 DEF Select, AcceptFails, EndScan, Visit, Accept, server, answer, sockets
  <2> QED
    BY <1>2, <2>1
<1>4. ASSUME NEW c \in Clients, Peer(c) PROVE AnswerInv'
  <2>1. /\ UNCHANGED <<conn, out, wire, due>>
        /\ \A d \in Clients :
               /\ peer[d] # "away" => peer'[d] # "away" /\ req'[d] = req[d]
               /\ peer'[d] # "reset" => peer[d] # "reset"
    BY <1>4, PeerIsLocal
  <2> QED
    BY <1>1, <1>2, <2>1
<1>5. ASSUME NEW c \in Clients, Delete(c) PROVE AnswerInv'
  <2>1. ASSUME NEW d \in Clients, d # c PROVE AnswerOf(d)'
    <3>1. /\ out'[d] = out[d] /\ conn'[d] = conn[d] /\ wire'[d] = wire[d] /\ due'[d] = due[d]
          /\ peer'[d] = peer[d] /\ req'[d] = req[d]
      BY <1>0, <1>5, <2>1 DEF Delete
    <3> QED
      BY <3>1, SameAnswer DEF AnswerInv
  <2>2. AnswerOf(c)'
    <3>1. conn'[c].stat = 1
      BY <1>0, <1>5, NoOutputFacts DEF Delete
    <3> QED
      BY <3>1 DEF AnswerOf
  <2> QED
    BY <2>1, <2>2 DEF AnswerInv
<1>6. ASSUME NEW c \in Clients, Work(c) PROVE AnswerInv'
  <2>1. PICK o, w, u : Output(c, o, w, u)
    BY <1>6, WorkEffect DEF Effect
  <2>2. PICK n : conn' = [conn EXCEPT ![c] = n]
    BY <1>6, WorkIsLocal
  <2>3. UNCHANGED <<peer, req>>
    BY <1>6, WorkIsLocal
  <2>4. ASSUME NEW d \in Clients, d # c PROVE AnswerOf(d)'
    <3>1. out'[d] = out[d] /\ conn'[d] = conn[d] /\ wire'[d] = wire[d] /\ due'[d] = due[d]
      BY <1>0, <2>1, <2>2, <2>4 DEF Output
    <3> QED
      BY <2>3, <3>1, SameAnswer DEF AnswerInv
  <2>5. AnswerOf(c)'
    BY <1>6, WorkAnswer DEF AnswerInv
  <2> QED
    BY <2>4, <2>5 DEF AnswerInv
<1> QED
  BY <1>3, <1>4, <1>5, <1>6, NextCases

-----------------------------------------------------------------------------
(* The inductive invariant.                                                 *)
ServerInv ==
    /\ ServerTypeOK /\ LoopInv /\ OnlyCurrent /\ AskedLength
    /\ OutputInv /\ FilesInv /\ AnswerInv

LEMMA ServerStarts ==
  ASSUME ServerInit
  PROVE  ServerInv
<1>1. /\ peer \in [Clients -> {"away"}] /\ req = [c \in Clients |-> AnyRequest(c)]
      /\ inbox = [c \in Clients |-> 0] /\ room = [c \in Clients |-> Window]
      /\ list = {} /\ fd = [c \in Clients |-> NoFd] /\ ready = {}
      /\ at = "select" /\ cur = NoClient /\ running = TRUE /\ errno = "other"
      /\ conn = [c \in Clients |-> Fresh] /\ out = [c \in Clients |-> NoOutput]
      /\ disk = {} /\ wire = [c \in Clients |-> <<>>] /\ due = [c \in Clients |-> <<>>]
  BY DEF ServerInit
<1>2. ServerTypeOK
  BY <1>1, FreshType, AnyIsRequest DEF ServerTypeOK
<1>3. LoopInv
  BY <1>1 DEF LoopInv
<1>4. OnlyCurrent
  BY <1>1 DEF OnlyCurrent, IsNew
<1>5. AskedLength
  BY <1>1, NoOutputFacts DEF AskedLength
<1>6. OutputInv
  <2>1. <<>> \in Seq(Said \cup Byte) /\ <<>> \in Seq(Byte)
    OBVIOUS
  <2> QED
    BY <1>1, <2>1, NoOutputFacts DEF OutputInv, Idle
<1>7. FilesInv
  BY <1>1 DEF FilesInv
<1>8. AnswerInv
  BY <1>1, NoOutputFacts DEF AnswerInv, AnswerOf
<1> QED
  BY <1>2, <1>3, <1>4, <1>5, <1>6, <1>7, <1>8 DEF ServerInv

LEMMA ServerStep ==
  ASSUME ServerInv, [ServerNext]_server
  PROVE  ServerInv'
BY TypeStep, LoopStep, OnlyCurrentStep, AskedLengthStep, OutputStep, FilesStep, AnswerStep
   DEF ServerInv

(* The select loop of socket.c and client.c keeps ServerInv: its one thread *)
(* works on the client cur, whose connection, streams, file and bytes agree,*)
(* and everybody else in the list is as add_client and the last recv left   *)
(* them.                                                                    *)
THEOREM ServerInvariant == ServerSpec => []ServerInv
<1>1. ServerInit => ServerInv
  BY ServerStarts
<1>2. ServerInv /\ [ServerNext]_server => ServerInv'
  BY ServerStep
<1> QED
  BY <1>1, <1>2, PTL DEF ServerSpec

(* The type invariant, for any clients, descriptors, requests and sizes.    *)
THEOREM ServerTypes == ServerSpec => []ServerTypeOK
<1>1. ServerInv => ServerTypeOK
  BY DEF ServerInv
<1> QED
  BY <1>1, ServerInvariant, PTL

(* A bit of the set that select filled is never taken for that of another   *)
(* connection (web_server_run reads it after clients came and went), though *)
(* numbers of closed sockets are given to new ones.                         *)
THEOREM ServedReadable == ServerSpec => []ServedWereReadable
<1>1. ServerInv => ServedWereReadable
  BY DEF ServerInv, LoopInv, ServedWereReadable
<1> QED
  BY <1>1, ServerInvariant, PTL

(* No temporary file of __ILWS_add_client outlives the client it was made   *)
(* for, but for those of streams that could not be registered.              *)
THEOREM FilesAreOwned == ServerSpec => []TempFilesOwned
<1>1. ASSUME ServerInv PROVE TempFilesOwned
  <2>1. list \subseteq Clients /\ (cur # NoClient => cur \in list)
    BY <1>1 DEF ServerInv, ServerTypeOK, LoopInv
  <2>2. \A c \in Clients \ {cur} : TempFiles(c) = {}
    <3>1. \A c \in Clients \ {cur} : out[c].streams = <<>>
      BY <1>1, NoOutputFacts DEF ServerInv, OnlyCurrent, IsNew
    <3> QED
      BY <3>1 DEF TempFiles
  <2>3. disk \ {Lost} = IF cur = NoClient THEN {} ELSE TempFiles(cur)
    BY <1>1 DEF ServerInv, FilesInv
  <2>4. CASE cur = NoClient
    BY <2>1, <2>2, <2>3, <2>4 DEF TempFilesOwned
  <2>5. CASE cur # NoClient
    <3> DEFINE F(c) == TempFiles(c)
    <3>1. \A c \in list \ {cur} : F(c) = {}
      BY <2>1, <2>2
    <3>2. cur \in list /\ disk \ {Lost} = F(cur)
      BY <2>1, <2>3, <2>5
    <3> HIDE DEF F
    <3>3. disk \ {Lost} = UNION {F(c) : c \in list}
      BY <3>1, <3>2
    <3> QED
      BY <3>3 DEF F, TempFilesOwned
  <2> QED
    BY <2>4, <2>5
<1>2. ServerInv => TempFilesOwned
  BY <1>1
<1> QED
  BY <1>2, ServerInvariant, PTL

(* What was sent, as one piece of what was due.                             *)
LEMMA SentPrefix ==
  ASSUME OutputInv, NEW c \in Clients, wire[c] # <<>>, SentAlike(c),
         Len(wire[c]) - 1 <= Len(due[c])
  PROVE  /\ Len(Tail(wire[c])) <= Len(due[c])
         /\ Tail(wire[c]) = SubSeq(due[c], 1, Len(Tail(wire[c])))
         /\ Len(wire[c]) - 1 = Len(due[c]) => Tail(wire[c]) = due[c]
<1> DEFINE T == Said \cup Byte
           w == wire[c]
           d == due[c]
           p == Len(Tail(w))
<1>1. w \in Seq(T) /\ d \in Seq(T) /\ w # <<>>
  <2>1. w \in Seq(T) /\ d \in Seq(Byte)
    BY DEF OutputInv
  <2> QED
    BY <2>1
<1> HIDE DEF T
<1>2. Len(w) \in Nat \ {0} /\ Len(d) \in Nat
  BY <1>1, EmptySeq, LenProperties
<1>3. Tail(w) \in Seq(T) /\ p = Len(w) - 1 /\ \A k \in 1..p : Tail(w)[k] = w[k + 1]
  BY <1>1, HeadTailProperties
<1>4. p \in Nat /\ p <= Len(d)
  BY <1>2, <1>3
<1>5. \A k \in 1..p : Tail(w)[k] = d[k]
  BY <1>3 DEF SentAlike
<1> HIDE DEF w, d, p
<1>6. \A k \in 1..p : d[k] \in T /\ k \in 1..Len(d)
  BY <1>1, <1>2, <1>4
<1>7. /\ SubSeq(d, 1, p) \in Seq(T) /\ Len(SubSeq(d, 1, p)) = p
      /\ \A k \in 1..p : SubSeq(d, 1, p)[k] = d[k]
  <2>1. /\ SubSeq(d, 1, p) \in Seq(T)
        /\ Len(SubSeq(d, 1, p)) = IF 1 <= p THEN p - 1 + 1 ELSE 0
        /\ \A k \in 1..(p - 1 + 1) : SubSeq(d, 1, p)[k] = d[1 + k - 1]
    BY <1>4, <1>6, SubSeqProperties
  <2>2. p - 1 + 1 = p /\ \A k \in 1..p : 1 + k - 1 = k
    BY <1>4
  <2> QED
    BY <1>4, <2>1, <2>2
<1>8. Tail(w) = SubSeq(d, 1, p)
  <2>1. Len(Tail(w)) = p /\ \A k \in 1..Len(Tail(w)) : Tail(w)[k] = SubSeq(d, 1, p)[k]
    BY <1>5, <1>7 DEF p
  <2> QED
    BY <1>3, <1>7, <2>1, SeqEqual
<1>9. Len(w) - 1 = Len(d) => Tail(w) = d
  <2> SUFFICES ASSUME Len(w) - 1 = Len(d) PROVE Tail(w) = d
    OBVIOUS
  <2>1. Len(Tail(w)) = Len(d) /\ \A k \in 1..Len(Tail(w)) : Tail(w)[k] = d[k]
    BY <1>3, <1>5 DEF p
  <2> QED
    BY <1>1, <1>3, <2>1, SeqEqual
<1> QED
  BY <1>4, <1>8, <1>9 DEF w, d, p

(* A client is sent its answer's bytes once each and in order, and when     *)
(* __ILWS_output_client is done with it, all of them, however many pieces   *)
(* send cut them into.                                                      *)
THEOREM AnswerSent == ServerSpec => []SentIsAnswer
<1>1. ASSUME ServerInv, NEW c \in list, conn[c].stat \in {4, 5}, peer[c] # "reset", wire[c] # <<>>
      PROVE  /\ Len(Tail(wire[c])) <= Len(due[c])
             /\ Tail(wire[c]) = SubSeq(due[c], 1, Len(Tail(wire[c])))
             /\ conn[c].stat = 5 /\ wire[c][1] \in {"200", "206"} => Tail(wire[c]) = due[c]
  <2>1. /\ c \in Clients /\ OutputInv /\ AnswerOf(c)
        /\ wire[c] \in Seq(Said \cup Byte) /\ due[c] \in Seq(Byte)
    BY <1>1 DEF ServerInv, ServerTypeOK, AnswerInv, OutputInv
  <2>2. Len(wire[c]) \in Nat \ {0} /\ Len(due[c]) \in Nat
    BY <1>1, <2>1, EmptySeq, LenProperties
  <2>3. ASSUME Len(wire[c]) = 1 PROVE SentAlike(c) /\ Len(wire[c]) - 1 <= Len(due[c])
    <3>1. Len(wire[c]) - 1 = 0
      BY <2>3
    <3>2. 1..(Len(wire[c]) - 1) = 1..0
      BY <3>1
    <3>3. 1..0 = {}
      OBVIOUS
    <3>4. SentAlike(c)
      BY <3>2, <3>3 DEF SentAlike
    <3>5. 0 <= Len(due[c])
      BY <2>2
    <3>6. Len(wire[c]) - 1 <= Len(due[c])
      BY <3>1, <3>5
    <3> QED
      BY <3>4, <3>6
  <2>4. CASE conn[c].stat = 4 /\ Skipping(c)
    <3>1. Len(wire[c]) = 1
      BY <1>1, <2>1, <2>4 DEF AnswerOf, SkippingInv, EmptyAnswer
    <3>2. SentAlike(c) /\ Len(wire[c]) - 1 <= Len(due[c])
      BY <2>3, <3>1
    <3>3. conn[c].stat # 5
      BY <2>4
    <3> QED
      BY <1>1, <2>1, <3>2, <3>3, SentPrefix
  <2>5. CASE conn[c].stat = 4 /\ ~Skipping(c)
    <3>1. SentAlike(c) /\ Len(wire[c]) - 1 \in 0..Len(due[c])
      BY <1>1, <2>1, <2>5 DEF AnswerOf, SendingInv, Behind
    <3>2. Len(wire[c]) - 1 <= Len(due[c])
      BY <2>2, <3>1
    <3> QED
      BY <1>1, <2>1, <2>5, <3>1, <3>2, SentPrefix
  <2>6. CASE conn[c].stat = 5
    <3>1. \/ Len(wire[c]) - 1 = Len(due[c]) /\ SentAlike(c)
          \/ Len(wire[c]) = 1 /\ wire[c][1] \notin {"200", "206"}
      BY <1>1, <2>1, <2>6 DEF AnswerOf
    <3>2. CASE Len(wire[c]) - 1 = Len(due[c]) /\ SentAlike(c)
      BY <1>1, <2>1, <2>2, <3>2, SentPrefix
    <3>3. CASE Len(wire[c]) = 1 /\ wire[c][1] \notin {"200", "206"}
      BY <1>1, <2>1, <2>3, <3>3, SentPrefix
    <3> QED
      BY <3>1, <3>2, <3>3
  <2> QED
    BY <1>1, <2>4, <2>5, <2>6
<1>2. ServerInv => SentIsAnswer
  BY <1>1 DEF SentIsAnswer, ServerInv, ServerTypeOK
<1> QED
  BY <1>2, ServerInvariant, PTL

(* __ILWS_process_client gets a request when all of what it declares is     *)
(* there, or when nothing came for as long as __ILWS_read_client polls.     *)
THEOREM HandedWhole == ServerSpec => HandedOnWhole
<1> DEFINE Handed ==
       \A c \in Clients :
          conn[c].stat = 1 /\ conn'[c].stat = 2 =>
              \/ conn[c].got = Whole(req[c])
              \/ conn[c].tries >= Timeout - 1
              \/ conn[c].head # req[c].head
<1>1. ASSUME ServerInv, [ServerNext]_server, NEW c \in Clients,
             conn[c].stat = 1, conn'[c].stat = 2
      PROVE  \/ conn[c].got = Whole(req[c]) \/ conn[c].tries >= Timeout - 1
             \/ conn[c].head # req[c].head
  <2>1. /\ ServerTypeOK /\ OutputInv /\ conn \in [Clients -> ConnType]
        /\ conn[c] \in ConnType /\ req[c] \in Requests /\ conn[c].len \in {0, req[c].len}
    BY <1>1 DEF ServerInv, ServerTypeOK, AskedLength
  <2>2. PICK d \in Clients : Delete(d) \/ Work(d)
    BY <1>1, <2>1, StepCases
  <2>3. ~Delete(d)
    BY <1>1, <2>1, NoOutputFacts DEF Delete
  <2>4. PICK n : conn' = [conn EXCEPT ![d] = n]
    BY <2>1, <2>2, <2>3, WorkIsLocal
  <2>5. d = c
    BY <1>1, <2>1, <2>4
  <2>6. Poll(c)
    <3>1. ~Receive(c) /\ ~ReceiveFails(c)
      BY <1>1, <2>1 DEF Receive, ReceiveFails, ConnType
    <3>2. ~Refuse(c) /\ ~NoRedirect(c) /\ ~NoStream(c) /\ \A a : ~Handle(c, a)
      BY <1>1 DEF Refuse, NoRedirect, NoStream, Handle, Processing
    <3>3. /\ ~Finish(c) /\ ~CannotOpen(c) /\ ~AtEnd(c) /\ ~Skip(c) /\ ~Send(c)
          /\ ~SendFails(c)
      BY <1>1 DEF Finish, CannotOpen, AtEnd, Skip, Send, SendFails, Sending
    <3> QED
      BY <2>2, <2>3, <2>5, <3>1, <3>2, <3>3 DEF Work
  <2>7. PICK m \in Polled(conn[c], req[c]) : conn' = [conn EXCEPT ![c] = m]
    BY <2>6 DEF Poll
  <2>8. m.stat = 2
    BY <1>1, <2>1, <2>7
  <2> QED
    BY <1>1, <2>1, <2>8, PolledFacts
<1>2. ServerInv /\ [ServerNext]_server => Handed
  BY <1>1
<1>3. ServerInv /\ [ServerNext]_server => [Handed]_server
  BY <1>2
<1> QED
  BY <1>3, ServerInvariant, PTL DEF ServerSpec, HandedOnWhole
=============================================================================
