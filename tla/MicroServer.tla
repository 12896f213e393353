----------------------------- MODULE MicroServer -----------------------------
(***************************************************************************)
(* The web server of libwebserver that microhttpd.scm runs: one thread, a  *)
(* select loop over the listening socket and the accepted ones, and for    *)
(* each readable client everything in one go: read the request, hand it to *)
(* a handler that writes its answer into temporary files, send those.      *)
(*                                                                         *)
(* A request is measured in units: "head" of them up to the blank line,    *)
(* BlankSize for the blank line, then a body.  The client list of the code *)
(* is a set here: within a pass, clients are served in any order.          *)
(* Allocation failures and variables in output (WS_DYNVAR) are left out.   *)
(***************************************************************************)
EXTENDS Integers, Sequences, FiniteSets

CONSTANTS
    Clients, NoClient,
    Fds, NoFd,          \* descriptors that accept may return
    Asks,               \* what each peer may ask, with what may answer it
    Timeout,            \* WEBTIMEOUT: polls in a row that find nothing
    ReadMax, WriteMax,  \* the buffers for one recv and one send
    Window,             \* what the kernel takes before the peer has read it
    BlankSize,          \* the length of a blank line
    MayFail,            \* accept, freopen or fopen may fail
    Leaving,            \* the peers that may close or reset their connection,
    Silent              \* and those that do before they have sent anything

ASSUME ServerAssumption ==
    /\ NoClient \notin Clients
    /\ NoFd \notin Fds
    /\ {Timeout, ReadMax, WriteMax, Window, BlankSize} \subseteq Nat \ {0}
    /\ MayFail \in BOOLEAN
    /\ Silent \subseteq Leaving /\ Leaving \subseteq Clients
    /\ \A c \in Clients : Asks[c] # {}
    /\ \A r \in UNION {Asks[c] : c \in Clients} :
          /\ DOMAIN r = {"head", "blank", "len", "body", "range", "answers"}
          /\ {r.head, r.len, r.body, r.range} \subseteq Nat /\ r.blank \in BOOLEAN
          /\ \A a \in r.answers :
                /\ DOMAIN a = {"uselen", "stop", "header", "parts"}
                /\ {a.uselen, a.stop} \subseteq BOOLEAN /\ a.header \in Nat
                /\ a.parts \in Seq([temp : BOOLEAN, size : Nat])

VARIABLES
    peer,       \* the other end of each connection
    req,        \* what it asks
    inbox,      \* how much of that is sent and not yet received
    room,       \* how much the kernel would take from a send
    list,       \* the clients in the server's list
    fd,         \* their sockets
    ready,      \* the fd_set as select left it
    at,         \* where the main loop is
    cur,        \* current_web_client, while it is served
    running,    \* server->running
    errno,      \* what the last failed call left
    conn,       \* the read side of each client
    out,        \* the write side of each client
    disk,       \* the temporary files that exist
    wire,       \* what was sent to each client
    due         \* what its answer consists of

sockets == <<peer, req, inbox, room>>
loop == <<list, fd, ready, at, cur, running>>
answer == <<out, disk, wire, due>>
server == <<sockets, loop, errno, conn, answer>>

Least(a, b) == IF a < b THEN a ELSE b

-----------------------------------------------------------------------------
(* A request as its peer sends it, and a client as add_client sets it up.   *)
Requests == UNION {Asks[c] : c \in Clients}
AnyRequest(c) == CHOOSE r \in Asks[c] : TRUE
BlankEnd(r) == r.head + BlankSize
Total(r) == r.head + (IF r.blank THEN BlankSize ELSE 0) + r.body
Whole(r) == r.head + BlankSize + r.len

Fresh == [stat |-> 1, got |-> 0, tries |-> 0, head |-> 0, len |-> 0, range |-> 0]
NoOutput == [streams |-> <<>>, header |-> 0, readsize |-> 0, skipped |-> FALSE]

(* One stream of the answer: the temporary file a handler's output goes to, *)
(* or a file it named; with the position of its FILE and the code's own     *)
(* counts of what was read last and what was written so far.                *)
Stream(i, part) ==
    [id |-> i, temp |-> part.temp, size |-> part.size, open |-> part.temp,
     pos |-> part.size, rsize |-> 0, wrote |-> 0]

Streams(a) == [i \in 1..Len(a.parts) |->
                  LET s == Stream(i, a.parts[i])
                  IN IF a.uselen THEN [s EXCEPT !.open = TRUE] ELSE s]

Bytes(i, from, to) == [n \in 1..(to - from) |-> <<i, from + n - 1>>]

Lost == <<NoClient, 0>>

AllBytes(a) ==
    LET upto[n \in 0..Len(a.parts)] ==
            IF n = 0 THEN <<>> ELSE upto[n - 1] \o Bytes(n, 0, a.parts[n].size)
    IN upto[Len(a.parts)]

(* What remains of some bytes when those of one stream cannot be had.       *)
Without(bytes, i) ==
    LET rest[n \in 0..Len(bytes)] ==
            IF n = 0 THEN <<>>
            ELSE IF bytes[n][1] = i THEN rest[n - 1] ELSE Append(rest[n - 1], bytes[n])
    IN rest[Len(bytes)]

TempFiles(c) == {<<c, out[c].streams[i].id>> :
                    i \in {j \in DOMAIN out[c].streams : out[c].streams[j].temp}}

-----------------------------------------------------------------------------
ServerInit ==
    /\ peer = [c \in Clients |-> "away"]
    /\ req = [c \in Clients |-> AnyRequest(c)]
    /\ inbox = [c \in Clients |-> 0]
    /\ room = [c \in Clients |-> Window]
    /\ list = {} /\ fd = [c \in Clients |-> NoFd] /\ ready = {}
    /\ at = "select" /\ cur = NoClient /\ running = TRUE
    /\ errno = "other"
    /\ conn = [c \in Clients |-> Fresh]
    /\ out = [c \in Clients |-> NoOutput]
    /\ disk = {}
    /\ wire = [c \in Clients |-> <<>>] /\ due = [c \in Clients |-> <<>>]

(* The peers: they connect, send their request in pieces, read what comes,  *)
(* close their sending side, or are gone altogether.                        *)
Received(c) == conn[c].got + inbox[c]
Backlog == {c \in Clients : peer[c] # "away"} \ list

Connect(c, r) ==
    /\ peer[c] = "away"
    /\ peer' = [peer EXCEPT ![c] = "open"]
    /\ req' = [req EXCEPT ![c] = r]
    /\ UNCHANGED <<inbox, room, loop, errno, conn, answer>>

PeerSends(c, n) ==
    /\ peer[c] = "open"
    /\ Received(c) + n <= Total(req[c])
    /\ inbox' = [inbox EXCEPT ![c] = @ + n]
    /\ UNCHANGED <<peer, req, room, loop, errno, conn, answer>>

PeerReads(c) ==
    /\ peer[c] \in {"open", "closed"}
    /\ room[c] < Window
    /\ room' = [room EXCEPT ![c] = @ + 1]
    /\ UNCHANGED <<peer, req, inbox, loop, errno, conn, answer>>

PeerCloses(c) ==
    /\ peer[c] = "open"
    /\ c \in Leaving /\ (Received(c) > 0 \/ c \in Silent)
    /\ peer' = [peer EXCEPT ![c] = "closed"]
    /\ UNCHANGED <<req, inbox, room, loop, errno, conn, answer>>

PeerResets(c) ==
    /\ peer[c] \in {"open", "closed"} /\ c \in Leaving
    /\ peer' = [peer EXCEPT ![c] = "reset"]
    /\ UNCHANGED <<req, inbox, room, loop, errno, conn, answer>>

-----------------------------------------------------------------------------
(* The main loop: select, accept one connection, serve who is readable.     *)
(* Mutant: select into a set that was not cleared.                          *)
Readable(c) == inbox[c] > 0 \/ peer[c] \in {"closed", "reset"}

SelectOnOldSet ==
    /\ at = "select" /\ running
    /\ Backlog # {} \/ \E c \in list : Readable(c)
    /\ ready' = ready \cup {fd[c] : c \in {d \in list : Readable(d)}}
    /\ at' = IF Backlog # {} THEN "accept" ELSE "scan"
    /\ UNCHANGED <<sockets, list, fd, cur, running, errno, conn, answer>>

Select ==
    /\ at = "select" /\ running
    /\ Backlog # {} \/ \E c \in list : Readable(c)
    /\ ready' = {fd[c] : c \in {d \in list : Readable(d)}}
    /\ at' = IF Backlog # {} THEN "accept" ELSE "scan"
    /\ UNCHANGED <<sockets, list, fd, cur, running, errno, conn, answer>>

Accept(c, f) ==
    /\ at = "accept" /\ c \in Backlog
    /\ f \in Fds \ {fd[d] : d \in list}
    /\ list' = list \cup {c}
    /\ fd' = [fd EXCEPT ![c] = f]
    /\ at' = "scan"
    /\ UNCHANGED <<sockets, ready, cur, running, errno, conn, answer>>

AcceptFails ==
    /\ at = "accept"
    /\ MayFail \/ Fds = {fd[d] : d \in list}
    /\ at' = "down"
    /\ UNCHANGED <<sockets, list, fd, ready, cur, running, errno, conn, answer>>

Visit(c) ==
    /\ at = "scan" /\ cur = NoClient
    /\ c \in list /\ fd[c] \in ready
    /\ cur' = c
    /\ UNCHANGED <<sockets, list, fd, ready, at, running, errno, conn, answer>>

EndScan ==
    /\ at = "scan" /\ cur = NoClient
    /\ \A c \in list : fd[c] \notin ready
    /\ at' = IF running THEN "select" ELSE "stopped"
    /\ UNCHANGED <<sockets, list, fd, ready, cur, running, errno, conn, answer>>

(* A client that is done: its streams, its socket and its node go.          *)
Delete(c) ==
    /\ cur = c /\ conn[c].stat = 5
    /\ list' = list \ {c} /\ fd' = [fd EXCEPT ![c] = NoFd] /\ cur' = NoClient
    /\ disk' = disk \ TempFiles(c)
    /\ peer' = [peer EXCEPT ![c] = "away"] /\ req' = [req EXCEPT ![c] = AnyRequest(c)]
    /\ inbox' = [inbox EXCEPT ![c] = 0]
    /\ room' = [room EXCEPT ![c] = Window]
    /\ conn' = [conn EXCEPT ![c] = Fresh] /\ out' = [out EXCEPT ![c] = NoOutput]
    /\ wire' = [wire EXCEPT ![c] = <<>>] /\ due' = [due EXCEPT ![c] = <<>>]
    /\ UNCHANGED <<ready, at, running, errno>>

-----------------------------------------------------------------------------
(* Reading: recv what there is; nothing there counts as a poll.  When the   *)
(* peer has closed, recv returns 0 and leaves errno as it was.              *)
Reading(c) == cur = c /\ conn[c].stat = 1

Receive(c) ==
    /\ Reading(c) /\ inbox[c] > 0 /\ peer[c] # "reset"
    /\ LET n == Least(inbox[c], ReadMax)
       IN /\ inbox' = [inbox EXCEPT ![c] = @ - n]
          /\ conn' = [conn EXCEPT ![c].got = @ + n, ![c].tries = 0]
    /\ UNCHANGED <<peer, req, room, loop, errno, answer>>

ReceiveFails(c) ==
    /\ Reading(c)
    /\ \/ peer[c] = "reset" /\ errno' = "other"
       \/ peer[c] = "closed" /\ inbox[c] = 0 /\ errno # "EAGAIN" /\ UNCHANGED errno
    /\ conn' = [conn EXCEPT ![c].stat = 5]
    /\ UNCHANGED <<sockets, loop, answer>>

(* The place of the blank line, 0 for none.  The buffer is searched without *)
(* a terminator: what lies behind it may complete a blank line.             *)
BlankSeen(r, got) ==
    IF r.blank /\ got >= BlankEnd(r) THEN {r.head}
    ELSE {0} \cup {n \in (got - BlankSize + 1)..got : n > 0}

(* Content-Length and Range as found in what was received.                  *)
Declared(r, got) == {<<r.len, r.range>>} \cup (IF got >= r.head THEN {} ELSE {<<0, 0>>})

(* A poll: what it makes of the read side n of a client that asks r.  The   *)
(* code counts on without limit while nothing at all came: here the count   *)
(* ends at Timeout, the only value it is compared with.                     *)
(* Mutants: an unbounded count, the head taken for part of the body, and    *)
(* no limit for a client that declared a length.                            *)
PolledUncapped(n, r) == {[n EXCEPT !.tries = @ + 1]}

PolledWithHead(n, r) ==
    LET tried == [n EXCEPT !.tries = Least(@ + 1, Timeout), !.head = r.head, !.len = r.len]
    IN IF n.got > 0 /\ (tried.tries >= Timeout \/ r.len + BlankSize <= n.got)
       THEN {[tried EXCEPT !.stat = 2]} ELSE {tried}

PolledWithoutEnd(n, r) ==
    IF n.got = Whole(r) THEN {[n EXCEPT !.stat = 2, !.head = r.head, !.range = r.range]}
    ELSE {[n EXCEPT !.tries = Least(@ + 1, Timeout)]}

Polled(n, r) ==
    LET tried == [n EXCEPT !.tries = Least(@ + 1, Timeout)]
        Ended(m) == IF m.tries >= Timeout THEN [m EXCEPT !.stat = 2] ELSE m
        Complete(m) == m.len = m.got - m.head - BlankSize
        Counted(m) == IF Complete(m) THEN [m EXCEPT !.tries = Timeout] ELSE m
    IN IF n.got = 0 THEN {tried}
       ELSE IF n.head = 0
       THEN {Ended([tried EXCEPT !.head = h]) : h \in BlankSeen(r, n.got)}
       ELSE IF n.len = 0
       THEN {Ended(Counted([tried EXCEPT !.len = d[1], !.range = d[2]])) :
                d \in Declared(r, n.got)}
       ELSE {Ended(Counted(tried))}

Poll(c) ==
    /\ Reading(c) /\ inbox[c] = 0
    /\ \/ peer[c] = "open" /\ errno' = "EAGAIN"
       \/ peer[c] = "closed" /\ errno = "EAGAIN" /\ UNCHANGED errno
    /\ \E n \in Polled(conn[c], req[c]) : conn' = [conn EXCEPT ![c] = n]
    /\ UNCHANGED <<sockets, loop, answer>>

-----------------------------------------------------------------------------
(* Processing.  A request no handler takes (400, 403, 404, 414) is refused; *)
(* when the temporary file cannot be registered the client is dropped and   *)
(* the file stays; when stdout cannot be redirected an empty answer is      *)
(* sent, 200 or for a range 206.                                            *)
Processing(c) == cur = c /\ conn[c].stat = 2

Says(c, status) ==
    wire' = [wire EXCEPT ![c] = IF peer[c] = "reset" THEN <<>> ELSE <<status>>]

Refuse(c) ==
    /\ Processing(c) /\ req[c].answers = {}
    /\ conn' = [conn EXCEPT ![c].stat = 5]
    /\ Says(c, "refused")
    /\ UNCHANGED <<sockets, loop, errno, out, disk, due>>

NoRedirect(c) ==
    /\ Processing(c) /\ req[c].answers # {} /\ MayFail
    /\ conn' = [conn EXCEPT ![c].stat = 4]
    /\ Says(c, IF conn[c].range > 0 THEN "206" ELSE "200") /\ errno' = "other"
    /\ UNCHANGED <<sockets, loop, out, disk, due>>

NoStream(c) ==
    /\ Processing(c) /\ req[c].answers # {} /\ MayFail
    /\ conn' = [conn EXCEPT ![c].stat = 5]
    /\ disk' = disk \cup {Lost} /\ errno' = "other"
    /\ UNCHANGED <<sockets, loop, out, wire, due>>

(* The handler answers a, and may stop the server (re_mhttpd_stop).  Its    *)
(* output starts with a.header units of headers; range counts from there.   *)
Stops(a) == running' = (running /\ ~a.stop)

Handle(c, a) ==
    /\ Processing(c) /\ req[c].answers # {}
    /\ LET range == IF a.uselen THEN conn[c].range ELSE 0
           body == Len(AllBytes(a)) - a.header
           beyond == range > body
       IN /\ conn' = [conn EXCEPT ![c].stat = IF beyond THEN 5 ELSE 4,
                                  ![c].range = range]
          /\ Says(c, IF beyond THEN "416" ELSE IF range > 0 THEN "206" ELSE "200")
          /\ due' = [due EXCEPT ![c] =
                        IF range = 0 THEN AllBytes(a)
                        ELSE SubSeq(AllBytes(a), a.header + range + 1, Len(AllBytes(a)))]
    /\ out' = [out EXCEPT ![c].streams = Streams(a), ![c].header = a.header]
    /\ disk' = disk \cup {<<c, i>> : i \in {j \in DOMAIN a.parts : a.parts[j].temp}}
    /\ Stops(a)
    /\ errno' = "other"
    /\ UNCHANGED <<sockets, list, fd, ready, at, cur>>

-----------------------------------------------------------------------------
(* One call of output_client: it always reads from the first stream, then   *)
(* skips, sends, or is done with it.                                        *)
Sending(c) == cur = c /\ conn[c].stat = 4
Head1(c) == out[c].streams[1]

DropAndKeep(c) == out' = [out EXCEPT ![c].streams = Tail(@)] /\ UNCHANGED disk

Drop(c) ==
    /\ out' = [out EXCEPT ![c].streams = Tail(@)]
    /\ disk' = IF Head1(c).temp THEN disk \ {<<c, Head1(c).id>>} ELSE disk

(* fread: from the start when nothing was read the last time.               *)
Filled(s) ==
    LET from == IF s.rsize = 0 THEN 0 ELSE s.pos
        n == Least(WriteMax, s.size - from)
    IN [s EXCEPT !.open = TRUE, !.pos = from + n, !.rsize = n]

Skipping(c) == ~out[c].skipped /\ conn[c].range > 0

Finish(c) ==
    /\ Sending(c) /\ out[c].streams = <<>>
    /\ conn' = [conn EXCEPT ![c].stat = 5]
    /\ UNCHANGED <<sockets, loop, errno, answer>>

(* A file the handler named is gone when it is its turn.                    *)
CannotOpen(c) ==
    /\ Sending(c) /\ out[c].streams # <<>> /\ ~Head1(c).open /\ MayFail
    /\ Drop(c)
    /\ due' = [due EXCEPT ![c] = Without(@, Head1(c).id)]
    /\ UNCHANGED <<sockets, loop, errno, conn, wire>>

AtEnd(c) ==
    /\ Sending(c) /\ out[c].streams # <<>>
    /\ LET s == Filled(Head1(c))
       IN /\ s.rsize = 0
          /\ IF s.pos = s.wrote THEN Drop(c)
             ELSE out' = [out EXCEPT ![c].streams[1] = s] /\ UNCHANGED disk
    /\ UNCHANGED <<sockets, loop, errno, conn, wire, due>>

(* The bytes before the range are read and counted as written; the chunk in *)
(* which the range begins is put back up to there.                          *)
Skip(c) ==
    /\ Sending(c) /\ out[c].streams # <<>> /\ Skipping(c)
    /\ LET s == Filled(Head1(c))
           read == out[c].readsize + s.rsize
           excess == read - out[c].header - conn[c].range
           all == [s EXCEPT !.wrote = @ + s.rsize]
       IN /\ s.rsize > 0
          /\ out' = [out EXCEPT
                ![c].readsize = read,
                ![c].skipped = excess >= 0,
                ![c].streams[1] =
                    IF excess < 0 THEN all
                    ELSE [all EXCEPT !.wrote = @ - excess, !.pos = s.wrote + s.rsize - excess]]
    /\ UNCHANGED <<sockets, loop, errno, conn, disk, wire, due>>

(* Mutant: after a short send, on from what was read.                       *)
SendAndGoOn(c) ==
    /\ Sending(c) /\ out[c].streams # <<>> /\ ~Skipping(c)
    /\ peer[c] # "reset"
    /\ LET s == Filled(Head1(c))
           n == Least(s.rsize, room[c])
           from == s.pos - s.rsize
       IN /\ s.rsize > 0
          /\ room' = [room EXCEPT ![c] = @ - n]
          /\ wire' = [wire EXCEPT ![c] = @ \o Bytes(s.id, from, from + n)]
          /\ errno' = IF n = 0 THEN "EAGAIN" ELSE errno
          /\ out' = [out EXCEPT ![c].streams[1] = [s EXCEPT !.wrote = @ + n]]
    /\ UNCHANGED <<peer, req, inbox, loop, conn, disk, due>>

Send(c) ==
    /\ Sending(c) /\ out[c].streams # <<>> /\ ~Skipping(c)
    /\ peer[c] # "reset"
    /\ LET s == Filled(Head1(c))
           n == Least(s.rsize, room[c])
           from == s.pos - s.rsize
       IN /\ s.rsize > 0
          /\ room' = [room EXCEPT ![c] = @ - n]
          /\ wire' = [wire EXCEPT ![c] = @ \o Bytes(s.id, from, from + n)]
          /\ errno' = IF n = 0 THEN "EAGAIN" ELSE errno
          /\ out' = [out EXCEPT
                ![c].streams[1] =
                    IF n = s.rsize THEN [s EXCEPT !.wrote = @ + n]
                    ELSE [s EXCEPT !.wrote = @ + n, !.pos = s.wrote + n]]
    /\ UNCHANGED <<peer, req, inbox, loop, conn, disk, due>>

SendFails(c) ==
    /\ Sending(c) /\ out[c].streams # <<>> /\ ~Skipping(c)
    /\ peer[c] = "reset"
    /\ Filled(Head1(c)).rsize > 0
    /\ Drop(c)
    /\ errno' = "other"
    /\ UNCHANGED <<sockets, loop, conn, wire, due>>

-----------------------------------------------------------------------------
Peer(c) ==
    \/ \E r \in Asks[c] : Connect(c, r)
    \/ \E n \in 1..Total(req[c]) : PeerSends(c, n)
    \/ PeerReads(c) \/ PeerCloses(c) \/ PeerResets(c)

Serve(c) ==
    \/ Visit(c) \/ Delete(c)
    \/ Receive(c) \/ ReceiveFails(c) \/ Poll(c)
    \/ Refuse(c) \/ NoRedirect(c) \/ NoStream(c)
    \/ \E a \in req[c].answers : Handle(c, a)
    \/ Finish(c) \/ CannotOpen(c) \/ AtEnd(c) \/ Skip(c) \/ Send(c) \/ SendFails(c)

Server ==
    \/ Select \/ AcceptFails \/ EndScan
    \/ \E c \in Clients : Serve(c) \/ \E f \in Fds : Accept(c, f)

ServerNext == Server \/ \E c \in Clients : Peer(c)

ServerSpec == ServerInit /\ [][ServerNext]_server

(* The server's thread goes on.  Nothing makes a peer send, read or leave.  *)
FairServerSpec == ServerSpec /\ WF_server(Server)

-----------------------------------------------------------------------------
(* Types.                                                                   *)
ConnType == [stat : {1, 2, 4, 5}, got : Nat, tries : 0..Timeout, head : Nat,
             len : Nat, range : Nat]

ServerTypeOK ==
    /\ peer \in [Clients -> {"away", "open", "closed", "reset"}]
    /\ req \in [Clients -> Requests]
    /\ inbox \in [Clients -> Nat] /\ room \in [Clients -> 0..Window]
    /\ list \subseteq Clients /\ fd \in [Clients -> Fds \cup {NoFd}]
    /\ ready \subseteq Fds
    /\ at \in {"select", "accept", "scan", "down", "stopped"}
    /\ cur \in Clients \cup {NoClient} /\ running \in BOOLEAN
    /\ errno \in {"EAGAIN", "other"}
    /\ conn \in [Clients -> ConnType]
    /\ disk \subseteq (Clients \cup {NoClient}) \X Nat

(* Who is asked to read has something to read: a bit that select set for    *)
(* one connection is never taken for another one's, though sockets are      *)
(* closed and numbers reused while the set is in use.  A client without     *)
(* data would be polled for ever and keep everybody else waiting.           *)
ServedWereReadable ==
    at = "scan" =>
        \A c \in list :
            fd[c] \in ready /\ conn[c].stat = 1 /\ conn[c].got = 0 => Readable(c)

(* The temporary files on disk are those that listed clients still have to  *)
(* send, and what was left when a stream could not be registered.           *)
TempFilesOwned ==
    disk \ {Lost} = UNION {TempFiles(c) : c \in list}

(* A client gets its answer's bytes once each and in order, whatever send   *)
(* accepts at a time, from where its range begins, and when the server is   *)
(* done with a client that still listens, it got them all.                  *)
SentIsAnswer ==
    \A c \in list :
        conn[c].stat \in {4, 5} /\ peer[c] # "reset" /\ wire[c] # <<>> =>
            LET sent == Tail(wire[c])
            IN /\ Len(sent) <= Len(due[c])
               /\ sent = SubSeq(due[c], 1, Len(sent))
               /\ conn[c].stat = 5 /\ wire[c][1] \in {"200", "206"} => sent = due[c]

(* A request goes to a handler when it is there with all of the body it     *)
(* declares, or when nothing came for as many polls as the server waits;    *)
(* but for a blank line that was read behind the end of the buffer.         *)
HandedOnWhole ==
    [][\A c \in Clients :
          conn[c].stat = 1 /\ conn'[c].stat = 2 =>
              \/ conn[c].got = Whole(req[c])
              \/ conn[c].tries >= Timeout - 1
              \/ conn[c].head # req[c].head]_server

(* While the server runs, everyone who connects is served and gone, or in   *)
(* the list without having sent a thing, as long as nobody hangs up in      *)
(* silence, and nobody is Stalled for ever: output_client tries a send that *)
(* finds no room again without a limit, so a peer that stops reading in the *)
(* middle of its answer keeps the single thread.  Nothing else that a peer  *)
(* asks, or does not send, or when it leaves, keeps it from the others.     *)
Quiet(c) == c \in list /\ cur # c /\ ~Readable(c)
Stalled(c) == cur = c /\ room[c] = 0 /\ peer[c] # "reset"
EveryoneServed ==
    (\A c \in Clients : []<>~Stalled(c)) =>
        \A c \in Clients :
            peer[c] # "away" ~> peer[c] = "away" \/ Quiet(c) \/ at \in {"down", "stopped"}

(* client.h:76 calls WEBTIMEOUT the "TIMEOUT WITHOUT RECEIVING DATA": who   *)
(* sends nothing more is not read from for ever.                            *)
ReadingTimesOut ==
    \A c \in Clients : Reading(c) ~> ~Reading(c)
=============================================================================
