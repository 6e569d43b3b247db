-------------------------------- MODULE Conn --------------------------------
(***************************************************************************)
(* The connections of one worker thread and their clients: the event loop  *)
(* and Conn::drive_machine, one action per case of its switch, over the    *)
(* functions of ConnMem.                                                   *)
(*                                                                         *)
(* running is the connection whose callback runs.  Nothing else happens in *)
(* the worker until drive_machine sets flag_stop, but the sockets change   *)
(* meanwhile: clients send, read what was written, and leave.              *)
(***************************************************************************)
EXTENDS ConnMem

CONSTANTS
  Client,       \* a client, its socket and its Conn
  NoClient,
  SendRoom,     \* units a socket takes before the client has read them
  CutLines,     \* a command line may come in pieces
  CutValues,    \* a value may come in pieces
  Hasty,        \* clients send on before the server has read
  Leavers       \* clients that may close

ASSUME ClientsAssumption ==
  /\ NoClient \notin Client
  /\ SendRoom \in Nat \ {0}
  /\ {CutLines, CutValues, Hasty} \subseteq BOOLEAN
  /\ Leavers \subseteq Client

VARIABLES
  conn,      \* conn[c]: the Conn object
  running,   \* the connection in whose callback the worker is
  tosend,    \* tosend[c]: parts of its request c has not sent yet
  sock,      \* sock[c]: units received and not read by the server
  room,      \* room[c]: units the socket still takes from the server
  peer,      \* peer[c]: what the server's kernel knows of the client
  session    \* session[c]: last request, value stored for it, reply written

vars == <<conn, running, tosend, sock, room, peer, session>>

\* here; fin: it has closed; late: and something was written to it since;
\* pipe: and the reset for that has come back; rst: it has closed with
\* unread data, which resets the connection.
PeerState == {"here", "fin", "late", "pipe", "rst"}

Line(r) == <<r>> \o [i \in 1..Info[r].pad |-> "SP"] \o <<"CR", "LF">>
Storage == {r \in Request : Info[r].words \in {5, 6}}
Value(r) == Info[r].value \o <<"CR", "LF">>
Parts(r) == IF r \in Storage THEN <<Line(r), Value(r)>> ELSE <<Line(r)>>

\* Lines of no known number of words, which are dropped, and those that are
\* not answered: quit too.
Quiet == {r \in Request : Info[r].words \notin {1, 2, 3, 5, 6}}
Silent == Quiet \cup {r \in Request : Info[r].words = 1 /\ Info[r].verb = "quit"}

Nobody == [req |-> None, value |-> <<>>, reply |-> None]

Init ==
  /\ \E fill \in Fresh : conn \in [Client -> {NewConn(fill, b) : b \in BOOLEAN}]
  /\ running = NoClient
  /\ tosend = [c \in Client |-> <<>>]
  /\ sock = [c \in Client |-> <<>>]
  /\ room = [c \in Client |-> SendRoom]
  /\ peer = [c \in Client |-> "here"]
  /\ session = [c \in Client |-> Nobody]

\* The process runs.
Up == \A c \in Client : conn[c].state \notin {"fault", "sigpipe"}

-----------------------------------------------------------------------------
(* Clients *)

Talking(c) == Up /\ peer[c] = "here" /\ conn[c].state # "conn_closed"

Ask(c, r) ==
  /\ Talking(c)
  /\ tosend[c] = <<>>
  /\ \/ session[c].req = None
     \/ session[c].reply # None
     \/ session[c].req \in Quiet
  /\ tosend' = [tosend EXCEPT ![c] = Parts(r)]
  /\ session' = [session EXCEPT ![c] = [Nobody EXCEPT !.req = r]]
  /\ UNCHANGED <<conn, running, sock, room, peer>>

\* A client that is not hasty gives the server the time to read.
Send(c) ==
  /\ Talking(c)
  /\ tosend[c] # <<>>
  /\ Hasty \/ sock[c] = <<>>
  /\ LET part == Head(tosend[c])
         cuts == IF session[c].req \in Storage /\ Len(tosend[c]) = 1 THEN CutValues ELSE CutLines
     IN  \E n \in 1..Len(part) :
           /\ cuts \/ n = Len(part)
           /\ sock' = [sock EXCEPT ![c] = @ \o SubSeq(part, 1, n)]
           /\ tosend' = [tosend EXCEPT ![c] =
                IF n = Len(part) THEN Tail(@) ELSE <<SubSeq(part, n + 1, Len(part))>> \o Tail(@)]
  /\ UNCHANGED <<conn, running, room, peer, session>>

\* The client reads what the server has written.
Drain(c) ==
  /\ Talking(c)
  /\ room[c] < SendRoom
  /\ room' = [room EXCEPT ![c] = SendRoom]
  /\ UNCHANGED <<conn, running, tosend, sock, peer, session>>

Leave(c) ==
  /\ c \in Leavers
  /\ Talking(c)
  /\ peer' = [peer EXCEPT ![c] = IF room[c] < SendRoom THEN "rst" ELSE "fin"]
  /\ tosend' = [tosend EXCEPT ![c] = <<>>]
  /\ UNCHANGED <<conn, running, sock, room, session>>

\* The reset that answers data sent to a closed socket.
Reset(c) ==
  /\ peer[c] = "late"
  /\ peer' = [peer EXCEPT ![c] = "pipe"]
  /\ UNCHANGED <<conn, running, tosend, sock, room, session>>

-----------------------------------------------------------------------------
(* The worker *)

Readable(c) == sock[c] # <<>> \/ peer[c] # "here"
Writable(c) == room[c] > 0 \/ peer[c] # "here"

\* The loop reports an event of c and calls conn_handler.
Wake(c) ==
  /\ Up
  /\ running = NoClient
  /\ \/ "read" \in conn[c].watching /\ Readable(c)
     \/ "write" \in conn[c].watching /\ Writable(c)
  /\ running' = c
  /\ UNCHANGED <<conn, tosend, sock, room, peer, session>>

At(c, state) == Up /\ running = c /\ conn[c].state = state

\* Mutant: flag_stop is not set.
MutWaiting(c) ==
  /\ At(c, "conn_waiting")
  /\ conn' = [conn EXCEPT ![c].state = "conn_read"]
  /\ UNCHANGED <<running, tosend, sock, room, peer, session>>

conn_waiting(c) ==
  /\ At(c, "conn_waiting")
  /\ conn' = [conn EXCEPT ![c].state = "conn_read"]
  /\ running' = NoClient
  /\ UNCHANGED <<tosend, sock, room, peer, session>>

conn_read(c) ==
  /\ At(c, "conn_read")
  /\ \E k \in try_read_tcp(conn[c], sock[c], peer[c] # "here") :
       /\ conn' = [conn EXCEPT ![c] = k]
       /\ sock' = [sock EXCEPT ![c] = SubSeq(@, k.rbuf_rlen - conn[c].rbuf_rlen + 1, Len(@))]
  /\ UNCHANGED <<running, tosend, room, peer, session>>

\* flag_stop is set unless flag_shake is, or the connection is to be closed.
conn_parse_cmd(c) ==
  /\ At(c, "conn_parse_cmd")
  /\ \E k \in try_read_command(conn[c]) :
       /\ conn' = [conn EXCEPT ![c] = k]
       /\ running' = IF k.flag_shake \/ k.state = "conn_closed" THEN c ELSE NoClient
  /\ UNCHANGED <<tosend, sock, room, peer, session>>

\* read returns 0 at the end of the stream, and an error once after a reset;
\* flag_stop is not set on any path.
conn_nread(c) ==
  LET k       == conn[c]
      missing == IF k.flag_shake THEN 0 ELSE k.rnbuf_len - k.rnbuf_rlen
      n       == Min2(missing, Len(sock[c]))
      dry     == missing > 0 /\ n = 0
  IN  /\ At(c, "conn_nread")
      /\ \E new \in read_value_stored(k, SubSeq(sock[c], 1, n),
                                      dry /\ peer[c] \in {"fin", "late", "pipe"}) :
           /\ conn' = [conn EXCEPT ![c] = new]
           /\ session' = IF new.state = "conn_write"
                         THEN [session EXCEPT ![c].value =
                                 ReadValue(k, SubSeq(sock[c], 1, n)).rnbuf]
                         ELSE session
      /\ sock' = [sock EXCEPT ![c] = SubSeq(@, n + 1, Len(@))]
      /\ peer' = IF dry /\ peer[c] = "rst" THEN [peer EXCEPT ![c] = "pipe"] ELSE peer
      /\ UNCHANGED <<running, tosend, room>>

\* write takes what the socket has room for.  A stale wbuf_now sends what is
\* there now, the reply if the new wbuf has the old address.
conn_write(c) ==
  LET k == conn[c]
      n == Min2(k.wbuf_len - k.wbuf_wlen, room[c])
      done == k.wbuf_wlen + n = k.wbuf_len
  IN  /\ At(c, "conn_write")
      /\ peer[c] \in {"here", "fin", "late"}
      /\ conn' = [conn EXCEPT ![c] = write_activate_read(k, n)]
      /\ room' = [room EXCEPT ![c] = @ - n]
      /\ \E str \in IF k.wbuf_stale THEN {k.wbuf, "GARBAGE"} ELSE {k.wbuf} :
           session' = IF done THEN [session EXCEPT ![c].reply = str] ELSE session
      /\ peer' = [peer EXCEPT ![c] = IF @ = "fin" THEN "late" ELSE @]
      /\ UNCHANGED <<running, tosend, sock>>

\* write fails: a reset connection, or an address that is not mapped.
WriteFails(c) ==
  /\ At(c, "conn_write")
  /\ peer[c] = "rst" \/ conn[c].wbuf_stale
  /\ conn' = [conn EXCEPT ![c].state = "conn_closed"]
  /\ UNCHANGED <<running, tosend, sock, room, peer, session>>

\* Nothing handles SIGPIPE.
BrokenPipe(c) ==
  /\ At(c, "conn_write")
  /\ peer[c] = "pipe"
  /\ conn' = [conn EXCEPT ![c].state = "sigpipe"]
  /\ UNCHANGED <<running, tosend, sock, room, peer, session>>

\* conn_close, and the end of the callback.
conn_closed(c) ==
  /\ At(c, "conn_closed")
  /\ conn' = [conn EXCEPT ![c].watching = {}]
  /\ running' = NoClient
  /\ UNCHANGED <<tosend, sock, room, peer, session>>

drive_machine(c) ==
  \/ conn_read(c)
  \/ conn_parse_cmd(c)
  \/ conn_nread(c)
  \/ conn_write(c)
  \/ WriteFails(c)
  \/ BrokenPipe(c)
  \/ conn_waiting(c)
  \/ conn_closed(c)

Next ==
  \E c \in Client :
    \/ \E r \in Request : Ask(c, r)
    \/ Send(c)
    \/ Drain(c)
    \/ Leave(c)
    \/ Reset(c)
    \/ Wake(c)
    \/ drive_machine(c)

Spec == Init /\ [][Next]_vars

\* The worker goes on; one turn of the libev loop calls the handler of every
\* ready watcher, so none is passed over for ever; a client that has begun a
\* request sends all of it, and reads its replies.
FairSpec ==
  /\ Spec
  /\ \A c \in Client :
       /\ WF_vars(drive_machine(c))
       /\ SF_vars(Wake(c))
       /\ WF_vars(Send(c))
       /\ WF_vars(Drain(c))
       /\ WF_vars(Reset(c))

-----------------------------------------------------------------------------
(* Properties *)

\* Types of the connection objects, the sockets and the clients.
TypeOK ==
  /\ conn \in [Client -> ConnType]
  /\ running \in Client \cup {NoClient}
  /\ tosend \in [Client -> Seq(Seq(Unit))]
  /\ sock \in [Client -> Seq(Unit)]
  /\ room \in [Client -> 0..SendRoom]
  /\ peer \in [Client -> PeerState]
  /\ session \in [Client -> [req : Request \cup {None}, value : Seq(Unit),
                             reply : Reply \cup {None}]]

\* The replies to a request before its value is stored.
Replies == [r \in Request |->
  LET i == Info[r]
  IN  IF r \in Storage THEN IF Refused(i) THEN {"CLIENT_ERROR"} ELSE {"SERVER_ERROR"}
      ELSE CASE i.words = 1 /\ i.verb = "version" -> {"VERSION"}
             [] i.words = 2 /\ i.verb = "get" -> {"END", "VALUE"}
             [] i.words = 2 /\ i.verb = "delete" -> {"DELETED", "NOT_FOUND"}
             [] OTHER -> {"CLIENT_BAD_COMMAND"}]

StoreReplies == [r \in Request |->
  IF Info[r].verb = "cas" THEN {"STORED", "EXISTS"} ELSE {"STORED", "NOT_STORED"}]

\* A value is stored as it was sent.
Kept(r, v) == v = Value(r)

\* What the clients, the memory and the lines of a run are like in which the
\* connections keep what they promise: clients send a line in one piece and
\* wait until the server has read it; memory that is not initialised is zero;
\* no line has three words; the key of a get is not too long, and the text of
\* a hit fits into wbuf; a storage command names a verb of storing and the
\* length of its value; a line fits into what rbuf grows to; and one whose
\* command is refused takes at most half of rbuf, and its value comes in one
\* piece.
Unstored(r) == r \in Storage /\ (Refused(Info[r]) \/ AllocFails)

Polite ==
  /\ ~Hasty /\ ~CutLines
  /\ Fresh = {"NUL"}
  /\ \A r \in Request :
       /\ Info[r].words # 3
       /\ Info[r].words = 2 /\ Info[r].verb = "get" =>
            /\ ~Info[r].longkey
            /\ \A x \in TextExcess : Info[r].total + x <= WriteBufLen
       /\ Len(Line(r)) <= ReadBufLen * 2^MaxGrowth
       /\ r \in Storage => Info[r].verb \in StoreVerb
       /\ r \in Storage /\ ~Refused(Info[r]) => vlen(Info[r]) = Len(Value(r))
       /\ Unstored(r) => /\ ~CutValues
                         /\ 2 * Len(Line(r)) <= ReadBufLen
                         /\ Len(Line(r)) + Len(Value(r)) <= ReadBufLen * 2^MaxGrowth

Promise == INSTANCE Session

\* Every connection keeps its promise to its client, in spite of the state
\* machine, two buffers with leftovers of earlier commands and the other
\* connections: each request is answered at most once and with a reply to it,
\* and its value is stored once and as it was sent, which is only so if it
\* comes in one piece (~CutValues).
KeepsPromise == Promise!Spec

\* And every request that has an answer gets it: no sequence of commands
\* leaves the watchers or the state such that a reply is never written.
EveryoneIsAnswered == Promise!Answered

\* The worker never goes back to its loop and forgets a client: if all of a
\* request has been read and no reply has been written, the reply is in wbuf
\* and the write watcher is started.  The refusal of a storage command, which
\* starts no watcher, is saved by the value that follows it.
NothingForgotten ==
  \A c \in Client :
    /\ Talking(c) /\ running # c
    /\ tosend[c] = <<>> /\ sock[c] = <<>>
    /\ session[c].req \notin Silent \cup {None}
    /\ session[c].reply = None
    => conn[c].wbuf # None /\ conn[c].watching = {"write"}

\* While a value is read, the length it was given survived the conversions
\* of tool.cpp and the addition of 2 without becoming negative, and reads stay
\* within rnbuf.  (With flag_shake set the code reads nothing, conn.cpp:716.)
ValueFits ==
  \A c \in Client :
    conn[c].state = "conn_nread" /\ ~conn[c].flag_shake =>
      /\ conn[c].rnbuf_len \in 2..(IntMod \div 2 - 1)
      /\ conn[c].rnbuf_rlen \in 0..conn[c].rnbuf_len
      /\ Len(conn[c].rnbuf) = conn[c].rnbuf_len

\* No request and no way of leaving makes the process access memory it must
\* not, and the only way a client ends it is SIGPIPE: it has closed before
\* its reply was written, and a part of the reply went out after that.
DiesOnlyWriting ==
  \A c \in Client :
    /\ conn[c].state # "fault"
    /\ conn[c].state = "sigpipe" => session[c].reply = None /\ conn[c].wbuf_wlen > 0

\* The connection of a client that has left is closed in the end, whatever
\* it was doing, unless the process has died.
LeaversAreClosed ==
  \A c \in Client : peer[c] # "here" ~> (conn[c].watching = {} \/ ~Up)

\* A client that stays is answered or closed, however slowly another one
\* sends and reads and in whatever state it leaves: the worker, which waits in
\* a loop of read and write calls for both, always gets out of it.
StayersAreServed ==
  \A c \in Client \ Leavers :
    session[c].req \notin Silent \cup {None}
      ~> (session[c].reply # None \/ conn[c].watching = {} \/ ~Up)

=============================================================================
