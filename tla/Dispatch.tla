------------------------------- MODULE Dispatch -------------------------------
(***************************************************************************)
(* From accept to the connection's event loop.  The main thread accepts a  *)
(* socket (drive_machine, conn_listening), appends an Item for it to the   *)
(* queue of a worker and writes one byte to a pipe (dispatch_conn_new).    *)
(* All workers watch the read end of the same pipe (thread_init).  A       *)
(* worker whose loop reports the pipe readable reads one byte, pops an     *)
(* Item from its own queue, waiting for one if need be, and makes the Conn *)
(* on the loop the Item names (thread_libev_process).                      *)
(*                                                                         *)
(* Sockets are the numbers 1, 2, ... in the order clients connect.  The    *)
(* critical sections of threadsafe_queue are atomic; wait_and_pop that     *)
(* finds its queue empty sleeps until push notifies it.                    *)
(***************************************************************************)
EXTENDS Integers, Sequences, FiniteSets

CONSTANTS
  NumThreads,   \* mem_setting.num_threads
  NumConns,     \* bound: clients that connect
  PipeSize      \* bytes the pipe holds; a write to a full pipe blocks

ASSUME DispatchAssumption ==
  /\ NumThreads \in Nat \ {0}
  /\ NumConns \in Nat
  /\ PipeSize \in Nat \ {0}

Worker == 0..(NumThreads - 1)
Sock == 1..NumConns
Item == [sock : Sock, loop : Worker]

VARIABLES
  arrived,     \* number of clients that have connected
  backlog,     \* connections the kernel holds for accept
  listening,   \* FALSE once the listening socket has been closed
  main,        \* where the main thread is in drive_machine
  hand,        \* the socket the main thread is dispatching, if any
  lost,        \* sockets accepted and then forgotten
  queue,       \* queue[w]: item_queue of worker w
  pipe,        \* bytes in the notification pipe
  worker,      \* where each worker is in thread_libev_process
  conns        \* Conns made: [sock, loop, by], by the worker that made it

vars == <<arrived, backlog, listening, main, hand, lost, queue, pipe, worker, conns>>

clientVars == <<arrived, backlog>>
mainVars   == <<listening, main, hand, lost>>

\* Nothing ever assigns to last_threadid.
last_threadid == -1

\* Mutant: workers take turns.
MutChosen == arrived % NumThreads

chosen == (last_threadid + 1) % NumThreads

-----------------------------------------------------------------------------
Init ==
  /\ arrived = 0
  /\ backlog = <<>>
  /\ listening = TRUE
  /\ main = "loop"
  /\ hand = <<>>
  /\ lost = <<>>
  /\ queue = [w \in Worker |-> <<>>]
  /\ pipe = 0
  /\ worker = [w \in Worker |-> "loop"]
  /\ conns = <<>>

\* A client's connection is established by the kernel.
Connect ==
  /\ listening
  /\ arrived < NumConns
  /\ arrived' = arrived + 1
  /\ backlog' = Append(backlog, arrived + 1)
  /\ UNCHANGED <<mainVars, queue, pipe, worker, conns>>

\* drive_machine, conn_listening: accept, and set_nonblock succeeds.
Accept ==
  /\ main = "loop"
  /\ listening
  /\ backlog # <<>>
  /\ hand' = <<Head(backlog)>>
  /\ backlog' = Tail(backlog)
  /\ main' = "push"
  /\ UNCHANGED <<arrived, listening, lost, queue, pipe, worker, conns>>

\* set_nonblock fails: close(sfd) closes the listening socket, not the
\* accepted one, and the next accept fails.
AcceptFails ==
  /\ main = "loop"
  /\ listening
  /\ backlog # <<>>
  /\ lost' = Append(lost, Head(backlog))
  /\ backlog' = Tail(backlog)
  /\ listening' = FALSE
  /\ UNCHANGED <<arrived, main, hand, queue, pipe, worker, conns>>

\* Mutant: the item goes to the front of the queue.
MutPushFront ==
  /\ main = "push"
  /\ queue' = [queue EXCEPT ![chosen] = <<[sock |-> Head(hand), loop |-> chosen]>> \o @]
  /\ worker' = [worker EXCEPT ![chosen] = IF @ = "wait" THEN "pop" ELSE @]
  /\ hand' = <<>>
  /\ main' = "write"
  /\ UNCHANGED <<clientVars, listening, lost, pipe, conns>>

\* Mutant: the item names the loop of another worker than the one it is
\* queued for.
MutPushLoop ==
  /\ main = "push"
  /\ queue' = [queue EXCEPT ![chosen] =
                 Append(@, [sock |-> Head(hand), loop |-> Head(hand) % NumThreads])]
  /\ worker' = [worker EXCEPT ![chosen] = IF @ = "wait" THEN "pop" ELSE @]
  /\ hand' = <<>>
  /\ main' = "write"
  /\ UNCHANGED <<clientVars, listening, lost, pipe, conns>>

\* dispatch_conn_new: item_queue.push, which notifies a waiting worker.
Push ==
  /\ main = "push"
  /\ queue' = [queue EXCEPT ![chosen] =
                 Append(@, [sock |-> Head(hand), loop |-> chosen])]
  /\ worker' = [worker EXCEPT ![chosen] = IF @ = "wait" THEN "pop" ELSE @]
  /\ hand' = <<>>
  /\ main' = "write"
  /\ UNCHANGED <<clientVars, listening, lost, pipe, conns>>

\* Mutant: the write does not wait for room and drops nothing.
MutWriteOverfull ==
  /\ main = "write"
  /\ pipe' = pipe + 1
  /\ main' = "loop"
  /\ UNCHANGED <<clientVars, listening, hand, lost, queue, worker, conns>>

\* Mutant: a non-blocking pipe loses the byte when it is full.
MutWriteLossy ==
  /\ main = "write"
  /\ pipe' = IF pipe < PipeSize THEN pipe + 1 ELSE pipe
  /\ main' = "loop"
  /\ UNCHANGED <<clientVars, listening, hand, lost, queue, worker, conns>>

\* dispatch_conn_new: write of the byte 'c'.
Write ==
  /\ main = "write"
  /\ pipe < PipeSize
  /\ pipe' = pipe + 1
  /\ main' = "loop"
  /\ UNCHANGED <<clientVars, listening, hand, lost, queue, worker, conns>>

\* The loop of worker w finds the pipe readable and calls the handler.
Wake(w) ==
  /\ worker[w] = "loop"
  /\ pipe > 0
  /\ worker' = [worker EXCEPT ![w] = "read"]
  /\ UNCHANGED <<clientVars, mainVars, queue, pipe, conns>>

\* Mutant: the byte stays in the pipe.
MutReadKeeps(w) ==
  /\ worker[w] = "read"
  /\ pipe > 0
  /\ worker' = [worker EXCEPT ![w] = "pop"]
  /\ UNCHANGED <<clientVars, mainVars, queue, pipe, conns>>

\* read(fds[0], buf, 1); it blocks when another worker was faster.
ReadByte(w) ==
  /\ worker[w] = "read"
  /\ pipe > 0
  /\ pipe' = pipe - 1
  /\ worker' = [worker EXCEPT ![w] = "pop"]
  /\ UNCHANGED <<clientVars, mainVars, queue, conns>>

\* wait_and_pop on an empty queue.
WaitForItem(w) ==
  /\ worker[w] = "pop"
  /\ queue[w] = <<>>
  /\ worker' = [worker EXCEPT ![w] = "wait"]
  /\ UNCHANGED <<clientVars, mainVars, queue, pipe, conns>>

\* wait_and_pop, then new Conn on the loop named in the Item.
PopItem(w) ==
  /\ worker[w] = "pop"
  /\ queue[w] # <<>>
  /\ queue' = [queue EXCEPT ![w] = Tail(@)]
  /\ conns' = Append(conns, [sock |-> Head(queue[w]).sock,
                             loop |-> Head(queue[w]).loop,
                             by   |-> w])
  /\ worker' = [worker EXCEPT ![w] = "loop"]
  /\ UNCHANGED <<clientVars, mainVars, pipe>>

Handler(w) == Wake(w) \/ ReadByte(w) \/ WaitForItem(w) \/ PopItem(w)

MainStep == Accept \/ Push \/ Write

Next ==
  \/ Connect
  \/ AcceptFails
  \/ MainStep
  \/ \E w \in Worker : Handler(w)

Spec == Init /\ [][Next]_vars

\* Threads run: the main thread returns to its loop, and a worker's loop
\* gets to the pipe, that is, callbacks of connections return.
FairSpec == Spec /\ WF_vars(MainStep) /\ \A w \in Worker : WF_vars(Handler(w))

-----------------------------------------------------------------------------
(* Properties *)

\* The variables of the dispatch have their types, and the main thread holds
\* a socket exactly while it is about to push it.
TypeOK ==
  /\ arrived \in 0..NumConns
  /\ backlog \in Seq(Sock)
  /\ listening \in BOOLEAN
  /\ main \in {"loop", "push", "write"}
  /\ hand \in Seq(Sock)
  /\ Len(hand) = IF main = "push" THEN 1 ELSE 0
  /\ lost \in Seq(Sock)
  /\ queue \in [Worker -> Seq(Item)]
  /\ pipe \in 0..PipeSize
  /\ worker \in [Worker -> {"loop", "read", "pop", "wait"}]
  /\ conns \in Seq([sock : Sock, loop : Worker, by : Worker])

\* Workers that have taken a byte from the pipe and not yet an Item.
Owed == {w \in Worker : worker[w] \in {"pop", "wait"}}

\* Bytes and Items correspond, across every interleaving of the main thread
\* and the workers: each Item in the queue of worker 0 has a byte in the
\* pipe, a byte about to be written, or a byte some worker has taken.  The
\* queues of the other workers stay empty, for dispatch_conn_new always
\* chooses worker 0.
BytesMatchItems ==
  /\ Len(queue[0]) = pipe + Cardinality(Owed) + (IF main = "write" THEN 1 ELSE 0)
  /\ \A w \in Worker \ {0} : queue[w] = <<>>

\* The one worker that connections are sent to never sleeps in wait_and_pop,
\* so connections it already serves are never held up there: the Item is
\* pushed before the byte is written.
Worker0NeverWaits == worker[0] # "wait" /\ (worker[0] = "pop" => queue[0] # <<>>)

Socks(s) == [i \in DOMAIN s |-> s[i].sock]

\* Sockets between connect and Conn, in the order they will be served.
Pipeline == Socks(conns) \o Socks(queue[0]) \o hand \o lost \o backlog

\* Every connected socket is in exactly one place and sockets are served in
\* the order they connected: none is skipped, doubled or overtaken between
\* kernel, main thread, queue and event loop.
InOrder == Pipeline = [i \in 1..arrived |-> i]

\* A Conn is made by the thread that runs its loop; ev_io_start on the loop
\* of another thread would be a data race inside libev.
OwnLoop == \A i \in DOMAIN conns : conns[i].by = conns[i].loop

\* Whatever the number of workers, one thread serves all the connections, so
\* the item store never runs in two threads, and the paths of slab.cpp that
\* take no bucket lock (item_alloc, item_replace) have nobody to race with.
OneLoop == \A i, j \in DOMAIN conns : conns[i].by = conns[j].by

\* A worker other than 0 has taken a byte and sleeps in wait_and_pop.
ByteStolen == \E w \in Worker \ {0} : worker[w] = "wait"

\* What dispatch_conn_new has queued becomes a Conn, and so does what waits
\* in the kernel unless the listening socket gets closed: the only thing that
\* can keep it from that is a second worker that is faster to read the byte.
\* With one worker, as shipped (memcached.cpp:27), there is none.
Served ==
  \A s \in Sock :
    /\ (\E i \in DOMAIN queue[0] : queue[0][i].sock = s)
         ~> (ByteStolen \/ \E i \in DOMAIN conns : conns[i].sock = s)
    /\ arrived >= s
         ~> (ByteStolen \/ ~listening \/ \E i \in DOMAIN conns : conns[i].sock = s)

=============================================================================
