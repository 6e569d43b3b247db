---------------------------- MODULE DispatchProofs ----------------------------
(***************************************************************************)
(* Theorems about Dispatch, for any number of workers and clients and any  *)
(* size of the pipe.                                                       *)
(***************************************************************************)
EXTENDS Dispatch, FiniteSetTheorems, SequenceTheorems, TLAPS

\* An Item names the loop of the worker whose queue it is in.
QueueLoops ==
  \A w \in Worker : \A i \in DOMAIN queue[w] : queue[w][i].loop = w

\* The inductive invariant.
Inv ==
  /\ TypeOK
  /\ BytesMatchItems
  /\ Worker0NeverWaits
  /\ QueueLoops
  /\ OwnLoop

-----------------------------------------------------------------------------
\* dispatch_conn_new always chooses worker 0, for last_threadid stays -1.
LEMMA ChosenIsZero == chosen = 0 /\ 0 \in Worker
BY DispatchAssumption DEF chosen, last_threadid, Worker

\* The workers that owe an Item are finitely many.
LEMMA OwedFinite == IsFiniteSet(Owed) /\ Cardinality(Owed) \in Nat
<1>1. IsFiniteSet(Worker)
  BY FS_Interval, DispatchAssumption DEF Worker
<1>2. Owed \in SUBSET Worker
  BY DEF Owed
<1>3. IsFiniteSet(Owed)
  BY <1>1, <1>2, FS_Subset
<1> QED
  BY <1>3, FS_CardinalityType

\* At the start nothing is queued, written or owed.
LEMMA InitInv == Init => Inv
<1> SUFFICES ASSUME Init PROVE Inv
  OBVIOUS
<1>1. TypeOK
  BY DispatchAssumption DEF Init, TypeOK
<1>2. Owed = {}
  BY DEF Init, Owed
<1>3. BytesMatchItems
  BY <1>2, FS_EmptySet, ChosenIsZero DEF Init, BytesMatchItems
<1>4. Worker0NeverWaits /\ QueueLoops /\ OwnLoop
  BY ChosenIsZero DEF Init, Worker0NeverWaits, QueueLoops, OwnLoop
<1> QED
  BY <1>1, <1>3, <1>4 DEF Inv

-----------------------------------------------------------------------------
(* One lemma per step of main thread and workers *)

\* A client that connects changes the backlog only.
LEMMA ConnectInv == Inv /\ Connect => Inv'
<1> SUFFICES ASSUME Inv, Connect PROVE Inv'
  OBVIOUS
<1>1. TypeOK'
  BY DispatchAssumption DEF Inv, TypeOK, Connect, mainVars, Sock
<1>2. Owed' = Owed
  BY DEF Connect, Owed
<1> QED
  BY <1>1, <1>2 DEF Inv, Connect, mainVars, BytesMatchItems, Worker0NeverWaits,
                    QueueLoops, OwnLoop

\* An accepted socket is in the hand of the main thread and owes nothing.
LEMMA AcceptInv == Inv /\ Accept => Inv'
<1> SUFFICES ASSUME Inv, Accept PROVE Inv'
  OBVIOUS
<1>1. TypeOK'
  BY DEF Inv, TypeOK, Accept
<1>2. Owed' = Owed
  BY DEF Accept, Owed
<1> QED
  BY <1>1, <1>2 DEF Inv, Accept, BytesMatchItems, Worker0NeverWaits, QueueLoops, OwnLoop

\* A failing set_nonblock closes the listening socket and touches no queue.
LEMMA AcceptFailsInv == Inv /\ AcceptFails => Inv'
<1> SUFFICES ASSUME Inv, AcceptFails PROVE Inv'
  OBVIOUS
<1>1. TypeOK'
  <2>1. Head(backlog) \in Sock /\ Tail(backlog) \in Seq(Sock)
    BY HeadTailProperties DEF Inv, TypeOK, AcceptFails
  <2>2. Append(lost, Head(backlog)) \in Seq(Sock)
    BY <2>1, AppendProperties DEF Inv, TypeOK
  <2> QED
    BY <2>1, <2>2 DEF Inv, TypeOK, AcceptFails
<1>2. Owed' = Owed
  BY DEF AcceptFails, Owed
<1> QED
  BY <1>1, <1>2 DEF Inv, AcceptFails, BytesMatchItems, Worker0NeverWaits,
                    QueueLoops, OwnLoop

\* The Item is queued before its byte is written: the byte is owed by main.
LEMMA PushInv == Inv /\ Push => Inv'
<1> SUFFICES ASSUME Inv, Push PROVE Inv'
  OBVIOUS
<1> DEFINE new == [sock |-> Head(hand), loop |-> 0]
<1>1. /\ main = "push" /\ main' = "write" /\ hand' = <<>>
      /\ queue' = [queue EXCEPT ![0] = Append(@, new)]
      /\ worker' = [worker EXCEPT ![0] = IF @ = "wait" THEN "pop" ELSE @]
      /\ UNCHANGED <<arrived, backlog, listening, lost, pipe, conns>>
  BY ChosenIsZero DEF Push, clientVars
<1>2. new \in Item
  <2>1. hand \in Seq(Sock) /\ Len(hand) = 1
    BY DEF Inv, TypeOK, Push
  <2>2. Head(hand) \in Sock
    BY <2>1
  <2> QED
    BY <2>2, ChosenIsZero DEF Item
<1>3. worker' = worker
  BY <1>1, ChosenIsZero DEF Inv, TypeOK, Worker0NeverWaits
<1>4. Owed' = Owed
  BY <1>3 DEF Owed
<1>5. TypeOK'
  BY <1>1, <1>2, <1>3, ChosenIsZero DEF Inv, TypeOK
<1>6. BytesMatchItems'
  <2>1. Len(queue'[0]) = Len(queue[0]) + 1
    BY <1>1, <1>2, ChosenIsZero DEF Inv, TypeOK
  <2>2. \A w \in Worker \ {0} : queue'[w] = queue[w]
    BY <1>1 DEF Inv, TypeOK
  <2> QED
    BY <1>1, <1>4, <2>1, <2>2, OwedFinite DEF Inv, TypeOK, BytesMatchItems
<1>7. Worker0NeverWaits'
  <2>1. queue'[0] = Append(queue[0], new) /\ queue[0] \in Seq(Item)
    BY <1>1, ChosenIsZero DEF Inv, TypeOK
  <2>2. queue'[0] # <<>>
    BY <2>1, <1>2, AppendProperties
  <2> QED
    BY <1>3, <2>2 DEF Inv, Worker0NeverWaits
<1>8. QueueLoops'
  <2> SUFFICES ASSUME NEW w \in Worker, NEW i \in DOMAIN queue'[w]
               PROVE  queue'[w][i].loop = w
    BY DEF QueueLoops
  <2>1. CASE w = 0
    BY <1>1, <1>2, <2>1, ChosenIsZero DEF Inv, TypeOK, QueueLoops
  <2>2. CASE w # 0
    BY <1>1, <2>2 DEF Inv, TypeOK, QueueLoops
  <2> QED
    BY <2>1, <2>2
<1>9. OwnLoop'
  BY <1>1 DEF Inv, OwnLoop
<1> QED
  BY <1>5, <1>6, <1>7, <1>8, <1>9 DEF Inv

\* The byte moves from the main thread to the pipe.
LEMMA WriteInv == Inv /\ Write => Inv'
<1> SUFFICES ASSUME Inv, Write PROVE Inv'
  OBVIOUS
<1>1. TypeOK'
  BY DispatchAssumption DEF Inv, TypeOK, Write, clientVars
<1>2. Owed' = Owed
  BY DEF Write, Owed
<1>3. BytesMatchItems'
  BY <1>2, OwedFinite DEF Inv, TypeOK, Write, BytesMatchItems
<1> QED
  BY <1>1, <1>3 DEF Inv, Write, Worker0NeverWaits, QueueLoops, OwnLoop

\* A worker about to read owes nothing yet.
LEMMA WakeInv == ASSUME NEW w \in Worker PROVE Inv /\ Wake(w) => Inv'
<1> SUFFICES ASSUME Inv, Wake(w) PROVE Inv'
  OBVIOUS
<1>1. TypeOK'
  BY DEF Inv, TypeOK, Wake, clientVars, mainVars
<1>2. Owed' = Owed
  BY DEF Inv, TypeOK, Wake, Owed
<1>3. Worker0NeverWaits'
  BY ChosenIsZero DEF Inv, TypeOK, Wake, Worker0NeverWaits
<1> QED
  BY <1>1, <1>2, <1>3 DEF Inv, Wake, mainVars, BytesMatchItems, QueueLoops, OwnLoop

\* The byte moves from the pipe to the worker, which now owes an Item.
LEMMA ReadByteInv == ASSUME NEW w \in Worker PROVE Inv /\ ReadByte(w) => Inv'
<1> SUFFICES ASSUME Inv, ReadByte(w) PROVE Inv'
  OBVIOUS
<1>1. TypeOK'
  BY DispatchAssumption DEF Inv, TypeOK, ReadByte, clientVars, mainVars
<1>2. Owed' = Owed \cup {w} /\ w \notin Owed
  BY DEF Inv, TypeOK, ReadByte, Owed
<1>3. Cardinality(Owed') = Cardinality(Owed) + 1
  BY <1>2, OwedFinite, FS_AddElement
<1>4. BytesMatchItems'
  BY <1>3, OwedFinite DEF Inv, TypeOK, ReadByte, mainVars, BytesMatchItems
<1>5. Worker0NeverWaits'
  BY <1>3, <1>4, OwedFinite, ChosenIsZero
     DEF Inv, TypeOK, ReadByte, mainVars, BytesMatchItems, Worker0NeverWaits
<1> QED
  BY <1>1, <1>4, <1>5 DEF Inv, ReadByte, QueueLoops, OwnLoop

\* Only a worker other than 0 finds its queue empty.
LEMMA WaitForItemInv == ASSUME NEW w \in Worker PROVE Inv /\ WaitForItem(w) => Inv'
<1> SUFFICES ASSUME Inv, WaitForItem(w) PROVE Inv'
  OBVIOUS
<1>1. TypeOK'
  BY DEF Inv, TypeOK, WaitForItem, clientVars, mainVars
<1>2. Owed' = Owed
  BY DEF Inv, TypeOK, WaitForItem, Owed
<1>3. w # 0
  BY DEF Inv, WaitForItem, Worker0NeverWaits
<1>4. Worker0NeverWaits'
  BY <1>3, ChosenIsZero DEF Inv, TypeOK, WaitForItem, Worker0NeverWaits
<1> QED
  BY <1>1, <1>2, <1>4 DEF Inv, WaitForItem, mainVars, BytesMatchItems, QueueLoops, OwnLoop

\* Only worker 0 finds an Item; taking it settles the debt.
LEMMA PopItemInv == ASSUME NEW w \in Worker PROVE Inv /\ PopItem(w) => Inv'
<1> SUFFICES ASSUME Inv, PopItem(w) PROVE Inv'
  OBVIOUS
<1> DEFINE item == Head(queue[0])
<1>1. w = 0
  BY DEF Inv, PopItem, BytesMatchItems
<1>2. /\ worker[0] = "pop" /\ queue[0] # <<>>
      /\ queue' = [queue EXCEPT ![0] = Tail(@)]
      /\ conns' = Append(conns, [sock |-> item.sock, loop |-> item.loop, by |-> 0])
      /\ worker' = [worker EXCEPT ![0] = "loop"]
      /\ UNCHANGED <<arrived, backlog, listening, main, hand, lost, pipe>>
  BY <1>1 DEF PopItem, clientVars, mainVars
<1>3. item \in Item /\ item.loop = 0 /\ Tail(queue[0]) \in Seq(Item)
  BY <1>2, ChosenIsZero DEF Inv, TypeOK, QueueLoops
<1> DEFINE made == [sock |-> item.sock, loop |-> item.loop, by |-> 0]
<1>4. TypeOK'
  <2>1. made \in [sock : Sock, loop : Worker, by : Worker]
    BY <1>3, ChosenIsZero DEF Item
  <2>2. conns' \in Seq([sock : Sock, loop : Worker, by : Worker])
    BY <1>2, <2>1, AppendProperties DEF Inv, TypeOK
  <2>3. queue' \in [Worker -> Seq(Item)]
    BY <1>2, <1>3, ChosenIsZero DEF Inv, TypeOK
  <2> QED
    BY <1>2, <2>2, <2>3, ChosenIsZero DEF Inv, TypeOK
<1>5. Owed' = Owed \ {0} /\ 0 \in Owed
  BY <1>2, ChosenIsZero DEF Inv, TypeOK, Owed
<1>6. Cardinality(Owed') = Cardinality(Owed) - 1
  BY <1>5, OwedFinite, FS_RemoveElement
<1>7. BytesMatchItems'
  <2>1. Len(queue'[0]) = Len(queue[0]) - 1
    BY <1>2, ChosenIsZero DEF Inv, TypeOK
  <2>2. \A v \in Worker \ {0} : queue'[v] = queue[v]
    BY <1>2 DEF Inv, TypeOK
  <2> QED
    BY <1>2, <1>6, <2>1, <2>2, OwedFinite DEF Inv, TypeOK, BytesMatchItems
<1>8. Worker0NeverWaits'
  BY <1>2, ChosenIsZero DEF Inv, TypeOK, Worker0NeverWaits
<1>9. QueueLoops'
  <2> SUFFICES ASSUME NEW v \in Worker, NEW i \in DOMAIN queue'[v]
               PROVE  queue'[v][i].loop = v
    BY DEF QueueLoops
  <2>1. CASE v = 0
    BY <1>2, <2>1, ChosenIsZero DEF Inv, TypeOK, QueueLoops
  <2>2. CASE v # 0
    BY <1>2, <2>2 DEF Inv, TypeOK, QueueLoops
  <2> QED
    BY <2>1, <2>2
<1>10. OwnLoop'
  <2>1. made.by = made.loop
    BY <1>3
  <2>2. \A i \in DOMAIN conns' : conns'[i] = made \/ (i \in DOMAIN conns /\ conns'[i] = conns[i])
    BY <1>2 DEF Inv, TypeOK
  <2> QED
    BY <2>1, <2>2 DEF Inv, OwnLoop
<1> QED
  BY <1>4, <1>7, <1>8, <1>9, <1>10 DEF Inv

\* Every step of the dispatch keeps the invariant.
LEMMA StepInv == Inv /\ [Next]_vars => Inv'
<1> SUFFICES ASSUME Inv, [Next]_vars PROVE Inv'
  OBVIOUS
<1>1. CASE Connect
  BY <1>1, ConnectInv
<1>2. CASE AcceptFails
  BY <1>2, AcceptFailsInv
<1>3. CASE MainStep
  BY <1>3, AcceptInv, PushInv, WriteInv DEF MainStep
<1>4. ASSUME NEW w \in Worker, Handler(w) PROVE Inv'
  BY <1>4, WakeInv, ReadByteInv, WaitForItemInv, PopItemInv DEF Handler
<1>5. CASE UNCHANGED vars
  <2>1. Owed' = Owed
    BY <1>5 DEF vars, Owed
  <2> QED
    BY <1>5, <2>1 DEF vars, Inv, TypeOK, BytesMatchItems, Worker0NeverWaits, QueueLoops, OwnLoop
<1> QED
  BY <1>1, <1>2, <1>3, <1>4, <1>5 DEF Next

\* The invariant holds in every reachable state.
LEMMA AlwaysInv == Spec => []Inv
BY InitInv, StepInv, PTL DEF Spec

-----------------------------------------------------------------------------
(* The order of connections *)

ConnMade == [sock : Sock, loop : Worker, by : Worker]

\* A socket is lost only together with the listening socket.
NoneLostYet == listening => lost = <<>>

OrderInv == Inv /\ NoneLostYet /\ InOrder

\* The sockets named by a sequence of records.
LEMMA SocksType ==
  ASSUME NEW R, \A r \in R : r.sock \in Sock, NEW s \in Seq(R)
  PROVE  Socks(s) \in Seq(Sock) /\ Len(Socks(s)) = Len(s)
<1>1. Socks(s) = [i \in 1..Len(s) |-> s[i].sock] /\ Len(s) \in Nat
  BY DEF Socks
<1>2. \A i \in 1..Len(s) : s[i].sock \in Sock
  OBVIOUS
<1> QED
  BY <1>1, <1>2

\* Appending a record appends its socket.
LEMMA SocksAppend ==
  ASSUME NEW R, \A r \in R : r.sock \in Sock, NEW s \in Seq(R), NEW x \in R
  PROVE  Socks(Append(s, x)) = Socks(s) \o <<x.sock>>
<1>1. Append(s, x) \in Seq(R) /\ Len(Append(s, x)) = Len(s) + 1
  BY AppendProperties
<1>2. /\ Socks(Append(s, x)) \in Seq(Sock) /\ Len(Socks(Append(s, x))) = Len(s) + 1
      /\ Socks(s) \in Seq(Sock) /\ Len(Socks(s)) = Len(s)
  BY <1>1, SocksType
<1>3. <<x.sock>> \in Seq(Sock) /\ Len(<<x.sock>>) = 1
  OBVIOUS
<1>4. Socks(s) \o <<x.sock>> \in Seq(Sock) /\ Len(Socks(s) \o <<x.sock>>) = Len(s) + 1
  BY <1>2, <1>3, ConcatProperties
<1>5. \A i \in 1..(Len(s) + 1) : Socks(Append(s, x))[i] = (Socks(s) \o <<x.sock>>)[i]
  BY <1>1, <1>2 DEF Socks
<1> QED
  BY <1>2, <1>4, <1>5, SeqEqual

\* The first socket is that of the first record.
LEMMA SocksTail ==
  ASSUME NEW R, \A r \in R : r.sock \in Sock, NEW s \in Seq(R), s # <<>>
  PROVE  Socks(s) = <<Head(s).sock>> \o Socks(Tail(s))
<1>1. Head(s) \in R /\ Tail(s) \in Seq(R) /\ Len(Tail(s)) = Len(s) - 1
  BY HeadTailProperties
<1>2. /\ Socks(s) \in Seq(Sock) /\ Len(Socks(s)) = Len(s)
      /\ Socks(Tail(s)) \in Seq(Sock) /\ Len(Socks(Tail(s))) = Len(s) - 1
  BY <1>1, SocksType
<1>3. <<Head(s).sock>> \in Seq(Sock) /\ Len(<<Head(s).sock>>) = 1
  BY <1>1
<1> DEFINE t == <<Head(s).sock>> \o Socks(Tail(s))
<1>4. t \in Seq(Sock) /\ Len(t) = Len(s)
  BY <1>2, <1>3, ConcatProperties
<1>5. \A i \in 1..Len(s) : Socks(s)[i] = t[i]
  BY <1>1, <1>2 DEF Socks
<1> QED
  BY <1>2, <1>4, <1>5, SeqEqual

\* The head of a sequence of sockets comes off its front.
LEMMA FrontOff ==
  ASSUME NEW s \in Seq(Sock), s # <<>>
  PROVE  Head(s) \in Sock /\ Tail(s) \in Seq(Sock) /\ s = <<Head(s)>> \o Tail(s)
<1>1. Head(s) \in Sock /\ Tail(s) \in Seq(Sock) /\ Len(Tail(s)) = Len(s) - 1
  BY HeadTailProperties
<1>2. <<Head(s)>> \o Tail(s) \in Seq(Sock) /\ Len(<<Head(s)>> \o Tail(s)) = Len(s)
  BY <1>1, ConcatProperties
<1>3. \A i \in 1..Len(s) : s[i] = (<<Head(s)>> \o Tail(s))[i]
  BY <1>1
<1> QED
  BY <1>1, <1>2, <1>3, SeqEqual

\* The pieces of the pipeline are sequences of sockets.
LEMMA PiecesType ==
  ASSUME TypeOK
  PROVE  /\ Socks(conns) \in Seq(Sock)
         /\ Socks(queue[0]) \in Seq(Sock)
         /\ hand \in Seq(Sock) /\ lost \in Seq(Sock) /\ backlog \in Seq(Sock)
<1>1. conns \in Seq(ConnMade) /\ \A r \in ConnMade : r.sock \in Sock
  BY DEF TypeOK, ConnMade
<1>2. queue[0] \in Seq(Item) /\ \A r \in Item : r.sock \in Sock
  BY ChosenIsZero DEF TypeOK, Item
<1>3. Socks(conns) \in Seq(Sock)
  BY <1>1, SocksType
<1>4. Socks(queue[0]) \in Seq(Sock)
  BY <1>2, SocksType
<1> QED
  BY <1>3, <1>4 DEF TypeOK

\* A new client goes to the end of the line.
LEMMA ConnectOrder == OrderInv /\ Connect => InOrder'
<1> SUFFICES ASSUME OrderInv, Connect PROVE InOrder'
  OBVIOUS
<1> DEFINE n == arrived + 1
           front == Socks(conns) \o Socks(queue[0]) \o hand \o lost
<1>1. TypeOK /\ arrived \in Nat /\ n \in Sock
  BY DispatchAssumption DEF OrderInv, Inv, TypeOK, Connect, Sock
<1>2. front \in Seq(Sock) /\ backlog \in Seq(Sock)
  BY <1>1, PiecesType, ConcatProperties
<1>3. Pipeline' = front \o Append(backlog, n)
  BY DEF Connect, mainVars, Pipeline, Socks
<1>4. front \o Append(backlog, n) = Append(front \o backlog, n)
  <2>1. Append(backlog, n) = backlog \o <<n>> /\ <<n>> \in Seq(Sock)
    BY <1>1, <1>2, AppendIsConcat
  <2>2. Append(front \o backlog, n) = (front \o backlog) \o <<n>>
    BY <1>1, <1>2, AppendIsConcat, ConcatProperties
  <2> HIDE DEF front, n
  <2>3. (front \o backlog) \o <<n>> = front \o (backlog \o <<n>>)
    BY <1>2, <2>1, ConcatAssociative
  <2> QED
    BY <2>1, <2>2, <2>3
<1>5. front \o backlog = [i \in 1..arrived |-> i]
  BY DEF OrderInv, InOrder, Pipeline
<1>6. Append([i \in 1..arrived |-> i], n) = [i \in 1..n |-> i]
  BY <1>1
<1> QED
  BY <1>3, <1>4, <1>5, <1>6 DEF Connect, InOrder

\* A socket between two stretches of the line belongs to either.
LEMMA JoinAssociative ==
  ASSUME NEW a \in Seq(Sock), NEW x \in Sock, NEW b \in Seq(Sock)
  PROVE  (a \o <<x>>) \o b = a \o (<<x>> \o b)
<1> DEFINE m == <<x>>
<1>1. m \in Seq(Sock)
  OBVIOUS
<1> HIDE DEF m
<1>2. (a \o m) \o b = a \o (m \o b)
  BY <1>1, ConcatAssociative
<1> QED
  BY <1>2 DEF m

\* accept takes the first of the backlog while the main thread's hand and
\* the list of lost sockets are empty.
LEMMA AcceptOrder == OrderInv /\ Accept => InOrder'
<1> SUFFICES ASSUME OrderInv, Accept PROVE InOrder'
  OBVIOUS
<1> DEFINE front == Socks(conns) \o Socks(queue[0])
           x == Head(backlog)
           rest == Tail(backlog)
<1>1. TypeOK /\ lost = <<>> /\ hand = <<>>
  BY DEF OrderInv, Inv, TypeOK, Accept, NoneLostYet
<1>2. front \in Seq(Sock)
  BY <1>1, PiecesType, ConcatProperties
<1>3. x \in Sock /\ rest \in Seq(Sock) /\ backlog = <<x>> \o rest
  BY <1>1, PiecesType, FrontOff DEF Accept
<1>4. Pipeline = front \o backlog
  BY <1>1, <1>2, ConcatEmptySeq DEF Pipeline
<1>5. Pipeline' = front \o <<x>> \o <<>> \o rest
  BY <1>1 DEF Accept, Pipeline, Socks
<1>6. <<x>> \in Seq(Sock) /\ front \o <<x>> \in Seq(Sock)
  BY <1>2, <1>3, ConcatProperties
<1>7. Pipeline' = front \o (<<x>> \o rest)
  <2>1. (front \o <<x>>) \o <<>> = front \o <<x>>
    BY <1>6, ConcatEmptySeq
  <2>2. (front \o <<x>>) \o rest = front \o (<<x>> \o rest)
    BY <1>2, <1>3, JoinAssociative, Zenon
  <2> QED
    BY <1>5, <2>1, <2>2
<1> QED
  BY <1>3, <1>4, <1>7 DEF OrderInv, InOrder, Accept

\* The socket for which set_nonblock fails is the first of the backlog too.
LEMMA AcceptFailsOrder == OrderInv /\ AcceptFails => InOrder'
<1> SUFFICES ASSUME OrderInv, AcceptFails PROVE InOrder'
  OBVIOUS
<1> DEFINE front == Socks(conns) \o Socks(queue[0])
           x == Head(backlog)
           rest == Tail(backlog)
<1>1. TypeOK /\ lost = <<>> /\ hand = <<>>
  BY DEF OrderInv, Inv, TypeOK, AcceptFails, NoneLostYet
<1>2. front \in Seq(Sock)
  BY <1>1, PiecesType, ConcatProperties
<1>3. x \in Sock /\ rest \in Seq(Sock) /\ backlog = <<x>> \o rest
  BY <1>1, PiecesType, FrontOff DEF AcceptFails
<1>4. Pipeline = front \o backlog
  BY <1>1, <1>2, ConcatEmptySeq DEF Pipeline
<1>5. Append(<<>>, x) = <<x>>
  BY <1>3
<1>6. Pipeline' = front \o <<>> \o <<x>> \o rest
  BY <1>1, <1>5 DEF AcceptFails, Pipeline, Socks
<1>7. <<x>> \in Seq(Sock)
  BY <1>3
<1>8. Pipeline' = front \o (<<x>> \o rest)
  <2>1. front \o <<>> = front
    BY <1>2, ConcatEmptySeq
  <2>2. (front \o <<x>>) \o rest = front \o (<<x>> \o rest)
    BY <1>2, <1>3, JoinAssociative, Zenon
  <2> QED
    BY <1>6, <2>1, <2>2
<1> QED
  BY <1>3, <1>4, <1>8 DEF OrderInv, InOrder, AcceptFails

\* push moves the socket from the main thread's hand to the queue's end.
LEMMA PushOrder == OrderInv /\ Push => InOrder'
<1> SUFFICES ASSUME OrderInv, Push PROVE InOrder'
  OBVIOUS
<1> DEFINE x == Head(hand)
           new == [sock |-> x, loop |-> 0]
           rest == lost \o backlog
           C == Socks(conns)
           Q == Socks(queue[0])
<1>1. TypeOK /\ hand \in Seq(Sock) /\ Len(hand) = 1
  BY DEF OrderInv, Inv, TypeOK, Push
<1>2. x \in Sock /\ hand = <<x>>
  BY <1>1
<1>3. new \in Item /\ queue[0] \in Seq(Item) /\ \A r \in Item : r.sock \in Sock
  BY <1>1, <1>2, ChosenIsZero DEF TypeOK, Item
<1>4. queue'[0] = Append(queue[0], new)
  BY <1>1, ChosenIsZero DEF Push, TypeOK
<1>5. Socks(queue'[0]) = Q \o <<x>>
  BY <1>3, <1>4, SocksAppend
<1>6. C \in Seq(Sock) /\ Q \in Seq(Sock) /\ <<x>> \in Seq(Sock)
      /\ lost \in Seq(Sock) /\ backlog \in Seq(Sock)
  BY <1>1, <1>2, PiecesType
<1>7. Pipeline = C \o Q \o <<x>> \o lost \o backlog
  BY <1>2 DEF Pipeline
<1>8. Pipeline' = C \o (Q \o <<x>>) \o <<>> \o lost \o backlog
  BY <1>5 DEF Push, clientVars, Pipeline, Socks
<1>9. Q \o <<x>> \in Seq(Sock) /\ C \o (Q \o <<x>>) \in Seq(Sock)
  BY <1>6, ConcatProperties
<1>10. C \o (Q \o <<x>>) \o <<>> = C \o Q \o <<x>>
  BY <1>6, <1>9, ConcatEmptySeq, ConcatAssociative
<1> QED
  BY <1>7, <1>8, <1>10 DEF OrderInv, InOrder, Push, clientVars

\* wait_and_pop takes the first of the queue, which becomes the last Conn.
LEMMA PopOrder == ASSUME NEW w \in Worker PROVE OrderInv /\ PopItem(w) => InOrder'
<1> SUFFICES ASSUME OrderInv, PopItem(w) PROVE InOrder'
  OBVIOUS
<1> DEFINE item == Head(queue[0])
           x == item.sock
           made == [sock |-> x, loop |-> item.loop, by |-> 0]
           C == Socks(conns)
           Q == Socks(Tail(queue[0]))
<1>1. TypeOK /\ w = 0
  BY DEF OrderInv, Inv, PopItem, BytesMatchItems
<1>2. /\ queue[0] # <<>> /\ queue[0] \in Seq(Item)
      /\ queue'[0] = Tail(queue[0])
      /\ conns' = Append(conns, made)
      /\ UNCHANGED <<arrived, backlog, hand, lost>>
  BY <1>1, ChosenIsZero DEF TypeOK, PopItem, clientVars, mainVars
<1>3. item \in Item /\ x \in Sock /\ Tail(queue[0]) \in Seq(Item)
  <2>1. item \in Item /\ Tail(queue[0]) \in Seq(Item)
    BY <1>2, HeadTailProperties
  <2> QED
    BY <2>1 DEF Item
<1>4. made \in ConnMade /\ conns \in Seq(ConnMade)
  BY <1>1, <1>3, ChosenIsZero DEF TypeOK, ConnMade, Item
<1>5. (\A r \in Item : r.sock \in Sock) /\ (\A r \in ConnMade : r.sock \in Sock)
  BY DEF Item, ConnMade
<1>6. Socks(conns') = C \o <<x>>
  <2>1. Socks(Append(conns, made)) = C \o <<made.sock>>
    BY <1>4, <1>5, SocksAppend
  <2>2. made.sock = x
    OBVIOUS
  <2> HIDE DEF made, x, C
  <2> QED
    BY <1>2, <2>1, <2>2
<1>7. Socks(queue[0]) = <<x>> \o Q
  BY <1>2, <1>5, SocksTail
<1>8. C \in Seq(Sock) /\ Q \in Seq(Sock) /\ <<x>> \in Seq(Sock)
  <2>1. C \in Seq(Sock)
    BY <1>1, PiecesType
  <2>2. Q \in Seq(Sock)
    BY <1>3, <1>5, SocksType
  <2>3. <<x>> \in Seq(Sock)
    <3> HIDE DEF x
    <3> QED
      BY <1>3
  <2> QED
    BY <2>1, <2>2, <2>3
<1>9. (C \o <<x>>) \o Q = C \o (<<x>> \o Q)
  BY <1>8, ConcatAssociative
<1>10. Socks(conns)' = C \o <<x>> /\ Socks(queue[0])' = Q
  BY <1>2, <1>6 DEF Socks
<1> QED
  BY <1>2, <1>7, <1>9, <1>10 DEF OrderInv, InOrder, Pipeline

\* Every step keeps the order.
LEMMA StepOrder == OrderInv /\ [Next]_vars => OrderInv'
<1> SUFFICES ASSUME OrderInv, [Next]_vars PROVE OrderInv'
  OBVIOUS
<1>1. Inv'
  BY StepInv DEF OrderInv
<1>2. NoneLostYet'
  BY DEF OrderInv, NoneLostYet, Next, MainStep, Handler, Connect, Accept, AcceptFails,
         Push, Write, Wake, ReadByte, WaitForItem, PopItem, mainVars, vars
<1>3. InOrder'
  <2>1. CASE Connect
    BY <2>1, ConnectOrder
  <2>2. CASE AcceptFails
    BY <2>2, AcceptFailsOrder
  <2>3. CASE Accept
    BY <2>3, AcceptOrder
  <2>4. CASE Push
    BY <2>4, PushOrder
  <2>5. ASSUME NEW w \in Worker, PopItem(w) PROVE InOrder'
    BY <2>5, PopOrder
  <2>6. CASE UNCHANGED <<arrived, backlog, hand, lost, queue, conns>>
    BY <2>6 DEF OrderInv, InOrder, Pipeline, Socks
  <2> QED
    BY <2>1, <2>2, <2>3, <2>4, <2>5, <2>6
       DEF Next, MainStep, Handler, Write, Wake, ReadByte, WaitForItem,
           clientVars, mainVars, vars
<1> QED
  BY <1>1, <1>2, <1>3 DEF OrderInv

\* Worker 0 has made every Conn.
MadeBy0 == \A i \in DOMAIN conns : conns[i].by = 0

\* Only worker 0 finds an Item in its queue, so only it makes a Conn.
LEMMA StepMadeBy0 == Inv /\ MadeBy0 /\ [Next]_vars => MadeBy0'
<1> SUFFICES ASSUME Inv, MadeBy0, [Next]_vars PROVE MadeBy0'
  OBVIOUS
<1>1. ASSUME NEW w \in Worker, PopItem(w) PROVE MadeBy0'
  <2> DEFINE made == [sock |-> Head(queue[w]).sock, loop |-> Head(queue[w]).loop, by |-> w]
  <2>1. w = 0
    BY <1>1 DEF Inv, PopItem, BytesMatchItems
  <2>2. conns' = Append(conns, made) /\ conns \in Seq(ConnMade)
    BY <1>1 DEF PopItem, Inv, TypeOK, ConnMade
  <2>3. \A i \in DOMAIN conns' : conns'[i] = made \/ (i \in DOMAIN conns /\ conns'[i] = conns[i])
    BY <2>2
  <2> QED
    BY <2>1, <2>3 DEF MadeBy0
<1>2. CASE UNCHANGED conns
  BY <1>2 DEF MadeBy0
<1> QED
  BY <1>1, <1>2 DEF Next, MainStep, Handler, Connect, Accept, AcceptFails,
                    Push, Write, Wake, ReadByte, WaitForItem, vars

\* At the start the line is empty.
LEMMA InitOrder == Init => OrderInv
<1> SUFFICES ASSUME Init PROVE OrderInv
  OBVIOUS
<1>1. Inv
  BY InitInv
<1>2. Socks(<<>>) = <<>>
  BY DEF Socks
<1>3. Pipeline = <<>> \o <<>> \o <<>> \o <<>> \o <<>>
  BY <1>2, ChosenIsZero DEF Init, Pipeline
<1>4. Pipeline = <<>>
  BY <1>3
<1>5. <<>> = [i \in 1..0 |-> i]
  OBVIOUS
<1> QED
  BY <1>1, <1>4, <1>5 DEF OrderInv, InOrder, NoneLostYet, Init

-----------------------------------------------------------------------------
(* Theorems *)

\* Queues, pipe and threads of the dispatch have their types; the pipe never
\* holds more than it has room for.
THEOREM TypeCorrect == Spec => []TypeOK
<1>1. Inv => TypeOK
  BY DEF Inv
<1> QED
  BY <1>1, AlwaysInv, PTL

\* However main thread and workers interleave, each Item that
\* dispatch_conn_new has queued has one byte: in the pipe, about to be
\* written, or taken by a worker that has not popped yet.
THEOREM EveryItemHasItsByte == Spec => []BytesMatchItems
<1>1. Inv => BytesMatchItems
  BY DEF Inv
<1> QED
  BY <1>1, AlwaysInv, PTL

\* wait_and_pop never puts the worker that serves the connections to sleep.
THEOREM HandlerNeverSleeps == Spec => []Worker0NeverWaits
<1>1. Inv => Worker0NeverWaits
  BY DEF Inv
<1> QED
  BY <1>1, AlwaysInv, PTL

\* thread_libev_process makes each Conn on the loop of its own thread, for
\* any number of workers racing for the bytes of the one pipe.
THEOREM ConnsOnTheirOwnLoop == Spec => []OwnLoop
<1>1. Inv => OwnLoop
  BY DEF Inv
<1> QED
  BY <1>1, AlwaysInv, PTL

\* Between the kernel's backlog and the event loop no socket is skipped,
\* doubled or overtaken: with any number of workers sockets are served in the
\* order they connected.
THEOREM ServedInOrder == Spec => []InOrder
<1>1. OrderInv => InOrder
  BY DEF OrderInv
<1> QED
  BY <1>1, InitOrder, StepOrder, PTL DEF Spec

\* For any number of workers all connections are served by one thread, the
\* choice of dispatch_conn_new being always the same: the item store is never
\* entered by two threads.
THEOREM OneThreadServes == Spec => []OneLoop
<1>1. Init => MadeBy0
  BY DEF Init, MadeBy0
<1>2. MadeBy0 => OneLoop
  BY DEF MadeBy0, OneLoop
<1> QED
  BY <1>1, <1>2, StepMadeBy0, AlwaysInv, PTL DEF Spec

=============================================================================
