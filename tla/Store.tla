-------------------------------- MODULE Store --------------------------------
(***************************************************************************)
(* The item store under the commands of its connections: get_command,      *)
(* delete_command, command_five_six_para and read_value_stored of conn.cpp *)
(* on the functions of slab.cpp.                                           *)
(*                                                                         *)
(* Every connection is served by the event loop of worker thread 0         *)
(* (dispatch_conn_new, module Dispatch), so one callback runs at a time    *)
(* and is one action.  A storage command takes two callbacks, one for the  *)
(* command line and one for the value, and callbacks of other connections  *)
(* may come in between, with the new item already allocated.               *)
(*                                                                         *)
(* Here a command line and a value each arrive whole and in a read of      *)
(* their own, and a client closes either between commands or before the    *)
(* value; reading and writing of buffers belongs to the connection.        *)
(***************************************************************************)
EXTENDS StoreMem

CONSTANTS
  Conn,           \* connections
  NoConn,
  Cmd,            \* storage commands the clients use
  ClientFlags,    \* flags a client may send, as bits of item_flag
  Exptimes,       \* exptime arguments, possibly negative
  Lengths,        \* value lengths
  CasIds,         \* cas arguments; 0 when the command has none
  MaxDelta,       \* REALTIME_MAXDELTA
  MaxTime         \* bound on the clock

StoreCmd == {"set", "add", "replace", "append", "prepend", "cas"}

ASSUME ClientAssumption ==
  /\ NoConn \notin Conn
  /\ Cmd \subseteq StoreCmd
  /\ ClientFlags \subseteq SUBSET ItemFlag
  /\ Exptimes \subseteq Int
  /\ Lengths \subseteq Nat
  /\ CasIds \subseteq Nat
  /\ MaxDelta \in Nat \ {0}
  /\ MaxTime \in Nat

VARIABLES
  store,   \* allocator, hash table, LRU lists and item headers
  held,    \* held[c]: Conn::item between command line and value
  cmd,     \* cmd[c]: Conn::cmd in the same interval
  clock,   \* current_time()
  out,     \* the last reply
  up       \* FALSE once the process has died

vars == <<store, held, cmd, clock, out, up>>

\* What a hit carries.
NoHit == [val |-> <<>>, cas |-> 0, flag |-> {}]
Hit(s, it) == [val |-> s.val[it], cas |-> s.cas[it], flag |-> s.flag[it]]

Reply(c, msg) == [conn |-> c, msg |-> msg, hit |-> NoHit]
Found(c, s, it) == [conn |-> c, msg |-> "VALUE", hit |-> Hit(s, it)]

Idle(c) == up /\ held[c] = NoItem

\* What the C library answers when a class asks for a new slab; that malloc
\* fails is explored in module Slab.
Granted == [realloc |-> TRUE, malloc |-> TRUE]

\* realtime(): 0 never expires, a long delay is an absolute time
\* (process_started is 0), a negative one becomes a long delay.
realtime(exptime, now) ==
  LET e == IF exptime < 0 THEN MaxDelta - 1 ELSE exptime
  IN  IF e = 0 THEN 0 ELSE IF e > MaxDelta THEN e ELSE e + now

\* Unlinks an item that item_get returned and gives its reference back.
Discard(s, it) == do_item_remove(do_item_unlink(s, it), it)

-----------------------------------------------------------------------------
Init ==
  /\ store = StoreInit
  /\ held = [c \in Conn |-> NoItem]
  /\ cmd = [c \in Conn |-> "none"]
  /\ clock = 0
  /\ out = Reply(NoConn, "none")
  /\ up = TRUE

\* The reference that item_get takes is never given back.
get_command(c, k) ==
  LET got == do_item_get(store, k, clock)
  IN  /\ Idle(c)
      /\ store' = got.s
      /\ out' = IF got.ret = NoItem THEN Reply(c, "END") ELSE Found(c, got.s, got.ret)
      /\ UNCHANGED <<held, cmd, clock, up>>

delete_command(c, k) ==
  LET got == do_item_get(store, k, clock)
  IN  /\ Idle(c)
      /\ store' = IF got.ret = NoItem THEN got.s ELSE Discard(got.s, got.ret)
      /\ out' = Reply(c, IF got.ret = NoItem THEN "NOT_FOUND" ELSE "DELETED")
      /\ UNCHANGED <<held, cmd, clock, up>>

\* The command line of a storage command, when there is memory for it.
\* flags overwrites the whole of item_flag.
AcceptHeader(c, command, k, flags, exptime, n, cas) ==
  LET alloc == do_item_alloc(store, n, Granted)
      it    == alloc.ret
  IN  /\ Idle(c)
      /\ it # NoItem
      /\ store' = [alloc.s EXCEPT !.cas[it]     = cas,
                                  !.key[it]     = k,
                                  !.flag[it]    = flags,
                                  !.exptime[it] = realtime(exptime, clock),
                                  !.nbytes[it]  = n]
      /\ held' = [held EXCEPT ![c] = it]
      /\ cmd' = [cmd EXCEPT ![c] = command]
      /\ out' = Reply(NoConn, "none")
      /\ UNCHANGED <<clock, up>>

\* ... and when there is not; a set then also drops the old item.
RefuseHeader(c, command, k, n) ==
  LET alloc == do_item_alloc(store, n, Granted)
      got   == do_item_get(alloc.s, k, clock)
  IN  /\ Idle(c)
      /\ alloc.ret = NoItem
      /\ store' = IF command # "set" THEN alloc.s
                  ELSE IF got.ret = NoItem THEN got.s
                  ELSE Discard(got.s, got.ret)
      /\ out' = Reply(c, IF slabs_clsid(Overhead + n) = 0 THEN "TOO_LARGE" ELSE "NO_MEMORY")
      /\ UNCHANGED <<held, cmd, clock, up>>

command_five_six_para(c, command, k, flags, exptime, n, cas) ==
  \/ AcceptHeader(c, command, k, flags, exptime, n, cas)
  \/ RefuseHeader(c, command, k, n)

\* The reply of read_value_stored to a status of store_item.
StoreReply(command, stat) ==
  IF stat = "STORED" THEN "STORED"
  ELSE IF command = "cas" THEN "EXISTS" ELSE "NOT_STORED"

read_value_stored(c, v) ==
  LET it  == held[c]
      r   == do_store_item([store EXCEPT !.val[it] = v], it, cmd[c], clock, Granted)
  IN  /\ up
      /\ it # NoItem
      /\ Len(v) = store.nbytes[it]
      /\ store' = r.s
      /\ held' = [held EXCEPT ![c] = NoItem]
      /\ cmd' = [cmd EXCEPT ![c] = "none"]
      /\ up' = (r.ret # "SEGV")
      /\ out' = IF up' THEN Reply(c, StoreReply(cmd[c], r.ret)) ELSE Reply(NoConn, "none")
      /\ UNCHANGED clock

\* The client closes before it has sent the value: conn_close leaves the
\* allocated item to nobody.
conn_close(c) ==
  /\ up
  /\ held[c] # NoItem
  /\ held' = [held EXCEPT ![c] = NoItem]
  /\ cmd' = [cmd EXCEPT ![c] = "none"]
  /\ out' = Reply(NoConn, "none")
  /\ UNCHANGED <<store, clock, up>>

Tick ==
  /\ up
  /\ clock < MaxTime
  /\ clock' = clock + 1
  /\ UNCHANGED <<store, held, cmd, out, up>>

Value == UNION {[1..n -> Atom] : n \in Lengths}

Next ==
  \/ \E c \in Conn, k \in Key : get_command(c, k)
  \/ \E c \in Conn, k \in Key : delete_command(c, k)
  \/ \E c \in Conn, command \in Cmd, k \in Key, flags \in ClientFlags,
        exptime \in Exptimes, n \in Lengths, cas \in CasIds :
       command_five_six_para(c, command, k, flags, exptime, n, cas)
  \/ \E c \in Conn, v \in Value : read_value_stored(c, v)
  \/ \E c \in Conn : conn_close(c)
  \/ Tick

Spec == Init /\ [][Next]_vars

-----------------------------------------------------------------------------
(* Properties *)

StoreState == [
  slots        : [SlabClass -> Seq(Chunk)],
  sl_curr      : [SlabClass -> Nat],
  slabs        : [SlabClass -> Nat],
  list_size    : [SlabClass -> Nat],
  requested    : [SlabClass -> Int],
  mem_malloced : Nat,
  flag         : [Chunk -> SUBSET ItemFlag],
  slabs_clsid  : [Chunk -> ListId],
  chain     : [Bucket -> Seq(Chunk)],
  hashitems : Int,
  heads     : [ListId -> Chunk \cup {NoItem}],
  tails     : [ListId -> Chunk \cup {NoItem}],
  sizes     : [ListId -> 0..(UInt - 1)],
  next      : [Chunk -> Chunk \cup {NoItem}],
  prev      : [Chunk -> Chunk \cup {NoItem}],
  key       : [Chunk -> Key \cup {NoKey}],
  val       : [Chunk -> Seq(Atom)],
  nbytes    : [Chunk -> Nat],
  exptime   : [Chunk -> Nat],
  realtime  : [Chunk -> Nat],
  cas       : [Chunk -> Nat],
  refcount  : [Chunk -> 0..(UInt - 1)],
  cas_id    : Nat]

\* The state of slab.cpp and of the connections that use it has its types:
\* counters of unsigned type stay in their range, pointers lead to chunks.
TypeOK ==
  /\ store \in StoreState
  /\ held \in [Conn -> Chunk \cup {NoItem}]
  /\ cmd \in [Conn -> StoreCmd \cup {"none"}]
  /\ clock \in Nat
  /\ out.conn \in Conn \cup {NoConn}
  /\ up \in BOOLEAN

Free(id) == Range(store.slots[id])

\* Chunks that the allocator has handed out.
InUse == {it \in Chunk : it[2] <= store.slabs[it[1]] /\ it \notin Free(it[1])}

Chained == UNION {Range(store.chain[b]) : b \in Bucket}

Held == {held[c] : c \in Conn} \ {NoItem}

\* Every chunk has one owner: a free list holds it once, or a connection
\* that awaits a value holds it, or the hash table does, or it is lost.  This
\* is what keeps do_slabs_alloc, which hands out the head of a free list
\* while other connections hold items between command line and value, from
\* giving two commands the same memory.
ChunkOwnership ==
  /\ \A id \in SlabClass :
       /\ IsInjective(store.slots[id])
       /\ store.sl_curr[id] = Len(store.slots[id])
       /\ \A it \in Free(id) : it[1] = id /\ it[2] <= store.slabs[id]
  /\ Held \cup Chained \subseteq InUse
  /\ Held \cap Chained = {}
  /\ \A c, d \in Conn : held[c] = held[d] /\ held[c] # NoItem => c = d

\* The chains hash_find walks: a chained item carries ITEM_LINKED, sits in
\* the bucket of its key, and no key is chained twice, whatever storage
\* commands of two connections and flags sent by clients came before.
ChainSound ==
  \A b \in Bucket :
    LET c == store.chain[b]
    IN  /\ \A i \in DOMAIN c :
             /\ "LINKED" \in store.flag[c[i]]
             /\ "SLABBED" \notin store.flag[c[i]]
             /\ Hash[store.key[c[i]]] = b
        /\ \A i, j \in DOMAIN c : store.key[c[i]] = store.key[c[j]] => i = j

\* The items met on the walk along next from the head of LRU list 0.
Listed ==
  LET n == Cardinality(Chunk)
      walk[i \in 0..n] ==
        IF i = 0 THEN store.heads[0]
        ELSE IF walk[i - 1] = NoItem THEN NoItem ELSE store.next[walk[i - 1]]
  IN  {walk[i] : i \in 0..n} \ {NoItem}

\* As long as no add has moved an item (do_item_update), the LRU list still
\* holds every item of the hash table, and next undoes prev on it, although
\* item_unlink_q leaves removed heads and tails on the list.
LinkedItemsListed ==
  /\ Chained \subseteq Listed
  /\ \A it \in Listed : store.prev[it] # NoItem => store.next[store.prev[it]] = it

\* The search for an item to evict in do_item_alloc starts at tails[id] with
\* id >= 1 and finds nothing: no header is ever given a class, so all items
\* are on list 0.
NeverEvicts ==
  /\ \A it \in Chunk : store.slabs_clsid[it] = 0
  /\ \A id \in SlabClass : store.tails[id] = NoItem /\ store.heads[id] = NoItem

\* No step gives memory back: do_item_remove frees when the old count was 0,
\* and then the count has wrapped around and item_free refuses.  Deleted,
\* replaced, expired and abandoned items are all lost for good, against what
\* comments say (RemovedIsFreed of StoreClaims).
NeverFreed == [][InUse \subseteq InUse']_vars

\* Only a hit leaves a reference behind: across every other command the
\* count of an item that stays in the hash table is what it was, and an item
\* that enters it has one reference, none if append or prepend built it.
RefsBalanced ==
  [][clock' = clock =>
     /\ \A it \in Chained \cap Chained' :
          store'.refcount[it] =
            IF out'.msg = "VALUE" /\ store'.cas[it] = out'.hit.cas
            THEN Incr(store.refcount[it]) ELSE store.refcount[it]
     /\ \A it \in Chained' \ Chained :
          store'.refcount[it] = IF it \in Held THEN 1 ELSE 0]_vars

=============================================================================
