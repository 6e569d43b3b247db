------------------------------ MODULE CacheProofs ------------------------------
(***************************************************************************)
(* The item store implements Cache, for every value of the constants, and  *)
(* on the way there: the chains are sound and the reference counts are     *)
(* balanced.  The inductive invariant CacheInv adds to Inv of StoreProofs  *)
(* that chains are sound, that cas ids in the table are distinct and were  *)
(* given out, that nobody counts on an item outside the table, and that a  *)
(* held item belongs to a storage command.  ItemLemmas says what each      *)
(* function of slab.cpp does to the items.                                 *)
(***************************************************************************)
EXTENDS ItemLemmas, StoreProofs, StoreRefinement

\* A cas id belongs to one chained item and was given by do_item_link.
Fresh(s) ==
  \A x, y \in InChain(s) :
    s.cas[x] \in 1..s.cas_id /\ (s.cas[x] = s.cas[y] => x = y)

\* There is no reference to an item that is not in use or awaits its value.
Unreferenced ==
  \A x \in Chunk : x \notin InUse \/ x \in Held => store.refcount[x] = 0

HeldCmds == \A c \in Conn : held[c] # NoItem => cmd[c] \in StoreCmd

CacheInv == Inv /\ ChainOK(store) /\ Fresh(store) /\ Unreferenced /\ HeldCmds

-----------------------------------------------------------------------------
(* Invariance *)

\* The invariant holds at the start.
LEMMA InitCacheInv == Init => CacheInv
<1> SUFFICES ASSUME Init PROVE CacheInv
  OBVIOUS
<1>1. Inv
  BY InitInv
<1>2. /\ store.chain = [b \in Bucket |-> <<>>] /\ store.refcount = [it \in Chunk |-> 0]
      /\ held = [c \in Conn |-> NoItem]
  BY DEF Init, StoreInit
<1>3. InChain(store) = {}
  BY <1>2 DEF InChain, Range
<1>4. ChainOK(store) /\ Fresh(store)
  BY <1>2, <1>3 DEF ChainOK, Fresh
<1>5. Unreferenced /\ HeldCmds
  BY <1>2 DEF Unreferenced, HeldCmds
<1> QED
  BY <1>1, <1>4, <1>5 DEF CacheInv

\* What the invariant gives to every step.
LEMMA CacheInvFacts ==
  ASSUME CacheInv
  PROVE  /\ Inv /\ Sound(store) /\ ChainOK(store) /\ Fresh(store)
         /\ store \in StoreState /\ Unlisted(store) /\ store.cas_id \in Nat
         /\ held \in [Conn -> Chunk \cup {NoItem}] /\ clock \in Nat
         /\ InChain(store) \subseteq UsedIn(store) /\ UsedIn(store) \subseteq Chunk
         /\ Held \subseteq UsedIn(store) /\ Held \cap InChain(store) = {}
<1>1. Inv /\ Sound(store) /\ ChainOK(store) /\ Fresh(store)
  BY DEF CacheInv, Inv
<1>2. /\ store \in StoreState /\ Unlisted(store)
      /\ held \in [Conn -> Chunk \cup {NoItem}] /\ clock \in Nat
  BY <1>1, InvFacts
<1>3. store.cas_id \in Nat
  BY <1>2 DEF StoreState
<1>4. /\ InChain(store) \subseteq UsedIn(store) /\ UsedIn(store) \subseteq Chunk
      /\ Held \subseteq UsedIn(store) /\ Held \cap InChain(store) = {}
  BY <1>1, Views DEF Inv, Owned, InUse
<1> QED
  BY <1>1, <1>2, <1>3, <1>4

\* What a connection holds.
LEMMA HeldItem ==
  ASSUME CacheInv, NEW c \in Conn, held[c] # NoItem
  PROVE  /\ held[c] \in Held /\ held[c] \in UsedIn(store) /\ held[c] \in Chunk
         /\ held[c] \notin InChain(store)
         /\ store.key[held[c]] \in Key /\ cmd[c] \in StoreCmd
         /\ store.refcount[held[c]] = 0
<1>1. held[c] \in Held
  BY DEF Held
<1> QED
  BY <1>1, CacheInvFacts DEF CacheInv, Inv, HeldKeys, HeldCmds, Unreferenced

\* The cas ids stay distinct when the table gains no item.
LEMMA FreshLess ==
  ASSUME NEW s, NEW t, Fresh(s), InChain(t) \subseteq InChain(s), t.cas_id = s.cas_id,
         \A x \in InChain(t) : t.cas[x] = s.cas[x]
  PROVE  Fresh(t)
  BY DEF Fresh

\* An item that is watched and stays in the table is the same.
LEMMA WatchedItem ==
  ASSUME NEW s, NEW t, NEW X, Intact(s, t, X), NEW x \in X, x \notin InChain(s) \/ x \in InChain(t)
  PROVE  SameEntry(s, t, x) /\ (x \notin InChain(s) => t.flag[x] = s.flag[x])
  BY DEF Intact

\* do_item_link gives a cas id that no chained item has.
LEMMA FreshPuts ==
  ASSUME NEW s, NEW t, Fresh(s), s.cas_id \in Nat, NEW it, NEW X, Puts(s, t, it, X),
         InChain(s) \subseteq X
  PROVE  Fresh(t)
<1>1. \A x \in InChain(t) : x # it => x \in InChain(s) /\ t.cas[x] = s.cas[x]
  <2> SUFFICES ASSUME NEW x \in InChain(t), x # it
               PROVE  x \in InChain(s) /\ t.cas[x] = s.cas[x]
    OBVIOUS
  <2>1. x \in InChain(s) /\ x \in X \ {it}
    BY DEF Puts, Leaves
  <2> QED
    BY <2>1, WatchedItem DEF Puts, Moves, SameEntry
<1>2. t.cas_id = s.cas_id + 1 /\ t.cas[it] = s.cas_id + 1
  BY DEF Puts
<1>3. \A x \in InChain(t) : t.cas[x] \in 1..t.cas_id /\ (x # it => t.cas[x] # t.cas[it])
  BY <1>1, <1>2 DEF Fresh
<1> QED
  BY <1>1, <1>3 DEF Fresh

\* A step of the store keeps the invariant if it is an effect on the items
\* and the cas ids stay distinct.
LEMMA EffectStep ==
  ASSUME CacheInv, Inv', NEW X, Moves(store, store', X), Fresh(store'),
         UsedIn(store) \subseteq UsedIn(store'),
         \A c \in Conn : held'[c] \in {NoItem, held[c]},
         \A c \in Conn : held'[c] # NoItem => cmd'[c] = cmd[c]
  PROVE  CacheInv'
<1>1. Held' \subseteq Held
  BY DEF Held
<1>2. HeldCmds'
  BY DEF CacheInv, HeldCmds
<1>3. /\ InChain(store') \subseteq UsedIn(store')
      /\ Held' \cap InChain(store') = {}
  BY Views DEF Inv, Owned
<1>4. Unreferenced'
  <2> SUFFICES ASSUME NEW x \in Chunk, x \notin UsedIn(store') \/ x \in Held'
               PROVE  store'.refcount[x] = 0
    BY Views DEF Unreferenced
  <2>1. x \notin InChain(store) \cup InChain(store')
    BY <1>1, <1>3, CacheInvFacts
  <2>2. store.refcount[x] = 0
    BY <1>1, Views DEF CacheInv, Unreferenced
  <2> QED
    BY <2>1, <2>2 DEF Moves
<1> QED
  BY <1>2, <1>4 DEF CacheInv, Moves

-----------------------------------------------------------------------------
(* The effect of each command on the items *)

\* get_command pins the item of the key, or clears the key.
LEMMA GetEffect ==
  ASSUME CacheInv, NEW c \in Conn, NEW k \in Key, get_command(c, k)
  PROVE  LET it == hash_find(store, k)
         IN  IF Live(store, k, clock)
             THEN /\ it \in InChain(store) /\ it \in Chunk /\ store.key[it] = k
                  /\ Touched(store, store', it, Incr(store.refcount[it]))
                  /\ Stays(store, store', Chunk \ {it})
                  /\ out' = Found(c, store', it)
             ELSE /\ Clears(store, store', k, Chunk) /\ SameData(store, store')
                  /\ out' = Reply(c, "END")
<1> DEFINE got == do_item_get(store, k, clock)
<1>1. /\ store' = got.s
      /\ out' = IF got.ret = NoItem THEN Reply(c, "END") ELSE Found(c, got.s, got.ret)
  BY DEF get_command
<1>2. store \in StoreState /\ Unlisted(store) /\ ChainOK(store) /\ clock \in Nat
  BY CacheInvFacts
<1>3. CASE Live(store, k, clock)
  <2> DEFINE it == hash_find(store, k)
  <2>1. /\ it \in InChain(store) /\ it \in Chunk /\ store.key[it] = k /\ got.ret = it
        /\ Touched(store, got.s, it, Incr(store.refcount[it]))
        /\ Stays(store, got.s, Chunk \ {it})
    BY <1>2, <1>3, GetHit
  <2> HIDE DEF got, it
  <2>2. out' = Found(c, store', it)
    BY <1>1, <2>1, NoItemNotChunk
  <2> QED
    BY <1>1, <1>3, <2>1, <2>2 DEF it
<1>4. CASE ~Live(store, k, clock)
  BY <1>1, <1>2, <1>4, GetMiss
<1> QED
  BY <1>3, <1>4

\* delete_command clears the key, whether it was there or not.
LEMMA DeleteEffect ==
  ASSUME CacheInv, NEW c \in Conn, NEW k \in Key, delete_command(c, k)
  PROVE  /\ Clears(store, store', k, Chunk) /\ SameData(store, store')
         /\ out' = Reply(c, IF Live(store, k, clock) THEN "DELETED" ELSE "NOT_FOUND")
<1>1. store \in StoreState /\ Unlisted(store) /\ ChainOK(store) /\ clock \in Nat
  BY CacheInvFacts
<1> QED
  BY <1>1, TakenOut DEF delete_command

\* Two calls that leave the data of the items as they are.
LEMMA SameDataTrans ==
  ASSUME NEW s, NEW t, NEW u, SameData(s, t), SameData(t, u)
  PROVE  SameData(s, u)
  BY DEF SameData

\* A command line that is refused leaves the table, or clears the key.
LEMMA RefuseEffect ==
  ASSUME CacheInv, NEW c \in Conn, NEW command, NEW k \in Key, NEW n \in Nat,
         RefuseHeader(c, command, k, n)
  PROVE  /\ \/ Stays(store, store', UsedIn(store))
            \/ Clears(store, store', k, UsedIn(store))
         /\ SameData(store, store')
         /\ out' \in {Reply(c, "TOO_LARGE"), Reply(c, "NO_MEMORY")}
<1> DEFINE a == do_item_alloc(store, n, Granted).s
           got == do_item_get(a, k, clock)
           t == IF got.ret = NoItem THEN got.s ELSE Discard(got.s, got.ret)
           U == UsedIn(store)
<1>1. store' = IF command # "set" THEN a ELSE t
  BY DEF RefuseHeader
<1>2. out' \in {Reply(c, "TOO_LARGE"), Reply(c, "NO_MEMORY")}
  BY DEF RefuseHeader
<1>3. Stays(store, a, U) /\ SameData(store, a) /\ a \in StoreState /\ Unlisted(a)
  BY CacheInvFacts, AllocStays, AllocItems, DoItemAllocAdvances DEF Advances, Sound
<1> HIDE DEF a
<1>4. CASE command # "set"
  BY <1>1, <1>2, <1>3, <1>4
<1>5. CASE command = "set"
  <2>1. Clears(a, t, k, Chunk) /\ SameData(a, t)
    BY <1>3, CacheInvFacts, TakenOut DEF Stays, Moves
  <2> HIDE DEF t
  <2>2. U \subseteq Chunk
    BY CacheInvFacts
  <2> HIDE DEF U
  <2>3. Clears(a, t, k, U)
    BY <2>1, <2>2, MovesLess DEF Clears
  <2>4. Clears(store, t, k, U) /\ SameData(store, t)
    BY <1>3, <2>1, <2>3, StaysClears, SameDataTrans
  <2> QED
    BY <1>1, <1>2, <1>5, <2>4 DEF U
<1> QED
  BY <1>4, <1>5

\* A command line that is accepted writes to a chunk that was not in use.
LEMMA AcceptEffect ==
  ASSUME CacheInv, NEW c \in Conn, NEW command \in StoreCmd, NEW k \in Key,
         NEW flags \in SUBSET ItemFlag, NEW exptime \in Int, NEW n \in Nat, NEW cas \in Nat,
         AcceptHeader(c, command, k, flags, exptime, n, cas)
  PROVE  \E it \in Chunk \ UsedIn(store) :
           /\ Stays(store, store', UsedIn(store))
           /\ store'.refcount = store.refcount
           /\ held' = [held EXCEPT ![c] = it]
           /\ cmd' = [cmd EXCEPT ![c] = command]
           /\ \A x \in InChain(store) : store'.cas[x] = store.cas[x]
<1> DEFINE alloc == do_item_alloc(store, n, Granted)
           a == alloc.s
           it == alloc.ret
           e == realtime(exptime, clock)
           t == WithHeader(a, it, cas, k, flags, e, n)
<1>1. it # NoItem /\ store' = t /\ held' = [held EXCEPT ![c] = it] /\ cmd' = [cmd EXCEPT ![c] = command]
  BY DEF AcceptHeader, WithHeader
<1>2. /\ Stays(store, a, UsedIn(store)) /\ a.refcount = store.refcount /\ SameData(store, a)
      /\ a \in StoreState /\ it \in Chunk \ UsedIn(store)
  <2>1. Advances(store, a, {}) /\ (it = NoItem \/ it \in UsedIn(a) \ UsedIn(store))
    BY CacheInvFacts, DoItemAllocAdvances
  <2>2. Stays(store, a, UsedIn(store)) /\ a.refcount = store.refcount /\ SameData(store, a)
    BY CacheInvFacts, AllocStays, AllocItems
  <2>3. a \in StoreState
    BY <2>1 DEF Advances, Sound
  <2>4. it \in Chunk \ UsedIn(store)
    BY <1>1, <2>1 DEF UsedIn
  <2> QED
    BY <2>2, <2>3, <2>4
<1> HIDE DEF alloc, a, it, e
<1>3. /\ ChainOK(a) /\ InChain(a) = InChain(store) /\ it \notin InChain(a)
  BY <1>2, CacheInvFacts DEF Stays, Moves
<1>4. /\ t.chain = a.chain /\ t.refcount = a.refcount /\ t.cas_id = a.cas_id /\ t.val = a.val
      /\ t.key = [a.key EXCEPT ![it] = k] /\ t.cas = [a.cas EXCEPT ![it] = cas]
      /\ t.exptime = [a.exptime EXCEPT ![it] = e] /\ t.flag = [a.flag EXCEPT ![it] = flags]
  BY <1>2 DEF WithHeader, StoreState
<1> HIDE DEF t
<1>5. \A x \in Chunk : x # it => /\ t.key[x] = a.key[x] /\ t.val[x] = a.val[x]
                                 /\ t.cas[x] = a.cas[x] /\ t.exptime[x] = a.exptime[x]
                                 /\ t.flag[x] = a.flag[x]
  <2>1. /\ a.key \in [Chunk -> Key \cup {NoKey}] /\ a.flag \in [Chunk -> SUBSET ItemFlag]
        /\ a.exptime \in [Chunk -> Nat] /\ a.cas \in [Chunk -> Nat]
    BY <1>2 DEF StoreState
  <2> QED
    BY <1>4, <2>1
<1>6. Stays(a, t, Chunk \ {it})
  BY <1>2, <1>3, <1>4, <1>5, WriteStays
<1>7. UsedIn(store) \subseteq Chunk \ {it} /\ InChain(store) \subseteq Chunk \ {it}
  BY <1>2, CacheInvFacts
<1>8. Stays(a, t, UsedIn(store))
  BY <1>6, <1>7, MovesLess DEF Stays
<1>9. Stays(store, t, UsedIn(store))
  BY <1>2, <1>8, StaysStays
<1>10. \A x \in InChain(store) : t.cas[x] = store.cas[x]
  BY <1>2, <1>5, <1>7 DEF SameData
<1> QED
  BY <1>1, <1>2, <1>4, <1>9, <1>10

\* hash_find and the test for expiry read chains, keys and times only.
LEMMA SameLive ==
  ASSUME NEW s, NEW t, t.key = s.key, t.chain = s.chain, t.exptime = s.exptime, NEW k, NEW now
  PROVE  hash_find(t, k) = hash_find(s, k) /\ (Live(t, k, now) <=> Live(s, k, now))
<1>1. hash_find(t, k) = hash_find(s, k)
  BY DEF hash_find, KeyAt
<1> QED
  BY <1>1 DEF Live, Expired

\* The value arrives in the item that the connection holds.
LEMMA ValueWritten ==
  ASSUME NEW s, Sound(s), ChainOK(s), NEW it \in UsedIn(s), it \notin InChain(s), NEW v \in Seq(Atom)
  PROVE  LET t == [s EXCEPT !.val[it] = v]
         IN  /\ Sound(t) /\ UsedIn(t) = UsedIn(s)
             /\ Stays(s, t, Chunk \ {it})
             /\ t.val = [s.val EXCEPT ![it] = v]
             /\ t.key = s.key /\ t.flag = s.flag /\ t.exptime = s.exptime /\ t.cas = s.cas
             /\ t.refcount = s.refcount /\ t.chain = s.chain
<1> DEFINE t == [s EXCEPT !.val[it] = v]
<1>1. it \in Chunk /\ s \in StoreState
  BY DEF UsedIn, Sound
<1>2. t \in StoreState
  BY <1>1 DEF StoreState
<1>3. /\ t.val = [s.val EXCEPT ![it] = v]
      /\ t.key = s.key /\ t.flag = s.flag /\ t.exptime = s.exptime /\ t.cas = s.cas
      /\ t.refcount = s.refcount /\ t.chain = s.chain /\ t.cas_id = s.cas_id
      /\ t.slots = s.slots /\ t.sl_curr = s.sl_curr /\ t.slabs = s.slabs
      /\ t.slabs_clsid = s.slabs_clsid /\ t.heads = s.heads /\ t.tails = s.tails
  BY <1>1 DEF StoreState
<1> HIDE DEF t
<1>4. \A x \in Chunk : x # it => t.val[x] = s.val[x]
  BY <1>1, <1>3 DEF StoreState
<1>5. Stays(s, t, Chunk \ {it})
  BY <1>1, <1>3, <1>4, WriteStays
<1>6. Sound(t) /\ UsedIn(t) = UsedIn(s)
  BY <1>2, <1>3 DEF Sound, Unlisted, FreeListsSound, UsedIn
<1> QED
  BY <1>3, <1>5, <1>6 DEF t

\* Item x has entered the table with these contents.
Enters(s, t, x, k, v, e, n, X) ==
  /\ Puts(s, t, x, X)
  /\ t.key[x] = k
  /\ t.val[x] = v
  /\ t.exptime[x] = e
  /\ t.refcount[x] = n

\* What read_value_stored does to the table when command stores value v,
\* which arrived for item it; W are the items that others may see.
ValueStored(it, command, v, W) ==
  /\ MayStore(store, it, command, clock)
  /\ ~Concats(command)
  /\ IF Reserved(store.flag[it]) THEN Clears(store, store', store.key[it], W)
     ELSE Enters(store, store', it, store.key[it], v, store.exptime[it], 1, W)

ValueJoined(it, command, v, W) ==
  /\ MayStore(store, it, command, clock)
  /\ Concats(command)
  /\ LET old == hash_find(store, store.key[it])
         val == IF command = "append" THEN store.val[old] \o v ELSE v \o store.val[old]
     IN  \E new \in Chunk \ UsedIn(store) :
           Enters(store, store', new, store.key[it], val, store.exptime[old], 0, W)

ValueRejected(it, command, W) ==
  /\ ~MayStore(store, it, command, clock) \/ Concats(command)
  /\ command = "cas" => Live(store, store.key[it], clock)
  /\ Looked(store, store', store.key[it], clock, W)

ValueKills(it, command, W) ==
  /\ command = "cas"
  /\ ~Live(store, store.key[it], clock)
  /\ Clears(store, store', store.key[it], W)

\* The four ways a storage command ends.
LEMMA ValueEffect ==
  ASSUME CacheInv, NEW c \in Conn, NEW v \in Seq(Atom), read_value_stored(c, v)
  PROVE  LET it == held[c]
             W  == UsedIn(store) \ {it}
         IN  \/ ValueStored(it, cmd[c], v, W) /\ up' = TRUE /\ out' = Reply(c, "STORED")
             \/ ValueJoined(it, cmd[c], v, W) /\ up' = TRUE /\ out' = Reply(c, "STORED")
             \/ /\ ValueRejected(it, cmd[c], W) /\ up' = TRUE
                /\ out' = Reply(c, IF cmd[c] = "cas" THEN "EXISTS" ELSE "NOT_STORED")
             \/ ValueKills(it, cmd[c], W) /\ up' = FALSE /\ out' = Reply(NoConn, "none")
<1> DEFINE it == held[c]
           s == [store EXCEPT !.val[it] = v]
           r == do_store_item(s, it, cmd[c], clock, Granted)
           k == store.key[it]
           U == UsedIn(store)
           W == U \ {it}
<1>1. /\ it # NoItem /\ store' = r.s
      /\ up' = (r.ret # "SEGV")
      /\ out' = IF up' THEN Reply(c, StoreReply(cmd[c], r.ret)) ELSE Reply(NoConn, "none")
  BY DEF read_value_stored
<1>2. /\ it \in U /\ it \in Chunk /\ it \notin InChain(store) /\ k \in Key /\ cmd[c] \in StoreCmd
      /\ store.refcount[it] = 0
  BY <1>1, HeldItem
<1>3. /\ Sound(store) /\ ChainOK(store) /\ store \in StoreState /\ clock \in Nat
      /\ InChain(store) \subseteq U /\ U \subseteq Chunk
  BY CacheInvFacts
<1>4. /\ Sound(s) /\ UsedIn(s) = U
      /\ Stays(store, s, Chunk \ {it})
      /\ s.val = [store.val EXCEPT ![it] = v]
      /\ s.key = store.key /\ s.flag = store.flag /\ s.exptime = store.exptime /\ s.cas = store.cas
      /\ s.refcount = store.refcount /\ s.chain = store.chain
  BY <1>2, <1>3, ValueWritten
<1>5. s.cas_id = store.cas_id
  BY <1>4 DEF Stays
<1> HIDE DEF s, U
<1>6. ChainOK(s) /\ InChain(s) = InChain(store)
  BY <1>4 DEF Stays, Moves
<1>7. \/ Rejects(s, r, it, cmd[c], clock) \/ Dies(s, r, it, cmd[c], clock)
      \/ Stores(s, r, it, cmd[c], clock) \/ Joins(s, r, it, cmd[c], clock)
  <2> HIDE DEF it
  <2> QED
    BY <1>2, <1>3, <1>4, <1>6, StoreEffect
<1> HIDE DEF r, it
<1>8. hash_find(s, k) = hash_find(store, k) /\ (Live(s, k, clock) <=> Live(store, k, clock))
  BY <1>4, SameLive
<1>9. MayStore(s, it, cmd[c], clock) <=> MayStore(store, it, cmd[c], clock)
  BY <1>4, <1>8 DEF MayStore, k
<1>10. W \subseteq U /\ W \subseteq Chunk \ {it} /\ InChain(store) \subseteq W
  BY <1>2, <1>3
<1>11. Stays(store, s, W)
  BY <1>4, <1>10, MovesLess DEF Stays
<1>12. ASSUME Clears(s, r.s, k, U) \/ Clears(s, r.s, k, W) PROVE Clears(store, store', k, W)
  <2>1. Clears(s, r.s, k, W)
    BY <1>10, <1>12, MovesLess DEF Clears
  <2> HIDE DEF W
  <2> QED
    BY <1>1, <1>11, <2>1, StaysClears
<1>13. ASSUME NEW x, Puts(s, r.s, x, U) \/ Puts(s, r.s, x, W) PROVE Puts(store, store', x, W)
  <2>1. Puts(s, r.s, x, W)
    BY <1>10, <1>13, PutsLess
  <2> HIDE DEF W
  <2> QED
    BY <1>1, <1>11, <2>1, StaysPuts
<1>14. CASE Rejects(s, r, it, cmd[c], clock)
  <2>1. ValueRejected(it, cmd[c], W)
    <3>1. Looked(s, r.s, k, clock, U)
      BY <1>4, <1>14 DEF Rejects, k
    <3>2. CASE Live(s, k, clock)
      <4>1. Stays(s, r.s, W)
        BY <1>10, <3>1, <3>2, MovesLess DEF Looked, Stays
      <4> HIDE DEF W
      <4>2. Stays(store, store', W)
        BY <1>1, <1>11, <4>1, StaysStays
      <4> QED
        BY <1>4, <1>8, <1>9, <1>14, <3>2, <4>2 DEF ValueRejected, Rejects, Looked, k
    <3>3. CASE ~Live(s, k, clock)
      <4>1. Clears(store, store', k, W)
        BY <1>12, <3>1, <3>3 DEF Looked
      <4> QED
        BY <1>4, <1>8, <1>9, <1>14, <3>3, <4>1 DEF ValueRejected, Rejects, Looked, k
    <3> QED
      BY <3>2, <3>3
  <2>2. r.ret \in {"NOT_STORED", "EXISTS"}
    BY <1>14 DEF Rejects
  <2>3. up' = TRUE
    BY <1>1, <2>2
  <2>4. StoreReply(cmd[c], r.ret) = IF cmd[c] = "cas" THEN "EXISTS" ELSE "NOT_STORED"
    BY <2>2 DEF StoreReply
  <2> QED
    BY <1>1, <2>1, <2>3, <2>4 DEF it, U
<1>15. CASE Dies(s, r, it, cmd[c], clock)
  <2>1. r.ret = "SEGV" /\ Clears(s, r.s, k, U)
    BY <1>4, <1>15 DEF Dies, k
  <2>2. ValueKills(it, cmd[c], W)
    BY <1>4, <1>8, <1>12, <1>15, <2>1 DEF Dies, ValueKills, k
  <2>3. up' = FALSE /\ out' = Reply(NoConn, "none")
    BY <1>1, <2>1
  <2> QED
    BY <2>2, <2>3 DEF it, U
<1>16. ASSUME r.ret = "STORED" PROVE up' = TRUE /\ out' = Reply(c, "STORED")
  BY <1>1, <1>16 DEF StoreReply
<1>17. CASE Stores(s, r, it, cmd[c], clock)
  <2>1. Outcome(s, r.s, it, W) /\ r.ret = "STORED"
    BY <1>4, <1>17 DEF Stores
  <2>2. CASE Reserved(store.flag[it])
    <3>1. Clears(store, store', k, W)
      BY <1>4, <1>12, <2>1, <2>2 DEF Outcome, k
    <3>2. ValueStored(it, cmd[c], v, W)
      BY <1>9, <1>17, <2>2, <3>1 DEF Stores, ValueStored, k
    <3> QED
      BY <1>16, <2>1, <3>2 DEF it, U
  <2>3. CASE ~Reserved(store.flag[it])
    <3>1. /\ Puts(s, r.s, it, W) /\ r.s.key[it] = s.key[it] /\ r.s.val[it] = s.val[it]
          /\ r.s.exptime[it] = s.exptime[it] /\ r.s.refcount[it] = Incr(s.refcount[it])
      BY <1>4, <2>1, <2>3 DEF Outcome
    <3>2. s.val[it] = v
      BY <1>2, <1>3, <1>4 DEF StoreState
    <3>3. Incr(s.refcount[it]) = 1
      BY <1>2, <1>4, FirstReference
    <3>4. Puts(store, store', it, W)
      BY <1>13, <3>1
    <3>5. Enters(store, store', it, k, v, store.exptime[it], 1, W)
      BY <1>1, <1>4, <3>1, <3>2, <3>3, <3>4 DEF Enters, k
    <3>6. ValueStored(it, cmd[c], v, W)
      BY <1>9, <1>17, <2>3, <3>5 DEF Stores, ValueStored, k
    <3> QED
      BY <1>16, <2>1, <3>6 DEF it, U
  <2> QED
    BY <2>2, <2>3
<1>18. CASE Joins(s, r, it, cmd[c], clock)
  <2> DEFINE old == hash_find(store, k)
             val == IF cmd[c] = "append" THEN store.val[old] \o v ELSE v \o store.val[old]
  <2>1. PICK new \in Chunk \ U :
          /\ Puts(s, r.s, new, U)
          /\ r.s.key[new] = k /\ r.s.val[new] = Joined(s, old, it, cmd[c])
          /\ r.s.exptime[new] = s.exptime[old]
          /\ r.s.refcount[new] = s.refcount[new]
    BY <1>4, <1>8, <1>18 DEF Joins, k
  <2>2. Joined(s, old, it, cmd[c]) = val
    <3>1. Live(store, k, clock)
      BY <1>9, <1>18 DEF Joins, MayStore, Concats, k
    <3>2. old \in Chunk /\ old # it
      BY <1>2, <1>3, <3>1, HashFindType, InChainType DEF Live
    <3> HIDE DEF old
    <3> QED
      BY <1>2, <1>3, <1>4, <3>2 DEF Joined, StoreState
  <2>3. store.refcount[new] = 0
    BY <2>1, Views DEF CacheInv, Unreferenced, U
  <2>4. Puts(store, store', new, W)
    BY <1>13, <2>1
  <2>5. Enters(store, store', new, k, val, store.exptime[old], 0, W)
    <3> HIDE DEF val, old
    <3> QED
      BY <1>1, <1>4, <2>1, <2>2, <2>3, <2>4 DEF Enters
  <2>6. ValueJoined(it, cmd[c], v, W)
    BY <1>9, <1>18, <2>1, <2>5 DEF Joins, ValueJoined, k, U
  <2>7. r.ret = "STORED"
    BY <1>18 DEF Joins
  <2> QED
    BY <1>16, <2>6, <2>7 DEF it, U
<1> QED
  BY <1>7, <1>14, <1>15, <1>17, <1>18

-----------------------------------------------------------------------------
(* Every command keeps the invariant and the balance of references *)

\* What RefsBalanced says of a step.
RefsKept ==
  clock' = clock =>
     /\ \A it \in Chained \cap Chained' :
          store'.refcount[it] =
            IF out'.msg = "VALUE" /\ store'.cas[it] = out'.hit.cas
            THEN Incr(store.refcount[it]) ELSE store.refcount[it]
     /\ \A it \in Chained' \ Chained :
          store'.refcount[it] = IF it \in Held THEN 1 ELSE 0

\* A step after which the table holds some of the items it held.
LEMMA LessStep ==
  ASSUME CacheInv, Inv', InUse \subseteq InUse', NEW W, Moves(store, store', W),
         InChain(store) \subseteq W, InChain(store') \subseteq InChain(store),
         store'.cas_id = store.cas_id, out'.msg # "VALUE",
         \A c \in Conn : held'[c] \in {NoItem, held[c]},
         \A c \in Conn : held'[c] # NoItem => cmd'[c] = cmd[c]
  PROVE  CacheInv' /\ RefsKept
<1>1. \A x \in InChain(store') : SameEntry(store, store', x)
  BY WatchedItem DEF Moves
<1>2. Fresh(store')
  BY <1>1, CacheInvFacts, FreshLess DEF SameEntry
<1>3. CacheInv'
  BY <1>2, EffectStep, Views
<1>4. RefsKept
  BY <1>1, Views DEF RefsKept, SameEntry
<1> QED
  BY <1>3, <1>4

\* A step after which the table holds one item more.
LEMMA EnterStep ==
  ASSUME CacheInv, Inv', InUse \subseteq InUse', NEW W, NEW x, NEW k, NEW v, NEW e, NEW n,
         Enters(store, store', x, k, v, e, n, W), n = IF x \in Held THEN 1 ELSE 0,
         InChain(store) \subseteq W, out'.msg # "VALUE",
         \A c \in Conn : held'[c] \in {NoItem, held[c]},
         \A c \in Conn : held'[c] # NoItem => cmd'[c] = cmd[c]
  PROVE  CacheInv' /\ RefsKept
<1>1. Puts(store, store', x, W) /\ store'.refcount[x] = n
  BY DEF Enters
<1>2. Fresh(store')
  BY <1>1, CacheInvFacts, FreshPuts
<1>3. CacheInv'
  BY <1>1, <1>2, EffectStep, Views DEF Puts
<1>4. x \notin InChain(store) /\ InChain(store') \subseteq InChain(store) \cup {x}
  BY <1>1 DEF Puts, Leaves
<1>5. \A y \in InChain(store') : y # x => SameEntry(store, store', y)
  <2> SUFFICES ASSUME NEW y \in InChain(store'), y # x PROVE SameEntry(store, store', y)
    OBVIOUS
  <2>1. y \in W \ {x}
    BY <1>4
  <2> QED
    BY <1>1, <2>1, WatchedItem DEF Puts, Moves
<1>6. RefsKept
  BY <1>1, <1>4, <1>5, Views DEF RefsKept, SameEntry
<1> QED
  BY <1>3, <1>6

\* get_command: a hit pins one item, which its cas id tells from all others.
LEMMA GetCacheStep ==
  ASSUME CacheInv, NEW c \in Conn, NEW k \in Key, get_command(c, k)
  PROVE  CacheInv' /\ RefsKept
<1> DEFINE it == hash_find(store, k)
<1>1. Inv' /\ InUse \subseteq InUse'
  BY GetStep DEF CacheInv
<1>2. \A d \in Conn : held'[d] = held[d] /\ cmd'[d] = cmd[d]
  BY DEF get_command
<1>3. CASE Live(store, k, clock)
  <2>1. /\ it \in InChain(store) /\ it \in Chunk
        /\ Touched(store, store', it, Incr(store.refcount[it]))
        /\ Stays(store, store', Chunk \ {it})
        /\ out' = Found(c, store', it)
    BY <1>3, GetEffect
  <2> HIDE DEF it
  <2>2. InChain(store') = InChain(store) /\ store'.cas = store.cas /\ store'.cas_id = store.cas_id
    BY <2>1 DEF Stays, Touched, SameData
  <2>3. Fresh(store')
    BY <2>2, CacheInvFacts, FreshLess
  <2>4. CacheInv'
    BY <1>1, <1>2, <2>1, <2>3, EffectStep, Views DEF Stays
  <2>5. out'.msg = "VALUE" /\ out'.hit.cas = store'.cas[it]
    BY <2>1 DEF Found, Hit
  <2>6. \A x \in InChain(store) : store'.cas[x] = out'.hit.cas <=> x = it
    BY <2>1, <2>2, <2>3, <2>5 DEF Fresh
  <2>7. \A x \in Chunk : store'.refcount[x] = IF x = it THEN Incr(store.refcount[it]) ELSE store.refcount[x]
    BY <2>1, CacheInvFacts DEF Touched, StoreState
  <2>8. RefsKept
    BY <2>2, <2>5, <2>6, <2>7, Views, CacheInvFacts DEF RefsKept
  <2> QED
    BY <2>4, <2>8
<1>4. CASE ~Live(store, k, clock)
  <2>1. Clears(store, store', k, Chunk) /\ out' = Reply(c, "END")
    BY <1>4, GetEffect
  <2>2. out'.msg # "VALUE"
    BY <2>1 DEF Reply
  <2> QED
    BY <1>1, <1>2, <2>1, <2>2, CacheInvFacts, LessStep DEF Clears, Leaves
<1> QED
  BY <1>3, <1>4

\* delete_command.
LEMMA DeleteCacheStep ==
  ASSUME CacheInv, NEW c \in Conn, NEW k \in Key, delete_command(c, k)
  PROVE  CacheInv' /\ RefsKept
<1>1. Inv' /\ InUse \subseteq InUse'
  BY DeleteStep DEF CacheInv
<1>2. \A d \in Conn : held'[d] = held[d] /\ cmd'[d] = cmd[d]
  BY DEF delete_command
<1>3. Clears(store, store', k, Chunk) /\ out'.msg # "VALUE"
  BY DeleteEffect DEF Reply
<1> QED
  BY <1>1, <1>2, <1>3, CacheInvFacts, LessStep DEF Clears, Leaves

\* A refused command line.
LEMMA RefuseCacheStep ==
  ASSUME CacheInv, NEW c \in Conn, NEW command, NEW k \in Key, NEW n \in Nat,
         RefuseHeader(c, command, k, n)
  PROVE  CacheInv' /\ RefsKept
<1>1. Inv' /\ InUse \subseteq InUse'
  BY RefuseStep DEF CacheInv
<1>2. \A d \in Conn : held'[d] = held[d] /\ cmd'[d] = cmd[d]
  BY DEF RefuseHeader
<1>3. /\ Moves(store, store', UsedIn(store)) /\ InChain(store') \subseteq InChain(store)
      /\ store'.cas_id = store.cas_id
  BY RefuseEffect DEF Stays, Clears, Leaves
<1>4. out'.msg # "VALUE"
  BY RefuseEffect DEF Reply
<1> QED
  BY <1>1, <1>2, <1>3, <1>4, CacheInvFacts, LessStep

\* An accepted command line: the new item is held, and nobody counts on it.
LEMMA AcceptCacheStep ==
  ASSUME CacheInv, NEW c \in Conn, NEW command \in StoreCmd, NEW k \in Key,
         NEW flags \in SUBSET ItemFlag, NEW exptime \in Int, NEW n \in Nat, NEW cas \in Nat,
         AcceptHeader(c, command, k, flags, exptime, n, cas)
  PROVE  CacheInv' /\ RefsKept
<1>1. Inv' /\ InUse \subseteq InUse'
  BY AcceptStep DEF CacheInv
<1>2. PICK it \in Chunk \ UsedIn(store) :
        /\ Stays(store, store', UsedIn(store))
        /\ store'.refcount = store.refcount
        /\ held' = [held EXCEPT ![c] = it]
        /\ cmd' = [cmd EXCEPT ![c] = command]
        /\ \A x \in InChain(store) : store'.cas[x] = store.cas[x]
  BY AcceptEffect
<1>3. /\ InChain(store') = InChain(store) /\ store'.cas_id = store.cas_id /\ ChainOK(store')
  BY <1>2 DEF Stays, Moves
<1>4. Fresh(store')
  BY <1>2, <1>3, CacheInvFacts, FreshLess
<1>5. held \in [Conn -> Chunk \cup {NoItem}] /\ cmd \in [Conn -> StoreCmd \cup {"none"}]
  BY CacheInvFacts DEF Inv, TypeOK
<1>6. Held' \subseteq Held \cup {it}
  BY <1>2, <1>5 DEF Held
<1>7. Unreferenced'
  <2> SUFFICES ASSUME NEW x \in Chunk, x \notin InUse' \/ x \in Held'
               PROVE  store'.refcount[x] = 0
    BY DEF Unreferenced
  <2>1. x \notin InUse \/ x \in Held
    BY <1>1, <1>2, <1>6, Views
  <2> QED
    BY <1>2, <2>1 DEF CacheInv, Unreferenced
<1>8. HeldCmds'
  BY <1>2, <1>5 DEF CacheInv, HeldCmds
<1>9. RefsKept
  <2>1. out'.msg # "VALUE"
    BY DEF AcceptHeader, Reply
  <2> QED
    BY <1>2, <1>3, <2>1, Views DEF RefsKept
<1> QED
  BY <1>1, <1>3, <1>4, <1>7, <1>8, <1>9 DEF CacheInv

\* read_value_stored: the item of the connection, or the concatenation,
\* enters the table, or nothing does.
LEMMA ValueCacheStep ==
  ASSUME CacheInv, NEW c \in Conn, NEW v \in Seq(Atom), read_value_stored(c, v)
  PROVE  CacheInv' /\ RefsKept
<1> DEFINE it == held[c]
           W == UsedIn(store) \ {it}
<1>1. Inv' /\ InUse \subseteq InUse'
  BY ValueStep DEF CacheInv
<1>2. /\ \A d \in Conn : held'[d] \in {NoItem, held[d]}
      /\ \A d \in Conn : held'[d] # NoItem => cmd'[d] = cmd[d]
  <2>1. held' = [held EXCEPT ![c] = NoItem] /\ cmd' = [cmd EXCEPT ![c] = "none"]
    BY DEF read_value_stored
  <2>2. held \in [Conn -> Chunk \cup {NoItem}] /\ cmd \in [Conn -> StoreCmd \cup {"none"}]
    BY CacheInvFacts DEF Inv, TypeOK
  <2> QED
    BY <2>1, <2>2
<1>3. it \in Held /\ it \notin InChain(store)
  BY HeldItem DEF read_value_stored
<1>4. InChain(store) \subseteq W
  BY <1>3, CacheInvFacts
<1>5. \/ ValueStored(it, cmd[c], v, W) \/ ValueJoined(it, cmd[c], v, W)
      \/ ValueRejected(it, cmd[c], W) \/ ValueKills(it, cmd[c], W)
  BY ValueEffect
<1>6. out'.msg # "VALUE"
  <2>1. out' \in {Reply(c, "STORED"), Reply(c, "EXISTS"), Reply(c, "NOT_STORED"), Reply(NoConn, "none")}
    BY ValueEffect
  <2> QED
    BY <2>1 DEF Reply
<1> HIDE DEF it, W
<1>7. ASSUME Stays(store, store', W) \/ Clears(store, store', store.key[it], W)
      PROVE  CacheInv' /\ RefsKept
  <2>1. /\ Moves(store, store', W) /\ InChain(store') \subseteq InChain(store)
        /\ store'.cas_id = store.cas_id
    BY <1>7 DEF Stays, Clears, Leaves
  <2> QED
    BY <1>1, <1>2, <1>4, <1>6, <2>1, LessStep
<1>8. CASE ValueRejected(it, cmd[c], W) \/ ValueKills(it, cmd[c], W)
  BY <1>7, <1>8 DEF ValueRejected, ValueKills, Looked
<1>9. CASE ValueStored(it, cmd[c], v, W)
  <2>1. CASE Reserved(store.flag[it])
    BY <1>7, <1>9, <2>1 DEF ValueStored
  <2>2. CASE ~Reserved(store.flag[it])
    <3>1. Enters(store, store', it, store.key[it], v, store.exptime[it], 1, W)
      BY <1>9, <2>2 DEF ValueStored
    <3> QED
      BY <1>1, <1>2, <1>3, <1>4, <1>6, <3>1, EnterStep
  <2> QED
    BY <2>1, <2>2
<1>10. CASE ValueJoined(it, cmd[c], v, W)
  <2>1. PICK new \in Chunk \ UsedIn(store) : \E val, e :
          Enters(store, store', new, store.key[it], val, e, 0, W)
    BY <1>10 DEF ValueJoined
  <2>2. new \notin Held
    BY <2>1, CacheInvFacts
  <2> QED
    BY <1>1, <1>2, <1>4, <1>6, <2>1, <2>2, EnterStep
<1> QED
  BY <1>5, <1>8, <1>9, <1>10

\* conn_close before the value: nothing refers to the item that is lost.
LEMMA CloseCacheStep ==
  ASSUME CacheInv, NEW c \in Conn, conn_close(c)
  PROVE  CacheInv' /\ RefsKept
<1>1. Inv' /\ InUse \subseteq InUse'
  BY CloseStep DEF CacheInv
<1>2. store' = store /\ held' = [held EXCEPT ![c] = NoItem] /\ cmd' = [cmd EXCEPT ![c] = "none"]
  BY DEF conn_close
<1>3. /\ \A d \in Conn : held'[d] \in {NoItem, held[d]}
      /\ \A d \in Conn : held'[d] # NoItem => cmd'[d] = cmd[d]
  <2>1. held \in [Conn -> Chunk \cup {NoItem}] /\ cmd \in [Conn -> StoreCmd \cup {"none"}]
    BY CacheInvFacts DEF Inv, TypeOK
  <2> QED
    BY <1>2, <2>1
<1>4. SameItems(store, store')
  BY <1>2 DEF SameItems, SameData
<1>5. Stays(store, store', UsedIn(store))
  BY <1>4, CacheInvFacts, SameStays
<1>6. out'.msg # "VALUE"
  BY DEF conn_close, Reply
<1> QED
  BY <1>1, <1>3, <1>5, <1>6, CacheInvFacts, LessStep DEF Stays

\* The clock and steps that change nothing.
LEMMA QuietCacheStep ==
  ASSUME CacheInv, Tick \/ UNCHANGED vars
  PROVE  CacheInv' /\ (Tick => RefsKept)
<1>1. Inv'
  BY QuietStep DEF CacheInv
<1>2. store' = store /\ held' = held /\ cmd' = cmd
  BY DEF Tick, vars
<1>3. CacheInv'
  BY <1>1, <1>2, Views DEF CacheInv, Fresh, Unreferenced, HeldCmds, Held
<1>4. Tick => RefsKept
  BY CacheInvFacts DEF Tick, RefsKept
<1> QED
  BY <1>3, <1>4

\* Every step keeps the invariant, and every step but a stuttering one
\* balances the references.
LEMMA NextCacheStep ==
  ASSUME CacheInv, [Next]_vars
  PROVE  CacheInv' /\ [RefsKept]_vars
<1>1. CASE \E c \in Conn, k \in Key : get_command(c, k)
  BY <1>1, GetCacheStep
<1>2. CASE \E c \in Conn, k \in Key : delete_command(c, k)
  BY <1>2, DeleteCacheStep
<1>3. CASE \E c \in Conn, command \in Cmd, k \in Key, flags \in ClientFlags,
              exptime \in Exptimes, n \in Lengths, cas \in CasIds :
             command_five_six_para(c, command, k, flags, exptime, n, cas)
  <2>1. PICK c \in Conn, command \in Cmd, k \in Key, flags \in ClientFlags,
             exptime \in Exptimes, n \in Lengths, cas \in CasIds :
               command_five_six_para(c, command, k, flags, exptime, n, cas)
    BY <1>3
  <2>2. /\ command \in StoreCmd /\ flags \in SUBSET ItemFlag
        /\ exptime \in Int /\ n \in Nat /\ cas \in Nat
    BY ClientAssumption
  <2> QED
    BY <2>1, <2>2, AcceptCacheStep, RefuseCacheStep DEF command_five_six_para
<1>4. CASE \E c \in Conn, v \in Value : read_value_stored(c, v)
  BY <1>4, ValueType, ValueCacheStep
<1>5. CASE \E c \in Conn : conn_close(c)
  BY <1>5, CloseCacheStep
<1>6. CASE Tick \/ UNCHANGED vars
  BY <1>6, QuietCacheStep
<1> QED
  BY <1>1, <1>2, <1>3, <1>4, <1>5, <1>6 DEF Next

-----------------------------------------------------------------------------
(* Theorems about the chains and the references *)

\* CacheInv holds in every reachable state.
LEMMA CacheInvariance == Spec => []CacheInv
<1>1. Init => CacheInv
  BY InitCacheInv
<1>2. CacheInv /\ [Next]_vars => CacheInv'
  BY NextCacheStep
<1> QED
  BY <1>1, <1>2, PTL DEF Spec

\* hash_find walks sound chains, whatever commands came before: an item of a
\* chain is linked, not on a free list, in the bucket of its key, and the
\* only one with that key.
THEOREM ChainsAreSound == Spec => []ChainSound
<1>1. CacheInv => ChainSound
  BY DEF CacheInv, ChainOK, InPlace, ChainSound
<1> QED
  BY <1>1, CacheInvariance, PTL

\* Only a hit of get leaves a reference behind: every other command gives
\* back, on all its paths, as many references to each item as it took.
THEOREM ReferencesAreBalanced == Spec => RefsBalanced
<1>1. CacheInv /\ [Next]_vars => [RefsKept]_vars
  BY NextCacheStep
<1> QED
  BY <1>1, CacheInvariance, PTL DEF Spec, RefsBalanced, RefsKept

-----------------------------------------------------------------------------
(* The map that the table stands for *)

Entry(s, x) == [val |-> s.val[x], cas |-> s.cas[x], exptime |-> s.exptime[x]]

MapOf(s) ==
  [k \in Key |-> IF hash_find(s, k) = NoItem THEN NoEntry ELSE Entry(s, hash_find(s, k))]

\* Maps that may be left of map m once key k is gone.
Gone(m, k) ==
  IF m[k] = NoEntry THEN {m}
  ELSE {[j \in Key |-> IF j = k \/ j \in lost THEN NoEntry ELSE m[j]] :
          lost \in SUBSET {j \in Key \ {k} : Hash[j] = Hash[k]}}

\* m is what the items of Rest make of the map.
Shows(s, Rest, m) ==
  /\ m = [j \in Key |-> m[j]]
  /\ \A j \in Key : \/ \E x \in Rest : s.key[x] = j /\ m[j] = Entry(s, x)
                    \/ (\A x \in Rest : s.key[x] # j) /\ m[j] = NoEntry

\* An item makes an entry.
LEMMA EntryType ==
  ASSUME NEW s \in StoreState, NEW x \in Chunk
  PROVE  Entry(s, x) # NoEntry
<1>1. s.val[x] \in Seq(Atom) /\ s.cas[x] \in Nat /\ s.exptime[x] \in Nat
  BY DEF StoreState
<1>2. Entry(s, x) \in [val : Seq(Atom), cas : Nat, exptime : Nat]
  BY <1>1 DEF Entry
<1> QED
  BY <1>2, AbsenceAssumption

\* The map shows the chained items.
LEMMA MapShows ==
  ASSUME NEW s \in StoreState, ChainOK(s)
  PROVE  Shows(s, InChain(s), MapOf(s))
<1>1. MapOf(s) = [j \in Key |-> MapOf(s)[j]]
  BY DEF MapOf
<1>2. ASSUME NEW j \in Key
      PROVE  \/ \E x \in InChain(s) : s.key[x] = j /\ MapOf(s)[j] = Entry(s, x)
             \/ (\A x \in InChain(s) : s.key[x] # j) /\ MapOf(s)[j] = NoEntry
  <2>1. MapOf(s)[j] = IF hash_find(s, j) = NoItem THEN NoEntry ELSE Entry(s, hash_find(s, j))
    BY DEF MapOf
  <2>2. CASE hash_find(s, j) # NoItem
    BY <2>1, <2>2, HashFindIs
  <2>3. CASE hash_find(s, j) = NoItem
    <3>1. \A x \in InChain(s) : s.key[x] # j
      BY <2>3, HashFindIs, InChainType, NoItemNotChunk
    <3> QED
      BY <2>1, <2>3, <3>1
  <2> QED
    BY <2>2, <2>3
<1> QED
  BY <1>1, <1>2 DEF Shows

\* What is left of the table shows as a map without k, and possibly without
\* other keys of its bucket.
LEMMA GoneShows ==
  ASSUME NEW s \in StoreState, ChainOK(s), NEW k \in Key, NEW Rest, Leaves(s, Rest, k),
         NEW m, Shows(s, Rest, m)
  PROVE  m \in Gone(MapOf(s), k)
<1> DEFINE n == MapOf(s)
<1>1. Shows(s, InChain(s), n)
  BY MapShows
<1> HIDE DEF n
<1>2. InChain(s) \subseteq Chunk
  BY InChainType
<1>3. Rest \subseteq InChain(s)
  BY DEF Leaves
<1>4. ASSUME NEW j \in Key, \A x \in InChain(s) : s.key[x] = j => x \in Rest
      PROVE  m[j] = n[j]
  <2>1. CASE \E x \in InChain(s) : s.key[x] = j
    <3>1. PICK x \in InChain(s) : s.key[x] = j
      BY <2>1
    <3>2. x \in Rest
      BY <1>4, <3>1
    <3>3. m[j] = Entry(s, x)
      <4>1. PICK y \in Rest : s.key[y] = j /\ m[j] = Entry(s, y)
        BY <3>1, <3>2 DEF Shows
      <4> QED
        BY <1>3, <3>1, <4>1, ChainKeys
    <3>4. n[j] = Entry(s, x)
      <4>1. PICK y \in InChain(s) : s.key[y] = j /\ n[j] = Entry(s, y)
        BY <1>1, <3>1 DEF Shows
      <4> QED
        BY <3>1, <4>1, ChainKeys
    <3> QED
      BY <3>3, <3>4
  <2>2. CASE \A x \in InChain(s) : s.key[x] # j
    BY <1>1, <1>3, <2>2 DEF Shows
  <2> QED
    BY <2>1, <2>2
<1>5. CASE n[k] = NoEntry
  <2>1. \A y \in InChain(s) : s.key[y] # k
    BY <1>1, <1>2, <1>5, EntryType DEF Shows
  <2>2. \A j \in Key : m[j] = n[j]
    BY <1>4, <2>1 DEF Leaves
  <2>3. m = n
    BY <1>1, <2>2 DEF Shows
  <2> QED
    BY <1>5, <2>3 DEF Gone, n
<1>6. CASE n[k] # NoEntry
  <2> DEFINE B == {j \in Key \ {k} : Hash[j] = Hash[k]}
             lost == {j \in B : m[j] = NoEntry}
             f == [j \in Key |-> IF j = k \/ j \in lost THEN NoEntry ELSE n[j]]
  <2>1. ASSUME NEW j \in Key PROVE m[j] = f[j]
    <3>1. CASE j = k
      BY <3>1 DEF Leaves, Shows
    <3>2. CASE j # k /\ Hash[j] # Hash[k]
      <4>1. \A x \in InChain(s) : s.key[x] = j => x \in Rest
        BY <3>2 DEF Leaves
      <4>2. m[j] = n[j]
        BY <1>4, <4>1
      <4> QED
        BY <3>2, <4>2
    <3>3. CASE j \in lost
      BY <3>3
    <3>4. CASE j \in B /\ m[j] # NoEntry
      <4>1. PICK y \in Rest : s.key[y] = j
        BY <3>4 DEF Shows
      <4>2. \A x \in InChain(s) : s.key[x] = j => x \in Rest
        BY <1>3, <4>1, ChainKeys
      <4>3. m[j] = n[j]
        BY <1>4, <4>2
      <4> QED
        BY <3>4, <4>3
    <3> QED
      BY <3>1, <3>2, <3>3, <3>4
  <2>2. m = f
    <3>1. m = [j \in Key |-> m[j]]
      BY DEF Shows
    <3> HIDE DEF f
    <3>2. f = [j \in Key |-> f[j]]
      BY DEF f
    <3> QED
      BY <2>1, <3>1, <3>2
  <2>3. lost \in SUBSET B
    OBVIOUS
  <2> HIDE DEF lost
  <2> QED
    BY <1>6, <2>2, <2>3 DEF Gone, n
<1> QED
  BY <1>5, <1>6

\* Chained items of t are the same in s.
SameShown(s, t, Rest) ==
  \A x \in Rest : t.key[x] = s.key[x] /\ Entry(t, x) = Entry(s, x)

\* The same items show as the same map.
LEMMA MapSame ==
  ASSUME NEW s \in StoreState, ChainOK(s), NEW t \in StoreState, ChainOK(t),
         InChain(t) = InChain(s), SameShown(s, t, InChain(t))
  PROVE  MapOf(t) = MapOf(s)
<1> DEFINE m == MapOf(s)
           n == MapOf(t)
<1>1. Shows(s, InChain(s), m) /\ Shows(t, InChain(t), n)
  BY MapShows
<1> HIDE DEF m, n
<1>2. ASSUME NEW j \in Key PROVE n[j] = m[j]
  <2>1. CASE \E x \in InChain(s) : s.key[x] = j
    <3>1. PICK x \in InChain(s) : s.key[x] = j /\ m[j] = Entry(s, x)
      BY <1>1, <2>1 DEF Shows
    <3>2. PICK y \in InChain(t) : t.key[y] = j /\ n[j] = Entry(t, y)
      BY <1>1, <2>1 DEF Shows, SameShown
    <3>3. y = x
      BY <3>1, <3>2, ChainKeys DEF SameShown
    <3> QED
      BY <3>1, <3>2, <3>3 DEF SameShown
  <2>2. CASE \A x \in InChain(s) : s.key[x] # j
    BY <1>1, <2>2 DEF Shows, SameShown
  <2> QED
    BY <2>1, <2>2
<1>3. n = m
  BY <1>1, <1>2 DEF Shows
<1> QED
  BY <1>3 DEF m, n

\* A key that is cleared goes from the map.
LEMMA MapCleared ==
  ASSUME NEW s \in StoreState, ChainOK(s), NEW t \in StoreState, ChainOK(t), NEW k \in Key,
         Leaves(s, InChain(t), k), SameShown(s, t, InChain(t))
  PROVE  MapOf(t) \in Gone(MapOf(s), k)
<1>1. Shows(t, InChain(t), MapOf(t))
  BY MapShows
<1>2. Shows(s, InChain(t), MapOf(t))
  BY <1>1 DEF Shows, SameShown
<1> QED
  BY <1>2, GoneShows

\* An item that enters is the entry of its key.
LEMMA MapPut ==
  ASSUME NEW s \in StoreState, ChainOK(s), NEW t \in StoreState, ChainOK(t), NEW k \in Key,
         NEW it \in InChain(t), t.key[it] = k,
         Leaves(s, InChain(t) \ {it}, k), SameShown(s, t, InChain(t) \ {it})
  PROVE  \E m \in Gone(MapOf(s), k) : MapOf(t) = [m EXCEPT ![k] = Entry(t, it)]
<1> DEFINE n == MapOf(t)
           m == [j \in Key |-> IF j = k THEN NoEntry ELSE n[j]]
           Rest == InChain(t) \ {it}
<1>1. Shows(t, InChain(t), n)
  BY MapShows
<1> HIDE DEF n
<1>2. \A x \in InChain(t) : t.key[x] = k => x = it
  BY ChainKeys
<1>3. n[k] = Entry(t, it)
  BY <1>1, <1>2 DEF Shows
<1>4. ASSUME NEW j \in Key
      PROVE  \/ \E x \in Rest : s.key[x] = j /\ m[j] = Entry(s, x)
             \/ (\A x \in Rest : s.key[x] # j) /\ m[j] = NoEntry
  <2>1. CASE j = k
    BY <2>1 DEF Leaves
  <2>2. CASE j # k
    <3>1. m[j] = n[j]
      BY <2>2
    <3> HIDE DEF m
    <3> QED
      BY <1>1, <2>2, <3>1 DEF Shows, SameShown
  <2> QED
    BY <2>1, <2>2
<1>5. m = [j \in Key |-> m[j]]
  OBVIOUS
<1>6. Shows(s, Rest, m)
  <2> HIDE DEF m, Rest
  <2> QED
    BY <1>4, <1>5 DEF Shows
<1>7. m \in Gone(MapOf(s), k)
  <2> HIDE DEF m, Rest
  <2>1. Leaves(s, Rest, k)
    BY DEF Rest
  <2> QED
    BY <1>6, <2>1, GoneShows
<1>8. n = [m EXCEPT ![k] = Entry(t, it)]
  <2>1. n = [j \in Key |-> n[j]]
    BY <1>1 DEF Shows
  <2> QED
    BY <1>3, <2>1
<1> QED
  BY <1>7, <1>8 DEF n

-----------------------------------------------------------------------------
(* Refinement *)

\* The map of the refinement is the map of the table.
LEMMA MapViews ==
  /\ cacheMap = MapOf(store) /\ cacheMap' = MapOf(store')
  /\ \A k \in Key : C!Without(k) = Gone(MapOf(store), k)
<1>1. cacheMap = MapOf(store) /\ cacheMap' = MapOf(store')
  BY DEF cacheMap, MapOf, EntryOf, Entry
<1> QED
  BY <1>1 DEF C!Without, C!Siblings, Gone

\* A key is present in Cache if do_item_get finds it.
LEMMA PresentIsLive ==
  ASSUME CacheInv, NEW k \in Key
  PROVE  /\ C!Present(k) <=> Live(store, k, clock)
         /\ Live(store, k, clock) => cacheMap[k] = Entry(store, hash_find(store, k))
<1> DEFINE it == hash_find(store, k)
<1>1. cacheMap[k] = IF it = NoItem THEN NoEntry ELSE Entry(store, it)
  BY MapViews DEF MapOf
<1>2. it # NoItem => Entry(store, it) # NoEntry
  BY CacheInvFacts, HashFindType, InChainType, EntryType
<1> HIDE DEF it
<1>3. Entry(store, it).exptime = store.exptime[it]
  BY DEF Entry
<1>4. C!Present(k) <=> it # NoItem /\ ~Expired(store, it, clock)
  BY <1>1, <1>2, <1>3 DEF C!Present, C!Past, Expired
<1> QED
  BY <1>1, <1>4 DEF Live, it

\* A connection between commands has no request.
LEMMA IdleRefines ==
  ASSUME NEW c \in Conn, Idle(c)
  PROVE  C!Idle(c)
  BY DEF Idle, C!Idle, requestMap

\* The request that a connection with item x makes.
Request(s, x, command) ==
  [cmd |-> command, key |-> s.key[x], reserved |-> Reserved(s.flag[x]),
   exptime |-> s.exptime[x], cas |-> s.cas[x]]

\* A connection that holds an item has a request.
LEMMA RequestMade ==
  ASSUME NEW s \in StoreState, NEW x \in Chunk, s.key[x] \in Key, NEW command \in StoreCmd
  PROVE  Request(s, x, command) # NoRequest
<1>1. s.exptime[x] \in Nat /\ s.cas[x] \in Nat
  BY DEF StoreState
<1>2. Reserved(s.flag[x]) \in BOOLEAN
  BY DEF Reserved
<1>3. Request(s, x, command) \in
        [cmd : StoreCmd, key : Key, reserved : BOOLEAN, exptime : Nat, cas : Nat]
  BY <1>1, <1>2 DEF Request
<1> QED
  BY <1>3, AbsenceAssumption

\* Requests before and after a step.
LEMMA RequestViews ==
  ASSUME NEW c \in Conn
  PROVE  /\ held[c] # NoItem => requestMap[c] = Request(store, held[c], cmd[c])
         /\ held'[c] # NoItem => requestMap'[c] = Request(store', held'[c], cmd'[c])
  BY DEF requestMap, RequestOf, Request, Reserved

\* The request of a connection whose item is watched stays the same.
LEMMA RequestSame ==
  ASSUME CacheInv, NEW W, Intact(store, store', W), NEW d \in Conn,
         held'[d] = held[d], cmd'[d] = cmd[d], held[d] # NoItem => held[d] \in W
  PROVE  requestMap'[d] = requestMap[d]
<1>1. CASE held[d] = NoItem
  BY <1>1 DEF requestMap
<1>2. CASE held[d] # NoItem
  <2>1. held[d] \notin InChain(store)
    BY <1>2, HeldItem
  <2>2. SameEntry(store, store', held[d]) /\ store'.flag[held[d]] = store.flag[held[d]]
    BY <1>2, <2>1, WatchedItem
  <2>3. RequestOf(d)' = RequestOf(d)
    BY <2>2 DEF RequestOf, SameEntry
  <2> QED
    BY <1>2, <2>3 DEF requestMap
<1> QED
  BY <1>1, <1>2

\* No request changes while no connection takes or drops an item.
LEMMA RequestsSame ==
  ASSUME CacheInv, NEW W, Intact(store, store', W), UsedIn(store) \subseteq W,
         held' = held, cmd' = cmd
  PROVE  requestMap' = requestMap
<1>1. \A d \in Conn : held[d] # NoItem => held[d] \in W
  BY HeldItem
<1>2. \A d \in Conn : requestMap'[d] = requestMap[d]
  BY <1>1, RequestSame
<1>3. requestMap' = [d \in Conn |-> requestMap'[d]] /\ requestMap = [d \in Conn |-> requestMap[d]]
  BY DEF requestMap
<1> QED
  BY <1>2, <1>3

\* The request of the connection that is served ends, the others stay.
LEMMA RequestEnds ==
  ASSUME CacheInv, NEW c \in Conn, held' = [held EXCEPT ![c] = NoItem],
         cmd' = [cmd EXCEPT ![c] = "none"], held[c] # NoItem,
         NEW W, Intact(store, store', W), UsedIn(store) \ {held[c]} \subseteq W
  PROVE  requestMap' = [requestMap EXCEPT ![c] = NoRequest]
<1>1. held \in [Conn -> Chunk \cup {NoItem}] /\ cmd \in [Conn -> StoreCmd \cup {"none"}]
  BY CacheInvFacts DEF Inv, TypeOK
<1>2. ASSUME NEW d \in Conn, d # c PROVE requestMap'[d] = requestMap[d]
  <2>1. held'[d] = held[d] /\ cmd'[d] = cmd[d]
    BY <1>1, <1>2
  <2>2. held[d] # NoItem => held[d] # held[c]
    BY <1>2 DEF CacheInv, Inv, Owned
  <2>3. held[d] # NoItem => held[d] \in W
    BY <2>2, HeldItem
  <2> QED
    BY <2>1, <2>3, RequestSame
<1>3. requestMap'[c] = NoRequest
  BY <1>1 DEF requestMap
<1>4. requestMap' = [d \in Conn |-> requestMap'[d]] /\ requestMap = [d \in Conn |-> requestMap[d]]
  BY DEF requestMap
<1> QED
  BY <1>2, <1>3, <1>4

\* A reply without a hit.
LEMMA ReplySays ==
  ASSUME NEW c, NEW msg, out' = Reply(c, msg)
  PROVE  C!Says(c, msg)
  BY DEF C!Says, replyMap, Reply, NoHit

\* Items that are watched and stay show the same.
LEMMA WatchedShown ==
  ASSUME NEW s, NEW t, NEW W, Moves(s, t, W), NEW C0, C0 \subseteq InChain(s) \cap InChain(t),
         InChain(s) \subseteq W
  PROVE  SameShown(s, t, C0)
<1>1. \A x \in C0 : SameEntry(s, t, x)
  BY WatchedItem DEF Moves
<1> QED
  BY <1>1 DEF SameShown, Entry, SameEntry

\* Effects on the items as effects on the map.
LEMMA EffectMaps ==
  ASSUME CacheInv, CacheInv', NEW k \in Key, NEW W, InChain(store) \subseteq W
  PROVE  /\ Stays(store, store', W) => cacheMap' = cacheMap
         /\ Clears(store, store', k, W) => cacheMap' \in C!Without(k)
         /\ \A x : Puts(store, store', x, W) /\ store'.key[x] = k =>
              \E m \in C!Without(k) : cacheMap' = [m EXCEPT ![k] = Entry(store', x)]
<1>1. /\ store \in StoreState /\ ChainOK(store)
      /\ store' \in StoreState /\ ChainOK(store')
  BY CacheInvFacts, InvFacts DEF CacheInv, Inv, Sound
<1>2. ASSUME Stays(store, store', W) PROVE cacheMap' = cacheMap
  <2>1. SameShown(store, store', InChain(store')) /\ InChain(store') = InChain(store)
    BY <1>2, WatchedShown DEF Stays
  <2> QED
    BY <1>1, <2>1, MapSame, MapViews
<1>3. ASSUME Clears(store, store', k, W) PROVE cacheMap' \in C!Without(k)
  <2>1. SameShown(store, store', InChain(store')) /\ Leaves(store, InChain(store'), k)
    BY <1>3, WatchedShown DEF Clears, Leaves
  <2> QED
    BY <1>1, <2>1, MapCleared, MapViews
<1>4. ASSUME NEW x, Puts(store, store', x, W), store'.key[x] = k
      PROVE  \E m \in C!Without(k) : cacheMap' = [m EXCEPT ![k] = Entry(store', x)]
  <2> DEFINE V == W \ {x}
             C0 == InChain(store') \ {x}
  <2>1. /\ Moves(store, store', V) /\ x \in InChain(store') /\ x \notin InChain(store)
        /\ Leaves(store, C0, k)
    BY <1>4 DEF Puts
  <2>2. C0 \subseteq InChain(store) \cap InChain(store') /\ InChain(store) \subseteq V
    BY <2>1 DEF Leaves
  <2>3. SameShown(store, store', C0)
    <3> HIDE DEF V, C0
    <3> QED
      BY <2>1, <2>2, WatchedShown
  <2> QED
    BY <1>1, <1>4, <2>1, <2>3, MapPut, MapViews
<1> QED
  BY <1>2, <1>3, <1>4

\* get_command is Get.
LEMMA GetRefines ==
  ASSUME CacheInv, CacheInv', NEW c \in Conn, NEW k \in Key, get_command(c, k)
  PROVE  C!Get(c, k)
<1> DEFINE it == hash_find(store, k)
<1>1. /\ Idle(c) /\ held' = held /\ cmd' = cmd /\ clock' = clock /\ up' = up
  BY DEF get_command
<1>2. C!Idle(c)
  BY <1>1, IdleRefines
<1>3. CASE Live(store, k, clock)
  <2>1. /\ it \in InChain(store) /\ it \in Chunk
        /\ Touched(store, store', it, Incr(store.refcount[it]))
        /\ Stays(store, store', Chunk \ {it})
        /\ out' = Found(c, store', it)
    BY <1>3, GetEffect
  <2>2. C!Present(k) /\ cacheMap[k] = Entry(store, it)
    BY <1>3, PresentIsLive
  <2> HIDE DEF it
  <2>3. SameData(store, store') /\ InChain(store') = InChain(store)
    BY <2>1 DEF Touched, Stays
  <2>4. cacheMap' = cacheMap
    <3>1. SameShown(store, store', InChain(store'))
      BY <2>3 DEF SameShown, SameData, Entry
    <3>2. store \in StoreState /\ ChainOK(store) /\ store' \in StoreState /\ ChainOK(store')
      BY <2>1, CacheInvFacts DEF Touched, Keeps
    <3> QED
      BY <2>3, <3>1, <3>2, MapSame, MapViews
  <2>5. \A d \in Conn : requestMap'[d] = requestMap[d]
    <3>1. Intact(store, store', Chunk \ {it})
      BY <2>1 DEF Stays, Moves
    <3>2. \A d \in Conn : held[d] # NoItem => held[d] \in Chunk \ {it}
      BY <2>1, HeldItem
    <3> QED
      BY <1>1, <3>1, <3>2, RequestSame
  <2>6. requestMap' = requestMap
    <3>1. requestMap' = [d \in Conn |-> requestMap'[d]] /\ requestMap = [d \in Conn |-> requestMap[d]]
      BY DEF requestMap
    <3> QED
      BY <2>5, <3>1
  <2>7. replyMap' = [conn |-> c, msg |-> "VALUE", val |-> cacheMap[k].val, cas |-> cacheMap[k].cas]
    BY <2>1, <2>2, <2>3 DEF replyMap, Found, Hit, Entry, SameData
  <2>8. cacheMap' \in C!AfterLookup(k)
    BY <2>2, <2>4 DEF C!AfterLookup
  <2> QED
    BY <1>1, <1>2, <2>2, <2>3, <2>6, <2>7, <2>8 DEF C!Get, SameData
<1>4. CASE ~Live(store, k, clock)
  <2>1. /\ Clears(store, store', k, Chunk) /\ SameData(store, store')
        /\ out' = Reply(c, "END")
    BY <1>4, GetEffect
  <2>2. ~C!Present(k)
    BY <1>4, PresentIsLive
  <2>3. cacheMap' \in C!AfterLookup(k)
    BY <2>1, <2>2, EffectMaps, CacheInvFacts DEF C!AfterLookup
  <2>4. requestMap' = requestMap
    BY <1>1, <2>1, CacheInvFacts, RequestsSame DEF Clears, Moves
  <2>5. C!Says(c, "END")
    BY <2>1, ReplySays
  <2> QED
    BY <1>1, <1>2, <2>1, <2>2, <2>3, <2>4, <2>5 DEF C!Get, SameData
<1> QED
  BY <1>3, <1>4

\* delete_command is Delete.
LEMMA DeleteRefines ==
  ASSUME CacheInv, CacheInv', NEW c \in Conn, NEW k \in Key, delete_command(c, k)
  PROVE  C!Delete(c, k)
<1>1. /\ Idle(c) /\ held' = held /\ cmd' = cmd /\ clock' = clock /\ up' = up
  BY DEF delete_command
<1>2. C!Idle(c)
  BY <1>1, IdleRefines
<1>3. /\ Clears(store, store', k, Chunk) /\ SameData(store, store')
      /\ out' = Reply(c, IF Live(store, k, clock) THEN "DELETED" ELSE "NOT_FOUND")
  BY DeleteEffect
<1>4. cacheMap' \in C!Without(k)
  BY <1>3, EffectMaps, CacheInvFacts
<1>5. requestMap' = requestMap
  BY <1>1, <1>3, CacheInvFacts, RequestsSame DEF Clears, Moves
<1>6. C!Says(c, IF C!Present(k) THEN "DELETED" ELSE "NOT_FOUND")
  BY <1>3, PresentIsLive, ReplySays
<1> QED
  BY <1>1, <1>2, <1>3, <1>4, <1>5, <1>6 DEF C!Delete, SameData

\* A refused command line is Refuse.
LEMMA RefuseRefines ==
  ASSUME CacheInv, CacheInv', NEW c \in Conn, NEW command, NEW k \in Key, NEW n \in Nat,
         RefuseHeader(c, command, k, n)
  PROVE  C!Refuse(c, k)
<1>1. /\ Idle(c) /\ held' = held /\ cmd' = cmd /\ clock' = clock /\ up' = up
  BY DEF RefuseHeader
<1>2. C!Idle(c)
  BY <1>1, IdleRefines
<1>3. /\ \/ Stays(store, store', UsedIn(store))
         \/ Clears(store, store', k, UsedIn(store))
      /\ SameData(store, store')
      /\ out' \in {Reply(c, "TOO_LARGE"), Reply(c, "NO_MEMORY")}
  BY RefuseEffect
<1>4. cacheMap' \in C!Without(k) \cup {cacheMap}
  BY <1>3, EffectMaps, CacheInvFacts
<1>5. Intact(store, store', UsedIn(store))
  BY <1>3 DEF Stays, Clears, Moves
<1>6. requestMap' = requestMap
  BY <1>1, <1>5, RequestsSame
<1>7. C!Says(c, "TOO_LARGE") \/ C!Says(c, "NO_MEMORY")
  BY <1>3, ReplySays
<1> QED
  BY <1>1, <1>2, <1>3, <1>4, <1>6, <1>7 DEF C!Refuse, SameData

\* An accepted command line is Begin.
LEMMA AcceptRefines ==
  ASSUME CacheInv, CacheInv', NEW c \in Conn, NEW command \in StoreCmd, NEW k \in Key,
         NEW flags \in SUBSET ItemFlag, NEW exptime \in Int, NEW n \in Nat, NEW cas \in Nat,
         AcceptHeader(c, command, k, flags, exptime, n, cas)
  PROVE  C!Begin(c)
<1>1. Idle(c) /\ clock' = clock /\ up' = up /\ out' = Reply(NoConn, "none")
  BY DEF AcceptHeader
<1>2. C!Idle(c)
  BY <1>1, IdleRefines
<1>3. PICK it \in Chunk \ UsedIn(store) :
        /\ Stays(store, store', UsedIn(store))
        /\ held' = [held EXCEPT ![c] = it]
        /\ cmd' = [cmd EXCEPT ![c] = command]
  BY AcceptEffect
<1>4. held \in [Conn -> Chunk \cup {NoItem}] /\ cmd \in [Conn -> StoreCmd \cup {"none"}]
  BY CacheInvFacts DEF Inv, TypeOK
<1>5. held'[c] # NoItem /\ cmd'[c] = command
  BY <1>3, <1>4, NoItemNotChunk
<1>6. requestMap'[c] # NoRequest /\ requestMap'[c].cmd \in StoreCmd
  <2>1. store' \in StoreState /\ held'[c] \in Chunk /\ store'.key[held'[c]] \in Key
    BY <1>3, <1>4, <1>5 DEF CacheInv, Inv, HeldKeys, Sound
  <2>2. requestMap'[c] = Request(store', held'[c], cmd'[c])
    BY <1>5, RequestViews
  <2>3. Request(store', held'[c], cmd'[c]) # NoRequest
    BY <1>5, <2>1, RequestMade
  <2> QED
    BY <1>5, <2>2, <2>3 DEF Request
<1>7. \A d \in Conn \ {c} : requestMap'[d] = requestMap[d]
  <2> SUFFICES ASSUME NEW d \in Conn, d # c PROVE requestMap'[d] = requestMap[d]
    OBVIOUS
  <2>1. held'[d] = held[d] /\ cmd'[d] = cmd[d]
    BY <1>3, <1>4
  <2>2. held[d] # NoItem => held[d] \in UsedIn(store)
    BY HeldItem
  <2>3. Intact(store, store', UsedIn(store))
    BY <1>3 DEF Stays, Moves
  <2> QED
    BY <2>1, <2>2, <2>3, RequestSame
<1>8. cacheMap' = cacheMap /\ store'.cas_id = store.cas_id
  BY <1>3, EffectMaps, CacheInvFacts DEF Stays
<1>9. C!Says(NoConn, "none")
  BY <1>1, ReplySays
<1> QED
  BY <1>1, <1>2, <1>6, <1>7, <1>8, <1>9 DEF C!Begin

\* Cache allows a storage command when do_store_item stores.
LEMMA AllowedIsMayStore ==
  ASSUME CacheInv, NEW it, NEW command \in StoreCmd, store.key[it] \in Key
  PROVE  C!Allowed(Request(store, it, command)) <=> MayStore(store, it, command, clock)
<1> DEFINE r == Request(store, it, command)
           k == store.key[it]
           old == hash_find(store, k)
<1>1. r.cmd = command /\ r.key = k /\ r.cas = store.cas[it]
  BY DEF Request
<1>2. C!Present(k) <=> Live(store, k, clock)
  BY PresentIsLive
<1>3. Live(store, k, clock) => cacheMap[k].cas = store.cas[old]
  <2>1. Live(store, k, clock) => cacheMap[k] = Entry(store, old)
    BY PresentIsLive
  <2>2. Entry(store, old).cas = store.cas[old]
    BY DEF Entry
  <2> HIDE DEF k, old
  <2> QED
    BY <2>1, <2>2
<1> HIDE DEF r
<1>4. CASE command = "set"
  BY <1>1, <1>4 DEF C!Allowed, MayStore, r
<1>5. CASE command = "add"
  BY <1>1, <1>2, <1>5 DEF C!Allowed, MayStore, r
<1>6. CASE command = "replace"
  BY <1>1, <1>2, <1>6 DEF C!Allowed, MayStore, r
<1>7. CASE command \in {"append", "prepend", "cas"}
  <2>1. C!Allowed(r) <=> C!Present(k) /\ r.cas = cacheMap[k].cas
    BY <1>1, <1>7 DEF C!Allowed
  <2>2. MayStore(store, it, command, clock) <=> Live(store, k, clock) /\ store.cas[it] = store.cas[old]
    BY <1>7 DEF MayStore
  <2> QED
    BY <1>1, <1>2, <1>3, <2>1, <2>2 DEF r
<1> QED
  BY <1>4, <1>5, <1>6, <1>7 DEF StoreCmd

\* The value of a storage command is Finish.
LEMMA ValueRefines ==
  ASSUME CacheInv, CacheInv', NEW c \in Conn, NEW v \in Seq(Atom), read_value_stored(c, v)
  PROVE  C!Finish(c, v)
<1> DEFINE it == held[c]
           W == UsedIn(store) \ {it}
           k == store.key[it]
           r == Request(store, it, cmd[c])
           old == hash_find(store, k)
<1>1. /\ up /\ it # NoItem /\ clock' = clock
      /\ held' = [held EXCEPT ![c] = NoItem] /\ cmd' = [cmd EXCEPT ![c] = "none"]
  BY DEF read_value_stored
<1>2. /\ it \in Held /\ it \in Chunk /\ it \notin InChain(store) /\ k \in Key /\ cmd[c] \in StoreCmd
  BY <1>1, HeldItem
<1>3. requestMap[c] = r /\ r # NoRequest
  BY <1>1, <1>2, CacheInvFacts, RequestViews, RequestMade
<1>4. /\ r.cmd = cmd[c] /\ r.key = k /\ r.exptime = store.exptime[it] /\ r.cas = store.cas[it]
      /\ r.reserved = Reserved(store.flag[it])
  BY DEF Request
<1>5. C!Allowed(r) <=> MayStore(store, it, cmd[c], clock)
  BY <1>2, AllowedIsMayStore
<1>6. C!Concat(r) <=> Concats(cmd[c])
  BY <1>4 DEF C!Concat, Concats
<1>7. up = TRUE
  BY <1>1, CacheInvFacts DEF Inv, TypeOK
<1>8. \/ ValueStored(it, cmd[c], v, W) /\ up' = TRUE /\ out' = Reply(c, "STORED")
      \/ ValueJoined(it, cmd[c], v, W) /\ up' = TRUE /\ out' = Reply(c, "STORED")
      \/ /\ ValueRejected(it, cmd[c], W) /\ up' = TRUE
         /\ out' = Reply(c, IF cmd[c] = "cas" THEN "EXISTS" ELSE "NOT_STORED")
      \/ ValueKills(it, cmd[c], W) /\ up' = FALSE /\ out' = Reply(NoConn, "none")
  BY ValueEffect
<1>9. UsedIn(store) \ {it} \subseteq W /\ InChain(store) \subseteq W
  BY <1>2, CacheInvFacts
<1> HIDE DEF it, W, r
<1>10. ASSUME Moves(store, store', W)
       PROVE  requestMap' = [requestMap EXCEPT ![c] = NoRequest]
  BY <1>1, <1>9, <1>10, RequestEnds DEF Moves, it
<1>11. ASSUME Moves(store, store', W), C!Store(c, v) \/ C!Reject(c) \/ C!Die(c)
       PROVE  C!Finish(c, v)
  BY <1>1, <1>3, <1>10, <1>11 DEF C!Finish
<1>12. ASSUME Clears(store, store', k, W)
       PROVE  cacheMap' \in C!Without(k) /\ store'.cas_id = store.cas_id /\ Moves(store, store', W)
  BY <1>2, <1>9, <1>12, EffectMaps DEF Clears
<1>13. ASSUME NEW x, NEW val, NEW e, NEW n, Enters(store, store', x, k, val, e, n, W),
              x = it \/ x \notin UsedIn(store)
       PROVE  /\ \E m \in C!Without(k) :
                   cacheMap' = [m EXCEPT ![k] = [val |-> val, cas |-> store.cas_id + 1, exptime |-> e]]
              /\ store'.cas_id = store.cas_id + 1 /\ Moves(store, store', W)
  <2>1. Puts(store, store', x, W) /\ store'.key[x] = k
    BY <1>13 DEF Enters
  <2>2. Entry(store', x) = [val |-> val, cas |-> store.cas_id + 1, exptime |-> e]
    BY <1>13 DEF Enters, Puts, Entry
  <2>3. W \ {x} = W
    BY <1>13 DEF W
  <2> QED
    BY <1>2, <1>9, <2>1, <2>2, <2>3, EffectMaps DEF Puts
<1>14. CASE ValueStored(it, cmd[c], v, W) /\ up' = TRUE /\ out' = Reply(c, "STORED")
  <2>1. C!Says(c, "STORED") /\ up' = up /\ C!Allowed(r)
    BY <1>5, <1>7, <1>14, ReplySays DEF ValueStored
  <2>2. ~Concats(cmd[c]) /\ (C!Vanishes(r) <=> Reserved(store.flag[it]))
    BY <1>4, <1>6, <1>14 DEF ValueStored, C!Vanishes
  <2>3. CASE Reserved(store.flag[it])
    <3>1. Clears(store, store', k, W)
      BY <1>14, <2>3 DEF ValueStored
    <3>2. C!Store(c, v)
      BY <1>3, <1>4, <1>12, <2>1, <2>2, <2>3, <3>1 DEF C!Store
    <3> QED
      BY <1>11, <1>12, <3>1, <3>2
  <2>4. CASE ~Reserved(store.flag[it])
    <3>1. Enters(store, store', it, k, v, store.exptime[it], 1, W)
      BY <1>14, <2>4 DEF ValueStored
    <3>2. C!NewEntry(r, v) = [val |-> v, cas |-> store.cas_id + 1, exptime |-> store.exptime[it]]
      BY <1>4, <2>2 DEF C!NewEntry, Concats
    <3>3. /\ \E m \in C!Without(r.key) : cacheMap' = [m EXCEPT ![r.key] = C!NewEntry(r, v)]
          /\ store'.cas_id = store.cas_id + 1
      <4>1. r.key = k /\ C!NewEntry(r, v) = [val |-> v, cas |-> store.cas_id + 1, exptime |-> store.exptime[it]]
        BY <1>4, <3>2
      <4> HIDE DEF k
      <4> QED
        BY <1>13, <3>1, <4>1
    <3>4. C!Store(c, v)
      BY <1>3, <2>1, <2>2, <2>4, <3>3 DEF C!Store
    <3> QED
      BY <1>11, <1>13, <3>1, <3>4
  <2> QED
    BY <2>3, <2>4
<1>15. CASE ValueJoined(it, cmd[c], v, W) /\ up' = TRUE /\ out' = Reply(c, "STORED")
  <2> DEFINE val == IF cmd[c] = "append" THEN store.val[old] \o v ELSE v \o store.val[old]
  <2>1. C!Says(c, "STORED") /\ up' = up /\ C!Allowed(r)
    BY <1>5, <1>7, <1>15, ReplySays DEF ValueJoined
  <2>2. Concats(cmd[c]) /\ ~C!Vanishes(r)
    BY <1>6, <1>15 DEF ValueJoined, C!Vanishes
  <2>3. PICK new \in Chunk \ UsedIn(store) :
          Enters(store, store', new, k, val, store.exptime[old], 0, W)
    BY <1>15 DEF ValueJoined
  <2>4. Live(store, k, clock)
    BY <1>15, <2>2 DEF ValueJoined, MayStore, Concats
  <2>5. cacheMap[k].val = store.val[old] /\ cacheMap[k].exptime = store.exptime[old]
    <3>1. cacheMap[k] = Entry(store, old)
      BY <1>2, <2>4, PresentIsLive
    <3>2. Entry(store, old).val = store.val[old] /\ Entry(store, old).exptime = store.exptime[old]
      BY DEF Entry
    <3> HIDE DEF k, old
    <3> QED
      BY <3>1, <3>2
  <2>6. C!NewEntry(r, v) = [val |-> val, cas |-> store.cas_id + 1, exptime |-> store.exptime[old]]
    <3>1. CASE cmd[c] = "append"
      BY <1>4, <2>5, <3>1 DEF C!NewEntry
    <3>2. CASE cmd[c] = "prepend"
      BY <1>4, <2>5, <3>2 DEF C!NewEntry
    <3> QED
      BY <2>2, <3>1, <3>2 DEF Concats
  <2> HIDE DEF val
  <2>7. C!Store(c, v)
    BY <1>3, <1>4, <1>13, <2>1, <2>2, <2>3, <2>6 DEF C!Store
  <2> QED
    BY <1>11, <1>13, <2>3, <2>7
<1>16. CASE /\ ValueRejected(it, cmd[c], W) /\ up' = TRUE
            /\ out' = Reply(c, IF cmd[c] = "cas" THEN "EXISTS" ELSE "NOT_STORED")
  <2>1. /\ C!Says(c, IF r.cmd = "cas" THEN "EXISTS" ELSE "NOT_STORED") /\ up' = up
        /\ ~C!Allowed(r) \/ C!Concat(r)
    BY <1>4, <1>5, <1>6, <1>7, <1>16, ReplySays DEF ValueRejected
  <2>2. r.cmd = "cas" => C!Present(k)
    BY <1>2, <1>4, <1>16, PresentIsLive DEF ValueRejected
  <2>3. cacheMap' \in C!AfterLookup(k) /\ store'.cas_id = store.cas_id /\ Moves(store, store', W)
    <3>1. CASE Live(store, k, clock)
      <4>1. Stays(store, store', W) /\ C!Present(k)
        BY <1>2, <1>16, <3>1, PresentIsLive DEF ValueRejected, Looked
      <4>2. cacheMap' = cacheMap
        BY <1>2, <1>9, <4>1, EffectMaps
      <4> QED
        BY <4>1, <4>2 DEF C!AfterLookup, Stays
    <3>2. CASE ~Live(store, k, clock)
      <4>1. Clears(store, store', k, W) /\ ~C!Present(k)
        BY <1>2, <1>16, <3>2, PresentIsLive DEF ValueRejected, Looked
      <4> QED
        BY <1>12, <4>1 DEF C!AfterLookup
    <3> QED
      BY <3>1, <3>2
  <2>4. C!Reject(c)
    BY <1>3, <1>4, <2>1, <2>2, <2>3 DEF C!Reject
  <2> QED
    BY <1>11, <2>3, <2>4
<1>17. CASE ValueKills(it, cmd[c], W) /\ up' = FALSE /\ out' = Reply(NoConn, "none")
  <2>1. Clears(store, store', k, W) /\ cmd[c] = "cas" /\ ~C!Present(k)
    BY <1>2, <1>17, PresentIsLive DEF ValueKills
  <2>2. C!Says(NoConn, "none")
    BY <1>17, ReplySays
  <2>3. C!Die(c)
    BY <1>3, <1>4, <1>12, <1>17, <2>1, <2>2 DEF C!Die
  <2> QED
    BY <1>11, <1>12, <2>1, <2>3
<1> QED
  BY <1>8, <1>14, <1>15, <1>16, <1>17

\* conn_close before the value is Abandon.
LEMMA CloseRefines ==
  ASSUME CacheInv, NEW c \in Conn, conn_close(c)
  PROVE  C!Abandon(c)
<1>1. /\ up /\ held[c] # NoItem /\ store' = store /\ clock' = clock /\ up' = up
      /\ held' = [held EXCEPT ![c] = NoItem] /\ cmd' = [cmd EXCEPT ![c] = "none"]
      /\ out' = Reply(NoConn, "none")
  BY DEF conn_close
<1>2. requestMap[c] # NoRequest
  BY <1>1, HeldItem, CacheInvFacts, RequestViews, RequestMade
<1>3. requestMap' = [requestMap EXCEPT ![c] = NoRequest]
  <2>1. SameItems(store, store')
    BY <1>1 DEF SameItems, SameData
  <2>2. Intact(store, store', UsedIn(store))
    BY <2>1, CacheInvFacts, SameStays DEF Stays, Moves
  <2> QED
    BY <1>1, <2>2, RequestEnds
<1>4. cacheMap' = cacheMap
  BY <1>1, MapViews
<1>5. C!Says(NoConn, "none")
  BY <1>1, ReplySays
<1> QED
  BY <1>1, <1>2, <1>3, <1>4, <1>5 DEF C!Abandon

\* Time passes for the map as well.
LEMMA TickRefines ==
  ASSUME Tick
  PROVE  C!Tick
<1>1. /\ up /\ clock' = clock + 1 /\ store' = store /\ held' = held /\ cmd' = cmd
      /\ out' = out /\ up' = up
  BY DEF Tick
<1>2. cacheMap' = cacheMap
  BY <1>1, MapViews
<1>3. requestMap' = requestMap /\ replyMap' = replyMap
  BY <1>1 DEF requestMap, RequestOf, replyMap
<1> QED
  BY <1>1, <1>2, <1>3 DEF C!Tick

\* The constructors make an empty map.
LEMMA InitRefines == Init => C!Init
<1> SUFFICES ASSUME Init PROVE C!Init
  OBVIOUS
<1>1. CacheInv
  BY InitCacheInv
<1>2. store.chain = [b \in Bucket |-> <<>>] /\ store.cas_id = 0
  BY DEF Init, StoreInit
<1>3. InChain(store) = {}
  BY <1>2 DEF InChain, Range
<1>4. Shows(store, InChain(store), MapOf(store))
  BY <1>1, CacheInvFacts, MapShows
<1>5. cacheMap = [k \in Key |-> NoEntry]
  BY <1>3, <1>4, MapViews DEF Shows
<1>6. requestMap = [c \in Conn |-> NoRequest]
  BY DEF Init, requestMap
<1>7. replyMap = [conn |-> NoConn, msg |-> "none", val |-> <<>>, cas |-> 0]
  BY DEF Init, replyMap, Reply, NoHit
<1> QED
  BY <1>2, <1>5, <1>6, <1>7 DEF Init, C!Init

\* Every step of the item store is a step of the map, or changes nothing
\* that the map shows.
LEMMA NextRefines ==
  ASSUME CacheInv, CacheInv', [Next]_vars
  PROVE  [C!Next]_C!vars
<1>1. CASE \E c \in Conn, k \in Key : get_command(c, k)
  BY <1>1, GetRefines DEF C!Next
<1>2. CASE \E c \in Conn, k \in Key : delete_command(c, k)
  BY <1>2, DeleteRefines DEF C!Next
<1>3. CASE \E c \in Conn, command \in Cmd, k \in Key, flags \in ClientFlags,
              exptime \in Exptimes, n \in Lengths, cas \in CasIds :
             command_five_six_para(c, command, k, flags, exptime, n, cas)
  <2>1. PICK c \in Conn, command \in Cmd, k \in Key, flags \in ClientFlags,
             exptime \in Exptimes, n \in Lengths, cas \in CasIds :
               command_five_six_para(c, command, k, flags, exptime, n, cas)
    BY <1>3
  <2>2. /\ command \in StoreCmd /\ flags \in SUBSET ItemFlag
        /\ exptime \in Int /\ n \in Nat /\ cas \in Nat
    BY ClientAssumption
  <2>3. C!Begin(c) \/ C!Refuse(c, k)
    BY <2>1, <2>2, AcceptRefines, RefuseRefines DEF command_five_six_para
  <2> QED
    BY <2>3 DEF C!Next
<1>4. CASE \E c \in Conn, v \in Value : read_value_stored(c, v)
  <2>1. PICK c \in Conn, v \in Value : read_value_stored(c, v)
    BY <1>4
  <2>2. C!Finish(c, v)
    BY <2>1, ValueType, ValueRefines
  <2> QED
    BY <2>2 DEF C!Next
<1>5. CASE \E c \in Conn : conn_close(c)
  BY <1>5, CloseRefines DEF C!Next
<1>6. CASE Tick
  BY <1>6, TickRefines DEF C!Next
<1>7. CASE UNCHANGED vars
  <2>1. store' = store /\ held' = held /\ cmd' = cmd /\ out' = out /\ clock' = clock /\ up' = up
    BY <1>7 DEF vars
  <2>2. cacheMap' = cacheMap
    BY <2>1, MapViews
  <2>3. requestMap' = requestMap /\ replyMap' = replyMap
    BY <2>1 DEF requestMap, RequestOf, replyMap
  <2> QED
    BY <2>1, <2>2, <2>3 DEF C!vars
<1> QED
  BY <1>1, <1>2, <1>3, <1>4, <1>5, <1>6, <1>7 DEF Next

\* The item store implements the map of Cache, whatever its sizes, clients
\* and values: under every interleaving of commands the replies are those of
\* a map with conditional stores, in which a key may also be lost when
\* another key of its bucket is taken out.
THEOREM StoreImplementsCache == Spec => ImplementsCache
<1>1. Init => C!Init
  BY InitRefines
<1>2. CacheInv /\ CacheInv' /\ [Next]_vars => [C!Next]_C!vars
  BY NextRefines
<1> QED
  BY <1>1, <1>2, CacheInvariance, PTL DEF Spec, ImplementsCache, C!Spec

=============================================================================
