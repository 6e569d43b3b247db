------------------------------ MODULE StoreProofs ------------------------------
(***************************************************************************)
(* Theorems about module Store for every value of its constants.  The      *)
(* inductive invariant Inv adds to TypeOK, NeverEvicts and ChunkOwnership  *)
(* the bound on the pages of a class and the fact that a held item has a   *)
(* key; StoreLemmas says what each function of slab.cpp does to its parts. *)
(***************************************************************************)
EXTENDS StoreLemmas

HeldKeys == \A c \in Conn : held[c] # NoItem => store.key[held[c]] \in Key

Owned ==
  /\ Held \cup Chained \subseteq InUse
  /\ Held \cap Chained = {}
  /\ \A c, d \in Conn : held[c] = held[d] /\ held[c] # NoItem => c = d

Inv == TypeOK /\ Sound(store) /\ Owned /\ HeldKeys

-----------------------------------------------------------------------------
(* Initial states *)

\* The constructors leave a typed store.
LEMMA StoreInitType == StoreInit \in StoreState
<1>1. /\ 0 \in Nat /\ 0 \in Int /\ 0 \in ListId /\ 0 \in 0..(UInt - 1)
      /\ InitialList \in Nat /\ PreallocBytes \in Nat
  BY SlabAssumption, StoreAssumption, PreallocAssumption, ListIdType
<1>2. \A id \in SlabClass : PerSlab[id] \in Nat /\ FreshSlots(id, 1) \in Seq(Chunk)
  BY SlabAssumption, FreshSlotsType
<1>3. SlabInit.slots \in [SlabClass -> Seq(Chunk)]
  BY <1>2 DEF SlabInit
<1>4. /\ SlabInit.sl_curr \in [SlabClass -> Nat]
      /\ SlabInit.slabs \in [SlabClass -> Nat]
      /\ SlabInit.list_size \in [SlabClass -> Nat]
      /\ SlabInit.requested \in [SlabClass -> Int]
      /\ SlabInit.mem_malloced \in Nat
  BY <1>1, <1>2 DEF SlabInit
<1>5. /\ SlabInit.flag \in [Chunk -> SUBSET ItemFlag]
      /\ SlabInit.slabs_clsid \in [Chunk -> ListId]
  BY <1>1 DEF SlabInit, ItemFlag
<1> HIDE DEF SlabInit
<1>6. <<>> \in Seq(Chunk) /\ <<>> \in Seq(Atom)
  OBVIOUS
<1> QED
  BY <1>1, <1>3, <1>4, <1>5, <1>6 DEF StoreInit, StoreState

\* The constructors leave sound free lists and headers without a class.
LEMMA StoreInitSound == Sound(StoreInit)
<1>1. StoreInit.slots = SlabInit.slots /\ StoreInit.sl_curr = SlabInit.sl_curr
      /\ StoreInit.slabs = SlabInit.slabs /\ StoreInit.slabs_clsid = SlabInit.slabs_clsid
  BY DEF StoreInit
<1>2. Unlisted(StoreInit)
  <2>1. \A it \in Chunk : SlabInit.slabs_clsid[it] = 0
    BY DEF SlabInit
  <2>2. \A id \in ListId : StoreInit.tails[id] = NoItem /\ StoreInit.heads[id] = NoItem
    BY DEF StoreInit
  <2> QED
    BY <1>1, <2>1, <2>2, ListIdType DEF Unlisted
<1>3. FreeListsSound(StoreInit)
  <2> SUFFICES ASSUME NEW id \in SlabClass
               PROVE  /\ SlabInit.slabs[id] <= MaxSlabs
                      /\ IsInjective(SlabInit.slots[id])
                      /\ SlabInit.sl_curr[id] = Len(SlabInit.slots[id])
                      /\ \A it \in Range(SlabInit.slots[id]) :
                           it[1] = id /\ it[2] <= SlabInit.slabs[id]
    BY <1>1 DEF FreeListsSound
  <2>1. 1 \in 1..MaxSlabs
    BY SlabAssumption
  <2>2. CASE Preallocated(id)
    <3>1. /\ SlabInit.slots[id] = FreshSlots(id, 1)
          /\ SlabInit.sl_curr[id] = PerSlab[id]
          /\ SlabInit.slabs[id] = 1
      BY <2>2 DEF SlabInit
    <3> QED
      BY <2>1, <3>1, FreshSlotsType, ChunkParts
  <2>3. CASE ~Preallocated(id)
    <3>1. /\ SlabInit.slots[id] = <<>>
          /\ SlabInit.sl_curr[id] = 0
          /\ SlabInit.slabs[id] = 0
      BY <2>3 DEF SlabInit
    <3>2. Range(<<>>) = {} /\ IsInjective(<<>>) /\ Len(<<>>) = 0
      BY DEF Range, IsInjective
    <3>3. 0 <= MaxSlabs
      BY SlabAssumption
    <3> QED
      BY <3>1, <3>2, <3>3
  <2> QED
    BY <2>2, <2>3
<1> QED
  BY <1>2, <1>3, StoreInitType DEF Sound

\* The invariant holds at the start.
LEMMA InitInv == Init => Inv
<1> SUFFICES ASSUME Init
             PROVE  Inv
  OBVIOUS
<1>1. store = StoreInit /\ Sound(store)
  BY StoreInitSound DEF Init
<1>2. TypeOK
  BY <1>1, ClientAssumption DEF Sound, Init, TypeOK, Reply
<1>3. Held = {} /\ HeldKeys
  BY DEF Init, Held, HeldKeys
<1>4. Chained = {}
  <2>1. \A b \in Bucket : store.chain[b] = <<>>
    BY <1>1 DEF StoreInit
  <2>2. Range(<<>>) = {}
    BY DEF Range
  <2> QED
    BY <2>1, <2>2 DEF Chained
<1>5. Owned
  BY <1>3, <1>4 DEF Owned, Init
<1> QED
  BY <1>1, <1>2, <1>3, <1>5 DEF Inv

-----------------------------------------------------------------------------
(* Steps *)

\* The views of a store and the state functions of Store are the same sets.
LEMMA Views ==
  /\ InChain(store) = Chained /\ UsedIn(store) = InUse
  /\ InChain(store') = Chained' /\ UsedIn(store') = InUse'
  BY DEF InChain, Chained, UsedIn, InUse, Free

\* A step of the store that chains at most items of A, which no connection
\* holds afterwards.
LEMMA OwnershipStep ==
  ASSUME Inv, NEW A, Advances(store, store', A),
         held' \in [Conn -> Chunk \cup {NoItem}],
         \A c \in Conn : held'[c] \in {NoItem, held[c]},
         A \subseteq Held, A \cap Held' = {}
  PROVE  Sound(store)' /\ Owned' /\ HeldKeys' /\ InUse \subseteq InUse'
<1>1. /\ Held \cup Chained \subseteq InUse
      /\ Held \cap Chained = {}
      /\ \A c, d \in Conn : held[c] = held[d] /\ held[c] # NoItem => c = d
      /\ \A c \in Conn : held[c] # NoItem => store.key[held[c]] \in Key
  BY DEF Inv, Owned, HeldKeys
<1>2. /\ Sound(store')
      /\ InUse \subseteq InUse'
      /\ \A it \in InUse : store'.key[it] = store.key[it]
      /\ Chained' \subseteq Chained \cup A \cup (InUse' \ InUse)
  BY Views DEF Advances
<1>3. Held' \subseteq Held
  BY DEF Held
<1>4. Chained' \subseteq InUse'
  BY <1>1, <1>2
<1>5. Held' \cap Chained' = {}
  BY <1>1, <1>2, <1>3
<1>6. \A c, d \in Conn : held'[c] = held'[d] /\ held'[c] # NoItem => c = d
  BY <1>1
<1>7. \A c \in Conn : held'[c] # NoItem => held'[c] = held[c] /\ held[c] \in InUse
  BY <1>1 DEF Held
<1>8. HeldKeys'
  BY <1>1, <1>2, <1>7 DEF HeldKeys
<1> QED
  BY <1>1, <1>2, <1>3, <1>4, <1>5, <1>6, <1>8 DEF Owned

\* What the invariant gives to every step.
LEMMA InvFacts ==
  ASSUME Inv
  PROVE  /\ TypeOK /\ Sound(store)
         /\ store \in StoreState /\ Unlisted(store)
         /\ held \in [Conn -> Chunk \cup {NoItem}]
         /\ clock \in Nat
  BY DEF Inv, Sound, TypeOK

\* get_command keeps the invariant.
LEMMA GetStep ==
  ASSUME Inv, NEW c \in Conn, NEW k \in Key, get_command(c, k)
  PROVE  Inv' /\ InUse \subseteq InUse'
<1> DEFINE got == do_item_get(store, k, clock)
<1>1. Keeps(store, got.s, {})
  BY InvFacts, DoItemGetKeeps
<1>2. Advances(store, store', {}) /\ held' = held
  BY <1>1, InvFacts, KeepsAdvances DEF get_command
<1>3. Sound(store)' /\ Owned' /\ HeldKeys' /\ InUse \subseteq InUse'
  BY <1>2, InvFacts, OwnershipStep
<1>4. TypeOK'
  <2>1. store' \in StoreState
    BY <1>3 DEF Sound
  <2>2. out'.conn = c
    BY DEF get_command, Reply, Found
  <2> QED
    BY <2>1, <2>2, InvFacts DEF get_command, TypeOK
<1> QED
  BY <1>3, <1>4 DEF Inv

\* delete_command keeps the invariant.
LEMMA DeleteStep ==
  ASSUME Inv, NEW c \in Conn, NEW k \in Key, delete_command(c, k)
  PROVE  Inv' /\ InUse \subseteq InUse'
<1> DEFINE got == do_item_get(store, k, clock)
<1>1. Keeps(store, got.s, {}) /\ got.ret \in Chunk \cup {NoItem}
  BY InvFacts, DoItemGetKeeps
<1>2. store' = (IF got.ret = NoItem THEN got.s ELSE Discard(got.s, got.ret)) /\ held' = held
  BY DEF delete_command
<1> HIDE DEF got
<1>3. got.ret # NoItem => Keeps(got.s, Discard(got.s, got.ret), {})
  BY <1>1, DiscardKeeps DEF Keeps
<1>4. Keeps(store, store', {})
  BY <1>1, <1>2, <1>3, KeepsTrans
<1>5. Advances(store, store', {})
  BY <1>4, InvFacts, KeepsAdvances
<1>6. Sound(store)' /\ Owned' /\ HeldKeys' /\ InUse \subseteq InUse'
  BY <1>2, <1>5, InvFacts, OwnershipStep
<1>7. TypeOK'
  <2>1. store' \in StoreState
    BY <1>6 DEF Sound
  <2>2. out'.conn = c
    BY DEF delete_command, Reply
  <2> QED
    BY <2>1, <2>2, InvFacts DEF delete_command, TypeOK
<1> QED
  BY <1>6, <1>7 DEF Inv

\* conn_close between command line and value keeps the invariant: the item
\* is lost, not freed.
LEMMA CloseStep ==
  ASSUME Inv, NEW c \in Conn, conn_close(c)
  PROVE  Inv' /\ InUse \subseteq InUse'
<1>1. Advances(store, store', {})
  BY InvFacts, AdvancesSelf DEF conn_close
<1>2. /\ held' \in [Conn -> Chunk \cup {NoItem}]
      /\ \A d \in Conn : held'[d] \in {NoItem, held[d]}
  BY InvFacts DEF conn_close
<1>3. Sound(store)' /\ Owned' /\ HeldKeys' /\ InUse \subseteq InUse'
  BY <1>1, <1>2, OwnershipStep
<1>4. TypeOK'
  BY <1>2, InvFacts DEF conn_close, TypeOK, Reply
<1> QED
  BY <1>3, <1>4 DEF Inv

\* The clock, and a step that changes nothing, keep the invariant.
LEMMA QuietStep ==
  ASSUME Inv, Tick \/ UNCHANGED vars
  PROVE  Inv' /\ InUse \subseteq InUse'
<1>1. store' = store /\ held' = held /\ TypeOK'
  BY InvFacts DEF Tick, vars, TypeOK
<1>2. Advances(store, store', {})
  BY <1>1, InvFacts, AdvancesSelf
<1>3. Sound(store)' /\ Owned' /\ HeldKeys' /\ InUse \subseteq InUse'
  BY <1>1, <1>2, InvFacts, OwnershipStep
<1> QED
  BY <1>1, <1>3 DEF Inv

\* A refused command line keeps the invariant.
LEMMA RefuseStep ==
  ASSUME Inv, NEW c \in Conn, NEW command, NEW k \in Key, NEW n \in Nat,
         RefuseHeader(c, command, k, n)
  PROVE  Inv' /\ InUse \subseteq InUse'
<1> DEFINE a == do_item_alloc(store, n, Granted).s
           got == do_item_get(a, k, clock)
<1>1. Advances(store, a, {})
  BY InvFacts, DoItemAllocAdvances
<1>2. /\ store' = (IF command # "set" THEN a
                   ELSE IF got.ret = NoItem THEN got.s ELSE Discard(got.s, got.ret))
      /\ held' = held
  BY DEF RefuseHeader
<1> HIDE DEF a
<1>3. Sound(a) /\ a \in StoreState /\ Unlisted(a)
  BY <1>1 DEF Advances, Sound
<1>4. Keeps(a, got.s, {}) /\ got.ret \in Chunk \cup {NoItem}
  BY <1>3, InvFacts, DoItemGetKeeps
<1> HIDE DEF got
<1>5. got.ret # NoItem => Keeps(got.s, Discard(got.s, got.ret), {})
  BY <1>4, DiscardKeeps DEF Keeps
<1>6. Keeps(a, store', {})
  BY <1>2, <1>3, <1>4, <1>5, KeepsTrans, KeepsSelf
<1>7. Advances(store, store', {})
  BY <1>1, <1>3, <1>6, KeepsAdvances, AdvancesTrans
<1>8. Sound(store)' /\ Owned' /\ HeldKeys' /\ InUse \subseteq InUse'
  BY <1>2, <1>7, InvFacts, OwnershipStep
<1>9. TypeOK'
  <2>1. store' \in StoreState
    BY <1>8 DEF Sound
  <2>2. out'.conn = c
    BY DEF RefuseHeader, Reply
  <2> QED
    BY <2>1, <2>2, InvFacts DEF RefuseHeader, TypeOK
<1> QED
  BY <1>8, <1>9 DEF Inv

\* realtime turns every exptime a client may send into a time.
LEMMA RealtimeType ==
  ASSUME NEW exptime \in Int, NEW now \in Nat
  PROVE  realtime(exptime, now) \in Nat
  BY ClientAssumption DEF realtime

\* The header fields of a chunk that was just allocated.
WithHeader(s, it, cas, k, flags, exptime, n) ==
  [s EXCEPT !.cas[it] = cas, !.key[it] = k, !.flag[it] = flags,
            !.exptime[it] = exptime, !.nbytes[it] = n]

\* Filling in the header of a new item disturbs no item in use.
LEMMA HeaderAdvances ==
  ASSUME NEW s, NEW a, Advances(s, a, {}), NEW it \in Chunk, it \notin UsedIn(s),
         NEW cas \in Nat, NEW k \in Key, NEW flags \in SUBSET ItemFlag,
         NEW exptime \in Nat, NEW n \in Nat
  PROVE  LET t == WithHeader(a, it, cas, k, flags, exptime, n)
         IN  /\ Advances(s, t, {})
             /\ UsedIn(t) = UsedIn(a) /\ InChain(t) = InChain(a)
             /\ t.key[it] = k
<1> DEFINE t == WithHeader(a, it, cas, k, flags, exptime, n)
<1>1. a \in StoreState /\ Unlisted(a) /\ FreeListsSound(a)
  BY DEF Advances, Sound
<1>2. t \in StoreState
  BY <1>1 DEF StoreState, WithHeader
<1>3. /\ t.slots = a.slots /\ t.sl_curr = a.sl_curr /\ t.slabs = a.slabs
      /\ t.slabs_clsid = a.slabs_clsid /\ t.chain = a.chain
      /\ t.heads = a.heads /\ t.tails = a.tails
      /\ t.key = [a.key EXCEPT ![it] = k]
  BY <1>1 DEF StoreState, WithHeader
<1> HIDE DEF t
<1>4. a.key \in [Chunk -> Key \cup {NoKey}]
  BY <1>1 DEF StoreState
<1>5. Sound(t)
  BY <1>1, <1>2, <1>3 DEF Sound, Unlisted, FreeListsSound
<1>6. UsedIn(t) = UsedIn(a) /\ InChain(t) = InChain(a)
  BY <1>3 DEF UsedIn, InChain
<1>7. \A x \in UsedIn(s) : x \in Chunk /\ t.key[x] = a.key[x]
  BY <1>3, <1>4 DEF UsedIn
<1>8. Advances(s, t, {})
  BY <1>5, <1>6, <1>7 DEF Advances
<1>9. t.key[it] = k
  BY <1>3, <1>4
<1> QED
  BY <1>6, <1>8, <1>9 DEF t

\* An accepted command line keeps the invariant: the new item is held by one
\* connection only.
LEMMA AcceptStep ==
  ASSUME Inv, NEW c \in Conn, NEW command \in StoreCmd, NEW k \in Key,
         NEW flags \in SUBSET ItemFlag, NEW exptime \in Int, NEW n \in Nat, NEW cas \in Nat,
         AcceptHeader(c, command, k, flags, exptime, n, cas)
  PROVE  Inv' /\ InUse \subseteq InUse'
<1> DEFINE alloc == do_item_alloc(store, n, Granted)
           a == alloc.s
           it == alloc.ret
           e == realtime(exptime, clock)
<1>1. /\ Advances(store, a, {})
      /\ InChain(a) = InChain(store)
      /\ it = NoItem \/ it \in UsedIn(a) \ UsedIn(store)
  BY InvFacts, DoItemAllocAdvances
<1>2. /\ held[c] = NoItem
      /\ it # NoItem
      /\ store' = [a EXCEPT !.cas[it] = cas, !.key[it] = k, !.flag[it] = flags,
                            !.exptime[it] = e, !.nbytes[it] = n]
      /\ held' = [held EXCEPT ![c] = it]
  BY DEF AcceptHeader, Idle
<1>3. e \in Nat
  BY InvFacts, RealtimeType
<1> HIDE DEF alloc, e
<1>4. it \in Chunk /\ it \in UsedIn(a) /\ it \notin UsedIn(store)
  BY <1>1, <1>2 DEF UsedIn
<1> HIDE DEF a, it
<1>5. /\ Advances(store, store', {})
      /\ UsedIn(store') = UsedIn(a) /\ InChain(store') = InChain(a)
      /\ store'.key[it] = k
  <2> DEFINE t == WithHeader(a, it, cas, k, flags, e, n)
  <2>1. /\ Advances(store, t, {})
        /\ UsedIn(t) = UsedIn(a) /\ InChain(t) = InChain(a)
        /\ t.key[it] = k
    BY <1>1, <1>3, <1>4, HeaderAdvances
  <2>2. store' = t
    BY <1>2 DEF WithHeader
  <2> HIDE DEF t
  <2> QED
    BY <2>1, <2>2
<1>6. /\ Sound(store')
      /\ InUse \subseteq InUse'
      /\ \A x \in InUse : store'.key[x] = store.key[x]
      /\ Chained' = Chained
      /\ it \in InUse' /\ it \notin InUse
  BY <1>1, <1>4, <1>5, Views DEF Advances
<1>7. /\ Held \cup Chained \subseteq InUse
      /\ Held \cap Chained = {}
      /\ \A x, y \in Conn : held[x] = held[y] /\ held[x] # NoItem => x = y
      /\ \A x \in Conn : held[x] # NoItem => store.key[held[x]] \in Key
  BY DEF Inv, Owned, HeldKeys
<1>8. /\ held' \in [Conn -> Chunk \cup {NoItem}]
      /\ \A x \in Conn : held'[x] = IF x = c THEN it ELSE held[x]
  BY <1>2, <1>4, InvFacts
<1>9. \A x \in Conn : held[x] # NoItem => held[x] \in InUse /\ held[x] # it
  BY <1>6, <1>7 DEF Held
<1>10. Held' \subseteq Held \cup {it}
  BY <1>8 DEF Held
<1>11. Owned'
  <2>1. Held' \cup Chained' \subseteq InUse'
    BY <1>6, <1>7, <1>10
  <2>2. Held' \cap Chained' = {}
    BY <1>6, <1>7, <1>10
  <2>3. \A x, y \in Conn : held'[x] = held'[y] /\ held'[x] # NoItem => x = y
    BY <1>7, <1>8, <1>9
  <2> QED
    BY <2>1, <2>2, <2>3 DEF Owned
<1>12. HeldKeys'
  BY <1>5, <1>6, <1>7, <1>8, <1>9 DEF HeldKeys
<1>13. TypeOK'
  <2>1. store' \in StoreState
    BY <1>6 DEF Sound
  <2>2. cmd' \in [Conn -> StoreCmd \cup {"none"}] /\ out'.conn = NoConn
    BY InvFacts DEF AcceptHeader, TypeOK, Reply
  <2> QED
    BY <1>8, <2>1, <2>2, InvFacts DEF AcceptHeader, TypeOK
<1> QED
  BY <1>6, <1>11, <1>12, <1>13 DEF Inv

\* A value is a sequence of atoms.
LEMMA ValueType == Value \subseteq Seq(Atom)
<1> SUFFICES ASSUME NEW n \in Lengths, NEW v \in [1..n -> Atom]
             PROVE  v \in Seq(Atom)
  BY DEF Value
<1>1. n \in Nat
  BY ClientAssumption
<1> QED
  BY <1>1

\* read_value_stored keeps the invariant: the item goes from the connection to
\* the hash table, or is lost.
LEMMA ValueStep ==
  ASSUME Inv, NEW c \in Conn, NEW v \in Seq(Atom), read_value_stored(c, v)
  PROVE  Inv' /\ InUse \subseteq InUse'
<1> DEFINE it == held[c]
           s == [store EXCEPT !.val[it] = v]
           r == do_store_item(s, it, cmd[c], clock, Granted)
<1>1. it \in Chunk /\ store.key[it] \in Key
  BY InvFacts DEF read_value_stored, Inv, HeldKeys
<1>2. /\ store' = r.s
      /\ held' = [held EXCEPT ![c] = NoItem]
  BY DEF read_value_stored
<1>3. Keeps(store, s, {})
  <2>1. s \in StoreState
    BY <1>1, InvFacts DEF StoreState
  <2>2. /\ s.slots = store.slots /\ s.sl_curr = store.sl_curr /\ s.slabs = store.slabs
        /\ s.key = store.key /\ s.slabs_clsid = store.slabs_clsid /\ s.chain = store.chain
        /\ s.heads = store.heads /\ s.tails = store.tails
    BY InvFacts DEF StoreState
  <2> HIDE DEF s
  <2> QED
    BY <2>1, <2>2, InvFacts, ListKeeps
<1> HIDE DEF s
<1>4. Advances(store, s, {}) /\ s.key = store.key
  BY <1>3, InvFacts, KeepsAdvances DEF Keeps
<1>5. Advances(s, r.s, {it})
  BY <1>1, <1>4, InvFacts, DoStoreItemAdvances DEF Advances
<1> HIDE DEF r
<1>6. Advances(store, store', {it})
  <2>1. Advances(store, r.s, {} \cup {it})
    BY <1>4, <1>5, AdvancesTrans
  <2> QED
    BY <1>2, <2>1
<1>7. /\ held' \in [Conn -> Chunk \cup {NoItem}]
      /\ \A d \in Conn : held'[d] = IF d = c THEN NoItem ELSE held[d]
  BY <1>2, InvFacts
<1>8. {it} \subseteq Held /\ {it} \cap Held' = {}
  <2>1. it \in Held /\ it # NoItem
    BY <1>1, NoItemNotChunk DEF Held
  <2>2. \A d \in Conn : d # c => held[d] # it
    BY <2>1 DEF Inv, Owned
  <2>3. it \notin Held'
    BY <1>7, <2>1, <2>2 DEF Held
  <2> QED
    BY <2>1, <2>3
<1>9. Sound(store)' /\ Owned' /\ HeldKeys' /\ InUse \subseteq InUse'
  BY <1>6, <1>7, <1>8, OwnershipStep
<1>10. TypeOK'
  <2>1. store' \in StoreState
    BY <1>9 DEF Sound
  <2>2. /\ cmd' \in [Conn -> StoreCmd \cup {"none"}]
        /\ clock' = clock /\ up' \in BOOLEAN
    BY InvFacts DEF read_value_stored, TypeOK
  <2>3. out'.conn \in Conn \cup {NoConn}
    BY DEF read_value_stored, Reply
  <2> QED
    BY <1>7, <2>1, <2>2, <2>3, InvFacts DEF TypeOK
<1> QED
  BY <1>9, <1>10 DEF Inv

\* Every step of the store keeps the invariant.
LEMMA NextStep ==
  ASSUME Inv, [Next]_vars
  PROVE  Inv' /\ InUse \subseteq InUse'
<1>1. CASE \E c \in Conn, k \in Key : get_command(c, k)
  BY <1>1, GetStep
<1>2. CASE \E c \in Conn, k \in Key : delete_command(c, k)
  BY <1>2, DeleteStep
<1>3. CASE \E c \in Conn, command \in Cmd, k \in Key, flags \in ClientFlags,
              exptime \in Exptimes, n \in Lengths, cas \in CasIds :
             command_five_six_para(c, command, k, flags, exptime, n, cas)
  <2>1. PICK c \in Conn, command \in Cmd, k \in Key, flags \in ClientFlags,
             exptime \in Exptimes, n \in Lengths, cas \in CasIds :
               command_five_six_para(c, command, k, flags, exptime, n, cas)
    BY <1>3
  <2>2. /\ command \in StoreCmd /\ flags \in SUBSET ItemFlag
        /\ exptime \in Int /\ n \in Nat /\ cas \in Nat
    BY ClientAssumption
  <2> QED
    BY <2>1, <2>2, AcceptStep, RefuseStep DEF command_five_six_para
<1>4. CASE \E c \in Conn, v \in Value : read_value_stored(c, v)
  BY <1>4, ValueType, ValueStep
<1>5. CASE \E c \in Conn : conn_close(c)
  BY <1>5, CloseStep
<1>6. CASE Tick \/ UNCHANGED vars
  BY <1>6, QuietStep
<1> QED
  BY <1>1, <1>2, <1>3, <1>4, <1>5, <1>6 DEF Next

-----------------------------------------------------------------------------
(* Theorems *)

\* Inv holds in every reachable state.
LEMMA Invariance == Spec => []Inv
<1>1. Init => Inv
  BY InitInv
<1>2. Inv /\ [Next]_vars => Inv'
  BY NextStep
<1> QED
  BY <1>1, <1>2, PTL DEF Spec

\* The state of slab.cpp and of the connections keeps its types, whatever
\* commands, flags, lengths and exptimes the clients send.
THEOREM TypeCorrect == Spec => []TypeOK
<1>1. Inv => TypeOK
  BY DEF Inv
<1> QED
  BY <1>1, Invariance, PTL

\* do_item_alloc never finds an item to evict: no header is given a class,
\* so nothing is ever on the LRU list of a class it searches.
THEOREM NothingIsEvicted == Spec => []NeverEvicts
<1>1. Inv => NeverEvicts
  BY DEF Inv, Sound, Unlisted, NeverEvicts
<1> QED
  BY <1>1, Invariance, PTL

\* A chunk is on one free list, held by one connection that awaits a value,
\* chained in the hash table, or lost: no two commands share memory.
THEOREM ChunksHaveOneOwner == Spec => []ChunkOwnership
<1>1. Inv => ChunkOwnership
  BY DEF Inv, Sound, FreeListsSound, Owned, ChunkOwnership, Free
<1> QED
  BY <1>1, Invariance, PTL

\* Memory that was handed out for an item is never handed out again: no
\* command, expiry or disconnection brings a chunk back to a free list.
THEOREM NothingIsFreed == Spec => NeverFreed
<1>1. Inv /\ [Next]_vars => [InUse \subseteq InUse']_vars
  BY NextStep
<1> QED
  BY <1>1, Invariance, PTL DEF Spec, NeverFreed

=============================================================================
