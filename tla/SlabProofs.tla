------------------------------ MODULE SlabProofs ------------------------------
(***************************************************************************)
(* Theorems about Slab, for any table of classes, any limit, any sizes     *)
(* asked for and any failures of malloc and realloc.                       *)
(***************************************************************************)
EXTENDS Slab, SlabLemmas

-----------------------------------------------------------------------------
(* The invariant, as a predicate of a state record s and of what is lent *)

LentIn(l, id) == {it \in Chunk : l[it] # 0 /\ it[1] = id}

PagesIn(s, id) == UNION {Page(id, p) : p \in 1..s.slabs[id]}

\* PagesAccounted for class id.
Accounted(s, l, id) ==
  /\ IsInjective(s.slots[id])
  /\ s.sl_curr[id] = Len(s.slots[id])
  /\ \A it \in Range(s.slots[id]) : l[it] = 0
  /\ Range(s.slots[id]) \cup LentIn(l, id) = PagesIn(s, id)

\* Each class below the largest has a slab, so only the largest class can
\* have its first slab taken past the limit.
Started(s) == \A id \in SlabClass : id < PowerLargest => s.slabs[id] > 0

\* No header names a class: do_slabs_free never refuses.
NoClass(s) == \A it \in Chunk : s.slabs_clsid[it] = 0

Room(s) == \A id \in SlabClass : s.slabs[id] <= s.list_size[id]

Bounded(s) ==
  MemLimit # 0 =>
    s.mem_malloced <=
      AtLeast(PreallocBytes, MemLimit)
        + (IF s.slabs[PowerLargest] > 0 THEN SlabLen(PowerLargest) ELSE 0)

Good(s, l) ==
  /\ s \in SlabState
  /\ l \in [Chunk -> Requests \cup {0}]
  /\ \A id \in SlabClass : Accounted(s, l, id)
  /\ Started(s)
  /\ NoClass(s)
  /\ Room(s)
  /\ Bounded(s)

-----------------------------------------------------------------------------
\* The length of a slab is a number of bytes.
LEMMA SlabLenType == \A id \in SlabClass : SlabLen(id) \in Nat /\ PerSlab[id] \in Nat
<1> SUFFICES ASSUME NEW id \in SlabClass PROVE SlabLen(id) \in Nat /\ PerSlab[id] \in Nat
  OBVIOUS
<1>1. Size[id] \in Nat /\ PerSlab[id] \in Nat
  BY SlabAssumption
<1>2. Size[id] * PerSlab[id] \in Nat
  BY <1>1
<1> QED
  BY <1>1, <1>2 DEF SlabLen

\* The largest class is a class.
LEMMA LargestType == PowerLargest \in SlabClass /\ SlabClass \subseteq Int
BY SlabAssumption DEF SlabClass

\* grow_slab_list only changes slab_list, makes it no shorter than the number
\* of pages, and longer than it when it reports success.
LEMMA GrowEffect ==
  ASSUME NEW s \in SlabState, Room(s), NEW id \in SlabClass, NEW os
  PROVE  LET g == grow_slab_list(s, id, os)
         IN  \E n \in Nat : /\ g.s = [s EXCEPT !.list_size[id] = n]
                            /\ s.slabs[id] <= n
                            /\ g.ret => s.slabs[id] + 1 <= n
<1> DEFINE m == s.list_size[id]
           g == grow_slab_list(s, id, os)
<1>1. m \in Nat /\ s.list_size \in [SlabClass -> Nat] /\ s.slabs[id] \in Nat /\ s.slabs[id] <= m
  BY SlabAssumption DEF SlabState, Room
<1>2. s = [s EXCEPT !.list_size[id] = m]
  <2>1. s.list_size = [s.list_size EXCEPT ![id] = m]
    BY <1>1
  <2> QED
    BY <2>1 DEF SlabState
<1>3. CASE s.slabs[id] # m
  <2>1. g.s = s
    BY <1>3 DEF grow_slab_list
  <2>2. s.slabs[id] + 1 <= m
    BY <1>1, <1>3
  <2> QED
    BY <1>1, <1>2, <2>1, <2>2
<1>4. CASE s.slabs[id] = m /\ ~os.realloc
  <2>1. g.s = s /\ g.ret = FALSE
    BY <1>4 DEF grow_slab_list
  <2> QED
    BY <1>1, <1>2, <2>1
<1>5. CASE s.slabs[id] = m /\ os.realloc
  <2> DEFINE n == IF m = 0 THEN InitialList ELSE 2 * m
  <2>1. g.s = [s EXCEPT !.list_size[id] = n]
    BY <1>5 DEF grow_slab_list
  <2>2. n \in Nat /\ m + 1 <= n
    BY <1>1, SlabAssumption
  <2>3. s.slabs[id] <= n /\ s.slabs[id] + 1 <= n
    BY <1>1, <1>5, <2>2
  <2> HIDE DEF n
  <2> QED
    BY <2>1, <2>2, <2>3
<1> QED
  BY <1>3, <1>4, <1>5

\* A longer slab_list disturbs nothing.
LEMMA SetListGood ==
  ASSUME NEW s, NEW l, Good(s, l), NEW id \in SlabClass, NEW n \in Nat, s.slabs[id] <= n
  PROVE  Good([s EXCEPT !.list_size[id] = n], l)
<1> DEFINE t == [s EXCEPT !.list_size[id] = n]
<1>1. s \in SlabState
  BY DEF Good
<1>2. t \in SlabState
  BY <1>1 DEF SlabState
<1>3. /\ t.slots = s.slots /\ t.sl_curr = s.sl_curr /\ t.slabs = s.slabs
      /\ t.mem_malloced = s.mem_malloced /\ t.slabs_clsid = s.slabs_clsid
      /\ t.list_size = [s.list_size EXCEPT ![id] = n]
      /\ s.list_size \in [SlabClass -> Nat]
  BY <1>1 DEF SlabState
<1> HIDE DEF t
<1>4. Room(t)
  BY <1>3 DEF Good, Room
<1>5. Good(t, l)
  BY <1>2, <1>3, <1>4 DEF Good, Accounted, PagesIn, Started, NoClass, Bounded
<1> QED
  BY <1>5 DEF t

\* The chunks of a page that the class has not yet obtained are neither free
\* nor lent.
LEMMA PagesGrow ==
  ASSUME NEW s \in SlabState, NEW t, NEW id \in SlabClass,
         t.slabs[id] = s.slabs[id] + 1
  PROVE  PagesIn(t, id) = PagesIn(s, id) \cup Page(id, s.slabs[id] + 1)
<1> DEFINE n == s.slabs[id]
<1>1. n \in Nat
  BY SlabAssumption DEF SlabState
<1>2. 1..(n + 1) = 1..n \cup {n + 1}
  BY <1>1
<1> QED
  BY <1>2 DEF PagesIn

\* The memory bound survives a slab that do_slabs_newslab may take.
LEMMA SlabBounded ==
  ASSUME NEW s, NEW l, Good(s, l), NEW id \in SlabClass, ~OverLimit(s, id),
         NEW t, t.mem_malloced = s.mem_malloced + SlabLen(id),
         t.slabs = [s.slabs EXCEPT ![id] = s.slabs[id] + 1]
  PROVE  Bounded(t)
<1> SUFFICES ASSUME MemLimit # 0
             PROVE  t.mem_malloced <= AtLeast(PreallocBytes, MemLimit)
                      + (IF t.slabs[PowerLargest] > 0 THEN SlabLen(PowerLargest) ELSE 0)
  BY DEF Bounded
<1>1. /\ s.mem_malloced \in Nat /\ SlabLen(id) \in Nat /\ SlabLen(PowerLargest) \in Nat
      /\ MemLimit \in Nat /\ PreallocBytes \in Nat
      /\ s.slabs[id] \in Nat /\ s.slabs \in [SlabClass -> Int]
  BY SlabLenType, LargestType, SlabAssumption, PreallocAssumption DEF Good, SlabState
<1>2. s.mem_malloced + SlabLen(id) <= MemLimit \/ s.slabs[id] = 0
  BY <1>1 DEF OverLimit
<1>3. CASE s.mem_malloced + SlabLen(id) <= MemLimit
  BY <1>1, <1>3 DEF AtLeast
<1>4. CASE s.slabs[id] = 0
  <2>1. id = PowerLargest
    <3>1. ~(id < PowerLargest)
      BY <1>4 DEF Good, Started
    <3> QED
      BY <3>1, SlabAssumption DEF SlabClass
  <2>2. s.mem_malloced <= AtLeast(PreallocBytes, MemLimit)
    BY <1>1, <1>4, <2>1 DEF Good, Bounded, AtLeast
  <2>3. t.slabs[PowerLargest] = 1
    BY <1>1, <1>4, <2>1
  <2> QED
    BY <1>1, <2>1, <2>2, <2>3 DEF AtLeast
<1> QED
  BY <1>2, <1>3, <1>4

\* A slab for a class whose free list is empty.
LEMMA AddSlabGood ==
  ASSUME NEW s, NEW l, Good(s, l), NEW id \in SlabClass, s.sl_curr[id] = 0,
         ~OverLimit(s, id),
         NEW p, p = s.slabs[id] + 1, p <= MaxSlabs, p <= s.list_size[id],
         NEW flag,
         flag = [it \in Chunk |-> IF it \in Page(id, p) THEN {"SLABBED"} ELSE s.flag[it]]
  PROVE  Good([s EXCEPT !.slots[id]    = FreshSlots(id, p) \o s.slots[id],
                        !.sl_curr[id]  = s.sl_curr[id] + PerSlab[id],
                        !.slabs[id]    = p,
                        !.mem_malloced = s.mem_malloced + SlabLen(id),
                        !.flag         = flag], l)
<1> DEFINE slots == FreshSlots(id, p) \o s.slots[id]
           curr == s.sl_curr[id] + PerSlab[id]
           m == s.mem_malloced + SlabLen(id)
           t == [s EXCEPT !.slots[id] = slots, !.sl_curr[id] = curr, !.slabs[id] = p,
                          !.mem_malloced = m, !.flag = flag]
<1>1. s \in SlabState /\ l \in [Chunk -> Requests \cup {0}]
  BY DEF Good
<1>2. /\ s.slots \in [SlabClass -> Seq(Chunk)]
      /\ s.sl_curr \in [SlabClass -> Nat]
      /\ s.slabs \in [SlabClass -> 0..MaxSlabs]
      /\ s.list_size \in [SlabClass -> Nat]
      /\ s.mem_malloced \in Nat
  BY <1>1 DEF SlabState
<1>3. p \in 1..MaxSlabs /\ p \in 0..MaxSlabs
  BY <1>2, SlabAssumption
<1>4. s.slots[id] = <<>>
  BY <1>2 DEF Good, Accounted
<1>5. slots = FreshSlots(id, p)
  BY <1>3, <1>4, FreshSlotsType, ConcatEmptySeq
<1>6. /\ slots \in Seq(Chunk) /\ Len(slots) = PerSlab[id]
      /\ IsInjective(slots) /\ Range(slots) = Page(id, p)
  BY <1>3, <1>5, FreshSlotsType
<1>7. flag \in [Chunk -> SUBSET ItemFlag]
  BY <1>1 DEF SlabState, ItemFlag
<1>8. curr = PerSlab[id] /\ curr \in Nat /\ m \in Nat
  BY <1>2, SlabLenType
<1> HIDE DEF slots, curr, m
<1>9. t \in SlabState
  BY <1>1, <1>3, <1>6, <1>7, <1>8 DEF SlabState
<1>10. /\ t.slots = [s.slots EXCEPT ![id] = slots]
       /\ t.sl_curr = [s.sl_curr EXCEPT ![id] = curr]
       /\ t.slabs = [s.slabs EXCEPT ![id] = p]
       /\ t.list_size = s.list_size
       /\ t.mem_malloced = m
       /\ t.slabs_clsid = s.slabs_clsid
  BY <1>1 DEF SlabState
<1> HIDE DEF t
<1>11. ASSUME NEW j \in SlabClass PROVE Accounted(t, l, j)
  <2>1. CASE j = id
    <3>1. Range(<<>>) = {}
      BY DEF Range
    <3>2. LentIn(l, id) = PagesIn(s, id)
      BY <1>4, <3>1 DEF Good, Accounted
    <3>3. \A it \in Page(id, p) : it \notin PagesIn(s, id)
      <4> SUFFICES ASSUME NEW it \in Page(id, p), NEW q \in 1..s.slabs[id], it \in Page(id, q)
                   PROVE  FALSE
        BY DEF PagesIn
      <4>1. s.slabs[id] \in 0..MaxSlabs
        BY <1>2
      <4>2. q \in 1..MaxSlabs /\ q # p
        BY <4>1, SlabAssumption
      <4> QED
        BY <1>3, <4>2, ChunkParts
    <3>4. \A it \in Page(id, p) : l[it] = 0
      BY <1>3, <3>2, <3>3, ChunkParts DEF LentIn
    <3>5. t.slabs[id] = s.slabs[id] + 1
      BY <1>2, <1>10
    <3>6. PagesIn(t, id) = PagesIn(s, id) \cup Page(id, p)
      BY <1>1, <3>5, PagesGrow
    <3>7. t.slots[id] = slots /\ t.sl_curr[id] = PerSlab[id]
      BY <1>2, <1>8, <1>10
    <3> QED
      BY <1>6, <2>1, <3>2, <3>4, <3>6, <3>7 DEF Accounted
  <2>2. CASE j # id
    BY <1>2, <1>10, <2>2 DEF Good, Accounted, PagesIn
  <2> QED
    BY <2>1, <2>2
<1>12. Started(t)
  BY <1>2, <1>3, <1>10 DEF Good, Started
<1>13. NoClass(t)
  BY <1>10 DEF Good, NoClass
<1>14. Room(t)
  BY <1>2, <1>10 DEF Good, Room
<1>15. Bounded(t)
  BY <1>10, SlabBounded DEF m
<1>16. Good(t, l)
  BY <1>1, <1>9, <1>11, <1>12, <1>13, <1>14, <1>15 DEF Good
<1> QED
  BY <1>16 DEF t, slots, curr, m

\* do_slabs_newslab, whatever realloc and malloc answer.
LEMMA NewSlabGood ==
  ASSUME NEW s, NEW l, Good(s, l), NEW id \in SlabClass, s.sl_curr[id] = 0, NEW os
  PROVE  Good(do_slabs_newslab(s, id, os).s, l)
<1> DEFINE g == grow_slab_list(s, id, os)
           h == g.s
           p == s.slabs[id] + 1
           flag == [it \in Chunk |-> IF it \in Page(id, p) THEN {"SLABBED"} ELSE h.flag[it]]
           u == [h EXCEPT !.slots[id]    = FreshSlots(id, p) \o h.slots[id],
                          !.sl_curr[id]  = h.sl_curr[id] + PerSlab[id],
                          !.slabs[id]    = p,
                          !.mem_malloced = h.mem_malloced + SlabLen(id),
                          !.flag         = flag]
           r == do_slabs_newslab(s, id, os).s
<1>1. s \in SlabState /\ Room(s)
  BY DEF Good
<1>2. PICK n \in Nat : /\ h = [s EXCEPT !.list_size[id] = n]
                       /\ s.slabs[id] <= n
                       /\ g.ret => p <= n
  BY <1>1, GrowEffect
<1>3. \/ r \in {s, h}
      \/ ~OverLimit(s, id) /\ g.ret /\ ~(p > MaxSlabs) /\ r = u
  BY DEF do_slabs_newslab
<1> HIDE DEF g, h, r
<1>4. Good(h, l)
  BY <1>2, SetListGood
<1>5. /\ h.slots = s.slots /\ h.sl_curr = s.sl_curr /\ h.slabs = s.slabs
      /\ h.mem_malloced = s.mem_malloced /\ h.list_size[id] = n
      /\ p \in Int /\ MaxSlabs \in Int
  BY <1>1, <1>2, SlabAssumption DEF SlabState
<1>6. CASE ~OverLimit(s, id) /\ g.ret /\ ~(p > MaxSlabs) /\ r = u
  <2>1. ~OverLimit(h, id)
    BY <1>5, <1>6 DEF OverLimit
  <2>2. p <= MaxSlabs /\ p <= h.list_size[id] /\ p = h.slabs[id] + 1 /\ h.sl_curr[id] = 0
    BY <1>2, <1>5, <1>6
  <2>3. Good(u, l)
    BY <1>4, <2>1, <2>2, AddSlabGood
  <2> QED
    BY <1>6, <2>3 DEF r
<1> QED
  BY <1>3, <1>4, <1>6 DEF r

\* The head of a free list is lent.
LEMMA TakeGood ==
  ASSUME NEW s, NEW l, Good(s, l), NEW id \in SlabClass, s.sl_curr[id] # 0,
         NEW n \in Requests
  PROVE  LET it == Head(s.slots[id])
         IN  Good([s EXCEPT !.slots[id]     = Tail(s.slots[id]),
                            !.sl_curr[id]   = s.sl_curr[id] - 1,
                            !.requested[id] = s.requested[id] + n],
                  [l EXCEPT ![it] = n])
<1> DEFINE q == s.slots[id]
           it == Head(q)
           curr == s.sl_curr[id] - 1
           req == s.requested[id] + n
           t == [s EXCEPT !.slots[id] = Tail(q), !.sl_curr[id] = curr, !.requested[id] = req]
           k == [l EXCEPT ![it] = n]
<1>1. s \in SlabState /\ l \in [Chunk -> Requests \cup {0}] /\ Accounted(s, l, id)
  BY DEF Good
<1>2. /\ s.slots \in [SlabClass -> Seq(Chunk)]
      /\ s.sl_curr \in [SlabClass -> Nat]
      /\ s.requested \in [SlabClass -> Int]
      /\ n \in Nat /\ n # 0
  BY <1>1, RequestsAssumption DEF SlabState
<1>3. q \in Seq(Chunk) /\ IsInjective(q) /\ s.sl_curr[id] = Len(q)
  BY <1>1, <1>2 DEF Accounted
<1>4. q # <<>> /\ curr \in Nat /\ req \in Int
  BY <1>2, <1>3, EmptySeq
<1>5. /\ it \in Chunk /\ Tail(q) \in Seq(Chunk)
      /\ Len(Tail(q)) = curr
      /\ IsInjective(Tail(q))
      /\ it \in Range(q)
      /\ Range(Tail(q)) \subseteq Range(q) \ {it}
  BY <1>3, <1>4, PopFront
<1>6. Range(q) = Range(Tail(q)) \cup {it}
  BY <1>3, <1>4, <1>5, HeadOrTail
<1> HIDE DEF q, it, curr, req
<1>7. t \in SlabState /\ k \in [Chunk -> Requests \cup {0}]
  BY <1>1, <1>4, <1>5 DEF SlabState
<1>8. /\ t.slots = [s.slots EXCEPT ![id] = Tail(q)]
      /\ t.sl_curr = [s.sl_curr EXCEPT ![id] = curr]
      /\ t.slabs = s.slabs
      /\ t.list_size = s.list_size /\ t.mem_malloced = s.mem_malloced
      /\ t.slabs_clsid = s.slabs_clsid
  BY <1>1 DEF SlabState
<1>9. \A x \in Chunk : k[x] = IF x = it THEN n ELSE l[x]
  BY <1>1, <1>5
<1> HIDE DEF t, k
<1>10. \A j \in SlabClass : PagesIn(t, j) = PagesIn(s, j)
  BY <1>8 DEF PagesIn
<1>11. it[1] = id
  <2>1. it \in PagesIn(s, id)
    BY <1>1, <1>5 DEF Accounted, q
  <2>2. s.slabs[id] \in 0..MaxSlabs
    BY <1>1 DEF SlabState
  <2> QED
    BY <2>1, <2>2, ChunkParts, SlabAssumption DEF PagesIn
<1>12. ASSUME NEW j \in SlabClass PROVE Accounted(t, k, j)
  <2>1. CASE j = id
    <3>1. LentIn(k, id) = LentIn(l, id) \cup {it}
      BY <1>2, <1>5, <1>9, <1>11 DEF LentIn
    <3>2. t.slots[id] = Tail(q) /\ t.sl_curr[id] = curr
      BY <1>2, <1>8
    <3>3. Range(q) \subseteq Chunk
      BY <1>3, RangeOfSeq DEF q
    <3>4. \A x \in Range(Tail(q)) : k[x] = 0
      BY <1>1, <1>5, <1>9, <3>3 DEF Accounted, q
    <3>5. Range(Tail(q)) \cup LentIn(k, id) = PagesIn(s, id)
      BY <1>1, <1>6, <3>1 DEF Accounted, q
    <3> QED
      BY <1>5, <1>10, <2>1, <3>2, <3>4, <3>5 DEF Accounted
  <2>2. CASE j # id
    <3>1. LentIn(k, j) = LentIn(l, j)
      BY <1>9, <1>11, <2>2 DEF LentIn
    <3>2. t.slots[j] = s.slots[j] /\ t.sl_curr[j] = s.sl_curr[j]
      BY <1>2, <1>8, <2>2
    <3>3. Accounted(s, l, j) /\ s.slots[j] \in Seq(Chunk)
      BY <1>2 DEF Good
    <3>4. \A x \in Range(s.slots[j]) : x \in Chunk /\ x # it
      <4>1. Range(s.slots[j]) \subseteq Chunk
        BY <3>3, RangeOfSeq
      <4>2. \A x \in PagesIn(s, j) : x[1] = j
        <5>1. s.slabs[j] \in 0..MaxSlabs
          BY <1>1 DEF SlabState
        <5> QED
          BY <5>1, ChunkParts, SlabAssumption DEF PagesIn
      <4> QED
        BY <1>11, <2>2, <3>3, <4>1, <4>2 DEF Accounted
    <3>5. \A x \in Range(s.slots[j]) : k[x] = 0
      BY <1>9, <3>3, <3>4 DEF Accounted
    <3> QED
      BY <1>10, <3>1, <3>2, <3>3, <3>5 DEF Accounted
  <2> QED
    BY <2>1, <2>2
<1>13. Good(t, k)
  BY <1>7, <1>8, <1>12 DEF Good, Started, NoClass, Room, Bounded
<1> QED
  BY <1>13 DEF t, k, q, it, curr, req

\* do_slabs_alloc lends a chunk, or fails and lends none.
LEMMA AllocGood ==
  ASSUME NEW s, NEW l, Good(s, l), NEW id \in SlabClass, NEW n \in Requests, NEW os
  PROVE  LET r == do_slabs_alloc(s, n, id, os)
         IN  Good(r.s, IF r.ret = NoItem THEN l ELSE [l EXCEPT ![r.ret] = n])
<1> DEFINE g == IF s.sl_curr[id] # 0 THEN s ELSE do_slabs_newslab(s, id, os).s
           it == Head(g.slots[id])
           t == [g EXCEPT !.slots[id]     = Tail(g.slots[id]),
                          !.sl_curr[id]   = g.sl_curr[id] - 1,
                          !.requested[id] = g.requested[id] + n]
           r == do_slabs_alloc(s, n, id, os)
<1>1. Good(g, l)
  BY NewSlabGood
<1>2. \/ g.sl_curr[id] = 0 /\ r = [s |-> g, ret |-> NoItem]
      \/ g.sl_curr[id] # 0 /\ r = [s |-> t, ret |-> it]
  BY DEF do_slabs_alloc
<1> HIDE DEF r, g
<1>3. CASE g.sl_curr[id] = 0 /\ r = [s |-> g, ret |-> NoItem]
  BY <1>1, <1>3 DEF r
<1>4. CASE g.sl_curr[id] # 0 /\ r = [s |-> t, ret |-> it]
  <2>1. Good(t, [l EXCEPT ![it] = n])
    BY <1>1, <1>4, TakeGood
  <2>2. it # NoItem
    <3>1. g.slots[id] \in Seq(Chunk) /\ g.sl_curr[id] = Len(g.slots[id])
      BY <1>1 DEF Good, Accounted, SlabState
    <3>2. g.slots[id] # <<>>
      BY <1>4, <3>1
    <3>3. it \in Chunk
      BY <3>1, <3>2, HeadTailProperties
    <3> QED
      BY <3>3, NoItemNotChunk
  <2> HIDE DEF t, it
  <2>3. r.s = t /\ r.ret = it
    BY <1>4
  <2> QED
    BY <2>1, <2>2, <2>3 DEF r
<1> QED
  BY <1>2, <1>3, <1>4

\* do_slabs_free of a chunk that is lent, with its own class.
LEMMA FreeGood ==
  ASSUME NEW s, NEW l, Good(s, l), NEW it \in Chunk, l[it] # 0
  PROVE  Good(do_slabs_free(s, it, l[it], it[1]), [l EXCEPT ![it] = 0])
<1> DEFINE id == it[1]
           q == s.slots[id]
           slots == <<it>> \o q
           flag == s.flag[it] \cup {"SLABBED"}
           curr == s.sl_curr[id] + 1
           req == s.requested[id] - l[it]
           t == [s EXCEPT !.flag[it] = flag, !.slots[id] = slots,
                          !.sl_curr[id] = curr, !.requested[id] = req]
           k == [l EXCEPT ![it] = 0]
<1>1. /\ s \in SlabState /\ l \in [Chunk -> Requests \cup {0}]
      /\ id \in SlabClass
      /\ Accounted(s, l, id)
  BY ChunkParts DEF Good
<1>2. /\ s.slots \in [SlabClass -> Seq(Chunk)]
      /\ s.sl_curr \in [SlabClass -> Nat]
      /\ s.requested \in [SlabClass -> Int]
      /\ s.flag \in [Chunk -> SUBSET ItemFlag]
      /\ l[it] \in Nat
  BY <1>1, RequestsAssumption DEF SlabState
<1>3. do_slabs_free(s, it, l[it], id) = t
  BY <1>1 DEF Good, NoClass, do_slabs_free
<1>4. q \in Seq(Chunk) /\ IsInjective(q) /\ s.sl_curr[id] = Len(q) /\ it \notin Range(q)
  BY <1>1, <1>2 DEF Accounted
<1>5. /\ slots \in Seq(Chunk) /\ Len(slots) = curr
      /\ Range(slots) = {it} \cup Range(q)
      /\ IsInjective(slots)
  BY <1>4, PushFront, PushInjective
<1>6. curr \in Nat /\ req \in Int /\ flag \in SUBSET ItemFlag
  BY <1>1, <1>2 DEF ItemFlag
<1> HIDE DEF id, q, slots, flag, curr, req
<1>7. t \in SlabState /\ k \in [Chunk -> Requests \cup {0}]
  BY <1>1, <1>5, <1>6 DEF SlabState
<1>8. /\ t.slots = [s.slots EXCEPT ![id] = slots]
      /\ t.sl_curr = [s.sl_curr EXCEPT ![id] = curr]
      /\ t.slabs = s.slabs
      /\ t.list_size = s.list_size /\ t.mem_malloced = s.mem_malloced
      /\ t.slabs_clsid = s.slabs_clsid
  BY <1>1 DEF SlabState
<1>9. \A x \in Chunk : k[x] = IF x = it THEN 0 ELSE l[x]
  BY <1>1
<1> HIDE DEF t, k
<1>10. \A j \in SlabClass : PagesIn(t, j) = PagesIn(s, j)
  BY <1>8 DEF PagesIn
<1>11. ASSUME NEW j \in SlabClass PROVE Accounted(t, k, j)
  <2>1. s.slots[j] \in Seq(Chunk) /\ Accounted(s, l, j)
    BY <1>2 DEF Good
  <2>2. Range(s.slots[j]) \subseteq Chunk
    BY <2>1, RangeOfSeq
  <2>3. \A x \in Range(s.slots[j]) : k[x] = 0
    BY <1>9, <2>1, <2>2 DEF Accounted
  <2>4. CASE j = id
    <3>1. LentIn(l, id) = LentIn(k, id) \cup {it} /\ k[it] = 0
      BY <1>9 DEF LentIn, id
    <3>2. t.slots[id] = slots /\ t.sl_curr[id] = curr
      BY <1>1, <1>2, <1>8
    <3>3. Range(slots) \cup LentIn(k, id) = PagesIn(s, id)
      BY <1>1, <1>5, <3>1 DEF Accounted, q
    <3>4. \A x \in Range(slots) : k[x] = 0
      BY <1>5, <2>3, <2>4, <3>1 DEF q
    <3> QED
      BY <1>5, <1>10, <2>4, <3>2, <3>3, <3>4 DEF Accounted
  <2>5. CASE j # id
    <3>1. LentIn(k, j) = LentIn(l, j)
      BY <1>9, <2>5 DEF LentIn, id
    <3>2. t.slots[j] = s.slots[j] /\ t.sl_curr[j] = s.sl_curr[j]
      BY <1>2, <1>8, <2>5
    <3> QED
      BY <1>10, <2>1, <2>3, <3>1, <3>2 DEF Accounted
  <2> QED
    BY <2>4, <2>5
<1>12. Good(t, k)
  BY <1>7, <1>8, <1>11 DEF Good, Started, NoClass, Room, Bounded
<1> QED
  BY <1>3, <1>12 DEF k, id

\* slabs_adjust_mem_requested for a chunk that stays lent.
LEMMA AdjustGood ==
  ASSUME NEW s, NEW l, Good(s, l), NEW it \in Chunk, l[it] # 0, NEW n \in Requests
  PROVE  Good(slabs_adjust_mem_requested(s, it[1], l[it], n), [l EXCEPT ![it] = n])
<1> DEFINE t == slabs_adjust_mem_requested(s, it[1], l[it], n)
           k == [l EXCEPT ![it] = n]
<1>1. s \in SlabState /\ l \in [Chunk -> Requests \cup {0}] /\ it[1] \in SlabClass
  BY ChunkParts DEF Good
<1>2. s.requested[it[1]] - l[it] + n \in Int /\ n # 0
  <2>1. s.requested[it[1]] \in Int
    BY <1>1 DEF SlabState
  <2>2. l[it] \in Nat
    BY <1>1, RequestsAssumption
  <2>3. n \in Nat /\ n # 0
    BY RequestsAssumption
  <2> QED
    BY <2>1, <2>2, <2>3
<1>3. t = [s EXCEPT !.requested[it[1]] = s.requested[it[1]] - l[it] + n]
  BY DEF slabs_adjust_mem_requested
<1> HIDE DEF t
<1>4. t \in SlabState /\ k \in [Chunk -> Requests \cup {0}]
  BY <1>1, <1>2, <1>3 DEF SlabState
<1>5. /\ t.slots = s.slots /\ t.sl_curr = s.sl_curr /\ t.slabs = s.slabs
      /\ t.list_size = s.list_size /\ t.mem_malloced = s.mem_malloced
      /\ t.slabs_clsid = s.slabs_clsid
  BY <1>1, <1>3 DEF SlabState
<1>6. \A x \in Chunk : k[x] = IF x = it THEN n ELSE l[x]
  BY <1>1
<1> HIDE DEF k
<1>7. \A j \in SlabClass : LentIn(k, j) = LentIn(l, j)
  BY <1>2, <1>6 DEF LentIn
<1>8. ASSUME NEW j \in SlabClass PROVE Accounted(t, k, j)
  <2>1. s.slots[j] \in Seq(Chunk) /\ Accounted(s, l, j)
    BY <1>1 DEF Good, SlabState
  <2>2. Range(s.slots[j]) \subseteq Chunk
    BY <2>1, RangeOfSeq
  <2>3. \A x \in Range(s.slots[j]) : k[x] = 0
    BY <1>6, <2>1, <2>2 DEF Accounted
  <2> QED
    BY <1>5, <1>7, <2>1, <2>3 DEF Accounted, PagesIn
<1>9. Good(t, k)
  BY <1>4, <1>5, <1>8 DEF Good, Started, NoClass, Room, Bounded
<1> QED
  BY <1>9 DEF t, k

-----------------------------------------------------------------------------
(* The component *)

\* The constructor preallocates one slab for each class below the largest.
LEMMA InitGood == Init => Good(slab, lent)
<1> SUFFICES ASSUME Init PROVE Good(slab, lent)
  OBVIOUS
<1> DEFINE l == [it \in Chunk |-> 0]
           s == SlabInit
<1>1. slab = s /\ lent = l
  BY DEF Init
<1>2. 1 \in 1..MaxSlabs /\ MaxSlabs \in Nat /\ PowerLargest \in Nat
  BY SlabAssumption
<1>3. \A id \in SlabClass : FreshSlots(id, 1) \in Seq(Chunk) /\ PerSlab[id] \in Nat
  BY <1>2, FreshSlotsType, SlabLenType
<1>4. /\ s.slots = [id \in SlabClass |-> IF Preallocated(id) THEN FreshSlots(id, 1) ELSE <<>>]
      /\ s.sl_curr = [id \in SlabClass |-> IF Preallocated(id) THEN PerSlab[id] ELSE 0]
      /\ s.slabs = [id \in SlabClass |-> IF Preallocated(id) THEN 1 ELSE 0]
      /\ s.list_size = [id \in SlabClass |-> IF Preallocated(id) THEN InitialList ELSE 0]
      /\ s.requested = [id \in SlabClass |-> 0]
      /\ s.mem_malloced = PreallocBytes
      /\ s.flag = [it \in Chunk |-> IF it[2] = 1 /\ Preallocated(it[1]) THEN {"SLABBED"} ELSE {}]
      /\ s.slabs_clsid = [it \in Chunk |-> 0]
  BY DEF SlabInit
<1>5. s \in SlabState
  <2>1. s.slots \in [SlabClass -> Seq(Chunk)]
    BY <1>3, <1>4
  <2>2. s.sl_curr \in [SlabClass -> Nat] /\ s.slabs \in [SlabClass -> 0..MaxSlabs]
    BY <1>2, <1>3, <1>4
  <2>3. s.list_size \in [SlabClass -> Nat] /\ s.requested \in [SlabClass -> Int]
    BY <1>4, SlabAssumption
  <2>4. s.mem_malloced \in Nat
    BY <1>4, PreallocAssumption
  <2>5. s.flag \in [Chunk -> SUBSET ItemFlag] /\ s.slabs_clsid \in [Chunk -> 0..PowerLargest]
    BY <1>2, <1>4 DEF ItemFlag
  <2> HIDE <1>4
  <2>6. s = [slots |-> s.slots, sl_curr |-> s.sl_curr, slabs |-> s.slabs,
             list_size |-> s.list_size, requested |-> s.requested,
             mem_malloced |-> s.mem_malloced, flag |-> s.flag,
             slabs_clsid |-> s.slabs_clsid]
    BY DEF SlabInit
  <2> HIDE DEF s
  <2> QED
    BY <2>1, <2>2, <2>3, <2>4, <2>5, <2>6 DEF SlabState
<1> HIDE DEF s
<1>6. ASSUME NEW id \in SlabClass PROVE Accounted(s, l, id)
  <2>1. LentIn(l, id) = {}
    BY DEF LentIn
  <2>2. CASE Preallocated(id)
    <3>1. PagesIn(s, id) = Page(id, 1)
      BY <1>4, <2>2 DEF PagesIn
    <3>2. Page(id, 1) \subseteq Chunk
      BY <1>2, ChunkParts
    <3>3. s.slots[id] = FreshSlots(id, 1) /\ s.sl_curr[id] = PerSlab[id]
      BY <1>4, <2>2
    <3> QED
      BY <1>2, <2>1, <3>1, <3>2, <3>3, FreshSlotsType DEF Accounted
  <2>3. CASE ~Preallocated(id)
    <3>1. PagesIn(s, id) = {}
      BY <1>4, <2>3 DEF PagesIn
    <3>2. s.slots[id] = <<>> /\ s.sl_curr[id] = 0
      BY <1>4, <2>3
    <3>3. Range(<<>>) = {} /\ IsInjective(<<>>) /\ Len(<<>>) = 0
      BY DEF Range, IsInjective
    <3> QED
      BY <2>1, <3>1, <3>2, <3>3 DEF Accounted
  <2> QED
    BY <2>2, <2>3
<1>7. Started(s) /\ NoClass(s)
  BY <1>4 DEF Started, NoClass, Preallocated
<1>8. Room(s)
  BY <1>4, SlabAssumption DEF Room
<1>9. Bounded(s)
  <2>1. s.slabs[PowerLargest] = 0
    BY <1>2, <1>4, LargestType DEF Preallocated
  <2> QED
    BY <1>4, <2>1, SlabAssumption, PreallocAssumption DEF Bounded, AtLeast
<1>10. l \in [Chunk -> Requests \cup {0}]
  OBVIOUS
<1> QED
  BY <1>1, <1>5, <1>6, <1>7, <1>8, <1>9, <1>10 DEF Good

\* Every operation of the allocator keeps the invariant.
LEMMA StepGood == Good(slab, lent) /\ [Next]_vars => Good(slab', lent')
<1> SUFFICES ASSUME Good(slab, lent), [Next]_vars PROVE Good(slab', lent')
  OBVIOUS
<1>1. ASSUME NEW n \in Requests, slabs_alloc(n) PROVE Good(slab', lent')
  <2>1. PICK os \in OsAnswer :
          LET r == do_slabs_alloc(slab, n, slabs_clsid(n), os)
          IN  /\ slabs_clsid(n) # 0
              /\ slab' = r.s
              /\ lent' = IF r.ret = NoItem THEN lent ELSE [lent EXCEPT ![r.ret] = n]
    BY <1>1 DEF slabs_alloc
  <2>2. slabs_clsid(n) \in SlabClass
    BY <2>1, SlabsClsidType, RequestsAssumption
  <2>3. LET r == do_slabs_alloc(slab, n, slabs_clsid(n), os)
        IN  Good(r.s, IF r.ret = NoItem THEN lent ELSE [lent EXCEPT ![r.ret] = n])
    BY <2>2, AllocGood
  <2> QED
    BY <2>1, <2>3
<1>2. ASSUME NEW it \in Chunk, slabs_free(it) PROVE Good(slab', lent')
  BY <1>2, FreeGood DEF slabs_free, ClassOf
<1>3. ASSUME NEW it \in Chunk, NEW n \in Requests, adjust_requested(it, n)
      PROVE  Good(slab', lent')
  BY <1>3, AdjustGood DEF adjust_requested, ClassOf
<1>4. CASE UNCHANGED vars
  BY <1>4 DEF vars
<1> QED
  BY <1>1, <1>2, <1>3, <1>4 DEF Next

\* The invariant holds in every reachable state.
LEMMA AlwaysGood == Spec => []Good(slab, lent)
<1> DEFINE G == Good(slab, lent)
<1>1. Init => G
  BY InitGood
<1>2. G /\ [Next]_vars => G'
  BY StepGood
<1> HIDE DEF G
<1>3. Spec => []G
  BY <1>1, <1>2, PTL DEF Spec
<1> QED
  BY <1>3 DEF G

-----------------------------------------------------------------------------
(* Theorems *)

\* Free lists, counters and headers of the allocator have their types.
THEOREM SlabTypeCorrect == Spec => []TypeOK
<1>1. Good(slab, lent) => TypeOK
  BY DEF Good, TypeOK
<1> QED
  BY <1>1, AlwaysGood, PTL

\* Each chunk of an obtained page is once on the free list of its class or
\* lent to one caller, and sl_curr counts the list, through every sequence of
\* slabs_alloc, slabs_free, adjustments and failures of malloc and realloc.
THEOREM EveryChunkIsFreeOrLent == Spec => []PagesAccounted
<1>1. ASSUME Good(slab, lent) PROVE PagesAccounted
  <2> SUFFICES ASSUME NEW id \in SlabClass
               PROVE  /\ IsInjective(slab.slots[id])
                      /\ slab.sl_curr[id] = Len(slab.slots[id])
                      /\ Free(id) \cap Lent = {}
                      /\ Free(id) \cup {it \in Lent : ClassOf(it) = id} = Pages(id)
    BY DEF PagesAccounted
  <2>1. Accounted(slab, lent, id)
    BY <1>1 DEF Good
  <2>2. {it \in Lent : ClassOf(it) = id} = LentIn(lent, id)
    BY DEF Lent, ClassOf, LentIn
  <2>3. Pages(id) = PagesIn(slab, id)
    BY DEF Pages, PagesIn
  <2> QED
    BY <2>1, <2>2, <2>3 DEF Accounted, Free, Lent
<1> QED
  BY <1>1, AlwaysGood, PTL

\* slab_list always has room for the pages of its class, also when malloc
\* fails after grow_slab_list has succeeded.
THEOREM SlabListHasRoom == Spec => []ListRoom
<1>1. Good(slab, lent) => ListRoom
  BY DEF Good, Room, ListRoom
<1> QED
  BY <1>1, AlwaysGood, PTL

\* The memory taken exceeds limit and preallocation by one slab of the
\* largest class at most, although do_slabs_newslab waives the limit for the
\* first slab of every class.
THEOREM OverrunIsOneSlab == Spec => []LimitOverrun
<1>1. Good(slab, lent) => LimitOverrun
  BY DEF Good, Bounded, LimitOverrun
<1> QED
  BY <1>1, AlwaysGood, PTL

=============================================================================
