------------------------------ MODULE StoreLemmas ------------------------------
(***************************************************************************)
(* What the operators of StoreMem do to the parts of the state that the    *)
(* theorems of StoreProofs are about: the types, the free lists, the       *)
(* classes in the headers, and which items are chained.                    *)
(***************************************************************************)
EXTENDS Store, SlabLemmas

InChain(s) == UNION {Range(s.chain[b]) : b \in Bucket}

UsedIn(s) == {it \in Chunk : it[2] <= s.slabs[it[1]] /\ it \notin Range(s.slots[it[1]])}

\* NeverEvicts of a state record.
Unlisted(s) ==
  /\ \A it \in Chunk : s.slabs_clsid[it] = 0
  /\ \A id \in SlabClass : s.tails[id] = NoItem /\ s.heads[id] = NoItem

\* The free lists are exact and lie in obtained pages.
FreeListsSound(s) ==
  \A id \in SlabClass :
    /\ s.slabs[id] <= MaxSlabs
    /\ IsInjective(s.slots[id])
    /\ s.sl_curr[id] = Len(s.slots[id])
    /\ \A it \in Range(s.slots[id]) : it[1] = id /\ it[2] <= s.slabs[id]

Sound(s) == s \in StoreState /\ Unlisted(s) /\ FreeListsSound(s)

\* t comes from s without an allocation and may chain the items of A.
Keeps(s, t, A) ==
  /\ t \in StoreState
  /\ Unlisted(t)
  /\ t.slots = s.slots
  /\ t.sl_curr = s.sl_curr
  /\ t.slabs = s.slabs
  /\ t.key = s.key
  /\ InChain(t) \subseteq InChain(s) \cup A

-----------------------------------------------------------------------------
\* List 0 is the LRU list of no class: every item of this code is on it.
LEMMA ListIdType == 0 \in ListId /\ SlabClass \subseteq ListId /\ 0 \notin SlabClass
  BY SlabAssumption DEF ListId, SlabClass

\* The counters of type unsigned int stay in their range.
LEMMA CounterType ==
  ASSUME NEW n \in 0..(UInt - 1)
  PROVE  Incr(n) \in 0..(UInt - 1) /\ Decr(n) \in 0..(UInt - 1)
  BY StoreAssumption DEF Incr, Decr

\* Writing a pointer through a possibly null item keeps pointers typed.
LEMMA PointType ==
  ASSUME NEW f \in [Chunk -> Chunk \cup {NoItem}],
         NEW it \in Chunk \cup {NoItem}, NEW q \in Chunk \cup {NoItem}
  PROVE  Point(f, it, q) \in [Chunk -> Chunk \cup {NoItem}]
  BY DEF Point

\* Taking an item out of a chain leaves a chain of some of its items.
LEMMA RemoveAtType ==
  ASSUME NEW S, NEW c \in Seq(S), NEW i \in DOMAIN c
  PROVE  /\ RemoveAt(c, i) \in Seq(S)
         /\ Range(RemoveAt(c, i)) \subseteq Range(c)
<1> DEFINE l == SubSeq(c, 1, i - 1)
           r == SubSeq(c, i + 1, Len(c))
<1>1. /\ Len(c) \in Nat
      /\ DOMAIN c = 1..Len(c)
      /\ i \in 1..Len(c)
      /\ \A j \in 1..Len(c) : c[j] \in Range(c) /\ c[j] \in S
      /\ c \in Seq(Range(c))
  BY SeqOfRange, LenProperties, ElementOfSeq DEF Range
<1>2. l \in Seq(Range(c)) /\ r \in Seq(Range(c))
  BY <1>1, SubSeqProperties
<1>3. l \in Seq(S) /\ r \in Seq(S)
  BY <1>1, SubSeqProperties
<1>4. l \o r \in Seq(Range(c)) /\ l \o r \in Seq(S)
  BY <1>2, <1>3, ConcatProperties
<1>5. Range(l \o r) \subseteq Range(c)
  BY <1>4, RangeOfSeq
<1> QED
  BY <1>4, <1>5 DEF RemoveAt

\* hash_find returns an item of a chain, or nothing.
LEMMA HashFindType ==
  ASSUME NEW s \in StoreState, NEW k \in Key
  PROVE  hash_find(s, k) \in InChain(s) \cup {NoItem}
<1> DEFINE c == s.chain[Hash[k]]
           at == KeyAt(s, k, c)
<1>1. Hash[k] \in Bucket /\ c \in Seq(Chunk)
  BY StoreAssumption DEF StoreState
<1>2. at \subseteq DOMAIN c /\ DOMAIN c \subseteq Nat
  BY <1>1 DEF KeyAt
<1>3. CASE at = {}
  BY <1>3 DEF hash_find
<1>4. CASE at # {}
  <2>1. First(at) \in at
    BY <1>2, <1>4, MinNat DEF First
  <2>2. c[First(at)] \in Range(c)
    BY <1>2, <2>1 DEF Range
  <2>3. hash_find(s, k) = c[First(at)]
    BY <1>4 DEF hash_find
  <2> QED
    BY <1>1, <2>2, <2>3 DEF InChain
<1> QED
  BY <1>3, <1>4

\* What the buckets hold are chunks.
LEMMA InChainType ==
  ASSUME NEW s \in StoreState
  PROVE  InChain(s) \subseteq Chunk
<1>1. \A b \in Bucket : s.chain[b] \in Seq(Chunk)
  BY DEF StoreState
<1>2. \A b \in Bucket : Range(s.chain[b]) \subseteq Chunk
  BY <1>1, RangeOfSeq
<1> QED
  BY <1>2 DEF InChain

\* The effects of two calls in a row compose.
LEMMA KeepsTrans ==
  ASSUME NEW s, NEW t, NEW u, NEW A, NEW B, Keeps(s, t, A), Keeps(t, u, B)
  PROVE  Keeps(s, u, A \cup B)
  BY DEF Keeps

\* A call that does nothing keeps everything.
LEMMA KeepsSelf ==
  ASSUME NEW s \in StoreState, Unlisted(s), NEW A
  PROVE  Keeps(s, s, A)
  BY DEF Keeps

-----------------------------------------------------------------------------
(* Hash table *)

\* A change of the chains and of hashitems.
LEMMA ChainKeeps ==
  ASSUME NEW s \in StoreState, Unlisted(s), NEW A, NEW n \in Int,
         NEW chain \in [Bucket -> Seq(Chunk)],
         \A b \in Bucket : Range(chain[b]) \subseteq Range(s.chain[b]) \cup A
  PROVE  /\ Keeps(s, [s EXCEPT !.chain = chain], A)
         /\ Keeps(s, [[s EXCEPT !.chain = chain] EXCEPT !.hashitems = n], A)
<1> DEFINE t == [s EXCEPT !.chain = chain]
           u == [t EXCEPT !.hashitems = n]
<1>1. /\ t \in StoreState
      /\ t.slots = s.slots /\ t.sl_curr = s.sl_curr /\ t.slabs = s.slabs
      /\ t.key = s.key /\ t.slabs_clsid = s.slabs_clsid
      /\ t.heads = s.heads /\ t.tails = s.tails
      /\ t.chain = chain
  BY DEF StoreState
<1>2. /\ u \in StoreState
      /\ u.slots = s.slots /\ u.sl_curr = s.sl_curr /\ u.slabs = s.slabs
      /\ u.key = s.key /\ u.slabs_clsid = s.slabs_clsid
      /\ u.heads = s.heads /\ u.tails = s.tails
      /\ u.chain = chain
  BY <1>1 DEF StoreState
<1> HIDE DEF t, u
<1>3. InChain(t) \subseteq InChain(s) \cup A /\ InChain(u) \subseteq InChain(s) \cup A
  BY <1>1, <1>2 DEF InChain
<1>4. Keeps(s, t, A) /\ Keeps(s, u, A)
  BY <1>1, <1>2, <1>3 DEF Keeps, Unlisted
<1> QED
  BY <1>4 DEF t, u

\* hash_insert puts its item, and no other, into a chain.
LEMMA HashInsertKeeps ==
  ASSUME NEW s \in StoreState, Unlisted(s), NEW it \in Chunk
  PROVE  Keeps(s, hash_insert(s, it), {it})
<1> DEFINE h == Hash[s.key[it]]
           chain == [s.chain EXCEPT ![h] = <<it>> \o @]
<1>1. s.chain \in [Bucket -> Seq(Chunk)] /\ s.hashitems + 1 \in Int
  BY DEF StoreState
<1>2. \A b \in Bucket : /\ <<it>> \o s.chain[b] \in Seq(Chunk)
                        /\ Range(<<it>> \o s.chain[b]) = {it} \cup Range(s.chain[b])
  BY <1>1, PushFront
<1>3. /\ chain \in [Bucket -> Seq(Chunk)]
      /\ \A b \in Bucket : Range(chain[b]) \subseteq Range(s.chain[b]) \cup {it}
  BY <1>1, <1>2
<1> HIDE DEF chain
<1>4. Keeps(s, [[s EXCEPT !.chain = chain] EXCEPT !.hashitems = s.hashitems + 1], {it})
  BY <1>1, <1>3, ChainKeeps
<1>5. [s EXCEPT !.chain = chain].hashitems = s.hashitems
  BY DEF StoreState
<1>6. hash_insert(s, it)
        = [[s EXCEPT !.chain = chain] EXCEPT !.hashitems = [s EXCEPT !.chain = chain].hashitems + 1]
  BY DEF hash_insert, chain
<1> QED
  BY <1>4, <1>5, <1>6

\* hash_delete adds nothing to a chain, at the head of a bucket or behind it.
LEMMA HashDeleteKeeps ==
  ASSUME NEW s \in StoreState, Unlisted(s), NEW k
  PROVE  Keeps(s, hash_delete(s, k), {})
<1> DEFINE h == Hash[k]
           c == s.chain[h]
           at == KeyAt(s, k, c)
           d == RemoveAt(c, First(at))
           gone == [s.chain EXCEPT ![h] = <<>>]
           less == [s.chain EXCEPT ![h] = d]
<1>1. s.chain \in [Bucket -> Seq(Chunk)] /\ s.hashitems - 1 \in Int
  BY DEF StoreState
<1>2. /\ gone \in [Bucket -> Seq(Chunk)]
      /\ \A b \in Bucket : Range(gone[b]) \subseteq Range(s.chain[b]) \cup {}
  <2>1. <<>> \in Seq(Chunk) /\ Range(<<>>) = {}
    BY DEF Range
  <2> QED
    BY <1>1, <2>1
<1>3. CASE c = <<>> \/ 1 \in at
  <2>1. hash_delete(s, k) = [s EXCEPT !.chain = gone]
    BY <1>3 DEF hash_delete
  <2> HIDE DEF gone
  <2> QED
    BY <1>1, <1>2, <2>1, ChainKeeps, ZenonT(60)
<1>4. CASE ~(c = <<>> \/ 1 \in at) /\ at = {}
  BY <1>4, KeepsSelf DEF hash_delete
<1>5. CASE ~(c = <<>> \/ 1 \in at) /\ at # {}
  <2>1. /\ less \in [Bucket -> Seq(Chunk)]
        /\ \A b \in Bucket : Range(less[b]) \subseteq Range(s.chain[b]) \cup {}
    <3>1. CASE h \in Bucket
      <4>1. c \in Seq(Chunk)
        BY <1>1, <3>1
      <4>2. at \subseteq DOMAIN c /\ DOMAIN c \subseteq Nat
        BY <4>1 DEF KeyAt
      <4>3. First(at) \in DOMAIN c
        BY <4>2, <1>5, MinNat DEF First
      <4>4. d \in Seq(Chunk) /\ Range(d) \subseteq Range(c)
        BY <4>1, <4>3, RemoveAtType
      <4> HIDE DEF d
      <4> QED
        BY <1>1, <3>1, <4>4
    <3>2. CASE h \notin Bucket
      BY <1>1, <3>2
    <3> QED
      BY <3>1, <3>2
  <2>2. hash_delete(s, k)
          = [[s EXCEPT !.chain = less] EXCEPT !.hashitems = [s EXCEPT !.chain = less].hashitems - 1]
    BY <1>5 DEF hash_delete
  <2> HIDE DEF less
  <2>3. [s EXCEPT !.chain = less].hashitems = s.hashitems
    BY DEF StoreState
  <2>4. Keeps(s, [[s EXCEPT !.chain = less] EXCEPT !.hashitems = s.hashitems - 1], {})
    BY <1>1, <2>1, ChainKeeps
  <2> QED
    BY <2>2, <2>3, <2>4
<1> QED
  BY <1>3, <1>4, <1>5

-----------------------------------------------------------------------------
(* LRU lists *)

\* A change that leaves memory, keys and chains alone and touches list 0 only.
LEMMA ListKeeps ==
  ASSUME NEW s \in StoreState, Unlisted(s), NEW t \in StoreState, NEW A,
         t.slots = s.slots, t.sl_curr = s.sl_curr, t.slabs = s.slabs,
         t.key = s.key, t.slabs_clsid = s.slabs_clsid, t.chain = s.chain,
         \A id \in SlabClass : t.heads[id] = s.heads[id] /\ t.tails[id] = s.tails[id]
  PROVE  Keeps(s, t, A)
  BY DEF Keeps, Unlisted, InChain

\* item_link_q only touches list 0 and the links of headers.
LEMMA ItemLinkQKeeps ==
  ASSUME NEW s \in StoreState, Unlisted(s), NEW it \in Chunk
  PROVE  Keeps(s, item_link_q(s, it), {})
<1> DEFINE t == item_link_q(s, it)
           head == s.heads[0]
           prev == Point([s.prev EXCEPT ![it] = NoItem], head, it)
<1>1. s.slabs_clsid[it] = 0 /\ 0 \in ListId /\ 0 \notin SlabClass
  BY ListIdType DEF Unlisted
<1>2. head \in Chunk \cup {NoItem} /\ s.tails[0] \in Chunk \cup {NoItem}
  BY <1>1 DEF StoreState
<1>3. Incr(s.sizes[0]) \in 0..(UInt - 1)
  BY <1>1, CounterType DEF StoreState
<1>4. prev \in [Chunk -> Chunk \cup {NoItem}]
  <2>1. [s.prev EXCEPT ![it] = NoItem] \in [Chunk -> Chunk \cup {NoItem}]
    BY DEF StoreState
  <2> QED
    BY <1>2, <2>1, PointType
<1>5. CASE t = s
  BY <1>5, KeepsSelf
<1>6. CASE t # s
  <2>1. t = [s EXCEPT !.prev = prev, !.next[it] = head, !.heads[0] = it,
                      !.tails[0] = IF s.tails[0] = NoItem THEN it ELSE s.tails[0],
                      !.sizes[0] = Incr(@)]
    BY <1>1, <1>6 DEF item_link_q
  <2> HIDE DEF t, prev, head
  <2>2. t \in StoreState
    BY <1>1, <1>2, <1>3, <1>4, <2>1, ZenonT(60) DEF StoreState
  <2>3. /\ t.slots = s.slots /\ t.sl_curr = s.sl_curr /\ t.slabs = s.slabs
        /\ t.key = s.key /\ t.slabs_clsid = s.slabs_clsid /\ t.chain = s.chain
        /\ \A id \in SlabClass : t.heads[id] = s.heads[id] /\ t.tails[id] = s.tails[id]
    BY <1>1, <2>1 DEF StoreState
  <2>4. Keeps(s, t, {})
    BY <2>2, <2>3, ListKeeps
  <2> QED
    BY <2>4 DEF t
<1> QED
  BY <1>5, <1>6

\* item_unlink_q only touches list 0 and the links of headers, even where it
\* leaves the list broken.
LEMMA ItemUnlinkQKeeps ==
  ASSUME NEW s \in StoreState, Unlisted(s), NEW it \in Chunk
  PROVE  Keeps(s, item_unlink_q(s, it), {})
<1> DEFINE t == item_unlink_q(s, it)
           n == s.next[it]
           p == s.prev[it]
           prev == Point(s.prev, n, p)
           next == Point(s.next, p, n)
           head == IF s.heads[0] = it /\ p # NoItem THEN n ELSE s.heads[0]
           tail == IF s.tails[0] = it /\ n # NoItem THEN p ELSE s.tails[0]
<1>1. s.slabs_clsid[it] = 0 /\ 0 \in ListId /\ 0 \notin SlabClass
  BY ListIdType DEF Unlisted
<1>2. n \in Chunk \cup {NoItem} /\ p \in Chunk \cup {NoItem}
  BY DEF StoreState
<1>3. head \in Chunk \cup {NoItem} /\ tail \in Chunk \cup {NoItem}
  BY <1>1, <1>2 DEF StoreState
<1>4. Decr(s.sizes[0]) \in 0..(UInt - 1)
  BY <1>1, CounterType DEF StoreState
<1>5. prev \in [Chunk -> Chunk \cup {NoItem}] /\ next \in [Chunk -> Chunk \cup {NoItem}]
  <2>1. s.prev \in [Chunk -> Chunk \cup {NoItem}] /\ s.next \in [Chunk -> Chunk \cup {NoItem}]
    BY DEF StoreState
  <2> QED
    BY <1>2, <2>1, PointType
<1>6. CASE t = s
  BY <1>6, KeepsSelf
<1>7. CASE t # s
  <2>1. t = [s EXCEPT !.heads[0] = head, !.tails[0] = tail, !.prev = prev,
                      !.next = next, !.sizes[0] = Decr(@)]
    BY <1>1, <1>7 DEF item_unlink_q
  <2> HIDE DEF t, prev, next, head, tail
  <2>2. t \in StoreState
    BY <1>1, <1>3, <1>4, <1>5, <2>1, ZenonT(60) DEF StoreState
  <2>3. /\ t.slots = s.slots /\ t.sl_curr = s.sl_curr /\ t.slabs = s.slabs
        /\ t.key = s.key /\ t.slabs_clsid = s.slabs_clsid /\ t.chain = s.chain
        /\ \A id \in SlabClass : t.heads[id] = s.heads[id] /\ t.tails[id] = s.tails[id]
    BY <1>1, <2>1 DEF StoreState
  <2>4. Keeps(s, t, {})
    BY <2>2, <2>3, ListKeeps
  <2> QED
    BY <2>4 DEF t
<1> QED
  BY <1>6, <1>7

-----------------------------------------------------------------------------
(* Items *)

\* item_free gives nothing back: the class it passes on is always 0.
LEMMA ItemFreeKeeps ==
  ASSUME NEW s \in StoreState, Unlisted(s), NEW it \in Chunk
  PROVE  Keeps(s, item_free(s, it), {})
<1> DEFINE t == [s EXCEPT !.slabs_clsid[it] = 0]
<1>1. s.slabs_clsid[it] = 0 /\ 0 \in ListId /\ 0 \notin SlabClass
  BY ListIdType DEF Unlisted
<1>2. item_free(s, it) \in {s, t}
  BY <1>1 DEF item_free, do_slabs_free
<1>3. t = s
  <2>1. [s.slabs_clsid EXCEPT ![it] = 0] = s.slabs_clsid
    BY <1>1 DEF StoreState
  <2> QED
    BY <2>1 DEF StoreState
<1> QED
  BY <1>2, <1>3, KeepsSelf

\* do_item_remove gives no memory back.
LEMMA DoItemRemoveKeeps ==
  ASSUME NEW s \in StoreState, Unlisted(s), NEW it \in Chunk
  PROVE  Keeps(s, do_item_remove(s, it), {})
<1> DEFINE t == [s EXCEPT !.refcount[it] = Decr(@)]
<1>1. Decr(s.refcount[it]) \in 0..(UInt - 1)
  BY CounterType DEF StoreState
<1>2. t \in StoreState
  BY <1>1 DEF StoreState
<1>3. Keeps(s, t, {})
  <2>1. /\ t.slots = s.slots /\ t.sl_curr = s.sl_curr /\ t.slabs = s.slabs
        /\ t.key = s.key /\ t.slabs_clsid = s.slabs_clsid /\ t.chain = s.chain
        /\ t.heads = s.heads /\ t.tails = s.tails
    BY DEF StoreState
  <2> HIDE DEF t
  <2> QED
    BY <1>2, <2>1, ListKeeps
<1> HIDE DEF t
<1>4. Keeps(t, item_free(t, it), {})
  BY <1>3, ItemFreeKeeps DEF Keeps
<1>5. Keeps(s, item_free(t, it), {})
  BY <1>3, <1>4, KeepsTrans
<1>6. do_item_remove(s, it) \in {s, t, item_free(t, it)}
  BY DEF do_item_remove, t
<1> QED
  BY <1>3, <1>5, <1>6, KeepsSelf

\* do_item_unlink chains nothing and gives no memory back.
LEMMA DoItemUnlinkKeeps ==
  ASSUME NEW s \in StoreState, Unlisted(s), NEW it \in Chunk
  PROVE  Keeps(s, do_item_unlink(s, it), {})
<1> DEFINE t == [s EXCEPT !.flag[it] = @ \ {"LINKED"}]
           u == hash_delete(t, s.key[it])
           v == item_unlink_q(u, it)
<1>1. t \in StoreState
  BY DEF StoreState
<1>2. Keeps(s, t, {})
  <2>1. /\ t.slots = s.slots /\ t.sl_curr = s.sl_curr /\ t.slabs = s.slabs
        /\ t.key = s.key /\ t.slabs_clsid = s.slabs_clsid /\ t.chain = s.chain
        /\ t.heads = s.heads /\ t.tails = s.tails
    BY DEF StoreState
  <2> HIDE DEF t
  <2> QED
    BY <1>1, <2>1, ListKeeps
<1> HIDE DEF t
<1>3. Keeps(t, u, {})
  BY <1>2, HashDeleteKeeps DEF Keeps
<1> HIDE DEF u
<1>4. Keeps(u, v, {})
  BY <1>3, ItemUnlinkQKeeps DEF Keeps
<1> HIDE DEF v
<1>5. Keeps(v, do_item_remove(v, it), {})
  BY <1>4, DoItemRemoveKeeps DEF Keeps
<1>6. Keeps(s, u, {})
  BY <1>2, <1>3, KeepsTrans
<1>7. Keeps(s, v, {})
  BY <1>4, <1>6, KeepsTrans
<1>8. Keeps(s, do_item_remove(v, it), {})
  BY <1>5, <1>7, KeepsTrans
<1>9. do_item_unlink(s, it) \in {s, do_item_remove(v, it)}
  BY DEF do_item_unlink, t, u, v
<1> QED
  BY <1>8, <1>9, KeepsSelf

\* do_item_link chains its item, and no other.
LEMMA DoItemLinkKeeps ==
  ASSUME NEW s \in StoreState, Unlisted(s), NEW it \in Chunk, NEW now \in Nat
  PROVE  Keeps(s, do_item_link(s, it, now), {it})
<1> DEFINE t == [s EXCEPT !.flag[it]     = @ \cup {"LINKED"},
                          !.realtime[it] = now,
                          !.cas_id       = @ + 1,
                          !.cas[it]      = s.cas_id + 1]
           u == hash_insert(t, it)
           v == item_link_q(u, it)
           w == [v EXCEPT !.refcount[it] = Incr(@)]
<1>1. t \in StoreState
  <2>1. s.cas_id + 1 \in Nat /\ "LINKED" \in ItemFlag
    BY DEF StoreState, ItemFlag
  <2> QED
    BY <2>1, ZenonT(60) DEF StoreState
<1>2. Keeps(s, t, {it})
  <2>1. /\ t.slots = s.slots /\ t.sl_curr = s.sl_curr /\ t.slabs = s.slabs
        /\ t.key = s.key /\ t.slabs_clsid = s.slabs_clsid /\ t.chain = s.chain
        /\ t.heads = s.heads /\ t.tails = s.tails
    BY DEF StoreState
  <2> HIDE DEF t
  <2> QED
    BY <1>1, <2>1, ListKeeps
<1> HIDE DEF t
<1>3. Keeps(t, u, {it})
  BY <1>2, HashInsertKeeps DEF Keeps
<1> HIDE DEF u
<1>4. Keeps(u, v, {})
  BY <1>3, ItemLinkQKeeps DEF Keeps
<1> HIDE DEF v
<1>5. Keeps(v, w, {})
  <2>1. v \in StoreState /\ Unlisted(v)
    BY <1>4 DEF Keeps
  <2>2. Incr(v.refcount[it]) \in 0..(UInt - 1)
    BY <2>1, CounterType DEF StoreState
  <2>3. w \in StoreState
    BY <2>1, <2>2 DEF StoreState
  <2>4. /\ w.slots = v.slots /\ w.sl_curr = v.sl_curr /\ w.slabs = v.slabs
        /\ w.key = v.key /\ w.slabs_clsid = v.slabs_clsid /\ w.chain = v.chain
        /\ w.heads = v.heads /\ w.tails = v.tails
    BY <2>1 DEF StoreState
  <2> HIDE DEF w
  <2> QED
    BY <2>1, <2>3, <2>4, ListKeeps
<1> HIDE DEF w
<1>6. Keeps(s, u, {it} \cup {it})
  BY <1>2, <1>3, KeepsTrans
<1>7. Keeps(s, v, ({it} \cup {it}) \cup {})
  BY <1>4, <1>6, KeepsTrans
<1>8. Keeps(s, w, (({it} \cup {it}) \cup {}) \cup {})
  BY <1>5, <1>7, KeepsTrans
<1>9. (({it} \cup {it}) \cup {}) \cup {} = {it}
  OBVIOUS
<1>10. do_item_link(s, it, now) \in {s, w}
  BY DEF do_item_link, t, u, v, w
<1> QED
  BY <1>8, <1>9, <1>10, KeepsSelf

\* do_item_update moves an item on its LRU list and no further.
LEMMA DoItemUpdateKeeps ==
  ASSUME NEW s \in StoreState, Unlisted(s), NEW it \in Chunk, NEW now \in Nat
  PROVE  Keeps(s, do_item_update(s, it, now), {})
<1> DEFINE t == item_unlink_q(s, it)
           u == [t EXCEPT !.realtime[it] = now]
<1>1. Keeps(s, t, {})
  BY ItemUnlinkQKeeps
<1> HIDE DEF t
<1>2. Keeps(t, u, {})
  <2>1. t \in StoreState /\ Unlisted(t)
    BY <1>1 DEF Keeps
  <2>2. u \in StoreState
    BY <2>1 DEF StoreState
  <2>3. /\ u.slots = t.slots /\ u.sl_curr = t.sl_curr /\ u.slabs = t.slabs
        /\ u.key = t.key /\ u.slabs_clsid = t.slabs_clsid /\ u.chain = t.chain
        /\ u.heads = t.heads /\ u.tails = t.tails
    BY <2>1 DEF StoreState
  <2> HIDE DEF u
  <2> QED
    BY <2>1, <2>2, <2>3, ListKeeps
<1> HIDE DEF u
<1>3. Keeps(u, item_link_q(u, it), {})
  BY <1>2, ItemLinkQKeeps DEF Keeps
<1>4. Keeps(s, u, {})
  BY <1>1, <1>2, KeepsTrans
<1>5. Keeps(s, item_link_q(u, it), {})
  BY <1>3, <1>4, KeepsTrans
<1>6. do_item_update(s, it, now) \in {s, item_link_q(u, it)}
  BY DEF do_item_update, t, u
<1> QED
  BY <1>5, <1>6, KeepsSelf

\* do_item_replace chains the new item only.
LEMMA DoItemReplaceKeeps ==
  ASSUME NEW s \in StoreState, Unlisted(s), NEW it \in Chunk, NEW new \in Chunk,
         NEW now \in Nat
  PROVE  Keeps(s, do_item_replace(s, it, new, now), {new})
<1> DEFINE t == do_item_unlink(s, it)
<1>1. Keeps(s, t, {})
  BY DoItemUnlinkKeeps
<1> HIDE DEF t
<1>2. Keeps(t, do_item_link(t, new, now), {new})
  BY <1>1, DoItemLinkKeeps DEF Keeps
<1>3. Keeps(s, do_item_link(t, new, now), {} \cup {new})
  BY <1>1, <1>2, KeepsTrans
<1>4. do_item_replace(s, it, new, now) \in {s, do_item_link(t, new, now)}
  BY DEF do_item_replace, t
<1> QED
  BY <1>3, <1>4, KeepsSelf

\* Unlinking an item and giving back one reference, as delete and the expiry
\* test of do_item_get do.
LEMMA DiscardKeeps ==
  ASSUME NEW s \in StoreState, Unlisted(s), NEW it \in Chunk
  PROVE  Keeps(s, Discard(s, it), {})
<1> DEFINE t == do_item_unlink(s, it)
<1>1. Keeps(s, t, {})
  BY DoItemUnlinkKeeps
<1> HIDE DEF t
<1>2. Keeps(t, do_item_remove(t, it), {})
  BY <1>1, DoItemRemoveKeeps DEF Keeps
<1>3. Keeps(s, do_item_remove(t, it), {})
  BY <1>1, <1>2, KeepsTrans
<1> QED
  BY <1>3 DEF Discard, t

\* do_item_get finds an item or nothing; unlinking an expired one chains and
\* frees nothing.
LEMMA DoItemGetKeeps ==
  ASSUME NEW s \in StoreState, Unlisted(s), NEW k \in Key, NEW now \in Nat
  PROVE  /\ Keeps(s, do_item_get(s, k, now).s, {})
         /\ do_item_get(s, k, now).ret \in Chunk \cup {NoItem}
<1> DEFINE it == hash_find(s, k)
           t == [s EXCEPT !.refcount[it] = Incr(@)]
           u == [t EXCEPT !.flag[it] = @ \cup {"FETCHED"}]
<1>1. it \in Chunk \cup {NoItem}
  BY HashFindType, InChainType
<1>2. CASE it = NoItem
  BY <1>2, KeepsSelf DEF do_item_get
<1>3. CASE it # NoItem
  <2>1. it \in Chunk
    BY <1>1, <1>3
  <2>2. Keeps(s, t, {})
    <3>1. Incr(s.refcount[it]) \in 0..(UInt - 1)
      BY <2>1, CounterType DEF StoreState
    <3> HIDE DEF it
    <3>2. t \in StoreState
      BY <2>1, <3>1 DEF StoreState
    <3>3. /\ t.slots = s.slots /\ t.sl_curr = s.sl_curr /\ t.slabs = s.slabs
          /\ t.key = s.key /\ t.slabs_clsid = s.slabs_clsid /\ t.chain = s.chain
          /\ t.heads = s.heads /\ t.tails = s.tails
      BY DEF StoreState
    <3> HIDE DEF t
    <3> QED
      BY <3>2, <3>3, ListKeeps
  <2> HIDE DEF t, it
  <2>3. t \in StoreState /\ Unlisted(t)
    BY <2>2 DEF Keeps
  <2>4. Keeps(t, Discard(t, it), {})
    BY <2>1, <2>3, DiscardKeeps
  <2>5. Keeps(s, Discard(t, it), {})
    BY <2>2, <2>4, KeepsTrans
  <2>6. Keeps(t, u, {})
    <3>1. "FETCHED" \in ItemFlag
      BY DEF ItemFlag
    <3>2. u \in StoreState
      BY <2>1, <2>3, <3>1, ZenonT(60) DEF StoreState
    <3>3. /\ u.slots = t.slots /\ u.sl_curr = t.sl_curr /\ u.slabs = t.slabs
          /\ u.key = t.key /\ u.slabs_clsid = t.slabs_clsid /\ u.chain = t.chain
          /\ u.heads = t.heads /\ u.tails = t.tails
      BY <2>3 DEF StoreState
    <3> HIDE DEF u
    <3> QED
      BY <2>3, <3>2, <3>3, ListKeeps
  <2> HIDE DEF u
  <2>7. Keeps(s, u, {})
    BY <2>2, <2>6, KeepsTrans
  <2>8. do_item_get(s, k, now) \in {[s |-> Discard(t, it), ret |-> NoItem], [s |-> u, ret |-> it]}
    BY <1>3 DEF do_item_get, Discard, t, u, it
  <2> QED
    BY <2>1, <2>5, <2>7, <2>8
<1> QED
  BY <1>1, <1>2, <1>3

-----------------------------------------------------------------------------
(* Allocation *)

\* t comes from s, chunks in use stay in use and keep their keys, and what
\* gets chained is in A or was free before.
Advances(s, t, A) ==
  /\ Sound(t)
  /\ UsedIn(s) \subseteq UsedIn(t)
  /\ \A it \in UsedIn(s) : t.key[it] = s.key[it]
  /\ InChain(t) \subseteq InChain(s) \cup A \cup (UsedIn(t) \ UsedIn(s))

\* A call that allocates nothing is a call that allocates at most one chunk.
LEMMA KeepsAdvances ==
  ASSUME NEW s, Sound(s), NEW t, NEW A, Keeps(s, t, A)
  PROVE  Advances(s, t, A)
  BY DEF Keeps, Advances, Sound, FreeListsSound, UsedIn

\* The effects of two calls that may allocate compose.
LEMMA AdvancesTrans ==
  ASSUME NEW s, NEW t, NEW u, NEW A, NEW B, Advances(s, t, A), Advances(t, u, B)
  PROVE  Advances(s, u, A \cup B)
  BY DEF Advances

\* grow_slab_list changes nothing but the length of slab_list.
LEMMA GrowSlabListType ==
  ASSUME NEW s \in StoreState, NEW id \in SlabClass, NEW os
  PROVE  LET t == grow_slab_list(s, id, os).s
         IN  \E n \in Nat : t = [s EXCEPT !.list_size[id] = n]
<1>1. s.list_size[id] \in Nat /\ s.list_size \in [SlabClass -> Nat]
  BY DEF StoreState
<1>2. s = [s EXCEPT !.list_size[id] = s.list_size[id]]
  <2>1. s.list_size = [s.list_size EXCEPT ![id] = s.list_size[id]]
    BY <1>1
  <2> QED
    BY <2>1 DEF StoreState
<1>3. InitialList \in Nat /\ 2 * s.list_size[id] \in Nat
  BY <1>1, SlabAssumption
<1>4. \/ grow_slab_list(s, id, os).s = s
      \/ grow_slab_list(s, id, os).s = [s EXCEPT !.list_size[id] = InitialList]
      \/ grow_slab_list(s, id, os).s = [s EXCEPT !.list_size[id] = 2 * s.list_size[id]]
  BY DEF grow_slab_list
<1> QED
  BY <1>1, <1>2, <1>3, <1>4

\* A new length of slab_list disturbs neither free lists nor chains.
LEMMA SetListSize ==
  ASSUME NEW s, Sound(s), NEW id \in SlabClass, NEW n \in Nat
  PROVE  LET t == [s EXCEPT !.list_size[id] = n]
         IN  /\ Keeps(s, t, {})
             /\ t.requested = s.requested /\ t.mem_malloced = s.mem_malloced
             /\ t.flag = s.flag
<1> DEFINE t == [s EXCEPT !.list_size[id] = n]
<1>1. s \in StoreState /\ Unlisted(s)
  BY DEF Sound
<1>2. t \in StoreState
  BY <1>1 DEF StoreState
<1>3. /\ t.slots = s.slots /\ t.sl_curr = s.sl_curr /\ t.slabs = s.slabs
      /\ t.key = s.key /\ t.slabs_clsid = s.slabs_clsid /\ t.chain = s.chain
      /\ t.heads = s.heads /\ t.tails = s.tails
      /\ t.requested = s.requested /\ t.mem_malloced = s.mem_malloced
      /\ t.flag = s.flag
  BY <1>1 DEF StoreState
<1> HIDE DEF t
<1>4. Keeps(s, t, {})
  BY <1>1, <1>2, <1>3, ListKeeps
<1> QED
  BY <1>3, <1>4 DEF t

\* The fields do_slabs_newslab assigns keep their types.
LEMMA SetMemory ==
  ASSUME NEW s \in StoreState, NEW id \in SlabClass,
         NEW slots \in Seq(Chunk), NEW curr \in Nat, NEW p \in Nat, NEW m \in Nat,
         NEW flag \in [Chunk -> SUBSET ItemFlag]
  PROVE  [s EXCEPT !.slots[id] = slots, !.sl_curr[id] = curr, !.slabs[id] = p,
                   !.mem_malloced = m, !.flag = flag] \in StoreState
<1> DEFINE t1 == [s EXCEPT !.slots[id] = slots]
           t2 == [t1 EXCEPT !.sl_curr[id] = curr]
           t3 == [t2 EXCEPT !.slabs[id] = p]
           t4 == [t3 EXCEPT !.mem_malloced = m]
           t5 == [t4 EXCEPT !.flag = flag]
<1>1. t1 \in StoreState
  BY DEF StoreState
<1> HIDE DEF t1
<1>2. t2 \in StoreState
  BY <1>1 DEF StoreState
<1> HIDE DEF t2
<1>3. t3 \in StoreState
  BY <1>2 DEF StoreState
<1> HIDE DEF t3
<1>4. t4 \in StoreState
  BY <1>3 DEF StoreState
<1> HIDE DEF t4
<1>5. t5 \in StoreState
  BY <1>4 DEF StoreState
<1> QED
  BY <1>5 DEF t1, t2, t3, t4

\* A new slab for a class whose free list is empty.
LEMMA AddSlab ==
  ASSUME NEW s, Sound(s), NEW id \in SlabClass, s.sl_curr[id] = 0,
         NEW p, p = s.slabs[id] + 1, p <= MaxSlabs,
         NEW flag,
         flag = [it \in Chunk |-> IF it \in Page(id, p) THEN {"SLABBED"} ELSE s.flag[it]]
  PROVE  Advances(s, [s EXCEPT !.slots[id]    = FreshSlots(id, p) \o s.slots[id],
                               !.sl_curr[id]  = s.sl_curr[id] + PerSlab[id],
                               !.slabs[id]    = p,
                               !.mem_malloced = s.mem_malloced + SlabLen(id),
                               !.flag         = flag], {})
<1> DEFINE slots == FreshSlots(id, p) \o s.slots[id]
           t == [s EXCEPT !.slots[id]    = slots,
                          !.sl_curr[id]  = s.sl_curr[id] + PerSlab[id],
                          !.slabs[id]    = p,
                          !.mem_malloced = s.mem_malloced + SlabLen(id),
                          !.flag         = flag]
<1>1. s \in StoreState /\ Unlisted(s) /\ FreeListsSound(s)
  BY DEF Sound
<1>2. s.slabs[id] \in Nat /\ s.sl_curr[id] \in Nat /\ s.slots[id] \in Seq(Chunk)
  BY <1>1 DEF StoreState
<1>3. p \in 1..MaxSlabs /\ p \in Nat
  BY <1>2, SlabAssumption
<1>4. s.slots[id] = <<>>
  BY <1>1, <1>2 DEF FreeListsSound
<1>5. slots = FreshSlots(id, p)
  BY <1>3, <1>4, FreshSlotsType, ConcatEmptySeq
<1>6. /\ slots \in Seq(Chunk) /\ Len(slots) = PerSlab[id]
      /\ IsInjective(slots) /\ Range(slots) = Page(id, p)
  BY <1>3, <1>5, FreshSlotsType
<1>7. flag \in [Chunk -> SUBSET ItemFlag]
  BY <1>1 DEF StoreState, ItemFlag
<1>8. s.mem_malloced + SlabLen(id) \in Nat /\ PerSlab[id] \in Nat /\ s.sl_curr[id] + PerSlab[id] = PerSlab[id]
  <2>1. Size[id] \in Nat /\ PerSlab[id] \in Nat /\ s.mem_malloced \in Nat
    BY <1>1, SlabAssumption DEF StoreState
  <2>2. Size[id] * PerSlab[id] \in Nat
    BY <2>1
  <2> QED
    BY <2>1, <2>2 DEF SlabLen
<1> HIDE DEF slots
<1>9. t \in StoreState
  BY <1>1, <1>3, <1>6, <1>7, <1>8, SetMemory
<1>10. /\ t.slots = [s.slots EXCEPT ![id] = slots]
       /\ t.sl_curr = [s.sl_curr EXCEPT ![id] = PerSlab[id]]
       /\ t.slabs = [s.slabs EXCEPT ![id] = p]
       /\ t.key = s.key /\ t.slabs_clsid = s.slabs_clsid /\ t.chain = s.chain
       /\ t.heads = s.heads /\ t.tails = s.tails
  BY <1>1, <1>8 DEF StoreState
<1> HIDE DEF t
<1>11. /\ s.slots \in [SlabClass -> Seq(Chunk)]
       /\ s.sl_curr \in [SlabClass -> Nat]
       /\ s.slabs \in [SlabClass -> Nat]
  BY <1>1 DEF StoreState
<1>12. FreeListsSound(t)
  <2> SUFFICES ASSUME NEW j \in SlabClass
               PROVE  /\ t.slabs[j] <= MaxSlabs
                      /\ IsInjective(t.slots[j])
                      /\ t.sl_curr[j] = Len(t.slots[j])
                      /\ \A it \in Range(t.slots[j]) : it[1] = j /\ it[2] <= t.slabs[j]
    BY DEF FreeListsSound
  <2>1. CASE j = id
    BY <1>3, <1>6, <1>10, <1>11, <2>1, ChunkParts
  <2>2. CASE j # id
    BY <1>1, <1>10, <1>11, <2>2 DEF FreeListsSound
  <2> QED
    BY <2>1, <2>2
<1>13. UsedIn(s) \subseteq UsedIn(t)
  <2> SUFFICES ASSUME NEW it \in UsedIn(s)
               PROVE  it \in UsedIn(t)
    OBVIOUS
  <2>1. it \in Chunk /\ it[1] \in SlabClass /\ it[2] \in 1..MaxSlabs
    BY ChunkParts DEF UsedIn
  <2>2. it[2] <= s.slabs[it[1]] /\ it \notin Range(s.slots[it[1]])
    BY DEF UsedIn
  <2>3. CASE it[1] = id
    <3>1. it[2] < p /\ it[2] <= p /\ it[2] # p
      BY <1>2, <2>1, <2>2, <2>3
    <3>2. it \notin Range(slots)
      BY <1>3, <1>6, <3>1, ChunkParts
    <3> QED
      BY <1>10, <1>11, <2>1, <2>3, <3>1, <3>2 DEF UsedIn
  <2>4. CASE it[1] # id
    BY <1>10, <1>11, <2>1, <2>2, <2>4 DEF UsedIn
  <2> QED
    BY <2>3, <2>4
<1>14. Unlisted(t) /\ InChain(t) = InChain(s)
  BY <1>1, <1>10 DEF Unlisted, InChain
<1>15. Advances(s, t, {})
  BY <1>9, <1>10, <1>12, <1>13, <1>14 DEF Advances, Sound
<1> QED
  BY <1>15 DEF t, slots

\* do_slabs_newslab leaves chunks in use in use, whatever realloc and malloc
\* answer.
LEMMA NewSlabAdvances ==
  ASSUME NEW s, Sound(s), NEW id \in SlabClass, s.sl_curr[id] = 0, NEW os
  PROVE  LET t == do_slabs_newslab(s, id, os).s
         IN  Advances(s, t, {}) /\ InChain(t) = InChain(s)
<1> DEFINE g == grow_slab_list(s, id, os).s
           p == s.slabs[id] + 1
           flag == [it \in Chunk |-> IF it \in Page(id, p) THEN {"SLABBED"} ELSE g.flag[it]]
           u == [g EXCEPT !.slots[id]    = FreshSlots(id, p) \o g.slots[id],
                          !.sl_curr[id]  = g.sl_curr[id] + PerSlab[id],
                          !.slabs[id]    = p,
                          !.mem_malloced = g.mem_malloced + SlabLen(id),
                          !.flag         = flag]
<1>1. s \in StoreState
  BY DEF Sound
<1>2. PICK n \in Nat : g = [s EXCEPT !.list_size[id] = n]
  BY <1>1, GrowSlabListType, ZenonT(60)
<1> HIDE DEF g
<1>3. Keeps(s, g, {})
  BY <1>2, SetListSize
<1>4. Advances(s, g, {})
  BY <1>3, KeepsAdvances
<1>5. Sound(g) /\ g \in StoreState /\ g.sl_curr[id] = 0 /\ g.slabs[id] = s.slabs[id]
  BY <1>3, <1>4 DEF Keeps, Advances, Sound
<1>6. g.chain = s.chain
  BY <1>1, <1>2 DEF StoreState
<1>7. CASE do_slabs_newslab(s, id, os).s = s
  BY <1>1, <1>7, KeepsSelf, KeepsAdvances DEF Sound
<1>8. CASE do_slabs_newslab(s, id, os).s = g
  BY <1>4, <1>6, <1>8 DEF InChain
<1>9. CASE p <= MaxSlabs /\ do_slabs_newslab(s, id, os).s = u
  <2>1. Advances(g, u, {})
    <3>1. p = g.slabs[id] + 1 /\ p <= MaxSlabs
      BY <1>5, <1>9
    <3> QED
      BY <1>5, <3>1, AddSlab
  <2>2. Advances(s, u, {})
    BY <1>4, <2>1, AdvancesTrans
  <2>3. u.chain = g.chain
    BY <1>5 DEF StoreState
  <2> HIDE DEF u
  <2> QED
    BY <1>6, <1>9, <2>2, <2>3 DEF InChain
<1>10. \/ do_slabs_newslab(s, id, os).s \in {s, g}
       \/ /\ ~(p > MaxSlabs)
          /\ do_slabs_newslab(s, id, os).s = u
  BY DEF do_slabs_newslab, g
<1>11. p \in Int /\ MaxSlabs \in Int
  BY <1>1, SlabAssumption DEF StoreState
<1> QED
  BY <1>7, <1>8, <1>9, <1>10, <1>11

\* The head of a free list is handed out.
LEMMA TakeSlot ==
  ASSUME NEW s, Sound(s), NEW id \in SlabClass, s.sl_curr[id] # 0, NEW n \in Nat
  PROVE  LET t == [s EXCEPT !.slots[id]     = Tail(s.slots[id]),
                            !.sl_curr[id]   = s.sl_curr[id] - 1,
                            !.requested[id] = s.requested[id] + n]
             it == Head(s.slots[id])
         IN  /\ Advances(s, t, {})
             /\ InChain(t) = InChain(s)
             /\ it \in UsedIn(t) \ UsedIn(s)
<1> DEFINE q == s.slots[id]
           it == Head(q)
           t == [s EXCEPT !.slots[id]     = Tail(q),
                          !.sl_curr[id]   = s.sl_curr[id] - 1,
                          !.requested[id] = s.requested[id] + n]
<1>1. s \in StoreState /\ Unlisted(s) /\ FreeListsSound(s)
  BY DEF Sound
<1>2. /\ s.slots \in [SlabClass -> Seq(Chunk)]
      /\ s.sl_curr \in [SlabClass -> Nat]
      /\ s.slabs \in [SlabClass -> Nat]
      /\ s.requested[id] + n \in Int
  BY <1>1 DEF StoreState
<1>3. q \in Seq(Chunk) /\ s.sl_curr[id] = Len(q) /\ IsInjective(q)
  BY <1>1, <1>2 DEF FreeListsSound
<1>4. q # <<>> /\ s.sl_curr[id] - 1 \in Nat
  BY <1>2, <1>3, EmptySeq
<1>5. /\ it \in Chunk /\ Tail(q) \in Seq(Chunk)
      /\ Len(Tail(q)) = s.sl_curr[id] - 1
      /\ IsInjective(Tail(q))
      /\ it \in Range(q)
      /\ Range(Tail(q)) \subseteq Range(q) \ {it}
  BY <1>3, <1>4, PopFront
<1>6. it[1] = id /\ it[2] <= s.slabs[id]
  BY <1>1, <1>5 DEF FreeListsSound
<1> HIDE DEF q, it
<1>7. t \in StoreState
  BY <1>1, <1>2, <1>4, <1>5 DEF StoreState
<1>8. /\ t.slots = [s.slots EXCEPT ![id] = Tail(q)]
      /\ t.sl_curr = [s.sl_curr EXCEPT ![id] = s.sl_curr[id] - 1]
      /\ t.slabs = s.slabs
      /\ t.key = s.key /\ t.slabs_clsid = s.slabs_clsid /\ t.chain = s.chain
      /\ t.heads = s.heads /\ t.tails = s.tails
  BY <1>1 DEF StoreState
<1> HIDE DEF t
<1>9. FreeListsSound(t)
  <2> SUFFICES ASSUME NEW j \in SlabClass
               PROVE  /\ t.slabs[j] <= MaxSlabs
                      /\ IsInjective(t.slots[j])
                      /\ t.sl_curr[j] = Len(t.slots[j])
                      /\ \A x \in Range(t.slots[j]) : x[1] = j /\ x[2] <= t.slabs[j]
    BY DEF FreeListsSound
  <2>1. CASE j = id
    <3>1. \A x \in Range(q) : x[1] = id /\ x[2] <= s.slabs[id]
      BY <1>1 DEF FreeListsSound, q
    <3>2. s.slabs[id] <= MaxSlabs
      BY <1>1 DEF FreeListsSound
    <3> QED
      BY <1>2, <1>5, <1>8, <2>1, <3>1, <3>2
  <2>2. CASE j # id
    BY <1>1, <1>2, <1>8, <2>2 DEF FreeListsSound
  <2> QED
    BY <2>1, <2>2
<1>10. UsedIn(s) \subseteq UsedIn(t)
  <2> SUFFICES ASSUME NEW x \in UsedIn(s)
               PROVE  x \in UsedIn(t)
    OBVIOUS
  <2>1. x \in Chunk /\ x[1] \in SlabClass
    BY ChunkParts DEF UsedIn
  <2>2. x[2] <= s.slabs[x[1]] /\ x \notin Range(s.slots[x[1]])
    BY DEF UsedIn
  <2>3. Range(t.slots[x[1]]) \subseteq Range(s.slots[x[1]])
    BY <1>2, <1>5, <1>8, <2>1 DEF q
  <2> QED
    BY <1>8, <2>1, <2>2, <2>3 DEF UsedIn
<1>11. it \in UsedIn(t)
  BY <1>2, <1>5, <1>6, <1>8 DEF UsedIn
<1>12. it \notin UsedIn(s)
  BY <1>5, <1>6 DEF UsedIn, q
<1>13. Unlisted(t) /\ InChain(t) = InChain(s)
  BY <1>1, <1>8 DEF Unlisted, InChain
<1>14. Advances(s, t, {})
  BY <1>7, <1>8, <1>9, <1>10, <1>13 DEF Advances, Sound
<1> QED
  BY <1>11, <1>12, <1>13, <1>14 DEF t, it, q

\* do_slabs_alloc hands out a chunk that nobody had, or none, and does
\* nothing to the hash table.
LEMMA SlabsAllocAdvances ==
  ASSUME NEW s, Sound(s), NEW n \in Nat, NEW id \in SlabClass, NEW os
  PROVE  LET a == do_slabs_alloc(s, n, id, os)
         IN  /\ Advances(s, a.s, {})
             /\ InChain(a.s) = InChain(s)
             /\ a.ret = NoItem \/ a.ret \in UsedIn(a.s) \ UsedIn(s)
<1> DEFINE g == IF s.sl_curr[id] # 0 THEN s ELSE do_slabs_newslab(s, id, os).s
           it == Head(g.slots[id])
           t == [g EXCEPT !.slots[id]     = Tail(g.slots[id]),
                          !.sl_curr[id]   = g.sl_curr[id] - 1,
                          !.requested[id] = g.requested[id] + n]
           a == do_slabs_alloc(s, n, id, os)
<1>1. Advances(s, g, {}) /\ InChain(g) = InChain(s)
  <2>1. CASE s.sl_curr[id] # 0
    BY <2>1, KeepsSelf, KeepsAdvances DEF Sound
  <2>2. CASE s.sl_curr[id] = 0
    BY <2>2, NewSlabAdvances
  <2> QED
    BY <2>1, <2>2
<1>2. Sound(g)
  BY <1>1 DEF Advances
<1>3. \/ g.sl_curr[id] = 0 /\ a = [s |-> g, ret |-> NoItem]
      \/ g.sl_curr[id] # 0 /\ a = [s |-> t, ret |-> it]
  BY DEF do_slabs_alloc
<1> HIDE DEF a, g
<1>4. CASE g.sl_curr[id] = 0 /\ a = [s |-> g, ret |-> NoItem]
  BY <1>1, <1>4 DEF a
<1>5. CASE g.sl_curr[id] # 0 /\ a = [s |-> t, ret |-> it]
  <2>1. Advances(g, t, {}) /\ InChain(t) = InChain(g) /\ it \in UsedIn(t) \ UsedIn(g)
    BY <1>2, <1>5, TakeSlot
  <2> HIDE DEF t, it
  <2>2. Advances(s, t, {})
    BY <1>1, <2>1, AdvancesTrans
  <2>3. it \notin UsedIn(s)
    BY <1>1, <2>1 DEF Advances
  <2>4. a.s = t /\ a.ret = it
    BY <1>5
  <2>5. /\ Advances(s, a.s, {})
        /\ InChain(a.s) = InChain(s)
        /\ a.ret \in UsedIn(a.s) \ UsedIn(s)
    BY <1>1, <2>1, <2>2, <2>3, <2>4
  <2> QED
    BY <2>5 DEF a
<1> QED
  BY <1>3, <1>4, <1>5

\* A chunk leaves its free list with links that disturb no chain: next still
\* points into the free list.
LEMMA DetachedKeeps ==
  ASSUME NEW s \in StoreState, Unlisted(s), NEW it \in Chunk, NEW id \in SlabClass
  PROVE  Keeps(s, Detached(s, it, id), {}) /\ Detached(s, it, id).chain = s.chain
<1> DEFINE q == s.slots[id]
           n == IF q = <<>> THEN NoItem ELSE Head(q)
           t == [s EXCEPT !.next[it] = n, !.prev[it] = NoItem]
<1>1. n \in Chunk \cup {NoItem}
  <2>1. q \in Seq(Chunk)
    BY DEF StoreState
  <2>2. q # <<>> => Head(q) \in Chunk
    BY <2>1, HeadTailProperties
  <2> QED
    BY <2>2
<1> HIDE DEF n
<1>2. t \in StoreState
  BY <1>1 DEF StoreState
<1>3. /\ t.slots = s.slots /\ t.sl_curr = s.sl_curr /\ t.slabs = s.slabs
      /\ t.key = s.key /\ t.slabs_clsid = s.slabs_clsid /\ t.chain = s.chain
      /\ t.heads = s.heads /\ t.tails = s.tails
  BY DEF StoreState
<1>4. Detached(s, it, id) = t
  BY DEF Detached, n
<1> HIDE DEF t
<1>5. Keeps(s, t, {})
  BY <1>2, <1>3, ListKeeps
<1> QED
  BY <1>3, <1>4, <1>5

\* do_item_alloc returns a chunk nobody had, or none, and chains nothing.
LEMMA DoItemAllocAdvances ==
  ASSUME NEW s, Sound(s), NEW n \in Nat, NEW os
  PROVE  LET a == do_item_alloc(s, n, os)
         IN  /\ Advances(s, a.s, {})
             /\ InChain(a.s) = InChain(s)
             /\ a.ret = NoItem \/ a.ret \in UsedIn(a.s) \ UsedIn(s)
<1> DEFINE id == slabs_clsid(Overhead + n)
           alloc == do_slabs_alloc(s, Overhead + n, id, os)
           it == alloc.ret
           t == Detached(alloc.s, it, id)
           a == do_item_alloc(s, n, os)
<1>1. Overhead + n \in Nat
  BY StoreAssumption
<1>2. id \in SlabClass \cup {0}
  BY <1>1, SlabsClsidType
<1> HIDE DEF id
<1>3. \/ id = 0 /\ a = [s |-> s, ret |-> NoItem]
      \/ id # 0 /\ it = NoItem /\ a = alloc
      \/ id # 0 /\ it # NoItem /\ a = [s |-> t, ret |-> it]
  BY DEF do_item_alloc, id
<1> HIDE DEF a
<1>4. CASE id = 0 /\ a = [s |-> s, ret |-> NoItem]
  <2>1. Advances(s, s, {})
    BY KeepsSelf, KeepsAdvances DEF Sound
  <2> QED
    BY <1>4, <2>1 DEF a
<1>5. id # 0 => /\ Advances(s, alloc.s, {})
                /\ InChain(alloc.s) = InChain(s)
                /\ it = NoItem \/ it \in UsedIn(alloc.s) \ UsedIn(s)
  BY <1>1, <1>2, SlabsAllocAdvances
<1> HIDE DEF alloc, it
<1>6. CASE id # 0 /\ it = NoItem /\ a = alloc
  BY <1>5, <1>6 DEF a, it
<1>7. CASE id # 0 /\ it # NoItem /\ a = [s |-> t, ret |-> it]
  <2>1. /\ Advances(s, alloc.s, {})
        /\ InChain(alloc.s) = InChain(s)
        /\ it \in UsedIn(alloc.s) \ UsedIn(s)
    BY <1>5, <1>7
  <2>2. /\ Sound(alloc.s) /\ alloc.s \in StoreState /\ Unlisted(alloc.s)
        /\ it \in Chunk /\ id \in SlabClass
    BY <1>2, <1>7, <2>1 DEF Advances, Sound, UsedIn
  <2>3. Keeps(alloc.s, t, {}) /\ t.chain = alloc.s.chain
    BY <2>2, DetachedKeeps
  <2> HIDE DEF t
  <2>4. Advances(s, t, {})
    BY <2>1, <2>2, <2>3, KeepsAdvances, AdvancesTrans
  <2>5. InChain(t) = InChain(s) /\ UsedIn(t) = UsedIn(alloc.s)
    BY <2>1, <2>3 DEF InChain, UsedIn, Keeps
  <2>6. a.s = t /\ a.ret = it
    BY <1>7
  <2>7. Advances(s, a.s, {}) /\ InChain(a.s) = InChain(s) /\ a.ret \in UsedIn(a.s) \ UsedIn(s)
    BY <2>1, <2>4, <2>5, <2>6
  <2> QED
    BY <2>7 DEF a
<1> QED
  BY <1>3, <1>4, <1>6, <1>7

-----------------------------------------------------------------------------
(* store_item *)

\* A call that does nothing, as a step that may allocate.
LEMMA AdvancesSelf ==
  ASSUME NEW s, Sound(s), NEW A
  PROVE  Advances(s, s, A)
  BY KeepsSelf, KeepsAdvances DEF Sound

\* Giving back a reference to an item, if there is one, frees nothing.
LEMMA DropRefKeeps ==
  ASSUME NEW s \in StoreState, Unlisted(s), NEW it \in Chunk \cup {NoItem}
  PROVE  Keeps(s, DropRef(s, it), {})
  BY DoItemRemoveKeeps, KeepsSelf DEF DropRef

\* The end of do_store_item, which gives back up to two references.
LEMMA StoredKeeps ==
  ASSUME NEW s \in StoreState, Unlisted(s), NEW stat,
         NEW old \in Chunk \cup {NoItem}, NEW new \in Chunk \cup {NoItem}
  PROVE  Keeps(s, Stored(s, old, new, stat).s, {})
<1> DEFINE t == DropRef(s, old)
<1>1. Keeps(s, t, {})
  BY DropRefKeeps
<1> HIDE DEF t
<1>2. Keeps(t, DropRef(t, new), {})
  BY <1>1, DropRefKeeps DEF Keeps
<1>3. Keeps(s, DropRef(t, new), {})
  BY <1>1, <1>2, KeepsTrans
<1>4. Stored(s, old, new, stat).s = DropRef(t, new)
  BY DEF Stored, t
<1> QED
  BY <1>3, <1>4

\* Linking or replacing with the new item chains that item only.
LEMMA PutItemKeeps ==
  ASSUME NEW s \in StoreState, Unlisted(s), NEW old \in Chunk \cup {NoItem},
         NEW it \in Chunk, NEW now \in Nat
  PROVE  Keeps(s, PutItem(s, old, it, now), {it})
<1> DEFINE t == [s EXCEPT !.cas[it] = @ + 1]
<1>1. Keeps(s, t, {})
  <2>1. s.cas[it] + 1 \in Nat
    BY DEF StoreState
  <2>2. t \in StoreState
    BY <2>1 DEF StoreState
  <2>3. /\ t.slots = s.slots /\ t.sl_curr = s.sl_curr /\ t.slabs = s.slabs
        /\ t.key = s.key /\ t.slabs_clsid = s.slabs_clsid /\ t.chain = s.chain
        /\ t.heads = s.heads /\ t.tails = s.tails
    BY DEF StoreState
  <2> HIDE DEF t
  <2> QED
    BY <2>2, <2>3, ListKeeps
<1> HIDE DEF t
<1>2. t \in StoreState /\ Unlisted(t)
  BY <1>1 DEF Keeps
<1>3. Keeps(t, do_item_link(t, it, now), {it})
  BY <1>2, DoItemLinkKeeps
<1>4. old # NoItem => Keeps(t, do_item_replace(t, old, it, now), {it})
  BY <1>2, DoItemReplaceKeeps
<1>5. Keeps(t, PutItem(s, old, it, now), {it})
  BY <1>3, <1>4 DEF PutItem, t
<1>6. Keeps(s, PutItem(s, old, it, now), {} \cup {it})
  BY <1>1, <1>5, KeepsTrans
<1> QED
  BY <1>6

\* The concatenation goes to a chunk that was not in use.
LEMMA ConcatenatedAdvances ==
  ASSUME NEW s, NEW a, Advances(s, a, {}), NEW command,
         NEW old \in Chunk, NEW it \in Chunk, NEW new \in Chunk, new \notin UsedIn(s)
  PROVE  Advances(s, Concatenated(a, old, it, new, command), {})
<1> DEFINE v == IF command = "append" THEN a.val[old] \o a.val[it] ELSE a.val[it] \o a.val[old]
           n == a.nbytes[it] + a.nbytes[old]
           t == [a EXCEPT !.key[new]     = a.key[old],
                          !.flag[new]    = {},
                          !.exptime[new] = a.exptime[old],
                          !.nbytes[new]  = n,
                          !.val[new]     = v]
<1>1. a \in StoreState /\ Unlisted(a) /\ FreeListsSound(a)
  BY DEF Advances, Sound
<1>2. v \in Seq(Atom) /\ n \in Nat
  <2>1. /\ a.val[old] \in Seq(Atom) /\ a.val[it] \in Seq(Atom)
        /\ a.nbytes[old] \in Nat /\ a.nbytes[it] \in Nat
    BY <1>1 DEF StoreState
  <2>2. a.val[old] \o a.val[it] \in Seq(Atom) /\ a.val[it] \o a.val[old] \in Seq(Atom)
    BY <2>1, ConcatProperties
  <2> QED
    BY <2>1, <2>2
<1> HIDE DEF v, n
<1>3. t \in StoreState
  BY <1>1, <1>2, ZenonT(60) DEF StoreState
<1>4. /\ t.slots = a.slots /\ t.sl_curr = a.sl_curr /\ t.slabs = a.slabs
      /\ t.slabs_clsid = a.slabs_clsid /\ t.chain = a.chain
      /\ t.heads = a.heads /\ t.tails = a.tails
      /\ t.key = [a.key EXCEPT ![new] = a.key[old]]
  BY <1>1 DEF StoreState
<1>5. Concatenated(a, old, it, new, command) = t
  BY DEF Concatenated, v, n
<1> HIDE DEF t
<1>6. a.key \in [Chunk -> Key \cup {NoKey}]
  BY <1>1 DEF StoreState
<1>7. Sound(t)
  BY <1>1, <1>3, <1>4 DEF Sound, Unlisted, FreeListsSound
<1>8. UsedIn(t) = UsedIn(a) /\ InChain(t) = InChain(a)
  BY <1>4 DEF UsedIn, InChain
<1>9. \A x \in UsedIn(s) : x \in Chunk /\ t.key[x] = a.key[x]
  BY <1>4, <1>6 DEF UsedIn
<1> QED
  BY <1>5, <1>7, <1>8, <1>9 DEF Advances

\* append and prepend chain at most the chunk they allocated.
LEMMA StoreConcatAdvances ==
  ASSUME NEW s, Sound(s), NEW old \in Chunk, NEW it \in Chunk, NEW command,
         NEW now \in Nat, NEW os
  PROVE  Advances(s, StoreConcat(s, old, it, command, now, os).s, {})
<1> DEFINE n == s.nbytes[it] + s.nbytes[old]
           alloc == do_item_alloc(s, n, os)
           a == alloc.s
           new == alloc.ret
           c == Concatenated(a, old, it, new, command)
           p == PutItem(c, old, new, now)
           r == StoreConcat(s, old, it, command, now, os).s
<1>1. s \in StoreState /\ Unlisted(s) /\ NoItem \in Chunk \cup {NoItem}
  BY DEF Sound
<1>2. n \in Nat
  <2>1. s.nbytes \in [Chunk -> Nat]
    BY <1>1 DEF StoreState
  <2> QED
    BY <2>1
<1>3. Advances(s, a, {}) /\ (new = NoItem \/ new \in UsedIn(a) \ UsedIn(s))
  BY <1>2, DoItemAllocAdvances
<1>4. \/ r = Stored(s, old, NoItem, "EXISTS").s
      \/ new = NoItem /\ r = Stored(a, old, NoItem, "NOT_STORED").s
      \/ new # NoItem /\ r = Stored(p, old, new, "STORED").s
  BY DEF StoreConcat
<1> HIDE DEF r, alloc, n, a, new
<1>5. CASE r = Stored(s, old, NoItem, "EXISTS").s
  <2>1. Keeps(s, r, {})
    BY <1>1, <1>5, StoredKeeps
  <2> QED
    BY <2>1, KeepsAdvances DEF r
<1>6. CASE r = Stored(a, old, NoItem, "NOT_STORED").s
  <2>1. Keeps(a, r, {})
    BY <1>3, <1>6, StoredKeeps DEF Advances, Sound
  <2>2. Advances(a, r, {})
    BY <1>3, <2>1, KeepsAdvances DEF Advances
  <2>3. Advances(s, r, {})
    BY <1>3, <2>2, AdvancesTrans
  <2> QED
    BY <2>3 DEF r
<1>7. CASE new # NoItem /\ r = Stored(p, old, new, "STORED").s
  <2>1. new \in Chunk /\ new \in UsedIn(a) /\ new \notin UsedIn(s)
    BY <1>3, <1>7 DEF UsedIn
  <2>2. Advances(s, c, {}) /\ UsedIn(c) = UsedIn(a)
    <3>1. Advances(s, c, {})
      BY <1>3, <2>1, ConcatenatedAdvances
    <3>2. a \in StoreState
      BY <1>3 DEF Advances, Sound
    <3>3. c.slots = a.slots /\ c.slabs = a.slabs
      BY <3>2 DEF Concatenated, StoreState
    <3> HIDE DEF c
    <3> QED
      BY <3>1, <3>3 DEF UsedIn
  <2> HIDE DEF c
  <2>3. Sound(c) /\ c \in StoreState /\ Unlisted(c)
    BY <2>2 DEF Advances, Sound
  <2>4. Keeps(c, p, {new})
    BY <2>1, <2>3, PutItemKeeps
  <2> HIDE DEF p
  <2>5. Keeps(p, r, {})
    <3>1. p \in StoreState /\ Unlisted(p)
      BY <2>4 DEF Keeps
    <3>2. old \in Chunk \cup {NoItem} /\ new \in Chunk \cup {NoItem}
      BY <2>1
    <3>3. Keeps(p, Stored(p, old, new, "STORED").s, {})
      BY <3>1, <3>2, StoredKeeps
    <3> QED
      BY <1>7, <3>3
  <2>6. Keeps(c, r, {new})
    BY <2>4, <2>5, KeepsTrans
  <2>7. Advances(c, r, {new})
    BY <2>3, <2>6, KeepsAdvances
  <2>8. Advances(s, r, {new})
    BY <2>2, <2>7, AdvancesTrans
  <2>9. new \in UsedIn(r)
    BY <2>1, <2>2, <2>7 DEF Advances
  <2>10. Advances(s, r, {})
    BY <2>1, <2>8, <2>9 DEF Advances
  <2> QED
    BY <2>10 DEF r
<1> QED
  BY <1>4, <1>5, <1>6, <1>7

\* cas chains at most the item it stores.
LEMMA StoreCasKeeps ==
  ASSUME NEW s \in StoreState, Unlisted(s), NEW old \in Chunk \cup {NoItem},
         NEW it \in Chunk, NEW now \in Nat
  PROVE  Keeps(s, StoreCas(s, old, it, now).s, {it})
<1> DEFINE t == do_item_replace(s, old, it, now)
<1>1. CASE old = NoItem
  BY <1>1, KeepsSelf DEF StoreCas
<1>2. CASE old # NoItem
  <2>1. old \in Chunk /\ NoItem \in Chunk \cup {NoItem}
    BY <1>2
  <2>2. Keeps(s, t, {it})
    BY <2>1, DoItemReplaceKeeps
  <2> HIDE DEF t
  <2>3. Keeps(t, Stored(t, old, NoItem, "STORED").s, {})
    BY <2>1, <2>2, StoredKeeps DEF Keeps
  <2>4. Keeps(s, Stored(t, old, NoItem, "STORED").s, {it})
    BY <2>2, <2>3, KeepsTrans
  <2>5. Keeps(s, Stored(s, old, NoItem, "EXISTS").s, {it})
    <3>1. Keeps(s, Stored(s, old, NoItem, "EXISTS").s, {})
      BY <2>1, StoredKeeps
    <3> QED
      BY <3>1 DEF Keeps
  <2>6. StoreCas(s, old, it, now).s
          \in {Stored(t, old, NoItem, "STORED").s, Stored(s, old, NoItem, "EXISTS").s}
    BY <1>2 DEF StoreCas, t
  <2> QED
    BY <2>4, <2>5, <2>6
<1> QED
  BY <1>1, <1>2

\* store_item chains at most the item it is given and items it allocates.
LEMMA DoStoreItemAdvances ==
  ASSUME NEW s, Sound(s), NEW it \in Chunk, s.key[it] \in Key, NEW command,
         NEW now \in Nat, NEW os
  PROVE  Advances(s, do_store_item(s, it, command, now, os).s, {it})
<1> DEFINE got == do_item_get(s, s.key[it], now)
           g == got.s
           old == got.ret
           r == do_store_item(s, it, command, now, os).s
<1>1. s \in StoreState /\ Unlisted(s) /\ NoItem \in Chunk \cup {NoItem}
  BY DEF Sound
<1>2. Keeps(s, g, {}) /\ old \in Chunk \cup {NoItem}
  BY <1>1, DoItemGetKeeps
<1>3. \/ old # NoItem /\ r = Stored(do_item_update(g, old, now), old, NoItem, "NOT_STORED").s
      \/ r = Stored(g, old, NoItem, "NOT_STORED").s
      \/ r = StoreCas(g, old, it, now).s
      \/ old # NoItem /\ r = StoreConcat(g, old, it, command, now, os).s
      \/ r = Stored(PutItem(g, old, it, now), old, NoItem, "STORED").s
  BY DEF do_store_item
<1> HIDE DEF r, got, g, old
<1>4. Advances(s, g, {}) /\ Sound(g) /\ g \in StoreState /\ Unlisted(g)
  BY <1>2, KeepsAdvances DEF Advances, Sound
<1>5. Keeps(g, r, {it}) => Advances(s, r, {it})
  <2>1. ASSUME Keeps(g, r, {it})
        PROVE  Advances(s, r, {} \cup {it})
    BY <1>4, <2>1, KeepsAdvances, AdvancesTrans
  <2> QED
    BY <2>1
<1>6. CASE old # NoItem /\ r = Stored(do_item_update(g, old, now), old, NoItem, "NOT_STORED").s
  <2> DEFINE u == do_item_update(g, old, now)
  <2>1. Keeps(g, u, {})
    BY <1>2, <1>4, <1>6, DoItemUpdateKeeps
  <2> HIDE DEF u
  <2>2. Keeps(u, Stored(u, old, NoItem, "NOT_STORED").s, {it})
    <3>1. Keeps(u, Stored(u, old, NoItem, "NOT_STORED").s, {})
      BY <1>1, <1>2, <2>1, StoredKeeps DEF Keeps
    <3> QED
      BY <3>1 DEF Keeps
  <2>3. Keeps(g, Stored(u, old, NoItem, "NOT_STORED").s, {it})
    BY <2>1, <2>2, KeepsTrans
  <2> QED
    BY <1>5, <1>6, <2>3 DEF u, r
<1>7. CASE r = Stored(g, old, NoItem, "NOT_STORED").s
  <2>1. Keeps(g, r, {})
    BY <1>1, <1>2, <1>4, <1>7, StoredKeeps
  <2>2. Keeps(g, r, {it})
    BY <2>1 DEF Keeps
  <2> QED
    BY <1>5, <2>2 DEF r
<1>8. CASE r = StoreCas(g, old, it, now).s
  <2>1. Keeps(g, r, {it})
    BY <1>2, <1>4, <1>8, StoreCasKeeps
  <2> QED
    BY <1>5, <2>1 DEF r
<1>9. CASE old # NoItem /\ r = StoreConcat(g, old, it, command, now, os).s
  <2>1. Advances(g, r, {})
    BY <1>2, <1>4, <1>9, StoreConcatAdvances
  <2>2. Advances(s, r, {})
    BY <1>4, <2>1, AdvancesTrans
  <2> QED
    BY <2>2 DEF Advances, r
<1>10. CASE r = Stored(PutItem(g, old, it, now), old, NoItem, "STORED").s
  <2> DEFINE u == PutItem(g, old, it, now)
  <2>1. Keeps(g, u, {it})
    BY <1>2, <1>4, PutItemKeeps
  <2> HIDE DEF u
  <2>2. Keeps(u, Stored(u, old, NoItem, "STORED").s, {})
    BY <1>1, <1>2, <2>1, StoredKeeps DEF Keeps
  <2>3. Keeps(g, Stored(u, old, NoItem, "STORED").s, {it})
    BY <2>1, <2>2, KeepsTrans
  <2> QED
    BY <1>5, <1>10, <2>3 DEF u, r
<1> QED
  BY <1>3, <1>6, <1>7, <1>8, <1>9, <1>10

=============================================================================
