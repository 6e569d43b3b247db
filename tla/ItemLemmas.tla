------------------------------ MODULE ItemLemmas ------------------------------
(***************************************************************************)
(* What the functions of slab.cpp do to the items: which items are chained *)
(* under which keys, and the headers, values, cas ids and reference counts *)
(* of the items.  CacheProofs builds on these facts.                       *)
(***************************************************************************)
EXTENDS StoreLemmas

\* Item x belongs into bucket b.
InPlace(s, b, x) ==
  /\ "LINKED" \in s.flag[x]
  /\ "SLABBED" \notin s.flag[x]
  /\ s.key[x] \in Key
  /\ Hash[s.key[x]] = b

\* ChainSound of a state record; moreover a chained item has a key.
ChainOK(s) ==
  \A b \in Bucket :
    /\ \A i \in DOMAIN s.chain[b] : InPlace(s, b, s.chain[b][i])
    /\ \A i, j \in DOMAIN s.chain[b] : s.key[s.chain[b][i]] = s.key[s.chain[b][j]] => i = j

\* t chains items of s only, none with key k, and all items of s that are
\* not in the bucket of k.
Drops(s, t, k) ==
  /\ InChain(t) \subseteq InChain(s)
  /\ \A x \in InChain(t) : s.key[x] # k
  /\ \A x \in InChain(s) : Hash[s.key[x]] # Hash[k] => x \in InChain(t)

-----------------------------------------------------------------------------
(* The hash table as a set of items *)

\* A chained item is in the bucket of its key.
LEMMA ChainItem ==
  ASSUME NEW s \in StoreState, ChainOK(s), NEW x \in InChain(s)
  PROVE  /\ x \in Chunk /\ s.key[x] \in Key
         /\ "LINKED" \in s.flag[x] /\ "SLABBED" \notin s.flag[x]
         /\ Hash[s.key[x]] \in Bucket
         /\ \E i \in DOMAIN s.chain[Hash[s.key[x]]] : s.chain[Hash[s.key[x]]][i] = x
<1>1. PICK b \in Bucket : x \in Range(s.chain[b])
  BY DEF InChain
<1>2. PICK i \in DOMAIN s.chain[b] : s.chain[b][i] = x
  BY <1>1 DEF Range
<1>3. InPlace(s, b, x)
  BY <1>2 DEF ChainOK
<1> QED
  BY <1>1, <1>2, <1>3, InChainType DEF InPlace

\* An item at some place of a chain is chained.
LEMMA ChainPlace ==
  ASSUME NEW s, NEW b \in Bucket, NEW i \in DOMAIN s.chain[b]
  PROVE  s.chain[b][i] \in InChain(s)
  BY DEF InChain, Range

\* No key is chained twice.
LEMMA ChainKeys ==
  ASSUME NEW s \in StoreState, ChainOK(s), NEW x \in InChain(s), NEW y \in InChain(s),
         s.key[x] = s.key[y]
  PROVE  x = y
<1> DEFINE b == Hash[s.key[x]]
<1>1. b \in Bucket /\ \E i \in DOMAIN s.chain[b] : s.chain[b][i] = x
  BY ChainItem
<1>2. \E j \in DOMAIN s.chain[b] : s.chain[b][j] = y
  BY ChainItem
<1>3. PICK i \in DOMAIN s.chain[b], j \in DOMAIN s.chain[b] : s.chain[b][i] = x /\ s.chain[b][j] = y
  BY <1>1, <1>2
<1> HIDE DEF b
<1>4. i = j
  BY <1>1, <1>3 DEF ChainOK
<1> QED
  BY <1>3, <1>4

\* hash_find returns the chained item of the key, or nothing if there is none.
LEMMA HashFindIs ==
  ASSUME NEW s \in StoreState, ChainOK(s), NEW k \in Key
  PROVE  /\ hash_find(s, k) # NoItem => hash_find(s, k) \in InChain(s) /\ s.key[hash_find(s, k)] = k
         /\ \A x \in InChain(s) : s.key[x] = k => hash_find(s, k) = x
<1> DEFINE c == s.chain[Hash[k]]
           at == KeyAt(s, k, c)
           f == hash_find(s, k)
<1>1. Hash[k] \in Bucket /\ c \in Seq(Chunk)
  BY StoreAssumption DEF StoreState
<1>2. at \subseteq DOMAIN c /\ DOMAIN c \subseteq Nat
  BY <1>1 DEF KeyAt
<1>3. at # {} => First(at) \in at
  BY <1>2, MinNat DEF First
<1>4. f = IF at = {} THEN NoItem ELSE c[First(at)]
  BY DEF hash_find
<1>5. at # {} => f \in InChain(s) /\ s.key[f] = k
  <2> HAVE at # {}
  <2>1. First(at) \in DOMAIN c /\ s.key[c[First(at)]] = k
    BY <1>3 DEF KeyAt
  <2> QED
    BY <1>1, <1>4, <2>1, ChainPlace
<1>6. ASSUME NEW x \in InChain(s), s.key[x] = k
      PROVE  at # {}
  <2>1. PICK i \in DOMAIN c : c[i] = x
    BY <1>6, ChainItem
  <2> QED
    BY <1>6, <2>1 DEF KeyAt
<1> HIDE DEF f, at
<1>7. ASSUME NEW x \in InChain(s), s.key[x] = k
      PROVE  f = x
  BY <1>5, <1>6, <1>7, ChainKeys
<1> QED
  BY <1>4, <1>5, <1>7 DEF f

\* A change that leaves chains, and keys and state bits of chained items.
LEMMA ChainFrame ==
  ASSUME NEW s, ChainOK(s), NEW t, t.chain = s.chain,
         \A x \in InChain(s) : /\ t.key[x] = s.key[x]
                               /\ "LINKED" \in t.flag[x] /\ "SLABBED" \notin t.flag[x]
  PROVE  ChainOK(t) /\ InChain(t) = InChain(s)
<1>1. InChain(t) = InChain(s)
  BY DEF InChain
<1>2. ASSUME NEW b \in Bucket, NEW i \in DOMAIN t.chain[b]
      PROVE  /\ i \in DOMAIN s.chain[b] /\ t.chain[b][i] = s.chain[b][i]
             /\ t.chain[b][i] \in InChain(s)
             /\ InPlace(s, b, t.chain[b][i])
  BY ChainPlace DEF ChainOK
<1>3. ASSUME NEW b \in Bucket, NEW i \in DOMAIN t.chain[b]
      PROVE  InPlace(t, b, t.chain[b][i])
  BY <1>2, <1>3 DEF InPlace
<1>4. ASSUME NEW b \in Bucket, NEW i \in DOMAIN t.chain[b], NEW j \in DOMAIN t.chain[b],
             t.key[t.chain[b][i]] = t.key[t.chain[b][j]]
      PROVE  i = j
  <2>1. s.key[s.chain[b][i]] = s.key[s.chain[b][j]]
    BY <1>2, <1>4
  <2> QED
    BY <1>2, <2>1 DEF ChainOK
<1> QED
  BY <1>1, <1>3, <1>4 DEF ChainOK

\* Neither chains nor keys nor flags change.
LEMMA SameTable ==
  ASSUME NEW s, ChainOK(s), NEW t, t.chain = s.chain, t.key = s.key, t.flag = s.flag
  PROVE  ChainOK(t) /\ InChain(t) = InChain(s)
<1>1. \A b, x : InPlace(t, b, x) <=> InPlace(s, b, x)
  BY DEF InPlace
<1>2. ChainOK(t)
  BY <1>1 DEF ChainOK
<1> QED
  BY <1>2 DEF InChain

\* hash_insert chains an item whose key is not chained yet.
LEMMA HashInsertItems ==
  ASSUME NEW s \in StoreState, ChainOK(s), NEW it \in Chunk,
         "LINKED" \in s.flag[it], "SLABBED" \notin s.flag[it], s.key[it] \in Key,
         \A x \in InChain(s) : s.key[x] # s.key[it]
  PROVE  ChainOK(hash_insert(s, it)) /\ InChain(hash_insert(s, it)) = InChain(s) \cup {it}
<1> DEFINE h == Hash[s.key[it]]
           c == s.chain[h]
           d == <<it>> \o c
           t == hash_insert(s, it)
<1>1. h \in Bucket /\ s.chain \in [Bucket -> Seq(Chunk)] /\ c \in Seq(Chunk)
  BY StoreAssumption DEF StoreState
<1>2. /\ t.chain = [s.chain EXCEPT ![h] = d]
      /\ t.key = s.key /\ t.flag = s.flag
  BY DEF hash_insert, StoreState
<1>3. Range(d) = {it} \cup Range(c)
  BY <1>1, PushFront
<1>4. /\ Len(c) \in Nat /\ DOMAIN c = 1..Len(c) /\ DOMAIN d = 1..(Len(c) + 1)
      /\ \A i \in 1..(Len(c) + 1) : d[i] = IF i <= 1 THEN it ELSE c[i - 1]
  <2> HIDE DEF c, t, h
  <2> QED
    BY <1>1, PushPlaces, SMTT(60)
<1> HIDE DEF t, d
<1>5. t.chain[h] = d /\ \A b \in Bucket : b # h => t.chain[b] = s.chain[b]
  BY <1>1, <1>2
<1>6. InChain(t) = InChain(s) \cup {it}
  BY <1>1, <1>3, <1>5, SMTT(60) DEF InChain
<1>7. ASSUME NEW b \in Bucket
      PROVE  /\ \A i \in DOMAIN t.chain[b] : InPlace(t, b, t.chain[b][i])
             /\ \A i, j \in DOMAIN t.chain[b] :
                  t.key[t.chain[b][i]] = t.key[t.chain[b][j]] => i = j
  <2>1. CASE b # h
    BY <1>2, <1>5, <2>1 DEF ChainOK, InPlace
  <2>2. CASE b = h
    <3>1. \A i \in DOMAIN c : InPlace(s, h, c[i]) /\ s.key[c[i]] # s.key[it]
      BY <1>1, ChainPlace DEF ChainOK
    <3>2. \A i, j \in DOMAIN c : s.key[c[i]] = s.key[c[j]] => i = j
      BY <1>1 DEF ChainOK
    <3> HIDE DEF c
    <3>3. ASSUME NEW i \in DOMAIN d, ~(i <= 1)
          PROVE  i - 1 \in DOMAIN c /\ d[i] = c[i - 1]
      BY <1>4, <3>3
    <3>4. \A i \in DOMAIN d : i <= 1 => d[i] = it /\ i = 1
      BY <1>4
    <3>5. ASSUME NEW i \in DOMAIN d
          PROVE  InPlace(t, h, d[i])
      <4>1. CASE i <= 1
        BY <1>2, <3>4, <4>1 DEF InPlace
      <4>2. CASE ~(i <= 1)
        BY <1>2, <3>1, <3>3, <4>2 DEF InPlace
      <4> QED
        BY <4>1, <4>2
    <3>6. ASSUME NEW i \in DOMAIN d, NEW j \in DOMAIN d, s.key[d[i]] = s.key[d[j]]
          PROVE  i = j
      <4>1. CASE i <= 1 /\ j <= 1
        BY <3>4, <4>1
      <4>2. CASE i <= 1 /\ ~(j <= 1)
        BY <3>1, <3>3, <3>4, <3>6, <4>2
      <4>3. CASE ~(i <= 1) /\ j <= 1
        BY <3>1, <3>3, <3>4, <3>6, <4>3
      <4>4. CASE ~(i <= 1) /\ ~(j <= 1)
        <5>1. i - 1 = j - 1
          BY <3>2, <3>3, <3>6, <4>4
        <5> QED
          BY <1>4, <5>1
      <4> QED
        BY <4>1, <4>2, <4>3, <4>4
    <3> QED
      BY <1>2, <1>5, <2>2, <3>5, <3>6
  <2> QED
    BY <2>1, <2>2
<1>8. ChainOK(t)
  BY <1>7 DEF ChainOK
<1> QED
  BY <1>6, <1>8 DEF t

\* What is left of a chain, place by place.
LEMMA RemoveAtItems ==
  ASSUME NEW S, NEW c \in Seq(S), NEW i \in DOMAIN c
  PROVE  LET d == RemoveAt(c, i)
         IN  /\ Len(c) \in Nat /\ DOMAIN c = 1..Len(c) /\ DOMAIN d = 1..(Len(c) - 1)
             /\ \A j \in 1..(Len(c) - 1) : d[j] = IF j < i THEN c[j] ELSE c[j + 1]
<1> DEFINE l == SubSeq(c, 1, i - 1)
           r == SubSeq(c, i + 1, Len(c))
           d == l \o r
<1>1. /\ Len(c) \in Nat
      /\ DOMAIN c = 1..Len(c)
      /\ i \in 1..Len(c)
      /\ \A j \in 1..Len(c) : c[j] \in S
  BY LenProperties, ElementOfSeq
<1>2. l \in Seq(S) /\ Len(l) = i - 1 /\ \A j \in 1..(i - 1) : l[j] = c[j]
  BY <1>1, SubSeqProperties
<1>3. r \in Seq(S) /\ Len(r) = Len(c) - i /\ \A j \in 1..(Len(c) - i) : r[j] = c[i + j]
  BY <1>1, SubSeqProperties
<1> HIDE DEF l, r
<1>4. /\ d \in Seq(S) /\ Len(d) = Len(l) + Len(r)
      /\ \A j \in 1..(Len(l) + Len(r)) : d[j] = IF j <= Len(l) THEN l[j] ELSE r[j - Len(l)]
  BY <1>2, <1>3, ConcatProperties
<1>5. RemoveAt(c, i) = d
  BY DEF RemoveAt, l, r
<1> HIDE DEF d
<1>6. DOMAIN d = 1..(Len(c) - 1)
  <2>1. DOMAIN d = 1..Len(d)
    BY <1>4, LenProperties
  <2>2. Len(d) = Len(c) - 1
    BY <1>1, <1>2, <1>3, <1>4
  <2> QED
    BY <2>1, <2>2
<1>7. ASSUME NEW j \in 1..(Len(c) - 1)
      PROVE  d[j] = IF j < i THEN c[j] ELSE c[j + 1]
  <2>1. CASE j < i
    BY <1>1, <1>2, <1>3, <1>4, <2>1
  <2>2. CASE ~(j < i)
    <3>1. j - (i - 1) \in 1..(Len(c) - i) /\ i + (j - (i - 1)) = j + 1
      BY <1>1, <2>2
    <3>2. d[j] = r[j - (i - 1)]
      BY <1>1, <1>2, <1>3, <1>4, <2>2
    <3>3. r[j - (i - 1)] = c[i + (j - (i - 1))]
      BY <1>3, <3>1
    <3> QED
      BY <2>2, <3>1, <3>2, <3>3
  <2> QED
    BY <2>1, <2>2
<1> QED
  BY <1>1, <1>5, <1>6, <1>7

\* hash_delete leaves no item of the key; it may lose other items of the
\* bucket, but no item of another bucket.
LEMMA HashDeleteItems ==
  ASSUME NEW s \in StoreState, ChainOK(s), NEW k \in Key
  PROVE  ChainOK(hash_delete(s, k)) /\ Drops(s, hash_delete(s, k), k)
<1> DEFINE h == Hash[k]
           c == s.chain[h]
           at == KeyAt(s, k, c)
           i == First(at)
           t == hash_delete(s, k)
<1>1. h \in Bucket /\ s.chain \in [Bucket -> Seq(Chunk)] /\ c \in Seq(Chunk)
  BY StoreAssumption DEF StoreState
<1>2. at \subseteq DOMAIN c /\ DOMAIN c \subseteq Nat
  BY <1>1 DEF KeyAt
<1>3. \A x \in InChain(s) : s.key[x] = k => \E j \in at : c[j] = x
  BY ChainItem DEF KeyAt
<1>4. t.key = s.key /\ t.flag = s.flag
  BY DEF hash_delete, StoreState
<1>5. CASE c = <<>> \/ 1 \in at
  <2>1. t.chain = [s.chain EXCEPT ![h] = <<>>]
    BY <1>5 DEF hash_delete, StoreState
  <2> HIDE DEF t
  <2>2. t.chain[h] = <<>> /\ \A b \in Bucket : b # h => t.chain[b] = s.chain[b]
    BY <1>1, <2>1
  <2>3. ChainOK(t)
    BY <1>4, <2>2 DEF ChainOK, InPlace
  <2>4. Range(<<>>) = {}
    BY DEF Range
  <2>5. InChain(t) \subseteq InChain(s)
    BY <2>2, <2>4 DEF InChain
  <2>6. ASSUME NEW x \in InChain(t)
        PROVE  s.key[x] # k
    <3>1. PICK b \in Bucket : x \in Range(t.chain[b])
      BY DEF InChain
    <3>2. b # h /\ x \in Range(s.chain[b])
      BY <2>2, <2>4, <3>1
    <3>3. Hash[s.key[x]] = b
      BY <3>2 DEF Range, ChainOK, InPlace
    <3> QED
      BY <3>2, <3>3
  <2>7. ASSUME NEW x \in InChain(s), Hash[s.key[x]] # h
        PROVE  x \in InChain(t)
    <3>1. PICK b \in Bucket : x \in Range(s.chain[b])
      BY DEF InChain
    <3>2. Hash[s.key[x]] = b
      BY <3>1 DEF Range, ChainOK, InPlace
    <3> QED
      BY <2>2, <2>7, <3>1, <3>2 DEF InChain
  <2> QED
    BY <2>3, <2>5, <2>6, <2>7 DEF Drops, t
<1>6. CASE ~(c = <<>> \/ 1 \in at) /\ at = {}
  <2>1. t = s
    BY <1>6 DEF hash_delete
  <2> QED
    BY <1>3, <1>6, <2>1 DEF Drops
<1>7. CASE ~(c = <<>> \/ 1 \in at) /\ at # {}
  <2> DEFINE d == RemoveAt(c, i)
  <2>1. i \in at /\ i \in DOMAIN c /\ s.key[c[i]] = k
    BY <1>2, <1>7, MinNat DEF First, KeyAt
  <2> HIDE DEF i, at
  <2>2. t.chain = [s.chain EXCEPT ![h] = d]
    BY <1>7 DEF hash_delete, StoreState, at, i
  <2> HIDE DEF t
  <2>3. t.chain[h] = d /\ \A b \in Bucket : b # h => t.chain[b] = s.chain[b]
    BY <1>1, <2>2
  <2>4. /\ Len(c) \in Nat /\ DOMAIN c = 1..Len(c) /\ DOMAIN d = 1..(Len(c) - 1)
        /\ \A j \in 1..(Len(c) - 1) : d[j] = IF j < i THEN c[j] ELSE c[j + 1]
    BY <1>1, <2>1, RemoveAtItems
  <2> HIDE DEF d
  <2>5. i \in Nat
    BY <2>1, <2>4
  <2>6. \A a \in DOMAIN c : InPlace(s, h, c[a])
    BY <1>1 DEF ChainOK
  <2>7. \A a, e \in DOMAIN c : s.key[c[a]] = s.key[c[e]] => a = e
    BY <1>1 DEF ChainOK
  <2> DEFINE src(j) == IF j < i THEN j ELSE j + 1
  <2>8. ASSUME NEW j \in DOMAIN d
        PROVE  src(j) \in DOMAIN c /\ src(j) # i /\ d[j] = c[src(j)]
    BY <2>4, <2>5
  <2>9. ASSUME NEW j \in DOMAIN d, NEW l \in DOMAIN d, src(j) = src(l)
        PROVE  j = l
    BY <2>4, <2>5, <2>9
  <2>10. ASSUME NEW a \in DOMAIN c, a # i
         PROVE  \E j \in DOMAIN d : d[j] = c[a]
    <3>1. CASE a < i
      <4>1. a \in DOMAIN d /\ d[a] = c[a]
        BY <2>1, <2>4, <2>5, <3>1
      <4> QED
        BY <4>1
    <3>2. CASE ~(a < i)
      <4>1. a - 1 \in DOMAIN d /\ ~(a - 1 < i) /\ (a - 1) + 1 = a
        BY <2>1, <2>4, <2>5, <2>10, <3>2
      <4>2. d[a - 1] = c[a]
        BY <2>4, <4>1
      <4> QED
        BY <4>1, <4>2
    <3> QED
      BY <3>1, <3>2
  <2> HIDE DEF src
  <2>11. ChainOK(t)
    <3>1. ASSUME NEW j \in DOMAIN d
          PROVE  InPlace(t, h, d[j])
      <4>1. InPlace(s, h, d[j])
        BY <2>6, <2>8
      <4> QED
        BY <1>4, <4>1 DEF InPlace
    <3>2. \A j, l \in DOMAIN d : s.key[d[j]] = s.key[d[l]] => j = l
      BY <2>7, <2>8, <2>9
    <3>3. ASSUME NEW b \in Bucket, b # h
          PROVE  /\ \A j \in DOMAIN t.chain[b] : InPlace(t, b, t.chain[b][j])
                 /\ \A j, l \in DOMAIN t.chain[b] :
                      t.key[t.chain[b][j]] = t.key[t.chain[b][l]] => j = l
      BY <1>4, <2>3, <3>3 DEF ChainOK, InPlace
    <3> QED
      BY <1>4, <2>3, <3>1, <3>2, <3>3 DEF ChainOK
  <2>12. Range(d) = Range(c) \ {c[i]}
    <3>1. \A j \in DOMAIN d : d[j] \in Range(c) /\ d[j] # c[i]
      BY <2>1, <2>7, <2>8 DEF Range
    <3>2. \A a \in DOMAIN c : c[a] # c[i] => c[a] \in Range(d)
      BY <2>10 DEF Range
    <3> QED
      BY <3>1, <3>2 DEF Range
  <2>13. InChain(t) \subseteq InChain(s)
    BY <1>1, <2>3, <2>12 DEF InChain
  <2>14. c[i] \in InChain(s)
    BY <1>1, <2>1, ChainPlace
  <2>15. \A x \in InChain(s) : s.key[x] = k => x = c[i]
    BY <2>1, <2>14, ChainKeys
  <2>16. ASSUME NEW x \in InChain(t)
         PROVE  s.key[x] # k
    <3>1. PICK b \in Bucket : x \in Range(t.chain[b])
      BY DEF InChain
    <3>2. CASE b = h
      BY <2>3, <2>12, <2>13, <2>15, <3>1, <3>2
    <3>3. CASE b # h
      <4>1. x \in Range(s.chain[b])
        BY <2>3, <3>1, <3>3
      <4>2. Hash[s.key[x]] = b
        BY <4>1 DEF Range, ChainOK, InPlace
      <4> QED
        BY <3>3, <4>2
    <3> QED
      BY <3>2, <3>3
  <2>17. ASSUME NEW x \in InChain(s), Hash[s.key[x]] # h
         PROVE  x \in InChain(t)
    <3>1. PICK b \in Bucket : x \in Range(s.chain[b])
      BY DEF InChain
    <3>2. Hash[s.key[x]] = b
      BY <3>1 DEF Range, ChainOK, InPlace
    <3> QED
      BY <2>3, <2>17, <3>1, <3>2 DEF InChain
  <2> QED
    BY <2>11, <2>13, <2>16, <2>17 DEF Drops, t
<1> QED
  BY <1>5, <1>6, <1>7

-----------------------------------------------------------------------------
(* Items *)

\* Keys, values, cas ids and times of all items are the same.
SameData(s, t) ==
  /\ t.key = s.key
  /\ t.val = s.val
  /\ t.cas = s.cas
  /\ t.exptime = s.exptime
  /\ t.cas_id = s.cas_id

\* Only what concerns LRU lists and memory may differ.
SameItems(s, t) ==
  /\ SameData(s, t)
  /\ t.chain = s.chain
  /\ t.flag = s.flag
  /\ t.refcount = s.refcount

\* Item it has left the hash table; no other item was written to.
Removed(s, t, it) ==
  /\ Keeps(s, t, {})
  /\ SameData(s, t)
  /\ ChainOK(t)
  /\ Drops(s, t, s.key[it])
  /\ \A x \in Chunk : x # it => t.flag[x] = s.flag[x] /\ t.refcount[x] = s.refcount[x]

\* Item it stays where it is, with count n.
Touched(s, t, it, n) ==
  /\ Keeps(s, t, {})
  /\ SameData(s, t)
  /\ ChainOK(t)
  /\ t.chain = s.chain
  /\ \A x \in Chunk : x # it => t.flag[x] = s.flag[x]
  /\ t.refcount = [s.refcount EXCEPT ![it] = n]

\* Item it has entered the hash table under a new cas id.
Linked(s, t, it) ==
  /\ Keeps(s, t, {it})
  /\ ChainOK(t)
  /\ InChain(t) = InChain(s) \cup {it}
  /\ t.key = s.key
  /\ t.val = s.val
  /\ t.exptime = s.exptime
  /\ t.cas_id = s.cas_id + 1
  /\ t.cas = [s.cas EXCEPT ![it] = s.cas_id + 1]
  /\ t.flag = [s.flag EXCEPT ![it] = @ \cup {"LINKED"}]
  /\ t.refcount = [s.refcount EXCEPT ![it] = Incr(@)]

\* A counter that goes up and down again is where it was, also where it
\* wraps around.
LEMMA CounterBack ==
  ASSUME NEW n \in 0..(UInt - 1)
  PROVE  Decr(Incr(n)) = n
<1>1. UInt \in Nat /\ UInt >= 2
  BY StoreAssumption
<1>2. CASE n + 1 = UInt
  <2>1. Incr(n) = 0
    BY <1>1, <1>2 DEF Incr
  <2>2. Decr(0) = UInt - 1
    BY <1>1 DEF Decr
  <2> QED
    BY <1>1, <1>2, <2>1, <2>2
<1>3. CASE n + 1 # UInt
  <2>1. Incr(n) = n + 1
    BY <1>1, <1>3 DEF Incr
  <2>2. Decr(n + 1) = n
    <3>1. (n + 1) + UInt - 1 = n + UInt
      BY <1>1
    <3>2. (n + UInt) % UInt = n
      BY <1>1
    <3> QED
      BY <3>1, <3>2 DEF Decr
  <2> QED
    BY <2>1, <2>2
<1> QED
  BY <1>2, <1>3

\* A new item has one reference.
LEMMA FirstReference == Incr(0) = 1 /\ Decr(1) = 0
<1>1. UInt \in Nat /\ UInt >= 2
  BY StoreAssumption
<1>2. 1 % UInt = 1
  BY <1>1
<1>3. UInt % UInt = 0
  BY <1>1
<1> QED
  BY <1>1, <1>2, <1>3 DEF Incr, Decr

\* The LRU lists have no part in what the items are.
LEMMA LinkQItems ==
  ASSUME NEW s \in StoreState, NEW it \in Chunk
  PROVE  SameItems(s, item_link_q(s, it)) /\ SameItems(s, item_unlink_q(s, it))
<1>1. SameItems(s, item_link_q(s, it))
  BY DEF item_link_q, StoreState, SameItems, SameData
<1>2. SameItems(s, item_unlink_q(s, it))
  BY DEF item_unlink_q, StoreState, SameItems, SameData
<1> QED
  BY <1>1, <1>2

\* do_item_remove takes away one reference, and nothing else.
LEMMA RemoveIs ==
  ASSUME NEW s \in StoreState, Unlisted(s), NEW it \in Chunk, "SLABBED" \notin s.flag[it]
  PROVE  do_item_remove(s, it) = [s EXCEPT !.refcount[it] = Decr(@)]
<1> DEFINE t == [s EXCEPT !.refcount[it] = Decr(@)]
<1>1. t \in StoreState
  <2>1. Decr(s.refcount[it]) \in 0..(UInt - 1)
    BY CounterType DEF StoreState
  <2> QED
    BY <2>1 DEF StoreState
<1>2. t.slabs_clsid[it] = 0 /\ 0 \notin SlabClass
  BY ListIdType DEF Unlisted, StoreState
<1>3. do_item_remove(s, it) \in {t, item_free(t, it)}
  BY DEF do_item_remove
<1> HIDE DEF t
<1>4. item_free(t, it) = t
  <2>1. [t EXCEPT !.slabs_clsid[it] = 0] = t
    <3>1. [t.slabs_clsid EXCEPT ![it] = 0] = t.slabs_clsid
      BY <1>1, <1>2 DEF StoreState
    <3> QED
      BY <1>1, <3>1 DEF StoreState
  <2> QED
    BY <1>2, <2>1 DEF item_free, do_slabs_free
<1> QED
  BY <1>3, <1>4 DEF t

\* The same, field by field.
LEMMA RemoveItems ==
  ASSUME NEW s \in StoreState, Unlisted(s), NEW it \in Chunk, "SLABBED" \notin s.flag[it]
  PROVE  LET t == do_item_remove(s, it)
         IN  /\ SameData(s, t) /\ t.chain = s.chain /\ t.flag = s.flag
             /\ t.refcount = [s.refcount EXCEPT ![it] = Decr(@)]
<1> DEFINE t == [s EXCEPT !.refcount[it] = Decr(@)]
<1>1. /\ SameData(s, t) /\ t.chain = s.chain /\ t.flag = s.flag
      /\ t.refcount = [s.refcount EXCEPT ![it] = Decr(@)]
  BY DEF SameData, StoreState
<1> QED
  BY <1>1, RemoveIs

\* do_item_unlink takes a chained item, and its key, out of the hash table.
LEMMA UnlinkItems ==
  ASSUME NEW s \in StoreState, Unlisted(s), ChainOK(s), NEW it \in InChain(s)
  PROVE  LET t == do_item_unlink(s, it)
         IN  Removed(s, t, it) /\ "SLABBED" \notin t.flag[it]
<1> DEFINE k == s.key[it]
           a == [s EXCEPT !.flag[it] = @ \ {"LINKED"}]
           d == hash_delete(s, k)
           u == hash_delete(a, k)
           v == item_unlink_q(u, it)
           w == do_item_remove(v, it)
<1>1. it \in Chunk /\ k \in Key /\ "LINKED" \in s.flag[it] /\ "SLABBED" \notin s.flag[it]
  BY ChainItem
<1>2. /\ a \in StoreState /\ Unlisted(a) /\ SameData(s, a) /\ a.chain = s.chain
      /\ a.flag = [s.flag EXCEPT ![it] = @ \ {"LINKED"}] /\ a.refcount = s.refcount
  <2>1. a \in StoreState
    BY <1>1 DEF StoreState
  <2>2. /\ SameData(s, a) /\ a.chain = s.chain /\ a.refcount = s.refcount
        /\ a.flag = [s.flag EXCEPT ![it] = @ \ {"LINKED"}]
        /\ a.slabs_clsid = s.slabs_clsid /\ a.heads = s.heads /\ a.tails = s.tails
    BY DEF StoreState, SameData
  <2> QED
    BY <2>1, <2>2 DEF Unlisted
<1> HIDE DEF a
<1>3. u.chain = d.chain
  <2> DEFINE c == s.chain[Hash[k]]
             at == KeyAt(s, k, c)
             left == IF c = <<>> \/ 1 \in at THEN [s.chain EXCEPT ![Hash[k]] = <<>>]
                     ELSE IF at = {} THEN s.chain
                     ELSE [s.chain EXCEPT ![Hash[k]] = RemoveAt(c, First(at))]
  <2>1. KeyAt(a, k, c) = at /\ a.chain = s.chain
    BY <1>2 DEF KeyAt, SameData
  <2> HIDE DEF at
  <2>2. d.chain = left
    BY DEF hash_delete, StoreState, at
  <2>3. u.chain = left
    BY <1>2, <2>1 DEF hash_delete, StoreState
  <2> QED
    BY <2>2, <2>3
<1>4. /\ SameData(a, u) /\ u.flag = a.flag /\ u.refcount = a.refcount
      /\ d.key = s.key /\ d.flag = s.flag
  BY <1>2 DEF hash_delete, SameData, StoreState
<1>5. ChainOK(d) /\ Drops(s, d, k) /\ d \in StoreState
  BY <1>1, HashDeleteItems, HashDeleteKeeps DEF Keeps
<1>6. u \in StoreState /\ Unlisted(u)
  BY <1>2, HashDeleteKeeps DEF Keeps
<1> HIDE DEF u, d
<1>7. ChainOK(u) /\ InChain(u) = InChain(d)
  <2>1. ASSUME NEW x \in InChain(d)
        PROVE  /\ u.key[x] = d.key[x]
               /\ "LINKED" \in u.flag[x] /\ "SLABBED" \notin u.flag[x]
    <3>1. x # it /\ x \in Chunk
      BY <1>5, <2>1, InChainType DEF Drops
    <3>2. "LINKED" \in d.flag[x] /\ "SLABBED" \notin d.flag[x]
      BY <1>5, ChainItem
    <3>3. u.flag[x] = d.flag[x]
      BY <1>2, <1>4, <3>1 DEF StoreState
    <3> QED
      BY <1>2, <1>4, <3>2, <3>3 DEF SameData
  <2> QED
    BY <1>3, <1>5, <2>1, ChainFrame
<1>8. SameItems(u, v) /\ v \in StoreState /\ Unlisted(v)
  BY <1>1, <1>6, LinkQItems, ItemUnlinkQKeeps DEF Keeps
<1> HIDE DEF v
<1>9. v.flag = [s.flag EXCEPT ![it] = @ \ {"LINKED"}] /\ "SLABBED" \notin v.flag[it]
  BY <1>1, <1>2, <1>4, <1>8 DEF SameItems, StoreState
<1>10. /\ SameData(v, w) /\ w.chain = v.chain /\ w.flag = v.flag
       /\ w.refcount = [v.refcount EXCEPT ![it] = Decr(@)]
  BY <1>1, <1>8, <1>9, RemoveItems
<1>11. do_item_unlink(s, it) = w
  BY <1>1 DEF do_item_unlink, w, v, u, a, k
<1> HIDE DEF w
<1>12. Keeps(s, w, {})
  BY <1>1, <1>11, DoItemUnlinkKeeps
<1>13. SameData(s, w)
  BY <1>2, <1>4, <1>8, <1>10 DEF SameData, SameItems
<1>14. InChain(w) = InChain(d)
  BY <1>7, <1>8, <1>10 DEF InChain, SameItems
<1>15. Drops(s, w, k)
  BY <1>5, <1>14 DEF Drops
<1>16. ChainOK(w)
  <2>1. w.chain = u.chain /\ w.key = u.key /\ w.flag = u.flag
    BY <1>8, <1>10 DEF SameItems, SameData
  <2> QED
    BY <1>7, <2>1, SameTable
<1>17. \A x \in Chunk : x # it => w.flag[x] = s.flag[x] /\ w.refcount[x] = s.refcount[x]
  BY <1>2, <1>4, <1>8, <1>9, <1>10 DEF SameItems, StoreState
<1> QED
  BY <1>9, <1>10, <1>11, <1>12, <1>13, <1>15, <1>16, <1>17 DEF Removed

\* Taking a reference away from an item that has left the table.
LEMMA RemovedRemove ==
  ASSUME NEW s, NEW t, NEW it \in Chunk, Removed(s, t, it), "SLABBED" \notin t.flag[it]
  PROVE  Removed(s, do_item_remove(t, it), it)
<1> DEFINE u == do_item_remove(t, it)
<1>1. t \in StoreState /\ Unlisted(t)
  BY DEF Removed, Keeps
<1>2. /\ SameData(t, u) /\ u.chain = t.chain /\ u.flag = t.flag
      /\ u.refcount = [t.refcount EXCEPT ![it] = Decr(@)]
  BY <1>1, RemoveItems
<1>3. Keeps(t, u, {})
  BY <1>1, DoItemRemoveKeeps
<1> HIDE DEF u
<1>4. Keeps(s, u, {})
  BY <1>3, KeepsTrans DEF Removed
<1>5. ChainOK(u)
  BY <1>2, SameTable DEF Removed, SameData
<1>6. InChain(u) = InChain(t)
  BY <1>2 DEF InChain
<1>7. Drops(s, u, s.key[it])
  BY <1>6 DEF Removed, Drops
<1>8. \A x \in Chunk : x # it => u.flag[x] = s.flag[x] /\ u.refcount[x] = s.refcount[x]
  BY <1>1, <1>2 DEF Removed, StoreState
<1>9. SameData(s, u)
  BY <1>2 DEF Removed, SameData
<1> QED
  BY <1>4, <1>5, <1>7, <1>8, <1>9 DEF Removed, u

\* Discard takes the item out of the hash table.
LEMMA DiscardItems ==
  ASSUME NEW s \in StoreState, Unlisted(s), ChainOK(s), NEW it \in InChain(s)
  PROVE  Removed(s, Discard(s, it), it)
<1>1. it \in Chunk
  BY ChainItem
<1> QED
  BY <1>1, UnlinkItems, RemovedRemove DEF Discard

\* A change of the reference count of an item, and of bits of its flag other
\* than its state.
LEMMA TouchItems ==
  ASSUME NEW s \in StoreState, Unlisted(s), ChainOK(s), NEW it \in Chunk,
         NEW t \in StoreState, Keeps(s, t, {}), SameData(s, t), t.chain = s.chain,
         \A x \in Chunk : x # it => t.flag[x] = s.flag[x],
         "LINKED" \in s.flag[it] => "LINKED" \in t.flag[it],
         "SLABBED" \in t.flag[it] => "SLABBED" \in s.flag[it],
         NEW n, t.refcount = [s.refcount EXCEPT ![it] = n]
  PROVE  Touched(s, t, it, n)
<1>1. ASSUME NEW x \in InChain(s)
      PROVE  /\ t.key[x] = s.key[x]
             /\ "LINKED" \in t.flag[x] /\ "SLABBED" \notin t.flag[x]
  BY ChainItem DEF SameData
<1>2. ChainOK(t)
  BY <1>1, ChainFrame
<1> QED
  BY <1>2 DEF Touched

\* do_item_get returns the chained item of the key with one more reference,
\* or finds it expired and takes it out, or finds none.
LEMMA GetItems ==
  ASSUME NEW s \in StoreState, Unlisted(s), ChainOK(s), NEW k \in Key, NEW now \in Nat
  PROVE  LET g == do_item_get(s, k, now)
             it == hash_find(s, k)
         IN  \/ it = NoItem /\ g.s = s /\ g.ret = NoItem
             \/ it # NoItem /\ Expired(s, it, now) /\ Removed(s, g.s, it) /\ g.ret = NoItem
             \/ /\ it # NoItem /\ ~Expired(s, it, now) /\ g.ret = it
                /\ Touched(s, g.s, it, Incr(s.refcount[it]))
<1> DEFINE g == do_item_get(s, k, now)
           it == hash_find(s, k)
           t == [s EXCEPT !.refcount[it] = Incr(@)]
           u == [t EXCEPT !.flag[it] = @ \cup {"FETCHED"}]
<1>1. CASE it = NoItem
  BY <1>1 DEF do_item_get
<1>2. CASE it # NoItem
  <2>1. it \in InChain(s) /\ it \in Chunk
    BY <1>2, HashFindIs, ChainItem
  <2>2. \/ Expired(s, it, now) /\ g = [s |-> Discard(t, it), ret |-> NoItem]
        \/ ~Expired(s, it, now) /\ g = [s |-> u, ret |-> it]
    BY <1>2 DEF do_item_get, Discard
  <2> HIDE DEF it, g
  <2>3. Incr(s.refcount[it]) \in 0..(UInt - 1) /\ "FETCHED" \in ItemFlag
    BY <2>1, CounterType DEF StoreState, ItemFlag
  <2>4. t \in StoreState
    BY <2>1, <2>3 DEF StoreState
  <2>5. /\ SameData(s, t) /\ t.chain = s.chain /\ t.flag = s.flag
        /\ t.refcount = [s.refcount EXCEPT ![it] = Incr(s.refcount[it])]
        /\ t.slots = s.slots /\ t.sl_curr = s.sl_curr /\ t.slabs = s.slabs
        /\ t.slabs_clsid = s.slabs_clsid /\ t.heads = s.heads /\ t.tails = s.tails
    BY DEF StoreState, SameData
  <2>6. Keeps(s, t, {})
    <3> HIDE DEF t
    <3> QED
      BY <2>4, <2>5, ListKeeps DEF SameData
  <2>7. u \in StoreState
    <3> HIDE DEF t
    <3> QED
      BY <2>1, <2>3, <2>4, ZenonT(60) DEF StoreState
  <2>8. /\ SameData(s, u) /\ u.chain = s.chain
        /\ u.flag = [s.flag EXCEPT ![it] = @ \cup {"FETCHED"}]
        /\ u.refcount = [s.refcount EXCEPT ![it] = Incr(s.refcount[it])]
        /\ u.slots = s.slots /\ u.sl_curr = s.sl_curr /\ u.slabs = s.slabs
        /\ u.slabs_clsid = s.slabs_clsid /\ u.heads = s.heads /\ u.tails = s.tails
    BY DEF StoreState, SameData
  <2> HIDE DEF t, u
  <2>9. Keeps(s, u, {})
    BY <2>7, <2>8, ListKeeps DEF SameData
  <2>10. Touched(s, t, it, Incr(s.refcount[it]))
    BY <2>1, <2>4, <2>5, <2>6, TouchItems
  <2>11. Touched(s, u, it, Incr(s.refcount[it]))
    <3>1. \A x \in Chunk : x # it => u.flag[x] = s.flag[x]
      BY <2>1, <2>8 DEF StoreState
    <3>2. u.flag[it] = s.flag[it] \cup {"FETCHED"}
      BY <2>1, <2>8 DEF StoreState
    <3> QED
      BY <2>1, <2>7, <2>8, <2>9, <3>1, <3>2, TouchItems
  <2>12. CASE Expired(s, it, now) /\ g = [s |-> Discard(t, it), ret |-> NoItem]
    <3>1. Unlisted(t) /\ ChainOK(t) /\ InChain(t) = InChain(s)
      BY <2>5, <2>10 DEF Touched, Keeps, InChain
    <3>2. Removed(t, Discard(t, it), it)
      BY <2>1, <2>4, <3>1, DiscardItems
    <3>3. g.s = Discard(t, it) /\ g.ret = NoItem
      BY <2>12
    <3>4. Removed(t, g.s, it)
      BY <3>2, <3>3
    <3>5. Removed(s, g.s, it)
      <4>1. Keeps(s, g.s, {})
        BY <2>6, <3>4, KeepsTrans DEF Removed
      <4>2. SameData(s, g.s)
        BY <2>5, <3>4 DEF Removed, SameData
      <4>3. Drops(s, g.s, s.key[it])
        BY <2>5, <3>1, <3>4 DEF Removed, Drops, SameData
      <4>4. \A x \in Chunk : x # it => g.s.flag[x] = s.flag[x] /\ g.s.refcount[x] = s.refcount[x]
        BY <2>5, <3>4 DEF Removed, StoreState
      <4> QED
        BY <3>4, <4>1, <4>2, <4>3, <4>4 DEF Removed
    <3> QED
      BY <1>2, <2>12, <3>3, <3>5 DEF g, it
  <2>13. CASE ~Expired(s, it, now) /\ g = [s |-> u, ret |-> it]
    BY <1>2, <2>11, <2>13 DEF g, it
  <2> QED
    BY <2>2, <2>12, <2>13
<1> QED
  BY <1>1, <1>2

\* do_item_update leaves the items as they are.
LEMMA UpdateItems ==
  ASSUME NEW s \in StoreState, Unlisted(s), NEW it \in Chunk, NEW now \in Nat
  PROVE  SameItems(s, do_item_update(s, it, now))
<1> DEFINE t == item_unlink_q(s, it)
           u == [t EXCEPT !.realtime[it] = now]
           v == item_link_q(u, it)
<1>1. t \in StoreState /\ SameItems(s, t)
  BY ItemUnlinkQKeeps, LinkQItems DEF Keeps
<1> HIDE DEF t
<1>2. u \in StoreState /\ SameItems(t, u)
  BY <1>1 DEF StoreState, SameItems, SameData
<1> HIDE DEF u
<1>3. SameItems(u, v)
  BY <1>2, LinkQItems
<1> HIDE DEF v
<1>4. SameItems(s, v) /\ SameItems(s, s)
  BY <1>1, <1>2, <1>3 DEF SameItems, SameData
<1>5. do_item_update(s, it, now) \in {s, v}
  BY DEF do_item_update, t, u, v
<1> QED
  BY <1>4, <1>5

\* do_item_link refuses an item with reserved bits in its flag, and chains
\* any other one whose key is not chained.
LEMMA LinkItems ==
  ASSUME NEW s \in StoreState, Unlisted(s), ChainOK(s), NEW it \in Chunk, s.key[it] \in Key,
         \A x \in InChain(s) : s.key[x] # s.key[it], NEW now \in Nat
  PROVE  LET t == do_item_link(s, it, now)
         IN  IF s.flag[it] \cap {"LINKED", "SLABBED"} # {} THEN t = s ELSE Linked(s, t, it)
<1>1. CASE s.flag[it] \cap {"LINKED", "SLABBED"} # {}
  BY <1>1 DEF do_item_link
<1>2. CASE s.flag[it] \cap {"LINKED", "SLABBED"} = {}
  <2> DEFINE a == [s EXCEPT !.flag[it]     = @ \cup {"LINKED"},
                            !.realtime[it] = now,
                            !.cas_id       = @ + 1,
                            !.cas[it]      = s.cas_id + 1]
             u == hash_insert(a, it)
             v == item_link_q(u, it)
             w == [v EXCEPT !.refcount[it] = Incr(@)]
  <2>1. a \in StoreState
    <3>1. s.cas_id + 1 \in Nat /\ "LINKED" \in ItemFlag
      BY DEF StoreState, ItemFlag
    <3> QED
      BY <3>1, ZenonT(60) DEF StoreState
  <2>2. /\ a.key = s.key /\ a.val = s.val /\ a.exptime = s.exptime
        /\ a.cas_id = s.cas_id + 1 /\ a.cas = [s.cas EXCEPT ![it] = s.cas_id + 1]
        /\ a.flag = [s.flag EXCEPT ![it] = @ \cup {"LINKED"}]
        /\ a.chain = s.chain /\ a.refcount = s.refcount
        /\ a.slabs_clsid = s.slabs_clsid /\ a.heads = s.heads /\ a.tails = s.tails
    BY DEF StoreState
  <2> HIDE DEF a
  <2>3. Unlisted(a)
    BY <2>2 DEF Unlisted
  <2>4. /\ a.flag[it] = s.flag[it] \cup {"LINKED"}
        /\ \A x \in InChain(s) : x \in Chunk /\ x # it /\ a.flag[x] = s.flag[x]
    BY <2>2, InChainType DEF StoreState
  <2>5. ChainOK(a) /\ InChain(a) = InChain(s)
    <3>1. \A x \in InChain(s) : /\ a.key[x] = s.key[x]
                                /\ "LINKED" \in a.flag[x] /\ "SLABBED" \notin a.flag[x]
      BY <2>2, <2>4, ChainItem
    <3> QED
      BY <2>2, <3>1, ChainFrame
  <2>6. ChainOK(u) /\ InChain(u) = InChain(s) \cup {it}
    <3>1. "LINKED" \in a.flag[it] /\ "SLABBED" \notin a.flag[it]
      BY <1>2, <2>4
    <3>2. a.key[it] \in Key /\ \A x \in InChain(a) : a.key[x] # a.key[it]
      BY <2>2, <2>5
    <3>3. ChainOK(u) /\ InChain(u) = InChain(a) \cup {it}
      BY <2>1, <2>5, <3>1, <3>2, HashInsertItems
    <3> QED
      BY <2>5, <3>3
  <2>7. SameData(a, u) /\ u.flag = a.flag /\ u.refcount = a.refcount
    BY <2>1 DEF hash_insert, StoreState, SameData
  <2>8. u \in StoreState /\ Unlisted(u)
    BY <2>1, <2>3, HashInsertKeeps DEF Keeps
  <2> HIDE DEF u
  <2>9. v \in StoreState /\ SameItems(u, v)
    BY <2>8, LinkQItems, ItemLinkQKeeps DEF Keeps
  <2> HIDE DEF v
  <2>10. /\ SameData(v, w) /\ w.chain = v.chain /\ w.flag = v.flag
         /\ w.refcount = [v.refcount EXCEPT ![it] = Incr(@)]
    BY <2>9 DEF StoreState, SameData
  <2>11. do_item_link(s, it, now) = w
    BY <1>2 DEF do_item_link, a, u, v, w
  <2> HIDE DEF w
  <2>12. Keeps(s, w, {it})
    BY <2>11, DoItemLinkKeeps
  <2>13. ChainOK(w) /\ InChain(w) = InChain(u)
    <3>1. w.chain = u.chain /\ w.key = u.key /\ w.flag = u.flag
      BY <2>9, <2>10 DEF SameItems, SameData
    <3> QED
      BY <2>6, <3>1, SameTable
  <2>14. /\ w.key = s.key /\ w.val = s.val /\ w.exptime = s.exptime
         /\ w.cas_id = s.cas_id + 1 /\ w.cas = [s.cas EXCEPT ![it] = s.cas_id + 1]
         /\ w.flag = [s.flag EXCEPT ![it] = @ \cup {"LINKED"}]
         /\ w.refcount = [s.refcount EXCEPT ![it] = Incr(@)]
    BY <2>2, <2>7, <2>9, <2>10 DEF SameItems, SameData
  <2>15. Linked(s, w, it)
    BY <2>6, <2>12, <2>13, <2>14 DEF Linked
  <2> QED
    BY <1>2, <2>11, <2>15
<1> QED
  BY <1>1, <1>2

-----------------------------------------------------------------------------
(* Memory *)

\* A new slab writes to no chunk that is in use.
LEMMA NewSlabItems ==
  ASSUME NEW s, Sound(s), NEW id \in SlabClass, NEW os
  PROVE  LET t == do_slabs_newslab(s, id, os).s
         IN  /\ SameData(s, t) /\ t.chain = s.chain /\ t.refcount = s.refcount
             /\ \A x \in UsedIn(s) : t.flag[x] = s.flag[x]
<1> DEFINE g == grow_slab_list(s, id, os).s
           p == s.slabs[id] + 1
           flag == [it \in Chunk |-> IF it \in Page(id, p) THEN {"SLABBED"} ELSE g.flag[it]]
           u == [g EXCEPT !.slots[id]    = FreshSlots(id, p) \o g.slots[id],
                          !.sl_curr[id]  = g.sl_curr[id] + PerSlab[id],
                          !.slabs[id]    = p,
                          !.mem_malloced = g.mem_malloced + SlabLen(id),
                          !.flag         = flag]
<1>1. s \in StoreState /\ FreeListsSound(s)
  BY DEF Sound
<1>2. PICK n \in Nat : g = [s EXCEPT !.list_size[id] = n]
  BY <1>1, GrowSlabListType
<1> HIDE DEF g
<1>3. SameItems(s, g) /\ g \in StoreState
  BY <1>1, <1>2 DEF SameItems, SameData, StoreState
<1>4. \/ do_slabs_newslab(s, id, os).s \in {s, g}
      \/ p <= MaxSlabs /\ do_slabs_newslab(s, id, os).s = u
  <2>1. p \in Int /\ MaxSlabs \in Int
    BY <1>1, SlabAssumption DEF StoreState
  <2> QED
    BY <2>1 DEF do_slabs_newslab, g
<1>5. CASE do_slabs_newslab(s, id, os).s \in {s, g}
  BY <1>3, <1>5 DEF SameItems, SameData
<1>6. CASE p <= MaxSlabs /\ do_slabs_newslab(s, id, os).s = u
  <2>1. SameData(g, u) /\ u.chain = g.chain /\ u.refcount = g.refcount /\ u.flag = flag
    BY <1>3 DEF SameData, StoreState
  <2>2. p \in 1..MaxSlabs /\ s.slabs[id] \in Nat
    BY <1>1, <1>6, SlabAssumption DEF StoreState
  <2> HIDE DEF u
  <2>3. ASSUME NEW x \in UsedIn(s)
        PROVE  u.flag[x] = s.flag[x]
    <3>1. x \in Chunk /\ x[2] <= s.slabs[x[1]]
      BY DEF UsedIn
    <3>2. x \notin Page(id, p)
      BY <2>2, <3>1, ChunkParts
    <3> QED
      BY <1>3, <2>1, <3>1, <3>2 DEF SameItems
  <2> QED
    BY <1>3, <1>6, <2>1, <2>3 DEF SameItems, SameData
<1> QED
  BY <1>4, <1>5, <1>6

\* do_item_alloc writes to no item in use.
LEMMA AllocItems ==
  ASSUME NEW s, Sound(s), NEW n \in Nat, NEW os
  PROVE  LET a == do_item_alloc(s, n, os).s
         IN  /\ SameData(s, a) /\ a.chain = s.chain /\ a.refcount = s.refcount
             /\ \A x \in UsedIn(s) : a.flag[x] = s.flag[x]
<1> DEFINE m == Overhead + n
           id == slabs_clsid(m)
           g == IF s.sl_curr[id] # 0 THEN s ELSE do_slabs_newslab(s, id, os).s
           t == [g EXCEPT !.slots[id]     = Tail(@),
                          !.sl_curr[id]   = @ - 1,
                          !.requested[id] = @ + m]
           it == Head(g.slots[id])
           u == Detached(t, it, id)
           a == do_item_alloc(s, n, os).s
<1>1. s \in StoreState
  BY DEF Sound
<1>2. id \in SlabClass \cup {0}
  BY StoreAssumption, SlabsClsidType
<1>3. CASE id = 0
  BY <1>3 DEF do_item_alloc, SameData
<1>4. CASE id \in SlabClass
  <2>1. id # 0
    BY <1>4, ListIdType
  <2> HIDE DEF id
  <2>2. a \in {g, t, u}
    BY <2>1 DEF do_item_alloc, do_slabs_alloc, id
  <2>3. /\ SameData(s, g) /\ g.chain = s.chain /\ g.refcount = s.refcount
        /\ \A x \in UsedIn(s) : g.flag[x] = s.flag[x]
    BY <1>4, NewSlabItems DEF SameData
  <2>4. g \in StoreState
    <3>1. s.sl_curr[id] = 0 => do_slabs_newslab(s, id, os).s \in StoreState
      BY <1>4, NewSlabAdvances DEF Advances, Sound
    <3> QED
      BY <1>1, <3>1
  <2> HIDE DEF g, a
  <2>5. SameItems(g, t)
    BY <2>4 DEF SameItems, SameData, StoreState
  <2>6. SameItems(g, u)
    BY <2>4 DEF Detached, SameItems, SameData, StoreState
  <2> HIDE DEF t, u
  <2>7. /\ SameData(s, a) /\ a.chain = s.chain /\ a.refcount = s.refcount
        /\ \A x \in UsedIn(s) : a.flag[x] = s.flag[x]
    BY <2>2, <2>3, <2>5, <2>6 DEF SameItems, SameData
  <2> QED
    BY <2>7 DEF a
<1> QED
  BY <1>2, <1>3, <1>4

-----------------------------------------------------------------------------
(***************************************************************************)
(* Effects.  X is a set of items: of these, one that leaves the hash table *)
(* may change in any way, and no other one changes, but for bits of the    *)
(* flag of a chained item.                                                 *)
(***************************************************************************)

SameEntry(s, t, x) ==
  /\ t.key[x] = s.key[x]
  /\ t.val[x] = s.val[x]
  /\ t.cas[x] = s.cas[x]
  /\ t.exptime[x] = s.exptime[x]
  /\ t.refcount[x] = s.refcount[x]

Intact(s, t, X) ==
  \A x \in X : \/ x \in InChain(s) \ InChain(t)
               \/ SameEntry(s, t, x) /\ (x \in InChain(s) \/ t.flag[x] = s.flag[x])

\* No effect changes a key in the table or counts on an item outside.
Moves(s, t, X) ==
  /\ ChainOK(t)
  /\ Intact(s, t, X)
  /\ \A x \in InChain(s) : t.key[x] = s.key[x]
  /\ \A x \in Chunk : x \notin InChain(s) \cup InChain(t) => t.refcount[x] = s.refcount[x]

\* The table is the same.
Stays(s, t, X) ==
  /\ Moves(s, t, X)
  /\ InChain(t) = InChain(s)
  /\ t.cas_id = s.cas_id

\* C is what is left of the table of s once k is gone.
Leaves(s, C, k) ==
  /\ C \subseteq InChain(s)
  /\ \A x \in C : s.key[x] # k
  /\ \A x \in InChain(s) :
       Hash[s.key[x]] # Hash[k] \/ (\A y \in InChain(s) : s.key[y] # k) => x \in C

\* The key is no longer in the table.
Clears(s, t, k, X) ==
  /\ Moves(s, t, X)
  /\ Leaves(s, InChain(t), k)
  /\ t.cas_id = s.cas_id

\* it has come into the table, in the place of any other item of its key.
Puts(s, t, it, X) ==
  /\ Moves(s, t, X \ {it})
  /\ it \in InChain(t) \ InChain(s)
  /\ Leaves(s, InChain(t) \ {it}, t.key[it])
  /\ t.cas_id = s.cas_id + 1
  /\ t.cas[it] = s.cas_id + 1

\* Effects of fewer items.
LEMMA MovesLess ==
  ASSUME NEW s, NEW t, NEW X, Moves(s, t, X), NEW Y, Y \subseteq X
  PROVE  Moves(s, t, Y)
  BY DEF Moves, Intact

\* Two effects; the first puts nothing into the table, the second no watched item.
LEMMA MovesTrans ==
  ASSUME NEW s, NEW t, NEW u, NEW X, Moves(s, t, X), Moves(t, u, X),
         InChain(t) \subseteq InChain(s), InChain(u) \cap X \subseteq InChain(t),
         \A x \in InChain(s) : u.key[x] = s.key[x]
  PROVE  Moves(s, u, X)
<1>1. Intact(s, u, X)
  <2> SUFFICES ASSUME NEW x \in X, ~(x \in InChain(s) \ InChain(u))
               PROVE  SameEntry(s, u, x) /\ (x \in InChain(s) \/ u.flag[x] = s.flag[x])
    BY DEF Intact
  <2>1. SameEntry(s, t, x) /\ (x \in InChain(s) \/ t.flag[x] = s.flag[x])
    BY DEF Moves, Intact
  <2>2. SameEntry(t, u, x) /\ (x \in InChain(t) \/ u.flag[x] = t.flag[x])
    BY DEF Moves, Intact
  <2> QED
    BY <2>1, <2>2 DEF SameEntry
<1>2. \A x \in Chunk : x \notin InChain(s) \cup InChain(u) => u.refcount[x] = s.refcount[x]
  BY DEF Moves
<1> QED
  BY <1>1, <1>2 DEF Moves

\* A table that stays and then stays.
LEMMA StaysStays ==
  ASSUME NEW s, NEW t, NEW u, NEW X, Stays(s, t, X), Stays(t, u, X)
  PROVE  Stays(s, u, X)
<1>1. Moves(s, u, X)
  BY MovesTrans DEF Stays, Moves
<1> QED
  BY <1>1 DEF Stays

\* A table that stays and then loses a key.
LEMMA StaysClears ==
  ASSUME NEW s, NEW t, NEW u, NEW X, NEW k, Stays(s, t, X), Clears(t, u, k, X)
  PROVE  Clears(s, u, k, X)
<1>1. Moves(s, u, X)
  BY MovesTrans DEF Stays, Clears, Moves, Leaves
<1>2. Leaves(s, InChain(u), k)
  BY DEF Stays, Moves, Clears, Leaves
<1> QED
  BY <1>1, <1>2 DEF Stays, Clears

\* A table that loses a key and then stays.
LEMMA ClearsStays ==
  ASSUME NEW s, NEW t, NEW u, NEW X, NEW k, Clears(s, t, k, X), Stays(t, u, X),
         \A x \in InChain(s) : u.key[x] = s.key[x]
  PROVE  Clears(s, u, k, X)
<1>1. Moves(s, u, X)
  BY MovesTrans DEF Stays, Clears, Leaves
<1> QED
  BY <1>1 DEF Stays, Clears, Leaves

\* A table that loses a key and then gains an item of that key.
LEMMA ClearsPuts ==
  ASSUME NEW s, NEW t, NEW u, NEW X, NEW it, it \notin InChain(s),
         Clears(s, t, u.key[it], X), Puts(t, u, it, X),
         \A x \in InChain(s) : u.key[x] = s.key[x]
  PROVE  Puts(s, u, it, X)
<1> DEFINE Y == X \ {it}
<1>1. Moves(s, t, Y) /\ Moves(t, u, Y)
  BY MovesLess DEF Clears, Puts
<1>2. InChain(t) \subseteq InChain(s) /\ InChain(u) \cap Y \subseteq InChain(t)
  BY DEF Clears, Puts, Leaves
<1>3. Moves(s, u, Y)
  BY <1>1, <1>2, MovesTrans
<1>4. InChain(u) \ {it} = InChain(t)
  <2>1. \A y \in InChain(t) : t.key[y] # u.key[it]
    BY DEF Clears, Leaves, Moves
  <2> QED
    BY <2>1 DEF Puts, Leaves
<1> QED
  BY <1>3, <1>4 DEF Clears, Puts

\* A table that stays and then gains an item.
LEMMA StaysPuts ==
  ASSUME NEW s, NEW t, NEW u, NEW X, NEW it, Stays(s, t, X), Puts(t, u, it, X)
  PROVE  Puts(s, u, it, X)
<1> DEFINE Y == X \ {it}
<1>1. Moves(s, t, Y) /\ Moves(t, u, Y)
  BY MovesLess DEF Stays, Puts
<1>2. InChain(t) = InChain(s) /\ InChain(u) \cap Y \subseteq InChain(t)
  BY DEF Stays, Puts, Leaves
<1>3. Moves(s, u, Y)
  BY <1>1, <1>2, MovesTrans DEF Moves
<1>4. Leaves(s, InChain(u) \ {it}, u.key[it])
  BY DEF Stays, Moves, Puts, Leaves
<1> QED
  BY <1>3, <1>4 DEF Stays, Puts

\* An item that leaves the table need not be watched.
LEMMA Watched ==
  ASSUME NEW s, NEW t, NEW X, NEW f \in InChain(s) \ InChain(t), Moves(s, t, X \ {f})
  PROVE  Moves(s, t, X)
<1>1. Intact(s, t, X)
  BY DEF Moves, Intact
<1> QED
  BY <1>1 DEF Moves

\* A change outside hash table and items.
LEMMA SameStays ==
  ASSUME NEW s, ChainOK(s), NEW t, SameItems(s, t), NEW X
  PROVE  Stays(s, t, X)
<1>1. ChainOK(t) /\ InChain(t) = InChain(s)
  BY DEF SameItems, SameData, ChainOK, InPlace, InChain
<1>2. Intact(s, t, X)
  BY DEF SameItems, SameData, Intact, SameEntry
<1> QED
  BY <1>1, <1>2 DEF SameItems, SameData, Stays, Moves

\* A count, and bits of the flag, of one chained item.
LEMMA TouchedStays ==
  ASSUME NEW s \in StoreState, NEW t, NEW it \in InChain(s), NEW n, Touched(s, t, it, n)
  PROVE  /\ Stays(s, t, Chunk \ {it})
         /\ n = s.refcount[it] => Stays(s, t, Chunk)
<1>1. ChainOK(t) /\ InChain(t) = InChain(s) /\ it \in Chunk
  BY InChainType DEF Touched, InChain
<1>2. \A x \in Chunk : t.refcount[x] = IF x = it THEN n ELSE s.refcount[x]
  BY DEF Touched, StoreState
<1>3. Intact(s, t, Chunk \ {it})
  BY <1>2 DEF Touched, SameData, Intact, SameEntry
<1>4. n = s.refcount[it] => Intact(s, t, Chunk)
  BY <1>2 DEF Touched, SameData, Intact, SameEntry
<1>5. \A x \in Chunk : x \notin InChain(s) \cup InChain(t) => t.refcount[x] = s.refcount[x]
  BY <1>2
<1> QED
  BY <1>1, <1>3, <1>4, <1>5 DEF Touched, SameData, Stays, Moves

\* An item that is taken out.
LEMMA RemovedClears ==
  ASSUME NEW s \in StoreState, NEW t, NEW it \in InChain(s), Removed(s, t, it)
  PROVE  Clears(s, t, s.key[it], Chunk)
<1>1. it \notin InChain(t)
  BY DEF Removed, Drops
<1>2. Leaves(s, InChain(t), s.key[it])
  BY DEF Removed, Drops, Leaves
<1>3. Intact(s, t, Chunk)
  BY <1>1 DEF Removed, SameData, Intact, SameEntry
<1>4. \A x \in Chunk : x \notin InChain(s) \cup InChain(t) => t.refcount[x] = s.refcount[x]
  BY DEF Removed
<1> QED
  BY <1>2, <1>3, <1>4 DEF Removed, SameData, Clears, Moves

\* An item that is put in.
LEMMA LinkedPuts ==
  ASSUME NEW s \in StoreState, NEW t, NEW it \in Chunk, Linked(s, t, it),
         \A x \in InChain(s) : s.key[x] # s.key[it]
  PROVE  Puts(s, t, it, Chunk)
<1>1. it \notin InChain(s)
  OBVIOUS
<1>2. \A x \in Chunk : x # it => /\ t.cas[x] = s.cas[x] /\ t.flag[x] = s.flag[x]
                                 /\ t.refcount[x] = s.refcount[x]
  BY DEF Linked, StoreState
<1>3. Intact(s, t, Chunk \ {it})
  BY <1>2 DEF Linked, Intact, SameEntry
<1>4. Moves(s, t, Chunk \ {it})
  BY <1>2, <1>3 DEF Linked, Moves
<1>5. InChain(t) \ {it} = InChain(s) /\ it \in InChain(t)
  BY <1>1 DEF Linked
<1>6. Leaves(s, InChain(t) \ {it}, t.key[it])
  BY <1>5 DEF Linked, Leaves
<1>7. t.cas[it] = s.cas_id + 1
  BY DEF Linked, StoreState
<1> QED
  BY <1>1, <1>4, <1>5, <1>6, <1>7 DEF Linked, Puts

\* Giving back one reference to an item of any kind but a free one.
LEMMA StoredItems ==
  ASSUME NEW s \in StoreState, Unlisted(s), NEW old \in Chunk, "SLABBED" \notin s.flag[old],
         NEW stat
  PROVE  LET t == Stored(s, old, NoItem, stat).s
         IN  /\ SameData(s, t) /\ t.chain = s.chain /\ t.flag = s.flag
             /\ t.refcount = [s.refcount EXCEPT ![old] = Decr(@)]
<1>1. Stored(s, old, NoItem, stat).s = do_item_remove(s, old)
  BY NoItemNotChunk DEF Stored, DropRef
<1> QED
  BY <1>1, RemoveItems

\* No reference is given back if there was no old item.
LEMMA StoredNothing ==
  ASSUME NEW s, NEW stat
  PROVE  Stored(s, NoItem, NoItem, stat).s = s
  BY DEF Stored, DropRef

\* do_item_get finds an item that is there and has not expired.
Live(s, k, now) == hash_find(s, k) # NoItem /\ ~Expired(s, hash_find(s, k), now)

\* A look-up that finds nothing clears the key, for it may have expired.
LEMMA GetMiss ==
  ASSUME NEW s \in StoreState, Unlisted(s), ChainOK(s), NEW k \in Key, NEW now \in Nat,
         ~Live(s, k, now)
  PROVE  LET g == do_item_get(s, k, now)
         IN  /\ g.ret = NoItem
             /\ Clears(s, g.s, k, Chunk)
             /\ Keeps(s, g.s, {}) /\ SameData(s, g.s)
             /\ \A x \in Chunk \ InChain(s) : g.s.flag[x] = s.flag[x]
<1> DEFINE g == do_item_get(s, k, now)
           it == hash_find(s, k)
<1>1. \/ it = NoItem /\ g.s = s /\ g.ret = NoItem
      \/ it # NoItem /\ Removed(s, g.s, it) /\ g.ret = NoItem
  BY GetItems DEF Live
<1>2. Keeps(s, g.s, {})
  BY DoItemGetKeeps
<1>3. it # NoItem => it \in InChain(s) /\ s.key[it] = k
  BY HashFindIs
<1>4. \A x \in InChain(s) : s.key[x] = k => it = x
  BY HashFindIs
<1>5. NoItem \notin InChain(s)
  BY InChainType, NoItemNotChunk
<1> HIDE DEF g, it
<1>6. CASE it = NoItem /\ g.s = s /\ g.ret = NoItem
  <2>1. SameItems(s, g.s)
    BY <1>6 DEF SameItems, SameData
  <2>2. Stays(s, g.s, Chunk)
    BY <2>1, SameStays
  <2>3. Leaves(s, InChain(g.s), k)
    BY <1>4, <1>5, <1>6 DEF Leaves
  <2> QED
    BY <1>2, <1>6, <2>1, <2>2, <2>3 DEF Stays, Clears, SameItems, g
<1>7. CASE it # NoItem /\ Removed(s, g.s, it) /\ g.ret = NoItem
  <2>1. it \in InChain(s) /\ s.key[it] = k
    BY <1>3, <1>7
  <2>2. Clears(s, g.s, k, Chunk)
    BY <1>7, <2>1, RemovedClears
  <2>3. \A x \in Chunk \ InChain(s) : g.s.flag[x] = s.flag[x]
    BY <1>7, <2>1 DEF Removed
  <2> QED
    BY <1>2, <1>7, <2>2, <2>3 DEF Removed, g
<1> QED
  BY <1>1, <1>6, <1>7

\* A look-up that finds the item of the key.
LEMMA GetHit ==
  ASSUME NEW s \in StoreState, Unlisted(s), ChainOK(s), NEW k \in Key, NEW now \in Nat,
         Live(s, k, now)
  PROVE  LET g == do_item_get(s, k, now)
             it == hash_find(s, k)
         IN  /\ it \in InChain(s) /\ it \in Chunk /\ s.key[it] = k
             /\ g.ret = it
             /\ Touched(s, g.s, it, Incr(s.refcount[it]))
             /\ Stays(s, g.s, Chunk \ {it})
<1> DEFINE it == hash_find(s, k)
<1>1. it \in InChain(s) /\ it \in Chunk /\ s.key[it] = k
  BY HashFindIs, ChainItem DEF Live
<1>2. do_item_get(s, k, now).ret = it /\ Touched(s, do_item_get(s, k, now).s, it, Incr(s.refcount[it]))
  BY GetItems DEF Live
<1> QED
  BY <1>1, <1>2, TouchedStays

\* A found item that is given back leaves no trace but ITEM_FETCHED.
LEMMA GetAndBack ==
  ASSUME NEW s \in StoreState, ChainOK(s), NEW g, NEW it \in InChain(s),
         Touched(s, g, it, Incr(s.refcount[it])),
         NEW X, InChain(s) \subseteq X, X \subseteq Chunk,
         NEW u \in StoreState, Unlisted(u), SameData(g, u), u.chain = g.chain,
         u.refcount = g.refcount, \A x \in X : u.flag[x] = g.flag[x], NEW stat
  PROVE  Stays(s, Stored(u, it, NoItem, stat).s, X)
<1> DEFINE t == Stored(u, it, NoItem, stat).s
           n == s.refcount[it]
<1>1. it \in Chunk /\ it \in X /\ n \in 0..(UInt - 1)
  BY ChainItem DEF StoreState
<1>2. g \in StoreState /\ ChainOK(g) /\ InChain(g) = InChain(s)
  BY DEF Touched, Keeps, InChain
<1>3. \A x \in InChain(s) : "LINKED" \in u.flag[x] /\ "SLABBED" \notin u.flag[x]
  BY <1>2, ChainItem
<1>4. /\ SameData(u, t) /\ t.chain = u.chain /\ t.flag = u.flag
      /\ t.refcount = [u.refcount EXCEPT ![it] = Decr(@)]
  BY <1>1, <1>3, StoredItems
<1> HIDE DEF t
<1>5. \A x \in Chunk : t.refcount[x] = s.refcount[x]
  <2>1. /\ g.refcount = [s.refcount EXCEPT ![it] = Incr(n)] /\ u.refcount = g.refcount
        /\ s.refcount \in [Chunk -> 0..(UInt - 1)]
    BY DEF Touched, StoreState
  <2>2. t.refcount = [s.refcount EXCEPT ![it] = Decr(Incr(n))]
    BY <1>1, <1>4, <2>1
  <2> HIDE DEF n
  <2> QED
    BY <1>1, <2>1, <2>2, CounterBack DEF n
<1>6. SameData(s, t) /\ t.chain = s.chain /\ \A x \in X : x # it => t.flag[x] = s.flag[x]
  BY <1>4 DEF Touched, SameData
<1>7. ChainOK(t) /\ InChain(t) = InChain(s)
  <2>1. \A x \in InChain(s) : /\ t.key[x] = s.key[x]
                              /\ "LINKED" \in t.flag[x] /\ "SLABBED" \notin t.flag[x]
    BY <1>3, <1>4, <1>6 DEF SameData
  <2> QED
    BY <1>6, <2>1, ChainFrame
<1>8. Intact(s, t, X)
  BY <1>5, <1>6 DEF Intact, SameEntry, SameData
<1>9. Stays(s, t, X)
  BY <1>5, <1>6, <1>7, <1>8 DEF Stays, Moves, SameData
<1> QED
  BY <1>9 DEF t

\* Looking up a key and unlinking what was found, as delete does.
LEMMA TakenOut ==
  ASSUME NEW s \in StoreState, Unlisted(s), ChainOK(s), NEW k \in Key, NEW now \in Nat
  PROVE  LET got == do_item_get(s, k, now)
             t   == IF got.ret = NoItem THEN got.s ELSE Discard(got.s, got.ret)
         IN  /\ Clears(s, t, k, Chunk) /\ SameData(s, t)
             /\ got.ret = NoItem <=> ~Live(s, k, now)
<1> DEFINE got == do_item_get(s, k, now)
           g == got.s
           old == hash_find(s, k)
           t == Discard(g, old)
           X == Chunk \ {old}
<1>1. CASE ~Live(s, k, now)
  BY <1>1, GetMiss
<1>2. CASE Live(s, k, now)
  <2>1. /\ old \in InChain(s) /\ old \in Chunk /\ s.key[old] = k /\ got.ret = old
        /\ Touched(s, g, old, Incr(s.refcount[old])) /\ Stays(s, g, X)
    BY <1>2, GetHit
  <2>2. got.ret # NoItem
    BY <2>1, NoItemNotChunk
  <2> HIDE DEF got, g, old
  <2>3. /\ g \in StoreState /\ Unlisted(g) /\ ChainOK(g) /\ old \in InChain(g)
        /\ g.key = s.key /\ SameData(s, g)
    BY <2>1 DEF Touched, Keeps, Stays
  <2>4. Removed(g, t, old)
    BY <2>3, DiscardItems
  <2> HIDE DEF t
  <2>5. Clears(g, t, k, Chunk)
    BY <2>1, <2>3, <2>4, RemovedClears
  <2>6. Clears(g, t, k, X)
    BY <2>5, MovesLess DEF Clears
  <2>7. Clears(s, t, k, X)
    <3> HIDE DEF X
    <3> QED
      BY <2>1, <2>6, StaysClears
  <2>8. old \in InChain(s) \ InChain(t)
    BY <2>1, <2>7 DEF Clears, Leaves
  <2>9. Moves(s, t, Chunk)
    BY <2>7, <2>8, Watched DEF Clears
  <2>10. Clears(s, t, k, Chunk)
    BY <2>7, <2>9 DEF Clears
  <2>11. SameData(s, t)
    BY <2>3, <2>4 DEF Removed, SameData
  <2> QED
    BY <1>2, <2>1, <2>2, <2>10, <2>11 DEF t, g, got
<1> QED
  BY <1>1, <1>2

-----------------------------------------------------------------------------
(* Storing an item *)

\* Item it keeps key, value, times, count and flag.
SameNew(s, t, it) ==
  /\ t.key[it] = s.key[it]
  /\ t.val[it] = s.val[it]
  /\ t.exptime[it] = s.exptime[it]
  /\ t.refcount[it] = s.refcount[it]
  /\ t.flag[it] = s.flag[it]

Reserved(flag) == flag \cap {"LINKED", "SLABBED"} # {}

\* What storing item it comes to: its key is in no other item of the table,
\* and it is in the table itself unless its flag has a reserved bit.
Outcome(s, t, it, X) ==
  IF Reserved(s.flag[it]) THEN Clears(s, t, s.key[it], X)
  ELSE /\ Puts(s, t, it, X)
       /\ t.key[it] = s.key[it]
       /\ t.val[it] = s.val[it]
       /\ t.exptime[it] = s.exptime[it]
       /\ t.refcount[it] = Incr(s.refcount[it])

\* Clearing a key twice.
LEMMA ClearsClears ==
  ASSUME NEW s, NEW t, NEW u, NEW X, NEW k, Clears(s, t, k, X), Clears(t, u, k, X),
         \A x \in InChain(s) : u.key[x] = s.key[x]
  PROVE  Clears(s, u, k, X)
<1>1. Moves(s, u, X)
  BY MovesTrans DEF Clears, Leaves
<1>2. InChain(u) = InChain(t)
  BY DEF Clears, Leaves, Moves
<1> QED
  BY <1>1, <1>2 DEF Clears

\* The table stays, then the item is stored.
LEMMA StaysOutcome ==
  ASSUME NEW s, NEW t, NEW u, NEW X, NEW it, Stays(s, t, X), SameNew(s, t, it),
         Outcome(t, u, it, X)
  PROVE  Outcome(s, u, it, X)
<1>1. CASE Reserved(s.flag[it])
  BY <1>1, StaysClears DEF Outcome, SameNew
<1>2. CASE ~Reserved(s.flag[it])
  BY <1>2, StaysPuts DEF Outcome, SameNew
<1> QED
  BY <1>1, <1>2

\* The key is cleared, then the item is stored.
LEMMA ClearsOutcome ==
  ASSUME NEW s, NEW t, NEW u, NEW X, NEW it, it \notin InChain(s),
         Clears(s, t, s.key[it], X), SameNew(s, t, it), Outcome(t, u, it, X),
         \A x \in InChain(s) : u.key[x] = s.key[x]
  PROVE  Outcome(s, u, it, X)
<1>1. CASE Reserved(s.flag[it])
  BY <1>1, ClearsClears DEF Outcome, SameNew
<1>2. CASE ~Reserved(s.flag[it])
  BY <1>2, ClearsPuts DEF Outcome, SameNew
<1> QED
  BY <1>1, <1>2

\* The old item of the key is out of the table.
LEMMA OldIsGone ==
  ASSUME NEW s, NEW t, NEW X, NEW it, it \notin InChain(s), Outcome(s, t, it, X),
         NEW old \in InChain(s), s.key[old] = s.key[it]
  PROVE  old \notin InChain(t)
  BY DEF Outcome, Clears, Puts, Leaves

\* So it need not be watched.
LEMMA WatchedOutcome ==
  ASSUME NEW s, NEW t, NEW X, NEW it, it \notin InChain(s),
         NEW old \in InChain(s), s.key[old] = s.key[it],
         Outcome(s, t, it, X \ {old})
  PROVE  Outcome(s, t, it, X)
<1>1. old \notin InChain(t) /\ old # it
  BY OldIsGone
<1>2. CASE Reserved(s.flag[it])
  BY <1>1, <1>2, Watched DEF Outcome, Clears
<1>3. CASE ~Reserved(s.flag[it])
  <2>1. (X \ {old}) \ {it} = (X \ {it}) \ {old}
    OBVIOUS
  <2>2. Moves(s, t, X \ {it})
    BY <1>1, <1>3, <2>1, Watched DEF Outcome, Puts
  <2> QED
    BY <1>3, <2>2 DEF Outcome, Puts
<1> QED
  BY <1>2, <1>3

\* Only the counts of items of A differ.
Counted(s, t, A) ==
  /\ SameData(s, t)
  /\ t.chain = s.chain
  /\ t.flag = s.flag
  /\ \A x \in Chunk \ A : t.refcount[x] = s.refcount[x]

\* Counts of an item that has gone, and of the item that has come.
LEMMA CountedMoves ==
  ASSUME NEW s, NEW t, NEW u, NEW X, X \subseteq Chunk, Moves(s, t, X), NEW A, Counted(t, u, A),
         A \cap X \subseteq InChain(s) \ InChain(t), A \subseteq InChain(s) \cup InChain(t)
  PROVE  Moves(s, u, X) /\ InChain(u) = InChain(t)
<1>1. InChain(u) = InChain(t) /\ ChainOK(u)
  BY SameTable DEF Counted, SameData, Moves
<1>2. Intact(s, u, X)
  <2> SUFFICES ASSUME NEW x \in X, ~(x \in InChain(s) \ InChain(t))
               PROVE  SameEntry(s, u, x) /\ (x \in InChain(s) \/ u.flag[x] = s.flag[x])
    BY <1>1 DEF Intact
  <2>1. SameEntry(s, t, x) /\ (x \in InChain(s) \/ t.flag[x] = s.flag[x])
    BY DEF Moves, Intact
  <2>2. u.refcount[x] = t.refcount[x]
    BY DEF Counted
  <2> QED
    BY <2>1, <2>2 DEF SameEntry, Counted, SameData
<1>3. \A x \in Chunk : x \notin InChain(s) \cup InChain(u) => u.refcount[x] = s.refcount[x]
  BY <1>1 DEF Moves, Counted
<1>4. \A x \in InChain(s) : u.key[x] = s.key[x]
  BY DEF Moves, Counted, SameData
<1> QED
  BY <1>1, <1>2, <1>3, <1>4 DEF Moves

\* do_item_link stores an item whose key is not chained.
LEMMA LinkOutcome ==
  ASSUME NEW s \in StoreState, Unlisted(s), ChainOK(s), NEW it \in Chunk, s.key[it] \in Key,
         \A x \in InChain(s) : s.key[x] # s.key[it], NEW now \in Nat
  PROVE  Outcome(s, do_item_link(s, it, now), it, Chunk)
<1> DEFINE t == do_item_link(s, it, now)
<1>1. CASE Reserved(s.flag[it])
  <2>1. t = s
    BY <1>1, LinkItems DEF Reserved
  <2>2. SameItems(s, t)
    BY <2>1 DEF SameItems, SameData
  <2>3. Clears(s, t, s.key[it], Chunk)
    <3>1. Stays(s, t, Chunk)
      BY <2>2, SameStays
    <3> HIDE DEF t
    <3> QED
      BY <2>1, <3>1 DEF Stays, Clears, Leaves
  <2> QED
    BY <1>1, <2>3 DEF Outcome
<1>2. CASE ~Reserved(s.flag[it])
  <2>1. Linked(s, t, it)
    BY <1>2, LinkItems DEF Reserved
  <2> HIDE DEF t
  <2>2. Puts(s, t, it, Chunk)
    BY <2>1, LinkedPuts
  <2>3. t.refcount[it] = Incr(s.refcount[it])
    BY <2>1 DEF Linked, StoreState
  <2>4. Outcome(s, t, it, Chunk)
    BY <1>2, <2>1, <2>2, <2>3 DEF Linked, Outcome
  <2> QED
    BY <2>4 DEF t
<1> QED
  BY <1>1, <1>2

\* do_item_replace stores an item in the place of the chained item of its key.
LEMMA ReplaceOutcome ==
  ASSUME NEW s \in StoreState, Unlisted(s), ChainOK(s), NEW it \in Chunk, it \notin InChain(s),
         NEW old \in InChain(s), s.key[old] = s.key[it], NEW now \in Nat
  PROVE  LET t == do_item_replace(s, old, it, now)
         IN  Outcome(s, t, it, Chunk) /\ "SLABBED" \notin t.flag[old]
<1> DEFINE m == do_item_unlink(s, old)
           t == do_item_link(m, it, now)
<1>1. old \in Chunk /\ s.key[it] \in Key /\ "SLABBED" \notin s.flag[old] /\ it # old
  BY ChainItem
<1>2. Removed(s, m, old) /\ "SLABBED" \notin m.flag[old]
  BY UnlinkItems
<1> HIDE DEF m
<1>3. Clears(s, m, s.key[it], Chunk)
  BY <1>2, RemovedClears
<1>4. m \in StoreState /\ Unlisted(m) /\ ChainOK(m) /\ m.key = s.key
  BY <1>2 DEF Removed, Keeps
<1>5. SameNew(s, m, it)
  BY <1>1, <1>2 DEF Removed, SameData, SameNew
<1>6. \A x \in InChain(m) : m.key[x] # m.key[it]
  BY <1>3, <1>4 DEF Clears, Leaves
<1>7. Outcome(m, t, it, Chunk)
  BY <1>1, <1>4, <1>6, LinkOutcome
<1>8. t.key = m.key
  BY <1>4, DoItemLinkKeeps DEF Keeps
<1>9. "SLABBED" \notin t.flag[old]
  <2>1. t = m \/ Linked(m, t, it)
    BY <1>1, <1>4, <1>6, LinkItems
  <2>2. ASSUME Linked(m, t, it)
        PROVE  t.flag[old] = m.flag[old]
    BY <1>1, <1>4, <2>2 DEF Linked, StoreState
  <2> QED
    BY <1>2, <2>1, <2>2
<1>10. do_item_replace(s, old, it, now) = t
  BY <1>1 DEF do_item_replace, m
<1> HIDE DEF t
<1>11. Outcome(s, t, it, Chunk)
  BY <1>3, <1>4, <1>5, <1>7, <1>8, ClearsOutcome
<1> QED
  BY <1>9, <1>10, <1>11

\* Giving back the reference to the old item.
LEMMA CountedOutcome ==
  ASSUME NEW s, NEW t, NEW u, NEW X, X \subseteq Chunk, NEW it \in Chunk, it \notin InChain(s),
         NEW old \in InChain(s), s.key[old] = s.key[it],
         Outcome(s, t, it, X), Counted(t, u, {old})
  PROVE  Outcome(s, u, it, X)
<1> DEFINE A == {old}
<1>1. old \notin InChain(t) /\ old # it
  BY OldIsGone
<1>2. Counted(t, u, A) /\ A \subseteq InChain(s) \cup InChain(t)
  OBVIOUS
<1>3. CASE Reserved(s.flag[it])
  <2>1. Moves(s, t, X) /\ A \cap X \subseteq InChain(s) \ InChain(t)
    BY <1>1, <1>3 DEF Outcome, Clears
  <2>2. Moves(s, u, X) /\ InChain(u) = InChain(t)
    <3> HIDE DEF A
    <3> QED
      BY <1>2, <2>1, CountedMoves
  <2> QED
    BY <1>3, <2>2 DEF Outcome, Clears, Counted, SameData
<1>4. CASE ~Reserved(s.flag[it])
  <2> DEFINE Y == X \ {it}
  <2>1. Moves(s, t, Y) /\ A \cap Y \subseteq InChain(s) \ InChain(t)
    BY <1>1, <1>4 DEF Outcome, Puts
  <2>2. Moves(s, u, Y) /\ InChain(u) = InChain(t)
    <3>1. Y \subseteq Chunk
      OBVIOUS
    <3> HIDE DEF A, Y
    <3> QED
      BY <1>2, <2>1, <3>1, CountedMoves
  <2>3. u.refcount[it] = t.refcount[it]
    BY <1>1 DEF Counted
  <2> QED
    BY <1>4, <2>2, <2>3 DEF Outcome, Puts, Counted, SameData
<1> QED
  BY <1>3, <1>4

\* Fewer items are watched.
LEMMA OutcomeLess ==
  ASSUME NEW s, NEW t, NEW it, NEW X, Outcome(s, t, it, X), NEW Y, Y \subseteq X
  PROVE  Outcome(s, t, it, Y)
<1>1. CASE Reserved(s.flag[it])
  BY <1>1, MovesLess DEF Outcome, Clears
<1>2. CASE ~Reserved(s.flag[it])
  <2>1. Y \ {it} \subseteq X \ {it}
    OBVIOUS
  <2> QED
    BY <1>2, <2>1, MovesLess DEF Outcome, Puts
<1> QED
  BY <1>1, <1>2

\* Writing to an item that is not in the table.
LEMMA WriteStays ==
  ASSUME NEW s \in StoreState, ChainOK(s), NEW new \in Chunk, new \notin InChain(s), NEW t,
         t.chain = s.chain, t.refcount = s.refcount, t.cas_id = s.cas_id,
         \A x \in Chunk : x # new => /\ t.key[x] = s.key[x] /\ t.val[x] = s.val[x]
                                     /\ t.cas[x] = s.cas[x] /\ t.exptime[x] = s.exptime[x]
                                     /\ t.flag[x] = s.flag[x]
  PROVE  Stays(s, t, Chunk \ {new})
<1>1. \A x \in InChain(s) : x \in Chunk /\ x # new
  BY InChainType
<1>2. \A x \in InChain(s) : /\ t.key[x] = s.key[x]
                            /\ "LINKED" \in t.flag[x] /\ "SLABBED" \notin t.flag[x]
  BY <1>1, ChainItem
<1>3. ChainOK(t) /\ InChain(t) = InChain(s)
  BY <1>2, ChainFrame
<1>4. Intact(s, t, Chunk \ {new})
  BY DEF Intact, SameEntry
<1> QED
  BY <1>2, <1>3, <1>4 DEF Stays, Moves

\* it->cas++ on an item that is not in the table.
LEMMA BumpStays ==
  ASSUME NEW s \in StoreState, Unlisted(s), ChainOK(s), NEW it \in Chunk, it \notin InChain(s)
  PROVE  LET t == [s EXCEPT !.cas[it] = @ + 1]
         IN  /\ t \in StoreState /\ Unlisted(t) /\ Stays(s, t, Chunk \ {it})
             /\ t.key = s.key /\ t.flag = s.flag
             /\ SameNew(s, t, it)
<1> DEFINE t == [s EXCEPT !.cas[it] = @ + 1]
<1>1. t \in StoreState
  <2>1. s.cas[it] + 1 \in Nat
    BY DEF StoreState
  <2> QED
    BY <2>1 DEF StoreState
<1>2. /\ t.chain = s.chain /\ t.refcount = s.refcount /\ t.cas_id = s.cas_id
      /\ t.key = s.key /\ t.val = s.val /\ t.exptime = s.exptime /\ t.flag = s.flag
      /\ t.cas = [s.cas EXCEPT ![it] = @ + 1]
      /\ t.slabs_clsid = s.slabs_clsid /\ t.heads = s.heads /\ t.tails = s.tails
  BY DEF StoreState
<1> HIDE DEF t
<1>3. \A x \in Chunk : x # it => t.cas[x] = s.cas[x]
  BY <1>2 DEF StoreState
<1>4. Stays(s, t, Chunk \ {it})
  BY <1>2, <1>3, WriteStays
<1>5. Unlisted(t)
  BY <1>2 DEF Unlisted
<1>6. SameNew(s, t, it)
  BY <1>2 DEF SameNew
<1> QED
  BY <1>1, <1>2, <1>4, <1>5, <1>6 DEF t

\* Replacing the chained item of the key and giving back its reference.
LEMMA ReplaceAndBack ==
  ASSUME NEW s \in StoreState, Unlisted(s), ChainOK(s), NEW it \in Chunk, it \notin InChain(s),
         NEW old \in InChain(s), s.key[old] = s.key[it], NEW now \in Nat, NEW stat
  PROVE  Outcome(s, Stored(do_item_replace(s, old, it, now), old, NoItem, stat).s, it, Chunk)
<1> DEFINE t == do_item_replace(s, old, it, now)
           u == Stored(t, old, NoItem, stat).s
<1>1. old \in Chunk
  BY ChainItem
<1>2. Outcome(s, t, it, Chunk) /\ "SLABBED" \notin t.flag[old]
  BY ReplaceOutcome
<1>3. t \in StoreState /\ Unlisted(t)
  BY <1>1, DoItemReplaceKeeps DEF Keeps
<1> HIDE DEF t
<1>4. Counted(t, u, {old})
  <2>1. /\ SameData(t, u) /\ u.chain = t.chain /\ u.flag = t.flag
        /\ u.refcount = [t.refcount EXCEPT ![old] = Decr(@)]
    BY <1>1, <1>2, <1>3, StoredItems
  <2> HIDE DEF u
  <2> QED
    BY <1>3, <2>1 DEF Counted, StoreState
<1> HIDE DEF u
<1>5. Outcome(s, u, it, Chunk)
  BY <1>2, <1>4, CountedOutcome
<1> QED
  BY <1>5 DEF t, u

\* Linking or replacing after a look-up of the key of the item, as set, add
\* and replace do.
LEMMA PlainOutcome ==
  ASSUME NEW s \in StoreState, Unlisted(s), ChainOK(s), NEW it \in Chunk, it \notin InChain(s),
         s.key[it] \in Key, NEW now \in Nat, NEW stat
  PROVE  LET g == do_item_get(s, s.key[it], now)
         IN  Outcome(s, Stored(PutItem(g.s, g.ret, it, now), g.ret, NoItem, stat).s, it, Chunk \ {it})
<1> DEFINE k == s.key[it]
           got == do_item_get(s, k, now)
           g == got.s
           old == got.ret
           b == [g EXCEPT !.cas[it] = @ + 1]
           t == Stored(PutItem(g, old, it, now), old, NoItem, stat).s
           X == Chunk \ {it}
<1>1. k \in Key
  OBVIOUS
<1>2. CASE ~Live(s, k, now)
  <2>1. /\ old = NoItem /\ Clears(s, g, k, Chunk)
        /\ Keeps(s, g, {}) /\ SameData(s, g)
        /\ \A x \in Chunk \ InChain(s) : g.flag[x] = s.flag[x]
    BY <1>1, <1>2, GetMiss
  <2>2. t = do_item_link(b, it, now)
    BY <2>1, StoredNothing DEF PutItem
  <2> HIDE DEF k, got, g, old, t
  <2>3. /\ g \in StoreState /\ Unlisted(g) /\ ChainOK(g) /\ g.key = s.key
        /\ InChain(g) \subseteq InChain(s)
    BY <2>1 DEF Keeps, Clears, Moves, Leaves
  <2>4. /\ b \in StoreState /\ Unlisted(b) /\ Stays(g, b, X)
        /\ b.key = g.key /\ SameNew(g, b, it)
    BY <2>3, BumpStays
  <2> HIDE DEF b, X
  <2>5. \A x \in InChain(b) : b.key[x] # b.key[it]
    BY <2>1, <2>3, <2>4 DEF Stays, Clears, Leaves, k
  <2>6. Outcome(b, t, it, Chunk)
    BY <1>1, <2>2, <2>3, <2>4, <2>5, LinkOutcome DEF Stays, Moves, k
  <2>7. Outcome(g, t, it, X)
    BY <2>4, <2>6, OutcomeLess, StaysOutcome DEF X
  <2>8. SameNew(s, g, it)
    <3>1. g.refcount[it] = s.refcount[it]
      BY <2>1, <2>3 DEF Clears, Moves
    <3> QED
      BY <2>1, <3>1 DEF SameData, SameNew
  <2>9. Clears(s, g, k, X)
    BY <2>1, MovesLess DEF Clears, X
  <2>10. t.key = s.key
    BY <2>2, <2>3, <2>4, DoItemLinkKeeps DEF Keeps
  <2>11. Outcome(s, t, it, X)
    BY <2>7, <2>8, <2>9, <2>10, ClearsOutcome DEF k
  <2> QED
    BY <2>11 DEF k, got, g, old, t, X
<1>3. CASE Live(s, k, now)
  <2> DEFINE f == hash_find(s, k)
             Y == X \ {f}
  <2>1. /\ f \in InChain(s) /\ f \in Chunk /\ s.key[f] = k /\ old = f
        /\ Touched(s, g, f, Incr(s.refcount[f]))
        /\ Stays(s, g, Chunk \ {f})
    BY <1>1, <1>3, GetHit
  <2>2. t = Stored(do_item_replace(b, f, it, now), f, NoItem, stat).s
    BY <2>1, NoItemNotChunk DEF PutItem
  <2> HIDE DEF k, got, g, old, t, f
  <2>3. /\ g \in StoreState /\ Unlisted(g) /\ ChainOK(g) /\ g.key = s.key
        /\ InChain(g) = InChain(s)
    BY <2>1 DEF Touched, Keeps, Stays
  <2>4. /\ b \in StoreState /\ Unlisted(b) /\ Stays(g, b, X)
        /\ b.key = g.key /\ SameNew(g, b, it)
    BY <2>3, BumpStays
  <2> HIDE DEF b
  <2>5. ChainOK(b) /\ InChain(b) = InChain(s)
    BY <2>3, <2>4 DEF Stays, Moves
  <2>6. Outcome(b, t, it, Chunk)
    BY <2>1, <2>2, <2>3, <2>4, <2>5, ReplaceAndBack DEF k
  <2>7. SameNew(s, g, it)
    <3>1. it # f
      BY <2>1
    <3> QED
      BY <2>1, <3>1 DEF Touched, SameData, SameNew, StoreState
  <2>8. Stays(s, g, Y) /\ Stays(g, b, Y) /\ Outcome(b, t, it, Y)
    <3>1. Y \subseteq Chunk \ {f} /\ Y \subseteq X /\ Y \subseteq Chunk
      OBVIOUS
    <3> HIDE DEF X, Y
    <3> QED
      BY <2>1, <2>4, <2>6, <3>1, MovesLess, OutcomeLess DEF Stays
  <2> HIDE DEF Y
  <2>9. Outcome(s, t, it, Y)
    BY <2>4, <2>7, <2>8, StaysOutcome
  <2>10. Outcome(s, t, it, X)
    <3> HIDE DEF X
    <3> QED
      BY <2>1, <2>9, WatchedOutcome DEF Y, k
  <2> QED
    BY <2>10 DEF k, got, g, old, t
<1> QED
  BY <1>2, <1>3

\* Replacing after a look-up that found the item, as cas does.
LEMMA CasOutcome ==
  ASSUME NEW s \in StoreState, Unlisted(s), ChainOK(s), NEW it \in Chunk, it \notin InChain(s),
         s.key[it] \in Key, NEW now \in Nat, NEW stat, Live(s, s.key[it], now)
  PROVE  LET g == do_item_get(s, s.key[it], now)
         IN  Outcome(s, Stored(do_item_replace(g.s, g.ret, it, now), g.ret, NoItem, stat).s, it, Chunk)
<1> DEFINE k == s.key[it]
           f == hash_find(s, k)
           got == do_item_get(s, k, now)
           g == got.s
           t == Stored(do_item_replace(g, f, it, now), f, NoItem, stat).s
           Y == Chunk \ {f}
<1>1. /\ f \in InChain(s) /\ f \in Chunk /\ s.key[f] = k /\ got.ret = f
      /\ Touched(s, g, f, Incr(s.refcount[f]))
      /\ Stays(s, g, Chunk \ {f})
  BY GetHit
<1> HIDE DEF k, f, got, g
<1>2. /\ g \in StoreState /\ Unlisted(g) /\ ChainOK(g) /\ g.key = s.key
      /\ InChain(g) = InChain(s)
  BY <1>1 DEF Touched, Keeps, Stays
<1>3. Outcome(g, t, it, Chunk)
  BY <1>1, <1>2, ReplaceAndBack DEF k
<1> HIDE DEF t
<1>4. SameNew(s, g, it)
  <2>1. it # f
    BY <1>1
  <2> QED
    BY <1>1, <2>1 DEF Touched, SameData, SameNew, StoreState
<1>5. Outcome(g, t, it, Y)
  BY <1>3, OutcomeLess
<1>6. Outcome(s, t, it, Y)
  BY <1>1, <1>4, <1>5, StaysOutcome
<1>7. Outcome(s, t, it, Chunk)
  BY <1>1, <1>6, WatchedOutcome DEF k
<1> QED
  BY <1>1, <1>7 DEF t, f, g, got, k

\* Fewer items are watched.
LEMMA PutsLess ==
  ASSUME NEW s, NEW t, NEW it, NEW X, Puts(s, t, it, X), NEW Y, Y \subseteq X
  PROVE  Puts(s, t, it, Y)
<1>1. Y \ {it} \subseteq X \ {it}
  OBVIOUS
<1> QED
  BY <1>1, MovesLess DEF Puts

\* do_item_alloc leaves the table and the items in use as they are.
LEMMA AllocStays ==
  ASSUME NEW s, Sound(s), ChainOK(s), InChain(s) \subseteq UsedIn(s), NEW n \in Nat, NEW os
  PROVE  Stays(s, do_item_alloc(s, n, os).s, UsedIn(s))
<1> DEFINE a == do_item_alloc(s, n, os).s
<1>1. /\ SameData(s, a) /\ a.chain = s.chain /\ a.refcount = s.refcount
      /\ \A x \in UsedIn(s) : a.flag[x] = s.flag[x]
  BY AllocItems
<1> HIDE DEF a
<1>2. \A x \in InChain(s) : /\ a.key[x] = s.key[x]
                            /\ "LINKED" \in a.flag[x] /\ "SLABBED" \notin a.flag[x]
  BY <1>1, ChainItem DEF Sound, SameData
<1>3. ChainOK(a) /\ InChain(a) = InChain(s)
  BY <1>1, <1>2, ChainFrame
<1>4. Intact(s, a, UsedIn(s))
  BY <1>1 DEF Intact, SameEntry, SameData
<1>5. Stays(s, a, UsedIn(s))
  BY <1>1, <1>2, <1>3, <1>4 DEF Stays, Moves, SameData
<1> QED
  BY <1>5 DEF a

\* A new item takes the place of the chained item of its key; both references
\* are given back, as append and prepend do.
LEMMA ReplaceByNew ==
  ASSUME NEW s \in StoreState, Unlisted(s), ChainOK(s), NEW new \in Chunk, new \notin InChain(s),
         ~Reserved(s.flag[new]), NEW old \in InChain(s), s.key[old] = s.key[new],
         NEW now \in Nat, NEW stat
  PROVE  LET t == Stored(PutItem(s, old, new, now), old, new, stat).s
         IN  /\ Puts(s, t, new, Chunk \ {new})
             /\ t.key[new] = s.key[new] /\ t.val[new] = s.val[new]
             /\ t.exptime[new] = s.exptime[new]
             /\ t.refcount[new] = s.refcount[new]
<1> DEFINE b == [s EXCEPT !.cas[new] = @ + 1]
           r == do_item_replace(b, old, new, now)
           o == DropRef(r, old)
           t == Stored(PutItem(s, old, new, now), old, new, stat).s
           X == Chunk \ {new}
           A == {old, new}
<1>1. old \in Chunk /\ old # NoItem /\ new # NoItem /\ old # new
  BY ChainItem, NoItemNotChunk
<1>2. t = do_item_remove(o, new) /\ o = do_item_remove(r, old)
  BY <1>1 DEF Stored, DropRef, PutItem
<1>3. /\ b \in StoreState /\ Unlisted(b) /\ Stays(s, b, X)
      /\ b.key = s.key /\ b.flag = s.flag /\ SameNew(s, b, new)
  BY BumpStays
<1> HIDE DEF b
<1>4. ChainOK(b) /\ InChain(b) = InChain(s)
  BY <1>3 DEF Stays, Moves
<1>5. Outcome(b, r, new, Chunk) /\ "SLABBED" \notin r.flag[old]
  BY <1>3, <1>4, ReplaceOutcome
<1>6. r \in StoreState /\ Unlisted(r)
  BY <1>1, <1>3, DoItemReplaceKeeps DEF Keeps
<1> HIDE DEF r
<1>7. /\ Puts(b, r, new, Chunk) /\ r.key[new] = b.key[new] /\ r.val[new] = b.val[new]
      /\ r.exptime[new] = b.exptime[new]
      /\ r.refcount[new] = Incr(b.refcount[new])
  BY <1>3, <1>5 DEF Outcome
<1>8. ChainOK(r) /\ "SLABBED" \notin r.flag[new]
  BY <1>6, <1>7, ChainItem DEF Puts, Moves
<1>9. /\ SameData(r, o) /\ o.chain = r.chain /\ o.flag = r.flag
      /\ o.refcount = [r.refcount EXCEPT ![old] = Decr(@)]
  BY <1>1, <1>2, <1>5, <1>6, RemoveItems
<1>10. o \in StoreState /\ Unlisted(o)
  BY <1>1, <1>2, <1>6, DoItemRemoveKeeps DEF Keeps
<1> HIDE DEF o
<1>11. /\ SameData(o, t) /\ t.chain = o.chain /\ t.flag = o.flag
       /\ t.refcount = [o.refcount EXCEPT ![new] = Decr(@)]
  BY <1>2, <1>8, <1>9, <1>10, RemoveItems
<1> HIDE DEF t
<1>12. Counted(r, t, A) /\ t.refcount[new] = Decr(r.refcount[new])
  <2>1. r.refcount \in [Chunk -> 0..(UInt - 1)] /\ o.refcount \in [Chunk -> 0..(UInt - 1)]
    BY <1>6, <1>10 DEF StoreState
  <2>2. \A x \in Chunk \ A : t.refcount[x] = r.refcount[x]
    BY <1>9, <1>11, <2>1
  <2>3. t.refcount[new] = Decr(r.refcount[new])
    BY <1>1, <1>9, <1>11, <2>1
  <2> QED
    BY <1>9, <1>11, <2>2, <2>3 DEF Counted, SameData
<1>13. old \notin InChain(r)
  BY <1>3, <1>4, <1>5, OldIsGone
<1>14. Moves(b, t, X) /\ InChain(t) = InChain(r)
  <2>1. /\ Moves(b, r, X) /\ new \in InChain(r)
    BY <1>7 DEF Puts
  <2>2. A \cap X \subseteq InChain(b) \ InChain(r) /\ A \subseteq InChain(b) \cup InChain(r) /\ X \subseteq Chunk
    BY <1>4, <1>13, <2>1
  <2> HIDE DEF A, X
  <2> QED
    BY <1>12, <2>1, <2>2, CountedMoves
<1>15. Puts(b, t, new, X)
  <2>1. X \ {new} = X
    OBVIOUS
  <2> QED
    BY <1>7, <1>12, <1>14, <2>1 DEF Puts, Counted, SameData
<1>16. Puts(s, t, new, X)
  BY <1>3, <1>15, StaysPuts
<1>17. t.refcount[new] = s.refcount[new]
  <2>1. s.refcount[new] \in 0..(UInt - 1) /\ t.refcount[new] = Decr(Incr(s.refcount[new]))
    BY <1>3, <1>7, <1>12 DEF SameNew, StoreState
  <2> QED
    BY <2>1, CounterBack
<1> QED
  BY <1>3, <1>7, <1>12, <1>16, <1>17 DEF t, Counted, SameData, SameNew

\* What append and prepend leave as the value.
Joined(s, old, it, command) ==
  IF command = "append" THEN s.val[old] \o s.val[it] ELSE s.val[it] \o s.val[old]

\* The concatenation of an item that a look-up found and of a held item, in a
\* chunk that was not in use, takes the place of the item that was found.
LEMMA ConcatPuts ==
  ASSUME NEW s, Sound(s), ChainOK(s), InChain(s) \subseteq UsedIn(s),
         NEW it \in UsedIn(s), it \notin InChain(s), s.key[it] \in Key, NEW now \in Nat,
         NEW old \in InChain(s), s.key[old] = s.key[it],
         NEW g, Touched(s, g, old, Incr(s.refcount[old])), Stays(s, g, Chunk \ {old}),
         NEW a, Advances(g, a, {}), Stays(g, a, UsedIn(g)), SameData(g, a), a.refcount = g.refcount,
         NEW new \in Chunk, new \notin UsedIn(g), NEW command, NEW stat
  PROVE  LET t == Stored(PutItem(Concatenated(a, old, it, new, command), old, new, now),
                         old, new, stat).s
         IN  /\ new \notin UsedIn(s) /\ Puts(s, t, new, UsedIn(s))
             /\ t.key[new] = s.key[it] /\ t.val[new] = Joined(s, old, it, command)
             /\ t.exptime[new] = s.exptime[old]
             /\ t.refcount[new] = s.refcount[new]
<1> DEFINE c == Concatenated(a, old, it, new, command)
           t == Stored(PutItem(c, old, new, now), old, new, stat).s
           U == UsedIn(s)
           Y == U \ {old}
<1>1. /\ s \in StoreState /\ g \in StoreState /\ UsedIn(g) = UsedIn(s)
      /\ old \in UsedIn(s) /\ old \in Chunk /\ it \in Chunk
      /\ UsedIn(s) \subseteq Chunk
  BY DEF Sound, Touched, Keeps, UsedIn
<1>2. /\ a \in StoreState /\ ChainOK(a) /\ InChain(a) = InChain(s)
  BY DEF Advances, Sound, Stays, Moves
<1>3. Advances(g, c, {})
  BY <1>1, ConcatenatedAdvances
<1>4. c \in StoreState /\ Unlisted(c)
  BY <1>3 DEF Advances, Sound
<1>5. /\ c.key = [a.key EXCEPT ![new] = a.key[old]]
      /\ c.flag = [a.flag EXCEPT ![new] = {}]
      /\ c.exptime = [a.exptime EXCEPT ![new] = a.exptime[old]]
      /\ c.val = [a.val EXCEPT ![new] = Joined(a, old, it, command)]
      /\ c.chain = a.chain /\ c.refcount = a.refcount /\ c.cas_id = a.cas_id /\ c.cas = a.cas
  BY <1>2 DEF Concatenated, Joined, StoreState
<1> HIDE DEF c
<1>6. new \notin InChain(a) /\ new # old /\ new # it /\ new \notin U
  BY <1>1, <1>2
<1>7. /\ a.key \in [Chunk -> Key \cup {NoKey}] /\ a.flag \in [Chunk -> SUBSET ItemFlag]
      /\ a.exptime \in [Chunk -> Nat] /\ a.val \in [Chunk -> Seq(Atom)]
  BY <1>2 DEF StoreState
<1>8. Stays(a, c, Chunk \ {new})
  <2>1. \A x \in Chunk : x # new => /\ c.key[x] = a.key[x] /\ c.val[x] = a.val[x]
                                    /\ c.cas[x] = a.cas[x] /\ c.exptime[x] = a.exptime[x]
                                    /\ c.flag[x] = a.flag[x]
    BY <1>5, <1>7
  <2> QED
    BY <1>2, <1>5, <1>6, <2>1, WriteStays
<1>9. /\ c.key[new] = s.key[old] /\ c.val[new] = Joined(s, old, it, command)
      /\ c.exptime[new] = s.exptime[old] /\ ~Reserved(c.flag[new])
      /\ c.key[old] = s.key[old] /\ c.refcount[new] = s.refcount[new]
  <2>1. SameData(s, g) /\ g.refcount[new] = s.refcount[new]
    BY <1>1, <1>6 DEF Touched, StoreState
  <2> QED
    BY <1>1, <1>5, <1>6, <1>7, <2>1 DEF SameData, Joined, Reserved
<1>10. ChainOK(c) /\ InChain(c) = InChain(s)
  BY <1>2, <1>8 DEF Stays, Moves
<1>11. /\ Puts(c, t, new, Chunk \ {new})
       /\ t.key[new] = c.key[new] /\ t.val[new] = c.val[new]
       /\ t.exptime[new] = c.exptime[new] /\ t.refcount[new] = c.refcount[new]
  <2>1. c.key[old] = c.key[new] /\ new \notin InChain(c) /\ old \in InChain(c)
    BY <1>6, <1>9, <1>10
  <2> QED
    BY <1>4, <1>9, <1>10, <2>1, ReplaceByNew, ZenonT(60)
<1> HIDE DEF t
<1>12. Stays(s, g, Y) /\ Stays(g, a, Y) /\ Stays(a, c, Y) /\ Puts(c, t, new, Y)
  <2>1. Y \subseteq Chunk \ {old} /\ Y \subseteq UsedIn(g) /\ Y \subseteq Chunk \ {new}
    BY <1>1, <1>6
  <2> HIDE DEF Y
  <2> QED
    BY <1>8, <1>11, <2>1, MovesLess, PutsLess DEF Stays
<1>13. Puts(s, t, new, Y)
  <2> HIDE DEF Y
  <2> QED
    BY <1>12, StaysPuts
<1>14. old \notin InChain(t)
  BY <1>6, <1>9, <1>11, <1>13 DEF Puts, Leaves
<1>15. Puts(s, t, new, U)
  <2>1. Y \ {new} = U \ {old} /\ U \ {new} = U
    BY <1>6
  <2>2. Moves(s, t, U)
    BY <1>13, <1>14, <2>1, Watched DEF Puts
  <2> QED
    BY <1>13, <2>1, <2>2 DEF Puts
<1> QED
  BY <1>6, <1>9, <1>11, <1>15 DEF t, c

-----------------------------------------------------------------------------
(* store_item *)

\* A look-up of key k that gives back what it found.
Looked(s, t, k, now, X) ==
  IF Live(s, k, now) THEN Stays(s, t, X) ELSE Clears(s, t, k, X)

\* The condition under which a storage command stores item it.
MayStore(s, it, command, now) ==
  /\ command = "add" => ~Live(s, s.key[it], now)
  /\ command \in {"replace", "append", "prepend", "cas"} => Live(s, s.key[it], now)
  /\ command \in {"append", "prepend", "cas"} => s.cas[it] = s.cas[hash_find(s, s.key[it])]

Concats(command) == command \in {"append", "prepend"}

Rejects(s, r, it, command, now) ==
  /\ ~MayStore(s, it, command, now) \/ Concats(command)
  /\ command = "cas" => Live(s, s.key[it], now)
  /\ r.ret \in {"NOT_STORED", "EXISTS"}
  /\ Looked(s, r.s, s.key[it], now, UsedIn(s))

Dies(s, r, it, command, now) ==
  /\ command = "cas"
  /\ ~Live(s, s.key[it], now)
  /\ r.ret = "SEGV"
  /\ Clears(s, r.s, s.key[it], UsedIn(s))

Stores(s, r, it, command, now) ==
  /\ MayStore(s, it, command, now)
  /\ ~Concats(command)
  /\ r.ret = "STORED"
  /\ Outcome(s, r.s, it, UsedIn(s) \ {it})

Joins(s, r, it, command, now) ==
  /\ MayStore(s, it, command, now)
  /\ Concats(command)
  /\ r.ret = "STORED"
  /\ \E new \in Chunk \ UsedIn(s) :
       LET old == hash_find(s, s.key[it])
       IN  /\ Puts(s, r.s, new, UsedIn(s))
           /\ r.s.key[new] = s.key[it]
           /\ r.s.val[new] = Joined(s, old, it, command)
           /\ r.s.exptime[new] = s.exptime[old]
           /\ r.s.refcount[new] = s.refcount[new]

\* The status that Stored passes on.
LEMMA StoredRet ==
  ASSUME NEW s, NEW old, NEW new, NEW stat
  PROVE  Stored(s, old, new, stat).ret = stat
  BY DEF Stored

\* append and prepend, on an item that the look-up found.
LEMMA ConcatEffect ==
  ASSUME NEW s, Sound(s), ChainOK(s), InChain(s) \subseteq UsedIn(s),
         NEW it \in UsedIn(s), it \notin InChain(s), s.key[it] \in Key, NEW now \in Nat,
         NEW command, Concats(command), NEW os, Live(s, s.key[it], now)
  PROVE  LET got == do_item_get(s, s.key[it], now)
             r   == StoreConcat(got.s, got.ret, it, command, now, os)
         IN  Rejects(s, r, it, command, now) \/ Joins(s, r, it, command, now)
<1> DEFINE k == s.key[it]
           old == hash_find(s, k)
           got == do_item_get(s, k, now)
           g == got.s
           n == g.nbytes[it] + g.nbytes[old]
           alloc == do_item_alloc(g, n, os)
           a == alloc.s
           new == alloc.ret
           r == StoreConcat(g, old, it, command, now, os)
           c == Concatenated(a, old, it, new, command)
<1>1. /\ old \in InChain(s) /\ old \in Chunk /\ s.key[old] = k /\ got.ret = old
      /\ Touched(s, g, old, Incr(s.refcount[old]))
      /\ Stays(s, g, Chunk \ {old})
  BY GetHit DEF Sound
<1> HIDE DEF got, g, old
<1>2. /\ it \in Chunk /\ s \in StoreState /\ UsedIn(s) \subseteq Chunk
  BY DEF UsedIn, Sound
<1>3. /\ Sound(g) /\ ChainOK(g) /\ InChain(g) = InChain(s) /\ UsedIn(g) = UsedIn(s)
      /\ SameData(s, g) /\ g \in StoreState /\ Unlisted(g)
  <2>1. Keeps(s, g, {}) /\ SameData(s, g) /\ ChainOK(g) /\ InChain(g) = InChain(s)
    BY <1>1 DEF Touched, Stays
  <2>2. FreeListsSound(g) /\ UsedIn(g) = UsedIn(s)
    BY <2>1 DEF Sound, FreeListsSound, UsedIn, Keeps
  <2> QED
    BY <2>1, <2>2 DEF Sound, Keeps
<1>4. n \in Nat
  <2>1. g.nbytes \in [Chunk -> Nat]
    BY <1>3 DEF StoreState
  <2> QED
    BY <1>1, <1>2, <2>1
<1> HIDE DEF n
<1>5. g.cas[it] = g.cas[old] <=> MayStore(s, it, command, now)
  BY <1>3 DEF SameData, MayStore, k, old, Concats
<1>6. CASE g.cas[it] # g.cas[old]
  <2>1. r = Stored(g, old, NoItem, "EXISTS")
    BY <1>6 DEF StoreConcat
  <2>2. Stays(s, r.s, UsedIn(s))
    BY <1>1, <1>2, <1>3, <2>1, GetAndBack DEF SameData
  <2>3. r.ret = "EXISTS"
    BY <2>1, StoredRet
  <2> HIDE DEF r
  <2>4. Rejects(s, r, it, command, now)
    BY <2>2, <2>3, <1>5, <1>6 DEF Rejects, Looked, Concats
  <2> QED
    BY <1>1, <2>4 DEF r, g, got, k
<1>7. /\ Advances(g, a, {}) /\ Stays(g, a, UsedIn(g)) /\ SameData(g, a)
      /\ a.chain = g.chain /\ a.refcount = g.refcount
      /\ \A x \in UsedIn(g) : a.flag[x] = g.flag[x]
      /\ new = NoItem \/ new \in UsedIn(a) \ UsedIn(g)
  BY <1>3, <1>4, DoItemAllocAdvances, AllocStays, AllocItems
<1>8. CASE g.cas[it] = g.cas[old] /\ new = NoItem
  <2>1. r = Stored(a, old, NoItem, "NOT_STORED")
    BY <1>8 DEF StoreConcat, n
  <2> HIDE DEF alloc, a, new
  <2>2. a \in StoreState /\ Unlisted(a)
    BY <1>7 DEF Advances, Sound
  <2>3. Stays(s, r.s, UsedIn(s))
    BY <1>1, <1>2, <1>3, <1>7, <2>1, <2>2, GetAndBack
  <2>4. r.ret = "NOT_STORED"
    BY <2>1, StoredRet
  <2> HIDE DEF r
  <2>5. Rejects(s, r, it, command, now)
    BY <2>3, <2>4 DEF Rejects, Looked, Concats
  <2> QED
    BY <1>1, <2>5 DEF r, g, got, k
<1>9. CASE g.cas[it] = g.cas[old] /\ new # NoItem
  <2>1. r = Stored(PutItem(c, old, new, now), old, new, "STORED")
    BY <1>9 DEF StoreConcat, n
  <2>2. new \in Chunk \ UsedIn(s) /\ new \notin UsedIn(g)
    BY <1>3, <1>7, <1>9 DEF UsedIn
  <2> HIDE DEF alloc, a, new
  <2>3. /\ Puts(s, r.s, new, UsedIn(s))
        /\ r.s.key[new] = s.key[it] /\ r.s.val[new] = Joined(s, old, it, command)
        /\ r.s.exptime[new] = s.exptime[old]
        /\ r.s.refcount[new] = s.refcount[new]
    BY <1>1, <1>7, <2>1, <2>2, ConcatPuts DEF k
  <2>4. r.ret = "STORED"
    BY <2>1, StoredRet
  <2> HIDE DEF r
  <2>5. Joins(s, r, it, command, now)
    BY <1>5, <1>9, <2>2, <2>3, <2>4 DEF Joins, old, k
  <2> QED
    BY <1>1, <2>5 DEF r, g, got, k
<1> QED
  BY <1>6, <1>8, <1>9

\* store_item after a look-up that found nothing.
LEMMA MissEffect ==
  ASSUME NEW s, Sound(s), ChainOK(s), InChain(s) \subseteq UsedIn(s),
         NEW it \in UsedIn(s), it \notin InChain(s), s.key[it] \in Key, NEW now \in Nat,
         NEW command \in StoreCmd, NEW os, ~Live(s, s.key[it], now)
  PROVE  LET r == do_store_item(s, it, command, now, os)
         IN  \/ Rejects(s, r, it, command, now) \/ Dies(s, r, it, command, now)
             \/ Stores(s, r, it, command, now)
<1> DEFINE k == s.key[it]
           got == do_item_get(s, k, now)
           r == do_store_item(s, it, command, now, os)
<1>1. /\ got.ret = NoItem /\ Clears(s, got.s, k, Chunk)
  BY GetMiss DEF Sound
<1>2. it \in Chunk /\ s \in StoreState /\ Unlisted(s) /\ UsedIn(s) \subseteq Chunk
  BY DEF UsedIn, Sound
<1>3. Clears(s, got.s, k, UsedIn(s))
  BY <1>1, <1>2, MovesLess DEF Clears
<1>4. CASE command \in {"replace", "append", "prepend"}
  <2>1. r = Stored(got.s, NoItem, NoItem, "NOT_STORED")
    BY <1>1, <1>4 DEF do_store_item
  <2>2. r.s = got.s /\ r.ret = "NOT_STORED"
    BY <2>1, StoredNothing, StoredRet
  <2> HIDE DEF r
  <2> QED
    BY <1>3, <1>4, <2>2 DEF Rejects, Looked, MayStore, r
<1>5. CASE command = "cas"
  <2>1. r = [s |-> got.s, ret |-> "SEGV"]
    BY <1>1, <1>5 DEF do_store_item, StoreCas
  <2> HIDE DEF r
  <2> QED
    BY <1>3, <1>5, <2>1 DEF Dies, r
<1>6. CASE command \in {"set", "add"}
  <2>1. r = Stored(PutItem(got.s, got.ret, it, now), got.ret, NoItem, "STORED")
    BY <1>1, <1>6 DEF do_store_item
  <2>2. Outcome(s, r.s, it, Chunk \ {it})
    BY <1>2, <2>1, PlainOutcome
  <2>3. r.ret = "STORED"
    BY <2>1, StoredRet
  <2> HIDE DEF r
  <2>4. Outcome(s, r.s, it, UsedIn(s) \ {it})
    BY <1>2, <2>2, OutcomeLess
  <2> QED
    BY <1>6, <2>3, <2>4 DEF Stores, MayStore, Concats, r
<1> QED
  BY <1>4, <1>5, <1>6 DEF StoreCmd

\* store_item after a look-up that found an item.
LEMMA HitEffect ==
  ASSUME NEW s, Sound(s), ChainOK(s), InChain(s) \subseteq UsedIn(s),
         NEW it \in UsedIn(s), it \notin InChain(s), s.key[it] \in Key, NEW now \in Nat,
         NEW command \in StoreCmd, NEW os, Live(s, s.key[it], now)
  PROVE  LET r == do_store_item(s, it, command, now, os)
         IN  \/ Rejects(s, r, it, command, now)
             \/ Stores(s, r, it, command, now) \/ Joins(s, r, it, command, now)
<1> DEFINE k == s.key[it]
           got == do_item_get(s, k, now)
           g == got.s
           old == hash_find(s, k)
           r == do_store_item(s, it, command, now, os)
<1>1. /\ old \in InChain(s) /\ old \in Chunk /\ s.key[old] = k /\ got.ret = old
      /\ Touched(s, g, old, Incr(s.refcount[old]))
  BY GetHit DEF Sound
<1>2. /\ it \in Chunk /\ s \in StoreState /\ Unlisted(s) /\ UsedIn(s) \subseteq Chunk
      /\ old # NoItem
  BY <1>1, NoItemNotChunk DEF UsedIn, Sound
<1>3. g \in StoreState /\ Unlisted(g) /\ SameData(s, g)
  BY <1>1 DEF Touched, Keeps
<1>4. CASE command = "add"
  <2> DEFINE u == do_item_update(g, old, now)
  <2>1. r = Stored(u, old, NoItem, "NOT_STORED")
    BY <1>1, <1>2, <1>4 DEF do_store_item
  <2> HIDE DEF got, g
  <2>2. u \in StoreState /\ Unlisted(u) /\ SameItems(g, u)
    BY <1>1, <1>3, DoItemUpdateKeeps, UpdateItems DEF Keeps
  <2> HIDE DEF u
  <2>3. Stays(s, r.s, UsedIn(s))
    BY <1>1, <1>2, <2>1, <2>2, GetAndBack DEF SameItems
  <2>4. r.ret = "NOT_STORED"
    BY <2>1, StoredRet
  <2> HIDE DEF r
  <2> QED
    BY <1>4, <2>3, <2>4 DEF Rejects, Looked, MayStore, r
<1>5. CASE command \in {"append", "prepend"}
  <2>1. r = StoreConcat(got.s, got.ret, it, command, now, os)
    BY <1>1, <1>2, <1>5 DEF do_store_item
  <2> QED
    BY <1>5, <2>1, ConcatEffect DEF Concats
<1>6. CASE command = "cas" /\ g.cas[it] # g.cas[old]
  <2>1. r = Stored(g, old, NoItem, "EXISTS")
    BY <1>1, <1>2, <1>6 DEF do_store_item, StoreCas
  <2> HIDE DEF got, g
  <2>2. Stays(s, r.s, UsedIn(s))
    BY <1>1, <1>2, <1>3, <2>1, GetAndBack DEF SameData
  <2>3. r.ret = "EXISTS"
    BY <2>1, StoredRet
  <2>4. s.cas[it] # s.cas[old]
    BY <1>3, <1>6 DEF SameData
  <2> HIDE DEF r
  <2> QED
    BY <1>6, <2>2, <2>3, <2>4 DEF Rejects, Looked, MayStore, r
<1>7. CASE command = "cas" /\ g.cas[it] = g.cas[old]
  <2>1. r = Stored(do_item_replace(got.s, got.ret, it, now), got.ret, NoItem, "STORED")
    BY <1>1, <1>2, <1>7 DEF do_store_item, StoreCas
  <2>2. Outcome(s, r.s, it, Chunk)
    BY <1>2, <2>1, CasOutcome
  <2>3. r.ret = "STORED"
    BY <2>1, StoredRet
  <2> HIDE DEF r, got, g
  <2>4. Outcome(s, r.s, it, UsedIn(s) \ {it})
    BY <1>2, <2>2, OutcomeLess
  <2>5. s.cas[it] = s.cas[old]
    BY <1>3, <1>7 DEF SameData
  <2> QED
    BY <1>7, <2>3, <2>4, <2>5 DEF Stores, MayStore, Concats, r
<1>8. CASE command \in {"set", "replace"}
  <2>1. r = Stored(PutItem(got.s, got.ret, it, now), got.ret, NoItem, "STORED")
    BY <1>1, <1>2, <1>8 DEF do_store_item
  <2>2. Outcome(s, r.s, it, Chunk \ {it})
    BY <1>2, <2>1, PlainOutcome
  <2>3. r.ret = "STORED"
    BY <2>1, StoredRet
  <2> HIDE DEF r
  <2>4. Outcome(s, r.s, it, UsedIn(s) \ {it})
    BY <1>2, <2>2, OutcomeLess
  <2> QED
    BY <1>8, <2>3, <2>4 DEF Stores, MayStore, Concats, r
<1> QED
  BY <1>4, <1>5, <1>6, <1>7, <1>8 DEF StoreCmd

\* What store_item does, and when.
LEMMA StoreEffect ==
  ASSUME NEW s, Sound(s), ChainOK(s), InChain(s) \subseteq UsedIn(s),
         NEW it \in UsedIn(s), it \notin InChain(s), s.key[it] \in Key, NEW now \in Nat,
         NEW command \in StoreCmd, NEW os
  PROVE  LET r == do_store_item(s, it, command, now, os)
         IN  \/ Rejects(s, r, it, command, now) \/ Dies(s, r, it, command, now)
             \/ Stores(s, r, it, command, now) \/ Joins(s, r, it, command, now)
  BY MissEffect, HitEffect

=============================================================================
