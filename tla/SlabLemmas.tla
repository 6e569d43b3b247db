------------------------------ MODULE SlabLemmas ------------------------------
(***************************************************************************)
(* Facts about chunks, pages and free lists that the proofs about Slab and *)
(* about Store share.                                                      *)
(***************************************************************************)
EXTENDS SlabMem, SequencesExt, TLAPS, SequenceTheorems, WellFoundedInduction

\* The null pointer is no chunk.
LEMMA NoItemNotChunk == NoItem \notin Chunk
  BY SlabAssumption

\* A chunk names its class and its page.
LEMMA ChunkParts ==
  /\ \A it \in Chunk : it[1] \in SlabClass /\ it[2] \in 1..MaxSlabs
  /\ \A id \in SlabClass, p \in 1..MaxSlabs :
       /\ Page(id, p) \subseteq Chunk
       /\ \A it \in Page(id, p) : it[1] = id /\ it[2] = p
<1>1. ASSUME NEW id \in SlabClass, NEW p \in 1..MaxSlabs
      PROVE  /\ Page(id, p) \subseteq Chunk
             /\ \A it \in Page(id, p) : it[1] = id /\ it[2] = p
  <2>1. Page(id, p) \subseteq Chunk
    BY DEF Chunk
  <2>2. ASSUME NEW it \in Page(id, p)
        PROVE  it[1] = id /\ it[2] = p
    <3>1. PICK i \in 1..PerSlab[id] : it = <<id, p, i>>
      BY DEF Page
    <3> QED
      BY <3>1
  <2> QED
    BY <2>1, <2>2
<1>2. \A it \in Chunk : \E id \in SlabClass, p \in 1..MaxSlabs : it \in Page(id, p)
  BY DEF Chunk
<1> QED
  BY <1>1, <1>2

\* A set of natural numbers that is not empty has a least element.
LEMMA MinNat ==
  ASSUME NEW S, S \subseteq Nat, S # {}
  PROVE  \E i \in S : \A j \in S : i <= j
<1> DEFINE R == OpToRel(<, Nat)
<1>1. \E x \in S : \A y \in S : ~(<<y, x>> \in R)
  <2>1. IsWellFoundedOn(R, Nat)
    BY NatLessThanWellFounded
  <2> QED
    BY <2>1, WFMin
<1>2. \A x, y \in Nat : ~(<<y, x>> \in R) => x <= y
  BY DEF OpToRel
<1> QED
  BY <1>1, <1>2

\* slabs_clsid returns a class, or 0.
LEMMA SlabsClsidType ==
  ASSUME NEW n \in Nat
  PROVE  slabs_clsid(n) \in SlabClass \cup {0}
<1> DEFINE fits == {id \in SlabClass : n <= Size[id]}
<1>1. fits \subseteq Nat
  BY SlabAssumption DEF SlabClass
<1>2. CASE fits # {}
  <2>1. \E id \in fits : \A j \in fits : id <= j
    BY <1>1, <1>2, MinNat
  <2>2. (CHOOSE id \in fits : \A j \in fits : id <= j) \in fits
    BY <2>1
  <2> QED
    BY <2>2 DEF slabs_clsid
<1> QED
  BY <1>2 DEF slabs_clsid

\* Putting an element in front of a sequence.
LEMMA PushFront ==
  ASSUME NEW S, NEW x \in S, NEW c \in Seq(S)
  PROVE  /\ <<x>> \o c \in Seq(S)
         /\ Len(<<x>> \o c) = Len(c) + 1
         /\ Range(<<x>> \o c) = {x} \cup Range(c)
<1>1. <<x>> \in Seq(S) /\ Len(<<x>>) = 1 /\ Range(<<x>>) = {x} /\ Len(c) \in Nat
  <2>1. <<x>> \in Seq(S) /\ Len(<<x>>) = 1 /\ DOMAIN <<x>> = {1} /\ <<x>>[1] = x
    OBVIOUS
  <2>2. Len(c) \in Nat
    BY LenProperties
  <2> QED
    BY <2>1, <2>2 DEF Range
<1>2. <<x>> \o c \in Seq(S) /\ Len(<<x>> \o c) = Len(<<x>>) + Len(c)
  BY <1>1, ConcatProperties
<1>3. Range(<<x>> \o c) = Range(<<x>>) \cup Range(c)
  <2> DEFINE front == <<x>>
  <2>1. front \in Seq(S)
    BY <1>1
  <2> HIDE DEF front
  <2>2. Range(front \o c) = Range(front) \cup Range(c)
    BY <2>1, RangeConcatenation
  <2> QED
    BY <2>2 DEF front
<1> QED
  BY <1>1, <1>2, <1>3

\* The places of a sequence with an element put in front.
LEMMA PushPlaces ==
  ASSUME NEW S, NEW x \in S, NEW c \in Seq(S)
  PROVE  /\ Len(c) \in Nat /\ DOMAIN c = 1..Len(c) /\ DOMAIN (<<x>> \o c) = 1..(Len(c) + 1)
         /\ \A i \in 1..(Len(c) + 1) : (<<x>> \o c)[i] = IF i <= 1 THEN x ELSE c[i - 1]
<1> DEFINE d == <<x>> \o c
<1>1. <<x>> \in Seq(S) /\ Len(<<x>>) = 1 /\ <<x>>[1] = x
  OBVIOUS
<1>2. d \in Seq(S) /\ Len(d) = Len(c) + 1
  BY PushFront
<1>3. Len(c) \in Nat /\ DOMAIN c = 1..Len(c) /\ DOMAIN d = 1..Len(d)
  BY <1>2, LenProperties
<1>4. \A i \in 1..(Len(<<x>>) + Len(c)) : d[i] = IF i <= Len(<<x>>) THEN <<x>>[i] ELSE c[i - Len(<<x>>)]
  BY <1>1, ConcatProperties
<1>5. ASSUME NEW i \in 1..(Len(c) + 1)
      PROVE  d[i] = IF i <= 1 THEN x ELSE c[i - 1]
  <2> HIDE DEF d
  <2>1. i \in 1..(Len(<<x>>) + Len(c))
    BY <1>1, <1>3
  <2>2. d[i] = IF i <= Len(<<x>>) THEN <<x>>[i] ELSE c[i - Len(<<x>>)]
    BY <1>4, <2>1
  <2>3. i <= 1 => i = 1
    OBVIOUS
  <2> QED
    BY <1>1, <2>2, <2>3
<1> QED
  BY <1>2, <1>3, <1>5

\* Putting a new element in front of a list without repetitions.
LEMMA PushInjective ==
  ASSUME NEW S, NEW x \in S, NEW q \in Seq(S), IsInjective(q), x \notin Range(q)
  PROVE  IsInjective(<<x>> \o q)
<1> DEFINE c == <<x>> \o q
<1>1. Len(q) \in Nat /\ DOMAIN q = 1..Len(q) /\ <<x>> \in Seq(S) /\ Len(<<x>>) = 1
  BY LenProperties
<1>2. c \in Seq(S) /\ Len(c) = Len(q) + 1
  BY PushFront
<1>3. \A i \in 1..(Len(q) + 1) : c[i] = IF i <= 1 THEN x ELSE q[i - 1]
  BY <1>1, ConcatProperties
<1>4. DOMAIN c = 1..(Len(q) + 1)
  BY <1>2, LenProperties
<1> HIDE DEF c
<1>5. \A i, j \in 1..Len(q) : q[i] = q[j] => i = j
  BY <1>1 DEF IsInjective
<1>6. \A i \in 1..Len(q) : q[i] # x
  BY <1>1 DEF Range
<1>7. ASSUME NEW a \in 1..(Len(q) + 1), NEW b \in 1..(Len(q) + 1), c[a] = c[b]
      PROVE  a = b
  <2>1. CASE a <= 1 /\ b <= 1
    BY <1>1, <2>1
  <2>2. CASE ~(a <= 1) /\ ~(b <= 1)
    <3>1. a - 1 \in 1..Len(q) /\ b - 1 \in 1..Len(q)
      BY <1>1, <2>2
    <3>2. a - 1 = b - 1
      BY <1>3, <1>5, <1>7, <2>2, <3>1
    <3> QED
      BY <3>2
  <2>3. CASE a <= 1 /\ ~(b <= 1)
    <3>1. b - 1 \in 1..Len(q)
      BY <1>1, <2>3
    <3> QED
      BY <1>3, <1>6, <1>7, <2>3, <3>1
  <2>4. CASE ~(a <= 1) /\ b <= 1
    <3>1. a - 1 \in 1..Len(q)
      BY <1>1, <2>4
    <3> QED
      BY <1>3, <1>6, <1>7, <2>4, <3>1
  <2> QED
    BY <2>1, <2>2, <2>3, <2>4
<1>8. IsInjective(c)
  BY <1>4, <1>7 DEF IsInjective
<1> QED
  BY <1>8 DEF c

\* Taking the head off a list without repetitions.
LEMMA PopFront ==
  ASSUME NEW S, NEW q \in Seq(S), q # <<>>, IsInjective(q)
  PROVE  /\ Head(q) \in S /\ Tail(q) \in Seq(S)
         /\ Len(Tail(q)) = Len(q) - 1
         /\ IsInjective(Tail(q))
         /\ Head(q) \in Range(q)
         /\ Range(Tail(q)) \subseteq Range(q) \ {Head(q)}
<1>1. /\ Head(q) \in S /\ Tail(q) \in Seq(S)
      /\ Len(q) \in Nat /\ Len(q) >= 1 /\ Len(Tail(q)) = Len(q) - 1
      /\ Head(q) = q[1]
      /\ \A i \in 1..Len(Tail(q)) : Tail(q)[i] = q[i + 1]
  BY HeadTailProperties, EmptySeq, LenProperties
<1>2. DOMAIN q = 1..Len(q) /\ DOMAIN Tail(q) = 1..(Len(q) - 1)
  BY <1>1, LenProperties
<1>3. \A i, j \in 1..Len(q) : q[i] = q[j] => i = j
  BY <1>2 DEF IsInjective
<1>4. IsInjective(Tail(q))
  <2>1. ASSUME NEW i \in 1..(Len(q) - 1), NEW j \in 1..(Len(q) - 1), Tail(q)[i] = Tail(q)[j]
        PROVE  i = j
    <3>1. q[i + 1] = q[j + 1] /\ i + 1 \in 1..Len(q) /\ j + 1 \in 1..Len(q)
      BY <1>1, <2>1
    <3>2. i + 1 = j + 1
      BY <1>3, <3>1
    <3> QED
      BY <3>2
  <2> QED
    BY <1>2, <2>1 DEF IsInjective
<1>5. Head(q) \in Range(q)
  BY <1>1, <1>2 DEF Range
<1>6. ASSUME NEW x \in Range(Tail(q))
      PROVE  x \in Range(q) \ {Head(q)}
  <2>1. PICK i \in 1..(Len(q) - 1) : x = Tail(q)[i]
    BY <1>2 DEF Range
  <2>2. x = q[i + 1] /\ i + 1 \in 1..Len(q) /\ 1 \in 1..Len(q) /\ i + 1 # 1
    BY <1>1, <2>1
  <2>3. x # q[1]
    BY <1>3, <2>2
  <2> QED
    BY <1>1, <1>2, <2>2, <2>3 DEF Range
<1> QED
  BY <1>1, <1>4, <1>5, <1>6

\* Every element of a sequence is its head or in its tail.
LEMMA HeadOrTail ==
  ASSUME NEW S, NEW q \in Seq(S), q # <<>>
  PROVE  Range(q) \subseteq Range(Tail(q)) \cup {Head(q)}
<1>1. /\ Len(q) \in Nat /\ Tail(q) \in Seq(S) /\ Len(Tail(q)) = Len(q) - 1
      /\ Head(q) = q[1]
      /\ \A i \in 1..Len(Tail(q)) : Tail(q)[i] = q[i + 1]
  BY HeadTailProperties, EmptySeq, LenProperties
<1>2. DOMAIN q = 1..Len(q) /\ DOMAIN Tail(q) = 1..(Len(q) - 1)
  BY <1>1, LenProperties
<1> SUFFICES ASSUME NEW i \in 1..Len(q), i # 1
             PROVE  q[i] \in Range(Tail(q))
  BY <1>1, <1>2 DEF Range
<1>3. i - 1 \in 1..(Len(q) - 1) /\ (i - 1) + 1 = i
  BY <1>1
<1>4. Tail(q)[i - 1] = q[i]
  BY <1>1, <1>3
<1> QED
  BY <1>2, <1>3, <1>4 DEF Range

\* split_slab_page_into_freelist puts each chunk of the page on the list once.
LEMMA FreshSlotsType ==
  ASSUME NEW id \in SlabClass, NEW p \in 1..MaxSlabs
  PROVE  /\ FreshSlots(id, p) \in Seq(Chunk)
         /\ Len(FreshSlots(id, p)) = PerSlab[id]
         /\ IsInjective(FreshSlots(id, p))
         /\ Range(FreshSlots(id, p)) = Page(id, p)
<1> DEFINE n == PerSlab[id]
           f == FreshSlots(id, p)
<1>1. n \in Nat
  BY SlabAssumption
<1>2. f = [i \in 1..n |-> <<id, p, n + 1 - i>>]
  BY DEF FreshSlots
<1>3. \A i \in 1..n : <<id, p, n + 1 - i>> \in Page(id, p)
  <2> SUFFICES ASSUME NEW i \in 1..n
               PROVE  <<id, p, n + 1 - i>> \in Page(id, p)
    OBVIOUS
  <2>1. n + 1 - i \in 1..n
    BY <1>1
  <2> QED
    BY <2>1 DEF Page
<1>4. Page(id, p) \subseteq Chunk
  BY DEF Chunk
<1>5. f \in [1..n -> Chunk]
  BY <1>2, <1>3, <1>4
<1>6. f \in Seq(Chunk) /\ Len(f) = n
  BY <1>1, <1>5
<1>7. IsInjective(f)
  <2>1. ASSUME NEW a \in 1..n, NEW b \in 1..n, f[a] = f[b]
        PROVE  a = b
    <3>1. n + 1 - a = n + 1 - b
      BY <1>2, <2>1
    <3> QED
      BY <1>1, <3>1
  <2> QED
    BY <1>2, <2>1 DEF IsInjective
<1>8. Range(f) = Page(id, p)
  <2>1. Range(f) \subseteq Page(id, p)
    BY <1>2, <1>3 DEF Range
  <2>2. ASSUME NEW x \in Page(id, p)
        PROVE  x \in Range(f)
    <3>1. PICK j \in 1..n : x = <<id, p, j>>
      BY DEF Page
    <3>2. n + 1 - j \in 1..n /\ n + 1 - (n + 1 - j) = j
      BY <1>1
    <3> QED
      BY <1>2, <3>1, <3>2 DEF Range
  <2> QED
    BY <2>1, <2>2
<1> QED
  BY <1>6, <1>7, <1>8

=============================================================================
