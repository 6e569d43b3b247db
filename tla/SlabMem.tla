------------------------------ MODULE SlabMem ------------------------------
(***************************************************************************)
(* The slab allocator of slab.cpp as functions on a state record s.        *)
(*                                                                         *)
(* Memory is cut into slab classes; class id holds chunks of Size[id]      *)
(* bytes.  A class grows by one slab (page) of PerSlab[id] chunks at a     *)
(* time, until mem_limit is reached.  Free chunks of a class form the LIFO *)
(* list slots[id].  A chunk is named by its class, its page and its place  *)
(* in the page; its header (struct base_item) lives in s.flag and          *)
(* s.slabs_clsid.  Every operation returns the new record, or a record     *)
(* [s |-> new state, ret |-> return value].                                *)
(***************************************************************************)
EXTENDS Integers, Sequences

CONSTANTS
  PowerLargest,   \* power_largest: the number of slab classes
  Size,           \* Size[id]: slabclass::size
  PerSlab,        \* PerSlab[id]: slabclass::perslab
  MemLimit,       \* mem_limit; 0 means no limit
  PreallocBytes,  \* bytes that slabs_preallocate obtains in the constructor
  InitialList,    \* first length of slab_list (16 in grow_slab_list)
  MaxSlabs,       \* bound: malloc gives no class more pages than this
  NoItem          \* the null pointer

SlabClass == 1..PowerLargest

\* Bits of base_item::item_flag.
ItemFlag == {"LINKED", "CAS", "SLABBED", "FETCHED"}

Page(id, p) == {<<id, p, i>> : i \in 1..PerSlab[id]}

Chunk == UNION {Page(id, p) : id \in SlabClass, p \in 1..MaxSlabs}

SlabLen(id) == Size[id] * PerSlab[id]

\* SumLen[n]: bytes of one slab of each of the classes 1..n.
SumLen[n \in 0..PowerLargest] ==
  IF n = 0 THEN 0 ELSE SumLen[n - 1] + SlabLen(n)

ASSUME SlabAssumption ==
  /\ PowerLargest \in Nat \ {0}
  /\ Size \in [SlabClass -> Nat \ {0}]
  /\ PerSlab \in [SlabClass -> Nat \ {0}]
  /\ \A i, j \in SlabClass : i < j => Size[i] < Size[j]
  /\ MemLimit \in Nat
  /\ InitialList \in Nat \ {0}
  /\ MaxSlabs \in Nat \ {0}
  /\ NoItem \notin Chunk

ASSUME PreallocAssumption ==
  /\ PreallocBytes = SumLen[PowerLargest - 1]
  /\ PreallocBytes \in Nat

-----------------------------------------------------------------------------
\* Mutant: the chunks are numbered from 0.
MutFreshSlots(id, p) == [i \in 1..PerSlab[id] |-> <<id, p, PerSlab[id] - i>>]

\* split_slab_page_into_freelist pushes the chunks of a page one by one, so
\* the last one ends up in front.
FreshSlots(id, p) == [i \in 1..PerSlab[id] |-> <<id, p, PerSlab[id] + 1 - i>>]

\* State after the constructor: slabs_preallocate gives every class below
\* the largest one slab, whatever mem_limit says, for its check asks for
\* p.slabs > 0.
Preallocated(id) == id < PowerLargest

SlabInit == [
  slots        |-> [id \in SlabClass |-> IF Preallocated(id) THEN FreshSlots(id, 1) ELSE <<>>],
  sl_curr      |-> [id \in SlabClass |-> IF Preallocated(id) THEN PerSlab[id] ELSE 0],
  slabs        |-> [id \in SlabClass |-> IF Preallocated(id) THEN 1 ELSE 0],
  list_size    |-> [id \in SlabClass |-> IF Preallocated(id) THEN InitialList ELSE 0],
  requested    |-> [id \in SlabClass |-> 0],
  mem_malloced |-> PreallocBytes,
  flag         |-> [it \in Chunk |-> IF it[2] = 1 /\ Preallocated(it[1]) THEN {"SLABBED"} ELSE {}],
  slabs_clsid  |-> [it \in Chunk |-> 0]]

\* The smallest class whose chunks hold n bytes, 0 if there is none.
slabs_clsid(n) ==
  LET fits == {id \in SlabClass : n <= Size[id]}
  IN  IF n = 0 \/ fits = {} THEN 0
      ELSE CHOOSE id \in fits : \A j \in fits : id <= j

\* Mutant: an empty list is doubled as well, and stays empty.
MutGrowList(s, id, os) ==
  IF s.slabs[id] # s.list_size[id]
  THEN [s |-> s, ret |-> TRUE]
  ELSE IF ~os.realloc
       THEN [s |-> s, ret |-> FALSE]
       ELSE [s |-> [s EXCEPT !.list_size[id] = 2 * @], ret |-> TRUE]

\* os.realloc and os.malloc say whether the C library grants the request.
grow_slab_list(s, id, os) ==
  IF s.slabs[id] # s.list_size[id]
  THEN [s |-> s, ret |-> TRUE]
  ELSE IF ~os.realloc
       THEN [s |-> s, ret |-> FALSE]
       ELSE [s   |-> [s EXCEPT !.list_size[id] = IF @ = 0 THEN InitialList ELSE 2 * @],
             ret |-> TRUE]

\* Mutant: the new slab is not counted against the limit.
MutOverLimit(s, id) ==
  /\ MemLimit # 0
  /\ s.mem_malloced > MemLimit
  /\ s.slabs[id] > 0

OverLimit(s, id) ==
  /\ MemLimit # 0
  /\ s.mem_malloced + SlabLen(id) > MemLimit
  /\ s.slabs[id] > 0

do_slabs_newslab(s, id, os) ==
  LET grown == grow_slab_list(s, id, os)
      p     == s.slabs[id] + 1
  IN  IF OverLimit(s, id) THEN [s |-> s, ret |-> FALSE]
      ELSE IF ~grown.ret \/ ~os.malloc \/ p > MaxSlabs
           THEN [s |-> grown.s, ret |-> FALSE]
           ELSE [s   |-> [grown.s EXCEPT
                            !.slots[id]    = FreshSlots(id, p) \o @,
                            !.sl_curr[id]  = @ + PerSlab[id],
                            !.slabs[id]    = p,
                            !.mem_malloced = @ + SlabLen(id),
                            !.flag         = [it \in Chunk |-> IF it \in Page(id, p)
                                                               THEN {"SLABBED"} ELSE @[it]]],
                 ret |-> TRUE]

\* Mutant: the chunk stays on the free list.
MutAllocKeeps(s, n, id, os) ==
  LET grown == IF s.sl_curr[id] # 0 THEN s ELSE do_slabs_newslab(s, id, os).s
  IN  IF grown.sl_curr[id] = 0
      THEN [s |-> grown, ret |-> NoItem]
      ELSE [s |-> [grown EXCEPT !.requested[id] = @ + n], ret |-> Head(grown.slots[id])]

\* Mutant: the header of the chunk names its class, as in memcached.
MutAllocClass(s, n, id, os) ==
  LET grown == IF s.sl_curr[id] # 0 THEN s ELSE do_slabs_newslab(s, id, os).s
      it    == Head(grown.slots[id])
  IN  IF grown.sl_curr[id] = 0
      THEN [s |-> grown, ret |-> NoItem]
      ELSE [s   |-> [grown EXCEPT !.slots[id]        = Tail(@),
                                  !.sl_curr[id]      = @ - 1,
                                  !.requested[id]    = @ + n,
                                  !.slabs_clsid[it]  = id],
            ret |-> it]

\* Takes the first chunk of the free list, after growing the class if the
\* list is empty.  ITEM_SLABBED is left set in the chunk that is handed out.
do_slabs_alloc(s, n, id, os) ==
  LET grown == IF s.sl_curr[id] # 0 THEN s ELSE do_slabs_newslab(s, id, os).s
  IN  IF grown.sl_curr[id] = 0
      THEN [s |-> grown, ret |-> NoItem]
      ELSE [s   |-> [grown EXCEPT !.slots[id]     = Tail(@),
                                  !.sl_curr[id]   = @ - 1,
                                  !.requested[id] = @ + n],
            ret |-> Head(grown.slots[id])]

\* Mutant: the count of the free list is not kept.
MutFreeUncounted(s, it, n, id) ==
  IF s.slabs_clsid[it] # 0 \/ id \notin SlabClass
  THEN s
  ELSE [s EXCEPT !.flag[it]      = @ \cup {"SLABBED"},
                 !.slots[id]     = <<it>> \o @,
                 !.requested[id] = @ - n]

\* Puts a chunk back on the free list of class id, unless its header still
\* names a class or id names none.
do_slabs_free(s, it, n, id) ==
  IF s.slabs_clsid[it] # 0 \/ id \notin SlabClass
  THEN s
  ELSE [s EXCEPT !.flag[it]      = @ \cup {"SLABBED"},
                 !.slots[id]     = <<it>> \o @,
                 !.sl_curr[id]   = @ + 1,
                 !.requested[id] = @ - n]

\* Mutant: the two sizes are swapped.
MutAdjust(s, id, old, ntotal) ==
  [s EXCEPT !.requested[id] = @ + old - ntotal]

slabs_adjust_mem_requested(s, id, old, ntotal) ==
  [s EXCEPT !.requested[id] = @ - old + ntotal]

=============================================================================
