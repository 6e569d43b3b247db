-------------------------------- MODULE Slab --------------------------------
(***************************************************************************)
(* The allocator as a component: class Slab of slab.h with the public      *)
(* operations slabs_alloc, slabs_free and slabs_adjust_mem_requested, each *)
(* one a critical section of slabs_lock and therefore one action.  lent    *)
(* remembers what callers hold: the size they asked for, or 0.  A caller   *)
(* gives back, or re-purposes, only a chunk it holds, naming the class and *)
(* size it was given; that is the contract of item_free and of the reuse   *)
(* branches of do_item_alloc.                                              *)
(***************************************************************************)
EXTENDS SlabMem, SequencesExt

CONSTANT Requests   \* sizes callers ask for

ASSUME RequestsAssumption == Requests \subseteq Nat \ {0}

VARIABLES slab, lent

vars == <<slab, lent>>

\* Answers of realloc and malloc.
OsAnswer == [realloc : BOOLEAN, malloc : BOOLEAN]

ClassOf(it) == it[1]

Lent == {it \in Chunk : lent[it] # 0}

-----------------------------------------------------------------------------
Init ==
  /\ slab = SlabInit
  /\ lent = [it \in Chunk |-> 0]

\* do_slabs_alloc under slabs_lock, with the class that do_item_alloc picks.
slabs_alloc(n) ==
  \E os \in OsAnswer :
    LET id == slabs_clsid(n)
        r  == do_slabs_alloc(slab, n, id, os)
    IN  /\ id # 0
        /\ slab' = r.s
        /\ lent' = IF r.ret = NoItem THEN lent ELSE [lent EXCEPT ![r.ret] = n]

\* do_slabs_free under slabs_lock.
slabs_free(it) ==
  /\ lent[it] # 0
  /\ slab' = do_slabs_free(slab, it, lent[it], ClassOf(it))
  /\ lent' = [lent EXCEPT ![it] = 0]

\* A chunk in use is given to another request of the same class.
adjust_requested(it, n) ==
  /\ lent[it] # 0
  /\ slabs_clsid(n) = ClassOf(it)
  /\ slab' = slabs_adjust_mem_requested(slab, ClassOf(it), lent[it], n)
  /\ lent' = [lent EXCEPT ![it] = n]

Next ==
  \/ \E n \in Requests : slabs_alloc(n)
  \/ \E it \in Chunk : slabs_free(it)
  \/ \E it \in Chunk, n \in Requests : adjust_requested(it, n)

Spec == Init /\ [][Next]_vars

-----------------------------------------------------------------------------
(* Properties *)

SlabState == [
  slots        : [SlabClass -> Seq(Chunk)],
  sl_curr      : [SlabClass -> Nat],
  slabs        : [SlabClass -> 0..MaxSlabs],
  list_size    : [SlabClass -> Nat],
  requested    : [SlabClass -> Int],
  mem_malloced : Nat,
  flag         : [Chunk -> SUBSET ItemFlag],
  slabs_clsid  : [Chunk -> 0..PowerLargest]]

\* The allocator's counters and lists have their types.
TypeOK ==
  /\ slab \in SlabState
  /\ lent \in [Chunk -> Requests \cup {0}]

Free(id) == Range(slab.slots[id])

\* Chunks of the pages that class id has obtained.
Pages(id) == UNION {Page(id, p) : p \in 1..slab.slabs[id]}

\* Whatever order chunks are handed out, returned and pages added, each
\* chunk of an obtained page is either once on the free list of its class or
\* lent to one caller, and sl_curr, which do_slabs_alloc tests instead of
\* the list, counts the list.
PagesAccounted ==
  \A id \in SlabClass :
    /\ IsInjective(slab.slots[id])
    /\ slab.sl_curr[id] = Len(slab.slots[id])
    /\ Free(id) \cap Lent = {}
    /\ Free(id) \cup {it \in Lent : ClassOf(it) = id} = Pages(id)

LentBytes(id) == MapThenSumSet(LAMBDA it : lent[it], {it \in Lent : ClassOf(it) = id})

\* The counters are exact: requested is the sum of what callers of the class
\* asked for, through any sequence of allocations, adjustments and returns,
\* and mem_malloced, on which the limit is judged, counts every page once.
CountersExact ==
  /\ \A id \in SlabClass : slab.requested[id] = LentBytes(id)
  /\ slab.mem_malloced =
       MapThenSumSet(LAMBDA id : slab.slabs[id] * SlabLen(id), SlabClass)

AtLeast(m, n) == IF m < n THEN n ELSE m

\* do_slabs_newslab waives the limit for the first slab of a class.  All but
\* the largest class get theirs in the constructor, so memory goes past both
\* the limit and what was preallocated by one slab of the largest class at
\* most.
LimitOverrun ==
  MemLimit # 0 =>
    slab.mem_malloced <=
      AtLeast(PreallocBytes, MemLimit)
        + (IF slab.slabs[PowerLargest] > 0 THEN SlabLen(PowerLargest) ELSE 0)

\* slab_list has room for every page pointer, also after malloc failed for a
\* page whose entry grow_slab_list had already made room for.
ListRoom == \A id \in SlabClass : slab.slabs[id] <= slab.list_size[id]

=============================================================================
