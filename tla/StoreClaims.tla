----------------------------- MODULE StoreClaims -----------------------------
(***************************************************************************)
(* What comments of slab.cpp say of the item store, stated over Store.     *)
(* The program does not do it; each is the property of a run that exhibits *)
(* the difference.                                                         *)
(***************************************************************************)
EXTENDS Store

Linked == {it \in Chunk : "LINKED" \in store.flag[it]}

\* slab.cpp:438: unlink takes an item, and nothing else, out of the hash
\* table: an item that is still linked can be found in its chain.
UnlinkTakesOneItem == Linked \subseteq Chained

\* slab.cpp:427 and 680-683: remove gives the chunk of an item back to the free
\* list of the allocator when its last reference goes.  An item that had been
\* linked has a cas id (those of the run's clients are 0).
RemovedIsFreed ==
  \A it \in InUse \ (Held \cup Chained) :
    store.cas[it] # 0 => store.refcount[it] # 0

=============================================================================
