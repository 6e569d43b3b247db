------------------------------ MODULE StoreMem ------------------------------
(***************************************************************************)
(* HashTable and LRU_list of slab.cpp as functions on the state record s   *)
(* of SlabMem, extended with the fields of the hash table, of the LRU      *)
(* lists and of the item headers (struct base_item).  Operators keep the   *)
(* names of the C++ functions and call each other in the order of the      *)
(* code; now is the value of current_time().                               *)
(*                                                                         *)
(* A bucket is the sequence of the items that h_next chains, head first.   *)
(* The LRU list of class clsid is kept as the code keeps it: head, tail,   *)
(* next and prev pointers, because item_unlink_q does not restore them to  *)
(* a well-formed list.                                                     *)
(***************************************************************************)
EXTENDS SlabMem, SequencesExt

CONSTANTS
  Key,             \* keys
  Bucket,          \* buckets of primary_hashtable
  Hash,            \* Hash[k]: the bucket of k (hash of the key, masked)
  Atom,            \* units of data; a value is a sequence of them
  Overhead,        \* sizeof(base_item) + nkey + 1, and 2 for the \r\n of the value
  UInt,            \* 2^32, the modulus of unsigned int
  UpdateInterval,  \* ITEM_UPDATE_INTERVAL
  NoKey            \* the key field of a chunk that was never used

ASSUME StoreAssumption ==
  /\ Hash \in [Key -> Bucket]
  /\ Overhead \in Nat \ {0}
  /\ UInt \in Nat \ {0, 1}
  /\ UpdateInterval \in Nat
  /\ NoKey \notin Key

\* heads, tails and sizes have an entry per class, and entry 0 exists too.
ListId == 0..PowerLargest

\* Chunks come zeroed from malloc and memset.
StoreInit == [
  slots        |-> SlabInit.slots,
  sl_curr      |-> SlabInit.sl_curr,
  slabs        |-> SlabInit.slabs,
  list_size    |-> SlabInit.list_size,
  requested    |-> SlabInit.requested,
  mem_malloced |-> SlabInit.mem_malloced,
  flag         |-> SlabInit.flag,
  slabs_clsid  |-> SlabInit.slabs_clsid,
  chain     |-> [b \in Bucket |-> <<>>],
  hashitems |-> 0,
  heads     |-> [id \in ListId |-> NoItem],
  tails     |-> [id \in ListId |-> NoItem],
  sizes     |-> [id \in ListId |-> 0],
  next      |-> [it \in Chunk |-> NoItem],
  prev      |-> [it \in Chunk |-> NoItem],
  key       |-> [it \in Chunk |-> NoKey],
  val       |-> [it \in Chunk |-> <<>>],
  nbytes    |-> [it \in Chunk |-> 0],
  exptime   |-> [it \in Chunk |-> 0],
  realtime  |-> [it \in Chunk |-> 0],
  cas       |-> [it \in Chunk |-> 0],
  refcount  |-> [it \in Chunk |-> 0],
  cas_id    |-> 0]

item_total(s, it) == Overhead + s.nbytes[it]

\* The assignment it->field = q behind the test if (it).
Point(field, it, q) == IF it = NoItem THEN field ELSE [field EXCEPT ![it] = q]

\* Mutant: the counter does not wrap around.
MutIncr(n) == n + 1

Incr(n) == (n + 1) % UInt
Decr(n) == (n + UInt - 1) % UInt

-----------------------------------------------------------------------------
(* HashTable *)

\* Places of key k in a chain.
KeyAt(s, k, c) == {i \in DOMAIN c : s.key[c[i]] = k}

First(S) == CHOOSE i \in S : \A j \in S : i <= j

hash_find(s, k) ==
  LET c  == s.chain[Hash[k]]
      at == KeyAt(s, k, c)
  IN  IF at = {} THEN NoItem ELSE c[First(at)]

hash_insert(s, it) ==
  [s EXCEPT !.chain[Hash[s.key[it]]] = <<it>> \o @,
            !.hashitems = @ + 1]

\* Mutant: a key further down the chain is not taken out.
MutDeleteHeadOnly(s, k) ==
  LET c == s.chain[Hash[k]]
  IN  IF c = <<>> \/ 1 \in KeyAt(s, k, c) THEN [s EXCEPT !.chain[Hash[k]] = <<>>] ELSE s

\* A key at the head of its bucket empties the whole bucket (p = 0); only a
\* key further down is taken out of the chain and counted.
hash_delete(s, k) ==
  LET c  == s.chain[Hash[k]]
      at == KeyAt(s, k, c)
  IN  IF c = <<>> \/ 1 \in at THEN [s EXCEPT !.chain[Hash[k]] = <<>>]
      ELSE IF at = {} THEN s
      ELSE [s EXCEPT !.chain[Hash[k]] = RemoveAt(c, First(at)),
                     !.hashitems = @ - 1]

-----------------------------------------------------------------------------
(* LRU lists *)

BadListItem(s, it) ==
  s.slabs_clsid[it] \notin ListId \/ "SLABBED" \in s.flag[it]

item_link_q(s, it) ==
  LET id   == s.slabs_clsid[it]
      head == s.heads[id]
      tail == s.tails[id]
  IN  IF BadListItem(s, it) \/ it = head \/ (head = NoItem) # (tail = NoItem)
      THEN s
      ELSE [s EXCEPT
              !.prev       = Point([@ EXCEPT ![it] = NoItem], head, it),
              !.next[it]   = head,
              !.heads[id]  = it,
              !.tails[id]  = IF tail = NoItem THEN it ELSE tail,
              !.sizes[id]  = Incr(@)]

\* Mutant: the predecessor keeps pointing at the removed item.
MutUnlinkQ(s, it) ==
  LET id == s.slabs_clsid[it]
      n  == s.next[it]
      p  == s.prev[it]
  IN  IF BadListItem(s, it) THEN s
      ELSE [s EXCEPT
              !.heads[id] = IF @ = it /\ p # NoItem THEN n ELSE @,
              !.tails[id] = IF @ = it /\ n # NoItem THEN p ELSE @,
              !.prev      = Point(@, n, p),
              !.sizes[id] = Decr(@)]

\* The head moves only if it has a predecessor and the tail only if it has a
\* successor; next[it] and prev[it] keep their values.
item_unlink_q(s, it) ==
  LET id    == s.slabs_clsid[it]
      n     == s.next[it]
      p     == s.prev[it]
  IN  IF BadListItem(s, it) THEN s
      ELSE [s EXCEPT
              !.heads[id] = IF @ = it /\ p # NoItem THEN n ELSE @,
              !.tails[id] = IF @ = it /\ n # NoItem THEN p ELSE @,
              !.prev      = Point(@, n, p),
              !.next      = Point(@, p, n),
              !.sizes[id] = Decr(@)]

-----------------------------------------------------------------------------
(* Items *)

\* slabs_free is called with the class the header named, after the header
\* has been cleared.
item_free(s, it) ==
  LET id == s.slabs_clsid[it]
  IN  IF /\ "LINKED" \notin s.flag[it]
         /\ it # s.heads[id]
         /\ it # s.tails[id]
         /\ s.refcount[it] = 0
      THEN do_slabs_free([s EXCEPT !.slabs_clsid[it] = 0], it, item_total(s, it), id)
      ELSE s

\* atomic_fetch_sub returns the old count: the item is freed if that was 0.
do_item_remove(s, it) ==
  LET dropped == [s EXCEPT !.refcount[it] = Decr(@)]
  IN  IF "SLABBED" \in s.flag[it] THEN s
      ELSE IF s.refcount[it] = 0 THEN item_free(dropped, it)
      ELSE dropped

do_item_unlink(s, it) ==
  LET cleared == [s EXCEPT !.flag[it] = @ \ {"LINKED"}]
      hidden  == hash_delete(cleared, s.key[it])
  IN  IF "LINKED" \notin s.flag[it] THEN s
      ELSE do_item_remove(item_unlink_q(hidden, it), it)

do_item_link(s, it, now) ==
  LET marked == [s EXCEPT !.flag[it]     = @ \cup {"LINKED"},
                          !.realtime[it] = now,
                          !.cas_id       = @ + 1,
                          !.cas[it]      = s.cas_id + 1]
      listed == item_link_q(hash_insert(marked, it), it)
  IN  IF s.flag[it] \cap {"LINKED", "SLABBED"} # {} THEN s
      ELSE [listed EXCEPT !.refcount[it] = Incr(@)]

do_item_update(s, it, now) ==
  IF /\ s.realtime[it] + UpdateInterval < now
     /\ "SLABBED" \notin s.flag[it]
     /\ "LINKED" \in s.flag[it]
  THEN item_link_q([item_unlink_q(s, it) EXCEPT !.realtime[it] = now], it)
  ELSE s

\* Mutant: the old item stays linked.
MutReplaceKeeps(s, it, new_it, now) ==
  IF "SLABBED" \in s.flag[it] THEN s ELSE do_item_link(s, new_it, now)

do_item_replace(s, it, new_it, now) ==
  IF "SLABBED" \in s.flag[it] THEN s
  ELSE do_item_link(do_item_unlink(s, it), new_it, now)

\* Mutant: an item lives one second longer.
MutExpired(s, it, now) == s.exptime[it] # 0 /\ s.exptime[it] < now

Expired(s, it, now) == s.exptime[it] # 0 /\ s.exptime[it] <= now

\* A found item gains a reference; one that has expired is unlinked, loses
\* that reference again and is not returned.
do_item_get(s, k, now) ==
  LET it     == hash_find(s, k)
      pinned == [s EXCEPT !.refcount[it] = Incr(@)]
  IN  IF it = NoItem THEN [s |-> s, ret |-> NoItem]
      ELSE IF Expired(s, it, now)
           THEN [s   |-> do_item_remove(do_item_unlink(pinned, it), it),
                 ret |-> NoItem]
           ELSE [s   |-> [pinned EXCEPT !.flag[it] = @ \cup {"FETCHED"}],
                 ret |-> it]

\* The free list runs through the headers: a chunk that is taken off it
\* still points at the one that followed.
Detached(s, it, id) ==
  [s EXCEPT !.next[it] = IF s.slots[id] = <<>> THEN NoItem ELSE Head(s.slots[id]),
            !.prev[it] = NoItem]

\* The search of the LRU tail for an item to reuse starts at tails[id] with
\* id >= 1.  No item ever carries a class in slabs_clsid, so every item is
\* on list 0 and the search never has a candidate (invariant NeverEvicts of
\* module Store); what is left is slabs_alloc.
do_item_alloc(s, n, os) ==
  LET id    == slabs_clsid(Overhead + n)
      alloc == do_slabs_alloc(s, Overhead + n, id, os)
  IN  IF id = 0 THEN [s |-> s, ret |-> NoItem]
      ELSE IF alloc.ret = NoItem THEN alloc
      ELSE [s |-> Detached(alloc.s, alloc.ret, id), ret |-> alloc.ret]

-----------------------------------------------------------------------------
(* store_item *)

\* Mutant: the references are kept.
MutKeepRef(s, it) == s

\* The references do_store_item gives back when it ends.
DropRef(s, it) == IF it = NoItem THEN s ELSE do_item_remove(s, it)

Stored(s, old, new, stat) ==
  [s |-> DropRef(DropRef(s, old), new), ret |-> stat]

\* it->cas++, then it takes the place of the old item, or is linked.
PutItem(s, old, it, now) ==
  LET bumped == [s EXCEPT !.cas[it] = @ + 1]
  IN  IF old = NoItem THEN do_item_link(bumped, it, now)
      ELSE do_item_replace(bumped, old, it, now)

\* new becomes the concatenation of the old item and of it, with flags 0.
Concatenated(s, old, it, new, cmd) ==
  [s EXCEPT !.key[new]     = s.key[old],
            !.flag[new]    = {},
            !.exptime[new] = s.exptime[old],
            !.nbytes[new]  = s.nbytes[it] + s.nbytes[old],
            !.val[new]     = IF cmd = "append" THEN s.val[old] \o s.val[it]
                                               ELSE s.val[it] \o s.val[old]]

\* append and prepend on an item that is there.
StoreConcat(s, old, it, cmd, now, os) ==
  LET alloc == do_item_alloc(s, s.nbytes[it] + s.nbytes[old], os)
      new   == alloc.ret
  IN  IF s.cas[it] # s.cas[old] THEN Stored(s, old, NoItem, "EXISTS")
      ELSE IF new = NoItem THEN Stored(alloc.s, old, NoItem, "NOT_STORED")
      ELSE Stored(PutItem(Concatenated(alloc.s, old, it, new, cmd), old, new, now),
                  old, new, "STORED")

\* Mutant: the cas ids are not compared.
MutCasBlind(s, old, it, now) ==
  IF old = NoItem THEN [s |-> s, ret |-> "SEGV"]
  ELSE Stored(do_item_replace(s, old, it, now), old, NoItem, "STORED")

\* cas reads old_it->cas without a test for a missing item: the process dies.
StoreCas(s, old, it, now) ==
  IF old = NoItem THEN [s |-> s, ret |-> "SEGV"]
  ELSE IF s.cas[it] = s.cas[old]
       THEN Stored(do_item_replace(s, old, it, now), old, NoItem, "STORED")
       ELSE Stored(s, old, NoItem, "EXISTS")

do_store_item(s, it, cmd, now, os) ==
  LET got == do_item_get(s, s.key[it], now)
      old == got.ret
  IN  IF cmd = "add" /\ old # NoItem
      THEN Stored(do_item_update(got.s, old, now), old, NoItem, "NOT_STORED")
      ELSE IF cmd \in {"replace", "append", "prepend"} /\ old = NoItem
      THEN Stored(got.s, old, NoItem, "NOT_STORED")
      ELSE IF cmd = "cas" THEN StoreCas(got.s, old, it, now)
      ELSE IF cmd \in {"append", "prepend"} THEN StoreConcat(got.s, old, it, cmd, now, os)
      ELSE Stored(PutItem(got.s, old, it, now), old, NoItem, "STORED")

=============================================================================
