--------------------------- MODULE StoreRefinement ---------------------------
(***************************************************************************)
(* Store implements Cache.  The map is what hash_find finds; a request is  *)
(* read off the item a connection holds; flags of a hit are dropped from   *)
(* the replies.                                                            *)
(***************************************************************************)
EXTENDS Store

CONSTANTS NoEntry, NoRequest

\* What stands for an absent entry or request is none.
ASSUME AbsenceAssumption ==
  /\ NoEntry \notin [val : Seq(Atom), cas : Nat, exptime : Nat]
  /\ NoRequest \notin [cmd : StoreCmd, key : Key, reserved : BOOLEAN, exptime : Nat, cas : Nat]

EntryOf(it) ==
  [val |-> store.val[it], cas |-> store.cas[it], exptime |-> store.exptime[it]]

cacheMap ==
  [k \in Key |-> LET it == hash_find(store, k)
                 IN  IF it = NoItem THEN NoEntry ELSE EntryOf(it)]

RequestOf(c) ==
  LET it == held[c]
  IN  [cmd      |-> cmd[c],
       key      |-> store.key[it],
       reserved |-> store.flag[it] \cap {"LINKED", "SLABBED"} # {},
       exptime  |-> store.exptime[it],
       cas      |-> store.cas[it]]

requestMap ==
  [c \in Conn |-> IF held[c] = NoItem THEN NoRequest ELSE RequestOf(c)]

replyMap ==
  [conn |-> out.conn, msg |-> out.msg, val |-> out.hit.val, cas |-> out.hit.cas]

C == INSTANCE Cache WITH cache <- cacheMap, request <- requestMap,
                         casId <- store.cas_id, out <- replyMap

\* Every behaviour of the item store is one of the key-value map of Cache:
\* whatever chains, reference counts and interleaved storage commands of
\* several connections do inside slab.cpp, the replies are those of a map
\* with conditional stores.
ImplementsCache == C!Spec

=============================================================================
