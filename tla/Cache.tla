-------------------------------- MODULE Cache --------------------------------
(***************************************************************************)
(* What the item store promises its clients: a map from keys to entries    *)
(* with conditional stores.  Nothing of chunks, chains, LRU lists,         *)
(* reference counts or item_flag bits is left.  Three weaknesses of the    *)
(* program remain visible, for they show in the replies:                   *)
(*   - taking a key out may lose keys of the same bucket (hash_delete);    *)
(*   - a store whose flags contain the bits ITEM_LINKED or ITEM_SLABBED    *)
(*     says STORED and leaves the key absent (do_item_link refuses it);    *)
(*   - cas on an absent key kills the process (do_store_item).             *)
(* Otherwise a hit returns the latest entry stored under the key, a key    *)
(* deleted or expired stays absent until it is stored again, add, replace, *)
(* append, prepend and cas store exactly when their condition holds, and a *)
(* cas id belongs to one entry only.                                       *)
(***************************************************************************)
EXTENDS Integers, Sequences

CONSTANTS
  Key, Bucket, Hash, Conn, NoConn,
  Value,        \* values clients send
  StoreCmd,     \* set, add, replace, append, prepend, cas
  NoEntry,      \* the entry of an absent key
  NoRequest     \* the request of a connection that is between commands

VARIABLES
  cache,     \* cache[k]: [val, cas, exptime], or NoEntry
  request,   \* request[c]: the storage command whose value is awaited
  casId,     \* cas id given last
  clock,
  out,       \* last reply: [conn, msg, val, cas]
  up

vars == <<cache, request, casId, clock, out, up>>

Past(e) == e.exptime # 0 /\ e.exptime <= clock

Present(k) == cache[k] # NoEntry /\ ~Past(cache[k])

Siblings(k) == {j \in Key \ {k} : Hash[j] = Hash[k]}

Idle(c) == up /\ request[c] = NoRequest

Says(c, msg) == out' = [conn |-> c, msg |-> msg, val |-> <<>>, cas |-> 0]

\* Possible maps once k is gone: a key of the same bucket may go with it.
Without(k) ==
  IF cache[k] = NoEntry THEN {cache}
  ELSE {[j \in Key |-> IF j = k \/ j \in lost THEN NoEntry ELSE cache[j]] :
          lost \in SUBSET Siblings(k)}

\* The map after looking up k: an expired entry is taken out.
AfterLookup(k) == IF Present(k) THEN {cache} ELSE Without(k)

-----------------------------------------------------------------------------
Init ==
  /\ cache = [k \in Key |-> NoEntry]
  /\ request = [c \in Conn |-> NoRequest]
  /\ casId = 0
  /\ clock = 0
  /\ out = [conn |-> NoConn, msg |-> "none", val |-> <<>>, cas |-> 0]
  /\ up = TRUE

Get(c, k) ==
  /\ Idle(c)
  /\ cache' \in AfterLookup(k)
  /\ IF Present(k)
     THEN out' = [conn |-> c, msg |-> "VALUE", val |-> cache[k].val, cas |-> cache[k].cas]
     ELSE Says(c, "END")
  /\ UNCHANGED <<request, casId, clock, up>>

Delete(c, k) ==
  /\ Idle(c)
  /\ cache' \in Without(k)
  /\ Says(c, IF Present(k) THEN "DELETED" ELSE "NOT_FOUND")
  /\ UNCHANGED <<request, casId, clock, up>>

\* A command line is accepted: the map does not change yet.
Begin(c) ==
  /\ Idle(c)
  /\ request'[c] # NoRequest
  /\ \A d \in Conn \ {c} : request'[d] = request[d]
  /\ request'[c].cmd \in StoreCmd
  /\ Says(NoConn, "none")
  /\ UNCHANGED <<cache, casId, clock, up>>

\* A command line is refused for want of memory; a set clears the key.
Refuse(c, k) ==
  /\ Idle(c)
  /\ cache' \in Without(k) \cup {cache}
  /\ Says(c, "TOO_LARGE") \/ Says(c, "NO_MEMORY")
  /\ UNCHANGED <<request, casId, clock, up>>

\* The condition under which a storage command stores.
Allowed(r) ==
  CASE r.cmd = "set"     -> TRUE
    [] r.cmd = "add"     -> ~Present(r.key)
    [] r.cmd = "replace" -> Present(r.key)
    [] r.cmd \in {"append", "prepend", "cas"} ->
         Present(r.key) /\ r.cas = cache[r.key].cas

\* The entry that a storage command with value v leaves under its key.
NewEntry(r, v) ==
  CASE r.cmd = "append"  -> [val |-> cache[r.key].val \o v, cas |-> casId + 1,
                             exptime |-> cache[r.key].exptime]
    [] r.cmd = "prepend" -> [val |-> v \o cache[r.key].val, cas |-> casId + 1,
                             exptime |-> cache[r.key].exptime]
    [] OTHER             -> [val |-> v, cas |-> casId + 1, exptime |-> r.exptime]

Concat(r) == r.cmd \in {"append", "prepend"}

\* Reserved flag bits keep the new entry out of the map; append and prepend
\* build an entry with flags of their own.
Vanishes(r) == r.reserved /\ ~Concat(r)

Store(c, v) ==
  LET r == request[c]
  IN  /\ Allowed(r)
      /\ Says(c, "STORED")
      /\ IF Vanishes(r)
         THEN cache' \in Without(r.key) /\ UNCHANGED casId
         ELSE /\ \E m \in Without(r.key) : cache' = [m EXCEPT ![r.key] = NewEntry(r, v)]
              /\ casId' = casId + 1
      /\ UNCHANGED up

\* The condition fails, or there is no memory for a concatenation.
Reject(c) ==
  LET r == request[c]
  IN  /\ ~Allowed(r) \/ Concat(r)
      /\ r.cmd = "cas" => Present(r.key)
      /\ cache' \in AfterLookup(r.key)
      /\ Says(c, IF r.cmd = "cas" THEN "EXISTS" ELSE "NOT_STORED")
      /\ UNCHANGED <<casId, up>>

Die(c) ==
  /\ request[c].cmd = "cas"
  /\ ~Present(request[c].key)
  /\ cache' \in Without(request[c].key)
  /\ Says(NoConn, "none")
  /\ up' = FALSE
  /\ UNCHANGED casId

Finish(c, v) ==
  /\ up
  /\ request[c] # NoRequest
  /\ request' = [request EXCEPT ![c] = NoRequest]
  /\ Store(c, v) \/ Reject(c) \/ Die(c)
  /\ UNCHANGED clock

Abandon(c) ==
  /\ up
  /\ request[c] # NoRequest
  /\ request' = [request EXCEPT ![c] = NoRequest]
  /\ Says(NoConn, "none")
  /\ UNCHANGED <<cache, casId, clock, up>>

Tick ==
  /\ up
  /\ clock' = clock + 1
  /\ UNCHANGED <<cache, request, casId, out, up>>

Next ==
  \/ \E c \in Conn, k \in Key : Get(c, k) \/ Delete(c, k) \/ Refuse(c, k)
  \/ \E c \in Conn : Begin(c) \/ Abandon(c)
  \/ \E c \in Conn, v \in Value : Finish(c, v)
  \/ Tick

Spec == Init /\ [][Next]_vars

=============================================================================
