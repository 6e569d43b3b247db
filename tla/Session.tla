------------------------------- MODULE Session -------------------------------
(***************************************************************************)
(* What one connection promises its client, whatever the buffers, the      *)
(* watchers and the other connections do: a request is answered once, with *)
(* a reply to that request, and the value of a storage request is handed   *)
(* to the item store once, before a reply that speaks of storing.          *)
(***************************************************************************)
EXTENDS Sequences

CONSTANTS
  Client,
  Request,
  Storage,       \* requests that carry a value
  Silent,        \* requests that are not answered
  Replies,       \* Replies[r]: replies to r while no value is stored
  StoreReplies,  \* StoreReplies[r]: replies once the value is stored
  Kept(_, _)     \* Kept(r, v): v may be stored for request r

VARIABLE session   \* session[c]: last request of c, value stored for it, reply

None == "none"
Nobody == [req |-> None, value |-> <<>>, reply |-> None]

Init == session = [c \in Client |-> Nobody]

Ask(c, r) ==
  /\ session[c].reply # None \/ session[c].req \in {None} \cup Silent
  /\ session' = [session EXCEPT ![c] = [Nobody EXCEPT !.req = r]]

Keep(c) ==
  /\ session[c].req \in Storage
  /\ session[c].value = <<>> /\ session[c].reply = None
  /\ session'[c].value # <<>> /\ Kept(session[c].req, session'[c].value)
  /\ session' = [session EXCEPT ![c].value = session'[c].value]

Answer(c) ==
  /\ session[c].req \in Request \ Silent
  /\ session[c].reply = None
  /\ \E s \in (IF session[c].value = <<>> THEN Replies ELSE StoreReplies)[session[c].req] :
       session' = [session EXCEPT ![c].reply = s]

Next == \E c \in Client : Keep(c) \/ Answer(c) \/ \E r \in Request : Ask(c, r)

Spec == Init /\ [][Next]_session

\* Clients ask when they like; the server answers.
Waiting(c) == session[c].req \in Request \ Silent /\ session[c].reply = None
Answered == \A c \in Client : Waiting(c) ~> ~Waiting(c)

=============================================================================
