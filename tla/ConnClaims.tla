----------------------------- MODULE ConnClaims -----------------------------
(***************************************************************************)
(* What comments of conn.h and conn.cpp say of the framing of the byte     *)
(* stream and of replies, stated over Conn.  The program does not do it;   *)
(* each is the property of a run that exhibits the difference.             *)
(***************************************************************************)
EXTENDS Conn

\* conn.h:98: flag_shake is there for a read that takes the value together
\* with the command line; such a request is answered like any other.
ReadAheadIsServed ==
  \A c \in Client :
    session[c].req \notin Silent \cup {None} ~> session[c].reply # None

\* conn.cpp:292: a read without a newline is waited out, or, if it is long
\* and no get, ends the connection; it never ends the process.
PartialLineWaits ==
  [][\A c \in Client :
       /\ conn[c].state = "conn_parse_cmd"
       /\ \A i \in 1..conn[c].rbuf_rlen : conn[c].rbuf[i] # "LF"
       /\ conn[c]'.state # conn[c].state
       => conn[c]'.state \in {"conn_waiting", "conn_closed"}]_vars

\* conn.cpp:513: what a hit is answered with, "VALUE key flag bytes\r\nvalue",
\* is written into a wbuf made for it, and sent from there.
RepliesAreWhole ==
  \A c \in Client : conn[c].state # "fault" /\ session[c].reply # "GARBAGE"

=============================================================================
