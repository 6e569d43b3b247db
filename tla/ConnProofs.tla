------------------------------ MODULE ConnProofs ------------------------------
(***************************************************************************)
(* Connection objects, sockets and clients keep their types, and a value   *)
(* that is read fits into the memory made for it, for every value of the   *)
(* constants: whatever requests clients send, in whatever pieces and       *)
(* however early, with any buffer lengths and any contents of fresh        *)
(* memory.  And connections keep what they promise to polite clients (see  *)
(* Polite in Conn): none is forgotten, each request is answered as Session *)
(* says, and the process dies of nothing but SIGPIPE.                      *)
(***************************************************************************)
EXTENDS Conn, SequenceTheorems, NaturalsInduction, WellFoundedInduction, TLAPS

\* rnbuf has the length that was accepted, and what was read is within it.
Fits(k) ==
  /\ k.rnbuf_len \in 2..(IntMod \div 2 - 1)
  /\ k.rnbuf_rlen \in 0..k.rnbuf_len
  /\ Len(k.rnbuf) = k.rnbuf_len

\* What was written is in wbuf; nothing of a reply is written before
\* conn_write, and nothing of a value is left behind conn_nread.
Sane(k) ==
  /\ k.wbuf_wlen <= k.wbuf_len
  /\ k.state \in {"conn_read", "conn_parse_cmd", "conn_waiting", "conn_nread"} => k.wbuf_wlen = 0
  /\ k.state \in {"conn_read", "conn_parse_cmd", "conn_waiting", "conn_write"} => k.rnbuf_rlen = 0
  /\ k.state = "conn_nread" /\ ~k.flag_shake => Fits(k)

Conns == {k \in ConnType : Sane(k)}

\* The inductive invariant.
ConnInv == TypeOK /\ \A c \in Client : conn[c] \in Conns

-----------------------------------------------------------------------------
(* Numbers and sequences *)

\* Min of a set of naturals.
LEMMA MinIsLeast ==
  ASSUME NEW S, S \subseteq Nat, S # {}
  PROVE  Min(S) \in S /\ \A j \in S : Min(S) <= j
<1> DEFINE R == OpToRel(<, Nat)
<1>1. \E x \in S : \A y \in S : ~(<<y, x>> \in R)
  <2>1. IsWellFoundedOn(R, Nat)
    BY NatLessThanWellFounded
  <2> QED
    BY <2>1, WFMin
<1>2. \A x, y \in Nat : ~(<<y, x>> \in R) => x <= y
  BY DEF OpToRel
<1>3. \E x \in S : \A y \in S : x <= y
  BY <1>1, <1>2
<1> QED
  BY <1>3 DEF Min

\* p written over the head of s.
LEMMA OverType ==
  ASSUME NEW s \in Seq(Unit), NEW p \in Seq(Unit)
  PROVE  /\ Over(s, p) \in Seq(Unit)
         /\ Len(Over(s, p)) = IF Len(p) <= Len(s) THEN Len(s) ELSE Len(p)
<1> DEFINE t == SubSeq(s, Len(p) + 1, Len(s))
<1>1. Len(s) \in Nat /\ Len(p) \in Nat
  OBVIOUS
<1>2. \A i \in (Len(p) + 1)..Len(s) : s[i] \in Unit
  BY <1>1
<1>3. t \in Seq(Unit) /\ Len(t) = IF Len(p) + 1 <= Len(s) THEN Len(s) - Len(p) ELSE 0
  BY <1>1, <1>2, SubSeqProperties
<1>4. p \o t \in Seq(Unit) /\ Len(p \o t) = Len(p) + Len(t)
  BY <1>3, ConcatProperties
<1> QED
  BY <1>1, <1>3, <1>4 DEF Over

\* A piece of a sequence.
LEMMA PieceType ==
  ASSUME NEW S, NEW s \in Seq(S), NEW m \in Nat \ {0}, NEW n \in Nat, n <= Len(s)
  PROVE  /\ SubSeq(s, m, n) \in Seq(S)
         /\ Len(SubSeq(s, m, n)) = IF m <= n THEN n - m + 1 ELSE 0
<1>1. \A i \in m..n : s[i] \in S
  OBVIOUS
<1> QED
  BY <1>1, SubSeqProperties

\* A sequence given element by element.
LEMMA TableType ==
  ASSUME NEW n \in Nat, NEW f \in [1..n -> Unit]
  PROVE  f \in Seq(Unit) /\ Len(f) = n /\ DOMAIN f = 1..n
OBVIOUS

\* The range of the two's complement reading.
LEMMA AsIntRange ==
  ASSUME NEW n \in Int
  PROVE  AsInt(n) \in (-(IntMod \div 2))..(IntMod \div 2 - 1)
<1>1. IntMod \in Nat /\ IntMod = 2 * (IntMod \div 2) /\ IntMod \div 2 \in Nat /\ IntMod > 4
  BY ToolAssumption
<1>2. n % IntMod \in 0..(IntMod - 1)
  BY <1>1
<1> QED
  BY <1>1, <1>2 DEF AsInt, Signed

\* What is left out of two negative numbers.
LEMMA AsIntNegative == AsInt(-1) = -1 /\ AsInt(-2) = -2
<1>1. IntMod \in Nat /\ IntMod = 2 * (IntMod \div 2) /\ IntMod \div 2 \in Nat /\ IntMod > 4
  BY ToolAssumption
<1>2. (-1) % IntMod = IntMod - 1
  BY <1>1
<1>3. (-2) % IntMod = IntMod - 2
  BY <1>1
<1> QED
  BY <1>1, <1>2, <1>3 DEF AsInt, Signed

\* What safe_strtol leaves in *out.
LEMMA StrtolType ==
  ASSUME NEW w \in Word
  PROVE  safe_strtol(w).out \in Int
<1>1. w.val \in Int
  BY DEF Word
<1>2. AsInt(w.val) \in Int
  BY <1>1, AsIntRange, ToolAssumption
<1> QED
  BY <1>2 DEF safe_strtol, Failed

\* The length of an accepted value, with its end of line.
LEMMA AcceptedLength ==
  ASSUME NEW r \in Request
  PROVE  /\ vlen(Info[r]) \in Int
         /\ ~Refused(Info[r]) => vlen(Info[r]) \in 2..(IntMod \div 2 - 1)
<1> DEFINE v == vlen(Info[r])
<1>1. safe_strtol(Info[r].bytes).out + 2 \in Int
  BY ConnAssumption, StrtolType
<1>2. IntMod \div 2 \in Nat
  BY ToolAssumption
<1>3. v \in (-(IntMod \div 2))..(IntMod \div 2 - 1)
  BY <1>1, AsIntRange DEF vlen
<1>4. v \in Int
  BY <1>2, <1>3
<1>5. ASSUME ~Refused(Info[r]) PROVE v >= 2
  <2>1. v >= 0 /\ AsInt(v - 2) >= 0
    <3>1. AsInt(v - 2) \in Int
      BY <1>2, <1>4, AsIntRange
    <3> QED
      BY <1>4, <1>5, <3>1 DEF Refused
  <2>2. v # 0 /\ v # 1
    BY <2>1, AsIntNegative
  <2> QED
    BY <1>4, <2>1, <2>2
<1> QED
  BY <1>2, <1>3, <1>4, <1>5

-----------------------------------------------------------------------------
(* Commands *)

\* What process_command finds: a line was read, nothing of a reply is
\* written and nothing of a value is read.
Idle(k) ==
  /\ k \in ConnType
  /\ k.rbuf_rlen <= Len(k.rbuf)
  /\ k.wbuf_wlen = 0
  /\ k.rnbuf_rlen = 0

\* And what it leaves.
Done(k, n) ==
  /\ Idle(n)
  /\ n.flag_shake = k.flag_shake
  /\ n.rbuf_rlen = 0 \/ (n.rbuf_rlen = k.rbuf_rlen /\ n.rbuf_now = k.rbuf_now)
  /\ n.state = "conn_nread" => Fits(n)

\* The fields of a connection object.
LEMMA FieldTypes ==
  ASSUME NEW k \in ConnType
  PROVE  /\ k.state \in ConnState /\ k.flag_shake \in BOOLEAN /\ k.flag_precmd \in BOOLEAN
         /\ k.rbuf \in Seq(Unit) /\ k.rbuf_now \in Nat /\ k.rbuf_rlen \in Nat
         /\ k.rnbuf \in Seq(Unit) /\ k.rnbuf_len \in Nat /\ k.rnbuf_rlen \in Nat
         /\ k.cmd \in StoreVerb \cup {"unknown"}
         /\ k.wbuf \in Reply \cup {None} /\ k.wbuf_stale \in BOOLEAN
         /\ k.wbuf_size \in Nat /\ k.wbuf_len \in Nat /\ k.wbuf_wlen \in Nat
         /\ k.watching \in SUBSET {"read", "write"}
         /\ Len(k.rbuf) \in Nat /\ Len(k.rnbuf) \in Nat
BY DEF ConnType

\* The fields that the preparation of a reply leaves alone.
SameBuffers(k, n) ==
  /\ n.flag_shake = k.flag_shake
  /\ n.rnbuf = k.rnbuf /\ n.rnbuf_len = k.rnbuf_len /\ n.rnbuf_rlen = k.rnbuf_rlen
  /\ n.wbuf_wlen = k.wbuf_wlen

\* out_string.
LEMMA OutStringType ==
  ASSUME NEW k \in ConnType, NEW str \in Reply
  PROVE  /\ out_string(k, str) \in ConnType
         /\ SameBuffers(k, out_string(k, str))
         /\ out_string(k, str).rbuf = k.rbuf /\ out_string(k, str).rbuf_rlen = k.rbuf_rlen
         /\ out_string(k, str).rbuf_now = k.rbuf_now
         /\ out_string(k, str).state = "conn_write"
<1>1. StringLen \in Nat
  BY ConnAssumption
<1>2. "TOO_LONG" \in Reply
  BY DEF Reply
<1> QED
  BY <1>1, <1>2 DEF out_string, ConnType, ConnState, SameBuffers

\* memset of rbuf.
LEMMA ClearedType ==
  ASSUME NEW k \in ConnType
  PROVE  /\ Cleared(k) \in ConnType
         /\ SameBuffers(k, Cleared(k))
         /\ Len(Cleared(k).rbuf) = Len(k.rbuf) /\ Cleared(k).rbuf_rlen = 0
         /\ Cleared(k).state = k.state
<1> DEFINE z == [i \in DOMAIN k.rbuf |-> "NUL"]
<1>1. k.rbuf \in Seq(Unit) /\ Len(k.rbuf) \in Nat /\ DOMAIN k.rbuf = 1..Len(k.rbuf)
  BY FieldTypes
<1>2. "NUL" \in Unit
  BY DEF Unit
<1>3. z \in [1..Len(k.rbuf) -> Unit]
  BY <1>1, <1>2
<1>4. z \in Seq(Unit) /\ Len(z) = Len(k.rbuf)
  BY <1>1, <1>3, TableType
<1>5. Cleared(k) = [k EXCEPT !.rbuf = z, !.rbuf_rlen = 0]
  BY DEF Cleared
<1> HIDE DEF z
<1> QED
  <2> DEFINE m == [k EXCEPT !.rbuf = z, !.rbuf_rlen = 0]
  <2>1. m \in ConnType /\ SameBuffers(k, m) /\ m.rbuf = z /\ m.rbuf_rlen = 0 /\ m.state = k.state
    BY <1>4 DEF ConnType, SameBuffers
  <2> QED
    BY <1>4, <1>5, <2>1

\* The watchers.
LEMMA WatchWriteType ==
  ASSUME NEW k \in ConnType
  PROVE  /\ WatchWrite(k) \in ConnType
         /\ SameBuffers(k, WatchWrite(k))
         /\ WatchWrite(k).rbuf = k.rbuf /\ WatchWrite(k).rbuf_rlen = k.rbuf_rlen
         /\ WatchWrite(k).state = k.state
BY DEF WatchWrite, ConnType, SameBuffers

\* A reply with rbuf cleared and the write watcher started.
LEMMA AnsweredType ==
  ASSUME NEW k \in ConnType, NEW str \in Reply
  PROVE  /\ Answered(k, str) \in ConnType
         /\ SameBuffers(k, Answered(k, str))
         /\ Answered(k, str).rbuf_rlen = 0
         /\ Answered(k, str).state = "conn_write"
<1>1. Cleared(k) \in ConnType /\ SameBuffers(k, Cleared(k)) /\ Cleared(k).rbuf_rlen = 0
  BY ClearedType
<1> DEFINE o == out_string(Cleared(k), str)
<1>2. o \in ConnType /\ SameBuffers(Cleared(k), o) /\ o.rbuf_rlen = 0 /\ o.state = "conn_write"
  BY <1>1, OutStringType
<1> HIDE DEF o
<1>3. /\ WatchWrite(o) \in ConnType /\ SameBuffers(o, WatchWrite(o))
      /\ WatchWrite(o).rbuf_rlen = 0 /\ WatchWrite(o).state = "conn_write"
  BY <1>2, WatchWriteType
<1>4. Answered(k, str) = WatchWrite(o)
  BY DEF Answered, o
<1> QED
  BY <1>1, <1>2, <1>3, <1>4 DEF SameBuffers

\* Hence the end that most commands share.
LEMMA AnsweredDone ==
  ASSUME NEW k, Idle(k), NEW str \in Reply
  PROVE  Done(k, Answered(k, str))
<1>1. k \in ConnType
  BY DEF Idle
<1>2. /\ Answered(k, str) \in ConnType /\ SameBuffers(k, Answered(k, str))
      /\ Answered(k, str).rbuf_rlen = 0 /\ Answered(k, str).state = "conn_write"
  BY <1>1, AnsweredType
<1>3. Len(Answered(k, str).rbuf) \in Nat
  BY <1>2, FieldTypes
<1> QED
  BY <1>2, <1>3 DEF Done, Idle, SameBuffers

\* A reply with nothing else done.
LEMMA RefusedDone ==
  ASSUME NEW k, Idle(k), NEW str \in Reply
  PROVE  Done(k, out_string(k, str))
<1>1. k \in ConnType
  BY DEF Idle
<1> QED
  BY <1>1, OutStringType DEF Done, Idle, SameBuffers

\* What conn.cpp finds in the words of a request.
LEMMA InfoType ==
  ASSUME NEW r \in Request
  PROVE  /\ Info[r].words \in Nat \ {0} /\ Info[r].verb \in Verb /\ Info[r].total \in Nat
         /\ Info[r].pad \in Nat /\ Info[r].value \in Seq({"d1", "d2"})
BY ConnAssumption

LEMMA WordsType ==
  ASSUME NEW k
  PROVE  \/ Words(k) = [words |-> 0]
         \/ Words(k) = [words |-> 1, verb |-> "unknown"]
         \/ \E r \in Request : Words(k) = Info[r]
<1> DEFINE marks == {i \in DOMAIN k.rbuf : k.rbuf[i] \notin Blank
                                           /\ \A j \in 1..i : k.rbuf[j] # "NUL"}
           m == CHOOSE i \in marks : TRUE
<1>1. Words(k) = IF marks = {} THEN [words |-> 0]
                 ELSE IF \E i \in marks : marks = {i} /\ k.rbuf[i] \in Request THEN Info[k.rbuf[m]]
                 ELSE [words |-> 1, verb |-> "unknown"]
  BY DEF Words
<1>2. ASSUME NEW i \in marks, marks = {i}
      PROVE  m = i
  BY <1>2
<1> HIDE DEF marks, m
<1> QED
  BY <1>1, <1>2

\* One word.
LEMMA OneParaDone ==
  ASSUME NEW k, Idle(k), NEW i, NEW n \in command_one_para(k, i)
  PROVE  Done(k, n)
<1>1. CASE i.verb = "quit"
  <2>1. n = [k EXCEPT !.state = "conn_closed"]
    BY <1>1 DEF command_one_para
  <2> QED
    BY <2>1 DEF Done, Idle, ConnType, ConnState
<1>2. CASE i.verb # "quit"
  <2>1. n = Answered(k, IF i.verb = "version" THEN "VERSION" ELSE "CLIENT_BAD_COMMAND")
    BY <1>2 DEF command_one_para
  <2>2. (IF i.verb = "version" THEN "VERSION" ELSE "CLIENT_BAD_COMMAND") \in Reply
    BY DEF Reply
  <2> QED
    BY <2>1, <2>2, AnsweredDone
<1> QED
  BY <1>1, <1>2

\* get, also with a reply that gets a new wbuf or does not fit.
LEMMA GetDone ==
  ASSUME NEW k, Idle(k), NEW i, i.total \in Nat, NEW n \in get_command(k, i)
  PROVE  Done(k, n)
<1> DEFINE big  == i.total > k.wbuf_len
           size == IF big THEN i.total ELSE k.wbuf_size
           hit  == [k EXCEPT !.wbuf       = "VALUE",
                             !.wbuf_size  = size,
                             !.wbuf_len   = IF big THEN i.total ELSE @,
                             !.wbuf_stale = big,
                             !.state      = "conn_write"]
<1>1. {"VALUE", "END", "CLIENT_ERROR"} \subseteq Reply
  BY DEF Reply
<1>2. k \in ConnType /\ big \in BOOLEAN /\ size \in Nat
  BY FieldTypes DEF Idle
<1> HIDE DEF size
<1>3. hit \in ConnType /\ SameBuffers(k, hit) /\ hit.state = "conn_write"
  BY <1>1, <1>2 DEF ConnType, ConnState, SameBuffers
<1> HIDE DEF hit
<1>4. /\ WatchWrite(Cleared(hit)) \in ConnType /\ SameBuffers(k, WatchWrite(Cleared(hit)))
      /\ WatchWrite(Cleared(hit)).rbuf_rlen = 0 /\ WatchWrite(Cleared(hit)).state = "conn_write"
  <2>1. /\ Cleared(hit) \in ConnType /\ SameBuffers(hit, Cleared(hit))
        /\ Cleared(hit).rbuf_rlen = 0 /\ Cleared(hit).state = "conn_write"
    BY <1>3, ClearedType
  <2> QED
    BY <1>3, <2>1, WatchWriteType DEF SameBuffers
<1>5. n \in {out_string(k, "CLIENT_ERROR"), Answered(k, "END"), WatchWrite(Cleared(hit)), Fault(k)}
  BY DEF get_command, hit, size
<1>6. CASE n = WatchWrite(Cleared(hit))
  <2>1. Len(n.rbuf) \in Nat
    BY <1>4, <1>6, FieldTypes
  <2> QED
    BY <1>4, <1>6, <2>1 DEF Done, Idle, SameBuffers
<1>7. CASE n = Fault(k)
  BY <1>7 DEF Fault, Done, Idle, ConnType, ConnState
<1> QED
  BY <1>1, <1>5, <1>6, <1>7, AnsweredDone, RefusedDone

\* Two words.
LEMMA TwoParaDone ==
  ASSUME NEW k, Idle(k), NEW i, i.total \in Nat, NEW n \in command_two_para(k, i)
  PROVE  Done(k, n)
<1>1. {"CLIENT_BAD_COMMAND", "DELETED", "NOT_FOUND"} \subseteq Reply
  BY DEF Reply
<1>2. CASE i.verb = "get"
  BY <1>2, GetDone DEF command_two_para
<1>3. CASE i.verb = "delete"
  BY <1>1, <1>3, AnsweredDone DEF command_two_para, delete_command
<1>4. CASE i.verb \notin {"get", "delete"}
  BY <1>1, <1>4, AnsweredDone DEF command_two_para
<1> QED
  BY <1>2, <1>3, <1>4

\* nread_stat_set.
LEMMA StatSetType ==
  ASSUME NEW k, Idle(k), NEW verb
  PROVE  /\ Idle(nread_stat_set(k, verb))
         /\ nread_stat_set(k, verb).flag_shake = k.flag_shake
         /\ nread_stat_set(k, verb).rbuf_rlen = k.rbuf_rlen
         /\ nread_stat_set(k, verb).rbuf_now = k.rbuf_now
BY DEF Idle, nread_stat_set, ConnType

\* Five or six words: the value will fit into what is allocated for it.
LEMMA FiveSixDone ==
  ASSUME NEW k, Idle(k), NEW r \in Request, NEW n \in command_five_six_para(k, Info[r])
  PROVE  Done(k, n)
<1> DEFINE i == Info[r]
           s == nread_stat_set(k, i.verb)
           space == [j \in 1..vlen(i) |-> "junk"]
           accepted == [s EXCEPT !.rnbuf = space, !.rnbuf_len = vlen(i), !.state = "conn_nread"]
<1>1. {"CLIENT_ERROR", "SERVER_ERROR"} \subseteq Reply
  BY DEF Reply
<1>2. /\ Idle(s) /\ s.flag_shake = k.flag_shake /\ s.rbuf_rlen = k.rbuf_rlen
      /\ s.rbuf_now = k.rbuf_now
  BY StatSetType
<1>3. CASE n = accepted /\ ~Refused(i)
  <2>1. vlen(i) \in 2..(IntMod \div 2 - 1) /\ vlen(i) \in Nat
    BY <1>3, AcceptedLength, ToolAssumption
  <2>2. space \in Seq(Unit) /\ Len(space) = vlen(i)
    <3>1. space \in [1..vlen(i) -> Unit]
      BY DEF Unit
    <3> QED
      BY <2>1, <3>1, TableType
  <2> HIDE DEF space, s, i
  <2>3. /\ n \in ConnType /\ n.rnbuf = space /\ n.rnbuf_len = vlen(i) /\ n.rnbuf_rlen = 0
        /\ n.flag_shake = s.flag_shake /\ n.wbuf_wlen = 0
        /\ n.rbuf = s.rbuf /\ n.rbuf_rlen = s.rbuf_rlen /\ n.rbuf_now = s.rbuf_now
    BY <1>2, <1>3, <2>1, <2>2 DEF Idle, ConnType, ConnState
  <2>4. Fits(n)
    BY <2>1, <2>2, <2>3 DEF Fits
  <2> QED
    BY <1>2, <2>3, <2>4 DEF Done, Idle
<1>4. CASE n = out_string(s, "CLIENT_ERROR") \/ n = out_string(s, "SERVER_ERROR")
  <2>1. Done(s, n)
    BY <1>1, <1>2, <1>4, RefusedDone
  <2> QED
    BY <1>2, <2>1 DEF Done
<1>5. \/ n = accepted /\ ~Refused(i)
      \/ n = out_string(s, "CLIENT_ERROR") \/ n = out_string(s, "SERVER_ERROR")
  <2> HIDE DEF space
  <2> QED
    BY DEF command_five_six_para, space
<1> QED
  BY <1>3, <1>4, <1>5

\* process_command.
LEMMA ProcessDone ==
  ASSUME NEW k, Idle(k), NEW n \in process_command(k),
         k.state = "conn_parse_cmd"
  PROVE  Done(k, n)
<1> DEFINE i == Words(k)
<1>1. n \in Command(k, i)
  BY DEF process_command
<1>2. \/ i = [words |-> 0]
      \/ i = [words |-> 1, verb |-> "unknown"]
      \/ \E r \in Request : i = Info[r]
  BY WordsType
<1> HIDE DEF i
<1>3. CASE i.words = 1
  BY <1>1, <1>3, OneParaDone DEF Command
<1>4. CASE i.words = 2
  <2>1. i.total \in Nat
    BY <1>2, <1>4, InfoType
  <2>2. n \in command_two_para(k, i)
    BY <1>1, <1>4 DEF Command
  <2> QED
    BY <2>1, <2>2, TwoParaDone
<1>5. CASE i.words = 3
  BY <1>1, <1>5 DEF Command, command_three_para, Done
<1>6. CASE i.words \in {5, 6}
  <2>1. PICK r \in Request : i = Info[r]
    BY <1>2, <1>6
  <2>2. PICK m \in command_five_six_para(k, i) : n = m \/ n = [m EXCEPT !.flag_precmd = TRUE]
    BY <1>1, <1>6 DEF Command
  <2>3. Done(k, m)
    BY <2>1, <2>2, FiveSixDone
  <2>4. CASE n = m
    BY <2>3, <2>4
  <2>5. CASE n = [m EXCEPT !.flag_precmd = TRUE]
    <3>1. m \in ConnType
      BY <2>3 DEF Done, Idle
    <3>2. n \in ConnType
      BY <2>5, <3>1 DEF ConnType
    <3>3. /\ n.state = m.state /\ n.flag_shake = m.flag_shake
          /\ n.rbuf = m.rbuf /\ n.rbuf_now = m.rbuf_now /\ n.rbuf_rlen = m.rbuf_rlen
          /\ n.rnbuf = m.rnbuf /\ n.rnbuf_len = m.rnbuf_len /\ n.rnbuf_rlen = m.rnbuf_rlen
          /\ n.wbuf_wlen = m.wbuf_wlen
      BY <2>5, <3>1 DEF ConnType
    <3> QED
      BY <2>3, <3>2, <3>3 DEF Done, Idle, Fits
  <2> QED
    BY <2>2, <2>4, <2>5
<1>7. CASE i.words \notin {1, 2, 3, 5, 6}
  <2> DEFINE z == Cleared(k)
  <2>1. n = [z EXCEPT !.rbuf_now = 0, !.state = "conn_read", !.flag_precmd = FALSE]
    BY <1>1, <1>7 DEF Command
  <2>2. z \in ConnType /\ SameBuffers(k, z) /\ z.rbuf_rlen = 0 /\ Len(z.rbuf) \in Nat
    BY ClearedType, FieldTypes DEF Idle
  <2> HIDE DEF z
  <2>3. n \in ConnType /\ SameBuffers(z, n) /\ n.rbuf_rlen = 0 /\ n.rbuf = z.rbuf /\ n.state = "conn_read"
    BY <2>1, <2>2 DEF ConnType, ConnState, SameBuffers
  <2> QED
    BY <2>2, <2>3 DEF Done, Idle, SameBuffers
<1> QED
  BY <1>3, <1>4, <1>5, <1>6, <1>7

-----------------------------------------------------------------------------
(* Parsing *)

\* A bad access ends the process, the record stays as it is.
LEMMA FaultSane ==
  ASSUME NEW k \in ConnType, k.wbuf_wlen <= k.wbuf_len
  PROVE  Fault(k) \in Conns
BY DEF Fault, Conns, Sane, ConnType, ConnState

\* What a command leaves is in order as long as no bytes wait behind it.
LEMMA DoneSane ==
  ASSUME NEW k, NEW n, Done(k, n)
  PROVE  n \in Conns
BY DEF Done, Idle, Conns, Sane, ConnType

\* conn_shake, for what was read behind the line.
LEMMA ShakeSane ==
  ASSUME NEW k, NEW n, Done(k, n), n.flag_shake,
         NEW lf \in Nat \ {0}, NEW m \in conn_shake(n, lf, n.rbuf_rlen - lf)
  PROVE  m \in Conns
<1> DEFINE v == n.rbuf_rlen - lf
<1>1. /\ n \in ConnType /\ n.rbuf_rlen <= Len(n.rbuf) /\ n.wbuf_wlen = 0 /\ n.rnbuf_rlen = 0
      /\ n.state = "conn_nread" => Fits(n)
  BY DEF Done, Idle
<1>2. /\ n.rbuf \in Seq(Unit) /\ Len(n.rbuf) \in Nat /\ n.rbuf_rlen \in Nat
      /\ n.rnbuf \in Seq(Unit) /\ n.wbuf_len \in Nat
  BY <1>1, FieldTypes
<1>3. v \in Int /\ lf + v = n.rbuf_rlen /\ m \in conn_shake(n, lf, v)
  BY <1>2
<1> HIDE DEF v
<1> DEFINE rest == SubSeq(n.rbuf, lf + 1, lf + v)
<1>4. CASE m = Fault(n)
  BY <1>1, <1>2, <1>4, FaultSane
<1>5. CASE m = n
  BY <1>5, DoneSane
<1>6. ASSUME v >= 0
      PROVE  rest \in Seq(Unit) /\ Len(rest) = v
  <2>1. lf + v \in Nat /\ lf + v <= Len(n.rbuf) /\ lf + 1 \in Nat \ {0}
    BY <1>1, <1>2, <1>3
  <2>2. /\ rest \in Seq(Unit)
        /\ Len(rest) = IF lf + 1 <= lf + v THEN (lf + v) - (lf + 1) + 1 ELSE 0
    BY <1>2, <2>1, PieceType
  <2> HIDE DEF rest
  <2> QED
    BY <1>3, <1>6, <2>2
<1> HIDE DEF rest
<1>7. m \in IF v < 0 THEN {Fault(n)}
            ELSE IF ~Contains(rest, "CR") THEN {n}
            ELSE IF ~n.flag_precmd THEN {ShakenLine(n, rest)}
            ELSE IF v = 1 THEN {Fault(n)} ELSE {Fault(n), ShakenValue(n, rest)}
  BY <1>3 DEF conn_shake, rest
<1>8. CASE m = ShakenLine(n, rest) /\ v >= 0
  <2> DEFINE z == Over(n.rbuf, Append(rest, "NUL"))
  <2>1. z \in Seq(Unit) /\ Len(rest) \in Nat
    <3>1. "NUL" \in Unit
      BY DEF Unit
    <3>2. Append(rest, "NUL") \in Seq(Unit)
      BY <1>6, <1>8, <3>1, AppendProperties
    <3>3. Len(rest) \in Nat
      BY <1>3, <1>6, <1>8
    <3> QED
      BY <1>2, <3>2, <3>3, OverType
  <2>2. m = [n EXCEPT !.rbuf = z, !.rbuf_now = 0, !.rbuf_rlen = Len(rest), !.state = "conn_parse_cmd"]
    BY <1>8 DEF ShakenLine
  <2> HIDE DEF z
  <2>3. /\ m \in ConnType /\ m.state = "conn_parse_cmd"
        /\ m.wbuf_wlen = 0 /\ m.wbuf_len = n.wbuf_len /\ m.rnbuf_rlen = 0
    BY <1>1, <2>1, <2>2 DEF ConnType, ConnState
  <2> QED
    BY <1>2, <2>3 DEF Conns, Sane
<1>9. CASE m = ShakenValue(n, rest) /\ v >= 2
  <2> DEFINE z == Over(n.rnbuf, SubSeq(rest, 1, Len(rest) - 2))
  <2>1. z \in Seq(Unit) /\ Len(rest) - 2 \in Nat
    <3>1. rest \in Seq(Unit) /\ Len(rest) = v
      BY <1>3, <1>6, <1>9
    <3>2. Len(rest) - 2 \in Nat /\ Len(rest) - 2 <= Len(rest)
      BY <1>3, <1>9, <3>1
    <3>3. SubSeq(rest, 1, Len(rest) - 2) \in Seq(Unit)
      BY <3>1, <3>2, PieceType
    <3> QED
      BY <1>2, <3>2, <3>3, OverType
  <2>2. m = [n EXCEPT !.rnbuf = z, !.rnbuf_rlen = Len(rest) - 2, !.state = "conn_nread",
                      !.flag_precmd = FALSE]
    BY <1>9 DEF ShakenValue
  <2> HIDE DEF z
  <2>3. /\ m \in ConnType /\ m.state = "conn_nread" /\ m.flag_shake
        /\ m.wbuf_wlen = 0 /\ m.wbuf_len = n.wbuf_len
    BY <1>1, <2>1, <2>2 DEF ConnType, ConnState
  <2> QED
    BY <1>2, <2>3 DEF Conns, Sane
<1>10. CASE v = 0
  <2>1. Len(rest) = 0
    BY <1>6, <1>10
  <2>2. ~Contains(rest, "CR")
    BY <2>1 DEF Contains
  <2> QED
    BY <1>5, <1>7, <1>10, <2>2
<1>11. v < 0 \/ v >= 0
  BY <1>3
<1>12. \/ m = Fault(n) \/ m = n
       \/ m = ShakenLine(n, rest) /\ v >= 0
       \/ m = ShakenValue(n, rest) /\ v >= 0 /\ v # 1
  BY <1>7, <1>11
<1> QED
  BY <1>3, <1>4, <1>5, <1>8, <1>9, <1>10, <1>12

\* The line is terminated; k.rbuf[lf] is its newline.
LEMMA TerminatedIdle ==
  ASSUME NEW k \in ConnType, k.wbuf_wlen = 0, k.rnbuf_rlen = 0, k.rbuf_rlen <= Len(k.rbuf),
         NEW lf \in 1..k.rbuf_rlen, NEW n \in Terminated(k, lf)
  PROVE  Idle(n) /\ n.state = k.state /\ n.rbuf_rlen = k.rbuf_rlen /\ n.rbuf_now = k.rbuf_now
<1> DEFINE e == IF lf - 1 - k.rbuf_now > 1 /\ k.rbuf[lf - 1] = "CR" THEN lf - 1 ELSE lf
           z == [k.rbuf EXCEPT ![e] = "NUL"]
<1>1. PICK next : n = [k EXCEPT !.flag_shake = next # "NUL", !.rbuf[e] = "NUL"]
  BY DEF Terminated
<1>2. /\ k.rbuf \in Seq(Unit) /\ Len(k.rbuf) \in Nat /\ k.rbuf_now \in Nat /\ k.rbuf_rlen \in Nat
  BY FieldTypes
<1>3. e \in 1..Len(k.rbuf)
  BY <1>2
<1>4. z \in Seq(Unit) /\ Len(z) = Len(k.rbuf)
  <2>1. "NUL" \in Unit
    BY DEF Unit
  <2> HIDE DEF e
  <2> QED
    BY <1>2, <1>3, <2>1, ExceptSeq
<1> HIDE DEF e
<1>5. n = [k EXCEPT !.flag_shake = next # "NUL", !.rbuf = z]
  BY <1>1
<1> HIDE DEF z
<1>6. /\ n \in ConnType /\ n.rbuf = z /\ n.rbuf_rlen = k.rbuf_rlen /\ n.rbuf_now = k.rbuf_now
      /\ n.state = k.state /\ n.wbuf_wlen = k.wbuf_wlen /\ n.rnbuf_rlen = k.rnbuf_rlen
  BY <1>4, <1>5 DEF ConnType
<1> QED
  BY <1>4, <1>6 DEF Idle

\* The offsets move past the line.
LEMMA AdvancedSane ==
  ASSUME NEW k, NEW n, Done(k, n), NEW lf \in Nat, lf <= k.rbuf_rlen
  PROVE  Advanced(n, lf) \in Conns
<1> DEFINE rlen == IF n.rbuf_rlen # 0 THEN n.rbuf_rlen - (lf - n.rbuf_now) ELSE 0
           now  == IF n.rbuf_now # 0 THEN lf ELSE 0
           m    == Advanced(n, lf)
<1>1. /\ n \in ConnType /\ n.wbuf_wlen = 0 /\ n.rnbuf_rlen = 0
      /\ n.rbuf_rlen = 0 \/ n.rbuf_rlen = k.rbuf_rlen
      /\ n.state = "conn_nread" => Fits(n)
  BY DEF Done, Idle
<1>2. n.rbuf_rlen \in Nat /\ n.rbuf_now \in Nat /\ n.wbuf_len \in Nat
  BY <1>1, FieldTypes
<1>3. rlen \in Nat /\ now \in Nat
  BY <1>1, <1>2
<1>4. m = [n EXCEPT !.rbuf_rlen = rlen, !.rbuf_now = now]
  BY DEF Advanced
<1> HIDE DEF rlen, now, m
<1>5. /\ m \in ConnType /\ m.state = n.state /\ m.wbuf_wlen = 0 /\ m.wbuf_len = n.wbuf_len
      /\ m.rnbuf_rlen = 0 /\ m.rnbuf_len = n.rnbuf_len /\ m.rnbuf = n.rnbuf
  BY <1>1, <1>3, <1>4 DEF ConnType
<1>6. m \in Conns
  BY <1>1, <1>2, <1>5 DEF Conns, Sane, Fits
<1> QED
  BY <1>6 DEF m

\* try_read_command.
LEMMA TryReadCommandSane ==
  ASSUME NEW k \in Conns, k.state = "conn_parse_cmd", NEW m \in try_read_command(k)
  PROVE  m \in Conns
<1> DEFINE lf == EndOfLine(k)
<1>1. /\ k \in ConnType /\ k.wbuf_wlen = 0 /\ k.rnbuf_rlen = 0
      /\ k.rbuf_rlen \in Nat /\ Len(k.rbuf) \in Nat /\ k.wbuf_len \in Nat
  BY FieldTypes DEF Conns, Sane
<1>2. CASE m = [k EXCEPT !.state = "conn_waiting"]
  BY <1>1, <1>2 DEF Conns, Sane, ConnType, ConnState
<1>3. CASE m = Fault(k)
  BY <1>1, <1>3, FaultSane
<1>4. CASE /\ ~Overrun(k)
           /\ \E i \in 1..k.rbuf_rlen : k.rbuf[i] = "LF"
           /\ \E line \in Terminated(k, lf) : \E n \in process_command(line) :
                m \in IF n.state = "fault" THEN {n}
                      ELSE IF n.flag_shake THEN conn_shake(n, lf, n.rbuf_rlen - lf) ELSE {Advanced(n, lf)}
  <2>1. lf \in 1..k.rbuf_rlen
    <3> DEFINE S == {i \in 1..k.rbuf_rlen : k.rbuf[i] = "LF"}
    <3>1. S \subseteq Nat /\ S # {}
      BY <1>1, <1>4
    <3>2. Min(S) \in S
      BY <3>1, MinIsLeast
    <3> QED
      BY <3>2 DEF EndOfLine
  <2> HIDE DEF lf
  <2>2. PICK line \in Terminated(k, lf) : \E n \in process_command(line) :
          m \in IF n.state = "fault" THEN {n}
                ELSE IF n.flag_shake THEN conn_shake(n, lf, n.rbuf_rlen - lf) ELSE {Advanced(n, lf)}
    BY <1>4
  <2>3. PICK n \in process_command(line) :
          m \in IF n.state = "fault" THEN {n}
                ELSE IF n.flag_shake THEN conn_shake(n, lf, n.rbuf_rlen - lf) ELSE {Advanced(n, lf)}
    BY <2>2
  <2>4. k.rbuf_rlen <= Len(k.rbuf)
    BY <1>1, <1>4 DEF Overrun
  <2>5. Idle(line) /\ line.state = "conn_parse_cmd" /\ line.rbuf_rlen = k.rbuf_rlen
    BY <1>1, <2>1, <2>4, TerminatedIdle
  <2>6. Done(line, n)
    BY <2>5, ProcessDone
  <2>7. lf \in Nat \ {0} /\ lf <= line.rbuf_rlen
    BY <1>1, <2>1, <2>5
  <2>8. CASE n.state = "fault"
    <3>1. m = n
      BY <2>3, <2>8
    <3> QED
      BY <2>6, <3>1, DoneSane
  <2>9. CASE n.state # "fault" /\ n.flag_shake
    <3>1. m \in conn_shake(n, lf, n.rbuf_rlen - lf)
      BY <2>3, <2>9
    <3> QED
      BY <2>6, <2>7, <2>9, <3>1, ShakeSane
  <2>10. CASE n.state # "fault" /\ ~n.flag_shake
    BY <2>3, <2>6, <2>7, <2>10, AdvancedSane
  <2> QED
    BY <2>8, <2>9, <2>10
<1> QED
  BY <1>2, <1>3, <1>4 DEF try_read_command

-----------------------------------------------------------------------------
(* Reading *)

\* Doubling a length up to four times.
LEMMA Doublings ==
  ASSUME NEW len \in Nat, NEW n \in 0..4
  PROVE  /\ len * 2^n \in Nat /\ len <= len * 2^n
         /\ n = 0 => len * 2^n = len
         /\ n # 0 => (len * 2^n) \div 2 = len * 2^(n - 1)
<1>1. CASE n = 0
  <2>1. 2^n = 1
    BY <1>1
  <2> QED
    BY <1>1, <2>1
<1>2. CASE n = 1
  <2>1. 2^n = 2 /\ 2^(n - 1) = 1
    BY <1>2
  <2> QED
    BY <1>2, <2>1
<1>3. CASE n = 2
  <2>1. 2^n = 4 /\ 2^(n - 1) = 2
    BY <1>3
  <2> QED
    BY <1>3, <2>1
<1>4. CASE n = 3
  <2>1. 2^n = 8 /\ 2^(n - 1) = 4
    BY <1>4
  <2> QED
    BY <1>4, <2>1
<1>5. CASE n = 4
  <2>1. 2^n = 16 /\ 2^(n - 1) = 8
    BY <1>5
  <2> QED
    BY <1>5, <2>1
<1> QED
  BY <1>1, <1>2, <1>3, <1>4, <1>5

\* rbuf doubles at most four times, and only while what arrived does not fit.
LEMMA GrowthLeast ==
  ASSUME NEW k \in ConnType, NEW total \in Nat
  PROVE  /\ Growth(k, total) \in 0..4
         /\ Growth(k, total) # 0 => Len(k.rbuf) * 2^(Growth(k, total) - 1) <= total
         /\ Growth(k, total) = 4 \/ total < Len(k.rbuf) * 2^Growth(k, total)
<1> DEFINE S == {n \in 0..MaxGrowth : n = MaxGrowth \/ total < Len(k.rbuf) * 2^n}
           g == Min(S)
<1>1. Len(k.rbuf) \in Nat
  BY FieldTypes
<1>2. S \subseteq Nat /\ S # {} /\ S \subseteq 0..4
  BY DEF MaxGrowth
<1>3. g \in S /\ \A j \in S : g <= j
  BY <1>2, MinIsLeast
<1>4. g \in 0..4
  BY <1>2, <1>3
<1>5. g = 4 \/ total < Len(k.rbuf) * 2^g
  BY <1>3 DEF MaxGrowth
<1>6. ASSUME g # 0 PROVE Len(k.rbuf) * 2^(g - 1) <= total
  <2>1. g - 1 \in 0..4 /\ g - 1 # 4 /\ ~(g <= g - 1)
    BY <1>4, <1>6
  <2>2. g - 1 \notin S
    BY <1>3, <2>1
  <2>3. ~(total < Len(k.rbuf) * 2^(g - 1))
    BY <2>1, <2>2 DEF MaxGrowth
  <2>4. Len(k.rbuf) * 2^(g - 1) \in Nat
    BY <1>1, <2>1, Doublings
  <2> HIDE DEF g
  <2> QED
    BY <2>3, <2>4
<1> QED
  BY <1>4, <1>5, <1>6 DEF Growth

\* The fields that reading leaves alone.
SameReply(k, m) ==
  /\ m.flag_shake = k.flag_shake /\ m.wbuf_len = k.wbuf_len /\ m.wbuf_wlen = k.wbuf_wlen
  /\ m.rnbuf = k.rnbuf /\ m.rnbuf_len = k.rnbuf_len /\ m.rnbuf_rlen = k.rnbuf_rlen

\* memmove to the front of rbuf.
LEMMA MovedType ==
  ASSUME NEW k \in ConnType, k.rbuf_rlen <= Len(k.rbuf), NEW m \in Moved(k)
  PROVE  /\ m \in ConnType /\ SameReply(k, m)
         /\ m.rbuf_rlen = k.rbuf_rlen /\ Len(m.rbuf) = Len(k.rbuf)
<1>1. /\ k.rbuf \in Seq(Unit) /\ Len(k.rbuf) \in Nat /\ k.rbuf_now \in Nat /\ k.rbuf_rlen \in Nat
  BY FieldTypes
<1>2. CASE m = k
  BY <1>2 DEF SameReply
<1>3. ASSUME NEW beyond \in {"NUL", "junk"},
             m = [k EXCEPT !.rbuf = Over(@, [i \in 1..k.rbuf_rlen |->
                                              IF k.rbuf_now + i <= Len(@) THEN @[k.rbuf_now + i]
                                              ELSE beyond]),
                           !.rbuf_now = 0]
      PROVE  /\ m \in ConnType /\ SameReply(k, m)
             /\ m.rbuf_rlen = k.rbuf_rlen /\ Len(m.rbuf) = Len(k.rbuf)
  <2> DEFINE p == [i \in 1..k.rbuf_rlen |->
                     IF k.rbuf_now + i <= Len(k.rbuf) THEN k.rbuf[k.rbuf_now + i] ELSE beyond]
             z == Over(k.rbuf, p)
  <2>1. p \in Seq(Unit) /\ Len(p) = k.rbuf_rlen
    <3>1. beyond \in Unit
      BY DEF Unit
    <3>2. \A i \in 1..k.rbuf_rlen :
            k.rbuf_now + i <= Len(k.rbuf) => k.rbuf[k.rbuf_now + i] \in Unit
      BY <1>1
    <3>3. p \in [1..k.rbuf_rlen -> Unit]
      BY <3>1, <3>2
    <3> HIDE DEF p
    <3> QED
      BY <1>1, <3>3, TableType
  <2>2. m = [k EXCEPT !.rbuf = z, !.rbuf_now = 0]
    BY <1>3
  <2> HIDE DEF p
  <2>3. z \in Seq(Unit) /\ Len(z) = Len(k.rbuf)
    BY <1>1, <2>1, OverType
  <2> HIDE DEF z
  <2> QED
    BY <2>2, <2>3 DEF ConnType, SameReply
<1> QED
  BY <1>2, <1>3 DEF Moved

\* The loop of reads.
LEMMA ReadIntoSane ==
  ASSUME NEW k \in ConnType, k.rbuf_rlen <= Len(k.rbuf), k.wbuf_wlen = 0, k.rnbuf_rlen = 0,
         NEW arrived \in Seq(Unit), NEW gone \in BOOLEAN, NEW fill \in Fresh,
         NEW n, n = Growth(k, k.rbuf_rlen + Len(arrived))
  PROVE  /\ ReadInto(k, arrived, gone, n, fill) \in Conns
         /\ ReadInto(k, arrived, gone, n, fill).rbuf_rlen - k.rbuf_rlen \in Nat
<1> DEFINE len   == Len(k.rbuf)
           total == k.rbuf_rlen + Len(arrived)
           size  == len * 2^n
           taken == Min2(total, size)
           start == IF n = 0 THEN k.rbuf_rlen ELSE size \div 2
           z     == [i \in 1..size |->
                       IF i \in (k.rbuf_rlen + 1)..taken THEN arrived[i - k.rbuf_rlen]
                       ELSE IF i <= Len(k.rbuf) THEN k.rbuf[i] ELSE fill]
           state == IF taken = start /\ gone THEN "conn_closed"
                    ELSE IF arrived = <<>> THEN "conn_waiting"
                    ELSE "conn_parse_cmd"
           m     == ReadInto(k, arrived, gone, n, fill)
<1>1. /\ k.rbuf \in Seq(Unit) /\ len \in Nat /\ k.rbuf_rlen \in Nat /\ Len(arrived) \in Nat
      /\ total \in Nat /\ k.wbuf_len \in Nat
  BY FieldTypes
<1>2. n \in 0..4 /\ (n # 0 => len * 2^(n - 1) <= total)
  BY <1>1, GrowthLeast
<1>3. /\ size \in Nat /\ len <= size /\ (n = 0 => size = len)
      /\ n # 0 => size \div 2 = len * 2^(n - 1)
  BY <1>1, <1>2, Doublings
<1>4. m = [k EXCEPT !.rbuf = z, !.rbuf_now = taken - start, !.rbuf_rlen = taken, !.state = state]
  BY DEF ReadInto
<1> HIDE DEF size
<1>5. /\ taken \in Nat /\ taken <= total /\ taken <= size
      /\ taken - k.rbuf_rlen \in Nat /\ taken - start \in Nat
  <2>1. taken \in Nat /\ taken <= total /\ taken <= size /\ (taken = total \/ taken = size)
    BY <1>1, <1>3 DEF Min2
  <2>2. n # 0 => size \div 2 \in Nat /\ size \div 2 <= size
    BY <1>3
  <2> HIDE DEF taken
  <2> QED
    BY <1>1, <1>2, <1>3, <2>1, <2>2
<1> HIDE DEF taken
<1>6. z \in Seq(Unit)
  <2>1. fill \in Unit
    BY ConnAssumption DEF Unit
  <2>2. \A i \in (k.rbuf_rlen + 1)..taken : arrived[i - k.rbuf_rlen] \in Unit
    BY <1>1, <1>5
  <2>3. \A i \in 1..size : i <= Len(k.rbuf) => k.rbuf[i] \in Unit
    BY <1>1
  <2>4. z \in [1..size -> Unit]
    BY <2>1, <2>2, <2>3
  <2> HIDE DEF z
  <2> QED
    BY <1>3, <2>4, TableType
<1>7. state \in {"conn_closed", "conn_waiting", "conn_parse_cmd"}
  OBVIOUS
<1> HIDE DEF z, start, state, m
<1>8. /\ m \in ConnType /\ m.rbuf_rlen = taken /\ m.state = state
      /\ m.wbuf_wlen = 0 /\ m.wbuf_len = k.wbuf_len /\ m.rnbuf_rlen = 0
  BY <1>4, <1>5, <1>6, <1>7 DEF ConnType, ConnState
<1>9. m \in Conns
  BY <1>1, <1>7, <1>8 DEF Conns, Sane
<1> QED
  BY <1>5, <1>8, <1>9 DEF m

\* try_read_tcp.
LEMMA TryReadTcpSane ==
  ASSUME NEW k \in Conns, k.state = "conn_read",
         NEW arrived \in Seq(Unit), NEW gone \in BOOLEAN,
         NEW m \in try_read_tcp(k, arrived, gone)
  PROVE  m \in Conns /\ m.rbuf_rlen - k.rbuf_rlen \in Nat
<1>1. /\ k \in ConnType /\ k.wbuf_wlen = 0 /\ k.rnbuf_rlen = 0
      /\ k.rbuf_rlen \in Nat /\ Len(k.rbuf) \in Nat /\ k.wbuf_len \in Nat
  BY FieldTypes DEF Conns, Sane
<1>2. CASE m = Fault(k)
  <2>1. m \in Conns
    BY <1>1, <1>2, FaultSane
  <2>2. m.rbuf_rlen = k.rbuf_rlen
    BY <1>1, <1>2 DEF Fault, ConnType
  <2> QED
    BY <1>1, <2>1, <2>2
<1>3. CASE /\ ~Overrun(k)
           /\ \E o \in Moved(k), fill \in Fresh :
                m = ReadInto(o, arrived, gone, Growth(o, o.rbuf_rlen + Len(arrived)), fill)
  <2>1. PICK o \in Moved(k), fill \in Fresh :
          m = ReadInto(o, arrived, gone, Growth(o, o.rbuf_rlen + Len(arrived)), fill)
    BY <1>3
  <2>2. k.rbuf_rlen <= Len(k.rbuf)
    BY <1>1, <1>3 DEF Overrun
  <2>3. /\ o \in ConnType /\ SameReply(k, o)
        /\ o.rbuf_rlen = k.rbuf_rlen /\ Len(o.rbuf) = Len(k.rbuf)
    BY <1>1, <2>2, MovedType
  <2>4. o.rbuf_rlen <= Len(o.rbuf) /\ o.wbuf_wlen = 0 /\ o.rnbuf_rlen = 0
    BY <1>1, <2>2, <2>3 DEF SameReply
  <2> QED
    BY <2>1, <2>3, <2>4, ReadIntoSane
<1> QED
  BY <1>2, <1>3 DEF try_read_tcp

\* A value that is read stays within its memory.
LEMMA ReadValueSane ==
  ASSUME NEW k \in Conns, k.state = "conn_nread", NEW piece \in Seq(Unit),
         Len(piece) <= IF k.flag_shake THEN 0 ELSE k.rnbuf_len - k.rnbuf_rlen
  PROVE  /\ ReadValue(k, piece) \in Conns /\ ReadValue(k, piece).state = "conn_nread"
         /\ ReadValue(k, piece).rnbuf \in Seq(Unit)
<1> DEFINE z == Over(k.rnbuf, piece)
           m == ReadValue(k, piece)
<1>1. /\ k \in ConnType /\ k.wbuf_wlen = 0 /\ Len(piece) \in Nat /\ k.flag_shake \in BOOLEAN
      /\ k.rnbuf \in Seq(Unit) /\ k.rnbuf_rlen \in Nat /\ k.rnbuf_len \in Nat /\ Len(k.rnbuf) \in Nat
      /\ k.wbuf_len \in Nat
      /\ ~k.flag_shake => Fits(k)
  BY FieldTypes DEF Conns, Sane
<1>2. /\ z \in Seq(Unit)
      /\ Len(z) = IF Len(piece) <= Len(k.rnbuf) THEN Len(k.rnbuf) ELSE Len(piece)
  BY <1>1, OverType
<1> DEFINE rlen == k.rnbuf_rlen + Len(piece)
<1>3. m = [k EXCEPT !.rnbuf = z, !.rnbuf_rlen = rlen] /\ rlen \in Nat
  BY <1>1 DEF ReadValue
<1> HIDE DEF z, m, rlen
<1>4. /\ m \in ConnType /\ m.state = k.state /\ m.flag_shake = k.flag_shake
      /\ m.wbuf_wlen = 0 /\ m.wbuf_len = k.wbuf_len
      /\ m.rnbuf = z /\ m.rnbuf_len = k.rnbuf_len /\ m.rnbuf_rlen = rlen
  BY <1>1, <1>2, <1>3 DEF ConnType
<1>5. ASSUME ~k.flag_shake PROVE Fits(m)
  <2>1. /\ k.rnbuf_len \in 2..(IntMod \div 2 - 1)
        /\ k.rnbuf_rlen \in 0..k.rnbuf_len /\ Len(k.rnbuf) = k.rnbuf_len
    BY <1>1, <1>5 DEF Fits
  <2>2. Len(piece) <= k.rnbuf_len - k.rnbuf_rlen
    BY <1>5
  <2>3. Len(z) = k.rnbuf_len
    BY <1>1, <1>2, <2>1, <2>2
  <2>4. m.rnbuf_rlen \in 0..m.rnbuf_len
    BY <1>1, <1>4, <2>2 DEF rlen
  <2> QED
    BY <1>4, <2>1, <2>3, <2>4 DEF Fits
<1>6. m \in Conns
  BY <1>1, <1>4, <1>5 DEF Conns, Sane
<1> QED
  BY <1>2, <1>4, <1>6 DEF m

\* The end of the switch on cmd.
LEMMA StoreResultSane ==
  ASSUME NEW k \in Conns, k.state = "conn_nread", NEW m \in StoreResult(k)
  PROVE  m \in Conns
<1>1. /\ k \in ConnType /\ k.wbuf_wlen = 0 /\ k.wbuf_len \in Nat
      /\ ~k.flag_shake => Fits(k)
  BY FieldTypes DEF Conns, Sane
<1>2. CASE k.cmd = "unknown"
  <2>1. m = WatchWrite(k)
    BY <1>2 DEF StoreResult
  <2>2. /\ m \in ConnType /\ SameBuffers(k, m) /\ m.state = k.state /\ m.wbuf_len = k.wbuf_len
    BY <1>1, <2>1, WatchWriteType DEF WatchWrite, ConnType
  <2> QED
    BY <1>1, <2>2 DEF Conns, Sane, SameBuffers, Fits
<1>3. CASE k.cmd # "unknown"
  <2> DEFINE n == [k EXCEPT !.rnbuf = <<>>, !.rnbuf_rlen = 0]
  <2>1. n \in ConnType /\ n.wbuf_wlen = 0 /\ n.rnbuf_rlen = 0
    <3>1. <<>> \in Seq(Unit)
      OBVIOUS
    <3> QED
      BY <1>1, <3>1 DEF ConnType
  <2> HIDE DEF n
  <2>2. PICK str \in Reply : m = Answered(n, str)
    BY <1>3 DEF StoreResult, n, Reply
  <2>3. /\ m \in ConnType /\ SameBuffers(n, m) /\ m.state = "conn_write"
    BY <2>1, <2>2, AnsweredType
  <2>4. m.wbuf_len \in Nat
    BY <2>3, FieldTypes
  <2> QED
    BY <2>1, <2>3, <2>4 DEF Conns, Sane, SameBuffers
<1> QED
  BY <1>2, <1>3

\* read_value_stored.
LEMMA ReadValueStoredSane ==
  ASSUME NEW k \in Conns, k.state = "conn_nread", NEW piece \in Seq(Unit),
         Len(piece) <= IF k.flag_shake THEN 0 ELSE k.rnbuf_len - k.rnbuf_rlen,
         NEW closed \in BOOLEAN, NEW m \in read_value_stored(k, piece, closed)
  PROVE  m \in Conns
<1> DEFINE n == ReadValue(k, piece)
<1>1. n \in Conns /\ n.state = "conn_nread"
  BY ReadValueSane
<1> HIDE DEF n
<1>2. CASE m = [k EXCEPT !.state = "conn_closed"]
  <2>1. k \in ConnType /\ k.wbuf_wlen = 0 /\ k.wbuf_len \in Nat
    BY FieldTypes DEF Conns, Sane
  <2> QED
    BY <1>2, <2>1 DEF Conns, Sane, ConnType, ConnState
<1>3. CASE m = n
  BY <1>1, <1>3
<1>4. CASE m \in StoreResult(n)
  BY <1>1, <1>4, StoreResultSane
<1> QED
  BY <1>2, <1>3, <1>4 DEF read_value_stored, n

-----------------------------------------------------------------------------
(* Writing *)

\* write_activate_read.
LEMMA WriteSane ==
  ASSUME NEW k \in Conns, k.state = "conn_write", NEW n \in Nat, n <= k.wbuf_len - k.wbuf_wlen
  PROVE  write_activate_read(k, n) \in Conns
<1>1. k \in ConnType /\ k.wbuf_wlen \in Nat /\ k.wbuf_len \in Nat /\ k.rnbuf_rlen = 0
  BY FieldTypes DEF Conns, Sane
<1>2. CASE k.wbuf_wlen + n < k.wbuf_len
  <2> DEFINE wlen == k.wbuf_wlen + n
             m == [k EXCEPT !.wbuf_wlen = wlen]
  <2>1. wlen \in Nat /\ wlen <= k.wbuf_len
    BY <1>1, <1>2
  <2>2. write_activate_read(k, n) = m
    BY <1>2 DEF write_activate_read
  <2> HIDE DEF wlen
  <2>3. /\ m \in ConnType /\ m.state = "conn_write" /\ m.rnbuf_rlen = 0
        /\ m.wbuf_wlen = wlen /\ m.wbuf_len = k.wbuf_len
    BY <1>1, <2>1 DEF ConnType
  <2> HIDE DEF m
  <2> QED
    BY <2>1, <2>2, <2>3 DEF Conns, Sane
<1>3. CASE ~(k.wbuf_wlen + n < k.wbuf_len)
  <2> DEFINE m == [k EXCEPT !.wbuf       = None,
                            !.wbuf_stale = FALSE,
                            !.wbuf_len   = WriteBufLen,
                            !.wbuf_wlen  = 0,
                            !.watching   = {"read"},
                            !.state      = "conn_waiting"]
  <2>1. WriteBufLen \in Nat
    BY ConnAssumption
  <2>2. /\ m \in ConnType /\ m.state = "conn_waiting" /\ m.rnbuf_rlen = 0
        /\ m.wbuf_wlen = 0 /\ m.wbuf_len \in Nat
    BY <1>1, <2>1 DEF ConnType, ConnState
  <2>3. write_activate_read(k, n) = m
    BY <1>3 DEF write_activate_read
  <2> HIDE DEF m
  <2> QED
    BY <2>2, <2>3 DEF Conns, Sane
<1> QED
  BY <1>2, <1>3

-----------------------------------------------------------------------------
(* Clients *)

\* The parts of a request.
LEMMA PartsType ==
  ASSUME NEW r \in Request
  PROVE  Parts(r) \in Seq(Seq(Unit))
<1>1. Info[r].pad \in Nat /\ Info[r].value \in Seq({"d1", "d2"})
  BY InfoType
<1>2. r \in Unit /\ {"SP", "CR", "LF", "d1", "d2"} \subseteq Unit
  BY DEF Unit, Blank
<1> DEFINE sp == [i \in 1..Info[r].pad |-> "SP"]
           crlf == <<"CR", "LF">>
<1>3. sp \in Seq(Unit)
  <2>1. sp \in [1..Info[r].pad -> Unit]
    BY <1>2
  <2> QED
    BY <1>1, <2>1, TableType
<1>4. <<r>> \in Seq(Unit) /\ crlf \in Seq(Unit)
  BY <1>2
<1> HIDE DEF sp, crlf
<1>5. <<r>> \o sp \o crlf \in Seq(Unit)
  BY <1>3, <1>4, ConcatProperties
<1>6. Line(r) \in Seq(Unit)
  BY <1>5 DEF Line, sp, crlf
<1>7. Info[r].value \in Seq(Unit)
  BY <1>1, <1>2, SeqMonotonic
<1>8. Value(r) \in Seq(Unit)
  BY <1>4, <1>7, ConcatProperties DEF Value, crlf
<1> QED
  BY <1>6, <1>8 DEF Parts

\* The variables of one connection.
LEMMA ConnInvFacts ==
  ASSUME ConnInv, NEW c \in Client
  PROVE  /\ conn[c] \in Conns /\ conn[c] \in ConnType
         /\ tosend[c] \in Seq(Seq(Unit)) /\ sock[c] \in Seq(Unit)
         /\ room[c] \in 0..SendRoom /\ room[c] \in Nat
         /\ peer[c] \in PeerState
         /\ session[c].value \in Seq(Unit)
<1>1. SendRoom \in Nat
  BY ClientsAssumption
<1> QED
  BY <1>1 DEF ConnInv, TypeOK

\* Nothing is read or written at the start.
LEMMA InitConnInv == Init => ConnInv
<1> SUFFICES ASSUME Init PROVE ConnInv
  OBVIOUS
<1>1. PICK fill \in Fresh : conn \in [Client -> {NewConn(fill, b) : b \in BOOLEAN}]
  BY DEF Init
<1>2. ASSUME NEW b \in BOOLEAN PROVE NewConn(fill, b) \in Conns
  <2> DEFINE z == [i \in 1..ReadBufLen |-> fill]
             k == NewConn(fill, b)
  <2>1. fill \in Unit /\ ReadBufLen \in Nat /\ WriteBufLen \in Nat
    BY ConnAssumption DEF Unit
  <2>2. z \in Seq(Unit)
    <3>1. z \in [1..ReadBufLen -> Unit]
      BY <2>1
    <3> QED
      BY <2>1, <3>1, TableType
  <2>3. <<>> \in Seq(Unit)
    OBVIOUS
  <2>4. k = [state       |-> "conn_read",
             flag_shake  |-> FALSE,
             flag_precmd |-> b,
             rbuf        |-> z,
             rbuf_now    |-> 0,
             rbuf_rlen   |-> 0,
             rnbuf       |-> <<>>,
             rnbuf_len   |-> 0,
             rnbuf_rlen  |-> 0,
             cmd         |-> "unknown",
             wbuf        |-> None,
             wbuf_stale  |-> FALSE,
             wbuf_size   |-> WriteBufLen,
             wbuf_len    |-> WriteBufLen,
             wbuf_wlen   |-> 0,
             watching    |-> {"read"}]
    BY DEF NewConn
  <2> HIDE DEF z, k
  <2>5. /\ k \in ConnType /\ k.state = "conn_read" /\ k.wbuf_wlen = 0 /\ k.rnbuf_rlen = 0
        /\ k.wbuf_len \in Nat
    BY <2>1, <2>2, <2>3, <2>4 DEF ConnType, ConnState
  <2>6. k \in Conns
    BY <2>5 DEF Conns, Sane
  <2> QED
    BY <2>6 DEF k
<1>3. \A c \in Client : conn[c] \in Conns
  BY <1>1, <1>2
<1>4. conn \in [Client -> ConnType]
  BY <1>1, <1>3 DEF Conns
<1>5. /\ running \in Client \cup {NoClient}
      /\ tosend \in [Client -> Seq(Seq(Unit))]
      /\ sock \in [Client -> Seq(Unit)]
      /\ peer \in [Client -> PeerState]
  BY DEF Init, PeerState
<1>6. room \in [Client -> 0..SendRoom]
  BY ClientsAssumption DEF Init
<1>7. session \in [Client -> [req : Request \cup {None}, value : Seq(Unit),
                              reply : Reply \cup {None}]]
  BY DEF Init, Nobody
<1> QED
  BY <1>3, <1>4, <1>5, <1>6, <1>7 DEF ConnInv, TypeOK

\* The steps of clients and kernel.
LEMMA AskStep ==
  ASSUME ConnInv, NEW c \in Client, NEW r \in Request, Ask(c, r)
  PROVE  ConnInv'
<1>1. Parts(r) \in Seq(Seq(Unit))
  BY PartsType
<1>2. tosend' \in [Client -> Seq(Seq(Unit))]
  BY <1>1 DEF Ask, ConnInv, TypeOK
<1>3. session' \in [Client -> [req : Request \cup {None}, value : Seq(Unit),
                               reply : Reply \cup {None}]]
  <2>1. [Nobody EXCEPT !.req = r] \in [req : Request \cup {None}, value : Seq(Unit),
                                       reply : Reply \cup {None}]
    <3>1. [Nobody EXCEPT !.req = r] = [req |-> r, value |-> <<>>, reply |-> None]
      BY DEF Nobody
    <3>2. <<>> \in Seq(Unit)
      OBVIOUS
    <3> QED
      BY <3>1, <3>2
  <2> QED
    BY <2>1 DEF Ask, ConnInv, TypeOK
<1> QED
  BY <1>2, <1>3 DEF Ask, ConnInv, TypeOK

LEMMA SendStep ==
  ASSUME ConnInv, NEW c \in Client, Send(c)
  PROVE  ConnInv'
<1> DEFINE part == Head(tosend[c])
<1>1. tosend[c] \in Seq(Seq(Unit)) /\ tosend[c] # <<>> /\ sock[c] \in Seq(Unit)
  BY ConnInvFacts DEF Send
<1>2. part \in Seq(Unit) /\ Tail(tosend[c]) \in Seq(Seq(Unit)) /\ Len(part) \in Nat
  BY <1>1, HeadTailProperties
<1>3. PICK n \in 1..Len(part) :
        /\ sock' = [sock EXCEPT ![c] = @ \o SubSeq(part, 1, n)]
        /\ tosend' = [tosend EXCEPT ![c] =
             IF n = Len(part) THEN Tail(@) ELSE <<SubSeq(part, n + 1, Len(part))>> \o Tail(@)]
  BY DEF Send
<1> HIDE DEF part
<1>4. n \in Nat \ {0} /\ n + 1 \in Nat \ {0} /\ n <= Len(part)
  BY <1>2, <1>3
<1>5. SubSeq(part, 1, n) \in Seq(Unit) /\ SubSeq(part, n + 1, Len(part)) \in Seq(Unit)
  BY <1>2, <1>4, PieceType
<1>6. sock[c] \o SubSeq(part, 1, n) \in Seq(Unit)
  BY <1>1, <1>5, ConcatProperties
<1>7. <<SubSeq(part, n + 1, Len(part))>> \o Tail(tosend[c]) \in Seq(Seq(Unit))
  <2>1. <<SubSeq(part, n + 1, Len(part))>> \in Seq(Seq(Unit))
    BY <1>5
  <2> QED
    BY <1>2, <2>1, ConcatProperties
<1>8. sock' \in [Client -> Seq(Unit)] /\ tosend' \in [Client -> Seq(Seq(Unit))]
  BY <1>2, <1>3, <1>6, <1>7 DEF ConnInv, TypeOK
<1> QED
  BY <1>8 DEF Send, ConnInv, TypeOK

LEMMA DrainStep ==
  ASSUME ConnInv, NEW c \in Client, Drain(c)
  PROVE  ConnInv'
BY ClientsAssumption DEF Drain, ConnInv, TypeOK

LEMMA LeaveStep ==
  ASSUME ConnInv, NEW c \in Client, Leave(c)
  PROVE  ConnInv'
<1>1. peer' \in [Client -> PeerState] /\ tosend' \in [Client -> Seq(Seq(Unit))]
  BY DEF Leave, ConnInv, TypeOK, PeerState
<1> QED
  BY <1>1 DEF Leave, ConnInv, TypeOK

LEMMA ResetStep ==
  ASSUME ConnInv, NEW c \in Client, Reset(c)
  PROVE  ConnInv'
<1>1. peer' \in [Client -> PeerState]
  BY DEF Reset, ConnInv, TypeOK, PeerState
<1> QED
  BY <1>1 DEF Reset, ConnInv, TypeOK

LEMMA WakeStep ==
  ASSUME ConnInv, NEW c \in Client, Wake(c)
  PROVE  ConnInv'
BY DEF Wake, ConnInv, TypeOK

-----------------------------------------------------------------------------
(* The worker *)

\* A step of the worker that replaces one connection object.
LEMMA ReplaceConn ==
  ASSUME ConnInv, NEW c \in Client, NEW k \in Conns, conn' = [conn EXCEPT ![c] = k]
  PROVE  conn' \in [Client -> ConnType] /\ \A d \in Client : conn'[d] \in Conns
BY DEF ConnInv, TypeOK, Conns

\* A change of state that asks for nothing.
LEMMA StateChange ==
  ASSUME NEW k \in Conns, NEW state \in ConnState,
         \/ state \in {"conn_closed", "sigpipe"}
         \/ k.state = "conn_waiting" /\ state = "conn_read"
  PROVE  [k EXCEPT !.state = state] \in Conns
<1> DEFINE m == [k EXCEPT !.state = state]
<1>1. /\ k \in ConnType /\ k.wbuf_wlen <= k.wbuf_len
      /\ k.state = "conn_waiting" => k.wbuf_wlen = 0 /\ k.rnbuf_rlen = 0
  BY DEF Conns, Sane
<1>2. /\ m \in ConnType /\ m.state = state
      /\ m.wbuf_wlen = k.wbuf_wlen /\ m.wbuf_len = k.wbuf_len /\ m.rnbuf_rlen = k.rnbuf_rlen
  BY <1>1 DEF ConnType
<1> HIDE DEF m
<1>3. m \in Conns
  BY <1>1, <1>2 DEF Conns, Sane
<1> QED
  BY <1>3 DEF m

LEMMA WaitingStep ==
  ASSUME ConnInv, NEW c \in Client, conn_waiting(c)
  PROVE  ConnInv'
<1> DEFINE k == [conn[c] EXCEPT !.state = "conn_read"]
<1>1. k \in Conns
  BY ConnInvFacts, StateChange DEF conn_waiting, At, ConnState
<1>2. conn' = [conn EXCEPT ![c] = k]
  BY DEF conn_waiting
<1> HIDE DEF k
<1>3. conn' \in [Client -> ConnType] /\ \A d \in Client : conn'[d] \in Conns
  BY <1>1, <1>2, ReplaceConn
<1> QED
  BY <1>3 DEF conn_waiting, ConnInv, TypeOK

LEMMA ReadStep ==
  ASSUME ConnInv, NEW c \in Client, conn_read(c)
  PROVE  ConnInv'
<1>1. /\ conn[c] \in Conns /\ conn[c].state = "conn_read" /\ sock[c] \in Seq(Unit)
      /\ (peer[c] # "here") \in BOOLEAN
  BY ConnInvFacts DEF conn_read, At
<1>2. PICK k \in try_read_tcp(conn[c], sock[c], peer[c] # "here") :
        /\ conn' = [conn EXCEPT ![c] = k]
        /\ sock' = [sock EXCEPT ![c] = SubSeq(@, k.rbuf_rlen - conn[c].rbuf_rlen + 1, Len(@))]
  BY DEF conn_read
<1>3. k \in Conns /\ k.rbuf_rlen - conn[c].rbuf_rlen \in Nat
  BY <1>1, TryReadTcpSane
<1>4. SubSeq(sock[c], k.rbuf_rlen - conn[c].rbuf_rlen + 1, Len(sock[c])) \in Seq(Unit)
  <2>1. k.rbuf_rlen - conn[c].rbuf_rlen + 1 \in Nat \ {0} /\ Len(sock[c]) \in Nat
    BY <1>1, <1>3
  <2> QED
    BY <1>1, <2>1, PieceType
<1>5. conn' \in [Client -> ConnType] /\ \A d \in Client : conn'[d] \in Conns
  BY <1>2, <1>3, ReplaceConn
<1>6. sock' \in [Client -> Seq(Unit)]
  BY <1>2, <1>4 DEF ConnInv, TypeOK
<1> QED
  BY <1>5, <1>6 DEF conn_read, ConnInv, TypeOK

LEMMA ParseStep ==
  ASSUME ConnInv, NEW c \in Client, conn_parse_cmd(c)
  PROVE  ConnInv'
<1>1. conn[c] \in Conns /\ conn[c].state = "conn_parse_cmd"
  BY ConnInvFacts DEF conn_parse_cmd, At
<1>2. PICK k \in try_read_command(conn[c]) :
        /\ conn' = [conn EXCEPT ![c] = k]
        /\ running' = IF k.flag_shake \/ k.state = "conn_closed" THEN c ELSE NoClient
  BY DEF conn_parse_cmd
<1>3. k \in Conns
  BY <1>1, TryReadCommandSane
<1>4. conn' \in [Client -> ConnType] /\ \A d \in Client : conn'[d] \in Conns
  BY <1>2, <1>3, ReplaceConn
<1>5. running' \in Client \cup {NoClient}
  BY <1>2
<1> QED
  BY <1>4, <1>5 DEF conn_parse_cmd, ConnInv, TypeOK

LEMMA NreadStep ==
  ASSUME ConnInv, NEW c \in Client, conn_nread(c)
  PROVE  ConnInv'
<1> DEFINE k       == conn[c]
           missing == IF k.flag_shake THEN 0 ELSE k.rnbuf_len - k.rnbuf_rlen
           n       == Min2(missing, Len(sock[c]))
           dry     == missing > 0 /\ n = 0
           piece   == SubSeq(sock[c], 1, n)
           closed  == dry /\ peer[c] \in {"fin", "late", "pipe"}
<1>1. k \in Conns /\ k \in ConnType /\ k.state = "conn_nread" /\ sock[c] \in Seq(Unit)
  BY ConnInvFacts DEF conn_nread, At
<1>2. missing \in Nat
  <2>1. k.flag_shake \in BOOLEAN /\ k.rnbuf_len \in Nat /\ k.rnbuf_rlen \in Nat
    BY <1>1, FieldTypes
  <2>2. ~k.flag_shake => k.rnbuf_rlen \in 0..k.rnbuf_len
    BY <1>1 DEF Conns, Sane, Fits
  <2> QED
    BY <2>1, <2>2
<1>3. n \in Nat /\ n <= missing /\ n <= Len(sock[c])
  <2>1. Len(sock[c]) \in Nat
    BY <1>1
  <2> HIDE DEF missing
  <2> QED
    BY <1>2, <2>1 DEF Min2
<1>4. PICK new \in read_value_stored(k, piece, closed) :
        /\ conn' = [conn EXCEPT ![c] = new]
        /\ session' = IF new.state = "conn_write"
                      THEN [session EXCEPT ![c].value = ReadValue(k, piece).rnbuf]
                      ELSE session
  BY DEF conn_nread
<1>5. /\ sock' = [sock EXCEPT ![c] = SubSeq(@, n + 1, Len(@))]
      /\ peer' = IF dry /\ peer[c] = "rst" THEN [peer EXCEPT ![c] = "pipe"] ELSE peer
      /\ UNCHANGED <<running, tosend, room>>
  BY DEF conn_nread
<1> HIDE DEF n
<1>6. piece \in Seq(Unit) /\ Len(piece) = n
  <2>1. 1 \in Nat \ {0}
    OBVIOUS
  <2>2. /\ piece \in Seq(Unit)
        /\ Len(piece) = IF 1 <= n THEN n - 1 + 1 ELSE 0
    BY <1>1, <1>3, <2>1, PieceType
  <2> HIDE DEF piece
  <2> QED
    BY <1>3, <2>2
<1>7. SubSeq(sock[c], n + 1, Len(sock[c])) \in Seq(Unit)
  <2>1. n + 1 \in Nat \ {0} /\ Len(sock[c]) \in Nat
    BY <1>1, <1>3
  <2> QED
    BY <1>1, <2>1, PieceType
<1>8. closed \in BOOLEAN
  OBVIOUS
<1> HIDE DEF k, piece, closed, dry
<1>9. Len(piece) <= IF k.flag_shake THEN 0 ELSE k.rnbuf_len - k.rnbuf_rlen
  BY <1>3, <1>6
<1> HIDE DEF missing
<1>10. new \in Conns /\ ReadValue(k, piece).rnbuf \in Seq(Unit)
  <2>1. new \in Conns
    BY <1>1, <1>4, <1>6, <1>8, <1>9, ReadValueStoredSane
  <2>2. ReadValue(k, piece).rnbuf \in Seq(Unit)
    BY <1>1, <1>6, <1>9, ReadValueSane
  <2> QED
    BY <2>1, <2>2
<1>11. conn' \in [Client -> ConnType] /\ \A d \in Client : conn'[d] \in Conns
  BY <1>4, <1>10, ReplaceConn
<1>12. sock' \in [Client -> Seq(Unit)] /\ peer' \in [Client -> PeerState]
  BY <1>5, <1>7 DEF ConnInv, TypeOK, PeerState
<1>13. session' \in [Client -> [req : Request \cup {None}, value : Seq(Unit),
                                reply : Reply \cup {None}]]
  BY <1>4, <1>10 DEF ConnInv, TypeOK
<1> QED
  BY <1>5, <1>11, <1>12, <1>13 DEF ConnInv, TypeOK

LEMMA WriteStep ==
  ASSUME ConnInv, NEW c \in Client, conn_write(c)
  PROVE  ConnInv'
<1> DEFINE k    == conn[c]
           n    == Min2(k.wbuf_len - k.wbuf_wlen, room[c])
           done == k.wbuf_wlen + n = k.wbuf_len
<1>1. /\ k \in Conns /\ k \in ConnType /\ k.state = "conn_write" /\ room[c] \in 0..SendRoom
      /\ room[c] \in Nat
  BY ConnInvFacts DEF conn_write, At
<1>2. /\ k.wbuf_len \in Nat /\ k.wbuf_wlen \in Nat /\ k.wbuf_wlen <= k.wbuf_len
      /\ k.wbuf \in Reply \cup {None}
  BY <1>1, FieldTypes DEF Conns, Sane
<1>3. n \in Nat /\ n <= k.wbuf_len - k.wbuf_wlen /\ n <= room[c]
  BY <1>1, <1>2 DEF Min2
<1>4. PICK str \in IF k.wbuf_stale THEN {k.wbuf, "GARBAGE"} ELSE {k.wbuf} :
        session' = IF done THEN [session EXCEPT ![c].reply = str] ELSE session
  BY DEF conn_write
<1>5. /\ conn' = [conn EXCEPT ![c] = write_activate_read(k, n)]
      /\ room' = [room EXCEPT ![c] = @ - n]
      /\ peer' = [peer EXCEPT ![c] = IF @ = "fin" THEN "late" ELSE @]
      /\ UNCHANGED <<running, tosend, sock>>
  BY DEF conn_write
<1>6. str \in Reply \cup {None}
  <2>1. "GARBAGE" \in Reply
    BY DEF Reply
  <2> QED
    BY <1>2, <1>4, <2>1
<1> HIDE DEF n, done, k
<1>7. write_activate_read(k, n) \in Conns
  BY <1>1, <1>3, WriteSane
<1>8. conn' \in [Client -> ConnType] /\ \A d \in Client : conn'[d] \in Conns
  BY <1>5, <1>7, ReplaceConn
<1>9. room' \in [Client -> 0..SendRoom]
  <2>1. SendRoom \in Nat
    BY ClientsAssumption
  <2>2. room[c] - n \in 0..SendRoom
    BY <1>1, <1>3, <2>1
  <2> QED
    BY <1>5, <2>2 DEF ConnInv, TypeOK
<1>10. peer' \in [Client -> PeerState]
  BY <1>5 DEF ConnInv, TypeOK, PeerState
<1>11. session' \in [Client -> [req : Request \cup {None}, value : Seq(Unit),
                                reply : Reply \cup {None}]]
  BY <1>4, <1>6 DEF ConnInv, TypeOK
<1> QED
  BY <1>5, <1>8, <1>9, <1>10, <1>11 DEF ConnInv, TypeOK

LEMMA WriteEndsStep ==
  ASSUME ConnInv, NEW c \in Client, WriteFails(c) \/ BrokenPipe(c)
  PROVE  ConnInv'
<1>1. PICK state \in {"conn_closed", "sigpipe"} :
        conn' = [conn EXCEPT ![c].state = state]
  BY DEF WriteFails, BrokenPipe
<1> DEFINE k == [conn[c] EXCEPT !.state = state]
<1>2. k \in Conns
  BY ConnInvFacts, StateChange DEF ConnState
<1>3. conn' = [conn EXCEPT ![c] = k]
  BY <1>1
<1> HIDE DEF k
<1>4. conn' \in [Client -> ConnType] /\ \A d \in Client : conn'[d] \in Conns
  BY <1>2, <1>3, ReplaceConn
<1> QED
  BY <1>4 DEF WriteFails, BrokenPipe, ConnInv, TypeOK

LEMMA ClosedStep ==
  ASSUME ConnInv, NEW c \in Client, conn_closed(c)
  PROVE  ConnInv'
<1> DEFINE k == [conn[c] EXCEPT !.watching = {}]
<1>1. k \in Conns
  <2>1. conn[c] \in ConnType /\ Sane(conn[c])
    BY ConnInvFacts DEF Conns
  <2>2. k \in ConnType
    BY <2>1 DEF ConnType
  <2>3. /\ k.state = conn[c].state /\ k.flag_shake = conn[c].flag_shake
        /\ k.rnbuf = conn[c].rnbuf /\ k.rnbuf_len = conn[c].rnbuf_len
        /\ k.rnbuf_rlen = conn[c].rnbuf_rlen
        /\ k.wbuf_len = conn[c].wbuf_len /\ k.wbuf_wlen = conn[c].wbuf_wlen
    BY <2>1 DEF ConnType
  <2> HIDE DEF k
  <2> QED
    BY <2>1, <2>2, <2>3 DEF Conns, Sane, Fits
<1>2. conn' = [conn EXCEPT ![c] = k]
  BY DEF conn_closed
<1> HIDE DEF k
<1>3. conn' \in [Client -> ConnType] /\ \A d \in Client : conn'[d] \in Conns
  BY <1>1, <1>2, ReplaceConn
<1> QED
  BY <1>3 DEF conn_closed, ConnInv, TypeOK

\* Every step preserves the invariant.
LEMMA ConnInvariance == Spec => []ConnInv
<1>1. ConnInv /\ [Next]_vars => ConnInv'
  <2> SUFFICES ASSUME ConnInv, [Next]_vars PROVE ConnInv'
    OBVIOUS
  <2>1. CASE UNCHANGED vars
    BY <2>1 DEF vars, ConnInv, TypeOK
  <2>2. CASE Next
    <3>1. PICK c \in Client : \/ \E r \in Request : Ask(c, r)
                              \/ Send(c) \/ Drain(c) \/ Leave(c) \/ Reset(c)
                              \/ Wake(c) \/ drive_machine(c)
      BY <2>2 DEF Next
    <3>2. CASE \E r \in Request : Ask(c, r)
      BY <3>2, AskStep
    <3>3. CASE Send(c) \/ Drain(c) \/ Leave(c) \/ Reset(c) \/ Wake(c)
      BY <3>3, SendStep, DrainStep, LeaveStep, ResetStep, WakeStep
    <3>4. CASE conn_read(c) \/ conn_parse_cmd(c) \/ conn_nread(c) \/ conn_write(c)
      BY <3>4, ReadStep, ParseStep, NreadStep, WriteStep
    <3>5. CASE WriteFails(c) \/ BrokenPipe(c) \/ conn_waiting(c) \/ conn_closed(c)
      BY <3>5, WriteEndsStep, WaitingStep, ClosedStep
    <3> QED
      BY <3>1, <3>2, <3>3, <3>4, <3>5 DEF drive_machine
  <2> QED
    BY <2>1, <2>2
<1> QED
  BY InitConnInv, <1>1, PTL DEF Spec

-----------------------------------------------------------------------------
(* Polite clients: what each state of drive_machine finds *)

\* A reset answers, or will answer, what was written after the client left.
Gone(p) == p \in {"late", "pipe"}

\* The last request waits for its reply; or it has one, or gets none.
Open(ss) == ss.req \in Request /\ ss.value = <<>> /\ ss.reply = None
Settled(ss) == ss.req = None \/ ss.reply # None \/ ss.req \in Quiet

\* No request is on its way: the last is settled, or nothing of it was sent.
Unsent(t, ss, p) ==
  \/ t = <<>> /\ (p # "here" \/ Settled(ss))
  \/ Open(ss) /\ t = Parts(ss.req)

\* The line of the last request has arrived.
OnLine(s, t, ss, p) ==
  /\ Open(ss) /\ s = Line(ss.req)
  /\ t = IF p = "here" THEN Tail(Parts(ss.req)) ELSE <<>>

\* Between two requests, with all that was sent before the last one read, but
\* for a line that is dropped.
Between(s, t, ss, p) ==
  /\ \/ s = <<>> /\ Unsent(t, ss, p)
     \/ OnLine(s, t, ss, p)
     \/ \E q \in Quiet : s = Line(q) /\ Unsent(t, ss, p)
  /\ Gone(p) => s = <<>>

\* m units of the value were read; the others have arrived, or are one part
\* that is still to be sent, or will never come.
ValuePart(m, s, t, ss, p) ==
  /\ Open(ss) /\ ss.req \in Storage
  /\ \/ t = <<>> /\ m + Len(s) <= Len(Value(ss.req))
                 /\ (p = "here" => m + Len(s) = Len(Value(ss.req)))
     \/ Len(t) = 1 /\ t[1] # <<>> /\ m + Len(s) + Len(t[1]) = Len(Value(ss.req))
  /\ ~CutValues => /\ m = 0
                   /\ s \in {<<>>, Value(ss.req)}
                   /\ t \in {<<>>, <<Value(ss.req)>>}

\* Nothing of a reply is in wbuf.
NoReply(k) ==
  /\ k.wbuf = None /\ ~k.wbuf_stale
  /\ k.wbuf_size = WriteBufLen /\ k.wbuf_len = WriteBufLen /\ k.wbuf_wlen = 0
  /\ k.watching = {"read"}

\* rbuf holds nothing but text, behind at units that are NUL.
Has(k, at, text) ==
  /\ k.rbuf_rlen = at + Len(text) /\ k.rbuf_rlen <= Len(k.rbuf)
  /\ \A i \in 1..Len(k.rbuf) :
       k.rbuf[i] = IF i \in (at + 1)..k.rbuf_rlen THEN text[i - at] ELSE "NUL"

Clean(k) == Has(k, 0, <<>>)

\* The line of a refused storage command is still in rbuf.
Left(k, q) ==
  /\ Unstored(q)
  /\ k.rbuf_now = Len(Line(q)) /\ k.rbuf_rlen = Len(Line(q))
  /\ 2 * k.rbuf_rlen <= Len(k.rbuf)
  /\ \A i \in 1..Len(k.rbuf) : i > k.rbuf_rlen => k.rbuf[i] = "NUL"

\* conn_read and conn_waiting.  The value of a refused command has arrived.
Resting(k, s, t, ss, p) ==
  /\ NoReply(k)
  /\ \/ Clean(k) /\ Between(s, t, ss, p)
     \/ \E q \in Request : /\ Left(k, q)
                           /\ s = Value(q) \/ (s = <<>> /\ p # "here")
                           /\ Unsent(t, ss, p)

\* conn_parse_cmd: a line that is answered, one that is dropped, or the
\* value of a refused command, which is dropped too.
Parsing(k, s, t, ss, p) ==
  /\ NoReply(k)
  /\ \/ /\ Open(ss) /\ ss.req \notin Quiet /\ ~Gone(p)
        /\ Has(k, 0, Line(ss.req))
        /\ IF ss.req \in Storage THEN ValuePart(0, s, t, ss, p) ELSE s = <<>> /\ t = <<>>
        /\ Unstored(ss.req) => k.rbuf_now = k.rbuf_rlen
     \/ \E q \in Quiet : Has(k, 0, Line(q)) /\ Between(s, t, ss, p)
     \/ \E q \in Request : Unstored(q) /\ Has(k, Len(Line(q)), Value(q)) /\ Between(s, t, ss, p)

\* conn_nread.
Receiving(k, s, t, ss, p) ==
  /\ NoReply(k)
  /\ ValuePart(k.rnbuf_rlen, s, t, ss, p)
  /\ k.rnbuf_len = Len(Value(ss.req)) /\ k.rnbuf_rlen < k.rnbuf_len
  /\ k.cmd = Info[ss.req].verb
  /\ p # "late" /\ (p = "pipe" => s = <<>>)

\* conn_write after a refusal: the read watcher has started drive_machine.
Refusing(k, s, t, ss, p, on) ==
  /\ k.watching = {"read"} /\ Left(k, ss.req)
  /\ ValuePart(0, s, t, ss, p)
  /\ k.wbuf \in Replies[ss.req] /\ ~k.wbuf_stale
  /\ on => s # <<>> \/ p # "here"

\* conn_write after any other command.
Replying(k, s, t, ss) ==
  /\ k.watching = {"write"} /\ Clean(k)
  /\ s = <<>> /\ t = <<>>
  /\ ss.req \in Request \ Silent /\ ss.reply = None
  /\ k.wbuf \in (IF ss.value = <<>> THEN Replies ELSE StoreReplies)[ss.req]
  /\ ~k.wbuf_stale

Writing(k, s, t, ss, p, on) ==
  /\ k.wbuf_wlen < k.wbuf_len /\ k.wbuf_size = WriteBufLen
  /\ Gone(p) => k.wbuf_wlen > 0
  /\ Refusing(k, s, t, ss, p, on) \/ Replying(k, s, t, ss)

\* The connection object k, the units s received and the parts t to send, the
\* session ss, the peer p, the room rm, and whether the callback of k runs.
Phase(k, s, t, ss, p, rm, on) ==
  /\ ~k.flag_shake /\ ReadBufLen <= Len(k.rbuf) /\ k.state # "fault"
  /\ p = "fin" => rm = SendRoom
  /\ p # "here" => t = <<>>
  /\ k.state \in {"conn_read", "conn_waiting"} => Resting(k, s, t, ss, p)
  /\ k.state = "conn_parse_cmd" => on /\ Parsing(k, s, t, ss, p)
  /\ k.state = "conn_nread" => Receiving(k, s, t, ss, p)
  /\ k.state = "conn_write" => Writing(k, s, t, ss, p, on)
  /\ k.state = "sigpipe" => ss.reply = None /\ k.wbuf_wlen > 0

\* The inductive invariant of a run with polite clients.
PoliteInv ==
  \A c \in Client :
    Phase(conn[c], sock[c], tosend[c], session[c], peer[c], room[c], running = c)

\* Texts that arrive: one newline, at their end.
EndsLine(text) ==
  /\ text \in Seq(Unit) /\ Len(text) >= 2
  /\ text[Len(text)] = "LF"
  /\ \A i \in 1..(Len(text) - 1) : text[i] # "LF"

\* The text of a command line.
LEMMA LineText ==
  ASSUME NEW r \in Request
  PROVE  /\ EndsLine(Line(r)) /\ Len(Line(r)) >= 3
         /\ Line(r)[1] = r /\ r \notin Blank /\ r # "NUL"
         /\ Line(r)[Len(Line(r)) - 1] = "CR"
         /\ \A i \in 2..Len(Line(r)) : Line(r)[i] \in Blank
<1> DEFINE pad == Info[r].pad
           sp == [i \in 1..pad |-> "SP"]
           crlf == <<"CR", "LF">>
           head == <<r>> \o sp
           text == head \o crlf
<1>1. pad \in Nat
  BY InfoType
<1>2. r \in Unit /\ Blank \subseteq Unit /\ r \notin Blank /\ r # "NUL"
  BY ConnAssumption DEF Unit
<1>3. {"SP", "CR", "LF"} \subseteq Blank /\ "CR" # "LF" /\ "SP" # "LF"
  BY DEF Blank
<1>4. sp \in Seq(Unit) /\ Len(sp) = pad /\ \A i \in 1..pad : sp[i] = "SP"
  <2>1. sp \in [1..pad -> Unit]
    BY <1>2, <1>3
  <2> QED
    BY <1>1, <2>1, TableType
<1>5. /\ <<r>> \in Seq(Unit) /\ Len(<<r>>) = 1 /\ <<r>>[1] = r
      /\ crlf \in Seq(Unit) /\ Len(crlf) = 2 /\ crlf[1] = "CR" /\ crlf[2] = "LF"
  BY <1>2, <1>3
<1> HIDE DEF sp, crlf, pad
<1>6. /\ head \in Seq(Unit) /\ Len(head) = pad + 1
      /\ head[1] = r /\ \A i \in 2..(pad + 1) : head[i] = "SP"
  <2>1. /\ head \in Seq(Unit) /\ Len(head) = 1 + pad
        /\ \A i \in 1..(1 + pad) : head[i] = IF i <= 1 THEN <<r>>[i] ELSE sp[i - 1]
    BY <1>4, <1>5, ConcatProperties
  <2> HIDE DEF head
  <2> QED
    BY <1>1, <1>4, <1>5, <2>1
<1> HIDE DEF head
<1>7. /\ text \in Seq(Unit) /\ Len(text) = pad + 3
      /\ \A i \in 1..(pad + 3) : text[i] = IF i <= pad + 1 THEN head[i] ELSE crlf[i - (pad + 1)]
  <2>1. /\ text \in Seq(Unit) /\ Len(text) = Len(head) + Len(crlf)
        /\ \A i \in 1..(Len(head) + Len(crlf)) :
             text[i] = IF i <= Len(head) THEN head[i] ELSE crlf[i - Len(head)]
    BY <1>5, <1>6, ConcatProperties
  <2>2. Len(head) + Len(crlf) = pad + 3
    BY <1>1, <1>5, <1>6
  <2> HIDE DEF text
  <2> QED
    BY <1>6, <2>1, <2>2
<1>8. text = Line(r)
  BY DEF Line, head, sp, crlf, pad
<1> HIDE DEF text
<1>9. /\ text[1] = r /\ text[pad + 2] = "CR" /\ text[pad + 3] = "LF"
      /\ \A i \in 2..(pad + 1) : text[i] = "SP"
  BY <1>1, <1>5, <1>6, <1>7
<1>10. \A i \in 1..(pad + 2) : text[i] # "LF"
  BY <1>1, <1>2, <1>3, <1>9
<1>11. \A i \in 2..(pad + 3) : text[i] \in Blank
  BY <1>1, <1>3, <1>9
<1>12. Len(text) >= 3 /\ Len(text) - 1 = pad + 2
  BY <1>1, <1>7
<1>13. EndsLine(text)
  BY <1>7, <1>9, <1>10, <1>12 DEF EndsLine
<1> QED
  BY <1>2, <1>7, <1>8, <1>9, <1>11, <1>12, <1>13

\* The text of a value.
LEMMA ValueText ==
  ASSUME NEW r \in Request
  PROVE  EndsLine(Value(r))
<1> DEFINE v == Info[r].value
           crlf == <<"CR", "LF">>
           text == v \o crlf
<1>1. v \in Seq({"d1", "d2"}) /\ Len(v) \in Nat
  BY InfoType
<1>2. {"CR", "LF", "d1", "d2"} \subseteq Unit
  BY DEF Unit, Blank
<1>3. v \in Seq(Unit) /\ \A i \in 1..Len(v) : v[i] \in {"d1", "d2"}
  BY <1>1, <1>2, SeqMonotonic
<1>4. crlf \in Seq(Unit) /\ Len(crlf) = 2 /\ crlf[1] = "CR" /\ crlf[2] = "LF"
  BY <1>2
<1> HIDE DEF crlf, v
<1>5. /\ text \in Seq(Unit) /\ Len(text) = Len(v) + 2
      /\ \A i \in 1..(Len(v) + 2) : text[i] = IF i <= Len(v) THEN v[i] ELSE crlf[i - Len(v)]
  <2>1. /\ text \in Seq(Unit) /\ Len(text) = Len(v) + Len(crlf)
        /\ \A i \in 1..(Len(v) + Len(crlf)) :
             text[i] = IF i <= Len(v) THEN v[i] ELSE crlf[i - Len(v)]
    BY <1>3, <1>4, ConcatProperties
  <2> HIDE DEF text
  <2> QED
    BY <1>4, <2>1
<1>6. text = Value(r)
  BY DEF Value, v, crlf
<1> HIDE DEF text
<1>7. /\ \A i \in 1..Len(v) : text[i] \in {"d1", "d2"}
      /\ text[Len(v) + 1] = "CR" /\ text[Len(v) + 2] = "LF"
  BY <1>1, <1>3, <1>4, <1>5
<1>8. \A i \in 1..(Len(v) + 1) : text[i] # "LF"
  BY <1>1, <1>7
<1>9. Len(text) >= 2 /\ Len(text) - 1 = Len(v) + 1
  BY <1>1, <1>5
<1> QED
  BY <1>5, <1>6, <1>7, <1>8, <1>9 DEF EndsLine

\* The parts of a request.
LEMMA PartsText ==
  ASSUME NEW r \in Request
  PROVE  /\ Parts(r) # <<>> /\ Head(Parts(r)) = Line(r)
         /\ r \in Storage => Len(Parts(r)) = 2 /\ Tail(Parts(r)) = <<Value(r)>>
         /\ r \notin Storage => Len(Parts(r)) = 1 /\ Tail(Parts(r)) = <<>>
<1>1. CASE r \in Storage
  <2>1. Parts(r) = <<Line(r), Value(r)>>
    BY <1>1 DEF Parts
  <2> QED
    BY <1>1, <2>1
<1>2. CASE r \notin Storage
  <2>1. Parts(r) = <<Line(r)>>
    BY <1>2 DEF Parts
  <2> QED
    BY <1>2, <2>1
<1> QED
  BY <1>1, <1>2

\* A text in rbuf ends at rbuf_rlen, and the first newline is its end.
LEMMA HasEnd ==
  ASSUME NEW k \in ConnType, NEW at \in Nat, NEW text, EndsLine(text), Has(k, at, text)
  PROVE  /\ EndOfLine(k) = k.rbuf_rlen /\ k.rbuf[k.rbuf_rlen] = "LF"
         /\ k.rbuf_rlen \in Nat /\ k.rbuf_rlen >= at + 2 /\ k.rbuf_rlen <= Len(k.rbuf)
<1> DEFINE S == {i \in 1..k.rbuf_rlen : k.rbuf[i] = "LF"}
<1>1. /\ Len(text) \in Nat /\ Len(text) >= 2 /\ text[Len(text)] = "LF"
      /\ \A i \in 1..(Len(text) - 1) : text[i] # "LF"
  BY DEF EndsLine
<1>2. /\ k.rbuf_rlen = at + Len(text) /\ k.rbuf_rlen <= Len(k.rbuf) /\ Len(k.rbuf) \in Nat
      /\ \A i \in 1..Len(k.rbuf) :
           k.rbuf[i] = IF i \in (at + 1)..k.rbuf_rlen THEN text[i - at] ELSE "NUL"
  BY FieldTypes DEF Has
<1>3. k.rbuf_rlen \in Nat /\ k.rbuf_rlen >= at + 2 /\ k.rbuf_rlen - at = Len(text)
  BY <1>1, <1>2
<1>4. k.rbuf[k.rbuf_rlen] = "LF"
  <2>1. k.rbuf_rlen \in 1..Len(k.rbuf) /\ k.rbuf_rlen \in (at + 1)..k.rbuf_rlen
    BY <1>2, <1>3
  <2>2. k.rbuf[k.rbuf_rlen] = text[k.rbuf_rlen - at]
    BY <1>2, <2>1
  <2> QED
    BY <1>1, <1>3, <2>2
<1>5. \A i \in 1..(k.rbuf_rlen - 1) : k.rbuf[i] # "LF"
  <2> SUFFICES ASSUME NEW i \in 1..(k.rbuf_rlen - 1) PROVE k.rbuf[i] # "LF"
    OBVIOUS
  <2>1. i \in 1..Len(k.rbuf)
    BY <1>2, <1>3
  <2>2. CASE i \in (at + 1)..k.rbuf_rlen
    <3>1. k.rbuf[i] = text[i - at]
      BY <1>2, <2>1, <2>2
    <3>2. i - at \in 1..(Len(text) - 1)
      BY <1>3, <2>2
    <3> QED
      BY <1>1, <3>1, <3>2
  <2>3. CASE i \notin (at + 1)..k.rbuf_rlen
    BY <1>2, <2>1, <2>3
  <2> QED
    BY <2>2, <2>3
<1>6. S \subseteq Nat /\ S # {}
  BY <1>3, <1>4
<1>7. Min(S) \in S
  BY <1>6, MinIsLeast
<1>8. Min(S) = k.rbuf_rlen
  <2>1. Min(S) \in 1..k.rbuf_rlen /\ k.rbuf[Min(S)] = "LF"
    BY <1>7
  <2> HIDE DEF S
  <2>2. Min(S) \notin 1..(k.rbuf_rlen - 1)
    BY <1>5, <2>1
  <2> QED
    BY <1>3, <2>1, <2>2
<1> QED
  BY <1>2, <1>3, <1>4, <1>8 DEF EndOfLine

\* k with the unit at e replaced by NUL, and nothing read ahead.
Ended(k, n, e) ==
  /\ Idle(n) /\ n.state = k.state /\ ~n.flag_shake
  /\ n.rbuf_rlen = k.rbuf_rlen /\ n.rbuf_now = k.rbuf_now
  /\ Len(n.rbuf) = Len(k.rbuf)
  /\ \A i \in 1..Len(k.rbuf) : n.rbuf[i] = IF i = e THEN "NUL" ELSE k.rbuf[i]
  /\ n.wbuf = k.wbuf /\ n.wbuf_stale = k.wbuf_stale
  /\ n.wbuf_size = k.wbuf_size /\ n.wbuf_len = k.wbuf_len
  /\ n.watching = k.watching

\* The end of a text that is alone in rbuf becomes a NUL.
LEMMA TerminatedText ==
  ASSUME NEW k \in ConnType, k.wbuf_wlen = 0, k.rnbuf_rlen = 0,
         NEW at \in Nat, NEW text, EndsLine(text), Has(k, at, text),
         Fresh = {"NUL"}, NEW n \in Terminated(k, k.rbuf_rlen)
  PROVE  \E e \in {k.rbuf_rlen - 1, k.rbuf_rlen} : Ended(k, n, e)
<1> DEFINE lf == k.rbuf_rlen
           e == IF lf - 1 - k.rbuf_now > 1 /\ k.rbuf[lf - 1] = "CR" THEN lf - 1 ELSE lf
           z == [k.rbuf EXCEPT ![e] = "NUL"]
<1>1. /\ lf \in Nat /\ lf >= 2 /\ lf <= Len(k.rbuf) /\ lf >= at + 2
  BY HasEnd
<1>2. /\ k.rbuf \in Seq(Unit) /\ Len(k.rbuf) \in Nat /\ k.rbuf_now \in Nat
  BY FieldTypes
<1>3. PICK next \in IF lf < Len(k.rbuf) THEN {k.rbuf[lf + 1]} ELSE Fresh :
        n = [k EXCEPT !.flag_shake = next # "NUL", !.rbuf[e] = "NUL"]
  BY DEF Terminated
<1>4. next = "NUL"
  <2>1. CASE lf < Len(k.rbuf)
    <3>1. lf + 1 \in 1..Len(k.rbuf) /\ lf + 1 \notin (at + 1)..lf
      BY <1>1, <1>2, <2>1
    <3>2. k.rbuf[lf + 1] = "NUL"
      BY <3>1 DEF Has
    <3> QED
      BY <1>3, <2>1, <3>2
  <2>2. CASE ~(lf < Len(k.rbuf))
    BY <1>3, <2>2
  <2> QED
    BY <2>1, <2>2
<1>5. e \in {lf - 1, lf} /\ e \in 1..Len(k.rbuf)
  BY <1>1, <1>2
<1>6. /\ Len(z) = Len(k.rbuf)
      /\ \A i \in 1..Len(k.rbuf) : z[i] = IF i = e THEN "NUL" ELSE k.rbuf[i]
  <2>1. "NUL" \in Unit
    BY DEF Unit
  <2> HIDE DEF e
  <2> QED
    BY <1>2, <1>5, <2>1, ExceptSeq
<1>7. Idle(n)
  BY <1>1, TerminatedIdle
<1> HIDE DEF e
<1>8. n = [k EXCEPT !.flag_shake = FALSE, !.rbuf = z]
  BY <1>3, <1>4
<1> HIDE DEF z
<1>9. /\ n.rbuf = z /\ ~n.flag_shake /\ n.state = k.state
      /\ n.rbuf_rlen = k.rbuf_rlen /\ n.rbuf_now = k.rbuf_now
      /\ n.wbuf = k.wbuf /\ n.wbuf_stale = k.wbuf_stale
      /\ n.wbuf_size = k.wbuf_size /\ n.wbuf_len = k.wbuf_len
      /\ n.watching = k.watching
  BY <1>8 DEF ConnType
<1>10. Ended(k, n, e)
  BY <1>6, <1>7, <1>9 DEF Ended
<1> QED
  BY <1>5, <1>10

\* The words of a command line.
LEMMA WordsOfLine ==
  ASSUME NEW k \in ConnType, NEW r \in Request, Has(k, 0, Line(r)),
         NEW n, NEW e \in {k.rbuf_rlen - 1, k.rbuf_rlen}, Ended(k, n, e)
  PROVE  Words(n) = Info[r]
<1> DEFINE marks == {i \in DOMAIN n.rbuf : n.rbuf[i] \notin Blank
                                           /\ \A j \in 1..i : n.rbuf[j] # "NUL"}
           L == Len(Line(r))
<1>1. /\ L \in Nat /\ L >= 3 /\ Line(r)[1] = r /\ r \notin Blank /\ r # "NUL"
      /\ \A i \in 2..L : Line(r)[i] \in Blank
  BY LineText DEF EndsLine
<1>2. /\ k.rbuf_rlen = L /\ L <= Len(k.rbuf)
      /\ \A i \in 1..Len(k.rbuf) : k.rbuf[i] = IF i \in 1..L THEN Line(r)[i] ELSE "NUL"
  <2>1. /\ k.rbuf_rlen = 0 + L /\ k.rbuf_rlen <= Len(k.rbuf)
        /\ \A i \in 1..Len(k.rbuf) :
             k.rbuf[i] = IF i \in (0 + 1)..k.rbuf_rlen THEN Line(r)[i - 0] ELSE "NUL"
    BY DEF Has
  <2>2. 0 + L = L /\ 0 + 1 = 1 /\ \A i \in 1..Len(k.rbuf) : i - 0 = i
    BY <1>1, FieldTypes
  <2> HIDE DEF L
  <2> QED
    BY <2>1, <2>2
<1>3. /\ DOMAIN n.rbuf = 1..Len(k.rbuf) /\ Len(k.rbuf) \in Nat
      /\ \A i \in 1..Len(k.rbuf) : n.rbuf[i] = IF i = e THEN "NUL" ELSE k.rbuf[i]
  <2>1. n.rbuf \in Seq(Unit) /\ Len(n.rbuf) = Len(k.rbuf)
    BY FieldTypes DEF Ended, Idle
  <2> QED
    BY <2>1, FieldTypes DEF Ended
<1>4. e \in Nat /\ e >= 2 /\ e <= L
  BY <1>1, <1>2
<1>5. 1 \in marks /\ n.rbuf[1] = r
  <2>1. n.rbuf[1] = r /\ 1 \in DOMAIN n.rbuf
    BY <1>1, <1>2, <1>3, <1>4
  <2>2. \A j \in 1..1 : j = 1
    OBVIOUS
  <2> QED
    BY <1>1, <2>1, <2>2
<1>6. \A i \in marks : i = 1
  <2> SUFFICES ASSUME NEW i \in 1..Len(k.rbuf), i # 1, n.rbuf[i] \notin Blank,
                      \A j \in 1..i : n.rbuf[j] # "NUL"
               PROVE  FALSE
    BY <1>3
  <2>1. n.rbuf[i] # "NUL"
    BY <1>3
  <2>2. n.rbuf[i] = k.rbuf[i]
    BY <1>3, <2>1
  <2>3. i \in 1..L
    BY <1>2, <2>1, <2>2
  <2>4. i \in 2..L
    BY <2>3
  <2> QED
    BY <1>1, <1>2, <2>2, <2>3, <2>4
<1>7. marks = {1}
  BY <1>5, <1>6
<1>8. Words(n) = IF marks = {} THEN [words |-> 0]
                 ELSE IF \E i \in marks : marks = {i} /\ n.rbuf[i] \in Request
                 THEN Info[n.rbuf[CHOOSE i \in marks : TRUE]]
                 ELSE [words |-> 1, verb |-> "unknown"]
  BY DEF Words
<1> HIDE DEF marks
<1>9. (CHOOSE i \in marks : TRUE) = 1
  BY <1>7
<1> QED
  BY <1>5, <1>7, <1>8, <1>9

\* A text that does not begin at the head of rbuf has none.
LEMMA WordsOfValue ==
  ASSUME NEW k \in ConnType, NEW at \in Nat \ {0}, NEW text, EndsLine(text), Has(k, at, text),
         NEW n, NEW e, Ended(k, n, e)
  PROVE  Words(n) = [words |-> 0]
<1> DEFINE marks == {i \in DOMAIN n.rbuf : n.rbuf[i] \notin Blank
                                           /\ \A j \in 1..i : n.rbuf[j] # "NUL"}
<1>1. k.rbuf_rlen \in Nat /\ k.rbuf_rlen <= Len(k.rbuf) /\ k.rbuf_rlen >= at + 2
  BY HasEnd
<1>2. 1 \in 1..Len(k.rbuf) /\ 1 \notin (at + 1)..k.rbuf_rlen
  BY <1>1, FieldTypes
<1>3. k.rbuf[1] = "NUL"
  BY <1>2 DEF Has
<1>4. n.rbuf[1] = "NUL"
  BY <1>2, <1>3 DEF Ended
<1>5. DOMAIN n.rbuf = 1..Len(n.rbuf) /\ Len(n.rbuf) \in Nat
  BY FieldTypes DEF Ended, Idle
<1>6. marks = {}
  <2> SUFFICES ASSUME NEW i \in 1..Len(n.rbuf), \A j \in 1..i : n.rbuf[j] # "NUL" PROVE FALSE
    BY <1>5
  <2>1. 1 \in 1..i
    BY <1>5
  <2> QED
    BY <1>4, <2>1
<1> QED
  BY <1>6 DEF Words

\* try_read_command, when a text is alone in rbuf.
LEMMA TextRead ==
  ASSUME NEW k \in Conns, k.state = "conn_parse_cmd",
         NEW at \in Nat, NEW text, EndsLine(text), Has(k, at, text),
         Fresh = {"NUL"}, NEW m \in try_read_command(k)
  PROVE  \E line : \E e \in {k.rbuf_rlen - 1, k.rbuf_rlen} : \E n \in process_command(line) :
           /\ Ended(k, line, e) /\ Done(line, n)
           /\ m = IF n.state = "fault" THEN n ELSE Advanced(n, k.rbuf_rlen)
<1>1. k \in ConnType /\ k.wbuf_wlen = 0 /\ k.rnbuf_rlen = 0
  BY DEF Conns, Sane
<1>2. /\ EndOfLine(k) = k.rbuf_rlen /\ k.rbuf[k.rbuf_rlen] = "LF"
      /\ k.rbuf_rlen \in Nat /\ k.rbuf_rlen >= 2 /\ k.rbuf_rlen <= Len(k.rbuf)
  <2>1. /\ EndOfLine(k) = k.rbuf_rlen /\ k.rbuf[k.rbuf_rlen] = "LF"
        /\ k.rbuf_rlen \in Nat /\ k.rbuf_rlen >= at + 2 /\ k.rbuf_rlen <= Len(k.rbuf)
    BY <1>1, HasEnd
  <2> QED
    BY <2>1
<1>3. ~Overrun(k) /\ k.rbuf_rlen # 0 /\ k.rbuf_rlen \in 1..k.rbuf_rlen
  BY <1>1, <1>2, FieldTypes DEF Overrun
<1>4. PICK line \in Terminated(k, k.rbuf_rlen) : \E n \in process_command(line) :
        m \in IF n.state = "fault" THEN {n}
              ELSE IF n.flag_shake THEN conn_shake(n, k.rbuf_rlen, n.rbuf_rlen - k.rbuf_rlen)
              ELSE {Advanced(n, k.rbuf_rlen)}
  BY <1>2, <1>3 DEF try_read_command
<1>5. PICK n \in process_command(line) :
        m \in IF n.state = "fault" THEN {n}
              ELSE IF n.flag_shake THEN conn_shake(n, k.rbuf_rlen, n.rbuf_rlen - k.rbuf_rlen)
              ELSE {Advanced(n, k.rbuf_rlen)}
  BY <1>4
<1>6. PICK e \in {k.rbuf_rlen - 1, k.rbuf_rlen} : Ended(k, line, e)
  BY <1>1, TerminatedText
<1>7. Done(line, n)
  BY <1>6, ProcessDone DEF Ended
<1>8. m = IF n.state = "fault" THEN n ELSE Advanced(n, k.rbuf_rlen)
  BY <1>5, <1>6, <1>7 DEF Ended, Done
<1> QED
  BY <1>5, <1>6, <1>7, <1>8

\* rbuf is cleared.
LEMMA ClearedClean ==
  ASSUME NEW k \in ConnType
  PROVE  Clean(Cleared(k))
<1> DEFINE z == [i \in DOMAIN k.rbuf |-> "NUL"]
           m == Cleared(k)
<1>1. DOMAIN k.rbuf = 1..Len(k.rbuf) /\ Len(k.rbuf) \in Nat
  BY FieldTypes
<1>2. m.rbuf = z /\ m.rbuf_rlen = 0 /\ Len(m.rbuf) = Len(k.rbuf)
  <2>1. m.rbuf = z
    BY DEF Cleared, ConnType
  <2> QED
    BY <2>1, ClearedType
<1>3. \A i \in 1..Len(k.rbuf) : z[i] = "NUL"
  BY <1>1
<1> HIDE DEF m, z
<1>4. Has(m, 0, <<>>)
  <2>1. Len(<<>>) = 0 /\ 0 + 0 = 0 /\ \A i : i \notin (0 + 1)..0
    OBVIOUS
  <2> QED
    BY <1>1, <1>2, <1>3, <2>1 DEF Has
<1> QED
  BY <1>4 DEF Clean, m

\* Only rbuf matters to what it holds.
LEMMA CleanSame ==
  ASSUME NEW k, NEW n, Clean(k), n.rbuf = k.rbuf, n.rbuf_rlen = k.rbuf_rlen
  PROVE  Clean(n)
BY DEF Clean, Has

\* A reply is ready, and rbuf is empty.
Given(k, n) ==
  /\ n \in ConnType /\ n.state = "conn_write" /\ n.flag_shake = k.flag_shake
  /\ Clean(n) /\ Len(n.rbuf) = Len(k.rbuf)
  /\ n.watching = {"write"} /\ n.wbuf_wlen = 0 /\ 0 < n.wbuf_len
  /\ n.wbuf_size = k.wbuf_size /\ ~n.wbuf_stale

LEMMA AnsweredGiven ==
  ASSUME NEW k \in ConnType, k.wbuf_len = WriteBufLen, k.wbuf_wlen = 0, NEW str \in Reply
  PROVE  /\ Given(k, Answered(k, str))
         /\ Answered(k, str).wbuf = str
<1> DEFINE z == Cleared(k)
           a == Answered(k, str)
<1>1. /\ z \in ConnType /\ Clean(z) /\ Len(z.rbuf) = Len(k.rbuf)
      /\ z.flag_shake = k.flag_shake /\ z.wbuf_wlen = 0
  BY ClearedType, ClearedClean DEF SameBuffers
<1>2. z.wbuf_len = WriteBufLen /\ z.wbuf_size = k.wbuf_size
  BY DEF Cleared, ConnType
<1>3. StringLen \in Nat \ {0} /\ ~(StringLen >= WriteBufLen)
  BY ConnAssumption
<1> HIDE DEF z
<1>4. a = [z EXCEPT !.wbuf = str, !.wbuf_len = StringLen, !.wbuf_stale = FALSE,
                    !.state = "conn_write", !.watching = {"write"}]
  BY <1>1, <1>2, <1>3 DEF Answered, WatchWrite, out_string, z, ConnType
<1>5. a \in ConnType
  BY AnsweredType
<1>6. /\ a.rbuf = z.rbuf /\ a.rbuf_rlen = z.rbuf_rlen /\ a.flag_shake = z.flag_shake
      /\ a.wbuf = str /\ a.wbuf_len = StringLen /\ ~a.wbuf_stale /\ a.state = "conn_write"
      /\ a.watching = {"write"} /\ a.wbuf_wlen = z.wbuf_wlen /\ a.wbuf_size = z.wbuf_size
  BY <1>1, <1>4 DEF ConnType
<1> HIDE DEF a
<1>7. Clean(a)
  BY <1>1, <1>6, CleanSame
<1>8. Given(k, a)
  BY <1>1, <1>2, <1>3, <1>5, <1>6, <1>7 DEF Given
<1> QED
  BY <1>6, <1>8 DEF a

\* The offsets of an empty rbuf.
LEMMA AdvancedClean ==
  ASSUME NEW n \in ConnType, Clean(n), NEW lf \in Nat
  PROVE  /\ Advanced(n, lf) \in ConnType /\ Clean(Advanced(n, lf))
         /\ \E now : Advanced(n, lf) = [n EXCEPT !.rbuf_now = now]
<1> DEFINE now == IF n.rbuf_now # 0 THEN lf ELSE 0
           m == Advanced(n, lf)
<1>1. n.rbuf_rlen = 0
  BY DEF Clean, Has
<1>2. m = [n EXCEPT !.rbuf_rlen = 0, !.rbuf_now = now]
  BY <1>1 DEF Advanced
<1>3. now \in Nat
  OBVIOUS
<1> HIDE DEF now, m
<1>4. m = [n EXCEPT !.rbuf_now = now]
  BY <1>1, <1>2 DEF ConnType
<1>5. m \in ConnType /\ m.rbuf = n.rbuf /\ m.rbuf_rlen = n.rbuf_rlen
  BY <1>3, <1>4 DEF ConnType
<1>6. Clean(m)
  BY <1>5, CleanSame
<1> QED
  BY <1>4, <1>5, <1>6 DEF m

LEMMA AdvancedGiven ==
  ASSUME NEW k, NEW n, Given(k, n), NEW lf \in Nat
  PROVE  /\ Given(k, Advanced(n, lf))
         /\ Advanced(n, lf).wbuf = n.wbuf
<1> DEFINE m == Advanced(n, lf)
<1>1. n \in ConnType /\ Clean(n)
  BY DEF Given
<1>2. PICK now : m = [n EXCEPT !.rbuf_now = now]
  BY <1>1, AdvancedClean
<1>3. m \in ConnType /\ Clean(m)
  BY <1>1, AdvancedClean
<1> HIDE DEF m
<1>4. /\ m.state = n.state /\ m.flag_shake = n.flag_shake /\ m.rbuf = n.rbuf
      /\ m.watching = n.watching /\ m.wbuf = n.wbuf /\ m.wbuf_stale = n.wbuf_stale
      /\ m.wbuf_size = n.wbuf_size
      /\ m.wbuf_len = n.wbuf_len /\ m.wbuf_wlen = n.wbuf_wlen
  BY <1>1, <1>2 DEF ConnType
<1>5. Given(k, m)
  BY <1>3, <1>4 DEF Given
<1> QED
  BY <1>4, <1>5 DEF m

\* The fields beside the buffers, and the length of rbuf.
SameRest(k, n) ==
  /\ n \in ConnType /\ n.flag_shake = k.flag_shake /\ Len(n.rbuf) = Len(k.rbuf)
  /\ n.wbuf = k.wbuf /\ n.wbuf_stale = k.wbuf_stale /\ n.wbuf_size = k.wbuf_size
  /\ n.wbuf_len = k.wbuf_len /\ n.wbuf_wlen = k.wbuf_wlen
  /\ n.watching = k.watching

\* A line of no known number of words.
LEMMA DroppedCommand ==
  ASSUME NEW k \in ConnType, NEW i, i.words \notin {1, 2, 3, 5, 6},
         NEW n \in Command(k, i), NEW lf \in Nat,
         NEW m, m = IF n.state = "fault" THEN n ELSE Advanced(n, lf)
  PROVE  SameRest(k, m) /\ m.state = "conn_read" /\ Clean(m)
<1> DEFINE z == Cleared(k)
<1>1. z \in ConnType /\ Clean(z) /\ Len(z.rbuf) = Len(k.rbuf) /\ SameRest(k, z)
  <2>1. z \in ConnType /\ Clean(z) /\ Len(z.rbuf) = Len(k.rbuf)
    BY ClearedType, ClearedClean
  <2>2. /\ z.flag_shake = k.flag_shake /\ z.wbuf = k.wbuf /\ z.wbuf_stale = k.wbuf_stale
        /\ z.wbuf_size = k.wbuf_size
        /\ z.wbuf_len = k.wbuf_len /\ z.wbuf_wlen = k.wbuf_wlen /\ z.watching = k.watching
    BY DEF Cleared, ConnType
  <2> QED
    BY <2>1, <2>2 DEF SameRest
<1>2. n = [z EXCEPT !.rbuf_now = 0, !.state = "conn_read", !.flag_precmd = FALSE]
  BY DEF Command
<1> HIDE DEF z
<1>3. /\ n \in ConnType /\ n.rbuf = z.rbuf /\ n.rbuf_rlen = z.rbuf_rlen /\ n.state = "conn_read"
      /\ n.flag_shake = z.flag_shake /\ n.wbuf = z.wbuf /\ n.wbuf_stale = z.wbuf_stale
      /\ n.wbuf_size = z.wbuf_size
      /\ n.wbuf_len = z.wbuf_len /\ n.wbuf_wlen = z.wbuf_wlen /\ n.watching = z.watching
  BY <1>1, <1>2 DEF ConnType, ConnState
<1>4. Clean(n)
  BY <1>1, <1>3, CleanSame
<1>5. m \in ConnType /\ Clean(m) /\ \E now : m = [n EXCEPT !.rbuf_now = now]
  BY <1>3, <1>4, AdvancedClean
<1>6. /\ m.rbuf = n.rbuf /\ m.state = n.state
      /\ m.flag_shake = n.flag_shake /\ m.wbuf = n.wbuf /\ m.wbuf_stale = n.wbuf_stale
      /\ m.wbuf_size = n.wbuf_size
      /\ m.wbuf_len = n.wbuf_len /\ m.wbuf_wlen = n.wbuf_wlen /\ m.watching = n.watching
  BY <1>3, <1>5 DEF ConnType
<1> QED
  BY <1>1, <1>3, <1>5, <1>6 DEF SameRest

\* get, when its key is not too long and the text of a hit fits into wbuf.
LEMMA GetAnswered ==
  ASSUME Polite, NEW k \in ConnType, NoReply(k), NEW r \in Request,
         Info[r].words = 2, Info[r].verb = "get", NEW n \in get_command(k, Info[r])
  PROVE  Given(k, n) /\ n.wbuf \in Replies[r]
<1> DEFINE i    == Info[r]
           big  == i.total > k.wbuf_len
           size == IF big THEN i.total ELSE k.wbuf_size
           over == \E x \in TextExcess : i.total + x > size
           hit  == [k EXCEPT !.wbuf       = "VALUE",
                             !.wbuf_size  = size,
                             !.wbuf_len   = IF big THEN i.total ELSE @,
                             !.wbuf_stale = big,
                             !.state      = "conn_write"]
           same == [k EXCEPT !.wbuf       = "VALUE",
                             !.wbuf_stale = FALSE,
                             !.state      = "conn_write"]
           a == WatchWrite(Cleared(same))
<1>1. k.wbuf_size = WriteBufLen /\ k.wbuf_len = WriteBufLen /\ k.wbuf_wlen = 0
  BY DEF NoReply
<1>2. /\ i.total \in Nat /\ WriteBufLen \in Nat /\ StringLen \in Nat \ {0}
      /\ StringLen < WriteBufLen /\ TextExcess \subseteq Nat \ {0} /\ TextExcess # {}
  BY InfoType, ConnAssumption
<1>3. ~i.longkey /\ \A x \in TextExcess : i.total + x <= WriteBufLen
  BY DEF Polite
<1>4. Replies[r] = {"END", "VALUE"}
  <2>1. r \notin Storage /\ i.words # 1
    BY DEF Storage
  <2> QED
    BY <2>1 DEF Replies
<1> HIDE DEF i
<1>5. ~big /\ ~over
  <2>1. PICK x \in TextExcess : TRUE
    BY <1>2
  <2>2. x \in Nat /\ i.total + x <= WriteBufLen
    BY <1>2, <1>3
  <2>3. ~big
    BY <1>1, <1>2, <2>2
  <2>4. ASSUME NEW y \in TextExcess PROVE ~(i.total + y > size)
    <3>1. y \in Nat /\ i.total + y <= WriteBufLen
      BY <1>2, <1>3
    <3> QED
      BY <1>1, <1>2, <2>3, <3>1
  <2> QED
    BY <2>3, <2>4
<1>6. hit = same
  <2>1. big = FALSE /\ size = k.wbuf_size
    BY <1>5
  <2> HIDE DEF big, size
  <2> QED
    BY <2>1 DEF ConnType
<1>7. n \in {Answered(k, "END"), WatchWrite(Cleared(hit))}
  <2> HIDE DEF hit
  <2> QED
    BY <1>3, <1>5 DEF get_command, hit, i
<1>8. CASE n = Answered(k, "END")
  <2>1. "END" \in Reply
    BY DEF Reply
  <2> QED
    BY <1>1, <1>4, <1>8, <2>1, AnsweredGiven
<1>9. CASE n = a
  <2>1. same \in ConnType
    BY DEF ConnType, ConnState, Reply
  <2>2. /\ same.state = "conn_write" /\ same.wbuf = "VALUE" /\ ~same.wbuf_stale
        /\ same.wbuf_size = k.wbuf_size /\ same.wbuf_len = k.wbuf_len
        /\ same.flag_shake = k.flag_shake /\ same.rbuf = k.rbuf /\ same.wbuf_wlen = k.wbuf_wlen
    BY DEF ConnType
  <2> HIDE DEF same
  <2> DEFINE z == Cleared(same)
  <2>3. z \in ConnType /\ Clean(z) /\ Len(z.rbuf) = Len(k.rbuf) /\ z.state = "conn_write"
    BY <2>1, <2>2, ClearedType, ClearedClean
  <2>4. /\ z.wbuf = same.wbuf /\ z.wbuf_stale = same.wbuf_stale /\ z.wbuf_size = same.wbuf_size
        /\ z.wbuf_len = same.wbuf_len
        /\ z.flag_shake = same.flag_shake /\ z.wbuf_wlen = same.wbuf_wlen
    BY <2>1 DEF Cleared, ConnType
  <2>5. a = WatchWrite(z)
    OBVIOUS
  <2> HIDE DEF z, a
  <2>6. /\ a \in ConnType /\ a.rbuf = z.rbuf /\ a.rbuf_rlen = z.rbuf_rlen
        /\ a.wbuf = z.wbuf /\ a.wbuf_stale = z.wbuf_stale /\ a.wbuf_size = z.wbuf_size
        /\ a.wbuf_len = z.wbuf_len
        /\ a.flag_shake = z.flag_shake /\ a.wbuf_wlen = z.wbuf_wlen /\ a.state = z.state
        /\ a.watching = {"write"}
    BY <2>3, <2>5 DEF WatchWrite, ConnType
  <2>7. Clean(a)
    BY <2>3, <2>6, CleanSame
  <2>8. 0 < a.wbuf_len
    BY <1>1, <1>2, <2>2, <2>4, <2>6
  <2>9. Given(k, a)
    BY <1>1, <2>2, <2>3, <2>4, <2>6, <2>7, <2>8 DEF Given
  <2>10. a.wbuf = "VALUE"
    BY <2>2, <2>4, <2>6
  <2> QED
    BY <1>4, <1>9, <2>9, <2>10
<1> QED
  BY <1>6, <1>7, <1>8, <1>9

\* Any command without a value.
LEMMA PlainCommand ==
  ASSUME Polite, NEW k \in ConnType, NoReply(k),
         NEW r \in Request, r \notin Quiet, r \notin Storage,
         NEW n \in Command(k, Info[r])
  PROVE  \/ n = [k EXCEPT !.state = "conn_closed"]
         \/ /\ r \notin Silent
            /\ Given(k, n) /\ n.wbuf \in Replies[r]
<1> DEFINE i == Info[r]
<1>1. k.wbuf_len = WriteBufLen /\ k.wbuf_wlen = 0
  BY DEF NoReply
<1>2. i.words \in {1, 2}
  BY DEF Polite, Quiet, Storage
<1>3. {"VERSION", "CLIENT_BAD_COMMAND", "DELETED", "NOT_FOUND"} \subseteq Reply
  BY DEF Reply
<1>4. \A str \in {"VERSION", "CLIENT_BAD_COMMAND", "DELETED", "NOT_FOUND"} :
        Given(k, Answered(k, str)) /\ Answered(k, str).wbuf = str
  BY <1>1, <1>3, AnsweredGiven
<1>5. CASE i.words = 1
  <2>1. n \in command_one_para(k, i)
    BY <1>5 DEF Command
  <2>2. CASE i.verb = "quit"
    BY <2>1, <2>2 DEF command_one_para
  <2>3. CASE i.verb # "quit"
    <3> DEFINE str == IF i.verb = "version" THEN "VERSION" ELSE "CLIENT_BAD_COMMAND"
    <3>1. n = Answered(k, str)
      BY <2>1, <2>3 DEF command_one_para
    <3>2. Replies[r] = {str}
      BY <1>5 DEF Replies
    <3>3. r \notin Silent
      BY <2>3 DEF Silent
    <3>4. str \in {"VERSION", "CLIENT_BAD_COMMAND", "DELETED", "NOT_FOUND"}
      OBVIOUS
    <3> HIDE DEF str
    <3> QED
      BY <1>4, <3>1, <3>2, <3>3, <3>4
  <2> QED
    BY <2>2, <2>3
<1>6. CASE i.words = 2
  <2>1. n \in command_two_para(k, i)
    BY <1>6 DEF Command
  <2>2. r \notin Silent
    BY <1>6 DEF Silent
  <2>3. CASE i.verb = "get"
    <3>1. n \in get_command(k, i)
      BY <2>1, <2>3 DEF command_two_para
    <3> QED
      BY <1>6, <2>2, <2>3, <3>1, GetAnswered
  <2>4. CASE i.verb = "delete"
    <3>1. n \in {Answered(k, "DELETED"), Answered(k, "NOT_FOUND")}
      BY <2>1, <2>4 DEF command_two_para, delete_command
    <3>2. Replies[r] = {"DELETED", "NOT_FOUND"}
      BY <1>6, <2>4 DEF Replies
    <3> QED
      BY <1>4, <2>2, <3>1, <3>2
  <2>5. CASE i.verb \notin {"get", "delete"}
    <3>1. n = Answered(k, "CLIENT_BAD_COMMAND")
      BY <2>1, <2>5 DEF command_two_para
    <3>2. Replies[r] = {"CLIENT_BAD_COMMAND"}
      BY <1>6, <2>5 DEF Replies
    <3> QED
      BY <1>4, <2>2, <3>1, <3>2
  <2> QED
    BY <2>3, <2>4, <2>5
<1> QED
  BY <1>2, <1>5, <1>6

\* A storage command: its value is awaited, or it is refused and its line
\* stays in rbuf.
Accepted(k, n, r) ==
  /\ SameRest(k, n) /\ n.state = "conn_nread"
  /\ n.rnbuf_len = Len(Value(r)) /\ n.rnbuf_rlen = 0 /\ n.cmd = Info[r].verb

Rejected(k, n, r) ==
  /\ Unstored(r)
  /\ n \in ConnType /\ n.state = "conn_write" /\ n.flag_shake = k.flag_shake
  /\ n.rbuf = k.rbuf /\ n.rbuf_rlen = k.rbuf_rlen /\ n.rbuf_now = k.rbuf_now
  /\ n.watching = k.watching
  /\ n.wbuf \in Replies[r] /\ ~n.wbuf_stale /\ 0 < n.wbuf_len /\ n.wbuf_wlen = 0
  /\ n.wbuf_size = k.wbuf_size

LEMMA RejectedType ==
  ASSUME NEW k \in ConnType, NoReply(k), NEW r \in Request, Unstored(r), NEW str \in Replies[r],
         str \in Reply
  PROVE  Rejected(k, out_string(k, str), r)
<1> DEFINE n == out_string(k, str)
<1>1. k.wbuf_len = WriteBufLen /\ k.wbuf_wlen = 0
  BY DEF NoReply
<1>2. StringLen \in Nat \ {0} /\ ~(StringLen >= WriteBufLen)
  BY ConnAssumption
<1>3. n = [k EXCEPT !.wbuf = str, !.wbuf_len = StringLen, !.wbuf_stale = FALSE,
                    !.state = "conn_write"]
  BY <1>1, <1>2 DEF out_string
<1>4. n \in ConnType
  BY OutStringType
<1> HIDE DEF n
<1>5. /\ n.state = "conn_write" /\ n.flag_shake = k.flag_shake
      /\ n.rbuf = k.rbuf /\ n.rbuf_rlen = k.rbuf_rlen /\ n.rbuf_now = k.rbuf_now
      /\ n.watching = k.watching /\ n.wbuf = str /\ ~n.wbuf_stale /\ n.wbuf_len = StringLen
      /\ n.wbuf_wlen = k.wbuf_wlen /\ n.wbuf_size = k.wbuf_size
  BY <1>3 DEF ConnType
<1>6. Rejected(k, n, r)
  BY <1>1, <1>2, <1>4, <1>5 DEF Rejected
<1> QED
  BY <1>6 DEF n

LEMMA FiveSixCommand ==
  ASSUME Polite, NEW k, Idle(k), NoReply(k), NEW r \in Storage,
         NEW n \in command_five_six_para(k, Info[r])
  PROVE  Accepted(k, n, r) \/ Rejected(k, n, r)
<1> DEFINE i == Info[r]
           s == nread_stat_set(k, i.verb)
           space == [j \in 1..vlen(i) |-> "junk"]
           accepted == [s EXCEPT !.rnbuf = space, !.rnbuf_len = vlen(i), !.state = "conn_nread"]
<1>1. r \in Request /\ i.verb \in StoreVerb
  BY DEF Polite, Storage
<1>2. k \in ConnType /\ k.rnbuf_rlen = 0
  BY DEF Idle
<1>3. s = [k EXCEPT !.cmd = i.verb]
  BY <1>1 DEF nread_stat_set
<1>4. s \in ConnType
  BY StatSetType DEF Idle
<1>5. /\ s.cmd = i.verb /\ s.flag_shake = k.flag_shake /\ s.rbuf = k.rbuf
      /\ s.rbuf_rlen = k.rbuf_rlen /\ s.rbuf_now = k.rbuf_now /\ s.rnbuf_rlen = k.rnbuf_rlen
      /\ s.wbuf = k.wbuf /\ s.wbuf_stale = k.wbuf_stale
      /\ s.wbuf_size = k.wbuf_size /\ s.wbuf_len = k.wbuf_len
      /\ s.wbuf_wlen = k.wbuf_wlen /\ s.watching = k.watching
  BY <1>2, <1>3 DEF ConnType
<1> HIDE DEF s
<1>6. CASE n = accepted /\ ~Refused(i)
  <2>1. vlen(i) = Len(Value(r))
    BY <1>1, <1>6 DEF Polite
  <2>2. n \in ConnType
    BY <1>6, FiveSixDone, <1>1 DEF Done, Idle
  <2> HIDE DEF space, i
  <2>3. /\ n.state = "conn_nread" /\ n.cmd = s.cmd /\ n.flag_shake = s.flag_shake /\ n.rbuf = s.rbuf
        /\ n.rnbuf_len = vlen(i) /\ n.rnbuf_rlen = s.rnbuf_rlen
        /\ n.wbuf = s.wbuf /\ n.wbuf_stale = s.wbuf_stale
        /\ n.wbuf_size = s.wbuf_size /\ n.wbuf_len = s.wbuf_len
        /\ n.wbuf_wlen = s.wbuf_wlen /\ n.watching = s.watching
    BY <1>4, <1>6 DEF ConnType
  <2>4. Accepted(k, n, r)
    BY <1>2, <1>5, <2>1, <2>2, <2>3 DEF Accepted, SameRest, i
  <2> QED
    BY <2>4
<1>7. CASE /\ n = out_string(s, IF Refused(i) THEN "CLIENT_ERROR" ELSE "SERVER_ERROR")
           /\ Refused(i) \/ AllocFails
  <2> DEFINE str == IF Refused(i) THEN "CLIENT_ERROR" ELSE "SERVER_ERROR"
  <2>1. Unstored(r)
    BY <1>7 DEF Unstored
  <2>2. str \in Replies[r] /\ str \in Reply
    BY <1>1 DEF Replies, Reply
  <2>3. NoReply(s)
    BY <1>5 DEF NoReply
  <2> HIDE DEF str
  <2>4. Rejected(s, n, r)
    BY <1>1, <1>4, <1>7, <2>1, <2>2, <2>3, RejectedType DEF str
  <2>5. Rejected(k, n, r)
    BY <1>5, <2>4 DEF Rejected
  <2> QED
    BY <2>5
<1>8. \/ n = accepted /\ ~Refused(i)
      \/ /\ n = out_string(s, IF Refused(i) THEN "CLIENT_ERROR" ELSE "SERVER_ERROR")
         /\ Refused(i) \/ AllocFails
  <2> HIDE DEF space
  <2> QED
    BY DEF command_five_six_para, s, space
<1> QED
  BY <1>6, <1>7, <1>8

LEMMA StorageCommand ==
  ASSUME Polite, NEW k, Idle(k), NoReply(k), NEW r \in Storage, NEW n \in Command(k, Info[r])
  PROVE  Accepted(k, n, r) \/ Rejected(k, n, r)
<1> DEFINE i == Info[r]
<1>1. i.words \in {5, 6} /\ r \in Request
  BY DEF Storage
<1>2. PICK m \in command_five_six_para(k, i) : n = m \/ n = [m EXCEPT !.flag_precmd = TRUE]
  BY <1>1 DEF Command
<1>3. Accepted(k, m, r) \/ Rejected(k, m, r)
  BY <1>2, FiveSixCommand
<1> HIDE DEF i
<1>4. CASE n = m
  BY <1>3, <1>4
<1>5. CASE n = [m EXCEPT !.flag_precmd = TRUE]
  <2>1. m \in ConnType
    BY <1>3 DEF Accepted, Rejected, SameRest
  <2>2. n \in ConnType
    BY <1>5, <2>1 DEF ConnType
  <2>3. /\ n.state = m.state /\ n.flag_shake = m.flag_shake /\ n.cmd = m.cmd
        /\ n.rbuf = m.rbuf /\ n.rbuf_now = m.rbuf_now /\ n.rbuf_rlen = m.rbuf_rlen
        /\ n.rnbuf_len = m.rnbuf_len /\ n.rnbuf_rlen = m.rnbuf_rlen
        /\ n.wbuf = m.wbuf /\ n.wbuf_stale = m.wbuf_stale
        /\ n.wbuf_size = m.wbuf_size /\ n.wbuf_len = m.wbuf_len
        /\ n.wbuf_wlen = m.wbuf_wlen /\ n.watching = m.watching
    BY <1>5, <2>1 DEF ConnType
  <2>4. CASE Accepted(k, m, r)
    BY <2>2, <2>3, <2>4 DEF Accepted, SameRest
  <2>5. CASE Rejected(k, m, r)
    BY <2>2, <2>3, <2>5 DEF Rejected
  <2> QED
    BY <1>3, <2>4, <2>5
<1> QED
  BY <1>2, <1>4, <1>5

\* Advanced changes the offsets only.
LEMMA AdvancedFields ==
  ASSUME NEW n \in ConnType, NEW lf \in Nat, NEW m, m = Advanced(n, lf)
  PROVE  /\ m.state = n.state /\ m.flag_shake = n.flag_shake /\ m.cmd = n.cmd /\ m.rbuf = n.rbuf
         /\ m.rnbuf_len = n.rnbuf_len /\ m.rnbuf_rlen = n.rnbuf_rlen
         /\ m.wbuf = n.wbuf /\ m.wbuf_stale = n.wbuf_stale
         /\ m.wbuf_size = n.wbuf_size /\ m.wbuf_len = n.wbuf_len
         /\ m.wbuf_wlen = n.wbuf_wlen /\ m.watching = n.watching
         /\ m.rbuf_rlen = IF n.rbuf_rlen # 0 THEN n.rbuf_rlen - (lf - n.rbuf_now) ELSE 0
         /\ m.rbuf_now = IF n.rbuf_now # 0 THEN lf ELSE 0
<1> DEFINE rlen == IF n.rbuf_rlen # 0 THEN n.rbuf_rlen - (lf - n.rbuf_now) ELSE 0
           now == IF n.rbuf_now # 0 THEN lf ELSE 0
<1>1. m = [n EXCEPT !.rbuf_rlen = rlen, !.rbuf_now = now]
  BY DEF Advanced
<1> HIDE DEF rlen, now
<1>2. /\ m.state = n.state /\ m.flag_shake = n.flag_shake /\ m.cmd = n.cmd /\ m.rbuf = n.rbuf
      /\ m.rnbuf_len = n.rnbuf_len /\ m.rnbuf_rlen = n.rnbuf_rlen
      /\ m.wbuf = n.wbuf /\ m.wbuf_stale = n.wbuf_stale
      /\ m.wbuf_size = n.wbuf_size /\ m.wbuf_len = n.wbuf_len
      /\ m.wbuf_wlen = n.wbuf_wlen /\ m.watching = n.watching
      /\ m.rbuf_rlen = rlen /\ m.rbuf_now = now
  BY <1>1 DEF ConnType
<1> QED
  BY <1>2 DEF rlen, now

\* What is found in a value that came too late is dropped.
LEMMA DroppedText ==
  ASSUME NEW k \in Conns, k.state = "conn_parse_cmd", NoReply(k), ~k.flag_shake,
         NEW at \in Nat, NEW text, EndsLine(text), Has(k, at, text), Fresh = {"NUL"},
         at # 0 \/ \E q \in Quiet : at = 0 /\ text = Line(q),
         NEW m \in try_read_command(k)
  PROVE  /\ m.state = "conn_read" /\ Clean(m) /\ NoReply(m)
         /\ ~m.flag_shake /\ Len(m.rbuf) = Len(k.rbuf)
<1>1. k \in ConnType
  BY DEF Conns
<1>2. PICK line : \E e \in {k.rbuf_rlen - 1, k.rbuf_rlen} : \E n \in process_command(line) :
        /\ Ended(k, line, e) /\ Done(line, n)
        /\ m = IF n.state = "fault" THEN n ELSE Advanced(n, k.rbuf_rlen)
  BY TextRead
<1>3. PICK e \in {k.rbuf_rlen - 1, k.rbuf_rlen}, n \in process_command(line) :
        /\ Ended(k, line, e) /\ Done(line, n)
        /\ m = IF n.state = "fault" THEN n ELSE Advanced(n, k.rbuf_rlen)
  BY <1>2
<1>4. Words(line).words \notin {1, 2, 3, 5, 6}
  <2>1. CASE at # 0
    <3>1. Words(line) = [words |-> 0]
      BY <1>1, <1>3, <2>1, WordsOfValue
    <3> QED
      BY <3>1
  <2>2. CASE \E q \in Quiet : at = 0 /\ text = Line(q)
    <3>1. PICK q \in Quiet : at = 0 /\ text = Line(q)
      BY <2>2
    <3>2. q \in Request /\ Info[q].words \notin {1, 2, 3, 5, 6}
      BY <3>1 DEF Quiet
    <3>3. Words(line) = Info[q]
      BY <1>1, <1>3, <3>1, <3>2, WordsOfLine
    <3> QED
      BY <3>2, <3>3
  <2> QED
    BY <2>1, <2>2
<1>5. n \in Command(line, Words(line))
  BY <1>3 DEF process_command
<1>6. line \in ConnType /\ k.rbuf_rlen \in Nat
  BY <1>1, <1>3, FieldTypes DEF Ended, Idle
<1>7. SameRest(line, m) /\ m.state = "conn_read" /\ Clean(m)
  BY <1>3, <1>4, <1>5, <1>6, DroppedCommand
<1>8. line.wbuf_wlen = 0
  BY <1>3 DEF Ended, Idle
<1> QED
  BY <1>3, <1>7, <1>8 DEF SameRest, Ended, NoReply

\* The line of a command.
LEMMA LineRead ==
  ASSUME Polite, NEW k \in Conns, k.state = "conn_parse_cmd", NoReply(k), ~k.flag_shake,
         ReadBufLen <= Len(k.rbuf),
         NEW r \in Request, r \notin Quiet, Has(k, 0, Line(r)),
         Unstored(r) => k.rbuf_now = k.rbuf_rlen,
         NEW m \in try_read_command(k)
  PROVE  /\ ~m.flag_shake /\ Len(m.rbuf) = Len(k.rbuf)
         /\ \/ m.state = "conn_closed"
            \/ /\ r \notin Storage /\ r \notin Silent
               /\ m.state = "conn_write" /\ Clean(m) /\ m.watching = {"write"}
               /\ m.wbuf_wlen = 0 /\ 0 < m.wbuf_len /\ m.wbuf_size = WriteBufLen
               /\ m.wbuf \in Replies[r] /\ ~m.wbuf_stale
            \/ /\ r \in Storage
               /\ m.state = "conn_nread" /\ NoReply(m)
               /\ m.rnbuf_len = Len(Value(r)) /\ m.rnbuf_rlen = 0 /\ m.cmd = Info[r].verb
            \/ /\ r \in Storage
               /\ m.state = "conn_write" /\ Left(m, r) /\ m.watching = {"read"}
               /\ m.wbuf_wlen = 0 /\ 0 < m.wbuf_len /\ m.wbuf_size = WriteBufLen
               /\ m.wbuf \in Replies[r] /\ ~m.wbuf_stale
<1> DEFINE lf == k.rbuf_rlen
<1>1. k \in ConnType /\ lf \in Nat /\ Len(k.rbuf) \in Nat /\ Fresh = {"NUL"}
  BY FieldTypes DEF Conns, Polite
<1>2. EndsLine(Line(r)) /\ Len(Line(r)) \in Nat /\ Len(Line(r)) >= 3
  BY LineText DEF EndsLine
<1>3. PICK line : \E e \in {lf - 1, lf} : \E n \in process_command(line) :
        /\ Ended(k, line, e) /\ Done(line, n)
        /\ m = IF n.state = "fault" THEN n ELSE Advanced(n, lf)
  BY <1>1, <1>2, TextRead
<1>4. PICK e \in {lf - 1, lf}, n \in process_command(line) :
        /\ Ended(k, line, e) /\ Done(line, n)
        /\ m = IF n.state = "fault" THEN n ELSE Advanced(n, lf)
  BY <1>3
<1>5. n \in Command(line, Info[r])
  <2>1. Words(line) = Info[r]
    BY <1>1, <1>4, WordsOfLine
  <2> QED
    BY <1>4, <2>1 DEF process_command
<1>6. /\ Idle(line) /\ line \in ConnType /\ ~line.flag_shake /\ Len(line.rbuf) = Len(k.rbuf)
      /\ line.rbuf_rlen = lf /\ line.rbuf_now = k.rbuf_now /\ NoReply(line)
      /\ \A i \in 1..Len(k.rbuf) : line.rbuf[i] = IF i = e THEN "NUL" ELSE k.rbuf[i]
  BY <1>4 DEF Ended, Idle, NoReply
<1>7. m = Advanced(n, lf)
  <2>1. n.state # "fault"
    <3>1. CASE r \notin Storage
      BY <1>5, <1>6, <3>1, PlainCommand DEF Given, ConnType
    <3>2. CASE r \in Storage
      BY <1>5, <1>6, <3>2, StorageCommand DEF Accepted, Rejected
    <3> QED
      BY <3>1, <3>2
  <2> QED
    BY <1>4, <2>1
<1> HIDE DEF lf
<1>8. CASE r \notin Storage
  <2>1. CASE n = [line EXCEPT !.state = "conn_closed"]
    <3>1. n \in ConnType /\ n.state = "conn_closed" /\ ~n.flag_shake /\ n.rbuf = line.rbuf
      BY <1>6, <2>1 DEF ConnType, ConnState
    <3>2. m.state = n.state /\ m.flag_shake = n.flag_shake /\ m.rbuf = n.rbuf
      BY <1>1, <1>7, <3>1, AdvancedFields
    <3> QED
      BY <1>6, <3>1, <3>2
  <2>2. CASE r \notin Silent /\ Given(line, n) /\ n.wbuf \in Replies[r]
    <3>1. Given(line, m) /\ m.wbuf = n.wbuf
      BY <1>1, <1>7, <2>2, AdvancedGiven
    <3> QED
      BY <1>6, <1>8, <2>2, <3>1 DEF Given, NoReply
  <2> QED
    BY <1>5, <1>6, <1>8, <2>1, <2>2, PlainCommand
<1>9. CASE r \in Storage
  <2>1. CASE Accepted(line, n, r)
    <3>1. n \in ConnType
      BY <2>1 DEF Accepted, SameRest
    <3>2. /\ m.state = n.state /\ m.flag_shake = n.flag_shake /\ m.cmd = n.cmd /\ m.rbuf = n.rbuf
          /\ m.rnbuf_len = n.rnbuf_len /\ m.rnbuf_rlen = n.rnbuf_rlen
          /\ m.wbuf = n.wbuf /\ m.wbuf_stale = n.wbuf_stale
          /\ m.wbuf_size = n.wbuf_size /\ m.wbuf_len = n.wbuf_len
          /\ m.wbuf_wlen = n.wbuf_wlen /\ m.watching = n.watching
      BY <1>1, <1>7, <3>1, AdvancedFields
    <3>3. NoReply(m)
      BY <1>6, <2>1, <3>2 DEF Accepted, SameRest, NoReply
    <3> QED
      BY <1>6, <1>9, <2>1, <3>2, <3>3 DEF Accepted, SameRest
  <2>2. CASE Rejected(line, n, r)
    <3>1. n \in ConnType /\ Unstored(r)
      BY <2>2 DEF Rejected
    <3>2. /\ m.state = n.state /\ m.flag_shake = n.flag_shake /\ m.rbuf = n.rbuf
          /\ m.wbuf = n.wbuf /\ m.wbuf_stale = n.wbuf_stale
          /\ m.wbuf_size = n.wbuf_size /\ m.wbuf_len = n.wbuf_len
          /\ m.wbuf_wlen = n.wbuf_wlen /\ m.watching = n.watching
          /\ m.rbuf_rlen = IF n.rbuf_rlen # 0 THEN n.rbuf_rlen - (lf - n.rbuf_now) ELSE 0
          /\ m.rbuf_now = IF n.rbuf_now # 0 THEN lf ELSE 0
      BY <1>1, <1>7, <3>1, AdvancedFields
    <3>3. /\ lf = Len(Line(r))
          /\ \A i \in 1..Len(k.rbuf) : i > lf => k.rbuf[i] = "NUL"
      <4>1. /\ lf = 0 + Len(Line(r))
            /\ \A i \in 1..Len(k.rbuf) : i \notin (0 + 1)..lf => k.rbuf[i] = "NUL"
        BY DEF Has, lf
      <4> QED
        BY <1>1, <1>2, <4>1
    <3>4. n.rbuf_rlen = lf /\ n.rbuf_now = lf /\ n.rbuf = line.rbuf
      BY <1>6, <2>2, <3>1 DEF Rejected, lf
    <3>5. m.rbuf_rlen = lf /\ m.rbuf_now = lf
      BY <1>1, <1>2, <3>2, <3>3, <3>4
    <3>6. 2 * lf <= Len(k.rbuf)
      <4>1. 2 * Len(Line(r)) <= ReadBufLen /\ ReadBufLen \in Nat
        BY <3>1, ConnAssumption DEF Polite
      <4> QED
        BY <1>1, <1>2, <3>3, <4>1
    <3>7. Left(m, r)
      BY <1>6, <3>1, <3>2, <3>3, <3>4, <3>5, <3>6 DEF Left
    <3>8. m.watching = {"read"}
      BY <1>6, <2>2, <3>2 DEF Rejected, NoReply
    <3> QED
      BY <1>6, <1>9, <2>2, <3>2, <3>4, <3>7, <3>8 DEF Rejected, NoReply
  <2> QED
    BY <1>5, <1>6, <1>9, <2>1, <2>2, StorageCommand
<1> QED
  BY <1>8, <1>9

\* The units of s with p written over its head.
LEMMA OverUnits ==
  ASSUME NEW s \in Seq(Unit), NEW p \in Seq(Unit), Len(p) <= Len(s)
  PROVE  \A i \in 1..Len(s) : Over(s, p)[i] = IF i <= Len(p) THEN p[i] ELSE s[i]
<1> DEFINE t == SubSeq(s, Len(p) + 1, Len(s))
<1>1. Len(s) \in Nat /\ Len(p) \in Nat
  OBVIOUS
<1>2. \A i \in (Len(p) + 1)..Len(s) : s[i] \in Unit
  BY <1>1
<1>3. /\ t \in Seq(Unit) /\ Len(t) = IF Len(p) + 1 <= Len(s) THEN Len(s) - (Len(p) + 1) + 1 ELSE 0
      /\ \A i \in 1..(Len(s) - (Len(p) + 1) + 1) : t[i] = s[(Len(p) + 1) + i - 1]
  <2>1. Len(p) + 1 \in Int /\ Len(s) \in Int
    BY <1>1
  <2> QED
    BY <1>2, <2>1, SubSeqProperties
<1> HIDE DEF t
<1>4. Len(t) = Len(s) - Len(p) /\ \A i \in 1..Len(t) : t[i] = s[Len(p) + i]
  BY <1>1, <1>3
<1>5. \A i \in 1..(Len(p) + Len(t)) : (p \o t)[i] = IF i <= Len(p) THEN p[i] ELSE t[i - Len(p)]
  BY <1>3, ConcatProperties
<1>6. \A i \in 1..Len(s) : i > Len(p) => t[i - Len(p)] = s[i]
  BY <1>1, <1>4
<1>7. Over(s, p) = p \o t
  BY DEF Over, t
<1>8. Len(p) + Len(t) = Len(s)
  BY <1>1, <1>4
<1> QED
  BY <1>1, <1>5, <1>6, <1>7, <1>8

\* All of rbuf is NUL.
Wiped(k) == \A i \in 1..Len(k.rbuf) : k.rbuf[i] = "NUL"

\* The move to the front leaves nothing of a line that was dealt with.
LEMMA MovedWiped ==
  ASSUME NEW k \in ConnType, k.rbuf_rlen <= Len(k.rbuf), ~Overread(k),
         \A i \in 1..Len(k.rbuf) : \/ k.rbuf[i] = "NUL"
                                   \/ k.rbuf_now = k.rbuf_rlen /\ i <= k.rbuf_rlen,
         NEW m \in Moved(k)
  PROVE  Wiped(m) /\ SameRest(k, m) /\ m.rbuf_rlen = k.rbuf_rlen
<1>1. /\ k.rbuf \in Seq(Unit) /\ Len(k.rbuf) \in Nat /\ k.rbuf_now \in Nat /\ k.rbuf_rlen \in Nat
  BY FieldTypes
<1>2. m \in ConnType /\ m.rbuf_rlen = k.rbuf_rlen /\ Len(m.rbuf) = Len(k.rbuf)
  BY MovedType
<1>3. CASE k.rbuf_now = 0
  <2>1. m = k
    BY <1>3 DEF Moved
  <2> QED
    BY <1>1, <1>3, <2>1 DEF Wiped, SameRest
<1>4. CASE k.rbuf_now # 0
  <2>1. PICK beyond \in {"NUL", "junk"} :
          m = [k EXCEPT !.rbuf = Over(@, [i \in 1..k.rbuf_rlen |->
                                           IF k.rbuf_now + i <= Len(@) THEN @[k.rbuf_now + i]
                                           ELSE beyond]),
                        !.rbuf_now = 0]
    BY <1>4 DEF Moved
  <2> DEFINE p == [i \in 1..k.rbuf_rlen |->
                     IF k.rbuf_now + i <= Len(k.rbuf) THEN k.rbuf[k.rbuf_now + i] ELSE beyond]
             z == Over(k.rbuf, p)
  <2>0. m = [k EXCEPT !.rbuf = z, !.rbuf_now = 0]
    BY <2>1
  <2>2. \A i \in 1..k.rbuf_rlen : p[i] = "NUL"
    <3> SUFFICES ASSUME NEW i \in 1..k.rbuf_rlen PROVE p[i] = "NUL"
      OBVIOUS
    <3>1. k.rbuf_now + i \in 1..Len(k.rbuf)
      BY <1>1, <1>4 DEF Overread
    <3>2. ~(k.rbuf_now = k.rbuf_rlen /\ k.rbuf_now + i <= k.rbuf_rlen)
      BY <1>1
    <3> QED
      BY <3>1, <3>2
  <2>3. p \in Seq(Unit) /\ Len(p) = k.rbuf_rlen
    <3>1. DOMAIN p = 1..k.rbuf_rlen /\ "NUL" \in Unit
      BY DEF Unit
    <3>2. p \in [1..k.rbuf_rlen -> Unit]
      BY <2>2, <3>1
    <3> HIDE DEF p
    <3> QED
      BY <1>1, <3>2, TableType
  <2> HIDE DEF p
  <2>4. \A i \in 1..Len(k.rbuf) : z[i] = IF i <= k.rbuf_rlen THEN p[i] ELSE k.rbuf[i]
    BY <1>1, <2>3, OverUnits
  <2>5. \A i \in 1..Len(k.rbuf) : z[i] = "NUL"
    BY <1>1, <2>2, <2>4
  <2> HIDE DEF z
  <2>6. /\ m.rbuf = z /\ m.flag_shake = k.flag_shake
        /\ m.wbuf = k.wbuf /\ m.wbuf_stale = k.wbuf_stale /\ m.wbuf_size = k.wbuf_size
        /\ m.wbuf_len = k.wbuf_len /\ m.wbuf_wlen = k.wbuf_wlen /\ m.watching = k.watching
    BY <2>0 DEF ConnType
  <2>7. Wiped(m)
    BY <1>2, <2>5, <2>6 DEF Wiped
  <2> QED
    BY <1>2, <2>6, <2>7 DEF SameRest
<1> QED
  BY <1>3, <1>4

\* rbuf grows enough for what it may hold at most.
LEMMA GrowthEnough ==
  ASSUME NEW k \in ConnType, NEW total \in Nat, ReadBufLen <= Len(k.rbuf),
         total <= ReadBufLen * 2^MaxGrowth
  PROVE  /\ total <= Len(k.rbuf) * 2^Growth(k, total)
         /\ total < Len(k.rbuf) => Growth(k, total) = 0
<1> DEFINE g == Growth(k, total)
           len == Len(k.rbuf)
<1>1. len \in Nat /\ ReadBufLen \in Nat
  BY FieldTypes, ConnAssumption
<1>2. /\ g \in 0..4 /\ (g = 4 \/ total < len * 2^g)
      /\ g # 0 => len * 2^(g - 1) <= total
  BY GrowthLeast
<1>3. 2^4 = 16 /\ MaxGrowth = 4
  BY DEF MaxGrowth
<1> HIDE DEF g, len
<1>4. ASSUME g = 4 PROVE total <= len * 2^g
  <2>1. ReadBufLen * 16 <= len * 16
    BY <1>1 DEF len
  <2>2. total <= ReadBufLen * 16
    BY <1>3
  <2>3. len * 2^g = len * 16
    BY <1>3, <1>4
  <2> QED
    BY <1>1, <2>1, <2>2, <2>3
<1>5. ASSUME g # 4 PROVE total <= len * 2^g
  <2>1. len * 2^g \in Nat
    BY <1>1, <1>2, Doublings
  <2> QED
    BY <1>2, <1>5, <2>1
<1>6. ASSUME total < len PROVE g = 0
  <2> SUFFICES ASSUME g # 0 PROVE FALSE
    OBVIOUS
  <2>1. g - 1 \in 0..4
    BY <1>2
  <2>2. len * 2^(g - 1) \in Nat /\ len <= len * 2^(g - 1)
    BY <1>1, <2>1, Doublings
  <2> QED
    BY <1>1, <1>2, <1>6, <2>2
<1>7. total <= len * 2^g /\ (total < len => g = 0)
  BY <1>4, <1>5, <1>6
<1> QED
  BY <1>7 DEF g, len

\* A text arrives in an empty rbuf.
LEMMA TextArrives ==
  ASSUME NEW k \in ConnType, Wiped(k), k.rbuf_rlen < Len(k.rbuf), ReadBufLen <= Len(k.rbuf),
         NEW arrived \in Seq(Unit), NEW gone \in BOOLEAN,
         k.rbuf_rlen + Len(arrived) <= ReadBufLen * 2^MaxGrowth,
         k.wbuf_wlen = 0, k.rnbuf_rlen = 0, Fresh = {"NUL"}, NEW fill \in Fresh,
         NEW m, m = ReadInto(k, arrived, gone, Growth(k, k.rbuf_rlen + Len(arrived)), fill)
  PROVE  /\ Has(m, k.rbuf_rlen, arrived) /\ Len(k.rbuf) <= Len(m.rbuf)
         /\ m.flag_shake = k.flag_shake
         /\ m.wbuf = k.wbuf /\ m.wbuf_stale = k.wbuf_stale /\ m.wbuf_size = k.wbuf_size
         /\ m.wbuf_len = k.wbuf_len /\ m.wbuf_wlen = k.wbuf_wlen /\ m.watching = k.watching
         /\ arrived = <<>> => m.state = IF gone THEN "conn_closed" ELSE "conn_waiting"
         /\ arrived # <<>> => m.state \in {"conn_closed", "conn_parse_cmd"}
         /\ k.rbuf_rlen = 0 /\ Len(arrived) < Len(k.rbuf) => m.rbuf_now = m.rbuf_rlen
<1> DEFINE len   == Len(k.rbuf)
           total == k.rbuf_rlen + Len(arrived)
           n     == Growth(k, total)
           size  == len * 2^n
           taken == Min2(total, size)
           start == IF n = 0 THEN k.rbuf_rlen ELSE size \div 2
           z     == [i \in 1..size |->
                       IF i \in (k.rbuf_rlen + 1)..taken THEN arrived[i - k.rbuf_rlen]
                       ELSE IF i <= Len(k.rbuf) THEN k.rbuf[i] ELSE fill]
           state == IF taken = start /\ gone THEN "conn_closed"
                    ELSE IF arrived = <<>> THEN "conn_waiting"
                    ELSE "conn_parse_cmd"
<1>1. /\ k.rbuf \in Seq(Unit) /\ len \in Nat /\ k.rbuf_rlen \in Nat /\ Len(arrived) \in Nat
      /\ total \in Nat
  BY FieldTypes
<1>2. n \in 0..4 /\ total <= size /\ (total < len => n = 0)
  BY <1>1, GrowthLeast, GrowthEnough
<1>3. size \in Nat /\ len <= size /\ (n = 0 => size = len)
  BY <1>1, <1>2, Doublings
<1>4. taken = total
  BY <1>1, <1>2, <1>3 DEF Min2
<1>5. m = [k EXCEPT !.rbuf = z, !.rbuf_now = taken - start, !.rbuf_rlen = taken, !.state = state]
  BY DEF ReadInto
<1> HIDE DEF size, n
<1>6. \A i \in 1..size : z[i] = IF i \in (k.rbuf_rlen + 1)..total THEN arrived[i - k.rbuf_rlen]
                                ELSE "NUL"
  <2>1. \A i \in 1..size : i <= len => k.rbuf[i] = "NUL"
    BY <1>1 DEF Wiped
  <2>2. fill = "NUL"
    OBVIOUS
  <2> HIDE DEF total, len, taken
  <2> QED
    BY <1>4, <2>1, <2>2 DEF len
<1>7. m \in ConnType
  <2>1. m \in Conns
    <3>1. k.rbuf_rlen <= Len(k.rbuf)
      BY <1>1
    <3> QED
      BY <3>1, ReadIntoSane
  <2> QED
    BY <2>1 DEF Conns
<1> HIDE DEF z, state, taken, start
<1>8. /\ m.rbuf = z /\ m.rbuf_now = taken - start /\ m.rbuf_rlen = taken /\ m.state = state
      /\ m.flag_shake = k.flag_shake /\ m.wbuf = k.wbuf /\ m.wbuf_stale = k.wbuf_stale
      /\ m.wbuf_size = k.wbuf_size
      /\ m.wbuf_len = k.wbuf_len /\ m.wbuf_wlen = k.wbuf_wlen /\ m.watching = k.watching
  BY <1>5 DEF ConnType
<1>9. Len(z) = size
  <2>1. DOMAIN z = 1..size
    BY DEF z
  <2>2. z \in Seq(Unit)
    BY <1>7, <1>8, FieldTypes
  <2> QED
    BY <1>3, <2>1, <2>2
<1>10. Has(m, k.rbuf_rlen, arrived)
  BY <1>2, <1>4, <1>6, <1>8, <1>9 DEF Has
<1>11. ASSUME arrived = <<>> PROVE state = IF gone THEN "conn_closed" ELSE "conn_waiting"
  <2>1. total = k.rbuf_rlen
    BY <1>1, <1>11
  <2>2. taken = start
    BY <1>2, <1>4, <2>1 DEF start
  <2> QED
    BY <1>11, <2>2 DEF state
<1>12. ASSUME arrived # <<>> PROVE state \in {"conn_closed", "conn_parse_cmd"}
  BY <1>12 DEF state
<1>13. ASSUME k.rbuf_rlen = 0, Len(arrived) < Len(k.rbuf) PROVE taken - start = taken
  <2>1. total < len
    BY <1>1, <1>13
  <2>2. start = 0
    BY <1>2, <1>13, <2>1 DEF start
  <2> QED
    BY <1>1, <1>4, <2>2
<1> QED
  BY <1>3, <1>8, <1>9, <1>10, <1>11, <1>12, <1>13

-----------------------------------------------------------------------------
(* Polite clients: what clients and the kernel do *)

\* Kinds of requests.
LEMMA Kinds ==
  /\ None \notin Request /\ Quiet \subseteq Silent /\ Quiet \subseteq Request
  /\ Storage \subseteq Request /\ Storage \cap Silent = {}
<1>1. None \notin Request
  BY ConnAssumption
<1>2. Storage \cap Silent = {}
  BY DEF Storage, Silent, Quiet
<1> QED
  BY <1>1, <1>2 DEF Silent, Quiet, Storage

\* An open session is not settled, unless its line is dropped.
LEMMA OpenSettled ==
  ASSUME NEW ss, Open(ss), Settled(ss)
  PROVE  ss.req \in Quiet
BY Kinds DEF Open, Settled

\* A new request.
LEMMA AskPhase ==
  ASSUME NEW k, NEW s, NEW ss, NEW rm, NEW on, Phase(k, s, <<>>, ss, "here", rm, on),
         Settled(ss), NEW r \in Request, NEW new, new = [req |-> r, value |-> <<>>, reply |-> None]
  PROVE  Phase(k, s, Parts(r), new, "here", rm, on)
<1>1. Open(new) /\ Unsent(Parts(r), new, "here")
  BY DEF Open, Unsent
<1>2. ASSUME Between(s, <<>>, ss, "here") PROVE Between(s, Parts(r), new, "here")
  <2>1. CASE OnLine(s, <<>>, ss, "here")
    <3>1. ss.req \in Quiet /\ s = Line(ss.req)
      BY <2>1, OpenSettled DEF OnLine
    <3> QED
      BY <1>1, <3>1 DEF Between, Gone
  <2> QED
    BY <1>1, <1>2, <2>1 DEF Between, Gone
<1>3. \A m : ~ValuePart(m, s, <<>>, ss, "here")
  BY OpenSettled, Kinds DEF ValuePart
<1>4. k.state \in {"conn_read", "conn_waiting"} => Resting(k, s, Parts(r), new, "here")
  BY <1>1, <1>2 DEF Phase, Resting
<1>5. k.state = "conn_parse_cmd" => on /\ Parsing(k, s, Parts(r), new, "here")
  BY <1>2, OpenSettled DEF Phase, Parsing
<1>6. k.state # "conn_nread"
  BY <1>3 DEF Phase, Receiving
<1>7. k.state # "conn_write"
  <2>1. ~Replying(k, s, <<>>, ss)
    BY Kinds DEF Replying, Settled
  <2> QED
    BY <1>3, <2>1 DEF Phase, Writing, Refusing
<1> QED
  BY <1>4, <1>5, <1>6, <1>7 DEF Phase

\* A line is sent in one piece.
LEMMA SendLine ==
  ASSUME Polite, NEW t, NEW ss, Open(ss), t = Parts(ss.req),
         NEW n \in 1..Len(Head(t)),
         (IF ss.req \in Storage /\ Len(t) = 1 THEN CutValues ELSE CutLines) \/ n = Len(Head(t))
  PROVE  n = Len(Head(t)) /\ OnLine(SubSeq(Head(t), 1, n), Tail(t), ss, "here")
<1>1. ss.req \in Request
  BY DEF Open
<1>2. /\ t # <<>> /\ Head(t) = Line(ss.req)
      /\ ss.req \in Storage => Len(t) # 1
  BY <1>1, PartsText
<1>3. n = Len(Head(t))
  BY <1>2 DEF Polite
<1>4. Line(ss.req) \in Seq(Unit)
  BY <1>1, LineText DEF EndsLine
<1>5. SubSeq(Head(t), 1, n) = Line(ss.req)
  BY <1>2, <1>3, <1>4, SubSeqFull
<1> QED
  BY <1>3, <1>5 DEF OnLine

\* A part of one text.
LEMMA OnePart ==
  ASSUME NEW w \in Seq(Unit)
  PROVE  /\ <<w>> \in Seq(Seq(Unit)) /\ Len(<<w>>) = 1 /\ <<w>>[1] = w /\ Head(<<w>>) = w
         /\ Tail(<<w>>) = <<>> /\ <<w>> # <<>>
         /\ Len(<<>>) = 0 /\ (w = <<>> <=> Len(w) = 0) /\ Len(w) \in Nat
OBVIOUS

\* The last units of a value arrive, or others are left.
LEMMA LastPiece ==
  ASSUME NEW m \in Nat, NEW w \in Seq(Unit), NEW ss, NEW p, ValuePart(m, <<>>, <<w>>, ss, p)
  PROVE  ValuePart(m, w, <<>>, ss, p)
<1>1. /\ Open(ss) /\ ss.req \in Storage /\ m + Len(<<>>) + Len(w) = Len(Value(ss.req))
      /\ ~CutValues => m = 0 /\ w = Value(ss.req)
  BY OnePart DEF ValuePart
<1>2. m + Len(w) = Len(Value(ss.req))
  BY <1>1, OnePart
<1>3. m + Len(w) <= Len(Value(ss.req))
  <2>1. Len(w) \in Nat
    OBVIOUS
  <2> QED
    BY <1>2, <2>1
<1> QED
  BY <1>1, <1>2, <1>3 DEF ValuePart

LEMMA OtherPiece ==
  ASSUME NEW m \in Nat, NEW w \in Seq(Unit), NEW ss, NEW p, ValuePart(m, <<>>, <<w>>, ss, p),
         CutValues, NEW a \in Seq(Unit), NEW b \in Seq(Unit),
         Len(a) + Len(b) = Len(w), b # <<>>
  PROVE  ValuePart(m, a, <<b>>, ss, p)
<1>1. Open(ss) /\ ss.req \in Storage /\ m + Len(<<>>) + Len(w) = Len(Value(ss.req))
  BY OnePart DEF ValuePart
<1>2. m + Len(a) + Len(b) = Len(Value(ss.req))
  <2>1. Len(a) \in Nat /\ Len(b) \in Nat /\ Len(<<>>) = 0
    OBVIOUS
  <2> QED
    BY <1>1, <2>1
<1>3. Len(<<b>>) = 1 /\ <<b>>[1] = b
  OBVIOUS
<1> QED
  BY <1>1, <1>2, <1>3 DEF ValuePart

\* A value is sent, in one piece or in several.
LEMMA SendValue ==
  ASSUME NEW m \in Nat, NEW t \in Seq(Seq(Unit)), t # <<>>, NEW ss,
         ValuePart(m, <<>>, t, ss, "here"),
         NEW n \in 1..Len(Head(t)),
         (IF ss.req \in Storage /\ Len(t) = 1 THEN CutValues ELSE CutLines) \/ n = Len(Head(t))
  PROVE  ValuePart(m, SubSeq(Head(t), 1, n),
                   IF n = Len(Head(t)) THEN Tail(t)
                   ELSE <<SubSeq(Head(t), n + 1, Len(Head(t)))>> \o Tail(t), ss, "here")
<1> DEFINE w == Head(t)
           a == SubSeq(w, 1, n)
           b == SubSeq(w, n + 1, Len(w))
<1>1. ss.req \in Storage /\ Len(t) = 1
  BY DEF ValuePart
<1>2. t = <<w>> /\ w \in Seq(Unit)
  BY <1>1
<1>3. CutValues \/ n = Len(w)
  BY <1>1
<1>4. n \in 1..Len(w)
  OBVIOUS
<1> HIDE DEF w
<1>5. Tail(t) = <<>> /\ Len(w) \in Nat
  BY <1>2, OnePart
<1>6. CASE n = Len(w)
  <2>1. a = w
    BY <1>2, <1>6, SubSeqFull
  <2>2. ValuePart(m, a, Tail(t), ss, "here")
    BY <1>2, <1>5, <2>1, LastPiece
  <2> QED
    BY <1>6, <2>2 DEF w
<1>7. CASE n # Len(w)
  <2>1. n \in Nat \ {0} /\ n + 1 \in Nat \ {0} /\ n <= Len(w) /\ n + 1 <= Len(w) /\ 1 \in Nat \ {0}
    BY <1>4, <1>5, <1>7
  <2>2. /\ a \in Seq(Unit) /\ Len(a) = IF 1 <= n THEN n - 1 + 1 ELSE 0
        /\ b \in Seq(Unit) /\ Len(b) = IF n + 1 <= Len(w) THEN Len(w) - (n + 1) + 1 ELSE 0
    BY <1>2, <1>5, <2>1, PieceType
  <2> HIDE DEF a, b
  <2>3. Len(a) + Len(b) = Len(w) /\ Len(b) # 0
    BY <1>5, <2>1, <2>2
  <2>4. b # <<>>
    BY <2>2, <2>3, OnePart
  <2>5. ValuePart(m, a, <<b>>, ss, "here")
    BY <1>2, <1>3, <1>7, <2>2, <2>3, <2>4, OtherPiece
  <2>6. <<b>> \o Tail(t) = <<b>>
    BY <1>5, <2>2, OnePart, ConcatEmptySeq
  <2> QED
    BY <1>7, <2>5, <2>6 DEF w, a, b
<1> QED
  BY <1>6, <1>7

\* No text is empty.
LEMMA NotEmpty ==
  ASSUME NEW r \in Request
  PROVE  Line(r) # <<>> /\ Value(r) # <<>>
<1>1. Len(Line(r)) >= 2 /\ Len(Value(r)) >= 2 /\ Len(<<>>) = 0
  BY LineText, ValueText DEF EndsLine
<1> QED
  BY <1>1

LEMMA SendPhase ==
  ASSUME Polite, NEW k \in ConnType, NEW t \in Seq(Seq(Unit)), t # <<>>, NEW ss, NEW rm, NEW on,
         Phase(k, <<>>, t, ss, "here", rm, on),
         NEW n \in 1..Len(Head(t)),
         (IF ss.req \in Storage /\ Len(t) = 1 THEN CutValues ELSE CutLines) \/ n = Len(Head(t)),
         NEW s, s = SubSeq(Head(t), 1, n),
         NEW u, u = IF n = Len(Head(t)) THEN Tail(t)
                    ELSE <<SubSeq(Head(t), n + 1, Len(Head(t)))>> \o Tail(t)
  PROVE  Phase(k, s, u, ss, "here", rm, on)
<1>1. ASSUME Unsent(t, ss, "here") PROVE OnLine(s, u, ss, "here")
  <2>1. Open(ss) /\ t = Parts(ss.req)
    BY <1>1 DEF Unsent
  <2>2. n = Len(Head(t)) /\ OnLine(s, Tail(t), ss, "here")
    BY <2>1, SendLine
  <2> QED
    BY <2>2
<1>2. ASSUME Between(<<>>, t, ss, "here") PROVE Between(s, u, ss, "here")
  <2>1. ~OnLine(<<>>, t, ss, "here")
    BY NotEmpty DEF OnLine, Open
  <2>2. \A q \in Quiet : Line(q) # <<>>
    BY NotEmpty, Kinds
  <2>3. Unsent(t, ss, "here")
    BY <1>2, <2>1, <2>2 DEF Between
  <2> QED
    BY <1>1, <2>3 DEF Between, Gone
<1>3. ASSUME NEW m \in Nat, ValuePart(m, <<>>, t, ss, "here")
      PROVE  ValuePart(m, s, u, ss, "here")
  BY <1>3, SendValue
<1>4. k.rnbuf_rlen \in Nat
  BY FieldTypes
<1>5. k.state \in {"conn_read", "conn_waiting"} => Resting(k, s, u, ss, "here")
  <2>1. \A q \in Request : Value(q) # <<>>
    BY NotEmpty
  <2> QED
    BY <1>2, <2>1 DEF Phase, Resting
<1>6. k.state = "conn_parse_cmd" => on /\ Parsing(k, s, u, ss, "here")
  BY <1>2, <1>3 DEF Phase, Parsing
<1>7. k.state = "conn_nread" => Receiving(k, s, u, ss, "here")
  BY <1>3, <1>4 DEF Phase, Receiving
<1>8. k.state = "conn_write" => Writing(k, s, u, ss, "here", on)
  <2>1. s # <<>>
    <3>1. /\ Head(t) \in Seq(Unit) /\ Len(Head(t)) \in Nat
          /\ n \in Nat /\ 1 \in Nat \ {0} /\ 1 <= n /\ n <= Len(Head(t))
      BY HeadTailProperties
    <3>2. s \in Seq(Unit) /\ Len(s) = IF 1 <= n THEN n - 1 + 1 ELSE 0
      BY <3>1, PieceType
    <3>3. Len(s) = n /\ n # 0
      BY <3>1, <3>2
    <3>4. Len(<<>>) = 0
      OBVIOUS
    <3> QED
      BY <3>3, <3>4
  <2>2. ~Replying(k, <<>>, t, ss)
    BY DEF Replying
  <2> QED
    BY <1>3, <2>1, <2>2 DEF Phase, Writing, Refusing, Gone
<1> QED
  BY <1>5, <1>6, <1>7, <1>8 DEF Phase

\* A client leaves: what it has not sent will never come.
LEMMA LeavePhase ==
  ASSUME NEW k \in ConnType, NEW s \in Seq(Unit), NEW t \in Seq(Seq(Unit)), NEW ss,
         NEW rm \in 0..SendRoom, NEW on, Phase(k, s, t, ss, "here", rm, on),
         NEW p, p = IF rm < SendRoom THEN "rst" ELSE "fin"
  PROVE  Phase(k, s, <<>>, ss, p, rm, on)
<1>1. p \in {"rst", "fin"} /\ ~Gone(p)
  BY DEF Gone
<1>2. Unsent(<<>>, ss, p)
  BY <1>1 DEF Unsent
<1>3. Between(s, t, ss, "here") => Between(s, <<>>, ss, p)
  BY <1>1, <1>2 DEF Between, OnLine
<1>4. ASSUME NEW m \in Nat, ValuePart(m, s, t, ss, "here")
      PROVE  ValuePart(m, s, <<>>, ss, p)
  <2>1. /\ Open(ss) /\ ss.req \in Storage
        /\ ~CutValues => m = 0 /\ s \in {<<>>, Value(ss.req)}
    BY <1>4 DEF ValuePart
  <2>2. m + Len(s) <= Len(Value(ss.req))
    <3>1. CASE m + Len(s) <= Len(Value(ss.req))
      BY <3>1
    <3>2. CASE Len(t) = 1 /\ m + Len(s) + Len(t[1]) = Len(Value(ss.req))
      <4>1. Len(t[1]) \in Nat /\ Len(s) \in Nat
        BY <3>2
      <4> QED
        BY <3>2, <4>1
    <3> QED
      BY <1>4, <3>1, <3>2 DEF ValuePart
  <2> QED
    BY <1>1, <2>1, <2>2 DEF ValuePart
<1>5. k.rnbuf_rlen \in Nat
  BY FieldTypes
<1>6. k.state \in {"conn_read", "conn_waiting"} => Resting(k, s, <<>>, ss, p)
  BY <1>1, <1>2, <1>3 DEF Phase, Resting
<1>7. k.state = "conn_parse_cmd" => on /\ Parsing(k, s, <<>>, ss, p)
  BY <1>1, <1>3, <1>4 DEF Phase, Parsing
<1>8. k.state = "conn_nread" => Receiving(k, s, <<>>, ss, p)
  BY <1>1, <1>4, <1>5 DEF Phase, Receiving
<1>9. k.state = "conn_write" => Writing(k, s, <<>>, ss, p, on)
  BY <1>1, <1>4 DEF Phase, Writing, Refusing, Replying
<1>10. p = "fin" => rm = SendRoom
  BY ClientsAssumption
<1> QED
  BY <1>6, <1>7, <1>8, <1>9, <1>10 DEF Phase

\* The client reads.
LEMMA DrainPhase ==
  ASSUME NEW k, NEW s, NEW t, NEW ss, NEW rm, NEW on, Phase(k, s, t, ss, "here", rm, on)
  PROVE  Phase(k, s, t, ss, "here", SendRoom, on)
BY DEF Phase

\* The reset comes back.
LEMMA ResetPhase ==
  ASSUME NEW k, NEW s, NEW t, NEW ss, NEW rm, NEW on, Phase(k, s, t, ss, "late", rm, on)
  PROVE  Phase(k, s, t, ss, "pipe", rm, on)
<1>1. Gone("late") /\ Gone("pipe")
  BY DEF Gone
<1>2. \A m : ValuePart(m, s, t, ss, "late") => ValuePart(m, s, t, ss, "pipe")
  BY DEF ValuePart
<1>3. Between(s, t, ss, "late") => Between(s, t, ss, "pipe")
  BY <1>1 DEF Between, OnLine, Unsent
<1>4. k.state \in {"conn_read", "conn_waiting"} => Resting(k, s, t, ss, "pipe")
  BY <1>3 DEF Phase, Resting, Unsent
<1>5. k.state = "conn_parse_cmd" => on /\ Parsing(k, s, t, ss, "pipe")
  BY <1>1, <1>3 DEF Phase, Parsing
<1>6. k.state # "conn_nread"
  BY DEF Phase, Receiving
<1>7. k.state = "conn_write" => Writing(k, s, t, ss, "pipe", on)
  BY <1>1, <1>2 DEF Phase, Writing, Refusing, Replying
<1> QED
  BY <1>4, <1>5, <1>6, <1>7 DEF Phase

\* The loop reports an event.
LEMMA WakePhase ==
  ASSUME NEW k, NEW s, NEW t, NEW ss, NEW p, NEW rm, Phase(k, s, t, ss, p, rm, FALSE),
         \/ "read" \in k.watching /\ (s # <<>> \/ p # "here")
         \/ "write" \in k.watching
  PROVE  Phase(k, s, t, ss, p, rm, TRUE)
<1>1. k.state # "conn_parse_cmd"
  BY DEF Phase
<1>2. k.state = "conn_write" => Writing(k, s, t, ss, p, TRUE)
  BY DEF Phase, Writing, Refusing
<1> QED
  BY <1>1, <1>2 DEF Phase

\* The callback is over.
LEMMA OffPhase ==
  ASSUME NEW k, NEW s, NEW t, NEW ss, NEW p, NEW rm, NEW on, Phase(k, s, t, ss, p, rm, on),
         k.state # "conn_parse_cmd"
  PROVE  Phase(k, s, t, ss, p, rm, FALSE)
BY DEF Phase, Writing, Refusing

LEMMA WaitingPhase ==
  ASSUME NEW k \in ConnType, NEW s, NEW t, NEW ss, NEW p, NEW rm, NEW on,
         Phase(k, s, t, ss, p, rm, on), k.state = "conn_waiting",
         NEW m, m = [k EXCEPT !.state = "conn_read"]
  PROVE  Phase(m, s, t, ss, p, rm, FALSE)
<1>1. /\ m.state = "conn_read" /\ m.flag_shake = k.flag_shake
      /\ m.rbuf = k.rbuf /\ m.rbuf_rlen = k.rbuf_rlen /\ m.rbuf_now = k.rbuf_now
      /\ m.wbuf = k.wbuf /\ m.wbuf_stale = k.wbuf_stale /\ m.wbuf_size = k.wbuf_size
      /\ m.wbuf_len = k.wbuf_len /\ m.wbuf_wlen = k.wbuf_wlen /\ m.watching = k.watching
  BY DEF ConnType
<1>2. Resting(k, s, t, ss, p)
  BY DEF Phase
<1>3. NoReply(m)
  BY <1>1, <1>2 DEF Resting, NoReply
<1>4. Clean(k) => Clean(m)
  BY <1>1, CleanSame
<1>5. \A q \in Request : Left(k, q) => Left(m, q)
  BY <1>1 DEF Left
<1>6. Resting(m, s, t, ss, p)
  BY <1>2, <1>3, <1>4, <1>5 DEF Resting
<1> QED
  BY <1>1, <1>6 DEF Phase

\* A connection that is closed is of no more concern.
LEMMA ClosedPhase ==
  ASSUME NEW k, NEW s, NEW t, NEW ss, NEW p, NEW rm, NEW on,
         ~k.flag_shake, ReadBufLen <= Len(k.rbuf), k.state = "conn_closed",
         p = "fin" => rm = SendRoom, p # "here" => t = <<>>
  PROVE  Phase(k, s, t, ss, p, rm, on)
BY DEF Phase

-----------------------------------------------------------------------------
(* Polite clients: what the worker does *)

\* The longest rbuf.
LEMMA RoomEnough ==
  ASSUME Polite, NEW r \in Request
  PROVE  /\ Len(Line(r)) \in Nat /\ Len(Value(r)) \in Nat /\ ReadBufLen * 2^MaxGrowth \in Nat
         /\ 0 + Len(Line(r)) <= ReadBufLen * 2^MaxGrowth
         /\ Unstored(r) => /\ Len(Line(r)) + Len(Value(r)) <= ReadBufLen * 2^MaxGrowth
                           /\ Len(Line(r)) + Len(<<>>) <= ReadBufLen * 2^MaxGrowth
                           /\ 2 * Len(Line(r)) <= ReadBufLen /\ Len(Line(r)) < ReadBufLen
<1>1. Len(Line(r)) \in Nat /\ Len(Line(r)) >= 3 /\ Len(Value(r)) \in Nat
  BY LineText, ValueText DEF EndsLine
<1>2. 2^MaxGrowth = 16 /\ ReadBufLen \in Nat
  BY ConnAssumption DEF MaxGrowth
<1>3. /\ Len(Line(r)) <= ReadBufLen * 2^MaxGrowth
      /\ Unstored(r) => /\ Len(Line(r)) + Len(Value(r)) <= ReadBufLen * 2^MaxGrowth
                        /\ 2 * Len(Line(r)) <= ReadBufLen
  BY DEF Polite
<1>4. Len(<<>>) = 0
  OBVIOUS
<1> QED
  BY <1>1, <1>2, <1>3, <1>4

\* What conn_read finds, before it reads.
LEMMA RestingText ==
  ASSUME Polite, NEW k \in ConnType, NEW s \in Seq(Unit), NEW t, NEW ss, NEW p,
         Resting(k, s, t, ss, p), ReadBufLen <= Len(k.rbuf)
  PROVE  /\ k.rbuf_rlen < Len(k.rbuf) /\ ~Overread(k)
         /\ k.rbuf_rlen + Len(s) <= ReadBufLen * 2^MaxGrowth
         /\ \A i \in 1..Len(k.rbuf) : \/ k.rbuf[i] = "NUL"
                                      \/ k.rbuf_now = k.rbuf_rlen /\ i <= k.rbuf_rlen
<1>1. Len(k.rbuf) \in Nat /\ k.rbuf_rlen \in Nat /\ ReadBufLen \in Nat \ {0}
  BY FieldTypes, ConnAssumption
<1>2. CASE Clean(k) /\ Between(s, t, ss, p)
  <2>1. /\ k.rbuf_rlen = 0 + Len(<<>>)
        /\ \A i \in 1..Len(k.rbuf) :
             k.rbuf[i] = IF i \in (0 + 1)..k.rbuf_rlen THEN <<>>[i - 0] ELSE "NUL"
    BY <1>2 DEF Clean, Has
  <2>2. k.rbuf_rlen = 0
    BY <2>1
  <2>3. \A i \in 1..Len(k.rbuf) : k.rbuf[i] = "NUL"
    BY <2>1, <2>2
  <2>4. s = <<>> \/ \E r \in Request : s = Line(r)
    BY <1>2, Kinds DEF Between, OnLine, Open
  <2>5. 0 + Len(s) <= ReadBufLen * 2^MaxGrowth
    <3>1. CASE s = <<>>
      <4>1. 2^MaxGrowth = 16
        BY DEF MaxGrowth
      <4> QED
        BY <1>1, <3>1, <4>1
    <3>2. CASE \E r \in Request : s = Line(r)
      BY <3>2, RoomEnough
    <3> QED
      BY <2>4, <3>1, <3>2
  <2>6. ~Overread(k)
    BY <2>2 DEF Overread
  <2> QED
    BY <1>1, <2>2, <2>3, <2>5, <2>6
<1>3. ASSUME NEW q \in Request, Left(k, q), s = Value(q) \/ s = <<>>
      PROVE  /\ k.rbuf_rlen < Len(k.rbuf) /\ ~Overread(k)
             /\ k.rbuf_rlen + Len(s) <= ReadBufLen * 2^MaxGrowth
             /\ \A i \in 1..Len(k.rbuf) : \/ k.rbuf[i] = "NUL"
                                          \/ k.rbuf_now = k.rbuf_rlen /\ i <= k.rbuf_rlen
  <2>1. /\ Unstored(q) /\ k.rbuf_now = k.rbuf_rlen /\ k.rbuf_rlen = Len(Line(q))
        /\ 2 * k.rbuf_rlen <= Len(k.rbuf)
        /\ \A i \in 1..Len(k.rbuf) : i > k.rbuf_rlen => k.rbuf[i] = "NUL"
    BY <1>3 DEF Left
  <2>2. k.rbuf_rlen + Len(s) <= ReadBufLen * 2^MaxGrowth
    BY <1>3, <2>1, RoomEnough
  <2>3. \A i \in 1..Len(k.rbuf) : i > k.rbuf_rlen \/ i <= k.rbuf_rlen
    BY <1>1
  <2>4. k.rbuf_rlen < Len(k.rbuf)
    BY <1>1, <2>1
  <2>5. ~Overread(k)
    BY <1>1, <2>1 DEF Overread
  <2> QED
    BY <2>1, <2>2, <2>3, <2>4, <2>5
<1> QED
  BY <1>2, <1>3 DEF Resting

\* conn_read takes all that has arrived.
LEMMA ReadTaken ==
  ASSUME Polite, NEW k \in Conns, k.state = "conn_read", NEW s \in Seq(Unit), NEW t, NEW ss,
         NEW p, Resting(k, s, t, ss, p), ReadBufLen <= Len(k.rbuf), ~k.flag_shake,
         NEW m \in try_read_tcp(k, s, p # "here")
  PROVE  /\ Has(m, k.rbuf_rlen, s) /\ ReadBufLen <= Len(m.rbuf) /\ ~m.flag_shake /\ NoReply(m)
         /\ s = <<>> => m.state = IF p # "here" THEN "conn_closed" ELSE "conn_waiting"
         /\ s # <<>> => m.state \in {"conn_closed", "conn_parse_cmd"}
         /\ k.rbuf_rlen = 0 /\ Len(s) < ReadBufLen => m.rbuf_now = m.rbuf_rlen
<1> DEFINE gone == p # "here"
<1>1. k \in ConnType /\ k.rnbuf_rlen = 0 /\ k.wbuf_wlen = 0 /\ NoReply(k) /\ Fresh = {"NUL"}
  BY DEF Conns, Sane, Resting, Polite
<1>2. /\ k.rbuf_rlen < Len(k.rbuf) /\ ~Overread(k)
      /\ k.rbuf_rlen + Len(s) <= ReadBufLen * 2^MaxGrowth
      /\ \A i \in 1..Len(k.rbuf) : \/ k.rbuf[i] = "NUL"
                                   \/ k.rbuf_now = k.rbuf_rlen /\ i <= k.rbuf_rlen
  BY <1>1, RestingText
<1>3. /\ Len(k.rbuf) \in Nat /\ k.rbuf_rlen \in Nat /\ Len(s) \in Nat /\ ReadBufLen \in Nat
      /\ k.rbuf_rlen <= Len(k.rbuf) /\ ~Overrun(k)
  BY <1>1, <1>2, FieldTypes, ConnAssumption DEF Overrun
<1>4. gone \in BOOLEAN
  OBVIOUS
<1>5. m \in try_read_tcp(k, s, gone)
  OBVIOUS
<1> HIDE DEF gone
<1>6. PICK o \in Moved(k), fill \in Fresh :
        m = ReadInto(o, s, gone, Growth(o, o.rbuf_rlen + Len(s)), fill)
  BY <1>2, <1>3, <1>5 DEF try_read_tcp
<1>7. Wiped(o) /\ SameRest(k, o) /\ o.rbuf_rlen = k.rbuf_rlen
  BY <1>1, <1>2, <1>3, MovedWiped
<1>8. /\ o \in ConnType /\ Len(o.rbuf) = Len(k.rbuf) /\ o.flag_shake = k.flag_shake /\ NoReply(o)
      /\ o.wbuf_wlen = 0
  BY <1>1, <1>7 DEF SameRest, NoReply
<1>9. o.rnbuf_rlen = 0
  BY <1>1, <1>3, MovedType DEF SameReply
<1>10. /\ Has(m, k.rbuf_rlen, s) /\ Len(k.rbuf) <= Len(m.rbuf)
       /\ m.flag_shake = o.flag_shake
       /\ m.wbuf = o.wbuf /\ m.wbuf_stale = o.wbuf_stale /\ m.wbuf_size = o.wbuf_size
       /\ m.wbuf_len = o.wbuf_len /\ m.wbuf_wlen = o.wbuf_wlen /\ m.watching = o.watching
       /\ s = <<>> => m.state = IF gone THEN "conn_closed" ELSE "conn_waiting"
       /\ s # <<>> => m.state \in {"conn_closed", "conn_parse_cmd"}
       /\ k.rbuf_rlen = 0 /\ Len(s) < Len(k.rbuf) => m.rbuf_now = m.rbuf_rlen
  BY <1>1, <1>2, <1>4, <1>6, <1>7, <1>8, <1>9, TextArrives
<1>11. NoReply(m)
  BY <1>8, <1>10 DEF NoReply
<1>12. ReadBufLen <= Len(m.rbuf)
  <2>1. m.rbuf_rlen \in Nat /\ Len(m.rbuf) \in Nat
    BY <1>1, <1>4, <1>5, TryReadTcpSane, FieldTypes DEF Conns
  <2> QED
    BY <1>3, <1>10, <2>1
<1>13. k.rbuf_rlen = 0 /\ Len(s) < ReadBufLen => m.rbuf_now = m.rbuf_rlen
  BY <1>3, <1>10
<1> QED
  BY <1>8, <1>10, <1>11, <1>12, <1>13 DEF gone

\* Nothing is left of the line.
LEMMA NothingBut ==
  ASSUME NEW t, NEW ss, NEW p, Unsent(t, ss, p)
  PROVE  Between(<<>>, t, ss, p)
BY DEF Between

\* The first or only part of a request was read.
LEMMA LineTaken ==
  ASSUME NEW s, NEW t, NEW ss, NEW p, OnLine(s, t, ss, p), p = "here" \/ t = <<>>
  PROVE  /\ ss.req \in Request
         /\ IF ss.req \in Storage THEN ValuePart(0, <<>>, t, ss, p) ELSE t = <<>>
<1>1. ss.req \in Request /\ Open(ss)
  BY DEF OnLine, Open
<1>2. CASE ss.req \notin Storage
  BY <1>1, <1>2, PartsText DEF OnLine
<1>3. CASE ss.req \in Storage
  <2>1. /\ Value(ss.req) # <<>> /\ Value(ss.req) \in Seq(Unit)
        /\ Len(Value(ss.req)) \in Nat /\ Len(<<>>) = 0
    BY <1>1, NotEmpty, ValueText DEF EndsLine
  <2>2. /\ 0 + Len(<<>>) <= Len(Value(ss.req))
        /\ 0 + Len(<<>>) + Len(Value(ss.req)) = Len(Value(ss.req))
    BY <2>1
  <2>3. CASE p = "here"
    <3>1. t = <<Value(ss.req)>>
      BY <1>1, <1>3, <2>3, PartsText DEF OnLine
    <3>2. Len(t) = 1 /\ t[1] = Value(ss.req)
      BY <2>1, <3>1, OnePart
    <3> QED
      BY <1>1, <1>3, <2>1, <2>2, <3>1, <3>2 DEF ValuePart
  <2>4. CASE p # "here"
    <3>1. t = <<>>
      BY <2>4
    <3> QED
      BY <1>1, <1>3, <2>2, <2>4, <3>1 DEF ValuePart
  <2> QED
    BY <2>3, <2>4
<1> QED
  BY <1>2, <1>3

LEMMA ReadPhase ==
  ASSUME Polite, NEW k \in Conns, k.state = "conn_read", NEW s \in Seq(Unit), NEW t, NEW ss,
         NEW p, NEW rm, Phase(k, s, t, ss, p, rm, TRUE),
         NEW m \in try_read_tcp(k, s, p # "here")
  PROVE  /\ SubSeq(s, m.rbuf_rlen - k.rbuf_rlen + 1, Len(s)) = <<>>
         /\ Phase(m, <<>>, t, ss, p, rm, TRUE)
<1>1. /\ Resting(k, s, t, ss, p) /\ ReadBufLen <= Len(k.rbuf) /\ ~k.flag_shake
      /\ p = "fin" => rm = SendRoom
      /\ p # "here" => t = <<>>
  BY DEF Phase
<1>2. /\ Has(m, k.rbuf_rlen, s) /\ ReadBufLen <= Len(m.rbuf) /\ ~m.flag_shake /\ NoReply(m)
      /\ s = <<>> => m.state = IF p # "here" THEN "conn_closed" ELSE "conn_waiting"
      /\ s # <<>> => m.state \in {"conn_closed", "conn_parse_cmd"}
      /\ k.rbuf_rlen = 0 /\ Len(s) < ReadBufLen => m.rbuf_now = m.rbuf_rlen
  BY <1>1, ReadTaken
<1>3. SubSeq(s, m.rbuf_rlen - k.rbuf_rlen + 1, Len(s)) = <<>>
  <2>1. m.rbuf_rlen = k.rbuf_rlen + Len(s) /\ k.rbuf_rlen \in Nat /\ Len(s) \in Nat
    BY <1>2, FieldTypes DEF Has, Conns
  <2> DEFINE a == m.rbuf_rlen - k.rbuf_rlen + 1
  <2>2. a \in Int /\ Len(s) \in Int /\ a > Len(s)
    BY <2>1
  <2> HIDE DEF a
  <2>3. SubSeq(s, a, Len(s)) = <<>>
    BY <2>2, SubSeqEmpty
  <2> QED
    BY <2>3 DEF a
<1>4. CASE m.state = "conn_closed"
  BY <1>1, <1>2, <1>3, <1>4, ClosedPhase
<1>5. ASSUME m.state = "conn_waiting", Resting(m, <<>>, t, ss, p)
      PROVE  Phase(m, <<>>, t, ss, p, rm, TRUE)
  BY <1>1, <1>2, <1>5 DEF Phase
<1>6. ASSUME m.state = "conn_parse_cmd", Parsing(m, <<>>, t, ss, p)
      PROVE  Phase(m, <<>>, t, ss, p, rm, TRUE)
  BY <1>1, <1>2, <1>6 DEF Phase
<1>7. CASE Clean(k) /\ Between(s, t, ss, p) /\ m.state # "conn_closed"
  <2>1. k.rbuf_rlen = 0
    <3>1. k.rbuf_rlen = 0 + Len(<<>>)
      BY <1>7 DEF Clean, Has
    <3> QED
      BY <3>1
  <2>2. Has(m, 0, s)
    BY <1>2, <2>1
  <2>3. CASE s = <<>>
    <3>1. Clean(m) /\ m.state = "conn_waiting"
      BY <1>2, <1>7, <2>2, <2>3 DEF Clean
    <3> QED
      BY <1>2, <1>3, <1>5, <1>7, <2>3, <3>1 DEF Resting
  <2>4. CASE s # <<>>
    <3>1. m.state = "conn_parse_cmd" /\ ~Gone(p)
      BY <1>2, <1>7, <2>4 DEF Between
    <3>2. CASE OnLine(s, t, ss, p) /\ ss.req \notin Quiet
      <4>1. Open(ss) /\ s = Line(ss.req) /\ ss.req \in Request
        BY <3>2 DEF OnLine, Open
      <4>2. IF ss.req \in Storage THEN ValuePart(0, <<>>, t, ss, p) ELSE t = <<>>
        BY <1>1, <3>2, LineTaken
      <4>3. Unstored(ss.req) => m.rbuf_now = m.rbuf_rlen
        BY <1>2, <2>1, <4>1, RoomEnough
      <4> QED
        BY <1>2, <1>3, <1>6, <2>2, <3>1, <3>2, <4>1, <4>2, <4>3 DEF Parsing
    <3>3. CASE OnLine(s, t, ss, p) /\ ss.req \in Quiet
      <4>1. s = Line(ss.req) /\ ss.req \notin Storage
        BY <3>3, Kinds DEF OnLine
      <4>2. Between(<<>>, t, ss, p)
        <5>1. Settled(ss) /\ t = <<>>
          BY <1>1, <3>3, <4>1, LineTaken DEF Settled
        <5> QED
          BY <5>1 DEF Between, Unsent
      <4> QED
        BY <1>2, <1>3, <1>6, <2>2, <3>1, <3>3, <4>1, <4>2 DEF Parsing
    <3>4. CASE \E q \in Quiet : s = Line(q) /\ Unsent(t, ss, p)
      <4>1. Between(<<>>, t, ss, p)
        BY <3>4, NothingBut
      <4> QED
        BY <1>2, <1>3, <1>6, <2>2, <3>1, <3>4, <4>1 DEF Parsing
    <3> QED
      BY <1>7, <2>4, <3>2, <3>3, <3>4 DEF Between
  <2> QED
    BY <2>3, <2>4
<1>8. ASSUME NEW q \in Request, Left(k, q), s = Value(q) \/ (s = <<>> /\ p # "here"),
             Unsent(t, ss, p), m.state # "conn_closed"
      PROVE  Phase(m, <<>>, t, ss, p, rm, TRUE)
  <2>1. s = Value(q) /\ m.state = "conn_parse_cmd"
    BY <1>2, <1>8, NotEmpty
  <2>2. Unstored(q) /\ Has(m, Len(Line(q)), Value(q))
    BY <1>2, <1>8, <2>1 DEF Left
  <2>3. Between(<<>>, t, ss, p)
    BY <1>8, NothingBut
  <2> QED
    BY <1>2, <1>6, <2>1, <2>2, <2>3 DEF Parsing
<1> QED
  BY <1>1, <1>3, <1>4, <1>7, <1>8 DEF Resting

LEMMA ParsePhase ==
  ASSUME Polite, NEW k \in Conns, k.state = "conn_parse_cmd", NEW s, NEW t, NEW ss,
         NEW p, NEW rm, NEW on, Phase(k, s, t, ss, p, rm, on),
         NEW m \in try_read_command(k), NEW off, off => m.state = "conn_closed"
  PROVE  ~m.flag_shake /\ Phase(m, s, t, ss, p, rm, off)
<1>1. /\ Parsing(k, s, t, ss, p) /\ ReadBufLen <= Len(k.rbuf) /\ ~k.flag_shake
      /\ p = "fin" => rm = SendRoom
      /\ p # "here" => t = <<>>
  BY DEF Phase
<1>2. NoReply(k) /\ Fresh = {"NUL"}
  BY <1>1 DEF Parsing, Polite
<1>3. ASSUME NEW at \in Nat, NEW text, EndsLine(text), Has(k, at, text),
             at # 0 \/ \E q \in Quiet : at = 0 /\ text = Line(q),
             Between(s, t, ss, p)
      PROVE  ~m.flag_shake /\ Phase(m, s, t, ss, p, rm, off)
  <2>1. /\ m.state = "conn_read" /\ Clean(m) /\ NoReply(m)
        /\ ~m.flag_shake /\ Len(m.rbuf) = Len(k.rbuf)
    BY <1>1, <1>2, <1>3, DroppedText
  <2> QED
    BY <1>1, <1>3, <2>1 DEF Phase, Resting
<1>4. CASE \E q \in Quiet : Has(k, 0, Line(q)) /\ Between(s, t, ss, p)
  <2>1. PICK q \in Quiet : Has(k, 0, Line(q)) /\ Between(s, t, ss, p)
    BY <1>4
  <2>2. EndsLine(Line(q)) /\ 0 \in Nat
    BY LineText, Kinds
  <2> QED
    BY <1>3, <2>1, <2>2
<1>5. CASE \E q \in Request : Unstored(q) /\ Has(k, Len(Line(q)), Value(q)) /\ Between(s, t, ss, p)
  <2>1. PICK q \in Request : Has(k, Len(Line(q)), Value(q)) /\ Between(s, t, ss, p)
    BY <1>5
  <2>2. EndsLine(Value(q)) /\ Len(Line(q)) \in Nat /\ Len(Line(q)) # 0
    BY LineText, ValueText DEF EndsLine
  <2> QED
    BY <1>3, <2>1, <2>2
<1>6. CASE /\ Open(ss) /\ ss.req \notin Quiet /\ ~Gone(p)
           /\ Has(k, 0, Line(ss.req))
           /\ IF ss.req \in Storage THEN ValuePart(0, s, t, ss, p) ELSE s = <<>> /\ t = <<>>
           /\ Unstored(ss.req) => k.rbuf_now = k.rbuf_rlen
  <2> DEFINE r == ss.req
  <2>1. r \in Request /\ ss.value = <<>> /\ ss.reply = None
    BY <1>6 DEF Open
  <2>2. /\ ~m.flag_shake /\ Len(m.rbuf) = Len(k.rbuf)
        /\ \/ m.state = "conn_closed"
           \/ /\ r \notin Storage /\ r \notin Silent
              /\ m.state = "conn_write" /\ Clean(m) /\ m.watching = {"write"}
              /\ m.wbuf_wlen = 0 /\ 0 < m.wbuf_len /\ m.wbuf_size = WriteBufLen
              /\ m.wbuf \in Replies[r] /\ ~m.wbuf_stale
           \/ /\ r \in Storage
              /\ m.state = "conn_nread" /\ NoReply(m)
              /\ m.rnbuf_len = Len(Value(r)) /\ m.rnbuf_rlen = 0 /\ m.cmd = Info[r].verb
           \/ /\ r \in Storage
              /\ m.state = "conn_write" /\ Left(m, r) /\ m.watching = {"read"}
              /\ m.wbuf_wlen = 0 /\ 0 < m.wbuf_len /\ m.wbuf_size = WriteBufLen
              /\ m.wbuf \in Replies[r] /\ ~m.wbuf_stale
    BY <1>1, <1>2, <1>6, <2>1, LineRead
  <2>3. CASE m.state = "conn_closed"
    BY <1>1, <2>2, <2>3, ClosedPhase
  <2>4. CASE /\ r \notin Storage /\ r \notin Silent
             /\ m.state = "conn_write" /\ Clean(m) /\ m.watching = {"write"}
             /\ m.wbuf_wlen = 0 /\ 0 < m.wbuf_len /\ m.wbuf_size = WriteBufLen
             /\ m.wbuf \in Replies[r] /\ ~m.wbuf_stale
    <3>1. Replying(m, s, t, ss)
      BY <1>6, <2>1, <2>4 DEF Replying
    <3>2. Writing(m, s, t, ss, p, off)
      BY <1>6, <2>4, <3>1 DEF Writing
    <3> QED
      BY <1>1, <2>2, <2>4, <3>2 DEF Phase
  <2>5. CASE /\ r \in Storage
             /\ m.state = "conn_nread" /\ NoReply(m)
             /\ m.rnbuf_len = Len(Value(r)) /\ m.rnbuf_rlen = 0 /\ m.cmd = Info[r].verb
    <3>1. Len(Value(r)) \in Nat /\ Len(Value(r)) >= 2
      BY <2>1, ValueText DEF EndsLine
    <3>2. m.rnbuf_rlen < m.rnbuf_len
      BY <2>5, <3>1
    <3>3. p # "late" /\ p # "pipe"
      BY <1>6 DEF Gone
    <3>4. Receiving(m, s, t, ss, p)
      BY <1>6, <2>5, <3>2, <3>3 DEF Receiving
    <3> QED
      BY <1>1, <2>2, <2>5, <3>4 DEF Phase
  <2>6. CASE /\ r \in Storage
             /\ m.state = "conn_write" /\ Left(m, r) /\ m.watching = {"read"}
             /\ m.wbuf_wlen = 0 /\ 0 < m.wbuf_len /\ m.wbuf_size = WriteBufLen
             /\ m.wbuf \in Replies[r] /\ ~m.wbuf_stale
    <3>1. ~off
      BY <2>6
    <3>2. Refusing(m, s, t, ss, p, off)
      BY <1>6, <2>6, <3>1 DEF Refusing
    <3>3. Writing(m, s, t, ss, p, off)
      BY <1>6, <2>6, <3>2 DEF Writing
    <3> QED
      BY <1>1, <2>2, <2>6, <3>3 DEF Phase
  <2> QED
    BY <2>2, <2>3, <2>4, <2>5, <2>6
<1> QED
  BY <1>1, <1>4, <1>5, <1>6 DEF Parsing

\* A sequence of one.
LEMMA OnlyOne ==
  ASSUME NEW S, NEW w \in Seq(S), Len(w) = 1
  PROVE  w[1] \in S /\ w # <<>>
OBVIOUS

\* A sequence is empty if its length is 0.
LEMMA NonEmptyLen ==
  ASSUME NEW S, NEW w \in Seq(S)
  PROVE  Len(w) \in Nat /\ (w = <<>> <=> Len(w) = 0)
OBVIOUS

\* conn_nread takes all that has arrived.
LEMMA PieceTaken ==
  ASSUME NEW k \in ConnType, NEW s \in Seq(Unit), NEW t \in Seq(Seq(Unit)), NEW ss, NEW p,
         Receiving(k, s, t, ss, p), NEW n, n = Min2(k.rnbuf_len - k.rnbuf_rlen, Len(s))
  PROVE  /\ n = Len(s) /\ SubSeq(s, 1, n) = s /\ SubSeq(s, n + 1, Len(s)) = <<>>
         /\ k.rnbuf_len - k.rnbuf_rlen > 0 /\ (n = 0 <=> s = <<>>)
         /\ k.rnbuf_rlen + Len(s) <= k.rnbuf_len
         /\ k.rnbuf_rlen + Len(s) = k.rnbuf_len => t = <<>> /\ s # <<>>
         /\ p = "here" /\ t = <<>> => k.rnbuf_rlen + Len(s) = k.rnbuf_len
<1> DEFINE len == Len(s)
           all == Len(Value(ss.req))
<1>1. /\ k.rnbuf_len \in Nat /\ k.rnbuf_rlen \in Nat /\ len \in Nat
      /\ k.rnbuf_len = all /\ k.rnbuf_rlen < k.rnbuf_len
  BY FieldTypes DEF Receiving
<1>2. \/ t = <<>> /\ k.rnbuf_rlen + len <= all
                  /\ (p = "here" => k.rnbuf_rlen + len = all)
      \/ Len(t) = 1 /\ t[1] # <<>> /\ k.rnbuf_rlen + len + Len(t[1]) = all
  BY DEF Receiving, ValuePart
<1>3. Len(t) = 1 /\ t[1] # <<>> => Len(t[1]) \in Nat \ {0} /\ t # <<>>
  <2> SUFFICES ASSUME Len(t) = 1, t[1] # <<>> PROVE Len(t[1]) \in Nat \ {0} /\ t # <<>>
    OBVIOUS
  <2>1. t[1] \in Seq(Unit) /\ t # <<>>
    BY OnlyOne
  <2> QED
    BY <2>1, NonEmptyLen
<1>4. s = <<>> <=> len = 0
  OBVIOUS
<1>5. s = SubSeq(s, 1, len)
  BY SubSeqFull
<1>6. SubSeq(s, len + 1, len) = <<>>
  <2>1. len + 1 \in Int /\ len \in Int /\ len + 1 > len
    BY <1>1
  <2> HIDE DEF len
  <2> QED
    BY <2>1, SubSeqEmpty
<1>7. n = Min2(k.rnbuf_len - k.rnbuf_rlen, len)
  OBVIOUS
<1> HIDE DEF len, all
<1>8. k.rnbuf_rlen + len <= k.rnbuf_len
  BY <1>1, <1>2, <1>3
<1>9. n = len
  BY <1>1, <1>7, <1>8 DEF Min2
<1>10. k.rnbuf_rlen + len = k.rnbuf_len => t = <<>> /\ len # 0
  BY <1>1, <1>2, <1>3
<1>11. p = "here" /\ t = <<>> => k.rnbuf_rlen + len = k.rnbuf_len
  BY <1>1, <1>2, <1>3
<1>12. k.rnbuf_len - k.rnbuf_rlen > 0
  BY <1>1
<1> QED
  BY <1>4, <1>5, <1>6, <1>8, <1>9, <1>10, <1>11, <1>12 DEF len

\* A piece of a value is written to rnbuf.
LEMMA PieceRead ==
  ASSUME NEW k \in Conns, k.state = "conn_nread", ~k.flag_shake, NEW s \in Seq(Unit),
         k.rnbuf_rlen + Len(s) <= k.rnbuf_len, NEW m, m = ReadValue(k, s)
  PROVE  /\ m \in Conns /\ m \in ConnType /\ m.state = "conn_nread" /\ m.flag_shake = k.flag_shake
         /\ m.cmd = k.cmd /\ m.rbuf = k.rbuf /\ m.rbuf_rlen = k.rbuf_rlen
         /\ m.rnbuf_len = k.rnbuf_len /\ m.rnbuf_rlen = k.rnbuf_rlen + Len(s)
         /\ m.wbuf = k.wbuf /\ m.wbuf_stale = k.wbuf_stale
         /\ m.wbuf_size = k.wbuf_size /\ m.wbuf_len = k.wbuf_len
         /\ m.wbuf_wlen = k.wbuf_wlen /\ m.watching = k.watching
         /\ m.rnbuf = Over(k.rnbuf, s) /\ m.rnbuf \in Seq(Unit) /\ Len(m.rnbuf) = k.rnbuf_len
<1>1. /\ k \in ConnType /\ k.rnbuf_len \in Nat /\ k.rnbuf_rlen \in Nat /\ Len(s) \in Nat
      /\ Fits(k)
  BY FieldTypes DEF Conns, Sane
<1>2. Len(s) <= IF k.flag_shake THEN 0 ELSE k.rnbuf_len - k.rnbuf_rlen
  BY <1>1
<1>3. m \in Conns /\ m \in ConnType /\ m.state = "conn_nread" /\ m.rnbuf \in Seq(Unit)
  BY <1>2, ReadValueSane DEF Conns
<1> DEFINE z == Over(k.rnbuf, s)
           rlen == k.rnbuf_rlen + Len(s)
<1>4. m = [k EXCEPT !.rnbuf = z, !.rnbuf_rlen = rlen]
  BY <1>1 DEF ReadValue
<1> HIDE DEF z, rlen
<1>5. /\ m.flag_shake = k.flag_shake
      /\ m.cmd = k.cmd /\ m.rbuf = k.rbuf /\ m.rbuf_rlen = k.rbuf_rlen
      /\ m.rnbuf_len = k.rnbuf_len /\ m.rnbuf_rlen = rlen
      /\ m.wbuf = k.wbuf /\ m.wbuf_stale = k.wbuf_stale
      /\ m.wbuf_size = k.wbuf_size /\ m.wbuf_len = k.wbuf_len
      /\ m.wbuf_wlen = k.wbuf_wlen /\ m.watching = k.watching
      /\ m.rnbuf = z
  BY <1>1, <1>4 DEF ConnType
<1>6. Len(m.rnbuf) = k.rnbuf_len
  BY <1>3, <1>5 DEF Conns, Sane, Fits
<1> QED
  BY <1>3, <1>5, <1>6 DEF z, rlen

\* The value that is stored is the one that was sent.
LEMMA ValueKept ==
  ASSUME NEW k \in Conns, k.state = "conn_nread", ~k.flag_shake,
         NEW s \in Seq(Unit), NEW t, NEW ss, NEW p,
         Receiving(k, s, t, ss, p), k.rnbuf_rlen + Len(s) = k.rnbuf_len,
         NEW v, v = ReadValue(k, s).rnbuf
  PROVE  v # <<>> /\ (~CutValues => Kept(ss.req, v))
<1> DEFINE w == Value(ss.req)
<1>1. ss.req \in Request /\ k.rnbuf_len = Len(w) /\ ValuePart(k.rnbuf_rlen, s, t, ss, p)
  BY DEF Receiving, ValuePart, Open
<1>2. w \in Seq(Unit) /\ Len(w) \in Nat /\ Len(w) >= 2 /\ Len(<<>>) = 0
  BY <1>1, ValueText DEF EndsLine
<1>3. k \in ConnType /\ k.rnbuf \in Seq(Unit) /\ Len(k.rnbuf) = k.rnbuf_len
      /\ k.rnbuf_rlen \in Nat /\ Len(s) \in Nat
  BY FieldTypes DEF Conns, Sane, Fits
<1>4. k.rnbuf_rlen + Len(s) <= k.rnbuf_len
  BY <1>1, <1>2
<1>5. v = Over(k.rnbuf, s) /\ v \in Seq(Unit) /\ Len(v) = Len(w)
  BY <1>1, <1>4, PieceRead
<1> HIDE DEF w
<1>6. ASSUME ~CutValues PROVE v = w
  <2>1. k.rnbuf_rlen = 0 /\ s \in {<<>>, w}
    BY <1>1, <1>6 DEF ValuePart, w
  <2>2. s = w
    BY <1>1, <1>2, <2>1
  <2>3. \A i \in 1..Len(k.rnbuf) : Over(k.rnbuf, w)[i] = IF i <= Len(w) THEN w[i] ELSE k.rnbuf[i]
    BY <1>1, <1>2, <1>3, OverUnits
  <2>4. \A i \in 1..Len(v) : v[i] = w[i]
    BY <1>1, <1>2, <1>3, <1>5, <2>2, <2>3
  <2> QED
    BY <1>2, <1>5, <2>4, SeqEqual
<1>7. v # <<>>
  BY <1>2, <1>5
<1> QED
  BY <1>6, <1>7 DEF Kept, w

LEMMA Below ==
  ASSUME NEW a \in Nat, NEW b \in Nat, NEW c \in Nat, a + b <= c, c # a + b
  PROVE  a + b < c
OBVIOUS

\* The reply to a value.
LEMMA ValueAnswered ==
  ASSUME NEW k \in Conns, k.state = "conn_nread", ~k.flag_shake, NoReply(k),
         NEW r \in Storage, k.cmd = Info[r].verb, Info[r].verb \in StoreVerb,
         NEW m \in StoreResult(k)
  PROVE  /\ Given(k, m) /\ m.wbuf \in StoreReplies[r]
<1> DEFINE n == [k EXCEPT !.rnbuf = <<>>, !.rnbuf_rlen = 0]
<1>1. k \in ConnType /\ k.wbuf_len = WriteBufLen /\ k.wbuf_wlen = 0
  BY DEF Conns, NoReply
<1>2. k.cmd # "unknown"
  BY DEF StoreVerb
<1>3. n \in ConnType /\ n.wbuf_len = k.wbuf_len /\ n.wbuf_wlen = k.wbuf_wlen
      /\ n.wbuf_size = k.wbuf_size
      /\ n.flag_shake = k.flag_shake /\ Len(n.rbuf) = Len(k.rbuf)
  <2>1. <<>> \in Seq(Unit)
    OBVIOUS
  <2> QED
    BY <1>1, <2>1 DEF ConnType
<1>4. m \in {Answered(n, "STORED"), Answered(n, IF k.cmd = "cas" THEN "EXISTS" ELSE "NOT_STORED")}
  BY <1>2 DEF StoreResult
<1> HIDE DEF n
<1>5. PICK str \in {"STORED", IF k.cmd = "cas" THEN "EXISTS" ELSE "NOT_STORED"} : m = Answered(n, str)
  BY <1>4
<1>6. r \in Request /\ str \in Reply /\ str \in StoreReplies[r]
  <2>1. r \in Request
    BY Kinds
  <2> QED
    BY <1>5, <2>1 DEF StoreReplies, Reply
<1>7. Given(n, m) /\ m.wbuf = str
  BY <1>1, <1>3, <1>5, <1>6, AnsweredGiven
<1> QED
  BY <1>3, <1>6, <1>7 DEF Given

\* v is a value for the last request.
Stored(ss, v) ==
  Open(ss) /\ ss.req \in Storage /\ v # <<>> /\ (~CutValues => Kept(ss.req, v))

\* The session after a piece of a value was read, which completed v or did not.
Reads(m, v, ss, new) ==
  /\ new.req = ss.req /\ new.reply = ss.reply
  /\ m.state = "conn_write" => new.value = v
  /\ m.state # "conn_write" => new = ss

\* closed: read returns 0; q: the peer after the read.
Dry(s, p, closed, q) ==
  /\ closed <=> s = <<>> /\ p \in {"fin", "late", "pipe"}
  /\ q = IF s = <<>> /\ p = "rst" THEN "pipe" ELSE p

LEMMA NreadPhase ==
  ASSUME Polite, NEW k \in Conns, k.state = "conn_nread", NEW s \in Seq(Unit),
         NEW t \in Seq(Seq(Unit)), NEW ss, NEW p, NEW rm, Phase(k, s, t, ss, p, rm, TRUE),
         NEW q, NEW closed \in BOOLEAN, Dry(s, p, closed, q),
         NEW m \in read_value_stored(k, s, closed),
         NEW new, Reads(m, ReadValue(k, s).rnbuf, ss, new)
  PROVE  /\ Phase(m, <<>>, t, new, q, rm, TRUE)
         /\ m.state = "conn_write" => Stored(ss, ReadValue(k, s).rnbuf)
<1> DEFINE n == ReadValue(k, s)
           v == ReadValue(k, s).rnbuf
<1>0. /\ closed <=> s = <<>> /\ p \in {"fin", "late", "pipe"}
      /\ q = IF s = <<>> /\ p = "rst" THEN "pipe" ELSE p
  BY DEF Dry
<1>1. /\ Receiving(k, s, t, ss, p) /\ ReadBufLen <= Len(k.rbuf) /\ ~k.flag_shake
      /\ p = "fin" => rm = SendRoom
      /\ p # "here" => t = <<>>
      /\ k \in ConnType
  BY DEF Phase, Conns
<1>2. /\ NoReply(k) /\ ValuePart(k.rnbuf_rlen, s, t, ss, p)
      /\ k.rnbuf_len = Len(Value(ss.req)) /\ k.rnbuf_rlen < k.rnbuf_len
      /\ k.cmd = Info[ss.req].verb
      /\ p # "late" /\ (p = "pipe" => s = <<>>)
      /\ ss.req \in Storage /\ ss.value = <<>> /\ ss.reply = None /\ ss.req \in Request
      /\ Open(ss)
  BY <1>1 DEF Receiving, ValuePart, Open
<1>3. /\ k.rnbuf_len - k.rnbuf_rlen > 0
      /\ k.rnbuf_rlen + Len(s) <= k.rnbuf_len
      /\ k.rnbuf_rlen + Len(s) = k.rnbuf_len => t = <<>> /\ s # <<>>
      /\ p = "here" /\ t = <<>> => k.rnbuf_rlen + Len(s) = k.rnbuf_len
  BY <1>1, PieceTaken
<1>4. /\ n \in Conns /\ n \in ConnType /\ n.state = "conn_nread" /\ n.flag_shake = k.flag_shake
      /\ n.cmd = k.cmd /\ n.rbuf = k.rbuf
      /\ n.rnbuf_len = k.rnbuf_len /\ n.rnbuf_rlen = k.rnbuf_rlen + Len(s)
      /\ n.wbuf = k.wbuf /\ n.wbuf_stale = k.wbuf_stale
      /\ n.wbuf_size = k.wbuf_size /\ n.wbuf_len = k.wbuf_len
      /\ n.wbuf_wlen = k.wbuf_wlen /\ n.watching = k.watching
  BY <1>1, <1>3, PieceRead
<1>5. NoReply(n)
  BY <1>2, <1>4 DEF NoReply
<1>6. q = "fin" => rm = SendRoom
  BY <1>0, <1>1
<1>7. q # "here" => t = <<>>
  BY <1>0, <1>1
<1>8. k.rnbuf_len \in Nat /\ k.rnbuf_rlen \in Nat /\ Len(s) \in Nat
  BY <1>1, FieldTypes
<1>9. m \in read_value_stored(k, s, closed)
  OBVIOUS
<1> HIDE DEF n
<1>10. CASE m = [k EXCEPT !.state = "conn_closed"]
  <2>1. m.state = "conn_closed" /\ m.flag_shake = k.flag_shake /\ m.rbuf = k.rbuf
    BY <1>1, <1>10 DEF ConnType
  <2> QED
    BY <1>1, <1>6, <1>7, <2>1, ClosedPhase
<1>11. CASE m = n /\ k.rnbuf_len # k.rnbuf_rlen + Len(s) /\ ~closed
  <2>1. new = ss /\ m.state # "conn_write"
    BY <1>4, <1>11 DEF Reads
  <2>2. m.rnbuf_rlen < m.rnbuf_len
    <3>1. k.rnbuf_rlen + Len(s) < k.rnbuf_len
      BY <1>3, <1>8, <1>11, Below
    <3> QED
      BY <1>4, <1>11, <3>1
  <2>3. ValuePart(n.rnbuf_rlen, <<>>, t, ss, q)
    <3>1. Len(<<>>) = 0
      OBVIOUS
    <3>2. /\ n.rnbuf_rlen + Len(<<>>) = n.rnbuf_rlen
          /\ n.rnbuf_rlen <= Len(Value(ss.req))
      BY <1>2, <1>3, <1>4, <1>8, <3>1
    <3>3. \/ t = <<>> /\ q # "here"
          \/ Len(t) = 1 /\ t[1] # <<>> /\ n.rnbuf_rlen + Len(t[1]) = Len(Value(ss.req))
      BY <1>0, <1>2, <1>3, <1>4, <1>11 DEF ValuePart
    <3>4. ASSUME ~CutValues PROVE n.rnbuf_rlen = 0 /\ t \in {<<>>, <<Value(ss.req)>>}
      <4>1. k.rnbuf_rlen = 0 /\ s \in {<<>>, Value(ss.req)} /\ t \in {<<>>, <<Value(ss.req)>>}
        BY <1>2, <3>4 DEF ValuePart
      <4>2. s = <<>>
        BY <1>2, <1>8, <1>11, <4>1
      <4>3. n.rnbuf_rlen = 0
        BY <1>4, <3>1, <4>1, <4>2
      <4> QED
        BY <4>1, <4>3
    <3> QED
      BY <1>2, <3>2, <3>3, <3>4 DEF ValuePart, Open
  <2>4. q # "late" /\ (q = "pipe" => <<>> = <<>>)
    BY <1>0, <1>2
  <2>5. Receiving(m, <<>>, t, ss, q)
    BY <1>2, <1>4, <1>5, <1>11, <2>2, <2>3, <2>4 DEF Receiving
  <2> QED
    BY <1>1, <1>4, <1>6, <1>7, <1>11, <2>1, <2>5 DEF Phase
<1>12. CASE m \in StoreResult(n) /\ k.rnbuf_len = k.rnbuf_rlen + Len(s)
  <2>1. Info[ss.req].verb \in StoreVerb
    BY <1>2 DEF Polite
  <2>2. Given(n, m) /\ m.wbuf \in StoreReplies[ss.req]
    BY <1>1, <1>2, <1>4, <1>5, <1>12, <2>1, ValueAnswered
  <2>3. /\ m.state = "conn_write" /\ m.flag_shake = n.flag_shake /\ Clean(m)
        /\ Len(m.rbuf) = Len(n.rbuf)
        /\ m.watching = {"write"} /\ m.wbuf_wlen = 0 /\ 0 < m.wbuf_len
        /\ m.wbuf_size = WriteBufLen /\ ~m.wbuf_stale
    BY <1>5, <2>2 DEF Given, NoReply
  <2>4. t = <<>> /\ s # <<>>
    BY <1>3, <1>12
  <2>5. new.value = v /\ v # <<>> /\ (~CutValues => Kept(ss.req, v))
    BY <1>1, <1>12, <2>3, ValueKept DEF Reads
  <2>6. Replying(m, <<>>, t, new)
    <3>1. ss.req \in Request \ Silent
      BY <1>2, Kinds
    <3> QED
      BY <1>2, <2>2, <2>3, <2>4, <2>5, <3>1 DEF Replying, Reads
  <2>7. ~Gone(q)
    BY <1>0, <1>2, <2>4 DEF Gone
  <2>8. Writing(m, <<>>, t, new, q, TRUE)
    BY <2>3, <2>6, <2>7 DEF Writing
  <2>9. Phase(m, <<>>, t, new, q, rm, TRUE)
    BY <1>1, <1>4, <1>6, <1>7, <2>3, <2>8 DEF Phase
  <2> QED
    BY <1>2, <2>5, <2>9 DEF Stored
<1> QED
  BY <1>4, <1>9, <1>10, <1>11, <1>12 DEF read_value_stored, n

\* Replies.
LEMMA RepliesType ==
  ASSUME NEW r \in Request
  PROVE  Replies[r] \subseteq Reply /\ StoreReplies[r] \subseteq Reply /\ None \notin Reply
<1>1. StoreReplies[r] \subseteq Reply
  BY DEF StoreReplies, Reply
<1>2. None \notin Reply
  BY DEF None, Reply
<1>3. Replies[r] \subseteq Reply
  <2> DEFINE i == Info[r]
             plain == CASE i.words = 1 /\ i.verb = "version" -> {"VERSION"}
                        [] i.words = 2 /\ i.verb = "get" -> {"END", "VALUE"}
                        [] i.words = 2 /\ i.verb = "delete" -> {"DELETED", "NOT_FOUND"}
                        [] OTHER -> {"CLIENT_BAD_COMMAND"}
  <2>1. Replies[r] = IF r \in Storage THEN IF Refused(i) THEN {"CLIENT_ERROR"} ELSE {"SERVER_ERROR"}
                     ELSE plain
    BY DEF Replies
  <2>2. plain \subseteq Reply
    <3>1. {"VERSION", "END", "VALUE", "DELETED", "NOT_FOUND", "CLIENT_BAD_COMMAND"} \subseteq Reply
      BY DEF Reply
    <3>2. \/ plain = {"VERSION"}
          \/ plain = {"END", "VALUE"}
          \/ plain = {"DELETED", "NOT_FOUND"}
          \/ plain = {"CLIENT_BAD_COMMAND"}
      OBVIOUS
    <3> HIDE DEF plain
    <3> QED
      BY <3>1, <3>2
  <2> HIDE DEF plain
  <2> QED
    BY <2>1, <2>2 DEF Reply
<1> QED
  BY <1>1, <1>2, <1>3

\* What is written is a reply to the request.
Answers(ss, str) ==
  /\ ss.req \in Request \ Silent /\ ss.reply = None
  /\ str \in (IF ss.value = <<>> THEN Replies ELSE StoreReplies)[ss.req]

LEMMA ReplyWritten ==
  ASSUME NEW k, NEW s, NEW t, NEW ss, NEW p, NEW on, Writing(k, s, t, ss, p, on),
         NEW str \in IF k.wbuf_stale THEN {k.wbuf, "GARBAGE"} ELSE {k.wbuf}
  PROVE  Answers(ss, str) /\ str \in Reply /\ str # None
<1>1. CASE Refusing(k, s, t, ss, p, on)
  <2>1. ss.req \in Request /\ ss.value = <<>> /\ ss.reply = None /\ ss.req \in Storage
    BY <1>1 DEF Refusing, ValuePart, Open
  <2>2. ss.req \notin Silent
    BY <2>1, Kinds
  <2>3. str \in Replies[ss.req]
    BY <1>1 DEF Refusing
  <2> QED
    BY <2>1, <2>2, <2>3, RepliesType DEF Answers
<1>2. CASE Replying(k, s, t, ss)
  <2>1. /\ ss.req \in Request \ Silent /\ ss.reply = None
        /\ k.wbuf \in (IF ss.value = <<>> THEN Replies ELSE StoreReplies)[ss.req]
        /\ ~k.wbuf_stale
    BY <1>2 DEF Replying
  <2>2. str \in (IF ss.value = <<>> THEN Replies ELSE StoreReplies)[ss.req]
    BY <2>1
  <2>3. str \in Reply
    BY <2>1, <2>2, RepliesType
  <2> QED
    BY <2>1, <2>2, <2>3, RepliesType DEF Answers
<1> QED
  BY <1>1, <1>2 DEF Writing

\* The refusal of a storage command is written once its value has come, or
\* will never come.
LEMMA RefusalWritten ==
  ASSUME Polite, NEW k, NEW s \in Seq(Unit), NEW t \in Seq(Seq(Unit)), NEW ss, NEW p,
         Refusing(k, s, t, ss, p, TRUE), p # "here" => t = <<>>
  PROVE  t = <<>> /\ (s = Value(ss.req) \/ (s = <<>> /\ p # "here"))
<1>1. /\ ValuePart(0, s, t, ss, p) /\ Unstored(ss.req) /\ ss.req \in Request
      /\ s # <<>> \/ p # "here"
  BY DEF Refusing, Left, ValuePart, Open
<1>2. s \in {<<>>, Value(ss.req)}
  BY <1>1 DEF ValuePart, Polite
<1>3. CASE s = <<>>
  BY <1>1, <1>3
<1>4. CASE s = Value(ss.req)
  <2>1. Len(s) \in Nat
    OBVIOUS
  <2>2. ASSUME Len(t) = 1, t[1] # <<>>, 0 + Len(s) + Len(t[1]) = Len(Value(ss.req)) PROVE FALSE
    <3>1. t[1] \in Seq(Unit)
      BY <2>2, OnlyOne
    <3>2. Len(t[1]) \in Nat \ {0}
      BY <2>2, <3>1, NonEmptyLen
    <3> QED
      BY <1>4, <2>1, <2>2, <3>2
  <2>3. t = <<>>
    BY <1>1, <2>2 DEF ValuePart
  <2> QED
    BY <1>4, <2>3
<1> QED
  BY <1>2, <1>3, <1>4

\* The session after n units of str were written.
Writes(k, n, str, ss, new) ==
  /\ k.wbuf_wlen + n = k.wbuf_len => new.reply = str
  /\ k.wbuf_wlen + n # k.wbuf_len => new = ss

LEMMA WritePhase ==
  ASSUME Polite, NEW k \in Conns, k.state = "conn_write", NEW s \in Seq(Unit),
         NEW t \in Seq(Seq(Unit)), NEW ss, NEW p \in {"here", "fin", "late"}, NEW rm \in 0..SendRoom,
         Phase(k, s, t, ss, p, rm, TRUE),
         NEW n, n = Min2(k.wbuf_len - k.wbuf_wlen, rm),
         NEW str \in IF k.wbuf_stale THEN {k.wbuf, "GARBAGE"} ELSE {k.wbuf},
         NEW new, Writes(k, n, str, ss, new),
         NEW q, q = IF p = "fin" THEN "late" ELSE p,
         NEW left
  PROVE  Phase(write_activate_read(k, n), s, t, new, q, left, TRUE)
<1> DEFINE m == write_activate_read(k, n)
<1>1. /\ Writing(k, s, t, ss, p, TRUE) /\ ReadBufLen <= Len(k.rbuf) /\ ~k.flag_shake
      /\ p = "fin" => rm = SendRoom
      /\ p # "here" => t = <<>>
      /\ k \in ConnType /\ k.wbuf_wlen < k.wbuf_len /\ k.wbuf_size = WriteBufLen
      /\ Gone(p) => k.wbuf_wlen > 0
  BY DEF Phase, Conns, Writing
<1>2. /\ k.wbuf_len \in Nat /\ k.wbuf_wlen \in Nat /\ rm \in Nat /\ SendRoom \in Nat \ {0}
  BY <1>1, FieldTypes, ClientsAssumption
<1>3. /\ n \in Nat /\ k.wbuf_wlen + n <= k.wbuf_len
      /\ rm # 0 => n # 0
  BY <1>1, <1>2 DEF Min2
<1>4. /\ str # None /\ str \in Reply
  BY <1>1, ReplyWritten
<1>5. /\ q \in {"here", "late"} /\ (q = "here" <=> p = "here") /\ (q # "here" => t = <<>>)
      /\ (q # "fin")
  BY <1>1
<1>6. CASE k.wbuf_wlen + n < k.wbuf_len
  <2> DEFINE wlen == k.wbuf_wlen + n
  <2>1. m = [k EXCEPT !.wbuf_wlen = wlen] /\ new = ss
    BY <1>2, <1>3, <1>6 DEF write_activate_read, Writes
  <2>2. wlen \in Nat /\ wlen < k.wbuf_len /\ (Gone(q) => wlen > 0)
    <3>1. CASE p = "late"
      <4>1. k.wbuf_wlen > 0
        BY <1>1, <3>1 DEF Gone
      <4> QED
        BY <1>2, <1>3, <1>6, <4>1
    <3>2. CASE p = "fin"
      <4>1. n # 0
        BY <1>1, <1>2, <1>3, <3>2
      <4> QED
        BY <1>2, <1>3, <1>6, <4>1
    <3>3. CASE p = "here"
      BY <1>2, <1>3, <1>6, <3>3 DEF Gone
    <3> QED
      BY <3>1, <3>2, <3>3
  <2> HIDE DEF wlen, m
  <2>3. /\ m.state = k.state /\ m.flag_shake = k.flag_shake /\ m.rbuf = k.rbuf
        /\ m.rbuf_rlen = k.rbuf_rlen /\ m.rbuf_now = k.rbuf_now
        /\ m.wbuf = k.wbuf /\ m.wbuf_stale = k.wbuf_stale
        /\ m.wbuf_size = k.wbuf_size /\ m.wbuf_len = k.wbuf_len
        /\ m.wbuf_wlen = wlen /\ m.watching = k.watching
    BY <1>1, <2>1 DEF ConnType
  <2>4. Refusing(k, s, t, ss, p, TRUE) => Refusing(m, s, t, ss, q, TRUE)
    BY <1>5, <2>3 DEF Refusing, Left, ValuePart
  <2>5. Replying(k, s, t, ss) => Replying(m, s, t, ss)
    BY <2>3 DEF Replying, Clean, Has
  <2>6. Writing(m, s, t, ss, q, TRUE)
    BY <1>1, <2>2, <2>3, <2>4, <2>5 DEF Writing
  <2>7. Phase(m, s, t, new, q, left, TRUE)
    BY <1>1, <1>5, <2>1, <2>3, <2>6 DEF Phase
  <2> QED
    BY <2>7 DEF m
<1>7. CASE ~(k.wbuf_wlen + n < k.wbuf_len)
  <2>1. k.wbuf_wlen + n = k.wbuf_len
    BY <1>2, <1>3, <1>7, Below
  <2>2. Settled(new)
    BY <1>4, <2>1 DEF Settled, Writes
  <2>3. m = [k EXCEPT !.wbuf = None, !.wbuf_stale = FALSE, !.wbuf_len = WriteBufLen,
                      !.wbuf_wlen = 0, !.watching = {"read"}, !.state = "conn_waiting"]
    BY <1>7 DEF write_activate_read
  <2> HIDE DEF m
  <2>4. /\ m.state = "conn_waiting" /\ m.flag_shake = k.flag_shake /\ m.rbuf = k.rbuf
        /\ m.rbuf_rlen = k.rbuf_rlen /\ m.rbuf_now = k.rbuf_now
        /\ m.wbuf = None /\ ~m.wbuf_stale /\ m.wbuf_len = WriteBufLen
        /\ m.wbuf_size = WriteBufLen /\ m.wbuf_wlen = 0 /\ m.watching = {"read"}
    BY <1>1, <2>3 DEF ConnType
  <2>5. NoReply(m)
    BY <2>4 DEF NoReply
  <2>6. Resting(m, s, t, new, q)
    <3>1. CASE Replying(k, s, t, ss)
      <4>1. Clean(m) /\ s = <<>> /\ t = <<>>
        BY <2>4, <3>1 DEF Replying, Clean, Has
      <4> QED
        BY <2>2, <2>5, <4>1 DEF Resting, Between, Unsent
    <3>2. CASE Refusing(k, s, t, ss, p, TRUE)
      <4>1. t = <<>> /\ (s = Value(ss.req) \/ (s = <<>> /\ p # "here"))
        BY <1>1, <3>2, RefusalWritten
      <4>2. Left(m, ss.req) /\ ss.req \in Request
        BY <2>4, <3>2 DEF Refusing, Left, ValuePart, Open
      <4>3. Unsent(t, new, q)
        BY <2>2, <4>1 DEF Unsent
      <4> QED
        BY <1>5, <2>5, <4>1, <4>2, <4>3 DEF Resting
    <3> QED
      BY <1>1, <3>1, <3>2 DEF Writing
  <2>7. Phase(m, s, t, new, q, left, TRUE)
    BY <1>1, <1>5, <2>4, <2>6 DEF Phase
  <2> QED
    BY <2>7 DEF m
<1> QED
  BY <1>6, <1>7

\* write fails, or ends the process.
LEMMA WriteEndsPhase ==
  ASSUME NEW k \in ConnType, k.state = "conn_write", NEW s, NEW t, NEW ss, NEW p, NEW rm, NEW on,
         Phase(k, s, t, ss, p, rm, on),
         NEW state, state = "conn_closed" \/ (state = "sigpipe" /\ Gone(p)),
         NEW m, m = [k EXCEPT !.state = state]
  PROVE  Phase(m, s, t, ss, p, rm, on)
<1>1. /\ m.state = state /\ m.flag_shake = k.flag_shake /\ m.rbuf = k.rbuf
      /\ m.wbuf_wlen = k.wbuf_wlen
  BY DEF ConnType
<1>2. ss.reply = None /\ (Gone(p) => k.wbuf_wlen > 0)
  BY DEF Phase, Writing, Refusing, Replying, ValuePart, Open
<1> QED
  BY <1>1, <1>2 DEF Phase

-----------------------------------------------------------------------------
(* Polite clients: steps *)

\* What a step of c leaves alone.
Others(c) ==
  \A d \in Client \ {c} :
    /\ conn'[d] = conn[d] /\ sock'[d] = sock[d] /\ tosend'[d] = tosend[d]
    /\ session'[d] = session[d] /\ peer'[d] = peer[d] /\ room'[d] = room[d]
    /\ (running' = d) = (running = d)

LEMMA OneMoves ==
  ASSUME PoliteInv, NEW c \in Client, Others(c),
         Phase(conn'[c], sock'[c], tosend'[c], session'[c], peer'[c], room'[c], running' = c)
  PROVE  PoliteInv'
<1>1. ASSUME NEW d \in Client
      PROVE  Phase(conn'[d], sock'[d], tosend'[d], session'[d], peer'[d], room'[d], running' = d)
  <2>1. CASE d = c
    BY <2>1
  <2>2. CASE d # c
    <3>1. Phase(conn[d], sock[d], tosend[d], session[d], peer[d], room[d], running = d)
      BY DEF PoliteInv
    <3> QED
      BY <2>2, <3>1 DEF Others
  <2> QED
    BY <2>1, <2>2
<1> QED
  BY <1>1 DEF PoliteInv

\* What holds before a step of c.
LEMMA PoliteFacts ==
  ASSUME ConnInv, PoliteInv, NEW c \in Client
  PROVE  /\ Phase(conn[c], sock[c], tosend[c], session[c], peer[c], room[c], running = c)
         /\ running = c => Phase(conn[c], sock[c], tosend[c], session[c], peer[c], room[c], TRUE)
         /\ conn[c] \in Conns /\ conn[c] \in ConnType
         /\ tosend[c] \in Seq(Seq(Unit)) /\ sock[c] \in Seq(Unit)
         /\ room[c] \in 0..SendRoom /\ peer[c] \in PeerState /\ c # NoClient
<1>1. Phase(conn[c], sock[c], tosend[c], session[c], peer[c], room[c], running = c)
  BY DEF PoliteInv
<1>2. ASSUME running = c
      PROVE  Phase(conn[c], sock[c], tosend[c], session[c], peer[c], room[c], TRUE)
  <2>1. (running = c) = TRUE
    BY <1>2
  <2> QED
    BY <1>1, <2>1
<1> QED
  BY <1>1, <1>2, ConnInvFacts, ClientsAssumption

LEMMA InitPolite ==
  ASSUME Polite
  PROVE  Init => PoliteInv
<1> SUFFICES ASSUME Init, NEW c \in Client
             PROVE  Phase(conn[c], sock[c], tosend[c], session[c], peer[c], room[c], running = c)
  BY DEF PoliteInv
<1>1. PICK b \in BOOLEAN : conn[c] = NewConn("NUL", b)
  BY DEF Init, Polite
<1> DEFINE k == conn[c]
           z == [i \in 1..ReadBufLen |-> "NUL"]
<1>2. ReadBufLen \in Nat /\ Len(z) = ReadBufLen /\ \A i \in 1..ReadBufLen : z[i] = "NUL"
  BY ConnAssumption
<1> HIDE DEF z
<1>3. /\ k.state = "conn_read" /\ ~k.flag_shake /\ k.rbuf = z /\ k.rbuf_rlen = 0
      /\ k.wbuf = None /\ ~k.wbuf_stale /\ k.wbuf_len = WriteBufLen /\ k.wbuf_wlen = 0
      /\ k.wbuf_size = WriteBufLen /\ k.watching = {"read"}
  BY <1>1 DEF NewConn, z
<1>4. /\ sock[c] = <<>> /\ tosend[c] = <<>> /\ peer[c] = "here" /\ room[c] = SendRoom
      /\ session[c].req = None
  BY DEF Init, Nobody
<1> HIDE DEF k
<1>5. Clean(k)
  <2>1. Len(<<>>) = 0
    OBVIOUS
  <2> QED
    BY <1>2, <1>3, <2>1 DEF Clean, Has
<1>6. NoReply(k)
  BY <1>3 DEF NoReply
<1>7. Between(sock[c], tosend[c], session[c], peer[c])
  BY <1>4 DEF Between, Unsent, Settled, Gone
<1>8. ReadBufLen <= Len(k.rbuf)
  BY <1>2, <1>3
<1>9. Resting(k, sock[c], tosend[c], session[c], peer[c])
  BY <1>5, <1>6, <1>7 DEF Resting
<1>10. Phase(k, sock[c], tosend[c], session[c], peer[c], room[c], running = c)
  BY <1>3, <1>4, <1>8, <1>9 DEF Phase
<1> QED
  BY <1>10 DEF k

LEMMA AskPolite ==
  ASSUME ConnInv, PoliteInv, NEW c \in Client, NEW r \in Request, Ask(c, r)
  PROVE  PoliteInv'
<1>1. /\ tosend[c] = <<>> /\ peer[c] = "here"
      /\ Settled(session[c])
  BY DEF Ask, Talking, Settled
<1>2. Others(c)
  BY DEF Ask, Others, ConnInv, TypeOK
<1>3. /\ conn'[c] = conn[c] /\ sock'[c] = sock[c] /\ tosend'[c] = Parts(r)
      /\ peer'[c] = peer[c] /\ room'[c] = room[c] /\ running' = running
      /\ session'[c] = [req |-> r, value |-> <<>>, reply |-> None]
  BY DEF Ask, ConnInv, TypeOK, Nobody
<1>4. Phase(conn[c], sock[c], <<>>, session[c], "here", room[c], running = c)
  BY <1>1, PoliteFacts
<1>5. Phase(conn[c], sock[c], Parts(r), session'[c], "here", room[c], running = c)
  BY <1>1, <1>3, <1>4, AskPhase
<1> QED
  BY <1>1, <1>2, <1>3, <1>5, OneMoves

LEMMA SendPolite ==
  ASSUME Polite, ConnInv, PoliteInv, NEW c \in Client, Send(c)
  PROVE  PoliteInv'
<1> DEFINE part == Head(tosend[c])
           cuts == IF session[c].req \in Storage /\ Len(tosend[c]) = 1 THEN CutValues ELSE CutLines
<1>1. sock[c] = <<>> /\ tosend[c] # <<>> /\ peer[c] = "here"
  BY DEF Send, Talking, Polite
<1>2. PICK n \in 1..Len(part) :
        /\ cuts \/ n = Len(part)
        /\ sock' = [sock EXCEPT ![c] = @ \o SubSeq(part, 1, n)]
        /\ tosend' = [tosend EXCEPT ![c] =
             IF n = Len(part) THEN Tail(@) ELSE <<SubSeq(part, n + 1, Len(part))>> \o Tail(@)]
  BY DEF Send
<1> DEFINE s == SubSeq(part, 1, n)
           t == IF n = Len(part) THEN Tail(tosend[c])
                ELSE <<SubSeq(part, n + 1, Len(part))>> \o Tail(tosend[c])
<1>3. Phase(conn[c], <<>>, tosend[c], session[c], "here", room[c], running = c)
  BY <1>1, PoliteFacts
<1>4. Phase(conn[c], s, t, session[c], "here", room[c], running = c)
  <2>1. conn[c] \in ConnType /\ tosend[c] \in Seq(Seq(Unit))
    BY PoliteFacts
  <2> QED
    BY <1>1, <1>2, <1>3, <2>1, SendPhase
<1>5. sock'[c] = s
  <2>1. s \in Seq(Unit)
    <3>1. part \in Seq(Unit)
      BY <1>1, PoliteFacts, HeadTailProperties
    <3> HIDE DEF part
    <3>2. n \in Nat /\ n <= Len(part) /\ 1 \in Nat \ {0}
      BY <3>1, NonEmptyLen
    <3> QED
      BY <3>1, <3>2, PieceType
  <2>2. sock'[c] = sock[c] \o s
    BY <1>2 DEF ConnInv, TypeOK
  <2> HIDE DEF s
  <2> QED
    BY <1>1, <2>1, <2>2, ConcatEmptySeq
<1>6. tosend'[c] = t
  BY <1>2 DEF ConnInv, TypeOK
<1> HIDE DEF s, t
<1>7. /\ conn'[c] = conn[c] /\ session'[c] = session[c]
      /\ peer'[c] = peer[c] /\ room'[c] = room[c] /\ running' = running
  BY DEF Send
<1>8. Others(c)
  BY <1>2 DEF Send, Others, ConnInv, TypeOK
<1> QED
  BY <1>1, <1>4, <1>5, <1>6, <1>7, <1>8, OneMoves

LEMMA ClientPolite ==
  ASSUME ConnInv, PoliteInv, NEW c \in Client, Drain(c) \/ Leave(c) \/ Reset(c) \/ Wake(c)
  PROVE  PoliteInv'
<1> DEFINE on == running = c
<1>1. /\ Phase(conn[c], sock[c], tosend[c], session[c], peer[c], room[c], on)
      /\ conn[c] \in ConnType /\ tosend[c] \in Seq(Seq(Unit)) /\ sock[c] \in Seq(Unit)
      /\ room[c] \in 0..SendRoom /\ c # NoClient
  BY PoliteFacts
<1>2. conn' = conn /\ sock' = sock /\ session' = session
  BY DEF Drain, Leave, Reset, Wake
<1>3. CASE Drain(c)
  <2>1. peer[c] = "here"
    BY <1>3 DEF Drain, Talking
  <2>2. Phase(conn[c], sock[c], tosend[c], session[c], peer[c], SendRoom, on)
    BY <1>1, <2>1, DrainPhase
  <2>3. room'[c] = SendRoom /\ tosend' = tosend /\ peer' = peer /\ running' = running
    BY <1>3 DEF Drain, ConnInv, TypeOK
  <2>4. Others(c)
    BY <1>3 DEF Drain, Others, ConnInv, TypeOK
  <2> QED
    BY <1>2, <2>2, <2>3, <2>4, OneMoves
<1>4. CASE Leave(c)
  <2>1. /\ peer[c] = "here" /\ peer'[c] = IF room[c] < SendRoom THEN "rst" ELSE "fin"
        /\ tosend'[c] = <<>> /\ room' = room /\ running' = running
    BY <1>4 DEF Leave, Talking, ConnInv, TypeOK
  <2>2. Phase(conn[c], sock[c], <<>>, session[c], peer'[c], room[c], on)
    BY <1>1, <2>1, LeavePhase
  <2>3. Others(c)
    BY <1>4 DEF Leave, Others, ConnInv, TypeOK
  <2> QED
    BY <1>2, <2>1, <2>2, <2>3, OneMoves
<1>5. CASE Reset(c)
  <2>1. /\ peer[c] = "late" /\ peer'[c] = "pipe" /\ tosend' = tosend /\ room' = room
        /\ running' = running
    BY <1>5 DEF Reset, ConnInv, TypeOK
  <2>2. Phase(conn[c], sock[c], tosend[c], session[c], "pipe", room[c], on)
    BY <1>1, <2>1, ResetPhase
  <2>3. Others(c)
    BY <1>5 DEF Reset, Others, ConnInv, TypeOK
  <2> QED
    BY <1>2, <2>1, <2>2, <2>3, OneMoves
<1>6. CASE Wake(c)
  <2>1. /\ running = NoClient /\ running' = c /\ tosend' = tosend /\ room' = room /\ peer' = peer
        /\ \/ "read" \in conn[c].watching /\ (sock[c] # <<>> \/ peer[c] # "here")
           \/ "write" \in conn[c].watching
    BY <1>6 DEF Wake, Readable
  <2>2. Phase(conn[c], sock[c], tosend[c], session[c], peer[c], room[c], FALSE)
    <3>1. on = FALSE
      BY <1>1, <2>1
    <3> QED
      BY <1>1, <3>1
  <2>3. Phase(conn[c], sock[c], tosend[c], session[c], peer[c], room[c], TRUE)
    BY <2>1, <2>2, WakePhase
  <2>4. (running' = c) = TRUE
    BY <2>1
  <2>5. Others(c)
    BY <1>6, ClientsAssumption DEF Wake, Others
  <2> QED
    BY <1>2, <2>1, <2>3, <2>4, <2>5, OneMoves
<1> QED
  BY <1>3, <1>4, <1>5, <1>6

\* A callback of c goes on or ends; nothing of another connection changes.
LEMMA WorkerOthers ==
  ASSUME NEW c \in Client, running = c, running' \in {c, NoClient},
         \A d \in Client \ {c} :
           /\ conn'[d] = conn[d] /\ sock'[d] = sock[d] /\ tosend'[d] = tosend[d]
           /\ session'[d] = session[d] /\ peer'[d] = peer[d] /\ room'[d] = room[d]
  PROVE  Others(c)
BY ClientsAssumption DEF Others

LEMMA ReadPolite ==
  ASSUME Polite, ConnInv, PoliteInv, NEW c \in Client, conn_read(c)
  PROVE  PoliteInv'
<1>1. /\ running = c /\ conn[c].state = "conn_read" /\ conn[c] \in Conns /\ sock[c] \in Seq(Unit)
      /\ Phase(conn[c], sock[c], tosend[c], session[c], peer[c], room[c], TRUE)
  BY PoliteFacts DEF conn_read, At
<1>2. PICK m \in try_read_tcp(conn[c], sock[c], peer[c] # "here") :
        /\ conn' = [conn EXCEPT ![c] = m]
        /\ sock' = [sock EXCEPT ![c] = SubSeq(@, m.rbuf_rlen - conn[c].rbuf_rlen + 1, Len(@))]
  BY DEF conn_read
<1>3. /\ SubSeq(sock[c], m.rbuf_rlen - conn[c].rbuf_rlen + 1, Len(sock[c])) = <<>>
      /\ Phase(m, <<>>, tosend[c], session[c], peer[c], room[c], TRUE)
  BY <1>1, ReadPhase
<1>4. conn'[c] = m /\ sock'[c] = <<>>
  BY <1>2, <1>3 DEF ConnInv, TypeOK
<1>5. /\ tosend' = tosend /\ session' = session /\ peer' = peer /\ room' = room
      /\ running' = running
  BY DEF conn_read
<1>6. (running' = c) = TRUE
  BY <1>1, <1>5
<1>7. Others(c)
  BY <1>1, <1>2, <1>5, WorkerOthers DEF ConnInv, TypeOK
<1> QED
  BY <1>3, <1>4, <1>5, <1>6, <1>7, OneMoves

LEMMA ParsePolite ==
  ASSUME Polite, ConnInv, PoliteInv, NEW c \in Client, conn_parse_cmd(c)
  PROVE  PoliteInv'
<1>1. /\ running = c /\ conn[c].state = "conn_parse_cmd" /\ conn[c] \in Conns /\ c # NoClient
      /\ Phase(conn[c], sock[c], tosend[c], session[c], peer[c], room[c], TRUE)
  BY PoliteFacts DEF conn_parse_cmd, At
<1>2. PICK m \in try_read_command(conn[c]) :
        /\ conn' = [conn EXCEPT ![c] = m]
        /\ running' = IF m.flag_shake \/ m.state = "conn_closed" THEN c ELSE NoClient
  BY DEF conn_parse_cmd
<1>3. ~m.flag_shake
  <2>1. FALSE => m.state = "conn_closed"
    OBVIOUS
  <2> QED
    BY <1>1, <2>1, ParsePhase
<1> DEFINE off == running' = c
<1>4. off => m.state = "conn_closed"
  BY <1>1, <1>2, <1>3
<1> HIDE DEF off
<1>5. Phase(m, sock[c], tosend[c], session[c], peer[c], room[c], off)
  BY <1>1, <1>4, ParsePhase
<1>6. conn'[c] = m
  BY <1>2 DEF ConnInv, TypeOK
<1>7. /\ tosend' = tosend /\ session' = session /\ peer' = peer /\ room' = room
      /\ sock' = sock /\ running' \in {c, NoClient}
  BY <1>2 DEF conn_parse_cmd
<1>8. Others(c)
  BY <1>1, <1>2, <1>7, WorkerOthers DEF ConnInv, TypeOK
<1> QED
  BY <1>5, <1>6, <1>7, <1>8, OneMoves DEF off

\* A value is read: the invariant, and what is kept of the value.
LEMMA NreadPolite ==
  ASSUME Polite, ConnInv, PoliteInv, NEW c \in Client, conn_nread(c)
  PROVE  /\ PoliteInv'
         /\ session' = session
            \/ \E v : /\ Stored(session[c], v)
                      /\ session' = [session EXCEPT ![c].value = v]
<1> DEFINE k       == conn[c]
           missing == IF k.flag_shake THEN 0 ELSE k.rnbuf_len - k.rnbuf_rlen
           n       == Min2(missing, Len(sock[c]))
           dry     == missing > 0 /\ n = 0
           piece   == SubSeq(sock[c], 1, n)
           value   == ReadValue(k, piece).rnbuf
           new     == [session[c] EXCEPT !.value = value]
<1>1. /\ running = c /\ k.state = "conn_nread" /\ k \in Conns /\ k \in ConnType
      /\ sock[c] \in Seq(Unit) /\ tosend[c] \in Seq(Seq(Unit))
      /\ Phase(k, sock[c], tosend[c], session[c], peer[c], room[c], TRUE)
  BY PoliteFacts DEF conn_nread, At
<1>2. PICK m \in read_value_stored(k, piece, dry /\ peer[c] \in {"fin", "late", "pipe"}) :
        /\ conn' = [conn EXCEPT ![c] = m]
        /\ session' = IF m.state = "conn_write" THEN [session EXCEPT ![c].value = value]
                      ELSE session
  BY DEF conn_nread
<1>3. /\ sock' = [sock EXCEPT ![c] = SubSeq(@, n + 1, Len(@))]
      /\ peer' = IF dry /\ peer[c] = "rst" THEN [peer EXCEPT ![c] = "pipe"] ELSE peer
      /\ running' = running /\ tosend' = tosend /\ room' = room
  BY DEF conn_nread
<1>4. ~k.flag_shake /\ Receiving(k, sock[c], tosend[c], session[c], peer[c])
  BY <1>1 DEF Phase
<1>5. missing = k.rnbuf_len - k.rnbuf_rlen
  BY <1>4
<1>6. /\ n = Len(sock[c]) /\ piece = sock[c] /\ SubSeq(sock[c], n + 1, Len(sock[c])) = <<>>
      /\ missing > 0 /\ (n = 0 <=> sock[c] = <<>>)
  BY <1>1, <1>4, <1>5, PieceTaken
<1>7. dry = (sock[c] = <<>>)
  BY <1>6
<1> HIDE DEF missing, n, piece, dry
<1> DEFINE after == IF m.state = "conn_write" THEN new ELSE session[c]
           q == IF dry /\ peer[c] = "rst" THEN "pipe" ELSE peer[c]
<1>8. Reads(m, value, session[c], after)
  <2>1. /\ new.req = session[c].req /\ new.reply = session[c].reply /\ new.value = value
    BY DEF ConnInv, TypeOK
  <2> HIDE DEF new
  <2> QED
    BY <2>1 DEF Reads
<1>9. /\ conn'[c] = m /\ session'[c] = after /\ sock'[c] = <<>> /\ peer'[c] = q
      /\ tosend'[c] = tosend[c] /\ room'[c] = room[c]
  BY <1>2, <1>3, <1>6 DEF ConnInv, TypeOK
<1>10. Others(c)
  BY <1>1, <1>2, <1>3, WorkerOthers DEF ConnInv, TypeOK
<1> HIDE DEF after, value, q
<1>11. /\ Phase(m, <<>>, tosend[c], after, q, room[c], TRUE)
       /\ m.state = "conn_write" => Stored(session[c], value)
  <2>1. PICK closed \in BOOLEAN : /\ m \in read_value_stored(k, sock[c], closed)
                                 /\ Dry(sock[c], peer[c], closed, q)
    <3> DEFINE closed == dry /\ peer[c] \in {"fin", "late", "pipe"}
    <3>1. m \in read_value_stored(k, sock[c], closed) /\ Dry(sock[c], peer[c], closed, q)
      BY <1>6, <1>7 DEF Dry, q
    <3>2. closed \in BOOLEAN
      OBVIOUS
    <3> HIDE DEF closed
    <3> QED
      BY <3>1, <3>2
  <2>2. value = ReadValue(k, sock[c]).rnbuf
    BY <1>6 DEF value
  <2> HIDE DEF k
  <2>3. Reads(m, ReadValue(k, sock[c]).rnbuf, session[c], after)
    BY <1>8, <2>2
  <2>4. /\ Phase(m, <<>>, tosend[c], after, q, room[c], TRUE)
        /\ m.state = "conn_write" => Stored(session[c], ReadValue(k, sock[c]).rnbuf)
    BY <1>1, <2>1, <2>3, NreadPhase
  <2> QED
    BY <2>2, <2>4
<1>12. (running' = c) = TRUE
  BY <1>1, <1>3
<1>13. PoliteInv'
  BY <1>9, <1>10, <1>11, <1>12, OneMoves
<1> QED
  BY <1>2, <1>11, <1>13

\* A reply is written: the invariant, and to which request it is a reply.
LEMMA WritePolite ==
  ASSUME Polite, ConnInv, PoliteInv, NEW c \in Client, conn_write(c)
  PROVE  /\ PoliteInv'
         /\ session' = session
            \/ \E str : /\ Answers(session[c], str)
                        /\ session' = [session EXCEPT ![c].reply = str]
<1> DEFINE k    == conn[c]
           n    == Min2(k.wbuf_len - k.wbuf_wlen, room[c])
           done == k.wbuf_wlen + n = k.wbuf_len
<1>1. /\ running = c /\ k.state = "conn_write" /\ k \in Conns
      /\ peer[c] \in {"here", "fin", "late"} /\ room[c] \in 0..SendRoom
      /\ sock[c] \in Seq(Unit) /\ tosend[c] \in Seq(Seq(Unit))
      /\ Phase(k, sock[c], tosend[c], session[c], peer[c], room[c], TRUE)
  BY PoliteFacts DEF conn_write, At
<1>2. PICK str \in IF k.wbuf_stale THEN {k.wbuf, "GARBAGE"} ELSE {k.wbuf} :
        session' = IF done THEN [session EXCEPT ![c].reply = str] ELSE session
  BY DEF conn_write
<1>3. /\ conn' = [conn EXCEPT ![c] = write_activate_read(k, n)]
      /\ room' = [room EXCEPT ![c] = @ - n]
      /\ peer' = [peer EXCEPT ![c] = IF @ = "fin" THEN "late" ELSE @]
      /\ running' = running /\ tosend' = tosend /\ sock' = sock
  BY DEF conn_write
<1> DEFINE q == IF peer[c] = "fin" THEN "late" ELSE peer[c]
<1>4. /\ conn'[c] = write_activate_read(k, n) /\ peer'[c] = q
      /\ tosend'[c] = tosend[c] /\ sock'[c] = sock[c]
  BY <1>3 DEF ConnInv, TypeOK
<1>5. Others(c)
  BY <1>1, <1>2, <1>3, WorkerOthers DEF ConnInv, TypeOK
<1>6. Writes(k, n, str, session[c], session'[c])
  BY <1>2 DEF ConnInv, TypeOK, Writes
<1> HIDE DEF q
<1>7. Phase(write_activate_read(k, n), sock[c], tosend[c], session'[c], q, room'[c], TRUE)
  BY <1>1, <1>6, WritePhase DEF q
<1>8. (running' = c) = TRUE
  BY <1>1, <1>3
<1>9. PoliteInv'
  <2> HIDE DEF n, done
  <2> QED
    BY <1>4, <1>5, <1>7, <1>8, OneMoves
<1>10. Writing(k, sock[c], tosend[c], session[c], peer[c], TRUE)
  BY <1>1 DEF Phase
<1>11. Answers(session[c], str)
  <2>1. str \in IF k.wbuf_stale THEN {k.wbuf, "GARBAGE"} ELSE {k.wbuf}
    OBVIOUS
  <2> HIDE DEF k
  <2> QED
    BY <1>10, <2>1, ReplyWritten
<1> QED
  BY <1>2, <1>9, <1>11

LEMMA WriteEndsPolite ==
  ASSUME ConnInv, PoliteInv, NEW c \in Client, WriteFails(c) \/ BrokenPipe(c)
  PROVE  PoliteInv'
<1>1. /\ running = c /\ conn[c].state = "conn_write" /\ conn[c] \in ConnType
      /\ Phase(conn[c], sock[c], tosend[c], session[c], peer[c], room[c], TRUE)
  BY PoliteFacts DEF WriteFails, BrokenPipe, At
<1>2. PICK state : /\ state = "conn_closed" \/ (state = "sigpipe" /\ Gone(peer[c]))
                   /\ conn' = [conn EXCEPT ![c].state = state]
  BY DEF WriteFails, BrokenPipe, Gone
<1>3. /\ tosend' = tosend /\ session' = session /\ peer' = peer /\ room' = room
      /\ sock' = sock /\ running' = running
  BY DEF WriteFails, BrokenPipe
<1> DEFINE m == [conn[c] EXCEPT !.state = state]
<1>4. conn'[c] = m
  BY <1>2 DEF ConnInv, TypeOK
<1>5. Phase(m, sock[c], tosend[c], session[c], peer[c], room[c], TRUE)
  BY <1>1, <1>2, WriteEndsPhase
<1>6. Others(c)
  BY <1>1, <1>2, <1>3, WorkerOthers DEF ConnInv, TypeOK
<1>7. (running' = c) = TRUE
  BY <1>1, <1>3
<1> HIDE DEF m
<1> QED
  BY <1>3, <1>4, <1>5, <1>6, <1>7, OneMoves

LEMMA EndsPolite ==
  ASSUME ConnInv, PoliteInv, NEW c \in Client, conn_waiting(c) \/ conn_closed(c)
  PROVE  PoliteInv'
<1>1. /\ running = c /\ conn[c] \in ConnType /\ c # NoClient
      /\ Phase(conn[c], sock[c], tosend[c], session[c], peer[c], room[c], TRUE)
  BY PoliteFacts DEF conn_waiting, conn_closed, At
<1>2. /\ tosend' = tosend /\ session' = session /\ peer' = peer /\ room' = room
      /\ sock' = sock /\ running' = NoClient
  BY DEF conn_waiting, conn_closed
<1>3. Others(c)
  BY <1>1, <1>2, WorkerOthers DEF conn_waiting, conn_closed, ConnInv, TypeOK
<1>4. (running' = c) = FALSE
  BY <1>1, <1>2
<1>5. CASE conn_waiting(c)
  <2> DEFINE m == [conn[c] EXCEPT !.state = "conn_read"]
  <2>1. conn'[c] = m /\ conn[c].state = "conn_waiting"
    BY <1>5 DEF conn_waiting, At, ConnInv, TypeOK
  <2>2. Phase(m, sock[c], tosend[c], session[c], peer[c], room[c], FALSE)
    BY <1>1, <2>1, WaitingPhase
  <2> HIDE DEF m
  <2> QED
    BY <1>2, <1>3, <1>4, <2>1, <2>2, OneMoves
<1>6. CASE conn_closed(c)
  <2> DEFINE m == [conn[c] EXCEPT !.watching = {}]
  <2>1. conn'[c] = m /\ conn[c].state = "conn_closed"
    BY <1>6 DEF conn_closed, At, ConnInv, TypeOK
  <2>2. m.state = "conn_closed" /\ m.flag_shake = conn[c].flag_shake /\ m.rbuf = conn[c].rbuf
    BY <1>1, <2>1 DEF ConnType
  <2> HIDE DEF m
  <2>3. Phase(m, sock[c], tosend[c], session[c], peer[c], room[c], FALSE)
    <3>1. /\ ~conn[c].flag_shake /\ ReadBufLen <= Len(conn[c].rbuf)
          /\ peer[c] = "fin" => room[c] = SendRoom
          /\ peer[c] # "here" => tosend[c] = <<>>
      BY <1>1 DEF Phase
    <3> QED
      BY <2>2, <3>1, ClosedPhase
  <2> QED
    BY <1>2, <1>3, <1>4, <2>1, <2>3, OneMoves
<1> QED
  BY <1>5, <1>6

\* Every step of a run with polite clients preserves the invariant.
LEMMA PoliteStep ==
  ASSUME Polite, ConnInv, PoliteInv, [Next]_vars
  PROVE  PoliteInv'
<1>1. CASE UNCHANGED vars
  BY <1>1 DEF vars, PoliteInv
<1>2. CASE Next
  <2>1. PICK c \in Client : \/ \E r \in Request : Ask(c, r)
                            \/ Send(c) \/ Drain(c) \/ Leave(c) \/ Reset(c)
                            \/ Wake(c) \/ drive_machine(c)
    BY <1>2 DEF Next
  <2>2. CASE \E r \in Request : Ask(c, r)
    BY <2>2, AskPolite
  <2>3. CASE Send(c)
    BY <2>3, SendPolite
  <2>4. CASE Drain(c) \/ Leave(c) \/ Reset(c) \/ Wake(c)
    BY <2>4, ClientPolite
  <2>5. CASE conn_read(c) \/ conn_parse_cmd(c)
    BY <2>5, ReadPolite, ParsePolite
  <2>6. CASE conn_nread(c)
    BY <2>6, NreadPolite
  <2>7. CASE conn_write(c)
    BY <2>7, WritePolite
  <2>8. CASE WriteFails(c) \/ BrokenPipe(c)
    BY <2>8, WriteEndsPolite
  <2>9. CASE conn_waiting(c) \/ conn_closed(c)
    BY <2>9, EndsPolite
  <2> QED
    BY <2>1, <2>2, <2>3, <2>4, <2>5, <2>6, <2>7, <2>8, <2>9 DEF drive_machine
<1> QED
  BY <1>1, <1>2

LEMMA PoliteInvariance ==
  ASSUME Polite
  PROVE  Spec => [](ConnInv /\ PoliteInv)
<1>1. Init => PoliteInv
  BY InitPolite
<1>2. ConnInv /\ PoliteInv /\ [Next]_vars => PoliteInv'
  BY PoliteStep
<1> QED
  BY <1>1, <1>2, ConnInvariance, PTL DEF Spec

\* All that was sent has been read, and the reply is not written.
LEMMA Remembered ==
  ASSUME NEW k \in ConnType, NEW ss, NEW rm,
         Phase(k, <<>>, <<>>, ss, "here", rm, FALSE),
         k.state \notin {"conn_closed", "fault", "sigpipe"},
         ss.req \notin Silent \cup {None}, ss.reply = None
  PROVE  k.wbuf # None /\ k.watching = {"write"}
<1>1. ~Unsent(<<>>, ss, "here")
  <2>1. ~Settled(ss)
    BY Kinds DEF Settled
  <2>2. Open(ss) => Parts(ss.req) # <<>>
    BY PartsText DEF Open
  <2> QED
    BY <2>1, <2>2 DEF Unsent
<1>2. \A r \in Request : <<>> # Line(r) /\ <<>> # Value(r)
  BY NotEmpty
<1>3. ~Between(<<>>, <<>>, ss, "here")
  BY <1>1, <1>2, Kinds DEF Between, OnLine, Open
<1>4. k.state \notin {"conn_read", "conn_waiting"}
  BY <1>1, <1>3 DEF Phase, Resting
<1>5. ASSUME NEW m \in Nat, ValuePart(m, <<>>, <<>>, ss, "here")
      PROVE  ss.req \in Request /\ m = Len(Value(ss.req))
  <2>1. Len(<<>>) = 0
    OBVIOUS
  <2>2. ss.req \in Request /\ m + Len(<<>>) = Len(Value(ss.req))
    BY <1>5, <2>1 DEF ValuePart, Open
  <2> QED
    BY <2>1, <2>2
<1>6. k.state # "conn_nread"
  <2>1. k.rnbuf_rlen \in Nat
    BY FieldTypes
  <2>2. Receiving(k, <<>>, <<>>, ss, "here")
        => k.rnbuf_len = k.rnbuf_rlen /\ k.rnbuf_rlen < k.rnbuf_len
    BY <1>5, <2>1 DEF Receiving
  <2> QED
    BY <2>1, <2>2 DEF Phase
<1>7. k.state = "conn_write"
  BY <1>4, <1>6, FieldTypes DEF Phase, ConnState
<1>8. ~Refusing(k, <<>>, <<>>, ss, "here", FALSE)
  <2>1. ASSUME ValuePart(0, <<>>, <<>>, ss, "here") PROVE FALSE
    <3>1. ss.req \in Request /\ 0 = Len(Value(ss.req))
      BY <1>5, <2>1
    <3>2. Len(Value(ss.req)) >= 2
      BY <3>1, ValueText DEF EndsLine
    <3> QED
      BY <3>1, <3>2
  <2> QED
    BY <2>1 DEF Refusing
<1>9. Replying(k, <<>>, <<>>, ss)
  BY <1>7, <1>8 DEF Phase, Writing
<1>10. k.wbuf # None
  <2>1. ss.req \in Request /\ k.wbuf \in (IF ss.value = <<>> THEN Replies ELSE StoreReplies)[ss.req]
    BY <1>9 DEF Replying
  <2> QED
    BY <2>1, RepliesType
<1> QED
  BY <1>9, <1>10 DEF Replying

\* What a step does to a session.
LEMMA PromiseStep ==
  ASSUME Polite, ~CutValues, ConnInv, PoliteInv, [Next]_vars
  PROVE  [Promise!Next]_session
<1> USE DEF Promise!None
<1> SUFFICES ASSUME session' # session PROVE Promise!Next
  OBVIOUS
<1>1. PICK c \in Client : \/ \E r \in Request : Ask(c, r)
                          \/ conn_nread(c) \/ conn_write(c)
  BY DEF Next, vars, Send, Drain, Leave, Reset, Wake, drive_machine, conn_read, conn_parse_cmd,
         WriteFails, BrokenPipe, conn_waiting, conn_closed
<1>2. ASSUME NEW r \in Request, Ask(c, r) PROVE Promise!Next
  <2>1. session[c].reply # None \/ session[c].req \in {None} \cup Silent
    BY <1>2, Kinds DEF Ask
  <2>2. session' = [session EXCEPT ![c] = [Promise!Nobody EXCEPT !.req = r]]
    BY <1>2 DEF Ask, Nobody, Promise!Nobody, None
  <2>3. Promise!Ask(c, r)
    BY <2>1, <2>2 DEF Promise!Ask, None
  <2> QED
    BY <2>3 DEF Promise!Next
<1>3. CASE conn_nread(c)
  <2>1. PICK v : Stored(session[c], v) /\ session' = [session EXCEPT ![c].value = v]
    BY <1>3, NreadPolite
  <2>2. session'[c].value = v
    BY <2>1 DEF ConnInv, TypeOK
  <2>3. Promise!Keep(c)
    BY <2>1, <2>2 DEF Promise!Keep, Stored, Open, None
  <2> QED
    BY <2>3 DEF Promise!Next
<1>4. CASE conn_write(c)
  <2>1. PICK str : Answers(session[c], str) /\ session' = [session EXCEPT ![c].reply = str]
    BY <1>4, WritePolite
  <2>2. Promise!Answer(c)
    BY <2>1 DEF Promise!Answer, Answers, None
  <2> QED
    BY <2>2 DEF Promise!Next
<1> QED
  BY <1>1, <1>2, <1>3, <1>4

-----------------------------------------------------------------------------
(* Theorems *)

\* Connection objects, sockets and clients keep their types: offsets and
\* lengths never become negative, through growth of rbuf, leftovers of
\* refused lines and lines that were read ahead (conn.cpp:275-365, 642-700).
THEOREM TypeCorrect == Spec => []TypeOK
BY ConnInvariance, PTL DEF ConnInv

\* A value that is read fits into the memory made for it, with any length a
\* client may name (conn.cpp:593-640, 709-735).
THEOREM ValuesFit == Spec => []ValueFits
<1>1. ConnInv => ValueFits
  BY DEF ConnInv, Conns, Sane, Fits, ValueFits
<1> QED
  BY <1>1, ConnInvariance, PTL

\* The worker never goes back to its loop and forgets a polite client: once
\* all of a request has been read, the reply is in wbuf and the write watcher
\* is started, or the reply was written (conn.cpp:142-246, 273-331, 642-704).
THEOREM NoneForgotten ==
  ASSUME Polite
  PROVE  Spec => []NothingForgotten
<1>1. ASSUME ConnInv, PoliteInv PROVE NothingForgotten
  <2> SUFFICES ASSUME NEW c \in Client, Talking(c), running # c, tosend[c] = <<>>, sock[c] = <<>>,
                      session[c].req \notin Silent \cup {None}, session[c].reply = None
               PROVE  conn[c].wbuf # None /\ conn[c].watching = {"write"}
    BY DEF NothingForgotten
  <2>1. conn[c] \in ConnType /\ Phase(conn[c], sock[c], tosend[c], session[c], peer[c], room[c], running = c)
    BY <1>1, PoliteFacts
  <2>2. (running = c) = FALSE
    OBVIOUS
  <2>3. peer[c] = "here" /\ conn[c].state \notin {"conn_closed", "fault", "sigpipe"}
    BY DEF Talking, Up
  <2>4. Phase(conn[c], <<>>, <<>>, session[c], "here", room[c], FALSE)
    BY <2>1, <2>2, <2>3
  <2> QED
    BY <2>1, <2>3, <2>4, Remembered
<1> QED
  BY <1>1, PoliteInvariance, PTL

\* Polite clients, however they leave, do not make the process access memory it
\* must not, and end it by SIGPIPE only when a part of the reply went out after
\* they had closed (conn.cpp:142-246, 706-846).  Polite leaves out what does: a
\* get whose text does not fit into wbuf (514-536), and a refused line of more
\* than half of rbuf (650).
THEOREM DeathsAreSigpipe ==
  ASSUME Polite
  PROVE  Spec => []DiesOnlyWriting
<1>1. PoliteInv => DiesOnlyWriting
  BY DEF PoliteInv, Phase, DiesOnlyWriting
<1> QED
  BY <1>1, PoliteInvariance, PTL

\* The connections of polite clients keep the promise of Session: every request
\* is answered at most once and with a reply to it, and its value is stored at
\* most once, before that reply and as it was sent (conn.cpp:142-246, 364-846).
\* The value must come in one piece: a second one is written over the first
\* (719).
THEOREM PromiseKept ==
  ASSUME Polite, ~CutValues
  PROVE  Spec => KeepsPromise
<1>1. Init => Promise!Init
  BY DEF Init, Promise!Init, Nobody, Promise!Nobody, None, Promise!None
<1>2. ConnInv /\ PoliteInv /\ [Next]_vars => [Promise!Next]_session
  BY PromiseStep
<1> QED
  BY <1>1, <1>2, PoliteInvariance, PTL DEF Spec, KeepsPromise, Promise!Spec

=============================================================================
