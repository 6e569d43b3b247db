------------------------------- MODULE ConnMem -------------------------------
(***************************************************************************)
(* One connection object: the functions of class Conn (conn.cpp) on its    *)
(* buffers, flags and watchers, as operators on a record.                  *)
(*                                                                         *)
(* A buffer is a sequence of units.  One unit stands for the text of a     *)
(* command line (the name of a request), one for a blank, a carriage       *)
(* return, a newline or a NUL, one for a character of a value, and "junk"  *)
(* for anything else.  Pointers into a buffer are offsets from its start.  *)
(* A function with several outcomes returns the set of records it may      *)
(* leave.  The state "fault" is a bad access that ends the process, or one *)
(* outside a heap block, after which nothing can be said; where the second *)
(* may also do no harm, there are records for both.                        *)
(***************************************************************************)
EXTENDS Tool, Sequences, SequencesExt, FiniteSetsExt

CONSTANTS
  Request,      \* names of the command lines clients send
  Info,         \* Info[r]: what process_command finds in the words of r
  ReadBufLen,   \* READBUF_LEN
  WriteBufLen,  \* WRITEBUF_LEN
  TextExcess,   \* by how much the text of a hit may exceed ntotal
  StringLen,    \* length of a reply of out_string, with its \r\n
  AllocFails,   \* item_alloc may return 0
  Fresh         \* contents of memory that is not initialised

Verb == {"quit", "version", "get", "delete", "set", "add", "replace", "append",
         "prepend", "cas", "incr", "unknown"}
StoreVerb == {"set", "add", "replace", "append", "prepend", "cas"}
Blank == {"SP", "CR", "LF"}
Unit == Request \cup Blank \cup {"NUL", "junk", "d1", "d2"}
Reply == {"VERSION", "CLIENT_BAD_COMMAND", "DELETED", "NOT_FOUND", "END", "VALUE",
          "GARBAGE", "CLIENT_ERROR", "SERVER_ERROR", "STORED", "NOT_STORED",
          "EXISTS", "TOO_LONG"}

None == "none"

ASSUME ConnAssumption ==
  /\ Request \cap (Blank \cup {"NUL", "junk", "d1", "d2", None}) = {}
  /\ \A r \in Request :
       /\ Info[r].words \in Nat \ {0} /\ Info[r].verb \in Verb
       /\ Info[r].longkey \in BOOLEAN
       /\ Info[r].pad \in Nat /\ Info[r].total \in Nat
       /\ Info[r].value \in Seq({"d1", "d2"})
       /\ {Info[r].flags, Info[r].exptime, Info[r].bytes, Info[r].cas} \subseteq Word
  /\ ReadBufLen \in Nat \ {0}
  /\ StringLen \in Nat \ {0} /\ WriteBufLen \in Nat /\ StringLen < WriteBufLen
  /\ TextExcess \subseteq Nat \ {0} /\ TextExcess # {}
  /\ AllocFails \in BOOLEAN
  /\ Fresh \subseteq {"NUL", "junk"} /\ Fresh # {}

ConnState == {"conn_read", "conn_parse_cmd", "conn_waiting", "conn_write",
              "conn_nread", "conn_closed", "fault", "sigpipe"}

\* A Conn object.
ConnType == [
  state : ConnState, flag_shake : BOOLEAN, flag_precmd : BOOLEAN,
  rbuf : Seq(Unit), rbuf_now : Nat, rbuf_rlen : Nat,
  rnbuf : Seq(Unit), rnbuf_len : Nat, rnbuf_rlen : Nat,
  cmd : StoreVerb \cup {"unknown"},
  wbuf : Reply \cup {None}, wbuf_stale : BOOLEAN, wbuf_size : Nat,
  wbuf_len : Nat, wbuf_wlen : Nat,
  watching : SUBSET {"read", "write"}]

\* Conn::Conn.  The buffers and flag_precmd are not initialised; flag_shake
\* is not either, and is always assigned before it is read.
NewConn(fill, precmd) == [
  state       |-> "conn_read",
  flag_shake  |-> FALSE,
  flag_precmd |-> precmd,
  rbuf        |-> [i \in 1..ReadBufLen |-> fill],
  rbuf_now    |-> 0,
  rbuf_rlen   |-> 0,
  rnbuf       |-> <<>>,          \* <<>> while it points to no allocated memory
  rnbuf_len   |-> 0,
  rnbuf_rlen  |-> 0,
  cmd         |-> "unknown",
  wbuf        |-> None,          \* the reply in wbuf
  wbuf_stale  |-> FALSE,         \* wbuf_now points into a freed wbuf
  wbuf_size   |-> WriteBufLen,   \* length of the memory at wbuf
  wbuf_len    |-> WriteBufLen,
  wbuf_wlen   |-> 0,
  watching    |-> {"read"}]      \* watchers that are started

Fault(k) == [k EXCEPT !.state = "fault"]

\* p written over the head of s.
Over(s, p) == p \o SubSeq(s, Len(p) + 1, Len(s))

Min2(a, b) == IF a < b THEN a ELSE b

-----------------------------------------------------------------------------
(* Replies *)

out_string(k, str) ==
  [k EXCEPT !.wbuf       = IF StringLen >= k.wbuf_len THEN "TOO_LONG" ELSE str,
            !.wbuf_len   = StringLen,
            !.wbuf_stale = FALSE,
            !.state      = "conn_write"]

\* memset of rbuf.
Cleared(k) == [k EXCEPT !.rbuf = [i \in DOMAIN k.rbuf |-> "NUL"], !.rbuf_rlen = 0]

\* ev_io_stop of the read watcher and ev_io_start of the write watcher.
WatchWrite(k) == [k EXCEPT !.watching = {"write"}]

\* Mutant: the watchers are left as they are.
MutAnswered(k, str) == out_string(Cleared(k), str)

\* The ending that most commands share.
Answered(k, str) == WatchWrite(out_string(Cleared(k), str))

-----------------------------------------------------------------------------
(* Commands *)

command_one_para(k, i) ==
  IF i.verb = "quit" THEN {[k EXCEPT !.state = "conn_closed"]}
  ELSE {Answered(k, IF i.verb = "version" THEN "VERSION" ELSE "CLIENT_BAD_COMMAND")}

delete_command(k) == {Answered(k, "DELETED"), Answered(k, "NOT_FOUND")}

\* A hit leaves wbuf_len as it is; a reply with a larger ntotal gets a new
\* wbuf, and wbuf_now still points into the old one.  ntotal counts the sizes
\* of the numbers in memory and neither END nor the blanks: the text written
\* is longer, and may run over the end of wbuf.
get_command(k, i) ==
  LET big  == i.total > k.wbuf_len
      size == IF big THEN i.total ELSE k.wbuf_size
      over == \E x \in TextExcess : i.total + x > size
      hit  == [k EXCEPT !.wbuf       = "VALUE",
                        !.wbuf_size  = size,
                        !.wbuf_len   = IF big THEN i.total ELSE @,
                        !.wbuf_stale = big,
                        !.state      = "conn_write"]
  IN  IF i.longkey THEN {out_string(k, "CLIENT_ERROR")}
      ELSE {Answered(k, "END"), WatchWrite(Cleared(hit))}
           \cup (IF over THEN {Fault(k)} ELSE {})

command_two_para(k, i) ==
  CASE i.verb = "get"    -> get_command(k, i)
    [] i.verb = "delete" -> delete_command(k)
    [] OTHER             -> {Answered(k, "CLIENT_BAD_COMMAND")}

\* The function has no body.
command_three_para(k) == {k}

nread_stat_set(k, verb) == [k EXCEPT !.cmd = IF verb \in StoreVerb THEN verb ELSE "unknown"]

\* vlen, with the wrap-around of vlen += 2.
vlen(i) == AsInt(safe_strtol(i.bytes).out + 2)

Refused(i) ==
  \/ i.longkey
  \/ ~ (safe_strtoul(i.flags).ok /\ safe_strtol(i.exptime).ok /\ safe_strtol(i.bytes).ok)
  \/ i.words = 6 /\ ~ safe_strtoull(i.cas).ok
  \/ vlen(i) < 0
  \/ AsInt(vlen(i) - 2) < 0

\* Mutant: the length is not tested again after vlen += 2.
MutFiveSix(k, i) ==
  LET n == nread_stat_set(k, i.verb)
  IN  IF Refused(i) /\ vlen(i) >= 0 THEN {out_string(n, "CLIENT_ERROR")}
      ELSE {[n EXCEPT !.rnbuf     = [j \in 1..vlen(i) |-> "junk"],
                      !.rnbuf_len = vlen(i),
                      !.state     = "conn_nread"]}

\* A refusal only prepares the reply: rbuf and the watchers stay.
command_five_six_para(k, i) ==
  LET n == nread_stat_set(k, i.verb)
      accepted == [n EXCEPT !.rnbuf     = [j \in 1..vlen(i) |-> "junk"],
                            !.rnbuf_len = vlen(i),
                            !.state     = "conn_nread"]
  IN  IF Refused(i) THEN {out_string(n, "CLIENT_ERROR")}
      ELSE {accepted} \cup (IF AllocFails THEN {out_string(n, "SERVER_ERROR")} ELSE {})

\* The words of the string in rbuf, which ends at the first NUL.  The text of
\* a command line is one unit; any other text is taken as one unknown word.
Words(k) ==
  LET marks == {i \in DOMAIN k.rbuf : k.rbuf[i] \notin Blank
                                      /\ \A j \in 1..i : k.rbuf[j] # "NUL"}
  IN  IF marks = {} THEN [words |-> 0]
      ELSE IF \E i \in marks : marks = {i} /\ k.rbuf[i] \in Request
      THEN Info[k.rbuf[CHOOSE i \in marks : TRUE]]
      ELSE [words |-> 1, verb |-> "unknown"]

\* The switch on the number of words.
Command(k, i) ==
  CASE i.words = 1 -> command_one_para(k, i)
    [] i.words = 2 -> command_two_para(k, i)
    [] i.words = 3 -> command_three_para(k)
    [] i.words = 5 -> {[n EXCEPT !.flag_precmd = TRUE] : n \in command_five_six_para(k, i)}
    [] i.words = 6 -> command_five_six_para(k, i)
    [] OTHER       -> {[Cleared(k) EXCEPT !.rbuf_now = 0, !.state = "conn_read",
                                          !.flag_precmd = FALSE]}

process_command(k) == UNION {Command(k, i) : i \in {Words(k)}}

-----------------------------------------------------------------------------
(* Parsing *)

\* The value was read with its command line: it goes to rnbuf, without the
\* last two units.
ShakenValue(k, rest) ==
  [k EXCEPT !.rnbuf       = Over(@, SubSeq(rest, 1, Len(rest) - 2)),
            !.rnbuf_rlen  = Len(rest) - 2,
            !.state       = "conn_nread",
            !.flag_precmd = FALSE]

\* Another line was: it goes to the front of rbuf.
ShakenLine(k, rest) ==
  [k EXCEPT !.rbuf      = Over(@, Append(rest, "NUL")),
            !.rbuf_now  = 0,
            !.rbuf_rlen = Len(rest),
            !.state     = "conn_parse_cmd"]

\* More was read than the command line, which ends at offset endp.  A
\* negative value_len makes memchr and memmove run off the heap; so may a
\* value longer than rnbuf, or a rnbuf that is not allocated.
conn_shake(k, endp, value_len) ==
  LET rest == SubSeq(k.rbuf, endp + 1, endp + value_len)
      off  == k.rnbuf = <<>> \/ value_len > k.rnbuf_len + 4
  IN  IF value_len < 0 THEN {Fault(k)}
      ELSE IF ~ Contains(rest, "CR") THEN {k}
      ELSE IF ~ k.flag_precmd THEN {ShakenLine(k, rest)}
      ELSE (IF value_len = 1 \/ off THEN {Fault(k)} ELSE {})
           \cup (IF value_len = 1 THEN {} ELSE {ShakenValue(k, rest)})

\* The first newline in what has been read.
EndOfLine(k) == Min({i \in 1..k.rbuf_rlen : k.rbuf[i] = "LF"})

\* Mutant: the test looks at the newline itself.
MutTerminated(k, lf) == {[k EXCEPT !.flag_shake = TRUE, !.rbuf[lf] = "NUL"]}

\* A NUL ends the line, and the unit behind its newline, which may be one
\* behind the end of rbuf, tells whether more was read.
Terminated(k, lf) ==
  LET endflag == IF lf - 1 - k.rbuf_now > 1 /\ k.rbuf[lf - 1] = "CR" THEN lf - 1 ELSE lf
  IN  {[k EXCEPT !.flag_shake = next # "NUL", !.rbuf[endflag] = "NUL"] :
       next \in IF lf < Len(k.rbuf) THEN {k.rbuf[lf + 1]} ELSE Fresh}

\* Mutant: rbuf_rlen is reduced also after process_command has reset it.
MutAdvanced(k, endp) ==
  [k EXCEPT !.rbuf_rlen = @ - (endp - k.rbuf_now),
            !.rbuf_now  = IF @ # 0 THEN endp ELSE 0]

\* rbuf_rlen and rbuf_now move past the line, unless process_command has
\* reset them.
Advanced(k, endp) ==
  [k EXCEPT !.rbuf_rlen = IF @ # 0 THEN @ - (endp - k.rbuf_now) ELSE 0,
            !.rbuf_now  = IF @ # 0 THEN endp ELSE 0]

\* Advanced may leave a rbuf_rlen past the end of rbuf, if clients do not wait
\* for their replies; memchr and memmove then run off the heap.
Overrun(k) == k.rbuf_rlen > Len(k.rbuf)

\* Without a newline endflag is 0, and the access to endflag + 1 faults.
try_read_command(k) ==
  IF k.rbuf_rlen = 0 THEN {[k EXCEPT !.state = "conn_waiting"]}
  ELSE IF Overrun(k) \/ \A i \in 1..k.rbuf_rlen : k.rbuf[i] # "LF" THEN {Fault(k)}
  ELSE LET lf == EndOfLine(k)
       IN  UNION {IF n.state = "fault" THEN {n}
                  ELSE IF n.flag_shake THEN conn_shake(n, lf, n.rbuf_rlen - lf)
                  ELSE {Advanced(n, lf)} :
                  n \in UNION {process_command(line) : line \in Terminated(k, lf)}}

-----------------------------------------------------------------------------
(* Reading and writing *)

\* The source of the memmove reaches past the end of rbuf.
Overread(k) ==
  k.rbuf_now # 0 /\ k.rbuf_rlen # 0 /\ k.rbuf_now + k.rbuf_rlen > Len(k.rbuf)

\* memmove to the front of rbuf.  What lies behind its end is not memory of
\* the connection: a header of malloc, or another block.
Moved(k) ==
  IF k.rbuf_now = 0 THEN {k}
  ELSE {[k EXCEPT !.rbuf = Over(@, [i \in 1..k.rbuf_rlen |->
                                      IF k.rbuf_now + i <= Len(@) THEN @[k.rbuf_now + i]
                                      ELSE beyond]),
                  !.rbuf_now = 0] : beyond \in {"NUL", "junk"}}

MaxGrowth == 4

\* rbuf doubles until the units that arrived leave room, or has done so four
\* times.
Growth(k, total) ==
  Min({n \in 0..MaxGrowth : n = MaxGrowth \/ total < Len(k.rbuf) * 2^n})

\* The loop of reads, with n doublings of rbuf.  gone: after the units that
\* arrived comes the end of the stream or an error.  It is only noticed by a
\* read that returns nothing, the first one or one after rbuf was filled.
ReadInto(k, arrived, gone, n, fill) ==
  LET size  == Len(k.rbuf) * 2^n
      taken == Min2(k.rbuf_rlen + Len(arrived), size)
      start == IF n = 0 THEN k.rbuf_rlen ELSE size \div 2
  IN  [k EXCEPT !.rbuf = [i \in 1..size |->
                            IF i \in (k.rbuf_rlen + 1)..taken THEN arrived[i - k.rbuf_rlen]
                            ELSE IF i <= Len(@) THEN @[i] ELSE fill],
                !.rbuf_now  = taken - start,
                !.rbuf_rlen = taken,
                !.state     = IF taken = start /\ gone THEN "conn_closed"
                              ELSE IF arrived = <<>> THEN "conn_waiting"
                              ELSE "conn_parse_cmd"]

try_read_tcp(k, arrived, gone) ==
  IF Overrun(k) THEN {Fault(k)}
  ELSE (IF Overread(k) THEN {Fault(k)} ELSE {})
       \cup UNION {{ReadInto(m, arrived, gone, n, fill) :
                     n \in {Growth(m, m.rbuf_rlen + Len(arrived))}, fill \in Fresh} :
                   m \in Moved(k)}

\* The read of a value always starts at the head of rnbuf.
ReadValue(k, piece) ==
  [k EXCEPT !.rnbuf = Over(@, piece), !.rnbuf_rlen = @ + Len(piece)]

\* Mutant: rnbuf_rlen is not reset.
MutStoreResult(k) ==
  IF k.cmd = "unknown" THEN {WatchWrite(k)}
  ELSE {Answered(k, "STORED"), Answered(k, IF k.cmd = "cas" THEN "EXISTS" ELSE "NOT_STORED")}

\* The ends of the switch on cmd: STORED or the other reply.
StoreResult(k) ==
  IF k.cmd = "unknown" THEN {WatchWrite(k)}
  ELSE LET n == [k EXCEPT !.rnbuf = <<>>, !.rnbuf_rlen = 0]
       IN  {Answered(n, "STORED"),
            Answered(n, IF k.cmd = "cas" THEN "EXISTS" ELSE "NOT_STORED")}

\* Mutant: the end of the stream is taken for EAGAIN.
MutReadValueStored(k, piece, closed) ==
  LET n == ReadValue(k, piece)
  IN  IF n.rnbuf_len # n.rnbuf_rlen THEN {n} ELSE StoreResult(n)

\* piece: what read returns; closed: it returns 0 although units are missing.
read_value_stored(k, piece, closed) ==
  LET n == ReadValue(k, piece)
  IN  IF closed THEN {[k EXCEPT !.state = "conn_closed"]}
      ELSE IF n.rnbuf_len # n.rnbuf_rlen THEN {n}
      ELSE StoreResult(n)

\* n units of the reply are written; after the last wbuf starts afresh.
write_activate_read(k, n) ==
  IF k.wbuf_wlen + n < k.wbuf_len THEN [k EXCEPT !.wbuf_wlen = @ + n]
  ELSE [k EXCEPT !.wbuf       = None,
                 !.wbuf_stale = FALSE,
                 !.wbuf_len   = WriteBufLen,
                 !.wbuf_wlen  = 0,
                 !.watching   = {"read"},
                 !.state      = "conn_waiting"]

=============================================================================
