------------------------------- MODULE MCConn -------------------------------
(* Small instances of Conn for TLC. *)
EXTENDS ConnClaims

Num(n) == [num |-> TRUE, val |-> n]
NotNum == [num |-> FALSE, val |-> 0]

Words1(verb) ==
  [words |-> 1, verb |-> verb, longkey |-> FALSE, pad |-> 0, total |-> 2, value |-> <<>>,
   flags |-> Num(0), exptime |-> Num(0), bytes |-> Num(0), cas |-> Num(0)]
Words2(verb) == [Words1(verb) EXCEPT !.words = 2]
Words4 == [Words1("unknown") EXCEPT !.words = 4]
Words5(verb, bytes, value) ==
  [Words1(verb) EXCEPT !.words = 5, !.bytes = bytes, !.value = value]

\* The requests of all runs.  Ints are -8..7 and longs -32..31.
MCInfo ==
  [version |-> Words1("version"),
   stats   |-> Words1("unknown"),
   quit    |-> Words1("quit"),
   get     |-> Words2("get"),
   delete  |-> Words2("delete"),
   pair    |-> Words2("unknown"),
   blank   |-> Words4,
   set     |-> Words5("set", Num(2), <<"d1", "d2">>),
   put     |-> Words5("set", Num(1), <<"d1">>),
   cas     |-> [Words5("cas", Num(1), <<"d1">>) EXCEPT !.words = 6, !.cas = Num(5)],
   \* lengths that are negative, that vlen + 2 makes negative, no number
   setneg  |-> Words5("set", Num(-1), <<"d1">>),
   setmax  |-> Words5("set", Num(6), <<"d1">>),
   setword |-> Words5("set", NotNum, <<"d1">>),
   \* a negative number in place of the cas id
   casneg  |-> [Words5("cas", Num(1), <<"d1">>) EXCEPT !.words = 6, !.cas = Num(-1)],
   \* a hit for which wbuf has to grow
   getbig  |-> [Words2("get") EXCEPT !.total = 5],
   \* lines that fill rbuf, and that are longer
   getfull |-> [Words2("get") EXCEPT !.pad = 5],
   getwide |-> [Words2("get") EXCEPT !.pad = 6]]

\* Over all words of up to twice the range of long: a length that passes
\* has lost nothing but multiples of 2^32, none is lost within int, and
\* lengths within 2 of the largest int are refused.
ASSUME LengthsChecked ==
  \A n \in (-2 * LongMod)..(2 * LongMod) :
    LET i == Words5("set", Num(n), <<>>)
    IN  /\ ~Refused(i) => (vlen(i) - 2 - n) % IntMod = 0 /\ vlen(i) >= 2
        /\ n \in 0..(IntMod \div 2 - 3) => ~Refused(i) /\ vlen(i) = n + 2
        /\ n \in (IntMod \div 2 - 2)..(IntMod \div 2 - 1) => Refused(i)

\* The runs that check what connections promise are runs of polite clients;
\* the others are those of the claims.
ASSUME PoliteRuns == Hasty \/ CutLines \/ "getbig" \in Request \/ Polite

=============================================================================
