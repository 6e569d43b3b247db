-------------------------------- MODULE Tool --------------------------------
(***************************************************************************)
(* The conversions of tool.cpp.  A word of a command is a record: num says *)
(* that the whole word is a decimal number, val which one.  Each operator  *)
(* returns the flag that the C++ function returns and the value that it    *)
(* leaves in *out.  long and unsigned long have LongMod values, int32_t    *)
(* and uint32_t have IntMod (2^64 and 2^32 in the build).                  *)
(***************************************************************************)
EXTENDS Integers

CONSTANTS IntMod, LongMod

ASSUME ToolAssumption ==
  /\ IntMod \in Nat /\ IntMod % 2 = 0 /\ IntMod > 4
  /\ LongMod \in Nat /\ LongMod % IntMod = 0

Word == [num : BOOLEAN, val : Int]

\* The two's complement reading of n in a type of mod values.
Signed(n, mod) == IF n % mod < mod \div 2 THEN n % mod ELSE (n % mod) - mod

AsInt(n) == Signed(n, IntMod)

Failed == [ok |-> FALSE, out |-> 0]

\* strtol reports ERANGE outside long; the assignment to *out drops the
\* upper half.
safe_strtol(w) ==
  IF w.num /\ -(LongMod \div 2) <= w.val /\ w.val < LongMod \div 2
  THEN [ok |-> TRUE, out |-> AsInt(w.val)]
  ELSE Failed

\* strtoul and strtoull negate a number with a minus sign modulo LongMod; a
\* result with the top bit set is then refused.
Unsigned(w, mod) ==
  IF /\ w.num
     /\ -LongMod < w.val /\ w.val < LongMod
     /\ ~ (Signed(w.val, LongMod) < 0 /\ w.val < 0)
  THEN [ok |-> TRUE, out |-> w.val % mod]
  ELSE Failed

safe_strtoul(w)  == Unsigned(w, IntMod)
safe_strtoull(w) == Unsigned(w, LongMod)

=============================================================================
