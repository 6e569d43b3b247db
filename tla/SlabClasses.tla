---------------------------- MODULE SlabClasses ----------------------------
(***************************************************************************)
(* The table of slab classes that the constructor of Slab computes: chunk  *)
(* sizes grow by a factor, aligned, up to the largest item, which has the  *)
(* last class for itself.                                                  *)
(*                                                                         *)
(* p.first is sizeof(base_item) + chunk_size, p.max item_size_max,         *)
(* p.num / p.den the factor, p.align CHUNK_ALION_BYTES and p.classes       *)
(* POWER_LARGEST.                                                          *)
(***************************************************************************)
EXTENDS Integers

Aligned(p, n) == IF n % p.align = 0 THEN n ELSE n + p.align - (n % p.align)

\* size at the head of the i-th turn of the loop.
RawSizes(p) ==
  LET raw[i \in 1..p.classes] ==
        IF i = 1 THEN p.first ELSE (Aligned(p, raw[i - 1]) * p.num) \div p.den
  IN  raw

\* power_largest: the first turn that the condition of the loop refuses.
power_largest(p) ==
  CHOOSE i \in 1..p.classes :
    /\ i = p.classes \/ RawSizes(p)[i] * p.num > p.max * p.den
    /\ \A j \in 1..(i - 1) : RawSizes(p)[j] * p.num <= p.max * p.den

size(p) ==
  [i \in 1..power_largest(p) |->
     IF i = power_largest(p) THEN p.max ELSE Aligned(p, RawSizes(p)[i])]

perslab(p) ==
  [i \in 1..power_largest(p) |-> IF i = power_largest(p) THEN 1 ELSE p.max \div size(p)[i]]

=============================================================================
