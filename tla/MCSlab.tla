------------------------------- MODULE MCSlab -------------------------------
(* Small instances of Slab for TLC, with a table from the constructor. *)
EXTENDS Slab, SlabClasses

\* Two classes of 2 and 4 bytes, with two chunks and one chunk a page.
Small == [first |-> 1, max |-> 4, num |-> 2, den |-> 1, align |-> 2, classes |-> 9]
MCSize == size(Small)
MCPerSlab == perslab(Small)

\* The settings of the program.
Shipped == [first |-> 104, max |-> 1048576, num |-> 6, den |-> 5, align |-> 8, classes |-> 200]

\* The shipped table meets what SlabAssumption asks of Size and PerSlab, the
\* search of slabs_clsid ends inside it, and no slab is longer than the
\* largest item.
ASSUME ShippedTable ==
  LET s == size(Shipped)
      n == perslab(Shipped)
  IN  /\ power_largest(Shipped) < Shipped.classes
      /\ \A i \in 2..power_largest(Shipped) : s[i - 1] < s[i]
      /\ \A i \in DOMAIN s : n[i] >= 1 /\ s[i] * n[i] <= Shipped.max

=============================================================================
