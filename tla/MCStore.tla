------------------------------ MODULE MCStore ------------------------------
(* Small instances of Store for TLC. *)
EXTENDS StoreRefinement, StoreClaims

CONSTANTS k1, k2, b1, b2, a1, a2

MCSize == <<2, 3>>        \* one and two units of data above the overhead
MCPerSlab2 == <<2, 1>>
MCPerSlab3 == <<3, 1>>
OneBucket == [k \in Key |-> b1]
TwoBuckets == (k1 :> b1) @@ (k2 :> b2)
NoDeadline == {0}
\* Never, the negative value that becomes MaxDelta - 1, an absolute time.
AllDeadlines == {0, -1, 3}
NoFlags == {{}}
LinkedFlag == {{}, {"LINKED"}}
\* Clients are alike, and so are keys of one bucket.
Alike == Permutations(Conn) \cup Permutations(Key)
=============================================================================
