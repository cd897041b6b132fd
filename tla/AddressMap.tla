----------------------------- MODULE AddressMap -----------------------------
(***************************************************************************)
(* What a page-table manager promises its callers: a partial function      *)
(* from virtual pages to frames with their rights, of which one call       *)
(* changes exactly one entry.  The entries given at boot are permanent.    *)
(***************************************************************************)
CONSTANT Given        \* the mappings that exist before the first call

VARIABLE maps

\* One entry is added, only where there was none, or one is removed.
Adds(m, n, va) == /\ va \in DOMAIN n \ DOMAIN m
                  /\ DOMAIN n = DOMAIN m \cup {va}
                  /\ \A v \in DOMAIN m : n[v] = m[v]

Map(m, n) == \E va \in DOMAIN n : Adds(m, n, va)

Unmap(m, n) == \E va \in DOMAIN m \ DOMAIN Given : Adds(n, m, va)

Init == maps = Given

Next == LET m == maps  n == maps' IN Map(m, n) \/ Unmap(m, n)

Spec == Init /\ [][Next]_maps

=============================================================================
