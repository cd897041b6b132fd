---------------------------- MODULE PageOwnership ----------------------------
(***************************************************************************)
(* What a physical page allocator promises to the rest of the kernel: a    *)
(* page is in the pool, or it has one owner, or it is neither (reserved,   *)
(* or never declared usable).  A page leaves the pool when it is handed    *)
(* out, comes back only from its owner, and no other operation moves an    *)
(* owned page.  PMM implements it.                                         *)
(***************************************************************************)
CONSTANT Pages

VARIABLES pool, owned

vars == <<pool, owned>>

Init == pool = {} /\ owned = {}

Take(p) == /\ p \in pool
           /\ pool' = pool \ {p}
           /\ owned' = owned \cup {p}

\* The owner gives a page up.  It returns to the pool unless it has been
\* reserved in the meantime.
GiveBack(p) == /\ p \in owned
               /\ owned' = owned \ {p}
               /\ pool' \in {pool, pool \cup {p}}

\* A merge of a memory map: pages without an owner enter the pool.
Publish == /\ pool \subseteq pool'
           /\ pool' \subseteq Pages \ owned
           /\ UNCHANGED owned

Withdraw == /\ pool' \subseteq pool
            /\ UNCHANGED owned

\* Starting over forgets every owner.
Restart == /\ owned' = {}
           /\ pool' \in SUBSET Pages

Next == \/ \E p \in Pages : Take(p) \/ GiveBack(p)
        \/ Publish
        \/ Withdraw
        \/ Restart

Spec == Init /\ [][Next]_vars

=============================================================================
