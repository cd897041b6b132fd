------------------------------- MODULE MCVMM -------------------------------
(* Up to three usable pages of four bytes, so that every table, the self-test *)
(* and the heap run out; sizes around zero, one page and 2^64 = 64; three     *)
(* entries to a table.  The windows: the identity map, the two names of       *)
(* bootstrap_pd, and a region with no tables yet (the framebuffer's).         *)
EXTENDS VMM

MCAddresses == {4 * p : p \in 0 .. 3} \cup {5}
MCSizes == {0, 4, 5, 61}
MCRequests == {[frame |-> 20, flags |-> WRITABLE],
               [frame |-> 21, flags |-> [w |-> FALSE, u |-> FALSE, nx |-> TRUE]]}
MCCanonical == (0 .. 1) \X (0 .. 2) \X (0 .. 1) \X (0 .. 1)
MCVAs == {<<0, 0, 1, 1>>, <<0, 1, 0, 0>>, <<1, 0, 0, 0>>, <<0, 2, 0, 0>>}

=============================================================================
