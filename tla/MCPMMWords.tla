------------------------------ MODULE MCPMMWords ------------------------------
(* Five two-byte pages in words of two bits: three words, the last one with *)
(* a single page.  A range can lie inside one word, at its start or past it, *)
(* have a partial first, a whole and a partial last word, start and end      *)
(* inside a page, and pass the end of memory.                                *)
EXTENDS PMMWords

MCAddresses == {0, 2, 4, 5, 8, 11}

=============================================================================
