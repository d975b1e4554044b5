----------------------------- MODULE MCMemNICFour -----------------------------
EXTENDS MemNICFour

CONSTANTS n1, n2, n3

(* Two sources for one destination. *)
MCRoutes == {<<n1, n3>>, <<n2, n3>>}
=============================================================================
