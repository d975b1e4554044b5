--------------------------- MODULE MCMerlinRouting ----------------------------
(* MerlinRouting for TLC: a three-dimensional network.                     *)
EXTENDS MerlinRouting

MCShape == <<4, 3, 2>>
=============================================================================
