------------------------------- MODULE MCMerlin -------------------------------
(* Merlin for TLC: two routers with an endpoint each.                      *)
EXTENDS Merlin

MCShape == <<2>>
MCFlits == [v \in 0 .. 1 |-> 1 + v]

(* Endpoint 0 sends on both VNs.                                           *)
MCMaxSend    == [rt \in {<<0, 1, 0>>, <<0, 1, 1>>} |-> IF rt[3] = 0 THEN 2 ELSE 1]
MCRoutes     == DOMAIN MCMaxSend
TorusMaxSend == [rt \in {<<0, 1, 1>>} |-> 2]
TorusRoutes  == DOMAIN TorusMaxSend
=============================================================================
