---------------------------- MODULE OrderedChannel ----------------------------
(***************************************************************************)
(* What a memory interconnect promises the components it connects: the     *)
(* events one component sends another are handed over one at a time, in    *)
(* the order in which they were sent.  Events are named by their position. *)
(* This is the order that the links of Hierarchy rest on.                  *)
(***************************************************************************)
EXTENDS Naturals, Sequences

CONSTANT Routes         \* pairs <<src, dst>> that communicate

VARIABLES sent,         \* events sent so far
          delivered     \* the events handed over, in that order

vars == <<sent, delivered>>

Init == /\ sent = [r \in Routes |-> 0]
        /\ delivered = [r \in Routes |-> <<>>]

Send(r) == /\ sent' = [sent EXCEPT ![r] = @ + 1]
           /\ UNCHANGED delivered

Deliver(r) == /\ Len(delivered[r]) < sent[r]
              /\ delivered' = [delivered EXCEPT ![r] = Append(@, Len(@))]
              /\ UNCHANGED sent

Next == \E r \in Routes : Send(r) \/ Deliver(r)

Spec == Init /\ [][Next]_vars
=============================================================================
