------------------------------ MODULE MemService ------------------------------
(***************************************************************************)
(* What the memory controller promises: every event that arrives is        *)
(* answered once, and a flush not before the requests it covers.           *)
(***************************************************************************)
CONSTANT Reqs           \* event ids

VARIABLES outstanding,  \* events that arrived and are not answered
          answered,     \* events answered
          covers        \* per event: the events that must be answered first

vars == <<outstanding, answered, covers>>

Known == outstanding \cup answered

Init == /\ outstanding = {} /\ answered = {}
        /\ covers = [e \in Reqs |-> {}]

(* New events arrive, each with the outstanding events it covers.          *)
Arrive(new) ==
    /\ new \subseteq Reqs \ Known
    /\ Known \subseteq Known'
    /\ \A e \in Reqs \ new : covers'[e] = covers[e]
    /\ \A e \in new : covers'[e] \subseteq (outstanding \cup new) \ {e}

(* Events are answered, after what they cover or together with it.         *)
Answer(done) ==
    /\ answered \subseteq answered'
    /\ outstanding' \cap answered' = {}
    /\ \A e \in done : covers'[e] \subseteq answered'

Next == Arrive(Known' \ Known) /\ Answer(answered' \ answered)

Spec == Init /\ [][Next]_vars
=============================================================================
