----------------------------- MODULE LinkControl ------------------------------
(***************************************************************************)
(* The network interface of an endpoint (linkControl.cc): an output queue  *)
(* for each VN, drained one packet at a time by a timer, and input queues  *)
(* that the endpoint empties.  Each VN maps to itself; congestion control  *)
(* is off, as by default.  Time is left out: a pending output_timing event *)
(* may come at any moment.                                                 *)
(***************************************************************************)
EXTENDS MerlinLink

CONSTANTS NicIn, NicOut,    \* flits that a queue of an endpoint holds
          RouterIn          \* flits that an input buffer of a router holds

(* A packet that does not fit in a router's buffer is never sent.          *)
ASSUME BufferAssumption ==
    NicIn \in Nat /\ NicOut \in Nat /\ RouterIn \in Nat /\ \A v \in VNs : Flits[v] <= RouterIn

VARIABLE lc     \* [end]: the LinkControl

NewLinkControl ==
    [output_queues  |-> [v \in VNs |-> <<>>],
     credits        |-> [v \in VNs |-> NicOut],
     router_credits |-> [v \in VNs |-> RouterIn],
     input_queues   |-> [v \in VNs |-> <<>>],
     waiting        |-> TRUE,
     have_packets   |-> FALSE,
     curr_out_vn    |-> 0,
     timers         |-> 0]      \* output_timing events on their way

(* Mutation: a wake-up leaves waiting set.                                 *)
WokenStillWaiting(k) == IF k.waiting THEN [k EXCEPT !.timers = @ + 1] ELSE k

(* output_timing->send, of a LinkControl or a PortControl that waits.      *)
Woken(k) == IF k.waiting THEN [k EXCEPT !.timers = @ + 1, !.waiting = FALSE] ELSE k

(* send: refused without space; wakes the output only if it had nothing    *)
(* to send when it went to sleep.                                          *)
LCSend(n, ev) ==
    LET k == lc[n]
        q == [k EXCEPT !.credits[VN(ev)] = @ - Size(ev),
                       !.output_queues[VN(ev)] = Append(@, ev)]
    IN  /\ k.credits[VN(ev)] >= Size(ev)
        /\ lc' = [lc EXCEPT ![n] = IF k.have_packets THEN q ELSE Woken(q)]
        /\ UNCHANGED <<data, credit>>

(* recv: the endpoint takes a packet and its room goes back to the router. *)
LCRecv(n, v) ==
    LET ev == Head(lc[n].input_queues[v])
    IN  /\ lc[n].input_queues[v] # <<>>
        /\ lc' = [lc EXCEPT ![n].input_queues[v] = Tail(@)]
        /\ credit' = sendCredit(credit, Other[n], Credit(v, Size(ev)))
        /\ UNCHANGED data

(* handle_input *)
LCCredit(n) ==
    LET c == Head(credit[n])
    IN  /\ credit[n] # <<>>
        /\ credit' = [credit EXCEPT ![n] = Tail(@)]
        /\ lc' = [lc EXCEPT ![n] = Woken([lc[n] EXCEPT !.router_credits[c.vc] = @ + c.credits])]
        /\ UNCHANGED data

(* Mutation: the packet is put in front of the ones that wait.             *)
LCPacketFront(n) ==
    LET ev == Head(data[n])
    IN  /\ data[n] # <<>>
        /\ data' = [data EXCEPT ![n] = Tail(@)]
        /\ lc' = [lc EXCEPT ![n].input_queues[VN(ev)] = <<ev>> \o @]
        /\ UNCHANGED credit

LCPacket(n) ==
    LET ev == Head(data[n])
    IN  /\ data[n] # <<>>
        /\ data' = [data EXCEPT ![n] = Tail(@)]
        /\ lc' = [lc EXCEPT ![n].input_queues[VN(ev)] = Append(@, ev)]
        /\ UNCHANGED credit

(* handle_output: round robin over the VNs, from curr_out_vn on. *)
Sendable(k) == {v \in VNs : /\ k.output_queues[v] # <<>>
                            /\ k.router_credits[v] >= Size(Head(k.output_queues[v]))}
Turn(k, v)  == (v + NumVNs - k.curr_out_vn) % NumVNs

LCOutput(n) ==
    LET k == [lc[n] EXCEPT !.have_packets = \E v \in VNs : lc[n].output_queues[v] # <<>>]
    IN  /\ k.timers > 0
        /\ \/ \E v \in Sendable(k) :
                 LET ev == Head(k.output_queues[v])
                 IN  /\ \A w \in Sendable(k) : Turn(k, v) <= Turn(k, w)
                     /\ lc' = [lc EXCEPT ![n] =
                                  [k EXCEPT !.output_queues[v] = Tail(@),
                                            !.credits[v] = @ + Size(ev),
                                            !.router_credits[v] = @ - Size(ev),
                                            !.curr_out_vn = (v + 1) % NumVNs]]
                     /\ data' = sendData(data, Other[n], ev)
           \/ /\ Sendable(k) = {}
              /\ lc' = [lc EXCEPT ![n] = [k EXCEPT !.waiting = TRUE, !.timers = @ - 1]]
              /\ UNCHANGED data
        /\ UNCHANGED credit
=============================================================================
