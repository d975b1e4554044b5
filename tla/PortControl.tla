----------------------------- MODULE PortControl ------------------------------
(***************************************************************************)
(* A port of a router (portControl.cc) with the basic output arbitration   *)
(* (output_arb_basic.h): an input and an output buffer for each VC.  The   *)
(* arbitration may favour any VC.  Link adaptation (SAI), congestion       *)
(* control and control packets are off.                                    *)
(***************************************************************************)
EXTENDS LinkControl

CONSTANT RouterOut      \* flits that an output buffer of a router holds

ASSUME RouterOutAssumption == RouterOut \in Nat

VARIABLE pc     \* [port end]: the PortControl

(* After init: each side has told the other of its buffers.  An endpoint   *)
(* gives credits for VNs.                                                  *)
NewPortControl(port) ==
    [input_buf        |-> [v \in VCs |-> <<>>],
     output_buf       |-> [v \in VCs |-> <<>>],
     xbar_in_credits  |-> [v \in VCs |-> RouterOut],
     port_out_credits |-> [v \in VCs |-> IF ~isHost(port) THEN RouterIn
                                         ELSE IF v \in VNs THEN NicIn ELSE 0],
     waiting          |-> TRUE,
     timers           |-> 0]

Routed(port, ev) ==
    [ev EXCEPT !.h = CHOOSE q \in route_packet(Alg, port[2], port[3], ev.h) : TRUE]
RouteHead(port, q) == IF q = <<>> THEN q ELSE <<Routed(port, Head(q))>> \o Tail(q)

(* The event as the input buffer keeps it: process_input, for one that     *)
(* comes from an endpoint.                                                 *)
Received(port, ev) ==
    IF isHost(port)
    THEN [route |-> ev.route, seq |-> ev.seq,
          h |-> CHOOSE q \in process_input(Alg, port[2], ev.route[2], VN(ev)) : TRUE]
    ELSE ev

(* The crossbar's side: the first event of a VC leaves, the next one is    *)
(* routed.                                                                 *)
recv(k, port, v) == [k EXCEPT !.input_buf[v] = RouteHead(port, Tail(@))]
ReturnVC(port, ev, v) == IF isHost(port) THEN VN(ev) ELSE v

(* Mutations: the output buffer is not charged; the output sleeps on.      *)
sendNoCharge(k, ev) == Woken([k EXCEPT !.output_buf[ev.h.vc] = Append(@, ev)])
sendNoWake(k, ev) == [k EXCEPT !.xbar_in_credits[ev.h.vc] = @ - Size(ev),
                               !.output_buf[ev.h.vc] = Append(@, ev)]

send(k, ev) ==
    Woken([k EXCEPT !.xbar_in_credits[ev.h.vc] = @ - Size(ev),
                    !.output_buf[ev.h.vc] = Append(@, ev)])

(* Mutation: a packet may not fill the buffer.                             *)
spaceToSendMore(port, v, n) == pc[port].xbar_in_credits[v] > n

spaceToSend(port, v, n) == pc[port].xbar_in_credits[v] >= n

(* The link's side: handle_input_n2r and handle_input_r2r. *)
PCCredit(port) ==
    LET c == Head(credit[port])
    IN  /\ credit[port] # <<>>
        /\ credit' = [credit EXCEPT ![port] = Tail(@)]
        /\ pc' = [pc EXCEPT ![port] = Woken([pc[port] EXCEPT !.port_out_credits[c.vc] = @ + c.credits])]
        /\ UNCHANGED <<data, lc>>

PCPacket(port) ==
    LET ev == Received(port, Head(data[port]))
    IN  /\ data[port] # <<>>
        /\ data' = [data EXCEPT ![port] = Tail(@)]
        /\ pc' = [pc EXCEPT ![port].input_buf[ev.h.vc] =
                     IF @ = <<>> THEN <<Routed(port, ev)>> ELSE Append(@, ev)]
        /\ UNCHANGED <<credit, lc>>

(* handle_output *)
CreditVC(port, v, ev) == IF isHost(port) THEN VN(ev) ELSE v

arbitrate(port) == LET k == pc[port] IN
    {v \in VCs : /\ k.output_buf[v] # <<>>
                 /\ LET ev == Head(k.output_buf[v])
                    IN  k.port_out_credits[CreditVC(port, v, ev)] >= Size(ev)}

(* A packet that leaves the network loses its header. *)
Sent(port, ev) == IF isHost(port) THEN Event(ev.route, ev.seq) ELSE ev

PCOutput(port) ==
    LET k == pc[port]
    IN  /\ k.timers > 0
        /\ \/ \E v \in arbitrate(port) :
                 LET ev == Head(k.output_buf[v])
                 IN  /\ pc' = [pc EXCEPT ![port] =
                                  [k EXCEPT !.output_buf[v] = Tail(@),
                                            !.xbar_in_credits[v] = @ + Size(ev),
                                            !.port_out_credits[v] = @ - Size(ev)]]
                     /\ data' = sendData(data, Other[port], Sent(port, ev))
           \/ /\ arbitrate(port) = {}
              /\ pc' = [pc EXCEPT ![port] = [k EXCEPT !.waiting = TRUE, !.timers = @ - 1]]
              /\ UNCHANGED data
        /\ UNCHANGED <<credit, lc>>
=============================================================================
