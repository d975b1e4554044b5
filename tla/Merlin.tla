-------------------------------- MODULE Merlin --------------------------------
(***************************************************************************)
(* A merlin network: endpoints with a LinkControl each, and hr_routers     *)
(* (hr_router.cc) that move packets between their ports, as many per clock *)
(* cycle as the crossbar lets them.  The crossbar arbitration may be any   *)
(* that leaves no packet behind that could move.                           *)
(***************************************************************************)
EXTENDS PortControl

CONSTANT MaxSend        \* packets sent, per route (bound)

VARIABLES rtr,          \* [router]: clock, count of VCs with data, busy ports
          sent,         \* [route]: packets given to the LinkControl
          delivered     \* [route]: packets received, by position

vars == <<data, credit, lc, pc, rtr, sent, delivered>>

PortNumbers == 0 .. LocalPortStart(Alg) + LocalPorts - 1

Init == /\ LinkInit
        /\ lc = [n \in Nics |-> NewLinkControl]
        /\ pc = [p \in Ports |-> NewPortControl(p)]
        /\ rtr = [r \in Routers |->
                     [clocking |-> TRUE, vcs_with_data |-> 0,
                      in_port_busy  |-> [p \in PortNumbers |-> 0],
                      out_port_busy |-> [p \in PortNumbers |-> 0]]]
        /\ sent = [rt \in Routes |-> 0]
        /\ delivered = [rt \in Routes |-> <<>>]

Less(n, k) == IF n < k THEN 0 ELSE n - k

(* The endpoints. *)
Send(rt) ==
    /\ sent[rt] < MaxSend[rt]
    /\ LCSend(NicEnd(rt[1]), Event(rt, sent[rt]))
    /\ sent' = [sent EXCEPT ![rt] = @ + 1]
    /\ UNCHANGED <<pc, rtr, delivered>>

Recv(n, v) ==
    /\ LCRecv(n, v)
    /\ LET ev == Head(lc[n].input_queues[v])
       IN  delivered' = [delivered EXCEPT ![ev.route] = Append(@, ev.seq)]
    /\ UNCHANGED <<pc, rtr, sent>>

Nic(n) == /\ LCCredit(n) \/ LCPacket(n) \/ LCOutput(n)
          /\ UNCHANGED <<pc, rtr, sent, delivered>>

(* notifyEvent: the clock is on again, and the busy counters make up for   *)
(* the cycles that passed.                                                 *)
notifyEvent(k) ==
    IF k.clocking THEN {k}
    ELSE {[k EXCEPT !.clocking = TRUE,
                    !.in_port_busy  = [p \in PortNumbers |-> Less(@[p], elapsed)],
                    !.out_port_busy = [p \in PortNumbers |-> Less(@[p], elapsed)]] :
             elapsed \in {1, 2}}

Packet(port) ==
    /\ PCPacket(port)
    /\ LET r    == port[2]
           head == \E v \in VCs : pc[port].input_buf[v] = <<>> /\ pc'[port].input_buf[v] # <<>>
           k    == [rtr[r] EXCEPT !.vcs_with_data = IF head THEN @ + 1 ELSE @]
       IN  \E k2 \in notifyEvent(k) : rtr' = [rtr EXCEPT ![r] = k2]
    /\ UNCHANGED <<sent, delivered>>

Port(port) == /\ PCCredit(port) \/ PCOutput(port)
              /\ UNCHANGED <<rtr, sent, delivered>>

(* What the crossbar arbitration may grant: <<port, vc>> whose head can go *)
(* to its next port, no two from or to the same port.                      *)
HeadOf(r, g) == Head(pc[PortEnd(r, g[1])].input_buf[g[2]])
Movable(r) ==
    {g \in PortNumbers \X VCs :
        /\ pc[PortEnd(r, g[1])].input_buf[g[2]] # <<>>
        /\ rtr[r].in_port_busy[g[1]] = 0
        /\ LET ev == HeadOf(r, g)
           IN  /\ rtr[r].out_port_busy[ev.h.next] = 0
               /\ spaceToSend(PortEnd(r, ev.h.next), ev.h.vc, Size(ev))}
Conflict(r, g, o) == g # o /\ (g[1] = o[1] \/ HeadOf(r, g).h.next = HeadOf(r, o).h.next)
Grants(r) ==
    {G \in SUBSET Movable(r) :
        /\ \A g, o \in G : ~Conflict(r, g, o)
        /\ \A m \in Movable(r) \ G : \E g \in G : Conflict(r, g, m)}

(* The port after the moves: its own head out of the input buffer, the     *)
(* packet for it into the output buffer.                                   *)
AfterRecv(r, p, G) ==
    IF \E g \in G : g[1] = p
    THEN LET g == CHOOSE g \in G : g[1] = p IN recv(pc[PortEnd(r, p)], PortEnd(r, p), g[2])
    ELSE pc[PortEnd(r, p)]
AfterMoves(r, p, G) ==
    IF \E g \in G : HeadOf(r, g).h.next = p
    THEN LET g == CHOOSE g \in G : HeadOf(r, g).h.next = p
         IN  send(AfterRecv(r, p, G), HeadOf(r, g))
    ELSE AfterRecv(r, p, G)

(* Every packet that moves gives its room back to the sender. *)
CreditsBack(r, G) ==
    [x \in Ends |->
        IF \E g \in G : Other[PortEnd(r, g[1])] = x
        THEN LET g  == CHOOSE g \in G : Other[PortEnd(r, g[1])] = x
                 ev == HeadOf(r, g)
             IN  Append(credit[x], Credit(ReturnVC(PortEnd(r, g[1]), ev, g[2]), Size(ev)))
        ELSE credit[x]]

(* Mutation: every move counts as the last of its VC.                      *)
EmptiedAlways(r, G) == G

Emptied(r, G) == {g \in G : Len(pc[PortEnd(r, g[1])].input_buf[g[2]]) = 1}

(* Busy from the move on, one cycle less at the end of this one. *)
BusyAfter(busy, r, portOf) ==
    [p \in PortNumbers |->
        IF \E g \in DOMAIN portOf : portOf[g] = p
        THEN Size(HeadOf(r, CHOOSE g \in DOMAIN portOf : portOf[g] = p)) - 1
        ELSE Less(busy[p], 1)]

clock_handler(r) ==
    /\ rtr[r].clocking
    /\ \/ /\ rtr[r].vcs_with_data = 0
          /\ rtr' = [rtr EXCEPT ![r].clocking = FALSE]
          /\ UNCHANGED <<pc, credit>>
       \/ /\ rtr[r].vcs_with_data # 0
          /\ \E G \in Grants(r) :
                /\ pc' = [x \in Ports |-> IF x[2] = r THEN AfterMoves(r, x[3], G) ELSE pc[x]]
                /\ credit' = CreditsBack(r, G)
                /\ rtr' = [rtr EXCEPT
                      ![r].vcs_with_data = @ - Cardinality(Emptied(r, G)),
                      ![r].in_port_busy  = BusyAfter(@, r, [g \in G |-> g[1]]),
                      ![r].out_port_busy = BusyAfter(@, r, [g \in G |-> HeadOf(r, g).h.next])]
    /\ UNCHANGED <<data, lc, sent, delivered>>

Finished == /\ \A rt \in Routes : Len(delivered[rt]) = MaxSend[rt]
            /\ \A x \in Ends : credit[x] = <<>>
            /\ \A x \in Nics : lc[x].timers = 0
            /\ \A x \in Ports : pc[x].timers = 0
            /\ \A r \in Routers : ~rtr[r].clocking
Stop == Finished /\ UNCHANGED vars

(* The event queue of the simulation: timers, links, clocks, and endpoints *)
(* that take what has arrived.                                             *)
Step == \/ \E n \in Nics, v \in VNs : Recv(n, v)
        \/ \E n \in Nics : Nic(n)
        \/ \E x \in Ports : Packet(x) \/ Port(x)
        \/ \E r \in Routers : clock_handler(r)

Next == (\E rt \in Routes : Send(rt)) \/ Step \/ Stop

Spec == Init /\ [][Next]_vars

-----------------------------------------------------------------------------
(* The sum of a sequence of numbers. *)
Total(w) == LET sum[i \in 0 .. Len(w)] == IF i = 0 THEN 0 ELSE sum[i - 1] + w[i]
            IN  sum[Len(w)]

(* A link counts by VC between routers and by VN at an endpoint.           *)
ByVN(x)        == x[1] = "nic" \/ isHost(x)
LinkClasses(x) == IF ByVN(x) THEN VNs ELSE VCs
Class(x, ev)   == IF ByVN(x) THEN VN(ev) ELSE ev.h.vc

(* Flits in a queue; flits of class v, and credits for v, on their way to  *)
(* end x.                                                                  *)
FlitsOf(q)      == Total([i \in DOMAIN q |-> Size(q[i])])
OnWire(x, v)    == LET q == data[x] IN
    Total([i \in DOMAIN q |-> IF Class(x, q[i]) = v THEN Size(q[i]) ELSE 0])
CreditsTo(x, v) == LET q == credit[x] IN
    Total([i \in DOMAIN q |-> IF q[i].vc = v THEN q[i].credits ELSE 0])

(* What the receiving end x holds, and has room for.                       *)
Held(x, v) ==
    CASE x[1] = "nic" -> FlitsOf(lc[x].input_queues[v])
      [] isHost(x)    -> FlitsOf(pc[x].input_buf[StartVC(Alg, v)])
      [] OTHER        -> FlitsOf(pc[x].input_buf[v])
Room(x) == IF x[1] = "nic" THEN NicIn ELSE RouterIn
SenderCredits(x, v) == LET o == Other[x] IN
    IF o[1] = "nic" THEN lc[o].router_credits[v] ELSE pc[o].port_out_credits[v]

(* Credits are neither lost nor made up: for every link and every VC (VN,  *)
(* between an endpoint and its router), what the sender may still send,    *)
(* what is on its way there, what is buffered there and the credits on     *)
(* their way back are together the buffer.  The same inside a router and   *)
(* inside an endpoint.                                                     *)
CreditsConserved ==
    /\ \A x \in Ends : \A v \in LinkClasses(x) :
          /\ SenderCredits(x, v) >= 0
          /\ SenderCredits(x, v) + OnWire(x, v) + Held(x, v)
                + CreditsTo(Other[x], v) = Room(x)
    /\ \A x \in Ports, v \in VCs :
          pc[x].xbar_in_credits[v] + FlitsOf(pc[x].output_buf[v]) = RouterOut
    /\ \A n \in Nics, v \in VNs :
          lc[n].credits[v] + FlitsOf(lc[n].output_queues[v]) = NicOut

(* An endpoint never holds more than its input buffers (input_buf_size).   *)
EndpointBuffers == \A n \in Nics, v \in VNs : FlitsOf(lc[n].input_queues[v]) <= NicIn

(* An output sends one packet at a time: it either sleeps or has exactly   *)
(* one output_timing event on its way, whatever wakes it.                  *)
OneTimer == /\ \A n \in Nics : lc[n].timers = IF lc[n].waiting THEN 0 ELSE 1
            /\ \A x \in Ports : pc[x].timers = IF pc[x].waiting THEN 0 ELSE 1

(* No lost wake-up: a port that sleeps has nothing that it could send, and *)
(* an endpoint's output that sleeps had only packets without credits when  *)
(* it went to sleep, for which credits will come.                          *)
NoLostWakeup ==
    /\ \A x \in Ports : pc[x].waiting => arbitrate(x) = {}
    /\ \A n \in Nics : lc[n].waiting /\ Sendable(lc[n]) # {} =>
          \E v \in VNs : lc[n].router_credits[v] < RouterIn /\ lc[n].output_queues[v] # <<>>

(* A router that has stopped its clock has no packet in its input buffers, *)
(* and the count it decides by is right.                                   *)
RouterAwake == \A r \in Routers :
    /\ rtr[r].vcs_with_data =
          Cardinality({g \in PortNumbers \X VCs : pc[PortEnd(r, g[1])].input_buf[g[2]] # <<>>})
    /\ ~rtr[r].clocking => rtr[r].vcs_with_data = 0

(* What the network promises its endpoints: packets of one route arrive in *)
(* the order in which they were sent, none twice.                          *)
Channel == INSTANCE OrderedChannel
ChannelSpec == Channel!Spec

(* The network never seizes up, and drops nothing: when no timer and no    *)
(* link event is left, no endpoint has a packet to take and no router can  *)
(* move one, everything sent has been delivered.  (Every other step moves  *)
(* a packet or a credit on, so a run that goes on gets here.)              *)
Quiescent ==
    /\ \A x \in Ends : data[x] = <<>> /\ credit[x] = <<>>
    /\ \A n \in Nics : lc[n].timers = 0 /\ \A v \in VNs : lc[n].input_queues[v] = <<>>
    /\ \A x \in Ports : pc[x].timers = 0
    /\ \A r \in Routers : /\ Movable(r) = {}
                           /\ \A p \in PortNumbers : rtr[r].in_port_busy[p] = 0 /\ rtr[r].out_port_busy[p] = 0
NoDeadlock == Quiescent => \A rt \in Routes : Len(delivered[rt]) = sent[rt]
=============================================================================
