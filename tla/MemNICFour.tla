------------------------------ MODULE MemNICFour ------------------------------
(***************************************************************************)
(* The memory NIC that spreads its traffic over several networks           *)
(* (memNICFour.cc, drainQueue of memNICBase.h): events overtake each other *)
(* on the way, and tags restore the order between two NICs.                *)
(*                                                                         *)
(* The networks are external (SimpleNetwork): they lose and copy nothing,  *)
(* but deliver in any order.                                               *)
(***************************************************************************)
EXTENDS Naturals, Sequences, FiniteSets

CONSTANTS Nics,         \* network interfaces
          Routes,       \* pairs <<src, dst>> of NICs that communicate
          Nets,         \* REQ, ACK, FWD, DATA
          LinkSpace,    \* packets a link control's output buffer holds
          MaxSend       \* events sent on a route (bound)

ASSUME RouteAssumption == Routes \subseteq Nics \X Nics
ASSUME BoundAssumption == LinkSpace \in Nat \ {0} /\ MaxSend \in Nat

VARIABLES sendQueue,    \* [nic][net]: packets waiting for their link control
          out,          \* [nic][net]: packets in the link control's buffer
          wire,         \* packets in the networks
          sendTags,     \* [route]: the next tag at the source
          recvTags,     \* [route]: the tag expected at the destination
          orderBuffer,  \* [route]: packets that arrived too early
          recvQueue,    \* [nic]: packets in order, to be handed over
          clockOn,      \* [nic]
          delivered     \* [route]: tags handed to the parent component

vars == <<sendQueue, out, wire, sendTags, recvTags, orderBuffer, recvQueue,
          clockOn, delivered>>

(* Mutation: the tag is read before sendTags is set up. *)
PacketMinus1(r, t) == [route |-> r, tag |-> t - 1]

(* An OrderedMemRtrEvent in its network request. *)
Packet(r, t) == [route |-> r, tag |-> t]
Dst(p) == p.route[2]

Init == /\ sendQueue = [n \in Nics |-> [k \in Nets |-> <<>>]]
        /\ out = [n \in Nics |-> [k \in Nets |-> {}]]
        /\ wire = {}
        /\ sendTags = [r \in Routes |-> 0]
        /\ recvTags = [r \in Routes |-> 0]
        /\ orderBuffer = [r \in Routes |-> {}]
        /\ recvQueue = [n \in Nics |-> <<>>]
        /\ clockOn = [n \in Nics |-> TRUE]
        /\ delivered = [r \in Routes |-> <<>>]

(* Mutation: a link with room for exactly one packet is taken for full. *)
AcceptedLess(q, o) == LET room == LinkSpace - Cardinality(o) - 1
                      IN  IF Len(q) < room THEN Len(q) ELSE IF room < 0 THEN 0 ELSE room

(* drainQueue: the first packets of q, as many as there is space for.      *)
Accepted(q, o) == LET room == LinkSpace - Cardinality(o)
                       IN  IF Len(q) < room THEN Len(q) ELSE room
drainQueue(q, o) == SubSeq(q, Accepted(q, o) + 1, Len(q))
drainedInto(q, o) == o \cup {q[i] : i \in 1 .. Accepted(q, o)}

(* Mutation: a packet that could not leave does not start the clock. *)
SendOnNoClock(n, k, p) ==
    LET q     == Append(sendQueue[n][k], p)
        first == Len(q) = 1
        rest  == IF first THEN drainQueue(q, out[n][k]) ELSE q
    IN  /\ sendQueue' = [sendQueue EXCEPT ![n][k] = rest]
        /\ out' = [out EXCEPT ![n][k] = IF first THEN drainedInto(q, @) ELSE @]
        /\ UNCHANGED clockOn

(* A packet goes out at once only when no other waits for its network;     *)
(* the clock starts when it could not.                                     *)
SendOn(n, k, p) ==
    LET q     == Append(sendQueue[n][k], p)
        first == Len(q) = 1
        rest  == IF first THEN drainQueue(q, out[n][k]) ELSE q
    IN  /\ sendQueue' = [sendQueue EXCEPT ![n][k] = rest]
        /\ out' = [out EXCEPT ![n][k] = IF first THEN drainedInto(q, @) ELSE @]
        /\ clockOn' = [clockOn EXCEPT ![n] = @ \/ Len(rest) = 1]

send(r, k) ==
    /\ sendTags[r] < MaxSend
    /\ SendOn(r[1], k, Packet(r, sendTags[r]))
    /\ sendTags' = [sendTags EXCEPT ![r] = @ + 1]
    /\ UNCHANGED <<wire, recvTags, orderBuffer, recvQueue, delivered>>

(* The link control puts a packet on the network. *)
Inject(n, k) == \E p \in out[n][k] :
    /\ out' = [out EXCEPT ![n][k] = @ \ {p}]
    /\ wire' = wire \cup {p}
    /\ UNCHANGED <<sendQueue, sendTags, recvTags, orderBuffer, recvQueue, clockOn, delivered>>

(* recvNotify: the parent's handler gets the packet. *)
recvNotify(p) == delivered' = [delivered EXCEPT ![p.route] = Append(@, p.tag)]

(* Mutation: the packets that waited for this one are left behind. *)
NextMissingNoPull(tags, t) == t

(* The first tag from t on that is not in the order buffer.                *)
NextMissing(tags, t) == CHOOSE m \in t .. t + Cardinality(tags) :
                           m \notin tags /\ t .. m - 1 \subseteq tags
Run(r, from, to) == [i \in 1 .. to - from |-> Packet(r, from + i - 1)]

(* Mutation: the packet overtakes the ones that wait to be handed over. *)
InOrderOvertake(n, p) ==
    LET r    == p.route
        upTo == NextMissing(orderBuffer[r], p.tag + 1)
    IN  /\ p.tag = recvTags[r]
        /\ recvNotify(p)
        /\ recvQueue' = [recvQueue EXCEPT ![n] = @ \o Run(r, p.tag + 1, upTo)]
        /\ orderBuffer' = [orderBuffer EXCEPT ![r] = @ \ (p.tag + 1 .. upTo - 1)]
        /\ recvTags' = [recvTags EXCEPT ![r] = upTo]

(* doRecv of the expected tag: it is handed over now, unless others wait   *)
(* before it; one event is handed over per packet received.  Whatever it   *)
(* was keeping back joins the queue.                                       *)
InOrder(n, p) ==
    LET r    == p.route
        q    == Append(recvQueue[n], p)
        upTo == NextMissing(orderBuffer[r], p.tag + 1)
    IN  /\ p.tag = recvTags[r]
        /\ recvNotify(Head(q))
        /\ recvQueue' = [recvQueue EXCEPT ![n] = Tail(q) \o Run(r, p.tag + 1, upTo)]
        /\ orderBuffer' = [orderBuffer EXCEPT ![r] = @ \ (p.tag + 1 .. upTo - 1)]
        /\ recvTags' = [recvTags EXCEPT ![r] = upTo]

OutOfOrder(p) ==
    /\ p.tag # recvTags[p.route]
    /\ orderBuffer' = [orderBuffer EXCEPT ![p.route] = @ \cup {p.tag}]
    /\ UNCHANGED <<recvTags, recvQueue, delivered>>

doRecv(p) ==
    /\ p \in wire
    /\ wire' = wire \ {p}
    /\ InOrder(Dst(p), p) \/ OutOfOrder(p)
    /\ clockOn' = [clockOn EXCEPT ![Dst(p)] = @ \/ recvQueue'[Dst(p)] # <<>>]
    /\ UNCHANGED <<sendQueue, out, sendTags>>

(* One cycle: drain every queue, hand over one event, stop when idle.      *)
clock(n) ==
    /\ clockOn[n]
    /\ sendQueue' = [sendQueue EXCEPT ![n] = [k \in Nets |-> drainQueue(@[k], out[n][k])]]
    /\ out' = [out EXCEPT ![n] = [k \in Nets |-> drainedInto(sendQueue[n][k], @[k])]]
    /\ IF recvQueue[n] = <<>>
       THEN UNCHANGED <<recvQueue, delivered>>
       ELSE /\ recvNotify(Head(recvQueue[n]))
            /\ recvQueue' = [recvQueue EXCEPT ![n] = Tail(@)]
    /\ clockOn' = [clockOn EXCEPT ![n] =
                      \/ recvQueue'[n] # <<>>
                      \/ \E k \in Nets : sendQueue'[n][k] # <<>>]
    /\ UNCHANGED <<wire, sendTags, recvTags, orderBuffer>>

AllSent == \A r \in Routes : sendTags[r] = MaxSend
AllHandedOver == \A r \in Routes : Len(delivered[r]) = sendTags[r]
Stop == /\ AllSent /\ AllHandedOver /\ \A n \in Nics : ~clockOn[n]
        /\ UNCHANGED vars

Next == \/ \E r \in Routes, k \in Nets : send(r, k)
        \/ \E n \in Nics, k \in Nets : Inject(n, k)
        \/ \E p \in wire : doRecv(p)
        \/ \E n \in Nics : clock(n)
        \/ Stop

(* A registered clock ticks; the networks deliver every packet.            *)
Fairness ==
    /\ \A n \in Nics : WF_vars(clock(n))
    /\ \A n \in Nics, k \in Nets : WF_vars(Inject(n, k))
    /\ \A r \in Routes, t \in 0 .. MaxSend : WF_vars(doRecv(Packet(r, t)))

Spec == Init /\ [][Next]_vars /\ Fairness

-----------------------------------------------------------------------------
(* Every variable has the shape its type in the code gives it. *)
NetPacket == [route : Routes, tag : Nat]
TypeOK ==
    /\ sendQueue \in [Nics -> [Nets -> Seq(NetPacket)]]
    /\ out \in [Nics -> [Nets -> SUBSET NetPacket]]
    /\ wire \subseteq NetPacket
    /\ sendTags \in [Routes -> Nat] /\ recvTags \in [Routes -> Nat]
    /\ orderBuffer \in [Routes -> SUBSET Nat]
    /\ recvQueue \in [Nics -> Seq(NetPacket)]
    /\ clockOn \in [Nics -> BOOLEAN]
    /\ delivered \in [Routes -> Seq(Nat)]

(* No lost wake-up: a NIC that holds something to send or to hand over has *)
(* its clock running (clock() of memNICFour.cc unregisters itself).        *)
NicClockRunning == \A n \in Nics :
    (recvQueue[n] # <<>> \/ \E k \in Nets : sendQueue[n][k] # <<>>) => clockOn[n]

(* The order buffer holds only packets from the future, and never the one  *)
(* that is expected next: that one would wait for ever.                    *)
NoStuckPacket == \A r \in Routes : \A t \in orderBuffer[r] :
    recvTags[r] < t /\ t < sendTags[r]

(* What the NICs promise: each route is an ordered channel.                *)
Channel == INSTANCE OrderedChannel WITH sent <- sendTags
ChannelSpec == Channel!Spec

(* Every event sent is handed over in the end, however the networks mix    *)
(* the packets and whenever the clock stops.                               *)
AllDelivered == \A r \in Routes, t \in 1 .. MaxSend :
    sendTags[r] >= t ~> Len(delivered[r]) >= t
=============================================================================
