------------------------------ MODULE MerlinLink ------------------------------
(***************************************************************************)
(* The links of a merlin network.  A link is two-way; each way is named by *)
(* its receiving end, an endpoint's LinkControl or a router's port.        *)
(* Packets and credits are two streams: a credit is sent with a delay of   *)
(* one cycle and may be overtaken by a packet, or be late.                 *)
(***************************************************************************)
EXTENDS MerlinTopology

CONSTANTS Alg,          \* topology and routing algorithm
          NumVNs,
          Flits,        \* per VN: flits of a packet
          Routes        \* triples <<src, dst, vn>> that communicate

ASSUME LinkAssumption ==
    /\ Alg \in {"DOR", "torus"} /\ NumVNs \in Nat \ {0}
    /\ Flits \in [0 .. NumVNs - 1 -> Nat \ {0}]
    /\ Routes \subseteq Endpoints \X Endpoints \X (0 .. NumVNs - 1)

VARIABLES data, credit  \* per receiving end: what is on its way to it

VNs == 0 .. NumVNs - 1
VCs == 0 .. NumVNs * getVCsPerVN(Alg) - 1

NicEnd(e)     == <<"nic", e>>
PortEnd(r, p) == <<"port", r, p>>
HostPort(e)   == PortEnd(get_dest_router(e), LocalPortStart(Alg) + (e % LocalPorts))
Ports         == {PortEnd(r, p) : r \in Routers, p \in 0 .. LocalPortStart(Alg) + LocalPorts - 1}
Nics          == {NicEnd(e) : e \in Endpoints}
Ends          == Nics \cup Ports

HostPorts    == {x \in Ports : isHostPort(Alg, x[3])}
isHost(port) == port \in HostPorts
Other == [end \in Ends |->
    CASE end[1] = "nic" -> HostPort(end[2])
      [] isHost(end)    -> NicEnd(getEndpointID(Alg, end[2], end[3]))
      [] OTHER          -> LET o == Peer(Alg, end[2], end[3]) IN PortEnd(o[1], o[2])]

(* A RtrEvent is named by its route and its position there; inside the     *)
(* network it has a header.                                                *)
Event(rt, n)     == [route |-> rt, seq |-> n]
VN(ev)           == ev.route[3]
Size(ev)         == Flits[VN(ev)]
Credit(vc, n)    == [vc |-> vc, credits |-> n]

sendData(d, to, ev)  == [d EXCEPT ![to] = Append(@, ev)]
sendCredit(c, to, e) == [c EXCEPT ![to] = Append(@, e)]

LinkInit == /\ data = [x \in Ends |-> <<>>]
            /\ credit = [x \in Ends |-> <<>>]
=============================================================================
