---------------------------- MODULE MerlinRouting -----------------------------
(***************************************************************************)
(* One packet on its way from an endpoint to another, through routers that *)
(* share nothing but the wiring: what route_packet of each topology does   *)
(* from hop to hop.                                                        *)
(***************************************************************************)
EXTENDS MerlinTopology

CONSTANTS Algs,         \* the topologies and algorithms to run
          VNs           \* virtual networks

ASSUME AlgAssumption == Algs \subseteq Algorithms /\ VNs \subseteq Nat

VARIABLES alg, pkt,
          at, port,     \* the router the packet is in, and how it came in
          origin,       \* the router it entered the network at
          channel,      \* the last link and VC it crossed
          hops, arrived

vars == <<alg, pkt, at, port, origin, channel, hops, arrived>>

NoChannel == <<>>

Init == /\ alg \in Algs
        /\ at \in Routers
        /\ \E src, dst \in Endpoints, vn \in VNs :
              /\ src # dst /\ get_dest_router(src) = at
              /\ port = LocalPortStart(alg) + (src % LocalPorts)
              /\ pkt \in process_input(alg, at, dst, vn)
        /\ origin = at
        /\ channel = NoChannel
        /\ hops = 0 /\ arrived = FALSE

(* The packet is routed and crosses the link to the next router. *)
Hop == /\ ~arrived
       /\ pkt' \in route_packet(alg, at, port, pkt)
       /\ ~isHostPort(alg, pkt'.next)
       /\ at' = Peer(alg, at, pkt'.next)[1]
       /\ port' = Peer(alg, at, pkt'.next)[2]
       /\ channel' = <<at, pkt'.next, pkt'.vc>>
       /\ hops' = hops + 1
       /\ UNCHANGED <<alg, origin, arrived>>

(* It is routed to a host port and leaves the network. *)
Eject == /\ ~arrived
         /\ pkt' \in route_packet(alg, at, port, pkt)
         /\ isHostPort(alg, pkt'.next)
         /\ arrived' = TRUE
         /\ port' = pkt'.next
         /\ UNCHANGED <<alg, at, origin, channel, hops>>

Done == arrived /\ UNCHANGED vars

Next == Hop \/ Eject \/ Done

Spec == Init /\ [][Next]_vars

-----------------------------------------------------------------------------
(* The VC that a packet is on is one of its VN's, so that the router's     *)
(* arrays, of getVCsPerVN entries for each VN, have a place for it and no  *)
(* VN uses the buffers of another.  A mesh is exempt: it says 1 and uses 2.*)
VCInRange == alg # "mesh" =>
    pkt.vc \in pkt.vn * getVCsPerVN(alg) .. (pkt.vn + 1) * getVCsPerVN(alg) - 1

(* A packet leaves the network at the endpoint it is for: the routers'     *)
(* idea of where a port leads agrees with the wiring.                      *)
DeliveredRight == arrived => getEndpointID(alg, at, port) = pkt.dst

(* A numbering of the channels <<router, port, vc>> for each algorithm.    *)
Position(r, p) == LET d == PortDim(p) IN
    IF PortUp(p) THEN Location(r)[d] ELSE (Shape[d] - Location(r)[d]) % Shape[d]
HyperXDim(p) == CHOOSE d \in Dims : HyperXStart[d] <= p /\ p < HyperXStart[d + 1]

Number(c) ==
    CASE alg \in Grids               -> <<PortDim(c[2]), c[3] % 2, Position(c[1], c[2])>>
      [] alg \in {"DOR", "valiant"}  -> <<c[3], HyperXDim(c[2]), 0>>
      [] alg = "DOAL"                -> <<HyperXDim(c[2]), 1 - (c[3] % 2), 0>>
      [] alg \in {"MIN-A", "VDAL"}   -> <<c[3], 0, 0>>
Less(m, n) == \/ m[1] < n[1]
              \/ m[1] = n[1] /\ m[2] < n[2]
              \/ m[1] = n[1] /\ m[2] = n[2] /\ m[3] < n[3]

(* Routing cannot deadlock: the channels can be numbered so that a packet  *)
(* always asks for one with a higher number than the one it holds, so no   *)
(* set of packets waits in a circle.                                       *)
ChannelOrder == [][channel' # channel /\ channel # NoChannel
                      => Less(Number(channel), Number(channel'))]_vars

(* A packet takes a shortest path; DOAL may make a detour in each          *)
(* dimension, VDAL one for each VC it has left, and valiant goes by the    *)
(* midpoint.                                                               *)
ShortPath == arrived =>
    LET to == get_dest_router(pkt.dst)
    IN  hops <= CASE alg = "DOAL"    -> 2 * Distance(alg, origin, to)
                  [] alg = "VDAL"    -> getVCsPerVN(alg)
                  [] alg = "valiant" -> Distance(alg, origin, pkt.mid) + Distance(alg, pkt.mid, to)
                  [] OTHER           -> Distance(alg, origin, to)
=============================================================================
