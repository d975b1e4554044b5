-------------------------- MODULE MerlinRoutingProofs --------------------------
(***************************************************************************)
(* Proofs about a packet's way through a merlin network, for every shape,  *)
(* every number of endpoints per router and every routing algorithm.       *)
(***************************************************************************)
EXTENDS MerlinRouting, MerlinTopologyProofs

-----------------------------------------------------------------------------
(* The inductive invariant.  A packet that has crossed no link is at a     *)
(* host port.                                                              *)
Packets == [dst : Endpoints, vn : VNs, vc : Nat, dim : 0 .. Len(Shape), mid : Routers,
            val : BOOLEAN, next : Nat]

TypeOK == /\ alg \in Algs /\ pkt \in Packets /\ at \in Routers /\ port \in Nat
          /\ arrived \in BOOLEAN
          /\ channel = NoChannel \/ channel \in Routers \X Nat \X Nat

FromHostOK == /\ ~arrived => (isHostPort(alg, port) <=> channel = NoChannel)
              /\ channel # NoChannel => ~isHostPort(alg, channel[2])

Target    == get_dest_router(pkt.dst)
FirstVC   == StartVC(alg, pkt.vn)
Aligned(d, to) == Location(at)[d] = Location(to)[d]

(* A packet is on the VC of the channel that it came by, at first on the   *)
(* first VC of its VN.                                                     *)
VCOK == pkt.vc = IF channel = NoChannel THEN FirstVC ELSE channel[3]

(* Torus and mesh: the dimensions before the current one are done.  A      *)
(* packet keeps its direction in a dimension, and once it is on the odd VC *)
(* it does not come to location 0 again.                                   *)
Behind(x, z, up) == IF up THEN x < z ELSE x = 0 \/ z < x

OnItsWay(d, up, x) ==
    LET n == Shape[d]
        y == Location(at)[d]
        z == Location(Target)[d]
    IN  /\ y = Around(x, n, up)
        /\ y # z => goUp(alg, y, z, n) = up
        /\ pkt.vc % 2 = 1 => Behind(x, z, up)

GridOK == alg \in Grids =>
    /\ pkt.dim \in Dims /\ pkt.vc \in {FirstVC, FirstVC + 1}
    /\ \A e \in Dims : e < pkt.dim => Aligned(e, Target)
    /\ channel # NoChannel =>
          /\ PortDim(channel[2]) = pkt.dim
          /\ OnItsWay(pkt.dim, PortUp(channel[2]), Location(channel[1])[pkt.dim])

(* Dimension order: what is before the port of the last hop is done, and   *)
(* that dimension too.                                                     *)
DoneTo(p, to) == \A d \in Dims : InDim(d, p) => \A e \in Dims : e <= d => Aligned(e, to)

DOROK == alg = "DOR" => pkt.vc = FirstVC /\ (channel # NoChannel => DoneTo(channel[2], Target))

ValiantOK == alg = "valiant" =>
    /\ pkt.vc \in {FirstVC, FirstVC + 1}
    /\ ~pkt.val => pkt.vc = FirstVC
    /\ channel # NoChannel => DoneTo(channel[2], IF pkt.val THEN Target ELSE pkt.mid)

(* A detour is on the second VC and leaves its dimension to be done.       *)
DOALOK == alg = "DOAL" =>
    /\ pkt.vc \in {FirstVC, FirstVC + 1}
    /\ channel # NoChannel => \A d \in Dims : InDim(d, channel[2]) =>
          /\ \A e \in Dims : e < d => Aligned(e, Target)
          /\ Aligned(d, Target) <=> pkt.vc = FirstVC

(* There is a VC left for every dimension that is not aligned.             *)
AdaptiveOK == alg \in {"MIN-A", "VDAL"} =>
    /\ pkt.vc \in FirstVC .. FirstVC + getVCsPerVN(alg) - 1
    /\ Cardinality(Unaligned(at, Target)) + NextVC(pkt, FirstVC, channel = NoChannel)
          <= FirstVC + getVCsPerVN(alg)

PathOK == GridOK /\ DOROK /\ ValiantOK /\ DOALOK /\ AdaptiveOK

(* The links that a packet has crossed and those before it.  A detour of   *)
(* DOAL is paid for by the VC that it is on; MIN-A and VDAL count on the   *)
(* VC.                                                                     *)
HopsOK ==
    /\ hops \in Nat /\ origin \in Routers
    /\ alg \in Grids \cup {"DOR", "MIN-A"} =>
          hops + Distance(alg, at, Target) <= Distance(alg, origin, Target)
    /\ alg = "DOAL" =>
          hops + 2 * Distance(alg, at, Target) <= 2 * Distance(alg, origin, Target) + (pkt.vc - FirstVC)
    /\ alg = "valiant" =>
          hops + (IF pkt.val THEN Distance(alg, at, Target)
                  ELSE Distance(alg, at, pkt.mid) + Distance(alg, pkt.mid, Target))
             <= Distance(alg, origin, pkt.mid) + Distance(alg, pkt.mid, Target)
    /\ alg = "VDAL" => hops = IF channel = NoChannel THEN 0 ELSE pkt.vc - FirstVC + 1

IInv == TypeOK /\ FromHostOK /\ VCOK /\ PathOK /\ DeliveredRight /\ HopsOK /\ ShortPath

-----------------------------------------------------------------------------
(* The ranges of what the invariant speaks about.                          *)
LEMMA Ranges ==
    ASSUME TypeOK
    PROVE  /\ alg \in Algorithms /\ pkt.vn \in Nat /\ pkt.vc \in Nat /\ pkt.dst \in Endpoints
           /\ pkt.mid \in Routers /\ Target \in Routers /\ FirstVC \in Nat
<1>1. alg \in Algorithms /\ pkt.vn \in Nat /\ pkt.vc \in Nat /\ pkt.dst \in Endpoints /\ pkt.mid \in Routers
  BY AlgAssumption DEF TypeOK, Packets
<1>2. FirstVC \in Nat
  <2>1. CASE alg = "mesh"
    BY <1>1, <2>1 DEF FirstVC, StartVC
  <2>2. CASE alg # "mesh"
    BY <1>1, <2>2, VCsOfVN DEF FirstVC
  <2>3. QED BY <2>1, <2>2
<1>3. QED BY <1>1, <1>2, DestRouter DEF Target

(* The invariant bounds the VC of every packet. *)
LEMMA VCBound ==
    ASSUME TypeOK, PathOK
    PROVE  VCInRange
<1> SUFFICES ASSUME alg # "mesh"
             PROVE  pkt.vc \in pkt.vn * getVCsPerVN(alg) .. (pkt.vn + 1) * getVCsPerVN(alg) - 1
  BY DEF VCInRange
<1>1. PICK k \in Nat \ {0} : k = getVCsPerVN(alg)
  BY Ranges, VCsOfVN
<1>2. FirstVC = pkt.vn * k /\ (pkt.vn + 1) * k = FirstVC + k /\ FirstVC \in Nat /\ pkt.vc \in Nat
  BY <1>1, Ranges, VCsOfVN DEF FirstVC
<1>3. pkt.vc \in FirstVC .. FirstVC + k - 1
  <2>1. CASE alg = "DOR"
    BY <1>1, <1>2, <2>1 DEF PathOK, DOROK, getVCsPerVN
  <2>2. CASE alg \in {"torus", "valiant", "DOAL"}
    <3>1. k = 2
      BY <1>1, <2>2 DEF getVCsPerVN
    <3>2. pkt.vc \in {FirstVC, FirstVC + 1}
      BY <2>2 DEF PathOK, GridOK, ValiantOK, DOALOK, Grids
    <3>3. QED BY <1>2, <3>1, <3>2
  <2>3. CASE alg \in {"MIN-A", "VDAL"}
    BY <1>1, <2>3 DEF PathOK, AdaptiveOK
  <2>4. QED BY <2>1, <2>2, <2>3, Ranges DEF Algorithms, Grids
<1>4. QED BY <1>1, <1>2, <1>3

-----------------------------------------------------------------------------
(* A packet that is routed to the local port of its destination leaves.    *)
Local(q) == Target = at /\ q.next = LocalPortStart(alg) + (pkt.dst % LocalPorts)

(* A packet that is at its destination stays on its way out.               *)
LEMMA LocalStep ==
    ASSUME TypeOK, Hop \/ Eject, Local(pkt'), pkt'.dst = pkt.dst
    PROVE  Eject /\ DeliveredRight'
<1>1. /\ isHostPort(alg, pkt'.next)
      /\ getEndpointID(alg, at, pkt'.next) = pkt.dst
  BY Ranges, LocalPortRight DEF Local, Target
<1>2. Eject
  BY <1>1 DEF Hop
<1>3. QED BY <1>1, <1>2 DEF Eject, DeliveredRight

(* HyperX: a packet that is routed to a neighbour gets there, and comes in *)
(* by a port that is not a host's.                                         *)
Lands(d, x) ==
    /\ at' \in Routers
    /\ Location(at')[d] = x
    /\ \A e \in Dims \ {d} : Location(at')[e] = Location(at)[e]
    /\ port' \in Nat /\ ~isHostPort(alg, port')
    /\ channel' = <<at, pkt'.next, pkt'.vc>>
    /\ pkt'.next \in Nat /\ ~isHostPort(alg, pkt'.next)
    /\ alg' = alg /\ arrived' = arrived /\ arrived = FALSE
Crosses(d, x) == Lands(d, x) /\ InDim(d, pkt'.next)

(* A packet that crosses to the next router.                               *)
LEMMA CrossStep ==
    ASSUME TypeOK, alg \notin Grids, Hop \/ Eject,
           NEW d \in Dims, NEW x \in Beside(at, d), pkt'.next = offset(at, d, x)
    PROVE  Hop /\ Crosses(d, x)
<1>1. at \in Routers /\ alg \in Algorithms
  BY Ranges DEF TypeOK
<1>2. PICK h \in Nat : h = LocalPortStart(alg) /\ h = HyperXStart[Len(Shape) + 1]
  BY <1>1, StartPorts DEF LocalPortStart
<1>3. InDim(d, pkt'.next)
  BY <1>1, OffsetIsWired
<1>4. pkt'.next \in Nat /\ pkt'.next < h
  BY <1>2, <1>3, InDimRange
<1>5. Hop
  BY <1>2, <1>4 DEF Eject, isHostPort
<1>6. x \in 0 .. Shape[d] - 1
  BY DEF Beside
<1>7. PICK o \in Routers : o = Moved(at, d, x)
  BY <1>1, <1>6, MovedLocation
<1>8. PICK l \in Beside(o, d) : l = Location(at)[d]
  BY <1>1, <1>7, HyperXPeerOffset
<1>9. Peer(alg, at, pkt'.next) = <<o, offset(o, d, l)>>
  BY <1>1, <1>7, <1>8, HyperXPeerOffset DEF Peer
<1>10. at' = o /\ port' = offset(o, d, l)
  BY <1>5, <1>9 DEF Hop
<1>11. InDim(d, port')
  BY <1>10, OffsetIsWired
<1>12. port' \in Nat /\ ~isHostPort(alg, port')
  BY <1>2, <1>11, InDimRange DEF isHostPort
<1>13. Location(o)[d] = x /\ \A e \in Dims \ {d} : Location(o)[e] = Location(at)[e]
  BY <1>1, <1>6, <1>7, MovedLocation
<1>14. QED BY <1>3, <1>4, <1>5, <1>10, <1>12, <1>13 DEF Hop, Crosses, Lands, TypeOK

(* The type invariant and what else the path's shape does not matter for.  *)
Kept == /\ pkt'.dst = pkt.dst /\ pkt'.vn = pkt.vn /\ pkt'.mid = pkt.mid
        /\ pkt'.vc \in Nat /\ pkt'.dim \in 0 .. Len(Shape) /\ pkt'.val \in BOOLEAN
        /\ pkt' = [dst |-> pkt'.dst, vn |-> pkt'.vn, vc |-> pkt'.vc, dim |-> pkt'.dim,
                   mid |-> pkt'.mid, val |-> pkt'.val, next |-> pkt'.next]

(* A hop keeps the type, the range of the VC and the destination.          *)
LEMMA CrossKeeps ==
    ASSUME TypeOK, Kept, Hop, NEW d \in Dims, NEW x, Lands(d, x)
    PROVE  /\ TypeOK' /\ FromHostOK' /\ VCOK' /\ DeliveredRight'
           /\ Target' = Target /\ FirstVC' = FirstVC /\ channel' # NoChannel
           /\ channel'[1] = at /\ channel'[2] = pkt'.next /\ channel'[3] = pkt'.vc
<1>1. channel' = <<at, pkt'.next, pkt'.vc>> /\ pkt'.next \in Nat /\ at \in Routers
  BY DEF Lands, TypeOK
<1>2. channel' # NoChannel
  BY <1>1 DEF NoChannel
<1>3. pkt' \in Packets
  BY <1>1 DEF Kept, TypeOK, Packets
<1>4. TypeOK'
  BY <1>1, <1>3 DEF TypeOK, Lands, Kept
<1>5. FromHostOK' /\ DeliveredRight'
  BY <1>1, <1>2 DEF FromHostOK, DeliveredRight, Lands
<1>6. Target' = Target /\ FirstVC' = FirstVC
  BY DEF Target, FirstVC, Kept, Lands
<1>7. QED BY <1>1, <1>2, <1>4, <1>5, <1>6 DEF VCOK

(* So does the step that takes the packet out of the network.              *)
LEMMA LocalKeeps ==
    ASSUME TypeOK, FromHostOK, VCOK, Kept, Hop \/ Eject, Local(pkt'), pkt'.vc = pkt.vc
    PROVE  /\ TypeOK' /\ FromHostOK' /\ VCOK' /\ DeliveredRight'
           /\ Target' = Target /\ FirstVC' = FirstVC
           /\ at' = at /\ channel' = channel /\ alg' = alg
<1>1. Eject /\ DeliveredRight'
  BY LocalStep DEF Kept
<1>2. at' = at /\ channel' = channel /\ alg' = alg /\ arrived' = TRUE /\ port' = pkt'.next
  BY <1>1 DEF Eject
<1>3. pkt'.next \in Nat
  BY Ranges, LocalPortRight DEF Local
<1>4. TypeOK'
  BY <1>2, <1>3 DEF TypeOK, Kept, Packets
<1>5. FromHostOK'
  BY <1>2 DEF FromHostOK
<1>6. Target' = Target /\ FirstVC' = FirstVC
  BY <1>2 DEF Target, FirstVC, Kept
<1>7. VCOK'
  BY <1>2, <1>6 DEF VCOK
<1>8. QED BY <1>1, <1>2, <1>4, <1>5, <1>6, <1>7

(* The dimension of a HyperX port.                                         *)
LEMMA HyperXDimIs ==
    ASSUME NEW d \in Dims, NEW p, InDim(d, p)
    PROVE  HyperXDim(p) = d
<1>1. ASSUME NEW e \in Dims PROVE HyperXStart[e] <= p /\ p < HyperXStart[e + 1] <=> InDim(e, p)
  <2>1. p \in Nat
    BY StartType DEF InDim
  <2>2. QED BY <2>1, StartType DEF InDim
<1>2. \A e \in Dims : InDim(e, p) => e = d
  BY InDimUnique
<1>3. QED BY <1>1, <1>2 DEF HyperXDim

(* The dimension of a channel.                                             *)
LEMMA ChannelDim ==
    ASSUME TypeOK, FromHostOK, alg \notin Grids, channel # NoChannel
    PROVE  \E d \in Dims : InDim(d, channel[2]) /\ HyperXDim(channel[2]) = d
<1>1. channel[2] \in Nat /\ ~isHostPort(alg, channel[2])
  BY DEF TypeOK, FromHostOK
<1>2. channel[2] \in 0 .. HyperXStart[Len(Shape) + 1] - 1
  BY <1>1, Ranges, StartPorts DEF isHostPort, LocalPortStart
<1>3. QED BY <1>2, InDimExists, HyperXDimIs

-----------------------------------------------------------------------------
(* A hop and the distance to a router.                                     *)
Brings(to, k) == Distance(alg, at', to) + k = Distance(alg, at, to)

(* A hop towards the destination brings the packet closer.                 *)
LEMMA HopBrings ==
    ASSUME TypeOK, NEW d \in Dims, NEW x, Lands(d, x), NEW to \in Routers, NEW k \in Nat,
           Apart(alg, x, Location(to)[d], Shape[d]) + k
              = Apart(alg, Location(at)[d], Location(to)[d], Shape[d])
    PROVE  Brings(to, k)
<1>1. at \in Routers /\ at' \in Routers /\ Location(at')[d] = x
  BY DEF TypeOK, Lands
<1>2. \A e \in Dims \ {d} : Location(at')[e] = Location(at)[e]
  BY DEF Lands
<1>3. QED BY <1>1, <1>2, Closer DEF Brings

(* In a HyperX a hop completes a dimension.                                *)
LEMMA HyperXBrings ==
    ASSUME TypeOK, alg \notin Grids, NEW d \in Dims, NEW x, Lands(d, x),
           NEW to \in Routers, Location(to)[d] # Location(at)[d]
    PROVE  Brings(to, IF x = Location(to)[d] THEN 1 ELSE 0)
<1>1. PICK k \in Nat : k = IF x = Location(to)[d] THEN 1 ELSE 0
  OBVIOUS
<1>2. /\ Apart(alg, x, Location(to)[d], Shape[d]) = IF x = Location(to)[d] THEN 0 ELSE 1
      /\ Apart(alg, Location(at)[d], Location(to)[d], Shape[d]) = 1
  BY DEF Apart, Grids
<1>3. Apart(alg, x, Location(to)[d], Shape[d]) + k
         = Apart(alg, Location(at)[d], Location(to)[d], Shape[d])
  BY <1>1, <1>2
<1>4. Brings(to, k)
  BY <1>3, HopBrings
<1>5. QED BY <1>1, <1>4

(* What the way that is still before a packet loses with each algorithm.   *)
Progress ==
    /\ alg \in Grids \cup {"DOR", "MIN-A"} => Brings(Target, 1)
    /\ alg = "DOAL" => \/ pkt'.vc = FirstVC /\ Brings(Target, 1)
                       \/ pkt.vc = FirstVC /\ pkt'.vc = FirstVC + 1 /\ Brings(Target, 0)
    /\ alg = "valiant" => /\ Brings(IF pkt'.val THEN Target ELSE pkt.mid, 1)
                          /\ pkt'.val = pkt.val \/ (pkt'.val = TRUE /\ pkt.mid = at)
    /\ alg = "VDAL" => pkt'.vc = NextVC(pkt, FirstVC, channel = NoChannel)

(* The count of hops when a packet crosses.                                *)
LEMMA CrossHops ==
    ASSUME TypeOK, PathOK, HopsOK, Kept, Hop, NEW d \in Dims, NEW x, Lands(d, x), Progress
    PROVE  HopsOK' /\ ShortPath'
<1>1. /\ alg' = alg /\ arrived' = FALSE /\ at' \in Routers /\ origin' = origin /\ hops' = hops + 1
      /\ channel' # NoChannel
  BY DEF Lands, Hop, NoChannel
<1>2. Target' = Target /\ FirstVC' = FirstVC /\ pkt'.mid = pkt.mid
  BY <1>1 DEF Target, FirstVC, Kept
<1>3. /\ at \in Routers /\ Target \in Routers /\ pkt.mid \in Routers /\ alg \in Algorithms
      /\ FirstVC \in Nat /\ pkt.vc \in Nat /\ hops \in Nat /\ origin \in Routers
  BY Ranges DEF TypeOK, HopsOK
<1>4. PICK o \in Nat, n \in Nat, m \in Nat, h \in Nat :
          /\ o = Distance(alg, origin, Target) /\ n = Distance(alg, at, Target)
          /\ m = Distance(alg, at', Target) /\ h = hops
  BY <1>1, <1>3, DistanceType
<1>5. PICK p \in Nat, q \in Nat, r \in Nat, s \in Nat :
          /\ p = Distance(alg, origin, pkt.mid) /\ q = Distance(alg, at, pkt.mid)
          /\ r = Distance(alg, at', pkt.mid) /\ s = Distance(alg, pkt.mid, Target)
  BY <1>1, <1>3, DistanceType
<1>6. hops' \in Nat /\ origin' \in Routers
  BY <1>1, <1>3
<1>7. ASSUME alg \in Grids \cup {"DOR", "MIN-A"}
      PROVE  hops' + Distance(alg, at', Target) <= Distance(alg, origin, Target)
  <2>1. m + 1 = n /\ h + n <= o
    BY <1>4, <1>7 DEF Progress, Brings, HopsOK
  <2>2. QED BY <1>1, <1>4, <2>1
<1>8. ASSUME alg = "DOAL"
      PROVE  hops' + 2 * Distance(alg, at', Target)
                <= 2 * Distance(alg, origin, Target) + (pkt'.vc - FirstVC)
  <2>1. PICK f \in Nat, v \in Nat : f = FirstVC /\ v = pkt.vc /\ v \in {f, f + 1}
    BY <1>3, <1>8 DEF PathOK, DOALOK
  <2>2. h + 2 * n <= 2 * o + (v - f)
    BY <1>4, <1>8, <2>1 DEF HopsOK
  <2>3. CASE pkt'.vc = FirstVC /\ Brings(Target, 1)
    <3>1. m + 1 = n
      BY <1>4, <2>3 DEF Brings
    <3>2. (h + 1) + 2 * m <= 2 * o + (f - f)
      BY <2>1, <2>2, <3>1
    <3>3. QED BY <1>1, <1>4, <2>1, <2>3, <3>2
  <2>4. CASE pkt.vc = FirstVC /\ pkt'.vc = FirstVC + 1 /\ Brings(Target, 0)
    <3>1. m = n /\ v = f
      BY <1>4, <2>1, <2>4 DEF Brings
    <3>2. (h + 1) + 2 * m <= 2 * o + ((f + 1) - f)
      BY <2>1, <2>2, <3>1
    <3>3. QED BY <1>1, <1>4, <2>1, <2>4, <3>2
  <2>5. QED BY <1>8, <2>3, <2>4 DEF Progress
<1>9. ASSUME alg = "valiant"
      PROVE  hops' + (IF pkt'.val THEN Distance(alg, at', Target)
                      ELSE Distance(alg, at', pkt.mid) + Distance(alg, pkt.mid, Target))
                <= Distance(alg, origin, pkt.mid) + Distance(alg, pkt.mid, Target)
  <2>1. h + (IF pkt.val THEN n ELSE q + s) <= p + s
    BY <1>4, <1>5, <1>9 DEF HopsOK
  <2>2. pkt.val \in BOOLEAN /\ pkt'.val \in BOOLEAN
    BY DEF TypeOK, Packets, Kept
  <2>3. pkt.mid = at => s = n
    BY <1>4, <1>5
  <2>4. pkt'.val = pkt.val \/ (pkt'.val = TRUE /\ pkt.mid = at)
    BY <1>9 DEF Progress
  <2>5. CASE pkt'.val = TRUE
    <3>1. m + 1 = n
      BY <1>4, <1>9, <2>5 DEF Progress, Brings
    <3>2. h + n <= p + s
      BY <2>1, <2>2, <2>3, <2>4, <2>5
    <3>3. QED BY <1>1, <1>4, <1>5, <2>5, <3>1, <3>2
  <2>6. CASE pkt'.val = FALSE
    <3>1. r + 1 = q
      BY <1>5, <1>9, <2>6 DEF Progress, Brings
    <3>2. h + (q + s) <= p + s
      BY <2>1, <2>4, <2>6
    <3>3. QED BY <1>1, <1>4, <1>5, <2>6, <3>1, <3>2
  <2>7. QED BY <2>2, <2>5, <2>6
<1>10. ASSUME alg = "VDAL"
       PROVE  hops' = pkt'.vc - FirstVC + 1
  BY <1>1, <1>3, <1>10 DEF Progress, HopsOK, NextVC
<1>11. HopsOK'
  BY <1>1, <1>2, <1>6, <1>7, <1>8, <1>9, <1>10 DEF HopsOK
<1>12. QED BY <1>1, <1>11 DEF ShortPath

(* At the destination.  valiant may find that it has been at its midpoint. *)
LEMMA LocalHops ==
    ASSUME TypeOK, VCOK, PathOK, FromHostOK, HopsOK, Kept, Hop \/ Eject, Local(pkt'), pkt'.vc = pkt.vc,
           pkt'.val = pkt.val \/ (pkt'.val = TRUE /\ pkt.mid = at), alg = "valiant" => pkt'.val = TRUE
    PROVE  HopsOK' /\ ShortPath'
<1>1. /\ alg' = alg /\ at' = at /\ origin' = origin /\ hops' = hops /\ channel' = channel
      /\ Target = at
  BY LocalStep DEF Local, Kept, Eject
<1>2. Target' = Target /\ FirstVC' = FirstVC /\ pkt'.mid = pkt.mid /\ pkt'.dst = pkt.dst
  BY <1>1 DEF Target, FirstVC, Kept
<1>3. /\ at \in Routers /\ Target \in Routers /\ pkt.mid \in Routers /\ alg \in Algorithms
      /\ FirstVC \in Nat /\ pkt.vc \in Nat /\ hops \in Nat /\ origin \in Routers
  BY Ranges DEF TypeOK, HopsOK
<1>4. PICK o \in Nat, n \in Nat, h \in Nat :
          o = Distance(alg, origin, Target) /\ n = Distance(alg, at, Target) /\ h = hops
  BY <1>3, DistanceType
<1>5. PICK p \in Nat, q \in Nat, s \in Nat :
          /\ p = Distance(alg, origin, pkt.mid) /\ q = Distance(alg, at, pkt.mid)
          /\ s = Distance(alg, pkt.mid, Target)
  BY <1>3, DistanceType
<1>6. ASSUME alg = "valiant" PROVE h + n <= p + s /\ pkt'.val = TRUE
  <2>1. h + (IF pkt.val THEN n ELSE q + s) <= p + s
    BY <1>4, <1>5, <1>6 DEF HopsOK
  <2>2. pkt.val \in BOOLEAN
    BY DEF TypeOK, Packets
  <2>3. pkt.mid = at => s = n
    BY <1>4, <1>5
  <2>4. QED BY <1>6, <2>1, <2>2, <2>3
<1>7. HopsOK'
  BY <1>1, <1>2, <1>3, <1>4, <1>5, <1>6 DEF HopsOK
<1>8. ASSUME alg \in Grids \cup {"DOR", "MIN-A"} PROVE hops <= Distance(alg, origin, Target)
  <2>1. h + n <= o
    BY <1>4, <1>8 DEF HopsOK
  <2>2. QED BY <1>4, <2>1
<1>9. ASSUME alg = "DOAL" PROVE hops <= 2 * Distance(alg, origin, Target)
  <2>1. pkt.vc = FirstVC
    <3>1. CASE channel = NoChannel
      BY <3>1 DEF VCOK
    <3>2. CASE channel # NoChannel
      <4>1. PICK d \in Dims : InDim(d, channel[2])
        BY <1>9, <3>2, ChannelDim DEF Grids
      <4>2. Aligned(d, Target)
        BY <1>1 DEF Aligned
      <4>3. QED BY <1>9, <3>2, <4>1, <4>2 DEF PathOK, DOALOK
    <3>3. QED BY <3>1, <3>2
  <2>2. h + 2 * n <= 2 * o + (pkt.vc - FirstVC)
    BY <1>4, <1>9 DEF HopsOK
  <2>3. h + 2 * n <= 2 * o
    BY <1>3, <2>1, <2>2
  <2>4. QED BY <1>4, <2>3
<1>10. ASSUME alg = "VDAL" PROVE hops <= getVCsPerVN(alg)
  <2>1. PICK k \in Nat \ {0} : k = getVCsPerVN(alg)
    BY <1>3, <1>10, Ranges, VCsOfVN
  <2>2. pkt.vc <= FirstVC + k - 1
    BY <1>10, <2>1 DEF PathOK, AdaptiveOK
  <2>3. hops = IF channel = NoChannel THEN 0 ELSE pkt.vc - FirstVC + 1
    BY <1>10 DEF HopsOK
  <2>4. QED BY <1>3, <2>1, <2>2, <2>3
<1>11. ASSUME alg = "valiant"
       PROVE  hops <= Distance(alg, origin, pkt.mid) + Distance(alg, pkt.mid, Target)
  <2>1. h + n <= p + s
    BY <1>6, <1>11
  <2>2. QED BY <1>4, <1>5, <2>1
<1>12. ShortPath'
  <2>1. get_dest_router(pkt'.dst) = Target
    BY <1>2 DEF Target
  <2>2. alg \in Grids \cup {"DOR", "MIN-A"} \/ alg \in {"DOAL", "VDAL", "valiant"}
    BY <1>3 DEF Algorithms
  <2>3. QED BY <1>1, <1>2, <1>8, <1>9, <1>10, <1>11, <2>1, <2>2 DEF ShortPath, Grids
<1>13. QED BY <1>7, <1>12

(* The next hop in dimension order. *)
Onward(d, to) == /\ \A e \in Dims : e < d => Location(at)[e] = Location(to)[e]
                 /\ Location(to)[d] # Location(at)[d]
                 /\ Location(to)[d] \in Beside(at, d)

(* Dimension order: the next dimension comes after the ones that are done. *)
LEMMA FirstOnward ==
    ASSUME at \in Routers, NEW to \in Routers, to # at
    PROVE  /\ First(Unaligned(at, to)) \in Dims
           /\ Onward(First(Unaligned(at, to)), to)
<1>1. PICK d : d = First(Unaligned(at, to))
  OBVIOUS
<1>2. Unaligned(at, to) \in SUBSET Dims /\ Unaligned(at, to) # {}
  BY UnalignedSome DEF Unaligned
<1>3. d \in Unaligned(at, to) /\ \A e \in Unaligned(at, to) : d <= e
  BY <1>1, <1>2, FirstIsLeast
<1>4. d \in Dims /\ Location(to)[d] # Location(at)[d]
  BY <1>3 DEF Unaligned
<1>5. ASSUME NEW e \in Dims, e < d PROVE Location(at)[e] = Location(to)[e]
  <2>1. ~(d <= e)
    BY <1>4, <1>5, ShapeType
  <2>2. QED BY <1>3, <2>1 DEF Unaligned
<1>6. Location(to)[d] \in Beside(at, d)
  BY <1>4, LocationType, ShapeType DEF Beside
<1>7. QED BY <1>1, <1>4, <1>5, <1>6 DEF Onward

(* No packet asks for a channel with a number that is not higher.          *)
Ordered == channel' # channel /\ channel # NoChannel => Less(Number(channel), Number(channel'))

(* Dimension order: after the hop the dimension is done too. *)
LEMMA OnwardDone ==
    ASSUME at \in Routers, NEW to \in Routers, NEW d \in Dims, Onward(d, to),
           Crosses(d, Location(to)[d]), channel'[2] = pkt'.next
    PROVE  \A c \in Dims : InDim(c, channel'[2]) =>
               \A e \in Dims : e <= c => Location(at')[e] = Location(to)[e]
<1> SUFFICES ASSUME NEW c \in Dims, InDim(c, channel'[2]), NEW e \in Dims, e <= c
             PROVE  Location(at')[e] = Location(to)[e]
  OBVIOUS
<1>1. c = d
  BY InDimUnique DEF Crosses, Lands
<1>2. CASE e = d
  BY <1>2 DEF Crosses, Lands
<1>3. CASE e # d
  <2>1. e < d
    BY <1>1, <1>3, ShapeType
  <2>2. QED BY <1>3, <2>1 DEF Crosses, Lands, Onward
<1>4. QED BY <1>2, <1>3

(* ... and it is one that was not.                                         *)
LEMMA OnwardLater ==
    ASSUME TypeOK, NEW to, DoneTo(channel[2], to), NEW d \in Dims, Onward(d, to),
           NEW c \in Dims, InDim(c, channel[2])
    PROVE  c < d
<1> SUFFICES ASSUME d <= c PROVE FALSE
  BY ShapeType
<1>1. Aligned(d, to)
  BY DEF DoneTo
<1>2. QED BY <1>1 DEF Aligned, Onward

(* A hop of DOR.                                                           *)
LEMMA DORStep ==
    ASSUME IInv, alg = "DOR", Hop \/ Eject
    PROVE  IInv' /\ Ordered
<1> USE DEF IInv
<1>1. pkt' = routeDOR(at, pkt) /\ arrived = FALSE
  BY DEF Hop, Eject, route_packet, Grids, TypeOK
<1>2. alg \notin Grids /\ at \in Routers /\ pkt \in Packets /\ Target \in Routers
  BY Ranges DEF Grids, TypeOK
<1>3. CASE Target = at
  <2>1. pkt' = [pkt EXCEPT !.next = HyperXLocal(pkt.dst)]
    BY <1>1, <1>3 DEF routeDOR, Target
  <2>2. Local(pkt') /\ Kept /\ pkt'.vc = pkt.vc
    BY <1>2, <1>3, <2>1 DEF Local, Kept, Packets, HyperXLocal, LocalPortStart
  <2>3. /\ TypeOK' /\ FromHostOK' /\ VCOK' /\ DeliveredRight'
        /\ Target' = Target /\ FirstVC' = FirstVC
        /\ at' = at /\ channel' = channel /\ alg' = alg
    BY <2>2, LocalKeeps
  <2>4. PathOK'
    BY <2>2, <2>3 DEF PathOK, GridOK, DOROK, ValiantOK, DOALOK, AdaptiveOK, DoneTo, Aligned, Grids
  <2>5. HopsOK' /\ ShortPath'
    <3>1. pkt'.val = pkt.val
      BY <1>2, <2>1 DEF Packets
    <3>2. QED BY <2>2, <3>1, LocalHops
  <2>6. QED BY <2>3, <2>4, <2>5 DEF Ordered
<1>4. CASE Target # at
  <2>1. PICK d \in Dims : d = First(Unaligned(at, Target)) /\ Onward(d, Target)
    BY <1>2, <1>4, FirstOnward
  <2>2. PICK x \in Beside(at, d) : x = Location(Target)[d]
    BY <2>1 DEF Onward
  <2>3. pkt' = [pkt EXCEPT !.next = offset(at, d, x)]
    BY <1>1, <1>4, <2>1, <2>2 DEF routeDOR, routeDORBase, Target
  <2>4. Kept /\ pkt'.next = offset(at, d, x) /\ pkt'.vc = pkt.vc
    BY <1>2, <2>3 DEF Kept, Packets
  <2>5. Hop /\ Crosses(d, x)
    BY <1>2, <2>4, CrossStep
  <2>6. /\ TypeOK' /\ FromHostOK' /\ VCOK' /\ DeliveredRight'
        /\ Target' = Target /\ FirstVC' = FirstVC /\ channel' # NoChannel
        /\ channel'[1] = at /\ channel'[2] = pkt'.next /\ channel'[3] = pkt'.vc
    BY <2>4, <2>5, CrossKeeps DEF Crosses
  <2>7. DoneTo(channel[2], Target)'
    BY <1>2, <2>1, <2>2, <2>5, <2>6, OnwardDone DEF DoneTo, Aligned
  <2>8. PathOK'
    BY <2>4, <2>5, <2>6, <2>7 DEF PathOK, GridOK, DOROK, ValiantOK, DOALOK, AdaptiveOK, Grids, Crosses, Lands
  <2>9. Ordered
    <3> SUFFICES ASSUME channel # NoChannel PROVE Less(Number(channel), Number(channel'))
      BY DEF Ordered
    <3>1. DoneTo(channel[2], Target) /\ channel[3] = pkt.vc
      BY DEF PathOK, DOROK, VCOK
    <3>2. HyperXDim(channel'[2]) = d
      BY <2>5, <2>6, HyperXDimIs DEF Crosses, Lands
    <3>3. PICK c \in Dims : InDim(c, channel[2]) /\ HyperXDim(channel[2]) = c
      BY <1>2, ChannelDim
    <3>4. c < d
      BY <2>1, <3>1, <3>3, OnwardLater
    <3>5. Number(channel) = <<pkt.vc, c, 0>> /\ Number(channel') = <<pkt.vc, d, 0>>
      BY <1>2, <2>4, <2>6, <3>1, <3>2, <3>3 DEF Number
    <3>6. QED BY <3>4, <3>5 DEF Less
  <2>10. HopsOK' /\ ShortPath'
    <3>1. Brings(Target, 1)
      BY <1>2, <2>1, <2>2, <2>5, HyperXBrings DEF Onward, Crosses
    <3>2. Progress
      BY <3>1 DEF Progress
    <3>3. QED BY <2>4, <2>5, <3>2, CrossHops DEF Crosses
  <2>11. QED BY <2>6, <2>8, <2>9, <2>10
<1>5. QED BY <1>3, <1>4

(* Valiant: dimension order to the midpoint, then on the next VC to the    *)
(* destination.                                                            *)
LEMMA ValiantStep ==
    ASSUME IInv, alg = "valiant", Hop \/ Eject
    PROVE  IInv' /\ Ordered
<1> USE DEF IInv
<1>1. pkt' = routeValiant(at, pkt) /\ arrived = FALSE
  BY DEF Hop, Eject, route_packet, Grids, TypeOK
<1>2. /\ alg \notin Grids /\ at \in Routers /\ pkt \in Packets /\ Target \in Routers
      /\ pkt.mid \in Routers /\ FirstVC \in Nat /\ pkt.vc \in Nat /\ pkt.val \in BOOLEAN
  BY Ranges DEF Grids, TypeOK, Packets
(* What it does at its destination, and where else it may go to. *)
<1> DEFINE There    == Target = at /\ (pkt.val \/ pkt.mid = at)
           Goal     == IF pkt.val \/ pkt.mid = at THEN Target ELSE pkt.mid
           Second   == ~pkt.val /\ pkt.mid = at
<1>3. CASE There
  <2>1. pkt' = [pkt EXCEPT !.next = HyperXLocal(pkt.dst), !.val = TRUE]
    <3>1. routeDOR(at, pkt) = [pkt EXCEPT !.next = HyperXLocal(pkt.dst)]
      BY <1>3 DEF routeDOR, Target
    <3>2. CASE pkt.val
      <4>1. pkt' = [pkt EXCEPT !.next = HyperXLocal(pkt.dst)]
        BY <1>1, <3>1, <3>2 DEF routeValiant
      <4>2. pkt.val = TRUE
        BY <1>2, <3>2
      <4>3. QED BY <1>2, <4>1, <4>2 DEF Packets
    <3>3. CASE ~pkt.val
      BY <1>1, <1>2, <1>3, <3>1, <3>3 DEF routeValiant, Target, Packets
    <3>4. QED BY <3>2, <3>3
  <2>2. Local(pkt') /\ Kept /\ pkt'.vc = pkt.vc /\ pkt'.val = TRUE
    BY <1>2, <1>3, <2>1 DEF Local, Kept, Packets, HyperXLocal, LocalPortStart
  <2>3. /\ TypeOK' /\ FromHostOK' /\ VCOK' /\ DeliveredRight'
        /\ Target' = Target /\ FirstVC' = FirstVC
        /\ at' = at /\ channel' = channel /\ alg' = alg
    BY <2>2, LocalKeeps
  <2>4. channel # NoChannel => DoneTo(channel[2], Target)
    BY <1>3 DEF DoneTo, Aligned
  <2>5. ValiantOK'
    BY <2>2, <2>3, <2>4 DEF PathOK, ValiantOK, DoneTo, Aligned
  <2>6. PathOK'
    BY <2>3, <2>5 DEF PathOK, GridOK, DOROK, DOALOK, AdaptiveOK, Grids
  <2>7. HopsOK' /\ ShortPath'
    <3>1. pkt'.val = pkt.val \/ (pkt'.val = TRUE /\ pkt.mid = at)
      BY <1>2, <1>3, <2>2
    <3>2. QED BY <2>2, <3>1, LocalHops
  <2>8. QED BY <2>3, <2>6, <2>7 DEF Ordered
<1>4. CASE ~There
  <2>1. PICK to \in Routers : to = Goal /\ to # at
    BY <1>2, <1>4
  <2>2. PICK d \in Dims : d = First(Unaligned(at, to)) /\ Onward(d, to)
    BY <1>2, <2>1, FirstOnward
  <2>3. PICK x \in Beside(at, d) : x = Location(to)[d]
    BY <2>2 DEF Onward
  <2>4. /\ pkt' = [pkt EXCEPT !.next = offset(at, d, x), !.val = pkt'.val, !.vc = pkt'.vc]
        /\ pkt'.val = (pkt.val \/ Second)
        /\ pkt'.vc = IF Second THEN pkt.vc + 1 ELSE pkt.vc
    <3>1. routeDORBase(at, to) = offset(at, d, x)
      BY <2>2, <2>3 DEF routeDORBase
    <3>2. CASE pkt.val
      BY <1>1, <1>2, <2>1, <3>1, <3>2 DEF routeValiant, routeDOR, Target, Packets
    <3>3. CASE ~pkt.val /\ pkt.mid # at
      BY <1>1, <1>2, <2>1, <3>1, <3>3 DEF routeValiant, Packets
    <3>4. CASE ~pkt.val /\ pkt.mid = at
      BY <1>1, <1>2, <2>1, <3>1, <3>4 DEF routeValiant, routeDOR, Target, Packets
    <3>5. QED BY <3>2, <3>3, <3>4
  <2>5. Kept /\ pkt'.next = offset(at, d, x) /\ pkt'.val \in BOOLEAN
    <3>1. pkt'.val \in BOOLEAN /\ pkt'.vc \in Nat
      BY <1>2, <2>4
    <3>2. QED BY <1>2, <2>4, <3>1 DEF Kept, Packets
  <2>6. Hop /\ Crosses(d, x)
    BY <1>2, <2>5, CrossStep
  <2>7. /\ TypeOK' /\ FromHostOK' /\ VCOK' /\ DeliveredRight'
        /\ Target' = Target /\ FirstVC' = FirstVC /\ channel' # NoChannel
        /\ channel'[1] = at /\ channel'[2] = pkt'.next /\ channel'[3] = pkt'.vc
    BY <2>5, <2>6, CrossKeeps DEF Crosses
  <2>8. to = IF pkt'.val THEN Target' ELSE pkt'.mid
    BY <1>2, <2>1, <2>4, <2>5, <2>7 DEF Kept
  <2>9. \A c \in Dims : InDim(c, channel'[2]) =>
            \A e \in Dims : e <= c => Location(at')[e] = Location(to)[e]
    BY <1>2, <2>2, <2>3, <2>6, <2>7, OnwardDone
  <2>10. pkt.vc \in {FirstVC, FirstVC + 1} /\ (~pkt.val => pkt.vc = FirstVC)
    BY DEF PathOK, ValiantOK
  <2>11. pkt'.vc \in {FirstVC, FirstVC + 1} /\ (~pkt'.val => pkt'.vc = FirstVC)
    BY <1>2, <2>4, <2>10
  <2>12. ValiantOK'
    BY <2>7, <2>8, <2>9, <2>11 DEF ValiantOK, DoneTo, Aligned
  <2>13. PathOK'
    BY <2>6, <2>12 DEF PathOK, GridOK, DOROK, DOALOK, AdaptiveOK, Grids, Crosses, Lands
  <2>14. Ordered
    <3> SUFFICES ASSUME channel # NoChannel PROVE Less(Number(channel), Number(channel'))
      BY DEF Ordered
    <3>1. HyperXDim(channel'[2]) = d /\ channel[3] = pkt.vc
      BY <2>6, <2>7, HyperXDimIs DEF Crosses, Lands, VCOK
    <3>2. PICK c \in Dims : InDim(c, channel[2]) /\ HyperXDim(channel[2]) = c
      BY <1>2, ChannelDim
    <3>3. Number(channel) = <<pkt.vc, c, 0>> /\ Number(channel') = <<pkt'.vc, d, 0>>
      BY <1>2, <2>7, <3>1, <3>2 DEF Number
    <3>4. CASE Second
      BY <1>2, <2>4, <3>3, <3>4 DEF Less
    <3>5. CASE ~Second
      <4>1. to = IF pkt.val THEN Target ELSE pkt.mid
        BY <1>2, <2>1, <3>5
      <4>2. DoneTo(channel[2], to)
        BY <4>1 DEF PathOK, ValiantOK
      <4>3. c < d
        BY <2>2, <3>2, <4>2, OnwardLater
      <4>4. QED BY <2>4, <3>3, <3>5, <4>3 DEF Less
    <3>6. QED BY <3>4, <3>5
  <2>15. HopsOK' /\ ShortPath'
    <3>1. Brings(to, 1)
      BY <1>2, <2>2, <2>3, <2>6, HyperXBrings DEF Onward, Crosses
    <3>2. to = IF pkt'.val THEN Target ELSE pkt.mid
      BY <2>5, <2>7, <2>8 DEF Kept
    <3>3. pkt'.val = pkt.val \/ (pkt'.val = TRUE /\ pkt.mid = at)
      BY <1>2, <2>4
    <3>4. Progress
      BY <3>1, <3>2, <3>3 DEF Progress, Grids
    <3>5. QED BY <2>5, <2>6, <3>4, CrossHops DEF Crosses
  <2>16. QED BY <2>7, <2>13, <2>14, <2>15
<1>5. QED BY <1>3, <1>4

(* DOAL: out on the second VC, back on the first, then the next dimension. *)
LEMMA DOALStep ==
    ASSUME IInv, alg = "DOAL", Hop \/ Eject
    PROVE  IInv' /\ Ordered
<1> USE DEF IInv
<1>1. pkt' \in routeDOAL(at, pkt, FirstVC) /\ arrived = FALSE
  BY DEF Hop, Eject, route_packet, Grids, TypeOK, FirstVC
<1>2. /\ alg \notin Grids /\ at \in Routers /\ pkt \in Packets /\ Target \in Routers
      /\ FirstVC \in Nat /\ pkt.vc \in Nat /\ pkt.vc \in {FirstVC, FirstVC + 1}
  BY Ranges DEF Grids, TypeOK, PathOK, DOALOK
<1>3. FirstVC % 2 = 0 /\ (FirstVC + 1) % 2 = 1
  <2>1. FirstVC = pkt.vn * 2 /\ pkt.vn \in Nat
    BY Ranges DEF FirstVC, StartVC, getVCsPerVN
  <2>2. QED BY <2>1
<1>4. CASE Target = at
  <2>1. pkt' = [pkt EXCEPT !.next = HyperXLocal(pkt.dst)]
    BY <1>1, <1>4 DEF routeDOAL, routeDOR, Target
  <2>2. Local(pkt') /\ Kept /\ pkt'.vc = pkt.vc
    BY <1>2, <1>4, <2>1 DEF Local, Kept, Packets, HyperXLocal, LocalPortStart
  <2>3. /\ TypeOK' /\ FromHostOK' /\ VCOK' /\ DeliveredRight'
        /\ Target' = Target /\ FirstVC' = FirstVC
        /\ at' = at /\ channel' = channel /\ alg' = alg
    BY <2>2, LocalKeeps
  <2>4. PathOK'
    BY <2>2, <2>3 DEF PathOK, GridOK, DOROK, ValiantOK, DOALOK, AdaptiveOK, DoneTo, Aligned, Grids
  <2>5. HopsOK' /\ ShortPath'
    <3>1. pkt'.val = pkt.val
      BY <1>2, <2>1 DEF Packets
    <3>2. QED BY <2>2, <3>1, LocalHops
  <2>6. QED BY <2>3, <2>4, <2>5 DEF Ordered
<1>5. CASE Target # at
  <2>1. PICK d \in Dims : d = First(Unaligned(at, Target)) /\ Onward(d, Target)
    BY <1>2, <1>5, FirstOnward
  <2>2. PICK x \in Beside(at, d) : x = Location(Target)[d]
    BY <2>1 DEF Onward
  <2>3. \E y \in Beside(at, d) :
            /\ pkt' = [pkt EXCEPT !.next = offset(at, d, y), !.vc = pkt'.vc, !.dim = pkt'.dim]
            /\ pkt'.dim \in {d, pkt.dim}
            /\ pkt.vc = FirstVC + 1 => y = x
            /\ pkt'.vc = IF y = x THEN FirstVC ELSE FirstVC + 1
    <3>1. CASE pkt.vc - FirstVC = 1
      <4>1. pkt' = [pkt EXCEPT !.next = offset(at, d, x), !.vc = @ - 1, !.dim = d]
        BY <1>1, <1>5, <2>1, <2>2, <3>1 DEF routeDOAL, Target
      <4>2. /\ pkt' = [pkt EXCEPT !.next = offset(at, d, x), !.vc = pkt'.vc, !.dim = pkt'.dim]
            /\ pkt'.dim = d /\ pkt'.vc = FirstVC
        BY <1>2, <3>1, <4>1 DEF Packets
      <4>3. QED BY <4>2
    <3>2. CASE pkt.vc - FirstVC # 1
      <4>1. PICK y \in Beside(at, d) :
                pkt' = [pkt EXCEPT !.next = offset(at, d, y), !.vc = IF y = x THEN @ ELSE @ + 1]
        BY <1>1, <1>5, <2>1, <2>2, <3>2 DEF routeDOAL, Target, Beside
      <4>2. pkt.vc = FirstVC
        BY <1>2, <3>2
      <4>3. /\ pkt' = [pkt EXCEPT !.next = offset(at, d, y), !.vc = pkt'.vc, !.dim = pkt'.dim]
            /\ pkt'.dim = pkt.dim /\ pkt'.vc = IF y = x THEN FirstVC ELSE FirstVC + 1
        BY <1>2, <4>1, <4>2 DEF Packets
      <4>4. pkt.vc # FirstVC + 1
        BY <1>2, <4>2
      <4>5. QED BY <4>3, <4>4
    <3>3. QED BY <3>1, <3>2
  <2>4. PICK y \in Beside(at, d) :
            /\ pkt' = [pkt EXCEPT !.next = offset(at, d, y), !.vc = pkt'.vc, !.dim = pkt'.dim]
            /\ pkt'.dim \in {d, pkt.dim}
            /\ pkt.vc = FirstVC + 1 => y = x
            /\ pkt'.vc = IF y = x THEN FirstVC ELSE FirstVC + 1
    BY <2>3
  <2>5. Kept /\ pkt'.next = offset(at, d, y)
    <3>1. pkt'.vc \in Nat /\ pkt'.dim \in 0 .. Len(Shape)
      BY <1>2, <2>4, ShapeType DEF Packets
    <3>2. QED BY <1>2, <2>4, <3>1 DEF Kept, Packets
  <2>6. Hop /\ Crosses(d, y)
    BY <1>2, <2>5, CrossStep
  <2>7. /\ TypeOK' /\ FromHostOK' /\ VCOK' /\ DeliveredRight'
        /\ Target' = Target /\ FirstVC' = FirstVC /\ channel' # NoChannel
        /\ channel'[1] = at /\ channel'[2] = pkt'.next /\ channel'[3] = pkt'.vc
    BY <2>5, <2>6, CrossKeeps DEF Crosses
  <2>8. DOALOK'
    <3>1. pkt'.vc \in {FirstVC', FirstVC' + 1}
      BY <2>4, <2>7
    <3>2. ASSUME NEW c \in Dims, InDim(c, channel'[2])
          PROVE  /\ \A e \in Dims : e < c => Aligned(e, Target)'
                 /\ Aligned(c, Target)' <=> pkt'.vc = FirstVC'
      <4>1. c = d
        BY <2>6, <2>7, <3>2, InDimUnique DEF Crosses, Lands
      <4>2. ASSUME NEW e \in Dims, e < c PROVE Location(at')[e] = Location(Target)[e]
        <5>1. e # d
          BY <4>1, <4>2, ShapeType
        <5>2. QED BY <2>1, <2>6, <4>1, <4>2, <5>1 DEF Crosses, Lands, Onward
      <4>3. Location(at')[c] = Location(Target)[c] <=> pkt'.vc = FirstVC'
        BY <1>2, <2>2, <2>4, <2>6, <2>7, <4>1 DEF Crosses, Lands
      <4>4. QED BY <2>7, <4>2, <4>3 DEF Aligned
    <3>3. QED BY <3>1, <3>2 DEF DOALOK
  <2>9. PathOK'
    BY <2>6, <2>8 DEF PathOK, GridOK, DOROK, ValiantOK, AdaptiveOK, Grids, Crosses, Lands
  <2>10. Ordered
    <3> SUFFICES ASSUME channel # NoChannel PROVE Less(Number(channel), Number(channel'))
      BY DEF Ordered
    <3>1. HyperXDim(channel'[2]) = d /\ channel[3] = pkt.vc
      BY <2>6, <2>7, HyperXDimIs DEF Crosses, Lands, VCOK
    <3>2. PICK c \in Dims : InDim(c, channel[2]) /\ HyperXDim(channel[2]) = c
      BY <1>2, ChannelDim
    <3>3. /\ \A e \in Dims : e < c => Aligned(e, Target)
          /\ Aligned(c, Target) <=> pkt.vc = FirstVC
      BY <3>2 DEF PathOK, DOALOK
    <3>4. ~Aligned(d, Target) /\ \A e \in Dims : e < d => Aligned(e, Target)
      BY <2>1 DEF Aligned, Onward
    <3>5. c \in Nat /\ d \in Nat
      BY ShapeType
    <3>6. Number(channel) = <<c, 1 - (pkt.vc % 2), 0>> /\ Number(channel') = <<d, 1 - (pkt'.vc % 2), 0>>
      BY <1>2, <2>7, <3>1, <3>2 DEF Number
    <3>7. CASE pkt.vc = FirstVC
      <4>1. c < d
        BY <3>3, <3>4, <3>5, <3>7
      <4>2. QED BY <3>6, <4>1 DEF Less
    <3>8. CASE pkt.vc = FirstVC + 1
      <4>1. pkt.vc # FirstVC
        BY <1>2, <3>8
      <4>2. c = d
        BY <3>3, <3>4, <3>5, <4>1
      <4>3. 1 - (pkt.vc % 2) = 0 /\ 1 - (pkt'.vc % 2) = 1
        BY <1>3, <2>4, <3>8
      <4>4. QED BY <3>6, <4>2, <4>3 DEF Less
    <3>9. QED BY <1>2, <3>7, <3>8
  <2>11. HopsOK' /\ ShortPath'
    <3>1. Brings(Target, IF y = Location(Target)[d] THEN 1 ELSE 0)
      BY <1>2, <2>1, <2>6, HyperXBrings DEF Onward, Crosses
    <3>2. CASE y = x
      <4>1. pkt'.vc = FirstVC /\ Brings(Target, 1)
        BY <2>2, <2>4, <3>1, <3>2
      <4>2. Progress
        BY <4>1 DEF Progress, Grids
      <4>3. QED BY <2>5, <2>6, <4>2, CrossHops DEF Crosses
    <3>3. CASE y # x
      <4>1. pkt.vc = FirstVC /\ pkt'.vc = FirstVC + 1 /\ Brings(Target, 0)
        BY <1>2, <2>2, <2>4, <3>1, <3>3
      <4>2. Progress
        BY <4>1 DEF Progress, Grids
      <4>3. QED BY <2>5, <2>6, <4>2, CrossHops DEF Crosses
    <3>4. QED BY <3>2, <3>3
  <2>12. QED BY <2>7, <2>9, <2>10, <2>11
<1>6. QED BY <1>4, <1>5

-----------------------------------------------------------------------------
(* The dimensions that are left are finitely many.                         *)
LEMMA UnalignedFinite ==
    ASSUME NEW r, NEW to
    PROVE  /\ Unaligned(r, to) \in SUBSET Dims /\ IsFiniteSet(Unaligned(r, to))
           /\ Cardinality(Unaligned(r, to)) \in 0 .. Len(Shape)
<1>1. Unaligned(r, to) \in SUBSET Dims
  BY DEF Unaligned
<1>2. IsFiniteSet(Dims) /\ Cardinality(Dims) = Len(Shape)
  <2>1. 1 \in Int /\ Len(Shape) \in Int /\ Dims = 1 .. Len(Shape) /\ Len(Shape) \in Nat \ {0}
    BY ShapeType
  <2>2. IsFiniteSet(1 .. Len(Shape)) /\ Cardinality(1 .. Len(Shape)) = IF 1 > Len(Shape) THEN 0 ELSE Len(Shape) - 1 + 1
    BY <2>1, FS_Interval
  <2>3. QED BY <2>1, <2>2
<1>3. IsFiniteSet(Unaligned(r, to)) /\ Cardinality(Unaligned(r, to)) <= Cardinality(Dims)
  BY <1>1, <1>2, FS_Subset
<1>4. QED BY <1>1, <1>2, <1>3, FS_CardinalityType, ShapeType

(* MIN-A and VDAL: each hop is on the next VC.  A hop to a router that is  *)
(* aligned with the destination in the hop's dimension uses up one of the  *)
(* dimensions; any other is made only while a VC is to spare.              *)
LEMMA AdaptiveRoute ==
    ASSUME IInv, alg \in {"MIN-A", "VDAL"}, Hop \/ Eject, Target # at
    PROVE  \E d \in Unaligned(at, Target) : \E x \in Beside(at, d) :
              /\ pkt' = [pkt EXCEPT !.next = offset(at, d, x), !.vc = pkt'.vc, !.dim = pkt'.dim]
              /\ pkt'.dim \in {d, pkt.dim}
              /\ pkt'.vc = NextVC(pkt, FirstVC, channel = NoChannel)
              /\ \/ x = Location(Target)[d]
                 \/ /\ alg = "VDAL"
                    /\ Cardinality(Unaligned(at, Target)) + pkt'.vc < FirstVC + getVCsPerVN(alg)
<1> USE DEF IInv
<1>1. PICK next \in Nat : next = NextVC(pkt, FirstVC, channel = NoChannel)
  BY Ranges DEF NextVC
<1>2. arrived = FALSE /\ (isHostPort(alg, port) <=> channel = NoChannel)
  BY DEF Hop, Eject, TypeOK, FromHostOK
<1>3. NextVC(pkt, FirstVC, isHostPort(alg, port)) = next
  BY <1>1, <1>2 DEF NextVC
<1>4. pkt \in Packets /\ at \in Routers /\ Target \in Routers /\ FirstVC \in Nat
  BY Ranges DEF TypeOK
<1>5. ASSUME pkt' \in routeMINA(at, pkt, FirstVC, isHostPort(alg, port))
      PROVE  \E d \in Unaligned(at, Target) : \E x \in Beside(at, d) :
                /\ pkt' = [pkt EXCEPT !.next = offset(at, d, x), !.vc = pkt'.vc, !.dim = pkt'.dim]
                /\ pkt'.dim \in {d, pkt.dim}
                /\ pkt'.vc = next
                /\ x = Location(Target)[d]
  <2>1. PICK d \in Unaligned(at, Target) :
            pkt' = [pkt EXCEPT !.next = offset(at, d, Location(Target)[d]), !.vc = next]
    BY <1>3, <1>5 DEF routeMINA, Target
  <2>2. Location(Target)[d] \in Beside(at, d)
    <3>1. d \in Dims /\ Location(Target)[d] # Location(at)[d]
      BY DEF Unaligned
    <3>2. QED BY <1>4, <3>1, LocationType, ShapeType DEF Beside
  <2>3. PICK x \in Beside(at, d) : x = Location(Target)[d]
    BY <2>2
  <2>4. /\ pkt' = [pkt EXCEPT !.next = offset(at, d, x), !.vc = pkt'.vc, !.dim = pkt'.dim]
        /\ pkt'.dim \in {d, pkt.dim} /\ pkt'.vc = next
    BY <1>4, <2>1, <2>3 DEF Packets
  <2>5. QED BY <2>3, <2>4
<1>6. CASE alg = "MIN-A"
  <2>1. pkt' \in routeMINA(at, pkt, FirstVC, isHostPort(alg, port))
    BY <1>6 DEF Hop, Eject, route_packet, Grids, FirstVC
  <2>2. QED BY <1>1, <1>5, <2>1
<1>7. CASE alg = "VDAL"
  <2>1. pkt' \in routeVDAL(at, pkt, FirstVC, getVCsPerVN(alg), isHostPort(alg, port))
    BY <1>7 DEF Hop, Eject, route_packet, Grids, FirstVC
  <2>2. CASE MustBeMinimal(at, pkt, FirstVC, getVCsPerVN(alg), isHostPort(alg, port))
    <3>1. pkt' \in routeMINA(at, pkt, FirstVC, isHostPort(alg, port))
      BY <2>1, <2>2 DEF routeVDAL, Target
    <3>2. QED BY <1>1, <1>5, <3>1
  <2>3. CASE ~MustBeMinimal(at, pkt, FirstVC, getVCsPerVN(alg), isHostPort(alg, port))
    <3> DEFINE nx == NextVC(pkt, FirstVC, isHostPort(alg, port))
               Q(d) == {[pkt EXCEPT !.next = offset(at, d, x), !.dim = d, !.vc = nx] :
                           x \in {y \in (0 .. Shape[d] - 1) \ {Location(at)[d]} :
                                    y = Location(Target)[d] \/ d # pkt.dim}}
    <3>1. routeVDAL(at, pkt, FirstVC, getVCsPerVN(alg), isHostPort(alg, port))
             = UNION {Q(d) : d \in Unaligned(at, Target)}
      BY <2>3 DEF routeVDAL, Target
    <3>2. PICK d \in Unaligned(at, Target) : pkt' \in Q(d)
      <4> HIDE DEF Q
      <4>1. QED BY <2>1, <3>1
    <3>21. PICK x \in (0 .. Shape[d] - 1) \ {Location(at)[d]} :
              pkt' = [pkt EXCEPT !.next = offset(at, d, x), !.dim = d, !.vc = nx]
      BY <3>2
    <3>22. x \in Beside(at, d) /\ nx = next
      BY <1>3 DEF Beside
    <3>3. /\ pkt' = [pkt EXCEPT !.next = offset(at, d, x), !.vc = pkt'.vc, !.dim = pkt'.dim]
          /\ pkt'.dim \in {d, pkt.dim} /\ pkt'.vc = next
      BY <1>4, <3>21, <3>22 DEF Packets
    <3>4. PICK u \in Nat, v \in Nat : u = Cardinality(Unaligned(at, Target)) /\ v = getVCsPerVN(alg)
      BY UnalignedFinite, Ranges, VCsOfVN
    <3>5. u + next <= FirstVC + v
      BY <1>1, <3>4 DEF PathOK, AdaptiveOK
    <3>6. u # FirstVC + v - next
      BY <1>3, <2>3, <3>4 DEF MustBeMinimal, Target
    <3>7. u + next < FirstVC + v
      BY <1>4, <3>5, <3>6
    <3>8. QED BY <1>1, <1>7, <3>3, <3>22, <3>4, <3>7
  <2>4. QED BY <2>2, <2>3
<1>8. QED BY <1>6, <1>7

(* A hop of MIN-A or VDAL.                                                 *)
LEMMA AdaptiveStep ==
    ASSUME IInv, alg \in {"MIN-A", "VDAL"}, Hop \/ Eject
    PROVE  IInv' /\ Ordered
<1> USE DEF IInv
<1>1. /\ alg \notin Grids /\ at \in Routers /\ pkt \in Packets /\ Target \in Routers
      /\ FirstVC \in Nat /\ pkt.vc \in Nat /\ alg \in Algorithms
  BY Ranges DEF Grids, TypeOK
<1>2. CASE Target = at
  <2>1. pkt' = [pkt EXCEPT !.next = HyperXLocal(pkt.dst)]
    BY <1>2 DEF Hop, Eject, route_packet, routeMINA, routeVDAL, routeDOR, Target, Grids
  <2>2. Local(pkt') /\ Kept /\ pkt'.vc = pkt.vc
    BY <1>1, <1>2, <2>1 DEF Local, Kept, Packets, HyperXLocal, LocalPortStart
  <2>3. /\ TypeOK' /\ FromHostOK' /\ VCOK' /\ DeliveredRight'
        /\ Target' = Target /\ FirstVC' = FirstVC
        /\ at' = at /\ channel' = channel /\ alg' = alg
    BY <2>2, LocalKeeps
  <2>4. NextVC(pkt, FirstVC, channel = NoChannel)' = NextVC(pkt, FirstVC, channel = NoChannel)
    BY <2>2, <2>3 DEF NextVC
  <2>5. AdaptiveOK'
    BY <2>2, <2>3, <2>4 DEF PathOK, AdaptiveOK
  <2>6. PathOK'
    BY <2>3, <2>5 DEF PathOK, GridOK, DOROK, ValiantOK, DOALOK, Grids
  <2>7. HopsOK' /\ ShortPath'
    <3>1. pkt'.val = pkt.val
      BY <1>1, <2>1 DEF Packets
    <3>2. QED BY <2>2, <3>1, LocalHops
  <2>8. QED BY <2>3, <2>6, <2>7 DEF Ordered
<1>3. CASE Target # at
  <2>1. PICK d \in Unaligned(at, Target) : \E x \in Beside(at, d) :
              /\ pkt' = [pkt EXCEPT !.next = offset(at, d, x), !.vc = pkt'.vc, !.dim = pkt'.dim]
              /\ pkt'.dim \in {d, pkt.dim}
              /\ pkt'.vc = NextVC(pkt, FirstVC, channel = NoChannel)
              /\ \/ x = Location(Target)[d]
                 \/ /\ alg = "VDAL"
                    /\ Cardinality(Unaligned(at, Target)) + pkt'.vc < FirstVC + getVCsPerVN(alg)
    BY <1>3, AdaptiveRoute
  <2>2. PICK x \in Beside(at, d) :
              /\ pkt' = [pkt EXCEPT !.next = offset(at, d, x), !.vc = pkt'.vc, !.dim = pkt'.dim]
              /\ pkt'.dim \in {d, pkt.dim}
              /\ pkt'.vc = NextVC(pkt, FirstVC, channel = NoChannel)
              /\ \/ x = Location(Target)[d]
                 \/ /\ alg = "VDAL"
                    /\ Cardinality(Unaligned(at, Target)) + pkt'.vc < FirstVC + getVCsPerVN(alg)
    BY <2>1
  <2>3. d \in Dims /\ pkt'.vc \in Nat
    BY <1>1, <2>2 DEF Unaligned, NextVC
  <2>4. Kept /\ pkt'.next = offset(at, d, x)
    <3>1. pkt'.dim \in 0 .. Len(Shape)
      BY <1>1, <2>2, <2>3, ShapeType DEF Packets
    <3>2. QED BY <1>1, <2>2, <2>3, <3>1 DEF Kept, Packets
  <2>5. Hop /\ Crosses(d, x)
    BY <1>1, <2>3, <2>4, CrossStep
  <2>6. /\ TypeOK' /\ FromHostOK' /\ VCOK' /\ DeliveredRight'
        /\ Target' = Target /\ FirstVC' = FirstVC /\ channel' # NoChannel
        /\ channel'[1] = at /\ channel'[2] = pkt'.next /\ channel'[3] = pkt'.vc
    BY <2>3, <2>4, <2>5, CrossKeeps DEF Crosses
  <2>7. PICK U \in SUBSET Dims : U = Unaligned(at, Target) /\ IsFiniteSet(U) /\ Cardinality(U) \in Nat /\ d \in U
    BY UnalignedFinite
  <2>8. PICK V \in SUBSET Dims : V = Unaligned(at', Target) /\ IsFiniteSet(V) /\ Cardinality(V) \in Nat
    BY UnalignedFinite
  <2>9. V \subseteq U /\ (x = Location(Target)[d] => V \subseteq U \ {d})
    <3>1. \A e \in Dims \ {d} : e \in V <=> e \in U
      BY <2>5, <2>7, <2>8 DEF Unaligned, Crosses, Lands
    <3>2. x = Location(Target)[d] => d \notin V
      BY <2>5, <2>8 DEF Unaligned, Crosses, Lands
    <3>3. QED BY <2>7, <3>1, <3>2
  <2>10. Cardinality(V) <= Cardinality(U) /\ (x = Location(Target)[d] => Cardinality(V) <= Cardinality(U) - 1)
    <3>1. IsFiniteSet(U \ {d}) /\ Cardinality(U \ {d}) = Cardinality(U) - 1
      BY <2>7, FS_RemoveElement
    <3>2. QED BY <2>7, <2>9, <3>1, FS_Subset
  <2>11. PICK k \in Nat \ {0} : k = getVCsPerVN(alg)
    BY <1>1, Ranges, VCsOfVN
  <2>12. Cardinality(U) + pkt'.vc <= FirstVC + k /\ FirstVC <= pkt'.vc
    <3>1. Cardinality(U) + pkt'.vc <= FirstVC + k /\ FirstVC <= pkt.vc
      BY <1>1, <2>2, <2>7, <2>11 DEF PathOK, AdaptiveOK
    <3>2. QED BY <1>1, <2>2, <3>1 DEF NextVC
  <2>13. Cardinality(U) # 0
    BY <2>7, FS_EmptySet
  <2>14. pkt'.vc \in FirstVC .. FirstVC + k - 1
    BY <1>1, <2>3, <2>7, <2>12, <2>13
  <2>15. Cardinality(V) + (pkt'.vc + 1) <= FirstVC + k
    BY <1>1, <2>2, <2>3, <2>7, <2>8, <2>10, <2>11, <2>12
  <2>16. AdaptiveOK'
    <3>1. NextVC(pkt, FirstVC, channel = NoChannel)' = pkt'.vc + 1
      BY <2>6 DEF NextVC
    <3>2. alg' = alg /\ Unaligned(at, Target)' = V
      BY <2>5, <2>6, <2>8 DEF Crosses, Lands, Unaligned
    <3>3. QED BY <2>6, <2>11, <2>14, <2>15, <3>1, <3>2 DEF AdaptiveOK
  <2>17. PathOK'
    BY <2>5, <2>16 DEF PathOK, GridOK, DOROK, ValiantOK, DOALOK, Grids, Crosses, Lands
  <2>18. Ordered
    <3> SUFFICES ASSUME channel # NoChannel PROVE Less(Number(channel), Number(channel'))
      BY DEF Ordered
    <3>1. channel[3] = pkt.vc /\ pkt'.vc = pkt.vc + 1
      BY <2>2 DEF VCOK, NextVC
    <3>2. Number(channel) = <<pkt.vc, 0, 0>> /\ Number(channel') = <<pkt'.vc, 0, 0>>
      BY <1>1, <2>6, <3>1 DEF Number
    <3>3. QED BY <1>1, <3>1, <3>2 DEF Less
  <2>19. HopsOK' /\ ShortPath'
    <3>1. CASE alg = "MIN-A"
      <4>1. Location(Target)[d] # Location(at)[d]
        BY DEF Unaligned
      <4>2. x = Location(Target)[d]
        BY <2>2, <3>1
      <4>3. Brings(Target, 1)
        BY <1>1, <2>3, <2>5, <4>1, <4>2, HyperXBrings DEF Crosses
      <4>4. Progress
        BY <3>1, <4>3 DEF Progress
      <4>5. QED BY <2>3, <2>4, <2>5, <4>4, CrossHops DEF Crosses
    <3>2. CASE alg = "VDAL"
      <4>1. Progress
        BY <2>2, <3>2 DEF Progress, Grids
      <4>2. QED BY <2>3, <2>4, <2>5, <4>1, CrossHops DEF Crosses
    <3>3. QED BY <3>1, <3>2
  <2>20. QED BY <2>6, <2>17, <2>18, <2>19
<1>4. QED BY <1>2, <1>3

-----------------------------------------------------------------------------
(* Torus and mesh. *)
(* A hop in a torus or a mesh brings the packet closer.                    *)
LEMMA GridBrings ==
    ASSUME TypeOK, alg \in Grids, NEW d \in Dims, NEW to \in Routers,
           NEW n \in Nat \ {0}, NEW y \in 0 .. n - 1, NEW z \in 0 .. n - 1, y # z,
           n = Shape[d], y = Location(at)[d], z = Location(to)[d],
           Lands(d, Around(y, n, goUp(alg, y, z, n)))
    PROVE  Brings(to, 1)
<1>1. PICK x : x = Location(at')[d] /\ x = Around(y, n, goUp(alg, y, z, n))
  BY DEF Lands
<1>2. at' \in Routers /\ Lands(d, x)
  BY <1>1 DEF Lands
<1>3. x \in 0 .. n - 1
  <2>1. Location(at')[d] \in Nat /\ Location(at')[d] < Shape[d]
    BY <1>2, LocationType
  <2>2. QED BY <1>1, <2>1
<1>4. Apart(alg, x, z, n) + 1 = Apart(alg, y, z, n)
  BY <1>1, <1>3, GoUpCloser
<1>5. Apart(alg, x, Location(to)[d], Shape[d]) + 1
         = Apart(alg, Location(at)[d], Location(to)[d], Shape[d])
  BY <1>4
<1>6. QED BY <1>2, <1>5, HopBrings

(* A packet that has left location 0 behind does not come to it again.     *)
LEMMA BehindKept ==
    ASSUME NEW n \in Nat \ {0}, NEW x \in 0 .. n - 1, NEW z \in 0 .. n - 1, NEW up \in BOOLEAN,
           NEW y \in 0 .. n - 1, y = Around(x, n, up), y # z, Behind(x, z, up)
    PROVE  y # 0 /\ Behind(y, z, up)
<1>1. CASE up = TRUE
  <2>1. y = IF x = n - 1 THEN 0 ELSE x + 1
    BY <1>1, AroundValue
  <2>2. x < z
    BY <1>1 DEF Behind
  <2>3. y # 0 /\ y < z
    BY <2>1, <2>2
  <2>4. QED BY <1>1, <2>3 DEF Behind
<1>2. CASE up = FALSE
  <2>1. y = IF x = 0 THEN n - 1 ELSE x - 1
    BY <1>2, AroundValue
  <2>2. x = 0 \/ z < x
    BY <1>2 DEF Behind
  <2>3. y # 0 /\ z < y
    BY <2>1, <2>2
  <2>4. QED BY <1>2, <2>3 DEF Behind
<1>3. QED BY <1>1, <1>2

(* Positions grow along a direction, up to location 0.                     *)
LEMMA PositionGrows ==
    ASSUME NEW n \in Nat \ {0}, NEW x \in 0 .. n - 1, NEW up \in BOOLEAN,
           NEW y \in 0 .. n - 1, y = Around(x, n, up), y # 0
    PROVE  (IF up THEN x ELSE (n - x) % n) < (IF up THEN y ELSE (n - y) % n)
<1>1. CASE up = TRUE
  <2>1. y = IF x = n - 1 THEN 0 ELSE x + 1
    BY <1>1, AroundValue
  <2>2. QED BY <1>1, <2>1
<1>2. CASE up = FALSE
  <2>1. y = IF x = 0 THEN n - 1 ELSE x - 1
    BY <1>2, AroundValue
  <2>2. (n - y) % n = n - y
    <3>1. n - y = n * 0 + (n - y) /\ n - y \in Nat /\ n - y < n
      OBVIOUS
    <3>2. QED BY <3>1, DivUnique
  <2>3. CASE x = 0
    <3>1. n - x = n * 1 + 0 /\ n - x \in Nat
      BY <2>3
    <3>2. (n - x) % n = 0
      BY <3>1, DivUnique
    <3>3. QED BY <1>2, <2>1, <2>2, <2>3, <3>2
  <2>4. CASE x # 0
    <3>1. n - x = n * 0 + (n - x) /\ n - x \in Nat /\ n - x < n
      BY <2>4
    <3>2. (n - x) % n = n - x
      BY <3>1, DivUnique
    <3>3. QED BY <1>2, <2>1, <2>2, <2>4, <3>2
  <2>5. QED BY <2>3, <2>4
<1>3. QED BY <1>1, <1>2

(* A packet that crosses to the next router of a torus or a mesh.          *)
LEMMA GridCross ==
    ASSUME TypeOK, alg \in Grids, Hop \/ Eject,
           NEW d \in Dims, NEW up \in BOOLEAN, pkt'.next = TorusPort(d, up)
    PROVE  /\ Hop /\ Lands(d, Around(Location(at)[d], Shape[d], up))
           /\ PortDim(pkt'.next) = d /\ PortUp(pkt'.next) = up
<1>1. at \in Routers /\ LocalPortStart(alg) = 2 * Len(Shape) /\ Len(Shape) \in Nat
  BY ShapeType DEF TypeOK, LocalPortStart
<1>2. /\ pkt'.next \in 0 .. 2 * Len(Shape) - 1
      /\ PortDim(pkt'.next) = d /\ PortUp(pkt'.next) = up
  BY TorusPortOf
<1>3. Hop
  BY <1>1, <1>2 DEF Eject, isHostPort
<1>4. PICK x \in 0 .. Shape[d] - 1 : x = Around(Location(at)[d], Shape[d], up)
  BY <1>1, TorusPeerPort
<1>5. Peer(alg, at, pkt'.next) = <<Moved(at, d, x), TorusPort(d, ~up)>>
  BY <1>1, <1>4, TorusPeerPort DEF Peer
<1>6. at' = Moved(at, d, x) /\ port' = TorusPort(d, ~up)
  BY <1>3, <1>5 DEF Hop
<1>7. port' \in 0 .. 2 * Len(Shape) - 1
  <2>1. (~up) \in BOOLEAN
    OBVIOUS
  <2>2. QED BY <1>6, <2>1, TorusPortOf
<1>8. /\ at' \in Routers /\ Location(at')[d] = x
      /\ \A e \in Dims \ {d} : Location(at')[e] = Location(at)[e]
  BY <1>1, <1>4, <1>6, MovedLocation
<1>9. QED BY <1>1, <1>2, <1>3, <1>4, <1>7, <1>8 DEF Hop, Lands, isHostPort, TypeOK

(* A hop in a torus or a mesh.                                             *)
LEMMA GridStep ==
    ASSUME IInv, alg \in Grids, Hop \/ Eject
    PROVE  IInv' /\ Ordered
<1> USE DEF IInv
<1>1. pkt' = routeTorus(alg, at, pkt, isHostPort(alg, port)) /\ arrived = FALSE
  BY DEF Hop, Eject, route_packet, TypeOK, Grids
<1>2. /\ at \in Routers /\ pkt \in Packets /\ Target \in Routers /\ alg \in Algorithms
      /\ FirstVC \in Nat /\ pkt.vc \in {FirstVC, FirstVC + 1} /\ pkt.dim \in Dims
      /\ \A e \in Dims : e < pkt.dim => Aligned(e, Target)
  BY Ranges DEF TypeOK, PathOK, GridOK
<1>3. isHostPort(alg, port) <=> channel = NoChannel
  BY <1>1 DEF FromHostOK
<1>4. FirstVC % 2 = 0
  <2>1. FirstVC = pkt.vn * 2 /\ pkt.vn \in Nat
    BY Ranges DEF FirstVC, StartVC, getVCsPerVN, Grids
  <2>2. QED BY <2>1
<1>5. CASE Target = at
  <2>1. pkt' = [pkt EXCEPT !.next = TorusLocal(pkt.dst)]
    BY <1>1, <1>5 DEF routeTorus, Target
  <2>2. Local(pkt') /\ Kept /\ pkt'.vc = pkt.vc /\ pkt'.dim = pkt.dim
    BY <1>2, <1>5, <2>1 DEF Local, Kept, Packets, TorusLocal, LocalPortStart
  <2>3. /\ TypeOK' /\ FromHostOK' /\ VCOK' /\ DeliveredRight'
        /\ Target' = Target /\ FirstVC' = FirstVC
        /\ at' = at /\ channel' = channel /\ alg' = alg
    BY <2>2, LocalKeeps
  <2>4. GridOK'
    BY <2>2, <2>3 DEF PathOK, GridOK, OnItsWay, Aligned
  <2>5. PathOK'
    BY <2>3, <2>4 DEF PathOK, DOROK, ValiantOK, DOALOK, AdaptiveOK, Grids
  <2>6. HopsOK' /\ ShortPath'
    <3>1. pkt'.val = pkt.val
      BY <1>2, <2>1 DEF Packets
    <3>2. QED BY <2>2, <3>1, LocalHops DEF Grids
  <2>7. QED BY <2>3, <2>5, <2>6 DEF Ordered
<1>6. CASE Target # at
  (* The dimension that it goes on in. *)
  <2>1. PICK d \in Dims : /\ d = First({e \in Unaligned(at, Target) : e >= pkt.dim})
                          /\ d >= pkt.dim /\ ~Aligned(d, Target)
                          /\ \A e \in Dims : e < d => Aligned(e, Target)
    <3>1. PICK D \in SUBSET Dims : D = {e \in Unaligned(at, Target) : e >= pkt.dim}
      BY DEF Unaligned
    <3>2. Unaligned(at, Target) # {}
      BY <1>2, <1>6, UnalignedSome
    <3>3. \A e \in Dims : e \in D <=> ~Aligned(e, Target)
      BY <1>2, <3>1, ShapeType DEF Unaligned, Aligned
    <3>4. D # {}
      BY <3>2, <3>3 DEF Unaligned, Aligned
    <3>5. First(D) \in D /\ \A e \in D : First(D) <= e
      BY <3>4, FirstIsLeast
    <3>6. \A e \in Dims : e < First(D) => ~(First(D) <= e)
      <4>1. \A e \in Dims : e \in Nat
        BY ShapeType
      <4>2. \A e, m \in Nat : e < m => ~(m <= e)
        OBVIOUS
      <4>3. QED BY <3>5, <4>1, <4>2
    <3>7. QED BY <3>1, <3>3, <3>5, <3>6
  <2>2. PICK n \in Nat \ {0}, y \in Nat, z \in Nat :
            /\ n = Shape[d] /\ y = Location(at)[d] /\ z = Location(Target)[d]
            /\ y \in 0 .. n - 1 /\ z \in 0 .. n - 1 /\ y # z
    <3>1. Location(at)[d] \in 0 .. Shape[d] - 1 /\ Location(Target)[d] \in 0 .. Shape[d] - 1
      BY <1>2, LocationType, ShapeType
    <3>2. Shape[d] \in Nat \ {0} /\ Location(at)[d] \in Nat /\ Location(Target)[d] \in Nat
      BY <3>1, ShapeType
    <3>3. Location(at)[d] # Location(Target)[d]
      BY <2>1 DEF Aligned
    <3>4. QED BY <3>1, <3>2, <3>3
  <2>3. PICK up \in BOOLEAN : up = goUp(alg, y, z, n)
    <3>1. goUp(alg, y, z, n) \in BOOLEAN
      <4>1. (y < z) \in BOOLEAN /\ ((z + n - y) % n <= (y + n - z) % n) \in BOOLEAN
        OBVIOUS
      <4>2. QED BY <4>1, Zenon DEF goUp, meshUp, torusUp
    <3>2. QED BY <3>1
  <2>4. PICK v : v = torusVC(at, d, pkt, isHostPort(alg, port))
    OBVIOUS
  <2>5. pkt' = [pkt EXCEPT !.next = TorusPort(d, up), !.dim = d, !.vc = v]
    BY <1>1, <1>6, <2>1, <2>2, <2>3, <2>4 DEF routeTorus, Target
  (* Its VC. *)
  <2>6. v = IF y = 0 /\ channel # NoChannel THEN Toggled(pkt.vc)
            ELSE IF d > pkt.dim THEN FirstVC ELSE pkt.vc
    BY <1>2, <1>3, <1>4, <2>2, <2>4, TorusVCs DEF torusVC
  <2>7. v \in {FirstVC, FirstVC + 1}
    BY <1>2, <1>4, <2>6, TorusVCs
  <2>8. Kept /\ pkt'.next = TorusPort(d, up) /\ pkt'.vc = v /\ pkt'.dim = d
    <3>1. v \in Nat /\ d \in 0 .. Len(Shape)
      BY <1>2, <2>7, ShapeType
    <3>2. QED BY <1>2, <2>5, <3>1 DEF Kept, Packets
  <2>9. /\ Hop /\ Lands(d, Around(y, n, up))
        /\ PortDim(pkt'.next) = d /\ PortUp(pkt'.next) = up
    BY <2>2, <2>8, GridCross
  <2>10. /\ TypeOK' /\ FromHostOK' /\ VCOK' /\ DeliveredRight'
         /\ Target' = Target /\ FirstVC' = FirstVC /\ channel' # NoChannel
         /\ channel'[1] = at /\ channel'[2] = pkt'.next /\ channel'[3] = pkt'.vc
    BY <2>8, <2>9, CrossKeeps
  (* On in the same dimension: the same direction. *)
  <2>11. ASSUME d = pkt.dim, channel # NoChannel
         PROVE  \E x \in 0 .. n - 1 :
                   /\ x = Location(channel[1])[d] /\ PortDim(channel[2]) = d
                   /\ PortUp(channel[2]) = up /\ y = Around(x, n, up)
                   /\ pkt.vc % 2 = 1 => Behind(x, z, up)
    <3>1. PICK x : x = Location(channel[1])[d]
      OBVIOUS
    <3>2. x \in 0 .. n - 1
      BY <2>2, <2>11, <3>1, LocationType, ShapeType DEF TypeOK
    <3>3. PortDim(channel[2]) = d /\ OnItsWay(d, PortUp(channel[2]), x)
      BY <2>11, <3>1 DEF PathOK, GridOK
    <3>4. /\ y = Around(x, n, PortUp(channel[2])) /\ up = PortUp(channel[2])
          /\ pkt.vc % 2 = 1 => Behind(x, z, PortUp(channel[2]))
      BY <2>2, <2>3, <3>3 DEF OnItsWay
    <3>5. QED BY <3>1, <3>2, <3>3, <3>4
  <2>12. v % 2 = 1 => Behind(y, z, up)
    <3> SUFFICES ASSUME v % 2 = 1 PROVE Behind(y, z, up)
      OBVIOUS
    <3>1. CASE y = 0
      BY <2>2, <3>1 DEF Behind
    <3>2. CASE y # 0
      <4>1. v = pkt.vc /\ ~(d > pkt.dim)
        BY <1>4, <2>6, <3>2
      <4>2. d = pkt.dim
        BY <1>2, <2>1, <4>1, ShapeType
      <4>3. channel # NoChannel
        BY <1>4, <4>1 DEF VCOK
      <4>4. PICK x \in 0 .. n - 1 : y = Around(x, n, up) /\ Behind(x, z, up)
        BY <2>11, <4>1, <4>2, <4>3
      <4>5. QED BY <2>2, <4>4, BehindKept
    <3>3. QED BY <3>1, <3>2
  <2>13. GridOK'
    <3>1. alg' = alg /\ Location(at')[d] = Around(y, n, up)
      BY <2>9 DEF Lands
    <3>2. ASSUME NEW e \in Dims, e < d PROVE Aligned(e, Target)'
      <4>1. e # d
        BY <3>2, ShapeType
      <4>2. Location(at')[e] = Location(at)[e]
        BY <2>9, <4>1 DEF Lands
      <4>3. QED BY <2>1, <2>10, <3>2, <4>2 DEF Aligned
    <3>3. PICK w : w = Location(at')[d]
      OBVIOUS
    <3>4. w \in 0 .. n - 1
      BY <2>2, <2>9, <3>3, LocationType, ShapeType DEF Lands
    <3>5. w # z => goUp(alg, w, z, n) = up
      BY <2>2, <2>3, <3>1, <3>3, <3>4, GoUpKept
    <3>6. OnItsWay(d, up, y)'
      BY <2>2, <2>8, <2>10, <2>12, <3>1, <3>3, <3>5 DEF OnItsWay
    <3>7. PortUp(channel'[2]) = up /\ PortDim(channel'[2]) = d /\ Location(channel'[1])[d] = y
      BY <2>2, <2>9, <2>10
    <3>8. QED BY <2>7, <2>8, <2>10, <3>2, <3>6, <3>7 DEF GridOK
  <2>14. PathOK'
    BY <2>9, <2>13 DEF PathOK, DOROK, ValiantOK, DOALOK, AdaptiveOK, Grids, Lands
  <2>15. Ordered
    <3> SUFFICES ASSUME channel # NoChannel PROVE Less(Number(channel), Number(channel'))
      BY DEF Ordered
    <3>1. PortDim(channel[2]) = pkt.dim /\ channel[3] = pkt.vc
      BY DEF PathOK, GridOK, VCOK
    <3>2. /\ Number(channel) = <<pkt.dim, pkt.vc % 2, Position(channel[1], channel[2])>>
          /\ Number(channel') = <<d, v % 2, Position(at, pkt'.next)>>
      BY <2>8, <2>9, <2>10, <3>1 DEF Number, Grids
    <3>3. CASE pkt.dim < d
      BY <3>2, <3>3 DEF Less
    <3>4. CASE pkt.dim = d
      <4>1. PICK x \in 0 .. n - 1 :
                   /\ x = Location(channel[1])[d] /\ PortDim(channel[2]) = d
                   /\ PortUp(channel[2]) = up /\ y = Around(x, n, up)
                   /\ pkt.vc % 2 = 1 => Behind(x, z, up)
        BY <2>11, <3>4
      <4>2. CASE y = 0
        <5>1. pkt.vc % 2 # 1
          <6> SUFFICES ASSUME pkt.vc % 2 = 1 PROVE FALSE
            OBVIOUS
          <6>1. Behind(x, z, up)
            BY <4>1
          <6>2. y # 0
            BY <2>2, <4>1, <6>1, BehindKept
          <6>3. QED BY <4>2, <6>2
        <5>2. pkt.vc % 2 = 0 /\ v % 2 = 1
          BY <1>2, <1>4, <2>6, <4>2, <5>1, TorusVCs
        <5>3. QED BY <3>2, <3>4, <5>2 DEF Less
      <4>3. CASE y # 0
        <5>1. v = pkt.vc
          <6>1. ~(d > pkt.dim)
            BY <3>4, ShapeType
          <6>2. QED BY <2>6, <4>3, <6>1
        <5>2. Position(channel[1], channel[2]) = IF up THEN x ELSE (n - x) % n
          BY <2>2, <4>1 DEF Position
        <5>3. Position(at, pkt'.next) = IF up THEN y ELSE (n - y) % n
          BY <2>2, <2>9 DEF Position
        <5>4. (IF up THEN x ELSE (n - x) % n) < (IF up THEN y ELSE (n - y) % n)
          BY <2>2, <4>1, <4>3, PositionGrows
        <5>5. QED BY <3>2, <3>4, <5>1, <5>2, <5>3, <5>4 DEF Less
      <4>4. QED BY <4>2, <4>3
    <3>5. pkt.dim < d \/ pkt.dim = d
      BY <1>2, <2>1, ShapeType
    <3>6. QED BY <3>3, <3>4, <3>5
  <2>16. HopsOK' /\ ShortPath'
    <3>1. Brings(Target, 1)
      BY <1>2, <2>2, <2>3, <2>9, GridBrings
    <3>2. Progress
      BY <3>1 DEF Progress, Grids
    <3>3. QED BY <2>8, <2>9, <3>2, CrossHops
  <2>17. QED BY <2>10, <2>14, <2>15, <2>16
<1>7. QED BY <1>5, <1>6

-----------------------------------------------------------------------------
(* The initial state satisfies the invariant.                              *)
LEMMA InitIInv == Init => IInv
<1> SUFFICES ASSUME Init PROVE IInv
  OBVIOUS
<1>1. PICK src \in Endpoints, dst \in Endpoints, vn \in VNs :
          /\ get_dest_router(src) = at
          /\ port = LocalPortStart(alg) + (src % LocalPorts)
          /\ pkt \in process_input(alg, at, dst, vn)
  BY DEF Init
<1>2. alg \in Algs /\ alg \in Algorithms /\ at \in Routers /\ channel = NoChannel /\ arrived = FALSE
  BY AlgAssumption DEF Init
<1>3. PICK mid \in Routers :
          pkt = NewPacket(dst, vn, StartVC(alg, vn), IF alg \in Grids THEN 1 ELSE 0, mid)
  BY <1>1, <1>2 DEF process_input
<1>4. /\ pkt.dst = dst /\ pkt.vn = vn /\ pkt.vc = StartVC(alg, vn) /\ pkt.val = FALSE
      /\ pkt.dim = (IF alg \in Grids THEN 1 ELSE 0) /\ pkt.mid = mid
  BY <1>3 DEF NewPacket
<1>5. StartVC(alg, vn) \in Nat
  <2>1. vn \in Nat
    BY AlgAssumption
  <2>2. CASE alg = "mesh"
    BY <2>1, <2>2 DEF StartVC
  <2>3. CASE alg # "mesh"
    BY <1>2, <2>1, <2>3, VCsOfVN
  <2>4. QED BY <2>2, <2>3
<1>6. port \in Nat /\ isHostPort(alg, port)
  BY <1>1, <1>2, LocalPortRight
<1>7. pkt \in Packets
  <2>1. (IF alg \in Grids THEN 1 ELSE 0) \in 0 .. Len(Shape)
    BY ShapeType
  <2>2. QED BY <1>3, <1>5, <2>1 DEF NewPacket, Packets
<1>8. TypeOK
  BY <1>2, <1>6, <1>7 DEF TypeOK
<1>9. FromHostOK /\ VCOK /\ DeliveredRight
  BY <1>2, <1>4, <1>6 DEF FromHostOK, VCOK, DeliveredRight, FirstVC
<1>10. FirstVC = pkt.vc /\ FirstVC \in Nat
  BY <1>4, <1>5 DEF FirstVC
<1>11. GridOK
  <2>1. alg \in Grids => pkt.dim = 1 /\ 1 \in Dims
    BY <1>4, ShapeType
  <2>2. \A e \in Dims : ~(e < 1)
    BY ShapeType
  <2>3. QED BY <1>2, <1>10, <2>1, <2>2 DEF GridOK
<1>12. DOROK /\ ValiantOK /\ DOALOK
  BY <1>2, <1>10 DEF DOROK, ValiantOK, DOALOK
<1>13. AdaptiveOK
  <2> SUFFICES ASSUME alg \in {"MIN-A", "VDAL"} PROVE AdaptiveOK
    BY DEF AdaptiveOK
  <2>1. PICK u \in 0 .. Len(Shape) : u = Cardinality(Unaligned(at, Target))
    BY UnalignedFinite
  <2>2. PICK k \in Nat \ {0} : k = getVCsPerVN(alg) /\ Len(Shape) <= k /\ Len(Shape) \in Nat
    BY ShapeType DEF getVCsPerVN
  <2>3. NextVC(pkt, FirstVC, channel = NoChannel) = FirstVC
    BY <1>2 DEF NextVC
  <2>4. QED BY <1>10, <2>1, <2>2, <2>3 DEF AdaptiveOK
<1>14. HopsOK /\ ShortPath
  <2>1. hops = 0 /\ origin = at /\ Target \in Routers /\ pkt.mid \in Routers
    BY <1>8, Ranges DEF Init
  <2>2. PICK n \in Nat, p \in Nat, q \in Nat :
            /\ n = Distance(alg, at, Target) /\ p = Distance(alg, at, pkt.mid)
            /\ q = Distance(alg, pkt.mid, Target)
    BY <1>2, <2>1, DistanceType
  <2>3. pkt.vc - FirstVC = 0
    BY <1>10
  <2>4. HopsOK
    BY <1>2, <1>4, <2>1, <2>2, <2>3 DEF HopsOK
  <2>5. QED BY <1>2, <2>4 DEF ShortPath
<1>15. QED BY <1>8, <1>9, <1>11, <1>12, <1>13, <1>14 DEF IInv, PathOK

(* A hop, whatever the algorithm.                                          *)
LEMMA RouteStep ==
    ASSUME IInv, Hop \/ Eject
    PROVE  IInv' /\ Ordered
<1>1. alg \in Algorithms
  BY Ranges DEF IInv
<1>2. QED
  BY <1>1, DORStep, ValiantStep, DOALStep, AdaptiveStep, GridStep DEF Algorithms, Grids

(* A step that changes nothing.                                            *)
LEMMA StutterStep ==
    ASSUME IInv, UNCHANGED vars
    PROVE  IInv' /\ channel' = channel
<1> USE DEF vars
<1>1. TypeOK' /\ FromHostOK' /\ VCOK' /\ DeliveredRight'
  BY DEF IInv, TypeOK, FromHostOK, VCOK, FirstVC, DeliveredRight
<1>2. Target' = Target /\ FirstVC' = FirstVC
  BY DEF Target, FirstVC
<1>3. GridOK' /\ DOROK' /\ ValiantOK' /\ DOALOK'
  BY <1>2 DEF IInv, PathOK, GridOK, OnItsWay, DOROK, ValiantOK, DOALOK, DoneTo, Aligned
<1>4. AdaptiveOK'
  BY <1>2 DEF IInv, PathOK, AdaptiveOK, NextVC
<1>5. HopsOK' /\ ShortPath'
  BY <1>2 DEF IInv, HopsOK, ShortPath
<1>6. QED BY <1>1, <1>3, <1>4, <1>5 DEF IInv, PathOK

(* The invariant is inductive, and channels are taken in order.            *)
LEMMA NextIInv == IInv /\ [Next]_vars => IInv' /\ Ordered
<1> SUFFICES ASSUME IInv, [Next]_vars PROVE IInv' /\ Ordered
  OBVIOUS
<1>1. CASE Hop \/ Eject
  BY <1>1, RouteStep
<1>2. CASE UNCHANGED vars
  BY <1>2, StutterStep DEF Ordered
<1>3. QED BY <1>1, <1>2 DEF Next, Done

(* The inductive invariant holds of every behaviour.                       *)
LEMMA Invariance == Spec => []IInv
<1>1. Init => IInv
  BY InitIInv
<1>2. IInv /\ [Next]_vars => IInv'
  BY NextIInv
<1>3. QED BY <1>1, <1>2, PTL DEF Spec

(* The routers never deliver a packet to the wrong endpoint: routing (the  *)
(* ports that torus.cc, mesh.cc and hyperx.cc compute) agrees with the     *)
(* wiring of the front end, whatever the shape and the algorithm.          *)
THEOREM Delivery == Spec => []DeliveredRight
<1>1. IInv => DeliveredRight
  BY DEF IInv
<1>2. QED BY <1>1, Invariance, PTL

(* No packet is ever on a VC that the router has no buffer for or that     *)
(* belongs to another VN, except in a mesh.                                *)
THEOREM VCsSuffice == Spec => []VCInRange
<1>1. IInv => VCInRange
  BY VCBound DEF IInv
<1>2. QED BY <1>1, Invariance, PTL

(* Routing is free of deadlock: every packet asks for channels in          *)
(* increasing order, with every algorithm, so none can be part of a circle.*)
THEOREM ChannelsOrdered == Spec => ChannelOrder
<1>1. IInv /\ [Next]_vars =>
        [channel' # channel /\ channel # NoChannel => Less(Number(channel), Number(channel'))]_vars
  BY NextIInv DEF Ordered
<1>2. QED BY <1>1, Invariance, PTL DEF Spec, ChannelOrder

(* No packet takes a detour that its algorithm does not allow: torus, mesh,*)
(* DOR and MIN-A take shortest paths, DOAL at most twice, valiant goes by  *)
(* the midpoint and VDAL spends its VCs.                                   *)
THEOREM ShortestPaths == Spec => []ShortPath
<1>1. IInv => ShortPath
  BY DEF IInv
<1>2. QED BY <1>1, Invariance, PTL
=============================================================================
