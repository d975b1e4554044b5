--------------------------- MODULE MerlinOrderProofs ---------------------------
(***************************************************************************)
(* A merlin network delivers the packets of a route in the order in which  *)
(* they were sent, and never seizes up.                                    *)
(***************************************************************************)
EXTENDS MerlinProofs

-----------------------------------------------------------------------------
(* The way of a route.  A packet arrives at a router by a port, with the   *)
(* header that the router before has made; it leaves with the header that  *)
(* Onward makes of that.                                                   *)
Origin(rt)      == get_dest_router(rt[1])
Destination(rt) == get_dest_router(rt[2])
Away(rt, r)     == Distance(Alg, r, Destination(rt))
Onward(x, h)    == CHOOSE q \in route_packet(Alg, x[2], x[3], h) : TRUE
NextPort(x, h)  == PortEnd(x[2], Onward(x, h).next)

Headers == [dst : Endpoints, vn : VNs, vc : VCs, dim : 0 .. Len(Shape), mid : Routers,
            val : {FALSE}, next : Nat]

SameIn(d, r, o) == Location(r)[d] = Location(o)[d]

(* What routing keeps true of a packet of the route that arrives at x.     *)
TorusArrival(rt, x, h) ==
    /\ h.dim \in Dims /\ h.vc \in {StartVC(Alg, rt[3]), StartVC(Alg, rt[3]) + 1}
    /\ \A e \in Dims : e < h.dim => SameIn(e, x[2], Destination(rt))
DORArrival(rt, x, h) ==
    /\ h.vc = rt[3]
    /\ \A d \in Dims : InDim(d, x[3]) => \A e \in Dims : e <= d => SameIn(e, x[2], Destination(rt))
Arrival(rt, x, h) ==
    /\ x \in Ports /\ h \in Headers /\ h.dst = rt[2] /\ h.vn = rt[3]
    /\ Alg = "torus" => TorusArrival(rt, x, h)
    /\ Alg = "DOR" => DORArrival(rt, x, h)

(* A packet goes on to a neighbour that is one link closer.                *)
GoesOn(rt, x, q) ==
    /\ PortEnd(x[2], q.next) \in Ports \ HostPorts
    /\ Other[PortEnd(x[2], q.next)] \in Ports \ HostPorts
    /\ Arrival(rt, Other[PortEnd(x[2], q.next)], q)
    /\ Away(rt, Other[PortEnd(x[2], q.next)][2]) + 1 = Away(rt, x[2])

(* In a HyperX with DOR it goes on in a later dimension.                   *)
LaterDim(x, q) == \E d \in Dims : InDim(d, q.next) /\ \A c \in Dims : InDim(c, x[3]) => c < d

(* A packet at its last router leaves by its endpoint's port.              *)
GoesOut(rt, x, q) == q \in Headers /\ PortEnd(x[2], q.next) = HostPort(rt[2])

(* A route joins two endpoints, each at a router of the network.           *)
LEMMA RouteEnds ==
    ASSUME NEW rt \in Routes
    PROVE  /\ rt[1] \in Endpoints /\ rt[2] \in Endpoints /\ rt[3] \in VNs /\ rt[3] \in Nat
           /\ Origin(rt) \in Routers /\ Destination(rt) \in Routers
           /\ Alg \in Algorithms /\ Alg \in {"DOR", "torus"}
BY RouteVN, DestRouter, VCsAre, LinkAssumption DEF Origin, Destination, Algorithms, Grids

(* An endpoint's link ends at its host port.                               *)
LEMMA OtherOfNic ==
    ASSUME NEW e \in Endpoints
    PROVE  /\ NicEnd(e) \in Nics /\ Other[NicEnd(e)] = HostPort(e) /\ Other[HostPort(e)] = NicEnd(e)
<1>1. PICK n : n = NicEnd(e)
  OBVIOUS
<1>2. n \in Nics /\ n \in Ends /\ n[1] = "nic" /\ n[2] = e /\ n \notin HostPorts
  BY <1>1, EndsAre DEF Nics, NicEnd
<1>3. Other[n] = HostPort(n[2])
  BY <1>2 DEF Other, isHost
<1>4. QED BY <1>1, <1>2, <1>3, OtherIs

(* A port between routers is linked to its peer, as the topology wires it. *)
LEMMA OtherIsPeer ==
    ASSUME NEW r \in Routers, NEW p \in 0 .. LocalPortStart(Alg) - 1, NEW o, o = Peer(Alg, r, p)
    PROVE  /\ PortEnd(r, p) \in Ports \ HostPorts
           /\ Other[PortEnd(r, p)] = PortEnd(o[1], o[2])
           /\ PortEnd(o[1], o[2]) \in Ports \ HostPorts
<1>1. Alg \in Algorithms /\ LocalPortStart(Alg) \in Nat
  BY LinkAssumption, StartPorts DEF Algorithms, Grids
<1>2. o \in Routers \X (0 .. LocalPortStart(Alg) - 1)
  BY <1>1, LinksAreTwoWay
<1>3. ASSUME NEW s \in Routers, NEW n \in 0 .. LocalPortStart(Alg) - 1
      PROVE  PortEnd(s, n) \in Ports \ HostPorts
  <2>1. n \in PortNumbers /\ ~isHostPort(Alg, n)
    BY <1>1, ShapeAssumption DEF PortNumbers, isHostPort
  <2>2. QED BY <2>1, EndsAre DEF HostPorts
<1>4. PICK x : x = PortEnd(r, p)
  OBVIOUS
<1>5. x \in Ports \ HostPorts /\ x[2] = r /\ x[3] = p
  BY <1>3, <1>4, EndsAre DEF PortEnd
<1>6. x \in Ends /\ x[1] # "nic" /\ ~isHost(x)
  BY <1>5, EndsAre DEF isHost
<1>7. Other[x] = PortEnd(o[1], o[2])
  BY <1>5, <1>6 DEF Other
<1>8. QED BY <1>2, <1>3, <1>4, <1>7

(* route_packet leaves nothing to choose.                                  *)
LEMMA OnwardIs ==
    ASSUME NEW x, NEW h
    PROVE  /\ Alg = "DOR" => Onward(x, h) = routeDOR(x[2], h)
           /\ Alg = "torus" => Onward(x, h) = routeTorus(Alg, x[2], h, isHostPort(Alg, x[3]))
<1>1. CASE Alg = "DOR"
  <2>1. route_packet(Alg, x[2], x[3], h) = {routeDOR(x[2], h)}
    BY <1>1 DEF route_packet, Grids
  <2>2. QED BY <1>1, <2>1 DEF Onward
<1>2. CASE Alg = "torus"
  <2>1. route_packet(Alg, x[2], x[3], h) = {routeTorus(Alg, x[2], h, isHostPort(Alg, x[3]))}
    BY <1>2 DEF route_packet, Grids
  <2>2. QED BY <1>2, <2>1 DEF Onward
<1>3. QED BY <1>1, <1>2

(* At its last router a packet is routed to the host port of its endpoint. *)
LEMMA LastHop ==
    ASSUME NEW rt \in Routes, NEW x, NEW h, Arrival(rt, x, h), x[2] = Destination(rt)
    PROVE  GoesOut(rt, x, Onward(x, h)) /\ Onward(x, h).vc = h.vc
<1>1. PICK n : n = LocalPortStart(Alg) + (rt[2] % LocalPorts)
  OBVIOUS
<1>2. n \in Nat
  BY <1>1, RouteEnds, LocalPortRight
<1>3. h.dst = rt[2] /\ h \in Headers /\ get_dest_router(h.dst) = x[2]
  BY DEF Arrival, Destination
<1>4. CASE Alg = "DOR"
  <2>1. Onward(x, h) = [h EXCEPT !.next = n]
    BY <1>1, <1>3, <1>4, OnwardIs DEF routeDOR, HyperXLocal, LocalPortStart, Grids
  <2>2. QED BY <1>1, <1>2, <1>3, <2>1 DEF GoesOut, HostPort, Headers, PortEnd
<1>5. CASE Alg = "torus"
  <2>1. Onward(x, h) = [h EXCEPT !.next = n]
    BY <1>1, <1>3, <1>5, OnwardIs DEF routeTorus, TorusLocal, LocalPortStart, Grids
  <2>2. QED BY <1>1, <1>2, <1>3, <2>1 DEF GoesOut, HostPort, Headers, PortEnd
<1>6. QED BY <1>4, <1>5, RouteEnds

(* DOR goes on in a later dimension than the one by which it came.         *)
LEMMA DORHop ==
    ASSUME NEW rt \in Routes, NEW x, NEW h, Arrival(rt, x, h), x[2] # Destination(rt), Alg = "DOR",
           NEW q, q = Onward(x, h)
    PROVE  GoesOn(rt, x, q) /\ LaterDim(x, q) /\ q.vc = rt[3]
<1>1. PICK r, to : r = x[2] /\ to = Destination(rt)
  OBVIOUS
<1>2. r \in Routers /\ to \in Routers /\ r # to /\ h \in Headers /\ h.dst = rt[2] /\ h.vn = rt[3]
  BY <1>1, RouteEnds, EndsAre DEF Arrival
<1>3. PICK D \in SUBSET Dims : D = Unaligned(r, to) /\ D # {}
  BY <1>2, UnalignedSome DEF Unaligned
<1>4. PICK d \in Dims : d = First(D) /\ d \in D /\ \A e \in D : d <= e
  BY <1>3, FirstIsLeast
<1>5. ~SameIn(d, r, to) /\ \A e \in Dims : e < d => SameIn(e, r, to)
  <2>1. \A e \in Dims : e \in Nat
    BY ShapeType
  <2>2. \A e \in Dims : e < d => e \notin D
    BY <1>4, <2>1
  <2>3. QED BY <1>3, <1>4, <2>2 DEF Unaligned, SameIn
<1>6. PICK y : y = Location(to)[d]
  OBVIOUS
<1>7. y \in Beside(r, d)
  BY <1>2, <1>5, <1>6, LocationType, ShapeType DEF Beside, SameIn
<1>8. PICK n : n = offset(r, d, y)
  OBVIOUS
<1>9. InDim(d, n) /\ n \in 0 .. HyperXStart[Len(Shape) + 1] - 1
  BY <1>7, <1>2, <1>8, OffsetIsWired, InDimRange
<1>10. q = [h EXCEPT !.next = n]
  BY <1>1, <1>2, <1>3, <1>4, <1>6, <1>8, OnwardIs DEF routeDOR, routeDORBase, Destination
<1>11. q \in Headers /\ q.next = n /\ q.vc = h.vc /\ q.dst = h.dst /\ q.vn = h.vn
  <2>1. n \in Nat
    BY <1>9
  <2>2. QED BY <1>2, <1>10, <2>1 DEF Headers
<1>12. h.vc = rt[3]
  BY DEF Arrival, DORArrival
<1>13. PICK o : o = Moved(r, d, y)
  OBVIOUS
<1>14. /\ y \in 0 .. Shape[d] - 1 /\ Location(r)[d] \in Beside(o, d)
       /\ HyperXPeer(r, n) = <<o, offset(o, d, Location(r)[d])>>
  BY <1>2, <1>7, <1>8, <1>13, HyperXPeerOffset
<1>15. o \in Routers /\ Location(o)[d] = y /\ \A e \in Dims \ {d} : Location(o)[e] = Location(r)[e]
  BY <1>2, <1>13, <1>14, MovedLocation
<1>16. PICK m : m = offset(o, d, Location(r)[d])
  OBVIOUS
<1>17. InDim(d, m)
  BY <1>14, <1>15, <1>16, OffsetIsWired
<1>18. PICK z : z = PortEnd(o, m)
  OBVIOUS
<1>19. PortEnd(r, n) \in Ports \ HostPorts /\ Other[PortEnd(r, n)] = z /\ z \in Ports \ HostPorts
  <2>1. n \in 0 .. LocalPortStart(Alg) - 1
    BY <1>9 DEF LocalPortStart, Grids
  <2>2. PICK u : u = Peer(Alg, r, n) /\ u[1] = o /\ u[2] = m
    BY <1>14, <1>16 DEF Peer, Grids
  <2>3. QED BY <1>2, <1>18, <2>1, <2>2, OtherIsPeer
<1>20. z[2] = o /\ z[3] = m
  BY <1>18 DEF PortEnd
<1>21. \A e \in Dims : e <= d => SameIn(e, o, to)
  <2>1. SUFFICES ASSUME NEW e \in Dims, e <= d PROVE SameIn(e, o, to)
    OBVIOUS
  <2>2. e = d \/ e < d
    BY <2>1, ShapeType
  <2>3. QED BY <1>5, <1>6, <1>15, <2>2 DEF SameIn
<1>22. Arrival(rt, z, q)
  <2>1. DORArrival(rt, z, q)
    BY <1>1, <1>11, <1>12, <1>17, <1>20, <1>21, InDimUnique DEF DORArrival
  <2>2. QED BY <1>2, <1>11, <1>19, <2>1 DEF Arrival
<1>23. Away(rt, o) + 1 = Away(rt, r)
  <2>1. Apart(Alg, Location(o)[d], Location(to)[d], Shape[d]) = 0
    BY <1>6, <1>15 DEF Apart
  <2>2. Apart(Alg, Location(r)[d], Location(to)[d], Shape[d]) = 1
    BY <1>5 DEF Apart, SameIn
  <2>3. QED BY <1>1, <1>2, <1>15, <2>1, <2>2, Closer DEF Away
<1>24. LaterDim(x, q)
  <2>1. ASSUME NEW c \in Dims, InDim(c, x[3]) PROVE c < d
    <3>1. \A e \in Dims : e <= c => SameIn(e, r, to)
      BY <1>1, <2>1 DEF Arrival, DORArrival
    <3>2. ~(d <= c)
      BY <1>5, <3>1
    <3>3. QED BY <3>2, ShapeType
  <2>2. QED BY <1>9, <1>11, <2>1 DEF LaterDim
<1>25. GoesOn(rt, x, q)
  BY <1>1, <1>11, <1>19, <1>20, <1>22, <1>23 DEF GoesOn
<1>26. QED BY <1>11, <1>12, <1>24, <1>25

(* A torus goes on, the shorter way round.                                 *)
LEMMA TorusHop ==
    ASSUME NEW rt \in Routes, NEW x, NEW h, Arrival(rt, x, h), x[2] # Destination(rt), Alg = "torus",
           NEW q, q = Onward(x, h)
    PROVE  GoesOn(rt, x, q)
<1>1. PICK r, to : r = x[2] /\ to = Destination(rt)
  OBVIOUS
<1>2. /\ r \in Routers /\ to \in Routers /\ r # to /\ h \in Headers /\ h.dst = rt[2] /\ h.vn = rt[3]
      /\ TorusArrival(rt, x, h) /\ h.dim \in Dims
  BY <1>1, RouteEnds, EndsAre DEF Arrival, TorusArrival
<1>3. PICK f \in Nat : f = StartVC(Alg, rt[3]) /\ f % 2 = 0
  <2>1. StartVC(Alg, rt[3]) = rt[3] * 2 /\ rt[3] \in Nat
    BY RouteEnds DEF StartVC, getVCsPerVN
  <2>2. QED BY <2>1
<1>4. PICK d \in Dims : /\ d = First({e \in Unaligned(r, to) : e >= h.dim}) /\ d >= h.dim
                        /\ ~SameIn(d, r, to) /\ \A e \in Dims : e < d => SameIn(e, r, to)
  <2>1. PICK D \in SUBSET Dims : D = {e \in Unaligned(r, to) : e >= h.dim}
    BY DEF Unaligned
  <2>2. Unaligned(r, to) # {}
    BY <1>2, UnalignedSome
  <2>3. \A e \in Dims : e \in D <=> ~SameIn(e, r, to)
    BY <1>1, <1>2, <2>1, ShapeType DEF Unaligned, SameIn, TorusArrival
  <2>4. D # {}
    BY <2>2, <2>3 DEF Unaligned, SameIn
  <2>5. First(D) \in D /\ \A e \in D : First(D) <= e
    BY <2>4, FirstIsLeast
  <2>6. \A e \in Dims : e < First(D) => ~(First(D) <= e)
    <3>1. \A e \in Dims : e \in Nat
      BY ShapeType
    <3>2. \A e, m \in Nat : e < m => ~(m <= e)
      OBVIOUS
    <3>3. QED BY <2>5, <3>1, <3>2
  <2>7. QED BY <2>1, <2>3, <2>5, <2>6
<1>5. PICK n \in Nat \ {0}, y \in Nat, z \in Nat :
          /\ n = Shape[d] /\ y = Location(r)[d] /\ z = Location(to)[d]
          /\ y \in 0 .. n - 1 /\ z \in 0 .. n - 1 /\ y # z
  <2>1. Location(r)[d] \in 0 .. Shape[d] - 1 /\ Location(to)[d] \in 0 .. Shape[d] - 1
    BY <1>2, LocationType, ShapeType
  <2>2. Shape[d] \in Nat \ {0} /\ Location(r)[d] \in Nat /\ Location(to)[d] \in Nat
    BY <2>1, ShapeType
  <2>3. QED BY <1>4, <2>1, <2>2 DEF SameIn
<1>6. PICK up \in BOOLEAN : up = goUp(Alg, y, z, n)
  <2>1. goUp(Alg, y, z, n) \in BOOLEAN
    <3>1. ((z + n - y) % n <= (y + n - z) % n) \in BOOLEAN
      OBVIOUS
    <3>2. goUp(Alg, y, z, n) = torusUp(y, z, n)
      BY DEF goUp
    <3>3. QED BY <3>1, <3>2, Zenon DEF torusUp
  <2>2. QED BY <2>1
<1>7. PICK v : v = torusVC(r, d, h, isHostPort(Alg, x[3]))
  OBVIOUS
<1>8. PICK p : p = TorusPort(d, up)
  OBVIOUS
<1>9. q = [h EXCEPT !.next = p, !.dim = d, !.vc = v]
  <2>1. get_dest_router(h.dst) = to
    BY <1>1, <1>2 DEF Destination
  <2>2. q = routeTorus(Alg, r, h, isHostPort(Alg, x[3]))
    BY <1>1, OnwardIs
  <2>3. First({e \in Unaligned(r, to) : e >= h.dim}) = d
    BY <1>4
  <2>4. goUp(Alg, Location(r)[d], Location(to)[d], Shape[d]) = up
    BY <1>5, <1>6
  <2>5. QED BY <1>2, <1>7, <1>8, <2>1, <2>2, <2>3, <2>4, Zenon DEF routeTorus
<1>10. v \in {f, f + 1}
  <2>1. h.vc \in {f, f + 1}
    BY <1>2, <1>3 DEF TorusArrival
  <2>2. v = Toggled(h.vc) \/ v = Reset(h.vc) \/ v = h.vc
    BY <1>7 DEF torusVC
  <2>3. QED BY <1>3, <2>1, <2>2, TorusVCs
<1>11. p \in 0 .. 2 * Len(Shape) - 1 /\ PortDim(p) = d /\ PortUp(p) = up
  BY <1>8, TorusPortOf
<1>12. v \in VCs
  <2>1. rt[3] \in 0 .. NumVNs - 1 /\ NumVNs \in Nat
    BY RouteEnds, LinkAssumption DEF VNs
  <2>2. f = rt[3] * 2 /\ VCs = 0 .. NumVNs * 2 - 1
    BY <1>3 DEF StartVC, getVCsPerVN, VCs
  <2>3. QED BY <1>10, <2>1, <2>2
<1>13. q \in Headers /\ q.next = p /\ q.vc = v /\ q.dst = h.dst /\ q.vn = h.vn /\ q.dim = d
  <2>1. p \in Nat /\ d \in 0 .. Len(Shape)
    BY <1>11, ShapeType
  <2>2. QED BY <1>2, <1>9, <1>12, <2>1 DEF Headers
<1>14. PICK w : w = Around(y, n, up)
  OBVIOUS
<1>15. PICK o, m : o = Moved(r, d, w) /\ m = TorusPort(d, ~up)
  OBVIOUS
<1>16. w \in 0 .. n - 1 /\ TorusPeer(r, p) = <<o, m>>
  BY <1>2, <1>5, <1>8, <1>14, <1>15, TorusPeerPort
<1>17. o \in Routers /\ Location(o)[d] = w /\ \A e \in Dims \ {d} : Location(o)[e] = Location(r)[e]
  BY <1>2, <1>5, <1>15, <1>16, MovedLocation
<1>18. PICK t : t = PortEnd(o, m)
  OBVIOUS
<1>19. PortEnd(r, p) \in Ports \ HostPorts /\ Other[PortEnd(r, p)] = t /\ t \in Ports \ HostPorts
  <2>1. p \in 0 .. LocalPortStart(Alg) - 1
    BY <1>11 DEF LocalPortStart, Grids
  <2>2. PICK u : u = Peer(Alg, r, p) /\ u[1] = o /\ u[2] = m
    BY <1>16 DEF Peer, Grids
  <2>3. QED BY <1>2, <1>18, <2>1, <2>2, OtherIsPeer
<1>20. t[2] = o /\ t[3] = m
  BY <1>18 DEF PortEnd
<1>21. \A e \in Dims : e < d => SameIn(e, o, to)
  <2>1. SUFFICES ASSUME NEW e \in Dims, e < d PROVE SameIn(e, o, to)
    OBVIOUS
  <2>2. e # d
    BY <2>1, ShapeType
  <2>3. QED BY <1>4, <1>17, <2>1, <2>2 DEF SameIn
<1>22. Arrival(rt, t, q)
  <2>1. TorusArrival(rt, t, q)
    BY <1>1, <1>3, <1>10, <1>13, <1>20, <1>21 DEF TorusArrival
  <2>2. QED BY <1>2, <1>13, <1>19, <2>1 DEF Arrival
<1>23. Away(rt, o) + 1 = Away(rt, r)
  <2>1. Apart(Alg, w, z, n) + 1 = Apart(Alg, y, z, n)
    BY <1>5, <1>6, <1>14, <1>16, GoUpCloser DEF Grids
  <2>2. QED BY <1>1, <1>2, <1>5, <1>17, <2>1, Closer DEF Away
<1>24. QED BY <1>1, <1>13, <1>19, <1>20, <1>22, <1>23 DEF GoesOn

(* Short of its last router a packet goes one link closer.                 *)
LEMMA NextHop ==
    ASSUME NEW rt \in Routes, NEW x, NEW h, Arrival(rt, x, h), x[2] # Destination(rt)
    PROVE  GoesOn(rt, x, Onward(x, h))
BY DORHop, TorusHop, RouteEnds

(* Where the packets of a route start, and how they go on.                 *)
FirstStop(rt) == <<HostPort(rt[1]), NewPacket(rt[2], rt[3], StartVC(Alg, rt[3]),
                                              IF Alg \in Grids THEN 1 ELSE 0, Origin(rt))>>
NextStop(rt, a) == IF a[1][2] = Destination(rt) THEN a
                   ELSE <<Other[NextPort(a[1], a[2])], Onward(a[1], a[2])>>
Arrivals(rt) == {a \in Ports \X Headers : Arrival(rt, a[1], a[2])}

(* The routers on the way, and the way: the ports by which a packet comes  *)
(* in at them, with its header there.                                      *)
Stops(rt) == Away(rt, Origin(rt)) + 1
IsWay(rt, w) == /\ w \in [1 .. Stops(rt) -> Arrivals(rt)]
                /\ w[1] = FirstStop(rt)
                /\ \A i \in 1 .. Stops(rt) - 1 : w[i + 1] = NextStop(rt, w[i])
Way(rt) == CHOOSE w : IsWay(rt, w)

(* The first stop is what process_input makes of a packet.                 *)
LEMMA FirstArrival ==
    ASSUME NEW rt \in Routes
    PROVE  /\ FirstStop(rt) \in Arrivals(rt) /\ FirstStop(rt)[1] = HostPort(rt[1])
           /\ HostPort(rt[1]) \in HostPorts /\ HostPort(rt[1])[2] = Origin(rt)
           /\ process_input(Alg, Origin(rt), rt[2], rt[3]) = {FirstStop(rt)[2]}
<1>1. PICK x, h : <<x, h>> = FirstStop(rt)
  BY DEF FirstStop
<1>2. /\ x = HostPort(rt[1])
      /\ h = NewPacket(rt[2], rt[3], StartVC(Alg, rt[3]), IF Alg \in Grids THEN 1 ELSE 0, Origin(rt))
  BY <1>1 DEF FirstStop
<1>3. x \in HostPorts /\ x[2] = Origin(rt) /\ x[3] = LocalPortStart(Alg) + (rt[1] % LocalPorts)
  BY <1>2, RouteEnds, HostPortIs DEF HostPort, PortEnd, Origin
<1>4. h \in Headers
  <2>1. 1 \in 0 .. Len(Shape) /\ 0 \in 0 .. Len(Shape)
    BY ShapeType
  <2>2. StartVC(Alg, rt[3]) \in VCs
    BY StartVCIs, RouteEnds
  <2>3. QED BY <1>2, <2>1, <2>2, RouteEnds DEF NewPacket, Headers
<1>5. h.dst = rt[2] /\ h.vn = rt[3] /\ h.vc = StartVC(Alg, rt[3]) /\ h.dim = IF Alg \in Grids THEN 1 ELSE 0
  BY <1>2 DEF NewPacket
<1>6. Alg = "torus" => TorusArrival(rt, x, h)
  <2>1. 1 \in Dims /\ \A e \in Dims : ~(e < 1)
    BY ShapeType
  <2>2. QED BY <1>5, <2>1 DEF TorusArrival, Grids
<1>7. Alg = "DOR" => DORArrival(rt, x, h)
  <2>1. SUFFICES ASSUME Alg = "DOR" PROVE DORArrival(rt, x, h)
    OBVIOUS
  <2>2. h.vc = rt[3]
    BY <1>5, <2>1, StartVCIs, RouteEnds
  <2>3. ASSUME NEW d \in Dims PROVE ~InDim(d, x[3])
    <3>1. PICK b, c : b = HyperXStart[Len(Shape) + 1] /\ c = rt[1] % LocalPorts
      OBVIOUS
    <3>2. b \in Nat /\ c \in Nat
      <4>1. Len(Shape) + 1 \in 1 .. Len(Shape) + 1
        BY ShapeType
      <4>2. b \in Nat
        BY <3>1, <4>1, HyperXStartDef
      <4>3. c \in 0 .. LocalPorts - 1 /\ LocalPorts \in Nat
        BY <3>1, RouteEnds, DestRouter, ShapeAssumption
      <4>4. QED BY <4>2, <4>3
    <3>3. x[3] = b + c
      BY <1>3, <2>1, <3>1 DEF LocalPortStart, Grids
    <3>4. InDim(d, x[3]) => x[3] \in 0 .. b - 1
      BY <3>1, InDimRange
    <3>5. QED BY <3>2, <3>3, <3>4
  <2>4. QED BY <2>2, <2>3 DEF DORArrival
<1>8. Arrival(rt, x, h)
  BY <1>3, <1>4, <1>5, <1>6, <1>7, EndsAre DEF Arrival
<1>9. process_input(Alg, Origin(rt), rt[2], rt[3]) = {h}
  BY <1>2, RouteEnds DEF process_input
<1>10. QED BY <1>1, <1>2, <1>3, <1>4, <1>8, <1>9, EndsAre DEF Arrivals

(* A way has one stop or more.                                             *)
LEMMA StopsType ==
    ASSUME NEW rt \in Routes
    PROVE  Stops(rt) \in Nat \ {0} /\ \A r \in Routers : Away(rt, r) \in Nat
BY RouteEnds, DistanceType DEF Stops, Away

(* A stop is a port and a header.                                          *)
LEMMA ArrivalIs ==
    ASSUME NEW rt, NEW a \in Arrivals(rt)
    PROVE  /\ a = <<a[1], a[2]>> /\ Arrival(rt, a[1], a[2]) /\ a[1] \in Ports /\ a[1][2] \in Routers
           /\ a[2] \in Headers /\ a[2].vc \in VCs
<1>1. a \in Ports \X Headers /\ Arrival(rt, a[1], a[2])
  BY DEF Arrivals
<1>2. a = <<a[1], a[2]>> /\ a[1] \in Ports /\ a[2] \in Headers
  BY <1>1
<1>3. a[1][2] \in Routers
  BY <1>2, EndsAre
<1>4. \A h \in Headers : h.vc \in VCs
  BY DEF Headers
<1>5. QED BY <1>1, <1>2, <1>3, <1>4

(* From a stop on the way the next stop is on the way too.                 *)
LEMMA NextArrival ==
    ASSUME NEW rt \in Routes, NEW a \in Arrivals(rt)
    PROVE  NextStop(rt, a) \in Arrivals(rt)
<1>1. CASE a[1][2] = Destination(rt)
  BY <1>1 DEF NextStop
<1>2. CASE a[1][2] # Destination(rt)
  <2>1. PICK z, q : z = Other[NextPort(a[1], a[2])] /\ q = Onward(a[1], a[2])
    OBVIOUS
  <2>2. Arrival(rt, z, q)
    BY <1>2, <2>1, ArrivalIs, NextHop DEF GoesOn, NextPort
  <2>3. NextStop(rt, a) = <<z, q>>
    BY <1>2, <2>1 DEF NextStop
  <2>4. QED BY <2>2, <2>3 DEF Arrivals, Arrival
<1>3. QED BY <1>1, <1>2

(* There is such a way.                                                    *)
LEMMA WayIs ==
    ASSUME NEW rt \in Routes
    PROVE  IsWay(rt, Way(rt))
<1>1. PICK n \in Nat : n + 1 = Stops(rt)
  BY StopsType
<1>2. PICK A : A = Arrivals(rt)
  OBVIOUS
<1>3. PICK F : F = [i \in 1 .. n |-> [a \in A |-> NextStop(rt, a)]]
  OBVIOUS
<1>4. F \in [1 .. n -> [A -> A]]
  BY <1>2, <1>3, NextArrival
<1>5. FirstStop(rt) \in A
  BY <1>2, FirstArrival
<1>6. PICK g \in [1 .. n + 1 -> A] : g[1] = FirstStop(rt) /\ \A i \in 1 .. n : g[i + 1] = F[i][g[i]]
  BY <1>4, <1>5, RecursionExists
<1>7. \A i \in 1 .. n : g[i + 1] = NextStop(rt, g[i])
  BY <1>3, <1>6
<1>8. Stops(rt) - 1 = n
  BY <1>1
<1>9. IsWay(rt, g)
  BY <1>1, <1>2, <1>6, <1>7, <1>8 DEF IsWay
<1>10. QED BY <1>9 DEF Way

(* The stops of the way follow each other.                                 *)
LEMMA WayStep ==
    ASSUME NEW rt \in Routes, NEW i \in 1 .. Stops(rt)
    PROVE  /\ Way(rt)[i] \in Arrivals(rt)
           /\ i + 1 <= Stops(rt) => Way(rt)[i + 1] = NextStop(rt, Way(rt)[i])
<1>1. i + 1 <= Stops(rt) => i \in 1 .. Stops(rt) - 1
  BY StopsType
<1>2. QED BY <1>1, WayIs DEF IsWay

(* At the i-th stop all but i of the stops are still ahead.                *)
LEMMA WayAway ==
    ASSUME NEW rt \in Routes
    PROVE  \A i \in 1 .. Stops(rt) : Away(rt, Way(rt)[i][1][2]) + i = Stops(rt)
<1> DEFINE T == {k \in Nat : k + 1 <= Stops(rt) => Away(rt, Way(rt)[k + 1][1][2]) + (k + 1) = Stops(rt)}
<1>1. 0 \in T
  <2>1. Way(rt)[1] = FirstStop(rt)
    BY WayIs DEF IsWay
  <2>2. Way(rt)[1][1][2] = Origin(rt)
    BY <2>1, FirstArrival
  <2>3. QED BY <2>2 DEF Stops
<1>2. ASSUME NEW k \in Nat, k \in T PROVE k + 1 \in T
  <2>1. SUFFICES ASSUME k + 1 + 1 <= Stops(rt)
                 PROVE  Away(rt, Way(rt)[k + 1 + 1][1][2]) + (k + 1 + 1) = Stops(rt)
    OBVIOUS
  <2>2. PICK a : a = Way(rt)[k + 1]
    OBVIOUS
  <2>3. a \in Arrivals(rt) /\ Way(rt)[k + 1 + 1] = NextStop(rt, a)
    BY <2>1, <2>2, WayStep, StopsType
  <2>4. Away(rt, a[1][2]) + (k + 1) = Stops(rt)
    BY <1>2, <2>1, <2>2, StopsType
  <2>5. a[1][2] # Destination(rt)
    BY <2>1, <2>4, StopsType, RouteEnds, DistanceSelf DEF Away
  <2>6. GoesOn(rt, a[1], Onward(a[1], a[2]))
    BY <2>3, <2>5, ArrivalIs, NextHop
  <2>7. Away(rt, NextStop(rt, a)[1][2]) + 1 = Away(rt, a[1][2])
    BY <2>5, <2>6 DEF NextStop, GoesOn, NextPort
  <2>8. PICK m \in Nat : m = Away(rt, NextStop(rt, a)[1][2])
    BY <2>3, NextArrival, ArrivalIs, StopsType
  <2>9. QED BY <2>3, <2>4, <2>7, <2>8, StopsType
<1>3. \A k \in Nat : k \in T
  <2> HIDE DEF T
  <2> QED BY <1>1, <1>2, SetInduction, Zenon
<1>4. SUFFICES ASSUME NEW i \in 1 .. Stops(rt) PROVE Away(rt, Way(rt)[i][1][2]) + i = Stops(rt)
  OBVIOUS
<1>5. PICK k \in Nat : k + 1 = i
  BY StopsType
<1>6. QED BY <1>3, <1>5, StopsType

(* A packet of the route comes in by x, with header h.                     *)
Visits(rt, x, h) == \E i \in 1 .. Stops(rt) : Way(rt)[i] = <<x, h>>

(* A stop on the way of a route.                                           *)
LEMMA VisitIs ==
    ASSUME NEW rt \in Routes, NEW x, NEW h, Visits(rt, x, h)
    PROVE  /\ Arrival(rt, x, h) /\ x \in Ports /\ x[2] \in Routers /\ h \in Headers /\ h.vc \in VCs
           /\ Away(rt, x[2]) \in Nat /\ Away(rt, x[2]) < Stops(rt)
           /\ Away(rt, x[2]) = 0 <=> x[2] = Destination(rt)
<1>1. PICK i \in 1 .. Stops(rt) : Way(rt)[i] = <<x, h>>
  BY DEF Visits
<1>2. <<x, h>> \in Arrivals(rt)
  BY <1>1, WayStep
<1>3. Arrival(rt, x, h) /\ x \in Ports /\ x[2] \in Routers /\ h \in Headers /\ h.vc \in VCs
  BY <1>2, ArrivalIs
<1>4. Away(rt, x[2]) + i = Stops(rt) /\ Away(rt, x[2]) \in Nat
  BY <1>1, <1>3, WayAway, StopsType
<1>5. Away(rt, x[2]) < Stops(rt)
  BY <1>4, StopsType
<1>6. ASSUME x[2] = Destination(rt) PROVE Away(rt, x[2]) = 0
  BY <1>6, RouteEnds, DistanceSelf DEF Away
<1>7. ASSUME x[2] # Destination(rt) PROVE Away(rt, x[2]) # 0
  <2>1. PICK z : z = Other[PortEnd(x[2], Onward(x, h).next)]
    OBVIOUS
  <2>2. z \in Ports /\ Away(rt, z[2]) + 1 = Away(rt, x[2])
    BY <1>3, <1>7, <2>1, NextHop DEF GoesOn
  <2>3. Away(rt, z[2]) \in Nat
    BY <2>2, EndsAre, StopsType
  <2>4. QED BY <2>2, <2>3
<1>8. QED BY <1>3, <1>4, <1>5, <1>6, <1>7

(* The way begins at the host port of the sender.                          *)
LEMMA VisitFirst ==
    ASSUME NEW rt \in Routes
    PROVE  /\ Visits(rt, HostPort(rt[1]), FirstStop(rt)[2])
           /\ Away(rt, HostPort(rt[1])[2]) + 1 = Stops(rt)
<1>1. Way(rt)[1] = <<HostPort(rt[1]), FirstStop(rt)[2]>>
  BY WayIs, FirstArrival, ArrivalIs DEF IsWay
<1>2. 1 \in 1 .. Stops(rt)
  BY StopsType
<1>3. QED BY <1>1, <1>2, WayAway DEF Visits

(* The link behind the port that Onward names leads to the next stop.      *)
LEMMA VisitNext ==
    ASSUME NEW rt \in Routes, NEW x, NEW h, Visits(rt, x, h), x[2] # Destination(rt),
           NEW z, z = Other[NextPort(x, h)]
    PROVE  /\ NextPort(x, h) \in Ports \ HostPorts /\ z \in Ports \ HostPorts
           /\ Visits(rt, z, Onward(x, h)) /\ Away(rt, z[2]) + 1 = Away(rt, x[2])
           /\ Onward(x, h).vc \in VCs
<1>1. PICK i \in 1 .. Stops(rt) : Way(rt)[i] = <<x, h>>
  BY DEF Visits
<1>2. Arrival(rt, x, h) /\ Away(rt, x[2]) \in Nat /\ Away(rt, x[2]) # 0
  BY VisitIs
<1>3. Away(rt, x[2]) + i = Stops(rt)
  BY <1>1, WayAway
<1>4. i + 1 <= Stops(rt) /\ i + 1 \in 1 .. Stops(rt)
  BY <1>2, <1>3, StopsType
<1>5. Way(rt)[i + 1] = <<z, Onward(x, h)>>
  <2>1. PICK a : a = Way(rt)[i] /\ a[1] = x /\ a[2] = h
    BY <1>1
  <2>2. Way(rt)[i + 1] = NextStop(rt, a)
    BY <1>4, <2>1, WayStep
  <2>3. QED BY <2>1, <2>2 DEF NextStop
<1>6. GoesOn(rt, x, Onward(x, h))
  BY <1>2, NextHop
<1>7. Onward(x, h).vc \in VCs
  BY <1>6 DEF GoesOn, Arrival, Headers
<1>8. QED BY <1>4, <1>5, <1>6, <1>7 DEF GoesOn, Visits, NextPort

(* The way ends at the endpoint.                                           *)
LEMMA VisitLast ==
    ASSUME NEW rt \in Routes, NEW x, NEW h, Visits(rt, x, h), x[2] = Destination(rt)
    PROVE  /\ NextPort(x, h) = HostPort(rt[2]) /\ NextPort(x, h) \in HostPorts
           /\ Other[NextPort(x, h)] = NicEnd(rt[2]) /\ NicEnd(rt[2]) \in Nics
           /\ Onward(x, h).vc \in VCs
<1>1. Arrival(rt, x, h)
  BY VisitIs
<1>2. GoesOut(rt, x, Onward(x, h))
  BY <1>1, LastHop
<1>3. NextPort(x, h) = HostPort(rt[2]) /\ HostPort(rt[2]) \in HostPorts
  BY <1>2, RouteEnds, HostPortIs DEF GoesOut, NextPort
<1>4. Other[HostPort(rt[2])] = NicEnd(rt[2]) /\ NicEnd(rt[2]) \in Nics
  BY RouteEnds, OtherOfNic
<1>5. QED BY <1>2, <1>3, <1>4 DEF GoesOut, Headers

(* A way comes by each router once.                                        *)
LEMMA VisitSame ==
    ASSUME NEW rt \in Routes, NEW x, NEW h, Visits(rt, x, h), NEW y, NEW g, Visits(rt, y, g),
           Away(rt, x[2]) = Away(rt, y[2])
    PROVE  x = y /\ h = g
<1>1. PICK i \in 1 .. Stops(rt) : Way(rt)[i] = <<x, h>>
  BY DEF Visits
<1>2. PICK j \in 1 .. Stops(rt) : Way(rt)[j] = <<y, g>>
  BY DEF Visits
<1>3. Away(rt, x[2]) + i = Stops(rt) /\ Away(rt, y[2]) + j = Stops(rt) /\ Away(rt, x[2]) \in Nat
  BY <1>1, <1>2, WayAway, VisitIs
<1>4. i = j
  BY <1>3, StopsType
<1>5. QED BY <1>1, <1>2, <1>4

-----------------------------------------------------------------------------
(* The queues of the network, and how far along the way of a route each of *)
(* them is: an endpoint's output, for every router on the way the link to  *)
(* it, its input and its output buffer, the link to the endpoint and its   *)
(* input.                                                                  *)
Places == ({"send", "recv"} \X Nics \X VNs) \cup ({"exit"} \X Nics \X {0})
             \cup ({"wire"} \X Ports \X {0}) \cup ({"in", "out"} \X Ports \X VCs)

Hops(rt, P)  == Stops(rt) - Away(rt, P[2][2])
Stage(rt, P) ==
    CASE P[1] = "send" -> 0
      [] P[1] = "wire" -> 3 * Hops(rt, P) - 2
      [] P[1] = "in"   -> 3 * Hops(rt, P) - 1
      [] P[1] = "out"  -> 3 * Hops(rt, P)
      [] P[1] = "exit" -> 3 * Stops(rt) + 1
      [] P[1] = "recv" -> 3 * Stops(rt) + 2

(* The places that the packets of a route pass.                            *)
GoesBy(rt, x, v) == \E w, h : Visits(rt, w, h) /\ x = NextPort(w, h) /\ v = Onward(w, h).vc
OnWay(rt, P) ==
    /\ P \in Places
    /\ P[1] = "send" => P[2] = NicEnd(rt[1]) /\ P[3] = rt[3]
    /\ P[1] = "wire" => \E h : Visits(rt, P[2], h)
    /\ P[1] = "in"   => \E h : Visits(rt, P[2], h) /\ h.vc = P[3]
    /\ P[1] = "out"  => GoesBy(rt, P[2], P[3])
    /\ P[1] = "exit" => P[2] = NicEnd(rt[2])
    /\ P[1] = "recv" => P[2] = NicEnd(rt[2]) /\ P[3] = rt[3]

(* The parts of a place.                                                   *)
LEMMA PlaceIs ==
    ASSUME NEW P \in Places
    PROVE  /\ P = <<P[1], P[2], P[3]>>
           /\ P[1] \in {"send", "wire", "in", "out", "exit", "recv"}
           /\ P[1] \in {"wire", "exit"} => P[3] = 0
           /\ P[1] \in {"wire", "in", "out"} => P[2] \in Ports
           /\ P[1] \in {"in", "out"} => P[3] \in VCs
           /\ P[1] \in {"send", "exit", "recv"} => P[2] \in Nics
           /\ P[1] \in {"send", "recv"} => P[3] \in VNs
BY DEF Places

(* A place in the network is so many hops from the sender.                 *)
LEMMA HopsAre ==
    ASSUME NEW rt \in Routes, NEW x, NEW h, Visits(rt, x, h)
    PROVE  Stops(rt) - Away(rt, x[2]) \in 1 .. Stops(rt)
BY VisitIs, StopsType

(* A packet leaves by a port of the router it is at.                       *)
LEMMA NextPortIs ==
    ASSUME NEW rt \in Routes, NEW x, NEW h, Visits(rt, x, h)
    PROVE  NextPort(x, h) \in Ports /\ NextPort(x, h)[2] = x[2] /\ Onward(x, h).vc \in VCs
BY VisitNext, VisitLast, EndsAre DEF NextPort, PortEnd

(* The stage of each place.                                                *)
LEMMA StageIs ==
    ASSUME NEW rt \in Routes, NEW P, OnWay(rt, P)
    PROVE  \E k \in 1 .. Stops(rt) :
              /\ P[1] = "send" => Stage(rt, P) = 0
              /\ P[1] = "wire" => Stage(rt, P) = 3 * k - 2
              /\ P[1] = "in"   => Stage(rt, P) = 3 * k - 1
              /\ P[1] = "out"  => Stage(rt, P) = 3 * k
              /\ P[1] = "exit" => Stage(rt, P) = 3 * Stops(rt) + 1
              /\ P[1] = "recv" => Stage(rt, P) = 3 * Stops(rt) + 2
              /\ P[1] \in {"wire", "in", "out"} => Away(rt, P[2][2]) \in Nat /\ Away(rt, P[2][2]) + k = Stops(rt)
<1>1. P \in Places
  BY DEF OnWay
<1>2. CASE P[1] \in {"wire", "in", "out"}
  <2>1. Hops(rt, P) \in 1 .. Stops(rt) /\ Away(rt, P[2][2]) \in Nat
    BY <1>1, <1>2, HopsAre, NextPortIs, VisitIs DEF OnWay, GoesBy, Hops
  <2>2. PICK k \in 1 .. Stops(rt) : k = Hops(rt, P)
    BY <2>1
  <2>3. Away(rt, P[2][2]) + k = Stops(rt)
    BY <2>1, <2>2, StopsType DEF Hops
  <2>4. QED BY <1>2, <2>1, <2>2, <2>3 DEF Stage
<1>3. CASE P[1] \in {"send", "exit", "recv"}
  <2>1. 1 \in 1 .. Stops(rt)
    BY StopsType
  <2>2. QED BY <1>3, <2>1 DEF Stage
<1>4. QED BY <1>1, <1>2, <1>3, PlaceIs

(* Stages are natural numbers, and the last is recv.                       *)
LEMMA StageType ==
    ASSUME NEW rt \in Routes, NEW P, OnWay(rt, P)
    PROVE  Stage(rt, P) \in Nat /\ Stage(rt, P) <= 3 * Stops(rt) + 2
<1>1. PICK s \in Nat : s = Stops(rt)
  BY StopsType
<1>2. PICK k \in 1 .. s :
              /\ P[1] = "send" => Stage(rt, P) = 0
              /\ P[1] = "wire" => Stage(rt, P) = 3 * k - 2
              /\ P[1] = "in"   => Stage(rt, P) = 3 * k - 1
              /\ P[1] = "out"  => Stage(rt, P) = 3 * k
              /\ P[1] = "exit" => Stage(rt, P) = 3 * s + 1
              /\ P[1] = "recv" => Stage(rt, P) = 3 * s + 2
  BY <1>1, StageIs
<1>3. QED BY <1>1, <1>2, PlaceIs DEF OnWay

(* At each stage there is one place.                                       *)
LEMMA StageSame ==
    ASSUME NEW rt \in Routes, NEW P, NEW Q, OnWay(rt, P), OnWay(rt, Q), Stage(rt, P) = Stage(rt, Q)
    PROVE  P = Q
<1>1. PICK s \in Nat \ {0} : s = Stops(rt)
  BY StopsType
<1>2. PICK j \in 1 .. s :
              /\ P[1] = "send" => Stage(rt, P) = 0
              /\ P[1] = "wire" => Stage(rt, P) = 3 * j - 2
              /\ P[1] = "in"   => Stage(rt, P) = 3 * j - 1
              /\ P[1] = "out"  => Stage(rt, P) = 3 * j
              /\ P[1] = "exit" => Stage(rt, P) = 3 * s + 1
              /\ P[1] = "recv" => Stage(rt, P) = 3 * s + 2
              /\ P[1] \in {"wire", "in", "out"} => Away(rt, P[2][2]) \in Nat /\ Away(rt, P[2][2]) + j = s
  BY <1>1, StageIs
<1>3. PICK k \in 1 .. s :
              /\ Q[1] = "send" => Stage(rt, Q) = 0
              /\ Q[1] = "wire" => Stage(rt, Q) = 3 * k - 2
              /\ Q[1] = "in"   => Stage(rt, Q) = 3 * k - 1
              /\ Q[1] = "out"  => Stage(rt, Q) = 3 * k
              /\ Q[1] = "exit" => Stage(rt, Q) = 3 * s + 1
              /\ Q[1] = "recv" => Stage(rt, Q) = 3 * s + 2
              /\ Q[1] \in {"wire", "in", "out"} => Away(rt, Q[2][2]) \in Nat /\ Away(rt, Q[2][2]) + k = s
  BY <1>1, StageIs
<1>4. P \in Places /\ Q \in Places
  BY DEF OnWay
<1>5. /\ P[1] \in {"send", "wire", "in", "out", "exit", "recv"}
      /\ Q[1] \in {"send", "wire", "in", "out", "exit", "recv"}
  BY <1>4, PlaceIs
<1>6. P[1] = Q[1] /\ (P[1] \in {"wire", "in", "out"} => j = k)
  BY <1>2, <1>3, <1>5
<1>7. P[1] \in {"wire", "in", "out"} => Away(rt, P[2][2]) = Away(rt, Q[2][2])
  BY <1>2, <1>3, <1>6
<1>8. CASE P[1] = "wire"
  <2>1. P[2] = Q[2]
    BY <1>6, <1>7, <1>8, VisitSame DEF OnWay
  <2>2. QED BY <1>4, <1>6, <1>8, <2>1, PlaceIs
<1>9. CASE P[1] = "in"
  <2>1. P[2] = Q[2] /\ P[3] = Q[3]
    BY <1>6, <1>7, <1>9, VisitSame DEF OnWay
  <2>2. QED BY <1>4, <1>6, <2>1, PlaceIs
<1>10. CASE P[1] = "out"
  <2>1. PICK w, h : Visits(rt, w, h) /\ P[2] = NextPort(w, h) /\ P[3] = Onward(w, h).vc
    BY <1>10 DEF OnWay, GoesBy
  <2>2. PICK z, g : Visits(rt, z, g) /\ Q[2] = NextPort(z, g) /\ Q[3] = Onward(z, g).vc
    BY <1>6, <1>10 DEF OnWay, GoesBy
  <2>3. w = z /\ h = g
    BY <1>7, <1>10, <2>1, <2>2, NextPortIs, VisitSame
  <2>4. QED BY <1>4, <1>6, <2>1, <2>2, <2>3, PlaceIs
<1>11. CASE P[1] = "send" \/ P[1] = "recv"
  BY <1>4, <1>6, <1>11, PlaceIs DEF OnWay
<1>12. CASE P[1] = "exit"
  BY <1>4, <1>6, <1>12, PlaceIs DEF OnWay
<1>13. QED BY <1>5, <1>8, <1>9, <1>10, <1>11, <1>12

-----------------------------------------------------------------------------
(* The order of packets, in queues C of packets named by route and         *)
(* position: s of a route have been sent, d of them delivered.             *)
Contents(C) == \A P \in Places :
    /\ Len(C[P]) \in Nat /\ DOMAIN C[P] = 1 .. Len(C[P])
    /\ \A i \in 1 .. Len(C[P]) : /\ C[P][i].route \in Routes /\ C[P][i].seq \in Nat
                                 /\ OnWay(C[P][i].route, P)
InOrder(C) == \A P \in Places : \A i, j \in 1 .. Len(C[P]) :
    i < j /\ C[P][i].route = C[P][j].route => C[P][i].seq < C[P][j].seq
AheadFirst(C) == \A P, Q \in Places : \A i \in 1 .. Len(C[P]), j \in 1 .. Len(C[Q]) :
    C[P][i].route = C[Q][j].route /\ Stage(C[P][i].route, Q) < Stage(C[P][i].route, P)
        => C[P][i].seq < C[Q][j].seq
Pending(C, s, d) == \A P \in Places : \A i \in 1 .. Len(C[P]) :
    d[C[P][i].route] <= C[P][i].seq /\ C[P][i].seq < s[C[P][i].route]
Somewhere(C, rt, n) == \E P \in Places : \E i \in 1 .. Len(C[P]) :
    C[P][i].route = rt /\ C[P][i].seq = n
NoneLost(C, s, d) == \A rt \in Routes : \A n \in Nat :
    d[rt] <= n /\ n < s[rt] => Somewhere(C, rt, n)
Ordered(C, s, d) == /\ Contents(C) /\ InOrder(C) /\ AheadFirst(C)
                    /\ Pending(C, s, d) /\ NoneLost(C, s, d)

(* Packets move on, from the fronts of queues to the ends of others that   *)
(* are next on their way; M has the moves.                                 *)
Source(M, P) == \E m \in M : m[1] = P
Target(M, P) == \E m \in M : m[2] = P
Same(p, q) == Len(p) = Len(q) /\ DOMAIN p = 1 .. Len(p) /\ \A i \in 1 .. Len(q) : p[i] = q[i]
MovesOn(C, D, M) ==
    /\ M \subseteq Places \X Places
    /\ \A m \in M : /\ Len(C[m[1]]) # 0
                    /\ OnWay(C[m[1]][1].route, m[2])
                    /\ Stage(C[m[1]][1].route, m[2]) = Stage(C[m[1]][1].route, m[1]) + 1
    /\ \A m, n \in M : m[2] = n[2] => m = n
    /\ \A P \in Places : \/ Source(M, P) /\ ~Target(M, P) /\ IsTail(D[P], C[P])
                         \/ /\ ~Source(M, P)
                            /\ \E m \in M : m[2] = P /\ IsAppend(D[P], C[P], C[m[1]][1])
                         \/ ~Source(M, P) /\ ~Target(M, P) /\ Same(D[P], C[P])

(* The packet at j of Q after the moves was at i of P before.              *)
Was(C, D, M, P, i, Q, j) ==
    /\ P \in Places /\ i \in 1 .. Len(C[P]) /\ C[P][i] = D[Q][j]
    /\ \/ P = Q /\ (Source(M, Q) => i = j + 1) /\ (~Source(M, Q) => i = j)
       \/ <<P, Q>> \in M /\ i = 1 /\ j = Len(D[Q]) /\ ~Source(M, Q)

(* A packet that is in a queue after the move was in one before.           *)
LEMMA WasSomewhere ==
    ASSUME NEW C, NEW D, NEW M, Contents(C), MovesOn(C, D, M),
           NEW Q \in Places, NEW j \in 1 .. Len(D[Q])
    PROVE  Len(D[Q]) \in Nat /\ DOMAIN D[Q] = 1 .. Len(D[Q]) /\ \E P, i : Was(C, D, M, P, i, Q, j)
<1>0. PICK n \in Nat : n = Len(C[Q])
  BY DEF Contents
<1>1. CASE Source(M, Q) /\ ~Target(M, Q) /\ IsTail(D[Q], C[Q])
  <2>1. Len(D[Q]) \in Nat /\ DOMAIN D[Q] = 1 .. Len(D[Q])
    BY <1>0, <1>1 DEF IsTail
  <2>2. j + 1 \in 1 .. Len(C[Q]) /\ C[Q][j + 1] = D[Q][j]
    BY <1>0, <1>1, <2>1 DEF IsTail
  <2>3. Was(C, D, M, Q, j + 1, Q, j)
    BY <1>1, <2>2 DEF Was
  <2>4. QED BY <2>1, <2>3
<1>2. CASE ~Source(M, Q) /\ \E m \in M : m[2] = Q /\ IsAppend(D[Q], C[Q], C[m[1]][1])
  <2>1. PICK m \in M : m[2] = Q /\ IsAppend(D[Q], C[Q], C[m[1]][1])
    BY <1>2
  <2>2. Len(D[Q]) = n + 1 /\ DOMAIN D[Q] = 1 .. Len(D[Q])
    BY <1>0, <2>1 DEF IsAppend
  <2>3. CASE j \in 1 .. n
    <3>1. Was(C, D, M, Q, j, Q, j)
      BY <1>0, <1>2, <2>1, <2>3 DEF Was, IsAppend
    <3>2. QED BY <2>2, <3>1
  <2>4. CASE j = n + 1
    <3>1. m = <<m[1], Q>> /\ m[1] \in Places /\ Len(C[m[1]]) # 0
      BY <2>1 DEF MovesOn
    <3>2. 1 \in 1 .. Len(C[m[1]])
      BY <3>1 DEF Contents
    <3>3. D[Q][j] = C[m[1]][1]
      BY <1>0, <2>1, <2>4 DEF IsAppend
    <3>4. Was(C, D, M, m[1], 1, Q, j)
      BY <1>2, <2>2, <2>4, <3>1, <3>2, <3>3 DEF Was
    <3>5. QED BY <2>2, <3>4
  <2>5. QED BY <2>2, <2>3, <2>4
<1>3. CASE ~Source(M, Q) /\ ~Target(M, Q) /\ Same(D[Q], C[Q])
  <2>1. Was(C, D, M, Q, j, Q, j)
    BY <1>0, <1>3 DEF Was, Same
  <2>2. QED BY <1>0, <1>3, <2>1 DEF Same
<1>4. QED BY <1>1, <1>2, <1>3 DEF MovesOn

(* The queues after the move.                                              *)
LEMMA MovedType ==
    ASSUME NEW C, NEW D, NEW M, Contents(C), MovesOn(C, D, M), NEW Q \in Places
    PROVE  Len(D[Q]) \in Nat /\ DOMAIN D[Q] = 1 .. Len(D[Q])
<1>1. PICK n \in Nat : n = Len(C[Q])
  BY DEF Contents
<1>2. QED BY <1>1 DEF MovesOn, IsTail, IsAppend, Same

Trace(C, D, P, i, Q, j, rt) ==
    /\ rt \in Routes /\ D[Q][j].seq \in Nat /\ OnWay(rt, P) /\ OnWay(rt, Q)
    /\ C[P][i].route = rt /\ C[P][i].seq = D[Q][j].seq
    /\ P \in Places /\ i \in 1 .. Len(C[P])
    /\ Stage(rt, P) \in Nat /\ Stage(rt, Q) \in Nat
    /\ P = Q \/ Stage(rt, Q) = Stage(rt, P) + 1

(* A packet stays where it is or moves on by one stage.                    *)
LEMMA WasBehind ==
    ASSUME NEW C, NEW D, NEW M, Contents(C), MovesOn(C, D, M),
           NEW P, NEW i, NEW Q \in Places, NEW j, Was(C, D, M, P, i, Q, j), NEW rt, rt = D[Q][j].route
    PROVE  Trace(C, D, P, i, Q, j, rt)
<1> USE DEF Trace
<1>1. /\ P \in Places /\ i \in 1 .. Len(C[P]) /\ C[P][i] = D[Q][j] /\ rt \in Routes
      /\ D[Q][j].seq \in Nat /\ OnWay(rt, P)
  BY DEF Was, Contents
<1>2. CASE P = Q
  BY <1>1, <1>2, StageType
<1>3. CASE <<P, Q>> \in M /\ i = 1
  <2>1. OnWay(rt, Q) /\ Stage(rt, Q) = Stage(rt, P) + 1
    BY <1>1, <1>3 DEF MovesOn
  <2>2. QED BY <1>1, <2>1, StageType
<1>4. QED BY <1>2, <1>3 DEF Was

(* Packets that move on by a stage each do not overtake each other.        *)
LEMMA MovedOrder ==
    ASSUME NEW C, NEW D, NEW M, Contents(C), InOrder(C), AheadFirst(C), MovesOn(C, D, M)
    PROVE  Contents(D) /\ InOrder(D) /\ AheadFirst(D)
<1>1. Contents(D)
  <2>1. SUFFICES ASSUME NEW Q \in Places
                 PROVE  /\ Len(D[Q]) \in Nat /\ DOMAIN D[Q] = 1 .. Len(D[Q])
                        /\ \A j \in 1 .. Len(D[Q]) : /\ D[Q][j].route \in Routes /\ D[Q][j].seq \in Nat
                                                     /\ OnWay(D[Q][j].route, Q)
    BY DEF Contents
  <2>2. ASSUME NEW j \in 1 .. Len(D[Q])
        PROVE  D[Q][j].route \in Routes /\ D[Q][j].seq \in Nat /\ OnWay(D[Q][j].route, Q)
    <3>1. PICK P, i : Was(C, D, M, P, i, Q, j)
      BY WasSomewhere
    <3>2. Trace(C, D, P, i, Q, j, D[Q][j].route)
      BY <3>1, WasBehind
    <3>3. QED BY <3>2 DEF Trace
  <2>3. QED BY <2>2, MovedType
<1>2. InOrder(D)
  <2>1. SUFFICES ASSUME NEW Q \in Places, NEW i \in 1 .. Len(D[Q]), NEW j \in 1 .. Len(D[Q]), i < j,
                        D[Q][i].route = D[Q][j].route
                 PROVE  D[Q][i].seq < D[Q][j].seq
    BY DEF InOrder
  <2>2. PICK P, k : Was(C, D, M, P, k, Q, i)
    BY WasSomewhere
  <2>3. PICK R, l : Was(C, D, M, R, l, Q, j)
    BY WasSomewhere
  <2>4. PICK rt : rt = D[Q][i].route
    OBVIOUS
  <2>5. /\ rt \in Routes /\ C[P][k].route = rt /\ C[R][l].route = rt
        /\ C[P][k].seq = D[Q][i].seq /\ C[R][l].seq = D[Q][j].seq
        /\ P \in Places /\ R \in Places /\ k \in 1 .. Len(C[P]) /\ l \in 1 .. Len(C[R])
        /\ Stage(rt, R) \in Nat /\ Stage(rt, Q) \in Nat
        /\ R = Q \/ Stage(rt, Q) = Stage(rt, R) + 1
    <3>1. Trace(C, D, P, k, Q, i, rt)
      BY <2>2, <2>4, WasBehind
    <3>2. Trace(C, D, R, l, Q, j, rt)
      BY <2>1, <2>3, <2>4, WasBehind
    <3>3. QED BY <3>1, <3>2 DEF Trace
  <2>6. P = Q
    <3>1. i # Len(D[Q])
      BY <2>1, MovedType
    <3>2. QED BY <2>2, <3>1 DEF Was
  <2>7. CASE R = Q
    <3>1. k < l
      <4>1. CASE Source(M, Q)
        <5>1. CASE k = i + 1 /\ l = j + 1
          BY <2>1, <5>1, MovedType
        <5>2. k = i + 1
          BY <2>2, <4>1 DEF Was
        <5>3. l = j + 1
          BY <2>3, <4>1 DEF Was
        <5>4. QED BY <5>1, <5>2, <5>3
      <4>2. CASE ~Source(M, Q)
        <5>1. CASE l = j /\ k = i
          BY <2>1, <5>1
        <5>2. k = i
          <6>1. i # Len(D[Q])
            BY <2>1, MovedType
          <6>2. QED BY <2>2, <4>2, <6>1 DEF Was
        <5>3. CASE <<R, Q>> \in M
          BY <2>7, <4>2, <5>3 DEF Source
        <5>4. QED BY <2>3, <4>2, <5>1, <5>2, <5>3 DEF Was
      <4>3. QED BY <4>1, <4>2
    <3>2. QED BY <2>5, <2>6, <2>7, <3>1 DEF InOrder
  <2>8. CASE Stage(rt, Q) = Stage(rt, R) + 1
    <3>1. Stage(rt, R) < Stage(rt, P)
      BY <2>5, <2>6, <2>8
    <3>2. QED BY <2>5, <3>1 DEF AheadFirst
  <2>9. QED BY <2>5, <2>7, <2>8
<1>3. AheadFirst(D)
  <2>1. SUFFICES ASSUME NEW Q \in Places, NEW S \in Places, NEW i \in 1 .. Len(D[Q]), NEW j \in 1 .. Len(D[S]),
                        NEW rt, rt = D[Q][i].route, rt = D[S][j].route, Stage(rt, S) < Stage(rt, Q)
                 PROVE  D[Q][i].seq < D[S][j].seq
    BY DEF AheadFirst
  <2>2. PICK P, k : Was(C, D, M, P, k, Q, i)
    BY WasSomewhere
  <2>3. PICK R, l : Was(C, D, M, R, l, S, j)
    BY WasSomewhere
  <2>4. /\ rt \in Routes /\ C[P][k].route = rt /\ C[R][l].route = rt
        /\ C[P][k].seq = D[Q][i].seq /\ C[R][l].seq = D[S][j].seq
        /\ P \in Places /\ R \in Places /\ k \in 1 .. Len(C[P]) /\ l \in 1 .. Len(C[R])
        /\ Stage(rt, P) \in Nat /\ Stage(rt, Q) \in Nat /\ Stage(rt, R) \in Nat /\ Stage(rt, S) \in Nat
        /\ P = Q \/ Stage(rt, Q) = Stage(rt, P) + 1
        /\ R = S \/ Stage(rt, S) = Stage(rt, R) + 1
        /\ OnWay(rt, P) /\ OnWay(rt, R)
    <3>1. Trace(C, D, P, k, Q, i, rt)
      BY <2>1, <2>2, WasBehind
    <3>2. Trace(C, D, R, l, S, j, rt)
      BY <2>1, <2>3, WasBehind
    <3>3. QED BY <3>1, <3>2 DEF Trace
  <2>5. CASE Stage(rt, R) < Stage(rt, P)
    BY <2>4, <2>5 DEF AheadFirst
  <2>6. CASE ~(Stage(rt, R) < Stage(rt, P))
    <3>1. P # Q /\ R = S /\ Stage(rt, P) = Stage(rt, R)
      BY <2>1, <2>4, <2>6
    <3>2. P = R
      BY <2>4, <3>1, StageSame
    <3>3. <<P, Q>> \in M /\ k = 1
      BY <2>2, <3>1 DEF Was
    <3>4. Source(M, S)
      <4>1. PICK m : m = <<P, Q>>
        OBVIOUS
      <4>2. m \in M /\ m[1] = S
        BY <3>1, <3>2, <3>3, <4>1
      <4>3. QED BY <4>2 DEF Source
    <3>5. l = j + 1
      BY <2>3, <3>4 DEF Was
    <3>6. k < l
      BY <3>3, <3>5
    <3>7. QED BY <2>4, <3>2, <3>6 DEF InOrder
  <2>7. QED BY <2>5, <2>6
<1>4. QED BY <1>1, <1>2, <1>3

(* Nor does any get lost.                                                  *)
LEMMA MovedKept ==
    ASSUME NEW C, NEW D, NEW M, NEW s, NEW d, Ordered(C, s, d), MovesOn(C, D, M)
    PROVE  Ordered(D, s, d)
<1>1. Contents(C) /\ InOrder(C) /\ AheadFirst(C) /\ Pending(C, s, d) /\ NoneLost(C, s, d)
  BY DEF Ordered
<1>2. Pending(D, s, d)
  <2>1. SUFFICES ASSUME NEW Q \in Places, NEW j \in 1 .. Len(D[Q])
                 PROVE  d[D[Q][j].route] <= D[Q][j].seq /\ D[Q][j].seq < s[D[Q][j].route]
    BY DEF Pending
  <2>2. PICK P, i : Was(C, D, M, P, i, Q, j)
    BY <1>1, WasSomewhere
  <2>3. P \in Places /\ i \in 1 .. Len(C[P]) /\ C[P][i] = D[Q][j]
    BY <2>2 DEF Was
  <2>4. QED BY <1>1, <2>3 DEF Pending
<1>3. NoneLost(D, s, d)
  <2>1. SUFFICES ASSUME NEW rt \in Routes, NEW n \in Nat, d[rt] <= n, n < s[rt]
                 PROVE  Somewhere(D, rt, n)
    BY DEF NoneLost
  <2>2. PICK P \in Places : \E i \in 1 .. Len(C[P]) : C[P][i].route = rt /\ C[P][i].seq = n
    BY <1>1, <2>1 DEF NoneLost, Somewhere
  <2>3. PICK i \in 1 .. Len(C[P]) : C[P][i].route = rt /\ C[P][i].seq = n
    BY <2>2
  <2>4. Len(C[P]) \in Nat
    BY <1>1 DEF Contents
  <2>5. CASE Source(M, P) /\ IsTail(D[P], C[P])
    <3>1. CASE i = 1
      <4>1. PICK m \in M : m[1] = P
        BY <2>5 DEF Source
      <4>2. PICK Q \in Places : Q = m[2] /\ Target(M, Q)
        BY <4>1 DEF MovesOn, Target
      <4>3. PICK l \in M : l[2] = Q /\ IsAppend(D[Q], C[Q], C[l[1]][1])
        BY <4>2 DEF MovesOn
      <4>4. l = m
        BY <4>1, <4>2, <4>3 DEF MovesOn
      <4>5. Len(C[Q]) \in Nat
        BY <1>1 DEF Contents
      <4>6. PICK j : j = Len(C[Q]) + 1
        OBVIOUS
      <4>7. j \in 1 .. Len(D[Q]) /\ D[Q][j] = C[P][1]
        BY <4>1, <4>3, <4>4, <4>5, <4>6 DEF IsAppend
      <4>8. QED BY <2>3, <3>1, <4>7 DEF Somewhere
    <3>2. CASE i # 1
      <4>1. PICK j : j = i - 1
        OBVIOUS
      <4>2. j \in 1 .. Len(D[P]) /\ D[P][j] = C[P][i]
        BY <2>4, <2>5, <3>2, <4>1 DEF IsTail
      <4>3. QED BY <2>3, <4>2 DEF Somewhere
    <3>3. QED BY <3>1, <3>2
  <2>6. CASE \E e : IsAppend(D[P], C[P], e)
    <3>1. i \in 1 .. Len(D[P]) /\ D[P][i] = C[P][i]
      BY <2>4, <2>6 DEF IsAppend
    <3>2. QED BY <2>3, <3>1 DEF Somewhere
  <2>7. CASE Same(D[P], C[P])
    BY <2>3, <2>7 DEF Same, Somewhere
  <2>8. QED BY <2>5, <2>6, <2>7 DEF MovesOn
<1>4. QED BY <1>1, <1>2, <1>3, MovedOrder DEF Ordered

(* A new packet of route rt, the last one of them all.                     *)
Injects(C, D, P, rt, n) ==
    /\ IsAppend(D[P], C[P], [route |-> rt, seq |-> n])
    /\ \A Q \in Places \ {P} : Same(D[Q], C[Q])

(* A new packet comes behind all those of its route.                       *)
LEMMA InjectKept ==
    ASSUME NEW C, NEW D, NEW s \in [Routes -> Nat], NEW t \in [Routes -> Nat], NEW d \in [Routes -> Nat],
           Ordered(C, s, d), NEW rt \in Routes, NEW P, OnWay(rt, P), Stage(rt, P) = 0,
           Injects(C, D, P, rt, s[rt]), d[rt] <= s[rt],
           t[rt] = s[rt] + 1, \A r \in Routes \ {rt} : t[r] = s[r]
    PROVE  Ordered(D, t, d)
<1>1. Contents(C) /\ InOrder(C) /\ AheadFirst(C) /\ Pending(C, s, d) /\ NoneLost(C, s, d)
  BY DEF Ordered
<1>2. P \in Places
  BY DEF OnWay
<1>3. PICK e : e = [route |-> rt, seq |-> s[rt]]
  OBVIOUS
<1>4. e.route = rt /\ e.seq = s[rt] /\ e.seq \in Nat /\ IsAppend(D[P], C[P], e)
  BY <1>3 DEF Injects
<1>5. \A Q \in Places : Len(C[Q]) \in Nat
  BY <1>1 DEF Contents
(* What is in a queue was there, or is the new one. *)
<1>6. ASSUME NEW Q \in Places
      PROVE  /\ Len(D[Q]) \in Nat /\ DOMAIN D[Q] = 1 .. Len(D[Q])
             /\ Len(C[Q]) <= Len(D[Q]) /\ \A i \in 1 .. Len(C[Q]) : D[Q][i] = C[Q][i]
             /\ \A i \in 1 .. Len(D[Q]) : \/ i \in 1 .. Len(C[Q])
                                          \/ i = Len(D[Q]) /\ Q = P /\ D[Q][i] = e /\ i = Len(C[Q]) + 1
  <2>1. CASE Q = P
    BY <1>4, <1>5, <2>1 DEF IsAppend
  <2>2. CASE Q # P
    BY <1>5, <2>2 DEF Injects, Same
  <2>3. QED BY <2>1, <2>2
<1>7. ASSUME NEW Q \in Places, NEW i \in 1 .. Len(C[Q]), C[Q][i].route = rt
      PROVE  C[Q][i].seq < s[rt]
  BY <1>1, <1>7 DEF Pending
<1>8. Contents(D)
  BY <1>1, <1>4, <1>6 DEF Contents
<1>9. InOrder(D)
  <2>1. SUFFICES ASSUME NEW Q \in Places, NEW i \in 1 .. Len(D[Q]), NEW j \in 1 .. Len(D[Q]), i < j,
                        D[Q][i].route = D[Q][j].route
                 PROVE  D[Q][i].seq < D[Q][j].seq
    BY DEF InOrder
  <2>2. i \in 1 .. Len(C[Q]) /\ D[Q][i] = C[Q][i]
    BY <1>5, <1>6, <2>1
  <2>3. CASE j \in 1 .. Len(C[Q])
    BY <1>1, <1>6, <2>1, <2>2, <2>3 DEF InOrder
  <2>4. CASE D[Q][j] = e
    BY <1>4, <1>7, <2>1, <2>2, <2>4
  <2>5. QED BY <1>6, <2>3, <2>4
<1>10. AheadFirst(D)
  <2>1. SUFFICES ASSUME NEW Q \in Places, NEW S \in Places, NEW i \in 1 .. Len(D[Q]), NEW j \in 1 .. Len(D[S]),
                        NEW r, r = D[Q][i].route, r = D[S][j].route, Stage(r, S) < Stage(r, Q)
                 PROVE  D[Q][i].seq < D[S][j].seq
    BY DEF AheadFirst
  <2>2. CASE i \in 1 .. Len(C[Q]) /\ j \in 1 .. Len(C[S])
    <3>1. D[Q][i] = C[Q][i] /\ D[S][j] = C[S][j]
      BY <1>6, <2>2
    <3>2. QED BY <1>1, <2>1, <2>2, <3>1 DEF AheadFirst
  <2>3. CASE i \in 1 .. Len(C[Q]) /\ D[S][j] = e
    <3>1. D[Q][i] = C[Q][i]
      BY <1>6, <2>3
    <3>2. QED BY <1>4, <1>7, <2>1, <2>3, <3>1
  <2>4. CASE Q = P /\ D[Q][i] = e
    <3>1. r = rt /\ OnWay(rt, S)
      BY <1>4, <1>8, <2>1, <2>4 DEF Contents
    <3>2. Stage(rt, S) \in Nat
      BY <3>1, StageType
    <3>3. QED BY <2>1, <2>4, <3>1, <3>2
  <2>5. QED BY <1>6, <2>2, <2>3, <2>4
<1>11. \A r \in Routes : s[r] <= t[r] /\ s[r] \in Nat /\ t[r] \in Nat /\ d[r] \in Nat
  OBVIOUS
<1>12. Pending(D, t, d)
  <2>1. SUFFICES ASSUME NEW Q \in Places, NEW i \in 1 .. Len(D[Q]), NEW r, r = D[Q][i].route
                 PROVE  d[r] <= D[Q][i].seq /\ D[Q][i].seq < t[r]
    BY DEF Pending
  <2>2. CASE i \in 1 .. Len(C[Q])
    <3>1. D[Q][i] = C[Q][i] /\ r \in Routes /\ C[Q][i].seq \in Nat
      BY <1>1, <1>6, <2>1, <2>2 DEF Contents
    <3>2. d[r] <= D[Q][i].seq /\ D[Q][i].seq < s[r]
      BY <1>1, <2>1, <2>2, <3>1 DEF Pending
    <3>3. QED BY <1>11, <3>1, <3>2
  <2>3. CASE D[Q][i] = e
    BY <1>4, <1>11, <2>1, <2>3
  <2>4. QED BY <1>6, <2>2, <2>3
<1>13. NoneLost(D, t, d)
  <2>1. SUFFICES ASSUME NEW r \in Routes, NEW n \in Nat, d[r] <= n, n < t[r]
                 PROVE  Somewhere(D, r, n)
    BY DEF NoneLost
  <2>2. CASE n < s[r]
    <3>1. PICK Q \in Places : \E i \in 1 .. Len(C[Q]) : C[Q][i].route = r /\ C[Q][i].seq = n
      BY <1>1, <2>1, <2>2 DEF NoneLost, Somewhere
    <3>2. PICK i \in 1 .. Len(C[Q]) : C[Q][i].route = r /\ C[Q][i].seq = n
      BY <3>1
    <3>3. i \in 1 .. Len(D[Q]) /\ D[Q][i] = C[Q][i]
      BY <1>5, <1>6
    <3>4. QED BY <3>2, <3>3 DEF Somewhere
  <2>3. CASE ~(n < s[r])
    <3>1. r = rt /\ n = s[rt]
      BY <1>11, <2>1, <2>3
    <3>2. PICK i : i = Len(C[P]) + 1
      OBVIOUS
    <3>3. i \in 1 .. Len(D[P]) /\ D[P][i] = e
      BY <1>2, <1>4, <1>5, <3>2 DEF IsAppend
    <3>4. QED BY <1>2, <1>4, <3>1, <3>3 DEF Somewhere
  <2>4. QED BY <2>2, <2>3
<1>14. QED BY <1>8, <1>9, <1>10, <1>12, <1>13 DEF Ordered

(* The front packet of the last place leaves: it is the next one.          *)
Removes(C, D, P) == IsTail(D[P], C[P]) /\ \A Q \in Places \ {P} : Same(D[Q], C[Q])

Foremost(C, d, P, rt) == \A Q \in Places : \A j \in 1 .. Len(C[Q]) :
    C[Q][j].route = rt /\ (Q # P \/ j # 1) => d[rt] < C[Q][j].seq

(* The first packet of a route that waits in recv is the next to deliver.  *)
LEMMA LastIsNext ==
    ASSUME NEW C, NEW s \in [Routes -> Nat], NEW d \in [Routes -> Nat],
           Ordered(C, s, d), NEW P \in Places, Len(C[P]) # 0, NEW rt, rt = C[P][1].route,
           Stage(rt, P) = 3 * Stops(rt) + 2
    PROVE  /\ rt \in Routes /\ C[P][1].seq = d[rt] /\ d[rt] < s[rt]
           /\ Foremost(C, d, P, rt)
<1>1. Contents(C) /\ InOrder(C) /\ AheadFirst(C) /\ Pending(C, s, d) /\ NoneLost(C, s, d)
  BY DEF Ordered
<1>2. 1 \in 1 .. Len(C[P]) /\ Len(C[P]) \in Nat
  BY <1>1 DEF Contents
<1>3. rt \in Routes /\ OnWay(rt, P) /\ C[P][1].seq \in Nat
  BY <1>1, <1>2 DEF Contents
<1>4. d[rt] <= C[P][1].seq /\ C[P][1].seq < s[rt] /\ d[rt] \in Nat /\ s[rt] \in Nat
  BY <1>1, <1>2, <1>3 DEF Pending
<1>5. ASSUME NEW Q \in Places, NEW j \in 1 .. Len(C[Q]), C[Q][j].route = rt, Q # P \/ j # 1
      PROVE  C[P][1].seq < C[Q][j].seq /\ C[Q][j].seq \in Nat
  <2>1. OnWay(rt, Q) /\ C[Q][j].seq \in Nat
    BY <1>1, <1>5 DEF Contents
  <2>2. CASE Q = P
    <3>1. 1 < j
      BY <1>2, <1>5, <2>2
    <3>2. QED BY <1>1, <1>2, <1>5, <2>1, <2>2, <3>1 DEF InOrder
  <2>3. CASE Q # P
    <3>1. Stage(rt, Q) # Stage(rt, P)
      BY <1>3, <2>1, <2>3, StageSame
    <3>2. Stage(rt, Q) < Stage(rt, P)
      BY <1>3, <2>1, <3>1, StageType, StopsType
    <3>3. QED BY <1>1, <1>2, <1>5, <2>1, <3>2 DEF AheadFirst
  <2>4. QED BY <2>2, <2>3
<1>6. PICK Q \in Places : \E j \in 1 .. Len(C[Q]) : C[Q][j].route = rt /\ C[Q][j].seq = d[rt]
  <2>1. PICK n \in Nat : n = d[rt]
    BY <1>4
  <2>2. d[rt] <= n /\ n < s[rt]
    BY <1>3, <1>4, <2>1
  <2>3. Somewhere(C, rt, n)
    BY <1>1, <1>3, <2>2 DEF NoneLost
  <2>4. QED BY <2>1, <2>3 DEF Somewhere
<1>7. PICK j \in 1 .. Len(C[Q]) : C[Q][j].route = rt /\ C[Q][j].seq = d[rt]
  BY <1>6
<1>8. C[P][1].seq = d[rt]
  <2>1. CASE Q # P \/ j # 1
    BY <1>3, <1>4, <1>5, <1>7, <2>1
  <2>2. CASE Q = P /\ j = 1
    BY <1>7, <2>2
  <2>3. QED BY <2>1, <2>2
<1>9. Foremost(C, d, P, rt)
  BY <1>5, <1>8 DEF Foremost
<1>10. QED BY <1>3, <1>4, <1>8, <1>9

(* The rest keep their order when it is taken.                             *)
LEMMA RemoveKept ==
    ASSUME NEW C, NEW D, NEW s \in [Routes -> Nat], NEW d \in [Routes -> Nat], NEW t \in [Routes -> Nat],
           Ordered(C, s, d), NEW P \in Places, Removes(C, D, P), NEW rt, rt = C[P][1].route,
           Stage(rt, P) = 3 * Stops(rt) + 2, t[rt] = d[rt] + 1, \A r \in Routes \ {rt} : t[r] = d[r]
    PROVE  Ordered(D, s, t)
<1>1. Contents(C) /\ InOrder(C) /\ AheadFirst(C) /\ Pending(C, s, d) /\ NoneLost(C, s, d)
  BY DEF Ordered
<1>2. /\ rt \in Routes /\ C[P][1].seq = d[rt] /\ d[rt] < s[rt]
      /\ Foremost(C, d, P, rt)
  <2>1. Len(C[P]) # 0
    BY DEF Removes, IsTail
  <2>2. QED BY <2>1, LastIsNext
<1>3. \A Q \in Places : Len(C[Q]) \in Nat
  BY <1>1 DEF Contents
<1>4. \A r \in Routes : s[r] \in Nat /\ t[r] \in Nat /\ d[r] \in Nat
  OBVIOUS
(* The place in C of what is in D. *)
<1> DEFINE at(Q, i) == IF Q = P THEN i + 1 ELSE i
<1>5. ASSUME NEW Q \in Places
      PROVE  /\ Len(D[Q]) \in Nat /\ DOMAIN D[Q] = 1 .. Len(D[Q])
             /\ \A i \in 1 .. Len(D[Q]) : /\ at(Q, i) \in 1 .. Len(C[Q]) /\ D[Q][i] = C[Q][at(Q, i)]
                                          /\ Q # P \/ at(Q, i) # 1
  <2>1. CASE Q = P
    BY <1>3, <2>1 DEF Removes, IsTail
  <2>2. CASE Q # P
    BY <1>3, <2>2 DEF Removes, Same
  <2>3. QED BY <2>1, <2>2
<1>6. \A Q : \A i, j \in Nat : i < j => at(Q, i) < at(Q, j)
  OBVIOUS
<1> HIDE DEF at
<1>7. Contents(D)
  BY <1>1, <1>5 DEF Contents
<1>8. InOrder(D)
  <2>1. SUFFICES ASSUME NEW Q \in Places, NEW i \in 1 .. Len(D[Q]), NEW j \in 1 .. Len(D[Q]), i < j,
                        D[Q][i].route = D[Q][j].route
                 PROVE  D[Q][i].seq < D[Q][j].seq
    BY DEF InOrder
  <2>2. at(Q, i) < at(Q, j)
    BY <1>5, <1>6, <2>1
  <2>3. QED BY <1>1, <1>5, <2>1, <2>2 DEF InOrder
<1>9. AheadFirst(D)
  <2>1. SUFFICES ASSUME NEW Q \in Places, NEW S \in Places, NEW i \in 1 .. Len(D[Q]), NEW j \in 1 .. Len(D[S]),
                        NEW r, r = D[Q][i].route, r = D[S][j].route, Stage(r, S) < Stage(r, Q)
                 PROVE  D[Q][i].seq < D[S][j].seq
    BY DEF AheadFirst
  <2>2. /\ at(Q, i) \in 1 .. Len(C[Q]) /\ D[Q][i] = C[Q][at(Q, i)]
        /\ at(S, j) \in 1 .. Len(C[S]) /\ D[S][j] = C[S][at(S, j)]
    BY <1>5
  <2>3. PICK k \in 1 .. Len(C[Q]), l \in 1 .. Len(C[S]) : D[Q][i] = C[Q][k] /\ D[S][j] = C[S][l]
    BY <2>2
  <2>4. C[Q][k].route = C[S][l].route /\ Stage(C[Q][k].route, S) < Stage(C[Q][k].route, Q)
    BY <2>1, <2>3
  <2>5. C[Q][k].seq < C[S][l].seq
    BY <1>1, <2>4 DEF AheadFirst
  <2>6. QED BY <2>3, <2>5
<1>10. Pending(D, s, t)
  <2>1. SUFFICES ASSUME NEW Q \in Places, NEW i \in 1 .. Len(D[Q]), NEW r, r = D[Q][i].route
                 PROVE  t[r] <= D[Q][i].seq /\ D[Q][i].seq < s[r]
    BY DEF Pending
  <2>2. PICK k \in 1 .. Len(C[Q]) : D[Q][i] = C[Q][k] /\ (Q # P \/ k # 1)
    BY <1>5
  <2>3. r \in Routes /\ C[Q][k].seq \in Nat /\ d[r] <= C[Q][k].seq /\ C[Q][k].seq < s[r]
    BY <1>1, <2>1, <2>2 DEF Pending, Contents
  <2>4. CASE r = rt
    <3>1. d[rt] < C[Q][k].seq
      BY <1>2, <2>1, <2>2, <2>4 DEF Foremost
    <3>2. QED BY <1>4, <2>2, <2>3, <2>4, <3>1
  <2>5. CASE r # rt
    BY <2>2, <2>3, <2>5
  <2>6. QED BY <2>4, <2>5
<1>11. NoneLost(D, s, t)
  <2>1. SUFFICES ASSUME NEW r \in Routes, NEW n \in Nat, t[r] <= n, n < s[r]
                 PROVE  Somewhere(D, r, n)
    BY DEF NoneLost
  <2>2. d[r] <= n /\ (r = rt => d[rt] # n)
    BY <1>2, <1>4, <2>1
  <2>3. PICK Q \in Places : \E i \in 1 .. Len(C[Q]) : C[Q][i].route = r /\ C[Q][i].seq = n
    BY <1>1, <2>1, <2>2 DEF NoneLost, Somewhere
  <2>4. PICK i \in 1 .. Len(C[Q]) : C[Q][i].route = r /\ C[Q][i].seq = n
    BY <2>3
  <2>5. CASE Q = P
    <3>1. i # 1
      BY <1>2, <2>2, <2>4, <2>5
    <3>2. PICK j : j = i - 1
      OBVIOUS
    <3>3. j \in 1 .. Len(D[P]) /\ D[P][j] = C[P][i]
      BY <1>3, <2>4, <2>5, <3>1, <3>2 DEF Removes, IsTail
    <3>4. QED BY <2>4, <2>5, <3>3 DEF Somewhere
  <2>6. CASE Q # P
    BY <2>4, <2>6 DEF Somewhere, Removes, Same
  <2>7. QED BY <2>5, <2>6
<1>12. QED BY <1>7, <1>8, <1>9, <1>10, <1>11 DEF Ordered

-----------------------------------------------------------------------------
(* The queues of the network. *)
QueueAt(P) ==
    CASE P[1] = "send" -> lc[P[2]].output_queues[P[3]]
      [] P[1] = "wire" -> data[P[2]]
      [] P[1] = "in"   -> pc[P[2]].input_buf[P[3]]
      [] P[1] = "out"  -> pc[P[2]].output_buf[P[3]]
      [] P[1] = "exit" -> data[P[2]]
      [] P[1] = "recv" -> lc[P[2]].input_queues[P[3]]

Id(ev)  == [route |-> ev.route, seq |-> ev.seq]
Ids(q)  == [i \in 1 .. Len(q) |-> Id(q[i])]
Carried == [P \in Places |-> Ids(QueueAt(P))]
Arrived == [rt \in Routes |-> Len(delivered[rt])]

(* A packet's header says where it is on its way; the first one of an      *)
(* input buffer has been routed.                                           *)
InAs(rt, x, v, i, h) == \E g : /\ Visits(rt, x, g) /\ g.vc = v
                               /\ i = 1 => h = Onward(x, g)
                               /\ i # 1 => h = g
OutAs(rt, x, v, h)   == \E w, g : /\ Visits(rt, w, g) /\ x = NextPort(w, g)
                                  /\ h = Onward(w, g) /\ v = h.vc
Placed(P, i, ev) ==
    /\ P[1] = "send" => P[2] = NicEnd(ev.route[1]) /\ P[3] = ev.route[3]
    /\ P[1] = "wire" => /\ P[2] \in HostPorts => P[2] = HostPort(ev.route[1])
                        /\ P[2] \notin HostPorts => Visits(ev.route, P[2], ev.h)
    /\ P[1] = "in"   => InAs(ev.route, P[2], P[3], i, ev.h)
    /\ P[1] = "out"  => OutAs(ev.route, P[2], P[3], ev.h)
    /\ P[1] = "exit" => P[2] = NicEnd(ev.route[2])
    /\ P[1] = "recv" => P[2] = NicEnd(ev.route[2]) /\ P[3] = ev.route[3]

Items(q) == /\ Len(q) \in Nat /\ DOMAIN q = 1 .. Len(q)
            /\ \A i \in 1 .. Len(q) : q[i].route \in Routes /\ q[i].seq \in Nat
PlacedAll(P, q) == \A i \in 1 .. Len(q) : Placed(P, i, q[i])

PlacesOK    == \A P \in Places : PlacedAll(P, QueueAt(P))
DeliveredOK == /\ delivered \in [Routes -> Seq(Nat)]
               /\ \A rt \in Routes : Len(delivered[rt]) <= sent[rt]
OInv == PlacesOK /\ DeliveredOK /\ Ordered(Carried, sent, Arrived)

(* The queue of a place, before and after a step.                          *)
LEMMA QueueAtIs ==
    ASSUME NEW P
    PROVE  /\ P[1] = "send" => QueueAt(P) = lc[P[2]].output_queues[P[3]] /\ QueueAt(P)' = lc'[P[2]].output_queues[P[3]]
           /\ P[1] = "wire" => QueueAt(P) = data[P[2]] /\ QueueAt(P)' = data'[P[2]]
           /\ P[1] = "in"   => QueueAt(P) = pc[P[2]].input_buf[P[3]] /\ QueueAt(P)' = pc'[P[2]].input_buf[P[3]]
           /\ P[1] = "out"  => QueueAt(P) = pc[P[2]].output_buf[P[3]] /\ QueueAt(P)' = pc'[P[2]].output_buf[P[3]]
           /\ P[1] = "exit" => QueueAt(P) = data[P[2]] /\ QueueAt(P)' = data'[P[2]]
           /\ P[1] = "recv" => QueueAt(P) = lc[P[2]].input_queues[P[3]] /\ QueueAt(P)' = lc'[P[2]].input_queues[P[3]]
BY DEF QueueAt

(* An endpoint's queue holds packets.                                      *)
LEMMA NicItems == ASSUME NEW q \in Seq(NicEvents) PROVE Items(q)
<1>1. \A e \in NicEvents : e.route \in Routes /\ e.seq \in Nat
  BY DEF NicEvents
<1>2. QED BY <1>1 DEF Items

(* So does a router's.                                                     *)
LEMMA NetItems == ASSUME NEW q, NetQueue(q) PROVE Items(q)
BY NetQueueFacts DEF Items, NetEvent

(* Every place holds packets.                                              *)
LEMMA ItemsAt ==
    ASSUME LinksOK, NicsOK, PortsOK, NEW P \in Places
    PROVE  Items(QueueAt(P))
<1>1. P[2] \in Nics => NicShape(lc[P[2]])
  BY DEF NicsOK, NicOK
<1>2. CASE P[1] = "send"
  <2>1. lc[P[2]].output_queues[P[3]] \in Seq(NicEvents)
    BY <1>1, <1>2, PlaceIs DEF NicShape
  <2>2. QED BY <1>2, <2>1, QueueAtIs, NicItems
<1>3. CASE P[1] = "recv"
  <2>1. lc[P[2]].input_queues[P[3]] \in Seq(NicEvents)
    BY <1>1, <1>3, PlaceIs DEF NicShape
  <2>2. QED BY <1>3, <2>1, QueueAtIs, NicItems
<1>4. CASE P[1] = "wire"
  <2>1. P[2] \in Ports /\ (P[2] \in HostPorts => data[P[2]] \in Seq(NicEvents))
        /\ (P[2] \notin HostPorts => NetQueue(data[P[2]]))
    BY <1>4, PlaceIs DEF LinksOK
  <2>2. QED BY <1>4, <2>1, QueueAtIs, NicItems, NetItems
<1>5. CASE P[1] = "exit"
  BY <1>5, QueueAtIs, NicItems, PlaceIs DEF LinksOK
<1>6. CASE P[1] = "in"
  <2>1. NetQueue(pc[P[2]].input_buf[P[3]])
    BY <1>6, PlaceIs DEF PortsOK, PortOK, PortShape, Buffers
  <2>2. QED BY <1>6, <2>1, QueueAtIs, NetItems
<1>7. CASE P[1] = "out"
  <2>1. NetQueue(pc[P[2]].output_buf[P[3]])
    BY <1>7, PlaceIs DEF PortsOK, PortOK, PortShape, Buffers
  <2>2. QED BY <1>7, <2>1, QueueAtIs, NetItems
<1>8. QED BY <1>2, <1>3, <1>4, <1>5, <1>6, <1>7, PlaceIs

AllItems == \A P \in Places : Items(QueueAt(P))
(* The same as a consequence of the invariant.                             *)
LEMMA ItemsOK == IInv => AllItems
BY ItemsAt DEF IInv, AllItems

(* A packet is in a place only if its way leads there.                     *)
LEMMA PlacedOnWay ==
    ASSUME NEW P \in Places, NEW i, NEW ev, ev.route \in Routes, Placed(P, i, ev)
    PROVE  OnWay(ev.route, P)
<1>1. CASE P[1] = "wire"
  BY <1>1, VisitFirst DEF Placed, OnWay
<1>2. CASE P[1] = "in"
  BY <1>2 DEF Placed, InAs, OnWay
<1>3. CASE P[1] = "out"
  BY <1>3 DEF Placed, OutAs, OnWay, GoesBy
<1>4. CASE P[1] \in {"send", "exit", "recv"}
  BY <1>4 DEF Placed, OnWay
<1>5. QED BY <1>1, <1>2, <1>3, <1>4, PlaceIs

(* The names of the packets of a queue.                                    *)
LEMMA IdsAre ==
    ASSUME NEW q, Items(q)
    PROVE  /\ Len(Ids(q)) = Len(q) /\ DOMAIN Ids(q) = 1 .. Len(q)
           /\ \A i \in 1 .. Len(q) : /\ Ids(q)[i] = Id(q[i])
                                     /\ Ids(q)[i].route = q[i].route /\ Ids(q)[i].seq = q[i].seq
<1>1. PICK n \in Nat : n = Len(q)
  BY DEF Items
<1>2. PICK w : w = Ids(q)
  OBVIOUS
<1>3. w = [i \in 1 .. n |-> Id(q[i])]
  BY <1>1, <1>2 DEF Ids
<1>4. w \in [1 .. n -> {Id(q[i]) : i \in 1 .. n}]
  BY <1>3
<1>5. Len(w) = n /\ DOMAIN w = 1 .. n
  BY <1>4, LenIs
<1>6. QED BY <1>1, <1>2, <1>3, <1>5 DEF Id

(* Names of a queue without its first packet.                              *)
LEMMA IdsTail ==
    ASSUME NEW q, NEW p, Items(q), Items(p), IsTail(p, q)
    PROVE  IsTail(Ids(p), Ids(q)) /\ 1 \in 1 .. Len(q)
<1>1. PICK n \in Nat : n = Len(q)
  BY DEF Items
<1>2. Len(p) = n - 1 /\ n # 0 /\ \A i \in 1 .. n - 1 : p[i] = q[i + 1] /\ i \in 1 .. Len(p) /\ i + 1 \in 1 .. n
  BY <1>1 DEF IsTail
<1>3. QED BY <1>1, <1>2, IdsAre DEF IsTail

(* Names of a queue with one more packet.                                  *)
LEMMA IdsAppend ==
    ASSUME NEW q, NEW p, Items(q), Items(p), NEW ev, IsAppend(p, q, ev)
    PROVE  IsAppend(Ids(p), Ids(q), Id(ev))
<1>1. PICK n \in Nat : n = Len(q)
  BY DEF Items
<1>2. /\ Len(p) = n + 1 /\ p[n + 1] = ev /\ n + 1 \in 1 .. Len(p)
      /\ \A i \in 1 .. n : p[i] = q[i] /\ i \in 1 .. Len(p)
  BY <1>1 DEF IsAppend
<1>3. QED BY <1>1, <1>2, IdsAre DEF IsAppend

(* The names of the packets of a place.                                    *)
LEMMA CarriedIs ==
    ASSUME NEW C, C = Carried, NEW D, D = Carried', NEW P \in Places
    PROVE  C[P] = Ids(QueueAt(P)) /\ D[P] = Ids(QueueAt(P)')
BY DEF Carried, Ids, Id

(* One packet that moves on, as a set of moves.                            *)
LEMMA OneMove ==
    ASSUME NEW C, NEW D, NEW P \in Places, NEW Q \in Places, P # Q,
           IsTail(D[P], C[P]), IsAppend(D[Q], C[Q], C[P][1]),
           \A R \in Places \ {P, Q} : Same(D[R], C[R]),
           NEW rt, rt = C[P][1].route, OnWay(rt, Q), Stage(rt, Q) = Stage(rt, P) + 1
    PROVE  \E M : MovesOn(C, D, M)
<1>1. PICK m : m = <<P, Q>>
  OBVIOUS
<1>2. m[1] = P /\ m[2] = Q /\ m \in Places \X Places
  BY <1>1
<1>3. PICK M : M = {m}
  OBVIOUS
<1>4. \A R : (Source(M, R) <=> R = P) /\ (Target(M, R) <=> R = Q)
  BY <1>2, <1>3 DEF Source, Target
<1>5. ASSUME NEW R \in Places
      PROVE  \/ Source(M, R) /\ ~Target(M, R) /\ IsTail(D[R], C[R])
             \/ /\ ~Source(M, R)
                /\ \E l \in M : l[2] = R /\ IsAppend(D[R], C[R], C[l[1]][1])
             \/ ~Source(M, R) /\ ~Target(M, R) /\ Same(D[R], C[R])
  <2>1. CASE R = P
    BY <1>4, <2>1
  <2>2. CASE R = Q
    BY <1>2, <1>3, <1>4, <2>2
  <2>3. CASE R \notin {P, Q}
    BY <1>4, <2>3
  <2>4. QED BY <2>1, <2>2, <2>3
<1>6. Len(C[P]) # 0
  BY DEF IsTail
<1>7. MovesOn(C, D, M)
  BY <1>2, <1>3, <1>5, <1>6 DEF MovesOn
<1>8. QED BY <1>7

Follows(rt, P, Q) ==
    \/ P[1] = "send" /\ Q[1] = "wire" /\ Q[2] = HostPort(rt[1])
    \/ P[1] = "wire" /\ Q[1] = "in" /\ Q[2][2] = P[2][2]
    \/ P[1] = "in" /\ Q[1] = "out" /\ Q[2][2] = P[2][2]
    \/ P[1] = "out" /\ Q[1] = "wire" /\ Away(rt, Q[2][2]) + 1 = Away(rt, P[2][2])
    \/ P[1] = "out" /\ Q[1] = "exit" /\ Away(rt, P[2][2]) = 0
    \/ P[1] = "exit" /\ Q[1] = "recv"

(* What follows on the way is the next stage.                              *)
LEMMA NextStage ==
    ASSUME NEW rt \in Routes, NEW P, NEW Q, OnWay(rt, P), OnWay(rt, Q), Follows(rt, P, Q)
    PROVE  Stage(rt, Q) = Stage(rt, P) + 1
<1>1. PICK s \in Nat \ {0} : s = Stops(rt)
  BY StopsType
<1>2. PICK j \in 1 .. s :
              /\ P[1] = "send" => Stage(rt, P) = 0
              /\ P[1] = "wire" => Stage(rt, P) = 3 * j - 2
              /\ P[1] = "in"   => Stage(rt, P) = 3 * j - 1
              /\ P[1] = "out"  => Stage(rt, P) = 3 * j
              /\ P[1] = "exit" => Stage(rt, P) = 3 * s + 1
              /\ P[1] = "recv" => Stage(rt, P) = 3 * s + 2
              /\ P[1] \in {"wire", "in", "out"} => Away(rt, P[2][2]) \in Nat /\ Away(rt, P[2][2]) + j = s
  BY <1>1, StageIs
<1>3. PICK k \in 1 .. s :
              /\ Q[1] = "send" => Stage(rt, Q) = 0
              /\ Q[1] = "wire" => Stage(rt, Q) = 3 * k - 2
              /\ Q[1] = "in"   => Stage(rt, Q) = 3 * k - 1
              /\ Q[1] = "out"  => Stage(rt, Q) = 3 * k
              /\ Q[1] = "exit" => Stage(rt, Q) = 3 * s + 1
              /\ Q[1] = "recv" => Stage(rt, Q) = 3 * s + 2
              /\ Q[1] \in {"wire", "in", "out"} => Away(rt, Q[2][2]) \in Nat /\ Away(rt, Q[2][2]) + k = s
  BY <1>1, StageIs
<1>4. Away(rt, HostPort(rt[1])[2]) + 1 = s
  BY <1>1, VisitFirst
<1>5. CASE P[1] = "send" /\ Q[1] = "wire" /\ Q[2] = HostPort(rt[1])
  BY <1>2, <1>3, <1>4, <1>5
<1>6. CASE ((P[1] = "wire" /\ Q[1] = "in") \/ (P[1] = "in" /\ Q[1] = "out")) /\ Q[2][2] = P[2][2]
  BY <1>2, <1>3, <1>6
<1>7. CASE P[1] = "out" /\ Q[1] = "wire" /\ Away(rt, Q[2][2]) + 1 = Away(rt, P[2][2])
  BY <1>2, <1>3, <1>7
<1>8. CASE P[1] = "out" /\ Q[1] = "exit" /\ Away(rt, P[2][2]) = 0
  BY <1>2, <1>3, <1>8
<1>9. CASE P[1] = "exit" /\ Q[1] = "recv"
  BY <1>2, <1>3, <1>9
<1>10. QED BY <1>5, <1>6, <1>7, <1>8, <1>9 DEF Follows

(* Only in an input buffer does a packet's header depend on its position.  *)
LEMMA PlacedTail ==
    ASSUME NEW P \in Places, P[1] # "in", NEW q, Items(q), NEW p, IsTail(p, q), PlacedAll(P, q)
    PROVE  PlacedAll(P, p)
<1>1. SUFFICES ASSUME NEW i \in 1 .. Len(p) PROVE Placed(P, i, p[i])
  BY DEF PlacedAll
<1>2. i + 1 \in 1 .. Len(q) /\ p[i] = q[i + 1]
  BY DEF IsTail, Items
<1>3. Placed(P, i + 1, q[i + 1])
  BY <1>2 DEF PlacedAll
<1>4. QED BY <1>2, <1>3 DEF Placed

(* A packet that is in its place may join the queue there.                 *)
LEMMA PlacedAppend ==
    ASSUME NEW P, NEW q, Items(q), NEW p, NEW ev, IsAppend(p, q, ev), PlacedAll(P, q),
           Placed(P, Len(q) + 1, ev)
    PROVE  PlacedAll(P, p)
<1>1. SUFFICES ASSUME NEW i \in 1 .. Len(p) PROVE Placed(P, i, p[i])
  BY DEF PlacedAll
<1>2. (i \in 1 .. Len(q) /\ p[i] = q[i]) \/ (i = Len(q) + 1 /\ p[i] = ev)
  BY DEF IsAppend, Items
<1>3. QED BY <1>2 DEF PlacedAll

(* A step that moves one packet. *)
MovesOne(P, Q, e) ==
    /\ IsTail(QueueAt(P)', QueueAt(P))
    /\ IsAppend(QueueAt(Q)', QueueAt(Q), e) /\ Placed(Q, Len(QueueAt(Q)) + 1, e)
    /\ \A R \in Places \ {P, Q} : QueueAt(R)' = QueueAt(R)

(* A queue that does not change keeps its packets.                         *)
LEMMA SameItems == ASSUME NEW q, Items(q) PROVE Same(Ids(q), Ids(q))
BY IdsAre DEF Same

(* Such a step keeps the order.                                            *)
LEMMA OneMoveKept ==
    ASSUME IInv, IInv', OInv, NEW P \in Places, NEW Q \in Places, P # Q, P[1] # "in",
           NEW ev, ev = QueueAt(P)[1], NEW e, Id(e) = Id(ev), e.route = ev.route,
           MovesOne(P, Q, e), Follows(ev.route, P, Q), sent' = sent, delivered' = delivered
    PROVE  OInv'
<1>0. LinksOK /\ NicsOK /\ PortsOK /\ LinksOK' /\ NicsOK' /\ PortsOK'
  BY DEF IInv
<1>1. \A R \in Places : Items(QueueAt(R))
  BY <1>0, ItemsAt
<1>2. \A R \in Places : Items(QueueAt(R)')
  <2>1. AllItems'
    BY ItemsOK, PTL
  <2>2. QED BY <2>1 DEF AllItems, Items
<1>3. PICK C, D : C = Carried /\ D = Carried'
  OBVIOUS
<1>4. \A R \in Places : C[R] = Ids(QueueAt(R)) /\ D[R] = Ids(QueueAt(R)')
  BY <1>3, CarriedIs
<1>5. IsTail(D[P], C[P]) /\ C[P][1] = Id(ev) /\ 1 \in 1 .. Len(QueueAt(P))
  BY <1>1, <1>2, <1>4, IdsTail, IdsAre DEF MovesOne
<1>6. IsAppend(D[Q], C[Q], C[P][1])
  BY <1>1, <1>2, <1>4, <1>5, IdsAppend DEF MovesOne
<1>7. \A R \in Places \ {P, Q} : Same(D[R], C[R])
  BY <1>1, <1>4, SameItems DEF MovesOne
<1>8. PICK rt : rt = C[P][1].route
  OBVIOUS
<1>9. rt = ev.route /\ rt \in Routes
  BY <1>1, <1>5, <1>8 DEF Id, Items
<1>10. OnWay(rt, P) /\ OnWay(rt, Q)
  <2>1. Placed(P, 1, ev)
    BY <1>5 DEF OInv, PlacesOK, PlacedAll
  <2>2. OnWay(rt, P)
    BY <1>9, <2>1, PlacedOnWay
  <2>3. OnWay(e.route, Q)
    BY <1>9, PlacedOnWay DEF MovesOne
  <2>4. QED BY <1>9, <2>2, <2>3
<1>11. Stage(rt, Q) = Stage(rt, P) + 1
  BY <1>9, <1>10, NextStage
<1>12. PICK M : MovesOn(C, D, M)
  BY <1>5, <1>6, <1>7, <1>8, <1>10, <1>11, OneMove
<1>13. PICK s, d : s = sent /\ d = Arrived
  OBVIOUS
<1>14. Ordered(C, s, d)
  BY <1>3, <1>13 DEF OInv
<1>15. Ordered(D, s, d)
  BY <1>12, <1>14, MovedKept
<1>16. Ordered(Carried, sent, Arrived)'
  <2>1. Arrived' = d /\ sent' = s
    BY <1>13 DEF Arrived
  <2>2. QED BY <1>3, <1>15, <2>1
<1>17. PlacesOK'
  <2>1. SUFFICES ASSUME NEW R \in Places PROVE PlacedAll(R, QueueAt(R)')
    BY DEF PlacesOK, PlacedAll
  <2>2. PlacedAll(R, QueueAt(R))
    BY DEF OInv, PlacesOK
  <2>3. CASE R = P
    BY <1>1, <2>2, <2>3, PlacedTail DEF MovesOne
  <2>4. CASE R = Q
    BY <1>1, <2>2, <2>4, PlacedAppend DEF MovesOne
  <2>5. CASE R \notin {P, Q}
    BY <2>2, <2>5 DEF MovesOne
  <2>6. QED BY <2>3, <2>4, <2>5
<1>18. DeliveredOK'
  BY DEF OInv, DeliveredOK
<1>19. QED BY <1>16, <1>17, <1>18 DEF OInv

-----------------------------------------------------------------------------
(* Each step of an endpoint or of a port moves one packet or none. *)
LEMMA PlaceMade ==
    /\ \A n \in Nics : <<"exit", n, 0>> \in Places
    /\ \A n \in Nics, v \in VNs : <<"send", n, v>> \in Places /\ <<"recv", n, v>> \in Places
    /\ \A x \in Ports : <<"wire", x, 0>> \in Places
    /\ \A x \in Ports, v \in VCs : <<"in", x, v>> \in Places /\ <<"out", x, v>> \in Places
BY DEF Places

(* An endpoint takes a packet off its link (handle_input).                 *)
LEMMA NicPacketOrder ==
    ASSUME IInv, IInv', OInv, NEW n \in Nics, LCPacket(n), pc' = pc, sent' = sent, delivered' = delivered
    PROVE  OInv'
<1>1. LinksOK /\ NicsOK /\ PortsOK
  BY DEF IInv
<1>2. PICK ev : ev = Head(data[n])
  OBVIOUS
<1>3. /\ Others(n) /\ data[n] # <<>> /\ data[n] \in Seq(NicEvents) /\ ev \in NicEvents
      /\ data' = [x \in Ends |-> IF x = n THEN Tail(data[x]) ELSE data[x]]
      /\ lc'[n].output_queues = lc[n].output_queues
      /\ \A u \in VNs : lc'[n].input_queues[u] =
            IF u = VN(ev) THEN Append(lc[n].input_queues[u], ev) ELSE lc[n].input_queues[u]
  BY <1>1, <1>2, LCPacketEffect
<1>4. VN(ev) \in VNs /\ ev.route \in Routes
  BY <1>3, NicEventSize DEF NicEvents
<1>5. PICK P, Q : P = <<"exit", n, 0>> /\ Q = <<"recv", n, VN(ev)>>
  OBVIOUS
<1>6. P \in Places /\ Q \in Places /\ P # Q /\ P[1] = "exit" /\ P[2] = n /\ Q[1] = "recv" /\ Q[2] = n /\ Q[3] = VN(ev)
  BY <1>4, <1>5, PlaceMade
<1>7. QueueAt(P) = data[n] /\ QueueAt(P)' = data'[n]
  BY <1>6, QueueAtIs
<1>8. QueueAt(Q) = lc[n].input_queues[VN(ev)] /\ QueueAt(Q)' = lc'[n].input_queues[VN(ev)]
  BY <1>6, QueueAtIs
<1>9. IsTail(QueueAt(P)', QueueAt(P)) /\ ev = QueueAt(P)[1]
  <2>1. data'[n] = Tail(data[n])
    BY <1>3, EndsAre
  <2>2. QED BY <1>2, <1>3, <1>7, <2>1, TailIs
<1>10. IsAppend(QueueAt(Q)', QueueAt(Q), ev)
  <2>1. lc[n].input_queues[VN(ev)] \in Seq(NicEvents)
    BY <1>1, <1>4 DEF NicsOK, NicOK, NicShape
  <2>2. QED BY <1>3, <1>4, <1>8, <2>1, AppendIs
<1>11. Placed(Q, Len(QueueAt(Q)) + 1, ev)
  <2>1. Placed(P, 1, ev)
    <3>1. 1 \in 1 .. Len(QueueAt(P))
      BY <1>3, <1>7, NicQueue
    <3>2. QED BY <1>6, <1>9, <3>1 DEF OInv, PlacesOK, PlacedAll
  <2>2. QED BY <1>6, <2>1 DEF Placed, VN
<1>12. ASSUME NEW R \in Places \ {P, Q} PROVE QueueAt(R)' = QueueAt(R)
  <2>1. CASE R[1] = "send"
    <3>1. lc'[R[2]].output_queues = lc[R[2]].output_queues
      BY <1>3, <2>1, PlaceIs DEF Others
    <3>2. QED BY <2>1, <3>1, QueueAtIs
  <2>2. CASE R[1] = "wire" \/ R[1] = "exit"
    <3>1. R[2] \in Ends /\ R[2] # n
      BY <1>5, <2>2, PlaceIs, EndsAre
    <3>2. data'[R[2]] = data[R[2]]
      BY <1>3, <3>1
    <3>3. QED BY <2>2, <3>2, QueueAtIs
  <2>3. CASE R[1] = "in" \/ R[1] = "out"
    BY <2>3, QueueAtIs
  <2>4. CASE R[1] = "recv"
    <3>1. R[2] # n \/ R[3] # VN(ev)
      BY <1>5, <2>4, PlaceIs
    <3>2. lc'[R[2]].input_queues[R[3]] = lc[R[2]].input_queues[R[3]]
      BY <1>3, <2>4, <3>1, PlaceIs DEF Others
    <3>3. QED BY <2>4, <3>2, QueueAtIs
  <2>5. QED BY <2>1, <2>2, <2>3, <2>4, PlaceIs
<1>13. Follows(ev.route, P, Q)
  BY <1>6 DEF Follows
<1>14. MovesOne(P, Q, ev)
  BY <1>9, <1>10, <1>11, <1>12 DEF MovesOne
<1>15. QED BY <1>6, <1>9, <1>13, <1>14, OneMoveKept

(* An endpoint sends a packet (handle_output).                             *)
LEMMA NicOutputOrder ==
    ASSUME IInv, IInv', OInv, NEW n \in Nics, Others(n), NEW v \in VNs, NicSends(n, v), pc' = pc,
           lc'[n].input_queues = lc[n].input_queues, sent' = sent, delivered' = delivered
    PROVE  OInv'
<1>1. LinksOK /\ NicsOK /\ PortsOK
  BY DEF IInv
<1>2. PICK ev : ev = Head(lc[n].output_queues[v])
  OBVIOUS
<1>3. /\ lc[n].output_queues[v] # <<>> /\ lc[n].output_queues[v] \in Seq(NicEvents) /\ ev \in NicEvents
      /\ data' = [x \in Ends |-> IF x = Other[n] THEN Append(data[x], ev) ELSE data[x]]
      /\ \A u \in VNs : lc'[n].output_queues[u] =
            IF u = v THEN Tail(lc[n].output_queues[u]) ELSE lc[n].output_queues[u]
  <2>1. lc[n].output_queues[v] \in Seq(NicEvents) /\ lc[n].output_queues[v] # <<>>
    BY <1>1 DEF NicsOK, NicOK, NicShape, NicSends
  <2>2. QED BY <1>2, <2>1, NicQueue DEF NicSends
<1>4. PICK P, Q : P = <<"send", n, v>> /\ Q = <<"wire", Other[n], 0>>
  OBVIOUS
<1>5. Other[n] \in HostPorts /\ Other[n] \in Ends /\ Other[n] \in Ports
  BY OtherIs, EndsAre
<1>6. P \in Places /\ Q \in Places /\ P # Q /\ P[1] = "send" /\ P[2] = n /\ P[3] = v /\ Q[1] = "wire" /\ Q[2] = Other[n]
  BY <1>4, <1>5, PlaceMade
<1>7. QueueAt(P) = lc[n].output_queues[v] /\ QueueAt(P)' = lc'[n].output_queues[v]
  BY <1>6, QueueAtIs
<1>8. QueueAt(Q) = data[Other[n]] /\ QueueAt(Q)' = data'[Other[n]]
  BY <1>6, QueueAtIs
<1>9. IsTail(QueueAt(P)', QueueAt(P)) /\ ev = QueueAt(P)[1]
  BY <1>2, <1>3, <1>7, TailIs
<1>10. IsAppend(QueueAt(Q)', QueueAt(Q), ev)
  <2>1. data[Other[n]] \in Seq(NicEvents)
    BY <1>1, <1>5 DEF LinksOK
  <2>2. data'[Other[n]] = Append(data[Other[n]], ev)
    BY <1>3, <1>5
  <2>3. QED BY <1>3, <1>8, <2>1, <2>2, AppendIs
<1>11. Placed(P, 1, ev)
  <2>1. 1 \in 1 .. Len(QueueAt(P))
    BY <1>3, <1>7, NicQueue
  <2>2. QED BY <1>6, <1>9, <2>1 DEF OInv, PlacesOK, PlacedAll
<1>12. Other[n] = HostPort(ev.route[1])
  <2>1. ev.route \in Routes /\ n = NicEnd(ev.route[1])
    BY <1>3, <1>6, <1>11 DEF NicEvents, Placed
  <2>2. QED BY <2>1, OtherOfNic, RouteEnds
<1>13. Placed(Q, Len(QueueAt(Q)) + 1, ev)
  BY <1>5, <1>6, <1>12 DEF Placed
<1>14. ASSUME NEW R \in Places \ {P, Q} PROVE QueueAt(R)' = QueueAt(R)
  <2>1. CASE R[1] = "recv"
    <3>1. lc'[R[2]].input_queues = lc[R[2]].input_queues
      BY <2>1, PlaceIs DEF Others
    <3>2. QED BY <2>1, <3>1, QueueAtIs
  <2>2. CASE R[1] = "wire" \/ R[1] = "exit"
    <3>1. R[2] \in Ends /\ R[2] # Other[n]
      BY <1>4, <1>5, <2>2, PlaceIs, EndsAre
    <3>2. data'[R[2]] = data[R[2]]
      BY <1>3, <3>1
    <3>3. QED BY <2>2, <3>2, QueueAtIs
  <2>3. CASE R[1] = "in" \/ R[1] = "out"
    BY <2>3, QueueAtIs
  <2>4. CASE R[1] = "send"
    <3>1. R[2] # n \/ R[3] # v
      BY <1>4, <2>4, PlaceIs
    <3>2. lc'[R[2]].output_queues[R[3]] = lc[R[2]].output_queues[R[3]]
      BY <1>3, <2>4, <3>1, PlaceIs DEF Others
    <3>3. QED BY <2>4, <3>2, QueueAtIs
  <2>5. QED BY <2>1, <2>2, <2>3, <2>4, PlaceIs
<1>15. Follows(ev.route, P, Q)
  BY <1>6, <1>12 DEF Follows
<1>16. MovesOne(P, Q, ev)
  BY <1>9, <1>10, <1>13, <1>14 DEF MovesOne
<1>17. QED BY <1>6, <1>9, <1>15, <1>16, OneMoveKept

(* A port takes a packet off its link and routes it if it is the first.    *)
LEMMA ArriveOrder ==
    ASSUME IInv, IInv', OInv, NEW x \in Ports, PCPacket(x), sent' = sent, delivered' = delivered
    PROVE  OInv'
<1>1. LinksOK /\ NicsOK /\ PortsOK
  BY DEF IInv
<1>2. PICK a, ev : a = Head(data[x]) /\ ev = Received(x, a)
  OBVIOUS
<1>3. PICK q : q = pc[x].input_buf[ev.h.vc]
  OBVIOUS
<1>4. /\ OtherPorts(x) /\ lc' = lc /\ data[x] # <<>>
      /\ data' = [y \in Ends |-> IF y = x THEN Tail(data[y]) ELSE data[y]]
      /\ pc'[x].output_buf = pc[x].output_buf
      /\ \A v \in VCs : pc'[x].input_buf[v] =
            IF v = ev.h.vc THEN Queued(x, pc[x].input_buf[v], ev) ELSE pc[x].input_buf[v]
  BY <1>1, <1>2, PCPacketEffect
<1>5. NetEvent(ev) /\ ev.route = a.route /\ a.route \in Routes /\ ev.seq = a.seq
  <2>1. NetEvent(ev) /\ ev.route = a.route /\ a.route \in Routes
    BY <1>1, <1>2, <1>4, ReceivedIs
  <2>2. ev.seq = a.seq
    BY <1>2 DEF Received
  <2>3. QED BY <2>1, <2>2
<1>6. PICK P : P = <<"wire", x, 0>>
  OBVIOUS
<1>7. P \in Places /\ P[1] = "wire" /\ P[2] = x
  BY <1>6, PlaceMade
<1>8. QueueAt(P) = data[x] /\ QueueAt(P)' = data'[x]
  BY <1>7, QueueAtIs
<1>9. IsTail(QueueAt(P)', QueueAt(P)) /\ a = QueueAt(P)[1]
  <2>1. data'[x] = Tail(data[x])
    BY <1>4, EndsAre
  <2>2. QED BY <1>1, <1>2, <1>4, <1>8, <2>1, LinkQueue, EndsAre
<1>10. Placed(P, 1, a)
  <2>1. 1 \in 1 .. Len(QueueAt(P))
    BY <1>1, <1>7, <1>9, ItemsAt DEF Items, IsTail
  <2>2. QED BY <1>7, <1>9, <2>1 DEF OInv, PlacesOK, PlacedAll
<1>11. Visits(ev.route, x, ev.h)
  <2>1. CASE x \in HostPorts
    <3>1. x = HostPort(ev.route[1])
      BY <1>5, <1>7, <1>10, <2>1 DEF Placed
    <3>2. ev.h = CHOOSE g \in process_input(Alg, x[2], a.route[2], VN(a)) : TRUE
      BY <1>1, <1>2, <1>4, <2>1, ReceivedIs
    <3>3. x[2] = Origin(ev.route)
      BY <1>5, <3>1, FirstArrival
    <3>4. process_input(Alg, x[2], a.route[2], VN(a)) = {FirstStop(ev.route)[2]}
      BY <1>5, <3>3, FirstArrival DEF VN
    <3>5. ev.h = FirstStop(ev.route)[2]
      BY <3>2, <3>4
    <3>6. QED BY <1>5, <3>1, <3>5, VisitFirst
  <2>2. CASE x \notin HostPorts
    <3>1. ev = a
      BY <1>1, <1>2, <1>4, <2>2, ReceivedIs
    <3>2. QED BY <1>7, <1>10, <2>2, <3>1 DEF Placed
  <2>3. QED BY <2>1, <2>2
<1>12. ev.h.vc \in VCs
  BY <1>5, <1>11, VisitIs
<1>13. NetQueue(q)
  BY <1>1, <1>3, <1>12 DEF PortsOK, PortOK, PortShape, Buffers
<1>14. PICK Q : Q = <<"in", x, ev.h.vc>>
  OBVIOUS
<1>15. Q \in Places /\ Q[1] = "in" /\ Q[2] = x /\ Q[3] = ev.h.vc
  BY <1>12, <1>14, PlaceMade
<1>16. QueueAt(Q) = q /\ QueueAt(Q)' = Queued(x, q, ev)
  BY <1>3, <1>4, <1>12, <1>15, QueueAtIs
<1>17. PICK e : e = IF q = <<>> THEN Routed(x, ev) ELSE ev
  OBVIOUS
<1>18. IsAppend(QueueAt(Q)', QueueAt(Q), e)
  <2>1. CASE q = <<>>
    <3>1. NetEvent(Routed(x, ev))
      BY <1>5, RoutedIs
    <3>2. Queued(x, q, ev) = <<e>>
      BY <1>17, <2>1 DEF Queued
    <3>3. Len(q) = 0 /\ Len(<<e>>) = 1 /\ <<e>>[1] = e /\ DOMAIN <<e>> = {1}
      BY <1>17, <2>1, <3>1, SingleQueue
    <3>4. QED BY <1>16, <3>2, <3>3 DEF IsAppend
  <2>2. CASE q # <<>>
    BY <1>5, <1>13, <1>16, <1>17, <2>2, NetAppendIs DEF Queued
  <2>3. QED BY <2>1, <2>2
<1>19. Id(e) = Id(a) /\ e.route = a.route
  <2>1. Routed(x, ev).route = ev.route /\ Routed(x, ev).seq = ev.seq
    BY <1>5, RoutedIs DEF Routed, NetEvent
  <2>2. QED BY <1>5, <1>17, <2>1 DEF Id
<1>20. Placed(Q, Len(QueueAt(Q)) + 1, e)
  <2>1. Routed(x, ev).h = Onward(x, ev.h)
    BY <1>5, RoutedIs DEF Onward
  <2>2. Len(q) \in Nat /\ (q = <<>> <=> Len(q) = 0)
    BY <1>13, NetQueueFacts
  <2>3. InAs(e.route, x, ev.h.vc, Len(q) + 1, e.h)
    <3>1. CASE q = <<>>
      <4>1. e.h = Onward(x, ev.h) /\ Len(q) + 1 = 1
        BY <1>17, <2>1, <2>2, <3>1
      <4>2. QED BY <1>5, <1>11, <1>19, <4>1 DEF InAs
    <3>2. CASE q # <<>>
      <4>1. e.h = ev.h /\ Len(q) + 1 # 1
        BY <1>17, <2>2, <3>2
      <4>2. QED BY <1>5, <1>11, <1>19, <4>1 DEF InAs
    <3>3. QED BY <3>1, <3>2
  <2>4. QED BY <1>15, <1>16, <2>3 DEF Placed
<1>21. P # Q
  BY <1>7, <1>15
<1>22. ASSUME NEW R \in Places \ {P, Q} PROVE QueueAt(R)' = QueueAt(R)
  <2>1. CASE R[1] = "send" \/ R[1] = "recv"
    BY <1>4, <2>1, QueueAtIs
  <2>2. CASE R[1] = "wire" \/ R[1] = "exit"
    <3>1. R[2] \in Ends /\ R[2] # x
      BY <1>6, <2>2, PlaceIs, EndsAre
    <3>2. data'[R[2]] = data[R[2]]
      BY <1>4, <3>1
    <3>3. QED BY <2>2, <3>2, QueueAtIs
  <2>3. CASE R[1] = "out"
    <3>1. pc'[R[2]].output_buf = pc[R[2]].output_buf
      BY <1>4, <2>3, PlaceIs DEF OtherPorts
    <3>2. QED BY <2>3, <3>1, QueueAtIs
  <2>4. CASE R[1] = "in"
    <3>1. R[2] # x \/ R[3] # ev.h.vc
      BY <1>14, <2>4, PlaceIs
    <3>2. pc'[R[2]].input_buf[R[3]] = pc[R[2]].input_buf[R[3]]
      BY <1>4, <2>4, <3>1, PlaceIs DEF OtherPorts
    <3>3. QED BY <2>4, <3>2, QueueAtIs
  <2>5. QED BY <2>1, <2>2, <2>3, <2>4, PlaceIs
<1>23. Follows(a.route, P, Q)
  BY <1>7, <1>15 DEF Follows
<1>24. MovesOne(P, Q, e)
  BY <1>9, <1>18, <1>20, <1>22 DEF MovesOne
<1>25. QED BY <1>7, <1>9, <1>15, <1>19, <1>21, <1>23, <1>24, OneMoveKept

(* A port sends a packet, to a router or to its endpoint.                  *)
LEMMA DepartOrder ==
    ASSUME IInv, IInv', OInv, NEW x \in Ports, OtherPorts(x), NEW v \in VCs, PortSends(x, v), lc' = lc,
           pc'[x].input_buf = pc[x].input_buf, sent' = sent, delivered' = delivered
    PROVE  OInv'
<1>1. LinksOK /\ NicsOK /\ PortsOK
  BY DEF IInv
<1>2. PICK q, ev : q = pc[x].output_buf[v] /\ ev = Head(q)
  OBVIOUS
<1>3. NetQueue(q) /\ q # <<>>
  BY <1>1, <1>2 DEF PortsOK, PortOK, PortShape, Buffers, PortSends
<1>4. PICK z, e : z = Other[x] /\ e = Sent(x, ev)
  OBVIOUS
<1>5. /\ data' = [y \in Ends |-> IF y = z THEN Append(data[y], e) ELSE data[y]]
      /\ \A u \in VCs : pc'[x].output_buf[u] =
            IF u = v THEN Tail(pc[x].output_buf[u]) ELSE pc[x].output_buf[u]
  BY <1>2, <1>4 DEF PortSends
<1>6. NetEvent(ev) /\ ev.route \in Routes /\ ev = q[1]
  BY <1>2, <1>3, NetQueueFacts DEF NetEvent
<1>7. Id(e) = Id(ev) /\ e.route = ev.route /\ (x \notin HostPorts => e = ev)
  <2>1. e.seq = ev.seq
    BY <1>4 DEF Sent, Event
  <2>2. e.route = ev.route /\ (x \notin HostPorts => e = ev)
    BY <1>4, <1>6, SentIs
  <2>3. QED BY <2>1, <2>2 DEF Id
<1>8. PICK P : P = <<"out", x, v>>
  OBVIOUS
<1>9. P \in Places /\ P[1] = "out" /\ P[2] = x /\ P[3] = v
  BY <1>8, PlaceMade
<1>10. QueueAt(P) = q /\ QueueAt(P)' = Tail(q)
  BY <1>2, <1>5, <1>9, QueueAtIs
<1>11. IsTail(QueueAt(P)', QueueAt(P)) /\ ev = QueueAt(P)[1]
  BY <1>2, <1>3, <1>10, NetTailIs
<1>12. Placed(P, 1, ev)
  <2>1. 1 \in 1 .. Len(QueueAt(P))
    BY <1>3, <1>10, NetQueueFacts
  <2>2. QED BY <1>9, <1>11, <2>1 DEF OInv, PlacesOK, PlacedAll
<1>13. PICK rt : rt = ev.route
  OBVIOUS
<1>14. PICK w, g : Visits(rt, w, g) /\ x = NextPort(w, g) /\ ev.h = Onward(w, g)
  BY <1>9, <1>12, <1>13 DEF Placed, OutAs
<1>15. x[2] = w[2] /\ rt \in Routes
  BY <1>6, <1>13, <1>14, NextPortIs
<1>16. \E Q \in Places : /\ Q[2] = z /\ Q[3] = 0 /\ (Q[1] = "wire" \/ Q[1] = "exit")
                         /\ Follows(rt, P, Q) /\ Placed(Q, Len(data[z]) + 1, e)
  <2>1. CASE w[2] = Destination(rt)
    <3>1. z = NicEnd(rt[2]) /\ z \in Nics /\ Away(rt, x[2]) = 0
      BY <1>4, <1>14, <1>15, <2>1, VisitLast, VisitIs
    <3>2. PICK Q : Q = <<"exit", z, 0>>
      OBVIOUS
    <3>3. Q \in Places /\ Q[1] = "exit" /\ Q[2] = z /\ Q[3] = 0
      BY <3>1, <3>2, PlaceMade
    <3>4. Follows(rt, P, Q)
      BY <1>9, <3>1, <3>3 DEF Follows
    <3>5. Placed(Q, Len(data[z]) + 1, e)
      BY <1>7, <1>13, <3>1, <3>3 DEF Placed
    <3>6. QED BY <3>3, <3>4, <3>5
  <2>2. CASE w[2] # Destination(rt)
    <3>1. /\ x \notin HostPorts /\ z \in Ports \ HostPorts /\ Visits(rt, z, Onward(w, g))
          /\ Away(rt, z[2]) + 1 = Away(rt, x[2])
      BY <1>4, <1>14, <1>15, <2>2, VisitNext
    <3>2. PICK Q : Q = <<"wire", z, 0>>
      OBVIOUS
    <3>3. Q \in Places /\ Q[1] = "wire" /\ Q[2] = z /\ Q[3] = 0
      BY <3>1, <3>2, PlaceMade
    <3>4. Follows(rt, P, Q)
      BY <1>9, <3>1, <3>3 DEF Follows
    <3>5. Placed(Q, Len(data[z]) + 1, e)
      BY <1>7, <1>13, <1>14, <3>1, <3>3 DEF Placed
    <3>6. QED BY <3>3, <3>4, <3>5
  <2>3. QED BY <2>1, <2>2
<1>17. PICK Q \in Places : /\ Q[2] = z /\ Q[3] = 0 /\ (Q[1] = "wire" \/ Q[1] = "exit")
                           /\ Follows(rt, P, Q) /\ Placed(Q, Len(data[z]) + 1, e)
  BY <1>16
<1>18. QueueAt(Q) = data[z] /\ QueueAt(Q)' = data'[z]
  BY <1>17, QueueAtIs
<1>19. z \in Ends /\ x \in Ends
  BY <1>4, OtherIs, EndsAre
<1>20. IsAppend(QueueAt(Q)', QueueAt(Q), e)
  <2>1. data'[z] = Append(data[z], e)
    BY <1>5, <1>19
  <2>2. IF z \in Nics \cup HostPorts THEN e \in NicEvents ELSE NetEvent(e)
    BY <1>4, <1>6, SentIs
  <2>3. OnLink(z, data[z])
    BY <1>1, <1>19, OnLinkIs
  <2>4. CASE z \in Nics \cup HostPorts
    BY <1>18, <2>1, <2>2, <2>3, <2>4, AppendIs DEF OnLink
  <2>5. CASE z \notin Nics \cup HostPorts
    BY <1>18, <2>1, <2>2, <2>3, <2>5, NetAppendIs DEF OnLink
  <2>6. QED BY <2>4, <2>5
<1>21. P # Q
  BY <1>9, <1>17
<1>22. ASSUME NEW R \in Places \ {P, Q} PROVE QueueAt(R)' = QueueAt(R)
  <2>1. CASE R[1] = "send" \/ R[1] = "recv"
    BY <2>1, QueueAtIs
  <2>2. CASE R[1] = "wire" \/ R[1] = "exit"
    <3>1. R[2] \in Ends
      BY <2>2, PlaceIs, EndsAre
    <3>2. R[2] # z
      BY <1>17, <2>2, PlaceIs, EndsAre
    <3>3. data'[R[2]] = data[R[2]]
      BY <1>5, <3>1, <3>2
    <3>4. QED BY <2>2, <3>3, QueueAtIs
  <2>3. CASE R[1] = "in"
    <3>1. pc'[R[2]].input_buf = pc[R[2]].input_buf
      BY <2>3, PlaceIs DEF OtherPorts
    <3>2. QED BY <2>3, <3>1, QueueAtIs
  <2>4. CASE R[1] = "out"
    <3>1. R[2] # x \/ R[3] # v
      BY <1>8, <2>4, PlaceIs
    <3>2. pc'[R[2]].output_buf[R[3]] = pc[R[2]].output_buf[R[3]]
      BY <1>5, <2>4, <3>1, PlaceIs DEF OtherPorts
    <3>3. QED BY <2>4, <3>2, QueueAtIs
  <2>5. QED BY <2>1, <2>2, <2>3, <2>4, PlaceIs
<1>23. MovesOne(P, Q, e)
  BY <1>11, <1>17, <1>18, <1>20, <1>22 DEF MovesOne
<1>24. QED BY <1>7, <1>9, <1>11, <1>13, <1>17, <1>21, <1>23, OneMoveKept

(* Nothing moves. *)
LEMMA StillOrder ==
    ASSUME OInv, \A R \in Places : QueueAt(R)' = QueueAt(R), sent' = sent, delivered' = delivered
    PROVE  OInv'
<1>1. PICK C, s, d : C = Carried /\ s = sent /\ d = Arrived
  OBVIOUS
<1>2. Carried' = C
  BY <1>1 DEF Carried
<1>3. Arrived' = d
  BY <1>1 DEF Arrived
<1>4. Ordered(C, s, d)
  BY <1>1 DEF OInv
<1>5. Ordered(Carried, sent, Arrived)'
  BY <1>1, <1>2, <1>3, <1>4
<1>6. PlacesOK'
  <2>1. SUFFICES ASSUME NEW R \in Places PROVE PlacedAll(R, QueueAt(R)')
    BY DEF PlacesOK, PlacedAll
  <2>2. QED BY DEF OInv, PlacesOK
<1>7. DeliveredOK'
  BY DEF OInv, DeliveredOK
<1>8. QED BY <1>5, <1>6, <1>7 DEF OInv

(* Credits at an endpoint leave the queues alone.                          *)
LEMMA NicStill ==
    ASSUME NEW n \in Nics, Others(n), data' = data, pc' = pc,
           lc'[n].output_queues = lc[n].output_queues, lc'[n].input_queues = lc[n].input_queues,
           NEW R \in Places
    PROVE  QueueAt(R)' = QueueAt(R)
<1>1. CASE R[1] = "send" \/ R[1] = "recv"
  <2>1. lc'[R[2]].output_queues = lc[R[2]].output_queues /\ lc'[R[2]].input_queues = lc[R[2]].input_queues
    BY <1>1, PlaceIs DEF Others
  <2>2. QED BY <1>1, <2>1, QueueAtIs
<1>2. QED BY <1>1, PlaceIs, QueueAtIs

(* Credits at a port leave the queues alone.                               *)
LEMMA PortStill ==
    ASSUME NEW x \in Ports, OtherPorts(x), data' = data, lc' = lc,
           pc'[x].input_buf = pc[x].input_buf, pc'[x].output_buf = pc[x].output_buf,
           NEW R \in Places
    PROVE  QueueAt(R)' = QueueAt(R)
<1>1. CASE R[1] = "in" \/ R[1] = "out"
  <2>1. pc'[R[2]].output_buf = pc[R[2]].output_buf /\ pc'[R[2]].input_buf = pc[R[2]].input_buf
    BY <1>1, PlaceIs DEF OtherPorts
  <2>2. QED BY <1>1, <2>1, QueueAtIs
<1>2. QED BY <1>1, PlaceIs, QueueAtIs

(* A step that leaves packets alone keeps the order.                       *)
LEMMA FrameOrder ==
    ASSUME OInv, data' = data, lc' = lc, pc' = pc, sent' = sent, delivered' = delivered
    PROVE  OInv'
<1>1. ASSUME NEW R \in Places PROVE QueueAt(R)' = QueueAt(R)
  BY DEF QueueAt
<1>2. QED BY <1>1, StillOrder

(* The endpoint gives the network a packet.                                *)
LEMMA SendOrder ==
    ASSUME IInv, IInv', OInv, NEW rt \in Routes, Send(rt)
    PROVE  OInv'
<1>1. LinksOK /\ NicsOK /\ PortsOK /\ sent \in [Routes -> Nat] /\ sent' \in [Routes -> Nat]
  BY DEF IInv, SentOK
<1>2. PICK n, ev : n = NicEnd(rt[1]) /\ ev = Event(rt, sent[rt])
  OBVIOUS
<1>3. n \in Nics /\ ev \in NicEvents /\ VN(ev) = rt[3] /\ ev.route = rt /\ ev.seq = sent[rt] /\ rt[3] \in VNs
  BY <1>1, <1>2, EventIs, RouteEnds DEF Event
<1>4. LCSend(n, ev) /\ sent' = [sent EXCEPT ![rt] = @ + 1] /\ pc' = pc /\ delivered' = delivered
  BY <1>2 DEF Send
<1>5. /\ Others(n) /\ data' = data /\ lc'[n].input_queues = lc[n].input_queues
      /\ \A v \in VNs : lc'[n].output_queues[v] =
            IF v = VN(ev) THEN Append(lc[n].output_queues[v], ev) ELSE lc[n].output_queues[v]
  BY <1>1, <1>3, <1>4, LCSendEffect
<1>6. PICK P : P = <<"send", n, rt[3]>>
  OBVIOUS
<1>7. P \in Places /\ P[1] = "send" /\ P[2] = n /\ P[3] = rt[3]
  BY <1>3, <1>6, PlaceMade
<1>8. QueueAt(P) = lc[n].output_queues[rt[3]] /\ QueueAt(P)' = Append(lc[n].output_queues[rt[3]], ev)
  <2>1. QueueAt(P) = lc[n].output_queues[rt[3]] /\ QueueAt(P)' = lc'[n].output_queues[rt[3]]
    BY <1>7, QueueAtIs
  <2>2. lc'[n].output_queues[rt[3]] = Append(lc[n].output_queues[rt[3]], ev)
    BY <1>3, <1>5
  <2>3. QED BY <2>1, <2>2
<1>9. IsAppend(QueueAt(P)', QueueAt(P), ev)
  <2>1. lc[n].output_queues[rt[3]] \in Seq(NicEvents)
    BY <1>1, <1>3 DEF NicsOK, NicOK, NicShape
  <2>2. QED BY <1>3, <1>8, <2>1, AppendIs
<1>10. ASSUME NEW R \in Places \ {P} PROVE QueueAt(R)' = QueueAt(R)
  <2>1. CASE R[1] = "recv"
    <3>1. lc'[R[2]].input_queues = lc[R[2]].input_queues
      BY <1>5, <2>1, PlaceIs DEF Others
    <3>2. QED BY <2>1, <3>1, QueueAtIs
  <2>2. CASE R[1] = "wire" \/ R[1] = "exit"
    BY <1>5, <2>2, QueueAtIs
  <2>3. CASE R[1] = "in" \/ R[1] = "out"
    BY <1>4, <2>3, QueueAtIs
  <2>4. CASE R[1] = "send"
    <3>1. R[2] # n \/ R[3] # rt[3]
      BY <1>6, <2>4, PlaceIs
    <3>2. lc'[R[2]].output_queues[R[3]] = lc[R[2]].output_queues[R[3]]
      BY <1>3, <1>5, <2>4, <3>1, PlaceIs DEF Others
    <3>3. QED BY <2>4, <3>2, QueueAtIs
  <2>5. QED BY <2>1, <2>2, <2>3, <2>4, PlaceIs
<1>11. \A R \in Places : Items(QueueAt(R))
  BY <1>1, ItemsAt
<1>12. \A R \in Places : Items(QueueAt(R)')
  <2>1. AllItems'
    BY ItemsOK, PTL
  <2>2. QED BY <2>1 DEF AllItems, Items
<1>13. Placed(P, Len(QueueAt(P)) + 1, ev)
  BY <1>2, <1>3, <1>7 DEF Placed
<1>14. PICK C, D, s, t, d : C = Carried /\ D = Carried' /\ s = sent /\ t = sent' /\ d = Arrived
  OBVIOUS
<1>15. \A R \in Places : C[R] = Ids(QueueAt(R)) /\ D[R] = Ids(QueueAt(R)')
  BY <1>14, CarriedIs
<1>16. Ordered(C, s, d) /\ d \in [Routes -> Nat] /\ d[rt] <= s[rt]
  BY <1>14 DEF OInv, DeliveredOK, Arrived
<1>17. Injects(C, D, P, rt, s[rt])
  <2>1. Id(ev) = [route |-> rt, seq |-> s[rt]]
    BY <1>3, <1>14 DEF Id
  <2>2. IsAppend(D[P], C[P], Id(ev))
    BY <1>7, <1>9, <1>11, <1>12, <1>15, IdsAppend
  <2>3. \A Q \in Places \ {P} : Same(D[Q], C[Q])
    BY <1>10, <1>11, <1>15, SameItems
  <2>4. QED BY <2>1, <2>2, <2>3 DEF Injects
<1>18. OnWay(rt, P) /\ Stage(rt, P) = 0
  <2>1. OnWay(rt, P)
    BY <1>3, <1>7, <1>13, PlacedOnWay
  <2>2. QED BY <1>7, <2>1 DEF Stage
<1>19. s \in [Routes -> Nat] /\ t \in [Routes -> Nat] /\ t[rt] = s[rt] + 1 /\ \A r \in Routes \ {rt} : t[r] = s[r]
  BY <1>1, <1>4, <1>14
<1>20. Ordered(D, t, d)
  BY <1>16, <1>17, <1>18, <1>19, InjectKept
<1>21. Arrived' = d
  BY <1>4, <1>14 DEF Arrived
<1>22. Ordered(Carried, sent, Arrived)'
  BY <1>14, <1>20, <1>21
<1>23. PlacesOK'
  <2>1. SUFFICES ASSUME NEW R \in Places PROVE PlacedAll(R, QueueAt(R)')
    BY DEF PlacesOK, PlacedAll
  <2>2. PlacedAll(R, QueueAt(R))
    BY DEF OInv, PlacesOK
  <2>3. CASE R = P
    BY <1>9, <1>11, <1>13, <2>2, <2>3, PlacedAppend
  <2>4. CASE R # P
    BY <1>10, <2>2, <2>4
  <2>5. QED BY <2>3, <2>4
<1>24. DeliveredOK'
  <2>1. ASSUME NEW r \in Routes PROVE Len(delivered[r]) <= sent'[r]
    <3>1. Len(delivered[r]) \in Nat /\ Len(delivered[r]) <= sent[r] /\ sent[r] \in Nat
      BY <1>1 DEF OInv, DeliveredOK
    <3>2. sent'[r] = sent[r] \/ sent'[r] = sent[r] + 1
      BY <1>14, <1>19
    <3>3. QED BY <3>1, <3>2
  <2>2. QED BY <1>4, <2>1 DEF OInv, DeliveredOK
<1>25. QED BY <1>22, <1>23, <1>24 DEF OInv

(* What an endpoint takes is the next packet of its route.                 *)
LEMMA RecvOrder ==
    ASSUME IInv, IInv', OInv, NEW n \in Nics, NEW v \in VNs, Recv(n, v),
           NEW rt, rt = Head(lc[n].input_queues[v]).route
    PROVE  /\ OInv' /\ rt \in Routes /\ sent' = sent
           /\ Len(delivered[rt]) < sent[rt]
           /\ delivered' = [delivered EXCEPT ![rt] = Append(@, Len(@))]
<1>1. LinksOK /\ NicsOK /\ PortsOK /\ sent \in [Routes -> Nat]
  BY DEF IInv, SentOK
<1>2. PICK q, ev : q = lc[n].input_queues[v] /\ ev = Head(q)
  OBVIOUS
<1>3. LCRecv(n, v) /\ pc' = pc /\ sent' = sent /\ delivered' = [delivered EXCEPT ![rt] = Append(@, ev.seq)]
  BY <1>2 DEF Recv
<1>4. /\ Others(n) /\ data' = data /\ q # <<>> /\ ev \in NicEvents
      /\ lc'[n].output_queues = lc[n].output_queues
      /\ \A u \in VNs : lc'[n].input_queues[u] = IF u = v THEN Tail(lc[n].input_queues[u]) ELSE lc[n].input_queues[u]
  BY <1>1, <1>2, <1>3, LCRecvEffect
<1>5. PICK P : P = <<"recv", n, v>>
  OBVIOUS
<1>6. P \in Places /\ P[1] = "recv" /\ P[2] = n /\ P[3] = v
  BY <1>5, PlaceMade
<1>7. QueueAt(P) = q /\ QueueAt(P)' = Tail(q)
  BY <1>2, <1>4, <1>6, QueueAtIs
<1>8. IsTail(QueueAt(P)', QueueAt(P)) /\ ev = QueueAt(P)[1]
  <2>1. q \in Seq(NicEvents)
    BY <1>1, <1>2 DEF NicsOK, NicOK, NicShape
  <2>2. QED BY <1>2, <1>4, <1>7, <2>1, TailIs
<1>9. ASSUME NEW R \in Places \ {P} PROVE QueueAt(R)' = QueueAt(R)
  <2>1. CASE R[1] = "send"
    <3>1. lc'[R[2]].output_queues = lc[R[2]].output_queues
      BY <1>4, <2>1, PlaceIs DEF Others
    <3>2. QED BY <2>1, <3>1, QueueAtIs
  <2>2. CASE R[1] = "wire" \/ R[1] = "exit"
    BY <1>4, <2>2, QueueAtIs
  <2>3. CASE R[1] = "in" \/ R[1] = "out"
    BY <1>3, <2>3, QueueAtIs
  <2>4. CASE R[1] = "recv"
    <3>1. R[2] # n \/ R[3] # v
      BY <1>5, <2>4, PlaceIs
    <3>2. lc'[R[2]].input_queues[R[3]] = lc[R[2]].input_queues[R[3]]
      BY <1>4, <2>4, <3>1, PlaceIs DEF Others
    <3>3. QED BY <2>4, <3>2, QueueAtIs
  <2>5. QED BY <2>1, <2>2, <2>3, <2>4, PlaceIs
<1>10. \A R \in Places : Items(QueueAt(R))
  BY <1>1, ItemsAt
<1>11. \A R \in Places : Items(QueueAt(R)')
  <2>1. AllItems'
    BY ItemsOK, PTL
  <2>2. QED BY <2>1 DEF AllItems, Items
<1>12. PICK C, D, s, d : C = Carried /\ D = Carried' /\ s = sent /\ d = Arrived
  OBVIOUS
<1>13. \A R \in Places : C[R] = Ids(QueueAt(R)) /\ D[R] = Ids(QueueAt(R)')
  BY <1>12, CarriedIs
<1>14. Ordered(C, s, d) /\ d \in [Routes -> Nat] /\ s \in [Routes -> Nat]
  BY <1>1, <1>12 DEF OInv, DeliveredOK, Arrived
<1>15. Removes(C, D, P) /\ Len(C[P]) # 0 /\ C[P][1] = Id(ev)
  <2>1. IsTail(D[P], C[P]) /\ 1 \in 1 .. Len(QueueAt(P))
    BY <1>6, <1>8, <1>10, <1>11, <1>13, IdsTail
  <2>2. \A Q \in Places \ {P} : Same(D[Q], C[Q])
    BY <1>9, <1>10, <1>13, SameItems
  <2>3. C[P][1] = Id(ev)
    BY <1>6, <1>8, <1>10, <1>13, <2>1, IdsAre
  <2>4. Len(C[P]) # 0
    BY <2>1 DEF IsTail
  <2>5. QED BY <2>1, <2>2, <2>3, <2>4 DEF Removes
<1>16. rt = C[P][1].route /\ C[P][1].seq = ev.seq
  BY <1>2, <1>15 DEF Id
<1>17. Stage(rt, P) = 3 * Stops(rt) + 2
  BY <1>6 DEF Stage
<1>18. rt \in Routes /\ ev.seq = d[rt] /\ d[rt] < s[rt]
  <2>1. P \in Places /\ Len(C[P]) # 0 /\ rt = C[P][1].route
    BY <1>6, <1>15, <1>16
  <2>2. rt \in Routes /\ C[P][1].seq = d[rt] /\ d[rt] < s[rt]
    BY <1>14, <1>17, <2>1, LastIsNext
  <2>3. QED BY <1>16, <2>2
<1>19. d[rt] = Len(delivered[rt])
  BY <1>12, <1>18 DEF Arrived
<1>20. delivered \in [Routes -> Seq(Nat)]
  BY DEF OInv, DeliveredOK
<1>21. delivered' = [delivered EXCEPT ![rt] = Append(@, Len(@))]
  BY <1>3, <1>18, <1>19, <1>20
<1>22. /\ delivered' \in [Routes -> Seq(Nat)] /\ delivered'[rt] = Append(delivered[rt], d[rt])
       /\ Len(delivered'[rt]) = Len(delivered[rt]) + 1
       /\ \A r \in Routes \ {rt} : delivered'[r] = delivered[r]
  <2>1. PICK f, g : f = delivered /\ g = delivered'
    OBVIOUS
  <2>2. PICK k \in Nat : k = d[rt] /\ k = ev.seq
    BY <1>14, <1>18
  <2>3. f[rt] \in Seq(Nat) /\ f \in [Routes -> Seq(Nat)]
    BY <1>18, <1>20, <2>1
  <2>4. Append(f[rt], k) \in Seq(Nat) /\ Len(Append(f[rt], k)) = Len(f[rt]) + 1
    BY <2>2, <2>3, NicQueue
  <2>5. g = [f EXCEPT ![rt] = Append(f[rt], k)]
    BY <1>3, <1>18, <2>1, <2>2, <2>3
  <2>6. g \in [Routes -> Seq(Nat)] /\ g[rt] = Append(f[rt], k) /\ \A r \in Routes \ {rt} : g[r] = f[r]
    BY <1>18, <2>3, <2>4, <2>5
  <2>7. QED BY <2>1, <2>2, <2>4, <2>6
<1>23. PICK t : t = Arrived'
  OBVIOUS
<1>24. t \in [Routes -> Nat] /\ t[rt] = d[rt] + 1 /\ \A r \in Routes \ {rt} : t[r] = d[r]
  <2>1. t = [r \in Routes |-> Len(delivered'[r])]
    BY <1>23 DEF Arrived
  <2>2. PICK g : g = delivered'
    OBVIOUS
  <2>6. ASSUME NEW r \in Routes PROVE Len(g[r]) \in Nat
    <3>1. g[r] \in Seq(Nat)
      BY <1>22, <2>2
    <3>2. QED BY <3>1
  <2>7. t \in [Routes -> Nat]
    BY <2>1, <2>2, <2>6
  <2>8. t[rt] = Len(delivered'[rt])
    BY <1>18, <2>1
  <2>10. Len(delivered'[rt]) = Len(delivered[rt]) + 1
    BY <1>22, Zenon
  <2>9. t[rt] = d[rt] + 1
    BY <1>19, <2>8, <2>10, Zenon
  <2>3. t \in [Routes -> Nat] /\ t[rt] = d[rt] + 1
    BY <2>7, <2>9
  <2>4. ASSUME NEW r \in Routes \ {rt} PROVE t[r] = d[r]
    BY <1>12, <1>22, <2>1 DEF Arrived
  <2>5. QED BY <2>3, <2>4
<1>25. Ordered(D, s, t)
  <2>1. t \in [Routes -> Nat] /\ t[rt] = d[rt] + 1
    BY <1>24
  <2>2. \A r \in Routes \ {rt} : t[r] = d[r]
    BY <1>24
  <2>3. Ordered(C, s, d) /\ Removes(C, D, P) /\ rt = C[P][1].route /\ Stage(rt, P) = 3 * Stops(rt) + 2
    BY <1>14, <1>15, <1>16, <1>17
  <2>4. QED BY <1>6, <1>14, <2>1, <2>2, <2>3, RemoveKept
<1>26. Ordered(Carried, sent, Arrived)'
  BY <1>3, <1>12, <1>23, <1>25
<1>27. PlacesOK'
  <2>1. SUFFICES ASSUME NEW R \in Places PROVE PlacedAll(R, QueueAt(R)')
    BY DEF PlacesOK, PlacedAll
  <2>2. PlacedAll(R, QueueAt(R))
    BY DEF OInv, PlacesOK
  <2>3. CASE R = P
    BY <1>6, <1>8, <1>10, <2>2, <2>3, PlacedTail
  <2>4. CASE R # P
    BY <1>9, <2>2, <2>4
  <2>5. QED BY <2>3, <2>4
<1>28. DeliveredOK'
  <2>1. ASSUME NEW r \in Routes PROVE Len(delivered'[r]) <= sent[r]
    <3>1. CASE r = rt
      <4>1. Len(delivered'[rt]) = d[rt] + 1
        BY <1>18, <1>23, <1>24 DEF Arrived
      <4>2. QED BY <1>12, <1>14, <1>18, <3>1, <4>1
    <3>2. CASE r # rt
      BY <1>22, <3>2 DEF OInv, DeliveredOK
    <3>3. QED BY <3>1, <3>2
  <2>2. QED BY <1>3, <1>22, <2>1 DEF DeliveredOK
<1>29. OInv'
  BY <1>26, <1>27, <1>28 DEF OInv
<1>30. QED BY <1>3, <1>12, <1>18, <1>19, <1>21, <1>29

-----------------------------------------------------------------------------
(* The crossbar moves several packets at once, each from an input buffer   *)
(* to an output buffer of the router.                                      *)
InPlace(r, g)  == <<"in", PortEnd(r, g[1]), g[2]>>
OutPlace(r, g) == <<"out", PortEnd(r, HeadOf(r, g).h.next), HeadOf(r, g).h.vc>>

(* A packet that the crossbar moves, where it comes from and goes to.      *)
LEMMA GrantPlaces ==
    ASSUME IInv, OInv, NEW r \in Routers, NEW G \in Grants(r), NEW g \in G,
           NEW ev, ev = HeadOf(r, g), NEW P, P = InPlace(r, g), NEW Q, Q = OutPlace(r, g)
    PROVE  /\ P \in Places /\ Q \in Places /\ P[1] = "in" /\ Q[1] = "out"
           /\ P[2] = PortEnd(r, g[1]) /\ P[3] = g[2] /\ Q[2] = PortEnd(r, ev.h.next) /\ Q[3] = ev.h.vc
           /\ ev = QueueAt(P)[1] /\ ev.route \in Routes /\ QueueAt(P) # <<>> /\ NetEvent(ev)
           /\ OnWay(ev.route, P) /\ OnWay(ev.route, Q) /\ (\A i : Placed(Q, i, ev))
           /\ Stage(ev.route, Q) = Stage(ev.route, P) + 1
           /\ NetQueue(QueueAt(P)) /\ ev.h.next \in PortNumbers
<1>1. LinksOK /\ NicsOK /\ PortsOK
  BY DEF IInv
<1>2. PICK x : x = PortEnd(r, g[1])
  OBVIOUS
<1>3. /\ g[2] \in VCs /\ x \in Ports /\ g[1] \in PortNumbers /\ pc[x].input_buf[g[2]] # <<>>
      /\ NetQueue(pc[x].input_buf[g[2]]) /\ NetEvent(ev)
  BY <1>1, <1>2, GrantFacts
<1>4. x[2] = r
  BY <1>2, <1>3, EndsAre
<1>5. P = <<"in", x, g[2]>> /\ P[1] = "in" /\ P[2] = x /\ P[3] = g[2]
  BY <1>2 DEF InPlace
<1>6. P \in Places
  BY <1>3, <1>5, PlaceMade
<1>7. QueueAt(P) = pc[x].input_buf[g[2]]
  BY <1>5, QueueAtIs
<1>8. ev = QueueAt(P)[1] /\ Len(QueueAt(P)) \in Nat /\ Len(QueueAt(P)) # 0
  BY <1>2, <1>3, <1>7, NetQueueFacts DEF HeadOf
<1>9. Placed(P, 1, ev)
  <2>1. 1 \in 1 .. Len(QueueAt(P))
    BY <1>8
  <2>2. QED BY <1>6, <1>8, <2>1 DEF OInv, PlacesOK, PlacedAll
<1>10. ev.route \in Routes
  BY <1>3 DEF NetEvent
<1>11. InAs(ev.route, x, g[2], 1, ev.h)
  BY <1>5, <1>9 DEF Placed
<1>12. PICK w : Visits(ev.route, x, w) /\ w.vc = g[2] /\ ev.h = Onward(x, w)
  BY <1>11 DEF InAs
<1>13. PortEnd(r, ev.h.next) = NextPort(x, w)
  BY <1>4, <1>12 DEF NextPort
<1>14. PortEnd(r, ev.h.next) \in Ports /\ PortEnd(r, ev.h.next)[2] = r /\ ev.h.vc \in VCs
  BY <1>4, <1>10, <1>12, <1>13, NextPortIs
<1>15. Q[1] = "out" /\ Q[2] = PortEnd(r, ev.h.next) /\ Q[3] = ev.h.vc /\ Q = <<"out", PortEnd(r, ev.h.next), ev.h.vc>>
  BY DEF OutPlace
<1>16. Q \in Places
  BY <1>14, <1>15, PlaceMade
<1>17. OutAs(ev.route, Q[2], Q[3], ev.h)
  BY <1>12, <1>13, <1>15 DEF OutAs
<1>18. ASSUME NEW i PROVE Placed(Q, i, ev)
  BY <1>15, <1>17 DEF Placed
<1>19. OnWay(ev.route, P) /\ OnWay(ev.route, Q)
  BY <1>6, <1>9, <1>10, <1>16, <1>18, PlacedOnWay
<1>20. Follows(ev.route, P, Q)
  BY <1>4, <1>5, <1>14, <1>15 DEF Follows
<1>21. Stage(ev.route, Q) = Stage(ev.route, P) + 1
  BY <1>10, <1>19, <1>20, NextStage
<1>22. ev.h.next \in PortNumbers
  <2>1. PortEnd(r, ev.h.next)[3] \in PortNumbers
    BY <1>14, EndsAre
  <2>2. QED BY <2>1 DEF PortEnd
<1>23. QED BY <1>2, <1>3, <1>5, <1>6, <1>7, <1>8, <1>10, <1>15, <1>16, <1>18, <1>19, <1>21, <1>22

(* An input buffer whose first packet has left; the next one is routed.    *)
LEMMA AdvanceIs ==
    ASSUME NEW x, NEW q, NetQueue(q), q # <<>>, NEW p, p = RouteHead(x, Tail(q))
    PROVE  /\ NetQueue(p) /\ Len(q) \in Nat \ {0} /\ Len(p) = Len(q) - 1
           /\ \A i \in 1 .. Len(p) : /\ i + 1 \in 1 .. Len(q) /\ NetEvent(q[i + 1])
                                     /\ i = 1 => p[i] = Routed(x, q[i + 1])
                                     /\ i # 1 => p[i] = q[i + 1]
                                     /\ p[i].route = q[i + 1].route /\ p[i].seq = q[i + 1].seq
<1>0. PICK t : t = Tail(q)
  OBVIOUS
<1>1. /\ NetQueue(t) /\ Len(t) = Len(q) - 1 /\ Len(q) \in Nat \ {0}
      /\ \A i \in 1 .. Len(q) - 1 : t[i] = q[i + 1]
  BY <1>0, NetQueueFacts, NetTail
<1>2. NetQueue(p) /\ Len(p) = Len(q) - 1 /\ p = RouteHead(x, t)
  BY <1>0, <1>1, RouteHeadIs
<1>3. ASSUME NEW i \in 1 .. Len(p)
      PROVE  /\ i + 1 \in 1 .. Len(q) /\ NetEvent(q[i + 1])
             /\ i = 1 => p[i] = Routed(x, q[i + 1])
             /\ i # 1 => p[i] = q[i + 1]
             /\ p[i].route = q[i + 1].route /\ p[i].seq = q[i + 1].seq
  <2>1. i + 1 \in 1 .. Len(q) /\ i \in 1 .. Len(t) /\ i \in 1 .. Len(q) - 1
    BY <1>1, <1>2
  <2>2. NetEvent(q[i + 1])
    BY <2>1, NetQueueFacts
  <2>3. t[i] = q[i + 1]
    BY <1>1, <2>1
  <2>4. p[i] = IF i = 1 THEN Routed(x, t[1]) ELSE t[i]
    BY <1>1, <1>2, <2>1, RouteHeadIs
  <2>5. Routed(x, q[i + 1]).route = q[i + 1].route /\ Routed(x, q[i + 1]).seq = q[i + 1].seq
    BY <2>2, RoutedIs DEF Routed, NetEvent
  <2>6. QED BY <2>1, <2>2, <2>3, <2>4, <2>5
<1>4. QED BY <1>1, <1>2, <1>3

(* Routing the next packet does not change its name.                       *)
LEMMA AdvanceIds ==
    ASSUME NEW x, NEW q, NetQueue(q), q # <<>>, NEW p, p = RouteHead(x, Tail(q))
    PROVE  IsTail(Ids(p), Ids(q))
<1>1. Items(q) /\ Items(p)
  BY AdvanceIs, NetItems
<1>2. /\ Len(q) \in Nat \ {0} /\ Len(p) = Len(q) - 1
      /\ \A i \in 1 .. Len(p) : i + 1 \in 1 .. Len(q) /\ p[i].route = q[i + 1].route /\ p[i].seq = q[i + 1].seq
  BY AdvanceIs
<1>3. /\ Len(Ids(q)) = Len(q) /\ DOMAIN Ids(q) = 1 .. Len(q)
      /\ Len(Ids(p)) = Len(p) /\ DOMAIN Ids(p) = 1 .. Len(p)
  BY <1>1, IdsAre
<1>4. ASSUME NEW i \in 1 .. Len(p) PROVE Ids(p)[i] = Ids(q)[i + 1]
  <2>1. Ids(p)[i] = Id(p[i]) /\ Ids(q)[i + 1] = Id(q[i + 1])
    BY <1>1, <1>2, IdsAre
  <2>2. QED BY <1>2, <2>1 DEF Id
<1>5. QED BY <1>2, <1>3, <1>4 DEF IsTail

(* It is routed as it should be.                                           *)
LEMMA AdvancePlaced ==
    ASSUME NEW P \in Places, P[1] = "in", NEW q, NetQueue(q), q # <<>>, PlacedAll(P, q),
           NEW p, p = RouteHead(P[2], Tail(q))
    PROVE  PlacedAll(P, p)
<1>1. SUFFICES ASSUME NEW i \in 1 .. Len(p) PROVE InAs(p[i].route, P[2], P[3], i, p[i].h)
  BY DEF PlacedAll, Placed
<1>2. /\ i + 1 \in 1 .. Len(q) /\ NetEvent(q[i + 1]) /\ p[i].route = q[i + 1].route
      /\ i = 1 => p[i] = Routed(P[2], q[i + 1])
      /\ i # 1 => p[i] = q[i + 1]
  BY AdvanceIs
<1>3. InAs(q[i + 1].route, P[2], P[3], i + 1, q[i + 1].h)
  BY <1>2 DEF PlacedAll, Placed
<1>4. i \in Nat /\ i # 0 /\ i + 1 # 1
  BY AdvanceIs
<1>5. PICK g : Visits(q[i + 1].route, P[2], g) /\ g.vc = P[3] /\ q[i + 1].h = g
  BY <1>3, <1>4 DEF InAs
<1>6. CASE i = 1
  <2>3. p[i] = Routed(P[2], q[i + 1])
    BY <1>2, <1>6
  <2>4. Routed(P[2], q[i + 1]).h = Onward(P[2], q[i + 1].h)
    BY <1>2, RoutedIs DEF Onward
  <2>1. p[i].h = Onward(P[2], g)
    BY <1>5, <2>3, <2>4
  <2>2. QED BY <1>2, <1>5, <1>6, <2>1 DEF InAs
<1>7. CASE i # 1
  BY <1>2, <1>5, <1>7 DEF InAs
<1>8. QED BY <1>6, <1>7

(* The crossbar's step, place by place. *)
LEMMA MovedIn ==
    ASSUME PortsOK, NEW r \in Routers, NEW G \in Grants(r), Moves(r, G),
           NEW R \in Places, R[1] = "in"
    PROVE  \/ /\ \E g \in G : R = InPlace(r, g)
              /\ QueueAt(R)' = RouteHead(R[2], Tail(QueueAt(R)))
           \/ (\A g \in G : R # InPlace(r, g)) /\ QueueAt(R)' = QueueAt(R)
<1>1. PICK x, v : x = R[2] /\ v = R[3]
  OBVIOUS
<1>2. x \in Ports /\ v \in VCs /\ R = <<"in", x, v>>
  BY <1>1, PlaceIs
<1>3. QueueAt(R) = pc[x].input_buf[v] /\ QueueAt(R)' = pc'[x].input_buf[v]
  BY <1>1, QueueAtIs
<1>4. CASE x[2] # r
  <2>1. pc'[x] = pc[x]
    BY <1>2, <1>4, MovesPorts
  <2>2. ASSUME NEW g \in G PROVE R # InPlace(r, g)
    BY <1>2, <1>4 DEF InPlace, PortEnd
  <2>3. QED BY <1>3, <2>1, <2>2
<1>5. CASE x[2] = r
  <2>1. x = PortEnd(r, x[3]) /\ x[3] \in PortNumbers
    BY <1>2, <1>5, EndsAre
  <2>2. pc'[x] = AfterMoves(r, x[3], G)
    BY <2>1, MovesPorts
  <2>3. PICK k : k = pc'[x]
    OBVIOUS
  <2>4. k.input_buf[v] = IF <<x[3], v>> \in G THEN RouteHead(x, Tail(pc[x].input_buf[v])) ELSE pc[x].input_buf[v]
    BY <1>2, <2>1, <2>2, <2>3, AfterMovesIs
  <2>5. CASE <<x[3], v>> \in G
    <3>1. R = InPlace(r, <<x[3], v>>)
      BY <1>2, <2>1 DEF InPlace
    <3>2. QED BY <1>1, <1>3, <2>3, <2>4, <2>5, <3>1
  <2>6. CASE <<x[3], v>> \notin G
    <3>1. ASSUME NEW g \in G PROVE R # InPlace(r, g)
      <4>1. g = <<g[1], g[2]>>
        BY GrantFacts
      <4>2. SUFFICES ASSUME R = InPlace(r, g) PROVE FALSE
        OBVIOUS
      <4>3. x = PortEnd(r, g[1]) /\ v = g[2]
        BY <1>2, <4>2 DEF InPlace
      <4>4. x[3] = g[1]
        BY <4>3 DEF PortEnd
      <4>5. QED BY <2>6, <4>1, <4>3, <4>4
    <3>2. QED BY <1>3, <2>3, <2>4, <2>6, <3>1
  <2>7. QED BY <2>5, <2>6
<1>6. QED BY <1>4, <1>5

(* An output buffer gets at most one packet.                               *)
LEMMA MovedOut ==
    ASSUME PortsOK, NEW r \in Routers, NEW G \in Grants(r), Moves(r, G),
           NEW R \in Places, R[1] = "out"
    PROVE  \/ \E g \in G : R = OutPlace(r, g) /\ IsAppend(QueueAt(R)', QueueAt(R), HeadOf(r, g))
           \/ (\A g \in G : R # OutPlace(r, g)) /\ QueueAt(R)' = QueueAt(R)
<1>1. PICK x, v : x = R[2] /\ v = R[3]
  OBVIOUS
<1>2. x \in Ports /\ v \in VCs /\ R = <<"out", x, v>>
  BY <1>1, PlaceIs
<1>3. QueueAt(R) = pc[x].output_buf[v] /\ QueueAt(R)' = pc'[x].output_buf[v]
  BY <1>1, QueueAtIs
<1>4. CASE x[2] # r
  <2>1. pc'[x] = pc[x]
    BY <1>2, <1>4, MovesPorts
  <2>2. ASSUME NEW g \in G PROVE R # OutPlace(r, g)
    BY <1>2, <1>4 DEF OutPlace, PortEnd
  <2>3. QED BY <1>3, <2>1, <2>2
<1>5. CASE x[2] = r
  <2>1. x = PortEnd(r, x[3]) /\ x[3] \in PortNumbers
    BY <1>2, <1>5, EndsAre
  <2>2. pc'[x] = AfterMoves(r, x[3], G)
    BY <2>1, MovesPorts
  <2>3. PICK k, p : k = pc'[x] /\ p = x[3]
    OBVIOUS
  <2>4. ASSUME NEW g \in G, R = OutPlace(r, g) PROVE HeadOf(r, g).h.next = p /\ HeadOf(r, g).h.vc = v
    BY <1>2, <2>1, <2>3, <2>4 DEF OutPlace, PortEnd
  <2>5. \/ /\ \A g \in G : HeadOf(r, g).h.next # p
           /\ k.output_buf = pc[x].output_buf
        \/ \E g \in G : HeadOf(r, g).h.next = p /\ \A u \in VCs :
              k.output_buf[u] = IF u = HeadOf(r, g).h.vc THEN Append(pc[x].output_buf[u], HeadOf(r, g))
                                ELSE pc[x].output_buf[u]
    BY <2>1, <2>2, <2>3, AfterMovesIs
  <2>6. CASE (\A g \in G : HeadOf(r, g).h.next # p) /\ k.output_buf = pc[x].output_buf
    BY <1>3, <2>3, <2>4, <2>6
  <2>7. ASSUME NEW g \in G, HeadOf(r, g).h.next = p,
               k.output_buf[v] = IF v = HeadOf(r, g).h.vc THEN Append(pc[x].output_buf[v], HeadOf(r, g))
                                 ELSE pc[x].output_buf[v]
        PROVE  \/ \E f \in G : R = OutPlace(r, f) /\ IsAppend(QueueAt(R)', QueueAt(R), HeadOf(r, f))
               \/ (\A f \in G : R # OutPlace(r, f)) /\ QueueAt(R)' = QueueAt(R)
    <3>1. CASE v = HeadOf(r, g).h.vc
      <4>1. R = OutPlace(r, g)
        BY <1>2, <2>1, <2>3, <2>7, <3>1 DEF OutPlace
      <4>2. NetQueue(pc[x].output_buf[v]) /\ NetEvent(HeadOf(r, g))
        BY <1>2, GrantFacts DEF PortsOK, PortOK, PortShape, Buffers
      <4>3. QueueAt(R)' = Append(QueueAt(R), HeadOf(r, g))
        BY <1>3, <2>3, <2>7, <3>1
      <4>4. IsAppend(QueueAt(R)', QueueAt(R), HeadOf(r, g))
        BY <1>3, <4>2, <4>3, NetAppendIs
      <4>5. QED BY <4>1, <4>4
    <3>2. CASE v # HeadOf(r, g).h.vc
      <4>1. ASSUME NEW f \in G, R = OutPlace(r, f) PROVE FALSE
        <5>1. HeadOf(r, f).h.next = p /\ HeadOf(r, f).h.vc = v
          BY <2>4, <4>1
        <5>2. f = g
          BY <2>7, <5>1, GrantFacts
        <5>3. QED BY <3>2, <5>1, <5>2
      <4>2. QueueAt(R)' = QueueAt(R)
        BY <1>3, <2>3, <2>7, <3>2
      <4>3. QED BY <4>1, <4>2
    <3>3. QED BY <3>1, <3>2
  <2>8. QED BY <1>2, <2>5, <2>6, <2>7
<1>6. QED BY <1>4, <1>5

(* What the crossbar grants keeps the order.                               *)
LEMMA MovesOrder ==
    ASSUME IInv, IInv', OInv, NEW r \in Routers, NEW G \in Grants(r), Moves(r, G), data' = data, lc' = lc,
           sent' = sent, delivered' = delivered
    PROVE  OInv'
<1>1. LinksOK /\ NicsOK /\ PortsOK
  BY DEF IInv
<1>2. \A R \in Places : Items(QueueAt(R))
  BY <1>1, ItemsAt
<1>3. \A R \in Places : Items(QueueAt(R)')
  <2>1. AllItems'
    BY ItemsOK, PTL
  <2>2. QED BY <2>1 DEF AllItems, Items
<1>4. PICK C, D : C = Carried /\ D = Carried'
  OBVIOUS
<1>5. \A R \in Places : C[R] = Ids(QueueAt(R)) /\ D[R] = Ids(QueueAt(R)')
  BY <1>4, CarriedIs
<1>6. PICK M : M = {<<InPlace(r, g), OutPlace(r, g)>> : g \in G}
  OBVIOUS
<1>7. ASSUME NEW g \in G, NEW ev, ev = HeadOf(r, g), NEW P, P = InPlace(r, g), NEW Q, Q = OutPlace(r, g)
      PROVE  /\ <<P, Q>> \in M /\ P \in Places /\ Q \in Places /\ P[1] = "in" /\ Q[1] = "out"
             /\ NetQueue(QueueAt(P)) /\ QueueAt(P) # <<>> /\ Len(C[P]) # 0 /\ C[P][1] = Id(ev)
             /\ C[P][1].route = ev.route
             /\ OnWay(ev.route, Q) /\ Stage(ev.route, Q) = Stage(ev.route, P) + 1 /\ (\A i : Placed(Q, i, ev))
  <2>1. /\ P \in Places /\ Q \in Places /\ P[1] = "in" /\ Q[1] = "out" /\ ev = QueueAt(P)[1]
        /\ QueueAt(P) # <<>> /\ OnWay(ev.route, Q) /\ Stage(ev.route, Q) = Stage(ev.route, P) + 1
        /\ NetQueue(QueueAt(P)) /\ (\A i : Placed(Q, i, ev))
    BY <1>7, GrantPlaces
  <2>2. <<P, Q>> \in M
    BY <1>6, <1>7
  <2>3. Len(QueueAt(P)) \in Nat /\ Len(QueueAt(P)) # 0
    BY <2>1, NetQueueFacts
  <2>4. Len(C[P]) # 0
    BY <1>2, <1>5, <2>1, <2>3, IdsAre
  <2>5. C[P][1] = Id(QueueAt(P)[1]) /\ C[P][1].route = QueueAt(P)[1].route
    <3>1. 1 \in 1 .. Len(QueueAt(P))
      BY <2>3
    <3>2. QED BY <1>2, <1>5, <2>1, <3>1, IdsAre
  <2>6. QED BY <2>1, <2>2, <2>4, <2>5
<1>8. ASSUME NEW m \in M
      PROVE  \E g \in G : m = <<InPlace(r, g), OutPlace(r, g)>> /\ m[1] = InPlace(r, g) /\ m[2] = OutPlace(r, g)
  BY <1>6
<1>9. ASSUME NEW m \in M
      PROVE  /\ m \in Places \X Places /\ m[1][1] = "in" /\ m[2][1] = "out" /\ Len(C[m[1]]) # 0
             /\ OnWay(C[m[1]][1].route, m[2])
             /\ Stage(C[m[1]][1].route, m[2]) = Stage(C[m[1]][1].route, m[1]) + 1
  <2>1. PICK g \in G : m = <<InPlace(r, g), OutPlace(r, g)>> /\ m[1] = InPlace(r, g) /\ m[2] = OutPlace(r, g)
    BY <1>8
  <2>2. PICK ev : ev = HeadOf(r, g)
    OBVIOUS
  <2>3. /\ m[1] \in Places /\ m[2] \in Places /\ m[1][1] = "in" /\ m[2][1] = "out"
        /\ Len(C[m[1]]) # 0 /\ C[m[1]][1].route = ev.route
        /\ OnWay(ev.route, m[2]) /\ Stage(ev.route, m[2]) = Stage(ev.route, m[1]) + 1
    BY <1>7, <2>1, <2>2
  <2>4. QED BY <2>1, <2>3
<1>10. ASSUME NEW m \in M, NEW n \in M, m[2] = n[2] PROVE m = n
  <2>1. PICK g \in G : m = <<InPlace(r, g), OutPlace(r, g)>> /\ m[2] = OutPlace(r, g)
    BY <1>8
  <2>2. PICK f \in G : n = <<InPlace(r, f), OutPlace(r, f)>> /\ n[2] = OutPlace(r, f)
    BY <1>8
  <2>3. HeadOf(r, g).h.next = HeadOf(r, f).h.next
    BY <1>10, <2>1, <2>2 DEF OutPlace, PortEnd
  <2>4. f = g
    BY <1>1, <2>3, GrantFacts
  <2>5. QED BY <2>1, <2>2, <2>4
<1>11. ASSUME NEW R \in Places, R[1] \notin {"in", "out"} PROVE QueueAt(R)' = QueueAt(R)
  <2>1. R[1] \in {"send", "wire", "exit", "recv"}
    BY <1>11, PlaceIs
  <2>2. QED BY <2>1, QueueAtIs
<1>12. ASSUME NEW R \in Places
       PROVE  \/ Source(M, R) /\ ~Target(M, R) /\ IsTail(D[R], C[R])
              \/ ~Source(M, R) /\ \E m \in M : m[2] = R /\ IsAppend(D[R], C[R], C[m[1]][1])
              \/ ~Source(M, R) /\ ~Target(M, R) /\ Same(D[R], C[R])
  <2>1. R[1] # "out" => ~Target(M, R)
    BY <1>9 DEF Target
  <2>2. R[1] # "in" => ~Source(M, R)
    BY <1>9 DEF Source
  <2>3. QueueAt(R)' = QueueAt(R) => Same(D[R], C[R])
    BY <1>2, <1>5, SameItems
  <2>4. CASE R[1] \notin {"in", "out"}
    BY <1>11, <2>1, <2>2, <2>3, <2>4
  <2>5. CASE R[1] = "in"
    <3>1. ASSUME NEW g \in G, R = InPlace(r, g), QueueAt(R)' = RouteHead(R[2], Tail(QueueAt(R)))
          PROVE  Source(M, R) /\ IsTail(D[R], C[R])
      <4>1. <<R, OutPlace(r, g)>> \in M /\ NetQueue(QueueAt(R)) /\ QueueAt(R) # <<>>
        BY <1>7, <3>1
      <4>2. Source(M, R)
        BY <4>1 DEF Source
      <4>3. IsTail(Ids(QueueAt(R)'), Ids(QueueAt(R)))
        BY <3>1, <4>1, AdvanceIds
      <4>4. QED BY <1>5, <4>2, <4>3
    <3>2. ASSUME \A g \in G : R # InPlace(r, g), QueueAt(R)' = QueueAt(R)
          PROVE  ~Source(M, R) /\ Same(D[R], C[R])
      <4>1. ~Source(M, R)
        BY <1>8, <3>2 DEF Source
      <4>2. QED BY <2>3, <3>2, <4>1
    <3>3. QED BY <1>1, <2>1, <2>5, <3>1, <3>2, MovedIn
  <2>6. CASE R[1] = "out"
    <3>1. ASSUME NEW g \in G, R = OutPlace(r, g), IsAppend(QueueAt(R)', QueueAt(R), HeadOf(r, g))
          PROVE  \E m \in M : m[2] = R /\ IsAppend(D[R], C[R], C[m[1]][1])
      <4>1. PICK P, ev : P = InPlace(r, g) /\ ev = HeadOf(r, g)
        OBVIOUS
      <4>2. <<P, R>> \in M /\ C[P][1] = Id(ev)
        BY <1>7, <3>1, <4>1
      <4>3. IsAppend(Ids(QueueAt(R)'), Ids(QueueAt(R)), Id(ev))
        BY <1>2, <1>3, <3>1, <4>1, IdsAppend
      <4>4. IsAppend(D[R], C[R], C[P][1])
        BY <1>5, <4>2, <4>3
      <4>5. QED BY <4>2, <4>4
    <3>2. ASSUME \A g \in G : R # OutPlace(r, g), QueueAt(R)' = QueueAt(R)
          PROVE  ~Target(M, R) /\ Same(D[R], C[R])
      <4>1. ~Target(M, R)
        BY <1>8, <3>2 DEF Target
      <4>2. QED BY <2>3, <3>2, <4>1
    <3>3. QED BY <1>1, <2>2, <2>6, <3>1, <3>2, MovedOut
  <2>7. QED BY <2>4, <2>5, <2>6
<1>13. MovesOn(C, D, M)
  BY <1>9, <1>10, <1>12 DEF MovesOn
<1>14. PICK s, d : s = sent /\ d = Arrived
  OBVIOUS
<1>15. Ordered(C, s, d)
  BY <1>4, <1>14 DEF OInv
<1>16. Ordered(D, s, d)
  BY <1>13, <1>15, MovedKept
<1>17. Ordered(Carried, sent, Arrived)'
  <2>1. Arrived' = d /\ sent' = s
    BY <1>14 DEF Arrived
  <2>2. QED BY <1>4, <1>16, <2>1
<1>18. PlacesOK'
  <2>1. SUFFICES ASSUME NEW R \in Places PROVE PlacedAll(R, QueueAt(R)')
    BY DEF PlacesOK, PlacedAll
  <2>2. PlacedAll(R, QueueAt(R))
    BY DEF OInv, PlacesOK
  <2>3. CASE R[1] \notin {"in", "out"}
    BY <1>11, <2>2, <2>3
  <2>4. CASE R[1] = "in"
    <3>1. ASSUME NEW g \in G, R = InPlace(r, g), QueueAt(R)' = RouteHead(R[2], Tail(QueueAt(R)))
          PROVE  PlacedAll(R, QueueAt(R)')
      <4>1. NetQueue(QueueAt(R)) /\ QueueAt(R) # <<>>
        BY <1>7, <3>1
      <4>2. QED BY <2>2, <2>4, <3>1, <4>1, AdvancePlaced
    <3>2. QED BY <1>1, <2>2, <2>4, <3>1, MovedIn
  <2>5. CASE R[1] = "out"
    <3>1. ASSUME NEW g \in G, R = OutPlace(r, g), IsAppend(QueueAt(R)', QueueAt(R), HeadOf(r, g))
          PROVE  PlacedAll(R, QueueAt(R)')
      <4>1. Placed(R, Len(QueueAt(R)) + 1, HeadOf(r, g))
        BY <1>7, <3>1
      <4>2. QED BY <1>2, <2>2, <3>1, <4>1, PlacedAppend
    <3>2. QED BY <1>1, <2>2, <2>5, <3>1, MovedOut
  <2>6. QED BY <2>3, <2>4, <2>5
<1>19. DeliveredOK'
  BY DEF OInv, DeliveredOK
<1>20. QED BY <1>17, <1>18, <1>19 DEF OInv

(* So does a cycle of the router's clock.                                  *)
LEMMA ClockOrder ==
    ASSUME IInv, IInv', OInv, NEW r \in Routers, clock_handler(r)
    PROVE  OInv'
<1>1. /\ data' = data /\ lc' = lc /\ sent' = sent /\ delivered' = delivered
      /\ (pc' = pc /\ credit' = credit) \/ \E G \in Grants(r) : Moves(r, G)
  BY ClockEffect DEF IInv
<1>2. CASE pc' = pc
  BY <1>1, <1>2, FrameOrder
<1>3. CASE \E G \in Grants(r) : Moves(r, G)
  BY <1>1, <1>3, MovesOrder
<1>4. QED BY <1>1, <1>2, <1>3

-----------------------------------------------------------------------------
(* At the start every queue is empty. *)
LEMMA OInit == Init => OInv
<1> SUFFICES ASSUME Init PROVE OInv
  OBVIOUS
<1>1. data = [x \in Ends |-> <<>>]
  BY DEF Init, LinkInit
<1>2. \A n \in Nics, v \in VNs : lc[n].output_queues[v] = <<>> /\ lc[n].input_queues[v] = <<>>
  BY DEF Init, NewLinkControl
<1>3. \A x \in Ports, v \in VCs : pc[x].input_buf[v] = <<>> /\ pc[x].output_buf[v] = <<>>
  BY DEF Init, NewPortControl
<1>4. ASSUME NEW R \in Places PROVE QueueAt(R) = <<>> /\ Len(QueueAt(R)) = 0 /\ 1 .. Len(QueueAt(R)) = {}
  <2>1. QueueAt(R) = <<>>
    <3>1. CASE R[1] = "send" \/ R[1] = "recv"
      BY <1>2, <3>1, PlaceIs, QueueAtIs
    <3>2. CASE R[1] = "wire" \/ R[1] = "exit"
      BY <1>1, <3>2, PlaceIs, QueueAtIs, EndsAre
    <3>3. CASE R[1] = "in" \/ R[1] = "out"
      BY <1>3, <3>3, PlaceIs, QueueAtIs
    <3>4. QED BY <3>1, <3>2, <3>3, PlaceIs
  <2>2. QED BY <2>1
<1>5. PlacesOK
  BY <1>4 DEF PlacesOK, PlacedAll
<1>6. sent = [rt \in Routes |-> 0] /\ delivered = [rt \in Routes |-> <<>>]
  BY DEF Init
<1>7. DeliveredOK
  <2>1. <<>> \in Seq(Nat) /\ Len(<<>>) = 0
    OBVIOUS
  <2>2. delivered \in [Routes -> Seq(Nat)]
    BY <1>6, <2>1
  <2>3. ASSUME NEW rt \in Routes PROVE Len(delivered[rt]) <= sent[rt]
    BY <1>6, <2>1
  <2>4. QED BY <2>2, <2>3 DEF DeliveredOK
<1>8. PICK C, s, d : C = Carried /\ s = sent /\ d = Arrived
  OBVIOUS
<1>9. ASSUME NEW R \in Places PROVE Len(C[R]) = 0 /\ DOMAIN C[R] = 1 .. Len(C[R]) /\ 1 .. Len(C[R]) = {}
  <2>1. C[R] = Ids(QueueAt(R))
    BY <1>8 DEF Carried
  <2>2. Items(QueueAt(R))
    BY <1>4 DEF Items
  <2>3. Len(C[R]) = 0 /\ DOMAIN C[R] = 1 .. 0
    BY <1>4, <2>1, <2>2, IdsAre
  <2>4. QED BY <2>3
<1>10. ASSUME NEW rt \in Routes PROVE s[rt] = 0 /\ d[rt] = 0
  BY <1>6, <1>8 DEF Arrived
<1>11. Contents(C) /\ InOrder(C) /\ AheadFirst(C) /\ Pending(C, s, d)
  BY <1>9 DEF Contents, InOrder, AheadFirst, Pending
<1>12. NoneLost(C, s, d)
  BY <1>10 DEF NoneLost
<1>13. QED BY <1>5, <1>7, <1>8, <1>11, <1>12 DEF OInv, Ordered

(* A step of an endpoint.                                                  *)
LEMMA NicOrder == ASSUME IInv, IInv', OInv, NEW n \in Nics, Nic(n) PROVE OInv'
<1>1. LinksOK /\ NicsOK
  BY DEF IInv
<1>2. pc' = pc /\ sent' = sent /\ delivered' = delivered
  BY DEF Nic
<1>3. CASE LCCredit(n)
  <2>1. \A R \in Places : QueueAt(R)' = QueueAt(R)
    BY <1>1, <1>2, <1>3, LCCreditEffect, NicStill
  <2>2. QED BY <1>2, <2>1, StillOrder
<1>4. CASE LCPacket(n)
  BY <1>2, <1>4, NicPacketOrder
<1>5. CASE LCOutput(n)
  <2>1. /\ Others(n) /\ lc'[n].input_queues = lc[n].input_queues
        /\ (\E v \in VNs : NicSends(n, v)) \/ NicSleeps(n)
    BY <1>1, <1>5, LCOutputEffect
  <2>2. CASE \E v \in VNs : NicSends(n, v)
    BY <1>2, <2>1, <2>2, NicOutputOrder
  <2>3. CASE NicSleeps(n)
    <3>1. \A R \in Places : QueueAt(R)' = QueueAt(R)
      BY <1>2, <2>1, <2>3, NicStill DEF NicSleeps
    <3>2. QED BY <1>2, <3>1, StillOrder
  <2>4. QED BY <2>1, <2>2, <2>3
<1>6. QED BY <1>3, <1>4, <1>5 DEF Nic

(* A step of a port.                                                       *)
LEMMA PortOrder == ASSUME IInv, IInv', OInv, NEW x \in Ports, Port(x) PROVE OInv'
<1>1. LinksOK /\ PortsOK
  BY DEF IInv
<1>2. sent' = sent /\ delivered' = delivered
  BY DEF Port
<1>3. CASE PCCredit(x)
  <2>1. \A R \in Places : QueueAt(R)' = QueueAt(R)
    BY <1>1, <1>3, PCCreditEffect, PortStill
  <2>2. QED BY <1>2, <2>1, StillOrder
<1>4. CASE PCOutput(x)
  <2>1. /\ OtherPorts(x) /\ lc' = lc /\ pc'[x].input_buf = pc[x].input_buf
        /\ (\E v \in VCs : PortSends(x, v)) \/ PortSleeps(x)
    BY <1>1, <1>4, PCOutputEffect
  <2>2. CASE \E v \in VCs : PortSends(x, v)
    BY <1>2, <2>1, <2>2, DepartOrder
  <2>3. CASE PortSleeps(x)
    <3>1. \A R \in Places : QueueAt(R)' = QueueAt(R)
      BY <2>1, <2>3, PortStill DEF PortSleeps
    <3>2. QED BY <1>2, <3>1, StillOrder
  <2>4. QED BY <2>1, <2>2, <2>3
<1>5. QED BY <1>3, <1>4 DEF Port

(* Every step of the network keeps the order.                              *)
LEMMA OStep == IInv /\ OInv /\ [Next]_vars => OInv'
<1> SUFFICES ASSUME IInv, OInv, [Next]_vars PROVE OInv'
  OBVIOUS
<1>0. IInv'
  BY NextOK
<1>1. CASE UNCHANGED vars
  BY <1>1, FrameOrder DEF vars
<1>2. CASE \E rt \in Routes : Send(rt)
  BY <1>0, <1>2, SendOrder
<1>3. CASE \E n \in Nics, v \in VNs : Recv(n, v)
  BY <1>0, <1>3, RecvOrder
<1>4. CASE \E n \in Nics : Nic(n)
  BY <1>0, <1>4, NicOrder
<1>5. ASSUME NEW x \in Ports, Packet(x) PROVE OInv'
  <2>1. PCPacket(x) /\ sent' = sent /\ delivered' = delivered
    BY <1>5 DEF Packet
  <2>2. QED BY <1>0, <2>1, ArriveOrder
<1>6. CASE \E x \in Ports : Packet(x) \/ Port(x)
  BY <1>0, <1>5, <1>6, PortOrder
<1>7. CASE \E r \in Routers : clock_handler(r)
  BY <1>0, <1>7, ClockOrder
<1>8. CASE Stop
  BY <1>8, FrameOrder DEF Stop, vars
<1>9. QED BY <1>1, <1>2, <1>3, <1>4, <1>6, <1>7, <1>8 DEF Next, Step

(* The packets of a route never overtake each other on their way through   *)
(* LinkControls, links, input buffers, crossbars and output buffers, and   *)
(* none is lost or doubled, whatever the shape of the network and however  *)
(* arbitration, timers and links interleave.                               *)
THEOREM OrderKept == Spec => [](IInv /\ OInv)
<1>1. Init => IInv /\ OInv
  BY InitOK, OInit
<1>2. (IInv /\ OInv) /\ [Next]_vars => (IInv /\ OInv)'
  BY NextOK, OStep
<1>3. QED BY <1>1, <1>2, PTL DEF Spec

(* Only send and recv are steps of the channel.                            *)
LEMMA ChannelStep == IInv /\ OInv /\ [Next]_vars => [Channel!Next]_Channel!vars
<1> SUFFICES ASSUME IInv, OInv, [Next]_vars PROVE Channel!Next \/ UNCHANGED Channel!vars
  OBVIOUS
<1>0. IInv'
  BY NextOK
<1>1. ASSUME NEW rt \in Routes, Send(rt) PROVE Channel!Next
  BY <1>1 DEF Send, Channel!Next, Channel!Send
<1>2. ASSUME NEW n \in Nics, NEW v \in VNs, Recv(n, v) PROVE Channel!Next
  <2>1. PICK rt : rt = Head(lc[n].input_queues[v]).route
    OBVIOUS
  <2>2. /\ rt \in Routes /\ sent' = sent /\ Len(delivered[rt]) < sent[rt]
        /\ delivered' = [delivered EXCEPT ![rt] = Append(@, Len(@))]
    BY <1>0, <1>2, <2>1, RecvOrder
  <2>3. QED BY <2>2 DEF Channel!Next, Channel!Deliver
<1>3. CASE sent' = sent /\ delivered' = delivered
  BY <1>3 DEF Channel!vars
<1>4. QED BY <1>1, <1>2, <1>3 DEF Next, Step, Nic, Packet, Port, clock_handler, Stop, vars

(* A merlin network is an ordered channel for every route: an endpoint     *)
(* (recv of its LinkControl) is handed the packets of a route in the order *)
(* in which send was called, each once, for DOR and torus networks of any  *)
(* shape.                                                                  *)
THEOREM Implementation == Spec => ChannelSpec
<1>1. Init => Channel!Init
  BY DEF Init, Channel!Init
<1>2. QED BY <1>1, ChannelStep, OrderKept, PTL DEF Spec, ChannelSpec, Channel!Spec

-----------------------------------------------------------------------------
(* A network at rest. *)
(* Every buffer takes a whole packet. *)
PacketsFit == \A v \in VNs : Flits[v] <= NicIn /\ Flits[v] <= RouterOut

Drained(x) == \A v \in VCs : pc[x].output_buf[v] = <<>>
Resting == IInv /\ CInv /\ OInv /\ PacketsFit /\ Quiescent

(* Every output sleeps, and nothing is under way.                          *)
LEMMA RestingIs ==
    ASSUME Resting
    PROVE  /\ LinksOK /\ NicsOK /\ PortsOK /\ CInv /\ OInv /\ IInv
           /\ \A x \in Ends : data[x] = <<>> /\ credit[x] = <<>>
           /\ \A n \in Nics : lc[n].waiting /\ \A v \in VNs : lc[n].input_queues[v] = <<>>
           /\ \A x \in Ports : pc[x].waiting
<1>1. LinksOK /\ NicsOK /\ PortsOK /\ CInv /\ OInv /\ IInv
  BY DEF Resting, IInv
<1>2. \A x \in Ends : data[x] = <<>> /\ credit[x] = <<>>
  BY DEF Resting, Quiescent
<1>3. ASSUME NEW n \in Nics PROVE lc[n].waiting /\ \A v \in VNs : lc[n].input_queues[v] = <<>>
  <2>1. lc[n].timers = 0 /\ \A v \in VNs : lc[n].input_queues[v] = <<>>
    BY DEF Resting, Quiescent
  <2>2. lc[n].waiting \in BOOLEAN /\ lc[n].timers = IF lc[n].waiting THEN 0 ELSE 1
    BY <1>1 DEF NicsOK, NicOK, NicShape
  <2>3. QED BY <2>1, <2>2
<1>4. ASSUME NEW x \in Ports PROVE pc[x].waiting
  <2>1. pc[x].timers = 0
    BY DEF Resting, Quiescent
  <2>2. pc[x].waiting \in BOOLEAN /\ pc[x].timers = IF pc[x].waiting THEN 0 ELSE 1
    BY <1>1 DEF PortsOK, PortOK, PortShape
  <2>3. QED BY <2>1, <2>2
<1>5. QED BY <1>1, <1>2, <1>3, <1>4

(* On a link at rest the credits and the buffer add up. *)
LEMMA RestingLink ==
    ASSUME Resting, NEW x \in Counted, NEW v \in LinkClasses(x)
    PROVE  SenderCredits(x, v) + Held(x, v) = Room(x) /\ SenderCredits(x, v) \in Int /\ Held(x, v) \in Nat
<1>1. x \in Ends /\ Other[x] \in Ends
  BY CountedEnds, OtherIs
<1>2. LinkOK(x, v)
  BY RestingIs DEF CInv, LinkSums
<1>3. Typed(x, v)
  BY <1>1, RestingIs, CountTypes
<1>4. OnWire(x, v) = 0
  <2>1. data[x] = <<>>
    BY <1>1, RestingIs
  <2>2. PICK b : b = ByVN(x)
    OBVIOUS
  <2>3. OnWire(x, v) = FlitsFor(b, data[x], {v})
    BY <2>2, WireIs
  <2>4. OnWire(x, v) = FlitsFor(b, <<>>, {v})
    BY <2>1, <2>3
  <2>5. FlitsFor(b, <<>>, {v}) = 0
    BY FlitsEmpty
  <2>6. QED BY <2>4, <2>5
<1>5. CreditsTo(Other[x], v) = 0
  <2>1. credit[Other[x]] = <<>>
    BY <1>1, RestingIs
  <2>2. QED BY <2>1, BackIs, CreditsEmpty
<1>6. QED BY <1>2, <1>3, <1>4, <1>5 DEF LinkOK, Typed

(* A port that sleeps has no credits for what it has to send. *)
LEMMA Stuck ==
    ASSUME Resting, NEW x \in Ports, NEW v \in VCs, pc[x].output_buf[v] # <<>>,
           NEW ev, ev = Head(pc[x].output_buf[v])
    PROVE  /\ ev.route \in Routes /\ Size(ev) \in Nat \ {0} /\ Size(ev) <= RouterIn /\ VN(ev) \in VNs
           /\ Size(ev) = Flits[VN(ev)]
           /\ ~(pc[x].port_out_credits[CreditVC(x, v, ev)] >= Size(ev))
<1>1. PortsOK /\ pc[x].waiting
  BY RestingIs
<1>2. NetQueue(pc[x].output_buf[v])
  BY <1>1, PortOutputs
<1>3. NetEvent(ev)
  BY <1>2, NetQueueFacts
<1>4. ev.route \in Routes
  BY <1>3 DEF NetEvent
<1>5. Size(ev) \in Nat \ {0} /\ Size(ev) <= RouterIn /\ VN(ev) \in VNs
  BY <1>4, SizeType
<1>6. ~(pc[x].port_out_credits[CreditVC(x, v, ev)] >= Size(ev))
  BY <1>1 DEF PortsOK, PortOK, PortSleepOK
<1>7. QED BY <1>4, <1>5, <1>6 DEF Size

(* A host port has nothing to send: its endpoint's room is all free.       *)
LEMMA HostDrained == ASSUME Resting, Alg = "DOR", NEW x \in HostPorts PROVE Drained(x)
<1>1. SUFFICES ASSUME NEW v \in VCs, pc[x].output_buf[v] # <<>> PROVE FALSE
  BY DEF Drained
<1>2. x \in Ports /\ x \in Ends
  BY EndsAre
<1>3. PICK ev : ev = Head(pc[x].output_buf[v])
  OBVIOUS
<1>4. PICK w, s : w = VN(ev) /\ s = Size(ev)
  OBVIOUS
<1>5. /\ s \in Nat \ {0} /\ w \in VNs /\ s = Flits[w]
      /\ ~(pc[x].port_out_credits[CreditVC(x, v, ev)] >= s)
  BY <1>1, <1>2, <1>3, <1>4, Stuck
<1>6. CreditVC(x, v, ev) = w
  BY <1>4 DEF CreditVC, isHost
<1>7. PICK n : n = Other[x]
  OBVIOUS
<1>8. n \in Nics /\ Other[n] = x /\ n \in Ends /\ n \notin HostPorts
  BY <1>2, <1>7, OtherIs, EndsAre
<1>9. n \in Counted /\ w \in LinkClasses(n)
  BY <1>5, <1>8, ClassIs DEF Counted
<1>10. SenderCredits(n, w) = pc[x].port_out_credits[w]
  BY <1>8, SenderIs
<1>11. Held(n, w) = 0
  <2>1. lc[n].input_queues[w] = <<>>
    BY <1>5, <1>8, RestingIs
  <2>2. QED BY <1>8, <2>1, HeldIs, FlitsOfEmpty
<1>12. Room(n) = NicIn /\ NicIn \in Nat
  BY <1>8, EndsAre, BufferAssumption DEF Room
<1>13. pc[x].port_out_credits[w] = NicIn
  BY <1>9, <1>10, <1>11, <1>12, RestingLink
<1>14. s <= NicIn
  BY <1>5 DEF Resting, PacketsFit
<1>15. QED BY <1>5, <1>6, <1>12, <1>13, <1>14

(* A packet waits in the output of a port only if the input behind it is   *)
(* not empty.                                                              *)
LEMMA PeerFull ==
    ASSUME Resting, NEW x \in Ports \ HostPorts, NEW v \in VCs, pc[x].output_buf[v] # <<>>
    PROVE  Other[x] \in Ports \ HostPorts /\ pc[Other[x]].input_buf[v] # <<>>
<1>1. x \in Ends
  BY EndsAre
<1>2. PICK ev : ev = Head(pc[x].output_buf[v])
  OBVIOUS
<1>3. PICK s : s = Size(ev)
  OBVIOUS
<1>4. s \in Nat /\ s <= RouterIn /\ ~(pc[x].port_out_credits[CreditVC(x, v, ev)] >= s)
  BY <1>2, <1>3, Stuck
<1>5. CreditVC(x, v, ev) = v
  BY DEF CreditVC, isHost
<1>6. PICK z : z = Other[x]
  OBVIOUS
<1>7. z \in Ports \ HostPorts /\ Other[z] = x /\ z \in Ends
  BY <1>1, <1>6, OtherIs, EndsAre
<1>8. z \in Counted /\ v \in LinkClasses(z)
  BY <1>7, ClassIs, EndsAre DEF Counted
<1>9. SenderCredits(z, v) = pc[x].port_out_credits[v]
  BY <1>7, SenderIs
<1>10. Room(z) = RouterIn /\ RouterIn \in Nat
  BY <1>7, EndsAre, BufferAssumption DEF Room
<1>11. ASSUME pc[z].input_buf[v] = <<>> PROVE FALSE
  <2>1. Held(z, v) = 0
    BY <1>7, <1>11, HeldIs, FlitsOfEmpty
  <2>2. pc[x].port_out_credits[v] = RouterIn
    BY <1>8, <1>9, <1>10, <2>1, RestingLink
  <2>3. QED BY <1>4, <1>5, <1>10, <2>2
<1>12. QED BY <1>6, <1>7, <1>11

(* The first packet of an input has been routed to a port of its router. *)
LEMMA HeadAsks ==
    ASSUME IInv, OInv, NEW x \in Ports, NEW v \in VCs, pc[x].input_buf[v] # <<>>,
           NEW ev, ev = Head(pc[x].input_buf[v])
    PROVE  /\ ev.route \in Routes /\ ev.h.vc \in VCs /\ ev.h.next \in PortNumbers
           /\ PortEnd(x[2], ev.h.next) \in Ports
           /\ \E h : Visits(ev.route, x, h) /\ h.vc = v /\ ev.h = Onward(x, h)
<1>1. LinksOK /\ NicsOK /\ PortsOK
  BY DEF IInv
<1>2. PICK P : P = <<"in", x, v>>
  OBVIOUS
<1>3. P \in Places /\ P[1] = "in" /\ P[2] = x /\ P[3] = v
  BY <1>2, PlaceMade
<1>4. QueueAt(P) = pc[x].input_buf[v]
  BY <1>3, QueueAtIs
<1>5. NetQueue(QueueAt(P))
  BY <1>1, <1>4 DEF PortsOK, PortOK, PortShape, Buffers
<1>6. ev = QueueAt(P)[1] /\ 1 \in 1 .. Len(QueueAt(P)) /\ NetEvent(ev)
  BY <1>4, <1>5, NetQueueFacts
<1>7. Placed(P, 1, ev)
  BY <1>3, <1>6 DEF OInv, PlacesOK, PlacedAll
<1>8. InAs(ev.route, x, v, 1, ev.h)
  BY <1>3, <1>7 DEF Placed
<1>9. PICK h : Visits(ev.route, x, h) /\ h.vc = v /\ ev.h = Onward(x, h)
  BY <1>8 DEF InAs
<1>10. ev.route \in Routes
  BY <1>6 DEF NetEvent
<1>11. PortEnd(x[2], ev.h.next) = NextPort(x, h)
  BY <1>9 DEF NextPort
<1>12. PortEnd(x[2], ev.h.next) \in Ports /\ ev.h.vc \in VCs
  BY <1>9, <1>10, <1>11, NextPortIs
<1>13. ev.h.next \in PortNumbers
  <2>1. PortEnd(x[2], ev.h.next)[3] \in PortNumbers
    BY <1>12, EndsAre
  <2>2. QED BY <2>1 DEF PortEnd
<1>14. QED BY <1>9, <1>10, <1>12, <1>13

(* It could move if nothing waited there. *)
LEMMA AskedNotDrained ==
    ASSUME Resting, NEW x \in Ports, NEW v \in VCs, pc[x].input_buf[v] # <<>>,
           NEW y, y = PortEnd(x[2], Head(pc[x].input_buf[v]).h.next), Drained(y)
    PROVE  FALSE
<1>1. PICK ev : ev = Head(pc[x].input_buf[v])
  OBVIOUS
<1>2. ev.route \in Routes /\ ev.h.vc \in VCs /\ ev.h.next \in PortNumbers /\ y \in Ports
  BY <1>1, RestingIs, HeadAsks
<1>3. PICK r, p, q, c, s : r = x[2] /\ p = x[3] /\ q = ev.h.next /\ c = ev.h.vc /\ s = Size(ev)
  OBVIOUS
<1>4. r \in Routers /\ p \in PortNumbers /\ x = PortEnd(r, p) /\ y = PortEnd(r, q)
  BY <1>1, <1>3, EndsAre
<1>5. s \in Nat /\ s <= RouterOut
  <2>1. s \in Nat /\ VN(ev) \in VNs
    BY <1>2, <1>3, SizeType
  <2>2. QED BY <1>3, <2>1 DEF Resting, PacketsFit, Size
<1>6. pc[y].xbar_in_credits[c] = RouterOut
  <2>1. pc[y].output_buf[c] = <<>>
    BY <1>2, <1>3 DEF Drained
  <2>2. pc[y].xbar_in_credits[c] + FlitsOf(pc[y].output_buf[c]) = RouterOut
    BY <1>2, <1>3, RestingIs DEF CInv, PortSums
  <2>3. pc[y].xbar_in_credits[c] \in Int
    BY <1>2, <1>3, RestingIs, PortOutputs
  <2>4. FlitsOf(pc[y].output_buf[c]) = 0
    BY <2>1, FlitsOfEmpty
  <2>5. PICK a, f : a = pc[y].xbar_in_credits[c] /\ f = FlitsOf(pc[y].output_buf[c])
    OBVIOUS
  <2>6. a \in Int /\ f = 0 /\ a + f = RouterOut
    BY <2>2, <2>3, <2>4, <2>5
  <2>7. a = RouterOut
    BY <2>6, RouterOutAssumption
  <2>8. QED BY <2>5, <2>7, Zenon
<1>7. spaceToSend(y, c, s)
  BY <1>5, <1>6, RouterOutAssumption DEF spaceToSend
<1>8. PICK g : g = <<p, v>>
  OBVIOUS
<1>9. g \in PortNumbers \X VCs /\ g[1] = p /\ g[2] = v
  BY <1>4, <1>8
<1>10. HeadOf(r, g) = ev
  BY <1>1, <1>4, <1>9 DEF HeadOf
<1>11. /\ Movable(r) = {} /\ rtr[r].in_port_busy[p] = 0 /\ rtr[r].out_port_busy[q] = 0
  BY <1>2, <1>3, <1>4 DEF Resting, Quiescent
<1>12. g \in Movable(r)
  <2>1. pc[PortEnd(r, g[1])].input_buf[g[2]] # <<>>
    BY <1>4, <1>9
  <2>2. rtr[r].in_port_busy[g[1]] = 0 /\ rtr[r].out_port_busy[HeadOf(r, g).h.next] = 0
    BY <1>3, <1>9, <1>10, <1>11
  <2>3. spaceToSend(PortEnd(r, HeadOf(r, g).h.next), HeadOf(r, g).h.vc, Size(HeadOf(r, g)))
    BY <1>3, <1>4, <1>7, <1>10
  <2>4. QED BY <1>9, <2>1, <2>2, <2>3 DEF Movable
<1>13. QED BY <1>11, <1>12

(* The link of a HyperX port stays in its dimension. *)
LEMMA PeerDim ==
    ASSUME Alg = "DOR", NEW x \in Ports, NEW d \in Dims, InDim(d, x[3])
    PROVE  x \in Ports \ HostPorts /\ InDim(d, Other[x][3])
<1>1. PICK r, p : r = x[2] /\ p = x[3]
  OBVIOUS
<1>2. r \in Routers /\ x = PortEnd(r, p) /\ InDim(d, p)
  BY <1>1, EndsAre
<1>3. LocalPortStart(Alg) = HyperXStart[Len(Shape) + 1] /\ Alg \notin Grids
  BY DEF LocalPortStart, Grids
<1>4. p \in 0 .. LocalPortStart(Alg) - 1
  BY <1>2, <1>3, InDimRange
<1>5. PICK e \in Beside(r, d) : offset(r, d, e) = p
  BY <1>2, OffsetOnto
<1>6. /\ e \in 0 .. Shape[d] - 1 /\ Location(r)[d] \in Beside(Moved(r, d, e), d)
      /\ HyperXPeer(r, p) = <<Moved(r, d, e), offset(Moved(r, d, e), d, Location(r)[d])>>
  BY <1>2, <1>5, HyperXPeerOffset
<1>7. PICK o, k : o = Moved(r, d, e) /\ k = Location(r)[d]
  OBVIOUS
<1>8. o \in Routers /\ k \in Beside(o, d)
  BY <1>2, <1>6, <1>7, MovedLocation
<1>9. InDim(d, offset(o, d, k))
  BY <1>8, OffsetIsWired
<1>10. Peer(Alg, r, p) = <<o, offset(o, d, k)>>
  BY <1>3, <1>6, <1>7 DEF Peer
<1>11. PICK z : z = Peer(Alg, r, p)
  OBVIOUS
<1>12. x \in Ports \ HostPorts /\ Other[x] = PortEnd(z[1], z[2])
  BY <1>2, <1>4, <1>11, OtherIsPeer
<1>13. Other[x][3] = offset(o, d, k)
  BY <1>10, <1>11, <1>12 DEF PortEnd
<1>14. QED BY <1>9, <1>12, <1>13

(* From the last dimension to the first, no port has a packet to send. *)
LEMMA DimensionsDrained ==
    ASSUME Resting, Alg = "DOR", NEW x \in Ports
    PROVE  Drained(x)
<1> DEFINE T == {k \in Nat : \A y \in Ports, d \in Dims :
                   InDim(d, y[3]) /\ Len(Shape) < d + k => Drained(y)}
<1>1. Len(Shape) \in Nat /\ Dims = 1 .. Len(Shape)
  BY ShapeType
<1>2. 0 \in T
  BY <1>1
<1>3. ASSUME NEW k \in T PROVE k + 1 \in T
  <2>1. k \in Nat
    OBVIOUS
  <2>2. SUFFICES ASSUME NEW y \in Ports, NEW d \in Dims, InDim(d, y[3]), Len(Shape) < d + (k + 1)
                 PROVE  Drained(y)
    BY <2>1
  <2>3. SUFFICES ASSUME NEW v \in VCs, pc[y].output_buf[v] # <<>> PROVE FALSE
    BY DEF Drained
  <2>4. PICK z : z = Other[y]
    OBVIOUS
  <2>5. y \in Ports \ HostPorts /\ InDim(d, z[3])
    BY <2>2, <2>4, PeerDim
  <2>6. z \in Ports \ HostPorts /\ pc[z].input_buf[v] # <<>>
    BY <2>3, <2>4, <2>5, PeerFull
  <2>7. PICK ev, rt, u : ev = Head(pc[z].input_buf[v]) /\ rt = ev.route /\ u = PortEnd(z[2], ev.h.next)
    OBVIOUS
  <2>8. /\ rt \in Routes /\ u \in Ports
        /\ \E h : Visits(rt, z, h) /\ ev.h = Onward(z, h)
    BY <2>6, <2>7, RestingIs, HeadAsks
  <2>9. PICK h : Visits(rt, z, h) /\ ev.h = Onward(z, h)
    BY <2>8
  <2>10. u = NextPort(z, h)
    BY <2>7, <2>9 DEF NextPort
  <2>11. Drained(u)
    <3>1. CASE z[2] = Destination(rt)
      <4>1. u \in HostPorts
        BY <2>8, <2>9, <2>10, <3>1, VisitLast
      <4>2. QED BY <4>1, HostDrained
    <3>2. CASE z[2] # Destination(rt)
      <4>1. Arrival(rt, z, h)
        BY <2>8, <2>9, VisitIs
      <4>2. LaterDim(z, ev.h)
        BY <2>8, <2>9, <3>2, <4>1, DORHop
      <4>3. PICK e \in Dims : InDim(e, ev.h.next) /\ d < e
        BY <2>5, <4>2 DEF LaterDim
      <4>4. InDim(e, u[3])
        BY <2>7, <4>3 DEF PortEnd
      <4>5. Len(Shape) < e + k
        BY <1>1, <2>1, <2>2, <4>3
      <4>6. QED BY <2>8, <4>4, <4>5
    <3>3. QED BY <3>1, <3>2
  <2>12. QED BY <2>6, <2>7, <2>11, AskedNotDrained
<1>4. \A k \in Nat : k \in T
  <2>1. T \subseteq Nat
    OBVIOUS
  <2> HIDE DEF T
  <2>2. QED BY <1>2, <1>3, <2>1, SetInduction, Zenon
<1>5. CASE x \in HostPorts
  BY <1>5, HostDrained
<1>6. CASE x \notin HostPorts
  <2>1. x[3] \in PortNumbers /\ ~isHostPort(Alg, x[3])
    BY <1>6, EndsAre DEF HostPorts
  <2>2. LocalPortStart(Alg) = HyperXStart[Len(Shape) + 1]
    BY DEF LocalPortStart, Grids
  <2>3. x[3] \in 0 .. HyperXStart[Len(Shape) + 1] - 1
    BY <2>1, <2>2, StartPorts, ShapeAssumption DEF PortNumbers, isHostPort, Algorithms
  <2>4. PICK d \in Dims : InDim(d, x[3])
    BY <2>3, InDimExists
  <2>5. Len(Shape) \in T
    BY <1>1, <1>4
  <2>6. Len(Shape) < d + Len(Shape)
    BY <1>1
  <2>7. QED BY <2>4, <2>5, <2>6
<1>7. QED BY <1>5, <1>6

(* So nothing is left anywhere. *)
LEMMA AllEmpty ==
    ASSUME Resting, \A x \in Ports : Drained(x), NEW P \in Places
    PROVE  QueueAt(P) = <<>>
<1>1. ASSUME NEW x \in Ports, NEW v \in VCs PROVE pc[x].input_buf[v] = <<>>
  <2>1. SUFFICES ASSUME pc[x].input_buf[v] # <<>> PROVE FALSE
    OBVIOUS
  <2>2. PICK y : y = PortEnd(x[2], Head(pc[x].input_buf[v]).h.next)
    OBVIOUS
  <2>3. y \in Ports
    BY <2>1, <2>2, RestingIs, HeadAsks
  <2>4. Drained(y)
    BY <2>3
  <2>5. QED BY <2>1, <2>2, <2>4, AskedNotDrained
<1>2. ASSUME NEW n \in Nics, NEW v \in VNs PROVE lc[n].output_queues[v] = <<>>
  <2>1. NicOK(lc[n]) /\ lc[n].waiting
    BY RestingIs DEF NicsOK
  <2>2. ASSUME NEW w \in VNs, Blocked(lc[n], w) PROVE FALSE
    <3>1. PICK ev, s, q : q = lc[n].output_queues[w] /\ ev = Head(q) /\ s = Size(ev)
      OBVIOUS
    <3>2. q # <<>> /\ lc[n].router_credits[w] < s
      BY <2>2, <3>1 DEF Blocked
    <3>3. q \in Seq(NicEventsOf(w))
      BY <3>1, RestingIs, NicOutputs
    <3>4. ev \in NicEventsOf(w)
      BY <3>1, <3>2, <3>3, NicQueue
    <3>5. s \in Nat /\ s <= RouterIn
      BY <3>1, <3>4, NicEventSize DEF NicEventsOf
    <3>6. PICK x : x = Other[n]
      OBVIOUS
    <3>7. x \in HostPorts /\ Other[x] = n /\ x \in Ends /\ x \in Ports
      BY <3>6, OtherIs, EndsAre
    <3>8. x \in Counted /\ w \in LinkClasses(x)
      BY <3>7, ClassIs DEF Counted
    <3>9. SenderCredits(x, w) = lc[n].router_credits[w]
      BY <3>7, SenderIs
    <3>10. Held(x, w) = 0
      <4>1. StartVC(Alg, w) \in VCs
        BY StartVCIs
      <4>2. pc[x].input_buf[StartVC(Alg, w)] = <<>>
        BY <1>1, <3>7, <4>1
      <4>3. QED BY <3>7, <4>2, HeldIs, FlitsOfEmpty
    <3>11. Room(x) = RouterIn /\ RouterIn \in Nat
      BY <3>7, EndsAre, BufferAssumption DEF Room
    <3>12. lc[n].router_credits[w] = RouterIn
      BY <3>8, <3>9, <3>10, <3>11, RestingLink
    <3>13. QED BY <3>2, <3>5, <3>11, <3>12
  <2>3. QED BY <2>1, <2>2 DEF NicOK, NicSleepOK
<1>3. CASE P[1] = "send"
  BY <1>2, <1>3, PlaceIs, QueueAtIs
<1>4. CASE P[1] = "recv"
  BY <1>4, RestingIs, PlaceIs, QueueAtIs
<1>5. CASE P[1] = "wire" \/ P[1] = "exit"
  BY <1>5, RestingIs, PlaceIs, QueueAtIs, EndsAre
<1>6. CASE P[1] = "in"
  BY <1>1, <1>6, PlaceIs, QueueAtIs
<1>7. CASE P[1] = "out"
  BY <1>7, PlaceIs, QueueAtIs DEF Drained
<1>8. QED BY <1>3, <1>4, <1>5, <1>6, <1>7, PlaceIs

(* What is nowhere in the network has been delivered. *)
LEMMA AllDelivered ==
    ASSUME OInv, SentOK, \A P \in Places : QueueAt(P) = <<>>, NEW rt \in Routes
    PROVE  Len(delivered[rt]) = sent[rt]
<1>1. PICK C, s, d : C = Carried /\ s = sent /\ d = Arrived
  OBVIOUS
<1>2. NoneLost(C, s, d)
  BY <1>1 DEF OInv, Ordered
<1>3. PICK n \in Nat : n = Len(delivered[rt])
  BY DEF OInv, DeliveredOK
<1>4. d[rt] = n /\ s[rt] \in Nat /\ n <= s[rt]
  BY <1>1, <1>3 DEF Arrived, OInv, DeliveredOK, SentOK
<1>5. ASSUME NEW P \in Places PROVE 1 .. Len(C[P]) = {}
  <2>1. C[P] = Ids(QueueAt(P)) /\ QueueAt(P) = <<>>
    BY <1>1 DEF Carried
  <2>2. Len(QueueAt(P)) = 0
    BY <2>1
  <2>3. Items(QueueAt(P))
    BY <2>1, <2>2 DEF Items
  <2>4. Len(C[P]) = 0
    BY <2>1, <2>2, <2>3, IdsAre
  <2>5. QED BY <2>4
<1>6. ~Somewhere(C, rt, n)
  BY <1>5 DEF Somewhere
<1>7. ~(n < s[rt])
  BY <1>2, <1>4, <1>6 DEF NoneLost
<1>8. QED BY <1>1, <1>3, <1>4, <1>7

(* A network at rest has delivered everything.                             *)
LEMMA RestingDelivered ==
    IInv /\ CInv /\ OInv => (Alg = "DOR" /\ PacketsFit => NoDeadlock)
<1> SUFFICES ASSUME IInv, CInv, OInv, Alg = "DOR", PacketsFit, Quiescent, NEW rt \in Routes
             PROVE  Len(delivered[rt]) = sent[rt]
  BY DEF NoDeadlock
<1>1. Resting
  BY DEF Resting
<1>2. \A x \in Ports : Drained(x)
  BY <1>1, DimensionsDrained
<1>3. \A P \in Places : QueueAt(P) = <<>>
  BY <1>1, <1>2, AllEmpty
<1>4. QED BY <1>3, AllDelivered DEF IInv

(* A DOR network never seizes up: when no timer, link event or possible    *)
(* move of a crossbar is left, handle_output of every port and LinkControl *)
(* has run dry and every packet sent has been delivered, if each buffer is *)
(* large enough for a packet.                                              *)
THEOREM DeadlockFree == Spec => [](Alg = "DOR" /\ PacketsFit => NoDeadlock)
BY RestingDelivered, CreditInvariance, OrderKept, PTL
=============================================================================
