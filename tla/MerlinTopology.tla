---------------------------- MODULE MerlinTopology ----------------------------
(***************************************************************************)
(* merlin's direct topologies: how the Python front end wires the ports    *)
(* of the routers (pymerlin-topo-hyperx.py, pymerlin-topo-mesh.py) and how *)
(* the routers number them and route (torus.cc, mesh.cc, hyperx.cc).       *)
(* Every link has width 1.  A hop that depends on queue lengths or on      *)
(* random numbers may be any of the candidates.                            *)
(***************************************************************************)
EXTENDS Naturals, Sequences, FiniteSets

CONSTANTS Shape,        \* routers per dimension
          LocalPorts    \* endpoints per router

ASSUME ShapeAssumption == /\ Shape # <<>> /\ Shape \in Seq(Nat \ {0})
                          /\ LocalPorts \in Nat \ {0}

Dims == DOMAIN Shape

(* Routers in one hyperplane of the dimensions below d. *)
Below[d \in 1 .. Len(Shape) + 1] == IF d = 1 THEN 1 ELSE Below[d - 1] * Shape[d - 1]
Routers   == 0 .. Below[Len(Shape) + 1] - 1
Endpoints == 0 .. Below[Len(Shape) + 1] * LocalPorts - 1

idToLocation == [r \in Routers |-> [d \in Dims |-> (r \div Below[d]) % Shape[d]]]
Location(r)  == idToLocation[r]
AtLocation(l) == CHOOSE r \in Routers : Location(r) = l
Moved(r, d, x) == AtLocation([Location(r) EXCEPT ![d] = x])

get_dest_router(e) == e \div LocalPorts

(* A packet inside the network, as process_input makes it.  dim is the     *)
(* torus' routing_dim and hyperx' last_routing_dim, mid the router a       *)
(* Valiant packet visits first.                                            *)
NewPacket(dst, vn, vc, dim, mid) ==
    [dst |-> dst, vn |-> vn, vc |-> vc, dim |-> dim, mid |-> mid, val |-> FALSE, next |-> 0]

-----------------------------------------------------------------------------
(* HyperX: a router is linked to every other one in each dimension. *)
HyperXStart[d \in 1 .. Len(Shape) + 1] ==
    IF d = 1 THEN 0 ELSE HyperXStart[d - 1] + Shape[d - 1] - 1

(* The port that the front end has counted up to when it wires router x of *)
(* dimension d.                                                            *)
HyperXWired(r, d, x) ==
    HyperXStart[d] + Cardinality({y \in 0 .. x - 1 : y # Location(r)[d]})

HyperXPeer(r, p) ==
    LET to == CHOOSE t \in {u \in Dims \X (0 .. Below[Len(Shape) + 1]) : u[2] < Shape[u[1]]} :
                 t[2] # Location(r)[t[1]] /\ HyperXWired(r, t[1], t[2]) = p
        o  == Moved(r, to[1], to[2])
    IN  <<o, HyperXWired(o, to[1], Location(r)[to[1]])>>

(* Mutation: the gap that the router itself leaves is not counted.         *)
offsetNoGap(r, d, x) == HyperXStart[d] + x

(* The port routeDORBase and its relatives compute for router x.           *)
offset(r, d, x) == HyperXStart[d] + x - (IF x > Location(r)[d] THEN 1 ELSE 0)

Unaligned(r, to) == {d \in Dims : Location(to)[d] # Location(r)[d]}
First(D)         == CHOOSE d \in D : \A e \in D : d <= e
HyperXLocal(e)   == HyperXStart[Len(Shape) + 1] + (e % LocalPorts)

routeDORBase(r, to) == LET d == First(Unaligned(r, to)) IN offset(r, d, Location(to)[d])

routeDOR(r, p) ==
    LET to == get_dest_router(p.dst)
    IN  [p EXCEPT !.next = IF to = r THEN HyperXLocal(p.dst) ELSE routeDORBase(r, to)]

(* First to the midpoint, then on the next VC to the destination.          *)
routeValiant(r, p) ==
    LET q == routeDOR(r, p)
    IN  IF p.val THEN q
        ELSE IF p.mid # r THEN [p EXCEPT !.next = routeDORBase(r, p.mid)]
        ELSE [q EXCEPT !.val = TRUE, !.vc = IF get_dest_router(p.dst) = r THEN @ ELSE @ + 1]

(* One detour in each dimension, in dimension order: out on the second VC, *)
(* back on the first.                                                      *)
routeDOAL(r, p, start) ==
    LET to == get_dest_router(p.dst)
        d  == First(Unaligned(r, to))
        x  == Location(to)[d]
    IN  IF to = r THEN {routeDOR(r, p)}
        ELSE IF p.vc - start = 1
        THEN {[p EXCEPT !.next = offset(r, d, x), !.vc = @ - 1, !.dim = d]}
        ELSE {[p EXCEPT !.next = offset(r, d, y), !.vc = IF y = x THEN @ ELSE @ + 1] :
                y \in (0 .. Shape[d] - 1) \ {Location(r)[d]}}

(* The VC of the next hop: the first one for a packet from an endpoint.    *)
NextVC(p, start, fromHost) == IF fromHost THEN start ELSE p.vc + 1

(* Minimal and adaptive: a hop in any dimension that is not aligned.       *)
routeMINA(r, p, start, fromHost) ==
    LET to == get_dest_router(p.dst)
    IN  IF to = r THEN {routeDOR(r, p)}
        ELSE {[p EXCEPT !.next = offset(r, d, Location(to)[d]),
                        !.vc = NextVC(p, start, fromHost)] : d \in Unaligned(r, to)}

(* Mutation: detours are taken without a look at the VCs that are left.    *)
MustBeMinimalNever(r, p, start, vcs, fromHost) == FALSE

(* There is a VC for each hop that remains, but none for a detour.         *)
MustBeMinimal(r, p, start, vcs, fromHost) ==
    Cardinality(Unaligned(r, get_dest_router(p.dst))) = start + vcs - NextVC(p, start, fromHost)

(* Any hop in a dimension that is not aligned, but no two detours in the   *)
(* same dimension one after the other.                                     *)
routeVDAL(r, p, start, vcs, fromHost) ==
    LET to == get_dest_router(p.dst)
    IN  IF to = r THEN {routeDOR(r, p)}
        ELSE IF MustBeMinimal(r, p, start, vcs, fromHost) THEN routeMINA(r, p, start, fromHost)
        ELSE UNION {{[p EXCEPT !.next = offset(r, d, x), !.dim = d,
                               !.vc = NextVC(p, start, fromHost)] :
                       x \in {y \in (0 .. Shape[d] - 1) \ {Location(r)[d]} :
                                y = Location(to)[d] \/ d # p.dim}} : d \in Unaligned(r, to)}

-----------------------------------------------------------------------------
(* Torus and mesh: ports 2d and 2d+1 lead up and down dimension d. *)
TorusPort(d, up)  == 2 * (d - 1) + IF up THEN 0 ELSE 1
TorusLocal(e)     == 2 * Len(Shape) + (e % LocalPorts)
PortDim(p)        == (p \div 2) + 1
PortUp(p)         == p % 2 = 0

TorusPeer(r, p) ==
    LET d == PortDim(p)
        n == Shape[d]
        x == IF PortUp(p) THEN (Location(r)[d] + 1) % n ELSE (Location(r)[d] + n - 1) % n
    IN  <<Moved(r, d, x), TorusPort(d, ~PortUp(p))>>

(* vc ^ 1 and vc & ~1 *)
Toggled(vc) == IF vc % 2 = 0 THEN vc + 1 ELSE vc - 1
Reset(vc)   == vc - (vc % 2)

(* Mutation: the dateline is not there.                                    *)
torusVCNoDateline(r, d, p, fromHost) == IF d > p.dim THEN Reset(p.vc) ELSE p.vc

(* A packet that is not new toggles its VC at location 0; one that enters  *)
(* a new dimension starts on the even VC, except there.                    *)
torusVC(r, d, p, fromHost) ==
    IF Location(r)[d] = 0 /\ ~fromHost THEN Toggled(p.vc)
    ELSE IF d > p.dim THEN Reset(p.vc) ELSE p.vc

(* Mutation: the wrap-around links are not used.                           *)
torusUpNoWrap(x, to, n) == x < to

(* go_pos: the shorter way round, upwards if both are the same. *)
torusUp(x, to, n) == (to + n - x) % n <= (x + n - to) % n
meshUp(x, to, n)  == x < to
goUp(alg, x, to, n) == IF alg = "mesh" THEN meshUp(x, to, n) ELSE torusUp(x, to, n)

routeTorus(alg, r, p, fromHost) ==
    LET to == get_dest_router(p.dst)
        d  == First({e \in Unaligned(r, to) : e >= p.dim})
    IN  IF to = r THEN [p EXCEPT !.next = TorusLocal(p.dst)]
        ELSE [p EXCEPT !.next = TorusPort(d, goUp(alg, Location(r)[d], Location(to)[d], Shape[d])),
                       !.dim = d, !.vc = torusVC(r, d, p, fromHost)]

-----------------------------------------------------------------------------
(* The interface of a topology that the router uses (router.h).            *)
Grids      == {"torus", "mesh"}
Algorithms == Grids \cup {"DOR", "valiant", "DOAL", "MIN-A", "VDAL"}

getVCsPerVN(alg) ==
    CASE alg \in {"DOR", "mesh"}              -> 1
      [] alg \in {"torus", "valiant", "DOAL"} -> 2
      [] alg = "MIN-A"                        -> Len(Shape)
      [] alg = "VDAL"                         -> 2 * Len(Shape)

LocalPortStart(alg) == IF alg \in Grids THEN 2 * Len(Shape) ELSE HyperXStart[Len(Shape) + 1]
isHostPort(alg, p)  == p >= LocalPortStart(alg)
getEndpointID(alg, r, p) == r * LocalPorts + p - LocalPortStart(alg)
Peer(alg, r, p) == IF alg \in Grids THEN TorusPeer(r, p) ELSE HyperXPeer(r, p)

(* process_input: the first VC of a VN, and a random midpoint.             *)
StartVC(alg, vn) == IF alg = "mesh" THEN vn * 2 ELSE vn * getVCsPerVN(alg)
process_input(alg, r, dst, vn) ==
    {NewPacket(dst, vn, StartVC(alg, vn), IF alg \in Grids THEN 1 ELSE 0, mid) :
        mid \in IF alg = "valiant" THEN Routers \ {r} ELSE {r}}

(* route_packet: the packets that p, which came in by this port, may be.   *)
route_packet(alg, r, port, p) ==
    LET start    == StartVC(alg, p.vn)
        fromHost == isHostPort(alg, port)
    IN  CASE alg \in Grids   -> {routeTorus(alg, r, p, fromHost)}
          [] alg = "DOR"     -> {routeDOR(r, p)}
          [] alg = "valiant" -> {routeValiant(r, p)}
          [] alg = "DOAL"    -> routeDOAL(r, p, start)
          [] alg = "MIN-A"   -> routeMINA(r, p, start, fromHost)
          [] alg = "VDAL"    -> routeVDAL(r, p, start, getVCsPerVN(alg), fromHost)

-----------------------------------------------------------------------------
(* Links on a shortest path between two routers: along one dimension, and  *)
(* in all of them.                                                         *)
Apart(a, x, y, n) ==
    CASE a = "torus" -> LET m == (x + n - y) % n IN IF 2 * m <= n THEN m ELSE n - m
      [] a = "mesh"  -> IF x < y THEN y - x ELSE x - y
      [] OTHER       -> IF x = y THEN 0 ELSE 1
Distance(a, r, o) ==
    LET sum[d \in 1 .. Len(Shape) + 1] ==
            IF d = 1 THEN 0
            ELSE sum[d - 1] + Apart(a, Location(r)[d - 1], Location(o)[d - 1], Shape[d - 1])
    IN  sum[Len(Shape) + 1]
=============================================================================
