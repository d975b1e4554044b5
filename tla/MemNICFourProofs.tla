---------------------------- MODULE MemNICFourProofs ----------------------------
(***************************************************************************)
(* Proofs about MemNICFour, for any NICs, routes and networks, any size of *)
(* the link buffers and any number of events.                              *)
(***************************************************************************)
EXTENDS MemNICFour, FiniteSetTheorems, FunctionTheorems, SequenceTheorems, WellFoundedInduction, TLAPS

(* The order of the naturals has no infinite descending chain.             *)
LEMMA NatWellFounded == IsWellFoundedOn({p \in Nat \X Nat : p[1] < p[2]}, Nat)
BY NatLessThanWellFounded DEF OpToRel

(* A set of naturals that is not empty has a least element.                *)
LEMMA LeastNat ==
    ASSUME NEW T \in SUBSET Nat, T # {}
    PROVE  \E m \in T : \A k \in T : m <= k
<1> DEFINE R == {p \in Nat \X Nat : p[1] < p[2]}
<1>1. \E x \in T : \A y \in T : ~(<<y, x>> \in R)
  <2> HIDE DEF R
  <2>1. QED BY NatWellFounded, WFMin DEF R
<1>2. PICK x \in T : \A y \in T : <<y, x>> \notin R
  BY <1>1
<1>3. ASSUME NEW y \in T PROVE x <= y
  <2>1. <<y, x>> \in Nat \X Nat
    OBVIOUS
  <2>2. ~(y < x)
    BY <1>2, <2>1
  <2>3. QED BY <2>2
<1>4. QED BY <1>3

(***************************************************************************)
(* The inductive invariant.                                                *)
(***************************************************************************)
Elems(q)     == {q[i] : i \in 1 .. Len(q)}
Injective(q) == \A i, j \in 1 .. Len(q) : q[i] = q[j] => i = j

(* Packets of a NIC that have not left for a network.                      *)
Waiting(n, k) == Elems(sendQueue[n][k]) \cup out[n][k]

(* A link control's buffer is never overrun.                               *)
LinkOK == \A n \in Nics, k \in Nets :
    IsFiniteSet(out[n][k]) /\ Cardinality(out[n][k]) <= LinkSpace

(* A packet is in one place only.                                          *)
OnceOK == \A n \in Nics, k \in Nets :
    /\ Injective(sendQueue[n][k])
    /\ \A p \in out[n][k] : p \notin Elems(sendQueue[n][k])
    /\ \A p \in Waiting(n, k) : p \notin wire
    /\ \A m \in Nics, l \in Nets, p \in Waiting(n, k) : p \in Waiting(m, l) => n = m /\ k = l

(* Packets in flight have been sent, are not behind the tag expected and   *)
(* not in the order buffer as well.                                        *)
Sent(p) == /\ recvTags[p.route] <= p.tag /\ p.tag < sendTags[p.route]
           /\ p.tag \notin orderBuffer[p.route]
FlightOK == /\ \A p \in wire : Sent(p)
            /\ \A n \in Nics, k \in Nets : \A p \in Waiting(n, k) : Sent(p)

(* A queue to the parent of NIC n holds, for each route and in the order   *)
(* of their tags, exactly what has been put in order (up to tags) and not  *)
(* yet been handed over (to del).                                          *)
Ordered(q, n, del, tags) ==
    /\ \A i \in 1 .. Len(q) :
          /\ Dst(q[i]) = n
          /\ Len(del[q[i].route]) <= q[i].tag /\ q[i].tag < tags[q[i].route]
          /\ \A j \in 1 .. i - 1 : q[j].route = q[i].route => q[j].tag < q[i].tag
    /\ \A r \in Routes : r[2] = n =>
          \A t \in Len(del[r]) .. tags[r] - 1 : Packet(r, t) \in Elems(q)
OrderOK ==
    /\ \A r \in Routes : recvTags[r] <= sendTags[r] /\ Len(delivered[r]) <= recvTags[r]
    /\ \A n \in Nics : Ordered(recvQueue[n], n, delivered, recvTags)

IInv == /\ TypeOK /\ LinkOK /\ OnceOK /\ FlightOK /\ OrderOK
        /\ NoStuckPacket /\ NicClockRunning

(***************************************************************************)
(* Facts about queues.                                                     *)
(***************************************************************************)
(* Appending a packet.                                                     *)
LEMMA AppendFacts ==
    ASSUME NEW q \in Seq(NetPacket), NEW p \in NetPacket
    PROVE  /\ Append(q, p) \in Seq(NetPacket)
           /\ Append(q, p) # <<>>
           /\ Len(Append(q, p)) = Len(q) + 1
           /\ \A i \in 1 .. Len(q) : Append(q, p)[i] = q[i]
           /\ Append(q, p)[Len(q) + 1] = p
           /\ Elems(Append(q, p)) = Elems(q) \cup {p}
           /\ Injective(q) /\ p \notin Elems(q) => Injective(Append(q, p))
<1>1. /\ Append(q, p) \in Seq(NetPacket) /\ Append(q, p) # <<>>
      /\ Len(Append(q, p)) = Len(q) + 1
      /\ \A i \in 1 .. Len(q) : Append(q, p)[i] = q[i]
      /\ Append(q, p)[Len(q) + 1] = p
      /\ Len(q) \in Nat
  OBVIOUS
<1>2. 1 .. Len(q) + 1 = (1 .. Len(q)) \cup {Len(q) + 1}
  BY <1>1
<1>3. Elems(Append(q, p)) = Elems(q) \cup {p}
  BY <1>1, <1>2, Zenon DEF Elems
<1>4. ASSUME Injective(q), p \notin Elems(q) PROVE Injective(Append(q, p))
  <2>1. \A i \in 1 .. Len(q) : q[i] # p
    BY <1>4 DEF Elems
  <2>2. QED BY <1>1, <1>2, <1>4, <2>1 DEF Injective
<1>5. QED BY <1>1, <1>3, <1>4

(* Taking the first packet.                                                *)
LEMMA TailFacts ==
    ASSUME NEW q \in Seq(NetPacket), q # <<>>
    PROVE  /\ Tail(q) \in Seq(NetPacket) /\ Head(q) \in NetPacket
           /\ Head(q) = q[1] /\ Len(q) \in Nat \ {0}
           /\ Len(Tail(q)) = Len(q) - 1
           /\ \A i \in 1 .. Len(q) - 1 : Tail(q)[i] = q[i + 1]
           /\ Elems(q) \subseteq Elems(Tail(q)) \cup {Head(q)}
<1>1. /\ Tail(q) \in Seq(NetPacket) /\ Head(q) \in NetPacket
      /\ Head(q) = q[1] /\ Len(q) \in Nat \ {0}
      /\ Len(Tail(q)) = Len(q) - 1
      /\ \A i \in 1 .. Len(q) - 1 : Tail(q)[i] = q[i + 1]
  OBVIOUS
<1>2. ASSUME NEW i \in 1 .. Len(q), i # 1 PROVE q[i] \in Elems(Tail(q))
  <2>1. i - 1 \in 1 .. Len(q) - 1 /\ (i - 1) + 1 = i
    BY <1>1, <1>2
  <2>2. Tail(q)[i - 1] = q[i]
    BY <1>1, <2>1
  <2>3. QED BY <1>1, <2>1, <2>2 DEF Elems
<1>3. QED BY <1>1, <1>2 DEF Elems

(* drainQueue moves the first packets into the link's buffer, as many as   *)
(* fit, and keeps the others in order.                                     *)
LEMMA DrainFacts ==
    ASSUME NEW q \in Seq(NetPacket), NEW o \in SUBSET NetPacket,
           IsFiniteSet(o), Cardinality(o) <= LinkSpace, Injective(q),
           \A p \in o : p \notin Elems(q)
    PROVE  /\ drainQueue(q, o) \in Seq(NetPacket)
           /\ Len(drainQueue(q, o)) <= Len(q)
           /\ Injective(drainQueue(q, o))
           /\ drainedInto(q, o) \in SUBSET NetPacket
           /\ IsFiniteSet(drainedInto(q, o))
           /\ Cardinality(drainedInto(q, o)) <= LinkSpace
           /\ \A p \in drainedInto(q, o) : p \notin Elems(drainQueue(q, o))
           /\ Elems(drainQueue(q, o)) \cup drainedInto(q, o) = Elems(q) \cup o
<1> DEFINE a == Accepted(q, o)
           d == drainQueue(q, o)
           f == {q[i] : i \in 1 .. a}
<1>1. Len(q) \in Nat /\ \A i \in 1 .. Len(q) : q[i] \in NetPacket
  OBVIOUS
<1>2. Cardinality(o) \in Nat /\ LinkSpace \in Nat
  BY FS_CardinalityType, BoundAssumption
<1>3. a \in Nat /\ a <= Len(q) /\ a <= LinkSpace - Cardinality(o)
  BY <1>1, <1>2 DEF Accepted
<1> HIDE DEF a
<1>4. /\ d \in Seq(NetPacket) /\ Len(d) = Len(q) - a
      /\ \A i \in 1 .. Len(q) - a : d[i] = q[i + a]
  BY <1>1, <1>3 DEF drainQueue, a
<1>5. drainedInto(q, o) = o \cup f
  BY DEF drainedInto, a
<1>6. IsFiniteSet(f) /\ Cardinality(f) <= a
  <2> DEFINE g == [i \in 1 .. a |-> q[i]]
  <2>1. g \in Surjection(1 .. a, f)
    BY Fun_IsSurj
  <2>2. ExistsSurjection(1 .. a, f)
    BY <2>1 DEF ExistsSurjection
  <2>3. QED BY <1>3, <2>2, FS_NatSurjection, FS_SurjCardinalityBound
<1>7. IsFiniteSet(o \cup f) /\ Cardinality(o \cup f) <= LinkSpace
  <2>1. IsFiniteSet(o \cap f) /\ Cardinality(o \cap f) \in Nat /\ Cardinality(f) \in Nat
    BY <1>6, FS_Intersection, FS_CardinalityType
  <2>2. IsFiniteSet(o \cup f) /\ Cardinality(o \cup f)
                                    = Cardinality(o) + Cardinality(f) - Cardinality(o \cap f)
    BY <1>6, FS_Union
  <2>3. QED BY <1>2, <1>3, <1>6, <2>1, <2>2
<1>8. Injective(d)
  BY <1>1, <1>3, <1>4 DEF Injective
<1>9. Elems(d) \cup f = Elems(q)
  <2>1. ASSUME NEW i \in 1 .. Len(q), i > a PROVE q[i] \in Elems(d)
    <3>1. i - a \in 1 .. Len(q) - a /\ (i - a) + a = i
      BY <1>1, <1>3, <2>1
    <3>2. d[i - a] = q[i]
      BY <1>4, <3>1
    <3>3. QED BY <1>4, <3>1, <3>2 DEF Elems
  <2>2. \A i \in 1 .. Len(q) : i <= a => q[i] \in f
    BY <1>1, <1>3
  <2>3. Elems(q) \subseteq Elems(d) \cup f
    BY <1>1, <1>3, <2>1, <2>2 DEF Elems
  <2>4. \A i \in 1 .. a : i \in 1 .. Len(q)
    BY <1>1, <1>3
  <2>5. \A i \in 1 .. Len(q) - a : i + a \in 1 .. Len(q)
    BY <1>1, <1>3
  <2>6. Elems(d) \subseteq Elems(q)
    BY <1>4, <2>5 DEF Elems
  <2>7. QED BY <2>3, <2>4, <2>6 DEF Elems
<1>10. \A p \in f : p \notin Elems(d)
  <2> SUFFICES ASSUME NEW i \in 1 .. a, NEW j \in 1 .. Len(q) - a, q[i] = q[j + a]
               PROVE  FALSE
    BY <1>4 DEF Elems
  <2>1. i \in 1 .. Len(q) /\ j + a \in 1 .. Len(q) /\ i # j + a
    BY <1>1, <1>3
  <2>2. QED BY <2>1 DEF Injective
<1>11. f \subseteq NetPacket
  BY <1>1, <1>3
<1>12. QED BY <1>1, <1>3, <1>4, <1>5, <1>7, <1>8, <1>9, <1>10, <1>11

(* The tag up to which the order buffer can be emptied exists.             *)
LEMMA NextMissingFacts ==
    ASSUME NEW T \in SUBSET Nat, IsFiniteSet(T), NEW t \in Nat
    PROVE  LET m == NextMissing(T, t)
           IN  m \in Nat /\ t <= m /\ m \notin T /\ t .. m - 1 \subseteq T
<1> DEFINE c == Cardinality(T)
           D == {d \in t .. t + c : d \notin T}
<1>1. c \in Nat
  BY FS_CardinalityType
<1>2. D # {}
  <2> SUFFICES ASSUME t .. t + c \subseteq T PROVE FALSE
    OBVIOUS
  <2>1. Cardinality(t .. t + c) = c + 1
    BY <1>1, FS_Interval
  <2>2. Cardinality(t .. t + c) <= c
    BY FS_Subset
  <2>3. QED BY <1>1, <2>1, <2>2
<1>3. PICK m \in D : \A d \in D : m <= d
  <2>1. D \in SUBSET Nat
    BY <1>1
  <2>2. QED BY <1>2, <2>1, LeastNat
<1>4. m \in t .. t + c /\ m \notin T
  BY <1>3
<1>5. t .. m - 1 \subseteq T
  BY <1>1, <1>3, <1>4
<1>6. QED BY <1>1, <1>4, <1>5 DEF NextMissing

(* The first event of an ordered queue is the next one of its route, and   *)
(* handing it over keeps the queue ordered.                                *)
LEMMA PopFacts ==
    ASSUME NEW q \in Seq(NetPacket), q # <<>>, NEW n \in Nics,
           NEW del \in [Routes -> Seq(Nat)], NEW tags \in [Routes -> Nat],
           Ordered(q, n, del, tags)
    PROVE  LET h == Head(q)
               d == [del EXCEPT ![h.route] = Append(@, h.tag)]
           IN  /\ h \in NetPacket /\ Dst(h) = n
               /\ h.tag = Len(del[h.route]) /\ h.tag < tags[h.route]
               /\ Len(d[h.route]) = h.tag + 1
               /\ Ordered(Tail(q), n, d, tags)
<1> DEFINE h == Head(q)
           d == [del EXCEPT ![h.route] = Append(@, h.tag)]
           s == Tail(q)
<1>1. /\ s \in Seq(NetPacket) /\ h \in NetPacket /\ h = q[1]
      /\ Len(q) \in Nat \ {0} /\ Len(s) = Len(q) - 1
      /\ \A i \in 1 .. Len(q) - 1 : s[i] = q[i + 1]
      /\ \A x \in Elems(q) : x \in Elems(s) \/ x = h
  BY TailFacts
<1>2. h.route \in Routes /\ h.tag \in Nat
  BY <1>1 DEF NetPacket
<1>3. Len(del[h.route]) \in Nat
  BY <1>2
<1>4. Dst(h) = n /\ Len(del[h.route]) <= h.tag /\ h.tag < tags[h.route]
  BY <1>1 DEF Ordered
<1>5. h.tag = Len(del[h.route])
  <2>1. tags[h.route] \in Nat
    BY <1>2
  <2>2. Len(del[h.route]) \in Len(del[h.route]) .. tags[h.route] - 1
    BY <1>2, <1>3, <1>4, <2>1
  <2>3. Packet(h.route, Len(del[h.route])) \in Elems(q)
    BY <1>2, <1>4, <2>2 DEF Ordered, Dst
  <2>4. PICK i \in 1 .. Len(q) : q[i] = Packet(h.route, Len(del[h.route]))
    BY <2>3 DEF Elems
  <2>5. q[i].route = h.route /\ q[i].tag = Len(del[h.route])
    BY <2>4 DEF Packet
  <2>6. CASE i = 1
    BY <1>1, <2>5, <2>6
  <2>7. CASE i # 1
    <3>1. 1 \in 1 .. i - 1
      BY <2>7
    <3>2. h.tag < q[i].tag
      BY <1>1, <2>5, <3>1 DEF Ordered
    <3>3. QED BY <1>2, <1>3, <1>4, <2>5, <3>2
  <2>8. QED BY <2>6, <2>7
<1>6. /\ Len(d[h.route]) = h.tag + 1
      /\ \A r \in Routes : r # h.route => d[r] = del[r]
  BY <1>2, <1>5
<1> HIDE DEF h, d, s
<1>7. ASSUME NEW i \in 1 .. Len(s)
      PROVE  /\ Dst(s[i]) = n
             /\ Len(d[s[i].route]) <= s[i].tag /\ s[i].tag < tags[s[i].route]
             /\ \A j \in 1 .. i - 1 : s[j].route = s[i].route => s[j].tag < s[i].tag
  <2>1. i + 1 \in 1 .. Len(q) /\ s[i] = q[i + 1] /\ s[i] \in NetPacket
    BY <1>1
  <2>2. /\ Dst(s[i]) = n /\ s[i].tag < tags[s[i].route]
        /\ Len(del[s[i].route]) <= s[i].tag
        /\ \A j \in 1 .. (i + 1) - 1 : q[j].route = s[i].route => q[j].tag < s[i].tag
    BY <2>1 DEF Ordered
  <2>3. s[i].route = h.route => h.tag < s[i].tag
    <3>1. 1 \in 1 .. (i + 1) - 1
      BY <1>1
    <3>2. QED BY <1>1, <2>2, <3>1
  <2>4. Len(d[s[i].route]) <= s[i].tag
    <3>1. s[i].route \in Routes /\ s[i].tag \in Nat
      BY <2>1 DEF NetPacket
    <3>2. CASE s[i].route = h.route
      BY <1>2, <1>6, <2>3, <3>1, <3>2
    <3>3. CASE s[i].route # h.route
      BY <1>6, <2>2, <3>1, <3>3
    <3>4. QED BY <3>2, <3>3
  <2>5. ASSUME NEW j \in 1 .. i - 1, s[j].route = s[i].route PROVE s[j].tag < s[i].tag
    <3>1. j \in 1 .. Len(q) - 1 /\ j + 1 \in 1 .. (i + 1) - 1
      BY <1>1
    <3>2. s[j] = q[j + 1]
      BY <1>1, <3>1
    <3>3. QED BY <2>2, <2>5, <3>1, <3>2
  <2>6. QED BY <2>2, <2>4, <2>5
<1>8. ASSUME NEW r \in Routes, r[2] = n, NEW t \in Len(d[r]) .. tags[r] - 1
      PROVE  Packet(r, t) \in Elems(s)
  <2>1. t \in Len(del[r]) .. tags[r] - 1 /\ (r = h.route => t # h.tag)
    BY <1>2, <1>5, <1>6
  <2>2. Packet(r, t) \in Elems(q) /\ Packet(r, t) # h
    BY <1>8, <2>1 DEF Ordered, Packet
  <2>3. QED BY <1>1, <2>2
<1>9. Ordered(s, n, d, tags)
  BY <1>7, <1>8 DEF Ordered
<1>10. QED BY <1>1, <1>4, <1>5, <1>6, <1>9 DEF h, d, s

(* Taking the first packet of a concatenation.                             *)
LEMMA TailConcat ==
    ASSUME NEW a \in Seq(NetPacket), a # <<>>, NEW b \in Seq(NetPacket)
    PROVE  Tail(a \o b) = Tail(a) \o b
OBVIOUS

(* The packet expected on route r, and the run up to u that waited for it, *)
(* extend an ordered queue.                                                *)
Extendable(q, n, del, tags, r, u) ==
    /\ q \in Seq(NetPacket) /\ n \in Nics
    /\ del \in [Routes -> Seq(Nat)] /\ tags \in [Routes -> Nat]
    /\ Ordered(q, n, del, tags)
    /\ r \in Routes /\ r[2] = n /\ Len(del[r]) <= tags[r]
    /\ u \in Nat /\ tags[r] < u
Extended(q, n, del, tags, r, u) ==
    LET a == Append(q, Packet(r, tags[r]))
        b == Run(r, tags[r] + 1, u)
    IN  /\ a \o b \in Seq(NetPacket) /\ a \o b # <<>>
        /\ Head(a \o b) = Head(a) /\ Tail(a \o b) = Tail(a) \o b
        /\ Ordered(a \o b, n, del, [tags EXCEPT ![r] = u])

(* The extended queue is ordered.                                          *)
LEMMA ExtendFacts ==
    ASSUME NEW q, NEW n, NEW del, NEW tags, NEW r, NEW u,
           Extendable(q, n, del, tags, r, u)
    PROVE  Extended(q, n, del, tags, r, u)
<1> USE DEF Extendable
<1>b. PICK a : a = Append(q, Packet(r, tags[r]))
  OBVIOUS
<1>c. PICK b : b = Run(r, tags[r] + 1, u)
  OBVIOUS
<1>d. PICK tg : tg = [tags EXCEPT ![r] = u]
  OBVIOUS
<1> DEFINE t0 == tags[r]
           p  == Packet(r, t0)
           e  == a \o b
           L  == Len(q)
<1>1. t0 \in Nat /\ L \in Nat /\ Len(del[r]) \in Nat /\ t0 < u
  OBVIOUS
<1>2. \A t \in Nat : /\ Packet(r, t) \in NetPacket
                     /\ Packet(r, t).route = r /\ Packet(r, t).tag = t
  BY DEF Packet, NetPacket
<1>a. a = Append(q, p)
  BY <1>b
<1> HIDE DEF t0
<1>3. /\ b \in Seq(NetPacket) /\ Len(b) = u - t0 - 1
      /\ \A i \in 1 .. u - t0 - 1 : b[i] = Packet(r, t0 + i)
  <2>1. u - (t0 + 1) \in Nat /\ u - (t0 + 1) = u - t0 - 1
    BY <1>1
  <2>2. \A i \in 1 .. u - (t0 + 1) : (t0 + 1) + i - 1 = t0 + i /\ t0 + i \in Nat
    BY <1>1
  <2>3. b = [i \in 1 .. u - (t0 + 1) |-> Packet(r, (t0 + 1) + i - 1)]
    BY <1>c DEF Run, t0
  <2>4. \A i \in 1 .. u - (t0 + 1) : b[i] = Packet(r, t0 + i) /\ b[i] \in NetPacket
    BY <1>2, <2>2, <2>3
  <2>5. b \in [1 .. u - (t0 + 1) -> NetPacket]
    BY <2>3, <2>4
  <2>6. b \in Seq(NetPacket) /\ Len(b) = u - (t0 + 1)
    <3>1. b \in Seq(NetPacket)
      <4>1. \E k \in Nat : b \in [1 .. k -> NetPacket]
        BY <2>1, <2>5
      <4>2. b \in UNION {[1 .. k -> NetPacket] : k \in Nat}
        BY <4>1, Zenon
      <4>3. QED BY <4>2, SeqDef, Zenon
    <3>2. 1 .. Len(b) = 1 .. u - (t0 + 1) /\ Len(b) \in Nat
      BY <2>5, <3>1, LenProperties
    <3>3. QED BY <2>1, <3>1, <3>2
  <2>7. QED BY <2>1, <2>4, <2>6
<1>4. /\ a \in Seq(NetPacket) /\ a # <<>> /\ Len(a) = L + 1
      /\ \A i \in 1 .. L : a[i] = q[i]
      /\ a[L + 1] = p
  BY <1>1, <1>2, <1>a, AppendFacts
<1> HIDE DEF p
<1>5. /\ e \in Seq(NetPacket) /\ e # <<>> /\ Len(e) = L + (u - t0)
      /\ \A i \in 1 .. L + 1 : e[i] = a[i]
      /\ \A i \in 1 .. u - t0 - 1 : e[i + (L + 1)] = b[i]
  <2>1. /\ e \in Seq(NetPacket) /\ Len(e) = Len(a) + Len(b)
        /\ \A i \in 1 .. Len(a) + Len(b) : e[i] = IF i <= Len(a) THEN a[i] ELSE b[i - Len(a)]
    BY <1>3, <1>4, ConcatProperties
  <2> HIDE DEF e, L
  <2>2. Len(e) = L + (u - t0) /\ Len(e) # 0
    BY <1>1, <1>3, <1>4, <2>1
  <2>3. \A i \in 1 .. L + 1 : e[i] = a[i]
    BY <1>1, <1>3, <1>4, <2>1, <2>2
  <2>4. ASSUME NEW i \in 1 .. u - t0 - 1 PROVE e[i + (L + 1)] = b[i]
    <3>1. PICK x \in Nat : x = i + (L + 1)
      BY <1>1
    <3>2. x \in 1 .. Len(a) + Len(b) /\ ~(x <= Len(a)) /\ x - Len(a) = i
      BY <1>1, <1>3, <1>4, <3>1
    <3>3. e[x] = b[x - Len(a)]
      BY <2>1, <3>2
    <3>4. QED BY <3>1, <3>2, <3>3
  <2>5. QED BY <2>1, <2>2, <2>3, <2>4
<1>6. Head(e) = Head(a)
  BY <1>1, <1>4, <1>5
<1>7. Tail(e) = Tail(a) \o b
  BY <1>3, <1>4, TailConcat
<1> HIDE DEF e, L
<1>8. \A i \in 1 .. L : e[i] = q[i]
  BY <1>1, <1>4, <1>5
<1>9. \A i \in 1 .. u - t0 : e[i + L] = Packet(r, t0 + i - 1)
  <2> SUFFICES ASSUME NEW i \in 1 .. u - t0 PROVE e[i + L] = Packet(r, t0 + i - 1)
    OBVIOUS
  <2>1. CASE i = 1
    <3>1. i + L = L + 1 /\ t0 + i - 1 = t0 /\ L + 1 \in 1 .. L + 1
      BY <1>1, <2>1
    <3>2. QED BY <1>4, <1>5, <3>1 DEF p
  <2>2. CASE i # 1
    <3>1. i - 1 \in 1 .. u - t0 - 1 /\ (i - 1) + (L + 1) = i + L /\ t0 + (i - 1) = t0 + i - 1
      BY <1>1, <2>2
    <3>2. QED BY <1>3, <1>5, <3>1
  <2>3. QED BY <2>1, <2>2
<1>10. tg[r] = u /\ tg \in [Routes -> Nat] /\ \A x \in Routes : x # r => tg[x] = tags[x]
  BY <1>d
<1>11. \A x \in Routes : tags[x] \in Nat /\ tags[x] <= tg[x]
  <2> SUFFICES ASSUME NEW x \in Routes PROVE tags[x] \in Nat /\ tags[x] <= tg[x]
    OBVIOUS
  <2>1. tags[x] \in Nat /\ tags[r] <= u
    OBVIOUS
  <2>2. tg[x] = tags[x] \/ (x = r /\ tg[x] = u)
    BY <1>10
  <2>3. QED BY <2>1, <2>2
<1>12. ASSUME NEW i \in 1 .. Len(e)
       PROVE  /\ Dst(e[i]) = n
              /\ Len(del[e[i].route]) <= e[i].tag /\ e[i].tag < tg[e[i].route]
              /\ \A j \in 1 .. i - 1 : e[j].route = e[i].route => e[j].tag < e[i].tag
  <2>1. CASE i <= L
    <3>1. i \in 1 .. L /\ e[i] = q[i] /\ \A j \in 1 .. i - 1 : e[j] = q[j]
      BY <1>1, <1>8, <2>1
    <3>2. q[i] \in NetPacket
      BY <3>1 DEF L
    <3>3. q[i].route \in Routes /\ q[i].tag \in Nat
      BY <3>2 DEF NetPacket
    <3>4. /\ Dst(q[i]) = n /\ Len(del[q[i].route]) <= q[i].tag /\ q[i].tag < tags[q[i].route]
          /\ \A j \in 1 .. i - 1 : q[j].route = q[i].route => q[j].tag < q[i].tag
      BY <3>1 DEF Ordered, L
    <3>5. q[i].tag < tg[q[i].route]
      BY <1>10, <1>11, <3>3, <3>4
    <3>6. QED BY <3>1, <3>4, <3>5
  <2>2. CASE i > L
    <3> DEFINE x == i - L
    <3>1. x \in 1 .. u - t0 /\ x + L = i /\ t0 + x - 1 \in Nat
      BY <1>1, <1>5, <2>2
    <3>2. e[i] = Packet(r, t0 + x - 1)
      BY <1>9, <3>1
    <3>3. e[i].route = r /\ e[i].tag = t0 + x - 1
      BY <1>2, <3>1, <3>2
    <3>4. Dst(e[i]) = n
      BY <3>3 DEF Dst
    <3>5. Len(del[r]) <= t0
      BY DEF t0
    <3>6. t0 + x - 1 < u /\ Len(del[r]) <= t0 + x - 1
      BY <1>1, <3>1, <3>5
    <3>7. ASSUME NEW j \in 1 .. i - 1, e[j].route = r PROVE e[j].tag < e[i].tag
      <4>1. CASE j <= L
        <5>1. j \in 1 .. L /\ e[j] = q[j]
          BY <1>1, <1>8, <4>1
        <5>2. q[j] \in NetPacket /\ q[j].tag < tags[q[j].route]
          BY <5>1 DEF Ordered, L
        <5>3. q[j].tag \in Nat /\ q[j].tag < t0
          BY <3>7, <5>1, <5>2 DEF NetPacket, t0
        <5>4. QED BY <1>1, <3>1, <3>3, <5>1, <5>3
      <4>2. CASE j > L
        <5>1. j - L \in 1 .. u - t0 /\ (j - L) + L = j /\ t0 + (j - L) - 1 \in Nat
          BY <1>1, <3>1, <4>2
        <5>2. e[j].tag = t0 + (j - L) - 1
          BY <1>2, <1>9, <5>1
        <5>3. QED BY <1>1, <3>1, <3>3, <5>1, <5>2
      <4>3. QED BY <1>1, <4>1, <4>2
    <3>8. QED BY <1>10, <3>3, <3>4, <3>6, <3>7
  <2>3. QED BY <1>1, <2>1, <2>2
<1>13. ASSUME NEW x \in Routes, x[2] = n, NEW t \in Len(del[x]) .. tg[x] - 1
       PROVE  Packet(x, t) \in Elems(e)
  <2>0. Len(del[x]) \in Nat
    OBVIOUS
  <2>1. CASE t < tags[x]
    <3>1. t \in Len(del[x]) .. tags[x] - 1
      BY <1>11, <2>0, <2>1
    <3>2. PICK i \in 1 .. L : q[i] = Packet(x, t)
      BY <1>13, <3>1 DEF Ordered, Elems, L
    <3>3. i \in 1 .. Len(e) /\ e[i] = q[i]
      BY <1>1, <1>5, <1>8 DEF t0
    <3>4. QED BY <3>2, <3>3 DEF Elems
  <2>2. CASE t >= tags[x]
    <3>1. x = r /\ t < u /\ t >= t0
      BY <1>10, <1>11, <2>0, <2>2 DEF t0
    <3>2. t - t0 + 1 \in 1 .. u - t0 /\ t0 + (t - t0 + 1) - 1 = t
      BY <1>1, <2>0, <3>1
    <3>3. e[(t - t0 + 1) + L] = Packet(x, t)
      BY <1>9, <3>1, <3>2
    <3>4. (t - t0 + 1) + L \in 1 .. Len(e)
      BY <1>1, <1>5, <3>2
    <3>5. QED BY <3>3, <3>4 DEF Elems
  <2>3. QED BY <1>11, <2>0, <2>1, <2>2
<1>14. Ordered(e, n, del, tg)
  BY <1>12, <1>13 DEF Ordered
<1>15. QED BY <1>5, <1>6, <1>7, <1>14, <1>b, <1>c, <1>d DEF e, Extended

(***************************************************************************)
(* Every action preserves the invariant.                                   *)
(***************************************************************************)
(* The initial state satisfies the invariant.                              *)
LEMMA InitInv == Init => IInv
<1> SUFFICES ASSUME Init PROVE IInv
  OBVIOUS
<1>1. TypeOK
  BY DEF Init, TypeOK
<1>2. LinkOK
  BY FS_EmptySet, BoundAssumption DEF Init, LinkOK
<1>3. \A n \in Nics, k \in Nets : sendQueue[n][k] = <<>> /\ Elems(<<>>) = {} /\ Waiting(n, k) = {}
  BY DEF Init, Waiting, Elems
<1>4. OnceOK /\ FlightOK
  BY <1>3 DEF Init, OnceOK, FlightOK, Injective
<1>5. OrderOK
  BY DEF Init, OrderOK, Ordered
<1>6. NoStuckPacket /\ NicClockRunning
  BY DEF Init, NoStuckPacket, NicClockRunning
<1>7. QED BY <1>1, <1>2, <1>4, <1>5, <1>6 DEF IInv

(* The packets X join NIC nn's for network kk, the others only move from a *)
(* queue to a link buffer.                                                 *)
Refilled(nn, kk, X) ==
    /\ wire' = wire
    /\ \A x \in X : x \notin wire /\ \A n \in Nics, k \in Nets : x \notin Waiting(n, k)
    /\ \A n \in Nics, k \in Nets :
          /\ Injective(sendQueue'[n][k])
          /\ IsFiniteSet(out'[n][k]) /\ Cardinality(out'[n][k]) <= LinkSpace
          /\ \A p \in out'[n][k] : p \notin Elems(sendQueue'[n][k])
          /\ Waiting(n, k)' = IF n = nn /\ k = kk THEN Waiting(n, k) \cup X ELSE Waiting(n, k)

(* Then a packet still is in one place only, and no buffer is overrun.     *)
LEMMA WaitingStep ==
    ASSUME IInv, NEW nn, NEW kk, NEW X, Refilled(nn, kk, X)
    PROVE  LinkOK' /\ OnceOK'
<1> USE DEF Refilled
<1>1. LinkOK'
  BY DEF LinkOK
<1>2. ASSUME NEW n \in Nics, NEW k \in Nets
      PROVE  /\ Injective(sendQueue[n][k])'
             /\ (\A p \in out[n][k] : p \notin Elems(sendQueue[n][k]))'
             /\ (\A p \in Waiting(n, k) : p \notin wire)'
             /\ (\A m \in Nics, l \in Nets, p \in Waiting(n, k) :
                    p \in Waiting(m, l) => n = m /\ k = l)'
  <2>1. Injective(sendQueue[n][k])' /\ (\A p \in out[n][k] : p \notin Elems(sendQueue[n][k]))'
    BY DEF Injective, Elems
  <2>2. ASSUME NEW p \in Waiting(n, k)' PROVE p \notin wire
    BY DEF IInv, OnceOK
  <2>3. ASSUME NEW m \in Nics, NEW l \in Nets, NEW p \in Waiting(n, k)', p \in Waiting(m, l)'
        PROVE  n = m /\ k = l
    BY <2>3 DEF IInv, OnceOK
  <2>4. QED BY <2>1, <2>2, <2>3
<1>3. QED BY <1>1, <1>2 DEF OnceOK

(* send: a new packet, queued or passed on to its link at once.            *)
LEMMA SendInv ==
    ASSUME IInv, NEW r \in Routes, NEW k \in Nets, send(r, k)
    PROVE  IInv'
<1> USE DEF IInv
<1>0. PICK p : p = Packet(r, sendTags[r])
  OBVIOUS
<1> DEFINE n == r[1]
           q == Append(sendQueue[n][k], p)
<1>1. n \in Nics /\ sendTags[r] \in Nat /\ p \in NetPacket /\ p.route = r /\ p.tag = sendTags[r]
  BY <1>0, RouteAssumption DEF TypeOK, Packet, NetPacket
<1>2. sendTags' = [sendTags EXCEPT ![r] = @ + 1] /\ SendOn(n, k, p)
      /\ UNCHANGED <<wire, recvTags, orderBuffer, recvQueue, delivered>>
  BY <1>0 DEF send
<1>3. /\ sendQueue[n][k] \in Seq(NetPacket) /\ out[n][k] \in SUBSET NetPacket
      /\ Injective(sendQueue[n][k])
      /\ \A x \in out[n][k] : x \notin Elems(sendQueue[n][k])
      /\ IsFiniteSet(out[n][k]) /\ Cardinality(out[n][k]) <= LinkSpace
  BY <1>1 DEF TypeOK, OnceOK, LinkOK
<1>4. p \notin wire /\ \A m \in Nics, l \in Nets : p \notin Waiting(m, l)
  BY <1>1 DEF FlightOK, Sent
<1>5. p \notin Elems(sendQueue[n][k]) /\ p \notin out[n][k]
  BY <1>1, <1>4 DEF Waiting
<1>6. /\ q \in Seq(NetPacket) /\ Injective(q) /\ Elems(q) = Elems(sendQueue[n][k]) \cup {p}
      /\ Len(q) = Len(sendQueue[n][k]) + 1 /\ q # <<>>
      /\ \A x \in out[n][k] : x \notin Elems(q)
  BY <1>1, <1>3, <1>5, AppendFacts
<1> HIDE DEF q
<1> DEFINE rest == IF Len(q) = 1 THEN drainQueue(q, out[n][k]) ELSE q
           into == IF Len(q) = 1 THEN drainedInto(q, out[n][k]) ELSE out[n][k]
<1>7. /\ rest \in Seq(NetPacket) /\ Injective(rest) /\ into \in SUBSET NetPacket
      /\ IsFiniteSet(into) /\ Cardinality(into) <= LinkSpace
      /\ \A x \in into : x \notin Elems(rest)
      /\ Elems(rest) \cup into = Waiting(n, k) \cup {p}
      /\ Len(rest) <= Len(q)
  <2>1. CASE Len(q) = 1
    <3>1. rest = drainQueue(q, out[n][k]) /\ into = drainedInto(q, out[n][k])
      BY <2>1
    <3>2. QED BY <1>3, <1>6, <3>1, DrainFacts DEF Waiting
  <2>2. CASE Len(q) # 1
    <3>1. rest = q /\ into = out[n][k]
      BY <2>2
    <3>2. QED BY <1>3, <1>6, <3>1 DEF Waiting
  <2>3. QED BY <2>1, <2>2
<1>8. /\ sendQueue' = [sendQueue EXCEPT ![n][k] = rest]
      /\ out' = [out EXCEPT ![n][k] = into]
      /\ clockOn' = [clockOn EXCEPT ![n] = @ \/ Len(rest) = 1]
  BY <1>1, <1>2 DEF SendOn, q, TypeOK
<1>9. Len(q) # 1 => rest = q
  OBVIOUS
<1> HIDE DEF rest, into
<1>10. /\ sendQueue'[n][k] = rest /\ out'[n][k] = into
       /\ \A m \in Nics, l \in Nets : ~(m = n /\ l = k) =>
             sendQueue'[m][l] = sendQueue[m][l] /\ out'[m][l] = out[m][l]
  BY <1>1, <1>8 DEF TypeOK
<1>11. TypeOK'
  <2>1. sendQueue' \in [Nics -> [Nets -> Seq(NetPacket)]] /\ out' \in [Nics -> [Nets -> SUBSET NetPacket]]
    BY <1>1, <1>7, <1>8 DEF TypeOK
  <2>2. sendTags' \in [Routes -> Nat] /\ clockOn' \in [Nics -> BOOLEAN]
    BY <1>1, <1>2, <1>8 DEF TypeOK
  <2>3. QED BY <1>2, <2>1, <2>2 DEF TypeOK
<1>12. \A m \in Nics, l \in Nets :
          Waiting(m, l)' = IF m = n /\ l = k THEN Waiting(m, l) \cup {p} ELSE Waiting(m, l)
  BY <1>7, <1>10 DEF Waiting, Elems
<1>13. LinkOK' /\ OnceOK'
  <2>1. \A m \in Nics, l \in Nets :
           /\ Injective(sendQueue'[m][l])
           /\ IsFiniteSet(out'[m][l]) /\ Cardinality(out'[m][l]) <= LinkSpace
           /\ \A x \in out'[m][l] : x \notin Elems(sendQueue'[m][l])
    BY <1>7, <1>10 DEF OnceOK, LinkOK
  <2>2. Refilled(n, k, {p})
    BY <1>2, <1>4, <1>12, <2>1 DEF Refilled
  <2>3. QED BY <2>2, WaitingStep
<1>14. sendTags'[r] = sendTags[r] + 1 /\ \A x \in Routes : x # r => sendTags'[x] = sendTags[x]
  BY <1>2 DEF TypeOK
<1>15. \A x \in NetPacket : Sent(x) => Sent(x)'
  <2> SUFFICES ASSUME NEW x \in NetPacket, Sent(x) PROVE Sent(x)'
    OBVIOUS
  <2>1. x.route \in Routes /\ x.tag \in Nat /\ sendTags[x.route] \in Nat /\ recvTags[x.route] \in Nat
    BY DEF NetPacket, TypeOK
  <2>2. sendTags[x.route] <= sendTags'[x.route]
    BY <1>14, <2>1
  <2>3. x.tag < sendTags'[x.route]
    BY <1>11, <2>1, <2>2 DEF Sent, TypeOK
  <2>4. QED BY <1>2, <2>3 DEF Sent
<1>16. Sent(p)'
  <2>1. recvTags[r] <= sendTags[r] /\ sendTags[r] \notin orderBuffer[r]
    BY DEF OrderOK, NoStuckPacket, TypeOK
  <2>2. recvTags'[r] <= sendTags[r] /\ sendTags[r] < sendTags'[r] /\ sendTags[r] \notin orderBuffer'[r]
    BY <1>1, <1>2, <1>14, <2>1
  <2>3. QED BY <1>1, <2>2 DEF Sent
<1>17. FlightOK'
  <2>1. \A x \in wire : x \in NetPacket /\ Sent(x)'
    BY <1>15 DEF FlightOK, TypeOK
  <2>2. \A m \in Nics, l \in Nets : \A x \in Waiting(m, l) : x \in NetPacket
    BY DEF TypeOK, Waiting, Elems
  <2>3. \A m \in Nics, l \in Nets : \A x \in Waiting(m, l)' : Sent(x)'
    <3> SUFFICES ASSUME NEW m \in Nics, NEW l \in Nets, NEW x \in Waiting(m, l)'
                 PROVE  Sent(x)'
      OBVIOUS
    <3>1. x \in Waiting(m, l) \/ x = p
      BY <1>12
    <3>2. ASSUME x \in Waiting(m, l) PROVE Sent(x)'
      BY <1>15, <2>2, <3>2 DEF FlightOK
    <3>3. QED BY <1>16, <3>1, <3>2
  <2>4. QED BY <1>2, <2>1, <2>3 DEF FlightOK
<1>18. OrderOK'
  <2>1. \A x \in Routes : recvTags[x] <= sendTags'[x]
    <3> SUFFICES ASSUME NEW x \in Routes PROVE recvTags[x] <= sendTags'[x]
      OBVIOUS
    <3>1. recvTags[x] \in Nat /\ sendTags[x] \in Nat /\ recvTags[x] <= sendTags[x]
      BY DEF OrderOK, TypeOK
    <3>2. sendTags'[x] = sendTags[x] \/ sendTags'[x] = sendTags[x] + 1
      BY <1>14
    <3>3. QED BY <3>1, <3>2
  <2>2. \A x \in Routes : (recvTags[x] <= sendTags[x] /\ Len(delivered[x]) <= recvTags[x])'
    BY <1>2, <2>1 DEF OrderOK
  <2>3. \A m \in Nics : Ordered(recvQueue[m], m, delivered, recvTags)'
    <3>1. recvQueue' = recvQueue /\ delivered' = delivered /\ recvTags' = recvTags
      BY <1>2
    <3>2. \A m \in Nics : Ordered(recvQueue'[m], m, delivered', recvTags')
      BY <3>1 DEF OrderOK
    <3>3. QED BY <3>2
  <2>4. QED BY <2>2, <2>3 DEF OrderOK
<1>19. NoStuckPacket'
  BY <1>2, <1>14 DEF NoStuckPacket, TypeOK
<1>20. NicClockRunning'
  <2> SUFFICES ASSUME NEW m \in Nics,
                      recvQueue'[m] # <<>> \/ \E l \in Nets : sendQueue'[m][l] # <<>>
               PROVE  clockOn'[m]
    BY DEF NicClockRunning
  <2>1. CASE recvQueue[m] # <<>> \/ \E l \in Nets : sendQueue[m][l] # <<>>
    <3>1. clockOn[m]
      BY <2>1 DEF NicClockRunning
    <3>2. QED BY <1>1, <1>8, <3>1 DEF TypeOK
  <2>2. CASE ~(recvQueue[m] # <<>> \/ \E l \in Nets : sendQueue[m][l] # <<>>)
    <3>1. m = n /\ rest # <<>>
      BY <1>2, <1>10, <2>2
    <3>2. Len(q) = 1
      BY <1>1, <1>3, <1>6, <2>2, <3>1
    <3>3. Len(rest) = 1
      <4>1. Len(rest) \in Nat \ {0}
        BY <1>7, <3>1, EmptySeq
      <4>2. Len(rest) <= 1
        BY <1>7, <3>2
      <4>3. \A x \in Nat \ {0} : x <= 1 => x = 1
        OBVIOUS
      <4>4. QED BY <4>1, <4>2, <4>3, Zenon
    <3>4. QED BY <1>1, <1>8, <3>1, <3>3 DEF TypeOK
  <2>3. QED BY <2>1, <2>2
<1>21. QED BY <1>11, <1>13, <1>17, <1>18, <1>19, <1>20

(* What only moves packets between a NIC and the networks leaves the       *)
(* receiving side in order.                                                *)
LEMMA ReceivingUnchanged ==
    ASSUME IInv, UNCHANGED <<sendTags, recvTags, orderBuffer, recvQueue, delivered>>
    PROVE  OrderOK' /\ NoStuckPacket' /\ \A p : Sent(p) => Sent(p)'
<1>1. NoStuckPacket' /\ \A p : Sent(p) => Sent(p)'
  BY DEF IInv, NoStuckPacket, Sent
<1>2. \A r \in Routes : (recvTags[r] <= sendTags[r] /\ Len(delivered[r]) <= recvTags[r])'
  BY DEF IInv, OrderOK
<1>3. \A n \in Nics : Ordered(recvQueue'[n], n, delivered', recvTags')
  BY DEF IInv, OrderOK
<1>4. QED BY <1>1, <1>2, <1>3 DEF OrderOK

(* Inject: a packet leaves for the network.                                *)
LEMMA InjectInv ==
    ASSUME IInv, NEW n \in Nics, NEW k \in Nets, Inject(n, k)
    PROVE  IInv'
<1> USE DEF IInv
<1>1. PICK p \in out[n][k] : /\ out' = [out EXCEPT ![n][k] = @ \ {p}]
                             /\ wire' = wire \cup {p}
  BY DEF Inject
<1>2. UNCHANGED <<sendQueue, sendTags, recvTags, orderBuffer, recvQueue, clockOn, delivered>>
  BY DEF Inject
<1>3. p \in NetPacket /\ p \in Waiting(n, k)
  BY <1>1 DEF TypeOK, Waiting
<1>4. TypeOK'
  BY <1>1, <1>2, <1>3 DEF TypeOK
<1>5. /\ out'[n][k] = out[n][k] \ {p}
      /\ \A m \in Nics, l \in Nets : ~(m = n /\ l = k) => out'[m][l] = out[m][l]
  BY <1>1 DEF TypeOK
<1>6. LinkOK'
  <2>1. IsFiniteSet(out[n][k]) /\ Cardinality(out[n][k]) <= LinkSpace /\ LinkSpace \in Nat
    BY BoundAssumption DEF LinkOK
  <2>2. /\ IsFiniteSet(out[n][k] \ {p})
        /\ Cardinality(out[n][k] \ {p}) <= LinkSpace
    <3>1. /\ IsFiniteSet(out[n][k] \ {p})
          /\ Cardinality(out[n][k] \ {p}) <= Cardinality(out[n][k])
      BY <2>1, FS_Subset
    <3>2. Cardinality(out[n][k]) \in Nat /\ Cardinality(out[n][k] \ {p}) \in Nat
      BY <2>1, <3>1, FS_CardinalityType
    <3>3. QED BY <2>1, <3>1, <3>2
  <2>3. QED BY <1>5, <2>2 DEF LinkOK
<1>7. \A m \in Nics, l \in Nets :
         Waiting(m, l)' = IF m = n /\ l = k THEN Waiting(m, l) \ {p} ELSE Waiting(m, l)
  BY <1>1, <1>2, <1>5 DEF Waiting, OnceOK, Elems
<1>8. OnceOK'
  <2> SUFFICES ASSUME NEW m \in Nics, NEW l \in Nets
               PROVE  /\ Injective(sendQueue'[m][l])
                      /\ \A x \in out'[m][l] : x \notin Elems(sendQueue'[m][l])
                      /\ \A x \in Waiting(m, l)' : x \notin wire'
                      /\ \A i \in Nics, j \in Nets, x \in Waiting(m, l)' :
                            x \in Waiting(i, j)' => m = i /\ l = j
    BY DEF OnceOK
  <2>1. Injective(sendQueue'[m][l]) /\ \A x \in out'[m][l] : x \notin Elems(sendQueue'[m][l])
    BY <1>2, <1>5 DEF OnceOK
  <2>2. ASSUME NEW x \in Waiting(m, l)' PROVE x \notin wire'
    <3>1. x \in Waiting(m, l) /\ x # p
      BY <1>3, <1>7 DEF OnceOK
    <3>2. QED BY <1>1, <3>1 DEF OnceOK
  <2>3. ASSUME NEW i \in Nics, NEW j \in Nets, NEW x \in Waiting(m, l)', x \in Waiting(i, j)'
        PROVE  m = i /\ l = j
    <3>1. x \in Waiting(m, l) /\ x \in Waiting(i, j)
      BY <1>7, <2>3
    <3>2. QED BY <3>1 DEF OnceOK
  <2>4. QED BY <2>1, <2>2, <2>3
<1>9. OrderOK' /\ NoStuckPacket' /\ \A x : Sent(x) => Sent(x)'
  BY <1>2, ReceivingUnchanged
<1>10. FlightOK'
  <2>1. \A x \in wire' : Sent(x)'
    BY <1>1, <1>3, <1>9 DEF FlightOK
  <2>2. \A m \in Nics, l \in Nets : \A x \in Waiting(m, l)' : Sent(x)'
    BY <1>7, <1>9 DEF FlightOK
  <2>3. QED BY <2>1, <2>2 DEF FlightOK
<1>11. NicClockRunning'
  BY <1>2 DEF NicClockRunning
<1>12. QED BY <1>4, <1>6, <1>8, <1>9, <1>10, <1>11

(* A packet taken from the network leaves the sending side as it is.       *)
LEMMA ReceiveSide ==
    ASSUME IInv, NEW p \in wire, wire' = wire \ {p}, UNCHANGED <<sendQueue, out>>
    PROVE  /\ LinkOK' /\ OnceOK'
           /\ \A n \in Nics, k \in Nets : Waiting(n, k)' = Waiting(n, k) /\ p \notin Waiting(n, k)
<1>1. \A n \in Nics, k \in Nets : Waiting(n, k)' = Waiting(n, k) /\ p \notin Waiting(n, k)
  BY DEF Waiting, IInv, OnceOK
<1>2. LinkOK'
  BY DEF IInv, LinkOK
<1>3. \A n \in Nics, k \in Nets :
         /\ Injective(sendQueue'[n][k])
         /\ \A x \in out'[n][k] : x \notin Elems(sendQueue'[n][k])
  BY DEF IInv, OnceOK
<1>4. OnceOK'
  BY <1>1, <1>3 DEF IInv, OnceOK
<1>5. QED BY <1>1, <1>2, <1>4

(* doRecv of a packet that is too early.                                   *)
LEMMA OutOfOrderInv ==
    ASSUME IInv, NEW p \in wire, doRecv(p), OutOfOrder(p)
    PROVE  IInv'
<1> USE DEF IInv
<1>1. /\ wire' = wire \ {p} /\ p.tag # recvTags[p.route]
      /\ orderBuffer' = [orderBuffer EXCEPT ![p.route] = @ \cup {p.tag}]
      /\ clockOn' = [clockOn EXCEPT ![Dst(p)] = @ \/ recvQueue'[Dst(p)] # <<>>]
      /\ UNCHANGED <<sendQueue, out, sendTags, recvTags, recvQueue, delivered>>
  BY DEF doRecv, OutOfOrder
<1>2. /\ p \in NetPacket /\ p.route \in Routes /\ p.tag \in Nat /\ Dst(p) \in Nics
      /\ recvTags[p.route] < p.tag /\ p.tag < sendTags[p.route]
  BY <1>1, RouteAssumption DEF TypeOK, NetPacket, FlightOK, Sent, Dst
<1>3. TypeOK'
  BY <1>1, <1>2 DEF TypeOK
<1>4. /\ LinkOK' /\ OnceOK'
      /\ \A n \in Nics, k \in Nets : Waiting(n, k)' = Waiting(n, k) /\ p \notin Waiting(n, k)
  BY <1>1, ReceiveSide
<1>5. \A r \in Routes : orderBuffer'[r] = IF r = p.route THEN orderBuffer[r] \cup {p.tag} ELSE orderBuffer[r]
  BY <1>1 DEF TypeOK
<1>6. ASSUME NEW x \in NetPacket, Sent(x), x # p PROVE Sent(x)'
  <2>1. x.route \in Routes /\ (x.route = p.route => x.tag # p.tag)
    BY <1>2, <1>6 DEF NetPacket
  <2>2. x.tag \notin orderBuffer'[x.route]
    BY <1>5, <1>6, <2>1 DEF Sent
  <2>3. QED BY <1>1, <1>6, <2>2 DEF Sent
<1>7. FlightOK'
  <2>1. \A x \in wire' : Sent(x)'
    BY <1>1, <1>6 DEF FlightOK, TypeOK
  <2>2. \A n \in Nics, k \in Nets : \A x \in Waiting(n, k) : x \in NetPacket
    BY DEF TypeOK, Waiting, Elems
  <2>3. \A n \in Nics, k \in Nets : \A x \in Waiting(n, k)' : Sent(x)'
    BY <1>4, <1>6, <2>2 DEF FlightOK
  <2>4. QED BY <2>1, <2>3 DEF FlightOK
<1>8. OrderOK'
  <2>1. \A r \in Routes : (recvTags[r] <= sendTags[r] /\ Len(delivered[r]) <= recvTags[r])'
    BY <1>1 DEF OrderOK
  <2>2. \A n \in Nics : Ordered(recvQueue'[n], n, delivered', recvTags')
    BY <1>1 DEF OrderOK
  <2>3. QED BY <2>1, <2>2 DEF OrderOK
<1>9. NoStuckPacket'
  BY <1>1, <1>2, <1>5 DEF NoStuckPacket
<1>10. NicClockRunning'
  BY <1>1 DEF NicClockRunning, TypeOK
<1>11. QED BY <1>3, <1>4, <1>7, <1>8, <1>9, <1>10

(* A NIC whose queue is e for a moment hands over the first event of e.    *)
HandsOver(n, e) ==
    /\ e \in Seq(NetPacket) /\ e # <<>>
    /\ Ordered(e, n, delivered, recvTags')
    /\ recvTags' \in [Routes -> Nat]
    /\ \A r \in Routes : /\ recvTags[r] <= recvTags'[r]
                         /\ r[2] # n => recvTags'[r] = recvTags[r]
    /\ recvNotify(Head(e))
    /\ recvQueue' = [recvQueue EXCEPT ![n] = Tail(e)]

(* It is the next event of its route, and all queues remain ordered.       *)
LEMMA HandOverStep ==
    ASSUME IInv, NEW n \in Nics, NEW e, HandsOver(n, e)
    PROVE  /\ Head(e).route \in Routes
           /\ delivered' = [delivered EXCEPT ![Head(e).route] = Append(@, Len(@))]
           /\ Len(delivered[Head(e).route]) < recvTags'[Head(e).route]
           /\ recvQueue' \in [Nics -> Seq(NetPacket)] /\ delivered' \in [Routes -> Seq(Nat)]
           /\ \A r \in Routes : Len(delivered'[r]) <= recvTags'[r]
           /\ \A m \in Nics : Ordered(recvQueue'[m], m, delivered', recvTags')
<1> USE DEF IInv
<1>0. /\ e \in Seq(NetPacket) /\ e # <<>> /\ Ordered(e, n, delivered, recvTags')
      /\ recvTags' \in [Routes -> Nat] /\ delivered \in [Routes -> Seq(Nat)]
      /\ recvTags \in [Routes -> Nat]
      /\ recvQueue' = [recvQueue EXCEPT ![n] = Tail(e)]
  BY DEF HandsOver, TypeOK
<1>1. PICK h : h = Head(e)
  OBVIOUS
<1>2. delivered' = [delivered EXCEPT ![h.route] = Append(@, h.tag)]
  BY <1>1 DEF HandsOver, recvNotify
<1>3. /\ h \in NetPacket /\ Dst(h) = n
      /\ h.tag = Len(delivered[h.route]) /\ h.tag < recvTags'[h.route]
      /\ Len(delivered'[h.route]) = h.tag + 1
      /\ Ordered(Tail(e), n, delivered', recvTags')
  BY <1>0, <1>1, <1>2, PopFacts
<1>4. h.route \in Routes /\ h.tag \in Nat
  BY <1>3 DEF NetPacket
<1>5. delivered' = [delivered EXCEPT ![h.route] = Append(@, Len(@))]
  BY <1>2, <1>3
<1>6. Tail(e) \in Seq(NetPacket)
  BY <1>0, TailFacts
<1>7. recvQueue' \in [Nics -> Seq(NetPacket)] /\ delivered' \in [Routes -> Seq(Nat)]
  BY <1>0, <1>2, <1>4, <1>6 DEF TypeOK
<1>8. ASSUME NEW r \in Routes PROVE Len(delivered'[r]) <= recvTags'[r]
  <2>1. CASE r = h.route
    BY <1>0, <1>3, <1>4, <2>1
  <2>2. CASE r # h.route
    <3>1. delivered'[r] = delivered[r] /\ Len(delivered[r]) \in Nat
      BY <1>0, <1>2, <2>2
    <3>2. Len(delivered[r]) <= recvTags[r] /\ recvTags[r] <= recvTags'[r]
      BY DEF HandsOver, OrderOK
    <3>3. QED BY <1>0, <3>1, <3>2
  <2>3. QED BY <2>1, <2>2
<1>9. ASSUME NEW m \in Nics PROVE Ordered(recvQueue'[m], m, delivered', recvTags')
  <2>1. CASE m = n
    BY <1>0, <1>3, <2>1 DEF TypeOK
  <2>2. CASE m # n
    <3>1. recvQueue'[m] = recvQueue[m] /\ Ordered(recvQueue[m], m, delivered, recvTags)
      BY <1>0, <2>2 DEF TypeOK, OrderOK
    <3>2. \A r \in Routes : r[2] = m => recvTags'[r] = recvTags[r] /\ delivered'[r] = delivered[r]
      BY <1>0, <1>2, <1>3, <2>2 DEF HandsOver, Dst
    <3>3. \A i \in 1 .. Len(recvQueue[m]) : recvQueue[m][i].route \in Routes
      <4>1. recvQueue[m] \in Seq(NetPacket)
        BY DEF TypeOK
      <4>2. \A i \in 1 .. Len(recvQueue[m]) : recvQueue[m][i] \in NetPacket
        BY <4>1
      <4>3. QED BY <4>2 DEF NetPacket
    <3>4. QED BY <3>1, <3>2, <3>3 DEF Ordered, Dst
  <2>3. QED BY <2>1, <2>2
<1>10. QED BY <1>1, <1>3, <1>4, <1>5, <1>7, <1>8, <1>9

(* doRecv of the packet that is expected hands over one event.             *)
LEMMA InOrderStep ==
    ASSUME IInv, NEW p \in wire, doRecv(p), InOrder(Dst(p), p)
    PROVE  LET u == NextMissing(orderBuffer[p.route], p.tag + 1)
           IN  /\ p \in NetPacket /\ Dst(p) \in Nics /\ p.tag = recvTags[p.route]
               /\ u \in Nat /\ p.tag < u /\ u <= sendTags[p.route]
               /\ u \notin orderBuffer[p.route] /\ p.tag + 1 .. u - 1 \subseteq orderBuffer[p.route]
               /\ \E e : HandsOver(Dst(p), e)
<1> USE DEF IInv
<1> DEFINE r == p.route
           n == Dst(p)
           T == orderBuffer[r]
           u == NextMissing(T, p.tag + 1)
           a == Append(recvQueue[n], p)
<1>1. /\ p \in NetPacket /\ r \in Routes /\ p.tag \in Nat /\ n \in Nics /\ r[2] = n
      /\ p.tag < sendTags[r]
  BY RouteAssumption DEF TypeOK, NetPacket, FlightOK, Sent, Dst
<1>2. p.tag = recvTags[r] /\ p = Packet(r, recvTags[r])
  BY <1>1 DEF InOrder, Packet, NetPacket
<1>3. T \in SUBSET Nat /\ IsFiniteSet(T) /\ \A t \in T : t < sendTags[r]
  <2>1. T \in SUBSET Nat /\ sendTags[r] \in Nat /\ \A t \in T : t < sendTags[r]
    BY <1>1 DEF TypeOK, NoStuckPacket
  <2>2. \A t \in T : t <= sendTags[r]
    BY <2>1
  <2>3. QED BY <2>1, <2>2, FS_BoundedSetOfNaturals
<1>4. u \in Nat /\ p.tag + 1 <= u /\ u \notin T /\ p.tag + 1 .. u - 1 \subseteq T
  <2>1. p.tag + 1 \in Nat
    BY <1>1
  <2> HIDE DEF T
  <2>2. QED BY <1>3, <2>1, NextMissingFacts
<1>5. /\ recvNotify(Head(a))
      /\ recvQueue' = [recvQueue EXCEPT ![n] = Tail(a) \o Run(r, p.tag + 1, u)]
      /\ recvTags' = [recvTags EXCEPT ![r] = u]
  BY DEF InOrder
<1> HIDE DEF u, T
<1>6. p.tag < u /\ u <= sendTags[r]
  <2>1. CASE u = p.tag + 1
    BY <1>1, <2>1 DEF TypeOK
  <2>2. CASE u # p.tag + 1
    <3>1. u - 1 \in p.tag + 1 .. u - 1
      BY <1>1, <1>4, <2>2
    <3>2. u - 1 < sendTags[r] /\ sendTags[r] \in Nat
      BY <1>1, <1>3, <1>4, <3>1 DEF TypeOK
    <3>3. QED BY <1>1, <1>4, <3>2
  <2>3. QED BY <2>1, <2>2
<1>7. /\ recvQueue[n] \in Seq(NetPacket) /\ delivered \in [Routes -> Seq(Nat)]
      /\ recvTags \in [Routes -> Nat] /\ Ordered(recvQueue[n], n, delivered, recvTags)
      /\ Len(delivered[r]) <= recvTags[r]
  BY <1>1 DEF TypeOK, OrderOK
<1> HIDE DEF r, n
<1> DEFINE e == a \o Run(r, p.tag + 1, u)
<1>8. /\ e \in Seq(NetPacket) /\ e # <<>> /\ Head(e) = Head(a)
      /\ Tail(e) = Tail(a) \o Run(r, p.tag + 1, u)
      /\ Ordered(e, n, delivered, [recvTags EXCEPT ![r] = u])
  <2>1. recvTags[r] < u
    BY <1>2, <1>6
  <2>2. a = Append(recvQueue[n], Packet(r, recvTags[r])) /\ p.tag = recvTags[r]
    BY <1>2
  <2>3. Extendable(recvQueue[n], n, delivered, recvTags, r, u)
    BY <1>1, <1>4, <1>7, <2>1 DEF Extendable
  <2>4. Extended(recvQueue[n], n, delivered, recvTags, r, u)
    BY <2>3, ExtendFacts
  <2> HIDE DEF a
  <2>5. QED BY <2>2, <2>4 DEF Extended
<1> HIDE DEF e, a
<1>9. HandsOver(n, e)
  <2>1. recvTags' \in [Routes -> Nat]
    BY <1>4, <1>5, <1>7
  <2>2. \A x \in Routes : recvTags[x] <= recvTags'[x] /\ (x[2] # n => recvTags'[x] = recvTags[x])
    BY <1>1, <1>2, <1>4, <1>5, <1>6, <1>7
  <2>3. QED BY <1>5, <1>8, <2>1, <2>2 DEF HandsOver
<1>10. QED BY <1>1, <1>2, <1>4, <1>6, <1>9 DEF n, r, T, u

(* doRecv of the packet that is expected.                                  *)
LEMMA InOrderInv ==
    ASSUME IInv, NEW p \in wire, doRecv(p), InOrder(Dst(p), p)
    PROVE  IInv'
<1> USE DEF IInv
<1>1. PICK u : u = NextMissing(orderBuffer[p.route], p.tag + 1)
  OBVIOUS
<1>2. /\ p \in NetPacket /\ Dst(p) \in Nics /\ p.tag = recvTags[p.route]
      /\ u \in Nat /\ p.tag < u /\ u <= sendTags[p.route]
      /\ u \notin orderBuffer[p.route] /\ p.tag + 1 .. u - 1 \subseteq orderBuffer[p.route]
  BY <1>1, InOrderStep
<1>3. PICK e : HandsOver(Dst(p), e)
  BY InOrderStep
<1>4. /\ recvQueue' \in [Nics -> Seq(NetPacket)] /\ delivered' \in [Routes -> Seq(Nat)]
      /\ \A r \in Routes : Len(delivered'[r]) <= recvTags'[r]
      /\ \A m \in Nics : Ordered(recvQueue'[m], m, delivered', recvTags')
  BY <1>2, <1>3, HandOverStep
<1>5. /\ wire' = wire \ {p}
      /\ orderBuffer' = [orderBuffer EXCEPT ![p.route] = @ \ (p.tag + 1 .. u - 1)]
      /\ recvTags' = [recvTags EXCEPT ![p.route] = u]
      /\ clockOn' = [clockOn EXCEPT ![Dst(p)] = @ \/ recvQueue'[Dst(p)] # <<>>]
      /\ UNCHANGED <<sendQueue, out, sendTags>>
  BY <1>1 DEF doRecv, InOrder
<1>6. p.route \in Routes /\ p.tag \in Nat
  BY <1>2 DEF NetPacket
<1>7. TypeOK'
  <2>1. recvTags' \in [Routes -> Nat] /\ orderBuffer' \in [Routes -> SUBSET Nat]
    BY <1>2, <1>5 DEF TypeOK
  <2>2. wire' \subseteq NetPacket /\ clockOn' \in [Nics -> BOOLEAN]
    BY <1>2, <1>5 DEF TypeOK
  <2>3. QED BY <1>4, <1>5, <2>1, <2>2 DEF TypeOK
<1>8. /\ LinkOK' /\ OnceOK'
      /\ \A n \in Nics, k \in Nets : Waiting(n, k)' = Waiting(n, k) /\ p \notin Waiting(n, k)
  BY <1>5, ReceiveSide
<1>9. /\ recvTags'[p.route] = u
      /\ orderBuffer'[p.route] = orderBuffer[p.route] \ (p.tag + 1 .. u - 1)
      /\ \A r \in Routes : r # p.route => recvTags'[r] = recvTags[r] /\ orderBuffer'[r] = orderBuffer[r]
  BY <1>5, <1>6 DEF TypeOK
<1>10. ASSUME NEW x \in NetPacket, Sent(x), x # p PROVE Sent(x)'
  <2>1. x.route \in Routes /\ x.tag \in Nat /\ (x.route = p.route => x.tag # p.tag)
    BY <1>2, <1>10 DEF NetPacket
  <2>2. CASE x.route = p.route
    <3>1. p.tag < x.tag /\ x.tag \notin orderBuffer[p.route] /\ x.tag < sendTags[p.route]
      BY <1>2, <1>6, <1>10, <2>1, <2>2 DEF Sent
    <3>2. x.tag \notin p.tag + 1 .. u - 1
      BY <1>2, <3>1
    <3>3. u <= x.tag
      BY <1>2, <1>6, <2>1, <3>1, <3>2
    <3>4. QED BY <1>5, <1>9, <2>2, <3>1, <3>3 DEF Sent
  <2>3. CASE x.route # p.route
    BY <1>5, <1>9, <1>10, <2>1, <2>3 DEF Sent
  <2>4. QED BY <2>2, <2>3
<1>11. FlightOK'
  <2>1. \A x \in wire' : Sent(x)'
    BY <1>5, <1>10 DEF FlightOK, TypeOK
  <2>2. \A n \in Nics, k \in Nets : \A x \in Waiting(n, k) : x \in NetPacket
    BY DEF TypeOK, Waiting, Elems
  <2>3. \A n \in Nics, k \in Nets : \A x \in Waiting(n, k)' : Sent(x)'
    BY <1>8, <1>10, <2>2 DEF FlightOK
  <2>4. QED BY <2>1, <2>3 DEF FlightOK
<1>12. OrderOK'
  <2>1. \A r \in Routes : recvTags'[r] <= sendTags'[r]
    BY <1>2, <1>5, <1>9 DEF OrderOK
  <2>2. QED BY <1>4, <2>1 DEF OrderOK
<1>13. NoStuckPacket'
  <2> SUFFICES ASSUME NEW r \in Routes, NEW t \in orderBuffer'[r]
               PROVE  recvTags'[r] < t /\ t < sendTags'[r]
    BY DEF NoStuckPacket
  <2>1. CASE r # p.route
    BY <1>5, <1>9, <2>1 DEF NoStuckPacket
  <2>2. CASE r = p.route
    <3>1. /\ t \in orderBuffer[r] /\ t \notin p.tag + 1 .. u - 1 /\ t \in Nat
          /\ recvTags[r] < t /\ t < sendTags[r]
      BY <1>9, <2>2 DEF NoStuckPacket, TypeOK
    <3>2. t # u
      BY <1>2, <2>2, <3>1
    <3>3. u < t
      BY <1>2, <1>6, <2>2, <3>1, <3>2
    <3>4. QED BY <1>5, <1>9, <2>2, <3>1, <3>3
  <2>3. QED BY <2>1, <2>2
<1>14. NicClockRunning'
  <2> SUFFICES ASSUME NEW m \in Nics,
                      recvQueue'[m] # <<>> \/ \E k \in Nets : sendQueue'[m][k] # <<>>
               PROVE  clockOn'[m]
    BY DEF NicClockRunning
  <2>1. CASE m = Dst(p)
    BY <1>2, <1>5, <2>1 DEF TypeOK, NicClockRunning
  <2>2. CASE m # Dst(p)
    <3>1. recvQueue'[m] = recvQueue[m] /\ clockOn'[m] = clockOn[m]
      BY <1>2, <1>3, <1>5, <2>2 DEF HandsOver, TypeOK
    <3>2. QED BY <1>5, <3>1 DEF NicClockRunning
  <2>3. QED BY <2>1, <2>2
<1>15. QED BY <1>7, <1>8, <1>11, <1>12, <1>13, <1>14

(* clock hands over one event, if there is one.                            *)
LEMMA ClockStep ==
    ASSUME IInv, NEW n \in Nics, clock(n), recvQueue[n] # <<>>
    PROVE  HandsOver(n, recvQueue[n])
<1> USE DEF IInv
<1>1. /\ recvNotify(Head(recvQueue[n])) /\ recvQueue' = [recvQueue EXCEPT ![n] = Tail(@)]
      /\ recvTags' = recvTags
  BY DEF clock
<1>2. /\ recvQueue[n] \in Seq(NetPacket) /\ recvTags \in [Routes -> Nat]
      /\ Ordered(recvQueue[n], n, delivered, recvTags) /\ recvQueue \in [Nics -> Seq(NetPacket)]
  BY DEF TypeOK, OrderOK
<1>3. QED BY <1>1, <1>2 DEF HandsOver

(* clock: one cycle of a NIC.                                              *)
LEMMA ClockInv ==
    ASSUME IInv, NEW n \in Nics, clock(n)
    PROVE  IInv'
<1> USE DEF IInv
<1>1. /\ sendQueue' = [sendQueue EXCEPT ![n] = [k \in Nets |-> drainQueue(sendQueue[n][k], out[n][k])]]
      /\ out' = [out EXCEPT ![n] = [k \in Nets |-> drainedInto(sendQueue[n][k], out[n][k])]]
      /\ clockOn' = [clockOn EXCEPT ![n] = \/ recvQueue'[n] # <<>>
                                          \/ \E k \in Nets : sendQueue'[n][k] # <<>>]
      /\ UNCHANGED <<wire, sendTags, recvTags, orderBuffer>>
  BY DEF clock, TypeOK
<1>2. ASSUME NEW k \in Nets
      PROVE  LET d == drainQueue(sendQueue[n][k], out[n][k])
                 o == drainedInto(sendQueue[n][k], out[n][k])
             IN  /\ d \in Seq(NetPacket) /\ Injective(d)
                 /\ o \in SUBSET NetPacket /\ IsFiniteSet(o) /\ Cardinality(o) <= LinkSpace
                 /\ \A p \in o : p \notin Elems(d)
                 /\ Elems(d) \cup o = Waiting(n, k)
  <2>1. /\ sendQueue[n][k] \in Seq(NetPacket) /\ out[n][k] \in SUBSET NetPacket
        /\ Injective(sendQueue[n][k])
        /\ \A x \in out[n][k] : x \notin Elems(sendQueue[n][k])
        /\ IsFiniteSet(out[n][k]) /\ Cardinality(out[n][k]) <= LinkSpace
    BY DEF TypeOK, OnceOK, LinkOK
  <2>2. QED BY <2>1, DrainFacts DEF Waiting
<1>3. sendQueue' \in [Nics -> [Nets -> Seq(NetPacket)]] /\ out' \in [Nics -> [Nets -> SUBSET NetPacket]]
  <2>1. [k \in Nets |-> drainQueue(sendQueue[n][k], out[n][k])] \in [Nets -> Seq(NetPacket)]
    BY <1>2
  <2>2. [k \in Nets |-> drainedInto(sendQueue[n][k], out[n][k])] \in [Nets -> SUBSET NetPacket]
    BY <1>2
  <2>3. sendQueue \in [Nics -> [Nets -> Seq(NetPacket)]] /\ out \in [Nics -> [Nets -> SUBSET NetPacket]]
    BY DEF TypeOK
  <2>4. QED BY <1>1, <2>1, <2>2, <2>3
<1>4. /\ \A k \in Nets : /\ sendQueue'[n][k] = drainQueue(sendQueue[n][k], out[n][k])
                         /\ out'[n][k] = drainedInto(sendQueue[n][k], out[n][k])
      /\ \A m \in Nics, k \in Nets : m # n => /\ sendQueue'[m][k] = sendQueue[m][k]
                                             /\ out'[m][k] = out[m][k]
  BY <1>1 DEF TypeOK
<1>5. \A m \in Nics, k \in Nets : Waiting(m, k)' = Waiting(m, k)
  <2> SUFFICES ASSUME NEW m \in Nics, NEW k \in Nets PROVE Waiting(m, k)' = Waiting(m, k)
    OBVIOUS
  <2>1. Waiting(m, k)' = Elems(sendQueue'[m][k]) \cup out'[m][k]
    BY DEF Waiting, Elems
  <2>2. CASE m = n
    BY <1>2, <1>4, <2>1, <2>2
  <2>3. CASE m # n
    BY <1>4, <2>1, <2>3 DEF Waiting
  <2>4. QED BY <2>2, <2>3
<1>6. LinkOK' /\ OnceOK'
  <2>1. \A m \in Nics, k \in Nets :
           /\ Injective(sendQueue'[m][k])
           /\ IsFiniteSet(out'[m][k]) /\ Cardinality(out'[m][k]) <= LinkSpace
           /\ \A p \in out'[m][k] : p \notin Elems(sendQueue'[m][k])
    BY <1>2, <1>4 DEF OnceOK, LinkOK
  <2>2. Refilled(n, n, {})
    BY <1>1, <1>5, <2>1 DEF Refilled
  <2>3. QED BY <2>2, WaitingStep
<1>7. FlightOK'
  <2>1. \A x : Sent(x) => Sent(x)'
    BY <1>1 DEF Sent
  <2>2. QED BY <1>1, <1>5, <2>1 DEF FlightOK
<1>8. NoStuckPacket'
  BY <1>1 DEF NoStuckPacket
<1>9. /\ recvQueue' \in [Nics -> Seq(NetPacket)] /\ delivered' \in [Routes -> Seq(Nat)]
      /\ \A r \in Routes : Len(delivered'[r]) <= recvTags'[r]
      /\ \A m \in Nics : Ordered(recvQueue'[m], m, delivered', recvTags')
      /\ \A m \in Nics : m # n => recvQueue'[m] = recvQueue[m]
  <2>1. CASE recvQueue[n] = <<>>
    <3>1. UNCHANGED <<recvQueue, delivered, recvTags>>
      BY <2>1 DEF clock
    <3>2. QED BY <3>1 DEF OrderOK, TypeOK
  <2>2. CASE recvQueue[n] # <<>>
    <3>1. HandsOver(n, recvQueue[n])
      BY <2>2, ClockStep
    <3>2. QED BY <3>1, HandOverStep DEF HandsOver, TypeOK
  <2>3. QED BY <2>1, <2>2
<1>10. OrderOK'
  <2>1. \A r \in Routes : recvTags'[r] <= sendTags'[r]
    BY <1>1 DEF OrderOK
  <2>2. QED BY <1>9, <2>1 DEF OrderOK
<1>11. TypeOK'
  <2>1. clockOn' \in [Nics -> BOOLEAN]
    BY <1>1 DEF TypeOK
  <2>2. QED BY <1>1, <1>3, <1>9, <2>1 DEF TypeOK
<1>12. NicClockRunning'
  BY <1>1, <1>4, <1>9 DEF NicClockRunning, TypeOK
<1>13. QED BY <1>6, <1>7, <1>8, <1>10, <1>11, <1>12

(* Every step preserves the invariant.                                     *)
LEMMA NextInv == IInv /\ [Next]_vars => IInv'
<1> SUFFICES ASSUME IInv, [Next]_vars PROVE IInv'
  OBVIOUS
<1>1. ASSUME NEW r \in Routes, NEW k \in Nets, send(r, k) PROVE IInv'
  BY <1>1, SendInv
<1>2. ASSUME NEW n \in Nics, NEW k \in Nets, Inject(n, k) PROVE IInv'
  BY <1>2, InjectInv
<1>3. ASSUME NEW p \in wire, doRecv(p) PROVE IInv'
  <2>1. InOrder(Dst(p), p) \/ OutOfOrder(p)
    BY <1>3 DEF doRecv
  <2>2. QED BY <1>3, <2>1, InOrderInv, OutOfOrderInv
<1>4. ASSUME NEW n \in Nics, clock(n) PROVE IInv'
  BY <1>4, ClockInv
<1>5. CASE UNCHANGED vars
  <2>1. UNCHANGED <<sendQueue, out, wire, sendTags, recvTags, orderBuffer, recvQueue, clockOn, delivered>>
    BY <1>5 DEF vars
  <2>2. OrderOK' /\ NoStuckPacket' /\ \A p : Sent(p) => Sent(p)'
    BY <2>1, ReceivingUnchanged
  <2>3. \A n \in Nics, k \in Nets : Waiting(n, k)' = Waiting(n, k)
    BY <2>1 DEF Waiting
  <2>4. TypeOK' /\ LinkOK' /\ NicClockRunning'
    BY <2>1 DEF IInv, TypeOK, LinkOK, NicClockRunning
  <2>5. FlightOK'
    BY <2>1, <2>2, <2>3 DEF IInv, FlightOK
  <2>6. \A n \in Nics, k \in Nets :
           /\ Injective(sendQueue'[n][k])
           /\ \A p \in out'[n][k] : p \notin Elems(sendQueue'[n][k])
    BY <2>1 DEF IInv, OnceOK
  <2>7. OnceOK'
    BY <2>1, <2>3, <2>6 DEF IInv, OnceOK
  <2>8. QED BY <2>2, <2>4, <2>5, <2>7 DEF IInv
<1>6. CASE Stop
  BY <1>5, <1>6 DEF Stop
<1>7. QED BY <1>1, <1>2, <1>3, <1>4, <1>5, <1>6 DEF Next

(***************************************************************************)
(* The theorems.                                                           *)
(***************************************************************************)
(* The inductive invariant holds in every reachable state of the NICs.     *)
THEOREM Invariance == Spec => []IInv
BY InitInv, NextInv, PTL DEF Spec

(* memNICFour.cc keeps every variable in its type.                         *)
THEOREM TypeCorrect == Spec => []TypeOK
<1>1. IInv => TypeOK
  BY DEF IInv
<1>2. QED BY <1>1, Invariance, PTL

(* A NIC with something to send or to hand over has its clock registered.  *)
THEOREM NoLostClock == Spec => []NicClockRunning
<1>1. IInv => NicClockRunning
  BY DEF IInv
<1>2. QED BY <1>1, Invariance, PTL

(* The order buffer never keeps the packet that is expected, nor an old    *)
(* one or one that was never sent.                                         *)
THEOREM NoPacketStuck == Spec => []NoStuckPacket
<1>1. IInv => NoStuckPacket
  BY DEF IInv
<1>2. QED BY <1>1, Invariance, PTL

(* An event handed over is the next of its route: a step of the channel.   *)
LEMMA DeliverStep ==
    ASSUME IInv, NEW n \in Nics, NEW e, HandsOver(n, e), sendTags' = sendTags,
           \A r \in Routes : recvTags'[r] <= sendTags[r]
    PROVE  Channel!Next
<1>1. PICK r \in Routes : /\ delivered' = [delivered EXCEPT ![r] = Append(@, Len(@))]
                          /\ Len(delivered[r]) < recvTags'[r]
  BY HandOverStep
<1>2. Len(delivered[r]) \in Nat /\ recvTags'[r] \in Nat /\ sendTags[r] \in Nat
  BY DEF IInv, TypeOK, HandsOver
<1>3. Len(delivered[r]) < sendTags[r]
  BY <1>1, <1>2
<1>4. Channel!Deliver(r)
  BY <1>1, <1>3 DEF Channel!Deliver
<1>5. QED BY <1>4 DEF Channel!Next

(* Every step of the NICs is a step of the channel or leaves it alone.     *)
LEMMA ChannelStep == IInv /\ [Next]_vars => [Channel!Next]_Channel!vars
<1> SUFFICES ASSUME IInv, [Next]_vars PROVE Channel!Next \/ UNCHANGED Channel!vars
  OBVIOUS
<1>0. IInv'
  BY NextInv
<1>1. ASSUME NEW r \in Routes, NEW k \in Nets, send(r, k) PROVE Channel!Next
  BY <1>1 DEF send, Channel!Next, Channel!Send
<1>2. ASSUME NEW n \in Nics, NEW k \in Nets, Inject(n, k) PROVE UNCHANGED Channel!vars
  BY <1>2 DEF Inject, Channel!vars
<1>3. ASSUME NEW p \in wire, doRecv(p), InOrder(Dst(p), p) PROVE Channel!Next
  <2>1. Dst(p) \in Nics /\ \E e : HandsOver(Dst(p), e)
    BY <1>3, InOrderStep
  <2>2. sendTags' = sendTags
    BY <1>3 DEF doRecv
  <2>3. \A r \in Routes : recvTags'[r] <= sendTags[r]
    BY <1>0, <2>2 DEF IInv, OrderOK
  <2>4. QED BY <2>1, <2>2, <2>3, DeliverStep
<1>4. ASSUME NEW p \in wire, doRecv(p), OutOfOrder(p) PROVE UNCHANGED Channel!vars
  BY <1>4 DEF doRecv, OutOfOrder, Channel!vars
<1>5. ASSUME NEW n \in Nics, clock(n) PROVE Channel!Next \/ UNCHANGED Channel!vars
  <2>1. sendTags' = sendTags /\ recvTags' = recvTags
    BY <1>5 DEF clock
  <2>2. CASE recvQueue[n] = <<>>
    BY <1>5, <2>1, <2>2 DEF clock, Channel!vars
  <2>3. CASE recvQueue[n] # <<>>
    <3>1. HandsOver(n, recvQueue[n])
      BY <1>5, <2>3, ClockStep
    <3>2. \A r \in Routes : recvTags'[r] <= sendTags[r]
      BY <2>1 DEF IInv, OrderOK
    <3>3. QED BY <2>1, <3>1, <3>2, DeliverStep
  <2>4. QED BY <2>2, <2>3
<1>6. CASE UNCHANGED vars
  BY <1>6 DEF vars, Channel!vars
<1>7. CASE Stop
  BY <1>6, <1>7 DEF Stop
<1>8. QED BY <1>1, <1>2, <1>3, <1>4, <1>5, <1>6, <1>7 DEF Next, doRecv

(* Whatever the networks do to the order of packets, each route of the NIC *)
(* is an ordered channel.                                                  *)
THEOREM Implementation == Spec => ChannelSpec
<1>1. Init => Channel!Init
  BY DEF Init, Channel!Init
<1>2. QED BY <1>1, ChannelStep, Invariance, PTL DEF Spec, ChannelSpec, Channel!Spec
=============================================================================
