---------------------------- MODULE MerlinProofs ----------------------------
(***************************************************************************)
(* Proofs about the merlin network, for every shape of the machine, every  *)
(* set of routes, every buffer size and both routing algorithms.           *)
(*                                                                         *)
(* The inductive invariant IInv gives every queue its type and says, of    *)
(* each output, that it has one timer unless it sleeps, and of one that    *)
(* sleeps, why: a router's port has no packet that has credits, an         *)
(* endpoint has no packet, or had one without credits (have_packets) that  *)
(* is still its queue's first.  For a router it says that vcs_with_data    *)
(* counts the VCs that hold a packet.                                      *)
(*                                                                         *)
(* A lemma ...Effect says what an operation of LinkControl or PortControl  *)
(* does, field by field; the lemmas ...OK are the steps of the induction.  *)
(***************************************************************************)
EXTENDS Merlin, MerlinTopologyProofs, SequenceTheorems, Integers

-----------------------------------------------------------------------------
(* The sum of a sequence.                                                  *)
LEMMA LenIs == 
    ASSUME NEW S, NEW n \in Nat, NEW w \in [1 .. n -> S]
    PROVE  w \in Seq(S) /\ Len(w) = n /\ DOMAIN w = 1 .. n
OBVIOUS

(* Total is the last of the partial sums.                                  *)
LEMMA TotalIs ==
    ASSUME NEW n \in Nat, NEW w \in [1 .. n -> Nat]
    PROVE  \E s \in [1 .. n + 1 -> Nat] :
              /\ s[1] = 0 /\ \A i \in 1 .. n : s[i + 1] = s[i] + w[i]
              /\ Total(w) = s[n + 1]
<1> DEFINE Q(f) == f = [i \in 0 .. n |-> IF i = 0 THEN 0 ELSE f[i - 1] + w[i]]
<1>1. PICK s \in [1 .. n + 1 -> Nat] : s[1] = 0 /\ \A i \in 1 .. n : s[i + 1] = s[i] + w[i]
  BY SumsExist
<1>2. PICK t : t = [i \in 0 .. n |-> s[i + 1]]
  OBVIOUS
<1>3. Q(t)
  <2>1. ASSUME NEW i \in 0 .. n PROVE t[i] = IF i = 0 THEN 0 ELSE t[i - 1] + w[i]
    <3>1. CASE i = 0
      BY <1>1, <1>2, <3>1
    <3>2. CASE i # 0
      <4>1. i \in 1 .. n /\ i - 1 \in 0 .. n /\ (i - 1) + 1 = i
        BY <3>2
      <4>2. t[i] = s[i + 1] /\ t[i - 1] = s[i]
        BY <1>2, <4>1
      <4>3. QED BY <1>1, <3>2, <4>1, <4>2
    <3>3. QED BY <3>1, <3>2
  <2>2. QED BY <1>2, <2>1
<1>4. ASSUME NEW f, Q(f) PROVE f = t
  <2> DEFINE S == {k \in Nat : k <= n => f[k] = t[k]}
  <2>1. 0 \in S
    BY <1>3, <1>4
  <2>2. ASSUME NEW k \in Nat, k \in S PROVE k + 1 \in S
    <3> SUFFICES ASSUME k + 1 <= n PROVE f[k + 1] = t[k + 1]
      OBVIOUS
    <3>1. k + 1 \in 0 .. n /\ k + 1 # 0 /\ (k + 1) - 1 = k /\ k <= n
      OBVIOUS
    <3>2. f[k + 1] = f[k] + w[k + 1] /\ t[k + 1] = t[k] + w[k + 1]
      BY <1>3, <1>4, <3>1
    <3>3. QED BY <2>2, <3>1, <3>2
  <2>3. \A k \in Nat : k \in S
    <3> HIDE DEF S
    <3>1. QED BY <2>1, <2>2, SetInduction
  <2>4. \A k \in 0 .. n : f[k] = t[k]
    BY <2>3
  <2>5. f = [k \in 0 .. n |-> f[k]] /\ t = [k \in 0 .. n |-> t[k]]
    BY <1>2, <1>4
  <2>6. QED BY <2>4, <2>5
<1>5. Len(w) = n
  BY LenIs
<1>6. Total(w) = (CHOOSE f : Q(f))[n]
  BY <1>5 DEF Total
<1>7. (CHOOSE f : Q(f)) = t
  <2> HIDE DEF Q
  <2>1. QED BY <1>3, <1>4
<1>8. t[n] = s[n + 1]
  BY <1>2
<1>9. QED BY <1>1, <1>6, <1>7, <1>8

(* A sum is a natural number.                                              *)
LEMMA TotalType ==
    ASSUME NEW n \in Nat, NEW w \in [1 .. n -> Nat]
    PROVE  Total(w) \in Nat /\ (n = 0 => Total(w) = 0)
<1>1. PICK s \in [1 .. n + 1 -> Nat] : s[1] = 0 /\ Total(w) = s[n + 1]
  BY TotalIs
<1>2. QED BY <1>1

(* One more number at the end.                                             *)
LEMMA TotalAppend ==
    ASSUME NEW n \in Nat, NEW w \in [1 .. n -> Nat], NEW u \in [1 .. n + 1 -> Nat],
           \A i \in 1 .. n : u[i] = w[i]
    PROVE  Total(u) = Total(w) + u[n + 1]
<1>1. PICK s \in [1 .. n + 1 -> Nat] :
           /\ s[1] = 0 /\ \A i \in 1 .. n : s[i + 1] = s[i] + w[i]
           /\ Total(w) = s[n + 1]
  BY TotalIs
<1>2. n + 1 \in Nat
  OBVIOUS
<1>3. PICK t \in [1 .. (n + 1) + 1 -> Nat] :
           /\ t[1] = 0 /\ \A i \in 1 .. n + 1 : t[i + 1] = t[i] + u[i]
           /\ Total(u) = t[(n + 1) + 1]
  BY <1>2, TotalIs
<1> DEFINE S == {k \in Nat : k <= n => t[k + 1] = s[k + 1]}
<1>4. 0 \in S
  BY <1>1, <1>3
<1>5. ASSUME NEW k \in Nat, k \in S PROVE k + 1 \in S
  <2> SUFFICES ASSUME k + 1 <= n PROVE t[(k + 1) + 1] = s[(k + 1) + 1]
    OBVIOUS
  <2>1. k + 1 \in 1 .. n /\ k + 1 \in 1 .. n + 1 /\ t[k + 1] = s[k + 1]
    BY <1>5
  <2>2. t[(k + 1) + 1] = t[k + 1] + u[k + 1] /\ s[(k + 1) + 1] = s[k + 1] + w[k + 1]
    BY <1>1, <1>3, <2>1
  <2>3. u[k + 1] = w[k + 1]
    BY <2>1
  <2>4. QED BY <2>1, <2>2, <2>3
<1>6. \A k \in Nat : k \in S
  <2> HIDE DEF S
  <2>1. QED BY <1>4, <1>5, SetInduction
<1>7. t[n + 1] = s[n + 1]
  BY <1>6
<1>8. t[(n + 1) + 1] = t[n + 1] + u[n + 1]
  BY <1>3
<1>9. QED BY <1>1, <1>3, <1>7, <1>8

(* One number less at the front.                                           *)
LEMMA TotalTail ==
    ASSUME NEW n \in Nat, NEW w \in [1 .. n + 1 -> Nat], NEW u \in [1 .. n -> Nat],
           \A i \in 1 .. n : u[i] = w[i + 1]
    PROVE  Total(w) = w[1] + Total(u)
<1>1. PICK t \in [1 .. n + 1 -> Nat] :
           /\ t[1] = 0 /\ \A i \in 1 .. n : t[i + 1] = t[i] + u[i]
           /\ Total(u) = t[n + 1]
  BY TotalIs
<1>2. n + 1 \in Nat
  OBVIOUS
<1>3. PICK s \in [1 .. (n + 1) + 1 -> Nat] :
           /\ s[1] = 0 /\ \A i \in 1 .. n + 1 : s[i + 1] = s[i] + w[i]
           /\ Total(w) = s[(n + 1) + 1]
  BY <1>2, TotalIs
<1> DEFINE S == {k \in Nat : k <= n => s[(k + 1) + 1] = w[1] + t[k + 1]}
<1>4. 0 \in S
  <2>1. 1 \in 1 .. n + 1
    OBVIOUS
  <2>2. s[1 + 1] = s[1] + w[1]
    BY <1>3, <2>1
  <2>3. w[1] \in Nat /\ t[1] = 0 /\ s[1] = 0
    BY <1>1, <1>3, <2>1
  <2>4. s[1 + 1] = w[1] + t[1]
    BY <2>2, <2>3
  <2>5. QED BY <2>4
<1>5. ASSUME NEW k \in Nat, k \in S PROVE k + 1 \in S
  <2> SUFFICES ASSUME k + 1 <= n PROVE s[((k + 1) + 1) + 1] = w[1] + t[(k + 1) + 1]
    OBVIOUS
  <2>1. k + 1 \in 1 .. n /\ (k + 1) + 1 \in 1 .. n + 1 /\ s[(k + 1) + 1] = w[1] + t[k + 1]
    BY <1>5
  <2>2. s[((k + 1) + 1) + 1] = s[(k + 1) + 1] + w[(k + 1) + 1] /\ t[(k + 1) + 1] = t[k + 1] + u[k + 1]
    BY <1>1, <1>3, <2>1
  <2>3. u[k + 1] = w[(k + 1) + 1]
    BY <2>1
  <2>4. PICK a \in Nat, b \in Nat, c \in Nat : a = w[1] /\ b = t[k + 1] /\ c = u[k + 1]
    <3>1. 1 \in 1 .. n + 1 /\ k + 1 \in 1 .. n + 1
      BY <2>1
    <3>2. QED BY <2>1, <3>1
  <2>5. (a + b) + c = a + (b + c)
    OBVIOUS
  <2>6. QED BY <2>1, <2>2, <2>3, <2>4, <2>5
<1>6. \A k \in Nat : k \in S
  <2> HIDE DEF S
  <2>1. QED BY <1>4, <1>5, SetInduction
<1>7. s[(n + 1) + 1] = w[1] + t[n + 1]
  BY <1>6
<1>8. QED BY <1>1, <1>3, <1>7

-----------------------------------------------------------------------------
(* Queues of events.  Nothing is assumed of the header that routing gives  *)
(* an event.                                                               *)
NicEvents == [route : Routes, seq : Nat]

NetEvent(ev) == /\ ev = [route |-> ev.route, seq |-> ev.seq, h |-> ev.h]
                /\ ev.route \in Routes /\ ev.seq \in Nat

NetQueue(q) == /\ q \in Seq({q[i] : i \in DOMAIN q})
               /\ \A i \in DOMAIN q : NetEvent(q[i])

(* The VN of a route.                                                      *)
LEMMA RouteVN ==
    ASSUME NEW rt \in Routes
    PROVE  /\ rt[3] \in VNs /\ rt[1] \in Endpoints /\ rt[2] \in Endpoints /\ Flits[rt[3]] \in Nat \ {0}
           /\ Flits[rt[3]] <= RouterIn
BY LinkAssumption, BufferAssumption DEF VNs

(* A packet has one flit or more, and fits in a router's buffer.           *)
LEMMA SizeType ==
    ASSUME NEW ev, ev.route \in Routes
    PROVE  Size(ev) \in Nat \ {0} /\ VN(ev) \in VNs /\ Size(ev) <= RouterIn
BY RouteVN DEF Size, VN

(* What is in a queue.                                                     *)
LEMMA NetQueueFacts ==
    ASSUME NEW q, NetQueue(q)
    PROVE  /\ Len(q) \in Nat /\ DOMAIN q = 1 .. Len(q) /\ (q = <<>> <=> Len(q) = 0)
           /\ \A i \in 1 .. Len(q) : NetEvent(q[i])
           /\ q # <<>> => Head(q) = q[1] /\ NetEvent(Head(q))
<1>1. PICK S : S = {q[i] : i \in DOMAIN q}
  OBVIOUS
<1>2. q \in Seq(S)
  BY <1>1 DEF NetQueue
<1>3. Len(q) \in Nat /\ DOMAIN q = 1 .. Len(q) /\ (q = <<>> <=> Len(q) = 0)
  BY <1>2
<1>4. \A i \in 1 .. Len(q) : NetEvent(q[i])
  BY <1>3 DEF NetQueue
<1>5. q # <<>> => Head(q) = q[1]
  BY <1>2
<1>6. q # <<>> => 1 \in 1 .. Len(q)
  BY <1>3
<1>7. QED BY <1>3, <1>4, <1>5, <1>6

(* A sequence of events, by its elements. *)
LEMMA NetQueueIs ==
    ASSUME NEW S, NEW q \in Seq(S), \A i \in 1 .. Len(q) : NetEvent(q[i])
    PROVE  NetQueue(q)
<1>1. Len(q) \in Nat /\ DOMAIN q = 1 .. Len(q)
  OBVIOUS
<1>2. PICK T : T = {q[i] : i \in DOMAIN q}
  OBVIOUS
<1>3. \A i \in 1 .. Len(q) : q[i] \in T
  BY <1>1, <1>2
<1>4. q \in [1 .. Len(q) -> T]
  <2>1. q = [i \in 1 .. Len(q) |-> q[i]]
    BY <1>1
  <2>2. QED BY <1>3, <2>1
<1>5. q \in Seq(T)
  BY <1>1, <1>4, LenIs
<1>6. QED BY <1>1, <1>2, <1>5 DEF NetQueue

(* The empty queue.                                                        *)
LEMMA NetEmpty == NetQueue(<<>>)
<1>1. <<>> \in Seq({0}) /\ Len(<<>>) = 0
  OBVIOUS
<1>2. \A i \in 1 .. Len(<<>>) : NetEvent(<<>>[i])
  BY <1>1
<1>3. QED BY <1>1, <1>2, NetQueueIs

(* A queue without its head.                                               *)
LEMMA NetTail ==
    ASSUME NEW q, NetQueue(q), q # <<>>
    PROVE  /\ NetQueue(Tail(q)) /\ Len(Tail(q)) = Len(q) - 1
           /\ \A i \in 1 .. Len(q) - 1 : Tail(q)[i] = q[i + 1]
<1>1. PICK S : S = {q[i] : i \in DOMAIN q}
  OBVIOUS
<1>2. q \in Seq(S)
  BY <1>1 DEF NetQueue
<1>3. /\ Tail(q) \in Seq(S) /\ Len(Tail(q)) = Len(q) - 1 /\ Len(q) \in Nat
      /\ \A i \in 1 .. Len(q) - 1 : Tail(q)[i] = q[i + 1]
  BY <1>2
<1>4. \A i \in 1 .. Len(Tail(q)) : NetEvent(Tail(q)[i])
  BY <1>3, NetQueueFacts
<1>5. QED BY <1>3, <1>4, NetQueueIs

(* A queue and one more event.                                             *)
LEMMA NetAppend ==
    ASSUME NEW q, NetQueue(q), NEW ev, NetEvent(ev)
    PROVE  /\ NetQueue(Append(q, ev)) /\ Len(Append(q, ev)) = Len(q) + 1
           /\ \A i \in 1 .. Len(q) : Append(q, ev)[i] = q[i]
           /\ Append(q, ev)[Len(q) + 1] = ev
           /\ Append(q, ev) # <<>>
           /\ Head(Append(q, ev)) = IF q = <<>> THEN ev ELSE Head(q)
<1>1. PICK S : S = {q[i] : i \in DOMAIN q} \cup {ev}
  OBVIOUS
<1>2. q \in Seq(S) /\ ev \in S /\ Len(q) \in Nat
  <2>1. PICK T : T = {q[i] : i \in DOMAIN q}
    OBVIOUS
  <2>2. q \in Seq(T) /\ T \subseteq S
    BY <1>1, <2>1 DEF NetQueue
  <2>3. q \in [1 .. Len(q) -> T] /\ Len(q) \in Nat
    BY <2>2
  <2>4. q \in [1 .. Len(q) -> S]
    BY <2>2, <2>3
  <2>5. QED BY <1>1, <2>3, <2>4, LenIs
<1>3. PICK u : u = Append(q, ev)
  OBVIOUS
<1>4. /\ u \in Seq(S) /\ Len(u) = Len(q) + 1 /\ u # <<>>
      /\ \A i \in 1 .. Len(q) : u[i] = q[i]
      /\ u[Len(q) + 1] = ev /\ Head(u) = u[1]
  BY <1>2, <1>3
<1>5. \A i \in 1 .. Len(u) : NetEvent(u[i])
  <2>1. \A i \in 1 .. Len(q) : NetEvent(u[i])
    BY <1>4, NetQueueFacts
  <2>2. QED BY <1>2, <1>4, <2>1
<1>6. NetQueue(u)
  BY <1>4, <1>5, NetQueueIs
<1>7. Head(u) = IF q = <<>> THEN ev ELSE Head(q)
  <2>1. CASE q = <<>>
    BY <1>2, <1>4, <2>1
  <2>2. CASE q # <<>>
    <3>1. Len(q) # 0 /\ Head(q) = q[1]
      BY <2>2, NetQueueFacts
    <3>2. 1 \in 1 .. Len(q)
      BY <1>2, <3>1
    <3>3. QED BY <1>4, <2>2, <3>1, <3>2
  <2>3. QED BY <2>1, <2>2
<1>8. QED BY <1>3, <1>4, <1>6, <1>7

(* Routing changes the header alone. *)
LEMMA RoutedIs ==
    ASSUME NEW port, NEW ev, NetEvent(ev)
    PROVE  /\ NetEvent(Routed(port, ev)) /\ Routed(port, ev).route = ev.route
           /\ Routed(port, ev).h = CHOOSE q \in route_packet(Alg, port[2], port[3], ev.h) : TRUE
<1>1. PICK x : x = CHOOSE q \in route_packet(Alg, port[2], port[3], ev.h) : TRUE
  OBVIOUS
<1>2. PICK rt, n, h : ev = [route |-> rt, seq |-> n, h |-> h] /\ rt \in Routes /\ n \in Nat
  BY DEF NetEvent
<1>3. Routed(port, ev) = [route |-> rt, seq |-> n, h |-> x]
  <2>1. Routed(port, ev) = [ev EXCEPT !.h = x]
    BY <1>1, Zenon DEF Routed
  <2>2. [ev EXCEPT !.h = x] = [route |-> rt, seq |-> n, h |-> x]
    BY <1>2
  <2>3. QED BY <2>1, <2>2
<1>4. QED BY <1>1, <1>2, <1>3 DEF NetEvent

(* RouteHead gives the first event its route and leaves the others alone.  *)
LEMMA RouteHeadIs ==
    ASSUME NEW port, NEW q, NetQueue(q)
    PROVE  /\ NetQueue(RouteHead(port, q)) /\ Len(RouteHead(port, q)) = Len(q)
           /\ \A i \in 1 .. Len(q) : RouteHead(port, q)[i] = IF i = 1 THEN Routed(port, q[1]) ELSE q[i]
<1>1. CASE q = <<>>
  <2>1. RouteHead(port, q) = q /\ Len(q) = 0
    BY <1>1, NetQueueFacts DEF RouteHead
  <2>2. QED BY <2>1
<1>2. CASE q # <<>>
  <2>1. PICK e : e = Routed(port, Head(q))
    OBVIOUS
  <2>2. PICK t : t = Tail(q)
    OBVIOUS
  <2>3. /\ Len(q) \in Nat \ {0} /\ Head(q) = q[1] /\ NetEvent(Head(q)) /\ NetQueue(t)
        /\ Len(t) = Len(q) - 1 /\ \A i \in 1 .. Len(q) - 1 : t[i] = q[i + 1]
    BY <1>2, <2>2, NetQueueFacts, NetTail
  <2>4. PICK T : T = {t[i] : i \in DOMAIN t}
    OBVIOUS
  <2>5. t \in Seq(T)
    BY <2>3, <2>4 DEF NetQueue
  <2>6. PICK S : S = T \cup {e}
    OBVIOUS
  <2>7. t \in Seq(S) /\ <<e>> \in Seq(S) /\ Len(<<e>>) = 1 /\ <<e>>[1] = e
    <3>1. t \in [1 .. Len(t) -> T] /\ Len(t) \in Nat
      BY <2>5
    <3>2. t \in [1 .. Len(t) -> S]
      BY <2>6, <3>1
    <3>3. t \in Seq(S)
      BY <3>1, <3>2, LenIs
    <3>4. e \in S
      BY <2>6
    <3>5. QED BY <3>3, <3>4
  <2>8. PICK u : u = <<e>> \o t
    OBVIOUS
  <2>9. /\ u \in Seq(S) /\ Len(u) = 1 + Len(t)
        /\ \A i \in 1 .. 1 + Len(t) : u[i] = IF i <= 1 THEN <<e>>[i] ELSE t[i - 1]
    BY <2>7, <2>8, ConcatProperties
  <2>10. Len(u) = Len(q) /\ u = RouteHead(port, q)
    BY <1>2, <2>1, <2>2, <2>3, <2>8, <2>9 DEF RouteHead
  <2>11. ASSUME NEW i \in 1 .. Len(q) PROVE u[i] = IF i = 1 THEN e ELSE q[i]
    <3>1. CASE i = 1
      BY <2>3, <2>7, <2>9, <3>1
    <3>2. CASE i # 1
      <4>1. i - 1 \in 1 .. Len(q) - 1 /\ (i - 1) + 1 = i /\ i \in 1 .. 1 + Len(t) /\ ~(i <= 1)
        BY <2>3, <3>2
      <4>2. QED BY <2>3, <2>9, <3>2, <4>1
    <3>3. QED BY <3>1, <3>2
  <2>12. NetEvent(e)
    BY <2>1, <2>3, RoutedIs
  <2>13. \A i \in 1 .. Len(u) : NetEvent(u[i])
    BY <2>10, <2>11, <2>12, NetQueueFacts
  <2>14. NetQueue(u)
    BY <2>9, <2>13, NetQueueIs
  <2>15. QED BY <2>1, <2>3, <2>10, <2>11, <2>14
<1>3. QED BY <1>1, <1>2

(* A nic's queues. *)
LEMMA NicQueue ==
    ASSUME NEW S, NEW q \in Seq(S)
    PROVE  /\ Len(q) \in Nat /\ DOMAIN q = 1 .. Len(q)
           /\ q # <<>> => /\ Head(q) \in S /\ Head(q) = q[1] /\ Tail(q) \in Seq(S) /\ Len(Tail(q)) = Len(q) - 1
                          /\ Len(q) # 0 /\ \A i \in 1 .. Len(q) - 1 : Tail(q)[i] = q[i + 1]
           /\ \A ev \in S : /\ Append(q, ev) \in Seq(S) /\ Append(q, ev) # <<>>
                            /\ Len(Append(q, ev)) = Len(q) + 1
                            /\ \A i \in 1 .. Len(q) : Append(q, ev)[i] = q[i]
                            /\ Append(q, ev)[Len(q) + 1] = ev
                            /\ q # <<>> => Head(Append(q, ev)) = Head(q)
OBVIOUS

-----------------------------------------------------------------------------
(* The inductive invariant, part by part.  A LinkControl that sleeps has   *)
(* nothing to send, or (have_packets) had a head without credits, which is *)
(* still there.                                                            *)
NicEventsOf(v) == {ev \in NicEvents : VN(ev) = v}

NicShape(k) ==
    /\ k \in [output_queues : [VNs -> Seq(NicEvents)], credits : [VNs -> Int],
              router_credits : [VNs -> Int], input_queues : [VNs -> Seq(NicEvents)],
              waiting : BOOLEAN, have_packets : BOOLEAN, curr_out_vn : Nat, timers : Nat]
    /\ \A v \in VNs : k.output_queues[v] \in Seq(NicEventsOf(v))
    /\ k.timers = IF k.waiting THEN 0 ELSE 1

Blocked(k, v) == /\ k.output_queues[v] # <<>>
                 /\ k.router_credits[v] < Size(Head(k.output_queues[v]))

NicSleepOK(k) == k.waiting => IF k.have_packets THEN \E v \in VNs : Blocked(k, v)
                              ELSE \A v \in VNs : k.output_queues[v] = <<>>

NicOK(k) == NicShape(k) /\ NicSleepOK(k)

(* A port that sleeps has nothing that it could send. *)
PortRecord(a, b, x, c, w, t) ==
    [input_buf |-> a, output_buf |-> b, xbar_in_credits |-> x, port_out_credits |-> c,
     waiting |-> w, timers |-> t]

Buffers(a) == a = [v \in VCs |-> a[v]] /\ \A v \in VCs : NetQueue(a[v])

PortShape(k) ==
    /\ k = PortRecord(k.input_buf, k.output_buf, k.xbar_in_credits, k.port_out_credits,
                      k.waiting, k.timers)
    /\ Buffers(k.input_buf) /\ Buffers(k.output_buf)
    /\ k.xbar_in_credits \in [VCs -> Int] /\ k.port_out_credits \in [VCs -> Int]
    /\ k.waiting \in BOOLEAN /\ k.timers = IF k.waiting THEN 0 ELSE 1

PortSleepOK(port, k) == k.waiting => \A v \in VCs :
    k.output_buf[v] # <<>> =>
        ~(k.port_out_credits[CreditVC(port, v, Head(k.output_buf[v]))] >= Size(Head(k.output_buf[v])))

PortOK(port, k) == PortShape(k) /\ PortSleepOK(port, k)

(* The fields of a port.                                                   *)
LEMMA RecordFields ==
    ASSUME NEW a, NEW b, NEW x, NEW c, NEW w, NEW t, NEW k, k = PortRecord(a, b, x, c, w, t)
    PROVE  /\ k.input_buf = a /\ k.output_buf = b /\ k.xbar_in_credits = x /\ k.port_out_credits = c
           /\ k.waiting = w /\ k.timers = t
BY DEF PortRecord

(* A port that is woken has a timer.                                       *)
LEMMA WokenPort ==
    ASSUME NEW port, NEW k, PortShape(k)
    PROVE  /\ PortOK(port, Woken(k))
           /\ Woken(k).input_buf = k.input_buf /\ Woken(k).output_buf = k.output_buf
           /\ Woken(k).xbar_in_credits = k.xbar_in_credits
           /\ Woken(k).port_out_credits = k.port_out_credits
<1>1. PICK a, b, x, c, w, t :
          /\ k = PortRecord(a, b, x, c, w, t) /\ w \in BOOLEAN /\ t = IF w THEN 0 ELSE 1
          /\ a = k.input_buf /\ b = k.output_buf /\ x = k.xbar_in_credits /\ c = k.port_out_credits
          /\ w = k.waiting /\ t = k.timers
  BY DEF PortShape
<1>2. Woken(k) = PortRecord(a, b, x, c, FALSE, 1)
  <2>1. CASE w = TRUE
    <3>1. k.waiting = TRUE /\ k.timers = 0
      BY <1>1, <2>1
    <3>2. Woken(k) = [k EXCEPT !.timers = 1, !.waiting = FALSE]
      BY <3>1 DEF Woken
    <3>3. [k EXCEPT !.timers = 1, !.waiting = FALSE] = PortRecord(a, b, x, c, FALSE, 1)
      <4>1. PICK no, one : no = FALSE /\ one = 1
        OBVIOUS
      <4>2. k = PortRecord(a, b, x, c, w, t)
        BY <1>1
      <4>3. [k EXCEPT !.timers = one, !.waiting = no] = PortRecord(a, b, x, c, no, one)
        <5>1. [k EXCEPT !.timers = one, !.waiting = no] = [[k EXCEPT !.timers = one] EXCEPT !.waiting = no]
          OBVIOUS
        <5>2. [k EXCEPT !.timers = one] = PortRecord(a, b, x, c, w, one)
          BY <4>2 DEF PortRecord
        <5>3. [PortRecord(a, b, x, c, w, one) EXCEPT !.waiting = no] = PortRecord(a, b, x, c, no, one)
          BY DEF PortRecord
        <5>4. QED BY <5>1, <5>2, <5>3
      <4>4. QED BY <4>1, <4>3, Zenon
    <3>4. QED BY <3>2, <3>3
  <2>2. CASE w = FALSE
    <3>1. Woken(k) = k
      BY <1>1, <2>2 DEF Woken
    <3>2. QED BY <1>1, <2>2, <3>1
  <2>3. QED BY <1>1, <2>1, <2>2
<1>3. PICK z : z = Woken(k)
  OBVIOUS
<1>4. /\ z.input_buf = a /\ z.output_buf = b /\ z.xbar_in_credits = x /\ z.port_out_credits = c
      /\ z.waiting = FALSE /\ z.timers = 1
  BY <1>2, <1>3 DEF PortRecord
<1>5. PortShape(z)
  <2>1. z = PortRecord(z.input_buf, z.output_buf, z.xbar_in_credits, z.port_out_credits, z.waiting, z.timers)
    BY <1>2, <1>3, <1>4
  <2>2. Buffers(a) /\ Buffers(b) /\ x \in [VCs -> Int] /\ c \in [VCs -> Int]
    BY <1>1 DEF PortOK, PortShape
  <2>3. /\ Buffers(z.input_buf) /\ Buffers(z.output_buf)
        /\ z.xbar_in_credits \in [VCs -> Int] /\ z.port_out_credits \in [VCs -> Int]
        /\ z.waiting \in BOOLEAN /\ z.timers = IF z.waiting THEN 0 ELSE 1
    BY <1>4, <2>2
  <2>4. QED BY <2>1, <2>3 DEF PortShape
<1>6. PortSleepOK(port, z)
  BY <1>4 DEF PortSleepOK
<1>7. QED BY <1>1, <1>3, <1>4, <1>5, <1>6 DEF PortOK

(* A buffer after an event is put in, or taken out. *)
LEMMA BufferIn ==
    ASSUME NEW a, Buffers(a), NEW v, NEW ev, NetEvent(ev)
    PROVE  Buffers([a EXCEPT ![v] = Append(@, ev)])
<1>1. PICK b : b = [a EXCEPT ![v] = Append(@, ev)]
  OBVIOUS
<1>2. DOMAIN a = VCs
  BY DEF Buffers
<1>3. b = [w \in VCs |-> b[w]]
  BY <1>1, <1>2
<1>4. ASSUME NEW w \in VCs PROVE NetQueue(b[w])
  <2>1. NetQueue(a[w])
    BY DEF Buffers
  <2>2. CASE w = v
    BY <1>1, <1>2, <2>1, <2>2, NetAppend
  <2>3. CASE w # v
    BY <1>1, <1>2, <2>1, <2>3
  <2>4. QED BY <2>2, <2>3
<1>5. QED BY <1>1, <1>3, <1>4 DEF Buffers

(* A buffer of a VC is replaced.                                           *)
LEMMA BufferSet ==
    ASSUME NEW a, Buffers(a), NEW v \in VCs, NEW q, NetQueue(q)
    PROVE  Buffers([a EXCEPT ![v] = q])
<1>1. PICK b : b = [a EXCEPT ![v] = q]
  OBVIOUS
<1>2. DOMAIN a = VCs
  BY DEF Buffers
<1>3. b = [w \in VCs |-> b[w]]
  BY <1>1, <1>2
<1>4. ASSUME NEW w \in VCs PROVE NetQueue(b[w])
  BY <1>1, <1>2 DEF Buffers
<1>5. QED BY <1>1, <1>3, <1>4 DEF Buffers

(* The credits of a VC change.                                             *)
LEMMA CreditsType ==
    ASSUME NEW f \in [VCs -> Int], NEW v, NEW n \in Int
    PROVE  [f EXCEPT ![v] = @ + n] \in [VCs -> Int] /\ [f EXCEPT ![v] = @ - n] \in [VCs -> Int]
<1>1. CASE v \in VCs
  <2>1. f[v] + n \in Int /\ f[v] - n \in Int
    BY <1>1
  <2>2. QED BY <2>1
<1>2. CASE v \notin VCs
  <2>1. [f EXCEPT ![v] = @ + n] = f /\ [f EXCEPT ![v] = @ - n] = f
    BY <1>2
  <2>2. QED BY <2>1
<1>3. QED BY <1>1, <1>2

(* send: a packet enters the output buffer, and the output is woken.       *)
LEMMA SendPort ==
    ASSUME NEW port, NEW k, PortShape(k), NEW ev, NetEvent(ev)
    PROVE  /\ PortOK(port, send(k, ev))
           /\ send(k, ev).input_buf = k.input_buf
           /\ send(k, ev).port_out_credits = k.port_out_credits
           /\ \A v \in VCs :
                 /\ send(k, ev).output_buf[v] =
                       IF v = ev.h.vc THEN Append(k.output_buf[v], ev) ELSE k.output_buf[v]
                 /\ send(k, ev).xbar_in_credits[v] =
                       IF v = ev.h.vc THEN k.xbar_in_credits[v] - Size(ev) ELSE k.xbar_in_credits[v]
<1>1. PICK a, b, x, c, w, t :
          /\ k = PortRecord(a, b, x, c, w, t)
          /\ a = k.input_buf /\ b = k.output_buf /\ x = k.xbar_in_credits /\ c = k.port_out_credits
          /\ w = k.waiting /\ t = k.timers
  BY DEF PortShape
<1>2. PICK z : z = [k EXCEPT !.xbar_in_credits[ev.h.vc] = @ - Size(ev),
                             !.output_buf[ev.h.vc] = Append(@, ev)]
  OBVIOUS
<1>3. PICK y, d : y = [x EXCEPT ![ev.h.vc] = @ - Size(ev)] /\ d = [b EXCEPT ![ev.h.vc] = Append(@, ev)]
  OBVIOUS
<1>4. z = PortRecord(a, d, y, c, w, t)
  BY <1>1, <1>2, <1>3 DEF PortRecord
<1>5. /\ z.input_buf = a /\ z.output_buf = d /\ z.xbar_in_credits = y /\ z.port_out_credits = c
      /\ z.waiting = w /\ z.timers = t
  BY <1>4, RecordFields
<1>6. y \in [VCs -> Int] /\ Buffers(d)
  <2>1. Size(ev) \in Int
    BY SizeType DEF NetEvent
  <2>2. x \in [VCs -> Int] /\ Buffers(b)
    BY <1>1 DEF PortShape
  <2>3. QED BY <1>3, <2>1, <2>2, CreditsType, BufferIn
<1>7. PortShape(z)
  <2>1. z = PortRecord(z.input_buf, z.output_buf, z.xbar_in_credits, z.port_out_credits, z.waiting, z.timers)
    BY <1>4, <1>5
  <2>2. /\ Buffers(a) /\ c \in [VCs -> Int]
        /\ w \in BOOLEAN /\ t = IF w THEN 0 ELSE 1
    BY <1>1 DEF PortShape
  <2>3. /\ Buffers(z.input_buf) /\ Buffers(z.output_buf)
        /\ z.xbar_in_credits \in [VCs -> Int] /\ z.port_out_credits \in [VCs -> Int]
        /\ z.waiting \in BOOLEAN /\ z.timers = IF z.waiting THEN 0 ELSE 1
    BY <1>5, <1>6, <2>2
  <2>4. QED BY <2>1, <2>3 DEF PortShape
<1>8. send(k, ev) = Woken(z)
  BY <1>2 DEF send
<1>9. /\ PortOK(port, Woken(z))
      /\ Woken(z).input_buf = a /\ Woken(z).output_buf = d
      /\ Woken(z).xbar_in_credits = y /\ Woken(z).port_out_credits = c
  BY <1>5, <1>7, WokenPort
<1>10. DOMAIN b = VCs /\ DOMAIN x = VCs
  BY <1>1 DEF PortShape, Buffers
<1>11. \A v \in VCs : /\ d[v] = IF v = ev.h.vc THEN Append(b[v], ev) ELSE b[v]
                      /\ y[v] = IF v = ev.h.vc THEN x[v] - Size(ev) ELSE x[v]
  BY <1>3, <1>10
<1>12. QED BY <1>1, <1>8, <1>9, <1>11

(* recv: the head leaves, the next event is routed.                        *)
LEMMA RecvPort ==
    ASSUME NEW port, NEW k, PortOK(port, k), NEW v \in VCs, k.input_buf[v] # <<>>
    PROVE  /\ PortOK(port, recv(k, port, v))
           /\ \A w \in VCs : recv(k, port, v).input_buf[w] =
                 IF w = v THEN RouteHead(port, Tail(k.input_buf[v])) ELSE k.input_buf[w]
           /\ recv(k, port, v).output_buf = k.output_buf
           /\ recv(k, port, v).xbar_in_credits = k.xbar_in_credits
           /\ recv(k, port, v).port_out_credits = k.port_out_credits
<1>1. PICK a, b, x, c, w, t :
          /\ k = PortRecord(a, b, x, c, w, t)
          /\ a = k.input_buf /\ b = k.output_buf /\ x = k.xbar_in_credits /\ c = k.port_out_credits
          /\ w = k.waiting /\ t = k.timers
  BY DEF PortOK, PortShape
<1>2. PICK z : z = recv(k, port, v)
  OBVIOUS
<1>3. PICK d : d = [a EXCEPT ![v] = RouteHead(port, Tail(@))]
  OBVIOUS
<1>4. z = PortRecord(d, b, x, c, w, t)
  BY <1>1, <1>2, <1>3 DEF PortRecord, recv
<1>5. /\ z.input_buf = d /\ z.output_buf = b /\ z.xbar_in_credits = x /\ z.port_out_credits = c
      /\ z.waiting = w /\ z.timers = t
  BY <1>4, RecordFields
<1>6. Buffers(d)
  <2>1. Buffers(a) /\ a[v] # <<>>
    BY <1>1 DEF PortOK, PortShape
  <2>2. NetQueue(RouteHead(port, Tail(a[v])))
    BY <2>1, NetTail, RouteHeadIs DEF Buffers
  <2>3. d = [a EXCEPT ![v] = RouteHead(port, Tail(a[v]))]
    BY <1>3
  <2>4. QED BY <2>1, <2>2, <2>3, BufferSet
<1>7. PortShape(z)
  <2>1. z = PortRecord(z.input_buf, z.output_buf, z.xbar_in_credits, z.port_out_credits, z.waiting, z.timers)
    BY <1>4, <1>5
  <2>2. /\ Buffers(b) /\ x \in [VCs -> Int] /\ c \in [VCs -> Int]
        /\ w \in BOOLEAN /\ t = IF w THEN 0 ELSE 1
    BY <1>1 DEF PortOK, PortShape
  <2>3. /\ Buffers(z.input_buf) /\ Buffers(z.output_buf)
        /\ z.xbar_in_credits \in [VCs -> Int] /\ z.port_out_credits \in [VCs -> Int]
        /\ z.waiting \in BOOLEAN /\ z.timers = IF z.waiting THEN 0 ELSE 1
    BY <1>5, <1>6, <2>2
  <2>4. QED BY <2>1, <2>3 DEF PortShape
<1>8. PortSleepOK(port, z)
  BY <1>1, <1>5 DEF PortOK, PortSleepOK
<1>9. DOMAIN a = VCs
  BY <1>1 DEF PortOK, PortShape, Buffers
<1>10. \A u \in VCs : d[u] = IF u = v THEN RouteHead(port, Tail(a[v])) ELSE a[u]
  BY <1>3, <1>9
<1>11. QED BY <1>1, <1>2, <1>5, <1>7, <1>8, <1>10 DEF PortOK

-----------------------------------------------------------------------------
(* The ends of the links.                                                  *)
LEMMA EndsAre ==
    /\ \A n \in Nics : n[1] = "nic" /\ n[2] \in Endpoints /\ n = NicEnd(n[2])
    /\ \A x \in Ports : x[1] = "port" /\ x[2] \in Routers /\ x[3] \in PortNumbers /\ x = PortEnd(x[2], x[3])
    /\ \A r \in Routers, p \in PortNumbers : PortEnd(r, p) \in Ports /\ PortEnd(r, p)[2] = r /\ PortEnd(r, p)[3] = p
    /\ Nics \cap Ports = {} /\ HostPorts \subseteq Ports /\ Ends = Nics \cup Ports
<1>1. ASSUME NEW n \in Nics PROVE n[1] = "nic" /\ n[2] \in Endpoints /\ n = NicEnd(n[2])
  BY DEF Nics, NicEnd
<1>2. ASSUME NEW x \in Ports
      PROVE  x[1] = "port" /\ x[2] \in Routers /\ x[3] \in PortNumbers /\ x = PortEnd(x[2], x[3])
  BY DEF Ports, PortEnd, PortNumbers
<1>3. ASSUME NEW r \in Routers, NEW p \in PortNumbers
      PROVE  PortEnd(r, p) \in Ports /\ PortEnd(r, p)[2] = r /\ PortEnd(r, p)[3] = p
  BY DEF Ports, PortEnd, PortNumbers
<1>4. Nics \cap Ports = {}
  BY <1>1, <1>2
<1>5. HostPorts \subseteq Ports /\ Ends = Nics \cup Ports
  BY DEF HostPorts, Ends
<1>6. QED BY <1>1, <1>2, <1>3, <1>4, <1>5

(* The port that an endpoint hangs on is a host port.                      *)
LEMMA HostPortIs ==
    ASSUME NEW e \in Endpoints
    PROVE  HostPort(e) \in HostPorts /\ getEndpointID(Alg, HostPort(e)[2], HostPort(e)[3]) = e
<1>1. Alg \in Algorithms
  BY LinkAssumption DEF Algorithms, Grids
<1>2. PICK r \in Routers, p \in Nat : r = get_dest_router(e) /\ p = LocalPortStart(Alg) + (e % LocalPorts)
  BY <1>1, DestRouter, LocalPortRight
<1>3. isHostPort(Alg, p) /\ getEndpointID(Alg, r, p) = e
  BY <1>1, <1>2, LocalPortRight
<1>4. p \in PortNumbers
  <2>1. PICK s \in Nat, m \in Nat : s = LocalPortStart(Alg) /\ m = e % LocalPorts /\ m < LocalPorts
    BY <1>1, StartPorts, DestRouter, ShapeAssumption
  <2>2. QED BY <1>2, <2>1, ShapeAssumption DEF PortNumbers
<1>5. HostPort(e) = PortEnd(r, p)
  BY <1>2 DEF HostPort
<1>6. QED BY <1>2, <1>3, <1>4, <1>5, EndsAre DEF HostPorts

(* The endpoint behind a host port.                                        *)
LEMMA EndpointNumbers ==
    ASSUME NEW n \in Nat \ {0}, NEW l \in Nat \ {0}, NEW r \in Nat, r < n, NEW m \in Nat, m < l
    PROVE  /\ r * l \in Nat /\ n * l \in Nat /\ r * l + m \in Nat /\ r * l + m < n * l
           /\ (r * l + m) \div l = r /\ (r * l + m) % l = m
<1>1. PICK k \in Nat : n = (r + 1) + k
  <2>1. n - (r + 1) \in Nat /\ n = (r + 1) + (n - (r + 1))
    OBVIOUS
  <2>2. QED BY <2>1
<1>2. PICK a \in Nat, b \in Nat : a = l * r /\ b = l * k
  BY MulProperties
<1>3. l * n = (a + l) + b
  <2>1. r + 1 \in Nat
    OBVIOUS
  <2>2. l * n = l * (r + 1) + l * k
    BY <1>1, <2>1, MulProperties
  <2>3. l * (r + 1) = l * r + l
    OBVIOUS
  <2>4. QED BY <1>2, <2>2, <2>3
<1>4. r * l = a /\ n * l = l * n
  BY <1>2, MulProperties
<1>5. a + m < (a + l) + b /\ a + m \in Nat
  OBVIOUS
<1>6. (a + m) \div l = r /\ (a + m) % l = m
  BY <1>2, <1>5, DivUnique
<1>7. QED BY <1>2, <1>3, <1>4, <1>5, <1>6

(* ... and the host port of that endpoint is this one.                     *)
LEMMA HostOf ==
    ASSUME NEW x \in HostPorts
    PROVE  /\ getEndpointID(Alg, x[2], x[3]) \in Endpoints
           /\ HostPort(getEndpointID(Alg, x[2], x[3])) = x
<1>1. Alg \in Algorithms
  BY LinkAssumption DEF Algorithms, Grids
<1>2. PICK r \in Routers, p \in PortNumbers : x = PortEnd(r, p) /\ r = x[2] /\ p = x[3] /\ isHostPort(Alg, p)
  BY EndsAre DEF HostPorts
<1>3. PICK s \in Nat, l \in Nat \ {0}, n \in Nat \ {0} :
          s = LocalPortStart(Alg) /\ l = LocalPorts /\ n = Below[Len(Shape) + 1]
  <2>1. LocalPortStart(Alg) \in Nat /\ LocalPorts \in Nat \ {0} /\ Below[Len(Shape) + 1] \in Nat \ {0}
    BY <1>1, StartPorts, ShapeAssumption, BelowDef, ShapeType
  <2>2. QED BY <2>1
<1>4. PICK m \in Nat : m = p - s /\ m < l /\ p = s + m /\ p \in Nat
  <2>1. p \in s .. s + l - 1
    BY <1>2, <1>3 DEF PortNumbers, isHostPort
  <2>2. p - s \in Nat /\ p - s < l /\ p = s + (p - s) /\ p \in Nat
    BY <1>3, <2>1
  <2>3. QED BY <2>2
<1>5. r \in Nat /\ r < n
  BY <1>3, RouterIsNat DEF Routers
<1>6. PICK e \in Nat : e = r * l + m /\ r * l \in Nat /\ e < n * l /\ n * l \in Nat /\ e \div l = r /\ e % l = m
  <2>1. m < l /\ r < n
    BY <1>4, <1>5
  <2>2. PICK i \in Nat : i = r
    BY <1>5
  <2>3. i < n
    BY <2>1, <2>2
  <2>4. /\ i * l \in Nat /\ n * l \in Nat /\ i * l + m \in Nat /\ i * l + m < n * l
        /\ (i * l + m) \div l = i /\ (i * l + m) % l = m
    BY <2>1, <2>3, EndpointNumbers
  <2>5. QED BY <2>2, <2>4
<1>7. getEndpointID(Alg, r, p) = e
  <2>1. r * l + p - s = r * l + m
    BY <1>3, <1>4, <1>6
  <2>2. QED BY <1>3, <1>6, <2>1 DEF getEndpointID
<1>9. e \in Endpoints
  <2>1. Endpoints = 0 .. n * l - 1
    BY <1>3 DEF Endpoints
  <2>2. QED BY <1>6, <2>1
<1>10. e \div LocalPorts = r /\ e % LocalPorts = m
  BY <1>3, <1>6
<1>11. HostPort(e) = PortEnd(r, p)
  BY <1>3, <1>4, <1>10 DEF HostPort, get_dest_router
<1>12. QED BY <1>2, <1>7, <1>9, <1>11

(* A link has two ends, of the kinds that belong together. *)
LEMMA OtherIs ==
    ASSUME NEW x \in Ends
    PROVE  /\ Other[x] \in Ends /\ Other[Other[x]] = x
           /\ x \in Nics <=> Other[x] \in HostPorts
           /\ x \in HostPorts <=> Other[x] \in Nics
<1>1. Alg \in Algorithms
  BY LinkAssumption DEF Algorithms, Grids
<1>2. ASSUME NEW n \in Nics PROVE Other[n] = HostPort(n[2]) /\ Other[n] \in HostPorts
  <2>1. n \in Ends /\ n[1] = "nic" /\ n[2] \in Endpoints
    BY EndsAre
  <2>2. Other[n] = HostPort(n[2])
    BY <2>1, EndsAre DEF Other, isHost
  <2>3. QED BY <2>1, <2>2, HostPortIs
<1>3. ASSUME NEW y \in HostPorts
      PROVE  Other[y] = NicEnd(getEndpointID(Alg, y[2], y[3])) /\ Other[y] \in Nics
  <2>1. y \in Ends /\ y[1] # "nic"
    BY EndsAre
  <2>2. Other[y] = NicEnd(getEndpointID(Alg, y[2], y[3]))
    BY <2>1 DEF Other, isHost
  <2>3. QED BY <2>2, HostOf DEF Nics
<1>4. ASSUME NEW y \in Ports \ HostPorts
      PROVE  Other[y] \in Ports \ HostPorts /\ Other[Other[y]] = y
  <2>1. ASSUME NEW z \in Ports \ HostPorts
        PROVE  /\ Other[z] = PortEnd(Peer(Alg, z[2], z[3])[1], Peer(Alg, z[2], z[3])[2])
               /\ z[3] \in 0 .. LocalPortStart(Alg) - 1
    <3>1. z \in Ends /\ z[1] # "nic" /\ ~isHost(z) /\ z[3] \in PortNumbers /\ ~isHostPort(Alg, z[3])
      BY EndsAre DEF isHost, HostPorts
    <3>2. LocalPortStart(Alg) \in Nat
      BY <1>1, StartPorts
    <3>3. z[3] \in 0 .. LocalPortStart(Alg) - 1
      BY <3>1, <3>2, ShapeAssumption DEF PortNumbers, isHostPort
    <3>4. QED BY <3>1, <3>3 DEF Other
  <2>2. PICK r \in Routers, p \in PortNumbers : y = PortEnd(r, p) /\ r = y[2] /\ p = y[3]
    BY EndsAre
  <2>3. PICK o : o = Peer(Alg, r, p)
    OBVIOUS
  <2>4. /\ o \in Routers \X (0 .. LocalPortStart(Alg) - 1)
        /\ Peer(Alg, o[1], o[2]) = <<r, p>>
    BY <1>1, <2>1, <2>2, <2>3, LinksAreTwoWay
  <2>5. PICK z : z = PortEnd(o[1], o[2])
    OBVIOUS
  <2>6. z \in Ports \ HostPorts /\ z[2] = o[1] /\ z[3] = o[2]
    <3>1. LocalPortStart(Alg) \in Nat
      BY <1>1, StartPorts
    <3>2. o[1] \in Routers /\ o[2] \in PortNumbers /\ ~isHostPort(Alg, o[2])
      BY <2>4, <3>1, ShapeAssumption DEF PortNumbers, isHostPort
    <3>3. QED BY <2>5, <3>2, EndsAre DEF HostPorts
  <2>7. Other[y] = z
    BY <2>1, <2>2, <2>3, <2>5
  <2>8. Other[z] = PortEnd(r, p)
    BY <2>1, <2>4, <2>6
  <2>9. QED BY <2>2, <2>6, <2>7, <2>8
<1>5. CASE x \in Nics
  <2>1. Other[x] \in HostPorts /\ Other[x] = HostPort(x[2]) /\ x[2] \in Endpoints /\ x = NicEnd(x[2])
    BY <1>2, <1>5, EndsAre
  <2>2. Other[Other[x]] = NicEnd(x[2])
    BY <1>3, <2>1, HostPortIs
  <2>3. QED BY <1>5, <2>1, <2>2, EndsAre
<1>6. CASE x \in HostPorts
  <2>1. PICK e \in Endpoints : e = getEndpointID(Alg, x[2], x[3]) /\ HostPort(e) = x
    BY <1>6, HostOf
  <2>2. Other[x] = NicEnd(e) /\ NicEnd(e) \in Nics /\ NicEnd(e)[2] = e
    BY <1>3, <1>6, <2>1 DEF NicEnd
  <2>3. Other[Other[x]] = x
    BY <1>2, <2>1, <2>2
  <2>4. QED BY <1>6, <2>2, <2>3, EndsAre
<1>7. CASE x \in Ports \ HostPorts
  BY <1>4, <1>7, EndsAre
<1>8. QED BY <1>5, <1>6, <1>7, EndsAre

-----------------------------------------------------------------------------
CreditEvents == [vc : Nat, credits : Nat]

LinksOK ==
    /\ credit \in [Ends -> Seq(CreditEvents)]
    /\ data = [x \in Ends |-> data[x]]
    /\ \A x \in Nics \cup HostPorts : data[x] \in Seq(NicEvents)
    /\ \A x \in Ports \ HostPorts : NetQueue(data[x])
NicsOK  == lc = [n \in Nics |-> lc[n]] /\ \A n \in Nics : NicOK(lc[n])
PortsOK == pc = [x \in Ports |-> pc[x]] /\ \A x \in Ports : PortOK(x, pc[x])
SentOK  == sent \in [Routes -> Nat]
RouterRecord(c, n, i, o) ==
    [clocking |-> c, vcs_with_data |-> n, in_port_busy |-> i, out_port_busy |-> o]
RoutersOK ==
    /\ rtr = [r \in Routers |-> rtr[r]]
    /\ \A r \in Routers :
          /\ rtr[r].clocking \in BOOLEAN
          /\ rtr[r] = RouterRecord(rtr[r].clocking, rtr[r].vcs_with_data,
                                   rtr[r].in_port_busy, rtr[r].out_port_busy)

IInv == LinksOK /\ NicsOK /\ PortsOK /\ SentOK /\ RoutersOK /\ RouterAwake

(* An endpoint's output that is woken has a timer.                         *)
LEMMA NicWoken ==
    ASSUME NEW k, NicShape(k)
    PROVE  /\ NicOK(Woken(k))
           /\ Woken(k).output_queues = k.output_queues /\ Woken(k).credits = k.credits
           /\ Woken(k).router_credits = k.router_credits /\ Woken(k).input_queues = k.input_queues
<1>1. PICK z : z = Woken(k)
  OBVIOUS
<1>2. CASE k.waiting = TRUE
  <2>1. k.timers = 0
    BY <1>2 DEF NicShape
  <2>2. z = [k EXCEPT !.timers = 1, !.waiting = FALSE]
    BY <1>1, <1>2, <2>1 DEF Woken
  <2>3. /\ z \in [output_queues : [VNs -> Seq(NicEvents)], credits : [VNs -> Int],
              router_credits : [VNs -> Int], input_queues : [VNs -> Seq(NicEvents)],
              waiting : BOOLEAN, have_packets : BOOLEAN, curr_out_vn : Nat, timers : Nat]
        /\ z.waiting = FALSE /\ z.timers = 1
        /\ z.output_queues = k.output_queues /\ z.credits = k.credits
        /\ z.router_credits = k.router_credits /\ z.input_queues = k.input_queues
    BY <2>2 DEF NicShape
  <2>4. NicOK(z)
    BY <2>3 DEF NicOK, NicShape, NicSleepOK
  <2>5. QED BY <1>1, <2>3, <2>4
<1>3. CASE k.waiting = FALSE
  <2>1. z = k
    BY <1>1, <1>3 DEF Woken
  <2>2. NicSleepOK(k)
    BY <1>3 DEF NicSleepOK
  <2>3. QED BY <1>1, <2>1, <2>2 DEF NicOK
<1>4. k.waiting \in BOOLEAN
  BY DEF NicShape
<1>5. QED BY <1>2, <1>3, <1>4

(* The size of an event outside the network.                               *)
LEMMA NicEventSize ==
    ASSUME NEW ev \in NicEvents
    PROVE  Size(ev) \in Nat \ {0} /\ VN(ev) \in VNs /\ Size(ev) <= RouterIn /\ ev \in NicEventsOf(VN(ev))
BY SizeType DEF NicEvents, NicEventsOf

Others(n) == \A m \in Nics \ {n} : lc'[m] = lc[m]

(* A step of one LinkControl. *)
LEMMA NicStep ==
    ASSUME NicsOK, NEW n \in Nics, NicOK(lc'[n]), Others(n), lc' = [m \in Nics |-> lc'[m]]
    PROVE  NicsOK'
<1>1. \A m \in Nics : NicOK(lc'[m])
  BY DEF NicsOK, Others
<1>2. QED BY <1>1 DEF NicsOK

(* LinkControl::send.                                                      *)
LEMMA LCSendEffect ==
    ASSUME NicsOK, NEW n \in Nics, NEW ev \in NicEvents, LCSend(n, ev)
    PROVE  /\ NicsOK' /\ Others(n) /\ data' = data /\ credit' = credit
           /\ lc'[n].router_credits = lc[n].router_credits
           /\ lc'[n].input_queues = lc[n].input_queues
           /\ \A v \in VNs :
                 /\ lc'[n].credits[v] =
                       IF v = VN(ev) THEN lc[n].credits[v] - Size(ev) ELSE lc[n].credits[v]
                 /\ lc'[n].output_queues[v] =
                       IF v = VN(ev) THEN Append(lc[n].output_queues[v], ev) ELSE lc[n].output_queues[v]
<1>1. PICK k, u, s : k = lc[n] /\ u = VN(ev) /\ s = Size(ev)
  OBVIOUS
<1>2. NicOK(k) /\ u \in VNs /\ s \in Nat /\ ev \in NicEventsOf(u) /\ DOMAIN lc = Nics
  BY <1>1, NicEventSize DEF NicsOK
<1>3. PICK q : q = [k EXCEPT !.credits[u] = @ - s, !.output_queues[u] = Append(@, ev)]
  OBVIOUS
<1>4. PICK c, o : c = [k.credits EXCEPT ![u] = @ - s] /\ o = [k.output_queues EXCEPT ![u] = Append(@, ev)]
  OBVIOUS
<1>5. /\ q = [k EXCEPT !.credits = c, !.output_queues = o]
  BY <1>3, <1>4
<1>6. /\ k \in [output_queues : [VNs -> Seq(NicEvents)], credits : [VNs -> Int],
              router_credits : [VNs -> Int], input_queues : [VNs -> Seq(NicEvents)],
              waiting : BOOLEAN, have_packets : BOOLEAN, curr_out_vn : Nat, timers : Nat]
      /\ \A v \in VNs : k.output_queues[v] \in Seq(NicEventsOf(v))
      /\ k.timers = IF k.waiting THEN 0 ELSE 1
  BY <1>2 DEF NicOK, NicShape
<1>7. /\ c \in [VNs -> Int] /\ o \in [VNs -> Seq(NicEvents)]
      /\ \A v \in VNs : /\ c[v] = IF v = u THEN k.credits[v] - s ELSE k.credits[v]
                        /\ o[v] = IF v = u THEN Append(k.output_queues[v], ev) ELSE k.output_queues[v]
  <2>1. k.credits \in [VNs -> Int] /\ k.output_queues \in [VNs -> Seq(NicEvents)]
    BY <1>6
  <2>2. k.credits[u] - s \in Int /\ Append(k.output_queues[u], ev) \in Seq(NicEvents)
    BY <1>2, <2>1
  <2>3. QED BY <1>2, <1>4, <2>1, <2>2
<1>8. ASSUME NEW v \in VNs PROVE o[v] \in Seq(NicEventsOf(v))
  <2>1. k.output_queues[v] \in Seq(NicEventsOf(v))
    BY <1>6
  <2>2. CASE v = u
    <3>1. Append(k.output_queues[v], ev) \in Seq(NicEventsOf(v))
      BY <1>2, <2>1, <2>2, NicQueue
    <3>2. QED BY <1>7, <2>2, <3>1
  <2>3. CASE v # u
    BY <1>7, <2>1, <2>3
  <2>4. QED BY <2>2, <2>3
<1>9. /\ q.output_queues = o /\ q.credits = c /\ q.router_credits = k.router_credits
      /\ q.input_queues = k.input_queues /\ q.waiting = k.waiting
      /\ q.have_packets = k.have_packets /\ q.timers = k.timers
  BY <1>5, <1>6
<1>10. NicShape(q)
  <2>1. q \in [output_queues : [VNs -> Seq(NicEvents)], credits : [VNs -> Int],
              router_credits : [VNs -> Int], input_queues : [VNs -> Seq(NicEvents)],
              waiting : BOOLEAN, have_packets : BOOLEAN, curr_out_vn : Nat, timers : Nat]
    BY <1>5, <1>6, <1>7
  <2>2. QED BY <1>6, <1>8, <1>9, <2>1 DEF NicShape
<1>11. lc' = [lc EXCEPT ![n] = IF k.have_packets THEN q ELSE Woken(q)] /\ data' = data /\ credit' = credit
  BY <1>1, <1>3 DEF LCSend
<1>12. lc'[n] = (IF k.have_packets THEN q ELSE Woken(q)) /\ Others(n) /\ lc' = [m \in Nics |-> lc'[m]]
  BY <1>2, <1>11 DEF Others
<1>13. /\ NicOK(lc'[n])
       /\ lc'[n].router_credits = k.router_credits /\ lc'[n].input_queues = k.input_queues
       /\ lc'[n].credits = c /\ lc'[n].output_queues = o
  <2>1. CASE k.have_packets
    <3>1. lc'[n] = q
      BY <1>12, <2>1
    <3>2. NicSleepOK(q)
      <4> SUFFICES ASSUME q.waiting PROVE \E v \in VNs : Blocked(q, v)
        BY <1>9, <2>1 DEF NicSleepOK
      <4>1. PICK v \in VNs : Blocked(k, v)
        BY <1>2, <1>9, <2>1 DEF NicOK, NicSleepOK
      <4>2. o[v] # <<>> /\ Head(o[v]) = Head(k.output_queues[v])
        <5>1. k.output_queues[v] # <<>> /\ k.output_queues[v] \in Seq(NicEvents)
          BY <1>6, <4>1 DEF Blocked
        <5>2. Append(k.output_queues[v], ev) # <<>> /\ Head(Append(k.output_queues[v], ev)) = Head(k.output_queues[v])
          BY <5>1, NicQueue
        <5>3. QED BY <1>7, <5>1, <5>2
      <4>3. Blocked(q, v)
        BY <1>9, <4>1, <4>2 DEF Blocked
      <4>4. QED BY <4>3
    <3>3. QED BY <1>9, <1>10, <3>1, <3>2 DEF NicOK
  <2>2. CASE ~k.have_packets
    BY <1>9, <1>10, <1>12, <2>2, NicWoken
  <2>3. QED BY <2>1, <2>2
<1>14. NicsOK'
  BY <1>12, <1>13, NicStep
<1>15. QED BY <1>1, <1>7, <1>11, <1>12, <1>13, <1>14

(* LinkControl::recv.                                                      *)
LEMMA LCRecvEffect ==
    ASSUME LinksOK, NicsOK, NEW n \in Nics, NEW v \in VNs, LCRecv(n, v)
    PROVE  /\ NicsOK' /\ Others(n) /\ data' = data
           /\ lc[n].input_queues[v] # <<>> /\ Head(lc[n].input_queues[v]) \in NicEvents
           /\ credit' = [x \in Ends |->
                 IF x = Other[n] THEN Append(credit[x], Credit(v, Size(Head(lc[n].input_queues[v]))))
                 ELSE credit[x]]
           /\ lc'[n].router_credits = lc[n].router_credits
           /\ lc'[n].credits = lc[n].credits
           /\ lc'[n].output_queues = lc[n].output_queues
           /\ \A u \in VNs : lc'[n].input_queues[u] =
                 IF u = v THEN Tail(lc[n].input_queues[u]) ELSE lc[n].input_queues[u]
<1>1. PICK k : k = lc[n]
  OBVIOUS
<1>2. NicOK(k) /\ DOMAIN lc = Nics /\ DOMAIN credit = Ends
  BY <1>1 DEF NicsOK, LinksOK
<1>3. PICK i : i = [k.input_queues EXCEPT ![v] = Tail(@)]
  OBVIOUS
<1>4. k.input_queues \in [VNs -> Seq(NicEvents)] /\ k.input_queues[v] # <<>>
  BY <1>1, <1>2 DEF NicOK, NicShape, LCRecv
<1>5. /\ i \in [VNs -> Seq(NicEvents)]
      /\ \A u \in VNs : i[u] = IF u = v THEN Tail(k.input_queues[u]) ELSE k.input_queues[u]
  <2>1. Tail(k.input_queues[v]) \in Seq(NicEvents)
    BY <1>4
  <2>2. QED BY <1>3, <1>4, <2>1
<1>6. PICK q : q = [k EXCEPT !.input_queues = i]
  OBVIOUS
<1>7. lc' = [lc EXCEPT ![n] = q] /\ data' = data
  BY <1>1, <1>3, <1>6 DEF LCRecv
<1>8. lc'[n] = q /\ Others(n) /\ lc' = [m \in Nics |-> lc'[m]]
  BY <1>2, <1>7 DEF Others
<1>9. /\ q.output_queues = k.output_queues /\ q.credits = k.credits /\ q.router_credits = k.router_credits
      /\ q.input_queues = i /\ q.waiting = k.waiting
      /\ q.have_packets = k.have_packets /\ q.timers = k.timers
  BY <1>2, <1>6 DEF NicOK, NicShape
<1>10. q \in [output_queues : [VNs -> Seq(NicEvents)], credits : [VNs -> Int],
              router_credits : [VNs -> Int], input_queues : [VNs -> Seq(NicEvents)],
              waiting : BOOLEAN, have_packets : BOOLEAN, curr_out_vn : Nat, timers : Nat]
  BY <1>2, <1>5, <1>6 DEF NicOK, NicShape
<1>11. NicOK(q)
  BY <1>2, <1>9, <1>10 DEF NicOK, NicShape, NicSleepOK, Blocked
<1>12. NicsOK'
  BY <1>8, <1>11, NicStep
<1>13. Head(k.input_queues[v]) \in NicEvents
  BY <1>4, NicQueue
<1>14. credit' = [x \in Ends |->
                 IF x = Other[n] THEN Append(credit[x], Credit(v, Size(Head(k.input_queues[v]))))
                 ELSE credit[x]]
  <2>1. Other[n] \in Ends
    BY OtherIs, EndsAre
  <2>2. PICK e : e = Credit(v, Size(Head(k.input_queues[v])))
    OBVIOUS
  <2>3. credit' = [credit EXCEPT ![Other[n]] = Append(@, e)]
    BY <1>1, <2>2 DEF LCRecv, sendCredit
  <2>4. QED BY <1>2, <2>1, <2>2, <2>3
<1>15. QED BY <1>1, <1>4, <1>5, <1>7, <1>8, <1>9, <1>12, <1>13, <1>14

NicRecord == [output_queues : [VNs -> Seq(NicEvents)], credits : [VNs -> Int],
              router_credits : [VNs -> Int], input_queues : [VNs -> Seq(NicEvents)],
              waiting : BOOLEAN, have_packets : BOOLEAN, curr_out_vn : Nat, timers : Nat]

(* The first credit on a link.                                             *)
LEMMA CreditQueue ==
    ASSUME LinksOK, NEW x \in Ends, credit[x] # <<>>
    PROVE  /\ credit[x] \in Seq(CreditEvents)
           /\ Head(credit[x]) \in CreditEvents /\ Tail(credit[x]) \in Seq(CreditEvents)
           /\ Head(credit[x]).credits \in Nat /\ Head(credit[x]).vc \in Nat
<1>1. credit[x] \in Seq(CreditEvents)
  BY DEF LinksOK
<1>2. Head(credit[x]) \in CreditEvents /\ Tail(credit[x]) \in Seq(CreditEvents)
  BY <1>1, NicQueue
<1>3. QED BY <1>1, <1>2 DEF CreditEvents

(* LinkControl::handle_input of a credit.                                  *)
LEMMA LCCreditEffect ==
    ASSUME LinksOK, NicsOK, NEW n \in Nics, LCCredit(n)
    PROVE  /\ NicsOK' /\ Others(n) /\ data' = data
           /\ credit[n] # <<>>
           /\ credit' = [x \in Ends |-> IF x = n THEN Tail(credit[x]) ELSE credit[x]]
           /\ lc'[n].input_queues = lc[n].input_queues
           /\ lc'[n].credits = lc[n].credits
           /\ lc'[n].output_queues = lc[n].output_queues
           /\ \A v \in VNs : lc'[n].router_credits[v] =
                 IF v = Head(credit[n]).vc THEN lc[n].router_credits[v] + Head(credit[n]).credits
                 ELSE lc[n].router_credits[v]
<1>1. PICK k, u, s : k = lc[n] /\ u = Head(credit[n]).vc /\ s = Head(credit[n]).credits
  OBVIOUS
<1>2. n \in Ends /\ credit[n] # <<>> /\ data' = data
  BY EndsAre DEF LCCredit
<1>3. NicOK(k) /\ s \in Nat /\ DOMAIN lc = Nics /\ DOMAIN credit = Ends
  BY <1>1, <1>2, CreditQueue DEF NicsOK, LinksOK
<1>4. PICK c : c = [k.router_credits EXCEPT ![u] = @ + s]
  OBVIOUS
<1>5. PICK q : q = [k EXCEPT !.router_credits = c]
  OBVIOUS
<1>6. k \in NicRecord /\ k.timers = IF k.waiting THEN 0 ELSE 1
  BY <1>3 DEF NicOK, NicShape, NicRecord
<1>7. /\ c \in [VNs -> Int]
      /\ \A v \in VNs : c[v] = IF v = u THEN k.router_credits[v] + s ELSE k.router_credits[v]
  <2>1. k.router_credits \in [VNs -> Int]
    BY <1>6 DEF NicRecord
  <2>2. CASE u \in VNs
    <3>1. k.router_credits[u] + s \in Int
      BY <1>3, <2>1, <2>2
    <3>2. QED BY <1>4, <2>1, <3>1
  <2>3. CASE u \notin VNs
    <3>1. c = k.router_credits
      BY <1>4, <2>1, <2>3
    <3>2. QED BY <2>1, <2>3, <3>1
  <2>4. QED BY <2>2, <2>3
<1>8. /\ q \in NicRecord /\ q.output_queues = k.output_queues /\ q.credits = k.credits
      /\ q.router_credits = c /\ q.input_queues = k.input_queues /\ q.waiting = k.waiting
      /\ q.timers = k.timers
  BY <1>5, <1>6, <1>7 DEF NicRecord
<1>9. NicShape(q)
  BY <1>3, <1>8 DEF NicOK, NicShape, NicRecord
<1>10. lc' = [lc EXCEPT ![n] = Woken(q)]
  <2>1. PICK e : e = [lc[n] EXCEPT !.router_credits[Head(credit[n]).vc] = @ + Head(credit[n]).credits]
    OBVIOUS
  <2>2. lc' = [lc EXCEPT ![n] = Woken(e)]
    BY <2>1, Zenon DEF LCCredit
  <2>3. [k EXCEPT !.router_credits[u] = @ + s] = q
    BY <1>4, <1>5
  <2>4. e = q
    BY <1>1, <2>1, <2>3
  <2>5. QED BY <2>2, <2>4
<1>11. lc'[n] = Woken(q) /\ Others(n) /\ lc' = [m \in Nics |-> lc'[m]]
  BY <1>3, <1>10 DEF Others
<1>12. /\ NicOK(Woken(q))
       /\ Woken(q).output_queues = k.output_queues /\ Woken(q).credits = k.credits
       /\ Woken(q).router_credits = c /\ Woken(q).input_queues = k.input_queues
  BY <1>8, <1>9, NicWoken
<1>13. NicsOK'
  BY <1>11, <1>12, NicStep
<1>14. credit' = [x \in Ends |-> IF x = n THEN Tail(credit[x]) ELSE credit[x]]
  BY <1>3 DEF LCCredit
<1>15. QED BY <1>1, <1>2, <1>7, <1>11, <1>12, <1>13, <1>14

(* LinkControl::handle_input of a packet.                                  *)
LEMMA LCPacketEffect ==
    ASSUME LinksOK, NicsOK, NEW n \in Nics, LCPacket(n)
    PROVE  /\ NicsOK' /\ Others(n) /\ credit' = credit
           /\ data[n] # <<>> /\ data[n] \in Seq(NicEvents) /\ Head(data[n]) \in NicEvents
           /\ data' = [x \in Ends |-> IF x = n THEN Tail(data[x]) ELSE data[x]]
           /\ lc'[n].router_credits = lc[n].router_credits
           /\ lc'[n].credits = lc[n].credits
           /\ lc'[n].output_queues = lc[n].output_queues
           /\ \A u \in VNs : lc'[n].input_queues[u] =
                 IF u = VN(Head(data[n])) THEN Append(lc[n].input_queues[u], Head(data[n]))
                 ELSE lc[n].input_queues[u]
<1>1. PICK k, ev, v : k = lc[n] /\ ev = Head(data[n]) /\ v = VN(ev)
  OBVIOUS
<1>2. data[n] # <<>> /\ data[n] \in Seq(NicEvents)
  BY DEF LCPacket, LinksOK
<1>3. ev \in NicEvents /\ v \in VNs
  BY <1>1, <1>2, NicQueue, NicEventSize
<1>4. NicOK(k) /\ DOMAIN lc = Nics /\ DOMAIN data = Ends
  BY <1>1 DEF NicsOK, LinksOK
<1>5. PICK i : i = [k.input_queues EXCEPT ![v] = Append(@, ev)]
  OBVIOUS
<1>6. k \in NicRecord
  BY <1>4 DEF NicOK, NicShape, NicRecord
<1>7. /\ i \in [VNs -> Seq(NicEvents)]
      /\ \A u \in VNs : i[u] = IF u = v THEN Append(k.input_queues[u], ev) ELSE k.input_queues[u]
  <2>1. k.input_queues \in [VNs -> Seq(NicEvents)]
    BY <1>6 DEF NicRecord
  <2>2. Append(k.input_queues[v], ev) \in Seq(NicEvents)
    BY <1>3, <2>1
  <2>3. QED BY <1>3, <1>5, <2>1, <2>2
<1>8. PICK q : q = [k EXCEPT !.input_queues = i]
  OBVIOUS
<1>9. /\ q \in NicRecord /\ q.output_queues = k.output_queues /\ q.credits = k.credits
      /\ q.router_credits = k.router_credits /\ q.input_queues = i /\ q.waiting = k.waiting
      /\ q.have_packets = k.have_packets /\ q.timers = k.timers
  BY <1>6, <1>7, <1>8 DEF NicRecord
<1>10. NicOK(q)
  BY <1>4, <1>9 DEF NicOK, NicShape, NicRecord, NicSleepOK, Blocked
<1>11. lc' = [lc EXCEPT ![n] = q] /\ credit' = credit
  BY <1>1, <1>5, <1>8 DEF LCPacket
<1>12. lc'[n] = q /\ Others(n) /\ lc' = [m \in Nics |-> lc'[m]]
  BY <1>4, <1>11 DEF Others
<1>13. NicsOK'
  BY <1>10, <1>12, NicStep
<1>14. data' = [x \in Ends |-> IF x = n THEN Tail(data[x]) ELSE data[x]]
  BY <1>4 DEF LCPacket
<1>15. QED BY <1>1, <1>2, <1>3, <1>7, <1>9, <1>11, <1>12, <1>13, <1>14

NicSends(n, v) ==
    /\ lc[n].output_queues[v] # <<>>
    /\ lc[n].router_credits[v] >= Size(Head(lc[n].output_queues[v]))
    /\ data' = [x \in Ends |-> IF x = Other[n] THEN Append(data[x], Head(lc[n].output_queues[v]))
                               ELSE data[x]]
    /\ \A u \in VNs :
          /\ lc'[n].output_queues[u] =
                IF u = v THEN Tail(lc[n].output_queues[u]) ELSE lc[n].output_queues[u]
          /\ lc'[n].credits[u] =
                IF u = v THEN lc[n].credits[u] + Size(Head(lc[n].output_queues[v])) ELSE lc[n].credits[u]
          /\ lc'[n].router_credits[u] =
                IF u = v THEN lc[n].router_credits[u] - Size(Head(lc[n].output_queues[v]))
                ELSE lc[n].router_credits[u]

NicSleeps(n) ==
    /\ data' = data /\ lc'[n].output_queues = lc[n].output_queues
    /\ lc'[n].credits = lc[n].credits /\ lc'[n].router_credits = lc[n].router_credits

(* LinkControl::handle_output sends the next packet or goes to sleep.      *)
LEMMA LCOutputEffect ==
    ASSUME LinksOK, NicsOK, NEW n \in Nics, LCOutput(n)
    PROVE  /\ NicsOK' /\ Others(n) /\ credit' = credit
           /\ lc'[n].input_queues = lc[n].input_queues
           /\ (\E v \in VNs : NicSends(n, v)) \/ NicSleeps(n)
<1>1. PICK j, h : j = lc[n] /\ h = (\E v \in VNs : lc[n].output_queues[v] # <<>>)
  OBVIOUS
<1>2. PICK k : k = [j EXCEPT !.have_packets = h]
  OBVIOUS
<1>3. NicOK(j) /\ DOMAIN lc = Nics /\ DOMAIN data = Ends /\ j \in NicRecord /\ h \in BOOLEAN
  BY <1>1 DEF NicsOK, LinksOK, NicOK, NicShape, NicRecord
<1>4. /\ k \in NicRecord /\ k.output_queues = j.output_queues /\ k.credits = j.credits
      /\ k.router_credits = j.router_credits /\ k.input_queues = j.input_queues /\ k.waiting = j.waiting
      /\ k.have_packets = h /\ k.timers = j.timers /\ k.curr_out_vn = j.curr_out_vn
  BY <1>2, <1>3 DEF NicRecord
<1>5. /\ credit' = credit /\ k.timers > 0
      /\ \/ \E v \in Sendable(k) :
                 LET ev == Head(k.output_queues[v])
                 IN  /\ lc' = [lc EXCEPT ![n] =
                                  [k EXCEPT !.output_queues[v] = Tail(@),
                                            !.credits[v] = @ + Size(ev),
                                            !.router_credits[v] = @ - Size(ev),
                                            !.curr_out_vn = (v + 1) % NumVNs]]
                     /\ data' = sendData(data, Other[n], ev)
         \/ /\ Sendable(k) = {}
            /\ lc' = [lc EXCEPT ![n] = [k EXCEPT !.waiting = TRUE, !.timers = @ - 1]]
            /\ data' = data
  BY <1>1, <1>2 DEF LCOutput
<1>6. k.waiting = FALSE /\ k.timers = 1
  <2>1. k.timers = (IF k.waiting THEN 0 ELSE 1) /\ k.waiting \in BOOLEAN
    BY <1>3, <1>4 DEF NicOK, NicShape
  <2>0. k.timers > 0
    BY <1>1, <1>2 DEF LCOutput
  <2>2. CASE k.waiting = TRUE
    BY <2>0, <2>1, <2>2
  <2>3. CASE k.waiting = FALSE
    BY <2>1, <2>3
  <2>4. QED BY <2>1, <2>2, <2>3
<1>7. \A v \in VNs : k.output_queues[v] \in Seq(NicEventsOf(v))
  BY <1>3, <1>4 DEF NicOK, NicShape
<1>8. CASE \E v \in Sendable(k) :
                 LET ev == Head(k.output_queues[v])
                 IN  /\ lc' = [lc EXCEPT ![n] =
                                  [k EXCEPT !.output_queues[v] = Tail(@),
                                            !.credits[v] = @ + Size(ev),
                                            !.router_credits[v] = @ - Size(ev),
                                            !.curr_out_vn = (v + 1) % NumVNs]]
                     /\ data' = sendData(data, Other[n], ev)
  <2>1. PICK v \in Sendable(k) :
                 LET ev == Head(k.output_queues[v])
                 IN  /\ lc' = [lc EXCEPT ![n] =
                                  [k EXCEPT !.output_queues[v] = Tail(@),
                                            !.credits[v] = @ + Size(ev),
                                            !.router_credits[v] = @ - Size(ev),
                                            !.curr_out_vn = (v + 1) % NumVNs]]
                     /\ data' = sendData(data, Other[n], ev)
    BY <1>8
  <2>2. /\ v \in VNs /\ k.output_queues[v] # <<>>
        /\ k.router_credits[v] >= Size(Head(k.output_queues[v]))
    BY <2>1 DEF Sendable
  <2>3. PICK ev, s, w : ev = Head(k.output_queues[v]) /\ s = Size(ev) /\ w = (v + 1) % NumVNs
    OBVIOUS
  <2>4. ev \in NicEventsOf(v) /\ s \in Nat /\ w \in Nat
    <3>1. ev \in NicEventsOf(v)
      BY <1>7, <2>2, <2>3, NicQueue
    <3>2. s \in Nat
      BY <2>3, <3>1, NicEventSize DEF NicEventsOf
    <3>3. v \in Nat /\ NumVNs \in Nat \ {0}
      BY <2>2, LinkAssumption DEF VNs
    <3>4. QED BY <2>3, <3>1, <3>2, <3>3
  <2>5. PICK o, c, rc : /\ o = [k.output_queues EXCEPT ![v] = Tail(@)]
                        /\ c = [k.credits EXCEPT ![v] = @ + s]
                        /\ rc = [k.router_credits EXCEPT ![v] = @ - s]
    OBVIOUS
  <2>6. PICK q : q = [k EXCEPT !.output_queues = o, !.credits = c, !.router_credits = rc,
                               !.curr_out_vn = w]
    OBVIOUS
  <2>7. /\ k.output_queues \in [VNs -> Seq(NicEvents)] /\ k.credits \in [VNs -> Int]
        /\ k.router_credits \in [VNs -> Int]
    BY <1>4 DEF NicRecord
  <2>8. /\ c \in [VNs -> Int]
        /\ \A u \in VNs : c[u] = IF u = v THEN k.credits[u] + s ELSE k.credits[u]
    <3>1. k.credits[v] + s \in Int
      BY <2>2, <2>4, <2>7
    <3>2. QED BY <2>2, <2>5, <2>7, <3>1
  <2>9. /\ rc \in [VNs -> Int]
        /\ \A u \in VNs : rc[u] = IF u = v THEN k.router_credits[u] - s ELSE k.router_credits[u]
    <3>1. k.router_credits[v] - s \in Int
      BY <2>2, <2>4, <2>7
    <3>2. QED BY <2>2, <2>5, <2>7, <3>1
  <2>10. /\ o \in [VNs -> Seq(NicEvents)]
         /\ \A u \in VNs : o[u] = IF u = v THEN Tail(k.output_queues[u]) ELSE k.output_queues[u]
    <3>1. k.output_queues[v] \in Seq(NicEvents)
      BY <2>2, <2>7
    <3>2. Tail(k.output_queues[v]) \in Seq(NicEvents)
      BY <2>2, <3>1, NicQueue
    <3>3. QED BY <2>2, <2>5, <2>7, <3>2
  <2>11. \A u \in VNs : o[u] \in Seq(NicEventsOf(u))
    <3>1. Tail(k.output_queues[v]) \in Seq(NicEventsOf(v))
      BY <1>7, <2>2, NicQueue
    <3>2. QED BY <1>7, <2>10, <3>1
  <2>12. /\ q \in NicRecord /\ q.output_queues = o /\ q.credits = c
         /\ q.router_credits = rc /\ q.input_queues = k.input_queues /\ q.waiting = k.waiting
         /\ q.timers = k.timers
    BY <1>4, <2>4, <2>6, <2>8, <2>9, <2>10 DEF NicRecord
  <2>13. NicOK(q)
    <3>1. NicShape(q)
      BY <1>6, <2>11, <2>12 DEF NicShape, NicRecord
    <3>2. NicSleepOK(q)
      BY <1>6, <2>12 DEF NicSleepOK
    <3>3. QED BY <3>1, <3>2 DEF NicOK
  <2>14. lc' = [lc EXCEPT ![n] = q] /\ data' = [data EXCEPT ![Other[n]] = Append(@, ev)]
    BY <2>1, <2>3, <2>5, <2>6 DEF sendData
  <2>15. lc'[n] = q /\ Others(n) /\ lc' = [m \in Nics |-> lc'[m]]
    BY <1>3, <2>14 DEF Others
  <2>16. data' = [x \in Ends |-> IF x = Other[n] THEN Append(data[x], ev) ELSE data[x]]
    <3>1. Other[n] \in Ends
      BY OtherIs, EndsAre
    <3>2. QED BY <1>3, <2>14, <3>1
  <2>17. NicSends(n, v)
    <3>1. ev = Head(lc[n].output_queues[v]) /\ s = Size(Head(lc[n].output_queues[v]))
      BY <1>1, <1>4, <2>3
    <3>2. /\ lc[n].output_queues[v] # <<>> /\ lc[n].router_credits[v] >= s
      BY <1>1, <1>4, <2>2, <2>3
    <3>3. \A u \in VNs :
          /\ lc'[n].output_queues[u] =
                IF u = v THEN Tail(lc[n].output_queues[u]) ELSE lc[n].output_queues[u]
          /\ lc'[n].credits[u] = IF u = v THEN lc[n].credits[u] + s ELSE lc[n].credits[u]
          /\ lc'[n].router_credits[u] =
                IF u = v THEN lc[n].router_credits[u] - s ELSE lc[n].router_credits[u]
      BY <1>1, <1>4, <2>8, <2>9, <2>10, <2>12, <2>15
    <3>4. QED BY <2>16, <3>1, <3>2, <3>3, Zenon DEF NicSends
  <2>18. NicsOK'
    BY <2>13, <2>15, NicStep
  <2>19. QED BY <1>1, <1>4, <1>5, <2>2, <2>12, <2>15, <2>17, <2>18
<1>9. CASE /\ Sendable(k) = {}
           /\ lc' = [lc EXCEPT ![n] = [k EXCEPT !.waiting = TRUE, !.timers = @ - 1]]
           /\ data' = data
  <2>1. PICK yes, z : yes = TRUE /\ z = 0
    OBVIOUS
  <2>2. PICK q : q = [k EXCEPT !.waiting = yes, !.timers = z]
    OBVIOUS
  <2>3. [k EXCEPT !.waiting = TRUE, !.timers = @ - 1] = q
    BY <1>6, <2>1, <2>2
  <2>4. lc'[n] = q /\ Others(n) /\ lc' = [m \in Nics |-> lc'[m]]
    BY <1>3, <1>9, <2>3 DEF Others
  <2>5. /\ q \in NicRecord /\ q.output_queues = k.output_queues /\ q.credits = k.credits
        /\ q.router_credits = k.router_credits /\ q.input_queues = k.input_queues
        /\ q.have_packets = k.have_packets /\ q.waiting = yes /\ q.timers = z
    BY <1>4, <2>1, <2>2 DEF NicRecord
  <2>6. NicShape(q)
    BY <1>7, <2>1, <2>5 DEF NicShape, NicRecord
  <2>7. NicSleepOK(q)
    <3>1. CASE h
      <4>1. PICK v \in VNs : k.output_queues[v] # <<>>
        BY <1>1, <1>4, <3>1
      <4>2. ~(k.router_credits[v] >= Size(Head(k.output_queues[v])))
        BY <1>9, <4>1 DEF Sendable
      <4>3. k.router_credits[v] \in Int /\ Size(Head(k.output_queues[v])) \in Nat
        <5>1. Head(k.output_queues[v]) \in NicEventsOf(v)
          BY <1>7, <4>1, NicQueue
        <5>2. Size(Head(k.output_queues[v])) \in Nat
          BY <5>1, NicEventSize DEF NicEventsOf
        <5>3. QED BY <1>4, <5>2 DEF NicRecord
      <4>4. Blocked(q, v)
        BY <2>5, <4>1, <4>2, <4>3 DEF Blocked
      <4>5. QED BY <1>4, <2>5, <3>1, <4>4 DEF NicSleepOK
    <3>2. CASE ~h
      BY <1>1, <1>4, <2>5, <3>2 DEF NicSleepOK
    <3>3. QED BY <3>1, <3>2
  <2>8. NicsOK'
    BY <2>4, <2>6, <2>7, NicStep DEF NicOK
  <2>9. NicSleeps(n)
    BY <1>1, <1>4, <1>9, <2>4, <2>5 DEF NicSleeps
  <2>10. QED BY <1>1, <1>4, <1>5, <2>4, <2>5, <2>8, <2>9
<1>10. QED BY <1>5, <1>8, <1>9

OtherPorts(x) == \A y \in Ports \ {x} : pc'[y] = pc[y]

(* A step of one port.                                                     *)
LEMMA PortStep ==
    ASSUME PortsOK, NEW x \in Ports, NEW k, PortOK(x, k), pc' = [pc EXCEPT ![x] = k]
    PROVE  PortsOK' /\ pc'[x] = k /\ OtherPorts(x)
<1>1. DOMAIN pc = Ports
  BY DEF PortsOK
<1>2. pc'[x] = k /\ OtherPorts(x) /\ pc' = [y \in Ports |-> pc'[y]]
  BY <1>1 DEF OtherPorts
<1>3. \A y \in Ports : PortOK(y, pc'[y])
  BY <1>2 DEF PortsOK, OtherPorts
<1>4. QED BY <1>2, <1>3 DEF PortsOK

(* A port, from its fields.                                                *)
LEMMA MakePort ==
    ASSUME NEW a, NEW b, NEW x, NEW c, NEW w \in BOOLEAN, NEW t, Buffers(a), Buffers(b),
           x \in [VCs -> Int], c \in [VCs -> Int], t = IF w THEN 0 ELSE 1,
           NEW k, k = PortRecord(a, b, x, c, w, t)
    PROVE  PortShape(k)
<1>1. /\ k.input_buf = a /\ k.output_buf = b /\ k.xbar_in_credits = x /\ k.port_out_credits = c
      /\ k.waiting = w /\ k.timers = t
  BY RecordFields
<1>2. QED BY <1>1 DEF PortShape

(* The fields of a port that is as it should be.                           *)
LEMMA PortParts ==
    ASSUME NEW k, PortShape(k)
    PROVE  \E a, b, x, c, w, t :
              /\ k = PortRecord(a, b, x, c, w, t)
              /\ a = k.input_buf /\ b = k.output_buf /\ x = k.xbar_in_credits /\ c = k.port_out_credits
              /\ w = k.waiting /\ t = k.timers
              /\ Buffers(a) /\ Buffers(b) /\ DOMAIN a = VCs /\ DOMAIN b = VCs
              /\ x \in [VCs -> Int] /\ c \in [VCs -> Int] /\ w \in BOOLEAN /\ t = IF w THEN 0 ELSE 1
<1>1. Buffers(k.input_buf) /\ Buffers(k.output_buf)
  BY DEF PortShape
<1>2. DOMAIN k.input_buf = VCs /\ DOMAIN k.output_buf = VCs
  BY <1>1 DEF Buffers
<1>3. QED BY <1>1, <1>2 DEF PortShape

(* PortControl: a credit arrives.                                          *)
LEMMA PCCreditEffect ==
    ASSUME LinksOK, PortsOK, NEW port \in Ports, PCCredit(port)
    PROVE  /\ PortsOK' /\ OtherPorts(port) /\ data' = data /\ lc' = lc
           /\ credit[port] # <<>>
           /\ credit' = [x \in Ends |-> IF x = port THEN Tail(credit[x]) ELSE credit[x]]
           /\ pc'[port].input_buf = pc[port].input_buf
           /\ pc'[port].output_buf = pc[port].output_buf
           /\ pc'[port].xbar_in_credits = pc[port].xbar_in_credits
           /\ \A v \in VCs : pc'[port].port_out_credits[v] =
                 IF v = Head(credit[port]).vc
                 THEN pc[port].port_out_credits[v] + Head(credit[port]).credits
                 ELSE pc[port].port_out_credits[v]
<1>1. PICK k, u, s : k = pc[port] /\ u = Head(credit[port]).vc /\ s = Head(credit[port]).credits
  OBVIOUS
<1>2. port \in Ends /\ credit[port] # <<>> /\ data' = data /\ lc' = lc
  BY EndsAre DEF PCCredit
<1>3. PortOK(port, k) /\ s \in Nat /\ DOMAIN credit = Ends
  BY <1>1, <1>2, CreditQueue DEF PortsOK, LinksOK
<1>4. PICK a, b, x, c, w, t :
          /\ k = PortRecord(a, b, x, c, w, t)
          /\ a = k.input_buf /\ b = k.output_buf /\ x = k.xbar_in_credits /\ c = k.port_out_credits
          /\ w = k.waiting /\ t = k.timers
          /\ Buffers(a) /\ Buffers(b) /\ DOMAIN a = VCs /\ DOMAIN b = VCs
          /\ x \in [VCs -> Int] /\ c \in [VCs -> Int] /\ w \in BOOLEAN /\ t = IF w THEN 0 ELSE 1
  BY <1>3, PortParts DEF PortOK
<1>5. PICK d, q : d = [c EXCEPT ![u] = @ + s] /\ q = PortRecord(a, b, x, d, w, t)
  OBVIOUS
<1>6. /\ q.input_buf = a /\ q.output_buf = b /\ q.xbar_in_credits = x /\ q.port_out_credits = d
      /\ q.waiting = w /\ q.timers = t
  BY <1>5, RecordFields
<1>7. c \in [VCs -> Int] /\ s \in Int
  <2>1. s \in Nat
    BY <1>3
  <2>2. s \in Int
    BY <2>1
  <2>3. QED BY <1>4, <2>2
<1>8. d \in [VCs -> Int]
  <2>1. [c EXCEPT ![u] = @ + s] \in [VCs -> Int]
    BY <1>7, CreditsType
  <2>2. QED BY <1>5, <2>1
<1>9. PortShape(q)
  <2>1. Buffers(a) /\ Buffers(b) /\ x \in [VCs -> Int] /\ w \in BOOLEAN /\ t = IF w THEN 0 ELSE 1
    BY <1>4
  <2>2. q = PortRecord(a, b, x, d, w, t)
    BY <1>5
  <2>3. QED BY <1>8, <2>1, <2>2, MakePort
<1>10. [k EXCEPT !.port_out_credits[u] = @ + s] = q
  BY <1>4, <1>5 DEF PortRecord
<1>11. pc' = [pc EXCEPT ![port] = Woken(q)]
  BY <1>1, <1>10 DEF PCCredit
<1>12. /\ PortOK(port, Woken(q))
       /\ Woken(q).input_buf = a /\ Woken(q).output_buf = b
       /\ Woken(q).xbar_in_credits = x /\ Woken(q).port_out_credits = d
  BY <1>6, <1>9, WokenPort
<1>13. PortsOK' /\ pc'[port] = Woken(q) /\ OtherPorts(port)
  BY <1>11, <1>12, PortStep
<1>14. \A v \in VCs : d[v] = IF v = u THEN c[v] + s ELSE c[v]
  BY <1>5, <1>7
<1>15. credit' = [y \in Ends |-> IF y = port THEN Tail(credit[y]) ELSE credit[y]]
  BY <1>3 DEF PCCredit
<1>16. QED BY <1>1, <1>2, <1>4, <1>12, <1>13, <1>14, <1>15

(* What comes in by a port. *)
LEMMA ReceivedIs ==
    ASSUME LinksOK, NEW port \in Ports, data[port] # <<>>
    PROVE  /\ NetEvent(Received(port, Head(data[port])))
           /\ Received(port, Head(data[port])).route = Head(data[port]).route
           /\ Head(data[port]).route \in Routes
           /\ port \notin HostPorts => Received(port, Head(data[port])) = Head(data[port])
           /\ port \in HostPorts => Received(port, Head(data[port])).h =
                 CHOOSE q \in process_input(Alg, port[2], Head(data[port]).route[2], VN(Head(data[port]))) : TRUE
<1>1. PICK e : e = Head(data[port])
  OBVIOUS
<1>2. CASE port \in HostPorts
  <2>1. e \in NicEvents
    <3>1. data[port] \in Seq(NicEvents)
      BY <1>2 DEF LinksOK
    <3>2. QED BY <1>1, <3>1, NicQueue
  <2>2. PICK h : h = CHOOSE q \in process_input(Alg, port[2], e.route[2], VN(e)) : TRUE
    OBVIOUS
  <2>3. Received(port, e) = [route |-> e.route, seq |-> e.seq, h |-> h]
    BY <1>2, <2>2, Zenon DEF Received, isHost
  <2>4. e.route \in Routes /\ e.seq \in Nat
    BY <2>1 DEF NicEvents
  <2>5. NetEvent(Received(port, e)) /\ Received(port, e).route = e.route /\ Received(port, e).h = h
    BY <2>3, <2>4 DEF NetEvent
  <2>6. QED BY <1>1, <1>2, <2>2, <2>4, <2>5
<1>3. CASE port \notin HostPorts
  <2>1. NetQueue(data[port])
    BY <1>3 DEF LinksOK
  <2>2. NetEvent(e)
    BY <1>1, <2>1, NetQueueFacts
  <2>3. Received(port, e) = e
    BY <1>3 DEF Received, isHost
  <2>4. QED BY <1>1, <1>3, <2>2, <2>3 DEF NetEvent
<1>4. QED BY <1>2, <1>3

(* A queue of one event.                                                   *)
LEMMA SingleQueue ==
    ASSUME NEW e, NetEvent(e)
    PROVE  NetQueue(<<e>>) /\ <<e>> # <<>> /\ Len(<<e>>) = 1 /\ <<e>>[1] = e /\ DOMAIN <<e>> = {1}
<1>1. <<e>> \in Seq({e}) /\ Len(<<e>>) = 1 /\ <<e>>[1] = e /\ DOMAIN <<e>> = {1} /\ <<e>> # <<>>
  OBVIOUS
<1>2. PICK q, S : q = <<e>> /\ S = {e}
  OBVIOUS
<1>3. q \in Seq(S) /\ \A i \in 1 .. Len(q) : NetEvent(q[i])
  BY <1>1, <1>2
<1>4. NetQueue(q)
  BY <1>3, NetQueueIs
<1>5. QED BY <1>1, <1>2, <1>4

Queued(port, q, ev) == IF q = <<>> THEN <<Routed(port, ev)>> ELSE Append(q, ev)

(* A queue after an event has arrived: the first one is routed.            *)
LEMMA QueuedIs ==
    ASSUME NEW port, NEW q, NetQueue(q), NEW ev, NetEvent(ev)
    PROVE  NetQueue(Queued(port, q, ev)) /\ Queued(port, q, ev) # <<>>
BY RoutedIs, SingleQueue, NetAppend DEF Queued

(* PortControl: a packet arrives.                                          *)
LEMMA PCPacketEffect ==
    ASSUME LinksOK, PortsOK, NEW port \in Ports, PCPacket(port),
           NEW ev, ev = Received(port, Head(data[port]))
    PROVE  /\ PortsOK' /\ OtherPorts(port) /\ credit' = credit /\ lc' = lc
           /\ data[port] # <<>>
           /\ data' = [x \in Ends |-> IF x = port THEN Tail(data[x]) ELSE data[x]]
           /\ pc'[port].output_buf = pc[port].output_buf
           /\ pc'[port].xbar_in_credits = pc[port].xbar_in_credits
           /\ pc'[port].port_out_credits = pc[port].port_out_credits
           /\ \A v \in VCs : pc'[port].input_buf[v] =
                 IF v = ev.h.vc THEN Queued(port, pc[port].input_buf[v], ev) ELSE pc[port].input_buf[v]
<1>1. PICK k, u : k = pc[port] /\ u = ev.h.vc
  OBVIOUS
<1>2. port \in Ends /\ data[port] # <<>> /\ credit' = credit /\ lc' = lc
  BY EndsAre DEF PCPacket
<1>3. PortOK(port, k) /\ NetEvent(ev) /\ DOMAIN data = Ends
  BY <1>1, <1>2, ReceivedIs DEF PortsOK, LinksOK
<1>4. PICK a, b, x, c, w, t :
          /\ k = PortRecord(a, b, x, c, w, t)
          /\ a = k.input_buf /\ b = k.output_buf /\ x = k.xbar_in_credits /\ c = k.port_out_credits
          /\ w = k.waiting /\ t = k.timers
          /\ Buffers(a) /\ Buffers(b) /\ DOMAIN a = VCs /\ DOMAIN b = VCs
          /\ x \in [VCs -> Int] /\ c \in [VCs -> Int] /\ w \in BOOLEAN /\ t = IF w THEN 0 ELSE 1
  BY <1>3, PortParts DEF PortOK
<1>5. PICK d, j : j = Queued(port, a[u], ev) /\ d = [a EXCEPT ![u] = j]
  OBVIOUS
<1>6. PICK q : q = PortRecord(d, b, x, c, w, t)
  OBVIOUS
<1>7. /\ q.input_buf = d /\ q.output_buf = b /\ q.xbar_in_credits = x /\ q.port_out_credits = c
      /\ q.waiting = w /\ q.timers = t
  BY <1>6, RecordFields
<1>8. Buffers(a) /\ DOMAIN a = VCs
  BY <1>4
<1>9. \A v \in VCs : d[v] = IF v = u THEN Queued(port, a[v], ev) ELSE a[v]
  BY <1>5, <1>8
<1>10. Buffers(d)
  <2>1. d = [v \in VCs |-> d[v]]
    BY <1>5, <1>8
  <2>2. \A v \in VCs : NetQueue(d[v])
    BY <1>3, <1>8, <1>9, QueuedIs DEF Buffers
  <2>3. QED BY <2>1, <2>2 DEF Buffers
<1>11. PortShape(q)
  BY <1>4, <1>6, <1>10, MakePort
<1>12. PortSleepOK(port, q)
  BY <1>3, <1>4, <1>7 DEF PortOK, PortSleepOK
<1>13. [k EXCEPT !.input_buf[u] = j] = q
  BY <1>4, <1>5, <1>6 DEF PortRecord
<1>14. pc' = [pc EXCEPT ![port] = q]
  <2>1. PICK g : g = Queued(port, pc[port].input_buf[u], ev)
    OBVIOUS
  <2>2. pc' = [pc EXCEPT ![port].input_buf[u] = g]
    BY <1>1, <2>1 DEF PCPacket, Queued
  <2>3. g = j
    BY <1>1, <1>4, <1>5, <2>1
  <2>4. pc' = [pc EXCEPT ![port] = [k EXCEPT !.input_buf[u] = j]]
    BY <1>1, <2>2, <2>3
  <2>5. QED BY <1>13, <2>4
<1>15. PortsOK' /\ pc'[port] = q /\ OtherPorts(port)
  BY <1>11, <1>12, <1>14, PortStep DEF PortOK
<1>16. data' = [y \in Ends |-> IF y = port THEN Tail(data[y]) ELSE data[y]]
  BY <1>3 DEF PCPacket
<1>17. QED BY <1>1, <1>2, <1>4, <1>7, <1>9, <1>15, <1>16

PortSends(port, v) ==
    /\ pc[port].output_buf[v] # <<>>
    /\ pc[port].port_out_credits[CreditVC(port, v, Head(pc[port].output_buf[v]))]
          >= Size(Head(pc[port].output_buf[v]))
    /\ data' = [x \in Ends |->
          IF x = Other[port] THEN Append(data[x], Sent(port, Head(pc[port].output_buf[v]))) ELSE data[x]]
    /\ \A u \in VCs :
          /\ pc'[port].output_buf[u] =
                IF u = v THEN Tail(pc[port].output_buf[u]) ELSE pc[port].output_buf[u]
          /\ pc'[port].xbar_in_credits[u] =
                IF u = v THEN pc[port].xbar_in_credits[u] + Size(Head(pc[port].output_buf[v]))
                ELSE pc[port].xbar_in_credits[u]
          /\ pc'[port].port_out_credits[u] =
                IF u = v THEN pc[port].port_out_credits[u] - Size(Head(pc[port].output_buf[v]))
                ELSE pc[port].port_out_credits[u]

PortSleeps(port) ==
    /\ data' = data /\ pc'[port].output_buf = pc[port].output_buf
    /\ pc'[port].xbar_in_credits = pc[port].xbar_in_credits
    /\ pc'[port].port_out_credits = pc[port].port_out_credits

(* PortControl::handle_output sends the next packet or goes to sleep.      *)
LEMMA PCOutputEffect ==
    ASSUME LinksOK, PortsOK, NEW port \in Ports, PCOutput(port)
    PROVE  /\ PortsOK' /\ OtherPorts(port) /\ credit' = credit /\ lc' = lc
           /\ pc'[port].input_buf = pc[port].input_buf
           /\ (\E v \in VCs : PortSends(port, v)) \/ PortSleeps(port)
<1>1. PICK k : k = pc[port]
  OBVIOUS
<1>2. PortOK(port, k) /\ DOMAIN data = Ends /\ k.timers > 0 /\ credit' = credit /\ lc' = lc
  BY <1>1 DEF PortsOK, LinksOK, PCOutput
<1>3. PICK a, b, x, c, w, t :
          /\ k = PortRecord(a, b, x, c, w, t)
          /\ a = k.input_buf /\ b = k.output_buf /\ x = k.xbar_in_credits /\ c = k.port_out_credits
          /\ w = k.waiting /\ t = k.timers
          /\ Buffers(a) /\ Buffers(b) /\ DOMAIN a = VCs /\ DOMAIN b = VCs
          /\ x \in [VCs -> Int] /\ c \in [VCs -> Int] /\ w \in BOOLEAN /\ t = IF w THEN 0 ELSE 1
  BY <1>2, PortParts DEF PortOK
<1>4. /\ Buffers(a) /\ Buffers(b) /\ DOMAIN b = VCs /\ x \in [VCs -> Int] /\ c \in [VCs -> Int]
      /\ w \in BOOLEAN /\ t = IF w THEN 0 ELSE 1
  BY <1>3
<1>5. w = FALSE /\ t = 1
  <2>0. t > 0
    BY <1>2, <1>3
  <2>1. CASE w = TRUE
    <3>1. t = 0
      BY <1>4, <2>1
    <3>2. QED BY <2>0, <3>1
  <2>2. CASE w = FALSE
    BY <1>4, <2>2
  <2>3. QED BY <1>4, <2>1, <2>2
<1>6. ASSUME NEW v \in arbitrate(port),
             pc' = [pc EXCEPT ![port] =
                       [k EXCEPT !.output_buf[v] = Tail(@),
                                 !.xbar_in_credits[v] = @ + Size(Head(k.output_buf[v])),
                                 !.port_out_credits[v] = @ - Size(Head(k.output_buf[v]))]],
             data' = sendData(data, Other[port], Sent(port, Head(k.output_buf[v])))
      PROVE  /\ PortsOK' /\ OtherPorts(port)
             /\ pc'[port].input_buf = pc[port].input_buf
             /\ v \in VCs /\ PortSends(port, v)
  <2>1. /\ v \in VCs /\ b[v] # <<>>
        /\ c[CreditVC(port, v, Head(b[v]))] >= Size(Head(b[v]))
    BY <1>1, <1>3 DEF arbitrate
  <2>2. PICK ev, s : ev = Head(b[v]) /\ s = Size(ev)
    OBVIOUS
  <2>3. NetQueue(b[v]) /\ NetEvent(ev) /\ s \in Nat
    <3>1. NetQueue(b[v])
      BY <1>4, <2>1 DEF Buffers
    <3>2. NetEvent(ev)
      BY <2>1, <2>2, <3>1, NetQueueFacts
    <3>3. QED BY <2>2, <3>1, <3>2, SizeType DEF NetEvent
  <2>4. PICK d, y, e : d = [b EXCEPT ![v] = Tail(@)] /\ y = [x EXCEPT ![v] = @ + s] /\ e = [c EXCEPT ![v] = @ - s]
    OBVIOUS
  <2>5. PICK q : q = PortRecord(a, d, y, e, w, t)
    OBVIOUS
  <2>6. /\ q.input_buf = a /\ q.output_buf = d /\ q.xbar_in_credits = y /\ q.port_out_credits = e
        /\ q.waiting = w /\ q.timers = t
    BY <2>5, RecordFields
  <2>7. Buffers(d) /\ y \in [VCs -> Int] /\ e \in [VCs -> Int]
    <3>1. NetQueue(Tail(b[v]))
      BY <2>1, <2>3, NetTail
    <3>2. d = [b EXCEPT ![v] = Tail(b[v])]
      BY <2>4
    <3>3. Buffers(d)
      BY <1>4, <2>1, <3>1, <3>2, BufferSet
    <3>4. [x EXCEPT ![v] = @ + s] \in [VCs -> Int]
      <4>1. s \in Int
        BY <2>3
      <4>2. QED BY <1>4, <4>1, CreditsType
    <3>5. [c EXCEPT ![v] = @ - s] \in [VCs -> Int]
      <4>1. s \in Int
        BY <2>3
      <4>2. QED BY <1>4, <4>1, CreditsType
    <3>6. QED BY <2>4, <3>3, <3>4, <3>5
  <2>8. PortOK(port, q)
    <3>1. PortShape(q)
      BY <1>4, <2>5, <2>7, MakePort
    <3>2. PortSleepOK(port, q)
      BY <1>5, <2>6 DEF PortSleepOK
    <3>3. QED BY <3>1, <3>2 DEF PortOK
  <2>9. [k EXCEPT !.output_buf[v] = Tail(@), !.xbar_in_credits[v] = @ + s,
                  !.port_out_credits[v] = @ - s] = q
    <3>1. PICK k1 : k1 = [k EXCEPT !.output_buf[v] = Tail(@)]
      OBVIOUS
    <3>2. PICK k2 : k2 = [k1 EXCEPT !.xbar_in_credits[v] = @ + s]
      OBVIOUS
    <3>3. PICK k3 : k3 = [k2 EXCEPT !.port_out_credits[v] = @ - s]
      OBVIOUS
    <3>4. k1 = PortRecord(a, d, x, c, w, t)
      BY <1>3, <2>4, <3>1 DEF PortRecord
    <3>5. k2 = PortRecord(a, d, y, c, w, t)
      BY <2>4, <3>2, <3>4 DEF PortRecord
    <3>6. k3 = PortRecord(a, d, y, e, w, t)
      BY <2>4, <3>3, <3>5 DEF PortRecord
    <3>7. [k EXCEPT !.output_buf[v] = Tail(@), !.xbar_in_credits[v] = @ + s,
                    !.port_out_credits[v] = @ - s] = k3
      BY <1>3, <3>1, <3>2, <3>3 DEF PortRecord
    <3>8. QED BY <2>5, <3>6, <3>7
  <2>10. s = Size(Head(k.output_buf[v])) /\ ev = Head(k.output_buf[v])
    BY <1>3, <2>2
  <2>11. pc' = [pc EXCEPT ![port] = q]
    BY <1>6, <2>9, <2>10
  <2>12. PortsOK' /\ pc'[port] = q /\ OtherPorts(port)
    BY <2>8, <2>11, PortStep
  <2>13. data' = [z \in Ends |-> IF z = Other[port] THEN Append(data[z], Sent(port, ev)) ELSE data[z]]
    <3>1. data' = [data EXCEPT ![Other[port]] = Append(@, Sent(port, ev))]
      BY <1>6, <2>10 DEF sendData
    <3>2. Other[port] \in Ends
      BY OtherIs, EndsAre
    <3>3. QED BY <1>2, <3>1, <3>2
  <2>14. \A u \in VCs : /\ d[u] = IF u = v THEN Tail(b[u]) ELSE b[u]
                        /\ y[u] = IF u = v THEN x[u] + s ELSE x[u]
                        /\ e[u] = IF u = v THEN c[u] - s ELSE c[u]
    BY <1>4, <2>4
  <2>15. PortSends(port, v)
    <3>1. /\ pc[port].output_buf = b /\ pc[port].xbar_in_credits = x /\ pc[port].port_out_credits = c
          /\ pc'[port].output_buf = d /\ pc'[port].xbar_in_credits = y /\ pc'[port].port_out_credits = e
      BY <1>1, <1>3, <2>6, <2>12
    <3>2. QED BY <2>1, <2>2, <2>13, <2>14, <3>1, Zenon DEF PortSends
  <2>16. QED BY <1>1, <1>3, <2>1, <2>6, <2>12, <2>15
<1>7. ASSUME arbitrate(port) = {}, data' = data,
             pc' = [pc EXCEPT ![port] = [k EXCEPT !.waiting = TRUE, !.timers = @ - 1]]
      PROVE  /\ PortsOK' /\ OtherPorts(port)
             /\ pc'[port].input_buf = pc[port].input_buf /\ PortSleeps(port)
  <2>1. PICK yes, z : yes = TRUE /\ z = 0
    OBVIOUS
  <2>2. PICK q : q = PortRecord(a, b, x, c, yes, z)
    OBVIOUS
  <2>3. [k EXCEPT !.waiting = TRUE, !.timers = @ - 1] = q
    <3>1. [k EXCEPT !.waiting = yes, !.timers = z] = q
      <4>1. [k EXCEPT !.waiting = yes, !.timers = z] = [[k EXCEPT !.waiting = yes] EXCEPT !.timers = z]
        OBVIOUS
      <4>2. [k EXCEPT !.waiting = yes] = PortRecord(a, b, x, c, yes, t)
        BY <1>3 DEF PortRecord
      <4>3. [PortRecord(a, b, x, c, yes, t) EXCEPT !.timers = z] = PortRecord(a, b, x, c, yes, z)
        BY DEF PortRecord
      <4>4. QED BY <2>2, <4>1, <4>2, <4>3
    <3>2. k.timers - 1 = z
      <4>1. k.timers = 1
        BY <1>3, <1>5
      <4>2. QED BY <2>1, <4>1
    <3>3. QED BY <2>1, <3>1, <3>2
  <2>4. /\ q.input_buf = a /\ q.output_buf = b /\ q.xbar_in_credits = x /\ q.port_out_credits = c
        /\ q.waiting = yes /\ q.timers = z
    BY <2>2, RecordFields
  <2>5. PortShape(q)
    BY <1>4, <2>1, <2>2, MakePort
  <2>6. PortSleepOK(port, q)
    <3>1. \A v \in VCs : b[v] # <<>> => ~(c[CreditVC(port, v, Head(b[v]))] >= Size(Head(b[v])))
      BY <1>1, <1>3, <1>7 DEF arbitrate
    <3>2. QED BY <2>4, <3>1 DEF PortSleepOK
  <2>7. PortsOK' /\ pc'[port] = q /\ OtherPorts(port)
    BY <1>7, <2>3, <2>5, <2>6, PortStep DEF PortOK
  <2>8. QED BY <1>1, <1>3, <1>7, <2>4, <2>7 DEF PortSleeps
<1>8. QED
  <2>1. \/ \E v \in arbitrate(port) :
             /\ pc' = [pc EXCEPT ![port] =
                       [k EXCEPT !.output_buf[v] = Tail(@),
                                 !.xbar_in_credits[v] = @ + Size(Head(k.output_buf[v])),
                                 !.port_out_credits[v] = @ - Size(Head(k.output_buf[v]))]]
             /\ data' = sendData(data, Other[port], Sent(port, Head(k.output_buf[v])))
        \/ /\ arbitrate(port) = {} /\ data' = data
           /\ pc' = [pc EXCEPT ![port] = [k EXCEPT !.waiting = TRUE, !.timers = @ - 1]]
    BY <1>1 DEF PCOutput
  <2>2. QED BY <1>2, <1>6, <1>7, <2>1

(* VCs and VNs are numbers, and there are as many VCs as VNs or more.      *)
LEMMA VCsAre == VCs \subseteq Nat /\ VNs \subseteq VCs /\ VNs \subseteq Nat
<1>1. PICK m \in Nat \ {0} : m = NumVNs
  BY LinkAssumption
<1>2. getVCsPerVN(Alg) = 1 \/ getVCsPerVN(Alg) = 2
  BY LinkAssumption DEF getVCsPerVN
<1>3. PICK n \in Nat : n = NumVNs * getVCsPerVN(Alg) /\ m <= n
  <2>1. m * 1 \in Nat /\ m * 2 \in Nat /\ m <= m * 1 /\ m <= m * 2
    OBVIOUS
  <2>2. QED BY <1>1, <1>2, <2>1
<1>4. VCs = 0 .. n - 1 /\ VNs = 0 .. m - 1
  BY <1>1, <1>3 DEF VCs, VNs
<1>5. QED BY <1>3, <1>4

-----------------------------------------------------------------------------
(* What the crossbar moves: one head of a port, one packet to a port.      *)
LEMMA GrantFacts ==
    ASSUME PortsOK, NEW r \in Routers, NEW G \in Grants(r), NEW g \in G
    PROVE  /\ g[1] \in PortNumbers /\ g[2] \in VCs /\ g = <<g[1], g[2]>>
           /\ pc[PortEnd(r, g[1])].input_buf[g[2]] # <<>>
           /\ NetQueue(pc[PortEnd(r, g[1])].input_buf[g[2]])
           /\ NetEvent(HeadOf(r, g))
           /\ PortEnd(r, g[1]) \in Ports
           /\ \A o \in G : o # g => g[1] # o[1] /\ HeadOf(r, g).h.next # HeadOf(r, o).h.next
<1>1. g \in Movable(r) /\ \A o \in G : ~Conflict(r, g, o)
  BY DEF Grants
<1>2. /\ g \in PortNumbers \X VCs
      /\ pc[PortEnd(r, g[1])].input_buf[g[2]] # <<>>
  BY <1>1 DEF Movable
<1>3. g[1] \in PortNumbers /\ g[2] \in VCs /\ g = <<g[1], g[2]>>
  BY <1>2
<1>4. PortEnd(r, g[1]) \in Ports
  BY <1>3, EndsAre
<1>5. NetQueue(pc[PortEnd(r, g[1])].input_buf[g[2]])
  <2>1. PortOK(PortEnd(r, g[1]), pc[PortEnd(r, g[1])])
    BY <1>4 DEF PortsOK
  <2>2. QED BY <1>3, <2>1 DEF PortOK, PortShape, Buffers
<1>6. NetEvent(HeadOf(r, g))
  BY <1>2, <1>5, NetQueueFacts DEF HeadOf
<1>7. \A o \in G : o # g => g[1] # o[1] /\ HeadOf(r, g).h.next # HeadOf(r, o).h.next
  BY <1>1 DEF Conflict
<1>8. QED BY <1>2, <1>3, <1>4, <1>5, <1>6, <1>7

(* A port after its own head has left.                                     *)
LEMMA AfterRecvIs ==
    ASSUME PortsOK, NEW r \in Routers, NEW G \in Grants(r), NEW p \in PortNumbers,
           NEW x, x = PortEnd(r, p), NEW k, k = AfterRecv(r, p, G)
    PROVE  /\ PortOK(x, k)
           /\ \A v \in VCs : k.input_buf[v] =
                 IF <<p, v>> \in G THEN RouteHead(x, Tail(pc[x].input_buf[v])) ELSE pc[x].input_buf[v]
           /\ k.output_buf = pc[x].output_buf
           /\ k.xbar_in_credits = pc[x].xbar_in_credits
           /\ k.port_out_credits = pc[x].port_out_credits
<1>1. x \in Ports /\ PortOK(x, pc[x])
  BY EndsAre DEF PortsOK
<1>2. CASE \E g \in G : g[1] = p
  <2>1. PICK g : g = CHOOSE h \in G : h[1] = p
    OBVIOUS
  <2>2. g \in G /\ g[1] = p
    BY <1>2, <2>1
  <2>3. k = recv(pc[x], x, g[2])
    BY <1>2, <2>1, Zenon DEF AfterRecv
  <2>4. /\ g[2] \in VCs /\ g = <<p, g[2]>> /\ pc[x].input_buf[g[2]] # <<>>
        /\ \A o \in G : o # g => o[1] # p
    BY <2>2, GrantFacts
  <2>5. \A v \in VCs : <<p, v>> \in G <=> v = g[2]
    BY <2>2, <2>4
  <2>6. /\ PortOK(x, k)
        /\ \A w \in VCs : k.input_buf[w] =
                 IF w = g[2] THEN RouteHead(x, Tail(pc[x].input_buf[g[2]])) ELSE pc[x].input_buf[w]
        /\ k.output_buf = pc[x].output_buf
        /\ k.xbar_in_credits = pc[x].xbar_in_credits
        /\ k.port_out_credits = pc[x].port_out_credits
    BY <1>1, <2>3, <2>4, RecvPort
  <2>7. QED BY <2>5, <2>6
<1>3. CASE ~ \E g \in G : g[1] = p
  <2>1. k = pc[x]
    BY <1>3 DEF AfterRecv
  <2>2. \A v \in VCs : <<p, v>> \notin G
    BY <1>3
  <2>3. QED BY <1>1, <2>1, <2>2
<1>4. QED BY <1>2, <1>3

(* A port after all moves of a cycle.                                      *)
LEMMA AfterMovesIs ==
    ASSUME PortsOK, NEW r \in Routers, NEW G \in Grants(r), NEW p \in PortNumbers,
           NEW x, x = PortEnd(r, p), NEW k, k = AfterMoves(r, p, G)
    PROVE  /\ PortOK(x, k)
           /\ \A v \in VCs : k.input_buf[v] =
                 IF <<p, v>> \in G THEN RouteHead(x, Tail(pc[x].input_buf[v])) ELSE pc[x].input_buf[v]
           /\ k.port_out_credits = pc[x].port_out_credits
           /\ \/ /\ \A g \in G : HeadOf(r, g).h.next # p
                 /\ k.output_buf = pc[x].output_buf
                 /\ k.xbar_in_credits = pc[x].xbar_in_credits
              \/ \E g \in G : HeadOf(r, g).h.next = p /\ \A v \in VCs :
                    /\ k.output_buf[v] = IF v = HeadOf(r, g).h.vc
                                         THEN Append(pc[x].output_buf[v], HeadOf(r, g))
                                         ELSE pc[x].output_buf[v]
                    /\ k.xbar_in_credits[v] = IF v = HeadOf(r, g).h.vc
                                              THEN pc[x].xbar_in_credits[v] - Size(HeadOf(r, g))
                                              ELSE pc[x].xbar_in_credits[v]
<1>1. PICK j : j = AfterRecv(r, p, G)
  OBVIOUS
<1>2. /\ PortOK(x, j)
      /\ \A v \in VCs : j.input_buf[v] =
                 IF <<p, v>> \in G THEN RouteHead(x, Tail(pc[x].input_buf[v])) ELSE pc[x].input_buf[v]
      /\ j.output_buf = pc[x].output_buf
      /\ j.xbar_in_credits = pc[x].xbar_in_credits
      /\ j.port_out_credits = pc[x].port_out_credits
  BY <1>1, AfterRecvIs
<1>3. CASE \E g \in G : HeadOf(r, g).h.next = p
  <2>1. PICK g : g = CHOOSE h \in G : HeadOf(r, h).h.next = p
    OBVIOUS
  <2>2. g \in G /\ HeadOf(r, g).h.next = p
    BY <1>3, <2>1
  <2>3. PICK ev : ev = HeadOf(r, g)
    OBVIOUS
  <2>4. k = send(j, ev)
    BY <1>1, <1>3, <2>1, <2>3, Zenon DEF AfterMoves
  <2>5. NetEvent(ev)
    BY <2>2, <2>3, GrantFacts
  <2>6. PortShape(j)
    BY <1>2 DEF PortOK
  <2>7. /\ PortOK(x, k) /\ k.input_buf = j.input_buf /\ k.port_out_credits = j.port_out_credits
        /\ \A v \in VCs :
                 /\ k.output_buf[v] =
                       IF v = ev.h.vc THEN Append(j.output_buf[v], ev) ELSE j.output_buf[v]
                 /\ k.xbar_in_credits[v] =
                       IF v = ev.h.vc THEN j.xbar_in_credits[v] - Size(ev) ELSE j.xbar_in_credits[v]
    BY <2>4, <2>5, <2>6, SendPort
  <2>8. \A v \in VCs :
                 /\ k.output_buf[v] =
                       IF v = ev.h.vc THEN Append(pc[x].output_buf[v], ev) ELSE pc[x].output_buf[v]
                 /\ k.xbar_in_credits[v] =
                       IF v = ev.h.vc THEN pc[x].xbar_in_credits[v] - Size(ev) ELSE pc[x].xbar_in_credits[v]
    BY <1>2, <2>7
  <2>9. QED BY <1>2, <2>2, <2>3, <2>7, <2>8
<1>4. CASE ~ \E g \in G : HeadOf(r, g).h.next = p
  <2>1. k = j
    BY <1>1, <1>4 DEF AfterMoves
  <2>2. QED BY <1>2, <1>4, <2>1
<1>5. QED BY <1>3, <1>4

Moves(r, G) ==
    /\ pc' = [x \in Ports |-> IF x[2] = r THEN AfterMoves(r, x[3], G) ELSE pc[x]]
    /\ credit' = CreditsBack(r, G)

(* The moves of a cycle keep every port as it should be.                   *)
LEMMA MovesPorts ==
    ASSUME PortsOK, NEW r \in Routers, NEW G \in Grants(r), Moves(r, G)
    PROVE  /\ PortsOK'
           /\ \A x \in Ports : x[2] # r => pc'[x] = pc[x]
           /\ \A p \in PortNumbers : pc'[PortEnd(r, p)] = AfterMoves(r, p, G)
<1>1. \A x \in Ports : x[2] # r => pc'[x] = pc[x]
  BY DEF Moves
<1>2. ASSUME NEW p \in PortNumbers PROVE pc'[PortEnd(r, p)] = AfterMoves(r, p, G)
  <2>1. PICK x : x = PortEnd(r, p)
    OBVIOUS
  <2>2. x \in Ports /\ x[2] = r /\ x[3] = p
    BY <2>1, EndsAre
  <2>3. pc'[x] = AfterMoves(r, x[3], G)
    BY <2>2 DEF Moves
  <2>4. QED BY <2>1, <2>2, <2>3
<1>3. ASSUME NEW x \in Ports PROVE PortOK(x, pc'[x])
  <2>1. CASE x[2] = r
    <3>1. x[3] \in PortNumbers /\ x = PortEnd(r, x[3])
      BY <2>1, EndsAre
    <3>2. pc'[x] = AfterMoves(r, x[3], G)
      BY <1>2, <3>1
    <3>3. QED BY <3>1, <3>2, AfterMovesIs
  <2>2. CASE x[2] # r
    BY <1>1, <2>2 DEF PortsOK
  <2>3. QED BY <2>1, <2>2
<1>4. pc' = [x \in Ports |-> pc'[x]]
  BY DEF Moves
<1>5. PortsOK'
  BY <1>3, <1>4 DEF PortsOK
<1>6. QED BY <1>1, <1>2, <1>5

(* The credits that go back, by the end that they go to. *)
LEMMA MovesCredits ==
    ASSUME LinksOK, PortsOK, NEW r \in Routers, NEW G \in Grants(r), Moves(r, G)
    PROVE  /\ credit' = [x \in Ends |-> credit'[x]]
           /\ \A x \in Ends :
                 \/ credit'[x] = credit[x] /\ \A g \in G : Other[PortEnd(r, g[1])] # x
                 \/ \E g \in G :
                       /\ Other[PortEnd(r, g[1])] = x
                       /\ credit'[x] = Append(credit[x],
                             Credit(ReturnVC(PortEnd(r, g[1]), HeadOf(r, g), g[2]), Size(HeadOf(r, g))))
<1>1. credit' = CreditsBack(r, G)
  BY DEF Moves
<1>2. credit' = [x \in Ends |-> credit'[x]]
  BY <1>1 DEF CreditsBack
<1>3. ASSUME NEW x \in Ends
      PROVE  \/ credit'[x] = credit[x] /\ \A g \in G : Other[PortEnd(r, g[1])] # x
             \/ \E g \in G :
                       /\ Other[PortEnd(r, g[1])] = x
                       /\ credit'[x] = Append(credit[x],
                             Credit(ReturnVC(PortEnd(r, g[1]), HeadOf(r, g), g[2]), Size(HeadOf(r, g))))
  <2>1. CASE \E g \in G : Other[PortEnd(r, g[1])] = x
    <3>1. PICK g : g = CHOOSE h \in G : Other[PortEnd(r, h[1])] = x
      OBVIOUS
    <3>2. g \in G /\ Other[PortEnd(r, g[1])] = x
      BY <2>1, <3>1
    <3>3. CreditsBack(r, G)[x] = Append(credit[x],
                             Credit(ReturnVC(PortEnd(r, g[1]), HeadOf(r, g), g[2]), Size(HeadOf(r, g))))
      BY <2>1, <3>1, Zenon DEF CreditsBack
    <3>4. QED BY <1>1, <3>2, <3>3
  <2>2. CASE ~ \E g \in G : Other[PortEnd(r, g[1])] = x
    <3>1. CreditsBack(r, G)[x] = credit[x]
      BY <2>2 DEF CreditsBack
    <3>2. QED BY <1>1, <2>2, <3>1
  <2>3. QED BY <2>1, <2>2
<1>4. QED BY <1>2, <1>3

(* The credit that a move gives back.                                      *)
LEMMA ReturnVCIs ==
    ASSUME PortsOK, NEW r \in Routers, NEW G \in Grants(r), NEW g \in G
    PROVE  Credit(ReturnVC(PortEnd(r, g[1]), HeadOf(r, g), g[2]), Size(HeadOf(r, g))) \in CreditEvents
<1>1. NetEvent(HeadOf(r, g)) /\ g[2] \in VCs
  BY GrantFacts
<1>2. Size(HeadOf(r, g)) \in Nat /\ VN(HeadOf(r, g)) \in Nat /\ g[2] \in Nat
  BY <1>1, SizeType, VCsAre DEF NetEvent
<1>3. ReturnVC(PortEnd(r, g[1]), HeadOf(r, g), g[2]) \in Nat
  BY <1>2 DEF ReturnVC
<1>4. QED BY <1>2, <1>3 DEF Credit, CreditEvents

Occupied(r) == {g \in PortNumbers \X VCs : pc[PortEnd(r, g[1])].input_buf[g[2]] # <<>>}

RouterCount(r) == /\ rtr[r].vcs_with_data = Cardinality(Occupied(r))
                  /\ ~rtr[r].clocking => rtr[r].vcs_with_data = 0

(* RouterAwake, router by router.                                          *)
LEMMA AwakeIs == RouterAwake <=> \A r \in Routers : RouterCount(r)
BY Zenon DEF RouterAwake, RouterCount, Occupied

(* A router has finitely many VCs.                                         *)
LEMMA PlacesFinite ==
    ASSUME NEW S \in SUBSET (PortNumbers \X VCs)
    PROVE  IsFiniteSet(S) /\ Cardinality(S) \in Nat
<1>1. Alg \in Algorithms
  BY LinkAssumption DEF Algorithms, Grids
<1>2. PICK m \in Nat : PortNumbers = 0 .. m
  <2>1. PICK l \in Nat, n \in Nat \ {0} : l = LocalPortStart(Alg) /\ n = LocalPorts
    BY <1>1, StartPorts, ShapeAssumption
  <2>2. PICK m \in Nat : m = l + n - 1
    <3>1. l + n - 1 \in Nat
      OBVIOUS
    <3>2. QED BY <3>1
  <2>3. QED BY <2>1, <2>2 DEF PortNumbers
<1>3. IsFiniteSet(0 .. m)
  BY FS_Interval
<1>4. PICK n \in Int : VCs = 0 .. n
  <2>1. getVCsPerVN(Alg) = 1 \/ getVCsPerVN(Alg) = 2
    BY LinkAssumption DEF getVCsPerVN
  <2>2. PICK i \in Nat : i = NumVNs
    BY LinkAssumption
  <2>3. i * 1 - 1 \in Int /\ i * 2 - 1 \in Int
    OBVIOUS
  <2>4. NumVNs * getVCsPerVN(Alg) - 1 \in Int
    BY <2>1, <2>2, <2>3
  <2>5. QED BY <2>4 DEF VCs
<1>5. IsFiniteSet(0 .. n)
  BY FS_Interval
<1>6. IsFiniteSet(PortNumbers \X VCs)
  BY <1>2, <1>3, <1>4, <1>5, FS_Product
<1>7. QED BY <1>6, FS_Subset, FS_CardinalityType

(* What leaves the input buffers alone leaves the count alone.             *)
LEMMA OccupiedSame ==
    ASSUME NEW r \in Routers,
           \A p \in PortNumbers : pc'[PortEnd(r, p)].input_buf = pc[PortEnd(r, p)].input_buf
    PROVE  Occupied(r)' = Occupied(r)
<1>1. ASSUME NEW g \in PortNumbers \X VCs PROVE g \in Occupied(r)' <=> g \in Occupied(r)
  BY DEF Occupied
<1>2. QED BY <1>1 DEF Occupied

(* notifyEvent switches the clock on and leaves the count alone.           *)
LEMMA NotifyIs ==
    ASSUME NEW c, c = TRUE \/ c = FALSE, NEW n, NEW i, NEW o, NEW k, k = RouterRecord(c, n, i, o),
           NEW z \in notifyEvent(k)
    PROVE  /\ z = RouterRecord(z.clocking, n, z.in_port_busy, z.out_port_busy)
           /\ z.clocking = TRUE
<1>1. k.clocking = c /\ k.vcs_with_data = n /\ k.in_port_busy = i /\ k.out_port_busy = o
  BY DEF RouterRecord
<1>2. CASE c = TRUE
  <2>1. z = k
    BY <1>1, <1>2 DEF notifyEvent
  <2>2. QED BY <1>1, <1>2, <2>1
<1>3. CASE c = FALSE
  <2>1. PICK e \in {1, 2} :
          z = [k EXCEPT !.clocking = TRUE,
                    !.in_port_busy  = [p \in PortNumbers |-> Less(@[p], e)],
                    !.out_port_busy = [p \in PortNumbers |-> Less(@[p], e)]]
    BY <1>1, <1>3 DEF notifyEvent
  <2>2. PICK yes, j, q : /\ yes = TRUE /\ j = [p \in PortNumbers |-> Less(k.in_port_busy[p], e)]
                         /\ q = [p \in PortNumbers |-> Less(k.out_port_busy[p], e)]
    OBVIOUS
  <2>3. z = [k EXCEPT !.clocking = yes, !.in_port_busy = j, !.out_port_busy = q]
    BY <2>1, <2>2, Zenon
  <2>4. z = [[[k EXCEPT !.clocking = yes] EXCEPT !.in_port_busy = j] EXCEPT !.out_port_busy = q]
    BY <2>3
  <2>5. [k EXCEPT !.clocking = yes] = RouterRecord(yes, n, i, o)
    BY DEF RouterRecord
  <2>6. [RouterRecord(yes, n, i, o) EXCEPT !.in_port_busy = j] = RouterRecord(yes, n, j, o)
    BY DEF RouterRecord
  <2>7. [RouterRecord(yes, n, j, o) EXCEPT !.out_port_busy = q] = RouterRecord(yes, n, j, q)
    BY DEF RouterRecord
  <2>8. z = RouterRecord(yes, n, j, q)
    BY <2>4, <2>5, <2>6, <2>7
  <2>9. z.clocking = yes /\ z.in_port_busy = j /\ z.out_port_busy = q
    BY <2>8 DEF RouterRecord
  <2>10. QED BY <2>2, <2>8, <2>9
<1>4. QED BY <1>2, <1>3

(* A router's record is replaced. *)
LEMMA RouterStep ==
    ASSUME RoutersOK, RouterAwake, NEW r \in Routers, NEW c \in BOOLEAN, NEW n, NEW i, NEW o,
           rtr' = [rtr EXCEPT ![r] = RouterRecord(c, n, i, o)],
           n = Cardinality(Occupied(r)'), ~c => n = 0,
           \A q \in Routers : q # r => Occupied(q)' = Occupied(q)
    PROVE  RoutersOK' /\ RouterAwake'
<1>1. PICK k : k = RouterRecord(c, n, i, o)
  OBVIOUS
<1>2. k.clocking = c /\ k.vcs_with_data = n /\ k.in_port_busy = i /\ k.out_port_busy = o
  BY <1>1 DEF RouterRecord
<1>3. DOMAIN rtr = Routers
  BY DEF RoutersOK
<1>4. rtr' = [q \in Routers |-> rtr'[q]] /\ rtr'[r] = k /\ \A q \in Routers : q # r => rtr'[q] = rtr[q]
  BY <1>1, <1>3
<1>5. ASSUME NEW q \in Routers
      PROVE  /\ rtr'[q].clocking \in BOOLEAN
             /\ rtr'[q] = RouterRecord(rtr'[q].clocking, rtr'[q].vcs_with_data,
                                       rtr'[q].in_port_busy, rtr'[q].out_port_busy)
             /\ rtr'[q].vcs_with_data = Cardinality(Occupied(q)')
             /\ ~rtr'[q].clocking => rtr'[q].vcs_with_data = 0
  <2>1. CASE q = r
    BY <1>1, <1>2, <1>4, <2>1
  <2>2. CASE q # r
    <3>1. rtr'[q] = rtr[q] /\ Occupied(q)' = Occupied(q)
      BY <1>4, <2>2
    <3>2. RouterCount(q)
      BY AwakeIs
    <3>3. QED BY <3>1, <3>2 DEF RouterCount, RoutersOK
  <2>3. QED BY <2>1, <2>2
<1>6. RoutersOK'
  BY <1>4, <1>5 DEF RoutersOK
<1>7. \A q \in Routers : RouterCount(q)'
  BY <1>5 DEF RouterCount
<1>8. RouterAwake'
  BY <1>7, Zenon DEF RouterAwake, RouterCount, Occupied
<1>9. QED BY <1>6, <1>8

(* A packet that arrives: the router's count is right and its clock is on. *)
LEMMA PacketRouters ==
    ASSUME LinksOK, PortsOK, RoutersOK, RouterAwake, NEW port \in Ports, Packet(port)
    PROVE  RoutersOK' /\ RouterAwake'
<1>1. PICK ev : ev = Received(port, Head(data[port]))
  OBVIOUS
<1>2. PCPacket(port)
  BY DEF Packet
<1>3. /\ OtherPorts(port) /\ data[port] # <<>>
      /\ \A v \in VCs : pc'[port].input_buf[v] =
            IF v = ev.h.vc THEN Queued(port, pc[port].input_buf[v], ev) ELSE pc[port].input_buf[v]
  BY <1>1, <1>2, PCPacketEffect
<1>4. NetEvent(ev)
  BY <1>1, <1>3, ReceivedIs
<1>5. PICK r \in Routers, p \in PortNumbers : port = PortEnd(r, p) /\ r = port[2]
  BY EndsAre
<1>6. \A v \in VCs : NetQueue(pc[port].input_buf[v])
  BY DEF PortsOK, PortOK, PortShape, Buffers
<1>7. \A v \in VCs : pc[port].input_buf[v] # <<>> => pc'[port].input_buf[v] # <<>>
  BY <1>3, <1>4, <1>6, QueuedIs
<1>8. ASSUME NEW q \in Routers, NEW s \in PortNumbers, q # r \/ s # p
      PROVE  pc'[PortEnd(q, s)] = pc[PortEnd(q, s)]
  <2>1. PortEnd(q, s) \in Ports /\ PortEnd(q, s)[2] = q /\ PortEnd(q, s)[3] = s
    BY EndsAre
  <2>2. PortEnd(r, p)[2] = r /\ PortEnd(r, p)[3] = p
    BY EndsAre
  <2>3. PortEnd(q, s) # port
    BY <1>5, <1>8, <2>1, <2>2
  <2>4. QED BY <1>3, <2>1, <2>3 DEF OtherPorts
<1>9. \A q \in Routers : q # r => Occupied(q)' = Occupied(q)
  BY <1>8, OccupiedSame
<1>10. PICK head : head = \E v \in VCs : pc[port].input_buf[v] = <<>> /\ pc'[port].input_buf[v] # <<>>
  OBVIOUS
<1>11. PICK c, n, i, o : /\ rtr[r] = RouterRecord(c, n, i, o) /\ c \in BOOLEAN
                         /\ c = rtr[r].clocking /\ n = rtr[r].vcs_with_data
  BY DEF RoutersOK
<1>12. n = Cardinality(Occupied(r))
  BY <1>11, AwakeIs DEF RouterCount
<1>13. PICK m : m = IF head THEN n + 1 ELSE n
  OBVIOUS
<1>14. Cardinality(Occupied(r)') = m
  <2>1. CASE head
    <3>1. PICK v \in VCs : pc[port].input_buf[v] = <<>> /\ pc'[port].input_buf[v] # <<>>
      BY <1>10, <2>1
    <3>2. v = ev.h.vc
      BY <1>3, <3>1
    <3>3. ASSUME NEW g \in PortNumbers \X VCs
          PROVE  g \in Occupied(r)' <=> (g \in Occupied(r) \/ g = <<p, v>>)
      <4>1. g = <<g[1], g[2]>> /\ g[1] \in PortNumbers /\ g[2] \in VCs
        OBVIOUS
      <4>2. CASE g[1] = p /\ g[2] = v
        BY <1>5, <3>1, <4>1, <4>2 DEF Occupied
      <4>3. CASE g[1] = p /\ g[2] # v
        <5>1. pc'[port].input_buf[g[2]] = pc[port].input_buf[g[2]]
          BY <1>3, <3>2, <4>1, <4>3
        <5>2. g # <<p, v>>
          BY <4>3
        <5>3. QED BY <1>5, <4>3, <5>1, <5>2 DEF Occupied
      <4>4. CASE g[1] # p
        <5>1. pc'[PortEnd(r, g[1])] = pc[PortEnd(r, g[1])]
          BY <1>8, <4>1, <4>4
        <5>2. g # <<p, v>>
          BY <4>4
        <5>3. QED BY <5>1, <5>2 DEF Occupied
      <4>5. QED BY <4>2, <4>3, <4>4
    <3>4. <<p, v>> \notin Occupied(r) /\ <<p, v>> \in PortNumbers \X VCs
      BY <1>5, <3>1 DEF Occupied
    <3>5. Occupied(r)' = Occupied(r) \cup {<<p, v>>}
      BY <3>3, <3>4 DEF Occupied
    <3>6. IsFiniteSet(Occupied(r))
      BY PlacesFinite DEF Occupied
    <3>7. Cardinality(Occupied(r) \cup {<<p, v>>}) = Cardinality(Occupied(r)) + 1
      BY <3>4, <3>6, FS_AddElement
    <3>8. QED BY <1>12, <1>13, <2>1, <3>5, <3>7
  <2>2. CASE ~head
    <3>1. ASSUME NEW g \in PortNumbers \X VCs
          PROVE  g \in Occupied(r)' <=> g \in Occupied(r)
      <4>1. g = <<g[1], g[2]>> /\ g[1] \in PortNumbers /\ g[2] \in VCs
        OBVIOUS
      <4>2. CASE g[1] = p
        <5>1. pc[port].input_buf[g[2]] = <<>> <=> pc'[port].input_buf[g[2]] = <<>>
          BY <1>7, <1>10, <2>2, <4>1
        <5>2. QED BY <1>5, <4>2, <5>1 DEF Occupied
      <4>4. CASE g[1] # p
        <5>1. pc'[PortEnd(r, g[1])] = pc[PortEnd(r, g[1])]
          BY <1>8, <4>1, <4>4
        <5>2. QED BY <5>1 DEF Occupied
      <4>5. QED BY <4>2, <4>4
    <3>2. Occupied(r)' = Occupied(r)
      BY <3>1 DEF Occupied
    <3>3. QED BY <1>12, <1>13, <2>2, <3>2
  <2>3. QED BY <2>1, <2>2
<1>15. \E z \in notifyEvent(RouterRecord(c, m, i, o)) : rtr' = [rtr EXCEPT ![r] = z]
  <2>1. PICK k : k = [rtr[r] EXCEPT !.vcs_with_data = IF head THEN @ + 1 ELSE @]
    OBVIOUS
  <2>2. \E z \in notifyEvent(k) : rtr' = [rtr EXCEPT ![r] = z]
    BY <1>5, <1>10, <2>1, Zenon DEF Packet
  <2>3. k = [rtr[r] EXCEPT !.vcs_with_data = m]
    BY <1>11, <1>13, <2>1
  <2>4. k = RouterRecord(c, m, i, o)
    BY <1>11, <2>3 DEF RouterRecord
  <2>5. QED BY <2>2, <2>4
<1>16. PICK z \in notifyEvent(RouterRecord(c, m, i, o)) : rtr' = [rtr EXCEPT ![r] = z]
  BY <1>15
<1>17. z = RouterRecord(z.clocking, m, z.in_port_busy, z.out_port_busy) /\ z.clocking = TRUE
  <2>1. PICK k : k = RouterRecord(c, m, i, o)
    OBVIOUS
  <2>2. z \in notifyEvent(k) /\ (c = TRUE \/ c = FALSE)
    BY <1>11, <1>16, <2>1
  <2>3. QED BY <2>1, <2>2, NotifyIs
<1>18. QED BY <1>9, <1>14, <1>16, <1>17, RouterStep

(* A cycle of the router: the VCs that become empty are those it counts.   *)
LEMMA ClockMoves ==
    ASSUME PortsOK, RoutersOK, RouterAwake, NEW r \in Routers, NEW G \in Grants(r), Moves(r, G)
    PROVE  /\ Cardinality(Occupied(r)') = rtr[r].vcs_with_data - Cardinality(Emptied(r, G))
           /\ \A q \in Routers : q # r => Occupied(q)' = Occupied(q)
<1>1. /\ \A x \in Ports : x[2] # r => pc'[x] = pc[x]
      /\ \A p \in PortNumbers : pc'[PortEnd(r, p)] = AfterMoves(r, p, G)
  BY MovesPorts
<1>2. ASSUME NEW q \in Routers, q # r PROVE Occupied(q)' = Occupied(q)
  <2>1. \A p \in PortNumbers : pc'[PortEnd(q, p)] = pc[PortEnd(q, p)]
    BY <1>1, <1>2, EndsAre
  <2>2. QED BY <2>1, OccupiedSame
<1>3. G \subseteq Occupied(r)
  <2>1. ASSUME NEW g \in G PROVE g \in Occupied(r)
    BY GrantFacts DEF Occupied
  <2>2. QED BY <2>1
<1>4. ASSUME NEW g \in PortNumbers \X VCs
      PROVE  g \in Occupied(r)' <=> (g \in Occupied(r) /\ g \notin Emptied(r, G))
  <2>1. PICK p \in PortNumbers, v \in VCs : g = <<p, v>>
    OBVIOUS
  <2>2. PICK x, a : x = PortEnd(r, p) /\ a = pc[x].input_buf[v]
    OBVIOUS
  <2>3. g[1] = p /\ g[2] = v /\ x \in Ports
    BY <2>1, <2>2, EndsAre
  <2>4. pc'[x].input_buf[v] = IF <<p, v>> \in G THEN RouteHead(x, Tail(a)) ELSE a
    <3>1. PICK k : k = pc'[x]
      OBVIOUS
    <3>2. k = AfterMoves(r, p, G)
      BY <1>1, <2>2, <3>1
    <3>3. \A u \in VCs : k.input_buf[u] =
                 IF <<p, u>> \in G THEN RouteHead(x, Tail(pc[x].input_buf[u])) ELSE pc[x].input_buf[u]
      BY <2>2, <3>2, AfterMovesIs
    <3>4. QED BY <2>2, <3>1, <3>3
  <2>5. NetQueue(a)
    BY <2>2, <2>3 DEF PortsOK, PortOK, PortShape, Buffers
  <2>6. /\ g \in Occupied(r)' <=> pc'[x].input_buf[v] # <<>>
        /\ g \in Occupied(r) <=> a # <<>>
        /\ g \in Emptied(r, G) <=> (g \in G /\ Len(a) = 1)
    BY <2>1, <2>2, <2>3 DEF Occupied, Emptied
  <2>7. CASE g \in G
    <3>1. a # <<>>
      BY <1>3, <2>6, <2>7
    <3>2. NetQueue(Tail(a)) /\ Len(Tail(a)) = Len(a) - 1 /\ Len(a) \in Nat
      BY <2>5, <3>1, NetTail, NetQueueFacts
    <3>3. NetQueue(RouteHead(x, Tail(a))) /\ Len(RouteHead(x, Tail(a))) = Len(a) - 1
      BY <3>2, RouteHeadIs
    <3>4. RouteHead(x, Tail(a)) = <<>> <=> Len(a) - 1 = 0
      BY <3>3, NetQueueFacts
    <3>5. QED BY <2>1, <2>4, <2>6, <2>7, <3>1, <3>2, <3>4
  <2>8. CASE g \notin G
    BY <2>1, <2>4, <2>6, <2>8
  <2>9. QED BY <2>7, <2>8
<1>5. Occupied(r)' = Occupied(r) \ Emptied(r, G)
  BY <1>4 DEF Occupied
<1>6. Occupied(r) \cap Emptied(r, G) = Emptied(r, G)
  BY <1>3 DEF Emptied
<1>7. IsFiniteSet(Occupied(r))
  BY PlacesFinite DEF Occupied
<1>8. Cardinality(Occupied(r) \ Emptied(r, G)) = Cardinality(Occupied(r)) - Cardinality(Emptied(r, G))
  BY <1>6, <1>7, FS_Difference
<1>9. rtr[r].vcs_with_data = Cardinality(Occupied(r))
  BY AwakeIs DEF RouterCount
<1>10. QED BY <1>2, <1>5, <1>8, <1>9

(* What a cycle of a router does. *)
LEMMA ClockEffect ==
    ASSUME PortsOK, RoutersOK, RouterAwake, NEW r \in Routers, clock_handler(r)
    PROVE  /\ data' = data /\ lc' = lc /\ sent' = sent /\ delivered' = delivered
           /\ RoutersOK' /\ RouterAwake'
           /\ (pc' = pc /\ credit' = credit) \/ \E G \in Grants(r) : Moves(r, G)
<1>1. PICK c, n, i, o : /\ rtr[r] = RouterRecord(c, n, i, o) /\ c \in BOOLEAN
                        /\ c = rtr[r].clocking /\ n = rtr[r].vcs_with_data
                        /\ i = rtr[r].in_port_busy /\ o = rtr[r].out_port_busy
  BY DEF RoutersOK
<1>2. data' = data /\ lc' = lc /\ sent' = sent /\ delivered' = delivered /\ c = TRUE
  BY <1>1 DEF clock_handler
<1>3. n = Cardinality(Occupied(r))
  BY <1>1, AwakeIs DEF RouterCount
<1>4. CASE n = 0 /\ rtr' = [rtr EXCEPT ![r].clocking = FALSE] /\ pc' = pc /\ credit' = credit
  <2>1. PICK no : no = FALSE
    OBVIOUS
  <2>2. [rtr[r] EXCEPT !.clocking = no] = RouterRecord(no, n, i, o)
    BY <1>1 DEF RouterRecord
  <2>3. rtr' = [rtr EXCEPT ![r] = RouterRecord(no, n, i, o)]
    BY <1>4, <2>1, <2>2
  <2>4. \A q \in Routers : Occupied(q)' = Occupied(q)
    BY <1>4 DEF Occupied
  <2>5. no \in BOOLEAN /\ n = Cardinality(Occupied(r)') /\ (~no => n = 0)
    BY <1>3, <1>4, <2>1, <2>4
  <2>6. RoutersOK' /\ RouterAwake'
    BY <2>3, <2>4, <2>5, RouterStep
  <2>7. QED BY <1>2, <1>4, <2>6
<1>5. ASSUME NEW G \in Grants(r), Moves(r, G),
             rtr' = [rtr EXCEPT
                      ![r].vcs_with_data = @ - Cardinality(Emptied(r, G)),
                      ![r].in_port_busy  = BusyAfter(@, r, [g \in G |-> g[1]]),
                      ![r].out_port_busy = BusyAfter(@, r, [g \in G |-> HeadOf(r, g).h.next])]
      PROVE  RoutersOK' /\ RouterAwake'
  <2>1. PICK m, j, q : /\ m = rtr[r].vcs_with_data - Cardinality(Emptied(r, G))
                       /\ j = BusyAfter(rtr[r].in_port_busy, r, [g \in G |-> g[1]])
                       /\ q = BusyAfter(rtr[r].out_port_busy, r, [g \in G |-> HeadOf(r, g).h.next])
    OBVIOUS
  <2>2. rtr' = [rtr EXCEPT ![r].vcs_with_data = m, ![r].in_port_busy = j, ![r].out_port_busy = q]
    BY <1>5, <2>1, Zenon
  <2>3. rtr' = [rtr EXCEPT ![r] = [[[rtr[r] EXCEPT !.vcs_with_data = m] EXCEPT !.in_port_busy = j]
                                      EXCEPT !.out_port_busy = q]]
    BY <2>2 DEF RoutersOK
  <2>4. [rtr[r] EXCEPT !.vcs_with_data = m] = RouterRecord(c, m, i, o)
    BY <1>1 DEF RouterRecord
  <2>5. [RouterRecord(c, m, i, o) EXCEPT !.in_port_busy = j] = RouterRecord(c, m, j, o)
    BY DEF RouterRecord
  <2>6. [RouterRecord(c, m, j, o) EXCEPT !.out_port_busy = q] = RouterRecord(c, m, j, q)
    BY DEF RouterRecord
  <2>7. rtr' = [rtr EXCEPT ![r] = RouterRecord(c, m, j, q)]
    BY <2>3, <2>4, <2>5, <2>6
  <2>8. /\ Cardinality(Occupied(r)') = m
        /\ \A z \in Routers : z # r => Occupied(z)' = Occupied(z)
    BY <1>5, <2>1, ClockMoves
  <2>9. c \in BOOLEAN /\ m = Cardinality(Occupied(r)') /\ (~c => m = 0)
    BY <1>1, <1>2, <2>8
  <2>10. QED BY <2>7, <2>8, <2>9, RouterStep
<1>6. \/ n = 0 /\ rtr' = [rtr EXCEPT ![r].clocking = FALSE] /\ pc' = pc /\ credit' = credit
      \/ \E G \in Grants(r) :
            /\ Moves(r, G)
            /\ rtr' = [rtr EXCEPT
                      ![r].vcs_with_data = @ - Cardinality(Emptied(r, G)),
                      ![r].in_port_busy  = BusyAfter(@, r, [g \in G |-> g[1]]),
                      ![r].out_port_busy = BusyAfter(@, r, [g \in G |-> HeadOf(r, g).h.next])]
  BY <1>1, Zenon DEF clock_handler, Moves
<1>7. QED BY <1>2, <1>4, <1>5, <1>6

OnLink(x, q) == IF x \in Nics \cup HostPorts THEN q \in Seq(NicEvents) ELSE NetQueue(q)

(* What is on a link.                                                      *)
LEMMA OnLinkIs == ASSUME LinksOK, NEW x \in Ends PROVE OnLink(x, data[x])
BY EndsAre DEF LinksOK, OnLink

(* Links on which only credits change.                                     *)
LEMMA CreditStep ==
    ASSUME LinksOK, data' = data, credit' = [x \in Ends |-> credit'[x]],
           \A x \in Ends : credit'[x] \in Seq(CreditEvents)
    PROVE  LinksOK'
<1>1. credit' \in [Ends -> Seq(CreditEvents)]
  OBVIOUS
<1>2. QED BY <1>1 DEF LinksOK

(* Links on which only packets change.                                     *)
LEMMA DataStep ==
    ASSUME LinksOK, credit' = credit, data' = [x \in Ends |-> data'[x]],
           \A x \in Ends : OnLink(x, data'[x])
    PROVE  LinksOK'
<1>1. \A x \in Nics \cup HostPorts : data'[x] \in Seq(NicEvents)
  BY EndsAre DEF OnLink
<1>2. \A x \in Ports \ HostPorts : NetQueue(data'[x])
  BY EndsAre DEF OnLink
<1>3. QED BY <1>1, <1>2 DEF LinksOK

(* A credit is taken from a link.                                          *)
LEMMA CreditTaken ==
    ASSUME LinksOK, data' = data, NEW n \in Ends, credit[n] # <<>>,
           credit' = [x \in Ends |-> IF x = n THEN Tail(credit[x]) ELSE credit[x]]
    PROVE  LinksOK'
<1>1. ASSUME NEW x \in Ends PROVE credit'[x] \in Seq(CreditEvents)
  <2>1. credit[x] \in Seq(CreditEvents)
    BY DEF LinksOK
  <2>2. CASE x = n
    <3>1. credit'[x] = Tail(credit[x])
      BY <2>2
    <3>2. QED BY <2>2, <3>1, CreditQueue
  <2>3. CASE x # n
    BY <2>1, <2>3
  <2>4. QED BY <2>2, <2>3
<1>2. credit' = [x \in Ends |-> credit'[x]]
  OBVIOUS
<1>3. QED BY <1>1, <1>2, CreditStep

(* A credit is sent.                                                       *)
LEMMA CreditGiven ==
    ASSUME LinksOK, data' = data, NEW n \in Ends, NEW e \in CreditEvents,
           credit' = [x \in Ends |-> IF x = n THEN Append(credit[x], e) ELSE credit[x]]
    PROVE  LinksOK'
<1>1. ASSUME NEW x \in Ends PROVE credit'[x] \in Seq(CreditEvents)
  <2>1. credit[x] \in Seq(CreditEvents)
    BY DEF LinksOK
  <2>2. Append(credit[x], e) \in Seq(CreditEvents)
    BY <2>1, NicQueue
  <2>3. QED BY <2>1, <2>2
<1>2. credit' = [x \in Ends |-> credit'[x]]
  OBVIOUS
<1>3. QED BY <1>1, <1>2, CreditStep

(* A packet is taken from a link.                                          *)
LEMMA DataTaken ==
    ASSUME LinksOK, credit' = credit, NEW n \in Ends, data[n] # <<>>,
           data' = [x \in Ends |-> IF x = n THEN Tail(data[x]) ELSE data[x]]
    PROVE  LinksOK'
<1>1. ASSUME NEW x \in Ends PROVE OnLink(x, data'[x])
  <2>1. OnLink(x, data[x])
    BY OnLinkIs
  <2>2. CASE x = n
    <3>1. data'[x] = Tail(data[x]) /\ data[x] # <<>>
      BY <2>2
    <3>2. CASE x \in Nics \cup HostPorts
      <4>1. data[x] \in Seq(NicEvents)
        BY <2>1, <3>2 DEF OnLink
      <4>2. Tail(data[x]) \in Seq(NicEvents)
        BY <3>1, <4>1, NicQueue
      <4>3. QED BY <3>1, <3>2, <4>2 DEF OnLink
    <3>3. CASE x \notin Nics \cup HostPorts
      BY <2>1, <3>1, <3>3, NetTail DEF OnLink
    <3>4. QED BY <3>2, <3>3
  <2>3. CASE x # n
    BY <2>1, <2>3
  <2>4. QED BY <2>2, <2>3
<1>2. data' = [x \in Ends |-> data'[x]]
  OBVIOUS
<1>3. QED BY <1>1, <1>2, DataStep

(* A packet is sent.                                                       *)
LEMMA DataGiven ==
    ASSUME LinksOK, credit' = credit, NEW n \in Ends, NEW ev,
           IF n \in Nics \cup HostPorts THEN ev \in NicEvents ELSE NetEvent(ev),
           data' = [x \in Ends |-> IF x = n THEN Append(data[x], ev) ELSE data[x]]
    PROVE  LinksOK'
<1>1. ASSUME NEW x \in Ends PROVE OnLink(x, data'[x])
  <2>1. OnLink(x, data[x])
    BY OnLinkIs
  <2>2. CASE x = n
    <3>1. data'[x] = Append(data[x], ev)
      BY <2>2
    <3>2. CASE x \in Nics \cup HostPorts
      <4>1. data[x] \in Seq(NicEvents) /\ ev \in NicEvents
        BY <2>1, <2>2, <3>2 DEF OnLink
      <4>2. Append(data[x], ev) \in Seq(NicEvents)
        BY <4>1, NicQueue
      <4>3. QED BY <3>1, <3>2, <4>2 DEF OnLink
    <3>3. CASE x \notin Nics \cup HostPorts
      BY <2>1, <2>2, <3>1, <3>3, NetAppend DEF OnLink
    <3>4. QED BY <3>2, <3>3
  <2>3. CASE x # n
    BY <2>1, <2>3
  <2>4. QED BY <2>2, <2>3
<1>2. data' = [x \in Ends |-> data'[x]]
  OBVIOUS
<1>3. QED BY <1>1, <1>2, DataStep

(* A packet as it leaves a router.                                         *)
LEMMA SentIs ==
    ASSUME NEW port \in Ports, NEW ev, NetEvent(ev)
    PROVE  /\ IF Other[port] \in Nics \cup HostPorts THEN Sent(port, ev) \in NicEvents
              ELSE NetEvent(Sent(port, ev))
           /\ Sent(port, ev).route = ev.route
           /\ port \notin HostPorts => Sent(port, ev) = ev
<1>1. port \in HostPorts <=> Other[port] \in Nics
  BY OtherIs, EndsAre
<1>2. Other[port] \notin HostPorts
  BY OtherIs, EndsAre
<1>3. CASE port \in HostPorts
  <2>1. Sent(port, ev) = [route |-> ev.route, seq |-> ev.seq]
    BY <1>3 DEF Sent, isHost, Event
  <2>2. Sent(port, ev) \in NicEvents /\ Sent(port, ev).route = ev.route
    BY <2>1 DEF NetEvent, NicEvents
  <2>3. QED BY <1>1, <1>3, <2>2
<1>4. CASE port \notin HostPorts
  BY <1>1, <1>2, <1>4 DEF Sent, isHost
<1>5. QED BY <1>3, <1>4

(* No port changes.                                                        *)
LEMMA PortsFrame == ASSUME PortsOK, pc' = pc PROVE PortsOK'
BY DEF PortsOK

(* No endpoint changes.                                                    *)
LEMMA NicsFrame == ASSUME NicsOK, lc' = lc PROVE NicsOK'
BY DEF NicsOK

(* No link changes.                                                        *)
LEMMA LinksFrame == ASSUME LinksOK, data' = data, credit' = credit PROVE LinksOK'
BY DEF LinksOK

(* No router and no input buffer changes.                                  *)
LEMMA RoutersFrame ==
    ASSUME RoutersOK, RouterAwake, rtr' = rtr,
           \A x \in Ports : pc'[x].input_buf = pc[x].input_buf
    PROVE  RoutersOK' /\ RouterAwake'
<1>1. RoutersOK'
  BY DEF RoutersOK
<1>2. ASSUME NEW r \in Routers PROVE RouterCount(r)'
  <2>1. Occupied(r)' = Occupied(r)
    BY EndsAre, OccupiedSame
  <2>2. RouterCount(r)
    BY AwakeIs
  <2>3. QED BY <2>1, <2>2 DEF RouterCount
<1>3. RouterAwake'
  BY <1>2, Zenon DEF RouterAwake, RouterCount, Occupied
<1>4. QED BY <1>1, <1>3

-----------------------------------------------------------------------------
(* The initial state satisfies the invariant.                              *)
LEMMA InitOK == Init => IInv
<1> SUFFICES ASSUME Init PROVE IInv
  OBVIOUS
<1>1. LinksOK
  <2>1. <<>> \in Seq(CreditEvents) /\ <<>> \in Seq(NicEvents) /\ NetQueue(<<>>)
    BY NetEmpty
  <2>2. data = [x \in Ends |-> <<>>] /\ credit = [x \in Ends |-> <<>>]
    BY DEF Init, LinkInit
  <2>3. credit \in [Ends -> Seq(CreditEvents)]
    BY <2>1, <2>2
  <2>4. data = [x \in Ends |-> data[x]]
    BY <2>2
  <2>5. \A x \in Ends : data[x] = <<>>
    BY <2>2
  <2>6. \A x \in Nics \cup HostPorts : data[x] \in Seq(NicEvents)
    <3>1. \A x \in Nics \cup HostPorts : data[x] = <<>>
      BY <2>5, EndsAre
    <3>2. QED BY <2>1, <3>1
  <2>7. \A x \in Ports \ HostPorts : NetQueue(data[x])
    <3>1. \A x \in Ports \ HostPorts : data[x] = <<>>
      BY <2>5, EndsAre
    <3>2. QED BY <2>1, <3>1
  <2>8. QED BY <2>3, <2>4, <2>6, <2>7 DEF LinksOK
<1>2. NicsOK
  <2>1. lc = [n \in Nics |-> NewLinkControl]
    BY DEF Init
  <2>2. PICK k : k = NewLinkControl
    OBVIOUS
  <2>3. /\ k \in NicRecord /\ k.waiting = TRUE /\ k.timers = 0 /\ k.have_packets = FALSE
        /\ \A v \in VNs : k.output_queues[v] = <<>>
    <3>1. <<>> \in Seq(NicEvents) /\ NicOut \in Int /\ RouterIn \in Int
      BY BufferAssumption
    <3>2. [v \in VNs |-> <<>>] \in [VNs -> Seq(NicEvents)]
      BY <3>1
    <3>3. [v \in VNs |-> NicOut] \in [VNs -> Int] /\ [v \in VNs |-> RouterIn] \in [VNs -> Int]
      BY <3>1
    <3>4. QED BY <2>2, <3>2, <3>3 DEF NewLinkControl, NicRecord
  <2>4. \A v \in VNs : k.output_queues[v] \in Seq(NicEventsOf(v))
    <3>1. ASSUME NEW S PROVE <<>> \in Seq(S)
      OBVIOUS
    <3>2. QED BY <2>3, <3>1
  <2>5. NicOK(k)
    BY <2>3, <2>4 DEF NicOK, NicShape, NicRecord, NicSleepOK
  <2>6. QED BY <2>1, <2>2, <2>5 DEF NicsOK
<1>3. PortsOK /\ \A x \in Ports, v \in VCs : pc[x].input_buf[v] = <<>>
  <2>1. pc = [x \in Ports |-> NewPortControl(x)]
    BY DEF Init
  <2>2. ASSUME NEW x \in Ports PROVE PortOK(x, pc[x]) /\ \A v \in VCs : pc[x].input_buf[v] = <<>>
    <3>1. PICK a, b, c, d, w, t :
            /\ a = [v \in VCs |-> <<>>] /\ b = [v \in VCs |-> <<>>] /\ c = [v \in VCs |-> RouterOut]
            /\ d = [v \in VCs |-> IF ~isHost(x) THEN RouterIn ELSE IF v \in VNs THEN NicIn ELSE 0]
            /\ w = TRUE /\ t = 0
      OBVIOUS
    <3>2. pc[x] = PortRecord(a, b, c, d, w, t)
      BY <2>1, <3>1, Zenon DEF NewPortControl, PortRecord
    <3>3. Buffers(a) /\ Buffers(b)
      BY <3>1, NetEmpty DEF Buffers
    <3>4. c \in [VCs -> Int]
      BY <3>1, RouterOutAssumption
    <3>5. d \in [VCs -> Int]
      <4>1. RouterIn \in Int /\ NicIn \in Int /\ 0 \in Int
        BY BufferAssumption
      <4>2. QED BY <3>1, <4>1
    <3>6. PortShape(pc[x])
      BY <3>1, <3>2, <3>3, <3>4, <3>5, MakePort
    <3>7. pc[x].output_buf = b /\ pc[x].input_buf = a
      BY <3>2, RecordFields
    <3>8. PortSleepOK(x, pc[x])
      BY <3>1, <3>7 DEF PortSleepOK
    <3>9. QED BY <3>1, <3>6, <3>7, <3>8 DEF PortOK
  <2>3. QED BY <2>1, <2>2 DEF PortsOK
<1>4. SentOK
  BY DEF Init, SentOK
<1>5. PICK z, yes, i, o : z = 0 /\ yes = TRUE /\ i = [p \in PortNumbers |-> 0] /\ o = [p \in PortNumbers |-> 0]
  OBVIOUS
<1>6. rtr = [r \in Routers |-> RouterRecord(yes, z, i, o)]
  BY <1>5, Zenon DEF Init, RouterRecord
<1>7. \A r \in Routers : rtr[r] = RouterRecord(yes, z, i, o)
  BY <1>6
<1>8. PICK k : k = RouterRecord(yes, z, i, o)
  OBVIOUS
<1>9. k.clocking = yes /\ k.vcs_with_data = z /\ k.in_port_busy = i /\ k.out_port_busy = o
  BY <1>8 DEF RouterRecord
<1>10. RoutersOK
  BY <1>5, <1>6, <1>7, <1>8, <1>9 DEF RoutersOK
<1>11. RouterAwake
  <2>1. ASSUME NEW r \in Routers PROVE RouterCount(r)
    <3>1. \A p \in PortNumbers, v \in VCs : pc[PortEnd(r, p)].input_buf[v] = <<>>
      BY <1>3, EndsAre
    <3>2. Occupied(r) = {}
      BY <3>1 DEF Occupied
    <3>3. Cardinality({}) = 0
      BY FS_EmptySet
    <3>4. rtr[r].clocking = TRUE /\ rtr[r].vcs_with_data = 0
      BY <1>5, <1>7, <1>8, <1>9
    <3>5. QED BY <3>2, <3>3, <3>4 DEF RouterCount
  <2>2. QED BY <2>1, AwakeIs
<1>12. QED BY <1>1, <1>2, <1>3, <1>4, <1>10, <1>11 DEF IInv

(* The event that an endpoint sends.                                       *)
LEMMA EventIs ==
    ASSUME NEW rt \in Routes, NEW n \in Nat
    PROVE  /\ Event(rt, n) \in NicEvents /\ VN(Event(rt, n)) = rt[3] /\ NicEnd(rt[1]) \in Nics
BY RouteVN DEF Event, NicEvents, VN, Nics

(* The moves of a cycle put nothing but credits on the links.              *)
LEMMA MovesLinks ==
    ASSUME LinksOK, PortsOK, NEW r \in Routers, NEW G \in Grants(r), Moves(r, G), data' = data
    PROVE  LinksOK'
<1>1. credit' = [x \in Ends |-> credit'[x]]
  BY MovesCredits
<1>2. ASSUME NEW x \in Ends PROVE credit'[x] \in Seq(CreditEvents)
  <2>1. credit[x] \in Seq(CreditEvents)
    BY DEF LinksOK
  <2>2. \/ credit'[x] = credit[x]
        \/ \E g \in G :
              credit'[x] = Append(credit[x],
                             Credit(ReturnVC(PortEnd(r, g[1]), HeadOf(r, g), g[2]), Size(HeadOf(r, g))))
    BY MovesCredits
  <2>3. ASSUME NEW e \in CreditEvents PROVE Append(credit[x], e) \in Seq(CreditEvents)
    BY <2>1, NicQueue
  <2>4. QED BY <2>1, <2>2, <2>3, ReturnVCIs
<1>3. QED BY <1>1, <1>2, CreditStep

(* An endpoint sends.                                                      *)
LEMMA SendOK == ASSUME IInv, NEW rt \in Routes, Send(rt) PROVE IInv'
<1>1. PICK n, ev : n = NicEnd(rt[1]) /\ ev = Event(rt, sent[rt])
  OBVIOUS
<1>2. sent[rt] \in Nat /\ sent \in [Routes -> Nat]
  BY DEF IInv, SentOK
<1>3. n \in Nics /\ ev \in NicEvents
  BY <1>1, <1>2, EventIs
<1>4. LCSend(n, ev) /\ pc' = pc /\ rtr' = rtr /\ sent' = [sent EXCEPT ![rt] = @ + 1]
  BY <1>1 DEF Send
<1>5. NicsOK' /\ data' = data /\ credit' = credit
  BY <1>3, <1>4, LCSendEffect DEF IInv
<1>6. LinksOK' /\ PortsOK' /\ RoutersOK' /\ RouterAwake'
  BY <1>4, <1>5, LinksFrame, PortsFrame, RoutersFrame DEF IInv
<1>7. SentOK'
  BY <1>2, <1>4 DEF SentOK
<1>8. QED BY <1>5, <1>6, <1>7 DEF IInv

(* An endpoint receives.                                                   *)
LEMMA RecvOK == ASSUME IInv, NEW n \in Nics, NEW v \in VNs, Recv(n, v) PROVE IInv'
<1>1. LCRecv(n, v) /\ pc' = pc /\ rtr' = rtr /\ sent' = sent
  BY DEF Recv
<1>2. PICK ev, e : ev = Head(lc[n].input_queues[v]) /\ e = Credit(v, Size(ev))
  OBVIOUS
<1>3. /\ NicsOK' /\ data' = data /\ ev \in NicEvents
      /\ credit' = [x \in Ends |-> IF x = Other[n] THEN Append(credit[x], e) ELSE credit[x]]
  BY <1>1, <1>2, LCRecvEffect DEF IInv
<1>4. e \in CreditEvents
  <2>1. Size(ev) \in Nat /\ v \in Nat
    BY <1>3, NicEventSize, VCsAre
  <2>2. QED BY <1>2, <2>1 DEF Credit, CreditEvents
<1>5. Other[n] \in Ends
  BY OtherIs, EndsAre
<1>6. LinksOK'
  BY <1>3, <1>4, <1>5, CreditGiven DEF IInv
<1>7. PortsOK' /\ RoutersOK' /\ RouterAwake' /\ SentOK'
  BY <1>1, PortsFrame, RoutersFrame DEF IInv, SentOK
<1>8. QED BY <1>3, <1>6, <1>7 DEF IInv

(* The steps of a LinkControl.                                             *)
LEMMA NicOKStep == ASSUME IInv, NEW n \in Nics, Nic(n) PROVE IInv'
<1>1. pc' = pc /\ rtr' = rtr /\ sent' = sent
  BY DEF Nic
<1>2. PortsOK' /\ RoutersOK' /\ RouterAwake' /\ SentOK'
  BY <1>1, PortsFrame, RoutersFrame DEF IInv, SentOK
<1>3. n \in Ends
  BY EndsAre
<1>4. CASE LCCredit(n)
  <2>1. /\ NicsOK' /\ data' = data /\ credit[n] # <<>>
        /\ credit' = [x \in Ends |-> IF x = n THEN Tail(credit[x]) ELSE credit[x]]
    BY <1>4, LCCreditEffect DEF IInv
  <2>2. LinksOK'
    BY <1>3, <2>1, CreditTaken DEF IInv
  <2>3. QED BY <1>2, <2>1, <2>2 DEF IInv
<1>5. CASE LCPacket(n)
  <2>1. /\ NicsOK' /\ credit' = credit /\ data[n] # <<>>
        /\ data' = [x \in Ends |-> IF x = n THEN Tail(data[x]) ELSE data[x]]
    BY <1>5, LCPacketEffect DEF IInv
  <2>2. LinksOK'
    BY <1>3, <2>1, DataTaken DEF IInv
  <2>3. QED BY <1>2, <2>1, <2>2 DEF IInv
<1>6. CASE LCOutput(n)
  <2>1. NicsOK' /\ credit' = credit /\ ((\E v \in VNs : NicSends(n, v)) \/ NicSleeps(n))
    BY <1>6, LCOutputEffect DEF IInv
  <2>2. CASE \E v \in VNs : NicSends(n, v)
    <3>1. PICK v \in VNs : NicSends(n, v)
      BY <2>2
    <3>2. PICK ev : ev = Head(lc[n].output_queues[v])
      OBVIOUS
    <3>3. /\ lc[n].output_queues[v] # <<>>
          /\ data' = [x \in Ends |-> IF x = Other[n] THEN Append(data[x], ev) ELSE data[x]]
      BY <3>1, <3>2 DEF NicSends
    <3>4. ev \in NicEvents
      <4>1. lc[n].output_queues[v] \in Seq(NicEventsOf(v))
        BY DEF IInv, NicsOK, NicOK, NicShape
      <4>2. QED BY <3>2, <3>3, <4>1, NicQueue DEF NicEventsOf
    <3>5. Other[n] \in Ends /\ Other[n] \in HostPorts
      BY <1>3, OtherIs
    <3>6. LinksOK'
      BY <2>1, <3>3, <3>4, <3>5, DataGiven DEF IInv
    <3>7. QED BY <1>2, <2>1, <3>6 DEF IInv
  <2>3. CASE NicSleeps(n)
    <3>1. LinksOK'
      BY <2>1, <2>3, LinksFrame DEF IInv, NicSleeps
    <3>2. QED BY <1>2, <2>1, <3>1 DEF IInv
  <2>4. QED BY <2>1, <2>2, <2>3
<1>7. QED BY <1>4, <1>5, <1>6 DEF Nic

(* A packet arrives at a router.                                           *)
LEMMA PacketOK == ASSUME IInv, NEW x \in Ports, Packet(x) PROVE IInv'
<1>1. PCPacket(x) /\ sent' = sent
  BY DEF Packet
<1>2. /\ PortsOK' /\ credit' = credit /\ lc' = lc /\ data[x] # <<>>
      /\ data' = [y \in Ends |-> IF y = x THEN Tail(data[y]) ELSE data[y]]
  <2>1. PICK ev : ev = Received(x, Head(data[x]))
    OBVIOUS
  <2>2. QED BY <1>1, <2>1, PCPacketEffect DEF IInv
<1>3. LinksOK'
  BY <1>2, EndsAre, DataTaken DEF IInv
<1>4. RoutersOK' /\ RouterAwake'
  BY PacketRouters DEF IInv
<1>5. NicsOK' /\ SentOK'
  BY <1>1, <1>2, NicsFrame DEF IInv, SentOK
<1>6. QED BY <1>2, <1>3, <1>4, <1>5 DEF IInv

(* One port changes, but not its input buffer.                             *)
LEMMA InputSame ==
    ASSUME NEW port \in Ports, OtherPorts(port), pc'[port].input_buf = pc[port].input_buf
    PROVE  \A x \in Ports : pc'[x].input_buf = pc[x].input_buf
BY DEF OtherPorts

(* The other steps of a port.                                              *)
LEMMA PortOKStep == ASSUME IInv, NEW port \in Ports, Port(port) PROVE IInv'
<1>1. rtr' = rtr /\ sent' = sent /\ port \in Ends
  BY EndsAre DEF Port
<1>2. CASE PCCredit(port)
  <2>1. /\ PortsOK' /\ OtherPorts(port) /\ data' = data /\ lc' = lc
        /\ credit[port] # <<>>
        /\ credit' = [x \in Ends |-> IF x = port THEN Tail(credit[x]) ELSE credit[x]]
        /\ pc'[port].input_buf = pc[port].input_buf
    BY <1>2, PCCreditEffect DEF IInv
  <2>2. LinksOK'
    BY <1>1, <2>1, CreditTaken DEF IInv
  <2>3. RoutersOK' /\ RouterAwake'
    BY <1>1, <2>1, InputSame, RoutersFrame DEF IInv
  <2>4. NicsOK' /\ SentOK'
    BY <1>1, <2>1, NicsFrame DEF IInv, SentOK
  <2>5. QED BY <2>1, <2>2, <2>3, <2>4 DEF IInv
<1>3. CASE PCOutput(port)
  <2>1. /\ PortsOK' /\ OtherPorts(port) /\ credit' = credit /\ lc' = lc
        /\ pc'[port].input_buf = pc[port].input_buf
        /\ (\E v \in VCs : PortSends(port, v)) \/ PortSleeps(port)
    BY <1>3, PCOutputEffect DEF IInv
  <2>2. LinksOK'
    <3>1. CASE \E v \in VCs : PortSends(port, v)
      <4>1. PICK v \in VCs : PortSends(port, v)
        BY <3>1
      <4>2. PICK ev, e : ev = Head(pc[port].output_buf[v]) /\ e = Sent(port, ev)
        OBVIOUS
      <4>3. /\ pc[port].output_buf[v] # <<>>
            /\ data' = [x \in Ends |-> IF x = Other[port] THEN Append(data[x], e) ELSE data[x]]
        BY <4>1, <4>2 DEF PortSends
      <4>4. NetEvent(ev)
        <5>1. NetQueue(pc[port].output_buf[v])
          BY DEF IInv, PortsOK, PortOK, PortShape, Buffers
        <5>2. QED BY <4>2, <4>3, <5>1, NetQueueFacts
      <4>5. IF Other[port] \in Nics \cup HostPorts THEN e \in NicEvents ELSE NetEvent(e)
        BY <4>2, <4>4, SentIs
      <4>6. Other[port] \in Ends
        BY <1>1, OtherIs
      <4>7. QED BY <2>1, <4>3, <4>5, <4>6, DataGiven DEF IInv
    <3>2. CASE PortSleeps(port)
      BY <2>1, <3>2, LinksFrame DEF IInv, PortSleeps
    <3>3. QED BY <2>1, <3>1, <3>2
  <2>3. RoutersOK' /\ RouterAwake'
    BY <1>1, <2>1, InputSame, RoutersFrame DEF IInv
  <2>4. NicsOK' /\ SentOK'
    BY <1>1, <2>1, NicsFrame DEF IInv, SentOK
  <2>5. QED BY <2>1, <2>2, <2>3, <2>4 DEF IInv
<1>4. QED BY <1>2, <1>3 DEF Port

(* A cycle of a router.                                                    *)
LEMMA ClockOK == ASSUME IInv, NEW r \in Routers, clock_handler(r) PROVE IInv'
<1>1. /\ data' = data /\ lc' = lc /\ sent' = sent
      /\ RoutersOK' /\ RouterAwake'
      /\ (pc' = pc /\ credit' = credit) \/ \E G \in Grants(r) : Moves(r, G)
  BY ClockEffect DEF IInv
<1>2. NicsOK' /\ SentOK'
  BY <1>1, NicsFrame DEF IInv, SentOK
<1>3. CASE pc' = pc /\ credit' = credit
  <2>1. LinksOK' /\ PortsOK'
    BY <1>1, <1>3, LinksFrame, PortsFrame DEF IInv
  <2>2. QED BY <1>1, <1>2, <2>1 DEF IInv
<1>4. CASE \E G \in Grants(r) : Moves(r, G)
  <2>1. LinksOK' /\ PortsOK'
    BY <1>1, <1>4, MovesLinks, MovesPorts DEF IInv
  <2>2. QED BY <1>1, <1>2, <2>1 DEF IInv
<1>5. QED BY <1>1, <1>3, <1>4

(* A step that changes nothing.                                            *)
LEMMA FrameOK == ASSUME IInv, UNCHANGED vars PROVE IInv'
<1>1. /\ data' = data /\ credit' = credit /\ lc' = lc /\ pc' = pc /\ rtr' = rtr /\ sent' = sent
  BY DEF vars
<1>2. QED BY <1>1, LinksFrame, NicsFrame, PortsFrame, RoutersFrame DEF IInv, SentOK

(* The invariant is inductive.                                             *)
LEMMA NextOK == IInv /\ [Next]_vars => IInv'
<1> SUFFICES ASSUME IInv, [Next]_vars PROVE IInv'
  OBVIOUS
<1>1. CASE UNCHANGED vars
  BY <1>1, FrameOK
<1>2. CASE \E rt \in Routes : Send(rt)
  BY <1>2, SendOK
<1>3. CASE \E n \in Nics, v \in VNs : Recv(n, v)
  BY <1>3, RecvOK
<1>4. CASE \E n \in Nics : Nic(n)
  BY <1>4, NicOKStep
<1>5. CASE \E x \in Ports : Packet(x) \/ Port(x)
  BY <1>5, PacketOK, PortOKStep
<1>6. CASE \E r \in Routers : clock_handler(r)
  BY <1>6, ClockOK
<1>7. CASE Stop
  BY <1>7, FrameOK DEF Stop
<1>8. QED BY <1>1, <1>2, <1>3, <1>4, <1>5, <1>6, <1>7 DEF Next, Step

(* The inductive invariant holds of every behaviour of the network,        *)
(* whatever its shape, routes and buffers.                                 *)
THEOREM Invariance == Spec => []IInv
<1>1. Init => IInv
  BY InitOK
<1>2. IInv /\ [Next]_vars => IInv'
  BY NextOK
<1>3. QED BY <1>1, <1>2, PTL DEF Spec

(* handle_output is never scheduled twice: whether a packet from the       *)
(* crossbar, a packet from the endpoint or a credit wakes an output, it    *)
(* has one output_timing event on its way, and none while it sleeps.       *)
THEOREM SingleTimer == Spec => []OneTimer
<1>1. IInv => OneTimer
  <2> SUFFICES ASSUME IInv PROVE OneTimer
    OBVIOUS
  <2>1. \A n \in Nics : lc[n].timers = IF lc[n].waiting THEN 0 ELSE 1
    BY DEF IInv, NicsOK, NicOK, NicShape
  <2>2. \A x \in Ports : pc[x].timers = IF pc[x].waiting THEN 0 ELSE 1
    BY DEF IInv, PortsOK, PortOK, PortShape
  <2>3. QED BY <2>1, <2>2 DEF OneTimer
<1>2. QED BY <1>1, Invariance, PTL

(* No output sleeps for ever over a packet: a port that waits has no       *)
(* packet with credits, because a credit and a packet from the crossbar    *)
(* both wake it; a LinkControl that waits although it has packets with     *)
(* credits (send does not wake it if have_packets is set) has another one  *)
(* that lacks credits, and the credit that comes for it is the wake-up.    *)
THEOREM WakeupsKept == Spec => []NoLostWakeup
<1>1. IInv => NoLostWakeup
  <2> SUFFICES ASSUME IInv PROVE NoLostWakeup
    OBVIOUS
  <2>1. ASSUME NEW x \in Ports, pc[x].waiting PROVE arbitrate(x) = {}
    <3>1. PortSleepOK(x, pc[x])
      BY DEF IInv, PortsOK, PortOK
    <3>2. QED BY <2>1, <3>1 DEF PortSleepOK, arbitrate
  <2>2. ASSUME NEW n \in Nics, lc[n].waiting, Sendable(lc[n]) # {}
        PROVE  \E v \in VNs : lc[n].router_credits[v] < RouterIn /\ lc[n].output_queues[v] # <<>>
    <3>1. NicOK(lc[n])
      BY DEF IInv, NicsOK
    <3>2. PICK u \in VNs : lc[n].output_queues[u] # <<>>
      BY <2>2 DEF Sendable
    <3>3. \E v \in VNs : Blocked(lc[n], v)
      BY <2>2, <3>1, <3>2 DEF NicOK, NicSleepOK
    <3>4. PICK v \in VNs : Blocked(lc[n], v)
      BY <3>3
    <3>5. /\ lc[n].output_queues[v] # <<>>
          /\ lc[n].router_credits[v] < Size(Head(lc[n].output_queues[v]))
      BY <3>4 DEF Blocked
    <3>6. PICK s : s = Size(Head(lc[n].output_queues[v]))
      OBVIOUS
    <3>7. s \in Nat /\ s <= RouterIn /\ lc[n].router_credits[v] \in Int
      <4>1. lc[n].output_queues[v] \in Seq(NicEventsOf(v)) /\ lc[n].router_credits \in [VNs -> Int]
        BY <3>1 DEF NicOK, NicShape
      <4>2. Head(lc[n].output_queues[v]) \in NicEvents
        BY <3>5, <4>1, NicQueue DEF NicEventsOf
      <4>3. QED BY <3>6, <4>1, <4>2, NicEventSize
    <3>8. lc[n].router_credits[v] < RouterIn
      BY <3>5, <3>6, <3>7, BufferAssumption
    <3>9. QED BY <3>5, <3>8
  <2>3. QED BY <2>1, <2>2 DEF NoLostWakeup
<1>2. QED BY <1>1, Invariance, PTL

(* A router never stops its clock over a packet: the count vcs_with_data,  *)
(* which PortControl raises when a buffer gets its first packet and the    *)
(* crossbar lowers when it takes the last, is the number of VCs that hold  *)
(* one, and the clock is off only when it is zero.                         *)
THEOREM RoutersAwake == Spec => []RouterAwake
<1>1. IInv => RouterAwake
  BY DEF IInv
<1>2. QED BY <1>1, Invariance, PTL

-----------------------------------------------------------------------------
(***************************************************************************)
(* Credits are neither lost nor made up in a merlin network, for every     *)
(* shape of the machine, every set of routes and every buffer size.        *)
(*                                                                         *)
(* The invariant CInv has the sums of CreditsConserved and what they rest  *)
(* on, the VC of every packet: one in an output buffer is on that          *)
(* buffer's VC, one at a host port is on the first VC of its VN, and with  *)
(* DOR every packet is on the VC with the number of its VN.  A step of the *)
(* network is, for each link, one of four: room moves from the sender's    *)
(* credits to the link, from there to the receiver's buffer, back onto the *)
(* link as a credit, and home (LinkStep); LinkKept says that each of them  *)
(* keeps the sum.  The lemmas ...Steady show that an action takes each     *)
(* link through one of these steps.                                        *)
(***************************************************************************)

(* The flits in a queue, of some VNs; the credits in a queue, for a VC.    *)
EventQueue(q) == /\ Len(q) \in Nat /\ DOMAIN q = 1 .. Len(q)
                 /\ \A i \in 1 .. Len(q) : q[i].route \in Routes

Key(b, ev) == IF b THEN VN(ev) ELSE ev.h.vc
FlitsFor(b, q, V) == Total([i \in DOMAIN q |-> IF Key(b, q[i]) \in V THEN Size(q[i]) ELSE 0])
CreditsOf(q, v) == Total([i \in DOMAIN q |-> IF q[i].vc = v THEN q[i].credits ELSE 0])

(* A queue of packets inside the network,                                  *)
LEMMA NetIsQueue == ASSUME NEW q, NetQueue(q) PROVE EventQueue(q)
BY NetQueueFacts DEF EventQueue, NetEvent

(* of an endpoint,                                                         *)
LEMMA NicIsQueue == ASSUME NEW q \in Seq(NicEvents) PROVE EventQueue(q)
<1>1. Len(q) \in Nat /\ DOMAIN q = 1 .. Len(q)
  OBVIOUS
<1>2. \A i \in 1 .. Len(q) : q[i] \in NicEvents
  OBVIOUS
<1>3. QED BY <1>1, <1>2 DEF EventQueue, NicEvents

(* and of one VN of an endpoint.                                           *)
LEMMA NicOfIsQueue == ASSUME NEW v, NEW q \in Seq(NicEventsOf(v)) PROVE EventQueue(q)
<1>1. Len(q) \in Nat /\ DOMAIN q = 1 .. Len(q)
  OBVIOUS
<1>2. \A i \in 1 .. Len(q) : q[i] \in NicEventsOf(v)
  OBVIOUS
<1>3. QED BY <1>1, <1>2 DEF EventQueue, NicEvents, NicEventsOf

(* w holds what each event adds. *)
Weights(b, q, V, w) ==
    /\ w \in [1 .. Len(q) -> Nat] /\ FlitsFor(b, q, V) = Total(w)
    /\ \A i \in 1 .. Len(q) : w[i] = IF Key(b, q[i]) \in V THEN Size(q[i]) ELSE 0

(* What each event of a queue counts for.                                  *)
LEMMA WeightsAre == ASSUME NEW q, EventQueue(q), NEW b, NEW V PROVE \E w : Weights(b, q, V, w)
<1>0. PICK w : w = [i \in DOMAIN q |-> IF Key(b, q[i]) \in V THEN Size(q[i]) ELSE 0]
  OBVIOUS
<1>1. Len(q) \in Nat /\ DOMAIN q = 1 .. Len(q)
  BY DEF EventQueue
<1>2. ASSUME NEW i \in 1 .. Len(q)
      PROVE  (IF Key(b, q[i]) \in V THEN Size(q[i]) ELSE 0) \in Nat
  <2>1. q[i].route \in Routes
    BY DEF EventQueue
  <2>2. Size(q[i]) \in Nat
    BY <2>1, SizeType
  <2>3. QED BY <2>2
<1>3. w \in [1 .. Len(q) -> Nat]
  BY <1>0, <1>1, <1>2
<1>4. \A i \in 1 .. Len(q) : w[i] = IF Key(b, q[i]) \in V THEN Size(q[i]) ELSE 0
  BY <1>0, <1>1
<1>5. FlitsFor(b, q, V) = Total(w)
  BY <1>0 DEF FlitsFor
<1>6. Weights(b, q, V, w)
  BY <1>3, <1>4, <1>5 DEF Weights
<1>7. QED BY <1>6

(* An empty queue has no flits.                                            *)
LEMMA FlitsEmpty == ASSUME NEW b, NEW V PROVE EventQueue(<<>>) /\ FlitsFor(b, <<>>, V) = 0
<1>1. PICK q : q = <<>>
  OBVIOUS
<1>2. Len(q) = 0 /\ DOMAIN q = 1 .. 0
  BY <1>1
<1>3. EventQueue(q)
  BY <1>2 DEF EventQueue
<1>4. PICK n \in Nat : n = 0
  OBVIOUS
<1>5. PICK w : Weights(b, q, V, w)
  BY <1>3, WeightsAre
<1>6. Total(w) = 0
  <2>1. w \in [1 .. n -> Nat]
    BY <1>2, <1>4, <1>5 DEF Weights
  <2>2. QED BY <1>4, <2>1, TotalType
<1>7. QED BY <1>1, <1>3, <1>5, <1>6 DEF Weights

(* A number of flits is a natural number.                                  *)
LEMMA FlitsType == ASSUME NEW q, EventQueue(q), NEW b, NEW V PROVE FlitsFor(b, q, V) \in Nat
<1>1. Len(q) \in Nat
  BY DEF EventQueue
<1>2. PICK w : Weights(b, q, V, w)
  BY WeightsAre
<1>3. QED BY <1>1, <1>2, TotalType DEF Weights

(* p is q with ev at its end; p is q without its head. *)
IsAppend(p, q, ev) == /\ Len(p) = Len(q) + 1 /\ DOMAIN p = 1 .. Len(p)
                      /\ \A i \in 1 .. Len(q) : p[i] = q[i]
                      /\ p[Len(q) + 1] = ev
IsTail(p, q) == /\ Len(q) # 0 /\ Len(p) = Len(q) - 1 /\ DOMAIN p = 1 .. Len(p)
                /\ \A i \in 1 .. Len(q) - 1 : p[i] = q[i + 1]

(* One more event at the end. *)
LEMMA FlitsMore ==
    ASSUME NEW q, EventQueue(q), NEW p, NEW ev, ev.route \in Routes, NEW b, NEW V, IsAppend(p, q, ev)
    PROVE  /\ EventQueue(p)
           /\ FlitsFor(b, p, V) = FlitsFor(b, q, V) + IF Key(b, ev) \in V THEN Size(ev) ELSE 0
<1>1. PICK n \in Nat : n = Len(q)
  BY DEF EventQueue
<1>0. /\ Len(p) = n + 1 /\ DOMAIN p = 1 .. n + 1
      /\ \A i \in 1 .. n : p[i] = q[i]
      /\ p[n + 1] = ev
  BY <1>1 DEF IsAppend
<1>2. EventQueue(p)
  <2>1. \A i \in 1 .. n + 1 : p[i].route \in Routes
    BY <1>0, <1>1 DEF EventQueue
  <2>2. QED BY <1>0, <2>1 DEF EventQueue
<1>5. PICK w \in [1 .. n -> Nat] :
        /\ FlitsFor(b, q, V) = Total(w)
        /\ \A i \in 1 .. n : w[i] = IF Key(b, q[i]) \in V THEN Size(q[i]) ELSE 0
  <2>1. PICK w : Weights(b, q, V, w)
    BY WeightsAre
  <2>2. QED BY <1>1, <2>1 DEF Weights
<1>6. PICK u \in [1 .. n + 1 -> Nat] :
        /\ FlitsFor(b, p, V) = Total(u)
        /\ \A i \in 1 .. n + 1 : u[i] = IF Key(b, p[i]) \in V THEN Size(p[i]) ELSE 0
  <2>1. Len(p) = n + 1
    BY <1>0
  <2>2. PICK y : Weights(b, p, V, y)
    BY <1>2, WeightsAre
  <2>3. QED BY <2>1, <2>2 DEF Weights
<1>7. \A i \in 1 .. n : u[i] = w[i]
  BY <1>0, <1>5, <1>6
<1>8. Total(u) = Total(w) + u[n + 1]
  BY <1>5, <1>6, <1>7, TotalAppend
<1>9. u[n + 1] = IF Key(b, ev) \in V THEN Size(ev) ELSE 0
  BY <1>0, <1>6
<1>10. QED BY <1>2, <1>5, <1>6, <1>8, <1>9

(* The first event is gone. *)
LEMMA FlitsLess ==
    ASSUME NEW q, EventQueue(q), NEW p, NEW b, NEW V, IsTail(p, q)
    PROVE  /\ EventQueue(p) /\ q[1].route \in Routes
           /\ FlitsFor(b, q, V) = (IF Key(b, q[1]) \in V THEN Size(q[1]) ELSE 0) + FlitsFor(b, p, V)
<1>1. PICK n \in Nat : n = Len(q) - 1 /\ Len(q) = n + 1
  <2>1. Len(q) \in Nat
    BY DEF EventQueue
  <2>2. Len(q) - 1 \in Nat /\ Len(q) = (Len(q) - 1) + 1
    BY <2>1 DEF IsTail
  <2>3. QED BY <2>2
<1>0. /\ Len(p) = n /\ DOMAIN p = 1 .. n
      /\ \A i \in 1 .. n : p[i] = q[i + 1]
  BY <1>1 DEF IsTail
<1>2. q[1].route \in Routes
  BY <1>1 DEF EventQueue
<1>3. EventQueue(p)
  <2>1. \A i \in 1 .. n : i + 1 \in 1 .. n + 1
    OBVIOUS
  <2>2. \A i \in 1 .. n : p[i].route \in Routes
    BY <1>0, <1>1, <2>1 DEF EventQueue
  <2>3. QED BY <1>0, <2>2 DEF EventQueue
<1>6. PICK w \in [1 .. n + 1 -> Nat] :
        /\ FlitsFor(b, q, V) = Total(w)
        /\ \A i \in 1 .. n + 1 : w[i] = IF Key(b, q[i]) \in V THEN Size(q[i]) ELSE 0
  <2>1. Len(q) = n + 1
    BY <1>1
  <2>2. PICK y : Weights(b, q, V, y)
    BY WeightsAre
  <2>3. QED BY <2>1, <2>2 DEF Weights
<1>7. PICK u \in [1 .. n -> Nat] :
        /\ FlitsFor(b, p, V) = Total(u)
        /\ \A i \in 1 .. n : u[i] = IF Key(b, p[i]) \in V THEN Size(p[i]) ELSE 0
  <2>1. Len(p) = n
    BY <1>0
  <2>2. PICK y : Weights(b, p, V, y)
    BY <1>3, WeightsAre
  <2>3. QED BY <2>1, <2>2 DEF Weights
<1>8. \A i \in 1 .. n : u[i] = w[i + 1]
  <2>1. \A i \in 1 .. n : i + 1 \in 1 .. n + 1 /\ p[i] = q[i + 1]
    BY <1>0
  <2>2. QED BY <1>6, <1>7, <2>1
<1>9. Total(w) = w[1] + Total(u)
  BY <1>6, <1>7, <1>8, TotalTail
<1>10. w[1] = IF Key(b, q[1]) \in V THEN Size(q[1]) ELSE 0
  BY <1>6
<1>11. QED BY <1>2, <1>3, <1>6, <1>7, <1>9, <1>10

(* All the flits of a queue.                                               *)
LEMMA FlitsOfIs == ASSUME NEW q, EventQueue(q) PROVE FlitsOf(q) = FlitsFor(TRUE, q, VNs)
<1>1. PICK w : w = [i \in DOMAIN q |-> IF Key(TRUE, q[i]) \in VNs THEN Size(q[i]) ELSE 0]
  OBVIOUS
<1>2. PICK u : u = [i \in DOMAIN q |-> Size(q[i])]
  OBVIOUS
<1>3. \A i \in DOMAIN q : Key(TRUE, q[i]) \in VNs
  BY SizeType DEF EventQueue, Key
<1>4. u = w
  BY <1>1, <1>2, <1>3
<1>5. QED BY <1>1, <1>2, <1>4 DEF FlitsOf, FlitsFor

(* Headers do not count. *)
SameRoutes(p, q) == /\ Len(p) = Len(q) /\ DOMAIN p = 1 .. Len(p)
                    /\ \A i \in 1 .. Len(q) : p[i].route = q[i].route

(* The flits of a queue depend on the routes of its packets only.          *)
LEMMA FlitsSame ==
    ASSUME NEW q, EventQueue(q), NEW p, SameRoutes(p, q)
    PROVE  EventQueue(p) /\ FlitsOf(p) = FlitsOf(q)
<1>1. EventQueue(p)
  BY DEF EventQueue, SameRoutes
<1>2. DOMAIN p = DOMAIN q /\ \A i \in DOMAIN q : Size(p[i]) = Size(q[i])
  BY DEF EventQueue, SameRoutes, Size, VN
<1>3. [i \in DOMAIN p |-> Size(p[i])] = [i \in DOMAIN q |-> Size(q[i])]
  BY <1>2
<1>4. QED BY <1>1, <1>3 DEF FlitsOf

-----------------------------------------------------------------------------
(* What each credit event counts for.                                      *)
LEMMA CreditWeights ==
    ASSUME NEW q \in Seq(CreditEvents), NEW v
    PROVE  \E w \in [1 .. Len(q) -> Nat] :
              /\ CreditsOf(q, v) = Total(w)
              /\ \A i \in 1 .. Len(q) : w[i] = IF q[i].vc = v THEN q[i].credits ELSE 0
<1>0. PICK w : w = [i \in DOMAIN q |-> IF q[i].vc = v THEN q[i].credits ELSE 0]
  OBVIOUS
<1>1. Len(q) \in Nat /\ DOMAIN q = 1 .. Len(q)
  OBVIOUS
<1>2. ASSUME NEW i \in 1 .. Len(q)
      PROVE  (IF q[i].vc = v THEN q[i].credits ELSE 0) \in Nat
  <2>1. q[i] \in CreditEvents
    OBVIOUS
  <2>2. q[i].credits \in Nat
    BY <2>1 DEF CreditEvents
  <2>3. QED BY <2>2
<1>3. w \in [1 .. Len(q) -> Nat]
  BY <1>0, <1>1, <1>2
<1>4. CreditsOf(q, v) = Total(w)
  BY <1>0 DEF CreditsOf
<1>5. \A i \in 1 .. Len(q) : w[i] = IF q[i].vc = v THEN q[i].credits ELSE 0
  BY <1>0, <1>1
<1>6. QED BY <1>3, <1>4, <1>5

(* No credits in an empty queue.                                           *)
LEMMA CreditsEmpty == ASSUME NEW v PROVE CreditsOf(<<>>, v) = 0
<1>1. PICK q : q = <<>>
  OBVIOUS
<1>2. q \in Seq(CreditEvents)
  BY <1>1
<1>3. PICK w \in [1 .. Len(q) -> Nat] : CreditsOf(q, v) = Total(w)
  BY <1>2, CreditWeights
<1>4. PICK n \in Nat : n = 0
  OBVIOUS
<1>5. w \in [1 .. n -> Nat]
  BY <1>1, <1>3, <1>4
<1>6. Total(w) = 0
  BY <1>4, <1>5, TotalType
<1>7. QED BY <1>1, <1>3, <1>6

(* A number of credits is a natural number.                                *)
LEMMA CreditsOfType == ASSUME NEW q \in Seq(CreditEvents), NEW v PROVE CreditsOf(q, v) \in Nat
<1>1. Len(q) \in Nat
  OBVIOUS
<1>2. PICK w \in [1 .. Len(q) -> Nat] : CreditsOf(q, v) = Total(w)
  BY CreditWeights
<1>3. QED BY <1>1, <1>2, TotalType

(* One more credit event.                                                  *)
LEMMA CreditsLonger ==
    ASSUME NEW q \in Seq(CreditEvents), NEW p \in Seq(CreditEvents), NEW e, NEW v, IsAppend(p, q, e)
    PROVE  CreditsOf(p, v) = CreditsOf(q, v) + IF e.vc = v THEN e.credits ELSE 0
<1>2. PICK x \in [1 .. Len(p) -> Nat] :
        /\ CreditsOf(p, v) = Total(x)
        /\ \A i \in 1 .. Len(p) : x[i] = IF p[i].vc = v THEN p[i].credits ELSE 0
  BY CreditWeights
<1>3. /\ Len(p) = Len(q) + 1
      /\ \A i \in 1 .. Len(q) : p[i] = q[i]
      /\ p[Len(q) + 1] = e
  BY DEF IsAppend
<1>4. PICK n \in Nat : n = Len(q)
  OBVIOUS
<1>5. PICK w \in [1 .. n -> Nat] :
        /\ CreditsOf(q, v) = Total(w)
        /\ \A i \in 1 .. n : w[i] = IF q[i].vc = v THEN q[i].credits ELSE 0
  BY <1>4, CreditWeights
<1>6. PICK u \in [1 .. n + 1 -> Nat] :
        u = x /\ \A i \in 1 .. n + 1 : u[i] = IF p[i].vc = v THEN p[i].credits ELSE 0
  BY <1>2, <1>3, <1>4
<1>7. \A i \in 1 .. n : u[i] = w[i]
  BY <1>3, <1>4, <1>5, <1>6
<1>8. Total(u) = Total(w) + u[n + 1]
  BY <1>7, TotalAppend
<1>9. u[n + 1] = IF e.vc = v THEN e.credits ELSE 0
  BY <1>3, <1>4, <1>6
<1>10. QED BY <1>2, <1>5, <1>6, <1>8, <1>9

(* What a credit event adds. *)
Gain(e, v) == IF e.vc = v THEN e.credits ELSE 0

(* The same, as the steps use it.                                          *)
LEMMA CreditsMore ==
    ASSUME NEW q \in Seq(CreditEvents), NEW p \in Seq(CreditEvents), NEW e, NEW v, IsAppend(p, q, e)
    PROVE  CreditsOf(p, v) = CreditsOf(q, v) + Gain(e, v)
<1>1. PICK k : k = IF e.vc = v THEN e.credits ELSE 0
  OBVIOUS
<1>2. CreditsOf(p, v) = CreditsOf(q, v) + k
  BY <1>1, CreditsLonger
<1>3. QED BY <1>1, <1>2 DEF Gain

(* The first credit event is taken.                                        *)
LEMMA CreditsLess ==
    ASSUME NEW q \in Seq(CreditEvents), q # <<>>, NEW v
    PROVE  CreditsOf(q, v) = Gain(Head(q), v) + CreditsOf(Tail(q), v)
<1>1. PICK p : p = Tail(q)
  OBVIOUS
<1>2. /\ p \in Seq(CreditEvents) /\ Len(p) = Len(q) - 1 /\ Len(q) \in Nat /\ Len(q) # 0
      /\ \A i \in 1 .. Len(q) - 1 : p[i] = q[i + 1]
      /\ Head(q) = q[1]
  BY <1>1, NicQueue
<1>3. PICK n \in Nat : n = Len(q) - 1 /\ Len(q) = n + 1
  <2>1. Len(q) - 1 \in Nat /\ Len(q) = (Len(q) - 1) + 1
    BY <1>2
  <2>2. QED BY <2>1
<1>6. PICK w \in [1 .. n + 1 -> Nat] :
        /\ CreditsOf(q, v) = Total(w)
        /\ \A i \in 1 .. n + 1 : w[i] = IF q[i].vc = v THEN q[i].credits ELSE 0
  BY <1>3, CreditWeights
<1>7. PICK u \in [1 .. n -> Nat] :
        /\ CreditsOf(p, v) = Total(u)
        /\ \A i \in 1 .. n : u[i] = IF p[i].vc = v THEN p[i].credits ELSE 0
  <2>1. Len(p) = n
    BY <1>2, <1>3
  <2>2. \E y \in [1 .. Len(p) -> Nat] :
          /\ CreditsOf(p, v) = Total(y)
          /\ \A i \in 1 .. Len(p) : y[i] = IF p[i].vc = v THEN p[i].credits ELSE 0
    <3>1. p \in Seq(CreditEvents)
      BY <1>2
    <3>2. QED BY <3>1, CreditWeights
  <2>3. QED BY <2>1, <2>2
<1>8. \A i \in 1 .. n : u[i] = w[i + 1]
  <2>1. \A i \in 1 .. n : i + 1 \in 1 .. n + 1 /\ p[i] = q[i + 1]
    BY <1>2, <1>3
  <2>2. QED BY <1>6, <1>7, <2>1
<1>9. Total(w) = w[1] + Total(u)
  BY <1>6, <1>7, <1>8, TotalTail
<1>10. w[1] = Gain(Head(q), v)
  BY <1>2, <1>6 DEF Gain
<1>11. QED BY <1>1, <1>6, <1>7, <1>9, <1>10

-----------------------------------------------------------------------------
(* Queues that lose their head or get another event.                       *)
LEMMA NetTailIs == ASSUME NEW q, NetQueue(q), q # <<>> PROVE IsTail(Tail(q), q) /\ Head(q) = q[1]
<1>1. /\ NetQueue(Tail(q)) /\ Len(Tail(q)) = Len(q) - 1 /\ Len(q) # 0 /\ Head(q) = q[1]
      /\ \A i \in 1 .. Len(q) - 1 : Tail(q)[i] = q[i + 1]
  BY NetTail, NetQueueFacts
<1>2. DOMAIN Tail(q) = 1 .. Len(Tail(q))
  BY <1>1, NetQueueFacts
<1>3. QED BY <1>1, <1>2 DEF IsTail

(* A packet at the end of a queue.                                         *)
LEMMA NetAppendIs ==
    ASSUME NEW q, NetQueue(q), NEW ev, NetEvent(ev) PROVE IsAppend(Append(q, ev), q, ev)
<1>1. PICK p : p = Append(q, ev)
  OBVIOUS
<1>2. /\ NetQueue(p) /\ Len(p) = Len(q) + 1
      /\ \A i \in 1 .. Len(q) : p[i] = q[i]
      /\ p[Len(q) + 1] = ev
  BY <1>1, NetAppend
<1>3. DOMAIN p = 1 .. Len(p)
  BY <1>2, NetQueueFacts
<1>4. IsAppend(p, q, ev)
  BY <1>2, <1>3 DEF IsAppend
<1>5. QED BY <1>1, <1>4

(* The same for any set of events: the tail,                               *)
LEMMA TailIs == ASSUME NEW S, NEW q \in Seq(S), q # <<>> PROVE IsTail(Tail(q), q) /\ Head(q) = q[1]
<1>1. PICK p : p = Tail(q)
  OBVIOUS
<1>2. /\ Len(q) # 0 /\ Len(p) = Len(q) - 1 /\ p \in Seq(S) /\ Head(q) = q[1]
      /\ \A i \in 1 .. Len(q) - 1 : p[i] = q[i + 1]
  BY <1>1, NicQueue
<1>3. DOMAIN p = 1 .. Len(p)
  BY <1>2, NicQueue
<1>4. IsTail(p, q)
  BY <1>2, <1>3 DEF IsTail
<1>5. QED BY <1>1, <1>2, <1>4

(* and one more.                                                           *)
LEMMA AppendIs == ASSUME NEW S, NEW q \in Seq(S), NEW ev \in S PROVE IsAppend(Append(q, ev), q, ev)
<1>1. PICK p : p = Append(q, ev)
  OBVIOUS
<1>2. /\ Len(p) = Len(q) + 1 /\ p \in Seq(S) /\ p[Len(q) + 1] = ev
      /\ \A i \in 1 .. Len(q) : p[i] = q[i]
  BY <1>1, NicQueue
<1>3. DOMAIN p = 1 .. Len(p)
  BY <1>2, NicQueue
<1>4. IsAppend(p, q, ev)
  BY <1>2, <1>3 DEF IsAppend
<1>5. QED BY <1>1, <1>4

(* All flits of a queue.                                                   *)
LEMMA FlitsOfType == ASSUME NEW q, EventQueue(q) PROVE FlitsOf(q) \in Nat
BY FlitsOfIs, FlitsType

(* One more packet, and its flits.                                         *)
LEMMA FlitsOfMore ==
    ASSUME NEW q, EventQueue(q), NEW p, NEW ev, ev.route \in Routes, IsAppend(p, q, ev)
    PROVE  EventQueue(p) /\ FlitsOf(p) = FlitsOf(q) + Size(ev)
<1>1. PICK b : b = TRUE
  OBVIOUS
<1>2. PICK V : V = VNs
  OBVIOUS
<1>3. EventQueue(p) /\ FlitsFor(b, p, V) = FlitsFor(b, q, V) + IF Key(b, ev) \in V THEN Size(ev) ELSE 0
  BY FlitsMore
<1>4. Key(b, ev) \in V
  BY <1>1, <1>2, SizeType DEF Key
<1>5. FlitsOf(p) = FlitsFor(b, p, V) /\ FlitsOf(q) = FlitsFor(b, q, V)
  BY <1>1, <1>2, <1>3, FlitsOfIs
<1>6. QED BY <1>3, <1>4, <1>5

(* The first packet is taken.                                              *)
LEMMA FlitsOfLess ==
    ASSUME NEW q, EventQueue(q), NEW p, IsTail(p, q)
    PROVE  EventQueue(p) /\ q[1].route \in Routes /\ FlitsOf(q) = Size(q[1]) + FlitsOf(p)
<1>1. PICK b : b = TRUE
  OBVIOUS
<1>2. PICK V : V = VNs
  OBVIOUS
<1>3. /\ EventQueue(p) /\ q[1].route \in Routes
      /\ FlitsFor(b, q, V) = (IF Key(b, q[1]) \in V THEN Size(q[1]) ELSE 0) + FlitsFor(b, p, V)
  BY FlitsLess
<1>4. Key(b, q[1]) \in V
  BY <1>1, <1>2, <1>3, SizeType DEF Key
<1>5. FlitsOf(p) = FlitsFor(b, p, V) /\ FlitsOf(q) = FlitsFor(b, q, V)
  BY <1>1, <1>2, <1>3, FlitsOfIs
<1>6. QED BY <1>3, <1>4, <1>5

(* Nothing buffered.                                                       *)
LEMMA FlitsOfEmpty == FlitsOf(<<>>) = 0
<1>1. PICK b : b = TRUE
  OBVIOUS
<1>2. PICK V : V = VNs
  OBVIOUS
<1>3. EventQueue(<<>>) /\ FlitsFor(b, <<>>, V) = 0
  BY FlitsEmpty
<1>4. QED BY <1>1, <1>2, <1>3, FlitsOfIs

(* A packet that arrives, and the head of a buffer that is taken out; the  *)
(* routing that goes with it changes no size.                              *)
LEMMA FlitsQueued ==
    ASSUME NEW port, NEW q, NetQueue(q), NEW ev, NetEvent(ev)
    PROVE  FlitsOf(Queued(port, q, ev)) = FlitsOf(q) + Size(ev)
<1>1. EventQueue(q) /\ ev.route \in Routes
  BY NetIsQueue DEF NetEvent
<1>2. CASE q # <<>>
  <2>1. Queued(port, q, ev) = Append(q, ev)
    BY <1>2 DEF Queued
  <2>2. IsAppend(Append(q, ev), q, ev)
    BY NetAppendIs
  <2>3. QED BY <1>1, <2>1, <2>2, FlitsOfMore
<1>3. CASE q = <<>>
  <2>1. PICK e : e = Routed(port, ev)
    OBVIOUS
  <2>2. PICK p : p = <<e>>
    OBVIOUS
  <2>3. Queued(port, q, ev) = p
    BY <1>3, <2>1, <2>2 DEF Queued
  <2>4. e.route = ev.route /\ Size(e) = Size(ev)
    BY <2>1, RoutedIs DEF Size, VN
  <2>5. IsAppend(p, q, e)
    BY <1>3, <2>2 DEF IsAppend
  <2>6. FlitsOf(p) = FlitsOf(q) + Size(e)
    BY <1>1, <2>4, <2>5, FlitsOfMore
  <2>7. QED BY <2>3, <2>4, <2>6
<1>4. QED BY <1>2, <1>3

(* The head of an input buffer goes to the crossbar.                       *)
LEMMA FlitsRecv ==
    ASSUME NEW port, NEW q, NetQueue(q), q # <<>>
    PROVE  FlitsOf(q) = Size(Head(q)) + FlitsOf(RouteHead(port, Tail(q)))
<1>1. PICK p, u : p = Tail(q) /\ u = RouteHead(port, Tail(q))
  OBVIOUS
<1>2. NetQueue(p)
  BY <1>1, NetTail
<1>3. IsTail(p, q) /\ Head(q) = q[1]
  BY <1>1, NetTailIs
<1>4. EventQueue(p) /\ FlitsOf(q) = Size(q[1]) + FlitsOf(p)
  BY <1>3, NetIsQueue, FlitsOfLess
<1>5. /\ NetQueue(u) /\ Len(u) = Len(p)
      /\ \A i \in 1 .. Len(p) : u[i] = IF i = 1 THEN Routed(port, p[1]) ELSE p[i]
  <2>1. u = RouteHead(port, p)
    BY <1>1
  <2>2. QED BY <1>2, <2>1, RouteHeadIs
<1>6. \A i \in 1 .. Len(p) : u[i].route = p[i].route
  <2>1. \A i \in 1 .. Len(p) : NetEvent(p[i])
    BY <1>2, NetQueueFacts
  <2>2. QED BY <1>5, <2>1, RoutedIs
<1>7. DOMAIN u = 1 .. Len(u)
  BY <1>5, NetQueueFacts
<1>8. SameRoutes(u, p)
  BY <1>5, <1>6, <1>7 DEF SameRoutes
<1>9. FlitsOf(u) = FlitsOf(p)
  BY <1>4, <1>8, FlitsSame
<1>10. QED BY <1>1, <1>3, <1>4, <1>9

-----------------------------------------------------------------------------
(* Which VC a packet is on.  A packet waits for an output in the buffer of *)
(* its VC, and enters the network on the first VC of its VN.  With DOR     *)
(* there is one VC for each VN, and routing keeps to it.                   *)
Header(ev) == "vc" \in DOMAIN ev.h /\ ev.h.vc = VN(ev)

InEvent(x, v, ev) == /\ x \in HostPorts => StartVC(Alg, VN(ev)) = v
                     /\ Alg = "DOR" => Header(ev) /\ VN(ev) = v
OutEvent(v, ev)   == /\ ev.h.vc = v
                     /\ Alg = "DOR" => Header(ev) /\ VN(ev) = v
WireEvent(ev)     == Alg = "DOR" => Header(ev)

InQueue(x, v, q) == \A i \in 1 .. Len(q) : InEvent(x, v, q[i])
OutQueue(v, q)   == \A i \in 1 .. Len(q) : OutEvent(v, q[i])
WireQueue(q)     == \A i \in 1 .. Len(q) : WireEvent(q[i])

InputsOK  == \A x \in Ports, v \in VCs : InQueue(x, v, pc[x].input_buf[v])
OutputsOK == \A x \in Ports, v \in VCs : OutQueue(v, pc[x].output_buf[v])
WiresOK   == \A x \in Ports \ HostPorts : WireQueue(data[x])

(* Each VN has a first VC of its own; with DOR it is the VN.               *)
LEMMA StartVCIs ==
    /\ \A v \in VNs : StartVC(Alg, v) \in VCs
    /\ \A u, v \in VNs : StartVC(Alg, u) = StartVC(Alg, v) => u = v
    /\ Alg = "DOR" => VCs = VNs /\ \A v \in VNs : StartVC(Alg, v) = v
<1>1. PICK m \in Nat \ {0} : m = NumVNs
  BY LinkAssumption
<1>2. VNs = 0 .. m - 1 /\ VCs = 0 .. m * getVCsPerVN(Alg) - 1
  BY <1>1 DEF VNs, VCs
<1>3. CASE Alg = "DOR"
  <2>1. getVCsPerVN(Alg) = 1 /\ \A v : StartVC(Alg, v) = v * 1
    BY <1>3 DEF getVCsPerVN, StartVC, Grids
  <2>2. \A v \in Nat : v * 1 = v
    OBVIOUS
  <2>3. \A v \in VNs : v \in Nat
    BY <1>2
  <2>4. VCs = VNs
    BY <1>2, <2>1, <2>2
  <2>5. \A v \in VNs : StartVC(Alg, v) = v
    BY <2>1, <2>2, <2>3
  <2>6. QED BY <2>4, <2>5
<1>4. CASE Alg = "torus"
  <2>1. getVCsPerVN(Alg) = 2 /\ \A v : StartVC(Alg, v) = v * 2
    BY <1>4 DEF getVCsPerVN, StartVC, Grids
  <2>2. VCs = 0 .. m * 2 - 1
    BY <1>2, <2>1
  <2>3. \A v \in 0 .. m - 1 : v * 2 \in 0 .. m * 2 - 1
    OBVIOUS
  <2>4. \A u, v \in 0 .. m - 1 : u * 2 = v * 2 => u = v
    OBVIOUS
  <2>5. Alg # "DOR"
    BY <1>4
  <2>6. QED BY <1>2, <2>1, <2>2, <2>3, <2>4, <2>5
<1>5. QED BY <1>3, <1>4, LinkAssumption

(* Routing keeps the VC of a packet with DOR.                              *)
LEMMA RoutedOn ==
    ASSUME NEW x, NEW v, NEW ev, NetEvent(ev), InEvent(x, v, ev)
    PROVE  InEvent(x, v, Routed(x, ev))
<1>1. PICK e : e = Routed(x, ev)
  OBVIOUS
<1>2. /\ e.route = ev.route
      /\ e.h = CHOOSE q \in route_packet(Alg, x[2], x[3], ev.h) : TRUE
  BY <1>1, RoutedIs
<1>3. VN(e) = VN(ev)
  BY <1>2 DEF VN
<1>4. ASSUME Alg = "DOR" PROVE Header(e)
  <2>1. route_packet(Alg, x[2], x[3], ev.h) = {routeDOR(x[2], ev.h)}
    BY <1>4 DEF route_packet, Grids
  <2>2. e.h = routeDOR(x[2], ev.h)
    BY <1>2, <2>1
  <2>3. "vc" \in DOMAIN ev.h /\ ev.h.vc = VN(ev)
    BY <1>4 DEF InEvent, Header
  <2>4. PICK n : e.h = [ev.h EXCEPT !.next = n]
    BY <2>2 DEF routeDOR
  <2>5. "vc" \in DOMAIN e.h /\ e.h.vc = ev.h.vc
    BY <2>3, <2>4
  <2>6. QED BY <1>3, <2>3, <2>5 DEF Header
<1>5. InEvent(x, v, e)
  BY <1>3, <1>4 DEF InEvent
<1>6. QED BY <1>1, <1>5

(* process_input puts a packet on the first VC of its VN.                  *)
LEMMA ReceivedOn ==
    ASSUME LinksOK, WiresOK, NEW x \in Ports, data[x] # <<>>,
           NEW ev, ev = Received(x, Head(data[x]))
    PROVE  /\ VN(ev) = VN(Head(data[x])) /\ Size(ev) = Size(Head(data[x]))
           /\ x \notin HostPorts => ev = Head(data[x])
           /\ x \in HostPorts => ev.h.vc = StartVC(Alg, VN(ev))
           /\ InEvent(x, ev.h.vc, ev)
<1>1. PICK e : e = Head(data[x])
  OBVIOUS
<1>2. /\ NetEvent(ev) /\ ev.route = e.route /\ e.route \in Routes
      /\ x \notin HostPorts => ev = e
      /\ x \in HostPorts => ev.h = CHOOSE q \in process_input(Alg, x[2], e.route[2], VN(e)) : TRUE
  BY <1>1, ReceivedIs
<1>3. VN(ev) = VN(e) /\ Size(ev) = Size(e) /\ VN(e) \in VNs
  BY <1>2, SizeType DEF VN, Size
<1>4. CASE x \in HostPorts
  <2>1. PICK r, t, d, w : r = x[2] /\ t = e.route[2] /\ w = VN(e) /\ d = IF Alg \in Grids THEN 1 ELSE 0
    OBVIOUS
  <2>2. Alg # "valiant"
    BY LinkAssumption
  <2>3. process_input(Alg, r, t, w) = {NewPacket(t, w, StartVC(Alg, w), d, r)}
    BY <2>1, <2>2 DEF process_input
  <2>4. ev.h = NewPacket(t, w, StartVC(Alg, w), d, r)
    BY <1>2, <1>4, <2>1, <2>3
  <2>5. "vc" \in DOMAIN ev.h /\ ev.h.vc = StartVC(Alg, w)
    BY <2>4 DEF NewPacket
  <2>6. ev.h.vc = StartVC(Alg, VN(ev))
    BY <1>3, <2>1, <2>5
  <2>7. Alg = "DOR" => Header(ev) /\ VN(ev) = ev.h.vc
    BY <1>3, <2>5, <2>6, StartVCIs DEF Header
  <2>8. QED BY <1>1, <1>3, <1>4, <2>6, <2>7 DEF InEvent
<1>5. CASE x \notin HostPorts
  <2>1. ev = e /\ NetQueue(data[x])
    BY <1>2, <1>5 DEF LinksOK
  <2>2. Len(data[x]) \in Nat /\ Len(data[x]) # 0 /\ e = data[x][1]
    BY <1>1, <2>1, NetQueueFacts
  <2>3. WireEvent(ev)
    BY <1>5, <2>1, <2>2 DEF WiresOK, WireQueue
  <2>4. QED BY <1>1, <1>3, <1>5, <2>1, <2>3 DEF WireEvent, InEvent, Header
<1>6. QED BY <1>4, <1>5

(* A packet enters an input buffer.                                        *)
LEMMA InQueued ==
    ASSUME NEW x, NEW v, NEW q, NetQueue(q), InQueue(x, v, q), NEW ev, NetEvent(ev), InEvent(x, v, ev)
    PROVE  InQueue(x, v, Queued(x, q, ev))
<1>1. CASE q = <<>>
  <2>1. PICK p : p = <<Routed(x, ev)>>
    OBVIOUS
  <2>2. Queued(x, q, ev) = p
    BY <1>1, <2>1 DEF Queued
  <2>3. \A i \in 1 .. Len(p) : p[i] = Routed(x, ev)
    BY <2>1
  <2>4. InEvent(x, v, Routed(x, ev))
    BY RoutedOn
  <2>5. InQueue(x, v, p)
    BY <2>3, <2>4 DEF InQueue
  <2>6. QED BY <2>2, <2>5
<1>2. CASE q # <<>>
  <2>1. PICK p : p = Append(q, ev)
    OBVIOUS
  <2>2. Queued(x, q, ev) = p /\ Len(q) \in Nat
    BY <1>2, <2>1, NetQueueFacts DEF Queued
  <2>3. IsAppend(p, q, ev)
    BY <2>1, NetAppendIs
  <2>4. InQueue(x, v, p)
    BY <2>2, <2>3 DEF InQueue, IsAppend
  <2>5. QED BY <2>2, <2>4
<1>3. QED BY <1>1, <1>2

(* The head of an input buffer leaves it.                                  *)
LEMMA InRecv ==
    ASSUME NEW x, NEW v, NEW q, NetQueue(q), q # <<>>, InQueue(x, v, q)
    PROVE  InQueue(x, v, RouteHead(x, Tail(q)))
<1>1. PICK p : p = Tail(q)
  OBVIOUS
<1>2. PICK u : u = RouteHead(x, p)
  OBVIOUS
<1>3. NetQueue(p) /\ Len(q) \in Nat
  BY <1>1, NetTail, NetQueueFacts
<1>4. IsTail(p, q)
  BY <1>1, NetTailIs
<1>5. InQueue(x, v, p)
  BY <1>3, <1>4 DEF InQueue, IsTail
<1>6. /\ Len(u) = Len(p)
      /\ \A i \in 1 .. Len(p) : u[i] = IF i = 1 THEN Routed(x, p[1]) ELSE p[i]
  BY <1>2, <1>3, RouteHeadIs
<1>7. \A i \in 1 .. Len(p) : NetEvent(p[i])
  BY <1>3, NetQueueFacts
<1>8. \A i \in 1 .. Len(p) : InEvent(x, v, p[i])
  BY <1>5 DEF InQueue
<1>9. \A i \in 1 .. Len(p) : InEvent(x, v, u[i])
  BY <1>6, <1>7, <1>8, RoutedOn
<1>10. InQueue(x, v, u)
  BY <1>6, <1>9 DEF InQueue
<1>11. QED BY <1>1, <1>2, <1>10

(* A packet enters an output buffer.                                       *)
LEMMA OutAppend ==
    ASSUME NEW v, NEW q, Len(q) \in Nat, OutQueue(v, q), NEW ev, OutEvent(v, ev),
           NEW p, IsAppend(p, q, ev)
    PROVE  OutQueue(v, p)
BY DEF OutQueue, IsAppend

(* The packet that is sent was on the VC of its buffer.                    *)
LEMMA OutTail ==
    ASSUME NEW v, NEW q, Len(q) \in Nat, OutQueue(v, q), NEW p, IsTail(p, q)
    PROVE  OutQueue(v, p) /\ OutEvent(v, q[1])
BY DEF OutQueue, IsTail

(* A packet enters a link between routers,                                 *)
LEMMA WireAppend ==
    ASSUME NEW q, Len(q) \in Nat, WireQueue(q), NEW ev, WireEvent(ev), NEW p, IsAppend(p, q, ev)
    PROVE  WireQueue(p)
BY DEF WireQueue, IsAppend

(* and leaves it.                                                          *)
LEMMA WireTail ==
    ASSUME NEW q, Len(q) \in Nat, WireQueue(q), NEW p, IsTail(p, q)
    PROVE  WireQueue(p)
BY DEF WireQueue, IsTail

-----------------------------------------------------------------------------
(* The four places where the room of a buffer can be.                      *)
LinkOK(x, v) == /\ SenderCredits(x, v) >= 0
                /\ SenderCredits(x, v) + OnWire(x, v) + Held(x, v) + CreditsTo(Other[x], v) = Room(x)

(* Which links count by VN.                                                *)
LEMMA ClassIs ==
    ASSUME NEW x \in Ends
    PROVE  /\ ByVN(x) <=> x \in Nics \cup HostPorts
           /\ LinkClasses(x) = IF x \in Nics \cup HostPorts THEN VNs ELSE VCs
<1>1. x[1] = "nic" <=> x \in Nics
  BY EndsAre
<1>2. QED BY <1>1 DEF ByVN, LinkClasses, isHost

(* Where the sender keeps its credits.                                     *)
LEMMA SenderIs ==
    ASSUME NEW x \in Ends, NEW v
    PROVE  /\ x \in HostPorts => /\ SenderCredits(x, v) = lc[Other[x]].router_credits[v]
                                 /\ SenderCredits(x, v)' = lc'[Other[x]].router_credits[v]
           /\ x \notin HostPorts => /\ SenderCredits(x, v) = pc[Other[x]].port_out_credits[v]
                                    /\ SenderCredits(x, v)' = pc'[Other[x]].port_out_credits[v]
<1>1. Other[x] \in Ends /\ (x \in HostPorts <=> Other[x] \in Nics)
  BY OtherIs
<1>2. x \in HostPorts <=> Other[x][1] = "nic"
  BY <1>1, EndsAre
<1>3. QED BY <1>2 DEF SenderCredits

(* Where the receiver keeps its packets.                                   *)
LEMMA HeldIs ==
    ASSUME NEW x \in Ends, NEW v
    PROVE  /\ x \in Nics => /\ Held(x, v) = FlitsOf(lc[x].input_queues[v])
                            /\ Held(x, v)' = FlitsOf(lc'[x].input_queues[v])
           /\ x \in HostPorts => /\ Held(x, v) = FlitsOf(pc[x].input_buf[StartVC(Alg, v)])
                                 /\ Held(x, v)' = FlitsOf(pc'[x].input_buf[StartVC(Alg, v)])
           /\ x \in Ports \ HostPorts => /\ Held(x, v) = FlitsOf(pc[x].input_buf[v])
                                         /\ Held(x, v)' = FlitsOf(pc'[x].input_buf[v])
<1>1. x[1] = "nic" <=> x \in Nics
  BY EndsAre
<1>2. x \in HostPorts => x \notin Nics
  BY EndsAre
<1>3. CASE x \in Nics
  BY <1>1, <1>2, <1>3, EndsAre DEF Held, isHost, FlitsOf
<1>4. CASE x \in HostPorts
  BY <1>1, <1>2, <1>4 DEF Held, isHost, FlitsOf
<1>5. CASE x \in Ports \ HostPorts
  <2>1. x[1] # "nic"
    BY <1>1, <1>5, EndsAre
  <2>2. QED BY <1>5, <2>1, EndsAre DEF Held, isHost, FlitsOf
<1>6. QED BY <1>3, <1>4, <1>5, EndsAre

(* The flits on a link,                                                    *)
LEMMA WireIs ==
    ASSUME NEW x, NEW v
    PROVE  /\ OnWire(x, v) = FlitsFor(ByVN(x), data[x], {v})
           /\ OnWire(x, v)' = FlitsFor(ByVN(x), data'[x], {v})
<1>1. ASSUME NEW q
      PROVE  Total([i \in DOMAIN q |-> IF Class(x, q[i]) = v THEN Size(q[i]) ELSE 0])
                = FlitsFor(ByVN(x), q, {v})
  <2>1. \A i \in DOMAIN q : Class(x, q[i]) = v <=> Key(ByVN(x), q[i]) \in {v}
    BY DEF Class, Key
  <2>2. [i \in DOMAIN q |-> IF Class(x, q[i]) = v THEN Size(q[i]) ELSE 0]
          = [i \in DOMAIN q |-> IF Key(ByVN(x), q[i]) \in {v} THEN Size(q[i]) ELSE 0]
    BY <2>1
  <2>3. QED BY <2>2 DEF FlitsFor
<1>2. OnWire(x, v) = FlitsFor(ByVN(x), data[x], {v})
  BY <1>1 DEF OnWire
<1>3. OnWire(x, v)' = FlitsFor(ByVN(x), data'[x], {v})
  BY <1>1 DEF OnWire
<1>4. QED BY <1>2, <1>3

(* and the credits on it.                                                  *)
LEMMA BackIs ==
    ASSUME NEW y, NEW v
    PROVE  CreditsTo(y, v) = CreditsOf(credit[y], v) /\ CreditsTo(y, v)' = CreditsOf(credit'[y], v)
BY DEF CreditsTo, CreditsOf

Typed(x, v) == /\ SenderCredits(x, v) \in Int /\ OnWire(x, v) \in Nat
               /\ Held(x, v) \in Nat /\ CreditsTo(Other[x], v) \in Nat

(* The four counts are numbers.                                            *)
LEMMA CountTypes ==
    ASSUME LinksOK, NicsOK, PortsOK, NEW x \in Ends, NEW v \in LinkClasses(x)
    PROVE  Typed(x, v)
<1>1. /\ Other[x] \in Ends /\ (x \in HostPorts <=> Other[x] \in Nics)
      /\ (x \in Nics <=> Other[x] \in HostPorts)
  BY OtherIs
<1>2. x \in Nics \cup HostPorts => v \in VNs
  BY ClassIs
<1>3. v \in VCs
  BY ClassIs, VCsAre
<1>4. SenderCredits(x, v) \in Int
  <2>1. CASE x \in HostPorts
    <3>1. lc[Other[x]].router_credits \in [VNs -> Int]
      BY <1>1, <2>1 DEF NicsOK, NicOK, NicShape
    <3>2. QED BY <1>2, <2>1, <3>1, SenderIs
  <2>2. CASE x \notin HostPorts
    <3>1. Other[x] \in Ports
      BY <1>1, <2>2, EndsAre
    <3>2. pc[Other[x]].port_out_credits \in [VCs -> Int]
      BY <3>1 DEF PortsOK, PortOK, PortShape
    <3>3. QED BY <1>3, <2>2, <3>2, SenderIs
  <2>3. QED BY <2>1, <2>2
<1>5. OnWire(x, v) \in Nat
  <2>1. EventQueue(data[x])
    <3>1. CASE x \in Nics \cup HostPorts
      BY <3>1, NicIsQueue DEF LinksOK
    <3>2. CASE x \in Ports \ HostPorts
      BY <3>2, NetIsQueue DEF LinksOK
    <3>3. QED BY <3>1, <3>2, EndsAre
  <2>2. PICK b, V : b = ByVN(x) /\ V = {v}
    OBVIOUS
  <2>3. FlitsFor(b, data[x], V) \in Nat
    BY <2>1, FlitsType
  <2>4. QED BY <2>2, <2>3, WireIs
<1>6. Held(x, v) \in Nat
  <2>1. CASE x \in Nics
    <3>1. lc[x].input_queues[v] \in Seq(NicEvents)
      BY <1>2, <2>1 DEF NicsOK, NicOK, NicShape
    <3>2. QED BY <2>1, <3>1, NicIsQueue, FlitsOfType, HeldIs
  <2>2. CASE x \in Ports
    <3>1. \A w \in VCs : NetQueue(pc[x].input_buf[w])
      BY <2>2 DEF PortsOK, PortOK, PortShape, Buffers
    <3>2. \A w \in VCs : FlitsOf(pc[x].input_buf[w]) \in Nat
      BY <3>1, NetIsQueue, FlitsOfType
    <3>3. x \in HostPorts => StartVC(Alg, v) \in VCs
      BY <1>2, StartVCIs
    <3>4. QED BY <1>3, <2>2, <3>2, <3>3, HeldIs
  <2>3. QED BY <2>1, <2>2, EndsAre
<1>7. CreditsTo(Other[x], v) \in Nat
  <2>1. credit[Other[x]] \in Seq(CreditEvents)
    BY <1>1 DEF LinksOK
  <2>2. QED BY <2>1, BackIs, CreditsOfType
<1>8. QED BY <1>4, <1>5, <1>6, <1>7 DEF Typed

(* What a step can do to a link: nothing, a packet is sent, arrives, is    *)
(* taken out of the buffer, or its credits arrive.                         *)
Still(x, v)      == /\ SenderCredits(x, v)' = SenderCredits(x, v) /\ OnWire(x, v)' = OnWire(x, v)
                    /\ Held(x, v)' = Held(x, v) /\ CreditsTo(Other[x], v)' = CreditsTo(Other[x], v)
Departs(x, v, s) == /\ SenderCredits(x, v) >= s /\ SenderCredits(x, v)' = SenderCredits(x, v) - s
                    /\ OnWire(x, v)' = OnWire(x, v) + s
                    /\ Held(x, v)' = Held(x, v) /\ CreditsTo(Other[x], v)' = CreditsTo(Other[x], v)
Arrives(x, v, s) == /\ OnWire(x, v)' \in Nat /\ OnWire(x, v) = s + OnWire(x, v)'
                    /\ Held(x, v)' = Held(x, v) + s
                    /\ SenderCredits(x, v)' = SenderCredits(x, v)
                    /\ CreditsTo(Other[x], v)' = CreditsTo(Other[x], v)
Leaves(x, v, s)  == /\ Held(x, v)' \in Nat /\ Held(x, v) = s + Held(x, v)'
                    /\ CreditsTo(Other[x], v)' = CreditsTo(Other[x], v) + s
                    /\ SenderCredits(x, v)' = SenderCredits(x, v) /\ OnWire(x, v)' = OnWire(x, v)
Returns(x, v, s) == /\ CreditsTo(Other[x], v)' \in Nat
                    /\ CreditsTo(Other[x], v) = s + CreditsTo(Other[x], v)'
                    /\ SenderCredits(x, v)' = SenderCredits(x, v) + s
                    /\ OnWire(x, v)' = OnWire(x, v) /\ Held(x, v)' = Held(x, v)

LinkStep(x, v) == Still(x, v) \/ \E s \in Nat : \/ Departs(x, v, s) \/ Arrives(x, v, s)
                                                \/ Leaves(x, v, s) \/ Returns(x, v, s)

(* Each of these steps keeps the sum, and the sender's credits positive.   *)
LEMMA LinkKept ==
    ASSUME NEW x, NEW v, LinkOK(x, v), Typed(x, v), LinkStep(x, v)
    PROVE  LinkOK(x, v)'
<1>1. PICK a \in Int, b \in Nat, c \in Nat, d \in Nat :
         /\ a = SenderCredits(x, v) /\ b = OnWire(x, v) /\ c = Held(x, v) /\ d = CreditsTo(Other[x], v)
  BY DEF Typed
<1>2. PICK a2, b2, c2, d2 :
         /\ a2 = SenderCredits(x, v)' /\ b2 = OnWire(x, v)' /\ c2 = Held(x, v)'
         /\ d2 = CreditsTo(Other[x], v)'
  OBVIOUS
<1>3. a >= 0 /\ a + b + c + d = Room(x)
  BY <1>1 DEF LinkOK
<1>4. Room(x)' = Room(x)
  BY DEF Room
<1>5. a2 >= 0 /\ a2 + b2 + c2 + d2 = a + b + c + d
  <2>1. CASE Still(x, v)
    <3>1. a2 = a /\ b2 = b /\ c2 = c /\ d2 = d
      BY <1>1, <1>2, <2>1 DEF Still
    <3>2. QED BY <1>3, <3>1
  <2>2. ASSUME NEW s \in Nat, Departs(x, v, s) PROVE a2 >= 0 /\ a2 + b2 + c2 + d2 = a + b + c + d
    <3>1. a >= s /\ a2 = a - s /\ b2 = b + s /\ c2 = c /\ d2 = d
      BY <1>1, <1>2, <2>2 DEF Departs
    <3>2. QED BY <1>3, <3>1
  <2>3. ASSUME NEW s \in Nat, Arrives(x, v, s) PROVE a2 >= 0 /\ a2 + b2 + c2 + d2 = a + b + c + d
    <3>1. b2 \in Nat /\ b = s + b2 /\ c2 = c + s /\ a2 = a /\ d2 = d
      BY <1>1, <1>2, <2>3 DEF Arrives
    <3>2. QED BY <1>3, <3>1
  <2>4. ASSUME NEW s \in Nat, Leaves(x, v, s) PROVE a2 >= 0 /\ a2 + b2 + c2 + d2 = a + b + c + d
    <3>1. c2 \in Nat /\ c = s + c2 /\ d2 = d + s /\ a2 = a /\ b2 = b
      BY <1>1, <1>2, <2>4 DEF Leaves
    <3>2. QED BY <1>3, <3>1
  <2>5. ASSUME NEW s \in Nat, Returns(x, v, s) PROVE a2 >= 0 /\ a2 + b2 + c2 + d2 = a + b + c + d
    <3>1. d2 \in Nat /\ d = s + d2 /\ a2 = a + s /\ b2 = b /\ c2 = c
      BY <1>1, <1>2, <2>5 DEF Returns
    <3>2. QED BY <1>3, <3>1
  <2>6. QED BY <2>1, <2>2, <2>3, <2>4, <2>5 DEF LinkStep
<1>6. QED BY <1>2, <1>3, <1>4, <1>5 DEF LinkOK

-----------------------------------------------------------------------------
(* What stays as it is, at each place.                                     *)
LEMMA WireSame ==
    ASSUME NEW x, NEW v, data'[x] = data[x] PROVE OnWire(x, v)' = OnWire(x, v)
BY WireIs

(* The credits on a link.                                                  *)
LEMMA BackSame ==
    ASSUME NEW y, NEW v, credit'[y] = credit[y] PROVE CreditsTo(y, v)' = CreditsTo(y, v)
BY BackIs

(* The sender's credits, when one endpoint steps.                          *)
LEMMA SenderSameNic ==
    ASSUME NEW n \in Nics, Others(n), pc' = pc, NEW x \in Ends, NEW v,
           Other[x] = n => lc'[n].router_credits[v] = lc[n].router_credits[v]
    PROVE  SenderCredits(x, v)' = SenderCredits(x, v)
<1>1. CASE x \in HostPorts
  <2>1. Other[x] \in Nics
    BY <1>1, OtherIs
  <2>2. lc'[Other[x]].router_credits[v] = lc[Other[x]].router_credits[v]
    BY <2>1 DEF Others
  <2>3. QED BY <1>1, <2>2, SenderIs
<1>2. CASE x \notin HostPorts
  BY <1>2, SenderIs
<1>3. QED BY <1>1, <1>2

(* The receiver's buffers, when one endpoint steps.                        *)
LEMMA HeldSameNic ==
    ASSUME NEW n \in Nics, Others(n), pc' = pc, NEW x \in Ends, NEW v,
           x = n => lc'[n].input_queues[v] = lc[n].input_queues[v]
    PROVE  Held(x, v)' = Held(x, v)
<1>1. CASE x \in Nics
  <2>1. lc'[x].input_queues[v] = lc[x].input_queues[v]
    BY <1>1 DEF Others
  <2>2. QED BY <1>1, <2>1, HeldIs
<1>2. CASE x \in Ports
  BY <1>2, HeldIs
<1>3. QED BY <1>1, <1>2, EndsAre

(* The sender's credits, when one port steps.                              *)
LEMMA SenderSamePort ==
    ASSUME NEW y \in Ports, OtherPorts(y), lc' = lc, NEW x \in Ends, NEW v,
           Other[x] = y => pc'[y].port_out_credits[v] = pc[y].port_out_credits[v]
    PROVE  SenderCredits(x, v)' = SenderCredits(x, v)
<1>1. CASE x \in HostPorts
  BY <1>1, SenderIs
<1>2. CASE x \notin HostPorts
  <2>1. Other[x] \in Ports
    BY <1>2, OtherIs, EndsAre
  <2>2. pc'[Other[x]].port_out_credits[v] = pc[Other[x]].port_out_credits[v]
    BY <2>1 DEF OtherPorts
  <2>3. QED BY <1>2, <2>2, SenderIs
<1>3. QED BY <1>1, <1>2

(* The buffer of an end that a class of packets is kept in.                *)
BufferOf(x, v) == IF x \in HostPorts THEN StartVC(Alg, v) ELSE v

(* What a port holds.                                                      *)
LEMMA HeldPort ==
    ASSUME NEW x \in Ports, NEW v
    PROVE  /\ Held(x, v) = FlitsOf(pc[x].input_buf[BufferOf(x, v)])
           /\ Held(x, v)' = FlitsOf(pc'[x].input_buf[BufferOf(x, v)])
<1>1. x \in Ends
  BY EndsAre
<1>2. CASE x \in HostPorts
  BY <1>1, <1>2, HeldIs DEF BufferOf
<1>3. CASE x \notin HostPorts
  BY <1>1, <1>3, HeldIs DEF BufferOf
<1>4. QED BY <1>2, <1>3

(* The receiver's buffers, when one port steps.                            *)
LEMMA HeldSamePort ==
    ASSUME NEW y \in Ports, OtherPorts(y), lc' = lc, NEW x \in Ends, NEW v,
           x = y => pc'[y].input_buf[BufferOf(y, v)] = pc[y].input_buf[BufferOf(y, v)]
    PROVE  Held(x, v)' = Held(x, v)
<1>1. CASE x \in Nics
  BY <1>1, HeldIs
<1>2. CASE x \in Ports
  <2>1. pc'[x].input_buf[BufferOf(x, v)] = pc[x].input_buf[BufferOf(x, v)]
    BY <1>2 DEF OtherPorts
  <2>2. QED BY <1>2, <2>1, HeldPort
<1>3. QED BY <1>1, <1>2, EndsAre

(* A link has two ends.                                                    *)
LEMMA OtherInjective ==
    ASSUME NEW x \in Ends, NEW y \in Ends PROVE Other[x] = Other[y] => x = y
BY OtherIs

(* Every class has a buffer of its own.                                    *)
LEMMA BufferOfIs ==
    ASSUME NEW x \in Ports, NEW v \in LinkClasses(x)
    PROVE  /\ BufferOf(x, v) \in VCs
           /\ \A u \in LinkClasses(x) : BufferOf(x, u) = BufferOf(x, v) => u = v
<1>1. x \in Ends /\ x \notin Nics
  BY EndsAre
<1>2. CASE x \in HostPorts
  BY <1>1, <1>2, ClassIs, StartVCIs DEF BufferOf
<1>3. CASE x \notin HostPorts
  BY <1>1, <1>3, ClassIs DEF BufferOf
<1>4. QED BY <1>2, <1>3

-----------------------------------------------------------------------------
(* The invariant: the sums of CreditsConserved.  At a host port of a torus *)
(* the router counts what it sends by VC and the endpoint gives credits by *)
(* VN, so the sum for the link to an endpoint is part of it for DOR only.  *)
Counted  == IF Alg = "DOR" THEN Ends ELSE Ports
LinkSums == \A x \in Counted : \A v \in LinkClasses(x) : LinkOK(x, v)
PortSums == \A x \in Ports, v \in VCs :
    pc[x].xbar_in_credits[v] + FlitsOf(pc[x].output_buf[v]) = RouterOut
NicSums  == \A n \in Nics, v \in VNs :
    lc[n].credits[v] + FlitsOf(lc[n].output_queues[v]) = NicOut

Steady == \A x \in Counted : \A v \in LinkClasses(x) : LinkStep(x, v)

(* The links that are counted.                                             *)
LEMMA CountedEnds == Counted \subseteq Ends
BY EndsAre DEF Counted

(* An endpoint's queue and its credits.                                    *)
LEMMA NicOutputs ==
    ASSUME NicsOK, NEW n \in Nics, NEW v \in VNs
    PROVE  /\ lc[n].credits[v] \in Int /\ lc[n].router_credits[v] \in Int
           /\ lc[n].output_queues[v] \in Seq(NicEventsOf(v))
           /\ EventQueue(lc[n].output_queues[v])
           /\ FlitsOf(lc[n].output_queues[v]) \in Nat
<1>1. /\ lc[n].credits \in [VNs -> Int] /\ lc[n].router_credits \in [VNs -> Int]
      /\ lc[n].output_queues[v] \in Seq(NicEventsOf(v))
  BY DEF NicsOK, NicOK, NicShape
<1>2. EventQueue(lc[n].output_queues[v])
  BY <1>1, NicOfIsQueue
<1>3. FlitsOf(lc[n].output_queues[v]) \in Nat
  BY <1>2, FlitsOfType
<1>4. QED BY <1>1, <1>2, <1>3

(* An endpoint sends: a packet goes into its output queue.                 *)
LEMMA SendCredits ==
    ASSUME IInv, NicSums, NEW n \in Nics, NEW ev \in NicEvents, LCSend(n, ev), pc' = pc
    PROVE  Steady /\ NicSums' /\ data' = data
<1>1. /\ Others(n) /\ data' = data /\ credit' = credit
      /\ lc'[n].router_credits = lc[n].router_credits
      /\ lc'[n].input_queues = lc[n].input_queues
      /\ \A v \in VNs :
            /\ lc'[n].credits[v] =
                  IF v = VN(ev) THEN lc[n].credits[v] - Size(ev) ELSE lc[n].credits[v]
            /\ lc'[n].output_queues[v] =
                  IF v = VN(ev) THEN Append(lc[n].output_queues[v], ev) ELSE lc[n].output_queues[v]
  BY LCSendEffect DEF IInv
<1>2. ASSUME NEW x \in Counted, NEW v \in LinkClasses(x) PROVE LinkStep(x, v)
  <2>1. x \in Ends
    BY CountedEnds
  <2>2. SenderCredits(x, v)' = SenderCredits(x, v)
    BY <1>1, <2>1, SenderSameNic
  <2>3. Held(x, v)' = Held(x, v)
    BY <1>1, <2>1, HeldSameNic
  <2>4. OnWire(x, v)' = OnWire(x, v) /\ CreditsTo(Other[x], v)' = CreditsTo(Other[x], v)
    BY <1>1, WireSame, BackSame
  <2>5. QED BY <2>2, <2>3, <2>4 DEF LinkStep, Still
<1>3. ASSUME NEW m \in Nics, NEW v \in VNs
      PROVE  lc'[m].credits[v] + FlitsOf(lc'[m].output_queues[v]) = NicOut
  <2>1. lc[m].credits[v] + FlitsOf(lc[m].output_queues[v]) = NicOut
    BY DEF NicSums
  <2>2. CASE m # n \/ v # VN(ev)
    BY <1>1, <2>1, <2>2 DEF Others
  <2>3. CASE m = n /\ v = VN(ev)
    <3>1. PICK q, p, s, c : /\ q = lc[n].output_queues[v] /\ p = Append(q, ev)
                            /\ s = Size(ev) /\ c = lc[n].credits[v]
      OBVIOUS
    <3>2. c \in Int /\ q \in Seq(NicEventsOf(v)) /\ EventQueue(q) /\ FlitsOf(q) \in Nat
      BY <3>1, NicOutputs DEF IInv
    <3>3. ev \in NicEventsOf(v) /\ s \in Nat /\ ev.route \in Routes
      BY <2>3, <3>1, NicEventSize DEF NicEvents
    <3>4. IsAppend(p, q, ev)
      BY <3>1, <3>2, <3>3, AppendIs
    <3>5. FlitsOf(p) = FlitsOf(q) + s
      BY <3>1, <3>2, <3>3, <3>4, FlitsOfMore
    <3>6. c + FlitsOf(q) = NicOut
      BY <2>1, <2>3, <3>1
    <3>7. lc'[m].credits[v] = c - s /\ lc'[m].output_queues[v] = p
      BY <1>1, <2>3, <3>1
    <3>8. (c - s) + FlitsOf(p) = NicOut
      BY <3>2, <3>3, <3>5, <3>6
    <3>9. QED BY <3>7, <3>8
  <2>4. QED BY <2>2, <2>3
<1>4. NicSums'
  BY <1>3 DEF NicSums, FlitsOf
<1>5. QED BY <1>1, <1>2, <1>4 DEF Steady

(* Nothing changes in an endpoint's output queues and credits.             *)
LEMMA NicSumsFrame ==
    ASSUME NicSums, NEW n \in Nics, Others(n), lc'[n].credits = lc[n].credits,
           lc'[n].output_queues = lc[n].output_queues
    PROVE  NicSums'
<1>1. ASSUME NEW m \in Nics, NEW v \in VNs
      PROVE  lc'[m].credits[v] + FlitsOf(lc'[m].output_queues[v]) = NicOut
  BY DEF NicSums, Others
<1>2. QED BY <1>1 DEF NicSums, FlitsOf

(* The endpoint takes a packet: its room goes back.                        *)
LEMMA RecvCredits ==
    ASSUME IInv, NEW n \in Nics, NEW w \in VNs, LCRecv(n, w), pc' = pc, NicSums
    PROVE  Steady /\ NicSums' /\ data' = data
<1>1. PICK q, ev, s, e : /\ q = lc[n].input_queues[w] /\ ev = Head(q) /\ s = Size(ev)
                         /\ e = Credit(w, s)
  OBVIOUS
<1>2. /\ Others(n) /\ data' = data /\ q # <<>> /\ ev \in NicEvents
      /\ credit' = [x \in Ends |-> IF x = Other[n] THEN Append(credit[x], e) ELSE credit[x]]
      /\ lc'[n].router_credits = lc[n].router_credits
      /\ lc'[n].credits = lc[n].credits
      /\ lc'[n].output_queues = lc[n].output_queues
      /\ \A u \in VNs : lc'[n].input_queues[u] =
            IF u = w THEN Tail(lc[n].input_queues[u]) ELSE lc[n].input_queues[u]
  BY <1>1, LCRecvEffect DEF IInv
<1>3. /\ s \in Nat /\ q \in Seq(NicEvents) /\ n \in Ends /\ Other[n] \in Ends
  BY <1>1, <1>2, NicEventSize, EndsAre, OtherIs DEF IInv, NicsOK, NicOK, NicShape
<1>4. e.vc = w /\ e.credits = s /\ e \in CreditEvents
  BY <1>1, <1>3, VCsAre DEF Credit, CreditEvents
<1>5. ASSUME NEW x \in Counted, NEW v \in LinkClasses(x) PROVE LinkStep(x, v)
  <2>1. x \in Ends /\ Other[x] \in Ends
    BY CountedEnds, OtherIs
  <2>2. SenderCredits(x, v)' = SenderCredits(x, v)
    BY <1>2, <2>1, SenderSameNic
  <2>3. OnWire(x, v)' = OnWire(x, v)
    BY <1>2, WireSame
  <2>4. CASE x # n
    <3>1. Held(x, v)' = Held(x, v)
      BY <1>2, <2>1, <2>4, HeldSameNic
    <3>2. Other[x] # Other[n]
      BY <1>3, <2>1, <2>4, OtherInjective
    <3>3. credit'[Other[x]] = credit[Other[x]]
      BY <1>2, <2>1, <3>2
    <3>4. CreditsTo(Other[x], v)' = CreditsTo(Other[x], v)
      BY <3>3, BackSame
    <3>5. QED BY <2>2, <2>3, <3>1, <3>4 DEF LinkStep, Still
  <2>5. CASE x = n
    <3>1. v \in VNs
      BY <2>1, <2>5, ClassIs
    <3>2. PICK c, d : c = credit[Other[n]] /\ d = Append(c, e)
      OBVIOUS
    <3>3. c \in Seq(CreditEvents) /\ credit'[Other[n]] = d
      BY <1>2, <1>3, <3>2 DEF IInv, LinksOK
    <3>4. d \in Seq(CreditEvents)
      BY <1>4, <3>2, <3>3, NicQueue
    <3>5. IsAppend(d, c, e)
      BY <1>4, <3>2, <3>3, AppendIs
    <3>6. CreditsTo(Other[n], v) = CreditsOf(c, v) /\ CreditsTo(Other[n], v)' = CreditsOf(d, v)
      BY <3>2, <3>3, BackIs
    <3>7. CreditsOf(d, v) = CreditsOf(c, v) + Gain(e, v)
      BY <3>3, <3>4, <3>5, CreditsMore
    <3>8. CreditsOf(c, v) \in Nat /\ Gain(e, v) = IF v = w THEN s ELSE 0
      BY <1>4, <3>3, CreditsOfType DEF Gain
    <3>9. CASE v # w
      <4>1. Held(x, v)' = Held(x, v)
        BY <1>2, <2>1, <3>1, <3>9, HeldSameNic
      <4>2. CreditsTo(Other[x], v)' = CreditsTo(Other[x], v)
        BY <2>5, <3>6, <3>7, <3>8, <3>9
      <4>3. QED BY <2>2, <2>3, <4>1, <4>2 DEF LinkStep, Still
    <3>10. CASE v = w
      <4>1. CreditsTo(Other[x], v)' = CreditsTo(Other[x], v) + s
        BY <2>5, <3>6, <3>7, <3>8, <3>10
      <4>2. PICK p : p = Tail(q)
        OBVIOUS
      <4>3. IsTail(p, q) /\ ev = q[1] /\ EventQueue(q)
        BY <1>1, <1>2, <1>3, <4>2, TailIs, NicIsQueue
      <4>4. FlitsOf(q) = s + FlitsOf(p) /\ FlitsOf(p) \in Nat
        BY <1>1, <4>3, FlitsOfLess, FlitsOfType
      <4>5. Held(x, v) = FlitsOf(q) /\ Held(x, v)' = FlitsOf(p)
        BY <1>1, <1>2, <2>1, <2>5, <3>10, <4>2, HeldIs
      <4>6. Leaves(x, v, s)
        BY <2>2, <2>3, <4>1, <4>4, <4>5 DEF Leaves
      <4>7. QED BY <1>3, <4>6 DEF LinkStep
    <3>11. QED BY <3>9, <3>10
  <2>6. QED BY <2>4, <2>5
<1>6. NicSums'
  BY <1>2, NicSumsFrame
<1>7. QED BY <1>2, <1>5, <1>6 DEF Steady

-----------------------------------------------------------------------------
(* What comes onto a link, and what leaves it.                             *)
Amount(x, v, ev) == IF Class(x, ev) = v THEN Size(ev) ELSE 0

(* A link's count when a packet is put on it,                              *)
LEMMA WireMore ==
    ASSUME NEW x, NEW v, EventQueue(data[x]), NEW ev, ev.route \in Routes,
           IsAppend(data'[x], data[x], ev)
    PROVE  OnWire(x, v)' = OnWire(x, v) + Amount(x, v, ev)
<1>1. PICK b, V, q, p : b = ByVN(x) /\ V = {v} /\ q = data[x] /\ p = data'[x]
  OBVIOUS
<1>2. EventQueue(q) /\ IsAppend(p, q, ev)
  BY <1>1
<1>3. PICK k : k = IF Key(b, ev) \in V THEN Size(ev) ELSE 0
  OBVIOUS
<1>4. FlitsFor(b, p, V) = FlitsFor(b, q, V) + k
  BY <1>2, <1>3, FlitsMore
<1>5. k = Amount(x, v, ev)
  BY <1>1, <1>3 DEF Amount, Class, Key
<1>6. QED BY <1>1, <1>4, <1>5, WireIs

(* or taken from it,                                                       *)
LEMMA WireLess ==
    ASSUME NEW x, NEW v, EventQueue(data[x]), NEW ev, ev = data[x][1], IsTail(data'[x], data[x])
    PROVE  /\ OnWire(x, v) = Amount(x, v, ev) + OnWire(x, v)' /\ OnWire(x, v)' \in Nat
           /\ ev.route \in Routes
<1>1. PICK b, V, q, p : b = ByVN(x) /\ V = {v} /\ q = data[x] /\ p = data'[x]
  OBVIOUS
<1>2. EventQueue(q) /\ IsTail(p, q) /\ ev = q[1]
  BY <1>1
<1>3. PICK k : k = IF Key(b, q[1]) \in V THEN Size(q[1]) ELSE 0
  OBVIOUS
<1>4. FlitsFor(b, q, V) = k + FlitsFor(b, p, V) /\ EventQueue(p) /\ q[1].route \in Routes
  BY <1>2, <1>3, FlitsLess
<1>5. k = Amount(x, v, ev)
  BY <1>1, <1>2, <1>3 DEF Amount, Class, Key
<1>6. FlitsFor(b, p, V) \in Nat
  BY <1>4, FlitsType
<1>7. QED BY <1>1, <1>2, <1>4, <1>5, <1>6, WireIs

(* and when a credit is put on it                                          *)
LEMMA BackMore ==
    ASSUME LinksOK, NEW y \in Ends, NEW v, NEW e \in CreditEvents, credit'[y] = Append(credit[y], e)
    PROVE  CreditsTo(y, v)' = CreditsTo(y, v) + Gain(e, v)
<1>1. PICK q, p : q = credit[y] /\ p = Append(q, e)
  OBVIOUS
<1>2. q \in Seq(CreditEvents)
  BY <1>1 DEF LinksOK
<1>3. p \in Seq(CreditEvents) /\ IsAppend(p, q, e)
  BY <1>1, <1>2, NicQueue, AppendIs
<1>4. CreditsOf(p, v) = CreditsOf(q, v) + Gain(e, v)
  BY <1>2, <1>3, CreditsMore
<1>5. QED BY <1>1, <1>4, BackIs

(* or taken from it.                                                       *)
LEMMA BackLess ==
    ASSUME LinksOK, NEW y \in Ends, NEW v, credit[y] # <<>>, credit'[y] = Tail(credit[y])
    PROVE  /\ CreditsTo(y, v) = Gain(Head(credit[y]), v) + CreditsTo(y, v)' /\ CreditsTo(y, v)' \in Nat
           /\ Head(credit[y]).credits \in Nat
<1>1. PICK q, p : q = credit[y] /\ p = Tail(q)
  OBVIOUS
<1>2. q \in Seq(CreditEvents) /\ p \in Seq(CreditEvents) /\ Head(q).credits \in Nat /\ q # <<>>
  BY <1>1, CreditQueue
<1>3. CreditsOf(q, v) = Gain(Head(q), v) + CreditsOf(p, v)
  BY <1>1, <1>2, CreditsLess
<1>4. CreditsOf(p, v) \in Nat
  BY <1>2, CreditsOfType
<1>5. QED BY <1>1, <1>2, <1>3, <1>4, BackIs

(* The queue of a link whose first packet is taken.                        *)
LEMMA LinkQueue ==
    ASSUME LinksOK, NEW x \in Ends
    PROVE  /\ EventQueue(data[x])
           /\ data[x] # <<>> => IsTail(Tail(data[x]), data[x]) /\ Head(data[x]) = data[x][1]
<1>1. CASE x \in Nics \cup HostPorts
  <2>1. data[x] \in Seq(NicEvents)
    BY <1>1 DEF LinksOK
  <2>2. QED BY <2>1, NicIsQueue, TailIs
<1>2. CASE x \in Ports \ HostPorts
  <2>1. NetQueue(data[x])
    BY <1>2 DEF LinksOK
  <2>2. QED BY <2>1, NetIsQueue, NetTailIs
<1>3. QED BY <1>1, <1>2, EndsAre

-----------------------------------------------------------------------------
(* A credit arrives at an endpoint.                                        *)
LEMMA NicCreditSteady ==
    ASSUME IInv, NEW n \in Nics, LCCredit(n), pc' = pc, NicSums
    PROVE  Steady /\ NicSums' /\ data' = data
<1>1. PICK e, w, s : e = Head(credit[n]) /\ w = e.vc /\ s = e.credits
  OBVIOUS
<1>2. /\ Others(n) /\ data' = data /\ credit[n] # <<>>
      /\ credit' = [x \in Ends |-> IF x = n THEN Tail(credit[x]) ELSE credit[x]]
      /\ lc'[n].input_queues = lc[n].input_queues
      /\ lc'[n].credits = lc[n].credits
      /\ lc'[n].output_queues = lc[n].output_queues
      /\ \A v \in VNs : lc'[n].router_credits[v] =
            IF v = w THEN lc[n].router_credits[v] + s ELSE lc[n].router_credits[v]
  BY <1>1, LCCreditEffect DEF IInv
<1>3. n \in Ends /\ LinksOK
  BY EndsAre DEF IInv
<1>4. ASSUME NEW x \in Counted, NEW v \in LinkClasses(x) PROVE LinkStep(x, v)
  <2>1. x \in Ends /\ Other[x] \in Ends
    BY CountedEnds, OtherIs
  <2>2. Held(x, v)' = Held(x, v)
    BY <1>2, <2>1, HeldSameNic
  <2>3. OnWire(x, v)' = OnWire(x, v)
    BY <1>2, WireSame
  <2>4. CASE Other[x] # n
    <3>1. SenderCredits(x, v)' = SenderCredits(x, v)
      BY <1>2, <2>1, <2>4, SenderSameNic
    <3>2. credit'[Other[x]] = credit[Other[x]]
      BY <1>2, <2>1, <2>4
    <3>3. CreditsTo(Other[x], v)' = CreditsTo(Other[x], v)
      BY <3>2, BackSame
    <3>4. QED BY <2>2, <2>3, <3>1, <3>3 DEF LinkStep, Still
  <2>5. CASE Other[x] = n
    <3>1. x \in HostPorts /\ v \in VNs
      BY <2>1, <2>5, OtherIs, ClassIs
    <3>2. credit'[n] = Tail(credit[n])
      BY <1>2, <1>3
    <3>3. CreditsTo(n, v) = Gain(e, v) + CreditsTo(n, v)' /\ CreditsTo(n, v)' \in Nat /\ s \in Nat
      BY <1>1, <1>2, <1>3, <3>2, BackLess
    <3>4. SenderCredits(x, v) = lc[n].router_credits[v] /\ SenderCredits(x, v)' = lc'[n].router_credits[v]
      BY <2>1, <2>5, <3>1, SenderIs
    <3>5. CASE v = w
      <4>1. Gain(e, v) = s
        BY <1>1, <3>5 DEF Gain
      <4>2. SenderCredits(x, v)' = SenderCredits(x, v) + s
        BY <1>2, <3>1, <3>4, <3>5
      <4>3. Returns(x, v, s)
        BY <2>2, <2>3, <2>5, <3>3, <4>1, <4>2 DEF Returns
      <4>4. QED BY <3>3, <4>3 DEF LinkStep
    <3>6. CASE v # w
      <4>1. Gain(e, v) = 0
        BY <1>1, <3>6 DEF Gain
      <4>2. CreditsTo(n, v)' = CreditsTo(n, v)
        BY <3>3, <4>1
      <4>3. SenderCredits(x, v)' = SenderCredits(x, v)
        BY <1>2, <3>1, <3>4, <3>6
      <4>4. QED BY <2>2, <2>3, <2>5, <4>2, <4>3 DEF LinkStep, Still
    <3>7. QED BY <3>5, <3>6
  <2>6. QED BY <2>4, <2>5
<1>5. NicSums'
  BY <1>2, NicSumsFrame
<1>6. QED BY <1>2, <1>4, <1>5 DEF Steady

(* A packet arrives at an endpoint.                                        *)
LEMMA NicPacketSteady ==
    ASSUME IInv, NEW n \in Nics, LCPacket(n), pc' = pc, NicSums
    PROVE  Steady /\ NicSums' /\ \A x \in Ends \ {n} : data'[x] = data[x]
<1>1. PICK ev, w, s : ev = Head(data[n]) /\ w = VN(ev) /\ s = Size(ev)
  OBVIOUS
<1>2. /\ Others(n) /\ credit' = credit
      /\ data[n] # <<>> /\ data[n] \in Seq(NicEvents) /\ ev \in NicEvents
      /\ data' = [x \in Ends |-> IF x = n THEN Tail(data[x]) ELSE data[x]]
      /\ lc'[n].router_credits = lc[n].router_credits
      /\ lc'[n].credits = lc[n].credits
      /\ lc'[n].output_queues = lc[n].output_queues
      /\ \A u \in VNs : lc'[n].input_queues[u] =
            IF u = w THEN Append(lc[n].input_queues[u], ev) ELSE lc[n].input_queues[u]
  BY <1>1, LCPacketEffect DEF IInv
<1>3. n \in Ends /\ LinksOK /\ s \in Nat /\ ev.route \in Routes
  BY <1>1, <1>2, EndsAre, NicEventSize DEF IInv, NicEvents
<1>4. ASSUME NEW x \in Counted, NEW v \in LinkClasses(x) PROVE LinkStep(x, v)
  <2>1. x \in Ends /\ Other[x] \in Ends
    BY CountedEnds, OtherIs
  <2>2. SenderCredits(x, v)' = SenderCredits(x, v)
    BY <1>2, <2>1, SenderSameNic
  <2>3. CreditsTo(Other[x], v)' = CreditsTo(Other[x], v)
    BY <1>2, BackSame
  <2>4. CASE x # n
    <3>1. Held(x, v)' = Held(x, v)
      BY <1>2, <2>1, <2>4, HeldSameNic
    <3>2. data'[x] = data[x]
      BY <1>2, <2>1, <2>4
    <3>3. OnWire(x, v)' = OnWire(x, v)
      BY <3>2, WireSame
    <3>4. QED BY <2>2, <2>3, <3>1, <3>3 DEF LinkStep, Still
  <2>5. CASE x = n
    <3>1. v \in VNs /\ ByVN(n)
      BY <2>1, <2>5, ClassIs
    <3>2. data'[n] = Tail(data[n])
      BY <1>2, <1>3
    <3>3. EventQueue(data[n]) /\ IsTail(data'[n], data[n]) /\ ev = data[n][1]
      BY <1>1, <1>2, <1>3, <3>2, LinkQueue
    <3>4. OnWire(n, v) = Amount(n, v, ev) + OnWire(n, v)' /\ OnWire(n, v)' \in Nat
      BY <3>3, WireLess
    <3>5. Amount(n, v, ev) = IF v = w THEN s ELSE 0
      BY <1>1, <3>1 DEF Amount, Class
    <3>6. Held(n, v) = FlitsOf(lc[n].input_queues[v]) /\ Held(n, v)' = FlitsOf(lc'[n].input_queues[v])
      BY <1>3, HeldIs
    <3>7. CASE v = w
      <4>1. PICK q, p : q = lc[n].input_queues[v] /\ p = Append(q, ev)
        OBVIOUS
      <4>2. q \in Seq(NicEvents) /\ lc'[n].input_queues[v] = p
        BY <1>2, <3>1, <3>7, <4>1 DEF IInv, NicsOK, NicOK, NicShape
      <4>3. EventQueue(q) /\ IsAppend(p, q, ev)
        BY <1>2, <4>1, <4>2, NicIsQueue, AppendIs
      <4>4. FlitsOf(p) = FlitsOf(q) + s
        BY <1>1, <1>3, <4>3, FlitsOfMore
      <4>5. Held(n, v)' = Held(n, v) + s
        BY <3>6, <4>1, <4>2, <4>4
      <4>6. Arrives(n, v, s)
        BY <2>2, <2>3, <2>5, <3>4, <3>5, <3>7, <4>5 DEF Arrives
      <4>7. QED BY <1>3, <2>5, <4>6 DEF LinkStep
    <3>8. CASE v # w
      <4>1. Held(n, v)' = Held(n, v)
        BY <1>2, <3>1, <3>6, <3>8
      <4>2. OnWire(n, v)' = OnWire(n, v)
        BY <3>4, <3>5, <3>8
      <4>3. QED BY <2>2, <2>3, <2>5, <4>1, <4>2 DEF LinkStep, Still
    <3>9. QED BY <3>7, <3>8
  <2>6. QED BY <2>4, <2>5
<1>5. NicSums'
  BY <1>2, NicSumsFrame
<1>6. \A x \in Ends \ {n} : data'[x] = data[x]
  BY <1>2
<1>7. QED BY <1>4, <1>5, <1>6 DEF Steady

(* An endpoint sends a packet.                                             *)
LEMMA NicSendsSteady ==
    ASSUME IInv, NEW n \in Nics, Others(n), NEW w \in VNs, NicSends(n, w), pc' = pc, credit' = credit,
           lc'[n].input_queues = lc[n].input_queues, NicSums
    PROVE  Steady /\ NicSums' /\ \A x \in Ends \ HostPorts : data'[x] = data[x]
<1>1. PICK q, p, ev, s, y : /\ q = lc[n].output_queues[w] /\ p = Tail(q) /\ ev = Head(q)
                            /\ s = Size(ev) /\ y = Other[n]
  OBVIOUS
<1>2. /\ q # <<>> /\ lc[n].router_credits[w] >= s
      /\ data' = [x \in Ends |-> IF x = y THEN Append(data[x], ev) ELSE data[x]]
      /\ \A u \in VNs :
            /\ lc'[n].output_queues[u] = IF u = w THEN Tail(lc[n].output_queues[u]) ELSE lc[n].output_queues[u]
            /\ lc'[n].credits[u] = IF u = w THEN lc[n].credits[u] + s ELSE lc[n].credits[u]
            /\ lc'[n].router_credits[u] =
                  IF u = w THEN lc[n].router_credits[u] - s ELSE lc[n].router_credits[u]
  BY <1>1 DEF NicSends
<1>3. n \in Ends /\ y \in Ends /\ y \in HostPorts /\ Other[y] = n /\ LinksOK
  BY <1>1, EndsAre, OtherIs DEF IInv
<1>4. /\ lc[n].credits[w] \in Int /\ lc[n].router_credits[w] \in Int
      /\ q \in Seq(NicEventsOf(w)) /\ EventQueue(q) /\ FlitsOf(q) \in Nat
  BY <1>1, NicOutputs DEF IInv
<1>5. ev \in NicEventsOf(w)
  BY <1>1, <1>2, <1>4, NicQueue
<1>6. ev \in NicEvents /\ VN(ev) = w /\ ev.route \in Routes
  BY <1>5 DEF NicEventsOf, NicEvents
<1>7. s \in Nat
  BY <1>1, <1>6, NicEventSize
<1>8. ASSUME NEW x \in Counted, NEW v \in LinkClasses(x) PROVE LinkStep(x, v)
  <2>1. x \in Ends /\ Other[x] \in Ends
    BY CountedEnds, OtherIs
  <2>2. Held(x, v)' = Held(x, v)
    BY <2>1, HeldSameNic
  <2>3. CreditsTo(Other[x], v)' = CreditsTo(Other[x], v)
    BY BackSame
  <2>4. CASE x # y
    <3>1. Other[x] # n
      BY <1>1, <2>1, <2>4, OtherIs
    <3>2. SenderCredits(x, v)' = SenderCredits(x, v)
      BY <2>1, <3>1, SenderSameNic
    <3>3. data'[x] = data[x]
      BY <1>2, <2>1, <2>4
    <3>4. OnWire(x, v)' = OnWire(x, v)
      BY <3>3, WireSame
    <3>5. QED BY <2>2, <2>3, <3>2, <3>4 DEF LinkStep, Still
  <2>5. CASE x = y
    <3>1. v \in VNs /\ ByVN(y)
      BY <1>3, <2>1, <2>5, ClassIs
    <3>2. data'[y] = Append(data[y], ev) /\ data[y] \in Seq(NicEvents)
      BY <1>2, <1>3 DEF LinksOK
    <3>3. EventQueue(data[y]) /\ IsAppend(data'[y], data[y], ev)
      BY <1>3, <1>6, <3>2, LinkQueue, AppendIs
    <3>4. OnWire(y, v)' = OnWire(y, v) + Amount(y, v, ev)
      BY <1>6, <3>3, WireMore
    <3>5. Amount(y, v, ev) = IF v = w THEN s ELSE 0
      BY <1>1, <1>6, <3>1 DEF Amount, Class
    <3>6. SenderCredits(y, v) = lc[n].router_credits[v] /\ SenderCredits(y, v)' = lc'[n].router_credits[v]
      BY <1>3, SenderIs
    <3>7. OnWire(y, v) \in Nat
      BY <1>3, <2>5, CountTypes DEF IInv, Typed
    <3>8. CASE v = w
      <4>1. SenderCredits(y, v) >= s /\ SenderCredits(y, v)' = SenderCredits(y, v) - s
        BY <1>2, <3>1, <3>6, <3>8
      <4>2. Departs(y, v, s)
        BY <2>2, <2>3, <2>5, <3>4, <3>5, <3>8, <4>1 DEF Departs
      <4>3. QED BY <1>7, <2>5, <4>2 DEF LinkStep
    <3>9. CASE v # w
      <4>1. SenderCredits(y, v)' = SenderCredits(y, v)
        BY <1>2, <3>1, <3>6, <3>9
      <4>2. OnWire(y, v)' = OnWire(y, v)
        BY <3>4, <3>5, <3>7, <3>9
      <4>3. QED BY <2>2, <2>3, <2>5, <4>1, <4>2 DEF LinkStep, Still
    <3>10. QED BY <3>8, <3>9
  <2>6. QED BY <2>4, <2>5
<1>9. ASSUME NEW m \in Nics, NEW v \in VNs
      PROVE  lc'[m].credits[v] + FlitsOf(lc'[m].output_queues[v]) = NicOut
  <2>1. lc[m].credits[v] + FlitsOf(lc[m].output_queues[v]) = NicOut
    BY DEF NicSums
  <2>2. CASE m # n \/ v # w
    BY <1>2, <2>1, <2>2 DEF Others
  <2>3. CASE m = n /\ v = w
    <3>1. IsTail(p, q) /\ ev = q[1]
      BY <1>1, <1>2, <1>4, TailIs
    <3>2. FlitsOf(q) = s + FlitsOf(p) /\ EventQueue(p)
      BY <1>1, <1>4, <3>1, FlitsOfLess
    <3>3. FlitsOf(p) \in Nat
      BY <3>2, FlitsOfType
    <3>4. PICK c \in Int : c = lc[n].credits[w] /\ c + FlitsOf(q) = NicOut
      BY <1>1, <1>4, <2>1, <2>3
    <3>5. (c + s) + FlitsOf(p) = NicOut
      BY <1>7, <3>2, <3>3, <3>4
    <3>6. lc'[m].credits[v] = c + s /\ lc'[m].output_queues[v] = p
      BY <1>1, <1>2, <2>3, <3>4
    <3>7. QED BY <3>5, <3>6
  <2>4. QED BY <2>2, <2>3
<1>10. NicSums'
  BY <1>9 DEF NicSums, FlitsOf
<1>11. \A x \in Ends \ HostPorts : data'[x] = data[x]
  BY <1>2, <1>3
<1>12. QED BY <1>8, <1>10, <1>11 DEF Steady

(* handle_output of an endpoint.                                           *)
LEMMA NicOutputSteady ==
    ASSUME IInv, NEW n \in Nics, LCOutput(n), pc' = pc, NicSums
    PROVE  Steady /\ NicSums' /\ \A x \in Ends \ HostPorts : data'[x] = data[x]
<1>1. /\ Others(n) /\ credit' = credit /\ lc'[n].input_queues = lc[n].input_queues
      /\ (\E v \in VNs : NicSends(n, v)) \/ NicSleeps(n)
  BY LCOutputEffect DEF IInv
<1>2. CASE \E v \in VNs : NicSends(n, v)
  BY <1>1, <1>2, NicSendsSteady
<1>3. CASE NicSleeps(n)
  <2>1. /\ data' = data /\ lc'[n].output_queues = lc[n].output_queues
        /\ lc'[n].credits = lc[n].credits /\ lc'[n].router_credits = lc[n].router_credits
    BY <1>3 DEF NicSleeps
  <2>2. ASSUME NEW x \in Counted, NEW v \in LinkClasses(x) PROVE LinkStep(x, v)
    <3>1. x \in Ends
      BY CountedEnds
    <3>2. SenderCredits(x, v)' = SenderCredits(x, v)
      BY <1>1, <2>1, <3>1, SenderSameNic
    <3>3. Held(x, v)' = Held(x, v)
      BY <1>1, <3>1, HeldSameNic
    <3>4. OnWire(x, v)' = OnWire(x, v) /\ CreditsTo(Other[x], v)' = CreditsTo(Other[x], v)
      BY <1>1, <2>1, WireSame, BackSame
    <3>5. QED BY <3>2, <3>3, <3>4 DEF LinkStep, Still
  <2>3. NicSums'
    BY <1>1, <2>1, NicSumsFrame
  <2>4. QED BY <2>1, <2>2, <2>3 DEF Steady
<1>4. QED BY <1>1, <1>2, <1>3

-----------------------------------------------------------------------------
(* Ports whose buffers stay as they are.                                   *)
LEMMA InputsFrame ==
    ASSUME InputsOK, \A x \in Ports : pc'[x].input_buf = pc[x].input_buf PROVE InputsOK'
<1>1. ASSUME NEW x \in Ports, NEW v \in VCs PROVE InQueue(x, v, pc'[x].input_buf[v])
  BY DEF InputsOK
<1>2. QED BY <1>1 DEF InputsOK, InQueue, InEvent

(* The output buffers and their credits.                                   *)
LEMMA OutputsFrame ==
    ASSUME OutputsOK, PortSums,
           \A x \in Ports : /\ pc'[x].output_buf = pc[x].output_buf
                            /\ pc'[x].xbar_in_credits = pc[x].xbar_in_credits
    PROVE  OutputsOK' /\ PortSums'
<1>1. ASSUME NEW x \in Ports, NEW v \in VCs
      PROVE  /\ OutQueue(v, pc'[x].output_buf[v])
             /\ pc'[x].xbar_in_credits[v] + FlitsOf(pc'[x].output_buf[v]) = RouterOut
  BY DEF OutputsOK, PortSums
<1>2. QED BY <1>1 DEF OutputsOK, OutQueue, OutEvent, PortSums, FlitsOf

(* The links between routers.                                              *)
LEMMA WiresFrame ==
    ASSUME WiresOK, \A x \in Ports \ HostPorts : data'[x] = data[x] PROVE WiresOK'
<1>1. ASSUME NEW x \in Ports \ HostPorts PROVE WireQueue(data'[x])
  BY DEF WiresOK
<1>2. QED BY <1>1 DEF WiresOK, WireQueue, WireEvent

(* A packet arrives at a router.                                           *)
LEMMA PacketSteady ==
    ASSUME IInv, InputsOK, OutputsOK, WiresOK, PortSums, NEW y \in Ports, PCPacket(y)
    PROVE  Steady /\ InputsOK' /\ OutputsOK' /\ WiresOK' /\ PortSums'
<1>1. PICK e, ev, w, s : /\ e = Head(data[y]) /\ ev = Received(y, e) /\ w = ev.h.vc /\ s = Size(e)
  OBVIOUS
<1>2. /\ OtherPorts(y) /\ credit' = credit /\ lc' = lc
      /\ data[y] # <<>>
      /\ data' = [x \in Ends |-> IF x = y THEN Tail(data[x]) ELSE data[x]]
      /\ pc'[y].output_buf = pc[y].output_buf
      /\ pc'[y].xbar_in_credits = pc[y].xbar_in_credits
      /\ pc'[y].port_out_credits = pc[y].port_out_credits
      /\ \A v \in VCs : pc'[y].input_buf[v] =
            IF v = w THEN Queued(y, pc[y].input_buf[v], ev) ELSE pc[y].input_buf[v]
  BY <1>1, PCPacketEffect DEF IInv
<1>3. /\ VN(ev) = VN(e) /\ Size(ev) = s
      /\ y \notin HostPorts => ev = e
      /\ y \in HostPorts => w = StartVC(Alg, VN(ev))
      /\ InEvent(y, w, ev)
  BY <1>1, <1>2, ReceivedOn DEF IInv
<1>4. /\ NetEvent(ev) /\ e.route \in Routes
  BY <1>1, <1>2, ReceivedIs DEF IInv
<1>5. /\ y \in Ends /\ LinksOK /\ s \in Nat /\ VN(e) \in VNs
  BY <1>1, <1>4, EndsAre, SizeType DEF IInv
<1>6. \A v \in VCs : NetQueue(pc[y].input_buf[v])
  BY DEF IInv, PortsOK, PortOK, PortShape, Buffers
<1>7. data'[y] = Tail(data[y]) /\ \A x \in Ends \ {y} : data'[x] = data[x]
  BY <1>2, <1>5
<1>8. EventQueue(data[y]) /\ IsTail(data'[y], data[y]) /\ e = data[y][1]
  BY <1>1, <1>2, <1>5, <1>7, LinkQueue
<1>9. ASSUME NEW x \in Counted, NEW v \in LinkClasses(x) PROVE LinkStep(x, v)
  <2>1. x \in Ends /\ Other[x] \in Ends
    BY CountedEnds, OtherIs
  <2>2. SenderCredits(x, v)' = SenderCredits(x, v)
    BY <1>2, <2>1, SenderSamePort
  <2>3. CreditsTo(Other[x], v)' = CreditsTo(Other[x], v)
    BY <1>2, BackSame
  <2>4. CASE x # y
    <3>1. Held(x, v)' = Held(x, v)
      BY <1>2, <2>1, <2>4, HeldSamePort
    <3>2. OnWire(x, v)' = OnWire(x, v)
      BY <1>7, <2>1, <2>4, WireSame
    <3>3. QED BY <2>2, <2>3, <3>1, <3>2 DEF LinkStep, Still
  <2>5. CASE x = y
    <3>1. BufferOf(y, v) \in VCs
      BY <2>5, BufferOfIs
    <3>2. OnWire(y, v) = Amount(y, v, e) + OnWire(y, v)' /\ OnWire(y, v)' \in Nat
      BY <1>8, WireLess
    <3>3. Class(y, e) = v <=> BufferOf(y, v) = w
      <4>1. CASE y \in HostPorts
        <5>1. Class(y, e) = VN(e) /\ v \in VNs /\ BufferOf(y, v) = StartVC(Alg, v)
          BY <1>5, <2>1, <2>5, <4>1, ClassIs DEF Class, BufferOf
        <5>2. QED BY <1>3, <1>5, <4>1, <5>1, StartVCIs
      <4>2. CASE y \notin HostPorts
        <5>1. Class(y, e) = e.h.vc /\ BufferOf(y, v) = v
          BY <1>5, <4>2, ClassIs, EndsAre DEF Class, BufferOf
        <5>2. QED BY <1>1, <1>3, <4>2, <5>1
      <4>3. QED BY <4>1, <4>2
    <3>4. Amount(y, v, e) = IF BufferOf(y, v) = w THEN s ELSE 0
      BY <1>1, <3>3 DEF Amount
    <3>5. PICK z : z = BufferOf(y, v)
      OBVIOUS
    <3>6. Held(y, v) = FlitsOf(pc[y].input_buf[z]) /\ Held(y, v)' = FlitsOf(pc'[y].input_buf[z])
      BY <3>5, HeldPort
    <3>7. CASE z = w
      <4>1. PICK q : q = pc[y].input_buf[z]
        OBVIOUS
      <4>2. NetQueue(q) /\ pc'[y].input_buf[z] = Queued(y, q, ev)
        BY <1>2, <1>6, <3>1, <3>5, <3>7, <4>1
      <4>3. FlitsOf(Queued(y, q, ev)) = FlitsOf(q) + s
        BY <1>3, <1>4, <4>2, FlitsQueued
      <4>4. Held(y, v)' = Held(y, v) + s
        BY <3>6, <4>1, <4>2, <4>3
      <4>5. Arrives(y, v, s)
        BY <2>2, <2>3, <2>5, <3>2, <3>4, <3>5, <3>7, <4>4 DEF Arrives
      <4>6. QED BY <1>5, <2>5, <4>5 DEF LinkStep
    <3>8. CASE z # w
      <4>1. pc'[y].input_buf[z] = pc[y].input_buf[z]
        BY <1>2, <3>1, <3>5, <3>8
      <4>2. Held(y, v)' = Held(y, v)
        BY <3>6, <4>1
      <4>3. OnWire(y, v)' = OnWire(y, v)
        BY <3>2, <3>4, <3>5, <3>8
      <4>4. QED BY <2>2, <2>3, <2>5, <4>2, <4>3 DEF LinkStep, Still
    <3>9. QED BY <3>7, <3>8
  <2>6. QED BY <2>4, <2>5
<1>10. InputsOK'
  <2>1. ASSUME NEW x \in Ports, NEW v \in VCs PROVE InQueue(x, v, pc'[x].input_buf[v])
    <3>1. InQueue(x, v, pc[x].input_buf[v])
      BY DEF InputsOK
    <3>2. CASE x # y \/ v # w
      <4>1. pc'[x].input_buf[v] = pc[x].input_buf[v]
        BY <1>2, <3>2 DEF OtherPorts
      <4>2. QED BY <3>1, <4>1
    <3>3. CASE x = y /\ v = w
      <4>1. PICK q : q = pc[y].input_buf[v]
        OBVIOUS
      <4>2. NetQueue(q) /\ InQueue(y, v, q) /\ InEvent(y, v, ev)
        BY <1>3, <1>6, <3>1, <3>3, <4>1
      <4>3. InQueue(y, v, Queued(y, q, ev))
        BY <1>4, <4>2, InQueued
      <4>4. pc'[y].input_buf[v] = Queued(y, q, ev)
        BY <1>2, <3>3, <4>1
      <4>5. QED BY <3>3, <4>3, <4>4
    <3>4. QED BY <3>2, <3>3
  <2>2. QED BY <2>1 DEF InputsOK, InQueue, InEvent
<1>11. OutputsOK' /\ PortSums'
  <2>1. \A x \in Ports : /\ pc'[x].output_buf = pc[x].output_buf
                         /\ pc'[x].xbar_in_credits = pc[x].xbar_in_credits
    BY <1>2 DEF OtherPorts
  <2>2. QED BY <2>1, OutputsFrame
<1>12. WiresOK'
  <2>1. ASSUME NEW x \in Ports \ HostPorts PROVE WireQueue(data'[x])
    <3>1. WireQueue(data[x]) /\ x \in Ends
      BY EndsAre DEF WiresOK
    <3>2. CASE x # y
      BY <1>7, <3>1, <3>2
    <3>3. CASE x = y
      <4>1. Len(data[y]) \in Nat
        BY <1>8 DEF EventQueue
      <4>2. QED BY <1>8, <3>1, <3>3, <4>1, WireTail
    <3>4. QED BY <3>2, <3>3
  <2>2. QED BY <2>1 DEF WiresOK, WireQueue, WireEvent
<1>13. QED BY <1>9, <1>10, <1>11, <1>12 DEF Steady

(* A credit arrives at a router.                                           *)
LEMMA PortCreditSteady ==
    ASSUME IInv, InputsOK, OutputsOK, WiresOK, PortSums, NEW y \in Ports, PCCredit(y)
    PROVE  Steady /\ InputsOK' /\ OutputsOK' /\ WiresOK' /\ PortSums' /\ lc' = lc
<1>1. PICK e, w, s : e = Head(credit[y]) /\ w = e.vc /\ s = e.credits
  OBVIOUS
<1>2. /\ OtherPorts(y) /\ data' = data /\ lc' = lc /\ credit[y] # <<>>
      /\ credit' = [x \in Ends |-> IF x = y THEN Tail(credit[x]) ELSE credit[x]]
      /\ pc'[y].input_buf = pc[y].input_buf
      /\ pc'[y].output_buf = pc[y].output_buf
      /\ pc'[y].xbar_in_credits = pc[y].xbar_in_credits
      /\ \A v \in VCs : pc'[y].port_out_credits[v] =
            IF v = w THEN pc[y].port_out_credits[v] + s ELSE pc[y].port_out_credits[v]
  BY <1>1, PCCreditEffect DEF IInv
<1>3. y \in Ends /\ LinksOK /\ y \notin Nics
  BY EndsAre DEF IInv
<1>4. ASSUME NEW x \in Counted, NEW v \in LinkClasses(x) PROVE LinkStep(x, v)
  <2>1. x \in Ends /\ Other[x] \in Ends
    BY CountedEnds, OtherIs
  <2>2. Held(x, v)' = Held(x, v)
    BY <1>2, <2>1, HeldSamePort
  <2>3. OnWire(x, v)' = OnWire(x, v)
    BY <1>2, WireSame
  <2>4. CASE Other[x] # y
    <3>1. SenderCredits(x, v)' = SenderCredits(x, v)
      BY <1>2, <2>1, <2>4, SenderSamePort
    <3>2. credit'[Other[x]] = credit[Other[x]]
      BY <1>2, <2>1, <2>4
    <3>3. CreditsTo(Other[x], v)' = CreditsTo(Other[x], v)
      BY <3>2, BackSame
    <3>4. QED BY <2>2, <2>3, <3>1, <3>3 DEF LinkStep, Still
  <2>5. CASE Other[x] = y
    <3>1. x \notin HostPorts /\ v \in VCs
      BY <1>3, <2>1, <2>5, OtherIs, ClassIs, VCsAre
    <3>2. credit'[y] = Tail(credit[y])
      BY <1>2, <1>3
    <3>3. CreditsTo(y, v) = Gain(e, v) + CreditsTo(y, v)' /\ CreditsTo(y, v)' \in Nat /\ s \in Nat
      BY <1>1, <1>2, <1>3, <3>2, BackLess
    <3>4. SenderCredits(x, v) = pc[y].port_out_credits[v] /\ SenderCredits(x, v)' = pc'[y].port_out_credits[v]
      BY <2>1, <2>5, <3>1, SenderIs
    <3>5. CASE v = w
      <4>1. Gain(e, v) = s
        BY <1>1, <3>5 DEF Gain
      <4>2. SenderCredits(x, v)' = SenderCredits(x, v) + s
        BY <1>2, <3>1, <3>4, <3>5
      <4>3. Returns(x, v, s)
        BY <2>2, <2>3, <2>5, <3>3, <4>1, <4>2 DEF Returns
      <4>4. QED BY <3>3, <4>3 DEF LinkStep
    <3>6. CASE v # w
      <4>1. Gain(e, v) = 0
        BY <1>1, <3>6 DEF Gain
      <4>2. CreditsTo(y, v)' = CreditsTo(y, v)
        BY <3>3, <4>1
      <4>3. SenderCredits(x, v)' = SenderCredits(x, v)
        BY <1>2, <3>1, <3>4, <3>6
      <4>4. QED BY <2>2, <2>3, <2>5, <4>2, <4>3 DEF LinkStep, Still
    <3>7. QED BY <3>5, <3>6
  <2>6. QED BY <2>4, <2>5
<1>5. \A x \in Ports : /\ pc'[x].input_buf = pc[x].input_buf
                       /\ pc'[x].output_buf = pc[x].output_buf
                       /\ pc'[x].xbar_in_credits = pc[x].xbar_in_credits
  BY <1>2 DEF OtherPorts
<1>6. QED BY <1>2, <1>4, <1>5, InputsFrame, OutputsFrame, WiresFrame DEF Steady

(* A port's output buffer and its credits.                                 *)
LEMMA PortOutputs ==
    ASSUME PortsOK, NEW x \in Ports, NEW v \in VCs
    PROVE  /\ pc[x].xbar_in_credits[v] \in Int /\ pc[x].port_out_credits[v] \in Int
           /\ NetQueue(pc[x].output_buf[v]) /\ EventQueue(pc[x].output_buf[v])
           /\ FlitsOf(pc[x].output_buf[v]) \in Nat
<1>1. /\ pc[x].xbar_in_credits \in [VCs -> Int] /\ pc[x].port_out_credits \in [VCs -> Int]
      /\ NetQueue(pc[x].output_buf[v])
  BY DEF PortsOK, PortOK, PortShape, Buffers
<1>2. EventQueue(pc[x].output_buf[v])
  BY <1>1, NetIsQueue
<1>3. FlitsOf(pc[x].output_buf[v]) \in Nat
  BY <1>2, FlitsOfType
<1>4. QED BY <1>1, <1>2, <1>3

(* A router sends a packet.                                                *)
LEMMA PortSendsSteady ==
    ASSUME IInv, InputsOK, OutputsOK, WiresOK, PortSums, NEW y \in Ports, OtherPorts(y),
           NEW w \in VCs, PortSends(y, w), lc' = lc, credit' = credit,
           pc'[y].input_buf = pc[y].input_buf
    PROVE  Steady /\ OutputsOK' /\ WiresOK' /\ PortSums'
<1>1. PICK q, p, ev, e, s, o : /\ q = pc[y].output_buf[w] /\ p = Tail(q) /\ ev = Head(q)
                               /\ e = Sent(y, ev) /\ s = Size(ev) /\ o = Other[y]
  OBVIOUS
<1>2. /\ q # <<>> /\ pc[y].port_out_credits[CreditVC(y, w, ev)] >= s
      /\ data' = [x \in Ends |-> IF x = o THEN Append(data[x], e) ELSE data[x]]
      /\ \A u \in VCs :
            /\ pc'[y].output_buf[u] = IF u = w THEN Tail(pc[y].output_buf[u]) ELSE pc[y].output_buf[u]
            /\ pc'[y].xbar_in_credits[u] =
                  IF u = w THEN pc[y].xbar_in_credits[u] + s ELSE pc[y].xbar_in_credits[u]
            /\ pc'[y].port_out_credits[u] =
                  IF u = w THEN pc[y].port_out_credits[u] - s ELSE pc[y].port_out_credits[u]
  BY <1>1 DEF PortSends
<1>3. /\ y \in Ends /\ o \in Ends /\ o \notin HostPorts /\ Other[o] = y /\ LinksOK
      /\ (y \in HostPorts <=> o \in Nics)
  BY <1>1, EndsAre, OtherIs DEF IInv
<1>4. /\ pc[y].xbar_in_credits[w] \in Int /\ pc[y].port_out_credits[w] \in Int
      /\ NetQueue(q) /\ EventQueue(q) /\ FlitsOf(q) \in Nat /\ Len(q) \in Nat
  BY <1>1, PortOutputs, NetQueueFacts DEF IInv
<1>5. NetEvent(ev) /\ IsTail(p, q) /\ ev = q[1]
  BY <1>1, <1>2, <1>4, NetTailIs, NetQueueFacts
<1>6. OutQueue(w, q)
  BY <1>1 DEF OutputsOK
<1>7. OutQueue(w, p) /\ OutEvent(w, ev)
  BY <1>4, <1>5, <1>6, OutTail
<1>8. /\ e.route = ev.route /\ (y \notin HostPorts => e = ev)
      /\ IF o \in Nics \cup HostPorts THEN e \in NicEvents ELSE NetEvent(e)
  BY <1>1, <1>5, SentIs
<1>9. s \in Nat /\ Size(e) = s /\ VN(e) = VN(ev) /\ ev.route \in Routes /\ e.route \in Routes
  BY <1>1, <1>5, <1>8, SizeType DEF Size, VN, NetEvent
<1>10. data'[o] = Append(data[o], e) /\ \A x \in Ends \ {o} : data'[x] = data[x]
  BY <1>2, <1>3
<1>11. EventQueue(data[o]) /\ IsAppend(data'[o], data[o], e)
  <2>1. CASE o \in Nics
    <3>1. data[o] \in Seq(NicEvents) /\ e \in NicEvents
      BY <1>3, <1>8, <2>1 DEF LinksOK
    <3>2. QED BY <1>3, <1>10, <3>1, LinkQueue, AppendIs
  <2>2. CASE o \in Ports \ HostPorts
    <3>1. NetQueue(data[o]) /\ NetEvent(e)
      BY <1>3, <1>8, <2>2, EndsAre DEF LinksOK
    <3>2. QED BY <1>3, <1>10, <3>1, LinkQueue, NetAppendIs
  <2>3. QED BY <1>3, <2>1, <2>2, EndsAre
<1>12. ASSUME o \in Counted PROVE Class(o, e) = w /\ CreditVC(y, w, ev) = w
  <2>1. CASE o \in Nics
    <3>1. Alg = "DOR"
      BY <1>12, <2>1, EndsAre DEF Counted
    <3>2. VN(ev) = w
      BY <1>7, <3>1 DEF OutEvent
    <3>3. QED BY <1>3, <1>9, <2>1, <3>2, ClassIs DEF Class, CreditVC, isHost
  <2>2. CASE o \notin Nics
    <3>1. y \notin HostPorts /\ o \notin HostPorts /\ e = ev
      BY <1>3, <1>8, <2>2
    <3>2. ev.h.vc = w
      BY <1>7 DEF OutEvent
    <3>3. ~ByVN(o)
      BY <1>3, <2>2, ClassIs
    <3>4. QED BY <3>1, <3>2, <3>3 DEF Class, CreditVC, isHost
  <2>3. QED BY <2>1, <2>2
<1>13. ASSUME NEW x \in Counted, NEW v \in LinkClasses(x) PROVE LinkStep(x, v)
  <2>1. x \in Ends /\ Other[x] \in Ends
    BY CountedEnds, OtherIs
  <2>2. Held(x, v)' = Held(x, v)
    BY <2>1, HeldSamePort
  <2>3. CreditsTo(Other[x], v)' = CreditsTo(Other[x], v)
    BY BackSame
  <2>4. CASE x # o
    <3>1. Other[x] # y
      BY <1>1, <2>1, <2>4, OtherIs
    <3>2. SenderCredits(x, v)' = SenderCredits(x, v)
      BY <2>1, <3>1, SenderSamePort
    <3>3. data'[x] = data[x]
      BY <1>10, <2>1, <2>4
    <3>4. OnWire(x, v)' = OnWire(x, v)
      BY <3>3, WireSame
    <3>5. QED BY <2>2, <2>3, <3>2, <3>4 DEF LinkStep, Still
  <2>5. CASE x = o
    <3>1. v \in VCs
      BY <2>1, ClassIs, VCsAre
    <3>2. OnWire(o, v)' = OnWire(o, v) + Amount(o, v, e)
      BY <1>9, <1>11, WireMore
    <3>3. Class(o, e) = w /\ CreditVC(y, w, ev) = w
      BY <1>12, <2>5
    <3>4. Amount(o, v, e) = IF v = w THEN s ELSE 0
      BY <1>9, <3>3 DEF Amount
    <3>5. SenderCredits(o, v) = pc[y].port_out_credits[v] /\ SenderCredits(o, v)' = pc'[y].port_out_credits[v]
      BY <1>3, SenderIs
    <3>6. OnWire(o, v) \in Nat
      BY <1>3, <2>5, CountTypes DEF IInv, Typed
    <3>7. CASE v = w
      <4>1. SenderCredits(o, v) >= s /\ SenderCredits(o, v)' = SenderCredits(o, v) - s
        BY <1>2, <3>1, <3>3, <3>5, <3>7
      <4>2. Departs(o, v, s)
        BY <2>2, <2>3, <2>5, <3>2, <3>4, <3>7, <4>1 DEF Departs
      <4>3. QED BY <1>9, <2>5, <4>2 DEF LinkStep
    <3>8. CASE v # w
      <4>1. SenderCredits(o, v)' = SenderCredits(o, v)
        BY <1>2, <3>1, <3>5, <3>8
      <4>2. OnWire(o, v)' = OnWire(o, v)
        BY <3>2, <3>4, <3>6, <3>8
      <4>3. QED BY <2>2, <2>3, <2>5, <4>1, <4>2 DEF LinkStep, Still
    <3>9. QED BY <3>7, <3>8
  <2>6. QED BY <2>4, <2>5
<1>14. ASSUME NEW x \in Ports, NEW v \in VCs
       PROVE  /\ OutQueue(v, pc'[x].output_buf[v])
              /\ pc'[x].xbar_in_credits[v] + FlitsOf(pc'[x].output_buf[v]) = RouterOut
  <2>1. /\ OutQueue(v, pc[x].output_buf[v])
        /\ pc[x].xbar_in_credits[v] + FlitsOf(pc[x].output_buf[v]) = RouterOut
    BY DEF OutputsOK, PortSums
  <2>2. CASE x # y \/ v # w
    <3>1. pc'[x].output_buf[v] = pc[x].output_buf[v] /\ pc'[x].xbar_in_credits[v] = pc[x].xbar_in_credits[v]
      BY <1>2, <2>2 DEF OtherPorts
    <3>2. QED BY <2>1, <3>1
  <2>3. CASE x = y /\ v = w
    <3>1. FlitsOf(q) = s + FlitsOf(p) /\ EventQueue(p)
      BY <1>1, <1>4, <1>5, FlitsOfLess
    <3>2. FlitsOf(p) \in Nat
      BY <3>1, FlitsOfType
    <3>3. PICK c \in Int : c = pc[y].xbar_in_credits[w] /\ c + FlitsOf(q) = RouterOut
      BY <1>1, <1>4, <2>1, <2>3
    <3>4. (c + s) + FlitsOf(p) = RouterOut
      BY <1>9, <3>1, <3>2, <3>3
    <3>5. pc'[x].xbar_in_credits[v] = c + s /\ pc'[x].output_buf[v] = p
      BY <1>1, <1>2, <2>3, <3>3
    <3>6. QED BY <1>7, <2>3, <3>4, <3>5
  <2>4. QED BY <2>2, <2>3
<1>15. OutputsOK' /\ PortSums'
  BY <1>14 DEF OutputsOK, OutQueue, OutEvent, PortSums, FlitsOf
<1>16. WiresOK'
  <2>1. ASSUME NEW x \in Ports \ HostPorts PROVE WireQueue(data'[x])
    <3>1. WireQueue(data[x]) /\ x \in Ends
      BY EndsAre DEF WiresOK
    <3>2. CASE x # o
      BY <1>10, <3>1, <3>2
    <3>3. CASE x = o
      <4>1. Len(data[o]) \in Nat /\ e = ev
        BY <1>3, <1>8, <1>11, <3>3, EndsAre DEF EventQueue
      <4>2. WireEvent(e)
        BY <1>7, <4>1 DEF OutEvent, WireEvent
      <4>3. QED BY <1>11, <3>1, <3>3, <4>1, <4>2, WireAppend
    <3>4. QED BY <3>2, <3>3
  <2>2. QED BY <2>1 DEF WiresOK, WireQueue, WireEvent
<1>17. QED BY <1>13, <1>15, <1>16 DEF Steady

(* handle_output of a router's port.                                       *)
LEMMA PortOutputSteady ==
    ASSUME IInv, InputsOK, OutputsOK, WiresOK, PortSums, NEW y \in Ports, PCOutput(y)
    PROVE  Steady /\ InputsOK' /\ OutputsOK' /\ WiresOK' /\ PortSums' /\ lc' = lc
<1>1. /\ OtherPorts(y) /\ credit' = credit /\ lc' = lc /\ pc'[y].input_buf = pc[y].input_buf
      /\ (\E v \in VCs : PortSends(y, v)) \/ PortSleeps(y)
  BY PCOutputEffect DEF IInv
<1>2. InputsOK'
  BY <1>1, InputSame, InputsFrame
<1>3. CASE \E v \in VCs : PortSends(y, v)
  <2>1. PICK w \in VCs : PortSends(y, w)
    BY <1>3
  <2>2. Steady /\ OutputsOK' /\ WiresOK' /\ PortSums'
    BY <1>1, <2>1, PortSendsSteady
  <2>3. QED BY <1>1, <1>2, <2>2
<1>4. CASE PortSleeps(y)
  <2>1. /\ data' = data /\ pc'[y].output_buf = pc[y].output_buf
        /\ pc'[y].xbar_in_credits = pc[y].xbar_in_credits
        /\ pc'[y].port_out_credits = pc[y].port_out_credits
    BY <1>4 DEF PortSleeps
  <2>2. ASSUME NEW x \in Counted, NEW v \in LinkClasses(x) PROVE LinkStep(x, v)
    <3>1. x \in Ends
      BY CountedEnds
    <3>2. SenderCredits(x, v)' = SenderCredits(x, v)
      BY <1>1, <2>1, <3>1, SenderSamePort
    <3>3. Held(x, v)' = Held(x, v)
      BY <1>1, <3>1, HeldSamePort
    <3>4. OnWire(x, v)' = OnWire(x, v) /\ CreditsTo(Other[x], v)' = CreditsTo(Other[x], v)
      BY <1>1, <2>1, WireSame, BackSame
    <3>5. QED BY <3>2, <3>3, <3>4 DEF LinkStep, Still
  <2>3. \A x \in Ports : /\ pc'[x].output_buf = pc[x].output_buf
                         /\ pc'[x].xbar_in_credits = pc[x].xbar_in_credits
    BY <1>1, <2>1 DEF OtherPorts
  <2>4. QED BY <1>1, <1>2, <2>1, <2>2, <2>3, OutputsFrame, WiresFrame DEF Steady
<1>5. QED BY <1>1, <1>3, <1>4

(* The packet that a port gives to the crossbar, and its credits.          *)
LEMMA GrantClass ==
    ASSUME IInv, InputsOK, NEW r \in Routers, NEW G \in Grants(r), NEW g \in G,
           NEW x, x = PortEnd(r, g[1]), NEW u, u = ReturnVC(x, HeadOf(r, g), g[2])
    PROVE  x \in Ports /\ u \in LinkClasses(x) /\ BufferOf(x, u) = g[2]
<1>1. /\ x \in Ports /\ g[2] \in VCs /\ NetEvent(HeadOf(r, g))
      /\ pc[x].input_buf[g[2]] # <<>> /\ NetQueue(pc[x].input_buf[g[2]])
  BY GrantFacts DEF IInv
<1>2. PICK q, ev : q = pc[x].input_buf[g[2]] /\ ev = HeadOf(r, g)
  OBVIOUS
<1>3. ev = Head(q) /\ Head(q) = q[1] /\ Len(q) \in Nat /\ Len(q) # 0
  BY <1>1, <1>2, NetQueueFacts DEF HeadOf
<1>4. InQueue(x, g[2], q)
  BY <1>1, <1>2 DEF InputsOK
<1>5. InEvent(x, g[2], ev)
  BY <1>3, <1>4 DEF InQueue
<1>6. VN(ev) \in VNs
  BY <1>1, <1>2, SizeType DEF NetEvent
<1>7. x \in Ends /\ x \notin Nics
  BY <1>1, EndsAre
<1>8. CASE x \in HostPorts
  <2>1. u = VN(ev) /\ StartVC(Alg, VN(ev)) = g[2]
    BY <1>2, <1>5, <1>8 DEF ReturnVC, isHost, InEvent
  <2>2. QED BY <1>1, <1>6, <1>7, <1>8, <2>1, ClassIs DEF BufferOf
<1>9. CASE x \notin HostPorts
  <2>1. u = g[2]
    BY <1>9 DEF ReturnVC, isHost
  <2>2. QED BY <1>1, <1>7, <1>9, <2>1, ClassIs DEF BufferOf
<1>10. QED BY <1>8, <1>9

(* A cycle of a router, seen by one link.                                  *)
LEMMA MovesLink ==
    ASSUME IInv, InputsOK, NEW r \in Routers, NEW G \in Grants(r), Moves(r, G),
           lc' = lc, data' = data, NEW x \in Ends, NEW v \in LinkClasses(x)
    PROVE  LinkStep(x, v)
<1>1. LinksOK /\ PortsOK
  BY DEF IInv
<1>2. /\ \A y \in Ports : y[2] # r => pc'[y] = pc[y]
      /\ \A p \in PortNumbers : pc'[PortEnd(r, p)] = AfterMoves(r, p, G)
  BY <1>1, MovesPorts
<1>3. \A y \in Ports : pc'[y].port_out_credits = pc[y].port_out_credits
  <2>1. ASSUME NEW y \in Ports, y[2] = r PROVE pc'[y].port_out_credits = pc[y].port_out_credits
    <3>1. y[3] \in PortNumbers /\ y = PortEnd(r, y[3])
      BY <2>1, EndsAre
    <3>2. PICK k : k = AfterMoves(r, y[3], G)
      OBVIOUS
    <3>3. k.port_out_credits = pc[y].port_out_credits
      BY <1>1, <3>1, <3>2, AfterMovesIs
    <3>4. QED BY <1>2, <3>1, <3>2, <3>3
  <2>2. QED BY <1>2, <2>1
<1>4. Other[x] \in Ends /\ (x \notin HostPorts => Other[x] \in Ports)
  BY OtherIs, EndsAre
<1>5. SenderCredits(x, v)' = SenderCredits(x, v)
  <2>1. CASE x \in HostPorts
    BY <2>1, SenderIs
  <2>2. CASE x \notin HostPorts
    BY <1>3, <1>4, <2>2, SenderIs
  <2>3. QED BY <2>1, <2>2
<1>6. OnWire(x, v)' = OnWire(x, v)
  BY WireSame
<1>7. ASSUME NEW g \in G, Other[PortEnd(r, g[1])] = Other[x] PROVE PortEnd(r, g[1]) = x
  <2>1. PortEnd(r, g[1]) \in Ends
    BY <1>1, GrantFacts, EndsAre
  <2>2. QED BY <1>7, <2>1, OtherInjective
<1>8. CASE \A g \in G : PortEnd(r, g[1]) # x
  <2>1. credit'[Other[x]] = credit[Other[x]]
    BY <1>1, <1>4, <1>7, <1>8, MovesCredits
  <2>2. CreditsTo(Other[x], v)' = CreditsTo(Other[x], v)
    BY <2>1, BackSame
  <2>3. Held(x, v)' = Held(x, v)
    <3>1. CASE x \in Nics
      BY <3>1, HeldIs
    <3>2. CASE x \in Ports /\ x[2] # r
      BY <1>2, <3>2, HeldPort
    <3>3. CASE x \in Ports /\ x[2] = r
      <4>1. x[3] \in PortNumbers /\ x = PortEnd(r, x[3])
        BY <3>3, EndsAre
      <4>2. PICK p, k, z : p = x[3] /\ k = AfterMoves(r, x[3], G) /\ z = BufferOf(x, v)
        OBVIOUS
      <4>3. z \in VCs
        BY <3>3, <4>2, BufferOfIs
      <4>4. <<p, z>> \notin G
        <5>1. <<p, z>>[1] = p
          OBVIOUS
        <5>2. QED BY <1>8, <4>1, <4>2, <5>1
      <4>5. k.input_buf[z] = IF <<p, z>> \in G THEN RouteHead(x, Tail(pc[x].input_buf[z]))
                             ELSE pc[x].input_buf[z]
        BY <1>1, <4>1, <4>2, <4>3, AfterMovesIs
      <4>6. pc'[x] = k
        BY <1>2, <4>1, <4>2
      <4>7. pc'[x].input_buf[z] = pc[x].input_buf[z]
        BY <4>4, <4>5, <4>6
      <4>8. QED BY <3>3, <4>2, <4>7, HeldPort
    <3>4. QED BY <3>1, <3>2, <3>3, EndsAre
  <2>4. QED BY <1>5, <1>6, <2>2, <2>3 DEF LinkStep, Still
<1>9. CASE \E g \in G : PortEnd(r, g[1]) = x
  <2>1. PICK g \in G : PortEnd(r, g[1]) = x
    BY <1>9
  <2>2. PICK p, w, ev, s, u : /\ p = g[1] /\ w = g[2] /\ ev = HeadOf(r, g) /\ s = Size(ev)
                              /\ u = ReturnVC(x, ev, w)
    OBVIOUS
  <2>3. /\ p \in PortNumbers /\ w \in VCs /\ g = <<p, w>> /\ NetEvent(ev) /\ x \in Ports
        /\ pc[x].input_buf[w] # <<>> /\ NetQueue(pc[x].input_buf[w])
        /\ \A o \in G : o # g => p # o[1]
    BY <1>1, <2>1, <2>2, GrantFacts
  <2>4. u \in LinkClasses(x) /\ BufferOf(x, u) = w
    BY <2>1, <2>2, GrantClass
  <2>5. s \in Nat
    BY <2>2, <2>3, SizeType DEF NetEvent
  <2>6. PICK e : e = Credit(u, s)
    OBVIOUS
  <2>7. e \in CreditEvents /\ e.vc = u /\ e.credits = s
    <3>1. e \in CreditEvents
      BY <1>1, <2>1, <2>2, <2>6, ReturnVCIs
    <3>2. QED BY <2>6, <3>1 DEF Credit
  <2>8. credit'[Other[x]] = Append(credit[Other[x]], e)
    <3>1. PICK o \in G :
             /\ Other[PortEnd(r, o[1])] = Other[x]
             /\ credit'[Other[x]] = Append(credit[Other[x]],
                   Credit(ReturnVC(PortEnd(r, o[1]), HeadOf(r, o), o[2]), Size(HeadOf(r, o))))
      BY <1>1, <1>4, <2>1, MovesCredits
    <3>2. PortEnd(r, o[1]) = x
      BY <1>7, <3>1
    <3>3. o[1] = p
      BY <2>1, <2>2, <3>2 DEF PortEnd
    <3>4. o = g
      BY <2>3, <3>3
    <3>5. QED BY <2>1, <2>2, <2>6, <3>1, <3>4
  <2>9. CreditsTo(Other[x], v)' = CreditsTo(Other[x], v) + Gain(e, v)
    BY <1>1, <1>4, <2>7, <2>8, BackMore
  <2>10. PICK k, z : k = AfterMoves(r, p, G) /\ z = BufferOf(x, v)
    OBVIOUS
  <2>11. z \in VCs /\ x = PortEnd(r, p)
    BY <2>1, <2>2, <2>3, <2>10, BufferOfIs
  <2>12. k.input_buf[z] = IF <<p, z>> \in G THEN RouteHead(x, Tail(pc[x].input_buf[z]))
                          ELSE pc[x].input_buf[z]
    BY <1>1, <2>3, <2>10, <2>11, AfterMovesIs
  <2>13. pc'[x] = k
    BY <1>2, <2>3, <2>10, <2>11
  <2>14. Held(x, v) = FlitsOf(pc[x].input_buf[z]) /\ Held(x, v)' = FlitsOf(k.input_buf[z])
    BY <2>3, <2>10, <2>13, HeldPort
  <2>15. CASE v = u
    <3>1. z = w
      BY <2>4, <2>10, <2>15
    <3>2. Gain(e, v) = s
      BY <2>7, <2>15 DEF Gain
    <3>3. PICK q : q = pc[x].input_buf[w]
      OBVIOUS
    <3>4. ev = Head(q) /\ NetQueue(q) /\ q # <<>>
      BY <2>1, <2>2, <2>3, <3>3 DEF HeadOf
    <3>5. k.input_buf[z] = RouteHead(x, Tail(q))
      BY <2>3, <2>12, <3>1, <3>3
    <3>6. FlitsOf(q) = s + FlitsOf(RouteHead(x, Tail(q)))
      BY <2>2, <3>4, FlitsRecv
    <3>7. FlitsOf(RouteHead(x, Tail(q))) \in Nat
      <4>1. NetQueue(RouteHead(x, Tail(q)))
        BY <3>4, NetTail, RouteHeadIs
      <4>2. QED BY <4>1, NetIsQueue, FlitsOfType
    <3>8. Held(x, v)' \in Nat /\ Held(x, v) = s + Held(x, v)'
      BY <2>14, <3>1, <3>3, <3>5, <3>6, <3>7
    <3>9. Leaves(x, v, s)
      BY <1>5, <1>6, <2>9, <3>2, <3>8 DEF Leaves
    <3>10. QED BY <2>5, <3>9 DEF LinkStep
  <2>16. CASE v # u
    <3>1. z # w
      BY <2>3, <2>4, <2>10, <2>16, BufferOfIs
    <3>2. <<p, z>> \notin G
      <4>1. <<p, z>> # g /\ <<p, z>>[1] = p
        BY <2>3, <3>1
      <4>2. QED BY <2>3, <4>1
    <3>3. Held(x, v)' = Held(x, v)
      BY <2>12, <2>14, <3>2
    <3>4. Gain(e, v) = 0
      BY <2>7, <2>16 DEF Gain
    <3>5. CreditsTo(Other[x], v) \in Nat
      BY CountTypes DEF IInv, Typed
    <3>6. CreditsTo(Other[x], v)' = CreditsTo(Other[x], v)
      BY <2>9, <3>4, <3>5
    <3>7. QED BY <1>5, <1>6, <3>3, <3>6 DEF LinkStep, Still
  <2>17. QED BY <2>15, <2>16
<1>10. QED BY <1>8, <1>9

(* The packet that a granted move takes is on the VC it is buffered for.   *)
LEMMA GrantHeader ==
    ASSUME PortsOK, InputsOK, NEW r \in Routers, NEW G \in Grants(r), NEW g \in G
    PROVE  OutEvent(HeadOf(r, g).h.vc, HeadOf(r, g))
<1>1. PICK x, q, w, ev : /\ x = PortEnd(r, g[1]) /\ w = g[2] /\ q = pc[x].input_buf[w]
                         /\ ev = HeadOf(r, g)
  OBVIOUS
<1>2. x \in Ports /\ w \in VCs /\ q # <<>> /\ NetQueue(q)
  BY <1>1, GrantFacts
<1>3. ev = Head(q) /\ Head(q) = q[1] /\ Len(q) \in Nat /\ Len(q) # 0
  BY <1>1, <1>2, NetQueueFacts DEF HeadOf
<1>4. InQueue(x, w, q)
  BY <1>1, <1>2 DEF InputsOK
<1>5. InEvent(x, w, ev)
  BY <1>3, <1>4 DEF InQueue
<1>6. OutEvent(ev.h.vc, ev)
  BY <1>5 DEF InEvent, OutEvent, Header
<1>7. QED BY <1>1, <1>6

(* One port of a router after a cycle.                                     *)
LEMMA MovesPort ==
    ASSUME PortsOK, InputsOK, OutputsOK, PortSums, NEW r \in Routers, NEW G \in Grants(r),
           NEW p \in PortNumbers, NEW x \in Ports, x = PortEnd(r, p),
           NEW k, k = AfterMoves(r, p, G), NEW v \in VCs
    PROVE  /\ InQueue(x, v, k.input_buf[v])
           /\ OutQueue(v, k.output_buf[v])
           /\ k.xbar_in_credits[v] + FlitsOf(k.output_buf[v]) = RouterOut
<1>1. InQueue(x, v, k.input_buf[v])
  <2>1. PICK q : q = pc[x].input_buf[v]
    OBVIOUS
  <2>2. k.input_buf[v] = IF <<p, v>> \in G THEN RouteHead(x, Tail(q)) ELSE q
    BY <2>1, AfterMovesIs
  <2>3. InQueue(x, v, q) /\ NetQueue(q)
    BY <2>1 DEF InputsOK, PortsOK, PortOK, PortShape, Buffers
  <2>4. CASE <<p, v>> \in G
    <3>1. PICK g \in G : g = <<p, v>>
      BY <2>4
    <3>2. g[1] = p /\ g[2] = v
      BY <3>1
    <3>3. q # <<>>
      BY <2>1, <3>2, GrantFacts
    <3>4. InQueue(x, v, RouteHead(x, Tail(q)))
      BY <2>3, <3>3, InRecv
    <3>5. QED BY <2>2, <2>4, <3>4
  <2>5. CASE <<p, v>> \notin G
    BY <2>2, <2>3, <2>5
  <2>6. QED BY <2>4, <2>5
<1>2. PICK q, c : q = pc[x].output_buf[v] /\ c = pc[x].xbar_in_credits[v]
  OBVIOUS
<1>3. /\ OutQueue(v, q) /\ c \in Int /\ NetQueue(q) /\ EventQueue(q) /\ FlitsOf(q) \in Nat
      /\ c + FlitsOf(q) = RouterOut /\ Len(q) \in Nat
  BY <1>2, PortOutputs, NetQueueFacts DEF OutputsOK, PortSums
<1>4. \/ k.output_buf = pc[x].output_buf /\ k.xbar_in_credits = pc[x].xbar_in_credits
      \/ \E g \in G : \A u \in VCs :
            /\ k.output_buf[u] = IF u = HeadOf(r, g).h.vc
                                 THEN Append(pc[x].output_buf[u], HeadOf(r, g))
                                 ELSE pc[x].output_buf[u]
            /\ k.xbar_in_credits[u] = IF u = HeadOf(r, g).h.vc
                                      THEN pc[x].xbar_in_credits[u] - Size(HeadOf(r, g))
                                      ELSE pc[x].xbar_in_credits[u]
  BY AfterMovesIs
<1>5. CASE k.output_buf = pc[x].output_buf /\ k.xbar_in_credits = pc[x].xbar_in_credits
  BY <1>1, <1>2, <1>3, <1>5
<1>6. ASSUME NEW g \in G,
             \A u \in VCs :
                /\ k.output_buf[u] = IF u = HeadOf(r, g).h.vc
                                     THEN Append(pc[x].output_buf[u], HeadOf(r, g))
                                     ELSE pc[x].output_buf[u]
                /\ k.xbar_in_credits[u] = IF u = HeadOf(r, g).h.vc
                                          THEN pc[x].xbar_in_credits[u] - Size(HeadOf(r, g))
                                          ELSE pc[x].xbar_in_credits[u]
      PROVE  /\ OutQueue(v, k.output_buf[v])
             /\ k.xbar_in_credits[v] + FlitsOf(k.output_buf[v]) = RouterOut
  <2>1. PICK ev, s : ev = HeadOf(r, g) /\ s = Size(ev)
    OBVIOUS
  <2>2. NetEvent(ev) /\ OutEvent(ev.h.vc, ev)
    BY <2>1, GrantFacts, GrantHeader
  <2>3. ev.route \in Routes /\ s \in Nat
    BY <2>1, <2>2, SizeType DEF NetEvent
  <2>4. /\ k.output_buf[v] = IF v = ev.h.vc THEN Append(q, ev) ELSE q
        /\ k.xbar_in_credits[v] = IF v = ev.h.vc THEN c - s ELSE c
    BY <1>2, <1>6, <2>1
  <2>5. CASE v = ev.h.vc
    <3>1. PICK t : t = Append(q, ev)
      OBVIOUS
    <3>2. IsAppend(t, q, ev)
      BY <1>3, <2>2, <3>1, NetAppendIs
    <3>3. FlitsOf(t) = FlitsOf(q) + s
      BY <1>3, <2>1, <2>3, <3>2, FlitsOfMore
    <3>4. OutQueue(v, t)
      BY <1>3, <2>2, <2>5, <3>2, OutAppend
    <3>5. k.output_buf[v] = t /\ k.xbar_in_credits[v] = c - s
      BY <2>4, <2>5, <3>1
    <3>6. PICK f \in Nat : f = FlitsOf(q)
      BY <1>3
    <3>7. (c - s) + (f + s) = c + f
      BY <1>3, <2>3
    <3>8. QED BY <1>3, <3>3, <3>4, <3>5, <3>6, <3>7
  <2>6. CASE v # ev.h.vc
    BY <1>3, <2>4, <2>6
  <2>7. QED BY <2>5, <2>6
<1>7. QED BY <1>1, <1>4, <1>5, <1>6

(* All ports of all routers after the moves of one router.                 *)
LEMMA MovesBuffers ==
    ASSUME PortsOK, InputsOK, OutputsOK, PortSums, NEW r \in Routers, NEW G \in Grants(r), Moves(r, G)
    PROVE  InputsOK' /\ OutputsOK' /\ PortSums'
<1>1. /\ \A y \in Ports : y[2] # r => pc'[y] = pc[y]
      /\ \A p \in PortNumbers : pc'[PortEnd(r, p)] = AfterMoves(r, p, G)
  BY MovesPorts
<1>2. ASSUME NEW x \in Ports, NEW v \in VCs
      PROVE  /\ InQueue(x, v, pc'[x].input_buf[v])
             /\ OutQueue(v, pc'[x].output_buf[v])
             /\ pc'[x].xbar_in_credits[v] + FlitsOf(pc'[x].output_buf[v]) = RouterOut
  <2>1. CASE x[2] # r
    <3>1. pc'[x] = pc[x]
      BY <1>1, <2>1
    <3>2. QED BY <3>1 DEF InputsOK, OutputsOK, PortSums
  <2>2. CASE x[2] = r
    <3>1. x[3] \in PortNumbers /\ x = PortEnd(r, x[3])
      BY <2>2, EndsAre
    <3>2. PICK p, k : p = x[3] /\ k = AfterMoves(r, p, G)
      OBVIOUS
    <3>3. pc'[x] = k
      BY <1>1, <3>1, <3>2
    <3>4. /\ InQueue(x, v, k.input_buf[v])
          /\ OutQueue(v, k.output_buf[v])
          /\ k.xbar_in_credits[v] + FlitsOf(k.output_buf[v]) = RouterOut
      BY <3>1, <3>2, MovesPort
    <3>5. QED BY <3>3, <3>4
  <2>3. QED BY <2>1, <2>2
<1>3. InputsOK'
  BY <1>2 DEF InputsOK, InQueue, InEvent
<1>4. OutputsOK' /\ PortSums'
  BY <1>2 DEF OutputsOK, OutQueue, OutEvent, PortSums, FlitsOf
<1>5. QED BY <1>3, <1>4

(* Nothing that a link counts changes.                                     *)
LEMMA AllStill ==
    ASSUME data' = data, credit' = credit, lc' = lc, pc' = pc
    PROVE  Steady
<1>1. ASSUME NEW x \in Counted, NEW v \in LinkClasses(x) PROVE LinkStep(x, v)
  <2>1. x \in Ends
    BY CountedEnds
  <2>2. SenderCredits(x, v)' = SenderCredits(x, v)
    BY DEF SenderCredits
  <2>3. Held(x, v)' = Held(x, v)
    <3>1. CASE x \in Nics
      BY <2>1, <3>1, HeldIs
    <3>2. CASE x \in Ports
      BY <3>2, HeldPort
    <3>3. QED BY <2>1, <3>1, <3>2, EndsAre
  <2>4. OnWire(x, v)' = OnWire(x, v) /\ CreditsTo(Other[x], v)' = CreditsTo(Other[x], v)
    BY WireSame, BackSame
  <2>5. QED BY <2>2, <2>3, <2>4 DEF LinkStep, Still
<1>2. QED BY <1>1 DEF Steady

(* Endpoints and ports that do not step.                                   *)
LEMMA NicsSame == ASSUME NicSums, lc' = lc PROVE NicSums'
BY DEF NicSums, FlitsOf

(* The same for the ports.                                                 *)
LEMMA HeadersSame ==
    ASSUME InputsOK, OutputsOK, PortSums, pc' = pc PROVE InputsOK' /\ OutputsOK' /\ PortSums'
BY InputsFrame, OutputsFrame

(* A cycle of a router.                                                    *)
LEMMA ClockSteady ==
    ASSUME IInv, InputsOK, OutputsOK, WiresOK, PortSums, NicSums,
           NEW r \in Routers, clock_handler(r)
    PROVE  Steady /\ InputsOK' /\ OutputsOK' /\ WiresOK' /\ PortSums' /\ NicSums'
<1>1. /\ data' = data /\ lc' = lc
      /\ (pc' = pc /\ credit' = credit) \/ \E G \in Grants(r) : Moves(r, G)
  BY ClockEffect DEF IInv
<1>2. WiresOK' /\ NicSums'
  BY <1>1, WiresFrame, NicsSame
<1>3. CASE pc' = pc /\ credit' = credit
  BY <1>1, <1>2, <1>3, AllStill, HeadersSame
<1>4. CASE \E G \in Grants(r) : Moves(r, G)
  <2>1. PICK G \in Grants(r) : Moves(r, G)
    BY <1>4
  <2>2. InputsOK' /\ OutputsOK' /\ PortSums'
    BY <2>1, MovesBuffers DEF IInv
  <2>3. ASSUME NEW x \in Counted, NEW v \in LinkClasses(x) PROVE LinkStep(x, v)
    BY <1>1, <2>1, CountedEnds, MovesLink
  <2>4. QED BY <1>2, <2>2, <2>3 DEF Steady
<1>5. QED BY <1>1, <1>3, <1>4

(* The inductive invariant.                                                *)
CInv == InputsOK /\ OutputsOK /\ WiresOK /\ LinkSums /\ PortSums /\ NicSums

(* Everything is empty at first, and all the room is with the senders.     *)
LEMMA CreditsInit == Init => CInv
<1> SUFFICES ASSUME Init PROVE CInv
  OBVIOUS
<1>1. /\ data = [x \in Ends |-> <<>>] /\ credit = [x \in Ends |-> <<>>]
      /\ lc = [n \in Nics |-> NewLinkControl] /\ pc = [x \in Ports |-> NewPortControl(x)]
  BY DEF Init, LinkInit
<1>2. PICK e : e = <<>>
  OBVIOUS
<1>3. /\ Len(e) = 0 /\ FlitsOf(e) = 0 /\ \A v : CreditsOf(e, v) = 0
      /\ \A b, V : FlitsFor(b, e, V) = 0
  BY <1>2, FlitsOfEmpty, FlitsEmpty, CreditsEmpty
<1>4. ASSUME NEW x \in Ends PROVE data[x] = e /\ credit[x] = e
  BY <1>1, <1>2
<1>5. ASSUME NEW n \in Nics, NEW v \in VNs
      PROVE  /\ lc[n].credits[v] = NicOut /\ lc[n].output_queues[v] = e
             /\ lc[n].input_queues[v] = e /\ lc[n].router_credits[v] = RouterIn
  <2>1. PICK k : k = NewLinkControl
    OBVIOUS
  <2>2. lc[n] = k
    BY <1>1, <2>1
  <2>3. /\ k.credits[v] = NicOut /\ k.output_queues[v] = e
        /\ k.input_queues[v] = e /\ k.router_credits[v] = RouterIn
    BY <1>2, <2>1 DEF NewLinkControl
  <2>4. QED BY <2>2, <2>3
<1>6. ASSUME NEW x \in Ports, NEW v \in VCs
      PROVE  /\ pc[x].xbar_in_credits[v] = RouterOut /\ pc[x].output_buf[v] = e
             /\ pc[x].input_buf[v] = e
             /\ x \notin HostPorts => pc[x].port_out_credits[v] = RouterIn
             /\ x \in HostPorts /\ v \in VNs => pc[x].port_out_credits[v] = NicIn
  <2>1. PICK a, b, c, d, w, t :
          /\ a = [u \in VCs |-> <<>>] /\ b = [u \in VCs |-> <<>>] /\ c = [u \in VCs |-> RouterOut]
          /\ d = [u \in VCs |-> IF ~isHost(x) THEN RouterIn ELSE IF u \in VNs THEN NicIn ELSE 0]
          /\ w = TRUE /\ t = 0
    OBVIOUS
  <2>2. pc[x] = PortRecord(a, b, c, d, w, t)
    BY <1>1, <2>1, Zenon DEF NewPortControl, PortRecord
  <2>3. pc[x].input_buf = a /\ pc[x].output_buf = b /\ pc[x].xbar_in_credits = c
        /\ pc[x].port_out_credits = d
    BY <2>2, RecordFields
  <2>4. a[v] = e /\ b[v] = e /\ c[v] = RouterOut
    BY <1>2, <2>1
  <2>5. d[v] = IF x \notin HostPorts THEN RouterIn ELSE IF v \in VNs THEN NicIn ELSE 0
    BY <2>1 DEF isHost
  <2>6. QED BY <2>3, <2>4, <2>5
<1>7. InputsOK
  BY <1>3, <1>6 DEF InputsOK, InQueue
<1>8. OutputsOK
  BY <1>3, <1>6 DEF OutputsOK, OutQueue
<1>9. WiresOK
  BY <1>3, <1>4, EndsAre DEF WiresOK, WireQueue
<1>10. PortSums
  BY <1>3, <1>6, RouterOutAssumption DEF PortSums
<1>11. NicSums
  BY <1>3, <1>5, BufferAssumption DEF NicSums
<1>12. LinkSums
  <2>1. ASSUME NEW x \in Ends, NEW v \in LinkClasses(x) PROVE LinkOK(x, v)
    <3>1. Other[x] \in Ends /\ (x \in HostPorts <=> Other[x] \in Nics)
          /\ (x \in Nics <=> Other[x] \in HostPorts)
      BY OtherIs
    <3>2. OnWire(x, v) = 0
      <4>1. PICK b : OnWire(x, v) = FlitsFor(b, data[x], {v})
        BY WireIs
      <4>2. QED BY <1>3, <1>4, <4>1
    <3>3. CreditsTo(Other[x], v) = 0
      BY <1>3, <1>4, <3>1, BackIs
    <3>4. (x \in Nics \cup HostPorts => v \in VNs) /\ v \in VCs
      BY ClassIs, VCsAre
    <3>5. x[1] = "nic" <=> x \in Nics
      BY EndsAre
    <3>6. Held(x, v) = 0
      <4>1. CASE x \in Nics
        BY <1>3, <1>5, <3>4, <4>1, HeldIs
      <4>2. CASE x \in Ports
        <5>1. BufferOf(x, v) \in VCs
          BY <4>2, BufferOfIs
        <5>2. QED BY <1>3, <1>6, <4>2, <5>1, HeldPort
      <4>3. QED BY <4>1, <4>2, EndsAre
    <3>7. SenderCredits(x, v) = Room(x)
      <4>1. CASE x \in HostPorts
        <5>1. x \notin Nics
          BY <4>1, EndsAre
        <5>2. QED BY <1>5, <3>1, <3>4, <3>5, <4>1, <5>1, SenderIs DEF Room
      <4>2. CASE x \in Nics
        <5>1. x \notin HostPorts /\ Other[x] \in Ports /\ v \in VNs
          BY <3>1, <3>4, <4>2, EndsAre
        <5>2. QED BY <1>6, <3>1, <3>4, <3>5, <4>2, <5>1, SenderIs DEF Room
      <4>3. CASE x \notin HostPorts /\ x \notin Nics
        <5>1. Other[x] \in Ports /\ Other[x] \notin HostPorts
          BY <3>1, <4>3, EndsAre
        <5>2. QED BY <1>6, <3>4, <3>5, <4>3, <5>1, SenderIs DEF Room
      <4>4. QED BY <4>1, <4>2, <4>3
    <3>8. Room(x) \in Nat
      BY BufferAssumption DEF Room
    <3>9. QED BY <3>2, <3>3, <3>6, <3>7, <3>8 DEF LinkOK
  <2>2. QED BY <2>1, CountedEnds DEF LinkSums
<1>13. QED BY <1>7, <1>8, <1>9, <1>10, <1>11, <1>12 DEF CInv

(* A step of an endpoint leaves the routers alone.                         *)
LEMMA EndpointStep ==
    ASSUME CInv, pc' = pc, \A x \in Ports \ HostPorts : data'[x] = data[x]
    PROVE  InputsOK' /\ OutputsOK' /\ WiresOK' /\ PortSums'
BY HeadersSame, WiresFrame DEF CInv

(* Every step moves room from one place of a link to the next.             *)
LEMMA StepSteady ==
    ASSUME IInv, CInv, [Next]_vars
    PROVE  Steady /\ InputsOK' /\ OutputsOK' /\ WiresOK' /\ PortSums' /\ NicSums'
<1>1. InputsOK /\ OutputsOK /\ WiresOK /\ PortSums /\ NicSums
  BY DEF CInv
<1>2. CASE UNCHANGED vars
  <2>1. data' = data /\ credit' = credit /\ lc' = lc /\ pc' = pc
    BY <1>2 DEF vars
  <2>2. QED BY <1>1, <2>1, AllStill, EndpointStep, NicsSame
<1>3. ASSUME NEW rt \in Routes, Send(rt)
      PROVE  Steady /\ InputsOK' /\ OutputsOK' /\ WiresOK' /\ PortSums' /\ NicSums'
  <2>1. PICK n, ev : n = NicEnd(rt[1]) /\ ev = Event(rt, sent[rt])
    OBVIOUS
  <2>2. sent[rt] \in Nat
    BY DEF IInv, SentOK
  <2>3. n \in Nics /\ ev \in NicEvents
    BY <2>1, <2>2, EventIs
  <2>4. LCSend(n, ev) /\ pc' = pc
    BY <1>3, <2>1 DEF Send
  <2>5. Steady /\ NicSums' /\ data' = data
    BY <1>1, <2>3, <2>4, SendCredits
  <2>6. QED BY <2>4, <2>5, EndpointStep
<1>4. ASSUME NEW n \in Nics, NEW v \in VNs, Recv(n, v)
      PROVE  Steady /\ InputsOK' /\ OutputsOK' /\ WiresOK' /\ PortSums' /\ NicSums'
  <2>1. LCRecv(n, v) /\ pc' = pc
    BY <1>4 DEF Recv
  <2>2. Steady /\ NicSums' /\ data' = data
    BY <1>1, <2>1, RecvCredits
  <2>3. QED BY <2>1, <2>2, EndpointStep
<1>5. ASSUME NEW n \in Nics, Nic(n)
      PROVE  Steady /\ InputsOK' /\ OutputsOK' /\ WiresOK' /\ PortSums' /\ NicSums'
  <2>1. pc' = pc /\ (LCCredit(n) \/ LCPacket(n) \/ LCOutput(n))
    BY <1>5 DEF Nic
  <2>2. \A x \in Ports \ HostPorts : x \in Ends \ {n} /\ x \in Ends \ HostPorts
    BY EndsAre
  <2>3. CASE LCCredit(n)
    <3>1. Steady /\ NicSums' /\ data' = data
      BY <1>1, <2>1, <2>3, NicCreditSteady
    <3>2. QED BY <2>1, <3>1, EndpointStep
  <2>4. CASE LCPacket(n)
    <3>1. Steady /\ NicSums' /\ \A x \in Ends \ {n} : data'[x] = data[x]
      BY <1>1, <2>1, <2>4, NicPacketSteady
    <3>2. QED BY <2>1, <2>2, <3>1, EndpointStep
  <2>5. CASE LCOutput(n)
    <3>1. Steady /\ NicSums' /\ \A x \in Ends \ HostPorts : data'[x] = data[x]
      BY <1>1, <2>1, <2>5, NicOutputSteady
    <3>2. QED BY <2>1, <2>2, <3>1, EndpointStep
  <2>6. QED BY <2>1, <2>3, <2>4, <2>5
<1>6. ASSUME NEW x \in Ports, Packet(x)
      PROVE  Steady /\ InputsOK' /\ OutputsOK' /\ WiresOK' /\ PortSums' /\ NicSums'
  <2>1. PCPacket(x)
    BY <1>6 DEF Packet
  <2>2. lc' = lc
    BY <2>1 DEF PCPacket
  <2>3. Steady /\ InputsOK' /\ OutputsOK' /\ WiresOK' /\ PortSums'
    BY <1>1, <2>1, PacketSteady
  <2>4. QED BY <1>1, <2>2, <2>3, NicsSame
<1>7. ASSUME NEW x \in Ports, Port(x)
      PROVE  Steady /\ InputsOK' /\ OutputsOK' /\ WiresOK' /\ PortSums' /\ NicSums'
  <2>1. PCCredit(x) \/ PCOutput(x)
    BY <1>7 DEF Port
  <2>2. Steady /\ InputsOK' /\ OutputsOK' /\ WiresOK' /\ PortSums' /\ lc' = lc
    BY <1>1, <2>1, PortCreditSteady, PortOutputSteady
  <2>3. QED BY <1>1, <2>2, NicsSame
<1>8. ASSUME NEW r \in Routers, clock_handler(r)
      PROVE  Steady /\ InputsOK' /\ OutputsOK' /\ WiresOK' /\ PortSums' /\ NicSums'
  BY <1>1, <1>8, ClockSteady
<1>9. QED BY <1>2, <1>3, <1>4, <1>5, <1>6, <1>7, <1>8 DEF Next, Step, Stop

(* The invariant is inductive, given that of MerlinProofs.                 *)
LEMMA CreditsStep == IInv /\ CInv /\ [Next]_vars => CInv'
<1> SUFFICES ASSUME IInv, CInv, [Next]_vars PROVE CInv'
  OBVIOUS
<1>1. Steady /\ InputsOK' /\ OutputsOK' /\ WiresOK' /\ PortSums' /\ NicSums'
  BY StepSteady
<1>2. ASSUME NEW x \in Counted, NEW v \in LinkClasses(x) PROVE LinkOK(x, v)'
  <2>1. LinkOK(x, v) /\ LinkStep(x, v)
    BY <1>1 DEF CInv, LinkSums, Steady
  <2>2. Typed(x, v)
    BY CountTypes, CountedEnds DEF IInv
  <2>3. QED BY <2>1, <2>2, LinkKept
<1>3. LinkSums'
  BY <1>2 DEF LinkSums, Counted, LinkClasses, ByVN, isHost
<1>4. QED BY <1>1, <1>3 DEF CInv

(* The inductive invariant of the credits holds of every behaviour of the  *)
(* network.                                                                *)
THEOREM CreditInvariance == Spec => []CInv
<1>1. Init => CInv
  BY CreditsInit
<1>2. IInv /\ CInv /\ [Next]_vars => CInv'
  BY CreditsStep
<1>3. Spec => []IInv
  BY Invariance
<1>4. QED BY <1>1, <1>2, <1>3, PTL DEF Spec

(* No router ever holds more than its buffers: whatever the algorithm, the *)
(* credits for the input buffers of a router (port_out_credits of the      *)
(* router before it, router_credits of an endpoint), the packets on the    *)
(* link, those in the buffer and the credits on their way back are the     *)
(* buffer, and the same for the output buffers of routers and endpoints.   *)
RouterCredits ==
    /\ \A x \in Ports : \A v \in LinkClasses(x) : LinkOK(x, v)
    /\ PortSums /\ NicSums

(* RouterCredits holds for every machine and both algorithms.              *)
THEOREM RoutersConserve == Spec => []RouterCredits
<1>1. CInv => RouterCredits
  <2>1. Ports \subseteq Counted
    BY EndsAre DEF Counted
  <2>2. QED BY <2>1 DEF CInv, RouterCredits, LinkSums
<1>2. QED BY <1>1, CreditInvariance, PTL

(* With DOR, where a VN has one VC, the links to the endpoints too: no     *)
(* credit is lost or made up anywhere in the network.                      *)
THEOREM CreditsKept == Spec => [](Alg = "DOR" => CreditsConserved)
<1>1. CInv => (Alg = "DOR" => CreditsConserved)
  <2>1. Alg = "DOR" => Counted = Ends
    BY DEF Counted
  <2>2. QED BY <2>1 DEF CInv, LinkSums, LinkOK, PortSums, NicSums, CreditsConserved
<1>2. QED BY <1>1, CreditInvariance, PTL

(* What a router holds fits the buffer it is held in.                      *)
RouterBuffers == \A x \in Ports : \A v \in LinkClasses(x) : Held(x, v) <= RouterIn

(* So no buffer is ever overrun: what a router holds for a VC fits the     *)
(* buffer of that VC, and with DOR what an endpoint holds fits too (the    *)
(* input_queues of its LinkControl, which nothing else bounds).            *)
THEOREM BuffersHold == Spec => [](RouterBuffers /\ (Alg = "DOR" => EndpointBuffers))
<1>1. ASSUME IInv, CInv, NEW x \in Counted, NEW v \in LinkClasses(x) PROVE Held(x, v) <= Room(x)
  <2>1. LinkOK(x, v)
    BY <1>1 DEF CInv, LinkSums
  <2>2. Typed(x, v)
    BY <1>1, CountTypes, CountedEnds DEF IInv
  <2>3. PICK a \in Int, b \in Nat, c \in Nat, d \in Nat :
           /\ a = SenderCredits(x, v) /\ b = OnWire(x, v) /\ c = Held(x, v) /\ d = CreditsTo(Other[x], v)
    BY <2>2 DEF Typed
  <2>4. a >= 0 /\ a + b + c + d = Room(x)
    BY <2>1, <2>3 DEF LinkOK
  <2>5. c <= a + b + c + d
    BY <2>4
  <2>6. QED BY <2>3, <2>4, <2>5
<1>2. ASSUME IInv, CInv, NEW x \in Ports, NEW v \in LinkClasses(x) PROVE Held(x, v) <= RouterIn
  <2>1. x \in Counted /\ x[1] # "nic"
    BY EndsAre DEF Counted
  <2>2. QED BY <1>1, <1>2, <2>1 DEF Room
<1>3. ASSUME IInv, CInv, Alg = "DOR", NEW n \in Nics, NEW v \in VNs
      PROVE  FlitsOf(lc[n].input_queues[v]) <= NicIn
  <2>1. n \in Counted /\ n[1] = "nic" /\ n \in Ends
    BY <1>3, EndsAre DEF Counted
  <2>2. v \in LinkClasses(n) /\ Room(n) = NicIn
    BY <2>1, ClassIs DEF Room
  <2>3. Held(n, v) = FlitsOf(lc[n].input_queues[v])
    BY <2>1, HeldIs
  <2>4. QED BY <1>1, <1>3, <2>1, <2>2, <2>3
<1>4. IInv /\ CInv => RouterBuffers /\ (Alg = "DOR" => EndpointBuffers)
  BY <1>2, <1>3 DEF RouterBuffers, EndpointBuffers
<1>5. QED BY <1>4, Invariance, CreditInvariance, PTL

=============================================================================
