--------------------------- MODULE MemBackendProofs ---------------------------
(***************************************************************************)
(* Proofs about MemBackendConvertor, for any set of events and addresses   *)
(* and any number of parts.                                                *)
(***************************************************************************)
EXTENDS MemBackendConvertor, FiniteSetTheorems, TLAPS

(***************************************************************************)
(* The inductive invariant.                                                *)
(***************************************************************************)
(* The queue holds, once each, the pending requests not completely issued. *)
Injective(q) == \A i, j \in 1 .. Len(q) : q[i] = q[j] => i = j
QueueOK ==
    /\ \A e \in Reqs : e \in Queued <=> (e \in pendingRequests /\ offset[e] < parts[e])
    /\ Injective(requestQueue)

(* m_numReq counts the parts of a request that the backend has.            *)
InFlight(e) == {i \in 0 .. MaxParts - 1 : <<e, i>> \in backend}
PartsOK == \A e \in Reqs :
    /\ offset[e] <= parts[e]
    /\ numReq[e] = Cardinality(InFlight(e))
    /\ \A i \in InFlight(e) : i < offset[e] /\ e \in pendingRequests

(* Where an event is between its arrival and its answer.                   *)
LifeOK == \A e \in Reqs :
    /\ cmd[e] = "none" => /\ e \notin outstandingEvents /\ e \notin answered
                          /\ offset[e] = 0 /\ covers[e] = {}
    /\ e \in pendingRequests => e \in outstandingEvents /\ cmd[e] # "Flush"
    /\ e \in outstandingEvents => e \notin answered /\ (cmd[e] = "Flush" \/ e \in pendingRequests)
    /\ e \in answered /\ cmd[e] # "Flush" => offset[e] = parts[e]

(* The two maps of flushes agree, and hold what a flush still waits for.   *)
FlushOK ==
    /\ \A e, f \in Reqs : e \in waitingFlushes[f] <=> f \in dependentRequests[e]
    /\ \A f \in Reqs :
          /\ waitingFlushes[f] = covers[f] \ answered
          /\ waitingFlushes[f] \subseteq pendingRequests
          /\ waitingFlushes[f] # {} <=> (f \in outstandingEvents /\ cmd[f] = "Flush")

IInv == TypeOK /\ QueueOK /\ PartsOK /\ LifeOK /\ FlushOK /\ ClockRunning
(***************************************************************************)
(* Facts about queues and in-flight parts.                                 *)
(***************************************************************************)
(* Appending a new event to a queue.                                       *)
LEMMA AppendElems ==
    ASSUME NEW q \in Seq(Reqs), NEW e \in Reqs
    PROVE  /\ Append(q, e) \in Seq(Reqs)
           /\ Elems(Append(q, e)) = Elems(q) \cup {e}
           /\ Injective(q) /\ e \notin Elems(q) => Injective(Append(q, e))
<1>1. /\ Append(q, e) \in Seq(Reqs)
      /\ Len(Append(q, e)) = Len(q) + 1
      /\ \A i \in 1 .. Len(q) : Append(q, e)[i] = q[i]
      /\ Append(q, e)[Len(q) + 1] = e
  OBVIOUS
<1>2. Len(q) \in Nat
  OBVIOUS
<1>3. 1 .. Len(q) + 1 = (1 .. Len(q)) \cup {Len(q) + 1}
  BY <1>2
<1>4. Elems(Append(q, e)) = Elems(q) \cup {e}
  BY <1>1, <1>3, Zenon DEF Elems
<1>5. ASSUME Injective(q), e \notin Elems(q)
      PROVE  Injective(Append(q, e))
  <2>1. \A i \in 1 .. Len(q) : q[i] # e
    BY <1>5 DEF Elems
  <2>2. QED BY <1>1, <1>3, <1>5, <2>1 DEF Injective
<1>6. QED BY <1>1, <1>4, <1>5

(* Removing the head of a queue without duplicates.                        *)
LEMMA TailElems ==
    ASSUME NEW q \in Seq(Reqs), q # <<>>, Injective(q)
    PROVE  /\ Tail(q) \in Seq(Reqs) /\ Head(q) \in Elems(q) /\ Head(q) \in Reqs
           /\ Elems(Tail(q)) = Elems(q) \ {Head(q)}
           /\ Injective(Tail(q))
<1>1. /\ Tail(q) \in Seq(Reqs)
      /\ Head(q) = q[1] /\ Head(q) \in Reqs
      /\ Len(q) \in Nat /\ Len(q) >= 1
      /\ Len(Tail(q)) = Len(q) - 1
      /\ \A i \in 1 .. Len(q) - 1 : Tail(q)[i] = q[i + 1]
  OBVIOUS
<1>2. Head(q) \in Elems(q)
  BY <1>1 DEF Elems
<1>3. Injective(Tail(q))
  BY <1>1 DEF Injective
<1>4. ASSUME NEW x \in Elems(Tail(q))
      PROVE  x \in Elems(q) \ {Head(q)}
  <2>1. PICK i \in 1 .. Len(q) - 1 : x = q[i + 1]
    BY <1>1 DEF Elems
  <2>2. i + 1 \in 1 .. Len(q) /\ 1 \in 1 .. Len(q) /\ i + 1 # 1
    BY <1>1
  <2>3. QED BY <1>1, <2>1, <2>2 DEF Injective, Elems
<1>5. ASSUME NEW x \in Elems(q) \ {Head(q)}
      PROVE  x \in Elems(Tail(q))
  <2>1. PICK i \in 1 .. Len(q) : x = q[i]
    BY DEF Elems
  <2>2. i - 1 \in 1 .. Len(q) - 1 /\ (i - 1) + 1 = i
    BY <1>1, <2>1
  <2>3. Tail(q)[i - 1] = x
    BY <1>1, <2>1, <2>2
  <2>4. QED BY <1>1, <2>2, <2>3 DEF Elems
<1>6. QED BY <1>1, <1>2, <1>3, <1>4, <1>5

(* The parts of an event at the backend are finitely many.                 *)
LEMMA InFlightFinite == \A e \in Reqs : IsFiniteSet(InFlight(e))
<1>1. IsFiniteSet(0 .. MaxParts - 1)
  BY FS_Interval, PartsAssumption
<1>2. QED BY <1>1, FS_Subset DEF InFlight

(***************************************************************************)
(* Every action preserves the invariant.                                   *)
(***************************************************************************)
(* The initial state satisfies the invariant.                              *)
LEMMA InitInv == Init => IInv
<1> SUFFICES ASSUME Init PROVE IInv
  OBVIOUS
<1>1. TypeOK
  BY PartsAssumption DEF Init, TypeOK, Cmds
<1>2. QueueOK
  BY DEF Init, QueueOK, Queued, Elems, Injective
<1>3. PartsOK
  <2>1. \A e \in Reqs : InFlight(e) = {}
    BY DEF Init, InFlight
  <2>2. Cardinality({}) = 0
    BY FS_EmptySet
  <2>3. \A e \in Reqs : offset[e] = 0 /\ parts[e] = 1 /\ numReq[e] = 0
    BY DEF Init
  <2>4. QED BY <2>1, <2>2, <2>3 DEF PartsOK
<1>4. LifeOK /\ FlushOK /\ ClockRunning
  BY DEF Init, LifeOK, FlushOK, ClockRunning
<1>5. QED BY <1>1, <1>2, <1>3, <1>4 DEF IInv

(* A fresh event is nowhere.                                               *)
LEMMA FreshFacts ==
    ASSUME IInv, NEW e \in Reqs, Fresh(e)
    PROVE  /\ e \notin pendingRequests /\ e \notin outstandingEvents /\ e \notin answered
           /\ e \notin Queued
           /\ offset[e] = 0
           /\ InFlight(e) = {}
           /\ waitingFlushes[e] = {}
           /\ dependentRequests[e] = {}
           /\ covers[e] = {} /\ \A f \in Reqs : e \notin covers[f]
<1> USE DEF IInv
<1>1. /\ e \notin pendingRequests /\ e \notin outstandingEvents /\ e \notin answered
      /\ offset[e] = 0 /\ covers[e] = {}
  BY DEF Fresh, LifeOK
<1>2. e \notin Queued
  BY <1>1 DEF QueueOK
<1>3. InFlight(e) = {}
  BY <1>1 DEF PartsOK
<1>4. waitingFlushes[e] = {}
  BY <1>1 DEF FlushOK
<1>5. \A f \in Reqs : e \notin waitingFlushes[f] /\ e \notin covers[f]
  BY <1>1 DEF FlushOK
<1>6. dependentRequests[e] = {}
  BY <1>5 DEF FlushOK, TypeOK
<1>7. QED BY <1>1, <1>2, <1>3, <1>4, <1>5, <1>6

(* What does not touch requests keeps QueueOK and PartsOK.                 *)
LEMMA IssuingUnchanged ==
    ASSUME IInv, UNCHANGED <<parts, issuing>>
    PROVE  QueueOK' /\ PartsOK'
BY DEF IInv, QueueOK, PartsOK, Queued, Elems, Injective, InFlight, issuing

(* A request that arrives.                                                 *)
LEMMA ReceiveInv ==
    ASSUME IInv, NEW e \in Reqs, NEW c \in Cmds, NEW a \in Addrs, NEW n \in 1 .. MaxParts,
           Receive(e, c, a, n)
    PROVE  IInv'
<1> USE DEF IInv
<1>0. Fresh(e) /\ c \in {"Get", "Put", "Custom"}
  BY DEF Receive
<1>1. /\ requestQueue' \in Seq(Reqs) /\ requestQueue' # <<>>
      /\ Queued' = Queued \cup {e}
      /\ Injective(requestQueue')
  <2>1. requestQueue \in Seq(Reqs) /\ Injective(requestQueue) /\ e \notin Elems(requestQueue)
    BY <1>0, FreshFacts DEF TypeOK, QueueOK, Queued
  <2>2. requestQueue' = Append(requestQueue, e) /\ Append(requestQueue, e) # <<>>
    BY <2>1 DEF Receive
  <2>3. QED BY <2>1, <2>2, AppendElems DEF Queued
<1>2. TypeOK'
  BY <1>0, <1>1 DEF TypeOK, Receive, flushes, WakeController, Cmds
<1>3. QueueOK'
  BY <1>0, <1>1, FreshFacts DEF QueueOK, Receive, TypeOK
<1>4. PartsOK'
  <2>1. \A d \in Reqs : InFlight(d)' = InFlight(d)
    BY DEF Receive, InFlight
  <2>2. QED BY <1>0, <2>1, FreshFacts DEF PartsOK, Receive, TypeOK
<1>5. LifeOK'
  BY <1>0, FreshFacts DEF LifeOK, Receive, TypeOK
<1>6. FlushOK'
  <2>1. /\ waitingFlushes' = waitingFlushes /\ dependentRequests' = dependentRequests
        /\ covers' = covers /\ answered' = answered
        /\ pendingRequests' = pendingRequests \cup {e}
        /\ outstandingEvents' = outstandingEvents \cup {e}
        /\ cmd' = [cmd EXCEPT ![e] = c]
    BY DEF Receive, flushes
  <2>2. waitingFlushes[e] = {} /\ c # "Flush"
    BY <1>0, FreshFacts
  <2>3. \A g \in Reqs : (waitingFlushes[g] # {} <=> (g \in outstandingEvents /\ cmd[g] = "Flush"))'
    BY <2>1, <2>2 DEF FlushOK, TypeOK
  <2>4. QED BY <2>1, <2>3 DEF FlushOK
<1>7. ClockRunning'
  BY DEF ClockRunning, Receive, WakeController, TypeOK
<1>8. QED BY <1>2, <1>3, <1>4, <1>5, <1>6, <1>7

(* A flush that carries no data.                                           *)
LEMMA ReceiveFlushInv ==
    ASSUME IInv, NEW f \in Reqs, NEW a \in Addrs, ReceiveFlush(f, a)
    PROVE  IInv'
<1> USE DEF IInv
<1> DEFINE D == DependsOn(a)
<1>0. Fresh(f)
  BY DEF ReceiveFlush
<1>1. D = Unissued(a) /\ D \subseteq pendingRequests /\ D \subseteq Reqs /\ f \notin D
  <2>1. Queued \subseteq Reqs
    BY DEF Queued, Elems, TypeOK
  <2>2. D = Unissued(a)
    BY <2>1 DEF DependsOn, Unissued, QueueOK, TypeOK
  <2>3. QED BY <2>1, <2>2, <1>0, FreshFacts DEF DependsOn, Unissued
<1>2. TypeOK'
  BY <1>1 DEF TypeOK, ReceiveFlush, SetupFlush, WakeController, Cmds, issuing
<1>3. QueueOK' /\ PartsOK'
  BY IssuingUnchanged DEF ReceiveFlush
<1>4. LifeOK'
  BY <1>0, FreshFacts DEF LifeOK, ReceiveFlush, TypeOK, issuing
<1>5. FlushOK'
  <2>1. \A d \in D : d \in outstandingEvents /\ d \notin answered /\ d # f
    BY <1>1 DEF LifeOK
  <2>2. /\ waitingFlushes' = [waitingFlushes EXCEPT ![f] = D]
        /\ covers' = [covers EXCEPT ![f] = D]
        /\ dependentRequests' = [e \in Reqs |-> IF e \in D THEN dependentRequests[e] \cup {f}
                                                ELSE dependentRequests[e]]
        /\ cmd' = [cmd EXCEPT ![f] = "Flush"]
        /\ pendingRequests' = pendingRequests
        /\ D = {} => answered' = answered \cup {f} /\ outstandingEvents' = outstandingEvents
        /\ D # {} => answered' = answered /\ outstandingEvents' = outstandingEvents \cup {f}
    BY <1>1 DEF ReceiveFlush, SetupFlush, issuing
  <2>3. \A g \in Reqs : f \notin covers[g] /\ f \notin waitingFlushes[g] /\ waitingFlushes[f] = {}
    BY <1>0, FreshFacts DEF FlushOK
  <2> HIDE DEF D
  <2>4. \A e, g \in Reqs : (e \in waitingFlushes[g] <=> g \in dependentRequests[e])'
    BY <1>1, <2>2, <2>3 DEF FlushOK, TypeOK
  <2>5. \A g \in Reqs : (waitingFlushes[g] = covers[g] \ answered)'
    BY <1>1, <2>1, <2>2, <2>3 DEF FlushOK, TypeOK
  <2>6. \A g \in Reqs : (waitingFlushes[g] \subseteq pendingRequests)'
    BY <1>1, <2>2 DEF FlushOK, TypeOK
  <2>7. \A g \in Reqs : (waitingFlushes[g] # {} <=> (g \in outstandingEvents /\ cmd[g] = "Flush"))'
    <3>1. f \notin outstandingEvents
      BY <1>0, FreshFacts
    <3>2. D # {} <=> f \in outstandingEvents'
      BY <2>2, <3>1
    <3>3. QED BY <2>2, <3>1, <3>2 DEF FlushOK, TypeOK
  <2>8. QED BY <2>4, <2>5, <2>6, <2>7 DEF FlushOK
<1>6. ClockRunning'
  BY DEF ClockRunning, ReceiveFlush, WakeController, TypeOK, issuing
<1>7. QED BY <1>2, <1>3, <1>4, <1>5, <1>6

(* A flush that carries data, and the PutM made of it.                     *)
LEMMA ReceiveDirtyFlushInv ==
    ASSUME IInv, NEW f \in Reqs, NEW p \in Reqs, NEW a \in Addrs, NEW n \in 1 .. MaxParts,
           ReceiveDirtyFlush(f, p, a, n)
    PROVE  IInv'
<1> USE DEF IInv
<1> DEFINE D == DependsOn(a) \cup {p}
<1>0. Fresh(f) /\ Fresh(p) /\ f # p
  BY DEF ReceiveDirtyFlush
<1>a. /\ f \notin pendingRequests /\ f \notin outstandingEvents /\ f \notin answered
      /\ p \notin pendingRequests /\ p \notin outstandingEvents /\ p \notin answered
      /\ f \notin Queued /\ p \notin Queued /\ offset[f] = 0 /\ offset[p] = 0
  BY <1>0, FreshFacts
<1>b. /\ cmd' = [cmd EXCEPT ![p] = "Put", ![f] = "Flush"]
      /\ parts' = [parts EXCEPT ![p] = n]
      /\ pendingRequests' = pendingRequests \cup {p}
      /\ outstandingEvents' = outstandingEvents \cup {p, f}
      /\ offset' = offset /\ numReq' = numReq /\ backend' = backend /\ answered' = answered
  BY DEF ReceiveDirtyFlush
<1>c. n \in Int /\ 0 < n /\ 0 <= n
  OBVIOUS
<1>1. /\ requestQueue' \in Seq(Reqs)
      /\ Queued' = Queued \cup {p}
      /\ Injective(requestQueue')
  <2>1. requestQueue \in Seq(Reqs) /\ Injective(requestQueue) /\ p \notin Elems(requestQueue)
    BY <1>0, FreshFacts DEF TypeOK, QueueOK, Queued
  <2>2. requestQueue' = Append(requestQueue, p)
    BY DEF ReceiveDirtyFlush
  <2>3. QED BY <2>1, <2>2, AppendElems DEF Queued
<1>2. /\ D = Unissued(a) \cup {p} /\ D \subseteq pendingRequests \cup {p}
      /\ D \subseteq Reqs /\ f \notin D /\ D # {}
  <2>1. Queued \subseteq Reqs
    BY DEF Queued, Elems, TypeOK
  <2>2. DependsOn(a) = Unissued(a)
    BY <2>1 DEF DependsOn, Unissued, QueueOK, TypeOK
  <2>3. QED BY <2>1, <2>2, <1>0, FreshFacts DEF DependsOn, Unissued
<1>3. TypeOK'
  <2>1. SetupFlush(f, D)
    BY DEF ReceiveDirtyFlush
  <2>2. waitingFlushes' \in [Reqs -> SUBSET Reqs] /\ dependentRequests' \in [Reqs -> SUBSET Reqs]
    BY <1>2, <2>1 DEF SetupFlush, TypeOK
  <2>3. covers' \in [Reqs -> SUBSET Reqs]
    BY <1>2 DEF ReceiveDirtyFlush, TypeOK
  <2>4. QED BY <1>1, <2>2, <2>3 DEF TypeOK, ReceiveDirtyFlush, WakeController, Cmds
<1>4. QueueOK'
  <2>1. ASSUME NEW d \in Reqs, d # p
        PROVE  (d \in Queued <=> (d \in pendingRequests /\ offset[d] < parts[d]))'
    BY <1>1, <1>b, <2>1 DEF QueueOK, TypeOK
  <2>2. (p \in Queued <=> (p \in pendingRequests /\ offset[p] < parts[p]))'
    BY <1>1, <1>a, <1>b, <1>c DEF TypeOK
  <2>3. QED BY <1>1, <2>1, <2>2 DEF QueueOK
<1>5. PartsOK'
  <2>1. \A d \in Reqs : InFlight(d)' = InFlight(d)
    BY DEF ReceiveDirtyFlush, InFlight
  <2>2. \A d \in Reqs : (offset[d] <= parts[d])'
    BY <1>a, <1>b, <1>c DEF PartsOK, TypeOK
  <2>3. QED BY <1>b, <2>1, <2>2 DEF PartsOK
<1>6. LifeOK'
  <2>1. ASSUME NEW d \in Reqs, d # p, d # f
        PROVE  /\ cmd'[d] = cmd[d] /\ parts'[d] = parts[d] /\ covers'[d] = covers[d]
               /\ d \in pendingRequests' <=> d \in pendingRequests
               /\ d \in outstandingEvents' <=> d \in outstandingEvents
    BY <1>b, <2>1 DEF TypeOK, ReceiveDirtyFlush
  <2>2. cmd'[p] = "Put" /\ cmd'[f] = "Flush"
    BY <1>0, <1>b DEF TypeOK
  <2>3. QED BY <1>a, <1>b, <2>1, <2>2 DEF LifeOK
<1>7. FlushOK'
  <2>1. \A d \in D : d \notin answered /\ d # f
    BY <1>0, <1>2, FreshFacts DEF LifeOK
  <2>2. /\ waitingFlushes' = [waitingFlushes EXCEPT ![f] = D]
        /\ covers' = [covers EXCEPT ![f] = D]
        /\ dependentRequests' = [e \in Reqs |-> IF e \in D THEN dependentRequests[e] \cup {f}
                                                ELSE dependentRequests[e]]
        /\ cmd' = [cmd EXCEPT ![p] = "Put", ![f] = "Flush"]
        /\ pendingRequests' = pendingRequests \cup {p}
        /\ answered' = answered /\ outstandingEvents' = outstandingEvents \cup {p, f}
    BY <1>2 DEF ReceiveDirtyFlush, SetupFlush
  <2>3. /\ \A g \in Reqs : f \notin covers[g] /\ f \notin waitingFlushes[g]
        /\ waitingFlushes[f] = {} /\ waitingFlushes[p] = {}
    BY <1>0, FreshFacts DEF FlushOK
  <2> HIDE DEF D
  <2>4. \A e, g \in Reqs : (e \in waitingFlushes[g] <=> g \in dependentRequests[e])'
    BY <1>2, <2>2, <2>3 DEF FlushOK, TypeOK
  <2>5. \A g \in Reqs : (waitingFlushes[g] = covers[g] \ answered)'
    BY <1>2, <2>1, <2>2 DEF FlushOK, TypeOK
  <2>6. \A g \in Reqs : (waitingFlushes[g] \subseteq pendingRequests)'
    BY <1>2, <2>2 DEF FlushOK, TypeOK
  <2>7. \A g \in Reqs : (waitingFlushes[g] # {} <=> (g \in outstandingEvents /\ cmd[g] = "Flush"))'
    BY <1>0, <1>2, <2>2, <2>3 DEF FlushOK, TypeOK
  <2>8. QED BY <2>4, <2>5, <2>6, <2>7 DEF FlushOK
<1>8. ClockRunning'
  BY DEF ClockRunning, ReceiveDirtyFlush, WakeController, TypeOK
<1>9. QED BY <1>3, <1>4, <1>5, <1>6, <1>7, <1>8

(* Steps that change nothing but the clocks.                               *)
LEMMA ClockOnlyInv ==
    ASSUME IInv,
           UNCHANGED <<events, outstandingEvents, issuing, flushes, answered, covers>>,
           clockOn' \in BOOLEAN, convClockOn' \in BOOLEAN, ClockRunning'
    PROVE  IInv'
<1> USE DEF IInv
<1>1. TypeOK'
  BY DEF TypeOK, events, issuing, flushes
<1>2. QueueOK' /\ PartsOK'
  BY IssuingUnchanged DEF events
<1>3. LifeOK' /\ FlushOK'
  BY DEF LifeOK, FlushOK, events, issuing, flushes
<1>4. QED BY <1>1, <1>2, <1>3

(* The backend takes the next part of the first request.                   *)
LEMMA IssueInv == IInv /\ Issue => IInv'
<1> SUFFICES ASSUME IInv, Issue PROVE IInv'
  OBVIOUS
<1> USE DEF IInv
<1>0. /\ requestQueue \in Seq(Reqs) /\ requestQueue # <<>> /\ Injective(requestQueue)
      /\ Tail(requestQueue) \in Seq(Reqs) /\ Injective(Tail(requestQueue))
      /\ Elems(Tail(requestQueue)) = Queued \ {Head(requestQueue)}
      /\ Head(requestQueue) \in Reqs /\ Head(requestQueue) \in Queued
  BY TailElems DEF Issue, TypeOK, QueueOK, Queued
<1>e. PICK e \in Reqs : e = Head(requestQueue)
  BY <1>0
<1>k. PICK k \in 0 .. MaxParts : k = offset[e]
  BY <1>e DEF TypeOK
<1>1. e \in pendingRequests /\ k < parts[e]
  BY <1>0, <1>e, <1>k DEF QueueOK
<1>2. /\ k \in 0 .. MaxParts - 1 /\ k + 1 <= parts[e] /\ k + 1 \in 0 .. MaxParts
  <2>1. parts[e] \in 1 .. MaxParts
    BY DEF TypeOK
  <2>2. QED BY <1>1, <2>1, PartsAssumption
<1>3. /\ backend' = backend \cup {<<e, k>>}
      /\ offset' = [offset EXCEPT ![e] = k + 1]
      /\ numReq' = [numReq EXCEPT ![e] = numReq[e] + 1]
      /\ requestQueue' = IF k + 1 >= parts[e] THEN Tail(requestQueue) ELSE requestQueue
      /\ UNCHANGED <<cmd, addr, parts, outstandingEvents, pendingRequests, waitingFlushes,
                     dependentRequests, answered, covers>>
  BY <1>e, <1>k DEF Issue, events, flushes
<1>4. TypeOK'
  <2>1. clockOn' \in BOOLEAN /\ convClockOn' \in BOOLEAN
    BY DEF Issue, EndTick, clocks, TypeOK
  <2>2. requestQueue' \in Seq(Reqs)
    BY <1>0, <1>3
  <2>3. offset' \in [Reqs -> 0 .. MaxParts] /\ numReq' \in [Reqs -> Nat]
    BY <1>0, <1>2, <1>3 DEF TypeOK
  <2>4. backend' \subseteq Reqs \X (0 .. MaxParts - 1)
    BY <1>2, <1>3 DEF TypeOK
  <2>5. QED BY <1>3, <2>1, <2>2, <2>3, <2>4 DEF TypeOK
<1>5. QueueOK'
  <2>1. Injective(requestQueue')
    BY <1>0, <1>3
  <2>2. CASE k + 1 >= parts[e]
    <3>1. Queued' = Queued \ {e}
      BY <1>0, <1>e, <1>3, <2>2 DEF Queued
    <3>2. offset'[e] = k + 1 /\ ~(k + 1 < parts[e])
      BY <1>0, <1>2, <1>3, <2>2 DEF TypeOK
    <3>3. \A d \in Reqs \ {e} : offset'[d] = offset[d]
      BY <1>3 DEF TypeOK
    <3>4. QED BY <1>3, <2>1, <3>1, <3>2, <3>3 DEF QueueOK
  <2>3. CASE ~(k + 1 >= parts[e])
    <3>1. Queued' = Queued
      BY <1>3, <2>3 DEF Queued
    <3>2. k + 1 < parts[e]
      BY <1>0, <1>2, <2>3 DEF TypeOK
    <3>3. offset'[e] = k + 1 /\ \A d \in Reqs \ {e} : offset'[d] = offset[d]
      BY <1>3 DEF TypeOK
    <3>4. QED BY <1>0, <1>e, <1>1, <1>3, <2>1, <3>1, <3>2, <3>3 DEF QueueOK
  <2>4. QED BY <2>2, <2>3
<1>6. PartsOK'
  <2>1. \A i \in InFlight(e) : i < k /\ e \in pendingRequests
    BY <1>k DEF PartsOK
  <2>2. InFlight(e) \subseteq 0 .. MaxParts - 1 /\ k \notin InFlight(e)
    BY <1>2, <2>1 DEF InFlight
  <2>3. InFlight(e)' = InFlight(e) \cup {k}
    <3>1. \A i : <<e, i>> \in backend' <=> (<<e, i>> \in backend \/ i = k)
      BY <1>3
    <3>2. QED BY <1>2, <3>1 DEF InFlight
  <2>4. \A d \in Reqs \ {e} : InFlight(d)' = InFlight(d)
    BY <1>3 DEF InFlight
  <2>5. Cardinality(InFlight(e)') = Cardinality(InFlight(e)) + 1
    BY <1>0, <2>2, <2>3, InFlightFinite, FS_AddElement
  <2>6. \A d \in Reqs \ {e} : offset'[d] = offset[d] /\ numReq'[d] = numReq[d]
    BY <1>3 DEF TypeOK
  <2>7. offset'[e] = k + 1 /\ numReq'[e] = numReq[e] + 1
    BY <1>0, <1>3 DEF TypeOK
  <2>8. \A i \in InFlight(e)' : i < offset'[e] /\ e \in pendingRequests'
    BY <1>1, <1>2, <1>3, <2>1, <2>2, <2>3, <2>7
  <2>9. /\ offset'[e] <= parts'[e]
        /\ numReq'[e] = Cardinality(InFlight(e)')
    BY <1>0, <1>2, <1>3, <2>5, <2>7 DEF PartsOK
  <2>10. QED BY <1>3, <2>4, <2>6, <2>8, <2>9 DEF PartsOK
<1>7. LifeOK'
  BY <1>0, <1>1, <1>3 DEF LifeOK, TypeOK
<1>8. FlushOK'
  BY <1>3 DEF FlushOK
<1>9. ClockRunning'
  BY <1>0 DEF ClockRunning, Issue, EndTick, clocks, TypeOK
<1>10. QED BY <1>4, <1>5, <1>6, <1>7, <1>8, <1>9

(* The backend answers one part of a request.                              *)
LEMMA doResponseInv ==
    ASSUME IInv, NEW e \in Reqs, NEW i \in 0 .. MaxParts - 1, doResponse(e, i)
    PROVE  IInv'
<1> USE DEF IInv
<1>0. /\ <<e, i>> \in backend /\ e \in pendingRequests /\ i \in InFlight(e)
      /\ backend' = backend \ {<<e, i>>}
      /\ numReq' = [numReq EXCEPT ![e] = numReq[e] - 1]
      /\ cmd' = cmd /\ addr' = addr /\ parts' = parts /\ covers' = covers
      /\ requestQueue' = requestQueue /\ offset' = offset
  BY DEF doResponse, events, InFlight
<1>1. /\ InFlight(e)' = InFlight(e) \ {i}
      /\ \A d \in Reqs \ {e} : InFlight(d)' = InFlight(d)
  <2>1. \A j : <<e, j>> \in backend' <=> (<<e, j>> \in backend /\ j # i)
    BY <1>0
  <2>2. \A d \in Reqs \ {e} : \A j : <<d, j>> \in backend' <=> <<d, j>> \in backend
    BY <1>0
  <2>3. QED BY <2>1, <2>2 DEF InFlight
<1>2. /\ Cardinality(InFlight(e)') = Cardinality(InFlight(e)) - 1
      /\ Cardinality(InFlight(e)) \in Nat /\ Cardinality(InFlight(e)') \in Nat
      /\ Cardinality(InFlight(e)') = 0 => InFlight(e)' = {}
  <2>1. IsFiniteSet(InFlight(e))
    BY InFlightFinite
  <2>2. /\ IsFiniteSet(InFlight(e) \ {i})
        /\ Cardinality(InFlight(e) \ {i}) = Cardinality(InFlight(e)) - 1
    BY <1>0, <2>1, FS_RemoveElement
  <2>3. Cardinality(InFlight(e)) \in Nat /\ Cardinality(InFlight(e) \ {i}) \in Nat
    BY <2>1, <2>2, FS_CardinalityType
  <2>4. Cardinality(InFlight(e) \ {i}) = 0 => InFlight(e) \ {i} = {}
    BY <2>2, FS_EmptySet
  <2>5. QED BY <1>1, <2>2, <2>3, <2>4
<1>3. numReq'[e] = Cardinality(InFlight(e)') /\ numReq'[e] = numReq[e] - 1
  <2>1. numReq'[e] = numReq[e] - 1
    BY <1>0 DEF TypeOK
  <2>2. numReq[e] = Cardinality(InFlight(e))
    BY DEF PartsOK
  <2>3. QED BY <1>2, <2>1, <2>2
<1>4. /\ numReq' \in [Reqs -> Nat] /\ \A d \in Reqs \ {e} : numReq'[d] = numReq[d]
  <2>1. numReq[e] - 1 \in Nat
    BY <1>2, <1>3
  <2>2. QED BY <1>0, <2>1 DEF TypeOK
<1>5. ClockRunning' /\ clockOn' \in BOOLEAN /\ convClockOn' \in BOOLEAN
  BY <1>0 DEF ClockRunning, doResponse, WakeConvertor, TypeOK
<1>6. CASE ~isDone(e)
  <2>1. UNCHANGED <<pendingRequests, answered, outstandingEvents, waitingFlushes, dependentRequests>>
    BY <1>6 DEF doResponse, flushes
  <2>2. TypeOK'
    BY <1>0, <1>4, <1>5, <2>1 DEF TypeOK
  <2>3. QueueOK'
    BY <1>0, <2>1 DEF QueueOK, Queued
  <2>4. PartsOK'
    BY <1>0, <1>1, <1>3, <1>4, <2>1 DEF PartsOK
  <2>5. LifeOK' /\ FlushOK'
    BY <1>0, <2>1 DEF LifeOK, FlushOK
  <2>6. QED BY <1>5, <2>2, <2>3, <2>4, <2>5
<1>7. CASE isDone(e)
  <2>1. /\ pendingRequests' = pendingRequests \ {e}
        /\ answered' = answered \cup {e} \cup Released(e)
        /\ outstandingEvents' = outstandingEvents \ ({e} \cup Released(e))
        /\ waitingFlushes' = [f \in Reqs |-> IF f \in dependentRequests[e]
                                             THEN waitingFlushes[f] \ {e}
                                             ELSE waitingFlushes[f]]
        /\ dependentRequests' = [dependentRequests EXCEPT ![e] = {}]
    BY <1>7 DEF doResponse
  <2>2. InFlight(e)' = {} /\ offset[e] = parts[e] /\ e \notin Queued
    <3>1. numReq'[e] = 0 /\ offset[e] >= parts[e]
      BY <1>3, <1>7 DEF isDone
    <3>2. offset[e] <= parts[e] /\ offset[e] \in Int /\ parts[e] \in Int
      BY DEF PartsOK, TypeOK
    <3>3. QED BY <1>2, <1>3, <3>1, <3>2 DEF QueueOK
  <2>3. /\ Released(e) \subseteq Reqs
        /\ \A f \in Reqs : f \in Released(e) <=> waitingFlushes[f] = {e}
        /\ \A f \in Released(e) : cmd[f] = "Flush" /\ f \in outstandingEvents
        /\ \A f \in Released(e) : f \notin pendingRequests
    <3>1. Released(e) \subseteq Reqs
      BY DEF Released, TypeOK
    <3>2. \A f \in Reqs : f \in Released(e) <=> waitingFlushes[f] = {e}
      BY DEF Released, FlushOK, TypeOK
    <3>3. \A f \in Released(e) : cmd[f] = "Flush" /\ f \in outstandingEvents
      BY <3>1, <3>2 DEF FlushOK
    <3>4. QED BY <3>1, <3>2, <3>3 DEF LifeOK
  <2>4. \A f \in Reqs : waitingFlushes'[f] = waitingFlushes[f] \ {e}
    BY <2>1 DEF FlushOK, TypeOK
  <2>5. cmd[e] # "Flush" /\ cmd[e] # "none" /\ e \in outstandingEvents
    BY <1>0 DEF LifeOK
  <2>6. TypeOK'
    BY <1>0, <1>4, <1>5, <2>1, <2>3 DEF TypeOK
  <2>7. QueueOK'
    BY <1>0, <2>1, <2>2 DEF QueueOK, Queued
  <2>8. PartsOK'
    BY <1>0, <1>1, <1>3, <1>4, <2>1, <2>2 DEF PartsOK
  <2>9. LifeOK'
    BY <1>0, <2>1, <2>2, <2>3, <2>5 DEF LifeOK
  <2>10. FlushOK'
    <3>1. \A d, f \in Reqs : (d \in waitingFlushes[f] <=> f \in dependentRequests[d])'
      BY <2>1, <2>4 DEF FlushOK, TypeOK
    <3>2. \A f, g \in Reqs : g \in Released(e) => g \notin waitingFlushes[f]
      BY <2>3 DEF FlushOK
    <3>3. \A f \in Reqs : (waitingFlushes[f] = covers[f] \ answered)'
      BY <1>0, <2>1, <2>3, <2>4, <3>2 DEF FlushOK, TypeOK
    <3>4. \A f \in Reqs : (waitingFlushes[f] \subseteq pendingRequests)'
      BY <2>1, <2>4 DEF FlushOK
    <3>5. \A f \in Reqs : (waitingFlushes[f] # {} <=> (f \in outstandingEvents /\ cmd[f] = "Flush"))'
      BY <1>0, <2>1, <2>3, <2>4, <2>5 DEF FlushOK
    <3>6. QED BY <3>1, <3>3, <3>4, <3>5 DEF FlushOK
  <2>11. QED BY <1>5, <2>6, <2>7, <2>8, <2>9, <2>10
<1>8. QED BY <1>6, <1>7

(* The invariant is inductive.                                             *)
LEMMA NextInv == IInv /\ [Next]_vars => IInv'
<1> SUFFICES ASSUME IInv, [Next]_vars PROVE IInv'
  OBVIOUS
<1>1. CASE Arrive
  <2>1. CASE \E e \in Reqs, a \in Addrs, n \in 1 .. MaxParts, c \in Cmds : Receive(e, c, a, n)
    BY <2>1, ReceiveInv
  <2>2. CASE \E f \in Reqs, a \in Addrs : ReceiveFlush(f, a)
    BY <2>2, ReceiveFlushInv
  <2>3. CASE \E f, p \in Reqs, a \in Addrs, n \in 1 .. MaxParts : ReceiveDirtyFlush(f, p, a, n)
    BY <2>3, ReceiveDirtyFlushInv
  <2>4. CASE ReceiveClean
    <3>1. clockOn' \in BOOLEAN /\ convClockOn' \in BOOLEAN /\ ClockRunning'
      BY <2>4 DEF ReceiveClean, WakeController, ClockRunning, IInv, TypeOK, issuing
    <3>2. QED BY <2>4, <3>1, ClockOnlyInv DEF ReceiveClean
  <2>5. QED BY <1>1, <2>1, <2>2, <2>3, <2>4 DEF Arrive
<1>2. CASE Tick
  <2>1. CASE Issue
    BY <2>1, IssueInv
  <2>2. CASE IdleTick
    <3>1. clockOn' \in BOOLEAN /\ convClockOn' \in BOOLEAN /\ ClockRunning'
      BY <2>2 DEF IdleTick, EndTick, ClockRunning, IInv, TypeOK, issuing, clocks
    <3>2. QED BY <2>2, <3>1, ClockOnlyInv DEF IdleTick
  <2>3. QED BY <1>2, <2>1, <2>2 DEF Tick
<1>3. CASE Respond
  BY <1>3, doResponseInv DEF Respond
<1>4. CASE UNCHANGED vars
  <2>1. clockOn' \in BOOLEAN /\ convClockOn' \in BOOLEAN /\ ClockRunning'
    BY <1>4 DEF vars, clocks, issuing, ClockRunning, IInv, TypeOK
  <2>2. QED BY <1>4, <2>1, ClockOnlyInv DEF vars
<1>5. QED BY <1>1, <1>2, <1>3, <1>4 DEF Next

(* The inductive invariant holds of every behaviour.                       *)
LEMMA Invariance == Spec => []IInv
BY InitInv, NextInv, PTL DEF Spec

(***************************************************************************)
(* The properties of the runs, for every instance.                         *)
(***************************************************************************)
(* Every variable keeps its type; in particular m_numReq, which the code   *)
(* decrements without a check, never goes below zero.                      *)
THEOREM TypeCorrect == Spec => []TypeOK
<1>1. IInv => TypeOK
  BY DEF IInv
<1>2. QED BY <1>1, Invariance, PTL

(* doResponse never meets an answer to a request it does not know.         *)
THEOREM ResponsesFound == Spec => []ResponseFound
<1>1. IInv => ResponseFound
  <2> SUFFICES ASSUME IInv, NEW r \in backend PROVE r[1] \in pendingRequests
    BY DEF ResponseFound
  <2>1. PICK e \in Reqs, i \in 0 .. MaxParts - 1 : r = <<e, i>>
    BY DEF IInv, TypeOK
  <2>2. i \in InFlight(e) /\ r[1] = e
    BY <2>1 DEF InFlight
  <2>3. QED BY <2>2 DEF IInv, PartsOK
<1>2. QED BY <1>1, Invariance, PTL

(* An event that is answered was issued and answered in all its parts.     *)
THEOREM AnswersWhole == Spec => []AnsweredWhole
<1>1. IInv => AnsweredWhole
  <2> SUFFICES ASSUME IInv, NEW e \in answered, cmd[e] # "Flush"
               PROVE  offset[e] = parts[e] /\ \A r \in backend : r[1] # e
    BY DEF AnsweredWhole
  <2>1. e \in Reqs /\ offset[e] = parts[e] /\ e \notin pendingRequests
    BY DEF IInv, TypeOK, LifeOK
  <2>2. ASSUME NEW r \in backend PROVE r[1] # e
    <3>1. PICK d \in Reqs, i \in 0 .. MaxParts - 1 : r = <<d, i>>
      BY DEF IInv, TypeOK
    <3>2. i \in InFlight(d) /\ r[1] = d
      BY <3>1 DEF InFlight
    <3>3. QED BY <2>1, <3>2 DEF IInv, PartsOK
  <2>3. QED BY <2>1, <2>2
<1>2. QED BY <1>1, Invariance, PTL

(* A flush is answered after every request to its line that it found       *)
(* not completely issued.                                                  *)
THEOREM FlushesOrdered == Spec => []FlushOrder
<1>1. IInv => FlushOrder
  <2> SUFFICES ASSUME IInv, NEW f \in answered PROVE covers[f] \subseteq answered
    BY DEF FlushOrder
  <2>1. f \in Reqs /\ f \notin outstandingEvents
    BY DEF IInv, TypeOK, LifeOK
  <2>2. waitingFlushes[f] = {} /\ waitingFlushes[f] = covers[f] \ answered
    BY <2>1 DEF IInv, FlushOK
  <2>3. QED BY <2>2
<1>2. QED BY <1>1, Invariance, PTL

(* A flush that is not answered is in the list of a pending request.       *)
THEOREM FlushesWoken == Spec => []FlushWakeup
<1>1. IInv => FlushWakeup
  <2> SUFFICES ASSUME IInv, NEW f \in outstandingEvents, cmd[f] = "Flush"
               PROVE  \E e \in pendingRequests : e \in waitingFlushes[f] /\ f \in dependentRequests[e]
    BY DEF FlushWakeup
  <2>1. f \in Reqs
    BY DEF IInv, TypeOK
  <2>2. PICK e \in waitingFlushes[f] : e \in pendingRequests
    BY <2>1 DEF IInv, FlushOK
  <2>3. e \in Reqs
    BY <2>2 DEF IInv, TypeOK
  <2>4. QED BY <2>1, <2>2, <2>3 DEF IInv, FlushOK
<1>2. QED BY <1>1, Invariance, PTL

(* The clock runs while there is something to issue.                       *)
THEOREM ClockRuns == Spec => []ClockRunning
<1>1. IInv => ClockRunning
  BY DEF IInv
<1>2. QED BY <1>1, Invariance, PTL

(***************************************************************************)
(* Controller and convertor implement MemService.                          *)
(***************************************************************************)
(* Every step is a step of MemService or changes nothing it can see.       *)
LEMMA ServiceStep == IInv /\ IInv' /\ [Next]_vars => [Service!Next]_(Service!vars)
<1> SUFFICES ASSUME IInv, IInv', [Next]_vars PROVE [Service!Next]_(Service!vars)
  OBVIOUS
<1> USE DEF Service!Next, Service!Arrive, Service!Answer, Service!Known
<1>0. /\ outstandingEvents \subseteq Reqs /\ answered \subseteq Reqs
      /\ covers \in [Reqs -> SUBSET Reqs] /\ covers' \in [Reqs -> SUBSET Reqs]
      /\ outstandingEvents' \cap answered' = {}
      /\ \A f \in answered' : covers'[f] \subseteq answered'
  <2>1. outstandingEvents' \cap answered' = {}
    BY DEF IInv, TypeOK, LifeOK
  <2>2. \A f \in answered' : covers'[f] \subseteq answered'
    <3> SUFFICES ASSUME NEW f \in answered' PROVE covers'[f] \subseteq answered'
      OBVIOUS
    <3>1. f \in Reqs /\ f \notin outstandingEvents'
      BY <2>1 DEF IInv, TypeOK
    <3>2. waitingFlushes'[f] = {} /\ waitingFlushes'[f] = covers'[f] \ answered'
      BY <3>1 DEF IInv, FlushOK
    <3>3. QED BY <3>2
  <2>3. QED BY <2>1, <2>2 DEF IInv, TypeOK
<1>1. ASSUME UNCHANGED <<outstandingEvents, answered, covers>>
      PROVE  [Service!Next]_(Service!vars)
  BY <1>1 DEF Service!vars
<1>2. ASSUME NEW e \in Reqs, NEW c \in Cmds, NEW a \in Addrs, NEW n \in 1 .. MaxParts,
             Receive(e, c, a, n)
      PROVE  Service!Next
  <2>1. /\ e \notin outstandingEvents /\ e \notin answered /\ covers[e] = {}
    BY <1>2, FreshFacts DEF Receive
  <2>2. outstandingEvents' = outstandingEvents \cup {e} /\ answered' = answered /\ covers' = covers
    BY <1>2 DEF Receive
  <2>3. QED BY <1>0, <2>1, <2>2
<1>3. ASSUME NEW f \in Reqs, NEW a \in Addrs, ReceiveFlush(f, a)
      PROVE  Service!Next
  <2>1. /\ f \notin outstandingEvents /\ f \notin answered /\ f \notin pendingRequests
    BY <1>3, FreshFacts DEF ReceiveFlush
  <2>2. Unissued(a) \subseteq outstandingEvents /\ f \notin Unissued(a)
    BY <2>1 DEF Unissued, IInv, TypeOK, LifeOK
  <2>3. /\ covers' = [covers EXCEPT ![f] = Unissued(a)]
        /\ \/ outstandingEvents' = outstandingEvents \cup {f} /\ answered' = answered
           \/ outstandingEvents' = outstandingEvents /\ answered' = answered \cup {f}
    BY <1>3 DEF ReceiveFlush
  <2>4. covers'[f] = Unissued(a) /\ \A e \in Reqs \ {f} : covers'[e] = covers[e]
    BY <1>0, <2>3
  <2>5. (outstandingEvents \cup answered)' \ (outstandingEvents \cup answered) = {f}
    BY <2>1, <2>3
  <2>6. QED BY <1>0, <2>1, <2>2, <2>3, <2>4, <2>5
<1>4. ASSUME NEW f \in Reqs, NEW p \in Reqs, NEW a \in Addrs, NEW n \in 1 .. MaxParts,
             ReceiveDirtyFlush(f, p, a, n)
      PROVE  Service!Next
  <2>1. /\ f \notin outstandingEvents /\ f \notin answered /\ f \notin pendingRequests
        /\ p \notin outstandingEvents /\ p \notin answered /\ covers[p] = {} /\ f # p
    BY <1>4, FreshFacts DEF ReceiveDirtyFlush
  <2>2. Unissued(a) \subseteq outstandingEvents /\ f \notin Unissued(a)
    BY <2>1 DEF Unissued, IInv, TypeOK, LifeOK
  <2>3. /\ covers' = [covers EXCEPT ![f] = Unissued(a) \cup {p}]
        /\ outstandingEvents' = outstandingEvents \cup {p, f} /\ answered' = answered
    BY <1>4 DEF ReceiveDirtyFlush
  <2>4. covers'[f] = Unissued(a) \cup {p} /\ \A e \in Reqs \ {f} : covers'[e] = covers[e]
    BY <1>0, <2>3
  <2>5. (outstandingEvents \cup answered)' \ (outstandingEvents \cup answered) = {p, f}
    BY <2>1, <2>3
  <2>6. QED BY <1>0, <2>1, <2>2, <2>3, <2>4, <2>5
<1>5. ASSUME NEW e \in Reqs, NEW i \in 0 .. MaxParts - 1, doResponse(e, i), isDone(e)
      PROVE  Service!Next
  <2>1. /\ answered' = answered \cup {e} \cup Released(e)
        /\ outstandingEvents' = outstandingEvents \ ({e} \cup Released(e))
        /\ covers' = covers
    BY <1>5 DEF doResponse
  <2>2. {e} \cup Released(e) \subseteq outstandingEvents
    <3>1. e \in outstandingEvents
      BY <1>5 DEF doResponse, IInv, LifeOK
    <3>2. ASSUME NEW f \in Released(e) PROVE f \in outstandingEvents
      <4>1. f \in Reqs /\ f \in dependentRequests[e]
        BY DEF Released, IInv, TypeOK
      <4>2. e \in waitingFlushes[f]
        BY <4>1 DEF IInv, FlushOK
      <4>3. QED BY <4>1, <4>2 DEF IInv, FlushOK
    <3>3. QED BY <3>1, <3>2
  <2>3. (outstandingEvents \cup answered)' \ (outstandingEvents \cup answered) = {}
    BY <2>1, <2>2
  <2>4. QED BY <1>0, <2>1, <2>2, <2>3
<1>6. ASSUME NEW e \in Reqs, NEW i \in 0 .. MaxParts - 1, doResponse(e, i), ~isDone(e)
      PROVE  UNCHANGED <<outstandingEvents, answered, covers>>
  BY <1>6 DEF doResponse
<1>7. ASSUME ReceiveClean \/ Tick \/ UNCHANGED vars
      PROVE  UNCHANGED <<outstandingEvents, answered, covers>>
  BY <1>7 DEF ReceiveClean, Tick, Issue, IdleTick, vars
<1>8. CASE Arrive
  BY <1>1, <1>2, <1>3, <1>4, <1>7, <1>8 DEF Arrive
<1>9. CASE Respond
  BY <1>1, <1>5, <1>6, <1>9 DEF Respond
<1>10. QED BY <1>1, <1>7, <1>8, <1>9 DEF Next

(* Whatever order the backend answers in, every event is answered once and *)
(* every flush after the requests it covers.                               *)
THEOREM Implementation == Spec => ServiceSpec
<1>1. Init => Service!Init
  BY DEF Init, Service!Init
<1>2. QED BY <1>1, ServiceStep, Invariance, PTL DEF Spec, ServiceSpec, Service!Spec
=============================================================================
