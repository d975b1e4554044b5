-------------------------- MODULE MemBackendConvertor --------------------------
(***************************************************************************)
(* The memory controller and its backend convertor                         *)
(* (memoryController.cc, memBackendConvertor.cc and .h): how one event is  *)
(* split into requests of the backend's width, how the answers are         *)
(* gathered, how a flush waits for the requests queued before it, and how  *)
(* the clock is turned off and on.                                         *)
(*                                                                         *)
(* The backend is external to the two classes: it may refuse a request for *)
(* a while, and answers the requests it has in any order                   *)
(* (requestReorderSimple.cc and requestReorderByRow.cc really reorder) but *)
(* never from inside issueRequest.                                         *)
(*                                                                         *)
(* An event is named by an element of Reqs, which is used once; so the     *)
(* number of events of a behaviour is bounded by Reqs.                     *)
(***************************************************************************)
EXTENDS Integers, Sequences, FiniteSets

CONSTANTS Reqs,                   \* event ids
          Addrs,                  \* line addresses
          MaxParts,               \* backend requests in the largest event
          max_requests_per_cycle, \* the backend's parameter
          SimpleMem               \* TRUE: the backend is SimpleMemory

ASSUME PartsAssumption == MaxParts \in Nat \ {0}
ASSUME LimitAssumption == max_requests_per_cycle \in Int /\ SimpleMem \in BOOLEAN

VARIABLES
    cmd,                \* per event: what it is, "none" before it arrives
    addr,               \* per event: its base address
    parts,              \* per event: requests it is split into (size / width)
    outstandingEvents,  \* events the controller has not finished
    requestQueue,       \* requests not completely issued yet
    pendingRequests,    \* requests not completely answered yet
    offset,             \* per request: parts issued (m_offset / width)
    numReq,             \* per request: parts issued and not answered
    waitingFlushes,     \* per flush: events it waits for ({}: no entry)
    dependentRequests,  \* per event: flushes that wait for it ({}: no entry)
    backend,            \* <<request, part>> the backend works on
    clockOn,            \* the controller's clock (clockOn_)
    convClockOn,        \* what the convertor believes of it (m_clockOn)
    answered,           \* events finished (history)
    covers              \* per flush: the unissued requests it met (history)

events  == <<cmd, addr, parts>>
flushes == <<waitingFlushes, dependentRequests>>
issuing == <<requestQueue, pendingRequests, offset, numReq, backend>>
clocks  == <<clockOn, convClockOn>>
vars    == <<events, outstandingEvents, issuing, flushes, clocks, answered, covers>>

Cmds   == {"Get", "Put", "Flush", "Custom"}
Elems(q) == {q[i] : i \in 1 .. Len(q)}
Queued == Elems(requestQueue)

Init ==
    /\ cmd = [e \in Reqs |-> "none"]
    /\ \E a \in Addrs : addr = [e \in Reqs |-> a]
    /\ parts = [e \in Reqs |-> 1]
    /\ outstandingEvents = {}
    /\ requestQueue = <<>>
    /\ pendingRequests = {}
    /\ offset = [e \in Reqs |-> 0]
    /\ numReq = [e \in Reqs |-> 0]
    /\ waitingFlushes = [e \in Reqs |-> {}]
    /\ dependentRequests = [e \in Reqs |-> {}]
    /\ backend = {}
    /\ clockOn = TRUE /\ convClockOn = TRUE
    /\ answered = {}
    /\ covers = [e \in Reqs |-> {}]

(***************************************************************************)
(* Arrival of events (MemController::handleEvent).                         *)
(***************************************************************************)
Fresh(e) == cmd[e] = "none"

(* Mutation: the convertor is not told that the clock is on again.         *)
WakeControllerOnly == clockOn' = TRUE /\ UNCHANGED convClockOn

(* handleEvent starts by turning both clocks on if its own is off.         *)
WakeController ==
    /\ clockOn' = TRUE
    /\ convClockOn' = (convClockOn \/ ~clockOn)

(* setupMemReq for anything but a flush, and handleCustomEvent, which      *)
(* issues a single request.                                                *)
Receive(e, c, a, n) ==
    /\ Fresh(e) /\ c \in {"Get", "Put", "Custom"} /\ (c = "Custom" => n = 1)
    /\ WakeController
    /\ cmd' = [cmd EXCEPT ![e] = c]
    /\ addr' = [addr EXCEPT ![e] = a]
    /\ parts' = [parts EXCEPT ![e] = n]
    /\ outstandingEvents' = outstandingEvents \cup {e}
    /\ requestQueue' = Append(requestQueue, e)
    /\ pendingRequests' = pendingRequests \cup {e}
    /\ UNCHANGED <<offset, numReq, backend, flushes, answered, covers>>

(* The MemReqs in the queue that a flush of line a depends on.             *)
DependsOn(a) == {e \in Queued : cmd[e] # "Custom" /\ addr[e] = a}

(* The requests to line a that are not completely issued.                  *)
Unissued(a) == {e \in pendingRequests : cmd[e] # "Custom" /\ addr[e] = a /\ offset[e] < parts[e]}

(* Mutation: the list of a request's dependents is overwritten.            *)
SetupFlushOverwrites(f, D) ==
    /\ waitingFlushes' = [waitingFlushes EXCEPT ![f] = D]
    /\ dependentRequests' = [e \in Reqs |-> IF e \in D THEN {f} ELSE dependentRequests[e]]

(* setupMemReq for a flush that depends on the events in D.  One that      *)
(* depends on nothing is answered at once.                                 *)
SetupFlush(f, D) ==
    /\ waitingFlushes' = [waitingFlushes EXCEPT ![f] = D]
    /\ dependentRequests' = [e \in Reqs |-> IF e \in D THEN dependentRequests[e] \cup {f}
                                            ELSE dependentRequests[e]]

ReceiveFlush(f, a) ==
    /\ Fresh(f)
    /\ WakeController
    /\ cmd' = [cmd EXCEPT ![f] = "Flush"]
    /\ addr' = [addr EXCEPT ![f] = a]
    /\ SetupFlush(f, DependsOn(a))
    /\ IF DependsOn(a) = {}
       THEN answered' = answered \cup {f} /\ UNCHANGED outstandingEvents
       ELSE outstandingEvents' = outstandingEvents \cup {f} /\ UNCHANGED answered
    /\ covers' = [covers EXCEPT ![f] = Unissued(a)]
    /\ UNCHANGED <<parts, issuing>>

(* A flush with a payload: the controller first makes a PutM p of it, on   *)
(* which the flush then depends.                                           *)
ReceiveDirtyFlush(f, p, a, n) ==
    /\ Fresh(f) /\ Fresh(p) /\ f # p
    /\ WakeController
    /\ cmd' = [cmd EXCEPT ![p] = "Put", ![f] = "Flush"]
    /\ addr' = [addr EXCEPT ![p] = a, ![f] = a]
    /\ parts' = [parts EXCEPT ![p] = n]
    /\ requestQueue' = Append(requestQueue, p)
    /\ pendingRequests' = pendingRequests \cup {p}
    /\ SetupFlush(f, DependsOn(a) \cup {p})
    /\ outstandingEvents' = outstandingEvents \cup {p, f}
    /\ covers' = [covers EXCEPT ![f] = Unissued(a) \cup {p}]
    /\ UNCHANGED <<offset, numReq, backend, answered>>

(* PutS and PutE are dropped, but wake the clock.                          *)
ReceiveClean ==
    /\ WakeController
    /\ UNCHANGED <<events, outstandingEvents, issuing, flushes, answered, covers>>

(***************************************************************************)
(* The clock (MemController::clock, MemBackendConvertor::clock).           *)
(***************************************************************************)
(* Mutation: the limit of a cycle is one request less.                     *)
MaxReqPerCycleLess == max_requests_per_cycle - 1

(* MemBackend turns 0 into unlimited; SimpleMemory reads the parameter     *)
(* again and does not.                                                     *)
MaxReqPerCycle ==
    IF max_requests_per_cycle = 0 /\ ~SimpleMem THEN -1 ELSE max_requests_per_cycle

(* A tick that leaves the queue empty may turn the clock off, if link and  *)
(* backend agree.                                                          *)
EndTick(queue) ==
    \/ queue = <<>> /\ clockOn' = FALSE /\ convClockOn' = FALSE
    \/ UNCHANGED clocks

(* Mutation: the parts in the backend are not counted.                     *)
IssueUncounted ==
    /\ clockOn /\ requestQueue # <<>> /\ MaxReqPerCycle # 0
    /\ LET e == Head(requestQueue) IN
       /\ backend' = backend \cup {<<e, offset[e]>>}
       /\ offset' = [offset EXCEPT ![e] = @ + 1]
       /\ requestQueue' = IF offset[e] + 1 >= parts[e] THEN Tail(requestQueue)
                          ELSE requestQueue
    /\ EndTick(requestQueue')
    /\ UNCHANGED <<events, outstandingEvents, pendingRequests, numReq, flushes, answered, covers>>

(* One iteration of the loop in clock: the backend takes the next part of  *)
(* the first request.  A tick with several iterations is several of these  *)
(* steps with nothing between them.                                        *)
Issue ==
    /\ clockOn /\ requestQueue # <<>> /\ MaxReqPerCycle # 0
    /\ LET e == Head(requestQueue) IN
       /\ backend' = backend \cup {<<e, offset[e]>>}
       /\ offset' = [offset EXCEPT ![e] = @ + 1]
       /\ numReq' = [numReq EXCEPT ![e] = @ + 1]
       /\ requestQueue' = IF offset[e] + 1 >= parts[e] THEN Tail(requestQueue)
                          ELSE requestQueue
    /\ EndTick(requestQueue')
    /\ UNCHANGED <<events, outstandingEvents, pendingRequests, flushes, answered, covers>>

IdleTick ==
    /\ clockOn /\ EndTick(requestQueue)
    /\ UNCHANGED <<events, outstandingEvents, issuing, flushes, answered, covers>>

(***************************************************************************)
(* Answers of the backend (MemBackendConvertor::doResponse, with           *)
(* MemController::handleMemResponse for everything it finishes).           *)
(***************************************************************************)
WakeConvertor ==
    /\ convClockOn' = TRUE
    /\ clockOn' = (clockOn \/ ~convClockOn)

(* Mutations: a request is done once it is completely issued; or once      *)
(* nothing of it is in the backend.                                        *)
isDoneWhenIssued(e)   == offset[e] >= parts[e]
isDoneWhenAnswered(e) == numReq[e] - 1 = 0

isDone(e) == offset[e] >= parts[e] /\ numReq[e] - 1 = 0

(* Mutation: a flush is released by the first request it waited for.       *)
ReleasedByFirst(e) == dependentRequests[e]

(* The flushes that waited for e, a MemReq, and for nothing else.          *)
Released(e) == {f \in dependentRequests[e] : waitingFlushes[f] \subseteq {e}}

(* Mutation: an answered event is not erased from outstandingEvents.       *)
doResponseNotErased(e, i) ==
    /\ <<e, i>> \in backend /\ e \in pendingRequests
    /\ backend' = backend \ {<<e, i>>}
    /\ numReq' = [numReq EXCEPT ![e] = @ - 1]
    /\ WakeConvertor
    /\ IF isDone(e)
       THEN /\ pendingRequests' = pendingRequests \ {e}
            /\ answered' = answered \cup {e} \cup Released(e)
            /\ outstandingEvents' = outstandingEvents \ Released(e)
            /\ waitingFlushes' = [f \in Reqs |-> waitingFlushes[f] \ {e}]
            /\ dependentRequests' = [dependentRequests EXCEPT ![e] = {}]
       ELSE UNCHANGED <<pendingRequests, answered, outstandingEvents, flushes>>
    /\ UNCHANGED <<events, requestQueue, offset, covers>>

doResponse(e, i) ==
    /\ <<e, i>> \in backend /\ e \in pendingRequests
    /\ backend' = backend \ {<<e, i>>}
    /\ numReq' = [numReq EXCEPT ![e] = @ - 1]
    /\ WakeConvertor
    /\ IF isDone(e)
       THEN /\ pendingRequests' = pendingRequests \ {e}
            /\ answered' = answered \cup {e} \cup Released(e)
            /\ outstandingEvents' = outstandingEvents \ ({e} \cup Released(e))
            /\ waitingFlushes' = [f \in Reqs |-> IF f \in dependentRequests[e]
                                                 THEN waitingFlushes[f] \ {e}
                                                 ELSE waitingFlushes[f]]
            /\ dependentRequests' = [dependentRequests EXCEPT ![e] = {}]
       ELSE UNCHANGED <<pendingRequests, answered, outstandingEvents, flushes>>
    /\ UNCHANGED <<events, requestQueue, offset, covers>>

Arrive ==
    \/ \E e \in Reqs, a \in Addrs, n \in 1 .. MaxParts, c \in Cmds : Receive(e, c, a, n)
    \/ \E f \in Reqs, a \in Addrs : ReceiveFlush(f, a)
    \/ \E f, p \in Reqs, a \in Addrs, n \in 1 .. MaxParts : ReceiveDirtyFlush(f, p, a, n)
    \/ ReceiveClean
Tick    == Issue \/ IdleTick
Respond == \E e \in Reqs, i \in 0 .. MaxParts - 1 : doResponse(e, i)

Next == Arrive \/ Tick \/ Respond

(* A running clock ticks, the backend does not refuse a request for ever,  *)
(* and answers what it took.                                               *)
Fairness ==
    /\ WF_vars(Issue)
    /\ \A e \in Reqs, i \in 0 .. MaxParts - 1 : WF_vars(doResponse(e, i))

Spec == Init /\ [][Next]_vars /\ Fairness

-----------------------------------------------------------------------------
(* Every variable has the shape its type in the code gives it. *)
TypeOK ==
    /\ cmd \in [Reqs -> Cmds \cup {"none"}]
    /\ addr \in [Reqs -> Addrs]
    /\ parts \in [Reqs -> 1 .. MaxParts]
    /\ outstandingEvents \subseteq Reqs
    /\ requestQueue \in Seq(Reqs)
    /\ pendingRequests \subseteq Reqs
    /\ offset \in [Reqs -> 0 .. MaxParts]
    /\ numReq \in [Reqs -> Nat]
    /\ waitingFlushes \in [Reqs -> SUBSET Reqs]
    /\ dependentRequests \in [Reqs -> SUBSET Reqs]
    /\ backend \subseteq Reqs \X (0 .. MaxParts - 1)
    /\ clockOn \in BOOLEAN /\ convClockOn \in BOOLEAN
    /\ answered \subseteq Reqs
    /\ covers \in [Reqs -> SUBSET Reqs]

(* An answer of the backend always finds its request: doResponse never     *)
(* reaches "memory request not found", whatever the order of the answers.  *)
ResponseFound == \A r \in backend : r[1] \in pendingRequests

(* An event is answered only when all its parts were issued and answered.  *)
AnsweredWhole == \A e \in answered :
    cmd[e] # "Flush" => offset[e] = parts[e] /\ \A r \in backend : r[1] # e

(* A flush is answered after every request to its line that was not yet    *)
(* completely issued when the flush arrived.                               *)
FlushOrder == \A f \in answered : covers[f] \subseteq answered

(* No lost wake-up: a flush that is not answered waits for a request that  *)
(* is still pending and that has the flush in its list of dependents.      *)
FlushWakeup == \A f \in outstandingEvents : cmd[f] = "Flush" =>
    \E e \in pendingRequests : e \in waitingFlushes[f] /\ f \in dependentRequests[e]

(* The clock is never off while a request waits to be issued, and the      *)
(* controller and the convertor agree about it.                            *)
ClockRunning == (requestQueue # <<>> => clockOn) /\ clockOn = convClockOn

(* Every event that arrives is answered.                                   *)
AllServed == \A e \in Reqs : e \in outstandingEvents ~> e \in answered

(* Controller and convertor implement MemService: whatever the backend     *)
(* does, an event is answered once and a flush keeps its order.            *)
Service == INSTANCE MemService WITH outstanding <- outstandingEvents
ServiceSpec == Service!Spec
=============================================================================
