------------------------------- MODULE MemLink -------------------------------
(***************************************************************************)
(* The links between the components of the hierarchy and the messages on   *)
(* them (memEvent.h, memTypes.h, the outgoing queues of                    *)
(* coherenceController.cc).                                                *)
(*                                                                         *)
(* addToOutgoingQueue(Up) sorts a message by delivery time but never lets  *)
(* it overtake a message for the same address, and a link delivers in      *)
(* order; so a link is one FIFO per address, and messages for different    *)
(* addresses may overtake each other.                                      *)
(***************************************************************************)
EXTENDS MSHR

CONSTANTS Cores,        \* cores; core c has the L1 cache c
          NoData        \* the payload of a message that carries none

(* "below" and "mem" name the other ends of the links.                     *)
ASSUME CoresAssumption == IsFiniteSet(Cores) /\ "below" \notin Cores /\ "mem" \notin Cores

VARIABLE chan           \* chan[l][a]: messages for address a on link l

(* below is the L2 cache or the directory. *)
Down(c) == <<c, "below">>
Up(c)   == <<"below", c>>
ToMem   == <<"below", "mem">>
FromMem == <<"mem", "below">>
Links   == {Down(c) : c \in Cores} \cup {Up(c) : c \in Cores} \cup {ToMem, FromMem}

(* A MemEvent: id names the CPU request it was made for, evict and dirty   *)
(* are the flags of a message that also gives up the sender's line.        *)
Event(cmd, a, src, id) ==
    [cmd |-> cmd, addr |-> a, src |-> src, id |-> id,
     data |-> NoData, dirty |-> FALSE, evict |-> FALSE, atomic |-> FALSE]

WithData(ev, d, dirty) == [ev EXCEPT !.data = d, !.dirty = dirty]

NACK(ev) == [cmd |-> "NACK", addr |-> ev.addr, nacked |-> ev]

(* An internal eviction retry: addr is the line to evict, for new.         *)
NULLCMD(old, new) == [cmd |-> "NULLCMD", addr |-> old, new |-> new]

Send(ch, l, m) == [ch EXCEPT ![l][m.addr] = Append(@, m)]
Deliver(l, a)  == [chan EXCEPT ![l][a] = Tail(@)]

(* One message each to the L1s in T. *)
SendSnoops(ch, a, T, cmd) ==
    [l \in Links |-> IF \E c \in T : l = Up(c)
                     THEN [ch[l] EXCEPT ![a] = Append(@, Event(cmd, a, "below", 0))]
                     ELSE ch[l]]

LinkInit == chan = [l \in Links |-> [a \in Addrs |-> <<>>]]

(***************************************************************************)
(* What every coherence manager does with its MSHR and its retries.  A     *)
(* controller k is a record with (at least) the fields                     *)
(*   mshr   its MSHR,                                                      *)
(*   rBuf   retryBuffer_ of the coherence manager: retries asked for in    *)
(*          this cycle,                                                    *)
(*   retry  retryBuffer_ of the cache: retries of earlier cycles,          *)
(*   done   addrsThisCycle_: the lines accessed in this cycle.             *)
(***************************************************************************)
RetryEvent(k, a) == [k EXCEPT !.rBuf = Append(@, getFrontEvent(k.mshr, a)),
                              !.mshr = addPendingRetry(@, a)]

RetryPointers(k, a) ==
    [k EXCEPT !.rBuf = @ \o [i \in DOMAIN getEvictPointers(k.mshr, a) |->
                                NULLCMD(a, getEvictPointers(k.mshr, a)[i])]]

(* retry(addr): wake up whoever is first in line for the address.          *)
Retry(k, a) ==
    IF ~exists(k.mshr, a) \/ pendingWriteback(k.mshr, a) THEN k
    ELSE IF getFrontType(k.mshr, a) = "Event" THEN RetryEvent(k, a)
    ELSE RetryPointers(k, a)

(* The tail of cleanUpAfterRequest and cleanUpAfterResponse: the same, but *)
(* an event that was already forwarded, or that waits for acks, is left.   *)
Replay(k, a) ==
    IF getInProgress(k.mshr, a) \/ getAcksNeeded(k.mshr, a) > 0 THEN k
    ELSE Retry(k, a)

cleanUpAfterRequest(k, a, inMSHR) ==
    Replay(IF inMSHR THEN [k EXCEPT !.mshr = removeFront(@, a)] ELSE k, a)

cleanUpAfterResponse(k, a) ==
    Replay([k EXCEPT !.mshr = removeFront(@, a)], a)

(***************************************************************************)
(* The order in which Cache::clockTick handles events.  In a cycle it goes *)
(* once through retryBuffer_ and then through eventBuffer_, skips an event *)
(* whose line was already accessed (arbitrateAccess), and finally moves    *)
(* the retries asked for to retryBuffer_.  A cycle may end after any       *)
(* number of events, which covers every max_requests_per_cycle.            *)
(***************************************************************************)
NewCycle(k) == [k EXCEPT !.retry = @ \o k.rBuf, !.rBuf = <<>>, !.done = {}]
Cycles(k)   == {k, NewCycle(k)}

(* done does not matter once nothing is left to be retried: the next event *)
(* may as well be in a cycle of its own.                                   *)
Rest(k) == IF k.retry = <<>> /\ k.rBuf = <<>> THEN [k EXCEPT !.done = {}] ELSE k

Ready(k)      == {i \in DOMAIN k.retry : k.retry[i].addr \notin k.done}
FirstReady(k) == CHOOSE i \in Ready(k) : \A j \in Ready(k) : i <= j

(* Mutation: the pending retry is not removed.                             *)
TakeRetryKeepsCount(k) ==
    [k EXCEPT !.retry = SubSeq(@, 1, FirstReady(k) - 1)
                        \o SubSeq(@, FirstReady(k) + 1, Len(@)),
              !.done = @ \cup {k.retry[FirstReady(k)].addr}]

(* A handler called with inMSHR = true first removes its pending retry.    *)
TakeRetry(k) ==
    LET r == k.retry[FirstReady(k)] IN
    [k EXCEPT !.retry = SubSeq(@, 1, FirstReady(k) - 1)
                        \o SubSeq(@, FirstReady(k) + 1, Len(@)),
              !.done = @ \cup {r.addr},
              !.mshr = IF r.cmd = "NULLCMD" THEN @ ELSE removePendingRetry(@, r.addr)]

CanAccess(k, a) == Ready(k) = {} /\ a \notin k.done
Access(k, a)    == [k EXCEPT !.done = @ \cup {a}]

(* findReplacementCandidate: a free way, or a line in I, is replaced       *)
(* before a valid line; which valid line goes is the policy's choice.      *)
(* NoLine stands for a free way of a cache that holds up to n lines.       *)
NoLine == "NP"
ASSUME AddrsAssumption == NoLine \notin Addrs

Present(k) == {a \in Addrs : k.line[a].st # NoLine}
Victims(k, n) ==
    LET free == (IF Cardinality(Present(k)) < n THEN {NoLine} ELSE {})
                \cup {a \in Present(k) : k.line[a].st = "I"}
    IN  IF free # {} THEN free ELSE Present(k)

frontIs(k, ev) == /\ frontIsEvent(k.mshr, ev.addr)
                  /\ getFrontEvent(k.mshr, ev.addr) = ev

(* A NULLCMD has freed (old = v) or picked (old # v) a way for its new     *)
(* address: its pointer leaves the old line, whose waiters go next.        *)
DropPointer(k, old, new) ==
    LET m == removeEvictPointer(k.mshr, old, new) IN
    IF lastPointer(k.mshr, old, new) THEN Retry([k EXCEPT !.mshr = m], old)
    ELSE [k EXCEPT !.mshr = m]
=============================================================================
