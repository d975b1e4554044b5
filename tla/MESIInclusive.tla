----------------------------- MODULE MESIInclusive -----------------------------
(***************************************************************************)
(* The shared inclusive MESI cache (MESI_Inclusive.cc) as the last level   *)
(* of coherence above memory.                                              *)
(*                                                                         *)
(* l2 is the controller: its lines (state, data, sharers, owner), MSHR,    *)
(* retry buffer, and resp, the L1s whose answer to an invalidation or      *)
(* fetch it waits for (the map responses).  lastLevel_ = true, so it may   *)
(* upgrade S to M on its own and gets no Inv or Fetch from below;          *)
(* silentEvictClean_ = false, no writeback acks.  The events the           *)
(* controller sends up carry no id: an L1 that never locks a line never    *)
(* NACKs, and only the NACK handler looks at the id.                       *)
(***************************************************************************)
EXTENDS MemLink

CONSTANTS L2Lines,      \* lines of the L2
          L2MSHR        \* mshr_num_entries of the L2

VARIABLE l2

NoOwner == "none"
ASSUME OwnerAssumption == NoOwner \notin Cores

NoLine2 == [st |-> NoLine, data |-> NoData, sharers |-> {}, owner |-> NoOwner]
Valid   == {"S", "E", "M"}

L2Init == l2 = [line  |-> [a \in Addrs |-> NoLine2],
                mshr  |-> EmptyMSHR,
                retry |-> <<>>, rBuf |-> <<>>, done |-> {},
                resp  |-> [a \in Addrs |-> {}]]

(* The answers that are still missing leave a line in X_Inv or X_InvX;     *)
(* the last of them returns it to X.                                       *)
Inv  == [S |-> "S_Inv", E |-> "E_Inv", M |-> "M_Inv"]
InvX == [E |-> "E_InvX", M |-> "M_InvX"]
Base == [S_Inv |-> "S", E_Inv |-> "E", E_InvX |-> "E", M_Inv |-> "M", M_InvX |-> "M"]

(***************************************************************************)
(* MSHR, eviction and invalidation helpers.                                *)
(***************************************************************************)
Status(k, ev, inMSHR) ==
    IF inMSHR THEN "OK"
    ELSE IF isFull(k.mshr, L2MSHR, FALSE) THEN "Reject"
    ELSE IF firstInLine(k.mshr, ev.addr) THEN "OK" ELSE "Stall"

L2Allocate(k, ev, inMSHR) ==
    IF inMSHR \/ Status(k, ev, inMSHR) = "Reject" THEN k
    ELSE [k EXCEPT !.mshr = insertEvent(@, ev.addr, ev)]

(* A request the MSHR has no room for is NACKed.                           *)
Rejection(k, ch, ev, inMSHR) ==
    IF Status(k, ev, inMSHR) = "Reject" THEN Send(ch, Up(ev.src), NACK(ev)) ELSE ch

Put2(k, ch) == l2' = Rest(k) /\ chan' = ch

L2Stall(k, ch, ev, inMSHR) ==
    Put2(L2Allocate(k, ev, inMSHR), Rejection(k, ch, ev, inMSHR))

(* Mutation: one ack is expected, however many L1s are snooped.            *)
SnoopOneAck(k, a, T) == [k EXCEPT !.mshr = addAcksNeeded(@, a, 1), !.resp[a] = @ \cup T]

(* Snoop the L1s in T: one ack each is missing, and each is remembered.    *)
Snoop(k, a, T) == [k EXCEPT !.mshr = addAcksNeeded(@, a, Cardinality(T)),
                            !.resp[a] = @ \cup T]

(* Mutation: only the sharers are looked at, not the owner.                *)
HoldersNoOwner(l) == l.sharers

Holders(l) == IF l.owner # NoOwner THEN {l.owner} ELSE l.sharers

(* invalidateAll: fetch from the owner, or invalidate the sharers.         *)
InvalidateAll(k, a) ==
    [Snoop(k, a, Holders(k.line[a])) EXCEPT !.line[a].st = Inv[@]]
SendInvalidateAll(ch, l, a) ==
    SendSnoops(ch, a, Holders(l), IF l.owner # NoOwner THEN "FetchInv" ELSE "Inv")

(* handleEviction: a line that is held above is called back first.         *)
Settled(k, v) == k.line[v].st \in Valid /\ getPendingRetries(k.mshr, v) = 0
L2Evicted(k, v) == \/ v = NoLine
                   \/ k.line[v].st = "I"
                   \/ Settled(k, v) /\ Holders(k.line[v]) = {}

L2Remove(k, v) == IF v = NoLine THEN k ELSE [k EXCEPT !.line[v] = NoLine2]
(* Mutation: a dirty line leaves the L2 like a clean one.                  *)
L2WritebackClean(ch, k, v) ==
    IF v = NoLine \/ k.line[v].st = "I" THEN ch
    ELSE Send(ch, ToMem, Event("PutE", v, "L2", 0))

L2Writeback(ch, k, v) ==
    IF v = NoLine \/ k.line[v].st = "I" THEN ch
    ELSE LET put == Event([S |-> "PutS", E |-> "PutE", M |-> "PutM"][k.line[v].st], v, "L2", 0)
         IN  Send(ch, ToMem, IF k.line[v].st = "M"
                             THEN WithData(put, k.line[v].data, TRUE) ELSE put)

CallBack(k, v)         == IF Settled(k, v) THEN InvalidateAll(k, v) ELSE k
SendCallBack(ch, k, v) == IF Settled(k, v) THEN SendInvalidateAll(ch, k.line[v], v) ELSE ch

(* doEviction: the sender gives up the line, with its data if dirty.       *)
doEviction(k, ev) ==
    LET l == k.line[ev.addr]
        dirtied == CASE l.st = "E"      -> "M"
                     [] l.st = "E_Inv"  -> "M_Inv"
                     [] l.st = "E_InvX" -> "M_InvX"
                     [] OTHER           -> l.st
    IN  [k EXCEPT !.line[ev.addr] =
            [st      |-> IF ev.dirty THEN dirtied ELSE l.st,
             data    |-> IF ev.dirty THEN ev.data ELSE l.data,
             owner   |-> IF l.owner = ev.src THEN NoOwner ELSE l.owner,
             sharers |-> IF l.owner = ev.src THEN l.sharers ELSE l.sharers \ {ev.src}]]

Answered(k, a, c) == [k EXCEPT !.mshr = decrementAcksNeeded(@, a), !.resp[a] = @ \ {c}]

(* Nothing is missing any more: back to the stable state and retry.        *)
Settle(k, a) == Retry([k EXCEPT !.line[a].st = Base[@]], a)

(***************************************************************************)
(* Requests from the L1s.                                                  *)
(***************************************************************************)
L2Forward(k, ch, ev, st) ==
    Put2([k EXCEPT !.line[ev.addr].st = st, !.mshr = setInProgress(@, ev.addr)],
         Send(ch, ToMem, Event(ev.cmd, ev.addr, "L2", ev.id)))

(* processCacheMiss and allocateLine.                                      *)
L2Miss(k0, ch, ev, inMSHR, st) ==
    LET k == L2Allocate(k0, ev, inMSHR)
        a == ev.addr
    IN  \/ /\ ~frontIs(k, ev)
           /\ Put2(k, Rejection(k0, ch, ev, inMSHR))
        \/ /\ frontIs(k, ev) /\ k.line[a].st # NoLine
           /\ L2Forward(k, ch, ev, st)
        \/ /\ frontIs(k, ev) /\ k.line[a].st = NoLine
           /\ \E v \in Victims(k, L2Lines) :
                 IF L2Evicted(k, v)
                 THEN L2Forward(L2Remove(k, v), L2Writeback(ch, k, v), ev, st)
                 ELSE LET kv == CallBack(k, v) IN
                      Put2([kv EXCEPT !.mshr = insertEviction(@, v, a)],
                           SendCallBack(ch, k, v))

(* An event that has to wait for the L1s in T; cmd tells them what to do.  *)
L2Await(k, ch, ev, inMSHR, T, cmd, st) ==
    IF Status(k, ev, inMSHR) = "OK"
    THEN LET k1 == Snoop(L2Allocate(k, ev, inMSHR), ev.addr, T) IN
         Put2([k1 EXCEPT !.line[ev.addr].st = st, !.mshr = setInProgress(@, ev.addr)],
              SendSnoops(ch, ev.addr, T, cmd))
    ELSE L2Stall(k, ch, ev, inMSHR)

L2GetS(k, ch, ev, inMSHR) ==
    LET a == ev.addr
        l == k.line[a]
        exclusive == l.st # "S" /\ l.sharers = {}
    IN  \/ /\ l.st \in Valid /\ l.owner = NoOwner
           /\ Put2(cleanUpAfterRequest(
                      IF exclusive THEN [k EXCEPT !.line[a].owner = ev.src]
                      ELSE [k EXCEPT !.line[a].sharers = @ \cup {ev.src}], a, inMSHR),
                   Send(ch, Up(ev.src),
                        WithData(Event(IF exclusive THEN "GetXResp" ELSE "GetSResp",
                                       a, "L2", ev.id), l.data, FALSE)))
        \/ /\ l.st \in {"E", "M"} /\ l.owner # NoOwner
           /\ L2Await(k, ch, ev, inMSHR, {l.owner}, "FetchInvX", InvX[l.st])
        \/ /\ l.st \in {NoLine, "I"}
           /\ L2Miss(k, ch, ev, inMSHR, "IS")
        \/ /\ l.st \notin Valid \cup {NoLine, "I"}
           /\ L2Stall(k, ch, ev, inMSHR)

(* At the last level a GetX turns S and E into M without asking memory,    *)
(* even when the request is then NACKed.                                   *)
L2GetX(k0, ch, ev, inMSHR) ==
    LET a == ev.addr
        k == IF k0.line[a].st \in Valid THEN [k0 EXCEPT !.line[a].st = "M"] ELSE k0
        l == k.line[a]
        others == l.sharers \ {ev.src}
    IN  \/ /\ l.st = "M" /\ others # {}
           /\ L2Await(k, ch, ev, inMSHR, others, "Inv", "M_Inv")
        \/ /\ l.st = "M" /\ others = {} /\ l.owner # NoOwner
           /\ L2Await(k, ch, ev, inMSHR, {l.owner}, "FetchInv", "M_Inv")
        \/ /\ l.st = "M" /\ others = {} /\ l.owner = NoOwner
           /\ Put2(cleanUpAfterRequest(
                      [k EXCEPT !.line[a].owner = ev.src, !.line[a].sharers = @ \ {ev.src}],
                      a, inMSHR),
                   Send(ch, Up(ev.src), WithData(Event("GetXResp", a, "L2", ev.id), l.data, FALSE)))
        \/ /\ l.st \in {NoLine, "I"}
           /\ L2Miss(k, ch, ev, inMSHR, "IM")
        \/ /\ l.st \notin {"M", NoLine, "I"}
           /\ L2Stall(k, ch, ev, inMSHR)

(***************************************************************************)
(* Flushes.  The eviction a flush carries is done at once and stripped     *)
(* from the event, so that a NACK or a retry does not repeat it.           *)
(***************************************************************************)

Stripped(ev) == Event(ev.cmd, ev.addr, ev.src, ev.id)

(* forwardFlush; a flush with payload makes memory write it.               *)
L2ForwardFlush(k, ch, ev, withLine, st) ==
    Put2([k EXCEPT !.line[ev.addr].st = IF @ \in {NoLine, "I"} THEN @ ELSE st,
                   !.mshr = setInProgress(@, ev.addr)],
         Send(ch, ToMem, IF withLine
                         THEN WithData(Event(ev.cmd, ev.addr, "L2", ev.id),
                                       k.line[ev.addr].data, k.line[ev.addr].st = "M")
                         ELSE Event(ev.cmd, ev.addr, "L2", ev.id)))

(* A FlushLine leaves its sender a sharer; one that crossed a FetchInvX    *)
(* answers it.                                                             *)
L2FlushLine(k0, ch, ev, inMSHR) ==
    LET a  == ev.addr
        e  == Stripped(ev)
        ok == Status(k0, e, inMSHR) = "OK"
        k1 == L2Allocate(k0, e, inMSHR)
        k  == IF ev.evict THEN [doEviction(k1, ev) EXCEPT !.line[a].sharers = @ \cup {ev.src}]
              ELSE k1
        l  == k.line[a]
        c  == Rejection(k0, ch, e, inMSHR)
    IN  \/ /\ l.st \in {"E", "M"} /\ l.owner # NoOwner /\ ok
           /\ Put2([Snoop(k, a, {l.owner}) EXCEPT !.line[a].st = InvX[@]],
                   SendSnoops(c, a, {l.owner}, "FetchInvX"))
        \/ /\ l.st \in {NoLine, "I", "S", "E", "M"} /\ ok
           /\ ~(l.st \in {"E", "M"} /\ l.owner # NoOwner)
           /\ L2ForwardFlush(k, c, e, l.st \in {"E", "M"}, "S_B")
        \/ /\ l.st \in {"E_InvX", "M_InvX"} /\ ev.evict
           /\ Put2(Settle(Answered(k, a, ev.src), a), c)
        \/ /\ ~(ok /\ l.st \in {NoLine, "I", "S", "E", "M"})
           /\ ~(l.st \in {"E_InvX", "M_InvX"} /\ ev.evict)
           /\ Put2(k, c)

L2FlushLineInv(k0, ch, ev, inMSHR) ==
    LET a  == ev.addr
        e  == Stripped(ev)
        ok == Status(k0, e, inMSHR) = "OK"
        k1 == L2Allocate(k0, e, inMSHR)
        waited == getAcksNeeded(k1.mshr, a) > 0
        k2 == IF ev.evict THEN doEviction(k1, ev) ELSE k1
        k  == CASE ev.evict /\ waited  -> Answered(k2, a, ev.src)
                [] ev.evict /\ ~waited -> [k2 EXCEPT !.resp[a] = @ \ {ev.src}]
                [] OTHER               -> k2
        done == getAcksNeeded(k.mshr, a) = 0
        l  == k.line[a]
        c  == Rejection(k0, ch, e, inMSHR)
    IN  \/ /\ l.st \in Valid /\ ok /\ Holders(l) # {}
           /\ Put2(InvalidateAll(k, a), SendInvalidateAll(c, l, a))
        \/ /\ l.st \in Valid /\ ok /\ Holders(l) = {}
           /\ L2ForwardFlush(k, c, e, TRUE, "I_B")
        \/ /\ l.st \in {NoLine, "I"} /\ ok
           /\ L2ForwardFlush(k, c, e, FALSE, "I_B")
        \/ /\ l.st \in DOMAIN Base /\ done
           /\ Put2(Settle(k, a), c)
        \/ /\ ~(l.st \in Valid \cup {NoLine, "I"} /\ ok)
           /\ ~(l.st \in DOMAIN Base /\ done)
           /\ Put2(k, c)

(***************************************************************************)
(* Replacements and answers from the L1s.                                  *)
(***************************************************************************)
(* PutS, PutE and PutM: an eviction that crossed an invalidation or fetch  *)
(* answers it.                                                             *)
L2Put(k0, ch, ev) ==
    LET a  == ev.addr
        k1 == doEviction(k0, ev)
        k  == IF getAcksNeeded(k1.mshr, a) > 0 THEN Answered(k1, a, ev.src)
              ELSE [k1 EXCEPT !.resp[a] = @ \ {ev.src}]
        done == getAcksNeeded(k.mshr, a) = 0
    IN  Put2(IF done /\ k.line[a].st \in DOMAIN Base THEN Settle(k, a) ELSE k, ch)

L2PutHandled(cmd) ==
    {"E", "M", "E_Inv", "M_Inv"} \cup
    IF cmd = "PutS" THEN {"S", "S_Inv", "SM_Inv", "SB_Inv", "S_B"} ELSE {"E_InvX", "M_InvX"}

L2AckInv(k0, ch, ev) ==
    LET a == ev.addr
        l == k0.line[a]
        k == Answered([k0 EXCEPT !.line[a] =
                         IF ev.src \in l.sharers THEN [l EXCEPT !.sharers = @ \ {ev.src}]
                         ELSE [l EXCEPT !.owner = NoOwner]], a, ev.src)
    IN  Put2(IF getAcksNeeded(k.mshr, a) = 0 THEN Settle(k, a) ELSE k, ch)

(* Mutation: an owner that is downgraded is not kept as a sharer.          *)
L2FetchRespNoSharer(k0, ch, ev) ==
    LET a == ev.addr
        k == doEviction(Answered(k0, a, ev.src), ev)
    IN  Put2(Retry([k EXCEPT !.line[a].st = Base[@]], a), ch)

(* FetchResp and FetchXResp: the owner's data; FetchXResp keeps a copy.    *)
L2FetchResp(k0, ch, ev) ==
    LET a  == ev.addr
        k1 == doEviction(Answered(k0, a, ev.src), ev)
        k  == IF ev.cmd = "FetchXResp" THEN [k1 EXCEPT !.line[a].sharers = @ \cup {ev.src}]
              ELSE k1
        st == IF k.line[a].st = (IF ev.cmd = "FetchResp" THEN "M_Inv" ELSE "M_InvX")
              THEN "M" ELSE "E"
    IN  Put2(Retry([k EXCEPT !.line[a].st = st], a), ch)

(***************************************************************************)
(* Responses from memory, and the controller's own eviction retries.       *)
(***************************************************************************)
(* A GetS that nobody else waits behind is given the line exclusively.     *)
L2GetXResp(k, ch, ev) ==
    LET a   == ev.addr
        req == getFrontEvent(k.mshr, a)
        own == k.line[a].st = "IM" \/ Len(k.mshr.reg[a].entries) = 1
        l   == [st      |-> IF k.line[a].st = "IM" \/ ev.dirty THEN "M" ELSE "E",
                data    |-> ev.data,
                owner   |-> IF own THEN req.src ELSE k.line[a].owner,
                sharers |-> IF own THEN k.line[a].sharers \ {req.src}
                            ELSE k.line[a].sharers \cup {req.src}]
    IN  Put2(cleanUpAfterResponse([k EXCEPT !.line[a] = l], a),
             Send(ch, Up(req.src), WithData(Event(IF own THEN "GetXResp" ELSE "GetSResp",
                                                  a, "L2", req.id), ev.data, FALSE)))

L2FlushLineResp(k, ch, ev) ==
    LET a   == ev.addr
        req == getFrontEvent(k.mshr, a)
        st  == k.line[a].st
    IN  Put2(cleanUpAfterResponse(
                [k EXCEPT !.line[a].st = CASE st = "I_B" -> "I" [] st = "S_B" -> "S" [] OTHER -> @], a),
             Send(ch, Up(req.src), Event("FlushLineResp", a, "L2", req.id)))

L2NULLCMD(k, ch, ev) ==
    \E v \in IF k.line[ev.addr].st # NoLine THEN {ev.addr} ELSE Victims(k, L2Lines) :
       IF L2Evicted(k, v)
       THEN Put2(DropPointer(RetryEvent(L2Remove(k, v), ev.new), ev.addr, ev.new),
                 L2Writeback(ch, k, v))
       ELSE LET kv == CallBack(k, v) IN
            Put2(IF v = ev.addr THEN kv
                 ELSE DropPointer([kv EXCEPT !.mshr = insertEviction(@, v, ev.new)],
                                  ev.addr, ev.new),
                 SendCallBack(ch, k, v))

(***************************************************************************)
(* One cycle of the L2.                                                    *)
(***************************************************************************)
L2HandleRequest(k, ch, ev, inMSHR) ==
    \/ ev.cmd = "GetS"         /\ L2GetS(k, ch, ev, inMSHR)
    \/ ev.cmd = "GetX"         /\ L2GetX(k, ch, ev, inMSHR)
    \/ ev.cmd = "FlushLine"    /\ L2FlushLine(k, ch, ev, inMSHR)
    \/ ev.cmd = "FlushLineInv" /\ L2FlushLineInv(k, ch, ev, inMSHR)

L2Retry ==
    \E k \in Cycles(l2) :
       /\ Ready(k) # {}
       /\ LET ev == k.retry[FirstReady(k)] IN
          \/ ev.cmd = "NULLCMD" /\ L2NULLCMD(TakeRetry(k), chan, ev)
          \/ ev.cmd # "NULLCMD" /\ L2HandleRequest(TakeRetry(k), chan, ev, TRUE)

L2Receive(c, a) ==
    /\ chan[Down(c)][a] # <<>>
    /\ \E k0 \in Cycles(l2) :
       /\ CanAccess(k0, a)
       /\ LET ev == Head(chan[Down(c)][a])  ch == Deliver(Down(c), a)  k == Access(k0, a) IN
          \/ L2HandleRequest(k, ch, ev, FALSE)
          \/ ev.cmd \in {"PutS", "PutE", "PutM"}       /\ L2Put(k, ch, ev)
          \/ ev.cmd = "AckInv"                         /\ L2AckInv(k, ch, ev)
          \/ ev.cmd \in {"FetchResp", "FetchXResp"}    /\ L2FetchResp(k, ch, ev)

L2ReceiveMem(a) ==
    /\ chan[FromMem][a] # <<>>
    /\ \E k0 \in Cycles(l2) :
       /\ CanAccess(k0, a)
       /\ LET ev == Head(chan[FromMem][a])  ch == Deliver(FromMem, a)  k == Access(k0, a) IN
          \/ ev.cmd = "GetXResp"      /\ L2GetXResp(k, ch, ev)
          \/ ev.cmd = "FlushLineResp" /\ L2FlushLineResp(k, ch, ev)
=============================================================================
