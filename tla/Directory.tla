------------------------------- MODULE Directory -------------------------------
(***************************************************************************)
(* The directory controller (directoryController.cc) between the L1 caches *)
(* and memory: protocol MESI, every cache coherent, memory sends no        *)
(* writeback acks and no shootdowns, entry_cache_size large enough that no *)
(* entry goes to memory, access_latency_cycles = mshr_latency_cycles, so   *)
(* that messages to one destination leave in the order they are made.      *)
(*                                                                         *)
(* dir is the controller: its entries (state, sharers, owner), its MSHR,   *)
(* the data buffer of each MSHR register, retryBuffer (rBuf holds the      *)
(* retries of this cycle, which wait for the next) and addrsThisCycle.     *)
(* The map responses is read when a snoop is NACKed, which an L1 never     *)
(* does, and is left out.                                                  *)
(***************************************************************************)
EXTENDS MemLink

CONSTANT DirMSHR        \* mshr_num_entries of the directory

VARIABLE dir

Nobody   == "none"
NewEntry == [st |-> "I", sharers |-> {}, owner |-> Nobody]
NoBuf    == [data |-> NoData, dirty |-> FALSE]

DirInit == dir = [entry |-> [a \in Addrs |-> NewEntry],
                  mshr  |-> EmptyMSHR,
                  buf   |-> [a \in Addrs |-> NoBuf],
                  retry |-> <<>>, rBuf |-> <<>>, done |-> {}]

DirStable == {"I", "S", "M"}

hasData(k, a) == k.buf[a].data # NoData

(* A register that is erased takes its data buffer along.                  *)
PutDir(k, ch) ==
    /\ dir' = Rest([k EXCEPT !.buf = [a \in Addrs |-> IF exists(k.mshr, a) THEN @[a] ELSE NoBuf]])
    /\ chan' = ch

-----------------------------------------------------------------------------
(* MSHR: OK if the event may start, Stall if others are in front of it.    *)
allocateMSHR(k, ev, inMSHR) ==
    IF inMSHR THEN "OK"
    ELSE IF isFull(k.mshr, DirMSHR, FALSE) THEN "Reject"
    ELSE IF firstInLine(k.mshr, ev.addr) THEN "OK" ELSE "Stall"

(* The MSHR with the event, as the handler leaves it, in its place.        *)
Holding(k, ev, inMSHR) ==
    IF inMSHR THEN [k EXCEPT !.mshr.reg[ev.addr].entries[1].ev = ev]
    ELSE IF allocateMSHR(k, ev, inMSHR) = "Reject" THEN k
    ELSE [k EXCEPT !.mshr = insertEvent(@, ev.addr, ev)]

sendNACK(k, ch, ev, inMSHR) ==
    IF allocateMSHR(k, ev, inMSHR) = "Reject" THEN Send(ch, Up(ev.src), NACK(ev)) ELSE ch

DirStall(k, ch, ev, inMSHR) == PutDir(Holding(k, ev, inMSHR), sendNACK(k, ch, ev, inMSHR))

-----------------------------------------------------------------------------
(* Messages down and up.                                                   *)
issueMemoryRequest(k, a)  == [k EXCEPT !.mshr = setInProgress(@, a)]
MemoryRequest(ch, ev)     == Send(ch, ToMem, Event(ev.cmd, ev.addr, "below", ev.id))

(* A flush takes dirty data of the buffer with it.                         *)
issueFlush(k, a) ==
    [k EXCEPT !.mshr = setInProgress(@, a),
              !.buf[a] = IF @.dirty THEN NoBuf ELSE @]
Flush(ch, k, ev) ==
    LET down == [ev EXCEPT !.src = "below", !.data = NoData] IN
    Send(ch, ToMem, IF k.buf[ev.addr].dirty
                    THEN [WithData(down, k.buf[ev.addr].data, TRUE) EXCEPT !.evict = TRUE]
                    ELSE down)

issueFetch(k, a)    == [k EXCEPT !.mshr = addAcksNeeded(@, a, 1)]
Fetch(ch, k, a, cmd) == SendSnoops(ch, a, {k.entry[a].owner}, cmd)

(* Everyone who shares the line, but not who asks for it.                  *)
Others(k, ev) == k.entry[ev.addr].sharers \ {ev.src}
issueInvalidations(k, ev) ==
    [k EXCEPT !.mshr = addAcksNeeded(@, ev.addr, Cardinality(Others(k, ev)))]
Invalidations(ch, k, ev) == SendSnoops(ch, ev.addr, Others(k, ev), "Inv")

Reply(ch, ev, cmd, d) ==
    Send(ch, Up(ev.src), WithData(Event(cmd, ev.addr, "below", ev.id), d, FALSE))

(* Mutation: dirty data of the buffer is dropped.                          *)
writebackDataFromMSHRNever(ch, k, a) == ch

(* Dirty data left here by racing accesses goes to memory first.           *)
Written(k, a) == [k EXCEPT !.buf[a].dirty = FALSE]
writebackDataFromMSHR(ch, k, a) ==
    IF k.buf[a].dirty
    THEN Send(ch, ToMem, WithData(Event("PutM", a, "below", 0), k.buf[a].data, TRUE)) ELSE ch

Owned(k, a, c)  == [k EXCEPT !.entry[a].st = "M", !.entry[a].owner = c]
Shared(k, a, c) == [k EXCEPT !.entry[a].st = "S", !.entry[a].sharers = @ \cup {c}]
Without(k, a, c) == [k EXCEPT !.entry[a].sharers = @ \ {c}]
Disowned(k, a)   == [k EXCEPT !.entry[a].owner = Nobody]
Enter(k, a, st) == [k EXCEPT !.entry[a].st = st]
Buffer(k, ev)   == [k EXCEPT !.buf[ev.addr] = [data |-> ev.data, dirty |-> ev.dirty]]
Unbuffer(k, a)  == [k EXCEPT !.buf[a] = NoBuf]

-----------------------------------------------------------------------------
(* Requests of the caches.                                                 *)
handleGetS(k0, ch0, ev, inMSHR) ==
    LET a  == ev.addr
        k  == Written(k0, a)
        ch == writebackDataFromMSHR(ch0, k0, a)
        st == k.entry[a].st
        w  == Holding(k, ev, inMSHR)
    IN  \/ /\ st = "I" /\ hasData(k, a) /\ inMSHR
           /\ PutDir(cleanUpAfterRequest(Unbuffer(Owned(k, a, ev.src), a), a, inMSHR),
                     Reply(ch, ev, "GetXResp", k.buf[a].data))
        \/ /\ st = "S" /\ hasData(k, a)
           /\ PutDir(cleanUpAfterRequest(Shared(k, a, ev.src), a, inMSHR),
                     Reply(ch, ev, "GetSResp", k.buf[a].data))
        \/ /\ st \in {"I", "S"} /\ ~(hasData(k, a) /\ (st = "S" \/ inMSHR))
           /\ allocateMSHR(k, ev, inMSHR) = "OK"
           /\ PutDir(issueMemoryRequest(Enter(w, a, [I |-> "IS", S |-> "S_D"][st]), a),
                     MemoryRequest(ch, ev))
        \/ /\ st = "M" /\ allocateMSHR(k, ev, inMSHR) = "OK"
           /\ PutDir(issueFetch(Enter(w, a, "M_InvX"), a), Fetch(ch, k, a, "FetchInvX"))
        \/ /\ \/ st \notin DirStable
              \/ /\ allocateMSHR(k, ev, inMSHR) # "OK"
                 /\ ~(st = "S" /\ hasData(k, a))
           /\ DirStall(k, ch, ev, inMSHR)

(* Mutation: other sharers are not looked for.                             *)
SoleSharerAny(k, ev) == ev.src \in k.entry[ev.addr].sharers
SoleSharer(k, ev) == k.entry[ev.addr].sharers = {ev.src}

(* A sole sharer is upgraded at once; other sharers are invalidated first, *)
(* and the data read meanwhile unless the requester has it.                *)
handleGetX(k0, ch0, ev, inMSHR) ==
    LET a  == ev.addr
        k  == Written(k0, a)
        ch == writebackDataFromMSHR(ch0, k0, a)
        e  == k.entry[a]
        w  == Holding(k, ev, inMSHR)
        ok == allocateMSHR(k, ev, inMSHR) = "OK"
    IN  \/ /\ e.st = "I" /\ hasData(k, a) /\ inMSHR
           /\ PutDir(cleanUpAfterRequest(Unbuffer(Owned(k, a, ev.src), a), a, inMSHR),
                     Reply(ch, ev, "GetXResp", k.buf[a].data))
        \/ /\ e.st = "I" /\ ~(hasData(k, a) /\ inMSHR) /\ ok
           /\ PutDir(issueMemoryRequest(Enter(w, a, "IM"), a), MemoryRequest(ch, ev))
        \/ /\ e.st = "S" /\ SoleSharer(k, ev)
           /\ PutDir(cleanUpAfterRequest(
                        Owned(Without(Unbuffer(k, a), a, ev.src), a, ev.src), a, inMSHR),
                     Reply(ch, ev, "GetXResp", NoData))
        \/ /\ e.st = "S" /\ ~SoleSharer(k, ev) /\ ok
           /\ LET inv == issueInvalidations(w, ev)
                  out == Invalidations(ch, k, ev)
              IN  IF ev.src \in e.sharers
                  THEN PutDir(Unbuffer(Enter(inv, a, "S_Inv"), a), out)
                  ELSE IF hasData(k, a) THEN PutDir(Enter(inv, a, "S_Inv"), out)
                  ELSE PutDir(issueMemoryRequest(Enter(inv, a, "SM_Inv"), a), MemoryRequest(out, ev))
        \/ /\ e.st = "M" /\ ok
           /\ PutDir(issueFetch(Enter(w, a, "M_Inv"), a), Fetch(ch, k, a, "FetchInv"))
        \/ /\ \/ e.st \notin DirStable
              \/ ~ok /\ ~(e.st = "S" /\ SoleSharer(k, ev))
           /\ DirStall(k, ch, ev, inMSHR)

(* Mutation: the answer memory still owes is forgotten.                    *)
AfterAcksNoData(e) == IF e.sharers # {} THEN "S" ELSE "I"

(* One ack fewer is missing; the last one decides the state.               *)
LastAck(k, a) == getAcksNeeded(k.mshr, a) = 1
AfterAcks(e) == CASE e.st = "SM_Inv"                    -> "IM"
                  [] e.st = "S_Inv" /\ e.sharers # {}   -> "S"
                  [] OTHER                              -> "I"

(* Mutation: the last ack retries the request, and so does the caller.     *)
AckedRetries(k, a) ==
    LET x == [k EXCEPT !.mshr = decrementAcksNeeded(@, a)] IN
    IF LastAck(k, a) THEN RetryEvent([x EXCEPT !.entry[a].st = AfterAcks(k.entry[a])], a) ELSE x

Acked(k, a) == [k EXCEPT !.mshr = decrementAcksNeeded(@, a),
                         !.entry[a].st = IF LastAck(k, a) THEN AfterAcks(k.entry[a]) ELSE @]

(* Mutation: the former owner is not recorded as a sharer.                 *)
DowngradedUnknown(k, ev) == Buffer([k EXCEPT !.entry[ev.addr].owner = Nobody], ev)

(* A flush by the owner leaves it a sharer, its data here.                 *)
Downgraded(k, ev) == Buffer([k EXCEPT !.entry[ev.addr].owner = Nobody,
                                      !.entry[ev.addr].sharers = @ \cup {ev.src}], ev)

handleFlushLine(k, ch, ev, inMSHR) ==
    LET a  == ev.addr
        e  == k.entry[a]
        ok == allocateMSHR(k, ev, inMSHR) = "OK"
        kept == [ev EXCEPT !.evict = FALSE]
    IN  \/ /\ e.st \in {"I", "S"} /\ ok
           /\ PutDir(issueFlush(Enter(Holding(k, ev, inMSHR), a, [I |-> "I", S |-> "S_B"][e.st]), a),
                     Flush(ch, k, ev))
        \/ /\ e.st = "M" /\ ok /\ (ev.evict \/ e.owner = Nobody)
           /\ LET w == Holding(k, kept, inMSHR)
                  d == IF ev.evict THEN Downgraded(w, ev) ELSE w
              IN  PutDir(issueFlush(Enter(d, a, "S_B"), a), Flush(ch, d, kept))
        \/ /\ e.st = "M" /\ ok /\ ~ev.evict /\ e.owner # Nobody
           /\ PutDir(issueFetch(Enter(Holding(k, ev, inMSHR), a, "M_InvX"), a),
                     Fetch(ch, k, a, "FetchInvX"))
        \/ /\ e.st = "M_Inv" /\ ev.evict
           /\ DirStall(Enter(Downgraded(k, ev), a, "S_Inv"), ch, kept, inMSHR)
        \/ /\ e.st = "M_InvX" /\ ev.evict
           /\ LET d == [Enter(Downgraded(k, ev), a, "S") EXCEPT !.mshr = decrementAcksNeeded(@, a)]
              IN  PutDir(RetryEvent(Holding(d, ev, inMSHR), a), sendNACK(k, ch, ev, inMSHR))
        \/ /\ \/ e.st \in DirStable /\ ~ok
              \/ e.st \notin DirStable /\ ~(e.st \in {"M_Inv", "M_InvX"} /\ ev.evict)
           /\ DirStall(k, ch, ev, inMSHR)

(* What an eviction by flush does to the entry, whatever is going on.      *)
FlushEvicts(k, ev) ==
    LET a == ev.addr IN
    IF ~ev.evict THEN k
    ELSE IF k.entry[a].st \in {"M", "M_InvX"} THEN Buffer(Disowned(k, a), ev)
    ELSE Without(k, a, ev.src)

handleFlushLineInv(k, ch, ev, inMSHR) ==
    LET a  == ev.addr
        st == k.entry[a].st
        ok == allocateMSHR(k, ev, inMSHR) = "OK"
        gone == [ev EXCEPT !.evict = FALSE]
        x  == FlushEvicts(k, ev)
        w  == FlushEvicts(Holding(k, gone, inMSHR), ev)
        e  == x.entry[a]
    IN  \/ /\ st = "I" /\ ok
           /\ PutDir(issueFlush(Holding(k, ev, inMSHR), a), Flush(ch, k, ev))
        \/ /\ st \in {"S", "M"} /\ ok
           /\ (IF st = "S" THEN e.sharers = {} ELSE e.owner = Nobody)
           /\ PutDir(issueFlush(Enter(w, a, "I_B"), a), Flush(ch, x, gone))
        \/ /\ st = "S" /\ ok /\ e.sharers # {}
           /\ PutDir(issueInvalidations(Enter(w, a, "S_Inv"), ev), Invalidations(ch, x, ev))
        \/ /\ st = "M" /\ ok /\ e.owner # Nobody
           /\ PutDir(issueFetch(Enter(w, a, "M_Inv"), a), Fetch(ch, x, a, "FetchInv"))
        \/ /\ st \in {"S_D", "S_B"} /\ ev.evict
           /\ DirStall(IF e.sharers = {} THEN Enter(x, a, [S_D |-> "IS", S_B |-> "I"][st]) ELSE x,
                       ch, gone, inMSHR)
        \/ /\ st \in {"M_Inv", "M_InvX", "S_Inv", "SM_Inv"} /\ ev.evict
           /\ PutDir(IF LastAck(k, a) /\ st # "SM_Inv" THEN RetryEvent(Acked(w, a), a)
                     ELSE Acked(w, a),
                     sendNACK(k, ch, gone, inMSHR))
        \/ /\ \/ st \in DirStable /\ ~ok
              \/ st \notin DirStable /\ (~ev.evict \/ st \in {"IS", "IM", "I_B"})
           /\ DirStall(k, ch, ev, inMSHR)

-----------------------------------------------------------------------------
(* Evictions by the caches; each is acknowledged.                          *)
AckPut(ch, ev) == Send(ch, Up(ev.src), Event("AckPut", ev.addr, "below", ev.id))

PutSHandled == {"S", "S_B", "S_D", "S_Inv", "SM_Inv"}
PutMHandled == {"M", "M_Inv", "M_InvX"}

(* updateCache erases an entry that is I again.                            *)
updateCache(k, a) == IF k.entry[a].st = "I" THEN [k EXCEPT !.entry[a] = NewEntry] ELSE k

handlePutS(k, ch, ev) ==
    LET a  == ev.addr
        x  == Without(k, a, ev.src)
        st == k.entry[a].st
        y  == IF st \in {"S_Inv", "SM_Inv"}       THEN Acked(x, a)
              ELSE IF x.entry[a].sharers = {}     THEN Enter(x, a, IF st = "S_D" THEN "IS" ELSE "I")
              ELSE x
        z  == cleanUpAfterRequest(y, a, FALSE)
    IN  /\ st \in PutSHandled
        /\ PutDir(IF st = "S" THEN updateCache(z, a) ELSE z, AckPut(ch, ev))

handlePutM(k, ch, ev) ==
    LET a  == ev.addr
        x  == Enter(Disowned(k, a), a, "I")
        up == AckPut(ch, ev)
    IN  \/ /\ k.entry[a].st = "M"
           /\ PutDir(updateCache(cleanUpAfterRequest(x, a, FALSE), a),
                     IF ev.cmd = "PutE" THEN up
                     ELSE Send(up, ToMem, WithData(Event("PutM", a, "below", 0), ev.data, ev.dirty)))
        \/ /\ k.entry[a].st \in {"M_Inv", "M_InvX"}
           /\ PutDir(cleanUpAfterRequest(
                        [Buffer(x, ev) EXCEPT !.mshr = decrementAcksNeeded(@, a)], a, FALSE), up)

-----------------------------------------------------------------------------
(* Answers of memory and of the caches.                                    *)
handleGetXResp(k, ch, ev) ==
    LET a   == ev.addr
        req == getFrontEvent(k.mshr, a)
    IN  \/ /\ k.entry[a].st \in {"IS", "IM"}
           /\ PutDir(cleanUpAfterResponse(Owned(k, a, req.src), a), Reply(ch, req, "GetXResp", ev.data))
        \/ /\ k.entry[a].st = "S_D"
           /\ PutDir(cleanUpAfterResponse(Buffer(Shared(k, a, req.src), ev), a),
                     Reply(ch, req, "GetSResp", ev.data))
        \/ /\ k.entry[a].st = "SM_Inv"
           /\ PutDir(Buffer(Enter(k, a, "S_Inv"), ev), ch)

handleFlushLineResp(k, ch, ev) ==
    LET a == ev.addr IN
    /\ k.entry[a].st \in {"I", "I_B", "S_B"}
    /\ PutDir(cleanUpAfterResponse(
                 Unbuffer(Enter(k, a, IF k.entry[a].st = "S_B" THEN "S" ELSE "I"), a), a),
              Reply(ch, getFrontEvent(k.mshr, a), "FlushLineResp", NoData))

handleAckInv(k, ch, ev) ==
    LET a == ev.addr
        x == IF ev.src \in k.entry[a].sharers THEN Without(k, a, ev.src) ELSE Disowned(k, a)
    IN  /\ k.entry[a].st \in {"M_Inv", "S_Inv", "SM_Inv"}
        /\ PutDir(IF LastAck(k, a) /\ k.entry[a].st # "SM_Inv"
                  THEN RetryEvent(Acked(x, a), a) ELSE Acked(x, a), ch)

handleFetchXResp(k, ch, ev) ==
    LET a == ev.addr IN
    /\ k.entry[a].st = "M_InvX"
    /\ PutDir(RetryEvent([Downgraded(Enter(k, a, "S"), ev) EXCEPT
                             !.mshr = decrementAcksNeeded(@, a)], a), ch)

handleFetchResp(k, ch, ev) ==
    LET a == ev.addr
        x == [Buffer(Enter(k, a, "I"), ev) EXCEPT !.mshr = decrementAcksNeeded(@, a)]
    IN  /\ k.entry[a].st \in {"S_Inv", "M_Inv"}
        /\ PutDir(RetryEvent(Written(x, a), a), writebackDataFromMSHR(ch, x, a))

-----------------------------------------------------------------------------
(* One cycle: retries first, then new events, one access to a line.        *)
DirRequest(k, ch, ev, inMSHR) ==
    \/ ev.cmd = "GetS" /\ handleGetS(k, ch, ev, inMSHR)
    \/ ev.cmd = "GetX" /\ handleGetX(k, ch, ev, inMSHR)
    \/ ev.cmd = "FlushLine" /\ handleFlushLine(k, ch, ev, inMSHR)
    \/ ev.cmd = "FlushLineInv" /\ handleFlushLineInv(k, ch, ev, inMSHR)

DirRetry ==
    \E k \in Cycles(dir) :
       /\ Ready(k) # {}
       /\ DirRequest(TakeRetry(k), chan, k.retry[FirstReady(k)], TRUE)

DirReceive(l, a) ==
    /\ chan[l][a] # <<>>
    /\ \E k0 \in Cycles(dir) :
       /\ CanAccess(k0, a)
       /\ LET ev == Head(chan[l][a])  ch == Deliver(l, a)  k == Access(k0, a) IN
          \/ DirRequest(k, ch, ev, FALSE)
          \/ ev.cmd = "PutS" /\ handlePutS(k, ch, ev)
          \/ ev.cmd \in {"PutE", "PutM"} /\ handlePutM(k, ch, ev)
          \/ ev.cmd = "GetXResp" /\ handleGetXResp(k, ch, ev)
          \/ ev.cmd = "FlushLineResp" /\ handleFlushLineResp(k, ch, ev)
          \/ ev.cmd = "AckInv" /\ handleAckInv(k, ch, ev)
          \/ ev.cmd = "FetchXResp" /\ handleFetchXResp(k, ch, ev)
          \/ ev.cmd = "FetchResp" /\ handleFetchResp(k, ch, ev)
=============================================================================
