-------------------------------- MODULE MESIL1 --------------------------------
(***************************************************************************)
(* The MESI L1 cache controller (MESI_L1.cc) behind a core.                *)
(*                                                                         *)
(* l1[c] is one controller: its cache lines (state, data, LL reservation), *)
(* its MSHR and its retry buffer.  The configuration is an L1 above a      *)
(* cache or a directory that tracks block presence:                        *)
(* lastLevel_ = silentEvictClean_ = false, protocol MESI,                  *)
(* llsc_block_cycles = 0 (the default), no prefetcher; a core does not use *)
(* read locks (GetSX).                                                     *)
(*                                                                         *)
(* A request of the core that the MSHR rejects stays in the event buffer,  *)
(* where later events pass it; that is the core not having issued it yet.  *)
(***************************************************************************)
EXTENDS MemLink

CONSTANTS L1Lines,      \* lines of an L1
          L1MSHR,       \* mshr_num_entries of an L1
          recvWritebackAck, \* recvWritebackAck_: a directory is below
          MaxOps,       \* requests a core issues in all
          Ops           \* the requests the cores use, <<kind, address>>

ASSUME OpsAssumption ==
    Ops \subseteq {"GetS", "Write", "LL", "SC", "FlushLine", "FlushLineInv"} \X Addrs

VARIABLES l1,           \* the L1 controllers
          cpu,          \* per core: next request id, ids not answered yet
          latest,       \* per address: number of the last write performed
          resv,         \* per core and address: latest when it last did an LL
          staleSC       \* an SC succeeded though its reservation was stale

l1vars  == <<l1, cpu, latest, resv, staleSC>>
ghosts  == <<latest, resv, staleSC>>

Stable  == {"S", "E", "M"}
NoLine1 == [st |-> NoLine, data |-> NoData, atomic |-> FALSE]

L1Init ==
    /\ l1 = [c \in Cores |-> [line  |-> [a \in Addrs |-> NoLine1],
                              mshr  |-> EmptyMSHR,
                              retry |-> <<>>, rBuf |-> <<>>, done |-> {}]]
    /\ cpu = [c \in Cores |-> [next |-> 1, pend |-> {}]]
    /\ latest = [a \in Addrs |-> 0]
    /\ resv = [c \in Cores |-> [a \in Addrs |-> 0]]
    /\ staleSC = FALSE

(* The request of a core; GetS with atomic is a load-link, Write with      *)
(* atomic a store-conditional.                                             *)
Request(op, a, c, id) ==
    CASE op = "LL" -> [Event("GetS", a, c, id) EXCEPT !.atomic = TRUE]
      [] op = "SC" -> [Event("Write", a, c, id) EXCEPT !.atomic = TRUE]
      [] OTHER     -> Event(op, a, c, id)

(* Mutation: a request that was retried advances the core again.           *)
AnswerTwice(c, id, inMSHR) ==
    cpu' = [cpu EXCEPT ![c] = [next |-> @.next + 1, pend |-> @.pend \ {id}]]

(* The core's side of a request that is answered, or that has to wait.     *)
Answer(c, id, inMSHR) ==
    cpu' = [cpu EXCEPT ![c] = [next |-> IF inMSHR THEN @.next ELSE @.next + 1,
                               pend |-> @.pend \ {id}]]
Wait(c, id, inMSHR) ==
    cpu' = [cpu EXCEPT ![c] = [next |-> IF inMSHR THEN @.next ELSE @.next + 1,
                               pend |-> @.pend \cup {id}]]

Put1(c, k) == l1' = [l1 EXCEPT ![c] = Rest(k)]

(***************************************************************************)
(* Eviction (handleEviction, sendWriteback).                               *)
(***************************************************************************)
L1Evictable(k, v) ==
    \/ v = NoLine
    \/ k.line[v].st = "I"
    \/ k.line[v].st \in Stable /\ getPendingRetries(k.mshr, v) = 0

PutOf == [S |-> "PutS", E |-> "PutE", M |-> "PutM"]

L1Writeback(ch, c, k, v) ==
    IF v = NoLine \/ k.line[v].st = "I" THEN ch
    ELSE LET put == Event(PutOf[k.line[v].st], v, c, 0) IN
         Send(ch, Down(c), IF k.line[v].st = "M"
                           THEN WithData(put, k.line[v].data, TRUE) ELSE put)

(* Above a directory, the line may not be asked for before its AckPut.     *)
L1Remove(k, v) ==
    IF v = NoLine THEN k
    ELSE [k EXCEPT !.line[v] = NoLine1,
                   !.mshr = IF recvWritebackAck /\ k.line[v].st # "I"
                            THEN insertWriteback(@, v) ELSE @]

(***************************************************************************)
(* Requests of the core.                                                   *)
(***************************************************************************)
(* allocateMSHR for an event that is not in the MSHR yet.                  *)
L1Allocate(k, ev, inMSHR) ==
    IF inMSHR THEN k ELSE [k EXCEPT !.mshr = insertEvent(@, ev.addr, ev)]
L1Accepts(k, inMSHR) == inMSHR \/ ~isFull(k.mshr, L1MSHR, FALSE)

L1Stall(c, k, ev, inMSHR) ==
    /\ L1Accepts(k, inMSHR)
    /\ Put1(c, L1Allocate(k, ev, inMSHR))
    /\ Wait(c, ev.id, inMSHR)
    /\ UNCHANGED <<chan, ghosts>>

(* The request goes down once it is first in line and has a cache line.    *)
L1Forward(c, k, ch, ev, cmd, st) ==
    /\ Put1(c, [k EXCEPT !.line[ev.addr].st = st,
                         !.mshr = setInProgress(@, ev.addr)])
    /\ chan' = Send(ch, Down(c), Event(cmd, ev.addr, c, ev.id))

(* processCacheMiss, allocateLine and the forwarding that follows.         *)
L1Miss(c, k0, ev, inMSHR, cmd, st) ==
    LET k == L1Allocate(k0, ev, inMSHR)
        a == ev.addr
    IN  /\ L1Accepts(k0, inMSHR)
        /\ Wait(c, ev.id, inMSHR)
        /\ UNCHANGED ghosts
        /\ \/ /\ ~frontIs(k, ev)
              /\ Put1(c, k) /\ UNCHANGED chan
           \/ /\ frontIs(k, ev) /\ k.line[a].st # NoLine
              /\ L1Forward(c, k, chan, ev, cmd, st)
           \/ /\ frontIs(k, ev) /\ k.line[a].st = NoLine
              /\ \E v \in Victims(k, L1Lines) :
                    IF L1Evictable(k, v)
                    THEN L1Forward(c, L1Remove(k, v), L1Writeback(chan, c, k, v), ev, cmd, st)
                    ELSE /\ Put1(c, [k EXCEPT !.mshr = insertEviction(@, v, a)])
                         /\ UNCHANGED chan

(* Performing a load or a store on a line that allows it.                  *)
Load(c, ev) ==
    /\ resv' = IF ev.atomic THEN [resv EXCEPT ![c][ev.addr] = latest[ev.addr]] ELSE resv
    /\ UNCHANGED <<latest, staleSC>>
LoadLine(l, ev) == [l EXCEPT !.atomic = @ \/ ev.atomic]

Succeeds(l, ev) == ~ev.atomic \/ l.atomic
Store(c, l, ev) ==
    IF Succeeds(l, ev)
    THEN /\ latest' = [latest EXCEPT ![ev.addr] = @ + 1]
         /\ staleSC' = (staleSC \/ (ev.atomic /\ resv[c][ev.addr] # latest[ev.addr]))
         /\ UNCHANGED resv
    ELSE UNCHANGED ghosts
StoreLine(l, ev) ==
    [st     |-> "M",
     data   |-> IF Succeeds(l, ev) THEN latest[ev.addr] + 1 ELSE l.data,
     atomic |-> IF Succeeds(l, ev) THEN FALSE ELSE l.atomic]

L1GetS(c, k, ev, inMSHR) ==
    LET a == ev.addr IN
    \/ /\ k.line[a].st \in Stable
       /\ Put1(c, cleanUpAfterRequest([k EXCEPT !.line[a] = LoadLine(@, ev)], a, inMSHR))
       /\ Answer(c, ev.id, inMSHR)
       /\ Load(c, ev)
       /\ UNCHANGED chan
    \/ /\ k.line[a].st \in {NoLine, "I"}
       /\ L1Miss(c, k, ev, inMSHR, "GetS", "IS")
    \/ /\ k.line[a].st \notin Stable \cup {NoLine, "I"}
       /\ L1Stall(c, k, ev, inMSHR)

L1Write(c, k, ev, inMSHR) ==
    LET a == ev.addr IN
    \/ /\ k.line[a].st \in {"E", "M"}
       /\ Put1(c, cleanUpAfterRequest([k EXCEPT !.line[a] = StoreLine(@, ev)], a, inMSHR))
       /\ Answer(c, ev.id, inMSHR)
       /\ Store(c, k.line[a], ev)
       /\ UNCHANGED chan
    \/ /\ k.line[a].st \in {NoLine, "I"}
       /\ L1Miss(c, k, ev, inMSHR, "GetX", "IM")
    \/ /\ k.line[a].st = "S"
       /\ L1Miss(c, k, ev, inMSHR, "GetX", "SM")
    \/ /\ k.line[a].st \notin Stable \cup {NoLine, "I"}
       /\ L1Stall(c, k, ev, inMSHR)

(* FlushLine keeps the line in S, FlushLineInv gives it up; what the line  *)
(* holds travels with the flush as an eviction.                            *)
L1Flush(c, k, ev, inMSHR) ==
    LET a    == ev.addr
        st   == k.line[a].st
        gone == IF ev.cmd = "FlushLine" THEN st \in {"E", "M"} ELSE st \notin {NoLine, "I"}
        down == IF gone THEN [WithData(ev, k.line[a].data, st = "M") EXCEPT !.evict = TRUE]
                ELSE ev
    IN  IF \/ ~inMSHR /\ exists(k.mshr, a)
           \/ inMSHR /\ ev.cmd = "FlushLineInv" /\ ~frontIs(k, ev)
        THEN L1Stall(c, k, ev, inMSHR)
        ELSE /\ L1Accepts(k, inMSHR)
             /\ Put1(c, [L1Allocate(k, ev, inMSHR) EXCEPT
                            !.mshr = setInProgress(@, a),
                            !.line[a].st = IF st \in {NoLine, "I"} THEN @
                                           ELSE IF ev.cmd = "FlushLine" THEN "S_B" ELSE "I_B"])
             /\ chan' = Send(chan, Down(c), down)
             /\ Wait(c, ev.id, inMSHR)
             /\ UNCHANGED ghosts

L1HandleRequest(c, k, ev, inMSHR) ==
    \/ ev.cmd = "GetS"  /\ L1GetS(c, k, ev, inMSHR)
    \/ ev.cmd = "Write" /\ L1Write(c, k, ev, inMSHR)
    \/ ev.cmd \in {"FlushLine", "FlushLineInv"} /\ L1Flush(c, k, ev, inMSHR)

(***************************************************************************)
(* Snoops from the cache below (handleInv, handleFetchInv, handleFetchInvX)*)
(***************************************************************************)
(* Mutation: the race of an Inv or FetchInv with a flush is forgotten.     *)
L1SnoopHandledNoRace(cmd) ==
    {NoLine, "I", "IS", "IM"} \cup
    CASE cmd = "Inv"       -> {"S", "SM"}
      [] cmd = "FetchInv"  -> {"S", "E", "M", "SM"}
      [] cmd = "FetchInvX" -> {"E", "M"}

(* The states in which a snoop has a case; any other is a fatal error.     *)
L1SnoopHandled(cmd) ==
    {NoLine, "I", "IS", "IM", "I_B", "S_B"} \cup
    CASE cmd = "Inv"       -> {"S", "SM"}
      [] cmd = "FetchInv"  -> {"S", "E", "M", "SM"}
      [] cmd = "FetchInvX" -> {"E", "M"}

(* A snoop that raced with an eviction or a flush is ignored.              *)
L1SnoopAnswered(cmd) ==
    IF cmd = "FetchInvX" THEN {"E", "M"} ELSE {"S", "E", "M", "S_B", "SM"}

L1SnoopResponse == [Inv |-> "AckInv", FetchInv |-> "FetchResp", FetchInvX |-> "FetchXResp"]

(* Only an upgrade (SM) goes on, as a miss.                                *)
L1AfterSnoop(cmd, st) ==
    IF st = "SM" THEN "IM" ELSE IF cmd = "FetchInvX" THEN "S" ELSE "I"

(* Mutation: a snooped line keeps its LL reservation.                      *)
SnoopedLineReserved(l, cmd) == [l EXCEPT !.st = L1AfterSnoop(cmd, @)]

SnoopedLine(l, cmd) == [l EXCEPT !.st = L1AfterSnoop(cmd, @), !.atomic = FALSE]

L1Snoop(c, k, ev, ch) ==
    LET a    == ev.addr
        l    == k.line[a]
        resp == Event(L1SnoopResponse[ev.cmd], a, c, 0)
    IN  /\ IF l.st \in L1SnoopAnswered(ev.cmd)
           THEN /\ Put1(c, [k EXCEPT !.line[a] = SnoopedLine(l, ev.cmd)])
                /\ chan' = Send(ch, Down(c),
                                IF ev.cmd = "Inv" THEN resp
                                ELSE WithData(resp, l.data, l.st = "M"))
           ELSE /\ Put1(c, IF l.st = "I_B" /\ ev.cmd # "FetchInvX"
                           THEN [k EXCEPT !.line[a].st = "I"] ELSE k)
                /\ chan' = ch
        /\ UNCHANGED <<cpu, ghosts>>

(***************************************************************************)
(* Responses from below: they answer the event at the front of the MSHR.   *)
(***************************************************************************)
L1ResponseHandled(cmd) ==
    CASE cmd = "GetSResp"      -> {"IS"}
      [] cmd = "GetXResp"      -> {"IS", "IM", "SM"}
      [] cmd = "FlushLineResp" -> {NoLine, "I", "I_B", "S_B"}

L1DataResp(c, k, ev, ch) ==
    LET a   == ev.addr
        req == getFrontEvent(k.mshr, a)
        l   == IF k.line[a].st = "SM" THEN k.line[a] ELSE [k.line[a] EXCEPT !.data = ev.data]
        st  == IF ev.cmd = "GetSResp" THEN "S" ELSE IF ev.dirty THEN "M" ELSE "E"
    IN  /\ IF ev.cmd = "GetSResp" \/ k.line[a].st = "IS"
           THEN /\ Put1(c, cleanUpAfterResponse(
                              [k EXCEPT !.line[a] = [LoadLine(l, req) EXCEPT !.st = st]], a))
                /\ Load(c, req)
           ELSE /\ Put1(c, cleanUpAfterResponse([k EXCEPT !.line[a] = StoreLine(l, req)], a))
                /\ Store(c, l, req)
        /\ Answer(c, req.id, TRUE)
        /\ chan' = ch

(* Mutation: a line that was flushed and kept is dropped.                  *)
L1FlushRespDrops(c, k, ev, ch) ==
    /\ Put1(c, cleanUpAfterResponse([k EXCEPT !.line[ev.addr].st =
                                       IF @ \in {"I_B", "S_B"} THEN "I" ELSE @], ev.addr))
    /\ Answer(c, getFrontEvent(k.mshr, ev.addr).id, TRUE)
    /\ chan' = ch
    /\ UNCHANGED ghosts

L1FlushResp(c, k, ev, ch) ==
    LET a  == ev.addr
        k1 == CASE k.line[a].st = "I_B" -> [k EXCEPT !.line[a].st = "I", !.line[a].atomic = FALSE]
                [] k.line[a].st = "S_B" -> [k EXCEPT !.line[a].st = "S"]
                [] OTHER                -> k
    IN  /\ Put1(c, cleanUpAfterResponse(k1, a))
        /\ Answer(c, getFrontEvent(k.mshr, a).id, TRUE)
        /\ chan' = ch
        /\ UNCHANGED ghosts

L1AckPut(c, k, ev, ch) ==
    /\ Put1(c, cleanUpAfterResponse(k, ev.addr))
    /\ chan' = ch
    /\ UNCHANGED <<cpu, ghosts>>

(* An L1 resends every NACKed event.                                       *)
L1NACK(c, k, ev, ch) ==
    /\ Put1(c, k)
    /\ chan' = Send(ch, Down(c), ev.nacked)
    /\ UNCHANGED <<cpu, ghosts>>

(* An eviction is tried again, on the line it waited for or, if that line  *)
(* has left the cache, on another one.                                     *)
L1NULLCMD(c, k, ev) ==
    /\ \E v \in IF k.line[ev.addr].st # NoLine THEN {ev.addr} ELSE Victims(k, L1Lines) :
          IF L1Evictable(k, v)
          THEN /\ Put1(c, DropPointer(RetryEvent(L1Remove(k, v), ev.new), ev.addr, ev.new))
               /\ chan' = L1Writeback(chan, c, k, v)
          ELSE /\ Put1(c, IF v = ev.addr THEN k
                          ELSE DropPointer([k EXCEPT !.mshr = insertEviction(@, v, ev.new)],
                                           ev.addr, ev.new))
               /\ UNCHANGED chan
    /\ UNCHANGED <<cpu, ghosts>>

(***************************************************************************)
(* One cycle of an L1.                                                     *)
(***************************************************************************)
L1Issue(c) ==
    /\ cpu[c].next <= MaxOps
    /\ \E op \in Ops, k \in Cycles(l1[c]) :
          /\ CanAccess(k, op[2])
          /\ L1HandleRequest(c, Access(k, op[2]), Request(op[1], op[2], c, cpu[c].next), FALSE)

L1Retry(c) ==
    \E k \in Cycles(l1[c]) :
       /\ Ready(k) # {}
       /\ LET ev == k.retry[FirstReady(k)] IN
          \/ ev.cmd = "NULLCMD" /\ L1NULLCMD(c, TakeRetry(k), ev)
          \/ ev.cmd # "NULLCMD" /\ L1HandleRequest(c, TakeRetry(k), ev, TRUE)

L1Receive(c, a) ==
    /\ chan[Up(c)][a] # <<>>
    /\ \E k0 \in Cycles(l1[c]) :
       /\ CanAccess(k0, a)
       /\ LET ev == Head(chan[Up(c)][a])  ch == Deliver(Up(c), a)  k == Access(k0, a) IN
          \/ ev.cmd \in DOMAIN L1SnoopResponse /\ L1Snoop(c, k, ev, ch)
          \/ ev.cmd \in {"GetSResp", "GetXResp"} /\ L1DataResp(c, k, ev, ch)
          \/ ev.cmd = "FlushLineResp" /\ L1FlushResp(c, k, ev, ch)
          \/ ev.cmd = "AckPut" /\ L1AckPut(c, k, ev, ch)
          \/ ev.cmd = "NACK" /\ L1NACK(c, k, ev, ch)

-----------------------------------------------------------------------------
(* Single writer, multiple readers: while one L1 may write a line (E, M),  *)
(* no other L1 can read it (MESI_L1.cc hits on S, E and M).                *)
SWMR == \A c, d \in Cores, a \in Addrs :
    c # d /\ l1[c].line[a].st \in {"E", "M"} => l1[d].line[a].st \notin Stable

(* A line that hits holds the value of the last write to the address, by   *)
(* whichever core, through every race of snoops, evictions and flushes.    *)
DataValue == \A c \in Cores, a \in Addrs :
    l1[c].line[a].st \in Stable => l1[c].line[a].data = latest[a]
=============================================================================
