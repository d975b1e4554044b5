------------------------------- MODULE Hierarchy -------------------------------
(***************************************************************************)
(* Cores with MESI L1 caches above one shared inclusive L2 and memory: the *)
(* composition of MESIL1, MESIInclusive and MemController.                 *)
(***************************************************************************)
EXTENDS MESIL1, MESIInclusive, MemController

(* The L2 sends no writeback acks.                                         *)
ASSUME AckAssumption == recvWritebackAck = FALSE

vars == <<l1, l2, mem, chan, cpu, latest, resv, staleSC>>

Init == L1Init /\ L2Init /\ MemInit /\ LinkInit

L1Step(c) == \/ L1Retry(c)
             \/ \E a \in Addrs : L1Receive(c, a)
L2Step    == \/ L2Retry
             \/ \E c \in Cores, a \in Addrs : L2Receive(c, a)
             \/ \E a \in Addrs : L2ReceiveMem(a)

CoreIssue   == \E c \in Cores : L1Issue(c) /\ UNCHANGED <<l2, mem>>
L1Process   == \E c \in Cores : L1Step(c) /\ UNCHANGED <<l2, mem>>
L2Process   == L2Step /\ UNCHANGED <<l1vars, mem>>
MemProcess  == \E a \in Addrs : MemReceive(a) /\ UNCHANGED <<l1vars, l2>>

Idle(k) == k.retry = <<>> /\ k.rBuf = <<>>

(* Every request is answered and every message consumed.                   *)
Quiet == /\ \A l \in Links, a \in Addrs : chan[l][a] = <<>>
         /\ \A c \in Cores : Idle(l1[c])
         /\ Idle(l2)
Finished == Quiet /\ \A c \in Cores : cpu[c].pend = {} /\ cpu[c].next > MaxOps
Stop == Finished /\ UNCHANGED vars

Next == CoreIssue \/ L1Process \/ L2Process \/ MemProcess \/ Stop

(* A component with an event to process has its clock on and handles one   *)
(* event in every cycle, retries first (WF).  New events wait in arrival   *)
(* order in eventBuffer_: one that keeps finding the buffer served is      *)
(* served itself (SF).                                                     *)
Fairness ==
    /\ \A c \in Cores : WF_vars(L1Retry(c) /\ UNCHANGED <<l2, mem>>)
    /\ \A c \in Cores, a \in Addrs : SF_vars(L1Receive(c, a) /\ UNCHANGED <<l2, mem>>)
    /\ WF_vars(L2Retry /\ UNCHANGED <<l1vars, mem>>)
    /\ \A c \in Cores, a \in Addrs : SF_vars(L2Receive(c, a) /\ UNCHANGED <<l1vars, mem>>)
    /\ \A a \in Addrs : SF_vars(L2ReceiveMem(a) /\ UNCHANGED <<l1vars, mem>>)
    /\ \A a \in Addrs : WF_vars(MemReceive(a) /\ UNCHANGED <<l1vars, l2>>)

Spec == Init /\ [][Next]_vars /\ Fairness

-----------------------------------------------------------------------------
(* State an L1 may be in for a line, and what may be in an MSHR.           *)
L1States == {NoLine, "I", "S", "E", "M", "IS", "IM", "SM", "S_B", "I_B"}
L2States == {NoLine, "I", "S", "E", "M", "IS", "IM", "S_B", "I_B"} \cup DOMAIN Base
Values   == 0 .. Cardinality(Cores) * MaxOps

(* Every variable has the shape its type in the code gives it. *)
TypeOK ==
    /\ \A c \in Cores, a \in Addrs :
          /\ l1[c].line[a].st \in L1States
          /\ l1[c].line[a].data \in Values \cup {NoData}
          /\ l1[c].line[a].atomic \in BOOLEAN
    /\ \A a \in Addrs :
          /\ l2.line[a].st \in L2States
          /\ l2.line[a].data \in Values \cup {NoData}
          /\ l2.line[a].sharers \subseteq Cores
          /\ l2.line[a].owner \in Cores \cup {NoOwner}
          /\ l2.resp[a] \subseteq Cores
          /\ mem[a] \in Values /\ latest[a] \in Values
    /\ \A c \in Cores : cpu[c].next \in 1 .. MaxOps + 1 /\ cpu[c].pend \subseteq 1 .. MaxOps
    /\ staleSC \in BOOLEAN

(* Inclusion, and the L2's knowledge of it: whatever an L1 can hit on is   *)
(* present in the L2, which has the L1 as owner or sharer of the line.     *)
Inclusion == \A c \in Cores, a \in Addrs :
    /\ l1[c].line[a].st \in {"E", "M"} => l2.line[a].owner = c
    /\ l1[c].line[a].st \in {"S", "SM"} => c \in l2.line[a].sharers \cup {l2.line[a].owner}

(* No controller meets an event in a state its handler has no case for     *)
(* (the fatal defaults of MESI_L1.cc and MESI_Inclusive.cc).               *)
L1Handles(c, ev) ==
    LET st == l1[c].line[ev.addr].st IN
    CASE ev.cmd \in DOMAIN L1SnoopResponse -> st \in L1SnoopHandled(ev.cmd)
      [] ev.cmd = "NACK"                   -> TRUE
      [] OTHER                             -> /\ st \in L1ResponseHandled(ev.cmd)
                                              /\ frontIsEvent(l1[c].mshr, ev.addr)
L2Handles(ev) ==
    LET st == l2.line[ev.addr].st IN
    CASE ev.cmd \in {"PutS", "PutE", "PutM"}    -> st \in L2PutHandled(ev.cmd)
      [] ev.cmd = "AckInv"                      -> /\ st \in {"S_Inv", "E_Inv", "M_Inv"}
                                                   /\ ev.src \in l2.resp[ev.addr]
      [] ev.cmd \in {"FetchResp", "FetchXResp"} -> /\ st \in DOMAIN Base
                                                   /\ ev.src \in l2.resp[ev.addr]
      [] ev.cmd \in {"FlushLine", "FlushLineInv"} -> ev.evict => st # NoLine
      [] OTHER                                  -> TRUE
Heads(l) == {Head(chan[l][a]) : a \in {x \in Addrs : chan[l][x] # <<>>}}
MayAccess(k, a) == \E k1 \in Cycles(k) : CanAccess(k1, a)
NoUnhandledEvent ==
    /\ \A c \in Cores : \A ev \in Heads(Up(c)) : MayAccess(l1[c], ev.addr) => L1Handles(c, ev)
    /\ \A c \in Cores : \A ev \in Heads(Down(c)) : MayAccess(l2, ev.addr) => L2Handles(ev)

(* The MSHR's counters tell the truth: size_ is the number of waiting      *)
(* events and never exceeds the capacity left to requests from above;      *)
(* acksNeeded is the number of L1s the L2 remembers having snooped.        *)
SizeOK(m, max) ==
    /\ m.size = Cardinality({x \in Addrs \X (1 .. max) : x[2] \in EventsOf(m, x[1])})
    /\ m.size < max
MSHRAccounting ==
    /\ \A c \in Cores : SizeOK(l1[c].mshr, L1MSHR)
    /\ SizeOK(l2.mshr, L2MSHR)
    /\ \A a \in Addrs : getAcksNeeded(l2.mshr, a) = Cardinality(l2.resp[a])

(* A retry buffer never holds an event that was already completed and      *)
(* deleted, and the pending-retry counter of a register counts its         *)
(* retries; a NULLCMD finds its pointer and the event it works for.        *)
Retries(k) == k.retry \o k.rBuf
RetryOK(k) ==
    /\ \A i \in DOMAIN Retries(k) :
          LET ev == Retries(k)[i] IN
          IF ev.cmd = "NULLCMD"
          THEN /\ frontIsEvent(k.mshr, ev.new)
               /\ exists(k.mshr, ev.addr) /\ getFrontType(k.mshr, ev.addr) = "Evict"
               /\ \E j \in DOMAIN getEvictPointers(k.mshr, ev.addr) :
                     getEvictPointers(k.mshr, ev.addr)[j] = ev.new
          ELSE \E j \in EventsOf(k.mshr, ev.addr) : k.mshr.reg[ev.addr].entries[j].ev = ev
    /\ \A a \in Addrs : getPendingRetries(k.mshr, a) =
          Cardinality({i \in DOMAIN Retries(k) : Retries(k)[i].cmd # "NULLCMD"
                                                /\ Retries(k)[i].addr = a})
NoDanglingRetry == RetryOK(l2) /\ \A c \in Cores : RetryOK(l1[c])

(* When nothing is in flight and no request waits, every MSHR is empty and *)
(* the L2's owner and sharers are exactly the L1s that hold the line.      *)
QuietIsClean ==
    Quiet /\ (\A c \in Cores : cpu[c].pend = {}) =>
      /\ l2.mshr = EmptyMSHR /\ \A c \in Cores : l1[c].mshr = EmptyMSHR
      /\ \A a \in Addrs :
            Holders(l2.line[a]) = {c \in Cores : l1[c].line[a].st \in Stable}

(* A store-conditional succeeds only if no other write to the address was  *)
(* performed since the core's load-link.                                   *)
SCAtomic == ~staleSC

(* Every request a core has outstanding is answered.                       *)
AllAnswered == \A c \in Cores : cpu[c].pend # {} ~> cpu[c].pend = {}
=============================================================================
