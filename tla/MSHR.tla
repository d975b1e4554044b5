-------------------------------- MODULE MSHR --------------------------------
(***************************************************************************)
(* The miss status holding registers of a memHierarchy cache (mshr.cc).    *)
(*                                                                         *)
(* An MSHR maps a line address to a register: a list of entries, the       *)
(* number of invalidation / fetch acknowledgements still missing, and the  *)
(* number of retries of the address that sit in the retry buffer.  Entries *)
(* are events that wait for the line, or Evict pointers: addresses that    *)
(* wait for this line to leave the cache, or a Writeback, which waits for  *)
(* its ack.  size counts the event entries of all registers and is what    *)
(* the capacity check looks at.  The data buffer of a register is kept by  *)
(* Directory, its only user here; profiling flags are left out.            *)
(***************************************************************************)
EXTENDS Integers, Sequences, FiniteSets

CONSTANT Addrs          \* line addresses

(* An address that has no register: mshr_.find(addr) == mshr_.end().       *)
NoReg == [entries |-> <<>>, acks |-> 0, retries |-> 0]

EmptyMSHR == [reg |-> [a \in Addrs |-> NoReg], size |-> 0]

EventEntry(ev) == [type |-> "Event", ev |-> ev, inProgress |-> FALSE]
EvictEntry(a)  == [type |-> "Evict", ptrs |-> <<a>>]
WritebackEntry == [type |-> "Writeback"]

exists(m, a)         == m.reg[a] # NoReg
getFrontType(m, a)   == Head(m.reg[a].entries).type
getFrontEvent(m, a)  == Head(m.reg[a].entries).ev
pendingWriteback(m, a) == exists(m, a) /\ getFrontType(m, a) = "Writeback"
getAcksNeeded(m, a)  == m.reg[a].acks
getPendingRetries(m, a) == m.reg[a].retries
frontIsEvent(m, a)   == exists(m, a) /\ getFrontType(m, a) = "Event"
getInProgress(m, a)  == frontIsEvent(m, a) /\ Head(m.reg[a].entries).inProgress

(* Mutation: the reserved slots are counted twice, and a small MSHR has    *)
(* none left.                                                              *)
isFullTooEarly(m, max, fwdRequest) ==
    m.size = max \/ (~fwdRequest /\ m.size >= max - 2)

(* size_ == maxSize_ refuses everybody; one slot is kept for requests that *)
(* are forwarded from below (fwdRequest).                                  *)
isFull(m, max, fwdRequest) ==
    m.size = max \/ (~fwdRequest /\ m.size = max - 1)

(* insertEvent at the end of the list (pos = -1).                          *)
insertEvent(m, a, ev) ==
    [m EXCEPT !.size = @ + 1,
              !.reg[a].entries = Append(@, EventEntry(ev))]

(* The position insertEvent returns is 0 exactly when nothing waited.      *)
firstInLine(m, a) == m.reg[a].entries = <<>>

(* A register whose last entry goes is erased, with its counters.          *)
popEntry(r) == IF Len(r.entries) = 1 THEN NoReg
               ELSE [r EXCEPT !.entries = Tail(@)]

removeFront(m, a) ==
    [m EXCEPT !.size = IF getFrontType(m, a) = "Event" THEN @ - 1 ELSE @,
              !.reg[a] = popEntry(@)]

(* A pointer joins the Evict entry at the back of the list if there is one.*)
insertEviction(m, old, new) ==
    LET es == m.reg[old].entries IN
    [m EXCEPT !.reg[old].entries =
        IF es # <<>> /\ es[Len(es)].type = "Evict"
        THEN [es EXCEPT ![Len(es)].ptrs = Append(@, new)]
        ELSE Append(es, EvictEntry(new))]

(* A Writeback goes before everything that waits for the line.             *)
insertWriteback(m, a) == [m EXCEPT !.reg[a].entries = <<WritebackEntry>> \o @]

(* The Evict entry is in front, or behind the Writeback just inserted.     *)
evictIndex(m, a) == IF pendingWriteback(m, a) THEN 2 ELSE 1
getEvictPointers(m, a) == m.reg[a].entries[evictIndex(m, a)].ptrs

(* list::remove: every pointer to the address goes.                        *)
listRemove(ps, p) ==
    LET kept[i \in 0 .. Len(ps)] == IF i = 0 THEN <<>>
                                    ELSE IF ps[i] = p THEN kept[i - 1]
                                    ELSE Append(kept[i - 1], ps[i])
    IN  kept[Len(ps)]
pointersWithout(m, old, new) == listRemove(getEvictPointers(m, old), new)

(* removeEvictPointer answers whether the next in line should be retried:  *)
(* the Evict entry is gone, and no Writeback is before it.                 *)
lastPointer(m, old, new) ==
    ~pendingWriteback(m, old) /\ pointersWithout(m, old, new) = <<>>

removeEvictPointer(m, old, new) ==
    IF pointersWithout(m, old, new) # <<>>
    THEN [m EXCEPT !.reg[old].entries[evictIndex(m, old)].ptrs = pointersWithout(m, old, new)]
    ELSE IF pendingWriteback(m, old)
    THEN [m EXCEPT !.reg[old].entries = <<Head(@)>> \o SubSeq(@, 3, Len(@))]
    ELSE removeFront(m, old)

setInProgress(m, a)      == [m EXCEPT !.reg[a].entries[1].inProgress = TRUE]
addPendingRetry(m, a)    == [m EXCEPT !.reg[a].retries = @ + 1]
removePendingRetry(m, a) == [m EXCEPT !.reg[a].retries = @ - 1]
addAcksNeeded(m, a, n)   == [m EXCEPT !.reg[a].acks = @ + n]
decrementAcksNeeded(m, a) == [m EXCEPT !.reg[a].acks = @ - 1]

(* The event entries of a register, for the accounting invariants.         *)
EventsOf(m, a) == {i \in DOMAIN m.reg[a].entries : m.reg[a].entries[i].type = "Event"}
=============================================================================
