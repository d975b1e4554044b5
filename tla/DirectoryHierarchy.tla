-------------------------- MODULE DirectoryHierarchy --------------------------
(***************************************************************************)
(* Cores with MESI L1 caches above a directory and memory: the composition *)
(* of MESIL1, in the mode that waits for writeback acks, Directory and     *)
(* MemController.                                                          *)
(***************************************************************************)
EXTENDS MESIL1, Directory, MemController

vars == <<l1, dir, mem, chan, cpu, latest, resv, staleSC>>

Init == L1Init /\ DirInit /\ MemInit /\ LinkInit

CoreIssue  == \E c \in Cores : L1Issue(c) /\ UNCHANGED <<dir, mem>>
L1Process  == \E c \in Cores : /\ L1Retry(c) \/ \E a \in Addrs : L1Receive(c, a)
                               /\ UNCHANGED <<dir, mem>>
DirProcess == /\ \/ DirRetry
                 \/ \E l \in {Down(c) : c \in Cores} \cup {FromMem}, a \in Addrs : DirReceive(l, a)
              /\ UNCHANGED <<l1vars, mem>>
MemProcess == \E a \in Addrs : MemReceive(a) /\ UNCHANGED <<l1vars, dir>>

Next == CoreIssue \/ L1Process \/ DirProcess \/ MemProcess

Spec == Init /\ [][Next]_vars

-----------------------------------------------------------------------------
(* The directory knows who can hit on a line: whoever may write it is its  *)
(* owner, whoever may read it a sharer or the owner.                       *)
DirectoryKnows == \A c \in Cores, a \in Addrs :
    /\ l1[c].line[a].st \in {"E", "M"} => dir.entry[a].owner = c
    /\ l1[c].line[a].st \in {"S", "SM"} =>
          c \in dir.entry[a].sharers \cup {dir.entry[a].owner}

(* No event meets the directory in a state its handler has no case for     *)
(* (the fatal defaults of directoryController.cc), or an ack that nobody   *)
(* waits for (the fatal error of decrementAcksNeeded).                     *)
Waiting(a) == getAcksNeeded(dir.mshr, a) > 0
DirHandles(ev) ==
    LET st == dir.entry[ev.addr].st IN
    CASE ev.cmd = "PutS"                -> /\ st \in PutSHandled
                                           /\ st \in {"S_Inv", "SM_Inv"} => Waiting(ev.addr)
      [] ev.cmd \in {"PutE", "PutM"}    -> /\ st \in PutMHandled
                                           /\ st # "M" => Waiting(ev.addr)
      [] ev.cmd = "AckInv"              -> st \in {"M_Inv", "S_Inv", "SM_Inv"} /\ Waiting(ev.addr)
      [] ev.cmd = "FetchXResp"          -> st = "M_InvX" /\ Waiting(ev.addr)
      [] ev.cmd = "FetchResp"           -> st \in {"S_Inv", "M_Inv"} /\ Waiting(ev.addr)
      [] ev.cmd = "GetXResp"            -> st \in {"IS", "IM", "S_D", "SM_Inv"}
      [] ev.cmd = "FlushLineResp"       -> st \in {"I", "I_B", "S_B"}
      [] OTHER                          -> TRUE
DirInputs == {Head(chan[l][a]) : <<l, a>> \in
    {x \in ({Down(c) : c \in Cores} \cup {FromMem}) \X Addrs : chan[x[1]][x[2]] # <<>>}}
NoUnhandledEvent == \A ev \in DirInputs :
    (\E k \in Cycles(dir) : CanAccess(k, ev.addr)) => DirHandles(ev)

(* A request to be retried is first in line for its address, and is in the *)
(* retry buffer once: its handler removes whatever is first and deletes it.*)
RetryIsFront ==
    LET r == dir.retry \o dir.rBuf IN
    \A i \in DOMAIN r :
       /\ frontIsEvent(dir.mshr, r[i].addr) /\ getFrontEvent(dir.mshr, r[i].addr) = r[i]
       /\ \A j \in DOMAIN r : r[j].addr = r[i].addr => j = i

(* When nothing is in flight and nothing is to be retried, nobody waits.   *)
Quiet == /\ \A l \in Links, a \in Addrs : chan[l][a] = <<>>
         /\ dir.retry = <<>> /\ dir.rBuf = <<>>
         /\ \A c \in Cores : l1[c].retry = <<>> /\ l1[c].rBuf = <<>>
NoStuckRequest == Quiet => \A c \in Cores : cpu[c].pend = {}
=============================================================================
