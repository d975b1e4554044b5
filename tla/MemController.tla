----------------------------- MODULE MemController -----------------------------
(***************************************************************************)
(* The memory controller (memoryController.cc) below the last-level cache. *)
(*                                                                         *)
(* The backend is taken to keep the order of requests to one address, so   *)
(* receiving a request and completing it (handleMemResponse) are one step. *)
(***************************************************************************)
EXTENDS MemLink

VARIABLE mem            \* the backing store

MemInit == mem = [a \in Addrs |-> 0]

(* handleEvent and handleMemResponse: reads are answered with GetXResp, a  *)
(* flush first writes the payload it carries, PutS and PutE are dropped.   *)
MemReceive(a) ==
    /\ chan[ToMem][a] # <<>>
    /\ LET ev == Head(chan[ToMem][a])  ch == Deliver(ToMem, a)
           flush == ev.cmd \in {"FlushLine", "FlushLineInv"}
           resp == Event(IF flush THEN "FlushLineResp" ELSE "GetXResp", a, "mem", ev.id)
       IN  /\ mem' = IF ev.cmd = "PutM" \/ (flush /\ ev.data # NoData)
                     THEN [mem EXCEPT ![a] = ev.data] ELSE mem
           /\ chan' = CASE ev.cmd \in {"PutS", "PutE", "PutM"} -> ch
                        [] flush -> Send(ch, FromMem, resp)
                        [] OTHER -> Send(ch, FromMem, WithData(resp, mem[a], FALSE))
=============================================================================
