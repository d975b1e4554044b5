----------------------------- MODULE HierarchyProofs -----------------------------
(***************************************************************************)
(* Every step of the L2 and of memory keeps the inductive invariant, and   *)
(* what follows from it: one writer, inclusion, retries that find their    *)
(* events, and no event without a case in its handler.                     *)
(***************************************************************************)
EXTENDS HierarchyL1Proofs

-----------------------------------------------------------------------------
(***************************************************************************)
(* The L2: its line, its MSHR and what it waits for from memory.           *)
(***************************************************************************)

(* A request the L2's MSHR holds. *)
EvOK2(ev, a) == ev.addr = a /\ ev.src \in Cores /\ ev.cmd \in ReqCmds /\ (ev.cmd \in FlushCmds => ev.evict = FALSE)
(* One per L1. *)
Events2(E, a) ==
    /\ \A i \in Ix(E) : E[i].type = "Event" => EvOK2(E[i].ev, a)
    /\ \A i, j \in Ix(E) : E[i].type = "Event" /\ E[j].type = "Event" /\ E[i].ev.src = E[j].ev.src => i = j
(* The states of an L2 line. *)
LineStates == {NoLine, "I", "S", "E", "M", "IS", "IM", "S_B", "I_B", "S_Inv", "E_Inv", "M_Inv", "E_InvX", "M_InvX"}
(* Owner, sharers and the L1s waited for fit the state. *)
LineOK(l, R) ==
    /\ l.st \in LineStates
    /\ l.owner # NoOwner => l.sharers = {}
    /\ ~Acking(l.st) => R = {}
    /\ l.st \in {"E_InvX", "M_InvX"} /\ R # {} => l.owner # NoOwner
    /\ Acking(l.st) /\ l.owner # NoOwner => R = {l.owner}
    /\ l.st \in {"S", "S_Inv", "S_B"} => l.owner = NoOwner
    /\ l.st \in {NoLine, "I", "IS", "IM", "I_B"} => l.owner = NoOwner /\ l.sharers = {}
(* The fields of a line. *)
Fields(l) == {"st", "data", "sharers", "owner"} \subseteq DOMAIN l
(* The acks that are missing are those of the L1s that are waited for. *)
Line2(l, R, n) ==
    /\ Fields(l)
    /\ R \subseteq Cores /\ l.sharers \subseteq Cores /\ l.owner \in Cores \cup {NoOwner}
    /\ n = Cardinality(R) /\ LineOK(l, R)
(* The message m to or from memory fits a line in st and the request e. *)
MemFits(m, st, e) ==
    /\ m.cmd \in {"GetS", "GetX", "GetXResp"} => st = (IF e.cmd = "GetS" THEN "IS" ELSE "IM") /\ e.cmd \in {"GetS", "GetX"}
    /\ m.cmd \in {"FlushLine", "FlushLineInv", "FlushLineResp"} => st \in {"S_B", "I_B", "I", NoLine} /\ e.cmd \in FlushCmds
    /\ m.cmd \in ReqCmds \cup {"GetXResp", "FlushLineResp"}
(* It belongs to the request in progress. *)
Awaited(m, K, a) == Prog(K, a) /\ ~Pend(Retries(K), a) /\ MemFits(m, K.line[a].st, Ent(K, a)[1].ev)
(* At most one request is at memory, or its response on the way back. *)
Mem2(t, f, K, a) ==
    /\ \A i, j \in Ix(t) : t[i].cmd \in ReqCmds /\ t[j].cmd \in ReqCmds => i = j
    /\ \A i, j \in Ix(f) : i = j
    /\ \A i \in Ix(t), j \in Ix(f) : t[i].cmd \notin ReqCmds
    /\ \A i \in Ix(t) : t[i].cmd \in ReqCmds => Awaited(t[i], K, a)
    /\ \A i \in Ix(f) : Awaited(f[i], K, a)
(* None is. *)
NoToken(t, f) == (\A i \in Ix(t) : t[i].cmd \notin ReqCmds) /\ \A i \in Ix(f) : FALSE
(* A request in progress that is retried finds its line. *)
Live(K, a, st) == Prog(K, a) /\ Pend(Retries(K), a) => st \in Valid
(* The invariant of the L2 on one line. *)
GoodAt(L, K, ch, a) ==
    /\ Line2(K.line[a], K.resp[a], Acks(K, a)) /\ Events2(Ent(K, a), a)
    /\ Mem2(ch[ToMem][a], ch[FromMem][a], K, a) /\ Live(K, a, K.line[a].st)
    /\ \A c \in Cores : PairOf(c, a, L[c], ch, K)
(* The same for all lines. *)
Body2(L, K, ch) == /\ "resp" \in DOMAIN K /\ DOMAIN K.resp = Addrs /\ Mail(ch)
                   /\ \A a \in Addrs : GoodAt(L, K, ch, a)
(* The invariant of the L2, of the L1s L, the L2 K and the links ch. *)
Good2(L, K, ch) == KK(K) /\ Body2(L, K, ch)

(* Nothing at memory is fine. *)
LEMMA MemNone == ASSUME NEW t, NEW f, NoToken(t, f), NEW K, NEW a PROVE Mem2(t, f, K, a)
BY DEF NoToken, Mem2

(* A line in a stable state has nothing at memory. *)
LEMMA NoneMem ==
    ASSUME NEW t, NEW f, NEW K, NEW a, Mem2(t, f, K, a),
           ~Prog(K, a) \/ Pend(Retries(K), a) \/ K.line[a].st \notin {"IS", "IM", "S_B", "I_B", "I", NoLine}
    PROVE  NoToken(t, f)
<1>1. ASSUME NEW m, Awaited(m, K, a) PROVE FALSE
  BY <1>1 DEF Awaited, MemFits, ReqCmds
<1>2. QED BY <1>1 DEF NoToken, Mem2

(* What is in progress depends on the events only. *)
LEMMA EvsBusy ==
    ASSUME NEW k, EntryOK(En(k)), NEW k2, NEW a \in Addrs, Evs(Ent(k, a), Ent(k2, a))
    PROVE  /\ Prog(k2, a) <=> Prog(k, a)
           /\ Prog(k, a) => Ent(k2, a)[1] = Ent(k, a)[1]
<1>0. En(k)[a] = Ent(k, a) /\ En(k2)[a] = Ent(k2, a)
  BY EnIs
<1>1. CASE SameEvents(Ent(k, a), Ent(k2, a))
  BY <1>0, <1>1 DEF SameEvents, Prog, FrontEv
<1>2. CASE Cut(Ent(k, a), Ent(k2, a)) /\ Ent(k, a)[1].type # "Event"
  <2>1. ~Prog(k, a)
    BY <1>0, <1>2 DEF Prog, FrontEv
  <2>2. ~Prog(k2, a)
    <3> SUFFICES ASSUME 1 \in Ix(Ent(k2, a)), Ent(k2, a)[1].type = "Event" PROVE ~Ent(k2, a)[1].inProgress
      BY <1>0 DEF Prog, FrontEv
    <3>1. Ent(k2, a)[1] = Ent(k, a)[2] /\ 2 \in Ix(Ent(k, a))
      BY <1>2, CutIs
    <3>2. EntryAt(Ent(k, a)[2], a, 2)
      BY <1>0, <3>1 DEF EntryOK
    <3>3. QED BY <3>1, <3>2 DEF EntryAt
  <2>3. QED BY <2>1, <2>2
<1>3. QED BY <1>1, <1>2 DEF Evs

(* Every event of a register is kept, at some place. *)
LEMMA EvsPlaces ==
    ASSUME NEW x, NEW y, Evs(x, y)
    PROVE  /\ \A i \in Ix(y) : y[i].type = "Event" => \E j \in Ix(x) : x[j] = y[i]
           /\ \A i \in Ix(x) : x[i].type = "Event" => \E j \in Ix(y) : y[j] = x[i]
<1>1. CASE SameEvents(x, y)
  BY <1>1 DEF SameEvents
<1>2. CASE Cut(x, y) /\ x[1].type # "Event"
  BY <1>2, CutIs
<1>3. QED BY <1>1, <1>2 DEF Evs

(* The events as before. *)
LEMMA EvsEvents2 ==
    ASSUME NEW x, NEW y, Evs(x, y), NEW a, Events2(x, a) PROVE Events2(y, a)
<1>1. CASE SameEvents(x, y)
  BY <1>1 DEF SameEvents, Events2
<1>2. CASE Cut(x, y) /\ x[1].type # "Event"
  BY <1>2, CutIs DEF Events2
<1>3. QED BY <1>1, <1>2 DEF Evs

(* The held requests as before. *)
LEMMA EvsHC ==
    ASSUME NEW K, NEW K2, NEW a, Evs(Ent(K, a), Ent(K2, a)), NEW c PROVE HC(c, K2, a) = HC(c, K, a)
BY EvsPlaces DEF HC

(* What is at a is not disturbed. *)
LEMMA GoodKeep ==
    ASSUME NEW L, NEW K, NEW ch, NEW a \in Addrs, GoodAt(L, K, ch, a), EntryOK(En(K)),
           NEW K2, K2.line[a] = K.line[a], K2.resp[a] = K.resp[a],
           Acks(K2, a) = Acks(K, a) \/ (Acks(K2, a) = 0 /\ K.resp[a] = {}),
           Evs(Ent(K, a), Ent(K2, a)), Pend(Retries(K2), a) => Pend(Retries(K), a) \/ ~Prog(K2, a),
           NEW ch2, \A x \in Links : ch2[x][a] = ch[x][a]
    PROVE  GoodAt(L, K2, ch2, a)
<1>1. Line2(K2.line[a], K2.resp[a], Acks(K2, a))
  <2>1. K.resp[a] = {} => Cardinality(K.resp[a]) = 0
    BY FS_EmptySet
  <2>2. QED BY <2>1 DEF GoodAt, Line2
<1>2. Events2(Ent(K2, a), a)
  BY EvsEvents2 DEF GoodAt
<1>3. Mem2(ch2[ToMem][a], ch2[FromMem][a], K2, a)
  <2>1. ch2[ToMem][a] = ch[ToMem][a] /\ ch2[FromMem][a] = ch[FromMem][a]
    BY MemLinks
  <2>2. ASSUME NEW m, Awaited(m, K, a) PROVE Awaited(m, K2, a)
    BY <2>2, EvsBusy DEF Awaited
  <2>3. QED BY <2>1, <2>2 DEF GoodAt, Mem2
<1>4. ASSUME NEW c \in Cores PROVE PairOf(c, a, L[c], ch2, K2)
  <2>1. ch2[Up(c)][a] = ch[Up(c)][a] /\ ch2[Down(c)][a] = ch[Down(c)][a]
    BY LinkIs
  <2>2. HC(c, K2, a) = HC(c, K, a)
    BY EvsHC
  <2>3. PairOf(c, a, L[c], ch, K)
    BY DEF GoodAt
  <2>4. QED BY <2>1, <2>2, <2>3 DEF PairOf
<1>6. Live(K2, a, K2.line[a].st)
  BY EvsBusy DEF GoodAt, Live
<1>5. QED BY <1>1, <1>2, <1>3, <1>4, <1>6 DEF GoodAt

(* All addresses but a are left alone. *)
Still2(K, ch, a, K2, ch2) ==
    \A b \in Addrs : b # a => /\ K2.line[b] = K.line[b] /\ K2.resp[b] = K.resp[b] /\ Acks(K2, b) = Acks(K, b)
                              /\ Evs(Ent(K, b), Ent(K2, b)) /\ (Pend(Retries(K2), b) => Pend(Retries(K), b) \/ ~Prog(K2, b))
                              /\ \A x \in Links : ch2[x][b] = ch[x][b]

(* One line has changed. *)
LEMMA B2At ==
    ASSUME NEW L, NEW K, NEW ch, Body2(L, K, ch), EntryOK(En(K)), NEW a, NEW K2, NEW ch2, Still2(K, ch, a, K2, ch2), Mail(ch2),
           "resp" \in DOMAIN K2, DOMAIN K2.resp = Addrs, a \in Addrs => GoodAt(L, K2, ch2, a)
    PROVE  Body2(L, K2, ch2)
<1>1. ASSUME NEW b \in Addrs, b # a PROVE GoodAt(L, K2, ch2, b)
  <2>1. GoodAt(L, K, ch, b)
    BY DEF Body2
  <2>2. /\ K2.line[b] = K.line[b] /\ K2.resp[b] = K.resp[b] /\ Acks(K2, b) = Acks(K, b)
        /\ Evs(Ent(K, b), Ent(K2, b)) /\ (Pend(Retries(K2), b) => Pend(Retries(K), b) \/ ~Prog(K2, b))
        /\ \A x \in Links : ch2[x][b] = ch[x][b]
    BY <1>1 DEF Still2
  <2>3. QED BY <2>1, <2>2, GoodKeep
<1>2. QED BY <1>1 DEF Body2

(* Parts of the controller's invariant. *)
LEMMA KKEntry == ASSUME NEW K, KK(K) PROVE EntryOK(En(K)) /\ Ctl(K)
BY DEF KK, KI

(* Parts of it. *)
LEMMA ButEntry == ASSUME NEW K, NEW v, KKBut(K, v) PROVE EntryOK(En(K)) /\ Ctl(K)
BY DEF KKBut, KI

(* Evict entries and retries move on. *)
LEMMA B2Evs ==
    ASSUME NEW L, NEW K, NEW ch, Body2(L, K, ch), EntryOK(En(K)), NEW K2, Frame(K, K2),
           \A b \in Addrs : Evs(Ent(K, b), Ent(K2, b)), NEW a, AcksOr0(K, a, K2), a \in Addrs => K.resp[a] = {},
           \A b \in Addrs : Pend(Retries(K2), b) => Pend(Retries(K), b) \/ ~Prog(K2, b)
    PROVE  Body2(L, K2, ch)
<1>1. K2.line = K.line /\ K2.resp = K.resp /\ "resp" \in DOMAIN K2
  BY DEF Frame, Body2
<1>2. ASSUME NEW b \in Addrs PROVE GoodAt(L, K2, ch, b)
  <2>1. GoodAt(L, K, ch, b)
    BY DEF Body2
  <2>2. Acks(K2, b) = Acks(K, b) \/ (Acks(K2, b) = 0 /\ K.resp[b] = {})
    BY DEF AcksOr0
  <2>3. QED BY <1>1, <2>1, <2>2, GoodKeep
<1>3. QED BY <1>1, <1>2 DEF Body2

(* An L2 whose retries have changed. *)
LEMMA G2Alike ==
    ASSUME NEW L, NEW K, NEW ch, Good2(L, K, ch), NEW K2, KK(K2), Alike(K, K2),
           \A b \in Addrs : Pend(Retries(K2), b) => Pend(Retries(K), b) \/ ~Prog(K2, b)
    PROVE  Good2(L, K2, ch)
<1>1. K2.line = K.line /\ K2.resp = K.resp /\ "resp" \in DOMAIN K2 /\ KK(K) /\ EntryOK(En(K)) /\ Body2(L, K, ch)
  BY KKEntry DEF Alike, Good2, Body2
<1>2. ASSUME NEW b \in Addrs PROVE GoodAt(L, K2, ch, b)
  <2>1. GoodAt(L, K, ch, b)
    BY <1>1 DEF Body2
  <2>2. Acks(K2, b) = Acks(K, b) /\ Evs(Ent(K, b), Ent(K2, b))
    BY <1>1, AlikeEvs DEF Alike
  <2>3. QED BY <1>1, <2>1, <2>2, GoodKeep
<1>3. Body2(L, K2, ch)
  BY <1>1, <1>2 DEF Body2
<1>4. QED BY <1>3 DEF Good2

(* The end of a step. *)
LEMMA G2Rest ==
    ASSUME NEW L, NEW K, NEW ch, Good2(L, K, ch) PROVE Good2(L, Rest(K), ch)
<1>0. PICK K2 : K2 = Rest(K)
  OBVIOUS
<1>1. KK(K2) /\ Alike(K, K2) /\ Retries(K2) = Retries(K)
  BY <1>0, KKRest DEF Good2
<1>2. Good2(L, K2, ch)
  BY <1>1, G2Alike
<1>3. QED BY <1>0, <1>2

(* A line on which no L1 is asked for anything. *)
LEMMA PairQuiet ==
    ASSUME NEW c, NEW s, NEW b, NEW u, NEW d, NEW l, NEW ln, NEW h, Pair(c, s, b, u, d, l, {}, h),
           InView(c, l) => InView(c, ln), l.owner = c <=> ln.owner = c, ~Acking(ln.st)
    PROVE  Pair(c, s, b, u, d, ln, {}, h)
<1>1. \A cmd \in SnoopOrAck : Asked(c, cmd, l.st, {}) => Asked(c, cmd, ln.st, {})
  BY NotAsked
<1>2. Answers(c, ln, {}, h)
  BY DEF Answers
<1>3. QED BY <1>1, <1>2, PairOther

(* A message that is no request may have gone to memory. *)
Posted(ch, a, ch2) ==
    /\ Mail(ch2) /\ \A x \in Links, b \in Addrs : x # ToMem \/ b # a => ch2[x][b] = ch[x][b]
    /\ \/ ch2[ToMem][a] = ch[ToMem][a]
       \/ \E m : m.cmd \notin ReqCmds /\ Ext(ch[ToMem][a], m, ch2[ToMem][a])

(* A put is sent to memory. *)
LEMMA MemPosted ==
    ASSUME NEW t, NEW f, NEW K, NEW a, Mem2(t, f, K, a), NEW t2, t2 = t \/ \E m : m.cmd \notin ReqCmds /\ Ext(t, m, t2),
           NEW K2, \A m : Awaited(m, K, a) => Awaited(m, K2, a)
    PROVE  Mem2(t2, f, K2, a)
<1>1. CASE t2 = t
  BY <1>1 DEF Mem2
<1>2. CASE \E m : m.cmd \notin ReqCmds /\ Ext(t, m, t2)
  <2>1. PICK m : m.cmd \notin ReqCmds /\ Ext(t, m, t2)
    BY <1>2
  <2>2. \A i \in Ix(t2) : t2[i].cmd \in ReqCmds => i \in Ix(t) /\ t2[i] = t[i]
    BY <2>1, ExtIs
  <2>3. QED BY <2>2 DEF Mem2
<1>3. QED BY <1>1, <1>2

(* A put is no request. *)
LEMMA NonePosted ==
    ASSUME NEW t, NEW f, NoToken(t, f), NEW t2, t2 = t \/ \E m : m.cmd \notin ReqCmds /\ Ext(t, m, t2)
    PROVE  NoToken(t2, f)
<1>1. CASE t2 = t
  BY <1>1
<1>2. CASE \E m : m.cmd \notin ReqCmds /\ Ext(t, m, t2)
  BY <1>2, ExtIs DEF NoToken
<1>3. QED BY <1>1, <1>2

(* A line changes, but not for any L1. *)
LEMMA G2Line ==
    ASSUME NEW L, NEW K, NEW ch, Good2(L, K, ch), NEW a \in Addrs, ~Acking(K.line[a].st) \/ K.resp[a] = {}, NEW ln, ~Acking(ln.st),
           Line2(ln, {}, 0), \A c \in Cores : (InView(c, K.line[a]) => InView(c, ln)) /\ (K.line[a].owner = c <=> ln.owner = c),
           NEW K2, SetLine(K, a, ln, K2), ln.st # NoLine /\ a \in No(K) => a \in K.done /\ ~Pointed(En(K), a),
           NoToken(ch[ToMem][a], ch[FromMem][a]) \/ \A m : Awaited(m, K, a) => MemFits(m, ln.st, Ent(K, a)[1].ev),
           Live(K, a, ln.st), NEW ch2, Posted(ch, a, ch2)
    PROVE  /\ Good2(L, K2, ch2) /\ K2.mshr = K.mshr /\ K2.retry = K.retry /\ K2.rBuf = K.rBuf /\ K2.done = K.done
           /\ En(K2) = En(K) /\ Retries(K2) = Retries(K) /\ K2.resp = K.resp
           /\ K2.line[a] = ln /\ \A b \in Addrs : Ent(K2, b) = Ent(K, b) /\ (b # a => K2.line[b] = K.line[b])
<1>0. KK(K) /\ Body2(L, K, ch) /\ EntryOK(En(K)) /\ Ctl(K) /\ GoodAt(L, K, ch, a) /\ "st" \in DOMAIN ln
  BY KKEntry DEF Good2, Body2, Line2, Fields
<1>1. /\ KK(K2) /\ DOMAIN K2 = DOMAIN K /\ K2.mshr = K.mshr /\ K2.retry = K.retry /\ K2.rBuf = K.rBuf /\ K2.done = K.done
      /\ K2.line[a] = ln /\ (\A b \in Addrs : b # a => K2.line[b] = K.line[b]) /\ ("resp" \in DOMAIN K => K2.resp = K.resp)
      /\ En(K2) = En(K) /\ Retries(K2) = Retries(K) /\ \A b \in Addrs : Ent(K2, b) = Ent(K, b)
  BY <1>0, KKSet
<1>2. K2.resp = K.resp /\ K.resp[a] = {} /\ Acks(K, a) = 0
  <2>1. K.resp[a] = {} /\ Acks(K, a) = Cardinality(K.resp[a])
    BY <1>0 DEF GoodAt, Line2, LineOK
  <2>2. QED BY <1>0, <1>1, <2>1, FS_EmptySet DEF Body2
<1>3. \A b \in Addrs : Acks(K2, b) = Acks(K, b) /\ Evs(Ent(K, b), Ent(K2, b)) /\ (Prog(K2, b) <=> Prog(K, b))
  <2>1. \A b \in Addrs : Ent(K2, b) = Ent(K, b) /\ IsSeq(Ent(K, b))
    BY <1>0, <1>1, EntLen
  <2>2. QED BY <1>1, <2>1, EvsSelf, ProgIs DEF Acks
<1>4. GoodAt(L, K2, ch2, a)
  <2>1. Line2(K2.line[a], K2.resp[a], Acks(K2, a)) /\ Events2(Ent(K2, a), a)
    BY <1>0, <1>1, <1>2, <1>3 DEF GoodAt
  <2>2. Mem2(ch2[ToMem][a], ch2[FromMem][a], K2, a)
    <3>1. ch2[FromMem][a] = ch[FromMem][a]
      BY MemLinks DEF Posted
    <3>2. CASE \A m : Awaited(m, K, a) => MemFits(m, ln.st, Ent(K, a)[1].ev)
      <4>1. \A m : Awaited(m, K, a) => Awaited(m, K2, a)
        BY <1>1, <1>3, <3>2 DEF Awaited
      <4>2. Mem2(ch[ToMem][a], ch[FromMem][a], K, a)
        BY <1>0 DEF GoodAt
      <4>3. QED BY <3>1, <4>1, <4>2, MemPosted DEF Posted
    <3>3. CASE NoToken(ch[ToMem][a], ch[FromMem][a])
      <4>1. NoToken(ch2[ToMem][a], ch2[FromMem][a])
        BY <3>1, <3>3, NonePosted DEF Posted
      <4>2. QED BY <4>1, MemNone
    <3>4. QED BY <3>2, <3>3
  <2>3. ASSUME NEW c \in Cores PROVE PairOf(c, a, L[c], ch2, K2)
    <3>1. ch2[Up(c)][a] = ch[Up(c)][a] /\ ch2[Down(c)][a] = ch[Down(c)][a]
      BY LinkIs DEF Posted
    <3>2. HC(c, K2, a) = HC(c, K, a)
      BY <1>3, EvsHC
    <3>3. PairOf(c, a, L[c], ch, K)
      BY <1>0 DEF GoodAt
    <3>4. QED BY <1>1, <1>2, <3>1, <3>2, <3>3, PairQuiet DEF PairOf
  <2>5. Live(K2, a, K2.line[a].st)
    BY <1>1, <1>3 DEF Live
  <2>4. QED BY <2>1, <2>2, <2>3, <2>5 DEF GoodAt
<1>5. Still2(K, ch, a, K2, ch2)
  BY <1>1, <1>2, <1>3 DEF Still2, Posted
<1>6. Body2(L, K2, ch2)
  BY <1>0, <1>1, <1>2, <1>4, <1>5, B2At DEF Body2, Posted
<1>7. QED BY <1>1, <1>2, <1>6 DEF Good2

(* What sending to memory does. *)
LEMMA SendMem ==
    ASSUME NEW ch, Mail(ch), NEW a \in Addrs, NEW m, m.addr = a, m.cmd \in ReqCmds \cup PutCmds, NEW ch2, ch2 = Send(ch, ToMem, m)
    PROVE  Mail(ch2) /\ Ext(ch[ToMem][a], m, ch2[ToMem][a]) /\ Others(ch, ToMem, a, ch2)
<1>1. MsgOK(m, ToMem, a)
  BY LinkIs, MemLinks DEF MsgOK
<1>2. QED BY <1>1, MemLinks, SendIs

(* Nothing sent. *)
LEMMA PostedSelf == ASSUME NEW ch, Mail(ch), NEW a PROVE Posted(ch, a, ch)
BY DEF Posted

(* No L1 is known to hold the line. *)
LEMMA Unheld ==
    ASSUME NEW l, NEW R, NEW n, Line2(l, R, n), ~Acking(l.st), l.st = "I" \/ Holders(l) = {}
    PROVE  l.owner = NoOwner /\ l.sharers = {} /\ R = {} /\ \A c \in Cores : ~InView(c, l) /\ l.owner # c
<1>1. l.owner = NoOwner /\ l.sharers = {}
  BY DEF Line2, LineOK, Holders
<1>2. QED BY <1>1, OwnerAssumption DEF Line2, LineOK, InView

(* A line leaves the L2. *)
LEMMA G2Evict ==
    ASSUME NEW L, NEW K, NEW ch, Good2(L, K, ch), NEW v, v = NoLine \/ v \in Addrs, L2Evicted(K, v),
           NEW K2, K2 = L2Remove(K, v), NEW ch2, ch2 = L2Writeback(ch, K, v)
    PROVE  /\ Good2(L, K2, ch2) /\ K2.done = K.done /\ Retries(K2) = Retries(K) /\ En(K2) = En(K) /\ K2.resp = K.resp
           /\ \A b \in Addrs : Ent(K2, b) = Ent(K, b) /\ (b # v => K2.line[b] = K.line[b])
           /\ \A x \in Links, b \in Addrs : x # ToMem \/ b # v => ch2[x][b] = ch[x][b]
           /\ v \in Addrs => K.resp[v] = {}
<1>1. CASE v = NoLine
  <2>1. K2 = K /\ ch2 = ch
    BY <1>1 DEF L2Remove, L2Writeback
  <2>2. QED BY <1>1, <2>1, AddrsAssumption DEF Good2
<1>2. CASE v # NoLine
  <2>1. v \in Addrs /\ KK(K) /\ Mail(ch) /\ GoodAt(L, K, ch, v)
    BY <1>2 DEF Good2, Body2
  <2>2. PICK l : l = K.line[v]
    OBVIOUS
  <2>3. l.st = "I" \/ (l.st \in {"S", "E", "M"} /\ Holders(l) = {})
    BY <1>2, <2>2 DEF L2Evicted, Settled, Valid
  <2>4. ~Acking(l.st)
    BY <2>3 DEF Acking
  <2>5. Line2(l, K.resp[v], Acks(K, v))
    BY <2>1, <2>2 DEF GoodAt
  <2>6. K.resp[v] = {} /\ \A c \in Cores : ~InView(c, l) /\ l.owner # c
    BY <2>3, <2>4, <2>5, Unheld
  <2>7. SetLine(K, v, NoLine2, K2)
    BY <1>2 DEF L2Remove, SetLine
  <2>8. Line2(NoLine2, {}, 0) /\ ~Acking(NoLine2.st) /\ NoLine2.st = NoLine
    BY FS_EmptySet DEF Line2, LineOK, LineStates, NoLine2, Fields, Acking, NoLine
  <2>9. \A m : Awaited(m, K, v) => MemFits(m, NoLine2.st, Ent(K, v)[1].ev)
    BY <2>2, <2>3, <2>8 DEF Awaited, MemFits, NoLine, ReqCmds
  <2>10. Posted(ch, v, ch2)
    <3>1. CASE l.st = "I"
      <4>1. ch2 = ch
        BY <1>2, <2>2, <3>1 DEF L2Writeback
      <4>2. QED BY <2>1, <4>1, PostedSelf
    <3>2. CASE l.st # "I"
      <4>1. PICK put, m : /\ put = Event([S |-> "PutS", E |-> "PutE", M |-> "PutM"][l.st], v, "L2", 0)
                          /\ m = IF l.st = "M" THEN WithData(put, l.data, TRUE) ELSE put
        OBVIOUS
      <4>2. ch2 = Send(ch, ToMem, m)
        BY <1>2, <2>2, <3>2, <4>1 DEF L2Writeback
      <4>3. put.addr = v /\ put.cmd \in {"PutS", "PutE", "PutM"}
        BY <2>3, <3>2, <4>1 DEF Event
      <4>4. m.addr = v /\ m.cmd \in {"PutS", "PutE", "PutM"}
        BY <4>1, <4>3 DEF WithData, Event
      <4>5. Mail(ch2) /\ Ext(ch[ToMem][v], m, ch2[ToMem][v]) /\ Others(ch, ToMem, v, ch2)
        BY <2>1, <4>2, <4>4, SendMem DEF PutCmds
      <4>6. m.cmd \notin ReqCmds
        BY <4>4 DEF ReqCmds
      <4>7. QED BY <4>5, <4>6 DEF Posted, Others
    <3>3. QED BY <3>1, <3>2
  <2>12. Live(K, v, NoLine2.st)
    <3>1. CASE l.st = "I"
      BY <2>1, <2>2, <3>1 DEF GoodAt, Live, Valid
    <3>2. CASE Settled(K, v)
      <4>1. ~Pend(Retries(K), v)
        BY <2>1, <3>2 DEF Settled, getPendingRetries, KK, CountOK, Rts
      <4>2. QED BY <4>1 DEF Live
    <3>3. QED BY <1>2, <2>2, <3>1, <3>2 DEF L2Evicted
  <2>13. \A c \in Cores : NoLine2.owner # c
    BY OwnerAssumption DEF NoLine2
  <2>11. QED BY <2>1, <2>2, <2>4, <2>6, <2>7, <2>8, <2>9, <2>10, <2>12, <2>13, G2Line DEF Posted
<1>3. QED BY <1>1, <1>2

(* A request is sent to memory. *)
LEMMA MemStart ==
    ASSUME NEW t, NEW f, NoToken(t, f), NEW m, NEW t2, Ext(t, m, t2), NEW K, NEW a, Awaited(m, K, a) PROVE Mem2(t2, f, K, a)
<1>1. \A i \in Ix(t2) : t2[i].cmd \in ReqCmds => i = Len(t) + 1 /\ t2[i] = m
  BY ExtIs DEF NoToken
<1>2. QED BY <1>1 DEF Mem2, NoToken

(* The front event is in progress. *)
LEMMA StartedEvents ==
    ASSUME NEW K, NEW K2, NEW a, Started(Ent(K, a), Ent(K2, a)), Events2(Ent(K, a), a)
    PROVE  Events2(Ent(K2, a), a) /\ \A c : HC(c, K2, a) = HC(c, K, a)
<1>1. /\ Ix(Ent(K2, a)) = Ix(Ent(K, a))
      /\ \A i \in Ix(Ent(K, a)) : Ent(K2, a)[i].type = Ent(K, a)[i].type /\ Ent(K2, a)[i].ev = Ent(K, a)[i].ev
  BY DEF Started
<1>2. Events2(Ent(K2, a), a)
  BY <1>1 DEF Events2
<1>3. QED BY <1>1, <1>2 DEF HC

(* ev is at the front of a, where nothing is on its way to or from memory. *)
Ready2(K, ch, a, ev) ==
    Handed(K, a) /\ FrontEv(En(K), a) /\ Ent(K, a)[1].ev = ev /\ NoToken(ch[ToMem][a], ch[FromMem][a])

(* A request goes to memory. *)
LEMMA G2Start ==
    ASSUME NEW L, NEW K, NEW ch, Good2(L, K, ch), NEW a \in Addrs, a \in K.done, NEW ev, Ready2(K, ch, a, ev),
           ~Acking(K.line[a].st), NEW ln, ~Acking(ln.st), Line2(ln, {}, 0),
           \A c \in Cores : (InView(c, K.line[a]) => InView(c, ln)) /\ (K.line[a].owner = c <=> ln.owner = c),
           NEW K1, SetLine(K, a, ln, K1), NEW K2, SetProg(K1, a, K2),
           NEW m, m.addr = a, m.cmd \in ReqCmds, MemFits(m, ln.st, ev), NEW ch2, ch2 = Send(ch, ToMem, m)
    PROVE  Good2(L, K2, ch2)
<1>0. /\ Mail(ch) /\ Handed(K, a) /\ ~Pointed(En(K), a) /\ FrontEv(En(K), a) /\ Ent(K, a)[1].ev = ev
      /\ NoToken(ch[ToMem][a], ch[FromMem][a]) /\ ~Pend(Retries(K), a)
  BY DEF Good2, Body2, Ready2, Handed, Hand
<1>1. /\ Good2(L, K1, ch) /\ K1.done = K.done
      /\ En(K1) = En(K) /\ Retries(K1) = Retries(K) /\ K1.resp = K.resp
      /\ K1.line[a] = ln /\ \A b \in Addrs : Ent(K1, b) = Ent(K, b) /\ (b # a => K1.line[b] = K.line[b])
  <2>1. Live(K, a, ln.st) /\ Posted(ch, a, ch)
    BY <1>0, PostedSelf DEF Live
  <2>2. /\ ~Acking(K.line[a].st) \/ K.resp[a] = {}
        /\ ln.st # NoLine /\ a \in No(K) => a \in K.done /\ ~Pointed(En(K), a)
        /\ NoToken(ch[ToMem][a], ch[FromMem][a]) \/ \A x : Awaited(x, K, a) => MemFits(x, ln.st, Ent(K, a)[1].ev)
    BY <1>0
  <2>3. QED BY <2>1, <2>2, G2Line
<1>2. KK(K1) /\ Body2(L, K1, ch) /\ GoodAt(L, K1, ch, a) /\ EntryOK(En(K1)) /\ Ctl(K1)
  BY <1>1, KKEntry DEF Good2, Body2
<1>3. Handed(K1, a) /\ FrontEv(En(K1), a)
  BY <1>0, <1>1 DEF Handed
<1>4. /\ KK(K2) /\ Frame(K1, K2) /\ Retries(K2) = Retries(K1) /\ Regs(K1, a, K2) /\ Acks(K2, a) = Acks(K1, a)
      /\ Started(Ent(K1, a), Ent(K2, a))
  BY <1>2, <1>3, KKSetProg
<1>5. K2.line = K1.line /\ K2.resp = K1.resp /\ "resp" \in DOMAIN K2 /\ DOMAIN K2.resp = Addrs
  BY <1>2, <1>4 DEF Frame, Body2
<1>6. Mail(ch2) /\ Ext(ch[ToMem][a], m, ch2[ToMem][a]) /\ Others(ch, ToMem, a, ch2)
  BY <1>0, SendMem
<1>7. Prog(K2, a) /\ Ent(K2, a)[1].ev = ev
  <2>1. 1 \in Ix(Ent(K1, a)) /\ Ent(K1, a)[1].type = "Event"
    BY <1>3, EnIs DEF FrontEv
  <2>2. QED BY <1>0, <1>1, <1>4, <2>1, EnIs DEF Prog, FrontEv, Started
<1>8. GoodAt(L, K2, ch2, a)
  <2>1. Line2(K2.line[a], K2.resp[a], Acks(K2, a))
    BY <1>2, <1>4, <1>5 DEF GoodAt
  <2>2. Events2(Ent(K2, a), a) /\ \A c : HC(c, K2, a) = HC(c, K1, a)
    BY <1>2, <1>4, StartedEvents DEF GoodAt
  <2>3. Awaited(m, K2, a)
    BY <1>0, <1>1, <1>4, <1>5, <1>7 DEF Awaited
  <2>4. Mem2(ch2[ToMem][a], ch2[FromMem][a], K2, a)
    <3>1. ch2[FromMem][a] = ch[FromMem][a]
      BY <1>6, MemLinks DEF Others
    <3>2. QED BY <1>0, <1>6, <2>3, <3>1, MemStart
  <2>5. ASSUME NEW c \in Cores PROVE PairOf(c, a, L[c], ch2, K2)
    <3>1. ch2[Up(c)][a] = ch[Up(c)][a] /\ ch2[Down(c)][a] = ch[Down(c)][a]
      BY <1>6, LinkIs DEF Others
    <3>2. PairOf(c, a, L[c], ch, K1)
      BY <1>2 DEF GoodAt
    <3>3. QED BY <1>5, <2>2, <3>1, <3>2 DEF PairOf
  <2>7. Live(K2, a, K2.line[a].st)
    BY <1>0, <1>1, <1>4 DEF Live
  <2>6. QED BY <2>1, <2>2, <2>4, <2>5, <2>7 DEF GoodAt
<1>9. Still2(K1, ch, a, K2, ch2)
  <2>1. \A b \in Addrs : b # a => Ent(K2, b) = Ent(K1, b) /\ Acks(K2, b) = Acks(K1, b)
    BY <1>4 DEF Regs, Ent, Acks
  <2>2. \A b \in Addrs : IsSeq(Ent(K1, b))
    BY <1>2, EntLen
  <2>3. \A b \in Addrs : b # a => Evs(Ent(K1, b), Ent(K2, b))
    BY <2>1, <2>2, EvsSelf
  <2>4. QED BY <1>4, <1>5, <1>6, <2>1, <2>3 DEF Still2, Others
<1>10. Body2(L, K2, ch2)
  BY <1>2, <1>5, <1>6, <1>8, <1>9, B2At
<1>11. QED BY <1>4, <1>10 DEF Good2

(* The line in another state. *)
AtState(l, st) == [l EXCEPT !.st = st]
SnoopTo(K, a, T, st, K2) == K2 = [Snoop(K, a, T) EXCEPT !.line[a].st = st]

(* What snooping does to the controller. *)
LEMMA SnoopToIs ==
    ASSUME NEW K, Ctl(K), "resp" \in DOMAIN K, DOMAIN K.resp = Addrs, NEW a \in Addrs, NEW T, NEW st, NEW K2, SnoopTo(K, a, T, st, K2)
    PROVE  /\ Ctl(K2) /\ DOMAIN K2 = DOMAIN K /\ DOMAIN K2.resp = Addrs
           /\ K2.retry = K.retry /\ K2.rBuf = K.rBuf /\ K2.done = K.done
           /\ K2.line[a] = AtState(K.line[a], st) /\ K2.resp[a] = K.resp[a] \cup T
           /\ Acks(K2, a) = Acks(K, a) + Cardinality(T) /\ \A b \in Addrs : Ent(K2, b) = Ent(K, b) /\ Rts(K2, b) = Rts(K, b)
           /\ \A b \in Addrs : b # a => K2.line[b] = K.line[b] /\ K2.resp[b] = K.resp[b] /\ K2.mshr.reg[b] = K.mshr.reg[b]
<1>0. PICK K1 : K1 = Snoop(K, a, T)
  OBVIOUS
<1>1. /\ DOMAIN K1 = DOMAIN K /\ K1.retry = K.retry /\ K1.rBuf = K.rBuf /\ K1.done = K.done /\ K1.line = K.line
      /\ K1.mshr = addAcksNeeded(K.mshr, a, Cardinality(T)) /\ K1.resp = [K.resp EXCEPT ![a] = @ \cup T]
  BY <1>0 DEF Snoop, Ctl
<1>2. K2 = [K1 EXCEPT !.line[a].st = st]
  BY <1>0 DEF SnoopTo
<1>3. /\ DOMAIN K2 = DOMAIN K /\ K2.retry = K.retry /\ K2.rBuf = K.rBuf /\ K2.done = K.done
      /\ K2.mshr = addAcksNeeded(K.mshr, a, Cardinality(T)) /\ K2.resp = [K.resp EXCEPT ![a] = @ \cup T]
      /\ K2.line = [K.line EXCEPT ![a].st = st]
  BY <1>1, <1>2 DEF Ctl
<1>4. /\ DOMAIN K2.line = Addrs /\ K2.line[a] = AtState(K.line[a], st)
      /\ \A b \in Addrs : "st" \in DOMAIN K2.line[b] /\ (b # a => K2.line[b] = K.line[b])
  BY <1>3 DEF Ctl, AtState
<1>5. DOMAIN K2.resp = Addrs /\ K2.resp[a] = K.resp[a] \cup T /\ \A b \in Addrs : b # a => K2.resp[b] = K.resp[b]
  BY <1>3
<1>6. /\ DOMAIN K2.mshr = DOMAIN K.mshr /\ DOMAIN K2.mshr.reg = Addrs
      /\ K2.mshr.reg[a] = [K.mshr.reg[a] EXCEPT !.acks = @ + Cardinality(T)]
      /\ \A b \in Addrs : b # a => K2.mshr.reg[b] = K.mshr.reg[b]
  BY <1>3 DEF addAcksNeeded, Ctl
<1>7. /\ Acks(K2, a) = Acks(K, a) + Cardinality(T) /\ \A b \in Addrs : Ent(K2, b) = Ent(K, b) /\ Rts(K2, b) = Rts(K, b)
      /\ \A b \in Addrs : {"entries", "acks", "retries"} \subseteq DOMAIN K2.mshr.reg[b]
  BY <1>6 DEF Acks, Ent, Ctl, Rts
<1>8. Ctl(K2)
  BY <1>3, <1>4, <1>6, <1>7 DEF Ctl, Ent
<1>9. QED BY <1>3, <1>4, <1>5, <1>6, <1>7, <1>8

(* The L1s in T are snooped with cmd. *)
MaySnoop(K, a, T, cmd, st) ==
    /\ T \in SUBSET Cores /\ cmd \in SnoopCmds /\ K.line[a].st \in {"S", "E", "M"} /\ Acking(st)
    /\ \A c \in T : Asked(c, cmd, st, T) /\ (cmd = "Inv" => K.line[a].owner # c) /\ (cmd = "FetchInvX" => K.line[a].owner = c)
    /\ \A c \in Cores : c \notin T /\ InView(c, K.line[a]) => "GetX" \in HC(c, K, a)
    /\ LineOK(AtState(K.line[a], st), T)

(* The L2 snoops the holders of a line. *)
LEMMA G2Snoop ==
    ASSUME NEW L, NEW K, NEW ch, Good2(L, K, ch), NEW a \in Addrs, NEW T, NEW cmd, NEW st, MaySnoop(K, a, T, cmd, st),
           ~Pend(Retries(K), a), NEW K2, SnoopTo(K, a, T, st, K2), NEW ch2, ch2 = SendSnoops(ch, a, T, cmd)
    PROVE  /\ KKBut(K2, a) /\ Body2(L, K2, ch2) /\ (1 \in Ix(Ent(K, a)) => KK(K2))
           /\ En(K2) = En(K) /\ Retries(K2) = Retries(K) /\ K2.done = K.done /\ No(K2) = No(K)
           /\ \A b \in Addrs : Ent(K2, b) = Ent(K, b)
<1>0. KK(K) /\ Ctl(K) /\ EntryOK(En(K)) /\ Body2(L, K, ch) /\ GoodAt(L, K, ch, a) /\ Mail(ch) /\ "resp" \in DOMAIN K /\ DOMAIN K.resp = Addrs
  BY KKEntry DEF Good2, Body2
<1>1. /\ Ctl(K2) /\ DOMAIN K2 = DOMAIN K /\ DOMAIN K2.resp = Addrs
      /\ K2.retry = K.retry /\ K2.rBuf = K.rBuf /\ K2.done = K.done
      /\ K2.line[a] = AtState(K.line[a], st) /\ K2.resp[a] = K.resp[a] \cup T
      /\ Acks(K2, a) = Acks(K, a) + Cardinality(T) /\ \A b \in Addrs : Ent(K2, b) = Ent(K, b) /\ Rts(K2, b) = Rts(K, b)
      /\ \A b \in Addrs : b # a => K2.line[b] = K.line[b] /\ K2.resp[b] = K.resp[b] /\ K2.mshr.reg[b] = K.mshr.reg[b]
  BY <1>0, SnoopToIs
<1>2. PICK l, ln : l = K.line[a] /\ ln = K2.line[a]
  OBVIOUS
<1>3. /\ Line2(l, K.resp[a], Acks(K, a)) /\ T \in SUBSET Cores /\ cmd \in SnoopCmds /\ l.st \in {"S", "E", "M"} /\ Acking(st)
      /\ LineOK(ln, T)
  BY <1>0, <1>1, <1>2 DEF GoodAt, MaySnoop
<1>4. K.resp[a] = {} /\ Acks(K, a) = 0 /\ K2.resp[a] = T
  <2>1. K.resp[a] = {} /\ Acks(K, a) = Cardinality(K.resp[a])
    BY <1>3 DEF Line2, LineOK, Acking
  <2>2. QED BY <1>1, <2>1, FS_EmptySet
<1>5. ln.st = st /\ ln.owner = l.owner /\ ln.sharers = l.sharers /\ Fields(ln)
  BY <1>1, <1>2, <1>3 DEF Line2, Fields, AtState
<1>6. Acks(K2, a) = Cardinality(T)
  <2>1. IsFiniteSet(T)
    BY <1>3, CoresAssumption, FS_Subset
  <2>2. Cardinality(T) \in Nat
    BY <2>1, FS_CardinalityType
  <2>3. QED BY <1>1, <1>4, <2>2
<1>7. NoToken(ch[ToMem][a], ch[FromMem][a])
  BY <1>0, <1>2, <1>3, NoneMem DEF GoodAt, NoLine
<1>8. PICK m : m = Event(cmd, a, "below", 0)
  OBVIOUS
<1>9. Mail(ch2) /\ SnoopsSent(ch, a, T, m, ch2) /\ m.cmd = cmd
  BY <1>0, <1>3, <1>8, SnoopsIs DEF Event
<1>10. \A b \in Addrs : Evs(Ent(K, b), Ent(K2, b)) /\ (Prog(K2, b) <=> Prog(K, b))
  <2>1. \A b \in Addrs : Ent(K2, b) = Ent(K, b) /\ IsSeq(Ent(K, b))
    BY <1>0, <1>1, EntLen
  <2>2. QED BY <2>1, EvsSelf, ProgIs
<1>11. No(K2) = No(K)
  BY <1>1, <1>2, <1>3, <1>5 DEF No, Acking, NoLine
<1>12. KKBut(K2, a) /\ En(K2) = En(K) /\ Retries(K2) = Retries(K)
  BY <1>0, <1>1, <1>11, KKButSame
<1>13. 1 \in Ix(Ent(K, a)) => KK(K2)
  <2>1. 1 \in Ix(Ent(K, a)) => Ent(K, a) # <<>>
    BY <1>0, EntLen
  <2>2. QED BY <1>0, <1>1, <1>11, <2>1, KKSame
<1>14. GoodAt(L, K2, ch2, a)
  <2>1. Line2(K2.line[a], K2.resp[a], Acks(K2, a)) /\ Events2(Ent(K2, a), a)
    BY <1>0, <1>1, <1>2, <1>3, <1>4, <1>5, <1>6 DEF GoodAt, Line2
  <2>2. Mem2(ch2[ToMem][a], ch2[FromMem][a], K2, a)
    BY <1>7, <1>9, MemNone DEF SnoopsSent
  <2>3. ASSUME NEW c \in Cores PROVE PairOf(c, a, L[c], ch2, K2)
    <3>1. HC(c, K2, a) = HC(c, K, a) /\ ch2[Down(c)][a] = ch[Down(c)][a]
      BY <1>9, <1>10, EvsHC DEF SnoopsSent
    <3>2. Pair(c, L[c].line[a].st, Busy(L[c], a), ch[Up(c)][a], ch[Down(c)][a], l, {}, HC(c, K, a))
      BY <1>0, <1>2, <1>4 DEF GoodAt, PairOf
    <3>3. (InView(c, l) => InView(c, ln)) /\ (l.owner = c <=> ln.owner = c)
      BY <1>5 DEF InView
    <3>4. CASE c \in T
      <4>1. Ext(ch[Up(c)][a], m, ch2[Up(c)][a])
        BY <1>9, <3>4 DEF SnoopsSent
      <4>2. Asked(c, m.cmd, ln.st, T) /\ (m.cmd = "Inv" => l.owner # c) /\ (m.cmd = "FetchInvX" => l.owner = c)
        BY <1>2, <1>5, <1>9, <3>4 DEF MaySnoop
      <4>3. Pair(c, L[c].line[a].st, Busy(L[c], a), ch2[Up(c)][a], ch[Down(c)][a], ln, T, HC(c, K, a))
        BY <1>3, <1>9, <3>2, <3>3, <3>4, <4>1, <4>2, PairSnoop
      <4>4. QED BY <1>2, <1>4, <3>1, <4>3 DEF PairOf
    <3>5. CASE c \notin T
      <4>1. ch2[Up(c)][a] = ch[Up(c)][a]
        BY <1>9, <3>5 DEF SnoopsSent
      <4>2. \A x \in SnoopOrAck : Asked(c, x, l.st, {}) => Asked(c, x, ln.st, T)
        BY NotAsked
      <4>3. Answers(c, ln, T, HC(c, K, a))
        <5>1. InView(c, ln) => InView(c, l)
          BY <1>5 DEF InView
        <5>2. QED BY <1>2, <3>5, <5>1 DEF Answers, MaySnoop
      <4>4. Pair(c, L[c].line[a].st, Busy(L[c], a), ch[Up(c)][a], ch[Down(c)][a], ln, T, HC(c, K, a))
        BY <3>2, <3>3, <4>2, <4>3, PairOther
      <4>5. QED BY <1>2, <1>4, <3>1, <4>1, <4>4 DEF PairOf
    <3>6. QED BY <3>4, <3>5
  <2>5. Live(K2, a, K2.line[a].st)
    BY <1>12 DEF Live
  <2>4. QED BY <2>1, <2>2, <2>3, <2>5 DEF GoodAt
<1>15. Still2(K, ch, a, K2, ch2)
  <2>1. ASSUME NEW x \in Links, NEW b \in Addrs, b # a PROVE ch2[x][b] = ch[x][b]
    BY <1>9, <2>1 DEF SnoopsSent, Links
  <2>2. \A b \in Addrs : b # a => Acks(K2, b) = Acks(K, b)
    BY <1>1 DEF Acks
  <2>3. QED BY <1>1, <1>10, <1>12, <2>1, <2>2 DEF Still2
<1>16. Body2(L, K2, ch2)
  BY <1>0, <1>1, <1>9, <1>14, <1>15, B2At
<1>17. QED BY <1>1, <1>11, <1>12, <1>13, <1>16
-----------------------------------------------------------------------------
(***************************************************************************)
(* Retries, and requests that are put in the MSHR.                         *)
(***************************************************************************)

(* Retries are asked for at a, whose line is present or whose front event is not in progress. *)
LEMMA G2Woken ==
    ASSUME NEW L, NEW K, NEW ch, Good2(L, K, ch), NEW a \in Addrs, NEW K2, KK(K2), Calm(K, K2),
           \A b : Pend(Retries(K2), b) => Pend(Retries(K), b) \/ b = a, K.line[a].st \in Valid \/ ~Prog(K, a)
    PROVE  Good2(L, K2, ch)
<1>0. KK(K) /\ Body2(L, K, ch) /\ EntryOK(En(K)) /\ Ctl(K) /\ GoodAt(L, K, ch, a) /\ Mail(ch) /\ DOMAIN K.resp = Addrs
  BY KKEntry DEF Good2, Body2
<1>1. K2.line = K.line /\ K2.resp = K.resp /\ "resp" \in DOMAIN K2
  BY <1>0 DEF Calm, Frame, Body2
<1>2. \A b \in Addrs : Acks(K2, b) = Acks(K, b) /\ Evs(Ent(K, b), Ent(K2, b)) /\ (Prog(K2, b) <=> Prog(K, b)) /\ Ent(K2, b) = Ent(K, b)
  <2>1. \A b \in Addrs : Ent(K2, b) = Ent(K, b) /\ IsSeq(Ent(K, b)) /\ Acks(K2, b) = Acks(K, b)
    BY <1>0, EntLen DEF Calm
  <2>2. QED BY <2>1, EvsSelf, ProgIs
<1>3. GoodAt(L, K2, ch, a)
  <2>1. CASE ~Prog(K, a)
    BY <1>0, <1>1, <1>2, <2>1, GoodKeep
  <2>2. CASE K.line[a].st \in Valid
    <3>1. NoToken(ch[ToMem][a], ch[FromMem][a])
      BY <1>0, <2>2, NoneMem DEF GoodAt, Valid, NoLine
    <3>2. Mem2(ch[ToMem][a], ch[FromMem][a], K2, a) /\ Live(K2, a, K2.line[a].st)
      BY <1>1, <2>2, <3>1, MemNone DEF Live
    <3>3. \A c \in Cores : PairOf(c, a, L[c], ch, K2)
      BY <1>0, <1>1, <1>2, EvsHC DEF GoodAt, PairOf
    <3>4. Line2(K2.line[a], K2.resp[a], Acks(K2, a)) /\ Events2(Ent(K2, a), a)
      BY <1>0, <1>1, <1>2 DEF GoodAt
    <3>5. QED BY <3>2, <3>3, <3>4 DEF GoodAt
  <2>3. QED BY <2>1, <2>2
<1>4. Still2(K, ch, a, K2, ch)
  BY <1>1, <1>2 DEF Still2
<1>5. Body2(L, K2, ch)
  BY <1>0, <1>1, <1>3, <1>4, B2At
<1>6. QED BY <1>5 DEF Good2

(* The L2 retries the front of a line. *)
LEMMA G2Retry ==
    ASSUME NEW L, NEW K, NEW ch, Good2(L, K, ch), NEW a, Handed(K, a), a \in K.done, NEW K2, K2 = Retry(K, a),
           K.line[a].st \in Valid \/ ~Prog(K, a)
    PROVE  Good2(L, K2, ch)
<1>1. KK(K) /\ a \in Addrs
  BY DEF Good2, Handed, Hand
<1>2. /\ KK(K2) /\ Calm(K, K2)
      /\ \A b : Pend(Retries(K2), b) => Pend(Retries(K), b) \/ (b = a /\ FrontEv(En(K), a))
  BY <1>1, KKRetry
<1>3. QED BY <1>1, <1>2, G2Woken

(* The same, whatever the front is. *)
LEMMA G2Replay ==
    ASSUME NEW L, NEW K, NEW ch, Good2(L, K, ch), NEW a, Handed(K, a), a \in K.done, NEW K2, K2 = Replay(K, a)
    PROVE  Good2(L, K2, ch)
<1>0. KK(K) /\ a \in Addrs
  BY DEF Good2, Handed, Hand
<1>1. /\ KK(K2) /\ Calm(K, K2)
      /\ \A b : Pend(Retries(K2), b) => Pend(Retries(K), b) \/ (b = a /\ FrontEv(En(K), a) /\ ~Ent(K, a)[1].inProgress)
  BY <1>0, KKReplay
<1>2. Alike(K, K2)
  BY <1>1, CalmAlike
<1>3. ~Prog(K, a) => ~Prog(K2, a)
  BY <1>0, <1>2, ProgIs DEF Alike
<1>4. \A b \in Addrs : Pend(Retries(K2), b) => Pend(Retries(K), b) \/ ~Prog(K2, b)
  BY <1>1, <1>3 DEF Prog
<1>5. QED BY <1>1, <1>2, <1>4, G2Alike

(* The events of a register without its front. *)
LEMMA CutEvents ==
    ASSUME NEW K, NEW K2, NEW a, 1 \in Ix(Ent(K, a)), Ent(K, a)[1].type = "Event", Cut(Ent(K, a), Ent(K2, a)), Events2(Ent(K, a), a)
    PROVE  /\ Events2(Ent(K2, a), a) /\ HC(Ent(K, a)[1].ev.src, K2, a) = {}
           /\ \A d : d # Ent(K, a)[1].ev.src => HC(d, K2, a) = HC(d, K, a)
<1>1. /\ \A i \in Ix(Ent(K2, a)) : i + 1 \in Ix(Ent(K, a)) /\ Ent(K2, a)[i] = Ent(K, a)[i + 1] /\ i + 1 # 1
      /\ \A i, j \in Ix(Ent(K2, a)) : i + 1 = j + 1 => i = j
      /\ \A i \in Ix(Ent(K, a)) : i = 1 \/ (i - 1 \in Ix(Ent(K2, a)) /\ Ent(K2, a)[i - 1] = Ent(K, a)[i])
  BY CutIs
<1>2. Events2(Ent(K2, a), a)
  BY <1>1 DEF Events2
<1>3. HC(Ent(K, a)[1].ev.src, K2, a) = {}
  BY <1>1 DEF Events2, HC
<1>4. ASSUME NEW d, d # Ent(K, a)[1].ev.src PROVE HC(d, K2, a) = HC(d, K, a)
  BY <1>1, <1>4 DEF HC
<1>5. QED BY <1>2, <1>3, <1>4

(* Only what is between the L2 and c, and memory, has changed at a. *)
Between(c, a, ch, ch2) ==
    /\ Mail(ch2) /\ \A x \in Links, b \in Addrs : b # a => ch2[x][b] = ch[x][b]
    /\ \A d \in Cores : d # c => ch2[Up(d)][a] = ch[Up(d)][a] /\ ch2[Down(d)][a] = ch[Down(d)][a]
(* The request of c leaves the front. *)
Popped(K, a, c, K2) ==
    \/ FrontEv(En(K), a) /\ Ent(K, a)[1].ev.src = c /\ SetPop(K, a, K2)
    \/ K2 = K /\ HC(c, K, a) = {}

(* What that does. *)
LEMMA PoppedIs ==
    ASSUME NEW K, KK(K), NEW a, Handed(K, a), NEW c, NEW K2, Popped(K, a, c, K2), Events2(Ent(K, a), a), Acks(K, a) = 0
    PROVE  /\ KK(K2) /\ Handed(K2, a) /\ Frame(K, K2) /\ Retries(K2) = Retries(K) /\ Regs(K, a, K2) /\ Acks(K2, a) = 0
           /\ Events2(Ent(K2, a), a) /\ HC(c, K2, a) = {} /\ \A d : d # c => HC(d, K2, a) = HC(d, K, a)
<1>0. a \in Addrs
  BY DEF Handed, Hand
<1>1. CASE K2 = K /\ HC(c, K, a) = {}
  BY <1>1 DEF Frame, Regs
<1>2. CASE FrontEv(En(K), a) /\ Ent(K, a)[1].ev.src = c /\ SetPop(K, a, K2)
  <2>1. /\ KK(K2) /\ Handed(K2, a) /\ Frame(K, K2) /\ Retries(K2) = Retries(K) /\ Regs(K, a, K2)
        /\ Cut(Ent(K, a), Ent(K2, a)) /\ Erased(K, a, K2)
    BY <1>2, KKSetPop
  <2>2. 1 \in Ix(Ent(K, a)) /\ Ent(K, a)[1].type = "Event"
    BY <1>0, <1>2, EnIs DEF FrontEv
  <2>3. Acks(K2, a) = 0
    BY <2>1 DEF Erased
  <2>4. QED BY <1>2, <2>1, <2>2, <2>3, CutEvents
<1>3. QED BY <1>1, <1>2 DEF Popped

(* The request of c is answered, and the line changes with it. *)
LEMMA G2Serve ==
    ASSUME NEW L, NEW K, NEW ch, Good2(L, K, ch), NEW a, Handed(K, a), a \in K.done, NEW c \in Cores,
           ~Acking(K.line[a].st), NEW ln, ~Acking(ln.st), Line2(ln, {}, 0),
           \A d \in Cores : d # c => (InView(d, K.line[a]) => InView(d, ln)) /\ (K.line[a].owner = d <=> ln.owner = d),
           NEW KL, SetLine(K, a, ln, KL), NEW KP, Popped(KL, a, c, KP), NEW K2, K2 = Replay(KP, a),
           NEW ch2, Between(c, a, ch, ch2), NoToken(ch2[ToMem][a], ch2[FromMem][a]),
           Pair(c, L[c].line[a].st, Busy(L[c], a), ch2[Up(c)][a], ch2[Down(c)][a], ln, {}, {})
    PROVE  Good2(L, K2, ch2)
<1>0. /\ KK(K) /\ a \in Addrs /\ Body2(L, K, ch) /\ EntryOK(En(K)) /\ Ctl(K) /\ GoodAt(L, K, ch, a) /\ "st" \in DOMAIN ln /\ "resp" \in DOMAIN K
      /\ ~Pointed(En(K), a) /\ ~Pend(Retries(K), a)
  BY KKEntry DEF Good2, Body2, Line2, Fields, Handed, Hand
<1>1. /\ KK(KL) /\ DOMAIN KL = DOMAIN K /\ KL.mshr = K.mshr /\ KL.done = K.done
      /\ KL.line[a] = ln /\ (\A b \in Addrs : b # a => KL.line[b] = K.line[b]) /\ KL.resp = K.resp
      /\ En(KL) = En(K) /\ Retries(KL) = Retries(K) /\ \A b \in Addrs : Ent(KL, b) = Ent(K, b)
  BY <1>0, KKSet
<1>2. K.resp[a] = {} /\ Acks(K, a) = 0
  <2>1. K.resp[a] = {} /\ Acks(K, a) = Cardinality(K.resp[a])
    BY <1>0 DEF GoodAt, Line2, LineOK
  <2>2. QED BY <2>1, FS_EmptySet
<1>3. Handed(KL, a) /\ Acks(KL, a) = 0 /\ Events2(Ent(KL, a), a) /\ \A d : HC(d, KL, a) = HC(d, K, a)
  BY <1>0, <1>1, <1>2 DEF Handed, Acks, GoodAt, HC
<1>4. /\ KK(KP) /\ Handed(KP, a) /\ Frame(KL, KP) /\ Retries(KP) = Retries(KL) /\ Regs(KL, a, KP) /\ Acks(KP, a) = 0
      /\ Events2(Ent(KP, a), a) /\ HC(c, KP, a) = {} /\ \A d : d # c => HC(d, KP, a) = HC(d, KL, a)
  BY <1>1, <1>3, PoppedIs
<1>5. KP.line = KL.line /\ KP.resp = K.resp /\ "resp" \in DOMAIN KP /\ DOMAIN KP.resp = Addrs /\ KP.done = K.done
  BY <1>0, <1>1, <1>4 DEF Frame, Body2
<1>6. GoodAt(L, KP, ch2, a)
  <2>1. Line2(KP.line[a], KP.resp[a], Acks(KP, a))
    BY <1>1, <1>2, <1>4, <1>5
  <2>2. Mem2(ch2[ToMem][a], ch2[FromMem][a], KP, a)
    BY MemNone
  <2>3. Live(KP, a, KP.line[a].st)
    BY <1>0, <1>1, <1>4 DEF Live
  <2>4. ASSUME NEW d \in Cores PROVE PairOf(d, a, L[d], ch2, KP)
    <3>1. CASE d = c
      BY <1>1, <1>2, <1>4, <1>5, <3>1 DEF PairOf
    <3>2. CASE d # c
      <4>1. ch2[Up(d)][a] = ch[Up(d)][a] /\ ch2[Down(d)][a] = ch[Down(d)][a]
        BY <3>2 DEF Between
      <4>2. PairOf(d, a, L[d], ch, K) /\ HC(d, KP, a) = HC(d, K, a)
        BY <1>0, <1>3, <1>4, <3>2 DEF GoodAt
      <4>3. Pair(d, L[d].line[a].st, Busy(L[d], a), ch2[Up(d)][a], ch2[Down(d)][a], K.line[a], {}, HC(d, KP, a))
        BY <1>2, <4>1, <4>2 DEF PairOf
      <4>4. (InView(d, K.line[a]) => InView(d, ln)) /\ (K.line[a].owner = d <=> ln.owner = d)
        BY <3>2
      <4>5. Pair(d, L[d].line[a].st, Busy(L[d], a), ch2[Up(d)][a], ch2[Down(d)][a], ln, {}, HC(d, KP, a))
        BY <4>3, <4>4, PairQuiet
      <4>6. QED BY <1>1, <1>2, <1>5, <4>5 DEF PairOf
    <3>3. QED BY <3>1, <3>2
  <2>5. QED BY <1>4, <2>1, <2>2, <2>3, <2>4 DEF GoodAt
<1>7. Still2(K, ch, a, KP, ch2)
  <2>1. \A b \in Addrs : b # a => Ent(KP, b) = Ent(K, b) /\ Acks(KP, b) = Acks(K, b)
    BY <1>1, <1>4 DEF Regs, Ent, Acks
  <2>2. \A b \in Addrs : IsSeq(Ent(K, b))
    BY <1>0, EntLen
  <2>3. \A b \in Addrs : b # a => Evs(Ent(K, b), Ent(KP, b))
    BY <2>1, <2>2, EvsSelf
  <2>4. QED BY <1>1, <1>4, <1>5, <2>1, <2>3 DEF Still2, Between
<1>8. Body2(L, KP, ch2)
  BY <1>0, <1>5, <1>6, <1>7, B2At DEF Between
<1>9. Good2(L, KP, ch2)
  BY <1>4, <1>8 DEF Good2
<1>10. QED BY <1>4, <1>5, <1>9, G2Replay

(* The request ev has left the head of its link: ch0 is before, ch after. *)
Took(ch0, ev, a, ch) ==
    /\ Mail(ch) /\ Cut(ch0[Down(ev.src)][a], ch[Down(ev.src)][a]) /\ ch0[Down(ev.src)][a][1].cmd = ev.cmd
    /\ Others(ch0, Down(ev.src), a, ch)
(* A message of an L1 has been taken from its link. *)
Came2(L, K, ch0, ch, ev, a) ==
    /\ Good2(L, K, ch0) /\ Took(ch0, ev, a, ch)
    /\ ~Null(Retries(K), a) /\ (Pend(Retries(K), a) => a \in No(K))
(* It asks for something, and gives up nothing. *)
Fresh2(L, K, ch0, ch, ev, a) == Came2(L, K, ch0, ch, ev, a) /\ ~Gives(ch0[Down(ev.src)][a][1])
(* ev is at the front and may be served. *)
Serve2(L, K, ch, ev, a) ==
    Good2(L, K, ch) /\ Ready2(K, ch, a, ev) /\ (Prog(K, a) => K.line[a].st \in Valid)
(* The request ev is new, or retried. *)
Req2(L, K, ch0, ch, ev, inMSHR) ==
    /\ inMSHR \in BOOLEAN /\ ev.addr \in Addrs /\ ev.addr \in K.done /\ EvOK2(ev, ev.addr)
    /\ inMSHR => Serve2(L, K, ch, ev, ev.addr)
    /\ ~inMSHR => Fresh2(L, K, ch0, ch, ev, ev.addr)

(* What taking a message leaves alone. *)
LEMMA TookIs ==
    ASSUME NEW ch0, NEW ev, ev.src \in Cores, NEW a \in Addrs, NEW ch, Took(ch0, ev, a, ch)
    PROVE  /\ Between(ev.src, a, ch0, ch) /\ ch[ToMem][a] = ch0[ToMem][a] /\ ch[FromMem][a] = ch0[FromMem][a]
           /\ ch[Up(ev.src)][a] = ch0[Up(ev.src)][a]
<1>1. PICK c \in Cores : c = ev.src
  OBVIOUS
<1>2. Mail(ch) /\ Others(ch0, Down(c), a, ch)
  BY <1>1 DEF Took
<1>3. \A d \in Cores : d # c => ch[Up(d)][a] = ch0[Up(d)][a] /\ ch[Down(d)][a] = ch0[Down(d)][a]
  BY <1>1, <1>2, LinkIs DEF Others
<1>4. QED BY <1>1, <1>2, <1>3, LinkIs DEF Others, Between

(* The sender of a new request has no other one in the L2. *)
LEMMA FreshPair ==
    ASSUME NEW L, NEW K, NEW ch0, NEW ch, NEW ev, NEW a \in Addrs, EvOK2(ev, a), Fresh2(L, K, ch0, ch, ev, a)
    PROVE  /\ HC(ev.src, K, a) = {} /\ (\A i \in Ix(Ent(K, a)) : Ent(K, a)[i].type = "Event" => Ent(K, a)[i].ev.src # ev.src)
           /\ Pair(ev.src, L[ev.src].line[a].st, Busy(L[ev.src], a), ch[Up(ev.src)][a], ch[Down(ev.src)][a],
                   K.line[a], K.resp[a], {ev.cmd})
<1>1. PICK c \in Cores : c = ev.src
  BY DEF EvOK2
<1>2. PairOf(c, a, L[c], ch0, K) /\ Events2(Ent(K, a), a) /\ Took(ch0, ev, a, ch) /\ ~Gives(ch0[Down(ev.src)][a][1])
  BY DEF Fresh2, Came2, Good2, Body2, GoodAt
<1>3. Cut(ch0[Down(c)][a], ch[Down(c)][a]) /\ ch0[Down(c)][a][1].cmd = ev.cmd /\ ~Gives(ch0[Down(c)][a][1]) /\ ch[Up(c)][a] = ch0[Up(c)][a]
  <2>1. Took(ch0, ev, a, ch) /\ ev.src \in Cores
    BY <1>1, <1>2
  <2>2. ch[Up(ev.src)][a] = ch0[Up(ev.src)][a]
    BY <2>1, TookIs
  <2>3. QED BY <1>1, <1>2, <2>2 DEF Took
<1>4. ev.cmd \in ReqCmds
  BY DEF EvOK2
<1>5. HC(c, K, a) = {} /\ Pair(c, L[c].line[a].st, Busy(L[c], a), ch[Up(c)][a], ch[Down(c)][a], K.line[a], K.resp[a], {ev.cmd})
  <2>1. PICK l, R, s, b : l = K.line[a] /\ R = K.resp[a] /\ s = L[c].line[a].st /\ b = Busy(L[c], a)
    OBVIOUS
  <2>2. PICK u, d, d2, h : u = ch[Up(c)][a] /\ d = ch0[Down(c)][a] /\ d2 = ch[Down(c)][a] /\ h = HC(c, K, a)
    OBVIOUS
  <2>3. Pair(c, s, b, u, d, l, R, h) /\ Cut(d, d2) /\ d[1].cmd = ev.cmd /\ ~Gives(d[1])
    BY <1>2, <1>3, <2>1, <2>2 DEF PairOf
  <2>4. h = {} /\ Pair(c, s, b, u, d2, l, R, {d[1].cmd})
    BY <1>4, <2>3, PairTake
  <2>5. QED BY <2>1, <2>2, <2>3, <2>4
<1>6. \A i \in Ix(Ent(K, a)) : Ent(K, a)[i].type = "Event" => Ent(K, a)[i].ev.src # c
  BY <1>2, <1>5 DEF HC, Events2, EvOK2
<1>7. QED BY <1>1, <1>5, <1>6

(* insertEvent, by its name. *)
InsertEv(K, a, ev, K2) == K2 = [K EXCEPT !.mshr = insertEvent(@, a, ev)]

(* The L2 puts a new request in its MSHR. *)
LEMMA G2Insert ==
    ASSUME NEW L, NEW K, NEW ch0, NEW ch, NEW ev, NEW a \in Addrs, EvOK2(ev, a), Fresh2(L, K, ch0, ch, ev, a), NEW K2, InsertEv(K, a, ev, K2)
    PROVE  /\ Good2(L, K2, ch) /\ K2.line = K.line /\ K2.done = K.done /\ K2.resp = K.resp /\ Retries(K2) = Retries(K)
           /\ 1 \notin Ix(Ent(K, a)) \/ frontIs(K2, ev) => Ready2(K2, ch, a, ev) /\ ~Prog(K2, a)
<1>0. /\ KK(K) /\ Body2(L, K, ch0) /\ EntryOK(En(K)) /\ Ctl(K) /\ GoodAt(L, K, ch0, a) /\ "resp" \in DOMAIN K /\ DOMAIN K.resp = Addrs
      /\ Took(ch0, ev, a, ch) /\ ~Null(Retries(K), a)
  BY KKEntry DEF Fresh2, Came2, Good2, Body2
<1>1. ev.addr = a /\ ev.cmd # "NULLCMD" /\ ev.src \in Cores /\ ev.cmd \in ReqCmds
  BY DEF EvOK2, ReqCmds
<1>2. /\ KK(K2) /\ Frame(K, K2) /\ Retries(K2) = Retries(K) /\ Regs(K, a, K2)
      /\ Ext(Ent(K, a), EventEntry(ev), Ent(K2, a)) /\ Acks(K2, a) = Acks(K, a) /\ SamePoints(K, K2)
  BY <1>0, <1>1, KKInsert DEF InsertEv
<1>3. K2.line = K.line /\ K2.done = K.done /\ K2.resp = K.resp /\ "resp" \in DOMAIN K2
  BY <1>0, <1>2 DEF Frame
<1>4. PICK e : e = EventEntry(ev)
  OBVIOUS
<1>5. e.type = "Event" /\ e.ev = ev /\ e.inProgress = FALSE
  BY <1>4 DEF EventEntry
<1>6. /\ HC(ev.src, K, a) = {} /\ (\A i \in Ix(Ent(K, a)) : Ent(K, a)[i].type = "Event" => Ent(K, a)[i].ev.src # ev.src)
      /\ Pair(ev.src, L[ev.src].line[a].st, Busy(L[ev.src], a), ch[Up(ev.src)][a], ch[Down(ev.src)][a],
                   K.line[a], K.resp[a], {ev.cmd})
  BY FreshPair
<1>7. /\ \A i \in Ix(Ent(K, a)) : i \in Ix(Ent(K2, a)) /\ Ent(K2, a)[i] = Ent(K, a)[i]
      /\ \A i \in Ix(Ent(K2, a)) : (i \in Ix(Ent(K, a)) /\ Ent(K2, a)[i] = Ent(K, a)[i]) \/ (i = Len(Ent(K, a)) + 1 /\ Ent(K2, a)[i] = e)
      /\ Len(Ent(K, a)) + 1 \in Ix(Ent(K2, a)) /\ Ent(K2, a)[Len(Ent(K, a)) + 1] = e /\ 1 \in Ix(Ent(K2, a))
      /\ 1 \notin Ix(Ent(K, a)) => Ent(K2, a)[1] = e
  BY <1>2, <1>4, ExtIs
<1>8. Events2(Ent(K2, a), a)
  BY <1>0, <1>5, <1>6, <1>7 DEF Events2, GoodAt
<1>9. HC(ev.src, K2, a) = {ev.cmd}
  <2>1. \A x \in HC(ev.src, K2, a) : x = ev.cmd
    BY <1>5, <1>6, <1>7 DEF HC
  <2>2. ev.cmd \in HC(ev.src, K2, a)
    BY <1>1, <1>5, <1>7 DEF HC
  <2>3. QED BY <2>1, <2>2
<1>10. ASSUME NEW d, d # ev.src PROVE HC(d, K2, a) = HC(d, K, a)
  BY <1>5, <1>7, <1>10 DEF HC
<1>11. (Prog(K2, a) <=> Prog(K, a)) /\ (Prog(K, a) => Ent(K2, a)[1] = Ent(K, a)[1])
  <2>1. En(K)[a] = Ent(K, a) /\ En(K2)[a] = Ent(K2, a)
    BY EnIs
  <2>2. QED BY <1>5, <1>7, <2>1 DEF Prog, FrontEv
<1>12. Between(ev.src, a, ch0, ch) /\ ch[ToMem][a] = ch0[ToMem][a] /\ ch[FromMem][a] = ch0[FromMem][a]
  <2>1. Took(ch0, ev, a, ch) /\ ev.src \in Cores
    BY <1>0, <1>1
  <2>2. QED BY <2>1, TookIs
<1>13. GoodAt(L, K2, ch, a)
  <2>1. Line2(K2.line[a], K2.resp[a], Acks(K2, a))
    BY <1>0, <1>2, <1>3 DEF GoodAt
  <2>2. Mem2(ch[ToMem][a], ch[FromMem][a], K2, a)
    <3>1. \A m : Awaited(m, K, a) => Awaited(m, K2, a)
      BY <1>2, <1>3, <1>11 DEF Awaited
    <3>2. QED BY <1>0, <1>12, <3>1 DEF GoodAt, Mem2
  <2>3. Live(K2, a, K2.line[a].st)
    BY <1>0, <1>2, <1>3, <1>11 DEF Live, GoodAt
  <2>4. ASSUME NEW d \in Cores PROVE PairOf(d, a, L[d], ch, K2)
    <3>1. CASE d = ev.src
      BY <1>3, <1>6, <1>9, <3>1 DEF PairOf
    <3>2. CASE d # ev.src
      <4>1. PairOf(d, a, L[d], ch0, K) /\ HC(d, K2, a) = HC(d, K, a)
        BY <1>0, <1>10, <3>2 DEF GoodAt
      <4>2. ch[Up(d)][a] = ch0[Up(d)][a] /\ ch[Down(d)][a] = ch0[Down(d)][a]
        BY <1>12, <3>2 DEF Between
      <4>3. QED BY <1>3, <4>1, <4>2 DEF PairOf
    <3>3. QED BY <3>1, <3>2
  <2>5. QED BY <1>8, <2>1, <2>2, <2>3, <2>4 DEF GoodAt
<1>14. Still2(K, ch0, a, K2, ch)
  <2>1. \A b \in Addrs : b # a => Ent(K2, b) = Ent(K, b) /\ Acks(K2, b) = Acks(K, b)
    BY <1>2 DEF Regs, Ent, Acks
  <2>2. \A b \in Addrs : IsSeq(Ent(K, b))
    BY <1>0, EntLen
  <2>3. \A b \in Addrs : b # a => Evs(Ent(K, b), Ent(K2, b))
    BY <2>1, <2>2, EvsSelf
  <2>4. QED BY <1>2, <1>3, <1>12, <2>1, <2>3 DEF Still2, Between
<1>15. Good2(L, K2, ch)
  <2>1. Body2(L, K2, ch)
    BY <1>0, <1>3, <1>12, <1>13, <1>14, B2At DEF Between
  <2>2. QED BY <1>2, <2>1 DEF Good2
<1>16. frontIs(K2, ev) => 1 \notin Ix(Ent(K, a))
  <2> SUFFICES ASSUME frontIs(K2, ev), 1 \in Ix(Ent(K, a)) PROVE FALSE
    OBVIOUS
  <2>1. FrontEv(En(K2), a) /\ getFrontEvent(K2.mshr, a) = ev
    BY <1>1, <1>2, ExistsIs DEF frontIs
  <2>2. getFrontEvent(K2.mshr, a) = Ent(K2, a)[1].ev /\ Ent(K2, a)[1].type = "Event"
    BY <1>2, <1>7, <2>1, FrontIs, EnIs DEF KK, FrontEv
  <2>3. QED BY <1>6, <1>7, <2>1, <2>2
<1>17. ASSUME 1 \notin Ix(Ent(K, a)) PROVE Ready2(K2, ch, a, ev) /\ ~Prog(K2, a)
  <2>1. Handed(K, a)
    BY <1>0, <1>17, FirstHanded
  <2>2. Handed(K2, a)
    BY <1>2, <2>1 DEF Handed, Hand, SamePoints
  <2>3. ~Prog(K, a)
    BY <1>17, EnIs DEF Prog, FrontEv
  <2>4. NoToken(ch[ToMem][a], ch[FromMem][a])
    BY <1>0, <1>12, <2>3, NoneMem DEF GoodAt
  <2>5. FrontEv(En(K2), a) /\ Ent(K2, a)[1].ev = ev
    BY <1>5, <1>7, <1>17, EnIs DEF FrontEv
  <2>6. QED BY <1>11, <2>2, <2>3, <2>4, <2>5 DEF Ready2
<1>18. QED BY <1>2, <1>3, <1>15, <1>16, <1>17

(* What a step of the L2 leaves behind. *)
Done2(L) == Good2(L, l2', chan')

(* A controller that is put back. *)
LEMMA PutDone == ASSUME NEW L, NEW K, NEW ch, Good2(L, K, ch), Put2(K, ch) PROVE Done2(L)
BY G2Rest DEF Put2, Done2

(* A request for a line that is present. *)
LEMMA G2Handed ==
    ASSUME NEW L, NEW K, NEW ch0, NEW ch, NEW ev, NEW inMSHR, Req2(L, K, ch0, ch, ev, inMSHR), K.line[ev.addr].st # NoLine
    PROVE  Handed(K, ev.addr)
<1>1. CASE inMSHR
  BY <1>1 DEF Req2, Serve2, Ready2
<1>2. CASE ~inMSHR
  <2>1. Fresh2(L, K, ch0, ch, ev, ev.addr) /\ KK(K) /\ ev.addr \in Addrs /\ ev.addr \notin No(K)
    BY <1>2 DEF Req2, Fresh2, Came2, Good2, No
  <2>2. ~Null(Retries(K), ev.addr) /\ ~Pend(Retries(K), ev.addr)
    BY <2>1 DEF Fresh2, Came2
  <2>3. QED BY <2>1, <2>2, PresentHanded
<1>3. QED BY <1>1, <1>2

(* A request that is not refused is in the MSHR, and is served if nothing is before it. *)
LEMMA G2Alloc ==
    ASSUME NEW L, NEW K, NEW ch0, NEW ch, NEW ev, NEW inMSHR, Req2(L, K, ch0, ch, ev, inMSHR),
           Status(K, ev, inMSHR) # "Reject", NEW K1, K1 = L2Allocate(K, ev, inMSHR)
    PROVE  /\ Good2(L, K1, ch) /\ K1.line = K.line /\ K1.done = K.done /\ K1.resp = K.resp /\ Retries(K1) = Retries(K)
           /\ Status(K, ev, inMSHR) = "OK" \/ frontIs(K1, ev) => Serve2(L, K1, ch, ev, ev.addr)
<1>1. CASE inMSHR
  BY <1>1 DEF Req2, Serve2, L2Allocate
<1>2. CASE ~inMSHR
  <2>1. Fresh2(L, K, ch0, ch, ev, ev.addr) /\ ev.addr \in Addrs /\ EvOK2(ev, ev.addr) /\ Ctl(K)
    BY <1>2, KKEntry DEF Req2, Fresh2, Came2, Good2
  <2>2. InsertEv(K, ev.addr, ev, K1)
    BY <1>2 DEF L2Allocate, InsertEv
  <2>3. /\ Good2(L, K1, ch) /\ K1.line = K.line /\ K1.done = K.done /\ K1.resp = K.resp /\ Retries(K1) = Retries(K)
        /\ 1 \notin Ix(Ent(K, ev.addr)) \/ frontIs(K1, ev) => Ready2(K1, ch, ev.addr, ev) /\ ~Prog(K1, ev.addr)
    BY <2>1, <2>2, G2Insert
  <2>4. Status(K, ev, inMSHR) = "OK" => 1 \notin Ix(Ent(K, ev.addr))
    BY <1>2, <2>1, EntLen DEF Status, firstInLine, Ent
  <2>5. QED BY <2>3, <2>4 DEF Serve2
<1>3. QED BY <1>1, <1>2

(* A request that is refused goes back to its sender. *)
LEMMA G2Reject ==
    ASSUME NEW L, NEW K, NEW ch0, NEW ch, NEW ev, NEW inMSHR, Req2(L, K, ch0, ch, ev, inMSHR),
           Status(K, ev, inMSHR) = "Reject", NEW ch2, ch2 = Rejection(K, ch, ev, inMSHR)
    PROVE  Good2(L, K, ch2) /\ L2Allocate(K, ev, inMSHR) = K
<1>1. PICK c, a : c = ev.src /\ a = ev.addr
  OBVIOUS
<1>2. ~inMSHR /\ Fresh2(L, K, ch0, ch, ev, a) /\ a \in Addrs /\ EvOK2(ev, a) /\ c \in Cores
  BY <1>1 DEF Req2, Status, EvOK2
<1>3. PICK m : m = NACK(ev)
  OBVIOUS
<1>4. m.cmd = "NACK" /\ m.addr = a /\ m.nacked = ev /\ ev.src = c /\ ev.addr = a
  BY <1>1, <1>3 DEF NACK
<1>5. /\ KK(K) /\ Body2(L, K, ch0) /\ EntryOK(En(K)) /\ Ctl(K) /\ GoodAt(L, K, ch0, a) /\ "resp" \in DOMAIN K /\ DOMAIN K.resp = Addrs
      /\ Took(ch0, ev, a, ch) /\ Mail(ch) /\ ~Gives(ch0[Down(ev.src)][a][1])
  BY <1>2, KKEntry DEF Fresh2, Came2, Good2, Body2, Took
<1>6. Between(c, a, ch0, ch) /\ ch[ToMem][a] = ch0[ToMem][a] /\ ch[FromMem][a] = ch0[FromMem][a] /\ ch[Up(c)][a] = ch0[Up(c)][a]
  <2>1. Took(ch0, ev, a, ch) /\ ev.src \in Cores /\ a \in Addrs
    BY <1>1, <1>2, <1>5
  <2>2. /\ Between(ev.src, a, ch0, ch) /\ ch[ToMem][a] = ch0[ToMem][a] /\ ch[FromMem][a] = ch0[FromMem][a]
        /\ ch[Up(ev.src)][a] = ch0[Up(ev.src)][a]
    BY <2>1, TookIs
  <2>3. QED BY <1>1, <2>2
<1>7. ch2 = Send(ch, Up(c), m)
  BY <1>1, <1>3 DEF Rejection
<1>8. Mail(ch2) /\ Ext(ch[Up(c)][a], m, ch2[Up(c)][a]) /\ Others(ch, Up(c), a, ch2)
  <2>1. MsgOK(m, Up(c), a)
    BY <1>2, <1>4, LinkIs DEF MsgOK, RespCmds
  <2>2. Up(c) \in Links
    BY <1>2, LinkIs
  <2>3. QED BY <1>2, <1>4, <1>5, <1>7, <2>1, <2>2, SendIs
<1>9. /\ ch2[Down(c)][a] = ch[Down(c)][a] /\ ch2[ToMem][a] = ch[ToMem][a] /\ ch2[FromMem][a] = ch[FromMem][a]
      /\ \A d \in Cores : d # c => ch2[Up(d)][a] = ch[Up(d)][a] /\ ch2[Down(d)][a] = ch[Down(d)][a]
      /\ \A x \in Links, b \in Addrs : b # a => ch2[x][b] = ch[x][b]
  <2>1. \A d \in Cores : d # c => ch2[Up(d)][a] = ch[Up(d)][a] /\ ch2[Down(d)][a] = ch[Down(d)][a]
    BY <1>2, <1>8, LinkIs DEF Others
  <2>2. QED BY <1>2, <1>8, <2>1, LinkIs DEF Others
<1>10. PairOf(c, a, L[c], ch2, K)
  <2>1. PICK l, R, s, b : l = K.line[a] /\ R = K.resp[a] /\ s = L[c].line[a].st /\ b = Busy(L[c], a)
    OBVIOUS
  <2>2. PICK u, u2, d, d2, h : u = ch[Up(c)][a] /\ u2 = ch2[Up(c)][a] /\ d = ch0[Down(c)][a] /\ d2 = ch2[Down(c)][a] /\ h = HC(c, K, a)
    OBVIOUS
  <2>3. PairOf(c, a, L[c], ch0, K)
    BY <1>2, <1>5 DEF GoodAt
  <2>4. Pair(c, s, b, u, d, l, R, h)
    BY <1>6, <2>1, <2>2, <2>3 DEF PairOf
  <2>5. Cut(d, d2) /\ d[1].cmd = ev.cmd /\ ~Gives(d[1]) /\ Ext(u, m, u2)
    BY <1>4, <1>5, <1>8, <1>9, <2>2 DEF Took
  <2>6. ev.cmd \in ReqCmds /\ ~Leaves(m.nacked) /\ ~Lowers(m.nacked)
    BY <1>2, <1>4 DEF EvOK2, Leaves, Lowers, ReqCmds, FlushCmds
  <2>7. Pair(c, s, b, u2, d2, l, R, h)
    BY <1>4, <2>4, <2>5, <2>6, PairNacked
  <2>8. QED BY <2>1, <2>2, <2>7 DEF PairOf
<1>11. GoodAt(L, K, ch2, a)
  <2>1. ASSUME NEW d \in Cores PROVE PairOf(d, a, L[d], ch2, K)
    <3>1. CASE d = c
      BY <1>10, <3>1
    <3>2. CASE d # c
      <4>1. PairOf(d, a, L[d], ch0, K)
        BY <1>5 DEF GoodAt
      <4>2. ch2[Up(d)][a] = ch0[Up(d)][a] /\ ch2[Down(d)][a] = ch0[Down(d)][a]
        BY <1>6, <1>9, <3>2 DEF Between
      <4>3. QED BY <4>1, <4>2 DEF PairOf
    <3>3. QED BY <3>1, <3>2
  <2>2. QED BY <1>5, <1>6, <1>9, <2>1 DEF GoodAt
<1>12. Still2(K, ch0, a, K, ch2)
  <2>1. \A b \in Addrs : Evs(Ent(K, b), Ent(K, b))
    BY <1>5, EntLen, EvsSelf
  <2>2. QED BY <1>6, <1>9, <2>1 DEF Still2, Between
<1>13. Body2(L, K, ch2)
  BY <1>5, <1>8, <1>11, <1>12, B2At
<1>14. QED BY <1>5, <1>13 DEF Good2, L2Allocate

(* The L2 stalls a request, or refuses it. *)
LEMMA G2StallReq ==
    ASSUME NEW L, NEW K, NEW ch0, NEW ch, NEW ev, NEW inMSHR, Req2(L, K, ch0, ch, ev, inMSHR), L2Stall(K, ch, ev, inMSHR)
    PROVE  Done2(L)
<1>1. PICK K1, ch1 : K1 = L2Allocate(K, ev, inMSHR) /\ ch1 = Rejection(K, ch, ev, inMSHR)
  OBVIOUS
<1>2. Put2(K1, ch1)
  BY <1>1 DEF L2Stall
<1>3. Good2(L, K1, ch1)
  <2>1. CASE Status(K, ev, inMSHR) = "Reject"
    BY <1>1, <2>1, G2Reject
  <2>2. CASE Status(K, ev, inMSHR) # "Reject"
    <3>1. ch1 = ch
      BY <1>1, <2>2 DEF Rejection
    <3>2. QED BY <1>1, <2>2, <3>1, G2Alloc
  <2>3. QED BY <2>1, <2>2
<1>4. QED BY <1>2, <1>3, PutDone
-----------------------------------------------------------------------------
(***************************************************************************)
(* Requests of the L1s.                                                    *)
(***************************************************************************)

(* The front event of a, for which nothing is on its way to memory, is marked. *)
LEMMA G2Prog ==
    ASSUME NEW L, NEW K, KK(K), NEW ch, Body2(L, K, ch), NEW a, Handed(K, a), FrontEv(En(K), a),
           NoToken(ch[ToMem][a], ch[FromMem][a]), NEW K2, SetProg(K, a, K2)
    PROVE  Good2(L, K2, ch)
<1>0. /\ a \in Addrs /\ ~Pend(Retries(K), a) /\ GoodAt(L, K, ch, a) /\ EntryOK(En(K)) /\ Ctl(K) /\ Mail(ch)
      /\ "resp" \in DOMAIN K /\ DOMAIN K.resp = Addrs
  BY KKEntry DEF Body2, Handed, Hand
<1>1. /\ KK(K2) /\ Frame(K, K2) /\ Retries(K2) = Retries(K) /\ Regs(K, a, K2) /\ Acks(K2, a) = Acks(K, a)
      /\ Started(Ent(K, a), Ent(K2, a))
  BY KKSetProg
<1>2. K2.line = K.line /\ K2.resp = K.resp /\ "resp" \in DOMAIN K2 /\ DOMAIN K2.resp = Addrs
  BY <1>0, <1>1 DEF Frame
<1>3. GoodAt(L, K2, ch, a)
  <2>1. Line2(K2.line[a], K2.resp[a], Acks(K2, a))
    BY <1>0, <1>1, <1>2 DEF GoodAt
  <2>2. Events2(Ent(K2, a), a) /\ \A c : HC(c, K2, a) = HC(c, K, a)
    BY <1>0, <1>1, StartedEvents DEF GoodAt
  <2>3. Mem2(ch[ToMem][a], ch[FromMem][a], K2, a)
    BY MemNone
  <2>4. ASSUME NEW c \in Cores PROVE PairOf(c, a, L[c], ch, K2)
    <3>1. PairOf(c, a, L[c], ch, K)
      BY <1>0 DEF GoodAt
    <3>2. QED BY <1>2, <2>2, <3>1 DEF PairOf
  <2>5. Live(K2, a, K2.line[a].st)
    BY <1>0, <1>1 DEF Live
  <2>6. QED BY <2>1, <2>2, <2>3, <2>4, <2>5 DEF GoodAt
<1>4. Still2(K, ch, a, K2, ch)
  <2>1. \A b \in Addrs : b # a => Ent(K2, b) = Ent(K, b) /\ Acks(K2, b) = Acks(K, b)
    BY <1>1 DEF Regs, Ent, Acks
  <2>2. \A b \in Addrs : IsSeq(Ent(K, b))
    BY <1>0, EntLen
  <2>3. \A b \in Addrs : b # a => Evs(Ent(K, b), Ent(K2, b))
    BY <2>1, <2>2, EvsSelf
  <2>4. QED BY <1>1, <1>2, <2>1, <2>3 DEF Still2
<1>5. Body2(L, K2, ch)
  BY <1>0, <1>2, <1>3, <1>4, B2At
<1>6. QED BY <1>1, <1>5 DEF Good2

(* The L1s T may be asked on behalf of ev. *)
MayAwait(l, ev, T, cmd, st) ==
    /\ T \in SUBSET Cores /\ cmd \in SnoopCmds /\ l.st \in {"S", "E", "M"} /\ Acking(st)
    /\ \A c \in T : Asked(c, cmd, st, T) /\ (cmd = "Inv" => l.owner # c) /\ (cmd = "FetchInvX" => l.owner = c)
    /\ \A c \in Cores : c \notin T /\ InView(c, l) => c = ev.src /\ ev.cmd = "GetX"
    /\ LineOK(AtState(l, st), T)

(* The event in front is among those that wait. *)
LEMMA FrontHC ==
    ASSUME NEW K, NEW a \in Addrs, NEW ev, EvOK2(ev, a), FrontEv(En(K), a), Ent(K, a)[1].ev = ev PROVE ev.cmd \in HC(ev.src, K, a)
<1>1. 1 \in Ix(Ent(K, a)) /\ Ent(K, a)[1].type = "Event"
  BY EnIs DEF FrontEv
<1>2. QED BY <1>1 DEF HC, EvOK2

(* They are asked. *)
LEMMA ServeSnoop ==
    ASSUME NEW L, NEW K, NEW ch, NEW ev, NEW a \in Addrs, EvOK2(ev, a), Serve2(L, K, ch, ev, a),
           NEW T, NEW cmd, NEW st, MayAwait(K.line[a], ev, T, cmd, st),
           NEW KS, SnoopTo(K, a, T, st, KS), NEW ch2, ch2 = SendSnoops(ch, a, T, cmd)
    PROVE  /\ KK(KS) /\ Body2(L, KS, ch2) /\ Handed(KS, a) /\ FrontEv(En(KS), a) /\ NoToken(ch2[ToMem][a], ch2[FromMem][a])
<1>1. Good2(L, K, ch) /\ Handed(K, a) /\ FrontEv(En(K), a) /\ Ent(K, a)[1].ev = ev /\ NoToken(ch[ToMem][a], ch[FromMem][a]) /\ Mail(ch)
      /\ ~Pend(Retries(K), a)
  BY DEF Serve2, Ready2, Good2, Body2, Handed, Hand
<1>2. ev.cmd \in HC(ev.src, K, a)
  BY <1>1, FrontHC
<1>3. MaySnoop(K, a, T, cmd, st)
  BY <1>2 DEF MaySnoop, MayAwait
<1>4. /\ KKBut(KS, a) /\ Body2(L, KS, ch2) /\ (1 \in Ix(Ent(K, a)) => KK(KS))
      /\ En(KS) = En(K) /\ Retries(KS) = Retries(K)
  BY <1>1, <1>3, G2Snoop
<1>5. 1 \in Ix(Ent(K, a))
  BY <1>1, EnIs DEF FrontEv
<1>6. PICK m : m = Event(cmd, a, "below", 0)
  OBVIOUS
<1>7. SnoopsSent(ch, a, T, m, ch2)
  <2>1. T \in SUBSET Cores /\ cmd \in SnoopCmds
    BY DEF MayAwait
  <2>2. QED BY <1>1, <1>6, <2>1, SnoopsIs
<1>8. QED BY <1>1, <1>4, <1>5, <1>7 DEF Handed, SnoopsSent

(* A request waits for them. *)
LEMMA G2AwaitReq ==
    ASSUME NEW L, NEW K, NEW ch0, NEW ch, NEW ev, NEW inMSHR, Req2(L, K, ch0, ch, ev, inMSHR),
           NEW T, NEW cmd, NEW st, MayAwait(K.line[ev.addr], ev, T, cmd, st), L2Await(K, ch, ev, inMSHR, T, cmd, st)
    PROVE  Done2(L)
<1>1. PICK a : a = ev.addr
  OBVIOUS
<1>2. a \in Addrs /\ EvOK2(ev, a)
  BY <1>1 DEF Req2
<1>3. CASE Status(K, ev, inMSHR) # "OK"
  <2>1. L2Stall(K, ch, ev, inMSHR)
    BY <1>3 DEF L2Await
  <2>2. QED BY <2>1, G2StallReq
<1>4. CASE Status(K, ev, inMSHR) = "OK"
  <2>1. PICK K1 : K1 = L2Allocate(K, ev, inMSHR)
    OBVIOUS
  <2>2. PICK KS : KS = [Snoop(K1, a, T) EXCEPT !.line[a].st = st]
    OBVIOUS
  <2>3. PICK K2 : K2 = [KS EXCEPT !.mshr = setInProgress(@, a)]
    OBVIOUS
  <2>4. PICK ch2 : ch2 = SendSnoops(ch, a, T, cmd)
    OBVIOUS
  <2>5. K2 = [Snoop(K1, a, T) EXCEPT !.line[a].st = st, !.mshr = setInProgress(@, a)]
    BY <2>2, <2>3
  <2>6. Put2(K2, ch2)
    BY <1>1, <1>4, <2>1, <2>4, <2>5 DEF L2Await
  <2>7. K1.line = K.line /\ Serve2(L, K1, ch, ev, a)
    BY <1>1, <1>4, <2>1, G2Alloc
  <2>8. SnoopTo(K1, a, T, st, KS) /\ SetProg(KS, a, K2) /\ MayAwait(K1.line[a], ev, T, cmd, st)
    BY <1>1, <2>2, <2>3, <2>7 DEF SnoopTo, SetProg
  <2>9. KK(KS) /\ Body2(L, KS, ch2) /\ Handed(KS, a) /\ FrontEv(En(KS), a) /\ NoToken(ch2[ToMem][a], ch2[FromMem][a])
    BY <1>2, <2>4, <2>7, <2>8, ServeSnoop
  <2>10. Good2(L, K2, ch2)
    BY <2>8, <2>9, G2Prog
  <2>11. QED BY <2>6, <2>10, PutDone
<1>5. QED BY <1>3, <1>4

(* What sending a response does. *)
LEMMA SendUp ==
    ASSUME NEW ch, Mail(ch), NEW c \in Cores, NEW a \in Addrs, NEW m, m.addr = a, m.cmd \in {"GetSResp", "GetXResp", "FlushLineResp"},
           NEW ch2, ch2 = Send(ch, Up(c), m)
    PROVE  /\ Ext(ch[Up(c)][a], m, ch2[Up(c)][a]) /\ Between(c, a, ch, ch2) /\ ch2[Down(c)][a] = ch[Down(c)][a]
           /\ ch2[ToMem][a] = ch[ToMem][a] /\ ch2[FromMem][a] = ch[FromMem][a]
<1>1. MsgOK(m, Up(c), a)
  BY LinkIs DEF MsgOK, RespCmds
<1>2. Mail(ch2) /\ Ext(ch[Up(c)][a], m, ch2[Up(c)][a]) /\ Others(ch, Up(c), a, ch2)
  BY <1>1, LinkIs, SendIs
<1>3. \A d \in Cores : d # c => ch2[Up(d)][a] = ch[Up(d)][a] /\ ch2[Down(d)][a] = ch[Down(d)][a]
  BY <1>2, LinkIs DEF Others
<1>4. QED BY <1>2, <1>3, LinkIs DEF Others, Between

(* Two steps. *)
LEMMA BetweenTrans ==
    ASSUME NEW c, NEW a, NEW ch, NEW ch1, NEW ch2, Between(c, a, ch, ch1), Between(c, a, ch1, ch2) PROVE Between(c, a, ch, ch2)
BY DEF Between

(* A grant of what was asked for. *)
LEMMA FitsGrant ==
    ASSUME NEW c, NEW s, NEW b, NEW u, NEW d, NEW l, NEW R, NEW h, Pair(c, s, b, u, d, l, R, h), NEW x \in h, NEW m,
           (x = "GetS" /\ m.cmd \in Grants) \/ (x = "GetX" /\ m.cmd = "GetXResp")
    PROVE  Fits(m, b)
<1>1. b \in {"none"} \cup CoreCmds /\ b # "none" /\ x = Asks(b)
  BY DEF Pair, Agree, StateFits, Tokens
<1>2. QED BY <1>1 DEF Fits, Asks, CoreCmds, Grants

(* The response cmd grants x. *)
GrantFits(x, cmd) == (x = "GetS" /\ cmd \in Grants) \/ (x = "GetX" /\ cmd = "GetXResp")

(* A request that waits in h is granted the line. *)
LEMMA PairServed ==
    ASSUME NEW c, NEW s, NEW b, NEW u, NEW u2, NEW m, NEW d, NEW l, NEW ln, NEW h,
           Pair(c, s, b, u, d, l, {}, h), NEW x \in h, Ext(u, m, u2), GrantFits(x, m.cmd),
           ~Acking(ln.st), InView(c, ln), m.cmd = "GetXResp" => ln.owner = c, l.owner = c => ln.owner = c,
           ln.owner = c => l.owner = c \/ m.cmd = "GetXResp"
    PROVE  Pair(c, s, b, u2, d, ln, {}, {})
<1>1. Fits(m, b) /\ m.cmd \in Grants /\ h # {}
  BY FitsGrant DEF GrantFits, Grants
<1>2. QED BY <1>1, PairGrant

(* What a grant does to the line. *)
Grant2(l, c, cmd, ln) ==
    /\ l.st \in Valid /\ ln.st \in Valid /\ Line2(ln, {}, 0) /\ InView(c, ln) /\ (cmd = "GetXResp" => ln.owner = c) /\ (l.owner = c => ln.owner = c)
    /\ (ln.owner = c => l.owner = c \/ cmd = "GetXResp")
    /\ \A d \in Cores : d # c => (InView(d, l) => InView(d, ln)) /\ (l.owner = d <=> ln.owner = d)

(* A stable state. *)
LEMMA ValidIs == ASSUME NEW st \in Valid PROVE ~Acking(st) /\ st # NoLine /\ st \notin {"IS", "IM", "S_B", "I_B", "I", NoLine}
BY DEF Valid, Acking, NoLine

(* The L2 answers a request at once. *)
LEMMA G2GrantReq ==
    ASSUME NEW L, NEW K, NEW ch0, NEW ch, NEW ev, NEW inMSHR, Req2(L, K, ch0, ch, ev, inMSHR),
           NEW ln, NEW cmd, Grant2(K.line[ev.addr], ev.src, cmd, ln), GrantFits(ev.cmd, cmd),
           NEW KL, SetLine(K, ev.addr, ln, KL), NEW m, m.cmd = cmd, m.addr = ev.addr,
           Put2(cleanUpAfterRequest(KL, ev.addr, inMSHR), Send(ch, Up(ev.src), m))
    PROVE  Done2(L)
<1>1. PICK a, c : a = ev.addr /\ c = ev.src
  OBVIOUS
<1>2. a \in Addrs /\ EvOK2(ev, a) /\ c \in Cores /\ a \in K.done /\ inMSHR \in BOOLEAN
  BY <1>1 DEF Req2, EvOK2
<1>3. PICK K2, ch2 : K2 = cleanUpAfterRequest(KL, a, inMSHR) /\ ch2 = Send(ch, Up(c), m)
  OBVIOUS
<1>4. PICK l : l = K.line[a]
  OBVIOUS
<1>5. Grant2(l, c, cmd, ln) /\ ~Acking(l.st) /\ ~Acking(ln.st) /\ l.st # NoLine /\ l.st \notin {"IS", "IM", "S_B", "I_B", "I", NoLine}
  BY <1>1, <1>4, ValidIs DEF Grant2
<1>6. Handed(K, a)
  BY <1>1, <1>4, <1>5, G2Handed
<1>7. cmd \in {"GetSResp", "GetXResp", "FlushLineResp"}
  BY DEF GrantFits, Grants
<1>8. PICK s, b : s = L[c].line[a].st /\ b = Busy(L[c], a)
  OBVIOUS
<1>9. SetLine(K, a, ln, KL)
  BY <1>1
<1>10. CASE inMSHR
  <2>1. Good2(L, K, ch) /\ Mail(ch) /\ FrontEv(En(K), a) /\ Ent(K, a)[1].ev = ev /\ NoToken(ch[ToMem][a], ch[FromMem][a])
        /\ GoodAt(L, K, ch, a) /\ KK(K)
    BY <1>1, <1>2, <1>10 DEF Req2, Serve2, Ready2, Good2, Body2
  <2>2. K.resp[a] = {}
    BY <1>4, <1>5, <2>1 DEF GoodAt, Line2, LineOK
  <2>3. ev.cmd \in HC(c, K, a)
    BY <1>1, <1>2, <2>1, FrontHC
  <2>4. /\ Ext(ch[Up(c)][a], m, ch2[Up(c)][a]) /\ Between(c, a, ch, ch2) /\ ch2[Down(c)][a] = ch[Down(c)][a]
        /\ ch2[ToMem][a] = ch[ToMem][a] /\ ch2[FromMem][a] = ch[FromMem][a]
    BY <1>1, <1>2, <1>3, <1>7, <2>1, SendUp
  <2>5. Pair(c, s, b, ch[Up(c)][a], ch[Down(c)][a], l, {}, HC(c, K, a))
    BY <1>2, <1>4, <1>8, <2>1, <2>2 DEF GoodAt, PairOf
  <2>6. Pair(c, s, b, ch2[Up(c)][a], ch[Down(c)][a], ln, {}, {})
    BY <1>5, <2>3, <2>4, <2>5, PairServed DEF Grant2
  <2>7. PICK KP : KP = [KL EXCEPT !.mshr = removeFront(@, a)]
    OBVIOUS
  <2>8. K2 = Replay(KP, a)
    BY <1>3, <1>10, <2>7 DEF cleanUpAfterRequest
  <2>9. Popped(KL, a, c, KP)
    <3>1. En(KL) = En(K) /\ Ent(KL, a) = Ent(K, a)
      <4>1. "st" \in DOMAIN ln /\ Ctl(K)
        BY <1>5, <2>1, KKEntry DEF Grant2, Line2, Fields
      <4>2. KL.mshr = K.mshr
        BY <1>2, <1>9, <4>1, SetLineIs
      <4>3. QED BY <4>2 DEF En, Ent
    <3>2. QED BY <1>1, <2>1, <2>7, <3>1 DEF Popped, SetPop
  <2>10. Good2(L, K2, ch2)
    <3>1. \A d \in Cores : d # c => (InView(d, K.line[a]) => InView(d, ln)) /\ (K.line[a].owner = d <=> ln.owner = d)
      BY <1>4, <1>5 DEF Grant2
    <3>2. Line2(ln, {}, 0) /\ ~Acking(K.line[a].st)
      BY <1>4, <1>5 DEF Grant2
    <3>3. Pair(c, L[c].line[a].st, Busy(L[c], a), ch2[Up(c)][a], ch2[Down(c)][a], ln, {}, {})
      BY <1>8, <2>4, <2>6
    <3>4. NoToken(ch2[ToMem][a], ch2[FromMem][a])
      BY <2>1, <2>4
    <3>5. QED BY <1>2, <1>5, <1>6, <1>9, <2>1, <2>4, <2>8, <2>9, <3>1, <3>2, <3>3, <3>4, G2Serve
  <2>11. QED BY <1>1, <1>3, <2>10, PutDone
<1>11. CASE ~inMSHR
  <2>1. Good2(L, K, ch0) /\ Fresh2(L, K, ch0, ch, ev, a) /\ Took(ch0, ev, a, ch) /\ GoodAt(L, K, ch0, a) /\ KK(K) /\ Mail(ch)
    BY <1>1, <1>2, <1>11 DEF Req2, Fresh2, Came2, Good2, Body2, Took
  <2>2. K.resp[a] = {}
    BY <1>4, <1>5, <2>1 DEF GoodAt, Line2, LineOK
  <2>3. /\ HC(c, K, a) = {}
        /\ Pair(c, s, b, ch[Up(c)][a], ch[Down(c)][a], l, {}, {ev.cmd})
    <3>1. HC(ev.src, K, a) = {} /\ Pair(ev.src, L[ev.src].line[a].st, Busy(L[ev.src], a), ch[Up(ev.src)][a], ch[Down(ev.src)][a],
                   K.line[a], K.resp[a], {ev.cmd})
      BY <1>2, <2>1, FreshPair
    <3>2. QED BY <1>1, <1>4, <1>8, <2>2, <3>1
  <2>4. /\ Ext(ch[Up(c)][a], m, ch2[Up(c)][a]) /\ Between(c, a, ch, ch2) /\ ch2[Down(c)][a] = ch[Down(c)][a]
        /\ ch2[ToMem][a] = ch[ToMem][a] /\ ch2[FromMem][a] = ch[FromMem][a]
    BY <1>1, <1>2, <1>3, <1>7, <2>1, SendUp
  <2>5. Between(c, a, ch0, ch) /\ ch[ToMem][a] = ch0[ToMem][a] /\ ch[FromMem][a] = ch0[FromMem][a]
    <3>1. Took(ch0, ev, a, ch) /\ ev.src \in Cores /\ a \in Addrs
      BY <1>1, <1>2, <2>1
    <3>2. Between(ev.src, a, ch0, ch) /\ ch[ToMem][a] = ch0[ToMem][a] /\ ch[FromMem][a] = ch0[FromMem][a]
      BY <3>1, TookIs
    <3>3. QED BY <1>1, <3>2
  <2>6. Pair(c, s, b, ch2[Up(c)][a], ch[Down(c)][a], ln, {}, {})
    <3>1. ev.cmd \in {ev.cmd}
      OBVIOUS
    <3>2. QED BY <1>5, <2>3, <2>4, <3>1, PairServed DEF Grant2
  <2>8. K2 = Replay(KL, a)
    BY <1>3, <1>11 DEF cleanUpAfterRequest
  <2>9. Popped(KL, a, c, KL)
    <3>1. En(KL) = En(K) /\ Ent(KL, a) = Ent(K, a)
      <4>1. "st" \in DOMAIN ln /\ Ctl(K)
        BY <1>5, <2>1, KKEntry DEF Grant2, Line2, Fields
      <4>2. KL.mshr = K.mshr
        BY <1>2, <1>9, <4>1, SetLineIs
      <4>3. QED BY <4>2 DEF En, Ent
    <3>2. QED BY <2>3, <3>1 DEF Popped, HC
  <2>10. Good2(L, K2, ch2)
    <3>1. \A d \in Cores : d # c => (InView(d, K.line[a]) => InView(d, ln)) /\ (K.line[a].owner = d <=> ln.owner = d)
      BY <1>4, <1>5 DEF Grant2
    <3>2. Line2(ln, {}, 0) /\ ~Acking(K.line[a].st)
      BY <1>4, <1>5 DEF Grant2
    <3>3. Pair(c, L[c].line[a].st, Busy(L[c], a), ch2[Up(c)][a], ch2[Down(c)][a], ln, {}, {})
      BY <1>8, <2>4, <2>6
    <3>4. NoToken(ch2[ToMem][a], ch2[FromMem][a])
      <4>1. NoToken(ch0[ToMem][a], ch0[FromMem][a])
        BY <1>4, <1>5, <2>1, NoneMem DEF GoodAt
      <4>2. QED BY <2>4, <2>5, <4>1
    <3>5. Between(c, a, ch0, ch2)
      BY <2>4, <2>5, BetweenTrans
    <3>6. QED BY <1>2, <1>5, <1>6, <1>9, <2>1, <2>8, <2>9, <3>1, <3>2, <3>3, <3>4, <3>5, G2Serve
  <2>11. QED BY <1>1, <1>3, <2>10, PutDone
<1>12. QED BY <1>2, <1>10, <1>11

(* The snoop that calls a line back. *)
CallCmd(l) == IF l.owner # NoOwner THEN "FetchInv" ELSE "Inv"

(* Everybody that holds the line is called upon. *)
LEMMA HoldersAsk ==
    ASSUME NEW l, NEW R, NEW n, Line2(l, R, n), l.st \in Valid, NEW ev
    PROVE  MayAwait(l, ev, Holders(l), CallCmd(l), Inv[l.st])
<1>1. PICK st : st = Inv[l.st]
  OBVIOUS
<1>2. (l.st = "S" => st = "S_Inv") /\ (l.st = "E" => st = "E_Inv") /\ (l.st = "M" => st = "M_Inv")
  BY <1>1 DEF Inv
<1>3. l.st \in {"S", "E", "M"} /\ st \in {"S_Inv", "E_Inv", "M_Inv"} /\ Acking(st)
  BY <1>2 DEF Valid, Acking
<1>4. PICK ln : ln = AtState(l, st)
  OBVIOUS
<1>5. ln.st = st /\ ln.owner = l.owner /\ ln.sharers = l.sharers
  BY <1>4 DEF AtState, Line2, Fields
<1>6. CASE l.owner # NoOwner
  <2>1. Holders(l) = {l.owner} /\ CallCmd(l) = "FetchInv" /\ l.owner \in Cores /\ l.sharers = {} /\ l.st # "S"
    BY <1>6 DEF Holders, CallCmd, Line2, LineOK
  <2>2. st \in {"E_Inv", "M_Inv"}
    BY <1>2, <1>3, <2>1
  <2>3. LineOK(ln, {l.owner})
    BY <1>3, <1>5, <1>6, <2>1, <2>2 DEF LineOK, LineStates, NoLine
  <2>4. QED BY <1>1, <1>3, <1>4, <2>1, <2>2, <2>3 DEF MayAwait, SnoopCmds, Asked, InView
<1>7. CASE l.owner = NoOwner
  <2>1. Holders(l) = l.sharers /\ CallCmd(l) = "Inv" /\ l.sharers \in SUBSET Cores
    BY <1>7 DEF Holders, CallCmd, Line2
  <2>2. LineOK(ln, l.sharers)
    BY <1>3, <1>5, <1>7 DEF LineOK, LineStates, NoLine
  <2>3. \A c \in Cores : (InView(c, l) => c \in l.sharers) /\ l.owner # c
    BY <1>7, OwnerAssumption DEF InView
  <2>4. QED BY <1>1, <1>3, <1>4, <2>1, <2>2, <2>3 DEF MayAwait, SnoopCmds, Asked
<1>8. QED BY <1>6, <1>7

(* May be asked for anyone. *)
LEMMA MayMay ==
    ASSUME NEW K, NEW a, NEW T, NEW cmd, NEW st, \A ev : MayAwait(K.line[a], ev, T, cmd, st) PROVE MaySnoop(K, a, T, cmd, st)
<1>1. MayAwait(K.line[a], [src |-> NoOwner, cmd |-> "none"], T, cmd, st)
  OBVIOUS
<1>2. QED BY <1>1 DEF MayAwait, MaySnoop

(* A line that cannot leave yet is called back, unless it is busy. *)
LEMMA G2Call ==
    ASSUME NEW L, NEW K, NEW ch, Good2(L, K, ch), NEW v \in Addrs,
           NEW KS, KS = CallBack(K, v), NEW ch2, ch2 = SendCallBack(ch, K, v)
    PROVE  /\ KKBut(KS, v) /\ Body2(L, KS, ch2) /\ (1 \in Ix(Ent(K, v)) => KK(KS))
           /\ En(KS) = En(K) /\ Retries(KS) = Retries(K) /\ KS.done = K.done /\ No(KS) = No(K)
           /\ \A b \in Addrs : Ent(KS, b) = Ent(K, b)
<1>1. CASE ~Settled(K, v)
  <2>1. KS = K /\ ch2 = ch
    BY <1>1 DEF CallBack, SendCallBack
  <2>2. QED BY <2>1, KKButIs DEF Good2
<1>2. CASE Settled(K, v)
  <2>1. PICK l, st, T, cmd : l = K.line[v] /\ st = Inv[l.st] /\ T = Holders(l) /\ cmd = CallCmd(l)
    OBVIOUS
  <2>2. SnoopTo(K, v, T, st, KS) /\ ch2 = SendSnoops(ch, v, T, cmd)
    <3>1. KS = [Snoop(K, v, T) EXCEPT !.line[v].st = Inv[@]]
      BY <1>2, <2>1 DEF CallBack, InvalidateAll
    <3>2. Snoop(K, v, T).line = K.line
      BY KKEntry DEF Good2, Snoop, Ctl
    <3>3. KS = [Snoop(K, v, T) EXCEPT !.line[v].st = st]
      BY <2>1, <3>1, <3>2
    <3>4. QED BY <1>2, <2>1, <3>3 DEF SnoopTo, SendCallBack, SendInvalidateAll, CallCmd
  <2>3. Line2(l, K.resp[v], Acks(K, v)) /\ l.st \in Valid /\ Rts(K, v) = 0 /\ CountOK(K)
    BY <1>2, <2>1 DEF Good2, Body2, GoodAt, Settled, getPendingRetries, Rts, KK
  <2>4. \A ev : MayAwait(l, ev, T, cmd, st)
    BY <2>1, <2>3, HoldersAsk
  <2>5. MaySnoop(K, v, T, cmd, st)
    BY <2>1, <2>4, MayMay
  <2>6. ~Pend(Retries(K), v)
    BY <2>3 DEF CountOK
  <2>7. QED BY <2>2, <2>5, <2>6, G2Snoop
<1>3. QED BY <1>1, <1>2

(* The state of a miss. *)
MissFits2(cmd, st) == (cmd = "GetS" /\ st = "IS") \/ (cmd = "GetX" /\ st = "IM")

(* A GetS or GetX goes to memory. *)
LEMMA G2Forward ==
    ASSUME NEW L, NEW K, NEW ch, Good2(L, K, ch), NEW a \in Addrs, a \in K.done, NEW ev, ev.addr = a, Ready2(K, ch, a, ev),
           K.line[a].st \in {NoLine, "I"}, NEW st, MissFits2(ev.cmd, st), L2Forward(K, ch, ev, st)
    PROVE  Done2(L)
<1>1. PICK l, ln : l = K.line[a] /\ ln = AtState(l, st)
  OBVIOUS
<1>2. PICK K1 : K1 = [K EXCEPT !.line[a].st = st]
  OBVIOUS
<1>3. PICK K2 : K2 = [K1 EXCEPT !.mshr = setInProgress(@, a)]
  OBVIOUS
<1>4. PICK m : m = Event(ev.cmd, a, "L2", ev.id)
  OBVIOUS
<1>5. PICK ch2 : ch2 = Send(ch, ToMem, m)
  OBVIOUS
<1>6. Put2(K2, ch2)
  <2>1. K2 = [K EXCEPT !.line[a].st = st, !.mshr = setInProgress(@, a)]
    BY <1>2, <1>3
  <2>2. QED BY <1>4, <1>5, <2>1 DEF L2Forward
<1>7. m.cmd = ev.cmd /\ m.addr = a
  BY <1>4 DEF Event
<1>8. SetLine(K, a, ln, K1) /\ SetProg(K1, a, K2)
  BY <1>1, <1>2, <1>3 DEF SetLine, SetProg, AtState
<1>9. Line2(l, K.resp[a], Acks(K, a)) /\ l.st \in {NoLine, "I"}
  BY <1>1 DEF Good2, Body2, GoodAt
<1>10. ln.st = st /\ ln.owner = l.owner /\ ln.sharers = l.sharers /\ Fields(ln)
  BY <1>1, <1>9 DEF AtState, Line2, Fields
<1>11. l.owner = NoOwner /\ l.sharers = {} /\ ~Acking(l.st) /\ ~Acking(st) /\ st \in {"IS", "IM"}
  BY <1>9 DEF Line2, LineOK, Acking, MissFits2, NoLine
<1>12. Line2(ln, {}, 0)
  BY <1>10, <1>11, FS_EmptySet DEF Line2, LineOK, LineStates, NoLine
<1>13. \A c \in Cores : (InView(c, K.line[a]) => InView(c, ln)) /\ (K.line[a].owner = c <=> ln.owner = c)
  BY <1>1, <1>10 DEF InView
<1>14. MemFits(m, ln.st, ev) /\ m.cmd \in ReqCmds
  BY <1>7, <1>10 DEF MemFits, MissFits2, ReqCmds
<1>15. Good2(L, K2, ch2)
  BY <1>1, <1>5, <1>7, <1>8, <1>10, <1>11, <1>12, <1>13, <1>14, G2Start
<1>16. QED BY <1>6, <1>15, PutDone

(* new waits for the line v to be given back. *)
LEMMA G2Wait ==
    ASSUME NEW L, NEW K, NEW ch, Good2(L, K, ch), NEW v \in Addrs, NEW new \in Addrs, NEW ev, Ready2(K, ch, new, ev), ~Prog(K, new),
           K.line[new].st = NoLine, NEW KS, KS = CallBack(K, v), NEW ch2, ch2 = SendCallBack(ch, K, v),
           NEW K2, K2 = [KS EXCEPT !.mshr = insertEviction(@, v, new)]
    PROVE  Good2(L, K2, ch2)
<1>1. /\ KKBut(KS, v) /\ Body2(L, KS, ch2)
      /\ En(KS) = En(K) /\ Retries(KS) = Retries(K) /\ No(KS) = No(K)
  BY G2Call
<1>2. Handed(K, new) /\ FrontEv(En(K), new) /\ En(K)[new] = Ent(K, new)
  BY EnIs DEF Ready2
<1>3. Waits(Retries(KS), En(KS), No(KS), new) /\ ~Pointed(En(KS), new)
  BY <1>1, <1>2 DEF Waits, Handed, Hand, Prog, No
<1>4. /\ KK(K2) /\ Frame(KS, K2) /\ Retries(K2) = Retries(KS) /\ Regs(KS, v, K2)
      /\ Acks(K2, v) = Acks(KS, v) /\ SameEvents(Ent(KS, v), Ent(K2, v))
  BY <1>1, <1>3, KKEvict
<1>5. EntryOK(En(KS)) /\ Ctl(KS)
  BY <1>1, ButEntry
<1>6. \A b \in Addrs : Evs(Ent(KS, b), Ent(K2, b)) /\ Acks(K2, b) = Acks(KS, b)
  <2>1. \A b \in Addrs : b # v => Ent(K2, b) = Ent(KS, b) /\ Acks(K2, b) = Acks(KS, b)
    BY <1>4 DEF Regs, Ent, Acks
  <2>2. \A b \in Addrs : Evs(Ent(KS, b), Ent(KS, b))
    BY <1>5, EntLen, EvsSelf
  <2>3. QED BY <1>4, <2>1, <2>2 DEF Evs
<1>7. AcksOr0(KS, NoLine, K2)
  BY <1>6 DEF AcksOr0
<1>8. Body2(L, K2, ch2)
  BY <1>1, <1>4, <1>5, <1>6, <1>7, AddrsAssumption, B2Evs
<1>9. QED BY <1>4, <1>8 DEF Good2

(* processCacheMiss of the L2, with its eviction. *)
LEMMA G2MissReq ==
    ASSUME NEW L, NEW K0, NEW ch0, NEW ch, NEW ev, NEW inMSHR, Req2(L, K0, ch0, ch, ev, inMSHR),
           K0.line[ev.addr].st \in {NoLine, "I"}, NEW st, MissFits2(ev.cmd, st), L2Miss(K0, ch, ev, inMSHR, st)
    PROVE  Done2(L)
<1>1. PICK a, K : a = ev.addr /\ K = L2Allocate(K0, ev, inMSHR)
  OBVIOUS
<1>2. a \in Addrs /\ EvOK2(ev, a) /\ a \in K0.done
  BY <1>1 DEF Req2
<1>3. CASE Status(K0, ev, inMSHR) = "Reject"
  <2>1. PICK ch1 : ch1 = Rejection(K0, ch, ev, inMSHR)
    OBVIOUS
  <2>2. Good2(L, K, ch1) /\ K = K0
    BY <1>1, <1>3, <2>1, G2Reject
  <2>3. ~frontIs(K, ev)
    <3>1. ~inMSHR /\ Fresh2(L, K, ch0, ch, ev, a)
      BY <1>1, <1>3, <2>2 DEF Req2, Status
    <3>2. HC(ev.src, K, a) = {}
      BY <1>2, <3>1, FreshPair
    <3>3. KK(K) /\ Ctl(K)
      BY <3>1, KKEntry DEF Fresh2, Came2, Good2
    <3>4. SUFFICES ASSUME frontIs(K, ev) PROVE FALSE
      OBVIOUS
    <3>5. FrontEv(En(K), a) /\ getFrontEvent(K.mshr, a) = ev
      BY <1>1, <1>2, <3>3, <3>4, ExistsIs DEF frontIs
    <3>6. 1 \in Ix(Ent(K, a)) /\ Ent(K, a)[1].type = "Event" /\ Ent(K, a)[1].ev = ev
      BY <1>2, <3>3, <3>5, FrontIs, EnIs DEF FrontEv
    <3>7. QED BY <1>2, <3>2, <3>5, <3>6, FrontHC
  <2>4. Put2(K, ch1)
    BY <1>1, <2>1, <2>3 DEF L2Miss
  <2>5. QED BY <2>2, <2>4, PutDone
<1>4. CASE Status(K0, ev, inMSHR) # "Reject"
  <2>1. /\ Good2(L, K, ch) /\ K.line = K0.line /\ K.done = K0.done
        /\ frontIs(K, ev) => Serve2(L, K, ch, ev, a)
    BY <1>1, <1>4, G2Alloc
  <2>2. Rejection(K0, ch, ev, inMSHR) = ch
    BY <1>4 DEF Rejection
  <2>3. CASE ~frontIs(K, ev)
    <3>1. Put2(K, ch)
      BY <1>1, <2>2, <2>3 DEF L2Miss
    <3>2. QED BY <2>1, <3>1, PutDone
  <2>4. CASE frontIs(K, ev)
    <3>1. Good2(L, K, ch) /\ Ready2(K, ch, a, ev) /\ (Prog(K, a) => K.line[a].st \in Valid) /\ K.line[a].st \in {NoLine, "I"} /\ a \in K.done
      BY <1>1, <1>2, <2>1, <2>4 DEF Serve2
    <3>2. CASE K.line[a].st # NoLine
      <4>1. L2Forward(K, ch, ev, st)
        BY <1>1, <2>4, <3>2 DEF L2Miss
      <4>2. QED BY <1>1, <1>2, <3>1, <4>1, G2Forward
    <3>3. CASE K.line[a].st = NoLine
      <4>1. PICK v \in Victims(K, L2Lines) :
                 IF L2Evicted(K, v)
                 THEN L2Forward(L2Remove(K, v), L2Writeback(ch, K, v), ev, st)
                 ELSE Put2([CallBack(K, v) EXCEPT !.mshr = insertEviction(@, v, a)], SendCallBack(ch, K, v))
        BY <1>1, <2>4, <3>3 DEF L2Miss
      <4>2. v = NoLine \/ (v \in Addrs /\ v # a)
        BY <3>3, <4>1, VictimIs
      <4>3. CASE L2Evicted(K, v)
        <5>1. PICK K2, ch2 : K2 = L2Remove(K, v) /\ ch2 = L2Writeback(ch, K, v)
          OBVIOUS
        <5>2. /\ Good2(L, K2, ch2) /\ K2.done = K.done /\ Retries(K2) = Retries(K) /\ En(K2) = En(K)
              /\ \A b \in Addrs : Ent(K2, b) = Ent(K, b) /\ (b # v => K2.line[b] = K.line[b])
              /\ \A x \in Links, b \in Addrs : x # ToMem \/ b # v => ch2[x][b] = ch[x][b]
          BY <3>1, <4>2, <4>3, <5>1, G2Evict
        <5>3. a # v
          BY <1>2, <4>2, AddrsAssumption
        <5>4. K2.line[a] = K.line[a] /\ Ent(K2, a) = Ent(K, a) /\ ch2[ToMem][a] = ch[ToMem][a] /\ ch2[FromMem][a] = ch[FromMem][a]
          BY <1>2, <5>2, <5>3, MemLinks
        <5>5. Ready2(K2, ch2, a, ev)
          BY <3>1, <5>2, <5>4 DEF Ready2, Handed
        <5>6. L2Forward(K2, ch2, ev, st)
          BY <4>1, <4>3, <5>1
        <5>7. QED BY <1>1, <1>2, <3>1, <5>2, <5>4, <5>5, <5>6, G2Forward
      <4>4. CASE ~L2Evicted(K, v)
        <5>1. v \in Addrs
          BY <4>2, <4>4 DEF L2Evicted
        <5>2. PICK KS, ch2 : KS = CallBack(K, v) /\ ch2 = SendCallBack(ch, K, v)
          OBVIOUS
        <5>3. PICK K2 : K2 = [KS EXCEPT !.mshr = insertEviction(@, v, a)]
          OBVIOUS
        <5>4. Put2(K2, ch2)
          BY <4>1, <4>4, <5>2, <5>3
        <5>5. ~Prog(K, a)
          BY <3>1, <3>3, ValidIs
        <5>6. Good2(L, K2, ch2)
          BY <1>2, <3>1, <3>3, <5>1, <5>2, <5>3, <5>5, G2Wait
        <5>7. QED BY <5>4, <5>6, PutDone
      <4>5. QED BY <4>3, <4>4
    <3>4. QED BY <3>2, <3>3
  <2>5. QED BY <2>3, <2>4
<1>5. QED BY <1>3, <1>4

(* Parts of what is known of a request. *)
LEMMA ReqLine ==
    ASSUME NEW L, NEW K, NEW ch0, NEW ch, NEW ev, NEW inMSHR, Req2(L, K, ch0, ch, ev, inMSHR)
    PROVE  Line2(K.line[ev.addr], K.resp[ev.addr], Acks(K, ev.addr)) /\ Ctl(K)
<1>1. CASE inMSHR
  BY <1>1, KKEntry DEF Req2, Serve2, Good2, Body2, GoodAt
<1>2. CASE ~inMSHR
  BY <1>2, KKEntry DEF Req2, Fresh2, Came2, Good2, Body2, GoodAt
<1>3. QED BY <1>1, <1>2

(* The line with c as its owner, or among its sharers. *)
OwnedBy(l, c)  == [l EXCEPT !.owner = c]
SharedBy(l, c) == [l EXCEPT !.sharers = @ \cup {c}]
Taken(l, c)    == [l EXCEPT !.owner = c, !.sharers = @ \ {c}]

(* A shared copy is granted. *)
LEMMA GrantShared ==
    ASSUME NEW l, NEW R, NEW n, Line2(l, R, n), l.st \in Valid, l.owner = NoOwner, NEW c \in Cores
    PROVE  Grant2(l, c, "GetSResp", SharedBy(l, c))
<1>1. PICK ln : ln = SharedBy(l, c)
  OBVIOUS
<1>2. ln.st = l.st /\ ln.owner = NoOwner /\ ln.sharers = l.sharers \cup {c} /\ Fields(ln)
  BY <1>1 DEF SharedBy, Line2, Fields
<1>3. Line2(ln, {}, 0)
  BY <1>2, FS_EmptySet, ValidIs DEF Line2, LineOK, Valid, Acking
<1>4. \A d \in Cores : d # NoOwner
  BY OwnerAssumption
<1>5. QED BY <1>1, <1>2, <1>3, <1>4 DEF Grant2, InView

(* The line is granted to its only holder. *)
LEMMA GrantOwned ==
    ASSUME NEW l, NEW R, NEW n, Line2(l, R, n), l.st \in {"E", "M"}, l.owner = NoOwner, NEW c \in Cores, l.sharers \ {c} = {},
           NEW ln, ln = Taken(l, c)
    PROVE  Grant2(l, c, "GetXResp", ln)
<1>2. ln.st = l.st /\ ln.owner = c /\ ln.sharers = {} /\ Fields(ln)
  BY DEF Taken, Line2, Fields
<1>3. Line2(ln, {}, 0)
  BY <1>2, FS_EmptySet DEF Line2, LineOK, Acking, NoLine
<1>4. \A d \in Cores : d # NoOwner
  BY OwnerAssumption
<1>5. \A d \in Cores : d # c => ~InView(d, l)
  BY <1>4 DEF InView
<1>6. QED BY <1>2, <1>3, <1>4, <1>5 DEF Grant2, InView, Valid

(* handleGetS of the L2. *)
LEMMA G2GetS ==
    ASSUME NEW L, NEW K, NEW ch0, NEW ch, NEW ev, NEW inMSHR, Req2(L, K, ch0, ch, ev, inMSHR), ev.cmd = "GetS", L2GetS(K, ch, ev, inMSHR)
    PROVE  Done2(L)
<1>1. PICK a, l, c : a = ev.addr /\ l = K.line[a] /\ c = ev.src
  OBVIOUS
<1>2. Line2(l, K.resp[a], Acks(K, a)) /\ Ctl(K) /\ a \in Addrs /\ c \in Cores
  BY <1>1, ReqLine DEF Req2, EvOK2
<1>3. PICK exclusive \in BOOLEAN : exclusive <=> (l.st # "S" /\ l.sharers = {})
  OBVIOUS
<1>4. CASE l.st \in Valid /\ l.owner = NoOwner
  <2>1. Put2(cleanUpAfterRequest(
                      IF exclusive THEN [K EXCEPT !.line[a].owner = c]
                      ELSE [K EXCEPT !.line[a].sharers = @ \cup {c}], a, inMSHR),
                   Send(ch, Up(c),
                        WithData(Event(IF exclusive THEN "GetXResp" ELSE "GetSResp",
                                       a, "L2", ev.id), l.data, FALSE)))
    BY <1>1, <1>3, <1>4, ValidIs DEF L2GetS
  <2>2. CASE exclusive
    <3>1. PICK KL, m : KL = [K EXCEPT !.line[a].owner = c] /\ m = WithData(Event("GetXResp", a, "L2", ev.id), l.data, FALSE)
      OBVIOUS
    <3>2. m.cmd = "GetXResp" /\ m.addr = a
      BY <3>1 DEF WithData, Event
    <3>3. SetLine(K, a, OwnedBy(l, c), KL)
      BY <1>1, <3>1 DEF SetLine, OwnedBy
    <3>4. l.sharers = {} /\ l.st \in {"E", "M"} /\ OwnedBy(l, c) = Taken(l, c)
      <4>1. l.sharers = {} /\ l.st \in {"E", "M"}
        BY <1>3, <1>4, <2>2 DEF Valid
      <4>2. l.sharers \ {c} = l.sharers
        BY <4>1
      <4>3. [l EXCEPT !.owner = c] = [[l EXCEPT !.owner = c] EXCEPT !.sharers = @ \ {c}]
        BY <1>2, <4>2 DEF Line2, Fields
      <4>4. QED BY <4>1, <4>3 DEF OwnedBy, Taken
    <3>5. Grant2(l, c, "GetXResp", OwnedBy(l, c))
      BY <1>2, <1>4, <3>4, GrantOwned
    <3>6. GrantFits(ev.cmd, "GetXResp")
      BY DEF GrantFits, Grants
    <3>7. Put2(cleanUpAfterRequest(KL, a, inMSHR), Send(ch, Up(c), m))
      BY <2>1, <2>2, <3>1
    <3>8. QED BY <1>1, <3>2, <3>3, <3>5, <3>6, <3>7, G2GrantReq
  <2>3. CASE ~exclusive
    <3>1. PICK KL, m : KL = [K EXCEPT !.line[a].sharers = @ \cup {c}] /\ m = WithData(Event("GetSResp", a, "L2", ev.id), l.data, FALSE)
      OBVIOUS
    <3>2. m.cmd = "GetSResp" /\ m.addr = a
      BY <3>1 DEF WithData, Event
    <3>3. SetLine(K, a, SharedBy(l, c), KL)
      BY <1>1, <3>1 DEF SetLine, SharedBy
    <3>5. Grant2(l, c, "GetSResp", SharedBy(l, c))
      BY <1>2, <1>4, GrantShared
    <3>6. GrantFits(ev.cmd, "GetSResp")
      BY DEF GrantFits, Grants
    <3>7. Put2(cleanUpAfterRequest(KL, a, inMSHR), Send(ch, Up(c), m))
      BY <2>1, <2>3, <3>1
    <3>8. QED BY <1>1, <3>2, <3>3, <3>5, <3>6, <3>7, G2GrantReq
  <2>4. QED BY <2>2, <2>3
<1>5. CASE l.st \in {"E", "M"} /\ l.owner # NoOwner
  <2>1. L2Await(K, ch, ev, inMSHR, {l.owner}, "FetchInvX", InvX[l.st])
    BY <1>1, <1>5, ValidIs DEF L2GetS, NoLine, Valid
  <2>2. PICK st, T : st = InvX[l.st] /\ T = {l.owner}
    OBVIOUS
  <2>3. st \in {"E_InvX", "M_InvX"} /\ Acking(st)
    BY <1>5, <2>2 DEF InvX, Acking
  <2>4. PICK ln : ln = AtState(l, st)
    OBVIOUS
  <2>5. ln.st = st /\ ln.owner = l.owner /\ ln.sharers = l.sharers /\ l.sharers = {} /\ l.owner \in Cores
    BY <1>2, <1>5, <2>4 DEF AtState, Line2, Fields, LineOK
  <2>6. LineOK(ln, T)
    BY <1>5, <2>2, <2>3, <2>5 DEF LineOK, LineStates, NoLine
  <2>7. \A d \in Cores : InView(d, l) => d \in T
    BY <2>2, <2>5 DEF InView
  <2>8. MayAwait(l, ev, T, "FetchInvX", st)
    BY <1>5, <2>2, <2>3, <2>4, <2>5, <2>6, <2>7 DEF MayAwait, SnoopCmds, Asked
  <2>9. QED BY <1>1, <2>1, <2>2, <2>8, G2AwaitReq
<1>6. CASE l.st \in {NoLine, "I"}
  <2>1. L2Miss(K, ch, ev, inMSHR, "IS")
    BY <1>1, <1>6, ValidIs DEF L2GetS, NoLine, Valid
  <2>2. QED BY <1>1, <1>6, <2>1, G2MissReq DEF MissFits2
<1>7. CASE l.st \notin Valid \cup {NoLine, "I"}
  <2>1. L2Stall(K, ch, ev, inMSHR)
    BY <1>1, <1>7 DEF L2GetS, Valid
  <2>2. QED BY <2>1, G2StallReq
<1>8. QED BY <1>1, <1>4, <1>5, <1>6, <1>7 DEF L2GetS

(* The line is dirty. *)
Upgraded(K, a, K2) == K2 = [K EXCEPT !.line[a].st = "M"]

(* The line of a request turns into M. *)
LEMMA ReqUpgrade ==
    ASSUME NEW L, NEW K, NEW ch0, NEW ch, NEW ev, NEW inMSHR, Req2(L, K, ch0, ch, ev, inMSHR), K.line[ev.addr].st \in Valid,
           NEW K2, Upgraded(K, ev.addr, K2)
    PROVE  Req2(L, K2, ch0, ch, ev, inMSHR) /\ K2.line[ev.addr] = AtState(K.line[ev.addr], "M")
<1>1. PICK a, l, ln : a = ev.addr /\ l = K.line[a] /\ ln = AtState(l, "M")
  OBVIOUS
<1>2. Line2(l, K.resp[a], Acks(K, a)) /\ Ctl(K) /\ a \in Addrs /\ inMSHR \in BOOLEAN
  BY <1>1, ReqLine DEF Req2
<1>3. ln.st = "M" /\ ln.owner = l.owner /\ ln.sharers = l.sharers /\ Fields(ln)
  BY <1>1, <1>2 DEF AtState, Line2, Fields
<1>4. Line2(ln, {}, 0)
  BY <1>2, <1>3, FS_EmptySet DEF Line2, LineOK, LineStates, Acking, NoLine
<1>5. SetLine(K, a, ln, K2)
  BY <1>1 DEF SetLine, AtState, Upgraded
<1>6. ~Acking(l.st) /\ ~Acking(ln.st) /\ l.st # NoLine /\ l.st \notin {"IS", "IM", "S_B", "I_B", "I", NoLine} /\ ln.st \in Valid
  BY <1>1, <1>3, ValidIs DEF Valid, Acking
<1>7. ASSUME NEW c1, Good2(L, K, c1)
      PROVE  /\ Good2(L, K2, c1) /\ K2.done = K.done /\ En(K2) = En(K) /\ Retries(K2) = Retries(K)
             /\ K2.line[a] = ln /\ Ent(K2, a) = Ent(K, a)
  <2>1. \A c \in Cores : (InView(c, K.line[a]) => InView(c, ln)) /\ (K.line[a].owner = c <=> ln.owner = c)
    BY <1>1, <1>3 DEF InView
  <2>2. a \notin No(K) /\ Mail(c1) /\ Live(K, a, ln.st)
    BY <1>1, <1>6, <1>7 DEF No, Good2, Body2, Live
  <2>3. NoToken(c1[ToMem][a], c1[FromMem][a])
    BY <1>1, <1>2, <1>6, <1>7, NoneMem DEF Good2, Body2, GoodAt
  <2>4. Posted(c1, a, c1) /\ ~Acking(K.line[a].st)
    BY <1>1, <1>6, <2>2, PostedSelf
  <2>5. /\ Good2(L, K2, c1) /\ K2.mshr = K.mshr /\ K2.retry = K.retry /\ K2.rBuf = K.rBuf /\ K2.done = K.done
        /\ En(K2) = En(K) /\ Retries(K2) = Retries(K) /\ K2.resp = K.resp
        /\ K2.line[a] = ln /\ \A b \in Addrs : Ent(K2, b) = Ent(K, b) /\ (b # a => K2.line[b] = K.line[b])
    BY <1>2, <1>4, <1>5, <1>6, <1>7, <2>1, <2>2, <2>3, <2>4, G2Line
  <2>6. QED BY <1>2, <2>5
<1>8. CASE inMSHR
  <2>1. Good2(L, K, ch) /\ Ready2(K, ch, a, ev)
    BY <1>1, <1>8 DEF Req2, Serve2
  <2>2. /\ Good2(L, K2, ch) /\ K2.done = K.done /\ En(K2) = En(K) /\ Retries(K2) = Retries(K)
        /\ K2.line[a] = ln /\ Ent(K2, a) = Ent(K, a)
    BY <1>7, <2>1
  <2>3. Serve2(L, K2, ch, ev, a)
    BY <1>6, <2>1, <2>2 DEF Serve2, Ready2, Handed
  <2>4. QED BY <1>1, <1>8, <2>2, <2>3 DEF Req2
<1>9. CASE ~inMSHR
  <2>1. Good2(L, K, ch0) /\ Fresh2(L, K, ch0, ch, ev, a)
    BY <1>1, <1>9 DEF Req2, Fresh2, Came2
  <2>2. /\ Good2(L, K2, ch0) /\ K2.done = K.done /\ En(K2) = En(K) /\ Retries(K2) = Retries(K)
        /\ K2.line[a] = ln
    BY <1>7, <2>1
  <2>3. ~Pend(Retries(K), a)
    BY <1>1, <1>6, <2>1 DEF Fresh2, Came2, No
  <2>4. Fresh2(L, K2, ch0, ch, ev, a)
    BY <2>1, <2>2, <2>3 DEF Fresh2, Came2
  <2>5. QED BY <1>1, <1>9, <2>2, <2>4 DEF Req2
<1>10. QED BY <1>2, <1>8, <1>9

(* handleGetX of the L2 on a line that is not upgraded first. *)
LEMMA G2GetXOn ==
    ASSUME NEW L, NEW K, NEW ch0, NEW ch, NEW ev, NEW inMSHR, Req2(L, K, ch0, ch, ev, inMSHR), ev.cmd = "GetX",
           NEW l, l = K.line[ev.addr], l.st \notin {"S", "E"}, NEW others, others = l.sharers \ {ev.src},
           \/ /\ l.st = "M" /\ others # {}
              /\ L2Await(K, ch, ev, inMSHR, others, "Inv", "M_Inv")
           \/ /\ l.st = "M" /\ others = {} /\ l.owner # NoOwner
              /\ L2Await(K, ch, ev, inMSHR, {l.owner}, "FetchInv", "M_Inv")
           \/ /\ l.st = "M" /\ others = {} /\ l.owner = NoOwner
              /\ Put2(cleanUpAfterRequest(
                      [K EXCEPT !.line[ev.addr].owner = ev.src, !.line[ev.addr].sharers = @ \ {ev.src}],
                      ev.addr, inMSHR),
                   Send(ch, Up(ev.src), WithData(Event("GetXResp", ev.addr, "L2", ev.id), l.data, FALSE)))
           \/ /\ l.st \in {NoLine, "I"}
              /\ L2Miss(K, ch, ev, inMSHR, "IM")
           \/ /\ l.st \notin {"M", NoLine, "I"}
              /\ L2Stall(K, ch, ev, inMSHR)
    PROVE  Done2(L)
<1>1. PICK a, c : a = ev.addr /\ c = ev.src
  OBVIOUS
<1>2. Line2(l, K.resp[a], Acks(K, a)) /\ Ctl(K) /\ a \in Addrs /\ c \in Cores
  BY <1>1, ReqLine DEF Req2, EvOK2
<1>3. PICK ln : ln = AtState(l, "M_Inv")
  OBVIOUS
<1>4. ln.st = "M_Inv" /\ ln.owner = l.owner /\ ln.sharers = l.sharers /\ Acking("M_Inv")
  BY <1>2, <1>3 DEF AtState, Line2, Fields, Acking
<1>5. CASE /\ l.st = "M" /\ others # {}
           /\ L2Await(K, ch, ev, inMSHR, others, "Inv", "M_Inv")
  <2>1. l.owner = NoOwner /\ others \in SUBSET Cores
    BY <1>2, <1>5 DEF Line2, LineOK
  <2>2. LineOK(ln, others)
    BY <1>4, <2>1 DEF LineOK, LineStates, NoLine
  <2>3. \A d \in Cores : (d \notin others /\ InView(d, l) => d = ev.src) /\ l.owner # d
    BY <2>1, OwnerAssumption DEF InView
  <2>4. MayAwait(l, ev, others, "Inv", "M_Inv")
    BY <1>3, <1>4, <1>5, <2>1, <2>2, <2>3 DEF MayAwait, SnoopCmds, Asked
  <2>5. QED BY <1>5, <2>4, G2AwaitReq
<1>6. CASE /\ l.st = "M" /\ others = {} /\ l.owner # NoOwner
           /\ L2Await(K, ch, ev, inMSHR, {l.owner}, "FetchInv", "M_Inv")
  <2>1. l.sharers = {} /\ {l.owner} \in SUBSET Cores
    BY <1>2, <1>6 DEF Line2, LineOK
  <2>2. LineOK(ln, {l.owner})
    BY <1>4, <1>6, <2>1 DEF LineOK, LineStates, NoLine
  <2>3. \A d \in Cores : InView(d, l) => d \in {l.owner}
    BY <2>1 DEF InView
  <2>4. PICK T : T = {l.owner}
    OBVIOUS
  <2>5. MayAwait(l, ev, T, "FetchInv", "M_Inv")
    BY <1>3, <1>4, <1>6, <2>1, <2>2, <2>3, <2>4 DEF MayAwait, SnoopCmds, Asked
  <2>6. QED BY <1>6, <2>4, <2>5, G2AwaitReq
<1>7. CASE /\ l.st = "M" /\ others = {} /\ l.owner = NoOwner
           /\ Put2(cleanUpAfterRequest(
                      [K EXCEPT !.line[a].owner = c, !.line[a].sharers = @ \ {c}],
                      a, inMSHR),
                   Send(ch, Up(c), WithData(Event("GetXResp", a, "L2", ev.id), l.data, FALSE)))
  <2>1. PICK KL, m : KL = [K EXCEPT !.line[a].owner = c, !.line[a].sharers = @ \ {c}]
                     /\ m = WithData(Event("GetXResp", a, "L2", ev.id), l.data, FALSE)
    OBVIOUS
  <2>2. m.cmd = "GetXResp" /\ m.addr = a
    BY <2>1 DEF WithData, Event
  <2>3. SetLine(K, a, Taken(l, c), KL)
    BY <1>1, <1>2, <2>1 DEF SetLine, Taken, Ctl
  <2>4. Grant2(l, c, "GetXResp", Taken(l, c))
    BY <1>1, <1>2, <1>7, GrantOwned
  <2>5. GrantFits(ev.cmd, "GetXResp")
    BY DEF GrantFits, Grants
  <2>6. Put2(cleanUpAfterRequest(KL, a, inMSHR), Send(ch, Up(c), m))
    BY <1>7, <2>1
  <2>7. QED BY <1>1, <2>2, <2>3, <2>4, <2>5, <2>6, G2GrantReq
<1>8. CASE l.st \in {NoLine, "I"} /\ L2Miss(K, ch, ev, inMSHR, "IM")
  BY <1>8, G2MissReq DEF MissFits2
<1>9. CASE L2Stall(K, ch, ev, inMSHR)
  BY <1>9, G2StallReq
<1>10. QED BY <1>1, <1>5, <1>6, <1>7, <1>8, <1>9

(* handleGetX of the L2. *)
LEMMA G2GetX ==
    ASSUME NEW L, NEW K0, NEW ch0, NEW ch, NEW ev, NEW inMSHR, Req2(L, K0, ch0, ch, ev, inMSHR), ev.cmd = "GetX", L2GetX(K0, ch, ev, inMSHR)
    PROVE  Done2(L)
<1>1. PICK K : K = IF K0.line[ev.addr].st \in Valid THEN [K0 EXCEPT !.line[ev.addr].st = "M"] ELSE K0
  OBVIOUS
<1>2. PICK l, others : l = K.line[ev.addr] /\ others = l.sharers \ {ev.src}
  OBVIOUS
<1>3. Req2(L, K, ch0, ch, ev, inMSHR) /\ l.st \notin {"S", "E"}
  <2>1. CASE K0.line[ev.addr].st \in Valid
    <3>1. Upgraded(K0, ev.addr, K)
      BY <1>1, <2>1 DEF Upgraded
    <3>2. Req2(L, K, ch0, ch, ev, inMSHR) /\ l = AtState(K0.line[ev.addr], "M")
      BY <1>2, <2>1, <3>1, ReqUpgrade
    <3>3. "st" \in DOMAIN K0.line[ev.addr]
      BY ReqLine DEF Line2, Fields
    <3>4. l.st = "M"
      BY <3>2, <3>3 DEF AtState
    <3>5. QED BY <3>2, <3>4
  <2>2. CASE K0.line[ev.addr].st \notin Valid
    BY <1>1, <1>2, <2>2 DEF Valid
  <2>3. QED BY <2>1, <2>2
<1>4. \/ /\ l.st = "M" /\ others # {}
         /\ L2Await(K, ch, ev, inMSHR, others, "Inv", "M_Inv")
      \/ /\ l.st = "M" /\ others = {} /\ l.owner # NoOwner
         /\ L2Await(K, ch, ev, inMSHR, {l.owner}, "FetchInv", "M_Inv")
      \/ /\ l.st = "M" /\ others = {} /\ l.owner = NoOwner
         /\ Put2(cleanUpAfterRequest(
                      [K EXCEPT !.line[ev.addr].owner = ev.src, !.line[ev.addr].sharers = @ \ {ev.src}],
                      ev.addr, inMSHR),
                   Send(ch, Up(ev.src), WithData(Event("GetXResp", ev.addr, "L2", ev.id), l.data, FALSE)))
      \/ /\ l.st \in {NoLine, "I"}
         /\ L2Miss(K, ch, ev, inMSHR, "IM")
      \/ /\ l.st \notin {"M", NoLine, "I"}
         /\ L2Stall(K, ch, ev, inMSHR)
  BY <1>1, <1>2 DEF L2GetX
<1>5. QED BY <1>2, <1>3, <1>4, G2GetXOn
-----------------------------------------------------------------------------
(***************************************************************************)
(* Copies that are given up: puts, and answers to snoops.                  *)
(***************************************************************************)

(* The line of a and the L1s asked for it change, the entries do not. *)
Moved2(K, a, ln, R2, n2, K2) ==
    /\ Ctl(K2) /\ DOMAIN K2 = DOMAIN K /\ DOMAIN K2.resp = Addrs
    /\ K2.retry = K.retry /\ K2.rBuf = K.rBuf /\ K2.done = K.done
    /\ K2.line[a] = ln /\ K2.resp[a] = R2 /\ Acks(K2, a) = n2
    /\ \A b \in Addrs : Ent(K2, b) = Ent(K, b) /\ Rts(K2, b) = Rts(K, b)
    /\ \A b \in Addrs : b # a => K2.line[b] = K.line[b] /\ K2.resp[b] = K.resp[b] /\ K2.mshr.reg[b] = K.mshr.reg[b]
    /\ Ent(K, a) = <<>> => K2.mshr.reg[a] = K.mshr.reg[a]

(* What the L2 knows of the L1s other than c is kept. *)
GivenUp(c, l, R, ln, R2) ==
    /\ \A d \in Cores : d # c => /\ InView(d, l) => InView(d, ln)
                                 /\ l.owner = d <=> ln.owner = d
                                 /\ \A cmd \in SnoopOrAck : Asked(d, cmd, l.st, R) => Asked(d, cmd, ln.st, R2)
                                 /\ Acking(ln.st) /\ InView(d, ln) /\ d \notin R2 => Acking(l.st) /\ InView(d, l) /\ d \notin R
    /\ l.st # NoLine /\ ln.st # NoLine /\ (l.st \in Valid => ln.st \in Valid)
    /\ ln.st = l.st \/ l.st \notin {"IS", "IM", "S_B", "I_B", "I", NoLine}

(* A line is given up by c. *)
LEMMA G2Given ==
    ASSUME NEW L, NEW K, NEW ch, Good2(L, K, ch), NEW a \in Addrs, NEW c \in Cores, NEW ln, NEW R2, NEW n2, NEW K2,
           Moved2(K, a, ln, R2, n2, K2), Line2(ln, R2, n2), GivenUp(c, K.line[a], K.resp[a], ln, R2),
           NEW ch2, Between(c, a, ch, ch2), ch2[ToMem][a] = ch[ToMem][a], ch2[FromMem][a] = ch[FromMem][a],
           Pair(c, L[c].line[a].st, Busy(L[c], a), ch2[Up(c)][a], ch2[Down(c)][a], ln, R2, HC(c, K, a))
    PROVE  Good2(L, K2, ch2) /\ En(K2) = En(K) /\ Retries(K2) = Retries(K) /\ K2.done = K.done /\ No(K2) = No(K)
<1>0. /\ KK(K) /\ Body2(L, K, ch) /\ EntryOK(En(K)) /\ Ctl(K) /\ GoodAt(L, K, ch, a) /\ "resp" \in DOMAIN K /\ Mail(ch2)
  BY KKEntry DEF Good2, Body2, Between
<1>1. PICK l, R : l = K.line[a] /\ R = K.resp[a]
  OBVIOUS
<1>2. /\ K2.line[a] = ln /\ K2.resp[a] = R2 /\ Acks(K2, a) = n2 /\ "resp" \in DOMAIN K2 /\ DOMAIN K2.resp = Addrs
      /\ \A b \in Addrs : Ent(K2, b) = Ent(K, b) /\ Rts(K2, b) = Rts(K, b)
      /\ \A b \in Addrs : b # a => K2.line[b] = K.line[b] /\ K2.resp[b] = K.resp[b] /\ Acks(K2, b) = Acks(K, b)
  BY <1>0 DEF Moved2, Acks
<1>3. /\ l.st # NoLine /\ ln.st # NoLine /\ (l.st \in Valid => ln.st \in Valid)
      /\ ln.st = l.st \/ l.st \notin {"IS", "IM", "S_B", "I_B", "I", NoLine}
  BY <1>1 DEF GivenUp
<1>4. No(K2) = No(K)
  BY <1>1, <1>2, <1>3 DEF No
<1>5. KK(K2) /\ En(K2) = En(K) /\ Retries(K2) = Retries(K)
  <2>1. \A b \in Addrs : Ent(K, b) = <<>> => K2.mshr.reg[b] = K.mshr.reg[b]
    BY DEF Moved2
  <2>2. Ctl(K2) /\ K2.retry = K.retry /\ K2.rBuf = K.rBuf /\ K2.done = K.done
    BY DEF Moved2
  <2>3. QED BY <1>0, <1>2, <1>4, <2>1, <2>2, KKSame
<1>6. \A b \in Addrs : Evs(Ent(K, b), Ent(K2, b)) /\ (Prog(K2, b) <=> Prog(K, b))
  <2>1. \A b \in Addrs : Ent(K2, b) = Ent(K, b) /\ IsSeq(Ent(K, b))
    BY <1>0, <1>2, EntLen
  <2>2. QED BY <2>1, EvsSelf, ProgIs
<1>7. GoodAt(L, K2, ch2, a)
  <2>1. Line2(K2.line[a], K2.resp[a], Acks(K2, a)) /\ Events2(Ent(K2, a), a)
    BY <1>0, <1>2 DEF GoodAt
  <2>2. Mem2(ch2[ToMem][a], ch2[FromMem][a], K2, a)
    <3>1. CASE ln.st = l.st
      <4>1. \A m : Awaited(m, K, a) => Awaited(m, K2, a)
        BY <1>1, <1>2, <1>5, <1>6, <3>1 DEF Awaited
      <4>2. QED BY <1>0, <4>1 DEF GoodAt, Mem2
    <3>2. CASE l.st \notin {"IS", "IM", "S_B", "I_B", "I", NoLine}
      <4>1. NoToken(ch[ToMem][a], ch[FromMem][a])
        BY <1>0, <1>1, <3>2, NoneMem DEF GoodAt
      <4>2. QED BY <4>1, MemNone
    <3>3. QED BY <1>3, <3>1, <3>2
  <2>3. Live(K2, a, K2.line[a].st)
    BY <1>0, <1>1, <1>2, <1>3, <1>5, <1>6 DEF Live, GoodAt
  <2>4. ASSUME NEW d \in Cores PROVE PairOf(d, a, L[d], ch2, K2)
    <3>1. HC(d, K2, a) = HC(d, K, a)
      BY <1>6, EvsHC
    <3>2. CASE d = c
      BY <1>2, <3>1, <3>2 DEF PairOf
    <3>3. CASE d # c
      <4>1. ch2[Up(d)][a] = ch[Up(d)][a] /\ ch2[Down(d)][a] = ch[Down(d)][a]
        BY <3>3 DEF Between
      <4>2. Pair(d, L[d].line[a].st, Busy(L[d], a), ch[Up(d)][a], ch[Down(d)][a], l, R, HC(d, K, a))
        BY <1>0, <1>1 DEF GoodAt, PairOf
      <4>3. /\ InView(d, l) => InView(d, ln)
            /\ l.owner = d <=> ln.owner = d
            /\ \A cmd \in SnoopOrAck : Asked(d, cmd, l.st, R) => Asked(d, cmd, ln.st, R2)
            /\ Acking(ln.st) /\ InView(d, ln) /\ d \notin R2 => Acking(l.st) /\ InView(d, l) /\ d \notin R
        BY <1>1, <3>3 DEF GivenUp
      <4>4. Answers(d, ln, R2, HC(d, K, a))
        BY <4>2, <4>3 DEF Pair, Agree, Answers
      <4>5. Pair(d, L[d].line[a].st, Busy(L[d], a), ch[Up(d)][a], ch[Down(d)][a], ln, R2, HC(d, K, a))
        BY <4>2, <4>3, <4>4, PairOther
      <4>6. QED BY <1>2, <3>1, <4>1, <4>5 DEF PairOf
    <3>4. QED BY <3>2, <3>3
  <2>5. QED BY <2>1, <2>2, <2>3, <2>4 DEF GoodAt
<1>8. Still2(K, ch, a, K2, ch2)
  BY <1>2, <1>5, <1>6 DEF Still2, Between
<1>9. Body2(L, K2, ch2)
  BY <1>0, <1>2, <1>7, <1>8, B2At
<1>10. K2.done = K.done
  BY DEF Moved2
<1>11. QED BY <1>4, <1>5, <1>9, <1>10 DEF Good2

(* The state a dirty line takes. *)
Dirt(s, t) == t = s \/ (s = "E" /\ t = "M") \/ (s = "E_Inv" /\ t = "M_Inv") \/ (s = "E_InvX" /\ t = "M_InvX")

(* A line that gets dirty keeps its kind. *)
LEMMA DirtIs ==
    ASSUME NEW s, NEW t, Dirt(s, t)
    PROVE  /\ Acking(t) <=> Acking(s)
           /\ t \in {"E_InvX", "M_InvX"} <=> s \in {"E_InvX", "M_InvX"}
           /\ t \in {"E_Inv", "M_Inv"} <=> s \in {"E_Inv", "M_Inv"}
           /\ t \in {"S_Inv", "E_Inv", "M_Inv"} <=> s \in {"S_Inv", "E_Inv", "M_Inv"}
           /\ t \in {"S", "S_Inv", "S_B"} => s \in {"S", "S_Inv", "S_B"}
           /\ t \in {NoLine, "I", "IS", "IM", "I_B"} => s \in {NoLine, "I", "IS", "IM", "I_B"}
           /\ s \in Valid => t \in Valid
           /\ t = s \/ s \notin {"IS", "IM", "S_B", "I_B", "I", NoLine}
BY DEF Dirt, Acking, Valid, NoLine

(* A line that gets dirty is in a state of the L2 as before. *)
LEMMA DirtState == ASSUME NEW s, NEW t, Dirt(s, t), s \in LineStates PROVE t \in LineStates
BY DEF Dirt, LineStates

(* c has given up the line. *)
LEMMA LeaveGives ==
    ASSUME NEW c \in Cores, NEW l, NEW R, NEW n, Line2(l, R, n), InView(c, l), Acking(l.st) => c \in R,
           NEW ln, Fields(ln), ln.owner = NoOwner, ln.sharers = l.sharers \ {c}, Dirt(l.st, ln.st), NEW R2, R2 = R \ {c}
    PROVE  Line2(ln, R2, Cardinality(R2)) /\ GivenUp(c, l, R, ln, R2) /\ ~InView(c, ln)
<1>1. PICK t : t = ln.st
  OBVIOUS
<1>2. /\ Acking(t) <=> Acking(l.st)
      /\ t \in {"E_InvX", "M_InvX"} <=> l.st \in {"E_InvX", "M_InvX"}
      /\ t \in {"S_Inv", "E_Inv", "M_Inv"} <=> l.st \in {"S_Inv", "E_Inv", "M_Inv"}
      /\ t \in {NoLine, "I", "IS", "IM", "I_B"} => l.st \in {NoLine, "I", "IS", "IM", "I_B"}
      /\ l.st \in Valid => t \in Valid
      /\ t = l.st \/ l.st \notin {"IS", "IM", "S_B", "I_B", "I", NoLine}
  BY <1>1, DirtIs
<1>3. c # NoOwner /\ LineOK(l, R) /\ (l.owner = c \/ c \in l.sharers) /\ l.sharers \subseteq Cores /\ R \subseteq Cores
  BY OwnerAssumption DEF Line2, InView
<1>4. l.owner = NoOwner \/ (l.owner = c /\ l.sharers = {})
  BY <1>3 DEF LineOK
<1>5. l.st \notin {NoLine, "I", "IS", "IM", "I_B"}
  BY <1>3 DEF LineOK
<1>6. l.st \in {"E_InvX", "M_InvX"} => R = {c}
  BY <1>3, <1>4 DEF LineOK, Acking
<1>7. LineOK(ln, R2)
  <2>1. ln.st \in LineStates
    BY <1>3, DirtState DEF LineOK
  <2>2. QED BY <1>1, <1>2, <1>3, <1>5, <1>6, <2>1 DEF LineOK
<1>8. Line2(ln, R2, Cardinality(R2)) /\ ~InView(c, ln)
  BY <1>3, <1>7 DEF Line2, InView
<1>9. ASSUME NEW d \in Cores, d # c
      PROVE  /\ InView(d, l) => InView(d, ln)
             /\ l.owner = d <=> ln.owner = d
             /\ \A cmd \in SnoopOrAck : Asked(d, cmd, l.st, R) => Asked(d, cmd, ln.st, R2)
             /\ Acking(ln.st) /\ InView(d, ln) /\ d \notin R2 => Acking(l.st) /\ InView(d, l) /\ d \notin R
  <2>1. d # NoOwner
    BY OwnerAssumption
  <2>2. ASSUME NEW cmd \in SnoopOrAck, Asked(d, cmd, l.st, R) PROVE Asked(d, cmd, ln.st, R2)
    <3>1. cmd \in {"Inv", "AckInv"}
      <4>1. SUFFICES ASSUME cmd \notin {"Inv", "AckInv"} PROVE FALSE
        OBVIOUS
      <4>2. R = {d} /\ Acking(l.st)
        BY <2>2, <4>1 DEF Asked, SnoopOrAck, Acking
      <4>3. QED BY <1>9, <4>2
    <3>2. d \in R /\ l.st \in {"S_Inv", "E_Inv", "M_Inv"}
      BY <2>2, <3>1 DEF Asked
    <3>3. d \in R2 /\ ln.st \in {"S_Inv", "E_Inv", "M_Inv"}
      BY <1>1, <1>2, <1>9, <3>2
    <3>4. QED BY <3>1, <3>3 DEF Asked
  <2>3. QED BY <1>1, <1>2, <1>3, <1>4, <1>9, <2>1, <2>2 DEF InView
<1>10. /\ l.st # NoLine /\ ln.st # NoLine /\ (l.st \in Valid => ln.st \in Valid)
       /\ ln.st = l.st \/ l.st \notin {"IS", "IM", "S_B", "I_B", "I", NoLine}
  BY <1>1, <1>2, <1>5
<1>11. QED BY <1>8, <1>9, <1>10 DEF GivenUp

(* The owner c keeps a copy: the answer to a FetchInvX, or not. *)
LEMMA LowerGives ==
    ASSUME NEW c \in Cores, NEW l, NEW R, NEW n, Line2(l, R, n), l.owner = c, Acking(l.st) => c \in R,
           NEW ln, Fields(ln), ln.owner = NoOwner, ln.sharers = {c}, NEW R2,
           \/ l.st \in {"E_InvX", "M_InvX"} /\ R2 = {} /\ ln.st \in {"E", "M"}
           \/ l.st \notin {"E_InvX", "M_InvX"} /\ R2 = R /\ Dirt(l.st, ln.st)
    PROVE  /\ Line2(ln, R2, Cardinality(R2)) /\ GivenUp(c, l, R, ln, R2) /\ InView(c, ln) /\ (Acking(ln.st) => c \in R2)
           /\ \A cmd \in {"Inv", "AckInv", "FetchInv", "FetchResp"} : Asked(c, cmd, l.st, R) => Asked(c, cmd, ln.st, R2)
<1>1. PICK t : t = ln.st
  OBVIOUS
<1>2. c # NoOwner /\ LineOK(l, R) /\ l.sharers = {} /\ R \subseteq Cores /\ n = Cardinality(R)
  BY OwnerAssumption DEF Line2, LineOK
<1>3. Acking(l.st) => R = {c}
  BY <1>2 DEF LineOK
<1>4. ~Acking(l.st) => R = {}
  BY <1>2 DEF LineOK
<1>5. l.st \notin {NoLine, "I", "IS", "IM", "I_B"} /\ l.st \notin {"S", "S_Inv", "S_B"}
  BY <1>2 DEF LineOK
<1>6. \A d \in Cores : d # c => ~InView(d, l) /\ l.owner # d /\ d \notin R
  BY <1>2, <1>3, <1>4 DEF InView
<1>7. \A d \in Cores : d # c => ~InView(d, ln) /\ ln.owner # d
  BY OwnerAssumption DEF InView
<1>8. \A d \in Cores : d # c => \A cmd \in SnoopOrAck : ~Asked(d, cmd, l.st, R)
  BY <1>6, NotAsked
<1>9. CASE l.st \in {"E_InvX", "M_InvX"} /\ R2 = {} /\ t \in {"E", "M"}
  <2>1. LineOK(ln, R2) /\ ~Acking(t) /\ t # NoLine /\ t \in Valid /\ l.st \notin {"IS", "IM", "S_B", "I_B", "I", NoLine}
    BY <1>1, <1>9 DEF LineOK, LineStates, Acking, NoLine, Valid
  <2>2. Line2(ln, R2, Cardinality(R2)) /\ InView(c, ln)
    BY <1>9, <2>1 DEF Line2, InView
  <2>3. GivenUp(c, l, R, ln, R2)
    BY <1>1, <1>6, <1>7, <1>8, <2>1 DEF GivenUp
  <2>4. \A cmd \in {"Inv", "AckInv", "FetchInv", "FetchResp"} : ~Asked(c, cmd, l.st, R)
    BY <1>9 DEF Asked
  <2>5. QED BY <1>1, <2>1, <2>2, <2>3, <2>4
<1>10. CASE l.st \notin {"E_InvX", "M_InvX"} /\ R2 = R /\ Dirt(l.st, t)
  <2>1. /\ Acking(t) <=> Acking(l.st)
        /\ t \in {"E_InvX", "M_InvX"} <=> l.st \in {"E_InvX", "M_InvX"}
        /\ t \in {"E_Inv", "M_Inv"} <=> l.st \in {"E_Inv", "M_Inv"}
        /\ t \in {"S_Inv", "E_Inv", "M_Inv"} <=> l.st \in {"S_Inv", "E_Inv", "M_Inv"}
        /\ t \in {NoLine, "I", "IS", "IM", "I_B"} => l.st \in {NoLine, "I", "IS", "IM", "I_B"}
        /\ l.st \in Valid => t \in Valid
        /\ t = l.st \/ l.st \notin {"IS", "IM", "S_B", "I_B", "I", NoLine}
    BY <1>10, DirtIs
  <2>2. LineOK(ln, R2)
    <3>1. ln.st \in LineStates
      BY <1>1, <1>2, <1>10, DirtState DEF LineOK
    <3>2. QED BY <1>1, <1>2, <1>4, <1>5, <1>10, <2>1, <3>1 DEF LineOK
  <2>3. Line2(ln, R2, Cardinality(R2)) /\ InView(c, ln)
    BY <1>2, <1>10, <2>2 DEF Line2, InView
  <2>4. GivenUp(c, l, R, ln, R2)
    BY <1>1, <1>5, <1>6, <1>7, <1>8, <2>1 DEF GivenUp
  <2>5. \A cmd \in {"Inv", "AckInv", "FetchInv", "FetchResp"} : Asked(c, cmd, l.st, R) => Asked(c, cmd, ln.st, R2)
    BY <1>1, <1>10, <2>1 DEF Asked
  <2>6. QED BY <1>1, <1>3, <1>10, <2>1, <2>3, <2>4, <2>5
<1>11. QED BY <1>1, <1>9, <1>10

(* Nothing changed. *)
LEMMA MovedSelf ==
    ASSUME NEW K, Ctl(K), "resp" \in DOMAIN K, DOMAIN K.resp = Addrs, NEW a \in Addrs
    PROVE  Moved2(K, a, K.line[a], K.resp[a], Acks(K, a), K)
BY DEF Moved2

(* The line is replaced. *)
LEMMA MovedLine ==
    ASSUME NEW K, NEW a \in Addrs, NEW l, NEW R, NEW n, NEW K1, Moved2(K, a, l, R, n, K1), NEW ln, "st" \in DOMAIN ln,
           NEW K2, SetLine(K1, a, ln, K2)
    PROVE  Moved2(K, a, ln, R, n, K2)
<1>1. CASE K2 = K1 /\ ln = K1.line[a]
  BY <1>1 DEF Moved2
<1>2. CASE K2 = [K1 EXCEPT !.line[a] = ln]
  <2>1. {"line", "mshr", "retry", "rBuf", "done"} \subseteq DOMAIN K1 /\ DOMAIN K1.line = Addrs
    BY DEF Moved2, Ctl
  <2>2. /\ DOMAIN K2 = DOMAIN K1 /\ K2.mshr = K1.mshr /\ K2.retry = K1.retry /\ K2.rBuf = K1.rBuf /\ K2.done = K1.done
        /\ DOMAIN K2.line = Addrs /\ K2.line[a] = ln /\ \A b \in Addrs : b # a => K2.line[b] = K1.line[b]
    BY <1>2, <2>1
  <2>3. K2.resp = K1.resp
    BY <1>2
  <2>4. Ctl(K2)
    BY <2>1, <2>2 DEF Moved2, Ctl
  <2>5. QED BY <2>2, <2>3, <2>4 DEF Moved2, Ent, Acks, Rts
<1>3. QED BY <1>1, <1>2 DEF SetLine

(* An answer is counted. *)
LEMMA AnsweredIs ==
    ASSUME NEW K, NEW a \in Addrs, NEW l, NEW R, NEW n, NEW K1, Moved2(K, a, l, R, n, K1), "resp" \in DOMAIN K,
           Ent(K, a) # <<>>, NEW c, NEW K2, K2 = Answered(K1, a, c)
    PROVE  Moved2(K, a, l, R \ {c}, n - 1, K2)
<1>1. {"line", "mshr", "retry", "rBuf", "done", "resp"} \subseteq DOMAIN K1 /\ DOMAIN K1.resp = Addrs /\ DOMAIN K1.mshr.reg = Addrs
      /\ {"reg", "size"} \subseteq DOMAIN K1.mshr /\ \A b \in Addrs : {"entries", "acks", "retries"} \subseteq DOMAIN K1.mshr.reg[b]
  BY DEF Moved2, Ctl
<1>2. PICK m : m = decrementAcksNeeded(K1.mshr, a)
  OBVIOUS
<1>3. /\ DOMAIN m = DOMAIN K1.mshr /\ DOMAIN m.reg = Addrs /\ DOMAIN m.reg[a] = DOMAIN K1.mshr.reg[a]
      /\ m.reg[a].entries = K1.mshr.reg[a].entries /\ m.reg[a].retries = K1.mshr.reg[a].retries
      /\ m.reg[a].acks = K1.mshr.reg[a].acks - 1 /\ \A b \in Addrs : b # a => m.reg[b] = K1.mshr.reg[b]
  BY <1>1, <1>2 DEF decrementAcksNeeded
<1>4. K2 = [K1 EXCEPT !.mshr = m, !.resp[a] = @ \ {c}]
  BY <1>2 DEF Answered
<1>5. /\ DOMAIN K2 = DOMAIN K1 /\ K2.mshr = m /\ K2.line = K1.line /\ K2.retry = K1.retry /\ K2.rBuf = K1.rBuf /\ K2.done = K1.done
      /\ DOMAIN K2.resp = Addrs /\ K2.resp[a] = K1.resp[a] \ {c} /\ \A b \in Addrs : b # a => K2.resp[b] = K1.resp[b]
  BY <1>1, <1>4
<1>6. Ctl(K2)
  BY <1>1, <1>3, <1>5 DEF Moved2, Ctl
<1>7. QED BY <1>3, <1>5, <1>6 DEF Moved2, Ent, Acks, Rts

(* An answer is noted and not counted. *)
LEMMA MovedResp ==
    ASSUME NEW K, NEW a \in Addrs, NEW l, NEW R, NEW n, NEW K1, Moved2(K, a, l, R, n, K1), "resp" \in DOMAIN K,
           NEW c, NEW K2, K2 = [K1 EXCEPT !.resp[a] = @ \ {c}]
    PROVE  Moved2(K, a, l, R \ {c}, n, K2)
<1>1. {"line", "mshr", "retry", "rBuf", "done", "resp"} \subseteq DOMAIN K1 /\ DOMAIN K1.resp = Addrs
  BY DEF Moved2, Ctl
<1>5. /\ DOMAIN K2 = DOMAIN K1 /\ K2.mshr = K1.mshr /\ K2.line = K1.line /\ K2.retry = K1.retry /\ K2.rBuf = K1.rBuf /\ K2.done = K1.done
      /\ DOMAIN K2.resp = Addrs /\ K2.resp[a] = K1.resp[a] \ {c} /\ \A b \in Addrs : b # a => K2.resp[b] = K1.resp[b]
  BY <1>1
<1>6. Ctl(K2)
  BY <1>1, <1>5 DEF Moved2, Ctl
<1>7. QED BY <1>5, <1>6 DEF Moved2, Ent, Acks, Rts

(* One L1 less is waited for. *)
LEMMA LessCard ==
    ASSUME NEW R, R \subseteq Cores
    PROVE  /\ Cardinality(R) \in Nat /\ (Cardinality(R) = 0 <=> R = {})
           /\ \A c \in R : Cardinality(R \ {c}) = Cardinality(R) - 1
<1>1. IsFiniteSet(R)
  BY CoresAssumption, FS_Subset
<1>2. Cardinality(R) \in Nat /\ (Cardinality(R) = 0 <=> R = {})
  BY <1>1, FS_CardinalityType, FS_EmptySet
<1>3. ASSUME NEW c \in R PROVE Cardinality(R \ {c}) = Cardinality(R) - 1
  BY <1>1, <1>3, FS_RemoveElement
<1>4. QED BY <1>2, <1>3

(* A register that counts acks has an entry. *)
LEMMA AcksEntry ==
    ASSUME NEW K, KK(K), NEW a \in Addrs, Acks(K, a) # 0 PROVE Ent(K, a) # <<>>
BY DEF KK, NoRegOK, NoReg, Acks

(* c is no longer waited for. *)
NoLonger(K1, a, c, K2) ==
    \/ getAcksNeeded(K1.mshr, a) > 0 /\ K2 = Answered(K1, a, c)
    \/ ~(getAcksNeeded(K1.mshr, a) > 0) /\ K2 = [K1 EXCEPT !.resp[a] = @ \ {c}]

(* Whether it was waited for or not, the acks are right. *)
LEMMA NoLongerIs ==
    ASSUME NEW K, KK(K), "resp" \in DOMAIN K, NEW a \in Addrs, Line2(K.line[a], K.resp[a], Acks(K, a)),
           NEW c, Acking(K.line[a].st) => c \in K.resp[a],
           NEW l, NEW K1, Moved2(K, a, l, K.resp[a], Acks(K, a), K1), NEW K2, NoLonger(K1, a, c, K2)
    PROVE  Moved2(K, a, l, K.resp[a] \ {c}, Cardinality(K.resp[a] \ {c}), K2)
<1>1. PICK R, n : R = K.resp[a] /\ n = Acks(K, a)
  OBVIOUS
<1>2. R \subseteq Cores /\ n = Cardinality(R) /\ (~Acking(K.line[a].st) => R = {}) /\ getAcksNeeded(K1.mshr, a) = n
  BY <1>1 DEF Line2, LineOK, Moved2, getAcksNeeded, Acks
<1>3. n \in Nat /\ (n = 0 <=> R = {}) /\ \A d \in R : Cardinality(R \ {d}) = n - 1
  BY <1>2, LessCard
<1>4. CASE n > 0
  <2>1. Ent(K, a) # <<>> /\ c \in R
    <3>1. Acks(K, a) # 0
      BY <1>1, <1>3, <1>4
    <3>2. Ent(K, a) # <<>>
      BY <3>1, AcksEntry
    <3>3. R # {}
      BY <1>3, <1>4
    <3>4. QED BY <1>1, <1>2, <3>2, <3>3
  <2>2. K2 = Answered(K1, a, c)
    BY <1>2, <1>4 DEF NoLonger
  <2>3. Moved2(K, a, l, R \ {c}, n - 1, K2)
    BY <1>1, <2>1, <2>2, AnsweredIs
  <2>4. QED BY <1>1, <1>3, <2>1, <2>3
<1>5. CASE ~(n > 0)
  <2>1. R = {} /\ n = 0
    BY <1>3, <1>5
  <2>2. K2 = [K1 EXCEPT !.resp[a] = @ \ {c}]
    BY <1>2, <1>5 DEF NoLonger
  <2>3. Moved2(K, a, l, R \ {c}, n, K2)
    BY <1>1, <2>2, MovedResp
  <2>4. R \ {c} = R
    BY <2>1
  <2>5. QED BY <1>1, <1>2, <2>3, <2>4
<1>6. QED BY <1>4, <1>5

(* The head of the link from c is taken, or what it says of the line is. *)
Consumed(c, a, ch0, ch) ==
    /\ Between(c, a, ch0, ch) /\ ch[ToMem][a] = ch0[ToMem][a] /\ ch[FromMem][a] = ch0[FromMem][a]
    /\ ch[Up(c)][a] = ch0[Up(c)][a]
    /\ \/ Cut(ch0[Down(c)][a], ch[Down(c)][a])
       \/ \E m : Swap(ch0[Down(c)][a], m, ch[Down(c)][a]) /\ Blank(m) /\ (m.cmd \in ReqCmds => m.cmd = ch0[Down(c)][a][1].cmd)

(* Taking a message is replacing it by nothing, and taking that. *)
LEMMA CutSwap ==
    ASSUME NEW d, NEW d2, Cut(d, d2), IsSeq(d)
    PROVE  \E dv, m : Swap(d, m, dv) /\ Blank(m) /\ m.cmd \notin ReqCmds /\ Cut(dv, d2)
<1>1. PICK S : d \in Seq(S)
  BY DEF IsSeq
<1>2. PICK m : m = [cmd |-> "none", evict |-> FALSE]
  OBVIOUS
<1>3. PICK dv : dv = [i \in 1 .. Len(d) |-> IF i = 1 THEN m ELSE d[i]]
  OBVIOUS
<1>4. Len(d) \in Nat /\ Len(d) >= 1
  BY DEF Cut
<1>5. \A i \in 1 .. Len(d) : dv[i] \in S \cup {m}
  BY <1>1, <1>3
<1>6. dv \in Seq(S \cup {m}) /\ Len(dv) = Len(d)
  BY <1>3, <1>4, <1>5
<1>7. Swap(d, m, dv)
  <2>1. IsSeq(dv)
    BY <1>6 DEF IsSeq
  <2>2. dv[1] = m /\ \A i \in 1 .. Len(d) : i # 1 => dv[i] = d[i]
    BY <1>3, <1>4
  <2>3. QED BY <1>4, <1>6, <2>1, <2>2 DEF Swap, Ix
<1>8. Blank(m) /\ m.cmd \notin ReqCmds
  BY <1>2 DEF Blank, Leaves, Lowers, AckCmds, ReqCmds
<1>9. Cut(dv, d2)
  BY <1>3, <1>4, <1>6 DEF Cut, IsSeq
<1>10. QED BY <1>7, <1>8, <1>9

(* Nothing gives nothing. *)
LEMMA SwapGives ==
    ASSUME NEW d, NEW m, NEW dv, Swap(d, m, dv), Blank(m) PROVE ~Gives(dv[1])
BY DEF Swap, Blank, Gives

(* The L2 has heard that the L1 gave up its copy. *)
LEMMA PairGone ==
    ASSUME NEW c, NEW s, NEW b, NEW u, NEW d, NEW d2, NEW l, NEW R, NEW ln, NEW R2, NEW h, Pair(c, s, b, u, d, l, R, h),
           Leaves(d[1]), ~InView(c, ln),
           Cut(d, d2) \/ \E m : Swap(d, m, d2) /\ Blank(m) /\ (m.cmd \in ReqCmds => m.cmd = d[1].cmd)
    PROVE  Pair(c, s, b, u, d2, ln, R2, h)
<1>1. CASE Cut(d, d2)
  <2>1. IsSeq(d)
    BY DEF Pair, Agree
  <2>2. PICK dv, m : Swap(d, m, dv) /\ Blank(m) /\ m.cmd \notin ReqCmds /\ Cut(dv, d2)
    BY <1>1, <2>1, CutSwap
  <2>3. Pair(c, s, b, u, dv, ln, R2, h)
    BY <2>2, PairLeave
  <2>4. ~Gives(dv[1])
    BY <2>2, SwapGives
  <2>5. QED BY <2>2, <2>3, <2>4, PairDrop
<1>2. CASE \E m : Swap(d, m, d2) /\ Blank(m) /\ (m.cmd \in ReqCmds => m.cmd = d[1].cmd)
  <2>1. PICK m : Swap(d, m, d2) /\ Blank(m) /\ (m.cmd \in ReqCmds => m.cmd = d[1].cmd)
    BY <1>2
  <2>2. QED BY <2>1, PairLeave
<1>3. QED BY <1>1, <1>2

(* The L2 has heard that the L1 gave up its ownership. *)
LEMMA PairLowered ==
    ASSUME NEW c, NEW s, NEW b, NEW u, NEW d, NEW d2, NEW l, NEW R, NEW ln, NEW R2, NEW h, Pair(c, s, b, u, d, l, R, h),
           Lowers(d[1]), InView(c, ln), ln.owner # c, Acking(ln.st) => c \in R2,
           \A cmd \in {"Inv", "AckInv", "FetchInv", "FetchResp"} : Asked(c, cmd, l.st, R) => Asked(c, cmd, ln.st, R2),
           Cut(d, d2) \/ \E m : Swap(d, m, d2) /\ Blank(m) /\ (m.cmd \in ReqCmds => m.cmd = d[1].cmd)
    PROVE  Pair(c, s, b, u, d2, ln, R2, h)
<1>1. CASE Cut(d, d2)
  <2>1. IsSeq(d)
    BY DEF Pair, Agree
  <2>2. PICK dv, m : Swap(d, m, dv) /\ Blank(m) /\ m.cmd \notin ReqCmds /\ Cut(dv, d2)
    BY <1>1, <2>1, CutSwap
  <2>3. Pair(c, s, b, u, dv, ln, R2, h)
    BY <2>2, PairLower
  <2>4. ~Gives(dv[1])
    BY <2>2, SwapGives
  <2>5. QED BY <2>2, <2>3, <2>4, PairDrop
<1>2. CASE \E m : Swap(d, m, d2) /\ Blank(m) /\ (m.cmd \in ReqCmds => m.cmd = d[1].cmd)
  <2>1. PICK m : Swap(d, m, d2) /\ Blank(m) /\ (m.cmd \in ReqCmds => m.cmd = d[1].cmd)
    BY <1>2
  <2>2. QED BY <2>1, PairLower
<1>3. QED BY <1>1, <1>2

(* The L1 c gives up the line. *)
LEMMA G2Leave ==
    ASSUME NEW L, NEW K, NEW ch0, Good2(L, K, ch0), NEW a \in Addrs, NEW c \in Cores, Leaves(ch0[Down(c)][a][1]),
           1 \in Ix(ch0[Down(c)][a]), Acking(K.line[a].st) => c \in K.resp[a],
           NEW ln, Fields(ln), ln.owner = NoOwner, ln.sharers = K.line[a].sharers \ {c}, Dirt(K.line[a].st, ln.st),
           NEW K2, Moved2(K, a, ln, K.resp[a] \ {c}, Cardinality(K.resp[a] \ {c}), K2),
           NEW ch, Consumed(c, a, ch0, ch)
    PROVE  Good2(L, K2, ch) /\ En(K2) = En(K) /\ Retries(K2) = Retries(K) /\ K2.done = K.done /\ No(K2) = No(K)
<1>1. PICK l, R, R2 : l = K.line[a] /\ R = K.resp[a] /\ R2 = R \ {c}
  OBVIOUS
<1>2. GoodAt(L, K, ch0, a)
  BY DEF Good2, Body2
<1>3. Pair(c, L[c].line[a].st, Busy(L[c], a), ch0[Up(c)][a], ch0[Down(c)][a], l, R, HC(c, K, a)) /\ Line2(l, R, Acks(K, a))
  BY <1>1, <1>2 DEF GoodAt, PairOf
<1>4. InView(c, l)
  BY <1>3 DEF Pair, Agree, View
<1>5. Line2(ln, R2, Cardinality(R2)) /\ GivenUp(c, l, R, ln, R2) /\ ~InView(c, ln)
  BY <1>1, <1>3, <1>4, LeaveGives
<1>6. Cut(ch0[Down(c)][a], ch[Down(c)][a]) \/ \E m : Swap(ch0[Down(c)][a], m, ch[Down(c)][a]) /\ Blank(m) /\ (m.cmd \in ReqCmds => m.cmd = ch0[Down(c)][a][1].cmd)
  BY DEF Consumed
<1>7. Pair(c, L[c].line[a].st, Busy(L[c], a), ch0[Up(c)][a], ch[Down(c)][a], ln, R2, HC(c, K, a))
  BY <1>3, <1>5, <1>6, PairGone
<1>8. /\ Between(c, a, ch0, ch) /\ ch[ToMem][a] = ch0[ToMem][a] /\ ch[FromMem][a] = ch0[FromMem][a]
      /\ ch[Up(c)][a] = ch0[Up(c)][a]
  BY DEF Consumed
<1>9. Pair(c, L[c].line[a].st, Busy(L[c], a), ch[Up(c)][a], ch[Down(c)][a], ln, R2, HC(c, K, a))
  BY <1>7, <1>8
<1>10. Moved2(K, a, ln, R2, Cardinality(R2), K2) /\ GivenUp(c, K.line[a], K.resp[a], ln, R2)
  BY <1>1, <1>5
<1>11. QED BY <1>5, <1>8, <1>9, <1>10, G2Given

(* The owner c gives up the line but for a copy. *)
LEMMA G2Lower ==
    ASSUME NEW L, NEW K, NEW ch0, Good2(L, K, ch0), NEW a \in Addrs, NEW c \in Cores, Lowers(ch0[Down(c)][a][1]),
           1 \in Ix(ch0[Down(c)][a]), Acking(K.line[a].st) => c \in K.resp[a],
           NEW ln, Fields(ln), ln.owner = NoOwner, ln.sharers = {c}, NEW R2,
           \/ K.line[a].st \in {"E_InvX", "M_InvX"} /\ R2 = {} /\ ln.st \in {"E", "M"}
           \/ K.line[a].st \notin {"E_InvX", "M_InvX"} /\ R2 = K.resp[a] /\ Dirt(K.line[a].st, ln.st),
           NEW K2, Moved2(K, a, ln, R2, Cardinality(R2), K2),
           NEW ch, Consumed(c, a, ch0, ch)
    PROVE  Good2(L, K2, ch) /\ En(K2) = En(K) /\ Retries(K2) = Retries(K) /\ K2.done = K.done /\ No(K2) = No(K)
<1>1. PICK l, R : l = K.line[a] /\ R = K.resp[a]
  OBVIOUS
<1>2. GoodAt(L, K, ch0, a)
  BY DEF Good2, Body2
<1>3. Pair(c, L[c].line[a].st, Busy(L[c], a), ch0[Up(c)][a], ch0[Down(c)][a], l, R, HC(c, K, a)) /\ Line2(l, R, Acks(K, a))
  BY <1>1, <1>2 DEF GoodAt, PairOf
<1>4. l.owner = c
  BY <1>3 DEF Pair, Agree, View
<1>5. \/ l.st \in {"E_InvX", "M_InvX"} /\ R2 = {} /\ ln.st \in {"E", "M"}
      \/ l.st \notin {"E_InvX", "M_InvX"} /\ R2 = R /\ Dirt(l.st, ln.st)
  BY <1>1
<1>6. /\ Line2(ln, R2, Cardinality(R2)) /\ GivenUp(c, l, R, ln, R2) /\ InView(c, ln) /\ (Acking(ln.st) => c \in R2)
      /\ \A cmd \in {"Inv", "AckInv", "FetchInv", "FetchResp"} : Asked(c, cmd, l.st, R) => Asked(c, cmd, ln.st, R2)
  BY <1>1, <1>3, <1>4, <1>5, LowerGives
<1>7. Cut(ch0[Down(c)][a], ch[Down(c)][a]) \/ \E m : Swap(ch0[Down(c)][a], m, ch[Down(c)][a]) /\ Blank(m) /\ (m.cmd \in ReqCmds => m.cmd = ch0[Down(c)][a][1].cmd)
  BY DEF Consumed
<1>8. Pair(c, L[c].line[a].st, Busy(L[c], a), ch0[Up(c)][a], ch[Down(c)][a], ln, R2, HC(c, K, a))
  <2>1. ln.owner # c
    BY OwnerAssumption
  <2>2. QED BY <1>3, <1>6, <1>7, <2>1, PairLowered
<1>9. /\ Between(c, a, ch0, ch) /\ ch[ToMem][a] = ch0[ToMem][a] /\ ch[FromMem][a] = ch0[FromMem][a]
      /\ ch[Up(c)][a] = ch0[Up(c)][a]
  BY DEF Consumed
<1>10. Pair(c, L[c].line[a].st, Busy(L[c], a), ch[Up(c)][a], ch[Down(c)][a], ln, R2, HC(c, K, a))
  BY <1>8, <1>9
<1>11. GivenUp(c, K.line[a], K.resp[a], ln, R2)
  BY <1>1, <1>6
<1>12. QED BY <1>6, <1>9, <1>10, <1>11, G2Given

(* The message ev came for a. *)
Msg2(L, K, ch0, ch, ev, a) ==
    /\ a \in Addrs /\ a \in K.done /\ ev.addr = a /\ ev.src \in Cores
    /\ Came2(L, K, ch0, ch, ev, a) /\ ch0[Down(ev.src)][a][1] = ev

(* A message that was taken. *)
LEMMA TookConsumed ==
    ASSUME NEW ch0, NEW ev, ev.src \in Cores, NEW a \in Addrs, NEW ch, Took(ch0, ev, a, ch)
    PROVE  Consumed(ev.src, a, ch0, ch)
BY TookIs DEF Consumed, Took

(* What is known of a message. *)
LEMMA MsgIs ==
    ASSUME NEW L, NEW K, NEW ch0, NEW ch, NEW ev, NEW a, Msg2(L, K, ch0, ch, ev, a)
    PROVE  /\ a \in Addrs /\ ev.src \in Cores /\ Good2(L, K, ch0) /\ KK(K) /\ "resp" \in DOMAIN K /\ Ctl(K) /\ DOMAIN K.resp = Addrs
           /\ Line2(K.line[a], K.resp[a], Acks(K, a)) /\ Consumed(ev.src, a, ch0, ch) /\ a \in K.done
           /\ 1 \in Ix(ch0[Down(ev.src)][a]) /\ ch0[Down(ev.src)][a][1] = ev /\ ev.addr = a
           /\ Pair(ev.src, L[ev.src].line[a].st, Busy(L[ev.src], a), ch0[Up(ev.src)][a], ch0[Down(ev.src)][a],
                   K.line[a], K.resp[a], HC(ev.src, K, a))
           /\ K.line[a].st # NoLine => Handed(K, a)
<1>1. /\ a \in Addrs /\ ev.src \in Cores /\ Good2(L, K, ch0) /\ Took(ch0, ev, a, ch) /\ a \in K.done
      /\ ch0[Down(ev.src)][a][1] = ev /\ ev.addr = a /\ ~Null(Retries(K), a) /\ (Pend(Retries(K), a) => a \in No(K))
  BY DEF Msg2, Came2
<1>2. KK(K) /\ "resp" \in DOMAIN K /\ DOMAIN K.resp = Addrs /\ GoodAt(L, K, ch0, a) /\ Ctl(K)
  BY <1>1, KKEntry DEF Good2, Body2
<1>3. Line2(K.line[a], K.resp[a], Acks(K, a)) /\ PairOf(ev.src, a, L[ev.src], ch0, K)
  BY <1>1, <1>2 DEF GoodAt
<1>4. Consumed(ev.src, a, ch0, ch) /\ 1 \in Ix(ch0[Down(ev.src)][a])
  BY <1>1, TookConsumed, CutIs DEF Took
<1>5. ASSUME K.line[a].st # NoLine PROVE Handed(K, a)
  <2>1. a \notin No(K)
    BY <1>5 DEF No
  <2>2. QED BY <1>1, <1>2, <2>1, PresentHanded
<1>6. QED BY <1>1, <1>2, <1>3, <1>4, <1>5 DEF PairOf

(* The stable state behind an X_Inv. *)
LEMMA BaseIs ==
    ASSUME NEW st
    PROVE  /\ st \in DOMAIN Base <=> Acking(st)
           /\ Acking(st) => Base[st] \in Valid /\ (Base[st] = "S" => st = "S_Inv")
<1>1. DOMAIN Base = {"S_Inv", "E_Inv", "M_Inv", "E_InvX", "M_InvX"}
  BY DEF Base
<1>2. Base["S_Inv"] = "S" /\ Base["E_Inv"] = "E" /\ Base["M_Inv"] = "M" /\ Base["E_InvX"] = "E" /\ Base["M_InvX"] = "M"
  BY DEF Base
<1>3. QED BY <1>1, <1>2 DEF Acking, Valid

(* Every L1 that was asked has answered. *)
LEMMA G2Settle ==
    ASSUME NEW L, NEW K, NEW ch, Good2(L, K, ch), NEW a, Handed(K, a), a \in K.done, Acking(K.line[a].st), Acks(K, a) = 0,
           NEW K2, K2 = Settle(K, a)
    PROVE  Good2(L, K2, ch)
<1>1. a \in Addrs
  BY DEF Handed, Hand
<1>2. PICK l, s, ln, K1 : l = K.line[a] /\ s = Base[l.st] /\ ln = AtState(l, s) /\ K1 = [K EXCEPT !.line[a].st = Base[@]]
  OBVIOUS
<1>3. KK(K) /\ GoodAt(L, K, ch, a) /\ Mail(ch)
  BY <1>1 DEF Good2, Body2
<1>4. Line2(l, K.resp[a], 0)
  BY <1>2, <1>3 DEF GoodAt
<1>5. K.resp[a] = {}
  <2>1. K.resp[a] \subseteq Cores /\ Cardinality(K.resp[a]) = 0
    BY <1>4 DEF Line2
  <2>2. QED BY <2>1, LessCard
<1>6. ln.st = s /\ ln.owner = l.owner /\ ln.sharers = l.sharers /\ Fields(ln) /\ s \in Valid /\ (s = "S" => l.st = "S_Inv")
  BY <1>2, <1>4, BaseIs DEF AtState, Line2, Fields
<1>7. ~Acking(s) /\ s # NoLine /\ s \notin {"IS", "IM", "S_B", "I_B", "I", NoLine}
  BY <1>6, ValidIs
<1>8. Line2(ln, {}, 0)
  <2>1. LineOK(ln, {})
    BY <1>4, <1>5, <1>6, <1>7 DEF Line2, LineOK, LineStates, Acking, NoLine, Valid
  <2>2. QED BY <1>4, <1>6, <2>1, FS_EmptySet DEF Line2
<1>9. SetLine(K, a, ln, K1)
  BY <1>2 DEF SetLine, AtState
<1>10. \A c \in Cores : (InView(c, K.line[a]) => InView(c, ln)) /\ (K.line[a].owner = c <=> ln.owner = c)
  BY <1>2, <1>6 DEF InView
<1>11. l.st \notin {"IS", "IM", "S_B", "I_B", "I", NoLine}
  BY <1>2 DEF Acking, NoLine
<1>12. NoToken(ch[ToMem][a], ch[FromMem][a])
  BY <1>2, <1>3, <1>11, NoneMem DEF GoodAt
<1>13. Live(K, a, ln.st) /\ a \notin No(K) /\ Posted(ch, a, ch)
  BY <1>2, <1>3, <1>6, <1>11, PostedSelf DEF Live, No
<1>14. Good2(L, K1, ch) /\ K1.done = K.done /\ En(K1) = En(K) /\ Retries(K1) = Retries(K) /\ K1.line[a] = ln
  <2>1. ~Acking(ln.st)
    BY <1>6, <1>7
  <2>2. /\ Good2(L, K1, ch) /\ K1.mshr = K.mshr /\ K1.retry = K.retry /\ K1.rBuf = K.rBuf /\ K1.done = K.done
        /\ En(K1) = En(K) /\ Retries(K1) = Retries(K) /\ K1.resp = K.resp
        /\ K1.line[a] = ln /\ \A b \in Addrs : Ent(K1, b) = Ent(K, b) /\ (b # a => K1.line[b] = K.line[b])
    BY <1>1, <1>5, <1>8, <1>9, <1>10, <1>12, <1>13, <2>1, G2Line
  <2>3. QED BY <2>2
<1>15. Handed(K1, a) /\ a \in K1.done /\ K1.line[a].st \in Valid
  BY <1>6, <1>14 DEF Handed
<1>16. K2 = Retry(K1, a)
  BY <1>2 DEF Settle
<1>17. QED BY <1>14, <1>15, <1>16, G2Retry

(* doEviction's line. *)
EvLine(l, ev) ==
    LET dirtied == CASE l.st = "E"      -> "M"
                     [] l.st = "E_Inv"  -> "M_Inv"
                     [] l.st = "E_InvX" -> "M_InvX"
                     [] OTHER           -> l.st
    IN  [st      |-> IF ev.dirty THEN dirtied ELSE l.st,
         data    |-> IF ev.dirty THEN ev.data ELSE l.data,
         owner   |-> IF l.owner = ev.src THEN NoOwner ELSE l.owner,
         sharers |-> IF l.owner = ev.src THEN l.sharers ELSE l.sharers \ {ev.src}]

(* doEviction replaces the line. *)
LEMMA EvSet ==
    ASSUME NEW K, NEW ev, NEW a, a = ev.addr, NEW K2, K2 = doEviction(K, ev) PROVE SetLine(K, a, EvLine(K.line[a], ev), K2)
BY DEF doEviction, EvLine, SetLine

(* What doEviction leaves of the line. *)
LEMMA EvLineIs ==
    ASSUME NEW ev, ev.src \in Cores, NEW l, NEW R, NEW n, Line2(l, R, n), InView(ev.src, l), NEW ln, ln = EvLine(l, ev)
    PROVE  Fields(ln) /\ ln.owner = NoOwner /\ ln.sharers = l.sharers \ {ev.src} /\ Dirt(l.st, ln.st)
<1>1. LineOK(l, R) /\ ev.src # NoOwner /\ (l.owner = ev.src \/ ev.src \in l.sharers)
  BY OwnerAssumption DEF Line2, InView
<1>2. l.owner = NoOwner \/ (l.owner = ev.src /\ l.sharers = {})
  BY <1>1 DEF LineOK
<1>3. Fields(ln)
  BY DEF EvLine, Fields
<1>4. ln.owner = NoOwner
  BY <1>2 DEF EvLine
<1>5. ln.sharers = l.sharers \ {ev.src}
  <2>1. ln.sharers = IF l.owner = ev.src THEN l.sharers ELSE l.sharers \ {ev.src}
    BY DEF EvLine
  <2>2. l.owner = ev.src => l.sharers = {}
    BY <1>1, <1>2
  <2>3. QED BY <2>1, <2>2
<1>6. Dirt(l.st, ln.st)
  BY DEF EvLine, Dirt
<1>7. QED BY <1>3, <1>4, <1>5, <1>6

(* The answer to a snoop, or a replacement that may be one. *)
LEMMA PutAsked ==
    ASSUME NEW L, NEW K, NEW ch0, NEW ch, NEW ev, NEW a, Msg2(L, K, ch0, ch, ev, a), ev.cmd \in PutCmds
    PROVE  Leaves(ev) /\ InView(ev.src, K.line[a]) /\ (Acking(K.line[a].st) => ev.src \in K.resp[a])
<1>1. PICK c, s, b, u, d, l, R, h : /\ c = ev.src /\ s = L[c].line[a].st /\ b = Busy(L[c], a) /\ u = ch0[Up(c)][a] /\ d = ch0[Down(c)][a]
                                    /\ l = K.line[a] /\ R = K.resp[a] /\ h = HC(c, K, a)
  OBVIOUS
<1>2. Pair(c, s, b, u, d, l, R, h) /\ 1 \in Ix(d) /\ d[1] = ev
  BY <1>1, MsgIs
<1>3. Leaves(ev) /\ ev.cmd \in {"PutS", "PutE", "PutM", "FetchXResp"}
  BY DEF Leaves, PutCmds
<1>4. h = {}
  BY <1>2, <1>3 DEF Pair, Agree, First
<1>5. InView(c, l)
  BY <1>2, <1>3 DEF Pair, Agree, View
<1>6. Acking(l.st) => c \in R
  BY <1>2, <1>4, <1>5 DEF Pair, Agree, Answers
<1>7. QED BY <1>1, <1>3, <1>5, <1>6

(* An answer was waited for. *)
LEMMA AckAsked ==
    ASSUME NEW L, NEW K, NEW ch0, NEW ch, NEW ev, NEW a, Msg2(L, K, ch0, ch, ev, a), ev.cmd \in AckCmds
    PROVE  /\ Asked(ev.src, ev.cmd, K.line[a].st, K.resp[a]) /\ ev.src \in K.resp[a] /\ Acking(K.line[a].st)
           /\ (ev.cmd # "FetchXResp" => Leaves(ev)) /\ InView(ev.src, K.line[a])
           /\ (ev.cmd = "FetchXResp" => Lowers(ev) /\ K.line[a].owner = ev.src)
<1>1. PICK c, s, b, u, d, l, R, h : /\ c = ev.src /\ s = L[c].line[a].st /\ b = Busy(L[c], a) /\ u = ch0[Up(c)][a] /\ d = ch0[Down(c)][a]
                                    /\ l = K.line[a] /\ R = K.resp[a] /\ h = HC(c, K, a)
  OBVIOUS
<1>2. Pair(c, s, b, u, d, l, R, h) /\ 1 \in Ix(d) /\ d[1] = ev
  BY <1>1, MsgIs
<1>3. Asked(c, ev.cmd, l.st, R)
  BY <1>2 DEF Pair, Agree, Acked
<1>4. c \in R /\ Acking(l.st)
  BY <1>3 DEF Asked, AckCmds, Acking
<1>5. (ev.cmd # "FetchXResp" => Leaves(ev)) /\ (ev.cmd = "FetchXResp" => Lowers(ev))
  BY DEF Leaves, Lowers, AckCmds
<1>6. InView(c, l) /\ (ev.cmd = "FetchXResp" => l.owner = c)
  BY <1>2, <1>5 DEF Pair, Agree, View, InView
<1>7. QED BY <1>1, <1>3, <1>4, <1>5, <1>6

(* A line with a holder is present. *)
LEMMA NoOwnerView ==
    ASSUME NEW l, NEW R, NEW n, Line2(l, R, n), NEW c \in Cores, InView(c, l) PROVE l.st # NoLine
BY OwnerAssumption DEF Line2, LineOK, InView

(* PutS, PutE and PutM. *)
LEMMA G2Put ==
    ASSUME NEW L, NEW K, NEW ch0, NEW ch, NEW ev, NEW a, Msg2(L, K, ch0, ch, ev, a), ev.cmd \in PutCmds, L2Put(K, ch, ev)
    PROVE  Done2(L)
<1>1. PICK c, l, ln, K1 : c = ev.src /\ l = K.line[a] /\ ln = EvLine(l, ev) /\ K1 = doEviction(K, ev)
  OBVIOUS
<1>2. PICK K2 : K2 = IF getAcksNeeded(K1.mshr, a) > 0 THEN Answered(K1, a, c) ELSE [K1 EXCEPT !.resp[a] = @ \ {c}]
  OBVIOUS
<1>3. /\ a \in Addrs /\ c \in Cores /\ Good2(L, K, ch0) /\ KK(K) /\ "resp" \in DOMAIN K /\ Ctl(K) /\ DOMAIN K.resp = Addrs
      /\ Line2(l, K.resp[a], Acks(K, a)) /\ Consumed(c, a, ch0, ch) /\ a \in K.done
      /\ 1 \in Ix(ch0[Down(c)][a]) /\ ch0[Down(c)][a][1] = ev /\ ev.addr = a /\ (l.st # NoLine => Handed(K, a))
  BY <1>1, MsgIs
<1>4. Leaves(ev) /\ InView(c, l) /\ (Acking(l.st) => c \in K.resp[a])
  BY <1>1, PutAsked
<1>5. Fields(ln) /\ ln.owner = NoOwner /\ ln.sharers = l.sharers \ {c} /\ Dirt(l.st, ln.st)
  BY <1>1, <1>3, <1>4, EvLineIs
<1>6. NoLonger(K1, a, c, K2)
  BY <1>2 DEF NoLonger
<1>7. Moved2(K, a, ln, K.resp[a], Acks(K, a), K1)
  <2>1. SetLine(K, a, ln, K1)
    BY <1>1, <1>3, EvSet
  <2>2. Moved2(K, a, K.line[a], K.resp[a], Acks(K, a), K) /\ "st" \in DOMAIN ln
    BY <1>3, <1>5, MovedSelf DEF Fields
  <2>3. QED BY <1>3, <2>1, <2>2, MovedLine
<1>8. Moved2(K, a, ln, K.resp[a] \ {c}, Cardinality(K.resp[a] \ {c}), K2)
  BY <1>1, <1>3, <1>4, <1>6, <1>7, NoLongerIs
<1>9. Good2(L, K2, ch) /\ En(K2) = En(K) /\ Retries(K2) = Retries(K) /\ K2.done = K.done /\ No(K2) = No(K)
  BY <1>1, <1>3, <1>4, <1>5, <1>8, G2Leave
<1>10. K2.line[a] = ln
  BY <1>8 DEF Moved2
<1>11. Put2(IF getAcksNeeded(K2.mshr, a) = 0 /\ K2.line[a].st \in DOMAIN Base THEN Settle(K2, a) ELSE K2, ch)
  BY <1>1, <1>2, <1>3 DEF L2Put
<1>12. CASE getAcksNeeded(K2.mshr, a) = 0 /\ K2.line[a].st \in DOMAIN Base
  <2>1. Acking(K2.line[a].st) /\ Acks(K2, a) = 0
    BY <1>12, BaseIs DEF getAcksNeeded, Acks
  <2>2. l.st # NoLine
    BY <1>3, <1>4, NoOwnerView
  <2>3. Handed(K2, a) /\ a \in K2.done
    BY <1>3, <1>9, <2>2 DEF Handed
  <2>4. Good2(L, Settle(K2, a), ch)
    BY <1>9, <2>1, <2>3, G2Settle
  <2>5. Put2(Settle(K2, a), ch)
    BY <1>11, <1>12
  <2>6. QED BY <2>4, <2>5, PutDone
<1>13. CASE ~(getAcksNeeded(K2.mshr, a) = 0 /\ K2.line[a].st \in DOMAIN Base)
  <2>1. Put2(K2, ch)
    BY <1>11, <1>13
  <2>2. QED BY <1>9, <2>1, PutDone
<1>14. QED BY <1>12, <1>13

(* handleAckInv. *)
LEMMA G2AckInv ==
    ASSUME NEW L, NEW K, NEW ch0, NEW ch, NEW ev, NEW a, Msg2(L, K, ch0, ch, ev, a), ev.cmd = "AckInv", L2AckInv(K, ch, ev)
    PROVE  Done2(L)
<1>1. PICK c, l, ln : c = ev.src /\ l = K.line[a] /\ ln = IF c \in l.sharers THEN [l EXCEPT !.sharers = @ \ {c}] ELSE [l EXCEPT !.owner = NoOwner]
  OBVIOUS
<1>2. PICK K1 : K1 = [K EXCEPT !.line[a] = ln]
  OBVIOUS
<1>3. PICK K2 : K2 = Answered(K1, a, c)
  OBVIOUS
<1>4. /\ a \in Addrs /\ c \in Cores /\ Good2(L, K, ch0) /\ KK(K) /\ "resp" \in DOMAIN K /\ Ctl(K) /\ DOMAIN K.resp = Addrs
      /\ Line2(l, K.resp[a], Acks(K, a)) /\ Consumed(c, a, ch0, ch) /\ a \in K.done
      /\ 1 \in Ix(ch0[Down(c)][a]) /\ ch0[Down(c)][a][1] = ev /\ ev.addr = a /\ (l.st # NoLine => Handed(K, a))
  BY <1>1, MsgIs
<1>5. Leaves(ev) /\ InView(c, l) /\ c \in K.resp[a] /\ Acking(l.st)
  BY <1>1, AckAsked DEF AckCmds
<1>6. Fields(ln) /\ ln.owner = NoOwner /\ ln.sharers = l.sharers \ {c} /\ ln.st = l.st
  <2>1. LineOK(l, K.resp[a]) /\ Fields(l) /\ c # NoOwner /\ (l.owner = c \/ c \in l.sharers)
    BY <1>4, <1>5, OwnerAssumption DEF Line2, InView
  <2>2. CASE c \in l.sharers
    <3>1. l.owner = NoOwner
      BY <2>1, <2>2 DEF LineOK
    <3>2. ln = [l EXCEPT !.sharers = @ \ {c}]
      BY <1>1, <2>2
    <3>3. QED BY <2>1, <3>1, <3>2 DEF Fields
  <2>3. CASE c \notin l.sharers
    <3>1. ln = [l EXCEPT !.owner = NoOwner]
      BY <1>1, <2>3
    <3>2. QED BY <2>1, <2>3, <3>1 DEF Fields
  <2>4. QED BY <2>2, <2>3
<1>7. Moved2(K, a, ln, K.resp[a], Acks(K, a), K1)
  <2>1. SetLine(K, a, ln, K1)
    BY <1>2 DEF SetLine
  <2>2. Moved2(K, a, K.line[a], K.resp[a], Acks(K, a), K) /\ "st" \in DOMAIN ln
    BY <1>4, <1>6, MovedSelf DEF Fields
  <2>3. QED BY <1>4, <2>1, <2>2, MovedLine
<1>8. NoLonger(K1, a, c, K2)
  <2>1. K.resp[a] \subseteq Cores /\ Acks(K, a) = Cardinality(K.resp[a]) /\ K.resp[a] # {}
    BY <1>4, <1>5 DEF Line2
  <2>2. Acks(K, a) > 0
    BY <2>1, LessCard
  <2>3. getAcksNeeded(K1.mshr, a) > 0
    BY <1>7, <2>2 DEF Moved2, getAcksNeeded, Acks
  <2>4. QED BY <1>3, <2>3 DEF NoLonger
<1>9. Moved2(K, a, ln, K.resp[a] \ {c}, Cardinality(K.resp[a] \ {c}), K2)
  BY <1>1, <1>4, <1>5, <1>7, <1>8, NoLongerIs
<1>10. Good2(L, K2, ch) /\ En(K2) = En(K) /\ Retries(K2) = Retries(K) /\ K2.done = K.done /\ No(K2) = No(K)
  <2>1. Dirt(l.st, ln.st)
    BY <1>6 DEF Dirt
  <2>2. Leaves(ch0[Down(c)][a][1]) /\ (Acking(K.line[a].st) => c \in K.resp[a]) /\ ln.sharers = K.line[a].sharers \ {c} /\ Dirt(K.line[a].st, ln.st)
    BY <1>1, <1>4, <1>5, <1>6, <2>1
  <2>3. QED BY <1>4, <1>6, <1>9, <2>2, G2Leave
<1>11. K2.line[a] = ln /\ Acking(ln.st) /\ l.st # NoLine
  BY <1>5, <1>6, <1>9 DEF Moved2, Acking, NoLine
<1>12. Put2(IF getAcksNeeded(K2.mshr, a) = 0 THEN Settle(K2, a) ELSE K2, ch)
  BY <1>1, <1>2, <1>3, <1>4 DEF L2AckInv
<1>13. CASE getAcksNeeded(K2.mshr, a) = 0
  <2>1. Acking(K2.line[a].st) /\ Acks(K2, a) = 0
    BY <1>11, <1>13 DEF getAcksNeeded, Acks
  <2>2. Handed(K2, a) /\ a \in K2.done
    BY <1>4, <1>10, <1>11 DEF Handed
  <2>3. Good2(L, Settle(K2, a), ch)
    BY <1>10, <2>1, <2>2, G2Settle
  <2>4. Put2(Settle(K2, a), ch)
    BY <1>12, <1>13
  <2>5. QED BY <2>3, <2>4, PutDone
<1>14. CASE getAcksNeeded(K2.mshr, a) # 0
  <2>1. Put2(K2, ch)
    BY <1>12, <1>14
  <2>2. QED BY <1>10, <2>1, PutDone
<1>15. QED BY <1>13, <1>14

(* The owner's answer is taken and its data written. *)
LEMMA FetchMoved ==
    ASSUME NEW L, NEW K, NEW ch0, NEW ch, NEW ev, NEW a, Msg2(L, K, ch0, ch, ev, a), ev.cmd \in {"FetchResp", "FetchXResp"},
           NEW K1, K1 = doEviction(Answered(K, a, ev.src), ev)
    PROVE  Moved2(K, a, EvLine(K.line[a], ev), {}, 0, K1) /\ K.resp[a] = {ev.src}
<1>1. PICK c, l, KA : c = ev.src /\ l = K.line[a] /\ KA = Answered(K, a, c)
  OBVIOUS
<1>2. /\ a \in Addrs /\ c \in Cores /\ KK(K) /\ "resp" \in DOMAIN K /\ Ctl(K) /\ DOMAIN K.resp = Addrs
      /\ Line2(l, K.resp[a], Acks(K, a)) /\ ev.addr = a
  BY <1>1, MsgIs
<1>3. K.resp[a] = {c}
  <2>1. Asked(c, ev.cmd, l.st, K.resp[a])
    BY <1>1, AckAsked DEF AckCmds
  <2>2. QED BY <2>1 DEF Asked
<1>4. Acks(K, a) = 1 /\ {c} \ {c} = {}
  <2>1. Acks(K, a) = Cardinality({c}) /\ {c} \subseteq Cores
    BY <1>2, <1>3 DEF Line2
  <2>2. Cardinality({c} \ {c}) = Cardinality({c}) - 1 /\ Cardinality({c}) \in Nat
    BY <2>1, LessCard
  <2>3. {c} \ {c} = {}
    OBVIOUS
  <2>4. Cardinality({c} \ {c}) = 0
    BY <2>3, FS_EmptySet
  <2>5. QED BY <2>1, <2>2, <2>3, <2>4
<1>5. Ent(K, a) # <<>>
  <2>1. Acks(K, a) # 0
    BY <1>4
  <2>2. QED BY <1>2, <2>1, AcksEntry
<1>6. Moved2(K, a, l, {c}, 1, K)
  <2>1. Moved2(K, a, K.line[a], K.resp[a], Acks(K, a), K)
    BY <1>2, MovedSelf
  <2>2. QED BY <1>1, <1>3, <1>4, <2>1
<1>7. Moved2(K, a, l, {c} \ {c}, 1 - 1, KA)
  BY <1>1, <1>2, <1>5, <1>6, AnsweredIs
<1>8. Moved2(K, a, l, {}, 0, KA) /\ KA.line[a] = l
  BY <1>4, <1>7 DEF Moved2
<1>9. SetLine(KA, a, EvLine(l, ev), K1)
  <2>1. SetLine(KA, a, EvLine(KA.line[a], ev), K1)
    BY <1>1, <1>2, EvSet
  <2>2. QED BY <1>8, <2>1
<1>10. "st" \in DOMAIN EvLine(l, ev)
  BY DEF EvLine
<1>11. Moved2(K, a, EvLine(l, ev), {}, 0, K1)
  BY <1>2, <1>8, <1>9, <1>10, MovedLine
<1>12. QED BY <1>1, <1>3, <1>11

(* handleFetchResp of a line that was called back. *)
LEMMA G2FetchResp ==
    ASSUME NEW L, NEW K, NEW ch0, NEW ch, NEW ev, NEW a, Msg2(L, K, ch0, ch, ev, a), ev.cmd = "FetchResp", L2FetchResp(K, ch, ev)
    PROVE  Done2(L)
<1>1. PICK c, l, ln, K1 : c = ev.src /\ l = K.line[a] /\ ln = EvLine(l, ev) /\ K1 = doEviction(Answered(K, a, c), ev)
  OBVIOUS
<1>2. /\ a \in Addrs /\ c \in Cores /\ Good2(L, K, ch0) /\ Line2(l, K.resp[a], Acks(K, a)) /\ Consumed(c, a, ch0, ch) /\ a \in K.done
      /\ 1 \in Ix(ch0[Down(c)][a]) /\ ch0[Down(c)][a][1] = ev /\ ev.addr = a /\ (l.st # NoLine => Handed(K, a))
  BY <1>1, MsgIs
<1>3. Leaves(ev) /\ InView(c, l) /\ c \in K.resp[a] /\ Acking(l.st) /\ l.st \in {"E_Inv", "M_Inv"}
  <2>1. Leaves(ev) /\ InView(c, l) /\ c \in K.resp[a] /\ Acking(l.st) /\ Asked(c, "FetchResp", l.st, K.resp[a])
    BY <1>1, AckAsked DEF AckCmds
  <2>2. QED BY <2>1 DEF Asked
<1>4. Moved2(K, a, ln, {}, 0, K1) /\ K.resp[a] = {c}
  BY <1>1, FetchMoved
<1>5. Fields(ln) /\ ln.owner = NoOwner /\ ln.sharers = l.sharers \ {c} /\ Dirt(l.st, ln.st)
  BY <1>1, <1>2, <1>3, EvLineIs
<1>6. ln.st \in {"E_Inv", "M_Inv"}
  BY <1>3, <1>5 DEF Dirt
<1>7. Moved2(K, a, ln, K.resp[a] \ {c}, Cardinality(K.resp[a] \ {c}), K1)
  <2>1. K.resp[a] \ {c} = {} /\ Cardinality({}) = 0
    BY <1>4, FS_EmptySet
  <2>2. QED BY <1>4, <2>1
<1>8. Good2(L, K1, ch) /\ En(K1) = En(K) /\ Retries(K1) = Retries(K) /\ K1.done = K.done /\ No(K1) = No(K)
  <2>1. Leaves(ch0[Down(c)][a][1]) /\ (Acking(K.line[a].st) => c \in K.resp[a]) /\ ln.sharers = K.line[a].sharers \ {c} /\ Dirt(K.line[a].st, ln.st)
    BY <1>1, <1>2, <1>3, <1>5
  <2>2. QED BY <1>2, <1>5, <1>7, <2>1, G2Leave
<1>9. K1.line[a] = ln /\ Acks(K1, a) = 0 /\ Acking(K1.line[a].st)
  BY <1>4, <1>6 DEF Moved2, Acking
<1>10. Handed(K1, a) /\ a \in K1.done
  <2>1. l.st # NoLine
    BY <1>3 DEF NoLine
  <2>2. QED BY <1>2, <1>8, <2>1 DEF Handed
<1>11. Good2(L, Settle(K1, a), ch)
  BY <1>8, <1>9, <1>10, G2Settle
<1>12. Put2(Settle(K1, a), ch)
  <2>1. PICK st : st = IF K1.line[a].st = "M_Inv" THEN "M" ELSE "E"
    OBVIOUS
  <2>2. Put2(Retry([K1 EXCEPT !.line[a].st = st], a), ch)
    BY <1>1, <1>2, <2>1 DEF L2FetchResp
  <2>3. st = Base[K1.line[a].st]
    BY <1>6, <1>9, <2>1 DEF Base
  <2>4. QED BY <2>2, <2>3 DEF Settle
<1>13. QED BY <1>11, <1>12, PutDone

(* handleFetchXResp. *)
LEMMA G2FetchXResp ==
    ASSUME NEW L, NEW K, NEW ch0, NEW ch, NEW ev, NEW a, Msg2(L, K, ch0, ch, ev, a), ev.cmd = "FetchXResp", L2FetchResp(K, ch, ev)
    PROVE  Done2(L)
<1>1. PICK c, l, l1e, K1 : c = ev.src /\ l = K.line[a] /\ l1e = EvLine(l, ev) /\ K1 = doEviction(Answered(K, a, c), ev)
  OBVIOUS
<1>2. /\ a \in Addrs /\ c \in Cores /\ Good2(L, K, ch0) /\ Line2(l, K.resp[a], Acks(K, a)) /\ Consumed(c, a, ch0, ch) /\ a \in K.done
      /\ 1 \in Ix(ch0[Down(c)][a]) /\ ch0[Down(c)][a][1] = ev /\ ev.addr = a /\ (l.st # NoLine => Handed(K, a))
  BY <1>1, MsgIs
<1>3. Lowers(ev) /\ InView(c, l) /\ c \in K.resp[a] /\ l.owner = c /\ l.st \in {"E_InvX", "M_InvX"}
  <2>1. Lowers(ev) /\ InView(c, l) /\ c \in K.resp[a] /\ Acking(l.st) /\ Asked(c, "FetchXResp", l.st, K.resp[a]) /\ l.owner = c
    BY <1>1, AckAsked DEF AckCmds
  <2>2. QED BY <2>1 DEF Asked
<1>4. Moved2(K, a, l1e, {}, 0, K1) /\ K.resp[a] = {c}
  BY <1>1, FetchMoved
<1>5. Fields(l1e) /\ l1e.owner = NoOwner /\ l1e.sharers = l.sharers \ {c}
  BY <1>1, <1>2, <1>3, EvLineIs
<1>6. l.sharers = {}
  BY <1>2, <1>3, OwnerAssumption DEF Line2, LineOK
<1>7. PICK lx, KX : lx = SharedBy(l1e, c) /\ KX = [K1 EXCEPT !.line[a].sharers = @ \cup {c}]
  OBVIOUS
<1>8. Fields(lx) /\ lx.owner = NoOwner /\ lx.sharers = {c}
  BY <1>5, <1>6, <1>7 DEF SharedBy, Fields
<1>9. PICK st, ln, K2 : /\ st = IF KX.line[a].st = "M_InvX" THEN "M" ELSE "E"
                        /\ ln = AtState(lx, st) /\ K2 = [KX EXCEPT !.line[a].st = st]
  OBVIOUS
<1>10. Fields(ln) /\ ln.owner = NoOwner /\ ln.sharers = {c} /\ ln.st = st /\ st \in {"E", "M"}
  BY <1>8, <1>9 DEF AtState, Fields
<1>11. Moved2(K, a, lx, {}, 0, KX)
  <2>1. K1.line[a] = l1e
    BY <1>4 DEF Moved2
  <2>2. SetLine(K1, a, lx, KX)
    BY <1>7, <2>1 DEF SetLine, SharedBy
  <2>3. "st" \in DOMAIN lx
    BY <1>8 DEF Fields
  <2>4. QED BY <1>2, <1>4, <2>2, <2>3, MovedLine
<1>12. Moved2(K, a, ln, {}, 0, K2)
  <2>1. KX.line[a] = lx
    BY <1>11 DEF Moved2
  <2>2. SetLine(KX, a, ln, K2)
    BY <1>9, <2>1 DEF SetLine, AtState
  <2>3. "st" \in DOMAIN ln
    BY <1>10 DEF Fields
  <2>4. QED BY <1>2, <1>11, <2>2, <2>3, MovedLine
<1>13. Moved2(K, a, ln, {}, Cardinality({}), K2)
  BY <1>12, FS_EmptySet
<1>14. Good2(L, K2, ch) /\ En(K2) = En(K) /\ Retries(K2) = Retries(K) /\ K2.done = K.done /\ No(K2) = No(K)
  <2>1. Lowers(ch0[Down(c)][a][1]) /\ (Acking(K.line[a].st) => c \in K.resp[a]) /\ K.line[a].st \in {"E_InvX", "M_InvX"} /\ ln.st \in {"E", "M"}
    BY <1>1, <1>2, <1>3, <1>10
  <2>2. PICK R2 : R2 = {}
    OBVIOUS
  <2>3. Moved2(K, a, ln, R2, Cardinality(R2), K2)
    BY <1>13, <2>2
  <2>4. K.line[a].st \in {"E_InvX", "M_InvX"} /\ R2 = {} /\ ln.st \in {"E", "M"}
    BY <2>1, <2>2
  <2>5. QED BY <1>2, <1>10, <2>1, <2>3, <2>4, G2Lower
<1>15. K2.line[a] = ln /\ K2.line[a].st \in Valid
  BY <1>10, <1>12 DEF Moved2, Valid
<1>16. Handed(K2, a) /\ a \in K2.done
  <2>1. l.st # NoLine
    BY <1>3 DEF NoLine
  <2>2. QED BY <1>2, <1>14, <2>1 DEF Handed
<1>17. Good2(L, Retry(K2, a), ch)
  BY <1>14, <1>15, <1>16, G2Retry
<1>18. Put2(Retry(K2, a), ch)
  BY <1>1, <1>2, <1>7, <1>9 DEF L2FetchResp
<1>19. QED BY <1>17, <1>18, PutDone
-----------------------------------------------------------------------------
(***************************************************************************)
(* Flushes.                                                                *)
(***************************************************************************)

(* The flush x has been put in the MSHR or refused. *)
Flushing(L, K, ch, x, a, ok) ==
    /\ a \in Addrs /\ a \in K.done /\ EvOK2(x, a) /\ x.cmd \in FlushCmds /\ Good2(L, K, ch)
    /\ ok => Serve2(L, K, ch, x, a)
    /\ K.line[a].st # NoLine => Handed(K, a)

(* A flush is put in the MSHR, or refused. *)
LEMMA FlushReq ==
    ASSUME NEW L, NEW K, NEW ch0, NEW ch, NEW x, NEW inMSHR, Req2(L, K, ch0, ch, x, inMSHR), x.cmd \in FlushCmds,
           NEW k, k = L2Allocate(K, x, inMSHR), NEW c, c = Rejection(K, ch, x, inMSHR)
    PROVE  Flushing(L, k, c, x, x.addr, Status(K, x, inMSHR) = "OK") /\ k.line = K.line /\ k.resp = K.resp
<1>1. PICK a : a = x.addr
  OBVIOUS
<1>2. a \in Addrs /\ a \in K.done /\ EvOK2(x, a)
  BY <1>1 DEF Req2
<1>3. K.line[a].st # NoLine => Handed(K, a)
  BY <1>1, G2Handed
<1>4. CASE Status(K, x, inMSHR) = "Reject"
  <2>1. Good2(L, K, c) /\ k = K
    BY <1>4, G2Reject
  <2>2. QED BY <1>1, <1>2, <1>3, <1>4, <2>1 DEF Flushing
<1>5. CASE Status(K, x, inMSHR) # "Reject"
  <2>1. c = ch
    BY <1>5 DEF Rejection
  <2>2. /\ Good2(L, k, ch) /\ k.line = K.line /\ k.done = K.done /\ k.resp = K.resp /\ Retries(k) = Retries(K)
        /\ Status(K, x, inMSHR) = "OK" \/ frontIs(k, x) => Serve2(L, k, ch, x, x.addr)
    BY <1>5, G2Alloc
  <2>3. ASSUME k.line[a].st # NoLine PROVE Handed(k, a)
    <3>1. Handed(K, a)
      BY <1>3, <2>2, <2>3
    <3>2. ~Null(Retries(k), a) /\ ~Pend(Retries(k), a) /\ a \notin No(k) /\ KK(k)
      BY <2>2, <2>3, <3>1 DEF Handed, Hand, No, Good2
    <3>3. QED BY <1>2, <3>2, PresentHanded
  <2>4. QED BY <1>1, <1>2, <2>1, <2>2, <2>3 DEF Flushing
<1>6. QED BY <1>4, <1>5

(* The owner may be asked to share. *)
LEMMA OwnerAsk ==
    ASSUME NEW l, NEW R, NEW n, Line2(l, R, n), l.st \in {"E", "M"}, l.owner # NoOwner, NEW ev
    PROVE  MayAwait(l, ev, {l.owner}, "FetchInvX", InvX[l.st])
<1>1. PICK st, T : st = InvX[l.st] /\ T = {l.owner}
  OBVIOUS
<1>2. st \in {"E_InvX", "M_InvX"} /\ Acking(st)
  BY <1>1 DEF InvX, Acking
<1>3. PICK ln : ln = AtState(l, st)
  OBVIOUS
<1>4. ln.st = st /\ ln.owner = l.owner /\ ln.sharers = l.sharers /\ l.sharers = {} /\ l.owner \in Cores
  BY <1>3 DEF AtState, Line2, Fields, LineOK
<1>5. LineOK(ln, T)
  BY <1>1, <1>2, <1>4 DEF LineOK, LineStates, NoLine
<1>6. \A d \in Cores : InView(d, l) => d \in T
  BY <1>1, <1>4 DEF InView
<1>7. QED BY <1>1, <1>2, <1>3, <1>4, <1>5, <1>6 DEF MayAwait, SnoopCmds, Asked

(* The flush waits for the L1s that are snooped. *)
LEMMA FlushSnoop ==
    ASSUME NEW L, NEW K, NEW ch, NEW x, NEW a, Flushing(L, K, ch, x, a, TRUE), NEW T, NEW cmd, NEW st, MayAwait(K.line[a], x, T, cmd, st),
           NEW K2, SnoopTo(K, a, T, st, K2), Put2(K2, SendSnoops(ch, a, T, cmd))
    PROVE  Done2(L)
<1>1. PICK ch2 : ch2 = SendSnoops(ch, a, T, cmd)
  OBVIOUS
<1>2. a \in Addrs /\ EvOK2(x, a) /\ Serve2(L, K, ch, x, a)
  BY DEF Flushing
<1>3. KK(K2) /\ Body2(L, K2, ch2)
  BY <1>1, <1>2, ServeSnoop
<1>4. Good2(L, K2, ch2) /\ Put2(K2, ch2)
  BY <1>1, <1>3 DEF Good2
<1>5. QED BY <1>4, PutDone

(* The flush goes to memory. *)
LEMMA FlushForward ==
    ASSUME NEW L, NEW K, NEW ch, NEW x, NEW a, Flushing(L, K, ch, x, a, TRUE), NEW st,
           K.line[a].st \in {NoLine, "I"} \/ (K.line[a].st \in Valid /\ K.line[a].owner = NoOwner),
           st = "S_B" \/ (st = "I_B" /\ K.line[a].sharers = {}),
           NEW e, e.cmd = x.cmd, e.addr = a, NEW withLine, L2ForwardFlush(K, ch, e, withLine, st)
    PROVE  Done2(L)
<1>0. a \in Addrs /\ a \in K.done /\ EvOK2(x, a) /\ x.cmd \in FlushCmds /\ Good2(L, K, ch) /\ Ready2(K, ch, a, x)
  BY DEF Flushing, Serve2
<1>1. PICK l, s, ln : l = K.line[a] /\ s = (IF l.st \in {NoLine, "I"} THEN l.st ELSE st) /\ ln = AtState(l, s)
  OBVIOUS
<1>2. PICK K1 : K1 = [K EXCEPT !.line[a].st = s]
  OBVIOUS
<1>3. PICK K2 : K2 = [K1 EXCEPT !.mshr = setInProgress(@, a)]
  OBVIOUS
<1>4. PICK m : m = IF withLine THEN WithData(Event(e.cmd, a, "L2", e.id), K.line[a].data, K.line[a].st = "M")
                   ELSE Event(e.cmd, a, "L2", e.id)
  OBVIOUS
<1>5. PICK ch2 : ch2 = Send(ch, ToMem, m)
  OBVIOUS
<1>6. Put2(K2, ch2)
  <2>1. K2 = [K EXCEPT !.line[a].st = IF @ \in {NoLine, "I"} THEN @ ELSE st, !.mshr = setInProgress(@, a)]
    BY <1>1, <1>2, <1>3
  <2>2. QED BY <1>4, <1>5, <2>1 DEF L2ForwardFlush
<1>7. m.cmd = x.cmd /\ m.addr = a
  BY <1>4 DEF Event, WithData
<1>8. SetLine(K, a, ln, K1) /\ SetProg(K1, a, K2)
  BY <1>1, <1>2, <1>3 DEF SetLine, SetProg, AtState
<1>9. Line2(l, K.resp[a], Acks(K, a))
  BY <1>0, <1>1 DEF Good2, Body2, GoodAt
<1>10. ln.st = s /\ ln.owner = l.owner /\ ln.sharers = l.sharers /\ Fields(ln)
  BY <1>1, <1>9 DEF AtState, Line2, Fields
<1>11. l.owner = NoOwner /\ ~Acking(l.st) /\ ~Acking(s) /\ s \in {"S_B", "I_B", "I", NoLine} /\ (s # "S_B" => l.sharers = {})
  BY <1>1, <1>9 DEF Line2, LineOK, Acking, NoLine, Valid
<1>12. Line2(ln, {}, 0)
  BY <1>9, <1>10, <1>11, FS_EmptySet DEF Line2, LineOK, LineStates, NoLine
<1>13. \A d \in Cores : (InView(d, K.line[a]) => InView(d, ln)) /\ (K.line[a].owner = d <=> ln.owner = d)
  BY <1>1, <1>10 DEF InView
<1>14. MemFits(m, ln.st, x) /\ m.cmd \in ReqCmds
  BY <1>0, <1>7, <1>10, <1>11 DEF MemFits, ReqCmds, FlushCmds
<1>15. Good2(L, K2, ch2)
  <2>1. ~Acking(K.line[a].st) /\ ~Acking(ln.st)
    BY <1>1, <1>10, <1>11
  <2>2. QED BY <1>0, <1>5, <1>7, <1>8, <1>12, <1>13, <1>14, <2>1, G2Start
<1>16. QED BY <1>6, <1>15, PutDone

(* The flush only waits. *)
LEMMA FlushPut ==
    ASSUME NEW L, NEW K, NEW ch, NEW x, NEW a, NEW ok, Flushing(L, K, ch, x, a, ok), Put2(K, ch) PROVE Done2(L)
BY PutDone DEF Flushing

(* The last answer came with the flush. *)
LEMMA FlushSettle ==
    ASSUME NEW L, NEW K, NEW ch, NEW x, NEW a, NEW ok, Flushing(L, K, ch, x, a, ok), Acking(K.line[a].st), Acks(K, a) = 0,
           Put2(Settle(K, a), ch)
    PROVE  Done2(L)
<1>1. Good2(L, K, ch) /\ a \in K.done /\ Handed(K, a)
  BY DEF Flushing, Acking, NoLine
<1>2. Good2(L, Settle(K, a), ch)
  BY <1>1, G2Settle
<1>3. QED BY <1>2, PutDone

(* The line is stable again. *)
LEMMA FlushRetry ==
    ASSUME NEW L, NEW K, NEW ch, NEW x, NEW a, NEW ok, Flushing(L, K, ch, x, a, ok), K.line[a].st \in Valid, Put2(Retry(K, a), ch)
    PROVE  Done2(L)
<1>1. Good2(L, K, ch) /\ a \in K.done /\ Handed(K, a)
  BY ValidIs DEF Flushing
<1>2. Good2(L, Retry(K, a), ch)
  BY <1>1, G2Retry
<1>3. QED BY <1>2, PutDone

(* invalidateAll snoops the holders. *)
LEMMA SnoopAll ==
    ASSUME NEW K, NEW a, NEW K2, K2 = InvalidateAll(K, a) PROVE SnoopTo(K, a, Holders(K.line[a]), Inv[K.line[a].st], K2)
<1>1. Snoop(K, a, Holders(K.line[a])).line = K.line
  BY DEF Snoop
<1>2. QED BY <1>1 DEF SnoopTo, InvalidateAll

(* FlushLineInv, once its eviction is done. *)
FlushInvCases(k, c, e, a, ok, done, l) ==
    \/ /\ l.st \in Valid /\ ok /\ Holders(l) # {}
       /\ Put2(InvalidateAll(k, a), SendInvalidateAll(c, l, a))
    \/ /\ l.st \in Valid /\ ok /\ Holders(l) = {}
       /\ L2ForwardFlush(k, c, e, TRUE, "I_B")
    \/ /\ l.st \in {NoLine, "I"} /\ ok
       /\ L2ForwardFlush(k, c, e, FALSE, "I_B")
    \/ /\ l.st \in DOMAIN Base /\ done
       /\ Put2(Settle(k, a), c)
    \/ /\ ~(l.st \in Valid \cup {NoLine, "I"} /\ ok)
       /\ ~(l.st \in DOMAIN Base /\ done)
       /\ Put2(k, c)

(* The cases of handleFlushLineInv. *)
LEMMA FlushInvOn ==
    ASSUME NEW L, NEW k, NEW c, NEW x, NEW a, NEW ok \in BOOLEAN, Flushing(L, k, c, x, a, ok), NEW e, e.cmd = x.cmd, e.addr = a,
           NEW l, l = k.line[a], NEW done \in BOOLEAN, done <=> getAcksNeeded(k.mshr, a) = 0,
           FlushInvCases(k, c, e, a, ok, done, l)
    PROVE  Done2(L)
<1>1. Line2(l, k.resp[a], Acks(k, a))
  BY DEF Flushing, Good2, Body2, GoodAt
<1>2. CASE l.st \in Valid /\ ok /\ Holders(l) # {} /\ Put2(InvalidateAll(k, a), SendInvalidateAll(c, l, a))
  <2>1. PICK K2, T, cmd, st : K2 = InvalidateAll(k, a) /\ T = Holders(l) /\ cmd = CallCmd(l) /\ st = Inv[l.st]
    OBVIOUS
  <2>2. Flushing(L, k, c, x, a, TRUE)
    BY <1>2
  <2>3. MayAwait(k.line[a], x, T, cmd, st)
    BY <1>1, <1>2, <2>1, HoldersAsk
  <2>4. SnoopTo(k, a, T, st, K2)
    BY <2>1, SnoopAll
  <2>5. Put2(K2, SendSnoops(c, a, T, cmd))
    BY <1>2, <2>1 DEF SendInvalidateAll, CallCmd
  <2>6. QED BY <2>2, <2>3, <2>4, <2>5, FlushSnoop
<1>3. CASE l.st \in Valid /\ ok /\ Holders(l) = {} /\ L2ForwardFlush(k, c, e, TRUE, "I_B")
  <2>1. Flushing(L, k, c, x, a, TRUE)
    BY <1>3
  <2>2. l.owner = NoOwner /\ l.sharers = {}
    BY <1>1, <1>3, ValidIs, Unheld
  <2>3. QED BY <1>3, <2>1, <2>2, FlushForward
<1>4. CASE l.st \in {NoLine, "I"} /\ ok /\ L2ForwardFlush(k, c, e, FALSE, "I_B")
  <2>1. Flushing(L, k, c, x, a, TRUE)
    BY <1>4
  <2>2. l.sharers = {}
    BY <1>1, <1>4 DEF Line2, LineOK
  <2>3. QED BY <1>4, <2>1, <2>2, FlushForward
<1>5. CASE l.st \in DOMAIN Base /\ done /\ Put2(Settle(k, a), c)
  <2>1. Acking(k.line[a].st) /\ Acks(k, a) = 0
    BY <1>5, BaseIs DEF getAcksNeeded, Acks
  <2>2. Flushing(L, k, c, x, a, ok) /\ Put2(Settle(k, a), c)
    BY <1>5
  <2>3. QED BY <2>1, <2>2, FlushSettle
<1>6. CASE Put2(k, c)
  BY <1>6, FlushPut
<1>7. QED BY <1>2, <1>3, <1>4, <1>5, <1>6 DEF FlushInvCases

(* FlushLine, once its eviction is done, but for one that answered a FetchInvX. *)
FlushLineCases(k, c, e, a, ok, l) ==
    \/ /\ l.st \in {"E", "M"} /\ l.owner # NoOwner /\ ok
       /\ Put2([Snoop(k, a, {l.owner}) EXCEPT !.line[a].st = InvX[@]],
               SendSnoops(c, a, {l.owner}, "FetchInvX"))
    \/ /\ l.st \in {NoLine, "I", "S", "E", "M"} /\ ok
       /\ ~(l.st \in {"E", "M"} /\ l.owner # NoOwner)
       /\ L2ForwardFlush(k, c, e, l.st \in {"E", "M"}, "S_B")
    \/ Put2(k, c)

(* The cases of handleFlushLine. *)
LEMMA FlushLineOn ==
    ASSUME NEW L, NEW k, NEW c, NEW x, NEW a, NEW ok \in BOOLEAN, Flushing(L, k, c, x, a, ok), NEW e, e.cmd = x.cmd, e.addr = a,
           NEW l, l = k.line[a],
           FlushLineCases(k, c, e, a, ok, l)
    PROVE  Done2(L)
<1>1. Line2(l, k.resp[a], Acks(k, a))
  BY DEF Flushing, Good2, Body2, GoodAt
<1>2. CASE l.st \in {"E", "M"} /\ l.owner # NoOwner /\ ok
              /\ Put2([Snoop(k, a, {l.owner}) EXCEPT !.line[a].st = InvX[@]], SendSnoops(c, a, {l.owner}, "FetchInvX"))
  <2>1. PICK K2, T, st : K2 = [Snoop(k, a, {l.owner}) EXCEPT !.line[a].st = InvX[@]] /\ T = {l.owner} /\ st = InvX[l.st]
    OBVIOUS
  <2>2. Flushing(L, k, c, x, a, TRUE)
    BY <1>2
  <2>3. MayAwait(k.line[a], x, T, "FetchInvX", st)
    BY <1>1, <1>2, <2>1, OwnerAsk
  <2>4. SnoopTo(k, a, T, st, K2)
    <3>1. Snoop(k, a, T).line = k.line
      BY DEF Snoop
    <3>2. QED BY <2>1, <3>1 DEF SnoopTo
  <2>5. Put2(K2, SendSnoops(c, a, T, "FetchInvX"))
    BY <1>2, <2>1
  <2>6. QED BY <2>2, <2>3, <2>4, <2>5, FlushSnoop
<1>3. CASE /\ l.st \in {NoLine, "I", "S", "E", "M"} /\ ok
           /\ ~(l.st \in {"E", "M"} /\ l.owner # NoOwner)
           /\ L2ForwardFlush(k, c, e, l.st \in {"E", "M"}, "S_B")
  <2>1. Flushing(L, k, c, x, a, TRUE)
    BY <1>3
  <2>2. l.st \in {NoLine, "I"} \/ (l.st \in Valid /\ l.owner = NoOwner)
    BY <1>1, <1>3 DEF Line2, LineOK, Valid
  <2>3. PICK w : w = (l.st \in {"E", "M"})
    OBVIOUS
  <2>4. L2ForwardFlush(k, c, e, w, "S_B")
    BY <1>3, <2>3
  <2>5. QED BY <2>1, <2>2, <2>4, FlushForward
<1>4. CASE Put2(k, c)
  BY <1>4, FlushPut
<1>5. QED BY <1>2, <1>3, <1>4 DEF FlushLineCases

(* The line changes, and c may be taken from those that are waited for. *)
Upd(K, a, y)     == [K EXCEPT !.line[a] = y]
UpdA(K, a, y, c) == [K EXCEPT !.line[a] = y, !.mshr = decrementAcksNeeded(@, a), !.resp[a] = @ \ {c}]
UpdR(K, a, y, c) == [K EXCEPT !.line[a] = y, !.resp[a] = @ \ {c}]

(* The MSHR's answer to allocateMSHR is the same. *)
SameStatus(K, K2, e) ==
    /\ Status(K2, e, FALSE) = Status(K, e, FALSE)
    /\ \A ch : Rejection(K2, ch, e, FALSE) = Rejection(K, ch, e, FALSE)

(* It depends on the entries. *)
LEMMA StatusIs ==
    ASSUME NEW K, NEW K2, NEW e, K2.mshr.size = K.mshr.size, Ent(K2, e.addr) = Ent(K, e.addr) PROVE SameStatus(K, K2, e)
<1>1. Status(K2, e, FALSE) = Status(K, e, FALSE)
  BY DEF Status, isFull, firstInLine, Ent
<1>2. QED BY <1>1 DEF SameStatus, Rejection

AllocU(K, a, y, e)    == L2Allocate(Upd(K, a, y), e, FALSE) = Upd(L2Allocate(K, e, FALSE), a, y)
AllocA(K, a, y, c, e) == L2Allocate(UpdA(K, a, y, c), e, FALSE) = UpdA(L2Allocate(K, e, FALSE), a, y, c)
AllocR(K, a, y, c, e) == L2Allocate(UpdR(K, a, y, c), e, FALSE) = UpdR(L2Allocate(K, e, FALSE), a, y, c)

(* The order of changing the line and of allocating does not matter. *)
LEMMA UpdAlloc ==
    ASSUME NEW K, Ctl(K), NEW a \in Addrs, NEW y, NEW e, e.addr = a
    PROVE  AllocU(K, a, y, e) /\ SameStatus(K, Upd(K, a, y), e)
<1>1. PICK K2 : K2 = Upd(K, a, y)
  OBVIOUS
<1>2. K2.mshr = K.mshr
  BY <1>1 DEF Upd
<1>3. SameStatus(K, K2, e)
  BY <1>2, StatusIs DEF Ent
<1>4. L2Allocate(K2, e, FALSE) = Upd(L2Allocate(K, e, FALSE), a, y)
  <2>1. CASE Status(K, e, FALSE) = "Reject"
    BY <1>1, <1>3, <2>1 DEF L2Allocate, SameStatus
  <2>2. CASE Status(K, e, FALSE) # "Reject"
    <3>1. PICK m : m = insertEvent(K.mshr, a, e)
      OBVIOUS
    <3>2. L2Allocate(K2, e, FALSE) = [K2 EXCEPT !.mshr = m] /\ L2Allocate(K, e, FALSE) = [K EXCEPT !.mshr = m]
      BY <1>2, <1>3, <2>2, <3>1 DEF L2Allocate, SameStatus
    <3>3. [[K EXCEPT !.line[a] = y] EXCEPT !.mshr = m] = [[K EXCEPT !.mshr = m] EXCEPT !.line[a] = y]
      OBVIOUS
    <3>4. QED BY <1>1, <3>2, <3>3 DEF Upd
  <2>3. QED BY <2>1, <2>2
<1>5. QED BY <1>1, <1>3, <1>4 DEF AllocU

(* The order of counting an answer and of allocating does not matter. *)
LEMMA AckInsert ==
    ASSUME NEW m, {"reg", "size"} \subseteq DOMAIN m, NEW a \in DOMAIN m.reg, {"entries", "acks", "retries"} \subseteq DOMAIN m.reg[a], NEW e
    PROVE  decrementAcksNeeded(insertEvent(m, a, e), a) = insertEvent(decrementAcksNeeded(m, a), a, e)
BY DEF decrementAcksNeeded, insertEvent

(* Nor that of both. *)
LEMMA UpdAAlloc ==
    ASSUME NEW K, Ctl(K), "resp" \in DOMAIN K, DOMAIN K.resp = Addrs, NEW a \in Addrs, NEW y, NEW c, NEW e, e.addr = a
    PROVE  AllocA(K, a, y, c, e) /\ SameStatus(K, UpdA(K, a, y, c), e)
<1>1. PICK K2, R : K2 = UpdA(K, a, y, c) /\ R = K.resp[a] \ {c}
  OBVIOUS
<1>2. K2.mshr = decrementAcksNeeded(K.mshr, a)
  BY <1>1 DEF UpdA, Ctl
<1>3. SameStatus(K, K2, e)
  <2>1. K2.mshr.size = K.mshr.size /\ K2.mshr.reg[a].entries = K.mshr.reg[a].entries
    BY <1>2 DEF decrementAcksNeeded, Ctl
  <2>2. QED BY <2>1, StatusIs DEF Ent
<1>4. L2Allocate(K2, e, FALSE) = UpdA(L2Allocate(K, e, FALSE), a, y, c)
  <2>1. CASE Status(K, e, FALSE) = "Reject"
    BY <1>1, <1>3, <2>1 DEF L2Allocate, SameStatus
  <2>2. CASE Status(K, e, FALSE) # "Reject"
    <3>1. PICK m, m2, m3 : m = insertEvent(K.mshr, a, e) /\ m2 = decrementAcksNeeded(K.mshr, a) /\ m3 = insertEvent(m2, a, e)
      OBVIOUS
    <3>2. L2Allocate(K2, e, FALSE) = [K2 EXCEPT !.mshr = m3] /\ L2Allocate(K, e, FALSE) = [K EXCEPT !.mshr = m]
      BY <1>2, <1>3, <2>2, <3>1 DEF L2Allocate, SameStatus
    <3>3. m3 = decrementAcksNeeded(m, a)
      <4>1. PICK w : w = K.mshr
        OBVIOUS
      <4>2. {"reg", "size"} \subseteq DOMAIN w /\ a \in DOMAIN w.reg /\ {"entries", "acks", "retries"} \subseteq DOMAIN w.reg[a]
        BY <4>1 DEF Ctl
      <4>3. decrementAcksNeeded(insertEvent(w, a, e), a) = insertEvent(decrementAcksNeeded(w, a), a, e)
        BY <4>2, AckInsert
      <4>4. QED BY <3>1, <4>1, <4>3
    <3>4. K2 = [K EXCEPT !.line[a] = y, !.mshr = m2, !.resp[a] = R]
      BY <1>1, <3>1 DEF UpdA
    <3>5. PICK KM : KM = [K EXCEPT !.mshr = m]
      OBVIOUS
    <3>6. KM.mshr = m /\ KM.resp = K.resp /\ KM.line = K.line
      BY <3>5 DEF Ctl
    <3>7. UpdA(KM, a, y, c) = [KM EXCEPT !.line[a] = y, !.mshr = m3, !.resp[a] = R]
      BY <1>1, <3>3, <3>6 DEF UpdA
    <3>8. [[K EXCEPT !.line[a] = y, !.mshr = m2, !.resp[a] = R] EXCEPT !.mshr = m3]
            = [[K EXCEPT !.mshr = m] EXCEPT !.line[a] = y, !.mshr = m3, !.resp[a] = R]
      OBVIOUS
    <3>9. QED BY <3>2, <3>4, <3>5, <3>7, <3>8
  <2>3. QED BY <2>1, <2>2
<1>5. QED BY <1>1, <1>3, <1>4 DEF AllocA

(* Nor that of noting an answer. *)
LEMMA UpdRAlloc ==
    ASSUME NEW K, Ctl(K), "resp" \in DOMAIN K, DOMAIN K.resp = Addrs, NEW a \in Addrs, NEW y, NEW c, NEW e, e.addr = a
    PROVE  AllocR(K, a, y, c, e) /\ SameStatus(K, UpdR(K, a, y, c), e)
<1>1. PICK K2, R : K2 = UpdR(K, a, y, c) /\ R = K.resp[a] \ {c}
  OBVIOUS
<1>2. K2.mshr = K.mshr
  BY <1>1 DEF UpdR
<1>3. SameStatus(K, K2, e)
  BY <1>2, StatusIs DEF Ent
<1>4. L2Allocate(K2, e, FALSE) = UpdR(L2Allocate(K, e, FALSE), a, y, c)
  <2>1. CASE Status(K, e, FALSE) = "Reject"
    BY <1>1, <1>3, <2>1 DEF L2Allocate, SameStatus
  <2>2. CASE Status(K, e, FALSE) # "Reject"
    <3>1. PICK m : m = insertEvent(K.mshr, a, e)
      OBVIOUS
    <3>2. L2Allocate(K2, e, FALSE) = [K2 EXCEPT !.mshr = m] /\ L2Allocate(K, e, FALSE) = [K EXCEPT !.mshr = m]
      BY <1>2, <1>3, <2>2, <3>1 DEF L2Allocate, SameStatus
    <3>3. [[K EXCEPT !.line[a] = y, !.resp[a] = @ \ {c}] EXCEPT !.mshr = m] = [[K EXCEPT !.mshr = m] EXCEPT !.line[a] = y, !.resp[a] = @ \ {c}]
      OBVIOUS
    <3>4. QED BY <1>1, <3>2, <3>3 DEF UpdR
  <2>3. QED BY <2>1, <2>2
<1>5. QED BY <1>1, <1>3, <1>4 DEF AllocR
(* One queue is replaced. *)
PutLink(ch, l, a, x, ch2) == ch2 = [ch EXCEPT ![l][a] = x]

(* What that does. *)
LEMMA PutLinkIs ==
    ASSUME NEW ch, Shape(ch), NEW l \in Links, NEW a \in Addrs, NEW x, IsSeq(x), NEW ch2, PutLink(ch, l, a, x, ch2)
    PROVE  Shape(ch2) /\ ch2[l][a] = x /\ Others(ch, l, a, ch2)
<1>1. ch2 = [ch EXCEPT ![l][a] = x]
  BY DEF PutLink
<1>2. QED BY <1>1 DEF Shape, Others

(* The link as if the flush came without its eviction. *)
LEMMA Virtual ==
    ASSUME NEW L, NEW K, NEW ch0, NEW ch, NEW ev, NEW a, Msg2(L, K, ch0, ch, ev, a), ev.cmd \in FlushCmds
    PROVE  \E chv : Consumed(ev.src, a, ch0, chv) /\ Took(chv, Stripped(ev), a, ch) /\ ~Gives(chv[Down(ev.src)][a][1])
<1>1. PICK c, e, d : c = ev.src /\ e = Stripped(ev) /\ d = ch0[Down(c)][a]
  OBVIOUS
<1>2. e.cmd = ev.cmd /\ e.addr = a /\ e.src = c /\ e.evict = FALSE /\ a \in Addrs /\ c \in Cores
  BY <1>1 DEF Stripped, Event, Msg2
<1>3. Mail(ch0) /\ Mail(ch) /\ Cut(d, ch[Down(c)][a]) /\ Others(ch0, Down(c), a, ch) /\ d[1] = ev
  BY <1>1 DEF Msg2, Came2, Took, Good2, Body2
<1>4. Down(c) \in Links /\ IsSeq(d) /\ Len(d) \in Nat /\ Len(d) >= 1
  BY <1>1, <1>2, <1>3, LinkIs DEF Mail, Shape, Cut
<1>5. PICK S : d \in Seq(S)
  BY <1>4 DEF IsSeq
<1>6. PICK dv : dv = [i \in 1 .. Len(d) |-> IF i = 1 THEN e ELSE d[i]]
  OBVIOUS
<1>7. dv \in Seq(S \cup {e}) /\ Len(dv) = Len(d)
  <2>1. \A i \in 1 .. Len(d) : dv[i] \in S \cup {e}
    BY <1>5, <1>6
  <2>2. QED BY <1>4, <1>6, <2>1
<1>8. IsSeq(dv) /\ dv[1] = e /\ Ix(dv) = Ix(d) /\ (\A i \in Ix(d) : i # 1 => dv[i] = d[i]) /\ 1 \in Ix(d)
  <2>1. IsSeq(dv)
    BY <1>7 DEF IsSeq
  <2>2. dv[1] = e /\ \A i \in 1 .. Len(d) : i # 1 => dv[i] = d[i]
    BY <1>4, <1>6
  <2>3. QED BY <1>4, <1>7, <2>1, <2>2 DEF Ix
<1>9. PICK chv : chv = [ch0 EXCEPT ![Down(c)][a] = dv]
  OBVIOUS
<1>10. Shape(chv) /\ chv[Down(c)][a] = dv /\ Others(ch0, Down(c), a, chv)
  <2>1. Shape(ch0)
    BY <1>3 DEF Mail
  <2>2. PICK lk : lk = Down(c)
    OBVIOUS
  <2>3. lk \in Links /\ PutLink(ch0, lk, a, dv, chv) /\ IsSeq(dv) /\ a \in Addrs
    BY <1>2, <1>4, <1>8, <1>9, <2>2 DEF PutLink
  <2>4. Shape(chv) /\ chv[lk][a] = dv /\ Others(ch0, lk, a, chv)
    BY <2>1, <2>3, PutLinkIs
  <2>5. QED BY <2>2, <2>4
<1>11. Mail(chv)
  <2>1. MsgOK(e, Down(c), a)
    <3>1. \A x \in Cores : Down(c) = Down(x) => x = c
      BY <1>2, LinkIs
    <3>2. \A x \in Cores : Down(c) # Up(x)
      BY <1>2, LinkIs
    <3>3. Down(c) # ToMem /\ Down(c) # FromMem
      BY <1>2, LinkIs
    <3>4. QED BY <1>2, <3>1, <3>2, <3>3 DEF MsgOK
  <2>2. \A i \in Ix(dv) : MsgOK(dv[i], Down(c), a)
    BY <1>1, <1>2, <1>3, <1>4, <1>8, <2>1 DEF Mail
  <2>3. \A l \in Links, b \in Addrs : \A i \in Ix(chv[l][b]) : MsgOK(chv[l][b][i], l, b)
    BY <1>3, <1>10, <2>2 DEF Mail, Others
  <2>4. QED BY <1>10, <2>3 DEF Mail
<1>12. Between(c, a, ch0, chv)
  <2>1. \A x \in Links, b \in Addrs : b # a => chv[x][b] = ch0[x][b]
    BY <1>10 DEF Others
  <2>2. ASSUME NEW x \in Cores, x # c PROVE chv[Up(x)][a] = ch0[Up(x)][a] /\ chv[Down(x)][a] = ch0[Down(x)][a]
    <3>1. Up(x) \in Links /\ Down(x) \in Links /\ Up(x) # Down(c) /\ Down(x) # Down(c)
      BY <1>2, <2>2, LinkIs
    <3>2. QED BY <1>2, <1>10, <3>1 DEF Others
  <2>3. QED BY <1>11, <2>1, <2>2 DEF Between
<1>13. chv[ToMem][a] = ch0[ToMem][a] /\ chv[FromMem][a] = ch0[FromMem][a] /\ chv[Up(c)][a] = ch0[Up(c)][a]
  <2>1. ToMem \in Links /\ FromMem \in Links /\ Up(c) \in Links /\ ToMem # Down(c) /\ FromMem # Down(c) /\ Up(c) # Down(c)
    BY <1>2, LinkIs
  <2>2. QED BY <1>2, <1>10, <2>1 DEF Others
<1>14. Swap(d, e, dv) /\ Blank(e)
  BY <1>2, <1>8 DEF Swap, Blank, Leaves, Lowers, AckCmds, FlushCmds
<1>15. Consumed(c, a, ch0, chv)
  BY <1>1, <1>2, <1>3, <1>10, <1>12, <1>13, <1>14 DEF Consumed
<1>16. Took(chv, e, a, ch)
  <2>1. Cut(dv, ch[Down(c)][a])
    <3>1. PICK x : x = ch[Down(c)][a]
      OBVIOUS
    <3>2. IsSeq(x) /\ Len(x) = Len(d) - 1 /\ \A i \in 1 .. Len(x) : x[i] = d[i + 1]
      BY <1>3, <3>1 DEF Cut
    <3>3. \A i \in 1 .. Len(x) : i + 1 \in 1 .. Len(d) /\ i + 1 # 1
      BY <1>4, <3>2
    <3>4. \A i \in 1 .. Len(x) : x[i] = dv[i + 1]
      BY <1>6, <3>2, <3>3
    <3>5. Cut(dv, x)
      BY <1>4, <1>7, <3>2, <3>4 DEF Cut
    <3>6. QED BY <3>1, <3>5
  <2>2. Others(chv, Down(c), a, ch)
    BY <1>3, <1>10 DEF Others
  <2>3. QED BY <1>2, <1>3, <1>8, <1>10, <2>1, <2>2 DEF Took
<1>17. ~Gives(chv[Down(c)][a][1])
  BY <1>8, <1>10, <1>14 DEF Gives, Blank
<1>18. QED BY <1>1, <1>15, <1>16, <1>17

(* A flush without its eviction. *)
LEMMA StrippedIs ==
    ASSUME NEW ev, NEW e, e = Stripped(ev) PROVE e.cmd = ev.cmd /\ e.addr = ev.addr /\ e.src = ev.src /\ e.evict = FALSE
BY DEF Stripped, Event

(* A flush that evicts the line of its sender answers a snoop it crossed. *)
LEMMA FlushAsked ==
    ASSUME NEW L, NEW K, NEW ch0, NEW ch, NEW ev, NEW a, Msg2(L, K, ch0, ch, ev, a), ev.cmd \in FlushCmds, ev.evict
    PROVE  /\ InView(ev.src, K.line[a]) /\ (Acking(K.line[a].st) => ev.src \in K.resp[a])
           /\ ev.cmd = "FlushLineInv" => Leaves(ev)
           /\ ev.cmd = "FlushLine" => Lowers(ev) /\ K.line[a].owner = ev.src
<1>1. PICK c, s, b, u, d, d2, l, R, h : /\ c = ev.src /\ s = L[c].line[a].st /\ b = Busy(L[c], a) /\ u = ch0[Up(c)][a] /\ d = ch0[Down(c)][a]
                                        /\ d2 = ch[Down(c)][a] /\ l = K.line[a] /\ R = K.resp[a] /\ h = HC(c, K, a)
  OBVIOUS
<1>2. Pair(c, s, b, u, d, l, R, h) /\ 1 \in Ix(d) /\ d[1] = ev
  BY <1>1, MsgIs
<1>3. Cut(d, d2) /\ ev.cmd \in ReqCmds
  BY <1>1 DEF Msg2, Came2, Took, ReqCmds, FlushCmds
<1>4. h = {}
  BY <1>2, <1>3, PairAgree, ReqOnly
<1>5. (ev.cmd = "FlushLineInv" => Leaves(ev)) /\ (ev.cmd = "FlushLine" => Lowers(ev))
  BY DEF Leaves, Lowers
<1>6. InView(c, l) /\ (ev.cmd = "FlushLine" => l.owner = c)
  BY <1>2, <1>5 DEF Pair, Agree, View, InView, FlushCmds
<1>7. Acking(l.st) => c \in R
  BY <1>2, <1>4, <1>6 DEF Pair, Agree, Answers
<1>8. QED BY <1>1, <1>5, <1>6, <1>7

(* The flush, without its eviction, is a request. *)
LEMMA FlushIsReq ==
    ASSUME NEW L, NEW K, NEW ch0, NEW ch, NEW ev, NEW a, Msg2(L, K, ch0, ch, ev, a), ev.cmd \in FlushCmds, NEW e, e = Stripped(ev),
           NEW Kd, NEW chv, Good2(L, Kd, chv), Took(chv, e, a, ch), ~Gives(chv[Down(ev.src)][a][1]), Retries(Kd) = Retries(K), Kd.done = K.done, No(Kd) = No(K)
    PROVE  Req2(L, Kd, chv, ch, e, FALSE)
<1>1. e.cmd = ev.cmd /\ e.addr = a /\ e.src = ev.src /\ e.src \in Cores /\ e.evict = FALSE /\ a \in Addrs /\ a \in Kd.done
  BY StrippedIs DEF Msg2
<1>2. ~Null(Retries(Kd), a) /\ (Pend(Retries(Kd), a) => a \in No(Kd))
  BY DEF Msg2, Came2
<1>3. EvOK2(e, a)
  BY <1>1 DEF EvOK2, FlushCmds, ReqCmds
<1>4. QED BY <1>1, <1>2, <1>3 DEF Req2, Fresh2, Came2

(* A flush that gives nothing up is a request. *)
LEMMA MsgReq ==
    ASSUME NEW L, NEW K, NEW ch0, NEW ch, NEW ev, NEW a, Msg2(L, K, ch0, ch, ev, a), ev.cmd \in FlushCmds, ~ev.evict, NEW e, e = Stripped(ev)
    PROVE  Req2(L, K, ch0, ch, e, FALSE)
<1>1. Good2(L, K, ch0) /\ Took(ch0, ev, a, ch) /\ ch0[Down(ev.src)][a][1] = ev
  BY DEF Msg2, Came2
<1>2. Took(ch0, e, a, ch) /\ ~Gives(ch0[Down(ev.src)][a][1])
  BY <1>1, StrippedIs DEF Took, Gives, Leaves, Lowers, FlushCmds
<1>3. QED BY <1>1, <1>2, FlushIsReq

(* handleFlushLineInv without an eviction. *)
LEMMA PlainFlushInv ==
    ASSUME NEW L, NEW K, NEW ch0, NEW ch, NEW x, NEW inMSHR, Req2(L, K, ch0, ch, x, inMSHR), NEW ev, ev.cmd = "FlushLineInv", ~ev.evict,
           x.cmd = ev.cmd, x.addr = ev.addr, inMSHR \/ x = Stripped(ev), L2FlushLineInv(K, ch, ev, inMSHR)
    PROVE  Done2(L)
<1>1. PICK a, e, k, c : a = ev.addr /\ e = Stripped(ev) /\ k = L2Allocate(K, x, inMSHR) /\ c = Rejection(K, ch, x, inMSHR)
  OBVIOUS
<1>2. e.cmd = x.cmd /\ e.addr = a /\ x.cmd \in FlushCmds
  BY <1>1, StrippedIs DEF FlushCmds
<1>3. L2Allocate(K, e, inMSHR) = k /\ Rejection(K, ch, e, inMSHR) = c /\ Status(K, e, inMSHR) = Status(K, x, inMSHR)
  BY <1>1 DEF L2Allocate, Rejection, Status
<1>4. PICK ok \in BOOLEAN : ok <=> Status(K, x, inMSHR) = "OK"
  OBVIOUS
<1>5. Flushing(L, k, c, x, a, ok)
  <2>1. Flushing(L, k, c, x, x.addr, Status(K, x, inMSHR) = "OK")
    BY <1>1, <1>2, FlushReq
  <2>2. QED BY <1>1, <1>4, <2>1 DEF Flushing
<1>6. PICK l : l = k.line[a]
  OBVIOUS
<1>7. PICK done \in BOOLEAN : done <=> getAcksNeeded(k.mshr, a) = 0
  OBVIOUS
<1>8. FlushInvCases(k, c, e, a, ok, done, l)
  BY <1>1, <1>3, <1>4, <1>6, <1>7 DEF L2FlushLineInv, FlushInvCases
<1>9. QED BY <1>2, <1>5, <1>6, <1>7, <1>8, FlushInvOn

(* handleFlushLine without an eviction. *)
LEMMA PlainFlushLine ==
    ASSUME NEW L, NEW K, NEW ch0, NEW ch, NEW x, NEW inMSHR, Req2(L, K, ch0, ch, x, inMSHR), NEW ev, ev.cmd = "FlushLine", ~ev.evict,
           x.cmd = ev.cmd, x.addr = ev.addr, inMSHR \/ x = Stripped(ev), L2FlushLine(K, ch, ev, inMSHR)
    PROVE  Done2(L)
<1>1. PICK a, e, k, c : a = ev.addr /\ e = Stripped(ev) /\ k = L2Allocate(K, x, inMSHR) /\ c = Rejection(K, ch, x, inMSHR)
  OBVIOUS
<1>2. e.cmd = x.cmd /\ e.addr = a /\ x.cmd \in FlushCmds
  BY <1>1, StrippedIs DEF FlushCmds
<1>3. L2Allocate(K, e, inMSHR) = k /\ Rejection(K, ch, e, inMSHR) = c /\ Status(K, e, inMSHR) = Status(K, x, inMSHR)
  BY <1>1 DEF L2Allocate, Rejection, Status
<1>4. PICK ok \in BOOLEAN : ok <=> Status(K, x, inMSHR) = "OK"
  OBVIOUS
<1>5. Flushing(L, k, c, x, a, ok)
  <2>1. Flushing(L, k, c, x, x.addr, Status(K, x, inMSHR) = "OK")
    BY <1>1, <1>2, FlushReq
  <2>2. QED BY <1>1, <1>4, <2>1 DEF Flushing
<1>6. PICK l : l = k.line[a]
  OBVIOUS
<1>8. FlushLineCases(k, c, e, a, ok, l)
  BY <1>1, <1>3, <1>4, <1>6 DEF L2FlushLine, FlushLineCases
<1>9. QED BY <1>2, <1>5, <1>6, <1>8, FlushLineOn

(* The line changes and an answer is counted. *)
LEMMA AnswUpd == ASSUME NEW K, NEW a, NEW y, NEW c PROVE Answered(Upd(K, a, y), a, c) = UpdA(K, a, y, c)
BY DEF Answered, Upd, UpdA

(* The line changes and an answer is noted. *)
LEMMA RespUpd == ASSUME NEW K, NEW a, NEW y, NEW c PROVE [Upd(K, a, y) EXCEPT !.resp[a] = @ \ {c}] = UpdR(K, a, y, c)
BY DEF Upd, UpdR

(* doEviction changes the line. *)
LEMMA EvUpd == ASSUME NEW K, NEW ev PROVE doEviction(K, ev) = Upd(K, ev.addr, EvLine(K.line[ev.addr], ev))
BY DEF doEviction, Upd, EvLine

(* A new entry leaves the acks alone. *)
LEMMA InsertAcks ==
    ASSUME NEW K, Ctl(K), NEW a \in Addrs, NEW e, NEW k, InsertEv(K, a, e, k)
    PROVE  Frame(K, k) /\ Acks(k, a) = Acks(K, a)
<1>1. k = [K EXCEPT !.mshr = insertEvent(@, a, e)]
  BY DEF InsertEv
<1>2. QED BY <1>1, InsertIs

(* allocateMSHR, by its name. *)
AllocOf(K, e, k) == k = L2Allocate(K, e, FALSE)

(* Allocation leaves lines and acks alone. *)
LEMMA AllocIs ==
    ASSUME NEW K, Ctl(K), NEW a \in Addrs, NEW e, e.addr = a, NEW k, AllocOf(K, e, k)
    PROVE  k.line = K.line /\ getAcksNeeded(k.mshr, a) = getAcksNeeded(K.mshr, a)
<1>1. CASE k = K
  BY <1>1
<1>2. CASE k = [K EXCEPT !.mshr = insertEvent(@, a, e)]
  <2>1. Frame(K, k) /\ Acks(k, a) = Acks(K, a)
    BY <1>2, InsertAcks DEF InsertEv
  <2>2. QED BY <2>1 DEF Frame, getAcksNeeded, Acks
<1>3. QED BY <1>1, <1>2 DEF L2Allocate, AllocOf

(* handleFlushLineInv with an eviction. *)
LEMMA EvictFlushInv ==
    ASSUME NEW L, NEW K, NEW ch0, NEW ch, NEW ev, NEW a, Msg2(L, K, ch0, ch, ev, a), ev.cmd = "FlushLineInv", ev.evict,
           L2FlushLineInv(K, ch, ev, FALSE)
    PROVE  Done2(L)
<1>0. ev.cmd \in FlushCmds
  BY DEF FlushCmds
<1>1. PICK s, l, y, e, K1, k1 : s = ev.src /\ l = K.line[a] /\ y = EvLine(l, ev) /\ e = Stripped(ev) /\ K1 = doEviction(K, ev) /\ k1 = L2Allocate(K, e, FALSE)
  OBVIOUS
<1>2. /\ a \in Addrs /\ s \in Cores /\ Good2(L, K, ch0) /\ KK(K) /\ "resp" \in DOMAIN K /\ Ctl(K) /\ DOMAIN K.resp = Addrs
      /\ Line2(l, K.resp[a], Acks(K, a)) /\ 1 \in Ix(ch0[Down(s)][a]) /\ ch0[Down(s)][a][1] = ev /\ ev.addr = a
  BY <1>1, MsgIs
<1>3. InView(s, l) /\ (Acking(l.st) => s \in K.resp[a]) /\ Leaves(ev)
  BY <1>0, <1>1, FlushAsked
<1>4. Fields(y) /\ y.owner = NoOwner /\ y.sharers = l.sharers \ {s} /\ Dirt(l.st, y.st)
  BY <1>1, <1>2, <1>3, EvLineIs
<1>5. e.cmd = "FlushLineInv" /\ e.addr = a /\ e.src = s
  BY <1>1, <1>2, StrippedIs
<1>6. k1.line = K.line /\ getAcksNeeded(k1.mshr, a) = getAcksNeeded(K.mshr, a)
  <2>1. Ctl(K) /\ a \in Addrs /\ e.addr = a /\ AllocOf(K, e, k1)
    BY <1>1, <1>2, <1>5 DEF AllocOf
  <2>2. QED BY <2>1, AllocIs
<1>7. K1 = Upd(K, a, y) /\ doEviction(k1, ev) = Upd(k1, a, y) /\ getAcksNeeded(K1.mshr, a) = getAcksNeeded(K.mshr, a)
  <2>1. K1 = Upd(K, a, y) /\ doEviction(k1, ev) = Upd(k1, a, y)
    BY <1>1, <1>2, <1>6, EvUpd
  <2>2. Upd(K, a, y).mshr = K.mshr
    BY DEF Upd
  <2>3. QED BY <2>1, <2>2
<1>8. PICK waited \in BOOLEAN : waited <=> getAcksNeeded(K.mshr, a) > 0
  OBVIOUS
<1>9. PICK Kd : Kd = IF waited THEN Answered(K1, a, s) ELSE [K1 EXCEPT !.resp[a] = @ \ {s}]
  OBVIOUS
<1>10. PICK k : k = IF waited THEN Answered(doEviction(k1, ev), a, s) ELSE [doEviction(k1, ev) EXCEPT !.resp[a] = @ \ {s}]
  OBVIOUS
<1>11. k = L2Allocate(Kd, e, FALSE) /\ SameStatus(K, Kd, e)
  <2>1. CASE waited
    <3>1. Kd = UpdA(K, a, y, s) /\ k = UpdA(k1, a, y, s)
      BY <1>7, <1>9, <1>10, <2>1, AnswUpd
    <3>2. Ctl(K) /\ "resp" \in DOMAIN K /\ DOMAIN K.resp = Addrs /\ a \in Addrs /\ e.addr = a
      BY <1>2, <1>5
    <3>3. AllocA(K, a, y, s, e) /\ SameStatus(K, UpdA(K, a, y, s), e)
      BY <3>2, UpdAAlloc
    <3>4. QED BY <1>1, <3>1, <3>3 DEF AllocA
  <2>2. CASE ~waited
    <3>1. Kd = UpdR(K, a, y, s) /\ k = UpdR(k1, a, y, s)
      BY <1>7, <1>9, <1>10, <2>2, RespUpd
    <3>2. Ctl(K) /\ "resp" \in DOMAIN K /\ DOMAIN K.resp = Addrs /\ a \in Addrs /\ e.addr = a
      BY <1>2, <1>5
    <3>3. AllocR(K, a, y, s, e) /\ SameStatus(K, UpdR(K, a, y, s), e)
      BY <3>2, UpdRAlloc
    <3>4. QED BY <1>1, <3>1, <3>3 DEF AllocR
  <2>3. QED BY <2>1, <2>2
<1>12. PICK chv : Consumed(s, a, ch0, chv) /\ Took(chv, e, a, ch) /\ ~Gives(chv[Down(s)][a][1])
  BY <1>0, <1>1, Virtual
<1>13. Moved2(K, a, y, K.resp[a] \ {s}, Cardinality(K.resp[a] \ {s}), Kd)
  <2>1. SetLine(K, a, y, K1)
    BY <1>1, <1>2, EvSet
  <2>2. Moved2(K, a, K.line[a], K.resp[a], Acks(K, a), K) /\ "st" \in DOMAIN y
    BY <1>2, <1>4, MovedSelf DEF Fields
  <2>3. Moved2(K, a, y, K.resp[a], Acks(K, a), K1)
    BY <1>2, <2>1, <2>2, MovedLine
  <2>4. NoLonger(K1, a, s, Kd)
    BY <1>7, <1>8, <1>9 DEF NoLonger
  <2>5. Acking(K.line[a].st) => s \in K.resp[a]
    BY <1>1, <1>3
  <2>6. Line2(K.line[a], K.resp[a], Acks(K, a))
    BY <1>1, <1>2
  <2>7. QED BY <1>2, <2>3, <2>4, <2>5, <2>6, NoLongerIs
<1>14. Good2(L, Kd, chv) /\ En(Kd) = En(K) /\ Retries(Kd) = Retries(K) /\ Kd.done = K.done /\ No(Kd) = No(K)
  <2>1. Leaves(ch0[Down(s)][a][1]) /\ (Acking(K.line[a].st) => s \in K.resp[a]) /\ y.sharers = K.line[a].sharers \ {s} /\ Dirt(K.line[a].st, y.st)
    BY <1>1, <1>2, <1>3, <1>4
  <2>2. QED BY <1>2, <1>4, <1>12, <1>13, <2>1, G2Leave
<1>15. Req2(L, Kd, chv, ch, e, FALSE)
  BY <1>0, <1>1, <1>12, <1>14, FlushIsReq
<1>16. PICK c : c = Rejection(Kd, ch, e, FALSE)
  OBVIOUS
<1>17. c = Rejection(K, ch, e, FALSE) /\ Status(Kd, e, FALSE) = Status(K, e, FALSE)
  BY <1>11, <1>16 DEF SameStatus
<1>18. PICK ok \in BOOLEAN : ok <=> Status(Kd, e, FALSE) = "OK"
  OBVIOUS
<1>19. Flushing(L, k, c, e, a, ok)
  <2>1. Flushing(L, k, c, e, e.addr, Status(Kd, e, FALSE) = "OK")
    BY <1>0, <1>5, <1>11, <1>15, <1>16, FlushReq
  <2>2. QED BY <1>5, <1>18, <2>1 DEF Flushing
<1>20. PICK lk : lk = k.line[a]
  OBVIOUS
<1>21. PICK done \in BOOLEAN : done <=> getAcksNeeded(k.mshr, a) = 0
  OBVIOUS
<1>22. FlushInvCases(k, c, e, a, ok, done, lk)
  BY <1>1, <1>2, <1>6, <1>8, <1>10, <1>17, <1>18, <1>20, <1>21 DEF L2FlushLineInv, FlushInvCases
<1>23. QED BY <1>5, <1>19, <1>20, <1>21, <1>22, FlushInvOn

(* Allocation keeps the shape. *)
LEMMA AllocCtl ==
    ASSUME NEW K, Ctl(K), NEW a \in Addrs, NEW e, e.addr = a, NEW k, AllocOf(K, e, k) PROVE Ctl(k)
<1>1. CASE k = K
  BY <1>1
<1>2. CASE k = [K EXCEPT !.mshr = insertEvent(@, a, e)]
  BY <1>2, InsertIs
<1>3. QED BY <1>1, <1>2 DEF L2Allocate, AllocOf

(* The line changes and gets a sharer. *)
LEMMA SharersUpd ==
    ASSUME NEW K, Ctl(K), NEW a \in Addrs, NEW z, "sharers" \in DOMAIN z, NEW c
    PROVE  [Upd(K, a, z) EXCEPT !.line[a].sharers = @ \cup {c}] = Upd(K, a, SharedBy(z, c))
BY DEF Upd, SharedBy, Ctl

(* The line changes and is stable again. *)
LEMMA StateUpdA ==
    ASSUME NEW K, Ctl(K), NEW a \in Addrs, NEW y, "st" \in DOMAIN y, NEW c
    PROVE  [UpdA(K, a, y, c) EXCEPT !.line[a].st = Base[@]] = UpdA(K, a, AtState(y, Base[y.st]), c)
BY DEF UpdA, AtState, Ctl

(* A flush whose eviction is done: it is put in the MSHR or refused. *)
LEMMA FlushSet ==
    ASSUME NEW L, NEW K, NEW ch0, NEW ch, NEW ev, NEW a, Msg2(L, K, ch0, ch, ev, a), ev.cmd \in FlushCmds, NEW e, e = Stripped(ev),
           NEW Kd, NEW chv, Good2(L, Kd, chv), Took(chv, e, a, ch), ~Gives(chv[Down(ev.src)][a][1]), Retries(Kd) = Retries(K), Kd.done = K.done, No(Kd) = No(K),
           SameStatus(K, Kd, e), NEW k, AllocOf(Kd, e, k), NEW ok \in BOOLEAN, ok <=> Status(K, e, FALSE) = "OK"
    PROVE  Flushing(L, k, Rejection(K, ch, e, FALSE), e, a, ok)
<1>1. Req2(L, Kd, chv, ch, e, FALSE)
  BY FlushIsReq
<1>2. e.cmd \in FlushCmds /\ e.addr = a
  BY StrippedIs DEF Msg2
<1>3. k = L2Allocate(Kd, e, FALSE)
  BY DEF AllocOf
<1>4. PICK c : c = Rejection(Kd, ch, e, FALSE)
  OBVIOUS
<1>5. Flushing(L, k, c, e, e.addr, Status(Kd, e, FALSE) = "OK")
  BY <1>1, <1>2, <1>3, <1>4, FlushReq
<1>6. c = Rejection(K, ch, e, FALSE) /\ Status(Kd, e, FALSE) = Status(K, e, FALSE)
  BY <1>4 DEF SameStatus
<1>7. Flushing(L, k, c, e, a, ok)
  BY <1>2, <1>5, <1>6 DEF Flushing
<1>8. QED BY <1>6, <1>7

(* handleFlushLine with an eviction. *)
LEMMA EvictFlushLine ==
    ASSUME NEW L, NEW K, NEW ch0, NEW ch, NEW ev, NEW a, Msg2(L, K, ch0, ch, ev, a), ev.cmd = "FlushLine", ev.evict,
           L2FlushLine(K, ch, ev, FALSE)
    PROVE  Done2(L)
<1>0. ev.cmd \in FlushCmds
  BY DEF FlushCmds
<1>1. PICK s, l, z, y, e, k1 : s = ev.src /\ l = K.line[a] /\ z = EvLine(l, ev) /\ y = SharedBy(z, s) /\ e = Stripped(ev) /\ AllocOf(K, e, k1)
  BY DEF AllocOf
<1>2. /\ a \in Addrs /\ s \in Cores /\ Good2(L, K, ch0) /\ KK(K) /\ "resp" \in DOMAIN K /\ Ctl(K) /\ DOMAIN K.resp = Addrs
      /\ Line2(l, K.resp[a], Acks(K, a)) /\ 1 \in Ix(ch0[Down(s)][a]) /\ ch0[Down(s)][a][1] = ev /\ ev.addr = a
  BY <1>1, MsgIs
<1>3. InView(s, l) /\ (Acking(l.st) => s \in K.resp[a]) /\ Lowers(ev) /\ l.owner = s
  BY <1>0, <1>1, FlushAsked
<1>4. Fields(z) /\ z.owner = NoOwner /\ z.sharers = l.sharers \ {s} /\ Dirt(l.st, z.st)
  BY <1>1, <1>2, <1>3, EvLineIs
<1>5. Fields(y) /\ y.owner = NoOwner /\ y.sharers = {s} /\ y.st = z.st
  <2>1. l.sharers = {}
    BY <1>2, <1>3, OwnerAssumption DEF Line2, LineOK
  <2>2. QED BY <1>1, <1>4, <2>1 DEF SharedBy, Fields
<1>6. e.cmd = "FlushLine" /\ e.addr = a /\ e.src = s
  BY <1>1, <1>2, StrippedIs
<1>7. k1.line = K.line /\ Ctl(k1)
  BY <1>1, <1>2, <1>6, AllocIs, AllocCtl
<1>8. PICK k : k = [doEviction(k1, ev) EXCEPT !.line[a].sharers = @ \cup {s}]
  OBVIOUS
<1>9. k = Upd(k1, a, y)
  <2>1. doEviction(k1, ev) = Upd(k1, a, z)
    BY <1>1, <1>2, <1>7, EvUpd
  <2>2. [Upd(k1, a, z) EXCEPT !.line[a].sharers = @ \cup {s}] = Upd(k1, a, SharedBy(z, s))
    BY <1>2, <1>4, <1>7, SharersUpd DEF Fields
  <2>3. QED BY <1>1, <1>8, <2>1, <2>2
<1>10. PICK ok \in BOOLEAN : ok <=> Status(K, e, FALSE) = "OK"
  OBVIOUS
<1>11. PICK c, lk : c = Rejection(K, ch, e, FALSE) /\ lk = k.line[a]
  OBVIOUS
<1>12. lk = y
  BY <1>2, <1>7, <1>9, <1>11 DEF Upd, Ctl
<1>13. PICK chv : Consumed(s, a, ch0, chv) /\ Took(chv, e, a, ch) /\ ~Gives(chv[Down(s)][a][1])
  BY <1>0, <1>1, Virtual
<1>14. Moved2(K, a, K.line[a], K.resp[a], Acks(K, a), K)
  BY <1>2, MovedSelf
<1>15. \/ /\ lk.st \in {"E", "M"} /\ lk.owner # NoOwner /\ ok
          /\ Put2([Snoop(k, a, {lk.owner}) EXCEPT !.line[a].st = InvX[@]],
                  SendSnoops(c, a, {lk.owner}, "FetchInvX"))
       \/ /\ lk.st \in {NoLine, "I", "S", "E", "M"} /\ ok
          /\ ~(lk.st \in {"E", "M"} /\ lk.owner # NoOwner)
          /\ L2ForwardFlush(k, c, e, lk.st \in {"E", "M"}, "S_B")
       \/ /\ lk.st \in {"E_InvX", "M_InvX"}
          /\ Put2(Settle(Answered(k, a, s), a), c)
       \/ /\ lk.st \notin {"E_InvX", "M_InvX"}
          /\ Put2(k, c)
  BY <1>1, <1>2, <1>8, <1>10, <1>11 DEF L2FlushLine, AllocOf
<1>16. CASE l.st \notin {"E_InvX", "M_InvX"}
  <2>1. PICK Kd : Kd = Upd(K, a, y)
    OBVIOUS
  <2>2. SameStatus(K, Kd, e) /\ AllocOf(Kd, e, k)
    <3>1. AllocU(K, a, y, e) /\ SameStatus(K, Upd(K, a, y), e)
      BY <1>2, <1>6, UpdAlloc
    <3>2. QED BY <1>1, <1>9, <2>1, <3>1 DEF AllocU, AllocOf
  <2>3. Moved2(K, a, y, K.resp[a], Cardinality(K.resp[a]), Kd)
    <3>1. SetLine(K, a, y, Kd) /\ "st" \in DOMAIN y
      BY <1>5, <2>1 DEF SetLine, Upd, Fields
    <3>2. Moved2(K, a, y, K.resp[a], Acks(K, a), Kd)
      BY <1>2, <1>14, <3>1, MovedLine
    <3>3. QED BY <1>2, <3>2 DEF Line2
  <2>4. Good2(L, Kd, chv) /\ En(Kd) = En(K) /\ Retries(Kd) = Retries(K) /\ Kd.done = K.done /\ No(Kd) = No(K)
    <3>1. Lowers(ch0[Down(s)][a][1]) /\ (Acking(K.line[a].st) => s \in K.resp[a])
      BY <1>1, <1>2, <1>3
    <3>2. PICK R2 : R2 = K.resp[a]
      OBVIOUS
    <3>3. K.line[a].st \notin {"E_InvX", "M_InvX"} /\ R2 = K.resp[a] /\ Dirt(K.line[a].st, y.st)
      BY <1>1, <1>4, <1>5, <1>16, <3>2
    <3>4. Moved2(K, a, y, R2, Cardinality(R2), Kd)
      BY <2>3, <3>2
    <3>5. QED BY <1>2, <1>5, <1>13, <3>1, <3>3, <3>4, G2Lower
  <2>5. Flushing(L, k, c, e, a, ok)
    BY <1>0, <1>1, <1>10, <1>11, <1>13, <2>2, <2>4, FlushSet
  <2>6. lk.st \notin {"E_InvX", "M_InvX"}
    BY <1>4, <1>5, <1>12, <1>16 DEF Dirt
  <2>7. FlushLineCases(k, c, e, a, ok, lk)
    BY <1>15, <2>6 DEF FlushLineCases
  <2>8. QED BY <1>6, <1>11, <2>5, <2>7, FlushLineOn
<1>17. CASE l.st \in {"E_InvX", "M_InvX"}
  <2>1. PICK yb, Kd, KU : yb = AtState(y, Base[y.st]) /\ Kd = UpdA(K, a, yb, s) /\ KU = Upd(K, a, yb)
    OBVIOUS
  <2>2. y.st \in {"E_InvX", "M_InvX"} /\ Fields(yb) /\ yb.owner = NoOwner /\ yb.sharers = {s} /\ yb.st \in {"E", "M"}
    BY <1>4, <1>5, <1>17, <2>1 DEF Dirt, AtState, Fields, Base
  <2>3. PICK kb : kb = UpdA(k1, a, yb, s)
    OBVIOUS
  <2>4. Put2(Retry(kb, a), c)
    <3>1. Put2(Settle(Answered(k, a, s), a), c)
      BY <1>12, <1>15, <2>2 DEF NoLine
    <3>2. Answered(k, a, s) = UpdA(k1, a, y, s)
      BY <1>9, AnswUpd
    <3>3. [UpdA(k1, a, y, s) EXCEPT !.line[a].st = Base[@]] = kb
      BY <1>2, <1>5, <1>7, <2>1, <2>3, StateUpdA DEF Fields
    <3>4. QED BY <3>1, <3>2, <3>3 DEF Settle
  <2>5. SameStatus(K, Kd, e) /\ AllocOf(Kd, e, kb)
    <3>1. AllocA(K, a, yb, s, e) /\ SameStatus(K, UpdA(K, a, yb, s), e)
      BY <1>2, <1>6, UpdAAlloc
    <3>2. QED BY <1>1, <2>1, <2>3, <3>1 DEF AllocA, AllocOf
  <2>6. K.resp[a] = {s} /\ Acks(K, a) = 1 /\ Ent(K, a) # <<>>
    <3>1. K.resp[a] = {s} /\ Acks(K, a) = Cardinality({s}) /\ {s} \subseteq Cores
      BY <1>2, <1>3, <1>17, OwnerAssumption DEF Line2, LineOK, Acking
    <3>2. Cardinality({s} \ {s}) = Cardinality({s}) - 1 /\ Cardinality({s}) \in Nat
      BY <3>1, LessCard
    <3>3. Cardinality({s} \ {s}) = 0
      <4>1. {s} \ {s} = {}
        OBVIOUS
      <4>2. QED BY <4>1, FS_EmptySet
    <3>4. Acks(K, a) = 1 /\ Acks(K, a) # 0
      BY <3>1, <3>2, <3>3
    <3>5. QED BY <1>2, <3>1, <3>4, AcksEntry
  <2>7. Moved2(K, a, yb, {}, 0, Kd)
    <3>1. SetLine(K, a, yb, KU) /\ "st" \in DOMAIN yb
      BY <2>1, <2>2 DEF SetLine, Upd, Fields
    <3>2. Moved2(K, a, yb, K.resp[a], Acks(K, a), KU)
      BY <1>2, <1>14, <3>1, MovedLine
    <3>3. Kd = Answered(KU, a, s)
      BY <2>1, AnswUpd
    <3>4. Moved2(K, a, yb, K.resp[a] \ {s}, Acks(K, a) - 1, Kd)
      BY <1>2, <2>6, <3>2, <3>3, AnsweredIs
    <3>5. K.resp[a] \ {s} = {} /\ Acks(K, a) - 1 = 0
      BY <2>6
    <3>6. QED BY <3>4, <3>5
  <2>8. Good2(L, Kd, chv) /\ En(Kd) = En(K) /\ Retries(Kd) = Retries(K) /\ Kd.done = K.done /\ No(Kd) = No(K)
    <3>1. Lowers(ch0[Down(s)][a][1]) /\ (Acking(K.line[a].st) => s \in K.resp[a])
      BY <1>1, <1>2, <1>3
    <3>2. PICK R2 : R2 = {}
      OBVIOUS
    <3>3. K.line[a].st \in {"E_InvX", "M_InvX"} /\ R2 = {} /\ yb.st \in {"E", "M"}
      BY <1>1, <1>17, <2>2, <3>2
    <3>4. Moved2(K, a, yb, R2, Cardinality(R2), Kd)
      BY <2>7, <3>2, FS_EmptySet
    <3>5. QED BY <1>2, <1>13, <2>2, <3>1, <3>3, <3>4, G2Lower
  <2>9. Flushing(L, kb, c, e, a, ok) /\ kb.line = Kd.line
    <3>1. Flushing(L, kb, c, e, a, ok)
      BY <1>0, <1>1, <1>10, <1>11, <1>13, <2>5, <2>8, FlushSet
    <3>2. kb.line = Kd.line
      BY <1>2, <1>6, <2>5, <2>7, AllocIs DEF Moved2
    <3>3. QED BY <3>1, <3>2
  <2>10. kb.line[a].st \in Valid
    <3>1. Kd.line[a] = yb
      BY <2>7 DEF Moved2
    <3>2. QED BY <2>2, <2>9, <3>1 DEF Valid
  <2>11. QED BY <2>4, <2>9, <2>10, FlushRetry
<1>18. QED BY <1>16, <1>17
-----------------------------------------------------------------------------
(***************************************************************************)
(* Responses of memory.                                                    *)
(***************************************************************************)

(* A response of memory has left its link. *)
Back2(L, K, ch0, ch, ev, a) ==
    /\ a \in Addrs /\ a \in K.done /\ Good2(L, K, ch0) /\ ~Null(Retries(K), a) /\ ev.addr = a
    /\ 1 \in Ix(ch0[FromMem][a]) /\ ch0[FromMem][a][1] = ev
    /\ Mail(ch) /\ Cut(ch0[FromMem][a], ch[FromMem][a]) /\ Others(ch0, FromMem, a, ch)

(* What is known of a response of memory. *)
LEMMA BackIs ==
    ASSUME NEW L, NEW K, NEW ch0, NEW ch, NEW ev, NEW a, Back2(L, K, ch0, ch, ev, a), NEW req, req = getFrontEvent(K.mshr, a)
    PROVE  /\ Handed(K, a) /\ FrontEv(En(K), a) /\ Ent(K, a)[1].ev = req /\ EvOK2(req, a) /\ MemFits(ev, K.line[a].st, req)
           /\ NoToken(ch[ToMem][a], ch[FromMem][a]) /\ KK(K) /\ Ctl(K) /\ K.resp[a] = {} /\ Line2(K.line[a], {}, 0)
           /\ ~Acking(K.line[a].st) /\ K.line[a].st \in {"IS", "IM", "S_B", "I_B", "I", NoLine} /\ req.cmd \in HC(req.src, K, a)
           /\ Pair(req.src, L[req.src].line[a].st, Busy(L[req.src], a), ch[Up(req.src)][a], ch[Down(req.src)][a],
                   K.line[a], {}, HC(req.src, K, a))
<1>1. /\ a \in Addrs /\ Good2(L, K, ch0) /\ KK(K) /\ GoodAt(L, K, ch0, a) /\ Ctl(K) /\ ~Null(Retries(K), a)
  BY KKEntry DEF Back2, Good2, Body2
<1>2. PICK t, f, f2 : t = ch0[ToMem][a] /\ f = ch0[FromMem][a] /\ f2 = ch[FromMem][a]
  OBVIOUS
<1>3. Mem2(t, f, K, a) /\ 1 \in Ix(f) /\ f[1] = ev /\ Cut(f, f2)
  BY <1>1, <1>2 DEF GoodAt, Back2
<1>4. Awaited(ev, K, a)
  BY <1>3 DEF Mem2
<1>5. NoToken(ch[ToMem][a], ch[FromMem][a])
  <2>1. ch[ToMem][a] = t
    BY <1>1, <1>2, MemLinks DEF Back2, Others
  <2>2. \A i \in Ix(f2) : i + 1 \in Ix(f) /\ 1 < i + 1
    BY <1>3, CutIs
  <2>3. \A i \in Ix(f2) : FALSE
    BY <1>3, <2>2 DEF Mem2
  <2>4. \A i \in Ix(t) : t[i].cmd \notin ReqCmds
    BY <1>3 DEF Mem2
  <2>5. QED BY <1>2, <2>1, <2>3, <2>4 DEF NoToken
<1>6. Prog(K, a) /\ ~Pend(Retries(K), a) /\ MemFits(ev, K.line[a].st, Ent(K, a)[1].ev)
  BY <1>4 DEF Awaited
<1>7. FrontEv(En(K), a) /\ En(K)[a][1].inProgress /\ 1 \in Ix(Ent(K, a)) /\ Ent(K, a)[1].type = "Event"
  BY <1>1, <1>6, EnIs DEF Prog, FrontEv
<1>8. ~Pointed(En(K), a)
  BY <1>1, <1>7 DEF KK, KI, PointersWait, Waits
<1>9. Handed(K, a)
  BY <1>1, <1>6, <1>8 DEF Handed, Hand
<1>10. Ent(K, a)[1].ev = req
  BY <1>1, <1>7, FrontIs
<1>11. EvOK2(req, a)
  BY <1>1, <1>7, <1>10 DEF GoodAt, Events2
<1>12. K.line[a].st \in {"IS", "IM", "S_B", "I_B", "I", NoLine} /\ MemFits(ev, K.line[a].st, req)
  BY <1>6, <1>10 DEF MemFits, ReqCmds
<1>13. ~Acking(K.line[a].st)
  BY <1>12 DEF Acking, NoLine
<1>14. K.resp[a] = {} /\ Line2(K.line[a], {}, 0)
  <2>1. Line2(K.line[a], K.resp[a], Acks(K, a))
    BY <1>1 DEF GoodAt
  <2>2. K.resp[a] = {} /\ Cardinality({}) = 0
    BY <1>13, <2>1, FS_EmptySet DEF Line2, LineOK
  <2>3. QED BY <2>1, <2>2 DEF Line2
<1>15. req.cmd \in HC(req.src, K, a)
  BY <1>1, <1>7, <1>10, <1>11, FrontHC
<1>16. req.src \in Cores
  BY <1>11 DEF EvOK2
<1>17. ch[Up(req.src)][a] = ch0[Up(req.src)][a] /\ ch[Down(req.src)][a] = ch0[Down(req.src)][a]
  BY <1>1, <1>16, LinkIs DEF Back2, Others
<1>18. Pair(req.src, L[req.src].line[a].st, Busy(L[req.src], a), ch0[Up(req.src)][a], ch0[Down(req.src)][a],
            K.line[a], K.resp[a], HC(req.src, K, a))
  BY <1>1, <1>16 DEF GoodAt, PairOf
<1>19. Pair(req.src, L[req.src].line[a].st, Busy(L[req.src], a), ch[Up(req.src)][a], ch[Down(req.src)][a],
            K.line[a], {}, HC(req.src, K, a))
  BY <1>14, <1>17, <1>18
<1>20. QED BY <1>1, <1>5, <1>7, <1>9, <1>10, <1>11, <1>12, <1>13, <1>14, <1>15, <1>19

(* What memory sent is handed to the L1 that asked for it. *)
LEMMA G2Back ==
    ASSUME NEW L, NEW K, NEW ch0, NEW ch, NEW ev, NEW a, Back2(L, K, ch0, ch, ev, a), NEW req, req = getFrontEvent(K.mshr, a),
           NEW c, c = req.src, NEW ln, ~Acking(ln.st), Line2(ln, {}, 0),
           \A d \in Cores : d # c => (InView(d, K.line[a]) => InView(d, ln)) /\ (K.line[a].owner = d <=> ln.owner = d),
           NEW KL, SetLine(K, a, ln, KL), NEW m, m.addr = a, m.cmd \in {"GetSResp", "GetXResp", "FlushLineResp"},
           \A u2 : Ext(ch[Up(c)][a], m, u2) => Pair(c, L[c].line[a].st, Busy(L[c], a), u2, ch[Down(c)][a], ln, {}, {}),
           Put2(cleanUpAfterResponse(KL, a), Send(ch, Up(c), m))
    PROVE  Done2(L)
<1>1. /\ Handed(K, a) /\ FrontEv(En(K), a) /\ Ent(K, a)[1].ev = req /\ EvOK2(req, a)
      /\ NoToken(ch[ToMem][a], ch[FromMem][a]) /\ KK(K) /\ Ctl(K) /\ ~Acking(K.line[a].st)
  BY BackIs
<1>2. c \in Cores /\ a \in Addrs /\ a \in K.done /\ Good2(L, K, ch0) /\ Mail(ch) /\ Others(ch0, FromMem, a, ch)
  BY <1>1 DEF EvOK2, Back2
<1>3. PICK K2, KP, ch2 : KP = [KL EXCEPT !.mshr = removeFront(@, a)] /\ K2 = Replay(KP, a) /\ ch2 = Send(ch, Up(c), m)
  OBVIOUS
<1>4. Put2(K2, ch2)
  BY <1>3 DEF cleanUpAfterResponse
<1>5. /\ Ext(ch[Up(c)][a], m, ch2[Up(c)][a]) /\ Between(c, a, ch, ch2) /\ ch2[Down(c)][a] = ch[Down(c)][a]
      /\ ch2[ToMem][a] = ch[ToMem][a] /\ ch2[FromMem][a] = ch[FromMem][a]
  BY <1>2, <1>3, SendUp
<1>6. Between(c, a, ch0, ch)
  BY <1>2, LinkIs DEF Between, Others
<1>7. Between(c, a, ch0, ch2)
  BY <1>5, <1>6, BetweenTrans
<1>8. Popped(KL, a, c, KP)
  <2>1. "st" \in DOMAIN ln
    BY DEF Line2, Fields
  <2>2. KL.mshr = K.mshr
    BY <1>1, <1>2, <2>1, SetLineIs
  <2>3. En(KL) = En(K) /\ Ent(KL, a) = Ent(K, a)
    BY <2>2 DEF En, Ent
  <2>4. QED BY <1>1, <1>3, <2>3 DEF Popped, SetPop
<1>9. Pair(c, L[c].line[a].st, Busy(L[c], a), ch2[Up(c)][a], ch2[Down(c)][a], ln, {}, {})
  BY <1>5
<1>10. NoToken(ch2[ToMem][a], ch2[FromMem][a])
  BY <1>1, <1>5
<1>11. Good2(L, K2, ch2)
  BY <1>1, <1>2, <1>3, <1>7, <1>8, <1>9, <1>10, G2Serve
<1>12. QED BY <1>4, <1>11, PutDone

(* handleGetXResp of the L2. *)
LEMMA G2GetXResp ==
    ASSUME NEW L, NEW K, NEW ch0, NEW ch, NEW ev, NEW a, Back2(L, K, ch0, ch, ev, a), ev.cmd = "GetXResp", L2GetXResp(K, ch, ev)
    PROVE  Done2(L)
<1>1. PICK req, c, lk : req = getFrontEvent(K.mshr, a) /\ c = req.src /\ lk = K.line[a]
  OBVIOUS
<1>2. /\ EvOK2(req, a) /\ MemFits(ev, lk.st, req) /\ Ctl(K) /\ Line2(lk, {}, 0) /\ req.cmd \in HC(req.src, K, a)
      /\ Pair(req.src, L[req.src].line[a].st, Busy(L[req.src], a), ch[Up(req.src)][a], ch[Down(req.src)][a],
              K.line[a], {}, HC(req.src, K, a))
  BY <1>1, BackIs
<1>3. c \in Cores /\ ev.addr = a
  BY <1>1, <1>2 DEF EvOK2, Back2
<1>4. /\ req.cmd \in {"GetS", "GetX"} /\ lk.st \in {"IS", "IM"} /\ (lk.st # "IM" => req.cmd = "GetS")
  BY <1>2 DEF MemFits
<1>5. lk.owner = NoOwner /\ lk.sharers = {} /\ NoOwner \notin Cores
  BY <1>2, <1>4, OwnerAssumption DEF Line2, LineOK
<1>6. PICK own \in BOOLEAN : own <=> lk.st = "IM" \/ Len(K.mshr.reg[a].entries) = 1
  OBVIOUS
<1>7. PICK cmd, ln, KL, m :
         /\ cmd = IF own THEN "GetXResp" ELSE "GetSResp"
         /\ ln = [st      |-> IF lk.st = "IM" \/ ev.dirty THEN "M" ELSE "E",
                  data    |-> ev.data,
                  owner   |-> IF own THEN req.src ELSE lk.owner,
                  sharers |-> IF own THEN lk.sharers \ {req.src} ELSE lk.sharers \cup {req.src}]
         /\ KL = [K EXCEPT !.line[a] = ln]
         /\ m = WithData(Event(cmd, a, "L2", req.id), ev.data, FALSE)
  OBVIOUS
<1>8. Put2(cleanUpAfterResponse(KL, a), Send(ch, Up(c), m))
  BY <1>1, <1>3, <1>6, <1>7 DEF L2GetXResp
<1>9. SetLine(K, a, ln, KL)
  BY <1>7 DEF SetLine
<1>10. m.cmd = cmd /\ m.addr = a
  BY <1>7 DEF Event, WithData
<1>11. Fields(ln) /\ ln.st \in {"E", "M"} /\ (own => ln.owner = c /\ ln.sharers = {}) /\ (~own => ln.owner = NoOwner /\ ln.sharers = {c})
  BY <1>1, <1>5, <1>7 DEF Fields
<1>12. ~Acking(ln.st)
  BY <1>11 DEF Acking
<1>13. Line2(ln, {}, 0)
  <2>1. LineOK(ln, {})
    BY <1>11, <1>12 DEF LineOK, LineStates, NoLine
  <2>2. Cardinality({}) = 0
    BY FS_EmptySet
  <2>3. QED BY <1>3, <1>11, <2>1, <2>2 DEF Line2
<1>14. InView(c, ln) /\ (cmd = "GetXResp" => ln.owner = c) /\ (lk.owner = c => ln.owner = c)
       /\ (ln.owner = c => cmd = "GetXResp")
  BY <1>3, <1>5, <1>7, <1>11 DEF InView
<1>15. \A d \in Cores : d # c => (InView(d, K.line[a]) => InView(d, ln)) /\ (K.line[a].owner = d <=> ln.owner = d)
  BY <1>1, <1>5, <1>11 DEF InView
<1>16. GrantFits(req.cmd, m.cmd) /\ m.cmd \in {"GetSResp", "GetXResp", "FlushLineResp"}
  BY <1>4, <1>6, <1>7, <1>10 DEF GrantFits, Grants
<1>17. \A u2 : Ext(ch[Up(c)][a], m, u2) => Pair(c, L[c].line[a].st, Busy(L[c], a), u2, ch[Down(c)][a], ln, {}, {})
  <2>1. SUFFICES ASSUME NEW u2, Ext(ch[Up(c)][a], m, u2) PROVE Pair(c, L[c].line[a].st, Busy(L[c], a), u2, ch[Down(c)][a], ln, {}, {})
    OBVIOUS
  <2>2. Pair(c, L[c].line[a].st, Busy(L[c], a), ch[Up(c)][a], ch[Down(c)][a], lk, {}, HC(c, K, a)) /\ req.cmd \in HC(c, K, a)
    BY <1>1, <1>2
  <2>3. QED BY <1>10, <1>12, <1>14, <1>16, <2>1, <2>2, PairServed
<1>18. QED BY <1>1, <1>8, <1>9, <1>10, <1>12, <1>13, <1>15, <1>16, <1>17, G2Back

(* handleFlushLineResp of the L2. *)
LEMMA G2FlushLineResp ==
    ASSUME NEW L, NEW K, NEW ch0, NEW ch, NEW ev, NEW a, Back2(L, K, ch0, ch, ev, a), ev.cmd = "FlushLineResp", L2FlushLineResp(K, ch, ev)
    PROVE  Done2(L)
<1>1. PICK req, c, lk : req = getFrontEvent(K.mshr, a) /\ c = req.src /\ lk = K.line[a]
  OBVIOUS
<1>2. /\ EvOK2(req, a) /\ MemFits(ev, lk.st, req) /\ Ctl(K) /\ Line2(lk, {}, 0) /\ req.cmd \in HC(req.src, K, a)
      /\ Pair(req.src, L[req.src].line[a].st, Busy(L[req.src], a), ch[Up(req.src)][a], ch[Down(req.src)][a],
              K.line[a], {}, HC(req.src, K, a))
  BY <1>1, BackIs
<1>3. c \in Cores /\ ev.addr = a /\ a \in Addrs
  BY <1>1, <1>2 DEF EvOK2, Back2
<1>4. req.cmd \in FlushCmds /\ lk.st \in {"S_B", "I_B", "I", NoLine}
  BY <1>2 DEF MemFits
<1>5. PICK st, ln, KL, m :
         /\ st = CASE lk.st = "I_B" -> "I" [] lk.st = "S_B" -> "S" [] OTHER -> lk.st
         /\ ln = AtState(lk, st) /\ KL = [K EXCEPT !.line[a].st = st]
         /\ m = Event("FlushLineResp", a, "L2", req.id)
  OBVIOUS
<1>6. Put2(cleanUpAfterResponse(KL, a), Send(ch, Up(c), m))
  <2>1. KL = [K EXCEPT !.line[a].st = CASE lk.st = "I_B" -> "I" [] lk.st = "S_B" -> "S" [] OTHER -> @]
    BY <1>1, <1>2, <1>3, <1>5 DEF Ctl
  <2>2. QED BY <1>1, <1>3, <1>5, <2>1 DEF L2FlushLineResp
<1>7. SetLine(K, a, ln, KL)
  BY <1>1, <1>5 DEF SetLine, AtState
<1>8. m.cmd = "FlushLineResp" /\ m.addr = a
  BY <1>5 DEF Event
<1>9. Fields(ln) /\ ln.st = st /\ ln.owner = lk.owner /\ ln.sharers = lk.sharers
  BY <1>2, <1>5 DEF AtState, Fields, Line2
<1>10. (lk.st = "I_B" /\ st = "I") \/ (lk.st = "S_B" /\ st = "S") \/ (lk.st \in {"I", NoLine} /\ st = lk.st)
  BY <1>4, <1>5 DEF NoLine
<1>11. ~Acking(ln.st)
  BY <1>9, <1>10 DEF Acking, NoLine
<1>12. Line2(ln, {}, 0)
  <2>1. LineOK(ln, {})
    BY <1>2, <1>9, <1>10, <1>11 DEF Line2, LineOK, LineStates, NoLine
  <2>2. QED BY <1>2, <1>9, <2>1 DEF Line2
<1>13. \A d \in Cores : (InView(d, lk) => InView(d, ln)) /\ (lk.owner = d <=> ln.owner = d)
  BY <1>9 DEF InView
<1>14. \A u2 : Ext(ch[Up(c)][a], m, u2) => Pair(c, L[c].line[a].st, Busy(L[c], a), u2, ch[Down(c)][a], ln, {}, {})
  <2>1. SUFFICES ASSUME NEW u2, Ext(ch[Up(c)][a], m, u2) PROVE Pair(c, L[c].line[a].st, Busy(L[c], a), u2, ch[Down(c)][a], ln, {}, {})
    OBVIOUS
  <2>2. PICK s, b, h : s = L[c].line[a].st /\ b = Busy(L[c], a) /\ h = HC(c, K, a)
    OBVIOUS
  <2>3. Pair(c, s, b, ch[Up(c)][a], ch[Down(c)][a], lk, {}, h) /\ req.cmd \in h
    BY <1>1, <1>2, <2>2
  <2>4. Fits(m, b) /\ h # {}
    BY <1>4, <1>8, <2>3 DEF Pair, Agree, Tokens, Asks, Fits, FlushCmds
  <2>5. Answers(c, lk, {}, {})
    BY <1>4 DEF Answers, Acking, NoLine
  <2>6. Pair(c, s, b, u2, ch[Down(c)][a], lk, {}, {})
    BY <1>8, <2>1, <2>3, <2>4, <2>5, PairReply
  <2>7. Pair(c, s, b, u2, ch[Down(c)][a], ln, {}, {})
    BY <1>3, <1>11, <1>13, <2>6, PairQuiet
  <2>8. QED BY <2>2, <2>7
<1>15. QED BY <1>1, <1>6, <1>7, <1>8, <1>11, <1>12, <1>13, <1>14, G2Back
-----------------------------------------------------------------------------
(***************************************************************************)
(* Retried evictions, and the events of a step.                            *)
(***************************************************************************)

(* Nobody is asked for a line that is absent. *)
LEMMA NoneAsked ==
    ASSUME NEW L, NEW K, NEW ch, Body2(L, K, ch), NEW a \in Addrs, K.line[a].st = NoLine PROVE K.resp[a] = {}
<1>1. Line2(K.line[a], K.resp[a], Acks(K, a))
  BY DEF Body2, GoodAt
<1>2. ~Acking(K.line[a].st)
  BY DEF Acking, NoLine
<1>3. QED BY <1>1, <1>2 DEF Line2, LineOK

(* The eviction that new waits for is tried again. *)
Null2(L, K, ch, ev) ==
    /\ Good2(L, K, ch) /\ ev.addr \in K.done /\ Gone(Retries(K), ev.addr, ev.new)
    /\ \E j : Points(En(K), ev.addr, 1, j, ev.new)

(* A retried eviction succeeds. *)
LEMMA NullFreed ==
    ASSUME NEW L, NEW K, NEW ch, NEW ev, Null2(L, K, ch, ev), NEW v, v = NoLine \/ v \in Addrs, v = ev.addr \/ K.line[ev.addr].st = NoLine,
           L2Evicted(K, v), NEW K2, K2 = DropPointer(RetryEvent(L2Remove(K, v), ev.new), ev.addr, ev.new), Put2(K2, L2Writeback(ch, K, v))
    PROVE  Done2(L)
<1>1. PICK old, new, K1, ch1 : old = ev.addr /\ new = ev.new /\ K1 = L2Remove(K, v) /\ ch1 = L2Writeback(ch, K, v)
  OBVIOUS
<1>2. PICK j : Points(En(K), old, 1, j, new)
  BY <1>1 DEF Null2
<1>3. old \in Addrs /\ old \in K.done /\ Gone(Retries(K), old, new) /\ Good2(L, K, ch) /\ Body2(L, K, ch)
  BY <1>1, <1>2 DEF Null2, Points, Good2
<1>4. /\ Good2(L, K1, ch1) /\ K1.done = K.done /\ Retries(K1) = Retries(K) /\ En(K1) = En(K) /\ K1.resp = K.resp
      /\ v \in Addrs => K.resp[v] = {}
  BY <1>1, <1>3, G2Evict
<1>5. K1.resp[old] = {}
  <2>1. CASE v = old
    BY <1>3, <1>4, <2>1
  <2>2. CASE v # old
    <3>1. K.line[old].st = NoLine
      BY <1>1, <2>2
    <3>2. QED BY <1>3, <1>4, <3>1, NoneAsked
  <2>3. QED BY <2>1, <2>2
<1>6. KK(K1) /\ Body2(L, K1, ch1) /\ EntryOK(En(K1))
  BY <1>4, KKEntry DEF Good2
<1>7. K2 = DropPointer(RetryEvent(K1, new), old, new)
  BY <1>1
<1>8. Points(En(K1), old, 1, j, new) /\ Gone(Retries(K1), old, new) /\ old \in K1.done
  BY <1>2, <1>3, <1>4
<1>9. /\ KK(K2) /\ Frame(K1, K2) /\ (\A b \in Addrs : Evs(Ent(K1, b), Ent(K2, b))) /\ AcksOr0(K1, old, K2)
      /\ \A b : Pend(Retries(K2), b) => Pend(Retries(K1), b) \/ ~Prog(K2, b)
  BY <1>6, <1>7, <1>8, KKFreed
<1>10. Body2(L, K2, ch1)
  BY <1>5, <1>6, <1>9, B2Evs
<1>11. QED BY <1>1, <1>9, <1>10, PutDone DEF Good2

(* A retried eviction has to call another line back. *)
LEMMA NullMoved ==
    ASSUME NEW L, NEW K, NEW ch, NEW ev, Null2(L, K, ch, ev), NEW v \in Addrs, v # ev.addr, K.line[ev.addr].st = NoLine, K.line[v].st # NoLine,
           NEW kv, kv = CallBack(K, v), NEW K2, K2 = DropPointer([kv EXCEPT !.mshr = insertEviction(@, v, ev.new)], ev.addr, ev.new),
           Put2(K2, SendCallBack(ch, K, v))
    PROVE  Done2(L)
<1>1. PICK old, new, ch1 : old = ev.addr /\ new = ev.new /\ ch1 = SendCallBack(ch, K, v)
  OBVIOUS
<1>2. PICK j : Points(En(K), old, 1, j, new)
  BY <1>1 DEF Null2
<1>3. old \in Addrs /\ old \in K.done /\ Gone(Retries(K), old, new) /\ Good2(L, K, ch) /\ KK(K)
  BY <1>1, <1>2 DEF Null2, Points, Good2
<1>4. /\ KKBut(kv, v) /\ Body2(L, kv, ch1) /\ En(kv) = En(K) /\ Retries(kv) = Retries(K) /\ kv.done = K.done /\ No(kv) = No(K)
  BY <1>1, <1>3, G2Call
<1>5. v # old /\ v # new
  <2>1. new \in No(K)
    BY <1>2, <1>3, PointsIs
  <2>2. QED BY <1>1, <2>1 DEF No
<1>6. kv.resp[old] = {}
  <2>1. kv.line[old].st = NoLine
    BY <1>1, <1>3, <1>4 DEF No
  <2>2. QED BY <1>3, <1>4, <2>1, NoneAsked
<1>7. K2 = DropPointer([kv EXCEPT !.mshr = insertEviction(@, v, new)], old, new) /\ old \in kv.done
  BY <1>1, <1>3, <1>4
<1>8. /\ KK(K2) /\ Frame(kv, K2) /\ (\A b \in Addrs : Evs(Ent(kv, b), Ent(K2, b))) /\ AcksOr0(kv, old, K2)
      /\ \A b : Pend(Retries(K2), b) => Pend(Retries(K), b) \/ ~Prog(K2, b)
  <2>1. /\ KK(K) /\ Points(En(K), old, 1, j, new) /\ Gone(Retries(K), old, new) /\ v # old /\ v # new
        /\ KKBut(kv, v) /\ En(kv) = En(K) /\ Retries(kv) = Retries(K) /\ No(kv) = No(K) /\ old \in kv.done
        /\ K2 = DropPointer([kv EXCEPT !.mshr = insertEviction(@, v, new)], old, new)
    BY <1>2, <1>3, <1>4, <1>5, <1>7
  <2>2. QED BY <2>1, KKMoved
<1>9. EntryOK(En(kv)) /\ \A b : Pend(Retries(K2), b) => Pend(Retries(kv), b) \/ ~Prog(K2, b)
  BY <1>4, <1>8, ButEntry
<1>10. Body2(L, K2, ch1)
  BY <1>4, <1>6, <1>8, <1>9, B2Evs
<1>11. QED BY <1>1, <1>8, <1>10, PutDone DEF Good2

(* handleNULLCMD of the L2. *)
LEMMA G2NullCmd ==
    ASSUME NEW L, NEW K, NEW ch, NEW ev, Null2(L, K, ch, ev), L2NULLCMD(K, ch, ev)
    PROVE  Done2(L)
<1>1. PICK v \in IF K.line[ev.addr].st # NoLine THEN {ev.addr} ELSE Victims(K, L2Lines) :
         IF L2Evicted(K, v)
         THEN Put2(DropPointer(RetryEvent(L2Remove(K, v), ev.new), ev.addr, ev.new), L2Writeback(ch, K, v))
         ELSE Put2(IF v = ev.addr THEN CallBack(K, v)
                   ELSE DropPointer([CallBack(K, v) EXCEPT !.mshr = insertEviction(@, v, ev.new)], ev.addr, ev.new),
                   SendCallBack(ch, K, v))
  BY DEF L2NULLCMD
<1>2. PICK j : Points(En(K), ev.addr, 1, j, ev.new)
  BY DEF Null2
<1>3. Good2(L, K, ch) /\ ev.addr \in Addrs /\ 1 \in Ix(Ent(K, ev.addr))
  BY <1>2, EnIs DEF Null2, Points
<1>4. /\ v = NoLine \/ v \in Addrs
      /\ v = ev.addr \/ K.line[ev.addr].st = NoLine
      /\ v # ev.addr /\ v # NoLine => K.line[v].st # NoLine
  BY <1>1, <1>3 DEF Victims, Present
<1>5. CASE L2Evicted(K, v)
  BY <1>1, <1>4, <1>5, NullFreed
<1>6. CASE ~L2Evicted(K, v)
  <2>1. v \in Addrs
    BY <1>4, <1>6 DEF L2Evicted
  <2>2. CASE v = ev.addr
    <3>1. PICK kv, ch1 : kv = CallBack(K, v) /\ ch1 = SendCallBack(ch, K, v)
      OBVIOUS
    <3>2. Put2(kv, ch1)
      BY <1>1, <1>6, <2>2, <3>1
    <3>3. KKBut(kv, v) /\ Body2(L, kv, ch1) /\ (1 \in Ix(Ent(K, v)) => KK(kv))
      BY <1>3, <2>1, <3>1, G2Call
    <3>4. QED BY <1>3, <2>2, <3>2, <3>3, PutDone DEF Good2
  <2>3. CASE v # ev.addr
    <3>1. PICK kv, K2 : kv = CallBack(K, v) /\ K2 = DropPointer([kv EXCEPT !.mshr = insertEviction(@, v, ev.new)], ev.addr, ev.new)
      OBVIOUS
    <3>2. Put2(K2, SendCallBack(ch, K, v))
      BY <1>1, <1>6, <2>3, <3>1
    <3>3. K.line[ev.addr].st = NoLine /\ K.line[v].st # NoLine
      BY <1>4, <2>1, <2>3, AddrsAssumption
    <3>4. QED BY <2>1, <2>3, <3>1, <3>2, <3>3, NullMoved
  <2>4. QED BY <2>2, <2>3
<1>7. QED BY <1>5, <1>6

(* The L2's step for an event that was in its MSHR. *)
LEMMA RetriedRequest ==
    ASSUME NEW L, NEW K, NEW ch, NEW ev, Req2(L, K, ch, ch, ev, TRUE), L2HandleRequest(K, ch, ev, TRUE)
    PROVE  Done2(L)
<1>1. ev.cmd \in FlushCmds => ~ev.evict
  BY DEF Req2, EvOK2
<1>2. CASE ev.cmd = "GetS" /\ L2GetS(K, ch, ev, TRUE)
  BY <1>2, G2GetS
<1>3. CASE ev.cmd = "GetX" /\ L2GetX(K, ch, ev, TRUE)
  BY <1>3, G2GetX
<1>4. CASE ev.cmd = "FlushLine" /\ L2FlushLine(K, ch, ev, TRUE)
  <2>1. ~ev.evict
    BY <1>1, <1>4 DEF FlushCmds
  <2>2. QED BY <1>4, <2>1, PlainFlushLine
<1>5. CASE ev.cmd = "FlushLineInv" /\ L2FlushLineInv(K, ch, ev, TRUE)
  <2>1. ~ev.evict
    BY <1>1, <1>5 DEF FlushCmds
  <2>2. QED BY <1>5, <2>1, PlainFlushInv
<1>6. QED BY <1>2, <1>3, <1>4, <1>5 DEF L2HandleRequest

(* A request that has just arrived. *)
LEMMA NewRequest ==
    ASSUME NEW L, NEW K, NEW ch0, NEW ch, NEW ev, NEW a, Msg2(L, K, ch0, ch, ev, a), L2HandleRequest(K, ch, ev, FALSE)
    PROVE  Done2(L)
<1>1. ev.cmd \in {"GetS", "GetX"} => Req2(L, K, ch0, ch, ev, FALSE)
  BY DEF Msg2, Fresh2, Came2, Req2, EvOK2, ReqCmds, FlushCmds, Gives, Leaves, Lowers
<1>2. ev.cmd \in FlushCmds /\ ~ev.evict => Req2(L, K, ch0, ch, Stripped(ev), FALSE)
  BY MsgReq
<1>3. Stripped(ev).cmd = ev.cmd /\ Stripped(ev).addr = ev.addr
  BY StrippedIs
<1>4. CASE ev.cmd = "GetS" /\ L2GetS(K, ch, ev, FALSE)
  BY <1>1, <1>4, G2GetS
<1>5. CASE ev.cmd = "GetX" /\ L2GetX(K, ch, ev, FALSE)
  BY <1>1, <1>5, G2GetX
<1>6. CASE ev.cmd = "FlushLine" /\ L2FlushLine(K, ch, ev, FALSE)
  <2>1. CASE ev.evict
    BY <1>6, <2>1, EvictFlushLine
  <2>2. CASE ~ev.evict
    <3>1. PICK x : x = Stripped(ev)
      OBVIOUS
    <3>2. Req2(L, K, ch0, ch, x, FALSE) /\ x.cmd = ev.cmd /\ x.addr = ev.addr
      BY <1>2, <1>3, <1>6, <2>2, <3>1 DEF FlushCmds
    <3>3. QED BY <1>6, <2>2, <3>1, <3>2, PlainFlushLine
  <2>3. QED BY <2>1, <2>2
<1>7. CASE ev.cmd = "FlushLineInv" /\ L2FlushLineInv(K, ch, ev, FALSE)
  <2>1. CASE ev.evict
    BY <1>7, <2>1, EvictFlushInv
  <2>2. CASE ~ev.evict
    <3>1. PICK x : x = Stripped(ev)
      OBVIOUS
    <3>2. Req2(L, K, ch0, ch, x, FALSE) /\ x.cmd = ev.cmd /\ x.addr = ev.addr
      BY <1>2, <1>3, <1>7, <2>2, <3>1 DEF FlushCmds
    <3>3. QED BY <1>7, <2>2, <3>1, <3>2, PlainFlushInv
  <2>3. QED BY <2>1, <2>2
<1>8. QED BY <1>4, <1>5, <1>6, <1>7 DEF L2HandleRequest

(* The L2 takes an event from its retry buffer. *)
LEMMA RetryGood2 ==
    ASSUME NEW L, Good2(L, l2, chan), L2Retry
    PROVE  Done2(L)
<1>1. PICK k \in Cycles(l2) :
         /\ Ready(k) # {}
         /\ \/ k.retry[FirstReady(k)].cmd = "NULLCMD" /\ L2NULLCMD(TakeRetry(k), chan, k.retry[FirstReady(k)])
            \/ k.retry[FirstReady(k)].cmd # "NULLCMD" /\ L2HandleRequest(TakeRetry(k), chan, k.retry[FirstReady(k)], TRUE)
  BY DEF L2Retry
<1>2. PICK r, K : r = k.retry[FirstReady(k)] /\ K = TakeRetry(k)
  OBVIOUS
<1>3. KK(l2) /\ Body2(L, l2, chan)
  BY DEF Good2
<1>4. /\ KK(K) /\ Alike(l2, K) /\ r.addr \in K.done /\ r.addr \in Addrs
      /\ \A b : Pend(Retries(K), b) => Pend(Retries(l2), b)
      /\ r.cmd # "NULLCMD" => /\ Handed(K, r.addr) /\ FrontEv(En(K), r.addr) /\ Ent(K, r.addr)[1].ev = r
                              /\ Pend(Retries(l2), r.addr)
      /\ r.cmd = "NULLCMD" => /\ \E j : Points(En(K), r.addr, 1, j, r.new)
                              /\ Gone(Retries(K), r.addr, r.new)
  BY <1>1, <1>2, <1>3, KKTake
<1>5. Good2(L, K, chan)
  BY <1>4, G2Alike
<1>6. CASE r.cmd = "NULLCMD"
  <2>1. Null2(L, K, chan, r)
    BY <1>4, <1>5, <1>6 DEF Null2
  <2>2. L2NULLCMD(K, chan, r)
    BY <1>1, <1>2, <1>6
  <2>3. QED BY <2>1, <2>2, G2NullCmd
<1>7. CASE r.cmd # "NULLCMD"
  <2>1. PICK a : a = r.addr
    OBVIOUS
  <2>2. GoodAt(L, l2, chan, a) /\ GoodAt(L, K, chan, a) /\ a \in Addrs
    BY <1>3, <1>4, <1>5, <2>1 DEF Body2, Good2
  <2>3. Ent(K, a) = Ent(l2, a) /\ K.line = l2.line /\ En(K) = En(l2)
    BY <1>4, <2>2, AlikeEn DEF Alike
  <2>4. NoToken(chan[ToMem][a], chan[FromMem][a])
    BY <1>4, <1>7, <2>1, <2>2, NoneMem DEF GoodAt
  <2>5. Prog(K, a) => K.line[a].st \in Valid
    BY <1>4, <1>7, <2>1, <2>2, <2>3 DEF GoodAt, Live, Prog
  <2>6. EvOK2(r, a)
    <3>1. 1 \in Ix(Ent(K, a)) /\ Ent(K, a)[1].type = "Event" /\ Ent(K, a)[1].ev = r
      BY <1>4, <1>7, <2>1, <2>2, EnIs DEF FrontEv
    <3>2. QED BY <2>2, <3>1 DEF GoodAt, Events2
  <2>7. Serve2(L, K, chan, r, a)
    BY <1>4, <1>5, <1>7, <2>1, <2>4, <2>5 DEF Serve2, Ready2
  <2>8. Req2(L, K, chan, chan, r, TRUE)
    BY <1>4, <2>1, <2>6, <2>7 DEF Req2
  <2>9. L2HandleRequest(K, chan, r, TRUE)
    BY <1>1, <1>2, <1>7
  <2>10. QED BY <2>8, <2>9, RetriedRequest
<1>8. QED BY <1>6, <1>7

(* The L2 takes a message from an L1. *)
LEMMA ReceiveGood2 ==
    ASSUME NEW L, Good2(L, l2, chan), NEW c \in Cores, NEW a \in Addrs, L2Receive(c, a)
    PROVE  Done2(L)
<1>1. PICK ev, ch : ev = Head(chan[Down(c)][a]) /\ ch = Deliver(Down(c), a)
  OBVIOUS
<1>2. PICK k0 \in Cycles(l2) :
         /\ CanAccess(k0, a)
         /\ \/ L2HandleRequest(Access(k0, a), ch, ev, FALSE)
            \/ ev.cmd \in {"PutS", "PutE", "PutM"}    /\ L2Put(Access(k0, a), ch, ev)
            \/ ev.cmd = "AckInv"                      /\ L2AckInv(Access(k0, a), ch, ev)
            \/ ev.cmd \in {"FetchResp", "FetchXResp"} /\ L2FetchResp(Access(k0, a), ch, ev)
  BY <1>1 DEF L2Receive
<1>3. PICK K : K = Access(k0, a)
  OBVIOUS
<1>4. KK(l2) /\ Body2(L, l2, chan) /\ Mail(chan)
  BY DEF Good2, Body2
<1>5. /\ KK(K) /\ Alike(l2, K) /\ Retries(K) = Retries(l2) /\ a \in K.done
      /\ ~Null(Retries(K), a) /\ (Pend(Retries(K), a) => a \in No(K))
  BY <1>2, <1>3, <1>4, KKAccess
<1>6. Good2(L, K, chan)
  BY <1>5, G2Alike
<1>7. /\ Mail(ch) /\ Cut(chan[Down(c)][a], ch[Down(c)][a]) /\ Others(chan, Down(c), a, ch)
      /\ chan[Down(c)][a][1] = ev /\ MsgOK(ev, Down(c), a)
  <2>1. chan[Down(c)][a] # <<>> /\ Down(c) \in Links /\ ch = [chan EXCEPT ![Down(c)][a] = Tail(@)]
    BY <1>1, LinkIs DEF L2Receive, Deliver
  <2>2. /\ Mail(ch) /\ Cut(chan[Down(c)][a], ch[Down(c)][a]) /\ Others(chan, Down(c), a, ch)
        /\ Head(chan[Down(c)][a]) = chan[Down(c)][a][1] /\ MsgOK(chan[Down(c)][a][1], Down(c), a)
    BY <1>4, <2>1, TakeIs
  <2>3. QED BY <1>1, <2>2
<1>8. ev.addr = a /\ ev.src = c
  BY <1>7 DEF MsgOK
<1>9. Msg2(L, K, chan, ch, ev, a)
  BY <1>5, <1>6, <1>7, <1>8 DEF Msg2, Came2, Took
<1>10. CASE L2HandleRequest(K, ch, ev, FALSE)
  BY <1>9, <1>10, NewRequest
<1>11. CASE ev.cmd \in {"PutS", "PutE", "PutM"} /\ L2Put(K, ch, ev)
  BY <1>9, <1>11, G2Put DEF PutCmds
<1>12. CASE ev.cmd = "AckInv" /\ L2AckInv(K, ch, ev)
  BY <1>9, <1>12, G2AckInv
<1>13. CASE ev.cmd \in {"FetchResp", "FetchXResp"} /\ L2FetchResp(K, ch, ev)
  BY <1>9, <1>13, G2FetchResp, G2FetchXResp
<1>14. QED BY <1>2, <1>3, <1>10, <1>11, <1>12, <1>13

(* The L2 takes a response of memory. *)
LEMMA ReceiveMemGood2 ==
    ASSUME NEW L, Good2(L, l2, chan), NEW a \in Addrs, L2ReceiveMem(a)
    PROVE  Done2(L)
<1>1. PICK ev, ch : ev = Head(chan[FromMem][a]) /\ ch = Deliver(FromMem, a)
  OBVIOUS
<1>2. PICK k0 \in Cycles(l2) :
         /\ CanAccess(k0, a)
         /\ \/ ev.cmd = "GetXResp"      /\ L2GetXResp(Access(k0, a), ch, ev)
            \/ ev.cmd = "FlushLineResp" /\ L2FlushLineResp(Access(k0, a), ch, ev)
  BY <1>1 DEF L2ReceiveMem
<1>3. PICK K : K = Access(k0, a)
  OBVIOUS
<1>4. KK(l2) /\ Body2(L, l2, chan) /\ Mail(chan)
  BY DEF Good2, Body2
<1>5. KK(K) /\ Alike(l2, K) /\ Retries(K) = Retries(l2) /\ a \in K.done /\ ~Null(Retries(K), a)
  BY <1>2, <1>3, <1>4, KKAccess
<1>6. Good2(L, K, chan)
  BY <1>5, G2Alike
<1>7. /\ Mail(ch) /\ Cut(chan[FromMem][a], ch[FromMem][a]) /\ Others(chan, FromMem, a, ch)
      /\ chan[FromMem][a][1] = ev /\ MsgOK(ev, FromMem, a)
  <2>1. chan[FromMem][a] # <<>> /\ FromMem \in Links /\ ch = [chan EXCEPT ![FromMem][a] = Tail(@)]
    BY <1>1, MemLinks DEF L2ReceiveMem, Deliver
  <2>2. /\ Mail(ch) /\ Cut(chan[FromMem][a], ch[FromMem][a]) /\ Others(chan, FromMem, a, ch)
        /\ Head(chan[FromMem][a]) = chan[FromMem][a][1] /\ MsgOK(chan[FromMem][a][1], FromMem, a)
    BY <1>4, <2>1, TakeIs
  <2>3. QED BY <1>1, <2>2
<1>8. 1 \in Ix(chan[FromMem][a]) /\ ev.addr = a
  BY <1>7, CutIs DEF MsgOK
<1>9. Back2(L, K, chan, ch, ev, a)
  BY <1>5, <1>6, <1>7, <1>8 DEF Back2
<1>10. CASE ev.cmd = "GetXResp" /\ L2GetXResp(K, ch, ev)
  BY <1>9, <1>10, G2GetXResp
<1>11. CASE ev.cmd = "FlushLineResp" /\ L2FlushLineResp(K, ch, ev)
  BY <1>9, <1>11, G2FlushLineResp
<1>12. QED BY <1>2, <1>3, <1>10, <1>11
-----------------------------------------------------------------------------
(***************************************************************************)
(* Memory.                                                                 *)
(***************************************************************************)

(* Memory takes a put. *)
LEMMA MemDrop ==
    ASSUME NEW t, NEW f, NEW K, NEW a, Mem2(t, f, K, a), NEW t2, Cut(t, t2) PROVE Mem2(t2, f, K, a)
<1>1. /\ \A i \in Ix(t2) : t2[i] = t[i + 1] /\ i + 1 \in Ix(t)
      /\ \A i, j \in Ix(t2) : i = j <=> i + 1 = j + 1
  BY CutIs
<1>2. QED BY <1>1 DEF Mem2

(* Memory turns a request into its response. *)
LEMMA MemAnswer ==
    ASSUME NEW t, NEW f, NEW K, NEW a, Mem2(t, f, K, a), NEW t2, Cut(t, t2), t[1].cmd \in ReqCmds, NEW m, NEW f2, Ext(f, m, f2),
           m.cmd = IF t[1].cmd \in FlushCmds THEN "FlushLineResp" ELSE "GetXResp"
    PROVE  Mem2(t2, f2, K, a)
<1>1. /\ 1 \in Ix(t) /\ \A i \in Ix(t2) : t2[i] = t[i + 1] /\ i + 1 \in Ix(t) /\ 1 < i + 1
  BY CutIs
<1>2. \A i \in Ix(f2) : i = Len(f) + 1 /\ f2[i] = m
  <2>1. \A i \in Ix(f) : FALSE
    BY <1>1 DEF Mem2
  <2>2. QED BY <2>1, ExtIs
<1>3. \A i \in Ix(t2) : t2[i].cmd \notin ReqCmds
  BY <1>1 DEF Mem2
<1>4. Awaited(t[1], K, a)
  BY <1>1 DEF Mem2
<1>5. Awaited(m, K, a)
  BY <1>4 DEF Awaited, MemFits, FlushCmds, ReqCmds
<1>6. QED BY <1>2, <1>3, <1>5 DEF Mem2

(* Memory takes a request and answers it. *)
LEMMA MemStep ==
    ASSUME NEW L, NEW K, NEW ch, Good2(L, K, ch), NEW a \in Addrs, NEW ch2, Mail(ch2),
           \A x \in Links, b \in Addrs : b # a \/ x \notin {ToMem, FromMem} => ch2[x][b] = ch[x][b],
           Mem2(ch2[ToMem][a], ch2[FromMem][a], K, a)
    PROVE  Good2(L, K, ch2)
<1>1. KK(K) /\ Body2(L, K, ch) /\ EntryOK(En(K)) /\ Ctl(K)
  BY KKEntry DEF Good2
<1>2. Still2(K, ch, a, K, ch2)
  <2>1. \A b \in Addrs : Evs(Ent(K, b), Ent(K, b))
    BY <1>1, EntLen, EvsSelf
  <2>2. QED BY <2>1 DEF Still2
<1>3. GoodAt(L, K, ch2, a)
  <2>1. GoodAt(L, K, ch, a)
    BY <1>1 DEF Body2
  <2>2. \A c \in Cores : ch2[Up(c)][a] = ch[Up(c)][a] /\ ch2[Down(c)][a] = ch[Down(c)][a]
    BY LinkIs
  <2>3. \A c \in Cores : PairOf(c, a, L[c], ch2, K)
    BY <2>1, <2>2 DEF GoodAt, PairOf
  <2>4. QED BY <2>1, <2>3 DEF GoodAt
<1>4. Body2(L, K, ch2)
  <2>1. "resp" \in DOMAIN K /\ DOMAIN K.resp = Addrs
    BY <1>1 DEF Body2
  <2>2. QED BY <1>1, <1>2, <1>3, <2>1, B2At
<1>5. QED BY <1>1, <1>4 DEF Good2

(* A step of memory. *)
LEMMA MemGood ==
    ASSUME NEW L, Good2(L, l2, chan), NEW a \in Addrs, MemReceive(a)
    PROVE  Good2(L, l2, chan')
<1>1. PICK ev, ch, resp : /\ ev = Head(chan[ToMem][a]) /\ ch = Deliver(ToMem, a)
                          /\ resp = Event(IF ev.cmd \in FlushCmds THEN "FlushLineResp" ELSE "GetXResp", a, "mem", ev.id)
  OBVIOUS
<1>2. chan' = CASE ev.cmd \in PutCmds -> ch
                [] ev.cmd \in FlushCmds -> Send(ch, FromMem, resp)
                [] OTHER -> Send(ch, FromMem, WithData(resp, mem[a], FALSE))
  BY <1>1 DEF MemReceive, FlushCmds, PutCmds
<1>3. KK(l2) /\ Body2(L, l2, chan) /\ Mail(chan) /\ GoodAt(L, l2, chan, a)
  BY DEF Good2, Body2
<1>4. /\ Mail(ch) /\ Cut(chan[ToMem][a], ch[ToMem][a]) /\ Others(chan, ToMem, a, ch)
      /\ chan[ToMem][a][1] = ev /\ MsgOK(ev, ToMem, a)
  <2>1. chan[ToMem][a] # <<>> /\ ToMem \in Links /\ ch = [chan EXCEPT ![ToMem][a] = Tail(@)]
    BY <1>1, MemLinks DEF MemReceive, Deliver
  <2>2. /\ Mail(ch) /\ Cut(chan[ToMem][a], ch[ToMem][a]) /\ Others(chan, ToMem, a, ch)
        /\ Head(chan[ToMem][a]) = chan[ToMem][a][1] /\ MsgOK(chan[ToMem][a][1], ToMem, a)
    BY <1>3, <2>1, TakeIs
  <2>3. QED BY <1>1, <2>2
<1>5. ev.cmd \in ReqCmds \cup PutCmds
  BY <1>4 DEF MsgOK
<1>6. PICK t, f : t = chan[ToMem][a] /\ f = chan[FromMem][a]
  OBVIOUS
<1>7. Mem2(t, f, l2, a) /\ Cut(t, ch[ToMem][a]) /\ t[1] = ev /\ ch[FromMem][a] = f
  BY <1>3, <1>4, <1>6, MemLinks DEF GoodAt, Others
<1>8. CASE ev.cmd \in PutCmds
  <2>1. chan' = ch
    BY <1>2, <1>8 DEF PutCmds, FlushCmds
  <2>2. Mem2(ch[ToMem][a], ch[FromMem][a], l2, a)
    BY <1>7, MemDrop
  <2>3. \A x \in Links, b \in Addrs : b # a \/ x \notin {ToMem, FromMem} => ch[x][b] = chan[x][b]
    BY <1>4 DEF Others
  <2>4. QED BY <1>4, <2>1, <2>2, <2>3, MemStep
<1>9. CASE ev.cmd \notin PutCmds
  <2>1. ev.cmd \in ReqCmds
    BY <1>5, <1>9
  <2>2. PICK m, c2 : m = (IF ev.cmd \in FlushCmds THEN resp ELSE WithData(resp, mem[a], FALSE)) /\ c2 = Send(ch, FromMem, m)
    OBVIOUS
  <2>3. m.addr = a /\ m.cmd = IF t[1].cmd \in FlushCmds THEN "FlushLineResp" ELSE "GetXResp"
    BY <1>1, <1>7, <2>2 DEF Event, WithData
  <2>4. chan' = c2
    BY <1>2, <1>9, <2>2
  <2>5. MsgOK(m, FromMem, a)
    BY <2>3, LinkIs, MemLinks DEF MsgOK
  <2>6. Mail(c2) /\ Ext(ch[FromMem][a], m, c2[FromMem][a]) /\ Others(ch, FromMem, a, c2)
    BY <1>4, <2>2, <2>3, <2>5, MemLinks, SendIs
  <2>7. c2[ToMem][a] = ch[ToMem][a]
    BY <2>6, MemLinks DEF Others
  <2>8. Mem2(c2[ToMem][a], c2[FromMem][a], l2, a)
    BY <1>7, <2>1, <2>3, <2>6, <2>7, MemAnswer
  <2>9. \A x \in Links, b \in Addrs : b # a \/ x \notin {ToMem, FromMem} => c2[x][b] = chan[x][b]
    BY <1>4, <2>6 DEF Others
  <2>10. QED BY <2>4, <2>6, <2>8, <2>9, MemStep
<1>10. QED BY <1>8, <1>9
-----------------------------------------------------------------------------
(***************************************************************************)
(* The specification.                                                      *)
(***************************************************************************)

(* The invariant of every L1. *)
L1sGood == /\ DOMAIN l1 = Cores /\ DOMAIN cpu = Cores
           /\ \A c \in Cores : Good1(c, l1[c], chan, l2, cpu[c].next)
(* The inductive invariant: that of every L1, and that of the L2. *)
IInv == L1sGood /\ Good2(l1, l2, chan)

(* A controller in which nothing waits. *)
Fresh(k) ==
    /\ {"line", "mshr", "retry", "rBuf", "done"} \subseteq DOMAIN k
    /\ k.mshr = EmptyMSHR /\ k.retry = <<>> /\ k.rBuf = <<>> /\ DOMAIN k.line = Addrs
    /\ \A a \in Addrs : "st" \in DOMAIN k.line[a] /\ k.line[a].st = NoLine

(* A controller in which nothing waits has the invariant. *)
LEMMA FreshGood ==
    ASSUME NEW k, Fresh(k)
    PROVE  /\ KK(k)
           /\ \A a \in Addrs : Ent(k, a) = <<>> /\ Acks(k, a) = 0 /\ ~Prog(k, a) /\ Busy(k, a) = "none"
<1>1. IsSeq(<<>>) /\ Ix(<<>>) = {}
  BY SeqEmpty DEF Ix
<1>2. \A a \in Addrs : k.mshr.reg[a] = NoReg /\ Ent(k, a) = <<>> /\ Acks(k, a) = 0 /\ Rts(k, a) = 0 /\ En(k)[a] = <<>>
  BY DEF Fresh, EmptyMSHR, NoReg, Ent, Acks, Rts, En
<1>3. Retries(k) = <<>>
  <2>1. PICK r : r = Retries(k)
    OBVIOUS
  <2>2. Joined(<<>>, <<>>, r)
    BY <1>1, <2>1, SeqJoin DEF Retries, Fresh
  <2>3. QED BY <2>1, <2>2, SeqEmpty, SeqLen DEF Joined
<1>4. Ctl(k)
  <2>1. DOMAIN k.mshr = {"reg", "size"} /\ DOMAIN k.mshr.reg = Addrs
    BY DEF Fresh, EmptyMSHR
  <2>2. \A a \in Addrs : {"entries", "acks", "retries"} \subseteq DOMAIN k.mshr.reg[a] /\ k.mshr.reg[a].entries = <<>>
    BY <1>2 DEF NoReg
  <2>3. QED BY <1>1, <2>1, <2>2 DEF Ctl, Fresh
<1>5. KI(Retries(k), En(k), No(k))
  <2>1. \A a, i, j, b : ~Points(En(k), a, i, j, b)
    BY <1>1, <1>2 DEF Points
  <2>2. EntryOK(En(k))
    BY <1>1, <1>2 DEF EntryOK
  <2>3. RetriesFront(Retries(k), En(k)) /\ NullsFront(Retries(k), En(k))
    BY <1>1, <1>3 DEF RetriesFront, NullsFront
  <2>4. PointersWait(Retries(k), En(k), No(k)) /\ PointersOnce(En(k))
    BY <2>1 DEF PointersWait, Pointed, PointersOnce
  <2>5. QED BY <1>1, <1>3, <2>2, <2>3, <2>4 DEF KI
<1>6. NoRegOK(k) /\ DoneOK(k)
  BY <1>1, <1>2 DEF NoRegOK, DoneOK, Fresh
<1>7. CountOK(k)
  BY <1>1, <1>2, <1>3 DEF CountOK, Pend
<1>8. \A a \in Addrs : ~Prog(k, a)
  BY <1>1, <1>2 DEF Prog, FrontEv
<1>9. QED BY <1>2, <1>4, <1>5, <1>6, <1>7, <1>8 DEF KK, Busy

(* Nothing is on its way, and nobody has the line. *)
LEMMA PairEmpty ==
    ASSUME NEW c, NEW l, NEW R, l.st = NoLine, l.owner # c
    PROVE  Pair(c, NoLine, "none", <<>>, <<>>, l, R, {})
<1>1. IsSeq(<<>>) /\ Ix(<<>>) = {}
  BY SeqEmpty DEF Ix
<1>2. StateFits(NoLine, "none")
  BY DEF StateFits
<1>3. NoLine \notin Holding /\ NoLine \notin Owning
  BY DEF NoLine, Holding, Owning
<1>4. Tokens("none", <<>>, <<>>, {}) /\ Once(<<>>, <<>>, {})
  BY <1>1 DEF Tokens, Once
<1>5. View(c, NoLine, <<>>, <<>>, l) /\ Left(NoLine, <<>>, <<>>) /\ First(<<>>, <<>>, {})
  BY <1>1, <1>3 DEF View, Left, First
<1>6. Acked(c, <<>>, l, R) /\ Snooped(c, NoLine, <<>>, <<>>, l, R)
  BY <1>1 DEF Acked, Snooped
<1>7. Answers(c, l, R, {})
  BY DEF Answers, Acking, NoLine
<1>8. Race(c, NoLine, <<>>, <<>>, l)
  BY <1>1, <1>3 DEF Race, NotOwner, Stray, Owned, PutOwner
<1>9. QED BY <1>1, <1>2, <1>4, <1>5, <1>6, <1>7, <1>8 DEF Pair, Agree

(* The initial states have the invariant. *)
LEMMA InitGood == Init => IInv
<1> SUFFICES ASSUME Init PROVE IInv
  OBVIOUS
<1>1. \A x \in Links, a \in Addrs : chan[x][a] = <<>>
  BY DEF Init, LinkInit
<1>2. IsSeq(<<>>) /\ Ix(<<>>) = {}
  BY SeqEmpty DEF Ix
<1>3. Mail(chan)
  <2>1. DOMAIN chan = Links /\ \A x \in Links : DOMAIN chan[x] = Addrs
    BY DEF Init, LinkInit
  <2>2. QED BY <1>1, <1>2, <2>1 DEF Mail, Shape
<1>4. Fresh(l2) /\ "resp" \in DOMAIN l2 /\ DOMAIN l2.resp = Addrs /\ \A a \in Addrs : l2.line[a] = NoLine2 /\ l2.resp[a] = {}
  BY DEF Init, L2Init, Fresh, NoLine2
<1>5. KK(l2) /\ \A a \in Addrs : Ent(l2, a) = <<>> /\ Acks(l2, a) = 0 /\ ~Prog(l2, a)
  BY <1>4, FreshGood
<1>6. ASSUME NEW c \in Cores PROVE Fresh(l1[c]) /\ cpu[c].next = 1
  BY DEF Init, L1Init, Fresh, NoLine1
<1>7. ASSUME NEW c \in Cores, NEW a \in Addrs PROVE PairOf(c, a, l1[c], chan, l2)
  <2>1. HC(c, l2, a) = {}
    BY <1>2, <1>5 DEF HC
  <2>2. Busy(l1[c], a) = "none" /\ l1[c].line[a].st = NoLine
    BY <1>6, FreshGood DEF Fresh
  <2>3. chan[Up(c)][a] = <<>> /\ chan[Down(c)][a] = <<>>
    BY <1>1, LinkIs
  <2>4. Pair(c, NoLine, "none", <<>>, <<>>, l2.line[a], l2.resp[a], {})
    <3>1. l2.line[a].st = NoLine /\ l2.line[a].owner # c
      BY <1>4, OwnerAssumption DEF NoLine2
    <3>2. QED BY <3>1, PairEmpty
  <2>5. QED BY <2>1, <2>2, <2>3, <2>4 DEF PairOf
<1>8. ASSUME NEW c \in Cores PROVE Good1(c, l1[c], chan, l2, cpu[c].next)
  <2>1. KK(l1[c]) /\ \A a \in Addrs : Ent(l1[c], a) = <<>> /\ ~Prog(l1[c], a)
    BY <1>6, FreshGood
  <2>2. Mine(l1[c], c, 1) /\ Free(l1[c])
    BY <1>2, <2>1 DEF Mine, Free
  <2>3. QED BY <1>3, <1>6, <1>7, <2>1, <2>2 DEF Good1
<1>9. ASSUME NEW a \in Addrs PROVE GoodAt(l1, l2, chan, a)
  <2>1. Line2(l2.line[a], l2.resp[a], Acks(l2, a))
    <3>1. Line2(NoLine2, {}, 0)
      BY FS_EmptySet DEF Line2, Fields, NoLine2, LineOK, LineStates, Acking, NoLine
    <3>2. QED BY <1>4, <1>5, <3>1
  <2>2. Events2(Ent(l2, a), a) /\ Live(l2, a, l2.line[a].st)
    BY <1>2, <1>5 DEF Events2, Live
  <2>3. NoToken(chan[ToMem][a], chan[FromMem][a])
    BY <1>1, <1>2, MemLinks DEF NoToken
  <2>4. QED BY <1>7, <2>1, <2>2, <2>3, MemNone DEF GoodAt
<1>10. DOMAIN l1 = Cores /\ DOMAIN cpu = Cores
  BY DEF Init, L1Init
<1>11. QED BY <1>3, <1>4, <1>5, <1>8, <1>9, <1>10 DEF IInv, L1sGood, Good2, Body2

(* What the L2 and memory know, when an L1 and its two links changed. *)
LEMMA Step1Good2 ==
    ASSUME NEW L, NEW K, NEW ch, Good2(L, K, ch), NEW c \in Cores, NEW M, NEW ch2, Mail(ch2), Kept1(c, ch, ch2),
           \A d \in Cores : d # c => M[d] = L[d], \A a \in Addrs : PairOf(c, a, M[c], ch2, K)
    PROVE  Good2(M, K, ch2)
<1>1. KK(K) /\ "resp" \in DOMAIN K /\ DOMAIN K.resp = Addrs
  BY DEF Good2, Body2
<1>2. ASSUME NEW a \in Addrs PROVE GoodAt(M, K, ch2, a)
  <2>1. GoodAt(L, K, ch, a)
    BY DEF Good2, Body2
  <2>2. ch2[ToMem][a] = ch[ToMem][a] /\ ch2[FromMem][a] = ch[FromMem][a]
    BY LinkIs DEF Kept1
  <2>3. ASSUME NEW d \in Cores, d # c PROVE PairOf(d, a, M[d], ch2, K)
    <3>1. ch2[Up(d)][a] = ch[Up(d)][a] /\ ch2[Down(d)][a] = ch[Down(d)][a]
      BY <2>3, LinkIs DEF Kept1
    <3>2. PairOf(d, a, L[d], ch, K) /\ M[d] = L[d]
      BY <2>1, <2>3 DEF GoodAt
    <3>3. QED BY <3>1, <3>2 DEF PairOf
  <2>4. \A d \in Cores : PairOf(d, a, M[d], ch2, K)
    BY <2>3
  <2>5. QED BY <2>1, <2>2, <2>4 DEF GoodAt
<1>3. QED BY <1>1, <1>2 DEF Good2, Body2

(* What an L1 knows, when it did not move. *)
LEMMA StepGood1 ==
    ASSUME NEW c \in Cores, NEW k, NEW ch, NEW K, NEW n, Good1(c, k, ch, K, n), NEW L, NEW K2, NEW ch2, Good2(L, K2, ch2), L[c] = k
    PROVE  Good1(c, k, ch2, K2, n)
<1>1. Mail(ch2) /\ \A a \in Addrs : PairOf(c, a, k, ch2, K2)
  BY DEF Good2, Body2, GoodAt
<1>2. QED BY <1>1 DEF Good1

(* A step of an L1 keeps the invariant. *)
LEMMA L1Moves ==
    ASSUME IInv, NEW c \in Cores, Done1(c, l2), l2' = l2
    PROVE  IInv'
<1>1. PICK n, k2 : /\ Good1(c, k2, chan', l2, n) /\ Kept1(c, chan, chan') /\ Put1(c, k2)
                   /\ Cpu1(c, n) \/ (cpu' = cpu /\ n = cpu[c].next)
  BY DEF Done1, Outcome1
<1>2. PICK k : k = Rest(k2)
  OBVIOUS
<1>3. Good1(c, k, chan', l2, n)
  BY <1>1, <1>2, G1Rest
<1>4. DOMAIN l1' = Cores /\ l1'[c] = k /\ \A d \in Cores : d # c => l1'[d] = l1[d]
  BY <1>1, <1>2 DEF Put1, IInv, L1sGood
<1>5. DOMAIN cpu' = Cores /\ cpu'[c].next = n /\ \A d \in Cores : d # c => cpu'[d] = cpu[d]
  BY <1>1 DEF Cpu1, IInv, L1sGood
<1>6. Good2(l1', l2, chan')
  <2>1. Good2(l1, l2, chan) /\ Mail(chan') /\ Kept1(c, chan, chan') /\ \A a \in Addrs : PairOf(c, a, l1'[c], chan', l2)
    BY <1>1, <1>3, <1>4 DEF IInv, Good1
  <2>2. QED BY <1>4, <2>1, Step1Good2
<1>7. ASSUME NEW d \in Cores PROVE Good1(d, l1'[d], chan', l2, cpu'[d].next)
  <2>1. CASE d = c
    BY <1>3, <1>4, <1>5, <2>1
  <2>2. CASE d # c
    <3>1. Good1(d, l1[d], chan, l2, cpu[d].next) /\ l1'[d] = l1[d] /\ cpu'[d].next = cpu[d].next
      BY <1>4, <1>5, <2>2 DEF IInv, L1sGood
    <3>2. Good1(d, l1[d], chan', l2, cpu[d].next)
      BY <1>6, <3>1, StepGood1
    <3>3. QED BY <3>1, <3>2
  <2>3. QED BY <2>1, <2>2
<1>8. QED BY <1>4, <1>5, <1>6, <1>7 DEF IInv, L1sGood

(* A step of the L2 or of memory keeps the invariant. *)
LEMMA BelowMoves ==
    ASSUME IInv, Good2(l1, l2', chan'), l1' = l1, cpu' = cpu
    PROVE  IInv'
<1>1. ASSUME NEW d \in Cores PROVE Good1(d, l1[d], chan', l2', cpu[d].next)
  <2>1. Good1(d, l1[d], chan, l2, cpu[d].next)
    BY DEF IInv, L1sGood
  <2>2. QED BY <2>1, StepGood1
<1>2. QED BY <1>1 DEF IInv, L1sGood

(* Every step keeps the invariant. *)
LEMMA NextGood == IInv /\ [Next]_vars => IInv'
<1> SUFFICES ASSUME IInv, [Next]_vars PROVE IInv'
  OBVIOUS
<1>1. DOMAIN cpu = Cores /\ Good2(l1, l2, chan) /\ \A c \in Cores : Good1(c, l1[c], chan, l2, cpu[c].next)
  BY DEF IInv, L1sGood
<1>2. CASE CoreIssue
  <2>1. PICK c \in Cores : L1Issue(c) /\ l2' = l2
    BY <1>2 DEF CoreIssue
  <2>2. Done1(c, l2)
    BY <1>1, <2>1, IssueGood
  <2>3. QED BY <2>1, <2>2, L1Moves
<1>3. CASE L1Process
  <2>1. PICK c \in Cores : L1Step(c) /\ l2' = l2
    BY <1>3 DEF L1Process
  <2>2. CASE L1Retry(c)
    <3>1. Done1(c, l2)
      BY <1>1, <2>2, RetryGood
    <3>2. QED BY <2>1, <3>1, L1Moves
  <2>3. ASSUME NEW a \in Addrs, L1Receive(c, a) PROVE IInv'
    <3>1. Done1(c, l2)
      BY <1>1, <2>3, ReceiveGood
    <3>2. QED BY <2>1, <3>1, L1Moves
  <2>4. QED BY <2>1, <2>2, <2>3 DEF L1Step
<1>4. CASE L2Process
  <2>1. l1' = l1 /\ cpu' = cpu
    BY <1>4 DEF L2Process, l1vars
  <2>2. Done2(l1)
    <3>1. CASE L2Retry
      BY <1>1, <3>1, RetryGood2
    <3>2. ASSUME NEW c \in Cores, NEW a \in Addrs, L2Receive(c, a) PROVE Done2(l1)
      BY <1>1, <3>2, ReceiveGood2
    <3>3. ASSUME NEW a \in Addrs, L2ReceiveMem(a) PROVE Done2(l1)
      BY <1>1, <3>3, ReceiveMemGood2
    <3>4. QED BY <1>4, <3>1, <3>2, <3>3 DEF L2Process, L2Step
  <2>3. QED BY <2>1, <2>2, BelowMoves DEF Done2
<1>5. CASE MemProcess
  <2>1. PICK a \in Addrs : MemReceive(a) /\ l1' = l1 /\ cpu' = cpu /\ l2' = l2
    BY <1>5 DEF MemProcess, l1vars
  <2>2. Good2(l1, l2, chan')
    BY <1>1, <2>1, MemGood
  <2>3. QED BY <2>1, <2>2, BelowMoves
<1>6. CASE UNCHANGED vars
  <2>1. l1' = l1 /\ cpu' = cpu /\ l2' = l2 /\ chan' = chan
    BY <1>6 DEF vars
  <2>2. QED BY <1>1, <2>1, BelowMoves
<1>7. QED BY <1>2, <1>3, <1>4, <1>5, <1>6 DEF Next, Stop

(* The inductive invariant of the hierarchy: what each L1, its two links,  *)
(* the L2 and memory know of each line, and what every MSHR and retry      *)
(* buffer hold, fit together in every state, for any number of cores,      *)
(* lines, MSHR entries and operations.                                     *)
THEOREM InvariantHolds == Spec => []IInv
BY InitGood, NextGood, PTL DEF Spec

(* The domain of a sequence. *)
LEMMA SeqDomain == ASSUME NEW q, IsSeq(q) PROVE DOMAIN q = Ix(q)
BY DEF IsSeq, Ix

(* The controller's invariant is stronger than RetryOK. *)
LEMMA RetriesOK == ASSUME NEW k, KK(k) PROVE RetryOK(k)
<1>1. PICK q : q = Retries(k)
  OBVIOUS
<1>2. KI(q, En(k), No(k)) /\ IsSeq(q) /\ DOMAIN q = Ix(q)
  BY <1>1, SeqDomain DEF KK, KI
<1>3. ASSUME NEW i \in Ix(q), q[i].cmd = "NULLCMD"
      PROVE  /\ frontIsEvent(k.mshr, q[i].new)
             /\ exists(k.mshr, q[i].addr) /\ getFrontType(k.mshr, q[i].addr) = "Evict"
             /\ \E j \in DOMAIN getEvictPointers(k.mshr, q[i].addr) : getEvictPointers(k.mshr, q[i].addr)[j] = q[i].new
  <2>1. PICK a, new : a = q[i].addr /\ new = q[i].new
    OBVIOUS
  <2>2. PICK j : Points(En(k), a, 1, j, new)
    BY <1>2, <1>3, <2>1 DEF KI, NullsFront
  <2>3. new \in Addrs /\ FrontEv(En(k), new)
    <3>1. Pointed(En(k), new)
      BY <2>2 DEF Pointed
    <3>2. QED BY <1>2, <3>1 DEF KI, PointersWait, Waits
  <2>4. /\ a \in Addrs /\ 1 \in Ix(Ent(k, a)) /\ Ent(k, a)[1].type = "Evict" /\ IsSeq(Ent(k, a)[1].ptrs)
        /\ j \in Ix(Ent(k, a)[1].ptrs) /\ Ent(k, a)[1].ptrs[j] = new
    <3>1. /\ a \in Addrs /\ 1 \in Ix(Ent(k, a)) /\ Ent(k, a)[1].type = "Evict"
          /\ j \in Ix(Ent(k, a)[1].ptrs) /\ Ent(k, a)[1].ptrs[j] = new
      BY <2>2, EnIs DEF Points
    <3>2. EntryAt(Ent(k, a)[1], a, 1)
      BY <3>1, EntryIs
    <3>3. QED BY <3>1, <3>2 DEF EntryAt
  <2>5. exists(k.mshr, a) /\ ~pendingWriteback(k.mshr, a) /\ Head(Ent(k, a)) = Ent(k, a)[1]
    BY <2>4, ExistsIs, EntLen DEF KK
  <2>6. getFrontType(k.mshr, a) = "Evict"
    BY <2>4, <2>5 DEF getFrontType, Ent
  <2>7. getEvictPointers(k.mshr, a) = Ent(k, a)[1].ptrs
    BY <2>5 DEF getEvictPointers, evictIndex, Ent
  <2>8. j \in DOMAIN getEvictPointers(k.mshr, a) /\ getEvictPointers(k.mshr, a)[j] = new
    BY <2>4, <2>7, SeqDomain
  <2>9. frontIsEvent(k.mshr, new)
    BY <2>3, ExistsIs
  <2>10. QED BY <2>1, <2>5, <2>6, <2>8, <2>9
<1>4. ASSUME NEW i \in Ix(q), q[i].cmd # "NULLCMD"
      PROVE  \E j \in EventsOf(k.mshr, q[i].addr) : k.mshr.reg[q[i].addr].entries[j].ev = q[i]
  <2>1. PICK a : a = q[i].addr
    OBVIOUS
  <2>2. a \in Addrs /\ 1 \in Ix(Ent(k, a)) /\ Ent(k, a)[1].type = "Event" /\ Ent(k, a)[1].ev = q[i]
    BY <1>2, <1>4, <2>1, EnIs DEF KI, RetriesFront, FrontEv
  <2>3. 1 \in DOMAIN k.mshr.reg[a].entries
    BY <2>2, SeqDomain, EntLen DEF KK, Ent
  <2>4. 1 \in EventsOf(k.mshr, a) /\ k.mshr.reg[a].entries[1].ev = q[i]
    BY <2>2, <2>3 DEF EventsOf, Ent
  <2>5. QED BY <2>1, <2>4
<1>5. ASSUME NEW a \in Addrs
      PROVE  getPendingRetries(k.mshr, a) = Cardinality({i \in DOMAIN q : q[i].cmd # "NULLCMD" /\ q[i].addr = a})
  <2>1. PICK T : T = {i \in DOMAIN q : q[i].cmd # "NULLCMD" /\ q[i].addr = a}
    OBVIOUS
  <2>2. \A i, j \in T : i = j
    BY <1>2, <2>1 DEF KI, RetriesFront
  <2>3. Rts(k, a) \in {0, 1} /\ (Rts(k, a) = 1 <=> T # {})
    <3>1. Pend(q, a) <=> T # {}
      BY <1>2, <2>1 DEF Pend
    <3>2. QED BY <1>1, <3>1 DEF KK, CountOK
  <2>4. Rts(k, a) = Cardinality(T)
    <3>1. CASE T = {}
      BY <2>3, <3>1, FS_EmptySet
    <3>2. CASE T # {}
      <4>1. PICK i : T = {i}
        BY <2>2, <3>2
      <4>2. QED BY <2>3, <3>2, <4>1, FS_Singleton
    <3>3. QED BY <3>1, <3>2
  <2>5. QED BY <2>1, <2>4 DEF getPendingRetries, Rts
<1>6. QED BY <1>1, <1>2, <1>3, <1>4, <1>5 DEF RetryOK

(* No controller ever retries an event that was completed and removed, a   *)
(* NULLCMD finds its pointer and the event the eviction is made for, and   *)
(* the pending-retry counters count (retryBuffer_, the MSHR's pending      *)
(* retries and evict pointers).                                            *)
THEOREM RetriesValid == Spec => []NoDanglingRetry
<1>1. IInv => NoDanglingRetry
  BY RetriesOK DEF IInv, L1sGood, Good1, Good2, NoDanglingRetry
<1>2. QED BY <1>1, InvariantHolds, PTL

(* What the L2 knows of an L1's state. *)
LEMMA Known ==
    ASSUME IInv, NEW c \in Cores, NEW a \in Addrs
    PROVE  /\ l1[c].line[a].st \in Owning => l2.line[a].owner = c
           /\ l1[c].line[a].st \in Holding => InView(c, l2.line[a])
           /\ l2.line[a].owner # NoOwner => l2.line[a].sharers = {}
<1>1. GoodAt(l1, l2, chan, a)
  BY DEF IInv, Good2, Body2
<1>2. PairOf(c, a, l1[c], chan, l2) /\ LineOK(l2.line[a], l2.resp[a])
  BY <1>1 DEF GoodAt, Line2
<1>3. View(c, l1[c].line[a].st, chan[Up(c)][a], chan[Down(c)][a], l2.line[a])
  BY <1>2 DEF PairOf, Pair, Agree
<1>4. QED BY <1>2, <1>3 DEF View, LineOK

(* Inclusion: the L2 has every L1 that can hit on a line as its owner or   *)
(* sharer (MESI_Inclusive.cc's owner and sharers against MESI_L1.cc's      *)
(* states).                                                                *)
THEOREM InclusionHolds == Spec => []Inclusion
<1>1. IInv => Inclusion
  <2>1. SUFFICES ASSUME IInv, NEW c \in Cores, NEW a \in Addrs
                 PROVE  /\ l1[c].line[a].st \in {"E", "M"} => l2.line[a].owner = c
                        /\ l1[c].line[a].st \in {"S", "SM"} => c \in l2.line[a].sharers \cup {l2.line[a].owner}
    BY DEF Inclusion
  <2>2. QED BY <2>1, Known DEF Owning, Holding, InView
<1>2. QED BY <1>1, InvariantHolds, PTL

(* Single writer: no L1 has a readable copy of a line that another may     *)
(* write, in whatever order requests, evictions, snoops, flushes and NACKs *)
(* cross.                                                                  *)
THEOREM OneWriter == Spec => []SWMR
<1>1. IInv => SWMR
  <2>1. SUFFICES ASSUME IInv, NEW c \in Cores, NEW d \in Cores, NEW a \in Addrs, c # d,
                        l1[c].line[a].st \in {"E", "M"}, l1[d].line[a].st \in Stable
                 PROVE  FALSE
    BY DEF SWMR
  <2>2. l2.line[a].owner = c /\ l2.line[a].sharers = {}
    BY <2>1, Known, OwnerAssumption DEF Owning
  <2>3. InView(d, l2.line[a])
    BY <2>1, Known DEF Holding, Stable
  <2>4. QED BY <2>1, <2>2, <2>3 DEF InView
<1>2. QED BY <1>1, InvariantHolds, PTL

(* An L1 has a case for the event that reaches it: an Inv never finds it the owner, a FetchInvX never a sharer. *)
LEMMA FitsL1 ==
    ASSUME NEW c, NEW s, NEW b, NEW u, NEW d, NEW l, NEW R, NEW h, Pair(c, s, b, u, d, l, R, h),
           1 \in Ix(u), NEW m, m = u[1]
    PROVE  /\ m.cmd \in SnoopCmds => s \in L1SnoopHandled(m.cmd)
           /\ m.cmd \in {"GetSResp", "GetXResp", "FlushLineResp"} => s \in L1ResponseHandled(m.cmd) /\ b # "none"
<1>1. Agree(c, s, b, u, d, l, R, h) /\ NotOwner(c, s, u, l) /\ Stray(s, u)
  BY DEF Pair, Race
<1>2. StateFits(s, b) /\ (m.cmd \in RespCmds => Fits(m, b))
  BY <1>1 DEF Agree, Tokens
<1>3. s \in {NoLine, "I", "S", "E", "M", "IS", "IM", "SM", "S_B", "I_B"}
  BY <1>2 DEF StateFits, CoreCmds
<1>4. ASSUME m.cmd = "Inv", s \in Owning PROVE FALSE
  <2>1. Effective(s, u, 1)
    BY <1>4 DEF Effective, Holding, Owning
  <2>2. l.owner # c
    BY <1>1, <1>4, <2>1 DEF NotOwner
  <2>3. QED BY <1>1, <1>4, <2>2 DEF Agree, View
<1>5. ASSUME m.cmd = "FetchInvX", s \in Shared PROVE FALSE
  <2>1. IsSeq(u)
    BY <1>1 DEF Agree
  <2>2. \A j \in Ix(u) : ~(j < 1)
    BY <2>1 DEF Ix
  <2>3. ~Effective(s, u, 1)
    BY <1>5, <2>2 DEF Effective, Behind, Owning, Shared
  <2>4. QED BY <1>1, <1>5, <2>3 DEF Stray
<1>6. ASSUME m.cmd \in SnoopCmds PROVE s \in L1SnoopHandled(m.cmd)
  <2>1. CASE m.cmd = "Inv"
    <3>1. L1SnoopHandled("Inv") = {NoLine, "I", "IS", "IM", "I_B", "S_B"} \cup {"S", "SM"}
      BY DEF L1SnoopHandled
    <3>2. QED BY <1>3, <1>4, <2>1, <3>1 DEF Owning
  <2>2. CASE m.cmd = "FetchInv"
    <3>1. L1SnoopHandled("FetchInv") = {NoLine, "I", "IS", "IM", "I_B", "S_B"} \cup {"S", "E", "M", "SM"}
      BY DEF L1SnoopHandled
    <3>2. QED BY <1>3, <2>2, <3>1
  <2>3. CASE m.cmd = "FetchInvX"
    <3>1. L1SnoopHandled("FetchInvX") = {NoLine, "I", "IS", "IM", "I_B", "S_B"} \cup {"E", "M"}
      BY DEF L1SnoopHandled
    <3>2. QED BY <1>3, <1>5, <2>3, <3>1 DEF Shared
  <2>4. QED BY <1>6, <2>1, <2>2, <2>3 DEF SnoopCmds
<1>7. ASSUME m.cmd \in {"GetSResp", "GetXResp", "FlushLineResp"} PROVE s \in L1ResponseHandled(m.cmd) /\ b # "none"
  <2>1. Fits(m, b)
    BY <1>2, <1>7 DEF RespCmds
  <2>2. QED BY <1>2, <1>7, <2>1 DEF Fits, StateFits, L1ResponseHandled, FlushCmds, NoLine
<1>8. QED BY <1>6, <1>7

(* The L2 has a case for the event that reaches it: a clean put of a sharer never finds a downgrade of the owner going on. *)
LEMMA FitsL2 ==
    ASSUME NEW c, NEW s, NEW b, NEW u, NEW d, NEW l, NEW R, NEW h, Pair(c, s, b, u, d, l, R, h), c # NoOwner, LineOK(l, R),
           1 \in Ix(d), NEW m, m = d[1]
    PROVE  /\ m.cmd \in PutCmds => l.st \in L2PutHandled(m.cmd)
           /\ m.cmd = "AckInv" => l.st \in {"S_Inv", "E_Inv", "M_Inv"} /\ c \in R
           /\ m.cmd \in {"FetchResp", "FetchXResp"} => l.st \in DOMAIN Base /\ c \in R
           /\ m.cmd \in FlushCmds /\ m.evict => l.st # NoLine
<1>1. Agree(c, s, b, u, d, l, R, h) /\ Owned(c, s, u, d, l) /\ PutOwner(c, d, l)
  BY DEF Pair, Race
<1>2. (Leaves(m) => InView(c, l)) /\ (Lowers(m) => l.owner = c)
  BY <1>1 DEF Agree, View
<1>3. l.st \in {NoLine, "I", "IS", "IM", "I_B"} => ~InView(c, l) /\ l.owner # c
  BY DEF LineOK, InView
<1>4. m.cmd \in AckCmds => Asked(c, m.cmd, l.st, R)
  BY <1>1 DEF Agree, Acked
<1>5. ASSUME m.cmd = "PutS", l.st \in {"E_InvX", "M_InvX"} PROVE FALSE
  <2>1. Leaves(m) /\ InView(c, l) /\ Acking(l.st)
    BY <1>2, <1>5 DEF Leaves, Acking
  <2>2. h = {}
    BY <1>1, <1>5 DEF Agree, First
  <2>3. c \in R
    BY <1>1, <2>1, <2>2 DEF Agree, Answers
  <2>4. l.owner = c
    BY <1>5, <2>1, <2>3 DEF LineOK, InView
  <2>5. IsSeq(d) /\ Left(s, u, d)
    BY <1>1 DEF Agree
  <2>6. s \notin Owning /\ \A i \in Ix(u) : u[i].cmd # "GetXResp"
    BY <2>1, <2>5 DEF Left, Holding, Owning, Grants
  <2>7. ASSUME NEW i \in Ix(d), Gives(d[i]) PROVE FALSE
    <3>1. i \in Nat /\ ~(i < 1)
      BY <2>5 DEF Ix, IsSeq
    <3>2. ~Lowers(d[i])
      BY <2>1, <2>5, <3>1 DEF Left
    <3>3. Leaves(d[i]) /\ d[i].cmd # "PutS"
      BY <2>7, <3>2 DEF Gives
    <3>4. i = 1
      BY <2>1, <2>5, <3>3 DEF Left
    <3>5. QED BY <1>5, <3>3, <3>4
  <2>8. QED BY <1>1, <2>4, <2>6, <2>7 DEF Owned
<1>6. ASSUME m.cmd = "PutS" PROVE l.st \in L2PutHandled("PutS")
  <2>1. l.st \notin {NoLine, "I", "IS", "IM", "I_B"} /\ l.st \notin {"E_InvX", "M_InvX"}
    BY <1>2, <1>3, <1>5, <1>6 DEF Leaves
  <2>2. L2PutHandled("PutS") = {"E", "M", "E_Inv", "M_Inv"} \cup {"S", "S_Inv", "SM_Inv", "SB_Inv", "S_B"}
    BY DEF L2PutHandled
  <2>3. QED BY <2>1, <2>2 DEF LineOK, LineStates
<1>7. ASSUME m.cmd \in {"PutE", "PutM"} PROVE l.st \in L2PutHandled(m.cmd)
  <2>1. l.owner = c
    BY <1>1, <1>7 DEF PutOwner
  <2>2. l.st \notin {NoLine, "I", "IS", "IM", "I_B"} /\ l.st \notin {"S", "S_Inv", "S_B"}
    BY <1>3, <2>1 DEF LineOK
  <2>3. L2PutHandled(m.cmd) = {"E", "M", "E_Inv", "M_Inv"} \cup {"E_InvX", "M_InvX"}
    BY <1>7 DEF L2PutHandled
  <2>4. QED BY <2>2, <2>3 DEF LineOK, LineStates
<1>8. ASSUME m.cmd \in FlushCmds, m.evict PROVE l.st # NoLine
  BY <1>2, <1>3, <1>8 DEF FlushCmds, Leaves, Lowers
<1>9. m.cmd = "AckInv" => l.st \in {"S_Inv", "E_Inv", "M_Inv"} /\ c \in R
  BY <1>4 DEF AckCmds, Asked
<1>10. m.cmd \in {"FetchResp", "FetchXResp"} => l.st \in DOMAIN Base /\ c \in R
  BY <1>4 DEF AckCmds, Asked, Base
<1>11. QED BY <1>6, <1>7, <1>8, <1>9, <1>10 DEF PutCmds

(* The event a controller meets next. *)
LEMMA HeadsAre ==
    ASSUME Mail(chan), NEW l \in Links, NEW ev \in Heads(l)
    PROVE  \E a \in Addrs : 1 \in Ix(chan[l][a]) /\ ev = chan[l][a][1] /\ MsgOK(ev, l, a)
<1>1. PICK a \in Addrs : chan[l][a] # <<>> /\ ev = Head(chan[l][a])
  BY DEF Heads
<1>2. IsSeq(chan[l][a])
  BY DEF Mail, Shape
<1>3. 1 \in Ix(chan[l][a]) /\ ev = chan[l][a][1]
  BY <1>1, <1>2, SeqLen DEF Ix
<1>4. QED BY <1>3 DEF Mail

(* No event reaches a handler in a state it has no case for: the fatal     *)
(* defaults of MESI_L1.cc and MESI_Inclusive.cc are never taken, and no    *)
(* answer comes that was not waited for.                                   *)
THEOREM EventsHandled == Spec => []NoUnhandledEvent
<1>1. IInv => NoUnhandledEvent
  <2>1. SUFFICES ASSUME IInv
                 PROVE  /\ \A c \in Cores : \A ev \in Heads(Up(c)) : L1Handles(c, ev)
                        /\ \A c \in Cores : \A ev \in Heads(Down(c)) : L2Handles(ev)
    BY DEF NoUnhandledEvent
  <2>2. Mail(chan) /\ \A c \in Cores : KK(l1[c])
    BY <2>1 DEF IInv, L1sGood, Good1, Good2, Body2
  <2>3. ASSUME NEW c \in Cores, NEW a \in Addrs
        PROVE  /\ Pair(c, l1[c].line[a].st, Busy(l1[c], a), chan[Up(c)][a], chan[Down(c)][a], l2.line[a], l2.resp[a], HC(c, l2, a))
               /\ LineOK(l2.line[a], l2.resp[a])
    BY <2>1 DEF IInv, Good2, Body2, GoodAt, Line2, PairOf
  <2>4. ASSUME NEW c \in Cores, NEW ev \in Heads(Up(c)) PROVE L1Handles(c, ev)
    <3>1. PICK a \in Addrs : 1 \in Ix(chan[Up(c)][a]) /\ ev = chan[Up(c)][a][1] /\ MsgOK(ev, Up(c), a)
      BY <2>2, LinkIs, HeadsAre
    <3>2. ev.addr = a /\ ev.cmd \in SnoopCmds \cup RespCmds
      BY <3>1 DEF MsgOK
    <3>3. /\ ev.cmd \in SnoopCmds => l1[c].line[a].st \in L1SnoopHandled(ev.cmd)
          /\ ev.cmd \in {"GetSResp", "GetXResp", "FlushLineResp"} =>
                l1[c].line[a].st \in L1ResponseHandled(ev.cmd) /\ Busy(l1[c], a) # "none"
      BY <2>3, <3>1, FitsL1
    <3>4. Busy(l1[c], a) # "none" => frontIsEvent(l1[c].mshr, a)
      BY <2>2, ExistsIs DEF Busy, Prog
    <3>5. DOMAIN L1SnoopResponse = SnoopCmds
      BY DEF L1SnoopResponse, SnoopCmds
    <3>6. CASE ev.cmd \in SnoopCmds
      BY <3>2, <3>3, <3>5, <3>6 DEF L1Handles
    <3>7. CASE ev.cmd = "NACK"
      BY <3>5, <3>7 DEF L1Handles, SnoopCmds
    <3>8. CASE ev.cmd \in {"GetSResp", "GetXResp", "FlushLineResp"}
      <4>1. ev.cmd \notin SnoopCmds /\ ev.cmd # "NACK"
        BY <3>8 DEF SnoopCmds
      <4>2. QED BY <3>2, <3>3, <3>4, <3>5, <3>8, <4>1 DEF L1Handles
    <3>9. QED BY <3>2, <3>6, <3>7, <3>8 DEF RespCmds
  <2>5. ASSUME NEW c \in Cores, NEW ev \in Heads(Down(c)) PROVE L2Handles(ev)
    <3>1. PICK a \in Addrs : 1 \in Ix(chan[Down(c)][a]) /\ ev = chan[Down(c)][a][1] /\ MsgOK(ev, Down(c), a)
      BY <2>2, LinkIs, HeadsAre
    <3>2. ev.addr = a /\ ev.src = c /\ c # NoOwner
      BY <3>1, OwnerAssumption DEF MsgOK
    <3>3. /\ ev.cmd \in PutCmds => l2.line[a].st \in L2PutHandled(ev.cmd)
          /\ ev.cmd = "AckInv" => l2.line[a].st \in {"S_Inv", "E_Inv", "M_Inv"} /\ c \in l2.resp[a]
          /\ ev.cmd \in {"FetchResp", "FetchXResp"} => l2.line[a].st \in DOMAIN Base /\ c \in l2.resp[a]
          /\ ev.cmd \in FlushCmds /\ ev.evict => l2.line[a].st # NoLine
      BY <2>3, <3>1, <3>2, FitsL2
    <3>4. QED BY <3>2, <3>3 DEF L2Handles, PutCmds, FlushCmds
  <2>6. QED BY <2>4, <2>5
<1>2. QED BY <1>1, InvariantHolds, PTL
=============================================================================
