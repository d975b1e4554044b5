---------------------------- MODULE HierarchyL1Proofs ----------------------------
(***************************************************************************)
(* The inductive invariant of Hierarchy, and that every step of an L1      *)
(* keeps it.                                                               *)
(*                                                                         *)
(* Three things are kept apart.  Pair relates one L1, its two links and    *)
(* the L2 on one line, as a relation on their states: it says what a       *)
(* message on its way means, and its lemmas are the protocol's.  KK is the *)
(* bookkeeping of a controller's MSHR and retry buffers, the same for L1   *)
(* and L2.  Mail is what a link may carry.  Good1 joins them for an L1.    *)
(*                                                                         *)
(* Operators of records built with EXCEPT are given names (SetLine,        *)
(* SetProg, InsertEv, ...): a lemma that is stated about a name is found   *)
(* by the provers where one about the record is not.                       *)
(***************************************************************************)
EXTENDS Hierarchy, WellFoundedInduction, FiniteSetTheorems, TLAPS

(* The order of the naturals has no infinite descending chain.             *)
LEMMA NatWellFounded == IsWellFoundedOn({p \in Nat \X Nat : p[1] < p[2]}, Nat)
BY NatLessThanWellFounded DEF OpToRel

(* A set of naturals that is not empty has a least element.                *)
LEMMA LeastNat ==
    ASSUME NEW T \in SUBSET Nat, T # {}
    PROVE  \E m \in T : \A k \in T : m <= k
<1> DEFINE R == {p \in Nat \X Nat : p[1] < p[2]}
<1>1. \E x \in T : \A y \in T : ~(<<y, x>> \in R)
  <2> HIDE DEF R
  <2>1. QED BY NatWellFounded, WFMin DEF R
<1>2. PICK x \in T : \A y \in T : <<y, x>> \notin R
  BY <1>1
<1>3. ASSUME NEW y \in T PROVE x <= y
  <2>1. <<y, x>> \in Nat \X Nat
    OBVIOUS
  <2>2. ~(y < x)
    BY <1>2, <2>1
  <2>3. QED BY <2>2
<1>4. QED BY <1>3

(* Induction: a set that holds 0 and is closed under successor holds Nat.  *)
LEMMA SetInduction ==
    ASSUME NEW S, 0 \in S, \A n \in Nat : n \in S => n + 1 \in S
    PROVE  \A n \in Nat : n \in S
<1> SUFFICES ASSUME NEW n \in Nat, n \notin S PROVE FALSE
  OBVIOUS
<1> DEFINE T == Nat \ S
<1>1. PICK m \in T : \A k \in T : m <= k
  BY LeastNat
<1>2. m # 0 /\ m \in Nat
  OBVIOUS
<1>3. m - 1 \in Nat /\ m - 1 \in S
  BY <1>1, <1>2
<1>4. QED BY <1>2, <1>3

(* A recursion along 1 .. n has a solution.  F[i] is the i-th step.        *)
LEMMA RecursionExists ==
    ASSUME NEW A, NEW v \in A, NEW n \in Nat, NEW F \in [1 .. n -> [A -> A]]
    PROVE  \E g \in [1 .. n + 1 -> A] : g[1] = v /\ \A i \in 1 .. n : g[i + 1] = F[i][g[i]]
<1> DEFINE Solves(m, g) == g[1] = v /\ \A i \in 1 .. m : g[i + 1] = F[i][g[i]]
           S == {m \in Nat : m <= n => \E g \in [1 .. m + 1 -> A] : Solves(m, g)}
<1>1. 0 \in S
  <2>1. [i \in 1 .. 0 + 1 |-> v] \in [1 .. 0 + 1 -> A] /\ Solves(0, [i \in 1 .. 0 + 1 |-> v])
    OBVIOUS
  <2>2. QED BY <2>1
<1>2. ASSUME NEW m \in Nat, m \in S PROVE m + 1 \in S
  <2> SUFFICES ASSUME m + 1 <= n PROVE \E g \in [1 .. (m + 1) + 1 -> A] : Solves(m + 1, g)
    OBVIOUS
  <2>1. PICK g \in [1 .. m + 1 -> A] : Solves(m, g)
    BY <1>2
  <2> DEFINE h == [i \in 1 .. (m + 1) + 1 |-> IF i = m + 2 THEN F[m + 1][g[m + 1]] ELSE g[i]]
  <2>2. F[m + 1][g[m + 1]] \in A
    OBVIOUS
  <2>3. h \in [1 .. (m + 1) + 1 -> A]
    BY <2>2
  <2>4. h[1] = v
    BY <2>1
  <2>5. ASSUME NEW i \in 1 .. m + 1 PROVE h[i + 1] = F[i][h[i]]
    <3>1. h[i] = g[i]
      OBVIOUS
    <3>2. CASE i = m + 1
      BY <3>1, <3>2
    <3>3. CASE i # m + 1
      <4>1. i \in 1 .. m /\ h[i + 1] = g[i + 1]
        BY <3>3
      <4>2. QED BY <4>1, <3>1, <2>1
    <3>4. QED BY <3>2, <3>3
  <2>6. QED BY <2>3, <2>4, <2>5
<1>3. \A m \in Nat : m \in S
  <2> HIDE DEF S
  <2>1. QED BY <1>1, <1>2, SetInduction
<1>4. n \in S
  BY <1>3
<1>5. n <= n
  OBVIOUS
<1>6. PICK g \in [1 .. n + 1 -> A] : Solves(n, g)
  BY <1>4, <1>5
<1>7. QED BY <1>6

-----------------------------------------------------------------------------
(***************************************************************************)
(* Sequences, as the provers take them: by their places.                   *)
(***************************************************************************)

(* The places of a sequence. *)
Ix(q) == 1 .. Len(q)
(* A sequence, of whatever elements. *)
IsSeq(q) == \E S : q \in Seq(S)
(* r is q with e at its end. *)
Ext(q, e, r) ==
    /\ IsSeq(r) /\ Len(q) \in Nat /\ Len(r) = Len(q) + 1 /\ r[Len(q) + 1] = e
    /\ \A i \in 1 .. Len(q) : r[i] = q[i]
(* r is q without its head. *)
Cut(q, r) ==
    /\ IsSeq(r) /\ Len(q) \in Nat /\ Len(q) >= 1 /\ Len(r) = Len(q) - 1
    /\ \A i \in 1 .. Len(r) : r[i] = q[i + 1]
(* r is q without its n-th element. *)
Removed(q, n, r) ==
    /\ IsSeq(r) /\ Len(q) \in Nat /\ n \in 1 .. Len(q) /\ Len(r) = Len(q) - 1
    /\ \A i \in 1 .. Len(r) : r[i] = IF i < n THEN q[i] ELSE q[i + 1]
(* r is q followed by p. *)
Joined(q, p, r) ==
    /\ IsSeq(r) /\ Len(q) \in Nat /\ Len(p) \in Nat /\ Len(r) = Len(q) + Len(p)
    /\ \A i \in 1 .. Len(q) : r[i] = q[i]
    /\ \A i \in 1 .. Len(p) : r[Len(q) + i] = p[i]

(* A sequence has a length, and a head unless it is empty. *)
LEMMA SeqLen == ASSUME NEW q, IsSeq(q) PROVE Len(q) \in Nat /\ (q = <<>> <=> Len(q) = 0)
                                              /\ (q # <<>> => Head(q) = q[1] /\ 1 \in 1 .. Len(q))
BY DEF IsSeq

(* The empty sequence is one. *)
LEMMA SeqEmpty == IsSeq(<<>>) /\ Len(<<>>) = 0
<1>1. << >> \in Seq(Nat)
  OBVIOUS
<1>2. QED BY <1>1 DEF IsSeq

(* A sequence of one element. *)
LEMMA SeqOne == ASSUME NEW e PROVE IsSeq(<<e>>) /\ Len(<<e>>) = 1 /\ <<e>>[1] = e
<1>1. <<e>> \in Seq({e})
  OBVIOUS
<1>2. QED BY <1>1 DEF IsSeq

(* What Append does. *)
LEMMA SeqAppend == ASSUME NEW q, NEW e, IsSeq(q) PROVE Ext(q, e, Append(q, e))
<1>1. PICK S : q \in Seq(S)
  BY DEF IsSeq
<1>2. q \in Seq(S \cup {e})
  BY <1>1
<1>3. Append(q, e) \in Seq(S \cup {e})
  BY <1>2
<1>4. IsSeq(Append(q, e))
  BY <1>3 DEF IsSeq
<1>5. QED BY <1>2, <1>4 DEF Ext

(* What Tail does. *)
LEMMA SeqTail == ASSUME NEW q, IsSeq(q), q # <<>> PROVE Cut(q, Tail(q))
<1>1. PICK S : q \in Seq(S)
  BY DEF IsSeq
<1>2. Tail(q) \in Seq(S)
  BY <1>1
<1>4. IsSeq(Tail(q))
  BY <1>2 DEF IsSeq
<1>5. QED BY <1>1, <1>4 DEF Cut

(* What concatenation does. *)
LEMMA SeqJoin == ASSUME NEW q, NEW p, IsSeq(q), IsSeq(p) PROVE Joined(q, p, q \o p)
<1>1. PICK S : q \in Seq(S)
  BY DEF IsSeq
<1>2. PICK P : p \in Seq(P)
  BY DEF IsSeq
<1>3. q \in Seq(S \cup P) /\ p \in Seq(S \cup P)
  BY <1>1, <1>2
<1>4. q \o p \in Seq(S \cup P)
  BY <1>3
<1>5. IsSeq(q \o p)
  BY <1>4 DEF IsSeq
<1>6. QED BY <1>3, <1>5 DEF Joined

(* An element of the right part of a concatenation. *)
LEMMA JoinedRight ==
    ASSUME NEW q, NEW p, NEW r, Joined(q, p, r), NEW i \in 1 .. Len(p) PROVE r[Len(q) + i] = p[i]
BY DEF Joined

(* What cutting one place out of a sequence does. *)
LEMMA SeqRemove ==
    ASSUME NEW q, IsSeq(q), NEW n \in 1 .. Len(q)
    PROVE  Removed(q, n, SubSeq(q, 1, n - 1) \o SubSeq(q, n + 1, Len(q)))
<1>1. PICK S : q \in Seq(S)
  BY DEF IsSeq
<1> DEFINE x == SubSeq(q, 1, n - 1)  y == SubSeq(q, n + 1, Len(q))
<1>2. x \in Seq(S) /\ Len(x) = n - 1 /\ \A i \in 1 .. n - 1 : x[i] = q[i]
  BY <1>1
<1>3. y \in Seq(S) /\ Len(y) = Len(q) - n /\ \A i \in 1 .. Len(q) - n : y[i] = q[n + i]
  BY <1>1
<1>4. IsSeq(x) /\ IsSeq(y)
  BY <1>2, <1>3 DEF IsSeq
<1>5. PICK z : z = x \o y
  OBVIOUS
<1> HIDE DEF x, y
<1>6. Joined(x, y, z)
  BY <1>4, <1>5, SeqJoin
<1>7. Len(q) \in Nat
  BY <1>1
<1>8. ASSUME NEW i \in 1 .. Len(z) PROVE z[i] = IF i < n THEN q[i] ELSE q[i + 1]
  <2>1. CASE i < n
    BY <1>2, <1>6, <2>1, <1>7 DEF Joined
  <2>2. CASE ~(i < n)
    <3>1. PICK j : j = i - (n - 1)
      OBVIOUS
    <3>2. j \in 1 .. Len(y) /\ Len(x) + j = i /\ n + j = i + 1
      BY <1>2, <1>3, <1>6, <2>2, <1>7, <3>1 DEF Joined
    <3>3. z[Len(x) + j] = y[j]
      BY <1>6, <3>2, JoinedRight
    <3>4. y[j] = q[n + j]
      BY <1>3, <3>2
    <3>5. QED BY <2>2, <3>2, <3>3, <3>4
  <2>3. QED BY <2>1, <2>2
<1>9. Len(z) = Len(q) - 1 /\ IsSeq(z)
  BY <1>2, <1>3, <1>6, <1>7 DEF Joined
<1>10. Removed(q, n, z)
  BY <1>7, <1>8, <1>9 DEF Removed
<1>11. QED BY <1>5, <1>10 DEF x, y

(* r holds the elements of the first n places of ps that are not p, each   *)
(* once.                                                                   *)
Kept(ps, p, n, r) ==
    /\ IsSeq(r)
    /\ \A i \in Ix(r) : r[i] # p /\ \E j \in 1 .. n : ps[j] = r[i]
    /\ \A j \in 1 .. n : ps[j] # p => \E i \in Ix(r) : r[i] = ps[j]
    /\ \A i, j \in Ix(r) : r[i] = r[j] => i = j
(* No element appears twice. *)
NoTwice(ps) == \A i, j \in Ix(ps) : ps[i] = ps[j] => i = j

(* One more place of the sequence is looked at. *)
LEMMA KeptOne ==
    ASSUME NEW ps, NEW p, NEW n \in Nat, NEW r, Kept(ps, p, n, r), IsSeq(ps), NoTwice(ps), n + 1 <= Len(ps),
           NEW t, t = IF ps[n + 1] = p THEN r ELSE Append(r, ps[n + 1])
    PROVE  Kept(ps, p, n + 1, t)
<1>0. Len(ps) \in Nat /\ Len(r) \in Nat /\ IsSeq(r) /\ n + 1 \in Ix(ps)
  BY SeqLen DEF Kept, Ix
<1>1. CASE ps[n + 1] = p
  BY <1>0, <1>1 DEF Kept
<1>2. CASE ps[n + 1] # p
  <2>1. Ext(r, ps[n + 1], t)
    BY <1>0, <1>2, SeqAppend
  <2>2. IsSeq(t) /\ Len(t) = Len(r) + 1 /\ t[Len(r) + 1] = ps[n + 1] /\ \A i \in Ix(r) : t[i] = r[i]
    BY <2>1 DEF Ext, Ix
  <2>3. ASSUME NEW i \in Ix(t) PROVE t[i] # p /\ \E j \in 1 .. n + 1 : ps[j] = t[i]
    <3>1. CASE i = Len(r) + 1
      BY <1>0, <1>2, <2>2, <3>1
    <3>2. CASE i \in Ix(r)
      <4>1. t[i] = r[i] /\ r[i] # p /\ \E j \in 1 .. n : ps[j] = r[i]
        BY <2>2, <3>2 DEF Kept
      <4>2. PICK j \in 1 .. n : ps[j] = t[i]
        BY <4>1
      <4>3. j \in 1 .. n + 1
        OBVIOUS
      <4>4. QED BY <4>1, <4>2, <4>3
    <3>3. QED BY <1>0, <2>2, <3>1, <3>2 DEF Ix
  <2>4. ASSUME NEW j \in 1 .. n + 1, ps[j] # p PROVE \E i \in Ix(t) : t[i] = ps[j]
    <3>1. CASE j = n + 1
      <4>1. Len(r) + 1 \in Ix(t)
        BY <1>0, <2>2 DEF Ix
      <4>2. QED BY <4>1, <3>1, <2>2
    <3>2. CASE j \in 1 .. n
      <4>1. PICK i \in Ix(r) : r[i] = ps[j]
        BY <2>4, <3>2 DEF Kept
      <4>2. i \in Ix(t) /\ t[i] = ps[j]
        BY <1>0, <2>2, <4>1 DEF Ix
      <4>3. QED BY <4>2
    <3>3. j = n + 1 \/ j \in 1 .. n
      OBVIOUS
    <3>4. QED BY <3>1, <3>2, <3>3
  <2>5. ASSUME NEW i \in Ix(r) PROVE r[i] # ps[n + 1]
    <3>1. PICK j \in 1 .. n : ps[j] = r[i]
      BY DEF Kept
    <3>2. j \in Ix(ps) /\ j # n + 1
      BY <1>0 DEF Ix
    <3>3. QED BY <1>0, <3>1, <3>2 DEF NoTwice
  <2>6. ASSUME NEW i \in Ix(t), NEW j \in Ix(t), t[i] = t[j] PROVE i = j
    <3>1. (i \in Ix(r) \/ i = Len(r) + 1) /\ (j \in Ix(r) \/ j = Len(r) + 1)
      BY <1>0, <2>2 DEF Ix
    <3>2. CASE i \in Ix(r) /\ j \in Ix(r)
      <4>1. r[i] = r[j]
        BY <2>2, <2>6, <3>2
      <4>2. QED BY <3>2, <4>1 DEF Kept
    <3>3. CASE i \in Ix(r) /\ j = Len(r) + 1
      BY <2>2, <2>5, <2>6, <3>3
    <3>4. CASE j \in Ix(r) /\ i = Len(r) + 1
      BY <2>2, <2>5, <2>6, <3>4
    <3>5. QED BY <3>1, <3>2, <3>3, <3>4
  <2>7. QED BY <2>2, <2>3, <2>4, <2>6 DEF Kept
<1>3. QED BY <1>1, <1>2

(* removeEvictPointer leaves every other pointer of the entry, once. *)
LEMMA WithoutIs ==
    ASSUME NEW ps, IsSeq(ps), NoTwice(ps), NEW p
    PROVE  Kept(ps, p, Len(ps), listRemove(ps, p))
<1>1. PICK S : ps \in Seq(S)
  BY DEF IsSeq
<1>2. PICK n \in Nat : n = Len(ps)
  BY <1>1
<1>3. PICK F : F = [i \in 1 .. n |-> [r \in Seq(S) |-> IF ps[i] = p THEN r ELSE Append(r, ps[i])]]
  OBVIOUS
<1>4. F \in [1 .. n -> [Seq(S) -> Seq(S)]]
  <2>1. ASSUME NEW i \in 1 .. n, NEW r \in Seq(S) PROVE (IF ps[i] = p THEN r ELSE Append(r, ps[i])) \in Seq(S)
    <3>1. ps[i] \in S
      BY <1>1, <1>2
    <3>2. QED BY <3>1
  <2>2. QED BY <1>3, <2>1
<1>5. PICK g \in [1 .. n + 1 -> Seq(S)] : g[1] = <<>> /\ \A i \in 1 .. n : g[i + 1] = F[i][g[i]]
  <2>1. <<>> \in Seq(S)
    OBVIOUS
  <2>2. PICK A : A = Seq(S)
    OBVIOUS
  <2>3. PICK v \in A : v = <<>>
    BY <2>1, <2>2
  <2>4. F \in [1 .. n -> [A -> A]]
    BY <1>4, <2>2
  <2>5. \E g \in [1 .. n + 1 -> A] : g[1] = v /\ \A i \in 1 .. n : g[i + 1] = F[i][g[i]]
    BY <2>4, RecursionExists
  <2>6. QED BY <2>2, <2>3, <2>5
<1>6. ASSUME NEW i \in 1 .. n PROVE g[i + 1] = IF ps[i] = p THEN g[i] ELSE Append(g[i], ps[i])
  <2>1. g[i] \in Seq(S)
    OBVIOUS
  <2>2. F[i][g[i]] = IF ps[i] = p THEN g[i] ELSE Append(g[i], ps[i])
    BY <1>3, <2>1
  <2>3. QED BY <1>5, <2>2
<1> DEFINE Q(f) == f = [i \in 0 .. n |-> IF i = 0 THEN <<>>
                                         ELSE IF ps[i] = p THEN f[i - 1] ELSE Append(f[i - 1], ps[i])]
<1>7. PICK t : t = [i \in 0 .. n |-> g[i + 1]]
  OBVIOUS
<1>8. Q(t)
  <2>1. ASSUME NEW i \in 0 .. n
        PROVE  t[i] = IF i = 0 THEN <<>> ELSE IF ps[i] = p THEN t[i - 1] ELSE Append(t[i - 1], ps[i])
    <3>1. CASE i = 0
      BY <1>5, <1>7, <3>1
    <3>2. CASE i # 0
      <4>1. i \in 1 .. n /\ i - 1 \in 0 .. n /\ (i - 1) + 1 = i
        BY <3>2
      <4>2. t[i] = g[i + 1] /\ t[i - 1] = g[i]
        BY <1>7, <4>1
      <4>3. QED BY <1>6, <3>2, <4>1, <4>2
    <3>3. QED BY <3>1, <3>2
  <2>2. QED BY <1>7, <2>1
<1>9. PICK f : Q(f) /\ f = (CHOOSE h : Q(h))
  <2> HIDE DEF Q
  <2>1. QED BY <1>8
<1>10. listRemove(ps, p) = f[n]
  BY <1>2, <1>9 DEF listRemove
<1> DEFINE T == {k \in Nat : k <= n => Kept(ps, p, k, f[k])}
<1>11. 0 \in T
  <2>1. f[0] = <<>>
    BY <1>9
  <2>2. Kept(ps, p, 0, <<>>)
    BY SeqEmpty DEF Kept, Ix
  <2>3. QED BY <2>1, <2>2
<1>12. ASSUME NEW k \in Nat, k \in T PROVE k + 1 \in T
  <2> SUFFICES ASSUME k + 1 <= n PROVE Kept(ps, p, k + 1, f[k + 1])
    OBVIOUS
  <2>1. k + 1 \in 0 .. n /\ k + 1 # 0 /\ (k + 1) - 1 = k /\ k <= n
    OBVIOUS
  <2>2. f[k + 1] = IF ps[k + 1] = p THEN f[k] ELSE Append(f[k], ps[k + 1])
    <3>1. f[k + 1] = IF k + 1 = 0 THEN <<>> ELSE IF ps[k + 1] = p THEN f[(k + 1) - 1]
                                               ELSE Append(f[(k + 1) - 1], ps[k + 1])
      BY <1>9, <2>1
    <3>2. QED BY <2>1, <3>1
  <2>3. Kept(ps, p, k, f[k])
    BY <1>12, <2>1
  <2>4. k + 1 <= Len(ps)
    BY <1>2
  <2> HIDE DEF Q, T
  <2>5. QED BY <2>2, <2>3, <2>4, KeptOne
<1>13. \A k \in Nat : k \in T
  <2> HIDE DEF T
  <2>1. QED BY <1>11, <1>12, SetInduction, Zenon
<1>14. Kept(ps, p, n, f[n])
  BY <1>13
<1>15. QED BY <1>2, <1>10, <1>14
-----------------------------------------------------------------------------
(***************************************************************************)
(* One L1 and the L2 on one line. The parameters are the L1 (c), its state *)
(* of the line (s), the command its MSHR works on (b), the messages of the *)
(* line on the way up (u) and down (d), the L2's line (l), the L1s the L2  *)
(* waits for (R) and the requests of c in the L2's MSHR (h).               *)
(***************************************************************************)

(* The commands an L1 sends down to ask for something. *)
ReqCmds   == {"GetS", "GetX", "FlushLine", "FlushLineInv"}
FlushCmds == {"FlushLine", "FlushLineInv"}
CoreCmds  == {"GetS", "Write", "FlushLine", "FlushLineInv"}
SnoopCmds == {"Inv", "FetchInv", "FetchInvX"}
Grants    == {"GetSResp", "GetXResp"}
RespCmds  == {"GetSResp", "GetXResp", "FlushLineResp", "NACK"}
PutCmds   == {"PutS", "PutE", "PutM"}
AckCmds   == {"AckInv", "FetchResp", "FetchXResp"}
(* The message gives up the sender's copy. *)
Leaves(m) == m.cmd \in {"PutS", "PutE", "PutM", "AckInv", "FetchResp"} \/ (m.cmd = "FlushLineInv" /\ m.evict)
(* The message gives up the sender's ownership and keeps a copy. *)
Lowers(m) == m.cmd = "FetchXResp" \/ (m.cmd = "FlushLine" /\ m.evict)
(* The L1 states with a copy, and those that own the line. *)
Holding   == {"S", "E", "M", "SM", "S_B"}
Owning    == {"E", "M"}

(* What an L1 sends down for a core's request b. *)
Asks(b) == IF b = "Write" THEN "GetX" ELSE b
(* s is a state for a line whose register works on b ("none" - on          *)
(* nothing).                                                               *)
StateFits(s, b) ==
    /\ b = "none" => s \in {NoLine, "I", "S", "E", "M"}
    /\ b = "GetS" => s = "IS"
    /\ b = "Write" => s \in {"IM", "SM"}
    /\ b = "FlushLine" => s \in {"S_B", "I", NoLine}
    /\ b = "FlushLineInv" => s \in {"I_B", "I", NoLine}
    /\ b \in {"none"} \cup CoreCmds
(* The response m is an answer to b. *)
Fits(m, b) ==
    /\ m.cmd = "GetSResp" => b = "GetS"
    /\ m.cmd = "GetXResp" => b \in {"GetS", "Write"}
    /\ m.cmd = "FlushLineResp" => b \in FlushCmds
    /\ m.cmd = "NACK" => b # "none" /\ m.nacked.cmd = Asks(b) /\ ~Leaves(m.nacked) /\ ~Lowers(m.nacked)
(* Requests on the way down (d), held in the L2's MSHR (h) and responses   *)
(* on the way up (u) all belong to what the L1 waits for.                  *)
Tokens(b, u, d, h) ==
    /\ \A i \in Ix(d) : d[i].cmd \in ReqCmds => b # "none" /\ d[i].cmd = Asks(b)
    /\ \A x \in h : b # "none" /\ x = Asks(b)
    /\ \A i \in Ix(u) : u[i].cmd \in RespCmds => Fits(u[i], b)
(* There is one of them at a time. *)
Once(u, d, h) ==
    /\ \A i, j \in Ix(d) : d[i].cmd \in ReqCmds /\ d[j].cmd \in ReqCmds => i = j
    /\ \A i, j \in Ix(u) : u[i].cmd \in RespCmds /\ u[j].cmd \in RespCmds => i = j
    /\ h # {} => \A i \in Ix(d) : d[i].cmd \notin ReqCmds
    /\ h # {} => \A i \in Ix(u) : u[i].cmd \notin RespCmds
    /\ \A i \in Ix(d), j \in Ix(u) : ~(d[i].cmd \in ReqCmds /\ u[j].cmd \in RespCmds)
(* The L2 has c as owner or sharer. *)
InView(c, l) == c \in l.sharers \/ l.owner = c
(* Whoever has the line, or was granted it, or has not yet been heard to   *)
(* give it up, is known to the L2.                                         *)
View(c, s, u, d, l) ==
    /\ s \in Owning => l.owner = c
    /\ \A i \in Ix(u) : u[i].cmd = "GetXResp" => l.owner = c
    /\ \A i \in Ix(d) : Lowers(d[i]) => l.owner = c
    /\ s \in Holding => InView(c, l)
    /\ \A i \in Ix(u) : u[i].cmd = "GetSResp" => InView(c, l)
    /\ \A i \in Ix(d) : Leaves(d[i]) => InView(c, l)
(* Who has sent the line back neither has it nor is about to get it, and   *)
(* says so once.                                                           *)
Left(s, u, d) ==
    /\ \A i \in Ix(d) : Leaves(d[i]) => s \notin Holding
    /\ \A i \in Ix(d), j \in Ix(u) : Leaves(d[i]) => u[j].cmd \notin Grants
    /\ \A i \in Ix(d) : Lowers(d[i]) => s \notin Owning
    /\ \A i \in Ix(d), j \in Ix(u) : Lowers(d[i]) => u[j].cmd # "GetXResp"
    /\ \A i, j \in Ix(d) : Leaves(d[i]) /\ Leaves(d[j]) => i = j
    /\ \A i, j \in Ix(d) : Lowers(d[i]) /\ Lowers(d[j]) => i = j
    /\ \A i, j \in Ix(d) : Leaves(d[i]) /\ Lowers(d[j]) => j < i
(* A put and the answer to a FetchInvX are ahead of every request. *)
First(u, d, h) == \A i \in Ix(d) : d[i].cmd \in {"PutS", "PutE", "PutM", "FetchXResp"} =>
    /\ \A j \in Ix(d) : j < i => d[j].cmd \notin ReqCmds
    /\ h = {}
    /\ \A j \in Ix(u) : u[j].cmd \notin RespCmds
(* The L2 waits for answers. *)
Acking(st) == st \in {"S_Inv", "E_Inv", "M_Inv", "E_InvX", "M_InvX"}
(* The L2 waits for c, and for this answer. *)
Asked(c, cmd, st, R) ==
    /\ cmd \in {"Inv", "AckInv"} => c \in R /\ st \in {"S_Inv", "E_Inv", "M_Inv"}
    /\ cmd \in {"FetchInv", "FetchResp"} => R = {c} /\ st \in {"E_Inv", "M_Inv"}
    /\ cmd \in {"FetchInvX", "FetchXResp"} => R = {c} /\ st \in {"E_InvX", "M_InvX"}
(* A message of S is ahead of the i-th. *)
Behind(u, i, S) == \E j \in Ix(u) : j < i /\ u[j].cmd \in S
(* The i-th message up is a snoop that will find the line. *)
Effective(s, u, i) ==
    \/ u[i].cmd = "FetchInvX" /\ (s \in Owning \/ Behind(u, i, {"GetXResp"}))
    \/ u[i].cmd \in {"Inv", "FetchInv"} /\ (s \in Holding \/ Behind(u, i, Grants))
(* Every answer on its way is waited for. *)
Acked(c, d, l, R) == \A i \in Ix(d) : d[i].cmd \in AckCmds => Asked(c, d[i].cmd, l.st, R)
(* A snoop that finds the line is waited for, is alone, and no grant       *)
(* follows it.                                                             *)
Snooped(c, s, u, d, l, R) == \A i \in Ix(u) : Effective(s, u, i) =>
    /\ Asked(c, u[i].cmd, l.st, R)
    /\ \A j \in Ix(u) : i < j => u[j].cmd \notin Grants
    /\ \A j \in Ix(u) : Effective(s, u, j) => i = j
    /\ \A j \in Ix(d) : d[j].cmd \notin AckCmds
(* Only an L1 whose upgrade is being served is left out when answers are   *)
(* waited for.                                                             *)
Answers(c, l, R, h) == Acking(l.st) /\ InView(c, l) /\ c \notin R => "GetX" \in h
(* What an L1 in state s that works on b, its two links u and d, and the   *)
(* L2's line l, the set R of L1s it waits for and its held requests h have *)
(* in common.                                                              *)
Agree(c, s, b, u, d, l, R, h) ==
    /\ IsSeq(u) /\ IsSeq(d) /\ StateFits(s, b)
    /\ Tokens(b, u, d, h) /\ Once(u, d, h)
    /\ View(c, s, u, d, l) /\ Left(s, u, d) /\ First(u, d, h)
    /\ Acked(c, d, l, R) /\ Snooped(c, s, u, d, l, R) /\ Answers(c, l, R, h)

(* s and t give the same rights. *)
Similar(s, t) == (s \in Holding <=> t \in Holding) /\ (s \in Owning <=> t \in Owning)

(* Which snoops find the line depends on the rights only. *)
LEMMA EffectiveSame ==
    ASSUME NEW s, NEW t, Similar(s, t), NEW u, NEW i PROVE Effective(s, u, i) <=> Effective(t, u, i)
BY DEF Effective, Similar

(* The L1's state changes, its rights do not. *)
LEMMA AgreeSame ==
    ASSUME NEW c, NEW s, NEW t, NEW b, NEW u, NEW d, NEW l, NEW R, NEW h, Agree(c, s, b, u, d, l, R, h),
           Similar(s, t), StateFits(t, b)
    PROVE  Agree(c, t, b, u, d, l, R, h)
<1>1. View(c, t, u, d, l)
  BY DEF Agree, View, Similar
<1>2. Left(t, u, d)
  BY DEF Agree, Left, Similar
<1>3. Snooped(c, t, u, d, l, R)
  BY EffectiveSame DEF Agree, Snooped
<1>4. QED BY <1>1, <1>2, <1>3 DEF Agree

(* An L1 that works on nothing has nothing under way. *)
LEMMA Idle0 ==
    ASSUME NEW c, NEW s, NEW u, NEW d, NEW l, NEW R, NEW h, Agree(c, s, "none", u, d, l, R, h)
    PROVE  /\ h = {} /\ \A i \in Ix(d) : d[i].cmd \notin ReqCmds
           /\ \A i \in Ix(u) : u[i].cmd \notin RespCmds
BY DEF Agree, Tokens, Fits, RespCmds, FlushCmds

(* A miss or an upgrade is sent down. *)
LEMMA AgreeRequest ==
    ASSUME NEW c, NEW s, NEW t, NEW e, NEW u, NEW d, NEW d2, NEW l, NEW R, NEW h,
           Agree(c, s, "none", u, d, l, R, h), Similar(s, t), StateFits(t, e), e \in {"GetS", "Write"},
           NEW m, Ext(d, m, d2), m.cmd = Asks(e)
    PROVE  Agree(c, t, e, u, d2, l, R, h)
<1>0. /\ h = {} /\ \A i \in Ix(d) : d[i].cmd \notin ReqCmds
      /\ \A i \in Ix(u) : u[i].cmd \notin RespCmds
  BY Idle0
<1>m. m.cmd \in ReqCmds /\ ~Leaves(m) /\ ~Lowers(m) /\ m.cmd \notin AckCmds /\ m.cmd \notin {"PutS", "PutE", "PutM", "FetchXResp"}
  BY DEF Asks, ReqCmds, Leaves, Lowers, AckCmds
<1>d. /\ IsSeq(d2) /\ Len(d) \in Nat /\ Ix(d) = 1 .. Len(d) /\ Ix(d2) = 1 .. Len(d) + 1
      /\ d2[Len(d) + 1] = m /\ \A i \in Ix(d) : d2[i] = d[i]
  BY DEF Ext, Ix
<1>e. ASSUME NEW i \in Ix(d2) PROVE (i \in Ix(d) /\ d2[i] = d[i]) \/ (i = Len(d) + 1 /\ d2[i] = m)
  BY <1>d
<1>1. Tokens(e, u, d2, h)
  BY <1>0, <1>e DEF Tokens
<1>2. Once(u, d2, h)
  BY <1>0, <1>e DEF Once
<1>3. View(c, t, u, d2, l)
  BY <1>e, <1>m DEF Agree, View, Similar
<1>4. Left(t, u, d2)
  BY <1>e, <1>m DEF Agree, Left, Similar
<1>5. First(u, d2, h)
  BY <1>0, <1>e, <1>m, <1>d DEF Agree, First
<1>6. Acked(c, d2, l, R)
  BY <1>e, <1>m DEF Agree, Acked
<1>7. Snooped(c, t, u, d2, l, R)
  BY EffectiveSame, <1>e, <1>m DEF Agree, Snooped
<1>8. QED BY <1>1, <1>2, <1>3, <1>4, <1>5, <1>6, <1>7, <1>d DEF Agree

(* The places after a message was sent. *)
LEMMA ExtIs ==
    ASSUME NEW d, NEW m, NEW d2, Ext(d, m, d2)
    PROVE  /\ IsSeq(d2) /\ Len(d) \in Nat /\ Ix(d) = 1 .. Len(d) /\ Ix(d2) = 1 .. Len(d) + 1
           /\ d2[Len(d) + 1] = m /\ \A i \in Ix(d) : d2[i] = d[i] /\ i < Len(d) + 1 /\ i \in Ix(d2)
           /\ \A i \in Ix(d2) : (i \in Ix(d) /\ d2[i] = d[i]) \/ (i = Len(d) + 1 /\ d2[i] = m)
BY DEF Ext, Ix

(* The places after a message was taken. *)
LEMMA CutIs ==
    ASSUME NEW u, NEW u2, Cut(u, u2)
    PROVE  /\ IsSeq(u2) /\ 1 \in Ix(u) /\ \A i \in Ix(u2) : u2[i] = u[i + 1] /\ i + 1 \in Ix(u) /\ 1 < i + 1
           /\ \A i, j \in Ix(u2) : (i < j <=> i + 1 < j + 1) /\ (i = j <=> i + 1 = j + 1)
           /\ \A i \in Ix(u) : i = 1 \/ (i - 1 \in Ix(u2) /\ u2[i - 1] = u[i] /\ (i - 1) + 1 = i)
BY DEF Cut, Ix

(* The L1 evicts its copy. *)
LEMMA AgreeEvict ==
    ASSUME NEW c, NEW s, NEW u, NEW d, NEW d2, NEW l, NEW R, NEW h,
           Agree(c, s, "none", u, d, l, R, h), s \in {"S", "E", "M"},
           NEW m, Ext(d, m, d2), m.cmd \in PutCmds
    PROVE  Agree(c, NoLine, "none", u, d2, l, R, h)
<1>0. /\ h = {} /\ \A i \in Ix(d) : d[i].cmd \notin ReqCmds
      /\ \A i \in Ix(u) : u[i].cmd \notin RespCmds
  BY Idle0
<1>m. m.cmd \notin ReqCmds /\ Leaves(m) /\ ~Lowers(m) /\ m.cmd \notin AckCmds
  BY DEF PutCmds, ReqCmds, Leaves, Lowers, AckCmds
<1>d. /\ IsSeq(d2) /\ Len(d) \in Nat /\ Ix(d) = 1 .. Len(d) /\ Ix(d2) = 1 .. Len(d) + 1
      /\ d2[Len(d) + 1] = m /\ \A i \in Ix(d) : d2[i] = d[i] /\ i < Len(d) + 1
  BY ExtIs
<1>e. \A i \in Ix(d2) : (i \in Ix(d) /\ d2[i] = d[i]) \/ (i = Len(d) + 1 /\ d2[i] = m)
  BY ExtIs
<1>s. s \in Holding /\ NoLine \notin Holding /\ NoLine \notin Owning
  BY DEF Holding, Owning, NoLine
<1>g. \A i \in Ix(u) : u[i].cmd \notin Grants /\ u[i].cmd # "GetXResp"
  BY <1>0 DEF Grants, RespCmds
<1>l. \A i \in Ix(d) : ~Leaves(d[i])
  BY <1>s DEF Agree, Left
<1>v. InView(c, l)
  BY <1>s DEF Agree, View
<1>1. Tokens("none", u, d2, h)
  BY <1>0, <1>e, <1>m DEF Tokens
<1>2. Once(u, d2, h)
  BY <1>0, <1>e, <1>m DEF Once
<1>3. View(c, NoLine, u, d2, l)
  BY <1>e, <1>m, <1>s, <1>v DEF Agree, View
<1>4. Left(NoLine, u, d2)
  <2>1. \A i \in Ix(d2), j \in Ix(u) : Leaves(d2[i]) => u[j].cmd \notin Grants
    BY <1>g
  <2>2. \A i \in Ix(d2), j \in Ix(u) : Lowers(d2[i]) => u[j].cmd # "GetXResp"
    BY <1>g
  <2>3. \A i, j \in Ix(d2) : Leaves(d2[i]) /\ Leaves(d2[j]) => i = j
    BY <1>e, <1>l
  <2>4. \A i, j \in Ix(d2) : Lowers(d2[i]) /\ Lowers(d2[j]) => i = j
    BY <1>e, <1>m DEF Agree, Left
  <2>5. \A i, j \in Ix(d2) : Leaves(d2[i]) /\ Lowers(d2[j]) => j < i
    BY <1>e, <1>m, <1>l, <1>d
  <2>6. QED BY <1>s, <2>1, <2>2, <2>3, <2>4, <2>5 DEF Left
<1>5. First(u, d2, h)
  BY <1>0, <1>e, <1>m, <1>d DEF First
<1>6. Acked(c, d2, l, R)
  BY <1>e, <1>m DEF Agree, Acked
<1>7. Snooped(c, NoLine, u, d2, l, R)
  BY <1>g, <1>s DEF Snooped, Effective, Behind
<1>8. StateFits(NoLine, "none")
  BY DEF StateFits
<1>9. QED BY <1>1, <1>2, <1>3, <1>4, <1>5, <1>6, <1>7, <1>8, <1>d DEF Agree

(* The L1 sends a flush, with its eviction if it has something to give up. *)
LEMMA AgreeFlush ==
    ASSUME NEW c, NEW s, NEW t, NEW e, NEW u, NEW d, NEW d2, NEW l, NEW R, NEW h,
           Agree(c, s, "none", u, d, l, R, h),
           e \in FlushCmds, t = IF s \in {NoLine, "I"} THEN s ELSE IF e = "FlushLine" THEN "S_B" ELSE "I_B",
           NEW m, Ext(d, m, d2), m.cmd = e,
           m.evict <=> IF e = "FlushLine" THEN s \in {"E", "M"} ELSE s \notin {NoLine, "I"}
    PROVE  Agree(c, t, e, u, d2, l, R, h)
<1>0. /\ h = {} /\ \A i \in Ix(d) : d[i].cmd \notin ReqCmds
      /\ \A i \in Ix(u) : u[i].cmd \notin RespCmds
  BY Idle0
<1>m. /\ m.cmd \in ReqCmds /\ m.cmd \notin AckCmds /\ m.cmd \notin {"PutS", "PutE", "PutM", "FetchXResp"}
      /\ (Leaves(m) <=> e = "FlushLineInv" /\ s \notin {NoLine, "I"})
      /\ (Lowers(m) <=> e = "FlushLine" /\ s \in {"E", "M"})
  BY DEF FlushCmds, ReqCmds, Leaves, Lowers, AckCmds
<1>d. /\ IsSeq(d2) /\ Len(d) \in Nat /\ Ix(d) = 1 .. Len(d) /\ Ix(d2) = 1 .. Len(d) + 1
      /\ d2[Len(d) + 1] = m /\ \A i \in Ix(d) : d2[i] = d[i] /\ i < Len(d) + 1
  BY ExtIs
<1>e. \A i \in Ix(d2) : (i \in Ix(d) /\ d2[i] = d[i]) \/ (i = Len(d) + 1 /\ d2[i] = m)
  BY ExtIs
<1>s. /\ s \in {NoLine, "I", "S", "E", "M"}
      /\ s \in {NoLine, "I"} => s \notin Holding /\ s \notin Owning
      /\ s \in {"S", "E", "M"} => s \in Holding
      /\ s \in {"E", "M"} <=> s \in Owning
      /\ t \notin Owning /\ (t \in Holding <=> t = "S_B") /\ NoLine # "I" /\ NoLine # "S" /\ NoLine # "E" /\ NoLine # "M"
  BY DEF Holding, Owning, NoLine, Agree, StateFits, FlushCmds
<1>g. \A i \in Ix(u) : u[i].cmd \notin Grants /\ u[i].cmd # "GetXResp"
  BY <1>0 DEF Grants, RespCmds
<1>l. s \notin {NoLine, "I"} => InView(c, l) /\ \A i \in Ix(d) : ~Leaves(d[i])
  BY <1>s DEF Agree, Left, View
<1>w. s \in {"E", "M"} => l.owner = c /\ \A i \in Ix(d) : ~Lowers(d[i])
  BY <1>s DEF Agree, Left, View
<1>f. t = "S_B" => e = "FlushLine" /\ s \notin {NoLine, "I"}
  BY <1>s DEF FlushCmds
<1>1. Tokens(e, u, d2, h)
  <2>1. e # "none" /\ e = Asks(e)
    BY DEF FlushCmds, Asks
  <2>2. QED BY <1>0, <1>e, <2>1 DEF Tokens
<1>2. Once(u, d2, h)
  BY <1>0, <1>e, <1>m DEF Once
<1>3. View(c, t, u, d2, l)
  <2>1. \A i \in Ix(d2) : Lowers(d2[i]) => l.owner = c
    BY <1>e, <1>m, <1>w DEF Agree, View
  <2>2. \A i \in Ix(d2) : Leaves(d2[i]) => InView(c, l)
    BY <1>e, <1>m, <1>l DEF Agree, View
  <2>3. QED BY <1>s, <1>l, <1>f, <2>1, <2>2 DEF Agree, View
<1>4. Left(t, u, d2)
  <2>1. \A i \in Ix(d2), j \in Ix(u) : Leaves(d2[i]) => u[j].cmd \notin Grants
    BY <1>g
  <2>2. \A i \in Ix(d2), j \in Ix(u) : Lowers(d2[i]) => u[j].cmd # "GetXResp"
    BY <1>g
  <2>3. \A i, j \in Ix(d2) : Leaves(d2[i]) /\ Leaves(d2[j]) => i = j
    BY <1>e, <1>l, <1>m DEF Agree, Left
  <2>4. \A i, j \in Ix(d2) : Lowers(d2[i]) /\ Lowers(d2[j]) => i = j
    BY <1>e, <1>m, <1>w DEF Agree, Left
  <2>5. \A i, j \in Ix(d2) : Leaves(d2[i]) /\ Lowers(d2[j]) => j < i
    BY <1>e, <1>m, <1>l, <1>d, <1>s DEF Agree, Left
  <2>7. \A i \in Ix(d2) : Leaves(d2[i]) => t \notin Holding
    BY <1>e, <1>m, <1>l, <1>s, <1>f
  <2>6. QED BY <1>s, <2>1, <2>2, <2>3, <2>4, <2>5, <2>7 DEF Left
<1>5. First(u, d2, h)
  BY <1>0, <1>e, <1>m, <1>d DEF First
<1>6. Acked(c, d2, l, R)
  BY <1>e, <1>m DEF Agree, Acked
<1>7. Snooped(c, t, u, d2, l, R)
  <2>1. ASSUME NEW i \in Ix(u), Effective(t, u, i) PROVE Effective(s, u, i)
    BY <1>g, <1>s, <1>f, <2>1 DEF Effective, Behind
  <2>2. \A j \in Ix(d2) : (\A i \in Ix(d) : d[i].cmd \notin AckCmds) => d2[j].cmd \notin AckCmds
    BY <1>e, <1>m
  <2>3. QED BY <2>1, <2>2 DEF Agree, Snooped
<1>8. StateFits(t, e)
  BY <1>s DEF StateFits, FlushCmds, CoreCmds
<1>9. QED BY <1>1, <1>2, <1>3, <1>4, <1>5, <1>6, <1>7, <1>8, <1>d DEF Agree

(* What is ahead of a message after the head was taken. *)
LEMMA CutBehind ==
    ASSUME NEW u, NEW u2, Cut(u, u2), NEW S, NEW i \in Ix(u2)
    PROVE  /\ Behind(u2, i, S) => Behind(u, i + 1, S)
           /\ Behind(u, i + 1, S) => Behind(u2, i, S) \/ u[1].cmd \in S
<1>1. ASSUME Behind(u2, i, S) PROVE Behind(u, i + 1, S)
  <2>1. PICK j \in Ix(u2) : j < i /\ u2[j].cmd \in S
    BY <1>1 DEF Behind
  <2>2. j + 1 \in Ix(u) /\ u[j + 1] = u2[j] /\ j + 1 < i + 1
    BY <2>1, CutIs
  <2>3. QED BY <2>1, <2>2 DEF Behind
<1>2. ASSUME Behind(u, i + 1, S), u[1].cmd \notin S PROVE Behind(u2, i, S)
  <2>1. PICK j \in Ix(u) : j < i + 1 /\ u[j].cmd \in S
    BY <1>2 DEF Behind
  <2>2. j # 1
    BY <1>2, <2>1
  <2>3. PICK k \in Ix(u2) : k = j - 1 /\ u2[k] = u[j] /\ k + 1 = j
    BY <2>2, CutIs
  <2>4. k < i
    BY <2>1, <2>3 DEF Ix
  <2>5. QED BY <2>1, <2>3, <2>4 DEF Behind
<1>3. QED BY <1>1, <1>2

(* What is kept when a message leaves the head of u. *)
LEMMA CutKeeps ==
    ASSUME NEW c, NEW s, NEW b, NEW u, NEW u2, NEW d, NEW l, NEW R, NEW h,
           Agree(c, s, b, u, d, l, R, h), Cut(u, u2)
    PROVE  /\ Tokens(b, u2, d, h) /\ Once(u2, d, h) /\ View(c, s, u2, d, l) /\ Left(s, u2, d)
           /\ First(u2, d, h)
<1>c. \A i \in Ix(u2) : u2[i] = u[i + 1] /\ i + 1 \in Ix(u)
  BY CutIs
<1>i. \A i, j \in Ix(u2) : i + 1 = j + 1 => i = j
  BY CutIs
<1>1. Tokens(b, u2, d, h)
  BY <1>c DEF Agree, Tokens
<1>2. Once(u2, d, h)
  <2>1. \A i, j \in Ix(u2) : u2[i].cmd \in RespCmds /\ u2[j].cmd \in RespCmds => i = j
    BY <1>c, <1>i DEF Agree, Once
  <2>2. QED BY <1>c, <2>1 DEF Agree, Once
<1>3. View(c, s, u2, d, l)
  BY <1>c DEF Agree, View
<1>4. Left(s, u2, d)
  BY <1>c DEF Agree, Left
<1>5. First(u2, d, h)
  BY <1>c DEF Agree, First
<1>6. QED BY <1>1, <1>2, <1>3, <1>4, <1>5

(* A snoop finds nothing and is dropped. *)
LEMMA AgreeIgnore ==
    ASSUME NEW c, NEW s, NEW t, NEW b, NEW u, NEW u2, NEW d, NEW l, NEW R, NEW h,
           Agree(c, s, b, u, d, l, R, h), Cut(u, u2), u[1].cmd \in SnoopCmds, Similar(s, t), StateFits(t, b)
    PROVE  Agree(c, t, b, u2, d, l, R, h)
<1>c. \A i \in Ix(u2) : u2[i] = u[i + 1] /\ i + 1 \in Ix(u)
  BY CutIs
<1>g. u[1].cmd \notin Grants /\ u[1].cmd \notin {"GetXResp"}
  BY DEF SnoopCmds, Grants
<1>e. \A i \in Ix(u2) : Effective(s, u2, i) => Effective(s, u, i + 1)
  BY <1>c, <1>g, CutBehind DEF Effective
<1>1. Snooped(c, s, u2, d, l, R)
  <2> SUFFICES ASSUME NEW i \in Ix(u2), Effective(s, u2, i)
               PROVE /\ Asked(c, u2[i].cmd, l.st, R)
                     /\ \A j \in Ix(u2) : i < j => u2[j].cmd \notin Grants
                     /\ \A j \in Ix(u2) : Effective(s, u2, j) => i = j
                     /\ \A j \in Ix(d) : d[j].cmd \notin AckCmds
    BY DEF Snooped
  <2>1. Effective(s, u, i + 1) /\ i + 1 \in Ix(u) /\ u2[i] = u[i + 1]
    BY <1>c, <1>e
  <2>2. \A j \in Ix(u2) : (i < j => i + 1 < j + 1) /\ (i + 1 = j + 1 => i = j)
    BY CutIs
  <2>3. Asked(c, u2[i].cmd, l.st, R) /\ \A j \in Ix(d) : d[j].cmd \notin AckCmds
    BY <2>1 DEF Agree, Snooped
  <2>4. \A j \in Ix(u2) : i < j => u2[j].cmd \notin Grants
    BY <1>c, <2>1, <2>2 DEF Agree, Snooped
  <2>5. \A j \in Ix(u2) : Effective(s, u2, j) => i = j
    BY <1>c, <1>e, <2>1, <2>2 DEF Agree, Snooped
  <2>6. QED BY <2>3, <2>4, <2>5
<1>2. Agree(c, s, b, u2, d, l, R, h)
  <2>1. IsSeq(u2)
    BY CutIs
  <2>2. QED BY <1>1, <2>1, CutKeeps DEF Agree
<1>3. QED BY <1>2, AgreeSame

(* A snoop finds the line and is answered. *)
LEMMA AgreeAnswer ==
    ASSUME NEW c, NEW s, NEW t, NEW b, NEW u, NEW u2, NEW d, NEW d2, NEW l, NEW R, NEW h,
           Agree(c, s, b, u, d, l, R, h), Cut(u, u2), u[1].cmd \in SnoopCmds,
           IF u[1].cmd = "FetchInvX" THEN s \in Owning /\ t = "S"
           ELSE s \in Holding /\ t = IF s = "SM" THEN "IM" ELSE "I",
           NEW m, Ext(d, m, d2),
           u[1].cmd = "Inv" => m.cmd = "AckInv", u[1].cmd = "FetchInv" => m.cmd = "FetchResp",
           u[1].cmd = "FetchInvX" => m.cmd = "FetchXResp"
    PROVE  Agree(c, t, b, u2, d2, l, R, h)
<1>c. \A i \in Ix(u2) : u2[i] = u[i + 1] /\ i + 1 \in Ix(u) /\ 1 < i + 1 /\ i + 1 # 1
  BY CutIs DEF Ix
<1>0. 1 \in Ix(u) /\ IsSeq(u2)
  BY CutIs
<1>d. /\ IsSeq(d2) /\ Len(d) \in Nat /\ Ix(d) = 1 .. Len(d) /\ Ix(d2) = 1 .. Len(d) + 1
      /\ d2[Len(d) + 1] = m /\ \A i \in Ix(d) : d2[i] = d[i] /\ i < Len(d) + 1
  BY ExtIs
<1>e. \A i \in Ix(d2) : (i \in Ix(d) /\ d2[i] = d[i]) \/ (i = Len(d) + 1 /\ d2[i] = m)
  BY ExtIs
<1>x. Effective(s, u, 1)
  BY DEF Effective, SnoopCmds
<1>a. /\ Asked(c, u[1].cmd, l.st, R)
      /\ \A j \in Ix(u) : 1 < j => u[j].cmd \notin Grants
      /\ \A j \in Ix(u) : Effective(s, u, j) => 1 = j
      /\ \A j \in Ix(d) : d[j].cmd \notin AckCmds
  BY <1>0, <1>x DEF Agree, Snooped
<1>g. \A i \in Ix(u2) : u2[i].cmd \notin Grants /\ u2[i].cmd # "GetXResp"
  BY <1>a, <1>c DEF Grants
<1>s. s \in Holding /\ (u[1].cmd # "FetchInvX" => t \notin Holding) /\ t \notin Owning /\ s # "IM"
  BY DEF Owning, Holding
<1>m. /\ m.cmd \notin ReqCmds /\ m.cmd \in AckCmds /\ m.cmd \notin PutCmds
      /\ (Leaves(m) <=> u[1].cmd # "FetchInvX") /\ (Lowers(m) <=> u[1].cmd = "FetchInvX")
  BY DEF SnoopCmds, ReqCmds, AckCmds, Leaves, Lowers, PutCmds
<1>l. InView(c, l) /\ \A i \in Ix(d) : ~Leaves(d[i])
  BY <1>s DEF Agree, Left, View
<1>w. u[1].cmd = "FetchInvX" => s \in Owning /\ l.owner = c /\ \A i \in Ix(d) : ~Lowers(d[i])
  BY DEF Agree, Left, View
<1>k. /\ Tokens(b, u2, d, h) /\ Once(u2, d, h) /\ View(c, s, u2, d, l) /\ Left(s, u2, d)
      /\ First(u2, d, h)
  BY CutKeeps
<1>1. Tokens(b, u2, d2, h)
  BY <1>k, <1>e, <1>m DEF Tokens
<1>2. Once(u2, d2, h)
  BY <1>k, <1>e, <1>m DEF Once
<1>3. View(c, t, u2, d2, l)
  <2>1. \A i \in Ix(d2) : Lowers(d2[i]) => l.owner = c
    BY <1>e, <1>m, <1>w, <1>k DEF View
  <2>2. QED BY <1>s, <1>l, <1>k, <2>1 DEF View
<1>4. Left(t, u2, d2)
  <2>1. \A i \in Ix(d2), j \in Ix(u2) : Leaves(d2[i]) => u2[j].cmd \notin Grants
    BY <1>g
  <2>2. \A i \in Ix(d2), j \in Ix(u2) : Lowers(d2[i]) => u2[j].cmd # "GetXResp"
    BY <1>g
  <2>3. \A i, j \in Ix(d2) : Leaves(d2[i]) /\ Leaves(d2[j]) => i = j
    BY <1>e, <1>l, <1>m
  <2>4. \A i, j \in Ix(d2) : Lowers(d2[i]) /\ Lowers(d2[j]) => i = j
    BY <1>e, <1>m, <1>w, <1>k DEF Left
  <2>5. \A i, j \in Ix(d2) : Leaves(d2[i]) /\ Lowers(d2[j]) => j < i
    BY <1>e, <1>m, <1>l, <1>d, <1>w
  <2>7. \A i \in Ix(d2) : Leaves(d2[i]) => t \notin Holding
    BY <1>e, <1>m, <1>l, <1>s
  <2>6. QED BY <1>s, <2>1, <2>2, <2>3, <2>4, <2>5, <2>7 DEF Left
<1>n. u[1].cmd = "FetchInvX" => h = {} /\ (\A i \in Ix(d) : d[i].cmd \notin ReqCmds) /\ \A i \in Ix(u2) : u2[i].cmd \notin RespCmds
  <2> SUFFICES ASSUME u[1].cmd = "FetchInvX"
               PROVE h = {} /\ (\A i \in Ix(d) : d[i].cmd \notin ReqCmds) /\ \A i \in Ix(u2) : u2[i].cmd \notin RespCmds
    OBVIOUS
  <2>1. b = "none"
    BY DEF Agree, StateFits, Owning, CoreCmds, NoLine
  <2>2. QED BY <2>1, <1>c, Idle0
<1>5. First(u2, d2, h)
  <2>1. ASSUME NEW i \in Ix(d2), d2[i].cmd \in {"PutS", "PutE", "PutM", "FetchXResp"}
        PROVE  /\ \A j \in Ix(d2) : j < i => d2[j].cmd \notin ReqCmds
               /\ h = {}
               /\ \A j \in Ix(u2) : u2[j].cmd \notin RespCmds
    <3>1. CASE i \in Ix(d) /\ d2[i] = d[i]
      BY <1>e, <1>m, <1>k, <2>1, <3>1 DEF First
    <3>2. CASE i = Len(d) + 1 /\ d2[i] = m
      <4>1. u[1].cmd = "FetchInvX"
        BY <2>1, <3>2 DEF SnoopCmds
      <4>2. QED BY <1>n, <4>1, <1>e, <1>m
    <3>3. QED BY <1>e, <3>1, <3>2
  <2>2. QED BY <2>1 DEF First
<1>6. Acked(c, d2, l, R)
  <2>1. Asked(c, m.cmd, l.st, R)
    BY <1>a DEF Asked, SnoopCmds
  <2>2. QED BY <1>e, <1>a, <2>1 DEF Acked
<1>7. Snooped(c, t, u2, d2, l, R)
  <2>1. ASSUME NEW i \in Ix(u2), Effective(t, u2, i) PROVE FALSE
    <3>1. ~Behind(u2, i, Grants) /\ ~Behind(u2, i, {"GetXResp"})
      BY <1>g DEF Behind
    <3>2. u2[i].cmd \in {"Inv", "FetchInv"} /\ t \in Holding
      BY <1>s, <2>1, <3>1 DEF Effective
    <3>3. Effective(s, u, i + 1)
      BY <1>c, <1>s, <3>2 DEF Effective
    <3>4. QED BY <1>a, <1>c, <3>3
  <2>2. QED BY <2>1 DEF Snooped
<1>8. StateFits(t, b)
  BY DEF Agree, StateFits, Owning, Holding, CoreCmds, NoLine
<1>9. QED BY <1>0, <1>1, <1>2, <1>3, <1>4, <1>5, <1>6, <1>7, <1>8, <1>d DEF Agree

(* The one response in u, once taken, leaves the L1 with no request. *)
LEMMA RespOnly ==
    ASSUME NEW c, NEW s, NEW b, NEW u, NEW u2, NEW d, NEW l, NEW R, NEW h,
           Agree(c, s, b, u, d, l, R, h), Cut(u, u2), u[1].cmd \in RespCmds
    PROVE  /\ h = {} /\ \A i \in Ix(d) : d[i].cmd \notin ReqCmds
           /\ \A i \in Ix(u2) : u2[i].cmd \notin RespCmds
<1>1. 1 \in Ix(u) /\ \A i \in Ix(u2) : u2[i] = u[i + 1] /\ i + 1 \in Ix(u) /\ i + 1 # 1
  BY CutIs DEF Ix
<1>2. QED BY <1>1 DEF Agree, Once

(* The data arrives. *)
LEMMA AgreeData ==
    ASSUME NEW c, NEW s, NEW t, NEW b, NEW u, NEW u2, NEW d, NEW l, NEW R, NEW h,
           Agree(c, s, b, u, d, l, R, h), Cut(u, u2), u[1].cmd \in Grants,
           IF u[1].cmd = "GetSResp" THEN t = "S" ELSE t \in Owning
    PROVE  Agree(c, t, "none", u2, d, l, R, h)
<1>c. \A i \in Ix(u2) : u2[i] = u[i + 1] /\ i + 1 \in Ix(u) /\ 1 < i + 1 /\ i + 1 # 1
  BY CutIs DEF Ix
<1>0. 1 \in Ix(u) /\ IsSeq(u2)
  BY CutIs
<1>r. /\ h = {} /\ \A i \in Ix(d) : d[i].cmd \notin ReqCmds
      /\ \A i \in Ix(u2) : u2[i].cmd \notin RespCmds
  BY RespOnly DEF Grants, RespCmds
<1>g. \A i \in Ix(u2) : u2[i].cmd \notin Grants /\ u2[i].cmd # "GetXResp" /\ u2[i].cmd # "GetSResp"
  BY <1>r DEF Grants, RespCmds
<1>t. t \in {"S", "E", "M"} /\ (t \in Owning => u[1].cmd = "GetXResp" /\ l.owner = c) /\ InView(c, l)
  BY <1>0 DEF Agree, View, InView, Owning, Grants
<1>l. (\A i \in Ix(d) : ~Leaves(d[i])) /\ (t \in Owning => \A i \in Ix(d) : ~Lowers(d[i]))
  BY <1>0, <1>t DEF Agree, Left
<1>k. First(u2, d, h)
  BY CutKeeps
<1>1. Tokens("none", u2, d, h)
  BY <1>r DEF Tokens
<1>2. Once(u2, d, h)
  BY <1>r DEF Agree, Once
<1>3. View(c, t, u2, d, l)
  BY <1>t, <1>g DEF Agree, View
<1>4. Left(t, u2, d)
  BY <1>g, <1>l DEF Agree, Left
<1>5. ASSUME NEW i \in Ix(u2), Effective(t, u2, i) PROVE Effective(s, u, i + 1)
  <2>1. ~Behind(u2, i, Grants) /\ ~Behind(u2, i, {"GetXResp"})
    BY <1>g DEF Behind
  <2>2. i + 1 \in Ix(u) /\ 1 < i + 1 /\ u2[i] = u[i + 1]
    BY <1>c
  <2>3. \/ u2[i].cmd = "FetchInvX" /\ t \in Owning
        \/ u2[i].cmd \in {"Inv", "FetchInv"}
    BY <1>5, <2>1 DEF Effective
  <2>4. Behind(u, i + 1, Grants)
    BY <1>0, <2>2 DEF Behind
  <2>5. t \in Owning => Behind(u, i + 1, {"GetXResp"})
    BY <1>0, <1>t, <2>2 DEF Behind
  <2>6. QED BY <2>2, <2>3, <2>4, <2>5 DEF Effective
<1>6. Snooped(c, t, u2, d, l, R)
  <2> SUFFICES ASSUME NEW i \in Ix(u2), Effective(t, u2, i)
               PROVE /\ Asked(c, u2[i].cmd, l.st, R)
                     /\ \A j \in Ix(u2) : i < j => u2[j].cmd \notin Grants
                     /\ \A j \in Ix(u2) : Effective(t, u2, j) => i = j
                     /\ \A j \in Ix(d) : d[j].cmd \notin AckCmds
    BY DEF Snooped
  <2>1. Effective(s, u, i + 1) /\ i + 1 \in Ix(u) /\ u2[i] = u[i + 1]
    BY <1>c, <1>5
  <2>3. Asked(c, u2[i].cmd, l.st, R) /\ \A j \in Ix(d) : d[j].cmd \notin AckCmds
    BY <2>1 DEF Agree, Snooped
  <2>4. ASSUME NEW j \in Ix(u2), Effective(t, u2, j) PROVE i = j
    <3>1. Effective(s, u, j + 1) /\ j + 1 \in Ix(u)
      BY <1>c, <1>5, <2>4
    <3>2. i + 1 = j + 1
      BY <2>1, <3>1 DEF Agree, Snooped
    <3>3. QED BY <3>2, CutIs
  <2>5. QED BY <1>g, <2>3, <2>4
<1>7. Acked(c, d, l, R) /\ Answers(c, l, R, h) /\ IsSeq(d)
  BY DEF Agree
<1>8. StateFits(t, "none")
  BY <1>t DEF StateFits
<1>9. QED BY <1>0, <1>1, <1>2, <1>3, <1>4, <1>k, <1>6, <1>7, <1>8 DEF Agree

(* Taking a message that is no grant disturbs no snoop. *)
LEMMA CutSnooped ==
    ASSUME NEW c, NEW s, NEW b, NEW u, NEW u2, NEW d, NEW l, NEW R, NEW h,
           Agree(c, s, b, u, d, l, R, h), Cut(u, u2), u[1].cmd \notin Grants
    PROVE  Snooped(c, s, u2, d, l, R)
<1>c. \A i \in Ix(u2) : u2[i] = u[i + 1] /\ i + 1 \in Ix(u)
  BY CutIs
<1>g. u[1].cmd \notin Grants /\ u[1].cmd \notin {"GetXResp"}
  BY DEF Grants
<1>e. \A i \in Ix(u2) : Effective(s, u2, i) => Effective(s, u, i + 1)
  BY <1>c, <1>g, CutBehind DEF Effective
<1> SUFFICES ASSUME NEW i \in Ix(u2), Effective(s, u2, i)
             PROVE /\ Asked(c, u2[i].cmd, l.st, R)
                   /\ \A j \in Ix(u2) : i < j => u2[j].cmd \notin Grants
                   /\ \A j \in Ix(u2) : Effective(s, u2, j) => i = j
                   /\ \A j \in Ix(d) : d[j].cmd \notin AckCmds
  BY DEF Snooped
<1>1. Effective(s, u, i + 1) /\ i + 1 \in Ix(u) /\ u2[i] = u[i + 1]
  BY <1>c, <1>e
<1>2. \A j \in Ix(u2) : (i < j => i + 1 < j + 1) /\ (i + 1 = j + 1 => i = j)
  BY CutIs
<1>3. Asked(c, u2[i].cmd, l.st, R) /\ \A j \in Ix(d) : d[j].cmd \notin AckCmds
  BY <1>1 DEF Agree, Snooped
<1>4. \A j \in Ix(u2) : i < j => u2[j].cmd \notin Grants
  BY <1>c, <1>1, <1>2 DEF Agree, Snooped
<1>5. \A j \in Ix(u2) : Effective(s, u2, j) => i = j
  BY <1>c, <1>e, <1>1, <1>2 DEF Agree, Snooped
<1>6. QED BY <1>3, <1>4, <1>5

(* The flush is answered. *)
LEMMA AgreeFlushed ==
    ASSUME NEW c, NEW s, NEW t, NEW b, NEW u, NEW u2, NEW d, NEW l, NEW R, NEW h,
           Agree(c, s, b, u, d, l, R, h), Cut(u, u2), u[1].cmd = "FlushLineResp",
           t = IF s = "I_B" THEN "I" ELSE IF s = "S_B" THEN "S" ELSE s
    PROVE  Agree(c, t, "none", u2, d, l, R, h)
<1>0. 1 \in Ix(u) /\ IsSeq(u2)
  BY CutIs
<1>r. /\ h = {} /\ \A i \in Ix(d) : d[i].cmd \notin ReqCmds
      /\ \A i \in Ix(u2) : u2[i].cmd \notin RespCmds
  BY RespOnly DEF RespCmds
<1>s. s \in {"S_B", "I_B", "I", NoLine}
  BY <1>0 DEF Agree, Tokens, Fits, RespCmds, FlushCmds, StateFits
<1>m. Similar(s, t) /\ StateFits(t, "none")
  BY <1>s DEF Similar, Holding, Owning, NoLine, StateFits
<1>k. First(u2, d, h) /\ View(c, s, u2, d, l) /\ Left(s, u2, d)
  BY CutKeeps
<1>6. Snooped(c, s, u2, d, l, R)
  BY CutSnooped DEF Grants
<1>1. Tokens("none", u2, d, h) /\ Once(u2, d, h)
  BY <1>r DEF Tokens, Once
<1>3. View(c, t, u2, d, l) /\ Left(t, u2, d)
  BY <1>m, <1>k DEF View, Left, Similar
<1>4. Snooped(c, t, u2, d, l, R)
  BY <1>m, <1>6, EffectiveSame DEF Snooped
<1>9. QED BY <1>0, <1>1, <1>3, <1>4, <1>k, <1>m DEF Agree

(* A NACKed request is sent again. *)
LEMMA AgreeNack ==
    ASSUME NEW c, NEW s, NEW b, NEW u, NEW u2, NEW d, NEW d2, NEW l, NEW R, NEW h,
           Agree(c, s, b, u, d, l, R, h), Cut(u, u2), u[1].cmd = "NACK", Ext(d, u[1].nacked, d2)
    PROVE  Agree(c, s, b, u2, d2, l, R, h)
<1>0. 1 \in Ix(u) /\ IsSeq(u2)
  BY CutIs
<1>r. /\ h = {} /\ \A i \in Ix(d) : d[i].cmd \notin ReqCmds
      /\ \A i \in Ix(u2) : u2[i].cmd \notin RespCmds
  BY RespOnly DEF RespCmds
<1>1. PICK m : m = u[1].nacked
  OBVIOUS
<1>m. /\ b # "none" /\ m.cmd = Asks(b) /\ ~Leaves(m) /\ ~Lowers(m) /\ m.cmd \in ReqCmds /\ m.cmd \notin AckCmds
      /\ m.cmd \notin {"PutS", "PutE", "PutM", "FetchXResp"}
  BY <1>0, <1>1 DEF Agree, Tokens, Fits, RespCmds, StateFits, CoreCmds, Asks, ReqCmds, AckCmds
<1>d. /\ IsSeq(d2) /\ Len(d) \in Nat /\ Ix(d) = 1 .. Len(d) /\ Ix(d2) = 1 .. Len(d) + 1
      /\ \A i \in Ix(d) : d2[i] = d[i] /\ i < Len(d) + 1
  BY ExtIs
<1>e. \A i \in Ix(d2) : (i \in Ix(d) /\ d2[i] = d[i]) \/ (i = Len(d) + 1 /\ d2[i] = m)
  BY <1>1, ExtIs
<1>k. First(u2, d, h) /\ View(c, s, u2, d, l) /\ Left(s, u2, d)
  BY CutKeeps
<1>s. Snooped(c, s, u2, d, l, R)
  BY CutSnooped DEF Grants
<1>2. Tokens(b, u2, d2, h)
  BY <1>e, <1>r, <1>m DEF Tokens
<1>3. Once(u2, d2, h)
  BY <1>e, <1>r, <1>m DEF Once
<1>4. View(c, s, u2, d2, l)
  BY <1>e, <1>k, <1>m DEF View
<1>5. Left(s, u2, d2)
  BY <1>e, <1>k, <1>m DEF Left
<1>6. First(u2, d2, h)
  BY <1>e, <1>d, <1>k, <1>m, <1>r DEF First
<1>7. Acked(c, d2, l, R)
  BY <1>e, <1>m DEF Agree, Acked
<1>8. Snooped(c, s, u2, d2, l, R)
  BY <1>e, <1>s, <1>m DEF Snooped
<1>9. QED BY <1>0, <1>2, <1>3, <1>4, <1>5, <1>6, <1>7, <1>8, <1>d DEF Agree

Still(c, l, R, ln, R2) == \A cmd : Asked(c, cmd, l.st, R) => Asked(c, cmd, ln.st, R2)
(* A message that says nothing of the sender's copy. *)
Blank(m) == ~Leaves(m) /\ ~Lowers(m) /\ m.cmd \notin AckCmds /\ m.cmd \notin {"PutS", "PutE", "PutM", "FetchXResp"}
(* The head of d is replaced by m. *)
Swap(d, m, d2) ==
    /\ IsSeq(d2) /\ Ix(d2) = Ix(d) /\ 1 \in Ix(d) /\ d2[1] = m
    /\ \A i \in Ix(d) : i # 1 => d2[i] = d[i]
SnoopOrAck == {"Inv", "AckInv", "FetchInv", "FetchResp", "FetchInvX", "FetchXResp"}

(* Who is not waited for was asked nothing. *)
LEMMA NotAsked ==
    ASSUME NEW c, NEW cmd, NEW st, cmd \in SnoopOrAck, NEW R, c \notin R PROVE ~Asked(c, cmd, st, R)
BY DEF Asked, SnoopOrAck

(* What finds a line is a snoop. *)
LEMMA EffectiveCmd ==
    ASSUME NEW s, NEW u, NEW i, Effective(s, u, i) PROVE u[i].cmd \in SnoopOrAck
BY DEF Effective, SnoopOrAck

(* A pair c that keeps its place in the L2's view is not disturbed. *)
LEMMA AgreeOther ==
    ASSUME NEW c, NEW s, NEW b, NEW u, NEW d, NEW l, NEW R, NEW ln, NEW R2, NEW h, Agree(c, s, b, u, d, l, R, h),
           InView(c, l) => InView(c, ln), l.owner = c => ln.owner = c,
           \A cmd \in SnoopOrAck : Asked(c, cmd, l.st, R) => Asked(c, cmd, ln.st, R2),
           Answers(c, ln, R2, h)
    PROVE  Agree(c, s, b, u, d, ln, R2, h)
<1>1. View(c, s, u, d, ln)
  BY DEF Agree, View
<1>2. Acked(c, d, ln, R2)
  BY DEF Agree, Acked, AckCmds, SnoopOrAck
<1>3. Snooped(c, s, u, d, ln, R2)
  BY EffectiveCmd DEF Agree, Snooped
<1>4. QED BY <1>1, <1>2, <1>3 DEF Agree

(* What is kept when a message that says nothing of the line leaves d. *)
LEMMA CutDown ==
    ASSUME NEW c, NEW s, NEW b, NEW u, NEW d, NEW d2, NEW l, NEW R, NEW h,
           Agree(c, s, b, u, d, l, R, h), Cut(d, d2)
    PROVE  /\ View(c, s, u, d2, l) /\ Left(s, u, d2) /\ First(u, d2, h)
           /\ Acked(c, d2, l, R) /\ Snooped(c, s, u, d2, l, R)
           /\ Tokens(b, u, d2, h) /\ Once(u, d2, h)
<1>c. \A i \in Ix(d2) : d2[i] = d[i + 1] /\ i + 1 \in Ix(d)
  BY CutIs
<1>i. \A i, j \in Ix(d2) : (i + 1 = j + 1 => i = j) /\ (i < j <=> i + 1 < j + 1)
  BY CutIs
<1>1. View(c, s, u, d2, l)
  BY <1>c DEF Agree, View
<1>2. Left(s, u, d2)
  <2>1. \A i, j \in Ix(d2) : Leaves(d2[i]) /\ Leaves(d2[j]) => i = j
    BY <1>c, <1>i DEF Agree, Left
  <2>2. \A i, j \in Ix(d2) : Lowers(d2[i]) /\ Lowers(d2[j]) => i = j
    BY <1>c, <1>i DEF Agree, Left
  <2>3. \A i, j \in Ix(d2) : Leaves(d2[i]) /\ Lowers(d2[j]) => j < i
    BY <1>c, <1>i DEF Agree, Left
  <2>4. QED BY <1>c, <2>1, <2>2, <2>3 DEF Agree, Left
<1>3. First(u, d2, h)
  BY <1>c, <1>i DEF Agree, First
<1>4. Acked(c, d2, l, R)
  BY <1>c DEF Agree, Acked
<1>5. Snooped(c, s, u, d2, l, R)
  BY <1>c DEF Agree, Snooped
<1>6. Tokens(b, u, d2, h)
  BY <1>c DEF Agree, Tokens
<1>7. Once(u, d2, h)
  <2>1. \A i, j \in Ix(d2) : d2[i].cmd \in ReqCmds /\ d2[j].cmd \in ReqCmds => i = j
    BY <1>c, <1>i DEF Agree, Once
  <2>2. QED BY <1>c, <2>1 DEF Agree, Once
<1>8. QED BY <1>1, <1>2, <1>3, <1>4, <1>5, <1>6, <1>7

(* The L2 takes a message from the link. *)
LEMMA AgreeDrop ==
    ASSUME NEW c, NEW s, NEW b, NEW u, NEW d, NEW d2, NEW l, NEW R, NEW h,
           Agree(c, s, b, u, d, l, R, h), Cut(d, d2)
    PROVE  Agree(c, s, b, u, d2, l, R, h)
BY CutDown, CutIs DEF Agree

(* The request at the head of d is the only token. *)
LEMMA ReqOnly ==
    ASSUME NEW c, NEW s, NEW b, NEW u, NEW d, NEW d2, NEW l, NEW R, NEW h,
           Agree(c, s, b, u, d, l, R, h), Cut(d, d2), d[1].cmd \in ReqCmds
    PROVE  /\ h = {} /\ \A i \in Ix(d2) : d2[i].cmd \notin ReqCmds /\ d2[i].cmd \notin {"PutS", "PutE", "PutM", "FetchXResp"}
           /\ \A i \in Ix(u) : u[i].cmd \notin RespCmds
           /\ b # "none" /\ d[1].cmd = Asks(b)
<1>1. 1 \in Ix(d) /\ \A i \in Ix(d2) : d2[i] = d[i + 1] /\ i + 1 \in Ix(d) /\ i + 1 # 1 /\ 1 < i + 1
  BY CutIs DEF Ix
<1>2. \A i \in Ix(d2) : d2[i].cmd \notin ReqCmds
  BY <1>1 DEF Agree, Once
<1>3. \A i \in Ix(d2) : d2[i].cmd \notin {"PutS", "PutE", "PutM", "FetchXResp"}
  BY <1>1 DEF Agree, First
<1>4. QED BY <1>1, <1>2, <1>3 DEF Agree, Once, Tokens

(* The L2 takes a request and holds it. *)
LEMMA AgreeTake ==
    ASSUME NEW c, NEW s, NEW b, NEW u, NEW d, NEW d2, NEW l, NEW R, NEW h,
           Agree(c, s, b, u, d, l, R, h), Cut(d, d2), d[1].cmd \in ReqCmds
    PROVE  h = {} /\ Agree(c, s, b, u, d2, l, R, {d[1].cmd})
<1>1. /\ h = {} /\ \A i \in Ix(d2) : d2[i].cmd \notin ReqCmds /\ d2[i].cmd \notin {"PutS", "PutE", "PutM", "FetchXResp"}
      /\ \A i \in Ix(u) : u[i].cmd \notin RespCmds
      /\ b # "none" /\ d[1].cmd = Asks(b)
  BY ReqOnly
<1>2. /\ View(c, s, u, d2, l) /\ Left(s, u, d2) /\ Acked(c, d2, l, R) /\ Snooped(c, s, u, d2, l, R)
  BY CutDown
<1>3. Tokens(b, u, d2, {d[1].cmd}) /\ Once(u, d2, {d[1].cmd}) /\ First(u, d2, {d[1].cmd})
  BY <1>1 DEF Tokens, Once, First
<1>4. Answers(c, l, R, {d[1].cmd})
  BY <1>1 DEF Agree, Answers
<1>5. QED BY <1>1, <1>2, <1>3, <1>4, CutIs DEF Agree

(* A message that is neither snoop nor grant disturbs no snoop. *)
LEMMA ExtSnooped ==
    ASSUME NEW c, NEW s, NEW u, NEW u2, NEW m, NEW d, NEW l, NEW R, Snooped(c, s, u, d, l, R), Ext(u, m, u2),
           m.cmd \notin Grants, m.cmd \notin SnoopCmds
    PROVE  Snooped(c, s, u2, d, l, R)
<1>d. /\ IsSeq(u2) /\ Len(u) \in Nat /\ Ix(u) = 1 .. Len(u) /\ Ix(u2) = 1 .. Len(u) + 1
      /\ \A i \in Ix(u) : u2[i] = u[i] /\ i < Len(u) + 1
  BY ExtIs
<1>e. \A i \in Ix(u2) : (i \in Ix(u) /\ u2[i] = u[i]) \/ (i = Len(u) + 1 /\ u2[i] = m)
  BY ExtIs
<1>1. ASSUME NEW i \in Ix(u2), Effective(s, u2, i) PROVE i \in Ix(u) /\ Effective(s, u, i)
  <2>1. i \in Ix(u) /\ u2[i] = u[i]
    BY <1>e, <1>1 DEF Effective, SnoopCmds
  <2>2. ASSUME NEW S, Behind(u2, i, S) PROVE Behind(u, i, S)
    BY <1>d, <1>e, <2>1, <2>2 DEF Behind
  <2>3. QED BY <1>1, <2>1, <2>2 DEF Effective
<1>2. \A i \in Ix(u2) : Effective(s, u2, i) => Asked(c, u2[i].cmd, l.st, R) /\ \A j \in Ix(d) : d[j].cmd \notin AckCmds
  BY <1>d, <1>1 DEF Snooped
<1>3. \A i, j \in Ix(u2) : Effective(s, u2, i) /\ i < j => u2[j].cmd \notin Grants
  BY <1>e, <1>1 DEF Snooped
<1>4. \A i, j \in Ix(u2) : Effective(s, u2, i) /\ Effective(s, u2, j) => i = j
  BY <1>1 DEF Snooped
<1>5. QED BY <1>2, <1>3, <1>4 DEF Snooped

(* A response that carries no right to the line. *)
LEMMA AgreeReply ==
    ASSUME NEW c, NEW s, NEW b, NEW u, NEW u2, NEW m, NEW d, NEW l, NEW R, NEW h,
           Agree(c, s, b, u, d, l, R, h), h # {}, Ext(u, m, u2), m.cmd \in {"FlushLineResp", "NACK"}, Fits(m, b),
           Answers(c, l, R, {})
    PROVE  Agree(c, s, b, u2, d, l, R, {})
<1>e. \A i \in Ix(u2) : (i \in Ix(u) /\ u2[i] = u[i]) \/ (i = Len(u) + 1 /\ u2[i] = m)
  BY ExtIs
<1>g. m.cmd \notin Grants /\ m.cmd # "GetXResp" /\ m.cmd # "GetSResp" /\ m.cmd \notin SnoopCmds
  BY DEF Grants, SnoopCmds
<1>0. /\ \A i \in Ix(u) : u[i].cmd \notin RespCmds
      /\ \A i \in Ix(d) : d[i].cmd \notin ReqCmds
      /\ \A i \in Ix(d) : d[i].cmd \notin {"PutS", "PutE", "PutM", "FetchXResp"}
  BY DEF Agree, Once, First
<1>1. Tokens(b, u2, d, {}) /\ Once(u2, d, {}) /\ First(u2, d, {})
  BY <1>e, <1>0 DEF Tokens, Once, First
<1>2. View(c, s, u2, d, l)
  BY <1>e, <1>g DEF Agree, View
<1>3. Left(s, u2, d)
  BY <1>e, <1>g DEF Agree, Left
<1>4. Snooped(c, s, u2, d, l, R)
  BY <1>g, ExtSnooped DEF Agree
<1>5. QED BY <1>1, <1>2, <1>3, <1>4, ExtIs DEF Agree

(* The L2 refuses a request. *)
LEMMA AgreeNacked ==
    ASSUME NEW c, NEW s, NEW b, NEW u, NEW u2, NEW m, NEW d, NEW d2, NEW l, NEW R, NEW h,
           Agree(c, s, b, u, d, l, R, h), Cut(d, d2), d[1].cmd \in ReqCmds, Ext(u, m, u2),
           m.cmd = "NACK", m.nacked.cmd = d[1].cmd, ~Leaves(m.nacked), ~Lowers(m.nacked)
    PROVE  Agree(c, s, b, u2, d2, l, R, h)
<1>1. h = {} /\ Agree(c, s, b, u, d2, l, R, {d[1].cmd}) /\ Answers(c, l, R, {}) /\ b # "none" /\ d[1].cmd = Asks(b)
  BY AgreeTake, ReqOnly DEF Agree
<1>2. Fits(m, b)
  BY <1>1 DEF Fits
<1>3. QED BY <1>1, <1>2, AgreeReply

(* The L2 grants a held request. *)
LEMMA AgreeGrant ==
    ASSUME NEW c, NEW s, NEW b, NEW u, NEW u2, NEW m, NEW d, NEW l, NEW ln, NEW h,
           Agree(c, s, b, u, d, l, {}, h), h # {}, Ext(u, m, u2), m.cmd \in Grants, Fits(m, b),
           ~Acking(ln.st), InView(c, ln), m.cmd = "GetXResp" => ln.owner = c, l.owner = c => ln.owner = c
    PROVE  Agree(c, s, b, u2, d, ln, {}, {})
<1>d. /\ IsSeq(u2) /\ Len(u) \in Nat /\ Ix(u) = 1 .. Len(u) /\ Ix(u2) = 1 .. Len(u) + 1
      /\ \A i \in Ix(u) : u2[i] = u[i] /\ i < Len(u) + 1
  BY ExtIs
<1>e. \A i \in Ix(u2) : (i \in Ix(u) /\ u2[i] = u[i]) \/ (i = Len(u) + 1 /\ u2[i] = m)
  BY ExtIs
<1>g. m.cmd \notin SnoopCmds
  BY DEF Grants, SnoopCmds
<1>0. /\ \A i \in Ix(u) : u[i].cmd \notin RespCmds
      /\ \A i \in Ix(d) : d[i].cmd \notin ReqCmds
      /\ \A i \in Ix(d) : d[i].cmd \notin {"PutS", "PutE", "PutM", "FetchXResp"}
      /\ \A i \in Ix(d) : d[i].cmd \notin AckCmds
  BY NotAsked DEF Agree, Once, First, Acked, AckCmds, SnoopOrAck
<1>l. \A i \in Ix(d) : ~Leaves(d[i]) /\ ~Lowers(d[i])
  BY <1>0 DEF Leaves, Lowers, AckCmds, ReqCmds
<1>1. Tokens(b, u2, d, {}) /\ Once(u2, d, {}) /\ First(u2, d, {})
  BY <1>e, <1>0 DEF Tokens, Once, First
<1>2. View(c, s, u2, d, ln)
  BY <1>e, <1>l DEF Agree, View
<1>3. Left(s, u2, d)
  BY <1>l DEF Left
<1>4. \A i \in Ix(u) : ~Effective(s, u, i)
  BY NotAsked, EffectiveCmd DEF Agree, Snooped
<1>5. ASSUME NEW i \in Ix(u2), Effective(s, u2, i) PROVE FALSE
  <2>1. i \in Ix(u) /\ u2[i] = u[i]
    BY <1>e, <1>g, <1>5 DEF Effective, SnoopCmds
  <2>2. ASSUME NEW S, Behind(u2, i, S) PROVE Behind(u, i, S)
    BY <1>d, <1>e, <2>1, <2>2 DEF Behind
  <2>3. Effective(s, u, i)
    BY <1>5, <2>1, <2>2 DEF Effective
  <2>4. QED BY <1>4, <2>1, <2>3
<1>6. Snooped(c, s, u2, d, ln, {}) /\ Acked(c, d, ln, {}) /\ Answers(c, ln, {}, {})
  BY <1>0, <1>5 DEF Snooped, Acked, Answers
<1>7. QED BY <1>1, <1>2, <1>3, <1>6, <1>d DEF Agree

(* The L2 snoops the L1. *)
LEMMA AgreeSnoop ==
    ASSUME NEW c, NEW s, NEW b, NEW u, NEW u2, NEW m, NEW d, NEW l, NEW ln, NEW R2, NEW h,
           Agree(c, s, b, u, d, l, {}, h), Ext(u, m, u2), m.cmd \in SnoopCmds,
           InView(c, l) => InView(c, ln), l.owner = c => ln.owner = c,
           c \in R2, Asked(c, m.cmd, ln.st, R2)
    PROVE  Agree(c, s, b, u2, d, ln, R2, h)
<1>d. /\ IsSeq(u2) /\ Len(u) \in Nat /\ Ix(u) = 1 .. Len(u) /\ Ix(u2) = 1 .. Len(u) + 1
      /\ \A i \in Ix(u) : u2[i] = u[i] /\ i < Len(u) + 1
  BY ExtIs
<1>e. \A i \in Ix(u2) : (i \in Ix(u) /\ u2[i] = u[i]) \/ (i = Len(u) + 1 /\ u2[i] = m)
  BY ExtIs
<1>g. m.cmd \notin Grants /\ m.cmd # "GetXResp" /\ m.cmd # "GetSResp" /\ m.cmd \notin RespCmds
  BY DEF Grants, SnoopCmds, RespCmds
<1>0. \A i \in Ix(d) : d[i].cmd \notin AckCmds
  BY NotAsked DEF Agree, Acked, AckCmds, SnoopOrAck
<1>1. Tokens(b, u2, d, h)
  BY <1>e, <1>g DEF Agree, Tokens
<1>2. Once(u2, d, h)
  BY <1>e, <1>g DEF Agree, Once
<1>3. First(u2, d, h)
  BY <1>e, <1>g DEF Agree, First
<1>4. View(c, s, u2, d, ln)
  BY <1>e, <1>g DEF Agree, View
<1>5. Left(s, u2, d)
  BY <1>e, <1>g DEF Agree, Left
<1>6. \A i \in Ix(u) : ~Effective(s, u, i)
  BY NotAsked, EffectiveCmd DEF Agree, Snooped
<1>7. ASSUME NEW i \in Ix(u2), Effective(s, u2, i) PROVE i = Len(u) + 1
  <2> SUFFICES ASSUME i # Len(u) + 1 PROVE FALSE
    OBVIOUS
  <2>1. i \in Ix(u) /\ u2[i] = u[i]
    BY <1>e
  <2>2. ASSUME NEW S, Behind(u2, i, S) PROVE Behind(u, i, S)
    BY <1>d, <1>e, <2>1, <2>2 DEF Behind
  <2>3. Effective(s, u, i)
    BY <1>7, <2>1, <2>2 DEF Effective
  <2>4. QED BY <1>6, <2>1, <2>3
<1>8. Snooped(c, s, u2, d, ln, R2)
  <2>1. \A i \in Ix(u2) : Effective(s, u2, i) => Asked(c, u2[i].cmd, ln.st, R2)
    BY <1>d, <1>e, <1>7
  <2>2. \A i, j \in Ix(u2) : Effective(s, u2, i) => ~(i < j)
    BY <1>d, <1>7
  <2>3. QED BY <1>0, <1>7, <2>1, <2>2 DEF Snooped
<1>9. Acked(c, d, ln, R2) /\ Answers(c, ln, R2, h)
  BY <1>0 DEF Acked, Answers
<1>10. QED BY <1>1, <1>2, <1>3, <1>4, <1>5, <1>8, <1>9, <1>d DEF Agree

(* What a message that says nothing leaves as it was. *)
LEMMA SwapKeeps ==
    ASSUME NEW c, NEW s, NEW b, NEW u, NEW d, NEW m, NEW d2, NEW l, NEW R, NEW h,
           Agree(c, s, b, u, d, l, R, h), Swap(d, m, d2), Blank(m), m.cmd \in ReqCmds => m.cmd = d[1].cmd
    PROVE  /\ Tokens(b, u, d2, h) /\ Once(u, d2, h) /\ Left(s, u, d2) /\ First(u, d2, h)
           /\ \A i \in Ix(d2) : i \in Ix(d) /\ (i # 1 => d2[i] = d[i])
<1>1. \A i \in Ix(d2) : i \in Ix(d) /\ (i # 1 => d2[i] = d[i])
  BY DEF Swap
<1>2. d2[1] = m /\ 1 \in Ix(d) /\ 1 \in Ix(d2)
  BY DEF Swap
<1>3. \A i \in Ix(d2) : d2[i].cmd \in ReqCmds => d[i].cmd = d2[i].cmd
  BY <1>1, <1>2
<1>4. \A i \in Ix(d2) : (Leaves(d2[i]) => Leaves(d[i])) /\ (Lowers(d2[i]) => Lowers(d[i]))
  BY <1>1, <1>2 DEF Blank
<1>5. \A i \in Ix(d2) : d2[i].cmd \in {"PutS", "PutE", "PutM", "FetchXResp"} => d2[i].cmd = d[i].cmd
  BY <1>1, <1>2 DEF Blank
<1>6. Tokens(b, u, d2, h) /\ Once(u, d2, h)
  BY <1>1, <1>3 DEF Agree, Tokens, Once
<1>7. Left(s, u, d2)
  BY <1>1, <1>4 DEF Agree, Left
<1>8. First(u, d2, h)
  BY <1>1, <1>3, <1>5 DEF Agree, First
<1>9. QED BY <1>1, <1>6, <1>7, <1>8

(* The L2 hears that the L1 has given up its copy. *)
LEMMA AgreeLeave ==
    ASSUME NEW c, NEW s, NEW b, NEW u, NEW d, NEW m, NEW d2, NEW l, NEW R, NEW ln, NEW R2, NEW h,
           Agree(c, s, b, u, d, l, R, h), Swap(d, m, d2), Blank(m), m.cmd \in ReqCmds => m.cmd = d[1].cmd,
           Leaves(d[1]), ~InView(c, ln)
    PROVE  Agree(c, s, b, u, d2, ln, R2, h)
<1>k. /\ Tokens(b, u, d2, h) /\ Once(u, d2, h) /\ Left(s, u, d2) /\ First(u, d2, h)
      /\ \A i \in Ix(d2) : i \in Ix(d) /\ (i # 1 => d2[i] = d[i])
  BY SwapKeeps
<1>1. d2[1] = m /\ 1 \in Ix(d)
  BY DEF Swap
<1>2. \A i \in Ix(d) : i # 1 => ~Leaves(d[i])
  BY <1>1 DEF Agree, Left
<1>3. \A i \in Ix(d) : ~Lowers(d[i])
  BY <1>1 DEF Agree, Left, Ix
<1>4. s \notin Holding /\ s \notin Owning /\ \A i \in Ix(u) : u[i].cmd \notin Grants
  BY <1>1 DEF Agree, Left, Holding, Owning
<1>5. \A i \in Ix(d2) : ~Leaves(d2[i]) /\ ~Lowers(d2[i]) /\ d2[i].cmd \notin AckCmds
  BY <1>k, <1>1, <1>2, <1>3 DEF Blank, Leaves, Lowers, AckCmds
<1>6. View(c, s, u, d2, ln)
  BY <1>4, <1>5 DEF View, Grants
<1>7. Snooped(c, s, u, d2, ln, R2)
  BY <1>4 DEF Snooped, Effective, Behind, Grants
<1>8. Acked(c, d2, ln, R2) /\ Answers(c, ln, R2, h)
  BY <1>5 DEF Acked, Answers
<1>9. QED BY <1>k, <1>6, <1>7, <1>8 DEF Agree, Swap

(* The L2 hears that the L1 has given up its ownership. *)
LEMMA AgreeLower ==
    ASSUME NEW c, NEW s, NEW b, NEW u, NEW d, NEW m, NEW d2, NEW l, NEW R, NEW ln, NEW R2, NEW h,
           Agree(c, s, b, u, d, l, R, h), Swap(d, m, d2), Blank(m), m.cmd \in ReqCmds => m.cmd = d[1].cmd,
           Lowers(d[1]), InView(c, ln), Acking(ln.st) => c \in R2,
           \A cmd \in {"Inv", "AckInv", "FetchInv", "FetchResp"} : Asked(c, cmd, l.st, R) => Asked(c, cmd, ln.st, R2)
    PROVE  Agree(c, s, b, u, d2, ln, R2, h)
<1>k. /\ Tokens(b, u, d2, h) /\ Once(u, d2, h) /\ Left(s, u, d2) /\ First(u, d2, h)
      /\ \A i \in Ix(d2) : i \in Ix(d) /\ (i # 1 => d2[i] = d[i])
  BY SwapKeeps
<1>1. d2[1] = m /\ 1 \in Ix(d)
  BY DEF Swap
<1>2. \A i \in Ix(d) : i # 1 => ~Lowers(d[i])
  BY <1>1 DEF Agree, Left
<1>4. s \notin Owning /\ \A i \in Ix(u) : u[i].cmd # "GetXResp"
  BY <1>1 DEF Agree, Left
<1>5. \A i \in Ix(d2) : ~Lowers(d2[i]) /\ d2[i].cmd # "FetchXResp"
  BY <1>k, <1>1, <1>2 DEF Blank, Lowers
<1>6. View(c, s, u, d2, ln)
  BY <1>4, <1>5 DEF View
<1>7. Acked(c, d2, ln, R2)
  <2>1. ASSUME NEW i \in Ix(d2), d2[i].cmd \in AckCmds PROVE Asked(c, d2[i].cmd, ln.st, R2)
    <3>1. i # 1 /\ d2[i] = d[i] /\ i \in Ix(d)
      BY <1>k, <1>1, <2>1 DEF Blank
    <3>2. Asked(c, d2[i].cmd, l.st, R)
      BY <2>1, <3>1 DEF Agree, Acked
    <3>3. d2[i].cmd \in {"Inv", "AckInv", "FetchInv", "FetchResp"}
      BY <1>5, <2>1 DEF AckCmds
    <3>4. QED BY <3>2, <3>3
  <2>2. QED BY <2>1 DEF Acked
<1>8. Snooped(c, s, u, d2, ln, R2)
  <2>1. ASSUME NEW i \in Ix(u), Effective(s, u, i) PROVE Asked(c, u[i].cmd, ln.st, R2) /\ \A j \in Ix(d2) : d2[j].cmd \notin AckCmds
    <3>1. u[i].cmd \in {"Inv", "AckInv", "FetchInv", "FetchResp"}
      BY <1>4, <2>1 DEF Effective, Behind
    <3>2. Asked(c, u[i].cmd, l.st, R) /\ \A j \in Ix(d) : d[j].cmd \notin AckCmds
      BY <2>1 DEF Agree, Snooped
    <3>3. QED BY <1>k, <1>1, <3>1, <3>2 DEF Blank
  <2>2. QED BY <2>1 DEF Agree, Snooped
<1>9. Answers(c, ln, R2, h)
  BY DEF Answers
<1>10. QED BY <1>k, <1>6, <1>7, <1>8, <1>9 DEF Agree, Swap
-----------------------------------------------------------------------------
(***************************************************************************)
(* The second half: who owns the line when a snoop or a put arrives.       *)
(* Without it Agree is inductive and gives single writer and inclusion,    *)
(* but not that every event has a case.                                    *)
(***************************************************************************)

(* The L1 states of a sharer that a FetchInvX has no case for. *)
Shared == {"S", "SM"}
(* An Inv that finds the line is not for its owner. *)
NotOwner(c, s, u, l) == \A i \in Ix(u) : u[i].cmd = "Inv" /\ Effective(s, u, i) => l.owner # c
(* A FetchInvX that finds no owner finds no sharer either. *)
Stray(s, u) == \A i \in Ix(u) : u[i].cmd = "FetchInvX" /\ ~Effective(s, u, i) =>
    s \notin Shared /\ ~Behind(u, i, {"GetSResp", "FlushLineResp"})
(* The message ends the sender's ownership. *)
Gives(m) == Lowers(m) \/ (Leaves(m) /\ m.cmd # "PutS")
(* The L2's owner has the line, will have it, or has said that it no       *)
(* longer owns it.                                                         *)
Owned(c, s, u, d, l) == l.owner = c =>
    \/ s \in Owning
    \/ \E i \in Ix(u) : u[i].cmd = "GetXResp"
    \/ \E i \in Ix(d) : Gives(d[i])
(* Who puts an owned line back is the L2's owner, and says nothing else of *)
(* it.                                                                     *)
PutOwner(c, d, l) == \A i \in Ix(d) : d[i].cmd \in {"PutE", "PutM"} => l.owner = c /\ \A j \in Ix(d) : ~Lowers(d[j])
(* What keeps every event within the cases its handler has. *)
Race(c, s, u, d, l) == NotOwner(c, s, u, l) /\ Stray(s, u) /\ Owned(c, s, u, d, l) /\ PutOwner(c, d, l)
(* The invariant of one L1 and the L2 on one line. *)
Pair(c, s, b, u, d, l, R, h) == Agree(c, s, b, u, d, l, R, h) /\ Race(c, s, u, d, l)

(* The L1's state changes, its rights do not. *)
LEMMA PairSame ==
    ASSUME NEW c, NEW s, NEW t, NEW b, NEW u, NEW d, NEW l, NEW R, NEW h, Pair(c, s, b, u, d, l, R, h),
           Similar(s, t), StateFits(t, b), t \in Shared => s \in Shared
    PROVE  Pair(c, t, b, u, d, l, R, h)
<1>1. Agree(c, t, b, u, d, l, R, h)
  BY AgreeSame DEF Pair
<1>2. Race(c, s, u, d, l)
  BY DEF Pair
<1>3. NotOwner(c, t, u, l) /\ Stray(t, u)
  BY <1>2, EffectiveSame DEF Race, NotOwner, Stray
<1>4. Owned(c, t, u, d, l) /\ PutOwner(c, d, l)
  BY <1>2 DEF Race, Owned, Similar
<1>5. QED BY <1>1, <1>3, <1>4 DEF Pair, Race

(* A message that gives up nothing is sent down. *)
LEMMA RaceSend ==
    ASSUME NEW c, NEW s, NEW u, NEW d, NEW l, Race(c, s, u, d, l), NEW m, NEW d2, Ext(d, m, d2), ~Lowers(m), m.cmd \notin {"PutE", "PutM"}
    PROVE  Race(c, s, u, d2, l)
<1>1. \A i \in Ix(d) : i \in Ix(d2) /\ d2[i] = d[i]
  BY ExtIs
<1>2. \A i \in Ix(d2) : (i \in Ix(d) /\ d2[i] = d[i]) \/ d2[i] = m
  BY ExtIs
<1>3. Owned(c, s, u, d2, l)
  BY <1>1 DEF Race, Owned
<1>4. PutOwner(c, d2, l)
  BY <1>2 DEF Race, PutOwner
<1>5. QED BY <1>3, <1>4 DEF Race

(* A miss or an upgrade is sent down. *)
LEMMA PairRequest ==
    ASSUME NEW c, NEW s, NEW t, NEW e, NEW u, NEW d, NEW d2, NEW l, NEW R, NEW h,
           Pair(c, s, "none", u, d, l, R, h), Similar(s, t), StateFits(t, e), e \in {"GetS", "Write"}, t \in Shared => s \in Shared,
           NEW m, Ext(d, m, d2), m.cmd = Asks(e)
    PROVE  Pair(c, t, e, u, d2, l, R, h)
<1>1. Agree(c, t, e, u, d2, l, R, h)
  BY AgreeRequest DEF Pair
<1>2. Race(c, s, u, d, l)
  BY DEF Pair
<1>3. NotOwner(c, t, u, l) /\ Stray(t, u)
  BY <1>2, EffectiveSame DEF Race, NotOwner, Stray
<1>4. Owned(c, t, u, d, l) /\ PutOwner(c, d, l)
  BY <1>2 DEF Race, Owned, Similar
<1>5. Race(c, t, u, d, l)
  BY <1>3, <1>4 DEF Race
<1>6. ~Lowers(m) /\ m.cmd \notin {"PutE", "PutM"}
  BY DEF Asks, Lowers
<1>7. QED BY <1>1, <1>5, <1>6, RaceSend DEF Pair

(* The L1 evicts its copy. *)
LEMMA PairEvict ==
    ASSUME NEW c, NEW s, NEW u, NEW d, NEW d2, NEW l, NEW R, NEW h,
           Pair(c, s, "none", u, d, l, R, h), s \in {"S", "E", "M"},
           NEW m, Ext(d, m, d2), m.cmd \in PutCmds, m.cmd = "PutS" <=> s = "S"
    PROVE  Pair(c, NoLine, "none", u, d2, l, R, h)
<1>1. Agree(c, NoLine, "none", u, d2, l, R, h)
  BY AgreeEvict DEF Pair
<1>2. Race(c, s, u, d, l) /\ Agree(c, s, "none", u, d, l, R, h)
  BY DEF Pair
<1>3. \A i \in Ix(u) : u[i].cmd \notin RespCmds
  BY <1>2, Idle0
<1>4. s \in Holding /\ NoLine \notin Holding /\ NoLine \notin Owning /\ NoLine \notin Shared
  BY DEF Holding, Owning, NoLine, Shared
<1>5. NotOwner(c, NoLine, u, l)
  BY <1>2, <1>4 DEF Race, NotOwner, Effective
<1>6. Stray(NoLine, u)
  BY <1>3, <1>4 DEF Stray, Behind, RespCmds
<1>d. \A i \in Ix(d) : i \in Ix(d2) /\ d2[i] = d[i]
  BY ExtIs
<1>e. \A i \in Ix(d2) : (i \in Ix(d) /\ d2[i] = d[i]) \/ d2[i] = m
  BY ExtIs
<1>m. \E i \in Ix(d2) : d2[i] = m
  BY ExtIs
<1>7. Owned(c, NoLine, u, d2, l)
  <2>1. s \in Owning => Gives(m)
    BY DEF Owning, Gives, Leaves, PutCmds
  <2>2. QED BY <1>2, <1>d, <1>m, <2>1 DEF Race, Owned
<1>8. PutOwner(c, d2, l)
  <2>1. \A i \in Ix(d) : ~Leaves(d[i]) /\ d[i].cmd \notin PutCmds
    BY <1>2, <1>4 DEF Agree, Left, Leaves, PutCmds
  <2>2. s # "S" => l.owner = c /\ \A i \in Ix(d) : ~Lowers(d[i])
    BY <1>2 DEF Agree, View, Left, Owning
  <2>3. ~Lowers(m)
    BY DEF Lowers, PutCmds
  <2>4. QED BY <1>e, <2>1, <2>2, <2>3 DEF PutOwner, PutCmds
<1>9. QED BY <1>1, <1>5, <1>6, <1>7, <1>8 DEF Pair, Race

(* The L1 sends a flush. *)
LEMMA PairFlush ==
    ASSUME NEW c, NEW s, NEW t, NEW e, NEW u, NEW d, NEW d2, NEW l, NEW R, NEW h,
           Pair(c, s, "none", u, d, l, R, h),
           e \in FlushCmds, t = IF s \in {NoLine, "I"} THEN s ELSE IF e = "FlushLine" THEN "S_B" ELSE "I_B",
           NEW m, Ext(d, m, d2), m.cmd = e,
           m.evict <=> IF e = "FlushLine" THEN s \in {"E", "M"} ELSE s \notin {NoLine, "I"}
    PROVE  Pair(c, t, e, u, d2, l, R, h)
<1>1. Agree(c, t, e, u, d2, l, R, h)
  BY AgreeFlush DEF Pair
<1>2. Race(c, s, u, d, l) /\ Agree(c, s, "none", u, d, l, R, h)
  BY DEF Pair
<1>3. \A i \in Ix(u) : u[i].cmd \notin RespCmds
  BY <1>2, Idle0
<1>s. s \in {NoLine, "I", "S", "E", "M"}
  BY <1>2 DEF Agree, StateFits
<1>4. (t \in Holding => s \in Holding) /\ t \notin Owning /\ t \notin Shared
  BY <1>s DEF Holding, Owning, NoLine, Shared
<1>5. NotOwner(c, t, u, l)
  BY <1>2, <1>4 DEF Race, NotOwner, Effective
<1>6. Stray(t, u)
  BY <1>3, <1>4 DEF Stray, Behind, RespCmds
<1>d. \A i \in Ix(d) : i \in Ix(d2) /\ d2[i] = d[i]
  BY ExtIs
<1>e. \A i \in Ix(d2) : (i \in Ix(d) /\ d2[i] = d[i]) \/ d2[i] = m
  BY ExtIs
<1>m. \E i \in Ix(d2) : d2[i] = m
  BY ExtIs
<1>7. Owned(c, t, u, d2, l)
  <2>1. s \in Owning => Gives(m)
    BY <1>s DEF Owning, Gives, Leaves, Lowers, FlushCmds, NoLine
  <2>2. QED BY <1>2, <1>d, <1>m, <2>1 DEF Race, Owned
<1>8. PutOwner(c, d2, l)
  <2>1. \A i \in Ix(d) : d[i].cmd \in {"PutE", "PutM"} => s \notin Holding
    BY <1>2 DEF Agree, Left, Leaves
  <2>2. Lowers(m) => s \in Holding
    BY DEF Lowers, Holding, FlushCmds
  <2>3. m.cmd \notin {"PutE", "PutM"}
    BY DEF FlushCmds
  <2>4. QED BY <1>2, <1>e, <2>1, <2>2, <2>3 DEF PutOwner, Race
<1>9. QED BY <1>1, <1>5, <1>6, <1>7, <1>8 DEF Pair, Race

(* A message other than a grant leaves the head of u. *)
LEMMA CutEffective ==
    ASSUME NEW s, NEW u, NEW u2, Cut(u, u2), u[1].cmd \notin Grants, NEW i \in Ix(u2)
    PROVE  i + 1 \in Ix(u) /\ u2[i] = u[i + 1] /\ (Effective(s, u2, i) <=> Effective(s, u, i + 1))
<1>1. i + 1 \in Ix(u) /\ u2[i] = u[i + 1]
  BY CutIs
<1>2. u[1].cmd \notin {"GetXResp"}
  BY DEF Grants
<1>3. Behind(u2, i, {"GetXResp"}) <=> Behind(u, i + 1, {"GetXResp"})
  BY <1>2, CutBehind
<1>4. Behind(u2, i, Grants) <=> Behind(u, i + 1, Grants)
  BY CutBehind
<1>5. QED BY <1>1, <1>3, <1>4 DEF Effective

(* A GetXResp that is not the head stays on the link. *)
LEMMA CutGetX ==
    ASSUME NEW u, NEW u2, Cut(u, u2), NEW i \in Ix(u), u[i].cmd = "GetXResp", u[1].cmd # "GetXResp"
    PROVE  \E j \in Ix(u2) : u2[j].cmd = "GetXResp"
<1>1. i = 1 \/ (i - 1 \in Ix(u2) /\ u2[i - 1] = u[i])
  BY CutIs
<1>2. QED BY <1>1

(* The L1 takes a message that is no grant. *)
LEMMA RaceCut ==
    ASSUME NEW c, NEW s, NEW u, NEW u2, NEW d, NEW l, Race(c, s, u, d, l), Cut(u, u2), u[1].cmd \notin Grants
    PROVE  Race(c, s, u2, d, l)
<1>1. NotOwner(c, s, u2, l)
  BY CutEffective DEF Race, NotOwner
<1>2. Stray(s, u2)
  <2> SUFFICES ASSUME NEW i \in Ix(u2), u2[i].cmd = "FetchInvX", ~Effective(s, u2, i)
               PROVE  s \notin Shared /\ ~Behind(u2, i, {"GetSResp", "FlushLineResp"})
    BY DEF Stray
  <2>1. i + 1 \in Ix(u) /\ u[i + 1].cmd = "FetchInvX" /\ ~Effective(s, u, i + 1)
    BY CutEffective
  <2>2. s \notin Shared /\ ~Behind(u, i + 1, {"GetSResp", "FlushLineResp"})
    BY <2>1 DEF Race, Stray
  <2>3. QED BY <2>2, CutBehind
<1>3. Owned(c, s, u2, d, l)
  <2>1. u[1].cmd # "GetXResp"
    BY DEF Grants
  <2>2. QED BY <2>1, CutGetX DEF Race, Owned
<1>4. QED BY <1>1, <1>2, <1>3 DEF Race

(* A snoop finds nothing and is dropped. *)
LEMMA PairIgnore ==
    ASSUME NEW c, NEW s, NEW t, NEW b, NEW u, NEW u2, NEW d, NEW l, NEW R, NEW h,
           Pair(c, s, b, u, d, l, R, h), Cut(u, u2), u[1].cmd \in SnoopCmds, Similar(s, t), StateFits(t, b), t \in Shared => s \in Shared
    PROVE  Pair(c, t, b, u2, d, l, R, h)
<1>1. Agree(c, t, b, u2, d, l, R, h)
  BY AgreeIgnore DEF Pair
<1>2. u[1].cmd \notin Grants
  BY DEF SnoopCmds, Grants
<1>3. Race(c, s, u2, d, l)
  BY <1>2, RaceCut DEF Pair
<1>4. NotOwner(c, t, u2, l) /\ Stray(t, u2)
  BY <1>3, EffectiveSame DEF Race, NotOwner, Stray
<1>5. Owned(c, t, u2, d, l) /\ PutOwner(c, d, l)
  BY <1>3 DEF Race, Owned, Similar
<1>6. QED BY <1>1, <1>4, <1>5 DEF Pair, Race

(* A snoop finds the line and is answered. *)
LEMMA PairAnswer ==
    ASSUME NEW c, NEW s, NEW t, NEW b, NEW u, NEW u2, NEW d, NEW d2, NEW l, NEW R, NEW h,
           Pair(c, s, b, u, d, l, R, h), Cut(u, u2), u[1].cmd \in SnoopCmds,
           IF u[1].cmd = "FetchInvX" THEN s \in Owning /\ t = "S"
           ELSE s \in Holding /\ t = IF s = "SM" THEN "IM" ELSE "I",
           NEW m, Ext(d, m, d2),
           u[1].cmd = "Inv" => m.cmd = "AckInv", u[1].cmd = "FetchInv" => m.cmd = "FetchResp",
           u[1].cmd = "FetchInvX" => m.cmd = "FetchXResp"
    PROVE  Pair(c, t, b, u2, d2, l, R, h)
<1>1. Agree(c, t, b, u2, d2, l, R, h)
  BY AgreeAnswer DEF Pair
<1>2. Race(c, s, u, d, l) /\ Agree(c, s, b, u, d, l, R, h)
  BY DEF Pair
<1>3. u[1].cmd \notin Grants /\ s \in Holding /\ (t \in Holding => s \in Holding) /\ t \notin Owning
  BY DEF SnoopCmds, Grants, Holding, Owning
<1>4. 1 \in Ix(u) /\ Effective(s, u, 1)
  BY CutIs DEF Effective, SnoopCmds
<1>5. ASSUME NEW i \in Ix(u2) PROVE ~Effective(s, u2, i)
  <2> SUFFICES ASSUME Effective(s, u2, i) PROVE FALSE
    OBVIOUS
  <2>1. i + 1 \in Ix(u) /\ Effective(s, u, i + 1)
    BY <1>3, CutEffective
  <2>2. 1 = i + 1
    BY <1>2, <1>4, <2>1 DEF Agree, Snooped
  <2>3. QED BY <2>2, CutIs DEF Ix
<1>6. \A i \in Ix(u2) : u2[i].cmd = "Inv" => ~Effective(t, u2, i)
  BY <1>3, <1>5 DEF Effective
<1>7. NotOwner(c, t, u2, l)
  BY <1>6 DEF NotOwner
<1>8. Race(c, s, u2, d, l)
  BY <1>2, <1>3, RaceCut
<1>9. Stray(t, u2)
  <2>1. \A i \in Ix(u2) : u2[i].cmd = "FetchInvX" => ~Behind(u2, i, {"GetSResp", "FlushLineResp"})
    BY <1>5, <1>8 DEF Race, Stray
  <2>2. \A i \in Ix(u2) : u2[i].cmd = "FetchInvX" => s \notin Owning
    BY <1>5 DEF Effective
  <2>3. s \notin Owning => t \notin Shared
    BY DEF Shared, SnoopCmds
  <2>4. QED BY <2>1, <2>2, <2>3 DEF Stray
<1>m. (s \in Owning => Gives(m)) /\ m.cmd \notin {"PutE", "PutM"}
  BY DEF Gives, Lowers, Leaves, SnoopCmds
<1>10. Owned(c, t, u2, d2, l)
  <2>1. \A i \in Ix(d) : i \in Ix(d2) /\ d2[i] = d[i]
    BY ExtIs
  <2>2. \E i \in Ix(d2) : d2[i] = m
    BY ExtIs
  <2>3. QED BY <1>8, <1>m, <2>1, <2>2 DEF Race, Owned
<1>11. PutOwner(c, d2, l)
  <2>1. \A i \in Ix(d) : d[i].cmd \notin {"PutE", "PutM"}
    BY <1>2, <1>3 DEF Agree, Left, Leaves
  <2>2. \A i \in Ix(d2) : d2[i].cmd \notin {"PutE", "PutM"}
    BY <1>m, <2>1, ExtIs
  <2>3. QED BY <2>2 DEF PutOwner
<1>12. QED BY <1>1, <1>7, <1>9, <1>10, <1>11 DEF Pair, Race

(* The data arrives. *)
LEMMA PairData ==
    ASSUME NEW c, NEW s, NEW t, NEW b, NEW u, NEW u2, NEW d, NEW l, NEW R, NEW h,
           Pair(c, s, b, u, d, l, R, h), Cut(u, u2), u[1].cmd \in Grants,
           IF u[1].cmd = "GetSResp" THEN t = "S" ELSE t \in Owning
    PROVE  Pair(c, t, "none", u2, d, l, R, h)
<1>1. Agree(c, t, "none", u2, d, l, R, h)
  BY AgreeData DEF Pair
<1>2. Race(c, s, u, d, l) /\ Agree(c, s, b, u, d, l, R, h)
  BY DEF Pair
<1>3. /\ 1 \in Ix(u) /\ \A i \in Ix(u2) : u2[i] = u[i + 1] /\ i + 1 \in Ix(u) /\ 1 < i + 1
  BY CutIs
<1>4. \A i \in Ix(u2) : u2[i].cmd \notin RespCmds
  <2>1. u[1].cmd \in RespCmds
    BY DEF Grants, RespCmds
  <2>2. QED BY <1>2, <2>1, RespOnly
<1>5. s \notin Owning
  <2>1. Fits(u[1], b)
    BY <1>2, <1>3 DEF Agree, Tokens, Grants, RespCmds
  <2>2. b \in {"GetS", "Write"}
    BY <2>1 DEF Fits, Grants
  <2>3. QED BY <1>2, <2>2 DEF Agree, StateFits, Owning
<1>6. NotOwner(c, t, u2, l)
  <2> SUFFICES ASSUME NEW i \in Ix(u2), u2[i].cmd = "Inv" PROVE l.owner # c
    BY DEF NotOwner
  <2>1. i + 1 \in Ix(u) /\ u[i + 1].cmd = "Inv" /\ Effective(s, u, i + 1)
    BY <1>3 DEF Effective, Behind
  <2>2. QED BY <1>2, <2>1 DEF Race, NotOwner
<1>7. Stray(t, u2)
  <2> SUFFICES ASSUME NEW i \in Ix(u2), u2[i].cmd = "FetchInvX", ~Effective(t, u2, i) PROVE FALSE
    BY DEF Stray
  <2>1. u[1].cmd = "GetSResp"
    BY DEF Effective
  <2>2. i + 1 \in Ix(u) /\ u[i + 1].cmd = "FetchInvX" /\ Behind(u, i + 1, {"GetSResp", "FlushLineResp"})
    BY <1>3, <2>1 DEF Behind
  <2>3. ~Behind(u, i + 1, {"GetXResp"})
    <3>1. \A j \in Ix(u) : u[j].cmd # "GetXResp"
      <4>1. \A j \in Ix(u) : j = 1 \/ (j - 1 \in Ix(u2) /\ u2[j - 1] = u[j])
        BY CutIs
      <4>2. QED BY <1>4, <2>1, <4>1 DEF RespCmds
    <3>2. QED BY <3>1 DEF Behind
  <2>4. ~Effective(s, u, i + 1)
    BY <1>5, <2>2, <2>3 DEF Effective
  <2>5. QED BY <1>2, <2>2, <2>4 DEF Race, Stray
<1>8. Owned(c, t, u2, d, l)
  <2>1. CASE u[1].cmd = "GetSResp"
    <3>1. \A i \in Ix(u) : u[i].cmd = "GetXResp" => \E j \in Ix(u2) : u2[j].cmd = "GetXResp"
      BY <2>1, CutGetX
    <3>2. QED BY <1>2, <1>5, <3>1 DEF Race, Owned
  <2>2. CASE u[1].cmd # "GetSResp"
    BY <2>2 DEF Owned
  <2>3. QED BY <2>1, <2>2
<1>9. QED BY <1>1, <1>2, <1>6, <1>7, <1>8 DEF Pair, Race

(* The flush is answered. *)
LEMMA PairFlushed ==
    ASSUME NEW c, NEW s, NEW t, NEW b, NEW u, NEW u2, NEW d, NEW l, NEW R, NEW h,
           Pair(c, s, b, u, d, l, R, h), Cut(u, u2), u[1].cmd = "FlushLineResp",
           t = IF s = "I_B" THEN "I" ELSE IF s = "S_B" THEN "S" ELSE s
    PROVE  Pair(c, t, "none", u2, d, l, R, h)
<1>1. Agree(c, t, "none", u2, d, l, R, h)
  BY AgreeFlushed DEF Pair
<1>2. Race(c, s, u, d, l)
  BY DEF Pair
<1>3. u[1].cmd \notin Grants
  BY DEF Grants
<1>4. Similar(s, t)
  BY DEF Similar, Holding, Owning
<1>5. Race(c, s, u2, d, l)
  BY <1>2, <1>3, RaceCut
<1>6. NotOwner(c, t, u2, l)
  BY <1>4, <1>5, EffectiveSame DEF Race, NotOwner
<1>7. Stray(t, u2)
  <2> SUFFICES ASSUME NEW i \in Ix(u2), u2[i].cmd = "FetchInvX", ~Effective(t, u2, i) PROVE FALSE
    BY DEF Stray
  <2>1. ~Effective(s, u2, i)
    BY <1>4, EffectiveSame
  <2>2. i + 1 \in Ix(u) /\ u[i + 1].cmd = "FetchInvX" /\ ~Effective(s, u, i + 1)
    BY <1>3, <2>1, CutEffective
  <2>3. 1 \in Ix(u) /\ 1 < i + 1
    BY CutIs
  <2>4. Behind(u, i + 1, {"GetSResp", "FlushLineResp"})
    BY <2>3 DEF Behind
  <2>5. QED BY <1>2, <2>2, <2>4 DEF Race, Stray
<1>8. Owned(c, t, u2, d, l)
  BY <1>4, <1>5 DEF Race, Owned, Similar
<1>9. QED BY <1>1, <1>2, <1>6, <1>7, <1>8 DEF Pair, Race

(* A NACKed request is sent again. *)
LEMMA PairNack ==
    ASSUME NEW c, NEW s, NEW b, NEW u, NEW u2, NEW d, NEW d2, NEW l, NEW R, NEW h,
           Pair(c, s, b, u, d, l, R, h), Cut(u, u2), u[1].cmd = "NACK", Ext(d, u[1].nacked, d2)
    PROVE  Pair(c, s, b, u2, d2, l, R, h)
<1>1. Agree(c, s, b, u2, d2, l, R, h)
  BY AgreeNack DEF Pair
<1>2. Race(c, s, u2, d, l)
  <2>1. u[1].cmd \notin Grants
    BY DEF Grants
  <2>2. QED BY <2>1, RaceCut DEF Pair
<1>3. ~Lowers(u[1].nacked) /\ u[1].nacked.cmd \notin {"PutE", "PutM"}
  <2>1. Fits(u[1], b) /\ StateFits(s, b)
    BY CutIs DEF Pair, Agree, Tokens, RespCmds
  <2>2. QED BY <2>1 DEF Fits, Asks, StateFits, CoreCmds
<1>4. QED BY <1>1, <1>2, <1>3, RaceSend DEF Pair

(* The first half of the pair's invariant. *)
LEMMA PairAgree ==
    ASSUME NEW c, NEW s, NEW b, NEW u, NEW d, NEW l, NEW R, NEW h, Pair(c, s, b, u, d, l, R, h)
    PROVE  Agree(c, s, b, u, d, l, R, h)
BY DEF Pair

(* The line changes on behalf of another L1. *)
LEMMA PairOther ==
    ASSUME NEW c, NEW s, NEW b, NEW u, NEW d, NEW l, NEW R, NEW ln, NEW R2, NEW h, Pair(c, s, b, u, d, l, R, h),
           InView(c, l) => InView(c, ln), l.owner = c <=> ln.owner = c,
           \A cmd \in SnoopOrAck : Asked(c, cmd, l.st, R) => Asked(c, cmd, ln.st, R2),
           Answers(c, ln, R2, h)
    PROVE  Pair(c, s, b, u, d, ln, R2, h)
<1>1. Agree(c, s, b, u, d, ln, R2, h)
  BY AgreeOther DEF Pair
<1>2. Race(c, s, u, d, ln)
  BY DEF Pair, Race, NotOwner, Owned, PutOwner
<1>3. QED BY <1>1, <1>2 DEF Pair

(* A message that gives up nothing leaves the head of d. *)
LEMMA RaceDrop ==
    ASSUME NEW c, NEW s, NEW u, NEW d, NEW d2, NEW l, Race(c, s, u, d, l), Cut(d, d2), ~Gives(d[1])
    PROVE  Race(c, s, u, d2, l)
<1>1. \A i \in Ix(d2) : d2[i] = d[i + 1] /\ i + 1 \in Ix(d)
  BY CutIs
<1>2. \A i \in Ix(d) : i = 1 \/ (i - 1 \in Ix(d2) /\ d2[i - 1] = d[i])
  BY CutIs
<1>3. Owned(c, s, u, d2, l)
  BY <1>2 DEF Race, Owned
<1>4. PutOwner(c, d2, l)
  BY <1>1 DEF Race, PutOwner
<1>5. QED BY <1>3, <1>4 DEF Race

(* The L2 takes a message that gives nothing up. *)
LEMMA PairDrop ==
    ASSUME NEW c, NEW s, NEW b, NEW u, NEW d, NEW d2, NEW l, NEW R, NEW h,
           Pair(c, s, b, u, d, l, R, h), Cut(d, d2), ~Gives(d[1])
    PROVE  Pair(c, s, b, u, d2, l, R, h)
BY AgreeDrop, RaceDrop DEF Pair

(* The L2 takes a request and holds it. *)
LEMMA PairTake ==
    ASSUME NEW c, NEW s, NEW b, NEW u, NEW d, NEW d2, NEW l, NEW R, NEW h,
           Pair(c, s, b, u, d, l, R, h), Cut(d, d2), d[1].cmd \in ReqCmds, ~Gives(d[1])
    PROVE  h = {} /\ Pair(c, s, b, u, d2, l, R, {d[1].cmd})
<1>1. h = {} /\ Agree(c, s, b, u, d2, l, R, {d[1].cmd})
  BY AgreeTake DEF Pair
<1>2. Race(c, s, u, d2, l)
  BY RaceDrop DEF Pair
<1>3. QED BY <1>1, <1>2 DEF Pair

(* A message is sent up. *)
LEMMA ExtEffective ==
    ASSUME NEW s, NEW u, NEW m, NEW u2, Ext(u, m, u2), NEW i \in Ix(u)
    PROVE  /\ i \in Ix(u2) /\ u2[i] = u[i] /\ (Effective(s, u2, i) <=> Effective(s, u, i))
           /\ \A S : Behind(u2, i, S) <=> Behind(u, i, S)
<1>1. i \in Ix(u2) /\ u2[i] = u[i] /\ i < Len(u) + 1
  BY ExtIs
<1>2. ASSUME NEW S PROVE Behind(u2, i, S) <=> Behind(u, i, S)
  <2>1. \A j \in Ix(u2) : j < i => j \in Ix(u) /\ u2[j] = u[j]
    BY ExtIs
  <2>2. \A j \in Ix(u) : j \in Ix(u2) /\ u2[j] = u[j]
    BY ExtIs
  <2>3. QED BY <2>1, <2>2 DEF Behind
<1>3. QED BY <1>1, <1>2 DEF Effective

(* The L2 sends a message that is no snoop. *)
LEMMA RaceReply ==
    ASSUME NEW c, NEW s, NEW u, NEW u2, NEW m, NEW d, NEW l, Race(c, s, u, d, l), Ext(u, m, u2), m.cmd \notin SnoopCmds
    PROVE  Race(c, s, u2, d, l)
<1>1. \A i \in Ix(u2) : i \in Ix(u) \/ u2[i] = m
  BY ExtIs
<1>2. NotOwner(c, s, u2, l)
  BY <1>1, ExtEffective DEF Race, NotOwner, SnoopCmds
<1>3. Stray(s, u2)
  BY <1>1, ExtEffective DEF Race, Stray, SnoopCmds
<1>4. Owned(c, s, u2, d, l)
  <2>1. \A i \in Ix(u) : i \in Ix(u2) /\ u2[i] = u[i]
    BY ExtIs
  <2>2. QED BY <2>1 DEF Race, Owned
<1>5. QED BY <1>2, <1>3, <1>4 DEF Race

(* A response that carries no right to the line. *)
LEMMA PairReply ==
    ASSUME NEW c, NEW s, NEW b, NEW u, NEW u2, NEW m, NEW d, NEW l, NEW R, NEW h,
           Pair(c, s, b, u, d, l, R, h), h # {}, Ext(u, m, u2), m.cmd \in {"FlushLineResp", "NACK"}, Fits(m, b),
           Answers(c, l, R, {})
    PROVE  Pair(c, s, b, u2, d, l, R, {})
<1>1. Agree(c, s, b, u2, d, l, R, {})
  BY AgreeReply DEF Pair
<1>2. m.cmd \notin SnoopCmds
  BY DEF SnoopCmds
<1>3. Race(c, s, u2, d, l)
  BY <1>2, RaceReply DEF Pair
<1>4. QED BY <1>1, <1>3 DEF Pair

(* The L2 refuses a request. *)
LEMMA PairNacked ==
    ASSUME NEW c, NEW s, NEW b, NEW u, NEW u2, NEW m, NEW d, NEW d2, NEW l, NEW R, NEW h,
           Pair(c, s, b, u, d, l, R, h), Cut(d, d2), d[1].cmd \in ReqCmds, ~Gives(d[1]), Ext(u, m, u2),
           m.cmd = "NACK", m.nacked.cmd = d[1].cmd, ~Leaves(m.nacked), ~Lowers(m.nacked)
    PROVE  Pair(c, s, b, u2, d2, l, R, h)
<1>1. Agree(c, s, b, u2, d2, l, R, h)
  BY AgreeNacked DEF Pair
<1>2. m.cmd \notin SnoopCmds
  BY DEF SnoopCmds
<1>3. Race(c, s, u, d2, l)
  BY RaceDrop DEF Pair
<1>4. Race(c, s, u2, d2, l)
  BY <1>2, <1>3, RaceReply
<1>5. QED BY <1>1, <1>4 DEF Pair

(* The L2 grants a held request. *)
LEMMA PairGrant ==
    ASSUME NEW c, NEW s, NEW b, NEW u, NEW u2, NEW m, NEW d, NEW l, NEW ln, NEW h,
           Pair(c, s, b, u, d, l, {}, h), h # {}, Ext(u, m, u2), m.cmd \in Grants, Fits(m, b),
           ~Acking(ln.st), InView(c, ln), m.cmd = "GetXResp" => ln.owner = c, l.owner = c => ln.owner = c,
           ln.owner = c => l.owner = c \/ m.cmd = "GetXResp"
    PROVE  Pair(c, s, b, u2, d, ln, {}, {})
<1>1. Agree(c, s, b, u2, d, ln, {}, {})
  BY AgreeGrant DEF Pair
<1>2. Race(c, s, u, d, l) /\ Agree(c, s, b, u, d, l, {}, h)
  BY DEF Pair
<1>3. \A i \in Ix(u2) : (i \in Ix(u) /\ u2[i] = u[i]) \/ u2[i] = m
  BY ExtIs
<1>4. \A i \in Ix(u) : ~Effective(s, u, i)
  BY <1>2, NotAsked, EffectiveCmd DEF Agree, Snooped
<1>5. NotOwner(c, s, u2, ln)
  BY <1>3, <1>4, ExtEffective DEF NotOwner, Grants
<1>6. Stray(s, u2)
  BY <1>2, <1>3, ExtEffective DEF Race, Stray, Grants
<1>7. Owned(c, s, u2, d, ln)
  <2>1. \E i \in Ix(u2) : u2[i] = m
    BY ExtIs
  <2>2. QED BY <1>2, <2>1, ExtEffective DEF Race, Owned
<1>8. PutOwner(c, d, ln)
  BY <1>2 DEF Race, PutOwner
<1>9. QED BY <1>1, <1>5, <1>6, <1>7, <1>8 DEF Pair, Race

(* The L2 snoops the L1: the owner with FetchInvX or FetchInv, a sharer    *)
(* with Inv.                                                               *)
LEMMA PairSnoop ==
    ASSUME NEW c, NEW s, NEW b, NEW u, NEW u2, NEW m, NEW d, NEW l, NEW ln, NEW R2, NEW h,
           Pair(c, s, b, u, d, l, {}, h), Ext(u, m, u2), m.cmd \in SnoopCmds,
           InView(c, l) => InView(c, ln), l.owner = c <=> ln.owner = c,
           m.cmd = "Inv" => l.owner # c, m.cmd = "FetchInvX" => l.owner = c,
           c \in R2, Asked(c, m.cmd, ln.st, R2)
    PROVE  Pair(c, s, b, u2, d, ln, R2, h)
<1>1. Agree(c, s, b, u2, d, ln, R2, h)
  BY AgreeSnoop DEF Pair
<1>2. Race(c, s, u, d, l) /\ Agree(c, s, b, u, d, l, {}, h)
  BY DEF Pair
<1>3. \A i \in Ix(u2) : (i \in Ix(u) /\ u2[i] = u[i]) \/ (u2[i] = m /\ i = Len(u) + 1)
  BY ExtIs
<1>4. \A i \in Ix(u) : ~Effective(s, u, i)
  BY <1>2, NotAsked, EffectiveCmd DEF Agree, Snooped
<1>5. NotOwner(c, s, u2, ln)
  BY <1>3, <1>4, ExtEffective DEF NotOwner
<1>6. ASSUME m.cmd = "FetchInvX", s \notin Owning, \A i \in Ix(u) : u[i].cmd # "GetXResp"
      PROVE  s \notin Shared /\ \A i \in Ix(u) : u[i].cmd \notin {"GetSResp", "FlushLineResp"}
  <2>1. PICK i \in Ix(d) : Gives(d[i])
    BY <1>2, <1>6 DEF Race, Owned
  <2>2. d[i].cmd \notin AckCmds
    BY <1>2, NotAsked DEF Agree, Acked, AckCmds, SnoopOrAck
  <2>3. d[i].cmd \in {"PutE", "PutM"} \/ d[i].cmd \in FlushCmds
    BY <2>1, <2>2 DEF Gives, Leaves, Lowers, AckCmds, FlushCmds
  <2>4. CASE d[i].cmd \in {"PutE", "PutM"}
    BY <1>2, <2>4 DEF Agree, Left, Leaves, First, Shared, Holding, RespCmds
  <2>5. CASE d[i].cmd \in FlushCmds
    <3>1. d[i].cmd \in ReqCmds
      BY <2>5 DEF FlushCmds, ReqCmds
    <3>2. b # "none" /\ d[i].cmd = Asks(b) /\ \A j \in Ix(u) : u[j].cmd \notin RespCmds
      BY <1>2, <3>1 DEF Agree, Tokens, Once
    <3>3. b \in FlushCmds
      BY <2>5, <3>2 DEF Asks, FlushCmds
    <3>4. s \notin Shared
      BY <1>2, <3>3 DEF Agree, StateFits, FlushCmds, Shared, NoLine
    <3>5. QED BY <3>2, <3>4 DEF RespCmds
  <2>6. QED BY <2>3, <2>4, <2>5
<1>7. Stray(s, u2)
  <2> SUFFICES ASSUME NEW i \in Ix(u2), u2[i].cmd = "FetchInvX", ~Effective(s, u2, i)
               PROVE  s \notin Shared /\ ~Behind(u2, i, {"GetSResp", "FlushLineResp"})
    BY DEF Stray
  <2>1. CASE i \in Ix(u)
    <3>1. u[i].cmd = "FetchInvX" /\ ~Effective(s, u, i)
      BY <2>1, ExtEffective
    <3>2. s \notin Shared /\ ~Behind(u, i, {"GetSResp", "FlushLineResp"})
      BY <1>2, <2>1, <3>1 DEF Race, Stray
    <3>3. QED BY <2>1, <3>2, ExtEffective
  <2>2. CASE u2[i] = m /\ i = Len(u) + 1
    <3>1. \A j \in Ix(u) : j \in Ix(u2) /\ u2[j] = u[j] /\ j < i
      BY <2>2, ExtIs
    <3>2. s \notin Owning /\ \A j \in Ix(u) : u[j].cmd # "GetXResp"
      BY <3>1 DEF Effective, Behind
    <3>3. s \notin Shared /\ \A j \in Ix(u) : u[j].cmd \notin {"GetSResp", "FlushLineResp"}
      BY <1>6, <2>2, <3>2
    <3>4. \A j \in Ix(u2) : j < i => j \in Ix(u) /\ u2[j] = u[j]
      BY <2>2, ExtIs
    <3>5. QED BY <3>3, <3>4 DEF Behind
  <2>3. QED BY <1>3, <2>1, <2>2
<1>8. Owned(c, s, u2, d, ln)
  <2>1. \A i \in Ix(u) : i \in Ix(u2) /\ u2[i] = u[i]
    BY ExtIs
  <2>2. QED BY <1>2, <2>1 DEF Race, Owned
<1>9. PutOwner(c, d, ln)
  BY <1>2 DEF Race, PutOwner
<1>10. QED BY <1>1, <1>5, <1>7, <1>8, <1>9 DEF Pair, Race

(* The L2 hears that the L1 has given up its copy. *)
LEMMA PairLeave ==
    ASSUME NEW c, NEW s, NEW b, NEW u, NEW d, NEW m, NEW d2, NEW l, NEW R, NEW ln, NEW R2, NEW h,
           Pair(c, s, b, u, d, l, R, h), Swap(d, m, d2), Blank(m), m.cmd \in ReqCmds => m.cmd = d[1].cmd,
           Leaves(d[1]), ~InView(c, ln)
    PROVE  Pair(c, s, b, u, d2, ln, R2, h)
<1>1. Agree(c, s, b, u, d2, ln, R2, h)
  BY AgreeLeave DEF Pair
<1>2. ln.owner # c
  BY DEF InView
<1>3. NotOwner(c, s, u, ln) /\ Owned(c, s, u, d2, ln)
  BY <1>2 DEF NotOwner, Owned
<1>4. PutOwner(c, d2, ln)
  <2>1. \A i \in Ix(d) : Leaves(d[i]) => i = 1
    BY DEF Pair, Agree, Left, Swap
  <2>2. \A i \in Ix(d2) : d2[i].cmd \notin {"PutE", "PutM"}
    BY <2>1 DEF Swap, Blank, Leaves
  <2>3. QED BY <2>2 DEF PutOwner
<1>5. QED BY <1>1, <1>3, <1>4 DEF Pair, Race

(* The L2 hears that the L1 has given up its ownership. *)
LEMMA PairLower ==
    ASSUME NEW c, NEW s, NEW b, NEW u, NEW d, NEW m, NEW d2, NEW l, NEW R, NEW ln, NEW R2, NEW h,
           Pair(c, s, b, u, d, l, R, h), Swap(d, m, d2), Blank(m), m.cmd \in ReqCmds => m.cmd = d[1].cmd,
           Lowers(d[1]), InView(c, ln), ln.owner # c, Acking(ln.st) => c \in R2,
           \A cmd \in {"Inv", "AckInv", "FetchInv", "FetchResp"} : Asked(c, cmd, l.st, R) => Asked(c, cmd, ln.st, R2)
    PROVE  Pair(c, s, b, u, d2, ln, R2, h)
<1>1. Agree(c, s, b, u, d2, ln, R2, h)
  BY AgreeLower DEF Pair
<1>3. NotOwner(c, s, u, ln) /\ Owned(c, s, u, d2, ln)
  BY DEF NotOwner, Owned
<1>4. PutOwner(c, d2, ln)
  <2>1. \A i \in Ix(d) : d[i].cmd \notin {"PutE", "PutM"}
    BY DEF Pair, Race, PutOwner, Swap
  <2>2. \A i \in Ix(d2) : d2[i].cmd \notin {"PutE", "PutM"}
    BY <2>1 DEF Swap, Blank
  <2>3. QED BY <2>2 DEF PutOwner
<1>5. QED BY <1>1, <1>3, <1>4 DEF Pair, Race
-----------------------------------------------------------------------------
(***************************************************************************)
(* The MSHR and the retry buffers, as sequences of entries and of events.  *)
(***************************************************************************)

(* An event of a waits in the retry buffers q. *)
Pend(q, a) == \E i \in Ix(q) : q[i].cmd # "NULLCMD" /\ q[i].addr = a
(* A NULLCMD of a waits in the retry buffers q. *)
Null(q, a) == \E i \in Ix(q) : q[i].cmd = "NULLCMD" /\ q[i].addr = a
(* The j-th pointer of the i-th entry of old is new. *)
Points(E, old, i, j, new) ==
    /\ old \in Addrs /\ i \in Ix(E[old]) /\ E[old][i].type = "Evict"
    /\ j \in Ix(E[old][i].ptrs) /\ E[old][i].ptrs[j] = new
(* Some eviction is made for new. *)
Pointed(E, new) == \E old, i, j : Points(E, old, i, j, new)
(* The front entry of a is an event. *)
FrontEv(E, a) == 1 \in Ix(E[a]) /\ E[a][1].type = "Event"

(* What an entry may be: an event of its address that is in progress only  *)
(* at the front, or an eviction with pointers.                             *)
EntryAt(e, a, i) ==
    /\ e.type \in {"Event", "Evict"}
    /\ e.type = "Event" => /\ e.inProgress \in BOOLEAN /\ e.ev.addr = a /\ e.ev.cmd # "NULLCMD"
                           /\ i # 1 => ~e.inProgress
                           /\ {"type", "ev", "inProgress"} \subseteq DOMAIN e
    /\ e.type = "Evict" => IsSeq(e.ptrs) /\ {"type", "ptrs"} \subseteq DOMAIN e
EntryOK(E) == \A a \in Addrs : IsSeq(E[a]) /\ \A i \in Ix(E[a]) : EntryAt(E[a][i], a, i)
(* A retried event is the front of its register, and is there once. *)
RetriesFront(q, E) ==
    /\ \A i \in Ix(q) : q[i].cmd # "NULLCMD" =>
          q[i].addr \in Addrs /\ FrontEv(E, q[i].addr) /\ E[q[i].addr][1].ev = q[i]
    /\ \A i, j \in Ix(q) : q[i].cmd # "NULLCMD" /\ q[j].cmd # "NULLCMD" /\ q[i].addr = q[j].addr => i = j
(* A NULLCMD has its pointer in the Evict entry at the front, and is there *)
(* once.                                                                   *)
NullsFront(q, E) ==
    /\ \A i \in Ix(q) : q[i].cmd = "NULLCMD" => \E j : Points(E, q[i].addr, 1, j, q[i].new)
    /\ \A i, j \in Ix(q) : q[i].cmd = "NULLCMD" /\ q[j].cmd = "NULLCMD" /\ q[i].addr = q[j].addr
                           /\ q[i].new = q[j].new => i = j
(* a is at the front, has no line, is not in progress and not retried. *)
Waits(q, E, N, a) == a \in Addrs /\ FrontEv(E, a) /\ ~E[a][1].inProgress /\ a \in N /\ ~Pend(q, a)
(* An eviction is made for an event that waits for it. *)
PointersWait(q, E, N) == \A new : Pointed(E, new) => Waits(q, E, N, new)
(* An event waits for one eviction. *)
PointersOnce(E) == \A old, i, j, o, p, r, new :
    Points(E, old, i, j, new) /\ Points(E, o, p, r, new) => old = o /\ i = p /\ j = r
(* The MSHR entries E, the retry buffers q and the absent lines N agree. *)
KI(q, E, N) == IsSeq(q) /\ EntryOK(E) /\ RetriesFront(q, E) /\ NullsFront(q, E) /\ PointersWait(q, E, N) /\ PointersOnce(E)

(* Nothing else will touch a: its event is in the hands of the handler. *)
Hand(q, E, a) == a \in Addrs /\ ~Pend(q, a) /\ ~Null(q, a) /\ ~Pointed(E, a)
SameBut(E, a, E2) == \A b \in Addrs : b # a => E2[b] = E[b]

FrontKept(E, E2, b) == FrontEv(E2, b) /\ E2[b][1].ev = E[b][1].ev /\ (~E[b][1].inProgress => ~E2[b][1].inProgress)

(* Entries change, no pointer does. *)
LEMMA KISame ==
    ASSUME NEW q, NEW E, NEW E2, NEW N, KI(q, E, N), EntryOK(E2),
           \A old, i, j, new : Points(E2, old, i, j, new) <=> Points(E, old, i, j, new),
           \A b \in Addrs : FrontEv(E, b) /\ (Pend(q, b) \/ Pointed(E, b)) => FrontKept(E, E2, b)
    PROVE  KI(q, E2, N) /\ \A b : Pointed(E2, b) <=> Pointed(E, b)
<1>1. \A b : Pointed(E2, b) <=> Pointed(E, b)
  BY DEF Pointed
<1>2. RetriesFront(q, E2)
  BY DEF KI, RetriesFront, Pend, FrontKept
<1>3. NullsFront(q, E2)
  BY DEF KI, NullsFront
<1>4. PointersWait(q, E2, N)
  <2> SUFFICES ASSUME NEW new, Pointed(E2, new) PROVE Waits(q, E2, N, new)
    BY DEF PointersWait
  <2>1. Pointed(E, new) /\ Waits(q, E, N, new)
    BY <1>1 DEF KI, PointersWait
  <2>2. new \in Addrs /\ FrontKept(E, E2, new)
    BY <2>1 DEF Waits
  <2>3. QED BY <2>1, <2>2 DEF Waits, FrontKept
<1>5. PointersOnce(E2)
  BY DEF KI, PointersOnce
<1>6. QED BY <1>1, <1>2, <1>3, <1>4, <1>5 DEF KI

(* An event is put in the MSHR. *)
LEMMA KInsert ==
    ASSUME NEW q, NEW E, NEW E2, NEW N, KI(q, E, N), NEW a \in Addrs, SameBut(E, a, E2),
           NEW e, Ext(E[a], e, E2[a]), e.type = "Event", e.inProgress = FALSE, e.ev.addr = a, e.ev.cmd # "NULLCMD",
           {"type", "ev", "inProgress"} \subseteq DOMAIN e
    PROVE  KI(q, E2, N) /\ \A b : Pointed(E2, b) <=> Pointed(E, b)
<1>e. /\ IsSeq(E2[a]) /\ \A i \in Ix(E[a]) : E2[a][i] = E[a][i] /\ i \in Ix(E2[a])
      /\ \A i \in Ix(E2[a]) : (i \in Ix(E[a]) /\ E2[a][i] = E[a][i]) \/ (i = Len(E[a]) + 1 /\ E2[a][i] = e)
  BY ExtIs
<1>1. EntryOK(E2)
  <2>1. ASSUME NEW b \in Addrs PROVE IsSeq(E2[b]) /\ \A i \in Ix(E2[b]) : EntryAt(E2[b][i], b, i)
    <3>1. CASE b # a
      BY <3>1 DEF KI, EntryOK, SameBut
    <3>2. CASE b = a
      <4>1. \A i : EntryAt(e, a, i)
        BY DEF EntryAt
      <4>2. \A i \in Ix(E[a]) : EntryAt(E[a][i], a, i)
        BY DEF KI, EntryOK
      <4>3. QED BY <1>e, <3>2, <4>1, <4>2
    <3>3. QED BY <3>1, <3>2
  <2>2. QED BY <2>1 DEF EntryOK
<1>2. \A old, i, j, new : Points(E2, old, i, j, new) <=> Points(E, old, i, j, new)
  BY <1>e DEF Points, SameBut
<1>3. \A b \in Addrs : FrontEv(E, b) => FrontKept(E, E2, b)
  BY <1>e DEF FrontEv, FrontKept, SameBut
<1>4. QED BY <1>1, <1>2, <1>3, KISame

(* The front event is marked inProgress. *)
LEMMA KProgress ==
    ASSUME NEW q, NEW E, NEW E2, NEW N, KI(q, E, N), NEW a \in Addrs, SameBut(E, a, E2), ~Pointed(E, a),
           FrontEv(E, a), IsSeq(E2[a]), Ix(E2[a]) = Ix(E[a]), E2[a][1].type = "Event", E2[a][1].inProgress = TRUE,
           E2[a][1].ev = E[a][1].ev, DOMAIN E2[a][1] = DOMAIN E[a][1], \A i \in Ix(E[a]) : i # 1 => E2[a][i] = E[a][i]
    PROVE  KI(q, E2, N) /\ \A b : Pointed(E2, b) <=> Pointed(E, b)
<1>1. EntryOK(E2)
  <2>1. ASSUME NEW b \in Addrs PROVE IsSeq(E2[b]) /\ \A i \in Ix(E2[b]) : EntryAt(E2[b][i], b, i)
    <3>1. CASE b # a
      BY <3>1 DEF KI, EntryOK, SameBut
    <3>2. CASE b = a
      <4>0. EntryAt(E[a][1], a, 1)
        BY DEF KI, EntryOK, FrontEv
      <4>3. E[a][1].ev.addr = a /\ E[a][1].ev.cmd # "NULLCMD" /\ {"type", "ev", "inProgress"} \subseteq DOMAIN E[a][1]
        BY <4>0 DEF EntryAt, FrontEv
      <4>1. EntryAt(E2[a][1], a, 1)
        BY <4>3 DEF EntryAt
      <4>2. QED BY <3>2, <4>1 DEF KI, EntryOK
    <3>3. QED BY <3>1, <3>2
  <2>2. QED BY <2>1 DEF EntryOK
<1>2. \A old, i, j, new : Points(E2, old, i, j, new) <=> Points(E, old, i, j, new)
  BY DEF Points, SameBut, FrontEv
<1>3. ASSUME NEW b \in Addrs, FrontEv(E, b), Pend(q, b) \/ Pointed(E, b) PROVE FrontKept(E, E2, b) \/ b = a
  BY <1>3 DEF FrontEv, FrontKept, SameBut
<1>4. RetriesFront(q, E2)
  BY DEF KI, RetriesFront, FrontEv, SameBut
<1>5. \A b : Pointed(E2, b) <=> Pointed(E, b)
  BY <1>2 DEF Pointed
<1>6. PointersWait(q, E2, N)
  <2> SUFFICES ASSUME NEW new, Pointed(E2, new) PROVE Waits(q, E2, N, new)
    BY DEF PointersWait
  <2>1. Pointed(E, new) /\ Waits(q, E, N, new) /\ new # a
    BY <1>5 DEF KI, PointersWait
  <2>2. QED BY <2>1 DEF Waits, FrontEv, SameBut
<1>7. NullsFront(q, E2) /\ PointersOnce(E2)
  BY <1>2 DEF KI, NullsFront, PointersOnce
<1>8. QED BY <1>1, <1>4, <1>5, <1>6, <1>7 DEF KI

(* The front event of a leaves. *)
LEMMA KPop ==
    ASSUME NEW q, NEW E, NEW E2, NEW N, KI(q, E, N), NEW a, Hand(q, E, a), SameBut(E, a, E2),
           FrontEv(E, a), Cut(E[a], E2[a])
    PROVE  KI(q, E2, N) /\ Hand(q, E2, a) /\ \A b : Pointed(E2, b) <=> Pointed(E, b)
<1>a. a \in Addrs
  BY DEF Hand
<1>c. /\ IsSeq(E2[a]) /\ 1 \in Ix(E[a]) /\ \A i \in Ix(E2[a]) : E2[a][i] = E[a][i + 1] /\ i + 1 \in Ix(E[a]) /\ i + 1 # 1
      /\ \A i \in Ix(E[a]) : i = 1 \/ (i - 1 \in Ix(E2[a]) /\ E2[a][i - 1] = E[a][i] /\ (i - 1) + 1 = i)
      /\ \A i, j \in Ix(E2[a]) : i + 1 = j + 1 => i = j
  BY CutIs DEF Ix
<1>1. EntryOK(E2)
  <2>1. ASSUME NEW b \in Addrs PROVE IsSeq(E2[b]) /\ \A i \in Ix(E2[b]) : EntryAt(E2[b][i], b, i)
    <3>1. CASE b # a
      BY <3>1 DEF KI, EntryOK, SameBut
    <3>2. CASE b = a
      <4>1. \A i \in Ix(E2[a]) : EntryAt(E2[a][i], a, i + 1) /\ i + 1 # 1
        BY <1>a, <1>c DEF KI, EntryOK
      <4>2. QED BY <1>c, <3>2, <4>1 DEF EntryAt
    <3>3. QED BY <3>1, <3>2
  <2>2. QED BY <2>1 DEF EntryOK
<1>2. ASSUME NEW old, NEW i, NEW j, NEW new, Points(E2, old, i, j, new)
      PROVE  IF old = a THEN Points(E, old, i + 1, j, new) /\ i \in Ix(E2[a]) ELSE Points(E, old, i, j, new)
  BY <1>2, <1>c DEF Points, SameBut
<1>3. ASSUME NEW old, NEW i, NEW j, NEW new, Points(E, old, i, j, new) PROVE Pointed(E2, new)
  <2>1. CASE old # a
    <3>1. Points(E2, old, i, j, new)
      BY <1>3, <2>1 DEF Points, SameBut
    <3>2. QED BY <3>1 DEF Pointed
  <2>2. CASE old = a
    <3>1. i # 1
      BY <1>3, <2>2 DEF Points, FrontEv
    <3>2. Points(E2, a, i - 1, j, new)
      BY <1>3, <1>c, <2>2, <3>1 DEF Points
    <3>3. QED BY <3>2 DEF Pointed
  <2>3. QED BY <2>1, <2>2
<1>4. \A b : Pointed(E2, b) <=> Pointed(E, b)
  BY <1>2, <1>3 DEF Pointed
<1>5. RetriesFront(q, E2)
  <2>1. \A i \in Ix(q) : q[i].cmd # "NULLCMD" => q[i].addr # a
    BY DEF Hand, Pend
  <2>2. QED BY <2>1 DEF KI, RetriesFront, FrontEv, SameBut
<1>6. NullsFront(q, E2)
  <2>1. ASSUME NEW i \in Ix(q), q[i].cmd = "NULLCMD" PROVE \E j : Points(E2, q[i].addr, 1, j, q[i].new)
    <3>1. q[i].addr # a
      BY <2>1 DEF Hand, Null
    <3>2. PICK j : Points(E, q[i].addr, 1, j, q[i].new)
      BY <2>1 DEF KI, NullsFront
    <3>3. Points(E2, q[i].addr, 1, j, q[i].new)
      BY <3>1, <3>2 DEF Points, SameBut
    <3>4. QED BY <3>3
  <2>2. QED BY <2>1 DEF KI, NullsFront
<1>7. PointersWait(q, E2, N)
  <2> SUFFICES ASSUME NEW new, Pointed(E2, new) PROVE Waits(q, E2, N, new)
    BY DEF PointersWait
  <2>1. Pointed(E, new) /\ Waits(q, E, N, new) /\ new # a
    BY <1>4 DEF KI, PointersWait, Hand
  <2>2. QED BY <2>1 DEF Waits, FrontEv, SameBut
<1>8. PointersOnce(E2)
  <2> SUFFICES ASSUME NEW old, NEW i, NEW j, NEW o, NEW p, NEW r, NEW new,
                      Points(E2, old, i, j, new), Points(E2, o, p, r, new)
               PROVE  old = o /\ i = p /\ j = r
    BY DEF PointersOnce
  <2>0. PICK i2, p2 : (IF old = a THEN i2 = i + 1 ELSE i2 = i) /\ (IF o = a THEN p2 = p + 1 ELSE p2 = p)
    OBVIOUS
  <2>1. Points(E, old, i2, j, new) /\ Points(E, o, p2, r, new)
    BY <1>2, <2>0
  <2>2. old = o /\ i2 = p2 /\ j = r
    BY <2>1 DEF KI, PointersOnce
  <2>3. CASE old = a
    BY <1>2, <1>c, <2>0, <2>2, <2>3
  <2>4. CASE old # a
    BY <2>0, <2>2, <2>4
  <2>5. QED BY <2>3, <2>4
<1>9. Hand(q, E2, a)
  BY <1>4 DEF Hand
<1>10. QED BY <1>1, <1>4, <1>5, <1>6, <1>7, <1>8, <1>9 DEF KI

(* Lines change, but not those an eviction waits for. *)
LEMMA KLines ==
    ASSUME NEW q, NEW E, NEW N, NEW N2, KI(q, E, N), \A b : Pointed(E, b) /\ b \in N => b \in N2
    PROVE  KI(q, E, N2)
BY DEF KI, PointersWait, Waits

(* The front event is put in the retry buffer. *)
LEMMA KRetry ==
    ASSUME NEW q, NEW q2, NEW E, NEW N, KI(q, E, N), NEW a \in Addrs, ~Pend(q, a), ~Pointed(E, a),
           FrontEv(E, a), Ext(q, E[a][1].ev, q2)
    PROVE  KI(q2, E, N)
<1>1. PICK e : e = E[a][1].ev
  OBVIOUS
<1>2. e.addr = a /\ e.cmd # "NULLCMD"
  <2>1. EntryAt(E[a][1], a, 1)
    BY DEF KI, EntryOK, FrontEv
  <2>2. QED BY <1>1, <2>1 DEF EntryAt, FrontEv
<1>e. /\ IsSeq(q2) /\ \A i \in Ix(q2) : (i \in Ix(q) /\ q2[i] = q[i]) \/ (i = Len(q) + 1 /\ q2[i] = e)
  BY <1>1, ExtIs
<1>3. RetriesFront(q2, E)
  BY <1>1, <1>2, <1>e DEF KI, RetriesFront, Pend
<1>4. NullsFront(q2, E)
  BY <1>2, <1>e DEF KI, NullsFront
<1>5. \A b : Pend(q2, b) => Pend(q, b) \/ b = a
  BY <1>2, <1>e DEF Pend
<1>6. PointersWait(q2, E, N)
  BY <1>5 DEF KI, PointersWait, Waits
<1>7. QED BY <1>e, <1>3, <1>4, <1>6 DEF KI

(* The events an eviction was made for are retried. *)
LEMMA KWake ==
    ASSUME NEW q, NEW q2, NEW p, NEW E, NEW N, KI(q, E, N), NEW a \in Addrs, ~Null(q, a),
           1 \in Ix(E[a]), E[a][1].type = "Evict", Ix(p) = Ix(E[a][1].ptrs), Joined(q, p, q2),
           \A i \in Ix(p) : p[i].cmd = "NULLCMD" /\ p[i].addr = a /\ p[i].new = E[a][1].ptrs[i]
    PROVE  KI(q2, E, N)
<1>e. \A i \in Ix(q2) : (i \in Ix(q) /\ q2[i] = q[i]) \/ \E j \in Ix(p) : i = Len(q) + j /\ q2[i] = p[j]
  <2> SUFFICES ASSUME NEW i \in Ix(q2), i \notin Ix(q) PROVE \E j \in Ix(p) : i = Len(q) + j /\ q2[i] = p[j]
    BY DEF Joined, Ix
  <2>1. PICK j : j = i - Len(q)
    OBVIOUS
  <2>2. j \in Ix(p) /\ i = Len(q) + j
    BY <2>1 DEF Joined, Ix
  <2>3. q2[i] = p[j]
    BY <2>2, JoinedRight DEF Ix
  <2>4. QED BY <2>2, <2>3
<1>1. ASSUME NEW i \in Ix(q2), q2[i].cmd # "NULLCMD" PROVE i \in Ix(q) /\ q2[i] = q[i]
  BY <1>e, <1>1
<1>2. RetriesFront(q2, E)
  BY <1>1 DEF KI, RetriesFront
<1>3. ASSUME NEW j \in Ix(p) PROVE Points(E, a, 1, j, p[j].new)
  BY DEF Points
<1>4. ASSUME NEW i \in Ix(q2), q2[i].cmd = "NULLCMD" PROVE \E j : Points(E, q2[i].addr, 1, j, q2[i].new)
  <2>1. CASE i \in Ix(q) /\ q2[i] = q[i]
    BY <1>4, <2>1 DEF KI, NullsFront
  <2>2. CASE \E j \in Ix(p) : i = Len(q) + j /\ q2[i] = p[j]
    BY <1>3, <2>2
  <2>3. QED BY <1>e, <2>1, <2>2
<1>5. ASSUME NEW i \in Ix(q2), NEW j \in Ix(q2), q2[i].cmd = "NULLCMD", q2[j].cmd = "NULLCMD",
             q2[i].addr = q2[j].addr, q2[i].new = q2[j].new
      PROVE  i = j
  <2>1. CASE i \in Ix(q) /\ q2[i] = q[i] /\ j \in Ix(q) /\ q2[j] = q[j]
    BY <1>5, <2>1 DEF KI, NullsFront
  <2>2. CASE i \in Ix(q) /\ q2[i] = q[i] /\ \E k \in Ix(p) : j = Len(q) + k /\ q2[j] = p[k]
    BY <1>5, <2>2 DEF Null
  <2>3. CASE j \in Ix(q) /\ q2[j] = q[j] /\ \E k \in Ix(p) : i = Len(q) + k /\ q2[i] = p[k]
    BY <1>5, <2>3 DEF Null
  <2>4. ASSUME NEW k \in Ix(p), NEW m \in Ix(p), i = Len(q) + k /\ q2[i] = p[k], j = Len(q) + m /\ q2[j] = p[m]
        PROVE  i = j
    <3>1. Points(E, a, 1, k, p[k].new) /\ Points(E, a, 1, m, p[k].new)
      BY <1>3, <1>5, <2>4
    <3>2. k = m
      BY <3>1 DEF KI, PointersOnce
    <3>3. QED BY <2>4, <3>2
  <2>5. QED BY <1>e, <2>1, <2>2, <2>3, <2>4
<1>6. \A b : Pend(q2, b) => Pend(q, b)
  BY <1>1 DEF Pend
<1>7. PointersWait(q2, E, N)
  BY <1>6 DEF KI, PointersWait, Waits
<1>8. NullsFront(q2, E)
  BY <1>4, <1>5 DEF NullsFront
<1>9. QED BY <1>2, <1>7, <1>8 DEF KI, Joined

(* The places after one was taken out. *)
LEMMA RemovedIs ==
    ASSUME NEW q, NEW n, NEW q2, Removed(q, n, q2)
    PROVE  /\ IsSeq(q2) /\ n \in Ix(q)
           /\ \A i \in Ix(q2) : \E k \in Ix(q) : k # n /\ q2[i] = q[k] /\ k = IF i < n THEN i ELSE i + 1
           /\ \A i, j \in Ix(q2) : (IF i < n THEN i ELSE i + 1) = (IF j < n THEN j ELSE j + 1) => i = j
BY DEF Removed, Ix

(* An event leaves the retry buffer for its handler. *)
LEMMA KTake ==
    ASSUME NEW q, NEW n, NEW q2, NEW E, NEW N, KI(q, E, N), Removed(q, n, q2)
    PROVE  /\ KI(q2, E, N)
           /\ q[n].cmd # "NULLCMD" => Hand(q2, E, q[n].addr) /\ FrontEv(E, q[n].addr) /\ E[q[n].addr][1].ev = q[n]
           /\ q[n].cmd = "NULLCMD" => /\ \E j : Points(E, q[n].addr, 1, j, q[n].new)
                                      /\ \A i \in Ix(q2) : ~(q2[i].cmd = "NULLCMD" /\ q2[i].addr = q[n].addr
                                                             /\ q2[i].new = q[n].new)
<1>r. /\ IsSeq(q2) /\ n \in Ix(q)
      /\ \A i \in Ix(q2) : \E k \in Ix(q) : k # n /\ q2[i] = q[k] /\ k = IF i < n THEN i ELSE i + 1
      /\ \A i, j \in Ix(q2) : (IF i < n THEN i ELSE i + 1) = (IF j < n THEN j ELSE j + 1) => i = j
  BY RemovedIs
<1>1. ASSUME NEW i \in Ix(q2) PROVE \E k \in Ix(q) : k # n /\ q2[i] = q[k]
  BY <1>r
<1>2. ASSUME NEW i \in Ix(q2), NEW j \in Ix(q2), NEW P,
             \A k, m \in Ix(q) : q[k] = q2[i] /\ q[m] = q2[j] => k = m
      PROVE  i = j
  BY <1>r, <1>2
<1>3. RetriesFront(q2, E)
  <2>1. \A i \in Ix(q2) : q2[i].cmd # "NULLCMD" =>
          q2[i].addr \in Addrs /\ FrontEv(E, q2[i].addr) /\ E[q2[i].addr][1].ev = q2[i]
    BY <1>1 DEF KI, RetriesFront
  <2>2. ASSUME NEW i \in Ix(q2), NEW j \in Ix(q2), q2[i].cmd # "NULLCMD", q2[j].cmd # "NULLCMD", q2[i].addr = q2[j].addr
        PROVE  i = j
    <3>1. \A k, m \in Ix(q) : q[k] = q2[i] /\ q[m] = q2[j] => k = m
      BY <2>2 DEF KI, RetriesFront
    <3>2. QED BY <1>2, <3>1
  <2>3. QED BY <2>1, <2>2 DEF RetriesFront
<1>4. NullsFront(q2, E)
  <2>1. \A i \in Ix(q2) : q2[i].cmd = "NULLCMD" => \E j : Points(E, q2[i].addr, 1, j, q2[i].new)
    BY <1>1 DEF KI, NullsFront
  <2>2. ASSUME NEW i \in Ix(q2), NEW j \in Ix(q2), q2[i].cmd = "NULLCMD", q2[j].cmd = "NULLCMD", q2[i].addr = q2[j].addr,
               q2[i].new = q2[j].new
        PROVE  i = j
    <3>1. \A k, m \in Ix(q) : q[k] = q2[i] /\ q[m] = q2[j] => k = m
      BY <2>2 DEF KI, NullsFront
    <3>2. QED BY <1>2, <3>1
  <2>3. QED BY <2>1, <2>2 DEF NullsFront
<1>5. \A b : (Pend(q2, b) => Pend(q, b)) /\ (Null(q2, b) => Null(q, b))
  BY <1>1 DEF Pend, Null
<1>6. PointersWait(q2, E, N)
  BY <1>5 DEF KI, PointersWait, Waits
<1>7. KI(q2, E, N)
  BY <1>r, <1>3, <1>4, <1>6 DEF KI
<1>8. ASSUME q[n].cmd # "NULLCMD"
      PROVE  Hand(q2, E, q[n].addr) /\ FrontEv(E, q[n].addr) /\ E[q[n].addr][1].ev = q[n]
  <2>1. q[n].addr \in Addrs /\ FrontEv(E, q[n].addr) /\ E[q[n].addr][1].ev = q[n]
    BY <1>r, <1>8 DEF KI, RetriesFront
  <2>2. ~Pend(q2, q[n].addr)
    BY <1>r, <1>1, <1>8 DEF Pend, KI, RetriesFront
  <2>3. ~Null(q2, q[n].addr)
    BY <1>1, <2>1 DEF Null, KI, NullsFront, Points, FrontEv
  <2>4. ~Pointed(E, q[n].addr)
    BY <1>r, <1>8 DEF KI, PointersWait, Waits, Pend
  <2>5. QED BY <2>1, <2>2, <2>3, <2>4 DEF Hand
<1>9. ASSUME q[n].cmd = "NULLCMD"
      PROVE  /\ \E j : Points(E, q[n].addr, 1, j, q[n].new)
             /\ \A i \in Ix(q2) : ~(q2[i].cmd = "NULLCMD" /\ q2[i].addr = q[n].addr /\ q2[i].new = q[n].new)
  BY <1>r, <1>1, <1>9 DEF KI, NullsFront
<1>10. QED BY <1>7, <1>8, <1>9

(* new waits for the line v: in an Evict entry of its own, or in the last one. *)
NewEvict(x, y, new) == \E e : Ext(x, e, y) /\ e.type = "Evict" /\ IsSeq(e.ptrs) /\ Ix(e.ptrs) = {1} /\ e.ptrs[1] = new
                                /\ {"type", "ptrs"} \subseteq DOMAIN e
JoinEvict(x, y, new) ==
    \E n \in Ix(x) : /\ IsSeq(y) /\ Ix(y) = Ix(x) /\ x[n].type = "Evict" /\ y[n].type = "Evict"
                     /\ Ext(x[n].ptrs, new, y[n].ptrs) /\ {"type", "ptrs"} \subseteq DOMAIN y[n]
                     /\ \A i \in Ix(x) : i # n => y[i] = x[i]

(* One pointer more. *)
LEMMA KEvictPoints ==
    ASSUME NEW q, NEW E, NEW E2, NEW N, KI(q, E, N), NEW v \in Addrs, NEW new, SameBut(E, v, E2), ~Pointed(E, new),
           \A old, i, j, x : Points(E, old, i, j, x) => Points(E2, old, i, j, x),
           \A old, i, j, x : Points(E2, old, i, j, x) => Points(E, old, i, j, x) \/ x = new,
           \A old, i, j, o, p, r : Points(E2, old, i, j, new) /\ Points(E2, o, p, r, new) => old = o /\ i = p /\ j = r,
           Waits(q, E, N, new), EntryOK(E2), \A b \in Addrs : FrontEv(E, b) => FrontKept(E, E2, b)
    PROVE  KI(q, E2, N) /\ \A b : Pointed(E2, b) => Pointed(E, b) \/ b = new
<1>1. \A b : Pointed(E2, b) => Pointed(E, b) \/ b = new
  BY DEF Pointed
<1>2. RetriesFront(q, E2)
  BY DEF KI, RetriesFront, FrontKept
<1>3. NullsFront(q, E2)
  BY DEF KI, NullsFront
<1>4. PointersWait(q, E2, N)
  <2> SUFFICES ASSUME NEW x, Pointed(E2, x) PROVE Waits(q, E2, N, x)
    BY DEF PointersWait
  <2>1. Waits(q, E, N, x)
    BY <1>1 DEF KI, PointersWait
  <2>2. x \in Addrs /\ FrontKept(E, E2, x)
    BY <2>1 DEF Waits
  <2>3. QED BY <2>1, <2>2 DEF Waits, FrontKept
<1>5. PointersOnce(E2)
  <2> SUFFICES ASSUME NEW old, NEW i, NEW j, NEW o, NEW p, NEW r, NEW x, Points(E2, old, i, j, x), Points(E2, o, p, r, x)
               PROVE  old = o /\ i = p /\ j = r
    BY DEF PointersOnce
  <2>1. CASE x = new
    BY <2>1
  <2>2. CASE x # new
    <3>1. Points(E, old, i, j, x) /\ Points(E, o, p, r, x)
      BY <2>2
    <3>2. QED BY <3>1 DEF KI, PointersOnce
  <2>3. QED BY <2>1, <2>2
<1>6. QED BY <1>1, <1>2, <1>3, <1>4, <1>5 DEF KI

(* An eviction starts for new. *)
LEMMA KEvictNew ==
    ASSUME NEW q, NEW E, NEW E2, NEW N, KI(q, E, N), NEW v \in Addrs, NEW new, Waits(q, E, N, new), ~Pointed(E, new),
           SameBut(E, v, E2), NewEvict(E[v], E2[v], new)
    PROVE  KI(q, E2, N) /\ \A b : Pointed(E2, b) => Pointed(E, b) \/ b = new
<1>0. PICK e : Ext(E[v], e, E2[v]) /\ e.type = "Evict" /\ IsSeq(e.ptrs) /\ Ix(e.ptrs) = {1} /\ e.ptrs[1] = new
                                /\ {"type", "ptrs"} \subseteq DOMAIN e
  BY DEF NewEvict
<1>e. /\ IsSeq(E2[v]) /\ \A i \in Ix(E[v]) : E2[v][i] = E[v][i] /\ i \in Ix(E2[v]) /\ i # Len(E[v]) + 1
      /\ \A i \in Ix(E2[v]) : (i \in Ix(E[v]) /\ E2[v][i] = E[v][i]) \/ (i = Len(E[v]) + 1 /\ E2[v][i] = e)
  BY <1>0, ExtIs
<1>1. EntryOK(E2)
  <2>1. ASSUME NEW b \in Addrs PROVE IsSeq(E2[b]) /\ \A i \in Ix(E2[b]) : EntryAt(E2[b][i], b, i)
    <3>1. CASE b # v
      BY <3>1 DEF KI, EntryOK, SameBut
    <3>2. CASE b = v
      <4>1. \A i : EntryAt(e, v, i)
        BY <1>0 DEF EntryAt
      <4>2. \A i \in Ix(E[v]) : EntryAt(E[v][i], v, i)
        BY DEF KI, EntryOK
      <4>3. QED BY <1>e, <3>2, <4>1, <4>2
    <3>3. QED BY <3>1, <3>2
  <2>2. QED BY <2>1 DEF EntryOK
<1>2. \A old, i, j, x : Points(E, old, i, j, x) => Points(E2, old, i, j, x)
  BY <1>e DEF Points, SameBut
<1>3. ASSUME NEW old, NEW i, NEW j, NEW x, Points(E2, old, i, j, x)
      PROVE  Points(E, old, i, j, x) \/ (x = new /\ old = v /\ i = Len(E[v]) + 1 /\ j = 1)
  BY <1>0, <1>e, <1>3 DEF Points, SameBut
<1>4. \A b \in Addrs : FrontEv(E, b) => FrontKept(E, E2, b)
  BY <1>e DEF FrontEv, FrontKept, SameBut
<1>5. \A old, i, j, o, p, r : Points(E2, old, i, j, new) /\ Points(E2, o, p, r, new) => old = o /\ i = p /\ j = r
  BY <1>3 DEF Pointed
<1>6. QED BY <1>1, <1>2, <1>3, <1>4, <1>5, KEvictPoints

(* new joins the eviction that waits at the end. *)
LEMMA KEvictJoin ==
    ASSUME NEW q, NEW E, NEW E2, NEW N, KI(q, E, N), NEW v \in Addrs, NEW new, Waits(q, E, N, new), ~Pointed(E, new),
           SameBut(E, v, E2), JoinEvict(E[v], E2[v], new)
    PROVE  KI(q, E2, N) /\ \A b : Pointed(E2, b) => Pointed(E, b) \/ b = new
<1>0. PICK n \in Ix(E[v]) : /\ IsSeq(E2[v]) /\ Ix(E2[v]) = Ix(E[v]) /\ E[v][n].type = "Evict" /\ E2[v][n].type = "Evict"
                            /\ Ext(E[v][n].ptrs, new, E2[v][n].ptrs) /\ {"type", "ptrs"} \subseteq DOMAIN E2[v][n]
                            /\ \A i \in Ix(E[v]) : i # n => E2[v][i] = E[v][i]
  BY DEF JoinEvict
<1>p. PICK x, y, m : x = E[v][n].ptrs /\ y = E2[v][n].ptrs /\ m = Len(x) + 1
  OBVIOUS
<1>e. /\ IsSeq(y) /\ (\A i \in Ix(x) : y[i] = x[i] /\ i \in Ix(y) /\ i # m)
      /\ \A i \in Ix(y) : (i \in Ix(x) /\ y[i] = x[i]) \/ (i = m /\ y[i] = new)
  BY <1>0, <1>p, ExtIs
<1>1. EntryOK(E2)
  <2>1. ASSUME NEW b \in Addrs PROVE IsSeq(E2[b]) /\ \A i \in Ix(E2[b]) : EntryAt(E2[b][i], b, i)
    <3>1. CASE b # v
      BY <3>1 DEF KI, EntryOK, SameBut
    <3>2. CASE b = v
      <4>1. EntryAt(E2[v][n], v, n)
        BY <1>0, <1>p, <1>e DEF EntryAt
      <4>2. \A i \in Ix(E[v]) : EntryAt(E[v][i], v, i)
        BY DEF KI, EntryOK
      <4>3. QED BY <1>0, <3>2, <4>1, <4>2
    <3>3. QED BY <3>1, <3>2
  <2>2. QED BY <2>1 DEF EntryOK
<1>2. ASSUME NEW old, NEW i, NEW j, NEW z, Points(E, old, i, j, z) PROVE Points(E2, old, i, j, z)
  <2>1. CASE old = v /\ i = n
    BY <1>0, <1>p, <1>e, <1>2, <2>1 DEF Points
  <2>2. CASE ~(old = v /\ i = n)
    BY <1>0, <1>2, <2>2 DEF Points, SameBut
  <2>3. QED BY <2>1, <2>2
<1>3. ASSUME NEW old, NEW i, NEW j, NEW z, Points(E2, old, i, j, z)
      PROVE  Points(E, old, i, j, z) \/ (z = new /\ old = v /\ i = n /\ j = m)
  <2>1. CASE old = v /\ i = n
    BY <1>0, <1>p, <1>e, <1>3, <2>1 DEF Points
  <2>2. CASE ~(old = v /\ i = n)
    BY <1>0, <1>3, <2>2 DEF Points, SameBut
  <2>3. QED BY <2>1, <2>2
<1>4. \A b \in Addrs : FrontEv(E, b) => FrontKept(E, E2, b)
  BY <1>0 DEF FrontEv, FrontKept, SameBut
<1>5. \A old, i, j, o, p, r : Points(E2, old, i, j, new) /\ Points(E2, o, p, r, new) => old = o /\ i = p /\ j = r
  BY <1>3 DEF Pointed
<1>6. QED BY <1>1, <1>2, <1>3, <1>4, <1>5, KEvictPoints

(* The pointer new leaves the Evict entry in front of old, alone or as the last one. *)
DropSome(x, y, new) ==
    /\ IsSeq(y) /\ Ix(y) = Ix(x) /\ y[1].type = "Evict" /\ {"type", "ptrs"} \subseteq DOMAIN y[1]
    /\ Kept(x[1].ptrs, new, Len(x[1].ptrs), y[1].ptrs)
    /\ \A i \in Ix(x) : i # 1 => y[i] = x[i]
DropLast(x, y, new) == Cut(x, y) /\ \A j \in Ix(x[1].ptrs) : x[1].ptrs[j] = new
Gone(q, old, new) == \A i \in Ix(q) : ~(q[i].cmd = "NULLCMD" /\ q[i].addr = old /\ q[i].new = new)

(* A pointer leaves an eviction that has others. *)
LEMMA KDropSome ==
    ASSUME NEW q, NEW E, NEW E2, NEW N, KI(q, E, N), NEW old, NEW j0, NEW new, Points(E, old, 1, j0, new), Gone(q, old, new),
           SameBut(E, old, E2), DropSome(E[old], E2[old], new)
    PROVE  /\ KI(q, E2, N) /\ ~Pointed(E2, new)
           /\ \A b : Pointed(E2, b) => Pointed(E, b)
<1>0. old \in Addrs /\ 1 \in Ix(E[old]) /\ E[old][1].type = "Evict"
  BY DEF Points
<1>p. PICK x, y : x = E[old][1].ptrs /\ y = E2[old][1].ptrs
  OBVIOUS
<1>y. /\ IsSeq(y)
      /\ \A i \in Ix(y) : y[i] # new /\ \E j \in Ix(x) : x[j] = y[i]
      /\ \A j \in Ix(x) : x[j] # new => \E i \in Ix(y) : y[i] = x[j]
      /\ \A i, j \in Ix(y) : y[i] = y[j] => i = j
  BY <1>p DEF DropSome, Kept, Ix
<1>e. /\ IsSeq(E2[old]) /\ Ix(E2[old]) = Ix(E[old]) /\ E2[old][1].type = "Evict" /\ {"type", "ptrs"} \subseteq DOMAIN E2[old][1]
      /\ \A i \in Ix(E[old]) : i # 1 => E2[old][i] = E[old][i]
  BY DEF DropSome
<1>1. EntryOK(E2)
  <2>1. ASSUME NEW b \in Addrs PROVE IsSeq(E2[b]) /\ \A i \in Ix(E2[b]) : EntryAt(E2[b][i], b, i)
    <3>1. CASE b # old
      BY <3>1 DEF KI, EntryOK, SameBut
    <3>2. CASE b = old
      <4>1. EntryAt(E2[old][1], old, 1)
        BY <1>e, <1>p, <1>y DEF EntryAt
      <4>2. \A i \in Ix(E[old]) : EntryAt(E[old][i], old, i)
        BY <1>0 DEF KI, EntryOK
      <4>3. QED BY <1>e, <3>2, <4>1, <4>2
    <3>3. QED BY <3>1, <3>2
  <2>2. QED BY <2>1 DEF EntryOK
<1>2. ASSUME NEW o, NEW i, NEW j, NEW z, Points(E2, o, i, j, z)
      PROVE  IF o = old /\ i = 1 THEN z # new /\ j \in Ix(y) /\ y[j] = z /\ \E k : Points(E, o, i, k, z)
             ELSE Points(E, o, i, j, z)
  <2>1. CASE o = old /\ i = 1
    <3>1. j \in Ix(y) /\ y[j] = z
      BY <1>2, <1>p, <2>1 DEF Points
    <3>2. PICK k \in Ix(x) : x[k] = z /\ z # new
      BY <1>y, <3>1
    <3>3. Points(E, old, 1, k, z)
      BY <1>0, <1>p, <3>2 DEF Points
    <3>4. QED BY <2>1, <3>1, <3>2, <3>3
  <2>2. CASE ~(o = old /\ i = 1)
    BY <1>2, <1>e, <2>2 DEF Points, SameBut
  <2>3. QED BY <2>1, <2>2
<1>3. ASSUME NEW o, NEW i, NEW j, NEW z, Points(E, o, i, j, z), z # new PROVE \E k : Points(E2, o, i, k, z)
  <2>1. CASE o = old /\ i = 1
    <3>1. j \in Ix(x) /\ x[j] = z
      BY <1>3, <1>p, <2>1 DEF Points
    <3>2. PICK k \in Ix(y) : y[k] = z
      BY <1>y, <1>3, <3>1
    <3>3. Points(E2, old, 1, k, z)
      BY <1>0, <1>e, <1>p, <3>2 DEF Points
    <3>4. QED BY <2>1, <3>3
  <2>2. CASE ~(o = old /\ i = 1)
    <3>1. Points(E2, o, i, j, z)
      BY <1>3, <1>e, <2>2 DEF Points, SameBut
    <3>2. QED BY <3>1
  <2>3. QED BY <2>1, <2>2
<1>4. \A b : Pointed(E2, b) => Pointed(E, b)
  BY <1>2 DEF Pointed
<1>5. ~Pointed(E2, new)
  <2> SUFFICES ASSUME NEW o, NEW i, NEW j, Points(E2, o, i, j, new) PROVE FALSE
    BY DEF Pointed
  <2>1. Points(E, o, i, j, new) /\ ~(o = old /\ i = 1)
    BY <1>2
  <2>2. QED BY <2>1 DEF KI, PointersOnce
<1>6. RetriesFront(q, E2)
  BY <1>0 DEF KI, RetriesFront, FrontEv, SameBut
<1>7. NullsFront(q, E2)
  <2>1. ASSUME NEW i \in Ix(q), q[i].cmd = "NULLCMD" PROVE \E j : Points(E2, q[i].addr, 1, j, q[i].new)
    <3>1. PICK j : Points(E, q[i].addr, 1, j, q[i].new)
      BY <2>1 DEF KI, NullsFront
    <3>2. q[i].new # new
      <4> SUFFICES ASSUME q[i].new = new PROVE FALSE
        OBVIOUS
      <4>1. q[i].addr = old
        BY <3>1 DEF KI, PointersOnce
      <4>2. QED BY <2>1, <4>1 DEF Gone
    <3>3. QED BY <1>3, <3>1, <3>2
  <2>2. QED BY <2>1 DEF KI, NullsFront
<1>8. PointersWait(q, E2, N)
  <2> SUFFICES ASSUME NEW z, Pointed(E2, z) PROVE Waits(q, E2, N, z)
    BY DEF PointersWait
  <2>1. Waits(q, E, N, z)
    BY <1>4 DEF KI, PointersWait
  <2>2. QED BY <1>0, <2>1 DEF Waits, FrontEv, SameBut
<1>9. PointersOnce(E2)
  <2> SUFFICES ASSUME NEW o, NEW i, NEW j, NEW o2, NEW p, NEW r, NEW z, Points(E2, o, i, j, z), Points(E2, o2, p, r, z)
               PROVE  o = o2 /\ i = p /\ j = r
    BY DEF PointersOnce
  <2>1. PICK k, m : Points(E, o, i, k, z) /\ Points(E, o2, p, m, z)
    BY <1>2
  <2>2. o = o2 /\ i = p
    BY <2>1 DEF KI, PointersOnce
  <2>3. CASE o = old /\ i = 1
    BY <1>2, <1>y, <2>2, <2>3
  <2>4. CASE ~(o = old /\ i = 1)
    <3>1. Points(E, o, i, j, z) /\ Points(E, o2, p, r, z)
      BY <1>2, <2>2, <2>4
    <3>2. QED BY <3>1 DEF KI, PointersOnce
  <2>5. QED BY <2>3, <2>4
<1>10. QED BY <1>1, <1>4, <1>5, <1>6, <1>7, <1>8, <1>9 DEF KI

(* The last pointer leaves, and the eviction with it. *)
LEMMA KDropLast ==
    ASSUME NEW q, NEW E, NEW E2, NEW N, KI(q, E, N), NEW old, NEW j0, NEW new, Points(E, old, 1, j0, new), Gone(q, old, new),
           SameBut(E, old, E2), DropLast(E[old], E2[old], new)
    PROVE  /\ KI(q, E2, N) /\ ~Pointed(E2, new) /\ Hand(q, E2, old)
           /\ \A b : Pointed(E2, b) => Pointed(E, b)
<1>0. old \in Addrs /\ 1 \in Ix(E[old]) /\ E[old][1].type = "Evict" /\ Cut(E[old], E2[old])
  BY DEF Points, DropLast
<1>c. /\ IsSeq(E2[old]) /\ \A i \in Ix(E2[old]) : E2[old][i] = E[old][i + 1] /\ i + 1 \in Ix(E[old]) /\ i + 1 # 1
      /\ \A i \in Ix(E[old]) : i = 1 \/ (i - 1 \in Ix(E2[old]) /\ E2[old][i - 1] = E[old][i] /\ (i - 1) + 1 = i)
      /\ \A i, j \in Ix(E2[old]) : i + 1 = j + 1 => i = j
  BY <1>0, CutIs DEF Ix
<1>1. EntryOK(E2)
  <2>1. ASSUME NEW b \in Addrs PROVE IsSeq(E2[b]) /\ \A i \in Ix(E2[b]) : EntryAt(E2[b][i], b, i)
    <3>1. CASE b # old
      BY <3>1 DEF KI, EntryOK, SameBut
    <3>2. CASE b = old
      <4>1. \A i \in Ix(E2[old]) : EntryAt(E2[old][i], old, i + 1) /\ i + 1 # 1
        BY <1>0, <1>c DEF KI, EntryOK
      <4>2. QED BY <1>c, <3>2, <4>1 DEF EntryAt
    <3>3. QED BY <3>1, <3>2
  <2>2. QED BY <2>1 DEF EntryOK
<1>2. ASSUME NEW o, NEW i, NEW j, NEW z, Points(E2, o, i, j, z)
      PROVE  IF o = old THEN Points(E, o, i + 1, j, z) /\ i \in Ix(E2[old]) /\ i + 1 # 1 ELSE Points(E, o, i, j, z)
  BY <1>2, <1>c DEF Points, SameBut
<1>p. PICK x : x = E[old][1].ptrs
  OBVIOUS
<1>z. ASSUME NEW j, NEW z, Points(E, old, 1, j, z) PROVE z = new
  BY <1>z, <1>p DEF Points, DropLast
<1>4. \A b : Pointed(E2, b) => Pointed(E, b)
  BY <1>2 DEF Pointed
<1>5. ~Pointed(E2, new)
  <2> SUFFICES ASSUME NEW o, NEW i, NEW j, Points(E2, o, i, j, new) PROVE FALSE
    BY DEF Pointed
  <2>1. CASE o = old
    BY <1>2, <2>1 DEF KI, PointersOnce
  <2>2. CASE o # old
    BY <1>2, <2>2 DEF KI, PointersOnce
  <2>3. QED BY <2>1, <2>2
<1>6. RetriesFront(q, E2)
  BY <1>0 DEF KI, RetriesFront, FrontEv, SameBut
<1>n. ASSUME NEW i \in Ix(q), q[i].cmd = "NULLCMD" PROVE q[i].addr # old
  <2>1. PICK j : Points(E, q[i].addr, 1, j, q[i].new)
    BY <1>n DEF KI, NullsFront
  <2> SUFFICES ASSUME q[i].addr = old PROVE FALSE
    OBVIOUS
  <2>2. q[i].new = new
    BY <1>z, <2>1
  <2>3. QED BY <1>n, <2>2 DEF Gone
<1>7. NullsFront(q, E2)
  <2>1. ASSUME NEW i \in Ix(q), q[i].cmd = "NULLCMD" PROVE \E j : Points(E2, q[i].addr, 1, j, q[i].new)
    <3>1. PICK j : Points(E, q[i].addr, 1, j, q[i].new)
      BY <2>1 DEF KI, NullsFront
    <3>2. Points(E2, q[i].addr, 1, j, q[i].new)
      BY <1>n, <2>1, <3>1 DEF Points, SameBut
    <3>3. QED BY <3>2
  <2>2. QED BY <2>1 DEF KI, NullsFront
<1>8. PointersWait(q, E2, N)
  <2> SUFFICES ASSUME NEW z, Pointed(E2, z) PROVE Waits(q, E2, N, z)
    BY DEF PointersWait
  <2>1. Waits(q, E, N, z)
    BY <1>4 DEF KI, PointersWait
  <2>2. QED BY <1>0, <2>1 DEF Waits, FrontEv, SameBut
<1>9. PointersOnce(E2)
  <2> SUFFICES ASSUME NEW o, NEW i, NEW j, NEW o2, NEW p, NEW r, NEW z, Points(E2, o, i, j, z), Points(E2, o2, p, r, z)
               PROVE  o = o2 /\ i = p /\ j = r
    BY DEF PointersOnce
  <2>0. PICK i2, p2 : (IF o = old THEN i2 = i + 1 ELSE i2 = i) /\ (IF o2 = old THEN p2 = p + 1 ELSE p2 = p)
    OBVIOUS
  <2>1. Points(E, o, i2, j, z) /\ Points(E, o2, p2, r, z)
    BY <1>2, <2>0
  <2>2. o = o2 /\ i2 = p2 /\ j = r
    BY <2>1 DEF KI, PointersOnce
  <2>3. CASE o = old
    BY <1>2, <1>c, <2>0, <2>2, <2>3
  <2>4. CASE o # old
    BY <2>0, <2>2, <2>4
  <2>5. QED BY <2>3, <2>4
<1>10. Hand(q, E2, old)
  <2>1. ~Pend(q, old)
    BY <1>0 DEF Pend, KI, RetriesFront, FrontEv
  <2>2. ~Pointed(E2, old)
    BY <1>0, <1>4 DEF KI, PointersWait, Waits, FrontEv
  <2>3. QED BY <1>0, <1>n, <2>1, <2>2 DEF Hand, Null
<1>11. QED BY <1>1, <1>4, <1>5, <1>6, <1>7, <1>8, <1>9, <1>10 DEF KI
-----------------------------------------------------------------------------
(***************************************************************************)
(* The same for a controller: what the operators of MSHR.cc and of the     *)
(* controller do to it.                                                    *)
(***************************************************************************)

(* The shape of a controller. *)
Ctl(k) ==
    /\ {"line", "mshr", "retry", "rBuf", "done"} \subseteq DOMAIN k
    /\ {"reg", "size"} \subseteq DOMAIN k.mshr
    /\ DOMAIN k.mshr.reg = Addrs /\ DOMAIN k.line = Addrs
    /\ \A a \in Addrs : {"entries", "acks", "retries"} \subseteq DOMAIN k.mshr.reg[a]
    /\ \A a \in Addrs : "st" \in DOMAIN k.line[a]
    /\ \A a \in Addrs : IsSeq(k.mshr.reg[a].entries)
    /\ IsSeq(k.retry) /\ IsSeq(k.rBuf)
(* Only the MSHR, the retry buffers and the cycle may differ. *)
Frame(k, k2) ==
    /\ DOMAIN k2 = DOMAIN k /\ k2.line = k.line /\ k2.retry = k.retry /\ k2.done = k.done
    /\ "resp" \in DOMAIN k => k2.resp = k.resp
Regs(k, a, k2) == \A b \in Addrs : b # a => k2.mshr.reg[b] = k.mshr.reg[b]
(* The entries, the acks and the retries of a register. *)
Ent(k, a) == k.mshr.reg[a].entries
Acks(k, a) == k.mshr.reg[a].acks
Rts(k, a) == k.mshr.reg[a].retries

(* The counters go with the last entry. *)
Erased(k, a, k2) == /\ Acks(k2, a) = IF Ent(k2, a) = <<>> THEN 0 ELSE Acks(k, a)
                    /\ Ent(k2, a) = <<>> => k2.mshr.reg[a] = NoReg
                    /\ Ent(k2, a) # <<>> => Rts(k2, a) = Rts(k, a)

(* The front entry is marked inProgress. *)
Started(x, y) ==
    /\ IsSeq(y) /\ Ix(y) = Ix(x) /\ y[1].inProgress = TRUE /\ y[1].type = x[1].type /\ y[1].ev = x[1].ev
    /\ \A i \in Ix(x) : i # 1 => y[i] = x[i]
    /\ DOMAIN y[1] = DOMAIN x[1]

(* What insertEvent does. *)
LEMMA InsertIs ==
    ASSUME NEW k, Ctl(k), NEW a \in Addrs, NEW ev, NEW k2, k2 = [k EXCEPT !.mshr = insertEvent(@, a, ev)]
    PROVE  /\ Ctl(k2) /\ Frame(k, k2) /\ k2.rBuf = k.rBuf /\ Regs(k, a, k2)
           /\ Ext(Ent(k, a), EventEntry(ev), Ent(k2, a)) /\ Acks(k2, a) = Acks(k, a) /\ Rts(k2, a) = Rts(k, a)
<1>1. PICK x : x = Append(Ent(k, a), EventEntry(ev))
  OBVIOUS
<1>2. Ext(Ent(k, a), EventEntry(ev), x)
  BY <1>1, SeqAppend DEF Ctl, Ent
<1>3. k2.mshr = insertEvent(k.mshr, a, ev)
  BY DEF Ctl
<1>4. Frame(k, k2) /\ k2.rBuf = k.rBuf
  BY DEF Ctl, Frame
<1>5. k2.mshr.reg = [k.mshr.reg EXCEPT ![a].entries = x]
  BY <1>1, <1>3 DEF insertEvent, Ctl, Ent
<1>6. Regs(k, a, k2) /\ Ent(k2, a) = x /\ Acks(k2, a) = Acks(k, a) /\ Rts(k2, a) = Rts(k, a)
  BY <1>5 DEF Ctl, Regs, Ent, Acks, Rts
<1>7. Ctl(k2)
  BY <1>2, <1>3, <1>4, <1>5, <1>6 DEF Ctl, Frame, insertEvent, Ent, Ext
<1>8. QED BY <1>2, <1>4, <1>6, <1>7

(* The front of a register. *)
LEMMA EntLen ==
    ASSUME NEW k, Ctl(k), NEW a \in Addrs
    PROVE  /\ IsSeq(Ent(k, a)) /\ Len(Ent(k, a)) \in Nat
           /\ Ent(k, a) = <<>> <=> ~(1 \in Ix(Ent(k, a)))
           /\ 1 \in Ix(Ent(k, a)) => Head(Ent(k, a)) = Ent(k, a)[1]
<1>1. IsSeq(Ent(k, a))
  BY DEF Ctl, Ent
<1>2. QED BY <1>1, SeqLen DEF Ix

(* What removeFront does. *)
LEMMA PopIs ==
    ASSUME NEW k, Ctl(k), NEW a \in Addrs, 1 \in Ix(Ent(k, a)), NEW k2, k2 = [k EXCEPT !.mshr = removeFront(@, a)]
    PROVE  /\ Ctl(k2) /\ Frame(k, k2) /\ k2.rBuf = k.rBuf /\ Regs(k, a, k2)
           /\ Cut(Ent(k, a), Ent(k2, a)) /\ Erased(k, a, k2)
<1>1. PICK x : x = Tail(Ent(k, a))
  OBVIOUS
<1>0. IsSeq(Ent(k, a)) /\ Len(Ent(k, a)) \in Nat /\ Ent(k, a) # <<>>
  BY EntLen
<1>2. Cut(Ent(k, a), x)
  BY <1>0, <1>1, SeqTail
<1>x. IsSeq(x) /\ (x = <<>> <=> Len(Ent(k, a)) = 1)
  BY <1>0, <1>2, SeqLen DEF Cut
<1>3. k2.mshr = removeFront(k.mshr, a)
  BY DEF Ctl
<1>4. Frame(k, k2) /\ k2.rBuf = k.rBuf
  BY DEF Ctl, Frame
<1>5. PICK r : r = popEntry(k.mshr.reg[a])
  OBVIOUS
<1>6. k2.mshr.reg = [k.mshr.reg EXCEPT ![a] = r]
  BY <1>3, <1>5 DEF removeFront, Ctl
<1>7. Regs(k, a, k2) /\ k2.mshr.reg[a] = r
  BY <1>6 DEF Ctl, Regs
<1>8. CASE Len(Ent(k, a)) = 1
  <2>1. r = NoReg /\ r.entries = <<>> /\ r.acks = 0 /\ {"entries", "acks", "retries"} \subseteq DOMAIN r
    BY <1>5, <1>8 DEF popEntry, Ent, NoReg
  <2>2. Ent(k2, a) = x /\ Ent(k2, a) = <<>> /\ Acks(k2, a) = 0
    BY <1>7, <1>8, <1>x, <2>1 DEF Ent, Acks
  <2>3. Ctl(k2)
    BY <1>3, <1>4, <1>6, <1>7, <1>x, <2>1, <2>2 DEF Ctl, Frame, removeFront, Ent, Regs
  <2>4. QED BY <1>2, <1>4, <1>7, <2>1, <2>2, <2>3 DEF Erased
<1>9. CASE Len(Ent(k, a)) # 1
  <2>1. r = [k.mshr.reg[a] EXCEPT !.entries = x]
    BY <1>1, <1>5, <1>9 DEF popEntry, Ent
  <2>2. Ent(k2, a) = x /\ Ent(k2, a) # <<>> /\ Acks(k2, a) = Acks(k, a) /\ Rts(k2, a) = Rts(k, a)
    BY <1>7, <1>9, <1>x, <2>1 DEF Ent, Acks, Ctl, Rts
  <2>3. Ctl(k2)
    BY <1>3, <1>4, <1>6, <1>7, <1>x, <2>1, <2>2 DEF Ctl, Frame, removeFront, Ent, Regs
  <2>4. QED BY <1>2, <1>4, <1>7, <2>1, <2>2, <2>3 DEF Erased
<1>10. QED BY <1>8, <1>9

(* The entries of a register are replaced. *)
LEMMA SetEntries ==
    ASSUME NEW k, Ctl(k), NEW a \in Addrs, NEW x, IsSeq(x), NEW m, NEW k2, k2 = [k EXCEPT !.mshr = m],
           {"reg", "size"} \subseteq DOMAIN m, m.reg = [k.mshr.reg EXCEPT ![a].entries = x]
    PROVE  /\ Ctl(k2) /\ Frame(k, k2) /\ k2.rBuf = k.rBuf /\ Regs(k, a, k2)
           /\ Ent(k2, a) = x /\ Acks(k2, a) = Acks(k, a) /\ Rts(k2, a) = Rts(k, a)
<1>3. k2.mshr = m
  BY DEF Ctl
<1>4. Frame(k, k2) /\ k2.rBuf = k.rBuf
  BY DEF Ctl, Frame
<1>6. Regs(k, a, k2) /\ Ent(k2, a) = x /\ Acks(k2, a) = Acks(k, a) /\ Rts(k2, a) = Rts(k, a)
  BY <1>3 DEF Ctl, Regs, Ent, Acks, Rts
<1>7. Ctl(k2)
  BY <1>3, <1>4, <1>6 DEF Ctl, Frame, Ent
<1>8. QED BY <1>4, <1>6, <1>7

(* What setInProgress does. *)
LEMMA ProgressIs ==
    ASSUME NEW k, Ctl(k), NEW a \in Addrs, 1 \in Ix(Ent(k, a)), {"type", "ev", "inProgress"} \subseteq DOMAIN Ent(k, a)[1],
           NEW k2, k2 = [k EXCEPT !.mshr = setInProgress(@, a)]
    PROVE  /\ Ctl(k2) /\ Frame(k, k2) /\ k2.rBuf = k.rBuf /\ Regs(k, a, k2) /\ Acks(k2, a) = Acks(k, a)
           /\ Started(Ent(k, a), Ent(k2, a)) /\ Rts(k2, a) = Rts(k, a)
<1>1. PICK x : x = [Ent(k, a) EXCEPT ![1].inProgress = TRUE]
  OBVIOUS
<1>2. PICK S : Ent(k, a) \in Seq(S)
  BY EntLen DEF IsSeq
<1>3. PICK e : e = [Ent(k, a)[1] EXCEPT !.inProgress = TRUE]
  OBVIOUS
<1>4. x = [Ent(k, a) EXCEPT ![1] = e]
  BY <1>1, <1>3
<1>5. x \in Seq(S \cup {e}) /\ Len(x) = Len(Ent(k, a)) /\ x[1] = e /\ \A i \in Ix(Ent(k, a)) : i # 1 => x[i] = Ent(k, a)[i]
  BY <1>2, <1>4 DEF Ix
<1>6. IsSeq(x)
  BY <1>5 DEF IsSeq
<1>7. PICK m : m = setInProgress(k.mshr, a)
  OBVIOUS
<1>8. {"reg", "size"} \subseteq DOMAIN m /\ m.reg = [k.mshr.reg EXCEPT ![a].entries = x] /\ k2 = [k EXCEPT !.mshr = m]
  BY <1>1, <1>7 DEF setInProgress, Ctl, Ent
<1>9. /\ Ctl(k2) /\ Frame(k, k2) /\ k2.rBuf = k.rBuf /\ Regs(k, a, k2)
      /\ Ent(k2, a) = x /\ Acks(k2, a) = Acks(k, a) /\ Rts(k2, a) = Rts(k, a)
  BY <1>6, <1>8, SetEntries
<1>10. e.inProgress = TRUE /\ e.type = Ent(k, a)[1].type /\ e.ev = Ent(k, a)[1].ev /\ DOMAIN e = DOMAIN Ent(k, a)[1]
  BY <1>3
<1>11. QED BY <1>5, <1>6, <1>9, <1>10 DEF Ix, Started

En(k) == [a \in Addrs |-> k.mshr.reg[a].entries]
(* The absent lines. *)
No(k) == {a \in Addrs : k.line[a].st = NoLine}

(* The entries as a function. *)
LEMMA EnIs == ASSUME NEW k, NEW a \in Addrs PROVE En(k)[a] = Ent(k, a)
BY DEF En, Ent

(* What insertEviction does. *)
LEMMA EvictionIs ==
    ASSUME NEW k, Ctl(k), EntryOK(En(k)), NEW v \in Addrs, NEW new, NEW k2, k2 = [k EXCEPT !.mshr = insertEviction(@, v, new)]
    PROVE  /\ Ctl(k2) /\ Frame(k, k2) /\ k2.rBuf = k.rBuf /\ Regs(k, v, k2) /\ Acks(k2, v) = Acks(k, v) /\ Rts(k2, v) = Rts(k, v)
           /\ NewEvict(Ent(k, v), Ent(k2, v), new) \/ JoinEvict(Ent(k, v), Ent(k2, v), new)
           /\ 1 \in Ix(Ent(k2, v))
<1>1. PICK es : es = Ent(k, v)
  OBVIOUS
<1>2. PICK n : n = Len(es)
  OBVIOUS
<1>0. IsSeq(es) /\ n \in Nat /\ (es # <<>> => n \in Ix(es) /\ 1 \in Ix(es))
  BY <1>1, <1>2, EntLen DEF Ix
<1>3. PICK m : m = insertEviction(k.mshr, v, new)
  OBVIOUS
<1>4. k2 = [k EXCEPT !.mshr = m]
  BY <1>3 DEF Ctl
<1>5. CASE es # <<>> /\ es[n].type = "Evict"
  <2>1. PICK p : p = Append(es[n].ptrs, new)
    OBVIOUS
  <2>2. IsSeq(es[n].ptrs) /\ {"type", "ptrs"} \subseteq DOMAIN es[n]
    <3>1. EntryAt(En(k)[v][n], v, n)
      BY <1>0, <1>1, <1>5, EnIs DEF EntryOK
    <3>2. QED BY <1>1, <1>5, <3>1, EnIs DEF EntryAt
  <2>3. Ext(es[n].ptrs, new, p)
    BY <2>1, <2>2, SeqAppend
  <2>4. PICK e : e = [es[n] EXCEPT !.ptrs = p]
    OBVIOUS
  <2>5. e.type = "Evict" /\ e.ptrs = p /\ {"type", "ptrs"} \subseteq DOMAIN e
    BY <1>5, <2>2, <2>4
  <2>6. PICK S : es \in Seq(S)
    BY <1>0 DEF IsSeq
  <2>7. PICK x : x = [es EXCEPT ![n] = e]
    OBVIOUS
  <2>8. x \in Seq(S \cup {e}) /\ Len(x) = n /\ x[n] = e /\ \A i \in Ix(es) : i # n => x[i] = es[i]
    BY <1>0, <1>2, <1>5, <2>6, <2>7 DEF Ix
  <2>9. IsSeq(x)
    BY <2>8 DEF IsSeq
  <2>10. {"reg", "size"} \subseteq DOMAIN m /\ m.reg = [k.mshr.reg EXCEPT ![v].entries = x]
    <3>1. x = [es EXCEPT ![n].ptrs = Append(@, new)]
      BY <2>1, <2>4, <2>7
    <3>2. m = [k.mshr EXCEPT !.reg[v].entries = x]
      BY <1>1, <1>2, <1>3, <1>5, <3>1 DEF insertEviction, Ent
    <3>3. QED BY <3>2 DEF Ctl
  <2>11. /\ Ctl(k2) /\ Frame(k, k2) /\ k2.rBuf = k.rBuf /\ Regs(k, v, k2)
         /\ Ent(k2, v) = x /\ Acks(k2, v) = Acks(k, v) /\ Rts(k2, v) = Rts(k, v)
    BY <1>4, <2>9, <2>10, SetEntries
  <2>12. JoinEvict(es, x, new)
    BY <1>0, <1>2, <1>5, <2>3, <2>5, <2>8, <2>9 DEF JoinEvict, Ix
  <2>13. QED BY <1>0, <1>1, <1>2, <1>5, <2>8, <2>11, <2>12 DEF Ix
<1>6. CASE ~(es # <<>> /\ es[n].type = "Evict")
  <2>1. PICK x : x = Append(es, EvictEntry(new))
    OBVIOUS
  <2>2. Ext(es, EvictEntry(new), x)
    BY <1>0, <2>1, SeqAppend
  <2>3. {"reg", "size"} \subseteq DOMAIN m /\ m.reg = [k.mshr.reg EXCEPT ![v].entries = x]
    <3>1. m = [k.mshr EXCEPT !.reg[v].entries = x]
      BY <1>1, <1>2, <1>3, <1>6, <2>1 DEF insertEviction, Ent
    <3>2. QED BY <3>1 DEF Ctl
  <2>4. /\ Ctl(k2) /\ Frame(k, k2) /\ k2.rBuf = k.rBuf /\ Regs(k, v, k2)
        /\ Ent(k2, v) = x /\ Acks(k2, v) = Acks(k, v) /\ Rts(k2, v) = Rts(k, v)
    BY <1>4, <2>2, <2>3, SetEntries DEF Ext
  <2>5. NewEvict(es, x, new)
    <3>1. PICK e : e = EvictEntry(new)
      OBVIOUS
    <3>2. e.type = "Evict" /\ e.ptrs = <<new>> /\ {"type", "ptrs"} \subseteq DOMAIN e
      BY <3>1 DEF EvictEntry
    <3>3. IsSeq(e.ptrs) /\ Ix(e.ptrs) = {1} /\ e.ptrs[1] = new
      BY <3>2, SeqOne DEF Ix
    <3>4. QED BY <2>2, <3>1, <3>2, <3>3 DEF NewEvict
  <2>6. 1 \in Ix(x)
    BY <1>0, <1>2, <2>2 DEF Ext, Ix
  <2>7. QED BY <1>1, <2>4, <2>5, <2>6
<1>7. QED BY <1>5, <1>6

(* What the MSHR's questions about the front return. *)
LEMMA FrontIs ==
    ASSUME NEW k, Ctl(k), NEW a \in Addrs, 1 \in Ix(Ent(k, a))
    PROVE  /\ exists(k.mshr, a) /\ getFrontType(k.mshr, a) = Ent(k, a)[1].type
           /\ getFrontEvent(k.mshr, a) = Ent(k, a)[1].ev
           /\ Ent(k, a)[1].type # "Writeback" => ~pendingWriteback(k.mshr, a) /\ evictIndex(k.mshr, a) = 1
                                                 /\ getEvictPointers(k.mshr, a) = Ent(k, a)[1].ptrs
<1>1. Ent(k, a) # <<>> /\ Head(Ent(k, a)) = Ent(k, a)[1]
  BY EntLen
<1>2. NoReg.entries = <<>>
  BY DEF NoReg
<1>3. exists(k.mshr, a)
  BY <1>1, <1>2 DEF exists, Ent
<1>4. QED BY <1>1, <1>3 DEF getFrontType, getFrontEvent, pendingWriteback, evictIndex, getEvictPointers, Ent

(* What removeEvictPointer does. *)
LEMMA DropIs ==
    ASSUME NEW k, Ctl(k), NEW old \in Addrs, NEW new, 1 \in Ix(Ent(k, old)), Ent(k, old)[1].type = "Evict",
           EntryAt(Ent(k, old)[1], old, 1), NoTwice(Ent(k, old)[1].ptrs),
           NEW k2, k2 = [k EXCEPT !.mshr = removeEvictPointer(@, old, new)]
    PROVE  /\ Ctl(k2) /\ Frame(k, k2) /\ k2.rBuf = k.rBuf /\ Regs(k, old, k2)
           /\ Erased(k, old, k2)
           /\ IF lastPointer(k.mshr, old, new) THEN DropLast(Ent(k, old), Ent(k2, old), new)
              ELSE DropSome(Ent(k, old), Ent(k2, old), new)
<1>1. PICK es, ps, w : es = Ent(k, old) /\ ps = es[1].ptrs /\ w = listRemove(ps, new)
  OBVIOUS
<1>2. ~pendingWriteback(k.mshr, old) /\ evictIndex(k.mshr, old) = 1 /\ getEvictPointers(k.mshr, old) = ps
  BY <1>1, FrontIs
<1>3. pointersWithout(k.mshr, old, new) = w /\ (lastPointer(k.mshr, old, new) <=> w = <<>>)
  BY <1>1, <1>2 DEF pointersWithout, lastPointer
<1>4. EntryAt(es[1], old, 1)
  BY <1>1
<1>5. IsSeq(ps) /\ {"type", "ptrs"} \subseteq DOMAIN es[1]
  BY <1>1, <1>4 DEF EntryAt
<1>6. NoTwice(ps)
  BY <1>1
<1>7. Kept(ps, new, Len(ps), w)
  BY <1>1, <1>5, <1>6, WithoutIs
<1>8. PICK m : m = removeEvictPointer(k.mshr, old, new)
  OBVIOUS
<1>9. k2 = [k EXCEPT !.mshr = m]
  BY <1>8 DEF Ctl
<1>10. CASE w # <<>>
  <2>1. m = [k.mshr EXCEPT !.reg[old].entries[1].ptrs = w]
    BY <1>2, <1>3, <1>8, <1>10 DEF removeEvictPointer
  <2>2. PICK e : e = [es[1] EXCEPT !.ptrs = w]
    OBVIOUS
  <2>3. e.type = "Evict" /\ e.ptrs = w /\ {"type", "ptrs"} \subseteq DOMAIN e
    BY <1>1, <1>5, <2>2
  <2>4. IsSeq(es)
    BY <1>1, EntLen
  <2>5. PICK S : es \in Seq(S)
    BY <2>4 DEF IsSeq
  <2>6. PICK x : x = [es EXCEPT ![1] = e]
    OBVIOUS
  <2>7. x \in Seq(S \cup {e}) /\ Len(x) = Len(es) /\ x[1] = e /\ \A i \in Ix(es) : i # 1 => x[i] = es[i]
    BY <1>1, <2>5, <2>6 DEF Ix
  <2>8. IsSeq(x)
    BY <2>7 DEF IsSeq
  <2>9. {"reg", "size"} \subseteq DOMAIN m /\ m.reg = [k.mshr.reg EXCEPT ![old].entries = x]
    <3>1. x = [es EXCEPT ![1].ptrs = w]
      BY <2>2, <2>6
    <3>2. QED BY <1>1, <2>1, <3>1 DEF Ctl, Ent
  <2>10. /\ Ctl(k2) /\ Frame(k, k2) /\ k2.rBuf = k.rBuf /\ Regs(k, old, k2)
         /\ Ent(k2, old) = x /\ Acks(k2, old) = Acks(k, old) /\ Rts(k2, old) = Rts(k, old)
    BY <1>9, <2>8, <2>9, SetEntries
  <2>11. DropSome(es, x, new)
    BY <1>1, <1>7, <2>3, <2>7, <2>8 DEF DropSome, Ix
  <2>12. Ix(x) = Ix(es) /\ 1 \in Ix(x)
    BY <1>1, <2>7 DEF Ix
  <2>13. x # <<>>
    BY <2>10, <2>12, EntLen
  <2>14. QED BY <1>1, <1>3, <1>10, <2>10, <2>11, <2>13 DEF Erased
<1>11. CASE w = <<>>
  <2>1. m = removeFront(k.mshr, old)
    BY <1>2, <1>3, <1>8, <1>11 DEF removeEvictPointer
  <2>2. k2 = [k EXCEPT !.mshr = removeFront(@, old)]
    BY <1>9, <2>1 DEF Ctl
  <2>3. /\ Ctl(k2) /\ Frame(k, k2) /\ k2.rBuf = k.rBuf /\ Regs(k, old, k2)
        /\ Cut(Ent(k, old), Ent(k2, old)) /\ Erased(k, old, k2)
    BY <2>2, PopIs
  <2>4. \A j \in Ix(ps) : ps[j] = new
    BY <1>5, <1>7, <1>11, SeqEmpty, SeqLen DEF Kept, Ix
  <2>5. DropLast(Ent(k, old), Ent(k2, old), new)
    BY <1>1, <2>3, <2>4 DEF DropLast
  <2>6. QED BY <1>3, <1>11, <2>3, <2>5
<1>12. QED BY <1>10, <1>11

(* A register without entries has no counts. *)
NoRegOK(k) == \A a \in Addrs : Ent(k, a) = <<>> => k.mshr.reg[a] = NoReg
(* What entered the retry buffer in this cycle is an address of this       *)
(* cycle, or an absent line.                                               *)
DoneOK(k)  == \A i \in Ix(k.rBuf) : \/ k.rBuf[i].addr \in k.done
                                    \/ k.rBuf[i].cmd # "NULLCMD" /\ k.rBuf[i].addr \in No(k)
(* The pending-retry counter counts. *)
CountOK(k) == \A a \in Addrs : Rts(k, a) \in {0, 1} /\ (Pend(Retries(k), a) <=> Rts(k, a) = 1)
(* The invariant of a controller's MSHR and retry buffers, whatever the    *)
(* protocol.                                                               *)
KK(k) == Ctl(k) /\ KI(Retries(k), En(k), No(k)) /\ NoRegOK(k) /\ DoneOK(k) /\ CountOK(k)
Handed(k, a) == Hand(Retries(k), En(k), a)
Calm(k, k2) == Frame(k, k2) /\ \A a \in Addrs : Ent(k2, a) = Ent(k, a) /\ Acks(k2, a) = Acks(k, a)
SamePoints(k, k2) == \A b : Pointed(En(k2), b) <=> Pointed(En(k), b)

(* A retried event is at the front. *)
LEMMA PendFront == ASSUME NEW q, NEW E, NEW N, KI(q, E, N), NEW a, Pend(q, a) PROVE a \in Addrs /\ FrontEv(E, a)
BY DEF KI, RetriesFront, Pend

(* The counters are left alone. *)
LEMMA SameCount ==
    ASSUME NEW k, CountOK(k), NEW k2, \A b \in Addrs : Rts(k2, b) = Rts(k, b), \A b \in Addrs : Pend(Retries(k2), b) <=> Pend(Retries(k), b)
    PROVE  CountOK(k2)
BY DEF CountOK

(* The counters of other registers are left alone. *)
LEMMA RegsRts == ASSUME NEW k, NEW a, NEW k2, Regs(k, a, k2), Rts(k2, a) = Rts(k, a) PROVE \A b \in Addrs : Rts(k2, b) = Rts(k, b)
BY DEF Regs, Rts

(* The counters go with the last entry. *)
LEMMA ErasedCount ==
    ASSUME NEW k, CountOK(k), NEW a, NEW k2, Regs(k, a, k2), Erased(k, a, k2), ~Pend(Retries(k), a),
           \A b \in Addrs : Pend(Retries(k2), b) <=> Pend(Retries(k), b)
    PROVE  CountOK(k2)
<1>1. \A b \in Addrs : b # a => Rts(k2, b) = Rts(k, b)
  BY DEF Regs, Rts
<1>2. Rts(k2, a) = Rts(k, a) \/ Rts(k2, a) = 0
  BY DEF Erased, Rts, NoReg
<1>3. QED BY <1>1, <1>2 DEF CountOK

(* The entries of other registers are left alone. *)
LEMMA RegsEn == ASSUME NEW k, NEW a, NEW k2, Regs(k, a, k2) PROVE SameBut(En(k), a, En(k2))
BY DEF Regs, SameBut, En

(* insertEvent keeps the invariant. *)
LEMMA KKInsert ==
    ASSUME NEW k, KK(k), NEW a \in Addrs, NEW ev, ev.addr = a, ev.cmd # "NULLCMD",
           NEW k2, k2 = [k EXCEPT !.mshr = insertEvent(@, a, ev)]
    PROVE  /\ KK(k2) /\ Frame(k, k2) /\ k2.rBuf = k.rBuf /\ Retries(k2) = Retries(k) /\ Regs(k, a, k2)
           /\ Ext(Ent(k, a), EventEntry(ev), Ent(k2, a)) /\ Acks(k2, a) = Acks(k, a) /\ SamePoints(k, k2)
<1>1. /\ Ctl(k2) /\ Frame(k, k2) /\ k2.rBuf = k.rBuf /\ Regs(k, a, k2)
      /\ Ext(Ent(k, a), EventEntry(ev), Ent(k2, a)) /\ Acks(k2, a) = Acks(k, a) /\ Rts(k2, a) = Rts(k, a)
  BY InsertIs DEF KK
<1>2. Retries(k2) = Retries(k) /\ No(k2) = No(k)
  BY <1>1 DEF Retries, Frame, No
<1>3. PICK e : e = EventEntry(ev)
  OBVIOUS
<1>4. e.type = "Event" /\ e.inProgress = FALSE /\ e.ev = ev /\ {"type", "ev", "inProgress"} \subseteq DOMAIN e
  BY <1>3 DEF EventEntry
<1>5. Ext(En(k)[a], e, En(k2)[a]) /\ SameBut(En(k), a, En(k2))
  BY <1>1, <1>3, EnIs, RegsEn
<1>6. KI(Retries(k), En(k2), No(k)) /\ SamePoints(k, k2)
  BY <1>4, <1>5, KInsert DEF KK, SamePoints
<1>7. NoRegOK(k2)
  <2>1. Ent(k2, a) # <<>>
    BY <1>1, EntLen DEF Ext, Ix
  <2>2. QED BY <1>1, <2>1 DEF NoRegOK, KK, Regs, Ent
<1>8. DoneOK(k2)
  BY <1>1, <1>2 DEF KK, DoneOK, Frame
<1>10. CountOK(k2)
  BY <1>1, <1>2, RegsRts, SameCount DEF KK
<1>9. QED BY <1>1, <1>2, <1>6, <1>7, <1>8, <1>10 DEF KK

(* setInProgress keeps the invariant. *)
LEMMA KKProgress ==
    ASSUME NEW k, KK(k), NEW a, Handed(k, a), FrontEv(En(k), a), NEW k2, k2 = [k EXCEPT !.mshr = setInProgress(@, a)]
    PROVE  /\ KK(k2) /\ Frame(k, k2) /\ k2.rBuf = k.rBuf /\ Retries(k2) = Retries(k) /\ Regs(k, a, k2) /\ Acks(k2, a) = Acks(k, a)
           /\ Started(Ent(k, a), Ent(k2, a)) /\ SamePoints(k, k2)
<1>0. a \in Addrs /\ ~Pointed(En(k), a) /\ En(k)[a] = Ent(k, a) /\ Ctl(k)
  BY EnIs DEF Handed, Hand, KK
<1>f. 1 \in Ix(Ent(k, a)) /\ Ent(k, a)[1].type = "Event"
  BY <1>0 DEF FrontEv
<1>d. {"type", "ev", "inProgress"} \subseteq DOMAIN Ent(k, a)[1]
  <2>1. EntryAt(Ent(k, a)[1], a, 1)
    BY <1>0, <1>f DEF KK, KI, EntryOK
  <2>2. QED BY <1>f, <2>1 DEF EntryAt
<1>1. /\ Ctl(k2) /\ Frame(k, k2) /\ k2.rBuf = k.rBuf /\ Regs(k, a, k2) /\ Acks(k2, a) = Acks(k, a)
      /\ Started(Ent(k, a), Ent(k2, a)) /\ Rts(k2, a) = Rts(k, a)
  BY <1>0, <1>f, <1>d, ProgressIs
<1>2. Retries(k2) = Retries(k) /\ No(k2) = No(k) /\ SameBut(En(k), a, En(k2)) /\ En(k2)[a] = Ent(k2, a)
  BY <1>0, <1>1, EnIs, RegsEn DEF Retries, Frame, No
<1>6. KI(Retries(k), En(k2), No(k)) /\ SamePoints(k, k2)
  BY <1>0, <1>f, <1>1, <1>2, KProgress DEF KK, SamePoints, Started
<1>7. NoRegOK(k2)
  <2>1. Ent(k2, a) # <<>>
    BY <1>0, <1>1, <1>f, EntLen DEF Started
  <2>2. QED BY <1>1, <2>1 DEF NoRegOK, KK, Regs, Ent
<1>8. DoneOK(k2)
  BY <1>1, <1>2 DEF KK, DoneOK, Frame
<1>10. CountOK(k2)
  BY <1>1, <1>2, RegsRts, SameCount DEF KK
<1>9. QED BY <1>1, <1>2, <1>f, <1>6, <1>7, <1>8, <1>10 DEF KK

(* removeFront keeps the invariant. *)
LEMMA KKPop ==
    ASSUME NEW k, KK(k), NEW a, Handed(k, a), FrontEv(En(k), a), NEW k2, k2 = [k EXCEPT !.mshr = removeFront(@, a)]
    PROVE  /\ KK(k2) /\ Handed(k2, a) /\ Frame(k, k2) /\ k2.rBuf = k.rBuf /\ Retries(k2) = Retries(k) /\ Regs(k, a, k2)
           /\ Cut(Ent(k, a), Ent(k2, a)) /\ Erased(k, a, k2) /\ SamePoints(k, k2)
<1>0. a \in Addrs /\ En(k)[a] = Ent(k, a) /\ Ctl(k) /\ 1 \in Ix(Ent(k, a))
  BY EnIs DEF Handed, Hand, KK, FrontEv
<1>1. /\ Ctl(k2) /\ Frame(k, k2) /\ k2.rBuf = k.rBuf /\ Regs(k, a, k2)
      /\ Cut(Ent(k, a), Ent(k2, a)) /\ Erased(k, a, k2)
  BY <1>0, PopIs
<1>2. Retries(k2) = Retries(k) /\ No(k2) = No(k) /\ SameBut(En(k), a, En(k2)) /\ En(k2)[a] = Ent(k2, a)
  BY <1>0, <1>1, EnIs, RegsEn DEF Retries, Frame, No
<1>6. KI(Retries(k), En(k2), No(k)) /\ Hand(Retries(k), En(k2), a) /\ SamePoints(k, k2)
  BY <1>0, <1>1, <1>2, KPop DEF KK, SamePoints, Handed
<1>7. NoRegOK(k2)
  BY <1>1 DEF NoRegOK, KK, Regs, Ent, Erased
<1>8. DoneOK(k2)
  BY <1>1, <1>2 DEF KK, DoneOK, Frame
<1>10. CountOK(k2)
  BY <1>0, <1>1, <1>2, <1>6, ErasedCount DEF KK, Hand
<1>9. QED BY <1>1, <1>2, <1>6, <1>7, <1>8, <1>10 DEF KK, Handed

(* Retries are added to rBuf. *)
LEMMA KKWoken ==
    ASSUME NEW k, KK(k), NEW k2, Ctl(k2), Calm(k, k2), KI(Retries(k2), En(k2), No(k2)), CountOK(k2),
           \A i \in Ix(k2.rBuf) : \/ i \in Ix(k.rBuf) /\ k2.rBuf[i] = k.rBuf[i]
                                  \/ k2.rBuf[i].addr \in k.done
                                  \/ k2.rBuf[i].cmd # "NULLCMD" /\ k2.rBuf[i].addr \in No(k),
           \A a \in Addrs : Ent(k, a) = <<>> => k2.mshr.reg[a] = k.mshr.reg[a]
    PROVE  KK(k2)
<1>1. NoRegOK(k2)
  BY DEF KK, NoRegOK, Calm
<1>2. No(k2) = No(k) /\ k2.done = k.done
  BY DEF No, Calm, Frame
<1>3. DoneOK(k2)
  BY <1>2 DEF KK, DoneOK
<1>4. QED BY <1>1, <1>3 DEF KK

(* Appending to the right part. *)
LEMMA JoinLast ==
    ASSUME NEW q, NEW p, NEW e, IsSeq(q), IsSeq(p) PROVE Ext(q \o p, e, q \o Append(p, e))
<1>0. PICK x, y, z : x = q \o p /\ y = Append(p, e) /\ z = q \o y
  OBVIOUS
<1>1. Ext(p, e, y) /\ Joined(q, p, x)
  BY <1>0, SeqAppend, SeqJoin
<1>2. Joined(q, y, z)
  BY <1>0, <1>1, SeqJoin DEF Ext
<1>3. Len(z) = Len(x) + 1 /\ Len(x) \in Nat /\ IsSeq(z) /\ Len(x) = Len(q) + Len(p) /\ Len(q) \in Nat /\ Len(p) \in Nat
  BY <1>1, <1>2 DEF Ext, Joined
<1>4. z[Len(x) + 1] = e
  <2>1. Len(p) + 1 \in 1 .. Len(y) /\ Len(q) + (Len(p) + 1) = Len(x) + 1
    BY <1>1, <1>3 DEF Ext
  <2>2. z[Len(q) + (Len(p) + 1)] = y[Len(p) + 1]
    BY <1>2, <2>1, JoinedRight
  <2>3. QED BY <1>1, <2>1, <2>2 DEF Ext
<1>5. ASSUME NEW i \in 1 .. Len(x) PROVE z[i] = x[i]
  <2>1. CASE i \in 1 .. Len(q)
    BY <1>1, <1>2, <2>1 DEF Joined
  <2>2. CASE i \notin 1 .. Len(q)
    <3>1. PICK j : j = i - Len(q)
      OBVIOUS
    <3>2. j \in 1 .. Len(p) /\ j \in 1 .. Len(y) /\ i = Len(q) + j
      BY <1>1, <1>3, <2>2, <3>1 DEF Ext
    <3>3. z[i] = y[j] /\ x[i] = p[j]
      BY <1>1, <1>2, <3>2, JoinedRight
    <3>4. QED BY <1>1, <3>2, <3>3 DEF Ext
  <2>3. QED BY <2>1, <2>2
<1>6. QED BY <1>0, <1>3, <1>4, <1>5 DEF Ext

(* Joining to the right part. *)
LEMMA JoinAssoc ==
    ASSUME NEW q, NEW p, NEW r, IsSeq(q), IsSeq(p), IsSeq(r) PROVE Joined(q \o p, r, q \o (p \o r))
<1>0. PICK x, y, z : x = q \o p /\ y = p \o r /\ z = q \o y
  OBVIOUS
<1>1. Joined(p, r, y) /\ Joined(q, p, x)
  BY <1>0, SeqJoin
<1>2. Joined(q, y, z)
  BY <1>0, <1>1, SeqJoin DEF Joined
<1>3. /\ Len(z) = Len(x) + Len(r) /\ Len(x) \in Nat /\ IsSeq(z) /\ Len(x) = Len(q) + Len(p) /\ Len(q) \in Nat
      /\ Len(p) \in Nat /\ Len(r) \in Nat /\ Len(y) = Len(p) + Len(r)
  BY <1>1, <1>2 DEF Joined
<1>4. ASSUME NEW i \in 1 .. Len(r) PROVE z[Len(x) + i] = r[i]
  <2>1. PICK j : j = Len(p) + i
    OBVIOUS
  <2>2. j \in 1 .. Len(y) /\ Len(q) + j = Len(x) + i
    BY <1>3, <2>1
  <2>3. z[Len(q) + j] = y[j]
    BY <1>2, <2>2, JoinedRight
  <2>4. y[j] = r[i]
    BY <1>1, <2>1, JoinedRight
  <2>5. QED BY <2>2, <2>3, <2>4
<1>5. ASSUME NEW i \in 1 .. Len(x) PROVE z[i] = x[i]
  <2>1. CASE i \in 1 .. Len(q)
    BY <1>1, <1>2, <2>1 DEF Joined
  <2>2. CASE i \notin 1 .. Len(q)
    <3>1. PICK j : j = i - Len(q)
      OBVIOUS
    <3>2. j \in 1 .. Len(p) /\ j \in 1 .. Len(y) /\ i = Len(q) + j
      BY <1>3, <2>2, <3>1
    <3>3. z[i] = y[j] /\ x[i] = p[j]
      BY <1>1, <1>2, <3>2, JoinedRight
    <3>4. QED BY <1>1, <3>2, <3>3 DEF Joined
  <2>3. QED BY <2>1, <2>2
<1>6. QED BY <1>0, <1>3, <1>4, <1>5 DEF Joined

(* What retrying the front event does. *)
LEMMA RetryEventIs ==
    ASSUME NEW k, Ctl(k), NEW a \in Addrs, 1 \in Ix(Ent(k, a)), NEW k2, k2 = RetryEvent(k, a)
    PROVE  /\ Ctl(k2) /\ Calm(k, k2) /\ Regs(k, a, k2) /\ k2.rBuf = Append(k.rBuf, Ent(k, a)[1].ev)
           /\ Rts(k2, a) = Rts(k, a) + 1
<1>1. PICK e, x, m : e = Ent(k, a)[1].ev /\ x = Append(k.rBuf, e) /\ m = addPendingRetry(k.mshr, a)
  OBVIOUS
<1>2. k2 = [k EXCEPT !.rBuf = x, !.mshr = m]
  BY <1>1, FrontIs DEF RetryEvent
<1>3. DOMAIN k2 = DOMAIN k /\ k2.rBuf = x /\ k2.mshr = m /\ k2.line = k.line /\ k2.retry = k.retry /\ k2.done = k.done
      /\ ("resp" \in DOMAIN k => k2.resp = k.resp)
  BY <1>2 DEF Ctl
<1>4. IsSeq(x)
  BY <1>1, SeqAppend DEF Ctl, Ext
<1>5. m.reg = [k.mshr.reg EXCEPT ![a].retries = @ + 1] /\ DOMAIN m = DOMAIN k.mshr
  BY <1>1 DEF addPendingRetry, Ctl
<1>6. /\ DOMAIN m.reg = DOMAIN k.mshr.reg /\ \A b \in Addrs : b # a => m.reg[b] = k.mshr.reg[b]
      /\ DOMAIN m.reg[a] = DOMAIN k.mshr.reg[a] /\ m.reg[a].entries = k.mshr.reg[a].entries /\ m.reg[a].acks = k.mshr.reg[a].acks
      /\ m.reg[a].retries = k.mshr.reg[a].retries + 1
  BY <1>5 DEF Ctl
<1>7. Ctl(k2)
  BY <1>3, <1>4, <1>5, <1>6 DEF Ctl
<1>8. Calm(k, k2) /\ Regs(k, a, k2) /\ Rts(k2, a) = Rts(k, a) + 1
  BY <1>3, <1>6 DEF Calm, Frame, Ent, Acks, Regs, Rts
<1>9. QED BY <1>1, <1>3, <1>7, <1>8

(* Entries and lines as before. *)
LEMMA CalmEn == ASSUME NEW k, NEW k2, Calm(k, k2) PROVE En(k2) = En(k) /\ No(k2) = No(k)
BY DEF Calm, En, Ent, No, Frame

(* A retry is counted. *)
LEMMA MoreCount ==
    ASSUME NEW k, CountOK(k), NEW a \in Addrs, NEW k2, Regs(k, a, k2), Rts(k2, a) = Rts(k, a) + 1,
           ~Pend(Retries(k), a), \A b : Pend(Retries(k2), b) <=> Pend(Retries(k), b) \/ b = a
    PROVE  CountOK(k2)
<1>1. \A b \in Addrs : b # a => Rts(k2, b) = Rts(k, b)
  BY DEF Regs, Rts
<1>2. Rts(k2, a) = 1 /\ Pend(Retries(k2), a)
  BY DEF CountOK
<1>3. QED BY <1>1, <1>2 DEF CountOK

(* Retrying the front event keeps the invariant. *)
LEMMA KKRetryEvent ==
    ASSUME NEW k, KK(k), NEW a \in Addrs, ~Pend(Retries(k), a), ~Pointed(En(k), a), FrontEv(En(k), a),
           a \in k.done \/ a \in No(k), NEW k2, k2 = RetryEvent(k, a)
    PROVE  /\ KK(k2) /\ Calm(k, k2)
           /\ \A b : (Pend(Retries(k2), b) => Pend(Retries(k), b) \/ b = a) /\ (Null(Retries(k2), b) => Null(Retries(k), b))
           /\ \A i \in Ix(Retries(k2)) : (i \in Ix(Retries(k)) /\ Retries(k2)[i] = Retries(k)[i]) \/ Retries(k2)[i].cmd # "NULLCMD"
<1>0. En(k)[a] = Ent(k, a) /\ Ctl(k) /\ 1 \in Ix(Ent(k, a)) /\ Ent(k, a)[1].type = "Event"
  BY EnIs DEF KK, FrontEv
<1>1. Ctl(k2) /\ Calm(k, k2) /\ Regs(k, a, k2) /\ k2.rBuf = Append(k.rBuf, Ent(k, a)[1].ev) /\ Rts(k2, a) = Rts(k, a) + 1
  BY <1>0, RetryEventIs
<1>2. PICK e : e = Ent(k, a)[1].ev
  OBVIOUS
<1>3. Ext(Retries(k), e, Retries(k2)) /\ Ext(k.rBuf, e, k2.rBuf)
  BY <1>0, <1>1, <1>2, JoinLast, SeqAppend DEF Retries, Ctl, Calm, Frame
<1>4. e.addr = a /\ e.cmd # "NULLCMD"
  <2>1. EntryAt(Ent(k, a)[1], a, 1)
    BY <1>0 DEF KK, KI, EntryOK
  <2>2. QED BY <1>0, <1>2, <2>1 DEF EntryAt
<1>5. KI(Retries(k2), En(k), No(k))
  BY <1>0, <1>2, <1>3, KRetry DEF KK
<1>6. KK(k2)
  <2>1. \A i \in Ix(k2.rBuf) : \/ i \in Ix(k.rBuf) /\ k2.rBuf[i] = k.rBuf[i]
                               \/ k2.rBuf[i].addr \in k.done
                               \/ k2.rBuf[i].cmd # "NULLCMD" /\ k2.rBuf[i].addr \in No(k)
    BY <1>3, <1>4, ExtIs
  <2>2. \A b \in Addrs : Ent(k, b) = <<>> => k2.mshr.reg[b] = k.mshr.reg[b]
    BY <1>0, <1>1, EntLen DEF Regs
  <2>3. KI(Retries(k2), En(k2), No(k2))
    BY <1>1, <1>5, CalmEn
  <2>5. CountOK(k2)
    <3>1. \A i \in Ix(Retries(k2)) : (i \in Ix(Retries(k)) /\ Retries(k2)[i] = Retries(k)[i]) \/ Retries(k2)[i] = e
      BY <1>3, ExtIs
    <3>2. ASSUME NEW b PROVE Pend(Retries(k2), b) <=> Pend(Retries(k), b) \/ b = a
      <4>1. \A i \in Ix(Retries(k)) : i \in Ix(Retries(k2)) /\ Retries(k2)[i] = Retries(k)[i]
        BY <1>3, ExtIs
      <4>2. \E i \in Ix(Retries(k2)) : Retries(k2)[i] = e
        BY <1>3, ExtIs
      <4>3. QED BY <1>4, <3>1, <4>1, <4>2 DEF Pend
    <3>3. QED BY <1>1, <3>2, MoreCount DEF KK
  <2>4. QED BY <1>1, <2>1, <2>2, <2>3, <2>5, KKWoken
<1>7. \A i \in Ix(Retries(k2)) : (i \in Ix(Retries(k)) /\ Retries(k2)[i] = Retries(k)[i]) \/ Retries(k2)[i] = e
  BY <1>3, ExtIs
<1>8. \A b : (Pend(Retries(k2), b) => Pend(Retries(k), b) \/ b = a) /\ (Null(Retries(k2), b) => Null(Retries(k), b))
  BY <1>4, <1>7 DEF Pend, Null
<1>9. QED BY <1>1, <1>4, <1>6, <1>7, <1>8

(* Retrying the events of an eviction keeps the invariant. *)
LEMMA KKRetryPointers ==
    ASSUME NEW k, KK(k), NEW a \in Addrs, ~Null(Retries(k), a), 1 \in Ix(Ent(k, a)), Ent(k, a)[1].type = "Evict",
           a \in k.done, NEW k2, k2 = RetryPointers(k, a)
    PROVE  /\ KK(k2) /\ Calm(k, k2) /\ \A b : Pend(Retries(k2), b) => Pend(Retries(k), b)
<1>0. Ctl(k) /\ En(k)[a] = Ent(k, a)
  BY EnIs DEF KK
<1>1. PICK ps : ps = Ent(k, a)[1].ptrs
  OBVIOUS
<1>2. IsSeq(ps)
  <2>1. EntryAt(Ent(k, a)[1], a, 1)
    BY <1>0 DEF KK, KI, EntryOK
  <2>2. QED BY <1>1, <2>1 DEF EntryAt
<1>3. getEvictPointers(k.mshr, a) = ps
  BY <1>0, <1>1, FrontIs
<1>4. PICK p : p = [i \in DOMAIN ps |-> NULLCMD(a, ps[i])]
  OBVIOUS
<1>5. IsSeq(p) /\ Ix(p) = Ix(ps) /\ \A i \in Ix(p) : p[i] = NULLCMD(a, ps[i])
  <2>1. PICK S : ps \in Seq(S)
    BY <1>2 DEF IsSeq
  <2>2. PICK S2 : S2 = {NULLCMD(a, x) : x \in S}
    OBVIOUS
  <2>3. \A i \in 1 .. Len(ps) : NULLCMD(a, ps[i]) \in S2
    BY <2>1, <2>2
  <2>4. p \in Seq(S2) /\ Len(p) = Len(ps) /\ \A i \in 1 .. Len(ps) : p[i] = NULLCMD(a, ps[i])
    BY <1>4, <2>1, <2>3
  <2>5. QED BY <2>4 DEF IsSeq, Ix
<1>6. \A i \in Ix(p) : p[i].cmd = "NULLCMD" /\ p[i].addr = a /\ p[i].new = ps[i]
  <2>1. ASSUME NEW x PROVE NULLCMD(a, x).cmd = "NULLCMD" /\ NULLCMD(a, x).addr = a /\ NULLCMD(a, x).new = x
    BY DEF NULLCMD
  <2>2. QED BY <1>5, <2>1
<1>7. PICK x : x = k.rBuf \o p
  OBVIOUS
<1>8. k2 = [k EXCEPT !.rBuf = x]
  BY <1>3, <1>4, <1>7 DEF RetryPointers
<1>9. Joined(k.rBuf, p, x)
  BY <1>0, <1>5, <1>7, SeqJoin DEF Ctl
<1>10. Ctl(k2) /\ Calm(k, k2) /\ k2.rBuf = x /\ k2.mshr = k.mshr
  BY <1>0, <1>8, <1>9 DEF Ctl, Calm, Frame, Ent, Acks, Joined
<1>11. Joined(Retries(k), p, Retries(k2))
  BY <1>0, <1>5, <1>7, <1>10, JoinAssoc DEF Retries, Ctl, Calm, Frame
<1>12. KI(Retries(k2), En(k), No(k))
  BY <1>0, <1>1, <1>5, <1>6, <1>11, KWake DEF KK
<1>13. ASSUME NEW q, NEW r, Joined(q, p, r), NEW i \in Ix(r)
       PROVE  (i \in Ix(q) /\ r[i] = q[i]) \/ (r[i].addr = a /\ r[i].cmd = "NULLCMD")
  <2> SUFFICES ASSUME i \notin Ix(q) PROVE r[i].addr = a /\ r[i].cmd = "NULLCMD"
    BY <1>13 DEF Joined, Ix
  <2>1. PICK j : j = i - Len(q)
    OBVIOUS
  <2>2. j \in Ix(p) /\ i = Len(q) + j
    BY <1>13, <2>1 DEF Joined, Ix
  <2>3. r[i] = p[j]
    BY <1>13, <2>2, JoinedRight DEF Ix
  <2>4. QED BY <1>6, <2>2, <2>3
<1>15. ASSUME NEW b PROVE Pend(Retries(k2), b) <=> Pend(Retries(k), b)
  <2>1. \A i \in Ix(Retries(k)) : i \in Ix(Retries(k2)) /\ Retries(k2)[i] = Retries(k)[i]
    BY <1>11 DEF Joined, Ix
  <2>2. QED BY <1>11, <1>13, <2>1 DEF Pend
<1>14. KK(k2)
  <2>1. \A i \in Ix(k2.rBuf) : (i \in Ix(k.rBuf) /\ k2.rBuf[i] = k.rBuf[i]) \/ k2.rBuf[i].addr \in k.done
    BY <1>9, <1>10, <1>13
  <2>2. KI(Retries(k2), En(k2), No(k2))
    BY <1>10, <1>12, CalmEn
  <2>4. CountOK(k2)
    BY <1>10, <1>15, SameCount DEF KK, Rts
  <2>3. QED BY <1>10, <2>1, <2>2, <2>4, KKWoken
<1>16. QED BY <1>10, <1>14, <1>15

(* What the MSHR's questions return in a state of the invariant. *)
LEMMA ExistsIs ==
    ASSUME NEW k, KK(k), NEW a \in Addrs
    PROVE  /\ exists(k.mshr, a) <=> 1 \in Ix(Ent(k, a))
           /\ 1 \in Ix(Ent(k, a)) => Ent(k, a)[1].type \in {"Event", "Evict"} /\ ~pendingWriteback(k.mshr, a)
           /\ frontIsEvent(k.mshr, a) <=> FrontEv(En(k), a)
           /\ getInProgress(k.mshr, a) <=> FrontEv(En(k), a) /\ Ent(k, a)[1].inProgress
<1>0. Ctl(k) /\ En(k)[a] = Ent(k, a)
  BY EnIs DEF KK
<1>1. CASE 1 \in Ix(Ent(k, a))
  <2>1. EntryAt(Ent(k, a)[1], a, 1) /\ Head(Ent(k, a)) = Ent(k, a)[1]
    BY <1>0, <1>1, EntLen DEF KK, KI, EntryOK
  <2>2. Ent(k, a)[1].type \in {"Event", "Evict"}
    BY <2>1 DEF EntryAt
  <2>3. exists(k.mshr, a) /\ getFrontType(k.mshr, a) = Ent(k, a)[1].type /\ ~pendingWriteback(k.mshr, a)
    BY <1>0, <1>1, <2>2, FrontIs
  <2>4. QED BY <1>0, <1>1, <2>1, <2>2, <2>3 DEF frontIsEvent, getInProgress, FrontEv, Ent
<1>2. CASE ~(1 \in Ix(Ent(k, a)))
  <2>1. ~exists(k.mshr, a)
    BY <1>0, <1>2, EntLen DEF KK, NoRegOK, exists
  <2>2. QED BY <1>0, <1>2, <2>1 DEF frontIsEvent, getInProgress, FrontEv
<1>3. QED BY <1>1, <1>2

(* Retrying whatever is at the front keeps the invariant. *)
LEMMA KKRetry ==
    ASSUME NEW k, KK(k), NEW a, Handed(k, a), a \in k.done, NEW k2, k2 = Retry(k, a)
    PROVE  /\ KK(k2) /\ Calm(k, k2)
           /\ \A b : Pend(Retries(k2), b) => Pend(Retries(k), b) \/ (b = a /\ FrontEv(En(k), a))
<1>0. a \in Addrs /\ ~Pend(Retries(k), a) /\ ~Null(Retries(k), a) /\ ~Pointed(En(k), a) /\ En(k)[a] = Ent(k, a) /\ Ctl(k)
  BY EnIs DEF Handed, Hand, KK
<1>1. CASE 1 \notin Ix(Ent(k, a))
  <2>1. k2 = k
    BY <1>0, <1>1, ExistsIs DEF Retry
  <2>2. Calm(k, k)
    BY DEF Calm, Frame
  <2>3. QED BY <2>1, <2>2
<1>2. CASE 1 \in Ix(Ent(k, a)) /\ Ent(k, a)[1].type = "Event"
  <2>1. k2 = RetryEvent(k, a)
    BY <1>0, <1>2, ExistsIs, FrontIs DEF Retry
  <2>2. FrontEv(En(k), a)
    BY <1>0, <1>2 DEF FrontEv
  <2>3. QED BY <1>0, <2>1, <2>2, KKRetryEvent
<1>3. CASE 1 \in Ix(Ent(k, a)) /\ Ent(k, a)[1].type = "Evict"
  <2>1. k2 = RetryPointers(k, a)
    BY <1>0, <1>3, ExistsIs, FrontIs DEF Retry
  <2>2. QED BY <1>0, <1>3, <2>1, KKRetryPointers
<1>4. QED BY <1>0, <1>1, <1>2, <1>3, ExistsIs

(* Replay retries a front event only if it is not in progress. *)
LEMMA KKReplay ==
    ASSUME NEW k, KK(k), NEW a, Handed(k, a), a \in k.done, NEW k2, k2 = Replay(k, a)
    PROVE  /\ KK(k2) /\ Calm(k, k2)
           /\ \A b : Pend(Retries(k2), b) => Pend(Retries(k), b) \/ (b = a /\ FrontEv(En(k), a) /\ ~Ent(k, a)[1].inProgress)
<1>1. CASE k2 = k
  <2>2. Calm(k, k)
    BY DEF Calm, Frame
  <2>3. QED BY <1>1, <2>2
<1>2. CASE k2 # k
  <2>1. k2 = Retry(k, a) /\ ~getInProgress(k.mshr, a)
    BY <1>2 DEF Replay
  <2>2. /\ KK(k2) /\ Calm(k, k2)
        /\ \A b : Pend(Retries(k2), b) => Pend(Retries(k), b) \/ (b = a /\ FrontEv(En(k), a))
    BY <2>1, KKRetry
  <2>3. FrontEv(En(k), a) => ~Ent(k, a)[1].inProgress
    BY <2>1, ExistsIs DEF Handed, Hand
  <2>4. QED BY <2>2, <2>3
<1>3. QED BY <1>1, <1>2

(* Lines and entries stay; retries and the cycle may move on. *)
Alike(k, k2) ==
    /\ DOMAIN k2 = DOMAIN k /\ k2.line = k.line /\ ("resp" \in DOMAIN k => k2.resp = k.resp)
    /\ \A a \in Addrs : Ent(k2, a) = Ent(k, a) /\ Acks(k2, a) = Acks(k, a)

(* Entries and lines as before. *)
LEMMA AlikeEn == ASSUME NEW k, NEW k2, Alike(k, k2) PROVE En(k2) = En(k) /\ No(k2) = No(k)
BY DEF Alike, En, Ent, No

(* A special case. *)
LEMMA CalmAlike == ASSUME NEW k, NEW k2, Calm(k, k2) PROVE Alike(k, k2)
BY DEF Calm, Alike, Frame

(* Only lines, counters and the set resp change. *)
LEMMA KKSame ==
    ASSUME NEW k, KK(k), NEW k2, Ctl(k2), k2.retry = k.retry, k2.rBuf = k.rBuf, k2.done = k.done,
           \A b \in Addrs : Ent(k2, b) = Ent(k, b) /\ Rts(k2, b) = Rts(k, b),
           \A b \in Addrs : Ent(k, b) = <<>> => k2.mshr.reg[b] = k.mshr.reg[b],
           \A b \in No(k) : b \notin No(k2) => b \in k.done /\ ~Pointed(En(k), b)
    PROVE  KK(k2) /\ En(k2) = En(k) /\ Retries(k2) = Retries(k)
<1>1. En(k2) = En(k) /\ Retries(k2) = Retries(k)
  BY DEF En, Ent, Retries
<1>2. \A b : Pointed(En(k), b) /\ b \in No(k) => b \in No(k2)
  OBVIOUS
<1>3. KI(Retries(k), En(k), No(k2))
  BY <1>2, KLines DEF KK
<1>4. NoRegOK(k2)
  BY DEF KK, NoRegOK
<1>5. DoneOK(k2)
  BY DEF KK, DoneOK
<1>7. CountOK(k2)
  BY <1>1, SameCount DEF KK
<1>6. QED BY <1>1, <1>3, <1>4, <1>5, <1>7 DEF KK

(* The same without a register at v that has counters but no entry. *)
KKBut(k, v) == /\ Ctl(k) /\ KI(Retries(k), En(k), No(k)) /\ DoneOK(k) /\ CountOK(k)
               /\ \A a \in Addrs : a # v /\ Ent(k, a) = <<>> => k.mshr.reg[a] = NoReg

(* A special case. *)
LEMMA KKButIs == ASSUME NEW k, KK(k), NEW v PROVE KKBut(k, v)
BY DEF KK, KKBut, NoRegOK

(* A register gets counters before it has an entry. *)
LEMMA KKButSame ==
    ASSUME NEW k, KK(k), NEW v, NEW k2, Ctl(k2), k2.retry = k.retry, k2.rBuf = k.rBuf, k2.done = k.done,
           \A b \in Addrs : Ent(k2, b) = Ent(k, b) /\ Rts(k2, b) = Rts(k, b),
           \A b \in Addrs : b # v => k2.mshr.reg[b] = k.mshr.reg[b],
           No(k2) = No(k)
    PROVE  KKBut(k2, v) /\ En(k2) = En(k) /\ Retries(k2) = Retries(k)
<1>1. En(k2) = En(k) /\ Retries(k2) = Retries(k)
  BY DEF En, Ent, Retries
<1>4. \A a \in Addrs : a # v /\ Ent(k2, a) = <<>> => k2.mshr.reg[a] = NoReg
  BY DEF KK, NoRegOK
<1>5. DoneOK(k2)
  BY DEF KK, DoneOK
<1>7. CountOK(k2)
  BY <1>1, SameCount DEF KK
<1>6. QED BY <1>1, <1>4, <1>5, <1>7 DEF KK, KKBut

(* The events of a register stay, Evict entries come and go. *)
SameEvents(x, y) == /\ IsSeq(x) /\ IsSeq(y)
                    /\ \A i \in Ix(y) : y[i].type = "Event" => i \in Ix(x) /\ x[i] = y[i]
                    /\ \A i \in Ix(x) : x[i].type = "Event" => i \in Ix(y) /\ y[i] = x[i]
Evs(x, y) == SameEvents(x, y) \/ (IsSeq(x) /\ Cut(x, y) /\ x[1].type # "Event")

(* A new eviction leaves the events alone. *)
LEMMA NewEvents ==
    ASSUME NEW x, IsSeq(x), NEW y, NEW new, NewEvict(x, y, new) PROVE SameEvents(x, y)
BY ExtIs DEF NewEvict, SameEvents

(* A joined eviction leaves the events alone. *)
LEMMA JoinEvents ==
    ASSUME NEW x, IsSeq(x), NEW y, NEW new, JoinEvict(x, y, new) PROVE SameEvents(x, y)
BY DEF JoinEvict, SameEvents

(* A dropped pointer leaves the events alone. *)
LEMMA DropEvents ==
    ASSUME NEW x, IsSeq(x), NEW y, NEW new, x[1].type = "Evict", DropSome(x, y, new) PROVE SameEvents(x, y)
BY DEF DropSome, SameEvents

(* Nothing changed. *)
LEMMA EvsSelf == ASSUME NEW x, IsSeq(x) PROVE SameEvents(x, x) /\ Evs(x, x)
BY DEF SameEvents, Evs

(* insertEviction keeps the invariant. *)
LEMMA KKEvict ==
    ASSUME NEW k, NEW v \in Addrs, KKBut(k, v), NEW new, Waits(Retries(k), En(k), No(k), new), ~Pointed(En(k), new),
           NEW k2, k2 = [k EXCEPT !.mshr = insertEviction(@, v, new)]
    PROVE  /\ KK(k2) /\ Frame(k, k2) /\ k2.rBuf = k.rBuf /\ Retries(k2) = Retries(k) /\ Regs(k, v, k2)
           /\ Acks(k2, v) = Acks(k, v) /\ SameEvents(Ent(k, v), Ent(k2, v))
           /\ \A b : Pointed(En(k2), b) => Pointed(En(k), b) \/ b = new
<1>1. Ctl(k) /\ KI(Retries(k), En(k), No(k)) /\ DoneOK(k) /\ EntryOK(En(k))
  BY DEF KKBut, KI
<1>2. /\ Ctl(k2) /\ Frame(k, k2) /\ k2.rBuf = k.rBuf /\ Regs(k, v, k2) /\ Acks(k2, v) = Acks(k, v) /\ Rts(k2, v) = Rts(k, v)
      /\ NewEvict(Ent(k, v), Ent(k2, v), new) \/ JoinEvict(Ent(k, v), Ent(k2, v), new)
      /\ 1 \in Ix(Ent(k2, v))
  BY <1>1, EvictionIs
<1>3. Retries(k2) = Retries(k) /\ No(k2) = No(k) /\ SameBut(En(k), v, En(k2)) /\ En(k2)[v] = Ent(k2, v) /\ En(k)[v] = Ent(k, v)
  BY <1>2, RegsEn, EnIs DEF Frame, Retries, No
<1>4. IsSeq(Ent(k, v))
  BY <1>1, EntLen
<1>5. KI(Retries(k), En(k2), No(k)) /\ \A b : Pointed(En(k2), b) => Pointed(En(k), b) \/ b = new
  <2>1. CASE NewEvict(Ent(k, v), Ent(k2, v), new)
    BY <1>1, <1>3, <2>1, KEvictNew
  <2>2. CASE JoinEvict(Ent(k, v), Ent(k2, v), new)
    BY <1>1, <1>3, <2>2, KEvictJoin
  <2>3. QED BY <1>2, <2>1, <2>2
<1>6. SameEvents(Ent(k, v), Ent(k2, v))
  BY <1>2, <1>4, NewEvents, JoinEvents
<1>7. NoRegOK(k2)
  <2>1. Ent(k2, v) # <<>>
    BY <1>2, EntLen
  <2>2. QED BY <1>2, <2>1 DEF NoRegOK, KKBut, Regs, Ent
<1>8. DoneOK(k2)
  BY <1>1, <1>2, <1>3 DEF DoneOK, Frame
<1>10. CountOK(k2)
  BY <1>2, <1>3, RegsRts, SameCount DEF KKBut
<1>9. QED BY <1>2, <1>3, <1>5, <1>6, <1>7, <1>8, <1>10 DEF KK

(* The end of a step keeps the invariant. *)
LEMMA KKRest ==
    ASSUME NEW k, KK(k), NEW k2, k2 = Rest(k)
    PROVE  KK(k2) /\ Alike(k, k2) /\ Retries(k2) = Retries(k)
<1>0. CASE k2 = k
  BY <1>0 DEF Alike
<1>1. CASE k2 # k
  <2>1. k.retry = <<>> /\ k.rBuf = <<>> /\ k2 = [k EXCEPT !.done = {}]
    BY <1>1 DEF Rest
  <2>2. DOMAIN k2 = DOMAIN k /\ k2.line = k.line /\ k2.mshr = k.mshr /\ k2.retry = k.retry /\ k2.rBuf = k.rBuf
        /\ ("resp" \in DOMAIN k => k2.resp = k.resp)
    BY <2>1 DEF KK, Ctl
  <2>3. Alike(k, k2) /\ Retries(k2) = Retries(k) /\ En(k2) = En(k) /\ No(k2) = No(k)
    BY <2>2 DEF Alike, Ent, Acks, Retries, En, No
  <2>4. Ctl(k2)
    BY <2>2 DEF KK, Ctl
  <2>5. DoneOK(k2)
    BY <2>1, <2>2, SeqEmpty DEF DoneOK, Ix
  <2>6. NoRegOK(k2)
    BY <2>2 DEF KK, NoRegOK, Ent
  <2>8. CountOK(k2)
    BY <2>2, <2>3, SameCount DEF KK, Rts
  <2>7. QED BY <2>3, <2>4, <2>5, <2>6, <2>8 DEF KK
<1>2. QED BY <1>0, <1>1

(* A new cycle keeps the invariant. *)
LEMMA KKCycle ==
    ASSUME NEW k, KK(k), NEW k2 \in Cycles(k)
    PROVE  KK(k2) /\ Alike(k, k2) /\ Retries(k2) = Retries(k)
<1>0. CASE k2 = k
  BY <1>0 DEF Alike
<1>1. CASE k2 # k
  <2>0. PICK x : x = k.retry \o k.rBuf
    OBVIOUS
  <2>1. k2 = [k EXCEPT !.retry = x, !.rBuf = <<>>, !.done = {}]
    BY <1>1, <2>0 DEF Cycles, NewCycle, KK, Ctl
  <2>2. DOMAIN k2 = DOMAIN k /\ k2.line = k.line /\ k2.mshr = k.mshr /\ k2.retry = x /\ k2.rBuf = <<>>
        /\ ("resp" \in DOMAIN k => k2.resp = k.resp)
    BY <2>1 DEF KK, Ctl
  <2>3. IsSeq(x)
    BY <2>0, SeqJoin DEF KK, Ctl, Joined
  <2>4. x \o <<>> = x
    <3>1. PICK S : x \in Seq(S)
      BY <2>3 DEF IsSeq
    <3>2. QED BY <3>1
  <2>5. Alike(k, k2) /\ Retries(k2) = Retries(k) /\ En(k2) = En(k) /\ No(k2) = No(k)
    BY <2>0, <2>2, <2>4 DEF Alike, Ent, Acks, Retries, En, No
  <2>6. Ctl(k2)
    BY <2>2, <2>3, SeqEmpty DEF KK, Ctl
  <2>7. DoneOK(k2)
    BY <2>2, SeqEmpty DEF DoneOK, Ix
  <2>8. NoRegOK(k2)
    BY <2>2 DEF KK, NoRegOK, Ent
  <2>10. CountOK(k2)
    BY <2>2, <2>5, SameCount DEF KK, Rts
  <2>9. QED BY <2>5, <2>6, <2>7, <2>8, <2>10 DEF KK
<1>2. QED BY <1>0, <1>1

(* Two steps. *)
LEMMA AlikeTrans ==
    ASSUME NEW k, NEW k1, NEW k2, Alike(k, k1), Alike(k1, k2) PROVE Alike(k, k2)
BY DEF Alike

(* In the retries of k.retry and rBuf. *)
LEMMA JoinedIn ==
    ASSUME NEW q, NEW p, NEW r, Joined(q, p, r), NEW i \in Ix(r)
    PROVE  (i \in Ix(q) /\ r[i] = q[i]) \/ \E j \in Ix(p) : r[i] = p[j]
<1>2. Joined(q, p, r)
  OBVIOUS
<1>3. CASE i \in Ix(q)
  BY <1>2, <1>3 DEF Joined, Ix
<1>4. CASE i \notin Ix(q)
  <2>1. PICK j : j = i - Len(q)
    OBVIOUS
  <2>2. j \in Ix(p) /\ i = Len(q) + j
    BY <1>2, <1>4, <2>1 DEF Joined, Ix
  <2>3. r[i] = p[j]
    BY <1>2, <2>2, JoinedRight DEF Ix
  <2>4. QED BY <2>2, <2>3
<1>5. QED BY <1>3, <1>4

(* A new event for a: no NULLCMD waits for a, and an event only if its line is absent. *)
LEMMA KKAccess ==
    ASSUME NEW k0, KK(k0), NEW k \in Cycles(k0), NEW a \in Addrs, CanAccess(k, a), NEW k2, k2 = Access(k, a)
    PROVE  /\ KK(k2) /\ Alike(k0, k2) /\ Retries(k2) = Retries(k0) /\ a \in k2.done
           /\ ~Null(Retries(k2), a) /\ (Pend(Retries(k2), a) => a \in No(k2))
<1>0. KK(k) /\ Alike(k0, k) /\ Retries(k) = Retries(k0)
  BY KKCycle
<1>1. k2 = [k EXCEPT !.done = @ \cup {a}]
  BY DEF Access
<1>2. DOMAIN k2 = DOMAIN k /\ k2.line = k.line /\ k2.mshr = k.mshr /\ k2.retry = k.retry /\ k2.rBuf = k.rBuf
      /\ k2.done = k.done \cup {a} /\ ("resp" \in DOMAIN k => k2.resp = k.resp)
  BY <1>0, <1>1 DEF KK, Ctl
<1>3. Alike(k, k2) /\ Retries(k2) = Retries(k) /\ En(k2) = En(k) /\ No(k2) = No(k)
  BY <1>2 DEF Alike, Ent, Acks, Retries, En, No
<1>4. Ctl(k2)
  BY <1>0, <1>2 DEF KK, Ctl
<1>5. DoneOK(k2)
  BY <1>0, <1>2, <1>3 DEF KK, DoneOK
<1>6. NoRegOK(k2)
  BY <1>0, <1>2 DEF KK, NoRegOK, Ent
<1>c. CountOK(k2)
  BY <1>0, <1>2, <1>3, SameCount DEF KK, Rts
<1>7. KK(k2) /\ Alike(k0, k2) /\ Retries(k2) = Retries(k0)
  BY <1>0, <1>3, <1>4, <1>5, <1>6, <1>c, AlikeTrans DEF KK
<1>8. \A i \in Ix(k.retry) : k.retry[i].addr # a
  <2>1. PICK S : k.retry \in Seq(S)
    BY <1>0 DEF KK, Ctl, IsSeq
  <2>2. DOMAIN k.retry = Ix(k.retry)
    BY <2>1 DEF Ix
  <2>3. QED BY <2>2 DEF CanAccess, Ready
<1>9. \A i \in Ix(k.rBuf) : k.rBuf[i].addr = a => k.rBuf[i].cmd # "NULLCMD" /\ a \in No(k)
  BY <1>0 DEF KK, DoneOK, CanAccess
<1>10. \A i \in Ix(Retries(k)) : Retries(k)[i].addr = a => Retries(k)[i].cmd # "NULLCMD" /\ a \in No(k)
  <2> SUFFICES ASSUME NEW i \in Ix(Retries(k)), Retries(k)[i].addr = a PROVE Retries(k)[i].cmd # "NULLCMD" /\ a \in No(k)
    OBVIOUS
  <2>1. Joined(k.retry, k.rBuf, Retries(k))
    BY <1>0, SeqJoin DEF KK, Ctl, Retries
  <2>2. (i \in Ix(k.retry) /\ Retries(k)[i] = k.retry[i]) \/ \E j \in Ix(k.rBuf) : Retries(k)[i] = k.rBuf[j]
    BY <2>1, JoinedIn
  <2>3. QED BY <1>8, <1>9, <2>2
<1>11. QED BY <1>2, <1>3, <1>7, <1>10 DEF Null, Pend

(* A place is taken out of the left part. *)
LEMMA RemovedJoin ==
    ASSUME NEW q, NEW p, NEW n, NEW r, NEW x, NEW y, Removed(q, n, r), Joined(q, p, x), Joined(r, p, y)
    PROVE  Removed(x, n, y) /\ x[n] = q[n]
<1>2. Joined(q, p, x) /\ Joined(r, p, y)
  OBVIOUS
<1>3. Len(q) \in Nat /\ Len(p) \in Nat /\ n \in 1 .. Len(q) /\ Len(r) = Len(q) - 1 /\ Len(x) = Len(q) + Len(p)
      /\ Len(y) = Len(r) + Len(p) /\ IsSeq(y)
  BY <1>2 DEF Joined, Removed
<1>4. ASSUME NEW i \in 1 .. Len(y) PROVE y[i] = IF i < n THEN x[i] ELSE x[i + 1]
  <2>1. CASE i \in 1 .. Len(r)
    <3>1. y[i] = r[i] /\ r[i] = IF i < n THEN q[i] ELSE q[i + 1]
      BY <1>2, <2>1 DEF Joined, Removed
    <3>2. i \in 1 .. Len(q) /\ i + 1 \in 1 .. Len(q)
      BY <1>3, <2>1
    <3>3. x[i] = q[i] /\ x[i + 1] = q[i + 1]
      BY <1>2, <3>2 DEF Joined
    <3>4. QED BY <3>1, <3>3
  <2>2. CASE i \notin 1 .. Len(r)
    <3>1. PICK j : j = i - Len(r)
      OBVIOUS
    <3>2. j \in 1 .. Len(p) /\ i = Len(r) + j /\ i + 1 = Len(q) + j /\ ~(i < n)
      BY <1>3, <1>4, <2>2, <3>1
    <3>3. y[Len(r) + j] = p[j] /\ x[Len(q) + j] = p[j]
      BY <1>2, <3>2, JoinedRight
    <3>4. QED BY <3>2, <3>3
  <2>3. QED BY <2>1, <2>2
<1>5. x[n] = q[n]
  BY <1>2, <1>3 DEF Joined
<1>6. Removed(x, n, y)
  BY <1>3, <1>4 DEF Removed
<1>7. QED BY <1>5, <1>6

(* The retry that comes first is in the buffer. *)
LEMMA FirstReadyIs ==
    ASSUME NEW k, KK(k), Ready(k) # {} PROVE FirstReady(k) \in Ix(k.retry)
<1>1. PICK S : k.retry \in Seq(S)
  BY DEF KK, Ctl, IsSeq
<1>2. Ready(k) \subseteq Ix(k.retry) /\ Ix(k.retry) \subseteq Nat
  BY <1>1 DEF Ready, Ix
<1>3. \E i \in Ready(k) : \A j \in Ready(k) : i <= j
  <2>1. Ready(k) \in SUBSET Nat
    BY <1>2
  <2>2. QED BY <2>1, LeastNat
<1>4. FirstReady(k) \in Ready(k)
  BY <1>3 DEF FirstReady
<1>5. QED BY <1>2, <1>4

(* A retry is taken: its event may be handled, or its pointer followed. *)
LEMMA KKTake ==
    ASSUME NEW k0, KK(k0), NEW k \in Cycles(k0), Ready(k) # {}, NEW r, r = k.retry[FirstReady(k)],
           NEW k2, k2 = TakeRetry(k)
    PROVE  /\ KK(k2) /\ Alike(k0, k2) /\ r.addr \in k2.done /\ r.addr \in Addrs
           /\ \A b : Pend(Retries(k2), b) => Pend(Retries(k0), b)
           /\ r.cmd # "NULLCMD" => /\ Handed(k2, r.addr) /\ FrontEv(En(k2), r.addr) /\ Ent(k2, r.addr)[1].ev = r
                                   /\ Pend(Retries(k0), r.addr)
           /\ r.cmd = "NULLCMD" => /\ \E j : Points(En(k2), r.addr, 1, j, r.new)
                                   /\ Gone(Retries(k2), r.addr, r.new)
<1>0. KK(k) /\ Alike(k0, k) /\ Retries(k) = Retries(k0) /\ Ctl(k) /\ IsSeq(k.retry) /\ IsSeq(k.rBuf)
  BY KKCycle DEF KK, Ctl
<1>1. PICK n, q : n = FirstReady(k) /\ q = SubSeq(k.retry, 1, n - 1) \o SubSeq(k.retry, n + 1, Len(k.retry))
  OBVIOUS
<1>2. n \in 1 .. Len(k.retry)
  BY <1>0, <1>1, FirstReadyIs DEF Ix
<1>3. Removed(k.retry, n, q)
  BY <1>0, <1>1, <1>2, SeqRemove
<1>6. PICK p : p = q \o k.rBuf
  OBVIOUS
<1>4. Removed(Retries(k), n, p) /\ Retries(k)[n] = r
  <2>1. Joined(k.retry, k.rBuf, Retries(k)) /\ Joined(q, k.rBuf, p)
    BY <1>0, <1>3, <1>6, SeqJoin DEF Retries, Removed
  <2>2. QED BY <1>1, <1>3, <2>1, RemovedJoin
<1>5. KI(Retries(k), En(k), No(k))
  BY <1>0 DEF KK
<1>7. /\ KI(p, En(k), No(k))
      /\ r.cmd # "NULLCMD" => Hand(p, En(k), r.addr) /\ FrontEv(En(k), r.addr) /\ En(k)[r.addr][1].ev = r
      /\ r.cmd = "NULLCMD" => /\ \E j : Points(En(k), r.addr, 1, j, r.new)
                              /\ \A i \in Ix(p) : ~(p[i].cmd = "NULLCMD" /\ p[i].addr = r.addr /\ p[i].new = r.new)
  <2>1. Retries(k)[n] = r
    BY <1>4
  <2>2. /\ KI(p, En(k), No(k))
        /\ Retries(k)[n].cmd # "NULLCMD" => Hand(p, En(k), Retries(k)[n].addr) /\ FrontEv(En(k), Retries(k)[n].addr)
                                            /\ En(k)[Retries(k)[n].addr][1].ev = Retries(k)[n]
        /\ Retries(k)[n].cmd = "NULLCMD" => 
              /\ \E j : Points(En(k), Retries(k)[n].addr, 1, j, Retries(k)[n].new)
              /\ \A i \in Ix(p) : ~(p[i].cmd = "NULLCMD" /\ p[i].addr = Retries(k)[n].addr /\ p[i].new = Retries(k)[n].new)
    BY <1>4, <1>5, KTake
  <2>3. QED BY <2>1, <2>2
<1>8. r.addr \in Addrs
  BY <1>7 DEF Hand, Points
<1>9. PICK m : m = IF r.cmd = "NULLCMD" THEN k.mshr ELSE removePendingRetry(k.mshr, r.addr)
  OBVIOUS
<1>10. k2 = [k EXCEPT !.retry = q, !.done = @ \cup {r.addr}, !.mshr = m]
  BY <1>0, <1>1, <1>9 DEF TakeRetry, Ctl
<1>11. DOMAIN k2 = DOMAIN k /\ k2.line = k.line /\ k2.mshr = m /\ k2.retry = q /\ k2.rBuf = k.rBuf
       /\ k2.done = k.done \cup {r.addr} /\ ("resp" \in DOMAIN k => k2.resp = k.resp)
  BY <1>0, <1>10 DEF Ctl
<1>12. /\ DOMAIN m = DOMAIN k.mshr /\ DOMAIN m.reg = DOMAIN k.mshr.reg
       /\ \A b \in Addrs : /\ DOMAIN m.reg[b] = DOMAIN k.mshr.reg[b]
                           /\ m.reg[b].entries = k.mshr.reg[b].entries /\ m.reg[b].acks = k.mshr.reg[b].acks
                           /\ (b = r.addr /\ r.cmd # "NULLCMD" /\ m.reg[b].retries = k.mshr.reg[b].retries - 1) \/ m.reg[b] = k.mshr.reg[b]
  <2>1. CASE r.cmd = "NULLCMD"
    BY <1>9, <2>1
  <2>2. CASE r.cmd # "NULLCMD"
    <3>1. m = [k.mshr EXCEPT !.reg[r.addr].retries = @ - 1]
      BY <1>9, <2>2 DEF removePendingRetry
    <3>2. DOMAIN m = DOMAIN k.mshr /\ m.reg = [k.mshr.reg EXCEPT ![r.addr].retries = @ - 1]
      BY <1>0, <3>1 DEF Ctl
    <3>3. QED BY <1>0, <2>2, <3>2 DEF Ctl
  <2>3. QED BY <2>1, <2>2
<1>13. Ctl(k2)
  BY <1>0, <1>3, <1>11, <1>12 DEF Ctl, Removed
<1>14. Alike(k, k2) /\ Retries(k2) = p
  BY <1>6, <1>11, <1>12 DEF Alike, Ent, Acks, Retries
<1>15. En(k2) = En(k) /\ No(k2) = No(k)
  BY <1>14, AlikeEn
<1>16. NoRegOK(k2)
  <2>1. r.cmd # "NULLCMD" => Ent(k, r.addr) # <<>>
    BY <1>0, <1>7, <1>8, EnIs, EntLen DEF FrontEv
  <2>2. QED BY <1>0, <1>11, <1>12, <2>1 DEF KK, NoRegOK, Ent
<1>17. DoneOK(k2)
  BY <1>0, <1>11, <1>15 DEF KK, DoneOK
<1>19. \A b : Pend(p, b) => Pend(Retries(k), b)
  BY <1>4, RemovedIs DEF Pend
<1>c. CountOK(k2)
  <2>1. r.cmd # "NULLCMD" => Pend(Retries(k), r.addr) /\ ~Pend(p, r.addr)
    BY <1>4, <1>7 DEF Pend, Removed, Ix, Hand
  <2>2. ASSUME NEW b \in Addrs PROVE Rts(k2, b) \in {0, 1} /\ (Pend(p, b) <=> Rts(k2, b) = 1)
    <3>1. Rts(k, b) \in {0, 1} /\ (Pend(Retries(k), b) <=> Rts(k, b) = 1)
      BY <1>0 DEF KK, CountOK
    <3>2. (b = r.addr /\ r.cmd # "NULLCMD" /\ Rts(k2, b) = Rts(k, b) - 1) \/ Rts(k2, b) = Rts(k, b)
      BY <1>11, <1>12 DEF Rts
    <3>3. ASSUME r.cmd = "NULLCMD" \/ b # r.addr PROVE Pend(Retries(k), b) => Pend(p, b)
      <4> SUFFICES ASSUME Pend(Retries(k), b) PROVE Pend(p, b)
        OBVIOUS
      <4>1. PICK i \in Ix(Retries(k)) : Retries(k)[i].cmd # "NULLCMD" /\ Retries(k)[i].addr = b
        BY DEF Pend
      <4>2. i # n
        BY <1>4, <3>3, <4>1
      <4>3. \E x \in Ix(p) : p[x] = Retries(k)[i]
        <5>1. CASE i < n
          <6>1. i \in Ix(p) /\ p[i] = Retries(k)[i]
            BY <1>4, <5>1 DEF Removed, Ix
          <6>2. QED BY <6>1
        <5>2. CASE i > n
          <6>1. i - 1 \in Ix(p) /\ p[i - 1] = Retries(k)[i]
            BY <1>4, <5>2 DEF Removed, Ix
          <6>2. QED BY <6>1
        <5>3. QED BY <1>4, <4>2, <5>1, <5>2 DEF Removed, Ix
      <4>4. QED BY <4>1, <4>3 DEF Pend
    <3>4. r.cmd # "NULLCMD" /\ b = r.addr => Rts(k2, b) = Rts(k, b) - 1
      BY <1>9, <1>0, <1>11 DEF Rts, Ctl, removePendingRetry
    <3>5. QED BY <1>19, <2>1, <3>1, <3>2, <3>3, <3>4
  <2>3. QED BY <1>14, <2>2 DEF CountOK
<1>18. KK(k2)
  BY <1>7, <1>13, <1>14, <1>15, <1>16, <1>17, <1>c DEF KK
<1>20. En(k2)[r.addr] = Ent(k2, r.addr)
  BY <1>8, EnIs
<1>21. r.cmd # "NULLCMD" => Pend(Retries(k), r.addr)
  BY <1>4 DEF Pend, Removed, Ix
<1>22. Alike(k0, k2)
  BY <1>0, <1>14, AlikeTrans
<1>23. QED BY <1>0, <1>7, <1>8, <1>11, <1>14, <1>15, <1>18, <1>19, <1>20, <1>21, <1>22 DEF Handed, Gone

(* The front event of a is in progress. *)
Prog(k, a) == FrontEv(En(k), a) /\ Ent(k, a)[1].inProgress
(* The command in progress. *)
Busy(k, a) == IF Prog(k, a) THEN Ent(k, a)[1].ev.cmd ELSE "none"
(* Acks stay, or go with the entries. *)
AcksOr0(k, a, k2) == \A b \in Addrs : Acks(k2, b) = Acks(k, b) \/ (b = a /\ Acks(k2, b) = 0)

(* An entry of a controller in a state of the invariant. *)
LEMMA EntryIs ==
    ASSUME NEW k, KK(k), NEW a \in Addrs, NEW i \in Ix(Ent(k, a)) PROVE EntryAt(Ent(k, a)[i], a, i)
BY EnIs DEF KK, KI, EntryOK

(* What is in progress depends on the events only. *)
LEMMA EvsProg ==
    ASSUME NEW k, KK(k), NEW k2, KK(k2), NEW a \in Addrs, Evs(Ent(k, a), Ent(k2, a))
    PROVE  /\ Busy(k2, a) = Busy(k, a) /\ (Prog(k2, a) <=> Prog(k, a))
           /\ Prog(k, a) => Ent(k2, a)[1] = Ent(k, a)[1]
<1>0. En(k)[a] = Ent(k, a) /\ En(k2)[a] = Ent(k2, a)
  BY EnIs
<1>1. CASE SameEvents(Ent(k, a), Ent(k2, a))
  BY <1>0, <1>1 DEF SameEvents, Prog, Busy, FrontEv
<1>2. CASE Cut(Ent(k, a), Ent(k2, a)) /\ Ent(k, a)[1].type # "Event"
  <2>1. ~Prog(k, a)
    BY <1>0, <1>2 DEF Prog, FrontEv
  <2>2. ~Prog(k2, a)
    <3> SUFFICES ASSUME 1 \in Ix(Ent(k2, a)), Ent(k2, a)[1].type = "Event" PROVE ~Ent(k2, a)[1].inProgress
      BY <1>0 DEF Prog, FrontEv
    <3>1. Ent(k2, a)[1] = Ent(k, a)[2] /\ 2 \in Ix(Ent(k, a))
      BY <1>2, CutIs
    <3>2. EntryAt(Ent(k, a)[2], a, 2)
      BY <3>1, EntryIs
    <3>3. QED BY <3>1, <3>2 DEF EntryAt
  <2>3. QED BY <2>1, <2>2 DEF Busy
<1>3. QED BY <1>1, <1>2 DEF Evs

(* The pointer is dropped and, if it was the last one, old is retried. *)
LEMMA DropThen ==
    ASSUME NEW km, KK(km), NEW old \in Addrs, old \in km.done, NEW last \in BOOLEAN, last => Handed(km, old),
           NEW k2, k2 = IF last THEN Retry(km, old) ELSE km
    PROVE  /\ KK(k2) /\ Calm(km, k2)
           /\ \A b : Pend(Retries(k2), b) => Pend(Retries(km), b) \/ (b = old /\ last)
<1>1. CASE last
  BY <1>1, KKRetry
<1>2. CASE ~last
  BY <1>2 DEF Calm, Frame
<1>3. QED BY <1>1, <1>2

(* What is known of an event that waits for an eviction. *)
LEMMA PointsIs ==
    ASSUME NEW k, KK(k), NEW old, NEW j0, NEW new, Points(En(k), old, 1, j0, new)
    PROVE  /\ old \in Addrs /\ new \in Addrs /\ old # new /\ 1 \in Ix(Ent(k, old)) /\ Ent(k, old)[1].type = "Evict"
           /\ EntryAt(Ent(k, old)[1], old, 1) /\ NoTwice(Ent(k, old)[1].ptrs) /\ Pointed(En(k), new)
           /\ Waits(Retries(k), En(k), No(k), new) /\ FrontEv(En(k), new) /\ new \in No(k) /\ ~Pend(Retries(k), new)
           /\ ~Prog(k, new)
<1>1. old \in Addrs /\ 1 \in Ix(En(k)[old]) /\ En(k)[old][1].type = "Evict" /\ Pointed(En(k), new)
  BY DEF Points, Pointed
<1>2. En(k)[old] = Ent(k, old)
  BY <1>1, EnIs
<1>3. Waits(Retries(k), En(k), No(k), new)
  BY <1>1 DEF KK, KI, PointersWait
<1>4. new \in Addrs /\ FrontEv(En(k), new) /\ new \in No(k) /\ ~Pend(Retries(k), new) /\ ~En(k)[new][1].inProgress
  BY <1>3 DEF Waits
<1>5. old # new
  BY <1>1, <1>4 DEF FrontEv
<1>6. NoTwice(Ent(k, old)[1].ptrs)
  <2>1. \A i, j \in Ix(Ent(k, old)[1].ptrs) : Ent(k, old)[1].ptrs[i] = Ent(k, old)[1].ptrs[j] => i = j
    <3> SUFFICES ASSUME NEW i \in Ix(Ent(k, old)[1].ptrs), NEW j \in Ix(Ent(k, old)[1].ptrs),
                        Ent(k, old)[1].ptrs[i] = Ent(k, old)[1].ptrs[j] PROVE i = j
      OBVIOUS
    <3>1. Points(En(k), old, 1, i, Ent(k, old)[1].ptrs[i]) /\ Points(En(k), old, 1, j, Ent(k, old)[1].ptrs[i])
      BY <1>1, <1>2 DEF Points
    <3>2. QED BY <3>1 DEF KK, KI, PointersOnce
  <2>2. QED BY <2>1 DEF NoTwice
<1>7. EntryAt(Ent(k, old)[1], old, 1)
  BY <1>1, <1>2, EntryIs
<1>8. ~Prog(k, new)
  BY <1>4, EnIs DEF Prog
<1>9. QED BY <1>1, <1>2, <1>3, <1>4, <1>5, <1>6, <1>7, <1>8

(* After a drop at old: what waits there, if the last pointer went, is an event not in progress. *)
LEMMA DropFront ==
    ASSUME NEW k, KK(k), NEW old \in Addrs, NEW k2, NEW new, DropLast(Ent(k, old), Ent(k2, old), new) PROVE ~Prog(k2, old)
<1> SUFFICES ASSUME Prog(k2, old) PROVE FALSE
  OBVIOUS
<1>1. 1 \in Ix(Ent(k2, old)) /\ Ent(k2, old)[1].type = "Event" /\ Ent(k2, old)[1].inProgress
  BY EnIs DEF Prog, FrontEv
<1>2. Ent(k2, old)[1] = Ent(k, old)[2] /\ 2 \in Ix(Ent(k, old))
  BY <1>1, CutIs DEF DropLast
<1>3. EntryAt(Ent(k, old)[2], old, 2)
  BY <1>2, EntryIs
<1>4. QED BY <1>1, <1>2, <1>3 DEF EntryAt

(* A NULLCMD found a way for new. *)
LEMMA KKFreed ==
    ASSUME NEW k, KK(k), NEW old, NEW j0, NEW new, Points(En(k), old, 1, j0, new), Gone(Retries(k), old, new),
           old \in k.done, NEW k2, k2 = DropPointer(RetryEvent(k, new), old, new)
    PROVE  /\ KK(k2) /\ Frame(k, k2) /\ \A b \in Addrs : Evs(Ent(k, b), Ent(k2, b))
           /\ AcksOr0(k, old, k2)
           /\ \A b : Pend(Retries(k2), b) => Pend(Retries(k), b) \/ ~Prog(k2, b)
<1>0. /\ old \in Addrs /\ new \in Addrs /\ old # new /\ 1 \in Ix(Ent(k, old)) /\ Ent(k, old)[1].type = "Evict"
      /\ EntryAt(Ent(k, old)[1], old, 1) /\ NoTwice(Ent(k, old)[1].ptrs) /\ Pointed(En(k), new)
      /\ FrontEv(En(k), new) /\ new \in No(k) /\ ~Pend(Retries(k), new) /\ ~Prog(k, new)
  BY PointsIs
<1>1. Ctl(k) /\ KI(Retries(k), En(k), No(k)) /\ En(k)[new] = Ent(k, new) /\ En(k)[old] = Ent(k, old) /\ 1 \in Ix(Ent(k, new))
      /\ EntryAt(Ent(k, new)[1], new, 1) /\ Ent(k, new)[1].type = "Event"
  BY <1>0, EnIs, EntryIs DEF KK, FrontEv
<1>2. PICK k1 : k1 = RetryEvent(k, new)
  OBVIOUS
<1>3. Ctl(k1) /\ Calm(k, k1) /\ Regs(k, new, k1) /\ k1.rBuf = Append(k.rBuf, Ent(k, new)[1].ev) /\ Rts(k1, new) = Rts(k, new) + 1
  BY <1>0, <1>1, <1>2, RetryEventIs
<1>4. En(k1) = En(k) /\ No(k1) = No(k) /\ Ent(k1, old) = Ent(k, old) /\ Frame(k, k1)
  BY <1>0, <1>3, CalmEn DEF Calm
<1>5. PICK km, last : km = [k1 EXCEPT !.mshr = removeEvictPointer(@, old, new)] /\ last = lastPointer(k1.mshr, old, new)
  OBVIOUS
<1>6. /\ Ctl(km) /\ Frame(k1, km) /\ km.rBuf = k1.rBuf /\ Regs(k1, old, km) /\ Erased(k1, old, km)
      /\ IF last THEN DropLast(Ent(k, old), Ent(km, old), new) ELSE DropSome(Ent(k, old), Ent(km, old), new)
  BY <1>0, <1>3, <1>4, <1>5, DropIs
<1>7. last \in BOOLEAN
  BY <1>5 DEF lastPointer
<1>8. k2 = IF last THEN Retry(km, old) ELSE km
  <2>1. [k1 EXCEPT !.mshr = removeEvictPointer(k1.mshr, old, new)] = km
    BY <1>3, <1>5 DEF Ctl
  <2>2. QED BY <1>2, <1>5, <2>1 DEF DropPointer
<1>9. Frame(k, km) /\ No(km) = No(k) /\ SameBut(En(k), old, En(km)) /\ En(km)[old] = Ent(km, old)
  BY <1>0, <1>4, <1>6, RegsEn, EnIs DEF Frame, No
<1>10. KI(Retries(k), En(km), No(k)) /\ ~Pointed(En(km), new) /\ (last => Hand(Retries(k), En(km), old))
  <2>1. CASE last
    BY <1>1, <1>6, <1>9, <2>1, KDropLast
  <2>2. CASE ~last
    BY <1>1, <1>6, <1>9, <2>2, KDropSome
  <2>3. QED BY <2>1, <2>2
<1>11. PICK e : e = Ent(k, new)[1].ev
  OBVIOUS
<1>12. e.addr = new /\ e.cmd # "NULLCMD"
  BY <1>1, <1>11 DEF EntryAt
<1>13. Ext(Retries(k), e, Retries(km)) /\ Ext(k.rBuf, e, km.rBuf)
  BY <1>1, <1>3, <1>6, <1>9, <1>11, JoinLast, SeqAppend DEF Retries, Ctl, Frame
<1>14. FrontEv(En(km), new) /\ En(km)[new][1].ev = e
  BY <1>0, <1>1, <1>9, <1>11 DEF SameBut, FrontEv
<1>15. KI(Retries(km), En(km), No(km))
  BY <1>0, <1>9, <1>10, <1>13, <1>14, KRetry
<1>16. \A i \in Ix(Retries(km)) : (i \in Ix(Retries(k)) /\ Retries(km)[i] = Retries(k)[i]) \/ Retries(km)[i] = e
  BY <1>13, ExtIs
<1>17. \A i \in Ix(km.rBuf) : (i \in Ix(k.rBuf) /\ km.rBuf[i] = k.rBuf[i]) \/ km.rBuf[i] = e
  BY <1>13, ExtIs
<1>18. DoneOK(km)
  BY <1>0, <1>9, <1>12, <1>17 DEF KK, DoneOK, Frame
<1>19. NoRegOK(km)
  <2>1. Ent(km, new) # <<>>
    BY <1>0, <1>6, <1>14, EntLen, EnIs DEF FrontEv
  <2>2. \A b \in Addrs : b # old /\ b # new => km.mshr.reg[b] = k.mshr.reg[b]
    BY <1>3, <1>6 DEF Regs
  <2>3. QED BY <1>6, <2>1, <2>2 DEF KK, NoRegOK, Erased, Ent
<1>c. CountOK(km)
  <2>1. ASSUME NEW b PROVE Pend(Retries(k1), b) <=> Pend(Retries(k), b) \/ b = new
    <3>1. Retries(k1) = Retries(km)
      BY <1>6 DEF Retries, Frame
    <3>2. /\ \A i \in Ix(Retries(k)) : i \in Ix(Retries(km)) /\ Retries(km)[i] = Retries(k)[i]
          /\ \E i \in Ix(Retries(km)) : Retries(km)[i] = e
      BY <1>13, ExtIs
    <3>3. QED BY <1>12, <1>16, <3>1, <3>2 DEF Pend
  <2>2. CountOK(k1)
    BY <1>0, <1>3, <2>1, MoreCount DEF KK
  <2>3. Retries(km) = Retries(k1)
    BY <1>6 DEF Retries, Frame
  <2>4. ASSUME NEW b \in Addrs PROVE Rts(km, b) \in {0, 1} /\ (Pend(Retries(km), b) <=> Rts(km, b) = 1)
    <3>1. CASE b # old
      BY <1>6, <2>2, <2>3, <3>1 DEF Regs, Rts, CountOK
    <3>2. CASE b = old /\ Ent(km, old) # <<>>
      BY <1>6, <2>2, <2>3, <3>2 DEF Erased, CountOK
    <3>3. CASE b = old /\ Ent(km, old) = <<>>
      <4>1. Rts(km, old) = 0
        BY <1>6, <3>3 DEF Erased, Rts, NoReg
      <4>2. ~Pend(Retries(km), old)
        <5> SUFFICES ASSUME Pend(Retries(km), old) PROVE FALSE
          OBVIOUS
        <5>1. FrontEv(En(km), old)
          BY <1>15, PendFront
        <5>2. QED BY <1>0, <1>6, <1>9, <3>3, <5>1, EntLen DEF FrontEv
      <4>3. QED BY <3>3, <4>1, <4>2
    <3>4. QED BY <3>1, <3>2, <3>3
  <2>5. QED BY <2>4 DEF CountOK
<1>20. KK(km)
  BY <1>6, <1>15, <1>18, <1>19, <1>c DEF KK
<1>21. last => Handed(km, old)
  BY <1>0, <1>10, <1>12, <1>16 DEF Handed, Hand, Pend, Null
<1>22. old \in km.done
  BY <1>9 DEF Frame
<1>23. /\ KK(k2) /\ Calm(km, k2)
       /\ \A b : Pend(Retries(k2), b) => Pend(Retries(km), b) \/ (b = old /\ last)
  BY <1>0, <1>7, <1>8, <1>20, <1>21, <1>22, DropThen
<1>24. \A b \in Addrs : Evs(Ent(k, b), Ent(km, b))
  <2>1. ASSUME NEW b \in Addrs, b # old PROVE Evs(Ent(k, b), Ent(km, b))
    <3>1. Ent(km, b) = Ent(k, b) /\ IsSeq(Ent(k, b))
      BY <1>1, <1>3, <1>6, <2>1, EntLen DEF Calm, Regs, Ent
    <3>2. QED BY <3>1, EvsSelf
  <2>2. Evs(Ent(k, old), Ent(km, old))
    <3>1. IsSeq(Ent(k, old))
      BY <1>0, <1>1, EntLen
    <3>2. QED BY <1>0, <1>6, <3>1, DropEvents DEF Evs, DropLast
  <2>3. QED BY <2>1, <2>2
<1>25. \A b \in Addrs : Ent(k2, b) = Ent(km, b)
  BY <1>23 DEF Calm
<1>26. AcksOr0(k, old, k2)
  <2>1. \A b \in Addrs : b # old => Acks(km, b) = Acks(k, b)
    BY <1>3, <1>6 DEF Calm, Regs, Acks
  <2>2. Acks(km, old) = Acks(k, old) \/ Acks(km, old) = 0
    BY <1>0, <1>3, <1>6 DEF Erased, Calm
  <2>3. QED BY <1>23, <2>1, <2>2 DEF AcksOr0, Calm
<1>27. \A b : Pend(Retries(k2), b) => Pend(Retries(k), b) \/ ~Prog(k2, b)
  <2>1. \A b : Pend(Retries(km), b) => Pend(Retries(k), b) \/ b = new
    BY <1>12, <1>16 DEF Pend
  <2>2. ~Prog(k2, new)
    <3>1. Ent(k2, new) = Ent(k, new)
      BY <1>0, <1>3, <1>6, <1>25 DEF Calm, Regs, Ent
    <3>2. QED BY <1>0, <3>1, EnIs DEF Prog, FrontEv
  <2>3. last => ~Prog(k2, old)
    <3>1. Ent(k2, old) = Ent(km, old)
      BY <1>0, <1>25
    <3>2. QED BY <1>0, <1>6, <3>1, DropFront
  <2>4. QED BY <1>23, <2>1, <2>2, <2>3
<1>28. QED BY <1>9, <1>23, <1>24, <1>25, <1>26, <1>27 DEF Calm, Frame

(* A NULLCMD picked another line, v, for new to wait for. *)
LEMMA KKMoved ==
    ASSUME NEW k, KK(k), NEW old, NEW j0, NEW new, Points(En(k), old, 1, j0, new), Gone(Retries(k), old, new),
           NEW v \in Addrs, v # old, v # new,
           NEW kv, KKBut(kv, v), En(kv) = En(k), Retries(kv) = Retries(k), No(kv) = No(k),
           old \in kv.done, NEW k2, k2 = DropPointer([kv EXCEPT !.mshr = insertEviction(@, v, new)], old, new)
    PROVE  /\ KK(k2) /\ Frame(kv, k2) /\ \A b \in Addrs : Evs(Ent(kv, b), Ent(k2, b))
           /\ AcksOr0(kv, old, k2)
           /\ \A b : Pend(Retries(k2), b) => Pend(Retries(k), b) \/ ~Prog(k2, b)
<1>0. /\ old \in Addrs /\ new \in Addrs /\ old # new /\ 1 \in Ix(Ent(k, old)) /\ Ent(k, old)[1].type = "Evict"
      /\ EntryAt(Ent(k, old)[1], old, 1) /\ NoTwice(Ent(k, old)[1].ptrs) /\ Pointed(En(k), new)
      /\ Waits(Retries(k), En(k), No(k), new)
  BY PointsIs
<1>1. KI(Retries(k), En(k), No(k)) /\ Ctl(kv) /\ EntryOK(En(kv)) /\ En(k)[old] = Ent(k, old) /\ DoneOK(kv)
  BY <1>0, EnIs DEF KK, KKBut, KI
<1>2. \A b \in Addrs : Ent(kv, b) = Ent(k, b) /\ En(k)[b] = Ent(k, b)
  BY EnIs
<1>3. PICK k1 : k1 = [kv EXCEPT !.mshr = insertEviction(@, v, new)]
  OBVIOUS
<1>4. /\ Ctl(k1) /\ Frame(kv, k1) /\ k1.rBuf = kv.rBuf /\ Regs(kv, v, k1) /\ Acks(k1, v) = Acks(kv, v) /\ Rts(k1, v) = Rts(kv, v)
      /\ NewEvict(Ent(kv, v), Ent(k1, v), new) \/ JoinEvict(Ent(kv, v), Ent(k1, v), new)
      /\ 1 \in Ix(Ent(k1, v))
  BY <1>1, <1>3, EvictionIs
<1>5. Ent(k1, old) = Ent(k, old)
  BY <1>0, <1>2, <1>4 DEF Regs, Ent
<1>6. PICK km, last : km = [k1 EXCEPT !.mshr = removeEvictPointer(@, old, new)] /\ last = lastPointer(k1.mshr, old, new)
  OBVIOUS
<1>7. /\ Ctl(km) /\ Frame(k1, km) /\ km.rBuf = k1.rBuf /\ Regs(k1, old, km) /\ Erased(k1, old, km)
      /\ IF last THEN DropLast(Ent(k, old), Ent(km, old), new) ELSE DropSome(Ent(k, old), Ent(km, old), new)
  BY <1>0, <1>4, <1>5, <1>6, DropIs
<1>8. last \in BOOLEAN
  BY <1>6 DEF lastPointer
<1>9. k2 = IF last THEN Retry(km, old) ELSE km
  <2>1. [k1 EXCEPT !.mshr = removeEvictPointer(k1.mshr, old, new)] = km
    BY <1>4, <1>6 DEF Ctl
  <2>2. QED BY <1>3, <1>6, <2>1 DEF DropPointer
<1>10. Frame(kv, km) /\ km.rBuf = kv.rBuf
  BY <1>4, <1>7 DEF Frame
<1>11. Retries(km) = Retries(k) /\ No(km) = No(k)
  BY <1>10 DEF Frame, Retries, No
<1>12. PICK F : F = [b \in Addrs |-> IF b = old THEN Ent(km, old) ELSE En(k)[b]]
  OBVIOUS
<1>13. SameBut(En(k), old, F) /\ F[old] = Ent(km, old)
  BY <1>0, <1>12 DEF SameBut
<1>14. KI(Retries(k), F, No(k)) /\ ~Pointed(F, new) /\ (last => Hand(Retries(k), F, old))
  <2>1. CASE last
    BY <1>1, <1>7, <1>13, <2>1, KDropLast
  <2>2. CASE ~last
    BY <1>1, <1>7, <1>13, <2>2, KDropSome
  <2>3. QED BY <2>1, <2>2
<1>15. Waits(Retries(k), F, No(k), new)
  BY <1>0, <1>13 DEF Waits, SameBut, FrontEv
<1>16. SameBut(F, v, En(km)) /\ F[v] = Ent(kv, v) /\ En(km)[v] = Ent(k1, v)
  <2>1. \A b \in Addrs : b # v /\ b # old => Ent(km, b) = Ent(k, b)
    BY <1>2, <1>4, <1>7 DEF Regs, Ent
  <2>2. Ent(km, v) = Ent(k1, v)
    BY <1>7 DEF Regs, Ent
  <2>3. QED BY <1>2, <1>12, <2>1, <2>2, EnIs DEF SameBut
<1>17. KI(Retries(k), En(km), No(k)) /\ \A b : Pointed(En(km), b) => Pointed(F, b) \/ b = new
  <2>1. CASE NewEvict(Ent(kv, v), Ent(k1, v), new)
    BY <1>14, <1>15, <1>16, <2>1, KEvictNew
  <2>2. CASE JoinEvict(Ent(kv, v), Ent(k1, v), new)
    BY <1>14, <1>15, <1>16, <2>2, KEvictJoin
  <2>3. QED BY <1>4, <2>1, <2>2
<1>18. DoneOK(km)
  BY <1>1, <1>10, <1>11 DEF DoneOK, Frame
<1>19. NoRegOK(km)
  <2>1. Ent(km, v) # <<>>
    BY <1>4, <1>7, <1>16, EntLen, EnIs
  <2>2. \A b \in Addrs : b # old /\ b # v => km.mshr.reg[b] = kv.mshr.reg[b]
    BY <1>4, <1>7 DEF Regs
  <2>3. QED BY <1>7, <2>1, <2>2 DEF KKBut, NoRegOK, Erased, Ent
<1>c. CountOK(km)
  <2>0. \A b \in Addrs : Rts(k1, b) = Rts(kv, b)
    BY <1>4, RegsRts
  <2>1. CountOK(kv) /\ Retries(km) = Retries(kv)
    BY <1>11 DEF KKBut
  <2>4. ASSUME NEW b \in Addrs PROVE Rts(km, b) \in {0, 1} /\ (Pend(Retries(km), b) <=> Rts(km, b) = 1)
    <3>1. CASE b # old
      BY <1>7, <2>0, <2>1, <3>1 DEF Regs, Rts, CountOK
    <3>2. CASE b = old /\ Ent(km, old) # <<>>
      BY <1>7, <2>0, <2>1, <3>2 DEF Erased, CountOK
    <3>3. CASE b = old /\ Ent(km, old) = <<>>
      <4>1. Rts(km, old) = 0
        BY <1>7, <3>3 DEF Erased, Rts, NoReg
      <4>2. ~Pend(Retries(km), old)
        <5> SUFFICES ASSUME Pend(Retries(km), old) PROVE FALSE
          OBVIOUS
        <5>1. FrontEv(En(km), old)
          BY <1>11, <1>17, PendFront
        <5>2. QED BY <1>0, <1>7, <3>3, <5>1, EntLen, EnIs DEF FrontEv
      <4>3. QED BY <3>3, <4>1, <4>2
    <3>4. QED BY <3>1, <3>2, <3>3
  <2>5. QED BY <2>4 DEF CountOK
<1>20. KK(km)
  BY <1>7, <1>11, <1>17, <1>18, <1>19, <1>c DEF KK
<1>21. last => Handed(km, old)
  BY <1>0, <1>11, <1>14, <1>17 DEF Handed, Hand
<1>22. old \in km.done
  BY <1>10 DEF Frame
<1>23. /\ KK(k2) /\ Calm(km, k2)
       /\ \A b : Pend(Retries(k2), b) => Pend(Retries(km), b) \/ (b = old /\ last)
  BY <1>0, <1>8, <1>9, <1>20, <1>21, <1>22, DropThen
<1>24. \A b \in Addrs : Evs(Ent(kv, b), Ent(km, b))
  <2>0. \A b \in Addrs : IsSeq(Ent(kv, b))
    BY <1>1, EntLen
  <2>1. ASSUME NEW b \in Addrs, b # old, b # v PROVE Evs(Ent(kv, b), Ent(km, b))
    <3>1. Ent(km, b) = Ent(kv, b)
      BY <1>4, <1>7, <2>1 DEF Regs, Ent
    <3>2. QED BY <2>0, <3>1, EvsSelf
  <2>2. Evs(Ent(kv, old), Ent(km, old))
    BY <1>0, <1>2, <1>7, <2>0, DropEvents DEF Evs, DropLast
  <2>3. Evs(Ent(kv, v), Ent(km, v))
    <3>1. Ent(km, v) = Ent(k1, v)
      BY <1>7 DEF Regs, Ent
    <3>2. QED BY <1>4, <2>0, <3>1, NewEvents, JoinEvents DEF Evs
  <2>4. QED BY <2>1, <2>2, <2>3
<1>25. \A b \in Addrs : Ent(k2, b) = Ent(km, b)
  BY <1>23 DEF Calm
<1>26. AcksOr0(kv, old, k2)
  <2>1. \A b \in Addrs : b # old => Acks(km, b) = Acks(kv, b)
    BY <1>4, <1>7 DEF Regs, Acks
  <2>2. Acks(km, old) = Acks(kv, old) \/ Acks(km, old) = 0
    BY <1>0, <1>4, <1>7 DEF Erased, Regs, Acks
  <2>3. QED BY <1>23, <2>1, <2>2 DEF AcksOr0, Calm
<1>27. \A b : Pend(Retries(k2), b) => Pend(Retries(k), b) \/ ~Prog(k2, b)
  <2>3. last => ~Prog(k2, old)
    <3>1. Ent(k2, old) = Ent(km, old)
      BY <1>0, <1>25
    <3>2. QED BY <1>0, <1>7, <3>1, DropFront
  <2>4. QED BY <1>11, <1>23, <2>3
<1>28. QED BY <1>10, <1>23, <1>24, <1>25, <1>26, <1>27 DEF Calm, Frame
-----------------------------------------------------------------------------
(***************************************************************************)
(* The links.                                                              *)
(***************************************************************************)

(* The shape of the links. *)
Shape(ch) == /\ DOMAIN ch = Links
             /\ \A l \in Links : DOMAIN ch[l] = Addrs
             /\ \A l \in Links, a \in Addrs : IsSeq(ch[l][a])
(* A message is for the line of its link's queue, and of a kind the link   *)
(* carries.                                                                *)
MsgOK(m, l, a) ==
    /\ \A c \in Cores : l = Down(c) => m.addr = a /\ m.src = c
    /\ \A c \in Cores : l = Up(c) => /\ m.addr = a /\ m.cmd \in SnoopCmds \cup RespCmds
                                     /\ m.cmd = "NACK" => m.nacked.addr = a /\ m.nacked.src = c
    /\ l = ToMem => m.cmd \in ReqCmds \cup PutCmds
    /\ l = FromMem => m.addr = a
(* Every message of every link is. *)
Mail(ch) == Shape(ch) /\ \A l \in Links, a \in Addrs : \A i \in Ix(ch[l][a]) : MsgOK(ch[l][a][i], l, a)
(* Every other queue is left alone. *)
Others(ch, l, a, ch2) == \A x \in Links, b \in Addrs : x # l \/ b # a => ch2[x][b] = ch[x][b]

(* The links are distinct. *)
LEMMA LinkIs ==
    ASSUME NEW c \in Cores
    PROVE  /\ Up(c) \in Links /\ Down(c) \in Links /\ ToMem \in Links /\ FromMem \in Links
           /\ Up(c) # ToMem /\ Up(c) # FromMem /\ Down(c) # ToMem /\ Down(c) # FromMem /\ ToMem # FromMem
           /\ \A d \in Cores : Up(c) # Down(d) /\ (Up(c) = Up(d) => c = d) /\ (Down(c) = Down(d) => c = d)
BY CoresAssumption DEF Links, Up, Down, ToMem, FromMem

(* The links to memory are distinct. *)
LEMMA MemLinks == ToMem \in Links /\ FromMem \in Links /\ ToMem # FromMem
BY DEF Links, ToMem, FromMem

(* One queue is replaced. *)
LEMMA SetLink ==
    ASSUME NEW ch, Shape(ch), NEW l \in Links, NEW a \in Addrs, NEW x, IsSeq(x), NEW ch2, ch2 = [ch EXCEPT ![l][a] = x]
    PROVE  Shape(ch2) /\ ch2[l][a] = x /\ Others(ch, l, a, ch2)
<1>1. DOMAIN ch2 = Links /\ (\A y \in Links : y # l => ch2[y] = ch[y]) /\ ch2[l] = [ch[l] EXCEPT ![a] = x]
  BY DEF Shape
<1>2. DOMAIN ch2[l] = Addrs /\ ch2[l][a] = x /\ \A b \in Addrs : b # a => ch2[l][b] = ch[l][b]
  BY <1>1 DEF Shape
<1>3. QED BY <1>1, <1>2 DEF Shape, Others

(* What Send does. *)
LEMMA SendIs ==
    ASSUME NEW ch, Mail(ch), NEW l \in Links, NEW m, NEW a \in Addrs, m.addr = a, MsgOK(m, l, a), NEW ch2, ch2 = Send(ch, l, m)
    PROVE  Mail(ch2) /\ Ext(ch[l][a], m, ch2[l][a]) /\ Others(ch, l, a, ch2)
<1>1. PICK x : x = Append(ch[l][a], m)
  OBVIOUS
<1>2. ch2 = [ch EXCEPT ![l][a] = x]
  BY <1>1 DEF Send, Mail, Shape
<1>3. Ext(ch[l][a], m, x)
  BY <1>1, SeqAppend DEF Mail, Shape
<1>4. IsSeq(x)
  BY <1>3 DEF Ext
<1>5. Shape(ch2) /\ ch2[l][a] = x /\ Others(ch, l, a, ch2)
  <2>1. Shape(ch)
    BY DEF Mail
  <2>2. DOMAIN ch2 = Links /\ (\A y \in Links : y # l => ch2[y] = ch[y]) /\ ch2[l] = [ch[l] EXCEPT ![a] = x]
    BY <1>2, <2>1 DEF Shape
  <2>3. DOMAIN ch2[l] = Addrs /\ ch2[l][a] = x /\ \A b \in Addrs : b # a => ch2[l][b] = ch[l][b]
    BY <2>1, <2>2 DEF Shape
  <2>4. Others(ch, l, a, ch2)
    BY <2>2, <2>3 DEF Others
  <2>5. \A y \in Links : DOMAIN ch2[y] = Addrs
    BY <2>1, <2>2, <2>3 DEF Shape
  <2>6. \A y \in Links, b \in Addrs : IsSeq(ch2[y][b])
    BY <1>4, <2>1, <2>3, <2>4 DEF Shape, Others
  <2>7. QED BY <2>2, <2>3, <2>4, <2>5, <2>6 DEF Shape
<1>6. ASSUME NEW y \in Links, NEW b \in Addrs, NEW i \in Ix(ch2[y][b]) PROVE MsgOK(ch2[y][b][i], y, b)
  <2>1. CASE y = l /\ b = a
    <3>1. (i \in Ix(ch[l][a]) /\ x[i] = ch[l][a][i]) \/ x[i] = m
      BY <1>3, <1>5, <1>6, <2>1, ExtIs
    <3>2. QED BY <1>5, <2>1, <3>1 DEF Mail
  <2>2. CASE ~(y = l /\ b = a)
    BY <1>5, <1>6, <2>2 DEF Mail, Others
  <2>3. QED BY <2>1, <2>2
<1>7. QED BY <1>3, <1>5, <1>6 DEF Mail

(* What taking the head does. *)
LEMMA TakeIs ==
    ASSUME NEW ch, Mail(ch), NEW l \in Links, NEW a \in Addrs, ch[l][a] # <<>>, NEW ch2, ch2 = [ch EXCEPT ![l][a] = Tail(@)]
    PROVE  /\ Mail(ch2) /\ Cut(ch[l][a], ch2[l][a]) /\ Others(ch, l, a, ch2)
           /\ Head(ch[l][a]) = ch[l][a][1] /\ MsgOK(ch[l][a][1], l, a)
<1>1. PICK x : x = Tail(ch[l][a])
  OBVIOUS
<1>2. ch2 = [ch EXCEPT ![l][a] = x]
  BY <1>1 DEF Mail, Shape
<1>3. Cut(ch[l][a], x) /\ Head(ch[l][a]) = ch[l][a][1] /\ 1 \in Ix(ch[l][a])
  BY <1>1, SeqTail, SeqLen DEF Mail, Shape, Ix
<1>4. IsSeq(x)
  BY <1>3 DEF Cut
<1>5. Shape(ch2) /\ ch2[l][a] = x /\ Others(ch, l, a, ch2)
  <2>1. Shape(ch)
    BY DEF Mail
  <2>2. QED BY <1>2, <1>4, <2>1, SetLink
<1>6. ASSUME NEW y \in Links, NEW b \in Addrs, NEW i \in Ix(ch2[y][b]) PROVE MsgOK(ch2[y][b][i], y, b)
  <2>1. CASE y = l /\ b = a
    <3>1. i + 1 \in Ix(ch[l][a]) /\ x[i] = ch[l][a][i + 1]
      <4>1. i \in Ix(x)
        BY <1>5, <1>6, <2>1
      <4>2. QED BY <1>3, <4>1, CutIs
    <3>2. QED BY <1>5, <2>1, <3>1 DEF Mail
  <2>2. CASE ~(y = l /\ b = a)
    BY <1>5, <1>6, <2>2 DEF Mail, Others
  <2>3. QED BY <2>1, <2>2
<1>7. MsgOK(ch[l][a][1], l, a)
  BY <1>3 DEF Mail
<1>8. QED BY <1>3, <1>5, <1>6, <1>7 DEF Mail

(* One snoop for every L1 in T. *)
SnoopsSent(ch, a, T, m, ch2) ==
    /\ \A c \in T : Ext(ch[Up(c)][a], m, ch2[Up(c)][a])
    /\ \A c \in Cores : c \notin T => ch2[Up(c)][a] = ch[Up(c)][a]
    /\ \A c \in Cores, b \in Addrs : ch2[Down(c)][b] = ch[Down(c)][b]
    /\ \A c \in Cores, b \in Addrs : b # a => ch2[Up(c)][b] = ch[Up(c)][b]
    /\ \A b \in Addrs : ch2[ToMem][b] = ch[ToMem][b] /\ ch2[FromMem][b] = ch[FromMem][b]

(* What SendSnoops does. *)
LEMMA SnoopsIs ==
    ASSUME NEW ch, Mail(ch), NEW a \in Addrs, NEW T \in SUBSET Cores, NEW cmd \in SnoopCmds,
           NEW ch2, ch2 = SendSnoops(ch, a, T, cmd), NEW m, m = Event(cmd, a, "below", 0)
    PROVE  Mail(ch2) /\ SnoopsSent(ch, a, T, m, ch2)
<1>1. DOMAIN ch2 = Links /\ \A l \in Links : ch2[l] = IF \E c \in T : l = Up(c) THEN [ch[l] EXCEPT ![a] = Append(@, m)] ELSE ch[l]
  BY DEF SendSnoops
<1>2. m.cmd = cmd /\ m.addr = a
  BY DEF Event
<1>3. ASSUME NEW l \in Links, \E c \in T : l = Up(c)
      PROVE  /\ DOMAIN ch2[l] = Addrs /\ ch2[l][a] = Append(ch[l][a], m) /\ Ext(ch[l][a], m, ch2[l][a])
             /\ \A b \in Addrs : b # a => ch2[l][b] = ch[l][b]
  <2>1. ch2[l] = [ch[l] EXCEPT ![a] = Append(@, m)]
    BY <1>1, <1>3
  <2>2. DOMAIN ch2[l] = Addrs /\ ch2[l][a] = Append(ch[l][a], m) /\ \A b \in Addrs : b # a => ch2[l][b] = ch[l][b]
    BY <2>1 DEF Mail, Shape
  <2>3. Ext(ch[l][a], m, ch2[l][a])
    BY <2>2, SeqAppend DEF Mail, Shape
  <2>4. QED BY <2>2, <2>3
<1>4. ASSUME NEW l \in Links, ~(\E c \in T : l = Up(c)) PROVE ch2[l] = ch[l]
  BY <1>1, <1>4
<1>5. Shape(ch2)
  <2>1. ASSUME NEW l \in Links PROVE DOMAIN ch2[l] = Addrs /\ \A b \in Addrs : IsSeq(ch2[l][b])
    BY <1>3, <1>4 DEF Mail, Shape, Ext
  <2>2. QED BY <1>1, <2>1 DEF Shape
<1>6. ASSUME NEW l \in Links, NEW b \in Addrs, NEW i \in Ix(ch2[l][b]) PROVE MsgOK(ch2[l][b][i], l, b)
  <2>1. CASE (\E c \in T : l = Up(c)) /\ b = a
    <3>1. (i \in Ix(ch[l][a]) /\ ch2[l][a][i] = ch[l][a][i]) \/ ch2[l][a][i] = m
      BY <1>3, <1>6, <2>1, ExtIs
    <3>2. MsgOK(m, l, a)
      <4>1. PICK d \in T : l = Up(d)
        BY <2>1
      <4>2. d \in Cores
        BY <4>1
      <4>3. \A c \in Cores : l # Down(c)
        BY <4>1, <4>2, LinkIs
      <4>4. l # ToMem /\ l # FromMem
        BY <4>1, <4>2, LinkIs
      <4>5. m.cmd # "NACK" /\ m.cmd \in SnoopCmds
        BY <1>2 DEF SnoopCmds
      <4>6. QED BY <1>2, <4>3, <4>4, <4>5 DEF MsgOK
    <3>3. QED BY <2>1, <3>1, <3>2 DEF Mail
  <2>2. CASE ~((\E c \in T : l = Up(c)) /\ b = a)
    BY <1>3, <1>4, <1>6, <2>2 DEF Mail
  <2>3. QED BY <2>1, <2>2
<1>7. Mail(ch2)
  BY <1>5, <1>6 DEF Mail
<1>8. \A c \in T : Ext(ch[Up(c)][a], m, ch2[Up(c)][a])
  BY <1>3, LinkIs
<1>9. \A c \in Cores : c \notin T => ch2[Up(c)] = ch[Up(c)]
  BY <1>4, LinkIs
<1>10. \A c \in Cores : ch2[Down(c)] = ch[Down(c)]
  BY <1>4, LinkIs
<1>11. \A c \in Cores, b \in Addrs : b # a => ch2[Up(c)][b] = ch[Up(c)][b]
  BY <1>3, <1>4, LinkIs
<1>12. ch2[ToMem] = ch[ToMem] /\ ch2[FromMem] = ch[FromMem]
  <2>1. \A c \in T : ToMem # Up(c) /\ FromMem # Up(c)
    BY LinkIs
  <2>2. QED BY <1>4, <2>1, MemLinks
<1>13. QED BY <1>7, <1>8, <1>9, <1>10, <1>11, <1>12 DEF SnoopsSent
-----------------------------------------------------------------------------
(***************************************************************************)
(* The L1.                                                                 *)
(***************************************************************************)

(* The requests of c that the L2's MSHR holds. *)
HC(c, K, a) == {x \in ReqCmds : \E i \in Ix(Ent(K, a)) : /\ Ent(K, a)[i].type = "Event" /\ Ent(K, a)[i].ev.src = c
                                                         /\ Ent(K, a)[i].ev.cmd = x}
(* The pair's invariant, of a state. *)
PairOf(c, a, k, ch, K) == Pair(c, k.line[a].st, Busy(k, a), ch[Up(c)][a], ch[Down(c)][a], K.line[a], K.resp[a], HC(c, K, a))
(* A core's request. *)
EvOK1(ev, c, a, n) ==
    /\ {"cmd", "addr", "src", "id", "data", "dirty", "evict", "atomic"} \subseteq DOMAIN ev
    /\ ev.addr = a /\ ev.src = c /\ ev.cmd \in CoreCmds /\ ev.evict = FALSE /\ ev.id \in Nat /\ ev.id < n
(* An L1's MSHR holds requests of its core. *)
Mine(k, c, n) == \A a \in Addrs : \A i \in Ix(Ent(k, a)) : Ent(k, a)[i].type = "Event" => EvOK1(Ent(k, a)[i].ev, c, a, n)
(* An L1 retries nothing that is in progress. *)
Free(k) == \A a \in Addrs : Prog(k, a) => ~Pend(Retries(k), a)
(* The invariant of L1 c. *)
Good1(c, k, ch, K, n) ==
    /\ n \in Nat /\ KK(k) /\ Mine(k, c, n) /\ Free(k) /\ Mail(ch)
    /\ \A a \in Addrs : PairOf(c, a, k, ch, K)
(* Only the links of c have changed. *)
Kept1(c, ch, ch2) == \A x \in Links, b \in Addrs : x # Up(c) /\ x # Down(c) => ch2[x][b] = ch[x][b]

(* Nothing changed. *)
LEMMA Kept1Self == ASSUME NEW c, NEW ch PROVE Kept1(c, ch, ch)
BY DEF Kept1

(* Two steps. *)
LEMMA Kept1Trans == ASSUME NEW c, NEW ch, NEW ch1, NEW ch2, Kept1(c, ch, ch1), Kept1(c, ch1, ch2) PROVE Kept1(c, ch, ch2)
BY DEF Kept1

(* One of c's queues has changed. *)
LEMMA Kept1Others ==
    ASSUME NEW c, NEW ch, NEW ch2, NEW l, l = Up(c) \/ l = Down(c), NEW a, Others(ch, l, a, ch2) PROVE Kept1(c, ch, ch2)
BY DEF Kept1, Others

(* The events of a controller, wherever they now are. *)
LEMMA EvsMine ==
    ASSUME NEW k, NEW k2, NEW c, NEW n, Mine(k, c, n), \A b \in Addrs : Evs(Ent(k, b), Ent(k2, b))
    PROVE  Mine(k2, c, n)
<1> SUFFICES ASSUME NEW a \in Addrs, NEW i \in Ix(Ent(k2, a)), Ent(k2, a)[i].type = "Event" PROVE EvOK1(Ent(k2, a)[i].ev, c, a, n)
  BY DEF Mine
<1>0. Evs(Ent(k, a), Ent(k2, a))
  OBVIOUS
<1>1. CASE SameEvents(Ent(k, a), Ent(k2, a))
  BY <1>1 DEF SameEvents, Mine
<1>2. CASE Cut(Ent(k, a), Ent(k2, a))
  <2>1. i + 1 \in Ix(Ent(k, a)) /\ Ent(k2, a)[i] = Ent(k, a)[i + 1]
    BY <1>2, CutIs
  <2>2. QED BY <2>1 DEF Mine
<1>3. QED BY <1>0, <1>1, <1>2 DEF Evs

(* The lines stay, the Evict entries and the retries move on. *)
LEMMA G1Evs ==
    ASSUME NEW c \in Cores, NEW k, NEW ch, NEW K, NEW n, Good1(c, k, ch, K, n), NEW k2, KK(k2),
           \A a \in Addrs : k2.line[a].st = k.line[a].st, \A b \in Addrs : Evs(Ent(k, b), Ent(k2, b)),
           \A b \in Addrs : Pend(Retries(k2), b) => Pend(Retries(k), b) \/ ~Prog(k2, b)
    PROVE  Good1(c, k2, ch, K, n)
<1>0. KK(k)
  BY DEF Good1
<1>1. \A a \in Addrs : Busy(k2, a) = Busy(k, a) /\ (Prog(k2, a) <=> Prog(k, a))
  BY <1>0, EvsProg
<1>2. Mine(k2, c, n)
  BY EvsMine DEF Good1
<1>3. Free(k2)
  BY <1>1 DEF Good1, Free
<1>4. \A a \in Addrs : PairOf(c, a, k2, ch, K)
  BY <1>1 DEF Good1, PairOf
<1>5. QED BY <1>2, <1>3, <1>4 DEF Good1

(* Entries and lines as before. *)
LEMMA AlikeEvs ==
    ASSUME NEW k, KK(k), NEW k2, Alike(k, k2) PROVE \A b \in Addrs : Evs(Ent(k, b), Ent(k2, b)) /\ k2.line[b].st = k.line[b].st
<1> SUFFICES ASSUME NEW b \in Addrs PROVE Evs(Ent(k, b), Ent(k2, b)) /\ k2.line[b].st = k.line[b].st
  OBVIOUS
<1>1. Ent(k2, b) = Ent(k, b) /\ k2.line = k.line /\ IsSeq(Ent(k, b))
  BY EntLen DEF Alike, KK
<1>2. QED BY <1>1, EvsSelf

(* An L1 whose retries have changed. *)
LEMMA G1Alike ==
    ASSUME NEW c \in Cores, NEW k, NEW ch, NEW K, NEW n, Good1(c, k, ch, K, n), NEW k2, KK(k2), Alike(k, k2),
           \A b \in Addrs : Pend(Retries(k2), b) => Pend(Retries(k), b) \/ ~Prog(k2, b)
    PROVE  Good1(c, k2, ch, K, n)
<1>0. KK(k)
  BY DEF Good1
<1>1. QED BY <1>0, AlikeEvs, G1Evs

(* The end of a step. *)
LEMMA G1Rest ==
    ASSUME NEW c \in Cores, NEW k, NEW ch, NEW K, NEW n, Good1(c, k, ch, K, n)
    PROVE  Good1(c, Rest(k), ch, K, n)
<1>0. KK(k)
  BY DEF Good1
<1>1. PICK k2 : k2 = Rest(k)
  OBVIOUS
<1>2. KK(k2) /\ Alike(k, k2) /\ Retries(k2) = Retries(k)
  BY <1>0, <1>1, KKRest
<1>3. Good1(c, k2, ch, K, n)
  BY <1>2, G1Alike
<1>4. QED BY <1>1, <1>3

(* A new event joins the register of its address. *)
LEMMA G1Insert ==
    ASSUME NEW c \in Cores, NEW k, NEW ch, NEW K, NEW n, Good1(c, k, ch, K, n), NEW a \in Addrs, NEW ev,
           EvOK1(ev, c, a, n + 1), NEW k2, k2 = [k EXCEPT !.mshr = insertEvent(@, a, ev)]
    PROVE  /\ Good1(c, k2, ch, K, n + 1) /\ k2.line = k.line /\ k2.done = k.done /\ Retries(k2) = Retries(k)
           /\ Ext(Ent(k, a), EventEntry(ev), Ent(k2, a)) /\ SamePoints(k, k2)
<1>0. KK(k) /\ Ctl(k) /\ n \in Nat
  BY DEF Good1, KK
<1>1. ev.addr = a /\ ev.cmd # "NULLCMD"
  BY DEF EvOK1, CoreCmds
<1>2. /\ KK(k2) /\ Frame(k, k2) /\ k2.rBuf = k.rBuf /\ Retries(k2) = Retries(k) /\ Regs(k, a, k2)
      /\ Ext(Ent(k, a), EventEntry(ev), Ent(k2, a)) /\ Acks(k2, a) = Acks(k, a) /\ SamePoints(k, k2)
  BY <1>0, <1>1, KKInsert
<1>3. PICK e : e = EventEntry(ev)
  OBVIOUS
<1>4. e.type = "Event" /\ e.ev = ev /\ e.inProgress = FALSE
  BY <1>3 DEF EventEntry
<1>5. \A b \in Addrs : b # a => Ent(k2, b) = Ent(k, b)
  BY <1>2 DEF Regs, Ent
<1>6. \A b \in Addrs : En(k)[b] = Ent(k, b) /\ En(k2)[b] = Ent(k2, b)
  BY EnIs
<1>7. \A i \in Ix(Ent(k2, a)) : (i \in Ix(Ent(k, a)) /\ Ent(k2, a)[i] = Ent(k, a)[i]) \/ Ent(k2, a)[i] = e
  BY <1>2, <1>3, ExtIs
<1>8. \A i \in Ix(Ent(k, a)) : i \in Ix(Ent(k2, a)) /\ Ent(k2, a)[i] = Ent(k, a)[i]
  BY <1>2, ExtIs
<1>9. \A b \in Addrs : (Prog(k2, b) <=> Prog(k, b)) /\ Busy(k2, b) = Busy(k, b)
  <2>1. ASSUME NEW b \in Addrs, b # a PROVE (Prog(k2, b) <=> Prog(k, b)) /\ Busy(k2, b) = Busy(k, b)
    BY <1>5, <1>6, <2>1 DEF Prog, Busy, FrontEv
  <2>2. (Prog(k2, a) <=> Prog(k, a)) /\ Busy(k2, a) = Busy(k, a)
    BY <1>4, <1>6, <1>7, <1>8 DEF Prog, Busy, FrontEv
  <2>3. QED BY <2>1, <2>2
<1>10. Mine(k2, c, n + 1)
  <2>1. ASSUME NEW x, NEW b, EvOK1(x, c, b, n) PROVE EvOK1(x, c, b, n + 1)
    BY <1>0, <2>1 DEF EvOK1
  <2>2. QED BY <1>4, <1>5, <1>7, <2>1 DEF Mine, Good1
<1>11. Free(k2)
  BY <1>2, <1>9 DEF Free, Good1
<1>12. \A b \in Addrs : PairOf(c, b, k2, ch, K)
  BY <1>2, <1>9 DEF PairOf, Good1, Frame
<1>13. QED BY <1>0, <1>2, <1>10, <1>11, <1>12 DEF Good1, Frame

(* ev is at the front of its register and may be served. *)
Ready1(k, a, ev) == Handed(k, a) /\ FrontEv(En(k), a) /\ Ent(k, a)[1].ev = ev /\ ~Prog(k, a)

(* The line of a is replaced, or kept. *)
SetLine(k, a, l, k2) == k2 = [k EXCEPT !.line[a] = l] \/ (k2 = k /\ l = k.line[a])
SetProg(k, a, k2)    == k2 = [k EXCEPT !.mshr = setInProgress(@, a)]

(* setInProgress, by its name. *)
LEMMA KKSetProg ==
    ASSUME NEW k, KK(k), NEW a, Handed(k, a), FrontEv(En(k), a), NEW k2, SetProg(k, a, k2)
    PROVE  /\ KK(k2) /\ Frame(k, k2) /\ k2.rBuf = k.rBuf /\ Retries(k2) = Retries(k) /\ Regs(k, a, k2) /\ Acks(k2, a) = Acks(k, a)
           /\ Started(Ent(k, a), Ent(k2, a)) /\ SamePoints(k, k2)
BY KKProgress DEF SetProg

(* What it does to the controller. *)
LEMMA SetLineIs ==
    ASSUME NEW k, Ctl(k), NEW a \in Addrs, NEW l, "st" \in DOMAIN l, NEW k2, SetLine(k, a, l, k2)
    PROVE  /\ Ctl(k2) /\ DOMAIN k2 = DOMAIN k /\ k2.mshr = k.mshr /\ k2.retry = k.retry /\ k2.rBuf = k.rBuf /\ k2.done = k.done
           /\ k2.line[a] = l /\ (\A b \in Addrs : b # a => k2.line[b] = k.line[b]) /\ ("resp" \in DOMAIN k => k2.resp = k.resp)
<1>1. DOMAIN k2 = DOMAIN k /\ k2.mshr = k.mshr /\ k2.retry = k.retry /\ k2.rBuf = k.rBuf /\ k2.done = k.done
      /\ (k2.line = [k.line EXCEPT ![a] = l] \/ (k2.line = k.line /\ l = k.line[a])) /\ ("resp" \in DOMAIN k => k2.resp = k.resp)
  BY DEF Ctl, SetLine
<1>2. DOMAIN k2.line = Addrs /\ k2.line[a] = l /\ (\A b \in Addrs : b # a => k2.line[b] = k.line[b])
  BY <1>1 DEF Ctl
<1>3. Ctl(k2)
  BY <1>1, <1>2 DEF Ctl
<1>4. QED BY <1>1, <1>2, <1>3

(* A line changes, and stays absent if something points to its address. *)
LEMMA KKSet ==
    ASSUME NEW k, KK(k), NEW a \in Addrs, NEW l, "st" \in DOMAIN l, NEW k2, SetLine(k, a, l, k2),
           l.st # NoLine /\ a \in No(k) => a \in k.done /\ ~Pointed(En(k), a)
    PROVE  /\ KK(k2) /\ DOMAIN k2 = DOMAIN k /\ k2.mshr = k.mshr /\ k2.retry = k.retry /\ k2.rBuf = k.rBuf /\ k2.done = k.done
           /\ k2.line[a] = l /\ (\A b \in Addrs : b # a => k2.line[b] = k.line[b]) /\ ("resp" \in DOMAIN k => k2.resp = k.resp)
           /\ En(k2) = En(k) /\ Retries(k2) = Retries(k) /\ \A b \in Addrs : Ent(k2, b) = Ent(k, b)
<1>0. Ctl(k)
  BY DEF KK
<1>1. /\ Ctl(k2) /\ DOMAIN k2 = DOMAIN k /\ k2.mshr = k.mshr /\ k2.retry = k.retry /\ k2.rBuf = k.rBuf /\ k2.done = k.done
      /\ k2.line[a] = l /\ (\A b \in Addrs : b # a => k2.line[b] = k.line[b]) /\ ("resp" \in DOMAIN k => k2.resp = k.resp)
  BY <1>0, SetLineIs
<1>2. \A b \in Addrs : Ent(k2, b) = Ent(k, b) /\ Rts(k2, b) = Rts(k, b)
  BY <1>1 DEF Ent, Rts
<1>3. \A b \in No(k) : b \notin No(k2) => b \in k.done /\ ~Pointed(En(k), b)
  BY <1>1 DEF No
<1>4. \A b \in Addrs : Ent(k, b) = <<>> => k2.mshr.reg[b] = k.mshr.reg[b]
  BY <1>1
<1>5. KK(k2) /\ En(k2) = En(k) /\ Retries(k2) = Retries(k)
  BY <1>1, <1>2, <1>3, <1>4, KKSame
<1>6. QED BY <1>1, <1>2, <1>5

(* What is in progress depends on the entries. *)
LEMMA ProgIs ==
    ASSUME NEW k, NEW k2, NEW a \in Addrs, Ent(k2, a) = Ent(k, a)
    PROVE  (Prog(k2, a) <=> Prog(k, a)) /\ Busy(k2, a) = Busy(k, a)
BY EnIs DEF Prog, Busy, FrontEv

(* All but one address are left alone. *)
LEMMA G1At ==
    ASSUME NEW c \in Cores, NEW k, NEW ch, NEW K, NEW n, Good1(c, k, ch, K, n), NEW a \in Addrs,
           NEW k2, KK(k2), NEW n2 \in Nat, Mine(k2, c, n2), Free(k2), NEW ch2, Mail(ch2),
           \A b \in Addrs : b # a => k2.line[b].st = k.line[b].st /\ Ent(k2, b) = Ent(k, b),
           \A b \in Addrs : b # a => ch2[Up(c)][b] = ch[Up(c)][b] /\ ch2[Down(c)][b] = ch[Down(c)][b],
           PairOf(c, a, k2, ch2, K)
    PROVE  Good1(c, k2, ch2, K, n2)
<1>1. \A b \in Addrs : b # a => Busy(k2, b) = Busy(k, b)
  BY ProgIs
<1>2. \A b \in Addrs : PairOf(c, b, k2, ch2, K)
  BY <1>1 DEF PairOf, Good1
<1>3. QED BY <1>2 DEF Good1

(* The other queues of c. *)
LEMMA OthersAt ==
    ASSUME NEW c \in Cores, NEW ch, NEW ch2, NEW a \in Addrs, NEW l, l = Up(c) \/ l = Down(c), Others(ch, l, a, ch2)
    PROVE  /\ \A b \in Addrs : b # a => ch2[Up(c)][b] = ch[Up(c)][b] /\ ch2[Down(c)][b] = ch[Down(c)][b]
           /\ l = Up(c) => ch2[Down(c)][a] = ch[Down(c)][a]
           /\ l = Down(c) => ch2[Up(c)][a] = ch[Up(c)][a]
BY LinkIs DEF Others

(* A message of the L1 goes down. *)
LEMMA SendDown ==
    ASSUME NEW c \in Cores, NEW ch, Mail(ch), NEW a \in Addrs, NEW m, m.addr = a, m.src = c, NEW ch2, ch2 = Send(ch, Down(c), m)
    PROVE  /\ Mail(ch2) /\ Ext(ch[Down(c)][a], m, ch2[Down(c)][a]) /\ Kept1(c, ch, ch2)
           /\ ch2[Up(c)][a] = ch[Up(c)][a]
           /\ \A b \in Addrs : b # a => ch2[Up(c)][b] = ch[Up(c)][b] /\ ch2[Down(c)][b] = ch[Down(c)][b]
<1>1. MsgOK(m, Down(c), a) /\ Down(c) \in Links
  BY LinkIs DEF MsgOK
<1>2. Mail(ch2) /\ Ext(ch[Down(c)][a], m, ch2[Down(c)][a]) /\ Others(ch, Down(c), a, ch2)
  BY <1>1, SendIs
<1>3. QED BY <1>2, OthersAt, Kept1Others

(* The request of core c goes down; PairAfter is what the line's pair becomes. *)
PairAfter(c, a, t, b, ch, m, K) ==
    \A d2 : Ext(ch[Down(c)][a], m, d2) => Pair(c, t, b, ch[Up(c)][a], d2, K.line[a], K.resp[a], HC(c, K, a))

(* An L1's request goes down, marked inProgress. *)
LEMMA G1Start ==
    ASSUME NEW c \in Cores, NEW k, NEW ch, NEW K, NEW n, Good1(c, k, ch, K, n), NEW a \in Addrs, a \in k.done, NEW ev,
           Ready1(k, a, ev), NEW l, "st" \in DOMAIN l, NEW k1, SetLine(k, a, l, k1),
           NEW k2, SetProg(k1, a, k2),
           NEW m, m.addr = a, m.src = c, NEW ch2, ch2 = Send(ch, Down(c), m), PairAfter(c, a, l.st, ev.cmd, ch, m, K)
    PROVE  Good1(c, k2, ch2, K, n) /\ Kept1(c, ch, ch2)
<1>0. KK(k) /\ Mail(ch) /\ n \in Nat /\ Mine(k, c, n) /\ Free(k)
  BY DEF Good1
<1>1. Handed(k, a) /\ FrontEv(En(k), a) /\ Ent(k, a)[1].ev = ev /\ ~Pointed(En(k), a) /\ ~Pend(Retries(k), a) /\ ~Prog(k, a)
  BY DEF Ready1, Handed, Hand
<1>2. /\ KK(k1) /\ k1.mshr = k.mshr /\ k1.retry = k.retry /\ k1.rBuf = k.rBuf /\ k1.done = k.done
      /\ k1.line[a] = l /\ (\A b \in Addrs : b # a => k1.line[b] = k.line[b])
      /\ En(k1) = En(k) /\ Retries(k1) = Retries(k) /\ \A b \in Addrs : Ent(k1, b) = Ent(k, b)
  BY <1>0, <1>1, KKSet
<1>3. Handed(k1, a) /\ FrontEv(En(k1), a)
  BY <1>1, <1>2 DEF Handed
<1>4. /\ KK(k2) /\ Frame(k1, k2) /\ k2.rBuf = k1.rBuf /\ Retries(k2) = Retries(k1) /\ Regs(k1, a, k2)
      /\ Started(Ent(k1, a), Ent(k2, a)) /\ SamePoints(k1, k2)
  BY <1>2, <1>3, KKSetProg
<1>5. k2.line[a] = l /\ \A b \in Addrs : b # a => k2.line[b] = k.line[b] /\ Ent(k2, b) = Ent(k, b)
  BY <1>2, <1>4 DEF Frame, Regs, Ent
<1>6. Started(Ent(k, a), Ent(k2, a))
  BY <1>2, <1>4
<1>7. 1 \in Ix(Ent(k, a)) /\ Ent(k, a)[1].type = "Event"
  BY <1>1, EnIs DEF FrontEv
<1>8. 1 \in Ix(Ent(k2, a)) /\ Ent(k2, a)[1].type = "Event" /\ Ent(k2, a)[1].inProgress = TRUE /\ Ent(k2, a)[1].ev = ev
      /\ \A i \in Ix(Ent(k2, a)) : i \in Ix(Ent(k, a)) /\ (i # 1 => Ent(k2, a)[i] = Ent(k, a)[i])
  BY <1>1, <1>6, <1>7 DEF Started
<1>9. Prog(k2, a) /\ Busy(k2, a) = ev.cmd
  BY <1>8, EnIs DEF Prog, Busy, FrontEv
<1>10. Mine(k2, c, n)
  BY <1>0, <1>1, <1>5, <1>7, <1>8 DEF Mine
<1>11. Free(k2)
  <2>1. \A b \in Addrs : b # a => (Prog(k2, b) <=> Prog(k, b))
    BY <1>5, ProgIs
  <2>2. QED BY <1>0, <1>1, <1>2, <1>4, <2>1 DEF Free
<1>12. /\ Mail(ch2) /\ Ext(ch[Down(c)][a], m, ch2[Down(c)][a]) /\ Kept1(c, ch, ch2)
       /\ ch2[Up(c)][a] = ch[Up(c)][a]
       /\ \A b \in Addrs : b # a => ch2[Up(c)][b] = ch[Up(c)][b] /\ ch2[Down(c)][b] = ch[Down(c)][b]
  BY <1>0, SendDown
<1>13. PairOf(c, a, k2, ch2, K)
  BY <1>5, <1>9, <1>12 DEF PairOf, PairAfter
<1>14. Good1(c, k2, ch2, K, n)
  BY <1>0, <1>4, <1>5, <1>10, <1>11, <1>12, <1>13, G1At
<1>15. QED BY <1>12, <1>14

(* The core's next id, once a new request has taken one. *)
N2(inMSHR, n) == IF inMSHR THEN n ELSE n + 1
(* The request ev of c is new, or retried. *)
Ask1(c, k, ev, inMSHR, n) ==
    /\ inMSHR \in BOOLEAN /\ ev.addr \in Addrs /\ ev.addr \in k.done
    /\ EvOK1(ev, c, ev.addr, N2(inMSHR, n))
    /\ inMSHR => Ready1(k, ev.addr, ev)
    /\ ~inMSHR => /\ ev.id = n /\ ~Null(Retries(k), ev.addr) /\ (Pend(Retries(k), ev.addr) => ev.addr \in No(k))

(* The fields of a message. *)
LEMMA EventIs ==
    ASSUME NEW cmd, NEW a, NEW src, NEW id, NEW m, m = Event(cmd, a, src, id)
    PROVE  m.cmd = cmd /\ m.addr = a /\ m.src = src /\ m.id = id /\ m.evict = FALSE
BY DEF Event

(* The fields of a message with data. *)
LEMMA DataIs ==
    ASSUME NEW cmd, NEW a, NEW src, NEW id, NEW x, NEW dirty, NEW m, m = WithData(Event(cmd, a, src, id), x, dirty)
    PROVE  m.cmd = cmd /\ m.addr = a /\ m.src = src /\ m.id = id /\ m.evict = FALSE
BY DEF WithData, Event

(* Ids grow. *)
LEMMA G1More ==
    ASSUME NEW c \in Cores, NEW k, NEW ch, NEW K, NEW n, Good1(c, k, ch, K, n), NEW inMSHR
    PROVE  Good1(c, k, ch, K, N2(inMSHR, n)) /\ N2(inMSHR, n) \in Nat
<1>0. n \in Nat
  BY DEF Good1
<1>1. N2(inMSHR, n) \in Nat /\ n <= N2(inMSHR, n)
  BY <1>0 DEF N2
<1>2. ASSUME NEW x, NEW b, EvOK1(x, c, b, n) PROVE EvOK1(x, c, b, N2(inMSHR, n))
  BY <1>0, <1>1, <1>2 DEF EvOK1
<1>3. Mine(k, c, N2(inMSHR, n))
  BY <1>2 DEF Good1, Mine
<1>4. QED BY <1>1, <1>3 DEF Good1

(* An address with no entries. *)
LEMMA FirstHanded ==
    ASSUME NEW k, KK(k), NEW a \in Addrs, 1 \notin Ix(Ent(k, a)), ~Null(Retries(k), a) PROVE Handed(k, a)
<1>1. ~FrontEv(En(k), a)
  BY EnIs DEF FrontEv
<1>2. ~Pend(Retries(k), a)
  BY <1>1 DEF KK, KI, RetriesFront, Pend
<1>3. ~Pointed(En(k), a)
  BY <1>1 DEF KK, KI, PointersWait, Waits
<1>4. QED BY <1>2, <1>3 DEF Handed, Hand

(* Nothing points to, or retries, an address whose line is present. *)
LEMMA PresentHanded ==
    ASSUME NEW k, KK(k), NEW a \in Addrs, a \notin No(k), ~Null(Retries(k), a), ~Pend(Retries(k), a) PROVE Handed(k, a)
BY DEF KK, KI, PointersWait, Waits, Handed, Hand

(* The L1 puts a new request in its MSHR. *)
LEMMA G1Allocate ==
    ASSUME NEW c \in Cores, NEW k, NEW ch, NEW K, NEW n, Good1(c, k, ch, K, n), NEW ev, NEW inMSHR, Ask1(c, k, ev, inMSHR, n),
           NEW a, a = ev.addr, NEW k1, k1 = L1Allocate(k, ev, inMSHR)
    PROVE  /\ Good1(c, k1, ch, K, N2(inMSHR, n)) /\ k1.line = k.line /\ k1.done = k.done
           /\ frontIs(k1, ev) => Ready1(k1, a, ev)
           /\ ~inMSHR /\ 1 \notin Ix(Ent(k, a)) => Ready1(k1, a, ev)
<1>0. KK(k) /\ n \in Nat /\ a \in Addrs /\ inMSHR \in BOOLEAN /\ Mine(k, c, n)
  BY DEF Good1, Ask1
<1>1. CASE inMSHR
  BY <1>1 DEF L1Allocate, Ask1, N2
<1>2. CASE ~inMSHR
  <2>1. k1 = [k EXCEPT !.mshr = insertEvent(@, a, ev)]
    BY <1>2 DEF L1Allocate
  <2>2. EvOK1(ev, c, a, n + 1) /\ N2(inMSHR, n) = n + 1 /\ ev.id = n /\ ~Null(Retries(k), a)
    BY <1>2 DEF Ask1, N2
  <2>3. /\ Good1(c, k1, ch, K, n + 1) /\ k1.line = k.line /\ k1.done = k.done /\ Retries(k1) = Retries(k)
        /\ Ext(Ent(k, a), EventEntry(ev), Ent(k1, a)) /\ SamePoints(k, k1)
    BY <1>0, <2>1, <2>2, G1Insert
  <2>4. KK(k1)
    BY <2>3 DEF Good1
  <2>5. EventEntry(ev).type = "Event" /\ EventEntry(ev).ev = ev /\ EventEntry(ev).inProgress = FALSE
    BY DEF EventEntry
  <2>6. 1 \notin Ix(Ent(k, a)) => Ready1(k1, a, ev)
    <3> SUFFICES ASSUME 1 \notin Ix(Ent(k, a)) PROVE Ready1(k1, a, ev)
      OBVIOUS
    <3>1. Handed(k, a)
      BY <1>0, <2>2, FirstHanded
    <3>2. Handed(k1, a)
      BY <2>3, <3>1 DEF Handed, Hand, SamePoints
    <3>3. 1 \in Ix(Ent(k1, a)) /\ Ent(k1, a)[1] = EventEntry(ev)
      <4>1. Len(Ent(k, a)) = 0
        BY <2>3 DEF Ext, Ix
      <4>2. QED BY <2>3, <4>1 DEF Ext, Ix
    <3>4. QED BY <1>0, <2>5, <3>2, <3>3, EnIs DEF Ready1, FrontEv, Prog
  <2>7. frontIs(k1, ev) => 1 \notin Ix(Ent(k, a))
    <3> SUFFICES ASSUME frontIs(k1, ev), 1 \in Ix(Ent(k, a)) PROVE FALSE
      OBVIOUS
    <3>1. 1 \in Ix(Ent(k1, a)) /\ Ent(k1, a)[1] = Ent(k, a)[1]
      BY <2>3, ExtIs
    <3>2. Ent(k1, a)[1].type = "Event" /\ Ent(k1, a)[1].ev = ev
      <4>1. FrontEv(En(k1), a)
        BY <1>0, <2>4, ExistsIs DEF frontIs
      <4>2. Ctl(k1)
        BY <2>4 DEF KK
      <4>3. getFrontEvent(k1.mshr, a) = Ent(k1, a)[1].ev
        BY <1>0, <3>1, <4>2, FrontIs
      <4>4. QED BY <1>0, <4>1, <4>3, EnIs DEF FrontEv, frontIs
    <3>3. EvOK1(ev, c, a, n)
      BY <1>0, <3>1, <3>2 DEF Mine
    <3>4. QED BY <1>0, <2>2, <3>3 DEF EvOK1
  <2>8. QED BY <1>2, <2>2, <2>3, <2>6, <2>7
<1>3. QED BY <1>0, <1>1, <1>2

(* A replacement candidate is a free way or a line. *)
LEMMA VictimIs ==
    ASSUME NEW k, NEW n, NEW v \in Victims(k, n) PROVE v = NoLine \/ (v \in Addrs /\ k.line[v].st # NoLine)
BY DEF Victims, Present

(* What a stable or absent line tells of the register. *)
LEMMA FitsNone ==
    ASSUME NEW s, NEW b, StateFits(s, b)
    PROVE  /\ s \in {"S", "E", "M"} => b = "none"
           /\ s \in {"I", NoLine} => b \in {"none"} \cup FlushCmds
           /\ s \in {"I", NoLine} => StateFits(NoLine, b)
BY DEF StateFits, CoreCmds, FlushCmds, NoLine

(* A line leaves an L1. *)
LEMMA G1Evict ==
    ASSUME NEW c \in Cores, NEW k, NEW ch, NEW K, NEW n, Good1(c, k, ch, K, n), NEW v, v = NoLine \/ v \in Addrs, L1Evictable(k, v),
           NEW k2, k2 = L1Remove(k, v), NEW ch2, ch2 = L1Writeback(ch, c, k, v)
    PROVE  /\ Good1(c, k2, ch2, K, n) /\ Kept1(c, ch, ch2) /\ k2.done = k.done /\ Retries(k2) = Retries(k) /\ En(k2) = En(k)
           /\ \A b \in Addrs : Ent(k2, b) = Ent(k, b) /\ (b # v => k2.line[b] = k.line[b])
<1>0. KK(k) /\ Mail(ch) /\ n \in Nat /\ Mine(k, c, n) /\ Free(k)
  BY DEF Good1
<1>1. CASE v = NoLine
  BY <1>1, Kept1Self DEF L1Remove, L1Writeback
<1>2. CASE v # NoLine
  <2>0. v \in Addrs
    BY <1>2
  <2>1. SetLine(k, v, NoLine1, k2)
    BY <1>0, <1>2, AckAssumption DEF L1Remove, SetLine, KK, Ctl
  <2>2. NoLine1.st = NoLine /\ "st" \in DOMAIN NoLine1
    BY DEF NoLine1
  <2>3. /\ KK(k2) /\ k2.mshr = k.mshr /\ k2.retry = k.retry /\ k2.rBuf = k.rBuf /\ k2.done = k.done
        /\ k2.line[v] = NoLine1 /\ (\A b \in Addrs : b # v => k2.line[b] = k.line[b])
        /\ En(k2) = En(k) /\ Retries(k2) = Retries(k) /\ \A b \in Addrs : Ent(k2, b) = Ent(k, b)
    BY <1>0, <2>0, <2>1, <2>2, KKSet
  <2>4. \A b \in Addrs : (Prog(k2, b) <=> Prog(k, b)) /\ Busy(k2, b) = Busy(k, b)
    BY <2>3, ProgIs
  <2>5. Mine(k2, c, n) /\ Free(k2)
    BY <1>0, <2>3, <2>4 DEF Mine, Free
  <2>6. StateFits(k.line[v].st, Busy(k, v)) /\ PairOf(c, v, k, ch, K)
    BY <2>0 DEF Good1, PairOf, Pair, Agree
  <2>7. CASE k.line[v].st = "I"
    <3>1. ch2 = ch
      BY <2>7 DEF L1Writeback
    <3>2. StateFits(NoLine, Busy(k, v)) /\ Similar("I", NoLine) /\ NoLine \notin Shared
      BY <2>6, <2>7, FitsNone DEF Similar, Holding, Owning, NoLine, Shared
    <3>3. PairOf(c, v, k2, ch2, K)
      BY <2>0, <2>2, <2>3, <2>4, <2>6, <2>7, <3>1, <3>2, PairSame DEF PairOf
    <3>4. Good1(c, k2, ch2, K, n)
      BY <1>0, <2>0, <2>3, <2>5, <3>1, <3>3, G1At
    <3>5. QED BY <2>3, <3>1, <3>4, Kept1Self
  <2>8. CASE k.line[v].st # "I"
    <3>1. k.line[v].st \in {"S", "E", "M"}
      BY <1>2, <2>8 DEF L1Evictable, Stable
    <3>2. PICK m : m = IF k.line[v].st = "M" THEN WithData(Event(PutOf[k.line[v].st], v, c, 0), k.line[v].data, TRUE)
                       ELSE Event(PutOf[k.line[v].st], v, c, 0)
      OBVIOUS
    <3>3. m.addr = v /\ m.src = c /\ m.cmd = PutOf[k.line[v].st]
      BY <3>2 DEF Event, WithData
    <3>4. m.cmd \in PutCmds /\ (m.cmd = "PutS" <=> k.line[v].st = "S")
      BY <3>1, <3>3 DEF PutOf, PutCmds
    <3>5. ch2 = Send(ch, Down(c), m)
      BY <1>2, <2>8, <3>2 DEF L1Writeback
    <3>6. /\ Mail(ch2) /\ Ext(ch[Down(c)][v], m, ch2[Down(c)][v]) /\ Kept1(c, ch, ch2)
          /\ ch2[Up(c)][v] = ch[Up(c)][v]
          /\ \A b \in Addrs : b # v => ch2[Up(c)][b] = ch[Up(c)][b] /\ ch2[Down(c)][b] = ch[Down(c)][b]
      BY <1>0, <2>0, <3>3, <3>5, SendDown
    <3>7. Busy(k, v) = "none"
      BY <2>6, <3>1, FitsNone
    <3>8. PairOf(c, v, k2, ch2, K)
      BY <2>0, <2>2, <2>3, <2>4, <2>6, <3>1, <3>4, <3>6, <3>7, PairEvict DEF PairOf
    <3>9. Good1(c, k2, ch2, K, n)
      BY <1>0, <2>0, <2>3, <2>5, <3>6, <3>8, G1At
    <3>10. QED BY <2>3, <3>6, <3>9
  <2>9. QED BY <2>7, <2>8
<1>3. QED BY <1>1, <1>2

SetBoth(k, a, st, k2) == k2 = [k EXCEPT !.line[a].st = st, !.mshr = setInProgress(@, a)]
(* A GetS or GetX goes down. *)
LEMMA G1Forward ==
    ASSUME NEW c \in Cores, NEW k, NEW ch, NEW K, NEW n, Good1(c, k, ch, K, n), NEW a \in Addrs, a \in k.done, NEW ev,
           Ready1(k, a, ev), ev.addr = a, NEW cmd, NEW st, NEW k2, SetBoth(k, a, st, k2),
           NEW ch2, ch2 = Send(ch, Down(c), Event(cmd, a, c, ev.id)),
           ev.cmd \in {"GetS", "Write"}, cmd = Asks(ev.cmd), StateFits(st, ev.cmd), Similar(k.line[a].st, st), st \in Shared => k.line[a].st \in Shared
    PROVE  Good1(c, k2, ch2, K, n) /\ Kept1(c, ch, ch2)
<1>0. KK(k) /\ Ctl(k)
  BY DEF Good1, KK
<1>1. PICK l, k1 : l = [k.line[a] EXCEPT !.st = st] /\ k1 = [k EXCEPT !.line[a] = l]
  OBVIOUS
<1>2. SetLine(k, a, l, k1) /\ l.st = st /\ "st" \in DOMAIN l
  BY <1>0, <1>1 DEF SetLine, Ctl
<1>3. SetProg(k1, a, k2)
  BY <1>0, <1>1 DEF SetProg, Ctl, SetBoth
<1>4. PICK m : m = Event(cmd, a, c, ev.id)
  OBVIOUS
<1>5. m.addr = a /\ m.src = c /\ m.cmd = cmd
  BY <1>4 DEF Event
<1>6. Pair(c, k.line[a].st, "none", ch[Up(c)][a], ch[Down(c)][a], K.line[a], K.resp[a], HC(c, K, a))
  BY DEF Good1, PairOf, Ready1, Busy
<1>7. PairAfter(c, a, l.st, ev.cmd, ch, m, K)
  BY <1>2, <1>5, <1>6, PairRequest DEF PairAfter
<1>8. ch2 = Send(ch, Down(c), m)
  BY <1>4
<1>9. QED BY <1>2, <1>3, <1>5, <1>7, <1>8, G1Start

(* The L1 stalls a request. *)
LEMMA G1Stall ==
    ASSUME NEW c \in Cores, NEW k, NEW ch, NEW K, NEW n, Good1(c, k, ch, K, n), NEW ev, NEW inMSHR, Ask1(c, k, ev, inMSHR, n),
           NEW k2, k2 = L1Allocate(k, ev, inMSHR)
    PROVE  Good1(c, k2, ch, K, N2(inMSHR, n))
BY G1Allocate

(* The states of a miss. *)
LEMMA MissFits ==
    ASSUME NEW s, NEW st, NEW e, (s \in {NoLine, "I"} /\ e = "GetS" /\ st = "IS") \/ (s \in {NoLine, "I"} /\ e = "Write" /\ st = "IM")
                                 \/ (s = "S" /\ e = "Write" /\ st = "SM")
    PROVE  StateFits(st, e) /\ Similar(s, st) /\ (st \in Shared => s \in Shared) /\ e \in {"GetS", "Write"} /\ st # NoLine
BY DEF StateFits, Similar, Holding, Owning, CoreCmds, NoLine, Shared

(* What a step of L1 c may leave behind. *)
Outcome1(c, K, ch, n) == \E k2 : Good1(c, k2, chan', K, n) /\ Kept1(c, ch, chan') /\ Put1(c, k2)

(* processCacheMiss of the L1, with its eviction. *)
LEMMA G1Miss ==
    ASSUME NEW c \in Cores, NEW k, NEW K, NEW n, Good1(c, k, chan, K, n), NEW ev, NEW inMSHR, Ask1(c, k, ev, inMSHR, n),
           NEW cmd, NEW st, cmd = Asks(ev.cmd),
           LET s == k.line[ev.addr].st  e == ev.cmd IN
           (s \in {NoLine, "I"} /\ e = "GetS" /\ st = "IS") \/ (s \in {NoLine, "I"} /\ e = "Write" /\ st = "IM")
                                 \/ (s = "S" /\ e = "Write" /\ st = "SM"),
           L1Miss(c, k, ev, inMSHR, cmd, st)
    PROVE  Outcome1(c, K, chan, N2(inMSHR, n))
<1>0. PICK a, k1, n2 : a = ev.addr /\ k1 = L1Allocate(k, ev, inMSHR) /\ n2 = N2(inMSHR, n)
  OBVIOUS
<1>1. a \in Addrs /\ a \in k.done
  BY <1>0 DEF Ask1
<1>2. /\ Good1(c, k1, chan, K, n2) /\ k1.line = k.line /\ k1.done = k.done
      /\ frontIs(k1, ev) => Ready1(k1, a, ev)
  BY <1>0, G1Allocate
<1>3. StateFits(st, ev.cmd) /\ Similar(k1.line[a].st, st) /\ (st \in Shared => k1.line[a].st \in Shared) /\ ev.cmd \in {"GetS", "Write"} /\ st # NoLine
  BY <1>0, <1>2, MissFits
<1>4. CASE ~frontIs(k1, ev) /\ Put1(c, k1) /\ UNCHANGED chan
  BY <1>0, <1>2, <1>4, Kept1Self DEF Outcome1
<1>5. CASE frontIs(k1, ev) /\ L1Forward(c, k1, chan, ev, cmd, st)
  <2>1. PICK k2 : k2 = [k1 EXCEPT !.line[a].st = st, !.mshr = setInProgress(@, a)]
    OBVIOUS
  <2>2. Put1(c, k2) /\ chan' = Send(chan, Down(c), Event(cmd, a, c, ev.id))
    BY <1>0, <1>5, <2>1 DEF L1Forward
  <2>3. Good1(c, k2, chan', K, n2) /\ Kept1(c, chan, chan')
    <3>1. SetBoth(k1, a, st, k2) /\ a \in k1.done /\ ev.addr = a /\ Ready1(k1, a, ev)
      BY <1>0, <1>1, <1>2, <1>5, <2>1 DEF SetBoth
    <3>2. QED BY <1>1, <1>2, <1>3, <2>2, <3>1, G1Forward
  <2>4. QED BY <1>0, <2>2, <2>3 DEF Outcome1
<1>6. ASSUME NEW v \in Victims(k1, L1Lines), frontIs(k1, ev), k1.line[a].st = NoLine, L1Evictable(k1, v),
             L1Forward(c, L1Remove(k1, v), L1Writeback(chan, c, k1, v), ev, cmd, st)
      PROVE  Outcome1(c, K, chan, n2)
  <2>0. v = NoLine \/ (v \in Addrs /\ k1.line[v].st # NoLine)
    BY <1>6, VictimIs
  <2>1. PICK kr, cr : kr = L1Remove(k1, v) /\ cr = L1Writeback(chan, c, k1, v)
    OBVIOUS
  <2>2. /\ Good1(c, kr, cr, K, n2) /\ Kept1(c, chan, cr) /\ kr.done = k1.done /\ Retries(kr) = Retries(k1) /\ En(kr) = En(k1)
        /\ \A b \in Addrs : Ent(kr, b) = Ent(k1, b) /\ (b # v => kr.line[b] = k1.line[b])
    BY <1>2, <1>6, <2>0, <2>1, G1Evict
  <2>3. a # v
    BY <1>6, <2>0, AddrsAssumption, <1>1
  <2>4. Ready1(kr, a, ev)
    BY <1>1, <1>2, <1>6, <2>2, ProgIs DEF Ready1, Handed
  <2>5. PICK k2 : k2 = [kr EXCEPT !.line[a].st = st, !.mshr = setInProgress(@, a)]
    OBVIOUS
  <2>6. Put1(c, k2) /\ chan' = Send(cr, Down(c), Event(cmd, a, c, ev.id))
    BY <1>0, <1>6, <2>1, <2>5 DEF L1Forward
  <2>7. kr.line[a] = k1.line[a] /\ a \in kr.done /\ ev.addr = a
    BY <1>0, <1>1, <1>2, <2>2, <2>3
  <2>8. Good1(c, k2, chan', K, n2) /\ Kept1(c, cr, chan')
    <3>1. SetBoth(kr, a, st, k2)
      BY <2>5 DEF SetBoth
    <3>2. Similar(kr.line[a].st, st) /\ (st \in Shared => kr.line[a].st \in Shared)
      BY <1>3, <2>7
    <3>3. QED BY <1>1, <1>3, <2>2, <2>4, <2>6, <2>7, <3>1, <3>2, G1Forward
  <2>9. QED BY <2>2, <2>6, <2>8, Kept1Trans DEF Outcome1
<1>7. ASSUME NEW v \in Victims(k1, L1Lines), frontIs(k1, ev), k1.line[a].st = NoLine, ~L1Evictable(k1, v),
             Put1(c, [k1 EXCEPT !.mshr = insertEviction(@, v, a)]), UNCHANGED chan
      PROVE  Outcome1(c, K, chan, n2)
  <2>0. v \in Addrs
    BY <1>7, VictimIs DEF L1Evictable
  <2>1. PICK k2 : k2 = [k1 EXCEPT !.mshr = insertEviction(@, v, a)]
    OBVIOUS
  <2>2. KK(k1) /\ Ready1(k1, a, ev)
    BY <1>2, <1>7 DEF Good1
  <2>3. Waits(Retries(k1), En(k1), No(k1), a) /\ ~Pointed(En(k1), a)
    <3>1. a \in No(k1)
      BY <1>1, <1>7 DEF No
    <3>2. ~En(k1)[a][1].inProgress
      BY <1>1, <2>2, EnIs DEF Ready1, Prog
    <3>3. QED BY <1>1, <2>2, <3>1, <3>2 DEF Ready1, Handed, Hand, Waits
  <2>4. KKBut(k1, v)
    BY <2>2, KKButIs
  <2>5. /\ KK(k2) /\ Frame(k1, k2) /\ Retries(k2) = Retries(k1) /\ Regs(k1, v, k2)
        /\ SameEvents(Ent(k1, v), Ent(k2, v))
    BY <2>0, <2>1, <2>3, <2>4, KKEvict
  <2>6. \A b \in Addrs : Evs(Ent(k1, b), Ent(k2, b))
    <3>1. ASSUME NEW b \in Addrs, b # v PROVE Evs(Ent(k1, b), Ent(k2, b))
      <4>1. Ent(k2, b) = Ent(k1, b) /\ IsSeq(Ent(k1, b))
        BY <2>2, <2>5, <3>1, EntLen DEF Regs, Ent, KK
      <4>2. QED BY <4>1, EvsSelf
    <3>2. QED BY <2>5, <3>1 DEF Evs
  <2>7. Good1(c, k2, chan, K, n2)
    BY <1>2, <2>5, <2>6, G1Evs DEF Frame
  <2>8. QED BY <1>7, <2>1, <2>7, Kept1Self DEF Outcome1
<1>8. Outcome1(c, K, chan, n2)
  <2>1. \/ ~frontIs(k1, ev) /\ Put1(c, k1) /\ UNCHANGED chan
        \/ frontIs(k1, ev) /\ k1.line[a].st # NoLine /\ L1Forward(c, k1, chan, ev, cmd, st)
        \/ /\ frontIs(k1, ev) /\ k1.line[a].st = NoLine
           /\ \E v \in Victims(k1, L1Lines) :
                    IF L1Evictable(k1, v)
                    THEN L1Forward(c, L1Remove(k1, v), L1Writeback(chan, c, k1, v), ev, cmd, st)
                    ELSE /\ Put1(c, [k1 EXCEPT !.mshr = insertEviction(@, v, a)])
                         /\ UNCHANGED chan
    BY <1>0 DEF L1Miss
  <2>2. CASE ~frontIs(k1, ev) /\ Put1(c, k1) /\ UNCHANGED chan
    BY <1>0, <1>4, <2>2
  <2>3. CASE frontIs(k1, ev) /\ k1.line[a].st # NoLine /\ L1Forward(c, k1, chan, ev, cmd, st)
    BY <1>0, <1>5, <2>3
  <2>4. CASE /\ frontIs(k1, ev) /\ k1.line[a].st = NoLine
             /\ \E v \in Victims(k1, L1Lines) :
                    IF L1Evictable(k1, v)
                    THEN L1Forward(c, L1Remove(k1, v), L1Writeback(chan, c, k1, v), ev, cmd, st)
                    ELSE /\ Put1(c, [k1 EXCEPT !.mshr = insertEviction(@, v, a)])
                         /\ UNCHANGED chan
    <3>1. PICK v \in Victims(k1, L1Lines) :
                    IF L1Evictable(k1, v)
                    THEN L1Forward(c, L1Remove(k1, v), L1Writeback(chan, c, k1, v), ev, cmd, st)
                    ELSE /\ Put1(c, [k1 EXCEPT !.mshr = insertEviction(@, v, a)])
                         /\ UNCHANGED chan
      BY <2>4
    <3>2. CASE L1Evictable(k1, v)
      BY <1>6, <2>4, <3>1, <3>2
    <3>3. CASE ~L1Evictable(k1, v)
      BY <1>7, <2>4, <3>1, <3>3
    <3>4. QED BY <3>2, <3>3
  <2>5. QED BY <2>1, <2>2, <2>3, <2>4
<1>9. QED BY <1>0, <1>8

SetPop(k, a, k2) == k2 = [k EXCEPT !.mshr = removeFront(@, a)]

(* removeFront, by its name. *)
LEMMA KKSetPop ==
    ASSUME NEW k, KK(k), NEW a, Handed(k, a), FrontEv(En(k), a), NEW k2, SetPop(k, a, k2)
    PROVE  /\ KK(k2) /\ Handed(k2, a) /\ Frame(k, k2) /\ k2.rBuf = k.rBuf /\ Retries(k2) = Retries(k) /\ Regs(k, a, k2)
           /\ Cut(Ent(k, a), Ent(k2, a)) /\ Erased(k, a, k2) /\ SamePoints(k, k2)
BY KKPop DEF SetPop

(* The event behind the front one is not in progress. *)
LEMMA PopProg ==
    ASSUME NEW k, KK(k), NEW a \in Addrs, NEW k2, Cut(Ent(k, a), Ent(k2, a)) PROVE ~Prog(k2, a) /\ Busy(k2, a) = "none"
<1>1. ~Prog(k2, a)
  <2> SUFFICES ASSUME Prog(k2, a) PROVE FALSE
    OBVIOUS
  <2>1. 1 \in Ix(Ent(k2, a)) /\ Ent(k2, a)[1].type = "Event" /\ Ent(k2, a)[1].inProgress
    BY EnIs DEF Prog, FrontEv
  <2>2. Ent(k2, a)[1] = Ent(k, a)[2] /\ 2 \in Ix(Ent(k, a))
    BY <2>1, CutIs
  <2>3. EntryAt(Ent(k, a)[2], a, 2)
    BY <2>2, EntryIs
  <2>4. QED BY <2>1, <2>2, <2>3 DEF EntryAt
<1>2. QED BY <1>1 DEF Busy

(* One of the core's requests is done. *)
LEMMA CutMine ==
    ASSUME NEW k, NEW k2, NEW c, NEW n, Mine(k, c, n), NEW a \in Addrs, Cut(Ent(k, a), Ent(k2, a)),
           \A b \in Addrs : b # a => Ent(k2, b) = Ent(k, b)
    PROVE  Mine(k2, c, n)
<1> SUFFICES ASSUME NEW b \in Addrs, NEW i \in Ix(Ent(k2, b)), Ent(k2, b)[i].type = "Event" PROVE EvOK1(Ent(k2, b)[i].ev, c, b, n)
  BY DEF Mine
<1>1. CASE b # a
  BY <1>1 DEF Mine
<1>2. CASE b = a
  <2>1. i + 1 \in Ix(Ent(k, a)) /\ Ent(k2, a)[i] = Ent(k, a)[i + 1]
    BY <1>2, CutIs
  <2>2. QED BY <1>2, <2>1 DEF Mine
<1>3. QED BY <1>1, <1>2

(* Waking the next in line. *)
LEMMA G1Replay ==
    ASSUME NEW c \in Cores, NEW k, NEW ch, NEW K, NEW n, Good1(c, k, ch, K, n), NEW a, Handed(k, a), a \in k.done,
           NEW k2, k2 = Replay(k, a)
    PROVE  Good1(c, k2, ch, K, n)
<1>0. KK(k) /\ a \in Addrs
  BY DEF Good1, Handed, Hand
<1>1. /\ KK(k2) /\ Calm(k, k2)
      /\ \A b : Pend(Retries(k2), b) => Pend(Retries(k), b) \/ (b = a /\ FrontEv(En(k), a) /\ ~Ent(k, a)[1].inProgress)
  BY <1>0, KKReplay
<1>2. Alike(k, k2)
  BY <1>1, CalmAlike
<1>3. ~Prog(k, a) => ~Prog(k2, a)
  BY <1>0, <1>2, ProgIs DEF Alike
<1>4. \A b \in Addrs : Pend(Retries(k2), b) => Pend(Retries(k), b) \/ ~Prog(k2, b)
  BY <1>1, <1>3 DEF Prog
<1>5. QED BY <1>1, <1>2, <1>4, G1Alike

(* The front event of a is answered. *)
LEMMA G1Clean ==
    ASSUME NEW c \in Cores, NEW k, NEW ch, NEW K, NEW n, Good1(c, k, ch, K, n), NEW a, Handed(k, a), FrontEv(En(k), a), a \in k.done,
           NEW l, "st" \in DOMAIN l, NEW kl, SetLine(k, a, l, kl), NEW kp, SetPop(kl, a, kp), NEW k2, k2 = Replay(kp, a),
           NEW ch2, Mail(ch2),
           \A b \in Addrs : b # a => ch2[Up(c)][b] = ch[Up(c)][b] /\ ch2[Down(c)][b] = ch[Down(c)][b],
           Pair(c, l.st, "none", ch2[Up(c)][a], ch2[Down(c)][a], K.line[a], K.resp[a], HC(c, K, a))
    PROVE  Good1(c, k2, ch2, K, n)
<1>0. KK(k) /\ a \in Addrs /\ n \in Nat /\ Mine(k, c, n) /\ Free(k) /\ ~Pointed(En(k), a) /\ ~Pend(Retries(k), a)
  BY DEF Good1, Handed, Hand
<1>1. /\ KK(kl) /\ kl.mshr = k.mshr /\ kl.retry = k.retry /\ kl.rBuf = k.rBuf /\ kl.done = k.done
      /\ kl.line[a] = l /\ (\A b \in Addrs : b # a => kl.line[b] = k.line[b])
      /\ En(kl) = En(k) /\ Retries(kl) = Retries(k) /\ \A b \in Addrs : Ent(kl, b) = Ent(k, b)
  BY <1>0, KKSet
<1>2. Handed(kl, a) /\ FrontEv(En(kl), a)
  BY <1>1 DEF Handed
<1>3. /\ KK(kp) /\ Handed(kp, a) /\ Frame(kl, kp) /\ kp.rBuf = kl.rBuf /\ Retries(kp) = Retries(kl) /\ Regs(kl, a, kp)
      /\ Cut(Ent(kl, a), Ent(kp, a))
  BY <1>1, <1>2, KKSetPop
<1>4. kp.line[a] = l /\ \A b \in Addrs : b # a => kp.line[b] = k.line[b] /\ Ent(kp, b) = Ent(k, b)
  BY <1>1, <1>3 DEF Frame, Regs, Ent
<1>5. Cut(Ent(k, a), Ent(kp, a))
  BY <1>0, <1>1, <1>3
<1>6. ~Prog(kp, a) /\ Busy(kp, a) = "none"
  BY <1>0, <1>5, PopProg
<1>7. Mine(kp, c, n)
  BY <1>0, <1>4, <1>5, CutMine
<1>8. Free(kp)
  <2>1. \A b \in Addrs : b # a => (Prog(kp, b) <=> Prog(k, b))
    BY <1>4, ProgIs
  <2>2. QED BY <1>0, <1>1, <1>3, <1>6, <2>1 DEF Free
<1>9. PairOf(c, a, kp, ch2, K)
  BY <1>4, <1>6 DEF PairOf
<1>10. Good1(c, kp, ch2, K, n)
  BY <1>0, <1>3, <1>4, <1>7, <1>8, <1>9, G1At
<1>11. a \in kp.done
  BY <1>1, <1>3 DEF Frame
<1>12. QED BY <1>3, <1>10, <1>11, G1Replay

(* A request that hits is answered at once. *)
LEMMA G1Hit ==
    ASSUME NEW c \in Cores, NEW k, NEW ch, NEW K, NEW n, Good1(c, k, ch, K, n), NEW ev, NEW inMSHR, Ask1(c, k, ev, inMSHR, n),
           NEW l, "st" \in DOMAIN l, NEW kl, SetLine(k, ev.addr, l, kl), NEW k2, k2 = cleanUpAfterRequest(kl, ev.addr, inMSHR),
           k.line[ev.addr].st \in {"S", "E", "M"}, l.st \in {"S", "E", "M"}, Similar(k.line[ev.addr].st, l.st)
    PROVE  Good1(c, k2, ch, K, N2(inMSHR, n))
<1>0. PICK a : a = ev.addr
  OBVIOUS
<1>1. KK(k) /\ Mail(ch) /\ n \in Nat /\ Mine(k, c, n) /\ Free(k) /\ a \in Addrs /\ a \in k.done /\ inMSHR \in BOOLEAN /\ l.st # NoLine
  BY <1>0 DEF Good1, Ask1, NoLine
<1>2. PairOf(c, a, k, ch, K) /\ StateFits(k.line[a].st, Busy(k, a))
  BY <1>1 DEF Good1, PairOf, Pair, Agree
<1>3. Busy(k, a) = "none"
  BY <1>0, <1>2, FitsNone
<1>4. StateFits(l.st, "none") /\ (l.st \in Shared => k.line[ev.addr].st \in Shared)
  BY DEF StateFits, Similar, Shared, Owning, Holding
<1>5. Pair(c, l.st, "none", ch[Up(c)][a], ch[Down(c)][a], K.line[a], K.resp[a], HC(c, K, a))
  BY <1>0, <1>2, <1>3, <1>4, PairSame DEF PairOf
<1>6. a \notin No(k)
  BY <1>0 DEF No, NoLine
<1>7. CASE inMSHR
  <2>1. Handed(k, a) /\ FrontEv(En(k), a)
    BY <1>0, <1>7 DEF Ask1, Ready1
  <2>2. PICK kp : kp = [kl EXCEPT !.mshr = removeFront(@, a)]
    OBVIOUS
  <2>3. SetPop(kl, a, kp) /\ k2 = Replay(kp, a)
    BY <1>0, <1>7, <2>2 DEF SetPop, cleanUpAfterRequest
  <2>4. Good1(c, k2, ch, K, n)
    BY <1>0, <1>1, <1>5, <2>1, <2>3, G1Clean
  <2>5. QED BY <1>7, <2>4 DEF N2
<1>8. CASE ~inMSHR
  <2>1. ~Null(Retries(k), a) /\ ~Pend(Retries(k), a)
    BY <1>0, <1>6, <1>8 DEF Ask1
  <2>2. /\ KK(kl) /\ kl.mshr = k.mshr /\ kl.retry = k.retry /\ kl.rBuf = k.rBuf /\ kl.done = k.done
        /\ kl.line[a] = l /\ (\A b \in Addrs : b # a => kl.line[b] = k.line[b])
        /\ En(kl) = En(k) /\ Retries(kl) = Retries(k) /\ \A b \in Addrs : Ent(kl, b) = Ent(k, b)
    BY <1>0, <1>1, <1>6, KKSet
  <2>3. \A b \in Addrs : (Prog(kl, b) <=> Prog(k, b)) /\ Busy(kl, b) = Busy(k, b)
    BY <2>2, ProgIs
  <2>4. Mine(kl, c, n) /\ Free(kl)
    BY <1>1, <2>2, <2>3 DEF Mine, Free
  <2>5. PairOf(c, a, kl, ch, K)
    BY <1>1, <1>3, <1>5, <2>2, <2>3 DEF PairOf
  <2>6. Good1(c, kl, ch, K, n)
    BY <1>1, <2>2, <2>4, <2>5, G1At
  <2>7. a \notin No(kl)
    BY <1>1, <2>2 DEF No
  <2>8. Handed(kl, a)
    BY <1>1, <2>1, <2>2, <2>7, PresentHanded
  <2>9. k2 = Replay(kl, a)
    BY <1>0, <1>8 DEF cleanUpAfterRequest
  <2>10. Good1(c, k2, ch, K, n)
    BY <1>1, <2>2, <2>6, <2>8, <2>9, G1Replay
  <2>11. QED BY <2>10, G1More
<1>9. QED BY <1>1, <1>7, <1>8

(* handleFlushLine and handleFlushLineInv of the L1. *)
LEMMA G1Flush ==
    ASSUME NEW c \in Cores, NEW k, NEW K, NEW n, Good1(c, k, chan, K, n), NEW ev, NEW inMSHR, Ask1(c, k, ev, inMSHR, n),
           ev.cmd \in {"FlushLine", "FlushLineInv"}, L1Flush(c, k, ev, inMSHR)
    PROVE  Outcome1(c, K, chan, N2(inMSHR, n))
<1>0. PICK a, k1, n2, st, gone, down : 
         /\ a = ev.addr /\ k1 = L1Allocate(k, ev, inMSHR) /\ n2 = N2(inMSHR, n) /\ st = k.line[a].st
         /\ gone = IF ev.cmd = "FlushLine" THEN st \in {"E", "M"} ELSE st \notin {NoLine, "I"}
         /\ down = IF gone THEN [WithData(ev, k.line[a].data, st = "M") EXCEPT !.evict = TRUE] ELSE ev
  OBVIOUS
<1>1. a \in Addrs /\ a \in k.done /\ KK(k) /\ inMSHR \in BOOLEAN /\ EvOK1(ev, c, a, n2)
  BY <1>0 DEF Ask1, Good1
<1>2. /\ Good1(c, k1, chan, K, n2) /\ k1.line = k.line /\ k1.done = k.done
      /\ frontIs(k1, ev) => Ready1(k1, a, ev)
      /\ ~inMSHR /\ 1 \notin Ix(Ent(k, a)) => Ready1(k1, a, ev)
  BY <1>0, G1Allocate
<1>3. CASE L1Stall(c, k, ev, inMSHR)
  <2>1. Put1(c, k1) /\ UNCHANGED chan
    BY <1>0, <1>3 DEF L1Stall
  <2>2. QED BY <1>0, <1>2, <2>1, Kept1Self DEF Outcome1
<1>4. CASE ~(\/ ~inMSHR /\ exists(k.mshr, a)
             \/ inMSHR /\ ev.cmd = "FlushLineInv" /\ ~frontIs(k, ev))
  <2>1. Ready1(k1, a, ev)
    <3>1. CASE inMSHR
      BY <1>0, <3>1 DEF Ask1, L1Allocate
    <3>2. CASE ~inMSHR
      BY <1>1, <1>2, <1>4, <3>2, ExistsIs
    <3>3. QED BY <3>1, <3>2
  <2>2. PICK t, k2 : /\ t = IF st \in {NoLine, "I"} THEN st ELSE IF ev.cmd = "FlushLine" THEN "S_B" ELSE "I_B"
                     /\ k2 = [k1 EXCEPT !.mshr = setInProgress(@, a), !.line[a].st = t]
    OBVIOUS
  <2>3. Put1(c, k2) /\ chan' = Send(chan, Down(c), down)
    <3>1. [k1 EXCEPT !.mshr = setInProgress(@, a),
                     !.line[a].st = IF st \in {NoLine, "I"} THEN @
                                    ELSE IF ev.cmd = "FlushLine" THEN "S_B" ELSE "I_B"] = k2
      BY <1>0, <1>2, <2>2
    <3>2. QED BY <1>0, <1>4, <3>1 DEF L1Flush
  <2>4. KK(k1) /\ Ctl(k1)
    BY <1>2 DEF Good1, KK
  <2>5. PICK l, kl : l = [k1.line[a] EXCEPT !.st = t] /\ kl = [k1 EXCEPT !.line[a] = l]
    OBVIOUS
  <2>6. SetLine(k1, a, l, kl) /\ l.st = t /\ "st" \in DOMAIN l
    BY <1>1, <2>4, <2>5 DEF SetLine, Ctl
  <2>7. SetProg(kl, a, k2)
    BY <1>1, <2>2, <2>4, <2>5 DEF SetProg, Ctl
  <2>8. down.addr = a /\ down.src = c /\ down.cmd = ev.cmd /\ (down.evict <=> gone)
    <3>1. CASE gone
      BY <1>0, <1>1, <3>1 DEF EvOK1, WithData
    <3>2. CASE ~gone
      BY <1>0, <1>1, <3>2 DEF EvOK1
    <3>3. QED BY <3>1, <3>2
  <2>9. Pair(c, st, "none", chan[Up(c)][a], chan[Down(c)][a], K.line[a], K.resp[a], HC(c, K, a))
    BY <1>0, <1>1, <1>2, <2>1 DEF Good1, PairOf, Ready1, Busy
  <2>10. PairAfter(c, a, l.st, ev.cmd, chan, down, K)
    <3> SUFFICES ASSUME NEW d2, Ext(chan[Down(c)][a], down, d2)
                 PROVE  Pair(c, t, ev.cmd, chan[Up(c)][a], d2, K.line[a], K.resp[a], HC(c, K, a))
      BY <2>6 DEF PairAfter
    <3>1. ev.cmd \in FlushCmds
      BY DEF FlushCmds
    <3>2. down.evict <=> IF ev.cmd = "FlushLine" THEN st \in {"E", "M"} ELSE st \notin {NoLine, "I"}
      BY <1>0, <2>8
    <3>3. QED BY <2>2, <2>8, <2>9, <3>1, <3>2, PairFlush
  <2>11. a \in k1.done
    BY <1>1, <1>2
  <2>12. Good1(c, k2, chan', K, n2) /\ Kept1(c, chan, chan')
    BY <1>1, <1>2, <2>1, <2>3, <2>6, <2>7, <2>8, <2>10, <2>11, G1Start
  <2>13. QED BY <1>0, <2>3, <2>12 DEF Outcome1
<1>5. QED BY <1>0, <1>3, <1>4 DEF L1Flush

(* handleGetS of the L1. *)
LEMMA G1GetS ==
    ASSUME NEW c \in Cores, NEW k, NEW K, NEW n, Good1(c, k, chan, K, n), NEW ev, NEW inMSHR, Ask1(c, k, ev, inMSHR, n),
           ev.cmd = "GetS", L1GetS(c, k, ev, inMSHR)
    PROVE  Outcome1(c, K, chan, N2(inMSHR, n))
<1>0. PICK a, l : a = ev.addr /\ l = LoadLine(k.line[a], ev)
  OBVIOUS
<1>1. a \in Addrs /\ KK(k) /\ Ctl(k)
  BY <1>0 DEF Ask1, Good1, KK
<1>2. CASE k.line[a].st \in Stable /\ Put1(c, cleanUpAfterRequest([k EXCEPT !.line[a] = LoadLine(@, ev)], a, inMSHR)) /\ UNCHANGED chan
  <2>1. PICK kl, k2 : kl = [k EXCEPT !.line[a] = l] /\ k2 = cleanUpAfterRequest(kl, a, inMSHR)
    OBVIOUS
  <2>2. SetLine(k, a, l, kl) /\ Put1(c, k2)
    <3>1. [k EXCEPT !.line[a] = LoadLine(@, ev)] = kl
      BY <1>0, <1>1, <2>1 DEF Ctl
    <3>2. QED BY <1>2, <2>1, <3>1 DEF SetLine
  <2>3. "st" \in DOMAIN l /\ l.st = k.line[a].st
    BY <1>0, <1>1 DEF LoadLine, Ctl
  <2>4. k.line[a].st \in {"S", "E", "M"} /\ Similar(k.line[a].st, l.st)
    BY <1>2, <2>3 DEF Stable, Similar
  <2>5. Good1(c, k2, chan, K, N2(inMSHR, n))
    BY <1>0, <2>1, <2>2, <2>3, <2>4, G1Hit
  <2>6. QED BY <1>2, <2>2, <2>5, Kept1Self DEF Outcome1
<1>3. CASE k.line[a].st \in {NoLine, "I"} /\ L1Miss(c, k, ev, inMSHR, "GetS", "IS")
  <2>1. Asks(ev.cmd) = "GetS"
    BY DEF Asks
  <2>2. QED BY <1>0, <1>3, <2>1, G1Miss
<1>4. CASE L1Stall(c, k, ev, inMSHR)
  <2>1. PICK k2 : k2 = L1Allocate(k, ev, inMSHR)
    OBVIOUS
  <2>2. Good1(c, k2, chan, K, N2(inMSHR, n))
    BY <2>1, G1Stall
  <2>3. QED BY <1>4, <2>1, <2>2, Kept1Self DEF L1Stall, Outcome1
<1>5. QED BY <1>0, <1>2, <1>3, <1>4 DEF L1GetS

(* handleWrite of the L1. *)
LEMMA G1Write ==
    ASSUME NEW c \in Cores, NEW k, NEW K, NEW n, Good1(c, k, chan, K, n), NEW ev, NEW inMSHR, Ask1(c, k, ev, inMSHR, n),
           ev.cmd = "Write", L1Write(c, k, ev, inMSHR)
    PROVE  Outcome1(c, K, chan, N2(inMSHR, n))
<1>0. PICK a, l : a = ev.addr /\ l = StoreLine(k.line[a], ev)
  OBVIOUS
<1>1. a \in Addrs /\ KK(k) /\ Ctl(k)
  BY <1>0 DEF Ask1, Good1, KK
<1>2. CASE k.line[a].st \in {"E", "M"} /\ Put1(c, cleanUpAfterRequest([k EXCEPT !.line[a] = StoreLine(@, ev)], a, inMSHR)) /\ UNCHANGED chan
  <2>1. PICK kl, k2 : kl = [k EXCEPT !.line[a] = l] /\ k2 = cleanUpAfterRequest(kl, a, inMSHR)
    OBVIOUS
  <2>2. SetLine(k, a, l, kl) /\ Put1(c, k2)
    <3>1. [k EXCEPT !.line[a] = StoreLine(@, ev)] = kl
      BY <1>0, <1>1, <2>1 DEF Ctl
    <3>2. QED BY <1>2, <2>1, <3>1 DEF SetLine
  <2>3. "st" \in DOMAIN l /\ l.st = "M"
    BY <1>0, <1>1 DEF StoreLine, Ctl
  <2>4. k.line[a].st \in {"S", "E", "M"} /\ Similar(k.line[a].st, l.st)
    BY <1>2, <2>3 DEF Similar, Holding, Owning
  <2>5. Good1(c, k2, chan, K, N2(inMSHR, n))
    BY <1>0, <2>1, <2>2, <2>3, <2>4, G1Hit
  <2>6. QED BY <1>2, <2>2, <2>5, Kept1Self DEF Outcome1
<1>3. Asks(ev.cmd) = "GetX"
  BY DEF Asks
<1>4. CASE k.line[a].st \in {NoLine, "I"} /\ L1Miss(c, k, ev, inMSHR, "GetX", "IM")
  BY <1>0, <1>3, <1>4, G1Miss
<1>5. CASE k.line[a].st = "S" /\ L1Miss(c, k, ev, inMSHR, "GetX", "SM")
  BY <1>0, <1>3, <1>5, G1Miss
<1>6. CASE L1Stall(c, k, ev, inMSHR)
  <2>1. PICK k2 : k2 = L1Allocate(k, ev, inMSHR)
    OBVIOUS
  <2>2. Good1(c, k2, chan, K, N2(inMSHR, n))
    BY <2>1, G1Stall
  <2>3. QED BY <1>6, <2>1, <2>2, Kept1Self DEF L1Stall, Outcome1
<1>7. QED BY <1>0, <1>2, <1>4, <1>5, <1>6 DEF L1Write

(* Every request the L1 handles. *)
LEMMA G1Request ==
    ASSUME NEW c \in Cores, NEW k, NEW K, NEW n, Good1(c, k, chan, K, n), NEW ev, NEW inMSHR, Ask1(c, k, ev, inMSHR, n),
           L1HandleRequest(c, k, ev, inMSHR)
    PROVE  Outcome1(c, K, chan, N2(inMSHR, n))
BY G1GetS, G1Write, G1Flush DEF L1HandleRequest

(* The line of a changes, its register does not. *)
LEMMA G1Line ==
    ASSUME NEW c \in Cores, NEW k, NEW ch, NEW K, NEW n, Good1(c, k, ch, K, n), NEW a \in Addrs, a \notin No(k),
           NEW l, "st" \in DOMAIN l, NEW k2, SetLine(k, a, l, k2), NEW ch2, Mail(ch2),
           \A b \in Addrs : b # a => ch2[Up(c)][b] = ch[Up(c)][b] /\ ch2[Down(c)][b] = ch[Down(c)][b],
           Pair(c, l.st, Busy(k, a), ch2[Up(c)][a], ch2[Down(c)][a], K.line[a], K.resp[a], HC(c, K, a))
    PROVE  Good1(c, k2, ch2, K, n)
<1>1. KK(k) /\ n \in Nat /\ Mine(k, c, n) /\ Free(k)
  BY DEF Good1
<1>2. /\ KK(k2) /\ k2.line[a] = l /\ (\A b \in Addrs : b # a => k2.line[b] = k.line[b])
      /\ Retries(k2) = Retries(k) /\ \A b \in Addrs : Ent(k2, b) = Ent(k, b)
  BY <1>1, KKSet
<1>3. \A b \in Addrs : (Prog(k2, b) <=> Prog(k, b)) /\ Busy(k2, b) = Busy(k, b)
  BY <1>2, ProgIs
<1>4. Mine(k2, c, n) /\ Free(k2)
  BY <1>1, <1>2, <1>3 DEF Mine, Free
<1>5. PairOf(c, a, k2, ch2, K)
  BY <1>2, <1>3 DEF PairOf
<1>6. QED BY <1>1, <1>2, <1>4, <1>5, G1At

(* Only the messages at a change. *)
LEMMA G1Mail ==
    ASSUME NEW c \in Cores, NEW k, NEW ch, NEW K, NEW n, Good1(c, k, ch, K, n), NEW a \in Addrs, NEW ch2, Mail(ch2),
           \A b \in Addrs : b # a => ch2[Up(c)][b] = ch[Up(c)][b] /\ ch2[Down(c)][b] = ch[Down(c)][b],
           Pair(c, k.line[a].st, Busy(k, a), ch2[Up(c)][a], ch2[Down(c)][a], K.line[a], K.resp[a], HC(c, K, a))
    PROVE  Good1(c, k, ch2, K, n)
<1>1. KK(k) /\ n \in Nat /\ Mine(k, c, n) /\ Free(k)
  BY DEF Good1
<1>2. PairOf(c, a, k, ch2, K)
  BY DEF PairOf
<1>3. QED BY <1>1, <1>2, G1At

(* The message ev for a is at the head of c's link, ch is what is left. *)
Arrived(c, k, a, ev, ch) ==
    /\ a \in Addrs /\ chan[Up(c)][a] # <<>> /\ a \in k.done
    /\ ~Null(Retries(k), a) /\ (Pend(Retries(k), a) => a \in No(k))
    /\ ev = Head(chan[Up(c)][a]) /\ ch = Deliver(Up(c), a)
(* What is known of a message that has arrived. *)
Got(c, k, a, ev, ch, K) ==
    /\ Mail(ch) /\ Kept1(c, chan, ch) /\ Cut(chan[Up(c)][a], ch[Up(c)][a]) /\ chan[Up(c)][a][1] = ev
    /\ ch[Down(c)][a] = chan[Down(c)][a]
    /\ \A b \in Addrs : b # a => ch[Up(c)][b] = chan[Up(c)][b] /\ ch[Down(c)][b] = chan[Down(c)][b]
    /\ ev.addr = a /\ ev.cmd \in SnoopCmds \cup RespCmds
    /\ ev.cmd = "NACK" => ev.nacked.addr = a /\ ev.nacked.src = c
    /\ Pair(c, k.line[a].st, Busy(k, a), chan[Up(c)][a], chan[Down(c)][a], K.line[a], K.resp[a], HC(c, K, a))

(* That much is known. *)
LEMMA G1Got ==
    ASSUME NEW c \in Cores, NEW k, NEW K, NEW n, Good1(c, k, chan, K, n), NEW a, NEW ev, NEW ch, Arrived(c, k, a, ev, ch)
    PROVE  Got(c, k, a, ev, ch, K)
<1>1. Mail(chan) /\ a \in Addrs /\ PairOf(c, a, k, chan, K) /\ chan[Up(c)][a] # <<>>
  BY DEF Good1, Arrived
<1>2. Up(c) \in Links
  BY LinkIs
<1>3. ch = [chan EXCEPT ![Up(c)][a] = Tail(@)]
  BY DEF Arrived, Deliver
<1>4. /\ Mail(ch) /\ Cut(chan[Up(c)][a], ch[Up(c)][a]) /\ Others(chan, Up(c), a, ch)
      /\ Head(chan[Up(c)][a]) = chan[Up(c)][a][1] /\ MsgOK(chan[Up(c)][a][1], Up(c), a)
  BY <1>1, <1>2, <1>3, TakeIs
<1>5. /\ Kept1(c, chan, ch) /\ ch[Down(c)][a] = chan[Down(c)][a]
      /\ \A b \in Addrs : b # a => ch[Up(c)][b] = chan[Up(c)][b] /\ ch[Down(c)][b] = chan[Down(c)][b]
  <2>1. PICK l : l = Up(c)
    OBVIOUS
  <2>2. Others(chan, l, a, ch) /\ (l = Up(c) \/ l = Down(c))
    BY <1>4, <2>1
  <2>3. Kept1(c, chan, ch)
    BY <2>2, Kept1Others
  <2>4. QED BY <1>1, <2>1, <2>2, <2>3, OthersAt
<1>6. chan[Up(c)][a][1] = ev
  BY <1>4 DEF Arrived
<1>7. ev.addr = a /\ ev.cmd \in SnoopCmds \cup RespCmds /\ (ev.cmd = "NACK" => ev.nacked.addr = a /\ ev.nacked.src = c)
  BY <1>4, <1>6 DEF MsgOK
<1>8. QED BY <1>1, <1>4, <1>5, <1>6, <1>7 DEF Got, PairOf

(* The L1's handlers of Inv, FetchInv and FetchInvX. *)
LEMMA G1Snoop ==
    ASSUME NEW c \in Cores, NEW k, NEW K, NEW n, Good1(c, k, chan, K, n), NEW a, NEW ev, NEW ch, Arrived(c, k, a, ev, ch),
           ev.cmd \in DOMAIN L1SnoopResponse, L1Snoop(c, k, ev, ch)
    PROVE  Outcome1(c, K, chan, n)
<1>1. Got(c, k, a, ev, ch, K) /\ a \in Addrs /\ KK(k) /\ Ctl(k)
  BY G1Got DEF Arrived, Good1, KK
<1>2. ev.cmd \in SnoopCmds /\ ev.addr = a
  BY <1>1 DEF L1SnoopResponse, SnoopCmds, Got
<1>3. PICK s : s = k.line[a].st
  OBVIOUS
<1>4. StateFits(s, Busy(k, a))
  BY <1>1, <1>3 DEF Got, Pair, Agree
<1>5. CASE s \in L1SnoopAnswered(ev.cmd)
  <2>1. PICK l, k2, m, t : /\ l = SnoopedLine(k.line[a], ev.cmd) /\ k2 = [k EXCEPT !.line[a] = l] /\ t = L1AfterSnoop(ev.cmd, s)
                           /\ m = IF ev.cmd = "Inv" THEN Event(L1SnoopResponse[ev.cmd], a, c, 0)
                                  ELSE WithData(Event(L1SnoopResponse[ev.cmd], a, c, 0), k.line[a].data, s = "M")
    OBVIOUS
  <2>2. Put1(c, k2) /\ chan' = Send(ch, Down(c), m)
    BY <1>2, <1>3, <1>5, <2>1 DEF L1Snoop
  <2>3. m.addr = a /\ m.src = c /\ m.cmd = L1SnoopResponse[ev.cmd]
    BY <2>1 DEF Event, WithData
  <2>4. l.st = t /\ "st" \in DOMAIN l /\ SetLine(k, a, l, k2)
    BY <1>1, <1>3, <2>1 DEF SnoopedLine, SetLine, Ctl
  <2>5. /\ Mail(chan') /\ Ext(ch[Down(c)][a], m, chan'[Down(c)][a]) /\ Kept1(c, ch, chan')
        /\ chan'[Up(c)][a] = ch[Up(c)][a]
        /\ \A b \in Addrs : b # a => chan'[Up(c)][b] = ch[Up(c)][b] /\ chan'[Down(c)][b] = ch[Down(c)][b]
    BY <1>1, <2>2, <2>3, SendDown DEF Got
  <2>6. a \notin No(k)
    BY <1>3, <1>5 DEF No, NoLine, L1SnoopAnswered
  <2>7. IF ev.cmd = "FetchInvX" THEN s \in Owning /\ t = "S"
        ELSE s \in Holding /\ t = IF s = "SM" THEN "IM" ELSE "I"
    BY <1>5, <2>1 DEF L1SnoopAnswered, L1AfterSnoop, Owning, Holding
  <2>8. /\ ev.cmd = "Inv" => m.cmd = "AckInv"
        /\ ev.cmd = "FetchInv" => m.cmd = "FetchResp"
        /\ ev.cmd = "FetchInvX" => m.cmd = "FetchXResp"
    BY <2>3 DEF L1SnoopResponse
  <2>9. Pair(c, t, Busy(k, a), chan'[Up(c)][a], chan'[Down(c)][a], K.line[a], K.resp[a], HC(c, K, a))
    <3>1. Pair(c, s, Busy(k, a), chan[Up(c)][a], chan[Down(c)][a], K.line[a], K.resp[a], HC(c, K, a))
      BY <1>1, <1>3 DEF Got
    <3>2. Cut(chan[Up(c)][a], chan'[Up(c)][a]) /\ Ext(chan[Down(c)][a], m, chan'[Down(c)][a]) /\ chan[Up(c)][a][1] = ev
      BY <1>1, <2>5 DEF Got
    <3>3. QED BY <1>2, <2>7, <2>8, <3>1, <3>2, PairAnswer
  <2>10. Good1(c, k2, chan', K, n)
    BY <1>1, <2>4, <2>5, <2>6, <2>9, G1Line DEF Got
  <2>11. QED BY <1>1, <2>2, <2>5, <2>10, Kept1Trans DEF Outcome1, Got
<1>6. CASE s \notin L1SnoopAnswered(ev.cmd)
  <2>1. chan' = ch /\ Put1(c, IF s = "I_B" /\ ev.cmd # "FetchInvX" THEN [k EXCEPT !.line[a].st = "I"] ELSE k)
    BY <1>2, <1>3, <1>6 DEF L1Snoop
  <2>2. PICK t : t = IF s = "I_B" /\ ev.cmd # "FetchInvX" THEN "I" ELSE s
    OBVIOUS
  <2>3. Similar(s, t) /\ StateFits(t, Busy(k, a)) /\ (t \in Shared => s \in Shared)
    BY <1>4, <2>2 DEF Similar, StateFits, Holding, Owning, Shared
  <2>4. Pair(c, t, Busy(k, a), ch[Up(c)][a], ch[Down(c)][a], K.line[a], K.resp[a], HC(c, K, a))
    <3>1. Pair(c, s, Busy(k, a), chan[Up(c)][a], chan[Down(c)][a], K.line[a], K.resp[a], HC(c, K, a))
      BY <1>1, <1>3 DEF Got
    <3>2. Cut(chan[Up(c)][a], ch[Up(c)][a]) /\ ch[Down(c)][a] = chan[Down(c)][a] /\ chan[Up(c)][a][1] = ev
      BY <1>1 DEF Got
    <3>3. QED BY <1>2, <2>3, <3>1, <3>2, PairIgnore
  <2>5. CASE s = "I_B" /\ ev.cmd # "FetchInvX"
    <3>1. PICK l, k2 : l = [k.line[a] EXCEPT !.st = "I"] /\ k2 = [k EXCEPT !.line[a].st = "I"]
      OBVIOUS
    <3>2. l.st = "I" /\ "st" \in DOMAIN l /\ SetLine(k, a, l, k2)
      BY <1>1, <3>1 DEF SetLine, Ctl
    <3>3. a \notin No(k)
      BY <1>3, <2>5 DEF No, NoLine
    <3>4. Good1(c, k2, ch, K, n)
      BY <1>1, <2>2, <2>4, <2>5, <3>2, <3>3, G1Line DEF Got
    <3>5. QED BY <1>1, <2>1, <2>5, <3>1, <3>4 DEF Outcome1, Got
  <2>6. CASE ~(s = "I_B" /\ ev.cmd # "FetchInvX")
    <3>1. Good1(c, k, ch, K, n)
      BY <1>1, <1>3, <2>2, <2>4, <2>6, G1Mail DEF Got
    <3>2. QED BY <1>1, <2>1, <2>6, <3>1 DEF Outcome1, Got
  <2>7. QED BY <2>5, <2>6
<1>7. QED BY <1>5, <1>6

(* A response finds the request it answers at the front, in progress. *)
LEMMA RespHanded ==
    ASSUME NEW c \in Cores, NEW k, NEW K, NEW n, Good1(c, k, chan, K, n), NEW a, NEW ev, NEW ch, Arrived(c, k, a, ev, ch),
           ev.cmd \in {"GetSResp", "GetXResp", "FlushLineResp"}
    PROVE  Handed(k, a) /\ FrontEv(En(k), a)
<1>1. Got(c, k, a, ev, ch, K) /\ a \in Addrs /\ KK(k) /\ Free(k) /\ ~Null(Retries(k), a)
  BY G1Got DEF Arrived, Good1
<1>2. Fits(ev, Busy(k, a))
  <2>1. /\ Pair(c, k.line[a].st, Busy(k, a), chan[Up(c)][a], chan[Down(c)][a], K.line[a], K.resp[a], HC(c, K, a))
        /\ Cut(chan[Up(c)][a], ch[Up(c)][a]) /\ chan[Up(c)][a][1] = ev
    BY <1>1 DEF Got
  <2>2. 1 \in Ix(chan[Up(c)][a])
    BY <2>1, CutIs
  <2>3. QED BY <2>1, <2>2 DEF Pair, Agree, Tokens, RespCmds
<1>3. Busy(k, a) # "none"
  BY <1>2 DEF Fits, FlushCmds
<1>4. Prog(k, a)
  BY <1>3 DEF Busy
<1>5. FrontEv(En(k), a) /\ En(k)[a][1].inProgress /\ ~Pend(Retries(k), a)
  BY <1>1, <1>4, EnIs DEF Prog, Free
<1>6. ~Pointed(En(k), a)
  BY <1>1, <1>5 DEF KK, KI, PointersWait, Waits
<1>7. QED BY <1>1, <1>5, <1>6 DEF Handed, Hand

(* A response ends the request in progress. *)
LEMMA G1Respond ==
    ASSUME NEW c \in Cores, NEW k, NEW K, NEW n, Good1(c, k, chan, K, n), NEW a, NEW ev, NEW ch, Arrived(c, k, a, ev, ch),
           ev.cmd \in {"GetSResp", "GetXResp", "FlushLineResp"},
           NEW l, "st" \in DOMAIN l, NEW kl, SetLine(k, a, l, kl), Put1(c, cleanUpAfterResponse(kl, a)), chan' = ch,
           Pair(c, l.st, "none", ch[Up(c)][a], ch[Down(c)][a], K.line[a], K.resp[a], HC(c, K, a))
    PROVE  Outcome1(c, K, chan, n)
<1>1. Got(c, k, a, ev, ch, K) /\ a \in k.done
  BY G1Got DEF Arrived
<1>2. Handed(k, a) /\ FrontEv(En(k), a)
  BY RespHanded
<1>3. PICK kp, k2 : kp = [kl EXCEPT !.mshr = removeFront(@, a)] /\ k2 = Replay(kp, a)
  OBVIOUS
<1>4. Put1(c, k2) /\ SetPop(kl, a, kp)
  BY <1>3 DEF cleanUpAfterResponse, SetPop
<1>5. Good1(c, k2, ch, K, n)
  BY <1>1, <1>2, <1>3, <1>4, G1Clean DEF Got
<1>6. QED BY <1>1, <1>4, <1>5 DEF Outcome1, Got

(* handleGetSResp and handleGetXResp of the L1. *)
LEMMA G1Data ==
    ASSUME NEW c \in Cores, NEW k, NEW K, NEW n, Good1(c, k, chan, K, n), NEW a, NEW ev, NEW ch, Arrived(c, k, a, ev, ch),
           ev.cmd \in {"GetSResp", "GetXResp"}, L1DataResp(c, k, ev, ch)
    PROVE  Outcome1(c, K, chan, n)
<1>1. Got(c, k, a, ev, ch, K) /\ a \in Addrs /\ KK(k) /\ Ctl(k)
  BY G1Got DEF Arrived, Good1, KK
<1>2. ev.addr = a /\ chan' = ch
  BY <1>1 DEF Got, L1DataResp
<1>3. PICK req, l0, st : 
         /\ req = getFrontEvent(k.mshr, a)
         /\ l0 = IF k.line[a].st = "SM" THEN k.line[a] ELSE [k.line[a] EXCEPT !.data = ev.data]
         /\ st = IF ev.cmd = "GetSResp" THEN "S" ELSE IF ev.dirty THEN "M" ELSE "E"
  OBVIOUS
<1>4. "st" \in DOMAIN l0 /\ Ctl(k)
  BY <1>1, <1>3 DEF Ctl
<1>5. ASSUME NEW t, IF ev.cmd = "GetSResp" THEN t = "S" ELSE t \in Owning
      PROVE  Pair(c, t, "none", ch[Up(c)][a], ch[Down(c)][a], K.line[a], K.resp[a], HC(c, K, a))
  <2>1. /\ Pair(c, k.line[a].st, Busy(k, a), chan[Up(c)][a], chan[Down(c)][a], K.line[a], K.resp[a], HC(c, K, a))
        /\ Cut(chan[Up(c)][a], ch[Up(c)][a]) /\ chan[Up(c)][a][1] = ev /\ ch[Down(c)][a] = chan[Down(c)][a]
    BY <1>1 DEF Got
  <2>2. ev.cmd \in Grants
    BY DEF Grants
  <2>3. QED BY <1>5, <2>1, <2>2, PairData
<1>6. CASE ev.cmd = "GetSResp" \/ k.line[a].st = "IS"
  <2>1. PICK l, kl : l = [LoadLine(l0, req) EXCEPT !.st = st] /\ kl = [k EXCEPT !.line[a] = l]
    OBVIOUS
  <2>2. Put1(c, cleanUpAfterResponse(kl, a))
    BY <1>2, <1>3, <1>6, <2>1 DEF L1DataResp
  <2>3. l.st = st /\ "st" \in DOMAIN l /\ SetLine(k, a, l, kl)
    BY <1>4, <2>1 DEF LoadLine, SetLine
  <2>4. IF ev.cmd = "GetSResp" THEN st = "S" ELSE st \in Owning
    BY <1>3 DEF Owning
  <2>5. QED BY <1>2, <1>5, <2>2, <2>3, <2>4, G1Respond
<1>7. CASE ~(ev.cmd = "GetSResp" \/ k.line[a].st = "IS")
  <2>1. PICK l, kl : l = StoreLine(l0, req) /\ kl = [k EXCEPT !.line[a] = l]
    OBVIOUS
  <2>2. Put1(c, cleanUpAfterResponse(kl, a))
    BY <1>2, <1>3, <1>7, <2>1 DEF L1DataResp
  <2>3. l.st = "M" /\ "st" \in DOMAIN l /\ SetLine(k, a, l, kl)
    BY <2>1 DEF StoreLine, SetLine
  <2>4. IF ev.cmd = "GetSResp" THEN l.st = "S" ELSE l.st \in Owning
    BY <1>7, <2>3 DEF Owning
  <2>5. QED BY <1>2, <1>5, <2>2, <2>3, <2>4, G1Respond
<1>8. QED BY <1>6, <1>7

(* handleFlushLineResp of the L1. *)
LEMMA G1Flushed ==
    ASSUME NEW c \in Cores, NEW k, NEW K, NEW n, Good1(c, k, chan, K, n), NEW a, NEW ev, NEW ch, Arrived(c, k, a, ev, ch),
           ev.cmd = "FlushLineResp", L1FlushResp(c, k, ev, ch)
    PROVE  Outcome1(c, K, chan, n)
<1>1. Got(c, k, a, ev, ch, K) /\ a \in Addrs /\ KK(k) /\ Ctl(k)
  BY G1Got DEF Arrived, Good1, KK
<1>2. ev.addr = a /\ chan' = ch
  BY <1>1 DEF Got, L1FlushResp
<1>3. PICK s, kl, l : 
         /\ s = k.line[a].st
         /\ kl = CASE s = "I_B" -> [k EXCEPT !.line[a].st = "I", !.line[a].atomic = FALSE]
                   [] s = "S_B" -> [k EXCEPT !.line[a].st = "S"]
                   [] OTHER     -> k
         /\ l = CASE s = "I_B" -> [k.line[a] EXCEPT !.st = "I", !.atomic = FALSE]
                  [] s = "S_B" -> [k.line[a] EXCEPT !.st = "S"]
                  [] OTHER     -> k.line[a]
  OBVIOUS
<1>4. Put1(c, cleanUpAfterResponse(kl, a))
  BY <1>2, <1>3 DEF L1FlushResp
<1>5. "st" \in DOMAIN l /\ SetLine(k, a, l, kl) /\ l.st = IF s = "I_B" THEN "I" ELSE IF s = "S_B" THEN "S" ELSE s
  <2>1. CASE s = "I_B"
    BY <1>1, <1>3, <2>1 DEF SetLine, Ctl
  <2>2. CASE s = "S_B"
    BY <1>1, <1>3, <2>2 DEF SetLine, Ctl
  <2>3. CASE s \notin {"I_B", "S_B"}
    <3>1. kl = k /\ l = k.line[a]
      BY <1>3, <2>3
    <3>2. QED BY <1>1, <1>3, <2>3, <3>1 DEF SetLine, Ctl
  <2>4. QED BY <2>1, <2>2, <2>3
<1>6. Pair(c, l.st, "none", ch[Up(c)][a], ch[Down(c)][a], K.line[a], K.resp[a], HC(c, K, a))
  <2>1. /\ Pair(c, s, Busy(k, a), chan[Up(c)][a], chan[Down(c)][a], K.line[a], K.resp[a], HC(c, K, a))
        /\ Cut(chan[Up(c)][a], ch[Up(c)][a]) /\ chan[Up(c)][a][1] = ev /\ ch[Down(c)][a] = chan[Down(c)][a]
    BY <1>1, <1>3 DEF Got
  <2>2. QED BY <1>5, <2>1, PairFlushed
<1>7. QED BY <1>2, <1>4, <1>5, <1>6, G1Respond

(* handleNACK of the L1. *)
LEMMA G1Nacked ==
    ASSUME NEW c \in Cores, NEW k, NEW K, NEW n, Good1(c, k, chan, K, n), NEW a, NEW ev, NEW ch, Arrived(c, k, a, ev, ch),
           ev.cmd = "NACK", L1NACK(c, k, ev, ch)
    PROVE  Outcome1(c, K, chan, n)
<1>1. Got(c, k, a, ev, ch, K) /\ a \in Addrs
  BY G1Got DEF Arrived
<1>2. PICK m : m = ev.nacked
  OBVIOUS
<1>3. chan' = Send(ch, Down(c), m) /\ Put1(c, k) /\ m.addr = a /\ m.src = c
  BY <1>1, <1>2 DEF L1NACK, Got
<1>4. /\ Mail(chan') /\ Ext(ch[Down(c)][a], m, chan'[Down(c)][a]) /\ Kept1(c, ch, chan')
      /\ chan'[Up(c)][a] = ch[Up(c)][a]
      /\ \A b \in Addrs : b # a => chan'[Up(c)][b] = ch[Up(c)][b] /\ chan'[Down(c)][b] = ch[Down(c)][b]
  BY <1>1, <1>3, SendDown DEF Got
<1>5. Pair(c, k.line[a].st, Busy(k, a), chan'[Up(c)][a], chan'[Down(c)][a], K.line[a], K.resp[a], HC(c, K, a))
  <2>1. /\ Pair(c, k.line[a].st, Busy(k, a), chan[Up(c)][a], chan[Down(c)][a], K.line[a], K.resp[a], HC(c, K, a))
        /\ Cut(chan[Up(c)][a], ch[Up(c)][a]) /\ chan[Up(c)][a][1] = ev /\ ch[Down(c)][a] = chan[Down(c)][a]
    BY <1>1 DEF Got
  <2>2. Cut(chan[Up(c)][a], chan'[Up(c)][a]) /\ Ext(chan[Down(c)][a], chan[Up(c)][a][1].nacked, chan'[Down(c)][a])
    BY <1>2, <1>4, <2>1
  <2>3. QED BY <2>1, <2>2, PairNack
<1>6. Good1(c, k, chan', K, n)
  <2>1. \A b \in Addrs : b # a => chan'[Up(c)][b] = chan[Up(c)][b] /\ chan'[Down(c)][b] = chan[Down(c)][b]
    BY <1>1, <1>4 DEF Got
  <2>2. QED BY <1>1, <1>4, <1>5, <2>1, G1Mail
<1>7. QED BY <1>1, <1>3, <1>4, <1>6, Kept1Trans DEF Outcome1, Got

(* handleNULLCMD of the L1. *)
LEMMA G1Null ==
    ASSUME NEW c \in Cores, NEW k, NEW K, NEW n, Good1(c, k, chan, K, n), NEW ev, NEW j0, Points(En(k), ev.addr, 1, j0, ev.new),
           Gone(Retries(k), ev.addr, ev.new), ev.addr \in k.done, L1NULLCMD(c, k, ev)
    PROVE  Outcome1(c, K, chan, n)
<1>0. PICK old, new : old = ev.addr /\ new = ev.new
  OBVIOUS
<1>1. /\ old \in Addrs /\ new \in Addrs /\ new \in No(k) /\ KK(k) /\ old \in k.done /\ Points(En(k), old, 1, j0, new)
      /\ Gone(Retries(k), old, new)
  BY <1>0, PointsIs DEF Good1
<1>2. PICK v \in IF k.line[old].st # NoLine THEN {old} ELSE Victims(k, L1Lines) :
          IF L1Evictable(k, v)
          THEN /\ Put1(c, DropPointer(RetryEvent(L1Remove(k, v), new), old, new))
               /\ chan' = L1Writeback(chan, c, k, v)
          ELSE /\ Put1(c, IF v = old THEN k
                          ELSE DropPointer([k EXCEPT !.mshr = insertEviction(@, v, new)],
                                           old, new))
               /\ UNCHANGED chan
  BY <1>0 DEF L1NULLCMD
<1>3. v = NoLine \/ (v \in Addrs /\ k.line[v].st # NoLine)
  <2>1. CASE k.line[old].st # NoLine
    BY <1>1, <1>2, <2>1
  <2>2. CASE ~(k.line[old].st # NoLine)
    BY <1>2, <2>2, VictimIs
  <2>3. QED BY <2>1, <2>2
<1>4. CASE L1Evictable(k, v)
  <2>1. PICK kr, cr, k2 : kr = L1Remove(k, v) /\ cr = L1Writeback(chan, c, k, v) /\ k2 = DropPointer(RetryEvent(kr, new), old, new)
    OBVIOUS
  <2>2. Put1(c, k2) /\ chan' = cr
    BY <1>2, <1>4, <2>1
  <2>3. Good1(c, kr, cr, K, n) /\ Kept1(c, chan, cr) /\ kr.done = k.done /\ Retries(kr) = Retries(k) /\ En(kr) = En(k)
    BY <1>3, <1>4, <2>1, G1Evict
  <2>4. /\ KK(kr) /\ Points(En(kr), old, 1, j0, new) /\ Gone(Retries(kr), old, new) /\ old \in kr.done
    BY <1>1, <2>3 DEF Good1
  <2>5. /\ KK(k2) /\ Frame(kr, k2) /\ \A b \in Addrs : Evs(Ent(kr, b), Ent(k2, b))
    BY <2>1, <2>4, KKFreed
  <2>6. \A b : Pend(Retries(k2), b) => Pend(Retries(kr), b) \/ ~Prog(k2, b)
    BY <2>1, <2>4, KKFreed
  <2>7. Good1(c, k2, cr, K, n)
    BY <2>3, <2>5, <2>6, G1Evs DEF Frame
  <2>8. QED BY <2>2, <2>3, <2>7 DEF Outcome1
<1>5. CASE ~L1Evictable(k, v) /\ v = old
  <2>1. Put1(c, k) /\ UNCHANGED chan
    BY <1>2, <1>5
  <2>2. QED BY <2>1, Kept1Self DEF Outcome1
<1>6. CASE ~L1Evictable(k, v) /\ v # old
  <2>1. PICK k2 : k2 = DropPointer([k EXCEPT !.mshr = insertEviction(@, v, new)], old, new)
    OBVIOUS
  <2>2. Put1(c, k2) /\ UNCHANGED chan
    BY <1>2, <1>6, <2>1
  <2>3. v \in Addrs /\ v # new
    BY <1>1, <1>3, <1>6 DEF L1Evictable, No
  <2>4. KKBut(k, v)
    BY <1>1, KKButIs
  <2>5. /\ KK(k2) /\ Frame(k, k2) /\ \A b \in Addrs : Evs(Ent(k, b), Ent(k2, b))
    BY <1>1, <1>6, <2>1, <2>3, <2>4, KKMoved
  <2>6. \A b : Pend(Retries(k2), b) => Pend(Retries(k), b) \/ ~Prog(k2, b)
    BY <1>1, <1>6, <2>1, <2>3, <2>4, KKMoved
  <2>7. Good1(c, k2, chan, K, n)
    BY <2>5, <2>6, G1Evs DEF Frame
  <2>8. QED BY <2>2, <2>7, Kept1Self DEF Outcome1
<1>7. QED BY <1>4, <1>5, <1>6

(* The core's next id is n. *)
Cpu1(c, n) == \E p : cpu' = [cpu EXCEPT ![c] = [next |-> n, pend |-> p]]

(* A request leaves the core its next id. *)
LEMMA CpuRequest ==
    ASSUME NEW c \in Cores, DOMAIN cpu = Cores, NEW k, NEW ev, NEW inMSHR \in BOOLEAN, L1HandleRequest(c, k, ev, inMSHR)
    PROVE  Cpu1(c, N2(inMSHR, cpu[c].next))
<1>1. Answer(c, ev.id, inMSHR) \/ Wait(c, ev.id, inMSHR)
  <2>1. ASSUME NEW cmd, NEW st, L1Miss(c, k, ev, inMSHR, cmd, st) PROVE Wait(c, ev.id, inMSHR)
    BY <2>1 DEF L1Miss
  <2>2. L1Stall(c, k, ev, inMSHR) => Wait(c, ev.id, inMSHR)
    BY DEF L1Stall
  <2>3. CASE L1GetS(c, k, ev, inMSHR)
    BY <2>1, <2>2, <2>3 DEF L1GetS
  <2>4. CASE L1Write(c, k, ev, inMSHR)
    BY <2>1, <2>2, <2>4 DEF L1Write
  <2>5. CASE L1Flush(c, k, ev, inMSHR)
    BY <2>2, <2>5 DEF L1Flush
  <2>6. QED BY <2>3, <2>4, <2>5 DEF L1HandleRequest
<1>2. PICK p : cpu' = [cpu EXCEPT ![c] = [next |-> IF inMSHR THEN cpu[c].next ELSE cpu[c].next + 1, pend |-> p]]
  BY <1>1 DEF Answer, Wait
<1>3. QED BY <1>2 DEF Cpu1, N2

(* What a step of L1 c leaves behind, with its core. *)
Done1(c, K) == \E n : Outcome1(c, K, chan, n) /\ (Cpu1(c, n) \/ (cpu' = cpu /\ n = cpu[c].next))

(* A core issues a request. *)
LEMMA IssueGood ==
    ASSUME NEW c \in Cores, NEW K, DOMAIN cpu = Cores, Good1(c, l1[c], chan, K, cpu[c].next), L1Issue(c)
    PROVE  Done1(c, K)
<1>0. PICK op \in Ops, k0 \in Cycles(l1[c]) :
         /\ CanAccess(k0, op[2])
         /\ L1HandleRequest(c, Access(k0, op[2]), Request(op[1], op[2], c, cpu[c].next), FALSE)
  BY DEF L1Issue
<1>1. PICK n, a, k, ev : n = cpu[c].next /\ a = op[2] /\ k = Access(k0, a) /\ ev = Request(op[1], a, c, n)
  OBVIOUS
<1>2. a \in Addrs /\ op[1] \in {"GetS", "Write", "LL", "SC", "FlushLine", "FlushLineInv"}
  BY <1>1, OpsAssumption
<1>3. KK(l1[c]) /\ n \in Nat
  BY <1>1 DEF Good1
<1>4. /\ KK(k) /\ Alike(l1[c], k) /\ Retries(k) = Retries(l1[c]) /\ a \in k.done
      /\ ~Null(Retries(k), a) /\ (Pend(Retries(k), a) => a \in No(k))
  BY <1>0, <1>1, <1>2, <1>3, KKAccess
<1>5. Good1(c, k, chan, K, n)
  BY <1>1, <1>4, G1Alike
<1>6. EvOK1(ev, c, a, n + 1) /\ ev.id = n /\ ev.addr = a
  <2>1. CASE op[1] = "LL"
    <3>1. ev = [Event("GetS", a, c, n) EXCEPT !.atomic = TRUE]
      BY <1>1, <2>1 DEF Request
    <3>2. QED BY <1>3, <3>1 DEF Event, EvOK1, CoreCmds
  <2>2. CASE op[1] = "SC"
    <3>1. ev = [Event("Write", a, c, n) EXCEPT !.atomic = TRUE]
      BY <1>1, <2>2 DEF Request
    <3>2. QED BY <1>3, <3>1 DEF Event, EvOK1, CoreCmds
  <2>3. CASE op[1] \notin {"LL", "SC"}
    <3>1. ev = Event(op[1], a, c, n)
      BY <1>1, <2>3 DEF Request
    <3>2. QED BY <1>2, <1>3, <2>3, <3>1 DEF Event, EvOK1, CoreCmds
  <2>4. QED BY <2>1, <2>2, <2>3
<1>7. Ask1(c, k, ev, FALSE, n)
  BY <1>2, <1>4, <1>6 DEF Ask1, N2
<1>8. L1HandleRequest(c, k, ev, FALSE)
  BY <1>0, <1>1
<1>9. Outcome1(c, K, chan, N2(FALSE, n))
  BY <1>5, <1>7, <1>8, G1Request
<1>10. Cpu1(c, N2(FALSE, n))
  BY <1>1, <1>8, CpuRequest
<1>11. QED BY <1>9, <1>10 DEF Done1

(* An L1 takes an event from its retry buffer. *)
LEMMA RetryGood ==
    ASSUME NEW c \in Cores, NEW K, DOMAIN cpu = Cores, Good1(c, l1[c], chan, K, cpu[c].next), L1Retry(c)
    PROVE  Done1(c, K)
<1>0. PICK k0 \in Cycles(l1[c]) :
       /\ Ready(k0) # {}
       /\ \/ k0.retry[FirstReady(k0)].cmd = "NULLCMD" /\ L1NULLCMD(c, TakeRetry(k0), k0.retry[FirstReady(k0)])
          \/ k0.retry[FirstReady(k0)].cmd # "NULLCMD" /\ L1HandleRequest(c, TakeRetry(k0), k0.retry[FirstReady(k0)], TRUE)
  BY DEF L1Retry
<1>1. PICK n, r, k, a : n = cpu[c].next /\ r = k0.retry[FirstReady(k0)] /\ k = TakeRetry(k0) /\ a = r.addr
  OBVIOUS
<1>2. KK(l1[c]) /\ n \in Nat /\ Free(l1[c])
  BY <1>1 DEF Good1
<1>3. /\ KK(k) /\ Alike(l1[c], k) /\ a \in k.done /\ a \in Addrs
      /\ \A b : Pend(Retries(k), b) => Pend(Retries(l1[c]), b)
  BY <1>0, <1>1, <1>2, KKTake
<1>4. r.cmd # "NULLCMD" => Handed(k, a) /\ FrontEv(En(k), a) /\ Ent(k, a)[1].ev = r /\ Pend(Retries(l1[c]), a)
  BY <1>0, <1>1, <1>2, KKTake
<1>5. r.cmd = "NULLCMD" => (\E j : Points(En(k), a, 1, j, r.new)) /\ Gone(Retries(k), a, r.new)
  BY <1>0, <1>1, <1>2, KKTake
<1>6. Good1(c, k, chan, K, n)
  BY <1>1, <1>3, G1Alike
<1>7. CASE r.cmd = "NULLCMD"
  <2>1. PICK j : Points(En(k), a, 1, j, r.new)
    BY <1>5, <1>7
  <2>2. L1NULLCMD(c, k, r)
    BY <1>0, <1>1, <1>7
  <2>3. Outcome1(c, K, chan, n)
    BY <1>1, <1>3, <1>5, <1>6, <1>7, <2>1, <2>2, G1Null
  <2>4. cpu' = cpu
    BY <2>2 DEF L1NULLCMD
  <2>5. QED BY <1>1, <2>3, <2>4 DEF Done1
<1>8. CASE r.cmd # "NULLCMD"
  <2>1. L1HandleRequest(c, k, r, TRUE)
    BY <1>0, <1>1, <1>8
  <2>2. ~Prog(k, a)
    <3>1. ~Prog(l1[c], a)
      BY <1>2, <1>3, <1>4, <1>8 DEF Free
    <3>2. Ent(k, a) = Ent(l1[c], a)
      BY <1>3 DEF Alike
    <3>3. QED BY <1>3, <3>1, <3>2, ProgIs
  <2>3. EvOK1(r, c, a, n)
    <3>1. 1 \in Ix(Ent(k, a)) /\ Ent(k, a)[1].type = "Event" /\ Ent(k, a)[1].ev = r
      BY <1>3, <1>4, <1>8, EnIs DEF FrontEv
    <3>2. QED BY <1>3, <1>6, <3>1 DEF Good1, Mine
  <2>4. Ask1(c, k, r, TRUE, n)
    BY <1>1, <1>3, <1>4, <1>8, <2>2, <2>3 DEF Ask1, Ready1, N2
  <2>5. Outcome1(c, K, chan, N2(TRUE, n))
    BY <1>6, <2>1, <2>4, G1Request
  <2>6. Cpu1(c, N2(TRUE, n))
    BY <1>1, <2>1, CpuRequest
  <2>7. QED BY <2>5, <2>6 DEF Done1
<1>9. QED BY <1>7, <1>8

(* An L1 takes a message from its link. *)
LEMMA ReceiveGood ==
    ASSUME NEW c \in Cores, NEW K, DOMAIN cpu = Cores, Good1(c, l1[c], chan, K, cpu[c].next), NEW a \in Addrs, L1Receive(c, a)
    PROVE  Done1(c, K)
<1>0. PICK ev, ch : ev = Head(chan[Up(c)][a]) /\ ch = Deliver(Up(c), a)
  OBVIOUS
<1>1. PICK k0 \in Cycles(l1[c]) :
       /\ CanAccess(k0, a)
       /\ \/ ev.cmd \in DOMAIN L1SnoopResponse /\ L1Snoop(c, Access(k0, a), ev, ch)
          \/ ev.cmd \in {"GetSResp", "GetXResp"} /\ L1DataResp(c, Access(k0, a), ev, ch)
          \/ ev.cmd = "FlushLineResp" /\ L1FlushResp(c, Access(k0, a), ev, ch)
          \/ ev.cmd = "AckPut" /\ L1AckPut(c, Access(k0, a), ev, ch)
          \/ ev.cmd = "NACK" /\ L1NACK(c, Access(k0, a), ev, ch)
  BY <1>0 DEF L1Receive
<1>2. PICK n, k : n = cpu[c].next /\ k = Access(k0, a)
  OBVIOUS
<1>3. KK(l1[c]) /\ n \in Nat
  BY <1>2 DEF Good1
<1>4. /\ KK(k) /\ Alike(l1[c], k) /\ Retries(k) = Retries(l1[c]) /\ a \in k.done
      /\ ~Null(Retries(k), a) /\ (Pend(Retries(k), a) => a \in No(k))
  BY <1>1, <1>2, <1>3, KKAccess
<1>5. Good1(c, k, chan, K, n)
  BY <1>2, <1>4, G1Alike
<1>6. Arrived(c, k, a, ev, ch)
  BY <1>0, <1>4 DEF Arrived, L1Receive
<1>7. CASE ev.cmd \in DOMAIN L1SnoopResponse /\ L1Snoop(c, k, ev, ch)
  <2>1. Outcome1(c, K, chan, n)
    BY <1>5, <1>6, <1>7, G1Snoop
  <2>2. cpu' = cpu
    BY <1>7 DEF L1Snoop
  <2>3. QED BY <1>2, <2>1, <2>2 DEF Done1
<1>8. CASE ev.cmd \in {"GetSResp", "GetXResp"} /\ L1DataResp(c, k, ev, ch)
  <2>1. Outcome1(c, K, chan, n)
    BY <1>5, <1>6, <1>8, G1Data
  <2>2. Cpu1(c, n)
    BY <1>2, <1>8 DEF L1DataResp, Answer, Cpu1
  <2>3. QED BY <2>1, <2>2 DEF Done1
<1>9. CASE ev.cmd = "FlushLineResp" /\ L1FlushResp(c, k, ev, ch)
  <2>1. Outcome1(c, K, chan, n)
    BY <1>5, <1>6, <1>9, G1Flushed
  <2>2. Cpu1(c, n)
    BY <1>2, <1>9 DEF L1FlushResp, Answer, Cpu1
  <2>3. QED BY <2>1, <2>2 DEF Done1
<1>10. CASE ev.cmd = "NACK" /\ L1NACK(c, k, ev, ch)
  <2>1. Outcome1(c, K, chan, n)
    BY <1>5, <1>6, <1>10, G1Nacked
  <2>2. cpu' = cpu
    BY <1>10 DEF L1NACK
  <2>3. QED BY <1>2, <2>1, <2>2 DEF Done1
<1>11. ev.cmd # "AckPut"
  BY <1>5, <1>6, G1Got DEF Got, SnoopCmds, RespCmds
<1>12. QED BY <1>1, <1>2, <1>7, <1>8, <1>9, <1>10, <1>11
=============================================================================
