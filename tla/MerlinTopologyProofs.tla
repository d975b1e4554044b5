------------------------- MODULE MerlinTopologyProofs -------------------------
(***************************************************************************)
(* What the routing of merlin's topologies rests on: routers are numbered  *)
(* by their locations, and the port that a router computes for a neighbour *)
(* is the one the front end has wired to it.                               *)
(***************************************************************************)
EXTENDS MerlinTopology, FiniteSetTheorems, WellFoundedInduction, TLAPS

-----------------------------------------------------------------------------
(* Induction over the naturals in a form that needs no operator parameter: *)
(* what is to be shown is membership in a set.                             *)

(* The order of the naturals has no infinite descending chain.             *)
LEMMA NatWellFounded == IsWellFoundedOn({p \in Nat \X Nat : p[1] < p[2]}, Nat)
BY NatLessThanWellFounded DEF OpToRel

(* A set of naturals that is not empty has a least element.                *)
LEMMA LeastNat ==
    ASSUME NEW T \in SUBSET Nat, T # {}
    PROVE  \E m \in T : \A k \in T : m <= k
<1> DEFINE R == {p \in Nat \X Nat : p[1] < p[2]}
<1>1. \E x \in T : \A y \in T : ~(<<y, x>> \in R)
  <2> HIDE DEF R
  <2>1. QED BY NatWellFounded, WFMin DEF R
<1>2. PICK x \in T : \A y \in T : <<y, x>> \notin R
  BY <1>1
<1>3. ASSUME NEW y \in T PROVE x <= y
  <2>1. <<y, x>> \in Nat \X Nat
    OBVIOUS
  <2>2. ~(y < x)
    BY <1>2, <2>1
  <2>3. QED BY <2>2
<1>4. QED BY <1>3

(* Induction: a set that holds 0 and is closed under successor holds Nat.  *)
LEMMA SetInduction ==
    ASSUME NEW S, 0 \in S, \A n \in Nat : n \in S => n + 1 \in S
    PROVE  \A n \in Nat : n \in S
<1> SUFFICES ASSUME NEW n \in Nat, n \notin S PROVE FALSE
  OBVIOUS
<1> DEFINE T == Nat \ S
<1>1. PICK m \in T : \A k \in T : m <= k
  BY LeastNat
<1>2. m # 0 /\ m \in Nat
  OBVIOUS
<1>3. m - 1 \in Nat /\ m - 1 \in S
  BY <1>1, <1>2
<1>4. QED BY <1>2, <1>3

(* A recursion along 1 .. n has a solution.  F[i] is the i-th step.        *)
LEMMA RecursionExists ==
    ASSUME NEW A, NEW v \in A, NEW n \in Nat, NEW F \in [1 .. n -> [A -> A]]
    PROVE  \E g \in [1 .. n + 1 -> A] : g[1] = v /\ \A i \in 1 .. n : g[i + 1] = F[i][g[i]]
<1> DEFINE Solves(m, g) == g[1] = v /\ \A i \in 1 .. m : g[i + 1] = F[i][g[i]]
           S == {m \in Nat : m <= n => \E g \in [1 .. m + 1 -> A] : Solves(m, g)}
<1>1. 0 \in S
  <2>1. [i \in 1 .. 0 + 1 |-> v] \in [1 .. 0 + 1 -> A] /\ Solves(0, [i \in 1 .. 0 + 1 |-> v])
    OBVIOUS
  <2>2. QED BY <2>1
<1>2. ASSUME NEW m \in Nat, m \in S PROVE m + 1 \in S
  <2> SUFFICES ASSUME m + 1 <= n PROVE \E g \in [1 .. (m + 1) + 1 -> A] : Solves(m + 1, g)
    OBVIOUS
  <2>1. PICK g \in [1 .. m + 1 -> A] : Solves(m, g)
    BY <1>2
  <2> DEFINE h == [i \in 1 .. (m + 1) + 1 |-> IF i = m + 2 THEN F[m + 1][g[m + 1]] ELSE g[i]]
  <2>2. F[m + 1][g[m + 1]] \in A
    OBVIOUS
  <2>3. h \in [1 .. (m + 1) + 1 -> A]
    BY <2>2
  <2>4. h[1] = v
    BY <2>1
  <2>5. ASSUME NEW i \in 1 .. m + 1 PROVE h[i + 1] = F[i][h[i]]
    <3>1. h[i] = g[i]
      OBVIOUS
    <3>2. CASE i = m + 1
      BY <3>1, <3>2
    <3>3. CASE i # m + 1
      <4>1. i \in 1 .. m /\ h[i + 1] = g[i + 1]
        BY <3>3
      <4>2. QED BY <4>1, <3>1, <2>1
    <3>4. QED BY <3>2, <3>3
  <2>6. QED BY <2>3, <2>4, <2>5
<1>3. \A m \in Nat : m \in S
  <2> HIDE DEF S
  <2>1. QED BY <1>1, <1>2, SetInduction
<1>4. n \in S
  BY <1>3
<1>5. n <= n
  OBVIOUS
<1>6. PICK g \in [1 .. n + 1 -> A] : Solves(n, g)
  BY <1>4, <1>5
<1>7. QED BY <1>6

(* The partial sums of a sequence of naturals. *)
LEMMA SumsExist ==
    ASSUME NEW n \in Nat, NEW f \in [1 .. n -> Nat]
    PROVE  \E s \in [1 .. n + 1 -> Nat] : s[1] = 0 /\ \A i \in 1 .. n : s[i + 1] = s[i] + f[i]
<1> DEFINE Sums(m, s) == s[1] = 0 /\ \A i \in 1 .. m : s[i + 1] = s[i] + f[i]
           S == {m \in Nat : m <= n => \E s \in [1 .. m + 1 -> Nat] : Sums(m, s)}
<1>1. 0 \in S
  <2>1. [i \in 1 .. 0 + 1 |-> 0] \in [1 .. 0 + 1 -> Nat] /\ Sums(0, [i \in 1 .. 0 + 1 |-> 0])
    OBVIOUS
  <2>2. QED BY <2>1
<1>2. ASSUME NEW m \in Nat, m \in S PROVE m + 1 \in S
  <2> SUFFICES ASSUME m + 1 <= n PROVE \E s \in [1 .. (m + 1) + 1 -> Nat] : Sums(m + 1, s)
    OBVIOUS
  <2>0. m <= n
    OBVIOUS
  <2>1. PICK s \in [1 .. m + 1 -> Nat] : Sums(m, s)
    <3> HIDE DEF Sums
    <3>1. QED BY <1>2, <2>0
  <2> DEFINE h == [i \in 1 .. (m + 1) + 1 |-> IF i = m + 2 THEN s[m + 1] + f[m + 1] ELSE s[i]]
  <2>2. s[m + 1] + f[m + 1] \in Nat
    <3>1. s[m + 1] \in Nat /\ f[m + 1] \in Nat
      OBVIOUS
    <3>2. QED BY <3>1
  <2>3. h \in [1 .. (m + 1) + 1 -> Nat]
    BY <2>2
  <2>4. h[1] = 0
    BY <2>1
  <2>5. ASSUME NEW i \in 1 .. m + 1 PROVE h[i + 1] = h[i] + f[i]
    <3>1. h[i] = s[i]
      OBVIOUS
    <3>2. CASE i = m + 1
      BY <3>1, <3>2
    <3>3. CASE i # m + 1
      <4>1. i \in 1 .. m /\ h[i + 1] = s[i + 1]
        BY <3>3
      <4>2. QED BY <4>1, <3>1, <2>1
    <3>4. QED BY <3>2, <3>3
  <2>6. QED BY <2>3, <2>4, <2>5
<1>3. \A m \in Nat : m \in S
  <2> HIDE DEF S
  <2>1. QED BY <1>1, <1>2, SetInduction
<1>4. n \in S
  <2> HIDE DEF S
  <2>1. QED BY <1>3
<1>5. n <= n
  OBVIOUS
<1>6. PICK s \in [1 .. n + 1 -> Nat] : Sums(n, s)
  <2> HIDE DEF Sums
  <2>1. QED BY <1>4, <1>5
<1>7. QED BY <1>6

-----------------------------------------------------------------------------
(* The number of routers below a dimension is the product of their sizes.  *)
LEMMA BelowDef ==
    /\ Below \in [1 .. Len(Shape) + 1 -> Nat \ {0}]
    /\ Below[1] = 1
    /\ \A d \in Dims : Below[d + 1] = Below[d] * Shape[d]
<1> DEFINE n == Len(Shape)
           A == Nat \ {0}
           F == [i \in 1 .. n |-> [a \in A |-> a * Shape[i]]]
<1>1. n \in Nat /\ Dims = 1 .. n /\ \A d \in Dims : Shape[d] \in A
  BY ShapeAssumption DEF Dims
<1>2. \A a, b \in A : a * b \in A
  OBVIOUS
<1>3. F \in [1 .. n -> [A -> A]]
  BY <1>1, <1>2
<1>4. 1 \in A
  OBVIOUS
<1> HIDE DEF A, n, F
<1>5. PICK g \in [1 .. n + 1 -> A] : g[1] = 1 /\ \A i \in 1 .. n : g[i + 1] = F[i][g[i]]
  BY <1>1, <1>3, <1>4, RecursionExists
<1>6. ASSUME NEW i \in 1 .. n PROVE g[i + 1] = g[i] * Shape[i]
  <2>1. g[i] \in A
    BY <1>1
  <2>2. F[i] = [a \in A |-> a * Shape[i]]
    BY DEF F
  <2>3. F[i][g[i]] = g[i] * Shape[i]
    BY <2>1, <2>2
  <2>4. QED BY <2>3, <1>5
<1>7. g = [d \in 1 .. n + 1 |-> IF d = 1 THEN 1 ELSE g[d - 1] * Shape[d - 1]]
  <2>1. ASSUME NEW d \in 1 .. n + 1 PROVE g[d] = IF d = 1 THEN 1 ELSE g[d - 1] * Shape[d - 1]
    <3>1. CASE d = 1
      BY <3>1, <1>5
    <3>2. CASE d # 1
      <4>1. d - 1 \in 1 .. n /\ (d - 1) + 1 = d
        BY <3>2, <1>1
      <4>2. QED BY <4>1, <3>2, <1>6
    <3>3. QED BY <3>1, <3>2
  <2>2. QED BY <2>1
<1>8. Below = [d \in 1 .. n + 1 |-> IF d = 1 THEN 1 ELSE Below[d - 1] * Shape[d - 1]]
  <2> DEFINE Q(f) == f = [d \in 1 .. n + 1 |-> IF d = 1 THEN 1 ELSE f[d - 1] * Shape[d - 1]]
  <2>1. Below = CHOOSE f : Q(f)
    BY DEF Below, n
  <2>2. Q(g)
    BY <1>7
  <2> HIDE DEF Q
  <2>3. Q(Below)
    BY <2>1, <2>2
  <2>4. QED BY <2>3 DEF Q
<1>9. Below[1] = 1 /\ \A d \in 1 .. n + 1 : d # 1 => Below[d] = Below[d - 1] * Shape[d - 1]
  BY <1>8, <1>1
<1>10. ASSUME NEW d \in Dims PROVE Below[d + 1] = Below[d] * Shape[d]
  <2>1. d + 1 \in 1 .. n + 1 /\ d + 1 # 1 /\ (d + 1) - 1 = d
    BY <1>1
  <2>2. QED BY <2>1, <1>9
<1>11. ASSUME NEW d \in 1 .. n + 1 PROVE Below[d] \in A
  <2> DEFINE S == {m \in Nat : m + 1 <= n + 1 => Below[m + 1] \in A}
  <2>1. 0 \in S
    BY <1>9, <1>4
  <2>2. ASSUME NEW m \in Nat, m \in S PROVE m + 1 \in S
    <3> SUFFICES ASSUME (m + 1) + 1 <= n + 1 PROVE Below[(m + 1) + 1] \in A
      OBVIOUS
    <3>1. m + 1 \in Dims /\ m + 1 <= n + 1
      BY <1>1
    <3>2. QED BY <3>1, <2>2, <1>10, <1>1, <1>2
  <2>3. \A m \in Nat : m \in S
    <3> HIDE DEF S
    <3>1. QED BY <2>1, <2>2, SetInduction
  <2>4. d - 1 \in S /\ d - 1 + 1 = d
    BY <2>3, <1>1
  <2>5. QED BY <2>4, <1>1
<1>12. QED BY <1>8, <1>9, <1>10, <1>11 DEF n, A
(* The first port of a dimension: Shape[d] - 1 of them lead along d.       *)
LEMMA HyperXStartDef ==
    /\ HyperXStart \in [1 .. Len(Shape) + 1 -> Nat]
    /\ HyperXStart[1] = 0
    /\ \A d \in Dims : HyperXStart[d + 1] = HyperXStart[d] + Shape[d] - 1
<1> DEFINE n == Len(Shape)
           A == Nat
           F == [i \in 1 .. n |-> [a \in A |-> a + Shape[i] - 1]]
<1>1. n \in Nat /\ Dims = 1 .. n /\ \A d \in Dims : Shape[d] \in Nat \ {0}
  BY ShapeAssumption DEF Dims
<1>2. \A a \in A, b \in Nat \ {0} : a + b - 1 \in A
  OBVIOUS
<1>3. F \in [1 .. n -> [A -> A]]
  BY <1>1, <1>2
<1>4. 0 \in A
  OBVIOUS
<1> HIDE DEF A, n, F
<1>5. PICK g \in [1 .. n + 1 -> A] : g[1] = 0 /\ \A i \in 1 .. n : g[i + 1] = F[i][g[i]]
  BY <1>1, <1>3, <1>4, RecursionExists
<1>6. ASSUME NEW i \in 1 .. n PROVE g[i + 1] = g[i] + Shape[i] - 1
  <2>1. g[i] \in A
    BY <1>1
  <2>2. F[i] = [a \in A |-> a + Shape[i] - 1]
    BY DEF F
  <2>3. F[i][g[i]] = g[i] + Shape[i] - 1
    BY <2>1, <2>2
  <2>4. QED BY <2>3, <1>5
<1>7. g = [d \in 1 .. n + 1 |-> IF d = 1 THEN 0 ELSE g[d - 1] + Shape[d - 1] - 1]
  <2>1. ASSUME NEW d \in 1 .. n + 1 PROVE g[d] = IF d = 1 THEN 0 ELSE g[d - 1] + Shape[d - 1] - 1
    <3>1. CASE d = 1
      BY <3>1, <1>5
    <3>2. CASE d # 1
      <4>1. d - 1 \in 1 .. n /\ (d - 1) + 1 = d
        BY <3>2, <1>1
      <4>2. QED BY <4>1, <3>2, <1>6
    <3>3. QED BY <3>1, <3>2
  <2>2. QED BY <2>1
<1>8. HyperXStart = [d \in 1 .. n + 1 |-> IF d = 1 THEN 0 ELSE HyperXStart[d - 1] + Shape[d - 1] - 1]
  <2> DEFINE Q(f) == f = [d \in 1 .. n + 1 |-> IF d = 1 THEN 0 ELSE f[d - 1] + Shape[d - 1] - 1]
  <2>1. HyperXStart = CHOOSE f : Q(f)
    BY DEF HyperXStart, n
  <2>2. Q(g)
    BY <1>7
  <2> HIDE DEF Q
  <2>3. Q(HyperXStart)
    BY <2>1, <2>2
  <2>4. QED BY <2>3 DEF Q
<1>9. HyperXStart[1] = 0 /\ \A d \in 1 .. n + 1 : d # 1 => HyperXStart[d] = HyperXStart[d - 1] + Shape[d - 1] - 1
  BY <1>8, <1>1
<1>10. ASSUME NEW d \in Dims PROVE HyperXStart[d + 1] = HyperXStart[d] + Shape[d] - 1
  <2>1. d + 1 \in 1 .. n + 1 /\ d + 1 # 1 /\ (d + 1) - 1 = d
    BY <1>1
  <2>2. QED BY <2>1, <1>9
<1>11. ASSUME NEW d \in 1 .. n + 1 PROVE HyperXStart[d] \in A
  <2> DEFINE S == {m \in Nat : m + 1 <= n + 1 => HyperXStart[m + 1] \in A}
  <2>1. 0 \in S
    BY <1>9, <1>4
  <2>2. ASSUME NEW m \in Nat, m \in S PROVE m + 1 \in S
    <3> SUFFICES ASSUME (m + 1) + 1 <= n + 1 PROVE HyperXStart[(m + 1) + 1] \in A
      OBVIOUS
    <3>1. m + 1 \in Dims /\ m + 1 <= n + 1
      BY <1>1
    <3>2. QED BY <3>1, <2>2, <1>10, <1>1, <1>2
  <2>3. \A m \in Nat : m \in S
    <3> HIDE DEF S
    <3>1. QED BY <2>1, <2>2, SetInduction
  <2>4. d - 1 \in S /\ d - 1 + 1 = d
    BY <2>3, <1>1
  <2>5. QED BY <2>4, <1>1
<1>12. QED BY <1>8, <1>9, <1>10, <1>11 DEF n, A

-----------------------------------------------------------------------------
(* Arithmetic that the provers need to be told of. *)
LEMMA MulProperties ==
    \A a, b, c \in Nat : /\ a * b \in Nat /\ a * b = b * a
                         /\ (a * b) * c = a * (b * c)
                         /\ a * (b + c) = a * b + a * c
OBVIOUS

(* Products of positive numbers.                                           *)
LEMMA MulPositive == \A a, b \in Nat \ {0} : a * b \in Nat \ {0}
OBVIOUS

(* Quotient and rest.                                                      *)
LEMMA DivMod ==
    ASSUME NEW a \in Nat, NEW b \in Nat \ {0}
    PROVE  a \div b \in Nat /\ a % b \in Nat /\ a % b < b /\ a = b * (a \div b) + (a % b)
OBVIOUS

(* ... and no others.                                                      *)
LEMMA DivUnique ==
    ASSUME NEW a \in Nat, NEW b \in Nat \ {0}, NEW q \in Nat, NEW r \in Nat,
           r < b, a = b * q + r
    PROVE  a \div b = q /\ a % b = r
OBVIOUS

(* Two divisions are one.                                                  *)
LEMMA DivDiv ==
    ASSUME NEW a \in Nat, NEW b \in Nat \ {0}, NEW c \in Nat \ {0}
    PROVE  (a \div b) \div c = a \div (b * c)
OBVIOUS

(* A multiple of the divisor adds to the quotient and not to the rest.     *)
LEMMA DivAdd ==
    ASSUME NEW a \in Nat, NEW b \in Nat \ {0}, NEW k \in Nat
    PROVE  (b * k + a) \div b = k + (a \div b) /\ (b * k + a) % b = a % b
<1>1. a \div b \in Nat /\ a % b \in Nat /\ a % b < b /\ a = b * (a \div b) + (a % b)
  BY DivMod
<1>2. b * (k + (a \div b)) = b * k + b * (a \div b)
  BY <1>1, MulProperties
<1>3. b * k \in Nat /\ b * (a \div b) \in Nat
  BY <1>1, MulProperties
<1>4. b * k + a = b * (k + (a \div b)) + (a % b)
  BY <1>1, <1>2, <1>3
<1>5. k + (a \div b) \in Nat /\ b * k + a \in Nat
  BY <1>1, <1>3
<1>6. QED BY <1>1, <1>4, <1>5, DivUnique

-----------------------------------------------------------------------------
(* Sizes of the dimensions.                                                *)
LEMMA ShapeType ==
    /\ Len(Shape) \in Nat \ {0} /\ Dims = 1 .. Len(Shape)
    /\ \A d \in Dims : Shape[d] \in Nat \ {0}
BY ShapeAssumption DEF Dims

(* Strides are positive.                                                   *)
LEMMA BelowType == \A d \in Dims : /\ Below[d] \in Nat \ {0} /\ Below[d + 1] \in Nat \ {0}
                                   /\ Below[d + 1] = Below[d] * Shape[d]
BY BelowDef, ShapeType

(* A router number is below the size of the machine. *)
LEMMA RouterIsNat ==
    \A r : r \in Routers <=> r \in Nat /\ r < Below[Len(Shape) + 1]
BY BelowDef, ShapeType DEF Routers

(* A location is within the shape.                                         *)
LEMMA LocationType ==
    ASSUME NEW r \in Routers
    PROVE  /\ DOMAIN Location(r) = Dims
           /\ \A d \in Dims : /\ Location(r)[d] = (r \div Below[d]) % Shape[d]
                              /\ Location(r)[d] \in Nat
                              /\ Location(r)[d] < Shape[d]
<1>1. Location(r) = [d \in Dims |-> (r \div Below[d]) % Shape[d]]
  BY DEF Location, idToLocation
<1>2. ASSUME NEW d \in Dims PROVE (r \div Below[d]) % Shape[d] \in Nat /\ (r \div Below[d]) % Shape[d] < Shape[d]
  <2>1. r \div Below[d] \in Nat
    BY RouterIsNat, BelowType, DivMod
  <2>2. QED BY <2>1, ShapeType, DivMod
<1>3. QED BY <1>1, <1>2

(* The location in dimension d is what the quotients by two successive     *)
(* strides differ by.                                                      *)
LEMMA Digit ==
    ASSUME NEW r \in Nat, NEW d \in Dims
    PROVE  /\ r \div Below[d] \in Nat /\ r \div Below[d + 1] \in Nat
           /\ r \div Below[d] = Shape[d] * (r \div Below[d + 1]) + ((r \div Below[d]) % Shape[d])
           /\ r \div Below[d + 1] = (r \div Below[d]) \div Shape[d]
<1>1. Below[d] \in Nat \ {0} /\ Shape[d] \in Nat \ {0} /\ Below[d + 1] = Below[d] * Shape[d]
  BY BelowType, ShapeType
<1>2. r \div Below[d] \in Nat
  BY <1>1, DivMod
<1>3. r \div Below[d + 1] = (r \div Below[d]) \div Shape[d]
  BY <1>1, DivDiv
<1>4. PICK q \in Nat, s \in Nat \ {0} : q = r \div Below[d] /\ s = Shape[d]
  BY <1>1, <1>2
<1>5. q \div s \in Nat /\ q = s * (q \div s) + (q % s)
  BY DivMod
<1>6. QED BY <1>2, <1>3, <1>4, <1>5

(* No two routers have the same location. *)
LEMMA LocationInjective ==
    ASSUME NEW r \in Routers, NEW o \in Routers, Location(r) = Location(o)
    PROVE  r = o
<1> DEFINE n == Len(Shape)
           S == {k \in Nat : k <= n => r \div Below[n + 1 - k] = o \div Below[n + 1 - k]}
<1>1. n \in Nat \ {0} /\ Dims = 1 .. n /\ r \in Nat /\ o \in Nat
  BY ShapeType, RouterIsNat
<1>2. 0 \in S
  <2>1. r < Below[n + 1] /\ o < Below[n + 1] /\ Below[n + 1] \in Nat \ {0}
    BY RouterIsNat, BelowDef, <1>1
  <2>2. r = Below[n + 1] * 0 + r /\ o = Below[n + 1] * 0 + o
    BY <2>1, <1>1
  <2>3. r \div Below[n + 1] = 0 /\ o \div Below[n + 1] = 0
    <3> HIDE DEF n
    <3>1. QED BY <1>1, <2>1, <2>2, DivUnique
  <2>4. n + 1 - 0 = n + 1
    BY <1>1
  <2>5. QED BY <2>3, <2>4
<1>3. ASSUME NEW k \in Nat, k \in S PROVE k + 1 \in S
  <2> SUFFICES ASSUME k + 1 <= n
               PROVE  r \div Below[n + 1 - (k + 1)] = o \div Below[n + 1 - (k + 1)]
    OBVIOUS
  <2>1. PICK d \in Dims : d = n + 1 - (k + 1) /\ d + 1 = n + 1 - k
    BY <1>1
  <2>2. r \div Below[d + 1] = o \div Below[d + 1]
    BY <1>1, <1>3, <2>1
  <2>3. (r \div Below[d]) % Shape[d] = (o \div Below[d]) % Shape[d]
    BY LocationType
  <2>4. r \div Below[d] = o \div Below[d]
    BY <1>1, <2>2, <2>3, Digit
  <2>5. QED BY <2>1, <2>4
<1>4. \A k \in Nat : k \in S
  <2> HIDE DEF S
  <2>1. QED BY <1>2, <1>3, SetInduction
<1>5. n \in S /\ n + 1 - n = 1
  BY <1>1, <1>4
<1>6. r \div Below[1] = o \div Below[1]
  BY <1>1, <1>5
<1>7. r \div 1 = r /\ o \div 1 = o
  BY <1>1
<1>8. QED BY <1>6, <1>7, BelowDef

(* A stride is a multiple of every smaller one.                            *)
LEMMA BelowDivides ==
    ASSUME NEW e \in Dims, NEW d \in 1 .. Len(Shape) + 1, e < d
    PROVE  \E m \in Nat \ {0} : Below[d] = (Below[e] * Shape[e]) * m
<1> DEFINE n == Len(Shape)
           S == {k \in Nat : e + 1 + k <= n + 1 =>
                    \E m \in Nat \ {0} : Below[e + 1 + k] = (Below[e] * Shape[e]) * m}
<1>1. n \in Nat \ {0} /\ Dims = 1 .. n /\ e \in 1 .. n
  BY ShapeType
<1>2. Below[e] \in Nat \ {0} /\ Shape[e] \in Nat \ {0} /\ Below[e + 1] = Below[e] * Shape[e]
  BY BelowType, ShapeType
<1>3. Below[e] * Shape[e] \in Nat \ {0}
  BY <1>2, MulPositive
<1>4. 0 \in S
  <2>1. e + 1 + 0 = e + 1
    BY <1>1
  <2>2. Below[e + 1] = (Below[e] * Shape[e]) * 1
    BY <1>2, <1>3
  <2>3. QED BY <2>1, <2>2
<1>5. ASSUME NEW k \in Nat, k \in S PROVE k + 1 \in S
  <2> SUFFICES ASSUME e + 1 + (k + 1) <= n + 1
               PROVE  \E m \in Nat \ {0} : Below[e + 1 + (k + 1)] = (Below[e] * Shape[e]) * m
    OBVIOUS
  <2>1. PICK c \in Dims : c = e + 1 + k /\ c + 1 = e + 1 + (k + 1)
    BY <1>1
  <2>2. e + 1 + k <= n + 1
    BY <1>1
  <2>3. PICK m \in Nat \ {0} : Below[c] = (Below[e] * Shape[e]) * m
    BY <1>5, <2>1, <2>2
  <2>4. Shape[c] \in Nat \ {0} /\ Below[c + 1] = Below[c] * Shape[c]
    BY BelowType, ShapeType
  <2>5. m * Shape[c] \in Nat \ {0}
    BY <2>3, <2>4, MulPositive
  <2>6. Below[c + 1] = (Below[e] * Shape[e]) * (m * Shape[c])
    BY <1>3, <2>3, <2>4, MulProperties
  <2>7. QED BY <2>1, <2>5, <2>6
<1>6. \A k \in Nat : k \in S
  <2> HIDE DEF S
  <2>1. QED BY <1>4, <1>5, SetInduction
<1>7. PICK k \in Nat : d = e + 1 + k /\ e + 1 + k <= n + 1
  <2>1. d - e - 1 \in Nat /\ d = e + 1 + (d - e - 1) /\ e + 1 + (d - e - 1) <= n + 1
    BY <1>1
  <2>2. QED BY <2>1
<1>8. QED BY <1>6, <1>7

(* Every location that differs from a router's in one dimension is one.    *)
LEMMA LocationMoves ==
    ASSUME NEW r \in Routers, NEW d \in Dims, NEW x \in 0 .. Shape[d] - 1
    PROVE  \E o \in Routers : Location(o) = [Location(r) EXCEPT ![d] = x]
<1> DEFINE n == Len(Shape)
<1>1. PICK b \in Nat \ {0}, s \in Nat \ {0} : b = Below[d] /\ s = Shape[d] /\ Below[d + 1] = b * s
  BY BelowType, ShapeType
<1>2. n \in Nat \ {0} /\ Dims = 1 .. n /\ r \in Nat /\ x \in Nat /\ x < s
  BY ShapeType, RouterIsNat, <1>1
<1>3. PICK low \in Nat, high \in Nat : low = r % b /\ high = r \div Below[d + 1] /\ low < b
  BY <1>1, <1>2, Digit, DivMod
<1>4. PICK o \in Nat : o = b * (s * high + x) + low
  <2>1. s * high \in Nat
    BY <1>1, <1>3, MulProperties
  <2>2. b * (s * high + x) \in Nat
    <3>1. PICK z \in Nat : z = s * high + x
      BY <1>2, <2>1
    <3>2. b \in Nat /\ b * z \in Nat
      BY <1>1, MulProperties
    <3>3. QED BY <3>1, <3>2
  <2>3. QED BY <1>3, <2>2
<1>5. s * high \in Nat
  BY <1>1, <1>3, MulProperties
<1>6. PICK q \in Nat : q = s * high + x
  BY <1>2, <1>5
<1>7. o \div b = q /\ q % s = x /\ q \div s = high
  <2>1. o \div b = q
    BY <1>3, <1>4, <1>6, DivUnique
  <2>2. q % s = x /\ q \div s = high
    BY <1>2, <1>3, <1>6, DivUnique
  <2>3. QED BY <2>1, <2>2
<1>8. o \div Below[d + 1] = r \div Below[d + 1]
  BY <1>1, <1>3, <1>4, <1>7, Digit
<1>9. ASSUME NEW e \in 1 .. n + 1, d < e PROVE o \div Below[e] = r \div Below[e]
  <2>1. PICK m \in Nat \ {0} : Below[e] = Below[d + 1] * m
    BY <1>1, <1>9, BelowDivides
  <2>2. Below[d + 1] \in Nat \ {0}
    BY BelowType
  <2>3. o \div Below[e] = (o \div Below[d + 1]) \div m /\ r \div Below[e] = (r \div Below[d + 1]) \div m
    <3>1. \A a \in Nat : a \div (Below[d + 1] * m) = (a \div Below[d + 1]) \div m
      BY <2>1, <2>2, DivDiv
    <3>2. QED BY <1>2, <1>4, <2>1, <3>1
  <2>4. QED BY <1>8, <2>3
<1>10. ASSUME NEW e \in Dims, e < d PROVE (o \div Below[e]) % Shape[e] = (r \div Below[e]) % Shape[e]
  <2>1. PICK c \in Nat \ {0}, t \in Nat \ {0} : c = Below[e] /\ t = Shape[e]
    BY BelowType, ShapeType
  <2>2. PICK m \in Nat \ {0} : b = (c * t) * m
    <3>1. d \in 1 .. Len(Shape) + 1
      BY <1>2
    <3>2. QED BY <1>1, <1>10, <2>1, <3>1, BelowDivides
  (* Every multiple of b is lost when the location in e is taken.          *)
  <2>3. ASSUME NEW k \in Nat PROVE ((b * k + low) \div c) % t = (low \div c) % t
    <3>1. PICK j \in Nat, tj \in Nat : j = m * k /\ tj = t * j
      BY <2>1, <2>2, MulProperties
    <3>2. c * t \in Nat
      BY <2>1, MulProperties
    <3>3. b * k = (c * t) * j
      BY <2>2, <3>1, <3>2, MulProperties
    <3>4. (c * t) * j = c * tj
      BY <2>1, <3>1, MulProperties
    <3>5. (c * tj + low) \div c = tj + (low \div c)
      BY DivAdd, Zenon
    <3>6. PICK l \in Nat : l = low \div c
      BY <1>3, <2>1, DivMod
    <3>7. (t * j + l) % t = l % t
      BY DivAdd, Zenon
    <3>8. QED BY <3>1, <3>3, <3>4, <3>5, <3>6, <3>7
  <2>4. r \div b \in Nat /\ r = b * (r \div b) + low
    BY <1>1, <1>2, <1>3, DivMod
  <2>5. QED BY <1>4, <1>6, <2>1, <2>3, <2>4
<1>11. o \in Routers
  <2>1. d < n + 1 /\ n + 1 \in 1 .. n + 1
    BY <1>2
  <2>2. o \div Below[n + 1] = r \div Below[n + 1]
    BY <1>9, <2>1
  <2>3. PICK all \in Nat \ {0} : all = Below[n + 1]
    BY BelowDef, <1>2
  <2>4. r < all /\ r = all * 0 + r
    BY <2>3, <1>2, RouterIsNat
  <2>5. r \div all = 0
    BY <2>4, <2>3, <1>2, DivUnique
  <2>6. o < all
    BY <2>2, <2>3, <2>5, DivMod, <1>4
  <2>7. QED BY <2>6, <2>3, RouterIsNat, <1>4
<1>12. ASSUME NEW e \in Dims PROVE Location(o)[e] = [Location(r) EXCEPT ![d] = x][e]
  <2>1. Location(o)[e] = (o \div Below[e]) % Shape[e] /\ Location(r)[e] = (r \div Below[e]) % Shape[e]
    BY <1>11, LocationType
  <2>2. CASE e = d
    BY <2>1, <2>2, <1>1, <1>7, LocationType
  <2>3. CASE d < e
    <3>1. e \in 1 .. n + 1
      BY <1>2
    <3>2. QED BY <2>1, <2>3, <3>1, <1>9, LocationType, <1>2
  <2>4. CASE e < d
    BY <2>1, <2>4, <1>10, LocationType, <1>2
  <2>5. QED BY <2>2, <2>3, <2>4, <1>2
<1>13. DOMAIN Location(o) = Dims /\ DOMAIN [Location(r) EXCEPT ![d] = x] = Dims
  BY <1>11, LocationType
<1>14. Location(o) = [Location(r) EXCEPT ![d] = x]
  <2>1. Location(o) = [e \in Dims |-> Location(o)[e]]
    BY <1>11 DEF Location, idToLocation
  <2>2. [Location(r) EXCEPT ![d] = x] = [e \in Dims |-> [Location(r) EXCEPT ![d] = x][e]]
    BY <1>13
  <2>3. QED BY <2>1, <2>2, <1>12
<1>15. QED BY <1>11, <1>14

(* A router one hop away in dimension d differs in that dimension only.    *)
LEMMA MovedLocation ==
    ASSUME NEW r \in Routers, NEW d \in Dims, NEW x \in 0 .. Shape[d] - 1
    PROVE  /\ Moved(r, d, x) \in Routers
           /\ Location(Moved(r, d, x)) = [Location(r) EXCEPT ![d] = x]
           /\ Location(Moved(r, d, x))[d] = x
           /\ \A e \in Dims \ {d} : Location(Moved(r, d, x))[e] = Location(r)[e]
<1>1. PICK l : l = [Location(r) EXCEPT ![d] = x]
  OBVIOUS
<1>2. PICK o \in Routers : Location(o) = l
  BY <1>1, LocationMoves
<1>3. AtLocation(l) \in Routers /\ Location(AtLocation(l)) = l
  BY <1>2 DEF AtLocation
<1>4. Moved(r, d, x) = AtLocation(l)
  BY <1>1 DEF Moved
<1>5. l[d] = x /\ \A e \in Dims \ {d} : l[e] = Location(r)[e]
  BY <1>1, LocationType
<1>6. QED BY <1>1, <1>3, <1>4, <1>5

(* A move and the move back. *)
LEMMA MovedBack ==
    ASSUME NEW r \in Routers, NEW d \in Dims, NEW x \in 0 .. Shape[d] - 1
    PROVE  Moved(Moved(r, d, x), d, Location(r)[d]) = r
<1>1. PICK o \in Routers : o = Moved(r, d, x)
  BY MovedLocation
<1>2. Location(o) = [Location(r) EXCEPT ![d] = x]
  BY <1>1, MovedLocation
<1>3. PICK y \in 0 .. Shape[d] - 1 : y = Location(r)[d]
  <2>1. Location(r)[d] \in Nat /\ Location(r)[d] < Shape[d] /\ Shape[d] \in Nat
    BY LocationType, ShapeType
  <2>2. QED BY <2>1
<1>4. Moved(o, d, y) \in Routers /\ Location(Moved(o, d, y)) = [Location(o) EXCEPT ![d] = y]
  BY MovedLocation
<1>5. [Location(o) EXCEPT ![d] = y] = Location(r)
  <2>1. Location(r) = [e \in Dims |-> Location(r)[e]]
    BY DEF Location, idToLocation
  <2>2. QED BY <1>2, <1>3, <2>1
<1>6. QED BY <1>1, <1>3, <1>4, <1>5, LocationInjective

-----------------------------------------------------------------------------
(* HyperX: the ports of a dimension come after those of the ones before.   *)
LEMMA StartType ==
    \A d \in Dims : /\ HyperXStart[d] \in Nat /\ HyperXStart[d + 1] \in Nat
                    /\ HyperXStart[d + 1] = HyperXStart[d] + Shape[d] - 1
BY HyperXStartDef, ShapeType

(* ... in order.                                                           *)
LEMMA StartMonotone ==
    ASSUME NEW d \in 1 .. Len(Shape) + 1, NEW e \in 1 .. Len(Shape) + 1, d <= e
    PROVE  HyperXStart[d] <= HyperXStart[e]
<1> DEFINE n == Len(Shape)
           S == {k \in Nat : d + k <= n + 1 => HyperXStart[d] <= HyperXStart[d + k]}
<1>1. n \in Nat \ {0} /\ Dims = 1 .. n /\ d \in Nat /\ HyperXStart[d] \in Nat
  BY ShapeType, HyperXStartDef
<1>2. 0 \in S
  BY <1>1
<1>3. ASSUME NEW k \in Nat, k \in S PROVE k + 1 \in S
  <2> SUFFICES ASSUME d + (k + 1) <= n + 1 PROVE HyperXStart[d] <= HyperXStart[d + (k + 1)]
    OBVIOUS
  <2>1. PICK c \in Dims : c = d + k /\ c + 1 = d + (k + 1)
    BY <1>1
  <2>2. d + k <= n + 1
    BY <1>1
  <2>3. HyperXStart[d] <= HyperXStart[c]
    BY <1>3, <2>1, <2>2
  <2>4. Shape[c] \in Nat \ {0}
    BY ShapeType
  <2>5. QED BY <1>1, <2>1, <2>3, <2>4, StartType
<1>4. \A k \in Nat : k \in S
  <2> HIDE DEF S
  <2>1. QED BY <1>2, <1>3, SetInduction
<1>5. PICK k \in Nat : e = d + k /\ d + k <= n + 1
  <2>1. e - d \in Nat /\ e = d + (e - d) /\ d + (e - d) <= n + 1
    BY <1>1
  <2>2. QED BY <2>1
<1>6. QED BY <1>4, <1>5

(* The ports of a dimension, and no port but these is one of its ports.    *)
InDim(d, p) == p \in HyperXStart[d] .. HyperXStart[d + 1] - 1

(* A port belongs to one dimension.                                        *)
LEMMA InDimUnique ==
    ASSUME NEW d \in Dims, NEW e \in Dims, NEW p, InDim(d, p), InDim(e, p)
    PROVE  d = e
<1>1. Len(Shape) \in Nat /\ Dims = 1 .. Len(Shape) /\ p \in Nat
  BY ShapeType, StartType DEF InDim
<1>2. ASSUME NEW a \in Dims, NEW b \in Dims, a < b, InDim(a, p), InDim(b, p) PROVE FALSE
  <2>1. a + 1 \in 1 .. Len(Shape) + 1 /\ b \in 1 .. Len(Shape) + 1 /\ a + 1 <= b
    BY <1>1, <1>2
  <2>2. HyperXStart[a + 1] <= HyperXStart[b]
    BY <2>1, StartMonotone
  <2>3. QED BY <1>1, <1>2, <2>2, StartType DEF InDim
<1>3. d < e \/ e < d \/ d = e
  BY <1>1
<1>4. QED BY <1>2, <1>3

(* The dimensions' ports are the ports below the local ones.               *)
LEMMA InDimRange ==
    ASSUME NEW d \in Dims, NEW p, InDim(d, p)
    PROVE  p \in 0 .. HyperXStart[Len(Shape) + 1] - 1
<1>1. d + 1 \in 1 .. Len(Shape) + 1 /\ Len(Shape) + 1 \in 1 .. Len(Shape) + 1 /\ d + 1 <= Len(Shape) + 1
  BY ShapeType
<1>2. HyperXStart[d + 1] <= HyperXStart[Len(Shape) + 1]
  BY <1>1, StartMonotone
<1>3. HyperXStart[Len(Shape) + 1] \in Nat
  BY <1>1, HyperXStartDef
<1>4. QED BY <1>2, <1>3, StartType DEF InDim

(* ... and every port below the local ones does.                           *)
LEMMA InDimExists ==
    ASSUME NEW p \in 0 .. HyperXStart[Len(Shape) + 1] - 1
    PROVE  \E d \in Dims : InDim(d, p)
<1> DEFINE n == Len(Shape)
           T == {d \in Nat : d \in 1 .. n + 1 /\ p < HyperXStart[d]}
<1>1. n \in Nat \ {0} /\ Dims = 1 .. n /\ HyperXStart[n + 1] \in Nat /\ HyperXStart[1] = 0
  BY ShapeType, HyperXStartDef
<1>2. n + 1 \in T
  BY <1>1
<1>3. PICK m \in T : \A k \in T : m <= k
  <2> HIDE DEF T
  <2>1. T # {}
    BY <1>2
  <2>2. T \in SUBSET Nat
    BY DEF T
  <2>3. QED BY <2>1, <2>2, LeastNat
<1>4. m # 1
  BY <1>1, <1>3
<1>5. PICK d \in Dims : m = d + 1
  <2>1. m - 1 \in Dims /\ m = (m - 1) + 1
    BY <1>1, <1>3, <1>4
  <2>2. QED BY <2>1
<1>6. d \notin T /\ d \in 1 .. n + 1
  BY <1>1, <1>3, <1>5
<1>7. ~(p < HyperXStart[d]) /\ p < HyperXStart[d + 1]
  BY <1>1, <1>3, <1>5, <1>6
<1>8. QED BY <1>7, StartType DEF InDim


(* The neighbours of a router in dimension d, by their location there.     *)
Beside(r, d) == (0 .. Shape[d] - 1) \ {Location(r)[d]}

(* The port that routing computes for a neighbour is the one that the      *)
(* front end has counted up to.                                            *)
LEMMA OffsetIsWired ==
    ASSUME NEW r \in Routers, NEW d \in Dims, NEW x \in Beside(r, d)
    PROVE  HyperXWired(r, d, x) = offset(r, d, x) /\ InDim(d, offset(r, d, x))
<1>1. PICK l \in Nat : l = Location(r)[d] /\ l < Shape[d]
  BY LocationType
<1>2. x \in Nat /\ x < Shape[d] /\ x # l /\ Shape[d] \in Nat \ {0}
  BY <1>1, ShapeType DEF Beside
<1>3. HyperXStart[d] \in Nat /\ HyperXStart[d + 1] = HyperXStart[d] + Shape[d] - 1
  BY StartType
<1>4. PICK Y : Y = {y \in 0 .. x - 1 : y # l}
  OBVIOUS
<1>5. HyperXWired(r, d, x) = HyperXStart[d] + Cardinality(Y)
  BY <1>1, <1>4 DEF HyperXWired
<1>6. IsFiniteSet(0 .. x - 1) /\ Cardinality(0 .. x - 1) = x
  <2>1. x - 1 \in Int /\ 0 \in Int
    BY <1>2
  <2>2. IsFiniteSet(0 .. x - 1) /\ Cardinality(0 .. x - 1) = IF 0 > x - 1 THEN 0 ELSE (x - 1) - 0 + 1
    BY <2>1, FS_Interval
  <2>3. QED BY <2>2, <1>2
<1>7. CASE x < l
  <2>1. Y = 0 .. x - 1
    BY <1>1, <1>2, <1>4, <1>7
  <2>2. offset(r, d, x) = HyperXStart[d] + x
    BY <1>1, <1>2, <1>3, <1>7 DEF offset
  <2>3. QED BY <1>1, <1>2, <1>3, <1>5, <1>6, <1>7, <2>1, <2>2 DEF InDim
<1>8. CASE l < x
  <2>1. Y = (0 .. x - 1) \ {l} /\ l \in 0 .. x - 1
    BY <1>1, <1>2, <1>4, <1>8
  <2>2. Cardinality(Y) = x - 1
    BY <1>6, <2>1, FS_RemoveElement
  <2>3. offset(r, d, x) = HyperXStart[d] + x - 1
    BY <1>1, <1>2, <1>3, <1>8 DEF offset
  <2>4. QED BY <1>1, <1>2, <1>3, <1>5, <1>8, <2>2, <2>3 DEF InDim
<1>9. QED BY <1>1, <1>2, <1>7, <1>8

(* No two neighbours are behind the same port. *)
LEMMA OffsetInjective ==
    ASSUME NEW r \in Routers, NEW d \in Dims, NEW x \in Beside(r, d),
           NEW e \in Dims, NEW y \in Beside(r, e), offset(r, d, x) = offset(r, e, y)
    PROVE  d = e /\ x = y
<1>1. d = e
  BY OffsetIsWired, InDimUnique
<1>2. PICK l \in Nat : l = Location(r)[d] /\ l < Shape[d]
  BY LocationType
<1>3. x \in Nat /\ y \in Nat /\ x # l /\ y # l /\ HyperXStart[d] \in Nat
  BY <1>1, <1>2, ShapeType, StartType DEF Beside
<1>4. x - (IF x > l THEN 1 ELSE 0) = y - (IF y > l THEN 1 ELSE 0)
  <2>1. \A z \in Nat : z - (IF z > l THEN 1 ELSE 0) \in Int
    BY <1>2
  <2>2. QED BY <1>1, <1>2, <1>3, <2>1 DEF offset
<1>5. x = y
  BY <1>2, <1>3, <1>4
<1>6. QED BY <1>1, <1>5

(* Every port of a dimension leads to a neighbour. *)
LEMMA OffsetOnto ==
    ASSUME NEW r \in Routers, NEW d \in Dims, NEW p, InDim(d, p)
    PROVE  \E x \in Beside(r, d) : offset(r, d, x) = p
<1>1. PICK l \in Nat : l = Location(r)[d] /\ l < Shape[d]
  BY LocationType
<1>2. HyperXStart[d] \in Nat /\ HyperXStart[d + 1] = HyperXStart[d] + Shape[d] - 1 /\ Shape[d] \in Nat \ {0}
  BY StartType, ShapeType
<1>3. PICK z \in Nat : p = HyperXStart[d] + z /\ z < Shape[d] - 1
  <2>1. p - HyperXStart[d] \in Nat /\ p = HyperXStart[d] + (p - HyperXStart[d]) /\ p - HyperXStart[d] < Shape[d] - 1
    BY <1>2 DEF InDim
  <2>2. QED BY <2>1
<1>4. CASE z < l
  <2>1. z \in Beside(r, d) /\ offset(r, d, z) = p
    BY <1>1, <1>2, <1>3, <1>4 DEF Beside, offset
  <2>2. QED BY <2>1
<1>5. CASE l <= z
  <2>1. z + 1 \in Beside(r, d) /\ offset(r, d, z + 1) = p
    BY <1>1, <1>2, <1>3, <1>5 DEF Beside, offset
  <2>2. QED BY <2>1
<1>6. QED BY <1>1, <1>4, <1>5

(* The front end's bound on a location in its search loses none.           *)
LEMMA ShapeBound == \A d \in Dims : Shape[d] <= Below[Len(Shape) + 1]
<1> SUFFICES ASSUME NEW d \in Dims PROVE Shape[d] <= Below[Len(Shape) + 1]
  OBVIOUS
<1>1. d \in Dims /\ Len(Shape) + 1 \in 1 .. Len(Shape) + 1 /\ d < Len(Shape) + 1
  BY ShapeType
<1>2. PICK m \in Nat \ {0} : Below[Len(Shape) + 1] = (Below[d] * Shape[d]) * m
  BY <1>1, BelowDivides
<1>3. PICK b \in Nat \ {0}, s \in Nat \ {0} : b = Below[d] /\ s = Shape[d]
  BY BelowType, ShapeType
<1>4. \A u, v \in Nat \ {0} : u <= v * u /\ u <= u * v /\ v * u \in Nat \ {0}
  OBVIOUS
<1>5. s <= b * s /\ b * s <= (b * s) * m /\ b * s \in Nat /\ (b * s) * m \in Nat
  BY <1>4
<1>6. QED BY <1>2, <1>3, <1>5

(* What the wiring has behind the port for a neighbour: that neighbour, at *)
(* the port that it computes for the way back.                             *)
LEMMA HyperXPeerOffset ==
    ASSUME NEW r \in Routers, NEW d \in Dims, NEW x \in Beside(r, d)
    PROVE  /\ x \in 0 .. Shape[d] - 1
           /\ Location(r)[d] \in Beside(Moved(r, d, x), d)
           /\ HyperXPeer(r, offset(r, d, x))
                = <<Moved(r, d, x), offset(Moved(r, d, x), d, Location(r)[d])>>
<1>1. PICK p : p = offset(r, d, x)
  OBVIOUS
<1> DEFINE C(t) == t[2] # Location(r)[t[1]] /\ HyperXWired(r, t[1], t[2]) = p
           U == {u \in Dims \X (0 .. Below[Len(Shape) + 1]) : u[2] < Shape[u[1]]}
           to == CHOOSE t \in U : C(t)
<1>2. x \in 0 .. Shape[d] - 1 /\ x # Location(r)[d] /\ x \in Nat /\ x < Shape[d] /\ Shape[d] \in Nat
  BY ShapeType DEF Beside
<1>3. Below[Len(Shape) + 1] \in Nat
  BY BelowDef, ShapeType
<1>4. <<d, x>> \in U /\ C(<<d, x>>)
  <2>1. x \in 0 .. Below[Len(Shape) + 1]
    BY <1>2, <1>3, ShapeBound
  <2>2. HyperXWired(r, d, x) = p
    BY <1>1, OffsetIsWired
  <2>3. QED BY <1>2, <2>1, <2>2
<1>5. to \in U /\ C(to)
  <2> HIDE DEF U, C
  <2>1. QED BY <1>4
<1>6. to = <<d, x>>
  <2>1. PICK e \in Dims, y \in 0 .. Below[Len(Shape) + 1] : to = <<e, y>>
    BY <1>5
  <2>2. y < Shape[e] /\ y # Location(r)[e] /\ HyperXWired(r, e, y) = p
    BY <1>5, <2>1
  <2>3. y \in Beside(r, e)
    BY <1>3, <2>1, <2>2, ShapeType DEF Beside
  <2>4. offset(r, e, y) = offset(r, d, x)
    BY <1>1, <2>2, <2>3, OffsetIsWired
  <2>5. QED BY <2>1, <2>3, <2>4, OffsetInjective
<1>7. HyperXPeer(r, p) = <<Moved(r, to[1], to[2]), HyperXWired(Moved(r, to[1], to[2]), to[1], Location(r)[to[1]])>>
  BY DEF HyperXPeer
<1>8. PICK o \in Routers : o = Moved(r, d, x) /\ Location(o)[d] = x
  BY <1>2, MovedLocation
<1>9. Location(r)[d] \in Beside(o, d)
  BY <1>2, <1>8, LocationType DEF Beside
<1>10. HyperXWired(o, d, Location(r)[d]) = offset(o, d, Location(r)[d])
  BY <1>9, OffsetIsWired
<1>11. <<d, x>>[1] = d /\ <<d, x>>[2] = x
  OBVIOUS
<1>12. HyperXPeer(r, p) = <<Moved(r, d, x), HyperXWired(Moved(r, d, x), d, Location(r)[d])>>
  <2> HIDE DEF to
  <2>1. QED BY <1>6, <1>7, <1>11
<1>13. QED BY <1>1, <1>2, <1>8, <1>9, <1>10, <1>12

-----------------------------------------------------------------------------
(* Torus and mesh: the location one step up or down, round the end.        *)
Around(x, n, up) == IF up THEN (x + 1) % n ELSE (x + n - 1) % n

(* One step around a ring.                                                 *)
LEMMA AroundValue ==
    ASSUME NEW n \in Nat \ {0}, NEW x \in 0 .. n - 1
    PROVE  /\ Around(x, n, TRUE) = IF x = n - 1 THEN 0 ELSE x + 1
           /\ Around(x, n, FALSE) = IF x = 0 THEN n - 1 ELSE x - 1
<1>1. (x + 1) % n = IF x = n - 1 THEN 0 ELSE x + 1
  <2>1. CASE x = n - 1
    <3>1. x + 1 = n * 1 + 0
      BY <2>1
    <3>2. (x + 1) % n = 0
      BY <3>1, DivUnique
    <3>3. QED BY <2>1, <3>2
  <2>2. CASE x # n - 1
    <3>1. x + 1 = n * 0 + (x + 1) /\ x + 1 < n /\ x + 1 \in Nat
      BY <2>2
    <3>2. QED BY <2>2, <3>1, DivUnique
  <2>3. QED BY <2>1, <2>2
<1>2. (x + n - 1) % n = IF x = 0 THEN n - 1 ELSE x - 1
  <2>1. CASE x = 0
    <3>1. x + n - 1 = n * 0 + (n - 1) /\ n - 1 < n /\ n - 1 \in Nat
      BY <2>1
    <3>2. (x + n - 1) % n = n - 1
      BY <3>1, DivUnique
    <3>3. QED BY <2>1, <3>2
  <2>2. CASE x # 0
    <3>1. x + n - 1 = n * 1 + (x - 1) /\ x - 1 < n /\ x - 1 \in Nat /\ x + n - 1 \in Nat
      BY <2>2
    <3>2. (x + n - 1) % n = x - 1
      BY <3>1, DivUnique
    <3>3. QED BY <2>2, <3>2
  <2>3. QED BY <2>1, <2>2
<1>3. QED BY <1>1, <1>2 DEF Around

(* Ports 2d - 2 and 2d - 1 are those of dimension d. *)
LEMMA TorusPortOf ==
    ASSUME NEW d \in Dims, NEW up \in BOOLEAN
    PROVE  /\ TorusPort(d, up) \in 0 .. 2 * Len(Shape) - 1
           /\ PortDim(TorusPort(d, up)) = d /\ PortUp(TorusPort(d, up)) = up
<1>1. d \in Nat \ {0} /\ d <= Len(Shape) /\ Len(Shape) \in Nat
  BY ShapeType
<1>2. CASE up = TRUE
  <2>1. PICK p \in Nat : p = 2 * (d - 1)
    BY <1>1
  <2>2. TorusPort(d, TRUE) = p
    BY <2>1, <1>1 DEF TorusPort
  <2>3. p \in 0 .. 2 * Len(Shape) - 1 /\ p \div 2 = d - 1 /\ p % 2 = 0
    BY <1>1, <2>1
  <2>4. PortDim(p) = d /\ PortUp(p) = TRUE
    BY <1>1, <2>3 DEF PortDim, PortUp
  <2>5. QED BY <1>2, <2>2, <2>3, <2>4
<1>3. CASE up = FALSE
  <2>1. PICK p \in Nat : p = 2 * (d - 1) + 1
    BY <1>1
  <2>2. TorusPort(d, FALSE) = p
    BY <2>1, <1>1 DEF TorusPort
  <2>3. p \in 0 .. 2 * Len(Shape) - 1 /\ p \div 2 = d - 1 /\ p % 2 # 0
    BY <1>1, <2>1
  <2>4. PortDim(p) = d /\ PortUp(p) = FALSE
    BY <1>1, <2>3 DEF PortDim, PortUp
  <2>5. QED BY <1>3, <2>2, <2>3, <2>4
<1>4. QED BY <1>2, <1>3

(* Every port of a torus router is one of these.                           *)
LEMMA TorusPortOnto ==
    ASSUME NEW p \in 0 .. 2 * Len(Shape) - 1
    PROVE  PortDim(p) \in Dims /\ PortUp(p) \in BOOLEAN /\ p = TorusPort(PortDim(p), PortUp(p))
<1>1. Dims = 1 .. Len(Shape) /\ Len(Shape) \in Nat
  BY ShapeType
<1>2. CASE p % 2 = 0
  BY <1>1, <1>2 DEF PortDim, PortUp, TorusPort
<1>3. CASE p % 2 # 0
  BY <1>1, <1>3 DEF PortDim, PortUp, TorusPort
<1>4. QED BY <1>2, <1>3

(* The wiring behind a port of dimension d. *)
LEMMA TorusPeerPort ==
    ASSUME NEW r \in Routers, NEW d \in Dims, NEW up \in BOOLEAN
    PROVE  LET x == Around(Location(r)[d], Shape[d], up)
           IN  /\ x \in 0 .. Shape[d] - 1
               /\ Around(x, Shape[d], ~up) = Location(r)[d]
               /\ TorusPeer(r, TorusPort(d, up)) = <<Moved(r, d, x), TorusPort(d, ~up)>>
<1> DEFINE x == Around(Location(r)[d], Shape[d], up)
<1>1. PICK n \in Nat \ {0}, l \in Nat : n = Shape[d] /\ l = Location(r)[d] /\ l \in 0 .. n - 1
  <2>1. Shape[d] \in Nat \ {0} /\ Location(r)[d] \in 0 .. Shape[d] - 1
    BY ShapeType, LocationType
  <2>2. QED BY <2>1
<1>2. x \in 0 .. n - 1 /\ Around(x, n, ~up) = l
  <2>1. CASE up = TRUE
    <3>1. PICK y : y = Around(l, n, TRUE)
      OBVIOUS
    <3>2. y = IF l = n - 1 THEN 0 ELSE l + 1
      BY <1>1, <3>1, AroundValue
    <3>3. y \in 0 .. n - 1
      BY <1>1, <3>2
    <3>4. Around(y, n, FALSE) = IF y = 0 THEN n - 1 ELSE y - 1
      BY <3>3, AroundValue
    <3>5. Around(y, n, FALSE) = l
      <4>1. CASE l = n - 1
        BY <1>1, <3>2, <3>4, <4>1
      <4>2. CASE ~(l = n - 1)
        <5>1. y = l + 1 /\ y # 0 /\ y - 1 = l
          BY <1>1, <3>2, <4>2
        <5>2. QED BY <3>4, <5>1
      <4>3. QED BY <4>1, <4>2
    <3>6. x = y /\ (~up) = FALSE
      BY <1>1, <2>1, <3>1
    <3>7. QED BY <3>3, <3>5, <3>6
  <2>2. CASE up = FALSE
    <3>1. PICK y : y = Around(l, n, FALSE)
      OBVIOUS
    <3>2. y = IF l = 0 THEN n - 1 ELSE l - 1
      BY <1>1, <3>1, AroundValue
    <3>3. y \in 0 .. n - 1
      BY <1>1, <3>2
    <3>4. Around(y, n, TRUE) = IF y = n - 1 THEN 0 ELSE y + 1
      BY <3>3, AroundValue
    <3>5. Around(y, n, TRUE) = l
      <4>1. CASE l = 0
        BY <1>1, <3>2, <3>4, <4>1
      <4>2. CASE ~(l = 0)
        <5>1. y = l - 1 /\ y # n - 1 /\ y + 1 = l
          BY <1>1, <3>2, <4>2
        <5>2. QED BY <3>4, <5>1
      <4>3. QED BY <4>1, <4>2
    <3>6. x = y /\ (~up) = TRUE
      BY <1>1, <2>2, <3>1
    <3>7. QED BY <3>3, <3>5, <3>6
  <2>3. QED BY <2>1, <2>2
<1>3. TorusPeer(r, TorusPort(d, up)) = <<Moved(r, d, x), TorusPort(d, ~up)>>
  BY TorusPortOf DEF TorusPeer, Around
<1>4. QED BY <1>1, <1>2, <1>3

-----------------------------------------------------------------------------
(* The first of a set of dimensions. *)
LEMMA FirstIsLeast ==
    ASSUME NEW D \in SUBSET Dims, D # {}
    PROVE  First(D) \in D /\ \A e \in D : First(D) <= e
<1>1. D \in SUBSET Nat
  BY ShapeType
<1>2. PICK m \in D : \A k \in D : m <= k
  BY <1>1, LeastNat
<1>3. QED BY <1>2 DEF First

(* Two routers differ in some dimension. *)
LEMMA UnalignedSome ==
    ASSUME NEW r \in Routers, NEW to \in Routers, r # to
    PROVE  Unaligned(r, to) # {}
<1> SUFFICES ASSUME Unaligned(r, to) = {} PROVE FALSE
  OBVIOUS
<1>1. \A d \in Dims : Location(to)[d] = Location(r)[d]
  BY DEF Unaligned
<1>2. Location(r) = [d \in Dims |-> Location(r)[d]] /\ Location(to) = [d \in Dims |-> Location(to)[d]]
  BY DEF Location, idToLocation
<1>3. Location(r) = Location(to)
  BY <1>1, <1>2
<1>4. QED BY <1>3, LocationInjective

(* The router of an endpoint, and the endpoint from its router and port.   *)
LEMMA DestRouter ==
    ASSUME NEW e \in Endpoints
    PROVE  /\ get_dest_router(e) \in Routers /\ e \in Nat
           /\ e % LocalPorts \in 0 .. LocalPorts - 1
           /\ e = get_dest_router(e) * LocalPorts + (e % LocalPorts)
<1>1. PICK n \in Nat \ {0}, l \in Nat \ {0} : n = Below[Len(Shape) + 1] /\ l = LocalPorts
  BY BelowDef, ShapeType, ShapeAssumption
<1>2. n * l \in Nat
  BY MulProperties
<1>3. e \in Nat /\ e < n * l
  BY <1>1, <1>2 DEF Endpoints
<1>4. PICK q \in Nat, m \in Nat : q = e \div l /\ m = e % l /\ m < l /\ e = l * q + m
  <2>1. e \div l \in Nat /\ e % l \in Nat /\ e % l < l /\ e = l * (e \div l) + (e % l)
    BY <1>3, DivMod
  <2>2. QED BY <2>1
<1>5. q < n
  <2> SUFFICES ASSUME n <= q PROVE FALSE
    BY <1>1, <1>4
  <2>1. PICK k \in Nat : q = n + k
    <3>1. q - n \in Nat /\ q = n + (q - n)
      BY <1>1, <1>4
    <3>2. QED BY <3>1
  <2>2. l * q = l * n + l * k /\ l * k \in Nat /\ l * n = n * l /\ l * q \in Nat
    BY <1>1, <2>1, MulProperties
  <2>3. QED BY <1>2, <1>3, <1>4, <2>2
<1>6. l * q = q * l
  BY <1>1, <1>4, MulProperties
<1>7. QED BY <1>1, <1>3, <1>4, <1>5, <1>6, RouterIsNat DEF get_dest_router

(* The number of the first local port.                                     *)
LEMMA StartPorts == \A a \in Algorithms : LocalPortStart(a) \in Nat
BY HyperXStartDef, ShapeType DEF LocalPortStart

(* A packet that is sent to its local port leaves at its destination.      *)
LEMMA LocalPortRight ==
    ASSUME NEW a \in Algorithms, NEW e \in Endpoints
    PROVE  /\ LocalPortStart(a) + (e % LocalPorts) \in Nat
           /\ isHostPort(a, LocalPortStart(a) + (e % LocalPorts))
           /\ getEndpointID(a, get_dest_router(e), LocalPortStart(a) + (e % LocalPorts)) = e
<1>1. PICK q \in Nat, m \in Nat, s \in Nat : q = get_dest_router(e) /\ m = e % LocalPorts /\ s = LocalPortStart(a)
  BY DestRouter, RouterIsNat, StartPorts
<1>2. q * LocalPorts \in Nat /\ e = q * LocalPorts + m
  BY <1>1, DestRouter, ShapeAssumption, MulProperties
<1>3. QED BY <1>1, <1>2 DEF isHostPort, getEndpointID

-----------------------------------------------------------------------------
(* The network's links are two-way: the wiring of pymerlin-topo-hyperx.py  *)
(* and pymerlin-topo-mesh.py leads from every port that is not a host's to *)
(* such a port of a router, and from there back.                           *)
THEOREM LinksAreTwoWay ==
    ASSUME NEW alg \in Algorithms, NEW r \in Routers,
           NEW p \in 0 .. LocalPortStart(alg) - 1
    PROVE  LET o == Peer(alg, r, p)
           IN  /\ o \in Routers \X (0 .. LocalPortStart(alg) - 1)
               /\ Peer(alg, o[1], o[2]) = <<r, p>>
<1>1. CASE alg \in Grids
  <2>1. LocalPortStart(alg) = 2 * Len(Shape)
    BY <1>1 DEF LocalPortStart
  <2>2. PICK d \in Dims, up \in BOOLEAN : p = TorusPort(d, up)
    BY <2>1, TorusPortOnto
  <2>3. PICK x \in 0 .. Shape[d] - 1 : x = Around(Location(r)[d], Shape[d], up)
    BY TorusPeerPort
  <2>4. PICK o \in Routers : o = Moved(r, d, x) /\ Location(o)[d] = x
    BY MovedLocation
  <2>5. Peer(alg, r, p) = <<o, TorusPort(d, ~up)>>
    BY <1>1, <2>2, <2>3, <2>4, TorusPeerPort DEF Peer
  <2>6. Around(x, Shape[d], ~up) = Location(r)[d]
    BY <2>3, TorusPeerPort
  <2>7. (~up) \in BOOLEAN /\ (~~up) = up
    <3>1. CASE up = TRUE
      BY <3>1
    <3>2. CASE up = FALSE
      BY <3>2
    <3>3. QED BY <3>1, <3>2
  <2>8. Peer(alg, o, TorusPort(d, ~up)) = <<Moved(o, d, Location(r)[d]), TorusPort(d, up)>>
    <3>1. PICK down \in BOOLEAN : down = ~up /\ (~down) = up
      BY <2>7
    <3>2. TorusPeer(o, TorusPort(d, down)) = <<Moved(o, d, Around(x, Shape[d], down)), TorusPort(d, ~down)>>
      BY <2>4, TorusPeerPort
    <3>3. QED BY <1>1, <2>6, <3>1, <3>2 DEF Peer
  <2>9. Moved(o, d, Location(r)[d]) = r
    BY <2>3, <2>4, MovedBack
  <2>10. TorusPort(d, ~up) \in 0 .. LocalPortStart(alg) - 1
    BY <2>1, <2>7, TorusPortOf
  <2>11. QED BY <2>2, <2>5, <2>8, <2>9, <2>10
<1>2. CASE alg \notin Grids
  <2>1. LocalPortStart(alg) = HyperXStart[Len(Shape) + 1]
    BY <1>2 DEF LocalPortStart
  <2>2. PICK d \in Dims : InDim(d, p)
    BY <2>1, InDimExists
  <2>3. PICK x \in Beside(r, d) : offset(r, d, x) = p
    BY <2>2, OffsetOnto
  <2>4. x \in 0 .. Shape[d] - 1
    BY DEF Beside
  <2>5. PICK o \in Routers : o = Moved(r, d, x) /\ Location(o)[d] = x
    BY <2>4, MovedLocation
  <2>6. PICK l \in Beside(o, d) : l = Location(r)[d]
    BY <2>5, HyperXPeerOffset
  <2>7. Peer(alg, r, p) = <<o, offset(o, d, l)>>
    BY <1>2, <2>3, <2>5, <2>6, HyperXPeerOffset DEF Peer
  <2>8. Moved(o, d, l) = r
    BY <2>4, <2>5, <2>6, MovedBack
  <2>9. Peer(alg, o, offset(o, d, l)) = <<r, offset(r, d, x)>>
    BY <1>2, <2>5, <2>6, <2>8, HyperXPeerOffset DEF Peer
  <2>10. offset(o, d, l) \in 0 .. LocalPortStart(alg) - 1
    BY <2>1, OffsetIsWired, InDimRange
  <2>11. QED BY <2>3, <2>7, <2>9, <2>10
<1>3. QED BY <1>1, <1>2

-----------------------------------------------------------------------------
(* The partial sums of a distance. *)
IsSum(s, f) == /\ s \in [1 .. Len(Shape) + 1 -> Nat] /\ s[1] = 0
               /\ \A d \in Dims : s[d + 1] = s[d] + f[d]

Along(a, r, o) == [d \in Dims |-> Apart(a, Location(r)[d], Location(o)[d], Shape[d])]

(* How far two routers are apart in a dimension.                           *)
LEMMA ApartType ==
    ASSUME NEW a, NEW n \in Nat \ {0}, NEW x \in 0 .. n - 1, NEW y \in 0 .. n - 1
    PROVE  Apart(a, x, y, n) \in Nat
<1>1. PICK m \in Nat : m = (x + n - y) % n /\ m < n
  <2>1. x + n - y \in Nat
    OBVIOUS
  <2>2. QED BY <2>1, DivMod
<1>2. (IF 2 * m <= n THEN m ELSE n - m) \in Nat
  BY <1>1
<1>3. (IF x < y THEN y - x ELSE x - y) \in Nat
  OBVIOUS
<1>4. QED BY <1>1, <1>2, <1>3 DEF Apart

(* Distance is the sum over the dimensions.                                *)
LEMMA DistanceIsSum ==
    ASSUME NEW a, NEW r \in Routers, NEW o \in Routers
    PROVE  \E s : IsSum(s, Along(a, r, o)) /\ Distance(a, r, o) = s[Len(Shape) + 1]
<1> DEFINE n == Len(Shape)
           Q(f) == f = [d \in 1 .. n + 1 |->
                           IF d = 1 THEN 0
                           ELSE f[d - 1] + Apart(a, Location(r)[d - 1], Location(o)[d - 1], Shape[d - 1])]
<1>1. n \in Nat /\ Dims = 1 .. n
  BY ShapeType
<1>2. PICK g \in [1 .. n -> Nat] : g = Along(a, r, o)
  <2>1. ASSUME NEW d \in Dims PROVE Apart(a, Location(r)[d], Location(o)[d], Shape[d]) \in Nat
    BY ApartType, LocationType, ShapeType
  <2>2. QED BY <1>1, <2>1 DEF Along
<1>5. PICK s \in [1 .. n + 1 -> Nat] : s[1] = 0 /\ \A i \in 1 .. n : s[i + 1] = s[i] + g[i]
  <2> HIDE DEF n
  <2>1. QED BY <1>1, SumsExist
<1>6. \A i \in 1 .. n : s[i + 1] = s[i] + g[i]
  BY <1>5
<1>7. ASSUME NEW f, Q(f) PROVE f = s
  <2> DEFINE S == {k \in Nat : k + 1 <= n + 1 => f[k + 1] = s[k + 1]}
  <2>1. 0 \in S
    BY <1>1, <1>5, <1>7
  <2>2. ASSUME NEW k \in Nat, k \in S PROVE k + 1 \in S
    <3> SUFFICES ASSUME (k + 1) + 1 <= n + 1 PROVE f[(k + 1) + 1] = s[(k + 1) + 1]
      OBVIOUS
    <3>1. PICK d \in Dims : d = k + 1 /\ d + 1 \in 1 .. n + 1 /\ d + 1 # 1 /\ (d + 1) - 1 = d
      BY <1>1
    <3>2. f[d] = s[d]
      BY <1>1, <2>2, <3>1
    <3>3. f[d + 1] = f[d] + Apart(a, Location(r)[d], Location(o)[d], Shape[d])
      BY <1>7, <3>1
    <3>4. g[d] = Apart(a, Location(r)[d], Location(o)[d], Shape[d])
      BY <1>2 DEF Along
    <3>5. QED BY <1>1, <1>6, <3>1, <3>2, <3>3, <3>4
  <2>3. \A k \in Nat : k \in S
    <3> HIDE DEF S
    <3>1. QED BY <2>1, <2>2, SetInduction
  <2>4. \A d \in 1 .. n + 1 : d - 1 \in Nat /\ (d - 1) + 1 = d /\ d <= n + 1
    BY <1>1
  <2>5. \A d \in 1 .. n + 1 : f[d] = s[d]
    BY <2>3, <2>4
  <2>6. DOMAIN f = 1 .. n + 1 /\ f = [d \in 1 .. n + 1 |-> f[d]]
    BY <1>7
  <2>7. QED BY <2>5, <2>6
<1>8. Q(s)
  <2>1. ASSUME NEW d \in 1 .. n + 1
        PROVE  s[d] = IF d = 1 THEN 0 ELSE s[d - 1] + Apart(a, Location(r)[d - 1], Location(o)[d - 1], Shape[d - 1])
    <3>1. CASE d = 1
      BY <1>5, <3>1
    <3>2. CASE d # 1
      <4>1. d - 1 \in Dims /\ d - 1 \in 1 .. n /\ (d - 1) + 1 = d
        BY <1>1, <3>2
      <4>2. QED BY <1>2, <1>6, <3>2, <4>1 DEF Along
    <3>3. QED BY <3>1, <3>2
  <2>2. QED BY <2>1
<1>9. Distance(a, r, o) = (CHOOSE f : Q(f))[n + 1]
  BY DEF Distance
<1>10. (CHOOSE f : Q(f)) = s
  <2> HIDE DEF Q
  <2>1. QED BY <1>7, <1>8
<1>11. IsSum(s, Along(a, r, o))
  BY <1>1, <1>2, <1>5, <1>6 DEF IsSum
<1>12. QED BY <1>9, <1>10, <1>11

(* Two sums that differ in one place. *)
LEMMA SumsDiffer ==
    ASSUME NEW f, NEW g, NEW s, NEW t, IsSum(s, f), IsSum(t, g),
           \A e \in Dims : f[e] \in Nat /\ g[e] \in Nat,
           NEW d \in Dims, NEW k \in Nat, g[d] + k = f[d], \A e \in Dims \ {d} : g[e] = f[e]
    PROVE  t[Len(Shape) + 1] + k = s[Len(Shape) + 1]
<1> DEFINE n == Len(Shape)
           S == {j \in Nat : j + 1 <= n + 1 => t[j + 1] + (IF d < j + 1 THEN k ELSE 0) = s[j + 1]}
<1>1. n \in Nat /\ Dims = 1 .. n /\ d \in 1 .. n
  BY ShapeType
<1>2. s \in [1 .. n + 1 -> Nat] /\ t \in [1 .. n + 1 -> Nat] /\ s[1] = 0 /\ t[1] = 0
  BY DEF IsSum
<1>3. 0 \in S
  BY <1>1, <1>2
<1>4. ASSUME NEW j \in Nat, j \in S PROVE j + 1 \in S
  <2> SUFFICES ASSUME (j + 1) + 1 <= n + 1
               PROVE  t[(j + 1) + 1] + (IF d < (j + 1) + 1 THEN k ELSE 0) = s[(j + 1) + 1]
    OBVIOUS
  <2>1. PICK e \in Dims : e = j + 1
    BY <1>1
  <2>2. PICK a \in Nat, b \in Nat : a = t[e] /\ b = s[e]
    BY <1>1, <1>2
  <2>3. a + (IF d < e THEN k ELSE 0) = b
    BY <1>1, <1>4, <2>1, <2>2
  <2>4. t[e + 1] = a + g[e] /\ s[e + 1] = b + f[e] /\ t[e + 1] \in Nat /\ s[e + 1] \in Nat
    <3>1. e + 1 \in 1 .. n + 1
      BY <1>1
    <3>2. t[e + 1] = t[e] + g[e] /\ s[e + 1] = s[e] + f[e]
      BY DEF IsSum
    <3>3. QED BY <1>2, <2>2, <3>1, <3>2
  <2>5. CASE e = d
    <3>1. ~(d < e) /\ d < e + 1
      BY <1>1, <2>5
    <3>2. a = b
      BY <2>3, <3>1
    <3>3. PICK u \in Nat, v \in Nat : u = g[e] /\ v = f[e] /\ u + k = v
      BY <2>5
    <3>4. (a + u) + k = b + v
      BY <3>2, <3>3
    <3>5. QED BY <2>1, <2>4, <3>1, <3>3, <3>4
  <2>6. CASE e # d
    <3>1. g[e] = f[e]
      BY <2>6
    <3>2. (d < e + 1) <=> (d < e)
      BY <1>1, <2>6
    <3>3. PICK c \in Nat : c = IF d < e THEN k ELSE 0
      OBVIOUS
    <3>4. (IF d < e + 1 THEN k ELSE 0) = c
      BY <3>2, <3>3
    <3>5. a + c = b
      BY <2>3, <3>3
    <3>6. PICK h \in Nat : h = g[e]
      OBVIOUS
    <3>7. t[e + 1] = a + h /\ s[e + 1] = b + h
      BY <2>4, <3>1, <3>6
    <3>8. QED BY <2>1, <3>4, <3>5, <3>7
  <2>7. QED BY <2>5, <2>6
<1>5. \A j \in Nat : j \in S
  <2> HIDE DEF S
  <2>1. QED BY <1>3, <1>4, SetInduction
<1>6. n \in S /\ n + 1 <= n + 1 /\ d < n + 1
  BY <1>1, <1>5
<1>7. QED BY <1>6

(* A distance is a natural number.                                         *)
LEMMA DistanceType ==
    ASSUME NEW a, NEW r \in Routers, NEW o \in Routers
    PROVE  Distance(a, r, o) \in Nat
<1>1. PICK s : IsSum(s, Along(a, r, o)) /\ Distance(a, r, o) = s[Len(Shape) + 1]
  BY DistanceIsSum
<1>2. Len(Shape) + 1 \in 1 .. Len(Shape) + 1
  BY ShapeType
<1>3. QED BY <1>1, <1>2 DEF IsSum

(* A step in one dimension brings as much as it brings there.              *)
LEMMA Closer ==
    ASSUME NEW a, NEW r \in Routers, NEW q \in Routers, NEW o \in Routers, NEW d \in Dims,
           \A e \in Dims \ {d} : Location(q)[e] = Location(r)[e], NEW k \in Nat,
           Apart(a, Location(q)[d], Location(o)[d], Shape[d]) + k
              = Apart(a, Location(r)[d], Location(o)[d], Shape[d])
    PROVE  Distance(a, q, o) + k = Distance(a, r, o)
<1>1. PICK s : IsSum(s, Along(a, r, o)) /\ Distance(a, r, o) = s[Len(Shape) + 1]
  BY DistanceIsSum
<1>2. PICK t : IsSum(t, Along(a, q, o)) /\ Distance(a, q, o) = t[Len(Shape) + 1]
  BY DistanceIsSum
<1>3. PICK f : f = Along(a, r, o)
  OBVIOUS
<1>4. PICK g : g = Along(a, q, o)
  OBVIOUS
<1>5. \A e \in Dims : /\ f[e] = Apart(a, Location(r)[e], Location(o)[e], Shape[e])
                      /\ g[e] = Apart(a, Location(q)[e], Location(o)[e], Shape[e])
  BY <1>3, <1>4 DEF Along
<1>6. ASSUME NEW e \in Dims PROVE f[e] \in Nat /\ g[e] \in Nat
  <2>1. /\ Shape[e] \in Nat \ {0} /\ Location(r)[e] \in 0 .. Shape[e] - 1
        /\ Location(q)[e] \in 0 .. Shape[e] - 1 /\ Location(o)[e] \in 0 .. Shape[e] - 1
    BY LocationType, ShapeType
  <2>2. /\ Apart(a, Location(r)[e], Location(o)[e], Shape[e]) \in Nat
        /\ Apart(a, Location(q)[e], Location(o)[e], Shape[e]) \in Nat
    BY <2>1, ApartType
  <2>3. QED BY <1>5, <2>2
<1>7. g[d] + k = f[d] /\ \A e \in Dims \ {d} : g[e] = f[e]
  BY <1>5
<1>8. IsSum(s, f) /\ IsSum(t, g)
  BY <1>1, <1>2, <1>3, <1>4
<1>9. t[Len(Shape) + 1] + k = s[Len(Shape) + 1]
  BY <1>6, <1>7, <1>8, SumsDiffer
<1>10. QED BY <1>1, <1>2, <1>9

(* Torus and mesh: a direction, once taken, stays the shorter one.         *)
LEMMA RoundValue ==
    ASSUME NEW n \in Nat \ {0}, NEW x \in 0 .. n - 1, NEW y \in 0 .. n - 1
    PROVE  (y + n - x) % n = IF x <= y THEN y - x ELSE y + n - x
<1>1. CASE x <= y
  <2>1. y + n - x = n * 1 + (y - x) /\ y - x \in Nat /\ y - x < n /\ y + n - x \in Nat
    BY <1>1
  <2>2. QED BY <1>1, <2>1, DivUnique
<1>2. CASE ~(x <= y)
  <2>1. y + n - x = n * 0 + (y + n - x) /\ y + n - x \in Nat /\ y + n - x < n
    BY <1>2
  <2>2. QED BY <1>2, <2>1, DivUnique
<1>3. QED BY <1>1, <1>2

(* The direction that is shorter remains so after a hop.                   *)
LEMMA GoUpKept ==
    ASSUME NEW a, NEW n \in Nat \ {0}, NEW y \in 0 .. n - 1, NEW z \in 0 .. n - 1, y # z,
           NEW x \in 0 .. n - 1, x = Around(y, n, goUp(a, y, z, n)), x # z
    PROVE  goUp(a, x, z, n) = goUp(a, y, z, n)
<1>1. CASE goUp(a, y, z, n) = TRUE
  <2>1. x = IF y = n - 1 THEN 0 ELSE y + 1
    BY <1>1, AroundValue
  <2>2. CASE a = "mesh"
    BY <1>1, <2>1, <2>2 DEF goUp, meshUp
  <2>3. CASE a # "mesh"
    <3>1. (z + n - y) % n <= (y + n - z) % n
      BY <1>1, <2>3 DEF goUp, torusUp
    <3>2. (z + n - x) % n <= (x + n - z) % n
      <4>1. /\ (z + n - x) % n = IF x <= z THEN z - x ELSE z + n - x
            /\ (x + n - z) % n = IF z <= x THEN x - z ELSE x + n - z
            /\ (z + n - y) % n = IF y <= z THEN z - y ELSE z + n - y
            /\ (y + n - z) % n = IF z <= y THEN y - z ELSE y + n - z
        BY RoundValue
      <4>2. QED BY <2>1, <3>1, <4>1
    <3>3. QED BY <1>1, <2>3, <3>2 DEF goUp, torusUp
  <2>4. QED BY <2>2, <2>3
<1>2. CASE goUp(a, y, z, n) = FALSE
  <2>1. x = IF y = 0 THEN n - 1 ELSE y - 1
    <3>1. x = Around(y, n, FALSE)
      BY <1>2
    <3>2. QED BY <3>1, AroundValue
  <2>2. CASE a = "mesh"
    BY <1>2, <2>1, <2>2 DEF goUp, meshUp
  <2>3. CASE a # "mesh"
    <3>1. ~((z + n - y) % n <= (y + n - z) % n)
      BY <1>2, <2>3 DEF goUp, torusUp
    <3>2. ~((z + n - x) % n <= (x + n - z) % n)
      <4>1. /\ (z + n - x) % n = IF x <= z THEN z - x ELSE z + n - x
            /\ (x + n - z) % n = IF z <= x THEN x - z ELSE x + n - z
            /\ (z + n - y) % n = IF y <= z THEN z - y ELSE z + n - y
            /\ (y + n - z) % n = IF z <= y THEN y - z ELSE y + n - z
        BY RoundValue
      <4>2. QED BY <2>1, <3>1, <4>1
    <3>3. QED BY <1>2, <2>3, <3>2 DEF goUp, torusUp
  <2>4. QED BY <2>2, <2>3
<1>3. goUp(a, y, z, n) \in BOOLEAN
  <2>1. (y < z) \in BOOLEAN /\ ((z + n - y) % n <= (y + n - z) % n) \in BOOLEAN
    OBVIOUS
  <2>2. QED BY <2>1, Zenon DEF goUp, meshUp, torusUp
<1>4. QED BY <1>1, <1>2, <1>3

(* ... and it is one link shorter after each hop. *)
LEMMA GoUpCloser ==
    ASSUME NEW a \in Grids, NEW n \in Nat \ {0}, NEW y \in 0 .. n - 1, NEW z \in 0 .. n - 1, y # z,
           NEW x \in 0 .. n - 1, x = Around(y, n, goUp(a, y, z, n))
    PROVE  Apart(a, x, z, n) + 1 = Apart(a, y, z, n)
<1> DEFINE M(w) == IF z <= w THEN w - z ELSE w + n - z
<1>1. (z + n - y) % n = (IF y <= z THEN z - y ELSE z + n - y) /\ (y + n - z) % n = M(y)
  BY RoundValue
<1>2. (x + n - z) % n = M(x)
  BY RoundValue
<1>3. goUp(a, y, z, n) \in BOOLEAN
  <2>1. (y < z) \in BOOLEAN /\ ((z + n - y) % n <= (y + n - z) % n) \in BOOLEAN
    OBVIOUS
  <2>2. QED BY <2>1, Zenon DEF goUp, meshUp, torusUp
<1>4. x = IF goUp(a, y, z, n) THEN (IF y = n - 1 THEN 0 ELSE y + 1) ELSE (IF y = 0 THEN n - 1 ELSE y - 1)
  <2>1. CASE goUp(a, y, z, n) = TRUE
    BY <2>1, AroundValue
  <2>2. CASE goUp(a, y, z, n) = FALSE
    <3>1. x = Around(y, n, FALSE)
      BY <2>2
    <3>2. QED BY <2>2, <3>1, AroundValue
  <2>3. QED BY <1>3, <2>1, <2>2
<1>5. CASE a = "mesh"
  <2>1. goUp(a, y, z, n) <=> y < z
    BY <1>5 DEF goUp, meshUp
  <2>2. /\ Apart(a, x, z, n) = IF x < z THEN z - x ELSE x - z
        /\ Apart(a, y, z, n) = IF y < z THEN z - y ELSE y - z
    BY <1>5 DEF Apart
  <2>3. CASE y < z
    <3>1. x = y + 1
      BY <1>4, <2>1, <2>3
    <3>2. QED BY <2>2, <2>3, <3>1
  <2>4. CASE ~(y < z)
    <3>1. x = y - 1 /\ z < y
      BY <1>4, <2>1, <2>4
    <3>2. QED BY <2>2, <2>4, <3>1
  <2>5. QED BY <2>3, <2>4
<1>6. CASE a = "torus"
  <2>1. goUp(a, y, z, n) <=> (IF y <= z THEN z - y ELSE z + n - y) <= M(y)
    BY <1>1, <1>6 DEF goUp, torusUp
  <2>2. /\ Apart(a, x, z, n) = IF 2 * M(x) <= n THEN M(x) ELSE n - M(x)
        /\ Apart(a, y, z, n) = IF 2 * M(y) <= n THEN M(y) ELSE n - M(y)
    BY <1>1, <1>2, <1>6 DEF Apart
  <2>3. (IF 2 * M(x) <= n THEN M(x) ELSE n - M(x)) + 1 = IF 2 * M(y) <= n THEN M(y) ELSE n - M(y)
    BY <1>4, <2>1
  <2>4. QED BY <2>2, <2>3
<1>7. QED BY <1>5, <1>6 DEF Grids

(* The VCs of a VN, counted from the first. *)
LEMMA VCsOfVN ==
    ASSUME NEW a \in Algorithms \ {"mesh"}, NEW vn \in Nat
    PROVE  /\ getVCsPerVN(a) \in Nat \ {0} /\ StartVC(a, vn) \in Nat
           /\ StartVC(a, vn) = vn * getVCsPerVN(a)
           /\ (vn + 1) * getVCsPerVN(a) = StartVC(a, vn) + getVCsPerVN(a)
<1>1. PICK k \in Nat \ {0} : k = getVCsPerVN(a)
  BY ShapeType DEF getVCsPerVN, Algorithms, Grids
<1>2. vn * k \in Nat /\ (vn + 1) * k = vn * k + k
  BY <1>1
<1>3. QED BY <1>1, <1>2 DEF StartVC

(* The VC of the next hop. *)
LEMMA TorusVCs ==
    ASSUME NEW f \in Nat, f % 2 = 0, NEW vc \in {f, f + 1}
    PROVE  /\ Toggled(vc) \in {f, f + 1} /\ Reset(vc) = f
           /\ Toggled(vc) % 2 = 1 - (vc % 2) /\ vc % 2 \in {0, 1} /\ (f + 1) % 2 = 1
<1>1. (f + 1) % 2 = 1
  OBVIOUS
<1>2. CASE vc = f
  BY <1>1, <1>2 DEF Toggled, Reset
<1>3. CASE vc = f + 1
  BY <1>1, <1>3 DEF Toggled, Reset
<1>4. QED BY <1>2, <1>3

(* A router is at distance 0 of itself.                                    *)
LEMMA DistanceSelf ==
    ASSUME NEW a, NEW r \in Routers
    PROVE  Distance(a, r, r) = 0
<1>1. PICK s : IsSum(s, Along(a, r, r)) /\ Distance(a, r, r) = s[Len(Shape) + 1]
  BY DistanceIsSum
<1>2. PICK n \in Nat : n = Len(Shape) /\ Dims = 1 .. n
  BY ShapeType
<1>3. ASSUME NEW d \in Dims PROVE Along(a, r, r)[d] = 0
  <2>1. PICK m \in Nat \ {0}, x \in Nat : m = Shape[d] /\ x = Location(r)[d] /\ x < m
    BY LocationType, ShapeType
  <2>2. (x + m - x) % m = 0
    <3>1. x + m - x = m
      OBVIOUS
    <3>2. m % m = 0
      <4>1. m = m * 1 + 0 /\ 0 < m
        OBVIOUS
      <4>2. QED BY <4>1, DivUnique
    <3>3. QED BY <3>1, <3>2
  <2>3. Apart(a, x, x, m) = 0
    BY <2>2 DEF Apart
  <2>4. QED BY <2>1, <2>3 DEF Along
<1>4. /\ s \in [1 .. n + 1 -> Nat] /\ s[1] = 0
      /\ \A d \in 1 .. n : s[d + 1] = s[d]
  BY <1>1, <1>2, <1>3 DEF IsSum
<1>5. DEFINE T == {k \in Nat : k <= n => s[k + 1] = 0}
<1>6. 0 \in T
  BY <1>4
<1>7. ASSUME NEW k \in Nat, k \in T PROVE k + 1 \in T
  <2>1. ASSUME k + 1 <= n PROVE s[(k + 1) + 1] = 0
    <3>1. k + 1 \in 1 .. n /\ k <= n
      BY <2>1
    <3>2. s[(k + 1) + 1] = s[k + 1]
      BY <1>4, <3>1
    <3>3. QED BY <1>7, <3>1, <3>2
  <2>2. QED BY <2>1
<1>8. \A k \in Nat : k \in T
  BY <1>6, <1>7, SetInduction, Zenon
<1>9. s[n + 1] = 0
  BY <1>8
<1>10. QED BY <1>1, <1>2, <1>9
=============================================================================
