-------------------------- MODULE SlcSizingProofs --------------------------
(***************************************************************************)
(* What SlcSizing promises for any candidates, ticks, quotes, slips and     *)
(* equities: of a position on record as protected, the risk it was checked  *)
(* against and the pay it is set for; of a cycle, that it spends its cash   *)
(* once.                                                                    *)
(***************************************************************************)
EXTENDS SlcSizing, FiniteSetTheorems, WellFoundedInduction, TLAPS

(***************************************************************************)
(* Sums.  The fold behind SumOver is a recursive function on the subsets of *)
(* its domain, chosen among those that satisfy its equation.  That there is *)
(* one, and only one, is shown by smallest counterexamples; everything else *)
(* follows from the equation.                                               *)
(***************************************************************************)
\* Of some subsets of a finite set one holds no other.
LEMMA SmallestSet ==
  ASSUME NEW S, IsFiniteSet(S), NEW T \in SUBSET (SUBSET S), T # {}
  PROVE  \E x \in T : \A y \in T : y \subseteq x => y = x
<1>1. T \subseteq FiniteSubsetsOf(S)
  BY FS_Subset DEF FiniteSubsetsOf
<1>2. PICK x \in T : \A y \in T : ~(<<y, x>> \in StrictSubsetOrdering(S))
  BY <1>1, FS_StrictSubsetOrderingWellFounded, WFMin
<1> QED BY <1>2 DEF StrictSubsetOrdering

Pick(s) == CHOOSE x \in s : TRUE

LEMMA PickIn == ASSUME NEW s, s # {} PROVE Pick(s) \in s
BY DEF Pick

\* g is what the fold of f calculates on the subsets of S.
SumsOf(S, f, g) ==
  g = [s \in SUBSET S |-> IF s = {} THEN 0 ELSE f[Pick(s)] + g[s \ {Pick(s)}]]

\* Two of them agree where their terms do.
LEMMA SumsUnique ==
  ASSUME NEW S, NEW f, NEW g, SumsOf(S, f, g), NEW T, NEW e, NEW h, SumsOf(T, e, h),
         NEW U, IsFiniteSet(U), U \subseteq S, U \subseteq T, \A x \in U : f[x] = e[x]
  PROVE  g[U] = h[U]
<1> DEFINE Bad == {s \in SUBSET U : g[s] # h[s]}
<1>1. SUFFICES ASSUME Bad # {} PROVE FALSE
  OBVIOUS
<1>2. PICK s \in Bad : \A t \in Bad : t \subseteq s => t = s
  <2>1. Bad \in SUBSET (SUBSET U)
    OBVIOUS
  <2> HIDE DEF Bad
  <2> QED BY <1>1, <2>1, SmallestSet
<1> DEFINE x == Pick(s)
<1>3. s # {} => x \in s
  BY PickIn
<1>4. s \in SUBSET S /\ s \in SUBSET T
  OBVIOUS
<1>5. /\ g[s] = IF s = {} THEN 0 ELSE f[x] + g[s \ {x}]
      /\ h[s] = IF s = {} THEN 0 ELSE e[x] + h[s \ {x}]
  BY <1>4 DEF SumsOf
<1> HIDE DEF x
<1>6. CASE s = {}
  BY <1>5, <1>6
<1>7. CASE s # {}
  <2>1. f[x] = e[x] /\ s \ {x} \in SUBSET U /\ s \ {x} # s
    BY <1>3, <1>7
  <2>2. g[s \ {x}] = h[s \ {x}]
    BY <1>2, <2>1
  <2> QED BY <1>5, <1>7, <2>1, <2>2
<1> QED BY <1>6, <1>7

\* There is one.
LEMMA SumsExist ==
  ASSUME NEW S, IsFiniteSet(S), NEW f
  PROVE  \E g : SumsOf(S, f, g)
<1> DEFINE Bad == {s \in SUBSET S : ~\E g : SumsOf(s, f, g)}
<1>1. SUFFICES ASSUME Bad # {} PROVE FALSE
  OBVIOUS
<1>2. PICK s \in Bad : \A t \in Bad : t \subseteq s => t = s
  <2>1. Bad \in SUBSET (SUBSET S)
    OBVIOUS
  <2> HIDE DEF Bad
  <2> QED BY <1>1, <2>1, SmallestSet
<1> DEFINE G(t) == CHOOSE g : SumsOf(t, f, g)
           V(t) == G(t)[t]
           h == [t \in SUBSET s |-> IF t = {} THEN 0 ELSE f[Pick(t)] + V(t \ {Pick(t)})]
<1>3. ASSUME NEW t \in SUBSET s, t # s PROVE SumsOf(t, f, G(t))
  <2>1. \E g : SumsOf(t, f, g)
    BY <1>2, <1>3
  <2> QED BY <2>1
<1>4. ASSUME NEW t \in SUBSET s, t # s PROVE h[t] = V(t)
  <2>1. SumsOf(t, f, G(t))
    BY <1>3, <1>4
  <2>2. V(t) = IF t = {} THEN 0 ELSE f[Pick(t)] + G(t)[t \ {Pick(t)}]
    <3> HIDE DEF G
    <3> QED BY <2>1 DEF SumsOf
  <2>3. ASSUME t # {} PROVE G(t)[t \ {Pick(t)}] = V(t \ {Pick(t)})
    <3> DEFINE u == t \ {Pick(t)}
    <3>1. u \in SUBSET s /\ u # s /\ u \subseteq t
      BY <1>4
    <3>2. SumsOf(u, f, G(u))
      BY <1>3, <3>1
    <3>3. IsFiniteSet(u)
      <4>1. u \in SUBSET S
        BY <3>1
      <4> QED BY <4>1, FS_Subset
    <3> HIDE DEF G, u
    <3>4. G(t)[u] = G(u)[u]
      BY <2>1, <3>1, <3>2, <3>3, SumsUnique
    <3> QED BY <3>4 DEF u
  <2> HIDE DEF V, G
  <2>4. h[t] = IF t = {} THEN 0 ELSE f[Pick(t)] + V(t \ {Pick(t)})
    OBVIOUS
  <2> QED BY <2>2, <2>3, <2>4
<1>5. SumsOf(s, f, h)
  <2>1. ASSUME NEW t \in SUBSET s, t # {} PROVE V(t \ {Pick(t)}) = h[t \ {Pick(t)}]
    <3>1. t \ {Pick(t)} \in SUBSET s /\ t \ {Pick(t)} # s
      BY <2>1, PickIn
    <3> HIDE DEF h, V
    <3> QED BY <1>4, <3>1
  <2> DEFINE k == h
  <2>2. h = [t \in SUBSET s |-> IF t = {} THEN 0 ELSE f[Pick(t)] + k[t \ {Pick(t)}]]
    <3> HIDE DEF V, k
    <3> QED BY <2>1 DEF k
  <2> HIDE DEF h
  <2> QED BY <2>2 DEF SumsOf
<1> HIDE DEF h
<1> QED BY <1>2, <1>5

\* SumOver is its value for the whole domain.
LEMMA SumIsSum ==
  ASSUME NEW f, IsFiniteSet(DOMAIN f)
  PROVE  \E g : SumsOf(DOMAIN f, f, g) /\ SumOver(f) = g[DOMAIN f]
<1> DEFINE g == CHOOSE g : SumsOf(DOMAIN f, f, g)
<1>1. SumOver(f) = g[DOMAIN f]
  BY DEF SumOver, MapThenSumSet, MapThenFoldSet, SumsOf, Pick
<1>2. SumsOf(DOMAIN f, f, g)
  BY SumsExist
<1> HIDE DEF g
<1> QED BY <1>1, <1>2

\* Sums are whole numbers, and any term can be taken out first.
AnyTermFirst(S, f, g) ==
  \A s \in SUBSET S : g[s] \in Int /\ \A x \in s : g[s] = f[x] + g[s \ {x}]
LEMMA SumsAnyTerm ==
  ASSUME NEW S, IsFiniteSet(S), NEW f \in [S -> Int], NEW g, SumsOf(S, f, g)
  PROVE  AnyTermFirst(S, f, g)
<1> DEFINE Good(s) == g[s] \in Int /\ \A x \in s : g[s] = f[x] + g[s \ {x}]
           Bad == {s \in SUBSET S : ~Good(s)}
<1>1. SUFFICES ASSUME Bad # {} PROVE FALSE
  BY DEF AnyTermFirst
<1>2. PICK s \in Bad : \A t \in Bad : t \subseteq s => t = s
  <2>1. Bad \in SUBSET (SUBSET S)
    OBVIOUS
  <2> HIDE DEF Bad
  <2> QED BY <1>1, <2>1, SmallestSet
<1>3. ASSUME NEW t \in SUBSET s, t # s PROVE Good(t)
  BY <1>2, <1>3
<1>4. s \in SUBSET S /\ ~Good(s)
  OBVIOUS
<1>5. s # {}
  BY <1>4 DEF SumsOf
<1> DEFINE p == Pick(s)
<1>6. p \in s
  BY <1>5, PickIn
<1>7. g[s] = f[p] + g[s \ {p}]
  BY <1>4, <1>5 DEF SumsOf
<1> HIDE DEF p, Bad
<1>8. Good(s \ {p})
  BY <1>3, <1>6
<1>9. g[s] \in Int
  BY <1>4, <1>6, <1>7, <1>8
<1>10. ASSUME NEW x \in s PROVE g[s] = f[x] + g[s \ {x}]
  <2>1. CASE x = p
    BY <1>7, <2>1
  <2>2. CASE x # p
    <3>1. (s \ {p}) \ {x} = (s \ {x}) \ {p}
      OBVIOUS
    <3>2. g[s \ {p}] = f[x] + g[(s \ {p}) \ {x}]
      BY <1>8, <2>2
    <3>3. Good(s \ {x})
      BY <1>3
    <3>4. g[s \ {x}] = f[p] + g[(s \ {x}) \ {p}]
      BY <1>6, <2>2, <3>3
    <3>5. Good((s \ {x}) \ {p})
      <4>1. (s \ {x}) \ {p} \in SUBSET s /\ (s \ {x}) \ {p} # s
        OBVIOUS
      <4> QED BY <1>3, <4>1
    <3> DEFINE rest == g[(s \ {x}) \ {p}]
    <3>6. f[x] \in Int /\ f[p] \in Int /\ rest \in Int
      BY <1>4, <1>6, <3>5
    <3>7. g[s \ {p}] = f[x] + rest /\ g[s \ {x}] = f[p] + rest
      BY <3>1, <3>2, <3>4
    <3> HIDE DEF rest
    <3> QED BY <1>7, <3>6, <3>7
  <2> QED BY <2>1, <2>2
<1> QED BY <1>4, <1>9, <1>10

\* A sum of whole numbers is one; nothing sums to 0.
LEMMA SumInt ==
  ASSUME NEW S, IsFiniteSet(S), NEW f \in [S -> Int]
  PROVE  SumOver(f) \in Int
<1>1. DOMAIN f = S
  OBVIOUS
<1>2. PICK g : SumsOf(S, f, g) /\ SumOver(f) = g[S]
  BY <1>1, SumIsSum
<1> QED BY <1>2, SumsAnyTerm DEF AnyTermFirst

LEMMA SumEmpty ==
  ASSUME NEW f, DOMAIN f = {}
  PROVE  SumOver(f) = 0
<1>1. IsFiniteSet(DOMAIN f)
  BY FS_EmptySet
<1>2. PICK g : SumsOf(DOMAIN f, f, g) /\ SumOver(f) = g[DOMAIN f]
  BY <1>1, SumIsSum
<1> QED BY <1>2 DEF SumsOf

\* One term and the rest, where the rest may be given by any function.
LEMMA SumRest ==
  ASSUME NEW S, IsFiniteSet(S), NEW f \in [S -> Int], NEW x \in S,
         NEW e \in [S \ {x} -> Int], \A y \in S \ {x} : e[y] = f[y]
  PROVE  SumOver(f) = f[x] + SumOver(e)
<1> DEFINE R == S \ {x}
<1>0. R \subseteq S /\ IsFiniteSet(R)
  BY FS_Subset
<1>1. DOMAIN f = S /\ DOMAIN e = R
  OBVIOUS
<1> HIDE DEF R
<1>2. PICK g : SumsOf(S, f, g) /\ SumOver(f) = g[S]
  BY <1>1, SumIsSum
<1>3. PICK h : SumsOf(R, e, h) /\ SumOver(e) = h[R]
  BY <1>0, <1>1, SumIsSum
<1>4. \A y \in R : f[y] = e[y]
  BY DEF R
<1>5. g[R] = h[R]
  BY <1>0, <1>2, <1>3, <1>4, SumsUnique
<1>6. g[S] = f[x] + g[R]
  <2>1. AnyTermFirst(S, f, g)
    BY <1>2, SumsAnyTerm
  <2> QED BY <2>1 DEF R, AnyTermFirst
<1> QED BY <1>2, <1>3, <1>5, <1>6

\* Changing one term changes the sum by as much.
LEMMA SumChange ==
  ASSUME NEW S, IsFiniteSet(S), NEW f \in [S -> Int], NEW e \in [S -> Int], NEW x \in S,
         \A y \in S \ {x} : e[y] = f[y]
  PROVE  SumOver(e) = SumOver(f) - f[x] + e[x]
<1> DEFINE r == [y \in S \ {x} |-> f[y]]
<1>1. r \in [S \ {x} -> Int] /\ \A y \in S \ {x} : r[y] = f[y] /\ r[y] = e[y]
  OBVIOUS
<1> HIDE DEF r
<1>2. SumOver(f) = f[x] + SumOver(r) /\ SumOver(e) = e[x] + SumOver(r)
  BY <1>1, SumRest
<1>3. IsFiniteSet(S \ {x})
  BY FS_RemoveElement
<1>4. SumOver(r) \in Int /\ f[x] \in Int /\ e[x] \in Int
  BY <1>1, <1>3, SumInt
<1> QED BY <1>2, <1>4

USE SizingAssumption

(***************************************************************************)
(* Rounding.                                                                *)
(***************************************************************************)
\* Division rounds down.
LEMMA Quotient ==
  ASSUME NEW x \in Int, NEW t \in Nat, t > 0
  PROVE  /\ x \div t \in Int
         /\ (x \div t) * t <= x
         /\ x < (x \div t) * t + t
OBVIOUS

\* A tick is a positive whole number.
LEMMA TickPositive ==
  ASSUME NEW x \in Int
  PROVE  TickSize(x) \in Nat /\ TickSize(x) > 0
BY DEF TickSize

\* Down is not above, up is not below, at either tick and on either side of zero.
LEMMA RoundDownBelow ==
  ASSUME NEW x \in Int
  PROVE  RoundDown(x) \in Int /\ RoundDown(x) <= x
BY TickPositive, Quotient DEF RoundDown

LEMMA RoundUpAbove ==
  ASSUME NEW x \in Int
  PROVE  RoundUp(x) \in Int /\ RoundUp(x) >= x
<1> DEFINE t == TickSize(x)
           y == x + t - 1
<1>1. t \in Nat /\ t > 0 /\ y \in Int
  BY TickPositive
<1>2. RoundUp(x) = (y \div t) * t
  BY DEF RoundUp
<1> HIDE DEF t
<1>3. y \div t \in Int /\ y < (y \div t) * t + t
  BY <1>1, Quotient
<1>4. (y \div t) * t \in Int
  BY <1>1, <1>3
<1> QED BY <1>1, <1>2, <1>3, <1>4

\* A distance of prices is no less than nothing.
LEMMA DistanceNat ==
  ASSUME NEW a \in Int, NEW b \in Int
  PROVE  Distance(a, b) \in Nat
BY DEF Distance

\* The target of a fill is at least twice as far as its stop, after rounding.
LEMMA TargetPaysTwice ==
  ASSUME NEW dir \in {"long", "short"}, NEW fill \in Int, NEW stop \in Int
  PROVE  LET target == RoundTarget(RetargetAfterFill(dir, fill, stop), dir)
         IN  target \in Int /\ Distance(target, fill) >= 2 * Distance(fill, stop)
<1> DEFINE d == Distance(fill, stop)
           up == fill + 2 * d
           down == fill - 2 * d
<1>0. d \in Nat
  BY DistanceNat
<1> HIDE DEF d
<1>1. up \in Int /\ down \in Int
  BY <1>0
<1>2. CASE dir = "long"
  <2>1. RoundTarget(RetargetAfterFill(dir, fill, stop), dir) = RoundUp(up)
    BY <1>2 DEF RoundTarget, RetargetAfterFill, d
  <2>2. RoundUp(up) \in Int /\ RoundUp(up) >= fill + 2 * d
    BY <1>1, RoundUpAbove
  <2> QED BY <1>0, <2>1, <2>2 DEF Distance, d
<1>3. CASE dir = "short"
  <2>1. RoundTarget(RetargetAfterFill(dir, fill, stop), dir) = RoundDown(down)
    BY <1>3 DEF RoundTarget, RetargetAfterFill, d
  <2>2. RoundDown(down) \in Int /\ RoundDown(down) <= fill - 2 * d
    BY <1>1, RoundDownBelow
  <2> QED BY <1>0, <2>1, <2>2 DEF Distance, d
<1> QED BY <1>2, <1>3

(***************************************************************************)
(* The inductive invariant.                                                 *)
(***************************************************************************)
Columns == {"status", "qty", "fill", "stop", "target", "equity"}

\* A position is a row of its table, with whole numbers for its prices.
PositionShape ==
  /\ DOMAIN pos = Candidates
  /\ \A c \in Candidates : /\ DOMAIN pos[c] = Columns
                           /\ pos[c].fill \in Int /\ pos[c].stop \in Int

\* What the candidate at the head of the queue has been sized with.
PlanShape ==
  /\ goal \in {"admit", "size"}
  /\ DOMAIN plan = {"quote", "stop", "target", "qty"} /\ plan.quote \in Int
  /\ pc = "reconcile" /\ Candidate \in Candidates => plan.stop \in Int

\* A fill that is about to be retargeted has passed every check for the target
\* it will have.
CheckedBeforeRetarget ==
  pc = "retarget" /\ Candidate \in Candidates =>
    /\ WithinRisk(Filled.qty, Filled.fill, Filled.stop, Filled.equity)
    /\ ValidBracket(Filled.fill, Filled.stop, Recalculated, Direction)

\* A candidate stands in the queue once.
QueueShape ==
  /\ queue \in Seq(Candidates)
  /\ \A i, j \in DOMAIN queue : i # j => queue[i] # queue[j]

\* The snapshot for a size is read for the candidate at the head.
ReadingFor == pc \in {"account", "positions", "orders"} /\ goal = "size" => queue # <<>>

\* What has just filled is open until it fails a check.
FreshFillOpen ==
  pc \in {"filled", "retarget"} /\ Candidate \in Candidates => Filled.status = "open"

\* What is on record as protected is an open position, and is not up for an entry.
HealthyOpen == healthy \subseteq Candidates /\ \A c \in healthy : pos[c].status = "open"
QueueUnhealthy == \A i \in DOMAIN queue : queue[i] \notin healthy

HealthyInv ==
  /\ PositionShape /\ PlanShape /\ CheckedBeforeRetarget /\ FreshFillOpen
  /\ HealthyOpen /\ HealthyWithinRisk /\ HealthyPaysTwice
WaitingInv == QueueShape /\ ReadingFor /\ QueueUnhealthy
SizingInv == HealthyInv /\ WaitingInv

(***************************************************************************)
(* The queue.                                                               *)
(***************************************************************************)
\* Some number is the least.
LEMMA SmallestNumber ==
  ASSUME NEW T \in SUBSET Nat, T # {}
  PROVE  \E x \in T : \A y \in T : x <= y
<1>1. PICK x \in T : \A y \in T : ~(<<y, x>> \in OpToRel(<, Nat))
  BY NatLessThanWellFounded, WFMin
<1>2. \A y \in T : ~(y < x)
  BY <1>1 DEF OpToRel
<1> QED BY <1>2

\* Admission walks the queue in its order and takes nobody twice.
LEMMA Admitted ==
  ASSUME QueueShape
  PROVE  LET adm == SelectWithinCapacity(queue)
         IN /\ adm \in Seq(Candidates)
            /\ \A i, j \in DOMAIN adm : i # j => adm[i] # adm[j]
            /\ \A i \in DOMAIN adm : \E j \in DOMAIN queue : adm[i] = queue[j]
<1> DEFINE N == Len(queue)
           Walk(n, a) == a = [k \in 0 .. n |-> IF k = 0 THEN <<>>
                                               ELSE AdmitOne(a[k - 1], queue[k])]
<1>1. N \in Nat /\ DOMAIN queue = 1 .. N
  BY DEF QueueShape
<1>0. /\ \A i \in 1 .. N : queue[i] \in Candidates
      /\ \A i, j \in 1 .. N : i # j => queue[i] # queue[j]
  <2>1. \A i \in DOMAIN queue : queue[i] \in Candidates
    BY DEF QueueShape
  <2>2. \A i, j \in DOMAIN queue : i # j => queue[i] # queue[j]
    BY DEF QueueShape
  <2> QED BY <1>1, <2>1, <2>2
<1> HIDE DEF N
<1>2. \A n \in Nat : \E a : Walk(n, a)
  <2> DEFINE Bad == {n \in Nat : ~\E a : Walk(n, a)}
  <2>1. SUFFICES ASSUME Bad # {} PROVE FALSE
    OBVIOUS
  <2>2. PICK n \in Bad : \A m \in Bad : n <= m
    <3>1. Bad \in SUBSET Nat
      OBVIOUS
    <3> HIDE DEF Bad
    <3> QED BY <2>1, <3>1, SmallestNumber
  <2>3. CASE n = 0
    <3> DEFINE z == [k \in 0 .. 0 |-> <<>>]
    <3>1. Walk(0, z)
      OBVIOUS
    <3> HIDE DEF z, Walk
    <3> QED BY <2>2, <2>3, <3>1
  <2>4. CASE n # 0
    <3>0. n \in Nat /\ n - 1 \in Nat /\ ~(n <= n - 1)
      BY <2>4
    <3>1. n - 1 \in Nat /\ n - 1 \notin Bad
      <4> HIDE DEF Bad
      <4> QED BY <2>2, <3>0
    <3>2. PICK a : Walk(n - 1, a)
      BY <3>1
    <3> DEFINE b == [k \in 0 .. n |-> IF k = 0 THEN <<>> ELSE AdmitOne(a[k - 1], queue[k])]
    <3>3. \A k \in 0 .. n - 1 : b[k] = a[k]
      BY <3>1, <3>2
    <3>4. Walk(n, b)
      <4>1. \A k \in 0 .. n : k # 0 => k - 1 \in 0 .. n - 1
        BY <3>1
      <4>2. \A k \in 0 .. n : k # 0 => b[k - 1] = a[k - 1]
        <5> HIDE DEF b
        <5> QED BY <3>3, <4>1
      <4>3. \A k \in 0 .. n :
              (IF k = 0 THEN <<>> ELSE AdmitOne(a[k - 1], queue[k]))
                = (IF k = 0 THEN <<>> ELSE AdmitOne(b[k - 1], queue[k]))
        <5> HIDE DEF b
        <5> QED BY <4>2
      <4> DEFINE c == b
      <4>4. b = [k \in 0 .. n |-> IF k = 0 THEN <<>> ELSE AdmitOne(c[k - 1], queue[k])]
        <5>1. \A k \in 0 .. n :
                (IF k = 0 THEN <<>> ELSE AdmitOne(a[k - 1], queue[k]))
                  = (IF k = 0 THEN <<>> ELSE AdmitOne(c[k - 1], queue[k]))
          BY <4>3
        <5> HIDE DEF c
        <5> QED BY <5>1
      <4> HIDE DEF b
      <4> QED BY <4>4
    <3> HIDE DEF b, Walk
    <3> QED BY <2>2, <3>4
  <2> QED BY <2>3, <2>4
<1> DEFINE A == CHOOSE a : Walk(N, a)
<1>3. Walk(N, A)
  BY <1>1, <1>2
<1>4. SelectWithinCapacity(queue) = A[N]
  BY DEF SelectWithinCapacity, N
<1> HIDE DEF A
<1> DEFINE Good(n) == /\ A[n] \in Seq(Candidates)
                      /\ \A i \in DOMAIN A[n] : \E j \in 1 .. n : A[n][i] = queue[j]
                      /\ \A i, j \in DOMAIN A[n] : i # j => A[n][i] # A[n][j]
<1>5. ASSUME NEW n \in 1 .. N, Good(n - 1)
      PROVE  Good(n)
  <2> DEFINE adm == A[n - 1]
             c == queue[n]
  <2>1. A[n] = AdmitOne(adm, c)
    BY <1>1, <1>3
  <2>2. c \in Candidates /\ n \in Nat /\ n - 1 \in Nat
    BY <1>0, <1>1
  <2>3. CASE A[n] = adm
    BY <1>5, <2>2, <2>3
  <2>4. CASE A[n] = Append(adm, c)
    <3> DEFINE m == Len(adm)
    <3>1. /\ adm \in Seq(Candidates) /\ m \in Nat /\ DOMAIN adm = 1 .. m
          /\ DOMAIN A[n] = 1 .. (m + 1) /\ A[n][m + 1] = c
          /\ \A i \in 1 .. m : A[n][i] = adm[i]
      BY <1>5, <2>2, <2>4
    <3>2. A[n] \in Seq(Candidates)
      BY <2>2, <2>4, <3>1
    <3>7. \A k \in DOMAIN A[n] : k \in 1 .. m \/ k = m + 1
      <4>1. \A k \in 1 .. (m + 1) : k \in 1 .. m \/ k = m + 1
        BY <3>1
      <4> QED BY <3>1, <4>1
    <3>3. ASSUME NEW i \in 1 .. m PROVE \E j \in 1 .. n - 1 : A[n][i] = queue[j]
      <4>1. \A k \in DOMAIN adm : \E j \in 1 .. n - 1 : adm[k] = queue[j]
        BY <1>5
      <4>2. i \in DOMAIN adm /\ A[n][i] = adm[i]
        BY <3>1
      <4> HIDE DEF adm
      <4> QED BY <4>1, <4>2
    <3>4. ASSUME NEW i \in 1 .. m PROVE A[n][i] # c
      <4>1. PICK j \in 1 .. n - 1 : A[n][i] = queue[j]
        BY <3>3
      <4>2. j \in 1 .. N /\ n \in 1 .. N /\ j # n
        BY <1>1, <2>2
      <4> QED BY <1>0, <4>1, <4>2
    <3>5. ASSUME NEW i \in DOMAIN A[n]
          PROVE  \E j \in 1 .. n : A[n][i] = queue[j]
      <4>1. CASE i \in 1 .. m
        <5>1. PICK j \in 1 .. n - 1 : A[n][i] = queue[j]
          BY <3>3, <4>1
        <5>2. j \in 1 .. n
          BY <2>2
        <5> QED BY <5>1, <5>2
      <4>2. CASE i = m + 1
        <5>1. n \in 1 .. n
          BY <2>2
        <5> QED BY <3>1, <4>2, <5>1
      <4> QED BY <3>7, <4>1, <4>2
    <3>6. ASSUME NEW i \in DOMAIN A[n], NEW j \in DOMAIN A[n], i # j
          PROVE  A[n][i] # A[n][j]
      <4>1. CASE i \in 1 .. m /\ j \in 1 .. m
        <5>1. A[n][i] = adm[i] /\ A[n][j] = adm[j] /\ i \in DOMAIN adm /\ j \in DOMAIN adm
          BY <3>1, <4>1
        <5>2. adm[i] # adm[j]
          BY <1>5, <3>6, <5>1
        <5> QED BY <5>1, <5>2
      <4>2. CASE i = m + 1 \/ j = m + 1
        <5>1. i \in 1 .. m \/ j \in 1 .. m
          BY <3>1, <3>6, <4>2
        <5> QED BY <3>1, <3>4, <4>2, <5>1
      <4> QED BY <3>7, <4>1, <4>2
    <3> QED BY <3>2, <3>5, <3>6
  <2> QED BY <2>1, <2>3, <2>4 DEF AdmitOne
<1>6. Good(0)
  <2>1. A[0] = <<>>
    BY <1>1, <1>3
  <2> QED BY <2>1
<1>7. \A n \in 0 .. N : Good(n)
  <2> DEFINE Bad == {n \in 0 .. N : ~Good(n)}
  <2>1. SUFFICES ASSUME Bad # {} PROVE FALSE
    OBVIOUS
  <2>2. PICK n \in Bad : \A m \in Bad : n <= m
    <3>1. Bad \in SUBSET Nat
      BY <1>1
    <3> HIDE DEF Bad
    <3> QED BY <2>1, <3>1, SmallestNumber
  <2> HIDE DEF Good
  <2>3. n # 0
    BY <1>6, <2>2
  <2>4. n \in 1 .. N /\ n - 1 \in 0 .. N /\ ~(n <= n - 1)
    BY <1>1, <2>2, <2>3
  <2>5. Good(n - 1)
    BY <2>2, <2>4
  <2> QED BY <1>5, <2>2, <2>4, <2>5
<1>8. Good(N)
  <2> HIDE DEF Good
  <2> QED BY <1>1, <1>7
<1> QED BY <1>1, <1>4, <1>8

\* The tail of the queue.
LEMMA TailOfQueue ==
  ASSUME QueueShape, queue # <<>>
  PROVE  LET rest == Tail(queue)
         IN /\ rest \in Seq(Candidates)
            /\ \A i, j \in DOMAIN rest : i # j => rest[i] # rest[j]
            /\ \A i \in DOMAIN rest : \E j \in DOMAIN queue : rest[i] = queue[j]
            /\ \A i \in DOMAIN rest : rest[i] # Head(queue)
            /\ Head(queue) \in Candidates
            /\ \E j \in DOMAIN queue : Head(queue) = queue[j]
<1> DEFINE N == Len(queue)
           rest == Tail(queue)
<1>1. N \in Nat /\ N # 0 /\ DOMAIN queue = 1 .. N /\ 1 \in DOMAIN queue
  BY DEF QueueShape
<1>2. /\ rest \in Seq(Candidates) /\ DOMAIN rest = 1 .. (N - 1)
      /\ \A i \in 1 .. (N - 1) : rest[i] = queue[i + 1]
  BY <1>1 DEF QueueShape
<1>3. Head(queue) = queue[1] /\ queue[1] \in Candidates
  BY <1>1 DEF QueueShape
<1>4. \A i, j \in DOMAIN queue : i # j => queue[i] # queue[j]
  BY DEF QueueShape
<1> HIDE DEF rest, N
<1>5. ASSUME NEW i \in DOMAIN rest
      PROVE  /\ i + 1 \in DOMAIN queue /\ i + 1 # 1 /\ rest[i] = queue[i + 1]
             /\ \A j \in DOMAIN rest : i # j => i + 1 # j + 1
  <2>0. i \in 1 .. (N - 1)
    BY <1>2
  <2>1. i + 1 \in 1 .. N /\ i + 1 # 1
    BY <1>1, <2>0
  <2>2. \A j \in 1 .. (N - 1) : i # j => i + 1 # j + 1
    BY <2>0
  <2> QED BY <1>1, <1>2, <2>0, <2>1, <2>2
<1>6. \A i, j \in DOMAIN rest : i # j => rest[i] # rest[j]
  BY <1>4, <1>5
<1>7. \A i \in DOMAIN rest : rest[i] # Head(queue)
  BY <1>1, <1>3, <1>4, <1>5
<1> QED BY <1>1, <1>2, <1>3, <1>5, <1>6, <1>7 DEF rest

\* What a step makes of the queue: a ranking of new candidates, or nobody but
\* those it has, the head left out when the candidate is done with.
LEMMA QueueStep ==
  ASSUME QueueShape, ReadingFor, PlanShape, [Next]_vars
  PROVE  /\ QueueShape'
         /\ \/ StartCycle
            \/ \A i \in DOMAIN queue' : \E j \in DOMAIN queue : queue'[i] = queue[j]
<1> DEFINE Kept == \A i \in DOMAIN queue' : \E j \in DOMAIN queue : queue'[i] = queue[j]
<1>1. CASE queue' = queue
  <2>1. QueueShape'
    BY <1>1 DEF QueueShape
  <2>2. Kept
    BY <1>1
  <2> QED BY <2>1, <2>2
<1>2. CASE queue' = <<>>
  <2>1. QueueShape'
    BY <1>2 DEF QueueShape
  <2>2. Kept
    BY <1>2
  <2> QED BY <2>1, <2>2
<1>3. CASE queue' = Tail(queue) /\ queue # <<>>
  <2>1. QueueShape' /\ Kept
    BY <1>3, TailOfQueue DEF QueueShape
  <2> QED BY <2>1
<1>4. CASE Admit
  <2>1. queue' = SelectWithinCapacity(queue)
    BY <1>4 DEF Admit
  <2>2. QueueShape' /\ Kept
    BY <2>1, Admitted DEF QueueShape
  <2> QED BY <2>2
<1>5. CASE StartCycle
  <2>1. PICK conf \in SUBSET Candidates : queue' \in SetToSeqs(conf)
    BY <1>5 DEF StartCycle, Rankings
  <2>2. IsFiniteSet(conf) /\ Cardinality(conf) \in Nat
    BY FS_Subset, FS_CardinalityType
  <2>3. /\ queue' \in [1 .. Cardinality(conf) -> conf]
        /\ \A i, j \in 1 .. Cardinality(conf) : i # j => queue'[i] # queue'[j]
    BY <2>1 DEF SetToSeqs
  <2>4. queue' \in Seq(Candidates) /\ DOMAIN queue' = 1 .. Cardinality(conf)
    <3> DEFINE n == Cardinality(conf)
    <3>1. n \in Nat /\ queue' \in [1 .. n -> Candidates]
      BY <2>2, <2>3
    <3> HIDE DEF n
    <3>2. queue' \in Seq(Candidates) /\ DOMAIN queue' = 1 .. n
      BY <3>1
    <3> QED BY <3>2 DEF n
  <2> QED BY <1>5, <2>3, <2>4 DEF QueueShape
<1>6. CASE Unusable
  <2>1. queue' = <<>> \/ (queue' = Tail(queue) /\ queue # <<>>)
    BY <1>6 DEF Unusable, ReadingFor, PlanShape
  <2> QED BY <1>2, <1>3, <2>1
<1> HIDE DEF Kept
<1>7. CASE UNCHANGED vars
  BY <1>1, <1>7 DEF vars
<1>8. CASE ForeignRests \/ ForeignFills \/ ForeignCanceled \/ EquityMoves \/ Settled
  BY <1>1, <1>8 DEF ForeignRests, ForeignFills, ForeignCanceled, EquityMoves, Settled, Trade
<1>9. CASE ReadAccount \/ ReadPositions \/ ReadOrders
  BY <1>1, <1>9 DEF ReadAccount, ReadPositions, ReadOrders, Reading
<1>10. CASE EndCycle \/ Crash
  BY <1>2, <1>10 DEF EndCycle, Crash
<1>11. CASE Screen \/ Size \/ SubmitFills \/ Recheck
  BY <1>1, <1>11 DEF Screen, Size, SubmitFills, Recheck
<1>12. CASE ScreenedOut \/ SizedOut
  BY <1>3, <1>12 DEF ScreenedOut, SizedOut, Skip, At
<1>13. CASE Unreachable \/ Propose \/ SubmitInVain \/ Flatten \/ Retarget
  BY <1>3, <1>13 DEF Unreachable, Propose, SubmitInVain, Flatten, Retarget, Done, At
<1> QED BY <1>4, <1>5, <1>6, <1>7, <1>8, <1>9, <1>10, <1>11, <1>12, <1>13 DEF Next, Kept

LEMMA ReadingForKeeps ==
  ASSUME ReadingFor, PlanShape, [Next]_vars
  PROVE  ReadingFor'
<1>1. CASE StartCycle
  BY <1>1 DEF StartCycle, ReadingFor
<1>2. CASE ReadAccount \/ ReadPositions \/ ReadOrders
  BY <1>2 DEF ReadAccount, ReadPositions, ReadOrders, Reading, Goto, ReadingFor, PlanShape
<1>3. CASE Screen
  BY <1>3 DEF Screen, At, Goto, ReadingFor
<1>4. CASE \/ ForeignRests \/ ForeignFills \/ ForeignCanceled \/ EquityMoves \/ Settled
           \/ UNCHANGED vars
  BY <1>4 DEF ForeignRests, ForeignFills, ForeignCanceled, EquityMoves, Settled, Trade, vars,
     ReadingFor
<1>5. CASE \/ Unusable \/ Admit \/ EndCycle \/ ScreenedOut \/ Size \/ SizedOut \/ Unreachable
           \/ Propose \/ SubmitInVain \/ SubmitFills \/ Recheck \/ Flatten \/ Retarget \/ Crash
  <2>1. pc' \in {"next", "idle", "reconcile", "filled", "retarget", "flatten"}
    BY <1>5 DEF Unusable, Admit, EndCycle, ScreenedOut, Skip, Size, SizedOut, Unreachable,
       Propose, SubmitInVain, SubmitFills, Recheck, Flatten, Retarget, Crash, Done, Goto
  <2> QED BY <2>1 DEF ReadingFor
<1> QED BY <1>1, <1>2, <1>3, <1>4, <1>5 DEF Next

(***************************************************************************)
(* Steps.                                                                   *)
(***************************************************************************)
\* No candidate and no position at first.
LEMMA InitSizingInv ==
  ASSUME Init
  PROVE  SizingInv
<1>1. HealthyInv
  BY DEF Init, HealthyInv, PositionShape, Columns, NoPosition, PlanShape, NoPlan, None,
     CheckedBeforeRetarget, FreshFillOpen, HealthyOpen, HealthyWithinRisk, HealthyPaysTwice
<1>2. WaitingInv
  BY DEF Init, WaitingInv, QueueShape, ReadingFor, QueueUnhealthy
<1> QED BY <1>1, <1>2 DEF SizingInv

\* Whoever waits has no position on record as protected: a confirmation is taken
\* up only without a position, and is done with before its record is written.
LEMMA WaitingKeeps ==
  ASSUME SizingInv, [Next]_vars
  PROVE  WaitingInv'
<1>1. /\ QueueShape' /\ ReadingFor'
      /\ StartCycle \/ \A i \in DOMAIN queue' : \E j \in DOMAIN queue : queue'[i] = queue[j]
  BY QueueStep, ReadingForKeeps DEF SizingInv, HealthyInv, WaitingInv
<1>2. CASE StartCycle
  <2>1. PICK conf \in SUBSET {c \in Candidates : rows[c] = NoRow /\ pos[c].status = "none"} :
          queue' \in SetToSeqs(conf)
    BY <1>2 DEF StartCycle, Rankings
  <2>2. \A i \in DOMAIN queue' : queue'[i] \in conf
    BY <2>1 DEF SetToSeqs
  <2>3. healthy' = healthy
    BY <1>2 DEF StartCycle, store
  <2> QED BY <1>1, <2>2, <2>3 DEF SizingInv, HealthyInv, HealthyOpen, WaitingInv, QueueUnhealthy
<1>3. CASE ~StartCycle /\ healthy' = healthy
  BY <1>1, <1>3 DEF SizingInv, WaitingInv, QueueUnhealthy
<1>4. CASE healthy' # healthy
  <2>1. /\ healthy' = healthy \union {Head(queue)} /\ queue' = Tail(queue) /\ queue # <<>>
    <3>1. CASE Retarget
      BY <1>4, <3>1 DEF Retarget, At, Done, Candidate
    <3>2. CASE [Next]_vars /\ ~Retarget
      BY <1>4, <3>2 DEF Next, vars, store, ForeignRests, ForeignFills, ForeignCanceled, Trade,
         EquityMoves, StartCycle, ReadAccount, ReadPositions, ReadOrders, Reading, Unusable,
         Admit, EndCycle, Screen, ScreenedOut, Size, SizedOut, Skip, Unreachable, Propose,
         SubmitInVain, SubmitFills, Recheck, Flatten, Crash, Settled
    <3> QED BY <3>1, <3>2
  <2>2. \A i \in DOMAIN queue' : /\ queue'[i] # Head(queue)
                                 /\ \E j \in DOMAIN queue : queue'[i] = queue[j]
    BY <2>1, TailOfQueue DEF SizingInv, WaitingInv
  <2> QED BY <1>1, <2>1, <2>2 DEF SizingInv, WaitingInv, QueueUnhealthy
<1> QED BY <1>2, <1>3, <1>4

\* The positions are the same and no candidate stands before its retarget.
LEMMA PositionsSame ==
  ASSUME SizingInv, pos' = pos, healthy' = healthy, pc' \notin {"filled", "retarget"}, PlanShape'
  PROVE  HealthyInv'
BY DEF SizingInv, HealthyInv, PositionShape, CheckedBeforeRetarget, FreshFillOpen, HealthyOpen,
   HealthyWithinRisk, HealthyPaysTwice

\* Nothing the proof speaks of has moved.
LEMMA NothingMoved ==
  ASSUME SizingInv, UNCHANGED <<pos, healthy, pc, plan, queue, goal>>
  PROVE  HealthyInv'
BY DEF SizingInv, HealthyInv, PositionShape, PlanShape, CheckedBeforeRetarget, FreshFillOpen, HealthyOpen,
   HealthyWithinRisk, HealthyPaysTwice, Candidate, Filled, Recalculated, Direction

\* The one at the head of the queue is a candidate not yet on record.
LEMMA HeadUnhealthy ==
  ASSUME SizingInv, queue # <<>>
  PROVE  Candidate \in Candidates /\ Candidate \notin healthy
BY TailOfQueue DEF SizingInv, WaitingInv, QueueUnhealthy, Candidate

\* A step that leaves the rows on record alone leaves alone what they promise.
LEMMA OthersSame ==
  ASSUME SizingInv, healthy' = healthy, \A c \in healthy : pos'[c] = pos[c]
  PROVE  HealthyOpen' /\ HealthyWithinRisk' /\ HealthyPaysTwice'
BY DEF SizingInv, HealthyInv, HealthyOpen, HealthyWithinRisk, HealthyPaysTwice

\* A candidate is sized at the quote it was screened with and its rounded stop.
LEMMA SizeKeeps ==
  ASSUME SizingInv, Size
  PROVE  HealthyInv'
<1>1. /\ plan' = Planned /\ pc' = "reconcile" /\ UNCHANGED <<goal, queue, pos, healthy>>
  BY DEF Size, Goto, store
<1>2. plan.quote \in Int /\ goal \in {"admit", "size"}
  BY DEF SizingInv, HealthyInv, PlanShape
<1>3. plan'.quote = plan.quote /\ DOMAIN plan' = {"quote", "stop", "target", "qty"}
  BY <1>1 DEF Planned
<1>4. ASSUME Candidate \in Candidates  PROVE plan'.stop \in Int
  <2>1. Confirmation[Candidate].stop \in Int
    BY <1>4
  <2>2. RoundStop(Confirmation[Candidate].stop, Direction) \in Int
    BY <2>1, RoundDownBelow, RoundUpAbove DEF RoundStop
  <2> QED BY <1>1, <2>2 DEF Planned
<1>5. PlanShape'
  BY <1>1, <1>2, <1>3, <1>4 DEF PlanShape, Candidate
<1> QED BY <1>1, <1>5, PositionsSame

\* A fill is booked with whole prices, and is on nobody's record yet.
LEMMA SubmitFillsKeeps ==
  ASSUME SizingInv, SubmitFills
  PROVE  HealthyInv'
<1>1. PICK slip \in Slips :
        pos' = [pos EXCEPT ![Candidate] =
                  [NoPosition EXCEPT !.status = "open", !.qty = plan.qty,
                     !.fill = plan.quote + slip, !.stop = plan.stop, !.target = plan.target]]
  BY DEF SubmitFills
<1> DEFINE row == [NoPosition EXCEPT !.status = "open", !.qty = plan.qty,
                     !.fill = plan.quote + slip, !.stop = plan.stop, !.target = plan.target]
<1>2. /\ DOMAIN row = Columns /\ row.fill = plan.quote + slip /\ row.stop = plan.stop
  BY DEF NoPosition, Columns
<1> HIDE DEF row
<1>3. pos' = [pos EXCEPT ![Candidate] = row]
  BY <1>1 DEF row
<1>4. /\ pc = "reconcile" /\ pc' = "filled" /\ UNCHANGED <<plan, goal, queue, healthy>>
      /\ queue # <<>>
  BY DEF SubmitFills, At
<1>5. PlanShape'
  BY <1>4 DEF SizingInv, HealthyInv, PlanShape, Candidate
<1>6. plan.quote + slip \in Int /\ (Candidate \in Candidates => plan.stop \in Int)
  <2>1. slip \in Int /\ plan.quote \in Int
    BY DEF SizingInv, HealthyInv, PlanShape
  <2> QED BY <1>4, <2>1 DEF SizingInv, HealthyInv, PlanShape
<1>7. PositionShape'
  BY <1>2, <1>3, <1>6 DEF SizingInv, HealthyInv, PositionShape
<1>8. \A c \in healthy : pos'[c] = pos[c]
  BY <1>3, <1>4, HeadUnhealthy DEF SizingInv, HealthyInv, PositionShape, HealthyOpen
<1>9. CheckedBeforeRetarget' /\ FreshFillOpen'
  <2>1. row.status = "open"
    BY DEF row, NoPosition
  <2>2. Candidate \in Candidates => pos'[Candidate] = row
    BY <1>3 DEF SizingInv, HealthyInv, PositionShape
  <2> QED BY <1>4, <2>1, <2>2 DEF CheckedBeforeRetarget, FreshFillOpen, Filled, Candidate
<1> QED BY <1>4, <1>5, <1>7, <1>8, <1>9, OthersSame DEF HealthyInv

\* A row that is marked degraded keeps its prices, and was on nobody's record.
LEMMA MarkedDegraded ==
  ASSUME SizingInv, queue # <<>>, healthy' = healthy, pc' \notin {"filled", "retarget"}, PlanShape',
         pos' = [pos EXCEPT ![Candidate].status = "degraded"]
  PROVE  HealthyInv'
<1>1. \A c \in Candidates : /\ DOMAIN pos'[c] = Columns
                            /\ pos'[c].fill = pos[c].fill /\ pos'[c].stop = pos[c].stop
  BY DEF SizingInv, HealthyInv, PositionShape, Columns
<1>2. PositionShape'
  BY <1>1 DEF SizingInv, HealthyInv, PositionShape
<1>3. \A c \in healthy : pos'[c] = pos[c]
  BY HeadUnhealthy DEF SizingInv, HealthyInv, PositionShape, HealthyOpen
<1> QED BY <1>2, <1>3, OthersSame DEF HealthyInv, CheckedBeforeRetarget, FreshFillOpen

\* The check binds the risk to the equity it notes, and the bracket to the
\* target the fill calls for.
LEMMA RecheckKeeps ==
  ASSUME SizingInv, Recheck
  PROVE  HealthyInv'
<1>1. pc = "filled" /\ queue # <<>> /\ UNCHANGED <<plan, goal, queue, healthy>>
  BY DEF Recheck, At
<1>2. CASE pos' = [pos EXCEPT ![Candidate].status = "degraded"] /\ pc' = "flatten"
  <2>1. PlanShape'
    BY <1>1, <1>2 DEF SizingInv, HealthyInv, PlanShape
  <2> QED BY <1>1, <1>2, <2>1, MarkedDegraded
<1>3. CASE /\ \E refreshed \in BOOLEAN : MonetaryOk(refreshed)
           /\ ValidBracket(Filled.fill, Filled.stop, Recalculated, Direction)
           /\ pos' = [pos EXCEPT ![Candidate].equity = equity]
           /\ pc' = "retarget"
  <2>1. PlanShape'
    BY <1>1, <1>3 DEF SizingInv, HealthyInv, PlanShape
  <2>2. \A c \in Candidates :
          /\ DOMAIN pos'[c] = Columns
          /\ c # Candidate => pos'[c] = pos[c]
          /\ pos'[c].qty = pos[c].qty /\ pos'[c].status = pos[c].status
          /\ pos'[c].fill = pos[c].fill /\ pos'[c].stop = pos[c].stop
    BY <1>3 DEF SizingInv, HealthyInv, PositionShape, Columns
  <2>3. PositionShape'
    BY <1>3, <2>2 DEF SizingInv, HealthyInv, PositionShape
  <2>4. ASSUME Candidate \in Candidates
        PROVE  /\ WithinRisk(pos'[Candidate].qty, pos'[Candidate].fill, pos'[Candidate].stop,
                             pos'[Candidate].equity)
               /\ ValidBracket(pos'[Candidate].fill, pos'[Candidate].stop, Recalculated, Direction)
    <3>1. pos'[Candidate].equity = equity
      BY <1>3, <2>4 DEF SizingInv, HealthyInv, PositionShape, Columns
    <3> QED BY <1>3, <2>2, <2>4, <3>1 DEF MonetaryOk, Filled
  <2>5. Candidate' = Candidate /\ Direction' = Direction
    BY <1>1 DEF Candidate, Direction
  <2>6. Candidate \in Candidates => Recalculated' = Recalculated
    BY <2>2, <2>5 DEF Recalculated, Filled
  <2>7. CheckedBeforeRetarget' /\ FreshFillOpen'
    BY <1>1, <2>2, <2>4, <2>5, <2>6
       DEF SizingInv, HealthyInv, CheckedBeforeRetarget, FreshFillOpen, Filled
  <2>8. \A c \in healthy : pos'[c] = pos[c]
    BY <1>1, <2>2, HeadUnhealthy DEF SizingInv, HealthyInv, HealthyOpen
  <2> QED BY <1>1, <2>1, <2>3, <2>7, <2>8, OthersSame DEF HealthyInv
<1> QED BY <1>2, <1>3 DEF Recheck, Goto

\* What goes on record has been checked, and its target pays.
LEMMA RetargetKeeps ==
  ASSUME SizingInv, Retarget
  PROVE  HealthyInv'
<1>1. /\ pc = "retarget" /\ queue # <<>> /\ pc' = "next" /\ plan' = NoPlan /\ goal' = goal
  BY DEF Retarget, At, Done
<1>2. PlanShape'
  BY <1>1 DEF SizingInv, HealthyInv, PlanShape, NoPlan, None
<1>3. CASE pos' = [pos EXCEPT ![Candidate].status = "degraded"] /\ healthy' = healthy
  BY <1>1, <1>2, <1>3, MarkedDegraded
<1>4. CASE /\ pos' = [pos EXCEPT ![Candidate].target = Recalculated]
           /\ healthy' = healthy \union {Candidate}
  <2>1. \A c \in Candidates :
          /\ DOMAIN pos'[c] = Columns
          /\ c # Candidate => pos'[c] = pos[c]
          /\ pos'[c].fill = pos[c].fill /\ pos'[c].stop = pos[c].stop
          /\ pos'[c].qty = pos[c].qty /\ pos'[c].equity = pos[c].equity
          /\ pos'[c].status = pos[c].status
          /\ c = Candidate => pos'[c].target = Recalculated
    BY <1>4 DEF SizingInv, HealthyInv, PositionShape, Columns
  <2>2. PositionShape'
    BY <1>4, <2>1 DEF SizingInv, HealthyInv, PositionShape
  <2>3. /\ Candidate \in Candidates /\ Filled.status = "open"
        /\ WithinRisk(Filled.qty, Filled.fill, Filled.stop, Filled.equity)
        /\ ValidBracket(Filled.fill, Filled.stop, Recalculated, Direction)
        /\ Distance(Recalculated, Filled.fill) >= 2 * Distance(Filled.fill, Filled.stop)
    <3>1. Candidate \in Candidates
      BY <1>1, HeadUnhealthy
    <3>2. /\ Filled.fill \in Int /\ Filled.stop \in Int /\ Direction \in {"long", "short"}
      BY <3>1 DEF SizingInv, HealthyInv, PositionShape, Filled, Direction
    <3>3. Distance(Recalculated, Filled.fill) >= 2 * Distance(Filled.fill, Filled.stop)
      BY <3>2, TargetPaysTwice DEF Recalculated
    <3> QED BY <1>1, <3>1, <3>3 DEF SizingInv, HealthyInv, CheckedBeforeRetarget, FreshFillOpen
  <2>4. ASSUME NEW c \in healthy'
        PROVE  /\ c \in Candidates /\ pos'[c].status = "open"
               /\ WithinRisk(pos'[c].qty, pos'[c].fill, pos'[c].stop, pos'[c].equity)
               /\ ValidBracket(pos'[c].fill, pos'[c].stop, pos'[c].target, Confirmation[c].direction)
               /\ Distance(pos'[c].target, pos'[c].fill) >= 2 * Distance(pos'[c].fill, pos'[c].stop)
    <3>1. CASE c = Candidate
      BY <2>1, <2>3, <3>1 DEF Filled, Direction
    <3>2. CASE c # Candidate /\ c \in healthy
      BY <2>1, <3>2 DEF SizingInv, HealthyInv, HealthyOpen, HealthyWithinRisk, HealthyPaysTwice
    <3> QED BY <1>4, <3>1, <3>2
  <2>5. HealthyOpen' /\ HealthyWithinRisk' /\ HealthyPaysTwice'
    BY <2>4 DEF HealthyOpen, HealthyWithinRisk, HealthyPaysTwice
  <2> QED BY <1>1, <1>2, <2>2, <2>5 DEF HealthyInv, CheckedBeforeRetarget, FreshFillOpen
<1> QED BY <1>3, <1>4 DEF Retarget

\* What is flattened, or left for recovery, is on nobody's record.
LEMMA FlattenKeeps ==
  ASSUME SizingInv, Flatten
  PROVE  HealthyInv'
<1>1. pc' = "next" /\ plan' = NoPlan /\ goal' = goal /\ queue # <<>> /\ healthy' = healthy
  BY DEF Flatten, Done, At
<1>2. PlanShape'
  BY <1>1 DEF SizingInv, HealthyInv, PlanShape, NoPlan, None
<1>3. CASE pos' = pos
  BY <1>1, <1>2, <1>3, PositionsSame
<1>4. CASE pos' = [pos EXCEPT ![Candidate] = NoPosition]
  <2>1. DOMAIN NoPosition = Columns /\ NoPosition.fill \in Int /\ NoPosition.stop \in Int
    BY DEF NoPosition, Columns
  <2>2. PositionShape'
    BY <1>4, <2>1 DEF SizingInv, HealthyInv, PositionShape
  <2>3. \A c \in healthy : pos'[c] = pos[c]
    BY <1>1, <1>4, HeadUnhealthy DEF SizingInv, HealthyInv, PositionShape, HealthyOpen
  <2> QED BY <1>1, <1>2, <2>2, <2>3, OthersSame DEF HealthyInv, CheckedBeforeRetarget, FreshFillOpen
<1> QED BY <1>3, <1>4 DEF Flatten

\* Between two cycles only degraded positions disappear.
LEMMA SettledKeeps ==
  ASSUME SizingInv, Settled
  PROVE  HealthyInv'
<1>1. pc = "idle" /\ UNCHANGED <<pc, plan, goal, healthy>>
  BY DEF Settled
<1>2. PlanShape'
  BY <1>1 DEF SizingInv, HealthyInv, PlanShape
<1>3. \E left \in SUBSET Candidates :
        /\ pos' = [c \in Candidates |-> IF c \in left THEN NoPosition ELSE pos[c]]
        /\ \A c \in left : pos[c].status = "degraded"
  <2> DEFINE left == {c \in Candidates : pos[c].status = "degraded"}
  <2>1. pos' = [c \in Candidates |-> IF c \in left THEN NoPosition ELSE pos[c]]
    BY DEF Settled
  <2>2. left \in SUBSET Candidates /\ \A c \in left : pos[c].status = "degraded"
    OBVIOUS
  <2> HIDE DEF left
  <2> QED BY <2>1, <2>2
<1>4. DOMAIN NoPosition = Columns /\ NoPosition.fill \in Int /\ NoPosition.stop \in Int
  BY DEF NoPosition, Columns
<1> DEFINE Closed(left) ==
      /\ left \subseteq Candidates /\ \A c \in left : pos[c].status = "degraded"
      /\ pos' = [c \in Candidates |-> IF c \in left THEN NoPosition ELSE pos[c]]
<1>7. PICK left : Closed(left)
  BY <1>3
<1>5. PositionShape'
  BY <1>7, <1>4 DEF SizingInv, HealthyInv, PositionShape
<1>6. \A c \in healthy : pos'[c] = pos[c]
  BY <1>7 DEF SizingInv, HealthyInv, HealthyOpen
<1> QED BY <1>1, <1>2, <1>5, <1>6, OthersSame DEF HealthyInv, CheckedBeforeRetarget, FreshFillOpen

\* Every step keeps the invariant.
LEMMA NextSizingInv ==
  ASSUME SizingInv, [Next]_vars
  PROVE  SizingInv'
<1>0. WaitingInv'
  BY WaitingKeeps
<1> SUFFICES HealthyInv'
  BY <1>0 DEF SizingInv
<1>1. CASE ForeignRests \/ ForeignFills \/ ForeignCanceled \/ EquityMoves \/ UNCHANGED vars
  <2>1. UNCHANGED <<pos, healthy, pc, plan, queue, goal>>
    BY <1>1 DEF ForeignRests, ForeignFills, ForeignCanceled, EquityMoves, Trade, store, vars
  <2> QED BY <2>1, NothingMoved
<1>2. CASE StartCycle \/ ReadAccount \/ ReadPositions \/ ReadOrders \/ Unusable
           \/ Admit \/ EndCycle \/ Screen \/ ScreenedOut \/ SizedOut
  <2>1. /\ pos' = pos /\ healthy' = healthy /\ goal' \in {"admit", "size"}
        /\ pc' \in {"account", "positions", "orders", "admit", "size", "next", "idle"}
    BY <1>2 DEF StartCycle, ReadAccount, ReadPositions, ReadOrders, Unusable, Admit, EndCycle,
       Screen, ScreenedOut, SizedOut, Skip, Goto, Reading, store, SizingInv, HealthyInv, PlanShape
  <2>2. plan' = plan \/ plan' = NoPlan \/ \E q \in Quotes : plan' = [NoPlan EXCEPT !.quote = q]
    BY <1>2 DEF StartCycle, ReadAccount, ReadPositions, ReadOrders, Unusable, Admit, EndCycle,
       Screen, ScreenedOut, SizedOut, Skip, Reading, FreshQuotes
  <2>3. DOMAIN plan' = {"quote", "stop", "target", "qty"} /\ plan'.quote \in Int
    BY <2>2 DEF SizingInv, HealthyInv, PlanShape, NoPlan, None
  <2>4. PlanShape'
    BY <2>1, <2>3 DEF PlanShape
  <2> QED BY <2>1, <2>4, PositionsSame
<1>3. CASE Unreachable \/ Propose \/ SubmitInVain \/ Crash
  <2>1. /\ pos' = pos /\ healthy' = healthy /\ goal' = goal /\ plan' = NoPlan
        /\ pc' \in {"next", "idle"}
    BY <1>3 DEF Unreachable, Propose, SubmitInVain, Crash, Done, Goto
  <2>2. PlanShape'
    BY <2>1 DEF SizingInv, HealthyInv, PlanShape, NoPlan, None
  <2> QED BY <2>1, <2>2, PositionsSame
<1>4. CASE Size
  BY <1>4, SizeKeeps
<1>5. CASE SubmitFills
  BY <1>5, SubmitFillsKeeps
<1>6. CASE Recheck
  BY <1>6, RecheckKeeps
<1>7. CASE Flatten
  BY <1>7, FlattenKeeps
<1>8. CASE Retarget
  BY <1>8, RetargetKeeps
<1>9. CASE Settled
  BY <1>9, SettledKeeps
<1> QED BY <1>1, <1>2, <1>3, <1>4, <1>5, <1>6, <1>7, <1>8, <1>9 DEF Next

(***************************************************************************)
(* The invariant of the cash.                                               *)
(***************************************************************************)
\* Money is counted in whole numbers, and a plan that was sized buys something.
Planning == {"reconcile", "filled", "flatten", "retarget"}
MoneyShape ==
  /\ equity \in Int /\ cash \in Int /\ cycle \in Nat
  /\ \A c \in Candidates : pos[c].qty \in Int
  /\ pc \in Planning => plan.qty \in Nat /\ plan.quote \in Nat

\* A snapshot lists finitely many positions and orders, each with its worth.
Amounts(f) == IsFiniteSet(DOMAIN f) /\ f \in [DOMAIN f -> Int]
SnapShape ==
  /\ DOMAIN snap = {"equity", "cash", "nonMarginable", "positions", "orders"}
  /\ snap.equity \in Int /\ snap.cash \in Int /\ snap.nonMarginable \in Int
  /\ Amounts(snap.positions) /\ Amounts(snap.orders)

\* A row belongs to a cycle there has been, and in a dry run a candidate still
\* in the queue has none of this cycle.
RowsShape ==
  /\ DOMAIN rows = Candidates
  /\ \A c \in Candidates : rows[c].cycle \in 0 .. cycle /\ rows[c].notional \in Int
  /\ mode = "dry_run" => \A i \in DOMAIN queue : rows[queue[i]].cycle # cycle

\* What a dry run has committed in this cycle is what it has proposed in it.
Proposed == [c \in ProposedNow |-> rows[c].notional]
CommittedIsProposed ==
  /\ committed \in Nat
  /\ pc # "idle" /\ mode = "dry_run" => committed = SumOver(Proposed)

\* Only a real order is followed up.
FillsAreReal == pc \in {"filled", "flatten", "retarget"} => mode # "dry_run"

\* A size leaves alone what is committed.
SizeFits == pc = "reconcile" => Notional <= AvailableBuyingPower - committed

CashInv ==
  /\ MoneyShape /\ SnapShape /\ QueueShape /\ ReadingFor /\ RowsShape
  /\ CommittedIsProposed /\ FillsAreReal /\ SizeFits

(***************************************************************************)
(* What the steps are made of.                                              *)
(***************************************************************************)
\* The least of three numbers is below each.
LEMMA LeastOfThree ==
  ASSUME NEW a \in Int, NEW b \in Int, NEW c \in Int
  PROVE  /\ Min({a, b, c}) \in Int
         /\ Min({a, b, c}) <= a /\ Min({a, b, c}) <= b /\ Min({a, b, c}) <= c
<1>1. \E x \in {a, b, c} : \A y \in {a, b, c} : x =< y
  OBVIOUS
<1> QED BY <1>1 DEF Min

\* What is available is a number, and nothing but the snapshot decides on it.
LEMMA AvailableInt ==
  ASSUME SnapShape
  PROVE  AvailableBuyingPower \in Nat
<1>1. SumOver(snap.positions) \in Int /\ SumOver(snap.orders) \in Int
  BY SumInt DEF SnapShape, Amounts
<1> DEFINE m == Min({snap.cash, snap.nonMarginable,
                     snap.equity - GrossExposure - PendingOpeningNotional})
<1>2. m \in Int
  <2>1. snap.equity - GrossExposure - PendingOpeningNotional \in Int
    BY <1>1 DEF SnapShape, GrossExposure, PendingOpeningNotional
  <2> QED BY <2>1, LeastOfThree DEF SnapShape
<1>3. AvailableBuyingPower = Floored(m)
  BY DEF AvailableBuyingPower
<1> HIDE DEF m
<1> QED BY <1>2, <1>3 DEF Floored

\* A quantity at a positive price that is worth while costs no more than is
\* left of the buying power.
LEMMA SizeCosts ==
  ASSUME SnapShape, committed \in Nat, NEW price \in Int, price > 0, NEW stop \in Int,
         SizeOrder(price, stop) > 0
  PROVE  /\ SizeOrder(price, stop) \in Nat
         /\ SizeOrder(price, stop) * price <= AvailableBuyingPower - committed
<1> DEFINE a == Floored(AvailableBuyingPower - committed)
           risk == Distance(price, stop)
           r == (snap.equity * SLC_RISK_PER_TRADE) \div (10000 * risk)
           p == (snap.equity * SLC_MAX_POSITION_PCT) \div (100 * price)
           q == a \div price
<1>1. a \in Nat
  BY AvailableInt DEF Floored
<1>2. risk \in Nat
  BY DistanceNat
<1>3. snap.equity \in Int
  BY DEF SnapShape
<1>4. SizeOrder(price, stop) =
        IF risk = 0 \/ price <= 0 THEN 0 ELSE Floored(Min({r, p, q}))
  BY DEF SizeOrder
<1>5. q \in Int /\ q * price <= a
  <2> HIDE DEF a
  <2> QED BY <1>1, Quotient
<1>6. p \in Int
  <2>1. snap.equity * SLC_MAX_POSITION_PCT \in Int /\ 100 * price \in Nat /\ 100 * price > 0
    BY <1>3 DEF SLC_MAX_POSITION_PCT
  <2> QED BY <2>1, Quotient
<1>7. risk # 0 /\ ~(price <= 0)
  <2> HIDE DEF risk
  <2> QED BY <1>4
<1>8. r \in Int
  <2>1. snap.equity * SLC_RISK_PER_TRADE \in Int
    BY <1>3 DEF SLC_RISK_PER_TRADE
  <2> DEFINE d == 10000 * risk
  <2>2. d \in Nat /\ d > 0
    <3> HIDE DEF risk
    <3> QED BY <1>2, <1>7
  <2> HIDE DEF d
  <2>3. (snap.equity * SLC_RISK_PER_TRADE) \div d \in Int
    BY <2>1, <2>2, Quotient
  <2> QED BY <2>3 DEF d
<1> DEFINE m == Min({r, p, q})
<1> HIDE DEF r, p, q, a, risk
<1>9. m \in Int /\ m <= q
  BY <1>5, <1>6, <1>8, LeastOfThree
<1> HIDE DEF m
<1>10. SizeOrder(price, stop) = m /\ m > 0
  BY <1>4, <1>7, <1>9 DEF Floored, m
<1>11. m * price <= q * price
  <2>1. (q - m) * price >= 0
    BY <1>5, <1>9
  <2> QED BY <1>5, <1>9, <2>1
<1>12. a >= price /\ a = AvailableBuyingPower - committed
  <2>1. m * price >= price
    <3>1. (m - 1) * price >= 0
      BY <1>9, <1>10
    <3> QED BY <1>9, <3>1
  <2>2. a >= price
    BY <1>1, <1>5, <1>9, <1>11, <2>1
  <2>3. a > 0 /\ AvailableBuyingPower - committed \in Int
    BY <1>1, <2>2, AvailableInt
  <2> QED BY <2>2, <2>3 DEF a, Floored
<1> QED BY <1>1, <1>5, <1>9, <1>10, <1>11, <1>12

\* The snapshot is a snapshot, whatever happens between its three reads.
LEMMA SnapKeeps ==
  ASSUME SnapShape, MoneyShape, PositionShape, [Next]_vars
  PROVE  SnapShape'
<1>0. /\ DOMAIN NoSnapshot = {"equity", "cash", "nonMarginable", "positions", "orders"}
      /\ NoSnapshot.equity = 0 /\ NoSnapshot.cash = 0 /\ NoSnapshot.nonMarginable = 0
      /\ NoSnapshot.positions = [s \in {} |-> 0] /\ NoSnapshot.orders = [s \in {} |-> 0]
      /\ Amounts([s \in {} |-> 0])
  BY FS_EmptySet DEF NoSnapshot, Amounts
<1>1. CASE snap' = snap
  BY <1>1 DEF SnapShape
<1>2. CASE snap' = NoSnapshot
  BY <1>0, <1>2 DEF SnapShape
<1>3. CASE ReadAccount
  <2>1. Reserved \in Int
    <3> DEFINE f == [o \in Resting |-> Stakes[o]]
    <3>1. IsFiniteSet(Resting) /\ f \in [Resting -> Int]
      BY FS_Subset DEF Resting
    <3> HIDE DEF f
    <3>2. SumOver(f) \in Int
      BY <3>1, SumInt
    <3> QED BY <3>2 DEF Reserved, f
  <2>2. snap' = [NoSnapshot EXCEPT !.equity = equity, !.cash = cash,
                                   !.nonMarginable = cash - Reserved]
    BY <1>3 DEF ReadAccount
  <2>3. equity \in Int /\ cash \in Int /\ cash - Reserved \in Int
    BY <2>1 DEF MoneyShape
  <2> HIDE DEF Reserved
  <2> QED BY <1>0, <2>2, <2>3 DEF SnapShape
<1>4. CASE ReadPositions
  <2> DEFINE held == {s \in Symbols : MarketValue(s) # 0}
             f == [s \in held |-> MarketValue(s)]
  <2>1. IsFiniteSet(held)
    BY FS_Union, FS_Subset DEF Symbols
  <2>2. \A s \in Symbols : MarketValue(s) \in Int
    <3> SUFFICES ASSUME NEW s \in Symbols PROVE MarketValue(s) \in Int
      OBVIOUS
    <3>1. s \in Candidates => pos[s].qty * pos[s].fill \in Int
      BY DEF MoneyShape, PositionShape
    <3>2. s \in Others => Stakes[s] \in Int
      OBVIOUS
    <3> QED BY <3>1, <3>2 DEF MarketValue
  <2>3. Amounts(f)
    BY <2>1, <2>2 DEF Amounts
  <2>4. snap' = [snap EXCEPT !.positions = f]
    BY <1>4 DEF ReadPositions
  <2> HIDE DEF f
  <2> QED BY <2>3, <2>4 DEF SnapShape
<1>5. CASE ReadOrders
  <2>1. Amounts(TodaysOrders)
    <3> DEFINE D == {o \in Others : foreign[o] # "none"} \union {c \in Candidates : rows[c].filled}
    <3>1. IsFiniteSet(D)
      BY FS_Union, FS_Subset
    <3>2. TodaysOrders = [s \in D |-> IF s \in Resting THEN Stakes[s] ELSE 0]
      BY DEF TodaysOrders
    <3>3. \A s \in D : (IF s \in Resting THEN Stakes[s] ELSE 0) \in Int
      BY DEF Resting
    <3> HIDE DEF D
    <3> QED BY <3>1, <3>2, <3>3 DEF Amounts
  <2>2. snap' = [snap EXCEPT !.orders = TodaysOrders]
    BY <1>5 DEF ReadOrders
  <2> QED BY <2>1, <2>2 DEF SnapShape
<1>6. CASE \/ ForeignRests \/ ForeignFills \/ ForeignCanceled \/ EquityMoves \/ Settled
           \/ StartCycle \/ Admit \/ Screen \/ ScreenedOut \/ Size \/ SizedOut \/ Unreachable
           \/ Propose \/ SubmitInVain \/ SubmitFills \/ Recheck \/ Flatten \/ Retarget
           \/ UNCHANGED vars
  <2>1. snap' = snap
    BY <1>6 DEF ForeignRests, ForeignFills, ForeignCanceled, EquityMoves, Settled, Trade,
       StartCycle, Admit, Screen, ScreenedOut, Skip, Size, SizedOut, Unreachable, Propose,
       SubmitInVain, SubmitFills, Recheck, Flatten, Retarget, Done, vars
  <2> QED BY <1>1, <2>1
<1>7. CASE Unusable \/ EndCycle \/ Crash
  BY <1>2, <1>7 DEF Unusable, EndCycle, Crash
<1> QED BY <1>3, <1>4, <1>5, <1>6, <1>7 DEF Next

\* What a trade brings in is a number.
LEMMA ProceedsInt ==
  ASSUME NEW c, NEW fill \in Int, NEW qty \in Int
  PROVE  Proceeds(c, fill, qty) \in Int
<1>1. fill * qty \in Int
  OBVIOUS
<1> DEFINE n == fill * qty
<1> HIDE DEF n
<1>2. n \in Int => -n \in Int
  OBVIOUS
<1>3. Proceeds(c, fill, qty) = IF Confirmation[c].direction = "long" THEN -n ELSE n
  BY DEF Proceeds, n
<1> QED BY <1>1, <1>2, <1>3 DEF n

\* A position that is marked keeps its quantity.
LEMMA StatusKeepsQty ==
  ASSUME MoneyShape, SizingInv, pos' = [pos EXCEPT ![Candidate].status = "degraded"]
  PROVE  \A c \in Candidates : pos'[c].qty \in Int
<1>1. \A c \in Candidates : pos'[c].qty = pos[c].qty
  BY DEF SizingInv, HealthyInv, PositionShape, Columns
<1> QED BY <1>1 DEF MoneyShape

\* Whole numbers stay whole.
LEMMA MoneyKeeps ==
  ASSUME MoneyShape, SizingInv, SnapShape, QueueShape, committed \in Nat, [Next]_vars
  PROVE  MoneyShape'
<1> DEFINE Plans == pc' \in Planning => plan'.qty \in Nat /\ plan'.quote \in Nat
           Books == \A c \in Candidates : pos'[c].qty \in Int
<1>1. ASSUME NEW c \in Candidates PROVE Proceeds(c, pos[c].fill, pos[c].qty) \in Int
  BY ProceedsInt DEF SizingInv, HealthyInv, PositionShape, MoneyShape
<1>2. NoPosition.qty = 0 /\ DOMAIN NoPosition = Columns
  BY DEF NoPosition, Columns
<1>3. CASE ForeignRests \/ ForeignFills \/ ForeignCanceled
  BY <1>3 DEF ForeignRests, ForeignFills, ForeignCanceled, Trade, store, MoneyShape
<1>4. CASE EquityMoves \/ UNCHANGED vars
  BY <1>4 DEF EquityMoves, store, vars, account, MoneyShape
<1>5. CASE \/ StartCycle \/ ReadAccount \/ ReadPositions \/ ReadOrders \/ Unusable \/ Admit
           \/ EndCycle \/ Screen \/ ScreenedOut \/ SizedOut \/ Unreachable \/ Propose
           \/ SubmitInVain \/ Crash
  <2>1. /\ UNCHANGED <<equity, cash, pos>> /\ cycle' \in {cycle, cycle + 1}
        /\ pc' \in {"account", "positions", "orders", "admit", "size", "next", "idle"}
    BY <1>5 DEF StartCycle, ReadAccount, ReadPositions, ReadOrders, Unusable, Admit, EndCycle,
       Screen, ScreenedOut, SizedOut, Skip, Unreachable, Propose, SubmitInVain, Crash, Done,
       Goto, Reading, store, account, SizingInv, HealthyInv, PlanShape
  <2> QED BY <2>1 DEF MoneyShape, Planning
<1>6. CASE Size
  <2>1. /\ UNCHANGED <<equity, cash, pos, cycle>> /\ plan' = Planned
        /\ Candidate \in Candidates
    BY <1>6, TailOfQueue DEF Size, At, Goto, store, account, Candidate
  <2>2. plan'.quote = plan.quote /\ plan.quote \in Int /\ plan.quote > 0
    BY <1>6, <2>1 DEF Size, Worthwhile, ValidBracket, Planned, SizingInv, HealthyInv, PlanShape
  <2>3. Planned.qty \in Nat
    <3> DEFINE stop == RoundStop(Confirmation[Candidate].stop, Direction)
    <3>1. stop \in Int
      BY <2>1, RoundDownBelow, RoundUpAbove DEF RoundStop
    <3>2. Planned.qty = SizeOrder(plan.quote, stop) /\ SizeOrder(plan.quote, stop) > 0
      BY <1>6 DEF Size, Worthwhile, Planned
    <3> HIDE DEF stop
    <3> QED BY <2>2, <3>1, <3>2, SizeCosts
  <2> QED BY <2>1, <2>2, <2>3 DEF MoneyShape
<1>7. CASE SubmitFills
  <2>1. pc = "reconcile" /\ pc' = "filled" /\ UNCHANGED <<equity, cycle, plan>>
    BY <1>7 DEF SubmitFills, At
  <2>2. Candidate \in Candidates
    BY <1>7, TailOfQueue DEF SubmitFills, At, Candidate
  <2>3. plan.qty \in Nat /\ plan.quote \in Nat
    BY <2>1 DEF MoneyShape, Planning
  <2>4. PICK slip \in Slips :
          /\ pos' = [pos EXCEPT ![Candidate] =
                       [NoPosition EXCEPT !.status = "open", !.qty = plan.qty,
                          !.fill = plan.quote + slip, !.stop = plan.stop,
                          !.target = plan.target]]
          /\ cash' = cash + Proceeds(Candidate, plan.quote + slip, plan.qty)
    BY <1>7 DEF SubmitFills
  <2>5. Proceeds(Candidate, plan.quote + slip, plan.qty) \in Int
    <3>1. plan.quote + slip \in Int
      BY <2>3
    <3> QED BY <2>3, <3>1, ProceedsInt
  <2>6. Books
    <3> DEFINE r == [NoPosition EXCEPT !.status = "open", !.qty = plan.qty,
                          !.fill = plan.quote + slip, !.stop = plan.stop,
                          !.target = plan.target]
    <3>1. r.qty = plan.qty
      BY <1>2 DEF Columns
    <3> HIDE DEF r
    <3>2. pos' = [pos EXCEPT ![Candidate] = r]
      BY <2>4 DEF r
    <3> QED BY <2>3, <3>1, <3>2 DEF MoneyShape, SizingInv, HealthyInv, PositionShape
  <2> QED BY <2>1, <2>3, <2>4, <2>5, <2>6 DEF MoneyShape
<1>8. CASE Recheck
  <2>1. /\ pc \in Planning /\ UNCHANGED <<equity, cash, cycle, plan>>
    BY <1>8 DEF Recheck, At, Planning, Goto, account
  <2>2. \/ pos' = [pos EXCEPT ![Candidate].status = "degraded"]
        \/ pos' = [pos EXCEPT ![Candidate].equity = equity]
    BY <1>8 DEF Recheck
  <2>3. Books
    BY <2>2, StatusKeepsQty DEF MoneyShape, SizingInv, HealthyInv, PositionShape, Columns
  <2> QED BY <2>1, <2>3 DEF MoneyShape
<1>9. CASE Flatten
  <2>1. /\ UNCHANGED <<equity, cycle>> /\ pc' = "next"
    BY <1>9 DEF Flatten, Done
  <2>2. Candidate \in Candidates
    BY <1>9, TailOfQueue DEF Flatten, At, Candidate
  <2>3. cash' \in Int
    <3>1. cash' = cash \/ cash' = cash - Proceeds(Candidate, Filled.fill, Filled.qty)
      BY <1>9 DEF Flatten
    <3> QED BY <1>1, <2>2, <3>1 DEF Filled, MoneyShape
  <2>4. Books
    <3>1. CASE pos' = [pos EXCEPT ![Candidate] = NoPosition]
      BY <1>2, <3>1 DEF MoneyShape, SizingInv, HealthyInv, PositionShape
    <3>2. CASE pos' = pos
      BY <3>2 DEF MoneyShape
    <3> QED BY <1>9, <3>1, <3>2 DEF Flatten
  <2> QED BY <2>1, <2>3, <2>4 DEF MoneyShape, Planning
<1>10. CASE Retarget
  <2>1. /\ UNCHANGED <<equity, cycle, cash>> /\ pc' = "next"
    BY <1>10 DEF Retarget, Done
  <2>2. Books
    <3>1. CASE pos' = [pos EXCEPT ![Candidate].status = "degraded"]
      BY <3>1, StatusKeepsQty
    <3>2. CASE pos' = [pos EXCEPT ![Candidate].target = Recalculated]
      <4>1. \A c \in Candidates : pos'[c].qty = pos[c].qty
        BY <3>2 DEF SizingInv, HealthyInv, PositionShape, Columns
      <4> QED BY <4>1 DEF MoneyShape
    <3> QED BY <1>10, <3>1, <3>2 DEF Retarget
  <2> QED BY <2>1, <2>2 DEF MoneyShape, Planning
<1>11. CASE Settled
  <2> DEFINE left == {c \in Candidates : pos[c].status = "degraded"}
             f == [c \in left |-> Proceeds(c, pos[c].fill, pos[c].qty)]
  <2>1. IsFiniteSet(left) /\ f \in [left -> Int]
    BY <1>1, FS_Subset
  <2>2. /\ UNCHANGED <<equity, cycle, pc, plan>> /\ cash' = cash - SumOver(f)
        /\ pos' = [c \in Candidates |-> IF c \in left THEN NoPosition ELSE pos[c]]
    BY <1>11 DEF Settled
  <2>3. Books
    <3> HIDE DEF left
    <3> QED BY <1>2, <2>2 DEF MoneyShape
  <2> HIDE DEF f, left
  <2>4. SumOver(f) \in Int
    BY <2>1, SumInt
  <2> QED BY <2>2, <2>3, <2>4 DEF MoneyShape
<1> QED BY <1>3, <1>4, <1>5, <1>6, <1>7, <1>8, <1>9, <1>10, <1>11 DEF Next

\* Rows are written for the candidate that is decided, and for no other.
LEMMA RowsKeeps ==
  ASSUME CashInv, SizingInv, [Next]_vars
  PROVE  RowsShape'
<1> USE DEF CashInv
<1>0. PlanShape
  BY DEF SizingInv, HealthyInv
<1>1. CASE StartCycle
  <2>1. PICK conf \in SUBSET {c \in Candidates : rows[c] = NoRow} : queue' \in SetToSeqs(conf)
    BY <1>1 DEF StartCycle, Rankings
  <2>2. \A i \in DOMAIN queue' : queue'[i] \in conf
    BY <2>1 DEF SetToSeqs
  <2>3. \A i \in DOMAIN queue' : queue'[i] \in Candidates /\ rows[queue'[i]].cycle = 0
    BY <2>1, <2>2 DEF NoRow
  <2>4. cycle' = cycle + 1 /\ UNCHANGED <<rows, mode>> /\ cycle \in Nat
    BY <1>1 DEF StartCycle, store, MoneyShape
  <2> QED BY <2>3, <2>4 DEF RowsShape
<1>2. CASE Propose \/ SubmitInVain \/ SubmitFills
  <2>1. /\ pc = "reconcile" /\ queue # <<>> /\ UNCHANGED <<cycle, mode>>
        /\ \E filled \in BOOLEAN : Recorded(filled)
    BY <1>2 DEF Propose, SubmitInVain, SubmitFills, At, Done
  <2>2. Candidate \in Candidates /\ cycle \in Nat
    BY <2>1, TailOfQueue DEF Candidate, MoneyShape
  <2>3. Notional \in Int
    BY <2>1 DEF Notional, MoneyShape, Planning
  <2>4. PICK filled \in BOOLEAN :
          rows' = [rows EXCEPT ![Candidate] =
                     [cycle |-> cycle, notional |-> Notional, filled |-> filled]]
    BY <2>1 DEF Recorded
  <2>5. /\ DOMAIN rows' = Candidates
        /\ \A c \in Candidates : rows'[c].cycle \in 0 .. cycle /\ rows'[c].notional \in Int
        /\ \A c \in Candidates : c # Candidate => rows'[c] = rows[c]
    BY <2>2, <2>3, <2>4 DEF RowsShape
  <2>6. ASSUME mode' = "dry_run", NEW i \in DOMAIN queue'
        PROVE  rows'[queue'[i]].cycle # cycle
    <3>1. queue' = Tail(queue)
      BY <1>2, <2>1, <2>6 DEF Propose, SubmitInVain, SubmitFills, Done
    <3>2. queue'[i] # Candidate /\ \E j \in DOMAIN queue : queue'[i] = queue[j]
      BY <2>1, <2>6, <3>1, TailOfQueue DEF Candidate
    <3>3. PICK j \in DOMAIN queue : queue'[i] = queue[j]
      BY <3>2
    <3>4. queue[j] \in Candidates /\ rows[queue[j]].cycle # cycle
      BY <2>1, <2>6 DEF QueueShape, RowsShape
    <3> QED BY <2>5, <3>2, <3>3, <3>4
  <2> QED BY <2>1, <2>5, <2>6 DEF RowsShape
<1>3. CASE \/ ForeignRests \/ ForeignFills \/ ForeignCanceled \/ EquityMoves \/ ReadAccount
           \/ ReadPositions \/ ReadOrders \/ Unusable \/ Admit \/ EndCycle \/ Screen
           \/ ScreenedOut \/ Size \/ SizedOut \/ Unreachable \/ Recheck \/ Flatten \/ Retarget
           \/ Crash \/ Settled \/ UNCHANGED vars
  <2>1. UNCHANGED <<rows, cycle, mode>>
    BY <1>3 DEF ForeignRests, ForeignFills, ForeignCanceled, Trade, EquityMoves, ReadAccount,
       ReadPositions, ReadOrders, Reading, Unusable, Admit, EndCycle, Screen, ScreenedOut, Skip,
       Size, SizedOut, Unreachable, Recheck, Flatten, Retarget, Crash, Settled, Done, Goto,
       store, vars
  <2>2. ASSUME NEW i \in DOMAIN queue', mode = "dry_run"
        PROVE  rows[queue'[i]].cycle # cycle
    <3>1. CASE StartCycle
      <4>1. cycle' = cycle + 1 /\ cycle \in Nat
        BY <3>1 DEF StartCycle, MoneyShape
      <4> QED BY <2>1, <4>1
    <3>2. CASE \A k \in DOMAIN queue' : \E j \in DOMAIN queue : queue'[k] = queue[j]
      BY <2>2, <3>2 DEF RowsShape
    <3> QED BY <1>0, <3>1, <3>2, QueueStep
  <2> QED BY <2>1, <2>2 DEF RowsShape
<1> QED BY <1>1, <1>2, <1>3 DEF Next

\* What is committed and what has been proposed grow by the same.
LEMMA ProposeCommits ==
  ASSUME CashInv, Propose
  PROVE  committed' \in Nat /\ committed' = SumOver(Proposed')
<1> USE DEF CashInv
<1>1. /\ pc = "reconcile" /\ queue # <<>> /\ mode = "dry_run" /\ UNCHANGED <<cycle, mode>>
      /\ committed' = committed + Notional
      /\ rows' = [rows EXCEPT ![Candidate] =
                    [cycle |-> cycle, notional |-> Notional, filled |-> FALSE]]
  BY DEF Propose, At, Done, Recorded, Commits
<1>2. Notional \in Nat
  BY <1>1 DEF Notional, MoneyShape, Planning
<1>3. Candidate \in Candidates /\ \E j \in DOMAIN queue : Candidate = queue[j]
  BY <1>1, TailOfQueue DEF Candidate
<1>4. rows[Candidate].cycle # cycle
  BY <1>1, <1>3 DEF RowsShape
<1>5. /\ ProposedNow = {c \in Candidates : rows[c].cycle = cycle}
      /\ ProposedNow' = {c \in Candidates : rows'[c].cycle = cycle}
  BY <1>1 DEF ProposedNow
<1> DEFINE S == ProposedNow'
<1>6. Candidate \in S /\ ProposedNow = S \ {Candidate}
  BY <1>1, <1>3, <1>4, <1>5 DEF RowsShape
<1>7. /\ Proposed' = [c \in S |-> rows'[c].notional]
      /\ Proposed = [c \in ProposedNow |-> rows[c].notional]
  BY DEF Proposed
<1>8. \A c \in Candidates : IF c = Candidate THEN rows'[c].notional = Notional
                                             ELSE rows'[c].notional = rows[c].notional
  BY <1>1, <1>3 DEF RowsShape
<1>9. \A c \in Candidates : rows[c].notional \in Int
  BY DEF RowsShape
<1>10. S \subseteq Candidates /\ IsFiniteSet(S)
  BY <1>5, FS_Subset
<1> HIDE DEF S
<1>11. /\ Proposed' \in [S -> Int] /\ Proposed'[Candidate] = Notional
       /\ Proposed \in [S \ {Candidate} -> Int]
       /\ \A c \in S \ {Candidate} : Proposed[c] = Proposed'[c]
  BY <1>2, <1>3, <1>6, <1>7, <1>8, <1>9, <1>10
<1>12. SumOver(Proposed') = Notional + SumOver(Proposed)
  <2> DEFINE now == Proposed'
             before == Proposed
             x == Candidate
  <2>1. /\ IsFiniteSet(S) /\ x \in S
        /\ now \in [S -> Int] /\ before \in [S \ {x} -> Int]
        /\ \A c \in S \ {x} : before[c] = now[c]
        /\ now[x] = Notional
    BY <1>6, <1>10, <1>11
  <2> HIDE DEF now, before, x
  <2>2. SumOver(now) = now[x] + SumOver(before)
    BY ONLY <2>1, SumRest
  <2> QED BY <2>1, <2>2 DEF now, before
<1>13. committed = SumOver(Proposed) /\ committed \in Nat
  BY <1>1 DEF CommittedIsProposed
<1> QED BY <1>1, <1>2, <1>12, <1>13

LEMMA CommittedKeeps ==
  ASSUME CashInv, SizingInv, [Next]_vars
  PROVE  CommittedIsProposed'
<1> USE DEF CashInv
<1>1. CASE Propose
  BY <1>1, ProposeCommits DEF CommittedIsProposed
<1>2. CASE StartCycle
  <2>1. cycle' = cycle + 1 /\ UNCHANGED <<rows, mode>> /\ committed' = 0 /\ cycle \in Nat
    BY <1>2 DEF StartCycle, store, MoneyShape
  <2>2. ProposedNow' = {}
    BY <2>1 DEF ProposedNow, RowsShape
  <2>3. DOMAIN (Proposed') = {}
    BY <2>2 DEF Proposed
  <2>4. SumOver(Proposed') = 0
    BY <2>3, SumEmpty
  <2> QED BY <2>1, <2>4 DEF CommittedIsProposed
<1>3. CASE Crash
  BY <1>3 DEF Crash, Goto, CommittedIsProposed
<1>4. CASE SubmitInVain \/ Flatten \/ Retarget
  <2>1. /\ pc \in Planning /\ mode # "dry_run" /\ mode' = mode
        /\ committed' = committed \/ committed' = committed + Notional
           \/ committed' = committed + 0
    BY <1>4 DEF SubmitInVain, Flatten, Retarget, Done, At, Planning, FillsAreReal
  <2>2. Notional \in Nat
    BY <2>1 DEF Notional, MoneyShape
  <2> QED BY <2>1, <2>2 DEF CommittedIsProposed
<1>5. CASE SubmitFills
  BY <1>5 DEF SubmitFills, CommittedIsProposed
<1>6. CASE \/ ForeignRests \/ ForeignFills \/ ForeignCanceled \/ EquityMoves \/ ReadAccount
           \/ ReadPositions \/ ReadOrders \/ Unusable \/ Admit \/ EndCycle \/ Screen
           \/ ScreenedOut \/ Size \/ SizedOut \/ Unreachable \/ Recheck
           \/ Settled \/ UNCHANGED vars
  <2>1. UNCHANGED <<rows, cycle, mode>> /\ (pc' # "idle" => pc # "idle")
    BY <1>6 DEF ForeignRests, ForeignFills, ForeignCanceled, Trade, EquityMoves, ReadAccount,
       ReadPositions, ReadOrders, Reading, Unusable, Admit, EndCycle, Screen, ScreenedOut, Skip,
       Size, SizedOut, Unreachable, Recheck, Settled, Done, Goto, At, store, vars
  <2>2. committed' = committed \/ committed' = committed + 0
    BY <1>6 DEF ForeignRests, ForeignFills, ForeignCanceled, Trade, EquityMoves, ReadAccount,
       ReadPositions, ReadOrders, Reading, Unusable, Admit, EndCycle, Screen, ScreenedOut, Skip,
       Size, SizedOut, Unreachable, Recheck, Settled, Done, Commits, vars
  <2>3. Proposed' = Proposed
    BY <2>1 DEF Proposed, ProposedNow
  <2> HIDE DEF CashInv
  <2>4. committed' = committed
    BY <2>2 DEF CommittedIsProposed, CashInv
  <2> QED BY <2>1, <2>3, <2>4 DEF CommittedIsProposed, CashInv
<1> QED BY <1>1, <1>2, <1>3, <1>4, <1>5, <1>6 DEF Next

LEMMA FillsAreRealKeeps ==
  ASSUME FillsAreReal, PlanShape, [Next]_vars
  PROVE  FillsAreReal'
<1>1. CASE SubmitFills
  BY <1>1 DEF SubmitFills, FillsAreReal
<1>2. CASE Recheck
  BY <1>2 DEF Recheck, At, Goto, FillsAreReal
<1>3. CASE \/ ForeignRests \/ ForeignFills \/ ForeignCanceled \/ EquityMoves \/ Settled
           \/ UNCHANGED vars
  BY <1>3 DEF ForeignRests, ForeignFills, ForeignCanceled, EquityMoves, Settled, Trade, vars,
     FillsAreReal
<1>4. CASE \/ StartCycle \/ ReadAccount \/ ReadPositions \/ ReadOrders \/ Unusable \/ Admit
           \/ EndCycle \/ Screen \/ ScreenedOut \/ Size \/ SizedOut \/ Unreachable \/ Propose
           \/ SubmitInVain \/ Flatten \/ Retarget \/ Crash
  <2>1. pc' \notin {"filled", "flatten", "retarget"}
    BY <1>4 DEF StartCycle, ReadAccount, ReadPositions, ReadOrders, Reading, Unusable, Admit,
       EndCycle, Screen, ScreenedOut, Skip, Size, SizedOut, Unreachable, Propose, SubmitInVain,
       Flatten, Retarget, Crash, Done, Goto, PlanShape
  <2> QED BY <2>1 DEF FillsAreReal
<1> QED BY <1>1, <1>2, <1>3, <1>4 DEF Next

\* Nothing comes between a size and its order but others' business.
LEMMA SizeFitsKeeps ==
  ASSUME CashInv, SizingInv, [Next]_vars
  PROVE  SizeFits'
<1> USE DEF CashInv
<1>1. CASE Size
  <2>1. /\ plan' = Planned /\ UNCHANGED <<snap, committed>> /\ Candidate \in Candidates
        /\ Planned.qty > 0 /\ plan.quote \in Int /\ Planned.quote > 0
    BY <1>1, TailOfQueue
       DEF Size, Worthwhile, ValidBracket, At, Candidate, SizingInv, HealthyInv, PlanShape
  <2> DEFINE stop == RoundStop(Confirmation[Candidate].stop, Direction)
  <2>2. stop \in Int
    BY <2>1, RoundDownBelow, RoundUpAbove DEF RoundStop
  <2>3. Planned.qty = SizeOrder(plan.quote, stop) /\ Planned.quote = plan.quote
    BY DEF Planned
  <2> HIDE DEF stop
  <2>4. SizeOrder(plan.quote, stop) * plan.quote <= AvailableBuyingPower - committed
    BY <2>1, <2>2, <2>3, SizeCosts DEF CommittedIsProposed
  <2>5. Notional' = SizeOrder(plan.quote, stop) * plan.quote
    BY <2>1, <2>3 DEF Notional
  <2>6. AvailableBuyingPower' = AvailableBuyingPower
    BY <2>1 DEF AvailableBuyingPower, GrossExposure, PendingOpeningNotional
  <2> QED BY <2>1, <2>4, <2>5, <2>6 DEF SizeFits
<1>2. CASE \/ ForeignRests \/ ForeignFills \/ ForeignCanceled \/ EquityMoves \/ Settled
           \/ UNCHANGED vars
  <2>1. UNCHANGED <<pc, snap, committed, plan>>
    BY <1>2 DEF ForeignRests, ForeignFills, ForeignCanceled, EquityMoves, Settled, Trade, vars
  <2> QED BY <2>1 DEF SizeFits, Notional, AvailableBuyingPower, GrossExposure,
             PendingOpeningNotional
<1>3. CASE \/ StartCycle \/ ReadAccount \/ ReadPositions \/ ReadOrders \/ Unusable \/ Admit
           \/ EndCycle \/ Screen \/ ScreenedOut \/ SizedOut \/ Unreachable \/ Propose
           \/ SubmitInVain \/ SubmitFills \/ Recheck \/ Flatten \/ Retarget \/ Crash
  <2>1. pc' # "reconcile"
    BY <1>3 DEF StartCycle, ReadAccount, ReadPositions, ReadOrders, Reading, Unusable, Admit,
       EndCycle, Screen, ScreenedOut, Skip, SizedOut, Unreachable, Propose, SubmitInVain,
       SubmitFills, Recheck, Flatten, Retarget, Crash, Done, Goto, SizingInv, HealthyInv, PlanShape
  <2> QED BY <2>1 DEF SizeFits
<1> QED BY <1>1, <1>2, <1>3 DEF Next

LEMMA InitCashInv ==
  ASSUME Init
  PROVE  CashInv
<1>1. DOMAIN NoSnapshot = {"equity", "cash", "nonMarginable", "positions", "orders"}
      /\ NoSnapshot.equity = 0 /\ NoSnapshot.cash = 0 /\ NoSnapshot.nonMarginable = 0
      /\ NoSnapshot.positions = [s \in {} |-> 0] /\ NoSnapshot.orders = [s \in {} |-> 0]
      /\ Amounts([s \in {} |-> 0])
  BY FS_EmptySet DEF NoSnapshot, Amounts
<1>2. SnapShape
  BY <1>1 DEF Init, SnapShape
<1>3. MoneyShape
  BY DEF Init, MoneyShape, NoPosition, Planning
<1>4. QueueShape /\ ReadingFor /\ RowsShape
  BY DEF Init, QueueShape, ReadingFor, RowsShape, NoRow
<1>5. CommittedIsProposed /\ FillsAreReal /\ SizeFits
  BY DEF Init, CommittedIsProposed, FillsAreReal, SizeFits
<1> QED BY <1>2, <1>3, <1>4, <1>5 DEF CashInv

LEMMA NextCashInv ==
  ASSUME CashInv, SizingInv, [Next]_vars
  PROVE  CashInv'
<1>0. PlanShape /\ PositionShape /\ committed \in Nat
  BY DEF SizingInv, HealthyInv, CashInv, CommittedIsProposed
<1>1. MoneyShape' /\ SnapShape'
  BY <1>0, MoneyKeeps, SnapKeeps DEF CashInv
<1>2. QueueShape' /\ ReadingFor'
  BY <1>0, QueueStep, ReadingForKeeps DEF CashInv
<1>3. RowsShape' /\ CommittedIsProposed' /\ SizeFits'
  BY RowsKeeps, CommittedKeeps, SizeFitsKeeps
<1>4. FillsAreReal'
  BY <1>0, FillsAreRealKeeps DEF CashInv
<1> QED BY <1>1, <1>2, <1>3, <1>4 DEF CashInv

\* What the invariant says of the cash.
LEMMA CashInvUsedOnce ==
  ASSUME CashInv
  PROVE  CashUsedOnce
<1>1. SUFFICES ASSUME At("reconcile")
               PROVE  SumOver(Proposed) + Notional <= AvailableBuyingPower
  BY DEF CashUsedOnce, Proposed
<1>2. /\ pc = "reconcile" /\ committed \in Nat
      /\ Notional <= AvailableBuyingPower - committed
      /\ mode = "dry_run" => committed = SumOver(Proposed)
  BY <1>1 DEF CashInv, CommittedIsProposed, SizeFits, At
<1>3. Notional \in Nat
  BY <1>2 DEF CashInv, MoneyShape, Planning, Notional
<1>4. AvailableBuyingPower \in Nat
  BY AvailableInt DEF CashInv
<1>5. CASE mode = "dry_run"
  BY <1>2, <1>3, <1>4, <1>5
<1>6. CASE mode # "dry_run"
  <2>1. DOMAIN Proposed = {}
    BY <1>6 DEF Proposed, ProposedNow
  <2>2. SumOver(Proposed) = 0
    BY <2>1, SumEmpty
  <2> QED BY <1>2, <1>3, <1>4, <2>2
<1> QED BY <1>5, <1>6

(***************************************************************************)
(* The theorems.                                                            *)
(***************************************************************************)
\* The inductive invariant holds in every reachable state.
THEOREM SizingInvariant == Spec => []SizingInv
<1>1. Init => SizingInv
  BY InitSizingInv
<1>2. SizingInv /\ [Next]_vars => SizingInv'
  BY NextSizingInv
<1> QED BY <1>1, <1>2, PTL DEF Spec

\* Whatever a fill slips by and however the equity moves meanwhile, a position on
\* record as filled and protected risks no more than its share of the equity read
\* after the fill (run_slc_live.py:1931-1940, 2025).  Its row says open before that.
THEOREM HealthyPositionsWithinRisk == Spec => []HealthyWithinRisk
<1>1. SizingInv => HealthyWithinRisk
  BY DEF SizingInv, HealthyInv
<1> QED BY <1>1, SizingInvariant, PTL

\* At any ticks, the target of a position on record as filled and protected is on
\* the right side of its fill and at least twice as far from it as its stop.
THEOREM HealthyPositionsPayTwice == Spec => []HealthyPaysTwice
<1>1. SizingInv => HealthyPaysTwice
  BY DEF SizingInv, HealthyInv
<1> QED BY <1>1, SizingInvariant, PTL

\* However many candidates, foreign orders and cycles there are, and however
\* the account moves between the three reads of a snapshot: together, what a
\* dry run proposes in one cycle fits in the buying power its last size was
\* taken from, and so does a real order by itself.
THEOREM CycleSpendsItsCashOnce == Spec => []CashUsedOnce
<1>1. Init => CashInv
  BY InitCashInv
<1>2. CashInv /\ SizingInv /\ [Next]_vars => CashInv'
  BY NextCashInv
<1>3. CashInv => CashUsedOnce
  BY CashInvUsedOnce
<1> QED BY <1>1, <1>2, <1>3, SizingInvariant, PTL DEF Spec
=============================================================================
