------------------------------ MODULE BotProofs ------------------------------
(***************************************************************************)
(* The main bot for any symbols, approvals, units and misfortunes: types;   *)
(* then, where passes do not overlap, BotInv, and from it what the rows and *)
(* the evaluation's report say of the account.                              *)
(***************************************************************************)
EXTENDS BotInvariants, FiniteSetTheorems, WellFoundedInduction, TLAPS

(***************************************************************************)
(* Sums.  The fold behind SumOver is a recursive function on the subsets of *)
(* its domain, chosen among those that satisfy its equation.  That there is *)
(* one is shown by smallest counterexamples, and so is what follows from    *)
(* the equation.                                                            *)
(***************************************************************************)
\* Of some subsets of a finite set one holds no other.
LEMMA SmallestSet ==
  ASSUME NEW S, IsFiniteSet(S), NEW T \in SUBSET (SUBSET S), T # {}
  PROVE  \E x \in T : \A y \in T : y \subseteq x => y = x
<1>1. T \subseteq FiniteSubsetsOf(S)
  BY FS_Subset DEF FiniteSubsetsOf
<1>2. PICK x \in T : \A y \in T : ~(<<y, x>> \in StrictSubsetOrdering(S))
  BY <1>1, FS_StrictSubsetOrderingWellFounded, WFMin
<1> QED BY <1>2 DEF StrictSubsetOrdering

Pick(s) == CHOOSE x \in s : TRUE

LEMMA PickIn == ASSUME NEW s, s # {} PROVE Pick(s) \in s
BY DEF Pick

\* g is what the fold of f calculates on the subsets of S.
SumsOf(S, f, g) ==
  g = [s \in SUBSET S |-> IF s = {} THEN 0 ELSE f[Pick(s)] + g[s \ {Pick(s)}]]

\* Two of them agree where both are defined.
LEMMA SumsUnique ==
  ASSUME NEW S, NEW T, NEW f, NEW g, SumsOf(S, f, g), NEW h, SumsOf(T, f, h),
         NEW U, IsFiniteSet(U), U \subseteq S, U \subseteq T
  PROVE  g[U] = h[U]
<1> DEFINE Bad == {s \in SUBSET U : g[s] # h[s]}
<1>1. SUFFICES ASSUME Bad # {} PROVE FALSE
  OBVIOUS
<1>2. PICK s \in Bad : \A t \in Bad : t \subseteq s => t = s
  <2>1. Bad \in SUBSET (SUBSET U)
    OBVIOUS
  <2> HIDE DEF Bad
  <2> QED BY <1>1, <2>1, SmallestSet
<1> DEFINE x == Pick(s)
<1>3. s # {} => x \in s
  BY PickIn
<1>4. s \in SUBSET S /\ s \in SUBSET T
  OBVIOUS
<1>5. /\ g[s] = IF s = {} THEN 0 ELSE f[x] + g[s \ {x}]
      /\ h[s] = IF s = {} THEN 0 ELSE f[x] + h[s \ {x}]
  BY <1>4 DEF SumsOf
<1> HIDE DEF x
<1>6. s # {} => s \ {x} \in SUBSET U /\ s \ {x} # s
  BY <1>3
<1>7. s # {} => g[s \ {x}] = h[s \ {x}]
  BY <1>2, <1>3, <1>6
<1> QED BY <1>5, <1>7

\* There is one.
LEMMA SumsExist ==
  ASSUME NEW S, IsFiniteSet(S), NEW f
  PROVE  \E g : SumsOf(S, f, g)
<1> DEFINE Bad == {s \in SUBSET S : ~\E g : SumsOf(s, f, g)}
<1>1. SUFFICES ASSUME Bad # {} PROVE FALSE
  OBVIOUS
<1>2. PICK s \in Bad : \A t \in Bad : t \subseteq s => t = s
  <2>1. Bad \in SUBSET (SUBSET S)
    OBVIOUS
  <2> HIDE DEF Bad
  <2> QED BY <1>1, <2>1, SmallestSet
<1> DEFINE G(t) == CHOOSE g : SumsOf(t, f, g)
           V(t) == G(t)[t]
           h == [t \in SUBSET s |-> IF t = {} THEN 0 ELSE f[Pick(t)] + V(t \ {Pick(t)})]
<1>3. ASSUME NEW t \in SUBSET s, t # s PROVE SumsOf(t, f, G(t))
  <2>1. \E g : SumsOf(t, f, g)
    BY <1>2, <1>3
  <2> QED BY <2>1
<1>4. ASSUME NEW t \in SUBSET s, t # s PROVE h[t] = V(t)
  <2>1. SumsOf(t, f, G(t))
    BY <1>3, <1>4
  <2>2. V(t) = IF t = {} THEN 0 ELSE f[Pick(t)] + G(t)[t \ {Pick(t)}]
    <3> HIDE DEF G
    <3> QED BY <2>1 DEF SumsOf
  <2>3. ASSUME t # {} PROVE G(t)[t \ {Pick(t)}] = V(t \ {Pick(t)})
    <3> DEFINE u == t \ {Pick(t)}
    <3>1. u \in SUBSET s /\ u # s /\ u \subseteq t
      BY <1>4
    <3>2. SumsOf(u, f, G(u))
      BY <1>3, <3>1
    <3>3. IsFiniteSet(u)
      <4>1. u \in SUBSET S
        BY <3>1
      <4> QED BY <4>1, FS_Subset
    <3> HIDE DEF G, u
    <3>4. G(t)[u] = G(u)[u]
      BY <2>1, <3>1, <3>2, <3>3, SumsUnique
    <3> QED BY <3>4 DEF u
  <2> HIDE DEF V, G
  <2>4. h[t] = IF t = {} THEN 0 ELSE f[Pick(t)] + V(t \ {Pick(t)})
    OBVIOUS
  <2> QED BY <2>2, <2>3, <2>4
<1>5. SumsOf(s, f, h)
  <2>1. ASSUME NEW t \in SUBSET s, t # {} PROVE V(t \ {Pick(t)}) = h[t \ {Pick(t)}]
    <3>1. t \ {Pick(t)} \in SUBSET s /\ t \ {Pick(t)} # s
      BY <2>1, PickIn
    <3> HIDE DEF h, V
    <3> QED BY <1>4, <3>1
  <2> DEFINE k == h
  <2>2. h = [t \in SUBSET s |-> IF t = {} THEN 0 ELSE f[Pick(t)] + k[t \ {Pick(t)}]]
    <3> HIDE DEF V, k
    <3> QED BY <2>1 DEF k
  <2> HIDE DEF h
  <2> QED BY <2>2 DEF SumsOf
<1> HIDE DEF h
<1> QED BY <1>2, <1>5

\* A sum of natural numbers is one; no term exceeds it; a term that is
\* alone is all of it.
Sums(f, n) ==
  /\ n \in Nat
  /\ \A x \in DOMAIN f : f[x] <= n
  /\ \A x \in DOMAIN f : (\A y \in DOMAIN f \ {x} : f[y] = 0) => n = f[x]
  /\ (\A x \in DOMAIN f : f[x] = 0) => n = 0

LEMMA SumSums ==
  ASSUME NEW S, IsFiniteSet(S), NEW f \in [S -> Nat]
  PROVE  Sums(f, SumOver(f))
<1> DEFINE g == CHOOSE g : SumsOf(S, f, g)
<1>1. SumOver(f) = g[S]
  BY DEF SumOver, MapThenSumSet, MapThenFoldSet, SumsOf, Pick
<1>2. SumsOf(S, f, g)
  BY SumsExist
<1> HIDE DEF g
<1> DEFINE Good(s) ==
             /\ g[s] \in Nat
             /\ \A x \in s : f[x] <= g[s]
             /\ \A x \in s : (\A y \in s \ {x} : f[y] = 0) => g[s] = f[x]
             /\ (\A x \in s : f[x] = 0) => g[s] = 0
           Bad == {s \in SUBSET S : ~Good(s)}
<1>3. SUFFICES ASSUME Bad # {} PROVE FALSE
  <2>1. Good(S)
    BY <1>3
  <2> QED BY <1>1, <2>1 DEF Sums
<1>4. PICK s \in Bad : \A t \in Bad : t \subseteq s => t = s
  <2>1. Bad \in SUBSET (SUBSET S)
    OBVIOUS
  <2> HIDE DEF Bad
  <2> QED BY <1>3, <2>1, SmallestSet
<1>5. s \in SUBSET S /\ ~Good(s)
  OBVIOUS
<1>6. s # {}
  BY <1>2, <1>5 DEF SumsOf
<1> DEFINE p == Pick(s)
           r == s \ {p}
<1>7. p \in s /\ g[s] = f[p] + g[r]
  BY <1>2, <1>5, <1>6, PickIn DEF SumsOf
<1> HIDE DEF p
<1>8. Good(r)
  <2>1. r \in SUBSET S /\ r \subseteq s /\ r # s
    BY <1>7
  <2> HIDE DEF r, Good
  <2> QED BY <1>4, <2>1
<1>9. f[p] \in Nat /\ g[r] \in Nat /\ g[s] \in Nat /\ \A x \in s : f[x] \in Nat
  BY <1>5, <1>7, <1>8
<1>10. ASSUME NEW x \in s PROVE f[x] <= g[s]
  <2>1. x = p \/ f[x] <= g[r]
    BY <1>8
  <2> HIDE DEF r
  <2> QED BY <1>7, <1>9, <2>1
<1>11. ASSUME NEW x \in s, \A y \in s \ {x} : f[y] = 0 PROVE g[s] = f[x]
  <2>1. CASE x = p
    <3>1. g[r] = 0
      BY <1>8, <1>11, <2>1
    <3> HIDE DEF r
    <3> QED BY <1>7, <1>9, <2>1, <3>1
  <2>2. CASE x # p
    <3>1. g[r] = f[x] /\ f[p] = 0
      BY <1>7, <1>8, <1>11, <2>2
    <3> HIDE DEF r
    <3> QED BY <1>7, <1>9, <3>1
  <2> QED BY <2>1, <2>2
<1>12. ASSUME \A x \in s : f[x] = 0 PROVE g[s] = 0
  <2>1. g[r] = 0 /\ f[p] = 0
    BY <1>7, <1>8, <1>12
  <2> QED BY <1>7, <2>1
<1> QED BY <1>5, <1>9, <1>10, <1>11, <1>12

USE BotBrokerAssumption, MaxOpenAssumption

(***************************************************************************)
(* Types.  Passes may overlap here.  A pass acts on approvals that name a   *)
(* symbol, and no lot has sold more than it bought.                         *)
(***************************************************************************)
Named == {a \in Approvals : app[a] # "none"}
Acts == Labels \ {"idle", "read", "pending", "recon", "review", "risk", "exec"}

RowsTyped ==
  /\ app \in [Approvals -> Symbols \union {"none"}]
  /\ row \in [Approvals -> RowStatus]
  /\ pos \in [Approvals -> PosStatus]
  /\ shr \in [Approvals -> 0 .. Qty]
  /\ trd \in [Approvals -> 0 .. 2]
  /\ latest \subseteq Named
  /\ \A a \in Approvals : pos[a] # "none" => a \in Named
LocalsTyped ==
  /\ pc \in [Passes -> Labels]
  /\ mode \in [Passes -> {"daily", "monitor", "rerun"}]
  /\ snap \in [Passes -> [Symbols -> Nat]]
  /\ work \in [Passes -> SUBSET Named]
  /\ rec \in [Passes -> SUBSET Symbols]
  /\ cur \in [Passes -> Named \union {NoLot}]
  /\ saw \in [Passes -> 0 .. Qty]
  /\ exc \in [Passes -> {"none", "unclear", "refused"}]
  /\ \A p \in Passes : pc[p] \in Acts => cur[p] \in Named
AccountTyped == AccountTypeOK /\ \A a \in Approvals : sold[a] <= got[a]
TypeInv == AccountTyped /\ RowsTyped /\ LocalsTyped

LEMMA TypesFollow == TypeInv => TypeOK
BY DEF TypeInv, AccountTyped, TypeOK, PassTypeOK, RowsTyped, LocalsTyped, Named

LEMMA ActsNamed ==
  ASSUME RowsTyped, LocalsTyped, NEW p \in Passes, pc[p] \in Acts
  PROVE  cur[p] \in Approvals /\ app[cur[p]] \in Symbols
BY DEF RowsTyped, LocalsTyped, Named

LEMMA LotsFinite ==
  ASSUME NEW S \in SUBSET Approvals
  PROVE  IsFiniteSet(S)
<1>1. IsFiniteSet(Approvals)
  BY FS_Interval DEF Approvals
<1> QED BY <1>1, FS_Subset

LEMMA LotsOf == \A s : Lots(s) \subseteq Approvals
BY DEF Lots

\* What a symbol holds, and what its stops reserve, are sums of its lots.
LEMMA HeldSums ==
  ASSUME AccountTyped, NEW s
  PROVE  Sums([a \in Lots(s) |-> Left(a)], HeldOf(s))
<1>1. [a \in Lots(s) |-> Left(a)] \in [Lots(s) -> Nat]
  BY LotsOf DEF Left, AccountTyped, AccountTypeOK
<1> QED BY <1>1, LotsOf, LotsFinite, SumSums DEF HeldOf

LEMMA ReservedSums ==
  ASSUME AccountTyped, NEW s
  PROVE  Sums([a \in Lots(s) |-> prot[a]], Reserved(s))
<1>1. [a \in Lots(s) |-> prot[a]] \in [Lots(s) -> Nat]
  BY LotsOf DEF AccountTyped, AccountTypeOK
<1> QED BY <1>1, LotsOf, LotsFinite, SumSums DEF Reserved

LEMMA HeldNat ==
  ASSUME AccountTyped
  PROVE  /\ \A s : HeldOf(s) \in Nat
         /\ Holdings \in [Symbols -> Nat]
BY HeldSums DEF Sums, Holdings

LEMMA NobodyTyped == Nobody \in [Symbols -> Nat]
BY DEF Nobody

\* How a pass moves on.
LEMMA LoopTyped ==
  ASSUME LocalsTyped, UNCHANGED app, NEW p \in Passes, NEW l \in Labels \ Acts,
         NEW w \in SUBSET Named, NEW v \in [Symbols -> Nat], Loop(p, l, w, v)
  PROVE  LocalsTyped'
BY DEF LocalsTyped, Loop, Named

LEMMA LoopHeads ==
  /\ {"idle", "read", "pending", "recon", "review", "risk", "exec"} \subseteq Labels \ Acts
  /\ Acts = {"p_close", "c_cancel", "c_close", "c_poll", "c_db", "s_send", "s_lookup",
             "s_record", "k_buy", "k_lookup", "k_poll", "k_cancel", "k_settle",
             "k_stop", "k_flat", "k_flatpoll", "k_record", "fail"}
  /\ Acts \subseteq Labels
BY DEF Labels, Acts

LEMMA BackTyped ==
  ASSUME LocalsTyped, UNCHANGED app, NEW p \in Passes
  PROVE  /\ \A l \in Labels \ Acts : Back(p, l) => LocalsTyped'
         /\ End(p) \/ Leave(p) => LocalsTyped'
<1>1. ASSUME NEW l \in Labels \ Acts, Back(p, l) PROVE LocalsTyped'
  <2>1. work[p] \in SUBSET Named /\ snap[p] \in [Symbols -> Nat]
    BY DEF LocalsTyped
  <2> QED BY <1>1, <2>1, LoopTyped DEF Back
<1>2. End(p) => LocalsTyped'
  BY LoopHeads, LoopTyped, NobodyTyped DEF End
<1>3. Leave(p) => LocalsTyped'
  BY <1>2, LoopHeads, LoopTyped, NobodyTyped DEF Leave
<1> QED BY <1>1, <1>2, <1>3

LEMMA MoveTyped ==
  ASSUME LocalsTyped, UNCHANGED app, NEW p \in Passes, pc[p] \in Acts, NEW l \in Labels
  PROVE  /\ To(p, l) => LocalsTyped'
         /\ \A q \in 0 .. Qty : Saw(p, l, q) => LocalsTyped'
         /\ \A e \in {"none", "unclear", "refused"} : Raise(p, l, e) => LocalsTyped'
<1>1. ASSUME To(p, l) PROVE LocalsTyped'
  BY <1>1 DEF To, LocalsTyped, Named
<1>2. ASSUME NEW q \in 0 .. Qty, Saw(p, l, q) PROVE LocalsTyped'
  BY <1>2 DEF Saw, LocalsTyped, Named
<1>3. ASSUME NEW e \in {"none", "unclear", "refused"}, Raise(p, l, e) PROVE LocalsTyped'
  BY <1>3 DEF Raise, LocalsTyped, Named
<1> QED BY <1>1, <1>2, <1>3

LEMMA TakeTyped ==
  ASSUME LocalsTyped, UNCHANGED app, NEW p \in Passes, NEW a \in work[p]
  PROVE  /\ \A l \in Labels : Take(p, a, l) => LocalsTyped'
         /\ Drop(p, a) => LocalsTyped'
<1>1. ASSUME NEW l \in Labels, Take(p, a, l) PROVE LocalsTyped'
  BY <1>1 DEF Take, LocalsTyped, Named
<1>2. ASSUME Drop(p, a) PROVE LocalsTyped'
  BY <1>2 DEF Drop, LocalsTyped, Named
<1> QED BY <1>1, <1>2

\* What leaves the account, the rows or the locals alone keeps their types.
LEMMA QuietTyped ==
  /\ AccountTyped /\ AccountQuiet /\ (NoFault \/ \E k : Fault(k)) => AccountTyped'
  /\ RowsTyped /\ DbQuiet /\ RiskQuiet => RowsTyped'
  /\ LocalsTyped /\ UNCHANGED <<app, localVars>> => LocalsTyped'
<1>1. AccountTyped /\ AccountQuiet /\ (NoFault \/ \E k : Fault(k)) => AccountTyped'
  BY DEF AccountTyped, AccountTypeOK, AccountQuiet, accountVars, NoFault, Fault
<1>2. RowsTyped /\ DbQuiet /\ RiskQuiet => RowsTyped'
  BY DEF RowsTyped, DbQuiet, RiskQuiet, dbVars, Named
<1>3. LocalsTyped /\ UNCHANGED <<app, localVars>> => LocalsTyped'
  BY DEF LocalsTyped, localVars, Named
<1> QED BY <1>1, <1>2, <1>3

\* The account's own moves and the calls that change it.
LEMMA CallTyped ==
  ASSUME AccountTyped, RowsTyped, NoFault \/ \E k : Fault(k)
  PROVE  /\ \A a \in Approvals : AcceptBuy(a) \/ CancelBuy(a) => AccountTyped'
         /\ \A a \in Approvals, q \in 0 .. Qty : AcceptStop(a, q) => AccountTyped'
         /\ \A s \in Symbols : CancelAll(s) \/ AcceptClose(s) => AccountTyped'
<1> USE DEF AccountTyped, AccountTypeOK, EntStatus, NoFault, Fault
<1>1. ASSUME NEW a \in Approvals, AcceptBuy(a) \/ CancelBuy(a) PROVE AccountTyped'
  BY <1>1 DEF AcceptBuy, CancelBuy
<1>2. ASSUME NEW a \in Approvals, NEW q \in 0 .. Qty, AcceptStop(a, q)
      PROVE  AccountTyped'
  BY <1>2 DEF AcceptStop
<1>3. ASSUME NEW s \in Symbols, CancelAll(s) \/ AcceptClose(s) PROVE AccountTyped'
  <2>1. CASE CancelAll(s)
    <3>1. ent' \in [Approvals -> EntStatus] /\ prot' \in [Approvals -> 0 .. Qty]
      BY <2>1 DEF CancelAll
    <3> QED BY <2>1, <3>1 DEF CancelAll
  <2>2. CASE AcceptClose(s)
    BY <2>2 DEF AcceptClose
  <2> QED BY <1>3, <2>1, <2>2
<1> QED BY <1>1, <1>2, <1>3

LEMMA MarketTyped ==
  ASSUME AccountTyped, RowsTyped, MarketMoves
  PROVE  AccountTyped'
<1> USE DEF AccountTyped, AccountTypeOK, EntStatus, NoFault, Fault, Left
<1>1. ASSUME NEW a \in Approvals, Fills(a) PROVE AccountTyped'
  BY <1>1 DEF Fills
<1>2. ASSUME NEW a \in Approvals, FillsPartly(a) PROVE AccountTyped'
  BY <1>2 DEF FillsPartly
<1>3. ASSUME NEW a \in Approvals, Lapses(a) PROVE AccountTyped'
  BY <1>3 DEF Lapses
<1>4. ASSUME NEW a \in Approvals, Exits(a) PROVE AccountTyped'
  <2>1. PICK b \in Lots(app[a]) :
          Left(b) >= prot[a] /\ sold' = [sold EXCEPT ![b] = @ + prot[a]]
    BY <1>4 DEF Exits
  <2>2. b \in Approvals
    BY LotsOf
  <2> QED BY <1>4, <2>1, <2>2 DEF Exits
<1>5. ASSUME NEW s \in Symbols, CloseFills(s) PROVE AccountTyped'
  BY <1>5 DEF CloseFills
<1> QED BY <1>1, <1>2, <1>3, <1>4, <1>5 DEF MarketMoves

\* Of some lots one is the last, of two quantities one is the less.
LEMMA SomeMax ==
  ASSUME NEW S \in SUBSET Approvals, S # {}
  PROVE  Max(S) \in S /\ \A a \in S : a <= Max(S)
<1> DEFINE Later(a) == {b \in S : a < b}
           T == {Later(a) : a \in S}
<1>1. PICK t \in T : \A u \in T : u \subseteq t => u = t
  <2>1. T \in SUBSET (SUBSET S) /\ T # {} /\ IsFiniteSet(S)
    <3>1. T # {}
      <4>1. PICK a \in S : TRUE
        OBVIOUS
      <4>2. Later(a) \in T
        OBVIOUS
      <4> QED BY <4>2
    <3>2. T \in SUBSET (SUBSET S)
      OBVIOUS
    <3> QED BY <3>1, <3>2, LotsFinite
  <2> HIDE DEF T
  <2> QED BY <2>1, SmallestSet
<1>2. PICK a \in S : t = Later(a)
  OBVIOUS
<1>3. ASSUME NEW b \in S, a < b PROVE FALSE
  <2>1. a \in Int /\ \A c \in S : c \in Int
    BY DEF Approvals
  <2>2. \A c \in Later(b) : c \in Later(a)
    BY <1>3, <2>1
  <2>3. b \in Later(a) /\ b \notin Later(b)
    BY <1>3, <2>1
  <2>4. Later(b) \in T /\ Later(b) \subseteq t
    BY <1>2, <2>2
  <2> HIDE DEF T
  <2>5. Later(b) = t
    BY <1>1, <2>4
  <2> QED BY <1>2, <2>3, <2>5
<1>4. \A b \in S : a >= b
  BY <1>3 DEF Approvals
<1> QED BY <1>4 DEF Max

LEMMA LessOfTwo ==
  ASSUME NEW m \in Nat, NEW n \in Nat
  PROVE  Min({m, n}) = IF m <= n THEN m ELSE n
BY DEF Min

\* A closed lot is a named one.
LEMMA CloseTyped ==
  ASSUME RowsTyped, RiskQuiet, NEW a \in Named, CloseInDb(a)
  PROVE  RowsTyped'
BY DEF RowsTyped, RiskQuiet, CloseInDb, PosStatus, Named

LEMMA MonitorTyped ==
  ASSUME TypeInv, NEW p \in Passes, MonitorStep(p)
  PROVE  TypeInv'
<1> USE LoopHeads DEF TypeInv
<1>0. UNCHANGED app
  BY DEF MonitorStep, ReadPositions, ResolvePending, BookPendingExit, Promote,
         ReconcileLot, FinishReconcile, Review, CancelResting, ClosePosition, PollFlat,
         BookClose, RiskQuiet
<1>a. /\ pc[p] \in Acts => cur[p] \in Named /\ cur[p] \in Approvals /\ app[cur[p]] \in Symbols
      /\ work[p] \subseteq Named /\ snap[p] \in [Symbols -> Nat]
  BY ActsNamed DEF LocalsTyped
<1>b. \A a \in Approvals : pos[a] # "none" => a \in Named
  BY DEF RowsTyped
<1>1. CASE ReadPositions(p)
  <2>1. AccountTyped' /\ RowsTyped'
    BY <1>1, QuietTyped DEF ReadPositions
  <2> DEFINE w == {a \in Pending : app[a] \in Stocks /\ HeldOf(app[a]) = 0}
  <2>2. w \subseteq Named
    BY <1>b DEF Pending
  <2>3. Loop(p, "pending", w, Holdings) \/ Leave(p)
    BY <1>1 DEF ReadPositions
  <2> HIDE DEF w
  <2> QED BY <1>0, <2>1, <2>2, <2>3, HeldNat, LoopTyped, BackTyped
<1>2. CASE ResolvePending(p)
  <2>1. PICK a \in work[p] :
          ResolveExited(p, a) \/ ResolveCanceled(p, a) \/ LeavePending(p, a)
    BY <1>2 DEF ResolvePending
  <2>2. AccountTyped'
    BY <1>2, <2>1, QuietTyped DEF ResolvePending, ResolveExited, ResolveCanceled, LeavePending
  <2>3. LocalsTyped'
    BY <1>0, <2>1, TakeTyped DEF ResolveExited, ResolveCanceled, LeavePending
  <2>4. a \in Named /\ a \in Approvals
    BY <1>a DEF Named
  <2>5. RowsTyped'
    <3>1. CASE ResolveExited(p, a)
      BY <1>2, <2>4, <3>1 DEF ResolvePending, ResolveExited, RowsTyped, RowStatus, Named,
         RiskQuiet, AccountTyped, AccountTypeOK
    <3>2. CASE ResolveCanceled(p, a)
      BY <1>2, <2>4, <3>2 DEF ResolvePending, ResolveCanceled, RowsTyped, RowStatus,
         PosStatus, Named, RiskQuiet
    <3>3. CASE LeavePending(p, a)
      BY <1>2, <3>3, QuietTyped DEF ResolvePending, LeavePending
    <3> QED BY <2>1, <3>1, <3>2, <3>3
  <2> QED BY <2>2, <2>3, <2>5
<1>3. CASE BookPendingExit(p)
  BY <1>0, <1>3, <1>a, QuietTyped, CloseTyped, BackTyped DEF BookPendingExit
<1>4. CASE Promote(p)
  <2>1. AccountTyped'
    BY <1>4, QuietTyped DEF Promote
  <2>2. RowsTyped'
    BY <1>4 DEF Promote, RowsTyped, PosStatus, Named, RiskQuiet, Pending
  <2> DEFINE open == {a \in Approvals : pos'[a] = "open"}
  <2>3. open \subseteq Named
    BY <2>2, <1>0 DEF RowsTyped, Named
  <2>4. Leave(p) \/ Loop(p, "recon", open, snap[p])
    BY <1>4 DEF Promote
  <2> HIDE DEF open
  <2> QED BY <1>0, <1>a, <2>1, <2>2, <2>3, <2>4, LoopTyped, BackTyped
<1>5. CASE ReconcileLot(p)
  <2> DEFINE a == Max(Surplus(p))
  <2>1. /\ CloseInDb(a) /\ work' = [work EXCEPT ![p] = @ \ {a}]
        /\ rec' = [rec EXCEPT ![p] = @ \union {app[a]}]
    BY <1>5 DEF ReconcileLot
  <2>2. a \in work[p]
    <3>1. Surplus(p) # {} /\ Surplus(p) \subseteq work[p]
      BY <1>5 DEF ReconcileLot, Surplus
    <3> QED BY <1>a, <3>1, SomeMax DEF Named
  <2> HIDE DEF a
  <2>3. a \in Named /\ app[a] \in Symbols
    BY <1>a, <2>2 DEF Named, RowsTyped
  <2>4. AccountTyped' /\ RowsTyped'
    BY <1>5, <2>1, <2>3, QuietTyped, CloseTyped DEF ReconcileLot
  <2>5. LocalsTyped'
    BY <1>0, <1>5, <2>1, <2>3 DEF ReconcileLot, LocalsTyped, Named
  <2> QED BY <2>4, <2>5
<1>6. CASE FinishReconcile(p)
  <2>1. StillOpen(p) \subseteq Named
    BY <1>a DEF StillOpen
  <2> QED BY <1>0, <1>6, <2>1, QuietTyped, LoopTyped, BackTyped, NobodyTyped
          DEF FinishReconcile
<1>7. CASE Review(p)
  BY <1>0, <1>7, QuietTyped, TakeTyped, BackTyped DEF Review
<1>8. CASE CancelResting(p)
  BY <1>0, <1>8, <1>a, QuietTyped, CallTyped, MoveTyped, BackTyped
     DEF CancelResting, GiveUp
<1>9. CASE ClosePosition(p)
  BY <1>0, <1>9, <1>a, QuietTyped, CallTyped, MoveTyped, BackTyped
     DEF ClosePosition, GiveUp
<1>10. CASE PollFlat(p)
  BY <1>0, <1>10, <1>a, QuietTyped, MoveTyped, BackTyped DEF PollFlat, GiveUp
<1>11. CASE BookClose(p)
  BY <1>0, <1>11, <1>a, QuietTyped, CloseTyped, BackTyped DEF BookClose, GiveUp
<1> QED BY <1>1, <1>2, <1>3, <1>4, <1>5, <1>6, <1>7, <1>8, <1>9, <1>10, <1>11
        DEF MonitorStep

\* What the two refusals of a message may leave in exc.
LEMMA Excuses == {"refused", "unclear"} \subseteq {"none", "unclear", "refused"}
OBVIOUS

LEMMA ApproveTyped ==
  ASSUME RowsTyped, LocalsTyped, DbQuiet, NEW p \in Passes, NEW S \in SUBSET Symbols,
         ApproveAll(p, S)
  PROVE  RowsTyped' /\ LocalsTyped'
<1>0. PICK T \in SUBSET Unused :
        /\ \E f \in Bijection(T, S) :
             app' = [a \in Approvals |-> IF a \in T THEN f[a] ELSE app[a]]
        /\ latest' = T /\ Loop(p, "exec", T, Nobody)
  BY DEF ApproveAll
<1>1. PICK f \in Bijection(T, S) :
        /\ app' = [a \in Approvals |-> IF a \in T THEN f[a] ELSE app[a]]
        /\ latest' = T /\ Loop(p, "exec", T, Nobody)
  BY <1>0
<1>2. f \in [T -> S] /\ T \subseteq Approvals
  BY DEF Bijection, Injection, Unused
<1>3. app' \in [Approvals -> Symbols \union {"none"}]
  BY <1>1, <1>2 DEF RowsTyped
<1>4. T \subseteq Named'
  BY <1>1, <1>2 DEF Named
<1>5. Named \subseteq Named'
  BY <1>1, <1>2 DEF Named, Unused
<1>6. RowsTyped'
  BY <1>1, <1>3, <1>4, <1>5 DEF RowsTyped, DbQuiet, dbVars
<1>7. LocalsTyped'
  BY <1>1, <1>4, <1>5, LoopHeads, NobodyTyped DEF LocalsTyped, Loop
<1> QED BY <1>6, <1>7

LEMMA ExecutionTyped ==
  ASSUME TypeInv, NEW p \in Passes, ExecutionStep(p)
  PROVE  TypeInv'
<1> USE LoopHeads, Excuses DEF TypeInv
<1>0. ~RiskRun(p) => UNCHANGED app
  BY DEF ExecutionStep, RiskRun, ExecuteNext, RecordFailure, SendBracket, LookUpBracket,
         RecordBracket, BuyCrypto, LookUpBuy, PollBuy, CancelRemainder, SettleBuy,
         PlaceStop, RecordCrypto, Record, Flatten, PollFlattened, RiskQuiet
<1>a. pc[p] \in Acts => cur[p] \in Named /\ cur[p] \in Approvals /\ app[cur[p]] \in Symbols
  BY ActsNamed DEF LocalsTyped
<1>b. /\ work[p] \subseteq Named /\ saw[p] \in 0 .. Qty /\ 0 \in 0 .. Qty
      /\ \A a \in Approvals : got[a] \in 0 .. Qty
  BY DEF LocalsTyped, AccountTyped, AccountTypeOK
<1>1. CASE RiskRun(p)
  <2>1. AccountTyped'
    BY <1>1, QuietTyped DEF RiskRun
  <2>2. CASE \E S \in SUBSET Symbols : ApproveAll(p, S)
    BY <1>1, <2>1, <2>2, ApproveTyped DEF RiskRun
  <2>3. CASE Loop(p, "exec", {}, Nobody) /\ RiskQuiet
    BY <1>1, <2>1, <2>3, QuietTyped, LoopTyped, NobodyTyped DEF RiskRun, RiskQuiet
  <2> QED BY <1>1, <2>2, <2>3 DEF RiskRun
<1>2. CASE ExecuteNext(p)
  BY <1>0, <1>2, QuietTyped, TakeTyped, BackTyped DEF ExecuteNext, RiskRun
<1>3. ASSUME NEW l \in Acts, NEW status \in {"open", "pending"}, NEW q \in 0 .. Qty,
             Record(p, l, status, q)
      PROVE  TypeInv'
  <2>1. AccountTyped' /\ UNCHANGED app
    BY <1>3, QuietTyped DEF Record, RiskQuiet
  <2>2. RowsTyped'
    BY <1>3, <1>a DEF Record, RowsTyped, RowStatus, PosStatus, Named, RiskQuiet
  <2>3. LocalsTyped'
    BY <1>3, <2>1, BackTyped DEF Record
  <2> QED BY <2>1, <2>2, <2>3
<1>4. CASE RecordBracket(p)
  BY <1>3, <1>4 DEF RecordBracket
<1>5. CASE RecordCrypto(p)
  BY <1>3, <1>5, <1>b DEF RecordCrypto
<1>6. CASE RecordFailure(p)
  <2>1. AccountTyped' /\ UNCHANGED app
    BY <1>6, QuietTyped DEF RecordFailure, RiskQuiet
  <2>2. RowsTyped'
    BY <1>6 DEF RecordFailure, RowsTyped, RowStatus, Named, RiskQuiet
  <2>3. LocalsTyped'
    BY <1>6, <2>1, BackTyped DEF RecordFailure
  <2> QED BY <2>1, <2>2, <2>3
<1>7. CASE SendBracket(p)
  BY <1>0, <1>7, <1>a, <1>b, QuietTyped, CallTyped, MoveTyped DEF SendBracket, RiskRun
<1>8. CASE LookUpBracket(p)
  BY <1>0, <1>8, <1>a, <1>b, QuietTyped, MoveTyped DEF LookUpBracket, RiskRun
<1>9. CASE BuyCrypto(p)
  BY <1>0, <1>9, <1>a, <1>b, QuietTyped, CallTyped, MoveTyped DEF BuyCrypto, RiskRun
<1>10. CASE LookUpBuy(p)
  BY <1>0, <1>10, <1>a, <1>b, QuietTyped, MoveTyped DEF LookUpBuy, RiskRun
<1>11. CASE PollBuy(p)
  BY <1>0, <1>11, <1>a, <1>b, QuietTyped, MoveTyped DEF PollBuy, RiskRun
<1>12. CASE CancelRemainder(p)
  BY <1>0, <1>12, <1>a, <1>b, QuietTyped, CallTyped, MoveTyped DEF CancelRemainder, RiskRun
<1>13. CASE SettleBuy(p)
  BY <1>0, <1>13, <1>a, <1>b, QuietTyped, MoveTyped DEF SettleBuy, RiskRun
<1>14. CASE PlaceStop(p)
  <2> DEFINE q == Min({saw[p], HeldOf(app[cur[p]])})
  <2>1. q \in 0 .. Qty
    BY <1>b, HeldNat, LessOfTwo
  <2>2. \/ AccountQuiet /\ Unprotected(p) /\ NoFault
        \/ AcceptStop(cur[p], q) /\ Saw(p, "k_record", q) /\ NoFault
        \/ AcceptStop(cur[p], q) /\ Unprotected(p) /\ Fault("net")
    BY <1>14 DEF PlaceStop
  <2> HIDE DEF q
  <2> QED BY <1>0, <1>14, <1>a, <2>1, <2>2, QuietTyped, CallTyped, MoveTyped
          DEF PlaceStop, RiskRun, Unprotected
<1>15. CASE Flatten(p)
  BY <1>0, <1>15, <1>a, <1>b, QuietTyped, CallTyped, MoveTyped DEF Flatten, RiskRun
<1>16. CASE PollFlattened(p)
  BY <1>0, <1>16, <1>a, <1>b, QuietTyped, MoveTyped DEF PollFlattened, RiskRun
<1> QED BY <1>1, <1>2, <1>4, <1>5, <1>6, <1>7, <1>8, <1>9, <1>10, <1>11, <1>12, <1>13,
           <1>14, <1>15, <1>16 DEF ExecutionStep

LEMMA StepTyped ==
  ASSUME TypeInv, [Next]_vars
  PROVE  TypeInv'
<1> USE DEF TypeInv
<1>1. CASE Market
  BY <1>1, MarketTyped, QuietTyped DEF Market, RiskQuiet
<1>2. ASSUME NEW p \in Passes, PassStep(p) PROVE TypeInv'
  BY <1>2, MonitorTyped, ExecutionTyped DEF PassStep
<1>3. ASSUME NEW p \in Passes, Crash(p) PROVE TypeInv'
  BY <1>3, QuietTyped, BackTyped DEF Crash, RiskQuiet
<1>4. ASSUME NEW p \in Passes, NEW m \in {"daily", "monitor", "rerun"}, StartPass(p, m)
      PROVE  TypeInv'
  <2>1. AccountTyped' /\ RowsTyped'
    BY <1>4, QuietTyped DEF StartPass
  <2>2. LocalsTyped'
    BY <1>4, LoopHeads DEF StartPass, LocalsTyped, RowsTyped, RiskQuiet, Named
  <2> QED BY <2>1, <2>2
<1>5. CASE UNCHANGED vars
  <2>1. AccountTyped' /\ RowsTyped'
    BY <1>5, QuietTyped DEF vars, AccountQuiet, NoFault, DbQuiet, RiskQuiet
  <2> QED BY <1>5, <2>1, QuietTyped DEF vars
<1> QED BY <1>1, <1>2, <1>3, <1>4, <1>5 DEF Next

LEMMA InitTyped == Init => TypeInv
BY DEF Init, AccountInit, PassInit, TypeInv, AccountTyped, AccountTypeOK, RowsTyped,
       LocalsTyped, EntStatus, RowStatus, PosStatus, Labels, Acts, Nobody, Named

\* Rows, account and locals keep their types, with any number of passes side by side.
THEOREM BotTypes == Spec => []TypeOK
<1>1. Spec => []TypeInv
  BY InitTyped, StepTyped, PTL DEF Spec
<1> QED BY <1>1, TypesFollow, PTL

(***************************************************************************)
(* The newest lot of a symbol.  Of a symbol that is in order the account    *)
(* holds and protects that one only, so the sums are its terms.             *)
(***************************************************************************)
LEMMA OneNewest ==
  ASSUME NEW a \in Approvals, NEW b \in Approvals, app[a] = app[b],
         ~Superseded(a), ~Superseded(b)
  PROVE  a = b
<1>1. a \in Lots(app[b]) /\ b \in Lots(app[a])
  BY DEF Lots
<1> QED BY <1>1 DEF Superseded, Approvals

LEMMA HeldNewest ==
  ASSUME AccountTyped, LotsHold, NEW a \in Approvals, ~Superseded(a), Plain(a)
  PROVE  HeldOf(app[a]) = Left(a) /\ Reserved(app[a]) = prot[a]
<1> DEFINE S == Lots(app[a])
<1>1. a \in S /\ S \subseteq Approvals
  BY DEF Lots
<1>2. ASSUME NEW b \in S \ {a} PROVE Left(b) = 0 /\ prot[b] = 0
  <2>1. b \in Approvals /\ app[b] = app[a]
    BY DEF Lots
  <2>2. Superseded(b) /\ Plain(b)
    BY <2>1, <1>2, OneNewest DEF Plain
  <2>3. sold[b] <= got[b] /\ got[b] \in Nat /\ sold[b] \in Nat /\ prot[b] \in Nat
    BY <2>1 DEF AccountTyped, AccountTypeOK
  <2>4. LotBooks(b) /\ LotRows(b)
    BY <2>1 DEF LotsHold
  <2> QED BY <2>2, <2>3, <2>4 DEF LotBooks, Exposed, Left, LotRows, Plain
<1> DEFINE f == [b \in S |-> Left(b)]
           e == [b \in S |-> prot[b]]
<1>3. Sums(f, HeldOf(app[a])) /\ Sums(e, Reserved(app[a]))
  BY HeldSums, ReservedSums
<1>4. DOMAIN f = S /\ DOMAIN e = S /\ f[a] = Left(a) /\ e[a] = prot[a]
  BY <1>1
<1>5. \A b \in S \ {a} : f[b] = 0 /\ e[b] = 0
  BY <1>2
<1> HIDE DEF f, e, S
<1> QED BY <1>1, <1>3, <1>4, <1>5 DEF Sums

\* A symbol of which nothing is held has no lot left; one of which something
\* is held has one; and what is not reserved is under no stop.
LEMMA HeldParts ==
  ASSUME AccountTyped, NEW s
  PROVE  /\ HeldOf(s) = 0 => \A a \in Lots(s) : Left(a) = 0
         /\ HeldOf(s) > 0 => \E a \in Lots(s) : Left(a) > 0
         /\ Reserved(s) = 0 => \A a \in Lots(s) : prot[a] = 0
         /\ \A a \in Lots(s) : prot[a] <= Reserved(s)
         /\ HeldOf(s) \in Nat /\ Reserved(s) \in Nat
<1> DEFINE f == [b \in Lots(s) |-> Left(b)]
           e == [b \in Lots(s) |-> prot[b]]
<1>1. Sums(f, HeldOf(s)) /\ Sums(e, Reserved(s))
  BY HeldSums, ReservedSums
<1>2. DOMAIN f = Lots(s) /\ DOMAIN e = Lots(s)
  OBVIOUS
<1>3. \A a \in Lots(s) : f[a] = Left(a) /\ e[a] = prot[a]
  OBVIOUS
<1>4. \A a \in Lots(s) : Left(a) \in Nat /\ prot[a] \in Nat
  BY LotsOf DEF AccountTyped, AccountTypeOK, Left
<1> HIDE DEF f, e
<1> QED BY <1>1, <1>2, <1>3, <1>4 DEF Sums

(***************************************************************************)
(* What no step but an approval changes: which lots are superseded, and     *)
(* what is out of order stays so.                                           *)
(***************************************************************************)
Steady ==
  /\ UNCHANGED app /\ faults \subseteq faults'
  /\ \A a \in Approvals :
       /\ ent[a] # "none" => ent'[a] # "none"
       /\ Superseded(a) /\ pos[a] = "none" => pos'[a] = "none"

LEMMA SteadyKeeps ==
  ASSUME Steady
  PROVE  /\ \A s : Lots(s)' = Lots(s) /\ (Tidy(s)' => Tidy(s))
         /\ \A a \in Approvals : /\ Superseded(a)' <=> Superseded(a)
                                 /\ Plain(a)' => Plain(a)
         /\ Whole' => Whole
<1>1. \A s : Lots(s)' = Lots(s)
  BY DEF Steady, Lots
<1>2. \A a \in Approvals : Superseded(a)' <=> Superseded(a)
  BY <1>1 DEF Steady, Superseded
<1>3. \A s : Tidy(s)' => Tidy(s)
  BY <1>1, <1>2, LotsOf DEF Steady, Tidy
<1>4. Whole' => Whole
  BY DEF Steady, Whole
<1> QED BY <1>1, <1>2, <1>3, <1>4 DEF Plain, Steady

LEMMA FaultsGrow ==
  ASSUME NoFault \/ \E k : Fault(k)
  PROVE  faults \subseteq faults' /\ (Whole' => Whole)
BY DEF NoFault, Fault, Whole

(***************************************************************************)
(* The account.  An entry never goes back, and what is gone stays gone.     *)
(***************************************************************************)
Onward ==
  \A a \in Approvals :
    /\ ent[a] # "none" => ent'[a] # "none"
    /\ ent[a] = "filled" => ent'[a] = "filled"
    /\ a \in hit => a \in hit'
    /\ Plain(a) /\ Gone(a) => Gone(a)'

RowsQuiet == DbQuiet /\ RiskQuiet

\* Enough that no lot of a symbol in order is disturbed.
LEMMA AccountKeeps ==
  ASSUME TypeInv, LotsHold, RowsQuiet, faults \subseteq faults',
         \A a \in Approvals : ent[a] # "none" => ent'[a] # "none",
         Steady => /\ \A a \in Approvals : LotRows(a)' /\ LotBooks(a)'
                   /\ ClosingHeld' /\ Onward
  PROVE  LotsHold' /\ Onward /\ Steady
<1>1. Steady
  BY DEF Steady, RowsQuiet, DbQuiet, RiskQuiet, dbVars
<1>2. ApprovalOrder'
  <2>1. latest \subseteq Approvals /\ UNCHANGED <<app, latest>>
    BY DEF TypeInv, RowsTyped, Named, RowsQuiet, RiskQuiet
  <2>2. \A a \in latest : ~Superseded(a)'
    BY <1>1, <2>1, SteadyKeeps DEF LotsHold, ApprovalOrder
  <2> QED BY <2>1, <2>2 DEF LotsHold, ApprovalOrder
<1> QED BY <1>1, <1>2 DEF LotsHold

LEMMA FillKeeps ==
  ASSUME TypeInv, LotsHold, RowsQuiet, NEW a \in Approvals, Fills(a)
  PROVE  LotsHold' /\ Onward /\ Steady
<1> USE DEF TypeInv, AccountTyped, AccountTypeOK
<1>1. faults \subseteq faults' /\ \A b \in Approvals : ent[b] # "none" => ent'[b] # "none"
  BY DEF Fills, NoFault
<1>2. SUFFICES ASSUME Steady
               PROVE  /\ \A b \in Approvals : LotRows(b)' /\ LotBooks(b)'
                      /\ ClosingHeld' /\ Onward
  BY <1>1, AccountKeeps
<1>3. /\ \A b \in Approvals : /\ Superseded(b)' <=> Superseded(b)
                              /\ Plain(b)' => Plain(b)
      /\ \A t : Lots(t)' = Lots(t) /\ (Tidy(t)' => Tidy(t))
      /\ UNCHANGED <<app, row, pos, shr, trd, faults, sold, hit, closing>>
      /\ Whole' => Whole
  BY <1>2, SteadyKeeps DEF Steady, RowsQuiet, DbQuiet, dbVars, Fills, NoFault
<1>4. \A b \in Approvals : LotRows(b) /\ LotBooks(b)
  BY DEF LotsHold
<1>5. Plain(a) => app[a] \notin closing
  <2> SUFFICES ASSUME Plain(a), app[a] \in closing PROVE FALSE
    OBVIOUS
  <2>1. PICK b \in Lots(app[a]) : Left(b) > 0
    BY DEF LotsHold, ClosingHeld, Plain
  <2>2. b \in Approvals /\ app[b] = app[a] /\ Plain(b)
    BY DEF Lots, Plain
  <2>3. ~Superseded(a) /\ ~Superseded(b)
    BY <1>4, <2>1, <2>2 DEF LotBooks, Exposed, Fills
  <2>4. a = b
    BY <2>2, <2>3, OneNewest
  <2> QED BY <1>4, <2>1, <2>4 DEF LotRows, Fills, Plain, Left
<1> HIDE DEF Superseded, Plain, Tidy
<1>6. ASSUME NEW b \in Approvals PROVE LotRows(b)'
  BY <1>3, <1>4 DEF Fills, LotRows
<1>7. ASSUME NEW b \in Approvals PROVE LotBooks(b)'
  <2>1. CASE b = a
    BY <1>3, <1>4, <1>5, <2>1 DEF Fills, LotBooks, LotRows, Exposed, Gone, Plain, Left
  <2>2. CASE b # a
    BY <1>3, <1>4, <2>2 DEF Fills, LotBooks, Exposed, Gone, Left
  <2> QED BY <2>1, <2>2
<1>8. ClosingHeld'
  <2> SUFFICES ASSUME NEW s \in closing, Whole, Tidy(s)
               PROVE  \E b \in Lots(s) : Left(b)' > 0
    BY <1>3 DEF ClosingHeld
  <2>1. PICK b \in Lots(s) : Left(b) > 0
    BY DEF LotsHold, ClosingHeld
  <2>2. Left(b)' > 0
    BY <1>3, <2>1, LotsOf DEF Left, Fills
  <2> QED BY <2>2
<1>9. Onward
  BY <1>3 DEF Onward, Fills, Gone
<1> QED BY <1>6, <1>7, <1>8, <1>9

LEMMA PartKeeps ==
  ASSUME TypeInv, LotsHold, RowsQuiet, NEW a \in Approvals, FillsPartly(a)
  PROVE  LotsHold' /\ Onward /\ Steady
<1> USE DEF TypeInv, AccountTyped, AccountTypeOK
<1>1. faults \subseteq faults' /\ \A b \in Approvals : ent[b] # "none" => ent'[b] # "none"
  BY DEF FillsPartly, NoFault, Fault
<1>2. SUFFICES ASSUME Steady
               PROVE  /\ \A b \in Approvals : LotRows(b)' /\ LotBooks(b)'
                      /\ ClosingHeld' /\ Onward
  BY <1>1, AccountKeeps
<1>3. /\ \A b \in Approvals : /\ Superseded(b)' <=> Superseded(b)
                              /\ Plain(b)' => Plain(b)
      /\ \A t : Lots(t)' = Lots(t) /\ (Tidy(t)' => Tidy(t))
      /\ UNCHANGED <<app, row, pos, shr, trd, ent, sold, prot, hit, closing>>
      /\ Whole' => Whole
  BY <1>2, SteadyKeeps DEF Steady, RowsQuiet, DbQuiet, dbVars, FillsPartly, NoFault
<1>4. \A b \in Approvals : LotRows(b) /\ LotBooks(b)
  BY DEF LotsHold
<1>5. ~Whole'
  BY DEF FillsPartly, Fault, Whole
<1> HIDE DEF Superseded, Plain, Tidy
<1>6. ASSUME NEW b \in Approvals PROVE LotRows(b)'
  BY <1>3, <1>4, <1>5 DEF FillsPartly, LotRows
<1>7. ASSUME NEW b \in Approvals PROVE LotBooks(b)'
  BY <1>5 DEF LotBooks, Plain
<1>8. ClosingHeld'
  BY <1>5 DEF ClosingHeld
<1>9. Onward
  BY <1>3, <1>4 DEF Onward, FillsPartly, Gone, LotBooks, LotRows, Plain
<1> QED BY <1>6, <1>7, <1>8, <1>9

LEMMA LapseKeeps ==
  ASSUME TypeInv, LotsHold, RowsQuiet, NEW a \in Approvals, Lapses(a)
  PROVE  LotsHold' /\ Onward /\ Steady
<1> USE DEF TypeInv, AccountTyped, AccountTypeOK
<1>1. faults \subseteq faults' /\ \A b \in Approvals : ent[b] # "none" => ent'[b] # "none"
  BY DEF Lapses, NoFault, Fault
<1>2. SUFFICES ASSUME Steady
               PROVE  /\ \A b \in Approvals : LotRows(b)' /\ LotBooks(b)'
                      /\ ClosingHeld' /\ Onward
  BY <1>1, AccountKeeps
<1>3. /\ \A b \in Approvals : /\ Superseded(b)' <=> Superseded(b)
                              /\ Plain(b)' => Plain(b)
      /\ \A t : Lots(t)' = Lots(t) /\ (Tidy(t)' => Tidy(t))
      /\ UNCHANGED <<app, row, pos, shr, trd, got, sold, prot, hit, closing, faults>>
      /\ Whole' => Whole
  BY <1>2, SteadyKeeps DEF Steady, RowsQuiet, DbQuiet, dbVars, Lapses, NoFault
<1>4. \A b \in Approvals : LotRows(b) /\ LotBooks(b)
  BY DEF LotsHold
<1> HIDE DEF Superseded, Plain, Tidy
<1>6. ASSUME NEW b \in Approvals PROVE LotRows(b)'
  BY <1>3, <1>4 DEF Lapses, LotRows
<1>7. ASSUME NEW b \in Approvals PROVE LotBooks(b)'
  BY <1>3, <1>4 DEF Lapses, LotBooks, LotRows, Exposed, Gone, Left
<1>8. ClosingHeld'
  <2> SUFFICES ASSUME NEW t \in closing', Whole, Tidy(t)
               PROVE  \E b \in Lots(t) : Left(b)' > 0
    BY <1>3 DEF ClosingHeld
  <2>1. PICK b \in Lots(t) : Left(b) > 0
    BY DEF LotsHold, ClosingHeld, Lapses
  <2>2. Left(b)' > 0
    BY <1>3, <1>4, <2>1, LotsOf DEF Left, Lapses
  <2> QED BY <2>2
<1>9. Onward
  BY <1>3 DEF Onward, Lapses, Gone
<1> QED BY <1>6, <1>7, <1>8, <1>9

LEMMA ExitKeeps ==
  ASSUME TypeInv, LotsHold, RowsQuiet, NEW a \in Approvals, Exits(a)
  PROVE  LotsHold' /\ Onward /\ Steady
<1> USE DEF TypeInv, AccountTyped, AccountTypeOK
<1>1. faults \subseteq faults' /\ \A b \in Approvals : ent[b] # "none" => ent'[b] # "none"
  BY DEF Exits, NoFault, Fault
<1>2. SUFFICES ASSUME Steady
               PROVE  /\ \A b \in Approvals : LotRows(b)' /\ LotBooks(b)'
                      /\ ClosingHeld' /\ Onward
  BY <1>1, AccountKeeps
<1>3. /\ \A b \in Approvals : /\ Superseded(b)' <=> Superseded(b)
                              /\ Plain(b)' => Plain(b)
      /\ \A t : Lots(t)' = Lots(t) /\ (Tidy(t)' => Tidy(t))
      /\ UNCHANGED <<app, row, pos, shr, trd, ent, got, closing, faults>>
      /\ Whole' => Whole
  BY <1>2, SteadyKeeps DEF Steady, RowsQuiet, DbQuiet, dbVars, Exits, NoFault
<1>4. \A b \in Approvals : LotRows(b) /\ LotBooks(b)
  BY DEF LotsHold
<1>5. PICK c \in Lots(app[a]) :
        /\ Left(c) >= prot[a] /\ (c = a \/ Left(a) < prot[a])
        /\ sold' = [sold EXCEPT ![c] = @ + prot[a]]
  BY DEF Exits
<1>a. c \in Approvals /\ app[c] = app[a] /\ (Plain(c) <=> Plain(a)) /\ prot[a] > 0
  BY <1>5 DEF Lots, Plain, Exits
<1>b. Plain(a) => c = a /\ prot[a] = Qty /\ Left(a) = Qty /\ ent[a] = "filled"
                  /\ app[a] \notin closing
  BY <1>4, <1>5, <1>a DEF LotBooks, LotRows, Plain, Left
<1> HIDE DEF Superseded, Plain, Tidy
<1>6. ASSUME NEW b \in Approvals PROVE LotRows(b)'
  <2>1. ent[a] # "none"
    BY <1>4, <1>a DEF LotRows
  <2> QED BY <1>3, <1>4, <1>5, <1>a, <2>1 DEF Exits, LotRows, Left
<1>7. ASSUME NEW b \in Approvals PROVE LotBooks(b)'
  <2>1. CASE b = a
    BY <1>3, <1>4, <1>5, <1>a, <1>b, <2>1 DEF Exits, LotBooks, LotRows, Exposed, Gone, Left
  <2>2. CASE b # a
    <3>1. Plain(b) => b # c
      BY <1>a, <1>b, <2>2
    <3>2. Plain(b) => sold'[b] = sold[b] /\ prot'[b] = prot[b] /\ (b \in hit' <=> b \in hit)
      BY <1>5, <2>2, <3>1 DEF Exits
    <3> QED BY <1>3, <1>4, <3>2 DEF LotBooks, Exposed, Gone, Left
  <2> QED BY <2>1, <2>2
<1>8. ClosingHeld'
  <2> SUFFICES ASSUME NEW t \in closing, Whole, Tidy(t)
               PROVE  \E b \in Lots(t) : Left(b)' > 0
    BY <1>3 DEF ClosingHeld
  <2>1. PICK b \in Lots(t) : Left(b) > 0
    BY DEF LotsHold, ClosingHeld
  <2>2. b \in Approvals /\ app[b] = t
    BY DEF Lots
  <2>3. b # c
    BY <1>a, <1>b, <2>2 DEF Plain
  <2>4. Left(b)' > 0
    BY <1>3, <1>5, <2>1, <2>3 DEF Left
  <2> QED BY <2>4
<1>9. Onward
  <2> SUFFICES ASSUME NEW b \in Approvals, Plain(b), Gone(b) PROVE Gone(b)'
    BY <1>3 DEF Onward, Exits
  <2>1. b # c
    BY <1>a, <1>b, <1>4 DEF Gone, Left
  <2> QED BY <1>3, <1>5, <2>1 DEF Gone
<1> QED BY <1>6, <1>7, <1>8, <1>9

LEMMA CloseFillKeeps ==
  ASSUME TypeInv, LotsHold, RowsQuiet, NEW s \in Symbols, CloseFills(s)
  PROVE  LotsHold' /\ Onward /\ Steady
<1> USE DEF TypeInv, AccountTyped, AccountTypeOK
<1>1. faults \subseteq faults' /\ \A b \in Approvals : ent[b] # "none" => ent'[b] # "none"
  BY DEF CloseFills, NoFault, Fault
<1>2. SUFFICES ASSUME Steady
               PROVE  /\ \A b \in Approvals : LotRows(b)' /\ LotBooks(b)'
                      /\ ClosingHeld' /\ Onward
  BY <1>1, AccountKeeps
<1>3. /\ \A b \in Approvals : /\ Superseded(b)' <=> Superseded(b)
                              /\ Plain(b)' => Plain(b)
      /\ \A t : Lots(t)' = Lots(t) /\ (Tidy(t)' => Tidy(t))
      /\ UNCHANGED <<app, row, pos, shr, trd, ent, got, prot, hit, faults>>
      /\ Whole' => Whole
  BY <1>2, SteadyKeeps DEF Steady, RowsQuiet, DbQuiet, dbVars, CloseFills, NoFault
<1>4. \A b \in Approvals : LotRows(b) /\ LotBooks(b)
  BY DEF LotsHold
<1> HIDE DEF Superseded, Plain, Tidy
<1>6. ASSUME NEW b \in Approvals PROVE LotRows(b)'
  BY <1>3, <1>4 DEF CloseFills, LotRows
<1>7. ASSUME NEW b \in Approvals PROVE LotBooks(b)'
  BY <1>3, <1>4 DEF CloseFills, LotBooks, LotRows, Exposed, Gone, Left
<1>8. ClosingHeld'
  <2> SUFFICES ASSUME NEW t \in closing \ {s}, Whole, Tidy(t)
               PROVE  \E b \in Lots(t) : Left(b)' > 0
    BY <1>3 DEF ClosingHeld, CloseFills
  <2>1. PICK b \in Lots(t) : Left(b) > 0
    BY DEF LotsHold, ClosingHeld
  <2>2. b \in Approvals /\ app[b] = t
    BY DEF Lots
  <2>3. Left(b)' > 0
    BY <1>3, <2>1, <2>2 DEF Left, CloseFills
  <2> QED BY <2>3
<1>9. Onward
  BY <1>3 DEF Onward, CloseFills, Gone
<1> QED BY <1>6, <1>7, <1>8, <1>9

LEMMA BuyKeeps ==
  ASSUME TypeInv, LotsHold, RowsQuiet, NEW a \in latest, AcceptBuy(a), NoFault \/ \E k : Fault(k)
  PROVE  LotsHold' /\ Onward /\ Steady
<1> USE DEF TypeInv, AccountTyped, AccountTypeOK
<1>1. faults \subseteq faults' /\ \A b \in Approvals : ent[b] # "none" => ent'[b] # "none"
  BY DEF AcceptBuy, NoFault, Fault
<1>2. SUFFICES ASSUME Steady
               PROVE  /\ \A b \in Approvals : LotRows(b)' /\ LotBooks(b)'
                      /\ ClosingHeld' /\ Onward
  BY <1>1, AccountKeeps
<1>3. /\ \A b \in Approvals : /\ Superseded(b)' <=> Superseded(b)
                              /\ Plain(b)' => Plain(b)
      /\ \A t : Lots(t)' = Lots(t) /\ (Tidy(t)' => Tidy(t))
      /\ UNCHANGED <<app, row, pos, shr, trd, got, sold, prot, hit, closing>>
      /\ Whole' => Whole
  BY <1>2, SteadyKeeps DEF Steady, RowsQuiet, DbQuiet, dbVars, AcceptBuy, NoFault
<1>4. \A b \in Approvals : LotRows(b) /\ LotBooks(b)
  BY DEF LotsHold
<1>5. a \in Approvals /\ ~Superseded(a) /\ app[a] # "none"
  BY DEF RowsTyped, Named, LotsHold, ApprovalOrder
<1> HIDE DEF Superseded, Plain, Tidy
<1>6. ASSUME NEW b \in Approvals PROVE LotRows(b)'
  BY <1>3, <1>4, <1>5 DEF AcceptBuy, LotRows
<1>7. ASSUME NEW b \in Approvals PROVE LotBooks(b)'
  BY <1>3, <1>4, <1>5 DEF AcceptBuy, LotBooks, LotRows, Exposed, Gone, Left
<1>8. ClosingHeld'
  <2> SUFFICES ASSUME NEW t \in closing', Whole, Tidy(t)
               PROVE  \E b \in Lots(t) : Left(b)' > 0
    BY <1>3 DEF ClosingHeld
  <2>1. PICK b \in Lots(t) : Left(b) > 0
    BY DEF LotsHold, ClosingHeld, AcceptBuy
  <2>2. Left(b)' > 0
    BY <1>3, <1>4, <2>1, LotsOf DEF Left, AcceptBuy
  <2> QED BY <2>2
<1>9. Onward
  BY <1>3 DEF Onward, AcceptBuy, Gone
<1> QED BY <1>6, <1>7, <1>8, <1>9

LEMMA CancelKeeps ==
  ASSUME TypeInv, LotsHold, RowsQuiet, NEW a \in Approvals, CancelBuy(a), NoFault \/ \E k : Fault(k)
  PROVE  LotsHold' /\ Onward /\ Steady
<1> USE DEF TypeInv, AccountTyped, AccountTypeOK
<1>1. faults \subseteq faults' /\ \A b \in Approvals : ent[b] # "none" => ent'[b] # "none"
  BY DEF CancelBuy, NoFault, Fault
<1>2. SUFFICES ASSUME Steady
               PROVE  /\ \A b \in Approvals : LotRows(b)' /\ LotBooks(b)'
                      /\ ClosingHeld' /\ Onward
  BY <1>1, AccountKeeps
<1>3. /\ \A b \in Approvals : /\ Superseded(b)' <=> Superseded(b)
                              /\ Plain(b)' => Plain(b)
      /\ \A t : Lots(t)' = Lots(t) /\ (Tidy(t)' => Tidy(t))
      /\ UNCHANGED <<app, row, pos, shr, trd, got, sold, prot, hit, closing>>
      /\ Whole' => Whole
  BY <1>2, SteadyKeeps DEF Steady, RowsQuiet, DbQuiet, dbVars, CancelBuy, NoFault
<1>4. \A b \in Approvals : LotRows(b) /\ LotBooks(b)
  BY DEF LotsHold
<1> HIDE DEF Superseded, Plain, Tidy
<1>6. ASSUME NEW b \in Approvals PROVE LotRows(b)'
  BY <1>3, <1>4 DEF CancelBuy, LotRows
<1>7. ASSUME NEW b \in Approvals PROVE LotBooks(b)'
  BY <1>3, <1>4 DEF CancelBuy, LotBooks, LotRows, Exposed, Gone, Left
<1>8. ClosingHeld'
  <2> SUFFICES ASSUME NEW t \in closing', Whole, Tidy(t)
               PROVE  \E b \in Lots(t) : Left(b)' > 0
    BY <1>3 DEF ClosingHeld
  <2>1. PICK b \in Lots(t) : Left(b) > 0
    BY DEF LotsHold, ClosingHeld, CancelBuy
  <2>2. Left(b)' > 0
    BY <1>3, <1>4, <2>1, LotsOf DEF Left, CancelBuy
  <2> QED BY <2>2
<1>9. Onward
  BY <1>3 DEF Onward, CancelBuy, Gone
<1> QED BY <1>6, <1>7, <1>8, <1>9

LEMMA CancelAllKeeps ==
  ASSUME TypeInv, LotsHold, RowsQuiet, NEW s \in Symbols, CancelAll(s), NoFault \/ \E k : Fault(k)
  PROVE  LotsHold' /\ Onward /\ Steady
<1> USE DEF TypeInv, AccountTyped, AccountTypeOK
<1>1. faults \subseteq faults' /\ \A b \in Approvals : ent[b] # "none" => ent'[b] # "none"
  BY DEF CancelAll, NoFault, Fault
<1>2. SUFFICES ASSUME Steady
               PROVE  /\ \A b \in Approvals : LotRows(b)' /\ LotBooks(b)'
                      /\ ClosingHeld' /\ Onward
  BY <1>1, AccountKeeps
<1>3. /\ \A b \in Approvals : /\ Superseded(b)' <=> Superseded(b)
                              /\ Plain(b)' => Plain(b)
      /\ \A t : Lots(t)' = Lots(t) /\ (Tidy(t)' => Tidy(t))
      /\ UNCHANGED <<app, row, pos, shr, trd, got, sold, hit>>
      /\ Whole' => Whole
  BY <1>2, SteadyKeeps DEF Steady, RowsQuiet, DbQuiet, dbVars, CancelAll, NoFault
<1>4. \A b \in Approvals : LotRows(b) /\ LotBooks(b)
  BY DEF LotsHold
<1> HIDE DEF Superseded, Plain, Tidy
<1>6. ASSUME NEW b \in Approvals PROVE LotRows(b)'
  BY <1>3, <1>4 DEF CancelAll, LotRows
<1>7. ASSUME NEW b \in Approvals PROVE LotBooks(b)'
  BY <1>3, <1>4 DEF CancelAll, LotBooks, LotRows, Exposed, Gone, Left
<1>8. ClosingHeld'
  <2> SUFFICES ASSUME NEW t \in closing', Whole, Tidy(t)
               PROVE  \E b \in Lots(t) : Left(b)' > 0
    BY <1>3 DEF ClosingHeld
  <2>1. PICK b \in Lots(t) : Left(b) > 0
    BY DEF LotsHold, ClosingHeld, CancelAll
  <2>2. Left(b)' > 0
    BY <1>3, <1>4, <2>1, LotsOf DEF Left, CancelAll
  <2> QED BY <2>2
<1>9. Onward
  BY <1>3 DEF Onward, CancelAll, Gone
<1> QED BY <1>6, <1>7, <1>8, <1>9

LEMMA StopKeeps ==
  ASSUME TypeInv, LotsHold, RowsQuiet, NEW a \in Approvals, NEW q \in 1 .. Qty,
         ent[a] # "none", AcceptStop(a, q), NoFault \/ \E k : Fault(k),
         Plain(a) => q = Qty /\ ent[a] = "filled" /\ sold[a] = 0
  PROVE  LotsHold' /\ Onward /\ Steady
<1> USE DEF TypeInv, AccountTyped, AccountTypeOK
<1>1. faults \subseteq faults' /\ \A b \in Approvals : ent[b] # "none" => ent'[b] # "none"
  BY DEF AcceptStop, NoFault, Fault
<1>2. SUFFICES ASSUME Steady
               PROVE  /\ \A b \in Approvals : LotRows(b)' /\ LotBooks(b)'
                      /\ ClosingHeld' /\ Onward
  BY <1>1, AccountKeeps
<1>3. /\ \A b \in Approvals : /\ Superseded(b)' <=> Superseded(b)
                              /\ Plain(b)' => Plain(b)
      /\ \A t : Lots(t)' = Lots(t) /\ (Tidy(t)' => Tidy(t))
      /\ UNCHANGED <<app, row, pos, shr, trd, ent, got, sold, hit, closing>>
      /\ Whole' => Whole
  BY <1>2, SteadyKeeps DEF Steady, RowsQuiet, DbQuiet, dbVars, AcceptStop, NoFault
<1>4. \A b \in Approvals : LotRows(b) /\ LotBooks(b)
  BY DEF LotsHold
<1>5. app[a] \notin closing
  BY DEF AcceptStop, Free
<1> HIDE DEF Superseded, Plain, Tidy
<1>6. ASSUME NEW b \in Approvals PROVE LotRows(b)'
  BY <1>3, <1>4 DEF AcceptStop, LotRows
<1>7. ASSUME NEW b \in Approvals PROVE LotBooks(b)'
  BY <1>3, <1>4, <1>5 DEF AcceptStop, LotBooks, LotRows, Exposed, Gone, Left
<1>8. ClosingHeld'
  <2> SUFFICES ASSUME NEW t \in closing', Whole, Tidy(t)
               PROVE  \E b \in Lots(t) : Left(b)' > 0
    BY <1>3 DEF ClosingHeld
  <2>1. PICK b \in Lots(t) : Left(b) > 0
    BY DEF LotsHold, ClosingHeld, AcceptStop
  <2>2. Left(b)' > 0
    BY <1>3, <1>4, <2>1, LotsOf DEF Left, AcceptStop
  <2> QED BY <2>2
<1>9. Onward
  BY <1>3 DEF Onward, AcceptStop, Gone
<1> QED BY <1>6, <1>7, <1>8, <1>9

LEMMA AskCloseKeeps ==
  ASSUME TypeInv, LotsHold, RowsQuiet, NEW s \in Symbols, AcceptClose(s), NoFault \/ \E k : Fault(k)
  PROVE  LotsHold' /\ Onward /\ Steady
<1> USE DEF TypeInv, AccountTyped, AccountTypeOK
<1>1. faults \subseteq faults' /\ \A b \in Approvals : ent[b] # "none" => ent'[b] # "none"
  BY DEF AcceptClose, NoFault, Fault
<1>2. SUFFICES ASSUME Steady
               PROVE  /\ \A b \in Approvals : LotRows(b)' /\ LotBooks(b)'
                      /\ ClosingHeld' /\ Onward
  BY <1>1, AccountKeeps
<1>3. /\ \A b \in Approvals : /\ Superseded(b)' <=> Superseded(b)
                              /\ Plain(b)' => Plain(b)
      /\ \A t : Lots(t)' = Lots(t) /\ (Tidy(t)' => Tidy(t))
      /\ UNCHANGED <<app, row, pos, shr, trd, ent, got, sold, prot, hit>>
      /\ Whole' => Whole
  BY <1>2, SteadyKeeps DEF Steady, RowsQuiet, DbQuiet, dbVars, AcceptClose, NoFault
<1>4. \A b \in Approvals : LotRows(b) /\ LotBooks(b)
  BY DEF LotsHold
<1>5. HeldOf(s) > 0 /\ \A b \in Lots(s) : prot[b] = 0
  <2>1. HeldOf(s) > 0 /\ Free(s) = HeldOf(s) /\ HeldOf(s) \in Nat /\ Reserved(s) \in Nat
    BY HeldParts DEF AcceptClose, Closable
  <2>2. Reserved(s) = 0
    BY <2>1 DEF Free
  <2> QED BY <2>1, <2>2, HeldParts
<1> HIDE DEF Superseded, Plain, Tidy
<1>6. ASSUME NEW b \in Approvals PROVE LotRows(b)'
  BY <1>3, <1>4 DEF AcceptClose, LotRows
<1>7. ASSUME NEW b \in Approvals PROVE LotBooks(b)'
  <2>1. app[b] = s => prot[b] = 0
    BY <1>5 DEF Lots
  <2> QED BY <1>3, <1>4, <2>1 DEF AcceptClose, LotBooks, Exposed, Gone, Left
<1>8. ClosingHeld'
  <2> SUFFICES ASSUME NEW t \in closing \union {s}, Whole, Tidy(t)
               PROVE  \E b \in Lots(t) : Left(b)' > 0
    BY <1>3 DEF ClosingHeld, AcceptClose
  <2>1. \E b \in Lots(t) : Left(b) > 0
    BY <1>5, HeldParts DEF LotsHold, ClosingHeld
  <2> QED BY <1>3, <2>1 DEF Left
<1>9. Onward
  BY <1>3 DEF Onward, AcceptClose, Gone
<1> QED BY <1>6, <1>7, <1>8, <1>9

LEMMA MarketKeeps ==
  ASSUME TypeInv, LotsHold, RowsQuiet, MarketMoves
  PROVE  LotsHold' /\ Onward /\ Steady
BY FillKeeps, PartKeeps, LapseKeeps, ExitKeeps, CloseFillKeeps DEF MarketMoves

LEMMA QuietKeeps ==
  ASSUME TypeInv, LotsHold, RowsQuiet, AccountQuiet, NoFault \/ \E k : Fault(k)
  PROVE  LotsHold' /\ Onward /\ Steady
<1>1. UNCHANGED <<ent, got, sold, prot, hit, closing>> /\ faults \subseteq faults'
  BY FaultsGrow DEF AccountQuiet, accountVars
<1>2. SUFFICES ASSUME Steady
               PROVE  /\ \A b \in Approvals : LotRows(b)' /\ LotBooks(b)'
                      /\ ClosingHeld' /\ Onward
  BY <1>1, AccountKeeps
<1>3. /\ \A b \in Approvals : /\ Superseded(b)' <=> Superseded(b)
                              /\ Plain(b)' => Plain(b)
      /\ \A t : Lots(t)' = Lots(t) /\ (Tidy(t)' => Tidy(t))
      /\ UNCHANGED <<app, row, pos, shr, trd>>
      /\ Whole' => Whole
  BY <1>2, SteadyKeeps DEF Steady, RowsQuiet, DbQuiet, dbVars
<1>4. \A b \in Approvals : LotRows(b) /\ LotBooks(b)
  BY DEF LotsHold
<1> HIDE DEF Superseded, Plain, Tidy
<1>5. \A b \in Approvals : LotRows(b)' /\ LotBooks(b)'
  BY <1>1, <1>3, <1>4 DEF LotRows, LotBooks, Exposed, Gone, Left
<1>6. ClosingHeld'
  BY <1>1, <1>3 DEF LotsHold, ClosingHeld, Left
<1>7. Onward
  BY <1>1 DEF Onward, Gone
<1> QED BY <1>5, <1>6, <1>7

(***************************************************************************)
(* Writes of the database.                                                  *)
(***************************************************************************)
LEMMA RowsKeep ==
  ASSUME TypeInv, LotsHold, AccountQuiet, NoFault, RiskQuiet,
         \A a \in Approvals : Superseded(a) /\ pos[a] = "none" => pos'[a] = "none",
         Steady => \A a \in Approvals : LotRows(a)' /\ LotBooks(a)'
  PROVE  LotsHold' /\ Onward /\ Steady
<1>1. UNCHANGED <<app, latest, ent, got, sold, prot, hit, closing, faults>>
  BY DEF AccountQuiet, accountVars, RiskQuiet, NoFault
<1>2. Steady
  BY <1>1 DEF Steady
<1>3. ApprovalOrder'
  <2>1. latest \subseteq Approvals
    BY DEF TypeInv, RowsTyped, Named
  <2>2. \A a \in latest : ~Superseded(a)'
    BY <1>2, <2>1, SteadyKeeps DEF LotsHold, ApprovalOrder
  <2> QED BY <1>1, <2>2 DEF LotsHold, ApprovalOrder
<1>4. ClosingHeld'
  BY <1>1, <1>2, SteadyKeeps DEF LotsHold, ClosingHeld, Left, Steady, Whole
<1>5. Onward
  BY <1>1 DEF Onward, Gone
<1> QED BY <1>2, <1>3, <1>4, <1>5 DEF LotsHold

\* A lot is booked as closed when it is gone.
LEMMA CloseKeeps ==
  ASSUME TypeInv, LotsHold, AccountQuiet, NoFault, RiskQuiet, NEW a \in Approvals,
         CloseInDb(a), pos[a] \in {"open", "pending"}, Plain(a) => Gone(a)
  PROVE  LotsHold' /\ Onward /\ Steady
<1>1. UNCHANGED <<app, ent, got, sold, prot, hit, closing, faults, row, shr>>
  BY DEF AccountQuiet, accountVars, RiskQuiet, NoFault, CloseInDb
<1>2. /\ pos' = [pos EXCEPT ![a] = "closed"] /\ pos \in [Approvals -> PosStatus]
      /\ \A b \in Approvals \ {a} : trd'[b] = trd[b]
  BY DEF CloseInDb, TypeInv, RowsTyped
<1>3. \A b \in Approvals : Superseded(b) /\ pos[b] = "none" => pos'[b] = "none"
  BY <1>2
<1>4. SUFFICES ASSUME Steady
               PROVE  \A b \in Approvals : LotRows(b)' /\ LotBooks(b)'
  BY <1>3, RowsKeep
<1>5. \A b \in Approvals : /\ Superseded(b)' <=> Superseded(b)
                           /\ Plain(b)' => Plain(b)
  BY <1>4, SteadyKeeps
<1>6. \A b \in Approvals : LotRows(b) /\ LotBooks(b)
  BY DEF LotsHold
<1> HIDE DEF Superseded, Plain
<1>7. ASSUME NEW b \in Approvals PROVE LotRows(b)'
  BY <1>1, <1>2, <1>5, <1>6 DEF LotRows, Whole
<1>8. ASSUME NEW b \in Approvals PROVE LotBooks(b)'
  BY <1>1, <1>2, <1>5, <1>6 DEF LotBooks, Exposed, Gone, Left
<1> QED BY <1>7, <1>8

(***************************************************************************)
(* The pass.  What has to be shown depends on where it goes.                *)
(***************************************************************************)
LEMMA Elsewhere ==
  ASSUME NEW p \in Passes
  PROVE  /\ pc'[p] \in {"idle", "read", "risk"} => PassHolds(p)'
         /\ pc'[p] = "exec" /\ work'[p] \subseteq latest' => PassHolds(p)'
         /\ pc'[p] \in Sends /\ ExecutionHolds(p)' => PassHolds(p)'
         /\ pc'[p] \in {"review"} \union Closes /\ MonitorHolds(p)' => PassHolds(p)'
         /\ pc'[p] \in Reconciling /\ MonitorHolds(p)' /\ SnapHolds(p)' => PassHolds(p)'
<1> USE DEF PassHolds, Reconciling, Closes, Sends, SendsStock, SendsCrypto
<1>1. pc'[p] \in {"idle", "read", "risk", "exec"} \union Sends => MonitorHolds(p)' /\ SnapHolds(p)'
  BY DEF MonitorHolds, SnapHolds
<1>2. pc'[p] \in {"review"} \union Closes => SnapHolds(p)'
  BY DEF SnapHolds
<1>3. pc'[p] \in {"idle", "read", "risk", "review"} \union Closes \union Reconciling
        => ExecutionHolds(p)'
  BY DEF ExecutionHolds
<1>4. pc'[p] = "exec" /\ work'[p] \subseteq latest' => ExecutionHolds(p)'
  BY DEF ExecutionHolds
<1> QED BY <1>1, <1>2, <1>3, <1>4

LEMMA LeaveHolds ==
  ASSUME LocalsTyped, NEW p \in Passes, End(p) \/ Leave(p)
  PROVE  PassHolds(p)'
<1>1. pc'[p] \in {"idle", "risk"}
  BY DEF LocalsTyped, End, Leave, Loop
<1> QED BY <1>1, Elsewhere

\* What the market does meanwhile.
LEMMA WaitHolds ==
  ASSUME TypeInv, Onward, Steady, RowsQuiet, UNCHANGED localVars,
         NEW p \in Passes, PassHolds(p)
  PROVE  PassHolds(p)'
<1>1. /\ UNCHANGED <<app, row, pos, latest, pc, snap, work, cur, saw>>
      /\ Whole' => Whole
      /\ \A a \in Approvals : /\ Superseded(a)' <=> Superseded(a)
                              /\ Plain(a)' => Plain(a)
  BY SteadyKeeps DEF RowsQuiet, DbQuiet, RiskQuiet, dbVars, localVars
<1>2. latest \subseteq Approvals /\ hit \subseteq Approvals /\ \A a \in work[p] : a \in Approvals
  BY DEF TypeInv, RowsTyped, LocalsTyped, AccountTyped, AccountTypeOK, Named
<1> HIDE DEF Superseded, Plain, Whole
<1>3. MonitorHolds(p)'
  BY <1>1, <1>2 DEF PassHolds, MonitorHolds, Onward
<1>4. SnapHolds(p)'
  BY <1>1 DEF PassHolds, SnapHolds, Onward
<1>5. ExecutionHolds(p)'
  BY <1>1, <1>2 DEF PassHolds, ExecutionHolds, Onward, Sends, SendsStock, SendsCrypto
<1> QED BY <1>3, <1>4, <1>5 DEF PassHolds

(***************************************************************************)
(* The monitor.                                                             *)
(***************************************************************************)
\* An open or pending lot is the newest of its symbol.
LEMMA StandingNewest ==
  ASSUME LotsHold
  PROVE  \A a \in Approvals : pos[a] \in {"open", "pending"} => ~Superseded(a)
BY DEF LotsHold, LotRows

\* The quantity read is that of the newest lot: nothing or all of it.
LEMMA ReadingHolds ==
  ASSUME TypeInv, LotsHold, NEW a \in Named, ~Superseded(a), Plain(a)
  PROVE  /\ HeldOf(app[a]) \in {0, Qty}
         /\ HeldOf(app[a]) > 0 => ent[a] = "filled"
         /\ HeldOf(app[a]) = 0 /\ pos[a] = "open" => Gone(a)
<1>1. HeldOf(app[a]) = Left(a) /\ LotRows(a) /\ LotBooks(a) /\ a \in Approvals
  BY HeldNewest DEF TypeInv, Named, LotsHold
<1>2. got[a] \in Nat /\ sold[a] \in Nat
  BY <1>1 DEF TypeInv, AccountTyped, AccountTypeOK
<1> QED BY <1>1, <1>2 DEF LotRows, LotBooks, Plain, Left, Gone

LEMMA ReadKeeps ==
  ASSUME TypeInv, LotsHold, NEW p \in Passes, PassHolds(p), ReadPositions(p)
  PROVE  LotsHold' /\ PassHolds(p)'
<1>1. LotsHold' /\ Onward /\ Steady
  BY QuietKeeps DEF ReadPositions, RowsQuiet
<1>2. CASE Leave(p)
  BY <1>1, <1>2, LeaveHolds DEF TypeInv
<1> DEFINE w == {a \in Pending : app[a] \in Stocks /\ HeldOf(app[a]) = 0}
<1>3. CASE Loop(p, "pending", w, Holdings)
  <2>1. w \subseteq Pending
    OBVIOUS
  <2> HIDE DEF w
  <2>2. /\ pc'[p] = "pending" /\ work'[p] = w /\ snap'[p] = Holdings
        /\ UNCHANGED <<app, pos, ent>>
        /\ \A a \in Approvals : Gone(a)' <=> Gone(a)
    BY <1>3 DEF Loop, TypeInv, LocalsTyped, ReadPositions, DbQuiet, dbVars, AccountQuiet,
                accountVars, RiskQuiet, Gone
  <2>3. MonitorHolds(p)'
    BY <2>1, <2>2 DEF MonitorHolds, Pending, Closes
  <2>4. ASSUME NEW a \in Approvals, app'[a] # "none", ~Superseded(a)', Plain(a)'
        PROVE  /\ snap'[p][app'[a]] \in {0, Qty}
               /\ snap'[p][app'[a]] > 0 => ent'[a] = "filled"
               /\ snap'[p][app'[a]] = 0 /\ pos'[a] = "open" => Gone(a)'
    <3>1. a \in Named /\ ~Superseded(a) /\ Plain(a) /\ app[a] \in Symbols
      BY <1>1, <2>2, <2>4, SteadyKeeps DEF Named, TypeInv, RowsTyped
    <3>2. snap'[p][app'[a]] = HeldOf(app[a])
      BY <2>2, <3>1 DEF Holdings
    <3> QED BY <2>2, <3>1, <3>2, ReadingHolds
  <2>5. SnapHolds(p)'
    BY <2>4 DEF SnapHolds
  <2> QED BY <1>1, <2>2, <2>3, <2>5, Elsewhere DEF Reconciling
<1> QED BY <1>2, <1>3 DEF ReadPositions

\* A step that stays among the pending entries, or goes on to the open lots,
\* with the reading it has: what it still says is what it said.
LEMMA SnapKeeps ==
  ASSUME Steady, AccountQuiet, NEW p \in Passes, SnapHolds(p), pc[p] \in Reconciling,
         snap'[p] = snap[p],
         \A a \in Approvals : pos'[a] = "open" => pos[a] = "open" \/ snap[p][app[a]] > 0
  PROVE  SnapHolds(p)'
<1>1. /\ \A a \in Approvals : /\ Superseded(a)' <=> Superseded(a)
                              /\ Plain(a)' => Plain(a)
      /\ UNCHANGED <<app, ent, got, sold>>
      /\ \A a \in Approvals : Gone(a)' <=> Gone(a)
  BY SteadyKeeps DEF Steady, AccountQuiet, accountVars, Gone
<1> HIDE DEF Superseded, Plain, Gone
<1> SUFFICES ASSUME NEW a \in Approvals, app[a] # "none", ~Superseded(a), Plain(a)
             PROVE  /\ snap[p][app[a]] \in {0, Qty}
                    /\ snap[p][app[a]] > 0 => ent[a] = "filled"
                    /\ snap[p][app[a]] = 0 /\ pos'[a] = "open" => Gone(a)
  BY <1>1 DEF SnapHolds
<1> QED BY DEF SnapHolds

LEMMA ResolveKeeps ==
  ASSUME TypeInv, LotsHold, NEW p \in Passes, PassHolds(p), ResolvePending(p)
  PROVE  LotsHold' /\ PassHolds(p)'
<1>1. PICK a \in work[p] : ResolveExited(p, a) \/ ResolveCanceled(p, a) \/ LeavePending(p, a)
  BY DEF ResolvePending
<1>2. /\ a \in Approvals /\ pos[a] = "pending" /\ pc[p] = "pending"
      /\ \A b \in work[p] : b \in Approvals /\ pos[b] = "pending"
      /\ ~Superseded(a) /\ LotRows(a) /\ LotBooks(a)
  BY <1>1, StandingNewest
     DEF ResolvePending, PassHolds, MonitorHolds, TypeInv, LocalsTyped, Named, LotsHold
<1>a. AccountQuiet /\ RiskQuiet
  BY DEF ResolvePending
<1>b. /\ \A b \in Approvals : LotRows(b) /\ LotBooks(b)
      /\ row \in [Approvals -> RowStatus] /\ pos \in [Approvals -> PosStatus]
      /\ shr \in [Approvals -> 0 .. Qty] /\ pc \in [Passes -> Labels]
      /\ work \in [Passes -> SUBSET Named] /\ cur \in [Passes -> Named \union {NoLot}]
  BY DEF LotsHold, TypeInv, RowsTyped, LocalsTyped
<1>c. PassHolds(p) => MonitorHolds(p) /\ SnapHolds(p)
  BY DEF PassHolds
<1>3. CASE ResolveExited(p, a)
  <2>1. /\ a \in hit /\ row' = [row EXCEPT ![a] = "filled_closed"]
        /\ shr' = [shr EXCEPT ![a] = got[a]] /\ UNCHANGED <<pos, trd>> /\ NoFault
    BY <1>3 DEF ResolveExited
  <2>2. LotsHold' /\ Steady
    <3>1. SUFFICES ASSUME Steady PROVE \A b \in Approvals : LotRows(b)' /\ LotBooks(b)'
      BY <1>a, <2>1, RowsKeep
    <3>2. /\ \A b \in Approvals : (Superseded(b)' <=> Superseded(b)) /\ (Plain(b)' => Plain(b))
          /\ UNCHANGED <<app, ent, got, sold, prot, hit, closing, faults>>
      BY <1>a, <2>1, <3>1, SteadyKeeps DEF AccountQuiet, accountVars, RiskQuiet, NoFault
    <3> HIDE DEF Superseded, Plain
    <3>3. ASSUME NEW b \in Approvals PROVE LotRows(b)'
      BY <1>2, <1>b, <2>1, <3>2 DEF LotRows, Whole
    <3>4. ASSUME NEW b \in Approvals PROVE LotBooks(b)'
      <4>1. Plain(a) => got[a] = Qty
        BY <1>2, <2>1 DEF LotBooks, LotRows, Gone, Plain
      <4> QED BY <1>2, <1>b, <2>1, <3>2, <4>1 DEF LotBooks, Exposed, Gone, Left
    <3> QED BY <3>3, <3>4
  <2>3. /\ pc'[p] = "p_close" /\ cur'[p] = a /\ work'[p] = work[p] \ {a}
        /\ snap'[p] = snap[p] /\ UNCHANGED hit
    BY <1>3, <1>a, <1>b DEF ResolveExited, Take, AccountQuiet, accountVars
  <2>4. MonitorHolds(p)'
    BY <1>2, <2>1, <2>3 DEF MonitorHolds, Closes
  <2>5. SnapHolds(p)'
    BY <1>2, <1>a, <1>c, <2>1, <2>2, <2>3, SnapKeeps DEF Reconciling
  <2> QED BY <2>2, <2>3, <2>4, <2>5, Elsewhere DEF Reconciling
<1>4. CASE ResolveCanceled(p, a)
  <2>1. /\ ent[a] = "canceled" /\ row' = [row EXCEPT ![a] = "canceled"]
        /\ pos' = [pos EXCEPT ![a] = "canceled"] /\ UNCHANGED <<shr, trd>> /\ NoFault
    BY <1>4 DEF ResolveCanceled
  <2>2. LotsHold' /\ Steady
    <3>0. \A b \in Approvals : Superseded(b) /\ pos[b] = "none" => pos'[b] = "none"
      BY <1>2, <1>b, <2>1
    <3>1. SUFFICES ASSUME Steady PROVE \A b \in Approvals : LotRows(b)' /\ LotBooks(b)'
      BY <1>a, <2>1, <3>0, RowsKeep
    <3>2. /\ \A b \in Approvals : (Superseded(b)' <=> Superseded(b)) /\ (Plain(b)' => Plain(b))
          /\ UNCHANGED <<app, ent, got, sold, prot, hit, closing, faults>>
      BY <1>a, <2>1, <3>1, SteadyKeeps DEF AccountQuiet, accountVars, RiskQuiet, NoFault
    <3> HIDE DEF Superseded, Plain
    <3>3. ASSUME NEW b \in Approvals PROVE LotRows(b)'
      BY <1>2, <1>b, <2>1, <3>2 DEF LotRows, Whole
    <3>4. ASSUME NEW b \in Approvals PROVE LotBooks(b)'
      BY <1>2, <1>b, <2>1, <3>2 DEF LotBooks, Exposed, Gone, Left
    <3> QED BY <3>3, <3>4
  <2>3. /\ pc'[p] = "pending" /\ work'[p] = work[p] \ {a} /\ snap'[p] = snap[p]
    BY <1>2, <1>4, <1>b DEF ResolveCanceled, Drop
  <2>4. MonitorHolds(p)'
    BY <1>2, <1>b, <2>1, <2>3 DEF MonitorHolds, Closes
  <2>5. SnapHolds(p)'
    BY <1>2, <1>a, <1>b, <1>c, <2>1, <2>2, <2>3, SnapKeeps DEF Reconciling
  <2> QED BY <2>2, <2>3, <2>4, <2>5, Elsewhere DEF Reconciling
<1>5. CASE LeavePending(p, a)
  <2>1. LotsHold' /\ Steady /\ UNCHANGED pos
    BY <1>5, <1>a, QuietKeeps DEF LeavePending, RowsQuiet, DbQuiet, dbVars
  <2>2. /\ pc'[p] = "pending" /\ work'[p] \subseteq work[p] /\ snap'[p] = snap[p]
    BY <1>2, <1>5, <1>b DEF LeavePending, Drop
  <2>3. MonitorHolds(p)'
    BY <1>2, <2>1, <2>2 DEF MonitorHolds, Closes
  <2>4. SnapHolds(p)'
    BY <1>2, <1>a, <1>c, <2>1, <2>2, SnapKeeps DEF Reconciling
  <2> QED BY <2>1, <2>2, <2>3, <2>4, Elsewhere DEF Reconciling
<1> QED BY <1>1, <1>3, <1>4, <1>5

\* What a pass in the monitor knows of the lots in its hand.
LEMMA MonitorFacts ==
  ASSUME TypeInv, LotsHold, NEW p \in Passes, PassHolds(p)
  PROVE  /\ \A b \in work[p] : b \in Approvals /\ b \in Named
         /\ pc \in [Passes -> Labels] /\ pos \in [Approvals -> PosStatus]
         /\ work \in [Passes -> SUBSET Named] /\ cur \in [Passes -> Named \union {NoLot}]
         /\ snap \in [Passes -> [Symbols -> Nat]] /\ rec \in [Passes -> SUBSET Symbols]
         /\ \A b \in Approvals : LotRows(b) /\ LotBooks(b)
         /\ hit \subseteq Approvals
         /\ pc[p] \in Closes => app[cur[p]] \in Symbols
BY ActsNamed, LoopHeads
   DEF TypeInv, RowsTyped, LocalsTyped, AccountTyped, AccountTypeOK, Named, LotsHold, Closes

LEMMA BookPendingKeeps ==
  ASSUME TypeInv, LotsHold, NEW p \in Passes, PassHolds(p), BookPendingExit(p)
  PROVE  LotsHold' /\ PassHolds(p)'
<1> DEFINE a == cur[p]
<1>1. /\ pc[p] = "p_close" /\ AccountQuiet /\ RiskQuiet /\ NoFault /\ CloseInDb(a)
      /\ a \in hit /\ a \in Approvals /\ pos[a] = "pending"
      /\ \A b \in work[p] : b \in Approvals /\ pos[b] = "pending" /\ b # a
      /\ pc'[p] = "pending" /\ work'[p] = work[p] /\ snap'[p] = snap[p]
      /\ LotBooks(a)
  BY MonitorFacts DEF BookPendingExit, PassHolds, MonitorHolds, Back, Loop, Closes
<1>2. /\ pos' = [pos EXCEPT ![a] = "closed"] /\ pos \in [Approvals -> PosStatus]
      /\ SnapHolds(p)
  BY <1>1, MonitorFacts DEF CloseInDb, PassHolds
<1> HIDE DEF a
<1>3. LotsHold' /\ Steady
  BY <1>1, CloseKeeps DEF LotBooks
<1>4. MonitorHolds(p)'
  BY <1>1, <1>2 DEF MonitorHolds, Closes
<1>5. SnapHolds(p)'
  BY <1>1, <1>2, <1>3, SnapKeeps DEF Reconciling
<1> QED BY <1>1, <1>3, <1>4, <1>5, Elsewhere DEF Reconciling

LEMMA PromoteKeeps ==
  ASSUME TypeInv, LotsHold, NEW p \in Passes, PassHolds(p), Promote(p)
  PROVE  LotsHold' /\ PassHolds(p)'
<1>1. /\ pc[p] = "pending" /\ AccountQuiet /\ RiskQuiet /\ NoFault
      /\ UNCHANGED <<row, shr, trd>>
      /\ pos' = [a \in Approvals |-> IF a \in Pending /\ snap[p][app[a]] > 0
                                     THEN "open" ELSE pos[a]]
  BY DEF Promote
<1> DEFINE open == {a \in Approvals : pos'[a] = "open"}
<1>2. Leave(p) \/ Loop(p, "recon", open, snap[p])
  BY DEF Promote
<1>3. /\ \A b \in Approvals : LotRows(b) /\ LotBooks(b)
      /\ SnapHolds(p) /\ pc \in [Passes -> Labels]
  BY MonitorFacts DEF PassHolds
<1>4. LotsHold' /\ Steady
  <2>1. SUFFICES ASSUME Steady PROVE \A b \in Approvals : LotRows(b)' /\ LotBooks(b)'
    BY <1>1, RowsKeep DEF Pending
  <2>2. /\ \A b \in Approvals : (Superseded(b)' <=> Superseded(b)) /\ (Plain(b)' => Plain(b))
        /\ UNCHANGED <<app, ent, got, sold, prot, hit, closing, faults>>
    BY <1>1, <2>1, SteadyKeeps DEF AccountQuiet, accountVars, RiskQuiet, NoFault
  <2>3. ASSUME NEW b \in Approvals, pos'[b] # pos[b]
        PROVE  /\ pos[b] = "pending" /\ pos'[b] = "open" /\ ~Superseded(b)
               /\ Plain(b) => ent[b] = "filled"
    <3>1. b \in Pending /\ snap[p][app[b]] > 0 /\ pos'[b] = "open"
      BY <1>1, <2>3
    <3>2. ~Superseded(b) /\ app[b] # "none"
      BY <3>1, <1>3, StandingNewest DEF Pending, LotRows
    <3> QED BY <1>1, <1>3, <3>1, <3>2 DEF SnapHolds, Pending, Reconciling
  <2> HIDE DEF Superseded, Plain
  <2>4. ASSUME NEW b \in Approvals PROVE LotRows(b)'
    BY <1>1, <1>3, <2>2, <2>3 DEF LotRows, Whole
  <2>5. ASSUME NEW b \in Approvals PROVE LotBooks(b)'
    BY <1>1, <1>3, <2>2, <2>3 DEF LotBooks, Exposed, Gone, Left
  <2> QED BY <2>4, <2>5
<1>5. CASE Leave(p)
  BY <1>4, <1>5, LeaveHolds DEF TypeInv
<1>6. CASE Loop(p, "recon", open, snap[p])
  <2>1. /\ pc'[p] = "recon" /\ snap'[p] = snap[p] /\ \A b \in work'[p] : pos'[b] = "open"
    BY <1>6, MonitorFacts DEF Loop
  <2>2. MonitorHolds(p)'
    BY <2>1 DEF MonitorHolds, Closes
  <2>3. SnapHolds(p)'
    <3>1. \A a \in Approvals : pos'[a] = "open" => pos[a] = "open" \/ snap[p][app[a]] > 0
      BY <1>1
    <3> QED BY <1>1, <1>3, <1>4, <2>1, <3>1, SnapKeeps DEF Reconciling
  <2> QED BY <1>4, <2>1, <2>2, <2>3, Elsewhere DEF Reconciling
<1> QED BY <1>2, <1>5, <1>6

\* A lot too many is one that is gone: it is the only open one of its symbol,
\* so that the account had less than its shares when it was read.
LEMMA SurplusGone ==
  ASSUME TypeInv, LotsHold, NEW p \in Passes, PassHolds(p), pc[p] = "recon",
         NEW a \in Surplus(p)
  PROVE  a \in Approvals /\ pos[a] = "open" /\ (Plain(a) => Gone(a))
<1>1. a \in work[p] /\ a \in Approvals /\ a \in Named
  BY MonitorFacts DEF Surplus
<1>2. \A b \in work[p] : pos[b] = "open" /\ b \in Approvals /\ ~Superseded(b)
  BY MonitorFacts, StandingNewest DEF PassHolds, MonitorHolds
<1>3. UpTo(p, a) = {a}
  <2>1. a \in UpTo(p, a)
    BY <1>1 DEF UpTo, Approvals
  <2>2. ASSUME NEW b \in UpTo(p, a) PROVE b = a
    BY <1>1, <1>2, OneNewest DEF UpTo
  <2> QED BY <2>1, <2>2
<1> DEFINE f == [b \in UpTo(p, a) |-> shr[b]]
<1>4. SumOver(f) = shr[a]
  <2>0. shr[a] \in Nat /\ IsFiniteSet({a})
    <3>1. shr[a] \in Nat
      BY <1>1 DEF TypeInv, RowsTyped
    <3>2. {a} \in SUBSET Approvals
      BY <1>1
    <3> QED BY <3>1, <3>2, LotsFinite
  <2>1. f \in [{a} -> Nat] /\ f[a] = shr[a]
    BY <1>3, <2>0
  <2>2. Sums(f, SumOver(f))
    BY <2>0, <2>1, SumSums
  <2>3. DOMAIN f = {a}
    BY <1>3
  <2> HIDE DEF f
  <2> QED BY <2>1, <2>2, <2>3 DEF Sums
<1>5. SumOver(f) > snap[p][app[a]]
  BY DEF Surplus
<1> HIDE DEF f
<1>6. ASSUME Plain(a) PROVE Gone(a)
  <2>1. shr[a] = Qty
    BY <1>1, <1>2, <1>6, MonitorFacts DEF LotBooks
  <2>2. snap[p][app[a]] \in {0, Qty} /\ (snap[p][app[a]] = 0 => Gone(a))
    BY <1>1, <1>2, <1>6 DEF PassHolds, SnapHolds, Reconciling, Named
  <2> QED BY <1>4, <1>5, <2>1, <2>2
<1> QED BY <1>1, <1>2, <1>6

LEMMA ReconcileKeeps ==
  ASSUME TypeInv, LotsHold, NEW p \in Passes, PassHolds(p), ReconcileLot(p)
  PROVE  LotsHold' /\ PassHolds(p)'
<1> DEFINE a == Max(Surplus(p))
<1>1. /\ pc[p] = "recon" /\ pc' = pc /\ snap' = snap /\ Surplus(p) # {}
      /\ CloseInDb(a) /\ work' = [work EXCEPT ![p] = @ \ {a}]
      /\ AccountQuiet /\ RiskQuiet /\ NoFault
  BY DEF ReconcileLot
<1>2. a \in Surplus(p)
  <2>1. Surplus(p) \in SUBSET Approvals
    BY MonitorFacts DEF Surplus
  <2> QED BY <1>1, <2>1, SomeMax
<1> HIDE DEF a
<1>3. a \in Approvals /\ pos[a] = "open" /\ (Plain(a) => Gone(a))
  BY <1>1, <1>2, SurplusGone
<1>4. LotsHold' /\ Steady
  BY <1>1, <1>3, CloseKeeps
<1>5. pos' = [pos EXCEPT ![a] = "closed"] /\ pos \in [Approvals -> PosStatus]
  BY <1>1, MonitorFacts DEF CloseInDb
<1>6. MonitorHolds(p)'
  <2>1. \A b \in work'[p] : b \in work[p] /\ b # a
    BY <1>1, MonitorFacts
  <2> QED BY <1>1, <1>5, <2>1, MonitorFacts DEF PassHolds, MonitorHolds, Closes
<1>7. SnapHolds(p)'
  BY <1>1, <1>3, <1>4, <1>5, SnapKeeps DEF PassHolds, Reconciling
<1> QED BY <1>1, <1>4, <1>6, <1>7, Elsewhere DEF Reconciling

LEMMA FinishKeeps ==
  ASSUME TypeInv, LotsHold, NEW p \in Passes, PassHolds(p), FinishReconcile(p)
  PROVE  LotsHold' /\ PassHolds(p)'
<1>1. LotsHold' /\ UNCHANGED pos
  BY QuietKeeps DEF FinishReconcile, RowsQuiet, DbQuiet, dbVars
<1>2. CASE Leave(p)
  BY <1>1, <1>2, LeaveHolds DEF TypeInv
<1>3. CASE Loop(p, "review", StillOpen(p), Nobody)
  <2>1. pc'[p] = "review" /\ work'[p] \subseteq work[p] /\ pc[p] = "recon"
    BY <1>3, MonitorFacts DEF Loop, StillOpen, FinishReconcile
  <2>2. MonitorHolds(p)'
    BY <1>1, <2>1 DEF PassHolds, MonitorHolds, Closes
  <2> QED BY <1>1, <2>1, <2>2, Elsewhere
<1> QED BY <1>2, <1>3 DEF FinishReconcile

LEMMA ReviewKeeps ==
  ASSUME TypeInv, LotsHold, NEW p \in Passes, PassHolds(p), Review(p)
  PROVE  LotsHold' /\ PassHolds(p)'
<1>1. LotsHold' /\ UNCHANGED pos
  BY QuietKeeps DEF Review, RowsQuiet, DbQuiet, dbVars
<1>2. CASE Leave(p)
  BY <1>1, <1>2, LeaveHolds DEF TypeInv
<1>3. ASSUME NEW a \in work[p], Drop(p, a) PROVE PassHolds(p)'
  <2>1. pc'[p] = "review" /\ work'[p] \subseteq work[p] /\ pc[p] = "review"
    BY <1>3, MonitorFacts DEF Drop, Review
  <2>2. MonitorHolds(p)'
    BY <1>1, <2>1 DEF PassHolds, MonitorHolds, Closes
  <2> QED BY <2>1, <2>2, Elsewhere
<1>4. ASSUME NEW a \in work[p], Take(p, a, "c_cancel") PROVE PassHolds(p)'
  <2>1. /\ pc'[p] = "c_cancel" /\ work'[p] = work[p] \ {a} /\ cur'[p] = a /\ pc[p] = "review"
        /\ a \in Approvals
    BY <1>4, MonitorFacts DEF Take, Review
  <2>2. MonitorHolds(p)'
    BY <1>1, <2>1 DEF PassHolds, MonitorHolds, Closes
  <2> QED BY <2>1, <2>2, Elsewhere DEF Closes
<1> QED BY <1>1, <1>2, <1>3, <1>4 DEF Review

\* Between the calls of a close the lot in hand stays what it was; giving up,
\* the rest goes on.
LEMMA ClosingOn ==
  ASSUME TypeInv, LotsHold, NEW p \in Passes, PassHolds(p), UNCHANGED pos,
         pc[p] \in Closes
  PROVE  /\ GiveUp(p) => PassHolds(p)'
         /\ To(p, "c_close") \/ To(p, "c_poll") => PassHolds(p)'
<1>1. ASSUME GiveUp(p) PROVE PassHolds(p)'
  <2>1. pc'[p] = "review" /\ work'[p] = work[p]
    BY <1>1, MonitorFacts DEF GiveUp, Back, Loop
  <2>2. MonitorHolds(p)'
    BY <2>1 DEF PassHolds, MonitorHolds, Closes
  <2> QED BY <2>1, <2>2, Elsewhere
<1>2. ASSUME To(p, "c_close") \/ To(p, "c_poll") PROVE PassHolds(p)'
  <2>1. pc'[p] \in {"c_close", "c_poll"} /\ work'[p] = work[p] /\ cur'[p] = cur[p]
    BY <1>2, MonitorFacts DEF To
  <2>2. MonitorHolds(p)'
    BY <2>1 DEF PassHolds, MonitorHolds, Closes
  <2> QED BY <2>1, <2>2, Elsewhere DEF Closes
<1> QED BY <1>1, <1>2

LEMMA CancelRestingKeeps ==
  ASSUME TypeInv, LotsHold, NEW p \in Passes, PassHolds(p), CancelResting(p)
  PROVE  LotsHold' /\ PassHolds(p)'
<1>1. pc[p] \in Closes /\ app[cur[p]] \in Symbols /\ RowsQuiet /\ UNCHANGED pos
  BY MonitorFacts DEF CancelResting, Closes, RowsQuiet, DbQuiet, dbVars
<1>2. LotsHold'
  BY <1>1, QuietKeeps, CancelAllKeeps DEF CancelResting
<1>3. PassHolds(p)'
  BY <1>1, ClosingOn DEF CancelResting
<1> QED BY <1>2, <1>3

LEMMA ClosePositionKeeps ==
  ASSUME TypeInv, LotsHold, NEW p \in Passes, PassHolds(p), ClosePosition(p)
  PROVE  LotsHold' /\ PassHolds(p)'
<1>1. pc[p] \in Closes /\ app[cur[p]] \in Symbols /\ RowsQuiet /\ UNCHANGED pos
  BY MonitorFacts DEF ClosePosition, Closes, RowsQuiet, DbQuiet, dbVars
<1>2. LotsHold'
  BY <1>1, QuietKeeps, AskCloseKeeps DEF ClosePosition
<1>3. PassHolds(p)'
  BY <1>1, ClosingOn DEF ClosePosition
<1> QED BY <1>2, <1>3

LEMMA PollFlatKeeps ==
  ASSUME TypeInv, LotsHold, NEW p \in Passes, PassHolds(p), PollFlat(p)
  PROVE  LotsHold' /\ PassHolds(p)'
<1>1. /\ pc[p] = "c_poll" /\ RowsQuiet /\ AccountQuiet
      /\ UNCHANGED <<pos, app, ent, got, sold>>
  BY DEF PollFlat, RowsQuiet, DbQuiet, RiskQuiet, dbVars, AccountQuiet, accountVars
<1>2. LotsHold' /\ Steady
  BY <1>1, QuietKeeps DEF PollFlat
<1>3. CASE GiveUp(p)
  BY <1>1, <1>2, <1>3, ClosingOn DEF Closes
<1>4. CASE HeldOf(app[cur[p]]) = 0 /\ To(p, "c_db")
  <2>0. PICK a \in Approvals : a = cur[p]
    BY <1>1, MonitorFacts DEF PassHolds, MonitorHolds, Closes
  <2>1. /\ pc'[p] = "c_db" /\ work'[p] = work[p] /\ cur'[p] = a
        /\ a \in Approvals \ work[p] /\ pos[a] = "open"
        /\ \A b \in work[p] : pos[b] = "open"
    BY <1>1, <1>4, <2>0, MonitorFacts DEF To, PassHolds, MonitorHolds, Closes
  <2>2. Plain(a) => Gone(a)
    <3>1. Left(a) = 0
      BY <1>4, <2>0, HeldParts DEF TypeInv, Lots
    <3>2. LotBooks(a) /\ got[a] \in Nat /\ sold[a] \in Nat
      BY <2>1, MonitorFacts DEF TypeInv, AccountTyped, AccountTypeOK
    <3> QED BY <2>1, <3>1, <3>2 DEF LotBooks, Gone, Left
  <2>3. (Plain(a)' => Plain(a)) /\ (Gone(a)' <=> Gone(a))
    BY <1>1, <1>2, <2>1, SteadyKeeps DEF Gone
  <2>4. MonitorHolds(p)'
    BY <1>1, <2>1, <2>2, <2>3 DEF MonitorHolds, Closes
  <2> QED BY <1>2, <2>1, <2>4, Elsewhere DEF Closes
<1> QED BY <1>2, <1>3, <1>4 DEF PollFlat

LEMMA BookCloseKeeps ==
  ASSUME TypeInv, LotsHold, NEW p \in Passes, PassHolds(p), BookClose(p)
  PROVE  LotsHold' /\ PassHolds(p)'
<1> DEFINE a == cur[p]
<1>1. /\ pc[p] = "c_db" /\ AccountQuiet /\ RiskQuiet /\ NoFault /\ CloseInDb(a)
      /\ a \in Approvals /\ pos[a] = "open" /\ (Plain(a) => Gone(a))
      /\ \A b \in work[p] : b \in Approvals /\ pos[b] = "open" /\ b # a
      /\ pc'[p] = "review" /\ work'[p] = work[p]
  BY MonitorFacts DEF BookClose, PassHolds, MonitorHolds, GiveUp, Back, Loop, Closes
<1>2. pos' = [pos EXCEPT ![a] = "closed"] /\ pos \in [Approvals -> PosStatus]
  BY <1>1, MonitorFacts DEF CloseInDb
<1> HIDE DEF a
<1>3. LotsHold'
  BY <1>1, CloseKeeps
<1>4. MonitorHolds(p)'
  BY <1>1, <1>2 DEF MonitorHolds, Closes
<1> QED BY <1>1, <1>3, <1>4, Elsewhere

LEMMA MonitorKeeps ==
  ASSUME TypeInv, LotsHold, NEW p \in Passes, PassHolds(p), MonitorStep(p)
  PROVE  LotsHold' /\ PassHolds(p)'
BY ReadKeeps, ResolveKeeps, BookPendingKeeps, PromoteKeeps, ReconcileKeeps, FinishKeeps,
   ReviewKeeps, CancelRestingKeeps, ClosePositionKeeps, PollFlatKeeps, BookCloseKeeps
   DEF MonitorStep

(***************************************************************************)
(* The execution.                                                           *)
(***************************************************************************)
\* What a pass in the execution knows of the lots in its hand.
LEMMA ExecutionFacts ==
  ASSUME TypeInv, LotsHold, NEW p \in Passes, PassHolds(p)
  PROVE  /\ pc \in [Passes -> Labels] /\ work \in [Passes -> SUBSET Named]
         /\ cur \in [Passes -> Named \union {NoLot}] /\ saw \in [Passes -> 0 .. Qty]
         /\ exc \in [Passes -> {"none", "unclear", "refused"}]
         /\ ent \in [Approvals -> EntStatus]
         /\ latest \subseteq Approvals /\ \A a \in latest : ~Superseded(a)
         /\ \A a \in Approvals : LotRows(a) /\ LotBooks(a) /\ got[a] \in 0 .. Qty
         /\ pc[p] \in Sends =>
              /\ cur[p] \in latest /\ cur[p] \in Approvals /\ app[cur[p]] \in Symbols
              /\ work[p] \subseteq latest /\ row[cur[p]] \in {"none", "error"}
              /\ pos[cur[p]] = "none"
<1>1. latest \subseteq Approvals /\ \A a \in latest : ~Superseded(a) /\ app[a] \in Symbols
  BY DEF TypeInv, RowsTyped, Named, LotsHold, ApprovalOrder
<1>2. \A a \in Approvals : LotRows(a) /\ LotBooks(a) /\ got[a] \in 0 .. Qty
  BY DEF LotsHold, TypeInv, AccountTyped, AccountTypeOK
<1>3. ASSUME pc[p] \in Sends
      PROVE  /\ cur[p] \in latest /\ cur[p] \in Approvals /\ app[cur[p]] \in Symbols
             /\ work[p] \subseteq latest /\ row[cur[p]] \in {"none", "error"}
             /\ pos[cur[p]] = "none"
  <2>1. cur[p] \in latest /\ work[p] \subseteq latest /\ row[cur[p]] \in {"none", "error"}
    BY <1>3 DEF PassHolds, ExecutionHolds
  <2>2. LotRows(cur[p])
    BY <1>1, <1>2, <2>1
  <2> QED BY <1>1, <2>1, <2>2 DEF LotRows
<1>4. /\ pc \in [Passes -> Labels] /\ work \in [Passes -> SUBSET Named]
      /\ cur \in [Passes -> Named \union {NoLot}] /\ saw \in [Passes -> 0 .. Qty]
      /\ exc \in [Passes -> {"none", "unclear", "refused"}]
      /\ ent \in [Approvals -> EntStatus]
  BY DEF TypeInv, LocalsTyped, AccountTyped, AccountTypeOK
<1> QED BY <1>1, <1>2, <1>3, <1>4

\* What the label l asks of the lot in hand.
Bought == {"s_record", "k_poll", "k_cancel", "k_settle", "k_stop", "k_record"}
Fits(p, l) ==
  /\ l \in Bought => ent'[cur[p]] # "none"
  /\ Whole =>
       /\ l = "s_record" /\ saw'[p] > 0 => ent'[cur[p]] = "filled"
       /\ l = "k_cancel" => saw'[p] = 0
       /\ l \in {"k_stop", "k_record"} => ent'[cur[p]] = "filled"
       /\ l = "k_stop" => saw'[p] = Qty
       /\ l = "k_record" =>
            \A a \in Approvals : a = cur[p] /\ Plain(a) => saw'[p] = Qty

\* From call to call the lot in hand stays what it was.
LEMMA SendsOn ==
  ASSUME TypeInv, LotsHold, NEW p \in Passes, PassHolds(p), pc[p] \in Sends,
         RowsQuiet, Steady, NEW l \in Sends,
         To(p, l) \/ (\E q : Saw(p, l, q)) \/ (\E e : Raise(p, l, e)),
         pc[p] \in SendsStock => l \in SendsStock \union {"fail"},
         pc[p] \in SendsCrypto => l \in SendsCrypto \union {"fail"},
         pc[p] # "fail", Fits(p, l)
  PROVE  PassHolds(p)'
<1>1. pc'[p] = l /\ work'[p] = work[p] /\ cur'[p] = cur[p]
  BY ExecutionFacts DEF To, Saw, Raise
<1>2. UNCHANGED <<latest, row, app>> /\ (Whole' => Whole)
  BY SteadyKeeps DEF RowsQuiet, DbQuiet, RiskQuiet, dbVars
<1>3. \A a \in Approvals : Plain(a)' => Plain(a)
  BY SteadyKeeps
<1>4. /\ cur[p] \in latest /\ row[cur[p]] \in {"none", "error"} /\ work[p] \subseteq latest
  BY ExecutionFacts
<1>5. l \in SendsStock => app[cur[p]] \in Stocks
  BY DEF PassHolds, ExecutionHolds, Sends, SendsStock, SendsCrypto
<1>6. l \in SendsCrypto => app[cur[p]] \in Cryptos
  BY DEF PassHolds, ExecutionHolds, Sends, SendsStock, SendsCrypto
<1> HIDE DEF Plain, Whole
<1>7. ExecutionHolds(p)'
  BY <1>1, <1>2, <1>3, <1>4, <1>5, <1>6 DEF ExecutionHolds, Fits, Bought
<1> QED BY <1>1, <1>7, Elsewhere

\* In a market that fills whole orders an entry is filled or bought nothing.
LEMMA InHandBought ==
  ASSUME TypeInv, LotsHold, NEW p \in Passes, PassHolds(p), pc[p] \in Sends
  PROVE  /\ got[cur[p]] \in 0 .. Qty
         /\ Whole => got[cur[p]] = IF ent[cur[p]] = "filled" THEN Qty ELSE 0
         /\ pc[p] \in Bought => ent[cur[p]] # "none"
         /\ Whole /\ pc[p] = "k_cancel" => saw[p] = 0
         /\ Whole /\ pc[p] = "k_stop" => saw[p] = Qty /\ ent[cur[p]] = "filled"
<1>1. LotRows(cur[p]) /\ got[cur[p]] \in 0 .. Qty
  BY ExecutionFacts
<1> QED BY <1>1 DEF LotRows, PassHolds, ExecutionHolds, Bought

LEMMA ExecuteNextKeeps ==
  ASSUME TypeInv, LotsHold, NEW p \in Passes, PassHolds(p), ExecuteNext(p)
  PROVE  LotsHold' /\ PassHolds(p)'
<1>1. pc[p] = "exec" /\ LotsHold' /\ UNCHANGED <<app, row, latest>> /\ work[p] \subseteq latest
  BY QuietKeeps
     DEF ExecuteNext, RowsQuiet, DbQuiet, RiskQuiet, dbVars, PassHolds, ExecutionHolds
<1>2. CASE End(p)
  BY <1>1, <1>2, LeaveHolds DEF TypeInv
<1>3. ASSUME NEW a \in work[p], Drop(p, a) PROVE PassHolds(p)'
  <2>1. pc'[p] = "exec" /\ work'[p] \subseteq latest'
    BY <1>1, <1>3, ExecutionFacts DEF Drop
  <2> QED BY <2>1, Elsewhere
<1>4. ASSUME NEW a \in work[p], row[a] \in {"none", "error"}, NEW l \in {"s_send", "k_buy"},
             l = IF app[a] \in Stocks THEN "s_send" ELSE "k_buy", Take(p, a, l)
      PROVE  PassHolds(p)'
  <2>1. /\ pc'[p] = l /\ work'[p] \subseteq latest' /\ cur'[p] = a /\ a \in latest'
    BY <1>1, <1>4, ExecutionFacts DEF Take
  <2>2. app[a] \in Symbols
    BY <1>1 DEF TypeInv, RowsTyped, Named
  <2>3. ExecutionHolds(p)'
    BY <1>1, <1>4, <2>1, <2>2
       DEF ExecutionHolds, Sends, SendsStock, SendsCrypto, Symbols
  <2> QED BY <2>1, <2>3, Elsewhere DEF Sends, SendsStock, SendsCrypto
<1> QED BY <1>1, <1>2, <1>3, <1>4 DEF ExecuteNext

LEMMA SendBracketKeeps ==
  ASSUME TypeInv, LotsHold, NEW p \in Passes, PassHolds(p), SendBracket(p)
  PROVE  LotsHold' /\ PassHolds(p)'
<1> USE DEF Sends, SendsStock, SendsCrypto
<1>1. pc[p] = "s_send" /\ RowsQuiet /\ cur[p] \in latest /\ cur[p] \in Approvals
  BY ExecutionFacts DEF SendBracket, RowsQuiet
<1>2. LotsHold' /\ Steady
  BY <1>1, BuyKeeps, QuietKeeps DEF SendBracket
<1>3. CASE AcceptBuy(cur[p]) /\ Saw(p, "s_record", 0)
  <2>1. ent'[cur[p]] = "live" /\ saw'[p] = 0
    BY <1>1, <1>3, ExecutionFacts DEF AcceptBuy, Saw
  <2>2. Fits(p, "s_record")
    BY <2>1 DEF Fits, Bought
  <2> QED BY <1>1, <1>2, <1>3, <2>2, SendsOn
<1>4. CASE \E e : Raise(p, "s_lookup", e)
  <2>1. Fits(p, "s_lookup")
    BY DEF Fits, Bought
  <2> QED BY <1>1, <1>2, <1>4, <2>1, SendsOn
<1> QED BY <1>2, <1>3, <1>4 DEF SendBracket

LEMMA LookUpBracketKeeps ==
  ASSUME TypeInv, LotsHold, NEW p \in Passes, PassHolds(p), LookUpBracket(p)
  PROVE  LotsHold' /\ PassHolds(p)'
<1> USE DEF Sends, SendsStock, SendsCrypto
<1>1. pc[p] = "s_lookup" /\ RowsQuiet /\ UNCHANGED ent
  BY DEF LookUpBracket, RowsQuiet, AccountQuiet, accountVars
<1>2. LotsHold' /\ Steady
  BY <1>1, QuietKeeps DEF LookUpBracket
<1>3. CASE ent[cur[p]] # "none" /\ Saw(p, "s_record", got[cur[p]])
  <2>1. saw'[p] = got[cur[p]]
    BY <1>3, ExecutionFacts DEF Saw
  <2>2. Fits(p, "s_record")
    BY <1>1, <1>3, <2>1, InHandBought DEF Fits, Bought
  <2> QED BY <1>1, <1>2, <1>3, <2>2, SendsOn
<1>4. CASE To(p, "fail")
  <2>1. Fits(p, "fail")
    BY DEF Fits, Bought
  <2> QED BY <1>1, <1>2, <1>4, <2>1, SendsOn
<1> QED BY <1>2, <1>3, <1>4 DEF LookUpBracket

LEMMA BuyCryptoKeeps ==
  ASSUME TypeInv, LotsHold, NEW p \in Passes, PassHolds(p), BuyCrypto(p)
  PROVE  LotsHold' /\ PassHolds(p)'
<1> USE DEF Sends, SendsStock, SendsCrypto
<1>1. pc[p] = "k_buy" /\ RowsQuiet /\ cur[p] \in latest /\ cur[p] \in Approvals
  BY ExecutionFacts DEF BuyCrypto, RowsQuiet
<1>2. LotsHold' /\ Steady
  BY <1>1, BuyKeeps, QuietKeeps DEF BuyCrypto
<1>3. CASE AcceptBuy(cur[p]) /\ To(p, "k_poll")
  <2>1. ent'[cur[p]] = "live"
    BY <1>1, <1>3, ExecutionFacts DEF AcceptBuy
  <2>2. Fits(p, "k_poll")
    BY <2>1 DEF Fits, Bought
  <2> QED BY <1>1, <1>2, <1>3, <2>2, SendsOn
<1>4. CASE To(p, "k_lookup") \/ \E e : Raise(p, "fail", e)
  <2>1. Fits(p, "k_lookup") /\ Fits(p, "fail")
    BY DEF Fits, Bought
  <2> QED BY <1>1, <1>2, <1>4, <2>1, SendsOn
<1> QED BY <1>2, <1>3, <1>4 DEF BuyCrypto

LEMMA LookUpBuyKeeps ==
  ASSUME TypeInv, LotsHold, NEW p \in Passes, PassHolds(p), LookUpBuy(p)
  PROVE  LotsHold' /\ PassHolds(p)'
<1> USE DEF Sends, SendsStock, SendsCrypto
<1>1. pc[p] = "k_lookup" /\ RowsQuiet /\ UNCHANGED ent
  BY DEF LookUpBuy, RowsQuiet, AccountQuiet, accountVars
<1>2. LotsHold' /\ Steady
  BY <1>1, QuietKeeps DEF LookUpBuy
<1>3. CASE ent[cur[p]] # "none" /\ To(p, "k_poll")
  <2>1. Fits(p, "k_poll")
    BY <1>1, <1>3 DEF Fits, Bought
  <2> QED BY <1>1, <1>2, <1>3, <2>1, SendsOn
<1>4. CASE \E e : Raise(p, "fail", e)
  <2>1. Fits(p, "fail")
    BY DEF Fits, Bought
  <2> QED BY <1>1, <1>2, <1>4, <2>1, SendsOn
<1> QED BY <1>2, <1>3, <1>4 DEF LookUpBuy

LEMMA PollBuyKeeps ==
  ASSUME TypeInv, LotsHold, NEW p \in Passes, PassHolds(p), PollBuy(p)
  PROVE  LotsHold' /\ PassHolds(p)'
<1> USE DEF Sends, SendsStock, SendsCrypto
<1>1. pc[p] = "k_poll" /\ RowsQuiet /\ UNCHANGED ent
  BY DEF PollBuy, RowsQuiet, AccountQuiet, accountVars
<1>2. LotsHold' /\ Steady
  BY <1>1, QuietKeeps DEF PollBuy
<1>3. CASE ent[cur[p]] = "filled" /\ Saw(p, "k_stop", got[cur[p]])
  <2>1. saw'[p] = got[cur[p]]
    BY <1>3, ExecutionFacts DEF Saw
  <2>2. Fits(p, "k_stop")
    BY <1>1, <1>3, <2>1, InHandBought DEF Fits, Bought
  <2> QED BY <1>1, <1>2, <1>3, <2>2, SendsOn
<1>4. ASSUME NEW q \in {got[cur[p]], 0}, Saw(p, "k_cancel", q),
             q # 0 => ent[cur[p]] # "filled"
      PROVE  PassHolds(p)'
  <2>1. saw'[p] = q
    BY <1>4, ExecutionFacts DEF Saw
  <2>2. Fits(p, "k_cancel")
    BY <1>1, <1>4, <2>1, InHandBought DEF Fits, Bought
  <2> QED BY <1>1, <1>2, <1>4, <2>2, SendsOn
<1> QED BY <1>2, <1>3, <1>4 DEF PollBuy

LEMMA CancelRemainderKeeps ==
  ASSUME TypeInv, LotsHold, NEW p \in Passes, PassHolds(p), CancelRemainder(p)
  PROVE  LotsHold' /\ PassHolds(p)'
<1> USE DEF Sends, SendsStock, SendsCrypto
<1>1. pc[p] = "k_cancel" /\ RowsQuiet /\ cur[p] \in Approvals
  BY ExecutionFacts DEF CancelRemainder, RowsQuiet
<1>2. LotsHold' /\ Steady
  BY <1>1, CancelKeeps, QuietKeeps DEF CancelRemainder
<1>3. ent[cur[p]] # "none" /\ ent'[cur[p]] # "none" /\ (Whole => saw[p] = 0)
  BY <1>1, <1>2, InHandBought DEF Steady, Bought
<1>4. CASE saw[p] > 0 /\ To(p, "k_stop")
  <2>1. Fits(p, "k_stop")
    BY <1>3, <1>4 DEF Fits, Bought
  <2> QED BY <1>1, <1>2, <1>4, <2>1, SendsOn
<1>5. CASE To(p, "k_settle")
  <2>1. Fits(p, "k_settle")
    BY <1>3, <1>5 DEF Fits, Bought
  <2> QED BY <1>1, <1>2, <1>5, <2>1, SendsOn
<1> QED BY <1>2, <1>4, <1>5 DEF CancelRemainder

LEMMA SettleBuyKeeps ==
  ASSUME TypeInv, LotsHold, NEW p \in Passes, PassHolds(p), SettleBuy(p)
  PROVE  LotsHold' /\ PassHolds(p)'
<1> USE DEF Sends, SendsStock, SendsCrypto
<1>1. pc[p] = "k_settle" /\ RowsQuiet /\ UNCHANGED ent
  BY DEF SettleBuy, RowsQuiet, AccountQuiet, accountVars
<1>2. LotsHold' /\ Steady
  BY <1>1, QuietKeeps DEF SettleBuy
<1>3. CASE got[cur[p]] > 0 /\ Saw(p, "k_stop", got[cur[p]])
  <2>1. saw'[p] = got[cur[p]]
    BY <1>3, ExecutionFacts DEF Saw
  <2>2. Fits(p, "k_stop")
    BY <1>1, <1>3, <2>1, InHandBought DEF Fits, Bought
  <2> QED BY <1>1, <1>2, <1>3, <2>2, SendsOn
<1>4. CASE \E e : Raise(p, "fail", e) \/ Raise(p, "k_flat", e)
  <2>1. Fits(p, "fail") /\ Fits(p, "k_flat")
    BY DEF Fits, Bought
  <2> QED BY <1>1, <1>2, <1>4, <2>1, SendsOn
<1> QED BY <1>2, <1>3, <1>4 DEF SettleBuy

\* All of it is bought and there, or nothing is left to protect.
LEMMA PlaceStopKeeps ==
  ASSUME TypeInv, LotsHold, NEW p \in Passes, PassHolds(p), PlaceStop(p)
  PROVE  LotsHold' /\ PassHolds(p)'
<1> USE DEF Sends, SendsStock, SendsCrypto
<1>1. pc[p] = "k_stop" /\ RowsQuiet /\ saw[p] \in 0 .. Qty
  BY ExecutionFacts DEF PlaceStop, RowsQuiet
<1>2. PICK a \in latest : a = cur[p] /\ a \in Approvals /\ ~Superseded(a)
  BY <1>1, ExecutionFacts
<1> DEFINE q == Min({saw[p], HeldOf(app[a])})
<1>3. /\ q = IF saw[p] <= HeldOf(app[a]) THEN saw[p] ELSE HeldOf(app[a])
      /\ HeldOf(app[a]) \in Nat /\ q \in 0 .. Qty
  BY <1>1, HeldNat, LessOfTwo DEF TypeInv
<1>4. \/ AccountQuiet /\ Unprotected(p) /\ NoFault
      \/ q > 0 /\ AcceptStop(a, q) /\ Saw(p, "k_record", q) /\ NoFault
      \/ q > 0 /\ AcceptStop(a, q) /\ Unprotected(p) /\ Fault("net")
  BY <1>2 DEF PlaceStop
<1> HIDE DEF q
<1>5. ent[a] # "none" /\ (Whole => saw[p] = Qty /\ ent[a] = "filled" /\ got[a] = Qty)
  BY <1>1, <1>2, InHandBought DEF Bought
<1>6. ASSUME Plain(a), q > 0 PROVE q = Qty /\ sold[a] = 0
  <2>1. HeldOf(app[a]) = Left(a) /\ LotBooks(a)
    BY <1>2, <1>6, HeldNewest, ExecutionFacts DEF TypeInv
  <2>2. Whole
    BY <1>6 DEF Plain
  <2> QED BY <1>3, <1>5, <1>6, <2>1, <2>2 DEF LotBooks, Left
<1>7. q > 0 => q \in 1 .. Qty
  BY <1>3
<1>8. LotsHold' /\ Steady
  <2>1. CASE AccountQuiet /\ NoFault
    BY <1>1, <2>1, QuietKeeps
  <2>2. CASE q > 0 /\ AcceptStop(a, q) /\ (NoFault \/ Fault("net"))
    <3>1. Plain(a) => q = Qty /\ ent[a] = "filled" /\ sold[a] = 0
      BY <1>5, <1>6, <2>2 DEF Plain
    <3> QED BY <1>1, <1>2, <1>5, <1>7, <2>2, <3>1, StopKeeps
  <2> QED BY <1>4, <2>1, <2>2
<1>9. CASE q > 0 /\ AcceptStop(a, q) /\ Saw(p, "k_record", q)
  <2>1. saw'[p] = q /\ UNCHANGED ent
    BY <1>9, ExecutionFacts DEF Saw, AcceptStop
  <2>2. Fits(p, "k_record")
    BY <1>2, <1>5, <1>6, <1>9, <2>1 DEF Fits, Bought
  <2> QED BY <1>1, <1>8, <1>9, <2>2, SendsOn
<1>10. CASE \E e : Raise(p, "k_flat", e)
  <2>1. Fits(p, "k_flat")
    BY DEF Fits, Bought
  <2> QED BY <1>1, <1>8, <1>10, <2>1, SendsOn
<1> QED BY <1>4, <1>8, <1>9, <1>10 DEF Unprotected

LEMMA FlattenKeeps ==
  ASSUME TypeInv, LotsHold, NEW p \in Passes, PassHolds(p),
         Flatten(p) \/ PollFlattened(p)
  PROVE  LotsHold' /\ PassHolds(p)'
<1> USE DEF Sends, SendsStock, SendsCrypto
<1>1. pc[p] \in {"k_flat", "k_flatpoll"} /\ RowsQuiet /\ app[cur[p]] \in Symbols
  BY ExecutionFacts DEF Flatten, PollFlattened, RowsQuiet
<1>2. LotsHold' /\ Steady
  BY <1>1, AskCloseKeeps, QuietKeeps DEF Flatten, PollFlattened
<1>3. Fits(p, "k_flatpoll") /\ Fits(p, "fail")
  BY DEF Fits, Bought
<1>4. To(p, "k_flatpoll") \/ To(p, "fail") \/ \E e : Raise(p, "fail", e)
  BY DEF Flatten, PollFlattened
<1>5. PassHolds(p)'
  BY <1>1, <1>2, <1>3, <1>4, SendsOn
<1> QED BY <1>2, <1>5

\* The first row of a lot.
LEMMA RecordKeeps ==
  ASSUME TypeInv, LotsHold, NEW p \in Passes, PassHolds(p),
         RecordBracket(p) \/ RecordCrypto(p)
  PROVE  LotsHold' /\ PassHolds(p)'
<1> USE DEF Sends, SendsStock, SendsCrypto
<1>1. PICK a \in latest : /\ a = cur[p] /\ a \in Approvals /\ ~Superseded(a)
                          /\ app[a] \in Symbols /\ pos[a] = "none" /\ ent[a] # "none"
  BY ExecutionFacts, InHandBought DEF RecordBracket, RecordCrypto, Record, Bought
<1>2. PICK status \in {"open", "pending"}, q \in 0 .. Qty :
        /\ row' = [row EXCEPT ![a] = "submitted"]
        /\ pos' = [pos EXCEPT ![a] = status]
        /\ shr' = [shr EXCEPT ![a] = q]
        /\ status = "pending" => app[a] \in Stocks
        /\ Plain(a) => q = Qty /\ (status = "open" => ent[a] = "filled")
  <2>1. CASE RecordBracket(p)
    <3> DEFINE st == IF saw[p] > 0 THEN "open" ELSE "pending"
    <3>1. pc[p] = "s_record" /\ app[a] \in Stocks /\ (Whole /\ saw[p] > 0 => ent[a] = "filled")
      BY <1>1, <2>1 DEF RecordBracket, Record, PassHolds, ExecutionHolds
    <3>2. /\ row' = [row EXCEPT ![a] = "submitted"]
          /\ pos' = [pos EXCEPT ![a] = st] /\ shr' = [shr EXCEPT ![a] = Qty]
      BY <1>1, <2>1 DEF RecordBracket, Record
    <3>3. Plain(a) /\ st = "open" => ent[a] = "filled"
      BY <3>1 DEF Plain
    <3>4. st \in {"open", "pending"} /\ Qty \in 0 .. Qty
      OBVIOUS
    <3> HIDE DEF st
    <3> QED BY <3>1, <3>2, <3>3, <3>4
  <2>2. CASE RecordCrypto(p)
    <3>1. pc[p] = "k_record" /\ (Plain(a) => saw[p] = Qty /\ ent[a] = "filled")
      BY <1>1, <2>2 DEF RecordCrypto, Record, PassHolds, ExecutionHolds, Plain
    <3>2. /\ row' = [row EXCEPT ![a] = "submitted"]
          /\ pos' = [pos EXCEPT ![a] = "open"] /\ shr' = [shr EXCEPT ![a] = saw[p]]
      BY <1>1, <2>2 DEF RecordCrypto, Record
    <3> QED BY <3>1, <3>2, ExecutionFacts
  <2> QED BY <2>1, <2>2
<1>3. AccountQuiet /\ NoFault /\ RiskQuiet /\ UNCHANGED trd
  BY DEF RecordBracket, RecordCrypto, Record
<1>4. /\ row \in [Approvals -> RowStatus] /\ pos \in [Approvals -> PosStatus]
      /\ shr \in [Approvals -> 0 .. Qty] /\ trd \in [Approvals -> 0 .. 2]
  BY DEF TypeInv, RowsTyped
<1>5. LotsHold'
  <2>1. \A b \in Approvals : Superseded(b) /\ pos[b] = "none" => pos'[b] = "none"
    BY <1>1, <1>2, <1>4
  <2>2. SUFFICES ASSUME Steady PROVE \A b \in Approvals : LotRows(b)' /\ LotBooks(b)'
    BY <1>3, <2>1, RowsKeep
  <2>3. /\ \A b \in Approvals : (Superseded(b)' <=> Superseded(b)) /\ (Plain(b)' => Plain(b))
        /\ UNCHANGED <<app, ent, got, sold, prot, hit, closing, faults>>
        /\ \A b \in Approvals : LotRows(b) /\ LotBooks(b)
    BY <1>3, <2>2, SteadyKeeps, ExecutionFacts
       DEF AccountQuiet, accountVars, RiskQuiet, NoFault
  <2>4. trd[a] = 0
    BY <1>1, <1>4, <2>3 DEF LotRows
  <2> HIDE DEF Superseded, Plain
  <2>5. ASSUME NEW b \in Approvals PROVE LotRows(b)'
    BY <1>1, <1>2, <1>3, <1>4, <2>3, <2>4, BotBrokerAssumption DEF LotRows, Whole
  <2>6. ASSUME NEW b \in Approvals PROVE LotBooks(b)'
    BY <1>1, <1>2, <1>3, <1>4, <2>3 DEF LotBooks, Exposed, Gone, Left
  <2> QED BY <2>5, <2>6
<1>6. pc'[p] = "exec" /\ work'[p] \subseteq latest'
  BY <1>3, ExecutionFacts DEF RecordBracket, RecordCrypto, Record, Back, Loop, RiskQuiet
<1> QED BY <1>5, <1>6, Elsewhere

LEMMA RecordFailureKeeps ==
  ASSUME TypeInv, LotsHold, NEW p \in Passes, PassHolds(p), RecordFailure(p)
  PROVE  LotsHold' /\ PassHolds(p)'
<1> USE DEF Sends
<1>1. PICK a \in Approvals : a = cur[p] /\ pos[a] = "none"
  BY ExecutionFacts DEF RecordFailure
<1>2. PICK r \in {"error", "error_ambiguous"} : row' = [row EXCEPT ![a] = r]
  BY <1>1 DEF RecordFailure
<1>3. /\ AccountQuiet /\ NoFault /\ RiskQuiet /\ UNCHANGED <<pos, shr, trd>>
      /\ row \in [Approvals -> RowStatus] /\ app[a] \in Symbols
  BY <1>1, ExecutionFacts DEF RecordFailure, TypeInv, RowsTyped
<1>4. LotsHold'
  <2>1. SUFFICES ASSUME Steady PROVE \A b \in Approvals : LotRows(b)' /\ LotBooks(b)'
    BY <1>3, RowsKeep
  <2>2. /\ \A b \in Approvals : (Superseded(b)' <=> Superseded(b)) /\ (Plain(b)' => Plain(b))
        /\ UNCHANGED <<app, ent, got, sold, prot, hit, closing, faults>>
        /\ \A b \in Approvals : LotRows(b) /\ LotBooks(b)
    BY <1>3, <2>1, SteadyKeeps, ExecutionFacts
       DEF AccountQuiet, accountVars, RiskQuiet, NoFault
  <2> HIDE DEF Superseded, Plain
  <2>3. ASSUME NEW b \in Approvals PROVE LotRows(b)'
    BY <1>1, <1>2, <1>3, <2>2, BotBrokerAssumption DEF LotRows, Whole
  <2>4. ASSUME NEW b \in Approvals PROVE LotBooks(b)'
    BY <1>3, <2>2 DEF LotBooks, Exposed, Gone, Left
  <2> QED BY <2>3, <2>4
<1>5. pc'[p] = "exec" /\ work'[p] \subseteq latest'
  BY <1>3, ExecutionFacts DEF RecordFailure, Back, Loop, RiskQuiet
<1> QED BY <1>4, <1>5, Elsewhere

(***************************************************************************)
(* The approvals.  What is approved is neither held nor under way, so that  *)
(* nothing of an earlier lot of the symbol is left, unless it was kept from *)
(* the database.                                                            *)
(***************************************************************************)
LEMMA ApproveKeeps ==
  ASSUME TypeInv, LotsHold, AccountQuiet, DbQuiet, NoFault \/ \E k : Fault(k),
         NEW p \in Passes, NEW S \in SUBSET Symbols, ApproveAll(p, S)
  PROVE  LotsHold' /\ PassHolds(p)'
<1>1. PICK T \in SUBSET Unused :
        /\ \A a \in T, b \in Unused \ T : a < b
        /\ \E f \in Bijection(T, S) :
             app' = [a \in Approvals |-> IF a \in T THEN f[a] ELSE app[a]]
        /\ latest' = T /\ Loop(p, "exec", T, Nobody)
  BY DEF ApproveAll
<1>2. PICK f \in Bijection(T, S) :
        app' = [a \in Approvals |-> IF a \in T THEN f[a] ELSE app[a]]
  BY <1>1
<1>3. /\ T \subseteq Approvals /\ \A a \in T : app[a] = "none" /\ app'[a] = f[a] /\ f[a] \in S
      /\ \A a \in Approvals \ T : app'[a] = app[a]
      /\ \A a, b \in T : f[a] = f[b] => a = b
      /\ \A s \in S : \E a \in T : f[a] = s
      /\ "none" \notin Symbols
  BY <1>2 DEF Unused, Bijection, Injection, IsInjective, Surjection
<1>4. /\ \A b \in Approvals : LotRows(b) /\ LotBooks(b)
      /\ \A a, b \in Approvals : a < b /\ app[b] # "none" => app[a] # "none"
      /\ app \in [Approvals -> Symbols \union {"none"}]
      /\ ClosingHeld /\ closing \subseteq Symbols
      /\ Whole' => Whole
  BY FaultsGrow DEF LotsHold, ApprovalOrder, TypeInv, RowsTyped, AccountTyped, AccountTypeOK
<1>5. UNCHANGED <<ent, got, sold, prot, hit, closing, row, pos, shr, trd>>
  BY DEF AccountQuiet, accountVars, DbQuiet, dbVars
<1>6. \A a \in T, b \in Approvals : app[b] # "none" => b < a
  BY <1>3, <1>4 DEF Approvals
<1>7. \A s \in S : /\ HeldOf(s) = 0
                   /\ \A b \in Approvals : app[b] = s => pos[b] \notin {"open", "pending"}
  <2> SUFFICES ASSUME NEW s \in S
               PROVE  /\ HeldOf(s) = 0
                      /\ \A b \in Approvals : app[b] = s => pos[b] \notin {"open", "pending"}
    OBVIOUS
  <2>1. s \notin Held /\ s \notin InFlight /\ s \in Symbols
    BY DEF ApproveAll
  <2>2. HeldOf(s) \in Nat
    BY HeldNat DEF TypeInv
  <2> QED BY <2>1, <2>2 DEF Held, InFlight
<1>8. \A a \in T : ~Superseded(a)'
  BY <1>3, <1>6 DEF Superseded, Lots, Approvals
<1>9. \A b \in Approvals : app[b] \in S => Superseded(b)'
  <2> SUFFICES ASSUME NEW b \in Approvals, app[b] \in S PROVE Superseded(b)'
    OBVIOUS
  <2>1. PICK a \in T : f[a] = app[b]
    BY <1>3
  <2>2. b < a /\ b \notin T /\ a \in Approvals
    BY <1>3, <1>6
  <2> QED BY <1>3, <2>1, <2>2 DEF Superseded, Lots
<1>10. \A b \in Approvals \ T : app[b] \in Symbols \ S =>
         /\ Lots(app[b])' = Lots(app[b]) /\ (Superseded(b)' <=> Superseded(b))
  <2> SUFFICES ASSUME NEW b \in Approvals \ T, app[b] \in Symbols \ S
               PROVE  Lots(app[b])' = Lots(app[b]) /\ (Superseded(b)' <=> Superseded(b))
    OBVIOUS
  <2>1. \A c \in Approvals : app'[c] = app'[b] <=> app[c] = app[b]
    BY <1>3
  <2>2. Lots(app[b])' = Lots(app[b])
    BY <2>1 DEF Lots
  <2> QED BY <2>2 DEF Superseded
<1>11. \A s \in Symbols : Tidy(s)' => Tidy(s)
  <2> SUFFICES ASSUME NEW s \in Symbols, Tidy(s)', NEW b \in Lots(s), Superseded(b),
                      ent[b] # "none"
               PROVE  pos[b] # "none"
    BY DEF Tidy
  <2>1. b \in Approvals \ T /\ app[b] = s /\ b \in Lots(s)'
    BY <1>3 DEF Lots
  <2>2. Superseded(b)'
    BY <1>9, <1>10, <2>1
  <2> QED BY <1>5, <2>1, <2>2 DEF Tidy
<1>12. ASSUME NEW s \in S, Tidy(s)', NEW b \in Lots(s), ent[b] # "none"
       PROVE  pos[b] # "none"
  <2>1. b \in Approvals \ T /\ app[b] = s /\ b \in Lots(s)'
    BY <1>3 DEF Lots
  <2> QED BY <1>5, <1>9, <1>12, <2>1 DEF Tidy
<1>13. \A b \in Approvals : app[b] = "none" =>
         /\ ent[b] = "none" /\ row[b] = "none" /\ got[b] = 0 /\ prot[b] = 0
         /\ b \notin hit /\ pos[b] = "none" /\ sold[b] = 0 /\ trd[b] = 0
  <2> SUFFICES ASSUME NEW b \in Approvals, app[b] = "none"
               PROVE  /\ ent[b] = "none" /\ row[b] = "none" /\ got[b] = 0 /\ prot[b] = 0
                      /\ b \notin hit /\ pos[b] = "none" /\ sold[b] = 0 /\ trd[b] = 0
    OBVIOUS
  <2>1. LotRows(b) /\ sold[b] \in Nat /\ trd[b] \in Nat
    BY <1>4 DEF TypeInv, AccountTyped, AccountTypeOK, RowsTyped
  <2> QED BY <2>1 DEF LotRows
<1>14. ApprovalOrder'
  <2>1. ASSUME NEW a \in Approvals, NEW b \in Approvals, a < b, app'[b] # "none"
        PROVE  app'[a] # "none"
    <3>1. CASE b \in T
      <4> SUFFICES ASSUME a \notin T, app[a] = "none" PROVE FALSE
        BY <1>3
      <4>1. b < a
        BY <1>1, <3>1 DEF Unused
      <4> QED BY <2>1, <4>1 DEF Approvals
    <3>2. CASE b \notin T
      BY <1>3, <1>4, <2>1, <3>2
    <3> QED BY <3>1, <3>2
  <2>2. \A a \in latest' : app'[a] # "none" /\ ~Superseded(a)'
    BY <1>1, <1>3, <1>8
  <2> QED BY <2>1, <2>2 DEF ApprovalOrder
<1>15. ASSUME NEW b \in Approvals PROVE LotRows(b)' /\ LotBooks(b)'
  <2>1. CASE b \in T
    <3>1. app'[b] \in Symbols /\ ~Superseded(b)'
      BY <1>3, <1>8, <2>1
    <3> HIDE DEF Superseded, Plain
    <3>2. LotRows(b)'
      BY <1>3, <1>5, <1>13, <2>1, <3>1 DEF LotRows
    <3>3. LotBooks(b)'
      BY <1>3, <1>5, <1>13, <2>1, <3>1 DEF LotBooks, Gone
    <3> QED BY <3>2, <3>3
  <2>2. CASE b \notin T /\ app[b] = "none"
    <3>1. app'[b] = "none"
      BY <1>3, <2>2
    <3> HIDE DEF Superseded, Plain
    <3>2. LotRows(b)'
      BY <1>5, <1>13, <2>2, <3>1 DEF LotRows
    <3>3. LotBooks(b)'
      BY <1>5, <1>13, <2>2, <3>1 DEF LotBooks, Gone, Exposed, Left
    <3> QED BY <3>2, <3>3
  <2>3. CASE b \notin T /\ app[b] # "none"
    <3>1. app'[b] = app[b] /\ app[b] \in Symbols /\ LotRows(b) /\ LotBooks(b)
      BY <1>3, <1>4, <2>3
    <3>2. Superseded(b)' => Superseded(b) \/ app[b] \in S
      BY <1>10, <2>3, <3>1
    <3>3. Plain(b)' => Plain(b)
      <4>1. Plain(b)' => Whole' /\ Tidy(app[b])'
        BY <3>1 DEF Plain
      <4> QED BY <1>4, <1>11, <3>1, <4>1 DEF Plain
    <3>4. Plain(b)' /\ app[b] \in S => ~Exposed(b)
      <4> SUFFICES ASSUME Plain(b)', app[b] \in S, Exposed(b) PROVE FALSE
        OBVIOUS
      <4>1. Left(b) = 0 /\ b \in Lots(app[b])
        BY <1>7, HeldParts DEF TypeInv, Lots
      <4>2. Tidy(app[b])'
        BY <3>1 DEF Plain
      <4>3. ent[b] = "live" /\ pos[b] \in PosStatus
        BY <4>1 DEF Exposed, TypeInv, RowsTyped
      <4>4. pos[b] # "none"
        BY <1>12, <3>1, <4>1, <4>2, <4>3
      <4> QED BY <1>7, <3>1, <3>3, <4>3, <4>4 DEF LotBooks, LotRows, Gone, PosStatus
    <3> HIDE DEF Superseded, Plain
    <3>5. LotRows(b)'
      BY <1>4, <1>5, <1>7, <3>1, <3>2 DEF LotRows
    <3>6. LotBooks(b)'
      BY <1>5, <3>1, <3>2, <3>3, <3>4 DEF LotBooks, Gone, Exposed, Left
    <3> QED BY <3>5, <3>6
  <2> QED BY <2>1, <2>2, <2>3
<1>16. ClosingHeld'
  <2> SUFFICES ASSUME NEW s \in closing, Whole', Tidy(s)'
               PROVE  \E b \in Lots(s)' : Left(b)' > 0
    BY <1>5 DEF ClosingHeld
  <2>1. PICK b \in Lots(s) : Left(b) > 0
    BY <1>4, <1>11 DEF ClosingHeld
  <2>2. b \in Approvals /\ app[b] = s /\ s \in Symbols
    BY <1>4 DEF Lots
  <2>3. s \notin S
    BY <1>7, <2>1, HeldParts DEF TypeInv
  <2>4. b \in Lots(s)' /\ Left(b)' > 0
    BY <1>3, <1>5, <2>1, <2>2 DEF Lots, Left
  <2> QED BY <2>4
<1>17. LotsHold'
  BY <1>14, <1>15, <1>16 DEF LotsHold
<1>18. pc'[p] = "exec" /\ work'[p] \subseteq latest'
  BY <1>1 DEF Loop, TypeInv, LocalsTyped
<1> QED BY <1>17, <1>18, Elsewhere

LEMMA RiskKeeps ==
  ASSUME TypeInv, LotsHold, NEW p \in Passes, PassHolds(p), RiskRun(p)
  PROVE  LotsHold' /\ PassHolds(p)'
<1>1. AccountQuiet /\ DbQuiet
  BY DEF RiskRun
<1>2. CASE \E S \in SUBSET Symbols : ApproveAll(p, S) /\ (NoFault \/ Fault("read"))
  BY <1>1, <1>2, ApproveKeeps
<1>3. CASE Loop(p, "exec", {}, Nobody) /\ RiskQuiet /\ NoFault
  <2>1. LotsHold'
    BY <1>1, <1>3, QuietKeeps DEF RowsQuiet
  <2>2. pc'[p] = "exec" /\ work'[p] \subseteq latest'
    BY <1>3, ExecutionFacts DEF Loop
  <2> QED BY <2>1, <2>2, Elsewhere
<1> QED BY <1>2, <1>3 DEF RiskRun

LEMMA ExecutionKeeps ==
  ASSUME TypeInv, LotsHold, NEW p \in Passes, PassHolds(p), ExecutionStep(p)
  PROVE  LotsHold' /\ PassHolds(p)'
BY RiskKeeps, ExecuteNextKeeps, RecordFailureKeeps, SendBracketKeeps, LookUpBracketKeeps,
   RecordKeeps, BuyCryptoKeeps, LookUpBuyKeeps, PollBuyKeeps, CancelRemainderKeeps,
   SettleBuyKeeps, PlaceStopKeeps, FlattenKeeps
   DEF ExecutionStep

(***************************************************************************)
(* One pass at a time.                                                      *)
(***************************************************************************)
LEMMA InitKeeps == Init => BotInv
<1> SUFFICES ASSUME Init PROVE BotInv
  OBVIOUS
<1> USE DEF Init, AccountInit, PassInit
<1>1. ApprovalOrder /\ ClosingHeld
  BY DEF ApprovalOrder, ClosingHeld
<1>2. ASSUME NEW a \in Approvals PROVE LotRows(a) /\ LotBooks(a)
  BY DEF LotRows, LotBooks, Exposed, Left, Gone
<1>3. ASSUME NEW p \in Passes PROVE PassHolds(p)
  BY <1>3 DEF PassHolds, MonitorHolds, SnapHolds, ExecutionHolds, Closes, Reconciling,
              Sends, SendsStock, SendsCrypto
<1> QED BY <1>1, <1>2, <1>3 DEF BotInv, LotsHold

LEMMA StepKeeps ==
  ASSUME OnePass, TypeInv, BotInv, [Next]_vars
  PROVE  BotInv'
<1>1. LotsHold /\ \A p \in Passes : PassHolds(p)
  BY DEF BotInv
<1>2. CASE Market
  <2>1. RowsQuiet /\ MarketMoves /\ UNCHANGED localVars
    BY <1>2 DEF Market, RowsQuiet
  <2>2. LotsHold' /\ Onward /\ Steady
    BY <1>1, <2>1, MarketKeeps
  <2> QED BY <1>1, <2>1, <2>2, WaitHolds DEF BotInv
<1>3. ASSUME NEW p \in Passes, PassStep(p) \/ Crash(p)
                               \/ \E m \in {"daily", "monitor", "rerun"} : StartPass(p, m)
      PROVE  BotInv'
  <2>1. \A q \in Passes : q = p
    BY DEF OnePass
  <2>2. LotsHold' /\ PassHolds(p)'
    <3>1. CASE PassStep(p)
      BY <1>1, <3>1, MonitorKeeps, ExecutionKeeps DEF PassStep
    <3>2. CASE Crash(p)
      <4>1. LotsHold'
        BY <1>1, <3>2, QuietKeeps DEF Crash, RowsQuiet
      <4>2. PassHolds(p)'
        BY <3>2, LeaveHolds DEF Crash, TypeInv
      <4> QED BY <4>1, <4>2
    <3>3. ASSUME NEW m \in {"daily", "monitor", "rerun"}, StartPass(p, m)
          PROVE  LotsHold' /\ PassHolds(p)'
      <4>1. LotsHold'
        BY <1>1, <3>3, QuietKeeps DEF StartPass, RowsQuiet
      <4>2. pc'[p] = "read" \/ (pc'[p] = "exec" /\ work'[p] \subseteq latest')
        BY <1>1, <3>3, ExecutionFacts DEF StartPass, RiskQuiet
      <4> QED BY <4>1, <4>2, Elsewhere
    <3> QED BY <1>3, <3>1, <3>2, <3>3
  <2>3. \A q \in Passes : PassHolds(q)'
    BY <2>1, <2>2
  <2> QED BY <2>2, <2>3 DEF BotInv
<1>4. CASE UNCHANGED vars
  <2>1. RowsQuiet /\ AccountQuiet /\ NoFault /\ UNCHANGED localVars
    BY <1>4 DEF vars, RowsQuiet, DbQuiet, RiskQuiet, AccountQuiet, NoFault
  <2>2. LotsHold' /\ Onward /\ Steady
    BY <1>1, <2>1, QuietKeeps
  <2> QED BY <1>1, <2>1, <2>2, WaitHolds DEF BotInv
<1> QED BY <1>2, <1>3, <1>4 DEF Next

\* The inductive invariant, for any account, as long as passes do not overlap.
\* Nothing in the repository enforces that: a pass takes no lock, and the batch
\* files of the stages start it independently of one another.  OnePass is an
\* assumption on how the bot is operated.
THEOREM BotInvariant == ASSUME OnePass PROVE Spec => [](TypeInv /\ BotInv)
<1>1. Init => TypeInv /\ BotInv
  BY InitTyped, InitKeeps
<1>2. TypeInv /\ BotInv /\ [Next]_vars => (TypeInv /\ BotInv)'
  BY StepTyped, StepKeeps
<1> QED BY <1>1, <1>2, PTL DEF Spec

\* Of a symbol whose every order is in positions no superseded one was kept
\* from it.
LEMMA KnownPlain ==
  ASSUME Whole, NEW a \in Approvals, Known(app[a])
  PROVE  Plain(a)
BY DEF Known, Tidy, Plain

\* A closed lot was bought and sold again (monitor_node's _reconcile): for any
\* number of approvals and symbols, under OnePass.
THEOREM ClosedIsGone == ASSUME OnePass PROVE Spec => []NoPhantomCloseOfWhole
<1>1. TypeInv /\ BotInv => NoPhantomCloseOfWhole
  <2> SUFFICES ASSUME TypeInv, BotInv, Whole, NEW a \in Approvals, pos[a] = "closed",
                      Known(app[a])
               PROVE  got[a] > 0 /\ sold[a] = got[a] /\ ent[a] # "live"
    BY DEF NoPhantomCloseOfWhole, NoPhantomClose, Whole
  <2>1. LotRows(a) /\ LotBooks(a) /\ Plain(a)
    BY KnownPlain DEF BotInv, LotsHold
  <2> QED BY <2>1 DEF LotRows, LotBooks, Gone
<1> QED BY <1>1, BotInvariant, PTL

\* No symbol is bought while an earlier buy of it is exposed and known, under
\* OnePass.
THEOREM OneExposure == ASSUME OnePass PROVE Spec => []NoSecondExposure
<1>1. TypeInv /\ BotInv => NoSecondExposure
  <2> SUFFICES ASSUME TypeInv, BotInv, Whole, NEW a \in Approvals, NEW b \in Approvals,
                      a < b, app[a] = app[b], Exposed(a), Known(app[a])
               PROVE  FALSE
    BY DEF NoSecondExposure, Whole
  <2>1. LotBooks(a) /\ Plain(a)
    BY KnownPlain DEF BotInv, LotsHold
  <2>2. Superseded(a)
    BY DEF Superseded, Lots
  <2> QED BY <2>1, <2>2 DEF LotBooks
<1> QED BY <1>1, BotInvariant, PTL

\* In a safe report a recorded symbol is in order, and what is held of it is
\* an open or pending lot.
LEMMA SafeHeld ==
  ASSUME TypeInv, BotInv, Whole, NEW F, Safe(F), NEW s \in Symbols, HeldOf(s) > 0,
         Recorded(s)
  PROVE  /\ \A a \in Lots(s) : Plain(a)
         /\ \E a \in Lots(s) : Left(a) > 0 /\ pos[a] \in {"open", "pending"}
<1>1. \A a \in Approvals : LotRows(a) /\ LotBooks(a) /\ trd[a] \in Nat
                           /\ pos[a] \in PosStatus /\ got[a] \in Nat /\ sold[a] \in Nat
  BY DEF BotInv, LotsHold, TypeInv, RowsTyped, AccountTyped, AccountTypeOK
<1>2. ASSUME NEW a \in Lots(s), ent[a] # "none"
      PROVE  pos[a] \in {"open", "pending", "closed"}
  <2>1. a \in Approvals /\ app[a] = s /\ row[a] # "none"
    BY <1>2 DEF Lots, Recorded
  <2>2. ~HeldUnexplained(a) /\ InPosition(a)
    BY <2>1 DEF Safe, Ledgered, Discrepancy, InPosition
  <2>3. trd[a] > 0 => pos[a] = "closed"
    BY <1>1, <2>1 DEF LotRows
  <2> QED BY <1>1, <2>1, <2>2, <2>3 DEF HeldUnexplained
<1>3. ASSUME NEW a \in Lots(s) PROVE Plain(a)
  <2>1. app[a] = s
    BY DEF Lots
  <2> QED BY <1>2, <2>1 DEF Plain, Tidy
<1>4. PICK a \in Lots(s) : Left(a) > 0
  BY HeldParts DEF TypeInv
<1>5. a \in Approvals /\ Plain(a) /\ LotRows(a) /\ LotBooks(a)
  BY <1>1, <1>3 DEF Lots
<1>6. ent[a] # "none"
  BY <1>1, <1>4, <1>5 DEF LotRows, Left
<1>7. pos[a] # "closed"
  BY <1>1, <1>4, <1>5 DEF LotBooks, Gone, Left
<1> QED BY <1>2, <1>3, <1>4, <1>6, <1>7

\* What a safe report of the evaluation's reconciliation says of the account
\* under OnePass, taken at any moment of the one pass that is under way: what is
\* held of a recorded symbol has a row in positions ...
THEOREM SafeIsBacked == ASSUME OnePass PROVE Spec => []SafeMeansBacked
<1>1. TypeInv /\ BotInv => SafeMeansBacked
  BY SafeHeld DEF SafeMeansBacked, Whole, Backed
<1> QED BY <1>1, BotInvariant, PTL

\* ... and, under OnePass as well, of a crypto symbol all of it is under a stop.
THEOREM SafeIsCovered == ASSUME OnePass PROVE Spec => []SafeMeansCovered
<1>1. TypeInv /\ BotInv => SafeMeansCovered
  <2> SUFFICES ASSUME TypeInv, BotInv, NEW F \in SUBSET Approvals, Safe(F), Whole,
                      NEW s \in Cryptos, HeldOf(s) > 0, Recorded(s)
               PROVE  Covered(s)
    BY DEF SafeMeansCovered, Whole
  <2>1. s \in Symbols /\ s \notin Stocks
    BY DEF Symbols
  <2>2. PICK a \in Lots(s) : Left(a) > 0 /\ pos[a] \in {"open", "pending"}
    BY <2>1, SafeHeld
  <2>3. \A b \in Lots(s) : b \in Approvals /\ app[b] = s /\ Plain(b) /\ LotRows(b) /\ LotBooks(b)
    BY <2>1, SafeHeld DEF Lots, BotInv, LotsHold
  <2>4. /\ a \in Approvals /\ app[a] = s /\ pos[a] = "open" /\ ~Superseded(a) /\ row[a] # "none"
        /\ trd[a] = 0 /\ prot[a] \in Nat /\ got[a] \in Nat /\ sold[a] \in Nat
    <3>1. /\ a \in Approvals /\ app[a] = s /\ LotRows(a) /\ trd[a] \in Nat
          /\ prot[a] \in Nat /\ got[a] \in Nat /\ sold[a] \in Nat
      BY <2>3 DEF TypeInv, RowsTyped, AccountTyped, AccountTypeOK
    <3> QED BY <2>1, <2>2, <3>1 DEF LotRows
  <2>5. s \in Protected(F)
    BY <2>4 DEF Safe, Ledgered, Discrepancy, OpenUnsupported
  <2>6. PICK b \in Lots(s) : prot[b] > 0
    BY <2>1, <2>5 DEF Protected
  <2>7. ~Superseded(b)
    BY <2>3, <2>6 DEF LotBooks, LotRows, Plain, Exposed, Left
  <2>8. a = b
    BY <2>3, <2>4, <2>7, OneNewest
  <2>9. HeldOf(s) = Left(a) /\ Reserved(s) = prot[a]
    BY <2>3, <2>4, HeldNewest DEF BotInv, TypeInv
  <2>10. prot[a] = Qty /\ Left(a) = Qty
    BY <2>3, <2>6, <2>8 DEF LotBooks, LotRows, Plain, Left
  <2> QED BY <2>9, <2>10 DEF Covered
<1> QED BY <1>1, BotInvariant, PTL

(***************************************************************************)
(* Failures.  With one misfortune at most, a step that needs one finds none *)
(* before it.                                                               *)
(***************************************************************************)
LEMMA FirstFault ==
  ASSUME TypeInv, MaxFaults <= 1, NEW k, Fault(k)
  PROVE  faults = {} /\ faults' = {k}
<1>1. IsFiniteSet(faults)
  <2>1. IsFiniteSet({"crash", "net", "read", "partial"})
    <3>1. IsFiniteSet({"crash"} \union {"net"} \union {"read"} \union {"partial"})
      BY FS_Singleton, FS_Union
    <3> QED BY <3>1
  <2>2. faults \subseteq {"crash", "net", "read", "partial"}
    BY DEF TypeInv, AccountTyped, AccountTypeOK
  <2> QED BY <2>1, <2>2, FS_Subset
<1>2. Cardinality(faults) \in Nat /\ Cardinality(faults) < MaxFaults
  BY <1>1, FS_CardinalityType DEF Fault
<1>3. Cardinality(faults) = 0
  BY <1>2
<1>4. faults = {}
  BY <1>1, <1>3, FS_EmptySet
<1> QED BY <1>4 DEF Fault

\* Nothing but a buy exposes a lot.
Calm(a) ==
  /\ Exposed(a)' => Exposed(a)
  /\ ent'[a] = "live" => ent[a] = "live"
  /\ ent[a] = "none" => ent'[a] = "none"

LEMMA MarketCalm ==
  ASSUME TypeInv, UNCHANGED app, MarketMoves
  PROVE  /\ \A a \in Approvals : Calm(a)
         /\ NoFault \/ Fault("partial")
<1> USE DEF TypeInv, AccountTyped, AccountTypeOK, Calm, Exposed, Left
<1>1. ASSUME NEW b \in Approvals, Fills(b) PROVE \A a \in Approvals : Calm(a)
  BY <1>1 DEF Fills
<1>2. ASSUME NEW b \in Approvals, FillsPartly(b) PROVE \A a \in Approvals : Calm(a)
  BY <1>2 DEF FillsPartly
<1>3. ASSUME NEW b \in Approvals, Lapses(b) PROVE \A a \in Approvals : Calm(a)
  BY <1>3 DEF Lapses
<1>4. ASSUME NEW b \in Approvals, Exits(b) PROVE \A a \in Approvals : Calm(a)
  <2>1. PICK c \in Lots(app[b]) : sold' = [sold EXCEPT ![c] = @ + prot[b]]
    BY <1>4 DEF Exits
  <2>2. \A a \in Approvals : sold'[a] >= sold[a] /\ sold'[a] \in Nat
    BY <2>1, LotsOf
  <2> QED BY <1>4, <2>2 DEF Exits
<1>5. ASSUME NEW s \in Symbols, CloseFills(s) PROVE \A a \in Approvals : Calm(a)
  BY <1>5 DEF CloseFills
<1>6. NoFault \/ Fault("partial")
  BY DEF MarketMoves, Fills, FillsPartly, Lapses, Exits, CloseFills
<1> QED BY <1>1, <1>2, <1>3, <1>4, <1>5, <1>6 DEF MarketMoves

LEMMA CallCalm ==
  ASSUME TypeInv
  PROVE  /\ AccountQuiet => \A a \in Approvals : Calm(a)
         /\ \A s : CancelAll(s) \/ AcceptClose(s) => \A a \in Approvals : Calm(a)
         /\ \A b \in Approvals : CancelBuy(b) => \A a \in Approvals : Calm(a)
         /\ \A b, q : AcceptStop(b, q) => \A a \in Approvals : Calm(a)
         /\ \A b : AcceptBuy(b) => \A a \in Approvals \ {b} : Calm(a)
<1> USE DEF TypeInv, AccountTyped, AccountTypeOK, Calm, Exposed, Left
<1>1. AccountQuiet => \A a \in Approvals : Calm(a)
  BY DEF AccountQuiet, accountVars
<1>2. ASSUME NEW s, CancelAll(s) \/ AcceptClose(s) PROVE \A a \in Approvals : Calm(a)
  BY <1>2 DEF CancelAll, AcceptClose
<1>3. ASSUME NEW b \in Approvals, CancelBuy(b) PROVE \A a \in Approvals : Calm(a)
  BY <1>3 DEF CancelBuy
<1>4. ASSUME NEW b, NEW q, AcceptStop(b, q) PROVE \A a \in Approvals : Calm(a)
  BY <1>4 DEF AcceptStop
<1>5. ASSUME NEW b, AcceptBuy(b) PROVE \A a \in Approvals \ {b} : Calm(a)
  BY <1>5 DEF AcceptBuy
<1> QED BY <1>1, <1>2, <1>3, <1>4, <1>5

\* A pass that is at no entry, before the step and after it.
LEMMA IdleError ==
  ASSUME OnePass, FreeHolds, NEW p \in Passes, pc[p] \notin Sends, pc'[p] \notin Sends,
         faults \subseteq faults', \A a \in Approvals : Calm(a),
         \A a \in Approvals : row'[a] \in {"none", "error"} => row'[a] = row[a]
  PROVE  ErrorInv'
<1>1. \A a \in Approvals : ~InHand(a)
  BY DEF OnePass, InHand
<1>2. FreeHolds'
  BY <1>1 DEF FreeHolds, Calm
<1>3. \A q \in Passes : FailureHolds(q)'
  BY DEF OnePass, FailureHolds, Sends, SendsStock, SendsCrypto
<1> QED BY <1>2, <1>3 DEF ErrorInv

LEMMA MonitorError ==
  ASSUME OnePass, TypeInv, BotInv, ErrorInv, NEW p \in Passes, MonitorStep(p)
  PROVE  ErrorInv'
<1> USE DEF Sends, SendsStock, SendsCrypto
<1>1. LotsHold /\ PassHolds(p) /\ FreeHolds
  BY DEF BotInv, ErrorInv
<1>2. /\ pc \in [Passes -> Labels] /\ row \in [Approvals -> RowStatus]
      /\ (DbQuiet => UNCHANGED row) /\ \A a : CloseInDb(a) => UNCHANGED row
  BY DEF TypeInv, LocalsTyped, RowsTyped, DbQuiet, dbVars, CloseInDb
<1> USE DEF Loop, Leave, End, Back, GiveUp, To, Take, Drop
<1>3. pc[p] \notin Sends /\ pc'[p] \notin Sends
  <2>1. CASE ReadPositions(p) \/ ResolvePending(p) \/ BookPendingExit(p) \/ Promote(p)
    BY <1>2, <2>1 DEF ReadPositions, ResolvePending, ResolveExited, ResolveCanceled,
                      LeavePending, BookPendingExit, Promote
  <2>2. CASE ReconcileLot(p) \/ FinishReconcile(p) \/ Review(p)
    BY <1>2, <2>2 DEF ReconcileLot, FinishReconcile, Review
  <2>3. CASE CancelResting(p) \/ ClosePosition(p) \/ PollFlat(p) \/ BookClose(p)
    BY <1>2, <2>3 DEF CancelResting, ClosePosition, PollFlat, BookClose
  <2> QED BY <2>1, <2>2, <2>3 DEF MonitorStep
<1>4. faults \subseteq faults'
  BY FaultsGrow
     DEF MonitorStep, ReadPositions, ResolvePending, ResolveExited, ResolveCanceled,
         LeavePending, BookPendingExit, Promote, ReconcileLot, FinishReconcile, Review,
         CancelResting, ClosePosition, PollFlat, BookClose
<1>5. \A a \in Approvals : Calm(a)
  BY <1>1, CallCalm
     DEF MonitorStep, ReadPositions, ResolvePending, BookPendingExit, Promote,
         ReconcileLot, FinishReconcile, Review, CancelResting, ClosePosition, PollFlat,
         BookClose
<1>6. \A a \in Approvals : row'[a] \in {"none", "error"} => row'[a] = row[a]
  <2>1. CASE ResolvePending(p)
    BY <1>2, <2>1 DEF ResolvePending, ResolveExited, ResolveCanceled, LeavePending
  <2>2. CASE ~ResolvePending(p)
    BY <1>2, <2>2
       DEF MonitorStep, ReadPositions, BookPendingExit, Promote, ReconcileLot,
           FinishReconcile, Review, CancelResting, ClosePosition, PollFlat, BookClose
  <2> QED BY <2>1, <2>2
<1> QED BY <1>1, <1>3, <1>4, <1>5, <1>6, IdleError

\* From call to call of an entry the other lots are as they were.
LEMMA SendError ==
  ASSUME OnePass, TypeInv, BotInv, ErrorInv, NEW p \in Passes, pc[p] \in Sends,
         NEW l \in Sends, pc'[p] = l, cur'[p] = cur[p], RowsQuiet, faults \subseteq faults',
         \A a \in Approvals \ {cur[p]} : Calm(a), FailureHolds(p)'
  PROVE  ErrorInv'
<1>1. \A a \in Approvals : /\ InHand(a) => a = cur[p]
                           /\ InHand(a)' <=> a = cur[p]
  BY DEF OnePass, InHand
<1>2. UNCHANGED row
  BY DEF RowsQuiet, DbQuiet, dbVars
<1>3. FreeHolds'
  BY <1>1, <1>2 DEF ErrorInv, FreeHolds, Calm
<1>4. \A q \in Passes : FailureHolds(q)'
  BY DEF OnePass
<1> QED BY <1>3, <1>4 DEF ErrorInv

LEMMA ErrorFacts ==
  ASSUME TypeInv, BotInv, ErrorInv, NEW p \in Passes
  PROVE  /\ pc \in [Passes -> Labels] /\ cur \in [Passes -> Named \union {NoLot}]
         /\ saw \in [Passes -> 0 .. Qty]
         /\ exc \in [Passes -> {"none", "unclear", "refused"}]
         /\ FailureHolds(p) /\ FreeHolds /\ LotsHold /\ PassHolds(p)
         /\ \A a \in Approvals : /\ LotRows(a) /\ got[a] \in Nat /\ sold[a] \in Nat
                                 /\ ent[a] = "none" => ~Exposed(a)
         /\ pc[p] \in Sends => cur[p] \in Approvals /\ app[cur[p]] \in Symbols
         /\ ent \in [Approvals -> EntStatus]
<1>1. LotsHold /\ PassHolds(p) /\ FailureHolds(p) /\ FreeHolds
  BY DEF BotInv, ErrorInv
<1>2. \A a \in Approvals : LotRows(a) /\ got[a] \in Nat /\ sold[a] \in Nat
  BY <1>1, ExecutionFacts DEF TypeInv, AccountTyped, AccountTypeOK
<1>3. \A a \in Approvals : ent[a] = "none" => ~Exposed(a)
  BY <1>2 DEF LotRows, Exposed, Left
<1> QED BY <1>1, <1>2, <1>3, ExecutionFacts

LEMMA BracketError ==
  ASSUME OnePass, MaxFaults <= 1, TypeInv, BotInv, ErrorInv, NEW p \in Passes,
         SendBracket(p) \/ LookUpBracket(p)
  PROVE  ErrorInv'
<1> USE DEF Sends, SendsStock, SendsCrypto
<1>1. PICK a \in Approvals : a = cur[p]
  BY ErrorFacts DEF SendBracket, LookUpBracket
<1>2. RowsQuiet /\ cur' = cur /\ faults \subseteq faults'
  BY FaultsGrow DEF SendBracket, LookUpBracket, RowsQuiet, Saw, To, Raise
<1>3. \A b \in Approvals \ {a} : Calm(b)
  BY <1>1, CallCalm DEF SendBracket, LookUpBracket
<1>4. CASE SendBracket(p)
  <2>1. pc[p] = "s_send" /\ pc'[p] \in {"s_record", "s_lookup"}
    BY <1>4, ErrorFacts DEF SendBracket, Saw, Raise
  <2>2. pc'[p] = "s_lookup" /\ exc'[p] = "refused" => ent'[a] = "none"
    BY <1>1, <1>4, ErrorFacts DEF SendBracket, Saw, Raise, AccountQuiet, accountVars
  <2>3. FailureHolds(p)'
    BY <1>1, <1>2, <2>1, <2>2 DEF FailureHolds
  <2> QED BY <1>1, <1>2, <1>3, <2>1, <2>3, SendError
<1>5. CASE LookUpBracket(p)
  <2>1. /\ pc[p] = "s_lookup" /\ pc'[p] \in {"s_record", "fail"}
        /\ exc' = exc /\ AccountQuiet
    BY <1>5, ErrorFacts DEF LookUpBracket, Saw, To
  <2>2. exc[p] = "refused" => ent[a] = "none"
    BY <1>1, <2>1, ErrorFacts DEF FailureHolds
  <2>3. exc[p] = "refused" => ~Exposed(a)'
    BY <1>1, <2>1, <2>2, ErrorFacts, CallCalm DEF Calm
  <2>4. FailureHolds(p)'
    BY <1>1, <1>2, <2>1, <2>3 DEF FailureHolds
  <2> QED BY <1>1, <1>2, <1>3, <2>1, <2>4, SendError
<1> QED BY <1>4, <1>5

LEMMA CryptoBuyError ==
  ASSUME OnePass, MaxFaults <= 1, TypeInv, BotInv, ErrorInv, NEW p \in Passes,
         BuyCrypto(p) \/ LookUpBuy(p) \/ PollBuy(p)
  PROVE  ErrorInv'
<1> USE DEF Sends, SendsStock, SendsCrypto
<1>1. PICK a \in Approvals : a = cur[p]
  BY ErrorFacts DEF BuyCrypto, LookUpBuy, PollBuy
<1>2. RowsQuiet /\ cur' = cur /\ faults \subseteq faults'
  BY FaultsGrow DEF BuyCrypto, LookUpBuy, PollBuy, RowsQuiet, Saw, To, Raise
<1>3. \A b \in Approvals \ {a} : Calm(b)
  BY <1>1, CallCalm DEF BuyCrypto, LookUpBuy, PollBuy
<1>4. CASE BuyCrypto(p)
  <2>1. pc[p] = "k_buy" /\ pc'[p] \in {"k_poll", "k_lookup", "fail"}
    BY <1>4, ErrorFacts DEF BuyCrypto, To, Raise
  <2>2. pc'[p] = "fail" /\ exc'[p] = "refused" => ~Exposed(a)'
    <3>1. pc'[p] = "fail" /\ exc'[p] = "refused" => AccountQuiet /\ Fault("read")
      BY <1>4, ErrorFacts DEF BuyCrypto, To, Raise
    <3>2. faults = {} => ~Exposed(a)
      BY <1>1, <2>1, ErrorFacts DEF FailureHolds
    <3> QED BY <3>1, <3>2, FirstFault, CallCalm DEF Calm
  <2>3. FailureHolds(p)'
    BY <1>1, <1>2, <2>1, <2>2 DEF FailureHolds
  <2> QED BY <1>1, <1>2, <1>3, <2>1, <2>3, SendError
<1>5. CASE LookUpBuy(p)
  <2>1. /\ pc[p] = "k_lookup" /\ pc'[p] \in {"k_poll", "fail"} /\ AccountQuiet
        /\ pc'[p] = "fail" /\ exc'[p] = "refused" => ent[a] = "none"
    BY <1>1, <1>5, ErrorFacts DEF LookUpBuy, To, Raise
  <2>2. pc'[p] = "fail" /\ exc'[p] = "refused" => ~Exposed(a)'
    BY <2>1, ErrorFacts, CallCalm DEF Calm
  <2>3. FailureHolds(p)'
    BY <1>1, <1>2, <2>1, <2>2 DEF FailureHolds
  <2> QED BY <1>1, <1>2, <1>3, <2>1, <2>3, SendError
<1>6. CASE PollBuy(p)
  <2>1. /\ pc[p] = "k_poll" /\ pc'[p] \in {"k_stop", "k_cancel"} /\ AccountQuiet
        /\ pc'[p] = "k_stop" => ent[a] = "filled"
    BY <1>1, <1>6, ErrorFacts DEF PollBuy, Saw
  <2>2. FailureHolds(p)'
    BY <1>1, <1>2, <2>1 DEF FailureHolds, AccountQuiet, accountVars
  <2> QED BY <1>1, <1>2, <1>3, <2>1, <2>2, SendError
<1> QED BY <1>4, <1>5, <1>6

\* What is still live when the order is settled is so because canceling it
\* failed, so that it cannot have filled in part.
LEMMA SettleError ==
  ASSUME OnePass, MaxFaults <= 1, TypeInv, BotInv, ErrorInv, NEW p \in Passes,
         CancelRemainder(p) \/ SettleBuy(p)
  PROVE  ErrorInv'
<1> USE DEF Sends, SendsStock, SendsCrypto
<1>1. PICK a \in Approvals : a = cur[p]
  BY ErrorFacts DEF CancelRemainder, SettleBuy
<1>2. RowsQuiet /\ cur' = cur /\ faults \subseteq faults'
  BY FaultsGrow DEF CancelRemainder, SettleBuy, RowsQuiet, Saw, To, Raise
<1>3. \A b \in Approvals : Calm(b)
  BY <1>1, CallCalm DEF CancelRemainder, SettleBuy
<1>4. CASE CancelRemainder(p)
  <2>1. /\ pc[p] = "k_cancel"
        /\ pc'[p] = IF saw[p] > 0 THEN "k_stop" ELSE "k_settle"
    BY <1>4, ErrorFacts DEF CancelRemainder, To
  <2>2. ent'[a] = "live" => Fault("net")
    BY <1>1, <1>4, ErrorFacts DEF CancelRemainder, CancelBuy
  <2>3. ent'[a] = "live" => faults = {} /\ faults' = {"net"}
    BY <2>2, FirstFault
  <2>4. saw[p] > 0 => ~Whole
    BY <2>1, ErrorFacts DEF PassHolds, ExecutionHolds
  <2>5. FailureHolds(p)'
    BY <1>1, <1>2, <2>1, <2>3, <2>4 DEF FailureHolds, Whole
  <2> QED BY <1>1, <1>2, <1>3, <2>1, <2>5, SendError
<1>5. CASE SettleBuy(p)
  <2>1. pc[p] = "k_settle" /\ pc'[p] \in {"k_stop", "k_flat", "fail"} /\ AccountQuiet
    BY <1>5, ErrorFacts DEF SettleBuy, Saw, Raise
  <2>2. pc'[p] = "k_stop" => got[a] > 0
    BY <1>1, <1>5, ErrorFacts DEF SettleBuy, Saw, Raise
  <2>3. ent[a] = "live" => got[a] = 0
    BY <1>1, <2>1, ErrorFacts DEF FailureHolds, LotRows
  <2>4. pc'[p] = "k_flat" => exc'[p] = "unclear"
    BY <1>5, ErrorFacts DEF SettleBuy, Saw, Raise
  <2>5. pc'[p] = "fail" => ~Exposed(a)
    BY <1>1, <1>5, ErrorFacts DEF SettleBuy, Saw, Raise, Exposed, Left
  <2>6. pc'[p] = "fail" => ~Exposed(a)'
    BY <2>5, <1>3 DEF Calm
  <2>7. pc'[p] = "k_stop" => ent'[a] # "live"
    BY <2>1, <2>2, <2>3, ErrorFacts DEF AccountQuiet, accountVars
  <2>8. FailureHolds(p)'
    BY <1>1, <1>2, <2>1, <2>4, <2>6, <2>7 DEF FailureHolds
  <2> QED BY <1>1, <1>2, <1>3, <2>1, <2>8, SendError
<1> QED BY <1>4, <1>5

LEMMA StopError ==
  ASSUME OnePass, TypeInv, BotInv, ErrorInv, NEW p \in Passes,
         PlaceStop(p) \/ Flatten(p) \/ PollFlattened(p)
  PROVE  ErrorInv'
<1> USE DEF Sends, SendsStock, SendsCrypto
<1>1. PICK a \in Approvals : a = cur[p]
  BY ErrorFacts DEF PlaceStop, Flatten, PollFlattened
<1>2. RowsQuiet /\ cur' = cur /\ faults \subseteq faults'
  BY FaultsGrow DEF PlaceStop, Flatten, PollFlattened, RowsQuiet, Saw, To, Raise, Unprotected
<1>3. \A b \in Approvals : Calm(b)
  BY CallCalm DEF PlaceStop, Flatten, PollFlattened
<1>4. CASE PlaceStop(p)
  <2>1. pc[p] = "k_stop" /\ pc'[p] \in {"k_record", "k_flat"}
    BY <1>4, ErrorFacts DEF PlaceStop, Saw, Raise, Unprotected
  <2>2. ent'[a] # "live"
    BY <1>1, <1>3, <2>1, ErrorFacts DEF FailureHolds, Calm
  <2>3. FailureHolds(p)'
    BY <1>1, <1>2, <2>1, <2>2 DEF FailureHolds
  <2> QED BY <1>1, <1>2, <1>3, <2>1, <2>3, SendError
<1>5. CASE Flatten(p)
  <2>1. /\ pc[p] = "k_flat" /\ pc'[p] \in {"k_flatpoll", "fail"}
        /\ pc'[p] = "k_flatpoll" => exc'[p] = exc[p]
        /\ pc'[p] = "fail" => exc'[p] = "unclear"
    BY <1>5, ErrorFacts DEF Flatten, To, Raise
  <2>2. exc[p] = "refused" => ent'[a] # "live"
    BY <1>1, <1>3, <2>1, ErrorFacts DEF FailureHolds, Calm
  <2>3. FailureHolds(p)'
    BY <1>1, <1>2, <2>1, <2>2 DEF FailureHolds
  <2> QED BY <1>1, <1>2, <1>3, <2>1, <2>3, SendError
<1>6. CASE PollFlattened(p)
  <2>1. /\ pc[p] = "k_flatpoll" /\ pc'[p] = "fail"
        /\ exc'[p] = "refused" => exc[p] = "refused" /\ HeldOf(app[a]) = 0
    BY <1>1, <1>6, ErrorFacts DEF PollFlattened, To, Raise
  <2>2. HeldOf(app[a]) = 0 => Left(a) = 0
    BY HeldParts DEF TypeInv, Lots
  <2>3. exc'[p] = "refused" => ~Exposed(a)'
    BY <1>1, <1>3, <2>1, <2>2, ErrorFacts DEF FailureHolds, Calm, Exposed
  <2>4. FailureHolds(p)'
    BY <1>1, <1>2, <2>1, <2>3 DEF FailureHolds
  <2> QED BY <1>1, <1>2, <1>3, <2>1, <2>4, SendError
<1> QED BY <1>4, <1>5, <1>6

\* Taking a lot up and putting it down.
LEMMA RowsError ==
  ASSUME OnePass, MaxFaults <= 1, TypeInv, BotInv, ErrorInv, NEW p \in Passes,
         \/ ExecuteNext(p) \/ RiskRun(p) \/ RecordFailure(p)
         \/ RecordBracket(p) \/ RecordCrypto(p)
  PROVE  ErrorInv'
<1> USE DEF Sends, SendsStock, SendsCrypto
<1>1. /\ faults \subseteq faults' /\ AccountQuiet
      /\ \A b \in Approvals : Calm(b)
  BY FaultsGrow, CallCalm
     DEF ExecuteNext, RiskRun, RecordFailure, RecordBracket, RecordCrypto, Record
<1>2. CASE RiskRun(p)
  <2>1. pc[p] = "risk" /\ pc'[p] = "exec" /\ UNCHANGED row
    BY <1>2, ErrorFacts DEF RiskRun, ApproveAll, Loop, DbQuiet, dbVars
  <2> QED BY <1>1, <2>1, ErrorFacts, IdleError
<1>3. CASE ExecuteNext(p)
  <2>1. pc[p] = "exec" /\ UNCHANGED row
    BY <1>3 DEF ExecuteNext, DbQuiet, dbVars
  <2>2. CASE pc'[p] \notin Sends
    BY <1>1, <2>1, <2>2, ErrorFacts, IdleError
  <2>3. CASE pc'[p] \in Sends
    <3>1. PICK a \in work[p] : row[a] \in {"none", "error"} /\ cur'[p] = a
                               /\ pc'[p] \in {"s_send", "k_buy"}
      BY <1>3, <2>1, <2>3, ErrorFacts DEF ExecuteNext, End, Loop, Drop, Take
    <3>2. a \in Approvals /\ \A b \in Approvals : ~InHand(b)
      BY <2>1 DEF TypeInv, LocalsTyped, Named, OnePass, InHand
    <3>3. faults' = {} => ~Exposed(a)'
      BY <1>1, <3>1, <3>2, ErrorFacts DEF FreeHolds, Calm
    <3>4. FailureHolds(p)'
      BY <3>1, <3>3 DEF FailureHolds
    <3>5. FreeHolds'
      BY <1>1, <2>1, <3>2, ErrorFacts DEF FreeHolds, Calm
    <3> QED BY <3>4, <3>5 DEF ErrorInv, OnePass
  <2> QED BY <2>2, <2>3
<1>4. CASE RecordFailure(p) \/ RecordBracket(p) \/ RecordCrypto(p)
  <2>1. PICK a \in Approvals : a = cur[p]
    BY <1>4, ErrorFacts DEF RecordFailure, RecordBracket, RecordCrypto, Record
  <2>2. /\ pc'[p] = "exec" /\ \A b \in Approvals \ {a} : row'[b] = row[b]
        /\ row'[a] \in {"none", "error"} => ~Exposed(a)
    <3>1. row \in [Approvals -> RowStatus]
      BY DEF TypeInv, RowsTyped
    <3>2. CASE RecordFailure(p)
      BY <2>1, <3>1, <3>2, ErrorFacts DEF RecordFailure, Back, Loop, FailureHolds
    <3>3. CASE RecordBracket(p) \/ RecordCrypto(p)
      BY <2>1, <3>1, <3>3, ErrorFacts DEF RecordBracket, RecordCrypto, Record, Back, Loop
    <3> QED BY <1>4, <3>2, <3>3
  <2>3. \A b \in Approvals \ {a} : ~InHand(b)
    BY <2>1 DEF OnePass, InHand
  <2>4. FreeHolds'
    BY <1>1, <2>2, <2>3, ErrorFacts DEF FreeHolds, Calm
  <2>5. \A q \in Passes : FailureHolds(q)'
    BY <2>2 DEF FailureHolds, OnePass
  <2> QED BY <2>4, <2>5 DEF ErrorInv
<1> QED BY <1>2, <1>3, <1>4

\* Meanwhile the market only lessens what is exposed.
LEMMA WaitError ==
  ASSUME OnePass, TypeInv, BotInv, ErrorInv, MaxFaults <= 1, RowsQuiet,
         UNCHANGED localVars, NoFault \/ Fault("partial"), \A a \in Approvals : Calm(a)
  PROVE  ErrorInv'
<1>1. UNCHANGED <<row, pc, cur, exc>> /\ faults \subseteq faults'
  BY FaultsGrow DEF RowsQuiet, DbQuiet, dbVars, localVars
<1>2. faults # {} => faults' = faults
  BY FirstFault DEF NoFault
<1>3. FreeHolds'
  BY <1>1 DEF ErrorInv, FreeHolds, InHand, Calm
<1>4. ASSUME NEW p \in Passes PROVE FailureHolds(p)'
  <2>1. CASE pc[p] \in Sends
    <3>1. PICK a \in Approvals : a = cur[p]
      BY <2>1, ErrorFacts
    <3> QED BY <1>1, <1>2, <3>1, ErrorFacts DEF FailureHolds, Calm, Whole
  <2>2. CASE pc[p] \notin Sends
    BY <1>1, <2>2 DEF FailureHolds, Sends, SendsStock, SendsCrypto
  <2> QED BY <2>1, <2>2
<1> QED BY <1>3, <1>4 DEF ErrorInv

LEMMA ErrorKeeps ==
  ASSUME OnePass, MaxFaults <= 1, TypeInv, BotInv, ErrorInv, [Next]_vars
  PROVE  ErrorInv'
<1>1. CASE Market
  BY <1>1, MarketCalm, WaitError DEF Market, RowsQuiet, RiskQuiet
<1>2. ASSUME NEW p \in Passes, PassStep(p) PROVE ErrorInv'
  BY <1>2, MonitorError, BracketError, CryptoBuyError, SettleError, StopError, RowsError
     DEF PassStep, ExecutionStep
<1>3. ASSUME NEW p \in Passes, Crash(p) PROVE ErrorInv'
  <2>1. pc'[p] = "idle" /\ faults' # {} /\ \A q \in Passes : q = p
    BY <1>3, ErrorFacts DEF Crash, End, Loop, Fault, OnePass
  <2> QED BY <2>1 DEF ErrorInv, FreeHolds, FailureHolds
<1>4. ASSUME NEW p \in Passes, NEW m \in {"daily", "monitor", "rerun"}, StartPass(p, m)
      PROVE  ErrorInv'
  <2>1. pc[p] = "idle" /\ pc'[p] \in {"read", "exec"} /\ UNCHANGED row /\ faults' = faults
    BY <1>4, ErrorFacts DEF StartPass, DbQuiet, dbVars, NoFault
  <2>2. \A a \in Approvals : Calm(a)
    BY <1>4, CallCalm DEF StartPass
  <2> QED BY <2>1, <2>2, ErrorFacts, IdleError DEF Sends, SendsStock, SendsCrypto
<1>5. CASE UNCHANGED vars
  <2>1. RowsQuiet /\ AccountQuiet /\ NoFault /\ UNCHANGED localVars
    BY <1>5 DEF vars, RowsQuiet, DbQuiet, RiskQuiet, AccountQuiet, NoFault
  <2> QED BY <2>1, CallCalm, WaitError
<1> QED BY <1>1, <1>2, <1>3, <1>4, <1>5 DEF Next

\* RecordFailure writes "error", which frees the approval for a retry, only of
\* an entry of which nothing rests and nothing is held, as long as no more
\* than one thing goes wrong and passes do not overlap (OnePass).
THEOREM ErrorFreesNothingExposed ==
  ASSUME OnePass, MaxFaults <= 1
  PROVE  Spec => ErrorIsSafe
<1> DEFINE I == TypeInv /\ BotInv /\ ErrorInv
<1>1. Init => ErrorInv
  BY DEF Init, AccountInit, PassInit, ErrorInv, FreeHolds, FailureHolds, Exposed, Left
<1>2. I /\ [Next]_vars => ErrorInv'
  BY ErrorKeeps
<1>3. I /\ [Next]_vars =>
        [\A p \in Passes : RecordFailure(p) /\ row'[cur[p]] = "error" => ~Exposed(cur[p])]_vars
  <2> SUFFICES ASSUME I, NEW p \in Passes, RecordFailure(p), row'[cur[p]] = "error"
               PROVE  ~Exposed(cur[p])
    OBVIOUS
  <2>1. PICK a \in Approvals : a = cur[p]
    BY ErrorFacts DEF RecordFailure, Sends
  <2>2. exc[p] = "refused"
    BY <2>1 DEF RecordFailure, TypeInv, RowsTyped
  <2> QED BY <2>1, <2>2, ErrorFacts DEF RecordFailure, FailureHolds
<1> QED BY <1>1, <1>2, <1>3, BotInvariant, PTL DEF Spec, ErrorIsSafe
==============================================================================
