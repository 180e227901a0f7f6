-------------------------- MODULE ReviewFleetProofs --------------------------
(***************************************************************************)
(* Theorems about RunBudget, Recording and the ReviewFleet that uses both, *)
(* for every number of tasks and workers, every cap, every limit of the    *)
(* recording, whatever the other processes do and wherever the run dies;   *)
(* about the quote from which a task's estimate comes, PricingQuote; and   *)
(* about the trace of a decision that the fleet receives, DecisionTrace.   *)
(* That every run ends stays with TLC.                                     *)
(***************************************************************************)
EXTENDS ReviewFleet, PricingQuote, DecisionTrace, FiniteSetTheorems, WellFoundedInduction,
        NaturalsInduction, TLAPS

-----------------------------------------------------------------------------
(* The sum of the ledger.  Committed is a fold, which takes the members of *)
(* a set one after another in an order of its own; what is proved of it is *)
(* what a sum is: it grows by what a member adds, in any order.            *)
Pick(s) == CHOOSE x \in s : TRUE

(* I[s] is what h says of the members of s, added up. *)
Adds(I, h, S) ==
  \A s \in SUBSET S : I[s] = IF s = {} THEN 0 ELSE h[Pick(s)] + I[s \ {Pick(s)}]

HeldBy == [a \in Attempt |-> Held(a)]

(* Induction over the natural numbers, for a set of them. *)
LEMMA Induct ==
  ASSUME NEW T \in SUBSET Nat, 0 \in T, \A n \in T : n + 1 \in T
  PROVE  T = Nat
<1> DEFINE W == Nat \ T
<1>1. SUFFICES ASSUME W # {} PROVE FALSE
  OBVIOUS
<1>2. PICK n \in W : \A m \in W : ~(<<m, n>> \in OpToRel(<, Nat))
  BY <1>1, NatLessThanWellFounded, WFMin
<1>3. \A m \in W : ~(m < n)
  BY <1>2 DEF OpToRel
<1>4. n \in Nat /\ n # 0 /\ n - 1 \in Nat /\ (n - 1) + 1 = n
  <2>1. n \in Nat /\ n \notin T
    OBVIOUS
  <2>2. n # 0
    BY <2>1
  <2>3. QED
    BY <2>1, <2>2
<1>5. n - 1 \in T
  BY <1>3, <1>4
<1>6. QED
  BY <1>2, <1>4, <1>5

LEMMA PickIn ==
  ASSUME NEW S, IsFiniteSet(S), NEW s \in SUBSET S, s # {}
  PROVE  /\ Pick(s) \in s /\ s \ {Pick(s)} \in SUBSET S
         /\ Cardinality(s) \in Nat /\ Cardinality(s \ {Pick(s)}) = Cardinality(s) - 1
<1>1. Pick(s) \in s
  BY DEF Pick
<1>2. IsFiniteSet(s) /\ Cardinality(s) \in Nat
  BY FS_Subset, FS_CardinalityType
<1>3. QED
  BY <1>1, <1>2, FS_RemoveElement

LEMMA SumExists ==
  ASSUME NEW S, IsFiniteSet(S), NEW h \in [S -> Nat]
  PROVE  \E I \in [SUBSET S -> Nat] : Adds(I, h, S)
<1> DEFINE Next1(I, s) == IF s = {} THEN 0 ELSE h[Pick(s)] + I[s \ {Pick(s)}]
           Upto(n) == \E I \in [SUBSET S -> Nat] :
                        \A s \in SUBSET S : Cardinality(s) <= n => I[s] = Next1(I, s)
           T == {n \in Nat : Upto(n)}
<1>1. 0 \in T
  <2> DEFINE I == [s \in SUBSET S |-> 0]
  <2>1. ASSUME NEW s \in SUBSET S, Cardinality(s) <= 0 PROVE s = {}
    BY <2>1, FS_Subset, FS_CardinalityType, FS_EmptySet
  <2>2. I \in [SUBSET S -> Nat] /\ \A s \in SUBSET S : Cardinality(s) <= 0 => I[s] = Next1(I, s)
    BY <2>1
  <2>3. QED
    BY <2>2
<1>2. ASSUME NEW n \in T PROVE n + 1 \in T
  <2>1. PICK I \in [SUBSET S -> Nat] :
          \A s \in SUBSET S : Cardinality(s) <= n => I[s] = Next1(I, s)
    OBVIOUS
  <2> DEFINE J == [s \in SUBSET S |-> Next1(I, s)]
  <2>2. ASSUME NEW s \in SUBSET S PROVE Next1(I, s) \in Nat
    <3>1. s # {} => Pick(s) \in S /\ s \ {Pick(s)} \in SUBSET S
      BY PickIn
    <3>2. s # {} => h[Pick(s)] \in Nat /\ I[s \ {Pick(s)}] \in Nat
      BY <3>1
    <3>3. QED
      BY <3>2
  <2>3. ASSUME NEW s \in SUBSET S, Cardinality(s) <= n + 1 PROVE J[s] = Next1(J, s)
    <3>1. CASE s = {}
      BY <3>1
    <3>2. CASE s # {}
      <4> DEFINE q == s \ {Pick(s)}
      <4>1. q \in SUBSET S /\ Cardinality(q) <= n
        BY <2>3, <3>2, PickIn
      <4>2. J[q] = Next1(I, q) /\ I[q] = Next1(I, q)
        BY <2>1, <4>1
      <4>3. J[s] = h[Pick(s)] + I[q]
        BY <3>2
      <4>4. QED
        BY <3>2, <4>2, <4>3
    <3>3. QED
      BY <3>1, <3>2
  <2>4. J \in [SUBSET S -> Nat]
    BY <2>2
  <2>5. Upto(n + 1)
    BY <2>3, <2>4
  <2>6. n + 1 \in Nat
    OBVIOUS
  <2> HIDE DEF Upto
  <2>7. QED
    BY <2>5, <2>6
<1>3. Cardinality(S) \in T
  <2>1. T \in SUBSET Nat
    OBVIOUS
  <2> HIDE DEF T
  <2>2. T = Nat
    BY <1>1, <1>2, <2>1, Induct
  <2>3. QED
    BY <2>2, FS_CardinalityType
<1>4. PICK I \in [SUBSET S -> Nat] :
        \A s \in SUBSET S : Cardinality(s) <= Cardinality(S) => I[s] = Next1(I, s)
  BY <1>3
<1>5. \A s \in SUBSET S : Cardinality(s) <= Cardinality(S)
  BY FS_Subset
<1>6. QED
  BY <1>4, <1>5 DEF Adds

(* Sums of the same amounts are the same. *)
LEMMA SumSame ==
  ASSUME NEW S, IsFiniteSet(S), NEW R, NEW I, NEW J, NEW h, NEW g,
         Adds(I, h, S), Adds(J, g, R), NEW Q \in SUBSET S, Q \in SUBSET R,
         \A a \in Q : h[a] = g[a]
  PROVE  I[Q] = J[Q]
<1> DEFINE Upto(n) == \A s \in SUBSET Q : Cardinality(s) <= n => I[s] = J[s]
           T == {n \in Nat : Upto(n)}
<1>1. IsFiniteSet(Q) /\ Cardinality(Q) \in Nat
  BY FS_Subset, FS_CardinalityType
<1>2. \A s \in SUBSET Q : s = {} => I[s] = J[s]
  BY DEF Adds
<1>3. ASSUME NEW s \in SUBSET Q, Cardinality(s) <= 0 PROVE s = {}
  BY <1>1, <1>3, FS_Subset, FS_CardinalityType, FS_EmptySet
<1>4. 0 \in T
  BY <1>2, <1>3
<1>5. ASSUME NEW n \in T PROVE n + 1 \in T
  <2>1. n \in Nat /\ n + 1 \in Nat /\ Upto(n)
    OBVIOUS
  <2>2. ASSUME NEW s \in SUBSET Q, Cardinality(s) <= n + 1, s # {} PROVE I[s] = J[s]
    <3> DEFINE q == s \ {Pick(s)}
    <3>1. Pick(s) \in Q /\ q \in SUBSET Q /\ Cardinality(q) <= n
      BY <1>1, <2>1, <2>2, PickIn
    <3>2. I[q] = J[q] /\ h[Pick(s)] = g[Pick(s)]
      BY <2>1, <3>1
    <3>3. I[s] = h[Pick(s)] + I[q] /\ J[s] = g[Pick(s)] + J[q]
      BY <2>2 DEF Adds
    <3>4. QED
      BY <3>2, <3>3
  <2>3. Upto(n + 1)
    BY <1>2, <2>2
  <2> HIDE DEF Upto
  <2>4. QED
    BY <2>1, <2>3
<1>6. T \in SUBSET Nat
  OBVIOUS
<1> HIDE DEF T
<1>7. T = Nat
  BY <1>4, <1>5, <1>6, Induct
<1>8. Upto(Cardinality(Q))
  BY <1>1, <1>7 DEF T
<1>9. QED
  BY <1>1, <1>8

(* A member more adds its amount, wherever it comes in the order. *)
LEMMA SumAdded ==
  ASSUME NEW S, IsFiniteSet(S), NEW h \in [S -> Nat], NEW I \in [SUBSET S -> Nat],
         Adds(I, h, S), NEW Q \in SUBSET S, NEW a \in S \ Q
  PROVE  I[Q \cup {a}] = I[Q] + h[a]
<1> DEFINE Grows(s) == \A x \in S \ s : I[s \cup {x}] = I[s] + h[x]
           T == {n \in Nat : \A s \in SUBSET S : Cardinality(s) <= n => Grows(s)}
<1>1. ASSUME NEW s \in SUBSET S
      PROVE  IsFiniteSet(s) /\ Cardinality(s) \in Nat /\ (Cardinality(s) <= 0 => s = {})
  BY FS_Subset, FS_CardinalityType, FS_EmptySet
<1>2. Grows({})
  <2> SUFFICES ASSUME NEW x \in S PROVE I[{x}] = I[{}] + h[x]
    OBVIOUS
  <2>1. Pick({x}) = x /\ {x} \ {x} = {} /\ {x} \in SUBSET S
    BY DEF Pick
  <2>2. I[{x}] = h[x] + I[{}] /\ I[{}] = 0
    BY <2>1 DEF Adds
  <2>3. QED
    BY <2>2
<1>3. 0 \in T
  BY <1>1, <1>2
<1>4. ASSUME NEW n \in T, NEW s \in SUBSET S, Cardinality(s) <= n + 1, NEW x \in S \ s
      PROVE  I[s \cup {x}] = I[s] + h[x]
  <2> DEFINE U == s \cup {x}
             p == Pick(U)
             q == s \ {p}
  <2>0. n \in Nat /\ \A t \in SUBSET S : Cardinality(t) <= n => Grows(t)
    OBVIOUS
  <2> HIDE DEF T
  <2>1. U \in SUBSET S /\ p \in U /\ I[U] = h[p] + I[U \ {p}]
    BY DEF Adds, Pick
  <2>2. CASE p = x
    <3>1. U \ {p} = s /\ h[x] \in Nat /\ I[s] \in Nat
      BY <2>2
    <3>2. I[U] = h[x] + I[s]
      BY <2>1, <2>2, <3>1
    <3>3. QED
      BY <3>1, <3>2
  <2>3. CASE p # x
    <3>1. p \in s /\ q \in SUBSET S /\ U \ {p} = q \cup {x} /\ s = q \cup {p} /\ p \notin q /\ x \notin q
      BY <2>1, <2>3
    <3>2. Cardinality(q) <= n
      <4>1. IsFiniteSet(s) /\ p \in s
        BY <1>1, <3>1
      <4> HIDE DEF p, U
      <4>2. Cardinality(s \ {p}) = Cardinality(s) - 1
        BY <4>1, FS_RemoveElement
      <4>3. QED
        BY <1>1, <1>4, <2>0, <4>2 DEF q
    <3>3. I[q \cup {x}] = I[q] + h[x] /\ I[q \cup {p}] = I[q] + h[p]
      BY <2>0, <3>1, <3>2
    <3>4. I[q] \in Nat /\ h[x] \in Nat /\ h[p] \in Nat
      BY <3>1
    <3>5. I[U] = h[p] + (I[q] + h[x]) /\ I[s] = I[q] + h[p]
      BY <2>1, <3>1, <3>3
    <3> HIDE DEF p, q
    <3>6. QED
      BY <3>4, <3>5
  <2>4. QED
    BY <2>2, <2>3
<1>5. ASSUME NEW n \in T PROVE n + 1 \in T
  <2>1. \A s \in SUBSET S : Cardinality(s) <= n + 1 => Grows(s)
    BY <1>4, <1>5
  <2>2. n + 1 \in Nat
    OBVIOUS
  <2> HIDE DEF Grows
  <2>3. QED
    BY <2>1, <2>2
<1>6. T \in SUBSET Nat
  OBVIOUS
<1> HIDE DEF T
<1>7. T = Nat
  BY <1>3, <1>5, <1>6, Induct
<1>8. Grows(Q)
  BY <1>1, <1>7 DEF T
<1>9. QED
  BY <1>8

(* What the ledger has committed is the sum of what its rows hold. *)
LEMMA CommittedSum ==
  BudgetTypeOK => \E I \in [SUBSET Attempt -> Nat] :
                    /\ HeldBy \in [Attempt -> Nat]
                    /\ Adds(I, HeldBy, Attempt) /\ Committed = I[Rows]
<1> SUFFICES ASSUME BudgetTypeOK
             PROVE  \E I \in [SUBSET Attempt -> Nat] :
                      /\ HeldBy \in [Attempt -> Nat]
                      /\ Adds(I, HeldBy, Attempt) /\ Committed = I[Rows]
  OBVIOUS
<1> DEFINE pick(s) == CHOOSE x \in s : TRUE
           F(C) == C = [s \in SUBSET Rows |->
                          IF s = {} THEN 0 ELSE Held(pick(s)) + C[s \ {pick(s)}]]
           Sum == CHOOSE C : F(C)
<1>1. Committed = Sum[Rows]
  BY DEF Committed, MapThenSumSet, MapThenFoldSet
<1>2. Rows \in SUBSET Attempt /\ IsFiniteSet(Rows) /\ IsFiniteSet(Attempt)
  BY AttemptAssumption, FS_Subset DEF Rows
<1>3. ASSUME NEW a \in Attempt PROVE HeldBy[a] = Held(a) /\ Held(a) \in Nat
  <2>1. HeldBy[a] = Held(a)
    BY DEF HeldBy
  <2>2. reserved[a] \in Amount \cup {0} /\ charged[a] \in Amount \cup {None}
    BY DEF BudgetTypeOK
  <2>3. Held(a) \in Nat
    BY <2>2, AmountAssumption DEF Held
  <2>4. QED
    BY <2>1, <2>3
<1>4. HeldBy \in [Attempt -> Nat]
  BY <1>3 DEF HeldBy
<1>5. PICK I \in [SUBSET Attempt -> Nat] : Adds(I, HeldBy, Attempt)
  BY <1>2, <1>4, SumExists
<1>6. \A s \in SUBSET Rows : s # {} => pick(s) \in s /\ pick(s) \in Attempt
  BY <1>2, PickIn DEF Pick
<1>7. \E C : F(C)
  <2> DEFINE C == [s \in SUBSET Rows |-> I[s]]
  <2>1. ASSUME NEW s \in SUBSET Rows
        PROVE  C[s] = IF s = {} THEN 0 ELSE Held(pick(s)) + C[s \ {pick(s)}]
    <3>1. s \in SUBSET Attempt /\ s \ {pick(s)} \in SUBSET Rows
      BY <1>2
    <3>2. I[s] = IF s = {} THEN 0 ELSE HeldBy[pick(s)] + I[s \ {pick(s)}]
      BY <1>5, <3>1 DEF Adds, Pick
    <3>3. s # {} => HeldBy[pick(s)] = Held(pick(s))
      BY <1>3, <1>6
    <3> HIDE DEF pick
    <3>4. QED
      BY <3>1, <3>2, <3>3
  <2> HIDE DEF pick
  <2>2. C = [s \in SUBSET Rows |->
               IF s = {} THEN 0 ELSE Held(pick(s)) + C[s \ {pick(s)}]]
    BY <2>1
  <2>3. QED
    BY <2>2
<1> HIDE DEF F
<1>8. F(Sum)
  BY <1>7
<1> HIDE DEF Sum
<1>9. Adds(Sum, HeldBy, Rows)
  <2>1. ASSUME NEW s \in SUBSET Rows
        PROVE  Sum[s] = IF s = {} THEN 0 ELSE HeldBy[pick(s)] + Sum[s \ {pick(s)}]
    <3>1. Sum[s] = IF s = {} THEN 0 ELSE Held(pick(s)) + Sum[s \ {pick(s)}]
      BY <1>8 DEF F
    <3>2. s # {} => HeldBy[pick(s)] = Held(pick(s))
      BY <1>3, <1>6
    <3> HIDE DEF pick
    <3>3. QED
      BY <3>1, <3>2
  <2>2. QED
    BY <2>1 DEF Adds, Pick
<1>10. Sum[Rows] = I[Rows]
  BY <1>2, <1>5, <1>9, SumSame
<1>11. QED
  BY <1>1, <1>4, <1>5, <1>10

(* Committed as a sum, now and after a step. *)
Summed(I) ==
  /\ HeldBy \in [Attempt -> Nat]
  /\ Adds(I, HeldBy, Attempt) /\ Committed = I[Rows]

HasSum == \E I \in [SUBSET Attempt -> Nat] : Summed(I)

LEMMA SummedNow == BudgetTypeOK /\ BudgetTypeOK' => HasSum /\ HasSum'
<1>1. BudgetTypeOK => HasSum
  BY CommittedSum DEF Summed, HasSum
<1>2. QED
  BY <1>1, PTL

(* A step that changes no row and no receipt leaves the sum what it was. *)
LEMMA CommittedSame ==
  ASSUME BudgetTypeOK, BudgetTypeOK', UNCHANGED <<reserved, charged>>
  PROVE  Rows' = Rows /\ Committed' = Committed
<1>1. Rows' = Rows /\ HeldBy' = HeldBy
  BY DEF Rows, HeldBy, Held
<1>2. PICK I \in [SUBSET Attempt -> Nat] : Summed(I)
  BY SummedNow DEF HasSum
<1>3. PICK J \in [SUBSET Attempt -> Nat] : Summed(J)'
  BY SummedNow DEF HasSum
<1>4. /\ Adds(I, HeldBy, Attempt) /\ Committed = I[Rows]
      /\ Adds(J, HeldBy, Attempt) /\ Committed' = J[Rows]
  BY <1>1, <1>2, <1>3 DEF Summed
<1>5. Rows \in SUBSET Attempt /\ IsFiniteSet(Attempt)
  BY AttemptAssumption DEF Rows
<1>6. I[Rows] = J[Rows]
  BY <1>4, <1>5, SumSame
<1> QED
  BY <1>1, <1>4, <1>6

(* What a transaction reads is what BudgetTypeOK says a view holds. *)
LEMMA TotalsTyped == ASSUME BudgetTypeOK, NEW a \in Attempt PROVE TotalsFor(a) \in Totals
<1>1. PICK I \in [SUBSET Attempt -> Nat] : Committed = I[Rows]
  BY CommittedSum
<1>2. Rows \in SUBSET Attempt
  BY DEF Rows
<1>3. Committed \in Nat
  BY <1>1, <1>2
<1>4. IsFiniteSet(Rows)
  BY <1>2, AttemptAssumption, FS_Subset
<1>5. Cardinality(Rows) \in Nat
  BY <1>4, FS_CardinalityType
<1>6. frozen \in BOOLEAN /\ (a \in Rows) \in BOOLEAN
  BY DEF BudgetTypeOK
<1> QED
  BY <1>3, <1>5, <1>6 DEF TotalsFor, Totals

-----------------------------------------------------------------------------
(* The ledger, RunBudget, for every set of attempts and amounts and every  *)
(* interleaving of the processes that share it.                            *)

(* FrozenExact is not inductive: a second receipt could take back the      *)
(* charge that froze the ledger, and a row could appear under a charge     *)
(* that has none.  A charge has its receipt, and a receipt its row.  A     *)
(* reservation is judged on what it has read: that is still so when it is  *)
(* made, because no other transaction is open meanwhile.                   *)
ChargesRowed == \A a \in Attempt : charged[a] # None => receipt[a] # None /\ a \in Rows

ViewsCurrent ==
  /\ \A a \in Attempt : view[a] \subseteq {TotalsFor(a)}
  /\ \A a, b \in Attempt : view[a] # {} /\ view[b] # {} => a = b

BudgetInv == BudgetTypeOK /\ ChargesRowed /\ FrozenExact /\ ViewsCurrent

LEMMA BudgetInitHolds == BudgetInit => BudgetInv
BY NullAssumption DEF BudgetInit, BudgetInv, BudgetTypeOK, ChargesRowed, FrozenExact, ViewsCurrent

(* An admission that was right when the totals were read is right now. *)
LEMMA AdmitsNow ==
  ASSUME BudgetInv, NEW a \in Attempt, NEW e \in Amount, Admits(a, e)
  PROVE  /\ e \in Nat /\ e > 0 /\ a \notin Rows /\ ~frozen
         /\ Cardinality(Rows) < MaxAttempts /\ Committed + e <= Cap
<1>1. PICK w \in view[a] : /\ ~ w.row /\ ~ w.frozen
                           /\ w.count < MaxAttempts /\ w.committed + e <= Cap
  BY DEF Admits
<1>2. w = TotalsFor(a)
  BY <1>1 DEF BudgetInv, ViewsCurrent
<1>3. /\ w.row = (a \in Rows) /\ w.frozen = frozen
      /\ w.count = Cardinality(Rows) /\ w.committed = Committed
  BY <1>2 DEF TotalsFor
<1>4. e \in Nat /\ e > 0
  BY AmountAssumption DEF Admits
<1> QED
  BY <1>1, <1>3, <1>4

(* Its transaction is the one that is open; with it none is. *)
LEMMA OnlyWriter ==
  ASSUME BudgetInv, NEW a \in Attempt, NEW e \in Amount, Reserve(a, e)
  PROVE  NoWriter'
<1>1. view[a] # {}
  BY DEF Reserve, Admits
<1>2. \A b \in Attempt : b # a => view[b] = {}
  BY <1>1 DEF BudgetInv, ViewsCurrent
<1> QED
  BY <1>2 DEF Reserve, NoWriter, BudgetInv, BudgetTypeOK

LEMMA NoWriterCurrent == NoWriter => ViewsCurrent
BY DEF NoWriter, ViewsCurrent

LEMMA NoWriterCurrentNext == NoWriter' => ViewsCurrent'
BY NoWriterCurrent, PTL

(* Only the views change. *)
Quiet == UNCHANGED <<frozen, reserved, charged, receipt>>

LEMMA QuietStep ==
  ASSUME BudgetInv, BudgetTypeOK', Quiet,
         \A a \in Attempt : \/ view'[a] = {} \/ view'[a] = view[a]
                            \/ NoWriter /\ view'[a] = {TotalsFor(a)},
         NoWriter => \A a, b \in Attempt : view'[a] # {} /\ view'[b] # {} => a = b
  PROVE  BudgetInv'
<1>1. ChargesRowed' /\ FrozenExact'
  BY DEF Quiet, BudgetInv, ChargesRowed, FrozenExact, Rows
<1>2. Rows' = Rows /\ Committed' = Committed
  BY CommittedSame DEF Quiet, BudgetInv
<1>3. \A a \in Attempt : TotalsFor(a)' = TotalsFor(a)
  BY <1>2 DEF Quiet, TotalsFor
<1>4. \A a \in Attempt : view'[a] \subseteq {TotalsFor(a)}
  BY DEF BudgetInv, ViewsCurrent
<1>5. \A a, b \in Attempt : view'[a] # {} /\ view'[b] # {} => a = b
  <2>1. CASE NoWriter
    BY <2>1
  <2>2. CASE ~NoWriter
    <3>1. \A a \in Attempt : view'[a] # {} => view[a] # {}
      BY <2>2
    <3> QED
      BY <3>1 DEF BudgetInv, ViewsCurrent
  <2> QED
    BY <2>1, <2>2
<1>6. ViewsCurrent'
  BY <1>3, <1>4, <1>5 DEF ViewsCurrent
<1> QED
  BY <1>1, <1>6 DEF BudgetInv

LEMMA RollBackStep ==
  ASSUME BudgetInv, NEW gone \in SUBSET Attempt, RollBack(gone)
  PROVE  BudgetInv'
<1>1. \A a \in Attempt : view'[a] = {} \/ view'[a] = view[a]
  BY DEF RollBack
<1>2. BudgetTypeOK' /\ Quiet
  BY DEF RollBack, tableVars, Quiet, BudgetInv, BudgetTypeOK
<1>3. NoWriter => \A a, b \in Attempt : view'[a] # {} /\ view'[b] # {} => a = b
  BY <1>1 DEF NoWriter
<1> QED
  BY <1>1, <1>2, <1>3, QuietStep

LEMMA BeginReserveStep ==
  ASSUME BudgetInv, NEW a \in Attempt, BeginReserve(a)
  PROVE  BudgetInv'
<1>1. NoWriter /\ view' = [view EXCEPT ![a] = {TotalsFor(a)}] /\ Quiet /\ ledger' = ledger
  BY DEF BeginReserve, tableVars, Quiet
<1>2. view \in [Attempt -> SUBSET Totals] /\ TotalsFor(a) \in Totals
  BY TotalsTyped DEF BudgetInv, BudgetTypeOK
<1>3. view' \in [Attempt -> SUBSET Totals]
  BY <1>1, <1>2
<1>4. view'[a] = {TotalsFor(a)} /\ \A b \in Attempt : b # a => view'[b] = view[b]
  BY <1>1, <1>2
<1>5. BudgetTypeOK'
  BY <1>1, <1>3 DEF BudgetInv, BudgetTypeOK, Quiet
<1>6. \A b \in Attempt : b # a => view'[b] = {}
  BY <1>1, <1>4 DEF NoWriter
<1>7. NoWriter => \A b, c \in Attempt : view'[b] # {} /\ view'[c] # {} => b = c
  BY <1>6
<1>8. \A b \in Attempt : \/ view'[b] = {} \/ view'[b] = view[b]
                         \/ NoWriter /\ view'[b] = {TotalsFor(b)}
  BY <1>1, <1>4
<1> QED
  BY <1>1, <1>5, <1>7, <1>8, QuietStep

LEMMA ReserveStep ==
  ASSUME BudgetInv, NEW a \in Attempt, NEW e \in Amount, Reserve(a, e)
  PROVE  BudgetInv'
<1>1. e > 0 /\ a \notin Rows /\ e \in Nat
  BY AdmitsNow DEF Reserve
<1>2. BudgetTypeOK'
  BY DEF Reserve, BudgetInv, BudgetTypeOK
<1>3. charged[a] = None
  BY <1>1 DEF BudgetInv, ChargesRowed
<1>4. \A b \in Attempt : b # a => reserved'[b] = reserved[b]
  BY DEF Reserve, BudgetInv, BudgetTypeOK
<1>5. \A b \in Rows : b # a /\ b \in Rows'
  BY <1>1, <1>4 DEF Rows
<1>6. ChargesRowed'
  <2> SUFFICES ASSUME NEW b \in Attempt, charged'[b] # None
               PROVE  receipt'[b] # None /\ b \in Rows'
    BY DEF ChargesRowed
  <2> QED
    BY <1>3, <1>5 DEF Reserve, BudgetInv, ChargesRowed
<1>7. FrozenExact'
  BY <1>3, <1>4 DEF Reserve, BudgetInv, FrozenExact
<1>8. ViewsCurrent'
  BY OnlyWriter, NoWriterCurrentNext
<1> QED
  BY <1>2, <1>6, <1>7, <1>8 DEF BudgetInv

LEMMA SettleStep ==
  ASSUME BudgetInv, NEW a \in Attempt, NEW r \in Receipt, NEW v \in Amount, Settle(a, r, v)
  PROVE  BudgetInv'
<1>1. a \in Rows /\ receipt[a] = None /\ charged[a] = None
  BY DEF Settle, BudgetInv, ChargesRowed
<1>2. BudgetTypeOK'
  BY DEF Settle, BudgetInv, BudgetTypeOK
<1>3. charged'[a] = v /\ receipt'[a] = r /\ v # None /\ r # None
  BY NullAssumption DEF Settle, BudgetInv, BudgetTypeOK
<1>4. \A b \in Attempt : b # a => charged'[b] = charged[b] /\ receipt'[b] = receipt[b]
  BY DEF Settle, BudgetInv, BudgetTypeOK
<1>5. reserved' = reserved /\ Rows' = Rows
  BY DEF Settle, Rows
<1>6. ChargesRowed'
  <2> SUFFICES ASSUME NEW b \in Attempt, charged'[b] # None
               PROVE  receipt'[b] # None /\ b \in Rows'
    BY DEF ChargesRowed
  <2> QED
    BY <1>1, <1>3, <1>4, <1>5 DEF BudgetInv, ChargesRowed
<1>7. FrozenExact'
  <2>1. frozen' <=> frozen \/ v > reserved[a]
    BY DEF Settle
  <2>2. frozen' <=> \E b \in Attempt : charged'[b] # None /\ charged'[b] > reserved[b]
    BY <2>1, <1>1, <1>3, <1>4 DEF BudgetInv, FrozenExact
  <2> QED
    BY <2>2, <1>5 DEF FrozenExact
<1>8. ViewsCurrent'
  BY NoWriterCurrentNext DEF Settle, NoWriter
<1> QED
  BY <1>2, <1>6, <1>7, <1>8 DEF BudgetInv

LEMMA BudgetStep == BudgetInv /\ [BudgetNext]_budgetVars => BudgetInv'
<1> SUFFICES ASSUME BudgetInv, [BudgetNext]_budgetVars PROVE BudgetInv'
  OBVIOUS
<1>1. CASE BeginCreate \/ FinishCreate \/ UNCHANGED budgetVars
  <2>1. Quiet /\ view' = view /\ ledger' \in {"absent", "partial", "ready"}
    BY <1>1 DEF BeginCreate, FinishCreate, budgetVars, tableVars, Quiet, BudgetInv, BudgetTypeOK
  <2>2. BudgetTypeOK'
    BY <2>1 DEF Quiet, BudgetInv, BudgetTypeOK
  <2>3. NoWriter => \A a, b \in Attempt : view'[a] # {} /\ view'[b] # {} => a = b
    BY <2>1 DEF NoWriter
  <2> QED
    BY <2>1, <2>2, <2>3, QuietStep
<1>2. CASE \E a \in Attempt, e \in Amount : Reserve(a, e)
  BY <1>2, ReserveStep
<1>3. CASE \E a \in Attempt, r \in Receipt, v \in Amount : Settle(a, r, v)
  BY <1>3, SettleStep
<1>4. CASE \E a \in Attempt : BeginReserve(a)
  BY <1>4, BeginReserveStep
<1>5. CASE \E gone \in SUBSET Attempt : RollBack(gone)
  BY <1>5, RollBackStep
<1> QED
  BY <1>1, <1>2, <1>3, <1>4, <1>5 DEF BudgetNext

(* The inductive invariant holds of every use of the ledger.               *)
THEOREM LedgerIsConsistent == BudgetSpec => []BudgetInv
BY BudgetInitHolds, BudgetStep, PTL DEF BudgetSpec

(* budget.py, settle: the ledger is frozen exactly while a stored charge   *)
(* is over its estimate.                                                   *)
THEOREM FreezeIsExact == BudgetSpec => []FrozenExact
<1>1. BudgetInv => FrozenExact
  BY DEF BudgetInv
<1> QED
  BY <1>1, LedgerIsConsistent, PTL

-----------------------------------------------------------------------------
(* What one step may do to rows, receipts and freeze.                      *)
Finality ==
  /\ \A a \in Rows : reserved'[a] = reserved[a]
  /\ \A a \in Attempt :
       receipt[a] # None => receipt'[a] = receipt[a] /\ charged'[a] = charged[a]
  /\ frozen => frozen' /\ reserved' = reserved

LEMMA FinalStep == BudgetInv /\ [BudgetNext]_budgetVars => Finality
<1> SUFFICES ASSUME BudgetInv, [BudgetNext]_budgetVars PROVE Finality
  OBVIOUS
<1>1. CASE \/ BeginCreate \/ FinishCreate \/ UNCHANGED budgetVars
           \/ \E a \in Attempt : BeginReserve(a)
           \/ \E gone \in SUBSET Attempt : RollBack(gone)
  BY <1>1 DEF BeginCreate, FinishCreate, BeginReserve, RollBack, tableVars, budgetVars, Finality
<1>2. ASSUME NEW a \in Attempt, NEW e \in Amount, Reserve(a, e) PROVE Finality
  <2>1. a \notin Rows /\ ~ frozen
    BY <1>2, AdmitsNow DEF Reserve
  <2>2. \A b \in Rows : b \in Attempt /\ b # a
    BY <2>1 DEF Rows
  <2>3. \A b \in Rows : reserved'[b] = reserved[b]
    BY <1>2, <2>2 DEF Reserve, BudgetInv, BudgetTypeOK
  <2> QED
    BY <1>2, <2>1, <2>3 DEF Reserve, Finality
<1>3. ASSUME NEW a \in Attempt, NEW r \in Receipt, NEW v \in Amount, Settle(a, r, v)
      PROVE  Finality
  <2>1. \A b \in Attempt : receipt[b] # None => b # a
    BY <1>3 DEF Settle
  <2>2. \A b \in Attempt : b # a => receipt'[b] = receipt[b] /\ charged'[b] = charged[b]
    BY <1>3 DEF Settle, BudgetInv, BudgetTypeOK
  <2> QED
    BY <1>3, <2>1, <2>2 DEF Settle, Finality
<1> QED
  BY <1>1, <1>2, <1>3 DEF BudgetNext

(* BUDGET.md: rows, receipts and the freeze are for ever, and a frozen     *)
(* ledger admits nothing, whoever uses it in whatever order.               *)
THEOREM LedgerIsFinal == BudgetSpec => RowsAreFinal
<1>1. BudgetInv /\ [BudgetNext]_budgetVars => [Finality]_budgetVars
  BY FinalStep
<1>2. RowsAreFinal <=> [][Finality]_budgetVars
  BY DEF RowsAreFinal, Finality
<1> QED
  BY <1>1, <1>2, LedgerIsConsistent, PTL DEF BudgetSpec

-----------------------------------------------------------------------------
(* What the rows hold is within the cap until a receipt is over its        *)
(* estimate, and there are no more rows than the policy has attempts.      *)
CapInv ==
  /\ frozen \/ Committed <= Cap
  /\ Cardinality(Rows) <= MaxAttempts

LEMMA CapReserve ==
  ASSUME BudgetInv, BudgetInv', CapInv, NEW a \in Attempt, NEW e \in Amount, Reserve(a, e)
  PROVE  CapInv'
<1>1. /\ e \in Nat /\ e > 0 /\ a \notin Rows /\ ~frozen /\ frozen' = frozen
      /\ Cardinality(Rows) < MaxAttempts /\ Committed + e <= Cap
      /\ charged' = charged /\ reserved' = [reserved EXCEPT ![a] = e]
  BY AdmitsNow DEF Reserve
<1>2. reserved'[a] = e /\ \A b \in Attempt : b # a => reserved'[b] = reserved[b]
  BY <1>1 DEF BudgetInv, BudgetTypeOK
<1>3. /\ Rows' = Rows \cup {a} /\ Rows \in SUBSET Attempt
      /\ a \in Attempt \ Rows
  BY <1>1, <1>2 DEF Rows
<1>4. IsFiniteSet(Attempt) /\ IsFiniteSet(Rows)
  BY <1>3, AttemptAssumption, FS_Subset
<1>5. Cardinality(Rows') <= MaxAttempts
  <2>1. Cardinality(Rows') = Cardinality(Rows) + 1 /\ Cardinality(Rows) \in Nat
    BY <1>1, <1>3, <1>4, FS_AddElement, FS_CardinalityType
  <2>2. QED
    BY <1>1, <2>1, PolicyAssumption
<1>6. PICK I \in [SUBSET Attempt -> Nat] : Summed(I)
  BY SummedNow DEF BudgetInv, HasSum
<1>7. PICK J \in [SUBSET Attempt -> Nat] : Summed(J)'
  BY SummedNow DEF BudgetInv, HasSum
<1>8. /\ Adds(I, HeldBy, Attempt) /\ Committed = I[Rows]
      /\ HeldBy' \in [Attempt -> Nat] /\ Adds(J, HeldBy', Attempt) /\ Committed' = J[Rows']
  BY <1>6, <1>7 DEF Summed
<1>9. HeldBy'[a] = e /\ \A b \in Rows : HeldBy[b] = HeldBy'[b]
  <2>1. charged[a] = None
    BY <1>1 DEF BudgetInv, ChargesRowed
  <2>2. QED
    BY <1>1, <1>2, <1>3, <2>1 DEF HeldBy, Held
<1>10. I[Rows] = J[Rows]
  BY <1>3, <1>4, <1>8, <1>9, SumSame
<1>11. J[Rows \cup {a}] = J[Rows] + HeldBy'[a]
  <2>1. /\ HeldBy' \in [Attempt -> Nat] /\ Adds(J, HeldBy', Attempt)
        /\ IsFiniteSet(Attempt) /\ Rows \in SUBSET Attempt /\ a \in Attempt \ Rows
    BY <1>3, <1>4, <1>8
  <2>2. QED
    BY <2>1, SumAdded
<1>12. Committed' <= Cap
  BY <1>1, <1>3, <1>8, <1>9, <1>10, <1>11
<1>13. QED
  BY <1>5, <1>12 DEF CapInv

LEMMA CapSettle ==
  ASSUME BudgetInv, BudgetInv', CapInv,
         NEW a \in Attempt, NEW r \in Receipt, NEW v \in Amount, Settle(a, r, v)
  PROVE  CapInv'
<1>1. /\ a \in Rows /\ charged[a] = None /\ reserved' = reserved /\ Rows' = Rows
      /\ charged' = [charged EXCEPT ![a] = v]
      /\ frozen' <=> frozen \/ v > reserved[a]
  BY DEF Settle, BudgetInv, ChargesRowed, Rows
<1>2. /\ v \in Nat /\ reserved[a] \in Nat /\ v # None
      /\ charged'[a] = v /\ \A b \in Attempt : b # a => charged'[b] = charged[b]
  <2>1. /\ charged \in [Attempt -> Amount \cup {None}] /\ reserved[a] \in Amount \cup {0}
    BY DEF BudgetInv, BudgetTypeOK
  <2>2. v \in Nat /\ reserved[a] \in Nat /\ v # None
    <3>1. reserved[a] \in Amount \/ reserved[a] = 0
      BY <2>1
    <3>2. \A n \in Amount : n \in Nat /\ n # None
      BY AmountAssumption, NullAssumption
    <3>3. QED
      BY <3>1, <3>2
  <2>3. charged'[a] = v /\ \A b \in Attempt : b # a => charged'[b] = charged[b]
    BY <1>1, <2>1
  <2>4. QED
    BY <2>2, <2>3
<1> DEFINE Q == Rows \ {a}
<1>3. /\ Rows \in SUBSET Attempt /\ IsFiniteSet(Attempt)
      /\ Q \in SUBSET Attempt /\ Rows = Q \cup {a} /\ a \in Attempt \ Q
  BY <1>1, AttemptAssumption DEF Rows
<1>4. PICK I \in [SUBSET Attempt -> Nat] : Summed(I)
  BY SummedNow DEF BudgetInv, HasSum
<1>5. PICK J \in [SUBSET Attempt -> Nat] : Summed(J)'
  BY SummedNow DEF BudgetInv, HasSum
<1>6. /\ HeldBy \in [Attempt -> Nat] /\ Adds(I, HeldBy, Attempt) /\ Committed = I[Rows]
      /\ HeldBy' \in [Attempt -> Nat] /\ Adds(J, HeldBy', Attempt) /\ Committed' = J[Rows]
  BY <1>1, <1>4, <1>5 DEF Summed
<1>7. /\ HeldBy[a] = reserved[a] /\ HeldBy'[a] = v
      /\ \A b \in Q : HeldBy[b] = HeldBy'[b]
  BY <1>1, <1>2, <1>3 DEF HeldBy, Held
<1> HIDE DEF Q
<1>8. I[Q] = J[Q] /\ I[Q] \in Nat
  BY <1>3, <1>6, <1>7, SumSame
<1>9. I[Q \cup {a}] = I[Q] + HeldBy[a]
  <2>1. /\ HeldBy \in [Attempt -> Nat] /\ Adds(I, HeldBy, Attempt)
        /\ IsFiniteSet(Attempt) /\ Q \in SUBSET Attempt /\ a \in Attempt \ Q
    BY <1>3, <1>6
  <2>2. QED
    BY <2>1, SumAdded
<1>10. J[Q \cup {a}] = J[Q] + HeldBy'[a]
  <2>1. /\ HeldBy' \in [Attempt -> Nat] /\ Adds(J, HeldBy', Attempt)
        /\ IsFiniteSet(Attempt) /\ Q \in SUBSET Attempt /\ a \in Attempt \ Q
    BY <1>3, <1>6
  <2>2. QED
    BY <2>1, SumAdded
<1>11. Committed = I[Q] + reserved[a] /\ Committed' = I[Q] + v
  BY <1>3, <1>6, <1>7, <1>8, <1>9, <1>10
<1>12. frozen' \/ Committed' <= Cap
  BY <1>1, <1>2, <1>8, <1>11, PolicyAssumption DEF CapInv
<1>13. QED
  BY <1>1, <1>12 DEF CapInv

LEMMA CapStep == BudgetInv /\ BudgetInv' /\ CapInv /\ [BudgetNext]_budgetVars => CapInv'
<1> SUFFICES ASSUME BudgetInv, BudgetInv', CapInv, [BudgetNext]_budgetVars PROVE CapInv'
  OBVIOUS
<1>1. CASE \/ BeginCreate \/ FinishCreate \/ UNCHANGED budgetVars
           \/ \E a \in Attempt : BeginReserve(a)
           \/ \E gone \in SUBSET Attempt : RollBack(gone)
  <2>1. UNCHANGED <<frozen, reserved, charged, receipt>>
    BY <1>1 DEF BeginCreate, FinishCreate, BeginReserve, RollBack, tableVars, budgetVars
  <2>2. Rows' = Rows /\ Committed' = Committed
    BY <2>1, CommittedSame DEF BudgetInv
  <2> QED
    BY <2>1, <2>2 DEF CapInv
<1>2. CASE \E a \in Attempt, e \in Amount : Reserve(a, e)
  BY <1>2, CapReserve
<1>3. CASE \E a \in Attempt, r \in Receipt, v \in Amount : Settle(a, r, v)
  BY <1>3, CapSettle
<1>4. QED
  BY <1>1, <1>2, <1>3 DEF BudgetNext

LEMMA CapInit == BudgetInit => CapInv
<1> SUFFICES ASSUME BudgetInit PROVE CapInv
  OBVIOUS
<1>1. Rows = {} /\ BudgetTypeOK
  BY BudgetInitHolds DEF BudgetInit, Rows, BudgetInv
<1>2. PICK I \in [SUBSET Attempt -> Nat] : Adds(I, HeldBy, Attempt) /\ Committed = I[Rows]
  BY <1>1, CommittedSum
<1>3. Committed = 0
  BY <1>1, <1>2 DEF Adds
<1>4. Cardinality(Rows) = 0
  BY <1>1, FS_EmptySet
<1>5. QED
  BY <1>3, <1>4, PolicyAssumption DEF CapInv

(* BUDGET.md: whatever the processes reserve and settle, and in which      *)
(* order, estimates and charges together stay within the cap as long as no *)
(* charge exceeded its estimate, and attempts within their number.         *)
THEOREM SpendingIsCapped == BudgetSpec => []WithinCap
<1>1. BudgetInit => CapInv
  BY CapInit
<1>2. BudgetInv /\ BudgetInv' /\ CapInv /\ [BudgetNext]_budgetVars => CapInv'
  BY CapStep
<1>3. BudgetInv /\ CapInv => WithinCap
  BY DEF BudgetInv, CapInv, WithinCap
<1>4. QED
  BY <1>1, <1>2, <1>3, LedgerIsConsistent, PTL DEF BudgetSpec

-----------------------------------------------------------------------------
(* The recording: what an append, a failed append, a close and a death     *)
(* between them leave on disk.                                             *)

(* A recorder that works and whose process lives has written exactly what  *)
(* it acknowledged; RecordInv is what remains when either is no longer so. *)
Synced == ~poisoned => log = chain /\ ~torn

(* Of(s, t) has a greatest member when it has any: a fact about all finite *)
(* sequences, kept true along the run.                                     *)
Of(s, t) == {i \in DOMAIN s : s[i].task = t}
HasLast(s, t) == Of(s, t) # {} => \E i \in Of(s, t) : \A j \in Of(s, t) : j <= i

Remembers == \A t \in Task : states[t] = LastKind(chain, t)
Sealed == seal.sealed => closed /\ ~poisoned /\ seal = SealOf(chain)

RecordInv ==
  /\ chain \in Seq(Event) /\ log \in Seq(Event)
  /\ states \in [Task -> Kind \cup {"none"}]
  /\ \A t \in Task : HasLast(chain, t)
  /\ Remembers
  /\ Replays(chain)
  /\ LogHoldsChain
  /\ Sealed

-----------------------------------------------------------------------------
(* The last event of a task, after one event more.                         *)
LEMMA LastKindAppended ==
  ASSUME NEW s \in Seq(Event), NEW kind \in Kind, NEW u \in Task, NEW t \in Task,
         HasLast(s, t)
  PROVE  /\ HasLast(Append(s, EventOf(kind, u)), t)
         /\ LastKind(Append(s, EventOf(kind, u)), t) = IF t = u THEN kind ELSE LastKind(s, t)
<1> DEFINE e == EventOf(kind, u)
           r == Append(s, e)
<1>1. e.task = u /\ e.kind = kind /\ e \in Event
  BY DEF EventOf, Event
<1>2. /\ r \in Seq(Event)
      /\ Len(r) = Len(s) + 1 /\ Len(s) \in Nat
      /\ r[Len(s) + 1] = e
      /\ \A i \in 1..Len(s) : r[i] = s[i]
      /\ DOMAIN r = 1..(Len(s) + 1) /\ DOMAIN s = 1..Len(s)
  BY <1>1
<1> HIDE DEF r, e
<1>3. CASE t = u
  <2>1. Len(s) + 1 \in Of(r, t)
    BY <1>1, <1>2, <1>3 DEF Of
  <2>2. \A j \in Of(r, t) : j <= Len(s) + 1 /\ j \in Nat
    BY <1>2 DEF Of
  <2>3. \A i \in Of(r, t) : (\A j \in Of(r, t) : j <= i) => i = Len(s) + 1
    BY <1>2, <2>1, <2>2
  <2> DEFINE last == CHOOSE i \in Of(r, t) : \A j \in Of(r, t) : j <= i
  <2>4. last = Len(s) + 1
    <3>1. last \in Of(r, t) /\ \A j \in Of(r, t) : j <= last
      BY <2>1, <2>2
    <3> HIDE DEF last
    <3> QED
      BY <3>1, <2>3
  <2>5. LastKind(r, t) = r[last].kind
    BY <2>1 DEF LastKind, Of
  <2>6. HasLast(r, t)
    BY <2>1, <2>2 DEF HasLast
  <2> QED
    BY <2>4, <2>5, <2>6, <1>1, <1>2, <1>3 DEF r, e
<1>4. CASE t # u
  <2>1. Of(r, t) = Of(s, t)
    BY <1>1, <1>2, <1>4 DEF Of
  <2>2. HasLast(r, t)
    BY <2>1 DEF HasLast
  <2>3. LastKind(r, t) = LastKind(s, t)
    <3>1. CASE Of(s, t) = {}
      BY <2>1, <3>1 DEF LastKind, Of
    <3>2. CASE Of(s, t) # {}
      <4> DEFINE last == CHOOSE i \in Of(s, t) : \A j \in Of(s, t) : j <= i
      <4>1. LastKind(s, t) = s[last].kind
        BY <3>2 DEF LastKind, Of
      <4>2. LastKind(r, t) = r[last].kind
        BY <2>1, <3>2 DEF LastKind, Of
      <4>3. last \in Of(s, t)
        BY <3>2 DEF HasLast
      <4>4. last \in 1..Len(s)
        BY <4>3, <1>2 DEF Of
      <4> QED
        BY <4>1, <4>2, <4>4, <1>2
    <3> QED
      BY <3>1, <3>2
  <2> QED
    BY <2>2, <2>3, <1>4 DEF r, e
<1> QED
  BY <1>3, <1>4

(* A log that replays still does after an event its task may make.         *)
LEMMA ReplaysAppended ==
  ASSUME NEW s \in Seq(Event), NEW kind \in Kind, NEW u \in Task,
         Replays(s), kind \in Allowed(LastKind(s, u))
  PROVE  Replays(Append(s, EventOf(kind, u)))
<1> DEFINE e == EventOf(kind, u)
           r == Append(s, e)
<1>1. e.task = u /\ e.kind = kind /\ e \in Event
  BY DEF EventOf, Event
<1>2. /\ Len(s) \in Nat
      /\ r[Len(s) + 1] = e
      /\ \A i \in 1..Len(s) : r[i] = s[i]
      /\ DOMAIN r = 1..(Len(s) + 1) /\ DOMAIN s = 1..Len(s)
  BY <1>1
<1>3. \A i \in 1..(Len(s) + 1) : SubSeq(r, 1, i - 1) = SubSeq(s, 1, i - 1)
  <2> SUFFICES ASSUME NEW i \in 1..(Len(s) + 1)
               PROVE  SubSeq(r, 1, i - 1) = SubSeq(s, 1, i - 1)
    OBVIOUS
  <2>1. \A j \in 1..(i - 1) : r[j] = s[j]
    BY <1>2
  <2> QED
    BY <2>1, <1>2, <1>1
<1>4. SubSeq(s, 1, Len(s)) = s
  OBVIOUS
<1> SUFFICES ASSUME NEW i \in DOMAIN r
             PROVE  r[i].kind \in Allowed(LastKind(SubSeq(r, 1, i - 1), r[i].task))
  BY DEF Replays
<1>5. CASE i \in 1..Len(s)
  BY <1>5, <1>2, <1>3 DEF Replays
<1>6. CASE i = Len(s) + 1
  <2>1. SubSeq(r, 1, i - 1) = s
    <3>1. i - 1 = Len(s) /\ i \in 1..(Len(s) + 1)
      BY <1>6, <1>2
    <3> QED
      BY <3>1, <1>3, <1>4
  <2>2. r[i] = e
    BY <1>6, <1>2
  <2>3. r[i].kind = kind /\ r[i].task = u
    BY <2>2, <1>1
  <2> HIDE DEF r
  <2> QED
    BY <2>1, <2>3
<1> QED
  BY <1>2, <1>5, <1>6

-----------------------------------------------------------------------------
LEMMA RecordInitHolds == RecordingInit => RecordInv /\ Synced
<1> SUFFICES ASSUME RecordingInit PROVE RecordInv /\ Synced
  OBVIOUS
<1>1. chain = <<>> /\ log = <<>> /\ <<>> \in Seq(Event) /\ DOMAIN <<>> = {} /\ Len(<<>>) = 0
  BY DEF RecordingInit
<1>2. \A t \in Task : HasLast(chain, t) /\ LastKind(chain, t) = "none"
  BY <1>1 DEF HasLast, Of, LastKind
<1>3. Remembers /\ states \in [Task -> Kind \cup {"none"}]
  BY <1>2 DEF Remembers, RecordingInit
<1>4. Replays(chain)
  BY <1>1 DEF Replays
<1>5. LogHoldsChain
  BY <1>1 DEF LogHoldsChain, RecordingInit
<1>6. Sealed
  BY DEF Sealed, NoSeal, RecordingInit
<1> QED
  BY <1>1, <1>2, <1>3, <1>4, <1>5, <1>6 DEF RecordInv, Synced, RecordingInit

(* An acknowledged append of a recorder that has failed nowhere before. *)
LEMMA AppendStep ==
  ASSUME RecordInv, Synced, NEW kind \in Kind, NEW t \in Task, AppendEvent(kind, t)
  PROVE  RecordInv' /\ Synced'
<1>1. ~poisoned /\ ~closed /\ log = chain /\ ~torn /\ kind \in Allowed(LastKind(chain, t))
  BY DEF AppendEvent, CanAppend, Synced, RecordInv, Remembers
<1>2. chain' = Append(chain, EventOf(kind, t)) /\ log' = chain' /\ EventOf(kind, t) \in Event
  BY <1>1 DEF AppendEvent, EventOf, Event
<1>3. chain \in Seq(Event) /\ chain' \in Seq(Event) /\ log' \in Seq(Event)
  BY <1>2 DEF RecordInv
<1>4. \A u \in Task :
        HasLast(chain', u) /\ LastKind(chain', u) = IF u = t THEN kind ELSE LastKind(chain, u)
  BY <1>2, LastKindAppended DEF RecordInv
<1>5. states' = [states EXCEPT ![t] = kind] /\ states' \in [Task -> Kind \cup {"none"}]
  BY DEF AppendEvent, RecordInv
<1>6. Remembers'
  BY <1>4, <1>5 DEF RecordInv, Remembers
<1>7. Replays(chain')
  BY <1>1, <1>2, ReplaysAppended DEF RecordInv
<1>8. UNCHANGED <<poisoned, closed, torn, seal>>
  BY DEF AppendEvent
<1>9. LogHoldsChain'
  <2>1. Len(chain') \in Nat /\ SubSeq(chain', 1, Len(chain')) = chain'
    BY <1>3
  <2> QED
    BY <1>1, <1>2, <1>8, <2>1 DEF LogHoldsChain
<1>10. Sealed'
  BY <1>1, <1>8 DEF Sealed, RecordInv
<1> QED
  BY <1>1, <1>2, <1>3, <1>4, <1>5, <1>6, <1>7, <1>8, <1>9, <1>10 DEF RecordInv, Synced

(* What a write that failed, or that nobody lived to see, can leave.       *)
LEMMA LeftoverStep ==
  ASSUME RecordInv, Synced, NEW kind \in Kind, NEW t \in Task,
         CanAppend(kind, t), Leftover(kind, t), UNCHANGED <<chain, states, closed, seal>>,
         poisoned' \in {poisoned, TRUE}
  PROVE  RecordInv'
<1>1. ~poisoned /\ ~closed /\ log = chain /\ ~torn
  BY DEF CanAppend, Synced
<1>2. log' = log \/ log' = Append(log, EventOf(kind, t))
  BY DEF Leftover
<1>3. log' \in Seq(Event) /\ log \in Seq(Event) /\ EventOf(kind, t) \in Event
  <2>1. EventOf(kind, t) \in Event
    BY DEF EventOf, Event
  <2>2. log \in Seq(Event) /\ Append(log, EventOf(kind, t)) \in Seq(Event)
    BY <2>1 DEF RecordInv
  <2> QED
    BY <1>2, <2>1, <2>2
<1>4. Len(log) <= Len(log') /\ Len(log') <= Len(log) + 1 /\ log = SubSeq(log', 1, Len(log))
  <2>1. CASE log' = log
    BY <2>1, <1>3
  <2>2. CASE log' = Append(log, EventOf(kind, t))
    <3>1. /\ Len(log') = Len(log) + 1 /\ Len(log) \in Nat
          /\ \A i \in 1..Len(log) : log'[i] = log[i]
      BY <2>2, <1>3
    <3>2. SubSeq(log', 1, Len(log)) = SubSeq(log, 1, Len(log))
      BY <3>1, <1>3
    <3>3. SubSeq(log, 1, Len(log)) = log
      BY <1>3
    <3> QED
      BY <3>1, <3>2, <3>3
  <2> QED
    BY <1>2, <2>1, <2>2
<1>5. LogHoldsChain'
  BY <1>1, <1>4 DEF LogHoldsChain
<1>6. Remembers' /\ Sealed'
  BY <1>1 DEF RecordInv, Remembers, Sealed
<1> QED
  BY <1>3, <1>5, <1>6 DEF RecordInv

(* close, whether its seal was written, torn or never begun, and a death   *)
(* in the middle of it: a good seal is one of a recorder that was sound.   *)
LEMMA CloseStep ==
  ASSUME RecordInv, Synced, closed' = TRUE, UNCHANGED <<chain, states, poisoned, log, torn>>,
         \/ UNCHANGED seal
         \/ ~poisoned /\ seal' \in {TornSeal, SealOf(chain)}
  PROVE  RecordInv' /\ Synced'
<1>1. LogHoldsChain'
  BY DEF RecordInv, Synced, LogHoldsChain
<1>2. ~TornSeal.sealed
  BY DEF TornSeal, NoSeal
<1>3. Sealed'
  BY <1>2 DEF RecordInv, Sealed
<1> QED
  BY <1>1, <1>3 DEF RecordInv, Synced, Remembers

(* The invariant says all that the property says. *)
LEMMA RecordInvImplies == RecordInv => RecordTruthful
<1> SUFFICES ASSUME RecordInv, seal.sealed PROVE ~poisoned /\ seal = SealOf(chain) /\ Verifies(FALSE)
  BY DEF RecordTruthful, SealTruthful, RecordInv
<1>1. closed /\ ~poisoned /\ seal = SealOf(chain)
  BY DEF RecordInv, Sealed
<1>2. log = chain /\ ~torn
  BY <1>1 DEF RecordInv, LogHoldsChain
<1>3. seal # NoSeal
  BY DEF NoSeal
<1> QED
  BY <1>1, <1>2, <1>3 DEF RecordInv, Verifies

-----------------------------------------------------------------------------
(* The fleet, which uses both.                                             *)

Holds(s, kind, t) == \E i \in DOMAIN s : s[i] = EventOf(kind, t)

FleetTypeOK ==
  /\ main \in MainStages
  /\ next \in 1..Last + 1
  /\ pc \in [Task -> Stages]
  /\ sent \subseteq Task

(* Until the run dies the recorder is sound or says that it is not. *)
Recorded == RecordInv /\ (main # "dead" => Synced)

(* A worker past its reservation has a row, one past request_started has   *)
(* the line as well, and a call that was made keeps both.                  *)
Paid ==
  /\ \A t \in Task : pc[t] \in {"reserved", "sending"} => t \in Rows
  /\ \A t \in Task : pc[t] = "sending" => Holds(log, "request_started", t)
  /\ CallsCovered

(* What accept() has stored by the time it gets where it is. *)
Backed ==
  /\ \A t \in Task : pc[t] \in {"validating", "storing", "recording"} => <<t, "response">> \in saved
  /\ \A t \in Task : pc[t] = "recording" => <<t, "review">> \in saved
  /\ ReviewEvidenced

(* A future that is done has ended its task in the log, the main thread    *)
(* only passes futures that are done, and only a run that passed all of    *)
(* them gets to write its result.                                          *)
Completed ==
  /\ \A t \in Task : pc[t] = "done" => states[t] \in Terminal
  /\ \A t \in Task : t < next => pc[t] = "done"
  /\ main \in {"closing", "verifying", "done"} => next > Last
  /\ main = "done" => Verifies(FALSE)

FleetInv == BudgetInv /\ Recorded /\ FleetTypeOK /\ Paid /\ Backed /\ Completed

-----------------------------------------------------------------------------
LEMMA TaskFacts == Last \in Nat /\ Task = 1..Last /\ IsFiniteSet(Task) /\ Task \subseteq Attempt
BY FleetAssumption, AttemptAssumption, FS_Subset, FS_CardinalityType DEF Last

LEMMA HoldsAppended ==
  ASSUME NEW s \in Seq(Event), NEW e \in Event, NEW kind, NEW t
  PROVE  Holds(Append(s, e), kind, t) <=> Holds(s, kind, t) \/ EventOf(kind, t) = e
<1> DEFINE r == Append(s, e)
<1>1. /\ Len(s) \in Nat /\ r[Len(s) + 1] = e
      /\ \A i \in 1..Len(s) : r[i] = s[i]
      /\ DOMAIN r = 1..(Len(s) + 1) /\ DOMAIN s = 1..Len(s)
  OBVIOUS
<1> HIDE DEF r
<1>2. (\E i \in DOMAIN r : r[i] = EventOf(kind, t))
        <=> (\E i \in DOMAIN s : s[i] = EventOf(kind, t)) \/ EventOf(kind, t) = e
  BY <1>1
<1> QED
  BY <1>2 DEF Holds, r

(* The table of the appends: which event each stage writes, where an       *)
(* acknowledged one leads and where an error leads.                        *)
LEMMA EmitTable ==
  ASSUME NEW t \in Task, pc[t] \in DOMAIN Emits
  PROVE  /\ pc[t] \in {"reserved", "answered", "recording", "completing", "doubtful", "deferring"}
         /\ Emits[pc[t]] \in Kind
         /\ AfterAppend(t).ok \in {"sending", "deciding", "completing", "done"}
         /\ AfterAppend(t).error \in {"raised", "doubtful"}
         /\ Emits[pc[t]] = "review_validated" => pc[t] = "recording"
         /\ AfterAppend(t).ok = "sending" => pc[t] = "reserved" /\ Emits[pc[t]] = "request_started"
         /\ AfterAppend(t).ok = "done" => Emits[pc[t]] \in Terminal
<1>1. CASE pc[t] = "reserved"
  BY <1>1 DEF Emits, AfterAppend, Kind
<1>2. CASE pc[t] = "answered"
  BY <1>2 DEF Emits, AfterAppend, Kind
<1>3. CASE pc[t] = "recording"
  BY <1>3 DEF Emits, AfterAppend, Kind
<1>4. CASE pc[t] = "completing"
  BY <1>4 DEF Emits, AfterAppend, Kind, Terminal
<1>5. CASE pc[t] = "doubtful"
  BY <1>5 DEF Emits, AfterAppend, Kind, Terminal
<1>6. CASE pc[t] = "deferring"
  BY <1>6 DEF Emits, AfterAppend, Kind, Terminal
<1> QED
  BY <1>1, <1>2, <1>3, <1>4, <1>5, <1>6 DEF Emits

LEMMA DecideTable ==
  ASSUME NEW t \in Task, Decide(t)
  PROVE  \E s \in {"completing", "doubtful", "saving"} : To(t, s)
<1>1. CASE reply[t] = "fallback"
  BY <1>1 DEF Decide
<1>2. CASE reply[t] = "unconfirmed"
  BY <1>2 DEF Decide
<1>3. CASE reply[t] \notin {"fallback", "unconfirmed"}
  BY <1>3 DEF Decide
<1> QED
  BY <1>1, <1>2, <1>3

(* Where a step of a worker leads that appends nothing.                    *)
LEMMA WorkerMoves ==
  ASSUME FleetTypeOK, NEW t \in Task, Worker(t), ~Emit(t)
  PROVE  \E s \in Stages : To(t, s) /\ s # "done"
<1>1. CASE Decide(t)
  BY <1>1, DecideTable DEF Stages, Busy, Emits
<1>3. CASE BeginAdmit(t)
  <2>1. pc' = pc /\ pc[t] = "reserving" /\ pc \in [Task -> Stages]
    BY <1>3 DEF BeginAdmit, fleetVars, FleetTypeOK
  <2>2. pc' = [pc EXCEPT ![t] = "reserving"] /\ "reserving" \in Stages
    BY <2>1 DEF Stages, Busy
  <2> QED
    BY <2>2 DEF To
<1>2. CASE ~Decide(t) /\ ~BeginAdmit(t)
  BY <1>2 DEF Worker, Start, BeginAdmit, Admit, Refuse, Send, Answered, Unreadable, Escapes,
              SaveResponse, ValidateReview, StoreReview, Save, Stages, Busy, Emits
<1> QED
  BY <1>1, <1>2, <1>3

LEMMA FleetInitHolds == Init => FleetInv
<1> SUFFICES ASSUME Init PROVE FleetInv
  OBVIOUS
<1>1. BudgetInv /\ Recorded
  BY BudgetInitHolds, RecordInitHolds DEF Init, Recorded
<1>2. FleetTypeOK
  BY TaskFacts DEF Init, FleetTypeOK, MainStages, Stages
<1>3. log = <<>> /\ DOMAIN log = {}
  BY DEF Init, RecordingInit
<1>4. Paid /\ Backed
  BY <1>3 DEF Init, Paid, Backed, CallsCovered, ReviewEvidenced
<1>5. Completed
  BY TaskFacts DEF Init, Completed
<1> QED
  BY <1>1, <1>2, <1>4, <1>5 DEF FleetInv

-----------------------------------------------------------------------------
(* The run, whoever moves, uses the ledger as its methods allow.           *)
LEMMA LedgerStep == [Next]_vars => [BudgetNext]_budgetVars
<1> SUFFICES ASSUME [Next]_vars PROVE [BudgetNext]_budgetVars
  OBVIOUS
<1>1. CASE UNCHANGED vars
  BY <1>1 DEF vars
<1>2. CASE Main
  BY <1>2 DEF Main, Begin, Queue, TakeResult, TakeException, LeavePool, CloseRecorder, Conclude
<1>3. ASSUME NEW t \in Task, Worker(t) PROVE [BudgetNext]_budgetVars
  <2>1. CASE Admit(t)
    <3>1. t \in Attempt /\ Estimate \in Amount
      BY FleetAssumption
    <3> QED
      BY <2>1, <3>1 DEF Admit, BudgetNext
  <2>2. CASE BeginAdmit(t)
    BY <2>2, TaskFacts DEF BeginAdmit, BudgetNext
  <2>3. CASE Refuse(t)
    <3>1. {t} \in SUBSET Attempt
      BY TaskFacts
    <3> QED
      BY <2>3, <3>1 DEF Refuse, BudgetNext
  <2>4. CASE ~Admit(t) /\ ~BeginAdmit(t) /\ ~Refuse(t)
    BY <1>3, <2>4 DEF Worker, Start, Emit, Send, Answered, Unreadable, Escapes, Decide,
                      SaveResponse, ValidateReview, StoreReview, Save
  <2> QED
    BY <2>1, <2>2, <2>3, <2>4
<1>4. CASE Crash
  <2>1. Task \in SUBSET Attempt
    BY TaskFacts
  <2> QED
    BY <1>4, <2>1 DEF Crash, BudgetNext
<1>5. CASE Others
  <2>1. Other \subseteq Attempt /\ \A a \in Other : {a} \in SUBSET Attempt
    BY FleetAssumption
  <2> QED
    BY <1>5, <2>1 DEF Others, BudgetNext
<1> QED
  BY <1>1, <1>2, <1>3, <1>4, <1>5 DEF Next

LEMMA TypeStep == FleetTypeOK /\ [Next]_vars => FleetTypeOK'
<1> SUFFICES ASSUME FleetTypeOK, [Next]_vars PROVE FleetTypeOK'
  OBVIOUS
<1> USE DEF FleetTypeOK
<1>1. CASE UNCHANGED vars
  BY <1>1 DEF vars, fleetVars, Last
<1>2. CASE Main
  <2>1. main' \in MainStages /\ sent' = sent
    BY <1>2 DEF Main, Begin, Queue, TakeResult, TakeException, LeavePool, CloseRecorder, Conclude,
                MainStages
  <2>2. next' \in 1..Last + 1
    <3>1. next' = next \/ (next <= Last /\ next' = next + 1)
      BY <1>2 DEF Main, Begin, Queue, TakeResult, TakeException, LeavePool, CloseRecorder, Conclude
    <3> QED
      BY <3>1, TaskFacts
  <2>3. pc' \in [Task -> Stages]
    <3>1. CASE TakeException
      BY <3>1 DEF TakeException, Stages
    <3>2. CASE ~TakeException
      BY <1>2, <3>2 DEF Main, Begin, Queue, TakeResult, LeavePool, CloseRecorder, Conclude
    <3> QED
      BY <3>1, <3>2
  <2> QED
    BY <2>1, <2>2, <2>3 DEF Last
<1>3. ASSUME NEW t \in Task, Worker(t) PROVE FleetTypeOK'
  <2>1. UNCHANGED <<main, next>> /\ sent' \subseteq Task
    BY <1>3 DEF Worker, Start, BeginAdmit, Admit, Refuse, Emit, Send, Answered, Unreadable, Escapes,
                Decide, SaveResponse, ValidateReview, StoreReview, Save, fleetVars
  <2>2. CASE Emit(t)
    <3>1. \E s \in Stages : To(t, s)
      BY <2>2, EmitTable DEF Emit, Stages, Busy, Emits
    <3> QED
      BY <2>1, <3>1 DEF To, Last
  <2>3. CASE ~Emit(t)
    <3>1. \E s \in Stages : To(t, s)
      BY <1>3, <2>3, WorkerMoves
    <3> QED
      BY <2>1, <3>1 DEF To, Last
  <2> QED
    BY <2>2, <2>3
<1>4. CASE Crash
  BY <1>4 DEF Crash, MainStages, Last
<1>5. CASE Others
  BY <1>5 DEF Others, fleetVars, Last
<1> QED
  BY <1>1, <1>2, <1>3, <1>4, <1>5 DEF Next

-----------------------------------------------------------------------------
(* What one step may do to the file of events: nothing, or one line more,  *)
(* and a line that says a review validated only from a worker there.       *)
LogGrows ==
  \/ log' = log
  \/ \E t \in Task, kind \in Kind :
       /\ log' = Append(log, EventOf(kind, t))
       /\ kind = "review_validated" => pc[t] = "recording"

LEMMA LogStep == [Next]_vars => LogGrows
<1> SUFFICES ASSUME [Next]_vars PROVE LogGrows
  OBVIOUS
<1>1. CASE UNCHANGED vars
  BY <1>1 DEF vars, recordingVars, LogGrows
<1>2. ASSUME NEW t \in Task, Queue(t) PROVE LogGrows
  <2>1. "task_queued" \in Kind /\ "task_queued" # "review_validated"
    BY DEF Kind
  <2> QED
    BY <1>2, <2>1 DEF Queue, AppendEvent, AppendFails, Leftover, recordingVars, LogGrows
<1>3. CASE Begin \/ TakeResult \/ TakeException \/ LeavePool \/ CloseRecorder \/ Conclude
  BY <1>3 DEF Begin, TakeResult, TakeException, LeavePool, CloseRecorder, Conclude, CloseSealed,
              CloseFails, recordingVars, LogGrows
<1>4. ASSUME NEW t \in Task, Emit(t) PROVE LogGrows
  BY <1>4, EmitTable DEF Emit, AppendEvent, AppendFails, Leftover, recordingVars, LogGrows
<1>5. ASSUME NEW t \in Task, Worker(t), ~Emit(t) PROVE LogGrows
  BY <1>5 DEF Worker, Start, BeginAdmit, Admit, Refuse, Send, Answered, Unreadable, Escapes,
                Decide, SaveResponse, ValidateReview, StoreReview, Save,
                fleetVars, recordingVars, LogGrows
<1>6. CASE Crash
  <2>1. CASE log' = log
    BY <2>1 DEF LogGrows
  <2>2. CASE log' # log
    <3>1. PICK t \in Task, kind \in Kind :
             /\ \/ pc[t] \in DOMAIN Emits /\ kind = Emits[pc[t]]
                \/ main = "queueing" /\ kind = "task_queued"
             /\ Leftover(kind, t)
      BY <1>6, <2>2 DEF Crash, recordingVars
    <3>2. kind = "review_validated" => pc[t] = "recording"
      BY <3>1, EmitTable
    <3> QED
      BY <3>1, <3>2, <2>2 DEF Leftover, LogGrows
  <2> QED
    BY <2>1, <2>2
<1>7. CASE Others
  BY <1>7 DEF Others, recordingVars, LogGrows
<1> QED
  BY <1>1, <1>2, <1>3, <1>4, <1>5, <1>6, <1>7 DEF Next, Main

LEMMA HoldsStep ==
  ASSUME log \in Seq(Event), LogGrows, NEW kind, NEW t
  PROVE  /\ Holds(log, kind, t) => Holds(log', kind, t)
         /\ kind = "review_validated" /\ Holds(log', kind, t)
              => Holds(log, kind, t) \/ pc[t] = "recording"
<1>1. CASE log' = log
  BY <1>1
<1>2. ASSUME NEW u \in Task, NEW k \in Kind, log' = Append(log, EventOf(k, u)),
             k = "review_validated" => pc[u] = "recording"
      PROVE  /\ Holds(log, kind, t) => Holds(log', kind, t)
             /\ kind = "review_validated" /\ Holds(log', kind, t)
                  => Holds(log, kind, t) \/ pc[t] = "recording"
  <2>1. EventOf(k, u) \in Event
    BY DEF EventOf, Event
  <2>2. Holds(log', kind, t) <=> Holds(log, kind, t) \/ EventOf(kind, t) = EventOf(k, u)
    BY <1>2, <2>1, HoldsAppended
  <2>3. EventOf(kind, t) = EventOf(k, u) => kind = k /\ t = u
    BY DEF EventOf
  <2> QED
    BY <1>2, <2>2, <2>3
<1> QED
  BY <1>1, <1>2 DEF LogGrows

-----------------------------------------------------------------------------
LEMMA RecordedStep == Recorded /\ [Next]_vars => Recorded'
<1> SUFFICES ASSUME Recorded, [Next]_vars PROVE Recorded'
  OBVIOUS
<1>1. CASE UNCHANGED recordingVars /\ (main' = main \/ main # "dead")
  BY <1>1 DEF Recorded, RecordInv, Synced, recordingVars, Remembers, LogHoldsChain, Sealed
<1>2. ASSUME NEW kind \in Kind, NEW t \in Task, main # "dead",
             AppendEvent(kind, t) \/ AppendFails(kind, t)
      PROVE  Recorded'
  <2>1. CASE AppendEvent(kind, t)
    BY <1>2, <2>1, AppendStep DEF Recorded
  <2>2. CASE AppendFails(kind, t)
    <3>1. RecordInv'
      BY <1>2, <2>2, LeftoverStep DEF Recorded, AppendFails
    <3> QED
      BY <2>2, <3>1 DEF Recorded, Synced, AppendFails
  <2> QED
    BY <1>2, <2>1, <2>2
<1>3. ASSUME NEW t \in Task, Queue(t) PROVE Recorded'
  <2>1. main = "queueing" /\ "task_queued" \in Kind
    BY <1>3 DEF Queue, Kind
  <2> QED
    BY <1>1, <1>2, <1>3, <2>1 DEF Queue
<1>4. ASSUME NEW t \in Task, Emit(t) PROVE Recorded'
  BY <1>1, <1>2, <1>4, EmitTable DEF Emit
<1>5. ASSUME NEW t \in Task, Worker(t), ~Emit(t) PROVE Recorded'
  <2>1. UNCHANGED <<recordingVars, main>>
    BY <1>5 DEF Worker, Start, BeginAdmit, Admit, Refuse, Send, Answered, Unreadable, Escapes,
                Decide, SaveResponse, ValidateReview, StoreReview, Save, fleetVars
  <2> QED
    BY <1>1, <2>1
<1>6. CASE Begin \/ TakeResult \/ TakeException \/ LeavePool \/ Conclude
  <2>1. UNCHANGED recordingVars /\ main # "dead"
    BY <1>6 DEF Begin, TakeResult, TakeException, LeavePool, Conclude
  <2> QED
    BY <1>1, <2>1
<1>7. CASE CloseRecorder
  <2>1. /\ main # "dead" /\ closed' = TRUE /\ UNCHANGED <<chain, states, poisoned, log, torn>>
        /\ \/ UNCHANGED seal
           \/ ~poisoned /\ seal' \in {TornSeal, SealOf(chain)}
    BY <1>7 DEF CloseRecorder, CloseSealed, CloseFails
  <2> QED
    BY <2>1, CloseStep DEF Recorded
<1>8. CASE Crash
  <2>1. main # "dead" /\ main' = "dead"
    BY <1>8 DEF Crash, Ended
  <2>2. CASE UNCHANGED recordingVars
    BY <1>1, <2>1, <2>2
  <2>3. ASSUME NEW t \in Task, NEW kind \in Kind, CanAppend(kind, t), Leftover(kind, t),
               UNCHANGED <<chain, states, size, poisoned, closed, seal>>
        PROVE  Recorded'
    BY <2>1, <2>3, LeftoverStep DEF Recorded
  <2>4. CASE /\ ~poisoned /\ seal' \in {TornSeal, SealOf(chain)} /\ closed' = TRUE
             /\ UNCHANGED <<chain, states, size, poisoned, log, torn>>
    BY <2>1, <2>4, CloseStep DEF Recorded
  <2> QED
    BY <1>8, <2>2, <2>3, <2>4 DEF Crash
<1>9. CASE Others \/ UNCHANGED vars
  BY <1>1, <1>9 DEF Others, vars, fleetVars
<1> QED
  BY <1>3, <1>4, <1>5, <1>6, <1>7, <1>8, <1>9 DEF Next, Main

-----------------------------------------------------------------------------
(* Rows and lines of a task stay; what is left is where a worker enters    *)
(* "reserved", "sending" or the call itself.                               *)
LEMMA PaidStep ==
  BudgetInv /\ Recorded /\ FleetTypeOK /\ Paid /\ [Next]_vars => Paid'
<1> SUFFICES ASSUME BudgetInv, Recorded, FleetTypeOK, Paid, [Next]_vars PROVE Paid'
  OBVIOUS
<1>1. Rows \subseteq Rows'
  <2>1. CASE UNCHANGED budgetVars
    BY <2>1 DEF budgetVars, tableVars, Rows
  <2>2. CASE BudgetNext
    <3>1. \A a \in Rows : reserved'[a] = reserved[a]
      BY <2>2, FinalStep DEF Finality
    <3> QED
      BY <3>1 DEF Rows
  <2> QED
    BY <2>1, <2>2, LedgerStep
<1>2. log \in Seq(Event) /\ LogGrows
  BY LogStep DEF Recorded, RecordInv
<1>3. \A t \in Task : Holds(log, "request_started", t) => Holds(log', "request_started", t)
  BY <1>2, HoldsStep
<1>4. \A t \in Task : (CallsCovered /\ t \in sent) => t \in Rows /\ Holds(log, "request_started", t)
  BY DEF CallsCovered, Holds
<1>5. ASSUME \A t \in Task : pc'[t] \in {"reserved", "sending"} =>
                pc'[t] = pc[t] \/ (pc[t] = "reserving" /\ pc'[t] = "reserved" /\ t \in Rows')
                \/ (pc[t] = "reserved" /\ pc'[t] = "sending" /\ Holds(log', "request_started", t)),
             \A t \in sent' : t \in sent \/ (t \in Task /\ pc[t] = "sending")
      PROVE  Paid'
  <2>1. CallsCovered'
    <3> SUFFICES ASSUME NEW t \in sent' PROVE t \in Rows' /\ Holds(log', "request_started", t)
      BY DEF CallsCovered, Holds
    <3>1. t \in Task /\ (t \in sent \/ pc[t] = "sending")
      BY <1>5 DEF FleetTypeOK
    <3> QED
      BY <3>1, <1>1, <1>3, <1>4 DEF Paid
  <2>2. \A t \in Task : pc'[t] \in {"reserved", "sending"} => t \in Rows'
    BY <1>1, <1>5 DEF Paid
  <2>3. \A t \in Task : pc'[t] = "sending" => Holds(log', "request_started", t)
    BY <1>3, <1>5 DEF Paid
  <2> QED
    BY <2>1, <2>2, <2>3 DEF Paid
<1>6. CASE Main \/ Crash \/ Others \/ UNCHANGED vars
  <2>1. sent' = sent /\ \A t \in Task : pc'[t] = pc[t] \/ pc'[t] = "cancelled"
    BY <1>6 DEF Main, Begin, Queue, TakeResult, TakeException, LeavePool, CloseRecorder, Conclude,
                Crash, Others, vars, fleetVars, FleetTypeOK
  <2> QED
    BY <1>5, <2>1
<1>7. ASSUME NEW t \in Task, Worker(t) PROVE Paid'
  <2>1. \A u \in Task : u # t => pc'[u] = pc[u]
    <3>1. \E s \in Stages : To(t, s)
      <4>1. CASE Emit(t)
        BY <4>1, EmitTable DEF Emit, Stages, Busy, Emits
      <4> QED
        BY <4>1, <1>7, WorkerMoves
    <3> QED
      BY <3>1 DEF To, FleetTypeOK
  <2>2. CASE Admit(t)
    <3>1. t \in Attempt /\ Estimate > 0
      BY FleetAssumption, AmountAssumption
    <3>2. t \in Rows'
      BY <2>2, <3>1 DEF Admit, Reserve, BudgetInv, BudgetTypeOK, Rows
    <3>3. pc[t] = "reserving" /\ pc'[t] = "reserved" /\ sent' = sent
      BY <2>2 DEF Admit, To, FleetTypeOK
    <3> QED
      BY <1>5, <2>1, <3>2, <3>3
  <2>3. CASE Emit(t)
    <3>1. sent' = sent
      BY <2>3 DEF Emit
    <3>2. CASE AppendEvent(Emits[pc[t]], t) /\ To(t, AfterAppend(t).ok)
      <4>1. pc'[t] = AfterAppend(t).ok
        BY <3>2 DEF To, FleetTypeOK
      <4>2. pc'[t] # "reserved"
        BY <2>3, <4>1, EmitTable DEF Emit
      <4>3. pc'[t] = "sending" => pc[t] = "reserved" /\ Emits[pc[t]] = "request_started"
        BY <2>3, <4>1, EmitTable DEF Emit
      <4>4. pc'[t] = "sending" => Holds(log', "request_started", t)
        <5> SUFFICES ASSUME pc'[t] = "sending" PROVE Holds(log', "request_started", t)
          OBVIOUS
        <5>1. EventOf("request_started", t) \in Event
          BY DEF EventOf, Event, Kind
        <5>2. log' = Append(log, EventOf("request_started", t))
          BY <3>2, <4>3 DEF AppendEvent
        <5> QED
          BY <1>2, <5>1, <5>2, HoldsAppended
      <4> QED
        BY <1>5, <2>1, <3>1, <4>2, <4>3, <4>4
    <3>3. CASE To(t, AfterAppend(t).error)
      <4>1. pc'[t] \notin {"reserved", "sending"}
        BY <2>3, <3>3, EmitTable DEF Emit, To, FleetTypeOK
      <4> QED
        BY <1>5, <2>1, <3>1, <4>1
    <3> QED
      BY <2>3, <3>2, <3>3 DEF Emit
  <2>4. CASE Send(t)
    <3>1. pc[t] = "sending" /\ pc'[t] = "waiting" /\ sent' = sent \cup {t}
      BY <2>4 DEF Send, To, FleetTypeOK
    <3> QED
      BY <1>5, <2>1, <3>1
  <2>5. CASE Decide(t)
    <3>1. pc'[t] \notin {"reserved", "sending"} /\ sent' = sent
      BY <2>5, DecideTable DEF Decide, To, FleetTypeOK
    <3> QED
      BY <1>5, <2>1, <3>1
  <2>6. CASE \/ Start(t) \/ BeginAdmit(t) \/ Refuse(t) \/ Answered(t) \/ Unreadable(t) \/ Escapes(t)
             \/ SaveResponse(t) \/ ValidateReview(t) \/ StoreReview(t)
    <3>1. pc'[t] \notin {"reserved", "sending"} /\ sent' = sent
      BY <2>6 DEF Start, BeginAdmit, Refuse, Answered, Unreadable, Escapes, SaveResponse,
                  ValidateReview, StoreReview, Save, To, FleetTypeOK, fleetVars
    <3> QED
      BY <1>5, <2>1, <3>1
  <2> QED
    BY <1>7, <2>2, <2>3, <2>4, <2>5, <2>6 DEF Worker
<1> QED
  BY <1>6, <1>7 DEF Next

-----------------------------------------------------------------------------
(* Stored artifacts stay, and a worker gets further only by storing one.   *)
LEMMA BackedStep == Recorded /\ FleetTypeOK /\ Backed /\ [Next]_vars => Backed'
<1> SUFFICES ASSUME Recorded, FleetTypeOK, Backed, [Next]_vars PROVE Backed'
  OBVIOUS
<1>1. log \in Seq(Event) /\ LogGrows
  BY LogStep DEF Recorded, RecordInv
<1>2. \A t \in Task : Holds(log', "review_validated", t) =>
                        Holds(log, "review_validated", t) \/ pc[t] = "recording"
  BY <1>1, HoldsStep
<1> DEFINE Behind == {"validating", "storing", "recording"}
<1>3. ASSUME saved \subseteq saved',
             \A t \in Task : pc'[t] \in Behind =>
                \/ pc'[t] = pc[t]
                \/ pc[t] = "saving" /\ pc'[t] = "validating" /\ <<t, "response">> \in saved'
                \/ pc[t] = "validating" /\ pc'[t] = "storing"
                \/ pc[t] = "storing" /\ pc'[t] = "recording" /\ <<t, "review">> \in saved'
      PROVE  Backed'
  <2>1. \A t \in Task : pc'[t] \in Behind => <<t, "response">> \in saved'
    BY <1>3 DEF Backed
  <2>2. \A t \in Task : pc'[t] = "recording" => <<t, "review">> \in saved'
    BY <1>3 DEF Backed
  <2>3. ReviewEvidenced'
    <3> SUFFICES ASSUME NEW t \in Task, Holds(log', "review_validated", t)
                 PROVE  <<t, "response">> \in saved' /\ <<t, "review">> \in saved'
      BY DEF ReviewEvidenced, Holds
    <3>1. CASE Holds(log, "review_validated", t)
      BY <1>3, <3>1 DEF Backed, ReviewEvidenced, Holds
    <3>2. CASE pc[t] = "recording"
      BY <1>3, <3>2 DEF Backed
    <3> QED
      BY <1>2, <3>1, <3>2
  <2> QED
    BY <2>1, <2>2, <2>3 DEF Backed
<1>4. CASE Main \/ Crash \/ Others \/ UNCHANGED vars
  <2>1. saved' = saved /\ \A t \in Task : pc'[t] = pc[t] \/ pc'[t] = "cancelled"
    BY <1>4 DEF Main, Begin, Queue, TakeResult, TakeException, LeavePool, CloseRecorder, Conclude,
                Crash, Others, vars, fleetVars, FleetTypeOK
  <2> QED
    BY <1>3, <2>1
<1>5. ASSUME NEW t \in Task, Worker(t) PROVE Backed'
  <2>1. \A u \in Task : u # t => pc'[u] = pc[u]
    <3>1. \E s \in Stages : To(t, s)
      <4>1. CASE Emit(t)
        BY <4>1, EmitTable DEF Emit, Stages, Busy, Emits
      <4> QED
        BY <4>1, <1>5, WorkerMoves
    <3> QED
      BY <3>1 DEF To, FleetTypeOK
  <2>2. CASE SaveResponse(t)
    <3>1. \/ saved' = saved \cup {<<t, "response">>} /\ pc[t] = "saving" /\ pc'[t] = "validating"
          \/ saved' = saved /\ pc'[t] = "doubtful"
      BY <2>2 DEF SaveResponse, Save, To, FleetTypeOK
    <3> QED
      BY <1>3, <2>1, <3>1
  <2>3. CASE StoreReview(t)
    <3>1. \/ saved' = saved \cup {<<t, "review">>} /\ pc[t] = "storing" /\ pc'[t] = "recording"
          \/ saved' = saved /\ pc'[t] = "doubtful"
      BY <2>3 DEF StoreReview, Save, To, FleetTypeOK
    <3> QED
      BY <1>3, <2>1, <3>1
  <2>4. CASE ValidateReview(t)
    <3>1. saved' = saved /\ pc[t] = "validating" /\ pc'[t] \in {"storing", "doubtful"}
      BY <2>4 DEF ValidateReview, To, FleetTypeOK
    <3> QED
      BY <1>3, <2>1, <3>1
  <2>5. CASE Emit(t)
    <3>1. saved' = saved /\ pc'[t] \notin Behind
      BY <2>5, EmitTable DEF Emit, To, FleetTypeOK
    <3> QED
      BY <1>3, <2>1, <3>1
  <2>6. CASE Decide(t)
    <3>1. saved' = saved /\ pc'[t] \notin Behind
      BY <2>6, DecideTable DEF Decide, To, FleetTypeOK
    <3> QED
      BY <1>3, <2>1, <3>1
  <2>7. CASE \/ Start(t) \/ BeginAdmit(t) \/ Admit(t) \/ Refuse(t) \/ Send(t) \/ Answered(t)
             \/ Unreadable(t) \/ Escapes(t)
    <3>1. saved' = saved /\ pc'[t] \notin Behind
      BY <2>7 DEF Start, BeginAdmit, Admit, Refuse, Send, Answered, Unreadable, Escapes, To,
                  FleetTypeOK, fleetVars
    <3> QED
      BY <1>3, <2>1, <3>1
  <2> QED
    BY <1>5, <2>2, <2>3, <2>4, <2>5, <2>6, <2>7 DEF Worker
<1> QED
  BY <1>4, <1>5 DEF Next

-----------------------------------------------------------------------------
(* A task that ended never leaves its end, for no event may follow it.     *)
LEMMA EndsStay ==
  ASSUME Recorded, NEW t \in Task, states[t] \in Terminal, [Next]_vars
  PROVE  states'[t] \in Terminal
<1>1. CASE states' = states
  BY <1>1
<1>2. ASSUME NEW u \in Task, NEW kind \in Kind, AppendEvent(kind, u) PROVE states'[t] \in Terminal
  <2>1. kind \in Allowed(states[u])
    BY <1>2 DEF AppendEvent, CanAppend
  <2>2. \A end \in Terminal : Allowed(end) = {}
    <3> SUFFICES ASSUME NEW end \in Terminal PROVE Allowed(end) = {}
      OBVIOUS
    <3>1. end \notin {"none", "task_queued", "request_started", "response_received",
                      "review_validated"}
      BY DEF Terminal
    <3> QED
      BY <3>1 DEF Allowed
  <2>3. u # t
    BY <2>1, <2>2
  <2>4. states'[t] = states[t]
    BY <1>2, <2>3 DEF AppendEvent, Recorded, RecordInv
  <2> QED
    BY <2>4
<1>3. states' = states \/ \E u \in Task, kind \in Kind : AppendEvent(kind, u)
  <2>1. CASE Crash \/ Others \/ UNCHANGED vars
    BY <2>1 DEF Crash, Others, vars, recordingVars
  <2>2. CASE Main
    <3>1. "task_queued" \in Kind
      BY DEF Kind
    <3> QED
      BY <2>2, <3>1 DEF Main, Begin, Queue, TakeResult, TakeException, LeavePool, CloseRecorder,
                Conclude, AppendFails, CloseSealed, CloseFails, recordingVars
  <2>3. ASSUME NEW u \in Task, Emit(u)
        PROVE  states' = states \/ \E kind \in Kind : AppendEvent(kind, u)
    BY <2>3, EmitTable DEF Emit, AppendFails, recordingVars
  <2>4. ASSUME NEW u \in Task, Worker(u), ~Emit(u) PROVE states' = states
    BY <2>4 DEF Worker, Start, BeginAdmit, Admit, Refuse, Send, Answered, Unreadable, Escapes,
                Decide, SaveResponse, ValidateReview, StoreReview, Save, fleetVars, recordingVars
  <2> QED
    BY <2>1, <2>2, <2>3, <2>4 DEF Next
<1> QED
  BY <1>1, <1>2, <1>3

LEMMA CompletedStep == Recorded /\ FleetTypeOK /\ Completed /\ [Next]_vars => Completed'
<1> SUFFICES ASSUME Recorded, FleetTypeOK, Completed, [Next]_vars PROVE Completed'
  OBVIOUS
<1>1. \A t \in Task : pc[t] = "done" => states'[t] \in Terminal
  BY EndsStay DEF Completed
<1>2. next \in Nat /\ Last' = Last /\ \A t \in Task : t \in Nat
  BY TaskFacts DEF FleetTypeOK, Last
<1>3. CASE Main \/ Crash \/ Others \/ UNCHANGED vars
  <2>1. \A t \in Task : pc'[t] = pc[t] \/ (pc[t] = "pending" /\ pc'[t] = "cancelled")
    BY <1>3 DEF Main, Begin, Queue, TakeResult, TakeException, LeavePool, CloseRecorder, Conclude,
                Crash, Others, vars, fleetVars, FleetTypeOK
  <2>2. \A t \in Task : pc'[t] = "done" => states'[t] \in Terminal
    BY <1>1, <2>1
  <2>3. \/ next' = next
        \/ next' = next + 1 /\ pc[next] = "done" /\ pc' = pc
    BY <1>3 DEF Main, Begin, Queue, TakeResult, TakeException, LeavePool, CloseRecorder, Conclude,
                Crash, Others, vars, fleetVars
  <2>4. \A t \in Task : t < next' => pc'[t] = "done"
    BY <1>2, <2>1, <2>3 DEF Completed
  <2>5. main' \in {"closing", "verifying", "done"} =>
           /\ next' > Last
           /\ main' = "done" => (main = "verifying" /\ Verifies(FALSE)) \/ main = "done"
           /\ main' = "done" => UNCHANGED recordingVars
    BY <1>2, <1>3 DEF Main, Begin, Queue, TakeResult, TakeException, LeavePool, CloseRecorder,
                Conclude, Crash, Others, vars, fleetVars, Completed
  <2>6. main' = "done" => Verifies(FALSE)'
    <3> SUFFICES ASSUME main' = "done" PROVE Verifies(FALSE)'
      OBVIOUS
    <3>1. Verifies(FALSE) /\ log' = log /\ torn' = torn /\ seal' = seal
      BY <2>5 DEF Completed, recordingVars
    <3> QED
      BY <3>1 DEF Verifies
  <2> QED
    BY <1>2, <2>2, <2>4, <2>5, <2>6 DEF Completed
<1>4. ASSUME NEW t \in Task, Worker(t) PROVE Completed'
  <2>1. UNCHANGED <<main, next>> /\ pc[t] # "done"
    BY <1>4 DEF Worker, Start, BeginAdmit, Admit, Refuse, Emit, Emits, Send, Answered, Unreadable,
                Escapes, Decide, SaveResponse, ValidateReview, StoreReview, Save, fleetVars
  <2>2. ~(next > Last)
    BY <1>2, <2>1, TaskFacts DEF Completed
  <2>3. main' \notin {"closing", "verifying", "done"}
    BY <2>1, <2>2 DEF Completed
  <2>4. \A u \in Task : pc[u] = "done" => pc'[u] = "done"
    <3>1. \E s \in Stages : To(t, s)
      <4>1. CASE Emit(t)
        BY <4>1, EmitTable DEF Emit, Stages, Busy, Emits
      <4> QED
        BY <4>1, <1>4, WorkerMoves
    <3> QED
      BY <2>1, <3>1 DEF To, FleetTypeOK
  <2>5. \A u \in Task : pc'[u] = "done" => pc[u] = "done" \/ (u = t /\ states'[t] \in Terminal)
    <3>1. CASE Emit(t) /\ AppendEvent(Emits[pc[t]], t) /\ To(t, AfterAppend(t).ok)
      <4>1. pc' = [pc EXCEPT ![t] = AfterAppend(t).ok]
            /\ states' = [states EXCEPT ![t] = Emits[pc[t]]]
        BY <3>1 DEF To, AppendEvent
      <4>2. AfterAppend(t).ok = "done" => Emits[pc[t]] \in Terminal
        BY <3>1, EmitTable DEF Emit
      <4> QED
        BY <4>1, <4>2 DEF FleetTypeOK, Recorded, RecordInv
    <3>2. CASE Emit(t) /\ To(t, AfterAppend(t).error)
      BY <3>2, EmitTable DEF Emit, To, FleetTypeOK
    <3>3. CASE ~Emit(t)
      BY <1>4, <3>3, WorkerMoves DEF To, FleetTypeOK
    <3> QED
      BY <3>1, <3>2, <3>3 DEF Emit
  <2> QED
    BY <1>1, <2>1, <2>3, <2>4, <2>5 DEF Completed
<1> QED
  BY <1>3, <1>4 DEF Next

-----------------------------------------------------------------------------
LEMMA FleetStep == FleetInv /\ [Next]_vars => FleetInv'
BY LedgerStep, BudgetStep, RecordedStep, TypeStep, PaidStep, BackedStep, CompletedStep DEF FleetInv

(* The inductive invariant of the whole run.                               *)
THEOREM FleetIsConsistent == Spec => []FleetInv
BY FleetInitHolds, FleetStep, PTL DEF Spec

(* fleet.py, observe.py against budget.py: the run is a use of the ledger  *)
(* as the ledger's own specification allows, a step of it or a stutter.    *)
THEOREM FleetUsesLedger == Spec => UsesLedger
<1>1. Init => BudgetInit
  BY DEF Init
<1> QED
  BY <1>1, LedgerStep, PTL DEF Spec, BudgetSpec, UsesLedger

(* BUDGET.md, of the fleet and its neighbours together: what they spend is *)
(* within the cap until a charge exceeded its estimate.                    *)
THEOREM FleetStaysWithinCap == Spec => []WithinCap
BY FleetUsesLedger, SpendingIsCapped, PTL DEF UsesLedger

(* BUDGET.md, of the fleet and its neighbours together: rows, receipts and *)
(* the freeze are for ever.                                                *)
THEOREM FleetRowsAreFinal == Spec => RowsAreFinal
BY FleetUsesLedger, LedgerIsFinal, PTL DEF UsesLedger

(* BUDGET.md, FLEET.md: no call without its committed reservation and its  *)
(* synced request_started line.                                            *)
THEOREM CallsAreCovered == Spec => []CallsCovered
<1>1. FleetInv => CallsCovered
  BY DEF FleetInv, Paid
<1> QED
  BY <1>1, FleetIsConsistent, PTL

(* FLEET.md: review_validated is backed by the stored answer and report.   *)
THEOREM ReviewsAreEvidenced == Spec => []ReviewEvidenced
<1>1. FleetInv => ReviewEvidenced
  BY DEF FleetInv, Backed
<1> QED
  BY <1>1, FleetIsConsistent, PTL

(* TELEMETRY.md: the file, the recorder's memory and the seal tell one     *)
(* story, whichever append, seal or process failed.                        *)
THEOREM RecordIsTruthful == Spec => []RecordTruthful
<1>1. FleetInv => RecordTruthful
  BY RecordInvImplies DEF FleetInv, Recorded
<1> QED
  BY <1>1, FleetIsConsistent, PTL

(* fleet.py: result.json only over a recording in which every task ended.  *)
THEOREM ResultsAreComplete == Spec => []ResultComplete
<1>1. FleetInv => ResultComplete
  <2> SUFFICES ASSUME FleetInv, main = "done"
               PROVE  /\ Verifies(FALSE) /\ Incomplete = {}
                      /\ Cardinality(UNION {Ending(k) : k \in Terminal}) = Last
    BY DEF ResultComplete
  <2>1. Verifies(FALSE) /\ next > Last
    BY DEF FleetInv, Completed
  <2>2. seal = SealOf(log) /\ seal.sealed
    <3>1. seal # NoSeal => seal = SealOf(log)
      BY <2>1 DEF Verifies
    <3>2. seal # NoSeal
      BY <2>1 DEF Verifies
    <3> QED
      BY <3>1, <3>2 DEF SealOf
  <2>3. log = chain
    BY <2>2 DEF FleetInv, Recorded, RecordInv, Sealed, LogHoldsChain
  <2>4. \A t \in Task : LastKind(log, t) \in Terminal
    <3> TAKE t \in Task
    <3>1. t < next
      BY <2>1, TaskFacts DEF FleetInv, FleetTypeOK
    <3>2. states[t] \in Terminal
      BY <3>1 DEF FleetInv, Completed
    <3> QED
      BY <2>3, <3>2 DEF FleetInv, Recorded, RecordInv, Remembers
  <2>5. Incomplete = {}
    BY <2>4 DEF Incomplete
  <2>6. UNION {Ending(k) : k \in Terminal} = Task
    BY <2>4 DEF Ending
  <2> QED
    BY <2>1, <2>5, <2>6 DEF Last
<1> QED
  BY <1>1, FleetIsConsistent, PTL

-----------------------------------------------------------------------------
(* The quote that the plan reserves for each task, PricingQuote, whatever  *)
(* the providers offer: rounding, sums and the largest of the lanes.       *)
QuoteSpec == QuoteInit /\ [][QuoteNext]_quoteVars

LEMMA DivFacts ==
  ASSUME NEW a \in Nat, NEW b \in Nat \ {0}
  PROVE  a \div b \in Nat /\ b * (a \div b) <= a /\ a < b * (a \div b) + b
OBVIOUS

LEMMA Times ==
  \A x, y, z \in Nat : /\ z * x \in Nat /\ z * (x + 1) = z * x + z
                       /\ x <= y => z * x <= z * y
OBVIOUS

LEMMA Rounded ==
  ASSUME NEW a \in Nat, NEW c \in Nat, a <= c, NEW b \in Nat \ {0}
  PROVE  CeilDiv(a, b) \in Nat /\ CeilDiv(c, b) \in Nat /\ CeilDiv(a, b) <= CeilDiv(c, b)
<1> DEFINE p == CeilDiv(a, b)
           q == CeilDiv(c, b)
<1>1. a + b - 1 \in Nat /\ c + b - 1 \in Nat
  OBVIOUS
<1>2. /\ p \in Nat /\ b * p <= a + b - 1
      /\ q \in Nat /\ c + b - 1 < b * q + b
  BY <1>1, DivFacts DEF CeilDiv
<1> HIDE DEF p, q
<1>3. ASSUME q < p PROVE FALSE
  <2>1. q + 1 \in Nat /\ q + 1 <= p /\ b \in Nat
    BY <1>2, <1>3
  <2>2. b * (q + 1) <= b * p /\ b * (q + 1) = b * q + b /\ b * q \in Nat /\ b * p \in Nat
    BY <1>2, <2>1, Times
  <2>3. QED
    BY <1>2, <2>2
<1>4. p <= q
  BY <1>2, <1>3
<1>5. QED
  BY <1>2, <1>4 DEF p, q

LEMMA Quarter == \A x \in Nat : CeilDiv(x * 5, 4) \in Nat /\ x <= CeilDiv(x * 5, 4)
BY DEF CeilDiv

(* A sum of amounts that are no larger is no larger. *)
LEMMA SumSmaller ==
  ASSUME NEW S, IsFiniteSet(S), NEW h \in [S -> Nat], NEW g \in [S -> Nat],
         NEW I \in [SUBSET S -> Nat], Adds(I, h, S),
         NEW J \in [SUBSET S -> Nat], Adds(J, g, S), \A a \in S : h[a] <= g[a]
  PROVE  I[S] <= J[S]
<1> DEFINE Upto(n) == \A s \in SUBSET S : Cardinality(s) <= n => I[s] <= J[s]
           T == {n \in Nat : Upto(n)}
<1>1. \A s \in SUBSET S : s = {} => I[s] <= J[s]
  <2>1. I[{}] = 0 /\ J[{}] = 0
    BY DEF Adds
  <2>2. QED
    BY <2>1
<1>2. ASSUME NEW s \in SUBSET S, Cardinality(s) <= 0 PROVE s = {}
  BY <1>2, FS_Subset, FS_CardinalityType, FS_EmptySet
<1>3. 0 \in T
  BY <1>1, <1>2
<1>4. ASSUME NEW n \in T PROVE n + 1 \in T
  <2>1. n \in Nat /\ n + 1 \in Nat /\ Upto(n)
    OBVIOUS
  <2>2. ASSUME NEW s \in SUBSET S, Cardinality(s) <= n + 1, s # {} PROVE I[s] <= J[s]
    <3> DEFINE q == s \ {Pick(s)}
    <3>1. Pick(s) \in S /\ q \in SUBSET S /\ Cardinality(q) <= n
      BY <2>1, <2>2, PickIn
    <3>2. I[q] <= J[q] /\ h[Pick(s)] <= g[Pick(s)]
      BY <2>1, <3>1
    <3>3. I[s] = h[Pick(s)] + I[q] /\ J[s] = g[Pick(s)] + J[q]
      BY <2>2 DEF Adds
    <3>4. I[q] \in Nat /\ J[q] \in Nat /\ h[Pick(s)] \in Nat /\ g[Pick(s)] \in Nat
      BY <3>1
    <3> HIDE DEF q
    <3>5. QED
      BY <3>2, <3>3, <3>4
  <2>3. Upto(n + 1)
    BY <1>1, <2>2
  <2> HIDE DEF Upto
  <2>4. QED
    BY <2>1, <2>3
<1>5. T \in SUBSET Nat
  OBVIOUS
<1> HIDE DEF T
<1>6. T = Nat
  BY <1>3, <1>4, <1>5, Induct
<1>7. Upto(Cardinality(S)) /\ Cardinality(S) \in Nat
  BY <1>6, FS_CardinalityType DEF T
<1>8. QED
  BY <1>7

LEMMA NoMembers ==
  ASSUME NEW S, IsFiniteSet(S), NEW s \in SUBSET S, Cardinality(s) <= 0
  PROVE  s = {}
BY FS_Subset, FS_CardinalityType, FS_EmptySet

LEMMA MaxIs ==
  ASSUME NEW S, IsFiniteSet(S), S # {}, S \subseteq Nat
  PROVE  Max(S) \in S /\ \A x \in S : x <= Max(S)
<1>1. ASSUME NEW s \in SUBSET S, Cardinality(s) <= 0 PROVE s = {}
  BY <1>1, NoMembers
<1> DEFINE Has(s) == \E x \in s : \A y \in s : x >= y
           Upto(n) == \A s \in SUBSET S : Cardinality(s) <= n /\ s # {} => Has(s)
           T == {n \in Nat : Upto(n)}
<1>2. 0 \in T
  BY <1>1
<1>3. ASSUME NEW n \in T PROVE n + 1 \in T
  <2>1. n \in Nat /\ n + 1 \in Nat /\ Upto(n)
    OBVIOUS
  <2>2. ASSUME NEW s \in SUBSET S, Cardinality(s) <= n + 1, s # {} PROVE Has(s)
    <3> DEFINE q == s \ {Pick(s)}
    <3>1. Pick(s) \in s /\ q \in SUBSET S /\ Cardinality(q) <= n /\ s \subseteq Nat
      <4>1. Pick(s) \in s /\ q \in SUBSET S /\ Cardinality(s) \in Nat
            /\ Cardinality(q) = Cardinality(s) - 1
        BY <2>2, PickIn
      <4> HIDE DEF q
      <4>2. QED
        BY <2>1, <2>2, <4>1
    <3>2. CASE q = {}
      <4>1. \A y \in s : y = Pick(s)
        BY <3>2
      <4>2. \A y \in s : Pick(s) >= y
        BY <3>1, <4>1
      <4>3. QED
        BY <3>1, <4>2
    <3>3. CASE q # {}
      <4>1. PICK x \in q : \A y \in q : x >= y
        BY <2>1, <3>1, <3>3
      <4>2. \A y \in s : y = Pick(s) \/ y \in q
        OBVIOUS
      <4>3. x \in s /\ x \in Nat /\ Pick(s) \in Nat
        BY <3>1
      <4> HIDE DEF q
      <4>4. CASE x >= Pick(s)
        BY <4>1, <4>2, <4>3, <4>4
      <4>5. CASE ~(x >= Pick(s))
        <5>1. \A y \in s : Pick(s) >= y
          BY <3>1, <4>1, <4>2, <4>3, <4>5
        <5>2. QED
          BY <3>1, <5>1
      <4>6. QED
        BY <4>4, <4>5
    <3>4. QED
      BY <3>2, <3>3
  <2>3. Upto(n + 1)
    BY <2>2
  <2> HIDE DEF Upto
  <2>4. QED
    BY <2>1, <2>3
<1>4. T \in SUBSET Nat
  OBVIOUS
<1> HIDE DEF T
<1>5. T = Nat
  BY <1>2, <1>3, <1>4, Induct
<1>6. Upto(Cardinality(S)) /\ Cardinality(S) \in Nat
  BY <1>5, FS_CardinalityType DEF T
<1>7. PICK x \in S : \A y \in S : x >= y
  BY <1>6
<1>8. Max(S) \in S /\ \A y \in S : Max(S) >= y
  BY <1>7 DEF Max
<1>9. QED
  BY <1>8

-----------------------------------------------------------------------------
(* The sums of the quote.                                                  *)
LEMMA DimensionFinite == IsFiniteSet(Dimension)
<1>1. \A S : IsFiniteSet(S) => IsFiniteSet(S \cup {"prompt"}) /\ IsFiniteSet(S \cup {"completion"})
      /\ IsFiniteSet(S \cup {"reasoning"}) /\ IsFiniteSet(S \cup {"cache_read"})
      /\ IsFiniteSet(S \cup {"cache_write"}) /\ IsFiniteSet(S \cup {"request"})
  BY FS_AddElement
<1>2. IsFiniteSet({} \cup {"prompt"} \cup {"completion"} \cup {"reasoning"})
  BY <1>1, FS_EmptySet
<1>3. IsFiniteSet({} \cup {"prompt"} \cup {"completion"} \cup {"reasoning"} \cup {"cache_read"}
                  \cup {"cache_write"} \cup {"request"})
  BY <1>1, <1>2
<1>4. Dimension = {} \cup {"prompt"} \cup {"completion"} \cup {"reasoning"} \cup {"cache_read"}
                  \cup {"cache_write"} \cup {"request"}
  BY DEF Dimension
<1>5. QED
  BY <1>3, <1>4

AtCapacity(o) == [d \in Dimension |-> o.price[d] * Capacity(o, d)]
AsUsed(o, u) == [d \in Dimension |-> o.price[d] * u[d]]
Used(o, u) == MapThenSumSet(LAMBDA d : o.price[d] * u[d], Dimension)

LEMMA OfferFacts ==
  ASSUME NEW o \in Offer, NEW d \in Dimension
  PROVE  o.price[d] \in Nat /\ Capacity(o, d) \in Nat
<1>1. o.price[d] \in Nat /\ o.context \in Nat /\ o.completion \in Nat
  BY QuoteAssumption
<1>2. QED
  BY <1>1 DEF Capacity, Dimension

LEMMA UsageFacts ==
  ASSUME NEW o \in Offer, NEW u \in Usage(o), NEW d \in Dimension
  PROVE  o.price[d] \in Nat /\ u[d] \in Nat /\ u[d] <= Capacity(o, d)
<1> DEFINE m == Max({o.context, o.completion, 1})
<1>1. u[d] <= Capacity(o, d) /\ u[d] \in 0 .. m
  BY DEF Usage
<1> HIDE DEF m
<1>2. QED
  BY <1>1, OfferFacts

LEMMA ScenarioSum ==
  ASSUME NEW o \in Offer
  PROVE  /\ AtCapacity(o) \in [Dimension -> Nat]
         /\ \E I \in [SUBSET Dimension -> Nat] :
              Adds(I, AtCapacity(o), Dimension) /\ Scenario(o) = I[Dimension]
<1> DEFINE pick(s) == CHOOSE x \in s : TRUE
           at(d) == o.price[d] * Capacity(o, d)
           F(C) == C = [s \in SUBSET Dimension |->
                          IF s = {} THEN 0 ELSE at(pick(s)) + C[s \ {pick(s)}]]
           Sum == CHOOSE C : F(C)
           h == AtCapacity(o)
<1>1. Scenario(o) = Sum[Dimension]
  BY DEF Scenario, MapThenSumSet, MapThenFoldSet
<1>2. ASSUME NEW d \in Dimension PROVE h[d] = at(d) /\ at(d) \in Nat
  <2>1. o.price[d] \in Nat /\ Capacity(o, d) \in Nat
    BY OfferFacts
  <2>2. QED
    BY <2>1, Times DEF AtCapacity
<1>3. h \in [Dimension -> Nat]
  BY <1>2 DEF AtCapacity
<1>4. ASSUME NEW s \in SUBSET Dimension, s # {} PROVE h[pick(s)] = at(pick(s))
  BY <1>2, <1>4
<1> HIDE DEF at, h
<1>5. PICK I \in [SUBSET Dimension -> Nat] : Adds(I, h, Dimension)
  BY <1>3, DimensionFinite, SumExists
<1>6. F(I)
  <2>1. \A s \in SUBSET Dimension :
          I[s] = IF s = {} THEN 0 ELSE at(pick(s)) + I[s \ {pick(s)}]
    BY <1>4, <1>5 DEF Adds, Pick
  <2>2. QED
    BY <2>1
<1>7. F(Sum)
  BY <1>6
<1> HIDE DEF Sum
<1>8. Adds(Sum, h, Dimension)
  <2>1. \A s \in SUBSET Dimension :
          Sum[s] = IF s = {} THEN 0 ELSE at(pick(s)) + Sum[s \ {pick(s)}]
    BY <1>7
  <2>2. QED
    BY <1>4, <2>1 DEF Adds, Pick
<1>9. Sum[Dimension] = I[Dimension]
  BY <1>5, <1>8, DimensionFinite, SumSame
<1>10. QED
  BY <1>1, <1>3, <1>5, <1>9 DEF h

LEMMA UsedSum ==
  ASSUME NEW o \in Offer, NEW u \in Usage(o)
  PROVE  /\ AsUsed(o, u) \in [Dimension -> Nat]
         /\ \E I \in [SUBSET Dimension -> Nat] :
              Adds(I, AsUsed(o, u), Dimension) /\ Used(o, u) = I[Dimension]
<1> DEFINE pick(s) == CHOOSE x \in s : TRUE
           at(d) == o.price[d] * u[d]
           F(C) == C = [s \in SUBSET Dimension |->
                          IF s = {} THEN 0 ELSE at(pick(s)) + C[s \ {pick(s)}]]
           Sum == CHOOSE C : F(C)
           h == AsUsed(o, u)
<1>1. Used(o, u) = Sum[Dimension]
  BY DEF Used, MapThenSumSet, MapThenFoldSet
<1>2. ASSUME NEW d \in Dimension PROVE h[d] = at(d) /\ at(d) \in Nat
  <2>1. o.price[d] \in Nat /\ u[d] \in Nat
    BY UsageFacts
  <2>2. QED
    BY <2>1, Times DEF AsUsed
<1>3. h \in [Dimension -> Nat]
  BY <1>2 DEF AsUsed
<1>4. ASSUME NEW s \in SUBSET Dimension, s # {} PROVE h[pick(s)] = at(pick(s))
  BY <1>2, <1>4
<1> HIDE DEF at, h
<1>5. PICK I \in [SUBSET Dimension -> Nat] : Adds(I, h, Dimension)
  BY <1>3, DimensionFinite, SumExists
<1>6. F(I)
  <2>1. \A s \in SUBSET Dimension :
          I[s] = IF s = {} THEN 0 ELSE at(pick(s)) + I[s \ {pick(s)}]
    BY <1>4, <1>5 DEF Adds, Pick
  <2>2. QED
    BY <2>1
<1>7. F(Sum)
  BY <1>6
<1> HIDE DEF Sum
<1>8. Adds(Sum, h, Dimension)
  <2>1. \A s \in SUBSET Dimension :
          Sum[s] = IF s = {} THEN 0 ELSE at(pick(s)) + Sum[s \ {pick(s)}]
    BY <1>7
  <2>2. QED
    BY <1>4, <2>1 DEF Adds, Pick
<1>9. Sum[Dimension] = I[Dimension]
  BY <1>5, <1>8, DimensionFinite, SumSame
<1>10. QED
  BY <1>1, <1>3, <1>5, <1>9 DEF h

-----------------------------------------------------------------------------
LEMMA CostCovered ==
  ASSUME NEW o \in Offer, NEW u \in Usage(o), NEW tokens \in 0 .. DecisionTokens
  PROVE  Cost(o, u, tokens) <= Reservation(o) /\ Cost(o, u, tokens) \in Nat
<1>1. PICK I \in [SUBSET Dimension -> Nat] :
        Adds(I, AtCapacity(o), Dimension) /\ Scenario(o) = I[Dimension]
  BY ScenarioSum
<1>2. PICK J \in [SUBSET Dimension -> Nat] :
        Adds(J, AsUsed(o, u), Dimension) /\ Used(o, u) = J[Dimension]
  BY UsedSum
<1>3. ASSUME NEW d \in Dimension PROVE AsUsed(o, u)[d] <= AtCapacity(o)[d]
  <2>1. /\ o.price[d] \in Nat /\ Capacity(o, d) \in Nat
        /\ u[d] \in Nat /\ u[d] <= Capacity(o, d)
    BY OfferFacts, UsageFacts
  <2>2. o.price[d] * u[d] <= o.price[d] * Capacity(o, d)
    BY <2>1, Times
  <2>3. QED
    BY <2>2 DEF AsUsed, AtCapacity
<1>4. /\ AsUsed(o, u) \in [Dimension -> Nat] /\ AtCapacity(o) \in [Dimension -> Nat]
      /\ IsFiniteSet(Dimension)
  BY ScenarioSum, UsedSum, DimensionFinite
<1>5. J[Dimension] <= I[Dimension]
  BY <1>1, <1>2, <1>3, <1>4, SumSmaller
<1>6. /\ Used(o, u) \in Nat /\ Scenario(o) \in Nat /\ Used(o, u) <= Scenario(o)
  BY <1>1, <1>2, <1>5
<1>7. /\ tokens * DecisionPrice \in Nat /\ Decision \in Nat
      /\ tokens * DecisionPrice <= Decision
  <2>1. /\ DecisionPrice \in Nat /\ tokens \in Nat /\ DecisionTokens \in Nat
        /\ tokens <= DecisionTokens
    BY QuoteAssumption
  <2>2. DecisionPrice * tokens <= DecisionPrice * DecisionTokens
        /\ DecisionPrice * tokens \in Nat /\ DecisionPrice * DecisionTokens \in Nat
    BY <2>1, Times
  <2>3. DecisionPrice * tokens = tokens * DecisionPrice
    BY <2>1
  <2>4. QED
    BY <2>2, <2>3 DEF Decision
<1> DEFINE paid == Used(o, u) + tokens * DecisionPrice
           most == Scenario(o) + Decision
<1>8. paid \in Nat /\ most \in Nat /\ paid <= most
  BY <1>6, <1>7
<1>9. Cost(o, u, tokens) = CeilDiv(paid, Grain)
  BY DEF Cost, UsdUnits, Used
<1>10. Reservation(o) = CeilDiv(CeilDiv(most * 5, 4), Grain)
  BY DEF Reservation, UsdUnits
<1> HIDE DEF paid, most
<1>11. CeilDiv(most * 5, 4) \in Nat /\ paid <= CeilDiv(most * 5, 4)
  <2>1. CeilDiv(most * 5, 4) \in Nat /\ most <= CeilDiv(most * 5, 4)
    BY <1>8, Quarter
  <2>2. QED
    BY <1>8, <2>1
<1>12. QED
  BY <1>8, <1>9, <1>10, <1>11, Rounded, QuoteAssumption

LEMMA ReservationNat == ASSUME NEW o \in Offer PROVE Reservation(o) \in Nat
<1>1. Scenario(o) \in Nat
  <2>1. PICK I \in [SUBSET Dimension -> Nat] : Scenario(o) = I[Dimension]
    BY ScenarioSum
  <2>2. QED
    BY <2>1
<1>2. Decision \in Nat
  BY QuoteAssumption, Times DEF Decision
<1> DEFINE most == Scenario(o) + Decision
<1>3. most \in Nat /\ Reservation(o) = CeilDiv(CeilDiv(most * 5, 4), Grain)
  BY <1>1, <1>2 DEF Reservation, UsdUnits
<1> HIDE DEF most
<1>4. CeilDiv(most * 5, 4) \in Nat
  BY <1>3, Quarter
<1>5. QED
  BY <1>3, <1>4, Rounded, QuoteAssumption

(* What a plan says of a task is no less than what each lane asks for.     *)
QuoteInv ==
  /\ QuoteTypeOK
  /\ quote \notin {NoQuote, NoOffer} =>
       \A lane \in Lane : Reservation(offers[lane]) <= quote.perTask

LEMMA MakePlanStep == QuoteInv /\ MakePlan => QuoteInv'
<1> SUFFICES ASSUME QuoteInv, MakePlan PROVE QuoteInv'
  OBVIOUS
<1> DEFINE R == {Reservation(offers[lane]) : lane \in Lane}
<1>1. offers' = offers /\ observed' = observed /\ hour' = hour
  BY DEF MakePlan
<1>2. offers \in [Lane -> Offer] /\ {observed, hour} \subseteq 0 .. MaxHour
  BY DEF QuoteInv, QuoteTypeOK
<1>3. CASE quote' = NoOffer
  BY <1>1, <1>2, <1>3 DEF QuoteInv, QuoteTypeOK
<1>4. CASE quote' = [perTask |-> Max(R), expires |-> observed + Fresh]
  <2>1. IsFiniteSet(R) /\ R # {}
    <3> DEFINE f == [lane \in Lane |-> Reservation(offers[lane])]
    <3>1. f \in Surjection(Lane, R)
      <4>1. f \in [Lane -> R] /\ \A x \in R : \E lane \in Lane : f[lane] = x
        OBVIOUS
      <4>2. QED
        BY <4>1 DEF Surjection
    <3>2. IsFiniteSet(Lane) /\ Lane # {}
      BY QuoteAssumption
    <3>3. R # {}
      BY <3>2
    <3> HIDE DEF R, f
    <3>4. QED
      BY <3>1, <3>2, <3>3, FS_Surjection
  <2>2. R \subseteq Nat
    BY <1>2, ReservationNat
  <2> HIDE DEF R
  <2>3. Max(R) \in Nat /\ \A x \in R : x <= Max(R)
    BY <2>1, <2>2, MaxIs
  <2>4. \A lane \in Lane : Reservation(offers[lane]) <= Max(R)
    BY <2>3 DEF R
  <2>5. observed + Fresh \in Nat
    <3>1. observed \in Nat /\ Fresh \in Nat
      BY <1>2, QuoteAssumption
    <3>2. QED
      BY <3>1
  <2>6. QuoteTypeOK'
    BY <1>1, <1>2, <1>4, <2>3, <2>5 DEF QuoteTypeOK
  <2>7. quote'.perTask = Max(R)
    BY <1>4
  <2>8. QED
    BY <1>1, <2>4, <2>6, <2>7 DEF QuoteInv
<1>5. QED
  BY <1>3, <1>4 DEF MakePlan

(* demo/PRICING.md, pricing_quote.py, budget.py: whatever the providers    *)
(* offer, a task that stays within the advertised capacities costs at most *)
(* what the plan reserves for it, rounded as the budget rounds it.         *)
THEOREM ReservationCovers == QuoteSpec => []QuoteCovers
<1>1. QuoteInit => QuoteInv
  <2> SUFFICES ASSUME QuoteInit PROVE QuoteInv
    OBVIOUS
  <2>1. 0 \in 0 .. MaxHour
    BY QuoteAssumption
  <2>2. QED
    BY <2>1 DEF QuoteInit, QuoteInv, QuoteTypeOK
<1>2. QuoteInv /\ [QuoteNext]_quoteVars => QuoteInv'
  <2> SUFFICES ASSUME QuoteInv, [QuoteNext]_quoteVars PROVE QuoteInv'
    OBVIOUS
  <2>1. CASE MakePlan
    BY <2>1, MakePlanStep
  <2>2. CASE Tick
    <3>1. hour + 1 \in 0 .. MaxHour
      BY <2>2, QuoteAssumption DEF Tick, QuoteInv, QuoteTypeOK
    <3>2. QED
      BY <2>2, <3>1 DEF Tick, QuoteInv, QuoteTypeOK
  <2>3. CASE UNCHANGED quoteVars
    BY <2>3 DEF quoteVars, QuoteInv, QuoteTypeOK
  <2>4. QED
    BY <2>1, <2>2, <2>3 DEF QuoteNext
<1>3. QuoteInv => QuoteCovers
  <2> SUFFICES ASSUME QuoteInv, quote \notin {NoQuote, NoOffer}, NEW lane \in Lane,
                      NEW u \in Usage(offers[lane]), NEW tokens \in 0 .. DecisionTokens
               PROVE  Cost(offers[lane], u, tokens) <= quote.perTask
    BY DEF QuoteInv, QuoteCovers
  <2> DEFINE o == offers[lane]
  <2>1. o \in Offer /\ quote.perTask \in Nat /\ Reservation(o) <= quote.perTask
    BY DEF QuoteInv, QuoteTypeOK
  <2>2. u \in Usage(o)
    OBVIOUS
  <2> HIDE DEF o
  <2>3. Cost(o, u, tokens) <= Reservation(o) /\ Cost(o, u, tokens) \in Nat
    BY <2>1, <2>2, CostCovered
  <2>4. Reservation(o) \in Nat
    BY <2>1, ReservationNat
  <2>5. Cost(o, u, tokens) <= quote.perTask
    BY <2>1, <2>3, <2>4
  <2>6. QED
    BY <2>5 DEF o
<1>4. QED
  BY <1>1, <1>2, <1>3, PTL DEF QuoteSpec

-----------------------------------------------------------------------------
(* The trace that the observer judges before it records a response.        *)
TraceSpec == TraceInit /\ [][TraceNext]_traceVars

Stamp == {Unset} \cup 0 .. MaxTime
GateDecision == {Gate(a) : a \in {x \in Answer : ~ Refused(x)}}
Steps == {"sent", "decided", "handlerSent", "handled"}

(* A boundary follows the one before it, in the trace as in time. *)
Follows(later, earlier) ==
  trace[later] = Unset \/ (trace[earlier] # Unset /\ trace[earlier] <= trace[later])

(* Which boundaries a request has passed, by the last of them. *)
Passed ==
  /\ stage = "begun" => trace.sent = Unset
  /\ stage = "sent" => trace.sent # Unset /\ trace.decided = Unset
  /\ stage = "decided" => trace.decided # Unset /\ trace.handlerSent = Unset
  /\ stage = "handlerSent" => trace.handlerSent # Unset /\ trace.handled = Unset

TraceShape ==
  /\ stage \in Steps \cup {"begun", "finished"}
  /\ clock \in 0 .. MaxTime
  /\ trace \in [sent : Stamp, decided : Stamp, handlerSent : Stamp, handled : Stamp,
                finished : Stamp, decision : {Nothing} \cup GateDecision]
  /\ \A b \in Steps \cup {"finished"} : trace[b] <= clock

TraceInv ==
  /\ TraceShape
  /\ Passed
  /\ Follows("decided", "sent")
  /\ Follows("handlerSent", "decided")
  /\ Follows("handled", "handlerSent")
  /\ trace.decision = Nothing <=> trace.decided = Unset
  /\ trace.handlerSent # Unset => trace.decision.route # Fallback
  /\ stage = "finished" => trace.finished = clock

LEMMA Boundaries ==
  /\ Range(Boundary) = Steps
  /\ Boundary[1] = "sent" /\ Boundary[2] = "decided"
  /\ Boundary[3] = "handlerSent" /\ Boundary[4] = "handled"
<1>1. Boundary[1] = "sent" /\ Boundary[2] = "decided" /\ Boundary[3] = "handlerSent"
      /\ Boundary[4] = "handled" /\ DOMAIN Boundary = 1 .. 4
  BY DEF Boundary
<1>2. Range(Boundary) = {Boundary[i] : i \in 1 .. 4}
  BY <1>1 DEF Range
<1>3. 1 .. 4 = {1, 2, 3, 4}
  OBVIOUS
<1>4. {Boundary[i] : i \in {1, 2, 3, 4}} = {Boundary[1], Boundary[2], Boundary[3], Boundary[4]}
  OBVIOUS
<1>5. Range(Boundary) = {"sent", "decided", "handlerSent", "handled"}
  BY <1>1, <1>2, <1>3, <1>4
<1>6. QED
  BY <1>1, <1>5 DEF Steps

(* The sum of the probabilities is a number, so the two comparisons of it  *)
(* with the slack are each other's negation.                               *)
LEMMA TotalNat ==
  ASSUME NEW p \in [Route -> Score]
  PROVE  Total(p) \in Nat
<1> DEFINE pick(s) == CHOOSE x \in s : TRUE
           F(C) == C = [s \in SUBSET Route |->
                          IF s = {} THEN 0 ELSE p[pick(s)] + C[s \ {pick(s)}]]
           Sum == CHOOSE C : F(C)
<1>1. Total(p) = Sum[Route]
  BY DEF Total, MapThenSumSet, MapThenFoldSet
<1>2. p \in [Route -> Nat]
  BY TraceAssumption DEF Score
<1>3. IsFiniteSet(Route)
  BY TraceAssumption
<1>4. PICK I \in [SUBSET Route -> Nat] : Adds(I, p, Route)
  BY <1>2, <1>3, SumExists
<1>5. F(I)
  <2>1. \A s \in SUBSET Route :
          I[s] = IF s = {} THEN 0 ELSE p[pick(s)] + I[s \ {pick(s)}]
    BY <1>4 DEF Adds, Pick
  <2>2. QED
    BY <2>1
<1>6. F(Sum)
  BY <1>5
<1> HIDE DEF Sum
<1>7. Adds(Sum, p, Route)
  <2>1. \A s \in SUBSET Route :
          Sum[s] = IF s = {} THEN 0 ELSE p[pick(s)] + Sum[s \ {pick(s)}]
    BY <1>6
  <2>2. QED
    BY <2>1 DEF Adds, Pick
<1>8. Sum[Route] = I[Route]
  BY <1>2, <1>3, <1>4, <1>7, SumSame
<1>9. I[Route] \in Nat
  BY <1>4
<1>10. QED
  BY <1>1, <1>8, <1>9

(* The first threshold that is missed, looked for in the order of the list *)
(* of gate, is the one that the observer's chain of conditions finds.      *)
ObserverReason(a) ==
  LET chosen == a.probabilities[a.choice]
  IN  IF a.choice = Fallback THEN "model_fallback"
      ELSE IF a.supported < MinSupported THEN "unsupported"
      ELSE IF a.confidence < MinConfidence \/ chosen < MinProbability THEN "uncertain"
      ELSE IF \E r \in Route \ {a.choice} : Apart(a.probabilities[r], chosen) < Close
           THEN "tie" ELSE "accepted"

LEMMA SameReason ==
  ASSUME NEW a \in Answer
  PROVE  Reason(a) = ObserverReason(a)
<1> DEFINE chosen == a.probabilities[a.choice]
           A == a.choice = Fallback
           B == a.supported < MinSupported
           C == a.confidence < MinConfidence \/ chosen < MinProbability
           D == \E r \in Route \ {a.choice} : Apart(a.probabilities[r], chosen) < Close
           missed == <<A, B, C, D>>
           names == <<"model_fallback", "unsupported", "uncertain", "tie">>
           first == {i \in 1 .. 4 : missed[i]}
<1>1. Reason(a) = IF first = {} THEN "accepted" ELSE names[Min(first)]
  BY DEF Reason
<1>2. Min(first) = CHOOSE x \in first : \A y \in first : x <= y
  BY DEF Min
<1>3. /\ 1 \in first <=> A
      /\ 2 \in first <=> B
      /\ 3 \in first <=> C
      /\ 4 \in first <=> D
      /\ first \subseteq 1 .. 4
  <2> HIDE DEF A, B, C, D
  <2>1. missed[1] = A /\ missed[2] = B /\ missed[3] = C /\ missed[4] = D
    OBVIOUS
  <2> HIDE DEF missed
  <2>2. QED
    BY <2>1
<1>4. ASSUME NEW n \in first, \A y \in first : n <= y
      PROVE  Min(first) = n
  <2>1. Min(first) \in first /\ \A y \in first : Min(first) <= y
    BY <1>2, <1>4
  <2>2. n \in Int /\ Min(first) \in Int
    <3> HIDE DEF first
    <3>1. QED
      BY <1>3, <1>4, <2>1
  <2>3. n <= Min(first) /\ Min(first) <= n
    BY <1>4, <2>1
  <2>4. QED
    BY <2>2, <2>3
<1>5. names[1] = "model_fallback" /\ names[2] = "unsupported" /\ names[3] = "uncertain"
      /\ names[4] = "tie"
  OBVIOUS
<1>12. ObserverReason(a) =
         IF A THEN "model_fallback" ELSE IF B THEN "unsupported" ELSE IF C THEN "uncertain"
         ELSE IF D THEN "tie" ELSE "accepted"
  BY DEF ObserverReason
<1> HIDE DEF A, B, C, D, first, names
<1>6. CASE A
  <2>1. 1 \in first /\ \A y \in first : 1 <= y
    BY <1>3, <1>6
  <2>2. QED
    BY <1>1, <1>4, <1>5, <1>6, <1>12, <2>1
<1>7. CASE ~ A /\ B
  <2>1. 2 \in first /\ \A y \in first : 2 <= y
    BY <1>3, <1>7
  <2>2. QED
    BY <1>1, <1>4, <1>5, <1>7, <1>12, <2>1
<1>8. CASE ~ A /\ ~ B /\ C
  <2>1. 3 \in first /\ \A y \in first : 3 <= y
    BY <1>3, <1>8
  <2>2. QED
    BY <1>1, <1>4, <1>5, <1>8, <1>12, <2>1
<1>9. CASE ~ A /\ ~ B /\ ~ C /\ D
  <2>1. 4 \in first /\ \A y \in first : 4 <= y
    BY <1>3, <1>9
  <2>2. QED
    BY <1>1, <1>4, <1>5, <1>9, <1>12, <2>1
<1>10. CASE ~ A /\ ~ B /\ ~ C /\ ~ D
  <2>1. first = {}
    BY <1>3, <1>10
  <2>2. QED
    BY <1>1, <1>10, <1>12, <2>1
<1>11. QED
  BY <1>6, <1>7, <1>8, <1>9, <1>10

LEMMA GateExplained ==
  ASSUME NEW d \in GateDecision
  PROVE  Explained(d)
<1>1. PICK a \in Answer : ~ Refused(a) /\ d = Gate(a)
  BY DEF GateDecision
<1>2. /\ d.answer = a /\ d.reason = ObserverReason(a)
      /\ d.route = IF ObserverReason(a) = "accepted" THEN a.choice ELSE Fallback
  BY <1>1, SameReason DEF Gate
<1> DEFINE p == a.probabilities
<1>3. p \in [Route -> Score] /\ a.choice \in Route
  BY <1>1 DEF Answer, Refused
<1>4. Apart(Total(p), Scale) <= Slack
  <2>1. Total(p) \in Nat
    BY <1>3, TotalNat
  <2>2. ~ (Apart(Total(p), Scale) > Slack)
    BY <1>1 DEF Refused
  <2>3. QED
    BY <2>1, <2>2, TraceAssumption DEF Apart
<1>5. ASSUME NEW r \in Route PROVE p[r] <= p[a.choice] + Close
  <2>1. ~ (p[r] > p[a.choice] + Close)
    BY <1>1 DEF Refused
  <2>2. p[r] \in Int /\ p[a.choice] \in Int /\ Close \in Int
    BY <1>3, TraceAssumption DEF Score
  <2>3. QED
    BY <2>1, <2>2
<1>6. QED
  BY <1>2, <1>3, <1>4, <1>5 DEF Explained, ObserverReason

LEMMA DecisionFacts == Nothing \notin GateDecision
<1>1. ASSUME NEW a \in Answer PROVE Gate(a) # Nothing
  <2>1. Reason(a) # "none"
    BY SameReason DEF ObserverReason
  <2>2. Gate(a).reason = Reason(a) /\ Nothing.reason = "none"
    BY DEF Gate, Nothing
  <2>3. QED
    BY <2>1, <2>2
<1>2. QED
  BY <1>1 DEF GateDecision

LEMMA TraceStep == TraceInv /\ [TraceNext]_traceVars => TraceInv'
<1> SUFFICES ASSUME TraceInv, [TraceNext]_traceVars PROVE TraceInv'
  OBVIOUS
<1>1. MaxTime \in Nat
  BY TraceAssumption
<1>2. TraceShape
  BY DEF TraceInv
<1>3. CASE SendDecision
  BY <1>1, <1>2, <1>3, DecisionFacts DEF SendDecision, Mark, TraceInv, TraceShape, Stamp, Unset, Steps,
         Passed, Follows
<1>4. CASE NoteDecision
  <2>1. PICK a \in Answer :
          ~ Refused(a) /\ trace' = [trace EXCEPT !.decided = clock', !.decision = Gate(a)]
    BY <1>4, Zenon DEF NoteDecision
  <2>2. Gate(a) \in GateDecision
    BY <2>1 DEF GateDecision
  <2>3. Mark("sent", "decided")
    BY <1>4 DEF NoteDecision
  <2>4. Gate(a) # Nothing
    BY <2>2, DecisionFacts
  <2> HIDE DEF GateDecision
  <2>5. TraceShape'
    <3>1. clock' \in 0 .. MaxTime /\ clock <= clock' /\ clock' \in Stamp /\ clock \in Int
      BY <1>1, <1>2, <2>3 DEF Mark, TraceShape, Stamp
    <3>2. trace' \in [sent : Stamp, decided : Stamp, handlerSent : Stamp, handled : Stamp,
                      finished : Stamp, decision : {Nothing} \cup GateDecision]
      <4> HIDE DEF Stamp, Nothing
      <4>1. QED
        BY <1>2, <2>1, <2>2, <3>1 DEF TraceShape
    <3>3. ASSUME NEW b \in Steps \cup {"finished"} PROVE trace'[b] <= clock'
      <4>1. trace[b] <= clock /\ trace[b] \in Int
        BY <1>1, <1>2 DEF TraceShape, Steps, Stamp, Unset
      <4>2. trace'[b] = IF b = "decided" THEN clock' ELSE trace[b]
        BY <1>2, <2>1 DEF TraceShape, Steps
      <4>3. QED
        BY <3>1, <4>1, <4>2
    <3>4. stage' \in Steps
      BY <2>3 DEF Mark, Steps
    <3>5. QED
      BY <3>1, <3>2, <3>3, <3>4 DEF TraceShape
  <2>6. QED
    BY <1>1, <1>2, <2>1, <2>3, <2>4, <2>5 DEF Mark, TraceInv, TraceShape, Stamp, Unset, Steps,
         Passed, Follows
<1>5. CASE SendHandler
  BY <1>1, <1>2, <1>5 DEF SendHandler, Mark, TraceInv, TraceShape, Stamp, Unset, Steps,
         Passed, Follows
<1>6. CASE HandlerAnswered
  BY <1>1, <1>2, <1>6 DEF HandlerAnswered, Mark, TraceInv, TraceShape, Stamp, Unset, Steps,
         Passed, Follows
<1>7. CASE Finish
  BY <1>1, <1>2, <1>7 DEF Finish, Mark, TraceInv, TraceShape, Stamp, Unset, Steps,
         Passed, Follows
<1>8. CASE UNCHANGED traceVars
  BY <1>2, <1>8 DEF traceVars, TraceInv, TraceShape, Stamp, Unset, Steps, Passed, Follows
<1>9. QED
  BY <1>3, <1>4, <1>5, <1>6, <1>7, <1>8 DEF TraceNext

LEMMA FinishedInOrder ==
  ASSUME TraceInv, stage = "finished"
  PROVE  InOrder(trace)
<1> DEFINE Fits(n) ==
             /\ \A i \in 1 .. 4 : IF i > n THEN trace[Boundary[i]] = Unset
                                 ELSE trace[Boundary[i]] \in 0 .. trace.finished
             /\ \A i \in 2 .. n : trace[Boundary[i - 1]] <= trace[Boundary[i]]
<1>1. ASSUME NEW b \in Steps, trace[b] # Unset PROVE trace[b] \in 0 .. trace.finished
  <2>1. trace[b] \in 0 .. MaxTime /\ trace[b] <= clock /\ clock = trace.finished /\ clock \in Nat
    BY <1>1 DEF TraceInv, TraceShape, Stamp, Steps
  <2>2. QED
    BY <2>1
<1>2. /\ trace.decided = Unset \/ (trace.sent # Unset /\ trace.sent <= trace.decided)
      /\ trace.handlerSent = Unset
           \/ (trace.decided # Unset /\ trace.decided <= trace.handlerSent)
      /\ trace.handled = Unset
           \/ (trace.handlerSent # Unset /\ trace.handlerSent <= trace.handled)
  BY DEF TraceInv, Follows
<1>3. /\ trace.sent # Unset => trace.sent \in 0 .. trace.finished
      /\ trace.decided # Unset => trace.decided \in 0 .. trace.finished
      /\ trace.handlerSent # Unset => trace.handlerSent \in 0 .. trace.finished
      /\ trace.handled # Unset => trace.handled \in 0 .. trace.finished
  BY <1>1 DEF Steps
<1>4. \/ trace.sent = Unset /\ trace.decided = Unset /\ trace.handlerSent = Unset
         /\ trace.handled = Unset
      \/ trace.sent # Unset /\ trace.decided = Unset /\ trace.handlerSent = Unset
         /\ trace.handled = Unset
      \/ trace.sent # Unset /\ trace.decided # Unset /\ trace.handlerSent = Unset
         /\ trace.handled = Unset
      \/ trace.sent # Unset /\ trace.decided # Unset /\ trace.handlerSent # Unset
         /\ trace.handled = Unset
      \/ trace.sent # Unset /\ trace.decided # Unset /\ trace.handlerSent # Unset
         /\ trace.handled # Unset
  BY <1>2
<1>5. \E n \in 0 .. 4 : Fits(n)
  <2> DEFINE n == IF trace.sent = Unset THEN 0 ELSE IF trace.decided = Unset THEN 1
                 ELSE IF trace.handlerSent = Unset THEN 2
                 ELSE IF trace.handled = Unset THEN 3 ELSE 4
  <2>1. n \in 0 .. 4
    OBVIOUS
  <2>2. ASSUME NEW i \in 1 .. 4
        PROVE  IF i > n THEN trace[Boundary[i]] = Unset
               ELSE trace[Boundary[i]] \in 0 .. trace.finished
    <3>1. i = 1 \/ i = 2 \/ i = 3 \/ i = 4
      OBVIOUS
    <3>2. QED
      BY <1>3, <1>4, <3>1, Boundaries
  <2>3. ASSUME NEW i \in 2 .. n PROVE trace[Boundary[i - 1]] <= trace[Boundary[i]]
    <3>1. i = 2 \/ i = 3 \/ i = 4
      BY <2>1
    <3>2. i <= n
      OBVIOUS
    <3>3. QED
      BY <1>2, <1>4, <3>1, <3>2, Boundaries
  <2>4. QED
    BY <2>1, <2>2, <2>3
<1>6. QED
  BY <1>5 DEF InOrder

(* src/demo/FLEET.md, src/demo/routing_trace.py: for any catalog, scale,   *)
(* thresholds and time, however a request ends, what the gateway says of   *)
(* it is accepted by the observer.                                         *)
THEOREM TracesAreAccepted == TraceSpec => []TraceAccepted
<1>1. TraceInit => TraceInv
  BY TraceAssumption
     DEF TraceInit, TraceInv, TraceShape, Stamp, Steps, Unset, Passed, Follows
<1>2. TraceInv => TraceAccepted
  <2> SUFFICES ASSUME TraceInv PROVE TraceAccepted
    OBVIOUS
  <2>1. TraceTypeOK
    BY TraceAssumption, Boundaries DEF TraceTypeOK, TraceInv, TraceShape, Stamp, Steps, Unset
  <2>2. ASSUME stage = "finished" PROVE ValidTrace(trace)
    <3>1. InOrder(trace)
      BY <2>2, FinishedInOrder
    <3>2. ASSUME trace.decision # Nothing
          PROVE  /\ Explained(trace.decision)
                 /\ trace.decision.route = Fallback => trace.handlerSent = Unset
      <4>1. trace.decision \in GateDecision
        BY <3>2 DEF TraceInv, TraceShape
      <4>2. QED
        BY <4>1, GateExplained DEF TraceInv
    <3>3. (trace.decision = Nothing) = (trace.decided = Unset)
      BY DEF TraceInv
    <3>4. QED
      BY <3>1, <3>2, <3>3 DEF ValidTrace
  <2>3. QED
    BY <2>1, <2>2 DEF TraceAccepted
<1>3. QED
  BY <1>1, <1>2, TraceStep, PTL DEF TraceSpec
=============================================================================
