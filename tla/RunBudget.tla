------------------------------ MODULE RunBudget ------------------------------
(***************************************************************************)
(* src/demo/budget.py: the spending ledger that the processes of a review  *)
(* run share, a SQLite file.  Each method is one BEGIN IMMEDIATE ...       *)
(* COMMIT transaction under synchronous=FULL: it begins when no other one  *)
(* is open, commits durably, and changes nothing when it raises or its     *)
(* process dies.  That much of SQLite is believed.  A reservation first    *)
(* reads, and inserts in a later step by what it read; a settlement is one *)
(* step.  Amounts are integer nanodollars, already rounded up by usd_units *)
(* (PricingQuote).                                                         *)
(***************************************************************************)
EXTENDS Integers, FiniteSets, FiniteSetsExt

CONSTANTS
  Attempt,      \* attempt_id values: one per task and run, none is ever reused
  Amount,       \* nanodollars a caller may estimate or report
  Receipt,      \* receipt_sha256 values
  Cap,          \* policy.cap
  MaxAttempts,  \* policy.max_attempts
  None          \* SQL NULL

ASSUME AmountAssumption == Amount \subseteq Nat
ASSUME PolicyAssumption == Cap \in Nat \ {0} /\ MaxAttempts \in Nat \ {0}
ASSUME NullAssumption == None \notin Amount /\ None \notin Receipt
ASSUME AttemptAssumption == IsFiniteSet(Attempt)

VARIABLES
  ledger,    \* the directory: "absent", "partial" (create did not finish), "ready"
  frozen,    \* policy.frozen
  reserved,  \* attempts.reserved, 0 where there is no row
  charged,   \* attempts.charged
  receipt,   \* attempts.receipt_sha256
  view       \* view[a]: what the open transaction of reserve(a) has read, or nothing

tableVars == <<ledger, frozen, reserved, charged, receipt>>
budgetVars == <<tableVars, view>>

Rows == {a \in Attempt : reserved[a] > 0}

Totals == [row : BOOLEAN, frozen : BOOLEAN, count : Nat, committed : Nat]

BudgetTypeOK ==
  /\ ledger \in {"absent", "partial", "ready"}
  /\ frozen \in BOOLEAN
  /\ reserved \in [Attempt -> Amount \cup {0}]
  /\ charged \in [Attempt -> Amount \cup {None}]
  /\ receipt \in [Attempt -> Receipt \cup {None}]
  /\ view \in [Attempt -> SUBSET Totals]

BudgetInit ==
  /\ ledger = "absent"
  /\ frozen = FALSE
  /\ reserved = [a \in Attempt |-> 0]
  /\ charged = [a \in Attempt |-> None]
  /\ receipt = [a \in Attempt |-> None]
  /\ view = [a \in Attempt |-> {}]

-----------------------------------------------------------------------------
(* create: mkdir refuses any existing directory.  A process that dies      *)
(* before the policy row is committed and synced leaves something that     *)
(* neither create nor __init__ ever accepts again.                         *)
BeginCreate ==
  /\ ledger = "absent"
  /\ ledger' = "partial"
  /\ UNCHANGED <<frozen, reserved, charged, receipt, view>>

FinishCreate ==
  /\ ledger = "partial"
  /\ ledger' = "ready"
  /\ UNCHANGED <<frozen, reserved, charged, receipt, view>>

(* _totals: what an attempt counts against the cap, and all of them. *)
Held(a) == IF charged[a] = None THEN reserved[a] ELSE charged[a]

Committed == MapThenSumSet(Held, Rows)

(* _transaction: BEGIN IMMEDIATE waits for any other writer, five seconds  *)
(* at most.  The connections commit by themselves (isolation_level=None):  *)
(* without it every statement would be a transaction of its own.           *)
BugNoWriter == TRUE

NoWriter == \A a \in Attempt : view[a] = {}

(* reserve: policy, row and totals are read, *)
TotalsFor(a) == [row |-> a \in Rows, frozen |-> frozen,
                 count |-> Cardinality(Rows), committed |-> Committed]

BeginReserve(a) ==
  /\ ledger = "ready"
  /\ NoWriter
  /\ view' = [view EXCEPT ![a] = {TotalsFor(a)}]
  /\ UNCHANGED tableVars

(* and decide.  A row that exists never gives permission again, whatever   *)
(* its request hash.                                                       *)
Admits(a, estimate) ==
  /\ estimate > 0
  /\ \E seen \in view[a] :
       /\ ~ seen.row /\ ~ seen.frozen
       /\ seen.count < MaxAttempts
       /\ seen.committed + estimate <= Cap

Reserve(a, estimate) ==
  /\ Admits(a, estimate)
  /\ reserved' = [reserved EXCEPT ![a] = estimate]
  /\ view' = [view EXCEPT ![a] = {}]
  /\ UNCHANGED <<ledger, frozen, charged, receipt>>

(* Reservations that raise, or whose processes die. *)
RollBack(gone) ==
  /\ view' = [a \in Attempt |-> IF a \in gone THEN {} ELSE view[a]]
  /\ UNCHANGED tableVars

(* settle: the first receipt is final.  The same receipt and charge again  *)
(* is accepted without a change, any other is refused.  A charge over its  *)
(* estimate is stored as it is and freezes the ledger for ever.            *)
BugSettleAgain(a, r, actual) ==
  /\ ledger = "ready" /\ NoWriter
  /\ a \in Rows
  /\ charged' = [charged EXCEPT ![a] = actual]
  /\ receipt' = [receipt EXCEPT ![a] = r]
  /\ frozen' = (frozen \/ actual > reserved[a])
  /\ UNCHANGED <<ledger, reserved, view>>

Settle(a, r, actual) ==
  /\ ledger = "ready" /\ NoWriter
  /\ a \in Rows
  /\ receipt[a] = None
  /\ charged' = [charged EXCEPT ![a] = actual]
  /\ receipt' = [receipt EXCEPT ![a] = r]
  /\ frozen' = (frozen \/ actual > reserved[a])
  /\ UNCHANGED <<ledger, reserved, view>>

BudgetNext ==
  \/ BeginCreate
  \/ FinishCreate
  \/ \E a \in Attempt : BeginReserve(a)
  \/ \E a \in Attempt, e \in Amount : Reserve(a, e)
  \/ \E gone \in SUBSET Attempt : RollBack(gone)
  \/ \E a \in Attempt, r \in Receipt, v \in Amount : Settle(a, r, v)

BudgetSpec == BudgetInit /\ [][BudgetNext]_budgetVars

-----------------------------------------------------------------------------
(* budget.py, settle: the ledger is frozen exactly when some stored charge *)
(* is over the estimate it was reserved with: neither forgotten when other *)
(* receipts follow, nor set by a charge that fits.                         *)
FrozenExact ==
  frozen <=> \E a \in Attempt : charged[a] # None /\ charged[a] > reserved[a]

(* BUDGET.md: the cap holds for estimates and reported charges together    *)
(* for as long as no charge exceeded its estimate, which is as long as the *)
(* ledger is not frozen.                                                   *)
WithinCap ==
  /\ frozen \/ Committed <= Cap
  /\ Cardinality(Rows) <= MaxAttempts
  /\ FrozenExact

(* BUDGET.md: rows and receipts are for ever, the freeze too, and a frozen *)
(* ledger admits nothing, whoever calls in whatever order.                 *)
RowsAreFinal ==
  [][/\ \A a \in Rows : reserved'[a] = reserved[a]
     /\ \A a \in Attempt :
          receipt[a] # None => receipt'[a] = receipt[a] /\ charged'[a] = charged[a]
     /\ frozen => frozen' /\ reserved' = reserved]_budgetVars
==============================================================================
