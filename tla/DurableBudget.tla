---------------------------- MODULE DurableBudget ----------------------------
(***************************************************************************)
(* src/src/durable_budget.rs: the lifetime call budget, one byte of a file *)
(* per reservation, owned by one process at a time through a file lock.    *)
(*                                                                         *)
(* The file is modelled by two counts: the bytes the kernel holds          *)
(* (written) and the bytes a sync made durable (synced).  A process that   *)
(* dies leaves the kernel's bytes; a power loss keeps any number between   *)
(* the two.  A reservation is three steps under the mutex of its process   *)
(* (write, sync, count); the refusals are one step.                        *)
(***************************************************************************)
EXTENDS Integers, FiniteSets

CONSTANTS
  Process,  \* processes that may open the budget: a gateway, its successor, a tool
  Worker,   \* the blocking-pool threads of each process that may call reserve
  Limit,    \* the configured limit, written into the header
  None      \* nobody

ASSUME LimitAssumption == Limit \in Nat \ {0}
ASSUME NobodyAssumption == None \notin Process /\ None \notin Worker

VARIABLES
  header,    \* "absent", "partial" (an initialization that did not finish), "ready"
  written,   \* reservation bytes in the file, as a reader of the file sees them
  synced,    \* reservation bytes that survive a power loss
  lock,      \* the process that holds the file lock, or None
  up,        \* up[p]: p has an open instance
  used,      \* used[p]: DurableBudget.used of the instance in p
  disabled,  \* disabled[p]: BudgetFile.disabled (and not healthy) in p
  mutex,     \* mutex[p]: the worker inside reserve_with in p, or None
  pc,        \* pc[p][w]: where that worker is: "idle", "write", "sync", "count"
  granted    \* history: reserve() calls that ever returned Ok(true), by anyone

vars == <<header, written, synced, lock, up, used, disabled, mutex, pc, granted>>

File == <<header, written, synced>>
Idle == [w \in Worker |-> "idle"]

Init ==
  /\ header = "absent"
  /\ written = 0
  /\ synced = 0
  /\ lock = None
  /\ up = [p \in Process |-> FALSE]
  /\ used = [p \in Process |-> 0]
  /\ disabled = [p \in Process |-> FALSE]
  /\ mutex = [p \in Process |-> None]
  /\ pc = [p \in Process |-> Idle]
  /\ granted = 0

-----------------------------------------------------------------------------
(* initialize: create_new refuses any existing file.  Magic, limit, sync   *)
(* and directory sync follow; if any fails, or the process dies, what is   *)
(* there is not a budget, and nothing ever replaces it.                    *)
BeginInitialize ==
  /\ header = "absent"
  /\ header' = "partial"
  /\ UNCHANGED <<written, synced, lock, up, used, disabled, mutex, pc, granted>>

FinishInitialize ==
  /\ header = "partial"
  /\ header' = "ready"
  /\ UNCHANGED <<written, synced, lock, up, used, disabled, mutex, pc, granted>>

BugOpenUnlocked(p) ==
  /\ ~up[p]
  /\ header = "ready"
  /\ written <= Limit
  /\ lock' = p
  /\ up' = [up EXCEPT ![p] = TRUE]
  /\ used' = [used EXCEPT ![p] = written]
  /\ disabled' = [disabled EXCEPT ![p] = FALSE]
  /\ UNCHANGED <<File, mutex, pc, granted>>

(* open: refused while another process holds the lock, and for a file that *)
(* is not a whole budget or has more reservations than its limit.          *)
Open(p) ==
  /\ lock = None
  /\ header = "ready"
  /\ written <= Limit
  /\ lock' = p
  /\ up' = [up EXCEPT ![p] = TRUE]
  /\ used' = [used EXCEPT ![p] = written]
  /\ disabled' = [disabled EXCEPT ![p] = FALSE]
  /\ UNCHANGED <<File, mutex, pc, granted>>

(* reserve_with, up to the call of persist. *)
BeginReserve(p, w) ==
  /\ up[p]
  /\ mutex[p] = None
  /\ ~disabled[p]
  /\ used[p] < Limit
  /\ mutex' = [mutex EXCEPT ![p] = w]
  /\ pc' = [pc EXCEPT ![p][w] = "write"]
  /\ UNCHANGED <<File, lock, up, used, disabled, granted>>

BugWriteUnsynced(p, w) ==
  /\ up[p]
  /\ pc[p][w] = "write"
  /\ written' = written + 1
  /\ pc' = [pc EXCEPT ![p][w] = "count"]
  /\ UNCHANGED <<header, synced, lock, up, used, disabled, mutex, granted>>

(* persist: the byte reaches the file, then the file is synced. *)
Write(p, w) ==
  /\ up[p]
  /\ pc[p][w] = "write"
  /\ written' = written + 1
  /\ pc' = [pc EXCEPT ![p][w] = "sync"]
  /\ UNCHANGED <<header, synced, lock, up, used, disabled, mutex, granted>>

Sync(p, w) ==
  /\ up[p]
  /\ pc[p][w] = "sync"
  /\ synced' = written
  /\ pc' = [pc EXCEPT ![p][w] = "count"]
  /\ UNCHANGED <<header, written, lock, up, used, disabled, mutex, granted>>

(* persist fails before or after the byte was written: the write is        *)
(* uncertain, this instance reserves nothing more, and it keeps the lock.  *)
PersistFails(p, w) ==
  /\ up[p]
  /\ pc[p][w] \in {"write", "sync"}
  /\ disabled' = [disabled EXCEPT ![p] = TRUE]
  /\ mutex' = [mutex EXCEPT ![p] = None]
  /\ pc' = [pc EXCEPT ![p][w] = "idle"]
  /\ UNCHANGED <<File, lock, up, used, granted>>

(* used.fetch_add, unlock, Ok(true). *)
Grant(p, w) ==
  /\ up[p]
  /\ pc[p][w] = "count"
  /\ used' = [used EXCEPT ![p] = @ + 1]
  /\ granted' = granted + 1
  /\ mutex' = [mutex EXCEPT ![p] = None]
  /\ pc' = [pc EXCEPT ![p][w] = "idle"]
  /\ UNCHANGED <<File, lock, up, disabled>>

(* The instance is dropped or its process dies, at any step: the kernel    *)
(* releases the lock and keeps what was written.                           *)
Exit(p) ==
  /\ up[p]
  /\ lock' = None
  /\ up' = [up EXCEPT ![p] = FALSE]
  /\ mutex' = [mutex EXCEPT ![p] = None]
  /\ pc' = [pc EXCEPT ![p] = Idle]
  /\ UNCHANGED <<File, used, disabled, granted>>

(* The machine stops: every process is gone, bytes no sync covered may be. *)
PowerLoss ==
  /\ \E kept \in synced .. written : written' = kept /\ synced' = kept
  /\ lock' = None
  /\ up' = [p \in Process |-> FALSE]
  /\ mutex' = [p \in Process |-> None]
  /\ pc' = [p \in Process |-> Idle]
  /\ UNCHANGED <<header, used, disabled, granted>>

Next ==
  \/ BeginInitialize
  \/ FinishInitialize
  \/ PowerLoss
  \/ \E p \in Process :
       \/ Open(p)
       \/ Exit(p)
       \/ \E w \in Worker :
            \/ BeginReserve(p, w)
            \/ Write(p, w)
            \/ Sync(p, w)
            \/ PersistFails(p, w)
            \/ Grant(p, w)

Spec == Init /\ [][Next]_vars

-----------------------------------------------------------------------------
(* Types, and the mutex is held exactly by the worker that is inside. *)
TypeOK ==
  /\ header \in {"absent", "partial", "ready"}
  /\ written \in Nat /\ synced \in Nat /\ granted \in Nat
  /\ lock \in Process \cup {None}
  /\ up \in [Process -> BOOLEAN]
  /\ used \in [Process -> Nat]
  /\ disabled \in [Process -> BOOLEAN]
  /\ mutex \in [Process -> Worker \cup {None}]
  /\ pc \in [Process -> [Worker -> {"idle", "write", "sync", "count"}]]
  /\ \A p \in Process, w \in Worker : pc[p][w] # "idle" <=> mutex[p] = w
  /\ \A p \in Process : mutex[p] # None => up[p]

(* The limit is a lifetime limit: no sequence of crashes, power losses,    *)
(* failed writes and reopenings grants more calls than the budget has.     *)
NeverOverspent == granted <= Limit

(* Reserved durably before dispatch: a power loss in any state leaves at   *)
(* least one byte of the file for each call that was ever granted.         *)
GrantsDurable == granted <= synced /\ synced <= written

(* Never refunded: the instance that owns the budget accounts for every    *)
(* call ever granted, by it or by any instance before it.                  *)
NeverRefunded == \A p \in Process : up[p] => granted <= used[p]

(* No failure leaves a file that the next open refuses for its length: an  *)
(* instance whose write failed appends nothing after the uncertain byte.   *)
NeverOverfull == written <= Limit
=============================================================================
