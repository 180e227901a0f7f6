------------------------------- MODULE Gateway -------------------------------
(***************************************************************************)
(* src/src/gateway.rs in the durable configuration (budget and journal),   *)
(* with the ingress semaphore of src/src/bin/braess-router.rs.             *)
(*                                                                         *)
(* A request runs execute_inner from one await point to the next; the      *)
(* phases that wait are named for the blocking task they wait for.  Tasks  *)
(* hold a permit of durable_slots and outlive the request that spawned     *)
(* them.  Ledgers, budget and journal are abstracted to what the gateway   *)
(* sees of them: RequestLedger, DurableBudget and DurableRequests show how *)
(* they keep it.  The attempts of a ledger that are in flight are those of *)
(* the requests in the phases that own one; the rate limiter grants or     *)
(* refuses freely (RateLimiter).                                           *)
(***************************************************************************)
EXTENDS Integers, FiniteSets

CONSTANTS
  Request,         \* client requests
  Handler,         \* the endpoints of the one route that is not the fallback
  Jev,             \* the decision service, an endpoint too
  None,            \* nobody, nothing
  AdmissionLimit,  \* Config.admission_limit
  TrackingLimit,   \* Config.tracking_limit
  MaxCalls,        \* Config.max_jev_calls
  MaxCrashes       \* bound of the model: times the process dies

ASSUME LimitsAssumption ==
  /\ AdmissionLimit \in Nat \ {0}
  /\ TrackingLimit \in Nat /\ TrackingLimit >= AdmissionLimit
  /\ MaxCalls \in Nat \ {0}
  /\ MaxCrashes \in Nat

ASSUME NamesAssumption ==
  /\ Jev \notin Handler /\ None \notin Handler \cup {Jev} \cup Request
  /\ IsFiniteSet(Request)

VARIABLES
  up,           \* the process runs
  crashes,      \* how often it died
  phase,        \* phase[r]: where execute_inner is
  target,       \* target[r]: the handler endpoint that was selected, or None
  task,         \* task[r]: the blocking task of r, maybe detached
  awaiting,     \* awaiting[h]: Endpoint.awaiting_journal
  selector,     \* who holds Gateway.selector, and
  view,         \*   the durable_pending it read for each candidate
  unconfirmed,  \* ledgers: charged attempts whose owner let go after dispatch
  lapsed,       \* ledgers: those that outlived the TTL, tracked but not charged
  counters,     \* Gateway.offered, completed, failed, cancelled
  budgetOk,     \* DurableBudget.healthy
  spent,        \* the bytes of the budget file
  journal,      \* the journal: "ok", "failed" (not healthy), "torn" (and so)
  pending,      \* the unresolved attempts of the journal: <<request, endpoint>>
  sent,         \* history: attempts handed to a transport
  validated     \* history: attempts whose whole response was validated

Requests == <<phase, target>>
Selection == <<awaiting, selector, view>>
Ledgers == <<unconfirmed, lapsed>>
Durable == <<budgetOk, spent, journal, pending>>
History == <<sent, validated>>
vars == <<up, crashes, Requests, task, Selection, Ledgers, counters, Durable, History>>

Endpoint == Handler \cup {Jev}

(* Phases that wait for the task they are named for. *)
Waiting == {"budget", "begin_jev", "complete_jev", "begin_handler", "complete_handler"}
(* Phases about to spawn a task. *)
Spawning == {"leased", "budgeted", "jev_valid", "selected", "handler_valid"}
InFlightPhases ==
  Waiting \cup Spawning
  \cup {"offered", "checked", "admitted", "jev_sent", "decided", "selecting", "handler_sent"}
Ended == {"completed", "failed", "cancelled", "lost"}

NoTask == [kind |-> "none", state |-> "none"]
NoView == [h \in Handler |-> 0]
Zero == [offered |-> 0, completed |-> 0, failed |-> 0, cancelled |-> 0]

Init ==
  /\ up = TRUE /\ crashes = 0
  /\ phase = [r \in Request |-> "idle"]
  /\ target = [r \in Request |-> None]
  /\ task = [r \in Request |-> NoTask]
  /\ awaiting = [h \in Handler |-> 0]
  /\ selector = None /\ view = NoView
  /\ unconfirmed = {} /\ lapsed = {}
  /\ counters = Zero
  /\ budgetOk = TRUE /\ spent = 0
  /\ journal = "ok" /\ pending = {}
  /\ sent = {} /\ validated = {}

-----------------------------------------------------------------------------
InFlight == {r \in Request : phase[r] \in InFlightPhases}

(* The requests that own an Attempt of the ledger of e. *)
Active(e) ==
  IF e = Jev
  THEN {r \in Request : phase[r] \in {"admitted", "leased", "budget", "budgeted",
                                      "begin_jev", "jev_sent"}}
  ELSE {r \in Request : phase[r] \in {"selected", "begin_handler", "handler_sent"}
                        /\ target[r] = e}

At(pairs, e) == {p \in pairs : p[2] = e}
Charged(e) == Cardinality(Active(e)) + Cardinality(At(unconfirmed, e))
Tracked(e) == Charged(e) + Cardinality(At(lapsed, e))

(* RequestLedger::try_admit has room. *)
Admits(e) == Charged(e) < AdmissionLimit /\ Tracked(e) < TrackingLimit

(* durable_slots: Semaphore::new(admission_limit), one permit per task. *)
Busy == {r \in Request : task[r].state = "running"}
FreeSlot == Cardinality(Busy) < AdmissionLimit

(* What Drop does to the ledgers when r stops in its phase. *)
Abandoned(r) ==
  CASE phase[r] = "jev_sent" -> {<<r, Jev>>}
    [] phase[r] = "handler_sent" -> {<<r, target[r]>>}
    [] OTHER -> {}

Reserving == {"selected", "begin_handler"}

(* Operators named Bug... are not used by the specification: each is the   *)
(* definition that follows it with a plausible mistake, for mutation runs. *)

(* Drop of the SelectionReservation, if r has one. *)
Released(r) ==
  IF phase[r] \in Reserving THEN [awaiting EXCEPT ![target[r]] = @ - 1] ELSE awaiting

BugEndReconciles(r, how) ==
  /\ phase' = [phase EXCEPT ![r] = how]
  /\ task' = IF r \in Busy THEN task ELSE [task EXCEPT ![r] = NoTask]
  /\ unconfirmed' = unconfirmed \cup Abandoned(r)
  /\ awaiting' = Released(r)
  /\ counters' = [counters EXCEPT ![how] = @ + 1]
  /\ pending' = pending \ Abandoned(r)
  /\ UNCHANGED <<up, crashes, target, lapsed, budgetOk, spent, journal>>

(* execute() is over for r, or its future is dropped: every value it owns  *)
(* is dropped, a running task is detached, an unread result is lost.       *)
End(r, how) ==
  /\ phase' = [phase EXCEPT ![r] = how]
  /\ task' = IF r \in Busy THEN task ELSE [task EXCEPT ![r] = NoTask]
  /\ unconfirmed' = unconfirmed \cup Abandoned(r)
  /\ awaiting' = Released(r)
  /\ counters' = [counters EXCEPT ![how] = @ + 1]
  /\ UNCHANGED <<up, crashes, target, lapsed, Durable>>

Move(r, next) ==
  /\ phase' = [phase EXCEPT ![r] = next]
  /\ UNCHANGED <<up, crashes>>

(* The awaited task of r returned this. *)
Returned(r, state) ==
  phase[r] \in Waiting /\ task[r] = [kind |-> phase[r], state |-> state]

-----------------------------------------------------------------------------

(* bound_request: an ingress permit, held to the end; then execute(). *)
Arrive(r) ==
  /\ up
  /\ phase[r] = "idle"
  /\ Cardinality(InFlight) < AdmissionLimit
  /\ counters' = [counters EXCEPT !.offered = @ + 1]
  /\ Move(r, "offered")
  /\ UNCHANGED <<target, task, Selection, Ledgers, Durable, History>>

(* durable_pending("jev") is read here, and used before the await. *)
Check(r) ==
  /\ phase[r] = "offered"
  /\ Cardinality(At(pending, Jev)) < AdmissionLimit
  /\ Move(r, "checked")
  /\ UNCHANGED <<target, task, Selection, Ledgers, counters, Durable, History>>

Admit(r) ==
  /\ phase[r] = "checked"
  /\ Admits(Jev)
  /\ Move(r, "admitted")
  /\ UNCHANGED <<target, task, Selection, Ledgers, counters, Durable, History>>

Lease(r) ==
  /\ phase[r] = "admitted"
  /\ Move(r, "leased")
  /\ UNCHANGED <<target, task, Selection, Ledgers, counters, Durable, History>>

(* The early returns before the first task: an invalid request, a full     *)
(* journal, a full ledger, a refused rate.                                 *)
Refuse(r) ==
  /\ \/ phase[r] = "offered"
     \/ phase[r] = "checked" /\ ~Admits(Jev)
     \/ phase[r] = "admitted"
  /\ End(r, "failed")
  /\ UNCHANGED <<selector, view, History>>

(* The task a request spawns next. *)
NextTask(r) ==
  CASE phase[r] = "leased" -> "budget"
    [] phase[r] = "budgeted" -> "begin_jev"
    [] phase[r] = "jev_valid" -> "complete_jev"
    [] phase[r] = "selected" -> "begin_handler"
    [] phase[r] = "handler_valid" -> "complete_handler"

(* try_acquire_owned and spawn_blocking. *)
Spawn(r) ==
  /\ phase[r] \in Spawning
  /\ FreeSlot
  /\ task' = [task EXCEPT ![r] = [kind |-> NextTask(r), state |-> "running"]]
  /\ Move(r, NextTask(r))
  /\ UNCHANGED <<target, Selection, Ledgers, counters, Durable, History>>

(* "jev_budget_busy", "request_journal_busy" *)
NoSlot(r) ==
  /\ phase[r] \in Spawning
  /\ ~FreeSlot
  /\ End(r, "failed")
  /\ UNCHANGED <<selector, view, History>>

TaskFailed(r) ==
  /\ Returned(r, "failed")
  /\ End(r, "failed")
  /\ UNCHANGED <<selector, view, History>>

BugBudgetedAnyway(r) ==
  /\ phase[r] = "budget"
  /\ Returned(r, "ok") \/ Returned(r, "failed")
  /\ task' = [task EXCEPT ![r] = NoTask]
  /\ Move(r, "budgeted")
  /\ UNCHANGED <<target, Selection, Ledgers, counters, Durable, History>>

Budgeted(r) ==
  /\ phase[r] = "budget"
  /\ Returned(r, "ok")
  /\ task' = [task EXCEPT ![r] = NoTask]
  /\ Move(r, "budgeted")
  /\ UNCHANGED <<target, Selection, Ledgers, counters, Durable, History>>

(* The lease is committed, the attempt marked, the request handed over. *)
SendJev(r) ==
  /\ phase[r] = "begin_jev"
  /\ Returned(r, "ok")
  /\ task' = [task EXCEPT ![r] = NoTask]
  /\ sent' = sent \cup {<<r, Jev>>}
  /\ Move(r, "jev_sent")
  /\ UNCHANGED <<target, Selection, Ledgers, counters, Durable, validated>>

(* The whole body arrived and gate() accepted it: validated() ends the     *)
(* attempt in the ledger before the journal is told.                       *)
JevValidated(r) ==
  /\ phase[r] = "jev_sent"
  /\ validated' = validated \cup {<<r, Jev>>}
  /\ Move(r, "jev_valid")
  /\ UNCHANGED <<target, task, Selection, Ledgers, counters, Durable, sent>>

(* Transport error, status, size, JSON or contract violation, of either    *)
(* upstream; the handler's endpoint was selected before.                   *)
ResponseInvalid(r) ==
  /\ phase[r] \in {"jev_sent", "handler_sent"}
  /\ End(r, "failed")
  /\ UNCHANGED <<selector, view, History>>

(* The decision is journaled as complete; a fallback is answered locally. *)
Fallback(r) ==
  /\ phase[r] = "complete_jev"
  /\ Returned(r, "ok")
  /\ End(r, "completed")
  /\ UNCHANGED <<selector, view, History>>

Decide(r) ==
  /\ phase[r] = "complete_jev"
  /\ Returned(r, "ok")
  /\ task' = [task EXCEPT ![r] = NoTask]
  /\ Move(r, "decided")
  /\ UNCHANGED <<target, Selection, Ledgers, counters, Durable, History>>

-----------------------------------------------------------------------------
(* Selection holds the selector mutex; other requests move meanwhile.      *)
(* candidate() gets the durable_pending read for it before it reads the    *)
(* ledger and awaiting_journal.                                            *)
ReadPending(r) ==
  /\ phase[r] = "decided"
  /\ selector = None
  /\ selector' = r
  /\ view' = [h \in Handler |-> Cardinality(At(pending, h))]
  /\ Move(r, "selecting")
  /\ UNCHANGED <<target, task, awaiting, Ledgers, counters, Durable, History>>

Load(h) ==
  IF Charged(h) > view[h] + awaiting[h] THEN Charged(h) ELSE view[h] + awaiting[h]
Ready(h) == Load(h) < AdmissionLimit /\ Tracked(h) < TrackingLimit

(* LeastLoaded::pick, and try_admit, which only this mutex makes full. *)
Select(r) ==
  /\ selector = r
  /\ \E h \in Handler :
       /\ Ready(h)
       /\ \A g \in Handler : Ready(g) => Load(h) <= Load(g)
       /\ target' = [target EXCEPT ![r] = h]
       /\ awaiting' = [awaiting EXCEPT ![h] = @ + 1]
  /\ selector' = None /\ view' = NoView
  /\ Move(r, "selected")
  /\ UNCHANGED <<task, Ledgers, counters, Durable, History>>

SelectFails(r) ==
  /\ selector = r
  /\ \A h \in Handler : ~Ready(h)
  /\ selector' = None /\ view' = NoView
  /\ End(r, "failed")
  /\ UNCHANGED History

BugSendHandlerReserved(r) ==
  /\ phase[r] = "begin_handler"
  /\ Returned(r, "ok")
  /\ task' = [task EXCEPT ![r] = NoTask]
  /\ sent' = sent \cup {<<r, target[r]>>}
  /\ Move(r, "handler_sent")
  /\ UNCHANGED <<target, Selection, Ledgers, counters, Durable, validated>>

(* drop(pending_journal); the request is handed over. *)
SendHandler(r) ==
  /\ phase[r] = "begin_handler"
  /\ Returned(r, "ok")
  /\ task' = [task EXCEPT ![r] = NoTask]
  /\ awaiting' = Released(r)
  /\ sent' = sent \cup {<<r, target[r]>>}
  /\ Move(r, "handler_sent")
  /\ UNCHANGED <<target, selector, view, Ledgers, counters, Durable, validated>>

HandlerValidated(r) ==
  /\ phase[r] = "handler_sent"
  /\ validated' = validated \cup {<<r, target[r]>>}
  /\ Move(r, "handler_valid")
  /\ UNCHANGED <<target, task, Selection, Ledgers, counters, Durable, sent>>

BugCompleteUnawaited(r) ==
  /\ phase[r] = "complete_handler"
  /\ End(r, "completed")
  /\ UNCHANGED <<selector, view, History>>

Complete(r) ==
  /\ phase[r] = "complete_handler"
  /\ Returned(r, "ok")
  /\ End(r, "completed")
  /\ UNCHANGED <<selector, view, History>>

BugStalledInTasks(r) == phase[r] \in Waiting /\ r \in Busy

(* The deadline of execute(): it is looked at when execute_inner has       *)
(* nothing to go on with.                                                  *)
Stalled(r) ==
  phase[r] \in {"jev_sent", "handler_sent"} \/ (phase[r] \in Waiting /\ r \in Busy)

Timeout(r) ==
  /\ Stalled(r)
  /\ End(r, "failed")
  /\ UNCHANGED <<selector, view, History>>

(* The future is dropped at an await point: the client went away, or the   *)
(* equal deadline of bound_request was first.                              *)
Cancel(r) ==
  /\ phase[r] \in Waiting \cup {"jev_sent", "handler_sent"}
  /\ End(r, "cancelled")
  /\ UNCHANGED <<selector, view, History>>

-----------------------------------------------------------------------------
BugTaskEndsLeaks(r, state) ==
  /\ task' = [task EXCEPT ![r] = IF phase[r] = @.kind THEN [@ EXCEPT !.state = state] ELSE @]
  /\ UNCHANGED <<up, crashes, Requests, Selection, Ledgers, counters, History>>

(* The blocking task of r ends and drops its permit; whoever still waits   *)
(* for it finds the result.                                                *)
TaskEnds(r, state) ==
  /\ task' = [task EXCEPT ![r] =
       IF phase[r] = @.kind THEN [@ EXCEPT !.state = state] ELSE NoTask]
  /\ UNCHANGED <<up, crashes, Requests, Selection, Ledgers, counters, History>>

Running(r, kinds) == r \in Busy /\ task[r].kind \in kinds

(* DurableBudget::reserve: granted, refused, or an uncertain write. *)
RunBudget(r) ==
  /\ Running(r, {"budget"})
  /\ \/ /\ budgetOk /\ spent < MaxCalls
        /\ spent' = spent + 1
        /\ TaskEnds(r, "ok")
        /\ UNCHANGED <<budgetOk, journal, pending>>
     \/ /\ ~budgetOk \/ spent >= MaxCalls
        /\ TaskEnds(r, "failed")
        /\ UNCHANGED Durable
     \/ /\ budgetOk /\ spent < MaxCalls
        /\ spent' \in {spent, spent + 1}
        /\ budgetOk' = FALSE
        /\ TaskEnds(r, "failed")
        /\ UNCHANGED <<journal, pending>>

Destination(r) == IF task[r].kind \in {"begin_jev", "complete_jev"} THEN Jev ELSE target[r]

(* The write of a journal line fails: it may have landed, whole or torn. *)
JournalFails(r, landed) ==
  /\ journal' \in {"failed", "torn"}
  /\ pending' \in IF journal' = "torn" THEN {pending} ELSE {pending, landed}
  /\ TaskEnds(r, "failed")
  /\ UNCHANGED <<budgetOk, spent>>

BugRunBeginUnlimited(r) ==
  LET begun == pending \cup {<<r, Destination(r)>>}
  IN /\ Running(r, {"begin_jev", "begin_handler"})
     /\ \/ /\ journal = "ok"
           /\ pending' = begun
           /\ TaskEnds(r, "ok")
           /\ UNCHANGED <<budgetOk, spent, journal>>
        \/ journal # "ok" /\ TaskEnds(r, "failed") /\ UNCHANGED Durable
        \/ journal = "ok" /\ JournalFails(r, begun)

(* DurableRequests::begin: the per-endpoint limit is checked under its     *)
(* writer mutex, however stale the check of the request was.               *)
RunBegin(r) ==
  LET e == Destination(r)
      begun == pending \cup {<<r, e>>}
      accepted == journal = "ok" /\ Cardinality(At(pending, e)) < AdmissionLimit
  IN /\ Running(r, {"begin_jev", "begin_handler"})
     /\ \/ /\ accepted
           /\ pending' = begun
           /\ TaskEnds(r, "ok")
           /\ UNCHANGED <<budgetOk, spent, journal>>
        \/ ~accepted /\ TaskEnds(r, "failed") /\ UNCHANGED Durable
        \/ accepted /\ JournalFails(r, begun)

(* DurableRequests::complete *)
RunComplete(r) ==
  LET done == <<r, Destination(r)>>
      accepted == journal = "ok" /\ done \in pending
  IN /\ Running(r, {"complete_jev", "complete_handler"})
     /\ \/ /\ accepted
           /\ pending' = pending \ {done}
           /\ TaskEnds(r, "ok")
           /\ UNCHANGED <<budgetOk, spent, journal>>
        \/ ~accepted /\ TaskEnds(r, "failed") /\ UNCHANGED Durable
        \/ accepted /\ JournalFails(r, pending \ {done})

(* The TTL of an unconfirmed attempt lifts its charge. *)
Expire ==
  /\ \E p \in unconfirmed : unconfirmed' = unconfirmed \ {p} /\ lapsed' = lapsed \cup {p}
  /\ UNCHANGED <<up, crashes, Requests, task, Selection, counters, Durable, History>>

(* The process dies: requests, tasks, ledgers and counters are gone, a     *)
(* journal line that was being written may be torn.                        *)
Crash ==
  /\ up
  /\ crashes < MaxCrashes
  /\ up' = FALSE
  /\ crashes' = crashes + 1
  /\ phase' = [r \in Request |-> IF r \in InFlight THEN "lost" ELSE phase[r]]
  /\ task' = [r \in Request |-> NoTask]
  /\ awaiting' = [h \in Handler |-> 0]
  /\ selector' = None /\ view' = NoView
  /\ unconfirmed' = {} /\ lapsed' = {}
  /\ counters' = Zero
  /\ budgetOk' = FALSE
  /\ journal' \in IF journal = "torn" THEN {"torn"}
                  ELSE IF \E r \in Busy : task[r].kind # "budget"
                       THEN {"failed", "torn"} ELSE {"failed"}
  /\ UNCHANGED <<target, spent, pending, History>>

(* Gateway::new: a torn journal is refused, and admission stays closed. *)
Restart ==
  /\ ~up
  /\ journal # "torn"
  /\ up' = TRUE
  /\ budgetOk' = TRUE
  /\ journal' = "ok"
  /\ UNCHANGED <<crashes, Requests, task, Selection, Ledgers, counters, spent, pending, History>>

(* What a request does by itself when its thread runs. *)
Proceed(r) ==
  \/ Check(r) \/ Admit(r) \/ Lease(r) \/ Refuse(r)
  \/ Spawn(r) \/ NoSlot(r) \/ TaskFailed(r)
  \/ Budgeted(r) \/ SendJev(r) \/ Fallback(r) \/ Decide(r)
  \/ ReadPending(r) \/ Select(r) \/ SelectFails(r)
  \/ SendHandler(r) \/ Complete(r)

RunTask(r) == RunBudget(r) \/ RunBegin(r) \/ RunComplete(r)

Upstream(r) == JevValidated(r) \/ HandlerValidated(r) \/ ResponseInvalid(r)

Next ==
  \/ \E r \in Request :
       Arrive(r) \/ Proceed(r) \/ Upstream(r) \/ Timeout(r) \/ Cancel(r) \/ RunTask(r)
  \/ Expire
  \/ Crash
  \/ Restart

Spec == Init /\ [][Next]_vars

(* Threads run, blocking tasks end and timers fire.  Upstreams and clients *)
(* owe nothing.                                                            *)
Fairness ==
  \A r \in Request :
    WF_vars(Proceed(r)) /\ WF_vars(Timeout(r)) /\ WF_vars(RunTask(r))

FairSpec == Spec /\ Fairness

-----------------------------------------------------------------------------
(* Types; a detached task belongs to a request that ended. *)
TypeOK ==
  /\ up \in BOOLEAN /\ crashes \in 0 .. MaxCrashes
  /\ phase \in [Request -> {"idle"} \cup InFlightPhases \cup Ended]
  /\ target \in [Request -> Handler \cup {None}]
  /\ task \in [Request -> [kind : Waiting \cup {"none"},
                           state : {"none", "running", "ok", "failed"}]]
  /\ \A r \in Request : task[r] # NoTask =>
       phase[r] = task[r].kind \/ (phase[r] \in Ended /\ r \in Busy)
  /\ awaiting \in [Handler -> Nat]
  /\ selector \in Request \cup {None}
  /\ view \in [Handler -> Nat]
  /\ unconfirmed \subseteq Request \X Endpoint /\ lapsed \subseteq Request \X Endpoint
  /\ counters \in [{"offered", "completed", "failed", "cancelled"} -> Nat]
  /\ budgetOk \in BOOLEAN /\ spent \in 0 .. MaxCalls
  /\ journal \in {"ok", "failed", "torn"}
  /\ pending \subseteq Request \X Endpoint
  /\ validated \subseteq sent /\ sent \subseteq Request \X Endpoint

(* No decision is dispatched that the durable budget has not paid for, in  *)
(* this process or an earlier one, whoever gave up while it was paying.    *)
DispatchPaid == Cardinality(At(sent, Jev)) <= spent

(* Whatever a request was doing when it was answered, timed out, was       *)
(* cancelled or died with the process: an upstream that may have its work  *)
(* and has not given a validated response is in the journal.               *)
UncertainRetained == sent \ validated \subseteq pending

(* No endpoint has more unresolved attempts than the admission limit, in   *)
(* the journal or in its ledger, although admission and selection decide   *)
(* on counts that are stale when the begin reaches the journal.            *)
EndpointBound ==
  \A e \in Endpoint :
    /\ Cardinality(At(pending, e)) <= AdmissionLimit
    /\ Charged(e) <= AdmissionLimit
    /\ Tracked(e) <= TrackingLimit

(* A client that got an answer left nothing behind: each of its dispatches *)
(* was validated and is resolved in the journal, so no restart charges it. *)
AnsweredIsResolved ==
  \A r \in Request : phase[r] = "completed" =>
    \A e \in Endpoint : <<r, e>> \notin pending /\ (<<r, e>> \in sent => <<r, e>> \in validated)

(* With as many permits as ingress admits requests, a live request finds   *)
(* the storage workers busy only because of tasks whose request is gone.   *)
BusyOnlyWithDetached ==
  ~FreeSlot /\ (\E r \in Request : phase[r] \in Spawning) =>
    \E d \in Busy : phase[d] \in Ended

(* What is limited stays within its limit: the work of each endpoint, and  *)
(* the permits of the storage workers.                                     *)
CapacityBounds == TypeOK /\ EndpointBound /\ BusyOnlyWithDetached

(* awaiting_journal counts the live requests between selection and begin:  *)
(* no path out of a request leaks a reservation or returns it twice.       *)
AwaitingExact ==
  \A h \in Handler :
    awaiting[h] = Cardinality({r \in Request : phase[r] \in Reserving /\ target[r] = h})

(* Each request the process was offered is counted as exactly one outcome. *)
OutcomesAddUp ==
  counters.offered =
    counters.completed + counters.failed + counters.cancelled + Cardinality(InFlight)

(* The gateway's own counters are exact on every path out of a request:    *)
(* completion, failure, deadline, cancellation and restart.                *)
CountersExact == AwaitingExact /\ OutcomesAddUp

(* Every request ends, though its upstream never answers and its client    *)
(* never leaves.                                                           *)
EveryRequestEnds == \A r \in Request : (r \in InFlight) ~> (r \notin InFlight)

(* Every permit comes back: a cancelled request does not keep its slot.    *)
PermitsReturn == []<>FreeSlot
=============================================================================
