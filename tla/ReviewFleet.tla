----------------------------- MODULE ReviewFleet -----------------------------
(***************************************************************************)
(* src/demo/fleet.py and src/demo/observe.py: one run of the prepared      *)
(* tasks by a thread pool, each task one call of the gateway between a     *)
(* reservation in the shared ledger (RunBudget) and the events of a        *)
(* recording (Recording).  Other processes use the same ledger at the same *)
(* time.  The run can die at any step; its directory is created once, so   *)
(* a later run has attempt ids of its own and is one of the others.        *)
(***************************************************************************)
EXTENDS RunBudget, Recording

CONSTANTS
  Workers,   \* workers, 1..4
  Estimate,  \* estimate_usd of this run, in nanodollars
  Other      \* attempts of other processes that share the ledger

ASSUME FleetAssumption ==
  /\ Workers \in 1..4
  /\ Task = 1..Cardinality(Task)
  /\ Attempt = Task \cup Other
  /\ Task \cap Other = {}
  /\ Estimate \in Amount \ {0}

VARIABLES
  main,   \* the main thread of run()
  next,   \* the result pool.map yields next
  pc,     \* pc[t]: the future of task t, and where its worker is
  reply,  \* reply[t]: what the gateway answered
  sent,   \* history: tasks whose request may have reached the gateway
  saved   \* artifacts of accept() under private/: <<task, "response" or "review">>

fleetVars == <<main, next, pc, reply, sent, saved>>
vars == <<budgetVars, recordingVars, fleetVars>>

MainStages == {"idle", "queueing", "mapping", "raising", "closing", "failing",
               "verifying", "done", "failed", "dead"}
Ended == {"done", "failed", "dead"}

(* The steps of a worker that append an event, and the event. *)
Emits == [reserved |-> "request_started", answered |-> "response_received",
          recording |-> "review_validated", completing |-> "task_completed",
          doubtful |-> "task_uncertain", deferring |-> "task_deferred"]
Busy == DOMAIN Emits \cup {"reserving", "sending", "waiting", "deciding",
                           "saving", "validating", "storing"}
Stages == Busy \cup {"pending", "cancelled", "done", "raised"}

Replies == {"fallback", "review", "invalid", "unconfirmed"}

TypeOK ==
  /\ BudgetTypeOK
  /\ RecordingTypeOK
  /\ main \in MainStages
  /\ next \in 1..Cardinality(Task) + 1
  /\ pc \in [Task -> Stages]
  /\ reply \in [Task -> Replies \cup {"none"}]
  /\ sent \subseteq Task
  /\ saved \subseteq Task \X {"response", "review"}

Init ==
  /\ BudgetInit
  /\ RecordingInit
  /\ main = "idle"
  /\ next = 1
  /\ pc = [t \in Task |-> "pending"]
  /\ reply = [t \in Task |-> "none"]
  /\ sent = {}
  /\ saved = {}

Last == Cardinality(Task)
Running == {t \in Task : pc[t] \in Busy}
To(t, stage) == pc' = [pc EXCEPT ![t] = stage]

-----------------------------------------------------------------------------
(* run: the inputs are checked and the directories and the recorder are    *)
(* created before the try block; a failure there leaves no recorder open.  *)
Begin ==
  /\ main = "idle"
  /\ ledger = "ready"
  /\ main' \in {"queueing", "failed"}
  /\ UNCHANGED <<budgetVars, recordingVars, next, pc, reply, sent, saved>>

(* Every task is queued, in order, before the pool starts; an append that  *)
(* raises goes straight to the finally clause.                             *)
Queue(t) ==
  /\ main = "queueing"
  /\ states[t] = "none"
  /\ \A u \in Task : u < t => states[u] # "none"
  /\ \/ /\ AppendEvent("task_queued", t)
        /\ main' = IF t = Last THEN "mapping" ELSE "queueing"
     \/ /\ AppendFails("task_queued", t)
        /\ main' = "failing"
     \/ /\ ~CanAppend("task_queued", t)
        /\ main' = "failing"
        /\ UNCHANGED recordingVars
  /\ UNCHANGED <<budgetVars, next, pc, reply, sent, saved>>

(* pool.map submitted all tasks; a free worker takes the first one left. *)
Start(t) ==
  /\ main = "mapping"
  /\ pc[t] = "pending"
  /\ \A u \in Task : u < t => pc[u] # "pending"
  /\ Cardinality(Running) < Workers
  /\ To(t, "reserving")
  /\ UNCHANGED <<budgetVars, recordingVars, main, next, reply, sent, saved>>

(* observe: a reservation before anything is recorded or sent. *)
BeginAdmit(t) ==
  /\ main # "dead"
  /\ pc[t] = "reserving"
  /\ BeginReserve(t)
  /\ UNCHANGED <<recordingVars, fleetVars>>

Admit(t) ==
  /\ main # "dead"
  /\ pc[t] = "reserving"
  /\ Reserve(t, Estimate)
  /\ To(t, "reserved")
  /\ UNCHANGED <<recordingVars, main, next, reply, sent, saved>>

(* A BudgetError defers the task; an SQLite error (locked, disk) is none   *)
(* and leaves the worker.                                                  *)
Refuse(t) ==
  /\ main # "dead"
  /\ pc[t] = "reserving"
  /\ \/ view[t] # {} /\ ~Admits(t, Estimate) /\ To(t, "deferring")
     \/ To(t, "raised")
  /\ RollBack({t})
  /\ UNCHANGED <<recordingVars, main, next, reply, sent, saved>>

-----------------------------------------------------------------------------
(* Where an acknowledged append leads, and where one that raises leads:    *)
(* request_started and task_deferred are appended outside observe's try    *)
(* and task_uncertain in its except clause, so their errors escape.        *)
BugAfterAppend(t) ==
  CASE pc[t] = "reserved"   -> [ok |-> "sending",    error |-> "sending"]
    [] pc[t] = "answered"   -> [ok |-> "deciding",   error |-> "doubtful"]
    [] pc[t] = "recording"  -> [ok |-> "completing", error |-> "doubtful"]
    [] pc[t] = "completing" -> [ok |-> "done",       error |-> "doubtful"]
    [] OTHER                -> [ok |-> "done",       error |-> "raised"]

AfterAppend(t) ==
  CASE pc[t] = "reserved"   -> [ok |-> "sending",    error |-> "raised"]
    [] pc[t] = "answered"   -> [ok |-> "deciding",   error |-> "doubtful"]
    [] pc[t] = "recording"  -> [ok |-> "completing", error |-> "doubtful"]
    [] pc[t] = "completing" -> [ok |-> "done",       error |-> "doubtful"]
    [] OTHER                -> [ok |-> "done",       error |-> "raised"]

Emit(t) ==
  /\ main # "dead"
  /\ pc[t] \in DOMAIN Emits
  /\ LET kind == Emits[pc[t]]
     IN  \/ AppendEvent(kind, t) /\ To(t, AfterAppend(t).ok)
         \/ AppendFails(kind, t) /\ To(t, AfterAppend(t).error)
         \/ ~CanAppend(kind, t) /\ To(t, AfterAppend(t).error) /\ UNCHANGED recordingVars
  /\ UNCHANGED <<budgetVars, main, next, reply, sent, saved>>

-----------------------------------------------------------------------------
(* The one call of the gateway: no redirect, no retry. *)
Send(t) ==
  /\ main # "dead"
  /\ pc[t] = "sending"
  /\ sent' = sent \cup {t}
  /\ To(t, "waiting")
  /\ UNCHANGED <<budgetVars, recordingVars, main, next, reply, saved>>

Answered(t) ==
  /\ main # "dead"
  /\ pc[t] = "waiting"
  /\ \E r \in Replies : reply' = [reply EXCEPT ![t] = r]
  /\ To(t, "answered")
  /\ UNCHANGED <<budgetVars, recordingVars, main, next, sent, saved>>

(* A timeout, a broken connection, a body that is no object or carries     *)
(* invalid evidence: OSError, ValueError, TypeError or AttributeError.     *)
Unreadable(t) ==
  /\ main # "dead"
  /\ pc[t] = "waiting"
  /\ To(t, "doubtful")
  /\ UNCHANGED <<budgetVars, recordingVars, main, next, reply, sent, saved>>

(* http.client.HTTPException (a bad status line, a chunk cut short) and    *)
(* decimal.InvalidOperation (a cost that is no number, in validate) are    *)
(* none of the four: they leave observe and the worker.                    *)
Escapes(t) ==
  /\ main # "dead"
  /\ pc[t] = "waiting"
  /\ To(t, "raised")
  /\ UNCHANGED <<budgetVars, recordingVars, main, next, reply, sent, saved>>

Decide(t) ==
  /\ main # "dead"
  /\ pc[t] = "deciding"
  /\ To(t, CASE reply[t] = "fallback" -> "completing"
             [] reply[t] = "unconfirmed" -> "doubtful"
             [] OTHER -> "saving")
  /\ UNCHANGED <<budgetVars, recordingVars, main, next, reply, sent, saved>>

-----------------------------------------------------------------------------
(* accept: the raw answer is kept, valid or not; a review that validates   *)
(* is stored before its event.  A write that fails, like a review that     *)
(* does not validate, makes the task uncertain.                            *)
Save(t, artifact, after) ==
  /\ \/ saved' = saved \cup {<<t, artifact>>} /\ To(t, after)
     \/ To(t, "doubtful") /\ UNCHANGED saved
  /\ UNCHANGED <<budgetVars, recordingVars, main, next, reply, sent>>

SaveResponse(t) ==
  /\ main # "dead"
  /\ pc[t] = "saving"
  /\ Save(t, "response", "validating")

BugValidateReview(t) ==
  /\ main # "dead"
  /\ pc[t] = "validating"
  /\ To(t, IF reply[t] = "review" THEN "recording" ELSE "doubtful")
  /\ UNCHANGED <<budgetVars, recordingVars, main, next, reply, sent, saved>>

ValidateReview(t) ==
  /\ main # "dead"
  /\ pc[t] = "validating"
  /\ To(t, IF reply[t] = "review" THEN "storing" ELSE "doubtful")
  /\ UNCHANGED <<budgetVars, recordingVars, main, next, reply, sent, saved>>

StoreReview(t) ==
  /\ main # "dead"
  /\ pc[t] = "storing"
  /\ Save(t, "review", "recording")

-----------------------------------------------------------------------------
(* The main thread waits for the results in order.  The first exception    *)
(* cancels every future that has not started; leaving the pool waits for   *)
(* the rest.                                                               *)
BugTakeRaised ==
  /\ main = "mapping"
  /\ next <= Last
  /\ pc[next] \in {"done", "raised"}
  /\ next' = next + 1
  /\ UNCHANGED <<budgetVars, recordingVars, main, pc, reply, sent, saved>>

TakeResult ==
  /\ main = "mapping"
  /\ next <= Last
  /\ pc[next] = "done"
  /\ next' = next + 1
  /\ UNCHANGED <<budgetVars, recordingVars, main, pc, reply, sent, saved>>

TakeException ==
  /\ main = "mapping"
  /\ next <= Last
  /\ pc[next] = "raised"
  /\ main' = "raising"
  /\ pc' = [t \in Task |-> IF pc[t] = "pending" THEN "cancelled" ELSE pc[t]]
  /\ UNCHANGED <<budgetVars, recordingVars, next, reply, sent, saved>>

BugLeavePoolAwaitsAll ==
  /\ \A t \in Task : pc[t] \in {"done", "raised"}
  /\ \/ main = "mapping" /\ next > Last /\ main' = "closing"
     \/ main = "raising" /\ main' = "failing"
  /\ UNCHANGED <<budgetVars, recordingVars, next, pc, reply, sent, saved>>

LeavePool ==
  /\ Running = {}
  /\ \/ main = "mapping" /\ next > Last /\ main' = "closing"
     \/ main = "raising" /\ main' = "failing"
  /\ UNCHANGED <<budgetVars, recordingVars, next, pc, reply, sent, saved>>

(* finally: the recorder is closed after success and after failure alike;  *)
(* a failure of its own replaces the exception.                            *)
CloseRecorder ==
  /\ main \in {"closing", "failing"}
  /\ \/ CloseSealed /\ main' = IF main = "closing" THEN "verifying" ELSE "failed"
     \/ CloseFails /\ main' = "failed"
  /\ UNCHANGED <<budgetVars, next, pc, reply, sent, saved>>

(* The sealed directory is read back; result.json is written only then. *)
Conclude ==
  /\ main = "verifying"
  /\ \/ Verifies(FALSE) /\ main' = "done"
     \/ main' = "failed"
  /\ UNCHANGED <<budgetVars, recordingVars, next, pc, reply, sent, saved>>

(* The process dies; an append, the seal or a transaction may have been    *)
(* under way.                                                              *)
Crash ==
  /\ main \notin Ended \cup {"idle"}
  /\ main' = "dead"
  /\ \/ UNCHANGED recordingVars
     \/ /\ \E t \in Task : \E kind \in Kind :
             /\ \/ pc[t] \in DOMAIN Emits /\ kind = Emits[pc[t]]
                \/ main = "queueing" /\ kind = "task_queued"
             /\ CanAppend(kind, t)
             /\ Leftover(kind, t)
        /\ UNCHANGED <<chain, states, size, poisoned, closed, seal>>
     \/ /\ main \in {"closing", "failing"}
        /\ ~poisoned /\ ~closed
        /\ seal' \in {TornSeal, SealOf(chain)}
        /\ closed' = TRUE
        /\ UNCHANGED <<chain, states, size, poisoned, log, torn>>
  /\ RollBack(Task)
  /\ UNCHANGED <<next, pc, reply, sent, saved>>

(* The operator that creates and settles the ledger, and other runs. *)
Others ==
  /\ \/ BeginCreate
     \/ FinishCreate
     \/ \E a \in Other : BeginReserve(a) \/ (view[a] # {} /\ RollBack({a}))
     \/ \E a \in Other, e \in Amount : Reserve(a, e)
     \/ \E a \in Attempt, r \in Receipt, v \in Amount : Settle(a, r, v)
  /\ UNCHANGED <<recordingVars, fleetVars>>

Worker(t) ==
  \/ Start(t)
  \/ BeginAdmit(t)
  \/ Admit(t)
  \/ Refuse(t)
  \/ Emit(t)
  \/ Send(t)
  \/ Answered(t)
  \/ Unreadable(t)
  \/ Escapes(t)
  \/ Decide(t)
  \/ SaveResponse(t)
  \/ ValidateReview(t)
  \/ StoreReview(t)

Main ==
  \/ Begin
  \/ \E t \in Task : Queue(t)
  \/ TakeResult
  \/ TakeException
  \/ LeavePool
  \/ CloseRecorder
  \/ Conclude

Next ==
  \/ Main
  \/ \E t \in Task : Worker(t)
  \/ Crash
  \/ Others

Spec == Init /\ [][Next]_vars

(* Threads run, SQLite waits at most five seconds and a socket read at     *)
(* most fifteen: every step of the run is taken once it can be.  Others    *)
(* need not do anything, and nothing forces a crash.                       *)
Fairness == WF_vars(Main) /\ \A t \in Task : WF_vars(Worker(t))
FairSpec == Spec /\ Fairness

-----------------------------------------------------------------------------
(* BUDGET.md, FLEET.md: a request can reach the gateway only after its     *)
(* reservation is committed and its request_started line is synced, and    *)
(* both are still there after a failure or a crash.                        *)
CallsCovered ==
  \A t \in sent :
     /\ t \in Rows
     /\ \E i \in DOMAIN log : log[i] = EventOf("request_started", t)

(* FLEET.md: an event that says a review validated, in a file that may     *)
(* have been cut by a crash, is backed by the stored answer and report.    *)
ReviewEvidenced ==
  \A t \in Task :
     (\E i \in DOMAIN log : log[i] = EventOf("review_validated", t)) =>
        {<<t, "response">>, <<t, "review">>} \subseteq saved

(* fleet.py: result.json exists only for a run whose tasks all reached an  *)
(* end, as the sealed file itself tells it.                                *)
ResultComplete ==
  main = "done" =>
     /\ Verifies(FALSE)
     /\ Incomplete = {}
     /\ Cardinality(UNION {Ending(k) : k \in Terminal}) = Last

(* The run uses the ledger only as its methods allow. *)
UsesLedger == BudgetSpec

(* A fleet that was started ends, whatever the gateway does. *)
FleetEnds == (main = "queueing") ~> (main \in Ended)

(* FLEET.md:12-13, "A network/handler problem stays uncertain": a sealed   *)
(* recording has no task whose request was sent and that has no end.       *)
ProblemStaysUncertain ==
  seal.sealed => \A t \in sent : LastKind(log, t) \in Terminal
==============================================================================
