---------------------------- MODULE GatewayProofs ----------------------------
(***************************************************************************)
(* Proofs about the gateway, for any number of requests, endpoints, paid   *)
(* calls and crashes: work an upstream may have is never lost from the     *)
(* journal, and no decision is dispatched without a paid call.             *)
(***************************************************************************)
EXTENDS Gateway, FiniteSetTheorems, TLAPS

Phases == {"idle"} \cup InFlightPhases \cup Ended
Tasks == [kind : Waiting \cup {"none"}, state : {"none", "running", "ok", "failed"}]

(* Where a request and its task can be.  Only the holder of the selector   *)
(* is selecting, so no task runs while a target is chosen.                 *)
Shape ==
  /\ phase \in [Request -> Phases]
  /\ task \in [Request -> Tasks]
  /\ target \in [Request -> Handler \cup {None}]
  /\ \A r \in Request : task[r] # NoTask =>
       phase[r] = task[r].kind \/ (phase[r] \in Ended /\ r \in Busy)
  /\ \A r \in Request : selector = r => phase[r] = "selecting"

LEMMA ShapeInit == Init => Shape
BY NamesAssumption DEF Init, Requests, Selection, Shape, Phases, Tasks, NoTask, Waiting, Busy, Ended

(* Every way out of execute() keeps the shape. *)
LEMMA ShapeEnd ==
  ASSUME Shape, NEW r \in Request, NEW how \in Ended, End(r, how),
         selector' = None \/ (selector' = selector /\ selector # r)
  PROVE  Shape'
<1>1. None \notin Request
  BY NamesAssumption
<1> QED
  BY <1>1 DEF Shape, End, Phases, Tasks, NoTask, Waiting, Ended, Busy

LEMMA ShapeStep == Shape /\ [Next]_vars => Shape'
<1> SUFFICES ASSUME Shape, [Next]_vars PROVE Shape'
  OBVIOUS
<1>n. None \notin Request
  BY NamesAssumption
<1> USE DEF Requests, Selection, Ledgers, Durable, History
<1>1. ASSUME NEW r \in Request, Arrive(r) PROVE Shape'
  BY <1>1 DEF Shape, Arrive, Move, Phases, Tasks, NoTask, InFlightPhases,
              Waiting, Ended, Busy
<1>2. ASSUME NEW r \in Request, Check(r) PROVE Shape'
  BY <1>2 DEF Shape, Check, Move, Phases, Tasks, NoTask, InFlightPhases,
              Waiting, Ended, Busy
<1>3. ASSUME NEW r \in Request, Admit(r) PROVE Shape'
  BY <1>3 DEF Shape, Admit, Move, Phases, Tasks, NoTask, InFlightPhases,
              Waiting, Ended, Busy
<1>4. ASSUME NEW r \in Request, Lease(r) PROVE Shape'
  BY <1>4 DEF Shape, Lease, Move, Phases, Tasks, NoTask, InFlightPhases,
              Spawning, Waiting, Ended, Busy
<1>5. ASSUME NEW r \in Request, Refuse(r) PROVE Shape'
  BY <1>5, ShapeEnd DEF Shape, Refuse, Ended
<1>6. ASSUME NEW r \in Request, Spawn(r) PROVE Shape'
  BY <1>6 DEF Shape, Spawn, NextTask, Spawning, Move, Phases, Tasks, NoTask,
              InFlightPhases, Waiting, Ended, Busy
<1>7. ASSUME NEW r \in Request, NoSlot(r) PROVE Shape'
  BY <1>7, ShapeEnd DEF Shape, NoSlot, Spawning, Ended
<1>8. ASSUME NEW r \in Request, TaskFailed(r) PROVE Shape'
  BY <1>8, ShapeEnd DEF Shape, TaskFailed, Returned, Waiting, Ended
<1>9. ASSUME NEW r \in Request, Budgeted(r) PROVE Shape'
  BY <1>9 DEF Shape, Budgeted, Returned, Move, Phases, Tasks, NoTask, InFlightPhases,
              Spawning, Waiting, Ended, Busy
<1>10. ASSUME NEW r \in Request, SendJev(r) PROVE Shape'
  BY <1>10 DEF Shape, SendJev, Returned, Move, Phases, Tasks, NoTask, InFlightPhases,
               Waiting, Ended, Busy
<1>11. ASSUME NEW r \in Request, JevValidated(r) PROVE Shape'
  BY <1>11 DEF Shape, JevValidated, Move, Phases, Tasks, NoTask, InFlightPhases, Spawning,
               Waiting, Ended, Busy
<1>12. ASSUME NEW r \in Request, ResponseInvalid(r) PROVE Shape'
  BY <1>12, ShapeEnd DEF Shape, ResponseInvalid, Ended
<1>13. ASSUME NEW r \in Request, Fallback(r) PROVE Shape'
  BY <1>13, ShapeEnd DEF Shape, Fallback, Ended
<1>14. ASSUME NEW r \in Request, Decide(r) PROVE Shape'
  BY <1>14 DEF Shape, Decide, Returned, Move, Phases, Tasks, NoTask, InFlightPhases,
               Waiting, Ended, Busy
<1>15. ASSUME NEW r \in Request, ReadPending(r) PROVE Shape'
  BY <1>15, <1>n DEF Shape, ReadPending, Move, Phases, Tasks, NoTask, InFlightPhases,
                     Waiting, Ended, Busy
<1>16. ASSUME NEW r \in Request, Select(r) PROVE Shape'
  <2>1. phase[r] = "selecting"
    BY <1>16 DEF Shape, Select
  <2> QED
    BY <1>16, <1>n, <2>1 DEF Shape, Select, Move, Phases, Tasks, NoTask, InFlightPhases, Spawning, Waiting,
                             Ended, Busy
<1>17. ASSUME NEW r \in Request, SelectFails(r) PROVE Shape'
  BY <1>17, ShapeEnd DEF Shape, SelectFails, Ended
<1>18. ASSUME NEW r \in Request, SendHandler(r) PROVE Shape'
  BY <1>18 DEF Shape, SendHandler, Returned, Move, Phases, Tasks, NoTask, InFlightPhases,
               Waiting, Ended, Busy
<1>19. ASSUME NEW r \in Request, HandlerValidated(r) PROVE Shape'
  BY <1>19 DEF Shape, HandlerValidated, Move, Phases, Tasks, NoTask, InFlightPhases, Spawning, Waiting,
               Ended, Busy
<1>20. ASSUME NEW r \in Request, Complete(r) PROVE Shape'
  BY <1>20, ShapeEnd DEF Shape, Complete, Ended
<1>21. ASSUME NEW r \in Request, Timeout(r) PROVE Shape'
  BY <1>21, ShapeEnd DEF Shape, Timeout, Stalled, Waiting, Ended
<1>22. ASSUME NEW r \in Request, Cancel(r) PROVE Shape'
  BY <1>22, ShapeEnd DEF Shape, Cancel, Waiting, Ended
<1>23. ASSUME NEW r \in Request, NEW state \in {"ok", "failed"}, r \in Busy, TaskEnds(r, state)
       PROVE Shape'
  BY <1>23 DEF Shape, TaskEnds, Tasks, NoTask, Waiting, Ended, Busy
<1>24. ASSUME NEW r \in Request, RunTask(r) PROVE Shape'
  BY <1>24, <1>23 DEF RunTask, RunBudget, RunBegin, RunComplete, JournalFails, Running
<1>25. CASE Expire
  BY <1>25 DEF Shape, Expire, Busy
<1>26. CASE Crash
  BY <1>26, <1>n DEF Shape, Crash, InFlight, Phases, Tasks, NoTask, Waiting, Ended, Busy
<1>27. CASE Restart
  BY <1>27 DEF Shape, Restart, Busy
<1>28. CASE UNCHANGED vars
  BY <1>28 DEF Shape, vars, Busy
<1> QED
  BY <1>1, <1>2, <1>3, <1>4, <1>5, <1>6, <1>7, <1>8, <1>9, <1>10, <1>11, <1>12, <1>13,
     <1>14, <1>15, <1>16, <1>17, <1>18, <1>19, <1>20, <1>21, <1>22, <1>24, <1>25,
     <1>26, <1>27, <1>28 DEF Next, Proceed, Upstream

-----------------------------------------------------------------------------
(* What the journal holds for a request that is about to dispatch, and     *)
(* what has been validated for one that is about to complete.              *)
Begun ==
  \A r \in Request :
    /\ task[r] = [kind |-> "begin_jev", state |-> "ok"] => <<r, Jev>> \in pending
    /\ task[r] = [kind |-> "begin_handler", state |-> "ok"] => <<r, target[r]>> \in pending

Proven ==
  \A r \in Request :
    /\ phase[r] = "jev_valid" \/ task[r].kind = "complete_jev" => <<r, Jev>> \in validated
    /\ phase[r] = "handler_valid" \/ task[r].kind = "complete_handler" =>
         <<r, target[r]>> \in validated

Kept == Begun /\ Proven /\ UncertainRetained

LEMMA KeptInit == Init => Kept
BY DEF Init, Requests, Durable, History, Kept, Begun, Proven, UncertainRetained, NoTask

(* A way out of execute() takes nothing out of the journal. *)
LEMMA KeptEnd ==
  ASSUME Shape, Kept, NEW r \in Request, NEW how \in Ended, End(r, how), UNCHANGED History
  PROVE  Kept'
BY DEF Shape, Kept, Begun, Proven, UncertainRetained, End, Durable, History, Tasks, NoTask, Ended

(* A task of one request resolves only what was validated for it, and      *)
(* leaves the entries of the others alone.                                 *)
LEMMA KeptTask ==
  ASSUME Shape, Kept, NEW r \in Request, RunTask(r)
  PROVE  Kept'
<1> USE DEF Requests, Selection, Ledgers, Durable, History
<1>1. CASE RunBudget(r)
  <2>1. PICK state \in {"ok", "failed"} : TaskEnds(r, state)
    BY <1>1 DEF RunBudget
  <2>2. task[r].kind = "budget" /\ UNCHANGED pending
    BY <1>1 DEF RunBudget, Running
  <2> QED
    BY <2>1, <2>2 DEF Shape, Kept, Begun, Proven, UncertainRetained, TaskEnds, Tasks, NoTask
<1>2. CASE RunBegin(r)
  <2>1. PICK state \in {"ok", "failed"} :
          TaskEnds(r, state) /\ (state = "ok" => <<r, Destination(r)>> \in pending')
    BY <1>2 DEF RunBegin, JournalFails
  <2>2. task[r].kind \in {"begin_jev", "begin_handler"} /\ pending \subseteq pending'
    BY <1>2 DEF RunBegin, JournalFails, Running
  <2>3. task'[r] = NoTask \/ (task'[r].kind = task[r].kind /\ task'[r].state = state)
    BY <2>1 DEF Shape, TaskEnds, Tasks
  <2>4. \A q \in Request \ {r} : task'[q] = task[q]
    BY <2>1 DEF Shape, TaskEnds
  <2>5. UNCHANGED <<phase, target, sent, validated>>
    BY <2>1 DEF TaskEnds
  <2>6. Begun'
    BY <2>1, <2>2, <2>3, <2>4, <2>5 DEF Kept, Begun, Destination, NoTask
  <2>7. Proven'
    BY <2>2, <2>3, <2>4, <2>5 DEF Kept, Proven, NoTask
  <2>8. UncertainRetained'
    BY <2>2, <2>5 DEF Kept, UncertainRetained
  <2> QED
    BY <2>6, <2>7, <2>8 DEF Kept
<1>3. CASE RunComplete(r)
  <2>1. PICK state \in {"ok", "failed"} : TaskEnds(r, state)
    BY <1>3 DEF RunComplete, JournalFails
  <2>2. task[r].kind \in {"complete_jev", "complete_handler"} /\ r \in Busy
    BY <1>3 DEF RunComplete, Running
  <2>3. pending \ {<<r, Destination(r)>>} \subseteq pending'
    BY <1>3 DEF RunComplete, JournalFails
  <2>4. <<r, Destination(r)>> \in validated
    BY <2>2 DEF Kept, Proven, Destination
  <2>5. Begun'
    BY <2>1, <2>2, <2>3 DEF Shape, Kept, Begun, TaskEnds, Tasks, NoTask
  <2>6. Proven'
    BY <2>1 DEF Shape, Kept, Proven, TaskEnds, Tasks, NoTask
  <2>7. UncertainRetained'
    BY <2>1, <2>3, <2>4 DEF Kept, UncertainRetained, TaskEnds
  <2> QED
    BY <2>5, <2>6, <2>7 DEF Kept
<1> QED
  BY <1>1, <1>2, <1>3 DEF RunTask

LEMMA KeptStep == Shape /\ Kept /\ [Next]_vars => Kept'
<1> SUFFICES ASSUME Shape, Kept, [Next]_vars PROVE Kept'
  OBVIOUS
<1> USE DEF Requests, Selection, Ledgers, Durable, History
<1>1. ASSUME NEW r \in Request, Arrive(r) \/ Check(r) \/ Admit(r) \/ Lease(r) \/ ReadPending(r)
      PROVE Kept'
  BY <1>1 DEF Shape, Kept, Begun, Proven, UncertainRetained, Arrive, Check, Admit, Lease,
              ReadPending, Move
<1>2. ASSUME NEW r \in Request, Spawn(r) PROVE Kept'
  <2>1. /\ task' = [task EXCEPT ![r] = [kind |-> NextTask(r), state |-> "running"]]
        /\ phase' = [phase EXCEPT ![r] = NextTask(r)]
        /\ phase[r] \in Spawning
        /\ UNCHANGED <<target, pending, sent, validated>>
    BY <1>2 DEF Spawn, Move
  <2>2. /\ NextTask(r) \in Waiting
        /\ NextTask(r) = "complete_jev" => phase[r] = "jev_valid"
        /\ NextTask(r) = "complete_handler" => phase[r] = "handler_valid"
    BY <2>1 DEF NextTask, Spawning, Waiting
  <2>3. Begun'
    BY <2>1 DEF Shape, Kept, Begun
  <2>4. Proven'
    BY <2>1, <2>2 DEF Shape, Kept, Proven, Waiting
  <2> QED
    BY <2>1, <2>3, <2>4 DEF Kept, UncertainRetained
<1>3. ASSUME NEW r \in Request, Budgeted(r) \/ Decide(r) PROVE Kept'
  BY <1>3 DEF Shape, Kept, Begun, Proven, UncertainRetained, Budgeted, Decide, Move, NoTask
<1>4. ASSUME NEW r \in Request, SendJev(r) \/ SendHandler(r) PROVE Kept'
  <2>1. PICK e \in Endpoint \cup {None} : sent' = sent \cup {<<r, e>>} /\ <<r, e>> \in pending
    BY <1>4 DEF Shape, Kept, Begun, SendJev, SendHandler, Returned, Endpoint
  <2>2. /\ task' = [task EXCEPT ![r] = NoTask]
        /\ phase' = [phase EXCEPT ![r] = phase'[r]]
        /\ phase'[r] \notin {"jev_valid", "handler_valid"}
        /\ UNCHANGED <<target, pending, validated>>
    BY <1>4 DEF Shape, SendJev, SendHandler, Move
  <2>3. Begun'
    BY <2>2 DEF Shape, Kept, Begun, NoTask
  <2>4. Proven'
    BY <2>2 DEF Shape, Kept, Proven, NoTask
  <2> QED
    BY <2>1, <2>2, <2>3, <2>4 DEF Kept, UncertainRetained
<1>5. ASSUME NEW r \in Request, JevValidated(r) \/ HandlerValidated(r) PROVE Kept'
  BY <1>5 DEF Shape, Kept, Begun, Proven, UncertainRetained, JevValidated, HandlerValidated, Move
<1>6. ASSUME NEW r \in Request, Select(r) PROVE Kept'
  <2>1. phase[r] = "selecting" /\ task[r] = NoTask
    BY <1>6 DEF Shape, Select, Tasks, NoTask, Waiting, Ended
  <2> QED
    BY <1>6, <2>1 DEF Shape, Kept, Begun, Proven, UncertainRetained, Select, Move, NoTask
<1>7. ASSUME NEW r \in Request,
             Refuse(r) \/ NoSlot(r) \/ TaskFailed(r) \/ ResponseInvalid(r) \/ Fallback(r)
               \/ SelectFails(r) \/ Complete(r) \/ Timeout(r) \/ Cancel(r)
      PROVE Kept'
  BY <1>7, KeptEnd DEF Refuse, NoSlot, TaskFailed, ResponseInvalid, Fallback, SelectFails,
                       Complete, Timeout, Cancel, Ended
<1>8. CASE Expire
  BY <1>8 DEF Kept, Begun, Proven, UncertainRetained, Expire
<1>9. CASE Crash
  BY <1>9 DEF Shape, Kept, Begun, Proven, UncertainRetained, Crash, InFlight, NoTask
<1>10. CASE Restart
  BY <1>10 DEF Kept, Begun, Proven, UncertainRetained, Restart
<1>11. CASE UNCHANGED vars
  BY <1>11 DEF Kept, Begun, Proven, UncertainRetained, vars
<1> QED
  BY <1>1, <1>2, <1>3, <1>4, <1>5, <1>6, <1>7, <1>8, <1>9, <1>10, <1>11, KeptTask
  DEF Next, Proceed, Upstream

LEMMA ShapeInvariant == Spec => []Shape
<1> QED
  BY ShapeInit, ShapeStep, PTL DEF Spec

(* For any number of requests, endpoints and crashes: whatever was handed  *)
(* to an upstream and not validated is in the journal, at every moment.    *)
THEOREM UncertainIsRetained == Spec => []UncertainRetained
<1>1. Shape /\ Kept /\ [Next]_vars => Kept'
  BY KeptStep
<1>2. Kept => UncertainRetained
  BY DEF Kept
<1> QED
  BY KeptInit, ShapeInvariant, <1>1, <1>2, PTL DEF Spec

-----------------------------------------------------------------------------
(* The requests a paid call is set aside for: those whose call was granted *)
(* and that have not dispatched it yet, and those that have.               *)
Paid ==
  {r \in Request : \/ phase[r] \in {"budgeted", "begin_jev"}
                   \/ task[r] = [kind |-> "budget", state |-> "ok"]
                   \/ <<r, Jev>> \in sent}

PaidFor == spent \in Nat /\ Cardinality(Paid) <= spent

LEMMA PaidFinite == IsFiniteSet(Paid)
BY NamesAssumption, FS_Subset DEF Paid

LEMMA PaidInit == Init => PaidFor
<1> SUFFICES ASSUME Init PROVE PaidFor
  OBVIOUS
<1>1. Paid = {}
  BY DEF Init, Requests, History, Paid, NoTask
<1> QED
  BY <1>1, FS_EmptySet DEF Init, Durable, PaidFor

(* A step that sets no further call aside, and refunds none. *)
LEMMA PaidShrinks ==
  ASSUME PaidFor, Paid' \subseteq Paid, spent' \in {spent, spent + 1}
  PROVE  PaidFor'
<1>1. IsFiniteSet(Paid) /\ IsFiniteSet(Paid') /\ Cardinality(Paid') <= Cardinality(Paid)
  BY PaidFinite, FS_Subset
<1>2. Cardinality(Paid) \in Nat /\ Cardinality(Paid') \in Nat
  BY <1>1, FS_CardinalityType
<1> QED
  BY <1>1, <1>2 DEF PaidFor

(* The task of r is over, and it was not a granted budget task. *)
LEMMA PaidTask ==
  ASSUME Shape, NEW r \in Request, NEW state \in {"ok", "failed"}, TaskEnds(r, state),
         task[r].kind = "budget" => state = "failed"
  PROVE  Paid' \subseteq Paid
BY DEF Shape, TaskEnds, Requests, History, Paid, Tasks, NoTask

LEMMA PaidRun ==
  ASSUME Shape, PaidFor, NEW r \in Request, RunTask(r)
  PROVE  PaidFor'
<1>1. CASE RunBudget(r)
  <2>1. CASE spent' = spent + 1 /\ TaskEnds(r, "ok")
    <3>1. Paid' \subseteq Paid \cup {r}
      BY <2>1 DEF Shape, TaskEnds, Requests, History, Paid
    <3>2. IsFiniteSet(Paid \cup {r}) /\ Cardinality(Paid \cup {r}) <= Cardinality(Paid) + 1
      BY PaidFinite, FS_AddElement, FS_CardinalityType
    <3>3. Cardinality(Paid') <= Cardinality(Paid \cup {r})
      BY <3>1, <3>2, FS_Subset
    <3>4. /\ Cardinality(Paid) \in Nat
          /\ Cardinality(Paid \cup {r}) \in Nat
          /\ Cardinality(Paid') \in Nat
      BY <3>1, <3>2, PaidFinite, FS_Subset, FS_CardinalityType
    <3> QED
      BY <2>1, <3>2, <3>3, <3>4 DEF PaidFor
  <2>2. CASE spent' \in {spent, spent + 1} /\ TaskEnds(r, "failed")
    BY <2>2, PaidTask, PaidShrinks
  <2> QED
    BY <1>1, <2>1, <2>2 DEF RunBudget, Durable
<1>2. CASE RunBegin(r) \/ RunComplete(r)
  <2>1. PICK state \in {"ok", "failed"} : TaskEnds(r, state)
    BY <1>2 DEF RunBegin, RunComplete, JournalFails
  <2>2. task[r].kind # "budget" /\ spent' = spent
    BY <1>2 DEF RunBegin, RunComplete, Running, JournalFails, Durable
  <2> QED
    BY <2>1, <2>2, PaidTask, PaidShrinks
<1> QED
  BY <1>1, <1>2 DEF RunTask

LEMMA PaidStep == Shape /\ PaidFor /\ [Next]_vars => PaidFor'
<1> SUFFICES ASSUME Shape, PaidFor, [Next]_vars PROVE PaidFor'
  OBVIOUS
<1> USE DEF Requests, Selection, Ledgers, Durable, History
<1>1. ASSUME NEW r \in Request, Arrive(r) \/ Check(r) \/ Admit(r) \/ Lease(r) \/ ReadPending(r)
      PROVE Paid' \subseteq Paid /\ spent' = spent
  BY <1>1 DEF Shape, Paid, Arrive, Check, Admit, Lease, ReadPending, Move
<1>2. ASSUME NEW r \in Request, Spawn(r) PROVE Paid' \subseteq Paid /\ spent' = spent
  <2>1. /\ task' = [task EXCEPT ![r] = [kind |-> NextTask(r), state |-> "running"]]
        /\ phase' = [phase EXCEPT ![r] = NextTask(r)]
        /\ phase[r] \in Spawning
        /\ UNCHANGED <<spent, sent>>
    BY <1>2 DEF Spawn, Move
  <2>2. NextTask(r) = "begin_jev" => phase[r] = "budgeted"
    BY <2>1 DEF NextTask, Spawning
  <2>3. NextTask(r) # "budgeted"
    BY <2>1 DEF NextTask, Spawning
  <2> QED
    BY <2>1, <2>2, <2>3 DEF Shape, Paid
<1>3. ASSUME NEW r \in Request, Budgeted(r) \/ Decide(r) PROVE Paid' \subseteq Paid /\ spent' = spent
  BY <1>3 DEF Shape, Paid, Budgeted, Decide, Returned, Move, NoTask
<1>4. ASSUME NEW r \in Request, SendJev(r) \/ SendHandler(r)
      PROVE Paid' \subseteq Paid /\ spent' = spent
  <2>1. target[r] # Jev
    BY NamesAssumption DEF Shape
  <2> QED
    BY <1>4, <2>1 DEF Shape, Paid, SendJev, SendHandler, Move, NoTask
<1>5. ASSUME NEW r \in Request, JevValidated(r) \/ HandlerValidated(r) \/ Select(r)
      PROVE Paid' \subseteq Paid /\ spent' = spent
  BY <1>5 DEF Shape, Paid, JevValidated, HandlerValidated, Select, Move
<1>6. ASSUME NEW r \in Request, NEW how \in Ended, End(r, how), UNCHANGED History
      PROVE Paid' \subseteq Paid /\ spent' = spent
  BY <1>6 DEF Shape, Paid, End, Ended, NoTask
<1>7. ASSUME NEW r \in Request,
             Refuse(r) \/ NoSlot(r) \/ TaskFailed(r) \/ ResponseInvalid(r) \/ Fallback(r)
               \/ SelectFails(r) \/ Complete(r) \/ Timeout(r) \/ Cancel(r)
      PROVE Paid' \subseteq Paid /\ spent' = spent
  BY <1>6, <1>7 DEF Refuse, NoSlot, TaskFailed, ResponseInvalid, Fallback, SelectFails,
                    Complete, Timeout, Cancel, Ended
<1>8. CASE Expire \/ Restart \/ UNCHANGED vars
  <2>1. Paid' \subseteq Paid /\ spent' = spent
    BY <1>8 DEF Paid, Expire, Restart, vars
  <2> QED
    BY <2>1, PaidShrinks
<1>9. CASE Crash
  <2>1. Paid' \subseteq Paid /\ spent' = spent
    BY <1>9 DEF Shape, Paid, Crash, InFlight, NoTask
  <2> QED
    BY <2>1, PaidShrinks
<1> QED
  BY <1>1, <1>2, <1>3, <1>4, <1>5, <1>7, <1>8, <1>9, PaidRun, PaidShrinks
  DEF Next, Proceed, Upstream

SentTyped == sent \subseteq Request \X (Endpoint \cup {None})

LEMMA SentStep == Shape /\ SentTyped /\ [Next]_vars => SentTyped'
<1> SUFFICES ASSUME Shape, SentTyped, [Next]_vars PROVE SentTyped'
  OBVIOUS
<1>1. ASSUME NEW r \in Request, SendJev(r) \/ SendHandler(r) PROVE SentTyped'
  BY <1>1 DEF Shape, SentTyped, SendJev, SendHandler, Endpoint
<1>2. ASSUME NEW r \in Request, RunTask(r) PROVE sent' = sent
  BY <1>2 DEF RunTask, RunBudget, RunBegin, RunComplete, JournalFails, TaskEnds, History
<1>3. ASSUME NEW r \in Request,
             Arrive(r) \/ Check(r) \/ Admit(r) \/ Lease(r) \/ Refuse(r) \/ Spawn(r)
               \/ NoSlot(r) \/ TaskFailed(r) \/ Budgeted(r) \/ Fallback(r) \/ Decide(r)
               \/ ReadPending(r) \/ Select(r) \/ SelectFails(r) \/ Complete(r)
               \/ Upstream(r) \/ Timeout(r) \/ Cancel(r)
      PROVE sent' = sent
  BY <1>3 DEF Arrive, Check, Admit, Lease, Refuse, Spawn, NoSlot, TaskFailed, Budgeted,
              Fallback, Decide, ReadPending, Select, SelectFails, Complete, Upstream,
              JevValidated, HandlerValidated, ResponseInvalid, Timeout, Cancel, History
<1>4. CASE Expire \/ Crash \/ Restart \/ UNCHANGED vars
  BY <1>4 DEF SentTyped, Expire, Crash, Restart, vars, History
<1> QED
  BY <1>1, <1>2, <1>3, <1>4 DEF SentTyped, Next, Proceed

LEMMA PaidCoversSent == SentTyped /\ PaidFor => DispatchPaid
<1> SUFFICES ASSUME SentTyped, PaidFor PROVE DispatchPaid
  OBVIOUS
<1> DEFINE Senders == {r \in Request : <<r, Jev>> \in sent}
           first == [r \in Senders |-> <<r, Jev>>]
<1>1. IsFiniteSet(Senders) /\ Cardinality(Senders) <= Cardinality(Paid)
  <2>1. Senders \subseteq Paid
    BY DEF Paid
  <2> QED
    BY <2>1, PaidFinite, FS_Subset
<1>2. first \in Surjection(Senders, At(sent, Jev))
  BY DEF At, SentTyped, Surjection
<1>3. IsFiniteSet(At(sent, Jev)) /\ Cardinality(At(sent, Jev)) <= Cardinality(Senders)
  BY <1>1, <1>2, FS_Surjection
<1>4. /\ Cardinality(At(sent, Jev)) \in Nat
      /\ Cardinality(Senders) \in Nat
      /\ Cardinality(Paid) \in Nat
  BY <1>1, <1>3, PaidFinite, FS_CardinalityType
<1> QED
  BY <1>1, <1>3, <1>4 DEF DispatchPaid, PaidFor

(* For any number of requests, paid calls and crashes: no more decisions   *)
(* are dispatched than the durable budget has paid for.                    *)
THEOREM DispatchIsPaid == Spec => []DispatchPaid
<1>1. Init => SentTyped
  BY DEF Init, History, SentTyped
<1> QED
  BY <1>1, PaidInit, PaidCoversSent, SentStep, PaidStep, ShapeInvariant, PTL DEF Spec

-----------------------------------------------------------------------------
(* Counting a set of requests that gains or loses one. *)
LEMMA CountAdd ==
  ASSUME NEW S \in SUBSET Request, NEW r \in Request \ S
  PROVE  /\ Cardinality(S) \in Nat
         /\ Cardinality(S \cup {r}) = Cardinality(S) + 1
BY NamesAssumption, FS_Subset, FS_AddElement, FS_CardinalityType

LEMMA CountRemove ==
  ASSUME NEW S \in SUBSET Request, NEW r \in S
  PROVE  /\ Cardinality(S) \in Nat
         /\ Cardinality(S \ {r}) = Cardinality(S) - 1
BY NamesAssumption, FS_Subset, FS_RemoveElement, FS_CardinalityType

Counters == [{"offered", "completed", "failed", "cancelled"} -> Nat]
Counted == counters \in Counters /\ OutcomesAddUp

LEMMA CountedInit == Init => Counted
<1> SUFFICES ASSUME Init PROVE Counted
  OBVIOUS
<1>1. InFlight = {}
  BY DEF Init, Requests, InFlight, InFlightPhases, Waiting, Spawning
<1> QED
  BY <1>1, FS_EmptySet DEF Init, Zero, Counted, Counters, OutcomesAddUp

(* execute() ends for a request in flight: one outcome more, one fewer. *)
LEMMA CountedEnd ==
  ASSUME Shape, Counted, NEW r \in Request, phase[r] \in InFlightPhases,
         NEW how \in {"completed", "failed", "cancelled"}, End(r, how)
  PROVE  Counted'
<1>1. InFlight' = InFlight \ {r} /\ r \in InFlight
  BY DEF Shape, End, InFlight, InFlightPhases, Waiting, Spawning
<1>2. Cardinality(InFlight) \in Nat /\ Cardinality(InFlight') = Cardinality(InFlight) - 1
  BY <1>1, CountRemove DEF InFlight
<1>3. counters' \in Counters
  BY DEF Counted, Counters, End
<1>4. OutcomesAddUp'
  BY <1>2 DEF Counted, Counters, OutcomesAddUp, End
<1> QED
  BY <1>3, <1>4 DEF Counted

LEMMA CountedStep == Shape /\ Counted /\ [Next]_vars => Counted'
<1> SUFFICES ASSUME Shape, Counted, [Next]_vars PROVE Counted'
  OBVIOUS
<1> USE DEF Requests
<1>1. ASSUME NEW r \in Request, Arrive(r) PROVE Counted'
  <2>1. InFlight' = InFlight \cup {r} /\ r \notin InFlight
    BY <1>1 DEF Shape, Arrive, Move, InFlight, InFlightPhases, Waiting, Spawning
  <2>2. Cardinality(InFlight) \in Nat /\ Cardinality(InFlight') = Cardinality(InFlight) + 1
    BY <2>1, CountAdd DEF InFlight
  <2>3. counters' = [counters EXCEPT !["offered"] = @ + 1]
    BY <1>1 DEF Arrive
  <2>4. counters' \in Counters
    BY <2>3 DEF Counted, Counters
  <2>5. OutcomesAddUp'
    BY <2>2, <2>3 DEF Counted, Counters, OutcomesAddUp
  <2> QED
    BY <2>4, <2>5 DEF Counted
<1>2. ASSUME NEW r \in Request,
             Check(r) \/ Admit(r) \/ Lease(r) \/ Budgeted(r) \/ SendJev(r) \/ JevValidated(r)
               \/ Decide(r) \/ ReadPending(r) \/ Select(r) \/ SendHandler(r)
               \/ HandlerValidated(r)
      PROVE InFlight' = InFlight /\ counters' = counters
  <2>1. phase[r] \in InFlightPhases /\ phase' = [phase EXCEPT ![r] = phase'[r]]
        /\ phase'[r] \in InFlightPhases /\ counters' = counters
    BY <1>2 DEF Shape, Check, Admit, Lease, Budgeted, SendJev, JevValidated, Decide,
                ReadPending, Select, SendHandler, HandlerValidated, Move, InFlightPhases,
                Waiting, Spawning
  <2> QED
    BY <2>1 DEF Shape, InFlight
<1>3. ASSUME NEW r \in Request, Spawn(r) PROVE InFlight' = InFlight /\ counters' = counters
  <2>1. /\ phase[r] \in Spawning
        /\ phase' = [phase EXCEPT ![r] = NextTask(r)]
        /\ counters' = counters
    BY <1>3 DEF Spawn, Move
  <2>2. NextTask(r) \in Waiting
    BY <2>1 DEF NextTask, Spawning, Waiting
  <2> QED
    BY <2>1, <2>2 DEF Shape, InFlight, InFlightPhases
<1>4. ASSUME NEW r \in Request,
             Refuse(r) \/ NoSlot(r) \/ TaskFailed(r) \/ ResponseInvalid(r) \/ Fallback(r)
               \/ SelectFails(r) \/ Complete(r) \/ Timeout(r) \/ Cancel(r)
      PROVE Counted'
  <2>1. phase[r] \in InFlightPhases
    BY <1>4 DEF Shape, Refuse, NoSlot, TaskFailed, Returned, ResponseInvalid, Fallback, SelectFails,
                Complete, Timeout, Stalled, Cancel, InFlightPhases, Waiting, Spawning
  <2> QED
    BY <1>4, <2>1, CountedEnd DEF Refuse, NoSlot, TaskFailed, ResponseInvalid, Fallback,
                                  SelectFails, Complete, Timeout, Cancel
<1>5. ASSUME NEW r \in Request, RunTask(r) PROVE InFlight' = InFlight /\ counters' = counters
  BY <1>5 DEF RunTask, RunBudget, RunBegin, RunComplete, JournalFails, TaskEnds, InFlight
<1>6. CASE Crash
  <2>1. InFlight' = {} /\ counters' = Zero
    BY <1>6 DEF Shape, Crash, InFlight, InFlightPhases, Waiting, Spawning
  <2> QED
    BY <2>1, FS_EmptySet DEF Zero, Counted, Counters, OutcomesAddUp
<1>7. CASE Expire \/ Restart \/ UNCHANGED vars
  BY <1>7 DEF Expire, Restart, vars, Counted, OutcomesAddUp, InFlight
<1>8. InFlight' = InFlight /\ counters' = counters => Counted'
  BY DEF Counted, OutcomesAddUp
<1> QED
  BY <1>1, <1>2, <1>3, <1>4, <1>5, <1>6, <1>7, <1>8 DEF Next, Proceed, Upstream

(* For any number of requests: deadlines, cancellations and results race,  *)
(* and each request is still counted as exactly one outcome.               *)
THEOREM OutcomesAreExact == Spec => []OutcomesAddUp
<1>1. Counted => OutcomesAddUp
  BY DEF Counted
<1> QED
  BY <1>1, CountedInit, CountedStep, ShapeInvariant, PTL DEF Spec

-----------------------------------------------------------------------------
Reserved(h) == {r \in Request : phase[r] \in Reserving /\ target[r] = h}

Reservations ==
  awaiting \in [Handler -> Int] /\ \A h \in Handler : awaiting[h] = Cardinality(Reserved(h))

LEMMA ReservationsInit == Init => Reservations
<1> SUFFICES ASSUME Init PROVE Reservations
  OBVIOUS
<1>1. \A h \in Handler : Reserved(h) = {}
  BY DEF Init, Requests, Reserved, Reserving
<1> QED
  BY <1>1, FS_EmptySet DEF Init, Selection, Reservations

(* The reservation of r is dropped as r stops reserving. *)
LEMMA ReservationDropped ==
  ASSUME Shape, Reservations, NEW r \in Request, awaiting' = Released(r),
         target' = target, phase' = [phase EXCEPT ![r] = phase'[r]],
         phase'[r] \notin Reserving
  PROVE  Reservations'
<1>1. ASSUME NEW h \in Handler, phase[r] \in Reserving, target[r] = h
      PROVE  awaiting'[h] = Cardinality(Reserved(h)')
  <2>1. Reserved(h)' = Reserved(h) \ {r} /\ r \in Reserved(h)
    BY <1>1 DEF Shape, Reserved
  <2>2. Cardinality(Reserved(h)') = Cardinality(Reserved(h)) - 1
    BY <2>1, CountRemove DEF Reserved
  <2> QED
    BY <1>1, <2>2 DEF Reservations, Released
<1>2. ASSUME NEW h \in Handler, phase[r] \notin Reserving \/ target[r] # h
      PROVE  awaiting'[h] = Cardinality(Reserved(h)')
  <2>1. Reserved(h)' = Reserved(h)
    BY <1>2 DEF Shape, Reserved
  <2>2. awaiting'[h] = awaiting[h]
    BY <1>2 DEF Reservations, Released
  <2> QED
    BY <2>1, <2>2 DEF Reservations
<1>3. awaiting' \in [Handler -> Int]
  <2>1. CASE phase[r] \in Reserving
    <3>1. awaiting' = [awaiting EXCEPT ![target[r]] = awaiting[target[r]] - 1]
      BY <2>1 DEF Released
    <3>2. CASE target[r] \in Handler
      BY <3>1, <3>2 DEF Reservations
    <3>3. CASE target[r] \notin Handler
      BY <3>1, <3>3 DEF Reservations
    <3> QED
      BY <3>2, <3>3
  <2>2. CASE phase[r] \notin Reserving
    BY <2>2 DEF Reservations, Released
  <2> QED
    BY <2>1, <2>2
<1> QED
  BY <1>1, <1>2, <1>3 DEF Reservations

LEMMA ReservationsStep == Shape /\ Reservations /\ [Next]_vars => Reservations'
<1> SUFFICES ASSUME Shape, Reservations, [Next]_vars PROVE Reservations'
  OBVIOUS
<1> USE DEF Requests, Selection
<1>1. ASSUME awaiting' = awaiting, \A h \in Handler : Reserved(h)' = Reserved(h)
      PROVE  Reservations'
  BY <1>1 DEF Reservations
<1>2. ASSUME NEW r \in Request,
             Arrive(r) \/ Check(r) \/ Admit(r) \/ Lease(r) \/ Budgeted(r) \/ SendJev(r)
               \/ JevValidated(r) \/ Decide(r) \/ ReadPending(r) \/ HandlerValidated(r)
      PROVE Reservations'
  <2>1. /\ phase' = [phase EXCEPT ![r] = phase'[r]]
        /\ phase[r] \notin Reserving /\ phase'[r] \notin Reserving
        /\ UNCHANGED <<target, awaiting>>
    BY <1>2 DEF Shape, Arrive, Check, Admit, Lease, Budgeted, SendJev, JevValidated, Decide,
                ReadPending, HandlerValidated, Move, Reserving
  <2> QED
    BY <1>1, <2>1 DEF Shape, Reserved
<1>3. ASSUME NEW r \in Request, Spawn(r) PROVE Reservations'
  <2>1. /\ phase[r] \in Spawning
        /\ phase' = [phase EXCEPT ![r] = NextTask(r)]
        /\ UNCHANGED <<target, awaiting>>
    BY <1>3 DEF Spawn, Move
  <2>2. phase[r] \in Reserving <=> NextTask(r) \in Reserving
    BY <2>1 DEF NextTask, Spawning, Reserving
  <2> QED
    BY <1>1, <2>1, <2>2 DEF Shape, Reserved
<1>4. ASSUME NEW r \in Request, Select(r) PROVE Reservations'
  <2>1. PICK g \in Handler : /\ target' = [target EXCEPT ![r] = g]
                             /\ awaiting' = [awaiting EXCEPT ![g] = @ + 1]
    BY <1>4 DEF Select
  <2>2. phase[r] = "selecting" /\ phase' = [phase EXCEPT ![r] = "selected"]
    BY <1>4 DEF Shape, Select, Move
  <2>3. /\ Reserved(g)' = Reserved(g) \cup {r}
        /\ r \notin Reserved(g)
        /\ \A h \in Handler \ {g} : Reserved(h)' = Reserved(h)
    BY <2>1, <2>2 DEF Shape, Reserved, Reserving
  <2>4. Cardinality(Reserved(g)') = Cardinality(Reserved(g)) + 1
    BY <2>3, CountAdd DEF Reserved
  <2> QED
    BY <2>1, <2>3, <2>4 DEF Reservations
<1>5. ASSUME NEW r \in Request, SendHandler(r) PROVE Reservations'
  <2>1. /\ awaiting' = Released(r)
        /\ target' = target
        /\ phase' = [phase EXCEPT ![r] = phase'[r]]
        /\ phase'[r] \notin Reserving
    BY <1>5 DEF Shape, SendHandler, Move, Reserving
  <2> QED
    BY <2>1, ReservationDropped
<1>6. ASSUME NEW r \in Request, NEW how \in Ended, End(r, how) PROVE Reservations'
  <2>1. /\ awaiting' = Released(r)
        /\ target' = target
        /\ phase' = [phase EXCEPT ![r] = phase'[r]]
        /\ phase'[r] \notin Reserving
    BY <1>6 DEF Shape, End, Reserving, Ended
  <2> QED
    BY <2>1, ReservationDropped
<1>7. ASSUME NEW r \in Request,
             Refuse(r) \/ NoSlot(r) \/ TaskFailed(r) \/ ResponseInvalid(r) \/ Fallback(r)
               \/ SelectFails(r) \/ Complete(r) \/ Timeout(r) \/ Cancel(r)
      PROVE Reservations'
  BY <1>6, <1>7 DEF Refuse, NoSlot, TaskFailed, ResponseInvalid, Fallback, SelectFails,
                    Complete, Timeout, Cancel, Ended
<1>8. ASSUME NEW r \in Request, RunTask(r) PROVE Reservations'
  <2>1. UNCHANGED <<phase, target, awaiting>>
    BY <1>8 DEF RunTask, RunBudget, RunBegin, RunComplete, JournalFails, TaskEnds
  <2> QED
    BY <1>1, <2>1 DEF Reserved
<1>9. CASE Crash
  <2>1. \A h \in Handler : Reserved(h)' = {}
    BY <1>9 DEF Shape, Crash, InFlight, InFlightPhases, Waiting, Spawning, Reserved, Reserving
  <2>2. \A h \in Handler : Cardinality(Reserved(h)') = 0
    BY <2>1, FS_EmptySet
  <2>3. awaiting' = [h \in Handler |-> 0]
    BY <1>9 DEF Crash
  <2> QED
    BY <2>2, <2>3 DEF Reservations
<1>10. CASE Expire \/ Restart \/ UNCHANGED vars
  BY <1>1, <1>10 DEF Expire, Restart, vars, Reserved
<1> QED
  BY <1>2, <1>3, <1>4, <1>5, <1>7, <1>8, <1>9, <1>10 DEF Next, Proceed, Upstream

(* For any number of requests and endpoints: awaiting_journal counts the   *)
(* live requests between selection and begin, on every path out of them.   *)
THEOREM ReservationsAreExact == Spec => []AwaitingExact
<1>1. Reservations => AwaitingExact
  BY DEF Reservations, AwaitingExact, Reserved
<1> QED
  BY <1>1, ReservationsInit, ReservationsStep, ShapeInvariant, PTL DEF Spec

(* Both together, as the runs check them. *)
THEOREM CountersAreExact == Spec => []CountersExact
<1>1. AwaitingExact /\ OutcomesAddUp => CountersExact
  BY DEF CountersExact
<1> QED
  BY <1>1, ReservationsAreExact, OutcomesAreExact, PTL

-----------------------------------------------------------------------------
(* Where a handler is worked on there is one, and what waits for a         *)
(* response was handed over.                                               *)
HandlerPhases == {"selected", "begin_handler", "handler_sent", "handler_valid", "complete_handler"}
HandlerTasks == {"begin_handler", "complete_handler"}

Aimed ==
  \A r \in Request :
    /\ phase[r] \in HandlerPhases \/ task[r].kind \in HandlerTasks => target[r] \in Handler
    /\ phase[r] = "jev_sent" => <<r, Jev>> \in sent
    /\ phase[r] = "handler_sent" => <<r, target[r]>> \in sent

LEMMA AimedInit == Init => Aimed
BY DEF Init, Requests, History, Aimed, HandlerPhases, HandlerTasks, NoTask

LEMMA AimedEnd ==
  ASSUME Shape, Aimed, NEW r \in Request, NEW how \in Ended, End(r, how), UNCHANGED History
  PROVE  Aimed'
BY DEF Shape, Aimed, End, History, Tasks, NoTask, Ended, HandlerPhases, HandlerTasks

(* A task that ends says nothing new about where it was aimed. *)
LEMMA TaskEndsFrame ==
  ASSUME Shape, NEW r \in Request, RunTask(r)
  PROVE  /\ \A q \in Request : task'[q] = NoTask \/ task'[q].kind = task[q].kind
         /\ \A q \in Request \ {r} : task'[q] = task[q]
         /\ r \in Busy /\ r \notin Busy'
         /\ UNCHANGED <<up, crashes, Requests, Selection, Ledgers, counters, History>>
<1>1. PICK state \in {"ok", "failed"} : TaskEnds(r, state)
  BY DEF RunTask, RunBudget, RunBegin, RunComplete, JournalFails
<1>2. r \in Busy
  BY DEF RunTask, RunBudget, RunBegin, RunComplete, Running
<1>3. task' = [task EXCEPT ![r] =
                 IF phase[r] = task[r].kind THEN [task[r] EXCEPT !.state = state] ELSE NoTask]
  BY <1>1 DEF TaskEnds
<1>4. /\ \A q \in Request : task'[q] = NoTask \/ task'[q].kind = task[q].kind
      /\ \A q \in Request \ {r} : task'[q] = task[q]
  BY <1>3 DEF Shape, Tasks
<1>5. r \notin Busy'
  BY <1>3 DEF Shape, Tasks, Busy, NoTask
<1>6. QED
  BY <1>1, <1>2, <1>4, <1>5 DEF TaskEnds

LEMMA AimedStep == Shape /\ Aimed /\ [Next]_vars => Aimed'
<1> SUFFICES ASSUME Shape, Aimed, [Next]_vars PROVE Aimed'
  OBVIOUS
<1> USE DEF Requests, Selection, Ledgers, Durable, History
<1>1. ASSUME NEW r \in Request,
             Arrive(r) \/ Check(r) \/ Admit(r) \/ Lease(r) \/ Budgeted(r) \/ Decide(r)
               \/ ReadPending(r)
      PROVE Aimed'
  BY <1>1 DEF Shape, Aimed, Arrive, Check, Admit, Lease, Budgeted, Decide, ReadPending, Move,
              NoTask, HandlerPhases, HandlerTasks
<1>2. ASSUME NEW r \in Request, Spawn(r) PROVE Aimed'
  <2>1. /\ task' = [task EXCEPT ![r] = [kind |-> NextTask(r), state |-> "running"]]
        /\ phase' = [phase EXCEPT ![r] = NextTask(r)]
        /\ phase[r] \in Spawning
        /\ UNCHANGED <<target, sent>>
    BY <1>2 DEF Spawn, Move
  <2>2. /\ NextTask(r) \notin {"jev_sent", "handler_sent"}
        /\ NextTask(r) \in HandlerPhases => phase[r] \in HandlerPhases
        /\ NextTask(r) \in HandlerTasks => phase[r] \in HandlerPhases
    BY <2>1 DEF NextTask, Spawning, HandlerPhases, HandlerTasks
  <2>3. QED
    BY <2>1, <2>2 DEF Shape, Aimed
<1>3. ASSUME NEW r \in Request, SendJev(r) PROVE Aimed'
  BY <1>3 DEF Shape, Aimed, SendJev, Move, NoTask, HandlerPhases, HandlerTasks
<1>4. ASSUME NEW r \in Request, SendHandler(r) PROVE Aimed'
  BY <1>4 DEF Shape, Aimed, SendHandler, Move, NoTask, HandlerPhases, HandlerTasks
<1>5. ASSUME NEW r \in Request, JevValidated(r) \/ HandlerValidated(r) PROVE Aimed'
  BY <1>5 DEF Shape, Aimed, JevValidated, HandlerValidated, Move, HandlerPhases, HandlerTasks
<1>6. ASSUME NEW r \in Request, Select(r) PROVE Aimed'
  <2>1. PICK h \in Handler : target' = [target EXCEPT ![r] = h]
    BY <1>6 DEF Select
  <2>2. phase' = [phase EXCEPT ![r] = "selected"] /\ UNCHANGED <<task, sent>>
    BY <1>6 DEF Select, Move
  <2>3. QED
    BY <2>1, <2>2 DEF Shape, Aimed, HandlerPhases
<1>7. ASSUME NEW r \in Request,
             Refuse(r) \/ NoSlot(r) \/ TaskFailed(r) \/ ResponseInvalid(r) \/ Fallback(r)
               \/ SelectFails(r) \/ Complete(r) \/ Timeout(r) \/ Cancel(r)
      PROVE Aimed'
  BY <1>7, AimedEnd DEF Refuse, NoSlot, TaskFailed, ResponseInvalid, Fallback, SelectFails,
                        Complete, Timeout, Cancel, Ended
<1>8. ASSUME NEW r \in Request, RunTask(r) PROVE Aimed'
  BY <1>8, TaskEndsFrame DEF Aimed, NoTask, HandlerTasks
<1>9. CASE Crash
  BY <1>9 DEF Shape, Aimed, Crash, InFlight, InFlightPhases, NoTask, HandlerPhases, HandlerTasks,
              Waiting, Spawning
<1>10. CASE Expire \/ Restart \/ UNCHANGED vars
  BY <1>10 DEF Aimed, Expire, Restart, vars
<1> QED
  BY <1>1, <1>2, <1>3, <1>4, <1>5, <1>6, <1>7, <1>8, <1>9, <1>10
  DEF Next, Proceed, Upstream

-----------------------------------------------------------------------------
(* What the journal may still hold for a request, by where it is: one that *)
(* was answered has nothing there, and no task that could put it there.    *)
JevWork == {"begin_jev", "jev_sent", "jev_valid", "complete_jev"}
HandlerWork == {"begin_handler", "handler_sent", "handler_valid", "complete_handler"}
Resolved == {[kind |-> "complete_jev", state |-> "ok"], [kind |-> "complete_handler", state |-> "ok"]}

MayPend(r, e) ==
  \/ phase[r] \in Ended \ {"completed"}
  \/ phase[r] \in JevWork /\ e = Jev /\ task[r] \notin Resolved
  \/ phase[r] \in HandlerWork /\ e = target[r] /\ task[r] \notin Resolved

Accounted ==
  \A r \in Request :
    /\ \A e \in Endpoint : <<r, e>> \in pending => MayPend(r, e)
    /\ phase[r] = "completed" => task[r] = NoTask

LEMMA AccountedInit == Init => Accounted
BY DEF Init, Requests, Durable, Accounted

LEMMA AccountedEnd ==
  ASSUME Shape, Accounted, NEW r \in Request, NEW how \in Ended \ {"completed"}, End(r, how)
  PROVE  Accounted'
BY DEF Shape, Accounted, MayPend, End, Durable, Tasks, NoTask, Ended

(* A request in a phase of its own journal work moves on with its entry.   *)
LEMMA AccountedMove ==
  ASSUME Shape, Accounted, NEW r \in Request, NEW to,
         phase' = [phase EXCEPT ![r] = to], to # "completed",
         \A q \in Request \ {r} : task'[q] = task[q], UNCHANGED <<pending, target>>,
         \A e \in Endpoint : MayPend(r, e) => MayPend(r, e)'
  PROVE  Accounted'
<1>1. \A q \in Request \ {r} : phase'[q] = phase[q] /\ task'[q] = task[q] /\ target'[q] = target[q]
  BY DEF Shape
<1>2. \A q \in Request \ {r} : \A e \in Endpoint : MayPend(q, e)' <=> MayPend(q, e)
  BY <1>1 DEF MayPend
<1>3. phase'[r] = to
  BY DEF Shape
<1>4. QED
  BY <1>1, <1>2, <1>3 DEF Accounted

LEMMA AccountedAnswer ==
  ASSUME Shape, Accounted, NEW r \in Request, Fallback(r) \/ Complete(r)
  PROVE  Accounted'
<1> USE DEF Requests, Selection, Ledgers, Durable, History
<1>1. /\ task[r] \in Resolved /\ phase[r] \in {"complete_jev", "complete_handler"}
      /\ End(r, "completed")
  BY DEF Fallback, Complete, Returned, Resolved
<1>2. \A e \in Endpoint : <<r, e>> \notin pending
  BY <1>1 DEF Accounted, MayPend, Ended
<1>3. r \notin Busy
  BY <1>1 DEF Busy, Resolved
<1>4. /\ task' = [task EXCEPT ![r] = NoTask]
      /\ phase' = [phase EXCEPT ![r] = "completed"]
      /\ UNCHANGED <<pending, target>>
  BY <1>1, <1>3 DEF End
<1>5. \A q \in Request \ {r} : phase'[q] = phase[q] /\ task'[q] = task[q] /\ target'[q] = target[q]
  BY <1>4 DEF Shape
<1>6. \A q \in Request \ {r} : \A e \in Endpoint : MayPend(q, e)' <=> MayPend(q, e)
  BY <1>5 DEF MayPend
<1>7. task'[r] = NoTask
  BY <1>4 DEF Shape
<1>8. QED
  BY <1>2, <1>4, <1>5, <1>6, <1>7 DEF Accounted

(* The task of a request enters or resolves the entry of its own phase, or *)
(* that of a request that ended without an answer.                         *)
LEMMA AccountedTask ==
  ASSUME Shape, Aimed, Accounted, NEW r \in Request, RunTask(r)
  PROVE  Accounted'
<1> USE DEF Requests, Selection, Ledgers, Durable, History
<1>1. /\ \A q \in Request : task'[q] = NoTask \/ task'[q].kind = task[q].kind
      /\ \A q \in Request \ {r} : task'[q] = task[q]
      /\ r \in Busy /\ UNCHANGED <<phase, target>>
  BY TaskEndsFrame
<1>2. task[r] # NoTask /\ task[r] \notin Resolved /\ phase[r] # "completed"
  BY <1>1 DEF Busy, NoTask, Resolved, Accounted
<1>3. phase[r] = task[r].kind \/ phase[r] \in Ended \ {"completed"}
  BY <1>2 DEF Shape
<1>4. ASSUME NEW q \in Request \ {r}, NEW e \in Endpoint, <<q, e>> \in pending'
      PROVE  MayPend(q, e)'
  <2>1. <<q, e>> \in pending
    BY <1>4 DEF RunTask, RunBudget, RunBegin, RunComplete, JournalFails
  <2>2. QED
    BY <1>1, <2>1 DEF Accounted, MayPend
<1>5. ASSUME NEW e \in Endpoint, <<r, e>> \in pending' PROVE MayPend(r, e)'
  <2>1. CASE phase[r] \in Ended \ {"completed"}
    BY <1>1, <2>1 DEF MayPend
  <2>2. CASE phase[r] = task[r].kind
    <3>1. CASE RunBudget(r)
      <4>1. <<r, e>> \in pending /\ phase[r] = "budget"
        BY <1>5, <2>2, <3>1 DEF RunBudget, Running
      <4>2. QED
        BY <4>1 DEF Accounted, MayPend, JevWork, HandlerWork, Ended
    <3>2. CASE RunBegin(r)
      <4>1. phase[r] \in {"begin_jev", "begin_handler"} /\ task[r].kind = phase[r]
        BY <2>2, <3>2 DEF RunBegin, Running
      <4>2. pending' \subseteq pending \cup {<<r, Destination(r)>>}
        BY <3>2 DEF RunBegin, JournalFails
      <4>3. e = Destination(r) \/ MayPend(r, e)
        BY <1>5, <4>2 DEF Accounted
      <4>4. \/ phase[r] = "begin_jev" /\ e = Jev
            \/ phase[r] = "begin_handler" /\ e = target[r]
        BY <4>1, <4>3 DEF MayPend, Destination, JevWork, HandlerWork, Ended
      <4>5. task'[r] \notin Resolved
        BY <1>1, <4>1 DEF Resolved, NoTask
      <4>6. QED
        BY <1>1, <4>4, <4>5 DEF MayPend, JevWork, HandlerWork
    <3>3. CASE RunComplete(r)
      <4>1. phase[r] \in {"complete_jev", "complete_handler"} /\ task[r].kind = phase[r]
        BY <2>2, <3>3 DEF RunComplete, Running
      <4>2. pending' \subseteq pending
        BY <3>3 DEF RunComplete, JournalFails
      <4>3. MayPend(r, e)
        BY <1>5, <4>2 DEF Accounted
      <4>4. e = Destination(r)
        BY <4>1, <4>3 DEF MayPend, Destination, JevWork, HandlerWork, Ended
      <4>5. TaskEnds(r, "failed")
        <5>1. ~(pending' = pending \ {<<r, Destination(r)>>} /\ TaskEnds(r, "ok"))
          BY <1>5, <4>4
        <5>2. QED
          BY <3>3, <5>1 DEF RunComplete, JournalFails
      <4>6. task'[r] \notin Resolved
        BY <4>5 DEF Shape, TaskEnds, Resolved, NoTask, Tasks
      <4>7. QED
        BY <1>1, <4>3, <4>6 DEF MayPend
    <3>4. QED
      BY <3>1, <3>2, <3>3 DEF RunTask
  <2>3. QED
    BY <1>3, <2>1, <2>2
<1>6. \A q \in Request : phase'[q] = "completed" => task'[q] = NoTask
  BY <1>1, <1>2 DEF Accounted
<1>7. QED
  BY <1>4, <1>5, <1>6 DEF Accounted

LEMMA AccountedStep == Shape /\ Aimed /\ Accounted /\ [Next]_vars => Accounted'
<1> SUFFICES ASSUME Shape, Aimed, Accounted, [Next]_vars PROVE Accounted'
  OBVIOUS
<1> USE DEF Requests, Selection, Ledgers, Durable, History
<1>1. ASSUME NEW r \in Request,
             Arrive(r) \/ Check(r) \/ Admit(r) \/ Lease(r) \/ Budgeted(r) \/ Decide(r)
               \/ ReadPending(r)
      PROVE Accounted'
  <2>1. /\ phase' = [phase EXCEPT ![r] = phase'[r]] /\ phase'[r] # "completed"
        /\ \A q \in Request \ {r} : task'[q] = task[q]
        /\ UNCHANGED <<pending, target>>
    BY <1>1 DEF Shape, Arrive, Check, Admit, Lease, Budgeted, Decide, ReadPending, Move
  <2>2. \A e \in Endpoint : ~MayPend(r, e)
    BY <1>1 DEF MayPend, Arrive, Check, Admit, Lease, Budgeted, Decide, ReadPending, Returned,
                Resolved, JevWork, HandlerWork, Ended
  <2>3. QED
    BY <2>1, <2>2, AccountedMove
<1>2. ASSUME NEW r \in Request, Spawn(r) PROVE Accounted'
  <2>1. /\ task' = [task EXCEPT ![r] = [kind |-> NextTask(r), state |-> "running"]]
        /\ phase' = [phase EXCEPT ![r] = NextTask(r)]
        /\ phase[r] \in Spawning
        /\ UNCHANGED <<target, pending>>
    BY <1>2 DEF Spawn, Move
  <2>2. /\ \A q \in Request \ {r} : task'[q] = task[q]
        /\ task'[r] = [kind |-> NextTask(r), state |-> "running"]
        /\ phase'[r] = NextTask(r)
    BY <2>1 DEF Shape
  <2>3. task'[r] \notin Resolved
    BY <2>2 DEF Resolved
  <2>4. /\ NextTask(r) # "completed"
        /\ phase[r] \in JevWork => NextTask(r) \in JevWork
        /\ phase[r] \in HandlerWork => NextTask(r) \in HandlerWork
        /\ phase[r] \notin Ended
    BY <2>1 DEF NextTask, Spawning, JevWork, HandlerWork, Ended
  <2>5. \A e \in Endpoint : MayPend(r, e) => MayPend(r, e)'
    BY <2>1, <2>2, <2>3, <2>4 DEF MayPend
  <2>6. QED
    BY <2>1, <2>2, <2>4, <2>5, AccountedMove
<1>3. ASSUME NEW r \in Request, SendJev(r) \/ SendHandler(r) \/ JevValidated(r) \/ HandlerValidated(r)
      PROVE Accounted'
  <2>1. /\ phase' = [phase EXCEPT ![r] = phase'[r]] /\ phase'[r] # "completed"
        /\ \A q \in Request \ {r} : task'[q] = task[q]
        /\ UNCHANGED <<pending, target>>
    BY <1>3 DEF Shape, SendJev, SendHandler, JevValidated, HandlerValidated, Move
  <2>2. /\ task'[r] \in {NoTask, task[r]}
        /\ phase[r] \in JevWork => phase'[r] \in JevWork
        /\ phase[r] \in HandlerWork => phase'[r] \in HandlerWork
        /\ phase[r] \notin Ended
    BY <1>3 DEF Shape, SendJev, SendHandler, JevValidated, HandlerValidated, Move, JevWork,
                HandlerWork, Ended
  <2>3. task[r] \notin Resolved => task'[r] \notin Resolved
    BY <2>2 DEF Resolved, NoTask
  <2>4. \A e \in Endpoint : MayPend(r, e) => MayPend(r, e)'
    BY <2>1, <2>2, <2>3 DEF MayPend
  <2>5. QED
    BY <2>1, <2>4, AccountedMove
<1>4. ASSUME NEW r \in Request, Select(r) PROVE Accounted'
  <2>1. /\ phase' = [phase EXCEPT ![r] = "selected"] /\ phase[r] = "selecting"
        /\ \A q \in Request \ {r} : target'[q] = target[q]
        /\ UNCHANGED <<task, pending>>
    BY <1>4 DEF Shape, Select, Move
  <2>2. \A e \in Endpoint : <<r, e>> \notin pending
    BY <2>1 DEF Accounted, MayPend, JevWork, HandlerWork, Ended
  <2>3. \A q \in Request \ {r} : \A e \in Endpoint : MayPend(q, e)' <=> MayPend(q, e)
    BY <2>1 DEF Shape, MayPend
  <2>4. QED
    BY <2>1, <2>2, <2>3 DEF Shape, Accounted
<1>5. ASSUME NEW r \in Request,
             Refuse(r) \/ NoSlot(r) \/ TaskFailed(r) \/ ResponseInvalid(r)
               \/ SelectFails(r) \/ Timeout(r) \/ Cancel(r)
      PROVE Accounted'
  BY <1>5, AccountedEnd DEF Refuse, NoSlot, TaskFailed, ResponseInvalid, SelectFails,
                            Timeout, Cancel, Ended
<1>6. CASE Crash
  <2>1. \A q \in Request : task'[q] = NoTask
    BY <1>6 DEF Crash
  <2>2. \A q \in Request : phase'[q] = "lost" \/ (phase'[q] = phase[q] /\ q \notin InFlight)
    BY <1>6 DEF Shape, Crash
  <2>3. \A q \in Request : q \notin InFlight => phase[q] \notin JevWork \cup HandlerWork
    BY DEF InFlight, InFlightPhases, JevWork, HandlerWork, Waiting, Spawning
  <2>4. ASSUME NEW q \in Request, NEW e \in Endpoint, <<q, e>> \in pending' PROVE MayPend(q, e)'
    <3>1. <<q, e>> \in pending
      BY <1>6, <2>4 DEF Crash
    <3>2. QED
      BY <2>2, <2>3, <3>1 DEF Accounted, MayPend, Ended
  <2>5. QED
    BY <2>1, <2>4 DEF Accounted
<1>7. CASE Expire \/ Restart \/ UNCHANGED vars
  <2>1. UNCHANGED <<phase, task, target, pending>>
    BY <1>7 DEF Expire, Restart, vars
  <2>2. QED
    BY <2>1 DEF Accounted, MayPend
<1> QED
  BY <1>1, <1>2, <1>3, <1>4, <1>5, <1>6, <1>7, AccountedTask, AccountedAnswer
  DEF Next, Proceed, Upstream

LEMMA AimedInvariant == Spec => []Aimed
BY AimedInit, AimedStep, ShapeInvariant, PTL DEF Spec

(* For any number of requests, handlers and crashes: a client that got an  *)
(* answer left no entry in the journal, in this process or for the next.   *)
THEOREM AnswersAreResolved == Spec => []AnsweredIsResolved
<1>1. Accounted /\ UncertainRetained => AnsweredIsResolved
  <2>1. SUFFICES ASSUME Accounted, UncertainRetained, NEW r \in Request, phase[r] = "completed",
                        NEW e \in Endpoint
                 PROVE  <<r, e>> \notin pending /\ (<<r, e>> \in sent => <<r, e>> \in validated)
    BY DEF AnsweredIsResolved
  <2>2. ~MayPend(r, e)
    BY <2>1 DEF MayPend, JevWork, HandlerWork, Ended
  <2>3. QED
    BY <2>1, <2>2 DEF Accounted, UncertainRetained
<1>2. QED
  BY <1>1, AccountedInit, AccountedStep, AimedInvariant, ShapeInvariant, UncertainIsRetained, PTL
  DEF Spec

-----------------------------------------------------------------------------
(* The sets of attempts: they are attempts of requests at endpoints, and   *)
(* nothing is validated that was not sent.                                 *)
Attempts == Request \X Endpoint

Attempted ==
  /\ unconfirmed \subseteq Attempts /\ lapsed \subseteq Attempts
  /\ pending \subseteq Attempts
  /\ validated \subseteq sent /\ sent \subseteq Attempts

LEMMA AbandonedTyped ==
  ASSUME Shape, Aimed, NEW r \in Request
  PROVE  Abandoned(r) \subseteq Attempts
<1>1. CASE phase[r] = "jev_sent"
  BY <1>1 DEF Abandoned, Attempts, Endpoint
<1>2. CASE phase[r] = "handler_sent"
  <2>1. target[r] \in Handler
    BY <1>2 DEF Aimed, HandlerPhases
  <2>2. phase[r] # "jev_sent"
    BY <1>2
  <2>3. Abandoned(r) = {<<r, target[r]>>}
    BY <1>2, <2>2 DEF Abandoned
  <2>4. QED
    BY <2>1, <2>3 DEF Attempts, Endpoint
<1>3. CASE phase[r] \notin {"jev_sent", "handler_sent"}
  <2>1. Abandoned(r) = {}
    BY <1>3 DEF Abandoned
  <2>2. QED
    BY <2>1
<1>4. QED
  BY <1>1, <1>2, <1>3

LEMMA AttemptedStep == Shape /\ Aimed /\ Attempted /\ [Next]_vars => Attempted'
<1> SUFFICES ASSUME Shape, Aimed, Attempted, [Next]_vars PROVE Attempted'
  OBVIOUS
<1> USE DEF Requests, Selection, Ledgers, Durable, History
<1>1. ASSUME NEW r \in Request,
             Arrive(r) \/ Check(r) \/ Admit(r) \/ Lease(r) \/ Budgeted(r) \/ Decide(r)
               \/ ReadPending(r) \/ Select(r) \/ Spawn(r)
      PROVE Attempted'
  <2>1. UNCHANGED <<unconfirmed, lapsed, pending, sent, validated>>
    BY <1>1 DEF Arrive, Check, Admit, Lease, Budgeted, Decide, ReadPending, Select, Spawn
  <2>2. QED
    BY <2>1 DEF Attempted
<1>2. ASSUME NEW r \in Request, NEW how \in Ended, End(r, how), UNCHANGED History PROVE Attempted'
  BY <1>2, AbandonedTyped DEF Attempted, End
<1>3. ASSUME NEW r \in Request,
             Refuse(r) \/ NoSlot(r) \/ TaskFailed(r) \/ ResponseInvalid(r) \/ Fallback(r)
               \/ SelectFails(r) \/ Complete(r) \/ Timeout(r) \/ Cancel(r)
      PROVE Attempted'
  BY <1>2, <1>3 DEF Refuse, NoSlot, TaskFailed, ResponseInvalid, Fallback, SelectFails,
                    Complete, Timeout, Cancel, Ended
<1>4. ASSUME NEW r \in Request, SendJev(r) \/ SendHandler(r) PROVE Attempted'
  <2>1. PICK e \in Endpoint : sent' = sent \cup {<<r, e>>}
    BY <1>4 DEF Aimed, SendJev, SendHandler, Endpoint, HandlerPhases
  <2>2. UNCHANGED <<unconfirmed, lapsed, pending, validated>>
    BY <1>4 DEF SendJev, SendHandler
  <2>3. QED
    BY <2>1, <2>2 DEF Attempted, Attempts
<1>5. ASSUME NEW r \in Request, JevValidated(r) \/ HandlerValidated(r) PROVE Attempted'
  <2>1. PICK p \in sent : validated' = validated \cup {p}
    BY <1>5 DEF Aimed, JevValidated, HandlerValidated
  <2>2. UNCHANGED <<unconfirmed, lapsed, pending, sent>>
    BY <1>5 DEF JevValidated, HandlerValidated
  <2>3. QED
    BY <2>1, <2>2 DEF Attempted
<1>6. ASSUME NEW r \in Request, RunTask(r) PROVE Attempted'
  <2>1. UNCHANGED <<unconfirmed, lapsed, sent, validated>>
    BY <1>6, TaskEndsFrame
  <2>2. pending' \subseteq Attempts
    <3>1. CASE RunBegin(r)
      <4>1. Destination(r) \in Endpoint
        BY <3>1 DEF RunBegin, Running, Destination, Aimed, Endpoint, HandlerTasks
      <4>2. pending' \subseteq pending \cup {<<r, Destination(r)>>}
        BY <3>1 DEF RunBegin, JournalFails
      <4>3. QED
        BY <4>1, <4>2 DEF Attempted, Attempts
    <3>2. CASE RunBudget(r) \/ RunComplete(r)
      <4>1. pending' \subseteq pending
        BY <3>2 DEF RunBudget, RunComplete, JournalFails
      <4>2. QED
        BY <4>1 DEF Attempted
    <3>3. QED
      BY <1>6, <3>1, <3>2 DEF RunTask
  <2>3. QED
    BY <2>1, <2>2 DEF Attempted
<1>7. CASE Crash
  BY <1>7 DEF Attempted, Crash
<1>8. CASE Expire
  BY <1>8 DEF Attempted, Expire
<1>9. CASE Restart \/ UNCHANGED vars
  BY <1>9 DEF Attempted, Restart, vars
<1> QED
  BY <1>1, <1>3, <1>4, <1>5, <1>6, <1>7, <1>8, <1>9 DEF Next, Proceed, Upstream

LEMMA AttemptedInvariant == Spec => []Attempted
<1>1. Init => Attempted
  BY DEF Init, Ledgers, Durable, History, Attempted
<1>2. QED
  BY <1>1, AttemptedStep, AimedInvariant, ShapeInvariant, PTL DEF Spec

(* The attempts of one endpoint are no more than the requests. *)
LEMMA AtFinite ==
  ASSUME NEW S \in SUBSET Attempts, NEW e \in Endpoint
  PROVE  IsFiniteSet(At(S, e)) /\ Cardinality(At(S, e)) \in Nat
<1>1. IsFiniteSet(Request \X {e})
  BY NamesAssumption, FS_Singleton, FS_Product
<1>2. At(S, e) \subseteq Request \X {e}
  BY DEF At, Attempts
<1>3. QED
  BY <1>1, <1>2, FS_Subset, FS_CardinalityType

LEMMA AtGrows ==
  ASSUME NEW S \in SUBSET Attempts, NEW T \in SUBSET Attempts, NEW e \in Endpoint, NEW p,
         T \subseteq S \cup {p}
  PROVE  /\ Cardinality(At(T, e)) <= Cardinality(At(S, e)) + 1
         /\ p[2] # e => Cardinality(At(T, e)) <= Cardinality(At(S, e))
         /\ p \in S => Cardinality(At(T, e)) <= Cardinality(At(S, e))
<1>1. /\ IsFiniteSet(At(S, e)) /\ Cardinality(At(S, e)) \in Nat
      /\ IsFiniteSet(At(T, e)) /\ Cardinality(At(T, e)) \in Nat
  BY AtFinite
<1>2. /\ IsFiniteSet(At(S, e) \cup {p})
      /\ Cardinality(At(S, e) \cup {p}) <= Cardinality(At(S, e)) + 1
      /\ Cardinality(At(S, e) \cup {p}) \in Nat
  <2> HIDE DEF At
  <2>1. /\ IsFiniteSet(At(S, e) \cup {p})
        /\ Cardinality(At(S, e) \cup {p})
             = IF p \in At(S, e) THEN Cardinality(At(S, e)) ELSE Cardinality(At(S, e)) + 1
    BY <1>1, FS_AddElement
  <2>2. QED
    BY <1>1, <2>1
<1>3. At(T, e) \subseteq At(S, e) \cup {p}
  BY DEF At
<1>4. Cardinality(At(T, e)) <= Cardinality(At(S, e)) + 1
  BY <1>1, <1>2, <1>3, FS_Subset
<1>5. ASSUME p[2] # e \/ p \in S PROVE Cardinality(At(T, e)) <= Cardinality(At(S, e))
  <2>1. At(T, e) \subseteq At(S, e)
    BY <1>5 DEF At
  <2>2. QED
    BY <1>1, <2>1, FS_Subset
<1>6. QED
  BY <1>4, <1>5

LEMMA AtShrinks ==
  ASSUME NEW S \in SUBSET Attempts, NEW T \in SUBSET S, NEW e \in Endpoint
  PROVE  Cardinality(At(T, e)) <= Cardinality(At(S, e))
<1>1. At(T, e) \subseteq At(S, e)
  BY DEF At
<1>2. QED
  BY <1>1, AtFinite, FS_Subset

(* The journal: begin() looks at the count under the writer's mutex, so it *)
(* does not matter how old the count was that admission or selection used. *)
JournalBound == \A e \in Endpoint : Cardinality(At(pending, e)) <= AdmissionLimit

LEMMA JournalBoundStep ==
  Shape /\ Aimed /\ Attempted /\ Attempted' /\ JournalBound /\ [Next]_vars => JournalBound'
<1> SUFFICES ASSUME Shape, Aimed, Attempted, Attempted', JournalBound, [Next]_vars
             PROVE  JournalBound'
  OBVIOUS
<1> USE DEF Requests, Selection, Ledgers, Durable, History
<1>1. ASSUME pending' \subseteq pending PROVE JournalBound'
  <2>1. ASSUME NEW e \in Endpoint PROVE Cardinality(At(pending', e)) <= AdmissionLimit
    <3>1. /\ Cardinality(At(pending', e)) <= Cardinality(At(pending, e))
          /\ Cardinality(At(pending, e)) <= AdmissionLimit
          /\ Cardinality(At(pending, e)) \in Nat /\ Cardinality(At(pending', e)) \in Nat
      BY <1>1, AtShrinks, AtFinite DEF Attempted, JournalBound
    <3>2. QED
      BY <3>1, LimitsAssumption
  <2>2. QED
    BY <2>1 DEF JournalBound, At
<1>2. ASSUME NEW r \in Request, RunBegin(r) PROVE JournalBound'
  <2>1. \/ UNCHANGED pending
        \/ /\ Cardinality(At(pending, Destination(r))) < AdmissionLimit
           /\ pending' \subseteq pending \cup {<<r, Destination(r)>>}
    BY <1>2 DEF RunBegin, JournalFails
  <2>2. CASE UNCHANGED pending
    BY <1>1, <2>2
  <2>3. CASE /\ Cardinality(At(pending, Destination(r))) < AdmissionLimit
             /\ pending' \subseteq pending \cup {<<r, Destination(r)>>}
    <3>1. ASSUME NEW e \in Endpoint PROVE Cardinality(At(pending', e)) <= AdmissionLimit
      <4>1. /\ Cardinality(At(pending', e)) <= Cardinality(At(pending, e)) + 1
            /\ e # Destination(r) => Cardinality(At(pending', e)) <= Cardinality(At(pending, e))
        <5>1. <<r, Destination(r)>>[2] = Destination(r)
          OBVIOUS
        <5>2. pending \in SUBSET Attempts /\ pending' \in SUBSET Attempts
          BY DEF Attempted
        <5>3. QED
          BY <2>3, <5>1, <5>2, AtGrows
      <4>2. /\ Cardinality(At(pending, e)) <= AdmissionLimit
            /\ Cardinality(At(pending, e)) \in Nat /\ Cardinality(At(pending', e)) \in Nat
        BY AtFinite DEF Attempted, JournalBound
      <4>3. CASE e = Destination(r)
        BY <2>3, <4>1, <4>2, <4>3, LimitsAssumption
      <4>4. CASE e # Destination(r)
        BY <4>1, <4>2, <4>4, LimitsAssumption
      <4>5. QED
        BY <4>3, <4>4
    <3>2. QED
      BY <3>1 DEF JournalBound, At
  <2>4. QED
    BY <2>1, <2>2, <2>3
<1>3. ASSUME NEW r \in Request, RunBudget(r) \/ RunComplete(r) PROVE pending' \subseteq pending
  BY <1>3 DEF RunBudget, RunComplete, JournalFails
<1>4. ASSUME NEW r \in Request, Arrive(r) \/ Proceed(r) \/ Upstream(r) \/ Timeout(r) \/ Cancel(r)
      PROVE pending' = pending
  BY <1>4 DEF Arrive, Proceed, Check, Admit, Lease, Refuse, Spawn, NoSlot, TaskFailed, Budgeted,
              SendJev, Fallback, Decide, ReadPending, Select, SelectFails, SendHandler, Complete,
              Upstream, JevValidated, HandlerValidated, ResponseInvalid, Timeout, Cancel, End
<1>5. CASE Expire \/ Crash \/ Restart \/ UNCHANGED vars
  BY <1>5, <1>1 DEF Expire, Crash, Restart, vars
<1> QED
  BY <1>1, <1>2, <1>3, <1>4, <1>5 DEF Next, RunTask

LEMMA JournalBoundInvariant == Spec => []JournalBound
<1>1. Init => JournalBound
  <2>1. SUFFICES ASSUME Init, NEW e \in Endpoint PROVE Cardinality(At(pending, e)) <= AdmissionLimit
    BY DEF JournalBound
  <2>2. At(pending, e) = {}
    BY <2>1 DEF Init, Durable, At
  <2>3. QED
    BY <2>2, FS_EmptySet, LimitsAssumption
<1>2. QED
  BY <1>1, JournalBoundStep, AttemptedInvariant, AimedInvariant, ShapeInvariant, PTL DEF Spec

-----------------------------------------------------------------------------
(* The ledgers: one attempt of e more at most, and only after the ledger   *)
(* was looked at in the same step.                                         *)
LedgerBound == \A e \in Endpoint : Charged(e) <= AdmissionLimit /\ Tracked(e) <= TrackingLimit

LEMMA ActiveCount ==
  ASSUME NEW e
  PROVE  IsFiniteSet(Active(e)) /\ Cardinality(Active(e)) \in Nat /\ Active(e) \subseteq Request
<1>1. Active(e) \subseteq Request
  BY DEF Active
<1>2. QED
  BY <1>1, NamesAssumption, FS_Subset, FS_CardinalityType

LEMMA ActiveCountNext ==
  ASSUME NEW e
  PROVE  IsFiniteSet(Active(e)') /\ Cardinality(Active(e)') \in Nat /\ Active(e)' \subseteq Request
<1>1. Active(e)' \subseteq Request
  BY DEF Active
<1>2. QED
  BY <1>1, NamesAssumption, FS_Subset, FS_CardinalityType

(* A step of one request leaves the attempts of the others alone. *)
LEMMA ActiveFrame ==
  ASSUME Shape, NEW r \in Request, NEW e,
         phase' = [phase EXCEPT ![r] = phase'[r]],
         \A q \in Request \ {r} : target'[q] = target[q]
  PROVE  Active(e)' \ {r} = Active(e) \ {r}
<1>1. \A q \in Request \ {r} : phase'[q] = phase[q]
  BY DEF Shape
<1>2. QED
  BY <1>1 DEF Active

(* No attempt joins the ledger of e: none is active that was not, or the   *)
(* one that stops being active stays charged as unconfirmed.               *)
LEMMA LedgerKeeps ==
  ASSUME Attempted, Attempted', NEW e \in Endpoint,
         Charged(e) <= AdmissionLimit, Tracked(e) <= TrackingLimit,
         Active(e)' \subseteq Active(e), lapsed' \subseteq lapsed,
         \/ unconfirmed' \subseteq unconfirmed
         \/ \E r \in Active(e) : /\ Active(e)' = Active(e) \ {r}
                                 /\ unconfirmed' \subseteq unconfirmed \cup {<<r, e>>}
  PROVE  Charged(e)' <= AdmissionLimit /\ Tracked(e)' <= TrackingLimit
<1>1. /\ Cardinality(Active(e)) \in Nat /\ Cardinality(Active(e)') \in Nat
      /\ IsFiniteSet(Active(e)) /\ Active(e) \subseteq Request
  BY ActiveCount, ActiveCountNext
<1>2. /\ unconfirmed \in SUBSET Attempts /\ unconfirmed' \in SUBSET Attempts
      /\ lapsed \in SUBSET Attempts /\ lapsed' \in SUBSET Attempts
  BY DEF Attempted
<1>3. /\ Cardinality(At(unconfirmed, e)) \in Nat /\ Cardinality(At(unconfirmed', e)) \in Nat
      /\ Cardinality(At(lapsed, e)) \in Nat /\ Cardinality(At(lapsed', e)) \in Nat
  BY <1>2, AtFinite
<1>4. Cardinality(At(lapsed', e)) <= Cardinality(At(lapsed, e))
  BY <1>2, AtShrinks
<1>5. Cardinality(Active(e)') + Cardinality(At(unconfirmed', e))
        <= Cardinality(Active(e)) + Cardinality(At(unconfirmed, e))
  <2>1. CASE unconfirmed' \subseteq unconfirmed
    <3>1. Cardinality(At(unconfirmed', e)) <= Cardinality(At(unconfirmed, e))
      BY <1>2, <2>1, AtShrinks
    <3>2. Cardinality(Active(e)') <= Cardinality(Active(e))
      BY <1>1, FS_Subset
    <3>3. QED
      BY <1>1, <1>3, <3>1, <3>2
  <2>2. CASE \E r \in Active(e) : /\ Active(e)' = Active(e) \ {r}
                                  /\ unconfirmed' \subseteq unconfirmed \cup {<<r, e>>}
    <3>1. PICK r \in Active(e) : /\ Active(e)' = Active(e) \ {r}
                                 /\ unconfirmed' \subseteq unconfirmed \cup {<<r, e>>}
      BY <2>2
    <3>2. Cardinality(Active(e)') = Cardinality(Active(e)) - 1
      BY <1>1, <3>1, CountRemove
    <3>3. Cardinality(At(unconfirmed', e)) <= Cardinality(At(unconfirmed, e)) + 1
      BY <1>2, <3>1, AtGrows
    <3>4. QED
      BY <1>1, <1>3, <3>2, <3>3
  <2>3. QED
    BY <2>1, <2>2
<1>6. /\ Charged(e) = Cardinality(Active(e)) + Cardinality(At(unconfirmed, e))
      /\ Tracked(e) = Charged(e) + Cardinality(At(lapsed, e))
  BY DEF Charged, Tracked
<1>7. /\ Charged(e)' = Cardinality(Active(e)') + Cardinality(At(unconfirmed', e))
      /\ Tracked(e)' = Charged(e)' + Cardinality(At(lapsed', e))
  BY DEF Charged, Tracked, At
<1>8. Charged(e)' <= Charged(e) /\ Charged(e) \in Nat /\ Charged(e)' \in Nat
  BY <1>1, <1>3, <1>5, <1>6, <1>7
<1>9. Tracked(e)' <= Tracked(e) /\ Tracked(e) \in Nat /\ Tracked(e)' \in Nat
  BY <1>3, <1>4, <1>6, <1>7, <1>8
<1>10. QED
  BY <1>8, <1>9, LimitsAssumption

(* An attempt joins the ledger of e, which has room for it. *)
LEMMA LedgerAdmits ==
  ASSUME Attempted, NEW e \in Endpoint, NEW r \in Request, Admits(e),
         Active(e)' \subseteq Active(e) \cup {r}, unconfirmed' = unconfirmed, lapsed' = lapsed
  PROVE  Charged(e)' <= AdmissionLimit /\ Tracked(e)' <= TrackingLimit
<1>1. /\ Cardinality(Active(e)) \in Nat /\ Cardinality(Active(e)') \in Nat
      /\ IsFiniteSet(Active(e))
  BY ActiveCount, ActiveCountNext
<1>2. /\ Cardinality(At(unconfirmed, e)) \in Nat /\ Cardinality(At(lapsed, e)) \in Nat
  BY AtFinite DEF Attempted
<1>3. Cardinality(Active(e)') <= Cardinality(Active(e)) + 1
  <2>1. IsFiniteSet(Active(e) \cup {r})
        /\ Cardinality(Active(e) \cup {r})
             = IF r \in Active(e) THEN Cardinality(Active(e)) ELSE Cardinality(Active(e)) + 1
    BY <1>1, FS_AddElement
  <2>2. Cardinality(Active(e)') <= Cardinality(Active(e) \cup {r})
    BY <2>1, FS_Subset
  <2>3. QED
    BY <1>1, <2>1, <2>2
<1>4. /\ Charged(e) = Cardinality(Active(e)) + Cardinality(At(unconfirmed, e))
      /\ Tracked(e) = Charged(e) + Cardinality(At(lapsed, e))
      /\ Charged(e)' = Cardinality(Active(e)') + Cardinality(At(unconfirmed, e))
      /\ Tracked(e)' = Charged(e)' + Cardinality(At(lapsed, e))
  BY DEF Charged, Tracked, At
<1>5. Charged(e)' <= Charged(e) + 1 /\ Charged(e) \in Nat /\ Charged(e)' \in Nat
  BY <1>1, <1>2, <1>3, <1>4
<1>6. Tracked(e)' <= Tracked(e) + 1 /\ Tracked(e) \in Nat /\ Tracked(e)' \in Nat
  BY <1>2, <1>4, <1>5
<1>7. QED
  BY <1>5, <1>6, LimitsAssumption DEF Admits

(* What selection remembers of the journal, the selector, and the process. *)
Remembers ==
  /\ selector \in Request \cup {None}
  /\ view \in [Handler -> Nat]
  /\ crashes \in 0 .. MaxCrashes
  /\ spent \in 0 .. MaxCalls
  /\ journal \in {"ok", "failed", "torn"}

Flags == up \in BOOLEAN /\ budgetOk \in BOOLEAN

LEMMA RemembersStep == Attempted /\ Remembers /\ [Next]_vars => Remembers'
<1> SUFFICES ASSUME Attempted, Remembers, [Next]_vars PROVE Remembers'
  OBVIOUS
<1> USE DEF Requests, Selection, Ledgers, Durable, History
<1>1. ASSUME UNCHANGED <<selector, view, crashes, spent, journal>> PROVE Remembers'
  BY <1>1 DEF Remembers
<1>2. ASSUME NEW r \in Request,
             Arrive(r) \/ Check(r) \/ Admit(r) \/ Lease(r) \/ Budgeted(r) \/ Decide(r)
               \/ Spawn(r) \/ SendJev(r) \/ SendHandler(r) \/ JevValidated(r) \/ HandlerValidated(r)
               \/ Refuse(r) \/ NoSlot(r) \/ TaskFailed(r) \/ ResponseInvalid(r) \/ Fallback(r)
               \/ Complete(r) \/ Timeout(r) \/ Cancel(r)
      PROVE UNCHANGED <<selector, view, crashes, spent, journal>>
  BY <1>2 DEF Arrive, Check, Admit, Lease, Budgeted, Decide, Spawn, SendJev, SendHandler,
              JevValidated, HandlerValidated, Refuse, NoSlot, TaskFailed, ResponseInvalid, Fallback,
              Complete, Timeout, Cancel, End, Move
<1>3. ASSUME NEW r \in Request, ReadPending(r) PROVE Remembers'
  <2>1. \A h \in Handler : Cardinality(At(pending, h)) \in Nat
    BY AtFinite DEF Attempted, Endpoint
  <2>2. view' = [h \in Handler |-> Cardinality(At(pending, h))]
    BY <1>3 DEF ReadPending
  <2>3. selector' = r /\ UNCHANGED <<crashes, spent, journal>>
    BY <1>3 DEF ReadPending, Move
  <2>4. QED
    BY <2>1, <2>2, <2>3 DEF Remembers
<1>4. ASSUME NEW r \in Request, Select(r) \/ SelectFails(r) PROVE Remembers'
  BY <1>4 DEF Remembers, Select, SelectFails, End, Move, NoView
<1>5. ASSUME NEW r \in Request, RunTask(r) PROVE Remembers'
  <2>1. UNCHANGED <<selector, view, crashes>>
    BY <1>5 DEF RunTask, RunBudget, RunBegin, RunComplete, JournalFails, TaskEnds
  <2>2. spent' \in {spent, spent + 1} /\ (spent' # spent => spent < MaxCalls)
    BY <1>5 DEF RunTask, RunBudget, RunBegin, RunComplete, JournalFails
  <2>3. spent' \in 0 .. MaxCalls
    BY <2>2, LimitsAssumption DEF Remembers
  <2>4. journal' \in {journal, "failed", "torn"}
    BY <1>5 DEF RunTask, RunBudget, RunBegin, RunComplete, JournalFails
  <2>5. QED
    BY <2>1, <2>3, <2>4 DEF Remembers
<1>6. CASE Crash
  BY <1>6, LimitsAssumption DEF Remembers, Crash, NoView
<1>7. CASE Expire \/ UNCHANGED vars
  BY <1>7 DEF Remembers, Expire, vars
<1>8. CASE Restart
  BY <1>8 DEF Remembers, Restart
<1> QED
  BY <1>1, <1>2, <1>3, <1>4, <1>5, <1>6, <1>7, <1>8 DEF Next, Proceed, Upstream

LEMMA RemembersInvariant == Spec => []Remembers
<1>1. Init => Remembers
  BY LimitsAssumption DEF Init, Selection, Durable, Remembers, NoView
<1>2. QED
  BY <1>1, RemembersStep, AttemptedInvariant, PTL DEF Spec

(* The least loaded candidate has room, whatever was read of the journal. *)
LEMMA ReadyAdmits ==
  ASSUME Attempted, Remembers, Reservations, NEW h \in Handler, Ready(h)
  PROVE  Admits(h)
<1>1. Charged(h) \in Nat
  BY ActiveCount, AtFinite DEF Attempted, Charged, Endpoint
<1>2. view[h] \in Nat /\ awaiting[h] \in Int
  BY DEF Remembers, Reservations
<1>3. Charged(h) <= Load(h) /\ Load(h) \in Int
  BY <1>1, <1>2 DEF Load
<1>4. QED
  BY <1>1, <1>3, LimitsAssumption DEF Ready, Admits

(* The phases in which a request owns an attempt of a ledger. *)
JevPhases == {"admitted", "leased", "budget", "budgeted", "begin_jev", "jev_sent"}
TargetPhases == {"selected", "begin_handler", "handler_sent"}

LEMMA LedgerBoundEnd ==
  ASSUME Shape, Aimed, Attempted, Attempted', LedgerBound,
         NEW r \in Request, NEW how \in Ended, End(r, how)
  PROVE  LedgerBound'
<1>1. /\ phase' = [phase EXCEPT ![r] = how] /\ target' = target
      /\ unconfirmed' = unconfirmed \cup Abandoned(r) /\ lapsed' = lapsed
  BY DEF End
<1>2. ASSUME NEW e \in Endpoint PROVE Charged(e)' <= AdmissionLimit /\ Tracked(e)' <= TrackingLimit
  <2>1. Active(e)' = Active(e) \ {r}
    BY <1>1 DEF Shape, Active, Ended
  <2>2. Charged(e) <= AdmissionLimit /\ Tracked(e) <= TrackingLimit
    BY DEF LedgerBound
  <2>3. CASE r \in Active(e)
    <3>1. Abandoned(r) \subseteq {<<r, e>>}
      BY <2>3 DEF Active, Abandoned
    <3>2. QED
      BY <1>1, <2>1, <2>2, <2>3, <3>1, LedgerKeeps
  <2>4. CASE r \notin Active(e)
    <3>1. ASSUME NEW p \in Abandoned(r) PROVE p[2] # e
      <4>1. CASE phase[r] = "jev_sent"
        BY <2>4, <3>1, <4>1 DEF Active, Abandoned
      <4>2. CASE phase[r] = "handler_sent"
        <5>1. target[r] \in Handler /\ Abandoned(r) = {<<r, target[r]>>}
          BY <4>2 DEF Aimed, HandlerPhases, Abandoned
        <5>2. QED
          BY <2>4, <3>1, <4>2, <5>1, NamesAssumption DEF Active
      <4>3. CASE phase[r] \notin {"jev_sent", "handler_sent"}
        BY <3>1, <4>3 DEF Abandoned
      <4>4. QED
        BY <4>1, <4>2, <4>3
    <3>2. At(unconfirmed', e) = At(unconfirmed, e)
      BY <1>1, <3>1 DEF At
    <3>3. Active(e)' = Active(e)
      BY <2>1, <2>4
    <3>4. Charged(e)' = Charged(e) /\ Tracked(e)' = Tracked(e)
      BY <1>1, <3>2, <3>3 DEF Charged, Tracked, At
    <3>5. QED
      BY <2>2, <3>4
  <2>5. QED
    BY <2>3, <2>4
<1>3. QED
  BY <1>2 DEF LedgerBound

(* A request moves on without joining a ledger. *)
LEMMA LedgerBoundMove ==
  ASSUME Shape, Attempted, Attempted', LedgerBound, NEW r \in Request,
         phase' = [phase EXCEPT ![r] = phase'[r]],
         phase'[r] \in JevPhases => phase[r] \in JevPhases,
         phase'[r] \in TargetPhases => phase[r] \in TargetPhases,
         target' = target, unconfirmed' = unconfirmed, lapsed' = lapsed
  PROVE  LedgerBound'
<1>1. ASSUME NEW e \in Endpoint PROVE Charged(e)' <= AdmissionLimit /\ Tracked(e)' <= TrackingLimit
  <2>1. Active(e)' \ {r} = Active(e) \ {r}
    BY ActiveFrame
  <2>2. r \in Active(e)' => r \in Active(e)
    BY DEF Active, JevPhases, TargetPhases
  <2>3. QED
    BY <2>1, <2>2, LedgerKeeps DEF LedgerBound
<1>2. QED
  BY <1>1 DEF LedgerBound

LEMMA LedgerBoundStep ==
  Shape /\ Aimed /\ Attempted /\ Attempted' /\ Remembers /\ Reservations /\ LedgerBound /\ [Next]_vars
    => LedgerBound'
<1> SUFFICES ASSUME Shape, Aimed, Attempted, Attempted', Remembers, Reservations, LedgerBound,
                    [Next]_vars
             PROVE  LedgerBound'
  OBVIOUS
<1> USE DEF Requests, Selection, Ledgers, Durable, History
<1>1. ASSUME NEW r \in Request,
             Arrive(r) \/ Check(r) \/ Lease(r) \/ Budgeted(r) \/ SendJev(r) \/ JevValidated(r)
               \/ Decide(r) \/ ReadPending(r) \/ SendHandler(r) \/ HandlerValidated(r)
      PROVE LedgerBound'
  <2>1. /\ phase' = [phase EXCEPT ![r] = phase'[r]]
        /\ phase'[r] \in JevPhases => phase[r] \in JevPhases
        /\ phase'[r] \in TargetPhases => phase[r] \in TargetPhases
        /\ target' = target /\ unconfirmed' = unconfirmed /\ lapsed' = lapsed
    BY <1>1 DEF Shape, Arrive, Check, Lease, Budgeted, SendJev, JevValidated, Decide, ReadPending,
                SendHandler, HandlerValidated, Move, JevPhases, TargetPhases
  <2>2. QED
    BY <2>1, LedgerBoundMove
<1>2. ASSUME NEW r \in Request, Spawn(r) PROVE LedgerBound'
  <2>1. /\ phase[r] \in Spawning
        /\ phase' = [phase EXCEPT ![r] = NextTask(r)]
        /\ target' = target /\ unconfirmed' = unconfirmed /\ lapsed' = lapsed
    BY <1>2 DEF Spawn, Move
  <2>2. /\ NextTask(r) \in JevPhases => phase[r] \in JevPhases
        /\ NextTask(r) \in TargetPhases => phase[r] \in TargetPhases
    BY <2>1 DEF NextTask, Spawning, JevPhases, TargetPhases
  <2>3. phase'[r] = NextTask(r)
    BY <2>1 DEF Shape
  <2>4. QED
    BY <2>1, <2>2, <2>3, LedgerBoundMove
<1>3. ASSUME NEW r \in Request, Admit(r) PROVE LedgerBound'
  <2>1. /\ phase' = [phase EXCEPT ![r] = "admitted"] /\ phase[r] = "checked"
        /\ target' = target /\ unconfirmed' = unconfirmed /\ lapsed' = lapsed
        /\ Admits(Jev)
    BY <1>3 DEF Admit, Move
  <2>2. ASSUME NEW e \in Endpoint PROVE Charged(e)' <= AdmissionLimit /\ Tracked(e)' <= TrackingLimit
    <3>1. Active(e)' \ {r} = Active(e) \ {r}
      BY <2>1, ActiveFrame DEF Shape
    <3>2. CASE e = Jev
      BY <2>1, <3>1, <3>2, LedgerAdmits
    <3>3. CASE e # Jev
      <4>1. r \notin Active(e)'
        BY <2>1, <3>3 DEF Shape, Active
      <4>2. QED
        BY <2>1, <3>1, <4>1, LedgerKeeps DEF LedgerBound
    <3>4. QED
      BY <3>2, <3>3
  <2>3. QED
    BY <2>2 DEF LedgerBound
<1>4. ASSUME NEW r \in Request, Select(r) PROVE LedgerBound'
  <2>1. PICK h \in Handler : Ready(h) /\ target' = [target EXCEPT ![r] = h]
    BY <1>4 DEF Select
  <2>2. /\ phase' = [phase EXCEPT ![r] = "selected"] /\ phase[r] = "selecting"
        /\ unconfirmed' = unconfirmed /\ lapsed' = lapsed
    BY <1>4 DEF Shape, Select, Move
  <2>3. ASSUME NEW e \in Endpoint PROVE Charged(e)' <= AdmissionLimit /\ Tracked(e)' <= TrackingLimit
    <3>1. Active(e)' \ {r} = Active(e) \ {r}
      BY <2>1, <2>2, ActiveFrame DEF Shape
    <3>2. CASE e = h
      BY <2>1, <2>2, <3>1, <3>2, ReadyAdmits, LedgerAdmits
    <3>3. CASE e # h
      <4>1. r \notin Active(e)'
        BY <2>1, <2>2, <3>3 DEF Shape, Active
      <4>2. QED
        BY <2>2, <3>1, <4>1, LedgerKeeps DEF LedgerBound
    <3>4. QED
      BY <3>2, <3>3
  <2>4. QED
    BY <2>3 DEF LedgerBound
<1>5. ASSUME NEW r \in Request,
             Refuse(r) \/ NoSlot(r) \/ TaskFailed(r) \/ ResponseInvalid(r) \/ Fallback(r)
               \/ SelectFails(r) \/ Complete(r) \/ Timeout(r) \/ Cancel(r)
      PROVE LedgerBound'
  BY <1>5, LedgerBoundEnd DEF Refuse, NoSlot, TaskFailed, ResponseInvalid, Fallback,
                              SelectFails, Complete, Timeout, Cancel, Ended
<1>6. ASSUME phase' = phase, target' = target, unconfirmed' = unconfirmed, lapsed' = lapsed
      PROVE  LedgerBound'
  BY <1>6 DEF LedgerBound, Charged, Tracked, Active, At
<1>7. ASSUME NEW r \in Request, RunTask(r) PROVE LedgerBound'
  BY <1>6, <1>7, TaskEndsFrame
<1>8. CASE Expire
  <2>1. PICK p \in unconfirmed : unconfirmed' = unconfirmed \ {p} /\ lapsed' = lapsed \cup {p}
    BY <1>8 DEF Expire
  <2>2. phase' = phase /\ target' = target
    BY <1>8 DEF Expire
  <2>3. ASSUME NEW e \in Endpoint PROVE Charged(e)' <= AdmissionLimit /\ Tracked(e)' <= TrackingLimit
    <3>1. Active(e)' = Active(e)
      BY <2>2 DEF Active
    <3>2. CASE p[2] # e
      <4>1. At(unconfirmed', e) = At(unconfirmed, e) /\ At(lapsed', e) = At(lapsed, e)
        BY <2>1, <3>2 DEF At
      <4>2. Charged(e)' = Charged(e) /\ Tracked(e)' = Tracked(e)
        BY <3>1, <4>1 DEF Charged, Tracked, At
      <4>3. QED
        BY <4>2 DEF LedgerBound
    <3>3. CASE p[2] = e
      <4>1. /\ At(unconfirmed', e) = At(unconfirmed, e) \ {p} /\ p \in At(unconfirmed, e)
            /\ At(lapsed', e) = At(lapsed, e) \cup {p}
        BY <2>1, <3>3 DEF At
      <4>2. /\ IsFiniteSet(At(unconfirmed, e)) /\ Cardinality(At(unconfirmed, e)) \in Nat
            /\ IsFiniteSet(At(lapsed, e)) /\ Cardinality(At(lapsed, e)) \in Nat
        BY AtFinite DEF Attempted
      <4>3. Cardinality(At(unconfirmed', e)) = Cardinality(At(unconfirmed, e)) - 1
        BY <4>1, <4>2, FS_RemoveElement
      <4>4. /\ Cardinality(At(lapsed', e)) <= Cardinality(At(lapsed, e)) + 1
            /\ Cardinality(At(lapsed', e)) \in Nat
        BY <2>1, AtGrows, AtFinite DEF Attempted
      <4>5. Cardinality(Active(e)) \in Nat
        BY ActiveCount
      <4>6. /\ Charged(e) = Cardinality(Active(e)) + Cardinality(At(unconfirmed, e))
            /\ Tracked(e) = Charged(e) + Cardinality(At(lapsed, e))
            /\ Charged(e)' = Cardinality(Active(e)) + Cardinality(At(unconfirmed', e))
            /\ Tracked(e)' = Charged(e)' + Cardinality(At(lapsed', e))
        BY <3>1 DEF Charged, Tracked, At
      <4>7. Charged(e)' = Charged(e) - 1 /\ Charged(e) \in Int
        BY <4>2, <4>3, <4>5, <4>6
      <4>8. Tracked(e)' <= Tracked(e) /\ Tracked(e) \in Int /\ Tracked(e)' \in Int
        BY <4>2, <4>4, <4>6, <4>7
      <4>9. Charged(e) <= AdmissionLimit /\ Tracked(e) <= TrackingLimit
        BY DEF LedgerBound
      <4>10. QED
        BY <4>7, <4>8, <4>9, LimitsAssumption
    <3>4. QED
      BY <3>2, <3>3
  <2>4. QED
    BY <2>3 DEF LedgerBound
<1>9. CASE Crash
  <2>1. \A q \in Request : phase'[q] \notin JevPhases \cup TargetPhases
    <3>1. ASSUME NEW q \in Request PROVE phase'[q] = "lost" \/ phase'[q] \notin InFlightPhases
      BY <1>9 DEF Shape, Crash, InFlight
    <3>2. JevPhases \cup TargetPhases \subseteq InFlightPhases \ {"lost"}
      BY DEF JevPhases, TargetPhases, InFlightPhases, Waiting, Spawning
    <3>3. QED
      BY <3>1, <3>2
  <2>2. ASSUME NEW e \in Endpoint PROVE Charged(e)' <= AdmissionLimit /\ Tracked(e)' <= TrackingLimit
    <3>1. Active(e)' = {}
      BY <2>1 DEF Active, JevPhases, TargetPhases
    <3>2. At(unconfirmed', e) = {} /\ At(lapsed', e) = {}
      BY <1>9 DEF Crash, At
    <3>3. Charged(e)' = 0 /\ Tracked(e)' = 0
      BY <3>1, <3>2, FS_EmptySet DEF Charged, Tracked, At
    <3>4. QED
      BY <3>3, LimitsAssumption
  <2>3. QED
    BY <2>2 DEF LedgerBound
<1>10. CASE Restart \/ UNCHANGED vars
  BY <1>6, <1>10 DEF Restart, vars
<1> QED
  BY <1>1, <1>2, <1>3, <1>4, <1>5, <1>7, <1>8, <1>9, <1>10 DEF Next, Proceed, Upstream

LEMMA ReservationsInvariant == Spec => []Reservations
BY ReservationsInit, ReservationsStep, ShapeInvariant, PTL DEF Spec

LEMMA LedgerBoundInvariant == Spec => []LedgerBound
<1>1. Init => LedgerBound
  <2>1. SUFFICES ASSUME Init, NEW e \in Endpoint
                 PROVE  Charged(e) <= AdmissionLimit /\ Tracked(e) <= TrackingLimit
    BY DEF LedgerBound
  <2>2. Active(e) = {} /\ At(unconfirmed, e) = {} /\ At(lapsed, e) = {}
    BY <2>1 DEF Init, Requests, Ledgers, Active, At
  <2>3. Charged(e) = 0 /\ Tracked(e) = 0
    BY <2>2, FS_EmptySet DEF Charged, Tracked
  <2>4. QED
    BY <2>3, LimitsAssumption
<1>2. QED
  BY <1>1, LedgerBoundStep, RemembersInvariant, ReservationsInvariant, AttemptedInvariant,
     AimedInvariant, ShapeInvariant, PTL DEF Spec

-----------------------------------------------------------------------------
(* Ingress: a request in flight holds a permit of the semaphore. *)
IngressBound == Cardinality(InFlight) <= AdmissionLimit

LEMMA IngressBoundStep == Shape /\ IngressBound /\ [Next]_vars => IngressBound'
<1> SUFFICES ASSUME Shape, IngressBound, [Next]_vars PROVE IngressBound'
  OBVIOUS
<1> USE DEF Requests
<1>0. IsFiniteSet(InFlight) /\ Cardinality(InFlight) \in Nat
  BY NamesAssumption, FS_Subset, FS_CardinalityType DEF InFlight
<1>1. ASSUME InFlight' \subseteq InFlight PROVE IngressBound'
  <2>1. Cardinality(InFlight') <= Cardinality(InFlight) /\ Cardinality(InFlight') \in Nat
    BY <1>0, <1>1, FS_Subset, FS_CardinalityType
  <2>2. QED
    BY <1>0, <2>1, LimitsAssumption DEF IngressBound
<1>2. ASSUME NEW r \in Request, Arrive(r) PROVE IngressBound'
  <2>1. InFlight' = InFlight \cup {r} /\ r \notin InFlight
    BY <1>2 DEF Shape, Arrive, Move, InFlight, InFlightPhases, Waiting, Spawning
  <2>2. Cardinality(InFlight') = Cardinality(InFlight) + 1
    BY <2>1, CountAdd DEF InFlight
  <2>3. QED
    BY <1>0, <1>2, <2>2, LimitsAssumption DEF Arrive, IngressBound
<1>3. ASSUME NEW r \in Request, phase[r] \in InFlightPhases, phase' = [phase EXCEPT ![r] = phase'[r]]
      PROVE  InFlight' \subseteq InFlight
  BY <1>3 DEF Shape, InFlight
<1>4. ASSUME NEW r \in Request, Proceed(r) \/ Upstream(r) \/ Timeout(r) \/ Cancel(r)
      PROVE  InFlight' \subseteq InFlight
  <2>1. phase[r] \in InFlightPhases
    BY <1>4 DEF Shape, Proceed, Check, Admit, Lease, Refuse, Spawn, NoSlot, TaskFailed, Budgeted,
                SendJev, Fallback, Decide, ReadPending, Select, SelectFails, SendHandler, Complete,
                Upstream, JevValidated, HandlerValidated, ResponseInvalid, Timeout, Stalled, Cancel,
                Returned, InFlightPhases, Waiting, Spawning
  <2>2. phase' = [phase EXCEPT ![r] = phase'[r]]
    BY <1>4 DEF Shape, Proceed, Check, Admit, Lease, Refuse, Spawn, NoSlot, TaskFailed, Budgeted,
                SendJev, Fallback, Decide, ReadPending, Select, SelectFails, SendHandler, Complete,
                Upstream, JevValidated, HandlerValidated, ResponseInvalid, Timeout, Cancel, End, Move
  <2>3. QED
    BY <1>3, <2>1, <2>2
<1>5. ASSUME NEW r \in Request, RunTask(r) PROVE InFlight' \subseteq InFlight
  BY <1>5, TaskEndsFrame DEF InFlight
<1>6. ASSUME Crash PROVE InFlight' \subseteq InFlight
  BY <1>6 DEF Shape, Crash, InFlight, InFlightPhases, Waiting, Spawning
<1>7. ASSUME Expire \/ Restart \/ UNCHANGED vars PROVE InFlight' \subseteq InFlight
  BY <1>7 DEF Expire, Restart, vars, InFlight
<1> QED
  BY <1>1, <1>2, <1>4, <1>5, <1>6, <1>7 DEF Next

LEMMA IngressBoundInvariant == Spec => []IngressBound
<1>1. Init => IngressBound
  <2>1. Init => InFlight = {}
    BY DEF Init, Requests, InFlight, InFlightPhases, Waiting, Spawning
  <2>2. QED
    BY <2>1, FS_EmptySet, LimitsAssumption DEF IngressBound
<1>2. QED
  BY <1>1, IngressBoundStep, ShapeInvariant, PTL DEF Spec

(* Whoever is about to spawn a task has a permit of ingress and no task:   *)
(* if the storage workers were all busy with live requests, there would be *)
(* more of these than permits.                                             *)
LEMMA BusyWithDetached == Shape /\ IngressBound => BusyOnlyWithDetached
<1> SUFFICES ASSUME Shape, IngressBound, NEW r \in Request, phase[r] \in Spawning,
                    \A d \in Busy : phase[d] \notin Ended
             PROVE  FreeSlot
  BY DEF BusyOnlyWithDetached
<1>1. Busy \subseteq InFlight \ {r}
  <2>1. ASSUME NEW d \in Busy PROVE d \in Request /\ phase[d] \in Waiting
    <3>1. task[d].state = "running" /\ d \in Request
      BY <2>1 DEF Busy
    <3>2. phase[d] = task[d].kind /\ task[d].kind \in Waiting \cup {"none"}
      BY <2>1, <3>1 DEF Shape, Tasks, NoTask
    <3>3. phase[d] # "none"
      BY <3>1 DEF Shape, Phases, InFlightPhases, Waiting, Spawning, Ended
    <3>4. QED
      BY <3>1, <3>2, <3>3
  <2>2. QED
    BY <2>1 DEF InFlight, InFlightPhases, Waiting, Spawning
<1>2. r \in InFlight
  BY DEF InFlight, InFlightPhases
<1>3. /\ Cardinality(InFlight) \in Nat
      /\ Cardinality(InFlight \ {r}) = Cardinality(InFlight) - 1
      /\ IsFiniteSet(InFlight \ {r})
  BY <1>2, CountRemove, NamesAssumption, FS_Subset DEF InFlight
<1>4. Cardinality(Busy) <= Cardinality(InFlight \ {r}) /\ Cardinality(Busy) \in Nat
  BY <1>1, <1>3, FS_Subset, FS_CardinalityType
<1>5. QED
  BY <1>3, <1>4, LimitsAssumption DEF IngressBound, FreeSlot

LEMMA FlagsStep == Flags /\ [Next]_vars => Flags'
<1> SUFFICES ASSUME Flags, [Next]_vars PROVE Flags'
  OBVIOUS
<1>1. ASSUME NEW r \in Request, Arrive(r) \/ Proceed(r) \/ Upstream(r) \/ Timeout(r) \/ Cancel(r)
      PROVE up' = up /\ budgetOk' = budgetOk
  BY <1>1 DEF Durable, Arrive, Proceed, Check, Admit, Lease, Refuse, Spawn, NoSlot, TaskFailed,
              Budgeted, SendJev, Fallback, Decide, ReadPending, Select, SelectFails, SendHandler,
              Complete, Upstream, JevValidated, HandlerValidated, ResponseInvalid, Timeout, Cancel,
              End, Move
<1>2. ASSUME NEW r \in Request, RunTask(r)
      PROVE up' = up /\ (budgetOk' = budgetOk \/ budgetOk' = FALSE)
  BY <1>2, Zenon DEF Durable, RunTask, RunBudget, RunBegin, RunComplete, JournalFails, TaskEnds
<1>3. CASE Crash
  BY <1>3, Zenon DEF Crash, Flags
<1>4. CASE Restart
  BY <1>4, Zenon DEF Restart, Flags
<1>5. CASE Expire \/ UNCHANGED vars
  BY <1>5 DEF Expire, vars, Durable, Flags
<1>6. QED
  BY <1>1, <1>2, <1>3, <1>4, <1>5, Zenon DEF Next, Flags

LEMMA FlagsInvariant == Spec => []Flags
<1>1. Init => Flags
  BY Zenon DEF Init, Durable, Flags
<1>2. QED
  BY <1>1, FlagsStep, PTL DEF Spec

LEMMA CountedInvariant == Spec => []Counted
BY CountedInit, CountedStep, ShapeInvariant, PTL DEF Spec

(* The parts make the type invariant: a reservation count is a number of   *)
(* requests, so none is returned twice.                                    *)
LEMMA TypesTogether ==
  Shape /\ Attempted /\ Remembers /\ Flags /\ Counted /\ Reservations => TypeOK
<1> SUFFICES ASSUME Shape, Attempted, Remembers, Flags, Counted, Reservations PROVE TypeOK
  OBVIOUS
<1>1. awaiting \in [Handler -> Nat]
  <2>1. ASSUME NEW h \in Handler PROVE awaiting[h] \in Nat
    <3>1. IsFiniteSet(Reserved(h))
      BY NamesAssumption, FS_Subset DEF Reserved
    <3>2. QED
      BY <3>1, FS_CardinalityType DEF Reservations
  <2>2. QED
    BY <2>1 DEF Reservations
<1>2. /\ phase \in [Request -> {"idle"} \cup InFlightPhases \cup Ended]
      /\ target \in [Request -> Handler \cup {None}]
      /\ task \in [Request -> [kind : Waiting \cup {"none"},
                               state : {"none", "running", "ok", "failed"}]]
      /\ \A r \in Request : task[r] # NoTask =>
           phase[r] = task[r].kind \/ (phase[r] \in Ended /\ r \in Busy)
  BY DEF Shape, Phases, Tasks
<1>3. counters \in [{"offered", "completed", "failed", "cancelled"} -> Nat]
  BY DEF Counted, Counters
<1>4. /\ selector \in Request \cup {None} /\ view \in [Handler -> Nat]
      /\ crashes \in 0 .. MaxCrashes /\ spent \in 0 .. MaxCalls
      /\ journal \in {"ok", "failed", "torn"}
  BY DEF Remembers
<1>5. /\ unconfirmed \subseteq Request \X Endpoint /\ lapsed \subseteq Request \X Endpoint
      /\ pending \subseteq Request \X Endpoint
      /\ validated \subseteq sent /\ sent \subseteq Request \X Endpoint
  BY DEF Attempted, Attempts
<1>6. up \in BOOLEAN /\ budgetOk \in BOOLEAN
  BY DEF Flags
<1>7. QED
  BY <1>1, <1>2, <1>3, <1>4, <1>5, <1>6, Zenon DEF TypeOK

(* For any number of requests, handlers, permits and crashes: the journal  *)
(* and the ledger of each endpoint stay within the admission limit, though *)
(* admission and selection decide on counts that have changed since, and   *)
(* only tasks whose request is gone can deny a live one a storage worker.  *)
THEOREM CapacityIsBounded == Spec => []CapacityBounds
<1>1. JournalBound /\ LedgerBound => EndpointBound
  BY DEF JournalBound, LedgerBound, EndpointBound
<1>2. TypeOK /\ EndpointBound /\ BusyOnlyWithDetached => CapacityBounds
  BY DEF CapacityBounds
<1>3. QED
  BY <1>1, <1>2, TypesTogether, BusyWithDetached, IngressBoundInvariant, JournalBoundInvariant,
     LedgerBoundInvariant, RemembersInvariant, FlagsInvariant, CountedInvariant,
     ReservationsInvariant, AttemptedInvariant, ShapeInvariant, PTL
=============================================================================
