------------------------------ MODULE Recording ------------------------------
(***************************************************************************)
(* src/demo/recording.py: the hash-chained observation log of one run.     *)
(* The chained hash of an event stands for every event before it, so the   *)
(* hash the recorder keeps (Recorder.previous) is the sequence of events   *)
(* it acknowledged, and comparing hashes is comparing sequences.  append   *)
(* and close hold the lock from start to end and are one action each.      *)
(***************************************************************************)
EXTENDS Integers, Sequences, FiniteSets

CONSTANTS
  Task,       \* task ids, numbered in the order of the prepared bundle
  MaxEvents,  \* MAX_EVENTS
  MaxBytes    \* MAX_BYTES, in units of the smallest line

ASSUME RecordingAssumption == MaxEvents \in Nat /\ MaxBytes \in Nat

VARIABLES
  chain,     \* the events append() acknowledged, in order (previous, sequence)
  states,    \* Recorder.states, "none" for a task without an event
  size,      \* Recorder.size
  poisoned,  \* Recorder.poisoned
  closed,    \* Recorder.closed
  log,       \* the complete lines of events.jsonl
  torn,      \* events.jsonl ends in an incomplete line
  seal       \* seal.json: the sequence it names, or NoSeal, or TornSeal

recordingVars == <<chain, states, size, poisoned, closed, log, torn, seal>>

Kind == {"task_queued", "request_started", "response_received", "review_validated",
         "task_deferred", "task_completed", "task_uncertain"}
Terminal == {"task_deferred", "task_completed", "task_uncertain"}
Event == [kind : Kind, task : Task]

NoSeal == [sealed |-> FALSE, torn |-> FALSE, events |-> <<>>]
TornSeal == [NoSeal EXCEPT !.torn = TRUE]
SealOf(events) == [sealed |-> TRUE, torn |-> FALSE, events |-> events]

(* validate: the transitions a task may make, and the lines' weights: a    *)
(* response carries hashes, counts and a routing trace.                    *)
Allowed(kind) ==
  CASE kind = "none" -> {"task_queued"}
    [] kind = "task_queued" -> {"request_started", "task_deferred"}
    [] kind = "request_started" -> {"response_received", "task_uncertain"}
    [] kind = "response_received" -> {"review_validated", "task_completed", "task_uncertain"}
    [] kind = "review_validated" -> {"task_completed", "task_uncertain"}
    [] OTHER -> {}

Wire(kind) == IF kind = "response_received" THEN 3 ELSE 1

RecordingTypeOK ==
  /\ chain \in Seq(Event)
  /\ states \in [Task -> Kind \cup {"none"}]
  /\ size \in Nat
  /\ {poisoned, closed, torn} \subseteq BOOLEAN
  /\ log \in Seq(Event)
  /\ seal \in {NoSeal, TornSeal} \/ seal.events \in Seq(Event)

RecordingInit ==
  /\ chain = <<>>
  /\ states = [t \in Task |-> "none"]
  /\ size = 0
  /\ poisoned = FALSE
  /\ closed = FALSE
  /\ log = <<>>
  /\ torn = FALSE
  /\ seal = NoSeal

-----------------------------------------------------------------------------
(* append: refused without an effect, acknowledged, or failed.  A byte     *)
(* limit refuses this line only; a smaller one may still fit later.        *)
CanAppend(kind, t) ==
  /\ ~closed
  /\ ~poisoned
  /\ Len(chain) < MaxEvents
  /\ kind \in Allowed(states[t])
  /\ size + Wire(kind) <= MaxBytes

EventOf(kind, t) == [kind |-> kind, task |-> t]

AppendEvent(kind, t) ==
  /\ CanAppend(kind, t)
  /\ chain' = Append(chain, EventOf(kind, t))
  /\ log' = Append(log, EventOf(kind, t))
  /\ states' = [states EXCEPT ![t] = kind]
  /\ size' = size + Wire(kind)
  /\ UNCHANGED <<poisoned, closed, torn, seal>>

(* A write or a sync that stops may have left nothing, a piece of the      *)
(* line, or all of it.                                                     *)
Leftover(kind, t) ==
  \/ UNCHANGED <<log, torn>>
  \/ torn' = TRUE /\ UNCHANGED log
  \/ log' = Append(log, EventOf(kind, t)) /\ UNCHANGED torn

BugAppendUnpoisoned(kind, t) ==
  /\ CanAppend(kind, t)
  /\ Leftover(kind, t)
  /\ UNCHANGED <<poisoned, chain, states, size, closed, seal>>

AppendFails(kind, t) ==
  /\ CanAppend(kind, t)
  /\ Leftover(kind, t)
  /\ poisoned' = TRUE
  /\ UNCHANGED <<chain, states, size, closed, seal>>

(* close: closed comes before the seal, so no line follows it.  A failed   *)
(* recorder is never sealed.  The seal is written once, synced, and may    *)
(* itself fail.                                                            *)

CloseSealed ==
  /\ ~closed
  /\ ~poisoned
  /\ closed' = TRUE
  /\ seal' = SealOf(chain)
  /\ UNCHANGED <<chain, states, size, poisoned, log, torn>>

CloseFails ==
  /\ ~closed
  /\ closed' = TRUE
  /\ \/ UNCHANGED seal
     \/ ~poisoned /\ seal' = TornSeal
  /\ UNCHANGED <<chain, states, size, poisoned, log, torn>>

-----------------------------------------------------------------------------
(* verify: what a reader makes of the directory, with nothing but files.   *)
LastKind(events, t) ==
  LET of == {i \in DOMAIN events : events[i].task = t}
  IN  IF of = {} THEN "none"
      ELSE events[CHOOSE i \in of : \A j \in of : j <= i].kind

Replays(events) ==
  \A i \in DOMAIN events :
     events[i].kind \in Allowed(LastKind(SubSeq(events, 1, i - 1), events[i].task))

Verifies(allowUnsealed) ==
  /\ ~torn
  /\ Replays(log)
  /\ IF seal = NoSeal THEN allowUnsealed ELSE seal = SealOf(log)

(* summarize: the tasks that ended, by their last event. *)
Ending(kind) == {t \in Task : LastKind(log, t) = kind}
Incomplete == {t \in Task : LastKind(log, t) \notin Terminal \cup {"none"}}

-----------------------------------------------------------------------------
(* TELEMETRY.md: the file holds what append() acknowledged, and at most    *)
(* one line more, which only a failed or an interrupted append can leave.  *)
LogHoldsChain ==
  /\ Len(chain) <= Len(log)
  /\ Len(log) <= Len(chain) + 1
  /\ chain = SubSeq(log, 1, Len(chain))
  /\ closed /\ ~poisoned => log = chain /\ ~torn

(* recording.py, close: a seal names exactly the lines of the file, and a  *)
(* sealed directory is one that verify() accepts.                          *)
SealTruthful ==
  seal.sealed => ~poisoned /\ seal = SealOf(chain) /\ Verifies(FALSE)

(* The recording as a whole: file, memory and seal tell one story. *)
RecordTruthful == LogHoldsChain /\ SealTruthful
==============================================================================
