----------------------------- MODULE Generation -----------------------------
(***************************************************************************)
(* src/src/generation: the adapter that dispatches one generation per      *)
(* request, its journal, and the ingress of its server.                    *)
(*                                                                         *)
(* A request waits for a blocking task that begins its attempt, for the    *)
(* upstream, and for a task that journals the receipt.  A task that waits  *)
(* for the journal's mutex, or holds it, outlives its request.  Lines have *)
(* symbolic sizes; a receipt names the attempt and the route it answers.   *)
(***************************************************************************)
EXTENDS Integers, Sequences, FiniteSets

CONSTANTS
  Request,         \* requests of clients
  Route,           \* Config.routes; the model follows from the route
  None,            \* no request
  AdmissionLimit,  \* Config.admission_limit
  MaxCalls,        \* Config.max_calls
  MaxFile,         \* MAX_FILE
  MaxLine,         \* MAX_LINE
  Reserve,         \* RECEIPT_RESERVE
  HeaderSize, BeginSize, ReceiptSize,  \* the lines there are
  MaxStops         \* bound of the model: times the process ends

ASSUME GenerationAssumption ==
  /\ {AdmissionLimit, MaxCalls} \subseteq Nat \ {0}
  /\ {MaxFile, MaxLine, Reserve, HeaderSize, BeginSize, ReceiptSize, MaxStops} \subseteq Nat
  /\ BeginSize <= MaxLine /\ ReceiptSize <= Reserve /\ HeaderSize <= MaxFile
  /\ None \notin Request

VARIABLES
  log, torn, synced,            \* the file: whole lines, a torn last one, the synced ones
  up, stops,                    \* an Adapter exists; how often one ended
  healthy, bytes, begun, pending,  \* Journal, and Accounting: pending ids to routes
  append,                       \* the append under the mutex, and the task that makes it
  phase, route, id, task,       \* per request: where it is, its attempt, its blocking task
  sent,                         \* history: who dispatched which attempt
  validated                     \* history: attempts whose response was validated

File == <<log, torn, synced>>
Process == <<up, stops>>
Journal == <<healthy, bytes, begun, pending>>
Requests == <<phase, route, id, task>>
History == <<sent, validated>>
vars == <<File, Process, Journal, append, Requests, History>>

Header == [event |-> "header"]
Begin(i, rt) == [event |-> "begin", id |-> i, route |-> rt]
Complete(i, rt) == [event |-> "complete", id |-> i, route |-> rt]
NoAppend == [by |-> None, stage |-> "none", event |-> Header]
NoTask == "none"

Size(ev) ==
  CASE ev.event = "header" -> HeaderSize
    [] ev.event = "begin" -> BeginSize
    [] ev.event = "complete" -> ReceiptSize

(* The lines of a file by kind, and their size. *)
Lines(s, kind) == {n \in DOMAIN s : s[n].event = kind}
SizeOf(s) ==
  Cardinality(Lines(s, "header")) * HeaderSize
  + Cardinality(Lines(s, "begin")) * BeginSize
  + Cardinality(Lines(s, "complete")) * ReceiptSize

(* Accounting after the lines of s. *)
Begun(s) == Cardinality(Lines(s, "begin"))
Unfinished(s) == {s[n].id : n \in Lines(s, "begin")} \ {s[n].id : n \in Lines(s, "complete")}
Pending(s) ==
  [i \in Unfinished(s) |-> s[CHOOSE n \in Lines(s, "begin") : s[n].id = i].route]

(* What open() demands of a line that follows s. *)
Follows(s, ev) ==
  \/ ev.event = "header" /\ s = <<>>
  \/ /\ ev.event = "begin" /\ s # <<>>
     /\ ev.id = Begun(s) + 1 /\ ev.id <= MaxCalls
     /\ Cardinality(Unfinished(s)) < AdmissionLimit
  \/ /\ ev.event = "complete" /\ s # <<>>
     /\ ev.id \in Unfinished(s) /\ Pending(s)[ev.id] = ev.route

Accepted(s) ==
  /\ s # <<>> /\ SizeOf(s) <= MaxFile
  /\ \A n \in DOMAIN s : Follows(SubSeq(s, 1, n - 1), s[n])

InFlight == {r \in Request : phase[r] \in {"begin", "sent", "complete"}}
Running == {r \in Request : task[r] \in {"begin", "complete"}}

Init ==
  /\ log = <<>> /\ torn = FALSE /\ synced = 0
  /\ up = FALSE /\ stops = 0
  /\ healthy = FALSE /\ bytes = 0 /\ begun = 0 /\ pending = [i \in {} |-> None]
  /\ append = NoAppend
  /\ phase = [r \in Request |-> "idle"]
  /\ route \in [Request -> Route]
  /\ id = [r \in Request |-> 0]
  /\ task = [r \in Request |-> NoTask]
  /\ sent = {} /\ validated = {}

-----------------------------------------------------------------------------
(* Adapter::initialize *)
Initialize ==
  /\ log = <<>> /\ ~torn
  /\ log' = <<Header>> /\ synced' = 1
  /\ UNCHANGED <<torn, Process, Journal, append, Requests, History>>

(* Adapter::new: the journal is replayed, or startup fails. *)
Open ==
  /\ ~up /\ ~torn /\ Accepted(log)
  /\ up' = TRUE
  /\ healthy' = TRUE
  /\ bytes' = SizeOf(log)
  /\ begun' = Begun(log)
  /\ pending' = Pending(log)
  /\ UNCHANGED <<File, stops, append, Requests, History>>

(* bounds() and execute_inner() up to the first await: an ingress permit,  *)
(* and the task that will begin the attempt.                               *)
Arrive(r) ==
  /\ up
  /\ phase[r] = "idle"
  /\ Cardinality(InFlight) < AdmissionLimit
  /\ phase' = [phase EXCEPT ![r] = "begin"]
  /\ task' = [task EXCEPT ![r] = "begin"]
  /\ UNCHANGED <<File, Process, Journal, append, route, id, History>>

(* The mutex of the journal is free. *)
Unlocked == append.by = None

BugRoomWithoutReserve == bytes + MaxLine <= MaxFile

(* "Reserve space for a receipt for every outstanding reservation." *)
Room == bytes + MaxLine + (Cardinality(DOMAIN pending) + 1) * Reserve <= MaxFile

MayBegin ==
  /\ healthy
  /\ Cardinality(DOMAIN pending) < AdmissionLimit
  /\ begun < MaxCalls
  /\ Room

MayComplete(r) ==
  /\ id[r] \in DOMAIN pending /\ pending[id[r]] = route[r]
  /\ healthy
  /\ bytes + ReceiptSize <= MaxFile

(* The task of r takes the mutex, and its append starts. *)
StartAppend(r) ==
  /\ Unlocked
  /\ \/ /\ task[r] = "begin" /\ MayBegin
        /\ append' = [by |-> r, stage |-> "write", event |-> Begin(begun + 1, route[r])]
     \/ /\ task[r] = "complete" /\ MayComplete(r)
        /\ append' = [by |-> r, stage |-> "write", event |-> Complete(id[r], route[r])]
  /\ UNCHANGED <<File, Process, Journal, Requests, History>>

(* The task of r is over; its result is lost if r is gone. *)
Returns(r, result) ==
  task' = [task EXCEPT ![r] = IF phase[r] = @ THEN result ELSE NoTask]

Refused(r) ==
  /\ Unlocked
  /\ \/ task[r] = "begin" /\ ~MayBegin
     \/ task[r] = "complete" /\ ~MayComplete(r)
  /\ Returns(r, "failed")
  /\ UNCHANGED <<File, Process, Journal, append, phase, route, id, History>>

WriteLine ==
  /\ append.stage = "write"
  /\ log' = Append(log, append.event)
  /\ append' = [append EXCEPT !.stage = "sync"]
  /\ UNCHANGED <<torn, synced, Process, Journal, Requests, History>>

(* The sync returns: the accounting follows and the mutex is released. *)
Appended ==
  LET r == append.by
      ev == append.event
  IN /\ append.stage = "sync"
     /\ synced' = Len(log)
     /\ bytes' = bytes + Size(ev)
     /\ IF ev.event = "begin"
        THEN /\ begun' = ev.id
             /\ pending' = [i \in DOMAIN pending \cup {ev.id} |->
                              IF i = ev.id THEN ev.route ELSE pending[i]]
             /\ id' = [id EXCEPT ![r] = IF phase[r] = "begin" THEN ev.id ELSE @]
        ELSE /\ pending' = [i \in DOMAIN pending \ {ev.id} |-> pending[i]]
             /\ UNCHANGED <<begun, id>>
     /\ Returns(r, "ok")
     /\ append' = NoAppend
     /\ UNCHANGED <<log, torn, Process, healthy, phase, route, History>>

(* "A failed sync poisons the writer": nothing, a part or all of the line  *)
(* is in the file.                                                         *)
AppendFails ==
  /\ ~Unlocked
  /\ torn' \in IF append.stage = "write" THEN BOOLEAN ELSE {torn}
  /\ healthy' = FALSE
  /\ Returns(append.by, "failed")
  /\ append' = NoAppend
  /\ UNCHANGED <<log, synced, Process, bytes, begun, pending, phase, route, id, History>>

-----------------------------------------------------------------------------
(* The request goes on with the id of its attempt: one HTTP attempt. *)
Send(r) ==
  /\ phase[r] = "begin" /\ task[r] = "ok"
  /\ phase' = [phase EXCEPT ![r] = "sent"]
  /\ task' = [task EXCEPT ![r] = NoTask]
  /\ sent' = sent \cup {<<r, id[r]>>}
  /\ UNCHANGED <<File, Process, Journal, append, route, id, validated>>

BugReceiptUnvalidated(r) ==
  /\ phase[r] = "sent"
  /\ phase' = [phase EXCEPT ![r] = "complete"]
  /\ task' = [task EXCEPT ![r] = "complete"]
  /\ UNCHANGED <<File, Process, Journal, append, route, id, History>>

(* The whole response was decoded; a task journals its receipt. *)
Validate(r) ==
  /\ phase[r] = "sent"
  /\ phase' = [phase EXCEPT ![r] = "complete"]
  /\ task' = [task EXCEPT ![r] = "complete"]
  /\ validated' = validated \cup {id[r]}
  /\ UNCHANGED <<File, Process, Journal, append, route, id, sent>>

(* execute() ends; a task that is not over goes on by itself. *)
End(r, how) ==
  /\ phase' = [phase EXCEPT ![r] = how]
  /\ task' = IF r \in Running THEN task ELSE [task EXCEPT ![r] = NoTask]
  /\ UNCHANGED <<File, Process, Journal, append, route, id, History>>

Answer(r) ==
  phase[r] = "complete" /\ task[r] = "ok" /\ End(r, "answered")

(* The journal refused, the response was invalid, a deadline passed, or    *)
(* the connection is gone.                                                 *)
Fail(r) == r \in InFlight /\ End(r, "failed")

-----------------------------------------------------------------------------
Gone ==
  /\ up' = FALSE
  /\ healthy' = FALSE /\ bytes' = 0 /\ begun' = 0 /\ pending' = [i \in {} |-> None]
  /\ append' = NoAppend
  /\ phase' = [r \in Request |-> IF r \in InFlight THEN "lost" ELSE phase[r]]
  /\ task' = [r \in Request |-> NoTask]
  /\ UNCHANGED <<route, id, History>>

(* The process ends, maybe within a write; the kernel keeps its lines. *)
Exit ==
  /\ up
  /\ stops < MaxStops /\ stops' = stops + 1
  /\ torn' \in IF append.stage = "write" THEN BOOLEAN ELSE {torn}
  /\ UNCHANGED <<log, synced>>
  /\ Gone

(* The machine stops: lines no sync covered are lost, or torn. *)
PowerLoss ==
  /\ stops < MaxStops /\ stops' = stops + 1
  /\ \E kept \in synced .. Len(log) :
       /\ log' = SubSeq(log, 1, kept)
       /\ torn' \in IF kept < Len(log) \/ torn \/ append.stage = "write"
                    THEN BOOLEAN ELSE {FALSE}
       /\ synced' = kept
  /\ Gone

Next ==
  \/ Initialize \/ Open
  \/ \E r \in Request :
       \/ Arrive(r) \/ StartAppend(r) \/ Refused(r)
       \/ Send(r) \/ Validate(r) \/ Answer(r) \/ Fail(r)
  \/ WriteLine \/ Appended \/ AppendFails
  \/ Exit \/ PowerLoss

Spec == Init /\ [][Next]_vars

-----------------------------------------------------------------------------
Event ==
  {Header} \cup {Begin(i, rt) : i \in 1 .. MaxCalls, rt \in Route}
           \cup {Complete(i, rt) : i \in 1 .. MaxCalls, rt \in Route}

(* Types; a task that its request does not wait for belongs to one that    *)
(* ended, and only a running task holds the mutex.                         *)
TypeOK ==
  /\ log \in Seq(Event) /\ torn \in BOOLEAN /\ synced \in 0 .. Len(log)
  /\ up \in BOOLEAN /\ stops \in 0 .. MaxStops
  /\ healthy \in BOOLEAN /\ bytes \in 0 .. MaxFile /\ begun \in 0 .. MaxCalls
  /\ DOMAIN pending \subseteq 1 .. begun
  /\ \A i \in DOMAIN pending : pending[i] \in Route
  /\ phase \in [Request -> {"idle", "begin", "sent", "complete", "answered", "failed", "lost"}]
  /\ route \in [Request -> Route] /\ id \in [Request -> 0 .. MaxCalls]
  /\ task \in [Request -> {"none", "begin", "complete", "ok", "failed"}]
  /\ \A r \in Running : phase[r] \in {task[r], "failed"}
  /\ append.by # None => append.by \in Running /\ task[append.by] = append.event.event
  /\ sent \subseteq Request \X (1 .. MaxCalls) /\ validated \subseteq 1 .. MaxCalls

Dispatched == {p[2] : p \in sent}

(* "failed/aborted dispatch remains charged until proven complete": an     *)
(* attempt that was dispatched and not validated is pending in whatever a  *)
(* crash leaves of the file, and in the accounting of every process.       *)
UncertainRetained ==
  /\ \A kept \in synced .. Len(log) :
       Dispatched \ validated \subseteq Unfinished(SubSeq(log, 1, kept))
  /\ up => Dispatched \ validated \subseteq DOMAIN pending

(* The call budget is never refunded: over all processes, each dispatch    *)
(* has a reservation of its own that no crash takes back.                  *)
CallsNeverRefunded ==
  /\ \A p, q \in sent : p[2] = q[2] => p = q
  /\ Cardinality(sent) <= Begun(SubSeq(log, 1, synced))
  /\ up /\ append.stage # "sync" /\ healthy => begun = Begun(log)

(* A client that got its answer has a receipt in the synced file, for the  *)
(* attempt and the route that were reserved for it.                        *)
AnswerHasReceipt ==
  \A r \in Request : phase[r] = "answered" =>
    \E n \in 1 .. synced : log[n] = Complete(id[r], route[r])

(* The file keeps the evidence of every generation: what was dispatched    *)
(* and not validated, every reservation, and the receipt of every answer.  *)
EvidenceKept == TypeOK /\ UncertainRetained /\ CallsNeverRefunded /\ AnswerHasReceipt

(* The journal stays usable: a file without a torn line, whatever failed   *)
(* before, is accepted by the next process; and while one runs healthily,  *)
(* the receipt of every pending attempt fits whoever appends in between.   *)
JournalUsable ==
  /\ ~up /\ ~torn /\ log # <<>> => Accepted(log)
  /\ up /\ healthy /\ append.stage # "sync" =>
       /\ bytes = SizeOf(log)
       /\ LET receipts == DOMAIN pending \ {i \in DOMAIN pending :
                            append.by # None /\ append.event.event = "complete"
                            /\ append.event.id = i}
              line == IF append.by = None THEN 0 ELSE Size(append.event)
          IN bytes + line + Cardinality(receipts) * Reserve <= MaxFile
=============================================================================
