---------------------------- MODULE DecisionTrace ----------------------------
(***************************************************************************)
(* The telemetry of one gateway request.  gate (src/src/lib.rs) judges the *)
(* decision provider's answer, execute_inner (src/src/gateway.rs) notes a  *)
(* boundary at each step and may be abandoned at any await, and            *)
(* src/demo/routing_trace.py judges the trace again in another language    *)
(* before the recording keeps it.  A score is a number of steps of one     *)
(* Scale-th; Close stands for 1e-9 and Slack for 0.001.                    *)
(***************************************************************************)
EXTENDS Integers, Sequences, FiniteSetsExt, Functions

CONSTANTS
  Route,           \* the rubric's catalog, the local fallback among them
  Fallback,
  Unknown,         \* a label outside the catalog
  Scale, Close, Slack,
  MinConfidence, MinProbability, MinSupported,
  MaxTime          \* bound: readings of the clock of one request

ASSUME TraceAssumption ==
  /\ IsFiniteSet(Route) /\ Fallback \in Route /\ Unknown \notin Route
  /\ {Scale, Close, Slack, MaxTime} \subseteq Nat
  /\ {MinConfidence, MinProbability, MinSupported} \subseteq 0..Scale

VARIABLES
  stage,     \* the last boundary passed
  clock,     \* start.elapsed()
  trace      \* RoutingTrace

traceVars == <<stage, clock, trace>>

Unset == -1
Nothing == [reason |-> "none"]
Score == 0..Scale
Answer == [choice : Route \cup {Unknown}, probabilities : [Route -> Score],
           confidence : Score, supported : Score]
Boundary == <<"sent", "decided", "handlerSent", "handled">>

TraceTypeOK ==
  /\ stage \in Range(Boundary) \cup {"begun", "finished"}
  /\ clock \in 0..MaxTime
  /\ \A b \in Range(Boundary) \cup {"finished"} :
       trace[b] \in {Unset} \cup 0..clock

TraceInit ==
  /\ stage = "begun"
  /\ clock = 0
  /\ trace = [sent |-> Unset, decided |-> Unset, handlerSent |-> Unset, handled |-> Unset,
              finished |-> Unset, decision |-> Nothing]

-----------------------------------------------------------------------------
Total(probabilities) == MapThenSumSet(LAMBDA r : probabilities[r], Route)
Apart(a, b) == IF a < b THEN b - a ELSE a - b

(* gate: the answer is refused, or decided by the first threshold it misses. *)
Refused(a) ==
  \/ Apart(Total(a.probabilities), Scale) > Slack
  \/ a.choice \notin Route
  \/ \E r \in Route : a.probabilities[r] > a.probabilities[a.choice] + Close

BugReason(a) ==
  LET chosen == a.probabilities[a.choice]
  IN  IF a.choice = Fallback THEN "model_fallback"
      ELSE IF a.supported <= MinSupported THEN "unsupported"
      ELSE IF a.confidence < MinConfidence \/ chosen < MinProbability THEN "uncertain"
      ELSE "accepted"

Reason(a) ==
  LET chosen == a.probabilities[a.choice]
      missed == << a.choice = Fallback, a.supported < MinSupported,
                   a.confidence < MinConfidence \/ chosen < MinProbability,
                   \E r \in Route \ {a.choice} : Apart(a.probabilities[r], chosen) < Close >>
      first == {i \in 1..4 : missed[i]}
  IN  IF first = {} THEN "accepted"
      ELSE <<"model_fallback", "unsupported", "uncertain", "tie">>[Min(first)]

Gate(a) == [answer |-> a, reason |-> Reason(a),
            route |-> IF Reason(a) = "accepted" THEN a.choice ELSE Fallback]

-----------------------------------------------------------------------------
(* Each boundary reads the clock, which does not go back. *)
Mark(from, boundary) ==
  /\ stage = from
  /\ clock' \in clock..MaxTime
  /\ stage' = boundary

SendDecision == Mark("begun", "sent") /\ trace' = [trace EXCEPT !.sent = clock']

(* The evidence and its boundary are set with no await between them; an    *)
(* answer that gate refuses ends the request.                              *)
NoteDecision ==
  /\ Mark("sent", "decided")
  /\ \E a \in Answer :
       /\ ~ Refused(a)
       /\ trace' = [trace EXCEPT !.decided = clock', !.decision = Gate(a)]

SendHandler ==
  /\ Mark("decided", "handlerSent")
  /\ trace.decision.route # Fallback
  /\ trace' = [trace EXCEPT !.handlerSent = clock']

HandlerAnswered == Mark("handlerSent", "handled") /\ trace' = [trace EXCEPT !.handled = clock']

(* The deadline, an upstream's error, a refused answer or the normal end:  *)
(* execute_inner is over, and execute closes the trace it left behind.     *)
Finish ==
  /\ stage # "finished"
  /\ Mark(stage, "finished")
  /\ trace' = [trace EXCEPT !.finished = clock']

TraceNext == SendDecision \/ NoteDecision \/ SendHandler \/ HandlerAnswered \/ Finish

-----------------------------------------------------------------------------
(* validate_trace: boundaries in order, a missing one ending them ...      *)
InOrder(t) ==
  \E n \in 0..4 :
    /\ \A i \in 1..4 : IF i > n THEN t[Boundary[i]] = Unset ELSE t[Boundary[i]] \in 0..t.finished
    /\ \A i \in 2..n : t[Boundary[i - 1]] <= t[Boundary[i]]

(* ... and a decision that its own scores and thresholds explain. *)
Explained(d) ==
  LET a == d.answer
      p == a.probabilities
      chosen == p[a.choice]
      reason == IF a.choice = Fallback THEN "model_fallback"
                ELSE IF a.supported < MinSupported THEN "unsupported"
                ELSE IF a.confidence < MinConfidence \/ chosen < MinProbability THEN "uncertain"
                ELSE IF \E r \in Route \ {a.choice} : Apart(p[r], chosen) < Close THEN "tie"
                ELSE "accepted"
  IN  /\ a.choice \in Route
      /\ Apart(Total(p), Scale) <= Slack
      /\ \A r \in Route : p[r] <= chosen + Close
      /\ d.reason = reason
      /\ d.route = IF reason = "accepted" THEN a.choice ELSE Fallback

ValidTrace(t) ==
  /\ InOrder(t)
  /\ (t.decision = Nothing) = (t.decided = Unset)
  /\ t.decision # Nothing =>
       Explained(t.decision) /\ (t.decision.route = Fallback => t.handlerSent = Unset)

-----------------------------------------------------------------------------
(* src/demo/FLEET.md, src/demo/routing_trace.py: however a request ends,   *)
(* what the gateway says of it is accepted by the observer, which would    *)
(* otherwise throw the whole response away as invalid.                     *)
TraceAccepted == TraceTypeOK /\ (stage = "finished" => ValidTrace(trace))
==============================================================================
