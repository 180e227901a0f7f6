-------------------------- MODULE AttemptLifecycle --------------------------
(***************************************************************************)
(* What a request ledger promises, without its records, clocks or totals:  *)
(* the life of each attempt.  An attempt that never left the process ends  *)
(* not_sent; one that did leave ends only on evidence (a validated         *)
(* response, or an acknowledgment of the backend), and until then it is    *)
(* tracked.  Time may lift the admission charge of an uncertain attempt    *)
(* ("lapsed"); it never ends the attempt.                                  *)
(***************************************************************************)
EXTENDS Integers, FiniteSets

CONSTANTS
  Attempt,         \* the identities a ledger may hand out
  AdmissionLimit,  \* at most this many attempts are charged
  TrackingLimit    \* at most this many attempts are tracked

VARIABLE phase     \* phase[a]: where attempt a is in its life

Charged == {a \in Attempt : phase[a] \in {"held", "sent", "uncertain"}}
Tracked == {a \in Attempt : phase[a] \in {"held", "sent", "uncertain", "lapsed"}}

WithinLimits ==
  /\ Cardinality(Charged) <= AdmissionLimit
  /\ Cardinality(Tracked) <= TrackingLimit

(* The steps of one attempt that its owner, or an acknowledgment, takes. *)
Move ==
  { <<"new", "held">>,
    <<"held", "sent">>, <<"held", "not_sent">>,
    <<"sent", "received">>, <<"sent", "uncertain">>, <<"sent", "lapsed">>,
    <<"uncertain", "acknowledged">>, <<"lapsed", "acknowledged">> }

Init == phase = [a \in Attempt |-> "new"]

(* One attempt may move; the charges of any uncertain attempts may lapse.  *)
Next ==
  /\ \E mover \in Attempt :
       /\ \/ <<phase[mover], phase'[mover]>> \in Move
          \/ phase[mover] = "uncertain" /\ phase'[mover] = "lapsed"
       /\ \A a \in Attempt \ {mover} :
            \/ phase'[a] = phase[a]
            \/ phase[a] = "uncertain" /\ phase'[a] = "lapsed"
  /\ WithinLimits'

Spec == Init /\ [][Next]_phase
=============================================================================
