---------------------------- MODULE RequestLedger ----------------------------
(***************************************************************************)
(* src/src/request_ledger.rs: the process-local ledger of one upstream.    *)
(*                                                                         *)
(* Every operation runs under one mutex and is one action, except the      *)
(* destructor of an Attempt: Drop reads the clock first and takes the      *)
(* mutex afterwards, so it is two actions (BeginDrop, Abandon) and the     *)
(* stamp it carries may be older than what other callers did meanwhile.    *)
(* An Instant is a number of ticks; a u64 total is a natural number (its   *)
(* overflow guard, 2^64 admissions away, is left out).                     *)
(***************************************************************************)
EXTENDS Integers, FiniteSets

CONSTANTS
  AdmissionLimit,  \* LedgerConfig.admission_limit
  TrackingLimit,   \* LedgerConfig.tracking_limit
  Ttl,             \* LedgerConfig.uncertainty_ttl, in ticks
  MaxAdmitted,     \* bound of the model: attempts ever admitted
  MaxTime          \* bound of the model: the last tick of the clock

ASSUME LimitsAssumption ==
  /\ AdmissionLimit \in Nat \ {0}
  /\ TrackingLimit \in Nat
  /\ TrackingLimit >= AdmissionLimit

ASSUME ClockAssumption == Ttl \in Nat /\ MaxAdmitted \in Nat /\ MaxTime \in Nat

VARIABLES
  now,       \* the monotonic clock
  records,   \* Inner.records: a function from sequence numbers to records
  totals,    \* Inner.totals
  owners,    \* the attempts whose Attempt value is alive
  dropping,  \* the attempts inside Drop, with the stamp Drop read
  sent,      \* history: the attempts handed to a transport
  fate       \* history: how each attempt that left the records ended

vars == <<now, records, totals, owners, dropping, sent, fate>>

NoTime == -1  \* None of Option<Instant>

Record == [state : {"Active", "Unconfirmed", "ExpiredUnconfirmed"},
           dispatched : BOOLEAN,
           since : Nat \cup {NoTime}]

Totals == [admitted : Nat, not_sent : Nat, response_received : Nat,
           backend_acknowledged : Nat, uncertainty : Nat, expiry : Nat]

Fate == {"not_sent", "response_received", "acknowledged"}

-----------------------------------------------------------------------------
(* Operators named Bug... are not used by the specification: each is the    *)
(* definition that follows it with a plausible mistake, for mutation runs. *)

BugElapsedWraps(t, since) == IF t >= since THEN t - since ELSE MaxTime + Ttl

(* saturating_duration_since *)
Elapsed(t, since) == IF t > since THEN t - since ELSE 0

BugExpireActive(recs, t) ==
  {i \in DOMAIN recs :
     recs[i].state # "ExpiredUnconfirmed" /\ Elapsed(t, recs[i].since) >= Ttl}

(* The records that expire() moves at clock value t, and what it leaves. *)
Expiring(recs, t) ==
  {i \in DOMAIN recs : recs[i].state = "Unconfirmed" /\ Elapsed(t, recs[i].since) >= Ttl}

BugExpireEvicts(recs, t) ==
  [i \in DOMAIN recs \ Expiring(recs, t) |-> recs[i]]

Expire(recs, t) ==
  [i \in DOMAIN recs |->
     IF i \in Expiring(recs, t)
     THEN [recs[i] EXCEPT !.state = "ExpiredUnconfirmed"] ELSE recs[i]]

BugExpiryRecounted(recs, t) ==
  totals.expiry + Cardinality({i \in DOMAIN recs : recs[i].state = "ExpiredUnconfirmed"})
                + Cardinality(Expiring(recs, t))

ExpiryTotal(recs, t) == totals.expiry + Cardinality(Expiring(recs, t))

(* Snapshot::charged and Snapshot::tracked of a set of records. *)
Charged(recs) == {i \in DOMAIN recs : recs[i].state \in {"Active", "Unconfirmed"}}
Tracked(recs) == DOMAIN recs

Put(recs, i, record) ==
  [j \in DOMAIN recs \cup {i} |-> IF j = i THEN record ELSE recs[j]]
Without(recs, i) == [j \in DOMAIN recs \ {i} |-> recs[j]]

-----------------------------------------------------------------------------
Init ==
  /\ now = 0
  /\ records = [i \in {} |-> 0]
  /\ totals = [admitted |-> 0, not_sent |-> 0, response_received |-> 0,
               backend_acknowledged |-> 0, uncertainty |-> 0, expiry |-> 0]
  /\ owners = {}
  /\ dropping = [i \in {} |-> 0]
  /\ sent = {}
  /\ fate = [i \in {} |-> "not_sent"]

Tick ==
  /\ now < MaxTime
  /\ now' = now + 1
  /\ UNCHANGED <<records, totals, owners, dropping, sent, fate>>

(* snapshot() and state(): a read that expires what is due. *)
Snapshot ==
  /\ records' = Expire(records, now)
  /\ totals' = [totals EXCEPT !.expiry = ExpiryTotal(records, now)]
  /\ UNCHANGED <<now, owners, dropping, sent, fate>>

(* try_admit: refused when the records or the charges are at their limit. *)
RoomFor(recs) ==
  /\ Cardinality(Tracked(recs)) < TrackingLimit
  /\ Cardinality(Charged(recs)) < AdmissionLimit

Admit ==
  LET kept == Expire(records, now)
      id == totals.admitted
  IN /\ totals.admitted < MaxAdmitted
     /\ RoomFor(kept)
     /\ records' = Put(kept, id, [state |-> "Active", dispatched |-> FALSE,
                                  since |-> NoTime])
     /\ totals' = [totals EXCEPT !.expiry = ExpiryTotal(records, now),
                                 !.admitted = @ + 1]
     /\ owners' = owners \cup {id}
     /\ UNCHANGED <<now, dropping, sent, fate>>

Refuse ==
  /\ ~RoomFor(Expire(records, now))
  /\ records' = Expire(records, now)
  /\ totals' = [totals EXCEPT !.expiry = ExpiryTotal(records, now)]
  /\ UNCHANGED <<now, owners, dropping, sent, fate>>

(* Attempt::mark_dispatched; a second call is refused and changes nothing. *)
MarkDispatched(id) ==
  /\ id \in owners
  /\ ~records[id].dispatched
  /\ records' = [records EXCEPT ![id].dispatched = TRUE]
  /\ sent' = sent \cup {id}
  /\ UNCHANGED <<now, totals, owners, dropping, fate>>

BugResponseUndispatched(id) ==
  /\ id \in owners
  /\ records' = Without(records, id)
  /\ totals' = [totals EXCEPT !.response_received = @ + 1]
  /\ owners' = owners \ {id}
  /\ fate' = Put(fate, id, "response_received")
  /\ UNCHANGED <<now, dropping, sent>>

(* Attempt::response_received of a dispatched attempt. *)
ResponseReceived(id) ==
  /\ id \in owners
  /\ records[id].dispatched
  /\ records' = Without(records, id)
  /\ totals' = [totals EXCEPT !.response_received = @ + 1]
  /\ owners' = owners \ {id}
  /\ fate' = Put(fate, id, "response_received")
  /\ UNCHANGED <<now, dropping, sent>>

(* Drop::drop up to the mutex: the clock is read, the owner is gone.  The  *)
(* error path of response_received (not dispatched) drops its self too.    *)
BeginDrop(id) ==
  /\ id \in owners
  /\ owners' = owners \ {id}
  /\ dropping' = Put(dropping, id, now)
  /\ UNCHANGED <<now, records, totals, sent, fate>>

(* abandon() of an attempt that was handed to a transport. *)
AbandonUncertain(id) ==
  LET stamp == dropping[id]
      marked == [records EXCEPT ![id].state = "Unconfirmed", ![id].since = stamp]
  IN /\ id \in DOMAIN dropping
     /\ records[id].dispatched
     /\ records' = Expire(marked, stamp)
     /\ totals' = [totals EXCEPT !.uncertainty = @ + 1,
                                 !.expiry = ExpiryTotal(marked, stamp)]
     /\ dropping' = Without(dropping, id)
     /\ UNCHANGED <<now, owners, sent, fate>>

(* abandon() of an attempt that never left the process. *)
AbandonNotSent(id) ==
  /\ id \in DOMAIN dropping
  /\ ~records[id].dispatched
  /\ records' = Without(records, id)
  /\ totals' = [totals EXCEPT !.not_sent = @ + 1]
  /\ dropping' = Without(dropping, id)
  /\ fate' = Put(fate, id, "not_sent")
  /\ UNCHANGED <<now, owners, sent>>

(* acknowledge_backend_completion: any caller that holds the id.  An       *)
(* Active record is refused (its owner finishes it), as an unknown one is; *)
(* what is due expires in either case, as in Snapshot.                     *)
Acknowledge(id) ==
  LET kept == Expire(records, now)
  IN /\ id \in DOMAIN records
     /\ kept[id].state # "Active"
     /\ records' = Without(kept, id)
     /\ totals' = [totals EXCEPT !.expiry = ExpiryTotal(records, now),
                                 !.backend_acknowledged = @ + 1]
     /\ fate' = Put(fate, id, "acknowledged")
     /\ UNCHANGED <<now, owners, dropping, sent>>

Next ==
  \/ Tick
  \/ Snapshot
  \/ Admit
  \/ Refuse
  \/ \E id \in owners :
       MarkDispatched(id) \/ ResponseReceived(id) \/ BeginDrop(id)
  \/ \E id \in DOMAIN dropping : AbandonUncertain(id) \/ AbandonNotSent(id)
  \/ \E id \in DOMAIN records : Acknowledge(id)

Spec == Init /\ [][Next]_vars

-----------------------------------------------------------------------------
(* Types of the variables; ids are handed out in order from zero. *)
TypeOK ==
  /\ now \in Nat
  /\ totals \in Totals
  /\ DOMAIN records \subseteq 0 .. totals.admitted - 1
  /\ \A i \in DOMAIN records : records[i] \in Record
  /\ owners \subseteq DOMAIN records
  /\ DOMAIN dropping \subseteq DOMAIN records
  /\ \A i \in DOMAIN dropping : dropping[i] \in Nat
  /\ sent \subseteq 0 .. totals.admitted - 1
  /\ DOMAIN fate \subseteq 0 .. totals.admitted - 1
  /\ \A i \in DOMAIN fate : fate[i] \in Fate

(* The record of an attempt that somebody still owns, or is dropping, is   *)
(* Active, and only such a record is: abandon()'s expect and assert_eq     *)
(* cannot fire, and no charge is left behind by an owner that is gone.     *)
OwnedIffActive ==
  /\ owners \cap DOMAIN dropping = {}
  /\ {i \in DOMAIN records : records[i].state = "Active"} = owners \cup DOMAIN dropping

(* No interleaving of admissions, expiry and drops exceeds the limits.     *)
(* Drop moves a record between charged states without checking a limit, so *)
(* this is about every operation, not only about try_admit's guard.        *)
WithinLimits ==
  /\ Cardinality(Charged(records)) <= AdmissionLimit
  /\ Cardinality(Tracked(records)) <= TrackingLimit

(* "Never evicted": work handed to a transport stays in the records until  *)
(* a validated response or an acknowledgment ends it, whatever the clock   *)
(* says.  Only work that was never handed over ends not_sent, and only     *)
(* work that was handed over is ever uncertain.                            *)
EvidenceRetained ==
  /\ \A i \in 0 .. totals.admitted - 1 : (i \in DOMAIN records) # (i \in DOMAIN fate)
  /\ \A i \in DOMAIN fate : (fate[i] = "not_sent") <=> (i \notin sent)
  /\ \A i \in DOMAIN records :
       /\ records[i].dispatched <=> i \in sent
       /\ records[i].state # "Active" => i \in sent

Ended(how) == {i \in DOMAIN fate : fate[i] = how}
Unresolved == {i \in DOMAIN records : records[i].state # "Active"}
Expired == {i \in DOMAIN records : records[i].state = "ExpiredUnconfirmed"}

(* Every admitted attempt is in exactly one place of a snapshot: a reader  *)
(* that adds up the terminal totals and the live counts finds them all.    *)
Conservation ==
  totals.admitted = totals.not_sent + totals.response_received
                    + totals.backend_acknowledged + Cardinality(Tracked(records))

(* The totals a status reader sees are true: they conserve what was        *)
(* admitted, each counts the attempts that ended that way, uncertainty is  *)
(* what is unresolved or was acknowledged, and no expiry is counted twice  *)
(* or missed.                                                              *)
TotalsTruthful ==
  /\ Conservation
  /\ totals.not_sent = Cardinality(Ended("not_sent"))
  /\ totals.response_received = Cardinality(Ended("response_received"))
  /\ totals.backend_acknowledged = Cardinality(Ended("acknowledged"))
  /\ totals.uncertainty = Cardinality(Unresolved) + totals.backend_acknowledged
  /\ Cardinality(Expired) <= totals.expiry
  /\ totals.expiry <= Cardinality(Expired) + totals.backend_acknowledged

(* A charge is not lifted early: an expired record is at least Ttl older   *)
(* than the moment its owner let go, even when abandon() expires others    *)
(* with a stamp it read before waiting for the mutex.                      *)
NoEarlyExpiry ==
  \A i \in Expired : records[i].since <= now /\ now - records[i].since >= Ttl

-----------------------------------------------------------------------------
(* The ledger implements the life of an attempt it promises. *)
Phase(i) ==
  IF i >= totals.admitted THEN "new"
  ELSE IF i \in DOMAIN fate THEN
         IF fate[i] = "response_received" THEN "received" ELSE fate[i]
  ELSE CASE records[i].state = "Unconfirmed" -> "uncertain"
         [] records[i].state = "ExpiredUnconfirmed" -> "lapsed"
         [] records[i].state = "Active" ->
              IF records[i].dispatched THEN "sent" ELSE "held"

Lifecycle == INSTANCE AttemptLifecycle WITH
  Attempt <- 0 .. MaxAdmitted - 1,
  phase <- [i \in 0 .. MaxAdmitted - 1 |-> Phase(i)]

(* Every step of the ledger moves at most one attempt along its life and   *)
(* lapses the charge of uncertain ones; no other change is ever visible.   *)
ImplementsLifecycle == Lifecycle!Spec
=============================================================================
