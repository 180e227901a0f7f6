------------------------- MODULE RequestLedgerProofs -------------------------
(***************************************************************************)
(* Proofs about the request ledger, for every limit, TTL and bound.        *)
(*                                                                         *)
(* The inductive invariant is Inv.  Shape (types, and who may touch which  *)
(* record) carries the rest: an owner's record is Active, so neither an    *)
(* expiry nor an acknowledgment can take it from its owner.                *)
(***************************************************************************)
EXTENDS RequestLedger, FiniteSetTheorems, TLAPS

Shape == TypeOK /\ OwnedIffActive

-----------------------------------------------------------------------------
(* What expire() keeps of each record, and the one field it may change.    *)
LEMMA ExpireKeeps ==
  ASSUME NEW R, NEW t \in Nat, \A i \in DOMAIN R : R[i] \in Record
  PROVE  /\ DOMAIN Expire(R, t) = DOMAIN R
         /\ \A i \in DOMAIN R :
              /\ Expire(R, t)[i] \in Record
              /\ Expire(R, t)[i].dispatched = R[i].dispatched
              /\ Expire(R, t)[i].since = R[i].since
              /\ Expire(R, t)[i].state = IF i \in Expiring(R, t)
                                         THEN "ExpiredUnconfirmed" ELSE R[i].state
<1>1. DOMAIN Expire(R, t) = DOMAIN R
  BY DEF Expire
<1>2. ASSUME NEW i \in DOMAIN R
      PROVE  Expire(R, t)[i] = IF i \in Expiring(R, t)
                               THEN [R[i] EXCEPT !.state = "ExpiredUnconfirmed"]
                               ELSE R[i]
  BY DEF Expire
<1>3. QED
  BY <1>1, <1>2 DEF Record

(* Expiry never changes who is Active. *)
LEMMA ExpireActive ==
  ASSUME NEW R, NEW t \in Nat, \A i \in DOMAIN R : R[i] \in Record
  PROVE  \A i \in DOMAIN R :
           (Expire(R, t)[i].state = "Active") <=> (R[i].state = "Active")
BY ExpireKeeps DEF Expiring

(* Totals stay totals: the sets they count are finite. *)
LEMMA RecordsFinite ==
  ASSUME TypeOK
  PROVE  /\ IsFiniteSet(DOMAIN records)
         /\ \A S \in SUBSET DOMAIN records :
              IsFiniteSet(S) /\ Cardinality(S) \in Nat
<1>1. totals.admitted \in Nat
  BY DEF TypeOK, Totals
<1>2. IsFiniteSet(0 .. totals.admitted - 1)
  BY <1>1, FS_Interval
<1>3. IsFiniteSet(DOMAIN records)
  BY <1>2, FS_Subset DEF TypeOK
<1>4. QED
  BY <1>3, FS_Subset, FS_CardinalityType

LEMMA ExpiryTotalNat ==
  ASSUME TypeOK, NEW R, DOMAIN R = DOMAIN records, NEW t
  PROVE  ExpiryTotal(R, t) \in Nat
<1>1. Expiring(R, t) \in SUBSET DOMAIN records
  BY DEF Expiring
<1>2. Cardinality(Expiring(R, t)) \in Nat
  BY <1>1, RecordsFinite
<1>3. QED
  BY <1>2 DEF ExpiryTotal, TypeOK, Totals

-----------------------------------------------------------------------------
LEMMA ShapeInit == Init => Shape
BY DEF Init, Shape, TypeOK, OwnedIffActive, Totals

LEMMA ShapeStep == Shape /\ [Next]_vars => Shape'
<1> SUFFICES ASSUME Shape, [Next]_vars PROVE Shape'
  OBVIOUS
<1> USE DEF Shape
<1>a. /\ now \in Nat /\ totals \in Totals /\ totals.admitted \in Nat
      /\ totals.admitted + 1 \in Nat /\ totals.uncertainty + 1 \in Nat
      /\ totals.backend_acknowledged + 1 \in Nat
      /\ \A i \in DOMAIN records : records[i] \in Record
  BY DEF TypeOK, Totals
<1>b. /\ DOMAIN Expire(records, now) = DOMAIN records
      /\ \A i \in DOMAIN records :
           /\ Expire(records, now)[i] \in Record
           /\ (Expire(records, now)[i].state = "Active") <=> (records[i].state = "Active")
  BY <1>a, ExpireKeeps, ExpireActive
<1>c. ExpiryTotal(records, now) \in Nat
  BY ExpiryTotalNat
<1>1. CASE Tick
  BY <1>1, <1>a DEF Tick, TypeOK, OwnedIffActive
<1>2. CASE Snapshot
  <2>1. totals' \in Totals /\ totals'.admitted = totals.admitted
    BY <1>2, <1>a, <1>c DEF Snapshot, Totals
  <2>2. QED
    BY <1>2, <1>b, <2>1 DEF Snapshot, TypeOK, OwnedIffActive
<1>3. CASE Admit
  <2> DEFINE id == totals.admitted
  <2>1. totals' \in Totals /\ totals'.admitted = id + 1
    <3> DEFINE e == ExpiryTotal(records, now)
               n == totals.admitted + 1
    <3>1. totals' = [totals EXCEPT !.expiry = e, !.admitted = n]
      BY <1>3 DEF Admit
    <3>2. e \in Nat /\ n \in Nat
      BY <1>a, <1>c
    <3>3. n = totals.admitted + 1
      OBVIOUS
    <3> HIDE DEF e, n
    <3>4. /\ [totals EXCEPT !.expiry = e, !.admitted = n] \in Totals
          /\ [totals EXCEPT !.expiry = e, !.admitted = n].admitted = n
      BY <3>2, <1>a DEF Totals
    <3>5. QED
      BY <3>1, <3>3, <3>4
  <2>2. id \notin DOMAIN records
    BY <1>a DEF TypeOK
  <2>3. /\ DOMAIN records' = DOMAIN records \cup {id}
        /\ records'[id] = [state |-> "Active", dispatched |-> FALSE, since |-> NoTime]
        /\ \A i \in DOMAIN records : records'[i] = Expire(records, now)[i]
    BY <1>3, <1>b, <2>2 DEF Admit, Put
  <2>4. records'[id] \in Record /\ records'[id].state = "Active"
    BY <2>3 DEF Record
  <2>5. owners' = owners \cup {id} /\ UNCHANGED <<now, dropping, sent, fate>>
    BY <1>3 DEF Admit
  <2>6. TypeOK'
    BY <1>a, <1>b, <2>1, <2>2, <2>3, <2>4, <2>5 DEF TypeOK
  <2>7. OwnedIffActive'
    BY <1>b, <2>2, <2>3, <2>4, <2>5 DEF OwnedIffActive, TypeOK
  <2> QED
    BY <2>6, <2>7
<1>4. CASE Refuse
  <2>1. totals' \in Totals /\ totals'.admitted = totals.admitted
    BY <1>4, <1>a, <1>c DEF Refuse, Totals
  <2>2. QED
    BY <1>4, <1>b, <2>1 DEF Refuse, TypeOK, OwnedIffActive
<1>5. ASSUME NEW id \in owners, MarkDispatched(id)
      PROVE  Shape'
  <2>1. /\ DOMAIN records' = DOMAIN records
        /\ \A i \in DOMAIN records :
             records'[i] \in Record /\ records'[i].state = records[i].state
    BY <1>5, <1>a DEF MarkDispatched, TypeOK, Record
  <2>2. id \in 0 .. totals.admitted - 1
    BY DEF TypeOK
  <2>3. TypeOK'
    BY <1>5, <1>a, <2>1, <2>2 DEF MarkDispatched, TypeOK
  <2>4. OwnedIffActive'
    BY <1>5, <2>1 DEF MarkDispatched, OwnedIffActive
  <2> QED
    BY <2>3, <2>4
<1>6. ASSUME NEW id \in owners, ResponseReceived(id)
      PROVE  Shape'
  <2>1. totals' \in Totals /\ totals'.admitted = totals.admitted
    BY <1>6, <1>a DEF ResponseReceived, Totals
  <2>2. /\ DOMAIN records' = DOMAIN records \ {id}
        /\ \A i \in DOMAIN records' : records'[i] = records[i]
    BY <1>6 DEF ResponseReceived, Without
  <2>3. id \notin DOMAIN dropping /\ id \in 0 .. totals.admitted - 1
    BY DEF TypeOK, OwnedIffActive
  <2>4. /\ DOMAIN fate' = DOMAIN fate \cup {id}
        /\ \A i \in DOMAIN fate' : fate'[i] \in Fate
    BY <1>6 DEF ResponseReceived, Put, Fate, TypeOK
  <2>5. UNCHANGED <<now, dropping, sent>> /\ owners' = owners \ {id}
    BY <1>6 DEF ResponseReceived
  <2>6. TypeOK'
    BY <1>a, <2>1, <2>2, <2>3, <2>4, <2>5 DEF TypeOK
  <2>7. OwnedIffActive'
    BY <2>2, <2>3, <2>5 DEF OwnedIffActive
  <2> QED
    BY <2>6, <2>7
<1>7. ASSUME NEW id \in owners, BeginDrop(id)
      PROVE  Shape'
  <2>1. /\ DOMAIN dropping' = DOMAIN dropping \cup {id}
        /\ \A i \in DOMAIN dropping' : dropping'[i] \in Nat
    BY <1>7, <1>a DEF BeginDrop, Put, TypeOK
  <2>2. owners' = owners \ {id} /\ UNCHANGED <<now, records, totals, sent, fate>>
    BY <1>7 DEF BeginDrop
  <2>3. QED
    BY <2>1, <2>2 DEF TypeOK, OwnedIffActive
<1>8. ASSUME NEW id \in DOMAIN dropping, AbandonUncertain(id)
      PROVE  Shape'
  <2> DEFINE stamp == dropping[id]
             marked == [records EXCEPT ![id].state = "Unconfirmed", ![id].since = stamp]
  <2>1. stamp \in Nat /\ id \in DOMAIN records /\ id \notin owners
    BY DEF TypeOK, OwnedIffActive
  <2>2. /\ DOMAIN marked = DOMAIN records
        /\ \A i \in DOMAIN records :
             /\ marked[i] \in Record
             /\ i # id => marked[i].state = records[i].state
        /\ marked[id].state = "Unconfirmed"
    BY <1>a, <2>1 DEF Record
  <2>3. /\ DOMAIN Expire(marked, stamp) = DOMAIN records
        /\ \A i \in DOMAIN records :
             /\ Expire(marked, stamp)[i] \in Record
             /\ (Expire(marked, stamp)[i].state = "Active") <=> (marked[i].state = "Active")
    <3> HIDE DEF marked, stamp
    <3> QED BY <2>1, <2>2, ExpireKeeps, ExpireActive
  <2>4. ExpiryTotal(marked, stamp) \in Nat
    <3> HIDE DEF marked, stamp
    <3> QED BY <2>2, ExpiryTotalNat
  <2>5. totals' \in Totals /\ totals'.admitted = totals.admitted
    <3> DEFINE e == ExpiryTotal(marked, stamp)
               n == totals.uncertainty + 1
    <3>1. totals' = [totals EXCEPT !.uncertainty = n, !.expiry = e]
      BY <1>8 DEF AbandonUncertain
    <3>2. e \in Nat /\ n \in Nat
      BY <1>a, <2>4
    <3> HIDE DEF e, n
    <3>3. /\ [totals EXCEPT !.uncertainty = n, !.expiry = e] \in Totals
          /\ [totals EXCEPT !.uncertainty = n, !.expiry = e].admitted = totals.admitted
      BY <3>2, <1>a DEF Totals
    <3>4. QED
      BY <3>1, <3>3
  <2>6. /\ records' = Expire(marked, stamp)
        /\ DOMAIN dropping' = DOMAIN dropping \ {id}
        /\ \A i \in DOMAIN dropping' : dropping'[i] = dropping[i]
        /\ UNCHANGED <<now, owners, sent, fate>>
    BY <1>8 DEF AbandonUncertain, Without
  <2> HIDE DEF marked, stamp
  <2>7. TypeOK'
    BY <1>a, <2>1, <2>3, <2>5, <2>6 DEF TypeOK
  <2>8. OwnedIffActive'
    BY <2>1, <2>2, <2>3, <2>6 DEF OwnedIffActive
  <2> QED
    BY <2>7, <2>8
<1>9. ASSUME NEW id \in DOMAIN dropping, AbandonNotSent(id)
      PROVE  Shape'
  <2>1. totals' \in Totals /\ totals'.admitted = totals.admitted
    BY <1>9, <1>a DEF AbandonNotSent, Totals
  <2>2. /\ DOMAIN records' = DOMAIN records \ {id}
        /\ \A i \in DOMAIN records' : records'[i] = records[i]
        /\ DOMAIN dropping' = DOMAIN dropping \ {id}
        /\ \A i \in DOMAIN dropping' : dropping'[i] = dropping[i]
    BY <1>9 DEF AbandonNotSent, Without
  <2>3. id \notin owners /\ id \in 0 .. totals.admitted - 1
    BY DEF TypeOK, OwnedIffActive
  <2>4. /\ DOMAIN fate' = DOMAIN fate \cup {id}
        /\ \A i \in DOMAIN fate' : fate'[i] \in Fate
    BY <1>9 DEF AbandonNotSent, Put, Fate, TypeOK
  <2>5. UNCHANGED <<now, owners, sent>>
    BY <1>9 DEF AbandonNotSent
  <2>6. TypeOK'
    BY <1>a, <2>1, <2>2, <2>3, <2>4, <2>5 DEF TypeOK
  <2>7. OwnedIffActive'
    BY <2>2, <2>3, <2>5 DEF OwnedIffActive
  <2> QED
    BY <2>6, <2>7
<1>10. ASSUME NEW id \in DOMAIN records, Acknowledge(id)
       PROVE  Shape'
  <2>1. totals' \in Totals /\ totals'.admitted = totals.admitted
    <3> DEFINE e == ExpiryTotal(records, now)
               n == totals.backend_acknowledged + 1
    <3>1. totals' = [totals EXCEPT !.expiry = e, !.backend_acknowledged = n]
      BY <1>10 DEF Acknowledge
    <3>2. e \in Nat /\ n \in Nat
      BY <1>a, <1>c
    <3>3. n = totals.backend_acknowledged + 1
      OBVIOUS
    <3> HIDE DEF e, n
    <3>4. /\ [totals EXCEPT !.expiry = e, !.backend_acknowledged = n] \in Totals
          /\ [totals EXCEPT !.expiry = e, !.backend_acknowledged = n].admitted = totals.admitted
      BY <3>2, <1>a DEF Totals
    <3>5. QED
      BY <3>1, <3>3, <3>4
  <2>2. /\ DOMAIN records' = DOMAIN records \ {id}
        /\ \A i \in DOMAIN records' : records'[i] = Expire(records, now)[i]
    BY <1>10, <1>b DEF Acknowledge, Without
  <2>3. /\ id \notin owners /\ id \notin DOMAIN dropping
        /\ id \in 0 .. totals.admitted - 1
    BY <1>10, <1>b DEF Acknowledge, TypeOK, OwnedIffActive
  <2>4. /\ DOMAIN fate' = DOMAIN fate \cup {id}
        /\ \A i \in DOMAIN fate' : fate'[i] \in Fate
    BY <1>10 DEF Acknowledge, Put, Fate, TypeOK
  <2>5. UNCHANGED <<now, owners, dropping, sent>>
    BY <1>10 DEF Acknowledge
  <2>6. TypeOK'
    BY <1>a, <1>b, <2>1, <2>2, <2>3, <2>4, <2>5 DEF TypeOK
  <2>7. OwnedIffActive'
    BY <1>b, <2>2, <2>3, <2>5 DEF OwnedIffActive
  <2> QED
    BY <2>6, <2>7
<1>11. CASE UNCHANGED vars
  BY <1>11 DEF vars, TypeOK, OwnedIffActive
<1> QED
  BY <1>1, <1>2, <1>3, <1>4, <1>5, <1>6, <1>7, <1>8, <1>9, <1>10, <1>11 DEF Next

(* Types hold, and a record is Active exactly while somebody owns it or is *)
(* dropping it: abandon() always finds the Active record it asserts.       *)
THEOREM OwnersFindTheirRecords == Spec => [](TypeOK /\ OwnedIffActive)
<1>1. Init => Shape
  BY ShapeInit
<1>2. Shape /\ [Next]_vars => Shape'
  BY ShapeStep
<1>3. QED
  BY <1>1, <1>2, PTL DEF Spec, Shape

-----------------------------------------------------------------------------
(* How each operation changes the set of records and of charges.  Only     *)
(* Admit may add to either, by its own identity and after RoomFor.         *)
LEMMA ExpireLiftsCharges ==
  ASSUME NEW R, NEW t \in Nat, \A i \in DOMAIN R : R[i] \in Record
  PROVE  /\ DOMAIN Expire(R, t) = DOMAIN R
         /\ Charged(Expire(R, t)) \subseteq Charged(R)
BY ExpireKeeps DEF Charged

LEMMA ChargesShrink ==
  ASSUME Shape, [Next]_vars, ~Admit
  PROVE  /\ DOMAIN records' \subseteq DOMAIN records
         /\ Charged(records') \subseteq Charged(records)
<1> USE DEF Shape
<1>a. now \in Nat /\ \A i \in DOMAIN records : records[i] \in Record
  BY DEF TypeOK
<1>b. /\ DOMAIN Expire(records, now) = DOMAIN records
      /\ Charged(Expire(records, now)) \subseteq Charged(records)
  BY <1>a, ExpireLiftsCharges
<1>1. CASE Tick \/ UNCHANGED vars
  BY <1>1 DEF Tick, vars
<1>2. CASE Snapshot \/ Refuse
  BY <1>2, <1>b DEF Snapshot, Refuse
<1>3. ASSUME NEW id \in owners, MarkDispatched(id)
      PROVE  /\ DOMAIN records' = DOMAIN records
             /\ Charged(records') = Charged(records)
  <2>1. \A i \in DOMAIN records : records'[i].state = records[i].state
    BY <1>3, <1>a DEF MarkDispatched, Record
  <2>2. DOMAIN records' = DOMAIN records
    BY <1>3 DEF MarkDispatched
  <2>3. QED
    BY <2>1, <2>2 DEF Charged
<1>4. ASSUME NEW id \in owners, ResponseReceived(id)
      PROVE  /\ DOMAIN records' \subseteq DOMAIN records
             /\ Charged(records') \subseteq Charged(records)
  BY <1>4 DEF ResponseReceived, Without, Charged
<1>5. ASSUME NEW id \in owners, BeginDrop(id)
      PROVE  records' = records
  BY <1>5 DEF BeginDrop
<1>6. ASSUME NEW id \in DOMAIN dropping, AbandonUncertain(id)
      PROVE  /\ DOMAIN records' \subseteq DOMAIN records
             /\ Charged(records') \subseteq Charged(records)
  <2> DEFINE stamp == dropping[id]
             marked == [records EXCEPT ![id].state = "Unconfirmed", ![id].since = stamp]
  <2>1. stamp \in Nat /\ id \in DOMAIN records /\ records[id].state = "Active"
    BY DEF TypeOK, OwnedIffActive
  <2>2. /\ DOMAIN marked = DOMAIN records
        /\ \A i \in DOMAIN records :
             /\ marked[i] \in Record
             /\ i # id => marked[i].state = records[i].state
    BY <1>a, <2>1 DEF Record
  <2>3. Charged(marked) \subseteq Charged(records)
    BY <2>1, <2>2 DEF Charged
  <2>4. records' = Expire(marked, stamp)
    BY <1>6 DEF AbandonUncertain
  <2> HIDE DEF marked, stamp
  <2>5. /\ DOMAIN Expire(marked, stamp) = DOMAIN marked
        /\ Charged(Expire(marked, stamp)) \subseteq Charged(marked)
    BY <2>1, <2>2, ExpireLiftsCharges
  <2>6. QED
    BY <2>2, <2>3, <2>4, <2>5
<1>7. ASSUME NEW id \in DOMAIN dropping, AbandonNotSent(id)
      PROVE  /\ DOMAIN records' \subseteq DOMAIN records
             /\ Charged(records') \subseteq Charged(records)
  BY <1>7 DEF AbandonNotSent, Without, Charged
<1>8. ASSUME NEW id \in DOMAIN records, Acknowledge(id)
      PROVE  /\ DOMAIN records' \subseteq DOMAIN records
             /\ Charged(records') \subseteq Charged(records)
  <2>1. records' = Without(Expire(records, now), id)
    BY <1>8 DEF Acknowledge
  <2>2. Charged(Without(Expire(records, now), id)) \subseteq Charged(Expire(records, now))
    BY DEF Without, Charged
  <2>3. QED
    BY <2>1, <2>2, <1>b DEF Without
<1>9. QED
  BY <1>1, <1>2, <1>3, <1>4, <1>5, <1>6, <1>7, <1>8 DEF Next

LEMMA LimitsStep == Shape /\ WithinLimits /\ [Next]_vars => WithinLimits'
<1> SUFFICES ASSUME Shape, WithinLimits, [Next]_vars PROVE WithinLimits'
  OBVIOUS
<1>a. /\ IsFiniteSet(DOMAIN records)
      /\ \A S \in SUBSET DOMAIN records : IsFiniteSet(S) /\ Cardinality(S) \in Nat
  BY RecordsFinite DEF Shape
<1>1. CASE ~Admit
  <2>1. /\ Tracked(records') \subseteq Tracked(records)
        /\ Charged(records') \subseteq Charged(records)
    BY <1>1, ChargesShrink DEF Tracked
  <2>2. IsFiniteSet(Tracked(records)) /\ IsFiniteSet(Charged(records))
    BY <1>a DEF Tracked, Charged
  <2>3. /\ Cardinality(Tracked(records')) <= Cardinality(Tracked(records))
        /\ Cardinality(Charged(records')) <= Cardinality(Charged(records))
        /\ Cardinality(Tracked(records')) \in Nat /\ Cardinality(Charged(records')) \in Nat
    BY <2>1, <2>2, FS_Subset, FS_CardinalityType
  <2>4. Cardinality(Tracked(records)) \in Nat /\ Cardinality(Charged(records)) \in Nat
    BY <2>2, FS_CardinalityType
  <2>5. QED
    BY <2>3, <2>4, LimitsAssumption DEF WithinLimits
<1>2. CASE Admit
  <2> DEFINE id == totals.admitted
             kept == Expire(records, now)
  <2>1. now \in Nat /\ id \notin DOMAIN records
        /\ \A i \in DOMAIN records : records[i] \in Record
    BY DEF Shape, TypeOK, Totals
  <2>2. DOMAIN kept = DOMAIN records /\ Charged(kept) \subseteq DOMAIN records
    BY <2>1, ExpireLiftsCharges DEF Charged
  <2>3. /\ Cardinality(Tracked(kept)) < TrackingLimit
        /\ Cardinality(Charged(kept)) < AdmissionLimit
        /\ records' = Put(kept, id, [state |-> "Active", dispatched |-> FALSE,
                                     since |-> NoTime])
    BY <1>2 DEF Admit, RoomFor
  <2> HIDE DEF kept, id
  <2>4. Tracked(records') = Tracked(kept) \cup {id}
    BY <2>3 DEF Put, Tracked
  <2>5. Charged(records') = Charged(kept) \cup {id}
    BY <2>1, <2>2, <2>3 DEF Put, Charged
  <2>6. IsFiniteSet(Tracked(kept)) /\ IsFiniteSet(Charged(kept))
    BY <2>2, <1>a DEF Tracked
  <2>7. /\ Cardinality(Tracked(records')) = Cardinality(Tracked(kept)) + 1
        /\ Cardinality(Charged(records')) = Cardinality(Charged(kept)) + 1
    <3>1. id \notin Tracked(kept) /\ id \notin Charged(kept)
      BY <2>1, <2>2 DEF Tracked
    <3>2. QED
      BY <3>1, <2>4, <2>5, <2>6, FS_AddElement
  <2>8. Cardinality(Tracked(kept)) \in Nat /\ Cardinality(Charged(kept)) \in Nat
    BY <2>6, FS_CardinalityType
  <2>9. QED
    BY <2>3, <2>7, <2>8, LimitsAssumption DEF WithinLimits
<1>3. QED
  BY <1>1, <1>2

LEMMA LimitsInit == Init => WithinLimits
<1> SUFFICES ASSUME Init PROVE WithinLimits
  OBVIOUS
<1>1. Charged(records) = {} /\ Tracked(records) = {}
  BY DEF Init, Charged, Tracked
<1>2. QED
  BY <1>1, FS_EmptySet, LimitsAssumption DEF WithinLimits

(* The admission and the tracking limit hold in every state, whatever the  *)
(* order in which admissions, expiries, drops and acknowledgments meet.    *)
THEOREM LimitsHold == Spec => []WithinLimits
<1>1. Init => Shape /\ WithinLimits
  BY ShapeInit, LimitsInit
<1>2. Shape /\ WithinLimits /\ [Next]_vars => (Shape /\ WithinLimits)'
  BY ShapeStep, LimitsStep
<1>3. QED
  BY <1>1, <1>2, PTL DEF Spec

-----------------------------------------------------------------------------
LEMMA EvidenceInit == Init => EvidenceRetained
BY DEF Init, EvidenceRetained

LEMMA EvidenceStep == Shape /\ EvidenceRetained /\ [Next]_vars => EvidenceRetained'
<1> SUFFICES ASSUME Shape, EvidenceRetained, [Next]_vars PROVE EvidenceRetained'
  OBVIOUS
<1>a. /\ now \in Nat /\ totals.admitted \in Nat
      /\ \A i \in DOMAIN records : records[i] \in Record
      /\ sent \subseteq 0 .. totals.admitted - 1
      /\ DOMAIN records \subseteq 0 .. totals.admitted - 1
      /\ DOMAIN fate \subseteq 0 .. totals.admitted - 1
  BY DEF Shape, TypeOK, Totals
<1>b. /\ DOMAIN Expire(records, now) = DOMAIN records
      /\ \A i \in DOMAIN records :
           /\ Expire(records, now)[i].dispatched = records[i].dispatched
           /\ (Expire(records, now)[i].state = "Active") <=> (records[i].state = "Active")
  BY <1>a, ExpireKeeps, ExpireActive
<1>1. CASE Tick \/ UNCHANGED vars
  BY <1>1 DEF Tick, vars, EvidenceRetained
<1>2. CASE Snapshot \/ Refuse
  <2>1. /\ records' = Expire(records, now) /\ UNCHANGED <<sent, fate>>
        /\ totals'.admitted = totals.admitted
    BY <1>2 DEF Snapshot, Refuse, Shape, TypeOK, Totals
  <2>2. QED
    BY <2>1, <1>b DEF EvidenceRetained
<1>3. CASE Admit
  <2> DEFINE id == totals.admitted
  <2>1. totals'.admitted = id + 1 /\ UNCHANGED <<sent, fate>>
    BY <1>3 DEF Admit, Shape, TypeOK, Totals
  <2>2. /\ DOMAIN records' = DOMAIN records \cup {id}
        /\ records'[id].dispatched = FALSE /\ records'[id].state = "Active"
        /\ \A i \in DOMAIN records :
             /\ records'[i].dispatched = records[i].dispatched
             /\ (records'[i].state = "Active") <=> (records[i].state = "Active")
    <3>1. id \notin DOMAIN records
      BY <1>a
    <3>2. QED
      BY <1>3, <1>b, <3>1 DEF Admit, Put
  <2>3. id \notin sent /\ id \notin DOMAIN fate
    BY <1>a
  <2>4. 0 .. id = (0 .. id - 1) \cup {id} /\ (id + 1) - 1 = id
    BY <1>a
  <2>5. QED
    BY <2>1, <2>2, <2>3, <2>4 DEF EvidenceRetained
<1>4. ASSUME NEW id \in owners, MarkDispatched(id)
      PROVE  EvidenceRetained'
  <2>1. id \in DOMAIN records /\ id \notin DOMAIN fate
    BY <1>a DEF Shape, TypeOK, EvidenceRetained
  <2>2. /\ DOMAIN records' = DOMAIN records
        /\ records'[id].dispatched = TRUE /\ records'[id].state = records[id].state
        /\ \A i \in DOMAIN records \ {id} : records'[i] = records[i]
        /\ sent' = sent \cup {id} /\ UNCHANGED <<totals, fate>>
    BY <1>4, <1>a, <2>1 DEF MarkDispatched, Record
  <2>3. QED
    BY <2>1, <2>2 DEF EvidenceRetained
<1>5. ASSUME NEW id \in owners, BeginDrop(id)
      PROVE  EvidenceRetained'
  BY <1>5 DEF BeginDrop, EvidenceRetained
<1>6. ASSUME NEW id \in DOMAIN dropping, AbandonUncertain(id)
      PROVE  EvidenceRetained'
  <2> DEFINE stamp == dropping[id]
             marked == [records EXCEPT ![id].state = "Unconfirmed", ![id].since = stamp]
  <2>1. stamp \in Nat /\ id \in DOMAIN records
    BY DEF Shape, TypeOK
  <2>2. /\ DOMAIN marked = DOMAIN records
        /\ \A i \in DOMAIN records :
             /\ marked[i] \in Record
             /\ marked[i].dispatched = records[i].dispatched
             /\ i # id => marked[i].state = records[i].state
    BY <1>a, <2>1 DEF Record
  <2>3. /\ records' = Expire(marked, stamp) /\ UNCHANGED <<sent, fate>>
        /\ totals'.admitted = totals.admitted
    BY <1>6 DEF AbandonUncertain, Shape, TypeOK, Totals
  <2> HIDE DEF marked, stamp
  <2>4. /\ DOMAIN records' = DOMAIN records
        /\ \A i \in DOMAIN records :
             /\ records'[i].dispatched = records[i].dispatched
             /\ i # id => ((records'[i].state = "Active") <=> (records[i].state = "Active"))
    BY <2>1, <2>2, <2>3, ExpireKeeps, ExpireActive
  <2>5. records[id].dispatched
    BY <1>6 DEF AbandonUncertain
  <2>6. QED
    BY <2>1, <2>3, <2>4, <2>5 DEF EvidenceRetained
<1>7. ASSUME NEW id \in DOMAIN records, NEW how \in Fate,
             records' = Without(records, id) \/ records' = Without(Expire(records, now), id),
             fate' = Put(fate, id, how),
             (how = "not_sent") <=> ~records[id].dispatched,
             sent' = sent, totals'.admitted = totals.admitted
      PROVE  EvidenceRetained'
  <2>1. /\ DOMAIN records' = DOMAIN records \ {id}
        /\ \A i \in DOMAIN records' :
             /\ records'[i].dispatched = records[i].dispatched
             /\ (records'[i].state = "Active") <=> (records[i].state = "Active")
    BY <1>7, <1>b DEF Without
  <2>2. /\ DOMAIN fate' = DOMAIN fate \cup {id} /\ fate'[id] = how
        /\ \A i \in DOMAIN fate \ {id} : fate'[i] = fate[i]
    BY <1>7 DEF Put
  <2>3. (how = "not_sent") <=> (id \notin sent)
    BY <1>7 DEF EvidenceRetained
  <2>4. QED
    BY <1>7, <2>1, <2>2, <2>3 DEF EvidenceRetained
<1>8. ASSUME NEW id \in owners, ResponseReceived(id)
      PROVE  EvidenceRetained'
  <2>1. id \in DOMAIN records /\ "response_received" \in Fate
    BY DEF Shape, TypeOK, Fate
  <2>2. totals'.admitted = totals.admitted
    BY <1>8 DEF ResponseReceived, Shape, TypeOK, Totals
  <2>3. QED
    BY <1>7, <1>8, <2>1, <2>2 DEF ResponseReceived
<1>9. ASSUME NEW id \in DOMAIN dropping, AbandonNotSent(id)
      PROVE  EvidenceRetained'
  <2>1. id \in DOMAIN records /\ "not_sent" \in Fate
    BY DEF Shape, TypeOK, Fate
  <2>2. totals'.admitted = totals.admitted
    BY <1>9 DEF AbandonNotSent, Shape, TypeOK, Totals
  <2>3. QED
    BY <1>7, <1>9, <2>1, <2>2 DEF AbandonNotSent
<1>10. ASSUME NEW id \in DOMAIN records, Acknowledge(id)
       PROVE  EvidenceRetained'
  <2>1. "acknowledged" \in Fate
    BY DEF Fate
  <2>2. totals'.admitted = totals.admitted
    BY <1>10 DEF Acknowledge, Shape, TypeOK, Totals
  <2>3. records[id].dispatched
    <3>1. records[id].state # "Active"
      BY <1>10, <1>a, ExpireActive DEF Acknowledge
    <3>2. QED
      BY <3>1 DEF EvidenceRetained
  <2>4. QED
    BY <1>7, <1>10, <2>1, <2>2, <2>3 DEF Acknowledge
<1>11. QED
  BY <1>1, <1>2, <1>3, <1>4, <1>5, <1>6, <1>8, <1>9, <1>10 DEF Next

(* Work handed to a transport leaves the records only on evidence, and     *)
(* work that ends not_sent was never handed over.                          *)
THEOREM EvidenceIsRetained == Spec => []EvidenceRetained
<1>1. Init => Shape /\ EvidenceRetained
  BY ShapeInit, EvidenceInit
<1>2. Shape /\ EvidenceRetained /\ [Next]_vars => (Shape /\ EvidenceRetained)'
  BY ShapeStep, EvidenceStep
<1>3. QED
  BY <1>1, <1>2, PTL DEF Spec

-----------------------------------------------------------------------------
(* NoEarlyExpiry is inductive once the stamps are known to lie in the past. *)
StampsPast ==
  /\ \A i \in DOMAIN dropping : dropping[i] <= now
  /\ \A i \in DOMAIN records : records[i].state # "Active" =>
       records[i].since \in Nat /\ records[i].since <= now

LEMMA ExpireDue ==
  ASSUME NEW R, NEW t \in Nat, NEW n \in Nat, t <= n,
         \A i \in DOMAIN R : R[i] \in Record,
         \A i \in DOMAIN R : R[i].state # "Active" =>
            R[i].since \in Nat /\ R[i].since <= n,
         \A i \in DOMAIN R : R[i].state = "ExpiredUnconfirmed" => n - R[i].since >= Ttl
  PROVE  \A i \in DOMAIN R :
           /\ Expire(R, t)[i].state # "Active" =>
                /\ Expire(R, t)[i].since \in Nat
                /\ Expire(R, t)[i].since <= n
           /\ Expire(R, t)[i].state = "ExpiredUnconfirmed" =>
                n - Expire(R, t)[i].since >= Ttl
<1> SUFFICES ASSUME NEW i \in DOMAIN R
             PROVE  /\ Expire(R, t)[i].state # "Active" =>
                         Expire(R, t)[i].since \in Nat /\ Expire(R, t)[i].since <= n
                    /\ Expire(R, t)[i].state = "ExpiredUnconfirmed" =>
                         n - Expire(R, t)[i].since >= Ttl
  OBVIOUS
<1>1. /\ Expire(R, t)[i].since = R[i].since
      /\ Expire(R, t)[i].state = IF i \in Expiring(R, t)
                                 THEN "ExpiredUnconfirmed" ELSE R[i].state
  BY ExpireKeeps
<1>2. CASE i \in Expiring(R, t)
  <2>1. R[i].state = "Unconfirmed" /\ Elapsed(t, R[i].since) >= Ttl
    BY <1>2 DEF Expiring
  <2>2. R[i].since \in Nat /\ R[i].since <= n
    BY <2>1
  <2>3. n - R[i].since >= Ttl
    BY <2>1, <2>2, ClockAssumption DEF Elapsed
  <2>4. QED
    BY <1>1, <1>2, <2>2, <2>3
<1>3. CASE i \notin Expiring(R, t)
  BY <1>1, <1>3
<1>4. QED
  BY <1>2, <1>3

LEMMA ExpiryStep ==
  Shape /\ StampsPast /\ NoEarlyExpiry /\ [Next]_vars => (StampsPast /\ NoEarlyExpiry)'
<1> SUFFICES ASSUME Shape, StampsPast, NoEarlyExpiry, [Next]_vars
             PROVE  (StampsPast /\ NoEarlyExpiry)'
  OBVIOUS
<1>a. now \in Nat /\ \A i \in DOMAIN records : records[i] \in Record
  BY DEF Shape, TypeOK
<1>b. \A i \in DOMAIN records :
        /\ records[i].state # "Active" => records[i].since \in Nat /\ records[i].since <= now
        /\ records[i].state = "ExpiredUnconfirmed" => now - records[i].since >= Ttl
  BY DEF StampsPast, NoEarlyExpiry, Expired
<1> DEFINE Due(R, n) ==
      \A i \in DOMAIN R :
        /\ R[i].state # "Active" => R[i].since \in Nat /\ R[i].since <= n
        /\ R[i].state = "ExpiredUnconfirmed" => n - R[i].since >= Ttl
<1>c. Due(Expire(records, now), now) /\ DOMAIN Expire(records, now) = DOMAIN records
  BY <1>a, <1>b, ExpireDue, ExpireKeeps
<1>d. ASSUME now' \in Nat, Due(records', now'),
             \A i \in DOMAIN dropping' : dropping'[i] <= now'
      PROVE  (StampsPast /\ NoEarlyExpiry)'
  BY <1>d DEF StampsPast, NoEarlyExpiry, Expired
<1>1. CASE Tick
  <2>1. now' = now + 1 /\ UNCHANGED <<records, dropping>>
    BY <1>1 DEF Tick
  <2>2. Due(records', now')
    BY <2>1, <1>a, <1>b, ClockAssumption
  <2>3. \A i \in DOMAIN dropping' : dropping'[i] <= now'
    BY <2>1, <1>a DEF StampsPast, Shape, TypeOK
  <2>4. QED
    BY <2>1, <2>2, <2>3, <1>a, <1>d
<1>2. CASE Snapshot \/ Refuse
  BY <1>2, <1>a, <1>c, <1>d DEF Snapshot, Refuse, StampsPast
<1>3. CASE Admit
  <2>1. /\ records' = Put(Expire(records, now), totals.admitted,
                          [state |-> "Active", dispatched |-> FALSE, since |-> NoTime])
        /\ UNCHANGED <<now, dropping>>
    BY <1>3 DEF Admit
  <2>2. Due(records', now)
    BY <2>1, <1>c DEF Put
  <2>3. QED
    BY <2>1, <2>2, <1>a, <1>d DEF StampsPast
<1>4. ASSUME NEW id \in owners, MarkDispatched(id)
      PROVE  (StampsPast /\ NoEarlyExpiry)'
  <2>1. /\ DOMAIN records' = DOMAIN records
        /\ \A i \in DOMAIN records : /\ records'[i].state = records[i].state
                                     /\ records'[i].since = records[i].since
        /\ UNCHANGED <<now, dropping>>
    BY <1>4, <1>a DEF MarkDispatched, Record
  <2>2. Due(records', now)
    BY <2>1, <1>b
  <2>3. QED
    BY <2>1, <2>2, <1>a, <1>d DEF StampsPast
<1>5. ASSUME NEW id \in owners, ResponseReceived(id)
      PROVE  (StampsPast /\ NoEarlyExpiry)'
  <2>1. Due(records', now) /\ UNCHANGED <<now, dropping>>
    BY <1>5, <1>b DEF ResponseReceived, Without
  <2>2. QED
    BY <2>1, <1>a, <1>d DEF StampsPast
<1>6. ASSUME NEW id \in owners, BeginDrop(id)
      PROVE  (StampsPast /\ NoEarlyExpiry)'
  <2>1. Due(records', now) /\ UNCHANGED now
    BY <1>6, <1>b DEF BeginDrop
  <2>2. \A i \in DOMAIN dropping' : dropping'[i] <= now
    BY <1>6, <1>a DEF BeginDrop, Put, StampsPast
  <2>3. QED
    BY <2>1, <2>2, <1>a, <1>d
<1>7. ASSUME NEW id \in DOMAIN dropping, AbandonUncertain(id)
      PROVE  (StampsPast /\ NoEarlyExpiry)'
  <2> DEFINE stamp == dropping[id]
             marked == [records EXCEPT ![id].state = "Unconfirmed", ![id].since = stamp]
  <2>1. stamp \in Nat /\ stamp <= now /\ id \in DOMAIN records
    BY DEF Shape, TypeOK, StampsPast
  <2>2. /\ DOMAIN marked = DOMAIN records
        /\ \A i \in DOMAIN records :
             /\ marked[i] \in Record
             /\ i # id => marked[i] = records[i]
        /\ marked[id].state = "Unconfirmed" /\ marked[id].since = stamp
    BY <1>a, <2>1 DEF Record
  <2>3. /\ records' = Expire(marked, stamp) /\ UNCHANGED now
        /\ DOMAIN dropping' = DOMAIN dropping \ {id}
        /\ \A i \in DOMAIN dropping' : dropping'[i] = dropping[i]
    BY <1>7 DEF AbandonUncertain, Without
  <2> HIDE DEF marked, stamp
  <2>4. Due(marked, now)
    BY <1>b, <2>1, <2>2
  <2>5. Due(records', now)
    BY <1>a, <2>1, <2>2, <2>3, <2>4, ExpireDue, ExpireKeeps
  <2>6. QED
    BY <2>3, <2>5, <1>a, <1>d DEF StampsPast
<1>8. ASSUME NEW id \in DOMAIN dropping, AbandonNotSent(id)
      PROVE  (StampsPast /\ NoEarlyExpiry)'
  <2>1. /\ Due(records', now) /\ UNCHANGED now
        /\ \A i \in DOMAIN dropping' : i \in DOMAIN dropping /\ dropping'[i] = dropping[i]
    BY <1>8, <1>b DEF AbandonNotSent, Without
  <2>2. QED
    BY <2>1, <1>a, <1>d DEF StampsPast
<1>9. ASSUME NEW id \in DOMAIN records, Acknowledge(id)
      PROVE  (StampsPast /\ NoEarlyExpiry)'
  <2>1. Due(records', now) /\ UNCHANGED <<now, dropping>>
    BY <1>9, <1>c DEF Acknowledge, Without
  <2>2. QED
    BY <2>1, <1>a, <1>d DEF StampsPast
<1>10. CASE UNCHANGED vars
  BY <1>10 DEF vars, StampsPast, NoEarlyExpiry, Expired
<1>11. QED
  BY <1>1, <1>2, <1>3, <1>4, <1>5, <1>6, <1>7, <1>8, <1>9, <1>10 DEF Next

(* An expired charge is at least a full TTL old, counted from the moment   *)
(* its owner let go, in spite of the stale stamps abandon() works with.    *)
THEOREM ExpiryIsNeverEarly == Spec => []NoEarlyExpiry
<1>1. Init => Shape /\ StampsPast /\ NoEarlyExpiry
  BY ShapeInit DEF Init, StampsPast, NoEarlyExpiry, Expired
<1>2. Shape /\ StampsPast /\ NoEarlyExpiry /\ [Next]_vars
        => (Shape /\ StampsPast /\ NoEarlyExpiry)'
  BY ShapeStep, ExpiryStep
<1>3. QED
  BY <1>1, <1>2, PTL DEF Spec

-----------------------------------------------------------------------------
(* The totals a status reader sees, and the sets they count. *)
UnresolvedIn(R) == {i \in DOMAIN R : R[i].state # "Active"}
ExpiredIn(R) == {i \in DOMAIN R : R[i].state = "ExpiredUnconfirmed"}

(* What expire() adds to the expired records is what it adds to the total. *)
LEMMA ExpireCounts ==
  ASSUME NEW R, NEW t \in Nat, \A i \in DOMAIN R : R[i] \in Record, IsFiniteSet(DOMAIN R)
  PROVE  /\ DOMAIN Expire(R, t) = DOMAIN R
         /\ UnresolvedIn(Expire(R, t)) = UnresolvedIn(R)
         /\ ExpiredIn(Expire(R, t)) = ExpiredIn(R) \cup Expiring(R, t)
         /\ Cardinality(ExpiredIn(R) \cup Expiring(R, t))
              = Cardinality(ExpiredIn(R)) + Cardinality(Expiring(R, t))
<1>1. /\ DOMAIN Expire(R, t) = DOMAIN R
      /\ \A i \in DOMAIN R : Expire(R, t)[i].state = IF i \in Expiring(R, t)
                                                     THEN "ExpiredUnconfirmed" ELSE R[i].state
  BY ExpireKeeps
<1>2. \A i \in Expiring(R, t) : i \in DOMAIN R /\ R[i].state = "Unconfirmed"
  BY DEF Expiring
<1>3. UnresolvedIn(Expire(R, t)) = UnresolvedIn(R)
  BY <1>1, <1>2 DEF UnresolvedIn
<1>4. ExpiredIn(Expire(R, t)) = ExpiredIn(R) \cup Expiring(R, t)
  BY <1>1, <1>2 DEF ExpiredIn
<1>5. ExpiredIn(R) \cap Expiring(R, t) = {}
  BY <1>2 DEF ExpiredIn
<1>6. IsFiniteSet(ExpiredIn(R)) /\ IsFiniteSet(Expiring(R, t))
  <2>1. ExpiredIn(R) \subseteq DOMAIN R /\ Expiring(R, t) \subseteq DOMAIN R
    BY DEF ExpiredIn, Expiring
  <2>2. QED
    BY <2>1, FS_Subset
<1>7. Cardinality(ExpiredIn(R) \cup Expiring(R, t))
        = Cardinality(ExpiredIn(R)) + Cardinality(Expiring(R, t)) - 0
  BY <1>5, <1>6, FS_Union, FS_EmptySet
<1>8. Cardinality(ExpiredIn(R)) \in Nat /\ Cardinality(Expiring(R, t)) \in Nat
  BY <1>6, FS_CardinalityType
<1>9. QED
  BY <1>1, <1>3, <1>4, <1>7, <1>8

(* The sets are finite, and an attempt that ends joins one of them.        *)
LEMMA CountsFinite ==
  ASSUME TypeOK
  PROVE  /\ IsFiniteSet(DOMAIN records) /\ Cardinality(DOMAIN records) \in Nat
         /\ IsFiniteSet(UnresolvedIn(records)) /\ Cardinality(UnresolvedIn(records)) \in Nat
         /\ IsFiniteSet(ExpiredIn(records)) /\ Cardinality(ExpiredIn(records)) \in Nat
         /\ \A how \in Fate : IsFiniteSet(Ended(how)) /\ Cardinality(Ended(how)) \in Nat
<1>1. totals.admitted \in Nat
  BY DEF TypeOK, Totals
<1>2. IsFiniteSet(0 .. totals.admitted - 1)
  BY <1>1, FS_Interval
<1>3. /\ DOMAIN records \subseteq 0 .. totals.admitted - 1
      /\ UnresolvedIn(records) \subseteq 0 .. totals.admitted - 1
      /\ ExpiredIn(records) \subseteq 0 .. totals.admitted - 1
      /\ \A how \in Fate : Ended(how) \subseteq 0 .. totals.admitted - 1
  BY DEF TypeOK, UnresolvedIn, ExpiredIn, Ended
<1>4. QED
  BY <1>2, <1>3, FS_Subset, FS_CardinalityType

LEMMA FateCounts ==
  ASSUME TypeOK, NEW id, id \notin DOMAIN fate, NEW how \in Fate, fate' = Put(fate, id, how)
  PROVE  \A h \in Fate :
           Cardinality(Ended(h)') = IF h = how THEN Cardinality(Ended(h)) + 1
                                    ELSE Cardinality(Ended(h))
<1> SUFFICES ASSUME NEW h \in Fate
             PROVE  Cardinality(Ended(h)') = IF h = how THEN Cardinality(Ended(h)) + 1
                                             ELSE Cardinality(Ended(h))
  OBVIOUS
<1>1. /\ DOMAIN fate' = DOMAIN fate \cup {id} /\ fate'[id] = how
      /\ \A i \in DOMAIN fate : fate'[i] = fate[i]
  BY DEF Put
<1>2. id \notin Ended(h)
  BY DEF Ended
<1>3. CASE h = how
  <2>1. Ended(h)' = Ended(h) \cup {id}
    BY <1>1, <1>3 DEF Ended
  <2>2. QED
    BY <1>2, <1>3, <2>1, CountsFinite, FS_AddElement
<1>4. CASE h # how
  <2>1. Ended(h)' = Ended(h)
    BY <1>1, <1>4 DEF Ended
  <2>2. QED
    BY <1>4, <2>1
<1>5. QED
  BY <1>3, <1>4

(* TotalsTruthful in numbers: r records, u unresolved and x expired ones,  *)
(* and the attempts that ended in each of the three ways.                  *)
Truthful(T, r, u, x, unsent, received, acknowledged) ==
  /\ T.admitted = T.not_sent + T.response_received + T.backend_acknowledged + r
  /\ T.not_sent = unsent
  /\ T.response_received = received
  /\ T.backend_acknowledged = acknowledged
  /\ T.uncertainty = u + T.backend_acknowledged
  /\ x <= T.expiry /\ T.expiry <= x + T.backend_acknowledged

LEMMA TruthfulIsTruth ==
  TotalsTruthful <=>
    Truthful(totals, Cardinality(DOMAIN records), Cardinality(UnresolvedIn(records)),
             Cardinality(ExpiredIn(records)), Cardinality(Ended("not_sent")),
             Cardinality(Ended("response_received")), Cardinality(Ended("acknowledged")))
BY DEF TotalsTruthful, Truthful, Conservation, Tracked, UnresolvedIn, ExpiredIn, Unresolved,
       Expired

LEMMA TruthfulIsTruthNext ==
  TotalsTruthful' <=>
    Truthful(totals', Cardinality(DOMAIN records'), Cardinality(UnresolvedIn(records')),
             Cardinality(ExpiredIn(records')), Cardinality(Ended("not_sent")'),
             Cardinality(Ended("response_received")'), Cardinality(Ended("acknowledged")'))
BY DEF TotalsTruthful, Truthful, Conservation, Tracked, UnresolvedIn, ExpiredIn, Unresolved,
       Expired

LEMMA TotalsStep ==
  Shape /\ EvidenceRetained /\ TotalsTruthful /\ [Next]_vars => TotalsTruthful'
<1> SUFFICES ASSUME Shape, EvidenceRetained, TotalsTruthful, [Next]_vars
             PROVE  TotalsTruthful'
  OBVIOUS
<1> DEFINE r == Cardinality(DOMAIN records)
           u == Cardinality(UnresolvedIn(records))
           x == Cardinality(ExpiredIn(records))
           n == Cardinality(Ended("not_sent"))
           s == Cardinality(Ended("response_received"))
           a == Cardinality(Ended("acknowledged"))
           due == Cardinality(Expiring(records, now))
<1>t. TypeOK /\ OwnedIffActive
  BY DEF Shape
<1>a. /\ now \in Nat /\ \A i \in DOMAIN records : records[i] \in Record
      /\ totals.admitted \in Nat /\ totals.not_sent \in Nat /\ totals.response_received \in Nat
      /\ totals.backend_acknowledged \in Nat /\ totals.uncertainty \in Nat /\ totals.expiry \in Nat
      /\ totals \in Totals
  BY <1>t DEF TypeOK, Totals
<1>b. /\ IsFiniteSet(DOMAIN records) /\ r \in Nat
      /\ IsFiniteSet(UnresolvedIn(records)) /\ u \in Nat
      /\ IsFiniteSet(ExpiredIn(records)) /\ x \in Nat
      /\ n \in Nat /\ s \in Nat /\ a \in Nat
  BY <1>t, CountsFinite DEF Fate
<1>c. due \in Nat
  <2>1. Expiring(records, now) \subseteq DOMAIN records
    BY DEF Expiring
  <2>2. QED
    BY <1>b, <2>1, FS_Subset, FS_CardinalityType
<1>d. Truthful(totals, r, u, x, n, s, a)
  BY TruthfulIsTruth
<1>e. /\ DOMAIN Expire(records, now) = DOMAIN records
      /\ UnresolvedIn(Expire(records, now)) = UnresolvedIn(records)
      /\ ExpiredIn(Expire(records, now)) = ExpiredIn(records) \cup Expiring(records, now)
      /\ Cardinality(ExpiredIn(Expire(records, now))) = x + due
  BY <1>a, <1>b, ExpireCounts
<1>f. ExpiryTotal(records, now) = totals.expiry + due
  BY DEF ExpiryTotal
<1>g. /\ "not_sent" \in Fate /\ "response_received" \in Fate /\ "acknowledged" \in Fate
      /\ \A i \in DOMAIN records : i \notin DOMAIN fate
  BY <1>t DEF Fate, EvidenceRetained, TypeOK
<1>h. ASSUME UNCHANGED fate PROVE UNCHANGED <<Ended("not_sent"), Ended("response_received"),
                                              Ended("acknowledged")>>
  BY <1>h DEF Ended
<1> HIDE DEF r, u, x, n, s, a, due
<1>1. CASE Tick \/ UNCHANGED vars
  BY <1>1 DEF Tick, vars, TotalsTruthful, Conservation, Ended, Unresolved, Expired
<1>2. CASE Snapshot \/ Refuse
  <2>1. /\ records' = Expire(records, now) /\ UNCHANGED fate
        /\ totals' = [totals EXCEPT !.expiry = ExpiryTotal(records, now)]
    BY <1>2 DEF Snapshot, Refuse
  <2>2. /\ totals'.admitted = totals.admitted /\ totals'.not_sent = totals.not_sent
        /\ totals'.response_received = totals.response_received
        /\ totals'.backend_acknowledged = totals.backend_acknowledged
        /\ totals'.uncertainty = totals.uncertainty /\ totals'.expiry = totals.expiry + due
    BY <1>a, <1>f, <2>1 DEF Totals
  <2>3. Truthful(totals', r, u, x + due, n, s, a)
    BY <1>a, <1>b, <1>c, <1>d, <2>2 DEF Truthful
  <2>4. QED
    BY <1>e, <1>h, <2>1, <2>3, TruthfulIsTruthNext DEF r, u, x, n, s, a
<1>3. CASE Admit
  <2> DEFINE id == totals.admitted
  <2>1. /\ records' = Put(Expire(records, now), id,
                          [state |-> "Active", dispatched |-> FALSE, since |-> NoTime])
        /\ totals' = [totals EXCEPT !.expiry = ExpiryTotal(records, now), !.admitted = @ + 1]
        /\ UNCHANGED fate
    BY <1>3 DEF Admit
  <2>2. /\ totals'.admitted = totals.admitted + 1 /\ totals'.not_sent = totals.not_sent
        /\ totals'.response_received = totals.response_received
        /\ totals'.backend_acknowledged = totals.backend_acknowledged
        /\ totals'.uncertainty = totals.uncertainty /\ totals'.expiry = totals.expiry + due
    BY <1>a, <1>f, <2>1 DEF Totals
  <2>3. id \notin DOMAIN records
    BY <1>a, <1>t DEF TypeOK
  <2>4. /\ DOMAIN records' = DOMAIN records \cup {id}
        /\ records'[id].state = "Active"
        /\ \A i \in DOMAIN records : records'[i] = Expire(records, now)[i]
    BY <1>e, <2>1, <2>3 DEF Put
  <2>5. /\ UnresolvedIn(records') = UnresolvedIn(Expire(records, now))
        /\ ExpiredIn(records') = ExpiredIn(Expire(records, now))
    BY <1>e, <2>3, <2>4 DEF UnresolvedIn, ExpiredIn
  <2>6. Cardinality(DOMAIN records') = r + 1
    BY <1>b, <2>3, <2>4, FS_AddElement DEF r
  <2>7. Truthful(totals', r + 1, u, x + due, n, s, a)
    BY <1>a, <1>b, <1>c, <1>d, <2>2 DEF Truthful
  <2>8. QED
    BY <1>e, <1>h, <2>1, <2>5, <2>6, <2>7, TruthfulIsTruthNext DEF u, n, s, a
<1>4. ASSUME NEW id \in owners, MarkDispatched(id) PROVE TotalsTruthful'
  <2>1. /\ DOMAIN records' = DOMAIN records
        /\ \A i \in DOMAIN records : records'[i].state = records[i].state
        /\ UNCHANGED <<totals, fate>>
    BY <1>4, <1>a DEF MarkDispatched, Record
  <2>2. UnresolvedIn(records') = UnresolvedIn(records) /\ ExpiredIn(records') = ExpiredIn(records)
    BY <2>1 DEF UnresolvedIn, ExpiredIn
  <2>3. QED
    BY <1>d, <1>h, <2>1, <2>2, TruthfulIsTruthNext DEF r, u, x, n, s, a
<1>5. ASSUME NEW id \in owners, BeginDrop(id) PROVE TotalsTruthful'
  BY <1>5 DEF BeginDrop, TotalsTruthful, Conservation, Ended, Unresolved, Expired
<1>6. ASSUME NEW id \in DOMAIN records, records[id].state = "Active", records' = Without(records, id)
      PROVE  /\ Cardinality(DOMAIN records') = r - 1
             /\ UnresolvedIn(records') = UnresolvedIn(records)
             /\ ExpiredIn(records') = ExpiredIn(records)
  <2>1. /\ DOMAIN records' = DOMAIN records \ {id}
        /\ \A i \in DOMAIN records' : records'[i] = records[i]
    BY <1>6 DEF Without
  <2>2. Cardinality(DOMAIN records') = r - 1
    BY <1>b, <1>6, <2>1, FS_RemoveElement DEF r
  <2>3. QED
    BY <1>6, <2>1, <2>2 DEF UnresolvedIn, ExpiredIn
<1>7. ASSUME NEW id \in owners, ResponseReceived(id) PROVE TotalsTruthful'
  <2>1. /\ records' = Without(records, id) /\ fate' = Put(fate, id, "response_received")
        /\ totals' = [totals EXCEPT !.response_received = @ + 1]
    BY <1>7 DEF ResponseReceived
  <2>2. id \in DOMAIN records /\ records[id].state = "Active"
    BY <1>t DEF TypeOK, OwnedIffActive
  <2>3. /\ totals'.admitted = totals.admitted /\ totals'.not_sent = totals.not_sent
        /\ totals'.response_received = totals.response_received + 1
        /\ totals'.backend_acknowledged = totals.backend_acknowledged
        /\ totals'.uncertainty = totals.uncertainty /\ totals'.expiry = totals.expiry
    BY <1>a, <2>1 DEF Totals
  <2>4. /\ Cardinality(Ended("not_sent")') = n
        /\ Cardinality(Ended("response_received")') = s + 1
        /\ Cardinality(Ended("acknowledged")') = a
    BY <1>g, <1>t, <2>1, <2>2, FateCounts DEF n, s, a
  <2>5. Truthful(totals', r - 1, u, x, n, s + 1, a)
    BY <1>a, <1>b, <1>d, <2>3 DEF Truthful
  <2>6. QED
    BY <1>6, <2>1, <2>2, <2>4, <2>5, TruthfulIsTruthNext DEF u, x
<1>8. ASSUME NEW id \in DOMAIN dropping, AbandonNotSent(id) PROVE TotalsTruthful'
  <2>1. /\ records' = Without(records, id) /\ fate' = Put(fate, id, "not_sent")
        /\ totals' = [totals EXCEPT !.not_sent = @ + 1]
    BY <1>8 DEF AbandonNotSent
  <2>2. id \in DOMAIN records /\ records[id].state = "Active"
    BY <1>t DEF TypeOK, OwnedIffActive
  <2>3. /\ totals'.admitted = totals.admitted /\ totals'.not_sent = totals.not_sent + 1
        /\ totals'.response_received = totals.response_received
        /\ totals'.backend_acknowledged = totals.backend_acknowledged
        /\ totals'.uncertainty = totals.uncertainty /\ totals'.expiry = totals.expiry
    BY <1>a, <2>1 DEF Totals
  <2>4. /\ Cardinality(Ended("not_sent")') = n + 1
        /\ Cardinality(Ended("response_received")') = s
        /\ Cardinality(Ended("acknowledged")') = a
    BY <1>g, <1>t, <2>1, <2>2, FateCounts DEF n, s, a
  <2>5. Truthful(totals', r - 1, u, x, n + 1, s, a)
    BY <1>a, <1>b, <1>d, <2>3 DEF Truthful
  <2>6. QED
    BY <1>6, <2>1, <2>2, <2>4, <2>5, TruthfulIsTruthNext DEF u, x
<1>9. ASSUME NEW id \in DOMAIN dropping, AbandonUncertain(id) PROVE TotalsTruthful'
  <2> DEFINE stamp == dropping[id]
             marked == [records EXCEPT ![id].state = "Unconfirmed", ![id].since = stamp]
             moved == Cardinality(Expiring(marked, stamp))
  <2>1. /\ stamp \in Nat /\ id \in DOMAIN records /\ records[id].state = "Active"
    BY <1>t DEF TypeOK, OwnedIffActive
  <2>2. /\ DOMAIN marked = DOMAIN records
        /\ \A i \in DOMAIN records :
             /\ marked[i] \in Record
             /\ i # id => marked[i] = records[i]
        /\ marked[id].state = "Unconfirmed"
    BY <1>a, <2>1 DEF Record
  <2>3. /\ records' = Expire(marked, stamp) /\ UNCHANGED fate
        /\ totals' = [totals EXCEPT !.uncertainty = @ + 1, !.expiry = ExpiryTotal(marked, stamp)]
    BY <1>9 DEF AbandonUncertain
  <2>4. ExpiryTotal(marked, stamp) = totals.expiry + moved
    BY DEF ExpiryTotal
  <2>5. /\ totals'.admitted = totals.admitted /\ totals'.not_sent = totals.not_sent
        /\ totals'.response_received = totals.response_received
        /\ totals'.backend_acknowledged = totals.backend_acknowledged
        /\ totals'.uncertainty = totals.uncertainty + 1 /\ totals'.expiry = totals.expiry + moved
    BY <1>a, <2>3, <2>4 DEF Totals
  <2> HIDE DEF marked, stamp
  <2>6. /\ UnresolvedIn(marked) = UnresolvedIn(records) \cup {id} /\ id \notin UnresolvedIn(records)
        /\ ExpiredIn(marked) = ExpiredIn(records)
    BY <2>1, <2>2 DEF UnresolvedIn, ExpiredIn
  <2>7. Cardinality(UnresolvedIn(marked)) = u + 1
    BY <1>b, <2>6, FS_AddElement DEF u
  <2>8. moved \in Nat
    <3>1. Expiring(marked, stamp) \subseteq DOMAIN records
      BY <2>2 DEF Expiring
    <3>2. QED
      BY <1>b, <3>1, FS_Subset, FS_CardinalityType
  <2>9. /\ DOMAIN records' = DOMAIN records
        /\ UnresolvedIn(records') = UnresolvedIn(marked)
        /\ Cardinality(ExpiredIn(records')) = x + moved
    BY <1>b, <2>1, <2>2, <2>3, <2>6, ExpireCounts DEF x
  <2> HIDE DEF moved
  <2>10. Truthful(totals', r, u + 1, x + moved, n, s, a)
    BY <1>a, <1>b, <1>d, <2>5, <2>8 DEF Truthful
  <2>11. QED
    BY <1>h, <2>3, <2>7, <2>9, <2>10, TruthfulIsTruthNext DEF r, n, s, a
<1>10. ASSUME NEW id \in DOMAIN records, Acknowledge(id) PROVE TotalsTruthful'
  <2> DEFINE kept == Expire(records, now)
  <2>1. /\ records' = Without(kept, id) /\ fate' = Put(fate, id, "acknowledged")
        /\ totals' = [totals EXCEPT !.expiry = ExpiryTotal(records, now),
                                    !.backend_acknowledged = @ + 1]
        /\ kept[id].state # "Active"
    BY <1>10 DEF Acknowledge
  <2>2. /\ totals'.admitted = totals.admitted /\ totals'.not_sent = totals.not_sent
        /\ totals'.response_received = totals.response_received
        /\ totals'.backend_acknowledged = totals.backend_acknowledged + 1
        /\ totals'.uncertainty = totals.uncertainty /\ totals'.expiry = totals.expiry + due
    BY <1>a, <1>f, <2>1 DEF Totals
  <2>3. /\ DOMAIN records' = DOMAIN records \ {id}
        /\ \A i \in DOMAIN records' : records'[i] = kept[i]
    BY <1>e, <2>1 DEF Without
  <2>4. Cardinality(DOMAIN records') = r - 1
    BY <1>b, <2>3, FS_RemoveElement DEF r
  <2>5. Cardinality(UnresolvedIn(records')) = u - 1
    <3>1. UnresolvedIn(records') = UnresolvedIn(kept) \ {id} /\ id \in UnresolvedIn(kept)
      BY <1>e, <2>1, <2>3 DEF UnresolvedIn
    <3>2. UnresolvedIn(records') = UnresolvedIn(records) \ {id} /\ id \in UnresolvedIn(records)
      BY <1>e, <3>1
    <3>3. QED
      BY <1>b, <3>2, FS_RemoveElement DEF u
  <2>6. IsFiniteSet(ExpiredIn(kept)) /\ Cardinality(ExpiredIn(kept)) = x + due
    <3>1. ExpiredIn(kept) \subseteq DOMAIN records
      BY <1>e DEF ExpiredIn
    <3>2. QED
      BY <1>b, <1>e, <3>1, FS_Subset
  <2>7. Cardinality(ExpiredIn(records')) \in {x + due, x + due - 1}
    <3>1. ExpiredIn(records') = ExpiredIn(kept) \ {id}
      BY <1>e, <2>3 DEF ExpiredIn
    <3>2. CASE id \in ExpiredIn(kept)
      <4>1. Cardinality(ExpiredIn(records')) = Cardinality(ExpiredIn(kept)) - 1
        BY <2>6, <3>1, <3>2, FS_RemoveElement
      <4>2. QED
        BY <1>b, <1>c, <2>6, <4>1
    <3>3. CASE id \notin ExpiredIn(kept)
      <4>1. ExpiredIn(records') = ExpiredIn(kept)
        BY <3>1, <3>3
      <4>2. QED
        BY <2>6, <4>1
    <3>4. QED
      BY <3>2, <3>3
  <2>8. /\ Cardinality(Ended("not_sent")') = n
        /\ Cardinality(Ended("response_received")') = s
        /\ Cardinality(Ended("acknowledged")') = a + 1
    BY <1>g, <1>t, <2>1, FateCounts DEF n, s, a
  <2>9. /\ Truthful(totals', r - 1, u - 1, x + due, n, s, a + 1)
        /\ Truthful(totals', r - 1, u - 1, x + due - 1, n, s, a + 1)
    BY <1>a, <1>b, <1>c, <1>d, <2>2 DEF Truthful
  <2>10. QED
    BY <2>4, <2>5, <2>7, <2>8, <2>9, TruthfulIsTruthNext
<1>11. QED
  BY <1>1, <1>2, <1>3, <1>4, <1>5, <1>7, <1>8, <1>9, <1>10 DEF Next

(* Whatever the order of admissions, expiries, drops and acknowledgments:  *)
(* the totals conserve what was admitted, each counts the attempts that    *)
(* ended that way, and no expiry is counted twice or missed.               *)
THEOREM TotalsAreTruthful == Spec => []TotalsTruthful
<1>1. Init => TotalsTruthful
  <2>1. SUFFICES ASSUME Init PROVE TotalsTruthful
    OBVIOUS
  <2>2. /\ Tracked(records) = {} /\ Unresolved = {} /\ Expired = {}
        /\ \A how : Ended(how) = {}
    BY <2>1 DEF Init, Tracked, Unresolved, Expired, Ended
  <2>3. /\ Cardinality(Tracked(records)) = 0 /\ Cardinality(Unresolved) = 0
        /\ Cardinality(Expired) = 0 /\ \A how : Cardinality(Ended(how)) = 0
    BY <2>2, FS_EmptySet
  <2>4. /\ totals.admitted = 0 /\ totals.not_sent = 0 /\ totals.response_received = 0
        /\ totals.backend_acknowledged = 0 /\ totals.uncertainty = 0 /\ totals.expiry = 0
    BY <2>1 DEF Init
  <2>5. QED
    BY <2>3, <2>4 DEF TotalsTruthful, Conservation
<1>2. Init => Shape /\ EvidenceRetained
  BY ShapeInit, EvidenceInit
<1>3. Shape /\ EvidenceRetained /\ [Next]_vars => (Shape /\ EvidenceRetained)'
  BY ShapeStep, EvidenceStep
<1>4. QED
  BY <1>1, <1>2, <1>3, TotalsStep, PTL DEF Spec

-----------------------------------------------------------------------------
(* The ledger implements AttemptLifecycle: where its state puts an attempt *)
(* in the life it promises.                                                *)
Attempts == 0 .. MaxAdmitted - 1
Phases == [i \in Attempts |-> Phase(i)]

Lawful == /\ Shape /\ EvidenceRetained /\ WithinLimits
          /\ totals.admitted <= MaxAdmitted

PhasesAre ==
  \A i \in Attempts :
    /\ i \in DOMAIN records \/ i \in DOMAIN fate \/ Phase(i) = "new"
    /\ i \in DOMAIN fate =>
         Phase(i) = IF fate[i] = "response_received" THEN "received" ELSE fate[i]
    /\ i \in DOMAIN records =>
         /\ records[i].state = "Unconfirmed" => Phase(i) = "uncertain"
         /\ records[i].state = "ExpiredUnconfirmed" => Phase(i) = "lapsed"
         /\ records[i].state = "Active" => Phase(i) = IF records[i].dispatched THEN "sent" ELSE "held"
    /\ i >= totals.admitted => Phase(i) = "new"

LEMMA PhasesKnown == Lawful => PhasesAre
<1> SUFFICES ASSUME Lawful, NEW i \in Attempts
             PROVE  /\ i \in DOMAIN records \/ i \in DOMAIN fate \/ Phase(i) = "new"
                    /\ i \in DOMAIN fate =>
                         Phase(i) = IF fate[i] = "response_received" THEN "received" ELSE fate[i]
                    /\ i \in DOMAIN records =>
                         /\ records[i].state = "Unconfirmed" => Phase(i) = "uncertain"
                         /\ records[i].state = "ExpiredUnconfirmed" => Phase(i) = "lapsed"
                         /\ records[i].state = "Active" =>
                              Phase(i) = IF records[i].dispatched THEN "sent" ELSE "held"
                    /\ i >= totals.admitted => Phase(i) = "new"
  BY DEF PhasesAre
<1>1. /\ totals.admitted \in Nat /\ i \in Nat
      /\ i \in DOMAIN records => records[i] \in Record /\ i < totals.admitted /\ i \notin DOMAIN fate
      /\ i \in DOMAIN fate => i < totals.admitted
      /\ i < totals.admitted => i \in DOMAIN records \/ i \in DOMAIN fate
  BY ClockAssumption DEF Attempts, Lawful, Shape, TypeOK, Totals, EvidenceRetained
<1>2. i >= totals.admitted => Phase(i) = "new"
  BY DEF Phase
<1>3. i \in DOMAIN fate =>
        Phase(i) = IF fate[i] = "response_received" THEN "received" ELSE fate[i]
  BY <1>1 DEF Phase
<1>4. ASSUME i \in DOMAIN records
      PROVE  /\ records[i].state = "Unconfirmed" => Phase(i) = "uncertain"
             /\ records[i].state = "ExpiredUnconfirmed" => Phase(i) = "lapsed"
             /\ records[i].state = "Active" => Phase(i) = IF records[i].dispatched THEN "sent" ELSE "held"
  <2>1. records[i] \in Record /\ ~(i >= totals.admitted) /\ i \notin DOMAIN fate
    BY <1>1, <1>4
  <2>2. QED
    BY <2>1 DEF Phase, Record
<1>5. QED
  BY <1>1, <1>2, <1>3, <1>4

(* The abstract module counts with the same Cardinality. *)
LEMMA SameCardinality == \A S : Lifecycle!Cardinality(S) = Cardinality(S)
BY Zenon DEF Lifecycle!Cardinality, Cardinality

LEMMA LifecycleLimits == Lawful => Lifecycle!WithinLimits
<1> SUFFICES ASSUME Lawful PROVE Lifecycle!WithinLimits
  OBVIOUS
<1>1. PhasesAre
  BY PhasesKnown
<1>2. /\ DOMAIN records \subseteq Attempts
      /\ \A i \in DOMAIN records : records[i] \in Record /\ i \notin DOMAIN fate
      /\ \A i \in DOMAIN fate : fate[i] \in Fate
  BY ClockAssumption DEF Attempts, Lawful, Shape, TypeOK, Totals, EvidenceRetained
<1>3. \A i \in Attempts :
        /\ Phase(i) \in {"held", "sent", "uncertain", "lapsed"} <=> i \in Tracked(records)
        /\ Phase(i) \in {"held", "sent", "uncertain"} <=> i \in Charged(records)
  BY <1>1, <1>2 DEF PhasesAre, Tracked, Charged, Record, Fate
<1>4. Lifecycle!Charged = Charged(records) /\ Lifecycle!Tracked = Tracked(records)
  BY <1>2, <1>3 DEF Lifecycle!Charged, Lifecycle!Tracked, Attempts, Charged, Tracked
<1>5. QED
  BY <1>4, SameCardinality DEF Lawful, WithinLimits, Lifecycle!WithinLimits

(* A step of the abstract life: nobody moves, or one attempt does; the     *)
(* charges of uncertain ones may lapse in either.                          *)
Lapses(i) == Phase(i)' = Phase(i) \/ (Phase(i) = "uncertain" /\ Phase(i)' = "lapsed")

LEMMA NoneMoves ==
  ASSUME Lifecycle!WithinLimits', \A i \in Attempts : Lapses(i)
  PROVE  [Lifecycle!Next]_Phases
<1>1. CASE \A i \in Attempts : Phase(i)' = Phase(i)
  BY <1>1 DEF Phases
<1>2. CASE \E i \in Attempts : Phase(i)' # Phase(i)
  <2>1. PICK mover \in Attempts : Phase(mover) = "uncertain" /\ Phase(mover)' = "lapsed"
    BY <1>2 DEF Lapses
  <2>2. /\ Phases[mover] = "uncertain" /\ Phases'[mover] = "lapsed"
        /\ \A a \in Attempts \ {mover} :
             \/ Phases'[a] = Phases[a]
             \/ Phases[a] = "uncertain" /\ Phases'[a] = "lapsed"
    BY <2>1 DEF Phases, Lapses
  <2>3. QED
    BY <2>2 DEF Lifecycle!Next, Phases, Attempts
<1>3. QED
  BY <1>1, <1>2

LEMMA OneMoves ==
  ASSUME Lifecycle!WithinLimits', NEW mover \in Attempts,
         <<Phase(mover), Phase(mover)'>> \in Lifecycle!Move,
         \A i \in Attempts \ {mover} : Lapses(i)
  PROVE  [Lifecycle!Next]_Phases
<1>1. /\ <<Phases[mover], Phases'[mover]>> \in Lifecycle!Move
      /\ \A a \in Attempts \ {mover} :
           \/ Phases'[a] = Phases[a]
           \/ Phases[a] = "uncertain" /\ Phases'[a] = "lapsed"
  BY DEF Phases, Lapses
<1>2. QED
  BY <1>1 DEF Lifecycle!Next, Phases, Attempts

(* A record that stays, and is at most expired, lapses; one whose fate is  *)
(* the same stays where it is.                                             *)
LEMMA RecordLapses ==
  ASSUME Lawful, PhasesAre, PhasesAre', NEW i \in Attempts,
         \/ /\ i \in DOMAIN records /\ i \in DOMAIN records'
            /\ records'[i].dispatched = records[i].dispatched
            /\ \/ records'[i].state = records[i].state
               \/ records[i].state = "Unconfirmed" /\ records'[i].state = "ExpiredUnconfirmed"
         \/ i \in DOMAIN fate /\ i \in DOMAIN fate' /\ fate'[i] = fate[i]
         \/ i \notin DOMAIN records \cup DOMAIN fate /\ i \notin DOMAIN records' \cup DOMAIN fate'
  PROVE  Lapses(i)
<1>1. i \in DOMAIN records => records[i] \in Record
  BY DEF Lawful, Shape, TypeOK
<1>2. CASE /\ i \in DOMAIN records /\ i \in DOMAIN records'
           /\ records'[i].dispatched = records[i].dispatched
           /\ \/ records'[i].state = records[i].state
              \/ records[i].state = "Unconfirmed" /\ records'[i].state = "ExpiredUnconfirmed"
  <2>1. records[i].state \in {"Active", "Unconfirmed", "ExpiredUnconfirmed"}
    BY <1>1, <1>2 DEF Record
  <2>2. QED
    BY <1>2, <2>1 DEF PhasesAre, Lapses
<1>3. CASE i \in DOMAIN fate /\ i \in DOMAIN fate' /\ fate'[i] = fate[i]
  BY <1>3 DEF PhasesAre, Lapses
<1>4. CASE i \notin DOMAIN records \cup DOMAIN fate /\ i \notin DOMAIN records' \cup DOMAIN fate'
  BY <1>4 DEF PhasesAre, Lapses
<1>5. QED
  BY <1>2, <1>3, <1>4

LEMMA LawfulStep == Lawful /\ [Next]_vars => Lawful'
<1> SUFFICES ASSUME Lawful, [Next]_vars PROVE Lawful'
  OBVIOUS
<1>1. Shape' /\ EvidenceRetained' /\ WithinLimits'
  BY ShapeStep, EvidenceStep, LimitsStep DEF Lawful
<1>2. CASE Admit
  <2>1. totals'.admitted = totals.admitted + 1 /\ totals.admitted < MaxAdmitted
    BY <1>2 DEF Admit, Lawful, Shape, TypeOK, Totals
  <2>2. totals.admitted \in Nat
    BY DEF Lawful, Shape, TypeOK, Totals
  <2>3. QED
    BY <1>1, <2>1, <2>2, ClockAssumption DEF Lawful
<1>3. CASE ~Admit
  <2>1. totals'.admitted = totals.admitted
    BY <1>3 DEF Next, Tick, Snapshot, Refuse, MarkDispatched, ResponseReceived, BeginDrop,
                AbandonUncertain, AbandonNotSent, Acknowledge, vars, Lawful, Shape, TypeOK, Totals
  <2>2. QED
    BY <1>1, <2>1 DEF Lawful
<1>4. QED
  BY <1>2, <1>3

LEMMA LifecycleStep ==
  Lawful /\ Lawful' /\ PhasesAre /\ PhasesAre' /\ Lifecycle!WithinLimits' /\ [Next]_vars
    => [Lifecycle!Next]_Phases
<1> SUFFICES ASSUME Lawful, Lawful', PhasesAre, PhasesAre', Lifecycle!WithinLimits', [Next]_vars
             PROVE  [Lifecycle!Next]_Phases
  OBVIOUS
<1>t. Shape /\ TypeOK /\ OwnedIffActive /\ EvidenceRetained
  BY DEF Lawful, Shape
<1>a. /\ now \in Nat /\ totals.admitted \in Nat
      /\ \A i \in DOMAIN records : records[i] \in Record /\ i \notin DOMAIN fate
      /\ DOMAIN records \subseteq Attempts /\ DOMAIN records \subseteq 0 .. totals.admitted - 1
      /\ DOMAIN fate \subseteq 0 .. totals.admitted - 1
  BY <1>t, ClockAssumption DEF Lawful, TypeOK, Totals, Attempts, EvidenceRetained
<1>b. /\ DOMAIN Expire(records, now) = DOMAIN records
      /\ \A i \in DOMAIN records :
           /\ Expire(records, now)[i].dispatched = records[i].dispatched
           /\ \/ Expire(records, now)[i].state = records[i].state
              \/ /\ records[i].state = "Unconfirmed"
                 /\ Expire(records, now)[i].state = "ExpiredUnconfirmed"
  BY <1>a, ExpireKeeps DEF Expiring
(* Every attempt keeps its record, up to expiry, and its fate, or has none *)
(* of both; id is the exception.                                           *)
<1> DEFINE Keeps(i) ==
      /\ i \in DOMAIN records =>
           /\ i \in DOMAIN records'
           /\ records'[i].dispatched = records[i].dispatched
           /\ \/ records'[i].state = records[i].state
              \/ records[i].state = "Unconfirmed" /\ records'[i].state = "ExpiredUnconfirmed"
      /\ i \in DOMAIN fate => i \in DOMAIN fate' /\ fate'[i] = fate[i]
      /\ i \in DOMAIN records' => i \in DOMAIN records
      /\ i \in DOMAIN fate' => i \in DOMAIN fate
<1>c. ASSUME NEW i \in Attempts, Keeps(i) PROVE Lapses(i)
  BY <1>c, RecordLapses
<1>d. ASSUME \A i \in Attempts : Keeps(i) PROVE [Lifecycle!Next]_Phases
  BY <1>c, <1>d, NoneMoves
<1>e. ASSUME NEW id \in Attempts, \A i \in Attempts \ {id} : Keeps(i),
             <<Phase(id), Phase(id)'>> \in Lifecycle!Move
      PROVE  [Lifecycle!Next]_Phases
  BY <1>c, <1>e, OneMoves
<1>1. CASE Tick \/ UNCHANGED vars
  BY <1>1, <1>d DEF Tick, vars
<1>2. CASE Snapshot \/ Refuse
  <2>1. records' = Expire(records, now) /\ fate' = fate
    BY <1>2 DEF Snapshot, Refuse
  <2>2. QED
    BY <1>b, <1>d, <2>1
<1>3. CASE Admit
  <2>0. PICK id \in Nat : id = totals.admitted
    BY <1>a
  <2>1. /\ records' = Put(Expire(records, now), id,
                          [state |-> "Active", dispatched |-> FALSE, since |-> NoTime])
        /\ fate' = fate /\ id < MaxAdmitted
    BY <1>3, <2>0 DEF Admit
  <2>2. id \in Attempts /\ id \notin DOMAIN records /\ id \notin DOMAIN fate
    BY <1>a, <2>0, <2>1, ClockAssumption DEF Attempts
  <2>3. /\ DOMAIN records' = DOMAIN records \cup {id}
        /\ records'[id].state = "Active" /\ ~records'[id].dispatched
        /\ \A i \in DOMAIN records : records'[i] = Expire(records, now)[i]
    BY <1>b, <2>1, <2>2 DEF Put
  <2>4. \A i \in Attempts \ {id} : Keeps(i)
    BY <1>b, <2>1, <2>3
  <2>5. Phase(id) = "new" /\ Phase(id)' = "held"
    BY <2>2, <2>3 DEF PhasesAre
  <2>6. QED
    BY <1>e, <2>2, <2>4, <2>5 DEF Lifecycle!Move
<1>4. ASSUME NEW id \in owners, MarkDispatched(id) PROVE [Lifecycle!Next]_Phases
  <2>1. id \in DOMAIN records /\ id \in Attempts /\ records[id].state = "Active"
    BY <1>a, <1>t DEF TypeOK, OwnedIffActive
  <2>2. /\ DOMAIN records' = DOMAIN records /\ fate' = fate /\ ~records[id].dispatched
        /\ records'[id].dispatched /\ records'[id].state = "Active"
        /\ \A i \in DOMAIN records \ {id} : records'[i] = records[i]
    BY <1>4, <1>a, <2>1 DEF MarkDispatched, Record
  <2>3. Phase(id) = "held" /\ Phase(id)' = "sent"
    BY <2>1, <2>2 DEF PhasesAre
  <2>4. \A i \in Attempts \ {id} : Keeps(i)
    BY <2>2
  <2>5. QED
    BY <1>e, <2>1, <2>3, <2>4 DEF Lifecycle!Move
<1>5. ASSUME NEW id \in owners, BeginDrop(id) PROVE [Lifecycle!Next]_Phases
  BY <1>5, <1>d DEF BeginDrop
<1>6. ASSUME NEW id \in DOMAIN records, NEW how \in Fate, fate' = Put(fate, id, how),
             records' = Without(records, id) \/ records' = Without(Expire(records, now), id)
      PROVE  /\ \A i \in Attempts \ {id} : Keeps(i)
             /\ id \in Attempts
             /\ Phase(id)' = IF how = "response_received" THEN "received" ELSE how
  <2>1. /\ DOMAIN fate' = DOMAIN fate \cup {id} /\ fate'[id] = how
        /\ \A i \in DOMAIN fate \ {id} : fate'[i] = fate[i]
    BY <1>6 DEF Put
  <2>2. /\ DOMAIN records' = DOMAIN records \ {id}
        /\ \A i \in DOMAIN records' : \/ records'[i] = records[i]
                                      \/ records'[i] = Expire(records, now)[i]
    BY <1>6, <1>b DEF Without
  <2>3. \A i \in Attempts \ {id} : Keeps(i)
    BY <1>b, <2>1, <2>2
  <2>4. QED
    BY <1>a, <1>6, <2>1, <2>3 DEF PhasesAre
<1>7. ASSUME NEW id \in owners, ResponseReceived(id) PROVE [Lifecycle!Next]_Phases
  <2>1. id \in DOMAIN records /\ records[id].state = "Active" /\ "response_received" \in Fate
    BY <1>t DEF TypeOK, OwnedIffActive, Fate
  <2>2. records' = Without(records, id) /\ fate' = Put(fate, id, "response_received")
        /\ records[id].dispatched
    BY <1>7 DEF ResponseReceived
  <2>3. /\ \A i \in Attempts \ {id} : Keeps(i)
        /\ id \in Attempts /\ Phase(id)' = "received"
    BY <1>6, <2>1, <2>2
  <2>4. Phase(id) = "sent"
    BY <2>1, <2>2, <2>3 DEF PhasesAre
  <2>5. QED
    BY <1>e, <2>3, <2>4 DEF Lifecycle!Move
<1>8. ASSUME NEW id \in DOMAIN dropping, AbandonNotSent(id) PROVE [Lifecycle!Next]_Phases
  <2>1. id \in DOMAIN records /\ records[id].state = "Active" /\ "not_sent" \in Fate
    BY <1>t DEF TypeOK, OwnedIffActive, Fate
  <2>2. records' = Without(records, id) /\ fate' = Put(fate, id, "not_sent")
        /\ ~records[id].dispatched
    BY <1>8 DEF AbandonNotSent
  <2>3. /\ \A i \in Attempts \ {id} : Keeps(i)
        /\ id \in Attempts /\ Phase(id)' = "not_sent"
    BY <1>6, <2>1, <2>2
  <2>4. Phase(id) = "held"
    BY <2>1, <2>2, <2>3 DEF PhasesAre
  <2>5. QED
    BY <1>e, <2>3, <2>4 DEF Lifecycle!Move
<1>9. ASSUME NEW id \in DOMAIN dropping, AbandonUncertain(id) PROVE [Lifecycle!Next]_Phases
  <2> DEFINE stamp == dropping[id]
             marked == [records EXCEPT ![id].state = "Unconfirmed", ![id].since = stamp]
  <2>1. stamp \in Nat /\ id \in DOMAIN records /\ id \in Attempts /\ records[id].state = "Active"
    BY <1>a, <1>t DEF TypeOK, OwnedIffActive
  <2>2. /\ DOMAIN marked = DOMAIN records
        /\ \A i \in DOMAIN records :
             /\ marked[i] \in Record
             /\ i # id => marked[i] = records[i]
        /\ marked[id].state = "Unconfirmed"
    BY <1>a, <2>1 DEF Record
  <2>3. records' = Expire(marked, stamp) /\ fate' = fate /\ records[id].dispatched
    BY <1>9 DEF AbandonUncertain
  <2> HIDE DEF marked, stamp
  <2>4. /\ DOMAIN records' = DOMAIN records
        /\ \A i \in DOMAIN records :
             /\ records'[i].dispatched = marked[i].dispatched
             /\ \/ records'[i].state = marked[i].state
                \/ marked[i].state = "Unconfirmed" /\ records'[i].state = "ExpiredUnconfirmed"
    BY <2>1, <2>2, <2>3, ExpireKeeps DEF Expiring
  <2>5. \A i \in Attempts \ {id} : Keeps(i)
    BY <2>2, <2>3, <2>4
  <2>6. Phase(id) = "sent" /\ Phase(id)' \in {"uncertain", "lapsed"}
    <3>1. records'[id].state \in {"Unconfirmed", "ExpiredUnconfirmed"} /\ id \in DOMAIN records'
      BY <2>1, <2>2, <2>4
    <3>2. QED
      BY <2>1, <2>3, <3>1 DEF PhasesAre
  <2>7. QED
    BY <1>e, <2>1, <2>5, <2>6 DEF Lifecycle!Move
<1>10. ASSUME NEW id \in DOMAIN records, Acknowledge(id) PROVE [Lifecycle!Next]_Phases
  <2>1. /\ records' = Without(Expire(records, now), id) /\ fate' = Put(fate, id, "acknowledged")
        /\ Expire(records, now)[id].state # "Active" /\ "acknowledged" \in Fate
    BY <1>10 DEF Acknowledge, Fate
  <2>2. records[id].state \in {"Unconfirmed", "ExpiredUnconfirmed"}
    <3>1. records[id].state # "Active"
      BY <1>a, <2>1, ExpireActive
    <3>2. QED
      BY <1>a, <3>1 DEF Record
  <2>3. /\ \A i \in Attempts \ {id} : Keeps(i)
        /\ id \in Attempts /\ Phase(id)' = "acknowledged"
    BY <1>6, <2>1
  <2>4. Phase(id) \in {"uncertain", "lapsed"}
    BY <2>2, <2>3 DEF PhasesAre
  <2>5. QED
    BY <1>e, <2>3, <2>4 DEF Lifecycle!Move
<1>11. QED
  BY <1>1, <1>2, <1>3, <1>4, <1>5, <1>7, <1>8, <1>9, <1>10 DEF Next

(* The ledger implements the life of an attempt it promises: every step    *)
(* moves at most one attempt along it, lapses the charge of uncertain      *)
(* ones, keeps within the limits, and changes nothing else.                *)
THEOREM LedgerImplementsLifecycle == Spec => ImplementsLifecycle
<1>1. Init => Lawful
  <2>1. Init => totals.admitted <= MaxAdmitted
    BY ClockAssumption DEF Init
  <2>2. QED
    BY <2>1, ShapeInit, EvidenceInit, LimitsInit DEF Lawful
<1>2. Init => Lifecycle!Init
  <2>1. SUFFICES ASSUME Init PROVE Lifecycle!Init
    OBVIOUS
  <2>2. ASSUME NEW i \in Attempts PROVE Phase(i) = "new"
    BY <2>1, ClockAssumption DEF Init, Phase, Attempts
  <2>3. QED
    BY <2>2 DEF Lifecycle!Init, Attempts
<1>3. QED
  BY <1>1, <1>2, LawfulStep, PhasesKnown, LifecycleLimits, LifecycleStep, PTL
  DEF Spec, ImplementsLifecycle, Lifecycle!Spec, Phases, Attempts
=============================================================================
