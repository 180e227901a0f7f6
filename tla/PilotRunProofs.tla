---------------------------- MODULE PilotRunProofs ----------------------------
(* Theorems about PilotRun, for every number of plans and invocations,     *)
(* every race between them and every moment one of them dies; about        *)
(* CorpusSample and MediaPlan, which make the documents of a pilot, for    *)
(* every seed file and archive; about ReviewSpans, which redacts one of    *)
(* them, for every text, report and approval; and about EvidenceChain,     *)
(* which publishes what a run left, for every number of edits and          *)
(* invocations.                                                            *)
EXTENDS PilotRun, CorpusSample, MediaPlan, ReviewSpans, EvidenceChain, FiniteSetTheorems,
        SequenceTheorems, WellFoundedInduction, NaturalsInduction, TLAPS

Before == {"idle", "checked", "clear"}
Preparing == {"start adapter", "poll adapter", "start gateway", "poll gateway", "recheck"}
Launched == Preparing \ {"start adapter"}
Past == Preparing \cup {"initialize", "fleet", "stop finished", "stop aborted", "ended"}
After == {"fleet", "stop finished", "stop aborted", "ended", "dead"}

(* The claim names whoever got past it, and nobody else touches the plan.  *)
Claimed ==
  /\ \A e \in attempts : claim[target[e]] = e
  /\ \A e \in Exec : pc[e] \in Past => e \in attempts
  /\ \A p \in Plan : built[p] > 0 \/ summary[p] # "none" => \E e \in attempts : target[e] = p
  /\ fleets \subseteq attempts

(* The four files exist once initialisation is over and not before.        *)
Built ==
  /\ \A e \in Exec : pc[e] = "initialize" => built[target[e]] < 4
  /\ \A e \in Exec : pc[e] \in Preparing => built[target[e]] = 4
  /\ \A e \in fleets : built[target[e]] = 4

(* Versions only grow, so what was launched lies between what preflight    *)
(* saw and what is there now.                                              *)
Upto(v, w) == v.plan <= w.plan /\ v.binary <= w.binary
Versioned(e) ==
  /\ Upto(seen[e], Current(e))
  /\ \A v \in loaded[e] : Upto(seen[e], v) /\ Upto(v, Current(e))
  /\ pc[e] \in Before => loaded[e] = {}
  /\ pc[e] \in Launched => loaded[e] # {}
  /\ e \in fleets => pc[e] \in After /\ loaded[e] = {seen[e]}

PilotInv == TypeOK /\ Claimed /\ Built /\ \A e \in Exec : Versioned(e)

-----------------------------------------------------------------------------
LEMMA PilotInitHolds == Init => PilotInv
<1> SUFFICES ASSUME Init PROVE PilotInv
  OBVIOUS
<1>1. TypeOK
  BY PilotAssumption DEF Init, TypeOK, Stages, Alive, Service
<1>2. Claimed /\ Built
  BY DEF Init, Claimed, Built, Past, Preparing
<1>3. \A e \in Exec : Versioned(e)
  BY PilotAssumption DEF Init, TypeOK, Versioned, Upto, Current, Preparing, Launched, Before
<1> QED
  BY <1>1, <1>2, <1>3 DEF PilotInv

(* Two invocations past the claim of one plan are the same one.            *)
LEMMA SoleAttempt ==
  ASSUME PilotInv, NEW e \in attempts, NEW f \in attempts, target[e] = target[f]
  PROVE  e = f
BY DEF PilotInv, Claimed

(* Moving on is well typed, wherever an invocation moves to.               *)
LEMMA ToTyped ==
  ASSUME TypeOK, NEW e \in Exec, NEW stage \in Stages, To(e, stage)
  PROVE  pc' \in [Exec -> Stages] /\ pc'[e] = stage /\ \A f \in Exec : f # e => pc'[f] = pc[f]
BY DEF TypeOK, To

LEMMA ServiceTable ==
  ASSUME NEW s \in Service
  PROVE  /\ Polls[s] \in {"poll adapter", "poll gateway"} /\ Polls[s] \in Stages
         /\ Then[s] \in {"start gateway", "recheck"} /\ Then[s] \in Stages
         /\ Starts[s] \in {"start adapter", "start gateway"}
<1>1. CASE s = "adapter"
  BY <1>1 DEF Polls, Then, Starts, Stages
<1>2. CASE s = "gateway"
  BY <1>2 DEF Polls, Then, Starts, Stages
<1> QED
  BY <1>1, <1>2 DEF Service

LEMMA ChildTyped ==
  ASSUME TypeOK, NEW e \in Exec, NEW s \in Service, NEW now \in Alive \cup {"exited"},
         child' = [child EXCEPT ![e][s] = now]
  PROVE  child' \in [Exec -> [Service -> Alive \cup {"none", "exited"}]]
<1>1. child[e] \in [Service -> Alive \cup {"none", "exited"}]
  BY DEF TypeOK
<1>2. child' = [child EXCEPT ![e] = [child[e] EXCEPT ![s] = now]]
  BY DEF TypeOK
<1> QED
  BY <1>1, <1>2 DEF TypeOK

LEMMA FreedTyped ==
  ASSUME TypeOK, NEW e \in Exec, NEW s \in Service
  PROVE  Freed(e, s) \in [Service -> Exec \cup {None}]
BY DEF TypeOK, Freed

LEMMA CurrentTyped ==
  ASSUME TypeOK, NEW e \in Exec
  PROVE  Current(e) \in [plan : 0..MaxEdits, binary : 0..MaxEdits]
BY DEF TypeOK, Current

LEMMA EditTyped ==
  ASSUME TypeOK, Edit
  PROVE  /\ plan' \in [Plan -> [made : {"absent", "partial", "ready"}, version : 0..MaxEdits,
                                valid : BOOLEAN]]
         /\ binary' \in 0..MaxEdits
         /\ binary <= binary' /\ \A p \in Plan : plan[p].version <= plan'[p].version
<1>1. CASE binary < MaxEdits /\ binary' = binary + 1 /\ plan' = plan
  BY <1>1, PilotAssumption DEF TypeOK
<1>2. ASSUME NEW p \in Plan, NEW ok \in BOOLEAN, plan[p].version < MaxEdits,
             plan' = [plan EXCEPT ![p] = [made |-> "ready", version |-> plan[p].version + 1,
                                          valid |-> ok]],
             binary' = binary
      PROVE  /\ plan' \in [Plan -> [made : {"absent", "partial", "ready"}, version : 0..MaxEdits,
                                    valid : BOOLEAN]]
             /\ binary' \in 0..MaxEdits
             /\ binary <= binary' /\ \A q \in Plan : plan[q].version <= plan'[q].version
  <2> DEFINE new == [made |-> "ready", version |-> plan[p].version + 1, valid |-> ok]
  <2>1. plan' = [plan EXCEPT ![p] = new]
    BY <1>2
  <2>2. plan[p] \in [made : {"absent", "partial", "ready"}, version : 0..MaxEdits, valid : BOOLEAN]
    BY DEF TypeOK
  <2>3. /\ new \in [made : {"absent", "partial", "ready"}, version : 0..MaxEdits, valid : BOOLEAN]
        /\ plan[p].version <= new.version
    <3>1. plan[p].version + 1 \in 0..MaxEdits /\ plan[p].version <= plan[p].version + 1
      BY <1>2, <2>2, PilotAssumption
    <3> QED
      BY <3>1
  <2> HIDE DEF new
  <2>4. \A q \in Plan : plan[q].version \in 0..MaxEdits /\ plan'[q] = IF q = p THEN new ELSE plan[q]
    BY <2>1 DEF TypeOK
  <2>5. \A q \in Plan : plan[q].version <= plan'[q].version
    BY <2>3, <2>4, PilotAssumption
  <2>6. plan' \in [Plan -> [made : {"absent", "partial", "ready"}, version : 0..MaxEdits,
                            valid : BOOLEAN]]
    BY <2>1, <2>3 DEF TypeOK
  <2>7. binary' \in 0..MaxEdits /\ binary <= binary'
    BY <1>2, PilotAssumption DEF TypeOK
  <2> QED
    BY <2>5, <2>6, <2>7
<1> QED
  BY <1>1, <1>2 DEF Edit

-----------------------------------------------------------------------------
LEMMA TypeStep == PilotInv /\ [Next]_vars => TypeOK'
<1> SUFFICES ASSUME TypeOK, Built, [Next]_vars PROVE TypeOK'
  BY DEF PilotInv
<1>1. CASE UNCHANGED vars
  BY <1>1 DEF vars, TypeOK
<1>2. ASSUME NEW p \in Plan, CreatePlan(p) PROVE TypeOK'
  <2>1. plan' \in [Plan -> [made : {"absent", "partial", "ready"}, version : 0..MaxEdits,
                            valid : BOOLEAN]]
    <3> DEFINE new == [plan[p] EXCEPT !.made = IF @ = "absent" THEN "partial" ELSE "ready"]
    <3>1. plan' = [plan EXCEPT ![p] = new]
      BY <1>2 DEF CreatePlan, TypeOK
    <3>2. plan[p] \in [made : {"absent", "partial", "ready"}, version : 0..MaxEdits, valid : BOOLEAN]
      BY DEF TypeOK
    <3>3. new \in [made : {"absent", "partial", "ready"}, version : 0..MaxEdits, valid : BOOLEAN]
      BY <3>2
    <3> HIDE DEF new
    <3> QED
      BY <3>1, <3>3 DEF TypeOK
  <2> QED
    BY <1>2, <2>1 DEF CreatePlan, TypeOK
<1>3. CASE Edit
  <2>1. UNCHANGED <<target, claim, built, summary, pc, seen, child, loaded, port, attempts, fleets>>
    BY <1>3 DEF Edit
  <2>2. /\ plan' \in [Plan -> [made : {"absent", "partial", "ready"}, version : 0..MaxEdits,
                               valid : BOOLEAN]]
        /\ binary' \in 0..MaxEdits
    BY <1>3, EditTyped
  <2> QED
    BY <2>1, <2>2 DEF TypeOK
<1>4. ASSUME NEW e \in Exec, Preflight(e) PROVE TypeOK'
  <2>1. seen' \in [Exec -> [plan : 0..MaxEdits, binary : 0..MaxEdits]]
    <3>1. seen' = seen \/ seen' = [seen EXCEPT ![e] = Current(e)]
      BY <1>4 DEF Preflight
    <3>2. Current(e) \in [plan : 0..MaxEdits, binary : 0..MaxEdits]
      BY CurrentTyped
    <3> QED
      BY <3>1, <3>2 DEF TypeOK
  <2>2. pc' \in [Exec -> Stages]
    BY <1>4, ToTyped DEF Preflight, Stages
  <2> QED
    BY <1>4, <2>1, <2>2 DEF Preflight, TypeOK
<1>5. ASSUME NEW e \in Exec, CheckPorts(e) \/ FleetReturns(e) \/ Crash(e) PROVE TypeOK'
  <2>1. pc' \in [Exec -> Stages]
    BY <1>5, ToTyped DEF CheckPorts, FleetReturns, Crash, Stages
  <2> QED
    BY <1>5, <2>1 DEF CheckPorts, FleetReturns, Crash, Quiet, TypeOK
<1>6. ASSUME NEW e \in Exec, Claim(e) PROVE TypeOK'
  <2>1. pc' \in [Exec -> Stages]
    BY <1>6, ToTyped DEF Claim, Stages
  <2> QED
    BY <1>6, <2>1 DEF Claim, TypeOK
<1>7. ASSUME NEW e \in Exec, Initialize(e) PROVE TypeOK'
  <2>1. pc' \in [Exec -> Stages]
    BY <1>7, ToTyped DEF Initialize, Stages
  <2>2. target[e] \in Plan /\ built[target[e]] \in 0..4 /\ built[target[e]] < 4
    BY <1>7 DEF Initialize, At, Built, TypeOK
  <2>3. built' \in [Plan -> 0..4]
    <3>1. built' = built \/ built' = [built EXCEPT ![target[e]] = built[target[e]] + 1]
      BY <1>7 DEF Initialize
    <3>2. built[target[e]] + 1 \in 0..4
      BY <2>2
    <3> QED
      BY <3>1, <3>2 DEF TypeOK
  <2> QED
    BY <1>7, <2>1, <2>3 DEF Initialize, TypeOK
<1>8. ASSUME NEW e \in Exec, NEW s \in Service, Launch(e, s) PROVE TypeOK'
  <2>1. pc' \in [Exec -> Stages]
    BY <1>8, ServiceTable, ToTyped DEF Launch
  <2>2. child' \in [Exec -> [Service -> Alive \cup {"none", "exited"}]]
    BY <1>8, ChildTyped DEF Launch, Alive
  <2>3. loaded' \in [Exec -> SUBSET [plan : 0..MaxEdits, binary : 0..MaxEdits]]
    BY <1>8, CurrentTyped DEF Launch, TypeOK
  <2> QED
    BY <1>8, <2>1, <2>2, <2>3 DEF Launch, TypeOK
<1>9. ASSUME NEW e \in Exec, NEW s \in Service, Poll(e, s) PROVE TypeOK'
  <2>1. pc' \in [Exec -> Stages]
    <3>1. "stop aborted" \in Stages
      BY DEF Stages
    <3> QED
      BY <1>9, <3>1, ServiceTable, ToTyped DEF Poll
  <2> QED
    BY <1>9, <2>1 DEF Poll, Quiet, TypeOK
<1>10. ASSUME NEW e \in Exec, Recheck(e) PROVE TypeOK'
  <2>1. pc' \in [Exec -> Stages]
    BY <1>10, ToTyped DEF Recheck, Stages
  <2> QED
    BY <1>10, <2>1 DEF Recheck, TypeOK
<1>11. ASSUME NEW e \in Exec, Summarize(e) PROVE TypeOK'
  <2>1. pc' \in [Exec -> Stages]
    BY <1>11, ToTyped DEF Summarize, Stages
  <2>2. summary' \in [Plan -> {"none", "finished", "aborted"}]
    BY <1>11 DEF Summarize, TypeOK
  <2> QED
    BY <1>11, <2>1, <2>2 DEF Summarize, TypeOK
<1>12. ASSUME NEW e \in Exec, NEW s \in Service, StopChild(e, s) \/ ChildExits(e, s) \/ Bind(e, s)
       PROVE  TypeOK'
  <2>1. child' \in [Exec -> [Service -> Alive \cup {"none", "exited"}]]
    BY <1>12, ChildTyped DEF StopChild, ChildExits, Bind, Alive
  <2>2. port' \in [Service -> Exec \cup {None}]
    <3>1. port' = Freed(e, s) \/ port' = [port EXCEPT ![s] = e]
      BY <1>12 DEF StopChild, ChildExits, Bind
    <3>2. Freed(e, s) \in [Service -> Exec \cup {None}]
      BY FreedTyped
    <3> QED
      BY <3>1, <3>2 DEF TypeOK
  <2> QED
    BY <1>12, <2>1, <2>2 DEF StopChild, ChildExits, Bind, TypeOK
<1> QED
  BY <1>1, <1>2, <1>3, <1>4, <1>5, <1>6, <1>7, <1>8, <1>9, <1>10, <1>11, <1>12
     DEF Next, Coordinator

-----------------------------------------------------------------------------
(* Where the coordinator goes in one step, by where it is.                 *)
LEMMA Moves ==
  ASSUME TypeOK, NEW e \in Exec, Coordinator(e) \/ Crash(e)
  PROVE  /\ target' = target
         /\ \A f \in Exec : f # e => pc'[f] = pc[f]
         /\ pc'[e] \in Past => pc[e] \in Past \/ (Claim(e) /\ pc'[e] = "initialize")
         /\ pc'[e] \in Preparing => pc[e] \in Preparing \/ Initialize(e)
         /\ pc'[e] \in Launched => pc[e] \in Launched \/ \E s \in Service : Launch(e, s)
         /\ pc'[e] = "initialize" => pc[e] = "initialize" \/ Claim(e)
         /\ pc'[e] \in Before => pc[e] \in Before
         /\ pc[e] \in After => pc'[e] \in After
<1> USE DEF Past, Preparing, Launched, Before, After
<1>1. CASE Preflight(e) \/ CheckPorts(e) \/ Claim(e) \/ Initialize(e) \/ Recheck(e)
           \/ FleetReturns(e) \/ Summarize(e) \/ Crash(e)
  BY <1>1 DEF TypeOK, Preflight, CheckPorts, Claim, Initialize, Recheck, FleetReturns, Summarize,
              Crash, At, To, Stopping, Quiet
<1>2. ASSUME NEW s \in Service, StopChild(e, s)
      PROVE  UNCHANGED <<target, pc>>
  BY <1>2 DEF StopChild
<1>3. ASSUME NEW s \in Service, Launch(e, s)
      PROVE  /\ target' = target /\ pc[e] \in Preparing /\ pc'[e] \in Preparing
             /\ \A f \in Exec : f # e => pc'[f] = pc[f]
  <2>1. pc[e] = Starts[s] /\ pc' = [pc EXCEPT ![e] = Polls[s]] /\ target' = target
    BY <1>3 DEF Launch, At, To
  <2> QED
    BY <2>1, ServiceTable DEF TypeOK
<1>4. ASSUME NEW s \in Service, Poll(e, s)
      PROVE  /\ target' = target /\ pc[e] \in Launched /\ pc'[e] \in Launched \cup {"stop aborted"}
             /\ \A f \in Exec : f # e => pc'[f] = pc[f]
  <2>1. /\ pc[e] = Polls[s] /\ target' = target
        /\ pc' = [pc EXCEPT ![e] = Then[s]] \/ pc' = [pc EXCEPT ![e] = "stop aborted"]
    BY <1>4 DEF Poll, At, To, Quiet
  <2> QED
    BY <2>1, ServiceTable DEF TypeOK
<1> QED
  BY <1>1, <1>2, <1>3, <1>4 DEF Coordinator

LEMMA ClaimedStep == PilotInv /\ [Next]_vars => Claimed'
<1> SUFFICES ASSUME TypeOK, Claimed, [Next]_vars PROVE Claimed'
  BY DEF PilotInv
<1>1. ASSUME UNCHANGED <<target, claim, built, summary, attempts, fleets>>,
             \A f \in Exec : pc'[f] \in Past => pc[f] \in Past
      PROVE  Claimed'
  BY <1>1 DEF Claimed
<1>2. CASE UNCHANGED vars \/ Edit \/ \E p \in Plan : CreatePlan(p)
  BY <1>1, <1>2 DEF vars, Edit, CreatePlan
<1>3. CASE \E e \in Exec, s \in Service : Bind(e, s) \/ ChildExits(e, s)
  BY <1>1, <1>3 DEF Bind, ChildExits
<1>4. ASSUME NEW e \in Exec, Claim(e) PROVE Claimed'
  <2>1. /\ UNCHANGED <<target, built, summary, fleets>>
        /\ \A f \in Exec : f # e => pc'[f] = pc[f]
        /\ target[e] \in Plan
    BY <1>4, Moves DEF Claim, Coordinator, TypeOK
  <2>2. claim' = claim \/ (claim[target[e]] = None /\ claim' = [claim EXCEPT ![target[e]] = e])
    BY <1>4 DEF Claim
  <2>3. \A f \in attempts : claim[target[f]] # None /\ target[f] \in Plan
    BY PilotAssumption DEF Claimed, TypeOK
  <2>4. \A f \in attempts : claim'[target[f]] = f
    BY <2>1, <2>2, <2>3 DEF Claimed, TypeOK
  <2>5. \/ attempts' = attempts /\ pc'[e] \notin Past
        \/ attempts' = attempts \cup {e} /\ claim'[target[e]] = e
    BY <1>4, <2>1 DEF Claim, To, TypeOK, Past, Preparing
  <2> QED
    BY <2>1, <2>4, <2>5 DEF Claimed, TypeOK
<1>5. ASSUME NEW e \in Exec, Coordinator(e) \/ Crash(e), ~Claim(e) PROVE Claimed'
  <2>1. /\ UNCHANGED <<target, claim, attempts>>
        /\ \A f \in Exec : pc'[f] \in Past => pc[f] \in Past
    <3>1. UNCHANGED <<claim, attempts>>
      BY <1>5 DEF Coordinator, Crash, Quiet, Preflight, CheckPorts, Initialize, Launch, Poll,
                  StopChild, Recheck, FleetReturns, Summarize
    <3> QED
      BY <1>5, <3>1, Moves
  <2>2. CASE Initialize(e) \/ Summarize(e)
    <3>1. e \in attempts
      BY <2>2 DEF Initialize, Summarize, Stopping, At, Claimed, Past
    <3>2. \A p \in Plan : p # target[e] => built'[p] = built[p] /\ summary'[p] = summary[p]
      BY <2>2 DEF Initialize, Summarize, TypeOK
    <3>3. fleets' = fleets
      BY <2>2 DEF Initialize, Summarize
    <3> QED
      BY <2>1, <3>1, <3>2, <3>3 DEF Claimed
  <2>3. CASE Recheck(e)
    <3>1. e \in attempts /\ fleets' \subseteq fleets \cup {e} /\ UNCHANGED <<built, summary>>
      BY <2>3 DEF Recheck, At, Claimed, Past, Preparing
    <3> QED
      BY <2>1, <3>1 DEF Claimed
  <2>4. CASE ~(Initialize(e) \/ Summarize(e) \/ Recheck(e))
    <3>1. UNCHANGED <<built, summary, fleets>>
      BY <1>5, <2>4 DEF Coordinator, Crash, Quiet, Preflight, CheckPorts, Launch, Poll,
                  StopChild, FleetReturns
    <3> QED
      BY <1>1, <2>1, <3>1
  <2> QED
    BY <2>2, <2>3, <2>4
<1> QED
  BY <1>2, <1>3, <1>4, <1>5 DEF Next, Coordinator

LEMMA BuiltStep == PilotInv /\ [Next]_vars => Built'
<1> SUFFICES ASSUME PilotInv, [Next]_vars PROVE Built'
  OBVIOUS
<1>0. TypeOK /\ Claimed /\ Built
  BY DEF PilotInv
<1>1. ASSUME UNCHANGED <<target, built, fleets>>,
             \A f \in Exec : pc'[f] = "initialize" => pc[f] = "initialize",
             \A f \in Exec : pc'[f] \in Preparing => pc[f] \in Preparing
      PROVE  Built'
  BY <1>0, <1>1 DEF Built
<1>2. CASE UNCHANGED vars \/ Edit \/ \E p \in Plan : CreatePlan(p)
  BY <1>1, <1>2 DEF vars, Edit, CreatePlan
<1>3. CASE \E e \in Exec, s \in Service : Bind(e, s) \/ ChildExits(e, s)
  BY <1>1, <1>3 DEF Bind, ChildExits
<1>4. ASSUME NEW e \in Exec, Claim(e) PROVE Built'
  <2>1. /\ UNCHANGED <<target, built, fleets>>
        /\ \A f \in Exec : f # e => pc'[f] = pc[f]
        /\ target[e] \in Plan
    BY <1>0, <1>4, Moves DEF Claim, Coordinator, TypeOK
  <2>2. pc'[e] \in {"initialize", "refused"}
    BY <1>0, <1>4 DEF Claim, To, TypeOK
  <2>3. pc'[e] = "initialize" => claim[target[e]] = None
    BY <1>0, <1>4 DEF Claim, To, TypeOK
  <2>4. claim[target[e]] = None => ~(built[target[e]] > 0)
    BY <1>0, <2>1, PilotAssumption DEF Claimed, TypeOK
  <2>5. pc'[e] = "initialize" => built'[target[e]] < 4
    <3>1. built[target[e]] \in 0..4
      BY <1>0, <2>1 DEF TypeOK
    <3> QED
      BY <2>1, <2>3, <2>4, <3>1
  <2> QED
    BY <1>0, <2>1, <2>2, <2>5 DEF Built, Preparing
<1>5. ASSUME NEW e \in Exec, Initialize(e) PROVE Built'
  <2>1. /\ UNCHANGED <<target, fleets, attempts>>
        /\ \A f \in Exec : f # e => pc'[f] = pc[f]
        /\ target[e] \in Plan /\ built[target[e]] \in 0..3
        /\ e \in attempts
    <3>1. pc[e] = "initialize" /\ UNCHANGED <<target, fleets, attempts>>
      BY <1>5 DEF Initialize, At
    <3>2. target[e] \in Plan /\ built[target[e]] \in 0..4 /\ built[target[e]] < 4
      BY <1>0, <3>1 DEF Built, TypeOK
    <3>3. e \in attempts
      BY <1>0, <3>1 DEF Claimed, Past
    <3> QED
      BY <1>0, <1>5, <3>1, <3>2, <3>3, Moves DEF Coordinator
  <2>2. \A f \in attempts : f # e => target[f] # target[e]
    BY <2>1, SoleAttempt
  <2>3. \/ built' = built /\ pc'[e] = "stop aborted"
        \/ /\ built' = [built EXCEPT ![target[e]] = built[target[e]] + 1]
           /\ pc'[e] = IF built'[target[e]] = 4 THEN "start adapter" ELSE "initialize"
    BY <1>0, <1>5 DEF Initialize, To, TypeOK
  <2>4. \A p \in Plan : p # target[e] => built'[p] = built[p]
    BY <1>0, <2>3 DEF TypeOK
  <2>5. built'[target[e]] \in 0..4
    <3>1. built \in [Plan -> 0..4]
      BY <1>0 DEF TypeOK
    <3>2. built[target[e]] \in 0..4 /\ built[target[e]] + 1 \in 0..4
      BY <2>1
    <3>3. built'[target[e]] \in {built[target[e]], built[target[e]] + 1}
      BY <2>1, <2>3, <3>1
    <3> QED
      BY <3>2, <3>3
  <2>6. \A f \in Exec : f # e /\ f \in attempts => built'[target[f]] = built[target[f]]
    BY <1>0, <2>2, <2>4 DEF TypeOK
  <2>7. /\ pc'[e] = "initialize" => built'[target[e]] < 4
        /\ pc'[e] \in Preparing => built'[target[e]] = 4
    <3> DEFINE n == built'[target[e]]
    <3>1. \/ pc'[e] = "stop aborted"
          \/ pc'[e] = "start adapter" /\ n = 4
          \/ pc'[e] = "initialize" /\ n # 4
      BY <2>3
    <3>2. n \in 0..4
      BY <2>5
    <3> HIDE DEF n
    <3>3. /\ pc'[e] = "initialize" => n < 4
          /\ pc'[e] \in Preparing => n = 4
      <4>1. CASE pc'[e] = "stop aborted"
        BY <4>1 DEF Preparing
      <4>2. CASE pc'[e] = "start adapter" /\ n = 4
        BY <4>2
      <4>3. CASE pc'[e] = "initialize" /\ n # 4
        <5>1. n < 4
          BY <4>3, <3>2
        <5> QED
          BY <4>3, <5>1 DEF Preparing
      <4> QED
        BY <3>1, <4>1, <4>2, <4>3
    <3> QED
      BY <3>3 DEF n
  <2>8. \A f \in Exec : f # e /\ (pc[f] = "initialize" \/ pc[f] \in Preparing) => f \in attempts
    BY <1>0 DEF Claimed, Past
  <2>9. e \notin fleets
    BY <1>0, <2>1 DEF Built
  <2> QED
    BY <1>0, <2>1, <2>6, <2>7, <2>8, <2>9 DEF Built, Claimed, TypeOK
<1>6. ASSUME NEW e \in Exec, Recheck(e) PROVE Built'
  <2>1. /\ UNCHANGED <<target, built>> /\ fleets' \subseteq fleets \cup {e} /\ pc[e] \in Preparing
        /\ \A f \in Exec : f # e => pc'[f] = pc[f]
        /\ pc'[e] \in {"fleet", "stop aborted"}
    BY <1>0, <1>6 DEF Recheck, At, To, TypeOK, Preparing
  <2> QED
    BY <1>0, <2>1 DEF Built, Preparing
<1>7. ASSUME NEW e \in Exec, Coordinator(e) \/ Crash(e), ~Claim(e), ~Initialize(e), ~Recheck(e)
      PROVE  Built'
  <2>1. UNCHANGED <<built, fleets>>
    BY <1>7 DEF Coordinator, Crash, Quiet, Preflight, CheckPorts, Launch, Poll, StopChild,
                FleetReturns, Summarize
  <2>2. /\ \A f \in Exec : pc'[f] = "initialize" => pc[f] = "initialize"
        /\ \A f \in Exec : pc'[f] \in Preparing => pc[f] \in Preparing
        /\ target' = target
    BY <1>0, <1>7, Moves
  <2> QED
    BY <1>1, <2>1, <2>2
<1> QED
  BY <1>2, <1>3, <1>4, <1>5, <1>6, <1>7 DEF Next, Coordinator

-----------------------------------------------------------------------------
LEMMA UptoTransitive ==
  ASSUME NEW u \in [plan : 0..MaxEdits, binary : 0..MaxEdits],
         NEW v \in [plan : 0..MaxEdits, binary : 0..MaxEdits],
         NEW w \in [plan : 0..MaxEdits, binary : 0..MaxEdits],
         Upto(u, v), Upto(v, w)
  PROVE  Upto(u, w)
BY PilotAssumption DEF Upto

LEMMA UptoExact ==
  ASSUME NEW u \in [plan : 0..MaxEdits, binary : 0..MaxEdits],
         NEW v \in [plan : 0..MaxEdits, binary : 0..MaxEdits],
         Upto(u, v), Upto(v, u)
  PROVE  u = v
<1>1. u.plan = v.plan /\ u.binary = v.binary
  BY PilotAssumption DEF Upto
<1> QED
  BY <1>1

(* Time moves what is current forward only.                                *)
LEMMA CurrentGrows ==
  ASSUME TypeOK, [Next]_vars, NEW e \in Exec
  PROVE  Upto(Current(e), Current(e)')
<1>1. target' = target /\ target[e] \in Plan
  BY DEF TypeOK, Next, vars, Edit, CreatePlan, Bind, ChildExits, Coordinator, Crash, Quiet, Preflight,
         CheckPorts, Claim, Initialize, Launch, Poll, StopChild, Recheck, FleetReturns, Summarize
<1>2. binary <= binary' /\ plan[target[e]].version <= plan'[target[e]].version
  <2>1. CASE Edit
    BY <1>1, <2>1, EditTyped
  <2>2. ASSUME NEW p \in Plan, CreatePlan(p)
        PROVE  binary' = binary /\ plan'[target[e]].version = plan[target[e]].version
    BY <1>1, <2>2 DEF CreatePlan, TypeOK
  <2>3. CASE UNCHANGED <<plan, binary>>
    BY <1>1, <2>3, PilotAssumption DEF TypeOK
  <2>4. Edit \/ (\E p \in Plan : CreatePlan(p)) \/ UNCHANGED <<plan, binary>>
    BY DEF Next, vars, Bind, ChildExits, Coordinator, Crash, Quiet, Preflight, CheckPorts, Claim,
           Initialize, Launch, Poll, StopChild, Recheck, FleetReturns, Summarize
  <2>5. binary \in Int /\ plan[target[e]].version \in Int
    BY <1>1 DEF TypeOK
  <2> QED
    BY <2>1, <2>2, <2>3, <2>4, <2>5
<1> QED
  BY <1>1, <1>2 DEF Upto, Current

(* An invocation that launches nothing keeps what it knows of the versions. *)
LEMMA VersionedKept ==
  ASSUME TypeOK, TypeOK', [Next]_vars, NEW e \in Exec, Versioned(e),
         seen'[e] = seen[e], loaded'[e] = loaded[e], e \in fleets' => e \in fleets,
         pc'[e] \in Before => pc[e] \in Before, pc'[e] \in Launched => pc[e] \in Launched,
         pc[e] \in After => pc'[e] \in After
  PROVE  Versioned(e)'
<1> DEFINE V == [plan : 0..MaxEdits, binary : 0..MaxEdits]
<1>1. Current(e) \in V /\ Current(e)' \in V /\ seen[e] \in V /\ loaded[e] \subseteq V
  BY DEF Current, TypeOK
<1>2. Upto(Current(e), Current(e)')
  BY CurrentGrows
<1>3. \A v \in V : Upto(v, Current(e)) => Upto(v, Current(e)')
  BY <1>1, <1>2, UptoTransitive
<1> QED
  BY <1>1, <1>3 DEF Versioned

LEMMA VersionedStep ==
  PilotInv /\ TypeOK' /\ [Next]_vars => \A e \in Exec : Versioned(e)'
<1> SUFFICES ASSUME TypeOK, TypeOK', \A e \in Exec : Versioned(e), [Next]_vars, NEW f \in Exec
             PROVE  Versioned(f)'
  BY DEF PilotInv
<1> DEFINE V == [plan : 0..MaxEdits, binary : 0..MaxEdits]
<1>1. /\ Current(f) \in V /\ seen[f] \in V /\ loaded[f] \subseteq V /\ Versioned(f)
      /\ Upto(Current(f), Current(f))
  BY PilotAssumption DEF Current, TypeOK, Upto
<1>2. CASE UNCHANGED vars \/ Edit \/ \E p \in Plan : CreatePlan(p)
  BY <1>1, <1>2, VersionedKept DEF vars, Edit, CreatePlan
<1>3. CASE \E e \in Exec, s \in Service : Bind(e, s) \/ ChildExits(e, s)
  BY <1>1, <1>3, VersionedKept DEF Bind, ChildExits
<1>4. ASSUME NEW e \in Exec, Coordinator(e) \/ Crash(e), e # f PROVE Versioned(f)'
  <2>1. pc'[f] = pc[f]
    BY <1>4, Moves
  <2>2. seen'[f] = seen[f] /\ loaded'[f] = loaded[f]
    <3>1. \/ seen' = seen
          \/ seen' = [seen EXCEPT ![e] = Current(e)]
      BY <1>4 DEF Coordinator, Crash, Quiet, Preflight, CheckPorts, Claim, Initialize, Launch, Poll,
                  StopChild, Recheck, FleetReturns, Summarize
    <3>2. \/ loaded' = loaded
          \/ loaded' = [loaded EXCEPT ![e] = @ \cup {Current(e)}]
      BY <1>4 DEF Coordinator, Crash, Quiet, Preflight, CheckPorts, Claim, Initialize, Launch, Poll,
                  StopChild, Recheck, FleetReturns, Summarize
    <3> QED
      BY <1>4, <3>1, <3>2 DEF TypeOK
  <2>3. f \in fleets' => f \in fleets
    BY <1>4 DEF Coordinator, Crash, Quiet, Preflight, CheckPorts, Claim, Initialize, Launch, Poll,
                StopChild, Recheck, FleetReturns, Summarize
  <2> QED
    BY <1>1, <2>1, <2>2, <2>3, VersionedKept
<1>5. CASE Preflight(f)
  <2>1. pc[f] \in Before /\ loaded[f] = {} /\ f \notin fleets
    BY <1>1, <1>5 DEF Preflight, At, Before, After, Versioned
  <2>2. UNCHANGED <<target, plan, binary, loaded, fleets>>
    BY <1>5 DEF Preflight
  <2>3. Current(f)' = Current(f) /\ loaded'[f] = {} /\ f \notin fleets'
    BY <2>1, <2>2 DEF Current
  <2>4. seen'[f] \in {seen[f], Current(f)}
    BY <1>5 DEF Preflight, TypeOK
  <2>5. pc'[f] \in {"checked", "refused"}
    BY <1>5 DEF Preflight, To, TypeOK
  <2> QED
    BY <1>1, <2>3, <2>4, <2>5 DEF Versioned, Launched, Preparing
<1>6. ASSUME NEW s \in Service, Launch(f, s) PROVE Versioned(f)'
  <2>1. pc[f] \in {"start adapter", "start gateway"} /\ pc'[f] \in {"poll adapter", "poll gateway"}
    BY <1>6, ServiceTable DEF Launch, At, To, TypeOK
  <2>2. f \notin fleets
    BY <1>1, <2>1 DEF Versioned, After
  <2>3. UNCHANGED <<target, plan, binary, seen, fleets>> /\ Current(f)' = Current(f)
    BY <1>6 DEF Launch, Current
  <2>4. loaded'[f] = loaded[f] \cup {Current(f)}
    BY <1>6 DEF Launch, TypeOK
  <2> QED
    BY <1>1, <2>1, <2>2, <2>3, <2>4 DEF Versioned, Before
<1>7. CASE Recheck(f)
  <2>1. /\ pc[f] = "recheck" /\ pc'[f] \in {"fleet", "stop aborted"}
        /\ UNCHANGED <<target, plan, binary, seen, loaded>> /\ Current(f)' = Current(f)
    BY <1>7 DEF Recheck, At, To, TypeOK, Current
  <2>2. loaded[f] # {}
    BY <1>1, <2>1 DEF Versioned, Launched, Preparing
  <2>3. Current(f) = seen[f] => loaded[f] = {seen[f]}
    <3> SUFFICES ASSUME Current(f) = seen[f], NEW v \in loaded[f] PROVE v = seen[f]
      BY <2>2
    <3>1. Upto(seen[f], v) /\ Upto(v, seen[f]) /\ v \in V
      BY <1>1 DEF Versioned
    <3> QED
      BY <1>1, <3>1, UptoExact
  <2>4. f \notin fleets
    BY <1>1, <2>1 DEF Versioned, After
  <2>5. f \in fleets' => Current(f) = seen[f]
    BY <1>7, <2>4 DEF Recheck
  <2> QED
    BY <1>1, <2>1, <2>3, <2>5 DEF Versioned, Before, After, Launched, Preparing
<1>8. CASE /\ Coordinator(f) \/ Crash(f)
           /\ ~Preflight(f) /\ ~Recheck(f) /\ ~\E s \in Service : Launch(f, s)
  <2>1. UNCHANGED <<seen, loaded, fleets>>
    BY <1>8 DEF Coordinator, Crash, Quiet, CheckPorts, Claim, Initialize, Poll, StopChild,
                FleetReturns, Summarize
  <2>2. /\ pc'[f] \in Before => pc[f] \in Before
        /\ pc'[f] \in Launched => pc[f] \in Launched
        /\ pc[f] \in After => pc'[f] \in After
    BY <1>8, Moves
  <2> QED
    BY <1>1, <2>1, <2>2, VersionedKept
<1> QED
  BY <1>2, <1>3, <1>4, <1>5, <1>6, <1>7, <1>8 DEF Next

-----------------------------------------------------------------------------
LEMMA PilotStep == PilotInv /\ [Next]_vars => PilotInv'
BY TypeStep, ClaimedStep, BuiltStep, VersionedStep DEF PilotInv

(* The inductive invariant of plans and invocations.                       *)
THEOREM PilotIsConsistent == Spec => []PilotInv
BY PilotInitHolds, PilotStep, PTL DEF Spec

(* PILOT.md: whatever invocations race on a plan, one at most executes it. *)
THEOREM PlansRunOnce == Spec => []OncePerPlan
<1>1. PilotInv => OncePerPlan
  <2> SUFFICES ASSUME PilotInv, NEW p \in Plan
               PROVE  LET on == {e \in attempts : target[e] = p}
                      IN  /\ Cardinality(on) <= 1
                          /\ on \subseteq {claim[p]}
                          /\ built[p] > 0 \/ summary[p] # "none" => on # {}
                          /\ {e \in fleets : target[e] = p} \subseteq on
    BY DEF OncePerPlan
  <2> DEFINE on == {e \in attempts : target[e] = p}
  <2>1. on \subseteq {claim[p]}
    BY DEF PilotInv, Claimed
  <2>2. IsFiniteSet({claim[p]}) /\ Cardinality({claim[p]}) = 1
    BY FS_Singleton
  <2>3. Cardinality(on) <= 1
    BY <2>1, <2>2, FS_Subset
  <2>4. built[p] > 0 \/ summary[p] # "none" => on # {}
    BY DEF PilotInv, Claimed
  <2>5. {e \in fleets : target[e] = p} \subseteq on
    BY DEF PilotInv, Claimed
  <2> QED
    BY <2>1, <2>3, <2>4, <2>5
<1> QED
  BY <1>1, PilotIsConsistent, PTL

(* PILOT.md: the fleet runs on the versions that preflight verified, in    *)
(* the services too.                                                       *)
THEOREM FleetsRunOnEvidence == Spec => []FleetOnClaimedEvidence
<1>1. PilotInv => FleetOnClaimedEvidence
  BY DEF PilotInv, FleetOnClaimedEvidence, Built, Versioned, TypeOK
<1> QED
  BY <1>1, PilotIsConsistent, PTL

-----------------------------------------------------------------------------
(* The sample, from the seed rows to the review tasks.                     *)
SampleSpec == SampleInit /\ [][SampleNext]_sampleVars

(* The label of a document is what the rows read so far say of it. *)
RowsOf(id) == {r \in rows : r.id = id}
Judged(id) == {[topic |-> r.topic, assessment |-> r.assessment] : r \in RowsOf(id)}
Disputed(id) ==
  {t \in Topic : \E r, s \in RowsOf(id) :
                   r.topic = t /\ s.topic = t /\ r.assessment # s.assessment}
LabelsFollow ==
  \A id \in DocId : labels[id].judgments = Judged(id) /\ labels[id].conflicts = Disputed(id)

(* The members in their order, and the first one of each name. *)
Member == Nat \X DocId \X (Text \cup Undecodable)
MembersOK ==
  /\ members \in SUBSET Member /\ IsFiniteSet(members)
  /\ \A m \in members : m[1] <= Cardinality(members)
  /\ \A m, n \in members : m[1] = n[1] => m = n
Leads(m) == \A n \in members : n[2] = m[2] => m[1] <= n[1]
FirstOnes == {m \in members : Leads(m) /\ m[2] \in Labelled}
Headed == \A m \in members : \E n \in members : n[2] = m[2] /\ Leads(n)

Sampled ==
  /\ documents = {[id |-> m[2], content |-> m[3], label |-> labels[m[2]]] :
                    m \in {m \in FirstOnes : m[3] \in Text}}
  /\ exclusions = {[id |-> m[2], content |-> m[3]] : m \in {m \in FirstOnes : m[3] \in Undecodable}}

SampleShape ==
  /\ rows \subseteq Row
  /\ labels \in [DocId -> [family : Family \cup {"none"},
                           judgments : SUBSET [topic : Topic, assessment : Assessment],
                           conflicts : SUBSET Topic]]
  /\ step \in {"seeds", "scan", "manifest", "prepared", "failed"}
  /\ IsFiniteSet(documents) /\ Cardinality(documents) <= Limit
  /\ step \in {"seeds", "scan"} => Cardinality(documents) < Limit
  /\ documents \subseteq [id : DocId, content : Text, label : {labels[id] : id \in DocId}]
  /\ exclusions \subseteq [id : DocId, content : Undecodable]
  /\ step = "seeds" => members = {} /\ documents = {} /\ exclusions = {}

SampleInv ==
  /\ SampleShape
  /\ step # "failed" => LabelsFollow /\ MembersOK /\ Headed /\ Sampled
  /\ step = "prepared" => IdsOf(documents) = IdsOf(prepared.tasks) \cup prepared.exceptions

LEMMA SampleInitHolds == SampleInit => SampleInv
<1> SUFFICES ASSUME SampleInit PROVE SampleInv
  OBVIOUS
<1>1. Cardinality({}) = 0 /\ IsFiniteSet({})
  BY FS_EmptySet
<1>2. SampleShape
  BY <1>1, SampleAssumption DEF SampleInit, SampleShape, Unlabelled
<1>3. LabelsFollow
  BY DEF SampleInit, LabelsFollow, Judged, Disputed, RowsOf, Unlabelled
<1>4. MembersOK /\ Headed
  BY <1>1 DEF SampleInit, MembersOK, Headed
<1>5. FirstOnes = {}
  BY DEF SampleInit, FirstOnes
<1>6. Sampled
  BY <1>5 DEF SampleInit, Sampled
<1>7. QED
  BY <1>2, <1>3, <1>4, <1>6 DEF SampleInv, SampleInit

(* One row more: its judgment joins those of its document, and its topic   *)
(* the conflicts exactly when an earlier row judged it otherwise.          *)
LEMMA SeedStep == SampleInv /\ ReadSeed => SampleInv'
<1> SUFFICES ASSUME SampleInv, ReadSeed PROVE SampleInv'
  OBVIOUS
<1>1. PICK row \in Row :
        /\ rows' = rows \cup {row}
        /\ IF row.id \in Labelled /\ labels[row.id].family # row.family
           THEN step' = "failed" /\ UNCHANGED labels
           ELSE labels' = [labels EXCEPT ![row.id] = WithJudgment(@, row)] /\ UNCHANGED step
  BY DEF ReadSeed
<1>2. /\ step = "seeds" /\ members = {} /\ documents = {} /\ exclusions = {}
      /\ UNCHANGED <<members, documents, exclusions, prepared>>
      /\ SampleShape /\ LabelsFollow /\ MembersOK /\ Headed /\ Sampled
  BY DEF ReadSeed, SampleInv, SampleShape
<1>3. CASE step' = "failed"
  <2>1. labels' = labels
    BY <1>1, <1>2, <1>3
  <2>2. SampleShape'
    BY <1>1, <1>2, <1>3, <2>1 DEF SampleShape
  <2>3. QED
    BY <1>3, <2>2 DEF SampleInv
<1>4. CASE labels' = [labels EXCEPT ![row.id] = WithJudgment(@, row)] /\ UNCHANGED step
  <2> DEFINE id == row.id
             entry == labels[id]
             label == [topic |-> row.topic, assessment |-> row.assessment]
             disputed == \E j \in entry.judgments : j.topic = row.topic /\ j # label
             new == WithJudgment(entry, row)
  <2>1. /\ row.id \in DocId /\ row.topic \in Topic /\ row.assessment \in Assessment
        /\ row.family \in Family
    BY DEF Row
  <2>2. /\ new.family = row.family
        /\ new.judgments = entry.judgments \cup {label}
        /\ new.conflicts = entry.conflicts \cup (IF disputed THEN {row.topic} ELSE {})
        /\ new = [family |-> new.family, judgments |-> new.judgments, conflicts |-> new.conflicts]
    BY DEF WithJudgment
  <2>3. /\ entry.judgments \subseteq [topic : Topic, assessment : Assessment]
        /\ entry.conflicts \subseteq Topic
    BY <1>2, <2>1 DEF SampleShape
  <2>4. new \in [family : Family \cup {"none"},
                 judgments : SUBSET [topic : Topic, assessment : Assessment],
                 conflicts : SUBSET Topic]
    <3> HIDE DEF new
    <3>1. /\ new.family \in Family \cup {"none"}
          /\ new.judgments \in SUBSET [topic : Topic, assessment : Assessment]
          /\ new.conflicts \in SUBSET Topic
      BY <2>1, <2>2, <2>3
    <3>2. QED
      BY <2>2, <3>1
  <2>5. SampleShape'
    BY <1>1, <1>2, <1>4, <2>1, <2>4 DEF SampleShape
  <2>6. labels'[id] = new /\ \A x \in DocId \ {id} : labels'[x] = labels[x]
    BY <1>2, <1>4, <2>1 DEF SampleShape
  <2>7. Judged(id)' = Judged(id) \cup {label}
    BY <1>1 DEF Judged, RowsOf
  <2>8. ASSUME NEW x \in DocId \ {id}
        PROVE  Judged(x)' = Judged(x) /\ Disputed(x)' = Disputed(x)
    <3>1. RowsOf(x)' = RowsOf(x)
      BY <1>1 DEF RowsOf
    <3>2. QED
      BY <3>1 DEF Judged, Disputed
  <2>9. entry.judgments = Judged(id) /\ entry.conflicts = Disputed(id)
    BY <1>2, <2>1 DEF LabelsFollow
  <2>10. disputed <=> \E r \in RowsOf(id) : r.topic = row.topic /\ r.assessment # row.assessment
    <3>1. ASSUME disputed
          PROVE  \E r \in RowsOf(id) : r.topic = row.topic /\ r.assessment # row.assessment
      <4>1. PICK j \in Judged(id) : j.topic = row.topic /\ j # label
        BY <2>9, <3>1
      <4>2. PICK r \in RowsOf(id) : j = [topic |-> r.topic, assessment |-> r.assessment]
        BY <4>1 DEF Judged
      <4>3. QED
        BY <4>1, <4>2
    <3>2. ASSUME NEW r \in RowsOf(id), r.topic = row.topic, r.assessment # row.assessment
          PROVE  disputed
      <4> DEFINE j == [topic |-> r.topic, assessment |-> r.assessment]
      <4>1. j \in Judged(id)
        BY DEF Judged
      <4>2. j.topic = row.topic /\ j.assessment # label.assessment
        BY <3>2
      <4>3. j \in entry.judgments /\ j # label
        BY <2>9, <4>1, <4>2
      <4>4. QED
        BY <4>2, <4>3
    <3>3. QED
      BY <3>1, <3>2
  <2>11. RowsOf(id)' = RowsOf(id) \cup {row}
    BY <1>1 DEF RowsOf
  <2>12. ASSUME NEW t \in Topic
         PROVE  t \in Disputed(id)' <=> t \in Disputed(id) \/ (t = row.topic /\ disputed)
    BY <2>10, <2>11 DEF Disputed
  <2>13. Disputed(id)' = new.conflicts
    <3>1. Disputed(id)' \subseteq Topic
      BY DEF Disputed
    <3>2. new.conflicts \subseteq Topic
      BY <2>1, <2>2, <2>3
    <3>3. ASSUME NEW t \in Topic PROVE t \in Disputed(id)' <=> t \in new.conflicts
      BY <2>2, <2>9, <2>12
    <3>4. QED
      BY <3>1, <3>2, <3>3
  <2>14. LabelsFollow'
    BY <1>2, <2>2, <2>6, <2>7, <2>8, <2>9, <2>13 DEF LabelsFollow
  <2>15. MembersOK' /\ Headed'
    BY <1>2 DEF MembersOK, Headed, Leads
  <2>16. Sampled'
    <3>1. FirstOnes' = {}
      BY <1>2 DEF FirstOnes
    <3>2. QED
      BY <1>2, <3>1 DEF Sampled
  <2>17. QED
    BY <1>2, <1>4, <2>5, <2>14, <2>15, <2>16 DEF SampleInv
<1>5. QED
  BY <1>1, <1>3, <1>4

(* One member more: it is the first of its name exactly when no member has *)
(* the name, and the first of every other name stays.                      *)
LEMMA MemberStep == SampleInv /\ ReadMember => SampleInv'
<1> SUFFICES ASSUME SampleInv, ReadMember PROVE SampleInv'
  OBVIOUS
<1> DEFINE place == Cardinality(members) + 1
<1>1. PICK id \in DocId, content \in Text \cup Undecodable :
        LET document == [id |-> id, content |-> content, label |-> labels[id]]
            taken == Counts(id) /\ content \in Text
        IN  /\ members' = members \cup {<<place, id, content>>}
            /\ documents' = IF taken THEN documents \cup {document} ELSE documents
            /\ exclusions' = IF Counts(id) /\ ~taken
                             THEN exclusions \cup {[id |-> id, content |-> content]}
                             ELSE exclusions
            /\ step' = IF taken /\ Cardinality(documents') >= Limit THEN "manifest" ELSE step
  BY DEF ReadMember
<1> DEFINE document == [id |-> id, content |-> content, label |-> labels[id]]
           taken == Counts(id) /\ content \in Text
           exclusion == [id |-> id, content |-> content]
<1>0. PICK new : new = <<place, id, content>>
  OBVIOUS
<1>2. /\ members' = members \cup {new}
      /\ documents' = IF taken THEN documents \cup {document} ELSE documents
      /\ exclusions' = IF Counts(id) /\ ~taken THEN exclusions \cup {exclusion} ELSE exclusions
      /\ step' = IF taken /\ Cardinality(documents') >= Limit THEN "manifest" ELSE step
  BY <1>0, <1>1
<1>3. /\ step = "scan" /\ UNCHANGED <<rows, labels, prepared>>
      /\ SampleShape /\ LabelsFollow /\ MembersOK /\ Headed /\ Sampled
      /\ Text \cap Undecodable = {}
  BY SampleAssumption DEF ReadMember, SampleInv
<1>4. Cardinality(members) \in Nat /\ place \in Nat
  BY <1>3, FS_CardinalityType DEF MembersOK
<1>5. new \in Member /\ new[1] = place /\ new[2] = id /\ new[3] = content
  BY <1>0, <1>4 DEF Member
<1>6. ASSUME NEW m \in members
      PROVE  /\ m \in Member /\ m[1] \in Nat /\ m[2] \in DocId /\ m[3] \in Text \cup Undecodable
             /\ m[1] < place /\ m # new
  BY <1>3, <1>4, <1>5 DEF MembersOK, Member
<1> DEFINE Ids == {m[2] : m \in members}
<1>7. Seen = Ids \cap Labelled
  <2> DEFINE doc(m) == [id |-> m[2], content |-> m[3], label |-> labels[m[2]]]
             exc(m) == [id |-> m[2], content |-> m[3]]
  <2>6. \A m : doc(m).id = m[2] /\ exc(m).id = m[2]
    OBVIOUS
  <2>7. /\ documents = {doc(m) : m \in {m \in FirstOnes : m[3] \in Text}}
        /\ exclusions = {exc(m) : m \in {m \in FirstOnes : m[3] \in Undecodable}}
    BY <1>3 DEF Sampled
  <2> HIDE DEF doc, exc
  <2>1. ASSUME NEW x
        PROVE  x \in IdsOf(documents) <=> \E m \in FirstOnes : m[3] \in Text /\ m[2] = x
    <3>1. ASSUME x \in IdsOf(documents)
          PROVE  \E m \in FirstOnes : m[3] \in Text /\ m[2] = x
      <4>1. PICK d \in documents : d.id = x
        BY <3>1 DEF IdsOf
      <4>2. PICK m \in FirstOnes : m[3] \in Text /\ d = doc(m)
        BY <2>7
      <4>3. QED
        BY <2>6, <4>1, <4>2
    <3>2. ASSUME NEW m \in FirstOnes, m[3] \in Text, m[2] = x PROVE x \in IdsOf(documents)
      <4>1. doc(m) \in documents /\ doc(m).id = x
        BY <2>6, <2>7, <3>2
      <4>2. QED
        BY <4>1 DEF IdsOf
    <3>3. QED
      BY <3>1, <3>2
  <2>2. ASSUME NEW x
        PROVE  x \in IdsOf(exclusions) <=> \E m \in FirstOnes : m[3] \in Undecodable /\ m[2] = x
    <3>1. ASSUME x \in IdsOf(exclusions)
          PROVE  \E m \in FirstOnes : m[3] \in Undecodable /\ m[2] = x
      <4>1. PICK d \in exclusions : d.id = x
        BY <3>1 DEF IdsOf
      <4>2. PICK m \in FirstOnes : m[3] \in Undecodable /\ d = exc(m)
        BY <2>7
      <4>3. QED
        BY <2>6, <4>1, <4>2
    <3>2. ASSUME NEW m \in FirstOnes, m[3] \in Undecodable, m[2] = x PROVE x \in IdsOf(exclusions)
      <4>1. exc(m) \in exclusions /\ exc(m).id = x
        BY <2>6, <2>7, <3>2
      <4>2. QED
        BY <4>1 DEF IdsOf
    <3>3. QED
      BY <3>1, <3>2
  <2>3. Seen = {m[2] : m \in FirstOnes}
    BY <1>6, <2>1, <2>2 DEF Seen, FirstOnes
  <2>4. ASSUME NEW m \in members, m[2] \in Labelled PROVE m[2] \in Seen
    <3>1. PICK n \in members : n[2] = m[2] /\ Leads(n)
      BY <1>3 DEF Headed
    <3>2. QED
      BY <2>3, <2>4, <3>1 DEF FirstOnes
  <2>5. QED
    BY <2>3, <2>4 DEF FirstOnes
<1>8. Counts(id) <=> id \in Labelled /\ id \notin Ids
  BY <1>7 DEF Counts
<1> DEFINE heads == id \notin Ids
<1>9. ASSUME NEW m \in members PROVE Leads(m)' <=> Leads(m)
  <2>1. \A n : n \in members' <=> n \in members \/ n = new
    BY <1>2
  <2>2. m[1] <= new[1]
    BY <1>4, <1>5, <1>6
  <2>3. QED
    BY <2>1, <2>2 DEF Leads
<1>10. Leads(new)' <=> heads
  <2>1. ASSUME heads, NEW n \in members', n[2] = new[2] PROVE new[1] <= n[1]
    BY <1>2, <1>4, <1>5, <2>1
  <2>2. ASSUME NEW m \in members, m[2] = id PROVE ~ Leads(new)'
    BY <1>2, <1>4, <1>5, <1>6, <2>2 DEF Leads
  <2>3. QED
    BY <2>1, <2>2 DEF Leads
<1>11. MembersOK'
  <2>1. IsFiniteSet(members') /\ Cardinality(members') = place
    BY <1>2, <1>3, <1>5, <1>6, FS_AddElement DEF MembersOK
  <2>2. members' \in SUBSET Member
    BY <1>2, <1>3, <1>5 DEF MembersOK
  <2>3. \A m \in members' : m[1] <= place
    BY <1>2, <1>4, <1>5, <1>6
  <2>4. ASSUME NEW m \in members', NEW n \in members', m[1] = n[1] PROVE m = n
    <3>1. CASE m \in members /\ n \in members
      BY <1>3, <2>4, <3>1 DEF MembersOK
    <3>2. CASE m = new \/ n = new
      BY <1>2, <1>4, <1>5, <1>6, <2>4, <3>2
    <3>3. QED
      BY <1>2, <3>1, <3>2
  <2>5. QED
    BY <2>1, <2>2, <2>3, <2>4 DEF MembersOK
<1>12. Headed'
  <2>1. ASSUME NEW m \in members PROVE \E n \in members' : n[2] = m[2] /\ Leads(n)'
    <3>1. PICK n \in members : n[2] = m[2] /\ Leads(n)
      BY <1>3 DEF Headed
    <3>2. QED
      BY <1>2, <1>9, <3>1
  <2>2. \E n \in members' : n[2] = id /\ Leads(n)'
    <3>1. CASE heads
      BY <1>2, <1>5, <1>10, <3>1
    <3>2. CASE ~ heads
      BY <2>1, <3>2
    <3>3. QED
      BY <3>1, <3>2
  <2>3. QED
    BY <1>2, <1>5, <2>1, <2>2 DEF Headed
<1>13. Labelled' = Labelled
  BY <1>3 DEF Labelled
<1>14. FirstOnes' = IF Counts(id) THEN FirstOnes \cup {new} ELSE FirstOnes
  <2>1. ASSUME NEW m \in members PROVE m \in FirstOnes' <=> m \in FirstOnes
    BY <1>2, <1>9, <1>13, <2>1 DEF FirstOnes
  <2>2. new \in FirstOnes' <=> Counts(id)
    BY <1>2, <1>5, <1>8, <1>10, <1>13 DEF FirstOnes
  <2>3. FirstOnes' \subseteq members \cup {new} /\ FirstOnes \subseteq members
    BY <1>2 DEF FirstOnes
  <2>4. QED
    BY <2>1, <2>2, <2>3
<1>15. Sampled'
  <2> DEFINE doc(m) == [id |-> m[2], content |-> m[3], label |-> labels[m[2]]]
             exc(m) == [id |-> m[2], content |-> m[3]]
  <2>1. doc(new) = document /\ exc(new) = exclusion
    BY <1>5
  <2>2. /\ documents = {doc(m) : m \in {m \in FirstOnes : m[3] \in Text}}
        /\ exclusions = {exc(m) : m \in {m \in FirstOnes : m[3] \in Undecodable}}
    BY <1>3 DEF Sampled
  <2> HIDE DEF doc, exc, document, exclusion
  <2>3. documents' = {doc(m) : m \in {m \in FirstOnes' : m[3] \in Text}}
    BY <1>2, <1>5, <1>14, <2>1, <2>2
  <2>4. exclusions' = {exc(m) : m \in {m \in FirstOnes' : m[3] \in Undecodable}}
    BY <1>2, <1>3, <1>5, <1>14, <2>1, <2>2
  <2>5. labels' = labels
    BY <1>3
  <2>6. QED
    BY <2>3, <2>4, <2>5 DEF Sampled, doc, exc
<1>16. SampleShape'
  <2>1. /\ IsFiniteSet(documents') /\ Cardinality(documents') <= Limit
        /\ Cardinality(documents') \in Nat
        /\ ~ taken => Cardinality(documents') < Limit
    <3>1. IsFiniteSet(documents) /\ Cardinality(documents) < Limit
          /\ Cardinality(documents) \in Nat
      BY <1>3, FS_CardinalityType DEF SampleShape
    <3>2. documents' = documents \/ documents' = documents \cup {document}
      BY <1>2
    <3>3. /\ IsFiniteSet(documents \cup {document})
          /\ Cardinality(documents \cup {document}) \in
               {Cardinality(documents), Cardinality(documents) + 1}
      BY <3>1, FS_AddElement
    <3>4. QED
      BY <1>2, <3>1, <3>2, <3>3, SampleAssumption
  <2>2. step' \in {"scan", "manifest"} /\ (step' = "scan" => Cardinality(documents') < Limit)
    BY <1>2, <1>3, <2>1, SampleAssumption
  <2>3. documents' \subseteq [id : DocId, content : Text, label : {labels[x] : x \in DocId}]
    BY <1>2, <1>3 DEF SampleShape
  <2>4. exclusions' \subseteq [id : DocId, content : Undecodable]
    BY <1>2, <1>3 DEF SampleShape
  <2>5. QED
    BY <1>3, <2>1, <2>2, <2>3, <2>4 DEF SampleShape
<1>17. LabelsFollow'
  BY <1>3 DEF LabelsFollow, Judged, Disputed, RowsOf
<1>18. step' # "prepared"
  BY <1>2, <1>3
<1>19. QED
  BY <1>11, <1>12, <1>15, <1>16, <1>17, <1>18 DEF SampleInv

LEMMA SampleStep == SampleInv /\ [SampleNext]_sampleVars => SampleInv'
<1> SUFFICES ASSUME SampleInv, [SampleNext]_sampleVars PROVE SampleInv'
  OBVIOUS
<1>1. ASSUME UNCHANGED <<rows, labels, members, documents, exclusions>>,
             step' \in {"scan", "manifest", "prepared", "failed"},
             step' = "scan" => step = "seeds",
             step' # "failed" => step # "failed",
             step' = "prepared" => IdsOf(documents) = IdsOf(prepared'.tasks) \cup prepared'.exceptions
      PROVE  SampleInv'
  <2>1. SampleShape'
    BY <1>1 DEF SampleInv, SampleShape
  <2>2. ASSUME LabelsFollow, MembersOK, Headed, Sampled
        PROVE  LabelsFollow' /\ MembersOK' /\ Headed' /\ Sampled'
    <3>1. LabelsFollow'
      BY <1>1, <2>2 DEF LabelsFollow, Judged, Disputed, RowsOf
    <3>2. MembersOK' /\ Headed'
      BY <1>1, <2>2 DEF MembersOK, Headed, Leads
    <3>3. FirstOnes' = FirstOnes
      BY <1>1 DEF FirstOnes, Leads, Labelled
    <3>4. Sampled'
      BY <1>1, <2>2, <3>3 DEF Sampled
    <3>5. QED
      BY <3>1, <3>2, <3>4
  <2>3. IdsOf(documents)' = IdsOf(documents)
    BY <1>1 DEF IdsOf
  <2>4. step' = "prepared" =>
          IdsOf(documents)' = IdsOf(prepared'.tasks) \cup prepared'.exceptions
    BY <1>1, <2>3
  <2>5. QED
    BY <1>1, <2>1, <2>2, <2>4 DEF SampleInv, IdsOf
<1>2. CASE ReadSeed
  BY <1>2, SeedStep
<1>3. CASE StartScan
  BY <1>1, <1>3 DEF StartScan
<1>4. CASE ReadMember
  BY <1>4, MemberStep
<1>5. CASE BadMember
  BY <1>1, <1>5 DEF BadMember
<1>6. CASE EndScan
  BY <1>1, <1>6 DEF EndScan
<1>7. CASE PrepareTasks
  <2>1. UNCHANGED <<rows, labels, members, documents, exclusions>> /\ step = "manifest"
    BY <1>7 DEF PrepareTasks
  <2>2. CASE step' = "failed"
    BY <1>1, <2>1, <2>2
  <2>3. CASE /\ prepared' = [tasks |-> {Task(d) : d \in {d \in documents : Fits(d)}},
                             exceptions |-> {d.id : d \in {d \in documents : ~ Fits(d)}}]
             /\ step' = "prepared"
    <3>1. IdsOf(prepared'.tasks) = {d.id : d \in {d \in documents : Fits(d)}}
      <4>1. \A d : Task(d).id = d.id
        BY DEF Task
      <4>2. prepared'.tasks = {Task(d) : d \in {d \in documents : Fits(d)}}
        BY <2>3
      <4>3. ASSUME NEW d \in documents, Fits(d) PROVE d.id \in IdsOf(prepared'.tasks)
        BY <4>1, <4>2, <4>3 DEF IdsOf
      <4>4. ASSUME NEW x \in IdsOf(prepared'.tasks)
            PROVE  \E d \in documents : Fits(d) /\ d.id = x
        BY <4>1, <4>2 DEF IdsOf
      <4>5. QED
        BY <4>3, <4>4
    <3>2. prepared'.exceptions = {d.id : d \in {d \in documents : ~ Fits(d)}}
      BY <2>3
    <3>3. IdsOf(documents) = IdsOf(prepared'.tasks) \cup prepared'.exceptions
      BY <3>1, <3>2 DEF IdsOf
    <3>4. QED
      BY <1>1, <2>1, <2>3, <3>3
  <2>4. QED
    BY <1>7, <2>2, <2>3 DEF PrepareTasks
<1>8. CASE ObjectChanged
  BY <1>1, <1>8 DEF ObjectChanged
<1>9. CASE UNCHANGED sampleVars
  BY <1>9 DEF sampleVars, SampleInv, SampleShape, LabelsFollow, Judged, Disputed, RowsOf,
              MembersOK, Headed, Leads, Sampled, FirstOnes, Labelled, IdsOf
<1>10. QED
  BY <1>2, <1>3, <1>4, <1>5, <1>6, <1>7, <1>8, <1>9 DEF SampleNext

LEMMA FirstIs ==
  ASSUME MembersOK, NEW m \in members, Leads(m)
  PROVE  First(m[2]) = m
<1> DEFINE Is(n) == n \in members /\ n[2] = m[2] /\ \A o \in members : o[2] = m[2] => n[1] <= o[1]
<1>1. First(m[2]) = CHOOSE n : Is(n)
  BY DEF First
<1>2. Is(m)
  BY DEF Leads
<1>3. ASSUME NEW n, Is(n) PROVE n = m
  <2>1. n[1] <= m[1] /\ m[1] <= n[1]
    BY <1>2, <1>3
  <2>2. n[1] \in Nat /\ m[1] \in Nat
    BY <1>3 DEF MembersOK, Member
  <2>3. n[1] = m[1]
    BY <2>1, <2>2
  <2>4. QED
    BY <1>3, <2>3 DEF MembersOK
<1>4. QED
  BY <1>1, <1>2, <1>3

(* CORPUS.md, REVIEW.md: for any documents, families, topics, contents and *)
(* limit: what the scan met of the labelled documents is a task, an        *)
(* exception or an exclusion, by its first text, and its disputes are      *)
(* those of its seeds.                                                     *)
THEOREM SamplesAreAccounted == SampleSpec => []SampleAccounted
<1>1. SampleInv => SampleAccounted
  <2> SUFFICES ASSUME SampleInv PROVE SampleAccounted
    OBVIOUS
  <2>1. SampleTypeOK
    BY DEF SampleInv, SampleShape, SampleTypeOK
  <2> DEFINE met == {m[2] : m \in members} \cap Labelled
  <2>2. ASSUME step \in {"manifest", "prepared"}
        PROVE  /\ Cardinality(documents) <= Limit
               /\ IdsOf(exclusions) = {id \in met : First(id)[3] \in Undecodable}
               /\ {Task(d) : d \in documents} =
                    {[id |-> id, content |-> First(id)[3]] :
                       id \in {i \in met : First(i)[3] \in Text}}
               /\ \A id \in Labelled : \A topic \in Topic :
                    topic \in labels[id].conflicts <=>
                      \E r, s \in rows : r.id = id /\ s.id = id /\ r.topic = topic
                                         /\ s.topic = topic /\ r.assessment # s.assessment
               /\ step = "prepared" =>
                    IdsOf(documents) = IdsOf(prepared.tasks) \cup prepared.exceptions
    <3>1. SampleShape /\ LabelsFollow /\ MembersOK /\ Headed /\ Sampled
      BY <2>2 DEF SampleInv
    <3>2. ASSUME NEW id \in met
          PROVE  First(id) \in FirstOnes /\ First(id)[2] = id
      <4>1. PICK m \in members : m[2] = id /\ Leads(m)
        BY <3>1 DEF Headed
      <4>2. First(id) = m
        BY <3>1, <4>1, FirstIs
      <4>3. QED
        BY <4>1, <4>2 DEF FirstOnes
    <3>3. ASSUME NEW m \in FirstOnes
          PROVE  m[2] \in met /\ First(m[2]) = m
      BY <3>1, FirstIs DEF FirstOnes
    <3> DEFINE doc(m) == [id |-> m[2], content |-> m[3], label |-> labels[m[2]]]
               exc(m) == [id |-> m[2], content |-> m[3]]
    <3>4. \A m : exc(m).id = m[2] /\ Task(doc(m)) = exc(m)
      BY DEF Task
    <3>5. /\ documents = {doc(m) : m \in {m \in FirstOnes : m[3] \in Text}}
          /\ exclusions = {exc(m) : m \in {m \in FirstOnes : m[3] \in Undecodable}}
      BY <3>1 DEF Sampled
    <3>6. \A id : id \in met => exc(First(id)) = [id |-> id, content |-> First(id)[3]]
      BY <3>2
    <3> HIDE DEF doc, exc, met
    <3>7. IdsOf(exclusions) = {id \in met : First(id)[3] \in Undecodable}
      <4>1. ASSUME NEW id \in IdsOf(exclusions) PROVE id \in met /\ First(id)[3] \in Undecodable
        <5>1. PICK e \in exclusions : e.id = id
          BY DEF IdsOf
        <5>2. PICK m \in FirstOnes : m[3] \in Undecodable /\ e = exc(m)
          BY <3>5
        <5>3. id = m[2]
          BY <3>4, <5>1, <5>2
        <5>4. QED
          BY <3>3, <5>2, <5>3
      <4>2. ASSUME NEW id \in met, First(id)[3] \in Undecodable PROVE id \in IdsOf(exclusions)
        <5>1. exc(First(id)) \in exclusions /\ exc(First(id)).id = id
          BY <3>2, <3>4, <3>5, <4>2
        <5>2. QED
          BY <5>1 DEF IdsOf
      <4>3. QED
        BY <4>1, <4>2
    <3>8. {Task(d) : d \in documents} =
            {[id |-> id, content |-> First(id)[3]] : id \in {i \in met : First(i)[3] \in Text}}
      <4>1. ASSUME NEW d \in documents
            PROVE  \E id \in met : First(id)[3] \in Text
                                   /\ Task(d) = [id |-> id, content |-> First(id)[3]]
        <5>1. PICK m \in FirstOnes : m[3] \in Text /\ d = doc(m)
          BY <3>5
        <5>2. m[2] \in met /\ First(m[2]) = m
          BY <3>3
        <5>3. Task(d) = [id |-> m[2], content |-> First(m[2])[3]]
          BY <3>4, <3>6, <5>1, <5>2
        <5>4. QED
          BY <5>1, <5>2, <5>3
      <4>2. ASSUME NEW id \in met, First(id)[3] \in Text
            PROVE  \E d \in documents : Task(d) = [id |-> id, content |-> First(id)[3]]
        <5>1. doc(First(id)) \in documents
          BY <3>2, <3>5, <4>2
        <5>2. Task(doc(First(id))) = [id |-> id, content |-> First(id)[3]]
          BY <3>4, <3>6
        <5>3. QED
          BY <5>1, <5>2
      <4>3. QED
        BY <4>1, <4>2
    <3>9. ASSUME NEW id \in Labelled, NEW topic \in Topic
          PROVE  topic \in labels[id].conflicts <=>
                   \E r, s \in rows : r.id = id /\ s.id = id /\ r.topic = topic
                                      /\ s.topic = topic /\ r.assessment # s.assessment
      <4>1. id \in DocId
        BY DEF Labelled
      <4>2. labels[id].conflicts = Disputed(id)
        BY <3>1, <4>1 DEF LabelsFollow
      <4>3. QED
        BY <4>2 DEF Disputed, RowsOf
    <3>10. Cardinality(documents) <= Limit
      BY <3>1 DEF SampleShape
    <3>11. step = "prepared" => IdsOf(documents) = IdsOf(prepared.tasks) \cup prepared.exceptions
      BY DEF SampleInv
    <3>12. QED
      BY <3>7, <3>8, <3>9, <3>10, <3>11 DEF met
  <2>3. QED
    BY <2>1, <2>2 DEF SampleAccounted
<1>2. QED
  BY <1>1, SampleInitHolds, SampleStep, PTL DEF SampleSpec

-----------------------------------------------------------------------------
(* EvidenceChain: what packaging, adjudication and validation publish,     *)
(* whoever edits what they read while they read it.                        *)
EvidenceSpec == EvidenceInit /\ [][EvidenceNext]_evidenceVars

(* The scripts, reading by reading. *)
LEMMA Concatenated ==
  ASSUME NEW n \in Nat, NEW m \in Nat, NEW s, NEW t, NEW u,
         u = [i \in 1 .. n + m |-> u[i]],
         s = [i \in 1 .. n |-> u[i]],
         t = [i \in 1 .. m |-> u[i + n]]
  PROVE  s \o t = u
<1> DEFINE V == {u[i] : i \in 1 .. n + m}
<1>1. u \in [1 .. n + m -> V] /\ s \in [1 .. n -> V] /\ t \in [1 .. m -> V]
  <2>1. u \in [1 .. n + m -> V]
    OBVIOUS
  <2>2. \A i \in 1 .. n : i \in 1 .. n + m
    OBVIOUS
  <2>3. \A i \in 1 .. m : i + n \in 1 .. n + m
    OBVIOUS
  <2>4. QED
    BY <2>1, <2>2, <2>3
<1> HIDE DEF V
<1>2. /\ u \in Seq(V) /\ Len(u) = n + m
      /\ s \in Seq(V) /\ Len(s) = n
      /\ t \in Seq(V) /\ Len(t) = m
  <2>1. n + m \in Nat
    OBVIOUS
  <2>2. u \in Seq(V) /\ s \in Seq(V) /\ t \in Seq(V)
    <3>1. ASSUME NEW k \in Nat, NEW f, f \in [1 .. k -> V] PROVE f \in Seq(V)
      BY <3>1, SeqDef
    <3>2. QED
      BY <1>1, <2>1, <3>1
  <2>3. DOMAIN u = 1 .. n + m /\ DOMAIN s = 1 .. n /\ DOMAIN t = 1 .. m
    BY <1>1
  <2>4. QED
    BY <2>1, <2>2, <2>3, LenProperties
<1>3. s \o t \in Seq(V) /\ Len(s \o t) = Len(u)
  BY <1>2, ConcatProperties
<1>4. ASSUME NEW i \in 1 .. Len(u) PROVE (s \o t)[i] = u[i]
  <2>1. (s \o t)[i] = IF i <= n THEN s[i] ELSE t[i - n]
    BY <1>2, <1>4, ConcatProperties
  <2>2. CASE i <= n
    BY <1>2, <2>1, <2>2
  <2>3. CASE ~ (i <= n)
    <3>1. i - n \in 1 .. m /\ (i - n) + n = i
      BY <1>2, <2>3
    <3>2. QED
      BY <2>1, <2>3, <3>1
  <2>4. QED
    BY <2>2, <2>3
<1>5. QED
  BY <1>2, <1>3, <1>4, SeqEqual

AssetReadings(r) ==
  <<<<r, "replay">>, <<r, "tasks">>, <<r, "corpus">>, <<r, "recording">>,
    <<r, "artifacts">>, <<r, "seal">>>>
QueueReadings ==
  <<<<"queue", "hash">>, <<"queue", "replay">>, <<"queue", "tasks">>,
    <<"queue", "corpus">>, <<"queue", "recording">>, <<"queue", "artifacts">>,
    <<"queue", "seal">>, <<"queue", "rehash">>>>
FreezeReadings ==
  <<<<"first", "replay">>, <<"first", "tasks">>, <<"first", "corpus">>,
    <<"first", "recording">>, <<"first", "artifacts">>, <<"first", "seal">>,
    <<"metrics", "hash">>, <<"metrics", "replay">>, <<"metrics", "rehash">>,
    <<"second", "replay">>, <<"second", "tasks">>, <<"second", "corpus">>,
    <<"second", "recording">>, <<"second", "artifacts">>, <<"second", "seal">>>>
ImageReadings ==
  <<<<"first", "replay">>, <<"first", "bundle">>, <<"first", "recording">>,
    <<"first", "reference">>, <<"first", "inspector">>, <<"metrics", "hash">>,
    <<"metrics", "replay">>, <<"metrics", "rehash">>, <<"second", "replay">>,
    <<"second", "bundle">>, <<"second", "recording">>, <<"second", "reference">>,
    <<"second", "inspector">>>>
ValidationReadings ==
  <<<<"validate", "digest">>, <<"validate", "copy">>, <<"validate", "tests">>,
    <<"validate", "build">>, <<"validate", "built">>, <<"validate", "e2e">>,
    <<"validate", "end">>, <<"validate", "endbuilt">>>>

LEMMA AssetsIs ==
  ASSUME NEW r
  PROVE  Assets(r) = AssetReadings(r)
<1> DEFINE s == <<<<r, "replay">>>>
           t == <<<<r, "tasks">>, <<r, "corpus">>, <<r, "recording">>,
                  <<r, "artifacts">>, <<r, "seal">>>>
           u == AssetReadings(r)
<1>1. Round(r, <<"replay">>) = s
  BY DEF Round
<1>2. Link(r) = t
  BY DEF Link, Round
<1>3. s \o t = u
  <2>1. u = [i \in 1 .. 1 + 5 |-> u[i]]
    BY DEF AssetReadings
  <2>2. s = [i \in 1 .. 1 |-> u[i]]
    BY DEF AssetReadings
  <2>3. t = [i \in 1 .. 5 |-> u[i + 1]]
    BY DEF AssetReadings
  <2> HIDE DEF s, t, u
  <2>4. QED
    BY <2>1, <2>2, <2>3, Concatenated
<1>4. QED
  BY <1>1, <1>2, <1>3 DEF Assets

LEMMA ImageAssetsIs ==
  ASSUME NEW r
  PROVE  ImageAssets(r) = <<<<r, "replay">>, <<r, "bundle">>, <<r, "recording">>,
                            <<r, "reference">>, <<r, "inspector">>>>
BY DEF ImageAssets, Round

LEMMA MetricsIs ==
  Metrics = <<<<"metrics", "hash">>, <<"metrics", "replay">>, <<"metrics", "rehash">>>>
BY DEF Metrics, Round

LEMMA QueueIs == Queue = QueueReadings
<1> DEFINE a == <<<<"queue", "hash">>, <<"queue", "replay">>>>
           b == <<<<"queue", "tasks">>, <<"queue", "corpus">>, <<"queue", "recording">>,
                  <<"queue", "artifacts">>, <<"queue", "seal">>>>
           c == <<<<"queue", "rehash">>>>
           ab == <<<<"queue", "hash">>, <<"queue", "replay">>, <<"queue", "tasks">>,
                   <<"queue", "corpus">>, <<"queue", "recording">>,
                   <<"queue", "artifacts">>, <<"queue", "seal">>>>
           u == QueueReadings
<1>1. Round("queue", <<"hash", "replay">>) = a /\ Round("queue", <<"rehash">>) = c
  BY DEF Round
<1>2. Link("queue") = b
  BY DEF Link, Round
<1>3. a \o b = ab
  <2>1. ab = [i \in 1 .. 2 + 5 |-> ab[i]]
    OBVIOUS
  <2>2. a = [i \in 1 .. 2 |-> ab[i]]
    OBVIOUS
  <2>3. b = [i \in 1 .. 5 |-> ab[i + 2]]
    OBVIOUS
  <2> HIDE DEF a, b, c, ab, u
  <2>4. QED
    BY <2>1, <2>2, <2>3, Concatenated
<1>4. ab \o c = u
  <2>1. u = [i \in 1 .. 7 + 1 |-> u[i]]
    BY DEF QueueReadings
  <2>2. ab = [i \in 1 .. 7 |-> u[i]]
    BY DEF QueueReadings
  <2>3. c = [i \in 1 .. 1 |-> u[i + 7]]
    BY DEF QueueReadings
  <2> HIDE DEF a, b, c, ab, u
  <2>4. QED
    BY <2>1, <2>2, <2>3, Concatenated
<1> HIDE DEF a, b, c, ab, u
<1>5. Queue = a \o b \o c
  BY <1>1, <1>2 DEF Queue
<1>6. Queue = u
  BY <1>3, <1>4, <1>5
<1>7. QED
  BY <1>6 DEF u

LEMMA ValidationIs == Validation = ValidationReadings
BY DEF Validation, Round, ValidationReadings

LEMMA FreezeIs == Assets("first") \o Metrics \o Assets("second") = FreezeReadings
<1> DEFINE a == <<<<"first", "replay">>, <<"first", "tasks">>, <<"first", "corpus">>,
                  <<"first", "recording">>, <<"first", "artifacts">>,
                  <<"first", "seal">>>>
           b == <<<<"metrics", "hash">>, <<"metrics", "replay">>,
                  <<"metrics", "rehash">>>>
           c == <<<<"second", "replay">>, <<"second", "tasks">>, <<"second", "corpus">>,
                  <<"second", "recording">>, <<"second", "artifacts">>,
                  <<"second", "seal">>>>
           ab == <<<<"first", "replay">>, <<"first", "tasks">>, <<"first", "corpus">>,
                   <<"first", "recording">>, <<"first", "artifacts">>,
                   <<"first", "seal">>, <<"metrics", "hash">>, <<"metrics", "replay">>,
                   <<"metrics", "rehash">>>>
           u == FreezeReadings
<1>1. Assets("first") = a /\ Assets("second") = c
  BY AssetsIs DEF AssetReadings
<1>2. Metrics = b
  BY MetricsIs
<1>3. a \o b = ab
  <2>1. ab = [i \in 1 .. 6 + 3 |-> ab[i]]
    OBVIOUS
  <2>2. a = [i \in 1 .. 6 |-> ab[i]]
    OBVIOUS
  <2>3. b = [i \in 1 .. 3 |-> ab[i + 6]]
    OBVIOUS
  <2> HIDE DEF a, b, c, ab, u
  <2>4. QED
    BY <2>1, <2>2, <2>3, Concatenated
<1>4. ab \o c = u
  <2>1. u = [i \in 1 .. 9 + 6 |-> u[i]]
    BY SMTT(60) DEF FreezeReadings
  <2>2. ab = [i \in 1 .. 9 |-> u[i]]
    BY SMTT(60) DEF FreezeReadings
  <2>3. c = [i \in 1 .. 6 |-> u[i + 9]]
    BY SMTT(60) DEF FreezeReadings
  <2> HIDE DEF a, b, c, ab, u
  <2>4. QED
    BY <2>1, <2>2, <2>3, Concatenated
<1> HIDE DEF a, b, c, ab, u
<1>5. Assets("first") \o Metrics \o Assets("second") = a \o b \o c
  BY <1>1, <1>2
<1>6. Assets("first") \o Metrics \o Assets("second") = u
  BY <1>3, <1>4, <1>5
<1>7. QED
  BY <1>6 DEF u

LEMMA ImageIs == ImageAssets("first") \o Metrics \o ImageAssets("second") = ImageReadings
<1> DEFINE a == <<<<"first", "replay">>, <<"first", "bundle">>,
                  <<"first", "recording">>, <<"first", "reference">>,
                  <<"first", "inspector">>>>
           b == <<<<"metrics", "hash">>, <<"metrics", "replay">>,
                  <<"metrics", "rehash">>>>
           c == <<<<"second", "replay">>, <<"second", "bundle">>,
                  <<"second", "recording">>, <<"second", "reference">>,
                  <<"second", "inspector">>>>
           ab == <<<<"first", "replay">>, <<"first", "bundle">>,
                   <<"first", "recording">>, <<"first", "reference">>,
                   <<"first", "inspector">>, <<"metrics", "hash">>,
                   <<"metrics", "replay">>, <<"metrics", "rehash">>>>
           u == ImageReadings
<1>1. ImageAssets("first") = a /\ ImageAssets("second") = c
  BY ImageAssetsIs
<1>2. Metrics = b
  BY MetricsIs
<1>3. a \o b = ab
  <2>1. ab = [i \in 1 .. 5 + 3 |-> ab[i]]
    OBVIOUS
  <2>2. a = [i \in 1 .. 5 |-> ab[i]]
    OBVIOUS
  <2>3. b = [i \in 1 .. 3 |-> ab[i + 5]]
    OBVIOUS
  <2> HIDE DEF a, b, c, ab, u
  <2>4. QED
    BY <2>1, <2>2, <2>3, Concatenated
<1>4. ab \o c = u
  <2>1. u = [i \in 1 .. 8 + 5 |-> u[i]]
    BY SMTT(60) DEF ImageReadings
  <2>2. ab = [i \in 1 .. 8 |-> u[i]]
    BY SMTT(60) DEF ImageReadings
  <2>3. c = [i \in 1 .. 5 |-> u[i + 8]]
    BY SMTT(60) DEF ImageReadings
  <2> HIDE DEF a, b, c, ab, u
  <2>4. QED
    BY <2>1, <2>2, <2>3, Concatenated
<1> HIDE DEF a, b, c, ab, u
<1>5. ImageAssets("first") \o Metrics \o ImageAssets("second") = a \o b \o c
  BY <1>1, <1>2
<1>6. ImageAssets("first") \o Metrics \o ImageAssets("second") = u
  BY <1>3, <1>4, <1>5
<1>7. QED
  BY <1>6 DEF u

LEMMA ScriptIs ==
  /\ DOMAIN Script = {"freeze", "image", "prepare", "resolve", "validate"}
  /\ Script["freeze"] = FreezeReadings
  /\ Script["image"] = ImageReadings
  /\ Script["prepare"] = QueueReadings /\ Script["resolve"] = QueueReadings
  /\ Script["validate"] = ValidationReadings
BY FreezeIs, ImageIs, QueueIs, ValidationIs DEF Script

LinkReadings == Linked \cup {"seal"}
Linking == {"freeze", "prepare", "resolve"}
Whats == Linked \cup Bound \cup {"replay", "seal", "hash", "rehash", "bundle", "digest", "copy",
                                 "tests", "build", "end", "built", "e2e", "endbuilt"}

(* What every script has: no reading comes twice, and what is linked comes *)
(* after the replay that says whether it is linked at all.                 *)
ScriptOK(S) ==
  /\ DOMAIN S \subseteq Nat
  /\ \A i \in DOMAIN S : S[i][2] \in Whats
  /\ \A i, j \in DOMAIN S : S[i] = S[j] => i = j
ReplayFirst(S) ==
  \A i \in DOMAIN S : S[i][2] \in LinkReadings =>
     \E j \in DOMAIN S : j < i /\ S[j] = <<S[i][1], "replay">>

(* The packaging scripts: the two assemblies and the metrics between them. *)
AssemblingAt(S, a, m, b, c, d) ==
  /\ {1, a, m, b, c, d} \subseteq DOMAIN S
  /\ 1 < a /\ a < m /\ m < b /\ b < c /\ c < d
  /\ S[1] = <<"first", "replay">> /\ S[a] = <<"first", "recording">>
  /\ S[m] = <<"metrics", "hash">> /\ S[b] = <<"metrics", "replay">>
  /\ S[c] = <<"metrics", "rehash">> /\ S[d] = <<"second", "replay">>
  /\ \A i \in DOMAIN S : S[i][1] = "first" => i < m
Assembling(S) == \E a, m, b, c, d \in DOMAIN S : AssemblingAt(S, a, m, b, c, d)

LEMMA FreezeOK == ScriptOK(FreezeReadings) /\ ReplayFirst(FreezeReadings) /\ Assembling(FreezeReadings)
<1>1. DOMAIN FreezeReadings = 1 .. 15
  BY DEF FreezeReadings
<1>2. ScriptOK(FreezeReadings)
  <2>1. \A i \in 1 .. 15 : FreezeReadings[i][2] \in Whats
    BY SMTT(60) DEF FreezeReadings, Whats, Linked, Bound
  <2>2. \A i, j \in 1 .. 15 : FreezeReadings[i] = FreezeReadings[j] => i = j
    BY SMTT(60) DEF FreezeReadings
  <2>3. QED
    BY <1>1, <2>1, <2>2 DEF ScriptOK
<1>3. ReplayFirst(FreezeReadings)
  <2>1. ASSUME NEW i \in 1 .. 15, FreezeReadings[i][2] \in LinkReadings
        PROVE  \/ i \in 2 .. 6 /\ FreezeReadings[i][1] = "first"
               \/ i \in 11 .. 15 /\ FreezeReadings[i][1] = "second"
    BY <2>1, SMTT(60) DEF FreezeReadings, LinkReadings, Linked
  <2>2. FreezeReadings[1] = <<"first", "replay">> /\ FreezeReadings[10] = <<"second", "replay">>
    BY DEF FreezeReadings
  <2>3. QED
    BY <1>1, <2>1, <2>2 DEF ReplayFirst
<1>4. Assembling(FreezeReadings)
  <2>1. /\ FreezeReadings[1] = <<"first", "replay">>
        /\ FreezeReadings[4] = <<"first", "recording">>
        /\ FreezeReadings[7] = <<"metrics", "hash">>
        /\ FreezeReadings[8] = <<"metrics", "replay">>
        /\ FreezeReadings[9] = <<"metrics", "rehash">>
        /\ FreezeReadings[10] = <<"second", "replay">>
    BY DEF FreezeReadings
  <2>2. \A i \in 7 .. 15 : FreezeReadings[i][1] # "first"
    BY SMTT(60) DEF FreezeReadings
  <2>3. \A i \in 1 .. 15 : FreezeReadings[i][1] = "first" => i < 7
    BY <2>2
  <2>4. AssemblingAt(FreezeReadings, 4, 7, 8, 9, 10)
    BY <1>1, <2>1, <2>3 DEF AssemblingAt
  <2>5. 4 \in DOMAIN FreezeReadings /\ 7 \in DOMAIN FreezeReadings /\ 8 \in DOMAIN FreezeReadings
        /\ 9 \in DOMAIN FreezeReadings /\ 10 \in DOMAIN FreezeReadings
    BY <1>1
  <2>6. QED
    BY <2>4, <2>5, Zenon DEF Assembling
<1>5. QED
  BY <1>2, <1>3, <1>4

LEMMA ImageOK == ScriptOK(ImageReadings) /\ Assembling(ImageReadings)
<1>1. DOMAIN ImageReadings = 1 .. 13
  BY DEF ImageReadings
<1>2. ScriptOK(ImageReadings)
  <2>1. \A i \in 1 .. 13 : ImageReadings[i][2] \in Whats
    BY SMTT(60) DEF ImageReadings, Whats, Linked, Bound
  <2>2. \A i, j \in 1 .. 13 : ImageReadings[i] = ImageReadings[j] => i = j
    BY SMTT(60) DEF ImageReadings
  <2>3. QED
    BY <1>1, <2>1, <2>2 DEF ScriptOK
<1>3. Assembling(ImageReadings)
  <2>1. /\ ImageReadings[1] = <<"first", "replay">>
        /\ ImageReadings[3] = <<"first", "recording">>
        /\ ImageReadings[6] = <<"metrics", "hash">>
        /\ ImageReadings[7] = <<"metrics", "replay">>
        /\ ImageReadings[8] = <<"metrics", "rehash">>
        /\ ImageReadings[9] = <<"second", "replay">>
    BY DEF ImageReadings
  <2>2. \A i \in 6 .. 13 : ImageReadings[i][1] # "first"
    BY SMTT(60) DEF ImageReadings
  <2>3. \A i \in 1 .. 13 : ImageReadings[i][1] = "first" => i < 6
    BY <2>2
  <2>4. AssemblingAt(ImageReadings, 3, 6, 7, 8, 9)
    BY <1>1, <2>1, <2>3 DEF AssemblingAt
  <2>5. 3 \in DOMAIN ImageReadings /\ 6 \in DOMAIN ImageReadings /\ 7 \in DOMAIN ImageReadings
        /\ 8 \in DOMAIN ImageReadings /\ 9 \in DOMAIN ImageReadings
    BY <1>1
  <2>6. QED
    BY <2>4, <2>5, Zenon DEF Assembling
<1>4. QED
  BY <1>2, <1>3

LEMMA QueueOK ==
  /\ ScriptOK(QueueReadings) /\ ReplayFirst(QueueReadings)
  /\ DOMAIN QueueReadings = 1 .. 8
  /\ QueueReadings[1] = <<"queue", "hash">> /\ QueueReadings[2] = <<"queue", "replay">>
  /\ QueueReadings[5] = <<"queue", "recording">> /\ QueueReadings[8] = <<"queue", "rehash">>
<1>1. DOMAIN QueueReadings = 1 .. 8
  BY DEF QueueReadings
<1>2. ScriptOK(QueueReadings)
  <2>1. \A i \in 1 .. 8 : QueueReadings[i][2] \in Whats
    BY SMTT(60) DEF QueueReadings, Whats, Linked, Bound
  <2>2. \A i, j \in 1 .. 8 : QueueReadings[i] = QueueReadings[j] => i = j
    BY SMTT(60) DEF QueueReadings
  <2>3. QED
    BY <1>1, <2>1, <2>2 DEF ScriptOK
<1>3. ReplayFirst(QueueReadings)
  <2>1. ASSUME NEW i \in 1 .. 8, QueueReadings[i][2] \in LinkReadings
        PROVE  i > 2 /\ QueueReadings[i][1] = "queue"
    BY <2>1, SMTT(60) DEF QueueReadings, LinkReadings, Linked
  <2>2. QueueReadings[2] = <<"queue", "replay">>
    BY DEF QueueReadings
  <2>3. QED
    BY <1>1, <2>1, <2>2 DEF ReplayFirst
<1>4. QED
  BY <1>1, <1>2, <1>3 DEF QueueReadings

LEMMA ValidationOK ==
  /\ ScriptOK(ValidationReadings)
  /\ DOMAIN ValidationReadings = 1 .. 8
  /\ ValidationReadings[1] = <<"validate", "digest">>
  /\ ValidationReadings[2] = <<"validate", "copy">>
  /\ ValidationReadings[3] = <<"validate", "tests">>
  /\ ValidationReadings[4] = <<"validate", "build">>
  /\ ValidationReadings[5] = <<"validate", "built">>
  /\ ValidationReadings[6] = <<"validate", "e2e">>
  /\ ValidationReadings[7] = <<"validate", "end">>
  /\ ValidationReadings[8] = <<"validate", "endbuilt">>
<1>1. DOMAIN ValidationReadings = 1 .. 8
  BY DEF ValidationReadings
<1>2. ScriptOK(ValidationReadings)
  <2>1. \A i \in 1 .. 8 : ValidationReadings[i][2] \in Whats
    BY SMTT(60) DEF ValidationReadings, Whats, Linked, Bound
  <2>2. \A i, j \in 1 .. 8 : ValidationReadings[i] = ValidationReadings[j] => i = j
    BY SMTT(60) DEF ValidationReadings
  <2>3. QED
    BY <1>1, <2>1, <2>2 DEF ScriptOK
<1>3. QED
  BY <1>1, <1>2 DEF ValidationReadings

LEMMA ScriptFacts ==
  ASSUME NEW t \in DOMAIN Script
  PROVE  /\ ScriptOK(Script[t])
         /\ t \in Linking => ReplayFirst(Script[t])
         /\ t \in {"freeze", "image"} => Assembling(Script[t])
BY ScriptIs, FreezeOK, ImageOK, QueueOK, ValidationOK DEF Linking

LEMMA FileIs ==
  /\ \A w \in Whats : File(w) \in Files
  /\ \A w \in {"replay", "recording", "seal", "hash", "rehash"} : File(w) = "recording"
  /\ \A w \in {"digest", "copy", "tests", "build", "end"} : File(w) = "sources"
  /\ \A w \in {"built", "e2e", "endbuilt"} : File(w) = "binaries"
BY DEF Whats, File, Files, Linked, Bound

-----------------------------------------------------------------------------
(* The script of the tool at work. *)
S == Script[tool]
Value == 0 .. MaxRevisions

(* Built from sources, the binaries are never ahead of them. *)
VersionsOK ==
  /\ version \in [Files -> Value]
  /\ version["binaries"] <= version["sources"]

(* What a tool has read is a part of its script, in its order; a content   *)
(* is at most what is there now, and at least what was read of the same    *)
(* file before.                                                            *)
GotOK ==
  /\ \A r \in DOMAIN got :
       /\ \E i \in DOMAIN S : S[i] = r
       /\ got[r] \in Value /\ got[r] <= version[File(r[2])]
  /\ \A i, j \in DOMAIN S : S[i] \in DOMAIN got /\ j < i => j \notin Left
  /\ \A i, j \in DOMAIN S :
       i < j /\ S[i] \in DOMAIN got /\ S[j] \in DOMAIN got /\ File(S[i][2]) = File(S[j][2])
         => got[S[i]] <= got[S[j]]

(* Links are read for validated reviews only. *)
LinksOK ==
  tool \in Linking =>
    \A r \in DOMAIN got : r[2] \in LinkReadings =>
      <<r[1], "replay">> \in DOMAIN got /\ got[<<r[1], "replay">>] \in reviewed

(* The binaries that were hashed lie between the sources that were built   *)
(* and the sources at the end.                                             *)
BuildOK ==
  LET build == <<"validate", "build">>
      made == <<"validate", "built">>
      end == <<"validate", "end">>
  IN  /\ build \in DOMAIN got => got[build] <= version["binaries"]
      /\ {build, made} \subseteq DOMAIN got => got[build] <= got[made]
      /\ {made, end} \subseteq DOMAIN got => got[made] <= got[end]

ReadingOK == tool # "none" => GotOK /\ LinksOK /\ (tool = "validate" => BuildOK)

(* A package under way holds what the tool has read, and belongs to it     *)
(* from the metrics on.                                                    *)
UnderWay ==
  /\ <<"metrics", "hash">> \in DOMAIN got => package.by = jobs
  /\ package.by = jobs =>
       /\ "manifest" \notin package.parts
       /\ "metrics" \in package.parts =>
            <<"metrics", "replay">> \in DOMAIN got
            /\ package.metrics = got[<<"metrics", "replay">>]
       /\ package.parts \cap {"replay", "links"} # {} => Left = {} /\ Reassembled
       /\ "replay" \in package.parts => package.replay = got[<<"first", "replay">>]
       /\ "links" \in package.parts => package.links = LinksOf("first")

OneRun(p) ==
  /\ p.metrics = p.replay
  /\ p.links \in {Missing, p.replay}
  /\ p.replay \in reviewed => p.links = p.replay

PackageOK ==
  /\ package = [by |-> package.by, parts |-> package.parts, replay |-> package.replay,
                links |-> package.links, metrics |-> package.metrics]
  /\ package.by <= jobs
  /\ package.by = 0 => package.parts = {}
  /\ package.parts = Parts => OneRun(package)
  /\ Packaging => UnderWay

BundleOK ==
  /\ bundle = [by |-> bundle.by, sources |-> bundle.sources, copy |-> bundle.copy,
               passed |-> bundle.passed, ran |-> bundle.ran, parts |-> bundle.parts]
  /\ bundle.passed => bundle.ran = [stage \in Tested |-> bundle.sources]

EvidenceInv ==
  /\ EvidenceTypeOK
  /\ tool # "none" => jobs > 0
  /\ VersionsOK /\ ReadingOK /\ PackageOK /\ AssessmentBinds /\ BundleOK

-----------------------------------------------------------------------------
LEMMA SmallestIs ==
  ASSUME NEW D \in SUBSET Nat, D # {}
  PROVE  \E n \in D : \A m \in D : n <= m
<1> DEFINE R == OpToRel(<, Nat)
<1>0. D # {} /\ D \subseteq Nat /\ IsWellFoundedOn(R, Nat)
  BY NatLessThanWellFounded
<1> HIDE DEF R
<1>1. PICK n \in D : \A m \in D : ~(<<m, n>> \in R)
  BY <1>0, WFMin
<1> USE DEF R
<1>2. \A m \in D : ~(m < n)
  BY <1>1 DEF OpToRel
<1>3. QED
  BY <1>2

LEMMA LargestIs ==
  ASSUME NEW B \in Nat, NEW D \in SUBSET (0 .. B), D # {}
  PROVE  Max(D) \in D /\ \A x \in D : x <= Max(D)
<1> DEFINE G == {n \in Nat : B - n \in D}
<1>1. G # {}
  <2>1. PICK x \in D : TRUE
    OBVIOUS
  <2>2. x \in 0 .. B /\ B - (B - x) = x /\ B - x \in Nat
    BY <2>1
  <2>3. QED
    BY <2>1, <2>2
<1>2. PICK n \in G : \A m \in G : n <= m
  BY <1>1, SmallestIs
<1>3. \A x \in D : B - n >= x
  <2>1. ASSUME NEW x \in D PROVE B - n >= x
    <3>1. x \in 0 .. B /\ B - (B - x) = x /\ B - x \in Nat
      BY <2>1
    <3>2. n <= B - x
      BY <1>2, <2>1, <3>1
    <3>3. QED
      BY <3>1, <3>2
  <2>2. QED
    BY <2>1
<1>4. Max(D) \in D /\ \A x \in D : Max(D) >= x
  BY <1>3 DEF Max
<1>5. QED
  BY <1>4

LEMMA EditsAre ==
  ASSUME version \in [Files -> Value]
  PROVE  Edits \in Value /\ \A f \in Files : version[f] <= Edits
<1> DEFINE D == {version[f] : f \in Files}
<1>1. D \in SUBSET (0 .. MaxRevisions) /\ version["sources"] \in D
  BY DEF Value, Files
<1>2. MaxRevisions \in Nat
  BY EvidenceAssumption
<1>3. Max(D) \in D /\ \A x \in D : x <= Max(D)
  BY <1>1, <1>2, LargestIs
<1>4. QED
  BY <1>1, <1>3 DEF Edits, Value

(* Contents only grow while the readings stay. *)
LEMMA RevisedOK ==
  ASSUME EvidenceInv,
         UNCHANGED <<product, reviewed, tool, jobs, got, held, package, queue, decisions,
                     assessment, bundle>>,
         version' \in [Files -> Value],
         version'["binaries"] <= version'["sources"],
         \A f \in Files : version[f] <= version'[f]
  PROVE  EvidenceInv'
<1>1. VersionsOK' /\ EvidenceTypeOK'
  BY DEF EvidenceInv, VersionsOK, EvidenceTypeOK, Value
<1>2. Left' = Left /\ S' = S
  BY DEF Left, S, Skipped
<1>3. ReadingOK'
  <2> SUFFICES ASSUME tool # "none" PROVE ReadingOK'
    BY DEF ReadingOK
  <2>1. GotOK /\ LinksOK /\ (tool = "validate" => BuildOK) /\ VersionsOK /\ tool \in DOMAIN Script
    BY DEF EvidenceInv, ReadingOK, EvidenceTypeOK
  <2>2. ASSUME NEW r \in DOMAIN got PROVE got[r] <= version'[File(r[2])]
    <3>1. PICK i \in DOMAIN S : S[i] = r
      BY <2>1 DEF GotOK
    <3>2. File(r[2]) \in Files
      BY <2>1, <3>1, ScriptFacts, FileIs DEF ScriptOK, S
    <3>3. got[r] <= version[File(r[2])] /\ got[r] \in Value
      BY <2>1 DEF GotOK
    <3>4. version[File(r[2])] \in Value /\ version'[File(r[2])] \in Value
      BY <2>1, <3>2 DEF VersionsOK
    <3>5. QED
      BY <3>2, <3>3, <3>4 DEF Value
  <2>3. GotOK'
    BY <1>2, <2>1, <2>2 DEF GotOK
  <2>4. LinksOK'
    BY <2>1 DEF LinksOK
  <2>5. ASSUME tool = "validate" PROVE BuildOK'
    <3>1. version["binaries"] \in Value /\ version'["binaries"] \in Value
          /\ version["binaries"] <= version'["binaries"]
      BY <2>1 DEF VersionsOK, Files
    <3>2. <<"validate", "build">> \in DOMAIN got => got[<<"validate", "build">>] \in Value
      BY <2>1 DEF GotOK
    <3>3. QED
      BY <2>1, <2>5, <3>1, <3>2 DEF BuildOK, Value
  <2>6. QED
    BY <2>3, <2>4, <2>5 DEF ReadingOK
<1>4. PackageOK'
  BY <1>2 DEF EvidenceInv, PackageOK, UnderWay, OneRun, Packaging, Reassembled, LinksOf
<1>5. QED
  BY <1>1, <1>3, <1>4 DEF EvidenceInv, AssessmentBinds, BundleOK

LEMMA ReviseStep == EvidenceInv /\ Revise => EvidenceInv'
<1> SUFFICES ASSUME EvidenceInv, Revise PROVE EvidenceInv'
  OBVIOUS
<1>1. VersionsOK /\ Edits < MaxRevisions /\ MaxRevisions \in Nat
  BY EvidenceAssumption DEF EvidenceInv, Revise
<1>2. Edits \in Value /\ \A f \in Files : version[f] <= Edits
  BY <1>1, EditsAre DEF VersionsOK
<1>3. PICK changed \in SUBSET Reads \ {{}} :
        version' = [f \in Files |-> IF f \in changed THEN Edits + 1 ELSE version[f]]
  BY DEF Revise
<1>4. "binaries" \notin changed
  BY <1>3 DEF Reads
<1>5. Edits + 1 \in Value /\ Edits \in Nat
  BY <1>1, <1>2 DEF Value
<1>6. \A f \in Files : version[f] \in Value /\ version[f] <= Edits
  BY <1>1, <1>2 DEF VersionsOK
<1>7. version' \in [Files -> Value]
  BY <1>3, <1>5, <1>6
<1>8. \A f \in Files : version[f] <= version'[f]
  BY <1>3, <1>5, <1>6 DEF Value
<1>9. version'["binaries"] <= version'["sources"]
  <2>1. "binaries" \in Files /\ "sources" \in Files
    BY DEF Files
  <2>2. version'["binaries"] = version["binaries"]
    BY <1>3, <1>4, <2>1
  <2>3. version["binaries"] <= version["sources"] /\ version["sources"] <= version'["sources"]
    BY <1>1, <1>8, <2>1 DEF VersionsOK
  <2>4. QED
    BY <1>6, <1>7, <2>1, <2>2, <2>3 DEF Value
<1>10. QED
  BY <1>7, <1>8, <1>9, RevisedOK DEF Revise

LEMMA RebuildStep == EvidenceInv /\ Rebuild => EvidenceInv'
<1> SUFFICES ASSUME EvidenceInv, Rebuild PROVE EvidenceInv'
  OBVIOUS
<1>1. VersionsOK /\ version' = [version EXCEPT !["binaries"] = version["sources"]]
  BY DEF EvidenceInv, Rebuild
<1>2. "binaries" \in Files /\ "sources" \in Files
  BY DEF Files
<1>3. \A f \in Files : version[f] \in Value
  BY <1>1 DEF VersionsOK
<1>4. version' \in [Files -> Value] /\ version'["binaries"] <= version'["sources"]
      /\ \A f \in Files : version[f] <= version'[f]
  BY <1>1, <1>2, <1>3 DEF VersionsOK, Value
<1>5. QED
  BY <1>4, RevisedOK DEF Rebuild

-----------------------------------------------------------------------------
LEMMA LeftFacts ==
  ASSUME tool \in DOMAIN Script
  PROVE  /\ Left \subseteq DOMAIN S /\ Left \subseteq Nat
         /\ \A i \in DOMAIN S : i \notin Left => S[i] \in DOMAIN got \/ Skipped(S[i])
         /\ \A i \in Left : S[i] \notin DOMAIN got /\ ~ Skipped(S[i])
         /\ \A w \in Whats \ LinkReadings : \A q : ~ Skipped(<<q, w>>)
         /\ Left # {} => \E j \in Left : NextReading = S[j] /\ \A k \in Left : j <= k
<1>1. Left \subseteq DOMAIN S /\ Left \subseteq Nat
  BY ScriptFacts DEF Left, S, ScriptOK
<1>2. ASSUME Left # {} PROVE \E j \in Left : NextReading = S[j] /\ \A k \in Left : j <= k
  <2>1. \E j \in Left : \A k \in Left : j <= k
    BY <1>1, <1>2, SmallestIs
  <2>2. NextReading = S[CHOOSE j \in Left : \A k \in Left : j <= k]
    BY DEF NextReading, S
  <2>3. QED
    BY <2>1, <2>2
<1>3. \A w \in Whats \ LinkReadings : \A q : ~ Skipped(<<q, w>>)
  BY DEF Skipped, LinkReadings
<1>4. QED
  BY <1>1, <1>2, <1>3 DEF Left, S

(* What one reading changes: r, at place j of the script, the first that   *)
(* is left.                                                                *)
LEMMA ReadFacts ==
  ASSUME EvidenceInv, Read
  PROVE  \E j \in Left : \E r :
           /\ r = S[j] /\ S[j][2] \in Whats /\ \A k \in Left : j <= k
           /\ r \notin DOMAIN got /\ ~ Skipped(r)
           /\ DOMAIN got' = DOMAIN got \cup {r}
           /\ got'[r] = version[File(r[2])] /\ got'[r] \in Value
           /\ \A x \in DOMAIN got : got'[x] = got[x]
           /\ Left' \subseteq Left /\ S' = S
           /\ version' \in [Files -> Value]
           /\ version'["binaries"] <= version'["sources"]
           /\ \A f \in Files : version[f] <= version'[f]
           /\ r[2] = "build" => version'["binaries"] = version["sources"]
<1>1. /\ tool \in DOMAIN Script /\ Left # {} /\ VersionsOK
      /\ UNCHANGED <<product, reviewed, tool, jobs, held, package, queue, decisions,
                     assessment, bundle>>
  BY DEF Read, EvidenceInv, EvidenceTypeOK
<1>2. PICK j \in Left : NextReading = S[j] /\ \A k \in Left : j <= k
  BY <1>1, LeftFacts
<1>3. PICK r : r = S[j]
  OBVIOUS
<1>4. r \notin DOMAIN got /\ ~ Skipped(r) /\ j \in DOMAIN S
  BY <1>1, <1>3, LeftFacts
<1>5. r[2] \in Whats /\ File(r[2]) \in Files
  BY <1>1, <1>3, <1>4, ScriptFacts, FileIs DEF ScriptOK, S
<1>6. /\ got' = [x \in DOMAIN got \cup {r} |-> IF x = r THEN version[File(r[2])] ELSE got[x]]
      /\ version' = IF r[2] = "build" THEN [version EXCEPT !["binaries"] = version["sources"]]
                    ELSE version
  BY <1>2, <1>3 DEF Read
<1>7. \A f \in Files : version[f] \in Value
  BY <1>1 DEF VersionsOK
<1>8. "binaries" \in Files /\ "sources" \in Files
  BY DEF Files
<1>9. /\ version' \in [Files -> Value]
      /\ version'["binaries"] <= version'["sources"]
      /\ \A f \in Files : version[f] <= version'[f]
      /\ r[2] = "build" => version'["binaries"] = version["sources"]
  BY <1>1, <1>6, <1>7, <1>8 DEF VersionsOK, Value
<1>10. /\ DOMAIN got' = DOMAIN got \cup {r}
       /\ got'[r] = version[File(r[2])] /\ got'[r] \in Value
       /\ \A x \in DOMAIN got : got'[x] = got[x]
  BY <1>4, <1>5, <1>6, <1>7
<1>11. S' = S
  BY <1>1 DEF S
<1>12. ASSUME NEW x, Skipped(x) PROVE Skipped(x)'
  BY <1>1, <1>10, <1>12 DEF Skipped
<1>13. Left' \subseteq Left
  <2>1. ASSUME NEW i \in Left' PROVE i \in Left
    <3>1. i \in DOMAIN S /\ S[i] \notin DOMAIN got' /\ ~ Skipped(S[i])'
      BY <1>1, <1>11 DEF Left, S
    <3>2. PICK x : x = S[i]
      OBVIOUS
    <3>3. x \notin DOMAIN got /\ ~ Skipped(x)
      <4>1. x \notin DOMAIN got' /\ ~ Skipped(x)'
        BY <1>11, <3>1, <3>2
      <4>2. QED
        BY <1>10, <1>12, <4>1
    <3>4. QED
      BY <3>1, <3>2, <3>3 DEF Left, S
  <2>2. QED
    BY <2>1
<1>14. QED
  BY <1>2, <1>3, <1>4, <1>5, <1>9, <1>10, <1>11, <1>13

LEMMA ReadStep == EvidenceInv /\ Read => EvidenceInv'
<1> SUFFICES ASSUME EvidenceInv, Read PROVE EvidenceInv'
  OBVIOUS
<1>0. PICK j \in Left : \E r :
        /\ r = S[j] /\ S[j][2] \in Whats /\ \A k \in Left : j <= k
        /\ r \notin DOMAIN got /\ ~ Skipped(r)
        /\ DOMAIN got' = DOMAIN got \cup {r}
        /\ got'[r] = version[File(r[2])] /\ got'[r] \in Value
        /\ \A x \in DOMAIN got : got'[x] = got[x]
        /\ Left' \subseteq Left /\ S' = S
        /\ version' \in [Files -> Value]
        /\ version'["binaries"] <= version'["sources"]
        /\ \A f \in Files : version[f] <= version'[f]
        /\ r[2] = "build" => version'["binaries"] = version["sources"]
  BY ReadFacts
<1>1. PICK r :
        /\ r = S[j] /\ S[j][2] \in Whats /\ \A k \in Left : j <= k
        /\ r \notin DOMAIN got /\ ~ Skipped(r)
        /\ DOMAIN got' = DOMAIN got \cup {r}
        /\ got'[r] = version[File(r[2])] /\ got'[r] \in Value
        /\ \A x \in DOMAIN got : got'[x] = got[x]
        /\ Left' \subseteq Left /\ S' = S
        /\ version' \in [Files -> Value]
        /\ version'["binaries"] <= version'["sources"]
        /\ \A f \in Files : version[f] <= version'[f]
        /\ r[2] = "build" => version'["binaries"] = version["sources"]
  BY <1>0
<1>2. /\ tool \in DOMAIN Script /\ tool # "none" /\ Left # {} /\ ~ MustCreate
      /\ UNCHANGED <<product, reviewed, tool, jobs, held, package, queue, decisions,
                     assessment, bundle>>
      /\ EvidenceTypeOK /\ VersionsOK /\ GotOK /\ LinksOK /\ (tool = "validate" => BuildOK)
      /\ PackageOK
  BY DEF Read, EvidenceInv, EvidenceTypeOK, ReadingOK
<1>3. ScriptOK(S) /\ (tool \in Linking => ReplayFirst(S))
      /\ (tool \in {"freeze", "image"} => Assembling(S))
  BY <1>2, ScriptFacts DEF S
<1>4. j \in DOMAIN S /\ j \in Nat /\ DOMAIN S \subseteq Nat
  BY <1>2, LeftFacts, <1>3 DEF ScriptOK
<1>5. \A i \in DOMAIN S : i < j => S[i] \in DOMAIN got \/ Skipped(S[i])
  <2>1. ASSUME NEW i \in DOMAIN S, i < j PROVE i \notin Left
    BY <1>1, <1>4, <2>1
  <2>2. QED
    BY <1>2, <2>1, LeftFacts
<1>6. \A w \in Whats \ LinkReadings : \A q : ~ Skipped(<<q, w>>)
  BY <1>2, LeftFacts
<1>7. \A i \in DOMAIN S : S[i] \in DOMAIN got' <=> S[i] \in DOMAIN got \/ i = j
  BY <1>1, <1>3, <1>4 DEF ScriptOK
<1>8. VersionsOK' /\ EvidenceTypeOK'
  <2>1. VersionsOK'
    BY <1>1 DEF VersionsOK
  <2>2. \A x \in DOMAIN got' : got'[x] \in 0 .. MaxRevisions
    BY <1>1, <1>2 DEF EvidenceTypeOK, Value
  <2>3. QED
    BY <1>1, <1>2, <2>1, <2>2 DEF EvidenceTypeOK, Value
<1>9. \A f \in Files : version[f] \in Nat /\ version'[f] \in Nat /\ version[f] <= version'[f]
  BY <1>1, <1>2 DEF VersionsOK, Value
<1>10. ASSUME NEW x \in DOMAIN got
       PROVE  /\ \E i \in DOMAIN S : S[i] = x
              /\ got[x] \in Nat /\ got[x] <= version[File(x[2])] /\ File(x[2]) \in Files
  <2>1. PICK i \in DOMAIN S : S[i] = x
    BY <1>2 DEF GotOK
  <2>2. File(x[2]) \in Files
    BY <1>3, <2>1, FileIs DEF ScriptOK
  <2>3. QED
    BY <1>2, <2>1, <2>2 DEF GotOK, Value
<1>11. File(r[2]) \in Files
  BY <1>1, FileIs
<1>12. GotOK'
  <2>1. ASSUME NEW x \in DOMAIN got'
        PROVE  /\ \E i \in DOMAIN S : S[i] = x
               /\ got'[x] \in Value /\ got'[x] <= version'[File(x[2])]
    <3>1. CASE x = r
      BY <1>1, <1>4, <1>9, <1>11, <3>1
    <3>2. CASE x \in DOMAIN got
      <4>1. got'[x] = got[x] /\ got[x] \in Value
        BY <1>1, <1>2, <3>2 DEF GotOK
      <4>2. version[File(x[2])] <= version'[File(x[2])] /\ version[File(x[2])] \in Nat
            /\ version'[File(x[2])] \in Nat
        BY <1>9, <1>10, <3>2
      <4>3. QED
        BY <1>10, <3>2, <4>1, <4>2
    <3>3. QED
      BY <1>1, <2>1, <3>1, <3>2
  <2>2. ASSUME NEW i \in DOMAIN S, NEW k \in DOMAIN S, S[i] \in DOMAIN got', k < i
        PROVE  k \notin Left'
    <3>1. CASE S[i] \in DOMAIN got
      BY <1>1, <1>2, <2>2, <3>1 DEF GotOK
    <3>2. CASE i = j
      BY <1>1, <1>4, <2>2, <3>2
    <3>3. QED
      BY <1>7, <2>2, <3>1, <3>2
  <2>3. ASSUME NEW i \in DOMAIN S, NEW k \in DOMAIN S, i < k,
               S[i] \in DOMAIN got', S[k] \in DOMAIN got', File(S[i][2]) = File(S[k][2])
        PROVE  got'[S[i]] <= got'[S[k]]
    <3>1. i # j \/ k # j
      BY <1>4, <2>3
    <3>2. CASE i # j /\ k # j
      <4>1. S[i] \in DOMAIN got /\ S[k] \in DOMAIN got
        BY <1>7, <2>3, <3>2
      <4>2. QED
        BY <1>1, <1>2, <2>3, <4>1 DEF GotOK
    <3>3. CASE k = j /\ i # j
      <4>1. S[i] \in DOMAIN got /\ S[k] = r
        BY <1>1, <1>7, <2>3, <3>3
      <4>2. got[S[i]] <= version[File(S[i][2])]
        BY <1>10, <4>1
      <4>3. QED
        BY <1>1, <2>3, <4>1, <4>2
    <3>4. CASE i = j /\ k # j
      <4>1. S[k] \in DOMAIN got /\ j < k
        BY <1>7, <2>3, <3>4
      <4>2. j \notin Left
        BY <1>2, <1>4, <4>1 DEF GotOK
      <4>3. QED
        BY <1>1, <4>2
    <3>5. QED
      BY <3>1, <3>2, <3>3, <3>4
  <2>4. QED
    BY <1>1, <2>1, <2>2, <2>3 DEF GotOK
<1>13. LinksOK'
  <2> SUFFICES ASSUME tool \in Linking, NEW x \in DOMAIN got', x[2] \in LinkReadings
               PROVE  <<x[1], "replay">> \in DOMAIN got' /\ got'[<<x[1], "replay">>] \in reviewed
    BY <1>2 DEF LinksOK
  <2>1. CASE x \in DOMAIN got
    BY <1>1, <1>2, <2>1 DEF LinksOK
  <2>2. CASE x = r
    <3>1. PICK i \in DOMAIN S : i < j /\ S[i] = <<r[1], "replay">>
      BY <1>1, <1>3, <1>4, <2>2 DEF ReplayFirst
    <3>2. "replay" \in Whats \ LinkReadings
      BY DEF Whats, LinkReadings, Linked
    <3>3. <<r[1], "replay">> \in DOMAIN got
      BY <1>5, <1>6, <3>1, <3>2
    <3>4. got[<<r[1], "replay">>] \in reviewed
      BY <1>1, <2>2, <3>3 DEF Skipped, Linking, LinkReadings
    <3>5. QED
      BY <1>1, <2>2, <3>3, <3>4
  <2>3. QED
    BY <1>1, <2>1, <2>2
<1>14. ASSUME tool = "validate" PROVE BuildOK'
  <2> DEFINE build == <<"validate", "build">>
             made == <<"validate", "built">>
             end == <<"validate", "end">>
  <2>1. S = ValidationReadings
    BY <1>14, ScriptIs DEF S
  <2>2. /\ S[4] = build /\ S[5] = made /\ S[7] = end /\ 4 \in DOMAIN S /\ 5 \in DOMAIN S
        /\ 7 \in DOMAIN S
    BY <2>1, ValidationOK
  <2>3. made \in DOMAIN got => r # build
    <3>1. made \in DOMAIN got => 4 \notin Left
      BY <1>2, <2>2 DEF GotOK
    <3>2. r = build => j = 4
      BY <1>1, <1>3, <1>4, <2>2 DEF ScriptOK
    <3>3. QED
      BY <3>1, <3>2
  <2>4. end \in DOMAIN got => r # made
    <3>1. end \in DOMAIN got => 5 \notin Left
      BY <1>2, <2>2 DEF GotOK
    <3>2. r = made => j = 5
      BY <1>1, <1>3, <1>4, <2>2 DEF ScriptOK
    <3>3. QED
      BY <3>1, <3>2
  <2>5. /\ File("build") = "sources" /\ File("built") = "binaries" /\ File("end") = "sources"
        /\ build[2] = "build" /\ made[2] = "built" /\ end[2] = "end"
        /\ build # made /\ made # end /\ build # end
    BY FileIs
  <2>6. /\ build \in DOMAIN got => got[build] \in Nat /\ got[build] <= version["binaries"]
        /\ made \in DOMAIN got => got[made] \in Nat /\ got[made] <= version["binaries"]
    BY <1>2, <1>10, <1>14, <2>5 DEF BuildOK
  <2>7. /\ version["binaries"] \in Nat /\ version["sources"] \in Nat
        /\ version'["binaries"] \in Nat
        /\ version["binaries"] <= version["sources"]
        /\ version["binaries"] <= version'["binaries"]
    BY <1>2, <1>9 DEF VersionsOK, Files
  <2>8. r = build => got'[r] = version["sources"] /\ version'["binaries"] = version["sources"]
    BY <1>1, <2>5
  <2>9. r = made => got'[r] = version["binaries"]
    BY <1>1, <2>5
  <2>10. r = end => got'[r] = version["sources"]
    BY <1>1, <2>5
  <2> HIDE DEF build, made, end
  <2>11. \A x \in {build, made, end} :
            x \in DOMAIN got' => x = r \/ (x \in DOMAIN got /\ got'[x] = got[x])
    BY <1>1
  <2>12. build \in DOMAIN got' => got'[build] <= version'["binaries"]
    BY <2>6, <2>7, <2>8, <2>11
  <2>13. {build, made} \subseteq DOMAIN got' => got'[build] <= got'[made]
    <3>1. build \in DOMAIN got /\ made \in DOMAIN got => got[build] <= got[made]
      BY <1>2, <1>14 DEF BuildOK, build, made
    <3>2. QED
      BY <2>3, <2>5, <2>6, <2>7, <2>9, <2>11, <3>1
  <2>14. {made, end} \subseteq DOMAIN got' => got'[made] <= got'[end]
    <3>1. made \in DOMAIN got /\ end \in DOMAIN got => got[made] <= got[end]
      BY <1>2, <1>14 DEF BuildOK, made, end
    <3>2. QED
      BY <2>4, <2>5, <2>6, <2>7, <2>10, <2>11, <3>1
  <2>15. QED
    BY <2>12, <2>13, <2>14 DEF BuildOK, build, made, end
<1>15. PackageOK'
  <2>1. ASSUME Packaging PROVE UnderWay'
    <3>1. UnderWay
      BY <1>2, <2>1 DEF PackageOK
    <3>2. tool \in {"freeze", "image"}
      BY <2>1 DEF Packaging
    <3>3. PICK a \in DOMAIN S, m \in DOMAIN S, b \in DOMAIN S, c \in DOMAIN S, d \in DOMAIN S :
            AssemblingAt(S, a, m, b, c, d)
      BY <1>3, <3>2 DEF Assembling
    <3>4. <<"metrics", "hash">> \in DOMAIN got' => package.by = jobs
      <4>1. CASE <<"metrics", "hash">> \in DOMAIN got
        BY <3>1, <4>1 DEF UnderWay
      <4>2. CASE <<"metrics", "hash">> = r
        <5>1. j = m
          BY <1>1, <1>3, <1>4, <3>3, <4>2 DEF ScriptOK, AssemblingAt
        <5>2. ASSUME NEW i \in Left PROVE S[i][1] # "first"
          <6>1. i \in DOMAIN S /\ j <= i /\ i \in Nat
            BY <1>1, <1>2, <5>2, LeftFacts
          <6>2. S[i][1] = "first" => i < j
            BY <3>3, <5>1, <6>1 DEF AssemblingAt
          <6>3. QED
            BY <1>4, <6>1, <6>2
        <5>3. Assembled
          BY <5>2 DEF Assembled, S
        <5>4. QED
          BY <1>2, <2>1, <5>3 DEF MustCreate
      <4>3. QED
        BY <1>1, <4>1, <4>2
    <3>5. ASSUME package.by = jobs
          PROVE  /\ package.parts \cap {"replay", "links"} = {}
                 /\ "manifest" \notin package.parts
                 /\ "metrics" \in package.parts =>
                      <<"metrics", "replay">> \in DOMAIN got'
                      /\ package.metrics = got'[<<"metrics", "replay">>]
      BY <1>1, <1>2, <3>1, <3>5 DEF UnderWay
    <3>6. "replay" \in package.parts \/ "links" \in package.parts => package.by # jobs
      BY <3>5
    <3>7. QED
      BY <1>2, <3>4, <3>5, <3>6 DEF UnderWay
  <2>2. OneRun(package)' <=> OneRun(package)
    BY <1>2 DEF OneRun
  <2>3. Packaging' => Packaging
    BY <1>2 DEF Packaging
  <2>4. QED
    BY <1>2, <2>1, <2>2, <2>3 DEF PackageOK
<1>16. ReadingOK'
  BY <1>2, <1>12, <1>13, <1>14 DEF ReadingOK
<1>17. AssessmentBinds' /\ BundleOK'
  BY <1>2 DEF EvidenceInv, AssessmentBinds, BundleOK
<1>18. QED
  BY <1>2, <1>8, <1>15, <1>16, <1>17 DEF EvidenceInv

-----------------------------------------------------------------------------
(* The steps that read nothing. *)
LEMMA KeptReading ==
  ASSUME ReadingOK, UNCHANGED <<reviewed, version, tool, got>>
  PROVE  /\ ReadingOK' /\ (VersionsOK => VersionsOK') /\ Left' = Left
         /\ (Packaging' <=> Packaging) /\ (Reassembled => Reassembled')
         /\ LinksOf("first")' = LinksOf("first")
<1>1. S' = S /\ Left' = Left
  BY DEF S, Left, Skipped
<1>2. \A r \in DOMAIN got : File(r[2])' = File(r[2])
  BY DEF File
<1>3. ASSUME GotOK PROVE GotOK'
  BY <1>1, <1>3 DEF GotOK, File
<1>4. ASSUME LinksOK PROVE LinksOK'
  BY <1>4 DEF LinksOK
<1>5. ASSUME BuildOK PROVE BuildOK'
  BY <1>5 DEF BuildOK
<1>6. ReadingOK'
  BY <1>3, <1>4, <1>5 DEF ReadingOK
<1>7. QED
  BY <1>1, <1>6 DEF VersionsOK, Packaging, Reassembled, LinksOf

LEMMA EndedReading ==
  ASSUME End
  PROVE  ReadingOK' /\ ~ Packaging' /\ DOMAIN got' = {}
BY DEF End, ReadingOK, Packaging

LEMMA StartStep == ASSUME EvidenceInv, NEW t \in DOMAIN Script, Start(t) PROVE EvidenceInv'
<1>1. /\ EvidenceTypeOK /\ VersionsOK /\ PackageOK /\ AssessmentBinds /\ BundleOK
      /\ jobs < MaxJobs /\ jobs' = jobs + 1 /\ got' = <<>> /\ tool' = t
      /\ UNCHANGED <<product, reviewed, version, package, queue, decisions, assessment, bundle>>
  BY DEF EvidenceInv, Start
<1>2. MaxJobs \in Nat /\ jobs \in Nat /\ jobs' \in 0 .. MaxJobs /\ package.by \in Nat
  BY <1>1, EvidenceAssumption DEF EvidenceTypeOK
<1>3. DOMAIN got' = {}
  BY <1>1
<1>4. EvidenceTypeOK' /\ jobs' > 0
  BY <1>1, <1>2, <1>3 DEF EvidenceTypeOK
<1>5. ReadingOK'
  BY <1>3 DEF ReadingOK, GotOK, LinksOK, BuildOK
<1>6. PackageOK'
  <2>1. package'.by # jobs' /\ package'.by <= jobs'
    BY <1>1, <1>2 DEF PackageOK
  <2>2. UnderWay'
    BY <1>3, <2>1 DEF UnderWay
  <2>3. QED
    BY <1>1, <2>1, <2>2 DEF PackageOK, OneRun
<1>7. VersionsOK' /\ AssessmentBinds' /\ BundleOK'
  BY <1>1 DEF VersionsOK, AssessmentBinds, BundleOK
<1>8. QED
  BY <1>4, <1>5, <1>6, <1>7 DEF EvidenceInv

LEMMA RaiseStep == EvidenceInv /\ Raise => EvidenceInv'
<1> SUFFICES ASSUME EvidenceInv, Raise PROVE EvidenceInv'
  OBVIOUS
<1>1. /\ EvidenceTypeOK /\ VersionsOK /\ PackageOK /\ AssessmentBinds /\ BundleOK
      /\ tool' = "none"
      /\ UNCHANGED <<product, reviewed, version, jobs, package, queue, decisions, assessment,
                     bundle>>
  BY DEF EvidenceInv, Raise, End
<1>2. ReadingOK' /\ ~ Packaging' /\ DOMAIN got' = {}
  BY EndedReading DEF Raise
<1>3. QED
  BY <1>1, <1>2 DEF EvidenceInv, EvidenceTypeOK, VersionsOK, PackageOK, OneRun, AssessmentBinds,
     BundleOK

LEMMA CreateStep == EvidenceInv /\ Create => EvidenceInv'
<1> SUFFICES ASSUME EvidenceInv, Create PROVE EvidenceInv'
  OBVIOUS
<1>1. /\ EvidenceTypeOK /\ VersionsOK /\ ReadingOK /\ PackageOK /\ AssessmentBinds /\ BundleOK
      /\ jobs > 0 /\ jobs \in 0 .. MaxJobs /\ tool # "none"
      /\ UNCHANGED <<product, reviewed, version, tool, jobs, got, held, queue, decisions,
                     assessment>>
  BY DEF EvidenceInv, EvidenceTypeOK, Create
<1>2. /\ ReadingOK' /\ VersionsOK' /\ Left' = Left /\ (Packaging' <=> Packaging)
      /\ (Reassembled => Reassembled') /\ LinksOf("first")' = LinksOf("first")
  BY <1>1, KeptReading
<1>3. AssessmentBinds'
  BY <1>1 DEF AssessmentBinds
<1>4. CASE /\ package.by = 0 /\ package' = [package EXCEPT !.by = jobs]
           /\ UNCHANGED bundle
  <2>1. /\ package' = [by |-> jobs, parts |-> {}, replay |-> package.replay,
                       links |-> package.links, metrics |-> package.metrics]
    BY <1>1, <1>4 DEF PackageOK
  <2>2. package'.by = jobs /\ package'.parts = {}
    BY <2>1
  <2>3. UnderWay'
    BY <1>1, <2>2 DEF UnderWay
  <2>4. PackageOK'
    BY <1>1, <2>1, <2>2, <2>3 DEF PackageOK, Parts
  <2>5. EvidenceTypeOK' /\ BundleOK'
    BY <1>1, <1>4, <2>2 DEF EvidenceTypeOK, BundleOK
  <2>6. QED
    BY <1>1, <1>2, <1>3, <2>4, <2>5 DEF EvidenceInv
<1>5. CASE /\ bundle.by = 0 /\ bundle' = [bundle EXCEPT !.by = jobs]
           /\ UNCHANGED package
  <2>1. bundle' = [by |-> jobs, sources |-> bundle.sources, copy |-> bundle.copy,
                   passed |-> bundle.passed, ran |-> bundle.ran, parts |-> bundle.parts]
    BY <1>1, <1>5 DEF BundleOK
  <2>2. BundleOK' /\ EvidenceTypeOK'
    BY <1>1, <1>5, <2>1 DEF BundleOK, EvidenceTypeOK
  <2>3. PackageOK'
    <3>1. UnderWay => UnderWay'
      BY <1>1, <1>2, <1>5 DEF UnderWay
    <3>2. QED
      BY <1>1, <1>2, <1>5, <3>1 DEF PackageOK, OneRun
  <2>4. QED
    BY <1>1, <1>2, <1>3, <2>2, <2>3 DEF EvidenceInv
<1>6. QED
  BY <1>4, <1>5 DEF Create

-----------------------------------------------------------------------------
(* What is left of a script decides what was read: nothing before the last *)
(* reading is missing but what was skipped.                                *)
LEMMA WasRead ==
  ASSUME tool \in DOMAIN Script, GotOK, NEW i \in DOMAIN S, S[i][2] \notin LinkReadings,
         \/ Left = {}
         \/ \E j \in DOMAIN S : i < j /\ S[j] \in DOMAIN got
  PROVE  S[i] \in DOMAIN got
<1>1. i \notin Left
  BY DEF GotOK
<1>2. S[i] \in DOMAIN got \/ Skipped(S[i])
  BY <1>1, LeftFacts
<1>3. QED
  BY <1>2 DEF Skipped, LinkReadings

LEMMA WriteMetricsStep == EvidenceInv /\ WriteMetrics => EvidenceInv'
<1> SUFFICES ASSUME EvidenceInv, WriteMetrics PROVE EvidenceInv'
  OBVIOUS
<1>1. /\ tool \in {"freeze", "image"} /\ tool \in DOMAIN Script /\ tool # "none"
      /\ EvidenceTypeOK /\ VersionsOK /\ ReadingOK /\ GotOK /\ PackageOK /\ AssessmentBinds
      /\ BundleOK /\ jobs > 0
      /\ UNCHANGED <<product, reviewed, version, tool, jobs, got, held, queue, decisions,
                     assessment, bundle>>
  BY DEF EvidenceInv, EvidenceTypeOK, WriteMetrics, Packaging, ReadingOK, Script
<1>2. /\ ReadingOK' /\ VersionsOK' /\ Left' = Left /\ (Packaging' <=> Packaging)
      /\ (Reassembled => Reassembled') /\ LinksOf("first")' = LinksOf("first")
  BY <1>1, KeptReading
<1>3. UnderWay /\ package.by = jobs
  BY <1>1 DEF WriteMetrics, PackageOK
<1>4. <<"metrics", "replay">> \in DOMAIN got
  <2>1. PICK a \in DOMAIN S, m \in DOMAIN S, b \in DOMAIN S, c \in DOMAIN S, d \in DOMAIN S :
          AssemblingAt(S, a, m, b, c, d)
    BY <1>1, ScriptFacts DEF Assembling, S
  <2>2. b < c /\ S[b] = <<"metrics", "replay">> /\ S[c] \in DOMAIN got
    BY <2>1 DEF AssemblingAt, WriteMetrics
  <2>3. S[b][2] \notin LinkReadings
    BY <2>2 DEF LinkReadings, Linked
  <2>4. QED
    BY <1>1, <2>2, <2>3, WasRead
<1>5. package' = [by |-> package.by, parts |-> package.parts \cup {"metrics"},
                  replay |-> package.replay, links |-> package.links,
                  metrics |-> got[<<"metrics", "replay">>]]
  BY <1>1 DEF WriteMetrics, PackageOK
<1>6. "manifest" \notin package.parts
  BY <1>3 DEF UnderWay
<1>7. UnderWay'
  BY <1>1, <1>2, <1>3, <1>4, <1>5 DEF UnderWay
<1>8. PackageOK'
  BY <1>1, <1>3, <1>5, <1>6, <1>7, EvidenceAssumption DEF PackageOK, Parts, EvidenceTypeOK
<1>9. EvidenceTypeOK' /\ AssessmentBinds' /\ BundleOK'
  BY <1>1, <1>5 DEF EvidenceTypeOK, AssessmentBinds, BundleOK, Parts
<1>10. QED
  BY <1>1, <1>2, <1>8, <1>9 DEF EvidenceInv

(* At the end of a packaging, what the first assembly, the metrics and the *)
(* second assembly read of the recording is squeezed between two equals.   *)
LEMMA OneRunAtEnd ==
  ASSUME tool \in {"freeze", "image"}, EvidenceInv, Left = {}, Reassembled
  PROVE  LET replay == got[<<"first", "replay">>]
         IN  /\ got[<<"metrics", "replay">>] = replay
             /\ LinksOf("first") \in {Missing, replay}
             /\ replay \in reviewed => LinksOf("first") = replay
             /\ package.by = jobs /\ UnderWay
<1>1. tool \in DOMAIN Script /\ GotOK /\ PackageOK /\ UnderWay
  BY DEF EvidenceInv, Script, ReadingOK, PackageOK, Packaging
<1>2. PICK a \in DOMAIN S, m \in DOMAIN S, b \in DOMAIN S, c \in DOMAIN S, d \in DOMAIN S :
        AssemblingAt(S, a, m, b, c, d)
  BY <1>1, ScriptFacts DEF Assembling, S
<1>3. /\ 1 \in DOMAIN S /\ 1 < a /\ a < m /\ m < b /\ b < c /\ c < d
      /\ S[1] = <<"first", "replay">> /\ S[a] = <<"first", "recording">>
      /\ S[m] = <<"metrics", "hash">> /\ S[b] = <<"metrics", "replay">>
      /\ S[d] = <<"second", "replay">>
  BY <1>2 DEF AssemblingAt
<1>4. a \in Nat /\ m \in Nat /\ b \in Nat /\ c \in Nat /\ d \in Nat
  BY <1>1, ScriptFacts DEF ScriptOK, S
<1>5. S[1] \in DOMAIN got /\ S[m] \in DOMAIN got /\ S[b] \in DOMAIN got /\ S[d] \in DOMAIN got
  <2>1. S[1][2] \notin LinkReadings /\ S[m][2] \notin LinkReadings
        /\ S[b][2] \notin LinkReadings /\ S[d][2] \notin LinkReadings
    BY <1>3 DEF LinkReadings, Linked
  <2>2. QED
    BY <1>1, <1>3, <2>1, WasRead
<1>6. /\ File(S[1][2]) = "recording" /\ File(S[a][2]) = "recording"
      /\ File(S[b][2]) = "recording" /\ File(S[d][2]) = "recording"
  BY <1>3, FileIs
<1>7. got[S[1]] \in Nat /\ got[S[b]] \in Nat /\ got[S[d]] \in Nat
  BY <1>1, <1>5 DEF GotOK, Value
<1>8. got[S[1]] <= got[S[b]] /\ got[S[b]] <= got[S[d]]
  <2>1. 1 < b /\ b < d
    BY <1>3, <1>4
  <2>2. QED
    BY <1>1, <1>3, <1>5, <1>6, <2>1 DEF GotOK
<1>9. got[S[d]] = got[S[1]]
  BY <1>3, <1>5 DEF Reassembled
<1>10. got[S[b]] = got[S[1]]
  BY <1>7, <1>8, <1>9
<1>11. ASSUME S[a] \in DOMAIN got PROVE got[S[a]] = got[S[1]]
  <2>1. got[S[a]] \in Nat /\ a < b
    BY <1>1, <1>3, <1>4, <1>11 DEF GotOK, Value
  <2>2. got[S[1]] <= got[S[a]] /\ got[S[a]] <= got[S[b]]
    BY <1>1, <1>3, <1>5, <1>6, <1>11, <2>1 DEF GotOK
  <2>3. QED
    BY <1>7, <1>10, <2>1, <2>2
<1>12. ASSUME got[S[1]] \in reviewed PROVE S[a] \in DOMAIN got
  <2>1. S[a] \in DOMAIN got \/ Skipped(S[a])
    BY <1>1, LeftFacts
  <2>2. ~ Skipped(S[a])
    BY <1>3, <1>12 DEF Skipped
  <2>3. QED
    BY <2>1, <2>2
<1>13. package.by = jobs
  BY <1>1, <1>3, <1>5 DEF UnderWay
<1>14. QED
  BY <1>1, <1>3, <1>10, <1>11, <1>12, <1>13 DEF LinksOf

LEMMA WriteContentStep ==
  ASSUME EvidenceInv, NEW part \in Parts, WriteContent(part)
  PROVE  EvidenceInv'
<1>1. /\ tool \in {"freeze", "image"} /\ Left = {} /\ Reassembled /\ part \in Parts
      /\ EvidenceTypeOK /\ VersionsOK /\ ReadingOK /\ PackageOK /\ AssessmentBinds
      /\ BundleOK /\ jobs > 0 /\ (tool # "none" => jobs > 0)
      /\ UNCHANGED <<product, reviewed, version, jobs, queue, decisions, assessment, bundle>>
  BY DEF EvidenceInv, WriteContent, Packaging
<1>2. PICK replay, links : replay = got[<<"first", "replay">>] /\ links = LinksOf("first")
  OBVIOUS
<1>3. /\ got[<<"metrics", "replay">>] = replay /\ links \in {Missing, replay}
      /\ replay \in reviewed => links = replay
      /\ package.by = jobs /\ UnderWay
  BY <1>1, <1>2, OneRunAtEnd
<1>4. package' = [by |-> package.by, parts |-> package.parts \cup {part},
                  replay |-> IF part = "replay" THEN replay ELSE package.replay,
                  links |-> IF part = "links" THEN links ELSE package.links,
                  metrics |-> package.metrics]
  BY <1>1, <1>2 DEF WriteContent, PackageOK
<1>5. package.metrics = replay /\ "metrics" \in package.parts /\ "manifest" \notin package.parts
  BY <1>3 DEF UnderWay, WriteContent
<1>6. EvidenceTypeOK' /\ VersionsOK' /\ AssessmentBinds' /\ BundleOK'
  <2>1. \A r \in DOMAIN got' : got'[r] \in 0 .. MaxRevisions
    BY <1>1, EndedReading DEF WriteContent, EvidenceTypeOK
  <2>2. tool' \in DOMAIN Script \cup {"none"}
    BY <1>1 DEF WriteContent, End, EvidenceTypeOK
  <2>3. QED
    BY <1>1, <1>4, <2>1, <2>2 DEF EvidenceTypeOK, VersionsOK, AssessmentBinds, BundleOK
<1>7. CASE part # "manifest"
  <2>1. UNCHANGED <<tool, got, held>>
    BY <1>7 DEF WriteContent
  <2>2. /\ ReadingOK' /\ Left' = {} /\ Reassembled' /\ LinksOf("first")' = links
    BY <1>1, <1>2, <2>1, KeptReading
  <2>3. package'.parts # Parts /\ "manifest" \notin package'.parts
    BY <1>4, <1>5, <1>7 DEF Parts
  <2>4. UnderWay'
    <3>1. /\ "metrics" \in package.parts => <<"metrics", "replay">> \in DOMAIN got
          /\ "replay" \in package.parts => package.replay = replay
          /\ "links" \in package.parts => package.links = links
      BY <1>2, <1>3 DEF UnderWay
    <3>2. package'.by = jobs' /\ "manifest" \notin package'.parts
      BY <1>1, <1>3, <1>4, <2>3
    <3>3. <<"metrics", "replay">> \in DOMAIN got'
          /\ package'.metrics = got'[<<"metrics", "replay">>]
      BY <1>3, <1>4, <1>5, <2>1, <3>1
    <3>4. "replay" \in package'.parts => package'.replay = got'[<<"first", "replay">>]
      BY <1>2, <1>4, <2>1, <3>1
    <3>5. "links" \in package'.parts => package'.links = links
      BY <1>4, <3>1
    <3>6. QED
      BY <2>2, <3>2, <3>3, <3>4, <3>5 DEF UnderWay
  <2>5. PackageOK'
    BY <1>1, <1>3, <1>4, <2>3, <2>4, EvidenceAssumption DEF PackageOK, EvidenceTypeOK
  <2>6. QED
    BY <1>1, <1>6, <2>1, <2>2, <2>5 DEF EvidenceInv
<1>8. CASE part = "manifest"
  <2>1. End /\ package.parts = Parts \ {"manifest"}
    BY <1>8 DEF WriteContent
  <2>2. tool' = "none" /\ ReadingOK' /\ ~ Packaging'
    BY <2>1, EndedReading DEF End
  <2>3. package.replay = replay /\ package.links = links
    BY <1>2, <1>3, <2>1 DEF UnderWay, Parts
  <2>4. OneRun(package)'
    BY <1>1, <1>3, <1>4, <1>5, <1>8, <2>3 DEF OneRun
  <2>5. PackageOK'
    BY <1>1, <1>3, <1>4, <2>2, <2>4, EvidenceAssumption DEF PackageOK, EvidenceTypeOK
  <2>6. QED
    BY <1>1, <1>6, <2>2, <2>5 DEF EvidenceInv
<1>9. QED
  BY <1>7, <1>8

(* A power loss leaves a part of what was there, or all of it. *)
LEMMA PowerLossStep == EvidenceInv /\ PowerLoss => EvidenceInv'
<1> SUFFICES ASSUME EvidenceInv, PowerLoss PROVE EvidenceInv'
  OBVIOUS
<1>1. /\ EvidenceTypeOK /\ VersionsOK /\ PackageOK /\ AssessmentBinds /\ BundleOK
      /\ package.parts # {} /\ End /\ tool' = "none"
      /\ UNCHANGED <<product, reviewed, version, jobs, queue, decisions, assessment, bundle>>
  BY DEF EvidenceInv, PowerLoss, End
<1>2. PICK kept \in SUBSET package.parts : package' = [package EXCEPT !.parts = kept]
  BY DEF PowerLoss
<1>3. package' = [by |-> package.by, parts |-> kept, replay |-> package.replay,
                  links |-> package.links, metrics |-> package.metrics]
  BY <1>1, <1>2 DEF PackageOK
<1>4. ReadingOK' /\ ~ Packaging' /\ DOMAIN got' = {}
  BY <1>1, EndedReading
<1>5. kept = Parts => package.parts = Parts
  BY <1>1, <1>2 DEF EvidenceTypeOK
<1>6. PackageOK'
  <2>1. package'.parts = Parts => OneRun(package)'
    BY <1>1, <1>3, <1>5 DEF PackageOK, OneRun
  <2>2. package.by # 0
    BY <1>1 DEF PackageOK
  <2>3. QED
    BY <1>1, <1>3, <1>4, <2>1, <2>2 DEF PackageOK
<1>7. EvidenceTypeOK' /\ VersionsOK' /\ AssessmentBinds' /\ BundleOK'
  BY <1>1, <1>2, <1>3, <1>4 DEF EvidenceTypeOK, VersionsOK, AssessmentBinds, BundleOK
<1>8. QED
  BY <1>1, <1>4, <1>6, <1>7 DEF EvidenceInv

-----------------------------------------------------------------------------
(* The queue and its judgement. *)
LEMMA PrepareStep == EvidenceInv /\ Prepare => EvidenceInv'
<1> SUFFICES ASSUME EvidenceInv, Prepare PROVE EvidenceInv'
  OBVIOUS
<1>1. /\ EvidenceTypeOK /\ VersionsOK /\ PackageOK /\ AssessmentBinds /\ BundleOK
      /\ tool' = "none"
      /\ UNCHANGED <<product, reviewed, version, jobs, package, decisions, assessment, bundle>>
  BY DEF EvidenceInv, Prepare, End
<1>2. ReadingOK' /\ ~ Packaging' /\ DOMAIN got' = {}
  BY EndedReading DEF Prepare
<1>3. QED
  BY <1>1, <1>2 DEF EvidenceInv, EvidenceTypeOK, VersionsOK, PackageOK, OneRun, AssessmentBinds,
     BundleOK

LEMMA HumanStep == EvidenceInv /\ (MoveQueueAway \/ Judge) => EvidenceInv'
<1> SUFFICES ASSUME EvidenceInv, MoveQueueAway \/ Judge PROVE EvidenceInv'
  OBVIOUS
<1>1. /\ EvidenceTypeOK /\ VersionsOK /\ ReadingOK /\ PackageOK /\ AssessmentBinds /\ BundleOK
      /\ tool # "none" => jobs > 0
      /\ UNCHANGED <<product, reviewed, version, tool, jobs, got, held, package, assessment,
                     bundle>>
  BY DEF EvidenceInv, MoveQueueAway, Judge
<1>2. /\ ReadingOK' /\ VersionsOK' /\ Left' = Left /\ (Packaging' <=> Packaging)
      /\ (Reassembled => Reassembled') /\ LinksOf("first")' = LinksOf("first")
  BY <1>1, KeptReading
<1>3. UnderWay => UnderWay'
  BY <1>1, <1>2 DEF UnderWay
<1>4. EvidenceTypeOK' /\ PackageOK' /\ AssessmentBinds' /\ BundleOK'
  BY <1>1, <1>2, <1>3 DEF EvidenceTypeOK, PackageOK, OneRun, AssessmentBinds, BundleOK
<1>5. QED
  BY <1>1, <1>2, <1>4 DEF EvidenceInv

(* What resolve recomputed is of one run: the recording that was linked    *)
(* lies between the two whose hashes agree, and it was linked because the  *)
(* review is there.                                                        *)
LEMMA QueueOfOneRun ==
  ASSUME EvidenceInv, tool = "resolve", Left = {}, Sound
  PROVE  LET shown == Observed
         IN  /\ shown.links \in {Missing, shown.replay}
             /\ shown.links # Missing => shown.replay \in reviewed
<1>1. /\ tool \in DOMAIN Script /\ GotOK /\ LinksOK /\ tool \in Linking /\ S = QueueReadings
  BY ScriptIs DEF EvidenceInv, Script, ReadingOK, Linking, S
<1>2. /\ DOMAIN S = 1 .. 8
      /\ S[1] = <<"queue", "hash">> /\ S[2] = <<"queue", "replay">>
      /\ S[5] = <<"queue", "recording">> /\ S[8] = <<"queue", "rehash">>
  BY <1>1, QueueOK
<1>3. S[1] \in DOMAIN got /\ S[2] \in DOMAIN got /\ S[8] \in DOMAIN got
  <2>1. S[1][2] \notin LinkReadings /\ S[2][2] \notin LinkReadings /\ S[8][2] \notin LinkReadings
        /\ 1 \in DOMAIN S /\ 2 \in DOMAIN S /\ 8 \in DOMAIN S
    BY <1>2 DEF LinkReadings, Linked
  <2>2. QED
    BY <1>1, <2>1, WasRead
<1>4. got[S[8]] = got[S[1]]
  BY <1>2, <1>3 DEF Sound, Unchanged, Have
<1>5. /\ File(S[1][2]) = "recording" /\ File(S[2][2]) = "recording"
      /\ File(S[5][2]) = "recording" /\ File(S[8][2]) = "recording"
  BY <1>2, FileIs
<1>6. ASSUME S[5] \in DOMAIN got
      PROVE  got[S[5]] = got[S[2]] /\ got[S[2]] \in reviewed
  <2>1. got[S[1]] \in Nat /\ got[S[2]] \in Nat /\ got[S[5]] \in Nat
    BY <1>1, <1>3, <1>6 DEF GotOK, Value
  <2>2. got[S[1]] <= got[S[2]] /\ got[S[2]] <= got[S[5]] /\ got[S[5]] <= got[S[8]]
    <3>1. 1 \in DOMAIN S /\ 2 \in DOMAIN S /\ 5 \in DOMAIN S /\ 8 \in DOMAIN S
      BY <1>2
    <3>2. QED
      BY <1>1, <1>3, <1>5, <1>6, <3>1 DEF GotOK
  <2>3. got[S[2]] \in reviewed
    <3>1. S[5][2] \in LinkReadings /\ <<S[5][1], "replay">> = S[2]
      BY <1>2 DEF LinkReadings, Linked
    <3>2. QED
      BY <1>1, <1>6, <3>1 DEF LinksOK
  <2>4. QED
    BY <1>4, <2>1, <2>2, <2>3
<1>7. QED
  BY <1>2, <1>6 DEF Observed, LinksOf

LEMMA ResolveStep == EvidenceInv /\ Resolve => EvidenceInv'
<1> SUFFICES ASSUME EvidenceInv, Resolve PROVE EvidenceInv'
  OBVIOUS
<1>1. /\ EvidenceTypeOK /\ VersionsOK /\ PackageOK /\ BundleOK /\ tool' = "none"
      /\ UNCHANGED <<product, reviewed, version, jobs, package, queue, decisions, bundle>>
  BY DEF EvidenceInv, Resolve, End
<1>2. ReadingOK' /\ ~ Packaging' /\ DOMAIN got' = {}
  BY EndedReading DEF Resolve
<1>3. PICK shown : shown = Observed
  OBVIOUS
<1>4. shown.links \in {Missing, shown.replay} /\ (shown.links # Missing => shown.replay \in reviewed)
  BY <1>3, QueueOfOneRun DEF Resolve
<1>5. /\ assessment' = [entries |-> shown, queue |-> shown, on |-> shown,
                        outcome |-> decisions.outcome]
      /\ decisions.outcome = "confirm_review" => shown.links # Missing
  BY <1>3 DEF Resolve, Binds
<1>6. AssessmentBinds'
  BY <1>1, <1>4, <1>5 DEF AssessmentBinds
<1>7. QED
  BY <1>1, <1>2, <1>6 DEF EvidenceInv, EvidenceTypeOK, VersionsOK, PackageOK, OneRun, BundleOK

-----------------------------------------------------------------------------
(* A validation that ends as it began ran every stage on what it began     *)
(* with: the sources cannot have moved in between, and the binaries lie    *)
(* between the sources that were built and the sources at the end.         *)
LEMMA RanOnSources ==
  ASSUME EvidenceInv, tool = "validate", Left = {}, EndsAsBegun
  PROVE  \A w \in Tested : /\ <<"validate", w>> \in DOMAIN got
                           /\ got[<<"validate", w>>] = got[<<"validate", "digest">>]
<1>1. /\ tool \in DOMAIN Script /\ GotOK /\ BuildOK /\ S = ValidationReadings
  BY ScriptIs DEF EvidenceInv, Script, ReadingOK, S
<1>2. /\ DOMAIN S = 1 .. 8
      /\ S[1] = <<"validate", "digest">> /\ S[3] = <<"validate", "tests">>
      /\ S[4] = <<"validate", "build">> /\ S[5] = <<"validate", "built">>
      /\ S[6] = <<"validate", "e2e">> /\ S[7] = <<"validate", "end">>
      /\ S[8] = <<"validate", "endbuilt">>
  BY <1>1, ValidationOK
<1>3. \A i \in {1, 3, 4, 5, 6, 7, 8} : S[i][2] \notin LinkReadings /\ i \in DOMAIN S
  BY <1>2 DEF LinkReadings, Linked
<1>4. \A i \in {1, 3, 4, 5, 6, 7, 8} : S[i] \in DOMAIN got /\ got[S[i]] \in Nat
  <2>1. \A i \in {1, 3, 4, 5, 6, 7, 8} : S[i] \in DOMAIN got
    BY <1>1, <1>3, WasRead
  <2>2. QED
    BY <1>1, <2>1 DEF GotOK, Value
<1>5. /\ \A i \in {1, 3, 4, 7} : File(S[i][2]) = "sources"
      /\ \A i \in {5, 6, 8} : File(S[i][2]) = "binaries"
  BY <1>2, FileIs
<1>6. ASSUME NEW i \in {1, 3, 4, 5, 6, 7, 8}, NEW j \in {1, 3, 4, 5, 6, 7, 8}, i < j,
             File(S[i][2]) = File(S[j][2])
      PROVE  got[S[i]] <= got[S[j]]
  BY <1>1, <1>3, <1>4, <1>6 DEF GotOK
<1>7. got[S[1]] <= got[S[3]] /\ got[S[3]] <= got[S[4]] /\ got[S[4]] <= got[S[7]]
  BY <1>5, <1>6
<1>8. got[S[5]] <= got[S[6]] /\ got[S[6]] <= got[S[8]]
  BY <1>5, <1>6
<1>9. got[S[7]] = got[S[1]] /\ got[S[8]] = got[S[5]]
  BY <1>2 DEF EndsAsBegun
<1>10. got[S[4]] <= got[S[5]] /\ got[S[5]] <= got[S[7]]
  BY <1>1, <1>2, <1>4 DEF BuildOK
<1>11. /\ got[S[3]] = got[S[1]] /\ got[S[4]] = got[S[1]] /\ got[S[5]] = got[S[1]]
       /\ got[S[6]] = got[S[1]]
  BY <1>4, <1>7, <1>8, <1>9, <1>10
<1>12. QED
  BY <1>2, <1>4, <1>11 DEF Tested

LEMMA WriteResultStep == EvidenceInv /\ WriteResult => EvidenceInv'
<1> SUFFICES ASSUME EvidenceInv, WriteResult PROVE EvidenceInv'
  OBVIOUS
<1>1. /\ EvidenceTypeOK /\ VersionsOK /\ ReadingOK /\ PackageOK /\ AssessmentBinds /\ BundleOK
      /\ tool = "validate" /\ jobs > 0
      /\ UNCHANGED <<product, reviewed, version, tool, jobs, got, held, package, queue, decisions,
                     assessment>>
  BY DEF EvidenceInv, WriteResult
<1>2. /\ ReadingOK' /\ VersionsOK' /\ Left' = Left /\ (Packaging' <=> Packaging)
      /\ (Reassembled => Reassembled') /\ LinksOf("first")' = LinksOf("first")
  BY <1>1, KeptReading
<1>3. ~ Packaging
  BY <1>1 DEF Packaging
<1>4. PICK passed \in IF Left = {} /\ EndsAsBegun THEN BOOLEAN ELSE {FALSE} :
        bundle' = [by |-> bundle.by, sources |-> got[<<"validate", "digest">>],
                   copy |-> got[<<"validate", "copy">>], passed |-> passed,
                   ran |-> [what \in {w \in Tested : <<"validate", w>> \in DOMAIN got}
                              |-> got[<<"validate", what>>]],
                   parts |-> {"result"}]
  BY <1>1 DEF WriteResult, BundleOK
<1>5. ASSUME bundle'.passed PROVE bundle'.ran = [s \in Tested |-> bundle'.sources]
  <2>1. Left = {} /\ EndsAsBegun
    BY <1>4, <1>5
  <2>2. \A w \in Tested : /\ <<"validate", w>> \in DOMAIN got
                          /\ got[<<"validate", w>>] = got[<<"validate", "digest">>]
    BY <1>1, <2>1, RanOnSources
  <2>3. {w \in Tested : <<"validate", w>> \in DOMAIN got} = Tested
    BY <2>2
  <2>4. QED
    BY <1>4, <2>2, <2>3
<1>6. BundleOK'
  BY <1>4, <1>5 DEF BundleOK
<1>7. EvidenceTypeOK' /\ PackageOK' /\ AssessmentBinds'
  BY <1>1, <1>2, <1>3, <1>4 DEF EvidenceTypeOK, PackageOK, OneRun, AssessmentBinds
<1>8. QED
  BY <1>1, <1>2, <1>6, <1>7 DEF EvidenceInv

LEMMA WriteManifestStep == EvidenceInv /\ WriteManifest => EvidenceInv'
<1> SUFFICES ASSUME EvidenceInv, WriteManifest PROVE EvidenceInv'
  OBVIOUS
<1>1. /\ EvidenceTypeOK /\ VersionsOK /\ PackageOK /\ AssessmentBinds /\ BundleOK
      /\ tool' = "none" /\ bundle.parts = {"result"}
      /\ UNCHANGED <<product, reviewed, version, jobs, package, queue, decisions, assessment>>
  BY DEF EvidenceInv, WriteManifest, End
<1>2. ReadingOK' /\ ~ Packaging' /\ DOMAIN got' = {}
  BY EndedReading DEF WriteManifest
<1>3. bundle' = [by |-> bundle.by, sources |-> bundle.sources, copy |-> bundle.copy,
                 passed |-> bundle.passed, ran |-> bundle.ran,
                 parts |-> bundle.parts \cup {"manifest"}]
  BY <1>1 DEF WriteManifest, BundleOK
<1>4. QED
  BY <1>1, <1>2, <1>3 DEF EvidenceInv, EvidenceTypeOK, VersionsOK, PackageOK, OneRun,
     AssessmentBinds, BundleOK

-----------------------------------------------------------------------------
LEMMA EvidenceInitHolds == EvidenceInit => EvidenceInv
<1> SUFFICES ASSUME EvidenceInit PROVE EvidenceInv
  OBVIOUS
<1>1. MaxRevisions \in Nat /\ MaxJobs \in Nat /\ Missing \notin Nat
  BY EvidenceAssumption
<1>2. EvidenceTypeOK
  BY <1>1 DEF EvidenceInit, EvidenceTypeOK, NoPackage, NoBundle
<1>3. VersionsOK
  BY <1>1 DEF EvidenceInit, VersionsOK, Value, Files
<1>4. PackageOK /\ BundleOK
  BY DEF EvidenceInit, PackageOK, BundleOK, NoPackage, NoBundle, Parts, Packaging
<1>5. QED
  BY <1>2, <1>3, <1>4 DEF EvidenceInit, EvidenceInv, ReadingOK, AssessmentBinds

LEMMA EvidenceStep == EvidenceInv /\ [EvidenceNext]_evidenceVars => EvidenceInv'
<1> SUFFICES ASSUME EvidenceInv, [EvidenceNext]_evidenceVars PROVE EvidenceInv'
  OBVIOUS
<1>1. CASE UNCHANGED evidenceVars
  <2>1. /\ EvidenceTypeOK /\ VersionsOK /\ ReadingOK /\ PackageOK /\ AssessmentBinds /\ BundleOK
        /\ tool # "none" => jobs > 0
        /\ UNCHANGED <<product, reviewed, version, tool, jobs, got, held, package, queue,
                       decisions, assessment, bundle>>
    BY <1>1 DEF EvidenceInv, evidenceVars
  <2>2. /\ ReadingOK' /\ VersionsOK' /\ Left' = Left /\ (Packaging' <=> Packaging)
        /\ (Reassembled => Reassembled') /\ LinksOf("first")' = LinksOf("first")
    BY <2>1, KeptReading
  <2>3. UnderWay => UnderWay'
    BY <2>1, <2>2 DEF UnderWay
  <2>4. EvidenceTypeOK' /\ PackageOK' /\ AssessmentBinds' /\ BundleOK'
    BY <2>1, <2>2, <2>3 DEF EvidenceTypeOK, PackageOK, OneRun, AssessmentBinds, BundleOK
  <2>5. QED
    BY <2>1, <2>2, <2>4 DEF EvidenceInv
<1>2. CASE EvidenceNext
  BY <1>2, ReviseStep, RebuildStep, StartStep, ReadStep, RaiseStep, CreateStep, WriteMetricsStep,
     WriteContentStep, PowerLossStep, PrepareStep, HumanStep, ResolveStep, WriteResultStep,
     WriteManifestStep DEF EvidenceNext
<1>3. QED
  BY <1>1, <1>2

(* For any number of edits and invocations, every order of edits, readings,*)
(* deaths and power losses: a package that verifies is of one run, and so  *)
(* is the queue that an assessment repeats.                                *)
THEOREM PublicationsAreOfOneRun == EvidenceSpec => []PublishedOfOneRun
<1>1. EvidenceInv => PublishedOfOneRun
  BY DEF EvidenceInv, PackageOK, OneRun, PublishedOfOneRun, PackageOfOneRun, PackageAccepted
<1>2. QED
  BY <1>1, EvidenceInitHolds, EvidenceStep, PTL DEF EvidenceSpec

(* Likewise: a bundle that verifies against the checkout had every stage   *)
(* run on the sources that are there now.                                  *)
THEOREM AcceptedIsCurrent == EvidenceSpec => []EvidenceIsCurrent
<1>1. EvidenceInv => EvidenceIsCurrent
  BY DEF EvidenceInv, BundleOK, EvidenceIsCurrent, BundleAccepted
<1>2. QED
  BY <1>1, EvidenceInitHolds, EvidenceStep, PTL DEF EvidenceSpec

-----------------------------------------------------------------------------
(* Places: in a finite set that R orders, ranks grow with the members, so  *)
(* that they run through 1..Cardinality(P).                                *)
Rank(R, P, p) == Cardinality({q \in P : <<q, p>> \in R})
Orders(R, P) ==
  /\ \A a, b \in P : <<a, b>> \in R \/ <<b, a>> \in R
  /\ \A a, b \in P : <<a, b>> \in R /\ <<b, a>> \in R => a = b
  /\ \A a, b, c \in P : <<a, b>> \in R /\ <<b, c>> \in R => <<a, c>> \in R

LEMMA RankIs ==
  ASSUME NEW R, NEW P, IsFiniteSet(P), Orders(R, P), NEW p \in P
  PROVE  /\ Rank(R, P, p) \in 1 .. Cardinality(P)
         /\ \A q \in P : <<p, q>> \in R /\ q # p => Rank(R, P, p) < Rank(R, P, q)
<1> DEFINE upto(q) == {x \in P : <<x, q>> \in R}
<1>1. ASSUME NEW q \in P
      PROVE  /\ IsFiniteSet(upto(q)) /\ Rank(R, P, q) = Cardinality(upto(q))
             /\ Rank(R, P, q) \in 1 .. Cardinality(P)
  <2>1. upto(q) \in SUBSET P /\ upto(q) # {} /\ Rank(R, P, q) = Cardinality(upto(q))
    <3>1. q \in upto(q)
      BY DEF Orders
    <3>2. QED
      BY <3>1 DEF Rank
  <2> HIDE DEF upto
  <2>2. IsFiniteSet(upto(q)) /\ Cardinality(upto(q)) <= Cardinality(P)
    BY <2>1, FS_Subset
  <2>3. Cardinality(upto(q)) # 0 /\ Cardinality(upto(q)) \in Nat /\ Cardinality(P) \in Nat
    BY <2>1, <2>2, FS_EmptySet, FS_CardinalityType
  <2>4. QED
    BY <2>1, <2>2, <2>3
<1>2. ASSUME NEW q \in P, <<p, q>> \in R, q # p PROVE Rank(R, P, p) < Rank(R, P, q)
  <2>1. upto(p) \in SUBSET upto(q)
    BY <1>2 DEF Orders
  <2>2. q \in upto(q) /\ q \notin upto(p)
    BY <1>2 DEF Orders
  <2> HIDE DEF upto
  <2>3. /\ Cardinality(upto(p)) <= Cardinality(upto(q))
        /\ Cardinality(upto(q)) = Cardinality(upto(p)) => upto(q) = upto(p)
    BY <1>1, <2>1, FS_Subset
  <2>4. /\ Rank(R, P, p) = Cardinality(upto(p)) /\ Rank(R, P, q) = Cardinality(upto(q))
        /\ Rank(R, P, p) \in 1 .. Cardinality(P) /\ Rank(R, P, q) \in 1 .. Cardinality(P)
    BY <1>1
  <2>5. Cardinality(P) \in Nat
    BY FS_CardinalityType
  <2>6. QED
    BY <2>2, <2>3, <2>4, <2>5
<1>3. Rank(R, P, p) \in 1 .. Cardinality(P)
  BY <1>1
<1>4. QED
  BY <1>2, <1>3

LEMMA RankUnique ==
  ASSUME NEW R, NEW P, IsFiniteSet(P), Orders(R, P), NEW p \in P, NEW q \in P,
         Rank(R, P, p) = Rank(R, P, q)
  PROVE  p = q
<1>1. Cardinality(P) \in Nat
  BY FS_CardinalityType
<1>2. /\ Rank(R, P, p) \in 1 .. Cardinality(P)
      /\ <<p, q>> \in R /\ q # p => Rank(R, P, p) < Rank(R, P, q)
  BY RankIs
<1>3. <<q, p>> \in R /\ p # q => Rank(R, P, q) < Rank(R, P, p)
  BY RankIs
<1>4. <<p, q>> \in R \/ <<q, p>> \in R
  BY DEF Orders
<1>5. QED
  BY <1>1, <1>2, <1>3, <1>4

LEMMA RankTaken ==
  ASSUME NEW R, NEW P, IsFiniteSet(P), Orders(R, P), NEW i \in 1 .. Cardinality(P)
  PROVE  \E p \in P : Rank(R, P, p) = i
<1> DEFINE f == [p \in P |-> Rank(R, P, p)]
           n == Cardinality(P)
<1>1. n \in Nat /\ IsFiniteSet(1 .. n) /\ Cardinality(1 .. n) = n
  BY FS_CardinalityType, FS_Interval
<1>2. f \in [P -> 1 .. n]
  BY RankIs
<1>3. ASSUME NEW p \in P, NEW q \in P, f[p] = f[q] PROVE p = q
  BY <1>3, RankUnique
<1> HIDE DEF f
<1>4. f \in Injection(P, 1 .. n)
  BY <1>2, <1>3 DEF Injection, IsInjective
<1>5. f \in Surjection(P, 1 .. n)
  BY <1>1, <1>4, FS_Injection
<1>6. PICK p \in P : f[p] = i
  BY <1>5 DEF Surjection
<1>7. QED
  BY <1>6 DEF f

LEMMA NthOf ==
  ASSUME NEW P \in SUBSET Nat, IsFiniteSet(P), NEW p \in P, NEW i,
         Cardinality({q \in P : q <= p}) = i
  PROVE  Nth(P, i) = p
<1> DEFINE R == {x \in P \X P : x[1] <= x[2]}
<1>1. Orders(R, P)
  BY DEF Orders
<1>2. ASSUME NEW q \in P PROVE Rank(R, P, q) = Cardinality({x \in P : x <= q})
  <2>1. {x \in P : <<x, q>> \in R} = {x \in P : x <= q}
    OBVIOUS
  <2>2. QED
    BY <2>1 DEF Rank
<1> HIDE DEF R
<1>3. ASSUME NEW q \in P, Cardinality({x \in P : x <= q}) = i PROVE q = p
  BY <1>1, <1>2, <1>3, RankUnique
<1>4. QED
  BY <1>3 DEF Nth

LEMMA NthIs ==
  ASSUME NEW P \in SUBSET Nat, IsFiniteSet(P), NEW i \in 1 .. Cardinality(P)
  PROVE  Nth(P, i) \in P /\ Cardinality({q \in P : q <= Nth(P, i)}) = i
<1> DEFINE R == {x \in P \X P : x[1] <= x[2]}
<1>1. Orders(R, P)
  BY DEF Orders
<1>2. ASSUME NEW q \in P PROVE Rank(R, P, q) = Cardinality({x \in P : x <= q})
  <2>1. {x \in P : <<x, q>> \in R} = {x \in P : x <= q}
    OBVIOUS
  <2>2. QED
    BY <2>1 DEF Rank
<1> HIDE DEF R
<1>3. PICK p \in P : Rank(R, P, p) = i
  BY <1>1, RankTaken
<1>4. Cardinality({x \in P : x <= p}) = i
  BY <1>2, <1>3
<1>5. QED
  BY <1>4 DEF Nth

LEMMA PickedIs ==
  ASSUME NEW V, NEW s, NEW P \in SUBSET Nat, IsFiniteSet(P), \A p \in P : s[p] \in V
  PROVE  /\ Picked(s, P) \in Seq(V) /\ Len(Picked(s, P)) = Cardinality(P)
         /\ Cardinality(P) \in Nat
<1>1. Cardinality(P) \in Nat
  BY FS_CardinalityType
<1>2. Picked(s, P) \in [1 .. Cardinality(P) -> V]
  BY <1>1, NthIs DEF Picked
<1>3. QED
  BY <1>1, <1>2, SeqDef, LenProperties

(* The places of an interval behind the others append what is there. *)
Stretch(s, a, k) == [i \in 1 .. k |-> s[a + i - 1]]

LEMMA PickedMore ==
  ASSUME NEW s, NEW a \in Nat, NEW k \in Nat, NEW P \in SUBSET Nat, IsFiniteSet(P),
         \A p \in P : p < a
  PROVE  Picked(s, P \cup (a .. a + k - 1)) = Picked(s, P) \o Stretch(s, a, k)
<1> DEFINE Q == P \cup (a .. a + k - 1)
           V == {s[p] : p \in Q}
           more == Stretch(s, a, k)
           m == Cardinality(P)
<1>1. /\ Q \in SUBSET Nat /\ IsFiniteSet(Q) /\ m \in Nat
      /\ \A j \in 0 .. k : Cardinality(P \cup (a .. a + j - 1)) = m + j
  <2>1. m \in Nat
    BY FS_CardinalityType
  <2>2. ASSUME NEW j \in 0 .. k
        PROVE  /\ IsFiniteSet(P \cup (a .. a + j - 1))
               /\ Cardinality(P \cup (a .. a + j - 1)) = m + j
    <3>1. IsFiniteSet(a .. a + j - 1) /\ Cardinality(a .. a + j - 1) = j
      <4>1. a + j - 1 \in Int /\ a \in Int
        OBVIOUS
      <4>2. QED
        BY <4>1, FS_Interval
    <3>2. P \cap (a .. a + j - 1) = {}
      OBVIOUS
    <3>3. IsFiniteSet(P) /\ Cardinality({}) = 0
      BY FS_EmptySet
    <3>4. /\ IsFiniteSet(P \cup (a .. a + j - 1))
          /\ Cardinality(P \cup (a .. a + j - 1)) =
               Cardinality(P) + Cardinality(a .. a + j - 1) - Cardinality(P \cap (a .. a + j - 1))
      BY <3>1, <3>3, FS_Union
    <3>5. Cardinality(P \cup (a .. a + j - 1)) = Cardinality(P) + j - 0
      BY <3>1, <3>2, <3>3, <3>4
    <3>6. QED
      BY <2>1, <3>4, <3>5
  <2>3. k \in 0 .. k /\ Q \in SUBSET Nat
    OBVIOUS
  <2>4. QED
    BY <2>1, <2>2, <2>3
<1>2. \A p \in P : p \in Q /\ s[p] \in V
  OBVIOUS
<1>3. \A p \in Q : s[p] \in V
  OBVIOUS
<1>4. Cardinality(Q) = m + k
  <2>1. k \in 0 .. k
    OBVIOUS
  <2>2. QED
    BY <1>1, <2>1
<1>5. ASSUME NEW i \in 1 .. m PROVE Nth(Q, i) = Nth(P, i)
  <2>1. PICK p \in P : p = Nth(P, i) /\ Cardinality({q \in P : q <= p}) = i
    BY NthIs
  <2>2. {q \in Q : q <= p} = {q \in P : q <= p}
    OBVIOUS
  <2>3. p \in Q
    OBVIOUS
  <2> HIDE DEF Q
  <2>4. QED
    BY <1>1, <2>1, <2>2, <2>3, NthOf
<1>6. ASSUME NEW j \in 1 .. k PROVE Nth(Q, m + j) = a + j - 1
  <2>1. {q \in Q : q <= a + j - 1} = P \cup (a .. a + j - 1) /\ a + j - 1 \in Q
    <3>1. ASSUME NEW q PROVE q \in Q /\ q <= a + j - 1 <=> q \in P \cup (a .. a + j - 1)
      <4>1. CASE q \in P
        BY <4>1 DEF Q
      <4>2. CASE q \notin P
        BY <4>2 DEF Q
      <4>3. QED
        BY <4>1, <4>2
    <3>2. a + j - 1 \in Q
      BY DEF Q
    <3>3. QED
      BY <3>1, <3>2
  <2>2. Cardinality({q \in Q : q <= a + j - 1}) = m + j
    BY <1>1, <2>1
  <2> HIDE DEF Q
  <2>3. QED
    BY <1>1, <2>1, <2>2, NthOf
<1>7. more \in Seq(V) /\ Len(more) = k
  <2>1. more \in [1 .. k -> V]
    <3>1. ASSUME NEW i \in 1 .. k PROVE a + i - 1 \in Q
      OBVIOUS
    <3>2. QED
      BY <1>3, <3>1 DEF Stretch
  <2>2. QED
    BY <2>1, SeqDef, LenProperties
<1> HIDE DEF Q, V, m
<1>8. /\ Picked(s, P) \in Seq(V) /\ Len(Picked(s, P)) = m
      /\ Picked(s, Q) \in Seq(V) /\ Len(Picked(s, Q)) = m + k
  <2>1. Picked(s, P) \in Seq(V) /\ Len(Picked(s, P)) = Cardinality(P)
    BY <1>2, PickedIs
  <2>2. Picked(s, Q) \in Seq(V) /\ Len(Picked(s, Q)) = Cardinality(Q)
    BY <1>1, <1>3, PickedIs
  <2>3. QED
    BY <1>4, <2>1, <2>2 DEF m
<1>9. /\ Picked(s, P) \o more \in Seq(V) /\ Len(Picked(s, P) \o more) = m + k
      /\ \A i \in 1 .. m + k : (Picked(s, P) \o more)[i] =
                                  IF i <= m THEN Picked(s, P)[i] ELSE more[i - m]
  <2> HIDE DEF more
  <2>1. QED
    BY <1>7, <1>8, ConcatProperties
<1>10. ASSUME NEW i \in 1 .. m + k PROVE Picked(s, Q)[i] = (Picked(s, P) \o more)[i]
  <2>1. Picked(s, Q)[i] = s[Nth(Q, i)]
    BY <1>4 DEF Picked
  <2>2. CASE i <= m
    <3>1. i \in 1 .. m
      BY <1>1, <2>2
    <3>2. Picked(s, P)[i] = s[Nth(P, i)]
      BY <3>1 DEF Picked, m
    <3>3. QED
      BY <1>5, <1>9, <2>1, <2>2, <3>1, <3>2
  <2>3. CASE ~ (i <= m)
    <3>1. i - m \in 1 .. k /\ m + (i - m) = i
      BY <1>1, <2>3
    <3>2. Nth(Q, i) = a + (i - m) - 1
      BY <1>6, <3>1
    <3>3. more[i - m] = s[a + (i - m) - 1]
      BY <3>1 DEF more, Stretch
    <3>4. QED
      BY <1>9, <2>1, <2>3, <3>2, <3>3
  <2>4. QED
    BY <2>2, <2>3
<1> HIDE DEF more
<1>11. Picked(s, Q) = Picked(s, P) \o more
  <2>1. m + k \in Nat
    BY <1>1
  <2>2. QED
    BY <1>8, <1>9, <1>10, <2>1, SeqEqual
<1>12. QED
  BY <1>11 DEF Q, more

LEMMA PickedNext ==
  ASSUME NEW s, NEW n \in Nat, NEW P \in SUBSET (1 .. n)
  PROVE  Picked(s, P \cup {n + 1}) = Append(Picked(s, P), s[n + 1])
<1> DEFINE V == {s[p] : p \in P \cup {n + 1}}
<1>1. P \in SUBSET Nat /\ IsFiniteSet(P) /\ \A p \in P : p < n + 1
  <2>1. IsFiniteSet(1 .. n)
    BY FS_Interval
  <2>2. IsFiniteSet(P)
    BY <2>1, FS_Subset
  <2>3. QED
    BY <2>2
<1>2. Picked(s, P) \in Seq(V) /\ s[n + 1] \in V
  <2>1. \A p \in P : s[p] \in V
    OBVIOUS
  <2>2. s[n + 1] \in V
    OBVIOUS
  <2> HIDE DEF V
  <2>3. QED
    BY <1>1, <2>1, <2>2, PickedIs
<1> HIDE DEF V
<1>3. Picked(s, P \cup (n + 1 .. n + 1 + 1 - 1)) = Picked(s, P) \o Stretch(s, n + 1, 1)
  <2>1. n + 1 \in Nat /\ 1 \in Nat
    OBVIOUS
  <2>2. QED
    BY <1>1, <2>1, PickedMore
<1>4. (n + 1 .. n + 1 + 1 - 1) = {n + 1}
  OBVIOUS
<1>5. Stretch(s, n + 1, 1) = <<s[n + 1]>>
  BY DEF Stretch
<1>6. Append(Picked(s, P), s[n + 1]) = Picked(s, P) \o <<s[n + 1]>>
  BY <1>2, AppendIsConcat
<1>7. QED
  BY <1>3, <1>4, <1>5, <1>6

-----------------------------------------------------------------------------
(* MediaPlan: an inventory, its receipts and the plan made of both.        *)
MediaSpec == MediaInit /\ [][MediaNext]_mediaVars

FileEntry == [id : NativeId, content : Content]
FilePlaces == {k \in 1 .. scanned : archive[k].content # NotFile}
Listed == Picked(archive, FilePlaces)

(* What was listed is every file that was read, until somebody edits the   *)
(* inventory; from then on the receipts remember what they were made of.   *)
MediaInv ==
  /\ MediaAccounted
  /\ prefix.whole \in 0 .. Len(archive)
  /\ inventory = [members |-> inventory.members, ended |-> inventory.ended]
  /\ inventory.members \in Seq(FileEntry)
  /\ probe = [of |-> probe.of, images |-> probe.images] /\ probe.images \in Seq(Receipt)
  /\ desk \in {"scan", "listed"} => inventory.members = Listed
  /\ desk = "probed" => probe.of = Listed

LEMMA ArchiveIs ==
  ASSUME MediaTypeOK, prefix.whole \in 0 .. Len(archive)
  PROVE  /\ archive \in Seq(Entry) /\ Len(archive) \in Nat
         /\ scanned \in Nat /\ scanned <= prefix.whole /\ prefix.whole \in Nat
         /\ \A k \in 1 .. prefix.whole : archive[k] \in Entry
         /\ FilePlaces \in SUBSET (1 .. scanned)
         /\ \A k \in FilePlaces : archive[k] \in FileEntry
<1>1. archive \in Seq(Entry)
  <2>1. PICK m \in 0 .. MaxEntries : archive \in [1 .. m -> Entry]
    BY DEF MediaTypeOK, BoundedSeq, SeqOf
  <2>2. QED
    BY <2>1, MediaAssumption, SeqDef
<1>2. Len(archive) \in Nat /\ \A k \in 1 .. Len(archive) : archive[k] \in Entry
  BY <1>1, LenProperties, ElementOfSeq
<1>3. scanned \in Nat /\ scanned <= prefix.whole /\ prefix.whole \in Nat
      /\ prefix.whole <= Len(archive)
  BY <1>2 DEF MediaTypeOK
<1>4. \A k \in 1 .. prefix.whole : archive[k] \in Entry
  BY <1>2, <1>3
<1>5. \A k \in FilePlaces : archive[k] \in FileEntry
  <2>1. ASSUME NEW k \in FilePlaces PROVE archive[k] \in FileEntry
    <3>1. k \in 1 .. prefix.whole /\ archive[k].content # NotFile
      BY <1>3 DEF FilePlaces
    <3>2. QED
      BY <1>4, <3>1 DEF Entry, FileEntry
  <2>2. QED
    BY <2>1
<1>6. QED
  BY <1>1, <1>2, <1>3, <1>4, <1>5 DEF FilePlaces

LEMMA MediaInitHolds == MediaInit => MediaInv
<1> SUFFICES ASSUME MediaInit PROVE MediaInv
  OBVIOUS
<1>1. MediaTypeOK
  BY MediaAssumption DEF MediaInit, MediaTypeOK, NoProbe
<1>2. FilePlaces = {}
  BY DEF MediaInit, FilePlaces
<1>3. Listed = <<>>
  BY <1>2, FS_EmptySet DEF Listed, Picked
<1>4. QED
  BY <1>1, <1>3 DEF MediaInit, MediaInv, MediaAccounted, NoProbe

LEMMA ListEntryStep == MediaInv /\ ListEntry => MediaInv'
<1> SUFFICES ASSUME MediaInv, ListEntry PROVE MediaInv'
  OBVIOUS
<1>1. /\ MediaTypeOK /\ prefix.whole \in 0 .. Len(archive) /\ desk = "scan"
      /\ inventory.members = Listed /\ inventory.members \in Seq(FileEntry)
      /\ inventory = [members |-> inventory.members, ended |-> inventory.ended]
      /\ scanned < prefix.whole /\ scanned' = scanned + 1
      /\ UNCHANGED <<archive, prefix, altered, probe, records, touches, desk>>
  BY DEF MediaInv, MediaAccounted, ListEntry
<1>2. /\ scanned \in Nat /\ prefix.whole \in Nat
      /\ \A k \in 1 .. prefix.whole : archive[k] \in Entry
      /\ FilePlaces \in SUBSET (1 .. scanned)
  BY <1>1, ArchiveIs
<1>3. scanned + 1 \in 1 .. prefix.whole /\ scanned' \in 0 .. prefix.whole
  BY <1>1, <1>2
<1>4. PICK entry \in Entry : entry = archive[scanned + 1]
  BY <1>2, <1>3
<1>5. FilePlaces' = IF entry.content = NotFile THEN FilePlaces ELSE FilePlaces \cup {scanned + 1}
  <2>1. \A k : k \in 1 .. scanned + 1 <=> k \in 1 .. scanned \/ k = scanned + 1
    BY <1>2
  <2>2. QED
    BY <1>1, <1>4, <2>1 DEF FilePlaces
<1>6. CASE entry.content = NotFile
  <2>1. UNCHANGED <<inventory, stored>>
    BY <1>4, <1>6 DEF ListEntry
  <2>2. Listed' = Listed
    BY <1>1, <1>5, <1>6 DEF Listed
  <2>3. QED
    BY <1>1, <1>3, <2>1, <2>2 DEF MediaInv, MediaAccounted, MediaTypeOK
<1>7. CASE entry.content # NotFile
  <2>1. /\ inventory' = [inventory EXCEPT !.members = Append(@, entry)]
        /\ stored' = stored \cup {entry.content}
    BY <1>4, <1>7 DEF ListEntry
  <2>2. inventory' = [members |-> Append(inventory.members, entry), ended |-> inventory.ended]
    BY <1>1, <2>1
  <2>3. Listed' = Append(Listed, entry)
    <3>1. Picked(archive, FilePlaces \cup {scanned + 1})
            = Append(Picked(archive, FilePlaces), archive[scanned + 1])
      BY <1>2, PickedNext
    <3>2. Listed' = Picked(archive, FilePlaces')
      BY <1>1 DEF Listed, Picked, Nth
    <3>3. QED
      BY <1>4, <1>5, <1>7, <3>1, <3>2 DEF Listed
  <2>4. entry \in FileEntry
    BY <1>4, <1>7 DEF Entry, FileEntry
  <2>5. inventory'.members \in Seq(FileEntry) /\ inventory'.members = Listed'
    BY <1>1, <2>2, <2>3, <2>4, AppendProperties
  <2>6. stored' \subseteq Content /\ altered' \subseteq stored'
    BY <1>1, <2>1, <2>4 DEF MediaTypeOK, FileEntry
  <2>7. MediaTypeOK'
    BY <1>1, <1>3, <2>2, <2>6 DEF MediaTypeOK
  <2>8. QED
    BY <1>1, <2>2, <2>5, <2>7 DEF MediaInv, MediaAccounted
<1>8. QED
  BY <1>6, <1>7

(* The scan ends, or an entry raises, or an object is changed.             *)
LEMMA ScanEndsStep ==
  MediaInv /\ (HitLimit \/ RunOut \/ UnsafeEntry \/ AlterObject) => MediaInv'
<1> SUFFICES ASSUME MediaInv, HitLimit \/ RunOut \/ UnsafeEntry \/ AlterObject PROVE MediaInv'
  OBVIOUS
<1>1. /\ MediaTypeOK /\ prefix.whole \in 0 .. Len(archive)
      /\ inventory.members \in Seq(FileEntry)
      /\ inventory = [members |-> inventory.members, ended |-> inventory.ended]
  BY DEF MediaInv, MediaAccounted
<1>2. ASSUME NEW reason \in {"archive_end", "member_limit", "expanded_byte_limit", "prefix_end"},
             Ends(reason), desk = "scan"
      PROVE  MediaInv'
  <2>1. inventory' = [members |-> inventory.members, ended |-> reason]
    BY <1>1, <1>2 DEF Ends
  <2>2. Listed' = Listed
    BY <1>2 DEF Ends, Listed, FilePlaces
  <2>3. MediaTypeOK'
    BY <1>1, <1>2, <2>1 DEF Ends, MediaTypeOK
  <2>4. QED
    BY <1>2, <2>1, <2>2, <2>3 DEF MediaInv, MediaAccounted, Ends
<1>3. CASE HitLimit
  BY <1>2, <1>3 DEF HitLimit
<1>4. CASE RunOut
  BY <1>2, <1>4 DEF RunOut, Stop
<1>5. CASE UnsafeEntry
  BY <1>5 DEF UnsafeEntry, MediaInv, MediaAccounted, MediaTypeOK
<1>6. CASE AlterObject
  <2>1. /\ desk \in {"listed", "probed"} /\ touches < MaxTouches /\ touches' = touches + 1
        /\ UNCHANGED <<archive, prefix, scanned, inventory, stored, probe, records, desk>>
    BY <1>6 DEF AlterObject, Touch
  <2>2. PICK c \in stored \ altered : altered' = altered \cup {c}
    BY <1>6 DEF AlterObject
  <2>3. Listed' = Listed
    BY <2>1 DEF Listed, FilePlaces
  <2>4. MediaTypeOK'
    BY <1>1, <2>1, <2>2, MediaAssumption DEF MediaTypeOK
  <2>5. QED
    BY <2>1, <2>3, <2>4 DEF MediaInv, MediaAccounted
<1>7. QED
  BY <1>3, <1>4, <1>5, <1>6

LEMMA ProbeStep == MediaInv /\ Probe => MediaInv'
<1> SUFFICES ASSUME MediaInv, Probe PROVE MediaInv'
  OBVIOUS
<1>1. /\ MediaTypeOK /\ prefix.whole \in 0 .. Len(archive) /\ desk = "listed"
      /\ inventory.members \in Seq(FileEntry) /\ inventory.members = Listed
      /\ desk' = "probed"
      /\ UNCHANGED <<archive, prefix, scanned, inventory, stored, altered, records, touches>>
  BY DEF MediaInv, MediaAccounted, Probe
<1>2. PICK listed, images : listed = inventory.members /\ images = Images(listed)
  OBVIOUS
<1>3. listed \in Seq(FileEntry) /\ Len(listed) \in Nat
  BY <1>1, <1>2, LenProperties
<1>4. images \in Seq(FileEntry)
  <2> DEFINE places == {i \in DOMAIN listed : IsImage(listed[i])}
  <2>1. places \in SUBSET (1 .. Len(listed)) /\ \A p \in places : listed[p] \in FileEntry
    BY <1>3, LenProperties, ElementOfSeq
  <2> HIDE DEF places
  <2>2. IsFiniteSet(1 .. Len(listed))
    BY <1>3, FS_Interval
  <2>3. IsFiniteSet(places)
    BY <2>1, <2>2, FS_Subset
  <2>4. places \in SUBSET Nat
    BY <1>3, <2>1
  <2>5. Picked(listed, places) \in Seq(FileEntry)
    BY <2>1, <2>3, <2>4, PickedIs
  <2>6. QED
    BY <1>2, <2>5 DEF Images, places
<1>5. PICK late \in SUBSET DOMAIN Images(inventory.members) :
        probe' = [of |-> inventory.members,
                  images |-> [i \in DOMAIN Images(inventory.members) |->
                    [id |-> Images(inventory.members)[i].id,
                     content |-> Images(inventory.members)[i].content,
                     decoded |-> i \notin late
                                 /\ Decodes(Images(inventory.members)[i].content)]]]
  BY Zenon DEF Probe
<1>6. probe'.images \in Seq(Receipt)
  <2>1. Len(images) \in Nat /\ DOMAIN images = 1 .. Len(images)
        /\ \A i \in DOMAIN images : images[i] \in FileEntry
    BY <1>4, LenProperties, ElementOfSeq
  <2>2. probe'.images \in [1 .. Len(images) -> Receipt]
    <3>1. ASSUME NEW i \in 1 .. Len(images)
          PROVE  [id |-> images[i].id, content |-> images[i].content,
                  decoded |-> i \notin late /\ Decodes(images[i].content)] \in Receipt
      <4>1. images[i].id \in NativeId /\ images[i].content \in Content
        BY <2>1 DEF FileEntry
      <4>2. (i \notin late /\ Decodes(images[i].content)) \in BOOLEAN
        OBVIOUS
      <4>3. QED
        BY <4>1, <4>2 DEF Receipt
    <3>2. QED
      BY <1>2, <1>5, <2>1, <3>1
  <2>3. QED
    BY <2>1, <2>2, SeqDef
<1>7. \A i \in DOMAIN probe'.images : probe'.images[i] \in Receipt
  BY <1>6, LenProperties, ElementOfSeq
<1>8. Listed' = Listed
  BY <1>1 DEF Listed, FilePlaces
<1>9. MediaTypeOK'
  BY <1>1, <1>7 DEF MediaTypeOK
<1>10. QED
  BY <1>1, <1>2, <1>5, <1>6, <1>8, <1>9 DEF MediaInv, MediaAccounted

LEMMA EditMediaStep == MediaInv /\ (EditReceipts \/ EditInventory) => MediaInv'
<1> SUFFICES ASSUME MediaInv, EditReceipts \/ EditInventory PROVE MediaInv'
  OBVIOUS
<1>1. /\ MediaTypeOK /\ prefix.whole \in 0 .. Len(archive) /\ desk = "probed"
      /\ inventory.members \in Seq(FileEntry) /\ probe.images \in Seq(Receipt)
      /\ inventory = [members |-> inventory.members, ended |-> inventory.ended]
      /\ probe = [of |-> probe.of, images |-> probe.images] /\ probe.of = Listed
      /\ touches < MaxTouches /\ touches' = touches + 1
      /\ UNCHANGED <<archive, prefix, scanned, stored, altered, records, desk>>
  BY DEF MediaInv, MediaAccounted, EditReceipts, EditInventory, Touch
<1>2. touches' \in 0 .. MaxTouches
  BY <1>1, MediaAssumption DEF MediaTypeOK
<1>3. Listed' = Listed
  BY <1>1 DEF Listed, FilePlaces
<1>4. ASSUME NEW V, NEW s \in Seq(V), NEW i \in DOMAIN s PROVE RemoveAt(s, i) \in Seq(V)
  <2>1. Len(s) \in Nat /\ DOMAIN s = 1 .. Len(s) /\ \A k \in 1 .. Len(s) : s[k] \in V
    BY LenProperties, ElementOfSeq
  <2>2. SubSeq(s, 1, i - 1) \in Seq(V)
    <3>1. i - 1 \in Int /\ \A k \in 1 .. i - 1 : s[k] \in V
      BY <2>1
    <3>2. QED
      BY <3>1, SubSeqProperties
  <2>3. SubSeq(s, i + 1, Len(s)) \in Seq(V)
    <3>1. i + 1 \in Int /\ Len(s) \in Int /\ \A k \in i + 1 .. Len(s) : s[k] \in V
      BY <2>1
    <3>2. QED
      BY <3>1, SubSeqProperties
  <2>4. QED
    BY <2>2, <2>3, ConcatProperties DEF RemoveAt
<1>5. CASE EditReceipts
  <2>1. UNCHANGED inventory
    BY <1>5 DEF EditReceipts
  <2>2. ASSUME NEW s \in Seq(Receipt), probe' = [probe EXCEPT !.images = s] PROVE MediaInv'
    <3>1. probe' = [of |-> probe.of, images |-> s]
      BY <1>1, <2>2
    <3>2. \A i \in DOMAIN s : s[i] \in Receipt
      BY LenProperties, ElementOfSeq
    <3>3. MediaTypeOK'
      BY <1>1, <1>2, <2>1, <3>1, <3>2 DEF MediaTypeOK
    <3>4. QED
      BY <1>1, <1>3, <2>1, <3>1, <3>3 DEF MediaInv, MediaAccounted
  <2>3. CASE \E i \in DOMAIN probe.images : probe' = [probe EXCEPT !.images = RemoveAt(@, i)]
    <3>1. PICK i \in DOMAIN probe.images : probe' = [probe EXCEPT !.images = RemoveAt(@, i)]
      BY <2>3
    <3>2. RemoveAt(probe.images, i) \in Seq(Receipt)
      BY <1>1, <1>4
    <3>3. QED
      BY <2>2, <3>1, <3>2
  <2>4. CASE \E r \in Receipt : probe' = [probe EXCEPT !.images = Append(@, r)]
    <3>1. PICK r \in Receipt : probe' = [probe EXCEPT !.images = Append(@, r)]
      BY <2>4
    <3>2. Append(probe.images, r) \in Seq(Receipt)
      BY <1>1, AppendProperties
    <3>3. QED
      BY <2>2, <3>1, <3>2
  <2>5. QED
    BY <1>5, <2>3, <2>4 DEF EditReceipts
<1>6. CASE EditInventory
  <2>1. PICK i \in DOMAIN inventory.members :
          inventory' = [inventory EXCEPT !.members = RemoveAt(@, i)]
    BY <1>6 DEF EditInventory
  <2>2. inventory' = [members |-> RemoveAt(inventory.members, i), ended |-> inventory.ended]
    BY <1>1, <2>1
  <2>3. RemoveAt(inventory.members, i) \in Seq(FileEntry)
    BY <1>1, <1>4
  <2>4. UNCHANGED probe
    BY <1>6 DEF EditInventory
  <2>5. MediaTypeOK'
    BY <1>1, <1>2, <2>2, <2>4 DEF MediaTypeOK
  <2>6. QED
    BY <1>1, <1>3, <2>2, <2>3, <2>4, <2>5 DEF MediaInv, MediaAccounted
<1>7. QED
  BY <1>5, <1>6

(* The last receipt of a member's key is one of that key, if there is any. *)
LEMMA ReceiptIs ==
  ASSUME NEW m, probe.images \in Seq(Receipt),
         \E r \in ToSet(probe.images) : Key(r) = Key(m)
  PROVE  /\ probe.images[ReceiptOf(m)] \in ToSet(probe.images)
         /\ Key(probe.images[ReceiptOf(m)]) = Key(m)
<1> DEFINE I == {i \in 1 .. Len(probe.images) : Key(probe.images[i]) = Key(m)}
<1>1. Len(probe.images) \in Nat /\ DOMAIN probe.images = 1 .. Len(probe.images)
  BY LenProperties
<1>2. I # {} /\ I \in SUBSET (0 .. Len(probe.images))
  BY <1>1 DEF ToSet
<1>3. ReceiptOf(m) = IF I # {} THEN Max(I) ELSE 0
  BY DEF ReceiptOf, SelectLastInSeq
<1> HIDE DEF I
<1>4. ReceiptOf(m) \in I
  BY <1>1, <1>2, <1>3, LargestIs
<1>5. QED
  BY <1>1, <1>4 DEF I, ToSet

LEMMA MakeMediaPlanStep == MediaInv /\ MakeMediaPlan => MediaInv'
<1> SUFFICES ASSUME MediaInv, MakeMediaPlan PROVE MediaInv'
  OBVIOUS
<1>1. /\ MediaTypeOK /\ prefix.whole \in 0 .. Len(archive) /\ desk = "probed"
      /\ inventory.members \in Seq(FileEntry) /\ probe.images \in Seq(Receipt)
      /\ inventory = [members |-> inventory.members, ended |-> inventory.ended]
      /\ probe = [of |-> probe.of, images |-> probe.images] /\ probe.of = Listed
      /\ UNCHANGED <<archive, prefix, scanned, inventory, stored, altered, probe, touches>>
  BY DEF MediaInv, MediaAccounted, MakeMediaPlan
<1>2. MediaTypeOK' /\ Listed' = Listed
  BY <1>1 DEF MediaTypeOK, Listed, FilePlaces
<1>3. CASE ~ Plannable
  BY <1>1, <1>2, <1>3 DEF MakeMediaPlan, MediaInv, MediaAccounted
<1>4. CASE Plannable
  <2>1. PICK listed, images : listed = inventory.members /\ images = probe.images
    OBVIOUS
  <2>2. /\ records' = [i \in DOMAIN listed |-> RecordOf(listed[i])] /\ desk' = "planned"
        /\ listed = Listed /\ ~ Conflicting /\ Matched
    BY <1>1, <1>4, <2>1 DEF MakeMediaPlan, Plannable
  <2>3. /\ listed \in Seq(FileEntry) /\ Len(listed) \in Nat /\ DOMAIN listed = 1 .. Len(listed)
        /\ \A i \in DOMAIN listed : listed[i] \in FileEntry
    BY <1>1, <2>1, LenProperties, ElementOfSeq
  <2>4. \A r \in ToSet(images) : r \in Receipt
    BY <1>1, <2>1, LenProperties, ElementOfSeq DEF ToSet
  <2>5. ASSUME NEW i \in DOMAIN listed, IsImage(listed[i])
        PROVE  \E r \in ToSet(images) : Key(r) = Key(listed[i])
    BY <2>1, <2>2, <2>5 DEF Matched, ToSet
  <2>6. ASSUME NEW r \in ToSet(images)
        PROVE  \E i \in DOMAIN listed : IsImage(listed[i]) /\ Key(listed[i]) = Key(r)
    BY <2>1, <2>2, <2>6 DEF Matched, ToSet
  <2>7. ASSUME NEW i \in DOMAIN listed
        PROVE  /\ records'[i].id = listed[i].id /\ records'[i].content = listed[i].content
               /\ records'[i].stage = StageOf(listed[i])
               /\ records'[i].receipt =
                    IF IsImage(listed[i]) THEN {images[ReceiptOf(listed[i])]} ELSE {}
    BY <2>1, <2>2 DEF RecordOf
  <2>8. ASSUME NEW i \in DOMAIN listed, IsImage(listed[i])
        PROVE  LET r == images[ReceiptOf(listed[i])]
               IN  /\ r \in ToSet(images) /\ Key(r) = Key(listed[i])
                   /\ StageOf(listed[i]) = IF r.decoded THEN "prepare_ocr" ELSE "inspect_failure"
    <3>1. /\ images[ReceiptOf(listed[i])] \in ToSet(images)
          /\ Key(images[ReceiptOf(listed[i])]) = Key(listed[i])
      BY <1>1, <2>1, <2>5, <2>8, ReceiptIs
    <3>2. StageOf(listed[i]) = IF images[ReceiptOf(listed[i])].decoded
                               THEN "prepare_ocr" ELSE "inspect_failure"
      BY <2>1, <2>8 DEF StageOf, IsImage
    <3>3. QED
      BY <3>1, <3>2
  <2>9. DOMAIN records' = DOMAIN listed
    BY <2>2
  <2>10. [i \in DOMAIN records' |-> [id |-> records'[i].id, content |-> records'[i].content]]
           = Listed
    <3>1. ASSUME NEW i \in DOMAIN listed
          PROVE  [id |-> records'[i].id, content |-> records'[i].content] = listed[i]
      BY <2>3, <2>7 DEF FileEntry
    <3>2. listed = [i \in DOMAIN listed |-> listed[i]]
      BY <2>3
    <3>3. QED
      BY <2>2, <2>9, <3>1, <3>2
  <2>11. UNION {records'[i].receipt : i \in DOMAIN records'} = ToSet(images)
    <3>1. ASSUME NEW i \in DOMAIN listed PROVE records'[i].receipt \subseteq ToSet(images)
      BY <2>7, <2>8
    <3>2. ASSUME NEW r \in ToSet(images) PROVE \E i \in DOMAIN listed : r \in records'[i].receipt
      <4>1. PICK i \in DOMAIN listed : IsImage(listed[i]) /\ Key(listed[i]) = Key(r)
        BY <2>6
      <4>2. images[ReceiptOf(listed[i])] = r
        BY <2>1, <2>2, <2>8, <4>1 DEF Conflicting
      <4>3. QED
        BY <2>7, <4>1, <4>2
    <3>3. QED
      BY <2>9, <3>1, <3>2
  <2>12. ASSUME NEW i \in DOMAIN listed
         PROVE  /\ records'[i].content \notin altered'
                /\ Signature[records'[i].content] = "image" <=> records'[i].receipt # {}
                /\ \A r \in records'[i].receipt :
                     /\ r.id = records'[i].id /\ r.content = records'[i].content
                     /\ records'[i].stage = "prepare_ocr" <=> r.decoded
    <3>1. IsImage(listed[i]) <=> Signature[records'[i].content] = "image"
      BY <2>7 DEF IsImage
    <3>2. ASSUME IsImage(listed[i]), NEW r \in records'[i].receipt
          PROVE  /\ r.id = records'[i].id /\ r.content = records'[i].content
                 /\ records'[i].stage = "prepare_ocr" <=> r.decoded
      <4>1. r = images[ReceiptOf(listed[i])]
        BY <2>7, <3>2
      <4>2. /\ Key(r) = Key(listed[i]) /\ r \in Receipt
            /\ StageOf(listed[i]) = IF r.decoded THEN "prepare_ocr" ELSE "inspect_failure"
        BY <2>4, <2>8, <3>2, <4>1
      <4>3. r.id = listed[i].id /\ r.content = listed[i].content
        BY <4>2 DEF Key
      <4>4. r.decoded \in BOOLEAN
        BY <4>2 DEF Receipt
      <4>5. StageOf(listed[i]) = "prepare_ocr" <=> r.decoded
        BY <4>2, <4>4
      <4>6. QED
        BY <2>7, <4>3, <4>5
    <3>3. records'[i].content \notin altered'
      <4>1. \A m \in ToSet(inventory.members) : m.content \notin altered
        BY <1>4 DEF Plannable
      <4>2. QED
        BY <1>1, <2>1, <2>7, <4>1 DEF ToSet
    <3>4. QED
      BY <2>7, <3>1, <3>2, <3>3
  <2>13. MediaAccounted'
    BY <1>1, <1>2, <2>1, <2>9, <2>10, <2>11, <2>12
    DEF MediaAccounted, Listed, FilePlaces, IsImage
  <2>14. QED
    BY <1>1, <2>2, <2>13 DEF MediaInv
<1>5. QED
  BY <1>3, <1>4

LEMMA MediaStep == MediaInv /\ [MediaNext]_mediaVars => MediaInv'
<1> SUFFICES ASSUME MediaInv, [MediaNext]_mediaVars PROVE MediaInv'
  OBVIOUS
<1>1. CASE UNCHANGED mediaVars
  BY <1>1 DEF mediaVars, MediaInv, MediaAccounted, MediaTypeOK, Listed, FilePlaces, IsImage
<1>2. CASE MediaNext
  BY <1>2, ListEntryStep, ScanEndsStep, ProbeStep, EditMediaStep, MakeMediaPlanStep DEF MediaNext
<1>3. QED
  BY <1>1, <1>2

(* For any archive, any cut of it and any edits: a plan has a record of    *)
(* every file that the scan read, in order, each image under a receipt of  *)
(* its own id and content.                                                 *)
THEOREM MediaIsAccounted == MediaSpec => []MediaAccounted
<1>1. MediaInv => MediaAccounted
  BY DEF MediaInv
<1>2. QED
  BY <1>1, MediaInitHolds, MediaStep, PTL DEF MediaSpec

-----------------------------------------------------------------------------
(* What holds at 0 and goes over from each number to the next. *)
LEMMA StepByStep ==
  ASSUME NEW L \in Nat, NEW D, 0 \in D, \A k \in 0 .. L - 1 : k \in D => k + 1 \in D
  PROVE  \A k \in 0 .. L : k \in D
<1> DEFINE out == {k \in 0 .. L : k \notin D}
<1>1. ASSUME out # {} PROVE FALSE
  <2>1. out \in SUBSET Nat
    OBVIOUS
  <2>2. PICK k \in out : \A m \in out : k <= m
    BY <1>1, <2>1, SmallestIs
  <2>3. k \in 0 .. L /\ k # 0 /\ k - 1 \in 0 .. L - 1 /\ k - 1 \in 0 .. L /\ k = (k - 1) + 1
    BY <2>2
  <2>4. k - 1 \notin out
    BY <2>2, <2>3
  <2>5. QED
    BY <2>2, <2>3, <2>4
<1>2. QED
  BY <1>1

(* Values made in steps, each from the one before. *)
HasSteps(X, x0, L, next) ==
  \E f \in [0 .. L -> X] : f[0] = x0 /\ \A k \in 1 .. L : f[k] = next[<<f[k - 1], k>>]

LEMMA StepsExist ==
  ASSUME NEW X, NEW x0 \in X, NEW L \in Nat, NEW next \in [X \X (1 .. L) -> X]
  PROVE  HasSteps(X, x0, L, next)
<1> DEFINE Made(f, m) == f[0] = x0 /\ \A k \in 1 .. m : f[k] = next[<<f[k - 1], k>>]
           D == {m \in 0 .. L : \E f \in [0 .. m -> X] : Made(f, m)}
<1>1. 0 \in D
  <2> DEFINE f == [k \in 0 .. 0 |-> x0]
  <2>1. f \in [0 .. 0 -> X] /\ f[0] = x0
    OBVIOUS
  <2> HIDE DEF f
  <2>2. \E h \in [0 .. 0 -> X] : Made(h, 0)
    BY <2>1
  <2>3. 0 \in 0 .. L
    OBVIOUS
  <2> HIDE DEF Made
  <2>4. QED
    BY <2>2, <2>3
<1>2. ASSUME NEW m \in 0 .. L - 1, m \in D PROVE m + 1 \in D
  <2>1. PICK f \in [0 .. m -> X] : Made(f, m)
    BY <1>2
  <2> DEFINE g == [k \in 0 .. m + 1 |-> IF k = m + 1 THEN next[<<f[m], m + 1>>] ELSE f[k]]
  <2>2. m \in Nat /\ m + 1 \in 1 .. L /\ f[m] \in X
    OBVIOUS
  <2>3. next[<<f[m], m + 1>>] \in X
    BY <2>2
  <2>4. ASSUME NEW k \in 0 .. m + 1
        PROVE  g[k] \in X /\ (k # m + 1 => g[k] = f[k]) /\ (k = m + 1 => g[k] = next[<<f[m], k>>])
    <3>1. k # m + 1 => k \in 0 .. m
      BY <2>2
    <3>2. QED
      BY <2>3, <3>1
  <2>5. g \in [0 .. m + 1 -> X]
    BY <2>4
  <2> HIDE DEF g
  <2>6. g[0] = x0
    <3>1. 0 \in 0 .. m + 1 /\ 0 # m + 1
      BY <2>2
    <3>2. QED
      BY <2>1, <2>4, <3>1
  <2>7. ASSUME NEW k \in 1 .. m + 1 PROVE g[k] = next[<<g[k - 1], k>>]
    <3>1. k \in 0 .. m + 1 /\ k - 1 \in 0 .. m + 1 /\ k - 1 # m + 1
      BY <2>2
    <3>2. g[k - 1] = f[k - 1]
      BY <2>4, <3>1
    <3>3. CASE k = m + 1
      <4>1. k - 1 = m
        BY <2>2, <3>3
      <4>2. g[k] = next[<<f[m], k>>]
        BY <2>4, <3>1, <3>3
      <4>3. QED
        BY <3>2, <4>1, <4>2
    <3>4. CASE k # m + 1
      <4>1. k \in 1 .. m
        BY <2>2, <3>4
      <4>2. QED
        BY <2>1, <2>4, <3>1, <3>2, <3>4, <4>1
    <3>5. QED
      BY <3>3, <3>4
  <2>8. Made(g, m + 1)
    BY <2>6, <2>7
  <2> HIDE DEF Made
  <2>9. \E h \in [0 .. m + 1 -> X] : Made(h, m + 1)
    BY <2>5, <2>8
  <2>10. m + 1 \in 0 .. L
    BY <2>2
  <2>11. QED
    BY <2>9, <2>10
<1> HIDE DEF D
<1>3. L \in D
  BY <1>1, <1>2, StepByStep
<1>4. QED
  BY <1>3 DEF D, HasSteps

-----------------------------------------------------------------------------
(* ReviewSpans: spans in order, ranges joined from them, the text cut at   *)
(* the ranges.                                                             *)
Spans(n) == (0 .. n) \X (0 .. n)

LEMMA OrderedIs ==
  ASSUME NEW n \in Nat, NEW A \in SUBSET Spans(n)
  PROVE  /\ Ordered(A) \in Seq(A) /\ Len(Ordered(A)) \in Nat
         /\ \A s \in A : \E i \in 1 .. Len(Ordered(A)) : Ordered(A)[i] = s
         /\ \A i, j \in 1 .. Len(Ordered(A)) :
              i <= j => Ordered(A)[i][1] <= Ordered(A)[j][1]
<1> DEFINE R == {x \in A \X A : Precedes(x[1], x[2])}
           m == Cardinality(A)
           at(i) == CHOOSE s \in A : Cardinality({t \in A : Precedes(t, s)}) = i
<1>1. IsFiniteSet(A) /\ m \in Nat
  <2>1. IsFiniteSet(0 .. n)
    BY FS_Interval
  <2>2. IsFiniteSet(Spans(n))
    BY <2>1, FS_Product DEF Spans
  <2>3. IsFiniteSet(A)
    BY <2>2, FS_Subset
  <2>4. QED
    BY <2>3, FS_CardinalityType
<1>2. ASSUME NEW s \in A PROVE s = <<s[1], s[2]>> /\ s[1] \in 0 .. n /\ s[2] \in 0 .. n
  BY DEF Spans
<1>3. Orders(R, A)
  <2>1. ASSUME NEW a \in A, NEW b \in A
        PROVE  /\ Precedes(a, b) \/ Precedes(b, a)
               /\ Precedes(a, b) /\ Precedes(b, a) => a = b
               /\ \A c \in A : Precedes(a, b) /\ Precedes(b, c) => Precedes(a, c)
    BY <1>2 DEF Precedes
  <2>2. QED
    BY <2>1 DEF Orders
<1>4. ASSUME NEW s \in A PROVE Rank(R, A, s) = Cardinality({t \in A : Precedes(t, s)})
  <2>1. {t \in A : <<t, s>> \in R} = {t \in A : Precedes(t, s)}
    OBVIOUS
  <2>2. QED
    BY <2>1 DEF Rank
<1> HIDE DEF R
<1>5. ASSUME NEW i \in 1 .. m PROVE at(i) \in A /\ Rank(R, A, at(i)) = i
  <2>1. PICK s \in A : Rank(R, A, s) = i
    BY <1>1, <1>3, RankTaken
  <2>2. Cardinality({t \in A : Precedes(t, s)}) = i
    BY <1>4, <2>1
  <2>3. at(i) \in A /\ Cardinality({t \in A : Precedes(t, at(i))}) = i
    BY <2>2
  <2> HIDE DEF at
  <2>4. QED
    BY <1>4, <2>3
<1>6. Ordered(A) = [i \in 1 .. m |-> at(i)]
  BY DEF Ordered
<1> HIDE DEF at
<1>7. Ordered(A) \in [1 .. m -> A]
  BY <1>5, <1>6
<1>8. Ordered(A) \in Seq(A) /\ Len(Ordered(A)) = m
  BY <1>1, <1>7, SeqDef, LenProperties
<1>9. ASSUME NEW s \in A PROVE \E i \in 1 .. m : at(i) = s
  <2>1. Rank(R, A, s) \in 1 .. m
    BY <1>1, <1>3, RankIs
  <2>2. at(Rank(R, A, s)) \in A /\ Rank(R, A, at(Rank(R, A, s))) = Rank(R, A, s)
    BY <1>5, <2>1
  <2>3. at(Rank(R, A, s)) = s
    BY <1>1, <1>3, <2>2, RankUnique
  <2>4. QED
    BY <2>1, <2>3
<1>10. ASSUME NEW i \in 1 .. m, NEW j \in 1 .. m, i <= j PROVE at(i)[1] <= at(j)[1]
  <2>1. at(i) \in A /\ Rank(R, A, at(i)) = i /\ at(j) \in A /\ Rank(R, A, at(j)) = j
    BY <1>5
  <2>2. <<at(j), at(i)>> \in R /\ at(i) # at(j) => Rank(R, A, at(j)) < Rank(R, A, at(i))
    BY <1>1, <1>3, <2>1, RankIs
  <2>3. <<at(i), at(j)>> \in R \/ at(i) = at(j)
    BY <1>1, <1>3, <1>10, <2>1, <2>2 DEF Orders
  <2>4. QED
    BY <1>2, <2>1, <2>3 DEF R, Precedes
<1>11. QED
  BY <1>1, <1>6, <1>8, <1>9, <1>10

(* The ranges are apart, in order, and cover what the spans in A cover;    *)
(* no span yet to come starts before the last of them.                     *)
Holds(s, p) == s[1] <= p /\ p < s[2]
Joined(R, A, n) ==
  /\ R \in Seq(Spans(n))
  /\ \A i \in 1 .. Len(R) : R[i][1] < R[i][2]
  /\ \A i, j \in 1 .. Len(R) : i < j => R[i][2] < R[j][1]
  /\ \A p \in 0 .. n : (\E i \in 1 .. Len(R) : Holds(R[i], p)) <=> (\E s \in A : Holds(s, p))
  /\ Len(R) > 0 => \E s \in A : R[Len(R)][1] <= s[1]

LEMMA JoinIs ==
  ASSUME NEW n \in Nat, NEW R \in Seq(Spans(n)), NEW t \in Spans(n)
  PROVE  LET m == Len(R)  J == Join(R, t)
             meets == m > 0 /\ t[1] <= R[m][2]
         IN  /\ m \in Nat /\ J \in Seq(Spans(n))
             /\ meets => /\ Len(J) = m
                         /\ \A i \in 1 .. m - 1 : J[i] = R[i]
                         /\ J[m][1] = R[m][1]
                         /\ J[m][2] = IF t[2] <= R[m][2] THEN R[m][2] ELSE t[2]
             /\ ~ meets => /\ Len(J) = m + 1
                           /\ \A i \in 1 .. m : J[i] = R[i]
                           /\ J[m + 1] = t
<1> DEFINE m == Len(R)
           meets == m > 0 /\ t[1] <= R[m][2]
<1>1. m \in Nat /\ (R # <<>> <=> m > 0) /\ \A i \in 1 .. m : R[i] \in Spans(n)
  <2>1. m \in Nat /\ \A i \in 1 .. m : R[i] \in Spans(n)
    BY LenProperties, ElementOfSeq
  <2>2. R = <<>> <=> m = 0
    BY EmptySeq
  <2>3. QED
    BY <2>1, <2>2
<1>2. CASE meets
  <2> DEFINE high == Max({t[2], R[m][2]})
             last == <<R[m][1], high>>
  <2>1. m \in 1 .. m /\ R[m] \in Spans(n)
    BY <1>1, <1>2
  <2>2. R[m][1] \in 0 .. n /\ R[m][2] \in 0 .. n /\ t[1] \in 0 .. n /\ t[2] \in 0 .. n
    BY <2>1 DEF Spans
  <2>3. high = IF t[2] <= R[m][2] THEN R[m][2] ELSE t[2]
    <3>1. {t[2], R[m][2]} \in SUBSET (0 .. n) /\ {t[2], R[m][2]} # {}
      BY <2>2
    <3>2. high \in {t[2], R[m][2]} /\ \A x \in {t[2], R[m][2]} : x <= high
      BY <3>1, LargestIs
    <3>3. QED
      BY <2>2, <3>2
  <2>4. high \in 0 .. n
    BY <2>2, <2>3
  <2>5. last \in Spans(n) /\ last[1] = R[m][1] /\ last[2] = high
    BY <2>2, <2>4 DEF Spans
  <2> HIDE DEF high, last
  <2>6. Join(R, t) = Append(SubSeq(R, 1, m - 1), last)
    <3>1. R # <<>> /\ t[1] <= R[m][2]
      BY <1>1, <1>2
    <3>2. QED
      BY <3>1 DEF Join, Last, Front, last, high
  <2>7. /\ SubSeq(R, 1, m - 1) \in Seq(Spans(n)) /\ Len(SubSeq(R, 1, m - 1)) = m - 1
        /\ \A i \in 1 .. m - 1 : SubSeq(R, 1, m - 1)[i] = R[i]
    <3>1. m - 1 \in Int /\ 1 \in Int /\ \A i \in 1 .. m - 1 : R[i] \in Spans(n)
      BY <1>1
    <3>2. /\ SubSeq(R, 1, m - 1) \in Seq(Spans(n))
          /\ Len(SubSeq(R, 1, m - 1)) = IF 1 <= m - 1 THEN m - 1 - 1 + 1 ELSE 0
          /\ \A i \in 1 .. m - 1 - 1 + 1 : SubSeq(R, 1, m - 1)[i] = R[1 + i - 1]
      BY <3>1, SubSeqProperties
    <3>3. QED
      <4>1. m - 1 - 1 + 1 = m - 1 /\ (IF 1 <= m - 1 THEN m - 1 - 1 + 1 ELSE 0) = m - 1
        <5>1. m \in Nat /\ m >= 1
          BY <1>1, <1>2
        <5> HIDE DEF m
        <5>2. QED
          BY <5>1
      <4>2. \A i \in 1 .. m - 1 : 1 + i - 1 = i
        BY <1>1
      <4> HIDE DEF m
      <4>3. QED
        BY <3>2, <4>1, <4>2
  <2>8. /\ Join(R, t) \in Seq(Spans(n)) /\ Len(Join(R, t)) = (m - 1) + 1
        /\ \A i \in 1 .. m - 1 : Join(R, t)[i] = SubSeq(R, 1, m - 1)[i]
        /\ Join(R, t)[(m - 1) + 1] = last
    BY <2>5, <2>6, <2>7, AppendProperties
  <2>9. (m - 1) + 1 = m
    BY <1>1
  <2>10. QED
    BY <1>1, <1>2, <2>3, <2>5, <2>7, <2>8, <2>9
<1>3. CASE ~ meets
  <2>1. Join(R, t) = Append(R, t)
    BY <1>1, <1>3 DEF Join, Last
  <2>2. /\ Join(R, t) \in Seq(Spans(n)) /\ Len(Join(R, t)) = m + 1
        /\ \A i \in 1 .. m : Join(R, t)[i] = R[i]
        /\ Join(R, t)[m + 1] = t
    BY <2>1, AppendProperties
  <2>3. QED
    BY <1>1, <1>3, <2>2
<1>4. QED
  BY <1>2, <1>3

LEMMA JoinStep ==
  ASSUME NEW n \in Nat, NEW A \in SUBSET Spans(n), NEW R, Joined(R, A, n),
         NEW t \in Spans(n), t[1] < t[2], \A s \in A : s[1] <= t[1]
  PROVE  Joined(Join(R, t), A \cup {t}, n) /\ Len(Join(R, t)) > 0
<1> DEFINE m == Len(R)
           J == Join(R, t)
           meets == m > 0 /\ t[1] <= R[m][2]
<1>1. R \in Seq(Spans(n))
  BY DEF Joined
<1>2. /\ m \in Nat /\ J \in Seq(Spans(n))
      /\ meets => /\ Len(J) = m
                  /\ \A i \in 1 .. m - 1 : J[i] = R[i]
                  /\ J[m][1] = R[m][1]
                  /\ J[m][2] = IF t[2] <= R[m][2] THEN R[m][2] ELSE t[2]
      /\ ~ meets => /\ Len(J) = m + 1
                    /\ \A i \in 1 .. m : J[i] = R[i]
                    /\ J[m + 1] = t
  BY <1>1, JoinIs
<1>3. /\ \A i \in 1 .. m : R[i][1] \in 0 .. n /\ R[i][2] \in 0 .. n /\ R[i][1] < R[i][2]
      /\ \A i, j \in 1 .. m : i < j => R[i][2] < R[j][1]
      /\ \A p \in 0 .. n : (\E i \in 1 .. m : Holds(R[i], p)) <=> (\E s \in A : Holds(s, p))
      /\ m > 0 => R[m][1] <= t[1]
  <2>1. ASSUME NEW i \in 1 .. m PROVE R[i][1] \in 0 .. n /\ R[i][2] \in 0 .. n
    <3>1. R[i] \in Spans(n)
      BY <1>1, ElementOfSeq
    <3>2. QED
      BY <3>1 DEF Spans
  <2>2. m > 0 => R[m][1] <= t[1]
    <3> SUFFICES ASSUME m > 0 PROVE R[m][1] <= t[1]
      OBVIOUS
    <3>1. PICK s \in A : R[m][1] <= s[1]
      BY DEF Joined
    <3>2. s[1] \in 0 .. n /\ s[1] <= t[1] /\ t[1] \in 0 .. n
      BY DEF Spans
    <3>3. R[m][1] \in 0 .. n
      BY <1>2, <2>1
    <3>4. QED
      BY <3>1, <3>2, <3>3
  <2>3. QED
    BY <2>1, <2>2 DEF Joined
<1>4. t[1] \in 0 .. n /\ t[2] \in 0 .. n
  BY DEF Spans
<1> HIDE DEF J, m
<1>5. CASE meets
  <2>1. m \in 1 .. m /\ m > 0 /\ t[1] <= R[m][2] /\ R[m][1] <= t[1]
    BY <1>2, <1>3, <1>5
  <2>2. \A i \in 1 .. m : J[i][1] = R[i][1] /\ R[i][2] <= J[i][2] /\ (i < m => J[i][2] = R[i][2])
    <3>1. ASSUME NEW i \in 1 .. m
          PROVE  J[i][1] = R[i][1] /\ R[i][2] <= J[i][2] /\ (i < m => J[i][2] = R[i][2])
      <4>1. CASE i = m
        BY <1>2, <1>3, <1>4, <1>5, <4>1
      <4>2. CASE i # m
        <5>1. i \in 1 .. m - 1
          BY <1>2, <4>2
        <5>2. QED
          BY <1>2, <1>3, <1>5, <5>1
      <4>3. QED
        BY <4>1, <4>2
    <3>2. QED
      BY <3>1
  <2>3. \A i \in 1 .. m : J[i][1] \in 0 .. n /\ J[i][2] \in 0 .. n
    <3>1. ASSUME NEW i \in 1 .. m PROVE J[i][1] \in 0 .. n /\ J[i][2] \in 0 .. n
      <4>1. J[i][1] \in 0 .. n /\ R[i][2] \in 0 .. n
        BY <1>3, <2>2
      <4>2. CASE i = m
        <5>1. J[m][2] = IF t[2] <= R[m][2] THEN R[m][2] ELSE t[2]
          BY <1>2, <1>5
        <5>2. QED
          BY <1>4, <4>1, <4>2, <5>1
      <4>3. CASE i # m
        <5>1. J[i][2] = R[i][2]
          BY <1>2, <2>2, <4>3
        <5>2. QED
          BY <4>1, <5>1
      <4>4. QED
        BY <4>2, <4>3
    <3>2. QED
      BY <3>1
  <2>4. \A i \in 1 .. m : J[i][1] < J[i][2]
    BY <1>3, <2>2, <2>3
  <2>5. \A i, j \in 1 .. m : i < j => J[i][2] < J[j][1]
    <3>1. ASSUME NEW i \in 1 .. m, NEW j \in 1 .. m, i < j PROVE J[i][2] < J[j][1]
      <4>1. i < m
        BY <1>2, <3>1
      <4>2. QED
        BY <1>3, <2>2, <3>1, <4>1
    <3>2. QED
      BY <3>1
  <2>6. ASSUME NEW p \in 0 .. n
        PROVE  (\E i \in 1 .. m : Holds(J[i], p)) <=> (\E s \in A \cup {t} : Holds(s, p))
    <3>1. Holds(J[m], p) <=> Holds(R[m], p) \/ Holds(t, p)
      BY <1>2, <1>3, <1>4, <1>5, <2>1 DEF Holds
    <3>2. \A i \in 1 .. m : i # m => (Holds(J[i], p) <=> Holds(R[i], p))
      BY <1>2, <2>2 DEF Holds
    <3>3. (\E i \in 1 .. m : Holds(J[i], p)) <=> (\E i \in 1 .. m : Holds(R[i], p)) \/ Holds(t, p)
      BY <2>1, <3>1, <3>2
    <3>4. QED
      BY <1>3, <3>3
  <2>7. J[m][1] <= t[1]
    BY <2>1, <2>2
  <2>8. QED
    BY <1>2, <1>5, <2>1, <2>4, <2>5, <2>6, <2>7 DEF Joined, J
<1>6. CASE ~ meets
  <2>1. Len(J) = m + 1 /\ J[m + 1] = t /\ \A i \in 1 .. m : J[i] = R[i]
    BY <1>2, <1>6
  <2>2. \A i \in 1 .. m : R[i][2] < t[1]
    <3>1. ASSUME NEW i \in 1 .. m PROVE R[i][2] < t[1]
      <4>1. m \in 1 .. m /\ R[m][2] < t[1]
        BY <1>2, <1>3, <1>4, <1>6
      <4>2. CASE i = m
        BY <4>1, <4>2
      <4>3. CASE i # m
        <5>1. i < m
          BY <1>2, <4>3
        <5>2. R[i][2] < R[m][1] /\ R[m][1] < R[m][2]
          BY <1>3, <4>1, <5>1
        <5>3. QED
          BY <1>3, <1>4, <4>1, <5>2
      <4>4. QED
        BY <4>2, <4>3
    <3>2. QED
      BY <3>1
  <2>3. \A i \in 1 .. m + 1 : i = m + 1 \/ i \in 1 .. m
    BY <1>2
  <2>4. m + 1 \in 1 .. m + 1 /\ \A i \in 1 .. m : i \in 1 .. m + 1
    BY <1>2
  <2>5. \A i \in 1 .. m + 1 : J[i][1] < J[i][2]
    BY <1>3, <2>1, <2>3
  <2>6. \A i, j \in 1 .. m + 1 : i < j => J[i][2] < J[j][1]
    <3>1. ASSUME NEW i \in 1 .. m + 1, NEW j \in 1 .. m + 1, i < j PROVE J[i][2] < J[j][1]
      <4>1. i \in 1 .. m
        BY <1>2, <3>1
      <4>2. QED
        BY <1>3, <2>1, <2>2, <2>3, <3>1, <4>1
    <3>2. QED
      BY <3>1
  <2>7. ASSUME NEW p \in 0 .. n
        PROVE  (\E i \in 1 .. m + 1 : Holds(J[i], p)) <=> (\E s \in A \cup {t} : Holds(s, p))
    <3>1. (\E i \in 1 .. m + 1 : Holds(J[i], p)) <=> (\E i \in 1 .. m : Holds(R[i], p)) \/ Holds(t, p)
      BY <2>1, <2>3, <2>4
    <3>2. QED
      BY <1>3, <3>1
  <2>8. J[m + 1][1] <= t[1]
    BY <1>4, <2>1
  <2>9. m + 1 > 0
    BY <1>2
  <2>10. QED
    BY <1>2, <2>1, <2>5, <2>6, <2>7, <2>8, <2>9 DEF Joined, J
<1>7. QED
  BY <1>5, <1>6

(* What redact joins from the approved spans.  A is their set. *)
LEMMA RangesIs ==
  ASSUME NEW n \in Nat, NEW A \in SUBSET Spans(n), \A s \in A : s[1] < s[2],
         NEW approved, A = {<<f.start, f.end>> : f \in approved}
  PROVE  Joined(Ranges(approved), A, n)
<1> DEFINE X == Seq(Spans(n))
           spans == Ordered(A)
           L == Len(spans)
           Is(f) == f = [k \in 0 .. L |-> IF k = 0 THEN <<>> ELSE Join(f[k - 1], spans[k])]
           next == [x \in X \X (1 .. L) |-> Join(x[1], spans[x[2]])]
           joined == CHOOSE f : Is(f)
           upto(k) == {spans[i] : i \in 1 .. k}
           D == {k \in 0 .. L : Joined(joined[k], upto(k), n)}
<1>1. /\ L \in Nat /\ \A i \in 1 .. L : spans[i] \in A
      /\ \A s \in A : \E i \in 1 .. L : spans[i] = s
      /\ \A i, j \in 1 .. L : i <= j => spans[i][1] <= spans[j][1]
  <2>1. /\ Ordered(A) \in Seq(A) /\ Len(Ordered(A)) \in Nat
        /\ \A s \in A : \E i \in 1 .. Len(Ordered(A)) : Ordered(A)[i] = s
        /\ \A i, j \in 1 .. Len(Ordered(A)) :
             i <= j => Ordered(A)[i][1] <= Ordered(A)[j][1]
    BY OrderedIs
  <2>2. \A i \in 1 .. Len(Ordered(A)) : Ordered(A)[i] \in A
    BY <2>1, ElementOfSeq
  <2>3. QED
    BY <2>1, <2>2
<1>2. Ranges(approved) = joined[L]
  BY DEF Ranges
<1> HIDE DEF spans, L
<1>3. \E f : Is(f)
  <2>1. <<>> \in X
    OBVIOUS
  <2>2. \A x \in X, k \in 1 .. L : Join(x, spans[k]) \in X
    <3>1. ASSUME NEW x \in X, NEW k \in 1 .. L PROVE Join(x, spans[k]) \in X
      <4>1. spans[k] \in Spans(n)
        BY <1>1
      <4>2. QED
        BY <4>1, JoinIs
    <3>2. QED
      BY <3>1
  <2> HIDE DEF X
  <2>3. next \in [X \X (1 .. L) -> X]
    BY <2>2
  <2> HIDE DEF next
  <2>4. PICK f \in [0 .. L -> X] : f[0] = <<>> /\ \A k \in 1 .. L : f[k] = next[<<f[k - 1], k>>]
    <3>1. L \in Nat
      BY <1>1
    <3>2. HasSteps(X, <<>>, L, next)
      BY <2>1, <2>3, <3>1, StepsExist
    <3>3. QED
      BY <3>2 DEF HasSteps
  <2>5. ASSUME NEW k \in 1 .. L PROVE f[k] = Join(f[k - 1], spans[k])
    <3>1. k - 1 \in 0 .. L
      BY <1>1
    <3>2. f[k - 1] \in X
      BY <3>1
    <3>3. QED
      BY <2>4, <3>2 DEF next
  <2>6. \A k \in 0 .. L : f[k] = IF k = 0 THEN <<>> ELSE Join(f[k - 1], spans[k])
    <3>1. \A k \in 0 .. L : k # 0 => k \in 1 .. L
      BY <1>1
    <3>2. QED
      BY <2>4, <2>5, <3>1
  <2>7. Is(f)
    BY <2>6
  <2> HIDE DEF Is
  <2>8. QED
    BY <2>7
<1>4. Is(joined)
  BY <1>3
<1> HIDE DEF joined
<1>5. joined[0] = <<>> /\ \A k \in 0 .. L - 1 : joined[k + 1] = Join(joined[k], spans[k + 1])
  <2>1. 0 \in 0 .. L
    BY <1>1
  <2>2. joined[0] = <<>>
    BY <1>4, <2>1
  <2>3. ASSUME NEW k \in 0 .. L - 1 PROVE joined[k + 1] = Join(joined[k], spans[k + 1])
    <3>1. k + 1 \in 0 .. L /\ k + 1 # 0 /\ (k + 1) - 1 = k
      BY <1>1
    <3>2. joined[k + 1] = IF k + 1 = 0 THEN <<>> ELSE Join(joined[(k + 1) - 1], spans[k + 1])
      BY <1>4, <3>1
    <3>3. QED
      BY <3>1, <3>2
  <2>4. QED
    BY <2>2, <2>3
<1>6. 0 \in D
  <2>1. 0 \in 0 .. L /\ upto(0) = {}
    BY <1>1
  <2> HIDE DEF upto
  <2>2. Len(<<>>) = 0 /\ <<>> \in Seq(Spans(n)) /\ 1 .. 0 = {}
    OBVIOUS
  <2>3. Joined(<<>>, {}, n)
    BY <2>2 DEF Joined
  <2>4. QED
    BY <1>5, <2>1, <2>3
<1>7. ASSUME NEW k \in 0 .. L - 1, k \in D PROVE k + 1 \in D
  <2>1. k + 1 \in 0 .. L /\ k + 1 \in 1 .. L
    BY <1>1
  <2>2. upto(k + 1) = upto(k) \cup {spans[k + 1]}
    <3>1. \A i : i \in 1 .. k + 1 <=> i \in 1 .. k \/ i = k + 1
      OBVIOUS
    <3>2. QED
      BY <3>1
  <2>3. upto(k) \in SUBSET Spans(n)
    BY <1>1
  <2>4. \A s \in upto(k) : s[1] <= spans[k + 1][1]
    <3>1. ASSUME NEW i \in 1 .. k PROVE spans[i][1] <= spans[k + 1][1]
      <4>1. i \in 1 .. L /\ i <= k + 1
        BY <1>1, <2>1
      <4>2. QED
        BY <1>1, <2>1, <4>1
    <3>2. QED
      BY <3>1
  <2>5. spans[k + 1] \in Spans(n) /\ spans[k + 1][1] < spans[k + 1][2]
    BY <1>1, <2>1
  <2>6. Joined(joined[k], upto(k), n)
    BY <1>7
  <2> HIDE DEF upto
  <2>7. Joined(Join(joined[k], spans[k + 1]), upto(k) \cup {spans[k + 1]}, n)
    BY <2>3, <2>4, <2>5, <2>6, JoinStep
  <2>8. QED
    BY <1>5, <2>1, <2>2, <2>7
<1> HIDE DEF D
<1>8. L \in D
  <2>1. L \in 0 .. L
    BY <1>1
  <2>2. \A k \in 0 .. L : k \in D
    BY <1>1, <1>6, <1>7, StepByStep
  <2>3. QED
    BY <2>1, <2>2
<1>9. upto(L) = A
  BY <1>1
<1>10. QED
  BY <1>2, <1>8, <1>9 DEF D

LEMMA BetweenIs ==
  ASSUME NEW V, text \in Seq(V), NEW a \in 0 .. Len(text), NEW b \in 0 .. Len(text)
  PROVE  /\ Between(a, b) \in Seq(V)
         /\ Len(Between(a, b)) = IF a <= b THEN b - a ELSE 0
         /\ \A i \in 1 .. b - a : Between(a, b)[i] = text[a + i]
<1>1. Len(text) \in Nat /\ a + 1 \in Int /\ b \in Int
  BY LenProperties
<1>2. \A i \in a + 1 .. b : text[i] \in V
  <2>1. ASSUME NEW i \in a + 1 .. b PROVE text[i] \in V
    <3>1. i \in 1 .. Len(text)
      BY <1>1
    <3>2. QED
      BY <3>1, ElementOfSeq
  <2>2. QED
    BY <2>1
<1>3. /\ SubSeq(text, a + 1, b) \in Seq(V)
      /\ Len(SubSeq(text, a + 1, b)) = IF a + 1 <= b THEN b - (a + 1) + 1 ELSE 0
      /\ \A i \in 1 .. b - (a + 1) + 1 : SubSeq(text, a + 1, b)[i] = text[a + 1 + i - 1]
  BY <1>1, <1>2, SubSeqProperties
<1>4. /\ b - (a + 1) + 1 = b - a /\ \A i \in 1 .. b - a : a + 1 + i - 1 = a + i
      /\ (IF a + 1 <= b THEN b - (a + 1) + 1 ELSE 0) = IF a <= b THEN b - a ELSE 0
  BY <1>1
<1>5. QED
  BY <1>3, <1>4 DEF Between

(* What RedactionExact says of the draft, for a set of removed places. *)
Gone(A) == {p \in 0 .. Len(text) - 1 : \E s \in A : Holds(s, p)}
Char(gone) == [p \in 0 .. Len(text) - 1 |-> IF p \in gone THEN Redacted ELSE text[p + 1]]
Shown(gone) == {p \in 0 .. Len(text) - 1 : p \notin gone \/ p - 1 \notin gone}
ShownBefore(gone, c) == {p \in Shown(gone) : p < c}
Cursor(R, k) == IF k = 0 THEN 0 ELSE R[k][2]

(* Between two ranges everything is shown; of a range only its first place. *)
LEMMA CursorIs ==
  ASSUME Len(text) \in Nat, NEW A, NEW R, Joined(R, A, Len(text)), NEW k \in 0 .. Len(R)
  PROVE  /\ Len(R) \in Nat /\ Cursor(R, k) \in 0 .. Len(text)
         /\ k < Len(R) =>
              /\ R[k + 1] \in Spans(Len(text))
              /\ Cursor(R, k) <= R[k + 1][1] /\ R[k + 1][1] < R[k + 1][2]
              /\ \A p \in Cursor(R, k) .. R[k + 1][1] - 1 : p \notin Gone(A)
              /\ R[k + 1][1] \in Gone(A)
              /\ ShownBefore(Gone(A), R[k + 1][2])
                   = ShownBefore(Gone(A), Cursor(R, k)) \cup (Cursor(R, k) .. R[k + 1][1])
         /\ k = Len(R) =>
              /\ \A p \in Cursor(R, k) .. Len(text) - 1 : p \notin Gone(A)
              /\ Shown(Gone(A)) = ShownBefore(Gone(A), Cursor(R, k)) \cup (Cursor(R, k) .. Len(text) - 1)
<1> DEFINE n == Len(text)
           m == Len(R)
           c == Cursor(R, k)
           G == Gone(A)
<1>1. /\ m \in Nat
      /\ \A i \in 1 .. m : /\ R[i] \in Spans(n) /\ R[i][1] \in 0 .. n /\ R[i][2] \in 0 .. n
                           /\ R[i][1] < R[i][2]
      /\ \A i, j \in 1 .. m : i < j => R[i][2] < R[j][1]
  <2>1. R \in Seq(Spans(n))
    BY DEF Joined
  <2>2. m \in Nat /\ \A i \in 1 .. m : R[i] \in Spans(n)
    BY <2>1, LenProperties, ElementOfSeq
  <2>3. QED
    BY <2>2 DEF Joined, Spans
<1>2. \A p \in 0 .. n - 1 : p \in G <=> \E i \in 1 .. m : Holds(R[i], p)
  <2>1. ASSUME NEW p \in 0 .. n - 1 PROVE p \in G <=> \E i \in 1 .. m : Holds(R[i], p)
    <3>1. p \in 0 .. n
      OBVIOUS
    <3>2. QED
      BY <3>1 DEF Joined, Gone
  <2>2. QED
    BY <2>1
<1> HIDE DEF n, m, G
<1>3. c \in 0 .. n
  <2>1. CASE k = 0
    BY <2>1 DEF Cursor, n
  <2>2. CASE k # 0
    <3>1. k \in 1 .. m
      BY <1>1, <2>2 DEF m
    <3>2. QED
      BY <1>1, <2>2, <3>1 DEF Cursor
  <2>3. QED
    BY <2>1, <2>2
<1>4. \A i \in 1 .. k : R[i][2] <= c
  <2>1. ASSUME NEW i \in 1 .. k PROVE R[i][2] <= c
    <3>1. k \in 1 .. m /\ i \in 1 .. m /\ c = R[k][2]
      BY <1>1 DEF m, Cursor
    <3>2. CASE i = k
      BY <1>1, <3>1, <3>2
    <3>3. CASE i # k
      <4>1. R[i][2] < R[k][1] /\ R[k][1] < R[k][2]
        BY <1>1, <3>1, <3>3
      <4> HIDE DEF c
      <4>2. QED
        BY <1>1, <3>1, <4>1
    <3>4. QED
      BY <3>2, <3>3
  <2>2. QED
    BY <2>1
<1>5. k = m \/ k + 1 \in 1 .. m
  BY <1>1 DEF m
<1>6. k \in Nat /\ k <= m /\ n \in Nat
  BY <1>1 DEF m, n
<1>7. ASSUME k + 1 \in 1 .. m
      PROVE  /\ R[k + 1] \in Spans(n) /\ c <= R[k + 1][1] /\ R[k + 1][1] < R[k + 1][2]
             /\ \A p \in c .. R[k + 1][1] - 1 : p \notin G
             /\ \A p \in R[k + 1][1] .. R[k + 1][2] - 1 : p \in G
             /\ R[k + 1][1] > 0 => R[k + 1][1] - 1 \notin G
             /\ R[k + 1][1] \in 0 .. n - 1 /\ R[k + 1][2] \in 0 .. n
  <2> DEFINE r == R[k + 1]
  <2>1. r \in Spans(n) /\ r[1] \in 0 .. n /\ r[2] \in 0 .. n /\ r[1] < r[2]
    BY <1>1, <1>7
  <2>2. c <= r[1] /\ (r[1] > 0 => k = 0 \/ c < r[1])
    <3>1. CASE k = 0
      BY <2>1, <3>1 DEF Cursor
    <3>2. CASE k # 0
      <4>1. k \in 1 .. m /\ k < k + 1 /\ c = R[k][2]
        BY <1>6, <1>7, <3>2 DEF Cursor
      <4>2. R[k][2] < r[1] /\ R[k][2] \in 0 .. n
        BY <1>1, <1>7, <4>1
      <4> HIDE DEF c, r
      <4>3. QED
        BY <2>1, <4>1, <4>2
    <3>3. QED
      BY <3>1, <3>2
  <2>3. \A i \in 1 .. m : i \in 1 .. k \/ r[1] <= R[i][1]
    <3>1. ASSUME NEW i \in 1 .. m, ~ (i \in 1 .. k) PROVE r[1] <= R[i][1]
      <4>1. i = k + 1 \/ k + 1 < i
        BY <1>6, <3>1
      <4>2. CASE k + 1 < i
        <5>1. r[2] < R[i][1] /\ R[i][1] \in 0 .. n
          BY <1>1, <1>7, <4>2
        <5> HIDE DEF r
        <5>2. QED
          BY <2>1, <5>1
      <4>3. QED
        BY <2>1, <4>1, <4>2
    <3>2. QED
      BY <3>1
  <2>4. ASSUME NEW p \in 0 .. n - 1, c <= p, p < r[1] PROVE p \notin G
    <3>1. ASSUME NEW i \in 1 .. m, Holds(R[i], p) PROVE FALSE
      <4>1. R[i][1] <= p /\ p < R[i][2] /\ R[i][1] \in 0 .. n /\ R[i][2] \in 0 .. n
        BY <1>1, <3>1 DEF Holds
      <4>2. i \in 1 .. k => R[i][2] <= c
        BY <1>4
      <4> HIDE DEF r, c
      <4>3. QED
        BY <1>3, <2>1, <2>3, <2>4, <4>1, <4>2
    <3>2. QED
      BY <1>2, <3>1
  <2>5. ASSUME NEW p \in 0 .. n - 1, r[1] <= p, p < r[2] PROVE p \in G
    <3>1. Holds(r, p)
      BY <2>5 DEF Holds
    <3>2. QED
      BY <1>2, <1>7, <3>1
  <2> HIDE DEF r, c
  <2>6. \A p \in c .. r[1] - 1 : p \notin G
    BY <1>3, <1>6, <2>1, <2>4
  <2>7. \A p \in r[1] .. r[2] - 1 : p \in G
    BY <1>6, <2>1, <2>5
  <2>8. r[1] > 0 => r[1] - 1 \notin G
    <3> SUFFICES ASSUME r[1] > 0 PROVE r[1] - 1 \notin G
      OBVIOUS
    <3>1. CASE k = 0
      <4>1. c = 0
        BY <3>1 DEF c, Cursor
      <4>2. QED
        BY <1>6, <2>1, <2>6, <4>1
    <3>2. CASE k # 0
      BY <1>3, <1>6, <2>1, <2>2, <2>6, <3>2
    <3>3. QED
      BY <3>1, <3>2
  <2>9. r[1] \in 0 .. n - 1
    BY <1>6, <2>1
  <2>10. QED
    BY <2>1, <2>2, <2>6, <2>7, <2>8, <2>9 DEF r
<1>8. ASSUME k = m PROVE \A p \in c .. n - 1 : p \notin G
  <2>1. ASSUME NEW p \in c .. n - 1 PROVE p \notin G
    <3>1. p \in 0 .. n - 1 /\ c <= p
      <4> HIDE DEF c
      <4>1. QED
        BY <1>3, <1>6
    <3>2. ASSUME NEW i \in 1 .. m, Holds(R[i], p) PROVE FALSE
      <4>1. R[i][2] <= c /\ p < R[i][2] /\ R[i][2] \in 0 .. n
        BY <1>1, <1>4, <1>8, <3>2 DEF Holds
      <4> HIDE DEF c
      <4>2. QED
        BY <1>3, <3>1, <4>1
    <3>3. QED
      BY <1>2, <3>1, <3>2
  <2>2. QED
    BY <2>1
<1>9. ASSUME k + 1 \in 1 .. m
      PROVE  ShownBefore(G, R[k + 1][2]) = ShownBefore(G, c) \cup (c .. R[k + 1][1])
  <2> DEFINE a == R[k + 1][1]
             b == R[k + 1][2]
  <2>1. /\ c <= a /\ a < b /\ a \in 0 .. n - 1 /\ b \in 0 .. n
        /\ \A p \in c .. a - 1 : p \notin G
        /\ \A p \in a .. b - 1 : p \in G
        /\ a > 0 => a - 1 \notin G
    BY <1>7, <1>9
  <2>2. -1 \notin G
    BY <1>6 DEF G, Gone, n
  <2> HIDE DEF a, b, c
  <2>3. ASSUME NEW p \in 0 .. n - 1
        PROVE  (p \notin G \/ p - 1 \notin G) /\ p < b
                 <=> ((p \notin G \/ p - 1 \notin G) /\ p < c) \/ p \in c .. a
    <3>1. CASE p < c
      BY <1>3, <1>6, <2>1, <3>1
    <3>2. CASE c <= p /\ p < a
      BY <1>3, <1>6, <2>1, <3>2
    <3>3. CASE p = a
      BY <1>3, <1>6, <2>1, <2>2, <3>3
    <3>4. CASE a < p /\ p < b
      BY <1>3, <1>6, <2>1, <3>4
    <3>5. CASE b <= p
      BY <1>3, <1>6, <2>1, <3>5
    <3>6. QED
      BY <1>3, <1>6, <2>1, <3>1, <3>2, <3>3, <3>4, <3>5
  <2>4. c .. a \subseteq 0 .. n - 1
    BY <1>3, <1>6, <2>1
  <2>5. ShownBefore(G, b) = ShownBefore(G, c) \cup (c .. a)
    BY <2>3, <2>4 DEF ShownBefore, Shown, n
  <2>6. QED
    BY <2>5 DEF a, b
<1>10. ASSUME k = m PROVE Shown(G) = ShownBefore(G, c) \cup (c .. n - 1)
  <2>1. ASSUME NEW p \in 0 .. n - 1
        PROVE  (p \notin G \/ p - 1 \notin G)
                 <=> ((p \notin G \/ p - 1 \notin G) /\ p < c) \/ p \in c .. n - 1
    <3>1. p \in c .. n - 1 <=> ~ (p < c)
      <4> HIDE DEF c
      <4>1. QED
        BY <1>3, <1>6
    <3>2. QED
      BY <1>8, <1>10, <3>1
  <2>2. c .. n - 1 \subseteq 0 .. n - 1
    <3> HIDE DEF c
    <3>1. QED
      BY <1>3, <1>6
  <2>3. QED
    BY <2>1, <2>2 DEF ShownBefore, Shown, n
<1>11. ASSUME k + 1 \in 1 .. m PROVE R[k + 1][1] \in G
  <2>1. R[k + 1][1] \in R[k + 1][1] .. R[k + 1][2] - 1
    BY <1>7, <1>11, <1>6
  <2>2. QED
    BY <1>7, <1>11, <2>1
<1>12. QED
  BY <1>1, <1>3, <1>5, <1>6, <1>7, <1>8, <1>9, <1>10, <1>11 DEF n, m, G

Regroups(V) == \A s0, s1, s2 \in Seq(V) : (s0 \o s1) \o s2 = s0 \o (s1 \o s2)
LEMMA Regroup == ASSUME NEW V PROVE Regroups(V)
BY ConcatAssociative DEF Regroups

(* The next piece of the draft: what stands between two ranges, and a      *)
(* marker for the second of them.                                          *)
LEMMA CutMore ==
  ASSUME NEW V, Redacted \in V, text \in Seq(V),
         NEW A, NEW R, Joined(R, A, Len(text)), NEW k \in 0 .. Len(R) - 1,
         NEW cut, cut.cursor = Cursor(R, k), cut.text \in Seq(V),
         cut.text = Picked(Char(Gone(A)), ShownBefore(Gone(A), Cursor(R, k)))
  PROVE  /\ CutStep(cut, R[k + 1]).cursor = Cursor(R, k + 1)
         /\ CutStep(cut, R[k + 1]).text
              = Picked(Char(Gone(A)), ShownBefore(Gone(A), Cursor(R, k + 1)))
         /\ CutStep(cut, R[k + 1]).text \in Seq(V)
<1> DEFINE n == Len(text)
           G == Gone(A)
           c == Cursor(R, k)
           r == R[k + 1]
           P == ShownBefore(G, c)
           piece == Between(c, r[1]) \o <<Redacted>>
<1>1. n \in Nat
  BY LenProperties
<1>2. /\ c \in 0 .. n /\ r \in Spans(n) /\ c <= r[1] /\ r[1] < r[2]
      /\ \A p \in c .. r[1] - 1 : p \notin G
      /\ r[1] \in G
      /\ ShownBefore(G, r[2]) = P \cup (c .. r[1])
  <2>1. k \in 0 .. Len(R) /\ (Len(R) \in Nat => k < Len(R))
    OBVIOUS
  <2>2. Len(R) \in Nat
    BY <1>1, <2>1, CursorIs
  <2>3. QED
    BY <1>1, <2>1, <2>2, CursorIs
<1>3. r[1] \in 0 .. n /\ r[2] \in 0 .. n
  BY <1>2 DEF Spans
<1>4. Cursor(R, k + 1) = r[2]
  BY DEF Cursor
<1>5. /\ CutStep(cut, r).cursor = r[2]
      /\ CutStep(cut, r).text = cut.text \o Between(c, r[1]) \o <<Redacted>>
  BY DEF CutStep
<1> HIDE DEF n, c, r, P
<1>6. /\ Between(c, r[1]) \in Seq(V) /\ Len(Between(c, r[1])) = r[1] - c
      /\ \A i \in 1 .. r[1] - c : Between(c, r[1])[i] = text[c + i]
  <2>1. /\ Between(c, r[1]) \in Seq(V)
        /\ Len(Between(c, r[1])) = IF c <= r[1] THEN r[1] - c ELSE 0
        /\ \A i \in 1 .. r[1] - c : Between(c, r[1])[i] = text[c + i]
    BY <1>2, <1>3, BetweenIs DEF n
  <2>2. QED
    BY <1>2, <2>1
<1>7. /\ <<Redacted>> \in Seq(V) /\ Len(<<Redacted>>) = 1 /\ <<Redacted>>[1] = Redacted
  OBVIOUS
<1>8. CutStep(cut, r).text = cut.text \o piece
  <2>1. Regroups(V)
    BY Regroup
  <2>2. (cut.text \o Between(c, r[1])) \o <<Redacted>> = cut.text \o (Between(c, r[1]) \o <<Redacted>>)
    BY <1>6, <1>7, <2>1 DEF Regroups
  <2>3. QED
    BY <1>5, <2>2
<1>9. /\ piece \in Seq(V) /\ Len(piece) = r[1] - c + 1
      /\ \A i \in 1 .. r[1] - c : piece[i] = text[c + i]
      /\ piece[r[1] - c + 1] = Redacted
  <2> DEFINE s1 == Between(c, r[1])
             s2 == <<Redacted>>
             d == r[1] - c
  <2>1. s1 \in Seq(V) /\ s2 \in Seq(V) /\ Len(s1) = d /\ Len(s2) = 1 /\ s2[1] = Redacted
    BY <1>6, <1>7
  <2> HIDE DEF s1, s2
  <2>2. /\ s1 \o s2 \in Seq(V) /\ Len(s1 \o s2) = Len(s1) + Len(s2)
        /\ \A i \in 1 .. Len(s1) + Len(s2) : (s1 \o s2)[i] =
                    IF i <= Len(s1) THEN s1[i] ELSE s2[i - Len(s1)]
    BY <2>1, ConcatProperties
  <2>3. d \in Nat
    BY <1>2, <1>3
  <2> HIDE DEF d
  <2>4. /\ Len(s1 \o s2) = d + 1
        /\ \A i \in 1 .. d : (s1 \o s2)[i] = s1[i]
        /\ (s1 \o s2)[d + 1] = Redacted
    <3>1. \A i \in 1 .. d : i \in 1 .. d + 1 /\ i <= d
      BY <2>3
    <3>2. d + 1 \in 1 .. d + 1 /\ ~ (d + 1 <= d) /\ (d + 1) - d = 1
      BY <2>3
    <3>3. QED
      BY <2>1, <2>2, <3>1, <3>2
  <2>5. \A i \in 1 .. d : s1[i] = text[c + i]
    BY <1>6 DEF s1, d
  <2>6. QED
    BY <2>2, <2>4, <2>5 DEF s1, s2, d
<1>10. piece = [i \in 1 .. r[1] - c + 1 |-> Char(G)[c + i - 1]]
  <2> DEFINE d == r[1] - c
  <2>1. d \in Nat /\ r[1] = c + d /\ r[1] < n
    BY <1>1, <1>2, <1>3
  <2>2. ASSUME NEW i \in 1 .. d + 1 PROVE piece[i] = Char(G)[c + i - 1]
    <3>1. c + i - 1 \in 0 .. n - 1
      BY <1>1, <1>2, <2>1
    <3>2. CASE i = d + 1
      <4>1. c + i - 1 = r[1]
        BY <1>2, <1>3, <3>2
      <4>2. QED
        BY <1>2, <1>9, <3>1, <3>2, <4>1 DEF Char, n
    <3>3. CASE i # d + 1
      <4>1. i \in 1 .. d /\ c + i - 1 \in c .. r[1] - 1 /\ (c + i - 1) + 1 = c + i
        <5>1. i \in 1 .. d
          BY <2>1, <3>3
        <5> HIDE DEF d
        <5>2. QED
          BY <1>1, <1>2, <1>3, <2>1, <5>1
      <4>2. QED
        BY <1>2, <1>9, <3>1, <4>1 DEF Char, n
    <3>4. QED
      BY <3>2, <3>3
  <2>3. piece = [i \in 1 .. Len(piece) |-> piece[i]]
    BY <1>9
  <2> HIDE DEF piece
  <2>4. QED
    BY <1>9, <2>2, <2>3
<1>11. P \in SUBSET Nat /\ IsFiniteSet(P) /\ \A p \in P : p < c
  <2>1. P \in SUBSET (0 .. n - 1)
    BY DEF P, ShownBefore, Shown, n
  <2>2. IsFiniteSet(0 .. n - 1)
    <3>1. n - 1 \in Int /\ 0 \in Int
      BY <1>1
    <3>2. QED
      BY <3>1, FS_Interval
  <2>3. IsFiniteSet(P)
    BY <2>1, <2>2, FS_Subset
  <2>4. QED
    BY <2>1, <2>3 DEF P, ShownBefore
<1>12. Picked(Char(G), P \cup (c .. r[1])) = Picked(Char(G), P) \o piece
  <2> DEFINE d == r[1] - c + 1
             s == Char(G)
  <2>1. d \in Nat /\ c \in Nat /\ c + d - 1 = r[1]
    BY <1>2, <1>3
  <2> HIDE DEF d, s
  <2>2. Picked(s, P \cup (c .. c + d - 1)) = Picked(s, P) \o Stretch(s, c, d)
    BY <1>11, <2>1, PickedMore
  <2>3. Stretch(s, c, d) = piece
    BY <1>10 DEF Stretch, d, s
  <2>4. QED
    BY <2>1, <2>2, <2>3 DEF s
<1>13. CutStep(cut, r).text = Picked(Char(G), ShownBefore(G, r[2]))
  BY <1>2, <1>8, <1>12 DEF P, c
<1>14. CutStep(cut, r).text \in Seq(V)
  <2> HIDE DEF piece
  <2>1. QED
    BY <1>8, <1>9, ConcatProperties
<1>15. QED
  BY <1>4, <1>5, <1>13, <1>14 DEF r

(* What redact writes, for the ranges R of the spans in A. *)
LEMMA DerivativeIs ==
  ASSUME NEW V, Redacted \in V, text \in Seq(V),
         NEW A, NEW R, Joined(R, A, Len(text))
  PROVE  Derivative(R) = Picked(Char(Gone(A)), Shown(Gone(A)))
<1> DEFINE n == Len(text)
           L == Len(R)
           G == Gone(A)
           X == [text : Seq(V), cursor : 0 .. n]
           x0 == [text |-> <<>>, cursor |-> 0]
           Is(f) == f = [k \in 0 .. L |-> IF k = 0 THEN x0 ELSE CutStep(f[k - 1], R[k])]
           next == [x \in X \X (1 .. L) |-> CutStep(x[1], R[x[2]])]
           cut == CHOOSE f : Is(f)
           Fine(x, k) == /\ x.cursor = Cursor(R, k) /\ x.text \in Seq(V)
                         /\ x.text = Picked(Char(G), ShownBefore(G, Cursor(R, k)))
           D == {k \in 0 .. L : Fine(cut[k], k)}
<1>1. n \in Nat /\ L \in Nat
  <2>1. R \in Seq(Spans(Len(text)))
    BY DEF Joined
  <2>2. QED
    BY <2>1, LenProperties
<1>2. Derivative(R) = cut[L].text \o Between(cut[L].cursor, n)
  BY DEF Derivative
<1>3. \E f : Is(f)
  <2>1. x0 \in X
    BY <1>1
  <2>2. ASSUME NEW x \in X, NEW k \in 1 .. L PROVE CutStep(x, R[k]) \in X
    <3>1. R[k][1] \in 0 .. n /\ R[k][2] \in 0 .. n
      <4>1. R[k] \in Spans(n)
        BY ElementOfSeq DEF Joined
      <4>2. QED
        BY <4>1 DEF Spans
    <3>2. x.text \in Seq(V) /\ x.cursor \in 0 .. n
      OBVIOUS
    <3>3. Between(x.cursor, R[k][1]) \in Seq(V)
      BY <3>1, <3>2, BetweenIs
    <3>4. <<Redacted>> \in Seq(V)
      OBVIOUS
    <3>5. x.text \o Between(x.cursor, R[k][1]) \o <<Redacted>> \in Seq(V)
      BY <3>2, <3>3, <3>4, ConcatProperties
    <3>6. QED
      BY <3>1, <3>5 DEF CutStep
  <2> HIDE DEF X, x0
  <2>3. next \in [X \X (1 .. L) -> X]
    BY <2>2
  <2> HIDE DEF next
  <2>4. PICK f \in [0 .. L -> X] : f[0] = x0 /\ \A k \in 1 .. L : f[k] = next[<<f[k - 1], k>>]
    <3>1. L \in Nat
      BY <1>1
    <3> HIDE DEF L
    <3>2. HasSteps(X, x0, L, next)
      BY <2>1, <2>3, <3>1, StepsExist
    <3>3. QED
      BY <3>2 DEF HasSteps
  <2>5. ASSUME NEW k \in 1 .. L PROVE f[k] = CutStep(f[k - 1], R[k])
    <3>1. k - 1 \in 0 .. L
      BY <1>1
    <3>2. f[k - 1] \in X
      BY <3>1
    <3>3. QED
      BY <2>4, <3>2 DEF next
  <2>6. \A k \in 0 .. L : f[k] = IF k = 0 THEN x0 ELSE CutStep(f[k - 1], R[k])
    <3>1. \A k \in 0 .. L : k # 0 => k \in 1 .. L
      BY <1>1
    <3>2. QED
      BY <2>4, <2>5, <3>1
  <2>7. Is(f)
    BY <2>6
  <2> HIDE DEF Is
  <2>8. QED
    BY <2>7
<1>4. Is(cut)
  BY <1>3
<1> HIDE DEF cut
<1>5. cut[0] = x0 /\ \A k \in 0 .. L - 1 : cut[k + 1] = CutStep(cut[k], R[k + 1])
  <2>1. 0 \in 0 .. L
    BY <1>1
  <2> HIDE DEF x0
  <2>2. cut[0] = x0
    BY <1>4, <2>1
  <2>3. ASSUME NEW k \in 0 .. L - 1 PROVE cut[k + 1] = CutStep(cut[k], R[k + 1])
    <3>1. k + 1 \in 0 .. L /\ k + 1 # 0 /\ (k + 1) - 1 = k
      BY <1>1
    <3>2. cut[k + 1] = IF k + 1 = 0 THEN x0 ELSE CutStep(cut[(k + 1) - 1], R[k + 1])
      BY <1>4, <3>1
    <3>3. QED
      BY <3>1, <3>2
  <2>4. QED
    BY <2>2, <2>3
<1>6. 0 \in D
  <2>1. 0 \in 0 .. L /\ Cursor(R, 0) = 0
    BY <1>1 DEF Cursor
  <2>2. ShownBefore(G, 0) = {}
    BY DEF ShownBefore, Shown
  <2>3. Picked(Char(G), {}) = <<>>
    <3>1. Cardinality({}) = 0
      BY FS_EmptySet
    <3>2. QED
      BY <3>1 DEF Picked
  <2>4. x0.cursor = 0 /\ x0.text = <<>> /\ x0.text \in Seq(V)
    OBVIOUS
  <2>5. QED
    BY <1>5, <2>1, <2>2, <2>3, <2>4
<1>7. ASSUME NEW k \in 0 .. L - 1, k \in D PROVE k + 1 \in D
  <2>1. k + 1 \in 0 .. L
    BY <1>1
  <2> DEFINE x == cut[k]
  <2>2. /\ x.cursor = Cursor(R, k) /\ x.text \in Seq(V)
        /\ x.text = Picked(Char(Gone(A)), ShownBefore(Gone(A), Cursor(R, k)))
    BY <1>7
  <2> HIDE DEF x
  <2>3. /\ CutStep(x, R[k + 1]).cursor = Cursor(R, k + 1)
        /\ CutStep(x, R[k + 1]).text
              = Picked(Char(Gone(A)), ShownBefore(Gone(A), Cursor(R, k + 1)))
        /\ CutStep(x, R[k + 1]).text \in Seq(V)
    BY <2>2, CutMore
  <2>4. cut[k + 1] = CutStep(x, R[k + 1])
    BY <1>5 DEF x
  <2>5. QED
    BY <2>1, <2>3, <2>4
<1> HIDE DEF D
<1>8. L \in D
  <2>1. L \in 0 .. L
    BY <1>1
  <2>2. \A k \in 0 .. L : k \in D
    BY <1>1, <1>6, <1>7, StepByStep
  <2>3. QED
    BY <2>1, <2>2
<1> DEFINE c == Cursor(R, L)
           P == ShownBefore(G, c)
<1>9. cut[L].cursor = c /\ cut[L].text \in Seq(V) /\ cut[L].text = Picked(Char(G), P)
  BY <1>8 DEF D
<1>10. /\ c \in 0 .. n
       /\ \A p \in c .. n - 1 : p \notin G
       /\ Shown(G) = P \cup (c .. n - 1)
  <2>1. L \in 0 .. Len(R) /\ Len(text) \in Nat
    BY <1>1
  <2>2. QED
    BY <2>1, CursorIs
<1> HIDE DEF c, P
<1>11. /\ Between(c, n) \in Seq(V) /\ Len(Between(c, n)) = n - c
       /\ \A i \in 1 .. n - c : Between(c, n)[i] = text[c + i]
  <2>1. n \in 0 .. Len(text) /\ c \in 0 .. Len(text)
    BY <1>1, <1>10
  <2> HIDE DEF n
  <2>2. /\ Between(c, n) \in Seq(V)
        /\ Len(Between(c, n)) = IF c <= n THEN n - c ELSE 0
        /\ \A i \in 1 .. n - c : Between(c, n)[i] = text[c + i]
    BY <2>1, BetweenIs
  <2>3. QED
    BY <1>1, <1>10, <2>2
<1>12. Between(c, n) = Stretch(Char(G), c, n - c)
  <2> DEFINE d == n - c
             piece == Between(c, n)
  <2>1. d \in Nat /\ n = c + d
    BY <1>1, <1>10
  <2>2. ASSUME NEW i \in 1 .. d PROVE piece[i] = Char(G)[c + i - 1]
    <3>1. c + i - 1 \in 0 .. n - 1 /\ c + i - 1 \in c .. n - 1 /\ (c + i - 1) + 1 = c + i
      <4> HIDE DEF d, n
      <4>1. QED
        BY <1>1, <1>10, <2>1
    <3>2. QED
      BY <1>10, <1>11, <3>1 DEF Char
  <2>3. piece = [i \in 1 .. Len(piece) |-> piece[i]]
    BY <1>11
  <2> HIDE DEF piece
  <2>4. QED
    BY <1>11, <2>2, <2>3 DEF Stretch, piece
<1>13. P \in SUBSET Nat /\ IsFiniteSet(P) /\ \A p \in P : p < c
  <2>1. P \in SUBSET (0 .. n - 1)
    BY DEF P, ShownBefore, Shown
  <2>2. IsFiniteSet(0 .. n - 1)
    <3>1. n - 1 \in Int /\ 0 \in Int
      BY <1>1
    <3> HIDE DEF n
    <3>2. QED
      BY <3>1, FS_Interval
  <2>3. IsFiniteSet(P)
    BY <2>1, <2>2, FS_Subset
  <2>4. QED
    BY <2>1, <2>3 DEF P, ShownBefore
<1>14. Picked(Char(G), P \cup (c .. n - 1)) = Picked(Char(G), P) \o Between(c, n)
  <2> DEFINE d == n - c
             s == Char(G)
  <2>1. d \in Nat /\ c \in Nat /\ c + d - 1 = n - 1
    BY <1>1, <1>10
  <2> HIDE DEF d, s, n
  <2>2. Picked(s, P \cup (c .. c + d - 1)) = Picked(s, P) \o Stretch(s, c, d)
    BY <1>13, <2>1, PickedMore
  <2>3. QED
    BY <1>12, <2>1, <2>2 DEF d, s
<1>15. QED
  BY <1>2, <1>9, <1>10, <1>14

-----------------------------------------------------------------------------
(* Every letter of the text is a place of exactly one word.                *)
CharsOf(w) == w.start .. w.end - 1
Worded ==
  /\ \A i \in DOMAIN words : \A p \in CharsOf(words[i]) : text[p + 1] # Space
  /\ \A p \in 0 .. Len(text) - 1 :
       text[p + 1] # Space => \E i \in DOMAIN words : p \in CharsOf(words[i])
  /\ \A i, j \in DOMAIN words : i < j => words[i].end <= words[j].start

SpansInv ==
  /\ SpansTypeOK /\ MapsText /\ Worded
  /\ findings \subseteq Finding
  /\ phase = "parse" => findings = {}
  /\ RedactionExact

WordRecord == [start : Nat, end : Nat, page : 1 .. Pages]

LEMMA WordsAre ==
  ASSUME SpansTypeOK
  PROVE  /\ DOMAIN words = 1 .. Len(words) /\ Len(words) \in Nat /\ Len(text) \in Nat
         /\ \A i \in DOMAIN words : words[i] \in WordRecord
         /\ text \in Seq(Letter \cup {Space}) /\ words \in Seq(WordRecord)
<1>1. text \in Seq(Letter \cup {Space}) /\ words \in Seq(WordRecord)
  BY DEF SpansTypeOK, WordRecord
<1>2. QED
  BY <1>1, LenProperties, ElementOfSeq

(* The regions of a finding hold its letters, each in one of them. *)
LEMMA SpansInvIsExact == SpansInv => SpansExact
<1> SUFFICES ASSUME SpansInv,
             NEW f \in findings
      PROVE  LET letters == {p \in f.start..(f.end - 1) : text[p + 1] # Space}
                 of(p) == {i \in DOMAIN words : p \in words[i].start..(words[i].end - 1)}
             IN  /\ UNION {of(p) : p \in letters} = Regions(f.start, f.end)
                 /\ \A p \in letters : Cardinality(of(p)) = 1
  BY DEF SpansInv, SpansExact, SpansTraceable
<1> DEFINE letters == {p \in f.start..(f.end - 1) : text[p + 1] # Space}
           of(p) == {i \in DOMAIN words : p \in words[i].start..(words[i].end - 1)}
<1>1. /\ DOMAIN words = 1 .. Len(words) /\ Len(words) \in Nat /\ Len(text) \in Nat
      /\ \A i \in DOMAIN words : words[i] \in WordRecord
  BY WordsAre DEF SpansInv
<1>2. f.start \in 0 .. Len(text) /\ f.end \in 0 .. Len(text) /\ f.start < f.end
  BY DEF SpansInv, Finding
<1>3. \A i \in DOMAIN words :
        /\ words[i].start \in Nat /\ words[i].end \in Nat
        /\ words[i].start < words[i].end /\ words[i].end <= Len(text)
        /\ \A p \in words[i].start .. words[i].end - 1 : text[p + 1] # Space
  BY <1>1 DEF WordRecord, SpansInv, MapsText, Worded, CharsOf
<1>4. ASSUME NEW p \in letters, NEW i \in of(p) PROVE i \in Regions(f.start, f.end)
  <2>1. p >= words[i].start /\ p < words[i].end /\ p >= f.start /\ p < f.end /\ p \in Int
    BY <1>2, <1>3
  <2>2. words[i].start < f.end /\ words[i].end > f.start
    BY <1>2, <1>3, <2>1
  <2>3. QED
    BY <2>2 DEF Regions, Meets
<1>5. ASSUME NEW i \in Regions(f.start, f.end) PROVE \E p \in letters : i \in of(p)
  <2>1. i \in DOMAIN words /\ words[i].start < f.end /\ words[i].end > f.start
    BY DEF Regions, Meets
  <2> DEFINE p == IF words[i].start <= f.start THEN f.start ELSE words[i].start
  <2>2. p \in f.start .. f.end - 1 /\ p \in words[i].start .. words[i].end - 1
    BY <1>2, <1>3, <2>1
  <2> HIDE DEF p
  <2>3. text[p + 1] # Space
    BY <1>3, <2>1, <2>2
  <2>4. QED
    BY <2>1, <2>2, <2>3
<1>6. ASSUME NEW p \in letters PROVE Cardinality(of(p)) = 1
  <2>1. p \in 0 .. Len(text) - 1 /\ text[p + 1] # Space
    BY <1>1, <1>2
  <2>2. PICK i \in DOMAIN words : p \in words[i].start .. words[i].end - 1
    BY <2>1 DEF SpansInv, Worded, CharsOf
  <2>3. ASSUME NEW j \in of(p) PROVE j = i
    <3>1. ASSUME NEW a \in DOMAIN words, NEW b \in DOMAIN words, a < b,
                 p \in words[a].start .. words[a].end - 1,
                 p \in words[b].start .. words[b].end - 1
          PROVE  FALSE
      <4>1. words[a].end <= words[b].start
        BY <3>1 DEF SpansInv, Worded
      <4>2. QED
        BY <1>3, <2>1, <3>1, <4>1
    <3>2. i \in Nat /\ j \in Nat /\ j \in DOMAIN words /\ p \in words[j].start .. words[j].end - 1
      BY <1>1
    <3>3. ~ (i < j) /\ ~ (j < i)
      BY <2>2, <3>1, <3>2
    <3>4. QED
      BY <3>2, <3>3
  <2>4. of(p) = {i}
    BY <2>2, <2>3
  <2> HIDE DEF of
  <2>5. QED
    BY <2>4, FS_Singleton
<1> HIDE DEF letters, of
<1>7. UNION {of(p) : p \in letters} = Regions(f.start, f.end)
  BY <1>4, <1>5
<1>8. QED
  BY <1>6, <1>7 DEF letters, of

LEMMA SpansInitInv == SpansInit => SpansInv
<1> SUFFICES ASSUME SpansInit PROVE SpansInv
  OBVIOUS
<1>1. text = <<>> /\ words = <<>> /\ findings = {} /\ phase = "parse" /\ large \subseteq 1 .. Pages
  BY DEF SpansInit
<1>2. SpansTypeOK
  BY <1>1 DEF SpansTypeOK
<1>3. DOMAIN words = {} /\ Len(text) = 0 /\ 0 .. Len(text) - 1 = {}
  BY <1>1
<1>4. MapsText /\ Worded
  BY <1>1, <1>3 DEF MapsText, Worded
<1>5. QED
  BY <1>1, <1>2, <1>4 DEF SpansInv, RedactionExact

LEMMA ParseWordStep == SpansInv /\ ParseWord => SpansInv'
<1> SUFFICES ASSUME SpansInv, ParseWord PROVE SpansInv'
  OBVIOUS
<1> DEFINE n == Len(text)
           k == Len(words)
           gap == IF words = <<>> THEN 0 ELSE 1
           C == Letter \cup {Space}
<1>1. /\ DOMAIN words = 1 .. k /\ k \in Nat /\ n \in Nat
      /\ \A i \in DOMAIN words : words[i] \in WordRecord
      /\ text \in Seq(C) /\ words \in Seq(WordRecord)
  BY WordsAre DEF SpansInv
<1>2. PICK w \in Word, page \in 1 .. Pages :
        /\ text' = text \o (IF words = <<>> THEN <<>> ELSE <<Space>>) \o w
        /\ words' = Append(words, [start |-> StartOf, end |-> Len(text'), page |-> page])
  BY DEF ParseWord
<1>3. phase = "parse" /\ UNCHANGED <<large, findings, draft, phase>>
  BY DEF ParseWord
<1> DEFINE sep == IF words = <<>> THEN <<>> ELSE <<Space>>
           l == Len(w)
           at == n + gap
           record == [start |-> at, end |-> at + l, page |-> page]
<1>4. /\ w \in Seq(C) /\ l \in 1 .. 2 /\ \A i \in 1 .. l : w[i] \in Letter
  <2>1. PICK m \in 1 .. 2 : w \in [1 .. m -> Letter]
    BY DEF Word
  <2>2. w \in Seq(Letter) /\ Len(w) = m
    BY <2>1, SeqDef, LenProperties
  <2>3. w \in [1 .. m -> C]
    BY <2>1
  <2>4. w \in Seq(C)
    BY <2>3, SeqDef
  <2>5. QED
    BY <2>1, <2>2, <2>4
<1>5. /\ sep \in Seq(C) /\ Len(sep) = gap /\ gap \in 0 .. 1 /\ (gap = 1 => sep[1] = Space)
  <2>1. CASE words = <<>>
    <3>1. sep = <<>> /\ gap = 0
      BY <2>1
    <3> HIDE DEF sep, gap
    <3>2. QED
      BY <3>1
  <2>2. CASE words # <<>>
    <3>1. sep = <<Space>> /\ gap = 1 /\ Space \in C
      BY <2>2
    <3> HIDE DEF sep, gap, C
    <3>2. QED
      BY <3>1
  <2>3. QED
    BY <2>1, <2>2
<1>6. Space \notin Letter
  BY SpansAssumption
<1> HIDE DEF sep, l, gap, C
<1>7. /\ text' \in Seq(C) /\ Len(text') = at + l
      /\ \A i \in 1 .. n : text'[i] = text[i]
      /\ gap = 1 => text'[n + 1] = Space
      /\ \A i \in 1 .. l : text'[at + i] = w[i]
  <2>1. text' = (text \o sep) \o w
    BY <1>2 DEF sep
  <2>2. /\ text \o sep \in Seq(C) /\ Len(text \o sep) = n + gap
        /\ \A i \in 1 .. n + gap : (text \o sep)[i] = IF i <= n THEN text[i] ELSE sep[i - n]
    BY <1>1, <1>5, ConcatProperties
  <2> DEFINE left == text \o sep
  <2>3. left \in Seq(C) /\ Len(left) = at
    BY <2>2
  <2> HIDE DEF left
  <2>4. /\ left \o w \in Seq(C) /\ Len(left \o w) = at + l
        /\ \A i \in 1 .. at + l : (left \o w)[i] = IF i <= at THEN left[i] ELSE w[i - at]
    BY <1>4, <2>3, ConcatProperties DEF l
  <2>5. text' = left \o w
    BY <2>1 DEF left
  <2>6. ASSUME NEW i \in 1 .. n PROVE text'[i] = text[i]
    <3>1. i \in 1 .. at + l /\ i <= at /\ i \in 1 .. n + gap /\ i <= n
      BY <1>1, <1>4, <1>5
    <3>2. QED
      BY <2>2, <2>4, <2>5, <3>1 DEF left
  <2>7. ASSUME gap = 1 PROVE text'[n + 1] = Space
    <3>1. n + 1 \in 1 .. at + l /\ n + 1 <= at /\ n + 1 \in 1 .. n + gap /\ ~ (n + 1 <= n)
          /\ (n + 1) - n = 1
      BY <1>1, <1>4, <1>5, <2>7
    <3>2. QED
      BY <1>5, <2>2, <2>4, <2>5, <2>7, <3>1 DEF left
  <2>8. ASSUME NEW i \in 1 .. l PROVE text'[at + i] = w[i]
    <3>1. at + i \in 1 .. at + l /\ ~ (at + i <= at) /\ (at + i) - at = i
      BY <1>1, <1>4, <1>5
    <3>2. QED
      BY <2>4, <2>5, <3>1
  <2>9. QED
    BY <2>4, <2>5, <2>6, <2>7, <2>8
<1>8. record \in WordRecord /\ words' = Append(words, record)
  <2>1. StartOf = at
    BY DEF StartOf, gap
  <2>2. at \in Nat /\ at + l \in Nat
    BY <1>1, <1>4, <1>5
  <2>3. QED
    BY <1>2, <1>7, <2>1, <2>2 DEF WordRecord
<1> HIDE DEF record
<1>9. /\ words' \in Seq(WordRecord) /\ Len(words') = k + 1 /\ words' # <<>>
      /\ DOMAIN words' = 1 .. k + 1
      /\ \A i \in 1 .. k : words'[i] = words[i]
      /\ words'[k + 1] = record
  <2>1. /\ words' \in Seq(WordRecord) /\ Len(words') = k + 1 /\ words' # <<>>
        /\ \A i \in 1 .. k : words'[i] = words[i]
        /\ words'[k + 1] = record
    BY <1>1, <1>8, AppendProperties
  <2>2. QED
    BY <2>1, LenProperties
<1>10. record.start = at /\ record.end = at + l /\ record.page \in 1 .. Pages
  BY DEF record
<1>11. /\ k = 0 => n = 0 /\ gap = 0
       /\ k > 0 => gap = 1 /\ words[k].end = n
       /\ \A i \in 1 .. k : /\ words[i].start \in Nat /\ words[i].end \in Nat
                            /\ words[i].start < words[i].end /\ words[i].end <= n
                            /\ words[i].page \in 1 .. Pages
  <2>1. words = <<>> <=> k = 0
    BY <1>1, EmptySeq
  <2>2. \A i \in 1 .. k : words[i].start \in Nat /\ words[i].end \in Nat
    BY <1>1 DEF WordRecord
  <2>3. QED
    BY <1>1, <2>1, <2>2 DEF SpansInv, MapsText, gap
<1>12. SpansTypeOK'
  <2>1. large \subseteq 1 .. Pages /\ \A f \in findings : f.kind \in Kinds /\ f.start < f.end
    BY DEF SpansInv, SpansTypeOK
  <2>2. QED
    BY <1>3, <1>7, <1>9, <2>1 DEF SpansTypeOK, WordRecord, C
<1>13. MapsText'
  <2>1. ASSUME NEW i \in 1 .. k
        PROVE  /\ 0 <= words'[i].start /\ words'[i].start < words'[i].end
               /\ words'[i].end <= Len(text')
               /\ words'[i].start = IF i = 1 THEN 0 ELSE words'[i - 1].end + 1
               /\ i > 1 => text'[words'[i - 1].end + 1] = Space
               /\ words'[i].page \in 1 .. Pages
    <3>1. words'[i] = words[i] /\ words[i].end <= n
      BY <1>9, <1>11
    <3>2. words[i].start = IF i = 1 THEN 0 ELSE words[i - 1].end + 1
      BY <1>1 DEF SpansInv, MapsText
    <3>3. i > 1 => /\ words'[i - 1] = words[i - 1] /\ text[words[i - 1].end + 1] = Space
                   /\ words[i - 1].end + 1 \in 1 .. n
      <4> SUFFICES ASSUME i > 1
                   PROVE  /\ words'[i - 1] = words[i - 1] /\ text[words[i - 1].end + 1] = Space
                          /\ words[i - 1].end + 1 \in 1 .. n
        OBVIOUS
      <4>1. i - 1 \in 1 .. k /\ i # 1
        BY <1>1
      <4>2. words[i].start = words[i - 1].end + 1 /\ text[words[i - 1].end + 1] = Space
        BY <1>1, <3>2, <4>1 DEF SpansInv, MapsText
      <4>3. words'[i - 1] = words[i - 1]
        BY <1>9, <4>1
      <4>4. words[i - 1].end \in Nat /\ words[i].start < words[i].end /\ words[i].end <= n
            /\ words[i].start \in Nat /\ words[i].end \in Nat
        BY <1>11, <4>1
      <4>5. words[i - 1].end + 1 \in 1 .. n
        BY <1>1, <4>2, <4>4
      <4>6. QED
        BY <4>2, <4>3, <4>5
    <3>4. Len(text') = at + l /\ n <= at + l
      BY <1>1, <1>4, <1>5, <1>7
    <3>5. i = 1 \/ i > 1
      BY <1>1
    <3>6. words[i].end <= Len(text') /\ 0 <= words[i].start
      BY <1>1, <1>4, <1>5, <1>11, <3>1, <3>4
    <3>7. QED
      BY <1>7, <1>11, <3>1, <3>2, <3>3, <3>5, <3>6
  <2>2. /\ 0 <= record.start /\ record.start < record.end /\ record.end <= Len(text')
        /\ record.start = IF k + 1 = 1 THEN 0 ELSE words'[(k + 1) - 1].end + 1
        /\ k + 1 > 1 => text'[words'[(k + 1) - 1].end + 1] = Space
        /\ record.page \in 1 .. Pages
    <3>1. 0 <= at /\ at < at + l /\ at + l <= Len(text')
      BY <1>1, <1>4, <1>5, <1>7
    <3>2. CASE k = 0
      BY <1>10, <1>11, <3>1, <3>2
    <3>3. CASE k > 0
      <4>1. (k + 1) - 1 = k /\ k \in 1 .. k /\ words'[k] = words[k]
        BY <1>1, <1>9, <3>3
      <4>2. words'[(k + 1) - 1].end = n /\ gap = 1 /\ k + 1 # 1
        BY <1>1, <1>11, <3>3, <4>1
      <4>3. QED
        BY <1>7, <1>10, <3>1, <4>2
    <3>4. QED
      BY <1>1, <3>2, <3>3
  <2>3. \A i \in 1 .. k + 1 : i \in 1 .. k \/ i = k + 1
    BY <1>1
  <2>4. words'[Len(words')].end = Len(text')
    BY <1>7, <1>9, <1>10
  <2>5. QED
    BY <1>9, <2>1, <2>2, <2>3, <2>4 DEF MapsText
<1>14. Worded'
  <2>1. \A i \in 1 .. k + 1 : i \in 1 .. k \/ i = k + 1
    BY <1>1
  <2>2. \A i \in 1 .. k + 1 : \A p \in CharsOf(words'[i]) : text'[p + 1] # Space
    <3>1. ASSUME NEW i \in 1 .. k, NEW p \in CharsOf(words[i]) PROVE text'[p + 1] # Space
      <4>1. p + 1 \in 1 .. n
        BY <1>1, <1>11 DEF CharsOf
      <4>2. text[p + 1] # Space
        BY <1>1 DEF SpansInv, Worded
      <4>3. QED
        BY <1>7, <4>1, <4>2
    <3>2. ASSUME NEW p \in CharsOf(record) PROVE text'[p + 1] # Space
      <4>1. p - at + 1 \in 1 .. l /\ p + 1 = at + (p - at + 1)
        BY <1>1, <1>4, <1>5, <1>10 DEF CharsOf
      <4>2. QED
        BY <1>4, <1>6, <1>7, <4>1
    <3>3. QED
      BY <1>9, <2>1, <3>1, <3>2
  <2>3. ASSUME NEW p \in 0 .. Len(text') - 1, text'[p + 1] # Space
        PROVE  \E i \in 1 .. k + 1 : p \in CharsOf(words'[i])
    <3>1. CASE p < n
      <4>1. p \in 0 .. n - 1 /\ p + 1 \in 1 .. n
        BY <1>1, <1>4, <1>5, <1>7, <3>1
      <4>2. PICK i \in 1 .. k : p \in CharsOf(words[i])
        BY <1>1, <1>7, <2>3, <4>1 DEF SpansInv, Worded
      <4>3. i \in 1 .. k + 1
        BY <1>1
      <4>4. QED
        BY <1>9, <4>2, <4>3
    <3>2. CASE n <= p
      <4>1. p >= at
        <5>1. CASE gap = 1
          <6>1. p # n
            BY <1>7, <2>3, <5>1
          <6>2. QED
            BY <1>1, <1>4, <1>7, <3>2, <5>1, <6>1
        <5>2. QED
          BY <1>1, <1>4, <1>5, <1>7, <3>2, <5>1
      <4>2. p \in at .. at + l - 1
        BY <1>1, <1>4, <1>5, <1>7, <4>1
      <4>3. k + 1 \in 1 .. k + 1
        BY <1>1
      <4>4. p \in CharsOf(words'[k + 1])
        <5> DEFINE e == at + l
                   v == words'[k + 1]
        <5>1. v.start = at /\ v.end = e /\ p \in at .. e - 1 /\ at \in Nat /\ e \in Nat
          BY <1>1, <1>4, <1>5, <1>9, <1>10, <4>2
        <5> HIDE DEF at, e, v
        <5>2. p \in CharsOf(v)
          BY <5>1 DEF CharsOf
        <5>3. QED
          BY <5>2 DEF v
      <4>5. QED
        BY <4>3, <4>4
    <3>3. QED
      BY <1>1, <1>4, <1>5, <1>7, <3>1, <3>2
  <2>4. ASSUME NEW i \in 1 .. k + 1, NEW j \in 1 .. k + 1, i < j
        PROVE  words'[i].end <= words'[j].start
    <3>1. i \in 1 .. k
      BY <1>1, <2>4
    <3>2. CASE j \in 1 .. k
      BY <1>1, <1>9, <2>4, <3>1, <3>2 DEF SpansInv, Worded
    <3>3. CASE j = k + 1
      BY <1>1, <1>5, <1>9, <1>10, <1>11, <3>1, <3>3
    <3>4. QED
      BY <2>1, <3>2, <3>3
  <2>5. QED
    BY <1>9, <2>2, <2>3, <2>4 DEF Worded
<1>15. findings' = {} /\ phase' = "parse"
  BY <1>3 DEF SpansInv
<1>16. QED
  BY <1>12, <1>13, <1>14, <1>15 DEF SpansInv, RedactionExact

LEMMA ReviewStep == SpansInv /\ Review => SpansInv'
<1> SUFFICES ASSUME SpansInv, Review PROVE SpansInv'
  OBVIOUS
<1>1. /\ UNCHANGED <<text, words, large, draft>> /\ phase = "review"
      /\ phase' \in {"redact", "rejected"}
      /\ UNCHANGED findings \/ findings' \subseteq Finding
  <2>1. PICK list \in BoundedSeq(Finding, MaxFindings) :
          \/ findings' = ToSet(list) /\ phase' = "redact"
          \/ phase' = "rejected" /\ UNCHANGED findings
    BY DEF Review
  <2>2. ToSet(list) \subseteq Finding
    <3>1. list \in Seq(Finding)
      BY DEF BoundedSeq, SeqOf
    <3>2. QED
      BY <3>1, ElementOfSeq DEF ToSet
  <2>3. QED
    BY <2>1, <2>2 DEF Review
<1>2. findings' \subseteq Finding /\ Finding' = Finding
  BY <1>1 DEF SpansInv, Finding
<1>3. SpansTypeOK' /\ MapsText' /\ Worded'
  BY <1>1, <1>2 DEF SpansInv, SpansTypeOK, Finding, MapsText, Worded
<1>4. QED
  BY <1>1, <1>2, <1>3 DEF SpansInv, RedactionExact

(* What redact makes of the approved spans is what RedactionExact says. *)
LEMMA RedactStep == SpansInv /\ Redact => SpansInv'
<1> SUFFICES ASSUME SpansInv, Redact PROVE SpansInv'
  OBVIOUS
<1>1. PICK approved \in SUBSET findings :
        /\ draft'.text = Derivative(Ranges(approved)) /\ draft'.approved = approved
  <2>1. PICK approved \in SUBSET {f \in findings : f.kind = "privacy_candidate"} :
          draft' = [text |-> Derivative(Ranges(approved)), approved |-> approved,
                    ranges |-> Ranges(approved),
                    residual |-> Residual(approved, Derivative(Ranges(approved)))]
    BY DEF Redact
  <2>2. QED
    BY <2>1
<1>2. UNCHANGED <<text, words, large, findings>> /\ phase' = "done"
  BY DEF Redact
<1> DEFINE n == Len(text)
           A == {<<f.start, f.end>> : f \in approved}
           V == Letter \cup {Space, Redacted}
           gone == UNION {f.start..(f.end - 1) : f \in approved}
<1>3. n \in Nat /\ text \in Seq(V) /\ Redacted \in V
  <2>1. text \in Seq(Letter \cup {Space}) /\ n \in Nat
    BY WordsAre DEF SpansInv
  <2>2. text \in [1 .. n -> Letter \cup {Space}]
    BY <2>1, LenProperties
  <2>3. text \in [1 .. n -> V]
    BY <2>2
  <2>4. QED
    BY <2>1, <2>3, SeqDef
<1>4. \A f \in approved : f.start \in 0 .. n /\ f.end \in 0 .. n /\ f.start < f.end
  BY DEF SpansInv, Finding
<1>5. A \in SUBSET Spans(n) /\ \A s \in A : s[1] < s[2]
  BY <1>4 DEF Spans
<1>6. Joined(Ranges(approved), A, n)
  <2>1. A = {<<f.start, f.end>> : f \in approved}
    OBVIOUS
  <2> HIDE DEF A, n
  <2>2. QED
    BY <1>3, <1>5, <2>1, RangesIs
<1>7. draft'.text = Picked(Char(Gone(A)), Shown(Gone(A)))
  <2>1. Derivative(Ranges(approved)) = Picked(Char(Gone(A)), Shown(Gone(A)))
    <3> HIDE DEF V, A
    <3>1. QED
      BY <1>3, <1>6, DerivativeIs
  <2>2. QED
    BY <1>1, <2>1
<1>8. gone = Gone(A)
  <2>1. ASSUME NEW p, NEW f \in approved, p \in f.start .. (f.end - 1) PROVE p \in Gone(A)
    <3>1. p \in 0 .. n - 1 /\ f.start <= p /\ p < f.end
      BY <1>3, <1>4, <2>1
    <3>2. Holds(<<f.start, f.end>>, p)
      BY <3>1 DEF Holds
    <3>3. QED
      BY <3>1, <3>2 DEF Gone
  <2>2. ASSUME NEW p \in Gone(A) PROVE \E f \in approved : p \in f.start .. (f.end - 1)
    <3>1. PICK f \in approved : Holds(<<f.start, f.end>>, p)
      BY DEF Gone
    <3>2. f.start <= p /\ p < f.end /\ p \in 0 .. n - 1
      BY <3>1 DEF Holds, Gone
    <3>3. p \in f.start .. (f.end - 1)
      BY <1>3, <1>4, <3>2
    <3>4. QED
      BY <3>3
  <2>3. QED
    BY <2>1, <2>2
<1>9. RedactionExact'
  <2> DEFINE char == [p \in 0..(Len(text) - 1) |-> IF p \in gone THEN Redacted ELSE text[p + 1]]
             shown == {p \in DOMAIN char : p \notin gone \/ p - 1 \notin gone}
  <2>1. char = Char(Gone(A))
    BY <1>8 DEF Char
  <2>2. shown = Shown(Gone(A))
    BY <1>8 DEF Shown
  <2> HIDE DEF char, shown
  <2>3. draft'.text = Picked(char, shown)
    BY <1>7, <2>1, <2>2
  <2>4. QED
    BY <1>1, <1>2, <2>3 DEF RedactionExact, char, shown, Picked, Nth
<1>10. SpansTypeOK' /\ MapsText' /\ Worded' /\ findings' \subseteq Finding'
  BY <1>2 DEF SpansInv, SpansTypeOK, Finding, MapsText, Worded
<1>11. QED
  BY <1>2, <1>9, <1>10 DEF SpansInv

LEMMA SpansNextInv == SpansInv /\ [SpansNext]_spansVars => SpansInv'
<1> SUFFICES ASSUME SpansInv, [SpansNext]_spansVars PROVE SpansInv'
  OBVIOUS
<1>1. CASE ParseWord
  BY <1>1, ParseWordStep
<1>2. CASE Review
  BY <1>2, ReviewStep
<1>3. CASE Redact
  BY <1>3, RedactStep
<1>4. ASSUME UNCHANGED <<text, words, large, findings, draft>>,
             phase' \in {"review", "rejected"} \/ UNCHANGED phase
      PROVE  SpansInv'
  <2>1. SpansTypeOK' /\ MapsText' /\ Worded' /\ Finding' = Finding
    BY <1>4 DEF SpansInv, SpansTypeOK, Finding, MapsText, Worded
  <2>2. RedactionExact'
    BY <1>4 DEF SpansInv, RedactionExact, Picked, Nth
  <2>3. QED
    BY <1>4, <2>1, <2>2 DEF SpansInv
<1>5. CASE ExtractFails
  BY <1>4, <1>5 DEF ExtractFails
<1>6. CASE Import
  BY <1>4, <1>6 DEF Import
<1>7. CASE SourceChanged
  BY <1>4, <1>7 DEF SourceChanged
<1>8. CASE UNCHANGED spansVars
  BY <1>4, <1>8 DEF spansVars
<1>9. QED
  BY <1>1, <1>2, <1>3, <1>5, <1>6, <1>7, <1>8 DEF SpansNext

SpansSpec == SpansInit /\ [][SpansNext]_spansVars

(* From the page to the draft, no character is taken for another: the map  *)
(* that the extractor writes has the intervals and separators that its     *)
(* reader asks for, so that only a limit of size can refuse it, whatever   *)
(* the limits are; the regions of every accepted finding are the words     *)
(* that hold its letters; and a redacted draft is the text with one marker *)
(* in the place of each run of approved characters (src/demo/ocr.py,       *)
(* ocr_evidence.py, review.py).                                            *)
THEOREM SpansAreExact == SpansSpec => []SpansExact
<1>1. SpansInit => SpansInv
  BY SpansInitInv
<1>2. SpansInv /\ [SpansNext]_spansVars => SpansInv'
  BY SpansNextInv
<1>3. SpansInv => SpansExact
  BY SpansInvIsExact
<1>4. QED
  BY <1>1, <1>2, <1>3, PTL DEF SpansSpec
==============================================================================
