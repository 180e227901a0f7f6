------------------------------ MODULE PilotRun ------------------------------
(***************************************************************************)
(* src/demo/pilot_plan.py and src/demo/pilot_run.py: plans that may be     *)
(* executed once, and the coordinators that execute them on one host.      *)
(* Every plan configures the same two loopback ports, for an adapter and   *)
(* for a gateway.  Content is a version number: an edit of a plan makes a  *)
(* new one, and a plan that no longer agrees with its sources, or whose    *)
(* pricing evidence is older than a day, does not verify.                  *)
(***************************************************************************)
EXTENDS Integers, FiniteSets

CONSTANTS
  Exec,      \* invocations of pilot_run.py
  Plan,      \* plan directories
  MaxEdits,  \* bound: edits of each plan, and rebuilds of the binaries
  None

ASSUME PilotAssumption == MaxEdits \in Nat /\ None \notin Exec

VARIABLES
  target,    \* target[e]: the plan on the command line of the invocation
  plan,      \* plan[p]: [made, version, valid] of the directory; made once plan.json is
  binary,    \* version of the executables
  claim,     \* claim[p]: the invocation whose execution.json is in the plan, or None
  built,     \* built[p]: how many of ledger, generation, budget and request journal exist
  summary,   \* summary[p]: execution-summary.json: "none", "finished", "aborted"
  pc,        \* pc[e]: where the invocation is
  seen,      \* seen[e]: versions of plan and binaries that preflight verified
  child,     \* child[e][s]: the service process the invocation started
  loaded,    \* loaded[e]: versions the started services were launched from
  port,      \* port[s]: whose service listens, or None
  attempts,  \* history: invocations that got past the claim
  fleets     \* history: invocations that ran the fleet

vars == <<target, plan, binary, claim, built, summary, pc, seen, child, loaded, port,
          attempts, fleets>>

Service == {"adapter", "gateway"}
Alive == {"starting", "bound"}
Stages == {"idle", "checked", "clear", "initialize", "start adapter", "poll adapter",
           "start gateway", "poll gateway", "recheck", "fleet", "stop finished",
           "stop aborted", "ended", "refused", "dead"}

TypeOK ==
  /\ target \in [Exec -> Plan]
  /\ plan \in [Plan -> [made : {"absent", "partial", "ready"},
                        version : 0..MaxEdits, valid : BOOLEAN]]
  /\ binary \in 0..MaxEdits
  /\ claim \in [Plan -> Exec \cup {None}]
  /\ built \in [Plan -> 0..4]
  /\ summary \in [Plan -> {"none", "finished", "aborted"}]
  /\ pc \in [Exec -> Stages]
  /\ seen \in [Exec -> [plan : 0..MaxEdits, binary : 0..MaxEdits]]
  /\ child \in [Exec -> [Service -> Alive \cup {"none", "exited"}]]
  /\ loaded \in [Exec -> SUBSET [plan : 0..MaxEdits, binary : 0..MaxEdits]]
  /\ port \in [Service -> Exec \cup {None}]
  /\ attempts \subseteq Exec
  /\ fleets \subseteq Exec

Init ==
  /\ target \in [Exec -> Plan]
  /\ plan = [p \in Plan |-> [made |-> "absent", version |-> 0, valid |-> TRUE]]
  /\ binary = 0
  /\ claim = [p \in Plan |-> None]
  /\ built = [p \in Plan |-> 0]
  /\ summary = [p \in Plan |-> "none"]
  /\ pc = [e \in Exec |-> "idle"]
  /\ seen = [e \in Exec |-> [plan |-> 0, binary |-> 0]]
  /\ child = [e \in Exec |-> [s \in Service |-> "none"]]
  /\ loaded = [e \in Exec |-> {}]
  /\ port = [s \in Service |-> None]
  /\ attempts = {}
  /\ fleets = {}

-----------------------------------------------------------------------------
(* create: the directory is made once, its files after it and plan.json    *)
(* last; what a crash leaves before that does not verify.                  *)
CreatePlan(p) ==
  /\ plan[p].made # "ready"
  /\ plan' = [plan EXCEPT ![p].made = IF @ = "absent" THEN "partial" ELSE "ready"]
  /\ UNCHANGED <<target, binary, claim, built, summary, pc, seen, child, loaded, port,
                 attempts, fleets>>

(* Somebody edits a plan, its sources or its corpus, or a day passes (the  *)
(* plan may verify afterwards or not), or rebuilds the binaries.           *)
Edit ==
  /\ \/ \E p \in Plan, ok \in BOOLEAN :
          /\ plan[p].made = "ready"
          /\ plan[p].version < MaxEdits
          /\ plan' = [plan EXCEPT ![p] = [made |-> "ready", version |-> @.version + 1,
                                          valid |-> ok]]
          /\ UNCHANGED binary
     \/ /\ binary < MaxEdits
        /\ binary' = binary + 1
        /\ UNCHANGED plan
  /\ UNCHANGED <<target, claim, built, summary, pc, seen, child, loaded, port, attempts, fleets>>

(* inputs and configs: tasks, corpus and documents name each other, and    *)
(* the services are configured exactly as the plan says.                   *)
Agrees(p) == plan[p].valid

(* verify: plan.json is there, and the hashes of its files, the quote and  *)
(* everything else it was made from agree with it.                         *)
Verified(p) == plan[p].made = "ready" /\ Agrees(p)

Current(e) == [plan |-> plan[target[e]].version, binary |-> binary]

At(e, stage) == pc[e] = stage
To(e, stage) == pc' = [pc EXCEPT ![e] = stage]
Quiet == UNCHANGED <<target, plan, binary, claim, built, summary, seen, child, loaded, port,
                     attempts, fleets>>

(* preflight: the plan verifies, holds no state of an earlier attempt, and *)
(* the executables are there; their hashes are taken.                      *)
Untouched(p) == claim[p] = None /\ built[p] = 0 /\ summary[p] = "none"

Preflight(e) ==
  /\ At(e, "idle")
  /\ LET p == target[e]
     IN  \/ /\ Verified(p) /\ Untouched(p)
            /\ seen' = [seen EXCEPT ![e] = Current(e)]
            /\ To(e, "checked")
         \/ /\ plan[p].made = "ready" /\ ~(Verified(p) /\ Untouched(p))
            /\ To(e, "refused")
            /\ UNCHANGED seen
  /\ UNCHANGED <<target, plan, binary, claim, built, summary, child, loaded, port, attempts, fleets>>

(* ports_available binds both ports and lets them go again. *)
CheckPorts(e) ==
  /\ At(e, "checked")
  /\ To(e, IF \A s \in Service : port[s] = None THEN "clear" ELSE "refused")
  /\ Quiet

(* execution.json is create-only and synced; an invocation that comes      *)
(* second, or whose write fails, ends here and cleans nothing up.          *)
BugClaimOverwrites(e) ==
  /\ At(e, "clear")
  /\ claim' = [claim EXCEPT ![target[e]] = e]
  /\ attempts' = attempts \cup {e}
  /\ To(e, "initialize")
  /\ UNCHANGED <<target, plan, binary, built, summary, seen, child, loaded, port, fleets>>

Claim(e) ==
  /\ At(e, "clear")
  /\ LET p == target[e]
     IN  \/ /\ claim[p] = None
            /\ claim' = [claim EXCEPT ![p] = e]
            /\ attempts' = attempts \cup {e}
            /\ To(e, "initialize")
         \/ /\ claim[p] = None
            /\ claim' = [claim EXCEPT ![p] = e]
            /\ To(e, "refused")
            /\ UNCHANGED attempts
         \/ /\ claim[p] # None
            /\ To(e, "refused")
            /\ UNCHANGED <<claim, attempts>>
  /\ UNCHANGED <<target, plan, binary, built, summary, seen, child, loaded, port, fleets>>

-----------------------------------------------------------------------------
(* The monetary ledger, the generation journal, the call budget and the    *)
(* request journal, each created once; any of them may fail.               *)
Initialize(e) ==
  /\ At(e, "initialize")
  /\ LET p == target[e]
     IN  \/ /\ built' = [built EXCEPT ![p] = @ + 1]
            /\ To(e, IF built'[p] = 4 THEN "start adapter" ELSE "initialize")
         \/ To(e, "stop aborted") /\ UNCHANGED built
  /\ UNCHANGED <<target, plan, binary, claim, summary, seen, child, loaded, port, attempts, fleets>>

Starts == [adapter |-> "start adapter", gateway |-> "start gateway"]
Polls == [adapter |-> "poll adapter", gateway |-> "poll gateway"]
Then == [adapter |-> "start gateway", gateway |-> "recheck"]

Launch(e, s) ==
  /\ At(e, Starts[s])
  /\ child' = [child EXCEPT ![e][s] = "starting"]
  /\ loaded' = [loaded EXCEPT ![e] = @ \cup {Current(e)}]
  /\ To(e, Polls[s])
  /\ UNCHANGED <<target, plan, binary, claim, built, summary, seen, port, attempts, fleets>>

(* start: the child must be alive and the port must answer /health with    *)
(* 200, whoever answers; a child that exited or eight seconds end it.      *)
Poll(e, s) ==
  /\ At(e, Polls[s])
  /\ \/ child[e][s] \in Alive /\ port[s] # None /\ To(e, Then[s])
     \/ To(e, "stop aborted")
  /\ Quiet

(* The services: one binds its port or exits, and may exit later. *)
Bind(e, s) ==
  /\ child[e][s] = "starting"
  /\ port[s] = None
  /\ child' = [child EXCEPT ![e][s] = "bound"]
  /\ port' = [port EXCEPT ![s] = e]
  /\ UNCHANGED <<target, plan, binary, claim, built, summary, pc, seen, loaded, attempts, fleets>>

Freed(e, s) == IF port[s] = e THEN [port EXCEPT ![s] = None] ELSE port

ChildExits(e, s) ==
  /\ child[e][s] \in Alive
  /\ child' = [child EXCEPT ![e][s] = "exited"]
  /\ port' = Freed(e, s)
  /\ UNCHANGED <<target, plan, binary, claim, built, summary, pc, seen, loaded, attempts, fleets>>

-----------------------------------------------------------------------------
(* Plan and binaries again, immediately before the fleet. *)
BugRecheckSkipped(e) ==
  /\ At(e, "recheck")
  /\ To(e, "fleet")
  /\ fleets' = fleets \cup {e}
  /\ UNCHANGED <<target, plan, binary, claim, built, summary, seen, child, loaded, port, attempts>>

Recheck(e) ==
  /\ At(e, "recheck")
  /\ IF Verified(target[e]) /\ Current(e) = seen[e]
     THEN To(e, "fleet") /\ fleets' = fleets \cup {e}
     ELSE To(e, "stop aborted") /\ UNCHANGED fleets
  /\ UNCHANGED <<target, plan, binary, claim, built, summary, seen, child, loaded, port, attempts>>

(* ReviewFleet, from here one step: it returns or raises. *)
FleetReturns(e) ==
  /\ At(e, "fleet")
  /\ \E stage \in {"stop finished", "stop aborted"} : To(e, stage)
  /\ Quiet

Stopping(e) == At(e, "stop finished") \/ At(e, "stop aborted")

(* finally: the children in reverse order, by a signal that they cannot    *)
(* ignore for ever, then the summary (whose write may fail).               *)
StopChild(e, s) ==
  /\ Stopping(e)
  /\ child[e][s] \in Alive
  /\ s = "adapter" => child[e]["gateway"] \notin Alive
  /\ child' = [child EXCEPT ![e][s] = "exited"]
  /\ port' = Freed(e, s)
  /\ UNCHANGED <<target, plan, binary, claim, built, summary, pc, seen, loaded, attempts, fleets>>

Summarize(e) ==
  /\ Stopping(e)
  /\ \A s \in Service : child[e][s] \notin Alive
  /\ summary' \in {summary, [summary EXCEPT ![target[e]] =
                               IF At(e, "stop finished") THEN "finished" ELSE "aborted"]}
  /\ To(e, "ended")
  /\ UNCHANGED <<target, plan, binary, claim, built, seen, child, loaded, port, attempts, fleets>>

(* The coordinator is killed; its children run on. *)
Crash(e) ==
  /\ ~ At(e, "idle")
  /\ pc[e] \notin {"ended", "refused", "dead"}
  /\ To(e, "dead")
  /\ Quiet

Coordinator(e) ==
  \/ Preflight(e)
  \/ CheckPorts(e)
  \/ Claim(e)
  \/ Initialize(e)
  \/ \E s \in Service : Launch(e, s) \/ Poll(e, s) \/ StopChild(e, s)
  \/ Recheck(e)
  \/ FleetReturns(e)
  \/ Summarize(e)

Next ==
  \/ \E p \in Plan : CreatePlan(p)
  \/ Edit
  \/ \E e \in Exec : Coordinator(e) \/ Crash(e)
  \/ \E e \in Exec, s \in Service : Bind(e, s) \/ ChildExits(e, s)

Spec == Init /\ [][Next]_vars

-----------------------------------------------------------------------------
(* PILOT.md: an attempted plan cannot be rerun.  Whatever invocations race *)
(* and wherever they die, one at most gets past the claim of a plan, and   *)
(* only that one creates state in it, runs its fleet or writes a summary.  *)
OncePerPlan ==
  \A p \in Plan :
     LET on == {e \in attempts : target[e] = p}
     IN  /\ Cardinality(on) <= 1
         /\ on \subseteq {claim[p]}
         /\ built[p] > 0 \/ summary[p] # "none" => on # {}
         /\ {e \in fleets : target[e] = p} \subseteq on

(* PILOT.md: the fleet runs on what was claimed: the services that the     *)
(* invocation launched, at whatever moment, and the plan at the moment of  *)
(* admission are the versions that preflight verified.                     *)
FleetOnClaimedEvidence ==
  /\ TypeOK
  /\ \A e \in fleets : built[target[e]] = 4 /\ loaded[e] = {seen[e]}
==============================================================================
