----------------------------- MODULE Compaction -----------------------------
(***************************************************************************)
(* src/src/bin/braess-journal-compact.rs beside the routers that use the   *)
(* same budget and journal: who holds which lock, and what the names in    *)
(* the directory denote while a checkpoint replaces the journal, after an  *)
(* interruption anywhere, and after a power loss.                          *)
(* A file is what its replay would say; DurableRequests has the lines, and *)
(* the failed appends.  A lock belongs to a file, not to its name.         *)
(***************************************************************************)
EXTENDS Integers

CONSTANTS
  Process,   \* invocations of braess-router and braess-journal-compact
  Scope,     \* journal scopes, one for each configuration
  Name,      \* names in the directory
  Journal,   \* request_journal_path
  MaxFiles,  \* bound: files ever made
  MaxId,     \* bound: request ids
  None

Id == 1..MaxId
File == 1..MaxFiles

ASSUME CompactionAssumption ==
  /\ Journal \in Name
  /\ None \notin Process \cup Scope
  /\ MaxFiles \in Nat \ {0} /\ MaxId \in Nat

VARIABLES
  dir,      \* dir[n]: the file of a name, 0 if there is none
  old,      \* the directories that a power loss may leave
  file,     \* file[f]: its scope, last id, pending ids, and how far it is written
  lock,     \* lock[f]: the process that has it locked
  budget,   \* the process that has the budget file locked
  pc,
  job,      \* job[p]: role, scope and, for the tool, target scope and paths
  fd,       \* fd[p]: the journal it opened, 0 before
  mine,     \* mine[p]: the requests that a router began and not completed
  scopeOf,  \* history: under which scope an id was last begun
  over,     \* history: the requests that were completed
  served,   \* history: files that were the journal
  exposed   \* history: work was begun although a power loss might bring an
            \* older journal back: a replacement was never synced

disk == <<dir, old, file>>
run == <<lock, budget, pc, job, fd>>
history == <<scopeOf, over, served, exposed>>
vars == <<disk, run, mine, history>>

Stages == {"idle", "budget", "opened", "ready", "created", "written", "synced", "exported",
           "linked", "archived", "verified", "replaced", "finished"}
Roles == {"router", "inspect", "compact"}
Contents(s, last, pending, state) ==
  [scope |-> s, last |-> last, pending |-> pending, state |-> state]
Blank == Contents(None, 0, {}, "blank")
NoJob == [role |-> "inspect", scope |-> None, target |-> None,
          archive |-> Journal, checkpoint |-> Journal]

TypeOK ==
  /\ dir \in [Name -> 0..MaxFiles]
  /\ dir \in old /\ old \subseteq [Name -> 0..MaxFiles]
  /\ file \in [File -> [scope : Scope \cup {None}, last : 0..MaxId, pending : SUBSET Id,
                        state : {"blank", "partial", "written", "stable"}]]
  /\ lock \in [File -> Process \cup {None}]
  /\ budget \in Process \cup {None}
  /\ pc \in [Process -> Stages]
  /\ job \in [Process -> [role : Roles, scope : Scope \cup {None}, target : Scope \cup {None},
                          archive : Name, checkpoint : Name]]
  /\ fd \in [Process -> 0..MaxFiles]
  /\ mine \in [Process -> SUBSET Id]
  /\ scopeOf \in [Id -> Scope \cup {None}]
  /\ over \subseteq Id
  /\ served \subseteq File
  /\ exposed \in BOOLEAN

(* The state that braess-journal-init leaves. *)
Init ==
  /\ dir = [n \in Name |-> IF n = Journal THEN 1 ELSE 0]
  /\ old = {dir}
  /\ \E s \in Scope :
       file = [f \in File |-> IF f = 1 THEN Contents(s, 0, {}, "stable") ELSE Blank]
  /\ lock = [f \in File |-> None]
  /\ budget = None
  /\ pc = [p \in Process |-> "idle"]
  /\ job = [p \in Process |-> NoJob]
  /\ fd = [p \in Process |-> 0]
  /\ mine = [p \in Process |-> {}]
  /\ scopeOf = [i \in Id |-> None]
  /\ over = {}
  /\ served = {1}
  /\ exposed = FALSE

-----------------------------------------------------------------------------
(* The entries that an operation changes may be lost, by themselves or     *)
(* with later changes of the same names, until the directory is synced.    *)
DirectoryOp(new) ==
  /\ dir' = new
  /\ old' = old \cup {[n \in Name |-> IF new[n] = dir[n] THEN d[n] ELSE new[n]] :
                       d \in {e \in old : \A n \in Name : new[n] = dir[n] \/ e[n] = dir[n]}}

To(p, stage) == pc' = [pc EXCEPT ![p] = stage]

-----------------------------------------------------------------------------
(* Bug: the tool takes the journal without the budget.                     *)
BugOpenBudget(p) ==
  /\ pc[p] = "idle"
  /\ \E role \in Roles, s \in Scope, t \in Scope, a \in Name, c \in Name :
       /\ IF role = "compact" THEN UNCHANGED budget ELSE budget = None /\ budget' = p
       /\ role # "compact" => t = s /\ a = Journal /\ c = Journal
       /\ job' = [job EXCEPT ![p] = [role |-> role, scope |-> s, target |-> t,
                                     archive |-> a, checkpoint |-> c]]
  /\ To(p, "budget")
  /\ UNCHANGED <<disk, lock, fd, mine, history>>

(* Gateway::new, inspect and rewrite all open the budget before the        *)
(* journal, and a lock that is taken refuses them.                         *)
OpenBudget(p) ==
  /\ pc[p] = "idle"
  /\ budget = None
  /\ \E role \in Roles, s \in Scope, t \in Scope, a \in Name, c \in Name :
       /\ role # "compact" => t = s /\ a = Journal /\ c = Journal
       /\ job' = [job EXCEPT ![p] = [role |-> role, scope |-> s, target |-> t,
                                     archive |-> a, checkpoint |-> c]]
  /\ budget' = p
  /\ To(p, "budget")
  /\ UNCHANGED <<disk, lock, fd, mine, history>>

(* DurableRequests::open: the path is looked up first ... *)
OpenJournal(p) ==
  /\ pc[p] = "budget"
  /\ dir[Journal] # 0
  /\ fd' = [fd EXCEPT ![p] = dir[Journal]]
  /\ To(p, "opened")
  /\ UNCHANGED <<disk, lock, budget, job, mine, history>>

Replayable(f, s) == file[f].state \in {"written", "stable"} /\ file[f].scope = s

(* ... and then the file is locked and replayed. *)
LockJournal(p) ==
  /\ pc[p] = "opened"
  /\ lock[fd[p]] = None
  /\ Replayable(fd[p], job[p].scope)
  /\ lock' = [lock EXCEPT ![fd[p]] = p]
  /\ To(p, "ready")
  /\ UNCHANGED <<disk, budget, job, fd, mine, history>>

-----------------------------------------------------------------------------
Serving(p) == pc[p] = "ready" /\ job[p].role = "router"

(* DurableRequests::begin by a router, and the dispatch it allows. *)
Begin(p) ==
  /\ Serving(p)
  /\ file[fd[p]].last < MaxId
  /\ LET i == file[fd[p]].last + 1 IN
       /\ file' = [file EXCEPT ![fd[p]] = Contents(@.scope, i, @.pending \cup {i}, @.state)]
       /\ mine' = [mine EXCEPT ![p] = @ \cup {i}]
       /\ scopeOf' = [scopeOf EXCEPT ![i] = job[p].scope]
       /\ over' = over \ {i}
  /\ exposed' = (exposed \/ \E d \in old : d[Journal] # dir[Journal])
  /\ UNCHANGED <<dir, old, run, served>>

(* DurableRequests::complete, after a validated response. *)
Complete(p) ==
  /\ Serving(p)
  /\ \E i \in mine[p] :
       /\ file' = [file EXCEPT ![fd[p]] = Contents(@.scope, @.last, @.pending \ {i}, @.state)]
       /\ mine' = [mine EXCEPT ![p] = @ \ {i}]
       /\ over' = over \cup {i}
  /\ UNCHANGED <<dir, old, run, scopeOf, served, exposed>>

-----------------------------------------------------------------------------
Made == {f \in File : file[f].state # "blank"}

(* Bug: a migration takes whatever is pending along.                       *)
BugCreateCheckpoint(p) ==
  /\ pc[p] = "ready" /\ job[p].role = "compact"
  /\ dir[job[p].checkpoint] = 0
  /\ \E f \in File \ Made :
       /\ \A g \in File \ Made : f <= g
       /\ file' = [file EXCEPT ![f] = Contents(None, 0, {}, "partial")]
       /\ lock' = [lock EXCEPT ![f] = p]
       /\ DirectoryOp([dir EXCEPT ![job[p].checkpoint] = f])
  /\ To(p, "created")
  /\ UNCHANGED <<budget, job, fd, mine, history>>

(* export_checkpoint up to create_new: a migration is refused while        *)
(* anything is pending, and an existing target is never opened.            *)
CreateCheckpoint(p) ==
  /\ pc[p] = "ready" /\ job[p].role = "compact"
  /\ job[p].scope = job[p].target \/ file[fd[p]].pending = {}
  /\ dir[job[p].checkpoint] = 0
  /\ \E f \in File \ Made :
       /\ \A g \in File \ Made : f <= g
       /\ file' = [file EXCEPT ![f] = Contents(None, 0, {}, "partial")]
       /\ lock' = [lock EXCEPT ![f] = p]
       /\ DirectoryOp([dir EXCEPT ![job[p].checkpoint] = f])
  /\ To(p, "created")
  /\ UNCHANGED <<budget, job, fd, mine, history>>

(* Totals and pending requests of the source, under the target scope. *)
WriteCheckpoint(p) ==
  /\ pc[p] = "created"
  /\ file' = [file EXCEPT ![dir[job[p].checkpoint]] =
                Contents(job[p].target, file[fd[p]].last, file[fd[p]].pending, "written")]
  /\ To(p, "written")
  /\ UNCHANGED <<dir, old, lock, budget, job, fd, mine, history>>

(* Bug: the checkpoint is renamed without having been synced.              *)
BugSyncCheckpoint(p) ==
  /\ pc[p] = "written"
  /\ To(p, "synced")
  /\ UNCHANGED <<disk, lock, budget, job, fd, mine, history>>

SyncCheckpoint(p) ==
  /\ pc[p] = "written"
  /\ file' = [file EXCEPT ![dir[job[p].checkpoint]] =
                Contents(@.scope, @.last, @.pending, "stable")]
  /\ To(p, "synced")
  /\ UNCHANGED <<dir, old, lock, budget, job, fd, mine, history>>

(* Bug: the link to the archive is not synced before the rename.           *)
BugSyncDirectory(p) ==
  /\ pc[p] \in {"synced", "linked", "replaced"}
  /\ old' = IF pc[p] = "linked" THEN old ELSE {dir}
  /\ lock' = IF pc[p] = "synced" THEN [lock EXCEPT ![dir[job[p].checkpoint]] = None] ELSE lock
  /\ To(p, [synced |-> "exported", linked |-> "archived", replaced |-> "finished"][pc[p]])
  /\ UNCHANGED <<dir, file, budget, job, fd, mine, history>>

(* The directory is synced after the export (which lets go of the file it  *)
(* wrote), after the link and after the rename.                            *)
AfterSync == [synced |-> "exported", linked |-> "archived", replaced |-> "finished"]
SyncDirectory(p) ==
  /\ pc[p] \in DOMAIN AfterSync
  /\ old' = {dir}
  /\ lock' = IF pc[p] = "synced" THEN [lock EXCEPT ![dir[job[p].checkpoint]] = None] ELSE lock
  /\ To(p, AfterSync[pc[p]])
  /\ UNCHANGED <<dir, file, budget, job, fd, mine, history>>

(* hard_link(source, archive) refuses an existing archive. *)
LinkArchive(p) ==
  /\ pc[p] = "exported"
  /\ dir[job[p].archive] = 0
  /\ DirectoryOp([dir EXCEPT ![job[p].archive] = dir[Journal]])
  /\ To(p, "linked")
  /\ UNCHANGED <<file, lock, budget, job, fd, mine, history>>

(* The checkpoint is opened like a journal and must say what the source    *)
(* said.                                                                   *)
VerifyCheckpoint(p) ==
  /\ pc[p] = "archived"
  /\ LET f == dir[job[p].checkpoint] IN
       /\ lock[f] = None
       /\ Replayable(f, job[p].target)
       /\ file[f].last = file[fd[p]].last
       /\ file[f].pending = file[fd[p]].pending
       /\ lock' = [lock EXCEPT ![f] = p]
  /\ To(p, "verified")
  /\ UNCHANGED <<disk, budget, job, fd, mine, history>>

(* rename(checkpoint, source) *)
Replace(p) ==
  /\ pc[p] = "verified"
  /\ LET f == dir[job[p].checkpoint] IN
       /\ DirectoryOp([dir EXCEPT ![Journal] = f, ![job[p].checkpoint] = 0])
       /\ served' = served \cup {f}
  /\ To(p, "replaced")
  /\ UNCHANGED <<file, lock, budget, job, fd, mine, scopeOf, over, exposed>>

-----------------------------------------------------------------------------
(* A process ends, with success, with an error at any step, or killed: its *)
(* locks go, and what it did to the files stays.                           *)
Leave(p) ==
  /\ pc[p] # "idle"
  /\ lock' = [f \in File |-> IF lock[f] = p THEN None ELSE lock[f]]
  /\ budget' = IF budget = p THEN None ELSE budget
  /\ job' = [job EXCEPT ![p] = NoJob]
  /\ fd' = [fd EXCEPT ![p] = 0]
  /\ mine' = [mine EXCEPT ![p] = {}]
  /\ To(p, "idle")
  /\ UNCHANGED <<disk, history>>

PowerLoss ==
  /\ dir' \in old
  /\ old' = {dir'}
  /\ file' = [f \in File |-> IF file[f].state = "written"
                             THEN Contents(None, 0, {}, "partial") ELSE file[f]]
  /\ lock' = [f \in File |-> None]
  /\ budget' = None
  /\ pc' = [p \in Process |-> "idle"]
  /\ job' = [p \in Process |-> NoJob]
  /\ fd' = [p \in Process |-> 0]
  /\ mine' = [p \in Process |-> {}]
  /\ UNCHANGED history

Router(p) == OpenBudget(p) \/ OpenJournal(p) \/ LockJournal(p) \/ Begin(p) \/ Complete(p)
Rewrite(p) ==
  \/ CreateCheckpoint(p)
  \/ WriteCheckpoint(p)
  \/ SyncCheckpoint(p)
  \/ SyncDirectory(p)
  \/ LinkArchive(p)
  \/ VerifyCheckpoint(p)
  \/ Replace(p)

Next ==
  \/ \E p \in Process : Router(p) \/ Rewrite(p) \/ Leave(p)
  \/ PowerLoss

Spec == Init /\ [][Next]_vars

-----------------------------------------------------------------------------
(* OPERATIONS.md, "compaction preserves unresolved work": every journal    *)
(* that the path may denote, now or after a power loss, replays, knows     *)
(* every id that was ever used, and has every request without completion.  *)
(* The exception is work begun on a replacement that was never synced.     *)
NothingForgotten ==
  ~exposed =>
    \A d \in old :
      /\ file[d[Journal]].state = "stable"
      /\ \A i \in Id : scopeOf[i] # None =>
           /\ i <= file[d[Journal]].last
           /\ i \in over \/ i \in file[d[Journal]].pending

(* braess-journal-compact.rs:2: a router that serves appends to the file   *)
(* that the path denotes, never to one that was replaced meanwhile.        *)
OwnerHoldsJournal ==
  \A p \in Process : Serving(p) => fd[p] = dir[Journal] /\ lock[fd[p]] = p

(* braess-journal-compact.rs:1, "retains original audit bytes": every file *)
(* that ever was the journal still has a name, also after a power loss.    *)
OriginalsNamed == \A f \in served, d \in old : \E n \in Name : d[n] = f

(* RECOVERY.md, "migration requires zero unresolved attempts": work that   *)
(* may still be going on is in a journal of the configuration it was begun *)
(* under, whichever journal the path denotes after a power loss.           *)
WorkKeepsScope ==
  \A d \in old : \A i \in file[d[Journal]].pending :
    i \notin over => file[d[Journal]].scope = scopeOf[i]

(* The journal at the path knows all work, under the scope it belongs to.  *)
JournalKnowsWork == NothingForgotten /\ WorkKeepsScope
==============================================================================
