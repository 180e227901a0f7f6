-------------------------- MODULE CompactionProofs --------------------------
(***************************************************************************)
(* Whatever is interrupted, the path of the journal denotes a file that    *)
(* holds all uncertain work: for any number of processes, names and files. *)
(***************************************************************************)
EXTENDS Compaction, TLAPS

Writing == {"created", "written", "synced", "exported", "linked", "archived", "verified"}

(* Whoever is past the budget lock is alone, and the journal it opened is  *)
(* the one the path denotes until it replaces it itself.                   *)
Held(p) ==
  /\ pc[p] # "idle" => budget = p
  /\ pc[p] \in Writing \cup {"opened", "ready"} => fd[p] = dir[Journal]
  /\ pc[p] \in Writing \cup {"ready"} => lock[fd[p]] = p /\ file[fd[p]].scope = job[p].scope

(* What the tool has prepared by the time it gets where it is. *)
Prepared(p) ==
  LET source == file[dir[Journal]]
      f == dir[job[p].checkpoint] IN
    /\ pc[p] \in Writing =>
         /\ f \in File /\ f # dir[Journal]
         /\ job[p].scope = job[p].target \/ source.pending = {}
    /\ pc[p] = "created" => file[f].state = "partial"
    /\ pc[p] \in {"synced", "exported", "linked", "archived", "verified"} => file[f].state = "stable"
    /\ pc[p] \in {"linked", "archived", "verified"} =>
         job[p].archive # Journal /\ dir[job[p].archive] = dir[Journal]
    /\ pc[p] \in {"archived", "verified"} => old = {dir}
    /\ pc[p] = "verified" =>
         file[f].scope = job[p].target /\ file[f].last = source.last /\ file[f].pending = source.pending

(* A journal that a power loss brings back is whole, and is not ahead of   *)
(* the one that it takes the place of.                                     *)
Journals ==
  /\ \A d \in old : /\ d[Journal] \in File /\ file[d[Journal]].state = "stable"
                    /\ file[d[Journal]].last <= file[dir[Journal]].last
  /\ \A f \in File : \A i \in file[f].pending : i <= file[f].last

CompactionInv ==
  /\ TypeOK
  /\ \A p \in Process : Held(p) /\ Prepared(p)
  /\ Journals
  /\ NothingForgotten
  /\ OriginalsNamed
  /\ WorkKeepsScope

-----------------------------------------------------------------------------
LEMMA InitHolds == Init => CompactionInv
<1> SUFFICES ASSUME Init PROVE CompactionInv
  OBVIOUS
<1>1. Journal \in Name /\ 1 \in File /\ 0 \in 0..MaxFiles /\ 1 \in 0..MaxFiles /\ 0 \in 0..MaxId
  BY CompactionAssumption DEF File
<1>2. dir \in [Name -> 0..MaxFiles] /\ old = {dir} /\ dir[Journal] = 1
  BY <1>1 DEF Init
<1>3. PICK s \in Scope : file = [f \in File |-> IF f = 1 THEN Contents(s, 0, {}, "stable") ELSE Blank]
  BY DEF Init
<1>4. /\ file \in [File -> [scope : Scope \cup {None}, last : 0..MaxId, pending : SUBSET Id,
                            state : {"blank", "partial", "written", "stable"}]]
      /\ file[1].state = "stable"
      /\ \A f \in File : file[f].pending = {}
  BY <1>1, <1>3 DEF Blank, Contents
<1>5. TypeOK
  BY <1>1, <1>2, <1>4 DEF Init, TypeOK, Stages, Roles, NoJob, Id, File
<1>6. \A p \in Process : Held(p) /\ Prepared(p)
  BY DEF Init, Held, Prepared, Writing
<1>7. Journals
  BY <1>1, <1>2, <1>4 DEF Journals, TypeOK, Id
<1>8. NothingForgotten /\ WorkKeepsScope
  BY <1>1, <1>2, <1>4 DEF Init, NothingForgotten, WorkKeepsScope, Id
<1>9. OriginalsNamed
  BY <1>1, <1>2 DEF Init, OriginalsNamed
<1> QED
  BY <1>5, <1>6, <1>7, <1>8, <1>9 DEF CompactionInv

(* While p acts, everybody else is idle.                                   *)
LEMMA Alone ==
  ASSUME CompactionInv, NEW p \in Process, NEW stage, To(p, stage),
         pc[p] # "idle" \/ budget = None
  PROVE  /\ pc'[p] = stage
         /\ \A q \in Process \ {p} : Held(q)' /\ Prepared(q)'
<1>1. pc \in [Process -> Stages] /\ None \notin Process
  BY CompactionAssumption DEF CompactionInv, TypeOK
<1>2. pc'[p] = stage /\ \A q \in Process \ {p} : pc'[q] = pc[q]
  BY <1>1 DEF To
<1>3. \A q \in Process \ {p} : pc[q] = "idle"
  BY <1>1 DEF CompactionInv, Held
<1>4. \A q \in Process \ {p} : pc'[q] = "idle"
  BY <1>2, <1>3
<1> QED
  BY <1>2, <1>4 DEF Held, Prepared, Writing

LEMMA DiskKept ==
  ASSUME CompactionInv, UNCHANGED <<disk, history>>
  PROVE  Journals' /\ NothingForgotten' /\ OriginalsNamed' /\ WorkKeepsScope'
BY DEF CompactionInv, disk, history, Journals, NothingForgotten, OriginalsNamed, WorkKeepsScope

LEMMA FileTyped ==
  ASSUME TypeOK, NEW f \in File
  PROVE  /\ file[f].last \in Int /\ file[f].last \in 0..MaxId /\ file[f].pending \subseteq Id
         /\ file[f].scope \in Scope \cup {None}
         /\ file[f].state \in {"blank", "partial", "written", "stable"}
BY CompactionAssumption DEF TypeOK

LEMMA OpenBudgetStep ==
  ASSUME CompactionInv, NEW p \in Process, OpenBudget(p)
  PROVE  CompactionInv'
<1>1. budget = None /\ budget' = p /\ To(p, "budget") /\ UNCHANGED <<disk, history, lock, fd, mine>>
  BY DEF OpenBudget
<1>2. pc'[p] = "budget" /\ \A q \in Process \ {p} : Held(q)' /\ Prepared(q)'
  BY <1>1, Alone
<1>3. Held(p)' /\ Prepared(p)'
  BY <1>1, <1>2 DEF Held, Prepared, Writing
<1>4. job' \in [Process -> [role : Roles, scope : Scope \cup {None}, target : Scope \cup {None},
                            archive : Name, checkpoint : Name]]
  BY DEF CompactionInv, TypeOK, OpenBudget
<1>5. TypeOK'
  BY <1>1, <1>4 DEF CompactionInv, TypeOK, To, Stages, disk, history
<1> QED
  BY <1>1, <1>2, <1>3, <1>5, DiskKept DEF CompactionInv

LEMMA OpenJournalStep ==
  ASSUME CompactionInv, NEW p \in Process, OpenJournal(p)
  PROVE  CompactionInv'
<1>1. /\ pc[p] = "budget" /\ To(p, "opened") /\ fd' = [fd EXCEPT ![p] = dir[Journal]]
      /\ UNCHANGED <<disk, lock, budget, job, mine, history>>
  BY DEF OpenJournal
<1>2. pc'[p] = "opened" /\ \A q \in Process \ {p} : Held(q)' /\ Prepared(q)'
  BY <1>1, Alone
<1>3. TypeOK'
  BY <1>1, CompactionAssumption DEF CompactionInv, TypeOK, To, Stages, disk, history
<1>4. Held(p)' /\ Prepared(p)'
  BY <1>1, <1>2 DEF Held, Prepared, Writing, CompactionInv, TypeOK, disk
<1> QED
  BY <1>1, <1>2, <1>3, <1>4, DiskKept DEF CompactionInv

LEMMA LockJournalStep ==
  ASSUME CompactionInv, NEW p \in Process, LockJournal(p)
  PROVE  CompactionInv'
<1>1. /\ pc[p] = "opened" /\ To(p, "ready") /\ lock' = [lock EXCEPT ![fd[p]] = p]
      /\ file[fd[p]].scope = job[p].scope
      /\ UNCHANGED <<disk, budget, job, fd, mine, history>>
  BY DEF LockJournal, Replayable
<1>2. pc'[p] = "ready" /\ \A q \in Process \ {p} : Held(q)' /\ Prepared(q)'
  BY <1>1, Alone
<1>3. fd[p] = dir[Journal] /\ dir[Journal] \in File
  BY <1>1 DEF CompactionInv, Held, Journals, TypeOK
<1>4. TypeOK'
  BY <1>1 DEF CompactionInv, TypeOK, To, Stages, disk, history
<1>5. Held(p)' /\ Prepared(p)'
  BY <1>1, <1>2, <1>3 DEF Held, Prepared, Writing, CompactionInv, TypeOK, disk
<1> QED
  BY <1>1, <1>2, <1>4, <1>5, DiskKept DEF CompactionInv

LEMMA BeginStep ==
  ASSUME CompactionInv, NEW p \in Process, Begin(p)
  PROVE  CompactionInv'
<1> DEFINE f == fd[p]
           i == file[f].last + 1
<1>1. /\ pc[p] = "ready" /\ job[p].role = "router" /\ file[f].last < MaxId
      /\ file' = [file EXCEPT ![f] = Contents(@.scope, i, @.pending \cup {i}, @.state)]
      /\ mine' = [mine EXCEPT ![p] = @ \cup {i}]
      /\ scopeOf' = [scopeOf EXCEPT ![i] = job[p].scope]
      /\ over' = over \ {i}
      /\ exposed' = (exposed \/ \E d \in old : d[Journal] # dir[Journal])
      /\ UNCHANGED <<dir, old, lock, budget, pc, job, fd, served>>
  BY DEF Begin, Serving, run
<1>2. f = dir[Journal] /\ f \in File /\ file[f].state = "stable" /\ file[f].scope = job[p].scope
  BY <1>1 DEF CompactionInv, Held, Journals, TypeOK
<1>3. i \in Id /\ i \in 0..MaxId
  BY <1>1, <1>2, FileTyped, CompactionAssumption DEF CompactionInv, Id
<1>4. /\ file' \in [File -> [scope : Scope \cup {None}, last : 0..MaxId, pending : SUBSET Id,
                             state : {"blank", "partial", "written", "stable"}]]
      /\ file'[f].last = i /\ file'[f].pending = file[f].pending \cup {i}
      /\ file'[f].state = file[f].state /\ file'[f].scope = file[f].scope
      /\ \A g \in File \ {f} : file'[g] = file[g]
  <2>1. file[f].pending \cup {i} \in SUBSET Id
    BY <1>2, <1>3, FileTyped DEF CompactionInv
  <2>2. file' = [file EXCEPT ![f] = Contents(file[f].scope, i, file[f].pending \cup {i}, file[f].state)]
    BY <1>1
  <2> HIDE DEF i
  <2> QED
    BY <1>2, <1>3, <2>1, <2>2, FileTyped DEF CompactionInv, TypeOK, Contents
<1> HIDE DEF f, i
<1>5. TypeOK'
  <2>2. mine' \in [Process -> SUBSET Id] /\ over' \subseteq Id /\ exposed' \in BOOLEAN
    BY <1>1, <1>3 DEF CompactionInv, TypeOK
  <2>3. job[p].scope \in Scope \cup {None}
    BY DEF CompactionInv, TypeOK
  <2>4. scopeOf' \in [Id -> Scope \cup {None}]
    BY <1>1, <1>3, <2>3 DEF CompactionInv, TypeOK
  <2> QED
    BY <1>1, <1>4, <2>2, <2>4 DEF CompactionInv, TypeOK
<1>6. ASSUME NEW q \in Process PROVE Held(q)' /\ Prepared(q)'
  <2>1. CASE q = p
    BY <1>1, <1>2, <1>4, <2>1 DEF CompactionInv, Held, Prepared, Writing, f
  <2>2. CASE q # p
    <3>1. pc'[q] = "idle"
      BY <1>1, <2>2, CompactionAssumption DEF CompactionInv, Held, TypeOK
    <3> QED
      BY <3>1 DEF Held, Prepared, Writing
  <2> QED
    BY <2>1, <2>2
<1>7. \A g \in File : /\ file'[g].state = file[g].state /\ file'[g].scope = file[g].scope
                      /\ file[g].last <= file'[g].last
                      /\ file'[g].last <= IF g = f THEN i ELSE file[g].last
  <2> TAKE g \in File
  <2>1. file[g].last \in Int /\ file[f].last \in Int
    BY <1>2, FileTyped DEF CompactionInv
  <2>2. CASE g = f
    BY <1>4, <2>1, <2>2 DEF i
  <2>3. CASE g # f
    BY <1>4, <2>1, <2>3
  <2> QED
    BY <2>2, <2>3
<1>8. Journals'
  <2>1. ASSUME NEW d \in old PROVE /\ d[Journal] \in File /\ file'[d[Journal]].state = "stable"
                                   /\ file'[d[Journal]].last <= file'[f].last
    <3>1. d[Journal] \in File /\ file[d[Journal]].state = "stable" /\ file[d[Journal]].last <= file[f].last
      BY <1>2 DEF CompactionInv, Journals
    <3>2. file[d[Journal]].last \in Int /\ file[f].last \in Int
      BY <1>2, <3>1, FileTyped DEF CompactionInv
    <3>3. CASE d[Journal] = f
      BY <1>4, <3>1, <3>2, <3>3 DEF i
    <3>4. CASE d[Journal] # f
      BY <1>4, <3>1, <3>2, <3>4 DEF i
    <3> QED
      BY <3>3, <3>4
  <2>2. ASSUME NEW g \in File, NEW j \in file'[g].pending PROVE j <= file'[g].last
    <3>1. CASE g # f
      BY <1>4, <3>1 DEF CompactionInv, Journals
    <3>2. CASE g = f
      <4>1. j = i \/ (j \in file[f].pending /\ j <= file[f].last /\ j \in Int)
        BY <1>2, <1>4, <3>2, FileTyped DEF CompactionInv, Journals, Id
      <4>2. file[f].last \in Int /\ file'[g].last = file[f].last + 1 /\ i = file[f].last + 1
        BY <1>2, <1>4, <3>2, FileTyped DEF CompactionInv, i
      <4> QED
        BY <4>1, <4>2
    <3> QED
      BY <3>1, <3>2
  <2> QED
    BY <1>1, <1>2, <2>1, <2>2 DEF Journals
<1>9. NothingForgotten'
  <2> SUFFICES ASSUME ~exposed', NEW d \in old
               PROVE  /\ file'[d[Journal]].state = "stable"
                      /\ \A j \in Id : scopeOf'[j] # None =>
                           /\ j <= file'[d[Journal]].last
                           /\ j \in over' \/ j \in file'[d[Journal]].pending
    BY <1>1 DEF NothingForgotten
  <2>1. ~exposed /\ d[Journal] = f
    BY <1>1, <1>2 DEF CompactionInv, TypeOK
  <2>2. ASSUME NEW j \in Id, scopeOf'[j] # None
        PROVE  j <= file'[f].last /\ (j \in over' \/ j \in file'[f].pending)
    <3>1. CASE j = i
      BY <1>3, <1>4, <3>1 DEF Id
    <3>2. CASE j # i
      <4>1. scopeOf[j] # None
        BY <1>1, <1>3, <2>2, <3>2 DEF CompactionInv, TypeOK
      <4>2. j <= file[f].last /\ (j \in over \/ j \in file[f].pending)
        BY <2>1, <4>1 DEF CompactionInv, NothingForgotten
      <4>3. j \in Int /\ file[f].last \in Int
        BY <1>2, FileTyped DEF Id, CompactionInv
      <4>4. file'[f].last = file[f].last + 1
        BY <1>4 DEF i
      <4>5. j <= file'[f].last
        BY <4>2, <4>3, <4>4
      <4>6. over' = over \ {i} /\ file'[f].pending = file[f].pending \cup {i}
        BY <1>1, <1>4
      <4>7. j \in over' \/ j \in file'[f].pending
        BY <3>2, <4>2, <4>6
      <4> QED
        BY <4>5, <4>7
    <3> QED
      BY <3>1, <3>2
  <2> QED
    BY <1>2, <1>4, <2>1, <2>2
<1>10. OriginalsNamed'
  BY <1>1 DEF CompactionInv, OriginalsNamed
<1>11. WorkKeepsScope'
  <2> SUFFICES ASSUME NEW d \in old, NEW j \in file'[d[Journal]].pending, j \notin over'
               PROVE  file'[d[Journal]].scope = scopeOf'[j]
    BY <1>1 DEF WorkKeepsScope
  <2>1. d[Journal] \in File /\ file[d[Journal]].last <= file[f].last
    BY <1>2 DEF CompactionInv, Journals
  <2>2. CASE j = i /\ d[Journal] = f
    BY <1>1, <1>2, <1>3, <1>4, <2>2 DEF CompactionInv, TypeOK
  <2>3. CASE j = i /\ d[Journal] # f
    <3>1. i \in file[d[Journal]].pending
      BY <1>4, <2>1, <2>3
    <3>2. i <= file[d[Journal]].last
      BY <2>1, <3>1 DEF CompactionInv, Journals
    <3>3. file[d[Journal]].last \in Int /\ file[f].last \in Int
      BY <1>2, <2>1, FileTyped DEF CompactionInv
    <3> QED
      BY <2>1, <3>2, <3>3 DEF i
  <2>4. CASE j # i
    <3>1. j \in file[d[Journal]].pending /\ j \notin over /\ file'[d[Journal]].scope = file[d[Journal]].scope
      BY <1>1, <1>4, <1>7, <2>1, <2>4
    <3>2. scopeOf'[j] = scopeOf[j]
      <4>1. j \in Id
        BY <2>1, <3>1, FileTyped DEF CompactionInv
      <4> QED
        BY <1>1, <1>3, <2>4, <4>1 DEF CompactionInv, TypeOK
    <3> QED
      BY <3>1, <3>2 DEF CompactionInv, WorkKeepsScope
  <2> QED
    BY <2>2, <2>3, <2>4
<1> QED
  BY <1>5, <1>6, <1>8, <1>9, <1>10, <1>11 DEF CompactionInv

LEMMA CompleteStep ==
  ASSUME CompactionInv, NEW p \in Process, Complete(p)
  PROVE  CompactionInv'
<1> DEFINE f == fd[p]
<1>1. PICK i \in mine[p] :
        /\ file' = [file EXCEPT ![f] = Contents(@.scope, @.last, @.pending \ {i}, @.state)]
        /\ mine' = [mine EXCEPT ![p] = @ \ {i}]
        /\ over' = over \cup {i}
  BY DEF Complete
<1>2. /\ pc[p] = "ready" /\ job[p].role = "router"
      /\ UNCHANGED <<dir, old, lock, budget, pc, job, fd, scopeOf, served, exposed>>
  BY DEF Complete, Serving, run
<1>3. f = dir[Journal] /\ f \in File /\ i \in Id
  BY <1>2 DEF CompactionInv, Held, Journals, TypeOK
<1>4. /\ file' \in [File -> [scope : Scope \cup {None}, last : 0..MaxId, pending : SUBSET Id,
                             state : {"blank", "partial", "written", "stable"}]]
      /\ file'[f].pending = file[f].pending \ {i}
      /\ \A g \in File : /\ file'[g].scope = file[g].scope /\ file'[g].last = file[g].last
                         /\ file'[g].state = file[g].state
      /\ \A g \in File \ {f} : file'[g].pending = file[g].pending
  <2>1. file' = [file EXCEPT ![f] = Contents(file[f].scope, file[f].last, file[f].pending \ {i},
                                             file[f].state)]
    BY <1>1
  <2>2. file[f].pending \ {i} \in SUBSET Id
    BY <1>3, FileTyped DEF CompactionInv
  <2> QED
    BY <1>3, <2>1, <2>2, FileTyped DEF CompactionInv, TypeOK, Contents
<1> HIDE DEF f
<1>5. TypeOK'
  BY <1>1, <1>2, <1>3, <1>4 DEF CompactionInv, TypeOK
<1>6. ASSUME NEW q \in Process PROVE Held(q)' /\ Prepared(q)'
  <2>1. CASE q = p
    BY <1>2, <1>3, <1>4, <2>1 DEF CompactionInv, Held, Prepared, Writing, f
  <2>2. CASE q # p
    <3>1. pc'[q] = "idle"
      BY <1>2, <2>2, CompactionAssumption DEF CompactionInv, Held, TypeOK
    <3> QED
      BY <3>1 DEF Held, Prepared, Writing
  <2> QED
    BY <2>1, <2>2
<1>7. \A g \in File : /\ file'[g].pending \subseteq file[g].pending
                      /\ file[g].pending \subseteq file'[g].pending \cup {i}
  BY <1>4
<1>8. Journals'
  BY <1>2, <1>3, <1>4, <1>7 DEF CompactionInv, Journals
<1>9. NothingForgotten' /\ OriginalsNamed' /\ WorkKeepsScope'
  <2>1. \A d \in old : d[Journal] \in File
    BY DEF CompactionInv, Journals
  <2>2. NothingForgotten'
    BY <1>1, <1>2, <1>4, <1>7, <2>1 DEF CompactionInv, NothingForgotten
  <2>3. OriginalsNamed'
    BY <1>2 DEF CompactionInv, OriginalsNamed
  <2>4. WorkKeepsScope'
    <3> SUFFICES ASSUME NEW d \in old, NEW j \in file'[d[Journal]].pending, j \notin over'
                 PROVE  file'[d[Journal]].scope = scopeOf[j]
      BY <1>2 DEF WorkKeepsScope
    <3>1. j \in file[d[Journal]].pending /\ j \notin over
      BY <1>1, <1>7, <2>1
    <3> QED
      BY <1>4, <2>1, <3>1 DEF CompactionInv, WorkKeepsScope
  <2> QED
    BY <2>2, <2>3, <2>4
<1> QED
  BY <1>5, <1>6, <1>8, <1>9 DEF CompactionInv

-----------------------------------------------------------------------------
(* What an operation on the directory can leave.                           *)
LEMMA DirectoryOpFacts ==
  ASSUME TypeOK, NEW new \in [Name -> 0..MaxFiles], DirectoryOp(new)
  PROVE  /\ dir' = new /\ dir' \in old' /\ old' \subseteq [Name -> 0..MaxFiles]
         /\ \A d \in old' : d \in old \/ \E e \in old : \A n \in Name :
              IF new[n] = dir[n] THEN d[n] = e[n] ELSE d[n] = new[n] /\ e[n] = dir[n]
<1> DEFINE Op(d) == [n \in Name |-> IF new[n] = dir[n] THEN d[n] ELSE new[n]]
<1>1. /\ dir' = new
      /\ old' = old \cup {Op(d) : d \in {e \in old : \A n \in Name : new[n] = dir[n] \/ e[n] = dir[n]}}
  BY DEF DirectoryOp
<1>2. \A d \in old : Op(d) \in [Name -> 0..MaxFiles]
  BY DEF TypeOK
<1>3. Op(dir) = new /\ dir \in old
  BY DEF TypeOK
<1>4. new \in old'
  <2>1. dir \in {e \in old : \A n \in Name : new[n] = dir[n] \/ e[n] = dir[n]}
    BY <1>3
  <2> HIDE DEF Op
  <2> QED
    BY <1>1, <1>3, <2>1
<1>5. old' \subseteq [Name -> 0..MaxFiles]
  <2> HIDE DEF Op
  <2> QED
    BY <1>1, <1>2 DEF TypeOK
<1>6. ASSUME NEW d \in old', d \notin old
      PROVE  \E e \in old : \A n \in Name :
               IF new[n] = dir[n] THEN d[n] = e[n] ELSE d[n] = new[n] /\ e[n] = dir[n]
  <2>1. PICK e \in old : d = Op(e) /\ \A n \in Name : new[n] = dir[n] \/ e[n] = dir[n]
    <3> HIDE DEF Op
    <3> QED
      BY <1>1, <1>6
  <2>2. \A n \in Name : IF new[n] = dir[n] THEN d[n] = e[n] ELSE d[n] = new[n] /\ e[n] = dir[n]
    BY <2>1
  <2> QED
    BY <2>2
<1> QED
  BY <1>1, <1>4, <1>5, <1>6

(* The journals that the path may denote stay what they were.              *)
LEMMA JournalsKept ==
  ASSUME CompactionInv, UNCHANGED <<scopeOf, over, exposed>>,
         dir' \in old', dir'[Journal] = dir[Journal],
         \A d \in old' : \E e \in old : d[Journal] = e[Journal],
         \A e \in old : /\ file'[e[Journal]].scope = file[e[Journal]].scope
                        /\ file'[e[Journal]].last = file[e[Journal]].last
                        /\ file'[e[Journal]].pending = file[e[Journal]].pending
                        /\ file'[e[Journal]].state = "stable",
         \A g \in File : \A i \in file'[g].pending : i <= file'[g].last
  PROVE  Journals' /\ NothingForgotten' /\ WorkKeepsScope'
<1>1. dir \in old
  BY DEF CompactionInv, TypeOK
<1>2. file'[dir'[Journal]].last = file[dir[Journal]].last
  BY <1>1
<1>3. ASSUME NEW d \in old'
      PROVE  /\ d[Journal] \in File /\ file'[d[Journal]].state = "stable"
             /\ file'[d[Journal]].last <= file'[dir'[Journal]].last
             /\ ~exposed => \A i \in Id : scopeOf[i] # None =>
                  /\ i <= file'[d[Journal]].last
                  /\ i \in over \/ i \in file'[d[Journal]].pending
             /\ \A i \in file'[d[Journal]].pending :
                  i \notin over => file'[d[Journal]].scope = scopeOf[i]
  <2>1. PICK e \in old : d[Journal] = e[Journal]
    OBVIOUS
  <2>2. /\ e[Journal] \in File /\ file[e[Journal]].state = "stable"
        /\ file[e[Journal]].last <= file[dir[Journal]].last
    BY DEF CompactionInv, Journals
  <2>3. ~exposed => \A i \in Id : scopeOf[i] # None =>
                  /\ i <= file[e[Journal]].last
                  /\ i \in over \/ i \in file[e[Journal]].pending
    BY DEF CompactionInv, NothingForgotten
  <2>4. \A i \in file[e[Journal]].pending : i \notin over => file[e[Journal]].scope = scopeOf[i]
    BY DEF CompactionInv, WorkKeepsScope
  <2> QED
    BY <1>2, <2>1, <2>2, <2>3, <2>4
<1>4. Journals'
  BY <1>3 DEF Journals
<1>5. NothingForgotten'
  BY <1>3 DEF NothingForgotten
<1>6. WorkKeepsScope'
  BY <1>3 DEF WorkKeepsScope
<1> QED
  BY <1>4, <1>5, <1>6

(* What the tool finds at each of its steps.                               *)
LEMMA ToolFacts ==
  ASSUME CompactionInv, NEW p \in Process, pc[p] \in Writing \cup {"ready"}
  PROVE  /\ budget = p /\ fd[p] = dir[Journal] /\ dir[Journal] \in File /\ fd[p] \in File
         /\ lock[fd[p]] = p /\ file[fd[p]].scope = job[p].scope
         /\ file[dir[Journal]].state = "stable"
         /\ job[p].checkpoint \in Name /\ job[p].archive \in Name /\ Journal \in Name
         /\ job[p].target \in Scope \cup {None} /\ job[p].scope \in Scope \cup {None}
         /\ dir \in [Name -> 0..MaxFiles] /\ dir \in old /\ pc[p] # "idle" /\ 0 \notin File
<1>1. pc[p] # "idle" /\ Held(p) /\ TypeOK
  BY DEF Writing, CompactionInv
<1>2. dir \in old /\ dir[Journal] \in File /\ file[dir[Journal]].state = "stable"
  BY <1>1 DEF CompactionInv, Journals, TypeOK
<1>3. job[p] \in [role : Roles, scope : Scope \cup {None}, target : Scope \cup {None},
                  archive : Name, checkpoint : Name]
  BY <1>1 DEF TypeOK
<1>4. 0 \notin File
  BY DEF File
<1> QED
  BY <1>1, <1>2, <1>3, <1>4, CompactionAssumption DEF Held, TypeOK

LEMMA CreateCheckpointStep ==
  ASSUME CompactionInv, NEW p \in Process, CreateCheckpoint(p)
  PROVE  CompactionInv'
<1> DEFINE c == job[p].checkpoint
<1>1. PICK f \in File \ Made :
        /\ file' = [file EXCEPT ![f] = Contents(None, 0, {}, "partial")]
        /\ lock' = [lock EXCEPT ![f] = p]
        /\ DirectoryOp([dir EXCEPT ![c] = f])
  BY DEF CreateCheckpoint
<1>2. /\ pc[p] = "ready" /\ To(p, "created") /\ dir[c] = 0
      /\ job[p].scope = job[p].target \/ file[fd[p]].pending = {}
      /\ UNCHANGED <<budget, job, fd, mine, history>>
  BY DEF CreateCheckpoint
<1>3. /\ fd[p] = dir[Journal] /\ dir[Journal] \in File /\ lock[fd[p]] = p /\ budget = p
      /\ file[fd[p]].scope = job[p].scope /\ c \in Name /\ Journal \in Name
      /\ dir \in [Name -> 0..MaxFiles] /\ pc[p] # "idle" /\ 0 \notin File /\ c # Journal
  BY <1>2, ToolFacts
<1>4. file[f].state = "blank" /\ f \in File /\ f \in 0..MaxFiles /\ \A e \in old : e[Journal] # f
  BY DEF Made, File, CompactionInv, Journals
<1>5. /\ file' \in [File -> [scope : Scope \cup {None}, last : 0..MaxId, pending : SUBSET Id,
                             state : {"blank", "partial", "written", "stable"}]]
      /\ file'[f].state = "partial" /\ file'[f].pending = {}
      /\ \A g \in File \ {f} : file'[g] = file[g]
  BY <1>1, CompactionAssumption DEF CompactionInv, TypeOK, Contents
<1>6. /\ dir'[c] = f /\ dir'[Journal] = dir[Journal]
      /\ dir' \in [Name -> 0..MaxFiles] /\ dir' \in old' /\ old' \subseteq [Name -> 0..MaxFiles]
      /\ \A d \in old' : \E e \in old : \A n \in Name : d[n] = e[n] \/ (e[n] = 0 /\ n = c)
  <2> DEFINE new == [dir EXCEPT ![c] = f]
  <2>1. new \in [Name -> 0..MaxFiles] /\ new[c] = f /\ \A n \in Name \ {c} : new[n] = dir[n]
    BY <1>3, <1>4
  <2>2. DirectoryOp(new) /\ TypeOK
    BY <1>1 DEF CompactionInv
  <2> HIDE DEF new, c
  <2>3. /\ dir' = new /\ dir' \in old' /\ old' \subseteq [Name -> 0..MaxFiles]
        /\ \A d \in old' : d \in old \/ \E e \in old : \A n \in Name :
             IF new[n] = dir[n] THEN d[n] = e[n] ELSE d[n] = new[n] /\ e[n] = dir[n]
    BY <2>1, <2>2, DirectoryOpFacts
  <2> QED
    BY <1>2, <1>3, <2>1, <2>3 DEF c
<1>7. pc'[p] = "created" /\ \A q \in Process \ {p} : Held(q)' /\ Prepared(q)'
  BY <1>2, <1>3, Alone
<1>8. TypeOK'
  BY <1>1, <1>2, <1>5, <1>6 DEF CompactionInv, TypeOK, To, Stages, history
<1>9. Held(p)' /\ Prepared(p)'
  <2>1. lock'[fd[p]] = p /\ file'[fd[p]] = file[fd[p]]
    BY <1>1, <1>3, <1>4, <1>5 DEF CompactionInv, TypeOK
  <2> QED
    BY <1>2, <1>3, <1>4, <1>5, <1>6, <1>7, <2>1 DEF Held, Prepared, Writing
<1>10. Journals' /\ NothingForgotten' /\ WorkKeepsScope'
  <2>1. \A e \in old : e[Journal] \in File /\ file'[e[Journal]] = file[e[Journal]]
                       /\ file[e[Journal]].state = "stable"
    BY <1>4, <1>5 DEF CompactionInv, Journals
  <2>2. \A g \in File : \A i \in file'[g].pending : i <= file'[g].last
    BY <1>5 DEF CompactionInv, Journals
  <2>3. \A d \in old' : \E e \in old : d[Journal] = e[Journal]
    BY <1>3, <1>6
  <2> QED
    BY <1>2, <1>6, <2>1, <2>2, <2>3, JournalsKept DEF history
<1>11. OriginalsNamed'
  <2> SUFFICES ASSUME NEW x \in served, NEW d \in old' PROVE \E n \in Name : d[n] = x
    BY <1>2 DEF OriginalsNamed, history
  <2>1. PICK e \in old : \A n \in Name : d[n] = e[n] \/ (e[n] = 0 /\ n = c)
    BY <1>6
  <2>2. PICK n \in Name : e[n] = x
    BY DEF CompactionInv, OriginalsNamed
  <2>3. x # 0
    BY <1>3 DEF CompactionInv, TypeOK
  <2> QED
    BY <2>1, <2>2, <2>3
<1> QED
  BY <1>7, <1>8, <1>9, <1>10, <1>11 DEF CompactionInv

LEMMA WriteCheckpointStep ==
  ASSUME CompactionInv, NEW p \in Process, WriteCheckpoint(p)
  PROVE  CompactionInv'
<1> DEFINE f == dir[job[p].checkpoint]
<1>1. /\ pc[p] = "created" /\ To(p, "written")
      /\ file' = [file EXCEPT ![f] = Contents(job[p].target, file[fd[p]].last, file[fd[p]].pending, "written")]
      /\ UNCHANGED <<dir, old, lock, budget, job, fd, mine, history>>
  BY DEF WriteCheckpoint
<1>2. /\ fd[p] = dir[Journal] /\ dir[Journal] \in File /\ lock[fd[p]] = p /\ budget = p
      /\ file[fd[p]].scope = job[p].scope /\ job[p].target \in Scope \cup {None}
      /\ dir \in old /\ pc[p] # "idle"
  BY <1>1, ToolFacts DEF Writing
<1>3. /\ f \in File /\ f # dir[Journal] /\ file[f].state = "partial"
      /\ job[p].scope = job[p].target \/ file[dir[Journal]].pending = {}
  BY <1>1 DEF CompactionInv, Prepared, Writing
<1>4. /\ file' \in [File -> [scope : Scope \cup {None}, last : 0..MaxId, pending : SUBSET Id,
                             state : {"blank", "partial", "written", "stable"}]]
      /\ file'[f].last = file[fd[p]].last /\ file'[f].pending = file[fd[p]].pending
      /\ \A g \in File \ {f} : file'[g] = file[g]
  <2>1. file[fd[p]].last \in 0..MaxId /\ file[fd[p]].pending \subseteq Id
    BY <1>2, FileTyped DEF CompactionInv
  <2> QED
    BY <1>1, <1>2, <1>3, <2>1 DEF CompactionInv, TypeOK, Contents
<1> HIDE DEF f
<1>5. pc'[p] = "written" /\ \A q \in Process \ {p} : Held(q)' /\ Prepared(q)'
  BY <1>1, <1>2, Alone
<1>6. TypeOK'
  BY <1>1, <1>4 DEF CompactionInv, TypeOK, To, Stages, history
<1>7. Held(p)' /\ Prepared(p)'
  <2>1. /\ file'[dir'[Journal]] = file[dir[Journal]] /\ dir'[job'[p].checkpoint] = f
        /\ dir'[Journal] = dir[Journal] /\ job'[p] = job[p]
    BY <1>1, <1>2, <1>3, <1>4 DEF f
  <2>2. budget' = p /\ fd'[p] = dir'[Journal] /\ lock'[fd'[p]] = p /\ file'[fd'[p]].scope = job'[p].scope
    BY <1>1, <1>2, <2>1
  <2> QED
    BY <1>3, <1>4, <1>5, <2>1, <2>2 DEF Held, Prepared, Writing
<1>8. Journals' /\ NothingForgotten' /\ WorkKeepsScope'
  <2>1. \A e \in old : e[Journal] \in File /\ file[e[Journal]].state = "stable"
    BY DEF CompactionInv, Journals
  <2>2. \A e \in old : file'[e[Journal]] = file[e[Journal]]
    BY <1>3, <1>4, <2>1
  <2>3. \A g \in File : \A i \in file'[g].pending : i <= file'[g].last
    BY <1>2, <1>4 DEF CompactionInv, Journals
  <2> QED
    BY <1>1, <1>2, <2>1, <2>2, <2>3, JournalsKept DEF history
<1>9. OriginalsNamed'
  BY <1>1 DEF CompactionInv, OriginalsNamed, history
<1> QED
  BY <1>5, <1>6, <1>7, <1>8, <1>9 DEF CompactionInv

LEMMA SyncCheckpointStep ==
  ASSUME CompactionInv, NEW p \in Process, SyncCheckpoint(p)
  PROVE  CompactionInv'
<1> DEFINE f == dir[job[p].checkpoint]
<1>1. /\ pc[p] = "written" /\ To(p, "synced")
      /\ file' = [file EXCEPT ![f] = Contents(file[f].scope, file[f].last, file[f].pending, "stable")]
      /\ UNCHANGED <<dir, old, lock, budget, job, fd, mine, history>>
  BY DEF SyncCheckpoint
<1>2. /\ fd[p] = dir[Journal] /\ dir[Journal] \in File /\ lock[fd[p]] = p /\ budget = p
      /\ file[fd[p]].scope = job[p].scope /\ dir \in old /\ pc[p] # "idle"
  BY <1>1, ToolFacts DEF Writing
<1>3. /\ f \in File /\ f # dir[Journal]
      /\ job[p].scope = job[p].target \/ file[dir[Journal]].pending = {}
  BY <1>1 DEF CompactionInv, Prepared, Writing
<1>4. /\ file' \in [File -> [scope : Scope \cup {None}, last : 0..MaxId, pending : SUBSET Id,
                             state : {"blank", "partial", "written", "stable"}]]
      /\ file'[f].last = file[f].last /\ file'[f].pending = file[f].pending
      /\ file'[f].scope = file[f].scope /\ file'[f].state = "stable"
      /\ \A g \in File \ {f} : file'[g] = file[g]
  <2>1. file[f].last \in 0..MaxId /\ file[f].pending \subseteq Id /\ file[f].scope \in Scope \cup {None}
    BY <1>3, FileTyped DEF CompactionInv
  <2> QED
    BY <1>1, <1>3, <2>1 DEF CompactionInv, TypeOK, Contents
<1> HIDE DEF f
<1>5. pc'[p] = "synced" /\ \A q \in Process \ {p} : Held(q)' /\ Prepared(q)'
  BY <1>1, <1>2, Alone
<1>6. TypeOK'
  BY <1>1, <1>4 DEF CompactionInv, TypeOK, To, Stages, history
<1>7. Held(p)' /\ Prepared(p)'
  <2>1. /\ file'[dir'[Journal]] = file[dir[Journal]] /\ dir'[job'[p].checkpoint] = f
        /\ dir'[Journal] = dir[Journal] /\ job'[p] = job[p]
    BY <1>1, <1>2, <1>3, <1>4 DEF f
  <2>2. budget' = p /\ fd'[p] = dir'[Journal] /\ lock'[fd'[p]] = p /\ file'[fd'[p]].scope = job'[p].scope
    BY <1>1, <1>2, <2>1
  <2> QED
    BY <1>3, <1>4, <1>5, <2>1, <2>2 DEF Held, Prepared, Writing
<1>8. Journals' /\ NothingForgotten' /\ WorkKeepsScope'
  <2>1. \A e \in old : e[Journal] \in File /\ file[e[Journal]].state = "stable"
    BY DEF CompactionInv, Journals
  <2>2. \A g \in File : /\ file'[g].scope = file[g].scope /\ file'[g].last = file[g].last
                        /\ file'[g].pending = file[g].pending
                        /\ file[g].state = "stable" => file'[g].state = "stable"
    BY <1>4
  <2>3. \A g \in File : \A i \in file'[g].pending : i <= file'[g].last
    BY <2>2 DEF CompactionInv, Journals
  <2> QED
    BY <1>1, <1>2, <2>1, <2>2, <2>3, JournalsKept DEF history
<1>9. OriginalsNamed'
  BY <1>1 DEF CompactionInv, OriginalsNamed, history
<1> QED
  BY <1>5, <1>6, <1>7, <1>8, <1>9 DEF CompactionInv

LEMMA SyncDirectoryStep ==
  ASSUME CompactionInv, NEW p \in Process, SyncDirectory(p)
  PROVE  CompactionInv'
<1> DEFINE f == dir[job[p].checkpoint]
<1>1. /\ pc[p] \in {"synced", "linked", "replaced"} /\ To(p, AfterSync[pc[p]]) /\ old' = {dir}
      /\ lock' = IF pc[p] = "synced" THEN [lock EXCEPT ![f] = None] ELSE lock
      /\ UNCHANGED <<dir, file, budget, job, fd, mine, history>>
  BY DEF SyncDirectory, AfterSync
<1>2. TypeOK /\ dir \in old /\ pc[p] # "idle" /\ budget = p
  BY <1>1 DEF CompactionInv, TypeOK, Held
<1>3. pc'[p] = AfterSync[pc[p]] /\ \A q \in Process \ {p} : Held(q)' /\ Prepared(q)'
  BY <1>1, <1>2, Alone
<1>4. /\ pc[p] = "synced" => pc'[p] = "exported"
      /\ pc[p] = "linked" => pc'[p] = "archived"
      /\ pc[p] = "replaced" => pc'[p] = "finished"
  BY <1>3 DEF AfterSync
<1>5. TypeOK'
  <2>1. lock' \in [File -> Process \cup {None}]
    BY <1>1, <1>2 DEF TypeOK
  <2>2. pc' \in [Process -> Stages]
    BY <1>1, <1>2 DEF TypeOK, To, Stages, AfterSync
  <2> QED
    BY <1>1, <1>2, <2>1, <2>2 DEF TypeOK, history
<1> HIDE DEF f
<1>6. Held(p)' /\ Prepared(p)'
  <2>1. CASE pc[p] = "replaced"
    BY <1>1, <1>2, <1>4, <2>1 DEF Held, Prepared, Writing
  <2>2. CASE pc[p] \in {"synced", "linked"}
    <3>1. /\ fd[p] = dir[Journal] /\ fd[p] \in File /\ lock[fd[p]] = p /\ file[fd[p]].scope = job[p].scope
      BY <2>2, ToolFacts DEF Writing
    <3>2. /\ f \in File /\ f # dir[Journal] /\ file[f].state = "stable"
          /\ job[p].scope = job[p].target \/ file[dir[Journal]].pending = {}
          /\ pc[p] = "linked" => job[p].archive # Journal /\ dir[job[p].archive] = dir[Journal]
      BY <2>2 DEF CompactionInv, Prepared, Writing, f
    <3>3. lock'[fd[p]] = p
      BY <1>1, <1>2, <3>1, <3>2 DEF TypeOK
    <3>4. Held(p)'
      BY <1>1, <1>2, <1>4, <2>2, <3>1, <3>3 DEF Held
    <3>5. Prepared(p)'
      BY <1>1, <1>4, <2>2, <3>2 DEF Prepared, f
    <3> QED
      BY <3>4, <3>5
  <2> QED
    BY <1>1, <2>1, <2>2
<1>7. Journals' /\ NothingForgotten' /\ WorkKeepsScope'
  <2>1. \A e \in old : file[e[Journal]].state = "stable"
    BY DEF CompactionInv, Journals
  <2>2. \A g \in File : \A i \in file[g].pending : i <= file[g].last
    BY DEF CompactionInv, Journals
  <2> QED
    BY <1>1, <1>2, <2>1, <2>2, JournalsKept DEF history
<1>8. OriginalsNamed'
  BY <1>1, <1>2 DEF CompactionInv, OriginalsNamed, history
<1> QED
  BY <1>3, <1>5, <1>6, <1>7, <1>8 DEF CompactionInv

LEMMA LinkArchiveStep ==
  ASSUME CompactionInv, NEW p \in Process, LinkArchive(p)
  PROVE  CompactionInv'
<1> DEFINE a == job[p].archive
           c == job[p].checkpoint
<1>1. /\ pc[p] = "exported" /\ dir[a] = 0 /\ To(p, "linked")
      /\ DirectoryOp([dir EXCEPT ![a] = dir[Journal]])
      /\ UNCHANGED <<file, lock, budget, job, fd, mine, history>>
  BY DEF LinkArchive
<1>2. /\ fd[p] = dir[Journal] /\ dir[Journal] \in File /\ lock[fd[p]] = p /\ budget = p
      /\ file[fd[p]].scope = job[p].scope /\ a \in Name /\ Journal \in Name
      /\ dir \in [Name -> 0..MaxFiles] /\ pc[p] # "idle" /\ 0 \notin File /\ a # Journal
  BY <1>1, ToolFacts DEF Writing
<1>3. /\ dir[c] \in File /\ dir[c] # dir[Journal] /\ file[dir[c]].state = "stable" /\ a # c
      /\ job[p].scope = job[p].target \/ file[dir[Journal]].pending = {}
  BY <1>1, <1>2 DEF CompactionInv, Prepared, Writing
<1>4. /\ dir'[a] = dir[Journal] /\ \A n \in Name \ {a} : dir'[n] = dir[n]
      /\ dir' \in [Name -> 0..MaxFiles] /\ dir' \in old' /\ old' \subseteq [Name -> 0..MaxFiles]
      /\ \A d \in old' : \E e \in old : \A n \in Name : d[n] = e[n] \/ (e[n] = 0 /\ n = a)
  <2> DEFINE new == [dir EXCEPT ![a] = dir[Journal]]
  <2>1. new \in [Name -> 0..MaxFiles] /\ new[a] = dir[Journal] /\ \A n \in Name \ {a} : new[n] = dir[n]
    BY <1>2
  <2>2. DirectoryOp(new) /\ TypeOK
    BY <1>1 DEF CompactionInv
  <2> HIDE DEF new, a
  <2>3. /\ dir' = new /\ dir' \in old' /\ old' \subseteq [Name -> 0..MaxFiles]
        /\ \A d \in old' : d \in old \/ \E e \in old : \A n \in Name :
             IF new[n] = dir[n] THEN d[n] = e[n] ELSE d[n] = new[n] /\ e[n] = dir[n]
    BY <2>1, <2>2, DirectoryOpFacts
  <2> QED
    BY <1>1, <1>2, <2>1, <2>3 DEF a
<1>5. pc'[p] = "linked" /\ \A q \in Process \ {p} : Held(q)' /\ Prepared(q)'
  BY <1>1, <1>2, Alone
<1>6. TypeOK'
  BY <1>1, <1>4 DEF CompactionInv, TypeOK, To, Stages, history
<1>7. Held(p)' /\ Prepared(p)'
  <2>1. dir'[Journal] = dir[Journal] /\ job' = job /\ file' = file /\ dir'[a] = dir'[Journal]
    BY <1>1, <1>2, <1>4
  <2>2. dir'[c] = dir[c]
    BY <1>3, <1>4, CompactionAssumption DEF CompactionInv, TypeOK
  <2>3. Held(p)'
    BY <1>1, <1>2, <1>5, <2>1 DEF Held
  <2>4. Prepared(p)'
    BY <1>2, <1>3, <1>5, <2>1, <2>2 DEF Prepared
  <2> QED
    BY <2>3, <2>4
<1>8. Journals' /\ NothingForgotten' /\ WorkKeepsScope'
  <2>1. \A e \in old : file[e[Journal]].state = "stable"
    BY DEF CompactionInv, Journals
  <2>2. \A g \in File : \A i \in file[g].pending : i <= file[g].last
    BY DEF CompactionInv, Journals
  <2>3. \A d \in old' : \E e \in old : d[Journal] = e[Journal]
    BY <1>2, <1>4
  <2> QED
    BY <1>1, <1>2, <1>4, <2>1, <2>2, <2>3, JournalsKept DEF history
<1>9. OriginalsNamed'
  <2> SUFFICES ASSUME NEW x \in served, NEW d \in old' PROVE \E n \in Name : d[n] = x
    BY <1>1 DEF OriginalsNamed, history
  <2>1. PICK e \in old : \A n \in Name : d[n] = e[n] \/ (e[n] = 0 /\ n = a)
    BY <1>4
  <2>2. PICK n \in Name : e[n] = x
    BY DEF CompactionInv, OriginalsNamed
  <2>3. x # 0
    BY <1>2 DEF CompactionInv, TypeOK
  <2> QED
    BY <2>1, <2>2, <2>3
<1> QED
  BY <1>5, <1>6, <1>7, <1>8, <1>9 DEF CompactionInv

LEMMA VerifyCheckpointStep ==
  ASSUME CompactionInv, NEW p \in Process, VerifyCheckpoint(p)
  PROVE  CompactionInv'
<1> DEFINE f == dir[job[p].checkpoint]
<1>1. /\ pc[p] = "archived" /\ To(p, "verified") /\ lock' = [lock EXCEPT ![f] = p]
      /\ file[f].scope = job[p].target /\ file[f].last = file[fd[p]].last
      /\ file[f].pending = file[fd[p]].pending
      /\ UNCHANGED <<disk, budget, job, fd, mine, history>>
  BY DEF VerifyCheckpoint, Replayable
<1>2. /\ fd[p] = dir[Journal] /\ fd[p] \in File /\ lock[fd[p]] = p /\ budget = p
      /\ file[fd[p]].scope = job[p].scope /\ pc[p] # "idle"
  BY <1>1, ToolFacts DEF Writing
<1>3. /\ f \in File /\ f # dir[Journal] /\ file[f].state = "stable" /\ old = {dir}
      /\ job[p].scope = job[p].target \/ file[dir[Journal]].pending = {}
      /\ job[p].archive # Journal /\ dir[job[p].archive] = dir[Journal]
  BY <1>1 DEF CompactionInv, Prepared, Writing
<1>4. pc'[p] = "verified" /\ \A q \in Process \ {p} : Held(q)' /\ Prepared(q)'
  BY <1>1, <1>2, Alone
<1>5. TypeOK'
  BY <1>1 DEF CompactionInv, TypeOK, To, Stages, disk, history
<1>6. Held(p)' /\ Prepared(p)'
  <2>1. lock'[fd[p]] = p
    BY <1>1, <1>2, <1>3 DEF CompactionInv, TypeOK
  <2>2. Held(p)'
    BY <1>1, <1>2, <1>4, <2>1 DEF Held, disk
  <2>3. Prepared(p)'
    BY <1>1, <1>2, <1>3, <1>4 DEF Prepared, disk
  <2> QED
    BY <2>2, <2>3
<1> QED
  BY <1>1, <1>4, <1>5, <1>6, DiskKept DEF CompactionInv

LEMMA ReplaceStep ==
  ASSUME CompactionInv, NEW p \in Process, Replace(p)
  PROVE  CompactionInv'
<1> DEFINE c == job[p].checkpoint
           a == job[p].archive
           f == dir[c]
           j == dir[Journal]
<1>1. /\ pc[p] = "verified" /\ To(p, "replaced") /\ served' = served \cup {f}
      /\ DirectoryOp([dir EXCEPT ![Journal] = f, ![c] = 0])
      /\ UNCHANGED <<file, lock, budget, job, fd, mine, scopeOf, over, exposed>>
  BY DEF Replace
<1>2. /\ fd[p] = j /\ j \in File /\ budget = p /\ file[j].scope = job[p].scope
      /\ file[j].state = "stable" /\ a \in Name /\ c \in Name /\ Journal \in Name
      /\ dir \in [Name -> 0..MaxFiles] /\ pc[p] # "idle" /\ 0 \notin File
  BY <1>1, ToolFacts DEF Writing
<1>3. /\ f \in File /\ f # j /\ file[f].state = "stable" /\ old = {dir}
      /\ job[p].scope = job[p].target \/ file[j].pending = {}
      /\ a # Journal /\ dir[a] = j
      /\ file[f].scope = job[p].target /\ file[f].last = file[j].last /\ file[f].pending = file[j].pending
  BY <1>1 DEF CompactionInv, Prepared, Writing
<1>4. c # Journal /\ c # a
  BY <1>2, <1>3
<1>5. /\ dir'[Journal] = f /\ \A n \in Name \ {Journal, c} : dir'[n] = dir[n]
      /\ dir' \in [Name -> 0..MaxFiles] /\ dir' \in old' /\ old' \subseteq [Name -> 0..MaxFiles]
      /\ \A d \in old' : d = dir \/ \A n \in Name : d[n] = dir'[n]
  <2> DEFINE new == [dir EXCEPT ![Journal] = f, ![c] = 0]
  <2>1. /\ new \in [Name -> 0..MaxFiles] /\ new[Journal] = f
        /\ \A n \in Name \ {Journal, c} : new[n] = dir[n]
    <3>1. f \in 0..MaxFiles /\ 0 \in 0..MaxFiles
      BY <1>2, CompactionAssumption
    <3> HIDE DEF f, c
    <3> QED
      BY <1>2, <1>4, <3>1
  <2>2. DirectoryOp(new) /\ TypeOK
    BY <1>1 DEF CompactionInv
  <2> HIDE DEF new, c, f
  <2>3. /\ dir' = new /\ dir' \in old' /\ old' \subseteq [Name -> 0..MaxFiles]
        /\ \A d \in old' : d \in old \/ \E e \in old : \A n \in Name :
             IF new[n] = dir[n] THEN d[n] = e[n] ELSE d[n] = new[n] /\ e[n] = dir[n]
    BY <2>1, <2>2, DirectoryOpFacts
  <2> QED
    BY <1>3, <2>1, <2>3
<1> HIDE DEF c, a, f, j
<1>6. pc'[p] = "replaced" /\ \A q \in Process \ {p} : Held(q)' /\ Prepared(q)'
  BY <1>1, <1>2, Alone
<1>7. Held(p)' /\ Prepared(p)'
  BY <1>1, <1>2, <1>6 DEF Held, Prepared, Writing
<1>8. TypeOK'
  BY <1>1, <1>3, <1>5 DEF CompactionInv, TypeOK, To, Stages
<1>9. \A d \in old' : d[Journal] \in {f, j}
  BY <1>2, <1>5 DEF j
<1>10. Journals'
  <2>1. file[j].last \in Int
    BY <1>2, FileTyped DEF CompactionInv
  <2> QED
    BY <1>1, <1>2, <1>3, <1>5, <1>9, <2>1 DEF CompactionInv, Journals
<1>11. dir \in old /\ dir[Journal] = j
  BY DEF CompactionInv, TypeOK, j
<1>12. NothingForgotten'
  BY <1>1, <1>2, <1>3, <1>9, <1>11 DEF CompactionInv, NothingForgotten
<1>13. WorkKeepsScope'
  <2>1. \A i \in file[j].pending : i \notin over => file[j].scope = scopeOf[i]
    BY <1>11 DEF CompactionInv, WorkKeepsScope
  <2>2. \A i \in file[f].pending : i \notin over => file[f].scope = scopeOf[i]
    BY <1>2, <1>3, <2>1
  <2> QED
    BY <1>1, <1>9, <2>1, <2>2 DEF WorkKeepsScope
<1>14. OriginalsNamed'
  <2> SUFFICES ASSUME NEW x \in served', NEW d \in old' PROVE \E n \in Name : d[n] = x
    BY DEF OriginalsNamed
  <2>1. \A y \in served \cup {f} : \E n \in Name : dir[n] = y
    BY <1>2, <1>11 DEF CompactionInv, OriginalsNamed, f
  <2>2. PICK n \in Name : dir[n] = x
    BY <1>1, <2>1
  <2>3. CASE d = dir
    BY <2>2, <2>3
  <2>4. CASE \A m \in Name : d[m] = dir'[m]
    <3>1. CASE n = Journal
      BY <1>2, <1>3, <1>4, <1>5, <2>2, <2>4, <3>1, <1>11
    <3>2. CASE n = c
      BY <1>2, <1>5, <2>2, <2>4, <3>2 DEF f
    <3>3. CASE n \notin {Journal, c}
      BY <1>5, <2>2, <2>4, <3>3
    <3> QED
      BY <3>1, <3>2, <3>3
  <2> QED
    BY <1>5, <2>3, <2>4
<1> QED
  BY <1>6, <1>7, <1>8, <1>10, <1>12, <1>13, <1>14 DEF CompactionInv

-----------------------------------------------------------------------------
LEMMA LeaveStep ==
  ASSUME CompactionInv, NEW p \in Process, Leave(p)
  PROVE  CompactionInv'
<1>1. /\ pc[p] # "idle" /\ To(p, "idle") /\ UNCHANGED <<disk, history>>
      /\ lock' = [f \in File |-> IF lock[f] = p THEN None ELSE lock[f]]
      /\ budget' = IF budget = p THEN None ELSE budget
      /\ job' = [job EXCEPT ![p] = NoJob] /\ fd' = [fd EXCEPT ![p] = 0]
      /\ mine' = [mine EXCEPT ![p] = {}]
  BY DEF Leave
<1>2. pc'[p] = "idle" /\ \A q \in Process \ {p} : Held(q)' /\ Prepared(q)'
  BY <1>1, Alone
<1>3. Held(p)' /\ Prepared(p)'
  BY <1>2 DEF Held, Prepared, Writing
<1>4. job' \in [Process -> [role : Roles, scope : Scope \cup {None}, target : Scope \cup {None},
                            archive : Name, checkpoint : Name]]
  BY <1>1, CompactionAssumption DEF CompactionInv, TypeOK, NoJob, Roles
<1>5. fd' \in [Process -> 0..MaxFiles] /\ mine' \in [Process -> SUBSET Id] /\ pc' \in [Process -> Stages]
  BY <1>1, CompactionAssumption DEF CompactionInv, TypeOK, To, Stages
<1>6. lock' \in [File -> Process \cup {None}] /\ budget' \in Process \cup {None}
  BY <1>1 DEF CompactionInv, TypeOK
<1>7. TypeOK'
  BY <1>1, <1>4, <1>5, <1>6 DEF CompactionInv, TypeOK, disk, history
<1> QED
  BY <1>1, <1>2, <1>3, <1>7, DiskKept DEF CompactionInv

LEMMA PowerLossStep ==
  ASSUME CompactionInv, PowerLoss
  PROVE  CompactionInv'
<1>1. /\ dir' \in old /\ old' = {dir'} /\ pc' = [p \in Process |-> "idle"] /\ UNCHANGED history
      /\ file' = [f \in File |-> IF file[f].state = "written"
                                 THEN Contents(None, 0, {}, "partial") ELSE file[f]]
  BY DEF PowerLoss
<1>2. /\ dir'[Journal] \in File /\ file[dir'[Journal]].state = "stable"
      /\ dir' \in [Name -> 0..MaxFiles]
  BY <1>1 DEF CompactionInv, Journals, TypeOK
<1>3. file'[dir'[Journal]] = file[dir'[Journal]]
  BY <1>1, <1>2
<1>4. ASSUME NEW f \in File
      PROVE  /\ file'[f] \in [scope : Scope \cup {None}, last : 0..MaxId, pending : SUBSET Id,
                              state : {"blank", "partial", "written", "stable"}]
             /\ \A i \in file'[f].pending : i <= file'[f].last
  <2>1. CASE file[f].state = "written"
    BY <1>1, <2>1, CompactionAssumption DEF Contents
  <2>2. CASE file[f].state # "written"
    BY <1>1, <2>2 DEF CompactionInv, TypeOK, Journals
  <2> QED
    BY <2>1, <2>2
<1>5. TypeOK'
  <2>1. file' \in [File -> [scope : Scope \cup {None}, last : 0..MaxId, pending : SUBSET Id,
                            state : {"blank", "partial", "written", "stable"}]]
    BY <1>1, <1>4
  <2>2. job' \in [Process -> [role : Roles, scope : Scope \cup {None}, target : Scope \cup {None},
                              archive : Name, checkpoint : Name]]
    BY CompactionAssumption DEF PowerLoss, NoJob, Roles
  <2>3. /\ lock' \in [File -> Process \cup {None}] /\ budget' \in Process \cup {None}
        /\ pc' \in [Process -> Stages] /\ fd' \in [Process -> 0..MaxFiles]
        /\ mine' \in [Process -> SUBSET Id]
    BY CompactionAssumption DEF PowerLoss, Stages
  <2> QED
    BY <1>1, <1>2, <2>1, <2>2, <2>3 DEF CompactionInv, TypeOK, history
<1>6. \A p \in Process : Held(p)' /\ Prepared(p)'
  BY <1>1 DEF Held, Prepared, Writing
<1>7. Journals'
  <2>1. file[dir'[Journal]].last \in Int
    BY <1>2, FileTyped DEF CompactionInv
  <2> QED
    BY <1>1, <1>2, <1>3, <1>4, <2>1 DEF Journals
<1>8. NothingForgotten' /\ WorkKeepsScope' /\ OriginalsNamed'
  BY <1>1, <1>3 DEF CompactionInv, NothingForgotten, WorkKeepsScope, OriginalsNamed, history
<1> QED
  BY <1>5, <1>6, <1>7, <1>8 DEF CompactionInv

LEMMA NextStep == CompactionInv /\ [Next]_vars => CompactionInv'
<1> SUFFICES ASSUME CompactionInv, [Next]_vars PROVE CompactionInv'
  OBVIOUS
<1>1. ASSUME NEW p \in Process, Router(p) PROVE CompactionInv'
  BY <1>1, OpenBudgetStep, OpenJournalStep, LockJournalStep, BeginStep, CompleteStep DEF Router
<1>2. ASSUME NEW p \in Process, Rewrite(p) PROVE CompactionInv'
  BY <1>2, CreateCheckpointStep, WriteCheckpointStep, SyncCheckpointStep, SyncDirectoryStep,
     LinkArchiveStep, VerifyCheckpointStep, ReplaceStep DEF Rewrite
<1>3. CASE UNCHANGED vars
  BY <1>3 DEF vars, disk, run, history, CompactionInv, TypeOK, Held, Prepared, Journals,
     NothingForgotten, OriginalsNamed, WorkKeepsScope
<1> QED
  BY <1>1, <1>2, <1>3, LeaveStep, PowerLossStep DEF Next

(* At every step of every router and tool, and after every interruption:   *)
(* type correctness, the journal's evidence and the original files.        *)
THEOREM CompactionCorrect == Spec => []CompactionInv
<1>1. Init => CompactionInv
  BY InitHolds
<1>2. CompactionInv /\ [Next]_vars => CompactionInv'
  BY NextStep
<1> QED
  BY <1>1, <1>2, PTL DEF Spec

(* rewrite, begin and complete: no interruption of a replacement makes the *)
(* path denote a journal that has forgotten work, or that has taken it     *)
(* along to another configuration.                                         *)
THEOREM EvidenceSurvives == Spec => []JournalKnowsWork
<1>1. CompactionInv => JournalKnowsWork
  BY DEF CompactionInv, JournalKnowsWork
<1> QED
  BY <1>1, CompactionCorrect, PTL

(* Gateway::new beside rewrite: the budget lock, which is taken before the *)
(* path is looked up, keeps a router off the file that was replaced.       *)
THEOREM OwnersHoldJournal == Spec => []OwnerHoldsJournal
<1>1. CompactionInv => OwnerHoldsJournal
  BY DEF CompactionInv, Held, Writing, OwnerHoldsJournal, Serving
<1> QED
  BY <1>1, CompactionCorrect, PTL

(* rewrite links the archive, and syncs it, before it renames: a file that *)
(* was the journal is never without a name.                                *)
THEOREM OriginalsSurvive == Spec => []OriginalsNamed
<1>1. CompactionInv => OriginalsNamed
  BY DEF CompactionInv
<1> QED
  BY <1>1, CompactionCorrect, PTL
==============================================================================
