------------------------ MODULE DurableRequestsProofs ------------------------
(***************************************************************************)
(* What the request journal keeps, for every set of callers, every limit   *)
(* and every crash: no attempt that may have been dispatched is forgotten, *)
(* no identity is issued twice, and a checkpoint stands for the journal it *)
(* replaces.                                                               *)
(*                                                                         *)
(* Inv relates the three places an attempt is written down.  Filed says    *)
(* what the synced prefix of the file holds, Reading what an open() has    *)
(* recovered of it so far, Remembered what a running instance has in its   *)
(* cache, and Copied what the export has carried over to the checkpoint.   *)
(***************************************************************************)
EXTENDS DurableRequests, FiniteSetTheorems, SequenceTheorems, TLAPS

Kinds == {"header", "begin", "complete", "checkpoint", "restore", "checkpoint_end"}
Opening == {"begin", "restore"}

CacheType ==
  [unresolved : UNION {[S -> Endpoint] : S \in SUBSET (1 .. MaxId)},
   byEndpoint : [Endpoint -> Int], begun : 0 .. MaxId, completed : 0 .. MaxId]
WriterType == [length : Nat, lastId : 0 .. MaxId]
AppendType == [by : Caller \cup {None}, event : Event, stage : {"write", "sync"}]
TargetType == [lines : Seq(Event), length : Nat, last : 0 .. MaxId, done : BOOLEAN]

Shape ==
  /\ log \in Seq(Event)
  /\ torn \in BOOLEAN /\ healthy \in BOOLEAN
  /\ synced \in 0 .. Len(log)
  /\ instance \in {"none", "replaying", "gateway", "tool"}
  /\ limit \in Limits /\ widest \in Limits \cup {0}
  /\ cursor \in 0 .. Len(log)
  /\ section \in {"header", "fresh", "checkpoint", "running"}
  /\ cache \in CacheType
  /\ writer \in WriterType
  /\ append \in AppendType
  /\ pc \in [Caller -> {"idle", "appending", "held", "validated"}]
  /\ attempt \in [Caller -> 0 .. MaxId]
  /\ target \in TargetType
  /\ issued \subseteq 1 .. MaxId /\ validated \subseteq issued

(* The writer mutex, and what a caller knows about its attempt. *)
Mutex ==
  /\ append.by # None => instance = "gateway" /\ healthy
  /\ \A c \in Caller : pc[c] = "appending" <=> append.by = c
  /\ instance # "gateway" => \A c \in Caller : pc[c] = "idle"
  /\ \A c \in Caller : pc[c] \in {"held", "validated"} => attempt[c] \in issued
  /\ \A c \in Caller : pc[c] = "validated" => attempt[c] \in validated

(* The one line an append may be writing. *)
Appending ==
  append.by # None =>
    /\ \/ \E e \in Endpoint : append.event = BeginEvent(writer.lastId + 1, e)
       \/ /\ append.event = CompleteEvent(attempt[append.by])
          /\ attempt[append.by] \in Pending(cache) \cap validated
    /\ append.stage = "sync" => log # <<>> /\ log[Len(log)] = append.event

(* The cache in itself: its counters say what its map holds. *)
At(k, e) == {i \in Pending(k) : k.unresolved[i] = e}
Tallied(k) ==
  /\ Pending(k) \subseteq 1 .. k.begun
  /\ k.completed <= k.begun
  /\ \A e \in Endpoint : k.byEndpoint[e] = Cardinality(At(k, e))
Conserved(k) == k.completed + Cardinality(Pending(k)) = k.begun

Counted == Tallied(cache) /\ (section # "checkpoint" => Conserved(cache))

(* The file: a completion is only of a validated response, and the synced  *)
(* lines hold every other issued attempt and the number it was given.      *)
Filed ==
  /\ \A n \in 1 .. Len(log) : log[n].event = "complete" => log[n].id \in validated
  /\ \A i \in issued \ validated :
       \E n \in 1 .. synced : log[n].event \in Opening /\ log[n].id = i
  /\ \A i \in issued :
       \E n \in 1 .. synced :
         \/ log[n].event \in Opening /\ log[n].id >= i
         \/ log[n].event = "checkpoint" /\ log[n].begun >= i

(* An open(): it has recovered what the lines it read hold. *)
Reading ==
  /\ instance \in {"none", "replaying"} /\ section \in {"header", "fresh"} =>
       cache = EmptyCache
  /\ instance = "none" => cursor = 0 /\ section = "header"
  /\ instance = "replaying" =>
       \A n \in 1 .. cursor :
         /\ log[n].event \in Opening =>
              /\ log[n].id <= cache.begun
              /\ log[n].id \in Pending(cache) \cup validated
         /\ log[n].event = "checkpoint" => log[n].begun <= cache.begun

(* A running instance: what it issued, or recovered, is in its memory. *)
Remembered ==
  Running =>
    /\ section \in {"fresh", "running"}
    /\ writer.lastId = cache.begun
    /\ issued \ validated \subseteq Pending(cache)
    /\ \A i \in issued : i <= cache.begun

(* Which lines of the target are restored attempts. *)
RestoreLines == 3 .. (IF target.done THEN Len(target.lines) - 1 ELSE Len(target.lines))

(* The export: its lines carry the attempts up to the last one it emitted. *)
Copied ==
  /\ instance # "tool" => target = NoTarget
  /\ Len(target.lines) >= 1 => target.lines[1] = Header
  /\ Len(target.lines) >= 2 =>
       target.lines[2] = CheckpointEvent(cache.begun, cache.completed)
  /\ Len(target.lines) < 2 => target.last = 0 /\ ~target.done
  /\ \A n \in RestoreLines : \E i \in Pending(cache) :
       /\ target.lines[n] = RestoreEvent(i, cache.unresolved[i])
       /\ i <= target.last
       /\ n > 3 => target.lines[n - 1].id < i
  /\ \A i \in Pending(cache) : i <= target.last =>
       \E n \in RestoreLines : target.lines[n] = RestoreEvent(i, cache.unresolved[i])
  /\ target.done =>
       /\ Len(target.lines) >= 3
       /\ target.lines[Len(target.lines)] = CheckpointEnd
       /\ Remaining = {}

Inv ==
  Shape /\ Mutex /\ Appending /\ Counted /\ Filed /\ Reading /\ Remembered /\ Copied
-----------------------------------------------------------------------------
(* Events, by the fields that the invariant reads.                         *)
LEMMA EventForms ==
  ASSUME NEW ev \in Event
  PROVE  \/ ev = Header
         \/ ev = CheckpointEnd
         \/ \E i \in 1 .. MaxId, e \in Endpoint : ev = BeginEvent(i, e)
         \/ \E i \in 1 .. MaxId : ev = CompleteEvent(i)
         \/ \E b \in 0 .. MaxId, c \in 0 .. MaxId : ev = CheckpointEvent(b, c)
         \/ \E i \in 1 .. MaxId, e \in Endpoint : ev = RestoreEvent(i, e)
BY DEF Event

LEMMA EventValues ==
  /\ Header.event = "header" /\ CheckpointEnd.event = "checkpoint_end"
  /\ \A i, e : /\ BeginEvent(i, e).event = "begin"
               /\ BeginEvent(i, e).id = i /\ BeginEvent(i, e).endpoint = e
  /\ \A i : CompleteEvent(i).event = "complete" /\ CompleteEvent(i).id = i
  /\ \A b, c : /\ CheckpointEvent(b, c).event = "checkpoint"
               /\ CheckpointEvent(b, c).begun = b /\ CheckpointEvent(b, c).completed = c
  /\ \A i, e : /\ RestoreEvent(i, e).event = "restore"
               /\ RestoreEvent(i, e).id = i /\ RestoreEvent(i, e).endpoint = e
BY DEF Header, CheckpointEnd, BeginEvent, CompleteEvent, CheckpointEvent, RestoreEvent

LEMMA EventFields ==
  ASSUME NEW ev \in Event
  PROVE  /\ ev.event \in Kinds
         /\ ev.event \in Opening => ev.id \in 1 .. MaxId /\ ev.endpoint \in Endpoint
         /\ ev.event = "complete" => ev.id \in 1 .. MaxId
         /\ ev.event = "checkpoint" =>
              ev.begun \in 0 .. MaxId /\ ev.completed \in 0 .. MaxId
<1>1. CASE ev = Header \/ ev = CheckpointEnd
  BY <1>1 DEF Header, CheckpointEnd, Kinds, Opening
<1>2. CASE \E i \in 1 .. MaxId, e \in Endpoint : ev = BeginEvent(i, e)
  BY <1>2 DEF BeginEvent, Kinds, Opening
<1>3. CASE \E i \in 1 .. MaxId : ev = CompleteEvent(i)
  BY <1>3 DEF CompleteEvent, Kinds, Opening
<1>4. CASE \E b \in 0 .. MaxId, c \in 0 .. MaxId : ev = CheckpointEvent(b, c)
  BY <1>4 DEF CheckpointEvent, Kinds, Opening
<1>5. CASE \E i \in 1 .. MaxId, e \in Endpoint : ev = RestoreEvent(i, e)
  BY <1>5 DEF RestoreEvent, Kinds, Opening
<1>6. QED
  BY <1>1, <1>2, <1>3, <1>4, <1>5, EventForms

(* The cache, field by field.                                              *)
LEMMA CacheFields ==
  ASSUME NEW k \in CacheType
  PROVE  /\ Pending(k) \subseteq 1 .. MaxId
         /\ IsFiniteSet(Pending(k))
         /\ \A i \in Pending(k) : k.unresolved[i] \in Endpoint
         /\ k.unresolved \in [Pending(k) -> Endpoint]
<1>1. PICK S \in SUBSET (1 .. MaxId) : k.unresolved \in [S -> Endpoint]
  BY DEF CacheType
<1>2. Pending(k) = S
  BY <1>1 DEF Pending
<1>3. IsFiniteSet(S)
  <2>1. IsFiniteSet(1 .. MaxId)
    BY FS_Interval, CallersAssumption
  <2>2. QED
    BY <2>1, FS_Subset
<1>4. QED
  BY <1>1, <1>2, <1>3

LEMMA EmptyCacheCounted ==
  /\ EmptyCache \in CacheType
  /\ Pending(EmptyCache) = {}
  /\ EmptyCache.begun = 0 /\ EmptyCache.completed = 0
  /\ \A e \in Endpoint : EmptyCache.byEndpoint[e] = 0
<1>1. [i \in {} |-> None] \in [{} -> Endpoint]
  OBVIOUS
<1>2. QED
  BY <1>1, CallersAssumption DEF EmptyCache, CacheType, Pending

LEMMA CacheRecord ==
  ASSUME NEW S \in SUBSET (1 .. MaxId), NEW u \in [S -> Endpoint],
         NEW b \in [Endpoint -> Int], NEW m \in 0 .. MaxId, NEW n \in 0 .. MaxId
  PROVE  [unresolved |-> u, byEndpoint |-> b, begun |-> m, completed |-> n]
           \in CacheType
BY DEF CacheType

LEMMA InsertType ==
  ASSUME NEW k \in CacheType, NEW i \in 1 .. MaxId, NEW e \in Endpoint
  PROVE  Insert(k, i, e) \in CacheType
<1> DEFINE u == [j \in Pending(k) \cup {i} |-> IF j = i THEN e ELSE k.unresolved[j]]
           b == [k.byEndpoint EXCEPT ![e] = @ + 1]
<1>1. Insert(k, i, e) = [unresolved |-> u, byEndpoint |-> b,
                         begun |-> k.begun, completed |-> k.completed]
  BY DEF Insert
<1>2. u \in [Pending(k) \cup {i} -> Endpoint]
  BY CacheFields
<1>3. Pending(k) \cup {i} \in SUBSET (1 .. MaxId)
  BY CacheFields
<1>4. b \in [Endpoint -> Int]
  BY DEF CacheType
<1>5. k.begun \in 0 .. MaxId /\ k.completed \in 0 .. MaxId
  BY DEF CacheType
<1> HIDE DEF u, b
<1>6. QED
  BY <1>1, <1>2, <1>3, <1>4, <1>5, CacheRecord

LEMMA InsertFields ==
  ASSUME NEW k \in CacheType, NEW i, NEW e \in Endpoint
  PROVE  /\ Pending(Insert(k, i, e)) = Pending(k) \cup {i}
         /\ Insert(k, i, e).unresolved[i] = e
         /\ \A j \in Pending(k) \ {i} :
              Insert(k, i, e).unresolved[j] = k.unresolved[j]
         /\ \A f \in Endpoint : Insert(k, i, e).byEndpoint[f] =
              IF f = e THEN k.byEndpoint[f] + 1 ELSE k.byEndpoint[f]
         /\ Insert(k, i, e).begun = k.begun
         /\ Insert(k, i, e).completed = k.completed
BY DEF Insert, Pending, CacheType

LEMMA CacheBeginFields ==
  ASSUME NEW k \in CacheType, NEW i \in 1 .. MaxId, NEW e \in Endpoint
  PROVE  /\ CacheBegin(k, i, e) \in CacheType
         /\ CacheBegin(k, i, e).unresolved = Insert(k, i, e).unresolved
         /\ CacheBegin(k, i, e).byEndpoint = Insert(k, i, e).byEndpoint
         /\ CacheBegin(k, i, e).begun = i
         /\ CacheBegin(k, i, e).completed = k.completed
<1>1. \A n \in CacheType :
        /\ [n EXCEPT !.begun = i] \in CacheType
        /\ [n EXCEPT !.begun = i].unresolved = n.unresolved
        /\ [n EXCEPT !.begun = i].byEndpoint = n.byEndpoint
        /\ [n EXCEPT !.begun = i].begun = i
        /\ [n EXCEPT !.begun = i].completed = n.completed
  BY DEF CacheType
<1>2. Insert(k, i, e) \in CacheType
  BY InsertType
<1>3. Insert(k, i, e).completed = k.completed
  BY InsertFields
<1>4. QED
  BY <1>1, <1>2, <1>3 DEF CacheBegin

LEMMA CacheCompleteType ==
  ASSUME NEW k \in CacheType, NEW i \in Pending(k), k.completed < MaxId
  PROVE  CacheComplete(k, i) \in CacheType
<1> DEFINE u == [j \in Pending(k) \ {i} |-> k.unresolved[j]]
           b == [k.byEndpoint EXCEPT ![k.unresolved[i]] = @ - 1]
<1>1. CacheComplete(k, i) = [unresolved |-> u, byEndpoint |-> b,
                             begun |-> k.begun, completed |-> k.completed + 1]
  BY DEF CacheComplete
<1>2. u \in [Pending(k) \ {i} -> Endpoint]
  BY CacheFields
<1>3. Pending(k) \ {i} \in SUBSET (1 .. MaxId)
  BY CacheFields
<1>4. b \in [Endpoint -> Int]
  BY CacheFields DEF CacheType
<1>5. k.completed + 1 \in 0 .. MaxId /\ k.begun \in 0 .. MaxId
  BY CallersAssumption DEF CacheType
<1> HIDE DEF u, b
<1>6. QED
  BY <1>1, <1>2, <1>3, <1>4, <1>5, CacheRecord

LEMMA CacheCompleteFields ==
  ASSUME NEW k \in CacheType, NEW i \in Pending(k)
  PROVE  /\ Pending(CacheComplete(k, i)) = Pending(k) \ {i}
         /\ \A j \in Pending(k) \ {i} :
              CacheComplete(k, i).unresolved[j] = k.unresolved[j]
         /\ \A f \in Endpoint : CacheComplete(k, i).byEndpoint[f] =
              IF f = k.unresolved[i] THEN k.byEndpoint[f] - 1 ELSE k.byEndpoint[f]
         /\ CacheComplete(k, i).begun = k.begun
         /\ CacheComplete(k, i).completed = k.completed + 1
BY DEF CacheComplete, Pending, CacheType

(* What each of the three changes of a cache does to its tallies.          *)
LEMMA AtFinite ==
  ASSUME NEW k \in CacheType, NEW e
  PROVE  IsFiniteSet(At(k, e))
BY CacheFields, FS_Subset DEF At

LEMMA PendingFinite ==
  ASSUME NEW k \in CacheType
  PROVE  Cardinality(Pending(k)) \in Nat
BY CacheFields, FS_CardinalityType

LEMMA InsertTallied ==
  ASSUME NEW k \in CacheType, Tallied(k), NEW i \in 1 .. MaxId, i \notin Pending(k),
         NEW e \in Endpoint
  PROVE  /\ \A f \in Endpoint :
              Insert(k, i, e).byEndpoint[f] = Cardinality(At(Insert(k, i, e), f))
         /\ Cardinality(Pending(Insert(k, i, e))) = Cardinality(Pending(k)) + 1
<1> DEFINE n == Insert(k, i, e)
<1>1. At(n, e) = At(k, e) \cup {i} /\ i \notin At(k, e)
  BY InsertFields DEF At
<1>2. \A f \in Endpoint \ {e} : At(n, f) = At(k, f)
  BY InsertFields DEF At
<1>3. IsFiniteSet(At(k, e)) /\ IsFiniteSet(Pending(k))
  BY AtFinite, CacheFields
<1>4. Cardinality(At(n, e)) = Cardinality(At(k, e)) + 1
  BY <1>1, <1>3, FS_AddElement
<1>5. Cardinality(Pending(k) \cup {i}) = Cardinality(Pending(k)) + 1
  BY <1>3, FS_AddElement
<1>6. /\ n.byEndpoint[e] = k.byEndpoint[e] + 1
      /\ \A f \in Endpoint \ {e} : n.byEndpoint[f] = k.byEndpoint[f]
      /\ Pending(n) = Pending(k) \cup {i}
  BY InsertFields
<1> HIDE DEF n
<1>7. \A f \in Endpoint : n.byEndpoint[f] = Cardinality(At(n, f))
  BY <1>2, <1>4, <1>6 DEF Tallied
<1>8. QED
  BY <1>5, <1>6, <1>7 DEF n

LEMMA CompleteTallied ==
  ASSUME NEW k \in CacheType, Tallied(k), Conserved(k), NEW i \in Pending(k)
  PROVE  /\ k.completed < MaxId
         /\ Tallied(CacheComplete(k, i))
         /\ Conserved(CacheComplete(k, i))
<1> DEFINE e == k.unresolved[i]
           n == CacheComplete(k, i)
<1>1. At(n, e) = At(k, e) \ {i} /\ i \in At(k, e)
  BY CacheCompleteFields DEF At
<1>2. \A f \in Endpoint \ {e} : At(n, f) = At(k, f)
  BY CacheCompleteFields DEF At
<1>3. IsFiniteSet(At(k, e)) /\ IsFiniteSet(Pending(k))
  BY AtFinite, CacheFields
<1>4. Cardinality(At(n, e)) = Cardinality(At(k, e)) - 1
  BY <1>1, <1>3, FS_RemoveElement
<1>5. e \in Endpoint
  BY CacheFields
<1>6. /\ n.byEndpoint[e] = k.byEndpoint[e] - 1
      /\ \A f \in Endpoint \ {e} : n.byEndpoint[f] = k.byEndpoint[f]
      /\ Pending(n) = Pending(k) \ {i}
      /\ n.begun = k.begun
      /\ n.completed = k.completed + 1
  BY <1>5, CacheCompleteFields
<1> HIDE DEF n, e
<1>7. /\ Cardinality(Pending(k) \ {i}) = Cardinality(Pending(k)) - 1
      /\ Cardinality(Pending(k)) \in Nat
      /\ Cardinality(Pending(k) \ {i}) \in Nat
  BY <1>3, FS_RemoveElement, FS_CardinalityType
<1>8. k.completed \in Nat /\ k.begun \in 0 .. MaxId
  BY DEF CacheType
<1>9. \A f \in Endpoint : n.byEndpoint[f] = Cardinality(At(n, f))
  BY <1>2, <1>4, <1>5, <1>6 DEF Tallied
<1>10. k.completed < MaxId /\ k.completed + 1 <= k.begun
  BY <1>7, <1>8, CallersAssumption DEF Conserved
<1>11. Tallied(n)
  BY <1>6, <1>9, <1>10 DEF Tallied
<1>12. Conserved(n)
  BY <1>6, <1>7, <1>8 DEF Conserved
<1>13. QED
  BY <1>10, <1>11, <1>12 DEF n

LEMMA BeginTallied ==
  ASSUME NEW k \in CacheType, Tallied(k), Conserved(k), k.begun + 1 \in 1 .. MaxId,
         NEW e \in Endpoint
  PROVE  /\ Pending(CacheBegin(k, k.begun + 1, e)) = Pending(k) \cup {k.begun + 1}
         /\ Tallied(CacheBegin(k, k.begun + 1, e))
         /\ Conserved(CacheBegin(k, k.begun + 1, e))
<1> DEFINE i == k.begun + 1
           m == Insert(k, i, e)
           n == CacheBegin(k, i, e)
<1>1. i \notin Pending(k) /\ k.begun \in 0 .. MaxId /\ k.completed \in Nat
  BY DEF Tallied, CacheType
<1>2. /\ n.unresolved = m.unresolved /\ n.byEndpoint = m.byEndpoint
      /\ n.begun = i /\ n.completed = k.completed
  BY CacheBeginFields
<1>3. /\ Pending(m) = Pending(k) \cup {i}
      /\ Cardinality(Pending(m)) = Cardinality(Pending(k)) + 1
      /\ \A f \in Endpoint : m.byEndpoint[f] = Cardinality(At(m, f))
  BY <1>1, InsertFields, InsertTallied
<1> HIDE DEF m, n
<1>4. Pending(n) = Pending(m)
  BY <1>2 DEF Pending
<1>5. \A f \in Endpoint : At(n, f) = At(m, f)
  BY <1>2, <1>4 DEF At
<1>6. \A f \in Endpoint : n.byEndpoint[f] = Cardinality(At(n, f))
  BY <1>2, <1>3, <1>5
<1>7. Pending(n) \subseteq 1 .. n.begun /\ n.completed <= n.begun
  BY <1>1, <1>2, <1>3, <1>4 DEF Tallied
<1>8. Tallied(n)
  BY <1>6, <1>7 DEF Tallied
<1>9. Conserved(n)
  BY <1>1, <1>2, <1>3, <1>4, PendingFinite DEF Conserved
<1>10. QED
  BY <1>3, <1>4, <1>8, <1>9 DEF n

LEMMA EmptyTallied == Tallied(EmptyCache) /\ Conserved(EmptyCache)
<1>1. Cardinality({}) = 0
  BY FS_EmptySet
<1>2. \A e \in Endpoint : At(EmptyCache, e) = {}
  BY EmptyCacheCounted DEF At
<1>3. QED
  BY <1>1, <1>2, EmptyCacheCounted DEF Tallied, Conserved

-----------------------------------------------------------------------------
(* What a process that is gone leaves satisfies the invariant's parts about *)
(* memory, whatever the file holds.                                         *)
LEMMA ForgottenMemory ==
  ASSUME Forgotten, instance' = "none", target' = NoTarget
  PROVE  Counted' /\ Reading' /\ Remembered' /\ Copied'
<1>1. Counted'
  BY EmptyTallied DEF Counted, Forgotten
<1>2. Reading'
  BY DEF Reading, Forgotten
<1>3. Remembered'
  BY DEF Remembered, Running
<1>4. Copied'
  BY EmptyCacheCounted DEF Copied, NoTarget, RestoreLines, Remaining, Forgotten
<1>5. QED
  BY <1>1, <1>2, <1>3, <1>4

LEMMA ForgottenShape ==
  ASSUME Forgotten
  PROVE  /\ cursor' = 0 /\ section' = "header" /\ healthy' = FALSE
         /\ cache' \in CacheType
         /\ writer' \in WriterType
BY EmptyCacheCounted, CallersAssumption DEF Forgotten, WriterType

(* The values append and target have when there is nothing to write. *)
LEMMA NothingWritten ==
  NoAppend \in AppendType /\ NoAppend.by = None /\ NoTarget \in TargetType
BY CallersAssumption DEF NoAppend, NoTarget, Event, AppendType, TargetType

LEMMA InvInit == Init => Inv
<1> SUFFICES ASSUME Init PROVE Inv
  OBVIOUS
<1>1. Shape
  <2>1. log \in Seq(Event) /\ Len(log) = 0
    BY DEF Init
  <2>2. cache \in CacheType /\ append \in AppendType /\ target \in TargetType
    BY EmptyCacheCounted, NothingWritten DEF Init
  <2>3. writer \in WriterType /\ attempt \in [Caller -> 0 .. MaxId]
    BY CallersAssumption DEF Init, WriterType
  <2>4. synced \in 0 .. Len(log) /\ cursor \in 0 .. Len(log)
    BY <2>1 DEF Init
  <2>5. pc \in [Caller -> {"idle", "appending", "held", "validated"}]
    BY DEF Init
  <2>6. /\ torn \in BOOLEAN /\ healthy \in BOOLEAN
        /\ instance \in {"none", "replaying", "gateway", "tool"}
        /\ limit \in Limits /\ widest \in Limits \cup {0}
        /\ section \in {"header", "fresh", "checkpoint", "running"}
        /\ issued \subseteq 1 .. MaxId /\ validated \subseteq issued
    BY DEF Init
  <2>7. QED
    BY <2>1, <2>2, <2>3, <2>4, <2>5, <2>6 DEF Shape
<1>2. Mutex /\ Appending
  BY CallersAssumption DEF Init, Mutex, Appending, NoAppend
<1>3. Counted
  BY EmptyTallied DEF Init, Counted
<1>4. Filed
  BY DEF Init, Filed
<1>5. Reading /\ Remembered
  BY DEF Init, Reading, Remembered, Running
<1>6. Copied
  BY EmptyCacheCounted DEF Init, Copied, NoTarget, RestoreLines, Remaining
<1>7. QED
  BY <1>1, <1>2, <1>3, <1>4, <1>5, <1>6 DEF Inv

-----------------------------------------------------------------------------
(* What each part of the invariant is about: a step that leaves those      *)
(* variables alone leaves it true.                                         *)
LEMMA CountedFrame ==
  ASSUME Counted, UNCHANGED <<cache, section>>
  PROVE  Counted'
BY DEF Counted

LEMMA FiledFrame ==
  ASSUME Filed, UNCHANGED <<log, synced, issued, validated>>
  PROVE  Filed'
BY DEF Filed

LEMMA ReadingFrame ==
  ASSUME Reading, UNCHANGED <<log, instance, section, cache, cursor, validated>>
  PROVE  Reading'
BY DEF Reading

LEMMA RememberedFrame ==
  ASSUME Remembered, UNCHANGED <<instance, section, cache, writer, issued, validated>>
  PROVE  Remembered'
BY DEF Remembered, Running

LEMMA CopiedFrame ==
  ASSUME Copied, UNCHANGED <<instance, cache, target>>
  PROVE  Copied'
BY DEF Copied, RestoreLines, Remaining

LEMMA CopiedNothing ==
  ASSUME cache' \in CacheType, target' = NoTarget
  PROVE  Copied'
<1>1. Pending(cache') \subseteq 1 .. MaxId
  BY CacheFields
<1>2. QED
  BY <1>1, CallersAssumption DEF Copied, NoTarget, RestoreLines

(* The steps, in the order of the module.                                  *)
LEMMA InitializeStep == Inv /\ Initialize => Inv'
<1> SUFFICES ASSUME Inv, Initialize PROVE Inv'
  OBVIOUS
<1>1. UNCHANGED <<instance, Memory, Callers, target, History>> /\ log = <<>>
  BY DEF Initialize
<1>2. CASE log' = <<Header>> /\ synced' = 1 /\ UNCHANGED torn
  <2>1. log' \in Seq(Event) /\ Len(log') = 1 /\ log'[1] = Header
    BY <1>2 DEF Event
  <2>2. cursor = 0 /\ synced = 0
    BY <1>1 DEF Inv, Shape
  <2>3. Shape'
    BY <1>1, <1>2, <2>1, <2>2 DEF Inv, Shape, Memory, Callers, History
  <2>4. Mutex' /\ Appending'
    BY <1>1 DEF Inv, Mutex, Appending, Memory, Callers, History
  <2>5. Counted' /\ Remembered' /\ Copied'
    BY <1>1, CountedFrame, RememberedFrame, CopiedFrame DEF Inv, Memory, History
  <2>6. issued = {}
    BY <1>1, <2>2 DEF Inv, Filed
  <2>7. Filed'
    BY <1>1, <2>1, <2>6 DEF Filed, History, Header
  <2>8. Reading'
    BY <1>1, <2>2 DEF Inv, Reading, Memory, History
  <2>9. QED
    BY <2>3, <2>4, <2>5, <2>7, <2>8 DEF Inv
<1>3. CASE torn' = TRUE /\ UNCHANGED <<log, synced>>
  <2>1. Shape'
    BY <1>1, <1>3 DEF Inv, Shape, Memory, Callers, History
  <2>2. Mutex' /\ Appending'
    BY <1>1, <1>3 DEF Inv, Mutex, Appending, Memory, Callers, History
  <2>3. Counted' /\ Filed' /\ Reading' /\ Remembered' /\ Copied'
    BY <1>1, <1>3, CountedFrame, FiledFrame, ReadingFrame, RememberedFrame, CopiedFrame
       DEF Inv, Memory, History
  <2>4. QED
    BY <2>1, <2>2, <2>3 DEF Inv
<1>4. QED
  BY <1>2, <1>3 DEF Initialize

LEMMA OpenStep == \A n \in Limits : Inv /\ Open(n) => Inv'
<1> SUFFICES ASSUME NEW n \in Limits, Inv, Open(n) PROVE Inv'
  OBVIOUS
<1>1. /\ instance = "none" /\ instance' = "replaying" /\ limit' = n
      /\ UNCHANGED <<File, cursor, section, cache, writer, healthy, Callers, target, History>>
  BY DEF Open
<1>2. Shape'
  BY <1>1 DEF Inv, Shape, File, Callers, History
<1>3. append.by = None /\ \A c \in Caller : pc[c] = "idle"
  BY <1>1 DEF Inv, Mutex
<1>4. Mutex' /\ Appending'
  BY <1>1, <1>3 DEF Inv, Mutex, Appending, Callers, History
<1>5. Counted' /\ Filed'
  BY <1>1, CountedFrame, FiledFrame DEF Inv, File, History
<1>6. Reading'
  BY <1>1 DEF Inv, Shape, Reading, File, History
<1>7. Remembered' /\ Copied'
  BY <1>1 DEF Inv, Remembered, Running, Copied, RestoreLines, Remaining
<1>8. QED
  BY <1>2, <1>4, <1>5, <1>6, <1>7 DEF Inv

(* Accepts and CacheAfter, of a section, a cache and a limit given. *)
AcceptsAt(x, k, lim, ev) ==
  \/ ev.event = "header" /\ x = "header"
  \/ ev.event = "checkpoint" /\ x = "fresh" /\ ev.completed <= ev.begun
  \/ /\ ev.event = "restore" /\ x = "checkpoint"
     /\ ev.id \in (1 .. k.begun) \ Pending(k)
     /\ Cardinality(Pending(k)) < MaxPending /\ k.byEndpoint[ev.endpoint] < lim
  \/ ev.event = "checkpoint_end" /\ x = "checkpoint" /\ Conserved(k)
  \/ /\ ev.event = "begin" /\ x \in {"fresh", "running"}
     /\ ev.id = k.begun + 1
     /\ Cardinality(Pending(k)) < MaxPending /\ k.byEndpoint[ev.endpoint] < lim
  \/ ev.event = "complete" /\ x \in {"fresh", "running"} /\ ev.id \in Pending(k)

After(k, ev) ==
  CASE ev.event = "checkpoint" ->
         [unresolved |-> k.unresolved, byEndpoint |-> k.byEndpoint,
          begun |-> ev.begun, completed |-> ev.completed]
    [] ev.event = "restore" -> Insert(k, ev.id, ev.endpoint)
    [] ev.event = "begin" -> CacheBegin(k, ev.id, ev.endpoint)
    [] ev.event = "complete" -> CacheComplete(k, ev.id)
    [] OTHER -> k

LEMMA AcceptsNow ==
  ASSUME NEW ev
  PROVE  /\ Accepts(ev) <=> AcceptsAt(section, cache, limit, ev)
         /\ CacheAfter(ev) = After(cache, ev)
BY DEF Accepts, AcceptsAt, CacheAfter, After, RoomFor, Conserved

LEMMA SizeNat == \A ev \in Event : Size(ev) \in Nat \ {0}
<1> SUFFICES ASSUME NEW ev \in Event PROVE Size(ev) \in Nat \ {0}
  OBVIOUS
<1>1. ev.event \in Kinds
  BY EventFields
<1>2. QED
  BY <1>1, SizesAssumption DEF Size, Kinds

(* What a cache is after a line that open() accepts: the attempts it holds, *)
(* and how many there are at an endpoint.                                   *)
LEMMA AfterOpening ==
  ASSUME NEW k \in CacheType, Tallied(k), NEW x, NEW lim,
         NEW ev \in Event, AcceptsAt(x, k, lim, ev), ev.event \in Opening
  PROVE  /\ After(k, ev) \in CacheType
         /\ Pending(After(k, ev)) = Pending(k) \cup {ev.id}
         /\ ev.id \notin Pending(k) /\ ev.id <= After(k, ev).begun
         /\ Cardinality(Pending(k)) < MaxPending
         /\ Cardinality(Pending(After(k, ev))) = Cardinality(Pending(k)) + 1
         /\ k.byEndpoint[ev.endpoint] < lim
         /\ \A f \in Endpoint : After(k, ev).byEndpoint[f] =
              IF f = ev.endpoint THEN k.byEndpoint[f] + 1 ELSE k.byEndpoint[f]
<1>1. k.begun \in 0 .. MaxId
  BY DEF CacheType
<1>2. ev.id \in 1 .. MaxId /\ ev.endpoint \in Endpoint
  BY EventFields
<1>3. /\ Cardinality(Pending(k)) < MaxPending
      /\ k.byEndpoint[ev.endpoint] < lim
      /\ ev.id \notin Pending(k)
  BY <1>1 DEF AcceptsAt, Opening, Tallied
<1> DEFINE m == Insert(k, ev.id, ev.endpoint)
           n == CacheBegin(k, ev.id, ev.endpoint)
<1>4. /\ m \in CacheType /\ Pending(m) = Pending(k) \cup {ev.id}
      /\ m.begun = k.begun
      /\ Cardinality(Pending(m)) = Cardinality(Pending(k)) + 1
      /\ \A f \in Endpoint : m.byEndpoint[f] =
           IF f = ev.endpoint THEN k.byEndpoint[f] + 1 ELSE k.byEndpoint[f]
  BY <1>2, <1>3, InsertType, InsertFields, InsertTallied
<1>5. /\ n \in CacheType /\ n.unresolved = m.unresolved
      /\ n.byEndpoint = m.byEndpoint /\ n.begun = ev.id
  BY <1>2, CacheBeginFields
<1> HIDE DEF m, n
<1>6. Pending(n) = Pending(m) /\ ev.id <= n.begun
  BY <1>2, <1>5 DEF Pending
<1>7. \/ After(k, ev) = m /\ ev.id <= k.begun
      \/ After(k, ev) = n
  BY <1>1 DEF After, AcceptsAt, Opening, m, n
<1>8. CASE After(k, ev) = m /\ ev.id <= k.begun
  BY <1>3, <1>4, <1>8
<1>9. CASE After(k, ev) = n
  <2>1. /\ Pending(n) = Pending(k) \cup {ev.id}
        /\ Cardinality(Pending(n)) = Cardinality(Pending(k)) + 1
        /\ \A f \in Endpoint : n.byEndpoint[f] =
             IF f = ev.endpoint THEN k.byEndpoint[f] + 1 ELSE k.byEndpoint[f]
    BY <1>4, <1>5, <1>6
  <2>2. QED
    BY <1>3, <1>5, <1>6, <1>9, <2>1
<1>10. QED
  BY <1>7, <1>8, <1>9

LEMMA AfterComplete ==
  ASSUME NEW k \in CacheType, Tallied(k), NEW x, x # "checkpoint" => Conserved(k),
         NEW lim, NEW ev \in Event, AcceptsAt(x, k, lim, ev), ev.event = "complete"
  PROVE  /\ After(k, ev) \in CacheType
         /\ ev.id \in Pending(k) /\ Pending(After(k, ev)) = Pending(k) \ {ev.id}
         /\ After(k, ev).begun = k.begun
         /\ \A f \in Endpoint : After(k, ev).byEndpoint[f] <= k.byEndpoint[f]
<1> DEFINE n == CacheComplete(k, ev.id)
<1>1. ev.id \in Pending(k) /\ x \in {"fresh", "running"} /\ After(k, ev) = n
  BY DEF AcceptsAt, After
<1>2. k.completed < MaxId
  BY <1>1, CompleteTallied
<1>3. n \in CacheType
  BY <1>1, <1>2, CacheCompleteType
<1>4. /\ Pending(n) = Pending(k) \ {ev.id} /\ n.begun = k.begun
      /\ \A f \in Endpoint : n.byEndpoint[f] =
           IF f = k.unresolved[ev.id] THEN k.byEndpoint[f] - 1 ELSE k.byEndpoint[f]
  BY <1>1, CacheCompleteFields
<1>5. k.byEndpoint \in [Endpoint -> Int]
  BY DEF CacheType
<1> HIDE DEF n
<1>6. \A f \in Endpoint : n.byEndpoint[f] <= k.byEndpoint[f]
  BY <1>4, <1>5
<1>7. QED
  BY <1>1, <1>3, <1>4, <1>6

LEMMA AfterOther ==
  ASSUME NEW k \in CacheType, NEW ev \in Event, ev.event \notin Opening,
         ev.event # "complete"
  PROVE  /\ After(k, ev) \in CacheType
         /\ Pending(After(k, ev)) = Pending(k)
         /\ After(k, ev).unresolved = k.unresolved
         /\ After(k, ev).byEndpoint = k.byEndpoint
<1>1. CASE ev.event # "checkpoint"
  BY <1>1, EventFields DEF After, Kinds, Opening
<1>2. CASE ev.event = "checkpoint"
  <2>1. ev.begun \in 0 .. MaxId /\ ev.completed \in 0 .. MaxId
    BY <1>2, EventFields
  <2>2. After(k, ev) = [unresolved |-> k.unresolved, byEndpoint |-> k.byEndpoint,
                        begun |-> ev.begun, completed |-> ev.completed]
    BY <1>2 DEF After
  <2>3. k.unresolved \in [Pending(k) -> Endpoint] /\ Pending(k) \in SUBSET (1 .. MaxId)
        /\ k.byEndpoint \in [Endpoint -> Int]
    BY CacheFields DEF CacheType
  <2>4. After(k, ev) \in CacheType
    BY <2>1, <2>2, <2>3, CacheRecord
  <2>5. After(k, ev).unresolved = k.unresolved /\ After(k, ev).byEndpoint = k.byEndpoint
    BY <2>2
  <2>6. QED
    BY <2>4, <2>5 DEF Pending
<1>3. QED
  BY <1>1, <1>2

LEMMA AfterType ==
  ASSUME NEW k \in CacheType, Tallied(k), NEW x, x # "checkpoint" => Conserved(k),
         NEW lim, NEW ev \in Event, AcceptsAt(x, k, lim, ev)
  PROVE  After(k, ev) \in CacheType
<1>1. CASE ev.event \in Opening
  BY <1>1, AfterOpening
<1>2. CASE ev.event = "complete"
  BY <1>2, AfterComplete
<1>3. QED
  BY <1>1, <1>2, AfterOther

(* ... and its counters. *)
LEMMA AfterTallied ==
  ASSUME NEW k \in CacheType, Tallied(k), NEW x, x # "checkpoint" => Conserved(k),
         x \in {"header", "fresh"} => k = EmptyCache,
         NEW lim, NEW ev \in Event, AcceptsAt(x, k, lim, ev)
  PROVE  /\ Tallied(After(k, ev))
         /\ SectionAfter(ev) \in {"fresh", "checkpoint", "running"}
         /\ SectionAfter(ev) # "checkpoint" => Conserved(After(k, ev))
         /\ SectionAfter(ev) = "fresh" => After(k, ev) = EmptyCache
         /\ k.begun <= After(k, ev).begun
         /\ ev.event = "checkpoint" => ev.begun <= After(k, ev).begun
<1>1. k.begun \in 0 .. MaxId
  BY DEF CacheType
<1>2. CASE ev.event \in {"header", "checkpoint_end"}
  <2>1. After(k, ev) = k
    BY <1>2 DEF After
  <2>2. CASE ev.event = "header"
    BY <1>1, <2>1, <2>2, EmptyTallied DEF AcceptsAt, SectionAfter
  <2>3. CASE ev.event = "checkpoint_end"
    BY <1>1, <2>1, <2>3 DEF AcceptsAt, SectionAfter
  <2>4. QED
    BY <1>2, <2>2, <2>3
<1>3. CASE ev.event = "checkpoint"
  <2> DEFINE n == After(k, ev)
  <2>1. k = EmptyCache /\ ev.completed <= ev.begun
    BY <1>3 DEF AcceptsAt
  <2>2. ev.begun \in 0 .. MaxId /\ ev.completed \in 0 .. MaxId
    BY <1>3, EventFields
  <2>3. n = [unresolved |-> k.unresolved, byEndpoint |-> k.byEndpoint,
             begun |-> ev.begun, completed |-> ev.completed]
    BY <1>3 DEF After
  <2>4. /\ n.unresolved = k.unresolved /\ n.byEndpoint = k.byEndpoint
        /\ n.begun = ev.begun /\ n.completed = ev.completed
    BY <2>3
  <2> HIDE DEF n
  <2>5. Pending(n) = {} /\ \A e \in Endpoint : At(n, e) = At(k, e)
    BY <2>1, <2>4, EmptyCacheCounted DEF Pending, At
  <2>6. Tallied(n)
    BY <2>1, <2>4, <2>5 DEF Tallied
  <2>7. k.begun = 0
    BY <2>1, EmptyCacheCounted
  <2>8. SectionAfter(ev) = "checkpoint"
    BY <1>3 DEF SectionAfter
  <2>9. QED
    BY <2>2, <2>4, <2>6, <2>7, <2>8 DEF n
<1>4. CASE ev.event = "restore"
  <2> DEFINE n == After(k, ev)
  <2>1. ev.id \in (1 .. k.begun) \ Pending(k)
    BY <1>4 DEF AcceptsAt
  <2>2. ev.id \in 1 .. MaxId /\ ev.endpoint \in Endpoint
    BY <1>4, EventFields DEF Opening
  <2>3. n = Insert(k, ev.id, ev.endpoint)
    BY <1>4 DEF After
  <2>4. /\ Pending(n) = Pending(k) \cup {ev.id}
        /\ n.begun = k.begun /\ n.completed = k.completed
    BY <2>2, <2>3, InsertFields
  <2>5. \A e \in Endpoint : n.byEndpoint[e] = Cardinality(At(n, e))
    BY <2>1, <2>2, <2>3, InsertTallied
  <2> HIDE DEF n
  <2>6. Tallied(n)
    BY <2>1, <2>4, <2>5 DEF Tallied
  <2>7. SectionAfter(ev) = "checkpoint"
    BY <1>4 DEF SectionAfter
  <2>8. QED
    BY <1>1, <1>4, <2>4, <2>6, <2>7 DEF n
<1>5. CASE ev.event = "begin"
  <2> DEFINE n == After(k, ev)
  <2>1. ev.id = k.begun + 1 /\ x \in {"fresh", "running"}
    BY <1>5 DEF AcceptsAt
  <2>2. ev.id \in 1 .. MaxId /\ ev.endpoint \in Endpoint
    BY <1>5, EventFields DEF Opening
  <2>3. n = CacheBegin(k, k.begun + 1, ev.endpoint)
    BY <1>5, <2>1 DEF After
  <2>4. n.begun = k.begun + 1
    BY <2>1, <2>2, <2>3, CacheBeginFields
  <2>5. Tallied(n) /\ Conserved(n)
    BY <2>1, <2>2, <2>3, BeginTallied
  <2> HIDE DEF n
  <2>6. SectionAfter(ev) = "running"
    BY <1>5 DEF SectionAfter
  <2>7. QED
    BY <1>1, <1>5, <2>4, <2>5, <2>6 DEF n
<1>6. CASE ev.event = "complete"
  <2> DEFINE n == After(k, ev)
  <2>1. ev.id \in Pending(k) /\ x \in {"fresh", "running"}
    BY <1>6 DEF AcceptsAt
  <2>2. n = CacheComplete(k, ev.id)
    BY <1>6 DEF After
  <2>3. Tallied(n) /\ Conserved(n)
    BY <2>1, <2>2, CompleteTallied
  <2>4. n.begun = k.begun
    BY <2>1, <2>2, CacheCompleteFields
  <2> HIDE DEF n
  <2>5. SectionAfter(ev) = "running"
    BY <1>6 DEF SectionAfter
  <2>6. QED
    BY <1>1, <1>6, <2>3, <2>4, <2>5 DEF n
<1>7. QED
  BY <1>2, <1>3, <1>4, <1>5, <1>6, EventFields DEF Kinds

LEMMA ReplayLineStep == Inv /\ ReplayLine => Inv'
<1> SUFFICES ASSUME Inv, ReplayLine PROVE Inv'
  OBVIOUS
<1> DEFINE ev == log[cursor + 1]
<1>1. /\ instance = "replaying" /\ cursor < Len(log)
      /\ Accepts(ev) /\ cache' = CacheAfter(ev) /\ section' = SectionAfter(ev)
      /\ writer' = [writer EXCEPT !.length = @ + Size(ev)]
      /\ cursor' = cursor + 1
      /\ UNCHANGED <<File, instance, limit, healthy, Callers, target, History>>
  BY DEF ReplayLine
<1>2. cursor \in Nat /\ Len(log) \in Nat /\ cursor + 1 \in 1 .. Len(log)
  BY <1>1 DEF Inv, Shape
<1>3. ev \in Event
  BY <1>2, ElementOfSeq DEF Inv, Shape
<1> HIDE DEF ev
<1>4. cache \in CacheType /\ Counted
      /\ (section \in {"header", "fresh"} => cache = EmptyCache)
  BY <1>1 DEF Inv, Shape, Reading
<1>5. /\ cache' \in CacheType /\ Tallied(cache')
      /\ section' \in {"fresh", "checkpoint", "running"}
      /\ section' # "checkpoint" => Conserved(cache')
      /\ section' = "fresh" => cache' = EmptyCache
      /\ cache.begun <= cache'.begun
  <2>1. /\ cache' = After(cache, ev) /\ AcceptsAt(section, cache, limit, ev)
        /\ Tallied(cache) /\ (section # "checkpoint" => Conserved(cache))
    BY <1>1, <1>4, AcceptsNow DEF Counted
  <2>2. cache' \in CacheType
    BY <1>3, <1>4, <2>1, AfterType
  <2>3. QED
    BY <1>1, <1>3, <1>4, <2>1, <2>2, AfterTallied
<1>6. /\ \A i \in Pending(cache) :
           i \in Pending(cache') \/ (ev.event = "complete" /\ i = ev.id)
      /\ ev.event \in Opening => ev.id \in Pending(cache') /\ ev.id <= cache'.begun
      /\ ev.event = "checkpoint" => ev.begun <= cache'.begun
  <2>1. /\ cache' = After(cache, ev) /\ AcceptsAt(section, cache, limit, ev)
        /\ Tallied(cache) /\ (section # "checkpoint" => Conserved(cache))
    BY <1>1, <1>4, AcceptsNow DEF Counted
  <2>2. CASE ev.event \in Opening
    <3>1. Pending(cache') = Pending(cache) \cup {ev.id} /\ ev.id <= cache'.begun
      BY <1>3, <1>4, <2>1, <2>2, AfterOpening
    <3>2. QED
      BY <2>2, <3>1 DEF Opening
  <2>3. CASE ev.event = "complete"
    <3>1. Pending(cache') = Pending(cache) \ {ev.id}
      BY <1>3, <1>4, <2>1, <2>3, AfterComplete
    <3>2. QED
      BY <2>3, <3>1 DEF Opening
  <2>4. CASE ev.event \notin Opening \cup {"complete"}
    <3>1. Pending(cache') = Pending(cache)
      BY <1>3, <1>4, <2>1, <2>4, AfterOther
    <3>2. ev.event = "checkpoint" => ev.begun <= cache'.begun
      BY <1>3, <1>4, <2>1, AfterTallied
    <3>3. QED
      BY <2>4, <3>1, <3>2
  <2>5. QED
    BY <2>2, <2>3, <2>4
<1>7. Shape'
  <2>1. writer' \in WriterType
    <3>1. Size(ev) \in Nat /\ writer \in WriterType
      BY <1>3, SizeNat DEF Inv, Shape
    <3>2. QED
      BY <1>1, <3>1 DEF WriterType
  <2>2. cursor' \in 0 .. Len(log')
    BY <1>1, <1>2 DEF File
  <2>3. QED
    BY <1>1, <1>5, <2>1, <2>2 DEF Inv, Shape, File, Callers, History
<1>8. append.by = None
  BY <1>1 DEF Inv, Mutex
<1>9. Mutex' /\ Appending'
  BY <1>1, <1>8 DEF Inv, Mutex, Appending, Callers, History
<1>10. Counted'
  BY <1>5 DEF Counted
<1>11. Filed'
  BY <1>1, FiledFrame DEF Inv, File, History
<1>12. Reading'
  <2>1. cache.begun \in Nat /\ cache'.begun \in Nat
    BY <1>4, <1>5 DEF CacheType
  <2>2. ASSUME NEW n \in 1 .. cursor'
        PROVE  /\ log[n].event \in Opening =>
                    /\ log[n].id <= cache'.begun
                    /\ log[n].id \in Pending(cache') \cup validated
               /\ log[n].event = "checkpoint" => log[n].begun <= cache'.begun
    <3>1. CASE n = cursor + 1
      BY <1>6, <3>1 DEF ev
    <3>2. CASE n \in 1 .. cursor
      <4>1. log[n] \in Event
        BY <1>2, <3>2, ElementOfSeq DEF Inv, Shape
      <4>2. /\ log[n].event \in Opening => log[n].id \in 1 .. MaxId
            /\ log[n].event = "checkpoint" => log[n].begun \in 0 .. MaxId
        BY <4>1, EventFields
      <4>3. /\ log[n].event \in Opening =>
                 /\ log[n].id <= cache.begun
                 /\ log[n].id \in Pending(cache) \cup validated
            /\ log[n].event = "checkpoint" => log[n].begun <= cache.begun
        BY <1>1, <3>2 DEF Inv, Reading
      <4>4. ev.event = "complete" => ev.id \in validated
        BY <1>2 DEF Inv, Filed, ev
      <4>5. /\ log[n].event \in Opening => log[n].id <= cache'.begun
            /\ log[n].event = "checkpoint" => log[n].begun <= cache'.begun
        BY <1>5, <2>1, <4>2, <4>3
      <4>6. log[n].event \in Opening => log[n].id \in Pending(cache') \cup validated
        BY <1>6, <4>3, <4>4
      <4>7. QED
        BY <4>5, <4>6
    <3>3. QED
      BY <1>1, <1>2, <3>1, <3>2
  <2>3. section' \in {"header", "fresh"} => cache' = EmptyCache
    BY <1>5
  <2>4. QED
    BY <1>1, <2>2, <2>3 DEF Reading, File, History
<1>13. Remembered' /\ Copied'
  <2>1. target' = NoTarget
    BY <1>1 DEF Inv, Copied
  <2>2. QED
    BY <1>1, <1>5, <2>1, CopiedNothing DEF Remembered, Running
<1>14. QED
  BY <1>7, <1>9, <1>10, <1>11, <1>12, <1>13 DEF Inv

LEMMA OpenRefusedStep == Inv /\ OpenRefused => Inv'
<1> SUFFICES ASSUME Inv, OpenRefused PROVE Inv'
  OBVIOUS
<1>1. /\ instance = "replaying" /\ instance' = "none" /\ Forgotten
      /\ UNCHANGED <<File, limit, Callers, target, History>>
  BY DEF OpenRefused
<1>2. target' = NoTarget
  BY <1>1 DEF Inv, Copied
<1>3. Shape'
  BY <1>1, ForgottenShape DEF Inv, Shape, File, Callers, History
<1>4. append.by = None
  BY <1>1 DEF Inv, Mutex
<1>5. Mutex' /\ Appending'
  BY <1>1, <1>4 DEF Inv, Mutex, Appending, Callers, History
<1>6. Filed'
  BY <1>1, FiledFrame DEF Inv, File, History
<1>7. Counted' /\ Reading' /\ Remembered' /\ Copied'
  BY <1>1, <1>2, ForgottenMemory
<1>8. QED
  BY <1>3, <1>5, <1>6, <1>7 DEF Inv

LEMMA OpenedStep == \A who \in {"gateway", "tool"} : Inv /\ Opened(who) => Inv'
<1> SUFFICES ASSUME NEW who \in {"gateway", "tool"}, Inv, Opened(who) PROVE Inv'
  OBVIOUS
<1>1. /\ instance = "replaying" /\ cursor = Len(log) /\ Openable
      /\ instance' = who /\ healthy' = TRUE
      /\ writer' = [writer EXCEPT !.lastId = cache.begun]
      /\ UNCHANGED <<File, limit, cursor, section, cache, Callers, target, issued, validated>>
  BY DEF Opened
<1>2. /\ section \in {"fresh", "running"}
      /\ cache.begun \in 0 .. MaxId /\ writer \in WriterType
  BY <1>1 DEF Openable, Inv, Shape, CacheType
<1>3. writer' \in WriterType /\ writer'.lastId = cache.begun
  BY <1>1, <1>2 DEF WriterType
<1>4. Shape'
  <2>1. widest' \in Limits \cup {0}
    BY DEF Opened, Inv, Shape
  <2>2. QED
    BY <1>1, <1>3, <2>1 DEF Inv, Shape, File, Callers
<1>5. append.by = None /\ \A c \in Caller : pc[c] = "idle"
  BY <1>1 DEF Inv, Mutex
<1>6. Mutex' /\ Appending'
  BY <1>1, <1>5 DEF Inv, Mutex, Appending, Callers
<1>7. Counted' /\ Filed'
  BY <1>1, CountedFrame, FiledFrame DEF Inv, File
<1>8. Reading'
  BY <1>1 DEF Reading
<1>9. Remembered'
  <2>1. Len(log) \in Nat /\ synced \in 0 .. Len(log)
    BY DEF Inv, Shape
  <2>2. ASSUME NEW i \in issued \ validated PROVE i \in Pending(cache)
    <3>1. PICK n \in 1 .. synced : log[n].event \in Opening /\ log[n].id = i
      BY DEF Inv, Filed
    <3>2. n \in 1 .. cursor
      BY <1>1, <2>1
    <3>3. QED
      BY <1>1, <3>1, <3>2 DEF Inv, Reading
  <2>3. ASSUME NEW i \in issued PROVE i <= cache.begun
    <3>1. PICK n \in 1 .. synced :
            \/ log[n].event \in Opening /\ log[n].id >= i
            \/ log[n].event = "checkpoint" /\ log[n].begun >= i
      BY DEF Inv, Filed
    <3>2. n \in 1 .. cursor /\ n \in 1 .. Len(log)
      BY <1>1, <2>1
    <3>3. log[n] \in Event
      BY <3>2, ElementOfSeq DEF Inv, Shape
    <3>4. /\ log[n].event \in Opening =>
               log[n].id \in 1 .. MaxId /\ log[n].id <= cache.begun
          /\ log[n].event = "checkpoint" =>
               log[n].begun \in 0 .. MaxId /\ log[n].begun <= cache.begun
      BY <1>1, <3>2, <3>3, EventFields DEF Inv, Reading
    <3>5. i \in 1 .. MaxId
      BY DEF Inv, Shape
    <3>6. QED
      BY <1>2, <3>1, <3>4, <3>5
  <2>4. QED
    BY <1>1, <1>2, <1>3, <2>2, <2>3 DEF Remembered
<1>10. Copied'
  <2>1. target' = NoTarget
    BY <1>1 DEF Inv, Copied
  <2>2. QED
    BY <1>1, <2>1, CopiedNothing DEF Inv, Shape
<1>11. QED
  BY <1>4, <1>6, <1>7, <1>8, <1>9, <1>10 DEF Inv

LEMMA StartBeginStep == \A c \in Caller, e \in Endpoint : Inv /\ StartBegin(c, e) => Inv'
<1> SUFFICES ASSUME NEW c \in Caller, NEW e \in Endpoint, Inv, StartBegin(c, e)
             PROVE  Inv'
  OBVIOUS
<1>1. /\ instance = "gateway" /\ append.by = None /\ healthy /\ pc[c] = "idle"
      /\ writer.lastId < MaxId
      /\ append' = [by |-> c, event |-> BeginEvent(writer.lastId + 1, e), stage |-> "write"]
      /\ pc' = [pc EXCEPT ![c] = "appending"]
      /\ UNCHANGED <<File, instance, Memory, attempt, target, History>>
  BY DEF StartBegin, Writable
<1>2. writer.lastId + 1 \in 1 .. MaxId
  BY <1>1, CallersAssumption DEF Inv, Shape, WriterType
<1>3. Shape'
  <2>1. append' \in AppendType
    BY <1>1, <1>2 DEF AppendType, Event
  <2>2. QED
    BY <1>1, <2>1 DEF Inv, Shape, File, Memory, History
<1>4. Mutex'
  <2>1. \A d \in Caller : pc'[d] = IF d = c THEN "appending" ELSE pc[d]
    BY <1>1 DEF Inv, Shape
  <2>2. append'.by = c /\ \A d \in Caller : pc[d] # "appending"
    BY <1>1, CallersAssumption DEF Inv, Mutex
  <2>3. QED
    BY <1>1, <2>1, <2>2 DEF Inv, Mutex, Memory, History
<1>5. Appending'
  BY <1>1 DEF Appending, Memory
<1>6. Counted' /\ Filed' /\ Reading' /\ Remembered' /\ Copied'
  BY <1>1, CountedFrame, FiledFrame, ReadingFrame, RememberedFrame, CopiedFrame
     DEF Inv, File, Memory, History
<1>7. QED
  BY <1>3, <1>4, <1>5, <1>6 DEF Inv

LEMMA StartCompleteStep == \A c \in Caller : Inv /\ StartComplete(c) => Inv'
<1> SUFFICES ASSUME NEW c \in Caller, Inv, StartComplete(c) PROVE Inv'
  OBVIOUS
<1>1. /\ instance = "gateway" /\ append.by = None /\ healthy /\ pc[c] = "validated"
      /\ attempt[c] \in Pending(cache)
      /\ append' = [by |-> c, event |-> CompleteEvent(attempt[c]), stage |-> "write"]
      /\ pc' = [pc EXCEPT ![c] = "appending"]
      /\ UNCHANGED <<File, instance, Memory, attempt, target, History>>
  BY DEF StartComplete, Writable
<1>2. attempt[c] \in validated /\ attempt[c] \in 1 .. MaxId
  BY <1>1 DEF Inv, Shape, Mutex
<1>3. Shape'
  <2>1. append' \in AppendType
    BY <1>1, <1>2 DEF AppendType, Event
  <2>2. QED
    BY <1>1, <2>1 DEF Inv, Shape, File, Memory, History
<1>4. Mutex'
  <2>1. \A d \in Caller : pc'[d] = IF d = c THEN "appending" ELSE pc[d]
    BY <1>1 DEF Inv, Shape
  <2>2. append'.by = c /\ \A d \in Caller : pc[d] # "appending"
    BY <1>1, CallersAssumption DEF Inv, Mutex
  <2>3. QED
    BY <1>1, <2>1, <2>2 DEF Inv, Mutex, Memory, History
<1>5. Appending'
  BY <1>1, <1>2 DEF Appending, Memory, History
<1>6. Counted' /\ Filed' /\ Reading' /\ Remembered' /\ Copied'
  BY <1>1, CountedFrame, FiledFrame, ReadingFrame, RememberedFrame, CopiedFrame
     DEF Inv, File, Memory, History
<1>7. QED
  BY <1>3, <1>4, <1>5, <1>6 DEF Inv

LEMMA WriteLineStep == Inv /\ WriteLine => Inv'
<1> SUFFICES ASSUME Inv, WriteLine PROVE Inv'
  OBVIOUS
<1>1. /\ append.by # None /\ append.stage = "write"
      /\ log' = Append(log, append.event)
      /\ append' = [append EXCEPT !.stage = "sync"]
      /\ UNCHANGED <<torn, synced, instance, Memory, pc, attempt, target, History>>
  BY DEF WriteLine
<1>2. append.event \in Event /\ log \in Seq(Event) /\ Len(log) \in Nat
      /\ synced \in 0 .. Len(log) /\ cursor \in 0 .. Len(log)
  BY DEF Inv, Shape, AppendType
<1>3. /\ log' \in Seq(Event) /\ log' # <<>>
      /\ Len(log') = Len(log) + 1
      /\ \A n \in 1 .. Len(log) : log'[n] = log[n]
      /\ log'[Len(log')] = append.event
  BY <1>1, <1>2, AppendProperties
<1>4. /\ append' \in AppendType /\ append'.by = append.by
      /\ append'.event = append.event /\ append'.stage = "sync"
  BY <1>1 DEF Inv, Shape, AppendType
<1>5. Shape'
  <2>1. synced' \in 0 .. Len(log') /\ cursor' \in 0 .. Len(log')
    BY <1>1, <1>2, <1>3 DEF Memory
  <2>2. QED
    BY <1>1, <1>3, <1>4, <2>1 DEF Inv, Shape, Memory, History
<1>6. Mutex' /\ Appending'
  BY <1>1, <1>3, <1>4 DEF Inv, Mutex, Appending, Memory, History
<1>7. Filed'
  <2>1. append.event.event = "complete" => append.event.id \in validated
    <3>1. CASE \E e \in Endpoint : append.event = BeginEvent(writer.lastId + 1, e)
      BY <3>1, EventValues
    <3>2. CASE append.event = CompleteEvent(attempt[append.by])
      BY <1>1, <3>2, EventValues DEF Inv, Appending
    <3>3. QED
      BY <1>1, <3>1, <3>2 DEF Inv, Appending
  <2>2. \A n \in 1 .. Len(log') : log'[n].event = "complete" => log'[n].id \in validated
    BY <1>2, <1>3, <2>1 DEF Inv, Filed
  <2>3. \A n \in 1 .. synced : log'[n] = log[n]
    BY <1>2, <1>3
  <2>4. UNCHANGED <<synced, issued, validated>>
    BY <1>1 DEF History
  <2>5. \A i \in issued \ validated :
          \E n \in 1 .. synced : log'[n].event \in Opening /\ log'[n].id = i
    BY <2>3 DEF Inv, Filed
  <2>6. \A i \in issued :
          \E n \in 1 .. synced :
            \/ log'[n].event \in Opening /\ log'[n].id >= i
            \/ log'[n].event = "checkpoint" /\ log'[n].begun >= i
    <3>1. TAKE i \in issued
    <3>2. PICK n \in 1 .. synced :
            \/ log[n].event \in Opening /\ log[n].id >= i
            \/ log[n].event = "checkpoint" /\ log[n].begun >= i
      BY DEF Inv, Filed
    <3>3. QED
      BY <2>3, <3>2
  <2>7. QED
    BY <2>2, <2>4, <2>5, <2>6 DEF Filed
<1>8. instance = "gateway"
  BY <1>1 DEF Inv, Mutex
<1>9. Reading'
  BY <1>1, <1>8 DEF Reading
<1>10. Counted' /\ Remembered' /\ Copied'
  BY <1>1, CountedFrame, RememberedFrame, CopiedFrame DEF Inv, Memory, History
<1>11. QED
  BY <1>5, <1>6, <1>7, <1>9, <1>10 DEF Inv

(* A caller whose append or attempt is over. *)
LEMMA CallerIdle ==
  ASSUME Shape, Mutex, NEW c \in Caller, append'.by = None,
         append.by \in {c, None},
         pc' = [pc EXCEPT ![c] = "idle"], attempt' = [attempt EXCEPT ![c] = 0],
         UNCHANGED <<instance, issued, validated>>
  PROVE  Mutex' /\ pc' \in [Caller -> {"idle", "appending", "held", "validated"}]
                /\ attempt' \in [Caller -> 0 .. MaxId]
<1>1. \A d \in Caller : /\ pc'[d] = IF d = c THEN "idle" ELSE pc[d]
                        /\ attempt'[d] = IF d = c THEN 0 ELSE attempt[d]
  BY DEF Shape
<1>2. \A d \in Caller : pc'[d] # "appending" /\ append'.by # d
  BY <1>1, CallersAssumption DEF Mutex
<1>3. \A d \in Caller : pc'[d] \in {"held", "validated"} =>
        d # c /\ pc'[d] = pc[d] /\ attempt'[d] = attempt[d]
  BY <1>1
<1>4. Mutex'
  BY <1>1, <1>2, <1>3 DEF Mutex
<1>5. QED
  BY <1>4, CallersAssumption DEF Shape

LEMMA AppendFailsStep == Inv /\ AppendFails => Inv'
<1> SUFFICES ASSUME Inv, AppendFails PROVE Inv'
  OBVIOUS
<1>1. /\ append.by # None
      /\ healthy' = FALSE /\ append' = NoAppend
      /\ pc' = [pc EXCEPT ![append.by] = "idle"]
      /\ attempt' = [attempt EXCEPT ![append.by] = 0]
      /\ UNCHANGED <<log, synced, instance, limit, cursor, section, cache, writer,
                     target, History>>
  BY DEF AppendFails
<1>2. append.by \in Caller
  BY <1>1 DEF Inv, Shape, AppendType
<1>3. torn' \in BOOLEAN
  BY DEF AppendFails, Inv, Shape
<1>4. /\ Mutex' /\ pc' \in [Caller -> {"idle", "appending", "held", "validated"}]
      /\ attempt' \in [Caller -> 0 .. MaxId]
  BY <1>1, <1>2, CallerIdle, NothingWritten DEF Inv, History
<1>5. Shape'
  BY <1>1, <1>3, <1>4, NothingWritten DEF Inv, Shape, History
<1>6. Appending'
  BY <1>1, NothingWritten DEF Appending
<1>7. Counted' /\ Filed' /\ Reading' /\ Remembered' /\ Copied'
  BY <1>1, CountedFrame, FiledFrame, ReadingFrame, RememberedFrame, CopiedFrame
     DEF Inv, History
<1>8. QED
  BY <1>4, <1>5, <1>6, <1>7 DEF Inv

(* Once the sync returned, the whole file is what a crash leaves. *)
LEMMA SyncedFile ==
  ASSUME Shape, Filed
  PROVE  /\ \A i \in issued \ validated :
              \E n \in 1 .. Len(log) : log[n].event \in Opening /\ log[n].id = i
         /\ \A i \in issued :
              \E n \in 1 .. Len(log) :
                \/ log[n].event \in Opening /\ log[n].id >= i
                \/ log[n].event = "checkpoint" /\ log[n].begun >= i
<1>1. \A n \in 1 .. synced : n \in 1 .. Len(log)
  BY DEF Shape
<1>2. QED
  BY <1>1 DEF Filed

LEMMA BeginDoneStep == Inv /\ BeginDone => Inv'
<1> SUFFICES ASSUME Inv, BeginDone PROVE Inv'
  OBVIOUS
<1> DEFINE c == append.by
           ev == append.event
<1>1. /\ c # None /\ append.stage = "sync" /\ ev.event = "begin"
      /\ synced' = Len(log)
      /\ writer' = [length |-> writer.length + BeginSize, lastId |-> ev.id]
      /\ cache' = CacheBegin(cache, ev.id, ev.endpoint)
      /\ append' = NoAppend
      /\ pc' = [pc EXCEPT ![c] = "held"]
      /\ attempt' = [attempt EXCEPT ![c] = ev.id]
      /\ issued' = issued \cup {ev.id}
      /\ UNCHANGED <<log, torn, instance, limit, cursor, section, healthy, target,
                     validated, widest>>
  BY DEF BeginDone
<1>2. c \in Caller /\ ev \in Event
  BY <1>1 DEF Inv, Shape, AppendType
<1>3. instance = "gateway" /\ pc[c] = "appending"
  BY <1>1, <1>2 DEF Inv, Mutex
<1>4. log # <<>> /\ log[Len(log)] = ev
  BY <1>1 DEF Inv, Appending
<1>5. ev.id = cache.begun + 1
  <2>1. \E e \in Endpoint : ev = BeginEvent(writer.lastId + 1, e)
    BY <1>1, EventValues DEF Inv, Appending
  <2>2. ev.id = writer.lastId + 1
    BY <2>1, EventValues
  <2>3. QED
    BY <1>3, <2>2 DEF Inv, Remembered, Running
<1>6. ev.id \in 1 .. MaxId /\ ev.endpoint \in Endpoint
  BY <1>1, <1>2, EventFields DEF Opening
<1>7. Len(log) \in Nat \ {0} /\ synced \in 0 .. Len(log) /\ cursor \in 0 .. Len(log)
  BY <1>4, EmptySeq DEF Inv, Shape
<1> HIDE DEF c, ev
<1>8. cache \in CacheType /\ Tallied(cache) /\ Conserved(cache)
  BY <1>3 DEF Inv, Shape, Counted, Remembered, Running
<1>9. /\ cache' \in CacheType /\ cache'.begun = ev.id
      /\ Pending(cache') = Pending(cache) \cup {ev.id}
      /\ Tallied(cache') /\ Conserved(cache')
  <2>1. cache' = CacheBegin(cache, cache.begun + 1, ev.endpoint)
    BY <1>1, <1>5
  <2>2. cache' \in CacheType /\ cache'.begun = ev.id
    BY <1>1, <1>6, <1>8, CacheBeginFields
  <2>3. QED
    BY <1>5, <1>6, <1>8, <2>1, <2>2, BeginTallied
<1>10. /\ \A d \in Caller : pc'[d] = IF d = c THEN "held" ELSE pc[d]
       /\ \A d \in Caller : attempt'[d] = IF d = c THEN ev.id ELSE attempt[d]
  BY <1>1 DEF Inv, Shape
<1>11. Shape'
  <2>1. writer' \in WriterType
    BY <1>1, <1>6, SizesAssumption DEF Inv, Shape, WriterType
  <2>2. attempt' \in [Caller -> 0 .. MaxId]
    <3>1. attempt \in [Caller -> 0 .. MaxId] /\ ev.id \in 0 .. MaxId
      BY <1>6 DEF Inv, Shape
    <3>2. attempt' = [attempt EXCEPT ![c] = ev.id]
      BY <1>1
    <3>3. QED
      BY <3>1, <3>2
  <2>3. pc' \in [Caller -> {"idle", "appending", "held", "validated"}]
    BY <1>1 DEF Inv, Shape
  <2>4. synced' \in 0 .. Len(log') /\ cursor' \in 0 .. Len(log')
    BY <1>1, <1>7
  <2>5. issued' \subseteq 1 .. MaxId /\ validated' \subseteq issued'
    BY <1>1, <1>6 DEF Inv, Shape
  <2>6. append' \in AppendType
    BY <1>1, NothingWritten
  <2>7. QED
    BY <1>1, <1>9, <2>1, <2>2, <2>3, <2>4, <2>5, <2>6 DEF Inv, Shape
<1>12. Mutex'
  <2>1. append'.by = None
    BY <1>1, NothingWritten
  <2>2. \A d \in Caller : pc'[d] # "appending" /\ append'.by # d
    BY <1>10, <2>1, CallersAssumption DEF Inv, Mutex, c
  <2>3. QED
    BY <1>1, <1>3, <1>10, <2>1, <2>2 DEF Inv, Mutex
<1>13. Appending'
  BY <1>1, NothingWritten DEF Appending
<1>14. Counted'
  BY <1>9 DEF Counted
<1>15. Filed'
  <2>1. \A i \in issued' \ validated' :
          \E n \in 1 .. Len(log) : log[n].event \in Opening /\ log[n].id = i
    BY <1>1, <1>4, <1>7, SyncedFile DEF Inv, Opening
  <2>2. \A i \in issued' :
          \E n \in 1 .. Len(log) :
            \/ log[n].event \in Opening /\ log[n].id >= i
            \/ log[n].event = "checkpoint" /\ log[n].begun >= i
    <3>1. ev.id >= ev.id
      BY <1>6
    <3>2. QED
      BY <1>1, <1>4, <1>7, <3>1, SyncedFile DEF Inv, Opening
  <2>3. QED
    BY <1>1, <2>1, <2>2 DEF Inv, Filed
<1>16. Reading'
  BY <1>1, <1>3 DEF Reading
<1>17. Remembered'
  <2>1. writer'.lastId = ev.id
    BY <1>1
  <2>2. \A i \in issued' : i <= ev.id
    <3>1. \A i \in issued : i <= cache.begun /\ i \in 1 .. MaxId
      BY <1>3 DEF Inv, Shape, Remembered, Running
    <3>2. cache.begun \in Nat
      BY <1>8 DEF CacheType
    <3>3. QED
      BY <1>1, <1>5, <3>1, <3>2
  <2>3. QED
    BY <1>1, <1>3, <1>9, <2>1, <2>2 DEF Inv, Remembered, Running
<1>18. Copied'
  <2>1. target' = NoTarget
    BY <1>1, <1>3 DEF Inv, Copied
  <2>2. QED
    BY <1>9, <2>1, CopiedNothing
<1>19. QED
  BY <1>11, <1>12, <1>13, <1>14, <1>15, <1>16, <1>17, <1>18 DEF Inv

LEMMA CompleteDoneStep == Inv /\ CompleteDone => Inv'
<1> SUFFICES ASSUME Inv, CompleteDone PROVE Inv'
  OBVIOUS
<1> DEFINE c == append.by
           ev == append.event
<1>1. /\ c # None /\ append.stage = "sync" /\ ev.event = "complete"
      /\ synced' = Len(log)
      /\ writer' = [writer EXCEPT !.length = @ + CompleteSize]
      /\ cache' = CacheComplete(cache, ev.id)
      /\ append' = NoAppend
      /\ pc' = [pc EXCEPT ![c] = "idle"]
      /\ attempt' = [attempt EXCEPT ![c] = 0]
      /\ UNCHANGED <<log, torn, instance, limit, cursor, section, healthy, target, History>>
  BY DEF CompleteDone
<1>2. c \in Caller /\ ev \in Event
  BY <1>1 DEF Inv, Shape, AppendType
<1>3. instance = "gateway"
  BY <1>1 DEF Inv, Mutex
<1>4. ev.id \in Pending(cache) \cap validated
  <2>1. ev = CompleteEvent(attempt[c]) /\ attempt[c] \in Pending(cache) \cap validated
    BY <1>1, EventValues DEF Inv, Appending
  <2>2. QED
    BY <2>1, EventValues
<1> HIDE DEF ev
<1>5. cache \in CacheType /\ Tallied(cache) /\ Conserved(cache)
  BY <1>3 DEF Inv, Shape, Counted, Remembered, Running
<1>6. /\ cache' \in CacheType /\ cache'.begun = cache.begun
      /\ Pending(cache') = Pending(cache) \ {ev.id}
      /\ Tallied(cache') /\ Conserved(cache')
  <2>1. cache.completed < MaxId /\ Tallied(cache') /\ Conserved(cache')
    BY <1>1, <1>4, <1>5, CompleteTallied
  <2>2. cache' \in CacheType
    BY <1>1, <1>4, <1>5, <2>1, CacheCompleteType
  <2>3. QED
    BY <1>1, <1>4, <1>5, <2>1, <2>2, CacheCompleteFields
<1>7. /\ Mutex' /\ pc' \in [Caller -> {"idle", "appending", "held", "validated"}]
      /\ attempt' \in [Caller -> 0 .. MaxId]
  BY <1>1, <1>2, CallerIdle, NothingWritten DEF Inv, History
<1>8. writer' \in WriterType /\ writer'.lastId = writer.lastId
  <2>1. writer \in WriterType /\ CompleteSize \in Nat
    BY SizesAssumption DEF Inv, Shape
  <2>2. writer.length + CompleteSize \in Nat
    BY <2>1 DEF WriterType
  <2>3. writer' = [writer EXCEPT !.length = writer.length + CompleteSize]
    BY <1>1
  <2>4. QED
    BY <2>1, <2>2, <2>3 DEF WriterType
<1>9. Shape'
  <2>1. synced' \in 0 .. Len(log') /\ cursor' \in 0 .. Len(log')
    BY <1>1 DEF Inv, Shape
  <2>2. QED
    BY <1>1, <1>6, <1>7, <1>8, <2>1, NothingWritten DEF Inv, Shape, History
<1>10. Appending'
  BY <1>1, NothingWritten DEF Appending
<1>11. Counted'
  BY <1>6 DEF Counted
<1>12. Filed'
  BY <1>1, SyncedFile DEF Inv, Filed, History
<1>13. Reading'
  BY <1>1, <1>3 DEF Reading
<1>14. Remembered'
  BY <1>1, <1>3, <1>4, <1>6, <1>8 DEF Inv, Remembered, Running, History
<1>15. Copied'
  <2>1. target' = NoTarget
    BY <1>1, <1>3 DEF Inv, Copied
  <2>2. QED
    BY <1>6, <2>1, CopiedNothing
<1>16. QED
  BY <1>7, <1>9, <1>10, <1>11, <1>12, <1>13, <1>14, <1>15 DEF Inv

LEMMA ValidateStep == \A c \in Caller : Inv /\ Validate(c) => Inv'
<1> SUFFICES ASSUME NEW c \in Caller, Inv, Validate(c) PROVE Inv'
  OBVIOUS
<1>1. /\ pc[c] = "held" /\ pc' = [pc EXCEPT ![c] = "validated"]
      /\ validated' = validated \cup {attempt[c]}
      /\ UNCHANGED <<File, instance, Memory, append, attempt, target, issued, widest>>
  BY DEF Validate
<1>2. attempt[c] \in issued /\ instance = "gateway"
  BY <1>1 DEF Inv, Mutex
<1>3. \A d \in Caller : pc'[d] = IF d = c THEN "validated" ELSE pc[d]
  BY <1>1 DEF Inv, Shape
<1>4. Shape'
  BY <1>1, <1>2 DEF Inv, Shape, File, Memory
<1>5. Mutex'
  BY <1>1, <1>2, <1>3 DEF Inv, Mutex, Memory
<1>6. Appending'
  BY <1>1 DEF Inv, Appending, File, Memory
<1>7. Counted' /\ Copied'
  BY <1>1, CountedFrame, CopiedFrame DEF Inv, Memory
<1>8. Filed'
  BY <1>1 DEF Inv, Filed, File
<1>9. Reading'
  BY <1>1, <1>2 DEF Reading
<1>10. Remembered'
  BY <1>1 DEF Inv, Remembered, Running, Memory
<1>11. QED
  BY <1>4, <1>5, <1>6, <1>7, <1>8, <1>9, <1>10 DEF Inv

LEMMA GiveUpStep == \A c \in Caller : Inv /\ GiveUp(c) => Inv'
<1> SUFFICES ASSUME NEW c \in Caller, Inv, GiveUp(c) PROVE Inv'
  OBVIOUS
<1>1. /\ pc[c] \in {"held", "validated"}
      /\ pc' = [pc EXCEPT ![c] = "idle"] /\ attempt' = [attempt EXCEPT ![c] = 0]
      /\ UNCHANGED <<File, instance, Memory, append, target, History>>
  BY DEF GiveUp
<1>2. append.by # c
  BY <1>1 DEF Inv, Mutex
<1>3. \A d \in Caller : /\ pc'[d] = IF d = c THEN "idle" ELSE pc[d]
                        /\ attempt'[d] = IF d = c THEN 0 ELSE attempt[d]
  BY <1>1 DEF Inv, Shape
<1>4. Shape'
  <2>1. attempt' \in [Caller -> 0 .. MaxId]
    BY <1>1, CallersAssumption DEF Inv, Shape
  <2>2. QED
    BY <1>1, <2>1 DEF Inv, Shape, File, Memory, History
<1>5. Mutex'
  BY <1>1, <1>2, <1>3 DEF Inv, Mutex, Memory, History
<1>6. Appending'
  <2>1. append.by # None => append.by \in Caller /\ attempt'[append.by] = attempt[append.by]
    BY <1>2, <1>3 DEF Inv, Shape, AppendType
  <2>2. QED
    BY <1>1, <2>1 DEF Inv, Appending, File, Memory, History
<1>7. Counted' /\ Filed' /\ Reading' /\ Remembered' /\ Copied'
  BY <1>1, CountedFrame, FiledFrame, ReadingFrame, RememberedFrame, CopiedFrame
     DEF Inv, File, Memory, History
<1>8. QED
  BY <1>4, <1>5, <1>6, <1>7 DEF Inv

(* A step of the export changes the target alone. *)
LEMMA EmitFrame ==
  ASSUME Inv, instance = "tool", target' \in TargetType, Copied',
         UNCHANGED <<File, instance, Memory, Callers, History>>
  PROVE  Inv'
<1>1. Shape'
  BY DEF Inv, Shape, File, Memory, Callers, History
<1>2. Mutex' /\ Appending'
  BY DEF Inv, Mutex, Appending, File, Memory, Callers, History
<1>3. Counted' /\ Filed' /\ Reading' /\ Remembered'
  BY CountedFrame, FiledFrame, ReadingFrame, RememberedFrame
     DEF Inv, File, Memory, History
<1>4. QED
  BY <1>1, <1>2, <1>3 DEF Inv

(* What emit() does to the target's fields. *)
LEMMA Emitted ==
  ASSUME Inv, NEW ev \in Event, NEW last \in 0 .. MaxId, Emit(ev, last)
  PROVE  /\ target' \in TargetType
         /\ target'.last = last
         /\ target'.done <=> ev.event = "checkpoint_end"
         /\ target'.length = target.length + Size(ev)
         /\ Len(target.lines) \in Nat
         /\ Len(target'.lines) = Len(target.lines) + 1
         /\ \A n \in 1 .. Len(target.lines) : target'.lines[n] = target.lines[n]
         /\ target'.lines[Len(target.lines) + 1] = ev
<1>1. target.lines \in Seq(Event) /\ target.length \in Nat
  BY DEF Inv, Shape, TargetType
<1>2. Size(ev) \in Nat
  BY SizeNat
<1>3. target' = [lines |-> Append(target.lines, ev), length |-> target.length + Size(ev),
                 last |-> last, done |-> ev.event = "checkpoint_end"]
  BY DEF Emit
<1>4. target'.lines = Append(target.lines, ev)
  BY <1>3
<1>5. Append(target.lines, ev) \in Seq(Event)
  BY <1>1, AppendProperties
<1>6. target' \in TargetType
  BY <1>1, <1>2, <1>3, <1>5 DEF TargetType
<1>7. target'.last = last /\ target'.length = target.length + Size(ev)
  BY <1>3
<1>8. target'.done = (ev.event = "checkpoint_end")
  BY <1>3, Zenon
<1>9. target'.done <=> ev.event = "checkpoint_end"
  BY <1>8
<1>10. /\ Len(target.lines) \in Nat
       /\ Len(target'.lines) = Len(target.lines) + 1
       /\ \A n \in 1 .. Len(target.lines) : target'.lines[n] = target.lines[n]
       /\ target'.lines[Len(target.lines) + 1] = ev
  BY <1>1, <1>4, AppendProperties
<1>11. QED
  BY <1>6, <1>7, <1>9, <1>10

LEMMA ExportHeadStep == Inv /\ ExportHead => Inv'
<1> SUFFICES ASSUME Inv, ExportHead PROVE Inv'
  OBVIOUS
<1>1. /\ instance = "tool" /\ ~target.done
      /\ UNCHANGED <<File, instance, Memory, Callers, History>>
  BY DEF ExportHead, Exporting
<1>2. Pending(cache) \subseteq 1 .. MaxId /\ MaxId \in Nat
      /\ cache.begun \in 0 .. MaxId /\ cache.completed \in 0 .. MaxId /\ cache' = cache
  BY <1>1, CacheFields, CallersAssumption DEF Inv, Shape, CacheType, Memory
<1>3. CASE target.lines = <<>> /\ Emit(Header, 0)
  <2>1. Header \in Event /\ 0 \in 0 .. MaxId
    BY <1>2 DEF Event
  <2>2. Len(target.lines) = 0
    BY <1>3
  <2>3. /\ target' \in TargetType /\ target'.last = 0 /\ ~target'.done
        /\ Len(target'.lines) = 1 /\ target'.lines[1] = Header
    <3>1. Header.event # "checkpoint_end"
      BY EventValues
    <3>2. /\ target' \in TargetType /\ target'.last = 0 /\ ~target'.done
          /\ Len(target'.lines) = Len(target.lines) + 1
          /\ target'.lines[Len(target.lines) + 1] = Header
      BY <1>3, <2>1, <3>1, Emitted
    <3>3. QED
      BY <2>2, <3>2
  <2>4. RestoreLines' = {}
    BY <2>3 DEF RestoreLines
  <2>5. Copied'
    BY <1>1, <1>2, <2>3, <2>4 DEF Copied
  <2>6. QED
    BY <1>1, <2>3, <2>5, EmitFrame
<1>4. CASE Len(target.lines) = 1 /\ Emit(CheckpointEvent(cache.begun, cache.completed), 0)
  <2> DEFINE ev == CheckpointEvent(cache.begun, cache.completed)
  <2>1. ev \in Event /\ 0 \in 0 .. MaxId
    BY <1>2 DEF Event
  <2>2. target.lines[1] = Header /\ ev.event = "checkpoint"
    BY <1>4, EventValues DEF Inv, Copied
  <2> HIDE DEF ev
  <2>3. /\ target' \in TargetType /\ target'.last = 0 /\ ~target'.done
        /\ Len(target'.lines) = 2
        /\ target'.lines[1] = Header /\ target'.lines[2] = ev
    <3>1. ev.event # "checkpoint_end"
      BY <2>2
    <3>2. /\ target' \in TargetType /\ target'.last = 0 /\ ~target'.done
          /\ Len(target'.lines) = Len(target.lines) + 1
          /\ \A n \in 1 .. Len(target.lines) : target'.lines[n] = target.lines[n]
          /\ target'.lines[Len(target.lines) + 1] = ev
      BY <1>4, <2>1, <3>1, Emitted DEF ev
    <3>3. QED
      BY <1>4, <2>2, <3>2
  <2>4. RestoreLines' = {}
    BY <2>3 DEF RestoreLines
  <2>5. Copied'
    BY <1>1, <1>2, <2>3, <2>4 DEF Copied, ev
  <2>6. QED
    BY <1>1, <2>3, <2>5, EmitFrame
<1>5. QED
  BY <1>3, <1>4 DEF ExportHead

LEMMA ExportRestoreStep == Inv /\ ExportRestore => Inv'
<1> SUFFICES ASSUME Inv, ExportRestore PROVE Inv'
  OBVIOUS
<1>1. /\ instance = "tool" /\ ~target.done /\ Len(target.lines) >= 2
      /\ UNCHANGED <<File, instance, Memory, Callers, History>>
  BY DEF ExportRestore, Exporting
<1>2. PICK i \in Remaining :
        /\ \A j \in Remaining : i <= j
        /\ Emit(RestoreEvent(i, cache.unresolved[i]), i)
  BY DEF ExportRestore
<1> DEFINE Copy(j) == RestoreEvent(j, cache.unresolved[j])
           m == Len(target.lines)
<1>3. /\ Pending(cache) \subseteq 1 .. MaxId /\ cache' = cache
      /\ i \in Pending(cache) /\ i > target.last /\ i \in 1 .. MaxId
      /\ target.last \in 0 .. MaxId
  BY <1>1, <1>2, CacheFields DEF Inv, Shape, TargetType, Memory, Remaining
<1>4. Copy(i) \in Event /\ Copy(i).event = "restore" /\ \A j : Copy(j).id = j
  <2>1. cache.unresolved[i] \in Endpoint
    BY <1>3, CacheFields DEF Inv, Shape
  <2>2. QED
    BY <1>3, <2>1, EventValues DEF Event
<1>5. Emit(Copy(i), i) /\ i \in 0 .. MaxId
  BY <1>2, <1>3
<1> HIDE DEF Copy
<1>6. /\ target' \in TargetType /\ target'.last = i /\ ~target'.done
      /\ m \in Nat /\ Len(target'.lines) = m + 1
      /\ \A n \in 1 .. m : target'.lines[n] = target.lines[n]
      /\ target'.lines[m + 1] = Copy(i)
  BY <1>4, <1>5, Emitted
<1>7. m >= 2 /\ RestoreLines = 3 .. m /\ RestoreLines' = 3 .. (m + 1)
  BY <1>1, <1>6 DEF RestoreLines
<1>8. /\ target.lines[1] = Header
      /\ target.lines[2] = CheckpointEvent(cache.begun, cache.completed)
      /\ \A n \in RestoreLines : \E j \in Pending(cache) :
           /\ target.lines[n] = Copy(j) /\ j <= target.last
           /\ n > 3 => target.lines[n - 1].id < j
      /\ \A j \in Pending(cache) : j <= target.last =>
           \E n \in RestoreLines : target.lines[n] = Copy(j)
  BY <1>1 DEF Inv, Copied, Copy
<1> HIDE DEF m
<1>9. ASSUME NEW n \in RestoreLines'
      PROVE  \E j \in Pending(cache) :
               /\ target'.lines[n] = Copy(j) /\ j <= i
               /\ n > 3 => target'.lines[n - 1].id < j
  <2>1. CASE n \in 3 .. m
    <3>1. PICK j \in Pending(cache) :
            /\ target.lines[n] = Copy(j) /\ j <= target.last
            /\ n > 3 => target.lines[n - 1].id < j
      BY <1>7, <1>8, <2>1
    <3>2. n \in 1 .. m /\ n - 1 \in 1 .. m
      BY <1>6, <2>1
    <3>3. j <= i
      BY <1>3, <3>1
    <3>4. QED
      BY <1>6, <3>1, <3>2, <3>3
  <2>2. CASE n = m + 1
    <3>1. n > 3 => n - 1 = m /\ m \in RestoreLines /\ m \in 1 .. m
      BY <1>6, <1>7, <2>2
    <3>2. ASSUME n > 3 PROVE target'.lines[n - 1].id < i
      <4>1. PICK j \in Pending(cache) : target.lines[m] = Copy(j) /\ j <= target.last
        BY <1>8, <3>1, <3>2
      <4>2. target'.lines[n - 1].id = j
        BY <1>4, <1>6, <3>1, <3>2, <4>1
      <4>3. QED
        BY <1>3, <4>1, <4>2
    <3>3. i <= i
      BY <1>3
    <3>4. QED
      BY <1>3, <1>6, <2>2, <3>2, <3>3
  <2>3. QED
    BY <1>6, <1>7, <2>1, <2>2
<1>10. ASSUME NEW j \in Pending(cache), j <= i
       PROVE  \E n \in RestoreLines' : target'.lines[n] = Copy(j)
  <2>1. CASE j <= target.last
    <3>1. PICK n \in RestoreLines : target.lines[n] = Copy(j)
      BY <1>8, <2>1
    <3>2. n \in RestoreLines' /\ n \in 1 .. m
      BY <1>6, <1>7
    <3>3. QED
      BY <1>6, <3>1, <3>2
  <2>2. CASE ~(j <= target.last)
    <3>1. j \in Remaining
      BY <1>3, <2>2 DEF Remaining
    <3>2. j = i
      BY <1>2, <1>3, <1>10, <3>1
    <3>3. m + 1 \in RestoreLines'
      BY <1>6, <1>7
    <3>4. QED
      BY <1>6, <3>2, <3>3
  <2>3. QED
    BY <2>1, <2>2
<1>11. Copied'
  <2>1. /\ Len(target'.lines) >= 2 /\ ~target'.done /\ instance' = "tool"
        /\ target'.lines[1] = Header
        /\ target'.lines[2] = CheckpointEvent(cache.begun, cache.completed)
    <3>1. 1 \in 1 .. m /\ 2 \in 1 .. m /\ m + 1 >= 2
      BY <1>6, <1>7
    <3>2. QED
      BY <1>1, <1>6, <1>8, <3>1
  <2>2. ~(Len(target'.lines) < 2)
    BY <1>6, <1>7
  <2>3. QED
    BY <1>3, <1>6, <1>9, <1>10, <2>1, <2>2 DEF Copied, Copy
<1>12. QED
  BY <1>1, <1>6, <1>11, EmitFrame

LEMMA ExportEndStep == Inv /\ ExportEnd => Inv'
<1> SUFFICES ASSUME Inv, ExportEnd PROVE Inv'
  OBVIOUS
<1> DEFINE m == Len(target.lines)
<1>1. /\ instance = "tool" /\ ~target.done /\ m >= 2 /\ Remaining = {}
      /\ Emit(CheckpointEnd, target.last)
      /\ UNCHANGED <<File, instance, Memory, Callers, History>>
  BY DEF ExportEnd, Exporting
<1>2. CheckpointEnd \in Event /\ target.last \in 0 .. MaxId
  BY DEF Inv, Shape, TargetType, Event
<1>3. /\ target' \in TargetType /\ target'.last = target.last /\ target'.done
      /\ m \in Nat /\ Len(target'.lines) = m + 1
      /\ \A n \in 1 .. m : target'.lines[n] = target.lines[n]
      /\ target'.lines[m + 1] = CheckpointEnd
  <2>1. CheckpointEnd.event = "checkpoint_end"
    BY EventValues
  <2>2. QED
    BY <1>1, <1>2, <2>1, Emitted
<1>4. cache' = cache /\ Remaining' = {} /\ instance' = "tool"
  BY <1>1, <1>3 DEF Memory, Remaining
<1>5. RestoreLines = 3 .. m /\ RestoreLines' = 3 .. m
  BY <1>1, <1>3 DEF RestoreLines
<1>6. \A n \in RestoreLines : n \in 1 .. m /\ n - 1 \in 1 .. m
  BY <1>3, <1>5
<1>7. /\ target.lines[1] = Header
      /\ target.lines[2] = CheckpointEvent(cache.begun, cache.completed)
  BY <1>1 DEF Inv, Copied
<1> HIDE DEF m
<1>8. \A n \in RestoreLines' : \E i \in Pending(cache) :
         /\ target'.lines[n] = RestoreEvent(i, cache.unresolved[i])
         /\ i <= target.last
         /\ n > 3 => target'.lines[n - 1].id < i
  BY <1>3, <1>5, <1>6 DEF Inv, Copied
<1>9. \A i \in Pending(cache) : i <= target.last =>
        \E n \in RestoreLines' : target'.lines[n] = RestoreEvent(i, cache.unresolved[i])
  <2>1. TAKE i \in Pending(cache)
  <2>2. HAVE i <= target.last
  <2>3. PICK n \in RestoreLines : target.lines[n] = RestoreEvent(i, cache.unresolved[i])
    BY <2>2 DEF Inv, Copied
  <2>4. QED
    BY <1>3, <1>5, <1>6, <2>3
<1>10. /\ Len(target'.lines) >= 3 /\ ~(Len(target'.lines) < 2)
       /\ target'.lines[Len(target'.lines)] = CheckpointEnd
       /\ target'.lines[1] = Header
       /\ target'.lines[2] = CheckpointEvent(cache.begun, cache.completed)
  BY <1>1, <1>3, <1>7
<1>11. Copied'
  BY <1>3, <1>4, <1>8, <1>9, <1>10 DEF Copied
<1>12. QED
  BY <1>1, <1>3, <1>11, EmitFrame

(* What a finished checkpoint holds, line by line. *)
LEMMA FinishedTarget ==
  ASSUME Inv, target.done
  PROVE  /\ Len(target.lines) \in Nat /\ Len(target.lines) >= 3
         /\ target.lines[1] = Header
         /\ target.lines[2] = CheckpointEvent(cache.begun, cache.completed)
         /\ \A n \in 3 .. Len(target.lines) - 1 : \E i \in Pending(cache) :
              /\ target.lines[n] = RestoreEvent(i, cache.unresolved[i])
              /\ n > 3 => target.lines[n - 1].id < i
         /\ \A i \in Pending(cache) : \E n \in 3 .. Len(target.lines) - 1 :
              target.lines[n] = RestoreEvent(i, cache.unresolved[i])
         /\ target.lines[Len(target.lines)] = CheckpointEnd
<1>1. target.lines \in Seq(Event) /\ target.last \in 0 .. MaxId
  BY DEF Inv, Shape, TargetType
<1>2. /\ Len(target.lines) >= 3 /\ Remaining = {}
      /\ target.lines[Len(target.lines)] = CheckpointEnd
  BY DEF Inv, Copied
<1>3. Len(target.lines) \in Nat
  BY <1>1
<1>4. Len(target.lines) >= 1 /\ Len(target.lines) >= 2
  BY <1>2, <1>3
<1>5. Pending(cache) \subseteq 1 .. MaxId
  BY CacheFields DEF Inv, Shape
<1>6. \A i \in Pending(cache) : i <= target.last
  BY <1>1, <1>2, <1>5 DEF Remaining
<1>7. RestoreLines = 3 .. Len(target.lines) - 1
  BY DEF RestoreLines
<1>8. /\ \A n \in RestoreLines : \E i \in Pending(cache) :
           /\ target.lines[n] = RestoreEvent(i, cache.unresolved[i])
           /\ n > 3 => target.lines[n - 1].id < i
      /\ \A i \in Pending(cache) : \E n \in RestoreLines :
           target.lines[n] = RestoreEvent(i, cache.unresolved[i])
  BY <1>6 DEF Inv, Copied
<1>9. /\ target.lines[1] = Header
      /\ target.lines[2] = CheckpointEvent(cache.begun, cache.completed)
  BY <1>4 DEF Inv, Copied
<1>10. QED
  BY <1>2, <1>3, <1>7, <1>8, <1>9

LEMMA PublishStep == Inv /\ Publish => Inv'
<1> SUFFICES ASSUME Inv, Publish PROVE Inv'
  OBVIOUS
<1> DEFINE m == Len(target.lines)
<1>1. /\ instance = "tool" /\ target.done
      /\ log' = target.lines /\ synced' = m
      /\ torn' = FALSE /\ instance' = "none" /\ target' = NoTarget /\ Forgotten
      /\ UNCHANGED <<limit, Callers, History>>
  BY DEF Publish
<1>2. /\ m \in Nat /\ m >= 3
      /\ target.lines[1] = Header
      /\ target.lines[2] = CheckpointEvent(cache.begun, cache.completed)
      /\ \A n \in 3 .. m - 1 : \E i \in Pending(cache) :
           target.lines[n] = RestoreEvent(i, cache.unresolved[i])
      /\ \A i \in Pending(cache) : \E n \in 3 .. m - 1 :
           target.lines[n] = RestoreEvent(i, cache.unresolved[i])
      /\ target.lines[m] = CheckpointEnd
  BY <1>1, FinishedTarget
<1>3. target.lines \in Seq(Event)
  BY DEF Inv, Shape, TargetType
<1> HIDE DEF m
<1>4. Shape'
  <2>1. synced' \in 0 .. Len(log') /\ cursor' \in 0 .. Len(log')
    BY <1>1, <1>2, ForgottenShape DEF m
  <2>2. QED
    BY <1>1, <1>3, <2>1, ForgottenShape, NothingWritten DEF Inv, Shape, Callers, History
<1>5. append.by = None
  BY <1>1 DEF Inv, Mutex
<1>6. Mutex' /\ Appending'
  BY <1>1, <1>5 DEF Inv, Mutex, Appending, Callers, History
<1>7. Filed'
  <2>1. ASSUME NEW n \in 1 .. m PROVE log'[n].event # "complete"
    <3>1. n = 1 \/ n = 2 \/ n \in 3 .. m - 1 \/ n = m
      BY <1>2, <2>1
    <3>2. ASSUME n \in 3 .. m - 1 PROVE log'[n].event = "restore"
      BY <1>1, <1>2, <3>2, EventValues
    <3>3. QED
      BY <1>1, <1>2, <3>1, <3>2, EventValues
  <2>2. issued \ validated \subseteq Pending(cache) /\ \A i \in issued : i <= cache.begun
    BY <1>1 DEF Inv, Remembered, Running
  <2>3. ASSUME NEW i \in issued \ validated
        PROVE  \E n \in 1 .. m : log'[n].event \in Opening /\ log'[n].id = i
    <3>1. PICK n \in 3 .. m - 1 : target.lines[n] = RestoreEvent(i, cache.unresolved[i])
      BY <1>2, <2>2
    <3>2. n \in 1 .. m
      BY <1>2
    <3>3. log'[n].event = "restore" /\ log'[n].id = i
      BY <1>1, <3>1, EventValues
    <3>4. QED
      BY <3>2, <3>3 DEF Opening
  <2>4. 2 \in 1 .. m /\ log'[2].event = "checkpoint" /\ log'[2].begun = cache.begun
    BY <1>1, <1>2, EventValues
  <2>5. cache.begun \in Nat
    BY DEF Inv, Shape, CacheType
  <2>6. \A i \in issued : i \in 1 .. MaxId /\ log'[2].begun >= i
    BY <2>2, <2>4, <2>5 DEF Inv, Shape
  <2>7. \A i \in issued : \E n \in 1 .. m :
          \/ log'[n].event \in Opening /\ log'[n].id >= i
          \/ log'[n].event = "checkpoint" /\ log'[n].begun >= i
    BY <2>4, <2>6
  <2>8. Len(log') = m /\ synced' = m /\ issued' = issued /\ validated' = validated
    BY <1>1 DEF m, History
  <2>9. QED
    BY <2>1, <2>3, <2>7, <2>8 DEF Filed
<1>8. Counted' /\ Reading' /\ Remembered' /\ Copied'
  BY <1>1, ForgottenMemory
<1>9. QED
  BY <1>4, <1>6, <1>7, <1>8 DEF Inv

(* The parts of the invariant that do not depend on what the file keeps. *)
LEMMA GoneParts ==
  ASSUME Inv, Gone
  PROVE  /\ Mutex' /\ Appending' /\ Counted' /\ Reading' /\ Remembered' /\ Copied'
         /\ log' \in Seq(Event) /\ torn' \in BOOLEAN /\ synced' \in 0 .. Len(log')
              => Shape'
<1>1. /\ instance' = "none" /\ append' = NoAppend
      /\ pc' = [c \in Caller |-> "idle"] /\ attempt' = [c \in Caller |-> 0]
      /\ target' = NoTarget /\ Forgotten /\ UNCHANGED <<limit, History>>
  BY DEF Gone
<1>2. Mutex' /\ Appending'
  BY <1>1, NothingWritten, CallersAssumption DEF Mutex, Appending
<1>3. Counted' /\ Reading' /\ Remembered' /\ Copied'
  BY <1>1, ForgottenMemory
<1>4. ASSUME log' \in Seq(Event), torn' \in BOOLEAN, synced' \in 0 .. Len(log')
      PROVE  Shape'
  <2>1. cursor' \in 0 .. Len(log')
    BY <1>1, <1>4, ForgottenShape
  <2>2. attempt' \in [Caller -> 0 .. MaxId]
        /\ pc' \in [Caller -> {"idle", "appending", "held", "validated"}]
    BY <1>1, CallersAssumption
  <2>3. QED
    BY <1>1, <1>4, <2>1, <2>2, ForgottenShape, NothingWritten DEF Inv, Shape, History
<1>5. QED
  BY <1>2, <1>3, <1>4

LEMMA ExitStep == Inv /\ Exit => Inv'
<1> SUFFICES ASSUME Inv, Exit PROVE Inv'
  OBVIOUS
<1>1. Gone /\ UNCHANGED <<log, synced, issued, validated>> /\ torn' \in BOOLEAN
  BY DEF Exit, Gone, History, Inv, Shape
<1>2. Filed'
  BY <1>1, FiledFrame DEF Inv
<1>3. log' \in Seq(Event) /\ synced' \in 0 .. Len(log')
  BY <1>1 DEF Inv, Shape
<1>4. QED
  BY <1>1, <1>2, <1>3, GoneParts DEF Inv

LEMMA PowerLossStep == Inv /\ PowerLoss => Inv'
<1> SUFFICES ASSUME Inv, PowerLoss PROVE Inv'
  OBVIOUS
<1>1. PICK kept \in synced .. Len(log) :
        /\ log' = SubSeq(log, 1, kept)
        /\ torn' \in IF kept < Len(log) \/ torn \/ Writing THEN BOOLEAN ELSE {FALSE}
        /\ synced' = kept
  BY DEF PowerLoss
<1>2. Gone /\ UNCHANGED <<issued, validated>>
  BY DEF PowerLoss, Gone, History
<1>3. synced \in Nat /\ kept \in Nat /\ kept <= Len(log) /\ synced <= kept
      /\ log \in Seq(Event) /\ Len(log) \in Nat
  BY <1>1 DEF Inv, Shape
<1>4. \A n \in 1 .. kept : log[n] \in Event
  BY <1>3, ElementOfSeq
<1>5. /\ log' \in Seq(Event) /\ Len(log') = kept
      /\ \A n \in 1 .. kept : log'[n] = log[n]
  BY <1>1, <1>3, <1>4, SubSeqProperties
<1>6. synced' \in 0 .. Len(log') /\ torn' \in BOOLEAN
  <2>1. synced' \in 0 .. Len(log')
    BY <1>1, <1>3, <1>5
  <2>2. torn' \in BOOLEAN
    BY <1>1, Zenon
  <2>3. QED
    BY <2>1, <2>2
<1>7. Filed'
  <2>1. \A n \in 1 .. kept : n \in 1 .. Len(log)
    BY <1>3
  <2>2. \A n \in 1 .. Len(log') : log'[n].event = "complete" => log'[n].id \in validated
    BY <1>5, <2>1 DEF Inv, Filed
  <2>3. \A n \in 1 .. synced : n \in 1 .. kept /\ log'[n] = log[n]
    BY <1>3, <1>5
  <2>4. \A i \in issued \ validated :
          \E n \in 1 .. kept : log'[n].event \in Opening /\ log'[n].id = i
    BY <2>3 DEF Inv, Filed
  <2>5. \A i \in issued : \E n \in 1 .. kept :
          \/ log'[n].event \in Opening /\ log'[n].id >= i
          \/ log'[n].event = "checkpoint" /\ log'[n].begun >= i
    <3>1. TAKE i \in issued
    <3>2. PICK n \in 1 .. synced :
            \/ log[n].event \in Opening /\ log[n].id >= i
            \/ log[n].event = "checkpoint" /\ log[n].begun >= i
      BY DEF Inv, Filed
    <3>3. QED
      BY <2>3, <3>2
  <2>6. QED
    BY <1>1, <1>2, <2>2, <2>4, <2>5 DEF Filed
<1>8. QED
  BY <1>2, <1>5, <1>6, <1>7, GoneParts DEF Inv

LEMMA InvStep == Inv /\ [Next]_vars => Inv'
<1> SUFFICES ASSUME Inv, [Next]_vars PROVE Inv'
  OBVIOUS
<1>1. CASE Initialize \/ (\E n \in Limits : Open(n)) \/ ReplayLine \/ OpenRefused
  BY <1>1, InitializeStep, OpenStep, ReplayLineStep, OpenRefusedStep
<1>2. CASE \E who \in {"gateway", "tool"} : Opened(who)
  BY <1>2, OpenedStep
<1>3. CASE \E c \in Caller :
             \/ \E e \in Endpoint : StartBegin(c, e)
             \/ StartComplete(c)
             \/ Validate(c)
             \/ GiveUp(c)
  BY <1>3, StartBeginStep, StartCompleteStep, ValidateStep, GiveUpStep
<1>4. CASE WriteLine \/ AppendFails \/ BeginDone \/ CompleteDone
  BY <1>4, WriteLineStep, AppendFailsStep, BeginDoneStep, CompleteDoneStep
<1>5. CASE ExportHead \/ ExportRestore \/ ExportEnd \/ Publish
  BY <1>5, ExportHeadStep, ExportRestoreStep, ExportEndStep, PublishStep
<1>6. CASE Exit \/ PowerLoss
  BY <1>6, ExitStep, PowerLossStep
<1>7. CASE UNCHANGED vars
  <2>1. UNCHANGED <<File, instance, Memory, Callers, target, History>>
    BY <1>7 DEF vars
  <2>2. Shape' /\ Mutex' /\ Appending'
    BY <2>1 DEF Inv, Shape, Mutex, Appending, File, Memory, Callers, History
  <2>3. Counted' /\ Filed' /\ Reading' /\ Remembered' /\ Copied'
    BY <2>1, CountedFrame, FiledFrame, ReadingFrame, RememberedFrame, CopiedFrame
       DEF Inv, File, Memory, History
  <2>4. QED
    BY <2>2, <2>3 DEF Inv
<1>8. QED
  BY <1>1, <1>2, <1>3, <1>4, <1>5, <1>6, <1>7 DEF Next

THEOREM JournalInvariant == Spec => []Inv
BY InvInit, InvStep, PTL DEF Spec

-----------------------------------------------------------------------------
(* No crash, refusal, failed append or checkpoint forgets an attempt that  *)
(* may have been dispatched: it is in what every power loss leaves of the  *)
(* file and in the memory of every running instance.                       *)
LEMMA InvRetains == Inv => UncertainRetained
<1> SUFFICES ASSUME Inv PROVE UncertainRetained
  OBVIOUS
<1>1. ASSUME NEW kept \in synced .. Len(log), NEW i \in issued \ validated
      PROVE  i \in Unfinished(SubSeq(log, 1, kept))
  <2> DEFINE s == SubSeq(log, 1, kept)
  <2>1. synced \in Nat /\ kept \in Nat /\ kept <= Len(log) /\ synced <= kept
        /\ log \in Seq(Event) /\ Len(log) \in Nat
    BY DEF Inv, Shape
  <2>2. \A n \in 1 .. kept : n \in 1 .. Len(log) /\ log[n] \in Event
    BY <2>1, ElementOfSeq
  <2>3. /\ s \in Seq(Event) /\ Len(s) = kept
        /\ \A n \in 1 .. kept : s[n] = log[n]
    BY <2>1, <2>2, SubSeqProperties
  <2> HIDE DEF s
  <2>4. DOMAIN s = 1 .. kept
    BY <2>3, LenProperties
  <2>5. PICK n \in 1 .. synced : log[n].event \in Opening /\ log[n].id = i
    BY DEF Inv, Filed
  <2>6. n \in 1 .. kept
    BY <2>1
  <2>7. i \in Ids(s, {"begin", "restore"})
    BY <2>3, <2>4, <2>5, <2>6 DEF Ids, Opening
  <2>8. ASSUME i \in Ids(s, {"complete"}) PROVE FALSE
    <3>1. PICK m \in 1 .. kept : s[m].event = "complete" /\ s[m].id = i
      BY <2>4, <2>8 DEF Ids
    <3>2. log[m].event = "complete" /\ log[m].id = i /\ m \in 1 .. Len(log)
      BY <2>2, <2>3, <3>1
    <3>3. QED
      BY <3>2 DEF Inv, Filed
  <2>9. QED
    BY <2>7, <2>8 DEF Unfinished, s
<1>2. Running => issued \ validated \subseteq Pending(cache)
  BY DEF Inv, Remembered
<1>3. QED
  BY <1>1, <1>2 DEF UncertainRetained

THEOREM UncertainAttemptsRetained == Spec => []UncertainRetained
BY JournalInvariant, InvRetains, PTL

(* begin() never returns an identity twice, in any process, after any      *)
(* crash and with any checkpoint in between.                               *)
LEMMA InvIssuesOnce == Inv => IssuedOnce
<1> SUFFICES ASSUME Inv PROVE IssuedOnce
  OBVIOUS
<1>1. ASSUME instance = "gateway", NEW i \in issued PROVE i <= writer.lastId
  BY <1>1 DEF Inv, Remembered, Running
<1>2. ASSUME append.by # None, append.event.event = "begin"
      PROVE  append.event.id \notin issued
  <2>1. \E e \in Endpoint : append.event = BeginEvent(writer.lastId + 1, e)
    BY <1>2, EventValues DEF Inv, Appending
  <2>2. append.event.id = writer.lastId + 1
    BY <2>1, EventValues
  <2>3. instance = "gateway"
    BY <1>2 DEF Inv, Mutex
  <2>4. writer.lastId \in Nat /\ issued \subseteq 1 .. MaxId
    BY DEF Inv, Shape, WriterType
  <2>5. QED
    BY <1>1, <2>2, <2>3, <2>4
<1>3. QED
  BY <1>1, <1>2 DEF IssuedOnce

THEOREM IdentitiesIssuedOnce == Spec => []IssuedOnce
BY JournalInvariant, InvIssuesOnce, PTL

-----------------------------------------------------------------------------
(* The rest of the promises needs to know that the file can be replayed.   *)
(* A trace of a file gives, after each of its lines, the cache (K) and the *)
(* section (X) that open() has then reached.  It exists for every file the *)
(* journal can be left with, under the widest limit it was written with,   *)
(* and memory agrees with it.                                              *)
Sections == {"header", "fresh", "checkpoint", "running"}

(* What the first n lines say, and how long they are. *)
IdsTo(s, n, kinds) == {s[m].id : m \in {l \in 1 .. n : s[l].event \in kinds}}
UnfinishedTo(s, n) == IdsTo(s, n, Opening) \ IdsTo(s, n, {"complete"})
CountTo(s, n, kind) == Cardinality({m \in 1 .. n : s[m].event = kind})
SizeTo(s, n) ==
  CountTo(s, n, "header") * HeaderSize + CountTo(s, n, "begin") * BeginSize
  + CountTo(s, n, "complete") * CompleteSize
  + CountTo(s, n, "checkpoint") * CheckpointSize
  + CountTo(s, n, "restore") * RestoreSize + CountTo(s, n, "checkpoint_end") * EndSize

(* Line n is accepted, and what is known after it. *)
Replayed(K, X, s, w, n) ==
  /\ AcceptsAt(X[n - 1], K[n - 1], w, s[n])
  /\ K[n] = After(K[n - 1], s[n])
  /\ X[n] = SectionAfter(s[n])

Known(k, x, s, w, n) ==
  /\ Tallied(k)
  /\ x # "checkpoint" => Conserved(k)
  /\ x \in {"header", "fresh"} => k = EmptyCache
  /\ Cardinality(Pending(k)) <= MaxPending
  /\ \A e \in Endpoint : k.byEndpoint[e] <= w
  /\ Pending(k) = UnfinishedTo(s, n)
  /\ \A m \in 1 .. n : s[m].event = "complete" => x = "running" /\ s[m].id <= k.begun
  /\ SizeTo(s, n) <= MaxFile

Caches == [Nat -> CacheType]
SectionsAt == [Nat -> Sections]
Trace(K, X, s, w) ==
  /\ K[0] = EmptyCache /\ X[0] = "header"
  /\ \A n \in 1 .. Len(s) : Replayed(K, X, s, w, n)
  /\ \A n \in 0 .. Len(s) : Known(K[n], X[n], s, w, n)

(* A file of these n lines is opened, with room for every terminal line. *)
Sealed(k, x, s, n) ==
  /\ x \in {"fresh", "running"}
  /\ SizeTo(s, n) + Cardinality(Pending(k)) * Reserve <= MaxFile

(* How many lines of the file the memory of a healthy instance follows. *)
Followed == IF Written THEN Len(log) - 1 ELSE Len(log)

FileTrace(K, X) ==
  /\ Trace(K, X, log, widest)
  /\ \A n \in synced .. Len(log) : n >= 1 => Sealed(K[n], X[n], log, n)
  /\ ~Running =>
       cache = K[cursor] /\ section = X[cursor] /\ writer.length = SizeTo(log, cursor)
  /\ Running /\ healthy =>
       /\ Followed >= 1
       /\ cache = K[Followed] /\ writer.length = SizeTo(log, Followed)
       /\ Sealed(K[Followed], X[Followed], log, Followed)

TargetTrace(K, X) ==
  LET m == Len(target.lines)
      k == K[m]
  IN /\ Trace(K, X, target.lines, widest)
     /\ target.length = SizeTo(target.lines, m)
     /\ m = 1 => X[m] = "fresh"
     /\ m >= 2 =>
          /\ X[m] = IF target.done THEN "running" ELSE "checkpoint"
          /\ k.begun = cache.begun /\ k.completed = cache.completed
          /\ Pending(k) = {i \in Pending(cache) : i <= target.last}
          /\ \A i \in Pending(k) : k.unresolved[i] = cache.unresolved[i]
     /\ target.done => Sealed(k, X[m], target.lines, m)

(* The room an append was admitted with is still there. *)
Admitted ==
  /\ writer.length <= MaxFile
  /\ append.by # None /\ append.event.event = "begin" =>
       RoomFor(cache, append.event.endpoint) /\ Headroom(append.event.endpoint)
  /\ append.by # None /\ append.event.event = "complete" =>
       writer.length + CompleteSize <= MaxFile

Handled ==
  /\ instance # "none" => log # <<>> \/ torn
  /\ instance = "gateway" => limit <= widest

Usable ==
  /\ \E K \in Caches, X \in SectionsAt : FileTrace(K, X)
  /\ instance = "tool" => \E K \in Caches, X \in SectionsAt : TargetTrace(K, X)
  /\ Admitted
  /\ Handled

-----------------------------------------------------------------------------
(* Counting lines: one more line, and lines that are the same.             *)
LEMMA Distribute == \A c \in Nat, z \in Nat : (c + 1) * z = c * z + z /\ c * z \in Nat
OBVIOUS

LEMMA CountStep ==
  ASSUME NEW s, NEW n \in Nat, NEW kind
  PROVE  /\ CountTo(s, n, kind) \in Nat
         /\ CountTo(s, 0, kind) = 0
         /\ CountTo(s, n + 1, kind) =
              IF s[n + 1].event = kind THEN CountTo(s, n, kind) + 1 ELSE CountTo(s, n, kind)
<1> DEFINE Of(l) == {m \in 1 .. l : s[m].event = kind}
<1>1. IsFiniteSet(Of(n))
  <2>1. IsFiniteSet(1 .. n)
    BY FS_Interval
  <2>2. QED
    BY <2>1, FS_Subset
<1>2. Of(0) = {}
  OBVIOUS
<1>3. CASE s[n + 1].event = kind
  <2>1. Of(n + 1) = Of(n) \cup {n + 1} /\ n + 1 \notin Of(n)
    BY <1>3
  <2> HIDE DEF Of
  <2>2. Cardinality(Of(n + 1)) = Cardinality(Of(n)) + 1
    BY <1>1, <2>1, FS_AddElement
  <2>3. Cardinality(Of(n)) \in Nat /\ Cardinality(Of(0)) = 0
    BY <1>1, <1>2, FS_CardinalityType, FS_EmptySet
  <2>4. QED
    BY <1>3, <2>2, <2>3 DEF CountTo, Of
<1>4. CASE s[n + 1].event # kind
  <2>1. Of(n + 1) = Of(n)
    BY <1>4
  <2> HIDE DEF Of
  <2>2. Cardinality(Of(n)) \in Nat /\ Cardinality(Of(0)) = 0
    BY <1>1, <1>2, FS_CardinalityType, FS_EmptySet
  <2>3. QED
    BY <1>4, <2>1, <2>2 DEF CountTo, Of
<1>5. QED
  BY <1>3, <1>4

LEMMA SizeStep ==
  ASSUME NEW s, NEW n \in Nat, s[n + 1] \in Event
  PROVE  SizeTo(s, n + 1) = SizeTo(s, n) + Size(s[n + 1])
<1> DEFINE C(kind) == CountTo(s, n, kind)
           D(kind) == CountTo(s, n + 1, kind)
           k == s[n + 1].event
<1>1. \A kind \in Kinds : /\ C(kind) \in Nat
                         /\ D(kind) = IF k = kind THEN C(kind) + 1 ELSE C(kind)
  BY CountStep
<1>2. k \in Kinds
  BY EventFields
<1> HIDE DEF C, D, k
<1>3. /\ HeaderSize \in Nat /\ BeginSize \in Nat /\ CompleteSize \in Nat
      /\ CheckpointSize \in Nat /\ RestoreSize \in Nat /\ EndSize \in Nat
  BY SizesAssumption
<1>4. \A z \in Nat, kind \in Kinds :
        /\ C(kind) * z \in Nat
        /\ D(kind) * z = IF k = kind THEN C(kind) * z + z ELSE C(kind) * z
  BY <1>1, Distribute
<1>5. Size(s[n + 1]) =
        CASE k = "header" -> HeaderSize [] k = "begin" -> BeginSize
          [] k = "complete" -> CompleteSize [] k = "checkpoint" -> CheckpointSize
          [] k = "restore" -> RestoreSize [] k = "checkpoint_end" -> EndSize
  BY DEF Size, k
<1> DEFINE c1 == C("header") * HeaderSize
           c2 == C("begin") * BeginSize
           c3 == C("complete") * CompleteSize
           c4 == C("checkpoint") * CheckpointSize
           c5 == C("restore") * RestoreSize
           c6 == C("checkpoint_end") * EndSize
<1>6. /\ c1 \in Nat /\ c2 \in Nat /\ c3 \in Nat /\ c4 \in Nat /\ c5 \in Nat /\ c6 \in Nat
      /\ D("header") * HeaderSize = IF k = "header" THEN c1 + HeaderSize ELSE c1
      /\ D("begin") * BeginSize = IF k = "begin" THEN c2 + BeginSize ELSE c2
      /\ D("complete") * CompleteSize = IF k = "complete" THEN c3 + CompleteSize ELSE c3
      /\ D("checkpoint") * CheckpointSize =
           IF k = "checkpoint" THEN c4 + CheckpointSize ELSE c4
      /\ D("restore") * RestoreSize = IF k = "restore" THEN c5 + RestoreSize ELSE c5
      /\ D("checkpoint_end") * EndSize = IF k = "checkpoint_end" THEN c6 + EndSize ELSE c6
  BY <1>3, <1>4 DEF Kinds
<1>7. SizeTo(s, n) = c1 + c2 + c3 + c4 + c5 + c6
  BY DEF SizeTo, C
<1>8. SizeTo(s, n + 1) =
        D("header") * HeaderSize + D("begin") * BeginSize + D("complete") * CompleteSize
        + D("checkpoint") * CheckpointSize + D("restore") * RestoreSize
        + D("checkpoint_end") * EndSize
  BY DEF SizeTo, D
<1> HIDE DEF c1, c2, c3, c4, c5, c6
<1>9. QED
  BY <1>2, <1>3, <1>5, <1>6, <1>7, <1>8 DEF Kinds

LEMMA SizeStart == ASSUME NEW s PROVE SizeTo(s, 0) = 0
<1>1. \A kind \in Kinds : CountTo(s, 0, kind) = 0
  BY CountStep
<1>2. \A z \in Nat : 0 * z = 0
  OBVIOUS
<1>3. QED
  BY <1>1, <1>2, SizesAssumption DEF SizeTo, Kinds

LEMMA SizeNonNegative ==
  ASSUME NEW s, NEW n \in Nat
  PROVE  SizeTo(s, n) \in Nat
<1>1. \A kind \in Kinds : CountTo(s, n, kind) \in Nat
  BY CountStep
<1>2. QED
  BY <1>1, Distribute, SizesAssumption DEF SizeTo, Kinds

LEMMA SamePrefix ==
  ASSUME NEW s, NEW t, NEW n \in Nat, \A m \in 1 .. n : s[m] = t[m]
  PROVE  /\ SizeTo(s, n) = SizeTo(t, n)
         /\ UnfinishedTo(s, n) = UnfinishedTo(t, n)
<1>1. ASSUME NEW kind PROVE CountTo(s, n, kind) = CountTo(t, n, kind)
  <2>1. {m \in 1 .. n : s[m].event = kind} = {m \in 1 .. n : t[m].event = kind}
    OBVIOUS
  <2>2. QED
    BY <2>1 DEF CountTo
<1>2. ASSUME NEW kinds PROVE IdsTo(s, n, kinds) = IdsTo(t, n, kinds)
  BY DEF IdsTo
<1>3. QED
  BY <1>1, <1>2 DEF SizeTo, UnfinishedTo

LEMMA WholeFile ==
  ASSUME NEW s \in Seq(Event)
  PROVE  SizeTo(s, Len(s)) = SizeOf(s) /\ UnfinishedTo(s, Len(s)) = Unfinished(s)
<1>1. DOMAIN s = 1 .. Len(s)
  BY LenProperties
<1>2. \A kind : CountTo(s, Len(s), kind) = Count(s, kind)
  BY <1>1 DEF CountTo, Count
<1>3. \A kinds : IdsTo(s, Len(s), kinds) = Ids(s, kinds)
  BY <1>1 DEF IdsTo, Ids
<1>4. QED
  BY <1>2, <1>3 DEF SizeTo, SizeOf, UnfinishedTo, Unfinished, Opening

LEMMA IdsStep ==
  ASSUME NEW s, NEW n \in Nat, NEW kinds
  PROVE  IdsTo(s, n + 1, kinds) =
           IF s[n + 1].event \in kinds THEN IdsTo(s, n, kinds) \cup {s[n + 1].id}
           ELSE IdsTo(s, n, kinds)
<1>1. 1 .. n + 1 = (1 .. n) \cup {n + 1}
  OBVIOUS
<1>2. QED
  BY <1>1 DEF IdsTo

(* What is known after n lines is known after one more that is accepted.   *)
LEMMA KnownStep ==
  ASSUME NEW k \in CacheType, NEW x, NEW s, NEW w \in Int, NEW n \in Nat,
         \A m \in 1 .. n + 1 : s[m] \in Event,
         Known(k, x, s, w, n), AcceptsAt(x, k, w, s[n + 1]),
         SizeTo(s, n + 1) <= MaxFile
  PROVE  /\ After(k, s[n + 1]) \in CacheType
         /\ Known(After(k, s[n + 1]), SectionAfter(s[n + 1]), s, w, n + 1)
<1> DEFINE ev == s[n + 1]
           l == After(k, ev)
<1>0. ev \in Event /\ AcceptsAt(x, k, w, ev)
  OBVIOUS
<1>1. /\ Tallied(k) /\ (x # "checkpoint" => Conserved(k))
      /\ (x \in {"header", "fresh"} => k = EmptyCache)
      /\ Cardinality(Pending(k)) <= MaxPending
      /\ \A e \in Endpoint : k.byEndpoint[e] <= w
      /\ Pending(k) = UnfinishedTo(s, n)
      /\ \A m \in 1 .. n : s[m].event = "complete" => x = "running" /\ s[m].id <= k.begun
  BY DEF Known
<1>2. l \in CacheType
  BY <1>0, <1>1, AfterType
<1>3. /\ Tallied(l)
      /\ SectionAfter(ev) \in {"fresh", "checkpoint", "running"}
      /\ SectionAfter(ev) # "checkpoint" => Conserved(l)
      /\ SectionAfter(ev) = "fresh" => l = EmptyCache
      /\ k.begun <= l.begun
  BY <1>0, <1>1, AfterTallied
<1>4. /\ k.begun \in Nat /\ l.begun \in Nat
      /\ k.byEndpoint \in [Endpoint -> Int] /\ l.byEndpoint \in [Endpoint -> Int]
      /\ Cardinality(Pending(k)) \in Nat /\ MaxPending \in Nat
  BY <1>2, PendingFinite, LimitsAssumption DEF CacheType
<1>5. /\ IdsTo(s, n + 1, Opening) =
           IF ev.event \in Opening THEN IdsTo(s, n, Opening) \cup {ev.id}
           ELSE IdsTo(s, n, Opening)
      /\ IdsTo(s, n + 1, {"complete"}) =
           IF ev.event = "complete" THEN IdsTo(s, n, {"complete"}) \cup {ev.id}
           ELSE IdsTo(s, n, {"complete"})
  BY IdsStep
<1>6. ev.event \in Opening \cup {"complete"} => ev.id \in 1 .. MaxId
  BY EventFields
<1>7. \A m \in 1 .. n : s[m].event = "complete" => SectionAfter(ev) = "running"
  <2>1. SUFFICES ASSUME x = "running" PROVE SectionAfter(ev) = "running"
    BY <1>1
  <2>2. ev.event \in {"begin", "complete"}
    BY <2>1, EventFields DEF AcceptsAt, Kinds
  <2>3. QED
    BY <2>2 DEF SectionAfter
<1>8. ev.event = "complete" => SectionAfter(ev) = "running"
  BY DEF SectionAfter
<1> HIDE DEF ev, l
<1>9. CASE ev.event \in Opening
  <2>1. /\ Pending(l) = Pending(k) \cup {ev.id}
        /\ ev.id \notin Pending(k)
        /\ Cardinality(Pending(k)) < MaxPending
        /\ Cardinality(Pending(l)) = Cardinality(Pending(k)) + 1
        /\ k.byEndpoint[ev.endpoint] < w
        /\ \A f \in Endpoint : l.byEndpoint[f] =
             IF f = ev.endpoint THEN k.byEndpoint[f] + 1 ELSE k.byEndpoint[f]
    BY <1>1, <1>9, AfterOpening DEF ev, l
  <2>2. Cardinality(Pending(l)) <= MaxPending
    BY <1>4, <2>1
  <2>3. \A f \in Endpoint : l.byEndpoint[f] <= w
    BY <1>1, <1>4, <2>1
  <2>4. \A m \in 1 .. n : s[m].event = "complete" =>
          s[m].id <= k.begun /\ x = "running"
    BY <1>1
  <2>5. x # "running" \/ ev.id = k.begun + 1
    BY <1>9 DEF AcceptsAt, ev, Opening
  <2>6. ev.id \notin IdsTo(s, n, {"complete"})
    BY <1>4, <1>6, <1>9, <2>4, <2>5 DEF IdsTo
  <2>7. ev.event # "complete"
    BY <1>9 DEF Opening
  <2>8. Pending(l) = UnfinishedTo(s, n + 1)
    BY <1>1, <1>5, <1>9, <2>1, <2>6, <2>7 DEF UnfinishedTo
  <2>9. \A m \in 1 .. n + 1 : s[m].event = "complete" => m \in 1 .. n
    BY <2>7 DEF ev
  <2>10. ASSUME NEW m \in 1 .. n, s[m].event = "complete" PROVE s[m].id <= l.begun
    <3>1. s[m].id \in IdsTo(s, n, {"complete"}) /\ s[m].id <= k.begun
      BY <2>4, <2>10 DEF IdsTo
    <3>2. CASE ev.event = "begin"
      <4>1. l.begun = ev.id /\ ev.id = k.begun + 1
        BY <1>6, <1>9, <3>2, EventFields, CacheBeginFields DEF l, ev, After, AcceptsAt
      <4>2. s[m].id \in Int
        BY <2>10, EventFields
      <4>3. QED
        BY <1>4, <3>1, <4>1, <4>2
    <3>3. CASE ev.event = "restore"
      <4>1. x = "checkpoint"
        BY <3>3 DEF ev, AcceptsAt
      <4>2. QED
        BY <2>4, <2>10, <4>1
    <3>4. QED
      BY <1>9, <3>2, <3>3 DEF Opening
  <2>11. QED
    BY <1>2, <1>3, <1>7, <2>2, <2>3, <2>8, <2>9, <2>10 DEF Known, ev, l
<1>10. CASE ev.event = "complete"
  <2>1. /\ ev.id \in Pending(k) /\ Pending(l) = Pending(k) \ {ev.id}
        /\ l.begun = k.begun
        /\ \A f \in Endpoint : l.byEndpoint[f] <= k.byEndpoint[f]
    <3>1. After(k, ev) = l
      BY DEF l
    <3>2. QED
      BY <1>0, <1>1, <1>10, <3>1, AfterComplete
  <2>2. Cardinality(Pending(l)) <= Cardinality(Pending(k))
        /\ Cardinality(Pending(l)) \in Nat
    BY <1>2, <2>1, CacheFields, FS_Subset, PendingFinite
  <2>3. Cardinality(Pending(l)) <= MaxPending
    BY <1>1, <1>4, <2>2
  <2>4. \A f \in Endpoint : l.byEndpoint[f] <= w
    BY <1>1, <1>4, <2>1
  <2>5. ev.event \notin Opening
    BY <1>10 DEF Opening
  <2>6. Pending(l) = UnfinishedTo(s, n + 1)
    BY <1>1, <1>5, <1>10, <2>1, <2>5 DEF UnfinishedTo
  <2>7. ev.id <= l.begun
    BY <1>1, <2>1 DEF Tallied
  <2>8. \A m \in 1 .. n + 1 : s[m].event = "complete" =>
          SectionAfter(ev) = "running" /\ s[m].id <= l.begun
    BY <1>1, <1>8, <1>10, <2>1, <2>7 DEF ev
  <2>9. QED
    BY <1>2, <1>3, <2>3, <2>4, <2>6, <2>8 DEF Known, ev, l
<1>11. CASE ev.event \notin Opening \cup {"complete"}
  <2>1. Pending(l) = Pending(k) /\ l.byEndpoint = k.byEndpoint
    BY <1>11, AfterOther DEF ev, l
  <2>2. Pending(l) = UnfinishedTo(s, n + 1)
    BY <1>1, <1>5, <1>11, <2>1 DEF UnfinishedTo
  <2>3. ASSUME NEW m \in 1 .. n, s[m].event = "complete" PROVE FALSE
    BY <1>1, <1>11, <2>3, EventFields DEF ev, AcceptsAt, Opening, Kinds
  <2>4. \A m \in 1 .. n + 1 : s[m].event = "complete" => FALSE
    BY <1>11, <2>3 DEF ev
  <2>5. QED
    BY <1>1, <1>2, <1>3, <2>1, <2>2, <2>4 DEF Known, ev, l
<1>12. QED
  BY <1>9, <1>10, <1>11

(* A line that is accepted under a limit is accepted under a larger one,   *)
(* and what is known after n lines is known of every file that has them.   *)
LEMMA AcceptsWider ==
  ASSUME NEW k \in CacheType, NEW x, NEW w \in Int, NEW v \in Int, w <= v,
         NEW ev \in Event, AcceptsAt(x, k, w, ev)
  PROVE  AcceptsAt(x, k, v, ev)
<1>1. k.byEndpoint \in [Endpoint -> Int]
  BY DEF CacheType
<1>2. ev.event \in Opening => ev.endpoint \in Endpoint
  BY EventFields
<1>3. \A e \in Endpoint : k.byEndpoint[e] < w => k.byEndpoint[e] < v
  BY <1>1
<1>4. ev.event \in Opening /\ k.byEndpoint[ev.endpoint] < w
        => k.byEndpoint[ev.endpoint] < v
  BY <1>2, <1>3
<1>5. QED
  BY <1>4 DEF AcceptsAt, Opening

LEMMA KnownCarry ==
  ASSUME NEW k \in CacheType, NEW x, NEW w \in Int, NEW v \in Int, w <= v,
         NEW s, NEW t, NEW n \in Nat, \A m \in 1 .. n : s[m] = t[m],
         Known(k, x, s, w, n)
  PROVE  Known(k, x, t, v, n)
<1>1. /\ SizeTo(s, n) = SizeTo(t, n)
      /\ UnfinishedTo(s, n) = UnfinishedTo(t, n)
  BY SamePrefix
<1>2. k.byEndpoint \in [Endpoint -> Int]
  BY DEF CacheType
<1>3. \A e \in Endpoint : k.byEndpoint[e] <= v
  BY <1>2 DEF Known
<1>4. \A m \in 1 .. n : t[m].event = "complete" => x = "running" /\ t[m].id <= k.begun
  BY DEF Known
<1>5. QED
  BY <1>1, <1>3, <1>4 DEF Known

(* A trace of a file is one of each of its prefixes, and under any limit   *)
(* that is larger.                                                         *)
LEMMA TraceCarry ==
  ASSUME NEW K \in Caches, NEW X \in SectionsAt, NEW w \in Int, NEW v \in Int, w <= v,
         NEW s \in Seq(Event), NEW t \in Seq(Event), Len(t) <= Len(s),
         \A m \in 1 .. Len(t) : s[m] = t[m], Trace(K, X, s, w)
  PROVE  Trace(K, X, t, v)
<1>1. Len(t) \in Nat /\ Len(s) \in Nat
  OBVIOUS
<1>2. ASSUME NEW n \in 1 .. Len(t) PROVE Replayed(K, X, t, v, n)
  <2>1. n \in 1 .. Len(s) /\ n - 1 \in Nat
    BY <1>1
  <2>2. Replayed(K, X, s, w, n)
    BY <2>1 DEF Trace
  <2>3. t[n] = s[n] /\ t[n] \in Event /\ K[n - 1] \in CacheType
    BY <2>1, ElementOfSeq DEF Caches
  <2>4. AcceptsAt(X[n - 1], K[n - 1], v, t[n])
    BY <2>2, <2>3, AcceptsWider DEF Replayed
  <2>5. QED
    BY <2>2, <2>3, <2>4 DEF Replayed
<1>3. ASSUME NEW n \in 0 .. Len(t) PROVE Known(K[n], X[n], t, v, n)
  <2>1. n \in 0 .. Len(s) /\ n \in Nat /\ \A m \in 1 .. n : s[m] = t[m]
    BY <1>1
  <2>2. K[n] \in CacheType /\ Known(K[n], X[n], s, w, n)
    BY <2>1 DEF Trace, Caches
  <2>3. QED
    BY <2>1, <2>2, KnownCarry
<1>4. QED
  BY <1>2, <1>3 DEF Trace

(* The trace of a file that was created, and of one with no line.          *)
LEMMA KnownNothing ==
  ASSUME NEW s, NEW w \in Nat
  PROVE  Known(EmptyCache, "header", s, w, 0)
<1>1. SizeTo(s, 0) = 0 /\ MaxFile \in Nat
  BY SizeStart, SizesAssumption
<1>2. /\ Pending(EmptyCache) = {}
      /\ \A e \in Endpoint : EmptyCache.byEndpoint[e] = 0
  BY DEF EmptyCache, Pending
<1>3. UnfinishedTo(s, 0) = {}
  BY DEF UnfinishedTo, IdsTo
<1>4. Cardinality({}) = 0 /\ MaxPending \in Nat
  BY FS_EmptySet, LimitsAssumption
<1>5. QED
  BY <1>1, <1>2, <1>3, <1>4, EmptyTallied DEF Known

LEMMA TraceEmpty ==
  ASSUME NEW w \in Nat
  PROVE  \E K \in Caches, X \in SectionsAt : Trace(K, X, <<>>, w)
<1> DEFINE K == [n \in Nat |-> EmptyCache]
           X == [n \in Nat |-> "header"]
<1>1. EmptyCache \in CacheType
  BY EmptyCacheCounted
<1>2. K \in Caches /\ X \in SectionsAt
  BY <1>1 DEF Caches, SectionsAt, Sections
<1>3. K[0] = EmptyCache /\ X[0] = "header"
  OBVIOUS
<1>4. Known(EmptyCache, "header", <<>>, w, 0)
  BY KnownNothing
<1> HIDE DEF K, X
<1>5. Trace(K, X, <<>>, w)
  BY <1>3, <1>4 DEF Trace
<1>6. QED
  BY <1>2, <1>5

(* One more line that is accepted and fits.                                *)
LEMMA TraceAppend ==
  ASSUME NEW K \in Caches, NEW X \in SectionsAt, NEW w \in Int,
         NEW s \in Seq(Event), Trace(K, X, s, w), NEW ev \in Event,
         AcceptsAt(X[Len(s)], K[Len(s)], w, ev), SizeTo(s, Len(s)) + Size(ev) <= MaxFile
  PROVE  \E L \in Caches, Y \in SectionsAt :
           /\ Trace(L, Y, Append(s, ev), w)
           /\ \A n \in 0 .. Len(s) : L[n] = K[n] /\ Y[n] = X[n]
           /\ L[Len(s) + 1] = After(K[Len(s)], ev)
           /\ Y[Len(s) + 1] = SectionAfter(ev)
<1> DEFINE m == Len(s)
           t == Append(s, ev)
           L == [n \in Nat |-> IF n = m + 1 THEN After(K[m], ev) ELSE K[n]]
           Y == [n \in Nat |-> IF n = m + 1 THEN SectionAfter(ev) ELSE X[n]]
<1>1. /\ m \in Nat /\ t \in Seq(Event) /\ Len(t) = m + 1
      /\ t[m + 1] = ev /\ \A n \in 1 .. m : t[n] = s[n]
      /\ \A n \in 1 .. m + 1 : t[n] \in Event
  <2>1. /\ m \in Nat /\ t \in Seq(Event) /\ Len(t) = m + 1
        /\ t[m + 1] = ev /\ \A n \in 1 .. m : t[n] = s[n]
    BY AppendProperties
  <2>2. QED
    BY <2>1, ElementOfSeq
<1>2. K[m] \in CacheType /\ Known(K[m], X[m], s, w, m)
  BY <1>1 DEF Caches, Trace
<1>3. Known(K[m], X[m], t, w, m)
  <2>1. w <= w /\ \A n \in 1 .. m : s[n] = t[n]
    BY <1>1
  <2>2. QED
    BY <1>1, <1>2, <2>1, KnownCarry
<1>4. SizeTo(t, m + 1) <= MaxFile
  <2>1. SizeTo(t, m) = SizeTo(s, m)
    BY <1>1, SamePrefix
  <2>2. SizeTo(t, m + 1) = SizeTo(t, m) + Size(ev)
    BY <1>1, SizeStep
  <2>3. QED
    BY <2>1, <2>2
<1>5. /\ After(K[m], ev) \in CacheType
      /\ Known(After(K[m], ev), SectionAfter(ev), t, w, m + 1)
  BY <1>1, <1>2, <1>3, <1>4, KnownStep
<1>6. SectionAfter(ev) \in Sections
  BY DEF SectionAfter, Sections
<1>7. L \in Caches /\ Y \in SectionsAt
  BY <1>5, <1>6 DEF Caches, SectionsAt
<1>8. /\ \A n \in 0 .. m : L[n] = K[n] /\ Y[n] = X[n]
      /\ L[m + 1] = After(K[m], ev) /\ Y[m + 1] = SectionAfter(ev)
  BY <1>1
<1> HIDE DEF L, Y, t, m
<1>9. ASSUME NEW n \in 1 .. m + 1 PROVE Replayed(L, Y, t, w, n)
  <2>1. CASE n = m + 1
    <3>1. n - 1 = m /\ L[m] = K[m] /\ Y[m] = X[m]
      BY <1>1, <1>8, <2>1
    <3>2. QED
      BY <1>1, <1>8, <2>1, <3>1 DEF Replayed, m
  <2>2. CASE n # m + 1
    <3>1. n \in 1 .. m /\ n - 1 \in 0 .. m /\ n \in 0 .. m
      BY <1>1, <2>2
    <3>2. Replayed(K, X, s, w, n)
      BY <3>1 DEF Trace, m
    <3>3. t[n] = s[n] /\ L[n] = K[n] /\ Y[n] = X[n]
          /\ L[n - 1] = K[n - 1] /\ Y[n - 1] = X[n - 1]
      BY <1>1, <1>8, <3>1
    <3>4. QED
      BY <3>2, <3>3 DEF Replayed
  <2>3. QED
    BY <2>1, <2>2
<1>10. ASSUME NEW n \in 0 .. m + 1 PROVE Known(L[n], Y[n], t, w, n)
  <2>1. CASE n = m + 1
    BY <1>5, <1>8, <2>1
  <2>2. CASE n # m + 1
    <3>1. n \in 0 .. m /\ n \in Nat /\ \A l \in 1 .. n : l \in 1 .. m
      BY <1>1, <2>2
    <3>2. K[n] \in CacheType /\ Known(K[n], X[n], s, w, n)
      BY <3>1 DEF Trace, m, Caches
    <3>3. Known(K[n], X[n], t, w, n)
      BY <1>1, <3>1, <3>2, KnownCarry
    <3>4. QED
      BY <1>8, <3>1, <3>3
  <2>3. QED
    BY <2>1, <2>2
<1>11. 0 \in 0 .. m
  BY <1>1
<1>12. L[0] = EmptyCache /\ Y[0] = "header"
  BY <1>8, <1>11 DEF Trace
<1>13. Trace(L, Y, t, w)
  BY <1>1, <1>9, <1>10, <1>12 DEF Trace
<1>14. QED
  BY <1>7, <1>8, <1>13 DEF m, t

-----------------------------------------------------------------------------
(* What a step that leaves the file and the memory alone keeps, and what a *)
(* process that is gone leaves behind.                                     *)
LEMMA WidestInt == Shape => widest \in Nat /\ limit \in Nat
BY LimitsAssumption DEF Shape

LEMMA FileFrame ==
  ASSUME NEW K, NEW X, FileTrace(K, X),
         UNCHANGED <<log, synced, widest, cursor, section, cache, writer>>,
         Running' <=> Running, healthy' => healthy, Running /\ healthy' => Followed' = Followed
  PROVE  FileTrace(K, X)'
BY DEF FileTrace

LEMMA FileForgotten ==
  ASSUME NEW K \in Caches, NEW X \in SectionsAt, Trace(K, X, log', widest'),
         \A n \in synced' .. Len(log') : n >= 1 => Sealed(K[n], X[n], log', n),
         instance' = "none", Forgotten
  PROVE  FileTrace(K, X)'
<1>1. ~Running'
  BY DEF Running
<1>2. K[0] = EmptyCache /\ X[0] = "header"
  BY DEF Trace
<1>3. SizeTo(log', 0) = 0
  BY SizeStart
<1>4. cache' = K[cursor'] /\ section' = X[cursor'] /\ writer'.length = SizeTo(log', cursor')
  BY <1>2, <1>3 DEF Forgotten
<1>5. QED
  BY <1>1, <1>4 DEF FileTrace

LEMMA NotAdmitting ==
  ASSUME writer'.length <= MaxFile, append'.by = None
  PROVE  Admitted'
BY DEF Admitted

LEMMA NothingAdmitted == writer' = [length |-> 0, lastId |-> 0] => writer'.length <= MaxFile
BY SizesAssumption

(* A process that is gone, or was refused, leaves a file that is a trace.  *)
LEMMA OpenRefusedUsable == Inv /\ Usable /\ OpenRefused => Usable'
<1> SUFFICES ASSUME Inv, Usable, OpenRefused PROVE Usable'
  OBVIOUS
<1>1. PICK K \in Caches, X \in SectionsAt : FileTrace(K, X)
  BY DEF Usable
<1>2. log' = log /\ synced' = synced /\ widest' = widest /\ append' = append
  BY DEF OpenRefused, File, Callers, History
<1>3. instance = "replaying" /\ instance' = "none" /\ Forgotten
  BY DEF OpenRefused
<1>4. FileTrace(K, X)'
  BY <1>1, <1>2, <1>3, FileForgotten DEF FileTrace
<1>5. append'.by = None
  BY <1>2, <1>3 DEF Inv, Mutex
<1>6. Admitted'
  BY <1>3, <1>5, NotAdmitting, NothingAdmitted DEF Forgotten
<1>7. QED
  BY <1>3, <1>4, <1>6 DEF Usable, Handled

LEMMA ExitUsable == Inv /\ Usable /\ Exit => Usable'
<1> SUFFICES ASSUME Inv, Usable, Exit PROVE Usable'
  OBVIOUS
<1>1. PICK K \in Caches, X \in SectionsAt : FileTrace(K, X)
  BY DEF Usable
<1>2. log' = log /\ synced' = synced /\ widest' = widest /\ append' = NoAppend
  BY DEF Exit, Gone, History
<1>3. instance' = "none" /\ Forgotten
  BY DEF Exit, Gone
<1>4. FileTrace(K, X)'
  BY <1>1, <1>2, <1>3, FileForgotten DEF FileTrace
<1>5. Admitted'
  BY <1>2, <1>3, NotAdmitting, NothingAdmitted DEF Forgotten, NoAppend
<1>6. QED
  BY <1>3, <1>4, <1>5 DEF Usable, Handled

LEMMA PowerLossUsable == Inv /\ Usable /\ PowerLoss => Usable'
<1> SUFFICES ASSUME Inv, Usable, PowerLoss PROVE Usable'
  OBVIOUS
<1>1. PICK K \in Caches, X \in SectionsAt : FileTrace(K, X)
  BY DEF Usable
<1>2. PICK kept \in synced .. Len(log) : log' = SubSeq(log, 1, kept) /\ synced' = kept
  BY DEF PowerLoss
<1>3. widest' = widest /\ append' = NoAppend /\ instance' = "none" /\ Forgotten
  BY DEF PowerLoss, Gone, History
<1>4. log \in Seq(Event) /\ synced \in Nat /\ Len(log) \in Nat /\ widest \in Int
  BY WidestInt DEF Inv, Shape
<1>5. /\ log' \in Seq(Event) /\ Len(log') = kept /\ kept \in Nat /\ kept <= Len(log)
      /\ \A n \in 1 .. kept : log[n] = log'[n]
  BY <1>2, <1>4, SubSeqProperties
<1>6. Trace(K, X, log, widest)
  BY <1>1 DEF FileTrace
<1>7. Trace(K, X, log', widest')
  <2>1. widest <= widest /\ \A n \in 1 .. Len(log') : log[n] = log'[n]
    BY <1>4, <1>5
  <2>2. QED
    BY <1>3, <1>4, <1>5, <1>6, <2>1, TraceCarry
<1>8. ASSUME NEW n \in synced' .. Len(log'), n >= 1 PROVE Sealed(K[n], X[n], log', n)
  <2>1. n = kept
    BY <1>2, <1>5
  <2>2. Sealed(K[n], X[n], log, n)
    BY <1>1, <1>8, <2>1 DEF FileTrace
  <2>3. SizeTo(log, n) = SizeTo(log', n)
    BY <1>5, <2>1, SamePrefix
  <2>4. QED
    BY <2>2, <2>3 DEF Sealed
<1>9. FileTrace(K, X)'
  BY <1>3, <1>7, <1>8, FileForgotten
<1>10. Admitted'
  BY <1>3, NotAdmitting, NothingAdmitted DEF Forgotten, NoAppend
<1>11. QED
  BY <1>3, <1>9, <1>10 DEF Usable, Handled

(* The journal that is created, read and opened.                           *)
LEMMA InitializeUsable == Inv /\ Usable /\ Initialize => Usable'
<1> SUFFICES ASSUME Inv, Usable, Initialize PROVE Usable'
  OBVIOUS
<1>1. PICK K \in Caches, X \in SectionsAt : FileTrace(K, X)
  BY DEF Usable
<1>2. instance = "none" /\ log = <<>> /\ instance' = instance
  BY DEF Initialize, Usable, Handled
<1>3. /\ widest' = widest /\ cursor' = cursor /\ section' = section /\ cache' = cache
      /\ writer' = writer /\ healthy' = healthy /\ append' = append
  BY DEF Initialize, Memory, Callers, History
<1>4. ~Running /\ ~Running' /\ append.by = None
  BY <1>2 DEF Running, Inv, Mutex
<1>5. cursor = 0 /\ cache = EmptyCache /\ section = "header"
  BY <1>2 DEF Inv, Reading
<1>6. writer.length = 0
  BY <1>1, <1>4, <1>5, SizeStart DEF FileTrace
<1>7. Admitted' /\ Handled'
  <2>1. writer'.length <= MaxFile
    BY <1>3 DEF Usable, Admitted
  <2>2. QED
    BY <1>2, <1>3, <1>4, <2>1, NotAdmitting DEF Handled
<1>8. CASE log' = log /\ synced' = synced
  <2>1. FileTrace(K, X)'
    BY <1>1, <1>3, <1>4, <1>8, FileFrame
  <2>2. QED
    BY <1>2, <1>7, <2>1 DEF Usable
<1>9. CASE log' = <<Header>> /\ synced' = 1
  <2>1. log \in Seq(Event) /\ Len(log) = 0 /\ Header \in Event /\ widest \in Int
    BY <1>2, WidestInt DEF Event, Inv, Shape
  <2>2. Trace(K, X, log, widest) /\ K[0] = EmptyCache /\ X[0] = "header"
    BY <1>1 DEF FileTrace, Trace
  <2>3. AcceptsAt(X[Len(log)], K[Len(log)], widest, Header)
    BY <2>1, <2>2 DEF AcceptsAt, Header
  <2>4. SizeTo(log, Len(log)) + Size(Header) <= MaxFile
    <3>1. SizeTo(log, 0) = 0 /\ Size(Header) = HeaderSize
      BY SizeStart DEF Size, Header
    <3>2. QED
      BY <2>1, <3>1, SizesAssumption
  <2>5. PICK L \in Caches, Y \in SectionsAt :
          /\ Trace(L, Y, Append(log, Header), widest)
          /\ \A n \in 0 .. Len(log) : L[n] = K[n] /\ Y[n] = X[n]
          /\ L[Len(log) + 1] = After(K[Len(log)], Header)
          /\ Y[Len(log) + 1] = SectionAfter(Header)
    BY <2>1, <2>2, <2>3, <2>4, TraceAppend
  <2>6. Append(log, Header) = log' /\ Len(log') = 1 /\ log'[1] = Header
    BY <1>2, <1>9
  <2>7. L[1] = EmptyCache /\ Y[1] = "fresh"
    <3>1. Len(log) + 1 = 1
      BY <2>1
    <3>2. QED
      BY <2>1, <2>2, <2>5, <3>1 DEF After, SectionAfter, Header
  <2>8. SizeTo(log', 1) = HeaderSize
    <3>1. SizeTo(log', 0 + 1) = SizeTo(log', 0) + Size(log'[0 + 1])
      <4>1. log'[0 + 1] \in Event /\ 0 \in Nat
        BY <2>1, <2>6
      <4>2. QED
        BY <4>1, SizeStep
    <3>2. 0 + 1 = 1 /\ SizeTo(log', 0) = 0 /\ Size(log'[1]) = HeaderSize
      BY <2>6, SizeStart DEF Size, Header
    <3>3. QED
      BY <3>1, <3>2, SizesAssumption
  <2>9. Sealed(L[1], Y[1], log', 1)
    <3>1. Cardinality(Pending(EmptyCache)) = 0
      BY FS_EmptySet DEF Pending, EmptyCache
    <3>2. HeaderSize + 0 * Reserve <= MaxFile
      BY SizesAssumption
    <3>3. QED
      BY <2>7, <2>8, <3>1, <3>2 DEF Sealed
  <2>10. \A n \in synced' .. Len(log') : n = 1
    BY <1>9, <2>6
  <2>11. cache' = L[cursor'] /\ section' = Y[cursor'] /\ writer'.length = SizeTo(log', cursor')
    <3>1. L[0] = EmptyCache /\ Y[0] = "header"
      BY <2>5 DEF Trace
    <3>2. QED
      BY <1>3, <1>5, <1>6, <3>1, SizeStart
  <2>12. Trace(L, Y, log', widest')
    BY <1>3, <2>5, <2>6
  <2>13. FileTrace(L, Y)'
    BY <1>4, <2>9, <2>10, <2>11, <2>12 DEF FileTrace
  <2>14. QED
    BY <1>2, <1>7, <2>13 DEF Usable
<1>10. QED
  BY <1>8, <1>9 DEF Initialize

LEMMA OpenUsable == \A n \in Limits : Inv /\ Usable /\ Open(n) => Usable'
<1> SUFFICES ASSUME NEW n \in Limits, Inv, Usable, Open(n) PROVE Usable'
  OBVIOUS
<1>1. PICK K \in Caches, X \in SectionsAt : FileTrace(K, X)
  BY DEF Usable
<1>2. /\ instance = "none" /\ instance' = "replaying"
      /\ UNCHANGED <<log, torn, synced, widest, cursor, section, cache, writer, healthy>>
      /\ append' = append
  BY DEF Open, File, Callers, History
<1>3. ~Running /\ ~Running' /\ append.by = None
  BY <1>2 DEF Running, Inv, Mutex
<1>4. FileTrace(K, X)'
  BY <1>1, <1>2, <1>3, FileFrame
<1>5. Admitted'
  BY <1>2, <1>3, NotAdmitting DEF Usable, Admitted
<1>6. Handled'
  BY <1>2 DEF Open, Handled
<1>7. QED
  BY <1>2, <1>4, <1>5, <1>6 DEF Usable

LEMMA ReplayLineUsable == Inv /\ Usable /\ ReplayLine => Usable'
<1> SUFFICES ASSUME Inv, Usable, ReplayLine PROVE Usable'
  OBVIOUS
<1>1. PICK K \in Caches, X \in SectionsAt : FileTrace(K, X)
  BY DEF Usable
<1>2. /\ instance = "replaying" /\ instance' = instance /\ append' = append
      /\ UNCHANGED <<log, torn, synced, widest>>
  BY DEF ReplayLine, File, Callers, History
<1>3. ~Running /\ ~Running' /\ append.by = None
  BY <1>2 DEF Running, Inv, Mutex
<1> DEFINE ev == log[cursor + 1]
<1>4. /\ cursor < Len(log) /\ cursor' = cursor + 1
      /\ cache' = After(cache, ev) /\ section' = SectionAfter(ev)
      /\ writer' = [writer EXCEPT !.length = @ + Size(ev)]
  BY AcceptsNow DEF ReplayLine
<1>5. log \in Seq(Event) /\ cursor \in Nat /\ Len(log) \in Nat /\ cursor + 1 \in 1 .. Len(log)
  BY <1>4 DEF Inv, Shape
<1>6. cache = K[cursor] /\ section = X[cursor] /\ writer.length = SizeTo(log, cursor)
  BY <1>1, <1>3 DEF FileTrace
<1>7. Replayed(K, X, log, widest, cursor + 1)
      /\ Known(K[cursor + 1], X[cursor + 1], log, widest, cursor + 1)
  <2>1. Trace(K, X, log, widest) /\ cursor + 1 \in 0 .. Len(log)
    BY <1>1, <1>5 DEF FileTrace
  <2>2. QED
    BY <1>5, <2>1 DEF Trace
<1>8. (cursor + 1) - 1 = cursor
  BY <1>5
<1>9. cache' = K[cursor'] /\ section' = X[cursor']
  BY <1>4, <1>6, <1>7, <1>8 DEF Replayed
<1>10. writer'.length = SizeTo(log', cursor')
  <2>1. writer'.length = writer.length + Size(ev)
    BY <1>4 DEF Inv, Shape, WriterType
  <2>2. SizeTo(log, cursor + 1) = SizeTo(log, cursor) + Size(ev)
    BY <1>5, SizeStep, ElementOfSeq
  <2>3. QED
    BY <1>2, <1>4, <1>6, <2>1, <2>2
<1>11. FileTrace(K, X)'
  BY <1>1, <1>2, <1>3, <1>9, <1>10 DEF FileTrace
<1>12. writer'.length <= MaxFile
  BY <1>2, <1>4, <1>7, <1>10 DEF Known
<1>13. Admitted'
  BY <1>2, <1>3, <1>12, NotAdmitting
<1>14. QED
  BY <1>2, <1>11, <1>13 DEF Usable, Handled

LEMMA OpenedUsable ==
  \A who \in {"gateway", "tool"} : Inv /\ Usable /\ Opened(who) => Usable'
<1> SUFFICES ASSUME NEW who \in {"gateway", "tool"}, Inv, Usable, Opened(who)
             PROVE  Usable'
  OBVIOUS
<1>1. PICK K \in Caches, X \in SectionsAt : FileTrace(K, X)
  BY DEF Usable
<1>2. /\ instance = "replaying" /\ instance' = who /\ append' = append
      /\ UNCHANGED <<log, torn, synced, limit, cache, section, target>>
      /\ cursor = Len(log) /\ Openable
      /\ writer' = [writer EXCEPT !.lastId = cache.begun]
      /\ widest' = IF who = "gateway" /\ limit > widest THEN limit ELSE widest
  BY DEF Opened, File, Callers
<1>3. ~Running /\ Running' /\ append.by = None
  BY <1>2 DEF Running, Inv, Mutex
<1>4. log \in Seq(Event) /\ Len(log) \in Nat /\ widest \in Nat /\ limit \in Nat
  BY WidestInt DEF Inv, Shape
<1>5. widest <= widest' /\ widest' \in Int /\ (who = "gateway" => limit <= widest')
  BY <1>2, <1>4
<1>6. cache = K[Len(log)] /\ section = X[Len(log)] /\ writer.length = SizeTo(log, Len(log))
  BY <1>1, <1>2, <1>3 DEF FileTrace
<1>7. writer'.length = writer.length
  BY <1>2 DEF Inv, Shape, WriterType
<1>8. Trace(K, X, log', widest')
  <2>1. \A m \in 1 .. Len(log) : log[m] = log[m]
    OBVIOUS
  <2>2. Trace(K, X, log, widest)
    BY <1>1 DEF FileTrace
  <2>3. Trace(K, X, log, widest')
    BY <1>4, <1>5, <2>1, <2>2, TraceCarry
  <2>4. QED
    BY <1>2, <2>3
<1>9. Followed' = Len(log)
  BY <1>2, <1>3 DEF Followed, Written
<1>10. Sealed(K[Len(log)], X[Len(log)], log, Len(log))
  BY <1>2, <1>6 DEF Openable, Sealed
<1>11. Len(log) >= 1
  <2>1. log # <<>>
    BY <1>2 DEF Usable, Handled, Openable
  <2>2. QED
    BY <1>4, <2>1, EmptySeq
<1>12. FileTrace(K, X)'
  <2>1. \A n \in synced' .. Len(log') : n >= 1 => Sealed(K[n], X[n], log', n)
    BY <1>1, <1>2 DEF FileTrace
  <2>2. cache' = K[Followed'] /\ writer'.length = SizeTo(log', Followed')
        /\ Sealed(K[Followed'], X[Followed'], log', Followed') /\ Followed' >= 1
    BY <1>2, <1>6, <1>7, <1>9, <1>10, <1>11
  <2>3. QED
    BY <1>3, <1>8, <2>1, <2>2 DEF FileTrace
<1>13. Admitted'
  BY <1>2, <1>3, <1>7, NotAdmitting DEF Usable, Admitted
<1>14. Handled'
  BY <1>2, <1>5 DEF Usable, Handled
<1>15. \E L \in Caches, Y \in SectionsAt : TargetTrace(L, Y)'
  <2>1. target' = NoTarget
    BY <1>2 DEF Inv, Copied
  <2>2. target'.lines = <<>> /\ target'.length = 0 /\ ~target'.done /\ Len(target'.lines) = 0
    BY <2>1 DEF NoTarget
  <2>3. PICK L \in Caches, Y \in SectionsAt : Trace(L, Y, <<>>, widest')
    <3>1. widest' \in Nat
      BY <1>2, <1>4
    <3>2. QED
      BY <3>1, TraceEmpty
  <2>4. SizeTo(target'.lines, 0) = 0
    BY SizeStart
  <2>5. TargetTrace(L, Y)'
    BY <2>2, <2>3, <2>4 DEF TargetTrace
  <2>6. QED
    BY <2>5
<1>16. QED
  BY <1>12, <1>13, <1>14, <1>15 DEF Usable

(* The steps of a request that write nothing.                              *)
LEMMA StartBeginUsable ==
  \A c \in Caller, e \in Endpoint : Inv /\ Usable /\ StartBegin(c, e) => Usable'
<1> SUFFICES ASSUME NEW c \in Caller, NEW e \in Endpoint, Inv, Usable, StartBegin(c, e)
             PROVE  Usable'
  OBVIOUS
<1>1. PICK K \in Caches, X \in SectionsAt : FileTrace(K, X)
  BY DEF Usable
<1>2. /\ instance = "gateway" /\ append.by = None /\ instance' = instance
      /\ UNCHANGED <<log, torn, synced, limit, widest, cursor, section, cache, writer, healthy>>
      /\ append' = [by |-> c, event |-> BeginEvent(writer.lastId + 1, e), stage |-> "write"]
      /\ RoomFor(cache, e) /\ Headroom(e)
  BY DEF StartBegin, Writable, File, Memory, History
<1>3. (Running' <=> Running) /\ Followed' = Followed
  BY <1>2 DEF Running, Followed, Written
<1>4. FileTrace(K, X)'
  BY <1>1, <1>2, <1>3, FileFrame
<1>5. append'.event.event = "begin" /\ append'.event.endpoint = e
  BY <1>2 DEF BeginEvent
<1>6. /\ Cardinality(Pending(cache)) < MaxPending
      /\ cache.byEndpoint[e] < limit
      /\ writer.length + BeginSize + (Cardinality(Pending(cache)) + 1) * Reserve <= MaxFile
  BY <1>2 DEF RoomFor, Headroom
<1>7. RoomFor(cache, append.event.endpoint)' /\ Headroom(append.event.endpoint)'
  BY <1>2, <1>5, <1>6 DEF RoomFor, Headroom, Pending
<1>8. writer'.length <= MaxFile
  BY <1>2 DEF Usable, Admitted
<1>9. Admitted'
  BY <1>5, <1>7, <1>8 DEF Admitted
<1>10. QED
  BY <1>2, <1>4, <1>9 DEF Usable, Handled

LEMMA StartCompleteUsable ==
  \A c \in Caller : Inv /\ Usable /\ StartComplete(c) => Usable'
<1> SUFFICES ASSUME NEW c \in Caller, Inv, Usable, StartComplete(c) PROVE Usable'
  OBVIOUS
<1>1. PICK K \in Caches, X \in SectionsAt : FileTrace(K, X)
  BY DEF Usable
<1>2. /\ instance = "gateway" /\ append.by = None /\ instance' = instance
      /\ UNCHANGED <<log, torn, synced, limit, widest, cursor, section, cache, writer, healthy>>
      /\ append' = [by |-> c, event |-> CompleteEvent(attempt[c]), stage |-> "write"]
      /\ writer.length + CompleteSize <= MaxFile
  BY DEF StartComplete, Writable, File, Memory, History
<1>3. (Running' <=> Running) /\ Followed' = Followed
  BY <1>2 DEF Running, Followed, Written
<1>4. FileTrace(K, X)'
  BY <1>1, <1>2, <1>3, FileFrame
<1>5. append'.event.event = "complete"
  BY <1>2 DEF CompleteEvent
<1>6. Admitted'
  BY <1>2, <1>5 DEF Admitted, Usable
<1>7. QED
  BY <1>2, <1>4, <1>6 DEF Usable, Handled

LEMMA CallerUsable ==
  \A c \in Caller : Inv /\ Usable /\ (Validate(c) \/ GiveUp(c)) => Usable'
<1> SUFFICES ASSUME NEW c \in Caller, Inv, Usable, Validate(c) \/ GiveUp(c) PROVE Usable'
  OBVIOUS
<1>1. PICK K \in Caches, X \in SectionsAt : FileTrace(K, X)
  BY DEF Usable
<1>2. /\ instance' = instance /\ append' = append
      /\ UNCHANGED <<log, torn, synced, limit, widest, cursor, section, cache, writer, healthy>>
  BY DEF Validate, GiveUp, File, Memory, History
<1>3. instance = "gateway"
  <2>1. pc[c] \in {"held", "validated"}
    BY DEF Validate, GiveUp
  <2>2. QED
    BY <2>1 DEF Inv, Mutex
<1>4. (Running' <=> Running) /\ Followed' = Followed
  BY <1>2 DEF Running, Followed, Written
<1>5. FileTrace(K, X)'
  BY <1>1, <1>2, <1>4, FileFrame
<1>6. Admitted'
  BY <1>2 DEF Usable, Admitted, RoomFor, Headroom
<1>7. QED
  BY <1>2, <1>3, <1>5, <1>6 DEF Usable, Handled

(* An append that fails leaves the instance unhealthy, the file as it was. *)
LEMMA AppendFailsUsable == Inv /\ Usable /\ AppendFails => Usable'
<1> SUFFICES ASSUME Inv, Usable, AppendFails PROVE Usable'
  OBVIOUS
<1>1. PICK K \in Caches, X \in SectionsAt : FileTrace(K, X)
  BY DEF Usable
<1>2. /\ instance' = instance /\ append' = NoAppend /\ healthy' = FALSE
      /\ UNCHANGED <<log, synced, limit, widest, cursor, section, cache, writer>>
  BY DEF AppendFails, History
<1>3. instance = "gateway"
  BY DEF AppendFails, Inv, Mutex
<1>4. Running' <=> Running
  BY <1>2 DEF Running
<1>5. FileTrace(K, X)'
  BY <1>1, <1>2, <1>4, FileFrame
<1>6. Admitted'
  BY <1>2, NotAdmitting DEF Usable, Admitted, NoAppend
<1>7. Handled'
  <2>1. log # <<>>
    <3>1. Trace(K, X, log, widest) /\ Followed >= 1
      BY <1>1, <1>3 DEF FileTrace, Running, AppendFails, Inv, Mutex
    <3>2. Len(<<>>) = 0 /\ Len(log) \in Nat
      BY DEF Inv, Shape
    <3>3. Followed <= Len(log)
      BY <3>2 DEF Followed
    <3>4. Followed \in Int
      BY <3>2 DEF Followed
    <3>5. QED
      BY <3>1, <3>2, <3>3, <3>4
  <2>2. QED
    BY <1>2, <2>1 DEF Usable, Handled
<1>8. QED
  BY <1>2, <1>3, <1>5, <1>6, <1>7 DEF Usable

(* The offline tool publishes the checkpoint it has finished.              *)
LEMMA PublishUsable == Inv /\ Usable /\ Publish => Usable'
<1> SUFFICES ASSUME Inv, Usable, Publish PROVE Usable'
  OBVIOUS
<1>1. /\ instance = "tool" /\ target.done /\ log' = target.lines
      /\ synced' = Len(target.lines) /\ instance' = "none" /\ Forgotten
      /\ append' = append /\ widest' = widest
  BY DEF Publish, Callers, History
<1>2. PICK K \in Caches, X \in SectionsAt : TargetTrace(K, X)
  BY <1>1 DEF Usable
<1>3. Trace(K, X, log', widest')
  BY <1>1, <1>2 DEF TargetTrace
<1>4. Sealed(K[Len(log')], X[Len(log')], log', Len(log'))
  BY <1>1, <1>2 DEF TargetTrace
<1>5. \A n \in synced' .. Len(log') : n = Len(log')
  <2>1. Len(log') \in Nat
    BY <1>1 DEF Inv, Shape, TargetType
  <2>2. QED
    BY <1>1, <2>1
<1>6. FileTrace(K, X)'
  BY <1>1, <1>3, <1>4, <1>5, FileForgotten
<1>7. append'.by = None
  BY <1>1 DEF Inv, Mutex
<1>8. Admitted'
  BY <1>1, <1>7, NotAdmitting, NothingAdmitted DEF Forgotten
<1>9. QED
  BY <1>1, <1>6, <1>8 DEF Usable, Handled

(* A begin was admitted with room for the terminal line of every attempt,  *)
(* and a completion takes no more than the room that it gives back.        *)
LEMMA RoomAfter ==
  ASSUME NEW k \in CacheType, Tallied(k), Conserved(k), NEW x, NEW lim,
         NEW ev \in Event, AcceptsAt(x, k, lim, ev), ev.event \in {"begin", "complete"},
         NEW z \in Nat, z + Cardinality(Pending(k)) * Reserve <= MaxFile,
         ev.event = "begin" =>
           z + BeginSize + (Cardinality(Pending(k)) + 1) * Reserve <= MaxFile
  PROVE  /\ z + Size(ev) <= MaxFile
         /\ z + Size(ev) + Cardinality(Pending(After(k, ev))) * Reserve <= MaxFile
<1> DEFINE c == Cardinality(Pending(k))
           l == After(k, ev)
           d == Cardinality(Pending(l))
<1>1. /\ BeginSize \in Nat /\ CompleteSize \in Nat /\ Reserve \in Nat /\ MaxFile \in Nat
      /\ CompleteSize <= Reserve
  BY SizesAssumption
<1>2. IsFiniteSet(Pending(k)) /\ c \in Nat
  BY CacheFields, FS_CardinalityType
<1>3. /\ z + c * Reserve <= MaxFile
      /\ ev.event = "begin" => z + BeginSize + (c + 1) * Reserve <= MaxFile
  OBVIOUS
<1>4. CASE ev.event = "begin"
  <2>1. d = c + 1
    BY <1>4, AfterOpening DEF Opening
  <2>2. Size(ev) = BeginSize
    BY <1>4 DEF Size
  <2> HIDE DEF c, d, l
  <2>3. (c + 1) * Reserve \in Nat
    BY <1>1, <1>2, Distribute
  <2>4. z + BeginSize + d * Reserve <= MaxFile /\ d * Reserve \in Nat
    BY <1>3, <1>4, <2>1, <2>3
  <2>5. z + BeginSize <= MaxFile
    BY <1>1, <2>4
  <2>6. QED
    BY <2>2, <2>4, <2>5 DEF d, l
<1>5. CASE ev.event = "complete"
  <2>1. ev.id \in Pending(k) /\ Pending(l) = Pending(k) \ {ev.id}
    BY <1>5, AfterComplete
  <2>2. Size(ev) = CompleteSize
    BY <1>5 DEF Size
  <2>3. d = c - 1 /\ d \in Nat
    <3>1. Cardinality(Pending(k) \ {ev.id}) = Cardinality(Pending(k)) - 1
          /\ IsFiniteSet(Pending(k) \ {ev.id})
      BY <1>2, <2>1, FS_RemoveElement
    <3>2. Cardinality(Pending(k) \ {ev.id}) \in Nat
      BY <3>1, FS_CardinalityType
    <3>3. QED
      BY <2>1, <3>1, <3>2
  <2> HIDE DEF c, d, l
  <2>4. c = d + 1
    BY <1>2, <2>3
  <2>5. c * Reserve = d * Reserve + Reserve /\ d * Reserve \in Nat
    BY <1>1, <2>3, <2>4, Distribute
  <2>6. z + CompleteSize + d * Reserve <= MaxFile
    BY <1>1, <1>3, <2>5
  <2>7. z + CompleteSize <= MaxFile
    BY <1>1, <2>5, <2>6
  <2>8. QED
    BY <2>2, <2>6, <2>7 DEF d, l
<1>6. QED
  BY <1>4, <1>5

(* The line of an append is one that the next open() accepts.              *)
LEMMA AppendAccepted ==
  ASSUME Inv, Usable, append.by # None, NEW x \in {"fresh", "running"}
  PROVE  /\ AcceptsAt(x, cache, widest, append.event)
         /\ append.event \in Event /\ append.event.event \in {"begin", "complete"}
<1>1. instance = "gateway" /\ limit <= widest /\ writer.lastId = cache.begun
  BY DEF Inv, Mutex, Usable, Handled, Remembered, Running
<1>2. append.event \in Event
  BY DEF Inv, Shape, AppendType
<1>3. cache \in CacheType /\ limit \in Nat /\ widest \in Nat
  BY WidestInt DEF Inv, Shape
<1>4. CASE \E e \in Endpoint : append.event = BeginEvent(writer.lastId + 1, e)
  <2>1. PICK e \in Endpoint : append.event = BeginEvent(writer.lastId + 1, e)
    BY <1>4
  <2>2. /\ append.event.event = "begin" /\ append.event.endpoint = e
        /\ append.event.id = cache.begun + 1
    BY <1>1, <2>1 DEF BeginEvent
  <2>3. Cardinality(Pending(cache)) < MaxPending /\ cache.byEndpoint[e] < limit
    BY <2>2 DEF Usable, Admitted, RoomFor
  <2>4. cache.byEndpoint[e] \in Int
    BY <1>3 DEF CacheType
  <2>5. cache.byEndpoint[e] < widest
    BY <1>1, <1>3, <2>3, <2>4
  <2>6. QED
    BY <1>2, <2>2, <2>3, <2>5 DEF AcceptsAt
<1>5. CASE append.event = CompleteEvent(attempt[append.by])
           /\ attempt[append.by] \in Pending(cache) \cap validated
  BY <1>2, <1>5 DEF AcceptsAt, CompleteEvent
<1>6. QED
  BY <1>4, <1>5 DEF Inv, Appending

LEMMA WriteLineUsable == Inv /\ Usable /\ WriteLine => Usable'
<1> SUFFICES ASSUME Inv, Usable, WriteLine PROVE Usable'
  OBVIOUS
<1>1. PICK K \in Caches, X \in SectionsAt : FileTrace(K, X)
  BY DEF Usable
<1> DEFINE m == Len(log)
           ev == append.event
<1>2. /\ append.by # None /\ append.stage = "write"
      /\ log' = Append(log, ev) /\ instance' = instance
      /\ UNCHANGED <<torn, synced, limit, widest, cursor, section, cache, writer, healthy>>
  BY DEF WriteLine, Memory, History
<1>3. append'.by = append.by /\ append'.event = ev /\ append'.stage = "sync"
  BY DEF WriteLine, Inv, Shape, AppendType
<1>4. instance = "gateway" /\ healthy /\ Running /\ Running'
  BY <1>2 DEF Inv, Mutex, Running
<1>5. log \in Seq(Event) /\ m \in Nat /\ widest \in Int /\ synced \in 0 .. m
  BY WidestInt DEF Inv, Shape
<1>6. /\ m >= 1 /\ cache = K[m] /\ writer.length = SizeTo(log, m)
      /\ Sealed(K[m], X[m], log, m)
  BY <1>1, <1>2, <1>4 DEF FileTrace, Followed, Written
<1>7. AcceptsAt(X[m], K[m], widest, ev) /\ ev \in Event /\ ev.event \in {"begin", "complete"}
  BY <1>2, <1>6, AppendAccepted DEF Sealed
<1>8. /\ K[m] \in CacheType /\ Tallied(K[m]) /\ Conserved(K[m])
  <2>1. Known(K[m], X[m], log, widest, m)
    BY <1>1, <1>5 DEF FileTrace, Trace
  <2>2. X[m] # "checkpoint"
    BY <1>6 DEF Sealed
  <2>3. QED
    BY <1>5, <2>1, <2>2 DEF Known, Caches
<1>9. writer.length \in Nat
      /\ writer.length + Cardinality(Pending(K[m])) * Reserve <= MaxFile
  BY <1>6 DEF Sealed, Inv, Shape, WriterType
<1>10. ev.event = "begin" =>
         writer.length + BeginSize + (Cardinality(Pending(K[m])) + 1) * Reserve <= MaxFile
  BY <1>2, <1>6 DEF Usable, Admitted, Headroom
<1>11. /\ writer.length + Size(ev) <= MaxFile
       /\ writer.length + Size(ev) + Cardinality(Pending(After(K[m], ev))) * Reserve <= MaxFile
  BY <1>7, <1>8, <1>9, <1>10, RoomAfter
<1> HIDE DEF m, ev
<1>12. PICK L \in Caches, Y \in SectionsAt :
         /\ Trace(L, Y, log', widest)
         /\ \A n \in 0 .. m : L[n] = K[n] /\ Y[n] = X[n]
         /\ L[m + 1] = After(K[m], ev) /\ Y[m + 1] = SectionAfter(ev)
  BY <1>1, <1>2, <1>5, <1>6, <1>7, <1>11, TraceAppend DEF m, ev, FileTrace
<1>13. /\ log' \in Seq(Event) /\ Len(log') = m + 1 /\ log'[m + 1] = ev
       /\ \A n \in 1 .. m : log'[n] = log[n]
  BY <1>2, <1>5, <1>7, AppendProperties DEF m, ev
<1>14. Followed' = m
  BY <1>2, <1>3, <1>5, <1>13 DEF Followed, Written
<1>15. \A n \in 0 .. m : SizeTo(log', n) = SizeTo(log, n)
  <2>1. SUFFICES ASSUME NEW n \in 0 .. m PROVE SizeTo(log', n) = SizeTo(log, n)
    OBVIOUS
  <2>2. n \in Nat /\ \A l \in 1 .. n : log'[l] = log[l]
    BY <1>5, <1>13
  <2>3. QED
    BY <2>2, SamePrefix
<1>16. ASSUME NEW n \in synced' .. Len(log'), n >= 1 PROVE Sealed(L[n], Y[n], log', n)
  <2>1. CASE n = m + 1
    <3>1. SizeTo(log', m + 1) = SizeTo(log', m) + Size(ev)
      BY <1>5, <1>7, <1>13, SizeStep
    <3>2. SizeTo(log', m) = writer.length
      BY <1>5, <1>6, <1>15 DEF m
    <3>3. SectionAfter(ev) = "running"
      BY <1>7 DEF SectionAfter
    <3>4. QED
      BY <1>11, <1>12, <2>1, <3>1, <3>2, <3>3 DEF Sealed
  <2>2. CASE n # m + 1
    <3>1. n \in synced .. m /\ n \in 0 .. m
      BY <1>2, <1>5, <1>13, <2>2
    <3>2. Sealed(K[n], X[n], log, n)
      BY <1>1, <1>16, <3>1 DEF FileTrace, m
    <3>3. QED
      BY <1>12, <1>15, <3>1, <3>2 DEF Sealed
  <2>3. QED
    BY <2>1, <2>2
<1>17. /\ Followed' >= 1 /\ cache' = L[Followed']
       /\ writer'.length = SizeTo(log', Followed')
       /\ Sealed(L[Followed'], Y[Followed'], log', Followed')
  <2>1. m \in 0 .. m
    BY <1>5
  <2>2. L[m] = K[m] /\ Y[m] = X[m] /\ SizeTo(log', m) = SizeTo(log, m)
    BY <1>12, <1>15, <2>1
  <2>3. QED
    BY <1>2, <1>6, <1>14, <2>2 DEF m, Sealed
<1>18. FileTrace(L, Y)'
  BY <1>2, <1>4, <1>12, <1>16, <1>17 DEF FileTrace
<1>19. Admitted'
  BY <1>2, <1>3 DEF Usable, Admitted, RoomFor, Headroom, ev
<1>20. Handled'
  <2>1. log' # <<>>
    BY <1>5, <1>13
  <2>2. QED
    BY <1>2, <2>1 DEF Usable, Handled
<1>21. QED
  BY <1>2, <1>4, <1>18, <1>19, <1>20 DEF Usable

(* The sync returned: memory is again what the whole file says.            *)
LEMMA DoneUsable ==
  ASSUME Inv, Usable, Written,
         UNCHANGED <<log, torn, instance, limit, widest, healthy, cursor, section>>,
         synced' = Len(log), append' = NoAppend,
         cache' = After(cache, append.event),
         writer'.length = writer.length + Size(append.event)
  PROVE  Usable'
<1>1. PICK K \in Caches, X \in SectionsAt : FileTrace(K, X)
  BY DEF Usable
<1> DEFINE m == Len(log)
           ev == append.event
<1>2. append.by # None /\ append.stage = "sync" /\ log[m] = ev
  BY DEF Written, Inv, Appending
<1>3. instance = "gateway" /\ healthy /\ Running /\ Running'
  BY <1>2 DEF Inv, Mutex, Running
<1>4. log \in Seq(Event) /\ m \in Nat /\ synced \in 0 .. m /\ ev \in Event
  BY DEF Inv, Shape, AppendType
<1>5. /\ m - 1 >= 1 /\ cache = K[m - 1] /\ writer.length = SizeTo(log, m - 1)
  BY <1>1, <1>3 DEF FileTrace, Followed
<1>6. m \in 1 .. m /\ m \in 0 .. m /\ m \in synced .. m /\ m >= 1 /\ m - 1 \in Nat
  BY <1>4, <1>5
<1>7. /\ Replayed(K, X, log, widest, m) /\ Known(K[m], X[m], log, widest, m)
      /\ Sealed(K[m], X[m], log, m)
  BY <1>1, <1>6 DEF FileTrace, Trace
<1>8. cache' = K[m]
  BY <1>2, <1>5, <1>7 DEF Replayed
<1> HIDE DEF m, ev
<1>9. writer'.length = SizeTo(log, m)
  <2>1. (m - 1) + 1 = m
    BY <1>4
  <2>2. SizeTo(log, (m - 1) + 1) = SizeTo(log, m - 1) + Size(log[(m - 1) + 1])
    <3>1. log[(m - 1) + 1] \in Event
      BY <1>2, <1>4, <2>1
    <3>2. QED
      BY <1>6, <3>1, SizeStep
  <2>3. QED
    BY <1>2, <1>5, <2>1, <2>2 DEF ev
<1>10. Followed' = m
  BY DEF Followed, Written, NoAppend, m
<1>11. \A n \in synced' .. Len(log') : n = m
  BY <1>4 DEF m
<1>12. FileTrace(K, X)'
  <2>1. Trace(K, X, log', widest')
    BY <1>1 DEF FileTrace
  <2>2. \A n \in synced' .. Len(log') : n >= 1 => Sealed(K[n], X[n], log', n)
    BY <1>7, <1>11
  <2>3. /\ Followed' >= 1 /\ cache' = K[Followed']
        /\ writer'.length = SizeTo(log', Followed')
        /\ Sealed(K[Followed'], X[Followed'], log', Followed')
    BY <1>6, <1>7, <1>8, <1>9, <1>10
  <2>4. QED
    BY <1>3, <2>1, <2>2, <2>3 DEF FileTrace
<1>13. writer'.length <= MaxFile
  BY <1>7, <1>9 DEF Known
<1>14. Admitted'
  BY <1>13, NotAdmitting DEF NoAppend
<1>15. QED
  BY <1>3, <1>12, <1>14 DEF Usable, Handled

LEMMA BeginDoneUsable == Inv /\ Usable /\ BeginDone => Usable'
<1> SUFFICES ASSUME Inv, Usable, BeginDone PROVE Usable'
  OBVIOUS
<1>1. /\ Written /\ append.event.event = "begin"
      /\ UNCHANGED <<log, torn, instance, limit, widest, healthy, cursor, section>>
      /\ synced' = Len(log) /\ append' = NoAppend
      /\ cache' = CacheBegin(cache, append.event.id, append.event.endpoint)
      /\ writer'.length = writer.length + BeginSize
  BY DEF BeginDone, Written
<1>2. cache' = After(cache, append.event) /\ Size(append.event) = BeginSize
  BY <1>1 DEF After, Size
<1>3. QED
  BY <1>1, <1>2, DoneUsable

LEMMA CompleteDoneUsable == Inv /\ Usable /\ CompleteDone => Usable'
<1> SUFFICES ASSUME Inv, Usable, CompleteDone PROVE Usable'
  OBVIOUS
<1>1. /\ Written /\ append.event.event = "complete"
      /\ UNCHANGED <<log, torn, instance, limit, widest, healthy, cursor, section>>
      /\ synced' = Len(log) /\ append' = NoAppend
      /\ cache' = CacheComplete(cache, append.event.id)
      /\ writer' = [writer EXCEPT !.length = @ + CompleteSize]
  BY DEF CompleteDone, Written, History
<1>2. cache' = After(cache, append.event) /\ Size(append.event) = CompleteSize
  BY <1>1 DEF After, Size
<1>3. writer'.length = writer.length + CompleteSize
  BY <1>1 DEF Inv, Shape, WriterType
<1>4. QED
  BY <1>1, <1>2, <1>3, DoneUsable

-----------------------------------------------------------------------------
(* The export: what an emitted line leaves alone.                          *)
LEMMA ExportFrame ==
  ASSUME Inv, Usable, instance = "tool", instance' = "tool",
         UNCHANGED <<File, Memory, Callers, History>>,
         \E K \in Caches, X \in SectionsAt : TargetTrace(K, X)'
  PROVE  Usable'
<1>1. PICK K \in Caches, X \in SectionsAt : FileTrace(K, X)
  BY DEF Usable
<1>2. /\ append' = append
      /\ UNCHANGED <<log, torn, synced, limit, widest, cursor, section, cache, writer, healthy>>
  BY DEF File, Memory, Callers, History
<1>3. (Running' <=> Running) /\ Followed' = Followed
  BY <1>2 DEF Running, Followed, Written
<1>4. FileTrace(K, X)'
  BY <1>1, <1>2, <1>3, FileFrame
<1>5. append'.by = None
  BY <1>2 DEF Inv, Mutex
<1>6. Admitted'
  BY <1>2, <1>5, NotAdmitting DEF Usable, Admitted
<1>7. QED
  BY <1>2, <1>4, <1>6 DEF Usable, Handled

(* ... and the trace with the line that it adds.                           *)
LEMMA ExportTrace ==
  ASSUME Inv, Usable, instance = "tool", NEW K \in Caches, NEW X \in SectionsAt,
         TargetTrace(K, X), NEW ev \in Event, NEW last, Emit(ev, last), Fits(Size(ev)),
         widest' = widest,
         AcceptsAt(X[Len(target.lines)], K[Len(target.lines)], widest, ev)
  PROVE  \E L \in Caches, Y \in SectionsAt :
           /\ Trace(L, Y, target'.lines, widest')
           /\ target'.length = SizeTo(target'.lines, Len(target'.lines))
           /\ Len(target'.lines) = Len(target.lines) + 1
           /\ L[Len(target'.lines)] = After(K[Len(target.lines)], ev)
           /\ Y[Len(target'.lines)] = SectionAfter(ev)
           /\ target'.length + Cardinality(Pending(cache)) * Reserve <= MaxFile
<1> DEFINE s == target.lines
           m == Len(s)
<1>1. s \in Seq(Event) /\ m \in Nat /\ target.length \in Nat /\ widest \in Int
      /\ cache \in CacheType
  BY WidestInt DEF Inv, Shape, TargetType
<1>2. Trace(K, X, s, widest) /\ target.length = SizeTo(s, m)
  BY DEF TargetTrace
<1>3. target'.lines = Append(s, ev) /\ target'.length = target.length + Size(ev)
  BY DEF Emit
<1>4. Size(ev) \in Nat /\ Cardinality(Pending(cache)) * Reserve \in Nat /\ MaxFile \in Nat
  <2>1. Reserve \in Nat /\ MaxFile \in Nat /\ Cardinality(Pending(cache)) \in Nat
    BY <1>1, PendingFinite, SizesAssumption
  <2>2. QED
    BY <2>1, SizeNat, Distribute
<1>5. target.length + Size(ev) + Cardinality(Pending(cache)) * Reserve <= MaxFile
  BY DEF Fits
<1>6. SizeTo(s, m) + Size(ev) <= MaxFile
  BY <1>1, <1>2, <1>4, <1>5
<1>7. PICK L \in Caches, Y \in SectionsAt :
        /\ Trace(L, Y, Append(s, ev), widest)
        /\ \A n \in 0 .. m : L[n] = K[n] /\ Y[n] = X[n]
        /\ L[m + 1] = After(K[m], ev) /\ Y[m + 1] = SectionAfter(ev)
  BY <1>1, <1>2, <1>6, TraceAppend
<1>8. /\ Len(target'.lines) = m + 1 /\ target'.lines[m + 1] = ev
      /\ \A n \in 1 .. m : target'.lines[n] = s[n]
  BY <1>1, <1>3, AppendProperties
<1>9. SizeTo(target'.lines, m + 1) = SizeTo(s, m) + Size(ev)
  <2>1. SizeTo(target'.lines, m) = SizeTo(s, m)
    BY <1>1, <1>8, SamePrefix
  <2>2. SizeTo(target'.lines, m + 1) = SizeTo(target'.lines, m) + Size(target'.lines[m + 1])
    BY <1>1, <1>8, SizeStep
  <2>3. QED
    BY <1>8, <2>1, <2>2
<1>10. QED
  BY <1>2, <1>3, <1>5, <1>7, <1>8, <1>9

(* The memory of a healthy instance is within the limits.                  *)
LEMMA MemoryBounded ==
  ASSUME Inv, Usable, Running, healthy
  PROVE  /\ cache \in CacheType /\ Tallied(cache) /\ Conserved(cache)
         /\ Cardinality(Pending(cache)) <= MaxPending
         /\ \A e \in Endpoint : cache.byEndpoint[e] <= widest
<1>1. PICK K \in Caches, X \in SectionsAt : FileTrace(K, X)
  BY DEF Usable
<1>2. Followed >= 1 /\ cache = K[Followed]
  BY <1>1 DEF FileTrace
<1>3. Followed \in 0 .. Len(log)
  <2>1. Len(log) \in Nat
    BY DEF Inv, Shape
  <2>2. Followed \in Int /\ Followed <= Len(log)
    BY <2>1 DEF Followed
  <2>3. QED
    BY <1>2, <2>1, <2>2
<1>4. Known(cache, X[Followed], log, widest, Followed)
  BY <1>1, <1>2, <1>3 DEF FileTrace, Trace
<1>5. QED
  BY <1>4 DEF Known, Inv, Shape, Counted, Remembered

LEMMA ExportHeadUsable == Inv /\ Usable /\ ExportHead => Usable'
<1> SUFFICES ASSUME Inv, Usable, ExportHead PROVE Usable'
  OBVIOUS
<1>1. /\ instance = "tool" /\ instance' = "tool" /\ healthy /\ Running /\ ~target.done
      /\ UNCHANGED <<File, Memory, Callers, History>>
  BY DEF ExportHead, Exporting, Running
<1>2. widest' = widest /\ cache' = cache
  BY <1>1 DEF History, Memory
<1>3. PICK K \in Caches, X \in SectionsAt : TargetTrace(K, X)
  BY <1>1 DEF Usable
<1>4. /\ cache \in CacheType /\ Tallied(cache)
      /\ cache.begun \in 0 .. MaxId /\ cache.completed \in 0 .. MaxId
  BY <1>1, MemoryBounded DEF CacheType
<1>5. CASE target.lines = <<>> /\ Fits(HeaderSize) /\ Emit(Header, 0)
  <2>1. Header \in Event /\ Size(Header) = HeaderSize
    BY DEF Event, Header, Size
  <2>2. Len(target.lines) = 0
    BY <1>5
  <2>3. X[0] = "header" /\ AcceptsAt(X[Len(target.lines)], K[Len(target.lines)], widest, Header)
    BY <1>3, <2>2 DEF TargetTrace, Trace, AcceptsAt, Header
  <2>4. PICK L \in Caches, Y \in SectionsAt :
          /\ Trace(L, Y, target'.lines, widest')
          /\ target'.length = SizeTo(target'.lines, Len(target'.lines))
          /\ Len(target'.lines) = Len(target.lines) + 1
          /\ Y[Len(target'.lines)] = SectionAfter(Header)
    BY <1>1, <1>2, <1>3, <1>5, <2>1, <2>3, ExportTrace
  <2>5. Len(target'.lines) = 1 /\ ~(1 >= 2)
    BY <2>2, <2>4
  <2>6. ~target'.done /\ SectionAfter(Header) = "fresh"
    BY <1>5 DEF Emit, Header, SectionAfter
  <2>7. TargetTrace(L, Y)'
    BY <2>4, <2>5, <2>6 DEF TargetTrace
  <2>8. QED
    BY <1>1, <2>7, ExportFrame
<1>6. CASE /\ Len(target.lines) = 1 /\ Fits(CheckpointSize)
           /\ Emit(CheckpointEvent(cache.begun, cache.completed), 0)
  <2> DEFINE ev == CheckpointEvent(cache.begun, cache.completed)
  <2>1. /\ ev \in Event /\ Size(ev) = CheckpointSize /\ ev.event = "checkpoint"
        /\ ev.begun = cache.begun /\ ev.completed = cache.completed
    BY <1>4 DEF Event, CheckpointEvent, Size
  <2>2. X[1] = "fresh" /\ Known(K[1], X[1], target.lines, widest, 1) /\ K[1] \in CacheType
    BY <1>3, <1>6 DEF TargetTrace, Trace, Caches
  <2>3. K[1] = EmptyCache
    BY <2>2 DEF Known
  <2>4. cache.completed <= cache.begun
    BY <1>4 DEF Tallied
  <2> HIDE DEF ev
  <2>5. AcceptsAt(X[Len(target.lines)], K[Len(target.lines)], widest, ev)
    BY <1>6, <2>1, <2>2, <2>4 DEF AcceptsAt
  <2>6. Fits(Size(ev)) /\ Emit(ev, 0)
    BY <1>6, <2>1 DEF ev
  <2>7. PICK L \in Caches, Y \in SectionsAt :
          /\ Trace(L, Y, target'.lines, widest')
          /\ target'.length = SizeTo(target'.lines, Len(target'.lines))
          /\ Len(target'.lines) = Len(target.lines) + 1
          /\ L[Len(target'.lines)] = After(K[Len(target.lines)], ev)
          /\ Y[Len(target'.lines)] = SectionAfter(ev)
    BY <1>1, <1>2, <1>3, <2>1, <2>5, <2>6, ExportTrace
  <2>8. Len(target'.lines) = 2 /\ L[2] = After(EmptyCache, ev) /\ Y[2] = SectionAfter(ev)
    BY <1>6, <2>3, <2>7
  <2>9. SectionAfter(ev) = "checkpoint" /\ ~target'.done /\ target'.last = 0
    BY <2>1, <2>6 DEF Emit, SectionAfter
  <2>10. /\ After(EmptyCache, ev).begun = cache.begun
         /\ After(EmptyCache, ev).completed = cache.completed
         /\ Pending(After(EmptyCache, ev)) = {}
    BY <2>1 DEF After, Pending, EmptyCache
  <2>11. {i \in Pending(cache) : i <= 0} = {}
    BY <1>4, CacheFields
  <2>12. Pending(L[2]) = {i \in Pending(cache') : i <= target'.last}
    BY <1>2, <2>8, <2>9, <2>10, <2>11
  <2>13. /\ L[2].begun = cache'.begun /\ L[2].completed = cache'.completed
         /\ \A i \in Pending(L[2]) : L[2].unresolved[i] = cache'.unresolved[i]
    BY <1>2, <2>8, <2>10
  <2>14. Y[2] = "checkpoint"
    BY <2>8, <2>9
  <2> DEFINE l == L[2]
             y == Y[2]
  <2>15. /\ Len(target'.lines) = 2
         /\ L[Len(target'.lines)] = l /\ Y[Len(target'.lines)] = y
    BY <2>8
  <2> HIDE DEF l, y
  <2>16. TargetTrace(L, Y)'
    <3>1. Trace(L, Y, target'.lines, widest')
          /\ target'.length = SizeTo(target'.lines, Len(target'.lines))
      BY <2>7
    <3>2. QED
      BY <2>9, <2>12, <2>13, <2>14, <2>15, <3>1 DEF TargetTrace, l, y
  <2>17. QED
    BY <1>1, <2>16, ExportFrame
<1>7. QED
  BY <1>5, <1>6 DEF ExportHead

LEMMA ExportEndUsable == Inv /\ Usable /\ ExportEnd => Usable'
<1> SUFFICES ASSUME Inv, Usable, ExportEnd PROVE Usable'
  OBVIOUS
<1>1. /\ instance = "tool" /\ instance' = "tool" /\ healthy /\ Running /\ ~target.done
      /\ UNCHANGED <<File, Memory, Callers, History>>
      /\ Len(target.lines) >= 2 /\ Remaining = {} /\ Fits(EndSize)
      /\ Emit(CheckpointEnd, target.last)
  BY DEF ExportEnd, Exporting, Running
<1>2. widest' = widest /\ cache' = cache
  BY <1>1 DEF History, Memory
<1>3. PICK K \in Caches, X \in SectionsAt : TargetTrace(K, X)
  BY <1>1 DEF Usable
<1> DEFINE m == Len(target.lines)
           k == K[m]
<1>4. /\ X[m] = "checkpoint" /\ k.begun = cache.begun /\ k.completed = cache.completed
      /\ Pending(k) = {i \in Pending(cache) : i <= target.last}
      /\ \A i \in Pending(k) : k.unresolved[i] = cache.unresolved[i]
  BY <1>1, <1>3 DEF TargetTrace
<1>5. cache \in CacheType /\ Conserved(cache)
  BY <1>1, MemoryBounded
<1>6. target.last \in Int /\ Pending(cache) \subseteq Int /\ m \in Nat
  BY <1>5, CacheFields DEF Inv, Shape, TargetType
<1>7. Pending(k) = Pending(cache)
  BY <1>1, <1>4, <1>6 DEF Remaining
<1>8. CheckpointEnd \in Event /\ Size(CheckpointEnd) = EndSize
  BY DEF Event, CheckpointEnd, Size
<1>9. Conserved(k)
  BY <1>4, <1>5, <1>7 DEF Conserved
<1>10. AcceptsAt(X[m], k, widest, CheckpointEnd)
  BY <1>4, <1>9 DEF AcceptsAt, CheckpointEnd
<1>11. PICK L \in Caches, Y \in SectionsAt :
         /\ Trace(L, Y, target'.lines, widest')
         /\ target'.length = SizeTo(target'.lines, Len(target'.lines))
         /\ Len(target'.lines) = m + 1
         /\ L[Len(target'.lines)] = After(k, CheckpointEnd)
         /\ Y[Len(target'.lines)] = SectionAfter(CheckpointEnd)
         /\ target'.length + Cardinality(Pending(cache)) * Reserve <= MaxFile
  BY <1>1, <1>2, <1>3, <1>8, <1>10, ExportTrace
<1>12. /\ After(k, CheckpointEnd) = k /\ SectionAfter(CheckpointEnd) = "running"
       /\ target'.done /\ target'.last = target.last
  BY <1>1 DEF After, SectionAfter, CheckpointEnd, Emit
<1> HIDE DEF m, k
<1>13. Sealed(k, "running", target'.lines, Len(target'.lines))
  BY <1>7, <1>11 DEF Sealed
<1>14. m + 1 # 1 /\ m + 1 >= 2
  BY <1>1, <1>6 DEF m
<1>15. TargetTrace(L, Y)'
  BY <1>2, <1>4, <1>11, <1>12, <1>13, <1>14 DEF TargetTrace
<1>16. QED
  BY <1>1, <1>15, ExportFrame

(* A cache that holds a part of another one has room where that one has.   *)
LEMMA PartHasRoom ==
  ASSUME NEW k \in CacheType, NEW n \in CacheType, Tallied(k), Tallied(n),
         Pending(k) \subseteq Pending(n),
         \A j \in Pending(k) : k.unresolved[j] = n.unresolved[j],
         NEW i \in Pending(n) \ Pending(k)
  PROVE  /\ Cardinality(Pending(k)) < Cardinality(Pending(n))
         /\ n.unresolved[i] \in Endpoint
         /\ k.byEndpoint[n.unresolved[i]] < n.byEndpoint[n.unresolved[i]]
<1>1. ASSUME NEW S, NEW T, IsFiniteSet(T), S \subseteq T, i \in T, i \notin S
      PROVE  Cardinality(S) < Cardinality(T) /\ Cardinality(S) \in Nat
  <2>1. IsFiniteSet(S) /\ S \cup {i} \subseteq T
    BY <1>1, FS_Subset
  <2>2. Cardinality(S \cup {i}) = Cardinality(S) + 1 /\ Cardinality(S) \in Nat
    BY <1>1, <2>1, FS_AddElement, FS_CardinalityType
  <2>3. Cardinality(S \cup {i}) <= Cardinality(T) /\ Cardinality(T) \in Nat
    BY <1>1, <2>1, FS_Subset, FS_CardinalityType
  <2>4. QED
    BY <2>2, <2>3
<1>2. IsFiniteSet(Pending(n)) /\ n.unresolved[i] \in Endpoint
  BY CacheFields
<1>3. Cardinality(Pending(k)) < Cardinality(Pending(n))
  BY <1>1, <1>2
<1> DEFINE e == n.unresolved[i]
<1>4. IsFiniteSet(At(n, e)) /\ At(k, e) \subseteq At(n, e) /\ i \in At(n, e) /\ i \notin At(k, e)
  BY <1>2, AtFinite DEF At
<1>5. Cardinality(At(k, e)) < Cardinality(At(n, e))
  BY <1>1, <1>4
<1>6. QED
  BY <1>2, <1>3, <1>5 DEF Tallied

LEMMA ExportRestoreUsable == Inv /\ Usable /\ ExportRestore => Usable'
<1> SUFFICES ASSUME Inv, Usable, ExportRestore PROVE Usable'
  OBVIOUS
<1>1. /\ instance = "tool" /\ instance' = "tool" /\ healthy /\ Running /\ ~target.done
      /\ UNCHANGED <<File, Memory, Callers, History>>
      /\ Len(target.lines) >= 2
  BY DEF ExportRestore, Exporting, Running
<1>2. widest' = widest /\ cache' = cache
  BY <1>1 DEF History, Memory
<1>3. PICK i \in Remaining :
        /\ \A j \in Remaining : i <= j
        /\ Fits(RestoreSize)
        /\ Emit(RestoreEvent(i, cache.unresolved[i]), i)
  BY DEF ExportRestore
<1>4. PICK K \in Caches, X \in SectionsAt : TargetTrace(K, X)
  BY <1>1 DEF Usable
<1> DEFINE m == Len(target.lines)
           k == K[m]
           ev == RestoreEvent(i, cache.unresolved[i])
<1>5. /\ X[m] = "checkpoint" /\ k.begun = cache.begun /\ k.completed = cache.completed
      /\ Pending(k) = {j \in Pending(cache) : j <= target.last}
      /\ \A j \in Pending(k) : k.unresolved[j] = cache.unresolved[j]
  BY <1>1, <1>4 DEF TargetTrace
<1>6. /\ cache \in CacheType /\ Tallied(cache)
      /\ Cardinality(Pending(cache)) <= MaxPending
      /\ \A e \in Endpoint : cache.byEndpoint[e] <= widest
  BY <1>1, MemoryBounded
<1>7. target.last \in Int /\ Pending(cache) \subseteq 1 .. MaxId /\ m \in Nat
  BY <1>6, CacheFields DEF Inv, Shape, TargetType
<1>8. k \in CacheType /\ Tallied(k)
  <2>1. m \in 0 .. m
    BY <1>7
  <2>2. Known(k, X[m], target.lines, widest, m)
    BY <1>4, <2>1 DEF TargetTrace, Trace
  <2>3. QED
    BY <1>7, <2>2 DEF Known, Caches
<1>9. i \in Pending(cache) /\ i > target.last /\ i \in 1 .. cache.begun /\ i \in 1 .. MaxId
  BY <1>3, <1>6, <1>7 DEF Remaining, Tallied
<1>10. i \in Pending(cache) \ Pending(k) /\ Pending(k) \subseteq Pending(cache)
  BY <1>5, <1>7, <1>9
<1> HIDE DEF m, k
<1>11. /\ Cardinality(Pending(k)) < Cardinality(Pending(cache))
       /\ cache.unresolved[i] \in Endpoint
       /\ k.byEndpoint[cache.unresolved[i]] < cache.byEndpoint[cache.unresolved[i]]
  BY <1>5, <1>6, <1>8, <1>10, PartHasRoom
<1>12. /\ ev \in Event /\ Size(ev) = RestoreSize /\ ev.event = "restore"
       /\ ev.id = i /\ ev.endpoint = cache.unresolved[i]
  BY <1>9, <1>11 DEF Event, RestoreEvent, Size
<1> HIDE DEF ev
<1>13. AcceptsAt(X[m], k, widest, ev)
  <2>1. Cardinality(Pending(k)) < MaxPending
    BY <1>6, <1>8, <1>11, PendingFinite, LimitsAssumption
  <2>2. /\ k.byEndpoint[ev.endpoint] \in Int /\ cache.byEndpoint[ev.endpoint] \in Int
        /\ widest \in Int /\ cache.byEndpoint[ev.endpoint] <= widest
        /\ k.byEndpoint[ev.endpoint] < cache.byEndpoint[ev.endpoint]
    BY <1>6, <1>8, <1>11, <1>12, WidestInt DEF CacheType, Inv, Shape
  <2>3. k.byEndpoint[ev.endpoint] < widest
    BY <2>2
  <2>4. ev.id \in (1 .. k.begun) \ Pending(k)
    BY <1>5, <1>9, <1>10, <1>12
  <2>5. QED
    BY <1>5, <1>12, <2>1, <2>3, <2>4 DEF AcceptsAt
<1>14. Fits(Size(ev)) /\ Emit(ev, i)
  BY <1>3, <1>12 DEF ev
<1>15. PICK L \in Caches, Y \in SectionsAt :
         /\ Trace(L, Y, target'.lines, widest')
         /\ target'.length = SizeTo(target'.lines, Len(target'.lines))
         /\ Len(target'.lines) = m + 1
         /\ L[Len(target'.lines)] = After(k, ev)
         /\ Y[Len(target'.lines)] = SectionAfter(ev)
  BY <1>1, <1>2, <1>4, <1>12, <1>13, <1>14, ExportTrace DEF m, k
<1> DEFINE l == After(k, ev)
<1>16. /\ SectionAfter(ev) = "checkpoint" /\ ~target'.done /\ target'.last = i
       /\ l = Insert(k, i, cache.unresolved[i])
  BY <1>12, <1>14 DEF SectionAfter, Emit, After
<1>17. /\ Pending(l) = Pending(k) \cup {i} /\ l.unresolved[i] = cache.unresolved[i]
       /\ \A j \in Pending(k) \ {i} : l.unresolved[j] = k.unresolved[j]
       /\ l.begun = k.begun /\ l.completed = k.completed
  BY <1>8, <1>11, <1>16, InsertFields
<1> HIDE DEF l
<1>18. Pending(l) = {j \in Pending(cache) : j <= i}
  <2>1. \A j \in Pending(cache) : j <= i <=> j <= target.last \/ j = i
    <3>1. SUFFICES ASSUME NEW j \in Pending(cache)
                   PROVE  j <= i <=> j <= target.last \/ j = i
      OBVIOUS
    <3>2. j \in Int /\ i \in Int
      BY <1>7, <1>9
    <3>3. j > target.last => i <= j
      BY <1>3 DEF Remaining
    <3>4. QED
      BY <1>7, <1>9, <3>2, <3>3
  <2>2. QED
    BY <1>5, <1>9, <1>17, <2>1
<1>19. /\ l.begun = cache'.begun /\ l.completed = cache'.completed
       /\ \A j \in Pending(l) : l.unresolved[j] = cache'.unresolved[j]
  BY <1>2, <1>5, <1>17
<1>20. Pending(l) = {j \in Pending(cache') : j <= target'.last}
  BY <1>2, <1>16, <1>18
<1>21. TargetTrace(L, Y)'
  <2>1. m + 1 # 1 /\ m + 1 >= 2
    BY <1>1, <1>7 DEF m
  <2>2. Trace(L, Y, target'.lines, widest')
        /\ target'.length = SizeTo(target'.lines, Len(target'.lines))
    BY <1>15
  <2>3. /\ Len(target'.lines) = m + 1 /\ L[Len(target'.lines)] = l
        /\ Y[Len(target'.lines)] = "checkpoint"
    BY <1>15, <1>16 DEF l
  <2>4. QED
    BY <1>16, <1>19, <1>20, <2>1, <2>2, <2>3 DEF TargetTrace
<1>22. QED
  BY <1>1, <1>21, ExportFrame

-----------------------------------------------------------------------------
LEMMA UsableInit == Init => Usable
<1> SUFFICES ASSUME Init PROVE Usable
  OBVIOUS
<1>1. /\ log = <<>> /\ synced = 0 /\ instance = "none" /\ cursor = 0 /\ section = "header"
      /\ cache = EmptyCache /\ writer.length = 0 /\ append.by = None /\ widest = 0
  BY DEF Init, NoAppend
<1>2. PICK K \in Caches, X \in SectionsAt : Trace(K, X, <<>>, 0)
  BY TraceEmpty
<1>3. K[0] = EmptyCache /\ X[0] = "header" /\ SizeTo(log, 0) = 0 /\ Len(log) = 0
  BY <1>1, <1>2, SizeStart DEF Trace
<1>4. ~Running
  BY <1>1 DEF Running
<1>5. \A n \in synced .. Len(log) : ~(n >= 1)
  BY <1>1, <1>3
<1>6. FileTrace(K, X)
  BY <1>1, <1>2, <1>3, <1>4, <1>5 DEF FileTrace
<1>7. Admitted /\ Handled
  BY <1>1, SizesAssumption DEF Admitted, Handled
<1>8. QED
  BY <1>1, <1>6, <1>7 DEF Usable

LEMMA UsableStep == Inv /\ Usable /\ [Next]_vars => Usable'
<1> SUFFICES ASSUME Inv, Usable, [Next]_vars PROVE Usable'
  OBVIOUS
<1>1. CASE Initialize \/ (\E n \in Limits : Open(n)) \/ ReplayLine \/ OpenRefused
  BY <1>1, InitializeUsable, OpenUsable, ReplayLineUsable, OpenRefusedUsable
<1>2. CASE \E who \in {"gateway", "tool"} : Opened(who)
  BY <1>2, OpenedUsable
<1>3. CASE \E c \in Caller :
             \/ \E e \in Endpoint : StartBegin(c, e)
             \/ StartComplete(c)
             \/ Validate(c)
             \/ GiveUp(c)
  BY <1>3, StartBeginUsable, StartCompleteUsable, CallerUsable
<1>4. CASE WriteLine \/ AppendFails \/ BeginDone \/ CompleteDone
  BY <1>4, WriteLineUsable, AppendFailsUsable, BeginDoneUsable, CompleteDoneUsable
<1>5. CASE ExportHead \/ ExportRestore \/ ExportEnd \/ Publish
  BY <1>5, ExportHeadUsable, ExportRestoreUsable, ExportEndUsable, PublishUsable
<1>6. CASE Exit \/ PowerLoss
  BY <1>6, ExitUsable, PowerLossUsable
<1>7. CASE UNCHANGED vars
  <2>1. /\ UNCHANGED <<log, torn, synced, instance, limit, cursor, section, cache>>
        /\ UNCHANGED <<writer, healthy, append, target, widest>>
    BY <1>7 DEF vars, File, Memory, Callers, History
  <2>2. \A K, X : FileTrace(K, X) => FileTrace(K, X)'
    <3>1. (Running' <=> Running) /\ Followed' = Followed
      BY <2>1 DEF Running, Followed, Written
    <3>2. QED
      BY <2>1, <3>1, FileFrame
  <2>3. \A K, X : TargetTrace(K, X) => TargetTrace(K, X)'
    BY <2>1 DEF TargetTrace
  <2>4. Admitted' /\ Handled'
    BY <2>1 DEF Usable, Admitted, Handled, RoomFor, Headroom
  <2>5. QED
    BY <2>1, <2>2, <2>3, <2>4 DEF Usable
<1>8. QED
  BY <1>1, <1>2, <1>3, <1>4, <1>5, <1>6, <1>7 DEF Next

(* src/src/durable_requests.rs: whatever the file was left with, in any    *)
(* process and at any crash, its lines replay under the widest limit it    *)
(* was written with, memory is what they say, and the room of a terminal   *)
(* line is there for every attempt that is pending.                        *)
THEOREM JournalReplays == Spec => []Usable
<1>1. Init => Usable
  BY UsableInit
<1>2. Inv /\ Usable /\ [Next]_vars => Usable'
  BY UsableStep
<1>3. QED
  BY <1>1, <1>2, JournalInvariant, PTL DEF Spec

-----------------------------------------------------------------------------
(* What a run checks, of the invariants.                                   *)
LEMMA UsableTypes == Inv /\ Usable => TypeOK
<1> SUFFICES ASSUME Inv, Usable PROVE TypeOK
  OBVIOUS
<1>1. /\ log \in Seq(Event) /\ target.lines \in Seq(Event)
      /\ torn \in BOOLEAN /\ healthy \in BOOLEAN
      /\ synced \in 0 .. Len(log)
      /\ instance \in {"none", "replaying", "gateway", "tool"}
      /\ limit \in Limits /\ widest \in Limits \cup {0}
      /\ cursor \in 0 .. Len(log)
      /\ section \in {"header", "fresh", "checkpoint", "running"}
      /\ cache \in CacheType
      /\ writer.length \in Nat /\ writer.lastId \in 0 .. MaxId
      /\ pc \in [Caller -> {"idle", "appending", "held", "validated"}]
      /\ attempt \in [Caller -> 0 .. MaxId]
      /\ issued \subseteq 1 .. MaxId /\ validated \subseteq issued
  BY DEF Inv, Shape, TargetType, WriterType
<1>2. \A c \in Caller : pc[c] = "appending" <=> append.by = c
  BY DEF Inv, Mutex
<1>3. writer.length \in 0 .. MaxFile
  BY <1>1, SizesAssumption DEF Usable, Admitted
<1>4. Pending(cache) \subseteq 1 .. MaxId
      /\ \A i \in Pending(cache) : cache.unresolved[i] \in Endpoint
  BY <1>1, CacheFields
<1>5. cache.byEndpoint \in [Endpoint -> Int]
      /\ cache.begun \in 0 .. MaxId /\ cache.completed \in 0 .. MaxId
  BY <1>1 DEF CacheType
<1>6. \A e \in Endpoint : cache.byEndpoint[e] \in Nat
  <2>1. \A e \in Endpoint : Cardinality(At(cache, e)) \in Nat
    BY <1>1, AtFinite, FS_CardinalityType
  <2>2. QED
    BY <2>1 DEF Inv, Counted, Tallied
<1>7. cache.byEndpoint \in [Endpoint -> Nat]
  BY <1>5, <1>6
<1>8. QED
  BY <1>1, <1>2, <1>3, <1>4, <1>5, <1>7 DEF TypeOK

(* The memory of a healthy instance with no line in flight.                *)
LEMMA MemoryIsTheFile ==
  ASSUME Inv, Usable, Running, healthy, ~Written
  PROVE  /\ Pending(cache) = Unfinished(log)
         /\ writer.length = SizeOf(log)
         /\ writer.length + Cardinality(Pending(cache)) * Reserve <= MaxFile
<1>1. PICK K \in Caches, X \in SectionsAt : FileTrace(K, X)
  BY DEF Usable
<1> DEFINE m == Len(log)
<1>2. log \in Seq(Event) /\ m \in Nat /\ m \in 0 .. m
  BY DEF Inv, Shape
<1>3. /\ cache = K[m] /\ writer.length = SizeTo(log, m)
      /\ Sealed(K[m], X[m], log, m)
  BY <1>1 DEF FileTrace, Followed
<1>4. Known(K[m], X[m], log, widest, m)
  BY <1>1, <1>2 DEF FileTrace, Trace
<1>5. Pending(cache) = UnfinishedTo(log, m)
  BY <1>3, <1>4 DEF Known
<1>6. QED
  BY <1>2, <1>3, <1>5, WholeFile DEF Sealed

LEMMA UsableTruthful == Inv /\ Usable => CacheTruthful
<1> SUFFICES ASSUME Inv, Usable, Running, healthy, ~Written
             PROVE  /\ Pending(cache) = Unfinished(log)
                    /\ \A e \in Endpoint : cache.byEndpoint[e] = Cardinality(At(cache, e))
                    /\ Conserved(cache)
  BY DEF CacheTruthful, At, Conserved
<1>1. Tallied(cache) /\ Conserved(cache)
  BY MemoryBounded
<1>2. QED
  BY <1>1, MemoryIsTheFile DEF Tallied

LEMMA ProductsGrow == \A c \in Nat, d \in Nat, z \in Nat : c <= d => c * z <= d * z
<1> SUFFICES ASSUME NEW c \in Nat, NEW d \in Nat, NEW z \in Nat, c <= d
             PROVE  c * z <= d * z
  OBVIOUS
<1>1. PICK b \in Nat : d = c + b
  <2>1. d - c \in Nat /\ d = c + (d - c)
    OBVIOUS
  <2>2. QED
    BY <2>1
<1>2. (c + b) * z = c * z + b * z /\ b * z \in Nat /\ c * z \in Nat
  OBVIOUS
<1>3. QED
  BY <1>1, <1>2

LEMMA UsableHeadroom == Inv /\ Usable => TerminalHeadroom
<1> SUFFICES ASSUME Inv, Usable, Running, healthy, ~Written,
                    NEW S, S \subseteq Pending(cache)
             PROVE  /\ writer.length = SizeOf(log)
                    /\ writer.length + Cardinality(S) * Reserve <= MaxFile
  <2> DEFINE T == {i \in Pending(cache) :
                     append.by # None /\ append.event = CompleteEvent(i)}
  <2>1. Pending(cache) \ T \subseteq Pending(cache)
    OBVIOUS
  <2>2. QED
    BY <2>1 DEF TerminalHeadroom
<1> DEFINE c == Cardinality(S)
           d == Cardinality(Pending(cache))
<1>1. writer.length = SizeOf(log) /\ writer.length + d * Reserve <= MaxFile
  BY MemoryIsTheFile
<1>2. cache \in CacheType /\ writer.length \in Nat /\ Reserve \in Nat /\ MaxFile \in Nat
  BY SizesAssumption DEF Inv, Shape, WriterType
<1>3. c \in Nat /\ d \in Nat /\ c <= d
  BY <1>2, CacheFields, FS_Subset, FS_CardinalityType
<1> HIDE DEF c, d
<1>4. c * Reserve <= d * Reserve /\ c * Reserve \in Nat /\ d * Reserve \in Nat
  BY <1>2, <1>3, ProductsGrow, Distribute
<1>5. writer.length + c * Reserve <= MaxFile
  BY <1>1, <1>2, <1>4
<1>6. QED
  BY <1>1, <1>5 DEF c

LEMMA UsableOpens == Inv /\ Usable => NeverLocksItselfOut
<1> SUFFICES ASSUME Inv, Usable, instance = "replaying", ~torn, limit >= widest
             PROVE  IF cursor < Len(log) THEN Accepts(log[cursor + 1]) ELSE Openable
  BY DEF NeverLocksItselfOut
<1>1. PICK K \in Caches, X \in SectionsAt : FileTrace(K, X)
  BY DEF Usable
<1>2. /\ log \in Seq(Event) /\ cursor \in Nat /\ Len(log) \in Nat
      /\ cursor <= Len(log) /\ synced \in 0 .. Len(log)
      /\ limit \in Int /\ widest \in Int /\ cache \in CacheType
  BY WidestInt DEF Inv, Shape
<1>3. ~Running
  BY DEF Running
<1>4. cache = K[cursor] /\ section = X[cursor] /\ writer.length = SizeTo(log, cursor)
  BY <1>1, <1>3 DEF FileTrace
<1>5. CASE cursor < Len(log)
  <2>1. /\ cursor + 1 \in 1 .. Len(log) /\ (cursor + 1) - 1 = cursor
        /\ log[cursor + 1] \in Event
    BY <1>2, <1>5, ElementOfSeq
  <2>2. Replayed(K, X, log, widest, cursor + 1)
    BY <1>1, <2>1 DEF FileTrace, Trace
  <2>3. AcceptsAt(section, cache, widest, log[cursor + 1])
    BY <1>4, <2>1, <2>2 DEF Replayed
  <2>4. AcceptsAt(section, cache, limit, log[cursor + 1])
    BY <1>2, <2>1, <2>3, AcceptsWider
  <2>5. QED
    BY <1>5, <2>4, AcceptsNow
<1>6. CASE ~(cursor < Len(log))
  <2>1. cursor = Len(log)
    BY <1>2, <1>6
  <2>2. log # <<>>
    BY DEF Usable, Handled
  <2>3. cursor >= 1 /\ cursor \in synced .. Len(log)
    BY <1>2, <2>1, <2>2, EmptySeq
  <2>4. Sealed(K[cursor], X[cursor], log, cursor)
    BY <1>1, <2>3 DEF FileTrace
  <2>5. Openable
    BY <1>4, <2>4 DEF Sealed, Openable
  <2>6. QED
    BY <1>6, <2>5
<1>7. QED
  BY <1>5, <1>6

(* src/src/durable_requests.rs: the journal stays usable.  Memory is what  *)
(* the file says, every pending attempt can still be completed, and a file *)
(* without a torn line is opened by any instance whose limit is not below  *)
(* the limits it was written with.                                         *)
THEOREM JournalStaysUsable == Spec => []JournalUsable
<1>1. Inv /\ Usable => JournalUsable
  BY UsableTypes, UsableTruthful, UsableHeadroom, UsableOpens DEF JournalUsable
<1>2. QED
  BY <1>1, JournalInvariant, JournalReplays, PTL

LEMMA UsableCheckpoint == Inv /\ Usable => CheckpointFaithful
<1> SUFFICES ASSUME Inv, Usable, target.done
             PROVE  /\ Unfinished(target.lines) = Pending(cache)
                    /\ target.lines[2] = CheckpointEvent(cache.begun, cache.completed)
                    /\ \A n \in 3 .. Len(target.lines) - 1 :
                         /\ target.lines[n].endpoint = cache.unresolved[target.lines[n].id]
                         /\ n > 3 => target.lines[n - 1].id < target.lines[n].id
                    /\ SizeOf(target.lines) + Cardinality(Pending(cache)) * Reserve <= MaxFile
  BY DEF CheckpointFaithful
<1> DEFINE s == target.lines
           m == Len(s)
<1>1. instance = "tool"
  BY DEF Inv, Copied, NoTarget
<1>2. PICK K \in Caches, X \in SectionsAt : TargetTrace(K, X)
  BY <1>1 DEF Usable
<1>3. s \in Seq(Event) /\ m \in Nat /\ m >= 3 /\ target.last \in Int
      /\ cache \in CacheType
  BY FinishedTarget DEF Inv, Shape, TargetType
<1>4. m \in 0 .. m /\ m >= 2
  BY <1>3
<1>5. /\ Trace(K, X, s, widest) /\ Sealed(K[m], X[m], s, m)
      /\ Pending(K[m]) = {i \in Pending(cache) : i <= target.last}
  BY <1>2, <1>4 DEF TargetTrace
<1>6. Pending(K[m]) = Pending(cache)
  <2>1. \A i \in Pending(cache) : ~(i > target.last) /\ i \in Int
    BY <1>3, CacheFields DEF Inv, Copied, Remaining
  <2>2. QED
    BY <1>3, <1>5, <2>1
<1>7. Unfinished(s) = Pending(cache)
  <2>1. Known(K[m], X[m], s, widest, m)
    BY <1>4, <1>5 DEF Trace
  <2>2. QED
    BY <1>3, <1>6, <2>1, WholeFile DEF Known
<1>8. SizeOf(s) + Cardinality(Pending(cache)) * Reserve <= MaxFile
  BY <1>3, <1>5, <1>6, WholeFile DEF Sealed
<1>9. ASSUME NEW n \in 3 .. Len(s) - 1
      PROVE  /\ s[n].endpoint = cache.unresolved[s[n].id]
             /\ n > 3 => s[n - 1].id < s[n].id
  <2>1. PICK i \in Pending(cache) :
          s[n] = RestoreEvent(i, cache.unresolved[i]) /\ (n > 3 => s[n - 1].id < i)
    BY FinishedTarget
  <2>2. s[n].id = i /\ s[n].endpoint = cache.unresolved[i]
    BY <2>1 DEF RestoreEvent
  <2>3. QED
    BY <2>1, <2>2
<1>10. QED
  BY <1>7, <1>8, <1>9, FinishedTarget

(* src/src/durable_requests.rs: a finished checkpoint stands for the       *)
(* journal, with the same pending attempts at the same endpoints, the same *)
(* totals and room for their terminal lines.                               *)
THEOREM CheckpointStandsForJournal == Spec => []CheckpointFaithful
BY JournalInvariant, JournalReplays, UsableCheckpoint, PTL
=============================================================================
