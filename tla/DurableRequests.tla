--------------------------- MODULE DurableRequests ---------------------------
(***************************************************************************)
(* src/src/durable_requests.rs: the journal of unfinished attempts, one    *)
(* file of events owned by one process at a time through a file lock.      *)
(*                                                                         *)
(* The file is a sequence of whole lines (log), of which a prefix survives *)
(* a power loss (synced), and maybe a torn last line.  An append is three  *)
(* steps under the writer mutex (admit, write, sync and publish to the     *)
(* cache); opening replays one line per step; the offline tool exports a   *)
(* checkpoint one record per step and replaces the file by it.  A line is  *)
(* its event and a size; scopes and malformed foreign bytes are left out.  *)
(***************************************************************************)
EXTENDS Integers, Sequences, FiniteSets

CONSTANTS
  Caller,      \* requests of the gateway that may begin and complete attempts
  Endpoint,    \* endpoint names
  Limits,      \* values of per_endpoint_limit an instance may be opened with
  MaxPending,  \* MAX_PENDING
  MaxFile,     \* MAX_FILE, in units of size
  Reserve,     \* TERMINAL_RESERVE
  HeaderSize, BeginSize, CompleteSize,        \* sizes of the lines
  CheckpointSize, RestoreSize, EndSize,
  None,        \* nobody
  MaxId        \* bound of the model: identities ever issued

ASSUME LimitsAssumption == Limits \subseteq 1 .. MaxPending /\ MaxPending \in Nat

(* "Covers the complete-event JSON encoding with a maximum-width identity" *)
ASSUME SizesAssumption ==
  /\ {MaxFile, Reserve, HeaderSize, BeginSize, CompleteSize,
      CheckpointSize, RestoreSize, EndSize} \subseteq Nat \ {0}
  /\ CompleteSize <= Reserve
  /\ HeaderSize <= MaxFile

ASSUME CallersAssumption == None \notin Caller /\ MaxId \in Nat

VARIABLES
  log,       \* the whole lines of the file
  torn,      \* the file ends in a part of a line
  synced,    \* how many lines survive a power loss
  instance,  \* who has the file open: "none", "replaying", "gateway" or "tool"
  limit,     \* per_endpoint_limit of the instance
  cursor,    \* lines replayed by open()
  section,   \* checkpoint_allowed / checkpoint_active of open()
  cache,     \* DurableRequests.cache
  writer,    \* DurableRequests.writer: length and last_id
  healthy,   \* DurableRequests.healthy
  append,    \* the append in progress under the writer mutex
  pc,        \* pc[c]: "idle", "appending", "held" or "validated"
  attempt,   \* attempt[c]: the identity caller c was given
  target,    \* the checkpoint the tool writes
  issued,    \* history: identities begin() returned, so possibly dispatched
  validated, \* history: identities whose response was validated
  widest     \* history: the largest limit a gateway was opened with

File == <<log, torn, synced>>
Memory == <<limit, cursor, section, cache, writer, healthy>>
Callers == <<append, pc, attempt>>
History == <<issued, validated, widest>>
vars == <<File, instance, Memory, Callers, target, History>>

Header == [event |-> "header"]
BeginEvent(i, e) == [event |-> "begin", id |-> i, endpoint |-> e]
CompleteEvent(i) == [event |-> "complete", id |-> i]
CheckpointEvent(b, c) == [event |-> "checkpoint", begun |-> b, completed |-> c]
RestoreEvent(i, e) == [event |-> "restore", id |-> i, endpoint |-> e]
CheckpointEnd == [event |-> "checkpoint_end"]

Size(ev) ==
  CASE ev.event = "header" -> HeaderSize
    [] ev.event = "begin" -> BeginSize
    [] ev.event = "complete" -> CompleteSize
    [] ev.event = "checkpoint" -> CheckpointSize
    [] ev.event = "restore" -> RestoreSize
    [] ev.event = "checkpoint_end" -> EndSize

EmptyCache ==
  [unresolved |-> [i \in {} |-> None], byEndpoint |-> [e \in Endpoint |-> 0],
   begun |-> 0, completed |-> 0]

Pending(k) == DOMAIN k.unresolved

(* Cache::begin, and what replay of a restore line does to the cache. *)
Insert(k, i, e) ==
  [unresolved |-> [j \in Pending(k) \cup {i} |-> IF j = i THEN e ELSE k.unresolved[j]],
   byEndpoint |-> [k.byEndpoint EXCEPT ![e] = @ + 1],
   begun |-> k.begun, completed |-> k.completed]
CacheBegin(k, i, e) == [Insert(k, i, e) EXCEPT !.begun = i]

(* Cache::complete *)
CacheComplete(k, i) ==
  [unresolved |-> [j \in Pending(k) \ {i} |-> k.unresolved[j]],
   byEndpoint |-> [k.byEndpoint EXCEPT ![k.unresolved[i]] = @ - 1],
   begun |-> k.begun, completed |-> k.completed + 1]

(* The limits that begin() and replay check before an attempt is added. *)
RoomFor(k, e) ==
  /\ Cardinality(Pending(k)) < MaxPending
  /\ k.byEndpoint[e] < limit

NoAppend == [by |-> None, event |-> Header, stage |-> "write"]
NoTarget == [lines |-> <<>>, length |-> 0, last |-> 0, done |-> FALSE]

Init ==
  /\ log = <<>> /\ torn = FALSE /\ synced = 0
  /\ instance = "none"
  /\ limit \in Limits
  /\ cursor = 0 /\ section = "header"
  /\ cache = EmptyCache
  /\ writer = [length |-> 0, lastId |-> 0]
  /\ healthy = FALSE
  /\ append = NoAppend
  /\ pc = [c \in Caller |-> "idle"]
  /\ attempt = [c \in Caller |-> 0]
  /\ target = NoTarget
  /\ issued = {} /\ validated = {} /\ widest = 0

-----------------------------------------------------------------------------
(* initialize: create_new, then the header.  What a failure leaves is a    *)
(* torn file that is never replaced.                                       *)
Initialize ==
  /\ log = <<>> /\ ~torn
  /\ \/ log' = <<Header>> /\ synced' = 1 /\ UNCHANGED torn
     \/ torn' = TRUE /\ UNCHANGED <<log, synced>>
  /\ UNCHANGED <<instance, Memory, Callers, target, History>>

(* open: the file lock admits one process; then it reads line by line. *)
Open(n) ==
  /\ instance = "none"
  /\ log # <<>> \/ torn
  /\ instance' = "replaying"
  /\ limit' = n
  /\ UNCHANGED <<File, cursor, section, cache, writer, healthy, Callers, target, History>>

(* What open() accepts as the next line, by the part of the file it is in. *)
Accepts(ev) ==
  \/ ev.event = "header" /\ section = "header"
  \/ /\ ev.event = "checkpoint" /\ section = "fresh"
     /\ ev.completed <= ev.begun
  \/ /\ ev.event = "restore" /\ section = "checkpoint"
     /\ ev.id \in (1 .. cache.begun) \ Pending(cache)
     /\ RoomFor(cache, ev.endpoint)
  \/ /\ ev.event = "checkpoint_end" /\ section = "checkpoint"
     /\ cache.completed + Cardinality(Pending(cache)) = cache.begun
  \/ /\ ev.event = "begin" /\ section \in {"fresh", "running"}
     /\ ev.id = cache.begun + 1
     /\ RoomFor(cache, ev.endpoint)
  \/ /\ ev.event = "complete" /\ section \in {"fresh", "running"}
     /\ ev.id \in Pending(cache)

SectionAfter(ev) ==
  CASE ev.event = "header" -> "fresh"
    [] ev.event \in {"checkpoint", "restore"} -> "checkpoint"
    [] OTHER -> "running"

CacheAfter(ev) ==
  CASE ev.event = "checkpoint" ->
         [unresolved |-> cache.unresolved, byEndpoint |-> cache.byEndpoint,
          begun |-> ev.begun, completed |-> ev.completed]
    [] ev.event = "restore" -> Insert(cache, ev.id, ev.endpoint)
    [] ev.event = "begin" -> CacheBegin(cache, ev.id, ev.endpoint)
    [] ev.event = "complete" -> CacheComplete(cache, ev.id)
    [] OTHER -> cache

(* What a process that is gone leaves of its memory. *)
Forgotten ==
  /\ cursor' = 0 /\ section' = "header"
  /\ cache' = EmptyCache
  /\ writer' = [length |-> 0, lastId |-> 0]
  /\ healthy' = FALSE

ReplayLine ==
  /\ instance = "replaying"
  /\ cursor < Len(log)
  /\ LET ev == log[cursor + 1]
     IN /\ Accepts(ev)
        /\ cache' = CacheAfter(ev)
        /\ section' = SectionAfter(ev)
        /\ writer' = [writer EXCEPT !.length = @ + Size(ev)]
  /\ cursor' = cursor + 1
  /\ UNCHANGED <<File, instance, limit, healthy, Callers, target, History>>

(* The checks after the last line. *)
Openable ==
  /\ ~torn
  /\ section \in {"fresh", "running"}
  /\ writer.length + Cardinality(Pending(cache)) * Reserve <= MaxFile

OpenRefused ==
  /\ instance = "replaying"
  /\ IF cursor < Len(log) THEN ~Accepts(log[cursor + 1]) ELSE ~Openable
  /\ instance' = "none"
  /\ Forgotten
  /\ UNCHANGED <<File, limit, Callers, target, History>>

BugOpenedForgetsId(who) ==
  /\ instance = "replaying"
  /\ cursor = Len(log)
  /\ Openable
  /\ instance' = who
  /\ healthy' = TRUE
  /\ widest' = IF who = "gateway" /\ limit > widest THEN limit ELSE widest
  /\ UNCHANGED <<File, limit, cursor, section, cache, writer, Callers, target, issued, validated>>

Opened(who) ==
  /\ instance = "replaying"
  /\ cursor = Len(log)
  /\ Openable
  /\ instance' = who
  /\ writer' = [writer EXCEPT !.lastId = cache.begun]
  /\ healthy' = TRUE
  /\ widest' = IF who = "gateway" /\ limit > widest THEN limit ELSE widest
  /\ UNCHANGED <<File, limit, cursor, section, cache, Callers, target, issued, validated>>

-----------------------------------------------------------------------------
(* The writer mutex is free in an instance whose last append succeeded. *)
Writable == instance = "gateway" /\ append.by = None /\ healthy

(* "Existing completions must remain writable": a begin leaves room for a  *)
(* terminal line of each pending attempt and of itself.                    *)
Headroom(e) ==
  writer.length + BeginSize + (Cardinality(Pending(cache)) + 1) * Reserve <= MaxFile

(* begin(), up to the write; each refusal is an early return. *)
StartBegin(c, e) ==
  /\ Writable
  /\ pc[c] = "idle"
  /\ RoomFor(cache, e)
  /\ writer.lastId < MaxId
  /\ Headroom(e)
  /\ append' = [by |-> c, event |-> BeginEvent(writer.lastId + 1, e), stage |-> "write"]
  /\ pc' = [pc EXCEPT ![c] = "appending"]
  /\ UNCHANGED <<File, instance, Memory, attempt, target, History>>

BugCompleteUnvalidated(c) ==
  /\ Writable
  /\ pc[c] \in {"held", "validated"}
  /\ attempt[c] \in Pending(cache)
  /\ writer.length + CompleteSize <= MaxFile
  /\ append' = [by |-> c, event |-> CompleteEvent(attempt[c]), stage |-> "write"]
  /\ pc' = [pc EXCEPT ![c] = "appending"]
  /\ UNCHANGED <<File, instance, Memory, attempt, target, History>>

(* complete(), up to the write: only after the response was validated. *)
StartComplete(c) ==
  /\ Writable
  /\ pc[c] = "validated"
  /\ attempt[c] \in Pending(cache)
  /\ writer.length + CompleteSize <= MaxFile
  /\ append' = [by |-> c, event |-> CompleteEvent(attempt[c]), stage |-> "write"]
  /\ pc' = [pc EXCEPT ![c] = "appending"]
  /\ UNCHANGED <<File, instance, Memory, attempt, target, History>>

WriteLine ==
  /\ append.by # None
  /\ append.stage = "write"
  /\ log' = Append(log, append.event)
  /\ append' = [append EXCEPT !.stage = "sync"]
  /\ UNCHANGED <<torn, synced, instance, Memory, pc, attempt, target, History>>

BugAppendFailsHealthy ==
  /\ append.by # None
  /\ torn' \in IF append.stage = "write" THEN BOOLEAN ELSE {torn}
  /\ append' = NoAppend
  /\ pc' = [pc EXCEPT ![append.by] = "idle"]
  /\ attempt' = [attempt EXCEPT ![append.by] = 0]
  /\ UNCHANGED <<log, synced, instance, Memory, target, History>>

(* The write stops before or within the line, or the sync fails after it:  *)
(* the outcome is uncertain, and the instance appends nothing more.        *)
AppendFails ==
  /\ append.by # None
  /\ torn' \in IF append.stage = "write" THEN BOOLEAN ELSE {torn}
  /\ healthy' = FALSE
  /\ append' = NoAppend
  /\ pc' = [pc EXCEPT ![append.by] = "idle"]
  /\ attempt' = [attempt EXCEPT ![append.by] = 0]
  /\ UNCHANGED <<log, synced, instance, limit, cursor, section, cache, writer,
                 target, History>>

(* The sync returns: length, last_id and the cache follow, and the mutex   *)
(* is released.  A begin hands its identity to the caller.                 *)
BeginDone ==
  LET c == append.by
      ev == append.event
  IN /\ c # None /\ append.stage = "sync" /\ ev.event = "begin"
     /\ synced' = Len(log)
     /\ writer' = [length |-> writer.length + BeginSize, lastId |-> ev.id]
     /\ cache' = CacheBegin(cache, ev.id, ev.endpoint)
     /\ append' = NoAppend
     /\ pc' = [pc EXCEPT ![c] = "held"]
     /\ attempt' = [attempt EXCEPT ![c] = ev.id]
     /\ issued' = issued \cup {ev.id}
     /\ UNCHANGED <<log, torn, instance, limit, cursor, section, healthy, target,
                    validated, widest>>

CompleteDone ==
  LET c == append.by
      ev == append.event
  IN /\ c # None /\ append.stage = "sync" /\ ev.event = "complete"
     /\ synced' = Len(log)
     /\ writer' = [writer EXCEPT !.length = @ + CompleteSize]
     /\ cache' = CacheComplete(cache, ev.id)
     /\ append' = NoAppend
     /\ pc' = [pc EXCEPT ![c] = "idle"]
     /\ attempt' = [attempt EXCEPT ![c] = 0]
     /\ UNCHANGED <<log, torn, instance, limit, cursor, section, healthy, target, History>>

(* The caller dispatched the attempt and its whole response was validated. *)
Validate(c) ==
  /\ pc[c] = "held"
  /\ pc' = [pc EXCEPT ![c] = "validated"]
  /\ validated' = validated \cup {attempt[c]}
  /\ UNCHANGED <<File, instance, Memory, append, attempt, target, issued, widest>>

(* The caller is gone (timeout, cancellation, a refused completion): its   *)
(* identity stays unresolved and nobody holds it.                          *)
GiveUp(c) ==
  /\ pc[c] \in {"held", "validated"}
  /\ pc' = [pc EXCEPT ![c] = "idle"]
  /\ attempt' = [attempt EXCEPT ![c] = 0]
  /\ UNCHANGED <<File, instance, Memory, append, target, History>>

-----------------------------------------------------------------------------
(* export_checkpoint, by the offline tool: emit() keeps the terminal       *)
(* headroom of the new file, or the export fails and is never published.   *)
Fits(size) ==
  target.length + size + Cardinality(Pending(cache)) * Reserve <= MaxFile

Emit(ev, last) ==
  target' = [lines |-> Append(target.lines, ev), length |-> target.length + Size(ev),
             last |-> last, done |-> ev.event = "checkpoint_end"]

Exporting == instance = "tool" /\ healthy /\ ~target.done

ExportHead ==
  /\ Exporting
  /\ \/ target.lines = <<>> /\ Fits(HeaderSize) /\ Emit(Header, 0)
     \/ /\ Len(target.lines) = 1 /\ Fits(CheckpointSize)
        /\ Emit(CheckpointEvent(cache.begun, cache.completed), 0)
  /\ UNCHANGED <<File, instance, Memory, Callers, History>>

BugRemainingSkips == {i \in Pending(cache) : i > target.last + 1}

Remaining == {i \in Pending(cache) : i > target.last}

ExportRestore ==
  /\ Exporting
  /\ Len(target.lines) >= 2
  /\ \E i \in Remaining :
       /\ \A j \in Remaining : i <= j
       /\ Fits(RestoreSize)
       /\ Emit(RestoreEvent(i, cache.unresolved[i]), i)
  /\ UNCHANGED <<File, instance, Memory, Callers, History>>

ExportEnd ==
  /\ Exporting
  /\ Len(target.lines) >= 2
  /\ Remaining = {}
  /\ Fits(EndSize)
  /\ Emit(CheckpointEnd, target.last)
  /\ UNCHANGED <<File, instance, Memory, Callers, History>>

(* braess-journal-compact renames the synced checkpoint over the journal   *)
(* and exits.  Its replay of the checkpoint, which may refuse to publish,  *)
(* is left out: that it never does is what CheckpointFaithful says.        *)
Publish ==
  /\ instance = "tool"
  /\ target.done
  /\ log' = target.lines
  /\ synced' = Len(target.lines)
  /\ torn' = FALSE
  /\ instance' = "none"
  /\ target' = NoTarget
  /\ Forgotten
  /\ UNCHANGED <<limit, Callers, History>>

-----------------------------------------------------------------------------
Gone ==
  /\ instance' = "none"
  /\ append' = NoAppend
  /\ pc' = [c \in Caller |-> "idle"]
  /\ attempt' = [c \in Caller |-> 0]
  /\ target' = NoTarget
  /\ Forgotten
  /\ UNCHANGED <<limit, History>>

Writing == append.by # None /\ append.stage = "write"

(* The process dies, maybe inside a write; the kernel keeps its lines. *)
Exit ==
  /\ instance # "none"
  /\ torn' \in IF Writing THEN BOOLEAN ELSE {torn}
  /\ UNCHANGED <<log, synced>>
  /\ Gone

(* The machine stops: lines no sync covered are lost, or torn. *)
PowerLoss ==
  /\ \E kept \in synced .. Len(log) :
       /\ log' = SubSeq(log, 1, kept)
       /\ torn' \in IF kept < Len(log) \/ torn \/ Writing THEN BOOLEAN ELSE {FALSE}
       /\ synced' = kept
  /\ Gone

Next ==
  \/ Initialize
  \/ \E n \in Limits : Open(n)
  \/ ReplayLine
  \/ OpenRefused
  \/ \E who \in {"gateway", "tool"} : Opened(who)
  \/ \E c \in Caller :
       \/ \E e \in Endpoint : StartBegin(c, e)
       \/ StartComplete(c)
       \/ Validate(c)
       \/ GiveUp(c)
  \/ WriteLine
  \/ AppendFails
  \/ BeginDone
  \/ CompleteDone
  \/ ExportHead
  \/ ExportRestore
  \/ ExportEnd
  \/ Publish
  \/ Exit
  \/ PowerLoss

Spec == Init /\ [][Next]_vars

-----------------------------------------------------------------------------
Event ==
  {Header, CheckpointEnd}
  \cup {BeginEvent(i, e) : i \in 1 .. MaxId, e \in Endpoint}
  \cup {CompleteEvent(i) : i \in 1 .. MaxId}
  \cup {CheckpointEvent(b, c) : b \in 0 .. MaxId, c \in 0 .. MaxId}
  \cup {RestoreEvent(i, e) : i \in 1 .. MaxId, e \in Endpoint}

(* Types, and the writer mutex: one caller appends, and is in an append. *)
TypeOK ==
  /\ log \in Seq(Event) /\ target.lines \in Seq(Event)
  /\ torn \in BOOLEAN /\ healthy \in BOOLEAN
  /\ synced \in 0 .. Len(log)
  /\ instance \in {"none", "replaying", "gateway", "tool"}
  /\ limit \in Limits /\ widest \in Limits \cup {0}
  /\ cursor \in 0 .. Len(log)
  /\ section \in {"header", "fresh", "checkpoint", "running"}
  /\ Pending(cache) \subseteq 1 .. MaxId
  /\ \A i \in Pending(cache) : cache.unresolved[i] \in Endpoint
  /\ cache.byEndpoint \in [Endpoint -> Nat]
  /\ cache.begun \in 0 .. MaxId /\ cache.completed \in 0 .. MaxId
  /\ writer.length \in 0 .. MaxFile /\ writer.lastId \in 0 .. MaxId
  /\ pc \in [Caller -> {"idle", "appending", "held", "validated"}]
  /\ attempt \in [Caller -> 0 .. MaxId]
  /\ \A c \in Caller : pc[c] = "appending" <=> append.by = c
  /\ issued \subseteq 1 .. MaxId /\ validated \subseteq issued

Running == instance \in {"gateway", "tool"}
Written == append.by # None /\ append.stage = "sync"

(* What lines s say: the attempts begun, or restored, and not completed.   *)
Ids(s, kinds) == {s[n].id : n \in {m \in DOMAIN s : s[m].event \in kinds}}
Unfinished(s) == Ids(s, {"begin", "restore"}) \ Ids(s, {"complete"})

(* "Only validated response completion may append a terminal record": an   *)
(* attempt that may have been dispatched and was not validated is in every *)
(* prefix of the file a crash can leave, in every checkpoint that replaced *)
(* it, and in the memory of every instance, whatever failed before.        *)
UncertainRetained ==
  /\ \A kept \in synced .. Len(log) :
       issued \ validated \subseteq Unfinished(SubSeq(log, 1, kept))
  /\ Running => issued \ validated \subseteq Pending(cache)

(* begin() never returns an identity twice, in any process or checkpoint.  *)
IssuedOnce ==
  /\ append.by # None /\ append.event.event = "begin" => append.event.id \notin issued
  /\ instance = "gateway" => \A i \in issued : i <= writer.lastId

Count(s, kind) == Cardinality({n \in DOMAIN s : s[n].event = kind})

SizeOf(s) ==
  Count(s, "header") * HeaderSize + Count(s, "begin") * BeginSize
  + Count(s, "complete") * CompleteSize + Count(s, "checkpoint") * CheckpointSize
  + Count(s, "restore") * RestoreSize + Count(s, "checkpoint_end") * EndSize

(* "Existing completions must remain writable even when new admission is   *)
(* refused at the file limit": every pending attempt keeps its reserve of  *)
(* the real file, with the appends of others in between and after every    *)
(* reopening and checkpoint.                                               *)
TerminalHeadroom ==
  Running /\ healthy /\ ~Written =>
    /\ writer.length = SizeOf(log)
    /\ writer.length
       + Cardinality(Pending(cache) \ {i \in Pending(cache) :
                        append.by # None /\ append.event = CompleteEvent(i)}) * Reserve
       <= MaxFile

(* What admission control and the status endpoint read is what the file    *)
(* says, but for the append in progress: pending attempts, their number    *)
(* per endpoint (so complete() finds its count), and totals that conserve. *)
CacheTruthful ==
  Running /\ healthy /\ ~Written =>
    /\ Pending(cache) = Unfinished(log)
    /\ \A e \in Endpoint : cache.byEndpoint[e] =
         Cardinality({i \in Pending(cache) : cache.unresolved[i] = e})
    /\ cache.completed + Cardinality(Pending(cache)) = cache.begun

(* The journal never locks its own successor out: a file without a torn    *)
(* line, whatever failed while it was written and whatever prefix a crash  *)
(* left, is opened by any instance whose limit is not below the limits it  *)
(* was written with.                                                       *)
NeverLocksItselfOut ==
  instance = "replaying" /\ ~torn /\ limit >= widest =>
    IF cursor < Len(log) THEN Accepts(log[cursor + 1]) ELSE Openable

(* The journal stays usable: memory is what the file says, every pending   *)
(* attempt can still be completed, and the next process can open the file. *)
JournalUsable == TypeOK /\ CacheTruthful /\ TerminalHeadroom /\ NeverLocksItselfOut

(* A finished checkpoint stands for the journal: the same pending attempts *)
(* at the same endpoints in the order of their identities, the same totals *)
(* and room to complete them.                                              *)
CheckpointFaithful ==
  target.done =>
    /\ Unfinished(target.lines) = Pending(cache)
    /\ target.lines[2] = CheckpointEvent(cache.begun, cache.completed)
    /\ \A n \in 3 .. Len(target.lines) - 1 :
         /\ target.lines[n].endpoint = cache.unresolved[target.lines[n].id]
         /\ n > 3 => target.lines[n - 1].id < target.lines[n].id
    /\ SizeOf(target.lines) + Cardinality(Pending(cache)) * Reserve <= MaxFile
=============================================================================
