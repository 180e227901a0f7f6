# A verification of braess-router

`braess-router` is a request gateway. It asks a remote decision service
("Jev") which route a request should take, checks the answer against a local
policy, and sends the request to one endpoint of that route or answers with a
local fallback. Its promises are about limits and evidence: it never admits,
dispatches or spends more than configured, and it never forgets work that an
upstream may still be doing. Around the router, the Python of `demo/` and
`scripts/` runs fleets of paid review calls through it, records what they
observed, and turns the record into evidence that people read. Its promises are
of the same kind: no call without a reservation and a record, no published file
that speaks of something else than what was run.

These promises have to survive cancelled requests, deadlines, blocking tasks
that outlive their request, failed and torn writes, files that somebody edits
meanwhile, and the death of the process or of the machine. This directory
states them in TLA+, checks them with TLC on small instances, and proves the
most important ones for every value of the constants.

## The system

| Component | State | Operations | What is hard | What makes it correct |
|---|---|---|---|---|
| Request ledger (`request_ledger.rs`) | records by sequence number, totals, behind a mutex | `try_admit`, `mark_dispatched`, `response_received`, `Drop`, `acknowledge_backend_completion`, `snapshot` | the destructor reads the clock before it has the mutex; two limits; lazy expiry | no charge without owner or evidence, limits, conservation of totals, no early expiry |
| Durable budget (`durable_budget.rs`) | a file with one byte per call, an advisory lock, a cached count, a health flag | `initialize`, `open`, `reserve`, `used` | a failed sync leaves an uncertain byte; two processes; power loss | never more grants than the limit in the life of the file; durable before granted |
| Rate limiter (`rate_limit.rs`) | pending slots, queue of dispatch times, start time | `try_reserve`, `commit`, `Drop`, `snapshot` | a restart forgets the queue; leases held across the window | the rate holds over real time, across restarts; honest retry hints |
| Request journal (`durable_requests.rs`) | an append-only file, a writer (length, last id), a cache of pending attempts, a health flag | `initialize`, `open` (replay), `begin`, `complete`, `checkpoint_to`, `pending`, `snapshot` | torn lines, failed syncs, full file, crash at each step, replacement by a checkpoint | no uncertain attempt is lost, identities are never reused, its own files are accepted, completions always fit |
| Gateway (`gateway.rs`, `ledger_http.rs`) | ledgers of Jev and of each handler endpoint, `awaiting_journal`, selector mutex, `durable_slots` semaphore, outcome counters | `execute` | every await point is a place to be cancelled; reads before an await are used after it; detached tasks | dispatch only after budget and journal; answer only after completion; exact reservations; every request ends |
| Router process (`bin/braess-router.rs`) | ingress semaphore | `bound_request`, routes, shutdown | its deadline races the gateway's | bounded concurrency |
| Compaction tool (`bin/braess-journal-compact.rs`) | journal, archive, checkpoint, locks on journal and budget | compact, migrate, inspect | crash between link, rename and sync | one replayable journal at every point |
| Decision gate and routing trace (`lib.rs`, `demo/routing_trace.py`) | the trace of one request | `gate`, the boundaries noted by `execute_inner`, the observer's `validate` | two judges in two languages; a request may end anywhere | the observer accepts every trace the router can write |
| Generation adapter (`generation/`) | admission slots, its own journal | `generate`, `models`, replay | completion in a task that survives its request | as for the gateway and the journal |
| Run budget (`demo/budget.py`) | a SQLite ledger: policy, reservations, receipts, frozen flag | `create`, `reserve`, `settle`, `inspect` | processes that share it; receipts late, repeated or too high | caps hold over unresolved and settled rows; rows are final |
| Observer recording (`demo/recording.py`) | a hash-chained file and its seal, task states, a poisoned flag | `append`, `close`, `verify` | torn and failed appends, a crash while sealing | what verifies is what was acknowledged |
| Observer and fleet (`demo/observe.py`, `demo/fleet.py`) | futures of a thread pool, private artifacts, `result.json` | `run`, `observe`, `accept` | two workers, one recorder; an exception in one of them | paid and recorded before sent; artifacts before the event; a result only for a complete record |
| Pilot plan and coordinator (`demo/pilot_plan.py`, `demo/pilot_run.py`) | plan directories, a claim, two child services, a summary | `create`, `verify`, `run` | two coordinators; edits between checks; a crash after the claim | one attempt per plan; a fleet only on the evidence that its claim names |
| Evidence tools (`demo/package_replay.py`, `adjudication.py`, `review_link.py`, `vision_link.py`, `private_replay.py`, `run_metrics.py`, `scripts/validate_local.py`, `verify_evidence.py`) | the files they read and publish | prepare, seal, package, validate, verify | files edited between two readings; a tool that dies between two writes | what is accepted is of one run, of one queue, of one checkout |
| Review, OCR and redaction (`demo/ocr.py`, `ocr_evidence.py`, `review.py`) | none | import, validate, redact | offsets, overlapping ranges | spans are traceable to words; redaction removes exactly what was approved |
| Pricing quote (`demo/pricing_quote.py`) | none | `endpoint_quote`, `plan` | rounding; a price dimension left out; stale evidence | the reservation covers the dearest admissible call |
| Corpus preparation (`demo/corpus.py`, `prepare_review.py`) | sample and exceptions | select, prepare | limits and duplicates end the scan in different places | every row is sampled or a visible exception |
| Media inventory and plan (`demo/media.py`, `probe_images.py`, `media_plan.py`) | stored objects, receipts | scan, probe, plan | an archive cut anywhere; files edited between the tools | every member has one stage, backed by receipts of its bytes |
| Simulator (`simulation.rs`), mock backend (`admission.rs`), `local_http.rs` | event queue; slots; connection permits | | ordering of simultaneous events; permits | conservation, determinism, bounds |

How they interact. `bound_request` takes an ingress permit and calls
`Gateway::execute`. That checks the journal's pending count, admits an attempt
to the Jev ledger, takes a rate lease, spends a byte of the budget and begins a
journal entry (both in blocking tasks that hold a `durable_slots` permit),
commits the lease and sends. A validated response ends the attempt in the
ledger and then, in another task, in the journal. A handler endpoint is chosen
under the selector mutex from ledger load, journal load and `awaiting_journal`;
begin, send, validate and complete follow as for Jev. Any await may be where the
future is dropped: the values it owns are dropped there, and a running blocking
task goes on by itself.

A document reaches the router from the other side. Corpus preparation, OCR and
the media plan produce a bundle of tasks; a pricing quote says how much one task
may cost; `pilot_plan.py` binds bundle, prices and binaries into a plan.
`pilot_run.py` verifies it, claims it, starts an adapter and a gateway on two
loopback ports, verifies again and calls the fleet. Each worker of the fleet
reserves in the run budget, appends to the one recording, posts to the gateway,
judges the trace of the reply as the gate did, stores answer and review and
appends the end of its task. The evidence tools read the sealed recording, its
replay, the findings and the decisions of a human, and publish them.

## Modules

- **`AttemptLifecycle`** is the abstract ledger: the life of each attempt
  (`new`, `held`, `sent`, then `received`, or `uncertain`, `lapsed`,
  `acknowledged`; or `not_sent`) and the two limits.
- **`RequestLedger`** is `request_ledger.rs`. One action per operation under the
  mutex; the destructor is `BeginDrop` (clock read, owner gone) followed later
  by `AbandonUncertain` or `AbandonNotSent` (mutex taken). Every action that the
  code starts with `expire` contains `Expire`. `sent` and `fate` are history.
  `ImplementsLifecycle` is the refinement of `AttemptLifecycle`.
- **`DurableBudget`** is `durable_budget.rs`: processes that open, lock and
  close the file, workers that reserve (the writer mutex from the check to the
  count), write, sync, and count. `Exit` is the death of a process,
  `PowerLoss` that of the machine: bytes no sync covered may be gone.
- **`RateLimiter`** is `rate_limit.rs` with the process that owns it (`Start`,
  `Stop`). `dispatched` is a history across processes.
- **`DurableRequests`** is `durable_requests.rs`. `Open` starts a replay that
  `ReplayLine` takes one line at a time, each accepted only under the conditions
  of `open`'s match; `OpenRefused` and `Opened` end it. An append is
  `StartBegin`/`StartComplete`, `WriteLine`, and `BeginDone`/`CompleteDone` or
  `AppendFails`, with the writer mutex held between. Lines have symbolic sizes.
  The `Export` actions are `export_checkpoint`, and `Publish` is the rename of
  `braess-journal-compact`, as the journal sees it.
- **`Compaction`** is that tool beside routers, at the level of files, names and
  locks. A file is what its replay says (`scope`, `last`, `pending`) and how far it
  is written; a name denotes a file; a lock belongs to the file. `OpenBudget`,
  `OpenJournal` and `LockJournal` are the start of every process, in the order of
  `Gateway::new`, `inspect` and `rewrite`; the path is looked up in one step and
  the file locked in another. Then follow the steps of `rewrite`
  (`CreateCheckpoint`, `WriteCheckpoint`, `SyncCheckpoint`, `SyncDirectory`,
  `LinkArchive`, `VerifyCheckpoint`, `Replace`); `Leave` is an end at any of them. `old`
  is the set of directories that a power loss may leave: `DirectoryOp` lets each
  unsynced change of an entry survive or not, `SyncDirectory` leaves one.
- **`Gateway`** composes them as `execute` does. A request has a phase; the
  phases that wait are named for the task they wait for. `Spawn` takes a permit,
  `RunBudget`, `RunBegin` and `RunComplete` are the tasks, `End` is every way out
  of `execute` (with the drops it causes). Ledgers, budget and journal are
  abstracted to what the gateway sees of them: counts, results, failure modes.
- **`Generation`** is the generation adapter with its journal and ingress, one
  module because they share one mutex. `Arrive` spawns the task that begins;
  `StartAppend` or `Refused` is that task when it has the mutex; `WriteLine`,
  `Appended` and `AppendFails` are the append; `Send`, `Validate` and `Answer` are
  `execute_inner` between its awaits; `Fail` is every other way out. Replay is
  stated as a predicate on the file (`Accepted`), since it is one read under an
  exclusive lock.
- **`RunBudget`** is `budget.py`: `create` in two steps (`BeginCreate`,
  `FinishCreate`: the file exists before its policy does). A reservation is two steps
  of one transaction: `BeginReserve` reads the row and the totals into `view`, and
  `Reserve` judges and inserts by what was read; a refusal, an exception or a death in
  between is `RollBack`. `NoWriter` is `BEGIN IMMEDIATE`: no transaction begins while
  another is open. `Settle` is one step.
- **`Recording`** is `recording.py` as operators over the file, the seal and the
  recorder's memory: an append is acknowledged, refused before it wrote, or
  fails with no line, a torn line or a whole one; a seal is whole, torn or
  missing. A hash of an event is the sequence of events up to it.
- **`ReviewFleet`** extends both and adds `fleet.py` and `observe.py`: the main
  thread from the queueing of tasks to the result, each worker from its
  reservation to its end, what `except` catches (`Unreadable`) and what passes
  it (`Escapes`), lost artifacts, a crash at any step, and other processes at
  the ledger. A task has at most one worker; `Workers` bounds how many run.
- **`PilotRun`** is `pilot_plan.py` and `pilot_run.py` for several invocations
  side by side: preflight, ports, claim, both services, the recheck, the fleet
  as one step, the stop of the children and the summary, with edits and crashes
  in between.
- **`EvidenceChain`** has the files of a run as version numbers and the tools as
  programs of readings, comparisons and writes over them, so that an edit or an
  interruption may fall between any two.
- **`ReviewSpans`**, **`DecisionTrace`**, **`PricingQuote`**,
  **`CorpusSample`** and **`MediaPlan`** are the remaining tools, each a short
  machine that takes any input from small sets through the code's checks.
  **`Places`** is what `ReviewSpans` and `MediaPlan` share: a sequence's values
  at some of its places.
- **`MCReview`** puts these six side by side; a behaviour is about one of them,
  its `subject`, so that one run checks them all. `MCPaidCalls` does the same for `DurableBudget`
  and `RateLimiter`.
- **`MC*`** modules give TLC its instances and symmetry sets. **`*Proofs`** hold
  theorems.

Type invariants are conjuncts of other checked invariants where one formula
reads better than two: `JournalUsable`, `CapacityBounds`, `CountersExact`,
`SlotsExact` and `EvidenceKept` name their parts in their modules.
`WithinLimits` of the ledger is part of `AttemptLifecycle`, so
`ImplementsLifecycle` checks it.

Operators named `Bug...` are used by no specification. Each is the definition
after it with a plausible mistake, and each property is confirmed to fail when
its mistake is put in place.

## What is model-checked

| Run | Instance | Shows |
|---|---|---|
| `ledger` | limits 2 and 3, TTL 1, 4 attempts, 3 ticks | `OwnedIffActive`, `EvidenceRetained`, `TotalsTruthful`, `NoEarlyExpiry`, and that the ledger implements `AttemptLifecycle` (`ImplementsLifecycle`) |
| `limits` | budget: 2 processes, 2 workers, limit 3; rate: 3 callers, 2 per window of 2 ticks, 8 ticks | `NeverOverspent`, `GrantsDurable`; `WindowCap`, the cap over every window of real time; `SlotsExact`, slots equal leases and exact retry hints |
| `journal` | 2 callers, 2 endpoints, limits 1 and 2, 3 identities, a file of 11 units | `UncertainRetained` in every crash prefix and checkpoint, `IssuedOnce`, `JournalUsable` (headroom, cache agrees with file, its own files are accepted), `CheckpointFaithful` |
| `compaction` | 2 processes, 2 scopes, 4 names, 3 files, 2 identities | `JournalKnowsWork` (`NothingForgotten` and `WorkKeepsScope`), `OriginalsNamed`: the tool's replacement, interrupted anywhere |
| `gateway` | 3 requests, 2 handlers, limits 2, 3 paid calls, 1 crash | `DispatchPaid`, `UncertainRetained`, `CapacityBounds`, `AnsweredIsResolved`, `CountersExact` |
| `gateway_live` | 2 requests, 1 handler, limits 2, 2 paid calls, 1 crash | `EveryRequestEnds`, `PermitsReturn` |
| `generation` | 3 requests, 2 routes, limit 2, 3 calls, a file of 11 units, 2 ends of the process | `EvidenceKept` (uncertain calls retained in every crash prefix, calls never refunded, answers have receipts), `JournalUsable` |
| `fleet` | 2 tasks, 2 workers, 1 attempt of another process, cap 2, 2 attempts, amounts 1 and 2, 10 events, a file of 9 units | `WithinCap`, `RecordTruthful`, `CallsCovered`, `ReviewEvidenced`, `ResultComplete`, `RowsAreFinal`, `FleetEnds` |
| `fleet_doc` | the same with a file of 20 units | a disagreement with FLEET.md, see below |
| `pilot` | 2 invocations, 2 plans, 1 edit of each and 1 rebuild | `OncePerPlan`, `FleetOnClaimedEvidence` |
| `documents` | 3 words of which a map may have 2, a text of 8 bytes, a map of 4 pages and words, 2 findings, 2 pages; a scale of 5; prices on one, two or all dimensions, 3 hours; 2 seed rows, 3 members, limit 2; 3 archive entries, 1 later edit; 1 edit, 3 evidence jobs | `SpansExact` (`SpansTraceable` and `RedactionExact`), `TraceAccepted`, `QuoteCovers`, `SampleAccounted`, `MediaAccounted`, `PublishedOfOneRun` (`PackageOfOneRun` and `AssessmentBinds`), `EvidenceIsCurrent` |
| `media_doc` | the instance of `documents` | a disagreement with MEDIA.md, see below |

Two runs end in a counterexample, each to a sentence of the documentation:

- `fleet_doc`, `ProblemStaysUncertain`. `demo/FLEET.md:12` says that a network or
  handler problem stays uncertain. `observe.py:98` catches `OSError`,
  `ValueError`, `TypeError` and `AttributeError`; an `http.client.HTTPException`
  of the response or a `decimal.InvalidOperation` of a number in it is none of
  them. It leaves the worker and the pool, and the record is sealed with the task
  at `request_started`. No call is lost from the ledger by it, as `CallsCovered`
  shows.
- `media_doc`, `TerminationRecorded`. `demo/MEDIA.md:49` says that the inventory
  records where a partial stream terminated. `media.py:69` assumes `archive_end`
  until `tarfile` raises, and `tarfile` ends its iteration quietly when the bytes
  stop at or in the header of a later entry. Only the comparison of byte counts
  (`native_archive_complete`) tells then.

Why the bounds are enough. `MaxAdmitted`, `MaxTime`, `MaxId`, `MaxCrashes`,
`MaxFile` and `MaxFiles` keep the state spaces finite; they are larger than the limits they
interact with. Four attempts exceed both ledger limits, and three ticks let a
charge lapse, be re-admitted over, and lapse again. Eight ticks are four rate
windows, enough for two processes to cool down and dispatch. Eleven units of
file hold three begins and their completions only if headroom is kept, so
refusals at the limit occur. Three requests with two permits let one request be
refused because of a detached task. One crash of the gateway, at every
point, with a restart and further requests after it, exhibits both sides of a
restart; a second only repeats it. Two ends of the
generation process let a third read what two left behind. Three files are a
journal and two checkpoints, so a second replacement follows a completed or an
interrupted one, with four names that allow archive and checkpoint of the first
to be in its way; two identities allow one that is complete and one that is
pending. Ends and power losses of `compaction` are not bounded.

The fleet has one more attempt than its cap pays for, from another process, so
reservations compete; nine units of file are less than two tasks need, so each
append of each worker is refused in some behaviour, the seal's included, and the
amounts let a receipt exceed its estimate and freeze the ledger. Each of the three attempts
may have read the totals while another reserves or settles, if `NoWriter` lets it. Two invocations
over two plans may meet at one plan or at the ports; one edit can fall
between any two checks of a run. In `documents` the inputs matter more than the
steps: two findings on two words are equal, nested, overlapping, touching or
apart; a text of two words and its separator is within eight bytes or, with letters of two
bytes, over them; a third word is one too many, and pages are too large or not; three
archive entries with two ids and three contents repeat each of them; three members against a limit of two end the scan early, late and exactly
at the limit. One edit of evidence suffices for a wrong mixture of two versions,
and three invocations for a tool, its successor and a repetition.

All runs but `compaction` set `CHECK_DEADLOCK FALSE`, because each of these systems
may rightly stop: clocks and identities run out in the model, a spent budget grants nothing,
a process may stay down, a torn journal is refused for ever, requests end, and
tools exit.

Fairness is used in `gateway_live` and `fleet`. In the first it is weak fairness on what a request
does when its thread runs, on the deadline timer once it is stalled, and on
blocking tasks: the runtime schedules ready futures, fires timers and runs
spawned closures, and the closures block only on the file system. Nothing is
assumed of upstreams or clients, and the process may die and stay down, so
`EveryRequestEnds` does not rely on any response. In `fleet` it is weak fairness
of the main thread and of each worker: the operating system schedules threads,
the request to the gateway and the wait for the database have timeouts, so a
worker that waits gets an answer or an exception. Other processes owe nothing,
and a crash is never forced; `FleetEnds` counts a dead run as ended.

## What is proved

`RequestLedgerProofs` proves, for all limits, TTLs and bounds:

- `OwnersFindTheirRecords`: `[](TypeOK /\ OwnedIffActive)`. The invariant `Shape`
  is inductive: types, and that the Active records are exactly those with a live
  owner or a destructor on its way, which is what keeps `Expire` and
  `Acknowledge` from touching a record that somebody is about to finish.
- `LimitsHold`: `[]WithinLimits`, over `Shape`: expiry only shrinks the charged
  set, and drops move a record between charged states.
- `EvidenceIsRetained`: `[]EvidenceRetained`, over `Shape`.
- `ExpiryIsNeverEarly`: `[]NoEarlyExpiry`, strengthened with the fact that every
  stamp, recorded or in a destructor, is in the past.
- `TotalsAreTruthful`: `[]TotalsTruthful`. Each action moves one attempt from one
  counted set to another, or none (`FateCounts`); `Expire` moves a
  set at once and adds its size to one counter (`ExpireCounts`).
- `LedgerImplementsLifecycle`: the refinement of `AttemptLifecycle`. `PhasesAre`
  computes the abstract phase of an attempt from its record and its history;
  every step of the ledger then moves one attempt (`OneMoves`) after some that
  lapse, or none (`NoneMoves`), as the abstract specification allows.

`PaidCallsProofs` proves, for any number of processes and workers and any
limit, the inductive `Inv` of the durable budget and from it `BudgetNeverOverspent`,
`GrantsAreDurable` and `BudgetNeverRefunded`. `Inv` adds to the properties where
each worker's byte is (not written, written, synced) and that only the
holder of the lock has workers under way. For any number of callers, any limit
and any window it proves of the rate limiter:

- `RateHoldsInEveryWindow`: `[]WindowCap`. `RateInv` says that the queue is the
  end of the history of dispatches in time order, that what was popped is a
  window old or belongs to an earlier process, which cooled down, and that the
  queue and the leases together stay within the limit.
- `SlotsAreExact`: `[]SlotsExact`. `PopsFirst` and `ExpireStops` say which entries
  a later clock value pops; `LeastNatural` gives the last of them.

`DurableRequestsProofs` proves, for any callers, endpoints, limits, sizes and
crashes, over two invariants:

- `JournalInvariant`: `[]Inv`, which ties four places to each other, each a
  conjunct of its own: the file and its synced part (`Filed`), the replay under way
  (`Reading`), the memory of the process (`Remembered`) and the copy being
  exported (`Copied`). Each says what is *unfinished* there, since this is what a crash
  must not lose. `UncertainAttemptsRetained` and `IdentitiesIssuedOnce` follow.
- `JournalReplays`: `[]Usable`. A trace is a sequence of caches, one per
  line, that `open` runs through; file and copy carry one each. An append prolongs
  it, a crash cuts it, a larger limit accepts what a smaller one did
  (`AcceptsWider`), and so every file the system writes is one it can
  open, with the headroom for its completions. `JournalStaysUsable` and
  `CheckpointStandsForJournal` follow: two caches that come from the same lines
  are equal.

`CompactionProofs` proves, for any number of processes, configurations, names, files
and identities, `EvidenceSurvives` (`[]JournalKnowsWork`), `OriginalsSurvive`
(`[]OriginalsNamed`) and `OwnersHoldJournal`: a router appends to the file that the
path denotes, each from `CompactionCorrect`. `CompactionInv` adds to the properties
who is alone (`Held`: whoever is past the budget lock holds it, and the journal
it opened is the one that the path denotes until it replaces it itself), what the
tool has prepared at each of its steps (`Prepared`: where the checkpoint and the
archive are, and that the link is synced before the rename), and that no journal
which a power loss may bring back is torn or ahead of the current one (`Journals`).

`GatewayProofs` proves, for any number of requests, endpoints, paid calls and
crashes, over one invariant of where a request and its task can be (`Shape`:
a running task belongs to the request that waits for it or to one that ended,
and only the holder of the selector is selecting, so the target of a task never
changes):

- `UncertainIsRetained`: `[]UncertainRetained`. The strengthening `Kept` says that
  a begin that returned is in the journal until its request sends, and that
  whoever completes has validated what it completes.
- `DispatchIsPaid`: `[]DispatchPaid`. The requests a call was set aside for
  (`Paid`: granted and not yet dispatched, or dispatched) never outnumber the
  bytes spent; each step but a grant can only shrink that set.
- `CountersAreExact`: `[]CountersExact`, from `OutcomesAreExact`
  (`[]OutcomesAddUp`) and `ReservationsAreExact` (`[]AwaitingExact`), by counting the requests in flight and between selection and
  begin through every action.
- `AnswersAreResolved`: `[]AnsweredIsResolved`. `Accounted` says who may have an
  attempt pending: a request that ended without an answer, or one that works on
  that very endpoint and whose task has not returned.
- `CapacityIsBounded`: `[]CapacityBounds`, from an invariant per counter
  (`JournalBound`, `LedgerBound`, `IngressBound`, and `Remembers` for what
  selection keeps). A count read earlier is never enough; each bound holds since the
  step that adds an attempt looks once more (`ReadyAdmits`), and
  `BusyWithDetached` follows from `IngressBound` and `Shape` by counting.

`GenerationProofs` proves, for any requests, routes, limits, sizes and crashes, the
inductive `GenerationInvariant`. A crash may leave any number of the first lines,
so what the file says is stated for each of its prefixes: `Filed` (in each, the begins
are numbered without a gap and the receipts that it lacks fit), `Booked` (the
accounting of a healthy process is what the file says up to the append under
way), `Appending` (the append under the mutex still has the room it was admitted
with), `Owned` (an attempt has one owner, whose begin is synced) and `Retained`.

- `GenerationEvidenceKept`: `[]EvidenceKept`. That calls are never refunded follows by
  counting: the dispatches map one to one to the begins of the synced lines.
- `GenerationJournalUsable`: `[]JournalUsable`. `LawfulAccepted` shows that `open`
  accepts every lawful file; the headroom is that of `Filed`, plus the reserve that
  `Room` demanded of a begin under way.

`ReviewFleetProofs` proves of the ledger, for every set of attempts and amounts and
every cap:

- `LedgerIsConsistent`: types, receipts only for reservations, that what an open
  transaction has read is still so and no other is open (`ViewsCurrent`, which is what
  `AdmitsNow` needs to judge by it), and `FreezeIsExact`: the ledger is frozen exactly
  when a receipt exceeded its reservation.
- `SpendingIsCapped`: `[]WithinCap`. What is committed is a fold over a set, in an order
  of its own. `SumExists` shows that there is such a sum, `SumSame` that it depends
  on the amounts alone, and `SumAdded` that a member adds its amount wherever it
  comes in the order; each is an induction over the number of members
  (`Induct`, from the well-foundedness of `<`), of which a step of the ledger is then a line of
  arithmetic.
- `LedgerIsFinal`: `[][A]` of `RowsAreFinal`, no reservation, receipt or freeze is
  ever undone.

Of the recording it holds lemmas, one for each thing that can happen to the file,
over `RecordInv`: the file is the acknowledged chain, at most one line longer or
with a torn end, and that only when the recorder is poisoned; a task's state is
its last event. `RecordInv` carries a witness along for the last event of a task
(`HasLast`) instead of deriving it by induction.

It composes both for any number of tasks, workers and other
processes. `FleetInv` joins the invariant of the ledger, `RecordInv`, and what
ties the threads to both: `Paid` (who is past its reservation has a row, who has
sent has its start in the file), `Backed` (who is past storing has its artifacts)
and `Completed` (results are taken only from futures that ended). From it follow
`CallsAreCovered`, `ReviewsAreEvidenced`, `RecordIsTruthful` and
`ResultsAreComplete`. `FleetUsesLedger` shows that a step of the fleet is a step
of `RunBudget` or leaves its variables alone, so `FleetRowsAreFinal` needs no
second proof of finality, and `FleetStaysWithinCap` none of the cap.

Of the quote that the fleet's reservations come from it proves, for every scale,
every price and every offer, `ReservationCovers`: `[]QuoteCovers`. The cost of a usage is a sum over
the dimensions of a price; `SumSmaller` bounds it term by term by the sum at the advertised
capacities, `Rounded` shows that the rounding of the budget is monotone, and `MaxIs` that
the plan reserves the largest of the lanes.

Of the decision it proves, for every set of routes, every threshold and every answer,
`TracesAreAccepted`: `[]TraceAccepted`. Scores are integers and their total is the same for
both judges; that `lib.rs:231` and `routing_trace.py` may add the same floating-point
numbers to different sums at the bound of 0.001 is not modelled. `TraceInv` follows a
request through its boundaries and keeps what was noted in order up to the one it is at;
`SameReason` shows that the gate and the observer, which test the thresholds in code of
their own, name the same first miss.

`PilotRunProofs` proves `PlansRunOnce` and `FleetsRunOnEvidence` for any number of
invocations, plans and edits. `PilotInv` says who may hold a claim (`Claimed`),
when the four durable files exist (`Built`), and that versions only
grow (`Versioned`), so that a recheck that finds the claimed version has
found the claimed content.

Of what a pilot works on and what is made of it, it proves, for every seed file and
archive and for every number of edits and invocations:

- `SamplesAreAccounted`: `[]SampleAccounted`. `SampleInv` has the labels of a document as a
  function of the rows read so far (`LabelsFollow`), and says of each name which member came
  first (`Leads`); what was sampled and what was excluded are the images of those (`Sampled`).
- `MediaIsAccounted`: `[]MediaAccounted`. The i-th of a set of places is the one of rank i;
  ranks run through all numbers (`NthIs`), so places behind the others append what is there
  (`PickedMore`), and the list is the files that were read (`Listed`). `ReceiptIs`: the receipt
  that the plan finds for an image is of its key. A record is of an object whose bytes the
  plan has just hashed, so of none that was altered.
- `SpansAreExact`: `[]SpansExact`. The extractor's map has the intervals, separators and
  pages that the reader asks for (`MapsText`), so it is refused for nothing but a limit of
  size (`WithinLimits`); it does not say that every map is accepted. `SpansInv` adds to the
  map's form that its words hold every letter and no separator, and do not overlap
  (`Worded`). `redact` sorts, joins and cuts in loops; the loops are recursive functions,
  which exist (`StepsExist`), and what each step keeps holds at the end (`StepByStep`, from
  the least number where it would fail). Sorting: `OrderedIs`. Joining: the ranges so far
  are apart, in order, and cover what the spans so far cover (`Joined`, `JoinStep`,
  `RangesIs`). Cutting: up to the end of each range the draft shows what it should
  (`CursorIs`, `CutMore`, `DerivativeIs`).
- `PublicationsAreOfOneRun`: `[]PublishedOfOneRun`, and `AcceptedIsCurrent`:
  `[]EvidenceIsCurrent`. A tool holds readings of several moments. `EvidenceInv` orders them
  (`GotOK`): the readings of one file grow along the script, and are at most what the file holds
  now. An assessment keeps the entries that it was judged on beside the queue that it names.
  Where the code demands that the last equals the first, all between are equal
  (`OneRunAtEnd`, `QueueOfOneRun`, `RanOnSources`), those that were compared with nothing
  included; binaries are squeezed between the sources they were built from and the sources at
  the end (`BuildOK`).

The theorems assume only the named `ASSUME`s of the modules. TLC evaluates those
in each run.

Only model-checked: liveness (`EveryRequestEnds`, `PermitsReturn`, `FleetEnds`),
which the proof system does not handle.

## What is abstracted or left out

- Mutex poisoning, the u64 overflow guards (totals, token sums), and I/O errors that only refuse an
  operation before it changed anything.
- File types and permissions, the syntax of scopes, and, of a migration, the
  comparison of paths and limits, which only refuses.
- In `Gateway`: the configuration without budget or journal, the contents of
  requests and responses, status and readiness reads, and graceful shutdown (a
  cancellation of every request as far as the state is concerned).
- Disks: a write is atomic per byte of the budget and per line of the journal
  except for one torn line at the end; a sync that returns is believed. Of
  SQLite it is believed that `BEGIN IMMEDIATE` keeps other writers out, that a
  transaction that is rolled back or whose process dies leaves nothing, and that a
  commit is durable.
- Sums of floating-point probabilities: an integer total stands for both of them, so
  `TraceAccepted` says nothing of an answer whose sum is within rounding of the bound.
- Hashes never collide: a hash is the content, or its version number. In
  `PilotRun` and `EvidenceChain` versions only grow, so an edit that is later
  undone byte for byte counts as a new content; the code would accept it, and
  no property speaks about it.
- `validate_local.py` has fifteen stages that differ in the command they run;
  `EvidenceChain` has four: the tests, the build, the record of what was
  built, and the end-to-end stages that run it.
- The shapes of JSON, statistics, confidence values, rendering and credentials.

Not modelled: the vision registry and the vision tools (read once, no state that
survives a call), the provider front ends and initialisation tools (configuration
around components that are modelled), the simulator, mock backend, listener,
discovery and evaluation harness (planned, below), the scripts that drive
end-to-end tests, demonstration media and the site (pure input and output).

Known weaknesses that no property covers, because the code promises nothing
else: if the tool is killed, or its last directory sync fails, between the rename
(`braess-journal-compact.rs:82`) and that sync, and a router begins work on the
replacement before anything else syncs the directory, then a power loss may
bring the older journal back without that work (`exposed` in `Compaction`, the
exception in `NothingForgotten`; `docs/OPERATIONS.md:78` claims no guarantee for a
power loss); a journal reopened with a smaller limit is refused
(`durable_requests.rs:115`); a begin that runs after its request was cancelled
counts against its endpoint until an operator acts (`gateway.rs:840`); the health
poll of the pilot believes whatever answers on the port (`pilot_run.py:126`, with
a comment that accepts it); services outlive a killed coordinator
(`pilot_run.py:148`); and two members that share a receipt key, of which the
decoder missed one, make an honest media plan fail (`media_plan.py:36`). The reader of an
OCR map has limits that its writer lacks: a page of 600 dpi in letter format has 33.7 million
pixels, `ocr.py:23` takes it, and `ocr_evidence.py:28` refuses the finished map over
16 million; likewise a text over 2 MiB (`ocr_evidence.py:18`), a map over 16 MiB
(`:19`) and more than 100000 words (`:23`). `ReviewSpans` has these refusals
(`WithinLimits`), and no document promises otherwise.

## Plan

1. Pure algorithms: discovery's acceptance rules, the checks of vision bundles.
2. The simulator with its mock backend and the bounded listener: event order,
   conservation of arrivals, permits.
3. The evaluation harness.
