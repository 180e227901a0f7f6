----------------------------- MODULE RateLimiter -----------------------------
(***************************************************************************)
(* src/src/rate_limit.rs: the sliding-window authorization of dispatches,  *)
(* and the process that owns it, which may die and start again.  Every     *)
(* operation reads the clock inside the mutex and is one action.  Time is  *)
(* counted in milliseconds of the configuration, or any unit that divides  *)
(* the window.                                                             *)
(***************************************************************************)
EXTENDS Integers, Sequences, FiniteSets

CONSTANTS
  Caller,       \* callers; each holds at most one lease at a time
  MaxRequests,  \* RateConfig.max_requests
  Window,       \* RateConfig.window_ms
  MaxTime       \* bound of the model: the last tick of the clock

ASSUME RateAssumption ==
  /\ MaxRequests \in Nat \ {0}
  /\ Window \in Nat \ {0}
  /\ MaxTime \in Nat
  /\ IsFiniteSet(Caller)

VARIABLES
  now,         \* the monotonic clock
  running,     \* a process with a limiter is running
  initialized, \* RateLimiter.initialized
  pending,     \* State.pending
  started,     \* State.started, oldest first
  leases,      \* the callers that hold an uncommitted RateLease
  dispatched   \* history: the times of all commits, in this process and before

rateVars == <<now, running, initialized, pending, started, leases, dispatched>>

RateInit ==
  /\ now = 0
  /\ running = FALSE
  /\ initialized = 0
  /\ pending = 0
  /\ started = <<>>
  /\ leases = {}
  /\ dispatched = <<>>

Tick ==
  /\ now < MaxTime
  /\ now' = now + 1
  /\ UNCHANGED <<running, initialized, pending, started, leases, dispatched>>

-----------------------------------------------------------------------------
(* expire() at clock value t pops the first n entries of s: all of them    *)
(* are a window old, and the entry it stops at, if any, is not.            *)
Stale(start, t) == t - start >= Window

Pops(s, t, n) ==
  /\ \A i \in 1 .. n : Stale(s[i], t)
  /\ n < Len(s) => ~Stale(s[n + 1], t)

After(s, n) == SubSeq(s, n + 1, Len(s))

BugCooled(t) == TRUE

(* The startup cooldown is over. *)
Cooled(t) == t - initialized >= Window

(* new(): a process starts, and knows nothing of earlier dispatches. *)
Start ==
  /\ ~running
  /\ running' = TRUE
  /\ initialized' = now
  /\ pending' = 0
  /\ started' = <<>>
  /\ UNCHANGED <<now, leases, dispatched>>

(* The process dies; its leases die with it. *)
Stop ==
  /\ running
  /\ running' = FALSE
  /\ leases' = {}
  /\ UNCHANGED <<now, initialized, pending, started, dispatched>>

(* snapshot() and a refused try_reserve(): what is due expires. *)
Expire ==
  /\ running
  /\ \E n \in 0 .. Len(started) :
       Pops(started, now, n) /\ started' = After(started, n)
  /\ UNCHANGED <<now, running, initialized, pending, leases, dispatched>>

(* try_reserve() that is granted. *)
Reserve(c) ==
  /\ running
  /\ c \notin leases
  /\ Cooled(now)
  /\ \E n \in 0 .. Len(started) :
       /\ Pops(started, now, n)
       /\ pending + Len(After(started, n)) < MaxRequests
       /\ started' = After(started, n)
  /\ pending' = pending + 1
  /\ leases' = leases \cup {c}
  /\ UNCHANGED <<now, running, initialized, dispatched>>

(* RateLease::commit: the slot moves from pending to started.  Its         *)
(* checked_sub refuses an underflow, which PendingIsLeases rules out.      *)
Commit(c) ==
  /\ running
  /\ c \in leases
  /\ pending > 0
  /\ \E n \in 0 .. Len(started) :
       /\ Pops(started, now, n)
       /\ started' = Append(After(started, n), now)
  /\ pending' = pending - 1
  /\ leases' = leases \ {c}
  /\ dispatched' = Append(dispatched, now)
  /\ UNCHANGED <<now, running, initialized>>

(* Drop of an uncommitted lease: saturating_sub releases the slot. *)
DropLease(c) ==
  /\ running
  /\ c \in leases
  /\ pending' = IF pending > 0 THEN pending - 1 ELSE 0
  /\ leases' = leases \ {c}
  /\ UNCHANGED <<now, running, initialized, started, dispatched>>

BugRetryIgnoresCooldown(t) ==
  {Window - (t - started[1]) : i \in {j \in {1} : started # <<>>}}

(* retry_after() at clock value t, after expire(): the set of the one      *)
(* duration it returns, empty for None.                                    *)
RetryAfter(t) ==
  IF ~Cooled(t) THEN {Window - (t - initialized)}
  ELSE IF pending + Len(started) >= MaxRequests /\ started # <<>>
       THEN {Window - (t - started[1])}
       ELSE {}

RateNext ==
  \/ Tick
  \/ Start
  \/ Stop
  \/ Expire
  \/ \E c \in Caller : Reserve(c) \/ Commit(c) \/ DropLease(c)

RateSpec == RateInit /\ [][RateNext]_rateVars

-----------------------------------------------------------------------------
(* Types; what is queued was stamped in the past. *)
RateTypeOK ==
  /\ now \in Nat
  /\ running \in BOOLEAN
  /\ initialized \in 0 .. now
  /\ pending \in Nat
  /\ started \in Seq(0 .. now)
  /\ leases \subseteq Caller
  /\ dispatched \in Seq(0 .. now)

(* The dispatches of the window that ends now. *)
Recent == {i \in 1 .. Len(dispatched) : now - dispatched[i] < Window}

(* The rate holds over every window of real time, also one that spans the  *)
(* death of a process and the dispatches of the next, which has lost the   *)
(* queue of its predecessor: that is what the startup cooldown is for.     *)
WindowCap == Cardinality(Recent) <= MaxRequests

(* While a process runs, its pending slots are exactly the leases out      *)
(* there: none is released twice (commit's checked_sub never fails and     *)
(* Drop's saturating_sub never hides an underflow), none is lost by a      *)
(* caller that gives up, and all of them fit beside the started ones.      *)
PendingIsLeases ==
  running => /\ pending = Cardinality(leases)
             /\ pending + Len(started) <= MaxRequests

(* try_reserve() would succeed at clock value t, were nobody to move       *)
(* before then.                                                            *)
WouldGrant(t) ==
  /\ Cooled(t)
  /\ \E n \in 0 .. Len(started) :
       Pops(started, t, n) /\ pending + Len(After(started, n)) < MaxRequests

(* A refused caller is told the truth about when to retry: at that time,   *)
(* and not before, a slot is free unless somebody else took it.  It is     *)
(* told no time only if no time would do, until some lease moves.          *)
RetryAfterExact ==
  running /\ ~WouldGrant(now) /\ Pops(started, now, 0) =>
    /\ \A d \in RetryAfter(now) :
         /\ WouldGrant(now + d)
         /\ \A e \in 0 .. d - 1 : ~WouldGrant(now + e)
    /\ RetryAfter(now) = {} => \A e \in 0 .. Window : ~WouldGrant(now + e)

(* Slots are accounted for exactly: those out there are the leases, and    *)
(* what a refused caller is told about the next free one is true.          *)
SlotsExact == RateTypeOK /\ PendingIsLeases /\ RetryAfterExact
=============================================================================
