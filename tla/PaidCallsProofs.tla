--------------------------- MODULE PaidCallsProofs ---------------------------
(***************************************************************************)
(* What limits the paid calls of a router, proved for every limit, every   *)
(* window and every set of processes, workers and callers: the budget over *)
(* its life, and the rate over every window of time.                       *)
(***************************************************************************)
EXTENDS DurableBudget, RateLimiter, FiniteSetTheorems, SequenceTheorems,
        WellFoundedInduction, TLAPS

-----------------------------------------------------------------------------
(* The budget, DurableBudget.  Books is what makes its promises inductive: *)
(* it says how far the owner's counter and the file may be apart at each   *)
(* step of a reservation.                                                  *)


Books ==
  /\ granted <= synced /\ synced <= written /\ written <= Limit
  /\ \A p \in Process : up[p] <=> lock = p
  /\ \A p \in Process : up[p] =>
       /\ granted <= used[p] /\ used[p] <= written
       /\ ~disabled[p] /\ mutex[p] = None => used[p] = written
       /\ \A w \in Worker :
            /\ pc[p][w] # "idle" => ~disabled[p] /\ used[p] < Limit
            /\ pc[p][w] = "write" => written = used[p]
            /\ pc[p][w] = "sync" => written = used[p] + 1
            /\ pc[p][w] = "count" => written = used[p] + 1 /\ synced = written

Inv == TypeOK /\ Books

LEMMA InvInit == Init => Inv
BY LimitAssumption, NobodyAssumption DEF Init, Inv, TypeOK, Books, Idle

LEMMA InvStep == Inv /\ [Next]_vars => Inv'
<1> SUFFICES ASSUME Inv, [Next]_vars PROVE Inv'
  OBVIOUS
<1> USE LimitAssumption, NobodyAssumption DEF Inv
<1>1. CASE BeginInitialize \/ FinishInitialize
  BY <1>1 DEF BeginInitialize, FinishInitialize, TypeOK, Books
<1>2. ASSUME NEW p \in Process, Open(p) PROVE Inv'
  <2>1. TypeOK'
    BY <1>2 DEF Open, TypeOK, File
  <2>2. Books'
    BY <1>2 DEF Open, TypeOK, Books, File
  <2>3. QED
    BY <2>1, <2>2
<1>3. ASSUME NEW p \in Process, Exit(p) PROVE Inv'
  <2>1. TypeOK'
    BY <1>3 DEF Exit, TypeOK, Idle, File
  <2>2. Books'
    BY <1>3 DEF Exit, TypeOK, Books, Idle, File
  <2>3. QED
    BY <2>1, <2>2
<1>4. ASSUME NEW p \in Process, NEW w \in Worker, BeginReserve(p, w) PROVE Inv'
  <2>1. TypeOK'
    BY <1>4 DEF BeginReserve, TypeOK, File
  <2>2. Books'
    BY <1>4 DEF BeginReserve, TypeOK, Books, File
  <2>3. QED
    BY <2>1, <2>2
<1>5. ASSUME NEW p \in Process, NEW w \in Worker, Write(p, w) PROVE Inv'
  <2>1. TypeOK'
    BY <1>5 DEF Write, TypeOK
  <2>2. Books'
    BY <1>5 DEF Write, TypeOK, Books
  <2>3. QED
    BY <2>1, <2>2
<1>6. ASSUME NEW p \in Process, NEW w \in Worker, Sync(p, w) PROVE Inv'
  <2>1. TypeOK'
    BY <1>6 DEF Sync, TypeOK
  <2>2. Books'
    BY <1>6 DEF Sync, TypeOK, Books
  <2>3. QED
    BY <2>1, <2>2
<1>7. ASSUME NEW p \in Process, NEW w \in Worker, PersistFails(p, w) PROVE Inv'
  <2>1. TypeOK'
    BY <1>7 DEF PersistFails, TypeOK, File
  <2>2. Books'
    BY <1>7 DEF PersistFails, TypeOK, Books, File
  <2>3. QED
    BY <2>1, <2>2
<1>8. ASSUME NEW p \in Process, NEW w \in Worker, Grant(p, w) PROVE Inv'
  <2>1. TypeOK'
    BY <1>8 DEF Grant, TypeOK, File
  <2>2. Books'
    BY <1>8 DEF Grant, TypeOK, Books, File
  <2>3. QED
    BY <2>1, <2>2
<1>9. CASE PowerLoss
  <2>1. TypeOK'
    BY <1>9 DEF PowerLoss, TypeOK, Idle
  <2>2. Books'
    BY <1>9 DEF PowerLoss, TypeOK, Books, Idle
  <2>3. QED
    BY <2>1, <2>2
<1>10. CASE UNCHANGED vars
  BY <1>10 DEF vars, TypeOK, Books
<1>11. QED
  BY <1>1, <1>2, <1>3, <1>4, <1>5, <1>6, <1>7, <1>8, <1>9, <1>10 DEF Next

LEMMA InvInductive == Spec => []Inv
BY InvInit, InvStep, PTL DEF Spec

(* A lifetime limit: crashes, failed writes, power losses and any change   *)
(* of owner never let more calls be granted than the limit.                *)
THEOREM BudgetNeverOverspent == Spec => []NeverOverspent
<1>1. Inv => NeverOverspent
  BY LimitAssumption DEF Inv, TypeOK, Books, NeverOverspent
<1>2. QED
  BY <1>1, InvInductive, PTL

(* Each granted call has a byte of its own that a power loss cannot take.  *)
THEOREM GrantsAreDurable == Spec => []GrantsDurable
<1>1. Inv => GrantsDurable
  BY DEF Inv, Books, GrantsDurable
<1>2. QED
  BY <1>1, InvInductive, PTL

(* Whoever owns the budget accounts for all calls granted before it, and   *)
(* the file it owns can always be opened again.                            *)
THEOREM BudgetNeverRefunded == Spec => [](NeverRefunded /\ NeverOverfull)
<1>1. Inv => NeverRefunded /\ NeverOverfull
  BY DEF Inv, Books, NeverRefunded, NeverOverfull
<1>2. QED
  BY <1>1, InvInductive, PTL

-----------------------------------------------------------------------------
(* The rate, RateLimiter.  The queue of a process is the end of the        *)
(* history of dispatches; those before it are a window old, or were made   *)
(* by a process before, in which case nobody dispatches again until they   *)
(* are.  Slots says that the queue and the leases fit in the limit.        *)
Queued ==
  /\ Len(started) <= Len(dispatched)
  /\ \A i \in 1 .. Len(started) :
       started[i] = dispatched[Len(dispatched) - Len(started) + i]

Past ==
  \A i \in 1 .. Len(dispatched) - Len(started) :
    dispatched[i] <= initialized \/ Stale(dispatched[i], now)

Slots ==
  /\ pending + Len(started) <= MaxRequests
  /\ leases # {} \/ started # <<>> => Cooled(now)
  /\ running => pending = Cardinality(leases)
  /\ ~running => leases = {}

RateInv == RateTypeOK /\ Queued /\ Past /\ Slots /\ WindowCap

LEMMA SeqWider ==
  ASSUME NEW S, NEW T, S \subseteq T, NEW s \in Seq(S)
  PROVE  s \in Seq(T)
OBVIOUS

LEMMA RateTypes ==
  ASSUME RateTypeOK
  PROVE  /\ now \in Nat /\ initialized \in Nat /\ initialized <= now /\ pending \in Nat
         /\ Len(started) \in Nat /\ Len(dispatched) \in Nat
         /\ \A i \in 1 .. Len(started) : started[i] \in 0 .. now
         /\ \A i \in 1 .. Len(dispatched) : dispatched[i] \in 0 .. now
BY ElementOfSeq, LenProperties DEF RateTypeOK

(* What expire() leaves of the queue. *)
LEMMA AfterFacts ==
  ASSUME NEW S, NEW s \in Seq(S), NEW n \in 0 .. Len(s)
  PROVE  /\ After(s, n) \in Seq(S)
         /\ Len(After(s, n)) = Len(s) - n
         /\ \A i \in 1 .. Len(s) - n : After(s, n)[i] = s[n + i]
<1>1. Len(s) \in Nat /\ n + 1 \in Int /\ \A i \in n + 1 .. Len(s) : s[i] \in S
  BY LenProperties, ElementOfSeq
<1>2. /\ SubSeq(s, n + 1, Len(s)) \in Seq(S)
      /\ Len(SubSeq(s, n + 1, Len(s))) = IF n + 1 <= Len(s) THEN Len(s) - (n + 1) + 1 ELSE 0
      /\ \A i \in 1 .. Len(s) - (n + 1) + 1 : SubSeq(s, n + 1, Len(s))[i] = s[(n + 1) + i - 1]
  BY <1>1, SubSeqProperties
<1>3. QED
  BY <1>1, <1>2 DEF After

LEMMA Expired ==
  ASSUME RateTypeOK, Queued, Past, NEW n \in 0 .. Len(started), Pops(started, now, n)
  PROVE  LET s == After(started, n)
         IN /\ s \in Seq(0 .. now) /\ Len(s) = Len(started) - n /\ Len(s) \in Nat
            /\ Len(s) <= Len(dispatched)
            /\ \A i \in 1 .. Len(s) : s[i] = dispatched[Len(dispatched) - Len(s) + i]
            /\ \A i \in 1 .. Len(dispatched) - Len(s) :
                 dispatched[i] <= initialized \/ Stale(dispatched[i], now)
<1> DEFINE s == After(started, n)
           p == Len(dispatched) - Len(started)
<1>1. /\ s \in Seq(0 .. now) /\ Len(s) = Len(started) - n
      /\ \A i \in 1 .. Len(started) - n : s[i] = started[n + i]
  BY AfterFacts DEF RateTypeOK
<1>2. Len(started) \in Nat /\ Len(dispatched) \in Nat /\ p \in Nat
  BY RateTypes DEF Queued
<1> HIDE DEF s
<1>3. Len(dispatched) - Len(s) = p + n /\ Len(s) \in Nat /\ Len(s) <= Len(dispatched)
  BY <1>1, <1>2 DEF Queued
<1>4. ASSUME NEW i \in 1 .. Len(s)
      PROVE  s[i] = dispatched[Len(dispatched) - Len(s) + i]
  <2>1. s[i] = started[n + i] /\ n + i \in 1 .. Len(started)
    BY <1>1, <1>2
  <2>2. started[n + i] = dispatched[p + (n + i)]
    BY <2>1 DEF Queued
  <2>3. p + (n + i) = Len(dispatched) - Len(s) + i
    BY <1>2, <1>3
  <2>4. QED
    BY <2>1, <2>2, <2>3
<1>5. ASSUME NEW i \in 1 .. p + n
      PROVE  dispatched[i] <= initialized \/ Stale(dispatched[i], now)
  <2>1. CASE i <= p
    BY <1>2, <2>1 DEF Past
  <2>2. CASE i > p
    <3>1. i - p \in 1 .. n /\ i - p \in 1 .. Len(started) /\ p + (i - p) = i
      BY <1>2, <2>2
    <3>2. started[i - p] = dispatched[i]
      BY <3>1 DEF Queued
    <3>3. QED
      BY <3>1, <3>2 DEF Pops
  <2>3. QED
    BY <1>2, <2>1, <2>2
<1>6. QED
  BY <1>1, <1>3, <1>4, <1>5 DEF s

(* Time only takes dispatches out of the window.                           *)
LEMMA RecentShrinks ==
  ASSUME RateTypeOK, WindowCap, dispatched' = dispatched, now' \in Nat, now <= now'
  PROVE  WindowCap'
<1>1. Recent' \subseteq Recent
  BY RateTypes, RateAssumption DEF Recent
<1>2. IsFiniteSet(Recent)
  <2>1. IsFiniteSet(1 .. Len(dispatched))
    BY RateTypes, FS_Interval
  <2>2. QED
    BY <2>1, FS_Subset DEF Recent
<1>3. Cardinality(Recent') <= Cardinality(Recent)
      /\ Cardinality(Recent) \in Nat /\ Cardinality(Recent') \in Nat
  BY <1>1, <1>2, FS_Subset, FS_CardinalityType
<1>4. QED
  BY <1>3, RateAssumption DEF WindowCap

LEMMA RateInitHolds == RateInit => RateInv
<1> SUFFICES ASSUME RateInit PROVE RateInv
  OBVIOUS
<1>1. RateTypeOK
  <2>1. <<>> \in Seq(0 .. now)
    BY EmptySeq
  <2>2. started \in Seq(0 .. now) /\ dispatched \in Seq(0 .. now)
    BY <2>1 DEF RateInit
  <2>3. now \in Nat /\ initialized \in 0 .. now /\ pending \in Nat
    BY DEF RateInit
  <2>4. leases \subseteq Caller
    BY DEF RateInit
  <2>5. running \in BOOLEAN
    BY Zenon DEF RateInit
  <2>6. QED
    BY <2>2, <2>3, <2>4, <2>5 DEF RateTypeOK
<1>2. Len(started) = 0 /\ Len(dispatched) = 0
  BY DEF RateInit
<1>3. Queued /\ Past
  BY <1>2 DEF Queued, Past
<1>4. Slots
  BY <1>2, FS_EmptySet, RateAssumption DEF RateInit, Slots
<1>5. Recent = {}
  BY <1>2 DEF Recent
<1>6. WindowCap
  BY <1>5, FS_EmptySet, RateAssumption DEF WindowCap
<1>7. QED
  BY <1>1, <1>3, <1>4, <1>6 DEF RateInv

(* Steps that leave the queue alone, and the death of a process.           *)
LEMMA RateTick == RateInv /\ Tick => RateInv'
<1> SUFFICES ASSUME RateInv, Tick PROVE RateInv'
  OBVIOUS
<1>1. /\ now' = now + 1 /\ now \in Nat /\ initialized \in Nat
      /\ UNCHANGED <<running, initialized, pending, started, leases, dispatched>>
  BY DEF Tick, RateInv, RateTypeOK
<1>2. RateTypeOK'
  <2>1. 0 .. now \subseteq 0 .. now'
    BY <1>1
  <2>2. started' \in Seq(0 .. now') /\ dispatched' \in Seq(0 .. now')
    BY <1>1, <2>1, SeqWider DEF RateInv, RateTypeOK
  <2>3. QED
    BY <1>1, <2>2 DEF RateInv, RateTypeOK
<1>3. Queued'
  BY <1>1 DEF RateInv, Queued
<1>4. Past'
  <2>1. SUFFICES ASSUME NEW i \in 1 .. Len(dispatched) - Len(started), ~(dispatched[i] <= initialized)
                 PROVE  now' - dispatched[i] >= Window
    BY <1>1 DEF Past, Stale
  <2>2. now - dispatched[i] >= Window
    BY <2>1 DEF RateInv, Past, Stale
  <2>3. dispatched[i] \in Nat
    BY RateTypes DEF RateInv
  <2>4. QED
    BY <1>1, <2>2, <2>3, RateAssumption
<1>5. Slots'
  BY <1>1, RateAssumption DEF RateInv, Slots, Cooled
<1>6. WindowCap'
  BY <1>1, RecentShrinks DEF RateInv
<1>7. QED
  BY <1>2, <1>3, <1>4, <1>5, <1>6 DEF RateInv

LEMMA RateStart == RateInv /\ Start => RateInv'
<1> SUFFICES ASSUME RateInv, Start PROVE RateInv'
  OBVIOUS
<1>1. /\ ~running /\ running' = TRUE /\ initialized' = now /\ pending' = 0 /\ started' = <<>>
      /\ UNCHANGED <<now, leases, dispatched>> /\ now \in Nat /\ leases = {}
  BY DEF Start, RateInv, RateTypeOK, Slots
<1>2. Len(started') = 0
  BY <1>1
<1>3. RateTypeOK'
  BY <1>1 DEF RateInv, RateTypeOK
<1>4. Len(dispatched) \in Nat /\ \A i \in 1 .. Len(dispatched) : dispatched[i] <= now
  BY RateTypes DEF RateInv
<1>5. Queued' /\ Past'
  BY <1>1, <1>2, <1>4 DEF Queued, Past
<1>6. Slots'
  BY <1>1, <1>2, FS_EmptySet, RateAssumption DEF Slots
<1>7. WindowCap'
  BY <1>1, RecentShrinks DEF RateInv
<1>8. QED
  BY <1>3, <1>5, <1>6, <1>7 DEF RateInv

LEMMA RateStop == RateInv /\ Stop => RateInv'
<1> SUFFICES ASSUME RateInv, Stop PROVE RateInv'
  OBVIOUS
<1>1. /\ running' = FALSE /\ leases' = {} /\ now \in Nat
      /\ UNCHANGED <<now, initialized, pending, started, dispatched>>
  BY DEF Stop, RateInv, RateTypeOK
<1>2. RateTypeOK' /\ Queued' /\ Past' /\ Slots'
  BY <1>1 DEF RateInv, RateTypeOK, Queued, Past, Slots, Cooled
<1>3. WindowCap'
  BY <1>1, RecentShrinks DEF RateInv
<1>4. QED
  BY <1>2, <1>3 DEF RateInv

(* expire() alone, and a reservation or a release of a slot after it.      *)
LEMMA RateExpires ==
  ASSUME RateInv, NEW n \in 0 .. Len(started), Pops(started, now, n),
         started' = After(started, n),
         UNCHANGED <<now, running, initialized, dispatched>>,
         pending' \in Nat, pending' + (Len(started) - n) <= MaxRequests,
         leases' \subseteq Caller, running => pending' = Cardinality(leases'),
         ~running => leases' = {}, leases' # {} => Cooled(now)
  PROVE  RateInv'
<1> DEFINE s == After(started, n)
<1>1. /\ s \in Seq(0 .. now) /\ Len(s) = Len(started) - n /\ Len(s) \in Nat
      /\ Len(s) <= Len(dispatched)
      /\ \A i \in 1 .. Len(s) : s[i] = dispatched[Len(dispatched) - Len(s) + i]
      /\ \A i \in 1 .. Len(dispatched) - Len(s) :
           dispatched[i] <= initialized \/ Stale(dispatched[i], now)
  BY Expired DEF RateInv
<1> HIDE DEF s
<1>2. started' = s
  BY DEF s
<1>3. RateTypeOK'
  BY <1>1, <1>2 DEF RateInv, RateTypeOK
<1>4. Queued' /\ Past'
  BY <1>1, <1>2 DEF Queued, Past
<1>5. Slots'
  <2>1. s # <<>> => started # <<>>
    <3>1. Len(started) \in Nat
      BY RateTypes DEF RateInv
    <3>2. CASE started = <<>>
      <4>1. Len(started) = 0 /\ n = 0
        BY <3>1, <3>2
      <4>2. Len(s) = 0
        BY <1>1, <4>1
      <4>3. QED
        BY <1>1, <4>2, EmptySeq
    <3>3. QED
      BY <3>2
  <2>2. leases' # {} \/ s # <<>> => Cooled(now)
    BY <2>1 DEF RateInv, Slots
  <2>3. QED
    BY <1>1, <1>2, <2>2 DEF Slots, Cooled
<1>6. WindowCap'
  BY RecentShrinks, RateTypes DEF RateInv
<1>7. QED
  BY <1>3, <1>4, <1>5, <1>6 DEF RateInv

LEMMA LeaseCounts ==
  ASSUME RateTypeOK, NEW c \in Caller
  PROVE  /\ Cardinality(leases) \in Nat
         /\ c \notin leases => Cardinality(leases \cup {c}) = Cardinality(leases) + 1
         /\ c \in leases => /\ Cardinality(leases \ {c}) = Cardinality(leases) - 1
                            /\ Cardinality(leases) > 0
<1>1. IsFiniteSet(leases)
  BY RateAssumption, FS_Subset DEF RateTypeOK
<1>2. c \in leases => Cardinality(leases) # 0
  BY <1>1, FS_EmptySet
<1>3. QED
  BY <1>1, <1>2, FS_CardinalityType, FS_AddElement, FS_RemoveElement

LEMMA RateExpire == RateInv /\ Expire => RateInv'
<1> SUFFICES ASSUME RateInv, Expire PROVE RateInv'
  OBVIOUS
<1>1. PICK n \in 0 .. Len(started) : Pops(started, now, n) /\ started' = After(started, n)
  BY DEF Expire
<1>2. UNCHANGED <<now, running, initialized, pending, leases, dispatched>>
  BY DEF Expire
<1>3. pending \in Nat /\ Len(started) \in Nat /\ MaxRequests \in Nat
  BY RateTypes, RateAssumption DEF RateInv
<1>4. pending' + (Len(started) - n) <= MaxRequests
  BY <1>2, <1>3 DEF RateInv, Slots
<1>5. QED
  BY <1>1, <1>2, <1>3, <1>4, RateExpires DEF RateInv, RateTypeOK, Slots

LEMMA RateReserve == \A c \in Caller : RateInv /\ Reserve(c) => RateInv'
<1> SUFFICES ASSUME NEW c \in Caller, RateInv, Reserve(c) PROVE RateInv'
  OBVIOUS
<1>1. PICK n \in 0 .. Len(started) :
        /\ Pops(started, now, n)
        /\ pending + Len(After(started, n)) < MaxRequests
        /\ started' = After(started, n)
  BY DEF Reserve
<1>2. /\ running /\ c \notin leases /\ Cooled(now)
      /\ pending' = pending + 1 /\ leases' = leases \cup {c}
      /\ UNCHANGED <<now, running, initialized, dispatched>>
  BY DEF Reserve
<1>3. pending \in Nat /\ Len(started) \in Nat /\ MaxRequests \in Nat
      /\ Len(After(started, n)) = Len(started) - n
  BY RateTypes, RateAssumption, AfterFacts DEF RateInv, RateTypeOK
<1>4. pending' + (Len(started) - n) <= MaxRequests /\ pending' \in Nat
  BY <1>1, <1>2, <1>3
<1>5. pending' = Cardinality(leases') /\ leases' \subseteq Caller
  BY <1>2, LeaseCounts DEF RateInv, Slots, RateTypeOK
<1>6. QED
  BY <1>1, <1>2, <1>4, <1>5, RateExpires

LEMMA RateDrop == \A c \in Caller : RateInv /\ DropLease(c) => RateInv'
<1> SUFFICES ASSUME NEW c \in Caller, RateInv, DropLease(c) PROVE RateInv'
  OBVIOUS
<1>1. /\ running /\ c \in leases /\ leases' = leases \ {c}
      /\ pending' = IF pending > 0 THEN pending - 1 ELSE 0
      /\ UNCHANGED <<now, running, initialized, started, dispatched>>
  BY DEF DropLease
<1>2. pending = Cardinality(leases) /\ pending \in Nat /\ pending > 0
  BY <1>1, LeaseCounts DEF RateInv, Slots
<1>3. pending' = pending - 1 /\ pending' = Cardinality(leases')
  BY <1>1, <1>2, LeaseCounts DEF RateInv
<1>4. now \in Nat /\ Len(started) \in Nat /\ MaxRequests \in Nat
  BY RateTypes, RateAssumption DEF RateInv
<1>5. RateTypeOK'
  BY <1>1, <1>2, <1>3 DEF RateInv, RateTypeOK
<1>6. Queued' /\ Past'
  BY <1>1 DEF RateInv, Queued, Past
<1>7. Slots'
  <2>1. Cooled(now)
    BY <1>1 DEF RateInv, Slots
  <2>2. pending' + Len(started') <= MaxRequests
    BY <1>1, <1>2, <1>3, <1>4 DEF RateInv, Slots
  <2>3. QED
    BY <1>1, <1>3, <2>1, <2>2 DEF Slots, Cooled
<1>8. WindowCap'
  BY <1>1, <1>4, RecentShrinks DEF RateInv
<1>9. QED
  BY <1>5, <1>6, <1>7, <1>8 DEF RateInv

(* A commit: all that is in the window is in the queue.                    *)
LEMMA RateCommit == \A c \in Caller : RateInv /\ Commit(c) => RateInv'
<1> SUFFICES ASSUME NEW c \in Caller, RateInv, Commit(c) PROVE RateInv'
  OBVIOUS
<1>1. PICK n \in 0 .. Len(started) :
        Pops(started, now, n) /\ started' = Append(After(started, n), now)
  BY DEF Commit
<1> DEFINE s == After(started, n)
           d == Len(dispatched)
<1>2. /\ running /\ c \in leases /\ pending > 0 /\ pending' = pending - 1
      /\ leases' = leases \ {c} /\ dispatched' = Append(dispatched, now)
      /\ UNCHANGED <<now, running, initialized>>
  BY DEF Commit
<1>3. /\ s \in Seq(0 .. now) /\ Len(s) = Len(started) - n /\ Len(s) \in Nat
      /\ Len(s) <= d
      /\ \A i \in 1 .. Len(s) : s[i] = dispatched[d - Len(s) + i]
      /\ \A i \in 1 .. d - Len(s) : dispatched[i] <= initialized \/ Stale(dispatched[i], now)
  BY <1>1, Expired DEF RateInv
<1>4. /\ now \in 0 .. now /\ now \in Nat /\ initialized \in Nat /\ pending \in Nat
      /\ d \in Nat /\ Len(started) \in Nat /\ MaxRequests \in Nat /\ Window \in Nat
      /\ dispatched \in Seq(0 .. now) /\ \A i \in 1 .. d : dispatched[i] \in Nat
  BY RateTypes, RateAssumption DEF RateInv, RateTypeOK
<1>5. /\ dispatched' \in Seq(0 .. now) /\ Len(dispatched') = d + 1
      /\ dispatched'[d + 1] = now /\ \A i \in 1 .. d : dispatched'[i] = dispatched[i]
  BY <1>2, <1>4, AppendProperties
<1> HIDE DEF s, d
<1>6. /\ started' \in Seq(0 .. now) /\ Len(started') = Len(s) + 1
      /\ started'[Len(s) + 1] = now /\ \A i \in 1 .. Len(s) : started'[i] = s[i]
  BY <1>1, <1>3, <1>4, AppendProperties DEF s
<1>7. pending' \in Nat /\ pending' = Cardinality(leases')
  <2>1. pending = Cardinality(leases)
    BY <1>2 DEF RateInv, Slots
  <2>2. Cardinality(leases') = Cardinality(leases) - 1
    BY <1>2, LeaseCounts DEF RateInv
  <2>3. QED
    BY <1>2, <1>4, <2>1, <2>2
<1>8. RateTypeOK'
  BY <1>2, <1>5, <1>6, <1>7 DEF RateInv, RateTypeOK
<1>9. Len(dispatched') - Len(started') = d - Len(s)
  BY <1>3, <1>4, <1>5, <1>6
<1>10. Queued'
  <2>1. SUFFICES ASSUME NEW i \in 1 .. Len(s) + 1
                 PROVE  started'[i] = dispatched'[d - Len(s) + i]
    <3>1. Len(started') <= Len(dispatched')
      BY <1>3, <1>4, <1>5, <1>6
    <3>2. QED
      BY <1>6, <1>9, <3>1 DEF Queued
  <2>2. CASE i = Len(s) + 1
    <3>1. d - Len(s) + i = d + 1
      BY <1>3, <1>4, <2>2
    <3>2. QED
      BY <1>5, <1>6, <2>2, <3>1
  <2>3. CASE i # Len(s) + 1
    <3>1. i \in 1 .. Len(s) /\ d - Len(s) + i \in 1 .. d
      BY <1>3, <1>4, <2>3
    <3>2. QED
      BY <1>3, <1>5, <1>6, <3>1
  <2>4. QED
    BY <2>2, <2>3
<1>11. Cooled(now)
  BY <1>2 DEF RateInv, Slots
<1>12. ASSUME NEW i \in 1 .. d - Len(s) PROVE Stale(dispatched'[i], now)
  <2>1. i \in 1 .. d /\ dispatched'[i] = dispatched[i] /\ dispatched[i] \in Nat
    BY <1>3, <1>4, <1>5
  <2>2. dispatched[i] <= initialized \/ Stale(dispatched[i], now)
    BY <1>3
  <2>3. QED
    BY <1>4, <1>11, <2>1, <2>2 DEF Stale, Cooled
<1>13. Past'
  BY <1>2, <1>9, <1>12 DEF Past, Stale
<1>14. pending' + Len(started') <= MaxRequests /\ Len(started') \in Nat
  <2>1. pending + Len(started) <= MaxRequests
    BY DEF RateInv, Slots
  <2>2. QED
    BY <1>2, <1>3, <1>4, <1>6, <2>1
<1>15. Slots'
  BY <1>2, <1>7, <1>11, <1>14 DEF Slots, Cooled
<1>16. WindowCap'
  <2> DEFINE W == d - Len(s) + 1 .. d + 1
  <2>1. Recent' \subseteq W
    <3>1. SUFFICES ASSUME NEW i \in 1 .. d + 1, now - dispatched'[i] < Window
                   PROVE  i \in W
      BY <1>2, <1>5 DEF Recent
    <3>2. dispatched'[i] \in Int
      BY <1>4, <1>5
    <3>3. i \notin 1 .. d - Len(s)
      BY <1>4, <1>12, <3>1, <3>2 DEF Stale
    <3>4. QED
      BY <1>3, <1>4, <3>3
  <2>2. IsFiniteSet(W) /\ Cardinality(W) = Len(started')
    <3>1. d - Len(s) + 1 \in Int /\ d + 1 \in Int /\ ~(d - Len(s) + 1 > d + 1)
      BY <1>3, <1>4
    <3>2. IsFiniteSet(W) /\ Cardinality(W) = (d + 1) - (d - Len(s) + 1) + 1
      BY <3>1, FS_Interval
    <3>3. QED
      BY <1>3, <1>4, <1>6, <3>2
  <2>3. Cardinality(Recent') <= Cardinality(W) /\ Cardinality(Recent') \in Nat
    BY <2>1, <2>2, FS_Subset, FS_CardinalityType
  <2>4. QED
    BY <1>4, <1>7, <1>14, <2>2, <2>3 DEF WindowCap
<1>17. QED
  BY <1>8, <1>10, <1>13, <1>15, <1>16 DEF RateInv

LEMMA RateStep == RateInv /\ [RateNext]_rateVars => RateInv'
<1> SUFFICES ASSUME RateInv, [RateNext]_rateVars PROVE RateInv'
  OBVIOUS
<1>1. CASE UNCHANGED rateVars
  <2>1. UNCHANGED <<now, running, initialized, pending, started, leases, dispatched>>
    BY <1>1 DEF rateVars
  <2>2. RateTypeOK' /\ Queued' /\ Past' /\ Slots'
    BY <2>1 DEF RateInv, RateTypeOK, Queued, Past, Slots, Cooled
  <2>3. WindowCap'
    BY <2>1, RecentShrinks, RateTypes DEF RateInv
  <2>4. QED
    BY <2>2, <2>3 DEF RateInv
<1>2. QED
  BY <1>1, RateTick, RateStart, RateStop, RateExpire, RateReserve, RateCommit, RateDrop
     DEF RateNext

LEMMA RateInvInductive == RateSpec => []RateInv
BY RateInitHolds, RateStep, PTL DEF RateSpec

(* src/src/rate_limit.rs: over any window of time, also one in which a     *)
(* process died and its successor lost the queue, no more dispatches than  *)
(* the configuration allows.                                               *)
THEOREM RateHoldsInEveryWindow == RateSpec => []WindowCap
<1>1. RateInv => WindowCap
  BY DEF RateInv
<1>2. QED
  BY <1>1, RateInvInductive, PTL

-----------------------------------------------------------------------------
(* A refused caller: what it is told.  The queue is in any state that a    *)
(* running process has; expire() stops at its first entry that is fresh.   *)
LEMMA LeastNatural ==
  ASSUME NEW T, T \subseteq Nat, T # {}
  PROVE  \E n \in T : \A m \in T : n <= m
<1>1. PICK n \in T : \A m \in T : ~(<<m, n>> \in OpToRel(<, Nat))
  BY NatLessThanWellFounded, WFMin
<1>2. \A m \in T : ~(m < n)
  BY <1>1 DEF OpToRel
<1>3. QED
  BY <1>2

LEMMA ExpireStops ==
  ASSUME NEW s, Len(s) \in Nat, NEW t
  PROVE  \E n \in 0 .. Len(s) : Pops(s, t, n)
<1> DEFINE Fresh == {i \in 1 .. Len(s) : ~Stale(s[i], t)}
<1>1. CASE Fresh = {}
  <2>1. \A i \in 1 .. Len(s) : Stale(s[i], t)
    BY <1>1
  <2>2. Len(s) \in 0 .. Len(s) /\ ~(Len(s) < Len(s))
    OBVIOUS
  <2>3. QED
    BY <2>1, <2>2 DEF Pops
<1>2. CASE Fresh # {}
  <2>1. PICK f \in Fresh : \A i \in Fresh : f <= i
    <3>1. Fresh \subseteq Nat
      OBVIOUS
    <3>2. QED
      BY <1>2, <3>1, LeastNatural
  <2>2. f \in 1 .. Len(s) /\ ~Stale(s[f], t) /\ (f - 1) + 1 = f /\ f - 1 \in 0 .. Len(s)
    BY <2>1
  <2>3. ASSUME NEW i \in 1 .. f - 1 PROVE Stale(s[i], t)
    <3>1. i \in 1 .. Len(s) /\ ~(f <= i)
      BY <2>2
    <3>2. QED
      BY <2>1, <3>1
  <2>4. Pops(s, t, f - 1)
    BY <2>2, <2>3 DEF Pops
  <2>5. QED
    BY <2>2, <2>4
<1>3. QED
  BY <1>1, <1>2

(* expire() pops nothing of a queue whose first entry is fresh, and at     *)
(* least one entry of a queue whose first entry is stale.                  *)
LEMMA PopsFirst ==
  ASSUME NEW s, Len(s) \in Nat, NEW t, NEW n \in 0 .. Len(s), Pops(s, t, n)
  PROVE  /\ Len(s) >= 1 /\ ~Stale(s[1], t) => n = 0
         /\ Len(s) >= 1 /\ Stale(s[1], t) => n >= 1
<1>1. n >= 1 => Stale(s[1], t)
  BY DEF Pops
<1>2. n = 0 /\ Len(s) >= 1 => ~Stale(s[1], t)
  BY DEF Pops
<1>3. QED
  BY <1>1, <1>2

LEMMA RetryIsTrue == RateInv => RetryAfterExact
<1> SUFFICES ASSUME RateInv, running, ~WouldGrant(now), Pops(started, now, 0)
             PROVE  /\ \A d \in RetryAfter(now) :
                         /\ WouldGrant(now + d)
                         /\ \A e \in 0 .. d - 1 : ~WouldGrant(now + e)
                    /\ RetryAfter(now) = {} => \A e \in 0 .. Window : ~WouldGrant(now + e)
  BY DEF RetryAfterExact
<1>1. /\ now \in Nat /\ initialized \in Nat /\ initialized <= now /\ pending \in Nat
      /\ Len(started) \in Nat /\ \A i \in 1 .. Len(started) : started[i] \in 0 .. now
      /\ started \in Seq(0 .. now)
      /\ Window \in Nat \ {0} /\ MaxRequests \in Nat \ {0}
  BY RateTypes, RateAssumption DEF RateInv, RateTypeOK
<1>2. /\ pending + Len(started) <= MaxRequests /\ pending = Cardinality(leases)
      /\ leases # {} \/ started # <<>> => Cooled(now)
  BY DEF RateInv, Slots
<1>3. \A n \in 0 .. Len(started) : Len(After(started, n)) = Len(started) - n
  BY <1>1, AfterFacts
<1>4. started = <<>> <=> Len(started) = 0
  BY <1>1, EmptySeq
<1>5. \A e \in Nat : Cooled(now + e) <=> now + e - initialized >= Window
  BY <1>1 DEF Cooled
<1>6. CASE ~Cooled(now)
  <2>1. RetryAfter(now) = {Window - (now - initialized)}
    BY <1>6 DEF RetryAfter
  <2> DEFINE d == Window - (now - initialized)
  <2>2. d \in Nat /\ Cooled(now + d)
    BY <1>1, <1>6 DEF Cooled
  <2>3. pending = 0 /\ Len(started) = 0
    BY <1>2, <1>4, <1>6, FS_EmptySet
  <2>4. WouldGrant(now + d)
    <3>1. 0 \in 0 .. Len(started) /\ Pops(started, now + d, 0)
      BY <2>3 DEF Pops
    <3>2. pending + Len(After(started, 0)) < MaxRequests
      BY <1>1, <1>3, <2>3, <3>1
    <3>3. QED
      BY <2>2, <3>1, <3>2 DEF WouldGrant
  <2>5. ASSUME NEW e \in 0 .. d - 1 PROVE ~WouldGrant(now + e)
    <3>1. ~(now + e - initialized >= Window) /\ e \in Nat
      BY <1>1, <2>2
    <3>2. QED
      BY <1>5, <3>1 DEF WouldGrant
  <2>6. QED
    BY <2>1, <2>4, <2>5
<1>7. CASE Cooled(now)
  <2>1. pending + Len(started) = MaxRequests
    <3>1. ~(pending + Len(After(started, 0)) < MaxRequests) /\ 0 \in 0 .. Len(started)
      BY <1>1, <1>7 DEF WouldGrant
    <3>2. Len(After(started, 0)) = Len(started)
      BY <1>1, <1>3, <3>1
    <3>3. QED
      BY <1>1, <1>2, <3>1, <3>2
  <2>2. CASE Len(started) = 0
    <3>1. RetryAfter(now) = {}
      BY <1>4, <1>7, <2>2 DEF RetryAfter
    <3>2. ASSUME NEW e \in 0 .. Window PROVE ~WouldGrant(now + e)
      <4>1. \A n \in 0 .. Len(started) : ~(pending + Len(After(started, n)) < MaxRequests)
        BY <1>1, <1>3, <2>1, <2>2
      <4>2. QED
        BY <4>1 DEF WouldGrant
    <3>3. QED
      BY <3>1, <3>2
  <2>3. CASE Len(started) # 0
    <3>1. RetryAfter(now) = {Window - (now - started[1])}
      BY <1>1, <1>4, <1>7, <2>1, <2>3 DEF RetryAfter
    <3> DEFINE d == Window - (now - started[1])
    <3>2. started[1] \in Nat /\ Len(started) >= 1 /\ started[1] <= now
      BY <1>1, <2>3
    <3>3. ~Stale(started[1], now)
      BY <1>1, <2>3 DEF Pops
    <3>4. d \in Nat /\ Stale(started[1], now + d)
          /\ \A e \in 0 .. d - 1 : ~Stale(started[1], now + e)
      <4>1. d \in Nat /\ d + (now - started[1]) = Window
        BY <1>1, <3>2, <3>3 DEF Stale
      <4>2. now + d - started[1] >= Window
        BY <1>1, <3>2, <4>1
      <4>3. \A e \in 0 .. d - 1 : ~(now + e - started[1] >= Window)
        BY <1>1, <3>2, <4>1
      <4> HIDE DEF d
      <4>4. Stale(started[1], now + d)
        BY <1>1, <3>2, <4>1, <4>2 DEF Stale
      <4>5. \A e \in 0 .. d - 1 : ~Stale(started[1], now + e)
        BY <1>1, <3>2, <4>1, <4>3 DEF Stale
      <4>6. QED
        BY <4>1, <4>4, <4>5
    <3>5. WouldGrant(now + d)
      <4>1. PICK n \in 0 .. Len(started) : Pops(started, now + d, n)
        BY <1>1, ExpireStops
      <4>2. n >= 1
        BY <1>1, <3>2, <3>4, <4>1, PopsFirst
      <4>3. pending + Len(After(started, n)) < MaxRequests
        BY <1>1, <1>3, <2>1, <4>2
      <4>4. Cooled(now + d)
        BY <1>1, <1>7, <3>4 DEF Cooled
      <4>5. QED
        BY <4>1, <4>3, <4>4 DEF WouldGrant
    <3>6. ASSUME NEW e \in 0 .. d - 1 PROVE ~WouldGrant(now + e)
      <4>1. \A n \in 0 .. Len(started) : Pops(started, now + e, n) => n = 0
        BY <1>1, <3>2, <3>4, PopsFirst
      <4>2. 0 \in 0 .. Len(started) /\ Len(After(started, 0)) = Len(started)
        BY <1>1, <1>3
      <4>3. ~(pending + Len(After(started, 0)) < MaxRequests)
        BY <1>1, <2>1, <4>2
      <4>4. QED
        BY <4>1, <4>3 DEF WouldGrant
    <3>7. {d} # {}
      OBVIOUS
    <3>8. QED
      BY <3>1, <3>5, <3>6, <3>7
  <2>4. QED
    BY <2>2, <2>3
<1>8. QED
  BY <1>6, <1>7

(* src/src/rate_limit.rs: while a process runs its pending slots are the   *)
(* leases out there, all fit beside the started ones, and a refused caller *)
(* is told the first time at which a slot is free, if there is one.        *)
THEOREM SlotsAreExact == RateSpec => []SlotsExact
<1>1. RateInv => SlotsExact
  BY RetryIsTrue DEF RateInv, SlotsExact, Slots, PendingIsLeases
<1>2. QED
  BY <1>1, RateInvInductive, PTL
==============================================================================
