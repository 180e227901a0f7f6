--------------------------- MODULE GenerationProofs ---------------------------
(***************************************************************************)
(* Proofs about the generation journal, for any number of requests, any    *)
(* routes, limits and sizes.                                               *)
(*                                                                         *)
(* The invariant has a part for each place that knows about an attempt:    *)
(* the file (Filed), the append under the mutex (Appending), the           *)
(* accounting of the process (Booked) and the requests (Owned, Retained).  *)
(* What the file says is stated for each number of its first lines, since  *)
(* a crash may leave any of those that are synced.                         *)
(***************************************************************************)
EXTENDS Generation, FiniteSetTheorems, SequenceTheorems, TLAPS

(* What the first n lines of s say. *)
LinesTo(s, n, kind) == {m \in 1 .. n : s[m].event = kind}
IdsTo(s, n, kind) == {s[m].id : m \in LinesTo(s, n, kind)}
UnfinishedTo(s, n) == IdsTo(s, n, "begin") \ IdsTo(s, n, "complete")
CountTo(s, n, kind) == Cardinality(LinesTo(s, n, kind))
SizeTo(s, n) ==
  CountTo(s, n, "header") * HeaderSize + CountTo(s, n, "begin") * BeginSize
  + CountTo(s, n, "complete") * ReceiptSize

(* The routes of P are those of the begins. *)
Routed(s, n, P) ==
  \A m \in LinesTo(s, n, "begin") : s[m].id \in DOMAIN P => P[s[m].id] = s[m].route

(* Line n + 1 may follow those before it, as Follows says. *)
FollowsAt(s, n) ==
  LET ev == s[n + 1]
  IN \/ ev.event = "header" /\ n = 0
     \/ /\ ev.event = "begin" /\ n # 0
        /\ ev.id = CountTo(s, n, "begin") + 1 /\ ev.id <= MaxCalls
        /\ Cardinality(UnfinishedTo(s, n)) < AdmissionLimit
     \/ /\ ev.event = "complete" /\ n # 0
        /\ ev.id \in UnfinishedTo(s, n)
        /\ \A m \in LinesTo(s, n, "begin") : s[m].id = ev.id => s[m].route = ev.route

(* The first n lines: their begins are numbered without a gap, and the     *)
(* receipts that they lack fit.                                            *)
Sound(s, n) ==
  /\ IdsTo(s, n, "begin") = 1 .. CountTo(s, n, "begin")
  /\ \A l, m \in LinesTo(s, n, "begin") : s[l].id = s[m].id => l = m
  /\ IdsTo(s, n, "complete") \subseteq IdsTo(s, n, "begin")
  /\ SizeTo(s, n) + Cardinality(UnfinishedTo(s, n)) * Reserve <= MaxFile

-----------------------------------------------------------------------------
Lawful(s) ==
  /\ \A n \in 0 .. Len(s) - 1 : FollowsAt(s, n)
  /\ \A n \in 0 .. Len(s) : Sound(s, n)

Filed ==
  /\ Lawful(log)
  /\ log = <<>> => ~up
  /\ log # <<>> => synced >= 1
  /\ \A n \in 1 .. Len(log) : log[n].event = "complete" => log[n].id \in validated

(* How many lines of the file the accounting of a healthy process follows. *)
Followed == IF append.stage = "sync" THEN Len(log) - 1 ELSE Len(log)

Booked ==
  /\ up /\ healthy =>
       /\ Followed >= 1
       /\ bytes = SizeTo(log, Followed)
       /\ begun = CountTo(log, Followed, "begin")
       /\ DOMAIN pending = UnfinishedTo(log, Followed)
       /\ Routed(log, Followed, pending)
  /\ ~up => \A r \in Request : task[r] = NoTask /\ r \notin InFlight

(* The room an append was admitted with is still there. *)
Appending ==
  /\ append = [by |-> append.by, stage |-> append.stage, event |-> append.event]
  /\ append.by = None => append = NoAppend
  /\ append.by # None =>
       /\ up /\ healthy
       /\ append.stage \in {"write", "sync"}
       /\ append.stage = "sync" => synced < Len(log) /\ log[Len(log)] = append.event
       /\ \/ append.event = Begin(begun + 1, route[append.by]) /\ MayBegin
          \/ append.event = Complete(id[append.by], route[append.by]) /\ MayComplete(append.by)

(* Requests that have no attempt yet, that go on with one, and that hold a *)
(* receipt for theirs.                                                     *)
Before(r) == phase[r] = "idle" \/ (phase[r] = "begin" /\ task[r] # "ok")
With(r) == phase[r] \in {"sent", "complete"} \/ (phase[r] = "begin" /\ task[r] = "ok")
Receipted(r) == phase[r] = "answered" \/ (phase[r] = "complete" /\ task[r] = "ok")

(* An attempt has one owner, who sends nothing else. *)
Owned ==
  /\ \A r \in Request : id[r] # 0 =>
       \E n \in 1 .. synced : log[n] = Begin(id[r], route[r])
  /\ \A r, q \in Request : id[r] = id[q] /\ id[r] # 0 => r = q
  /\ \A r \in Request : (Before(r) => id[r] = 0) /\ (With(r) => id[r] # 0)
  /\ \A p \in sent : p[2] = id[p[1]]

(* What was not validated is not forgotten, what is answered is receipted. *)
Retained ==
  /\ \A r \in Request :
       /\ phase[r] = "complete" \/ task[r] = "complete" => id[r] \in validated
       /\ up /\ id[r] # 0 /\ id[r] \notin validated => id[r] \in DOMAIN pending
       /\ Receipted(r) => \E n \in 1 .. synced : log[n] = Complete(id[r], route[r])

Inv == TypeOK /\ Filed /\ Booked /\ Appending /\ Owned /\ Retained

-----------------------------------------------------------------------------
(* Lines and their fields. *)
Kinds == {"header", "begin", "complete"}

LEMMA EventFields ==
  ASSUME NEW ev \in Event
  PROVE  /\ ev.event \in Kinds
         /\ ev.event = "header" => ev = Header
         /\ ev.event = "begin" =>
              ev.id \in 1 .. MaxCalls /\ ev.route \in Route /\ ev = Begin(ev.id, ev.route)
         /\ ev.event = "complete" =>
              ev.id \in 1 .. MaxCalls /\ ev.route \in Route /\ ev = Complete(ev.id, ev.route)
<1>1. CASE ev = Header
  BY <1>1 DEF Header, Kinds
<1>2. ASSUME NEW i \in 1 .. MaxCalls, NEW rt \in Route, ev = Begin(i, rt)
      PROVE  ev.event = "begin" /\ ev.id = i /\ ev.route = rt
  BY <1>2 DEF Begin
<1>3. ASSUME NEW i \in 1 .. MaxCalls, NEW rt \in Route, ev = Complete(i, rt)
      PROVE  ev.event = "complete" /\ ev.id = i /\ ev.route = rt
  BY <1>3 DEF Complete
<1>4. CASE \E i \in 1 .. MaxCalls, rt \in Route : ev = Begin(i, rt)
  BY <1>2, <1>4 DEF Kinds
<1>5. CASE \E i \in 1 .. MaxCalls, rt \in Route : ev = Complete(i, rt)
  BY <1>3, <1>5 DEF Kinds
<1>6. QED
  BY <1>1, <1>4, <1>5 DEF Event

LEMMA EventValues ==
  ASSUME NEW i, NEW rt
  PROVE  /\ Header.event = "header"
         /\ Begin(i, rt).event = "begin" /\ Begin(i, rt).id = i /\ Begin(i, rt).route = rt
         /\ Complete(i, rt).event = "complete" /\ Complete(i, rt).id = i
         /\ Complete(i, rt).route = rt
         /\ NoAppend.by = None /\ NoAppend.stage = "none"
BY DEF Header, Begin, Complete, NoAppend

LEMMA SizeFields ==
  ASSUME NEW ev \in Event
  PROVE  /\ Size(ev) \in Nat
         /\ ev.event = "header" => Size(ev) = HeaderSize
         /\ ev.event = "begin" => Size(ev) = BeginSize
         /\ ev.event = "complete" => Size(ev) = ReceiptSize
BY EventFields, GenerationAssumption DEF Size, Kinds

-----------------------------------------------------------------------------
(* Counting lines: one more line, and lines that are the same.             *)
LEMMA Distribute == \A c \in Nat, z \in Nat : (c + 1) * z = c * z + z /\ c * z \in Nat
OBVIOUS

LEMMA CountStep ==
  ASSUME NEW s, NEW n \in Nat, NEW kind
  PROVE  /\ IsFiniteSet(LinesTo(s, n, kind)) /\ CountTo(s, n, kind) \in Nat
         /\ CountTo(s, 0, kind) = 0
         /\ CountTo(s, n + 1, kind) =
              IF s[n + 1].event = kind THEN CountTo(s, n, kind) + 1 ELSE CountTo(s, n, kind)
<1>1. IsFiniteSet(LinesTo(s, n, kind))
  <2>1. IsFiniteSet(1 .. n)
    BY FS_Interval
  <2>2. QED
    BY <2>1, FS_Subset DEF LinesTo
<1>2. LinesTo(s, 0, kind) = {}
  BY DEF LinesTo
<1>3. CountTo(s, n, kind) \in Nat /\ CountTo(s, 0, kind) = 0
  BY <1>1, <1>2, FS_CardinalityType, FS_EmptySet DEF CountTo
<1>4. CASE s[n + 1].event = kind
  <2>1. LinesTo(s, n + 1, kind) = LinesTo(s, n, kind) \cup {n + 1}
        /\ n + 1 \notin LinesTo(s, n, kind)
    BY <1>4 DEF LinesTo
  <2>2. CountTo(s, n + 1, kind) = CountTo(s, n, kind) + 1
    BY <1>1, <2>1, FS_AddElement DEF CountTo
  <2>3. QED
    BY <1>1, <1>3, <1>4, <2>2
<1>5. CASE s[n + 1].event # kind
  <2>1. LinesTo(s, n + 1, kind) = LinesTo(s, n, kind)
    BY <1>5 DEF LinesTo
  <2>2. QED
    BY <1>1, <1>3, <1>5, <2>1 DEF CountTo
<1>6. QED
  BY <1>4, <1>5

LEMMA SizeNat ==
  ASSUME NEW s, NEW n \in Nat
  PROVE  SizeTo(s, n) \in Nat /\ SizeTo(s, 0) = 0
<1>1. \A kind \in Kinds : CountTo(s, n, kind) \in Nat /\ CountTo(s, 0, kind) = 0
  BY CountStep
<1>2. \A z \in Nat : 0 * z = 0
  OBVIOUS
<1>3. QED
  BY <1>1, <1>2, Distribute, GenerationAssumption DEF SizeTo, Kinds

LEMMA SizeStep ==
  ASSUME NEW s, NEW n \in Nat, s[n + 1] \in Event
  PROVE  SizeTo(s, n + 1) = SizeTo(s, n) + Size(s[n + 1])
<1> DEFINE C(kind) == CountTo(s, n, kind)
           D(kind) == CountTo(s, n + 1, kind)
           k == s[n + 1].event
<1>1. \A kind \in Kinds : /\ C(kind) \in Nat
                         /\ D(kind) = IF k = kind THEN C(kind) + 1 ELSE C(kind)
  BY CountStep
<1>2. k \in Kinds
  BY EventFields
<1>3. /\ k = "header" => Size(s[n + 1]) = HeaderSize
      /\ k = "begin" => Size(s[n + 1]) = BeginSize
      /\ k = "complete" => Size(s[n + 1]) = ReceiptSize
  BY SizeFields
<1>4. HeaderSize \in Nat /\ BeginSize \in Nat /\ ReceiptSize \in Nat
  BY GenerationAssumption
<1>5. SizeTo(s, n) = C("header") * HeaderSize + C("begin") * BeginSize + C("complete") * ReceiptSize
      /\ SizeTo(s, n + 1) =
           D("header") * HeaderSize + D("begin") * BeginSize + D("complete") * ReceiptSize
  BY DEF SizeTo
<1> HIDE DEF C, D, k
<1>6. \A z \in Nat, kind \in Kinds :
        /\ C(kind) * z \in Nat
        /\ D(kind) * z = IF k = kind THEN C(kind) * z + z ELSE C(kind) * z
  BY <1>1, Distribute
<1> DEFINE c1 == C("header") * HeaderSize
           c2 == C("begin") * BeginSize
           c3 == C("complete") * ReceiptSize
<1>7. /\ c1 \in Nat /\ c2 \in Nat /\ c3 \in Nat
      /\ D("header") * HeaderSize = IF k = "header" THEN c1 + HeaderSize ELSE c1
      /\ D("begin") * BeginSize = IF k = "begin" THEN c2 + BeginSize ELSE c2
      /\ D("complete") * ReceiptSize = IF k = "complete" THEN c3 + ReceiptSize ELSE c3
  BY <1>4, <1>6 DEF Kinds
<1>8. SizeTo(s, n) = c1 + c2 + c3
  BY <1>5
<1> HIDE DEF c1, c2, c3
<1>9. QED
  BY <1>2, <1>3, <1>4, <1>5, <1>7, <1>8 DEF Kinds

LEMMA IdsStep ==
  ASSUME NEW s, NEW n \in Nat, NEW kind
  PROVE  /\ IdsTo(s, 0, kind) = {}
         /\ IdsTo(s, n + 1, kind) =
              IF s[n + 1].event = kind THEN IdsTo(s, n, kind) \cup {s[n + 1].id}
              ELSE IdsTo(s, n, kind)
<1>1. 1 .. n + 1 = (1 .. n) \cup {n + 1}
  OBVIOUS
<1>2. 1 .. 0 = {}
  OBVIOUS
<1>3. QED
  BY <1>1, <1>2 DEF IdsTo, LinesTo

LEMMA SamePrefix ==
  ASSUME NEW s, NEW t, NEW n \in Nat, \A m \in 1 .. n : s[m] = t[m]
  PROVE  /\ \A kind : /\ LinesTo(s, n, kind) = LinesTo(t, n, kind)
                      /\ CountTo(s, n, kind) = CountTo(t, n, kind)
                      /\ IdsTo(s, n, kind) = IdsTo(t, n, kind)
         /\ SizeTo(s, n) = SizeTo(t, n)
         /\ UnfinishedTo(s, n) = UnfinishedTo(t, n)
         /\ \A P : Routed(s, n, P) <=> Routed(t, n, P)
         /\ Sound(s, n) <=> Sound(t, n)
<1>1. ASSUME NEW kind PROVE LinesTo(s, n, kind) = LinesTo(t, n, kind)
  BY DEF LinesTo
<1>2. ASSUME NEW kind PROVE CountTo(s, n, kind) = CountTo(t, n, kind)
  BY <1>1 DEF CountTo
<1>3. \A kind, m : m \in LinesTo(s, n, kind) => s[m] = t[m]
  BY DEF LinesTo
<1>4. ASSUME NEW kind PROVE IdsTo(s, n, kind) = IdsTo(t, n, kind)
  BY <1>1, <1>3 DEF IdsTo
<1>5. SizeTo(s, n) = SizeTo(t, n)
  BY <1>2 DEF SizeTo
<1>6. UnfinishedTo(s, n) = UnfinishedTo(t, n)
  BY <1>4 DEF UnfinishedTo
<1>7. ASSUME NEW P PROVE Routed(s, n, P) <=> Routed(t, n, P)
  BY <1>1, <1>3 DEF Routed
<1>8. (\A l, m \in LinesTo(s, n, "begin") : s[l].id = s[m].id => l = m)
      <=> (\A l, m \in LinesTo(t, n, "begin") : t[l].id = t[m].id => l = m)
  BY <1>1, <1>3
<1>9. Sound(s, n) <=> Sound(t, n)
  BY <1>2, <1>4, <1>5, <1>6, <1>8, Zenon DEF Sound
<1>10. QED
  BY <1>1, <1>2, <1>4, <1>5, <1>6, <1>7, <1>9

(* A prefix of a file, in the words of the module and by its length.       *)
LEMMA PrefixOf ==
  ASSUME NEW s \in Seq(Event), NEW k \in 0 .. Len(s)
  PROVE  /\ SubSeq(s, 1, k) \in Seq(Event) /\ Len(SubSeq(s, 1, k)) = k
         /\ DOMAIN SubSeq(s, 1, k) = 1 .. k
         /\ \A m \in 1 .. k : SubSeq(s, 1, k)[m] = s[m]
<1>1. \A m \in 1 .. k : s[m] \in Event
  BY ElementOfSeq
<1>2. k \in Int /\ Len(s) \in Nat /\ k >= 0
  OBVIOUS
<1>3. /\ SubSeq(s, 1, k) \in Seq(Event) /\ Len(SubSeq(s, 1, k)) = k
      /\ \A m \in 1 .. k : SubSeq(s, 1, k)[m] = s[m]
  BY <1>1, <1>2, SubSeqProperties
<1>4. QED
  BY <1>3, LenProperties

LEMMA WholeFile ==
  ASSUME NEW s \in Seq(Event)
  PROVE  /\ SizeOf(s) = SizeTo(s, Len(s))
         /\ Begun(s) = CountTo(s, Len(s), "begin")
         /\ Unfinished(s) = UnfinishedTo(s, Len(s))
         /\ Lines(s, "begin") = LinesTo(s, Len(s), "begin")
<1>1. DOMAIN s = 1 .. Len(s)
  BY LenProperties
<1>2. \A kind : Lines(s, kind) = LinesTo(s, Len(s), kind)
  BY <1>1 DEF Lines, LinesTo
<1>3. QED
  BY <1>2 DEF SizeOf, SizeTo, CountTo, Begun, Unfinished, UnfinishedTo, IdsTo

LEMMA PrefixSays ==
  ASSUME NEW s \in Seq(Event), NEW k \in 0 .. Len(s)
  PROVE  /\ SizeOf(SubSeq(s, 1, k)) = SizeTo(s, k)
         /\ Begun(SubSeq(s, 1, k)) = CountTo(s, k, "begin")
         /\ Unfinished(SubSeq(s, 1, k)) = UnfinishedTo(s, k)
         /\ Lines(SubSeq(s, 1, k), "begin") = LinesTo(s, k, "begin")
<1> DEFINE t == SubSeq(s, 1, k)
<1>1. t \in Seq(Event) /\ Len(t) = k /\ \A m \in 1 .. k : t[m] = s[m]
  BY PrefixOf
<1> HIDE DEF t
<1>2. /\ SizeOf(t) = SizeTo(t, k) /\ Begun(t) = CountTo(t, k, "begin")
      /\ Unfinished(t) = UnfinishedTo(t, k) /\ Lines(t, "begin") = LinesTo(t, k, "begin")
  BY <1>1, WholeFile
<1>3. k \in Nat
  OBVIOUS
<1>4. /\ SizeTo(t, k) = SizeTo(s, k) /\ UnfinishedTo(t, k) = UnfinishedTo(s, k)
      /\ \A kind : /\ LinesTo(t, k, kind) = LinesTo(s, k, kind)
                   /\ CountTo(t, k, kind) = CountTo(s, k, kind)
  <2>1. \A m \in 1 .. k : t[m] = s[m]
    BY <1>1
  <2>2. QED
    BY <1>3, <2>1, SamePrefix
<1>5. QED
  BY <1>2, <1>4 DEF t

(* The pending attempts that open() computes have the routes of their      *)
(* begins, since each id is begun once.                                    *)
LEMMA PendingRouted ==
  ASSUME NEW s \in Seq(Event), NEW k \in 0 .. Len(s), Sound(s, k)
  PROVE  /\ DOMAIN Pending(SubSeq(s, 1, k)) = UnfinishedTo(s, k)
         /\ Routed(s, k, Pending(SubSeq(s, 1, k)))
<1> DEFINE t == SubSeq(s, 1, k)
           P == Pending(t)
           at(i) == CHOOSE n \in Lines(t, "begin") : t[n].id = i
<1>1. /\ Unfinished(t) = UnfinishedTo(s, k) /\ Lines(t, "begin") = LinesTo(s, k, "begin")
      /\ \A m \in 1 .. k : t[m] = s[m]
  BY PrefixOf, PrefixSays
<1>2. DOMAIN P = UnfinishedTo(s, k) /\ \A i \in UnfinishedTo(s, k) : P[i] = t[at(i)].route
  BY <1>1 DEF Pending
<1>3. ASSUME NEW m \in LinesTo(s, k, "begin"), s[m].id \in DOMAIN P
      PROVE  P[s[m].id] = s[m].route
  <2>1. m \in Lines(t, "begin") /\ t[m].id = s[m].id
    BY <1>1 DEF LinesTo
  <2>2. at(s[m].id) \in Lines(t, "begin") /\ t[at(s[m].id)].id = s[m].id
    BY <2>1
  <2> HIDE DEF at
  <2>3. at(s[m].id) \in LinesTo(s, k, "begin") /\ t[at(s[m].id)] = s[at(s[m].id)]
    BY <1>1, <2>2 DEF LinesTo
  <2>4. s[at(s[m].id)].id = s[m].id
    BY <2>2, <2>3
  <2>5. at(s[m].id) = m
    BY <2>3, <2>4 DEF Sound
  <2>6. QED
    BY <1>2, <1>3, <2>3, <2>5
<1>4. QED
  BY <1>2, <1>3 DEF Routed

(* The first n lines name as many unfinished attempts at most.             *)
LEMMA UnfinishedFinite ==
  ASSUME NEW s, NEW n \in Nat, Sound(s, n)
  PROVE  /\ IsFiniteSet(UnfinishedTo(s, n))
         /\ Cardinality(UnfinishedTo(s, n)) \in Nat
         /\ CountTo(s, n, "begin") \in Nat
         /\ UnfinishedTo(s, n) \subseteq 1 .. CountTo(s, n, "begin")
<1>1. CountTo(s, n, "begin") \in Nat
  BY CountStep
<1>2. UnfinishedTo(s, n) \subseteq 1 .. CountTo(s, n, "begin")
  BY DEF Sound, UnfinishedTo
<1>3. IsFiniteSet(1 .. CountTo(s, n, "begin"))
  BY <1>1, FS_Interval
<1>4. IsFiniteSet(UnfinishedTo(s, n))
  BY <1>2, <1>3, FS_Subset
<1>5. QED
  BY <1>1, <1>2, <1>4, FS_CardinalityType

LEMMA SoundStart == ASSUME NEW s PROVE Sound(s, 0)
<1>1. LinesTo(s, 0, "begin") = {} /\ IdsTo(s, 0, "begin") = {} /\ IdsTo(s, 0, "complete") = {}
  <2>1. 0 \in Nat /\ 1 .. 0 = {}
    OBVIOUS
  <2>2. QED
    BY <2>1, IdsStep DEF LinesTo
<1>2. CountTo(s, 0, "begin") = 0 /\ SizeTo(s, 0) = 0
  BY CountStep, SizeNat
<1>3. UnfinishedTo(s, 0) = {} /\ Cardinality(UnfinishedTo(s, 0)) = 0
  BY <1>1, FS_EmptySet DEF UnfinishedTo
<1>4. 0 * Reserve = 0 /\ 0 <= MaxFile /\ 1 .. 0 = {}
  BY GenerationAssumption
<1>5. QED
  <2>1. \A l, m \in LinesTo(s, 0, "begin") : s[l].id = s[m].id => l = m
    BY <1>1
  <2>2. SizeTo(s, 0) + Cardinality(UnfinishedTo(s, 0)) * Reserve <= MaxFile
    BY <1>2, <1>3, <1>4
  <2>3. QED
    BY <1>1, <1>2, <1>4, <2>1, <2>2 DEF Sound

(* The first n lines and one more. *)
LEMMA LinesAdded ==
  ASSUME NEW s, NEW n \in Nat, NEW kind
  PROVE  \A m \in LinesTo(s, n + 1, kind) :
           m \in LinesTo(s, n, kind) \/ (m = n + 1 /\ s[n + 1].event = kind)
BY DEF LinesTo

LEMMA HeaderAdded ==
  ASSUME NEW s, s[1] = Header
  PROVE  /\ Sound(s, 1) /\ CountTo(s, 1, "begin") = 0 /\ UnfinishedTo(s, 1) = {}
         /\ SizeTo(s, 1) = HeaderSize
<1>1. 0 \in Nat /\ 0 + 1 = 1 /\ 1 .. 0 = {} /\ 0 * Reserve = 0
  BY GenerationAssumption
<1>2. s[1].event = "header" /\ s[1] \in Event
  BY EventValues DEF Event
<1>3. /\ IdsTo(s, 1, "begin") = {} /\ IdsTo(s, 1, "complete") = {}
      /\ CountTo(s, 1, "begin") = 0
  <2>1. /\ \A kind : IdsTo(s, 0 + 1, kind) = IF s[0 + 1].event = kind
                          THEN IdsTo(s, 0, kind) \cup {s[0 + 1].id} ELSE IdsTo(s, 0, kind)
        /\ \A kind : IdsTo(s, 0, kind) = {}
    BY <1>1, IdsStep
  <2>2. /\ \A kind : CountTo(s, 0 + 1, kind) = IF s[0 + 1].event = kind
                          THEN CountTo(s, 0, kind) + 1 ELSE CountTo(s, 0, kind)
        /\ \A kind : CountTo(s, 0, kind) = 0
    BY <1>1, CountStep
  <2>3. QED
    BY <1>1, <1>2, <2>1, <2>2
<1>4. \A m : m \notin LinesTo(s, 1, "begin")
  BY <1>2 DEF LinesTo
<1>5. UnfinishedTo(s, 1) = {} /\ Cardinality(UnfinishedTo(s, 1)) = 0
  BY <1>3, FS_EmptySet DEF UnfinishedTo
<1>6. SizeTo(s, 1) = HeaderSize
  <2>1. SizeTo(s, 0 + 1) = SizeTo(s, 0) + Size(s[0 + 1])
    BY <1>1, <1>2, SizeStep
  <2>2. SizeTo(s, 0) = 0 /\ Size(s[1]) = HeaderSize
    BY <1>1, <1>2, SizeNat, SizeFields
  <2>3. QED
    BY <1>1, <2>1, <2>2, GenerationAssumption
<1>7. SizeTo(s, 1) + Cardinality(UnfinishedTo(s, 1)) * Reserve <= MaxFile
  BY <1>1, <1>5, <1>6, GenerationAssumption
<1>8. QED
  BY <1>1, <1>3, <1>4, <1>5, <1>6, <1>7 DEF Sound

LEMMA BeginAdded ==
  ASSUME NEW s, NEW n \in Nat, Sound(s, n), s[n + 1] \in Event, s[n + 1].event = "begin",
         s[n + 1].id = CountTo(s, n, "begin") + 1,
         SizeTo(s, n) + BeginSize + (Cardinality(UnfinishedTo(s, n)) + 1) * Reserve <= MaxFile
  PROVE  /\ Sound(s, n + 1)
         /\ CountTo(s, n + 1, "begin") = s[n + 1].id
         /\ UnfinishedTo(s, n + 1) = UnfinishedTo(s, n) \cup {s[n + 1].id}
         /\ SizeTo(s, n + 1) = SizeTo(s, n) + BeginSize
<1> DEFINE i == s[n + 1].id
           c == CountTo(s, n, "begin")
           U == UnfinishedTo(s, n)
<1>1. /\ IdsTo(s, n, "begin") = 1 .. c
      /\ \A l, m \in LinesTo(s, n, "begin") : s[l].id = s[m].id => l = m
      /\ IdsTo(s, n, "complete") \subseteq 1 .. c
  BY DEF Sound
<1>2. c \in Nat /\ IsFiniteSet(U) /\ Cardinality(U) \in Nat /\ U \subseteq 1 .. c
  BY UnfinishedFinite
<1>3. /\ CountTo(s, n + 1, "begin") = c + 1
      /\ IdsTo(s, n + 1, "begin") = IdsTo(s, n, "begin") \cup {i}
      /\ IdsTo(s, n + 1, "complete") = IdsTo(s, n, "complete")
  <2>1. \A kind : IdsTo(s, n + 1, kind) = IF s[n + 1].event = kind
                     THEN IdsTo(s, n, kind) \cup {s[n + 1].id} ELSE IdsTo(s, n, kind)
    BY IdsStep
  <2>2. \A kind : CountTo(s, n + 1, kind) = IF s[n + 1].event = kind
                     THEN CountTo(s, n, kind) + 1 ELSE CountTo(s, n, kind)
    BY CountStep
  <2>3. QED
    BY <2>1, <2>2
<1>4. i = c + 1 /\ i \notin 1 .. c /\ (1 .. c) \cup {i} = 1 .. c + 1 /\ 1 .. c \subseteq 1 .. c + 1
  BY <1>2
<1>5. UnfinishedTo(s, n + 1) = U \cup {i}
  BY <1>1, <1>3, <1>4 DEF UnfinishedTo
<1>6. Cardinality(UnfinishedTo(s, n + 1)) = Cardinality(U) + 1
  BY <1>2, <1>4, <1>5, FS_AddElement
<1>7. SizeTo(s, n + 1) = SizeTo(s, n) + BeginSize
  BY SizeStep, SizeFields
<1>8. \A m \in LinesTo(s, n, "begin") : s[m].id # i
  BY <1>1, <1>4 DEF IdsTo
<1>9. \A l, m \in LinesTo(s, n + 1, "begin") : s[l].id = s[m].id => l = m
  BY <1>1, <1>8, LinesAdded
<1>10. IdsTo(s, n + 1, "begin") = 1 .. c + 1
       /\ IdsTo(s, n + 1, "complete") \subseteq IdsTo(s, n + 1, "begin")
  BY <1>1, <1>3, <1>4
<1>11. SizeTo(s, n + 1) + Cardinality(UnfinishedTo(s, n + 1)) * Reserve <= MaxFile
  BY <1>6, <1>7
<1>12. QED
  BY <1>3, <1>4, <1>5, <1>7, <1>9, <1>10, <1>11 DEF Sound

LEMMA CompleteAdded ==
  ASSUME NEW s, NEW n \in Nat, Sound(s, n), s[n + 1] \in Event, s[n + 1].event = "complete",
         s[n + 1].id \in UnfinishedTo(s, n)
  PROVE  /\ Sound(s, n + 1)
         /\ CountTo(s, n + 1, "begin") = CountTo(s, n, "begin")
         /\ UnfinishedTo(s, n + 1) = UnfinishedTo(s, n) \ {s[n + 1].id}
         /\ SizeTo(s, n + 1) = SizeTo(s, n) + ReceiptSize
<1> DEFINE i == s[n + 1].id
           U == UnfinishedTo(s, n)
           V == UnfinishedTo(s, n + 1)
<1>1. /\ IdsTo(s, n, "begin") = 1 .. CountTo(s, n, "begin")
      /\ \A l, m \in LinesTo(s, n, "begin") : s[l].id = s[m].id => l = m
      /\ IdsTo(s, n, "complete") \subseteq IdsTo(s, n, "begin")
      /\ SizeTo(s, n) + Cardinality(U) * Reserve <= MaxFile
  BY DEF Sound
<1>2. /\ CountTo(s, n + 1, "begin") = CountTo(s, n, "begin")
      /\ IdsTo(s, n + 1, "begin") = IdsTo(s, n, "begin")
      /\ IdsTo(s, n + 1, "complete") = IdsTo(s, n, "complete") \cup {i}
  <2>1. \A kind : IdsTo(s, n + 1, kind) = IF s[n + 1].event = kind
                     THEN IdsTo(s, n, kind) \cup {s[n + 1].id} ELSE IdsTo(s, n, kind)
    BY IdsStep
  <2>2. \A kind : CountTo(s, n + 1, kind) = IF s[n + 1].event = kind
                     THEN CountTo(s, n, kind) + 1 ELSE CountTo(s, n, kind)
    BY CountStep
  <2>3. QED
    BY <2>1, <2>2
<1>3. V = U \ {i} /\ i \in IdsTo(s, n, "begin")
  BY <1>2 DEF UnfinishedTo
<1>4. IsFiniteSet(U) /\ Cardinality(U) \in Nat
  BY UnfinishedFinite
<1>5. /\ Cardinality(V) = Cardinality(U) - 1 /\ Cardinality(V) \in Nat
  <2>1. Cardinality(V) = Cardinality(U) - 1
    BY <1>3, <1>4, FS_RemoveElement
  <2>2. IsFiniteSet(V)
    BY <1>3, <1>4, FS_Subset
  <2>3. QED
    BY <2>1, <2>2, FS_CardinalityType
<1>6. SizeTo(s, n + 1) = SizeTo(s, n) + ReceiptSize /\ SizeTo(s, n) \in Nat
  BY SizeStep, SizeFields, SizeNat
<1>7. \A l, m \in LinesTo(s, n + 1, "begin") : s[l].id = s[m].id => l = m
  BY <1>1, LinesAdded
<1>8. SizeTo(s, n + 1) + Cardinality(V) * Reserve <= MaxFile
  <2>1. Cardinality(U) * Reserve = Cardinality(V) * Reserve + Reserve
        /\ Cardinality(V) * Reserve \in Nat
    <3>1. Cardinality(U) = Cardinality(V) + 1
      BY <1>4, <1>5
    <3>2. QED
      BY <1>5, <3>1, Distribute, GenerationAssumption
  <2>2. QED
    BY <1>1, <1>6, <2>1, GenerationAssumption
<1>9. QED
  BY <1>1, <1>2, <1>3, <1>6, <1>7, <1>8 DEF Sound

-----------------------------------------------------------------------------
(* Lawful files: a prefix is lawful, and so is a file with a line more     *)
(* that follows; open() accepts each of them.                              *)
LEMMA FollowsSame ==
  ASSUME NEW s, NEW t, NEW n \in Nat, \A m \in 1 .. n + 1 : s[m] = t[m], FollowsAt(s, n)
  PROVE  FollowsAt(t, n)
<1>1. \A m \in 1 .. n : s[m] = t[m]
  OBVIOUS
<1>2. /\ \A kind : /\ LinesTo(s, n, kind) = LinesTo(t, n, kind)
                   /\ CountTo(s, n, kind) = CountTo(t, n, kind)
      /\ UnfinishedTo(s, n) = UnfinishedTo(t, n)
  BY <1>1, SamePrefix
<1>3. s[n + 1] = t[n + 1]
  OBVIOUS
<1>4. \A m \in LinesTo(s, n, "begin") : s[m] = t[m]
  BY <1>1 DEF LinesTo
<1>5. CASE s[n + 1].event = "complete"
  <2>1. /\ n # 0 /\ s[n + 1].id \in UnfinishedTo(s, n)
        /\ \A m \in LinesTo(s, n, "begin") :
             s[m].id = s[n + 1].id => s[m].route = s[n + 1].route
    BY <1>5 DEF FollowsAt
  <2>2. \A m \in LinesTo(t, n, "begin") :
          t[m].id = t[n + 1].id => t[m].route = t[n + 1].route
    BY <1>2, <1>3, <1>4, <2>1
  <2>3. QED
    BY <1>2, <1>3, <1>5, <2>1, <2>2 DEF FollowsAt
<1>6. CASE s[n + 1].event # "complete"
  BY <1>2, <1>3, <1>6 DEF FollowsAt
<1>7. QED
  BY <1>5, <1>6

LEMMA LawfulCarry ==
  ASSUME NEW s \in Seq(Event), NEW t \in Seq(Event), Len(t) <= Len(s),
         \A m \in 1 .. Len(t) : s[m] = t[m], Lawful(s)
  PROVE  Lawful(t)
<1>1. Len(s) \in Nat /\ Len(t) \in Nat
  BY LenProperties
<1>2. ASSUME NEW n \in 0 .. Len(t) - 1 PROVE FollowsAt(t, n)
  <2>1. n \in Nat /\ n \in 0 .. Len(s) - 1 /\ \A m \in 1 .. n + 1 : s[m] = t[m]
    BY <1>1
  <2>2. FollowsAt(s, n)
    BY <2>1 DEF Lawful
  <2>3. QED
    BY <2>1, <2>2, FollowsSame
<1>3. ASSUME NEW n \in 0 .. Len(t) PROVE Sound(t, n)
  <2>1. n \in Nat /\ n \in 0 .. Len(s) /\ \A m \in 1 .. n : s[m] = t[m]
    BY <1>1
  <2>2. Sound(s, n)
    BY <2>1 DEF Lawful
  <2>3. QED
    BY <2>1, <2>2, SamePrefix
<1>4. QED
  BY <1>2, <1>3 DEF Lawful

LEMMA LineAppended ==
  ASSUME NEW s \in Seq(Event), NEW ev \in Event
  PROVE  /\ Append(s, ev) \in Seq(Event) /\ Len(Append(s, ev)) = Len(s) + 1
         /\ \A m \in 1 .. Len(s) : Append(s, ev)[m] = s[m] /\ Append(s, ev)[m] \in Event
         /\ Append(s, ev)[Len(s) + 1] = ev
BY AppendProperties, ElementOfSeq

LEMMA LawfulAppend ==
  ASSUME NEW s \in Seq(Event), NEW ev \in Event, Lawful(s),
         FollowsAt(Append(s, ev), Len(s)), Sound(Append(s, ev), Len(s) + 1)
  PROVE  Lawful(Append(s, ev))
<1> DEFINE t == Append(s, ev)
<1>1. /\ t \in Seq(Event) /\ Len(t) = Len(s) + 1 /\ Len(s) \in Nat
      /\ \A m \in 1 .. Len(s) : t[m] = s[m]
  BY LineAppended, LenProperties
<1> HIDE DEF t
<1>2. ASSUME NEW n \in 0 .. Len(t) - 1 PROVE FollowsAt(t, n)
  <2>1. CASE n = Len(s)
    BY <2>1 DEF t
  <2>2. CASE n # Len(s)
    <3>1. n \in Nat /\ n \in 0 .. Len(s) - 1 /\ \A m \in 1 .. n + 1 : s[m] = t[m]
      BY <1>1, <2>2
    <3>2. FollowsAt(s, n)
      BY <3>1 DEF Lawful
    <3>3. QED
      BY <3>1, <3>2, FollowsSame
  <2>3. QED
    BY <2>1, <2>2
<1>3. ASSUME NEW n \in 0 .. Len(t) PROVE Sound(t, n)
  <2>1. CASE n = Len(s) + 1
    BY <2>1 DEF t
  <2>2. CASE n # Len(s) + 1
    <3>1. n \in Nat /\ n \in 0 .. Len(s) /\ \A m \in 1 .. n : s[m] = t[m]
      BY <1>1, <2>2
    <3>2. Sound(s, n)
      BY <3>1 DEF Lawful
    <3>3. QED
      BY <3>1, <3>2, SamePrefix
  <2>3. QED
    BY <2>1, <2>2
<1>4. QED
  BY <1>2, <1>3 DEF Lawful, t

LEMMA LawfulAccepted ==
  ASSUME NEW s \in Seq(Event), s # <<>>, Lawful(s)
  PROVE  Accepted(s)
<1>1. Len(s) \in Nat /\ DOMAIN s = 1 .. Len(s) /\ Len(s) # 0
  BY LenProperties, EmptySeq
<1>2. SizeOf(s) <= MaxFile
  <2>1. Sound(s, Len(s)) /\ SizeOf(s) = SizeTo(s, Len(s))
    BY <1>1, WholeFile DEF Lawful
  <2>2. SizeTo(s, Len(s)) \in Nat /\ Cardinality(UnfinishedTo(s, Len(s))) * Reserve \in Nat
    BY <1>1, <2>1, SizeNat, UnfinishedFinite, Distribute, GenerationAssumption
  <2>3. SizeTo(s, Len(s)) + Cardinality(UnfinishedTo(s, Len(s))) * Reserve <= MaxFile
    BY <2>1 DEF Sound
  <2>4. QED
    BY <2>1, <2>2, <2>3, GenerationAssumption
<1>3. ASSUME NEW n \in DOMAIN s PROVE Follows(SubSeq(s, 1, n - 1), s[n])
  <2> DEFINE k == n - 1
             t == SubSeq(s, 1, k)
  <2>1. k \in Nat /\ k \in 0 .. Len(s) - 1 /\ k \in 0 .. Len(s) /\ k + 1 = n
    BY <1>1
  <2>2. FollowsAt(s, k) /\ Sound(s, k)
    BY <2>1 DEF Lawful
  <2>3. /\ t \in Seq(Event) /\ Len(t) = k
        /\ Begun(t) = CountTo(s, k, "begin") /\ Unfinished(t) = UnfinishedTo(s, k)
    BY <2>1, PrefixOf, PrefixSays
  <2>4. t = <<>> <=> k = 0
    BY <2>3, EmptySeq
  <2>5. DOMAIN Pending(t) = UnfinishedTo(s, k) /\ Routed(s, k, Pending(t))
    BY <2>1, <2>2, PendingRouted
  <2> HIDE DEF t, k
  <2>6. CASE s[n].event = "complete"
    <3>1. /\ k # 0 /\ s[n].id \in UnfinishedTo(s, k)
          /\ \A m \in LinesTo(s, k, "begin") : s[m].id = s[n].id => s[m].route = s[n].route
      BY <2>1, <2>2, <2>6 DEF FollowsAt
    <3>2. PICK m \in LinesTo(s, k, "begin") : s[m].id = s[n].id
      BY <3>1 DEF UnfinishedTo, IdsTo
    <3>3. Pending(t)[s[n].id] = s[n].route
      BY <2>5, <3>1, <3>2 DEF Routed
    <3>4. Follows(t, s[n])
      BY <2>3, <2>4, <2>6, <3>1, <3>3 DEF Follows
    <3>5. QED
      BY <3>4 DEF t, k
  <2>7. CASE s[n].event # "complete"
    <3>1. Follows(t, s[n])
      BY <2>1, <2>2, <2>3, <2>4, <2>7 DEF Follows, FollowsAt
    <3>2. QED
      BY <3>1 DEF t, k
  <2>8. QED
    BY <2>6, <2>7
<1>4. QED
  BY <1>2, <1>3 DEF Accepted

-----------------------------------------------------------------------------
(* The accounting after one more line. *)
LEMMA RoutedBegin ==
  ASSUME NEW s, NEW n \in Nat, NEW P, NEW Q, Sound(s, n), Routed(s, n, P),
         s[n + 1].event = "begin", s[n + 1].id = CountTo(s, n, "begin") + 1,
         DOMAIN Q = DOMAIN P \cup {s[n + 1].id},
         \A i \in DOMAIN Q : Q[i] = IF i = s[n + 1].id THEN s[n + 1].route ELSE P[i]
  PROVE  Routed(s, n + 1, Q)
<1> DEFINE j == s[n + 1].id
<1>1. ASSUME NEW m \in LinesTo(s, n + 1, "begin"), s[m].id \in DOMAIN Q
      PROVE  Q[s[m].id] = s[m].route
  <2>1. CASE m = n + 1
    BY <1>1, <2>1
  <2>2. CASE m \in LinesTo(s, n, "begin")
    <3>1. CountTo(s, n, "begin") \in Nat
      BY CountStep
    <3>2. s[m].id \in 1 .. CountTo(s, n, "begin")
      BY <2>2 DEF Sound, IdsTo
    <3>3. s[m].id # j
      BY <3>1, <3>2
    <3>4. s[m].id \in DOMAIN P
      BY <1>1, <3>3
    <3>5. QED
      BY <1>1, <2>2, <3>3, <3>4 DEF Routed
  <2>3. QED
    BY <2>1, <2>2, LinesAdded
<1>2. QED
  BY <1>1 DEF Routed

LEMMA RoutedComplete ==
  ASSUME NEW s, NEW n \in Nat, NEW P, NEW Q, Routed(s, n, P), s[n + 1].event = "complete",
         DOMAIN Q \subseteq DOMAIN P, \A i \in DOMAIN Q : Q[i] = P[i]
  PROVE  Routed(s, n + 1, Q)
<1>1. \A m \in LinesTo(s, n + 1, "begin") : m \in LinesTo(s, n, "begin")
  BY LinesAdded
<1>2. QED
  BY <1>1 DEF Routed

-----------------------------------------------------------------------------
LEMMA InitHolds == Init => Inv
<1> SUFFICES ASSUME Init PROVE Inv
  OBVIOUS
<1> USE DEF Init
<1>1. log = <<>> /\ Len(log) = 0 /\ log \in Seq(Event)
  BY EmptySeq
<1>2. TypeOK
  <2>1. DOMAIN pending = {}
    OBVIOUS
  <2>2. NoAppend.by = None
    BY EventValues
  <2>3. MaxFile \in Nat /\ MaxCalls \in Nat /\ MaxStops \in Nat
    BY GenerationAssumption
  <2>4. Running = {}
    BY DEF Running, NoTask
  <2>5. /\ phase \in [Request -> {"idle", "begin", "sent", "complete", "answered", "failed", "lost"}]
        /\ task \in [Request -> {"none", "begin", "complete", "ok", "failed"}]
        /\ id \in [Request -> 0 .. MaxCalls]
    BY <2>3 DEF NoTask
  <2>6. /\ synced \in 0 .. Len(log) /\ stops \in 0 .. MaxStops /\ bytes \in 0 .. MaxFile
        /\ begun \in 0 .. MaxCalls
    BY <1>1, <2>3
  <2>7. QED
    BY <1>1, <2>1, <2>2, <2>4, <2>5, <2>6 DEF TypeOK
<1>3. Filed
  <2>1. Lawful(log)
    <3>1. \A n \in 0 .. Len(log) - 1 : FALSE
      BY <1>1
    <3>2. \A n \in 0 .. Len(log) : n = 0
      BY <1>1
    <3>3. QED
      BY <3>1, <3>2, SoundStart DEF Lawful
  <2>2. \A n \in 1 .. Len(log) : FALSE
    BY <1>1
  <2>3. QED
    BY <1>1, <2>1, <2>2 DEF Filed
<1>4. Booked
  BY DEF Booked, InFlight, NoTask
<1>5. Appending
  BY EventValues DEF Appending, NoAppend
<1>6. Owned
  BY DEF Owned, With
<1>7. Retained
  BY DEF Retained, Receipted, NoTask
<1>8. QED
  BY <1>2, <1>3, <1>4, <1>5, <1>6, <1>7 DEF Inv

-----------------------------------------------------------------------------
(* Parts of the invariant that a step does not touch. *)
LEMMA FiledFrame ==
  ASSUME Filed, UNCHANGED <<log, synced>>, up' => up, validated \subseteq validated'
  PROVE  Filed'
BY DEF Filed

LEMMA BookedFrame ==
  ASSUME Booked, log' = log, append'.stage = "sync" <=> append.stage = "sync",
         UNCHANGED <<up, Journal>>,
         up \/ UNCHANGED <<phase, task>>
  PROVE  Booked'
<1>1. Followed' = Followed
  BY DEF Followed
<1>2. up /\ healthy =>
        /\ Followed' >= 1 /\ bytes' = SizeTo(log', Followed')
        /\ begun' = CountTo(log', Followed', "begin")
        /\ DOMAIN pending' = UnfinishedTo(log', Followed')
        /\ Routed(log', Followed', pending')
  BY <1>1 DEF Booked, Journal
<1>3. QED
  BY <1>2 DEF Booked, Journal, InFlight

LEMMA AppendingFrame ==
  ASSUME Appending, UNCHANGED <<log, synced, up, Journal, append, route, id>>
  PROVE  Appending'
BY DEF Appending, Journal, MayBegin, MayComplete, Room

-----------------------------------------------------------------------------
(* A request moves to phase p and its task to k, or one of them stays.     *)
Phases == {"idle", "begin", "sent", "complete", "answered", "failed", "lost"}
Tasks == {"none", "begin", "complete", "ok", "failed"}

LEMMA Moved ==
  ASSUME Inv, up, NEW r \in Request, NEW p \in Phases, NEW k \in Tasks,
         phase' = [phase EXCEPT ![r] = p], task' = [task EXCEPT ![r] = k],
         UNCHANGED <<File, Process, Journal, append, route, id>>,
         append.by # r \/ k = task[r],
         k \in {"begin", "complete"} => p \in {k, "failed"},
         p = "idle" \/ (p = "begin" /\ k # "ok") => id[r] = 0,
         p \in {"sent", "complete"} \/ (p = "begin" /\ k = "ok") => id[r] # 0,
         p = "complete" \/ k = "complete" => id[r] \in validated',
         p = "answered" \/ (p = "complete" /\ k = "ok") => Receipted(r),
         sent' = sent \/ (sent' = sent \cup {<<r, id[r]>>} /\ id[r] # 0),
         validated' = validated \/ (validated' = validated \cup {id[r]} /\ id[r] # 0)
  PROVE  Inv'
<1> USE DEF File, Process
<1>1. /\ phase \in [Request -> Phases] /\ task \in [Request -> Tasks]
      /\ id \in [Request -> 0 .. MaxCalls] /\ MaxCalls \in Nat
  BY GenerationAssumption DEF Inv, TypeOK, Phases, Tasks
<1>2. /\ phase' \in [Request -> Phases] /\ task' \in [Request -> Tasks]
      /\ phase'[r] = p /\ task'[r] = k
      /\ \A q \in Request : q # r => phase'[q] = phase[q] /\ task'[q] = task[q]
  BY <1>1
<1>3. validated \subseteq validated' /\ validated' \subseteq 1 .. MaxCalls
      /\ sent' \subseteq Request \X (1 .. MaxCalls)
  <2>1. id[r] # 0 => id[r] \in 1 .. MaxCalls
    BY <1>1
  <2>2. validated \subseteq 1 .. MaxCalls /\ sent \subseteq Request \X (1 .. MaxCalls)
    BY DEF Inv, TypeOK
  <2>3. id[r] # 0 => <<r, id[r]>> \in Request \X (1 .. MaxCalls)
    BY <2>1
  <2>4. sent' \subseteq Request \X (1 .. MaxCalls)
    BY <2>2, <2>3
  <2>5. validated \subseteq validated' /\ validated' \subseteq 1 .. MaxCalls
    BY <2>1, <2>2
  <2>6. QED
    BY <2>4, <2>5
<1>4. \A q \in Running' : phase'[q] \in {task'[q], "failed"}
  BY <1>2 DEF Inv, TypeOK, Running
<1>5. append'.by # None =>
        append'.by \in Running' /\ task'[append'.by] = append'.event.event
  BY <1>2 DEF Inv, TypeOK, Running
<1>6. TypeOK'
  <2>1. TypeOK
    BY DEF Inv
  <2>2. QED
    BY <1>2, <1>3, <1>4, <1>5, <2>1 DEF TypeOK, Journal, Phases, Tasks
<1>7. Filed'
  BY <1>3, FiledFrame DEF Inv
<1>8. Booked'
  BY BookedFrame DEF Inv
<1>9. Appending'
  BY AppendingFrame DEF Inv
<1>10. Owned'
  <2>1. ASSUME NEW q \in Request PROVE Before(q)' => id[q] = 0
    BY <1>2 DEF Inv, Owned, Before
  <2>2. ASSUME NEW q \in Request PROVE With(q)' => id[q] # 0
    BY <1>2 DEF Inv, Owned, With
  <2>3. \A x \in sent' : x[2] = id[x[1]]
    BY DEF Inv, Owned
  <2>4. QED
    BY <2>1, <2>2, <2>3 DEF Inv, Owned
<1>11. Retained'
  <2>1. ASSUME NEW q \in Request PROVE phase'[q] = "complete" \/ task'[q] = "complete" => id[q] \in validated'
    BY <1>2, <1>3 DEF Inv, Retained
  <2>2. ASSUME NEW q \in Request, Receipted(q)' PROVE Receipted(q)
    BY <1>2, <2>2 DEF Receipted
  <2>3. ASSUME NEW q \in Request, id[q] # 0, id[q] \notin validated' PROVE id[q] \in DOMAIN pending
    BY <1>3, <2>3 DEF Inv, Retained
  <2>4. ASSUME NEW q \in Request, Receipted(q)'
        PROVE  \E n \in 1 .. synced : log[n] = Complete(id[q], route[q])
    BY <2>2, <2>4 DEF Inv, Retained
  <2>5. QED
    BY <2>1, <2>3, <2>4 DEF Retained, Journal
<1>12. QED
  BY <1>6, <1>7, <1>8, <1>9, <1>10, <1>11 DEF Inv

(* Whoever is in flight, or has a task, belongs to a process that is up.   *)
LEMMA Alive ==
  ASSUME Inv, NEW r \in Request
  PROVE  /\ task[r] # "none" \/ phase[r] \in {"begin", "sent", "complete"} => up
         /\ r \notin Running => append.by # r
         /\ task[r] \in {"begin", "complete"} => phase[r] \in {task[r], "failed"}
         /\ phase[r] \in Phases /\ task[r] \in Tasks
         /\ phase \in [Request -> Phases] /\ task \in [Request -> Tasks]
         /\ phase = [phase EXCEPT ![r] = phase[r]] /\ task = [task EXCEPT ![r] = task[r]]
<1>1. phase \in [Request -> Phases] /\ task \in [Request -> Tasks]
  BY DEF Inv, TypeOK, Phases, Tasks
<1>2. task[r] # "none" \/ phase[r] \in {"begin", "sent", "complete"} => up
  BY DEF Inv, Booked, InFlight, NoTask
<1>3. r \notin Running => append.by # r
  BY GenerationAssumption DEF Inv, TypeOK
<1>4. task[r] \in {"begin", "complete"} => phase[r] \in {task[r], "failed"}
  BY DEF Inv, TypeOK, Running
<1>5. QED
  BY <1>1, <1>2, <1>3, <1>4

LEMMA ArriveStep == \A r \in Request : Inv /\ Arrive(r) => Inv'
<1> SUFFICES ASSUME NEW r \in Request, Inv, Arrive(r) PROVE Inv'
  OBVIOUS
<1> USE DEF Arrive
<1>1. id[r] = 0
  BY DEF Inv, Owned, Before
<1>2. append.by # r
  BY Alive DEF Running
<1>3. UNCHANGED <<File, Process, Journal, append, route, id>> /\ UNCHANGED <<sent, validated>>
  BY DEF History
<1>4. QED
  BY <1>1, <1>2, <1>3, Moved DEF Phases, Tasks

LEMMA SendStep == \A r \in Request : Inv /\ Send(r) => Inv'
<1> SUFFICES ASSUME NEW r \in Request, Inv, Send(r) PROVE Inv'
  OBVIOUS
<1> USE DEF Send
<1>1. id[r] # 0 /\ up
  BY Alive DEF Inv, Owned, With
<1>2. append.by # r
  BY Alive DEF Running
<1>3. QED
  BY <1>1, <1>2, Moved DEF Phases, Tasks, NoTask

LEMMA ValidateStep == \A r \in Request : Inv /\ Validate(r) => Inv'
<1> SUFFICES ASSUME NEW r \in Request, Inv, Validate(r) PROVE Inv'
  OBVIOUS
<1> USE DEF Validate
<1>1. id[r] # 0 /\ up
  BY Alive DEF Inv, Owned, With
<1>2. append.by # r
  BY Alive DEF Running
<1>3. id[r] \in validated'
  OBVIOUS
<1>4. QED
  BY <1>1, <1>2, <1>3, Moved DEF Phases, Tasks

LEMMA EndStep ==
  ASSUME Inv, NEW r \in Request, NEW how \in {"answered", "failed"}, End(r, how),
         r \in InFlight, how = "answered" => Receipted(r) /\ r \notin Running
  PROVE  Inv'
<1> DEFINE k == IF r \in Running THEN task[r] ELSE NoTask
<1>1. up /\ phase' = [phase EXCEPT ![r] = how] /\ task' = [task EXCEPT ![r] = k]
      /\ UNCHANGED <<File, Process, Journal, append, route, id>> /\ UNCHANGED <<sent, validated>>
  BY Alive DEF End, InFlight, History
<1>2. k \in Tasks /\ how \in Phases
  BY Alive DEF NoTask, Tasks, Phases
<1>3. append.by # r \/ k = task[r]
  BY Alive
<1>4. k \in {"begin", "complete"} => how \in {k, "failed"}
  BY DEF NoTask
<1>5. k = "complete" => id[r] \in validated
  BY DEF Inv, Retained, NoTask
<1> HIDE DEF k
<1>6. QED
  BY <1>1, <1>2, <1>3, <1>4, <1>5, Moved

LEMMA AnswerStep == \A r \in Request : Inv /\ Answer(r) => Inv'
BY EndStep DEF Answer, Receipted, Running, InFlight

LEMMA FailStep == \A r \in Request : Inv /\ Fail(r) => Inv'
BY EndStep DEF Fail

LEMMA RefusedStep == \A r \in Request : Inv /\ Refused(r) => Inv'
<1> SUFFICES ASSUME NEW r \in Request, Inv, Refused(r) PROVE Inv'
  OBVIOUS
<1> DEFINE k == IF phase[r] = task[r] THEN "failed" ELSE NoTask
<1>1. task[r] \in {"begin", "complete"} /\ task' = [task EXCEPT ![r] = k] /\ phase' = phase
      /\ UNCHANGED <<File, Process, Journal, append, route, id>> /\ UNCHANGED <<sent, validated>>
      /\ append.by = None
  BY DEF Refused, Returns, History, Unlocked
<1>2. up /\ phase[r] \in {task[r], "failed"} /\ phase' = [phase EXCEPT ![r] = phase[r]]
      /\ phase[r] \in Phases /\ k \in Tasks
  BY <1>1, Alive DEF Tasks, NoTask
<1>3. append.by # r
  BY <1>1, GenerationAssumption
<1>4. /\ phase[r] \in {"begin", "complete", "failed"}
      /\ phase[r] = "begin" => id[r] = 0
      /\ phase[r] = "complete" => id[r] # 0 /\ id[r] \in validated
  BY <1>1, <1>2 DEF Inv, Owned, Retained, Before, With
<1>5. k \notin {"begin", "complete", "ok"}
  BY DEF NoTask
<1> HIDE DEF k
<1>6. QED
  BY <1>1, <1>2, <1>3, <1>4, <1>5, Moved

-----------------------------------------------------------------------------
(* The append: its event, and the room that was made for it.               *)
LEMMA AppendFacts ==
  ASSUME Inv, append.by # None
  PROVE  /\ up /\ healthy /\ append.by \in Request /\ append.by \in Running
         /\ append.stage \in {"write", "sync"} /\ append.event \in Event
         /\ task[append.by] = append.event.event
         /\ append.event.event \in {"begin", "complete"}
         /\ append.event.event = "begin" =>
              /\ append.event.id = begun + 1 /\ append.event.route = route[append.by]
              /\ MayBegin
         /\ append.event.event = "complete" =>
              /\ append.event.id = id[append.by] /\ append.event.route = route[append.by]
              /\ MayComplete(append.by)
<1> DEFINE r == append.by
<1>1. /\ up /\ healthy /\ append.stage \in {"write", "sync"}
      /\ \/ append.event = Begin(begun + 1, route[r]) /\ MayBegin
         \/ append.event = Complete(id[r], route[r]) /\ MayComplete(r)
  BY DEF Inv, Appending
<1>2. r \in Running /\ r \in Request /\ task[r] = append.event.event
  BY DEF Inv, TypeOK, Running
<1>3. /\ begun \in 0 .. MaxCalls /\ MaxCalls \in Nat /\ route[r] \in Route
      /\ DOMAIN pending \subseteq 1 .. begun
  BY <1>2, GenerationAssumption DEF Inv, TypeOK
<1> HIDE DEF r
<1>4. CASE append.event = Begin(begun + 1, route[r]) /\ MayBegin
  <2>1. begun + 1 \in 1 .. MaxCalls
    BY <1>3, <1>4 DEF MayBegin
  <2>2. append.event \in Event
    BY <1>3, <1>4, <2>1 DEF Event
  <2>3. append.event.event = "begin" /\ append.event.id = begun + 1 /\ append.event.route = route[r]
    BY <1>4, EventValues
  <2>4. QED
    BY <1>1, <1>2, <1>4, <2>2, <2>3 DEF r
<1>5. CASE append.event = Complete(id[r], route[r]) /\ MayComplete(r)
  <2>1. id[r] \in 1 .. MaxCalls
    BY <1>3, <1>5 DEF MayComplete
  <2>2. append.event \in Event
    BY <1>3, <1>5, <2>1 DEF Event
  <2>3. append.event.event = "complete" /\ append.event.id = id[r] /\ append.event.route = route[r]
    BY <1>5, EventValues
  <2>4. QED
    BY <1>1, <1>2, <1>5, <2>2, <2>3 DEF r
<1>6. QED
  BY <1>1, <1>4, <1>5

(* What the accounting of a healthy process is. *)
LEMMA BookedFacts ==
  ASSUME Inv, up, healthy
  PROVE  /\ Followed \in Nat /\ Followed >= 1 /\ Followed <= Len(log) /\ Len(log) \in Nat
         /\ log \in Seq(Event) /\ log # <<>>
         /\ Sound(log, Followed) /\ Sound(log, Len(log)) /\ synced >= 1
         /\ append.stage # "sync" => Followed = Len(log)
         /\ append.stage = "sync" => Followed + 1 = Len(log)
         /\ bytes = SizeTo(log, Followed) /\ begun = CountTo(log, Followed, "begin")
         /\ DOMAIN pending = UnfinishedTo(log, Followed) /\ Routed(log, Followed, pending)
         /\ IsFiniteSet(DOMAIN pending) /\ Cardinality(DOMAIN pending) \in Nat
         /\ bytes + Cardinality(DOMAIN pending) * Reserve <= MaxFile
<1>1. /\ Followed >= 1 /\ bytes = SizeTo(log, Followed)
      /\ begun = CountTo(log, Followed, "begin")
      /\ DOMAIN pending = UnfinishedTo(log, Followed) /\ Routed(log, Followed, pending)
  BY DEF Inv, Booked
<1>2. log \in Seq(Event) /\ Len(log) \in Nat
  BY LenProperties DEF Inv, TypeOK
<1>3. /\ append.stage # "sync" => Followed = Len(log)
      /\ append.stage = "sync" => Followed = Len(log) - 1
  BY DEF Followed
<1>4. Followed \in Nat /\ Followed <= Len(log)
  BY <1>1, <1>2, <1>3
<1>5. log # <<>>
  BY <1>1, <1>2, <1>4, EmptySeq
<1>6. Sound(log, Followed) /\ Sound(log, Len(log)) /\ synced >= 1
  BY <1>2, <1>4, <1>5 DEF Inv, Filed, Lawful
<1>7. IsFiniteSet(DOMAIN pending) /\ Cardinality(DOMAIN pending) \in Nat
  BY <1>1, <1>4, <1>6, UnfinishedFinite
<1>8. bytes + Cardinality(DOMAIN pending) * Reserve <= MaxFile
  BY <1>1, <1>6 DEF Sound
<1>9. QED
  BY <1>1, <1>2, <1>3, <1>4, <1>5, <1>6, <1>7, <1>8

LEMMA StartAppendStep == \A r \in Request : Inv /\ StartAppend(r) => Inv'
<1> SUFFICES ASSUME NEW r \in Request, Inv, StartAppend(r) PROVE Inv'
  OBVIOUS
<1> USE DEF File, Process, Requests, History
<1>1. /\ UNCHANGED <<log, torn, synced>> /\ UNCHANGED <<up, stops>> /\ UNCHANGED Journal
      /\ UNCHANGED <<phase, route, id, task>> /\ UNCHANGED <<sent, validated>>
      /\ append.by = None
      /\ append'.by = r /\ append'.stage = "write" /\ r # None /\ r \in Running
  BY GenerationAssumption DEF StartAppend, Unlocked, Running
<1>2. /\ task[r] = append'.event.event
      /\ \/ append'.event = Begin(begun + 1, route[r]) /\ MayBegin
         \/ append'.event = Complete(id[r], route[r]) /\ MayComplete(r)
  <2>1. CASE task[r] = "begin"
    BY <2>1, EventValues DEF StartAppend
  <2>2. CASE task[r] = "complete"
    BY <2>2, EventValues DEF StartAppend
  <2>3. QED
    BY <2>1, <2>2 DEF StartAppend
<1>3. up /\ healthy
  BY <1>1, <1>2, Alive DEF MayBegin, MayComplete, Running
<1>4. append.stage # "sync"
  BY <1>1, EventValues DEF Inv, Appending
<1>5. TypeOK'
  BY <1>1, <1>2 DEF Inv, TypeOK, Running, Journal
<1>6. Filed' /\ Booked'
  BY <1>1, <1>4, FiledFrame, BookedFrame DEF Inv
<1>7. Appending'
  <2>1. append' = [by |-> r, stage |-> "write", event |-> append'.event]
    BY <1>1 DEF StartAppend
  <2>2. QED
    BY <1>1, <1>2, <1>3, <2>1 DEF Appending, Journal, MayBegin, MayComplete, Room
<1>8. Owned'
  BY <1>1 DEF Inv, Owned, Before, With
<1>9. Retained'
  BY <1>1 DEF Inv, Retained, Receipted, Journal
<1>10. QED
  BY <1>5, <1>6, <1>7, <1>8, <1>9 DEF Inv

(* The line of an append may follow those that the accounting knows.       *)
LEMMA AppendFollows ==
  ASSUME Inv, append.by # None, NEW s, NEW n \in Nat, n = Followed,
         \A m \in 1 .. n : s[m] = log[m], s[n + 1] = append.event
  PROVE  /\ FollowsAt(s, n) /\ Sound(s, n) /\ Sound(s, n + 1)
         /\ s[n + 1] \in Event
         /\ CountTo(s, n + 1, "begin") =
              IF append.event.event = "begin" THEN append.event.id ELSE begun
         /\ UnfinishedTo(s, n + 1) =
              IF append.event.event = "begin" THEN DOMAIN pending \cup {append.event.id}
              ELSE DOMAIN pending \ {append.event.id}
         /\ SizeTo(s, n + 1) = bytes + Size(append.event)
         /\ SizeTo(s, n + 1) <= MaxFile
         /\ n # 0 /\ Routed(s, n, pending)
         /\ append.event.event = "begin" => append.event.id = CountTo(s, n, "begin") + 1
<1> DEFINE ev == append.event
<1>1. /\ up /\ healthy /\ append.by \in Request /\ ev \in Event
      /\ ev.event \in {"begin", "complete"}
      /\ ev.event = "begin" => ev.id = begun + 1 /\ MayBegin
      /\ ev.event = "complete" =>
           /\ ev.id = id[append.by] /\ ev.route = route[append.by] /\ MayComplete(append.by)
  BY AppendFacts
<1>2. /\ Followed >= 1 /\ Sound(log, n) /\ bytes = SizeTo(log, n)
      /\ begun = CountTo(log, n, "begin")
      /\ DOMAIN pending = UnfinishedTo(log, n) /\ Routed(log, n, pending)
      /\ Cardinality(DOMAIN pending) \in Nat
  BY <1>1, BookedFacts
<1>3. /\ SizeTo(log, n) = SizeTo(s, n) /\ UnfinishedTo(log, n) = UnfinishedTo(s, n)
      /\ Routed(log, n, pending) <=> Routed(s, n, pending)
      /\ Sound(log, n) <=> Sound(s, n)
      /\ CountTo(log, n, "begin") = CountTo(s, n, "begin")
  <2>1. \A m \in 1 .. n : log[m] = s[m]
    OBVIOUS
  <2>2. /\ \A kind : /\ LinesTo(log, n, kind) = LinesTo(s, n, kind)
                     /\ CountTo(log, n, kind) = CountTo(s, n, kind)
                     /\ IdsTo(log, n, kind) = IdsTo(s, n, kind)
        /\ SizeTo(log, n) = SizeTo(s, n)
        /\ UnfinishedTo(log, n) = UnfinishedTo(s, n)
        /\ \A P : Routed(log, n, P) <=> Routed(s, n, P)
        /\ Sound(log, n) <=> Sound(s, n)
    BY <2>1, SamePrefix
  <2>3. QED
    BY <2>2
<1>4. /\ Sound(s, n) /\ bytes = SizeTo(s, n) /\ begun = CountTo(s, n, "begin")
      /\ DOMAIN pending = UnfinishedTo(s, n) /\ Routed(s, n, pending)
  BY <1>2, <1>3
<1>5. /\ bytes \in Nat /\ begun \in Nat /\ n # 0 /\ s[n + 1] = ev
      /\ {MaxFile, MaxLine, Reserve, BeginSize, ReceiptSize} \subseteq Nat /\ BeginSize <= MaxLine
      /\ MaxCalls \in Nat
  BY <1>2, GenerationAssumption DEF Inv, TypeOK
<1> HIDE DEF ev
<1>6. Sound(s, n + 1) => SizeTo(s, n + 1) <= MaxFile
  <2>1. SUFFICES ASSUME Sound(s, n + 1) PROVE SizeTo(s, n + 1) <= MaxFile
    OBVIOUS
  <2>2. n + 1 \in Nat
    OBVIOUS
  <2>3. /\ SizeTo(s, n + 1) \in Nat
        /\ Cardinality(UnfinishedTo(s, n + 1)) * Reserve \in Nat
    BY <1>5, <2>1, <2>2, SizeNat, UnfinishedFinite, Distribute
  <2>4. QED
    BY <1>5, <2>1, <2>3 DEF Sound
<1>7. CASE ev.event = "begin"
  <2>1. /\ Cardinality(UnfinishedTo(s, n)) < AdmissionLimit /\ begun < MaxCalls
        /\ bytes + MaxLine + (Cardinality(UnfinishedTo(s, n)) + 1) * Reserve <= MaxFile
    BY <1>1, <1>4, <1>7 DEF MayBegin, Room
  <2>2. SizeTo(s, n) + BeginSize + (Cardinality(UnfinishedTo(s, n)) + 1) * Reserve <= MaxFile
    <3>1. (Cardinality(UnfinishedTo(s, n)) + 1) * Reserve \in Nat
      BY <1>2, <1>4, <1>5, Distribute
    <3>2. QED
      BY <1>4, <1>5, <2>1, <3>1
  <2>3. /\ Sound(s, n + 1) /\ CountTo(s, n + 1, "begin") = s[n + 1].id
        /\ UnfinishedTo(s, n + 1) = UnfinishedTo(s, n) \cup {s[n + 1].id}
        /\ SizeTo(s, n + 1) = SizeTo(s, n) + BeginSize
    BY <1>1, <1>4, <1>5, <1>7, <2>2, BeginAdded
  <2>4. Size(ev) = BeginSize
    BY <1>1, <1>7, SizeFields
  <2>5. FollowsAt(s, n)
    BY <1>1, <1>4, <1>5, <1>7, <2>1 DEF FollowsAt
  <2>6. QED
    BY <1>1, <1>4, <1>5, <1>6, <1>7, <2>3, <2>4, <2>5 DEF ev
<1>8. CASE ev.event = "complete"
  <2>1. ev.id \in DOMAIN pending /\ pending[ev.id] = ev.route
    BY <1>1, <1>8 DEF MayComplete
  <2>2. /\ Sound(s, n + 1) /\ CountTo(s, n + 1, "begin") = CountTo(s, n, "begin")
        /\ UnfinishedTo(s, n + 1) = UnfinishedTo(s, n) \ {s[n + 1].id}
        /\ SizeTo(s, n + 1) = SizeTo(s, n) + ReceiptSize
    BY <1>1, <1>4, <1>5, <1>8, <2>1, CompleteAdded
  <2>3. Size(ev) = ReceiptSize
    BY <1>1, <1>8, SizeFields
  <2>4. \A m \in LinesTo(s, n, "begin") : s[m].id = ev.id => s[m].route = ev.route
    BY <1>4, <2>1 DEF Routed
  <2>5. FollowsAt(s, n)
    BY <1>4, <1>5, <1>8, <2>1, <2>4 DEF FollowsAt
  <2>6. QED
    BY <1>1, <1>4, <1>5, <1>6, <1>8, <2>2, <2>3, <2>5 DEF ev
<1>9. QED
  BY <1>1, <1>7, <1>8 DEF ev

LEMMA WriteLineStep == Inv /\ WriteLine => Inv'
<1> SUFFICES ASSUME Inv, WriteLine PROVE Inv'
  OBVIOUS
<1> USE DEF Process, Requests, History
<1> DEFINE ev == append.event
           n == Len(log)
<1>1. /\ log' = Append(log, ev) /\ append.stage = "write"
      /\ append' = [append EXCEPT !.stage = "sync"]
      /\ UNCHANGED <<torn, synced>> /\ UNCHANGED <<up, stops>> /\ UNCHANGED Journal
      /\ UNCHANGED <<phase, route, id, task>> /\ UNCHANGED <<sent, validated>>
  BY DEF WriteLine
<1>2. append.by # None
  BY <1>1, EventValues DEF Inv, Appending
<1>3. /\ up /\ healthy /\ append.by \in Request /\ ev \in Event
      /\ task[append.by] = ev.event /\ ev.event \in {"begin", "complete"}
      /\ ev.event = "complete" => ev.id = id[append.by]
  BY <1>2, AppendFacts
<1>4. /\ Followed = n /\ n \in Nat /\ n >= 1 /\ log \in Seq(Event) /\ log # <<>> /\ synced >= 1
      /\ Sound(log, n) /\ bytes = SizeTo(log, n) /\ begun = CountTo(log, n, "begin")
      /\ DOMAIN pending = UnfinishedTo(log, n) /\ Routed(log, n, pending)
  BY <1>1, <1>3, BookedFacts
<1>5. /\ log' \in Seq(Event) /\ Len(log') = n + 1 /\ log'[n + 1] = ev
      /\ \A m \in 1 .. n : log'[m] = log[m]
  BY <1>1, <1>3, <1>4, LineAppended
<1>6. synced \in 0 .. n
  BY DEF Inv, TypeOK
<1>7. /\ append'.by = append.by /\ append'.event = ev /\ append'.stage = "sync"
  <2>1. append = [by |-> append.by, stage |-> append.stage, event |-> append.event]
    BY DEF Inv, Appending
  <2>2. QED
    BY <1>1, <2>1
<1>8. FollowsAt(log', n) /\ Sound(log', n + 1)
  BY <1>2, <1>4, <1>5, AppendFollows
<1>9. TypeOK'
  BY <1>1, <1>4, <1>5, <1>6, <1>7 DEF Inv, TypeOK, Running, Journal
<1>10. Filed'
  <2>1. Lawful(log')
    <3>1. Lawful(log)
      BY DEF Inv, Filed
    <3>2. QED
      BY <1>1, <1>3, <1>4, <1>8, <3>1, LawfulAppend
  <2>2. ASSUME NEW m \in 1 .. Len(log'), log'[m].event = "complete"
        PROVE  log'[m].id \in validated'
    <3>1. CASE m = n + 1
      BY <1>1, <1>3, <1>5, <2>2, <3>1 DEF Inv, Retained
    <3>2. CASE m # n + 1
      <4>1. m \in 1 .. n
        BY <1>4, <1>5, <3>2
      <4>2. QED
        BY <1>1, <1>5, <2>2, <4>1 DEF Inv, Filed
    <3>3. QED
      BY <3>1, <3>2
  <2>3. QED
    BY <1>1, <1>3, <1>4, <2>1, <2>2 DEF Filed
<1>11. Booked'
  <2>1. Followed' = n
    BY <1>4, <1>5, <1>7 DEF Followed
  <2>2. \A m \in 1 .. n : log[m] = log'[m]
    BY <1>5
  <2>3. /\ \A kind : /\ LinesTo(log, n, kind) = LinesTo(log', n, kind)
                     /\ CountTo(log, n, kind) = CountTo(log', n, kind)
                     /\ IdsTo(log, n, kind) = IdsTo(log', n, kind)
        /\ SizeTo(log, n) = SizeTo(log', n)
        /\ UnfinishedTo(log, n) = UnfinishedTo(log', n)
        /\ \A P : Routed(log, n, P) <=> Routed(log', n, P)
        /\ Sound(log, n) <=> Sound(log', n)
    BY <1>4, <2>2, SamePrefix
  <2>4. QED
    BY <1>1, <1>3, <1>4, <2>1, <2>3 DEF Booked, Journal
<1>12. Appending'
  <2>1. synced' < Len(log') /\ log'[Len(log')] = append'.event
    BY <1>1, <1>4, <1>5, <1>6, <1>7
  <2>2. PICK r \in Request : r = append.by
    BY <1>3
  <2>3. append'.by = r /\ append' = [by |-> r, stage |-> "sync", event |-> ev]
    BY <1>1, <1>7, <2>2 DEF Inv, Appending
  <2>4. \/ ev = Begin(begun + 1, route[r]) /\ MayBegin
        \/ ev = Complete(id[r], route[r]) /\ MayComplete(r)
    BY <1>2, <2>2 DEF Inv, Appending
  <2>5. \/ ev = Begin(begun' + 1, route'[r]) /\ MayBegin'
        \/ ev = Complete(id'[r], route'[r]) /\ MayComplete(r)'
    BY <1>1, <2>4 DEF Journal, MayBegin, MayComplete, Room
  <2>6. up' /\ healthy' /\ append'.event = ev /\ append'.stage = "sync"
    BY <1>1, <1>3, <1>7 DEF Journal
  <2> HIDE DEF ev
  <2>7. QED
    BY <2>1, <2>3, <2>5, <2>6, <1>2, <2>2 DEF Appending
<1>13. \A m \in 1 .. synced : log'[m] = log[m]
  BY <1>4, <1>5, <1>6
<1>14. Owned'
  BY <1>1, <1>13 DEF Inv, Owned, Before, With
<1>15. Retained'
  BY <1>1, <1>13 DEF Inv, Retained, Receipted, Journal
<1>16. QED
  BY <1>9, <1>10, <1>11, <1>12, <1>14, <1>15 DEF Inv

(* The sync of a line returned: what the accounting says of the file.      *)
LEMMA AppendedFacts ==
  ASSUME Inv, Appended
  PROVE  /\ append.by # None /\ append.stage = "sync"
         /\ Followed + 1 = Len(log) /\ Followed \in Nat /\ log[Len(log)] = append.event
         /\ bytes' = SizeTo(log, Len(log)) /\ bytes' \in 0 .. MaxFile
         /\ begun' = CountTo(log, Len(log), "begin")
         /\ DOMAIN pending' = UnfinishedTo(log, Len(log)) /\ Routed(log, Len(log), pending')
         /\ synced < Len(log) /\ append' = NoAppend /\ synced' = Len(log)
<1> DEFINE ev == append.event
           n == Followed
<1>1. append.stage = "sync" /\ append.by # None
  BY EventValues DEF Appended, Inv, Appending
<1>2. /\ up /\ healthy /\ append.by \in Request /\ ev \in Event /\ ev.event \in {"begin", "complete"}
      /\ ev.event = "begin" => ev.id = begun + 1
      /\ ev.event = "complete" => MayComplete(append.by)
  BY <1>1, AppendFacts
<1>3. /\ n + 1 = Len(log) /\ n \in Nat /\ log \in Seq(Event)
      /\ DOMAIN pending = UnfinishedTo(log, n) /\ Routed(log, n, pending)
  BY <1>1, <1>2, BookedFacts
<1>4. synced < Len(log) /\ log[n + 1] = ev
  BY <1>1, <1>3 DEF Inv, Appending
<1>5. /\ CountTo(log, n + 1, "begin") = IF ev.event = "begin" THEN ev.id ELSE begun
      /\ UnfinishedTo(log, n + 1) =
           IF ev.event = "begin" THEN DOMAIN pending \cup {ev.id} ELSE DOMAIN pending \ {ev.id}
      /\ SizeTo(log, n + 1) = bytes + Size(ev) /\ SizeTo(log, n + 1) <= MaxFile
      /\ Sound(log, n)
      /\ ev.event = "begin" => ev.id = CountTo(log, n, "begin") + 1
  BY <1>1, <1>3, <1>4, AppendFollows
<1>6. /\ synced' = Len(log) /\ bytes' = bytes + Size(ev) /\ append' = NoAppend
      /\ ev.event = "begin" =>
           /\ begun' = ev.id
           /\ pending' = [i \in DOMAIN pending \cup {ev.id} |->
                            IF i = ev.id THEN ev.route ELSE pending[i]]
      /\ ev.event # "begin" =>
           /\ begun' = begun
           /\ pending' = [i \in DOMAIN pending \ {ev.id} |-> pending[i]]
  BY DEF Appended
<1>7. Routed(log, n + 1, pending')
  <2>1. CASE ev.event = "begin"
    <3>1. /\ DOMAIN pending' = DOMAIN pending \cup {ev.id}
          /\ \A i \in DOMAIN pending' : pending'[i] = IF i = ev.id THEN ev.route ELSE pending[i]
      BY <1>6, <2>1
    <3>2. log[n + 1].event = "begin" /\ log[n + 1].id = CountTo(log, n, "begin") + 1
          /\ log[n + 1] = ev /\ Sound(log, n) /\ Routed(log, n, pending)
      BY <1>3, <1>4, <1>5, <2>1
    <3> HIDE DEF ev, n
    <3>3. QED
      BY <1>3, <3>1, <3>2, RoutedBegin
  <2>2. CASE ev.event = "complete"
    <3>1. DOMAIN pending' \subseteq DOMAIN pending /\ \A i \in DOMAIN pending' : pending'[i] = pending[i]
      BY <1>6, <2>2
    <3>2. log[n + 1].event = "complete" /\ Routed(log, n, pending)
      BY <1>3, <1>4, <2>2
    <3> HIDE DEF ev, n
    <3>3. QED
      BY <1>3, <3>1, <3>2, RoutedComplete
  <2>3. QED
    BY <1>2, <2>1, <2>2
<1> HIDE DEF ev, n
<1>8. DOMAIN pending' = UnfinishedTo(log, n + 1) /\ begun' = CountTo(log, n + 1, "begin")
  BY <1>2, <1>5, <1>6
<1>9. bytes' = SizeTo(log, n + 1) /\ bytes' \in 0 .. MaxFile
  <2>1. SizeTo(log, n + 1) \in Nat
    BY <1>3, SizeNat
  <2>2. QED
    BY <1>5, <1>6, <2>1, GenerationAssumption
<1>10. QED
  BY <1>1, <1>3, <1>4, <1>6, <1>7, <1>8, <1>9 DEF ev, n

(* What the sync changes of the task and of the id of its request.         *)
LEMMA AppendedOwner ==
  ASSUME Inv, Appended
  PROVE  \E r \in Request :
           /\ r = append.by
           /\ task' = [task EXCEPT ![r] = IF phase[r] = task[r] THEN "ok" ELSE NoTask]
           /\ task[r] = append.event.event /\ phase[r] \in {task[r], "failed"}
           /\ \/ /\ task[r] = "begin" /\ append.event = Begin(begun', route[r])
                 /\ begun' = begun + 1 /\ begun < MaxCalls
                 /\ id' = [id EXCEPT ![r] = IF phase[r] = "begin" THEN begun' ELSE id[r]]
                 /\ DOMAIN pending' = DOMAIN pending \cup {begun'}
                 /\ \A i \in DOMAIN pending' : pending'[i] \in Route
              \/ /\ task[r] = "complete" /\ append.event = Complete(id[r], route[r])
                 /\ begun' = begun /\ id' = id /\ id[r] \in DOMAIN pending
                 /\ DOMAIN pending' = DOMAIN pending \ {id[r]}
                 /\ \A i \in DOMAIN pending' : pending'[i] \in Route
<1>1. append.stage = "sync" /\ append.by # None
  BY AppendedFacts
<1>2. PICK r \in Request : r = append.by /\ r \in Running
  BY <1>1, AppendFacts
<1>3. /\ task[r] = append.event.event /\ append.event \in Event
      /\ append.event.event \in {"begin", "complete"}
      /\ append.event.event = "begin" =>
           append.event.id = begun + 1 /\ append.event.route = route[r] /\ MayBegin
      /\ append.event.event = "complete" =>
           append.event.id = id[r] /\ append.event.route = route[r] /\ MayComplete(r)
  BY <1>1, <1>2, AppendFacts
<1>4. phase[r] \in {task[r], "failed"}
  BY <1>2 DEF Inv, TypeOK
<1>5. /\ \A i \in DOMAIN pending : pending[i] \in Route
      /\ route[r] \in Route
  BY DEF Inv, TypeOK
<1>6. task' = [task EXCEPT ![r] = IF phase[r] = task[r] THEN "ok" ELSE NoTask]
  BY <1>2 DEF Appended, Returns
<1>7. CASE append.event.event = "begin"
  <2>1. /\ begun' = append.event.id
        /\ pending' = [i \in DOMAIN pending \cup {append.event.id} |->
                         IF i = append.event.id THEN append.event.route ELSE pending[i]]
        /\ id' = [id EXCEPT ![r] = IF phase[r] = "begin" THEN append.event.id ELSE @]
    BY <1>2, <1>7 DEF Appended
  <2>2. append.event = Begin(begun', route[r])
    BY <1>3, <1>7, <2>1, EventFields
  <2>3. begun < MaxCalls
    BY <1>3, <1>7 DEF MayBegin
  <2>4. \A i \in DOMAIN pending' : pending'[i] \in Route
    BY <1>3, <1>5, <1>7, <2>1
  <2>5. QED
    BY <1>2, <1>3, <1>4, <1>6, <1>7, <2>1, <2>2, <2>3, <2>4
<1>8. CASE append.event.event = "complete"
  <2>1. /\ begun' = begun /\ id' = id
        /\ pending' = [i \in DOMAIN pending \ {append.event.id} |-> pending[i]]
    BY <1>8 DEF Appended
  <2>2. append.event = Complete(id[r], route[r])
    BY <1>3, <1>8, EventFields
  <2>3. \A i \in DOMAIN pending' : pending'[i] \in Route
    BY <1>5, <2>1
  <2>4. id[r] \in DOMAIN pending
    BY <1>3, <1>8 DEF MayComplete
  <2>5. QED
    BY <1>2, <1>3, <1>4, <1>6, <1>8, <2>1, <2>2, <2>3, <2>4
<1>9. QED
  BY <1>3, <1>7, <1>8

LEMMA AppendedStep == Inv /\ Appended => Inv'
<1> SUFFICES ASSUME Inv, Appended PROVE Inv'
  OBVIOUS
<1>1. /\ log' = log /\ torn' = torn /\ up' = up /\ stops' = stops /\ healthy' = healthy
      /\ phase' = phase /\ route' = route /\ sent' = sent /\ validated' = validated
  BY DEF Appended, Process, History
<1>2. /\ append.by # None /\ append.stage = "sync" /\ log[Len(log)] = append.event
      /\ bytes' = SizeTo(log, Len(log)) /\ bytes' \in 0 .. MaxFile
      /\ begun' = CountTo(log, Len(log), "begin")
      /\ DOMAIN pending' = UnfinishedTo(log, Len(log)) /\ Routed(log, Len(log), pending')
      /\ synced < Len(log) /\ append' = NoAppend /\ synced' = Len(log)
      /\ Followed + 1 = Len(log) /\ Followed \in Nat
  BY AppendedFacts
<1>3. PICK r \in Request :
        /\ r = append.by
        /\ task' = [task EXCEPT ![r] = IF phase[r] = task[r] THEN "ok" ELSE NoTask]
        /\ task[r] = append.event.event /\ phase[r] \in {task[r], "failed"}
        /\ \/ /\ task[r] = "begin" /\ append.event = Begin(begun', route[r])
              /\ begun' = begun + 1 /\ begun < MaxCalls
              /\ id' = [id EXCEPT ![r] = IF phase[r] = "begin" THEN begun' ELSE id[r]]
              /\ DOMAIN pending' = DOMAIN pending \cup {begun'}
              /\ \A i \in DOMAIN pending' : pending'[i] \in Route
           \/ /\ task[r] = "complete" /\ append.event = Complete(id[r], route[r])
              /\ begun' = begun /\ id' = id /\ id[r] \in DOMAIN pending
              /\ DOMAIN pending' = DOMAIN pending \ {id[r]}
              /\ \A i \in DOMAIN pending' : pending'[i] \in Route
  BY AppendedOwner
<1>4. /\ phase \in [Request -> Phases] /\ task \in [Request -> Tasks]
      /\ id \in [Request -> 0 .. MaxCalls] /\ begun \in 0 .. MaxCalls /\ MaxCalls \in Nat
      /\ synced \in 0 .. Len(log) /\ log \in Seq(Event) /\ Len(log) \in Nat
      /\ DOMAIN pending \subseteq 1 .. begun
  BY LenProperties, GenerationAssumption DEF Inv, TypeOK, Phases, Tasks
<1>5. /\ task' \in [Request -> Tasks] /\ task'[r] \in {"ok", "none"}
      /\ task'[r] = "ok" <=> phase[r] = task[r]
      /\ \A q \in Request : q # r => task'[q] = task[q]
  BY <1>3, <1>4 DEF NoTask, Tasks
<1>6. begun' \in 0 .. MaxCalls /\ DOMAIN pending' \subseteq 1 .. begun'
      /\ \A i \in DOMAIN pending' : pending'[i] \in Route
  <2>1. CASE begun' = begun + 1 /\ begun < MaxCalls /\ DOMAIN pending' = DOMAIN pending \cup {begun'}
    BY <1>3, <1>4, <2>1
  <2>2. CASE begun' = begun /\ DOMAIN pending' = DOMAIN pending \ {id[r]}
    BY <1>3, <1>4, <2>2
  <2>3. QED
    BY <1>3, <2>1, <2>2
<1>7. /\ id' \in [Request -> 0 .. MaxCalls]
      /\ \A q \in Request : q # r => id'[q] = id[q]
      /\ id'[r] = IF phase[r] = "begin" THEN begun' ELSE id[r]
  <2>1. CASE task[r] = "begin"
    BY <1>3, <1>4, <1>6, <2>1
  <2>2. CASE task[r] = "complete"
    BY <1>3, <1>4, <2>2
  <2>3. QED
    BY <1>3, <2>1, <2>2
<1>8. TypeOK'
  <2>1. synced' \in 0 .. Len(log') /\ append'.by = None
    BY <1>1, <1>2, <1>4, EventValues
  <2>2. \A q \in Running' : phase'[q] \in {task'[q], "failed"}
    BY <1>1, <1>5 DEF Inv, TypeOK, Running
  <2>3. TypeOK
    BY DEF Inv
  <2>4. QED
    BY <1>1, <1>2, <1>5, <1>6, <1>7, <2>1, <2>2, <2>3 DEF TypeOK, Tasks
<1>9. Filed'
  BY <1>1, <1>2, <1>4 DEF Inv, Filed
<1>10. Booked'
  <2>1. Followed' = Len(log) /\ Len(log) >= 1
    BY <1>1, <1>2, <1>4, EventValues DEF Followed
  <2>2. up
    BY <1>2, AppendFacts
  <2>3. QED
    BY <1>1, <1>2, <2>1, <2>2 DEF Booked
<1>11. Appending'
  BY <1>2, EventValues DEF Appending, NoAppend
<1>12. \A q \in Request : id[q] # 0 => id[q] <= begun
  <2>1. SUFFICES ASSUME NEW q \in Request, id[q] # 0 PROVE id[q] <= begun
    OBVIOUS
  <2>2. PICK m \in 1 .. synced : log[m] = Begin(id[q], route[q])
    BY <2>1 DEF Inv, Owned
  <2>3. up /\ healthy
    BY <1>2, AppendFacts
  <2>4. m \in LinesTo(log, Followed, "begin") /\ log[m].id = id[q]
    BY <1>2, <1>4, <2>2, EventValues DEF LinesTo
  <2>5. Sound(log, Followed) /\ begun = CountTo(log, Followed, "begin")
    BY <2>3, BookedFacts
  <2>6. id[q] \in 1 .. begun
    BY <2>4, <2>5 DEF Sound, IdsTo
  <2>7. QED
    BY <1>4, <2>6
<1>13. Owned'
  <2>1. ASSUME NEW q \in Request, id'[q] # 0
        PROVE  \E m \in 1 .. synced' : log'[m] = Begin(id'[q], route'[q])
    <3>1. CASE id'[q] = id[q]
      <4>1. PICK m \in 1 .. synced : log[m] = Begin(id[q], route[q])
        BY <2>1, <3>1 DEF Inv, Owned
      <4>2. m \in 1 .. synced'
        BY <1>2, <1>4
      <4>3. QED
        BY <1>1, <3>1, <4>1, <4>2
    <3>2. CASE id'[q] # id[q]
      <4>1. q = r /\ task[r] = "begin" /\ id'[r] = begun'
        BY <1>3, <1>7, <3>2
      <4>2. append.event = Begin(begun', route[r])
        BY <1>3, <4>1
      <4>3. log'[Len(log)] = Begin(id'[q], route'[q]) /\ Len(log) \in 1 .. synced'
        BY <1>1, <1>2, <1>4, <4>1, <4>2
      <4>4. QED
        BY <4>3
    <3>3. QED
      BY <3>1, <3>2
  <2>2. ASSUME NEW q \in Request, NEW w \in Request, id'[q] = id'[w], id'[q] # 0 PROVE q = w
    <3>1. \A x \in Request : x # r => id'[x] = id[x]
      BY <1>7
    <3>2. \A x \in Request : id'[r] # id[r] => id'[r] # id[x] \/ id[x] = 0
      <4>1. SUFFICES ASSUME NEW x \in Request, id'[r] # id[r], id[x] # 0 PROVE id'[r] # id[x]
        OBVIOUS
      <4>2. id'[r] = begun + 1
        BY <1>3, <1>7, <4>1
      <4>3. QED
        BY <1>4, <1>12, <4>1, <4>2
    <3>3. \A x, y \in Request : id[x] = id[y] /\ id[x] # 0 => x = y
      BY DEF Inv, Owned
    <3>4. CASE id'[r] = id[r]
      BY <2>2, <3>1, <3>3, <3>4
    <3>5. CASE id'[r] # id[r]
      BY <2>2, <3>1, <3>2, <3>3, <3>5
    <3>6. QED
      BY <3>4, <3>5
  <2>3. ASSUME NEW q \in Request, Before(q)' PROVE id'[q] = 0
    <3>1. phase[q] = "idle" \/ (phase[q] = "begin" /\ task'[q] # "ok")
      BY <1>1, <2>3 DEF Before
    <3>2. q # r
      BY <1>3, <1>5, <3>1
    <3>3. Before(q)
      BY <1>5, <3>1, <3>2 DEF Before
    <3>4. QED
      BY <1>7, <3>2, <3>3 DEF Inv, Owned
  <2>4. ASSUME NEW q \in Request, With(q)' PROVE id'[q] # 0
    <3>1. phase[q] \in {"sent", "complete"} \/ (phase[q] = "begin" /\ task'[q] = "ok")
      BY <1>1, <2>4 DEF With
    <3>2. CASE q = r /\ phase[r] = "begin"
      <4>1. id'[q] = begun + 1
        BY <1>3, <1>7, <3>2
      <4>2. QED
        BY <1>4, <4>1
    <3>3. CASE ~(q = r /\ phase[r] = "begin")
      <4>1. With(q)
        BY <1>5, <3>1, <3>3 DEF With
      <4>2. id[q] # 0
        BY <4>1 DEF Inv, Owned
      <4>3. id'[q] = id[q]
        BY <1>7, <3>3
      <4>4. QED
        BY <4>2, <4>3
    <3>4. QED
      BY <3>2, <3>3
  <2>5. ASSUME NEW x \in sent PROVE x[2] = id'[x[1]]
    <3>1. x[1] \in Request /\ x[2] \in 1 .. MaxCalls /\ x[2] = id[x[1]]
      BY DEF Inv, Owned, TypeOK
    <3>2. CASE x[1] = r /\ phase[r] = "begin"
      <4>1. Before(r)
        BY <1>3, <3>2 DEF Before
      <4>2. id[r] = 0
        BY <4>1 DEF Inv, Owned
      <4>3. QED
        BY <1>4, <3>1, <3>2, <4>2
    <3>3. CASE ~(x[1] = r /\ phase[r] = "begin")
      BY <1>7, <3>1, <3>3
    <3>4. QED
      BY <3>2, <3>3
  <2>6. QED
    BY <1>1, <2>1, <2>2, <2>3, <2>4, <2>5 DEF Owned
<1>14. Retained'
  <2>1. ASSUME NEW q \in Request, phase'[q] = "complete" \/ task'[q] = "complete"
        PROVE  id'[q] \in validated'
    <3>1. ~(q = r /\ phase[r] = "begin")
      BY <1>1, <1>5, <2>1
    <3>2. id'[q] = id[q] /\ (phase[q] = "complete" \/ task[q] = "complete")
      BY <1>1, <1>5, <1>7, <2>1, <3>1
    <3>3. QED
      BY <1>1, <3>2 DEF Inv, Retained
  <2>2. ASSUME NEW q \in Request, id'[q] # 0, id'[q] \notin validated, up
        PROVE  id'[q] \in DOMAIN pending'
    <3>1. CASE id'[q] = id[q]
      <4>1. id[q] \in DOMAIN pending
        BY <2>2, <3>1 DEF Inv, Retained
      <4>2. task[r] = "complete" => id[r] \in validated
        BY DEF Inv, Retained
      <4>3. QED
        BY <1>3, <2>2, <3>1, <4>1, <4>2
    <3>2. CASE id'[q] # id[q]
      BY <1>3, <1>7, <3>2
    <3>3. QED
      BY <3>1, <3>2
  <2>3. ASSUME NEW q \in Request, Receipted(q)'
        PROVE  \E m \in 1 .. synced' : log'[m] = Complete(id'[q], route'[q])
    <3>1. phase[q] = "answered" \/ (phase[q] = "complete" /\ task'[q] = "ok")
      BY <1>1, <2>3 DEF Receipted
    <3>2. id'[q] = id[q]
      BY <1>7, <3>1
    <3>3. CASE q = r
      <4>1. task[r] = "complete" /\ append.event = Complete(id[r], route[r])
        BY <1>3, <3>1, <3>3
      <4>2. log'[Len(log)] = Complete(id'[q], route'[q]) /\ Len(log) \in 1 .. synced'
        BY <1>1, <1>2, <1>4, <3>2, <3>3, <4>1
      <4>3. QED
        BY <4>2
    <3>4. CASE q # r
      <4>1. Receipted(q)
        BY <1>5, <3>1, <3>4 DEF Receipted
      <4>2. PICK m \in 1 .. synced : log[m] = Complete(id[q], route[q])
        BY <4>1 DEF Inv, Retained
      <4>3. m \in 1 .. synced'
        BY <1>2, <1>4
      <4>4. QED
        BY <1>1, <3>2, <4>2, <4>3
    <3>5. QED
      BY <3>3, <3>4
  <2>4. QED
    BY <1>1, <2>1, <2>2, <2>3 DEF Retained
<1>15. QED
  BY <1>8, <1>9, <1>10, <1>11, <1>13, <1>14 DEF Inv

LEMMA AppendFailsStep == Inv /\ AppendFails => Inv'
<1> SUFFICES ASSUME Inv, AppendFails PROVE Inv'
  OBVIOUS
<1>1. /\ append.by # None /\ healthy' = FALSE /\ append' = NoAppend
      /\ torn' \in IF append.stage = "write" THEN BOOLEAN ELSE {torn}
      /\ UNCHANGED <<log, synced, up, stops, bytes, begun, pending, phase, route, id>>
      /\ UNCHANGED <<sent, validated>>
  BY DEF AppendFails, Unlocked, Process, History
<1>2. up /\ append.by \in Request /\ append.by \in Running
  BY <1>1, AppendFacts
<1>3. PICK r \in Request : r = append.by
  BY <1>2
<1>4. task' = [task EXCEPT ![r] = IF phase[r] = task[r] THEN "failed" ELSE NoTask]
  BY <1>3 DEF AppendFails, Returns
<1>5. task \in [Request -> Tasks] /\ task[r] \in {"begin", "complete"}
  BY <1>2, <1>3 DEF Inv, TypeOK, Tasks, Running
<1>6. /\ task' \in [Request -> Tasks] /\ task'[r] \in {"failed", "none"}
      /\ \A q \in Request : q # r => task'[q] = task[q]
  BY <1>4, <1>5 DEF NoTask, Tasks
<1>7. torn' \in BOOLEAN
  <2>1. torn \in BOOLEAN
    BY DEF Inv, TypeOK
  <2>2. QED
    BY <1>1, <2>1, Zenon
<1>8. TypeOK'
  <2>1. append'.by = None
    BY <1>1, EventValues
  <2>2. \A q \in Running' : phase'[q] \in {task'[q], "failed"}
    BY <1>1, <1>6 DEF Inv, TypeOK, Running
  <2>3. TypeOK
    BY DEF Inv
  <2>4. QED
    BY <1>1, <1>6, <1>7, <2>1, <2>2, <2>3 DEF TypeOK, Tasks
<1>9. Filed'
  BY <1>1, FiledFrame DEF Inv
<1>10. Booked'
  BY <1>1, <1>2 DEF Booked
<1>11. Appending'
  BY <1>1, EventValues DEF Appending, NoAppend
<1>12. Owned'
  <2>1. ASSUME NEW q \in Request, Before(q)' PROVE Before(q)
    <3>1. phase[q] = "idle" \/ (phase[q] = "begin" /\ task'[q] # "ok")
      BY <1>1, <2>1 DEF Before
    <3>2. QED
      BY <1>5, <1>6, <3>1 DEF Before
  <2>2. ASSUME NEW q \in Request, With(q)' PROVE With(q)
    <3>1. phase[q] \in {"sent", "complete"} \/ (phase[q] = "begin" /\ task'[q] = "ok")
      BY <1>1, <2>2 DEF With
    <3>2. QED
      BY <1>6, <3>1 DEF With
  <2>3. QED
    BY <1>1, <2>1, <2>2 DEF Inv, Owned
<1>13. Retained'
  <2>1. ASSUME NEW q \in Request, phase'[q] = "complete" \/ task'[q] = "complete"
        PROVE  phase[q] = "complete" \/ task[q] = "complete"
    BY <1>1, <1>6, <2>1
  <2>2. ASSUME NEW q \in Request, Receipted(q)' PROVE Receipted(q)
    <3>1. phase[q] = "answered" \/ (phase[q] = "complete" /\ task'[q] = "ok")
      BY <1>1, <2>2 DEF Receipted
    <3>2. QED
      BY <1>6, <3>1 DEF Receipted
  <2>3. QED
    BY <1>1, <2>1, <2>2 DEF Inv, Retained
<1>14. QED
  BY <1>8, <1>9, <1>10, <1>11, <1>12, <1>13 DEF Inv

-----------------------------------------------------------------------------
(* Starts and ends of the process. *)
LEMMA DownFacts ==
  ASSUME Inv, ~up
  PROVE  append = NoAppend /\ append.by = None
BY DEF Inv, Appending, NoAppend

LEMMA InitializeStep == Inv /\ Initialize => Inv'
<1> SUFFICES ASSUME Inv, Initialize PROVE Inv'
  OBVIOUS
<1>1. /\ log = <<>> /\ log' = <<Header>> /\ synced' = 1
      /\ torn' = torn /\ up' = up /\ stops' = stops
      /\ UNCHANGED <<healthy, bytes, begun, pending, append, phase, route, id, task>>
      /\ UNCHANGED <<sent, validated>>
  BY DEF Initialize, Process, Journal, Requests, History
<1>2. ~up /\ append = NoAppend /\ append.by = None
  <2>1. ~up
    BY <1>1 DEF Inv, Filed
  <2>2. QED
    BY <2>1, DownFacts
<1>3. Header \in Event
  BY DEF Event
<1>4. log' \in Seq(Event) /\ Len(log') = 1 /\ log'[1] = Header
  BY <1>1, <1>3
<1>5. synced = 0
  <2>1. Len(log) = 0
    BY <1>1, EmptySeq
  <2>2. synced \in 0 .. Len(log)
    BY DEF Inv, TypeOK
  <2>3. QED
    BY <2>1, <2>2
<1>6. TypeOK'
  <2>1. synced' \in 0 .. Len(log')
    BY <1>1, <1>4
  <2>2. TypeOK
    BY DEF Inv
  <2>3. QED
    BY <1>1, <1>4, <2>1, <2>2 DEF TypeOK, Running
<1>7. Filed'
  <2>1. Sound(log', 1) /\ Sound(log', 0)
    BY <1>4, HeaderAdded, SoundStart
  <2>2. FollowsAt(log', 0)
    BY <1>4, EventValues DEF FollowsAt
  <2>3. Lawful(log')
    <3>1. \A n \in 0 .. Len(log') - 1 : n = 0
      BY <1>4
    <3>2. \A n \in 0 .. Len(log') : n = 0 \/ n = 1
      BY <1>4
    <3>3. QED
      BY <2>1, <2>2, <3>1, <3>2 DEF Lawful
  <2>4. \A n \in 1 .. Len(log') : log'[n].event # "complete"
    <3>1. Header.event # "complete"
      BY EventValues
    <3>2. \A n \in 1 .. Len(log') : n = 1
      BY <1>4
    <3>3. QED
      BY <1>4, <3>1, <3>2
  <2>5. QED
    BY <1>1, <1>2, <2>3, <2>4 DEF Filed
<1>8. Booked'
  BY <1>1, <1>2 DEF Inv, Booked, InFlight
<1>9. Appending'
  BY <1>1, <1>2 DEF Appending, NoAppend
<1>10. \A q \in Request : id[q] = 0 /\ ~Receipted(q)
  <2>1. \A m \in 1 .. synced : FALSE
    BY <1>5
  <2>2. QED
    BY <2>1 DEF Inv, Owned, Retained
<1>11. Owned'
  BY <1>1, <1>10 DEF Inv, Owned, Before, With
<1>12. Retained'
  BY <1>1, <1>10 DEF Inv, Retained, Receipted
<1>13. QED
  BY <1>6, <1>7, <1>8, <1>9, <1>11, <1>12 DEF Inv

(* An attempt that a request owns and nobody validated is unfinished in    *)
(* every file that a crash may leave.                                      *)
LEMMA OwnedUnfinished ==
  ASSUME Inv, NEW k \in synced .. Len(log), NEW q \in Request, id[q] # 0, id[q] \notin validated
  PROVE  id[q] \in UnfinishedTo(log, k)
<1>1. PICK m \in 1 .. synced : log[m] = Begin(id[q], route[q])
  BY DEF Inv, Owned
<1>2. synced \in Nat /\ Len(log) \in Nat /\ k \in Nat /\ k <= Len(log) /\ synced <= k
  BY LenProperties DEF Inv, TypeOK
<1>3. id[q] \in IdsTo(log, k, "begin")
  <2>1. m \in LinesTo(log, k, "begin") /\ log[m].id = id[q]
    BY <1>1, <1>2, EventValues DEF LinesTo
  <2>2. QED
    BY <2>1 DEF IdsTo
<1>4. id[q] \notin IdsTo(log, k, "complete")
  <2>1. SUFFICES ASSUME NEW l \in LinesTo(log, k, "complete") PROVE log[l].id \in validated
    BY DEF IdsTo
  <2>2. l \in 1 .. Len(log) /\ log[l].event = "complete"
    BY <1>2 DEF LinesTo
  <2>3. QED
    BY <2>2 DEF Inv, Filed
<1>5. QED
  BY <1>3, <1>4 DEF UnfinishedTo

LEMMA OpenStep == Inv /\ Open => Inv'
<1> SUFFICES ASSUME Inv, Open PROVE Inv'
  OBVIOUS
<1>1. /\ ~up /\ up' = TRUE /\ healthy' = TRUE /\ bytes' = SizeOf(log) /\ begun' = Begun(log)
      /\ pending' = Pending(log) /\ Accepted(log)
      /\ UNCHANGED <<log, torn, synced, stops, append, phase, route, id, task>>
      /\ UNCHANGED <<sent, validated>>
  BY DEF Open, File, Requests, History
<1> DEFINE n == Len(log)
<1>2. /\ log \in Seq(Event) /\ n \in Nat /\ log # <<>> /\ n >= 1 /\ synced \in 0 .. n
      /\ MaxCalls \in Nat /\ MaxFile \in Nat
  BY <1>1, LenProperties, EmptySeq, GenerationAssumption DEF Inv, TypeOK, Accepted
<1>3. Sound(log, n)
  BY <1>2 DEF Inv, Filed, Lawful
<1>4. append = NoAppend /\ append.by = None /\ append.stage # "sync"
  BY <1>1, DownFacts, EventValues
<1>5. bytes' = SizeTo(log, n) /\ begun' = CountTo(log, n, "begin")
  BY <1>1, <1>2, WholeFile
<1>6. DOMAIN pending' = UnfinishedTo(log, n) /\ Routed(log, n, pending')
  <2>1. SubSeq(log, 1, n) = log
    BY <1>2, SubSeqFull
  <2>2. n \in 0 .. Len(log)
    BY <1>2
  <2>3. QED
    BY <1>1, <1>2, <1>3, <2>1, <2>2, PendingRouted
<1>7. bytes' \in 0 .. MaxFile
  <2>1. SizeTo(log, n) \in Nat
    BY <1>2, SizeNat
  <2>2. SizeOf(log) <= MaxFile
    BY <1>1 DEF Accepted
  <2>3. QED
    BY <1>1, <1>2, <1>5, <2>1, <2>2
<1>8. \A m \in LinesTo(log, n, "begin") : log[m].id \in 1 .. MaxCalls /\ log[m].route \in Route
  <2>1. SUFFICES ASSUME NEW m \in LinesTo(log, n, "begin")
                 PROVE  log[m].id \in 1 .. MaxCalls /\ log[m].route \in Route
    OBVIOUS
  <2>2. log[m] \in Event /\ log[m].event = "begin"
    BY <1>2, ElementOfSeq DEF LinesTo
  <2>3. QED
    BY <2>2, EventFields
<1>9. begun' \in 0 .. MaxCalls
  <2>1. begun' \in Nat
    BY <1>2, <1>5, CountStep
  <2>2. CASE begun' = 0
    BY <1>2, <2>2
  <2>3. CASE begun' # 0
    <3>1. begun' \in IdsTo(log, n, "begin")
      BY <1>3, <1>5, <2>1, <2>3 DEF Sound
    <3>2. QED
      BY <1>2, <1>8, <2>1, <3>1 DEF IdsTo
  <2>4. QED
    BY <2>2, <2>3
<1>10. DOMAIN pending' \subseteq 1 .. begun'
  BY <1>2, <1>3, <1>5, <1>6, UnfinishedFinite
<1>11. \A i \in DOMAIN pending' : pending'[i] \in Route
  <2>1. SUFFICES ASSUME NEW i \in DOMAIN pending' PROVE pending'[i] \in Route
    OBVIOUS
  <2>2. PICK m \in LinesTo(log, n, "begin") : log[m].id = i
    BY <1>6 DEF UnfinishedTo, IdsTo
  <2>3. QED
    BY <1>6, <1>8, <2>2 DEF Routed
<1>12. TypeOK'
  <2>1. TypeOK
    BY DEF Inv
  <2>2. QED
    BY <1>1, <1>4, <1>7, <1>9, <1>10, <1>11, <2>1 DEF TypeOK, Running
<1>13. Filed'
  BY <1>1, <1>2 DEF Inv, Filed
<1>14. Booked'
  <2>1. Followed' = n
    BY <1>1, <1>4 DEF Followed
  <2>2. QED
    BY <1>1, <1>2, <1>5, <1>6, <2>1 DEF Booked
<1>15. Appending'
  BY <1>1, <1>4 DEF Appending, NoAppend
<1>16. Owned'
  BY <1>1 DEF Inv, Owned, Before, With
<1>17. Retained'
  <2>1. ASSUME NEW q \in Request, id[q] # 0, id[q] \notin validated PROVE id[q] \in DOMAIN pending'
    <3>1. n \in synced .. Len(log)
      BY <1>2
    <3>2. QED
      BY <1>6, <2>1, <3>1, OwnedUnfinished
  <2>2. QED
    BY <1>1, <2>1 DEF Inv, Retained, Receipted
<1>18. QED
  BY <1>12, <1>13, <1>14, <1>15, <1>16, <1>17 DEF Inv

LEMMA GoneStep ==
  ASSUME Inv, Gone, stops' \in 0 .. MaxStops, torn' \in BOOLEAN,
         log' \in Seq(Event), Len(log') <= Len(log),
         \A m \in 1 .. Len(log') : log[m] = log'[m],
         synced' \in synced .. Len(log')
  PROVE  Inv'
<1>1. /\ up' = FALSE /\ healthy' = FALSE /\ bytes' = 0 /\ begun' = 0
      /\ pending' = [i \in {} |-> None] /\ append' = NoAppend
      /\ phase' = [r \in Request |-> IF r \in InFlight THEN "lost" ELSE phase[r]]
      /\ task' = [r \in Request |-> NoTask]
      /\ UNCHANGED <<route, id>> /\ UNCHANGED <<sent, validated>>
  BY DEF Gone, History
<1>2. /\ phase \in [Request -> Phases] /\ Len(log) \in Nat /\ Len(log') \in Nat
      /\ log \in Seq(Event) /\ synced \in Nat /\ synced' \in 0 .. Len(log') /\ synced <= synced'
      /\ MaxFile \in Nat /\ MaxCalls \in Nat
  BY LenProperties, GenerationAssumption DEF Inv, TypeOK, Phases
<1>3. phase' \in [Request -> Phases] /\ task' \in [Request -> Tasks]
  BY <1>1, <1>2 DEF Phases, Tasks, NoTask
<1>4. \A q \in Request : /\ phase'[q] \in {"begin", "sent", "complete"} => FALSE
                         /\ phase'[q] \in {"idle", "answered"} => phase[q] = phase'[q]
                         /\ task'[q] = "none"
  BY <1>1, <1>2 DEF InFlight, NoTask
<1>5. TypeOK'
  <2>1. Running' = {}
    BY <1>4 DEF Running
  <2>2. append'.by = None /\ DOMAIN pending' = {}
    BY <1>1, EventValues
  <2>3. bytes' \in 0 .. MaxFile /\ begun' \in 0 .. MaxCalls
    BY <1>1, <1>2
  <2>4. TypeOK
    BY DEF Inv
  <2>5. QED
    BY <1>1, <1>2, <1>3, <2>1, <2>2, <2>3, <2>4 DEF TypeOK, Phases, Tasks
<1>6. Filed'
  <2>1. Lawful(log')
    BY <1>2, LawfulCarry DEF Inv, Filed
  <2>2. log' # <<>> => synced' >= 1
    <3>1. SUFFICES ASSUME log' # <<>> PROVE synced' >= 1
      OBVIOUS
    <3>2. Len(log') # 0
      BY <1>2, <3>1, EmptySeq
    <3>3. log # <<>>
      BY <1>2, <3>2, EmptySeq
    <3>4. synced >= 1
      BY <3>3 DEF Inv, Filed
    <3>5. QED
      BY <1>2, <3>4
  <2>3. \A m \in 1 .. Len(log') : log'[m].event = "complete" => log'[m].id \in validated
    BY <1>2 DEF Inv, Filed
  <2>4. QED
    BY <1>1, <2>1, <2>2, <2>3 DEF Filed
<1>7. Booked'
  BY <1>1, <1>4 DEF Booked, InFlight, NoTask
<1>8. Appending'
  BY <1>1, EventValues DEF Appending, NoAppend
<1>9. \A m \in 1 .. synced : m \in 1 .. synced' /\ log'[m] = log[m]
  BY <1>2
<1>10. Owned'
  <2>1. ASSUME NEW q \in Request PROVE (Before(q)' => Before(q)) /\ ~With(q)'
    BY <1>4 DEF Before, With
  <2>2. ASSUME NEW q \in Request, id[q] # 0
        PROVE  \E m \in 1 .. synced' : log'[m] = Begin(id[q], route[q])
    BY <1>9, <2>2 DEF Inv, Owned
  <2>3. QED
    BY <1>1, <2>1, <2>2 DEF Inv, Owned
<1>11. Retained'
  <2>1. ASSUME NEW q \in Request, Receipted(q)'
        PROVE  \E m \in 1 .. synced' : log'[m] = Complete(id[q], route[q])
    <3>1. Receipted(q)
      BY <1>4, <2>1 DEF Receipted
    <3>2. QED
      BY <1>9, <3>1 DEF Inv, Retained
  <2>2. QED
    BY <1>1, <1>4, <2>1 DEF Inv, Retained
<1>12. QED
  BY <1>5, <1>6, <1>7, <1>8, <1>10, <1>11 DEF Inv

LEMMA EndsTyped ==
  ASSUME Inv, stops < MaxStops, stops' = stops + 1
  PROVE  stops' \in 0 .. MaxStops
BY GenerationAssumption DEF Inv, TypeOK

LEMMA ExitStep == Inv /\ Exit => Inv'
<1> SUFFICES ASSUME Inv, Exit PROVE Inv'
  OBVIOUS
<1>1. Gone /\ log' = log /\ synced' = synced /\ stops' \in 0 .. MaxStops
  BY EndsTyped DEF Exit
<1>2. torn' \in BOOLEAN
  <2>1. torn \in BOOLEAN /\ torn' \in IF append.stage = "write" THEN BOOLEAN ELSE {torn}
    BY DEF Exit, Inv, TypeOK
  <2>2. QED
    BY <2>1, Zenon
<1>3. log \in Seq(Event) /\ Len(log) \in Nat /\ synced \in 0 .. Len(log)
  BY LenProperties DEF Inv, TypeOK
<1>4. /\ log' \in Seq(Event) /\ Len(log') <= Len(log) /\ synced' \in synced .. Len(log')
      /\ \A m \in 1 .. Len(log') : log[m] = log'[m]
  BY <1>1, <1>3
<1>5. QED
  BY <1>1, <1>2, <1>4, GoneStep

LEMMA PowerLossStep == Inv /\ PowerLoss => Inv'
<1> SUFFICES ASSUME Inv, PowerLoss PROVE Inv'
  OBVIOUS
<1>1. PICK kept \in synced .. Len(log) :
        /\ log' = SubSeq(log, 1, kept)
        /\ torn' \in IF kept < Len(log) \/ torn \/ append.stage = "write"
                     THEN BOOLEAN ELSE {FALSE}
        /\ synced' = kept
  BY DEF PowerLoss
<1>2. Gone /\ stops' \in 0 .. MaxStops
  BY EndsTyped DEF PowerLoss
<1>3. torn' \in BOOLEAN
  BY <1>1, Zenon
<1>4. log \in Seq(Event) /\ Len(log) \in Nat /\ synced \in 0 .. Len(log)
  BY LenProperties DEF Inv, TypeOK
<1>5. kept \in 0 .. Len(log) /\ kept \in synced .. kept
  BY <1>4
<1>6. /\ log' \in Seq(Event) /\ Len(log') = kept
      /\ \A m \in 1 .. kept : log'[m] = log[m]
  BY <1>1, <1>4, <1>5, PrefixOf
<1>7. /\ Len(log') <= Len(log) /\ synced' \in synced .. Len(log')
      /\ \A m \in 1 .. Len(log') : log[m] = log'[m]
  BY <1>1, <1>5, <1>6
<1>8. QED
  BY <1>2, <1>3, <1>6, <1>7, GoneStep

-----------------------------------------------------------------------------
LEMMA InvStep == Inv /\ [Next]_vars => Inv'
<1> SUFFICES ASSUME Inv, [Next]_vars PROVE Inv'
  OBVIOUS
<1>1. CASE Initialize
  BY <1>1, InitializeStep
<1>2. CASE Open
  BY <1>2, OpenStep
<1>3. ASSUME NEW r \in Request,
             \/ Arrive(r) \/ StartAppend(r) \/ Refused(r)
             \/ Send(r) \/ Validate(r) \/ Answer(r) \/ Fail(r)
      PROVE  Inv'
  BY <1>3, ArriveStep, StartAppendStep, RefusedStep, SendStep, ValidateStep, AnswerStep,
     FailStep
<1>4. CASE WriteLine
  BY <1>4, WriteLineStep
<1>5. CASE Appended
  BY <1>5, AppendedStep
<1>6. CASE AppendFails
  BY <1>6, AppendFailsStep
<1>7. CASE Exit
  BY <1>7, ExitStep
<1>8. CASE PowerLoss
  BY <1>8, PowerLossStep
<1>9. CASE UNCHANGED vars
  <2>1. /\ UNCHANGED <<log, torn, synced, up, stops, healthy, bytes, begun, pending, append>>
        /\ UNCHANGED <<phase, route, id, task, sent, validated>>
    BY <1>9 DEF vars, File, Process, Journal, Requests, History
  <2>2. TypeOK'
    BY <2>1 DEF Inv, TypeOK, Running
  <2>3. Filed' /\ Booked'
    BY <2>1 DEF Inv, Filed, Booked, Followed, InFlight
  <2>4. Appending'
    BY <2>1 DEF Inv, Appending, MayBegin, MayComplete, Room
  <2>5. Owned' /\ Retained'
    BY <2>1 DEF Inv, Owned, Retained, Before, With, Receipted
  <2>6. QED
    BY <2>2, <2>3, <2>4, <2>5 DEF Inv
<1>10. QED
  BY <1>1, <1>2, <1>3, <1>4, <1>5, <1>6, <1>7, <1>8, <1>9 DEF Next

(* src/src/generation: the invariant of the adapter and its journal.  In   *)
(* whatever a crash leaves of the file the begins are numbered without a   *)
(* gap and the receipts that are missing fit; a healthy process agrees     *)
(* with the file; and an attempt has one owner, whose begin is synced.     *)
THEOREM GenerationInvariant == Spec => []Inv
<1>1. Init => Inv
  BY InitHolds
<1>2. Inv /\ [Next]_vars => Inv'
  BY InvStep
<1>3. QED
  BY <1>1, <1>2, PTL DEF Spec

-----------------------------------------------------------------------------
(* What a run checks, of the invariant.                                    *)
LEMMA InvUncertain == Inv => UncertainRetained
<1> SUFFICES ASSUME Inv PROVE UncertainRetained
  OBVIOUS
<1>1. ASSUME NEW i \in Dispatched \ validated
      PROVE  \E r \in Request : id[r] = i /\ id[r] # 0 /\ id[r] \notin validated
  <2>1. PICK p \in sent : p[2] = i
    BY <1>1 DEF Dispatched
  <2>2. p[1] \in Request /\ p[2] \in 1 .. MaxCalls
    BY <2>1 DEF Inv, TypeOK
  <2>3. id[p[1]] = i
    BY <2>1 DEF Inv, Owned
  <2>4. QED
    BY <1>1, <2>1, <2>2, <2>3
<1>2. ASSUME NEW kept \in synced .. Len(log), NEW i \in Dispatched \ validated
      PROVE  i \in Unfinished(SubSeq(log, 1, kept))
  <2>1. log \in Seq(Event) /\ kept \in 0 .. Len(log)
    BY LenProperties DEF Inv, TypeOK
  <2>2. Unfinished(SubSeq(log, 1, kept)) = UnfinishedTo(log, kept)
    BY <2>1, PrefixSays
  <2>3. QED
    BY <1>1, <2>2, OwnedUnfinished
<1>3. ASSUME up, NEW i \in Dispatched \ validated PROVE i \in DOMAIN pending
  BY <1>1, <1>3 DEF Inv, Retained
<1>4. QED
  BY <1>2, <1>3 DEF UncertainRetained

LEMMA InvCalls == Inv => CallsNeverRefunded
<1> SUFFICES ASSUME Inv PROVE CallsNeverRefunded
  OBVIOUS
<1> DEFINE n == CountTo(log, synced, "begin")
<1>1. ASSUME NEW p \in sent
      PROVE  /\ p = <<p[1], p[2]>> /\ p[1] \in Request /\ p[2] # 0
             /\ p[2] = id[p[1]]
  BY GenerationAssumption DEF Inv, TypeOK, Owned
<1>2. ASSUME NEW p \in sent, NEW q \in sent, p[2] = q[2] PROVE p = q
  <2>1. p[1] = q[1]
    BY <1>1, <1>2 DEF Inv, Owned
  <2>2. QED
    BY <1>1, <1>2, <2>1
<1>3. log \in Seq(Event) /\ synced \in Nat /\ synced \in 0 .. Len(log)
  BY LenProperties DEF Inv, TypeOK
<1>4. n \in Nat /\ IdsTo(log, synced, "begin") = 1 .. n
  BY <1>3, CountStep DEF Inv, Filed, Lawful, Sound
<1> HIDE DEF n
<1>5. ASSUME NEW p \in sent PROVE p[2] \in 1 .. n
  <2>1. PICK m \in 1 .. synced : log[m] = Begin(id[p[1]], route[p[1]])
    BY <1>1 DEF Inv, Owned
  <2>2. m \in LinesTo(log, synced, "begin") /\ log[m].id = p[2]
    BY <1>1, <2>1, EventValues DEF LinesTo
  <2>3. QED
    BY <1>4, <2>2 DEF IdsTo
<1>6. Cardinality(sent) <= n
  <2> DEFINE f == [p \in sent |-> p[2]]
  <2>1. f \in [sent -> 1 .. n]
    BY <1>5
  <2>2. f \in Injection(sent, 1 .. n)
    BY <1>2, <2>1 DEF Injection, IsInjective
  <2>3. IsFiniteSet(1 .. n) /\ Cardinality(1 .. n) = n
    BY <1>4, FS_Interval
  <2> HIDE DEF f
  <2>4. QED
    BY <2>2, <2>3, FS_Injection
<1>7. Begun(SubSeq(log, 1, synced)) = n
  BY <1>3, PrefixSays DEF n
<1>8. ASSUME up, append.stage # "sync", healthy PROVE begun = Begun(log)
  BY <1>8, BookedFacts, WholeFile
<1>9. QED
  BY <1>2, <1>6, <1>7, <1>8 DEF CallsNeverRefunded

(* src/src/generation: no crash, failed append or lost client forgets an   *)
(* attempt that may have been paid for, refunds a call, or leaves an       *)
(* answer without its receipt in the synced file.                          *)
THEOREM GenerationEvidenceKept == Spec => []EvidenceKept
<1>1. Inv => AnswerHasReceipt
  BY DEF Inv, Retained, Receipted, AnswerHasReceipt
<1>2. Inv => TypeOK
  BY DEF Inv
<1>3. Inv => EvidenceKept
  BY <1>1, <1>2, InvUncertain, InvCalls DEF EvidenceKept
<1>4. QED
  BY <1>3, GenerationInvariant, PTL

LEMMA InvUsable == Inv => JournalUsable
<1> SUFFICES ASSUME Inv PROVE JournalUsable
  OBVIOUS
<1>1. log # <<>> => Accepted(log)
  BY LawfulAccepted DEF Inv, TypeOK, Filed
<1> DEFINE claimed == {i \in DOMAIN pending :
                         append.by # None /\ append.event.event = "complete"
                         /\ append.event.id = i}
           receipts == DOMAIN pending \ claimed
           line == IF append.by = None THEN 0 ELSE Size(append.event)
<1>2. ASSUME up, healthy, append.stage # "sync"
      PROVE  /\ bytes = SizeOf(log)
             /\ bytes + line + Cardinality(receipts) * Reserve <= MaxFile
  <2>1. /\ bytes = SizeOf(log)
        /\ IsFiniteSet(DOMAIN pending) /\ Cardinality(DOMAIN pending) \in Nat
        /\ bytes + Cardinality(DOMAIN pending) * Reserve <= MaxFile
    BY <1>2, BookedFacts, WholeFile
  <2>2. bytes \in Nat /\ {MaxFile, MaxLine, Reserve, BeginSize, ReceiptSize} \subseteq Nat
        /\ BeginSize <= MaxLine /\ ReceiptSize <= Reserve
    BY GenerationAssumption DEF Inv, TypeOK
  <2>3. CASE append.by = None
    <3>1. receipts = DOMAIN pending /\ line = 0
      BY <2>3
    <3>2. QED
      BY <2>1, <2>2, <3>1, Distribute
  <2>4. CASE append.by # None /\ append.event.event = "begin"
    <3>1. Room /\ append.event \in Event
      BY <2>4, AppendFacts DEF MayBegin
    <3>2. receipts = DOMAIN pending /\ line = BeginSize
      BY <2>4, <3>1, SizeFields
    <3>3. bytes + MaxLine + (Cardinality(DOMAIN pending) + 1) * Reserve <= MaxFile
      BY <3>1 DEF Room
    <3>4. (Cardinality(DOMAIN pending) + 1) * Reserve = Cardinality(DOMAIN pending) * Reserve + Reserve
          /\ Cardinality(DOMAIN pending) * Reserve \in Nat
      BY <2>1, <2>2, Distribute
    <3> HIDE DEF receipts, line
    <3>5. QED
      BY <2>1, <2>2, <3>2, <3>3, <3>4
  <2>5. CASE append.by # None /\ append.event.event = "complete"
    <3> DEFINE i == append.event.id
    <3>1. append.event \in Event /\ i \in DOMAIN pending
      BY <2>5, AppendFacts DEF MayComplete
    <3>2. receipts = DOMAIN pending \ {i} /\ line = ReceiptSize
      BY <2>5, <3>1, SizeFields
    <3> HIDE DEF receipts, line, i
    <3>3. Cardinality(receipts) = Cardinality(DOMAIN pending) - 1 /\ IsFiniteSet(receipts)
      BY <2>1, <3>1, <3>2, FS_RemoveElement, FS_Subset
    <3>4. Cardinality(receipts) \in Nat /\ Cardinality(DOMAIN pending) = Cardinality(receipts) + 1
      BY <2>1, <3>3, FS_CardinalityType
    <3>5. Cardinality(DOMAIN pending) * Reserve = Cardinality(receipts) * Reserve + Reserve
          /\ Cardinality(receipts) * Reserve \in Nat
      BY <2>2, <3>4, Distribute
    <3>6. QED
      BY <2>1, <2>2, <3>2, <3>5
  <2>6. append.by # None => append.event.event \in {"begin", "complete"}
    BY AppendFacts
  <2>7. QED
    BY <2>1, <2>3, <2>4, <2>5, <2>6
<1>3. QED
  BY <1>1, <1>2 DEF JournalUsable

(* src/src/generation: whatever failed before, the next process accepts a  *)
(* file without a torn line, and the receipt of each pending attempt fits  *)
(* whoever appends in between.                                             *)
THEOREM GenerationJournalUsable == Spec => []JournalUsable
BY InvUsable, GenerationInvariant, PTL
=============================================================================
