----------------------------- MODULE CorpusSample -----------------------------
(***************************************************************************)
(* src/demo/corpus.py and src/demo/prepare_review.py: the seed file labels *)
(* documents by topic, the archive is scanned once for their texts until   *)
(* the sample is full, and every sampled document becomes a review task or *)
(* a visible exception.  An error in any of them leaves no manifest.       *)
(***************************************************************************)
EXTENDS Integers, FiniteSets

CONSTANTS
  DocId, Family, Topic,
  Assessment,   \* the judgments a seed row may hold
  Text,         \* contents that decode
  Oversized,    \* those whose request exceeds the gateway's body bound
  Undecodable,  \* contents that do not decode
  Limit,        \* limit of the sample
  MaxRows, MaxMembers   \* bounds: seed rows and archive members

ASSUME SampleAssumption ==
  /\ Oversized \subseteq Text /\ Undecodable \cap Text = {}
  /\ Limit \in Nat \ {0} /\ {MaxRows, MaxMembers} \subseteq Nat

VARIABLES
  rows,        \* the seed rows read
  labels,      \* result of seeds: DocId -> entry
  members,     \* the archive members read: <<position, id, content>>
  documents, exclusions,
  prepared,    \* [tasks, exceptions] of prepare_review, or Unprepared
  step         \* "seeds", "scan", "manifest", "prepared", "failed"

sampleVars == <<rows, labels, members, documents, exclusions, prepared, step>>

Unlabelled == [family |-> "none", judgments |-> {}, conflicts |-> {}]
Unprepared == [tasks |-> {}, exceptions |-> {}]
Row == [id : DocId, family : Family, topic : Topic, assessment : Assessment]
Labelled == {id \in DocId : labels[id] # Unlabelled}
IdsOf(found) == {d.id : d \in found}
Seen == IdsOf(documents) \cup IdsOf(exclusions)

SampleTypeOK ==
  /\ rows \subseteq Row
  /\ \A id \in DocId : labels[id].conflicts \subseteq Topic
  /\ documents \subseteq [id : DocId, content : Text, label : {labels[id] : id \in DocId}]
  /\ exclusions \subseteq [id : DocId, content : Undecodable]
  /\ step \in {"seeds", "scan", "manifest", "prepared", "failed"}

SampleInit ==
  /\ rows = {}
  /\ labels = [id \in DocId |-> Unlabelled]
  /\ members = {}
  /\ documents = {}
  /\ exclusions = {}
  /\ prepared = Unprepared
  /\ step = "seeds"

-----------------------------------------------------------------------------
(* seeds: one family per document; a second judgment of a topic that is    *)
(* not the first one makes the topic a conflict, and both are kept.        *)
WithJudgment(entry, row) ==
  LET label == [topic |-> row.topic, assessment |-> row.assessment]
      disputed == \E j \in entry.judgments : j.topic = row.topic /\ j # label
  IN  [family |-> row.family, judgments |-> entry.judgments \cup {label},
       conflicts |-> entry.conflicts \cup (IF disputed THEN {row.topic} ELSE {})]

ReadSeed ==
  /\ step = "seeds"
  /\ Cardinality(rows) < MaxRows
  /\ \E row \in Row :
       /\ rows' = rows \cup {row}
       /\ IF row.id \in Labelled /\ labels[row.id].family # row.family
          THEN step' = "failed" /\ UNCHANGED labels
          ELSE labels' = [labels EXCEPT ![row.id] = WithJudgment(@, row)] /\ UNCHANGED step
  /\ UNCHANGED <<members, documents, exclusions, prepared>>

StartScan ==
  /\ step = "seeds"
  /\ step' = "scan"
  /\ UNCHANGED <<rows, labels, members, documents, exclusions, prepared>>

-----------------------------------------------------------------------------
(* ingest: the first member of a labelled document counts, a later one of  *)
(* the same name is passed over, and the scan ends with the last place.    *)
BugCounts(id) == id \in Labelled /\ id \notin IdsOf(documents)
Counts(id) == id \in Labelled /\ id \notin Seen

ReadMember ==
  /\ step = "scan"
  /\ Cardinality(members) < MaxMembers
  /\ \E id \in DocId, content \in Text \cup Undecodable :
       LET document == [id |-> id, content |-> content, label |-> labels[id]]
           taken == Counts(id) /\ content \in Text
       IN  /\ members' = members \cup {<<Cardinality(members) + 1, id, content>>}
           /\ documents' = IF taken THEN documents \cup {document} ELSE documents
           /\ exclusions' = IF Counts(id) /\ ~taken
                            THEN exclusions \cup {[id |-> id, content |-> content]} ELSE exclusions
           /\ step' = IF taken /\ Cardinality(documents') >= Limit THEN "manifest" ELSE step
  /\ UNCHANGED <<rows, labels, prepared>>

(* A member that is unsafe, too large or not of its declared size. *)
BadMember ==
  /\ step = "scan"
  /\ step' = "failed"
  /\ UNCHANGED <<rows, labels, members, documents, exclusions, prepared>>

EndScan ==
  /\ step = "scan"
  /\ step' = "manifest"
  /\ UNCHANGED <<rows, labels, members, documents, exclusions, prepared>>

(* prepare: an object that changed, a repeated document or an empty sample *)
(* prepares nothing; only the body bound turns a document into an          *)
(* exception.                                                              *)
(* prompt: the request with the text in it is within the body bound. *)
Fits(d) == d.content \notin Oversized
Task(d) == [id |-> d.id, content |-> d.content]

PrepareTasks ==
  /\ step = "manifest"
  /\ IF documents # {} /\ Cardinality(IdsOf(documents)) = Cardinality(documents)
     THEN /\ prepared' = [tasks |-> {Task(d) : d \in {d \in documents : Fits(d)}},
                          exceptions |-> {d.id : d \in {d \in documents : ~ Fits(d)}}]
          /\ step' = "prepared"
     ELSE step' = "failed" /\ UNCHANGED prepared
  /\ UNCHANGED <<rows, labels, members, documents, exclusions>>

ObjectChanged ==
  /\ step = "manifest"
  /\ step' = "failed"
  /\ UNCHANGED <<rows, labels, members, documents, exclusions, prepared>>

SampleNext ==
  \/ ReadSeed \/ StartScan \/ ReadMember \/ BadMember \/ EndScan \/ PrepareTasks \/ ObjectChanged

-----------------------------------------------------------------------------
(* CORPUS.md, REVIEW.md: nothing labelled that the scan met is dropped or  *)
(* counted twice: its first text is a task, an exception or an exclusion,  *)
(* with a dispute of its seeds recorded when, and only when, there is one. *)
First(id) == CHOOSE m \in members : m[2] = id /\ \A n \in members : n[2] = id => m[1] <= n[1]

SampleAccounted ==
  /\ SampleTypeOK
  /\ step \in {"manifest", "prepared"} =>
    LET met == {m[2] : m \in members} \cap Labelled
        firstText(id) == First(id)[3]
    IN  /\ Cardinality(documents) <= Limit
        /\ IdsOf(exclusions) = {id \in met : firstText(id) \in Undecodable}
        /\ {Task(d) : d \in documents} =
             {[id |-> id, content |-> firstText(id)] : id \in {i \in met : firstText(i) \in Text}}
        /\ \A id \in Labelled : \A topic \in Topic :
             topic \in labels[id].conflicts <=>
               \E r, s \in rows : r.id = id /\ s.id = id /\ r.topic = topic /\ s.topic = topic
                                  /\ r.assessment # s.assessment
        /\ step = "prepared" =>
             IdsOf(documents) = IdsOf(prepared.tasks) \cup prepared.exceptions
==============================================================================
