------------------------------ MODULE MediaPlan ------------------------------
(***************************************************************************)
(* Native media before any review: src/demo/media.py inventories the       *)
(* complete members of the first bytes of an archive, probe_images.py      *)
(* decodes its images one by one in child processes, and media_plan.py     *)
(* gives every member a preparation stage, from the inventory, the stored  *)
(* objects and the decoder's receipts.  An object is stored under the hash *)
(* of its content; several members may share a content or a native id.     *)
(***************************************************************************)
EXTENDS Integers, Sequences, SequencesExt, FiniteSetsExt, Places

CONSTANTS
  NativeId,     \* native ids, with the one of a name that holds none
  Content,      \* contents of archive members
  NotFile,      \* stands for the content of a directory or other entry
  Signature,    \* identify: Content -> "text", "image", "unknown", "other"
  Decodable,    \* the images that the decoder reads within its limits
  Large,        \* contents beyond MAX_MEMBER
  EntryLimit,   \* MAX_MEMBERS, small
  MaxEntries,   \* bound: entries of the archive
  MaxTouches    \* bound: later edits of objects, receipts and inventory

ASSUME MediaAssumption ==
  /\ NotFile \notin Content
  /\ Signature \in [Content -> {"text", "image", "unknown", "other"}]
  /\ Decodable \subseteq {c \in Content : Signature[c] = "image"}
  /\ Large \subseteq Content
  /\ {EntryLimit, MaxEntries, MaxTouches} \subseteq Nat

VARIABLES
  archive,    \* the entries of the whole native archive, [id, content]
  prefix,     \* [whole, cut]: entries the prefix holds in full, and where it is cut
  scanned,    \* entries that inventory has read
  inventory,  \* [members, ended], ended = "no" while scanning
  stored,     \* contents written to objects/
  altered,    \* those whose object was changed afterwards
  probe,      \* [of, images]: decoder receipts and the inventory they name, or NoProbe
  records,    \* those of the plan, or Unplanned
  touches,    \* edits so far
  desk        \* "scan", "listed", "probed", "planned", "failed"

mediaVars == <<archive, prefix, scanned, inventory, stored, altered, probe, records, touches, desk>>

NoProbe == [of |-> <<>>, images |-> <<>>]
Unplanned == <<>>
Entry == [id : NativeId, content : Content \cup {NotFile}]
Receipt == [id : NativeId, content : Content, decoded : BOOLEAN]
IsImage(member) == Signature[member.content] = "image"

MediaTypeOK ==
  /\ archive \in BoundedSeq(Entry, MaxEntries)
  /\ scanned \in 0..prefix.whole
  /\ inventory.ended \in {"no", "archive_end", "member_limit", "expanded_byte_limit", "prefix_end"}
  /\ touches \in 0..MaxTouches
  /\ altered \subseteq stored /\ stored \subseteq Content
  /\ \A i \in DOMAIN probe.images : probe.images[i] \in Receipt

(* The prefix may hold the archive, or be cut within the header of an      *)
(* entry (or right before it) or within its data.                          *)
MediaInit ==
  /\ archive \in BoundedSeq(Entry, MaxEntries)
  /\ prefix \in [whole : 0..Len(archive), cut : {"no", "header", "data"}]
  /\ prefix.cut = "no" <=> prefix.whole = Len(archive)
  /\ scanned = 0
  /\ inventory = [members |-> <<>>, ended |-> "no"]
  /\ stored = {}
  /\ altered = {}
  /\ probe = NoProbe
  /\ records = Unplanned
  /\ touches = 0
  /\ desk = "scan"

-----------------------------------------------------------------------------
(* inventory: entry after entry; one content is stored once, and every     *)
(* member that is a file is listed.                                        *)
Ends(reason) ==
  /\ inventory' = [inventory EXCEPT !.ended = reason]
  /\ desk' = "listed"
  /\ UNCHANGED <<archive, prefix, scanned, stored, altered, probe, records, touches>>

ListEntry ==
  /\ desk = "scan"
  /\ scanned < prefix.whole
  /\ scanned < EntryLimit
  /\ LET entry == archive[scanned + 1] IN
       /\ entry.content \notin Large
       /\ IF entry.content = NotFile THEN UNCHANGED <<inventory, stored>>
          ELSE /\ inventory' = [inventory EXCEPT !.members = Append(@, entry)]
               /\ stored' = stored \cup {entry.content}
  /\ scanned' = scanned + 1
  /\ UNCHANGED <<archive, prefix, altered, probe, records, touches, desk>>

(* Bounds of entries and of bytes. *)
HitLimit ==
  /\ desk = "scan"
  /\ scanned < prefix.whole
  /\ IF scanned >= EntryLimit THEN Ends("member_limit")
     ELSE archive[scanned + 1].content \in Large /\ Ends("expanded_byte_limit")

(* What tarfile reports where the bytes stop: a header that is missing or  *)
(* short ends the archive, unless it is the first one; short data raise.   *)
Stop ==
  IF prefix.cut = "no" \/ (prefix.cut = "header" /\ scanned > 0)
  THEN "archive_end" ELSE "prefix_end"

RunOut ==
  /\ desk = "scan"
  /\ scanned = prefix.whole
  /\ Ends(Stop)

(* An unsafe entry raises: there are objects, and no inventory. *)
UnsafeEntry ==
  /\ desk = "scan"
  /\ scanned < prefix.whole
  /\ desk' = "failed"
  /\ UNCHANGED <<archive, prefix, scanned, inventory, stored, altered, probe, records, touches>>

(* Somebody changes a stored object. *)
Touch == touches < MaxTouches /\ touches' = touches + 1

AlterObject ==
  /\ desk \in {"listed", "probed"}
  /\ Touch
  /\ \E c \in stored \ altered : altered' = altered \cup {c}
  /\ UNCHANGED <<archive, prefix, scanned, inventory, stored, probe, records, desk>>

-----------------------------------------------------------------------------
(* probe: every image member in its own child; the child may miss its      *)
(* deadline, and rejects an object whose hash is not its name.             *)
Images(members) == Picked(members, {i \in DOMAIN members : IsImage(members[i])})
Decodes(content) == content \in Decodable \ altered

Probe ==
  /\ desk = "listed"
  /\ LET images == Images(inventory.members) IN
       \E late \in SUBSET DOMAIN images :
         probe' = [of |-> inventory.members,
                   images |-> [i \in DOMAIN images |->
                     [id |-> images[i].id, content |-> images[i].content,
                      decoded |-> i \notin late /\ Decodes(images[i].content)]]]
  /\ desk' = "probed"
  /\ UNCHANGED <<archive, prefix, scanned, inventory, stored, altered, records, touches>>

(* Somebody edits the receipts, or the inventory they name. *)
EditReceipts ==
  /\ desk = "probed"
  /\ Touch
  /\ \/ \E i \in DOMAIN probe.images : probe' = [probe EXCEPT !.images = RemoveAt(@, i)]
     \/ \E r \in Receipt : /\ Len(probe.images) < MaxEntries
                           /\ probe' = [probe EXCEPT !.images = Append(@, r)]
  /\ UNCHANGED <<archive, prefix, scanned, inventory, stored, altered, records, desk>>

EditInventory ==
  /\ desk = "probed"
  /\ Touch
  /\ \E i \in DOMAIN inventory.members :
       inventory' = [inventory EXCEPT !.members = RemoveAt(@, i)]
  /\ UNCHANGED <<archive, prefix, scanned, stored, altered, probe, records, desk>>

-----------------------------------------------------------------------------
(* plan: a receipt belongs to a native id and a content; two receipts of   *)
(* one key must be equal, every image has one, and none is left over.      *)
BugKey(r) == r.content
Key(r) == <<r.id, r.content>>
Conflicting == \E r, s \in ToSet(probe.images) : Key(r) = Key(s) /\ r # s
ReceiptOf(member) == SelectLastInSeq(probe.images, LAMBDA r : Key(r) = Key(member))
Matched ==
  {Key(r) : r \in ToSet(probe.images)} =
    {Key(m) : m \in {m \in ToSet(inventory.members) : IsImage(m)}}

StageOf(member) ==
  CASE Signature[member.content] = "text" -> "prepare_text_review"
    [] IsImage(member) -> IF probe.images[ReceiptOf(member)].decoded
                          THEN "prepare_ocr" ELSE "inspect_failure"
    [] Signature[member.content] = "unknown" -> "inspect_unknown"
    [] OTHER -> "needs_decoder"

RecordOf(member) ==
  [id |-> member.id, content |-> member.content, stage |-> StageOf(member),
   receipt |-> IF IsImage(member) THEN {probe.images[ReceiptOf(member)]} ELSE {}]

Plannable ==
  /\ probe.of = inventory.members
  /\ ~ Conflicting
  /\ Matched
  /\ ~ \E m \in ToSet(inventory.members) : m.content \in altered

MakeMediaPlan ==
  /\ desk = "probed"
  /\ IF Plannable
     THEN /\ records' = [i \in DOMAIN inventory.members |-> RecordOf(inventory.members[i])]
          /\ desk' = "planned"
     ELSE desk' = "failed" /\ UNCHANGED records
  /\ UNCHANGED <<archive, prefix, scanned, inventory, stored, altered, probe, touches>>

MediaNext ==
  \/ ListEntry \/ HitLimit \/ RunOut \/ UnsafeEntry \/ AlterObject
  \/ Probe \/ EditReceipts \/ EditInventory \/ MakeMediaPlan

-----------------------------------------------------------------------------
(* MEDIA.md, "retains each archive member, including duplicate content":   *)
(* a plan has a record of every file that the scan read, in order, and an  *)
(* image's stage follows a receipt for its own id and content; where two   *)
(* members share both, they share the receipt.  No record is of an object  *)
(* that was changed under its name, before the decoder or after it.        *)
MediaAccounted ==
  /\ MediaTypeOK
  /\ desk = "planned" =>
    LET files == Picked(archive, {k \in 1..scanned : archive[k].content # NotFile})
    IN  /\ [i \in DOMAIN records |-> [id |-> records[i].id, content |-> records[i].content]] = files
        /\ UNION {records[i].receipt : i \in DOMAIN records} = ToSet(probe.images)
        /\ \A i \in DOMAIN records :
             /\ records[i].content \notin altered
             /\ IsImage(records[i]) <=> records[i].receipt # {}
             /\ \A r \in records[i].receipt :
                  /\ r.id = records[i].id /\ r.content = records[i].content
                  /\ records[i].stage = "prepare_ocr" <=> r.decoded

(* MEDIA.md:49-51, "A partial compressed stream can end during the next    *)
(* member. The inventory explicitly records that termination": a scan that *)
(* says the archive ended has read all of the archive.                     *)
TerminationRecorded ==
  inventory.ended = "archive_end" => scanned = Len(archive)
==============================================================================
