----------------------------- MODULE ReviewSpans -----------------------------
(***************************************************************************)
(* One scanned document, from recognised words to a redacted draft:        *)
(* src/demo/ocr.py joins the words into a text and maps each to its page,  *)
(* src/demo/ocr_evidence.py checks that map whenever it is used,           *)
(* src/demo/review.py (with corpus.locate) accepts the findings that are   *)
(* exact spans of the text, and redact removes the approved ones.          *)
(* Offsets count from zero and ends are exclusive, as in the code; a text  *)
(* is a sequence of characters, so position p is text[p + 1].              *)
(***************************************************************************)
EXTENDS Integers, Sequences, SequencesExt, FiniteSetsExt, Places

CONSTANTS
  Letter,       \* characters that words are made of
  Wide,         \* those that take two bytes
  Space,        \* the separator that ocr.py puts between words
  Redacted,     \* the marker that stands for a removed range
  Pages,        \* expected_pages
  TextLimit,    \* MAX_DOCUMENT, bytes of a text, small
  WordLimit,    \* words of a map, small
  MapLimit,     \* bytes of a map, counted in pages and words, small
  MaxWords,     \* bound: words of the document
  MaxFindings   \* MAX_FINDINGS, small

ASSUME SpansAssumption ==
  /\ Space \notin Letter /\ Redacted \notin Letter \cup {Space} /\ Wide \subseteq Letter
  /\ {Pages, TextLimit, WordLimit, MapLimit, MaxWords, MaxFindings} \subseteq Nat

VARIABLES
  text,      \* the joined text
  words,     \* mapping['words']: [start, end, page]
  large,     \* pages of more pixels than the reader allows
  findings,  \* validated findings of the report, [start, end, kind]
  draft,     \* the redacted draft with its receipt, or NoDraft
  phase      \* "parse", "review", "redact", "done", "rejected"

spansVars == <<text, words, large, findings, draft, phase>>

NoDraft == [text |-> <<>>, approved |-> {}, ranges |-> <<>>, residual |-> {}]
(* privacy_candidate stands for privilege_candidate too: the code treats   *)
(* the two alike.                                                          *)
Kinds == {"issue_highlight", "privacy_candidate"}
Word == UNION {[1..n -> Letter] : n \in 1..2}
Finding == {f \in [start : 0..Len(text), end : 0..Len(text), kind : Kinds] : f.start < f.end}

SpansTypeOK ==
  /\ text \in Seq(Letter \cup {Space})
  /\ words \in Seq([start : Nat, end : Nat, page : 1..Pages])
  /\ large \subseteq 1..Pages
  /\ \A f \in findings : f.kind \in Kinds /\ f.start < f.end
  /\ phase \in {"parse", "review", "redact", "done", "rejected"}

SpansInit ==
  /\ text = <<>>
  /\ words = <<>>
  /\ large \in SUBSET (1..Pages)
  /\ findings = {}
  /\ draft = NoDraft
  /\ phase = "parse"

-----------------------------------------------------------------------------
(* parse_tsv: rows come page by page; a space goes before every word but   *)
(* the first, and only then is the word's start taken.                     *)
BugStartOf == Len(text)
StartOf == Len(text) + (IF words = <<>> THEN 0 ELSE 1)

ParseWord ==
  /\ phase = "parse"
  /\ Len(words) < MaxWords
  /\ \E w \in Word, page \in 1..Pages :
       /\ words # <<>> => words[Len(words)].page <= page
       /\ text' = text \o (IF words = <<>> THEN <<>> ELSE <<Space>>) \o w
       /\ words' = Append(words, [start |-> StartOf, end |-> Len(text'), page |-> page])
  /\ UNCHANGED <<large, findings, draft, phase>>

(* inspect: limits that the extractor does not have.  It stops at a table  *)
(* of 16 MiB, and takes a page of any positive size.                       *)
TextBytes == Len(text) + Cardinality({p \in DOMAIN text : text[p] \in Wide})
WithinLimits ==
  /\ TextBytes <= TextLimit
  /\ Len(words) <= WordLimit /\ Pages + Len(words) <= MapLimit
  /\ large = {}

(* inspect: the words cover the text from its start to its end, one        *)
(* separator between two of them; a text without words is empty.  Number   *)
(* and sequence of pages, word boxes and confidences are checked by both   *)
(* sides alike and left out.                                               *)
MapsText ==
  /\ \A i \in DOMAIN words :
       /\ 0 <= words[i].start /\ words[i].start < words[i].end /\ words[i].end <= Len(text)
       /\ words[i].start = IF i = 1 THEN 0 ELSE words[i - 1].end + 1
       /\ i > 1 => text[words[i - 1].end + 1] = Space
       /\ words[i].page \in 1..Pages
  /\ IF words = <<>> THEN text = <<>> ELSE words[Len(words)].end = Len(text)

Inspects == WithinLimits /\ MapsText

(* import_bundle measures the files, and it and every later use inspect    *)
(* the map.                                                                *)
Import ==
  /\ phase = "parse"
  /\ phase' = IF Inspects THEN "review" ELSE "rejected"
  /\ UNCHANGED <<text, words, large, findings, draft>>

-----------------------------------------------------------------------------
(* locate and location: a span inside the text that meets a word. *)
Meets(w, start, end) == w.start < end /\ w.end > start
Regions(start, end) == {i \in DOMAIN words : Meets(words[i], start, end)}
Supported(start, end) == 0 <= start /\ start < end /\ end <= Len(text) /\ Regions(start, end) # {}

(* validate: one unsupported finding rejects the whole report, and so does *)
(* a responsive one without an issue.                                      *)
Accepts(report, responsive) ==
  /\ \A f \in report : Supported(f.start, f.end)
  /\ responsive => \E f \in report : f.kind = "issue_highlight"

Review ==
  /\ phase = "review"
  /\ \E list \in BoundedSeq(Finding, MaxFindings), responsive \in BOOLEAN :
       LET report == ToSet(list) IN
       IF Accepts(report, responsive)
       THEN findings' = report /\ phase' = "redact"
       ELSE phase' = "rejected" /\ UNCHANGED findings
  /\ UNCHANGED <<text, words, large, draft>>

-----------------------------------------------------------------------------
(* redact: the approved spans in order of their starts, those that overlap *)
(* or touch joined, and a marker for each joined range.                    *)
Precedes(a, b) == a[1] < b[1] \/ (a[1] = b[1] /\ a[2] <= b[2])
Ordered(spans) ==
  [n \in 1..Cardinality(spans) |->
     CHOOSE s \in spans : Cardinality({t \in spans : Precedes(t, s)}) = n]

BugJoin(ranges, span) ==
  IF ranges # <<>> /\ span[1] <= Last(ranges)[2]
  THEN Append(Front(ranges), <<Last(ranges)[1], span[2]>>)
  ELSE Append(ranges, span)

Join(ranges, span) ==
  IF ranges # <<>> /\ span[1] <= Last(ranges)[2]
  THEN Append(Front(ranges), <<Last(ranges)[1], Max({span[2], Last(ranges)[2]})>>)
  ELSE Append(ranges, span)

Ranges(approved) ==
  LET spans == Ordered({<<f.start, f.end>> : f \in approved})
      joined[n \in 0..Len(spans)] ==
        IF n = 0 THEN <<>> ELSE Join(joined[n - 1], spans[n])
  IN  joined[Len(spans)]

Between(from, to) == SubSeq(text, from + 1, to)
CutStep(cut, range) ==
  [text |-> cut.text \o Between(cut.cursor, range[1]) \o <<Redacted>>, cursor |-> range[2]]
Derivative(ranges) ==
  LET cut[n \in 0..Len(ranges)] ==
        IF n = 0 THEN [text |-> <<>>, cursor |-> 0] ELSE CutStep(cut[n - 1], ranges[n])
      last == cut[Len(ranges)]
  IN  last.text \o Between(last.cursor, Len(text))

Occurs(quote, in) ==
  \E p \in 0..(Len(in) - Len(quote)) : SubSeq(in, p + 1, p + Len(quote)) = quote

(* What stays although its words were approved elsewhere is reported, not  *)
(* removed.                                                                *)
Residual(approved, derivative) ==
  {f \in approved : Occurs(Between(f.start, f.end), derivative)}

Redact ==
  /\ phase = "redact"
  /\ \E approved \in SUBSET {f \in findings : f.kind = "privacy_candidate"} :
       /\ approved # {}
       /\ LET ranges == Ranges(approved)
          IN  draft' = [text |-> Derivative(ranges), approved |-> approved, ranges |-> ranges,
                        residual |-> Residual(approved, Derivative(ranges))]
  /\ phase' = "done"
  /\ UNCHANGED <<text, words, large, findings>>

(* extract: another image than the one named, or an engine that fails or   *)
(* exceeds its limits, leaves no map.                                      *)
ExtractFails ==
  /\ phase = "parse"
  /\ phase' = "rejected"
  /\ UNCHANGED <<text, words, large, findings, draft>>

(* load_text: text, image and map are hashed whenever they are used; after *)
(* a change of one of them nothing more is accepted.                       *)
SourceChanged ==
  /\ phase \in {"review", "redact"}
  /\ phase' = "rejected"
  /\ UNCHANGED <<text, words, large, findings, draft>>

SpansNext == ParseWord \/ ExtractFails \/ Import \/ Review \/ Redact \/ SourceChanged

-----------------------------------------------------------------------------
(* ocr_evidence.py: what the extractor writes is refused by the reader of  *)
(* the map for nothing but its size, pixels of a page included, and the    *)
(* regions of a finding name exactly the words that hold its letters, none *)
(* of them missing and none beside it.                                     *)
SpansTraceable ==
  /\ SpansTypeOK
  /\ MapsText
  /\ \A f \in findings :
       LET letters == {p \in f.start..(f.end - 1) : text[p + 1] # Space}
           of(p) == {i \in DOMAIN words : p \in words[i].start..(words[i].end - 1)}
       IN  /\ UNION {of(p) : p \in letters} = Regions(f.start, f.end)
           /\ \A p \in letters : Cardinality(of(p)) = 1

(* REVIEW.md: the draft holds every character outside the approved spans,  *)
(* in order, none inside one, and one marker where a run of them was.      *)
RedactionExact ==
  phase = "done" =>
    LET gone == UNION {f.start..(f.end - 1) : f \in draft.approved}
        char == [p \in 0..(Len(text) - 1) |-> IF p \in gone THEN Redacted ELSE text[p + 1]]
        shown == {p \in DOMAIN char : p \notin gone \/ p - 1 \notin gone}
    IN  draft.text = Picked(char, shown)

(* From the page to the draft, no character is taken for another.          *)
SpansExact == SpansTraceable /\ RedactionExact
==============================================================================
