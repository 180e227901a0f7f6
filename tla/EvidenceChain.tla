---------------------------- MODULE EvidenceChain ----------------------------
(***************************************************************************)
(* The tools that read the evidence of a run, file after file, while       *)
(* somebody may still be editing it, and publish what they read:           *)
(* src/demo/package_replay.py freezes a replay, its finding links and its  *)
(* metrics; src/demo/adjudication.py prepares a queue for a human and      *)
(* binds the decisions to it; src/scripts/validate_local.py validates a    *)
(* checkout, and src/scripts/verify_evidence.py accepts the bundle.        *)
(* Content is a version number.  The files of one run name each other's    *)
(* hashes, so two of them agree exactly when their versions are equal, and *)
(* an edit that puts back an earlier content is left out.                  *)
(***************************************************************************)
EXTENDS Integers, Sequences, FiniteSetsExt

CONSTANTS
  MaxRevisions,  \* bound: edits of the inputs
  MaxJobs,   \* bound: invocations of the tools
  Missing

ASSUME EvidenceAssumption ==
  MaxRevisions \in Nat /\ MaxJobs \in Nat /\ Missing \notin Nat

VARIABLES
  product,     \* what this behaviour is about: tools of different products share inputs only
  reviewed,    \* versions of the run whose task ended with a validated review
  version,     \* version[f]: content of an input; of the binaries: the sources they are built from
  tool,        \* the tool at work, or "none"
  jobs,        \* tools started so far
  got,         \* got[r]: the version that reading r of the tool at work returned
  held,        \* the queue bytes that resolve read first
  package,     \* the replay package
  queue,       \* the queue file: [replay, links], or Missing
  decisions,   \* the decisions file: [on, outcome], or Missing
  assessment,  \* the assessment file: [entries, queue, on, outcome], or Missing
  bundle       \* the validation bundle

evidenceVars == <<product, reviewed, version, tool, jobs, got, held, package, queue, decisions, assessment, bundle>>

(* A reading is named by its round and by what is read. *)
Linked == {"tasks", "corpus", "recording", "artifacts"}
Bound == {"recording", "reference", "inspector"}
File(what) ==
  CASE what \in {"replay", "recording", "seal", "hash", "rehash"} -> "recording"
    [] what = "bundle" -> "inspector"
    [] what \in {"digest", "copy", "tests", "build", "end"} -> "sources"
    [] what \in {"built", "e2e", "endbuilt"} -> "binaries"
    [] OTHER -> what

Round(r, whats) == [i \in DOMAIN whats |-> <<r, whats[i]>>]

(* link (review_link.py) ends by reading the seal once more; image_        *)
(* execution_assets loads the inspector before and inside link             *)
(* (vision_link.py).                                                       *)
Link(r) == Round(r, <<"tasks", "corpus", "recording", "artifacts", "seal">>)
Assets(r) == Round(r, <<"replay">>) \o Link(r)
ImageAssets(r) == Round(r, <<"replay", "bundle", "recording", "reference", "inspector">>)
Metrics == Round("metrics", <<"hash", "replay", "rehash">>)
Queue == Round("queue", <<"hash", "replay">>) \o Link("queue") \o Round("queue", <<"rehash">>)
Validation == Round("validate", <<"digest", "copy", "tests", "build", "built", "e2e",
                                  "end", "endbuilt">>)

Script == [freeze  |-> Assets("first") \o Metrics \o Assets("second"),
           image   |-> ImageAssets("first") \o Metrics \o ImageAssets("second"),
           prepare |-> Queue,
           resolve |-> Queue,
           validate |-> Validation]

ToolsOf == [package |-> {"freeze", "image"}, assessment |-> {"prepare", "resolve"},
            bundle |-> {"validate"}]

NoPackage == [by |-> 0, parts |-> {}, replay |-> Missing, links |-> Missing, metrics |-> Missing]
NoBundle == [by |-> 0, sources |-> Missing, copy |-> Missing, passed |-> FALSE,
             ran |-> <<>>, parts |-> {}]
Parts == {"metrics", "replay", "links", "manifest"}
Files == Linked \cup Bound \cup {"sources", "binaries"}

EvidenceTypeOK ==
  /\ product \in DOMAIN ToolsOf
  /\ reviewed \subseteq 0..MaxRevisions
  /\ version \in [Files -> 0..MaxRevisions]
  /\ tool \in DOMAIN Script \cup {"none"}
  /\ jobs \in 0..MaxJobs
  /\ \A r \in DOMAIN got : got[r] \in 0..MaxRevisions
  /\ package.parts \subseteq Parts
  /\ package.by \in 0..MaxJobs /\ bundle.by \in 0..MaxJobs
  /\ bundle.parts \subseteq {"result", "manifest"}

EvidenceInit ==
  /\ product \in DOMAIN ToolsOf
  /\ reviewed \in SUBSET (0..MaxRevisions)
  /\ version = [f \in Files |-> 0]
  /\ tool = "none"
  /\ jobs = 0
  /\ got = <<>>
  /\ held = Missing
  /\ package = NoPackage
  /\ queue = Missing
  /\ decisions = Missing
  /\ assessment = Missing
  /\ bundle = NoBundle

-----------------------------------------------------------------------------
(* Whoever works on the run or the checkout replaces some files at once, a *)
(* whole new run or a part of one, or builds the checkout again.           *)
Edits == Max({version[f] : f \in Files})

Reads == IF tool = "none" THEN {"sources"}
         ELSE {File(Script[tool][i][2]) : i \in DOMAIN Script[tool]} \ {"binaries"}

Revise ==
  /\ Edits < MaxRevisions
  /\ \E changed \in SUBSET Reads \ {{}} :
       version' = [f \in Files |-> IF f \in changed THEN Edits + 1 ELSE version[f]]
  /\ UNCHANGED <<product, reviewed, tool, jobs, got, held, package, queue, decisions, assessment, bundle>>

Rebuild ==
  /\ version["binaries"] # version["sources"]
  /\ version' = [version EXCEPT !["binaries"] = version["sources"]]
  /\ UNCHANGED <<product, reviewed, tool, jobs, got, held, package, queue, decisions, assessment, bundle>>

-----------------------------------------------------------------------------
(* The next reading; links are made for validated reviews only. *)
Skipped(r) ==
  /\ tool \in {"freeze", "prepare", "resolve"}
  /\ r[2] \in Linked \cup {"seal"}
  /\ <<r[1], "replay">> \in DOMAIN got
  /\ got[<<r[1], "replay">>] \notin reviewed

Left == {i \in DOMAIN Script[tool] : Script[tool][i] \notin DOMAIN got /\ ~ Skipped(Script[tool][i])}
NextReading == Script[tool][CHOOSE i \in Left : \A j \in Left : i <= j]

Have(readings) == readings \subseteq DOMAIN got
OneVersion(readings) == Cardinality({got[r] : r \in readings}) = 1

(* link: what it read must name each other, and the recorded task must be  *)
(* a completed validated review.                                           *)
LinkHolds(r) ==
  LET readings == {<<r, what>> : what \in Linked}
  IN  Have(readings) => OneVersion(readings) /\ got[<<r, "recording">>] \in reviewed

(* image_execution_assets: the receipt, the reference and the inspector    *)
(* name each other, and neither the inspector nor the recording that were  *)
(* loaded before may differ.                                               *)
ImageLinkHolds(r) ==
  LET readings == {<<r, what>> : what \in Bound}
  IN  Have(readings) =>
        /\ OneVersion(readings)
        /\ got[<<r, "bundle">>] = got[<<r, "inspector">>]
        /\ got[<<r, "replay">>] = got[<<r, "recording">>]

(* metrics and queue: the hashes before and after are of one content. *)
Unchanged(r) ==
  Have({<<r, "hash">>, <<r, "rehash">>}) => got[<<r, "hash">>] = got[<<r, "rehash">>]

BugReassembled == TRUE

(* freeze: the second assembly equals the first. *)
Reassembled ==
  \A r \in DOMAIN got :
     r[1] = "second" /\ <<"first", r[2]>> \in DOMAIN got => got[r] = got[<<"first", r[2]>>]

(* Two versions may share a run id, so freeze's comparison of run ids      *)
(* refuses nothing here that the others let pass.                          *)
Sound ==
  CASE tool = "freeze" -> LinkHolds("first") /\ LinkHolds("second") /\ Unchanged("metrics")
    [] tool = "image" -> ImageLinkHolds("first") /\ ImageLinkHolds("second") /\ Unchanged("metrics")
    [] tool \in {"prepare", "resolve"} -> LinkHolds("queue") /\ Unchanged("queue")
    [] OTHER -> TRUE

(* Where freeze creates its directory: after the first assembly. *)
Assembled == ~ \E i \in Left : Script[tool][i][1] = "first"
Packaging == tool \in {"freeze", "image"}
MustCreate ==
  \/ Packaging /\ Assembled /\ package.by # jobs
  \/ tool = "validate" /\ bundle.by # jobs
MustWrite ==
  \/ Packaging /\ <<"metrics", "rehash">> \in DOMAIN got /\ "metrics" \notin package.parts
  \/ tool = "validate" /\ bundle.parts # {}

Start(t) ==
  /\ tool = "none"
  /\ jobs < MaxJobs
  /\ t \in ToolsOf[product]
  /\ t = "resolve" => queue # Missing
  /\ tool' = t
  /\ jobs' = jobs + 1
  /\ held' = IF t = "resolve" THEN queue ELSE Missing
  /\ got' = <<>>
  /\ UNCHANGED <<product, reviewed, version, package, queue, decisions, assessment, bundle>>

Read ==
  /\ tool # "none"
  /\ Left # {}
  /\ Sound
  /\ ~ MustCreate
  /\ ~ MustWrite
  /\ LET r == NextReading
         (* A stage that builds leaves binaries of the sources it read. *)
         at == IF r[2] = "build" THEN [version EXCEPT !["binaries"] = version["sources"]]
               ELSE version
     IN  /\ got' = [x \in DOMAIN got \cup {r} |-> IF x = r THEN version[File(r[2])] ELSE got[x]]
         /\ version' = at
  /\ UNCHANGED <<product, reviewed, tool, jobs, held, package, queue, decisions, assessment, bundle>>

End == tool' = "none" /\ got' = <<>> /\ held' = Missing

(* The tool raises, or is killed; what it wrote stays. *)
Raise ==
  /\ tool # "none"
  /\ End
  /\ UNCHANGED <<product, reviewed, version, jobs, package, queue, decisions, assessment, bundle>>

-----------------------------------------------------------------------------
(* freeze: a directory that exists is refused.  The metrics are written    *)
(* while reading, the rest from what the first assembly returned, the      *)
(* manifest last.  Nothing is synced.                                      *)
Create ==
  /\ tool # "none"
  /\ Sound
  /\ MustCreate
  /\ \/ /\ Packaging
        /\ package.by = 0
        /\ package' = [package EXCEPT !.by = jobs]
        /\ UNCHANGED bundle
     \/ /\ tool = "validate"
        /\ bundle.by = 0
        /\ bundle' = [bundle EXCEPT !.by = jobs]
        /\ UNCHANGED package
  /\ UNCHANGED <<product, reviewed, version, tool, jobs, got, held, queue, decisions, assessment>>

WriteMetrics ==
  /\ Packaging
  /\ package.by = jobs
  /\ "metrics" \notin package.parts
  /\ <<"metrics", "rehash">> \in DOMAIN got
  /\ Sound
  /\ package' = [package EXCEPT !.parts = @ \cup {"metrics"},
                                !.metrics = got[<<"metrics", "replay">>]]
  /\ UNCHANGED <<product, reviewed, version, tool, jobs, got, held, queue, decisions, assessment, bundle>>

LinksOf(r) == IF <<r, "recording">> \in DOMAIN got THEN got[<<r, "recording">>] ELSE Missing

WriteContent(part) ==
  /\ Packaging
  /\ Left = {}
  /\ Sound
  /\ Reassembled
  /\ "metrics" \in package.parts
  /\ part \notin package.parts
  /\ part = "manifest" => package.parts = Parts \ {"manifest"}
  /\ package' = [package EXCEPT !.parts = @ \cup {part},
                                !.replay = IF part = "replay" THEN got[<<"first", "replay">>] ELSE @,
                                !.links = IF part = "links" THEN LinksOf("first") ELSE @]
  /\ IF part = "manifest" THEN End ELSE UNCHANGED <<tool, got, held>>
  /\ UNCHANGED <<product, reviewed, version, jobs, queue, decisions, assessment, bundle>>

(* verify (package_replay.py): exactly the files the manifest names, with  *)
(* the bytes it names.                                                     *)
PackageAccepted == package.parts = Parts

(* Nothing was synced: the machine stops, and any of it may be gone. *)
PowerLoss ==
  /\ package.parts # {}
  /\ \E kept \in SUBSET package.parts : package' = [package EXCEPT !.parts = kept]
  /\ End
  /\ UNCHANGED <<product, reviewed, version, jobs, queue, decisions, assessment, bundle>>

-----------------------------------------------------------------------------
(* prepare: create-only.  The operator may move a queue away. *)
Observed == [replay |-> got[<<"queue", "replay">>], links |-> LinksOf("queue")]

Prepare ==
  /\ tool = "prepare"
  /\ Left = {}
  /\ Sound
  /\ queue = Missing
  /\ queue' = Observed
  /\ End
  /\ UNCHANGED <<product, reviewed, version, jobs, package, decisions, assessment, bundle>>

MoveQueueAway ==
  /\ tool = "none"
  /\ queue # Missing
  /\ queue' = Missing
  /\ UNCHANGED <<product, reviewed, version, tool, jobs, got, held, package, decisions, assessment, bundle>>

(* A human reads the queue and writes decisions that name its hash. *)
Judge ==
  /\ queue # Missing
  /\ \E outcome \in {"confirm_review", "needs_more_context"} :
       decisions' = [on |-> queue, outcome |-> outcome]
  /\ UNCHANGED <<product, reviewed, version, tool, jobs, got, held, package, queue, assessment, bundle>>

BugBinds == held = Observed

(* resolve: the queue is recomputed and compared, the decisions must name  *)
(* its bytes, and a review that is absent can be neither confirmed nor     *)
(* rejected.  The report repeats the recomputed entries and the hash of    *)
(* the queue file.                                                         *)
Binds ==
  /\ held = Observed
  /\ decisions.on = held
  /\ decisions.outcome = "confirm_review" => Observed.links # Missing

Resolve ==
  /\ tool = "resolve"
  /\ Left = {}
  /\ Sound
  /\ decisions # Missing
  /\ Binds
  /\ assessment = Missing
  /\ assessment' = [entries |-> Observed, queue |-> held,
                    on |-> decisions.on, outcome |-> decisions.outcome]
  /\ End
  /\ UNCHANGED <<product, reviewed, version, jobs, package, queue, decisions, bundle>>

-----------------------------------------------------------------------------
(* validate_local.run: stages stop at the first that fails or times out.   *)
(* The sources and the binaries are hashed again at the end; a failure is  *)
(* recorded as such, and the manifest of the bundle is written last.       *)
Tested == {"tests", "build", "built", "e2e"}

EndsAsBegun ==
  /\ got[<<"validate", "end">>] = got[<<"validate", "digest">>]
  /\ got[<<"validate", "endbuilt">>] = got[<<"validate", "built">>]

WriteResult ==
  /\ tool = "validate"
  /\ bundle.by = jobs
  /\ bundle.parts = {}
  /\ Have({<<"validate", "digest">>, <<"validate", "copy">>})
  /\ \E passed \in IF Left = {} /\ EndsAsBegun THEN BOOLEAN ELSE {FALSE} :
       bundle' = [bundle EXCEPT
         !.parts = {"result"},
         !.sources = got[<<"validate", "digest">>],
         !.copy = got[<<"validate", "copy">>],
         !.passed = passed,
         !.ran = [what \in {w \in Tested : <<"validate", w>> \in DOMAIN got}
                    |-> got[<<"validate", what>>]]]
  /\ UNCHANGED <<product, reviewed, version, tool, jobs, got, held, package, queue, decisions, assessment>>

WriteManifest ==
  /\ tool = "validate"
  /\ bundle.by = jobs
  /\ bundle.parts = {"result"}
  /\ bundle' = [bundle EXCEPT !.parts = @ \cup {"manifest"}]
  /\ End
  /\ UNCHANGED <<product, reviewed, version, jobs, package, queue, decisions, assessment>>

(* verify (verify_evidence.py), against the checkout as it is now. *)
BugBundleAccepted ==
  /\ "manifest" \in bundle.parts
  /\ bundle.passed
  /\ bundle.copy = bundle.sources

BundleAccepted ==
  /\ "manifest" \in bundle.parts
  /\ bundle.passed
  /\ bundle.sources = version["sources"]
  /\ bundle.copy = version["sources"]

EvidenceNext ==
  \/ Revise
  \/ Rebuild
  \/ \E t \in DOMAIN Script : Start(t)
  \/ Read
  \/ Raise
  \/ Create
  \/ WriteMetrics
  \/ \E part \in Parts : WriteContent(part)
  \/ PowerLoss
  \/ Prepare
  \/ MoveQueueAway
  \/ Judge
  \/ Resolve
  \/ WriteResult
  \/ WriteManifest


-----------------------------------------------------------------------------
(* package_replay.py, "Reassemble to ensure the source associations did    *)
(* not change": replay, links and metrics of a package that verifies are   *)
(* of one run, whenever it was edited, and however packaging was cut.      *)
PackageOfOneRun ==
  /\ EvidenceTypeOK
  /\ PackageAccepted =>
     /\ package.metrics = package.replay
     /\ package.links \in {Missing, package.replay}
     /\ package.replay \in reviewed => package.links = package.replay

(* ADJUDICATION.md: an assessment names the queue that its decisions were  *)
(* made on and repeats the entries of that queue, not of a later run; its  *)
(* states and reviews are of one run, and nobody confirmed a review that   *)
(* is not there.                                                           *)
AssessmentBinds ==
  assessment # Missing =>
     /\ assessment.on = assessment.queue
     /\ assessment.entries = assessment.queue
     /\ assessment.entries.links \in {Missing, assessment.entries.replay}
     /\ assessment.outcome = "confirm_review" => assessment.entries.replay \in reviewed

(* What is published, a package or an assessment, is of one run.           *)
PublishedOfOneRun == PackageOfOneRun /\ AssessmentBinds

(* verify_evidence.py: accepted evidence is of the present sources: every  *)
(* stage ran on them, or on binaries built from them.                      *)
EvidenceIsCurrent ==
  BundleAccepted => bundle.ran = [stage \in Tested |-> version["sources"]]
==============================================================================
