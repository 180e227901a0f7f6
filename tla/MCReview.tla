------------------------------- MODULE MCReview -------------------------------
(* The tools on the way of a document, from the archive to the published   *)
(* evidence, side by side: a behaviour is about one of them, its subject,  *)
(* and only the variables of that one move.                                *)
EXTENDS ReviewSpans, DecisionTrace, PricingQuote, CorpusSample, MediaPlan, EvidenceChain

VARIABLE subject

Price(paid) == [d \in Dimension |-> IF d \in paid THEN 3 ELSE 0]
MCOffer == {[context |-> 2, completion |-> 1, reviewed |-> TRUE, price |-> Price(paid)] :
              paid \in {{d} : d \in Dimension} \cup {{}, Dimension, {"prompt", "cache_write"}}}
           \cup {[context |-> 2, completion |-> n, reviewed |-> n = 0, price |-> Price({})] : n \in 0..1}
MCSignature == [c \in Content |->
                  CASE c = "note" -> "text" [] c = "photo" -> "image" [] c = "blob" -> "unknown"]

Init ==
  /\ subject \in {"spans", "trace", "quote", "sample", "media", "evidence"}
  /\ SpansInit /\ TraceInit /\ SampleInit
  /\ subject # "spans" => large = {}
  /\ QuoteInit
  /\ subject # "quote" => observed = 0 /\ offers = [lane \in Lane |-> CHOOSE o \in Offer : TRUE]
  /\ MediaInit
  /\ subject # "media" => archive = <<>>
  /\ EvidenceInit
  /\ subject # "evidence" => product = "package" /\ reviewed = {}

Next ==
  \/ /\ subject = "spans" /\ SpansNext
     /\ UNCHANGED <<subject, traceVars, quoteVars, sampleVars, mediaVars, evidenceVars>>
  \/ /\ subject = "trace" /\ TraceNext
     /\ UNCHANGED <<subject, spansVars, quoteVars, sampleVars, mediaVars, evidenceVars>>
  \/ /\ subject = "quote" /\ QuoteNext
     /\ UNCHANGED <<subject, spansVars, traceVars, sampleVars, mediaVars, evidenceVars>>
  \/ /\ subject = "sample" /\ SampleNext
     /\ UNCHANGED <<subject, spansVars, traceVars, quoteVars, mediaVars, evidenceVars>>
  \/ /\ subject = "media" /\ MediaNext
     /\ UNCHANGED <<subject, spansVars, traceVars, quoteVars, sampleVars, evidenceVars>>
  \/ /\ subject = "evidence" /\ EvidenceNext
     /\ UNCHANGED <<subject, spansVars, traceVars, quoteVars, sampleVars, mediaVars>>

Spec == Init /\ [][Next]_<<subject, spansVars, traceVars, quoteVars, sampleVars, mediaVars,
                           evidenceVars>>
==============================================================================
