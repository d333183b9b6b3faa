---------------------------- MODULE EngineChoice ----------------------------
(***************************************************************************)
(* The choice among the results of several restoration engines for one     *)
(* page: the plan of the engines to invoke and the final selection         *)
(* (st_restore_selector.py), the safety verdict on a candidate             *)
(* (music_safety_validator.py), the evidence on its musical symbols        *)
(* (music_symbol_preservation.py) and the comparison of the variants       *)
(* (multi_engine_comparator.py).                                           *)
(*                                                                         *)
(* The four modules are functions that a caller applies to records it      *)
(* keeps; the repository's tests and drills are the only callers.  The     *)
(* caller modelled here keeps one variant per engine and one assessment    *)
(* per artifact, may assess the same artifact again at any time, also      *)
(* after the comparison, and may leave an assessment out of the            *)
(* comparison.  Artifacts are named by their contents: two engines may     *)
(* return the same one.                                                    *)
(***************************************************************************)
EXTENDS Naturals, FiniteSets

CONSTANTS
  ScoreEngine,   \* the engines that return variants of a page
  Artifact,      \* the artifacts they return; none is the page's source
  NoVariant,     \* an engine that has returned nothing, or failed
  MaxFaulty      \* bound on the results that are faulty when they are reported

ASSUME ChoiceAssumption == IsFiniteSet(ScoreEngine)

Source == "source"   \* the immutable original of the page
Elsewhere == "other" \* the original of another page

VARIABLES
  invoked,     \* the engines that were planned
  variant,     \* for each engine, the variant it returned
  assessment,  \* for each artifact, the last assessment of its symbols
  comparison,  \* the outcome of the comparison and the artifact it recommends
  selection    \* the artifact that was selected

choiceVars == <<invoked, variant, assessment, comparison, selection>>

-------------------------------------------------------------------------------
(* Safety of a candidate *)

\* What the validator measures, and how bad each measure can be.
Measures ==
  [registration : {"fine", "doubtful"},
   systems : {"fine", "doubtful", "severe"},
   symbols : {"fine", "doubtful", "severe"},
   components : {"fine", "doubtful", "severe"},
   manifest : {"fine", "severe"}]

\* A measure beyond the threshold of rejection rejects, one beyond the threshold of
\* review asks for a review, and a rejection outweighs every review.
Verdict(measured) ==
  LET found == {measured[m] : m \in DOMAIN measured}
  IN CASE "severe" \in found -> "reject"
       [] "severe" \notin found /\ "doubtful" \in found -> "review_required"
       [] OTHER -> "pass"

-------------------------------------------------------------------------------
(* Symbol preservation *)

NoAssessment == [of |-> "none", status |-> "none", complete |-> FALSE, semanticHardVeto |-> FALSE]

\* The evidence that is submitted for assessment.  A finding of the risks that the
\* policy lists as harm vetoes when it is material and asks for a veto; it is a
\* reason for review when it asks for anything it may not have, or is uncertain.
Evidences ==
  [of : {Source, Elsewhere},
   state : {"assessed", "not_assessed", "unavailable"},
   complete : BOOLEAN,
   taxonomyAccepted : BOOLEAN,
   risk : {"none", "harm", "uncertainty", "unlisted"},
   disposition : {"hard_veto", "review", "observe"},
   materiality : {"material", "uncertain", "minor"}]

Vetoes(e) == e.risk = "harm" /\ e.disposition = "hard_veto" /\ e.materiality = "material"

AsksReview(e) ==
  \/ ~e.taxonomyAccepted \/ e.state # "assessed" \/ ~e.complete
  \/ e.risk = "unlisted"
  \/ e.risk # "none" /\ (e.disposition # "observe" \/ e.materiality = "uncertain")

Assess(e) ==
  [of |-> e.of,
   status |-> CASE Vetoes(e) -> "hard_veto"
                [] ~Vetoes(e) /\ AsksReview(e) ->
                     IF e.state = "assessed" THEN "review_required" ELSE "not_assessed"
                [] OTHER -> "pass",
   complete |-> e.complete,
   semanticHardVeto |-> Vetoes(e)]

\* Evidence that breaks the contract, or is about another candidate, is answered with
\* an assessment that asks for review.
FailSafeAssessment ==
  [of |-> Source, status |-> "not_assessed", complete |-> FALSE, semanticHardVeto |-> FALSE]

AsksForReview(a) == a.status \in {"review_required", "not_assessed"}

\* Evidence as it is submitted: in order, or with one fault of the record or one finding
\* (several at once give no assessment that passes either).
SoundEvidence ==
  [of |-> Source, state |-> "assessed", complete |-> TRUE, taxonomyAccepted |-> TRUE,
   risk |-> "none", disposition |-> "observe", materiality |-> "minor"]

FaultyEvidence ==
  {[SoundEvidence EXCEPT !.of = Elsewhere],
   [SoundEvidence EXCEPT !.state = "unavailable", !.complete = FALSE],
   [SoundEvidence EXCEPT !.taxonomyAccepted = FALSE]}
    \cup {[SoundEvidence EXCEPT !.risk = r, !.disposition = d, !.materiality = m] :
            r \in {"harm", "uncertainty", "unlisted"},
            d \in {"hard_veto", "review", "observe"},
            m \in {"material", "uncertain", "minor"}}

\* The caller gives the assessment of its artifact to the variant of an engine.  An
\* assessment of another page is refused; a variant that passed and whose symbols need
\* a review needs one itself.
Handed(v, a) ==
  [v EXCEPT !.semanticHardVeto = @ \/ a.semanticHardVeto,
            !.safetyVerdict = IF /\ @ = "pass" /\ AsksForReview(a)
                                 /\ ~v.semanticHardVeto
                              THEN "review_required" ELSE @]

-------------------------------------------------------------------------------
(* Comparison *)

Returned == {e \in ScoreEngine : variant[e] # NoVariant}

\* What the comparator makes of the variant of an engine.
Provenance(v) == v.complete /\ v.derivedFrom = Source
HardVeto(v) == v.hardVeto \/ v.semanticHardVeto \/ v.safetyVerdict = "reject"
Eligible(v) == Provenance(v) /\ v.safetyVerdict = "pass" /\ ~HardVeto(v)
NeedsReview(v) == (v.safetyVerdict # "pass" \/ ~Provenance(v)) /\ ~HardVeto(v)

\* The eligible variants with some gain in quality, and those of them that rank first.
Better == {e \in Returned : Eligible(variant[e]) /\ variant[e].gain > 0}
Best == {e \in Better : \A d \in Better : variant[d].gain <= variant[e].gain}

NoComparison == [outcome |-> "none", recommended |-> Source]

Recommendation ==
  IF Cardinality(Best) = 1
  THEN [outcome |-> "restoration_variant_preferred",
        recommended |-> variant[CHOOSE e \in Best : TRUE].artifact]
  ELSE [outcome |->
          CASE Best # {} -> "review_required"
            [] Best = {} /\ (\E e \in Returned : NeedsReview(variant[e])) -> "review_required"
            [] /\ Returned # {} /\ \A e \in Returned : HardVeto(variant[e]) ->
                 "original_retained_no_acceptable_derivative"
            [] OTHER -> "original_preferred",
        recommended |-> Source]

-------------------------------------------------------------------------------
(* Selection *)

\* The variants that the comparator lists for an artifact.
Listed(artifact) == {e \in Returned : variant[e].artifact = artifact}

\* Faulty: the first variant of the list with the recommended bytes is taken, however
\* many there are.
FirstRecommended ==
  \E e \in Listed(comparison.recommended) : Eligible(variant[e])

\* The recommended artifact names one variant, and that one is eligible.
RecommendedUnambiguous ==
  \E e \in ScoreEngine :
    Listed(comparison.recommended) = {e} /\ Eligible(variant[e]) /\ ~NeedsReview(variant[e])

\* The assessment that is held now speaks of this page and this artifact, covers it
\* completely and passes it.
Preserved(artifact) ==
  LET a == assessment[artifact]
  IN a.of = Source /\ a.status = "pass" /\ a.complete /\ ~a.semanticHardVeto

Selected ==
  IF /\ comparison.outcome = "restoration_variant_preferred"
     /\ RecommendedUnambiguous
     /\ Preserved(comparison.recommended)
  THEN comparison.recommended
  ELSE Source

-------------------------------------------------------------------------------
(* The steps of the caller *)

NotCompared == invoked # {} /\ comparison = NoComparison

\* plan_engine_invocations: the engines that are approved, available and enabled.
PlanEngines ==
  /\ invoked = {}
  /\ \E capability \in [ScoreEngine -> {"ready", "unapproved", "unavailable", "disabled"}] :
       invoked' = {e \in ScoreEngine : capability[e] = "ready"}
  /\ UNCHANGED <<variant, assessment, comparison, selection>>

\* The variant of an engine whose record is in order, for an artifact with this gain.
SoundVariant(artifact, gain) ==
  [artifact |-> artifact, complete |-> TRUE, derivedFrom |-> Source, safetyVerdict |-> "pass",
   hardVeto |-> FALSE, semanticHardVeto |-> FALSE, gain |-> gain]

\* A result as an engine and its caller report it: in order, or with one fault, which
\* then gains the most.
Reports(artifact, verdict) ==
  LET sound == SoundVariant(artifact, 2)
  IN IF verdict # "pass"
     THEN {[sound EXCEPT !.safetyVerdict = verdict]}
     ELSE {SoundVariant(artifact, gain) : gain \in 0..2}
            \cup {[sound EXCEPT !.complete = FALSE], [sound EXCEPT !.derivedFrom = Elsewhere],
                  [sound EXCEPT !.hardVeto = TRUE]}

\* Bytes that another engine returned too, or new ones.  Names of artifacts tell nothing
\* but whether they are the same, so that one unused name stands for all.
PossibleArtifacts ==
  LET used == {variant[e].artifact : e \in Returned}
  IN used \cup (IF used = Artifact THEN {} ELSE {CHOOSE a \in Artifact : a \notin used})

\* An engine returns a variant and the validator judges it; when the validator fails on
\* it the variant has no verdict.
ReportVariant(e) ==
  /\ NotCompared /\ e \in invoked /\ variant[e] = NoVariant
  /\ \E artifact \in PossibleArtifacts, verdict \in {Verdict(m) : m \in Measures} \cup {"unknown"} :
       \E v \in Reports(artifact, verdict) :
         /\ Eligible(v) \/ Cardinality({d \in Returned : ~Eligible(variant[d])}) < MaxFaulty
         /\ variant' = [variant EXCEPT ![e] = v]
  /\ UNCHANGED <<invoked, assessment, comparison, selection>>

\* safe_assess_preservation_evidence, for the artifact of a variant; a later assessment
\* replaces an earlier one.
AssessVariant(e) ==
  /\ e \in Returned /\ selection = "none"
  /\ \E a \in {Assess(s) : s \in FaultyEvidence \cup {SoundEvidence}} \cup {FailSafeAssessment} :
       assessment' = [assessment EXCEPT ![variant[e].artifact] = a]
  /\ UNCHANGED <<invoked, variant, comparison, selection>>

\* apply_preservation_to_variant raises when the assessment is of another page than the
\* one the variant was derived from.
HandOver(e) ==
  /\ NotCompared /\ e \in Returned
  /\ LET a == assessment[variant[e].artifact]
     IN /\ a.of = variant[e].derivedFrom
        /\ Handed(variant[e], a) # variant[e]
        /\ variant' = [variant EXCEPT ![e] = Handed(@, a)]
  /\ UNCHANGED <<invoked, assessment, comparison, selection>>

\* compare_restoration_variants, over what the engines have returned so far.
Compare ==
  /\ NotCompared
  /\ comparison' = Recommendation
  /\ UNCHANGED <<invoked, variant, assessment, selection>>

\* safe_select_source_variant.
Select ==
  /\ comparison # NoComparison /\ selection = "none"
  /\ selection' = Selected
  /\ UNCHANGED <<invoked, variant, assessment, comparison>>

ChoiceInit ==
  /\ invoked = {} /\ variant = [e \in ScoreEngine |-> NoVariant]
  /\ assessment = [a \in Artifact |-> NoAssessment]
  /\ comparison = NoComparison /\ selection = "none"

ChoiceNext ==
  \/ PlanEngines \/ Compare \/ Select
  \/ \E e \in ScoreEngine : ReportVariant(e) \/ AssessVariant(e) \/ HandOver(e)

ChoiceSpec == ChoiceInit /\ [][ChoiceNext]_choiceVars

-------------------------------------------------------------------------------
(* Properties *)

\* A page leaves its original only for bytes that nothing held about them speaks
\* against: every engine that returned these bytes did so for this page, with its
\* provenance, unvetoed and safe; the assessment held when the choice is made passes
\* them; and they gain something that no other eligible variant gains as well.
SelectedIsProven ==
  selection \notin {"none", Source} =>
    /\ \A e \in Listed(selection) : Eligible(variant[e]) /\ variant[e].gain > 0
    /\ Preserved(selection)
    /\ \A e \in Listed(selection), d \in Returned \ Listed(selection) :
         Eligible(variant[d]) => variant[d].gain < variant[e].gain
=============================================================================
