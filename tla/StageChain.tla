------------------------------ MODULE StageChain ------------------------------
(***************************************************************************)
(* The governance documents of stages 1 to 11: grants, evidence,           *)
(* acceptances, authorizations and the "current truth" published after      *)
(* each step.  Every document has a validator, and continuous integration   *)
(* runs all of them on every commit, so a commit that breaks one of them    *)
(* is not merged.                                                           *)
(*                                                                          *)
(* What a document is reduced to here is what its validator makes of it:    *)
(*   needs   the documents the validator opens, to validate them again, to  *)
(*           compare their digest or to check some of their fields;         *)
(*   claims  the capabilities it says were given before it;                 *)
(*   gives   the capabilities it is the decision to give.                  *)
(* A digest a validator only compares with a constant of its own opens no   *)
(* document and makes no need.  The contracts and drill reports that the    *)
(* acceptances of stages 7, 8 and 10 open as well claim and grant nothing,  *)
(* and are left out.  A step of the workflow that keeps no file of its own  *)
(* (an admission, a custody execution) stands under its own name.           *)
(***************************************************************************)
EXTENDS Naturals

CONSTANT Window  \* bound: how many consecutive places may be incomplete at once

ASSUME WindowAssumption == Window \in Nat \ {0}

VARIABLE filed  \* the documents of the repository, by name

\* A document written at this place in the order the stages were worked on.
Document(place, needs, claims, gives) ==
  [place |-> place, needs |-> needs, claims |-> claims, gives |-> gives]

-------------------------------------------------------------------------------
(* Stage 1.  Place 1: the custody contracts with their zero states; 2 and 3: the first two
   items, their catalogs, custody profiles and admissions, the first snapshot and its
   coverage report; 4: the items of the expansion; 5: the expanded corpus and the exit.
   A catalog gives the purpose granted to its item; the Barley item has no admission. *)

MetadataCatalog == Document(1, {}, {}, {})
VaultZero == Document(1, {}, {}, {})
StandardZero == Document(1, {}, {}, {})
RestrictedZero == Document(1, {}, {}, {})
HighAssurance == Document(1, {"vaultZero"}, {}, {})
AdmissionZero == Document(1, {"metadataCatalog"}, {}, {})

\* The item of a catalog is admitted to a custody profile that was verified.
Admission(place, catalog, purpose, verification, profile) ==
  Document(place, {"admissionZero", "metadataCatalog", catalog, verification},
           {purpose, profile}, {})

StandardProfile == Document(2, {}, {}, {"standard_profile"})
BeethovenCatalog == Document(2, {}, {}, {"beethoven"})
BeethovenAdmission ==
  Admission(2, "beethovenCatalog", "beethoven", "standardProfile", "standard_profile")

SecondProfile == Document(3, {}, {}, {"second_profile"})
FirstCorpus == Document(3, {"metadataCatalog"}, {}, {"beethoven", "chopin"})
ChopinAdmission ==
  Admission(3, "firstCorpus", "chopin", "secondProfile", "second_profile")
FirstSnapshot == Document(3, {"firstCorpus"}, {"beethoven", "chopin"}, {})
FirstCoverage == Document(3, {"firstCorpus", "firstSnapshot"}, {}, {})

GuitarCatalog == Document(4, {}, {}, {"guitar"})
BarleyCatalog == Document(4, {}, {}, {"barley"})
NoiseCatalog == Document(4, {}, {}, {"chopin_noise"})
PhoneCatalog == Document(4, {}, {}, {"phone_photo"})
RestrictedProfile == Document(4, {}, {}, {"restricted_profile"})
GuitarAdmission ==
  Admission(4, "guitarCatalog", "guitar", "standardProfile", "standard_profile")
NoiseAdmission ==
  Admission(4, "noiseCatalog", "chopin_noise", "secondProfile", "second_profile")
PhoneAdmission ==
  Admission(4, "phoneCatalog", "phone_photo", "restrictedProfile", "restricted_profile")

ItemGrants == {"beethoven", "guitar", "barley", "chopin_noise", "phone_photo"}
Corpus ==
  Document(5, {"firstCorpus", "guitarCatalog", "barleyCatalog", "noiseCatalog",
               "phoneCatalog"}, ItemGrants, {})
Stage1Acceptance == Document(5, {"corpus"}, {}, {"stage1_pass"})

-------------------------------------------------------------------------------
(* Stages 2 and 3: places 6 and 7 *)

Stage2Custody == Document(6, {"corpus"}, ItemGrants, {})
Stage2Evidence == Document(6, {"corpus"}, {}, {})
Stage2Acceptance ==
  Document(6, {"stage2Evidence", "stage1Acceptance"}, {"stage1_pass"}, {"stage2_pass"})
Stage3Purpose == Document(7, {}, {}, {"pdf_purpose"})
Stage3Custody ==
  Document(7, {"corpus", "stage3Purpose"}, {"pdf_purpose", "chopin_noise"}, {})
Stage3Runner == Document(7, {"corpus", "stage3Purpose"}, {"pdf_purpose"}, {})
Stage3Evidence == Document(7, {}, {}, {})
Stage3Acceptance == Document(7, {"stage3Evidence"}, {}, {"stage3_pass"})

-------------------------------------------------------------------------------
(* Stage 4: its start and the labels at place 8, the first execution at 9, the
   Wikimedia expansion at 10, the expanded execution at 11, its exit at 12 *)

Stage4Start ==
  Document(8, {"stage3Acceptance", "corpus", "stage3Purpose"}, {"stage3_pass"},
           {"stage4_start"})
LabelFramework ==
  Document(8, {"corpus", "stage3Purpose", "stage4Start"}, {"stage4_start"}, {})
PurposeGrants == Document(8, {"corpus"}, {}, {"purpose"})
LabelPackage == Document(8, {"purposeGrants"}, {"purpose"}, {})
LabelCompletion == Document(8, {}, {}, {})
LabelAcceptance == Document(8, {"labelCompletion"}, {}, {"labels"})

ExecutionAuthorization ==
  Document(9, {"purposeGrants", "labelAcceptance", "labelCompletion"},
           {"purpose", "labels"}, {"execution"})
ExecutionEvidence == Document(9, {}, {}, {})
DevelopmentRunner ==
  Document(9, {"stage3Evidence", "purposeGrants", "executionAuthorization",
               "labelCompletion", "labelAcceptance"}, {"execution"}, {})

CalibrationEvidence == Document(9, {"corpus"}, {"execution"}, {})
CandidateDerivation == Document(9, {}, {}, {})

WikimediaPackage == Document(10, {}, {}, {})
WikimediaPurpose ==
  Document(10, {"corpus", "purposeGrants", "wikimediaPackage"}, {}, {"wikimedia_purpose"})
WikimediaCompletion == Document(10, {"wikimediaPackage"}, {}, {})
WikimediaAcceptance ==
  Document(10, {"wikimediaCompletion", "wikimediaPackage"}, {}, {"wikimedia_labels"})
HandoffNeeds ==
  {"corpus", "stage4Start", "purposeGrants", "labelCompletion", "labelAcceptance",
   "executionAuthorization"}
WikimediaHandoffNeeds ==
  {"corpus", "purposeGrants", "wikimediaPackage", "wikimediaCompletion"}
LiveHandoff ==
  Document(10, HandoffNeeds \union WikimediaHandoffNeeds,
           {"stage3_pass", "stage4_start", "purpose", "labels", "execution"}, {})
ReadinessCheck ==
  Document(10, {"liveHandoff", "corpus", "purposeGrants", "executionAuthorization",
               "labelCompletion", "labelAcceptance"},
           {"purpose", "labels", "execution"}, {})
WikimediaTruth ==
  Document(10, {"wikimediaAcceptance", "wikimediaCompletion", "wikimediaPackage",
               "liveHandoff"}, {"wikimedia_labels"}, {})

ExpandedAuthorization ==
  Document(11, {"purposeGrants", "labelAcceptance", "labelCompletion", "wikimediaPurpose",
               "wikimediaAcceptance", "wikimediaCompletion", "wikimediaPackage"},
           {"purpose", "labels", "wikimedia_purpose", "wikimedia_labels"},
           {"expanded_execution"})
AuthorizationTruth ==
  Document(11, {"expandedAuthorization", "wikimediaTruth", "developmentRunner"},
           {"labels", "wikimedia_labels", "expanded_execution"}, {})
ExpandedRunner ==
  Document(11, ExpandedAuthorization.needs \union {"expandedAuthorization"},
           {"expanded_execution"}, {})
RunnerTruth ==
  Document(11, {"expandedAuthorization", "expandedRunner"}, {"expanded_execution"}, {})
ExpandedEvidence == Document(11, {"executionEvidence"}, {}, {})
ExpandedAcceptance == Document(11, {"expandedEvidence"}, {}, {"development"})
ExpandedTruth ==
  Document(11, {"expandedAcceptance", "expandedEvidence"}, {"development"}, {})

MetricPolicy == Document(12, {}, {}, {})
MetricPolicyAcceptance == Document(12, {"metricPolicy"}, {}, {"policy"})
HeldOutAuthorization == Document(12, {}, {}, {"held_out_review"})
HeldOutEvidence ==
  Document(12, {"heldOutAuthorization", "expandedAcceptance", "metricPolicyAcceptance",
               "stage3Evidence", "stage3Acceptance"},
           {"held_out_review", "development", "policy"}, {})
HeldOutAcceptance ==
  Document(12, HeldOutEvidence.needs \union {"heldOutEvidence"},
           {"held_out_review", "development", "policy"}, {"held_out"})
ReadinessTruth ==
  Document(12, HeldOutAcceptance.needs \union {"heldOutAcceptance"}, {"held_out"}, {})
Stage4Acceptance ==
  Document(12, {"expandedAcceptance", "metricPolicyAcceptance", "heldOutAcceptance",
               "readinessTruth"},
           {"development", "policy", "held_out"}, {"stage4_pass"})
Stage4Truth ==
  Document(12, {"stage4Acceptance", "readinessTruth"}, {"held_out", "stage4_pass"}, {})

-------------------------------------------------------------------------------
(* Stage 5: place 13 *)

Stage5Entry ==
  Document(13, {"stage4Acceptance", "stage4Truth"}, {"stage4_pass"}, {"stage5_entry"})
Stage5EntryTruth ==
  Document(13, {"stage5Entry", "stage4Acceptance", "stage4Truth"},
           {"stage4_pass", "stage5_entry"}, {})
Stage5Start ==
  Document(13, {"stage5Entry", "stage5EntryTruth"}, {"stage4_pass", "stage5_entry"},
           {"stage5_start"})
ReviewQaEvidence == Document(13, {}, {}, {})
Stage5Acceptance ==
  Document(13, {"stage4Acceptance", "stage5Entry", "stage5Start", "reviewQaEvidence"},
           {"stage4_pass", "stage5_entry", "stage5_start"}, {"stage5_pass"})
Stage5Truth ==
  Document(13, {"reviewQaEvidence", "stage5Acceptance", "stage5EntryTruth"},
           {"stage4_pass", "stage5_pass"}, {})

-------------------------------------------------------------------------------
(* Stage 6, place 14: the trust boundary and then one contract after the other, each with
   an authorization that opens no document and a truth that opens the one before it *)

Stage6Entry ==
  Document(14, {"stage5Acceptance", "stage5Truth"}, {"stage5_pass"}, {"stage6_entry"})
Stage6EntryTruth ==
  Document(14, {"stage6Entry", "stage5Acceptance", "stage5Truth"},
           {"stage5_pass", "stage6_entry"}, {})
TrustBoundary ==
  Document(14, {"stage6EntryTruth", "stage6Entry", "stage5Acceptance", "stage5Truth"},
           {"stage5_pass", "stage6_entry"}, {"trust_boundary"})
TrustTruth ==
  Document(14, TrustBoundary.needs \union {"trustBoundary"},
           {"stage5_pass", "stage6_entry", "trust_boundary"}, {})
IdentityAuthorization == Document(14, {}, {}, {"identity"})
SecretsAuthorization == Document(14, {}, {}, {"secrets"})
NetworkAuthorization == Document(14, {}, {}, {"network"})
StorageAuthorization == Document(14, {}, {}, {"storage"})
DrillsAuthorization == Document(14, {}, {}, {"drills"})
RegressionAuthorization == Document(14, {}, {}, {"regression"})
\* Faulty: the truth only compares the digest of its authorization with a constant.
IdentityTruthAlone ==
  Document(14, {"trustTruth"},
           {"stage5_pass", "stage6_entry", "trust_boundary", "identity"}, {})
IdentityTruth ==
  Document(14, {"identityAuthorization", "trustTruth"},
           {"stage5_pass", "stage6_entry", "trust_boundary", "identity"}, {})
SecretsTruth ==
  Document(14, {"secretsAuthorization", "identityTruth"},
           IdentityTruth.claims \union {"secrets"}, {})
NetworkTruth ==
  Document(14, {"networkAuthorization", "secretsTruth"},
           SecretsTruth.claims \union {"network"}, {})
StorageTruth ==
  Document(14, {"storageAuthorization", "networkTruth"},
           NetworkTruth.claims \union {"storage"}, {})
\* From here on the decision on the trust boundary is no longer recited.
DrillsTruth ==
  Document(14, {"drillsAuthorization", "storageTruth"},
           (StorageTruth.claims \ {"trust_boundary"}) \union {"drills"}, {})
RegressionTruth ==
  Document(14, {"regressionAuthorization", "drillsTruth"},
           DrillsTruth.claims \union {"regression"}, {})
Stage6Acceptance ==
  Document(14, {"regressionTruth"}, RegressionTruth.claims, {"stage6_pass"})
Stage6Truth ==
  Document(14, {"stage6Acceptance", "regressionTruth"},
           RegressionTruth.claims \union {"stage6_pass"}, {})

-------------------------------------------------------------------------------
(* Stages 7 to 10 at places 15 to 19, the entry of stage 11 at place 20 *)

Stage7Entry == Document(15, {"stage6Truth"}, {"stage6_pass"}, {"stage7_entry"})
Stage7Acceptance ==
  Document(15, {"stage7Entry", "stage6Truth"}, {"stage6_pass", "stage7_entry"},
           {"stage7_pass"})
Stage7Truth ==
  Document(15, {"stage7Acceptance", "stage7Entry", "stage6Truth"},
           {"stage6_pass", "stage7_entry", "stage7_pass"}, {})

Stage8Entry == Document(16, {"stage7Truth"}, {"stage7_pass"}, {"stage8_entry"})
Stage8Acceptance ==
  Document(16, {"stage8Entry", "stage7Truth"}, {"stage7_pass", "stage8_entry"},
           {"stage8_pass"})
Stage8Truth ==
  Document(16, {"stage8Acceptance", "stage8Entry", "stage7Truth"},
           {"stage8_entry", "stage8_pass"}, {})

Stage9Entry == Document(17, {"stage8Truth"}, {"stage8_pass"}, {"stage9_entry"})
Stage9Acceptance == Document(17, {}, {}, {"stage9_pass"})
Stage9Truth == Document(17, {"stage9Acceptance"}, {"stage9_pass"}, {})

Stage9aEntry == Document(18, {"stage9Truth"}, {"stage9_pass"}, {"stage9a_entry"})
Stage9aAcceptance == Document(18, {}, {}, {"stage9a_pass"})
Stage9aTruth ==
  Document(18, {"stage9aAcceptance"}, {"stage9a_entry", "stage9a_pass"}, {})

Stage10Entry == Document(19, {"stage9aTruth"}, {"stage9a_pass"}, {"stage10_entry"})
Stage10Acceptance ==
  Document(19, {"stage10Entry", "stage9aTruth"}, {"stage9a_pass", "stage10_entry"},
           {"stage10_pass"})
Stage10Truth ==
  Document(19, {"stage10Acceptance", "stage10Entry", "stage9aTruth"},
           {"stage10_entry", "stage10_pass"}, {})

Stage11Entry == Document(20, {"stage10Truth"}, {"stage10_pass"}, {"stage11_entry"})
FoundationTruth == Document(20, {}, {"stage10_pass", "stage11_entry"}, {})
TrainingAuthorization == Document(20, {"foundationTruth"}, {}, {"training"})
KickoffTruth == Document(20, {}, {"training"}, {})

(* The training runs of stage 11 and the model V2a: pairs of an evidence and the truth
   that is checked together with it *)

RightsReview == Document(21, {}, {}, {})
Registration == Document(21, {}, {}, {"dense_rights"})
FirstGpuRun == Document(21, {}, {}, {"training_run"})
HeldOutFinal == Document(21, {}, {}, {"heldout_pass"})
ColabTruth ==
  Document(21, {}, {"training", "dense_rights", "training_run", "heldout_pass"}, {})
V2aAcceptance == Document(22, {}, {}, {"candidate_frozen"})
V2Truth == Document(22, {}, {"candidate_frozen"}, {})
PackageEvidence == Document(22, {}, {}, {"package"})
PackagingTruth == Document(22, {"packageEvidence"}, {"candidate_frozen", "package"}, {})
ConsumerEvidence == Document(23, {}, {}, {"consumer"})
ConsumerTruth == Document(23, {"consumerEvidence"}, {"package", "consumer"}, {})
StagingEvidence == Document(23, {}, {}, {"staging"})
StagingTruth == Document(23, {"stagingEvidence"}, {"package", "staging"}, {})
ShadowEvidence == Document(24, {}, {}, {"shadow"})
ShadowTruth == Document(24, {"shadowEvidence"}, {"package", "shadow"}, {})
ShadowCorpusEvidence == Document(24, {}, {}, {"shadow_corpus"})
ShadowCorpusTruth ==
  Document(24, {"shadowCorpusEvidence"}, {"package", "shadow_corpus"}, {})
ExpandedShadow == Document(25, {}, {}, {"expanded_shadow"})
ExpandedShadowTruth ==
  Document(25, {"expandedShadow"}, {"package", "expanded_shadow"}, {})
PreservationEvidence == Document(25, {"expandedShadow"}, {"package"}, {"preservation"})
PreservationTruth ==
  Document(25, {"preservationEvidence", "expandedShadow"},
           {"package", "preservation"}, {})

-------------------------------------------------------------------------------
(* The table, and the commits *)

Row ==
  [metadataCatalog |-> MetadataCatalog, vaultZero |-> VaultZero,
   standardZero |-> StandardZero, restrictedZero |-> RestrictedZero,
   highAssurance |-> HighAssurance, admissionZero |-> AdmissionZero,
   standardProfile |-> StandardProfile, beethovenCatalog |-> BeethovenCatalog,
   beethovenAdmission |-> BeethovenAdmission, secondProfile |-> SecondProfile,
   firstCorpus |-> FirstCorpus, chopinAdmission |-> ChopinAdmission,
   firstSnapshot |-> FirstSnapshot, firstCoverage |-> FirstCoverage,
   guitarCatalog |-> GuitarCatalog, barleyCatalog |-> BarleyCatalog,
   noiseCatalog |-> NoiseCatalog, phoneCatalog |-> PhoneCatalog,
   restrictedProfile |-> RestrictedProfile, guitarAdmission |-> GuitarAdmission,
   noiseAdmission |-> NoiseAdmission, phoneAdmission |-> PhoneAdmission,
   corpus |-> Corpus, stage1Acceptance |-> Stage1Acceptance,
   stage2Custody |-> Stage2Custody, stage3Custody |-> Stage3Custody,
   calibrationEvidence |-> CalibrationEvidence,
   candidateDerivation |-> CandidateDerivation,
   stage2Evidence |-> Stage2Evidence, stage2Acceptance |-> Stage2Acceptance,
   stage3Purpose |-> Stage3Purpose, stage3Runner |-> Stage3Runner,
   stage3Evidence |-> Stage3Evidence, stage3Acceptance |-> Stage3Acceptance,
   stage4Start |-> Stage4Start, labelFramework |-> LabelFramework,
   purposeGrants |-> PurposeGrants, labelPackage |-> LabelPackage,
   labelCompletion |-> LabelCompletion, labelAcceptance |-> LabelAcceptance,
   executionAuthorization |-> ExecutionAuthorization,
   executionEvidence |-> ExecutionEvidence, developmentRunner |-> DevelopmentRunner,
   wikimediaPackage |-> WikimediaPackage, wikimediaPurpose |-> WikimediaPurpose,
   wikimediaCompletion |-> WikimediaCompletion,
   wikimediaAcceptance |-> WikimediaAcceptance, liveHandoff |-> LiveHandoff,
   readinessCheck |-> ReadinessCheck, wikimediaTruth |-> WikimediaTruth,
   expandedAuthorization |-> ExpandedAuthorization,
   authorizationTruth |-> AuthorizationTruth, expandedRunner |-> ExpandedRunner,
   runnerTruth |-> RunnerTruth, expandedEvidence |-> ExpandedEvidence,
   expandedAcceptance |-> ExpandedAcceptance, expandedTruth |-> ExpandedTruth,
   metricPolicy |-> MetricPolicy, metricPolicyAcceptance |-> MetricPolicyAcceptance,
   heldOutAuthorization |-> HeldOutAuthorization, heldOutEvidence |-> HeldOutEvidence,
   heldOutAcceptance |-> HeldOutAcceptance, readinessTruth |-> ReadinessTruth,
   stage4Acceptance |-> Stage4Acceptance, stage4Truth |-> Stage4Truth,
   stage5Entry |-> Stage5Entry, stage5EntryTruth |-> Stage5EntryTruth,
   stage5Start |-> Stage5Start, reviewQaEvidence |-> ReviewQaEvidence,
   stage5Acceptance |-> Stage5Acceptance, stage5Truth |-> Stage5Truth,
   stage6Entry |-> Stage6Entry, stage6EntryTruth |-> Stage6EntryTruth,
   trustBoundary |-> TrustBoundary, trustTruth |-> TrustTruth,
   identityAuthorization |-> IdentityAuthorization,
   secretsAuthorization |-> SecretsAuthorization,
   networkAuthorization |-> NetworkAuthorization,
   storageAuthorization |-> StorageAuthorization,
   drillsAuthorization |-> DrillsAuthorization,
   regressionAuthorization |-> RegressionAuthorization,
   identityTruth |-> IdentityTruth, secretsTruth |-> SecretsTruth,
   networkTruth |-> NetworkTruth, storageTruth |-> StorageTruth,
   drillsTruth |-> DrillsTruth, regressionTruth |-> RegressionTruth,
   stage6Acceptance |-> Stage6Acceptance, stage6Truth |-> Stage6Truth,
   stage7Entry |-> Stage7Entry, stage7Acceptance |-> Stage7Acceptance,
   stage7Truth |-> Stage7Truth, stage8Entry |-> Stage8Entry,
   stage8Acceptance |-> Stage8Acceptance, stage8Truth |-> Stage8Truth,
   stage9Entry |-> Stage9Entry, stage9Acceptance |-> Stage9Acceptance,
   stage9Truth |-> Stage9Truth, stage9aEntry |-> Stage9aEntry,
   stage9aAcceptance |-> Stage9aAcceptance, stage9aTruth |-> Stage9aTruth,
   stage10Entry |-> Stage10Entry, stage10Acceptance |-> Stage10Acceptance,
   stage10Truth |-> Stage10Truth, stage11Entry |-> Stage11Entry,
   foundationTruth |-> FoundationTruth,
   trainingAuthorization |-> TrainingAuthorization, kickoffTruth |-> KickoffTruth,
   rightsReview |-> RightsReview, registration |-> Registration,
   firstGpuRun |-> FirstGpuRun, heldOutFinal |-> HeldOutFinal,
   colabTruth |-> ColabTruth, v2aAcceptance |-> V2aAcceptance, v2Truth |-> V2Truth,
   packageEvidence |-> PackageEvidence, packagingTruth |-> PackagingTruth,
   consumerEvidence |-> ConsumerEvidence, consumerTruth |-> ConsumerTruth,
   stagingEvidence |-> StagingEvidence, stagingTruth |-> StagingTruth,
   shadowEvidence |-> ShadowEvidence, shadowTruth |-> ShadowTruth,
   shadowCorpusEvidence |-> ShadowCorpusEvidence,
   shadowCorpusTruth |-> ShadowCorpusTruth, expandedShadow |-> ExpandedShadow,
   expandedShadowTruth |-> ExpandedShadowTruth,
   preservationEvidence |-> PreservationEvidence,
   preservationTruth |-> PreservationTruth]

Documents == DOMAIN Row

\* Every validator passes on this tree.
Green(tree) == \A d \in tree : Row[d].needs \subseteq tree

Places == {[place |-> p, documents |-> {d \in Documents : Row[d].place = p}] : p \in 1 .. 25}

\* Bound: whatever is missing is of one of the last Window places worked on.
Reached(place) ==
  \A old \in Places : old.place + Window <= place => old.documents \subseteq filed
Recent(place) ==
  \A new \in Places : new.place >= place + Window => new.documents \intersect filed = {}

ChainInit == filed = {}

\* A commit is merged when every validator passes on the tree it makes.
Merge(tree) == Green(tree) /\ filed' = tree

FileDocument ==
  \E at \in Places :
    Reached(at.place) /\ \E d \in at.documents \ filed : Merge(filed \union {d})

\* A document is taken back: a reverted commit.
Revert ==
  \E at \in Places :
    Recent(at.place) /\ \E d \in at.documents \intersect filed : Merge(filed \ {d})

ChainNext == FileDocument \/ Revert

ChainSpec == ChainInit /\ [][ChainNext]_filed

-------------------------------------------------------------------------------
(* Properties *)

\* What some documents claim and no validator looks up: the truth of stage 9A claims its
\* entry and opens only the acceptance of its exit; those of stage 11 recite what earlier
\* decisions said, the frozen candidate and its package among it, from constants; the
\* calibration evidence finds the execution authorized in a status page.
Recited ==
  [calibrationEvidence |-> {"execution"}, stage9aTruth |-> {"stage9a_entry"},
   foundationTruth |-> FoundationTruth.claims, kickoffTruth |-> KickoffTruth.claims,
   colabTruth |-> ColabTruth.claims, v2Truth |-> V2Truth.claims,
   packagingTruth |-> {"candidate_frozen"},
   consumerTruth |-> {"package"}, stagingTruth |-> {"package"},
   shadowTruth |-> {"package"}, shadowCorpusTruth |-> {"package"},
   expandedShadowTruth |-> {"package"}, preservationEvidence |-> {"package"},
   preservationTruth |-> {"package"}]

LookedUp(d) == IF d \in DOMAIN Recited THEN Row[d].claims \ Recited[d] ELSE Row[d].claims

Given(tree) == UNION {Row[d].gives : d \in tree}

\* Whatever sequence of commits and reverts the validators let through, every capability
\* a document claims, the recited ones apart, was given by a decision that is in the
\* repository: no current truth outlives the authorization or the acceptance it reports,
\* however many documents lie between the two.
ClaimsBacked ==
  LET given == Given(filed)
  IN \A d \in filed : LookedUp(d) \subseteq given
==============================================================================
