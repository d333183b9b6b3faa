------------------------------ MODULE EngineProofs ------------------------------
(***************************************************************************)
(* The components that share no state with the jobs: the slots of the HTTP *)
(* server, the tiling of a page, the choice of an engine's result, the     *)
(* governance documents and the operational drills, each for every value   *)
(* of its constants, and their composition with custody in MCEngine.       *)
(***************************************************************************)
EXTENDS MCEngine, CustodyReferenceProofs, FiniteSetTheorems, TLAPS

-------------------------------------------------------------------------------
(* The slots of the HTTP server *)

SlotInv == HttpTypeOK /\ SlotsAccounted

LEMMA HoldingFinite == IsFiniteSet(Holding) /\ Cardinality(Holding) \in Nat
<1>1. Holding \subseteq Connection BY DEF Holding
<1> QED BY <1>1, HttpAssumption, FS_Subset, FS_CardinalityType

\* A connection that moves between two places where it holds a slot, or two where it
\* holds none, costs nothing.
LEMMA SameHolders ==
  ASSUME SlotInv, slots' = slots, Holding' = Holding
  PROVE  SlotsAccounted'
BY DEF SlotInv, SlotsAccounted

LEMMA TakesSlot ==
  ASSUME SlotInv, NEW c \in Connection, c \notin Holding, slots > 0,
         slots' = slots - 1, Holding' = Holding \cup {c}
  PROVE  slots' \in 0..MaxRequests /\ SlotsAccounted'
<1>1. Cardinality(Holding') = Cardinality(Holding) + 1
  BY HoldingFinite, FS_AddElement
<1> QED BY <1>1, HoldingFinite, HttpAssumption DEF SlotInv, SlotsAccounted, HttpTypeOK

LEMMA GivesSlot ==
  ASSUME SlotInv, NEW c \in Connection, c \in Holding,
         slots' = slots + 1, Holding' = Holding \ {c}
  PROVE  slots' \in 0..MaxRequests /\ SlotsAccounted'
<1>1. Cardinality(Holding') = Cardinality(Holding) - 1
  BY HoldingFinite, FS_RemoveElement
<1>2. Cardinality(Holding) # 0 BY HoldingFinite, FS_EmptySet
<1> QED BY <1>1, <1>2, HoldingFinite, HttpAssumption DEF SlotInv, SlotsAccounted, HttpTypeOK

LEMMA SlotInitInv == HttpInit => SlotInv
<1> SUFFICES ASSUME HttpInit PROVE SlotInv OBVIOUS
<1>1. Holding = {} BY DEF HttpInit, Holding
<1>2. Cardinality(Holding) = 0 BY <1>1, FS_EmptySet
<1>3. slots \in 0..MaxRequests BY HttpAssumption DEF HttpInit
<1>4. HttpTypeOK BY <1>3 DEF HttpInit, HttpTypeOK
<1> HIDE DEF HttpTypeOK
<1>5. slots + Cardinality(Holding) = MaxRequests BY <1>2, HttpAssumption DEF HttpInit
<1> QED BY <1>4, <1>5 DEF SlotInv, SlotsAccounted

LEMMA SlotNextInv == SlotInv /\ [HttpNext]_httpVars => SlotInv'
<1> SUFFICES ASSUME SlotInv, [HttpNext]_httpVars PROVE SlotInv' OBVIOUS
<1>t. HttpTypeOK BY DEF SlotInv
<1>1. ASSUME NEW c \in Connection, Connect(c) \/ Refuse(c) \/ StartThread(c)
      PROVE  SlotInv'
  <2>1. Holding' = Holding BY <1>1, <1>t DEF Connect, Refuse, StartThread, At, Move, Holding, HttpTypeOK
  <2>2. slots' = slots /\ HttpTypeOK'
    BY <1>1, <1>t DEF Connect, Refuse, StartThread, At, Move, HttpTypeOK
  <2> QED BY <2>1, <2>2, SameHolders DEF SlotInv
<1>2. ASSUME NEW c \in Connection,
             ReadRequest(c) \/ RejectRequest(c) \/ LoseClient(c) \/ HandleRequest(c) \/ WriteAnswer(c)
      PROVE  SlotInv'
  <2>1. Holding' = Holding
    BY <1>2, <1>t DEF ReadRequest, RejectRequest, LoseClient, HandleRequest, WriteAnswer, At, Move,
                      Holding, HttpTypeOK
  <2>2. slots' = slots /\ HttpTypeOK'
    BY <1>2, <1>t DEF ReadRequest, RejectRequest, LoseClient, HandleRequest, WriteAnswer, At, Move,
                      HttpTypeOK
  <2> QED BY <2>1, <2>2, SameHolders DEF SlotInv
<1>3. ASSUME NEW c \in Connection, Accept(c) PROVE SlotInv'
  <2>1. CASE slots > 0
    <3>1. c \notin Holding /\ Holding' = Holding \cup {c} /\ slots' = slots - 1
      BY <1>3, <1>t, <2>1 DEF Accept, At, Move, Holding, HttpTypeOK
    <3>2. slots' \in 0..MaxRequests /\ SlotsAccounted' BY <2>1, <3>1, TakesSlot
    <3>3. HttpTypeOK' BY <1>3, <1>t, <2>1, <3>2 DEF Accept, At, Move, HttpTypeOK
    <3> QED BY <3>2, <3>3 DEF SlotInv
  <2>2. CASE ~(slots > 0)
    <3>1. Holding' = Holding /\ slots' = slots
      BY <1>3, <1>t, <2>2 DEF Accept, At, Move, Holding, HttpTypeOK
    <3>2. HttpTypeOK' BY <1>3, <1>t, <2>2 DEF Accept, At, Move, HttpTypeOK
    <3> QED BY <3>1, <3>2, SameHolders DEF SlotInv
  <2> QED BY <2>1, <2>2
<1>4. ASSUME NEW c \in Connection, StartFails(c) \/ CloseConnection(c) PROVE SlotInv'
  <2>1. c \in Holding /\ Holding' = Holding \ {c} /\ slots' = slots + 1
    BY <1>4, <1>t DEF StartFails, CloseConnection, At, Move, Holding, HttpTypeOK
  <2>2. slots' \in 0..MaxRequests /\ SlotsAccounted' BY <2>1, GivesSlot
  <2>3. HttpTypeOK' BY <1>4, <1>t, <2>2 DEF StartFails, CloseConnection, At, Move, HttpTypeOK
  <2> QED BY <2>2, <2>3 DEF SlotInv
<1>5. CASE WorkerLoop \/ Exit \/ UNCHANGED httpVars
  <2>1. slots' = slots /\ conn' = conn /\ HttpTypeOK'
    BY <1>5, <1>t DEF WorkerLoop, CheckStop, RunPending, RunNothing, CleanUp, CleanUpRaises, Pause, Exit,
                      httpVars, HttpTypeOK
  <2>2. Holding' = Holding BY <2>1 DEF Holding
  <2> QED BY <2>1, <2>2, SameHolders DEF SlotInv
<1>6. CASE Interrupt
  <2>1. Holding' = Holding BY <1>6, <1>t DEF Interrupt, At, Holding, HttpTypeOK
  <2>2. slots' = slots /\ HttpTypeOK' BY <1>6, <1>t DEF Interrupt, At, HttpTypeOK
  <2> QED BY <2>1, <2>2, SameHolders DEF SlotInv
<1> QED BY <1>1, <1>2, <1>3, <1>4, <1>5, <1>6 DEF HttpNext, AcceptorNext, RequestNext

\* However connections come, go and fail, every slot is free or in the hands of one
\* connection.
THEOREM SlotsAreAccounted == HttpSpec => []SlotsAccounted
<1>1. SlotInv => SlotsAccounted BY DEF SlotInv
<1> QED BY <1>1, SlotInitInv, SlotNextInv, PTL DEF HttpSpec

-------------------------------------------------------------------------------
(* Tiling *)

\* The patches laid along an axis so far reach without a gap from its first pixel to the
\* end of the last of them, and each begins on the page.
AxisInv(a) ==
  /\ lastStart[a] \in starts[a] /\ lastStart[a] < side[a]
  /\ \A s \in starts[a] : s <= lastStart[a] /\ (s = 0 \/ s - Stride + Patch < side[a])
  /\ \A i \in 0..lastStart[a] + Patch - 1 : \E s \in starts[a] : s <= i /\ i < s + Patch

TileInv ==
  /\ TileTypeOK /\ side \in [Axis -> Nat \ {0}]
  /\ \A a \in Axis : AxisInv(a)
  /\ tiling # "planning" => \A a \in Axis : ~PatchFollows(a)
  /\ tiling = "restoring" =>
       \A p \in Pixels : p \in covered \/ \E t \in tilesLeft : p \in Visible(t)
  /\ tiling \notin {"outside", "uncovered"}

LEMMA AxisNat == \A n \in 1..MaxSide : n \in Nat \ {0}
BY TileAssumption

LEMMA TileInitInv == TileInit => TileInv
<1> SUFFICES ASSUME TileInit PROVE TileInv OBVIOUS
<1>1. side \in [Axis -> Nat \ {0}] BY AxisNat DEF TileInit
<1>2. TileTypeOK BY TileAssumption DEF TileInit, TileTypeOK
<1>3. \A a \in Axis : AxisInv(a)
  BY <1>1, TileAssumption DEF TileInit, AxisInv
<1> QED BY <1>1, <1>2, <1>3 DEF TileInit, TileInv

\* The plan leaves no pixel out.
LEMMA PlanCovers ==
  ASSUME TileInv, \A a \in Axis : ~PatchFollows(a), NEW p \in Pixels
  PROVE  \E t \in starts["height"] \X starts["width"] : p \in Visible(t)
<1>1. \A a \in Axis : \A i \in 0..side[a] - 1 : \E s \in starts[a] : s <= i /\ i < s + Patch
  <2> SUFFICES ASSUME NEW a \in Axis, NEW i \in 0..side[a] - 1
               PROVE  \E s \in starts[a] : s <= i /\ i < s + Patch
    OBVIOUS
  <2>1. side[a] \in Nat /\ lastStart[a] \in Nat /\ Patch \in Nat
    BY TileAssumption DEF TileInv, TileTypeOK
  <2>2. side[a] <= lastStart[a] + Patch BY <2>1 DEF PatchFollows
  <2>3. i \in 0..lastStart[a] + Patch - 1 BY <2>1, <2>2
  <2> QED BY <2>3 DEF TileInv, AxisInv
<1>2. p[1] \in 0..side["height"] - 1 /\ p[2] \in 0..side["width"] - 1 BY DEF Pixels
<1>3. PICK y \in starts["height"] : y <= p[1] /\ p[1] < y + Patch BY <1>1, <1>2 DEF Axis
<1>4. PICK x \in starts["width"] : x <= p[2] /\ p[2] < x + Patch BY <1>1, <1>2 DEF Axis
<1>5. p \in Visible(<<y, x>>) BY <1>3, <1>4 DEF Visible
<1> QED BY <1>5

LEMMA TileNextInv == TileInv /\ [TileNext]_tileVars => TileInv'
<1> SUFFICES ASSUME TileInv, [TileNext]_tileVars PROVE TileInv' OBVIOUS
<1>t. TileTypeOK /\ side \in [Axis -> Nat \ {0}] BY DEF TileInv
<1>1. ASSUME NEW a \in Axis, AddStart(a) PROVE TileInv'
  <2> DEFINE n == lastStart[a] + Stride
  <2>1. /\ side[a] \in Nat /\ lastStart[a] \in Nat /\ n \in Nat
        /\ Patch \in Nat /\ Stride \in Nat /\ 0 < Stride /\ Stride <= Patch
    BY <1>t, TileAssumption DEF TileTypeOK
  <2>2. starts[a] \subseteq Nat BY <1>t DEF TileTypeOK
  <2>3. /\ lastStart'[a] = n /\ starts'[a] = starts[a] \cup {n}
        /\ \A b \in Axis \ {a} : lastStart'[b] = lastStart[b] /\ starts'[b] = starts[b]
        /\ side' = side /\ tilesLeft' = tilesLeft /\ covered' = covered /\ tiling' = tiling
    BY <1>1, <1>t DEF AddStart, TileTypeOK
  <2>4. n - Stride + Patch < side[a] /\ n < side[a] BY <1>1, <2>1 DEF AddStart, PatchFollows
  <2>5. lastStart' \in [Axis -> Nat] /\ starts' \in [Axis -> SUBSET Nat]
    BY <1>1, <1>t, <2>1, <2>2 DEF AddStart, TileTypeOK
  <2>6. tilesLeft \subseteq starts'["height"] \X starts'["width"]
    BY <1>t, <2>3 DEF TileTypeOK, Axis
  <2>7. TileTypeOK' BY <1>t, <2>3, <2>5, <2>6 DEF TileTypeOK, Pixels
  <2> HIDE DEF n
  <2>8. AxisInv(a)'
    <3>1. AxisInv(a) BY DEF TileInv
    <3>2. \A s \in starts'[a] : s <= n /\ (s = 0 \/ s - Stride + Patch < side[a])
      BY <3>1, <2>1, <2>2, <2>3, <2>4 DEF AxisInv, n
    <3>3. \A i \in 0..n + Patch - 1 : \E s \in starts'[a] : s <= i /\ i < s + Patch
      <4> SUFFICES ASSUME NEW i \in 0..n + Patch - 1
                   PROVE  \E s \in starts'[a] : s <= i /\ i < s + Patch
        OBVIOUS
      <4>1. CASE i < lastStart[a] + Patch
        <5>1. i \in 0..lastStart[a] + Patch - 1 BY <4>1, <2>1
        <5> QED BY <5>1, <3>1, <2>3 DEF AxisInv
      <4>2. CASE ~(i < lastStart[a] + Patch)
        <5>1. n <= i /\ i < n + Patch BY <4>2, <2>1 DEF n
        <5> QED BY <5>1, <2>3
      <4> QED BY <4>1, <4>2
    <3> QED BY <3>2, <3>3, <2>3, <2>4 DEF AxisInv
  <2>9. \A b \in Axis \ {a} : AxisInv(b)'
    BY <2>3 DEF TileInv, AxisInv
  <2> QED BY <1>1, <1>t, <2>3, <2>7, <2>8, <2>9 DEF TileInv, AddStart
<1>2. CASE PlanTiles
  <2>1. TileTypeOK' BY <1>2, <1>t DEF PlanTiles, TileTypeOK, Pixels
  <2>2. \A p \in Pixels : \E t \in tilesLeft' : p \in Visible(t)
    BY <1>2, PlanCovers DEF PlanTiles
  <2> QED BY <1>2, <1>t, <2>1, <2>2
          DEF PlanTiles, TileInv, AxisInv, PatchFollows, Pixels, Visible
<1>3. ASSUME NEW t \in tilesLeft, RestoreTile(t) PROVE TileInv'
  <2>1. t \in starts["height"] \X starts["width"] BY <1>t DEF TileTypeOK
  <2>2. t \in Pixels
    <3>1. \A a \in Axis : \A s \in starts[a] : s \in 0..side[a] - 1
      <4> SUFFICES ASSUME NEW a \in Axis, NEW s \in starts[a] PROVE s \in 0..side[a] - 1
        OBVIOUS
      <4>1. s \in Nat /\ lastStart[a] \in Nat /\ side[a] \in Nat BY <1>t DEF TileTypeOK
      <4>2. s <= lastStart[a] /\ lastStart[a] < side[a] BY DEF TileInv, AxisInv
      <4> QED BY <4>1, <4>2
    <3> QED BY <3>1, <2>1 DEF Axis, Pixels
  <2>3. /\ covered' = covered \cup Visible(t) /\ tilesLeft' = tilesLeft \ {t}
        /\ tiling = "restoring" /\ tiling' = "restoring"
        /\ side' = side /\ starts' = starts /\ lastStart' = lastStart
    BY <1>3, <2>2 DEF RestoreTile
  <2>4. TileTypeOK' BY <1>t, <2>3 DEF TileTypeOK, Pixels, Visible
  <2>5. \A p \in Pixels : p \in covered' \/ \E u \in tilesLeft' : p \in Visible(u)
    BY <2>3 DEF TileInv
  <2> QED BY <1>t, <2>3, <2>4, <2>5 DEF TileInv, AxisInv, PatchFollows, Pixels, Visible
<1>4. CASE InferenceFails
  BY <1>4, <1>t DEF InferenceFails, TileInv, TileTypeOK, AxisInv, PatchFollows, Pixels
<1>5. CASE StitchTiles
  <2>1. covered = Pixels BY <1>5, <1>t DEF StitchTiles, TileInv, TileTypeOK
  <2> QED BY <1>5, <1>t, <2>1 DEF StitchTiles, TileInv, TileTypeOK, AxisInv, PatchFollows, Pixels
<1>6. CASE UNCHANGED tileVars
  BY <1>6, <1>t DEF tileVars, TileInv, TileTypeOK, AxisInv, PatchFollows, Pixels, Visible
<1> QED BY <1>1, <1>2, <1>3, <1>4, <1>5, <1>6 DEF TileNext

LEMMA TileInvFits == TileInv => PatchesFit
<1> SUFFICES ASSUME TileInv, NEW a \in Axis, NEW s \in starts[a] \ {0}
             PROVE  s - Stride + Patch < side[a]
  BY DEF TileInv, PatchesFit
<1> QED BY DEF TileInv, AxisInv

\* For every size of patch and page and every stride no longer than a patch: the patches
\* leave no pixel out, and none of them is superfluous.
THEOREM PatchesAlwaysFit == TileSpec => []PatchesFit
BY TileInitInv, TileNextInv, TileInvFits, PTL DEF TileSpec

-------------------------------------------------------------------------------
(* The choice among the results of engines *)

\* A variant is a record of the seven fields the comparator reads.
IsVariant(v) ==
  /\ v = [artifact |-> v.artifact, complete |-> v.complete, derivedFrom |-> v.derivedFrom,
          safetyVerdict |-> v.safetyVerdict, hardVeto |-> v.hardVeto,
          semanticHardVeto |-> v.semanticHardVeto, gain |-> v.gain]
  /\ v.gain \in Nat

\* The recommended bytes are those of the one variant that ranks first.
Recommends ==
  comparison.outcome = "restoration_variant_preferred" =>
    \E e \in Best : Best = {e} /\ comparison.recommended = variant[e].artifact

ChoiceInv ==
  /\ variant = [e \in ScoreEngine |-> variant[e]]
  /\ \A e \in Returned : IsVariant(variant[e])
  /\ Recommends
  /\ selection # "none" => comparison # NoComparison
  /\ SelectedIsProven

LEMMA ChoiceInitInv == ChoiceInit => ChoiceInv
<1> SUFFICES ASSUME ChoiceInit PROVE ChoiceInv OBVIOUS
<1>1. variant = [e \in ScoreEngine |-> variant[e]] /\ Returned = {}
  BY DEF ChoiceInit, Returned
<1>2. Recommends BY DEF ChoiceInit, NoComparison, Recommends
<1> QED BY <1>1, <1>2 DEF ChoiceInit, ChoiceInv, SelectedIsProven

\* As long as nothing was compared, nothing was recommended or selected.
LEMMA VariantMoves ==
  ASSUME ChoiceInv, NotCompared, NEW e \in ScoreEngine, NEW v, IsVariant(v),
         variant' = [variant EXCEPT ![e] = v],
         UNCHANGED <<invoked, assessment, comparison, selection>>
  PROVE  ChoiceInv'
<1>1. variant' = [d \in ScoreEngine |-> variant'[d]] /\ variant'[e] = v
      /\ \A d \in ScoreEngine \ {e} : variant'[d] = variant[d]
  BY DEF ChoiceInv
<1>2. \A d \in Returned' : IsVariant(variant'[d]) BY <1>1 DEF ChoiceInv, Returned
<1>3. comparison' = NoComparison /\ selection' = "none" BY DEF NotCompared, ChoiceInv
<1>4. Recommends' /\ SelectedIsProven'
  BY <1>3 DEF Recommends, SelectedIsProven, NoComparison
<1> QED BY <1>1, <1>2, <1>3, <1>4 DEF ChoiceInv

LEMMA ReportedVariants ==
  \A artifact, verdict : \A v \in Reports(artifact, verdict) : IsVariant(v)
<1> SUFFICES ASSUME NEW artifact, NEW verdict, NEW v \in Reports(artifact, verdict)
             PROVE  IsVariant(v)
  OBVIOUS
<1>1. CASE verdict # "pass" BY <1>1 DEF Reports, SoundVariant, IsVariant
<1>2. CASE verdict = "pass"
  <2>1. CASE \E gain \in 0..2 : v = SoundVariant(artifact, gain)
    BY <2>1 DEF SoundVariant, IsVariant
  <2>2. CASE ~\E gain \in 0..2 : v = SoundVariant(artifact, gain)
    BY <1>2, <2>2 DEF Reports, SoundVariant, IsVariant
  <2> QED BY <2>1, <2>2
<1> QED BY <1>1, <1>2

LEMMA HandedVariants ==
  ASSUME NEW v, NEW a, IsVariant(v)
  PROVE  IsVariant(Handed(v, a))
<1> DEFINE veto == v.semanticHardVeto \/ a.semanticHardVeto
           judged == IF v.safetyVerdict = "pass" /\ AsksForReview(a) /\ ~v.semanticHardVeto
                     THEN "review_required" ELSE v.safetyVerdict
<1>1. Handed(v, a) = [v EXCEPT !.semanticHardVeto = veto, !.safetyVerdict = judged]
  BY DEF Handed
<1> HIDE DEF veto, judged
<1> QED BY <1>1 DEF IsVariant

\* The comparison recommends the bytes of the variant that alone ranks first.
LEMMA CompareStep == ASSUME ChoiceInv, Compare PROVE ChoiceInv'
<1>1. comparison' = Recommendation /\ selection = "none"
      /\ UNCHANGED <<invoked, variant, assessment, selection>>
  BY DEF Compare, NotCompared, ChoiceInv
<1>2. Returned' = Returned /\ Best' = Best BY <1>1 DEF Returned, Best, Better
<1>3. ASSUME Cardinality(Best) = 1
      PROVE  \E e \in Best : Best = {e} /\ variant[CHOOSE d \in Best : TRUE] = variant[e]
  <2>1. IsFiniteSet(Best)
    <3>1. Best \subseteq ScoreEngine BY DEF Best, Better, Returned
    <3> QED BY <3>1, ChoiceAssumption, FS_Subset
  <2>2. PICK e : Best = {e} BY <1>3, <2>1, FS_Singleton
  <2>3. (CHOOSE d \in Best : TRUE) = e BY <2>2
  <2> QED BY <2>2, <2>3
<1>4. Recommends'
  <2> SUFFICES ASSUME Recommendation.outcome = "restoration_variant_preferred"
               PROVE  \E e \in Best : Best = {e} /\ Recommendation.recommended = variant[e].artifact
    BY <1>1, <1>2 DEF Recommends
  <2>1. CASE Cardinality(Best) = 1 BY <1>3, <2>1 DEF Recommendation
  <2>2. CASE Cardinality(Best) # 1
    <3>1. Recommendation.outcome \in {"review_required", "original_retained_no_acceptable_derivative",
                                      "original_preferred"}
      BY <2>2 DEF Recommendation
    <3> QED BY <3>1
  <2> QED BY <2>1, <2>2
<1> QED BY <1>1, <1>2, <1>4 DEF ChoiceInv, SelectedIsProven

\* What is selected is what ranks first alone, and its assessment is looked up now.
LEMMA SelectStep == ASSUME ChoiceInv, Select PROVE ChoiceInv'
<1>1. selection' = Selected /\ comparison # NoComparison
      /\ UNCHANGED <<invoked, variant, assessment, comparison>>
  BY DEF Select
<1>2. Returned' = Returned /\ Recommends'
  BY <1>1 DEF ChoiceInv, Recommends, Returned, Best, Better
<1>3. SelectedIsProven'
  <2> SUFFICES ASSUME Selected # Source
               PROVE  /\ \A e \in Listed(Selected) : Eligible(variant[e]) /\ variant[e].gain > 0
                      /\ Preserved(Selected)
                      /\ \A e \in Listed(Selected), d \in Returned \ Listed(Selected) :
                           Eligible(variant[d]) => variant[d].gain < variant[e].gain
    BY <1>1, <1>2 DEF SelectedIsProven, Listed, Preserved
  <2>1. /\ Selected = comparison.recommended /\ RecommendedUnambiguous /\ Preserved(Selected)
        /\ comparison.outcome = "restoration_variant_preferred"
    BY DEF Selected
  <2>2. PICK b \in Best : Best = {b} /\ comparison.recommended = variant[b].artifact
    BY <2>1 DEF ChoiceInv, Recommends
  <2>3. b \in Better /\ \A d \in Better : variant[d].gain <= variant[b].gain BY DEF Best
  <2>4. b \in Returned /\ Eligible(variant[b]) /\ variant[b].gain > 0 BY <2>3 DEF Better
  <2>5. Listed(Selected) = {b}
    BY <2>1, <2>2, <2>4 DEF RecommendedUnambiguous, Listed
  <2>6. \A d \in Returned : variant[d].gain \in Nat
    BY DEF ChoiceInv, IsVariant
  <2>7. ASSUME NEW d \in Returned, d # b, Eligible(variant[d])
        PROVE  variant[d].gain < variant[b].gain
    <3>1. CASE d \in Better
      <4>1. d \notin Best BY <2>2, <2>7
      <4>2. PICK c \in Better : ~(variant[c].gain <= variant[d].gain) BY <3>1, <4>1 DEF Best
      <4>3. c \in Returned BY DEF Better
      <4> QED BY <2>3, <2>4, <2>6, <4>2, <4>3
    <3>2. CASE d \notin Better
      <4>1. ~(variant[d].gain > 0) BY <2>7, <3>2 DEF Better
      <4> QED BY <2>4, <2>6, <4>1
    <3> QED BY <3>1, <3>2
  <2> QED BY <2>1, <2>4, <2>5, <2>7
<1> QED BY <1>1, <1>2, <1>3 DEF ChoiceInv

LEMMA ChoiceNextInv == ChoiceInv /\ [ChoiceNext]_choiceVars => ChoiceInv'
<1> SUFFICES ASSUME ChoiceInv, [ChoiceNext]_choiceVars PROVE ChoiceInv' OBVIOUS
<1>1. CASE PlanEngines \/ UNCHANGED choiceVars
  <2>1. UNCHANGED <<variant, assessment, comparison, selection>>
    BY <1>1 DEF PlanEngines, choiceVars
  <2> QED BY <2>1 DEF ChoiceInv, Recommends, SelectedIsProven, Returned, Best, Better, Listed, Preserved
<1>2. ASSUME NEW e \in ScoreEngine, ReportVariant(e) PROVE ChoiceInv'
  <2>1. PICK artifact, verdict : \E v \in Reports(artifact, verdict) :
          variant' = [variant EXCEPT ![e] = v]
    BY <1>2 DEF ReportVariant
  <2>2. PICK v : IsVariant(v) /\ variant' = [variant EXCEPT ![e] = v]
    BY <2>1, ReportedVariants
  <2> QED BY <1>2, <2>2, VariantMoves DEF ReportVariant
<1>3. ASSUME NEW e \in ScoreEngine, AssessVariant(e) PROVE ChoiceInv'
  <2>1. selection' = "none" /\ UNCHANGED <<variant, comparison, selection>>
    BY <1>3 DEF AssessVariant
  <2> QED BY <2>1 DEF ChoiceInv, Recommends, SelectedIsProven, Returned, Best, Better
<1>4. ASSUME NEW e \in ScoreEngine, HandOver(e) PROVE ChoiceInv'
  <2> DEFINE v == Handed(variant[e], assessment[variant[e].artifact])
  <2>1. variant' = [variant EXCEPT ![e] = v] BY <1>4 DEF HandOver
  <2>2. IsVariant(v) BY <1>4, HandedVariants DEF HandOver, ChoiceInv
  <2> HIDE DEF v
  <2> QED BY <1>4, <2>1, <2>2, VariantMoves DEF HandOver
<1> QED BY <1>1, <1>2, <1>3, <1>4, CompareStep, SelectStep DEF ChoiceNext

\* However many engines there are, whatever they return and whenever assessments are
\* replaced: the original is left only for bytes that nothing held about them speaks against.
THEOREM SelectedAreProven == ChoiceSpec => []SelectedIsProven
<1>1. ChoiceInv => SelectedIsProven BY DEF ChoiceInv
<1> QED BY <1>1, ChoiceInitInv, ChoiceNextInv, PTL DEF ChoiceSpec

-------------------------------------------------------------------------------
(* The governance documents *)

Backed(d) == d \in filed => LookedUp(d) \subseteq Given(filed)

\* What a document opens is filed, and so what it gives is given.
LEMMA Opened ==
  ASSUME Green(filed), NEW d \in filed, NEW n \in Row[d].needs
  PROVE  n \in filed /\ Row[n].gives \subseteq Given(filed)
BY DEF Green, Given

\* For the documents of each stage that claim something: their rows and those of what backs
\* them, and then what backs each of them: what it opens gives the capability, or claims it
\* too and is backed.

CorpusClaims ==
  {"beethovenAdmission", "chopinAdmission", "firstSnapshot", "guitarAdmission",
   "noiseAdmission", "phoneAdmission", "corpus"}

LEMMA CorpusRows ==
  /\ Row["standardProfile"] = StandardProfile
  /\ Row["beethovenCatalog"] = BeethovenCatalog
  /\ Row["beethovenAdmission"] = BeethovenAdmission
  /\ Row["secondProfile"] = SecondProfile
  /\ Row["firstCorpus"] = FirstCorpus
  /\ Row["chopinAdmission"] = ChopinAdmission
  /\ Row["firstSnapshot"] = FirstSnapshot
  /\ Row["guitarCatalog"] = GuitarCatalog
  /\ Row["barleyCatalog"] = BarleyCatalog
  /\ Row["noiseCatalog"] = NoiseCatalog
  /\ Row["phoneCatalog"] = PhoneCatalog
  /\ Row["restrictedProfile"] = RestrictedProfile
  /\ Row["guitarAdmission"] = GuitarAdmission
  /\ Row["noiseAdmission"] = NoiseAdmission
  /\ Row["phoneAdmission"] = PhoneAdmission
  /\ Row["corpus"] = Corpus
BY DEF Row

LEMMA CorpusBacked == ASSUME Green(filed) PROVE \A d \in CorpusClaims : Backed(d)
<1> USE DEF Backed, Document
<1>0. \A d \in CorpusClaims : LookedUp(d) = Row[d].claims
  BY DEF CorpusClaims, LookedUp, Recited
<1>1. Backed("beethovenAdmission")
  BY Opened, CorpusRows, <1>0 DEF CorpusClaims, BeethovenAdmission, Admission,
         BeethovenCatalog, StandardProfile
<1>2. Backed("chopinAdmission")
  BY Opened, CorpusRows, <1>0 DEF CorpusClaims, ChopinAdmission, Admission, FirstCorpus,
         SecondProfile
<1>3. Backed("firstSnapshot")
  BY Opened, CorpusRows, <1>0 DEF CorpusClaims, FirstSnapshot, FirstCorpus
<1>4. Backed("guitarAdmission")
  BY Opened, CorpusRows, <1>0 DEF CorpusClaims, GuitarAdmission, Admission, GuitarCatalog,
         StandardProfile
<1>5. Backed("noiseAdmission")
  BY Opened, CorpusRows, <1>0 DEF CorpusClaims, NoiseAdmission, Admission, NoiseCatalog,
         SecondProfile
<1>6. Backed("phoneAdmission")
  BY Opened, CorpusRows, <1>0 DEF CorpusClaims, PhoneAdmission, Admission, PhoneCatalog,
         RestrictedProfile
<1>7. Backed("corpus")
  BY Opened, CorpusRows, <1>0 DEF CorpusClaims, Corpus, ItemGrants, BarleyCatalog, FirstCorpus,
         GuitarCatalog, NoiseCatalog, PhoneCatalog
<1> HIDE DEF Backed, Document
<1> QED BY <1>1, <1>2, <1>3, <1>4, <1>5, <1>6, <1>7 DEF CorpusClaims

Stage4Claims ==
  {"stage2Custody", "stage2Acceptance", "stage3Custody", "stage3Runner", "stage4Start",
   "labelFramework", "labelPackage", "executionAuthorization", "developmentRunner",
   "liveHandoff", "readinessCheck", "wikimediaTruth", "expandedAuthorization",
   "authorizationTruth", "expandedRunner", "runnerTruth", "expandedTruth", "heldOutEvidence",
   "heldOutAcceptance", "readinessTruth", "stage4Acceptance", "stage4Truth"}

LEMMA Stage4Rows ==
  /\ Row["corpus"] = Corpus
  /\ Row["stage1Acceptance"] = Stage1Acceptance
  /\ Row["stage2Custody"] = Stage2Custody
  /\ Row["stage3Custody"] = Stage3Custody
  /\ Row["stage2Acceptance"] = Stage2Acceptance
  /\ Row["stage3Purpose"] = Stage3Purpose
  /\ Row["stage3Runner"] = Stage3Runner
  /\ Row["stage3Acceptance"] = Stage3Acceptance
  /\ Row["stage4Start"] = Stage4Start
  /\ Row["labelFramework"] = LabelFramework
  /\ Row["purposeGrants"] = PurposeGrants
  /\ Row["labelPackage"] = LabelPackage
  /\ Row["labelAcceptance"] = LabelAcceptance
  /\ Row["executionAuthorization"] = ExecutionAuthorization
  /\ Row["developmentRunner"] = DevelopmentRunner
  /\ Row["wikimediaPurpose"] = WikimediaPurpose
  /\ Row["wikimediaAcceptance"] = WikimediaAcceptance
  /\ Row["liveHandoff"] = LiveHandoff
  /\ Row["readinessCheck"] = ReadinessCheck
  /\ Row["wikimediaTruth"] = WikimediaTruth
  /\ Row["expandedAuthorization"] = ExpandedAuthorization
  /\ Row["authorizationTruth"] = AuthorizationTruth
  /\ Row["expandedRunner"] = ExpandedRunner
  /\ Row["runnerTruth"] = RunnerTruth
  /\ Row["expandedAcceptance"] = ExpandedAcceptance
  /\ Row["expandedTruth"] = ExpandedTruth
  /\ Row["metricPolicyAcceptance"] = MetricPolicyAcceptance
  /\ Row["heldOutAuthorization"] = HeldOutAuthorization
  /\ Row["heldOutEvidence"] = HeldOutEvidence
  /\ Row["heldOutAcceptance"] = HeldOutAcceptance
  /\ Row["readinessTruth"] = ReadinessTruth
  /\ Row["stage4Acceptance"] = Stage4Acceptance
  /\ Row["stage4Truth"] = Stage4Truth
BY DEF Row

LEMMA Stage4Backed == ASSUME Green(filed) PROVE \A d \in Stage4Claims : Backed(d)
<1> USE DEF Backed, Document
<1>0. \A d \in Stage4Claims : LookedUp(d) = Row[d].claims
  BY DEF Stage4Claims, LookedUp, Recited
<1>1. Backed("stage2Custody")
  BY Opened, Stage4Rows, <1>0, CorpusBacked DEF LookedUp, Recited, Stage4Claims, CorpusClaims,
         Stage2Custody, ItemGrants, Corpus
<1>2. Backed("stage2Acceptance")
  BY Opened, Stage4Rows, <1>0 DEF Stage4Claims, Stage2Acceptance, Stage1Acceptance
<1>3. Backed("stage3Custody")
  BY Opened, Stage4Rows, <1>0, CorpusBacked DEF LookedUp, Recited, Stage4Claims, CorpusClaims,
         Stage3Custody, Corpus, ItemGrants, Stage3Purpose
<1>4. Backed("stage3Runner")
  BY Opened, Stage4Rows, <1>0 DEF Stage4Claims, Stage3Runner, Stage3Purpose
<1>5. Backed("stage4Start")
  BY Opened, Stage4Rows, <1>0 DEF Stage4Claims, Stage4Start, Stage3Acceptance
<1>6. Backed("labelFramework")
  BY Opened, Stage4Rows, <1>0 DEF Stage4Claims, LabelFramework, Stage4Start
<1>7. Backed("labelPackage")
  BY Opened, Stage4Rows, <1>0 DEF Stage4Claims, LabelPackage, PurposeGrants
<1>8. Backed("executionAuthorization")
  BY Opened, Stage4Rows, <1>0 DEF Stage4Claims, ExecutionAuthorization, LabelAcceptance,
         PurposeGrants
<1>9. Backed("developmentRunner")
  BY Opened, Stage4Rows, <1>0 DEF Stage4Claims, DevelopmentRunner, ExecutionAuthorization
<1>10. Backed("liveHandoff")
  BY Opened, Stage4Rows, <1>0, <1>8, <1>5 DEF Stage4Claims, LiveHandoff, HandoffNeeds,
         WikimediaHandoffNeeds, ExecutionAuthorization, Stage4Start
<1>11. Backed("readinessCheck")
  BY Opened, Stage4Rows, <1>0, <1>8 DEF Stage4Claims, ReadinessCheck, ExecutionAuthorization
<1>12. Backed("wikimediaTruth")
  BY Opened, Stage4Rows, <1>0 DEF Stage4Claims, WikimediaTruth, WikimediaAcceptance
<1>13. Backed("expandedAuthorization")
  BY Opened, Stage4Rows, <1>0 DEF Stage4Claims, ExpandedAuthorization, LabelAcceptance,
         PurposeGrants, WikimediaAcceptance, WikimediaPurpose
<1>14. Backed("authorizationTruth")
  BY Opened, Stage4Rows, <1>0, <1>13 DEF Stage4Claims, AuthorizationTruth,
         ExpandedAuthorization
<1>15. Backed("expandedRunner")
  BY Opened, Stage4Rows, <1>0 DEF Stage4Claims, ExpandedRunner, ExpandedAuthorization
<1>16. Backed("runnerTruth")
  BY Opened, Stage4Rows, <1>0 DEF Stage4Claims, RunnerTruth, ExpandedAuthorization
<1>17. Backed("expandedTruth")
  BY Opened, Stage4Rows, <1>0 DEF Stage4Claims, ExpandedTruth, ExpandedAcceptance
<1>18. Backed("heldOutEvidence")
  BY Opened, Stage4Rows, <1>0 DEF Stage4Claims, HeldOutEvidence, ExpandedAcceptance,
         HeldOutAuthorization, MetricPolicyAcceptance
<1>19. Backed("heldOutAcceptance")
  BY Opened, Stage4Rows, <1>0, <1>18 DEF Stage4Claims, HeldOutAcceptance, HeldOutEvidence
<1>20. Backed("readinessTruth")
  BY Opened, Stage4Rows, <1>0 DEF Stage4Claims, ReadinessTruth, HeldOutAcceptance,
         HeldOutEvidence
<1>21. Backed("stage4Acceptance")
  BY Opened, Stage4Rows, <1>0, <1>19 DEF Stage4Claims, Stage4Acceptance, HeldOutAcceptance,
         HeldOutEvidence
<1>22. Backed("stage4Truth")
  BY Opened, Stage4Rows, <1>0, <1>21 DEF Stage4Claims, Stage4Truth, Stage4Acceptance
<1> HIDE DEF Backed, Document
<1> QED BY <1>1, <1>2, <1>3, <1>4, <1>5, <1>6, <1>7, <1>8, <1>9, <1>10, <1>11, <1>12, <1>13,
           <1>14, <1>15, <1>16, <1>17, <1>18, <1>19, <1>20, <1>21, <1>22 DEF Stage4Claims

Stage5Claims ==
  {"stage5Entry", "stage5EntryTruth", "stage5Start", "stage5Acceptance", "stage5Truth"}

LEMMA Stage5Rows ==
  /\ Row["stage4Acceptance"] = Stage4Acceptance
  /\ Row["stage5Entry"] = Stage5Entry
  /\ Row["stage5EntryTruth"] = Stage5EntryTruth
  /\ Row["stage5Start"] = Stage5Start
  /\ Row["stage5Acceptance"] = Stage5Acceptance
  /\ Row["stage5Truth"] = Stage5Truth
BY DEF Row

LEMMA Stage5Backed == ASSUME Green(filed) PROVE \A d \in Stage5Claims : Backed(d)
<1> USE DEF Backed, Document
<1>0. \A d \in Stage5Claims : LookedUp(d) = Row[d].claims
  BY DEF Stage5Claims, LookedUp, Recited
<1>1. Backed("stage5Entry")
  BY Opened, Stage5Rows, <1>0 DEF Stage5Claims, Stage5Entry, Stage4Acceptance
<1>2. Backed("stage5EntryTruth")
  BY Opened, Stage5Rows, <1>0, <1>1 DEF Stage5Claims, Stage5EntryTruth, Stage5Entry
<1>3. Backed("stage5Start")
  BY Opened, Stage5Rows, <1>0, <1>1 DEF Stage5Claims, Stage5Start, Stage5Entry
<1>4. Backed("stage5Acceptance")
  BY Opened, Stage5Rows, <1>0, <1>3 DEF Stage5Claims, Stage5Acceptance, Stage5Start
<1>5. Backed("stage5Truth")
  BY Opened, Stage5Rows, <1>0, <1>4 DEF Stage5Claims, Stage5Truth, Stage5Acceptance
<1> HIDE DEF Backed, Document
<1> QED BY <1>1, <1>2, <1>3, <1>4, <1>5 DEF Stage5Claims

Stage6Claims ==
  {"stage6Entry", "stage6EntryTruth", "trustBoundary", "trustTruth", "identityTruth",
   "secretsTruth", "networkTruth", "storageTruth", "drillsTruth", "regressionTruth",
   "stage6Acceptance", "stage6Truth"}

LEMMA Stage6Rows ==
  /\ Row["stage5Acceptance"] = Stage5Acceptance
  /\ Row["stage6Entry"] = Stage6Entry
  /\ Row["stage6EntryTruth"] = Stage6EntryTruth
  /\ Row["trustBoundary"] = TrustBoundary
  /\ Row["trustTruth"] = TrustTruth
  /\ Row["identityAuthorization"] = IdentityAuthorization
  /\ Row["secretsAuthorization"] = SecretsAuthorization
  /\ Row["networkAuthorization"] = NetworkAuthorization
  /\ Row["storageAuthorization"] = StorageAuthorization
  /\ Row["drillsAuthorization"] = DrillsAuthorization
  /\ Row["regressionAuthorization"] = RegressionAuthorization
  /\ Row["identityTruth"] = IdentityTruth
  /\ Row["secretsTruth"] = SecretsTruth
  /\ Row["networkTruth"] = NetworkTruth
  /\ Row["storageTruth"] = StorageTruth
  /\ Row["drillsTruth"] = DrillsTruth
  /\ Row["regressionTruth"] = RegressionTruth
  /\ Row["stage6Acceptance"] = Stage6Acceptance
  /\ Row["stage6Truth"] = Stage6Truth
BY DEF Row

LEMMA Stage6Backed == ASSUME Green(filed) PROVE \A d \in Stage6Claims : Backed(d)
<1> USE DEF Backed, Document
<1>0. \A d \in Stage6Claims : LookedUp(d) = Row[d].claims
  BY DEF Stage6Claims, LookedUp, Recited
<1>1. Backed("stage6Entry")
  BY Opened, Stage6Rows, <1>0 DEF Stage6Claims, Stage6Entry, Stage5Acceptance
<1>2. Backed("stage6EntryTruth")
  BY Opened, Stage6Rows, <1>0, <1>1 DEF Stage6Claims, Stage6EntryTruth, Stage6Entry
<1>3. Backed("trustBoundary")
  BY Opened, Stage6Rows, <1>0, <1>1 DEF Stage6Claims, TrustBoundary, Stage6Entry
<1>4. Backed("trustTruth")
  BY Opened, Stage6Rows, <1>0, <1>3 DEF Stage6Claims, TrustTruth, TrustBoundary
<1>5. Backed("identityTruth")
  BY Opened, Stage6Rows, <1>0, <1>4 DEF Stage6Claims, IdentityTruth, IdentityAuthorization,
         TrustTruth, TrustBoundary
<1>6. Backed("secretsTruth")
  BY Opened, Stage6Rows, <1>0, <1>5 DEF Stage6Claims, SecretsTruth, IdentityTruth,
         SecretsAuthorization
<1>7. Backed("networkTruth")
  BY Opened, Stage6Rows, <1>0, <1>6 DEF Stage6Claims, NetworkTruth, SecretsTruth,
         NetworkAuthorization
<1>8. Backed("storageTruth")
  BY Opened, Stage6Rows, <1>0, <1>7 DEF Stage6Claims, StorageTruth, NetworkTruth, SecretsTruth,
         StorageAuthorization
<1>9. Backed("drillsTruth")
  BY Opened, Stage6Rows, <1>0, <1>8 DEF Stage6Claims, DrillsTruth, StorageTruth, NetworkTruth,
         SecretsTruth, DrillsAuthorization
<1>10. Backed("regressionTruth")
  BY Opened, Stage6Rows, <1>0, <1>9 DEF Stage6Claims, RegressionTruth, DrillsTruth,
         StorageTruth, NetworkTruth, SecretsTruth, RegressionAuthorization
<1>11. Backed("stage6Acceptance")
  BY Opened, Stage6Rows, <1>0, <1>10 DEF Stage6Claims, Stage6Acceptance, RegressionTruth,
         DrillsTruth, StorageTruth, NetworkTruth, SecretsTruth
<1>12. Backed("stage6Truth")
  BY Opened, Stage6Rows, <1>0, <1>11 DEF Stage6Claims, Stage6Truth, RegressionTruth,
         DrillsTruth, StorageTruth, NetworkTruth, SecretsTruth, Stage6Acceptance
<1> HIDE DEF Backed, Document
<1> QED BY <1>1, <1>2, <1>3, <1>4, <1>5, <1>6, <1>7, <1>8, <1>9, <1>10, <1>11, <1>12 DEF
           Stage6Claims

Stage10Claims ==
  {"stage7Entry", "stage7Acceptance", "stage7Truth", "stage8Entry", "stage8Acceptance",
   "stage8Truth", "stage9Entry", "stage9Truth", "stage9aEntry", "stage9aTruth", "stage10Entry",
   "stage10Acceptance", "stage10Truth", "stage11Entry"}

LEMMA Stage10Rows ==
  /\ Row["stage6Truth"] = Stage6Truth
  /\ Row["stage7Entry"] = Stage7Entry
  /\ Row["stage7Acceptance"] = Stage7Acceptance
  /\ Row["stage7Truth"] = Stage7Truth
  /\ Row["stage8Entry"] = Stage8Entry
  /\ Row["stage8Acceptance"] = Stage8Acceptance
  /\ Row["stage8Truth"] = Stage8Truth
  /\ Row["stage9Entry"] = Stage9Entry
  /\ Row["stage9Acceptance"] = Stage9Acceptance
  /\ Row["stage9Truth"] = Stage9Truth
  /\ Row["stage9aEntry"] = Stage9aEntry
  /\ Row["stage9aAcceptance"] = Stage9aAcceptance
  /\ Row["stage9aTruth"] = Stage9aTruth
  /\ Row["stage10Entry"] = Stage10Entry
  /\ Row["stage10Acceptance"] = Stage10Acceptance
  /\ Row["stage10Truth"] = Stage10Truth
  /\ Row["stage11Entry"] = Stage11Entry
BY DEF Row

LEMMA Stage10Backed == ASSUME Green(filed) PROVE \A d \in Stage10Claims : Backed(d)
<1> USE DEF Backed, Document
<1>0. \A d \in Stage10Claims \ {"stage9aTruth"} : LookedUp(d) = Row[d].claims
  BY DEF Stage10Claims, LookedUp, Recited
<1>1. Backed("stage7Entry")
  BY Opened, Stage10Rows, <1>0, Stage6Backed DEF LookedUp, Recited, Stage10Claims,
         Stage6Claims, Stage7Entry, Stage6Truth, RegressionTruth, DrillsTruth, StorageTruth,
         NetworkTruth, SecretsTruth
<1>2. Backed("stage7Acceptance")
  BY Opened, Stage10Rows, <1>0, <1>1 DEF Stage10Claims, Stage7Acceptance, Stage7Entry
<1>3. Backed("stage7Truth")
  BY Opened, Stage10Rows, <1>0, <1>2 DEF Stage10Claims, Stage7Truth, Stage7Acceptance
<1>4. Backed("stage8Entry")
  BY Opened, Stage10Rows, <1>0, <1>3 DEF Stage10Claims, Stage8Entry, Stage7Truth
<1>5. Backed("stage8Acceptance")
  BY Opened, Stage10Rows, <1>0, <1>4 DEF Stage10Claims, Stage8Acceptance, Stage8Entry
<1>6. Backed("stage8Truth")
  BY Opened, Stage10Rows, <1>0, <1>5 DEF Stage10Claims, Stage8Truth, Stage8Acceptance
<1>7. Backed("stage9Entry")
  BY Opened, Stage10Rows, <1>0, <1>6 DEF Stage10Claims, Stage9Entry, Stage8Truth
<1>8. Backed("stage9Truth")
  BY Opened, Stage10Rows, <1>0 DEF Stage10Claims, Stage9Truth, Stage9Acceptance
<1>9. Backed("stage9aEntry")
  BY Opened, Stage10Rows, <1>0, <1>8 DEF Stage10Claims, Stage9aEntry, Stage9Truth
<1>10. Backed("stage9aTruth")
  BY Opened, Stage10Rows DEF LookedUp, Recited, Stage9aTruth, Stage9aAcceptance
<1>11. Backed("stage10Entry")
  BY Opened, Stage10Rows, <1>0, <1>10 DEF LookedUp, Recited, Stage10Claims, Stage10Entry,
         Stage9aTruth
<1>12. Backed("stage10Acceptance")
  BY Opened, Stage10Rows, <1>0, <1>11 DEF Stage10Claims, Stage10Acceptance, Stage10Entry
<1>13. Backed("stage10Truth")
  BY Opened, Stage10Rows, <1>0, <1>12 DEF Stage10Claims, Stage10Truth, Stage10Acceptance
<1>14. Backed("stage11Entry")
  BY Opened, Stage10Rows, <1>0, <1>13 DEF Stage10Claims, Stage11Entry, Stage10Truth
<1> HIDE DEF Backed, Document
<1> QED BY <1>1, <1>2, <1>3, <1>4, <1>5, <1>6, <1>7, <1>8, <1>9, <1>10, <1>11, <1>12, <1>13,
           <1>14 DEF Stage10Claims

Stage11Claims ==
  {"packagingTruth", "consumerTruth", "stagingTruth", "shadowTruth", "shadowCorpusTruth",
   "expandedShadowTruth", "preservationTruth"}

LEMMA Stage11Rows ==
  /\ Row["packageEvidence"] = PackageEvidence
  /\ Row["packagingTruth"] = PackagingTruth
  /\ Row["consumerEvidence"] = ConsumerEvidence
  /\ Row["consumerTruth"] = ConsumerTruth
  /\ Row["stagingEvidence"] = StagingEvidence
  /\ Row["stagingTruth"] = StagingTruth
  /\ Row["shadowEvidence"] = ShadowEvidence
  /\ Row["shadowTruth"] = ShadowTruth
  /\ Row["shadowCorpusEvidence"] = ShadowCorpusEvidence
  /\ Row["shadowCorpusTruth"] = ShadowCorpusTruth
  /\ Row["expandedShadow"] = ExpandedShadow
  /\ Row["expandedShadowTruth"] = ExpandedShadowTruth
  /\ Row["preservationEvidence"] = PreservationEvidence
  /\ Row["preservationTruth"] = PreservationTruth
BY DEF Row

LEMMA Stage11Backed == ASSUME Green(filed) PROVE \A d \in Stage11Claims : Backed(d)
<1> USE DEF Backed, Document
<1>1. Backed("packagingTruth")
  BY Opened, Stage11Rows DEF LookedUp, Recited, PackagingTruth, PackageEvidence
<1>2. Backed("consumerTruth")
  BY Opened, Stage11Rows DEF LookedUp, Recited, ConsumerTruth, ConsumerEvidence
<1>3. Backed("stagingTruth")
  BY Opened, Stage11Rows DEF LookedUp, Recited, StagingTruth, StagingEvidence
<1>4. Backed("shadowTruth")
  BY Opened, Stage11Rows DEF LookedUp, Recited, ShadowTruth, ShadowEvidence
<1>5. Backed("shadowCorpusTruth")
  BY Opened, Stage11Rows DEF LookedUp, Recited, ShadowCorpusTruth, ShadowCorpusEvidence
<1>6. Backed("expandedShadowTruth")
  BY Opened, Stage11Rows DEF LookedUp, Recited, ExpandedShadowTruth, ExpandedShadow
<1>7. Backed("preservationTruth")
  BY Opened, Stage11Rows DEF LookedUp, Recited, PreservationTruth, PreservationEvidence
<1> HIDE DEF Backed, Document
<1> QED BY <1>1, <1>2, <1>3, <1>4, <1>5, <1>6, <1>7 DEF Stage11Claims

Claiming ==
  CorpusClaims \cup Stage4Claims \cup Stage5Claims \cup Stage6Claims \cup Stage10Claims
    \cup Stage11Claims

\* The documents that claim nothing, or only recite.
Unclaiming ==
  {"metadataCatalog", "vaultZero", "standardZero", "restrictedZero", "highAssurance",
   "admissionZero", "standardProfile", "beethovenCatalog", "secondProfile", "firstCorpus",
   "firstCoverage", "guitarCatalog", "barleyCatalog", "noiseCatalog", "phoneCatalog",
   "restrictedProfile", "stage1Acceptance", "calibrationEvidence", "candidateDerivation",
   "stage2Evidence", "stage3Purpose", "stage3Evidence", "stage3Acceptance", "purposeGrants",
   "labelCompletion", "labelAcceptance", "executionEvidence", "wikimediaPackage",
   "wikimediaPurpose", "wikimediaCompletion", "wikimediaAcceptance", "expandedEvidence",
   "expandedAcceptance", "metricPolicy", "metricPolicyAcceptance", "heldOutAuthorization",
   "reviewQaEvidence", "identityAuthorization", "secretsAuthorization", "networkAuthorization",
   "storageAuthorization", "drillsAuthorization", "regressionAuthorization",
   "stage9Acceptance", "stage9aAcceptance", "foundationTruth", "trainingAuthorization",
   "kickoffTruth", "rightsReview", "registration", "firstGpuRun", "heldOutFinal", "colabTruth",
   "v2aAcceptance", "v2Truth", "packageEvidence", "consumerEvidence", "stagingEvidence",
   "shadowEvidence", "shadowCorpusEvidence", "expandedShadow", "preservationEvidence"}

LEMMA ClaimingOrQuiet ==
  ASSUME NEW d \in Documents
  PROVE  LookedUp(d) = {} \/ d \in Claiming
<1> USE DEF LookedUp, Recited, Row, Document
<1>1. d \in Unclaiming \/ d \in Claiming
  BY DEF Documents, Unclaiming, Claiming, CorpusClaims, Stage4Claims, Stage5Claims,
         Stage6Claims, Stage10Claims, Stage11Claims
<1>2. ASSUME d \in {"metadataCatalog", "vaultZero", "standardZero", "restrictedZero",
             "highAssurance", "admissionZero", "standardProfile", "beethovenCatalog",
             "secondProfile", "firstCorpus", "firstCoverage"}
      PROVE  LookedUp(d) = {}
  BY <1>2 DEF MetadataCatalog, VaultZero, StandardZero, RestrictedZero, HighAssurance,
         AdmissionZero, StandardProfile, BeethovenCatalog, SecondProfile, FirstCorpus,
         FirstCoverage
<1>3. ASSUME d \in {"guitarCatalog", "barleyCatalog", "noiseCatalog", "phoneCatalog",
             "restrictedProfile", "stage1Acceptance", "stage2Evidence", "stage3Purpose",
             "stage3Evidence", "stage3Acceptance"}
      PROVE  LookedUp(d) = {}
  BY <1>3 DEF GuitarCatalog, BarleyCatalog, NoiseCatalog, PhoneCatalog, RestrictedProfile,
         Stage1Acceptance, Stage2Evidence, Stage3Purpose, Stage3Evidence, Stage3Acceptance
<1>4. ASSUME d \in {"calibrationEvidence", "candidateDerivation", "purposeGrants",
             "labelCompletion", "labelAcceptance", "executionEvidence", "wikimediaPackage",
             "wikimediaPurpose", "wikimediaCompletion", "wikimediaAcceptance"}
      PROVE  LookedUp(d) = {}
  BY <1>4 DEF CalibrationEvidence, CandidateDerivation, PurposeGrants, LabelCompletion,
         LabelAcceptance, ExecutionEvidence, WikimediaPackage, WikimediaPurpose,
         WikimediaCompletion, WikimediaAcceptance
<1>5. ASSUME d \in {"expandedEvidence", "expandedAcceptance", "metricPolicy",
             "metricPolicyAcceptance", "heldOutAuthorization", "reviewQaEvidence",
             "identityAuthorization", "secretsAuthorization", "networkAuthorization",
             "storageAuthorization", "drillsAuthorization", "regressionAuthorization"}
      PROVE  LookedUp(d) = {}
  BY <1>5 DEF ExpandedEvidence, ExpandedAcceptance, MetricPolicy, MetricPolicyAcceptance,
         HeldOutAuthorization, ReviewQaEvidence, IdentityAuthorization, SecretsAuthorization,
         NetworkAuthorization, StorageAuthorization, DrillsAuthorization,
         RegressionAuthorization
<1>6. ASSUME d \in {"stage9Acceptance", "stage9aAcceptance", "foundationTruth",
             "trainingAuthorization", "kickoffTruth"}
      PROVE  LookedUp(d) = {}
  BY <1>6 DEF Stage9Acceptance, Stage9aAcceptance, FoundationTruth, TrainingAuthorization,
         KickoffTruth
<1>7. ASSUME d \in {"rightsReview", "registration", "firstGpuRun", "heldOutFinal",
             "colabTruth", "v2aAcceptance", "v2Truth", "packageEvidence"}
      PROVE  LookedUp(d) = {}
  BY <1>7 DEF RightsReview, Registration, FirstGpuRun, HeldOutFinal, ColabTruth, V2aAcceptance,
         V2Truth, PackageEvidence
<1>8. ASSUME d \in {"consumerEvidence", "stagingEvidence", "shadowEvidence",
             "shadowCorpusEvidence", "expandedShadow", "preservationEvidence"}
      PROVE  LookedUp(d) = {}
  BY <1>8 DEF ConsumerEvidence, StagingEvidence, ShadowEvidence, ShadowCorpusEvidence,
         ExpandedShadow, PreservationEvidence
<1> HIDE DEF LookedUp, Recited, Row, Document
<1> QED BY <1>1, <1>2, <1>3, <1>4, <1>5, <1>6, <1>7, <1>8 DEF Unclaiming

\* What continuous integration keeps of the repository.
ChainInv == Green(filed) /\ filed \subseteq Documents

LEMMA ChainInitInv == ChainInit => ChainInv
BY DEF ChainInit, ChainInv, Green

LEMMA ChainNextInv == ChainInv /\ [ChainNext]_filed => ChainInv'
BY DEF ChainInv, Green, ChainNext, FileDocument, Revert, Merge, Places

LEMMA ChainInvBacks == ChainInv => ClaimsBacked
BY ClaimingOrQuiet, CorpusBacked, Stage4Backed, Stage5Backed, Stage6Backed, Stage10Backed,
   Stage11Backed DEF ChainInv, Backed, ClaimsBacked, Claiming

\* For every width of the window: whatever sequence of commits and reverts the validators let
\* through, no document claims a capability whose decision is not in the repository.
THEOREM ClaimsAreBacked == ChainSpec => []ClaimsBacked
BY ChainInitInv, ChainNextInv, ChainInvBacks, PTL DEF ChainSpec

-------------------------------------------------------------------------------
(* What the drills ask of the gates *)

\* The questions of the drills, and those that a gate answers as expected.
Gate == {DatabaseGate, ObjectStorageGate, QueueClaimGate, CrashRecoveryGate, DeletionGate,
         RestoreGate, AuditStoreGate, EnvironmentGate, DeploymentGate, IngressGate,
         ConnectionGate}
Gap == {"untrusted_proxy_peer", "builtin_server_public_exposure_forbidden",
        "quarantine_outbound_forbidden", "public_edge_internal_bypass_forbidden",
        "private_topology_connection_not_allowed", "workload_identity_required",
        "stale_or_invalid_fencing_token", "production_deployment_not_authorized",
        "rollback_path_validated", "partial_write_cleanup_verified",
        "deleted_data_resurrection_check_passed"}
Answer == Gap \cup {"allowed", "audit_unavailable"}
Question == [gate : Gate, gaps : SUBSET Gap, accepting : BOOLEAN, expect : Answer]
Met == {q \in Question : Decision(q.gate, q.gaps, q.accepting) = q.expect}

LEMMA UnauditedMet == \A gate \in Gate : AskedUnaudited(gate) \in Met
<1> TAKE gate \in Gate
<1> DEFINE q == AskedUnaudited(gate)
<1>1. /\ q \in Question /\ ~q.accepting /\ q.expect = "audit_unavailable"
  BY DEF AskedUnaudited, Question, Answer
<1> QED BY <1>1 DEF Met, Decision

\* A gate without a gap allows.
LEMMA AllowedMet ==
  ASSUME NEW gate \in Gate, NEW gaps, gaps = {}
  PROVE  Asked(gate, gaps, "allowed") \in Met
<1> DEFINE q == Asked(gate, gaps, "allowed")
<1>1. /\ q \in Question /\ q.accepting /\ q.gaps = {} /\ q.expect = "allowed" /\ q.gate = gate
  BY DEF Asked, Question, Answer
<1> QED BY <1>1 DEF Met, Decision, Fails

\* A gate denies with the first check that fails.
LEMMA DeniedMet ==
  ASSUME NEW gate \in Gate, NEW gaps \in SUBSET Gap, NEW i \in DOMAIN gate,
         DOMAIN gate \subseteq Nat \ {0}, gate[i] \in gaps,
         \A j \in 1..(i - 1) : gate[j] \notin gaps
  PROVE  Asked(gate, gaps, gate[i]) \in Met
<1> DEFINE q == Asked(gate, gaps, gate[i])
<1>1. /\ q \in Question /\ q.accepting /\ q.gaps = gaps /\ q.expect = gate[i] /\ q.gate = gate
  BY DEF Asked, Question, Answer
<1>2. i \in Nat \ {0} OBVIOUS
<1>3. Fails(gate, gaps, i) /\ \A j \in 1..(i - 1) : ~Fails(gate, gaps, j) BY <1>2 DEF Fails
<1>4. \A k \in DOMAIN gate :
        Fails(gate, gaps, k) /\ (\A j \in 1..(k - 1) : ~Fails(gate, gaps, j)) => k = i
  <2> SUFFICES ASSUME NEW k \in DOMAIN gate, Fails(gate, gaps, k),
                      \A j \in 1..(k - 1) : ~Fails(gate, gaps, j)
               PROVE  k = i
    OBVIOUS
  <2>1. k \in Int /\ i \in Int /\ k >= 1 /\ i >= 1 BY <1>2
  <2>2. ~(k < i) BY <1>3, <2>1
  <2>3. ~(i < k) BY <1>3, <2>1
  <2> QED BY <2>1, <2>2, <2>3
<1>5. FirstFailure(gate, gaps) = i BY <1>3, <1>4 DEF FirstFailure
<1> QED BY <1>1, <1>2, <1>3, <1>5 DEF Met, Decision

\* The connections the drills ask for.
LEMMA ConnectionsMet ==
  /\ \A pair \in AllowedConnections : Connected(pair[1], pair[2], "allowed") \in Met
  /\ Connected("quarantine", "application", "quarantine_outbound_forbidden") \in Met
  /\ Connected("public_edge", "metadata_db", "public_edge_internal_bypass_forbidden") \in Met
<1>1. /\ DOMAIN ConnectionGate = 1..4 /\ Len(ConnectionGate) = 4 /\ ConnectionGate \in Gate
      /\ ConnectionGate[1] = "quarantine_outbound_forbidden"
      /\ ConnectionGate[2] = "public_edge_internal_bypass_forbidden"
      /\ ConnectionGate[3] = "private_topology_connection_not_allowed"
      /\ ConnectionGate[4] = "workload_identity_required"
  BY DEF ConnectionGate, Gate
<1> DEFINE gaps(s, d) == ConnectionGaps(s, d, TRUE)
<1>2. \A s, d, c :
        c \in gaps(s, d) <=>
          \/ c = ConnectionGate[1] /\ s = "quarantine"
          \/ c = ConnectionGate[2] /\ s = "public_edge" /\ d # "application"
          \/ c = ConnectionGate[3] /\ <<s, d>> \notin AllowedConnections
  <2> TAKE s, d, c
  <2>1. {ConnectionGate[i] : i \in 1..Len(ConnectionGate)} = {ConnectionGate[i] : i \in 1..4}
    BY <1>1
  <2>2. \A x \in {ConnectionGate[i] : i \in 1..4} :
          \/ x = ConnectionGate[1] \/ x = ConnectionGate[2] \/ x = ConnectionGate[3]
          \/ x = ConnectionGate[4]
    OBVIOUS
  <2> QED BY <1>1, <2>1, <2>2 DEF ConnectionGaps
<1>3. \A s, d, expect : Connected(s, d, expect) = Asked(ConnectionGate, gaps(s, d), expect)
  BY DEF Connected
<1> HIDE DEF gaps
<1>4. \A s, d : gaps(s, d) \in SUBSET Gap
  <2>1. \A i \in 1..3 : ConnectionGate[i] \in Gap BY <1>1 DEF Gap
  <2>2. \A s, d, c :
          c \in gaps(s, d) => c \in {ConnectionGate[1], ConnectionGate[2], ConnectionGate[3]}
    BY <1>2, Zenon
  <2> QED BY <2>1, <2>2
<1>5. ASSUME NEW pair \in AllowedConnections
      PROVE  Connected(pair[1], pair[2], "allowed") \in Met
  <2>1. /\ pair = <<pair[1], pair[2]>> /\ pair[1] # "quarantine"
        /\ pair[1] = "public_edge" => pair[2] = "application"
    BY DEF AllowedConnections
  <2>2. gaps(pair[1], pair[2]) = {} BY <1>2, <2>1
  <2> QED BY <1>1, <1>3, <2>2, AllowedMet
<1>6. Connected("quarantine", "application", "quarantine_outbound_forbidden") \in Met
  <2>1. ConnectionGate[1] \in gaps("quarantine", "application") BY <1>2
  <2>2. Asked(ConnectionGate, gaps("quarantine", "application"), ConnectionGate[1]) \in Met
    BY <1>1, <1>4, <2>1, DeniedMet
  <2> QED BY <1>1, <1>3, <2>2
<1>7. Connected("public_edge", "metadata_db", "public_edge_internal_bypass_forbidden") \in Met
  <2>1. ConnectionGate[2] \in gaps("public_edge", "metadata_db") BY <1>2
  <2>2. ConnectionGate[1] \notin gaps("public_edge", "metadata_db")
    <3>1. ConnectionGate[1] # ConnectionGate[2] /\ ConnectionGate[1] # ConnectionGate[3]
      BY <1>1
    <3> QED BY <1>2, <3>1, Zenon
  <2>3. \A j \in 1..(2 - 1) : ConnectionGate[j] \notin gaps("public_edge", "metadata_db")
    BY <2>2
  <2>4. Asked(ConnectionGate, gaps("public_edge", "metadata_db"), ConnectionGate[2]) \in Met
    BY <1>1, <1>4, <2>1, <2>3, DeniedMet
  <2> QED BY <1>1, <1>3, <2>4
<1> QED BY <1>5, <1>6, <1>7

\* The claims and candidates the drills ask for.
LEMMA ClaimsMet ==
  \A token, previous \in Nat :
    IF token > previous THEN Claimed(token, previous, "allowed") \in Met
    ELSE Claimed(token, previous, "stale_or_invalid_fencing_token") \in Met
<1> TAKE token, previous \in Nat
<1>1. CASE token > previous
  <2>1. TokenGaps(token, previous) = {} BY <1>1 DEF TokenGaps
  <2> QED BY <1>1, <2>1, AllowedMet DEF Gate, Claimed
<1>2. CASE ~(token > previous)
  <2>1. TokenGaps(token, previous) = {"stale_or_invalid_fencing_token"} BY <1>2 DEF TokenGaps
  <2>2. /\ DOMAIN QueueClaimGate = 1..8 /\ QueueClaimGate \in Gate
        /\ QueueClaimGate[1] = "queue_claim_identity_missing"
        /\ QueueClaimGate[2] = "stale_or_invalid_fencing_token"
    BY DEF QueueClaimGate, Gate
  <2>3. \A j \in 1..(2 - 1) : QueueClaimGate[j] \notin TokenGaps(token, previous) BY <2>1, <2>2
  <2>4. Asked(QueueClaimGate, TokenGaps(token, previous), QueueClaimGate[2]) \in Met
    BY <2>1, <2>2, <2>3, DeniedMet DEF Gap
  <2> QED BY <1>2, <2>2, <2>4 DEF Gate, Claimed
<1> QED BY <1>1, <1>2

\* The deployments: a candidate that is fit, one that asks to be activated, and one without
\* a way back.
LEMMA DeploymentsMet ==
  /\ Deployed({}, FALSE, "allowed") \in Met
  /\ Deployed({}, TRUE, "production_deployment_not_authorized") \in Met
  /\ Deployed({"rollback_path_validated"}, FALSE, "rollback_path_validated") \in Met
<1>1. /\ {} \cup ActivationGaps(FALSE, FALSE) = {}
      /\ {} \cup ActivationGaps(TRUE, FALSE) = {"production_deployment_not_authorized"}
      /\ {"rollback_path_validated"} \cup ActivationGaps(FALSE, FALSE) =
           {"rollback_path_validated"}
  BY DEF ActivationGaps
<1>2. /\ Deployed({}, FALSE, "allowed") = Asked(DeploymentGate, {}, "allowed")
      /\ Deployed({}, TRUE, "production_deployment_not_authorized") =
           Asked(DeploymentGate, {"production_deployment_not_authorized"},
                 "production_deployment_not_authorized")
      /\ Deployed({"rollback_path_validated"}, FALSE, "rollback_path_validated") =
           Asked(DeploymentGate, {"rollback_path_validated"}, "rollback_path_validated")
  BY <1>1, Zenon DEF Deployed
<1>3. /\ DOMAIN DeploymentGate = 1..12 /\ DeploymentGate \in Gate
      /\ DeploymentGate[3] = "production_deployment_not_authorized"
      /\ DeploymentGate[9] = "rollback_path_validated"
      /\ \A j \in 1..(3 - 1) : DeploymentGate[j] # "production_deployment_not_authorized"
      /\ \A j \in 1..(9 - 1) : DeploymentGate[j] # "rollback_path_validated"
  BY DEF DeploymentGate, Gate
<1>4. Asked(DeploymentGate, {}, "allowed") \in Met BY <1>3, AllowedMet
<1>5. Asked(DeploymentGate, {"production_deployment_not_authorized"},
            "production_deployment_not_authorized") \in Met
  BY <1>3, DeniedMet DEF Gap
<1>6. Asked(DeploymentGate, {"rollback_path_validated"}, "rollback_path_validated") \in Met
  BY <1>3, DeniedMet DEF Gap
<1> QED BY <1>2, <1>4, <1>5, <1>6, Zenon

LEMMA AllCallsMet == AllCalls \in Seq(Met)
<1>1. \A gate \in Gate : Granted(gate) \in Met BY AllowedMet DEF Granted
<1>2. TrustedChain \in Seq(Met)
  <2>1. /\ <<"public_edge", "application">> \in AllowedConnections
        /\ \A d \in {"identity", "secret_manager", "kms", "metadata_db", "object_storage",
                     "queue", "audit"} : <<"application", d>> \in AllowedConnections
    BY DEF AllowedConnections
  <2>2. /\ Connected("public_edge", "application", "allowed") \in Met
        /\ \A d \in {"identity", "secret_manager", "kms", "metadata_db", "object_storage",
                     "queue", "audit"} : Connected("application", d, "allowed") \in Met
    BY <2>1, ConnectionsMet
  <2>3. Claimed(1, 0, "allowed") \in Met BY ClaimsMet
  <2> DEFINE fit == Deployed({}, FALSE, "allowed")
             way(s, d) == Connected(s, d, "allowed")
  <2>4. fit \in Met BY DeploymentsMet, Zenon
  <2>5. TrustedChain =
          <<Granted(IngressGate), way("public_edge", "application"),
            way("application", "identity"), way("application", "secret_manager"),
            way("application", "kms"), way("application", "metadata_db"),
            way("application", "object_storage"), way("application", "queue"),
            way("application", "audit"), Granted(DatabaseGate), Granted(ObjectStorageGate),
            Granted(AuditStoreGate), Granted(EnvironmentGate), Claimed(1, 0, "allowed"), fit>>
    BY Zenon DEF TrustedChain
  <2> HIDE DEF fit, way
  <2> QED BY <1>1, <2>2, <2>3, <2>4, <2>5 DEF Gate, way
<1>3. BypassDenied \in Seq(Met)
  <2>1. /\ DOMAIN IngressGate = 1..21 /\ IngressGate \in Gate
        /\ IngressGate[2] = "untrusted_proxy_peer"
        /\ IngressGate[1] = "builtin_server_public_exposure_forbidden"
    BY DEF IngressGate, Gate
  <2>2. /\ Asked(IngressGate, {"untrusted_proxy_peer"}, "untrusted_proxy_peer") \in Met
        /\ Asked(IngressGate, {"builtin_server_public_exposure_forbidden"},
                 "builtin_server_public_exposure_forbidden") \in Met
    BY <2>1, DeniedMet DEF Gap
  <2> QED BY <2>2, ConnectionsMet DEF BypassDenied
<1>4. StorageFailClosed \in Seq(Met)
  <2> DEFINE stale == Claimed(4, 4, "stale_or_invalid_fencing_token")
             activated == Deployed({}, TRUE, "production_deployment_not_authorized")
             unaudited == AskedUnaudited(DatabaseGate)
  <2>1. stale \in Met /\ unaudited \in Met BY ClaimsMet, UnauditedMet DEF Gate
  <2>2. activated \in Met BY DeploymentsMet, Zenon
  <2>3. StorageFailClosed = <<stale, activated, unaudited>> BY Zenon DEF StorageFailClosed
  <2> HIDE DEF stale, activated, unaudited
  <2> QED BY <2>1, <2>2, <2>3
<1>5. RedeliveryDrill \in Seq(Met) BY ClaimsMet DEF RedeliveryDrill
<1>6. CrashDrill \in Seq(Met)
  <2>1. /\ DOMAIN CrashRecoveryGate = 1..6 /\ CrashRecoveryGate \in Gate
        /\ CrashRecoveryGate[5] = "partial_write_cleanup_verified"
        /\ \A j \in 1..(5 - 1) : CrashRecoveryGate[j] # "partial_write_cleanup_verified"
    BY DEF CrashRecoveryGate, Gate
  <2>2. Asked(CrashRecoveryGate, {"partial_write_cleanup_verified"},
              "partial_write_cleanup_verified") \in Met
    BY <2>1, DeniedMet DEF Gap
  <2> QED BY <1>1, <2>2 DEF Gate, CrashDrill
<1>7. ResurrectionDrill \in Seq(Met)
  <2>1. /\ DOMAIN RestoreGate = 1..8 /\ RestoreGate \in Gate
        /\ RestoreGate[6] = "deleted_data_resurrection_check_passed"
        /\ \A j \in 1..(6 - 1) : RestoreGate[j] # "deleted_data_resurrection_check_passed"
    BY DEF RestoreGate, Gate
  <2>2. Asked(RestoreGate, {"deleted_data_resurrection_check_passed"},
              "deleted_data_resurrection_check_passed") \in Met
    BY <2>1, DeniedMet DEF Gap
  <2> QED BY <1>1, <2>2 DEF Gate, ResurrectionDrill
<1>8. AuditDrill \in Seq(Met) BY UnauditedMet DEF Gate, AuditDrill
<1>9. RollbackDrill \in Seq(Met)
  <2> DEFINE fit == Deployed({}, FALSE, "allowed")
             activated == Deployed({}, TRUE, "production_deployment_not_authorized")
             stuck == Deployed({"rollback_path_validated"}, FALSE, "rollback_path_validated")
  <2>1. fit \in Met /\ activated \in Met /\ stuck \in Met BY DeploymentsMet, Zenon
  <2>2. RollbackDrill = <<fit, activated, stuck>> BY Zenon DEF RollbackDrill
  <2> HIDE DEF fit, activated, stuck
  <2> QED BY <2>1, <2>2
<1> QED BY <1>2, <1>3, <1>4, <1>5, <1>6, <1>7, <1>8, <1>9 DEF AllCalls

-------------------------------------------------------------------------------
(* The pool *)

Token == 1..HighestToken

\* The tasks left are the last of those submitted.
Queued ==
  /\ tasks \in Seq(Token) /\ Len(tasks) <= 2 * HighestToken
  /\ \A i \in 1..Len(tasks) : tasks[i] = ClaimTasks[2 * HighestToken - Len(tasks) + i]

PoolTypeOK ==
  /\ calls \in Seq(Met) /\ Queued /\ held \in [PoolWorker -> Token \cup {Idle}]
  /\ highest \in 0..HighestToken /\ accepted \in Seq(Token)
  /\ anyRefused \in BOOLEAN /\ commits \in 0..1

\* Nothing is claimed before every call was answered.
CallsFirst ==
  progress = "calls" =>
    /\ tasks = <<>> /\ \A w \in PoolWorker : held[w] = Idle
    /\ highest = 0 /\ accepted = <<>> /\ anyRefused = FALSE /\ commits = 0

\* The tokens in the ledger increase up to the highest.
Increasing ==
  \A i \in 1..Len(accepted) :
    accepted[i] <= highest /\ \A j \in 1..(i - 1) : accepted[j] < accepted[i]

\* A token that the ledger has not passed yet is still to be claimed.
EveryToken ==
  \A t \in Token :
    \/ t <= highest
    \/ \E i \in 1..Len(tasks) : tasks[i] = t
    \/ \E w \in PoolWorker : held[w] = t

\* The first token is claimed twice: one claim of it, and two claims of it, are still to come.
FirstTokenComes ==
  Len(tasks) >= HighestToken \/ \E w \in PoolWorker : held[w] = 1
FirstTokenComesTwice ==
  \/ Len(tasks) = 2 * HighestToken
  \/ Len(tasks) >= HighestToken /\ \E w \in PoolWorker : held[w] = 1
  \/ \E w, v \in PoolWorker : w # v /\ held[w] = 1 /\ held[v] = 1

\* A claim was refused, or one of the first token will be.
RefusalComes ==
  anyRefused \/ (highest >= 1 /\ FirstTokenComes) \/ FirstTokenComesTwice

ClaimsPhase == progress = "claims" => commits = 0 /\ EveryToken /\ RefusalComes
Committing ==
  progress = "commits" =>
    /\ highest = HighestToken /\ anyRefused
    /\ commits = 0 => tasks # <<>> \/ \E w \in PoolWorker : held[w] # Idle

DrillInv ==
  /\ progress \in {"calls", "claims", "commits", "reported"}
  /\ PoolTypeOK /\ CallsFirst /\ Increasing /\ ClaimsPhase /\ Committing

LEMMA TokenFacts ==
  /\ HighestToken \in Nat /\ HighestToken >= 1 /\ 1 \in Token
  /\ \A t \in Token : t \in Nat /\ t >= 1 /\ t <= HighestToken /\ t # Idle
  /\ ClaimTasks \in Seq(Token) /\ Len(ClaimTasks) = 2 * HighestToken
  /\ \A t \in Token : ClaimTasks[t] = t
  /\ ClaimTasks[1] = 1 /\ ClaimTasks[HighestToken + 1] = 1
<1>1. HighestToken \in Nat /\ HighestToken >= 1 BY TokenAssumption
<1>2. 1 \in Token /\ \A t \in Token : t \in Nat /\ t >= 1 /\ t <= HighestToken /\ t # Idle
  BY <1>1, IdleAssumption DEF Token
<1>3. \A i \in 1..(2 * HighestToken) : ClaimTasks[i] \in Token BY <1>1 DEF ClaimTasks, Token
<1>4. ClaimTasks \in Seq(Token) /\ Len(ClaimTasks) = 2 * HighestToken
  <2>1. 2 * HighestToken \in Nat BY <1>1
  <2>2. ClaimTasks \in [1..(2 * HighestToken) -> Token] BY <1>3 DEF ClaimTasks
  <2> QED BY <2>1, <2>2
<1>5. \A t \in Token : ClaimTasks[t] = t BY <1>1 DEF ClaimTasks, Token
<1>6. ClaimTasks[HighestToken + 1] = 1
  <2>1. HighestToken + 1 \in 1..(2 * HighestToken) /\ ~(HighestToken + 1 <= HighestToken)
    BY <1>1
  <2>2. ClaimTasks[HighestToken + 1] = (HighestToken + 1) - HighestToken BY <2>1 DEF ClaimTasks
  <2> QED BY <1>1, <2>2
<1> QED BY <1>1, <1>2, <1>4, <1>5, <1>6

LEMMA NothingQueued == <<>> \in Seq(Token) /\ Len(<<>>) = 0
OBVIOUS

LEMMA DrillInitInv == DrillInit => DrillInv
<1> SUFFICES ASSUME DrillInit PROVE DrillInv OBVIOUS
<1>1. Queued BY NothingQueued, TokenFacts DEF DrillInit, Queued
<1>2. PoolTypeOK
  <2>1. calls \in Seq(Met) BY AllCallsMet DEF DrillInit
  <2>2. held \in [PoolWorker -> Token \cup {Idle}] BY DEF DrillInit
  <2>3. 0 \in 0..HighestToken /\ 0 \in 0..1 BY TokenFacts
  <2> QED BY <1>1, <2>1, <2>2, <2>3, NothingQueued DEF DrillInit, PoolTypeOK
<1>3. Increasing BY NothingQueued DEF DrillInit, Increasing
<1> QED BY <1>2, <1>3 DEF DrillInit, DrillInv, CallsFirst, ClaimsPhase, Committing

LEMMA CallStep == ASSUME DrillInv, CallGate PROVE DrillInv'
<1>1. Head(calls) \in Met /\ Tail(calls) \in Seq(Met)
  BY DEF CallGate, DrillInv, PoolTypeOK
<1>2. progress' = "calls" /\ progress = "calls" /\ calls' = Tail(calls)
  BY <1>1 DEF CallGate, Met
<1>3. UNCHANGED <<tasks, held, highest, accepted, anyRefused, commits>>
  BY DEF CallGate, ledgers
<1> QED BY <1>1, <1>2, <1>3
        DEF DrillInv, PoolTypeOK, Queued, CallsFirst, Increasing, ClaimsPhase, Committing

\* As many tasks are submitted as there are claims.
LEMMA SubmitStep ==
  ASSUME DrillInv, tasks' = ClaimTasks, UNCHANGED <<calls, held, ledgers>>,
         \/ progress = "calls" /\ progress' = "claims"
         \/ /\ progress = "claims" /\ progress' = "commits" /\ PoolDone
  PROVE  DrillInv'
<1>1. UNCHANGED <<calls, held, highest, accepted, anyRefused, commits>> BY DEF ledgers
<1>2. Queued' BY TokenFacts DEF Queued
<1>3. PoolTypeOK' BY <1>1, <1>2 DEF DrillInv, PoolTypeOK
<1>4. Increasing' BY <1>1 DEF DrillInv, Increasing
<1>5. CASE progress = "calls" /\ progress' = "claims"
  <2>1. EveryToken' /\ RefusalComes'
    <3>1. /\ Len(tasks') = 2 * HighestToken
          /\ \A t \in Token : tasks'[t] = t /\ t \in 1..Len(tasks')
      BY TokenFacts
    <3> QED BY <3>1 DEF EveryToken, RefusalComes, FirstTokenComesTwice
  <2>2. commits' = 0 BY <1>1, <1>5 DEF DrillInv, CallsFirst
  <2> QED BY <1>3, <1>4, <1>5, <2>1, <2>2 DEF DrillInv, CallsFirst, ClaimsPhase, Committing
<1>6. CASE progress = "claims" /\ progress' = "commits" /\ PoolDone
  <2>1. tasks = <<>> /\ Len(tasks) = 0 /\ \A w \in PoolWorker : held[w] = Idle
    BY <1>6 DEF PoolDone
  <2>2. \A w \in PoolWorker : held[w] \notin Token BY <2>1, TokenFacts
  <2>3. HighestToken <= highest /\ highest <= HighestToken
    BY <1>6, <2>1, <2>2, TokenFacts DEF DrillInv, PoolTypeOK, ClaimsPhase, EveryToken, Token
  <2>4. highest = HighestToken BY <2>3, TokenFacts DEF DrillInv, PoolTypeOK
  <2>5. anyRefused
    BY <1>6, <2>1, <2>2, TokenFacts
       DEF DrillInv, ClaimsPhase, RefusalComes, FirstTokenComes, FirstTokenComesTwice
  <2>6. tasks' # <<>> BY TokenFacts
  <2> QED BY <1>1, <1>3, <1>4, <1>6, <2>4, <2>5, <2>6
          DEF DrillInv, CallsFirst, ClaimsPhase, Committing
<1> QED BY <1>5, <1>6

LEMMA TakeStep == ASSUME DrillInv, NEW w \in PoolWorker, TakeTask(w) PROVE DrillInv'
<1> DEFINE n == Len(tasks)
           H == HighestToken
<1>1. /\ held[w] = Idle /\ tasks # <<>> /\ tasks \in Seq(Token)
      /\ held' = [held EXCEPT ![w] = Head(tasks)] /\ tasks' = Tail(tasks)
      /\ UNCHANGED <<progress, calls, highest, accepted, anyRefused, commits>>
  BY DEF TakeTask, ledgers, DrillInv, PoolTypeOK, Queued
<1>2. /\ n \in Nat /\ n >= 1 /\ Head(tasks) = tasks[1] /\ Head(tasks) \in Token
      /\ tasks' \in Seq(Token) /\ Len(tasks') = n - 1
      /\ \A i \in 1..(n - 1) : tasks'[i] = tasks[i + 1]
  BY <1>1
<1>3. held'[w] = tasks[1] /\ \A v \in PoolWorker \ {w} : held'[v] = held[v]
  BY <1>1, <1>2 DEF DrillInv, PoolTypeOK
<1>4. n <= 2 * H /\ \A i \in 1..n : tasks[i] = ClaimTasks[2 * H - n + i]
  BY DEF DrillInv, PoolTypeOK, Queued
<1>5. Queued'
  <2>1. \A i \in 1..(n - 1) : tasks[i + 1] = ClaimTasks[2 * H - n + (i + 1)] BY <1>2, <1>4
  <2>2. \A i \in 1..(n - 1) : 2 * H - n + (i + 1) = 2 * H - (n - 1) + i BY <1>2, TokenFacts
  <2>3. \A i \in 1..(n - 1) : tasks'[i] = ClaimTasks[2 * H - (n - 1) + i] BY <1>2, <2>1, <2>2
  <2> QED BY <1>2, <1>4, <2>3, TokenFacts DEF Queued
<1>6. PoolTypeOK' BY <1>1, <1>2, <1>5 DEF DrillInv, PoolTypeOK
<1>7. Increasing' BY <1>1 DEF DrillInv, Increasing
<1>8. progress # "calls" BY <1>1 DEF DrillInv, CallsFirst
<1>9. ASSUME progress = "claims" PROVE EveryToken'
  <2> SUFFICES ASSUME NEW t \in Token, ~(t <= highest)
               PROVE  \/ \E i \in 1..Len(tasks') : tasks'[i] = t
                      \/ \E v \in PoolWorker : held'[v] = t
    BY <1>1 DEF EveryToken
  <2>1. CASE \E v \in PoolWorker : held[v] = t
    BY <1>1, <1>3, <2>1, TokenFacts
  <2>2. CASE \E i \in 1..n : tasks[i] = t
    <3> PICK i \in 1..n : tasks[i] = t BY <2>2
    <3>1. CASE i = 1 BY <1>3, <3>1
    <3>2. CASE i # 1
      <4>1. i - 1 \in 1..(n - 1) /\ (i - 1) + 1 = i BY <1>2, <3>2
      <4> QED BY <1>2, <4>1
    <3> QED BY <3>1, <3>2
  <2> QED BY <1>9, <2>1, <2>2 DEF DrillInv, ClaimsPhase, EveryToken
<1>10. ASSUME progress = "claims" PROVE RefusalComes'
  <2>1. \A v \in PoolWorker : held[v] = 1 => v # w /\ held'[v] = 1
    BY <1>1, <1>3, TokenFacts
  <2>2. n = 2 * H => held'[w] = 1
    <3>1. n = 2 * H => 2 * H - n + 1 = 1 BY <1>2, TokenFacts
    <3> QED BY <1>2, <1>3, <1>4, <3>1, TokenFacts
  <2>3. n = H => held'[w] = 1
    <3>1. n = H => 2 * H - n + 1 = H + 1 BY <1>2, TokenFacts
    <3> QED BY <1>2, <1>3, <1>4, <3>1, TokenFacts
  <2>4. n >= H => n - 1 >= H \/ n = H
    <3>1. n \in Nat /\ H \in Nat BY <1>2, TokenFacts
    <3> HIDE DEF n, H
    <3> QED BY <3>1
  <2>5. CASE anyRefused BY <1>1, <2>5 DEF RefusalComes
  <2>6. CASE highest >= 1 /\ FirstTokenComes
    <3>1. FirstTokenComes' BY <1>2, <2>1, <2>3, <2>4, <2>6 DEF FirstTokenComes
    <3> QED BY <1>1, <2>6, <3>1 DEF RefusalComes
  <2>7. CASE FirstTokenComesTwice
    <3>1. CASE n = 2 * H
      <4>1. CASE n - 1 >= H BY <1>2, <2>2, <3>1, <4>1 DEF RefusalComes, FirstTokenComesTwice
      <4>2. CASE ~(n - 1 >= H)
        <5>1. n = H /\ n = 2 * H BY <1>2, <3>1, <4>2, TokenFacts
        <5> QED BY <5>1, <1>2, TokenFacts
      <4> QED BY <4>1, <4>2
    <3>2. CASE n >= H /\ \E v \in PoolWorker : held[v] = 1
      <4> PICK v \in PoolWorker : held[v] = 1 BY <3>2
      <4>1. v # w /\ held'[v] = 1 BY <2>1
      <4>2. CASE n - 1 >= H BY <1>2, <4>1, <4>2 DEF RefusalComes, FirstTokenComesTwice
      <4>3. CASE n = H BY <2>3, <4>1, <4>3 DEF RefusalComes, FirstTokenComesTwice
      <4> QED BY <2>4, <3>2, <4>2, <4>3
    <3>3. CASE \E u, v \in PoolWorker : u # v /\ held[u] = 1 /\ held[v] = 1
      BY <2>1, <3>3 DEF RefusalComes, FirstTokenComesTwice
    <3> QED BY <2>7, <3>1, <3>2, <3>3 DEF FirstTokenComesTwice
  <2> QED BY <1>10, <2>5, <2>6, <2>7 DEF DrillInv, ClaimsPhase, RefusalComes
<1>11. ClaimsPhase' BY <1>1, <1>9, <1>10 DEF DrillInv, ClaimsPhase
<1>12. Committing' BY <1>1, <1>2, <1>3, TokenFacts DEF DrillInv, Committing
<1> QED BY <1>1, <1>6, <1>7, <1>8, <1>11, <1>12 DEF DrillInv, CallsFirst

LEMMA ClaimStep == ASSUME DrillInv, NEW w \in PoolWorker, ClaimToken(w) PROVE DrillInv'
<1> DEFINE t == held[w]
<1>1. /\ progress = "claims" /\ t \in Token /\ held \in [PoolWorker -> Token \cup {Idle}]
      /\ held' = [held EXCEPT ![w] = Idle] /\ UNCHANGED <<progress, calls, tasks, commits>>
      /\ highest \in Nat /\ accepted \in Seq(Token)
  BY TokenFacts DEF ClaimToken, DrillInv, PoolTypeOK
<1>2. t \in Nat /\ t >= 1 /\ t <= HighestToken BY <1>1, TokenFacts
<1>3. held'[w] = Idle /\ \A v \in PoolWorker \ {w} : held'[v] = held[v] BY <1>1
<1>4. CASE t <= highest
  <2>1. anyRefused' /\ UNCHANGED <<highest, accepted>> BY <1>4 DEF ClaimToken
  <2>2. PoolTypeOK' BY <1>1, <2>1 DEF DrillInv, PoolTypeOK, Queued
  <2>3. EveryToken'
    BY <1>1, <1>3, <1>4, <2>1 DEF DrillInv, ClaimsPhase, EveryToken
  <2>4. RefusalComes' BY <2>1 DEF RefusalComes
  <2> QED BY <1>1, <2>1, <2>2, <2>3, <2>4
          DEF DrillInv, CallsFirst, ClaimsPhase, Committing, Increasing
<1>5. CASE ~(t <= highest)
  <2>1. /\ highest' = t /\ accepted' = Append(accepted, t) /\ anyRefused' = anyRefused
        /\ highest < t
    BY <1>1, <1>2, <1>5 DEF ClaimToken
  <2>2. PoolTypeOK' BY <1>1, <1>2, <2>1, TokenFacts DEF DrillInv, PoolTypeOK, Queued, Token
  <2>3. EveryToken'
    <3> SUFFICES ASSUME NEW s \in Token, ~(s <= t)
                 PROVE  \/ \E i \in 1..Len(tasks) : tasks[i] = s
                        \/ \E v \in PoolWorker : held'[v] = s
      BY <1>1, <2>1 DEF EveryToken
    <3>1. ~(s <= highest) /\ s # t BY <1>1, <1>2, <2>1, TokenFacts
    <3> QED BY <1>1, <1>3, <3>1 DEF DrillInv, ClaimsPhase, EveryToken
  <2>4. RefusalComes'
    <3>1. highest' >= 1 BY <1>2, <2>1
    <3>2. CASE anyRefused BY <2>1, <3>2 DEF RefusalComes
    <3>3. CASE highest >= 1 /\ FirstTokenComes
      <4>1. t # 1 BY <1>1, <1>2, <2>1, <3>3
      <4>2. FirstTokenComes' BY <1>1, <1>3, <3>3, <4>1 DEF FirstTokenComes
      <4> QED BY <3>1, <4>2 DEF RefusalComes
    <3>4. CASE FirstTokenComesTwice
      <4>1. FirstTokenComes'
        BY <1>1, <1>3, <3>4, TokenFacts DEF FirstTokenComes, FirstTokenComesTwice
      <4> QED BY <3>1, <4>1 DEF RefusalComes
    <3> QED BY <1>1, <3>2, <3>3, <3>4 DEF DrillInv, ClaimsPhase, RefusalComes
  <2>5. Increasing'
    <3>1. /\ Len(accepted') = Len(accepted) + 1 /\ accepted'[Len(accepted) + 1] = t
          /\ \A i \in 1..Len(accepted) : accepted'[i] = accepted[i]
          /\ Len(accepted) \in Nat /\ \A i \in 1..Len(accepted) : accepted[i] \in Nat
      BY <1>1, <2>1, TokenFacts
    <3>2. \A i \in 1..Len(accepted) : accepted[i] <= highest
      BY DEF DrillInv, Increasing
    <3>3. \A i \in 1..Len(accepted) : accepted[i] < t BY <1>1, <1>2, <2>1, <3>1, <3>2
    <3>4. ASSUME NEW i \in 1..(Len(accepted) + 1)
          PROVE  accepted'[i] <= t /\ \A j \in 1..(i - 1) : accepted'[j] < accepted'[i]
      <4>1. CASE i = Len(accepted) + 1
        <5>1. \A j \in 1..(i - 1) : j \in 1..Len(accepted) BY <3>1, <4>1
        <5> QED BY <1>2, <3>1, <3>3, <4>1, <5>1
      <4>2. CASE i # Len(accepted) + 1
        <5>1. i \in 1..Len(accepted) /\ \A j \in 1..(i - 1) : j \in 1..Len(accepted)
          BY <3>1, <4>2
        <5>2. \A j \in 1..(i - 1) : accepted[j] < accepted[i]
          BY <5>1 DEF DrillInv, Increasing
        <5> QED BY <1>2, <3>1, <3>3, <5>1, <5>2
      <4> QED BY <4>1, <4>2
    <3> QED BY <2>1, <3>1, <3>4 DEF Increasing
  <2> QED BY <1>1, <2>2, <2>3, <2>4, <2>5 DEF DrillInv, CallsFirst, ClaimsPhase, Committing
<1> QED BY <1>4, <1>5

LEMMA CommitStep == ASSUME DrillInv, NEW w \in PoolWorker, CommitDigest(w) PROVE DrillInv'
<1>1. /\ progress = "commits" /\ held' = [held EXCEPT ![w] = Idle]
      /\ UNCHANGED <<progress, calls, tasks, highest, accepted, anyRefused>>
      /\ commits \in 0..1 /\ commits' = IF commits > 0 THEN commits ELSE commits + 1
  BY DEF CommitDigest, DrillInv, PoolTypeOK
<1>2. commits' = 1 BY <1>1
<1>3. PoolTypeOK' BY <1>1, <1>2 DEF DrillInv, PoolTypeOK, Queued
<1>4. Increasing' BY <1>1 DEF DrillInv, Increasing
<1> QED BY <1>1, <1>2, <1>3, <1>4 DEF DrillInv, CallsFirst, ClaimsPhase, Committing

LEMMA ReportStep == ASSUME DrillInv, ReportDrills PROVE DrillInv'
<1>1. /\ progress = "commits" /\ PoolDone
      /\ progress' = IF StressPassed THEN "reported" ELSE "failed"
      /\ UNCHANGED <<calls, tasks, held, highest, accepted, anyRefused, commits>>
  BY DEF ReportDrills, ledgers
<1>2. commits = 1 /\ highest = HighestToken /\ anyRefused
  BY <1>1 DEF PoolDone, DrillInv, Committing, PoolTypeOK
<1>3. \A i \in 1..(Len(accepted) - 1) : accepted[i] < accepted[i + 1]
  <2> TAKE i \in 1..(Len(accepted) - 1)
  <2>1. Len(accepted) \in Nat BY DEF DrillInv, PoolTypeOK
  <2>2. i + 1 \in 1..Len(accepted) /\ i \in 1..((i + 1) - 1) BY <2>1
  <2> QED BY <2>2 DEF DrillInv, Increasing
<1>4. progress' = "reported" BY <1>1, <1>2, <1>3 DEF StressPassed
<1>5. PoolTypeOK' BY <1>1 DEF DrillInv, PoolTypeOK, Queued
<1>6. Increasing' BY <1>1 DEF DrillInv, Increasing
<1> QED BY <1>4, <1>5, <1>6 DEF DrillInv, CallsFirst, ClaimsPhase, Committing

LEMMA DrillNextInv == DrillInv /\ [DrillNext]_drillVars => DrillInv'
<1> SUFFICES ASSUME DrillInv, [DrillNext]_drillVars PROVE DrillInv' OBVIOUS
<1>1. CASE SubmitClaims BY <1>1, SubmitStep DEF SubmitClaims
<1>2. CASE SubmitCommits BY <1>2, SubmitStep DEF SubmitCommits
<1>3. CASE UNCHANGED drillVars
  BY <1>3 DEF drillVars, ledgers, DrillInv, PoolTypeOK, Queued, CallsFirst, Increasing,
              ClaimsPhase, EveryToken, RefusalComes, FirstTokenComes, FirstTokenComesTwice,
              Committing
<1> QED BY <1>1, <1>2, <1>3, CallStep, TakeStep, ClaimStep, CommitStep, ReportStep
        DEF DrillNext

\* For every pool and every number of tokens, in whatever order the threads reach the ledgers:
\* no expectation of a drill is disappointed.
THEOREM DrillsNeverFail == DrillSpec => [](progress # "failed")
<1>1. DrillInv => progress # "failed" BY DEF DrillInv
<1> QED BY <1>1, DrillInitInv, DrillNextInv, PTL DEF DrillSpec

-------------------------------------------------------------------------------
(* The composition *)

\* Each component keeps its invariant, also while it stands still.
EngineInv == IInv /\ SlotInv /\ DrillInv /\ ChainInv /\ ChoiceInv /\ TileInv

\* A server that has been shut down holds no connection; no drill holds a task.
LEMMA IdleEngine == (NoServer => SlotInv) /\ (NoDrill => DrillInv)
<1>1. ASSUME NoServer PROVE SlotInv
  <2>1. Holding = {} BY <1>1 DEF NoServer, Holding
  <2>2. Cardinality(Holding) = 0 BY <2>1, FS_EmptySet
  <2>3. HttpTypeOK BY <1>1, HttpAssumption DEF NoServer, HttpTypeOK
  <2> HIDE DEF HttpTypeOK
  <2>4. slots + Cardinality(Holding) = MaxRequests BY <1>1, <2>2, HttpAssumption DEF NoServer
  <2> QED BY <2>3, <2>4 DEF SlotInv, SlotsAccounted
<1>2. ASSUME NoDrill PROVE DrillInv
  <2>1. Queued BY <1>2, NothingQueued, TokenFacts DEF NoDrill, Queued
  <2>2. PoolTypeOK
    <3>1. <<>> \in Seq(Met) OBVIOUS
    <3>2. held \in [PoolWorker -> Token \cup {Idle}] BY <1>2 DEF NoDrill
    <3>3. 0 \in 0..HighestToken /\ 0 \in 0..1 BY TokenFacts
    <3> QED BY <1>2, <2>1, <3>1, <3>2, <3>3, NothingQueued DEF NoDrill, PoolTypeOK
  <2>3. Increasing BY <1>2, NothingQueued DEF NoDrill, Increasing
  <2> QED BY <1>2, <2>2, <2>3 DEF NoDrill, DrillInv, CallsFirst, ClaimsPhase, Committing
<1> QED BY <1>1, <1>2

LEMMA EngineInitInv == EngineInit => EngineInv
<1> SUFFICES ASSUME EngineInit PROVE EngineInv OBVIOUS
<1>1. SlotInv /\ DrillInv BY SlotInitInv, DrillInitInv, IdleEngine DEF EngineInit
<1> QED BY <1>1, Initially, ChainInitInv, ChoiceInitInv, TileInitInv DEF EngineInit, EngineInv

\* A step of the engine is a step of one component, and the others stutter.
LEMMA EngineNextInv == EngineInv /\ [EngineNext]_engineVars => EngineInv'
<1> SUFFICES ASSUME EngineInv, [EngineNext]_engineVars PROVE EngineInv' OBVIOUS
<1>1. /\ [Next]_vars /\ [HttpNext]_httpVars /\ [DrillNext]_drillVars
      /\ [ChainNext]_filed /\ [ChoiceNext]_choiceVars /\ [TileNext]_tileVars
  BY DEF EngineNext, engineVars
<1> QED BY <1>1, Invariance, SlotNextInv, DrillNextInv, ChainNextInv, ChoiceNextInv, TileNextInv
        DEF EngineInv

\* Whichever component moves, each of them keeps what it promises, and custody implements
\* the removal it stands for.
THEOREM EngineIsSafe ==
  EngineSpec => [](/\ TypeOK /\ NothingServedUnderRemoval /\ ReceiptsTell /\ RevocationAnchored
                   /\ AuditComplete /\ IndependentEvidence /\ SlotsAccounted /\ ClaimsBacked
                   /\ SelectedIsProven /\ PatchesFit /\ progress # "failed")
                /\ RefinesRemoval
<1>1. EngineInv => /\ TypeOK /\ NothingServedUnderRemoval /\ ReceiptsTell /\ RevocationAnchored
                   /\ AuditComplete /\ IndependentEvidence /\ SlotsAccounted /\ ClaimsBacked
                   /\ SelectedIsProven /\ PatchesFit /\ progress # "failed"
  <2>1. IInv => /\ TypeOK /\ NothingServedUnderRemoval /\ ReceiptsTell /\ RevocationAnchored
                /\ AuditComplete /\ IndependentEvidence
    BY Anchoring, Independence DEF IInv
  <2>2. SlotInv => SlotsAccounted BY DEF SlotInv
  <2>3. ChoiceInv => SelectedIsProven BY DEF ChoiceInv
  <2>4. DrillInv => progress # "failed" BY DEF DrillInv
  <2> QED BY <2>1, <2>2, <2>3, <2>4, ChainInvBacks, TileInvFits DEF EngineInv
<1>2. EngineSpec => Spec
  <2>1. EngineInit => Init BY DEF EngineInit
  <2>2. [EngineNext]_engineVars => [Next]_vars BY DEF EngineNext, engineVars
  <2> QED BY <2>1, <2>2, PTL DEF EngineSpec, Spec
<1> QED BY <1>1, <1>2, EngineInitInv, EngineNextInv, CustodyRemoves, PTL DEF EngineSpec
===============================================================================
