------------------------------- MODULE TilePlan -------------------------------
(***************************************************************************)
(* The tiling adapter around the V2a candidate: a page of any size is cut  *)
(* into overlapping patches of the size the model takes, each is restored, *)
(* and the outputs are added up and divided by the number of patches that  *)
(* cover a pixel.                                                          *)
(*                                                                         *)
(* Of the sums only the pixels they have reached are kept.  A page is      *)
(* refused by the code when a patch begins outside it, or when a pixel is  *)
(* reached by none.                                                        *)
(***************************************************************************)
EXTENDS Integers

CONSTANTS Patch,   \* PATCH_SIZE: the side of a patch
          Stride,  \* STRIDE: from one patch to the next
          MaxSide  \* MAX_DIMENSION: the longest side of a page

ASSUME TileAssumption ==
  /\ Patch \in Nat \ {0} /\ Stride \in 1..Patch
  /\ MaxSide \in Nat \ {0}

VARIABLES
  side,       \* the height and the width of the page
  starts,     \* along each, where the patches begin
  lastStart,  \* the last of them, starts[-1]
  tilesLeft,  \* the patches of the plan not yet restored
  covered,    \* the pixels with a weight
  tiling      \* planning, restoring, restored, or the error that was raised

tileVars == <<side, starts, lastStart, tilesLeft, covered, tiling>>

Axis == {"height", "width"}

Pixels == (0..side["height"] - 1) \X (0..side["width"] - 1)

TileInit ==
  /\ side \in [Axis -> 1..MaxSide]
  /\ starts = [a \in Axis |-> {0}] /\ lastStart = [a \in Axis |-> 0]
  /\ tilesLeft = {} /\ covered = {}
  /\ tiling = "planning"

\* Faulty: only whole patches are laid, and the rest of the page is left out.
WholePatchFollows(a) == lastStart[a] + Stride + Patch <= side[a]
PatchFollows(a) == lastStart[a] + Patch < side[a]

\* One turn of the loop of axis_starts.
AddStart(a) ==
  /\ tiling = "planning" /\ PatchFollows(a)
  /\ lastStart' = [lastStart EXCEPT ![a] = lastStart[a] + Stride]
  /\ starts' = [starts EXCEPT ![a] = starts[a] \cup {lastStart[a] + Stride}]
  /\ UNCHANGED <<side, tilesLeft, covered, tiling>>

PlanTiles ==
  /\ tiling = "planning" /\ \A a \in Axis : ~PatchFollows(a)
  /\ tilesLeft' = starts["height"] \X starts["width"]
  /\ tiling' = "restoring"
  /\ UNCHANGED <<side, starts, lastStart, covered>>

Visible(t) ==
  {p \in Pixels : /\ t[1] <= p[1] /\ p[1] < t[1] + Patch
                  /\ t[2] <= p[2] /\ p[2] < t[2] + Patch}

\* The patch is cut out, restored and added to the sums, which nobody sees before the
\* last one is in them.
RestoreTile(t) ==
  /\ tiling = "restoring" /\ t \in tilesLeft
  /\ IF t \in Pixels
     THEN /\ covered' = covered \cup Visible(t)
          /\ tilesLeft' = tilesLeft \ {t}
          /\ UNCHANGED tiling
     ELSE tiling' = "outside" /\ UNCHANGED <<covered, tilesLeft>>
  /\ UNCHANGED <<side, starts, lastStart>>

\* The model raises, or returns what is no patch.
InferenceFails ==
  /\ tiling = "restoring" /\ tilesLeft # {}
  /\ tiling' = "failed"
  /\ UNCHANGED <<side, starts, lastStart, tilesLeft, covered>>

StitchTiles ==
  /\ tiling = "restoring" /\ tilesLeft = {}
  /\ tiling' = IF covered = Pixels THEN "restored" ELSE "uncovered"
  /\ UNCHANGED <<side, starts, lastStart, tilesLeft, covered>>

TileNext ==
  \/ \E a \in Axis : AddStart(a)
  \/ PlanTiles
  \/ \E t \in tilesLeft : RestoreTile(t)
  \/ InferenceFails \/ StitchTiles

TileSpec == TileInit /\ [][TileNext]_tileVars

-------------------------------------------------------------------------------
(* Properties *)

\* Every variable holds a value of its type.
TileTypeOK ==
  /\ side \in [Axis -> 1..MaxSide]
  /\ starts \in [Axis -> SUBSET Nat] /\ lastStart \in [Axis -> Nat]
  /\ tilesLeft \subseteq starts["height"] \X starts["width"]
  /\ covered \subseteq Pixels
  /\ tiling \in {"planning", "restoring", "restored", "failed", "outside", "uncovered"}

\* Whatever the sides of a page, its patches leave no pixel out, none of them begins
\* outside the page, and each has a row or a column the ones before it do not reach.
PatchesFit ==
  /\ tiling \notin {"outside", "uncovered"}
  /\ \A a \in Axis : \A s \in starts[a] \ {0} : s - Stride + Patch < side[a]
==============================================================================
