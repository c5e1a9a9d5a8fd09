------------------------------ MODULE Detection ------------------------------
(* Minutiae detection from the blocks of a grey image to the final list with *)
(* its neighbours (lib.rs): the maps and the binary image, the scans and the *)
(* removals on them, the ridge counts.                                      *)
EXTENDS RidgeCounts

CONSTANTS
  Inputs, Ink, MapWidth, MapHeight, Headings, Radius,
  RmvValidNbrMin, SmthValidNbrMin, MinInterpolateNbrs, DirDistanceMax, StrengthMin,
  VortValidNbrMin, VorticityMin, CurvatureMin, NumFillHoles

VARIABLES input, mapStage   \* of the maps

Maps == INSTANCE ImageMaps WITH stage <- mapStage

ASSUME DetectionAssumption ==
  /\ {BlockSize, MapWidth, MapHeight} \subseteq Nat \ {0}
  /\ {ImageWidth, ImageHeight, NumFillHoles, HighCurveHalfContour, SideHalfContour} \subseteq Nat
  /\ BlockSize * (MapWidth - 1) < ImageWidth /\ ImageWidth <= BlockSize * MapWidth
  /\ BlockSize * (MapHeight - 1) < ImageHeight /\ ImageHeight <= BlockSize * MapHeight
  /\ \A i \in Inputs : i.kinds \in [Maps!Blocks -> Maps!Kinds]

mapVars == <<input, mapStage>>
vars == <<maps, image, listVars, neighbours, mapVars>>

Init ==
  /\ Maps!Init
  /\ minutiae = <<>> /\ flagged = {} /\ neighbours = <<>>
  /\ stage = "maps" /\ at = <<0, 0>>

\* build_maps
BuildMaps == stage = "maps" /\ Maps!Next /\ UNCHANGED <<listVars, neighbours>>

\* run_detect, with the maps and the binary image
StartScan ==
  /\ stage = "maps" /\ Maps!In("done")
  /\ stage' = "rows"
  /\ UNCHANGED <<maps, image, minutiae, at, flagged, neighbours, mapVars>>

Finished == stage = "finished" /\ UNCHANGED vars

Next ==
  \/ BuildMaps
  \/ StartScan
  \/ MinutiaeNext /\ UNCHANGED <<neighbours, mapVars>>
  \/ RidgesNext /\ UNCHANGED mapVars
  \/ Finished

Spec == Init /\ [][Next]_vars

-----------------------------------------------------------------------------
\* The properties of the maps (ImageMaps), while they are made.
Making == stage = "maps"
Settled == Making => Maps!Settled
ScannedAsBinarized == Making => Maps!ScannedAsBinarized

\* No step comes back to where it was: not the removals of directions, which
\* are repeated until one removes nothing; not the scans, which back up a pixel;
\* nor the stages that slide the list under their index: "leaving it there
\* re-enters this arm forever" (remove_or_adjust_side_minutiae_v2).
Phases == <<"maps", "rows", "columns", "sort">> \o Removals \o <<"counting", "finished">>
Rank(s) == CHOOSE n \in DOMAIN Phases : Phases[n] = s
Remaining ==
  LET n == Len(minutiae)
  IN  CASE stage = "maps" -> <<Cardinality({b \in DOMAIN directions : directions[b] # NoDirection}), 0>>
        [] stage \in {"rows", "columns"} -> <<Lines(stage) - at[1], Length(stage) - at[2]>>
        [] stage \in PairStages -> <<n - at[1], n - at[2]>>
        [] stage \in Backward -> <<at[1], 0>>
        [] OTHER -> <<n - at[1], 0>>
Advances ==
  \/ Rank(stage') > Rank(stage)
  \/ stage' = stage /\ mapStage' > mapStage
  \/ stage' = stage /\ (Remaining'[1] < Remaining[1] \/ (Remaining'[1] = Remaining[1] /\ Remaining'[2] < Remaining[2]))
EveryStepAdvances == [][Advances]_vars
=============================================================================
