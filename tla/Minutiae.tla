------------------------------ MODULE Minutiae ------------------------------
(* Minutiae detection and false-minutia removal: the two scans of the      *)
(* binary image, which may erase loops of it as they go, and the stages    *)
(* that prune the list they leave.                                         *)
EXTENDS Contour, FiniteSets

CONSTANTS
  ImageWidth, ImageHeight, BlockSize, NumDirections,
  Tangents,          \* of the borders between directions up to half a right angle, in millionths
  BehindSine,        \* the sines of a quarter of the directions, four pixels long
  MaxMinutiaDelta, HighCurveHalfContour, MinLoopLen,
  MaxRmtestDist, MaxHalfLoop, MaxHookLen, MaxOverlapDist, SmallLoopLen,
  InvBlockMargin, RmValidNbrMin, SideHalfContour, MalformationSteps

VARIABLES
  directions,        \* direction_map
  lowFlow,           \* low_flow_map, as a set of blocks
  curved,            \* high_curve_map, as a set of blocks
  image,             \* bdata, which loops are erased from
  minutiae,          \* the list
  stage,             \* which scan or removal stage runs
  at,                \* its cursor: line and position, or the one or two indices
  flagged            \* to_remove, as a set of indices

maps == <<directions, lowFlow, curved>>
listVars == <<minutiae, stage, at, flagged>>

Removals == <<"islands", "holes", "pointing", "near", "side", "hooks", "overlaps", "malformed", "pores", "done">>
PairStages == {"islands", "hooks", "overlaps"}
Backward == {"malformed"}

\* The block of a pixel, and the one that paints it where the maps are spread
\* over the pixels (pixelize_map): a last block that the edge cuts is moved in.
Block(p) == <<p[1] \div BlockSize, p[2] \div BlockSize>>
Painter(p) ==
  LET Index(v, size) == IF v >= size - BlockSize THEN (size - 1) \div BlockSize ELSE v \div BlockSize
  IN  <<Index(p[1], ImageWidth), Index(p[2], ImageHeight)>>
NoDirection == -1
FlowAt(p) == directions[Painter(p)]

-----------------------------------------------------------------------------
(* Directions: units of half a turn over NumDirections, clockwise          *)
(* from north.                                                             *)

FullCircle == 2 * NumDirections
Quarter == NumDirections \div 4
Absolute(n) == IF n < 0 THEN -n ELSE n
DirDistance(d, e) == Min({Absolute(d - e), FullCircle - Absolute(d - e)})

\* The units a line rises from the nearer axis.
Steps(minor, major) == Cardinality({t \in Tangents : minor * 1000000 > t * major})
LineDirection(f, t) ==
  LET east == t[1] - f[1]
      north == f[2] - t[2]
      E == Absolute(east)
      N == Absolute(north)
      units == IF E <= N THEN Steps(E, N) ELSE NumDirections \div 2 - Steps(N, E)
      half == IF north >= 0 THEN units ELSE NumDirections - units
  IN  IF E + N = 0 THEN 0 ELSE (IF east >= 0 THEN half ELSE FullCircle - half) % FullCircle

\* The scan across a flow, and the way a minutia of a scan points along one.
ScanAcross(flow) == IF flow <= Quarter \/ flow > 3 * Quarter THEN "rows" ELSE "columns"
LowCurvatureDirection(scan, appearing, flow) ==
  LET against == IF flow <= NumDirections \div 2 /\ scan = "rows" THEN appearing ELSE ~appearing
  IN  flow + (IF against THEN NumDirections ELSE 0)

-----------------------------------------------------------------------------
(* The list.  A minutia is a pair, a direction and a kind: 0 a bifurcation *)
(* and 1 a ridge ending, which is the colour of its pixel.                 *)

Minutia(pair, dir, kind) == [pair |-> pair, dir |-> dir, kind |-> kind]
Place(m) == m.pair.at

Alike(e, m) ==
  /\ Absolute(Place(e)[1] - Place(m)[1]) < MaxMinutiaDelta
  /\ Absolute(Place(e)[2] - Place(m)[2]) < MaxMinutiaDelta
  /\ e.kind = m.kind
  /\ DirDistance(e.dir, m.dir) <= Quarter

SameContour(img, e, m) ==
  \E scan \in {Clockwise, CounterClockwise} : SearchContour(img, Place(m), MaxMinutiaDelta, e.pair, scan)

Here(ms, m) == {i \in DOMAIN ms : Alike(ms[i], m) /\ Place(ms[i]) = Place(m)}
OnContour(img, ms, m) ==
  {i \in DOMAIN ms : Alike(ms[i], m) /\ Place(ms[i]) # Place(m) /\ SameContour(img, ms[i], m)}

Without(ms, gone) ==
  LET kept == DOMAIN ms \ gone
      Nth(n) == CHOOSE i \in kept : Cardinality({j \in kept : j < i}) = n - 1
  IN  [n \in 1..Cardinality(kept) |-> ms[Nth(n)]]

\* Version one, of the loops: the first to come stays.
Update(img, ms, m) ==
  IF Here(ms, m) \cup OnContour(img, ms, m) # {} THEN ms ELSE Append(ms, m)

\* mutant: the one found goes with the one that loses to it
BothDropped(img, ms, m, scan, flow) ==
  IF ScanAcross(flow) # scan THEN Without(ms, OnContour(img, ms, m)) ELSE Append(ms, m)
\* Version two, of the scans: the one whose scan crosses the flow stays.
\* The list is walked from its end, up to one at the same place.
UpdateV2(img, ms, m, scan, flow) ==
  LET here == Here(ms, m)
      twins == OnContour(img, ms, m)
  IN  IF ScanAcross(flow) # scan THEN IF here \cup twins = {} THEN Append(ms, m) ELSE ms
      ELSE IF here = {} THEN Append(Without(ms, twins), m)
      ELSE Without(ms, {i \in twins : i > Max(here)})

-----------------------------------------------------------------------------
(* A candidate in a block of high curvature. *)

Found(img, ms) == [image |-> img, minutiae |-> ms]

Elongated(c) == LET widest == Span(c, Widest(c))
                    narrowest == Span(c, Narrowest(c))
                IN  narrowest < 1 \/ 4 * widest >= 9 * narrowest

\* A large narrow loop is two minutiae at its ends; any other is erased.
ProcessLoop(img, ms, c) ==
  LET from == c[Widest(c)]
      to == c[Opposite(c, Widest(c))]
      colour == img[c[1].at]
      dir == LineDirection(from.at, to.at)
      one == Minutia(from, dir, colour)
      other == Minutia(to, (dir + NumDirections) % FullCircle, colour)
  IN  IF Len(c) > MinLoopLen /\ Elongated(c) /\ img[Halfway(from.at, to.at)] = colour
      THEN Found(img, Update(img, Update(img, ms, one), other))
      ELSE Found(FillLoop(img, c), ms)

\* The angle at a point of a contour between the points `AngleEdge` either
\* side of it, as its cosine's sign and square; a point that meets one of
\* them has it to the east.
AngleEdge == HighCurveHalfContour \div 2
Arm(p, q) == IF p = q THEN <<1, 0>> ELSE <<q[1] - p[1], q[2] - p[2]>>
Dot(u, v) == u[1] * v[1] + u[2] * v[2]
Arms(c, i) == <<Arm(c[i].at, c[i - AngleEdge].at), Arm(c[i].at, c[i + AngleEdge].at)>>
Cosine(c, i) ==
  LET a == Arms(c, i)
      d == Dot(a[1], a[2])
  IN  [square |-> (IF d < 0 THEN -1 ELSE 1) * d * d, of |-> Dot(a[1], a[1]) * Dot(a[2], a[2])]
Sharper(x, y) == x.square * y.of > y.square * x.of
Bends(c) == (AngleEdge + 1)..(Len(c) - AngleEdge)
Sharpest(c) == CHOOSE i \in Bends(c) : \A j \in Bends(c) :
                 Sharper(Cosine(c, i), Cosine(c, j)) \/ (~Sharper(Cosine(c, j), Cosine(c, i)) /\ i <= j)

\* Sharper than a third of half a turn.
SharpEnough(x) == 4 * x.square > x.of

\* The contour's bend replaces the candidate if it is sharp and the feature
\* fills it; a loop is processed in its place, if counter-clockwise.
Bend(img, ms, c, i, mid, kind, scan, flow) ==
  IF SharpEnough(Cosine(c, i)) /\ img[mid] = img[c[i].at]
  THEN Found(img, UpdateV2(img, ms, Minutia(c[i], LineDirection(c[i].at, mid), kind), scan, flow))
  ELSE Found(img, ms)
AtBend(img, ms, c, i, kind, scan, flow) ==
  Bend(img, ms, c, i, Halfway(c[i - AngleEdge].at, c[i + AngleEdge].at), kind, scan, flow)
Adjust(img, ms, contour, kind, scan, flow) ==
  CASE contour.end = "whole" -> AtBend(img, ms, contour.pairs, Sharpest(contour.pairs), kind, scan, flow)
    [] contour.end = "loop" /\ ~LoopClockwise(contour.pairs) -> ProcessLoop(img, ms, contour.pairs)
    [] OTHER -> Found(img, ms)

-----------------------------------------------------------------------------
(* The scans. *)

\* Three pairs of pixels along a scan; the feature is the second pixel of
\* the second pair if it appears, and the first if it disappears.
Feature(first, second, third, kind, appearing) ==
  [pairs |-> <<first, second, third>>, kind |-> kind, appearing |-> appearing]
FeaturePatterns ==
  <<Feature(<<0, 0>>, <<0, 1>>, <<0, 0>>, 1, TRUE), Feature(<<0, 0>>, <<1, 0>>, <<0, 0>>, 1, FALSE),
    Feature(<<1, 1>>, <<0, 1>>, <<1, 1>>, 0, FALSE), Feature(<<1, 1>>, <<1, 0>>, <<1, 1>>, 0, TRUE),
    Feature(<<1, 0>>, <<0, 1>>, <<1, 1>>, 0, FALSE), Feature(<<1, 1>>, <<0, 1>>, <<1, 0>>, 0, FALSE),
    Feature(<<1, 1>>, <<1, 0>>, <<0, 1>>, 0, TRUE), Feature(<<0, 1>>, <<1, 0>>, <<1, 1>>, 0, TRUE),
    Feature(<<1, 0>>, <<0, 1>>, <<1, 0>>, 0, FALSE), Feature(<<0, 1>>, <<1, 0>>, <<0, 1>>, 0, TRUE)>>
Matching(possible, n, pair) == {i \in possible : FeaturePatterns[i].pairs[n] = pair}

\* A pixel of the line and of the one beside it, at a position of the scan.
Pixel(scan, line, pos) == IF scan = "rows" THEN <<pos, line>> ELSE <<line, pos>>
PairAt(img, scan, line, pos) == <<img[Pixel(scan, line, pos)], img[Pixel(scan, line + 1, pos)]>>
Lines(scan) == IF scan = "rows" THEN ImageHeight ELSE ImageWidth
Length(scan) == IF scan = "rows" THEN ImageWidth ELSE ImageHeight

\* Past the repeats of the second pair.
SkipRepeated(scan, line, pos) ==
  Min({p \in (pos + 1)..Length(scan) :
         p = Length(scan) \/ PairAt(image, scan, line, p) # PairAt(image, scan, line, pos)})

\* A candidate between the second pair and the third.
ProcessCandidate(scan, line, second, third, fp) ==
  LET mid == (second + third) \div 2
      near == Pixel(scan, line, mid)
      far == Pixel(scan, line + 1, mid)
      pair == IF fp.appearing THEN [at |-> far, edge |-> near] ELSE [at |-> near, edge |-> far]
      flow == FlowAt(pair.at)
  IN  IF flow = NoDirection THEN Found(image, minutiae)
      ELSE IF Painter(pair.at) \in curved THEN Adjust(image, minutiae, HighCurvatureContour(image, HighCurveHalfContour, pair), fp.kind, scan, flow)
      ELSE Found(image, UpdateV2(image, minutiae,
             Minutia(pair, LowCurvatureDirection(scan, fp.appearing, flow), fp.kind), scan, flow))

\* One round of the scan's loop, from a first pair: what it finds and where
\* the next round starts.  The last test is made on the image as it is then.
Round(found, next) == [found |-> found, next |-> next]
Nothing == Found(image, minutiae)
AfterCandidate(scan, line, past, found) ==
  Round(found, IF found.image[Pixel(scan, line, past)] # found.image[Pixel(scan, line + 1, past)]
               THEN past - 1 ELSE past)
ScanRound(scan, line, pos) ==
  LET Seen(p) == PairAt(image, scan, line, p)
      first == Matching(DOMAIN FeaturePatterns, 1, Seen(pos))
      second == Matching(first, 2, Seen(pos + 1))
      past == SkipRepeated(scan, line, pos + 1)
      third == Matching(second, 3, Seen(past))
  IN  IF first = {} \/ pos + 1 = Length(scan) THEN Round(Nothing, pos + 1)
      ELSE IF second = {} THEN Round(Nothing, pos + 1)
      ELSE IF past = Length(scan) THEN Round(Nothing, past)
      ELSE AfterCandidate(scan, line, past,
             IF third = {} THEN Nothing
             ELSE ProcessCandidate(scan, line, pos + 1, past, FeaturePatterns[Min(third)]))

Scan(scan, then, round) ==
  /\ image' = round.found.image
  /\ minutiae' = round.found.minutiae
  /\ CASE round.next < Length(scan) -> at' = <<at[1], round.next>> /\ UNCHANGED stage
       [] round.next >= Length(scan) /\ at[1] + 2 < Lines(scan) -> at' = <<at[1] + 1, 0>> /\ UNCHANGED stage
       [] OTHER -> at' = <<0, 0>> /\ stage' = then
  /\ UNCHANGED <<maps, flagged>>

ScanHorizontally == stage = "rows" /\ Scan("rows", "columns", ScanRound("rows", at[1], at[2]))
ScanVertically == stage = "columns" /\ Scan("columns", "sort", ScanRound("columns", at[1], at[2]))

-----------------------------------------------------------------------------
(* Removal: how a stage walks the list. *)

Start(s, ms) == IF s \in PairStages THEN <<1, 2>> ELSE IF s \in Backward THEN <<Len(ms)>> ELSE <<1>>
NextStage == Removals[1 + CHOOSE n \in DOMAIN Removals : Removals[n] = stage]

EndStage(ms) ==
  /\ minutiae' = ms
  /\ stage' = NextStage
  /\ at' = Start(NextStage, ms)
  /\ flagged' = {}

\* A stable sort.
Arranged(s, Before(_, _)) ==
  LET Ahead(i, j) == Before(s[i], s[j]) \/ (~Before(s[j], s[i]) /\ i < j)
  IN  [n \in DOMAIN s |-> s[CHOOSE i \in DOMAIN s : Cardinality({j \in DOMAIN s : Ahead(j, i)}) = n - 1]]

\* Top to bottom, left to right.
Higher(m, n) == ImageWidth * Place(m)[2] + Place(m)[1] < ImageWidth * Place(n)[2] + Place(n)[1]
Sorted(ms) == Arranged(ms, Higher)

SortMinutiae ==
  /\ stage = "sort"
  /\ minutiae' = Sorted(minutiae)
  /\ stage' = Removals[1]
  /\ at' = Start(Removals[1], minutiae)
  /\ UNCHANGED <<maps, image, flagged>>

\* A stage over single minutiae at its minutia i.
Looking(s, i) == stage = s /\ at = <<i>> /\ i \in DOMAIN minutiae
Keep(s, i) == at' = <<IF s \in Backward THEN i - 1 ELSE i + 1>> /\ UNCHANGED minutiae
Drop(s, i) == at' = <<IF s \in Backward THEN i - 1 ELSE i>> /\ minutiae' = Without(minutiae, {i})
Judge(s, i, false) ==
  /\ IF false THEN Drop(s, i) ELSE Keep(s, i)
  /\ UNCHANGED <<maps, image, stage, flagged>>

SingleStageEnds ==
  /\ stage \in ToSet(Removals) \ (PairStages \cup {"done"})
  /\ at[1] \notin DOMAIN minutiae
  /\ EndStage(minutiae)
  /\ UNCHANGED <<maps, image>>

\* A stage over pairs at first f and second s.  A minutia whose pixel has
\* changed is stale.
Comparing(st, f, s) ==
  stage = st /\ at = <<f, s>> /\ s \in DOMAIN minutiae /\ ~(s = f + 1 /\ f \in flagged)
NextFirst(f) == at' = <<f + 1, f + 2>>
NextSecond(f, s) == at' = <<f, s + 1>>
Stale(m) == image[Place(m)] # m.kind
Opposed(m, n) == DirDistance(m.dir, n.dir) > 3 * Quarter - 1
Close(m, n, limit) == SquaredDistance(Place(m), Place(n)) <= limit * limit
Below(m, n, limit) == Place(n)[2] - Place(m)[2] > limit

\* What the pair comes to: the stage's test when both are fresh, near and opposed.
Verdict(f, s, limit, test) ==
  LET m == minutiae[f]  n == minutiae[s]
  IN  IF Stale(m) THEN "next first"
      ELSE IF s \in flagged THEN "apart"
      ELSE IF Stale(n) THEN "stale"
      ELSE IF Below(m, n, limit) THEN "next first"
      ELSE IF Close(m, n, limit) /\ Opposed(m, n) THEN test
      ELSE "apart"

Settle(f, s, verdict) ==
  /\ flagged' = flagged \cup CASE verdict = "loop" -> {f, s}
                               [] verdict = "ignore" -> {f}
                               [] verdict = "stale" -> {s}
                               [] OTHER -> {}
  /\ IF verdict \in {"next first", "ignore"} THEN NextFirst(f) ELSE NextSecond(f, s)
  /\ UNCHANGED <<maps, minutiae, stage>>

PairStageMoves ==
  /\ stage \in PairStages
  /\ at[1] < Len(minutiae)
  /\ at[2] \notin DOMAIN minutiae \/ (at[2] = at[1] + 1 /\ at[1] \in flagged)
  /\ NextFirst(at[1])
  /\ UNCHANGED <<maps, image, minutiae, stage, flagged>>

PairStageEnds ==
  /\ stage \in PairStages
  /\ at[1] >= Len(minutiae)
  /\ EndStage(Without(minutiae, flagged))
  /\ UNCHANGED <<maps, image>>

-----------------------------------------------------------------------------
(* Removal: the stages. *)

\* Two of a kind on one short loop: the loop is erased and both go.
RemoveIslandsAndLakes(f, s) ==
  /\ Comparing("islands", f, s)
  /\ LET loop == IslandLake(image, MaxHalfLoop, minutiae[f].pair, minutiae[s].pair)
         verdict == IF minutiae[f].kind # minutiae[s].kind THEN "apart"
                    ELSE Verdict(f, s, MaxRmtestDist, loop.end)
     IN  /\ image' = IF verdict = "loop" THEN FillLoop(image, loop.pairs) ELSE image
         /\ Settle(f, s, verdict)

RemoveHoles(i) ==
  /\ Looking("holes", i)
  /\ Judge("holes", i, minutiae[i].kind = 0 /\ OnLoop(image, SmallLoopLen, minutiae[i].pair) # "traced")

\* The block a few pixels behind the minutia, against its direction, kept on
\* the map.
Behind(m) ==
  LET Sine(k) == LET q == k % FullCircle
                     h == q % NumDirections
                     v == BehindSine[1 + IF h <= NumDirections \div 2 THEN h ELSE NumDirections - h]
                 IN  IF q < NumDirections THEN v ELSE -v
      Onto(v, size) == Max({0, Min({size - 1, v})})
  IN  Block(<<Onto(Place(m)[1] - Sine(m.dir), ImageWidth),
              Onto(Place(m)[2] + Sine(m.dir + NumDirections \div 2), ImageHeight)>>)

RemovePointingInvblock(i) ==
  /\ Looking("pointing", i)
  /\ Judge("pointing", i, directions[Behind(minutiae[i])] = NoDirection)

\* The blocks beside a pixel in the margin of its own.
Beside(p) ==
  LET Side(v) == IF v % BlockSize < InvBlockMargin THEN {0, -1}
                 ELSE IF v % BlockSize > BlockSize - InvBlockMargin - 1 THEN {0, 1} ELSE {0}
  IN  {<<Block(p)[1] + d[1], Block(p)[2] + d[2]>> : d \in (Side(p[1]) \X Side(p[2])) \ {<<0, 0>>}}
Valid(b) == b \in DOMAIN directions /\ directions[b] >= 0
ValidNbrs(b) == Cardinality({n \in 0..7 : Valid(Nbr(b, n))})

RemoveNearInvblock(i) ==
  /\ Looking("near", i)
  /\ Judge("near", i, \E b \in Beside(Place(minutiae[i])) :
                        \/ b \notin DOMAIN directions
                        \/ ~Valid(b) /\ ValidNbrs(b) < RmValidNbrMin)

\* mutant: left at i
ReEntered(i, pair) ==
  /\ minutiae' = [minutiae EXCEPT ![i].pair = pair]
  /\ at' = IF directions[Block(pair.at)] = NoDirection THEN at ELSE <<i + 1>>
  /\ UNCHANGED <<maps, image, stage, flagged>>
\* mutant: into any block
MovedAnywhere(i, pair) ==
  /\ minutiae' = [minutiae EXCEPT ![i].pair = pair]
  /\ at' = <<i + 1>>
  /\ UNCHANGED <<maps, image, stage, flagged>>
\* A point on the side of a ridge is moved to an extremum of its contour, if
\* there is one and it lies in a valid block: any point of the contour.
AdjustSide(i, pair) ==
  /\ IF directions[Block(pair.at)] = NoDirection THEN Drop("side", i)
     ELSE minutiae' = [minutiae EXCEPT ![i] = Minutia(pair, @.dir, @.kind)] /\ at' = <<i + 1>>
  /\ UNCHANGED <<maps, image, stage, flagged>>

RemoveOrAdjustSide(i) ==
  /\ Looking("side", i)
  /\ LET c == CenteredContour(image, SideHalfContour, minutiae[i].pair)
     IN  Judge("side", i, TRUE) \/ \E loc \in DOMAIN c : AdjustSide(i, c[loc])

RemoveHooks(f, s) ==
  /\ Comparing("hooks", f, s)
  /\ Settle(f, s, Verdict(f, s, MaxRmtestDist,
       IF minutiae[f].kind = minutiae[s].kind THEN "apart"
       ELSE OnHook(image, MaxHookLen, minutiae[f].pair, minutiae[s].pair)))
  /\ UNCHANGED image

\* Whether the join is shallow and the path free is left open.
RemoveOverlaps(f, s) ==
  /\ Comparing("overlaps", f, s)
  /\ \E overlap \in {"loop", "apart"} :
       Settle(f, s, Verdict(f, s, MaxOverlapDist,
         IF minutiae[f].kind = minutiae[s].kind THEN overlap ELSE "apart"))
  /\ UNCHANGED image

\* How the feature spreads behind the point is left open.
RemoveMalformations(i) ==
  /\ Looking("malformed", i)
  /\ LET m == minutiae[i]
         Reaches(scan) == Complete(TraceContour(image, MalformationSteps, Place(m), m.pair, scan), MalformationSteps)
     IN  \E odd \in BOOLEAN :
           Judge("malformed", i, odd \/ ~Reaches(CounterClockwise) \/ ~Reaches(Clockwise))

\* The shape of the pore is left open; only unreliable blocks are tested.
RemovePores(i) ==
  /\ Looking("pores", i)
  /\ \E pore \in BOOLEAN :
       LET b == Block(Place(minutiae[i]))
       IN  Judge("pores", i, pore /\ b \in lowFlow \cup curved /\ Valid(b))

-----------------------------------------------------------------------------

Detect == ScanHorizontally \/ ScanVertically
RemoveSingle(i) ==
  \/ RemoveHoles(i) \/ RemovePointingInvblock(i) \/ RemoveNearInvblock(i)
  \/ RemoveOrAdjustSide(i) \/ RemoveMalformations(i) \/ RemovePores(i)
RemovePair(f, s) == RemoveIslandsAndLakes(f, s) \/ RemoveHooks(f, s) \/ RemoveOverlaps(f, s)

MinutiaeNext ==
  \/ Detect \/ SortMinutiae
  \/ \E i \in DOMAIN minutiae : RemoveSingle(i)
  \/ \E f, s \in DOMAIN minutiae : RemovePair(f, s)
  \/ SingleStageEnds \/ PairStageMoves \/ PairStageEnds

-----------------------------------------------------------------------------
(* Properties. *)

\* While the image is scanned a minutia leaves the list only for one like it:
\* of its kind, near it and pointing its way (update_minutiae_V2).
HasLike(m, ms) == \E j \in DOMAIN ms : ms[j] = m \/ Alike(ms[j], m)
KeepsTheLike ==
  stage \in {"rows", "columns"} => \A i \in DOMAIN minutiae : HasLike(minutiae[i], minutiae')
ReplacedByItsLike == [][KeepsTheLike]_<<maps, image, listVars>>

\* The image is edited after minutiae were found on it, and a bend may lie in
\* another block than its candidate: past the side stage each one left stands
\* on an edge of the image as it is now, in a block with a flow, so the traces
\* of the later stages start on a contour.
SurvivorsOnEdges ==
  stage \notin {"maps", "rows", "columns", "sort", "islands", "holes", "pointing", "near", "side"} =>
    \A i \in DOMAIN minutiae :
      LET pair == minutiae[i].pair
      IN  image[pair.at] # image[pair.edge] /\ directions[Block(pair.at)] # NoDirection
=============================================================================
