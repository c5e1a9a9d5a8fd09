----------------------------- MODULE ImageMaps -----------------------------
(* From the blocks of a grey image to the binary one: the Direction Map is *)
(* pruned, smoothed and interpolated (maps.rs), the pixels of the blocks   *)
(* that have a direction are binarized along it and one-pixel holes filled *)
(* (binarize.rs).                                                          *)
EXTENDS Integers, Sequences, FiniteSets, SequencesExt, FiniteSetsExt

CONSTANTS
  Inputs,                  \* what the tests of contrast and of power make of an image's blocks, with its ink
  Ink,                     \* the pixels that are dark along a direction
  MapWidth, MapHeight,     \* in blocks
  ImageWidth, ImageHeight, \* in pixels; the last blocks may be cut by the edge
  BlockSize,
  NumDirections,
  Headings,                \* the cosine and sine of a direction, as integers over Radius
  Radius,
  RmvValidNbrMin, SmthValidNbrMin, MinInterpolateNbrs,
  DirDistanceMax,
  StrengthMin,             \* of a fraction, <<above, below>>
  VortValidNbrMin, VorticityMin, CurvatureMin,
  NumFillHoles

Invalid == -1
Directions == 0..(NumDirections - 1)
Blocks == (0..(MapWidth - 1)) \X (0..(MapHeight - 1))
Pixels == (0..(ImageWidth - 1)) \X (0..(ImageHeight - 1))

\* A block is of low contrast, of low flow, or has a direction.
NoContrast == -3
NoFlow == -2
Kinds == {NoContrast, NoFlow} \cup Directions

VARIABLES
  input,       \* the image that was given
  directions,  \* direction_map
  lowFlow,     \* low_flow_map, as a set of blocks
  curved,      \* high_curve_map, as a set of blocks
  image,       \* the binary image: 1 on a ridge
  stage        \* which stage runs

LowContrast == {b \in Blocks : input.kinds[b] = NoContrast}

-----------------------------------------------------------------------------
(* The neighbours of a block. *)

Offsets == << <<-1, -1>>, <<0, -1>>, <<1, -1>>, <<1, 0>>, <<1, 1>>, <<0, 1>>, <<-1, 1>>, <<-1, 0>> >>
Step(b, o) == <<b[1] + o[1], b[2] + o[2]>>
At(dirs, b) == IF b \in Blocks THEN dirs[b] ELSE Invalid
Nbr(dirs, b, i) == At(dirs, Step(b, Offsets[i]))
ValidNbrs(dirs, b) == {i \in 1..8 : Nbr(dirs, b, i) # Invalid}

\* average_8nbr_dir: the direction nearest to the mean of the neighbours', the
\* later one of two, if the mean is strong enough.
Mean(dirs, b) ==
  LET valid == ValidNbrs(dirs, b)
      n == Cardinality(valid)
      cosines == MapThenSumSet(LAMBDA i : Headings[Nbr(dirs, b, i)][1], valid)
      sines == MapThenSumSet(LAMBDA i : Headings[Nbr(dirs, b, i)][2], valid)
      Along(d) == cosines * Headings[d][1] + sines * Headings[d][2]
      nearest == {d \in Directions : \A e \in Directions : Along(e) <= Along(d)}
      strong == n > 0 /\ StrengthMin[2] * (cosines * cosines + sines * sines) >= StrengthMin[1] * (n * Radius) * (n * Radius)
  IN  [valid |-> n,
       dir |-> IF strong THEN CHOOSE d \in nearest : (d + 1) % NumDirections \notin nearest ELSE Invalid]

DirDistance(d, e) == LET apart == (d - e) % NumDirections IN Min({apart, NumDirections - apart})

-----------------------------------------------------------------------------
(* remove_incon_dirs: from the centre of the map outwards, in squares.      *)

Centre == <<MapWidth \div 2, MapHeight \div 2>>
Up(from, to) == [i \in 1..(to - from + 1) |-> from + i - 1]
Row(y, xs) == [i \in DOMAIN xs |-> <<xs[i], y>>]
Column(x, ys) == [i \in DOMAIN ys |-> <<x, ys[i]>>]

\* mutant: from below the corner that the top edge leaves out
RightFromBelow(x, t, b) == IF x < MapWidth THEN Column(x, Up(Max({t + 1, 0}), Min({b - 1, MapHeight - 1}))) ELSE <<>>
TopEdge(y, l, r) == IF y >= 0 THEN Row(y, Up(Max({l, 0}), Min({r - 1, MapWidth - 1}))) ELSE <<>>
RightEdge(x, t, b) == IF x < MapWidth THEN Column(x, Up(Max({t, 0}), Min({b - 1, MapHeight - 1}))) ELSE <<>>
BottomEdge(y, l, r) == IF y < MapHeight THEN Reverse(Row(y, Up(Max({l - 1, 0}), Min({r, MapWidth - 1})))) ELSE <<>>
LeftEdge(x, t, b) == IF x >= 0 THEN Reverse(Column(x, Up(Max({t - 1, 0}), Min({b, MapHeight - 1})))) ELSE <<>>

Square(k) ==
  LET l == Centre[1] - k
      t == Centre[2] - k
      r == Centre[1] + k
      b == Centre[2] + k
  IN  TopEdge(t, l, r) \o RightEdge(r, t, b) \o BottomEdge(b, l, r) \o LeftEdge(l, t, b)

Squares == Max({Centre[1], MapWidth - 1 - Centre[1], Centre[2], MapHeight - 1 - Centre[2]})
Walk == <<Centre>> \o FlattenSeq([k \in 1..Squares |-> Square(k)])

\* A direction goes when it has few neighbours, or a strong mean against it.
Inconsistent(dirs, b) ==
  LET mean == Mean(dirs, b)
  IN  \/ mean.valid < RmvValidNbrMin
      \/ mean.dir # Invalid /\ DirDistance(mean.dir, dirs[b]) > DirDistanceMax

TestAndRemove(dirs, b) ==
  IF dirs[b] # Invalid /\ Inconsistent(dirs, b) THEN [dirs EXCEPT ![b] = Invalid] ELSE dirs

-----------------------------------------------------------------------------
(* smooth_direction_map, in place, and interpolate_direction_map, into a    *)
(* second map.                                                              *)

Smoothed(dirs, b) ==
  LET mean == Mean(dirs, b)
      enough == IF dirs[b] = Invalid THEN SmthValidNbrMin ELSE RmvValidNbrMin
  IN  IF b \notin LowContrast /\ enough <= mean.valid /\ mean.dir # Invalid
      THEN [dirs EXCEPT ![b] = mean.dir]
      ELSE dirs

Cardinals == {<<0, -1>>, <<1, 0>>, <<0, 1>>, <<-1, 0>>}
Far(b, o, k) == <<b[1] + k * o[1], b[2] + k * o[2]>>

\* find_valid_block: how far the first direction lies that way, with no block of
\* low contrast before it.
Distances(b, o) ==
  {k \in 1..(MapWidth + MapHeight) :
     /\ At(directions, Far(b, o, k)) # Invalid
     /\ \A j \in 1..k : Far(b, o, j) \notin LowContrast
     /\ \A j \in 1..(k - 1) : directions[Far(b, o, j)] = Invalid}

\* Weighted by how near they are, as numbers and not as angles, and rounded.
Between(b, found) ==
  LET Dist(o) == Min(Distances(b, o))
      all == MapThenSumSet(Dist, found)
      Weight(o) == all - Dist(o)
      sum == MapThenSumSet(LAMBDA o : directions[Far(b, o, Dist(o))] * Weight(o), found)
      weights == MapThenSumSet(Weight, found)
  IN  (2 * sum + weights) \div (2 * weights)

Interpolated(b) ==
  LET found == {o \in Cardinals : Distances(b, o) # {}}
  IN  IF b \notin LowContrast /\ directions[b] = Invalid /\ Cardinality(found) >= MinInterpolateNbrs
      THEN Between(b, found)
      ELSE directions[b]

-----------------------------------------------------------------------------
(* The rest of the maps: the closing of the low flow, the margin, and where *)
(* the flow turns.                                                          *)

Cross(b) == {Far(b, o, 1) : o \in Cardinals} \cap Blocks
Dilated(S) == {b \in Blocks : b \in S \/ Cross(b) \cap S # {}}
Eroded(S) == {b \in S : Cross(b) \subseteq S}
Closed(S) == Eroded(Eroded(Dilated(Dilated(S))))

Margin == {b \in Blocks : b[1] \in {0, MapWidth - 1} \/ b[2] \in {0, MapHeight - 1}}
OnlyRows(dirs) == [b \in Blocks |-> IF b[2] \in {0, MapHeight - 1} THEN Invalid ELSE dirs[b]]   \* mutant
Framed(dirs) == [b \in Blocks |-> IF b \in Margin THEN Invalid ELSE dirs[b]]

Turn(d, e) ==
  IF Invalid \in {d, e} \/ d = e THEN 0
  ELSE IF (e - d) % NumDirections > NumDirections \div 2 THEN -1 ELSE 1
Vorticity(dirs, b) == MapThenSumSet(LAMBDA i : Turn(Nbr(dirs, b, i), Nbr(dirs, b, (i % 8) + 1)), 1..8)

HighCurve(dirs) ==
  {b \in Blocks :
     IF dirs[b] = Invalid
     THEN Cardinality(ValidNbrs(dirs, b)) >= VortValidNbrMin /\ Vorticity(dirs, b) >= VorticityMin
     ELSE \E i \in ValidNbrs(dirs, b) : DirDistance(dirs[b], Nbr(dirs, b, i)) >= CurvatureMin}

-----------------------------------------------------------------------------
(* Pixels. The binarizer counts blocks from the left and the top; in the    *)
(* scan a last block that the edge cuts is moved in, over the one before.   *)

BlockOf(p) == <<p[1] \div BlockSize, p[2] \div BlockSize>>

Covers(i, v, size) == LET origin == Min({i * BlockSize, size - BlockSize}) IN v \in origin..(origin + BlockSize - 1)
PaintedBy(p) ==
  <<Max({i \in 0..(MapWidth - 1) : Covers(i, p[1], ImageWidth)}),
    Max({i \in 0..(MapHeight - 1) : Covers(i, p[2], ImageHeight)})>>

\* What is dark along a direction is a matter of the grey levels.
Binarized ==
  [p \in Pixels |-> LET d == directions[BlockOf(p)] IN IF d # Invalid /\ p \in Ink[input.ink][d] THEN 1 ELSE 0]

Hole(line, i) == line[i] # line[i - 1] /\ line[i - 1] = line[i + 1]

\* A pixel is filled in place, and the one after it passed over.
Filled(line) ==
  FoldLeft(LAMBDA acc, i : IF i < acc.next \/ ~Hole(acc.line, i) THEN acc
                           ELSE [line |-> [acc.line EXCEPT ![i] = acc.line[i - 1]], next |-> i + 2],
           [line |-> line, next |-> 2], Up(2, Len(line) - 1)).line

RowOf(img, y) == [i \in 1..ImageWidth |-> img[<<i - 1, y>>]]
ColumnOf(img, x) == [i \in 1..ImageHeight |-> img[<<x, i - 1>>]]
FilledRows(img) ==
  LET rows == FoldLeft(LAMBDA done, y : Append(done, Filled(RowOf(img, y))), <<>>, Up(0, ImageHeight - 1))
  IN  [p \in Pixels |-> rows[p[2] + 1][p[1] + 1]]
FilledColumns(img) ==
  LET columns == FoldLeft(LAMBDA done, x : Append(done, Filled(ColumnOf(img, x))), <<>>, Up(0, ImageWidth - 1))
  IN  [p \in Pixels |-> columns[p[1] + 1][p[2] + 1]]

-----------------------------------------------------------------------------
(* gen_image_maps and binarize_v2, stage by stage.                          *)

MapStages == <<"close", "remove", "smooth", "interpolate", "remove", "smooth", "finish", "binarize">>
FillStages == [n \in 1..(2 * NumFillHoles) |-> IF n % 2 = 1 THEN "rows" ELSE "columns"]
Stages == MapStages \o FillStages \o <<"done">>
In(name) == Stages[stage] = name

Init ==
  /\ input \in Inputs
  /\ directions = [b \in Blocks |-> IF input.kinds[b] \in Directions THEN input.kinds[b] ELSE Invalid]
  /\ lowFlow = {b \in Blocks : input.kinds[b] = NoFlow}
  /\ curved = {}
  /\ image = [p \in Pixels |-> 0]
  /\ stage = 1

Advance == stage' = stage + 1

\* The map after a rule for a block was applied along a path, in place.
Swept(Rule(_, _), path) ==
  LET after[n \in 0..Len(path)] == IF n = 0 THEN directions ELSE Rule(after[n - 1], path[n])
  IN  after[Len(path)]
Raster == [n \in 1..(MapWidth * MapHeight) |-> <<(n - 1) % MapWidth, (n - 1) \div MapWidth>>]

Close ==
  /\ In("close")
  /\ lowFlow' = Closed(lowFlow)
  /\ Advance
  /\ UNCHANGED <<input, directions, curved, image>>

\* A walk, repeated until it removes nothing.
RemoveDirections ==
  /\ In("remove")
  /\ directions' = Swept(TestAndRemove, Walk)
  /\ IF directions' = directions THEN Advance ELSE UNCHANGED stage
  /\ UNCHANGED <<input, lowFlow, curved, image>>

Smooth ==
  /\ In("smooth")
  /\ directions' = Swept(Smoothed, Raster)
  /\ Advance
  /\ UNCHANGED <<input, lowFlow, curved, image>>

Interpolate ==
  /\ In("interpolate")
  /\ directions' = [b \in Blocks |-> Interpolated(b)]
  /\ Advance
  /\ UNCHANGED <<input, lowFlow, curved, image>>

Finish ==
  /\ In("finish")
  /\ directions' = Framed(directions)
  /\ curved' = HighCurve(directions')
  /\ Advance
  /\ UNCHANGED <<input, lowFlow, image>>

Draw ==
  /\ \/ In("binarize") /\ image' = Binarized
     \/ In("rows") /\ image' = FilledRows(image)
     \/ In("columns") /\ image' = FilledColumns(image)
  /\ Advance
  /\ UNCHANGED <<input, directions, lowFlow, curved>>

Next == Close \/ RemoveDirections \/ Smooth \/ Interpolate \/ Finish \/ Draw

-----------------------------------------------------------------------------
\* When a removal ends, no direction is left that it would remove: its walk
\* meets every block, also after the removals that change its neighbours.
Settled == In("smooth") => \A b \in Blocks : directions[b] # Invalid => ~Inconsistent(directions, b)

\* Where the scan sees a direction, the pixel was binarized along that same
\* direction, though the two count the blocks differently at a cut edge.
ScannedAsBinarized == In("done") => \A p \in Pixels : directions[PaintedBy(p)] \in {Invalid, directions[BlockOf(p)]}
=============================================================================
