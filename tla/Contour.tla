------------------------------ MODULE Contour -------------------------------
(* Walking the border of a feature of a binary image, and erasing a loop.  *)
(* An image is a function from pixels <<x, y>> to 0 (valley) or 1 (ridge), *)
(* y growing downwards. A *pair* is a pixel of the feature with a pixel of *)
(* the other colour beside it; a contour is a sequence of pairs.           *)
EXTENDS Integers, Sequences, FiniteSetsExt, SequencesExt

-----------------------------------------------------------------------------
(* The walk. *)

\* The neighbours of a pixel are numbered clockwise from north, as NBR8_DX
\* and NBR8_DY have them.
Compass == <<<<0, -1>>, <<1, -1>>, <<1, 0>>, <<1, 1>>, <<0, 1>>, <<-1, 1>>, <<-1, 0>>, <<-1, -1>>>>
Nbr(p, n) == <<p[1] + Compass[n + 1][1], p[2] + Compass[n + 1][2]>>

\* The directions of a scan, as what they add to a neighbour's number.
Clockwise == 1
CounterClockwise == 7

\* Where the edge lies; it is north, east, south or west of the feature.
StartNbr(pair) == CHOOSE n \in {0, 2, 4, 6} : Nbr(pair.at, n) = pair.edge

\* The neighbours in the order of a scan, from the edge on; every other one is a
\* corner.
Around(pair, scan) == [k \in 0..10 |-> Nbr(pair.at, (StartNbr(pair) + k * scan) % 8)]
Corner(k) == k % 2 = 1

\* One of the feature's colour follows one of the edge's, and is no exposed corner;
\* or the scan looks at a pixel outside the image.
Changes(img, pair, around, k) == img[around[k]] = img[pair.edge] /\ img[around[k + 1]] = img[pair.at]
Follows(img, pair, around, k) ==
  Changes(img, pair, around, k) /\ (Corner(k + 1) => img[around[k + 2]] = img[pair.at])
Leaves(img, pair, around, k) ==
  \/ around[k + 1] \notin DOMAIN img
  \/ Corner(k + 1) /\ Changes(img, pair, around, k) /\ around[k + 2] \notin DOMAIN img
Final(img, pair, around, k) == k = 8 \/ Leaves(img, pair, around, k) \/ Follows(img, pair, around, k)

\* The next pair, as a sequence of at most one: the scan ends at the first that
\* follows, if it does not leave the image before.
PairFrom(img, pair, around) ==
  LET last == CHOOSE k \in 0..8 : (\A j \in 0..(k - 1) : ~Final(img, pair, around, j)) /\ Final(img, pair, around, k)
  IN  IF last = 8 \/ Leaves(img, pair, around, last) THEN <<>> ELSE <<[at |-> around[last + 1], edge |-> around[last]]>>
NextPair(img, pair, scan) == PairFrom(img, pair, Around(pair, scan))

\* Up to `length` pairs after the first, which is where the walk started and is
\* not of it, or until it comes to the trigger.
Extended(walk, next, trigger) ==
  CASE next = <<>> -> [walk EXCEPT !.end = "traced"]
    [] next # <<>> /\ next[1].at = trigger -> [walk EXCEPT !.end = "loop"]
    [] OTHER -> [walk EXCEPT !.pairs = @ \o next]
OnceMore(img, scan, trigger, walk) ==
  IF walk.end = "on" THEN Extended(walk, NextPair(img, Last(walk.pairs), scan), trigger) ELSE walk
Walk(img, scan, trigger, pair, length) ==
  LET walked[k \in 0..length] ==
        IF k = 0 THEN [end |-> "on", pairs |-> <<pair>>] ELSE OnceMore(img, scan, trigger, walked[k - 1])
      walk == walked[length]
  IN  [end |-> IF walk.end = "on" THEN "traced" ELSE walk.end, pairs |-> Tail(walk.pairs)]

TraceContour(img, length, trigger, pair, scan) ==
  IF img[pair.at] = img[pair.edge] THEN [end |-> "ignore", pairs |-> <<>>]
  ELSE Walk(img, scan, trigger, pair, length)

SearchContour(img, target, length, pair, scan) ==
  Walk(img, scan, target, pair, length).end = "loop"

OnLoop(img, length, pair) == TraceContour(img, length, pair.at, pair, Clockwise).end

\* A trace that neither loops nor stops short.
Complete(trace, length) == trace.end = "traced" /\ Len(trace.pairs) = length

FirstHalf(img, half, pair) == TraceContour(img, half, pair.at, pair, Clockwise)
SecondHalf(img, half, pair, first) ==
  TraceContour(img, half, Last(first.pairs).at, pair, CounterClockwise)
Joined(first, pair, second) == Reverse(first.pairs) \o <<pair>> \o second.pairs

\* Empty for a loop, an impossible trace and a short half, which the caller
\* treats alike.
CenteredContour(img, half, pair) ==
  LET first == FirstHalf(img, half, pair)
      second == SecondHalf(img, half, pair, first)
  IN  IF Complete(first, half) /\ Complete(second, half) THEN Joined(first, pair, second) ELSE <<>>

\* From the first half traced, and then the second.
SecondTraced(first, pair, second, half) ==
  IF second.end = "loop" THEN [end |-> "loop", pairs |-> Joined(first, pair, second)]
  ELSE IF Complete(second, half) THEN [end |-> "whole", pairs |-> Joined(first, pair, second)]
  ELSE [end |-> "empty", pairs |-> <<>>]
FirstTraced(img, first, pair, half) ==
  IF first.end = "loop" THEN [end |-> "loop", pairs |-> <<pair>> \o Reverse(first.pairs)]
  ELSE IF ~Complete(first, half) THEN [end |-> "empty", pairs |-> <<>>]
  ELSE SecondTraced(first, pair, SecondHalf(img, half, pair, first), half)
HighCurvatureContour(img, half, pair) == FirstTraced(img, FirstHalf(img, half, pair), pair, half)

-----------------------------------------------------------------------------
(* The winding and the shape of a loop. *)

After(c, i) == (i % Len(c)) + 1

\* The step from a point of a loop to the next as one of eight codes,
\* counter-clockwise from east; no other step has a code.
ChainCode(c, i) ==
  LET step == <<c[After(c, i)].at[1] - c[i].at[1], c[After(c, i)].at[2] - c[i].at[2]>>
      codes == <<<<1, 0>>, <<1, -1>>, <<0, -1>>, <<-1, -1>>, <<-1, 0>>, <<-1, 1>>, <<0, 1>>, <<1, 1>>>>
  IN  (CHOOSE k \in 1..8 : codes[k] = step) - 1

Inner(d) == IF d >= 4 THEN d - 8 ELSE IF d <= -4 THEN d + 8 ELSE d
Turning(c) ==
  FoldLeft(LAMBDA sum, i : sum + Inner(ChainCode(c, After(c, i)) - ChainCode(c, i)),
           0, [i \in DOMAIN c |-> i])

\* Three points make no loop; they, and a loop whose turns cancel, count as
\* clockwise (the default its only caller passes).
LoopClockwise(c) == Len(c) <= 3 \/ Turning(c) <= 0

SquaredDistance(p, q) == (p[1] - q[1]) * (p[1] - q[1]) + (p[2] - q[2]) * (p[2] - q[2])
Halfway(p, q) == <<(p[1] + q[1]) \div 2, (p[2] + q[2]) \div 2>>

\* Opposite points of a loop; an odd one is walked all around.
Opposite(c, i) == ((i - 1 + Len(c) \div 2) % Len(c)) + 1
Span(c, i) == SquaredDistance(c[i].at, c[Opposite(c, i)].at)
SpanStarts(c) == 1..(IF Len(c) % 2 = 1 THEN Len(c) ELSE Len(c) \div 2)
Widest(c) == CHOOSE i \in SpanStarts(c) :
               \A j \in SpanStarts(c) : Span(c, j) < Span(c, i) \/ (Span(c, j) = Span(c, i) /\ i <= j)
Narrowest(c) == CHOOSE i \in SpanStarts(c) : \A j \in SpanStarts(c) : Span(c, i) <= Span(c, j)

-----------------------------------------------------------------------------
(* Erasing a loop. *)

\* A row from contour point to contour point, x being the last pixel looked at:
\* a pixel of the other colour is taken for a concavity and passed over.
FillRow(img, colour, y, xs) ==
  LET Painted(i, from, to) == [p \in DOMAIN i |-> IF p[2] = y /\ p[1] \in from..to THEN colour ELSE i[p]]
      FillTo(acc, to) ==
        IF acc.img[<<acc.x + 1, y>>] = colour
        THEN [img |-> Painted(acc.img, to, to), x |-> to]
        ELSE [img |-> Painted(acc.img, acc.x + 1, to), x |-> acc.x + 1]
  IN  FoldLeft(FillTo, [img |-> Painted(img, xs[1], xs[1]), x |-> xs[1]], Tail(xs)).img

\* The contour's points on a row, each once, from left to right.
ShapeRow(c, y) == SetToSortSeq({p.at[1] : p \in {q \in ToSet(c) : q.at[2] = y}}, <)

FillLoop(img, c) ==
  LET colour == 1 - img[c[1].at]
      filled == [y \in {p.at[2] : p \in ToSet(c)} |-> FillRow(img, colour, y, ShapeRow(c, y))]
  IN  [p \in DOMAIN img |-> IF p[2] \in DOMAIN filled THEN filled[p[2]][p] ELSE img[p]]

\* Two halves, each traced clockwise from one point until it comes to the other.
IslandLake(img, half, p, q) ==
  LET there == TraceContour(img, half, q.at, p, Clockwise)
      back == TraceContour(img, half, p.at, q, Clockwise)
  IN  IF there.end # "loop" THEN there
      ELSE IF back.end # "loop" THEN back
      ELSE [end |-> "loop", pairs |-> <<p>> \o there.pairs \o <<q>> \o back.pairs]

\* Traced from the edge of p, the pair turned round, to the point of q, either way.
OnHook(img, length, p, q) ==
  LET Toward(scan) == TraceContour(img, length, q.at, [at |-> p.edge, edge |-> p.at], scan).end
  IN  IF Toward(Clockwise) # "traced" THEN Toward(Clockwise) ELSE Toward(CounterClockwise)
=============================================================================
