----------------------------- MODULE RidgeCounts -----------------------------
(* The last stage of minutiae detection: the list is put in its final order,*)
(* and each minutia gets its nearest neighbours and the number of ridges     *)
(* that lie between (ridges.rs).                                            *)
EXTENDS Minutiae

CONSTANTS MaxNbrs, MaxRidgeSteps

VARIABLE
  neighbours   \* for each minutia counted, its neighbours and the ridges between

-----------------------------------------------------------------------------
(* The order of the list. *)

MoreLeft(m, n) == Place(m)[1] * ImageWidth + Place(m)[2] < Place(n)[1] * ImageWidth + Place(n)[2]
\* Of coincident minutiae, which are adjacent by then, the last one stays.
Deduplicated(ms) == Without(ms, {i \in 1..(Len(ms) - 1) : Place(ms[i]) = Place(ms[i + 1])})

-----------------------------------------------------------------------------
(* Neighbours, among the minutiae further down the list. *)

Apart(ms, i, j) == SquaredDistance(Place(ms[i]), Place(ms[j]))

\* Behind those as near as it, and the farthest falls off a full list.
Inserted(ms, i, nbrs, j) ==
  LET Nearer(k) == Apart(ms, i, k) <= Apart(ms, i, j)
      Farther(k) == ~Nearer(k)
      all == SelectSeq(nbrs, Nearer) \o <<j>> \o SelectSeq(nbrs, Farther)
  IN  SubSeq(all, 1, Min({MaxNbrs, Len(all)}))

\* mutant: stops at the first one that is not nearer
StopsEarly(ms, i) ==
  FoldLeft(LAMBDA acc, j :
             LET room == Len(acc.nbrs) < MaxNbrs
             IN  IF acc.stopped \/ (~room /\ Apart(ms, i, j) >= Apart(ms, i, Last(acc.nbrs)))
                 THEN [acc EXCEPT !.stopped = TRUE]
                 ELSE [acc EXCEPT !.nbrs = Inserted(ms, i, acc.nbrs, j)],
           [nbrs |-> <<>>, stopped |-> FALSE], [n \in 1..(Len(ms) - i) |-> i + n]).nbrs
\* The search stops at the first column as far as the farthest neighbour.
FindNeighbors(ms, i) ==
  FoldLeft(LAMBDA acc, j :
             LET across == Place(ms[j])[1] - Place(ms[i])[1]
                 Beyond(distance) == Len(acc.nbrs) = MaxNbrs /\ distance >= Apart(ms, i, Last(acc.nbrs))
             IN  IF acc.stopped \/ Beyond(across * across) THEN [acc EXCEPT !.stopped = TRUE]
                 ELSE IF Beyond(Apart(ms, i, j)) THEN acc
                 ELSE [acc EXCEPT !.nbrs = Inserted(ms, i, acc.nbrs, j)],
           [nbrs |-> <<>>, stopped |-> FALSE], [n \in 1..(Len(ms) - i) |-> i + n]).nbrs

\* By their bearings, clockwise from north, where a coincident one is taken to lie.
SortNeighbors(ms, i, nbrs) ==
  LET East(j) == Place(ms[j])[1] - Place(ms[i])[1]
      North(j) == IF Place(ms[j]) = Place(ms[i]) THEN 1 ELSE Place(ms[i])[2] - Place(ms[j])[2]
      Half(j) == IF East(j) > 0 \/ (East(j) = 0 /\ North(j) > 0) THEN 1 ELSE 2
  IN  Arranged(nbrs, LAMBDA j, k : \/ Half(j) < Half(k)
                                   \/ Half(j) = Half(k) /\ East(j) * North(k) < East(k) * North(j))

-----------------------------------------------------------------------------
(* The ridges on the line between two minutiae. *)

\* One coordinate of a line of n steps that moves it by d: by one each, or by
\* fractions that are kept in units of 1/TruncScale and rounded.
TruncScale == 16384
Track(from, d, n) ==
  LET exact[k \in 0..n] == IF k = 0 THEN from * TruncScale ELSE (2 * (exact[k - 1] * n + TruncScale * d) + n) \div (2 * n)
      unit == IF d < 0 THEN -1 ELSE 1
  IN  [k \in 0..n |-> IF Absolute(d) = n THEN from + k * unit ELSE (2 * exact[k] + TruncScale) \div (2 * TruncScale)]
LinePoints(p, q) ==
  LET d == <<q[1] - p[1], q[2] - p[2]>>
      n == Max({Absolute(d[1]), Absolute(d[2])})
  IN  [k \in 1..(n + 1) |-> <<Track(p[1], d[1], n)[k - 1], Track(p[2], d[2], n)[k - 1]>>]

\* A diagonal pair is turned into one side by side, at an exposed corner by
\* moving the feature.
FixEdgePixelPair(img, p, e) ==
  LET dx == e[1] - p[1]
      dy == e[2] - p[2]
      Other(q) == img[q] # img[p]
  IN  IF Absolute(dx) # 1 \/ Absolute(dy) # 1 THEN [at |-> p, edge |-> e]
      ELSE IF Other(<<e[1] - dx, e[2]>>) THEN [at |-> p, edge |-> <<e[1] - dx, e[2]>>]
      ELSE IF Other(<<e[1], e[2] - dy>>) THEN [at |-> p, edge |-> <<e[1], e[2] - dy>>]
      ELSE [at |-> <<p[1], p[2] + dy>>, edge |-> e]

\* The border of the far valley does not lead back to the near one, either way.
ValidRidgeCrossing(img, pts, start, end) ==
  LET pair == FixEdgePixelPair(img, pts[end], pts[end - 1])
  IN  \A scan \in {Clockwise, CounterClockwise} :
        TraceContour(img, MaxRidgeSteps, pts[start - 1], pair, scan).end = "traced"

\* From the first change of colour on, each ridge that the line enters and leaves.
RidgeCount(img, p, q) ==
  LET pts == LinePoints(p, q)
      Colour(k) == img[pts[k]]
      changes == {k \in 2..Len(pts) : Colour(k) # Colour(1)}
      starts == {k \in (Min(changes) + 1)..Len(pts) : Colour(k - 1) = 0 /\ Colour(k) = 1}
      Ends(k) == {j \in (k + 1)..Len(pts) : Colour(j) = 0}
  IN  IF changes = {} THEN 0
      ELSE Cardinality({k \in starts : Ends(k) # {} /\ ValidRidgeCrossing(img, pts, k, Min(Ends(k)))})

-----------------------------------------------------------------------------

SortByColumn ==
  /\ stage = "done"
  /\ minutiae' = Deduplicated(Arranged(minutiae, MoreLeft))
  /\ stage' = "counting"
  /\ at' = <<1>>
  /\ UNCHANGED <<maps, image, flagged, neighbours>>

CountRidges(i) ==
  /\ stage = "counting" /\ at = <<i>> /\ i < Len(minutiae)
  /\ neighbours' = Append(neighbours,
       LET nbrs == SortNeighbors(minutiae, i, FindNeighbors(minutiae, i))
       IN  [n \in DOMAIN nbrs |->
              [nbr |-> nbrs[n], ridges |-> RidgeCount(image, Place(minutiae[i]), Place(minutiae[nbrs[n]]))]])
  /\ at' = <<i + 1>>
  /\ UNCHANGED <<maps, image, minutiae, stage, flagged>>

CountingEnds ==
  /\ stage = "counting" /\ at[1] >= Len(minutiae)
  /\ stage' = "finished"
  /\ UNCHANGED <<maps, image, minutiae, at, flagged, neighbours>>

RidgesNext == SortByColumn \/ (\E i \in DOMAIN minutiae : CountRidges(i)) \/ CountingEnds

-----------------------------------------------------------------------------
\* The list goes by columns: the key x*iw + y has x first only while y does not
\* reach the width, though ridges.rs:35 and :159 do not say so.
ByColumns == ImageHeight <= ImageWidth

\* Of an image that is not taller than wide no two minutiae are left in one
\* place, and the neighbours of each are the nearest of all that come after it,
\* although the search looks at columns only as far as the worst neighbour so
\* far. Of a taller image they need not be: the search may stop too early
\* (ridges.rs:168). There are as many neighbours as there is room for, always.
NeighboursNearest ==
  /\ stage \in {"counting", "finished"} /\ ByColumns =>
       \A i, j \in DOMAIN minutiae : Place(minutiae[i]) = Place(minutiae[j]) => i = j
  /\ \A i \in DOMAIN neighbours :
       LET later == (i + 1)..Len(minutiae)
           nbrs == {neighbours[i][n].nbr : n \in DOMAIN neighbours[i]}
       IN  /\ nbrs \subseteq later
           /\ Cardinality(nbrs) = Min({MaxNbrs, Cardinality(later)})
           /\ ByColumns => \A j \in nbrs, k \in later \ nbrs : Apart(minutiae, i, j) <= Apart(minutiae, i, k)
=============================================================================
