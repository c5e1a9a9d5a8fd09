-------------------------- MODULE DetectionProofs --------------------------
(***************************************************************************)
(* What holds of the detection for an image, blocks and a map of any size, *)
(* any limits and any measurements of the blocks.                          *)
(*                                                                         *)
(* MapInv is the invariant of the block map: one entry for each block      *)
(* while it is swept, nothing left to remove when it is smoothed, and no   *)
(* direction in the outermost blocks once these are cleared.  It rests on  *)
(* the walk in squares about the centre, which meets every block           *)
(* (WalkCovers).                                                           *)
(*                                                                         *)
(* ListInv says of the list that each minutia has a place in the plane, of *)
(* the image that it keeps its pixels, and of each stage where its index   *)
(* can be.  EdgesInv adds what the side stage leaves behind it: the index  *)
(* is needed in the invariant, because before it anything may stand.  That *)
(* every step keeps both and advances is shown together (Kept), since a    *)
(* stage advances only from where Cursor says it can stand.                *)
(***************************************************************************)
EXTENDS Detection, SequenceTheorems, FiniteSetTheorems, WellFoundedInduction, TLAPS

-----------------------------------------------------------------------------
(* The stages of the maps.                                                  *)

MapLength == 9 + 2 * NumFillHoles

LEMMA FunctionIsSeq ==
  ASSUME NEW S, NEW n \in Nat, NEW f \in [1..n -> S]
  PROVE  f \in Seq(S) /\ Len(f) = n
<1>1. f \in Seq(S)
  BY SeqDef
<1>2. 1..Len(f) = 1..n /\ Len(f) \in Nat
  BY <1>1, LenProperties
<1>3. Len(f) = n
  <2>1. n # 0 => n \in 1..Len(f)
    BY <1>2
  <2>2. Len(f) # 0 => Len(f) \in 1..n
    BY <1>2
  <2> QED BY <1>2, <2>1, <2>2
<1> QED BY <1>1, <1>3

Names == {"close", "remove", "smooth", "interpolate", "finish", "binarize", "rows", "columns", "done"}
LEMMA StageNames ==
  /\ MapLength \in Nat /\ MapLength > 8
  /\ \A n \in 1..8 : Maps!Stages[n] = Maps!MapStages[n]
  /\ \A n \in 9..(MapLength - 1) : Maps!Stages[n] \in {"rows", "columns"}
  /\ Maps!Stages[MapLength] = "done"
<1> DEFINE s == Maps!MapStages  t == Maps!FillStages  n == 2 * NumFillHoles
<1>1. NumFillHoles \in Nat /\ n \in Nat
  BY DetectionAssumption
<1>2. t \in [1..n -> Names] /\ \A k \in 1..n : t[k] \in {"rows", "columns"}
  BY DEF Maps!FillStages, Names
<1>3. s \in Seq(Names) /\ Len(s) = 8
  BY DEF Maps!MapStages, Names
<1>4. t \in Seq(Names) /\ Len(t) = n
  BY <1>1, <1>2, FunctionIsSeq
<1>5. Maps!Stages = (s \o t) \o <<"done">> /\ MapLength = 9 + n
  BY DEF Maps!Stages, MapLength
<1> HIDE DEF s, t, n
<1> DEFINE u == s \o t
<1>6. /\ u \in Seq(Names) /\ Len(u) = 8 + n
      /\ \A k \in 1..(8 + n) : u[k] = IF k <= 8 THEN s[k] ELSE t[k - 8]
  <2>1. u \in Seq(Names) /\ Len(u) = Len(s) + Len(t)
    BY <1>3, <1>4, ConcatProperties
  <2>2. \A k \in 1..(Len(s) + Len(t)) : u[k] = IF k <= Len(s) THEN s[k] ELSE t[k - Len(s)]
    BY <1>3, <1>4, ConcatProperties
  <2> QED BY <1>3, <1>4, <2>1, <2>2
<1> HIDE DEF u
<1>7. <<"done">> \in Seq(Names) /\ Len(<<"done">>) = 1 /\ <<"done">>[1] = "done"
  BY DEF Names
<1>8. \A k \in 1..(9 + n) : (u \o <<"done">>)[k] = IF k <= 8 + n THEN u[k] ELSE <<"done">>[k - (8 + n)]
  <2> DEFINE e == <<"done">>
  <2> HIDE DEF e
  <2>1. e \in Seq(Names) /\ Len(e) = 1
    BY <1>7 DEF e
  <2>2. \A k \in 1..(Len(u) + Len(e)) : (u \o e)[k] = IF k <= Len(u) THEN u[k] ELSE e[k - Len(u)]
    BY <1>6, <2>1, ConcatProperties
  <2> QED BY <1>1, <1>6, <2>1, <2>2 DEF e
<1>9. \A k \in 1..(9 + n) : Maps!Stages[k] = IF k <= 8 THEN s[k] ELSE IF k <= 8 + n THEN t[k - 8] ELSE "done"
  <2> TAKE k \in 1..(9 + n)
  <2>1. CASE k <= 8
    BY <1>1, <1>5, <1>6, <1>8, <2>1 DEF u
  <2>2. CASE k > 8 /\ k <= 8 + n
    BY <1>1, <1>5, <1>6, <1>8, <2>2 DEF u
  <2>3. CASE k = 9 + n
    <3>1. k - (8 + n) = 1 /\ ~(k <= 8 + n) /\ ~(k <= 8)
      BY <1>1, <2>3
    <3> QED BY <1>5, <1>7, <1>8, <3>1 DEF u
  <2> QED BY <1>1, <2>1, <2>2, <2>3
<1>10. MapLength \in Nat /\ MapLength > 8 /\ Maps!Stages[MapLength] = "done"
  <2>1. 9 + n \in 1..(9 + n) /\ ~(9 + n <= 8) /\ ~(9 + n <= 8 + n) /\ 9 + n \in Nat /\ 9 + n > 8
    BY <1>1
  <2> QED BY <1>5, <1>9, <2>1
<1>11. \A k \in 1..8 : Maps!Stages[k] = Maps!MapStages[k]
  BY <1>1, <1>9 DEF s
<1>12. ASSUME NEW k \in 9..(MapLength - 1)
       PROVE  Maps!Stages[k] \in {"rows", "columns"}
  <2>1. k \in 1..(9 + n) /\ ~(k <= 8) /\ k <= 8 + n /\ k - 8 \in 1..n
    BY <1>1, <1>5
  <2> QED BY <1>2, <1>9, <2>1
<1> QED BY <1>10, <1>11, <1>12

-----------------------------------------------------------------------------
(* The blocks of the pixels.                                                *)

\* A block further on begins after this one ends.
LEMMA BlocksApart ==
  ASSUME NEW j \in Nat, NEW k \in Nat, j < k
  PROVE  j * BlockSize + BlockSize <= k * BlockSize
<1>1. PICK d \in Nat : k = j + 1 + d
  <2>1. k - (j + 1) \in Nat
    OBVIOUS
  <2> QED BY <2>1
<1>2. BlockSize \in Nat \ {0}
  BY DetectionAssumption
<1>3. k * BlockSize = j * BlockSize + BlockSize + d * BlockSize /\ d * BlockSize \in Nat
  BY <1>1, <1>2
<1> QED BY <1>2, <1>3

\* Along one side of the image: the block that paints a pixel is the one it was
\* binarized by, or the last one.
LEMMA PaintedOrLast ==
  ASSUME NEW blocks \in Nat \ {0}, NEW size \in Nat, NEW v \in 0..(size - 1),
         BlockSize * (blocks - 1) < size, size <= BlockSize * blocks
  PROVE  Maps!Max({i \in 0..(blocks - 1) : Maps!Covers(i, v, size)}) \in {v \div BlockSize, blocks - 1} \cap (0..(blocks - 1))
<1> DEFINE n == blocks - 1
           S == {i \in 0..n : Maps!Covers(i, v, size)}
           q == v \div BlockSize
<1>1. BlockSize \in Nat \ {0} /\ n \in Nat /\ v \in Nat /\ v < size
  BY DetectionAssumption
<1>2. q \in Nat /\ q * BlockSize <= v /\ v < q * BlockSize + BlockSize
  BY <1>1
<1>3. BlockSize * n < size /\ size <= n * BlockSize + BlockSize /\ n * BlockSize \in Nat
  BY <1>1
<1>4. \A i \in 0..n : i \in Nat /\ i * BlockSize \in Nat
  BY <1>1
<1>5. \A i \in 0..n : i # n => i * BlockSize + BlockSize <= n * BlockSize
  BY <1>1, BlocksApart
<1>6. \A a, b \in Int : Maps!Min({a, b}) = IF a <= b THEN a ELSE b
  BY DEF Maps!Min
<1>7. \A i \in 0..n : i \in S <=> LET o == IF i * BlockSize <= size - BlockSize THEN i * BlockSize ELSE size - BlockSize
                                  IN  o <= v /\ v <= o + BlockSize - 1
  <2> TAKE i \in 0..n
  <2>1. size - BlockSize \in Int /\ i * BlockSize \in Int
    BY <1>1, <1>4
  <2>2. Maps!Min({i * BlockSize, size - BlockSize}) = IF i * BlockSize <= size - BlockSize THEN i * BlockSize ELSE size - BlockSize
    BY <1>6, <2>1
  <2> QED BY <1>1, <2>1, <2>2 DEF Maps!Covers
<1> HIDE DEF S, q
<1>8. CASE v >= size - BlockSize
  <2>1. n \in S
    BY <1>1, <1>3, <1>4, <1>7, <1>8
  <2>2. \A i \in S : i <= n
    BY DEF S
  <2>3. Maps!Max(S) \in S /\ n <= Maps!Max(S)
    <3>1. \E x \in S : \A y \in S : x >= y
      BY <1>1, <2>1, <2>2 DEF S
    <3>2. Maps!Max(S) \in S /\ \A y \in S : Maps!Max(S) >= y
      BY <3>1 DEF Maps!Max
    <3> QED BY <1>1, <2>1, <3>2 DEF S
  <2>4. Maps!Max(S) = n
    <3> DEFINE x == Maps!Max(S)
    <3>1. x \in Int /\ n <= x /\ x <= n
      BY <2>2, <2>3 DEF S
    <3> HIDE DEF x
    <3>2. x = n
      BY <1>1, <3>1
    <3> QED BY <3>2 DEF x
  <2> QED BY <1>1, <2>4 DEF S
<1>9. CASE v < size - BlockSize
  <2>1. q < n
    <3>1. q * BlockSize < n * BlockSize
      BY <1>1, <1>2, <1>3, <1>9
    <3> QED BY <1>1, <1>2, <1>4, <3>1, BlocksApart
  <2>2. q \in S
    BY <1>1, <1>2, <1>3, <1>4, <1>7, <1>9, <2>1
  <2>3. ASSUME NEW i \in S
        PROVE  i = q
    <3>1. i \in 0..n /\ i * BlockSize <= v /\ v < i * BlockSize + BlockSize
      BY <1>1, <1>4, <1>7, <1>9 DEF S
    <3>2. ~(i < q)
      BY <1>2, <3>1, <1>4, <1>1, BlocksApart
    <3>3. ~(q < i)
      BY <1>2, <3>1, <1>4, <1>1, BlocksApart
    <3> QED BY <1>2, <3>1, <3>2, <3>3
  <2>4. Maps!Max(S) = q
    <3>1. \E x \in S : \A y \in S : x >= y
      BY <1>2, <2>2, <2>3
    <3>2. Maps!Max(S) \in S
      BY <3>1 DEF Maps!Max
    <3> QED BY <2>3, <3>2
  <2> QED BY <1>1, <1>2, <2>1, <2>4 DEF S, q
<1> QED BY <1>1, <1>8, <1>9

\* Over the whole image: it is the one it was binarized by, or lies in the margin.
LEMMA PaintedInMargin ==
  ASSUME NEW p \in Maps!Pixels
  PROVE  /\ Maps!PaintedBy(p) = Maps!BlockOf(p) \/ Maps!PaintedBy(p) \in Maps!Margin
<1>1. p[1] \in 0..(ImageWidth - 1) /\ p[2] \in 0..(ImageHeight - 1)
  BY DEF Maps!Pixels
<1>2. MapWidth \in Nat \ {0} /\ MapHeight \in Nat \ {0} /\ ImageWidth \in Nat /\ ImageHeight \in Nat /\ BlockSize \in Nat \ {0}
  BY DetectionAssumption
<1> DEFINE x == Maps!Max({i \in 0..(MapWidth - 1) : Maps!Covers(i, p[1], ImageWidth)})
           y == Maps!Max({i \in 0..(MapHeight - 1) : Maps!Covers(i, p[2], ImageHeight)})
<1>3. x \in {p[1] \div BlockSize, MapWidth - 1} \cap (0..(MapWidth - 1))
  BY <1>1, <1>2, PaintedOrLast, DetectionAssumption
<1>4. y \in {p[2] \div BlockSize, MapHeight - 1} \cap (0..(MapHeight - 1))
  BY <1>1, <1>2, PaintedOrLast, DetectionAssumption
<1>5. Maps!PaintedBy(p) = <<x, y>>
  BY DEF Maps!PaintedBy
<1>6. x \in 0..(MapWidth - 1) /\ y \in 0..(MapHeight - 1)
  BY <1>3, <1>4
<1> HIDE DEF x, y
<1>7. CASE x = MapWidth - 1 \/ y = MapHeight - 1
  BY <1>2, <1>5, <1>6, <1>7 DEF Maps!Margin, Maps!Blocks
<1>8. CASE x = p[1] \div BlockSize /\ y = p[2] \div BlockSize
  BY <1>5, <1>8 DEF Maps!BlockOf
<1> QED BY <1>3, <1>4, <1>7, <1>8

-----------------------------------------------------------------------------
(* The maps, while they are made.                                           *)

\* Where the stages of the maps lie.
LEMMA WhereStages ==
  ASSUME mapStage \in 1..MapLength
  PROVE  /\ Maps!In("close") => mapStage = 1
         /\ Maps!In("remove") <=> mapStage \in {2, 5}
         /\ Maps!In("smooth") <=> mapStage \in {3, 6}
         /\ Maps!In("interpolate") => mapStage = 4
         /\ Maps!In("finish") => mapStage = 7
         /\ Maps!In("binarize") => mapStage = 8
         /\ Maps!In("rows") \/ Maps!In("columns") => mapStage \in 9..(MapLength - 1)
         /\ Maps!In("done") => mapStage = MapLength
<1>1. MapLength \in Nat /\ MapLength > 8
  BY StageNames
<1>2. \A n \in 1..8 : Maps!Stages[n] = Maps!MapStages[n]
  BY StageNames
<1>3. /\ Maps!Stages[1] = "close" /\ Maps!Stages[2] = "remove" /\ Maps!Stages[3] = "smooth"
      /\ Maps!Stages[4] = "interpolate" /\ Maps!Stages[5] = "remove" /\ Maps!Stages[6] = "smooth"
      /\ Maps!Stages[7] = "finish" /\ Maps!Stages[8] = "binarize"
  BY <1>2 DEF Maps!MapStages
<1>4. /\ \A n \in 9..(MapLength - 1) : Maps!Stages[n] \in {"rows", "columns"}
      /\ Maps!Stages[MapLength] = "done"
  BY StageNames
<1>5. mapStage \in 1..8 \/ mapStage \in 9..(MapLength - 1) \/ mapStage = MapLength
  BY <1>1
<1>6. mapStage \in 1..8 => mapStage \in {1, 2, 3, 4, 5, 6, 7, 8}
  OBVIOUS
<1>7. CASE mapStage \in 1..8
  BY <1>3, <1>6, <1>7 DEF Maps!In
<1>8. CASE mapStage \in 9..(MapLength - 1)
  <2>1. mapStage \notin {2, 3, 5, 6}
    BY <1>8
  <2> QED BY <1>4, <1>8, <2>1 DEF Maps!In
<1>9. CASE mapStage = MapLength
  <2>1. mapStage \notin {2, 3, 5, 6}
    BY <1>1, <1>9
  <2> QED BY <1>4, <1>9, <2>1 DEF Maps!In
<1> QED BY <1>5, <1>7, <1>8, <1>9

\* No stage of the list touches the maps.
LEMMA ListLeavesMaps ==
  ASSUME MinutiaeNext \/ RidgesNext
  PROVE  UNCHANGED maps
<1>1. Detect => UNCHANGED maps
  BY DEF Detect, ScanHorizontally, ScanVertically, Scan
<1>2. SortMinutiae => UNCHANGED maps
  BY DEF SortMinutiae
<1>3. ASSUME NEW i \in DOMAIN minutiae, RemoveSingle(i)
      PROVE  UNCHANGED maps
  <2>1. CASE RemoveHoles(i)
    BY <2>1 DEF RemoveHoles, Judge
  <2>2. CASE RemovePointingInvblock(i)
    BY <2>2 DEF RemovePointingInvblock, Judge
  <2>3. CASE RemoveNearInvblock(i)
    BY <2>3 DEF RemoveNearInvblock, Judge
  <2>4. CASE RemoveOrAdjustSide(i)
    BY <2>4 DEF RemoveOrAdjustSide, Judge, AdjustSide
  <2>5. CASE RemoveMalformations(i)
    BY <2>5 DEF RemoveMalformations, Judge
  <2>6. CASE RemovePores(i)
    BY <2>6 DEF RemovePores, Judge
  <2> QED BY <1>3, <2>1, <2>2, <2>3, <2>4, <2>5, <2>6 DEF RemoveSingle
<1>4. ASSUME NEW f \in DOMAIN minutiae, NEW s \in DOMAIN minutiae, RemovePair(f, s)
      PROVE  UNCHANGED maps
  <2>1. ASSUME NEW v, Settle(f, s, v)
        PROVE  UNCHANGED maps
    <3>1. UNCHANGED <<maps, minutiae, stage>>
      BY <2>1, Zenon DEF Settle
    <3> QED BY <3>1
  <2>2. CASE RemoveIslandsAndLakes(f, s)
    BY <2>1, <2>2 DEF RemoveIslandsAndLakes
  <2>3. CASE RemoveHooks(f, s)
    BY <2>1, <2>3 DEF RemoveHooks
  <2>4. CASE RemoveOverlaps(f, s)
    BY <2>1, <2>4 DEF RemoveOverlaps
  <2> QED BY <1>4, <2>2, <2>3, <2>4 DEF RemovePair
<1>5. SingleStageEnds \/ PairStageMoves \/ PairStageEnds => UNCHANGED maps
  BY DEF SingleStageEnds, PairStageMoves, PairStageEnds
<1>6. RidgesNext => UNCHANGED maps
  BY DEF RidgesNext, SortByColumn, CountRidges, CountingEnds
<1> QED BY <1>1, <1>2, <1>3, <1>4, <1>5, <1>6 DEF MinutiaeNext

-----------------------------------------------------------------------------
(* The walk over the blocks.                                                *)

\* A set of numbers has a least one.
LEMMA LeastNumber ==
  ASSUME NEW T \in SUBSET Nat, T # {}
  PROVE  \E i \in T : \A y \in T : i <= y
<1> DEFINE U == {0..i : i \in T}
<1>1. U # {} /\ U \subseteq FiniteSubsetsOf(Nat)
  <2>1. \A i \in T : 0..i \in SUBSET Nat /\ IsFiniteSet(0..i)
    BY FS_Interval
  <2> QED BY <2>1 DEF FiniteSubsetsOf
<1>2. PICK X \in U : \A Y \in U : <<Y, X>> \notin StrictSubsetOrdering(Nat)
  BY <1>1, WFMin, FS_StrictSubsetOrderingWellFounded
<1>3. PICK i \in T : X = 0..i
  OBVIOUS
<1>4. ASSUME NEW y \in T, y < i
      PROVE  FALSE
  <2>1. 0..y \subseteq 0..i /\ i \notin 0..y /\ i \in 0..i
    BY <1>4
  <2>2. <<0..y, X>> \in StrictSubsetOrdering(Nat)
    BY <1>3, <2>1 DEF StrictSubsetOrdering
  <2> QED BY <1>2, <2>2
<1>5. \A y \in T : i <= y
  BY <1>4
<1> QED BY <1>5

Appears(x, s) == \E n \in 1..Len(s) : s[n] = x

LEMMA AppearsInBoth ==
  ASSUME NEW S, NEW s \in Seq(S), NEW t \in Seq(S), NEW x, Appears(x, s) \/ Appears(x, t)
  PROVE  Appears(x, s \o t)
<1>1. /\ Len(s) \in Nat /\ Len(t) \in Nat /\ Len(s \o t) = Len(s) + Len(t)
      /\ \A k \in 1..(Len(s) + Len(t)) : (s \o t)[k] = IF k <= Len(s) THEN s[k] ELSE t[k - Len(s)]
  BY ConcatProperties, LenProperties
<1> DEFINE u == s \o t  m == Len(s)  n == Len(t)
<1> HIDE DEF u, m, n
<1>2. ASSUME NEW k \in 1..m, s[k] = x
      PROVE  Appears(x, u)
  <2>1. k \in 1..Len(u) /\ k <= m /\ k \in 1..(m + n)
    BY <1>1 DEF u, m, n
  <2> QED BY <1>1, <1>2, <2>1 DEF Appears, u, m, n
<1>3. ASSUME NEW k \in 1..n, t[k] = x
      PROVE  Appears(x, u)
  <2>1. m + k \in 1..Len(u) /\ m + k \in 1..(m + n) /\ ~(m + k <= m) /\ (m + k) - m = k
    BY <1>1 DEF u, m, n
  <2>2. u[m + k] = t[k]
    BY <1>1, <2>1 DEF u, m, n
  <2> QED BY <1>3, <2>1, <2>2 DEF Appears
<1> QED BY <1>2, <1>3 DEF Appears, u, m, n

LEMMA AppearsReversed ==
  ASSUME NEW S, NEW s \in Seq(S)
  PROVE  Maps!Reverse(s) \in Seq(S) /\ \A x : Appears(x, s) => Appears(x, Maps!Reverse(s))
<1> DEFINE n == Len(s)  r == [i \in 1..n |-> s[(n - i) + 1]]
<1>1. n \in Nat /\ \A i \in 1..n : s[i] \in S
  BY LenProperties, ElementOfSeq
<1>2. Maps!Reverse(s) = r
  BY DEF Maps!Reverse
<1> HIDE DEF n
<1>3. \A i \in 1..n : (n - i) + 1 \in 1..n /\ (n - ((n - i) + 1)) + 1 = i
  BY <1>1
<1>4. r \in Seq(S) /\ Len(r) = n
  <2>1. r \in [1..n -> S]
    BY <1>1, <1>3
  <2> HIDE DEF r
  <2> QED BY <1>1, <2>1, FunctionIsSeq
<1>5. ASSUME NEW i \in 1..n
      PROVE  r[(n - i) + 1] = s[i]
  BY <1>3
<1> HIDE DEF r
<1>6. \A x : Appears(x, s) => Appears(x, r)
  BY <1>3, <1>4, <1>5 DEF Appears, n
<1> QED BY <1>2, <1>4, <1>6

LEMMA AppearsUp ==
  ASSUME NEW from \in Int, NEW to \in Int
  PROVE  Maps!Up(from, to) \in Seq(Int) /\ \A v \in from..to : Appears(v, Maps!Up(from, to))
<1> DEFINE n == IF to - from + 1 >= 0 THEN to - from + 1 ELSE 0
           u == [i \in 1..n |-> from + i - 1]
<1>1. n \in Nat /\ 1..(to - from + 1) = 1..n
  OBVIOUS
<1>2. Maps!Up(from, to) = u
  BY <1>1 DEF Maps!Up
<1>3. u \in Seq(Int) /\ Len(u) = n
  <2>1. u \in [1..n -> Int]
    BY <1>1
  <2> HIDE DEF u, n
  <2> QED BY <1>1, <2>1, FunctionIsSeq
<1>4. ASSUME NEW v \in from..to
      PROVE  Appears(v, u)
  <2>1. v - from + 1 \in 1..n /\ from + (v - from + 1) - 1 = v
    OBVIOUS
  <2>2. u[v - from + 1] = v
    BY <2>1
  <2> HIDE DEF u, n
  <2> QED BY <1>3, <2>1, <2>2 DEF Appears
<1> HIDE DEF u
<1> QED BY <1>2, <1>3, <1>4

Places == Int \X Int
LEMMA AppearsOnLine ==
  ASSUME NEW s \in Seq(Int), NEW c \in Int
  PROVE  /\ Maps!Row(c, s) \in Seq(Places) /\ \A v : Appears(v, s) => Appears(<<v, c>>, Maps!Row(c, s))
         /\ Maps!Column(c, s) \in Seq(Places) /\ \A v : Appears(v, s) => Appears(<<c, v>>, Maps!Column(c, s))
<1> DEFINE n == Len(s)  row == [i \in 1..n |-> <<s[i], c>>]  column == [i \in 1..n |-> <<c, s[i]>>]
<1>1. n \in Nat /\ DOMAIN s = 1..n /\ \A i \in 1..n : s[i] \in Int
  BY LenProperties, ElementOfSeq
<1>2. Maps!Row(c, s) = row /\ Maps!Column(c, s) = column
  BY <1>1 DEF Maps!Row, Maps!Column
<1> HIDE DEF n
<1>3. row \in Seq(Places) /\ Len(row) = n
  <2>1. row \in [1..n -> Places]
    BY <1>1 DEF Places
  <2> HIDE DEF row
  <2> QED BY <1>1, <2>1, FunctionIsSeq
<1>4. column \in Seq(Places) /\ Len(column) = n
  <2>1. column \in [1..n -> Places]
    BY <1>1 DEF Places
  <2> HIDE DEF column
  <2> QED BY <1>1, <2>1, FunctionIsSeq
<1>5. \A i \in 1..n : row[i] = <<s[i], c>> /\ column[i] = <<c, s[i]>>
  OBVIOUS
<1> HIDE DEF row, column
<1>6. \A v : Appears(v, s) => Appears(<<v, c>>, row) /\ Appears(<<c, v>>, column)
  BY <1>3, <1>4, <1>5 DEF Appears, n
<1> QED BY <1>2, <1>3, <1>4, <1>6

LEMMA OfTwo ==
  ASSUME NEW a \in Int, NEW b \in Int
  PROVE  /\ Maps!Min({a, b}) = IF a <= b THEN a ELSE b
         /\ Maps!Max({a, b}) = IF a <= b THEN b ELSE a
BY DEF Maps!Min, Maps!Max

\* The edges of a square: what lies on each, within the map.
LEMMA OnTop ==
  ASSUME NEW y \in Int, NEW l \in Int, NEW r \in Int
  PROVE  /\ Maps!TopEdge(y, l, r) \in Seq(Places)
         /\ \A x \in 0..(MapWidth - 1) : y >= 0 /\ l <= x /\ x < r => Appears(<<x, y>>, Maps!TopEdge(y, l, r))
<1> DEFINE from == Maps!Max({l, 0})  to == Maps!Min({r - 1, MapWidth - 1})
<1>1. MapWidth \in Nat
  BY DetectionAssumption
<1>2. from = (IF l <= 0 THEN 0 ELSE l) /\ to = (IF r - 1 <= MapWidth - 1 THEN r - 1 ELSE MapWidth - 1)
  <2>1. l \in Int /\ 0 \in Int /\ r - 1 \in Int /\ MapWidth - 1 \in Int
    BY <1>1
  <2> QED BY <2>1, OfTwo
<1>3. from \in Int /\ to \in Int
  BY <1>1, <1>2
<1>4. Maps!TopEdge(y, l, r) = IF y >= 0 THEN Maps!Row(y, Maps!Up(from, to)) ELSE <<>>
  BY DEF Maps!TopEdge
<1>5. \A x \in 0..(MapWidth - 1) : l <= x /\ x < r => x \in from..to
  BY <1>1, <1>2
<1> HIDE DEF from, to
<1>6. /\ Maps!Row(y, Maps!Up(from, to)) \in Seq(Places)
      /\ \A x \in from..to : Appears(<<x, y>>, Maps!Row(y, Maps!Up(from, to)))
  BY <1>3, AppearsUp, AppearsOnLine
<1>7. <<>> \in Seq(Places)
  OBVIOUS
<1> QED BY <1>4, <1>5, <1>6, <1>7

LEMMA OnRight ==
  ASSUME NEW x \in Int, NEW t \in Int, NEW b \in Int
  PROVE  /\ Maps!RightEdge(x, t, b) \in Seq(Places)
         /\ \A y \in 0..(MapHeight - 1) : x < MapWidth /\ t <= y /\ y < b => Appears(<<x, y>>, Maps!RightEdge(x, t, b))
<1> DEFINE from == Maps!Max({t, 0})  to == Maps!Min({b - 1, MapHeight - 1})
<1>1. MapHeight \in Nat
  BY DetectionAssumption
<1>2. from = (IF t <= 0 THEN 0 ELSE t) /\ to = (IF b - 1 <= MapHeight - 1 THEN b - 1 ELSE MapHeight - 1)
  <2>1. t \in Int /\ 0 \in Int /\ b - 1 \in Int /\ MapHeight - 1 \in Int
    BY <1>1
  <2> QED BY <2>1, OfTwo
<1>3. from \in Int /\ to \in Int
  BY <1>1, <1>2
<1>4. Maps!RightEdge(x, t, b) = IF x < MapWidth THEN Maps!Column(x, Maps!Up(from, to)) ELSE <<>>
  BY DEF Maps!RightEdge
<1>5. \A y \in 0..(MapHeight - 1) : t <= y /\ y < b => y \in from..to
  BY <1>1, <1>2
<1> HIDE DEF from, to
<1>6. /\ Maps!Column(x, Maps!Up(from, to)) \in Seq(Places)
      /\ \A y \in from..to : Appears(<<x, y>>, Maps!Column(x, Maps!Up(from, to)))
  BY <1>3, AppearsUp, AppearsOnLine
<1>7. <<>> \in Seq(Places)
  OBVIOUS
<1> QED BY <1>4, <1>5, <1>6, <1>7

LEMMA OnBottom ==
  ASSUME NEW y \in Int, NEW l \in Int, NEW r \in Int
  PROVE  /\ Maps!BottomEdge(y, l, r) \in Seq(Places)
         /\ \A x \in 0..(MapWidth - 1) : y < MapHeight /\ l <= x /\ x <= r => Appears(<<x, y>>, Maps!BottomEdge(y, l, r))
<1> DEFINE from == Maps!Max({l - 1, 0})  to == Maps!Min({r, MapWidth - 1})
<1>1. MapWidth \in Nat
  BY DetectionAssumption
<1>2. from = (IF l - 1 <= 0 THEN 0 ELSE l - 1) /\ to = (IF r <= MapWidth - 1 THEN r ELSE MapWidth - 1)
  <2>1. l - 1 \in Int /\ 0 \in Int /\ r \in Int /\ MapWidth - 1 \in Int
    BY <1>1
  <2> QED BY <2>1, OfTwo
<1>3. from \in Int /\ to \in Int
  BY <1>1, <1>2
<1>4. Maps!BottomEdge(y, l, r) = IF y < MapHeight THEN Maps!Reverse(Maps!Row(y, Maps!Up(from, to))) ELSE <<>>
  BY DEF Maps!BottomEdge
<1>5. \A x \in 0..(MapWidth - 1) : l <= x /\ x <= r => x \in from..to
  BY <1>1, <1>2
<1> HIDE DEF from, to
<1>6. /\ Maps!Row(y, Maps!Up(from, to)) \in Seq(Places)
      /\ \A x \in from..to : Appears(<<x, y>>, Maps!Row(y, Maps!Up(from, to)))
  BY <1>3, AppearsUp, AppearsOnLine
<1> QED BY <1>4, <1>5, <1>6, AppearsReversed

LEMMA OnLeft ==
  ASSUME NEW x \in Int, NEW t \in Int, NEW b \in Int
  PROVE  /\ Maps!LeftEdge(x, t, b) \in Seq(Places)
         /\ \A y \in 0..(MapHeight - 1) : x >= 0 /\ t <= y /\ y <= b => Appears(<<x, y>>, Maps!LeftEdge(x, t, b))
<1> DEFINE from == Maps!Max({t - 1, 0})  to == Maps!Min({b, MapHeight - 1})
<1>1. MapHeight \in Nat
  BY DetectionAssumption
<1>2. from = (IF t - 1 <= 0 THEN 0 ELSE t - 1) /\ to = (IF b <= MapHeight - 1 THEN b ELSE MapHeight - 1)
  <2>1. t - 1 \in Int /\ 0 \in Int /\ b \in Int /\ MapHeight - 1 \in Int
    BY <1>1
  <2> QED BY <2>1, OfTwo
<1>3. from \in Int /\ to \in Int
  BY <1>1, <1>2
<1>4. Maps!LeftEdge(x, t, b) = IF x >= 0 THEN Maps!Reverse(Maps!Column(x, Maps!Up(from, to))) ELSE <<>>
  BY DEF Maps!LeftEdge
<1>5. \A y \in 0..(MapHeight - 1) : t <= y /\ y <= b => y \in from..to
  BY <1>1, <1>2
<1> HIDE DEF from, to
<1>6. /\ Maps!Column(x, Maps!Up(from, to)) \in Seq(Places)
      /\ \A y \in from..to : Appears(<<x, y>>, Maps!Column(x, Maps!Up(from, to)))
  BY <1>3, AppearsUp, AppearsOnLine
<1> QED BY <1>4, <1>5, <1>6, AppearsReversed

\* A block lies on the square that is as far from the centre as it is.
LEMMA OnItsSquare ==
  ASSUME NEW k \in Nat, k # 0, NEW b \in Maps!Blocks,
         \/ b[1] \in {Maps!Centre[1] - k, Maps!Centre[1] + k} /\ Maps!Centre[2] - k <= b[2] /\ b[2] <= Maps!Centre[2] + k
         \/ b[2] \in {Maps!Centre[2] - k, Maps!Centre[2] + k} /\ Maps!Centre[1] - k <= b[1] /\ b[1] <= Maps!Centre[1] + k
  PROVE  Appears(b, Maps!Square(k))
<1> DEFINE cx == Maps!Centre[1]  cy == Maps!Centre[2]
           l == cx - k  t == cy - k  r == cx + k  bot == cy + k
           e1 == Maps!TopEdge(t, l, r)  e2 == Maps!RightEdge(r, t, bot)
           e3 == Maps!BottomEdge(bot, l, r)  e4 == Maps!LeftEdge(l, t, bot)
<1>1. MapWidth \in Nat \ {0} /\ MapHeight \in Nat \ {0}
  BY DetectionAssumption
<1>2. cx \in Nat /\ cy \in Nat
  BY <1>1 DEF Maps!Centre
<1>3. b[1] \in 0..(MapWidth - 1) /\ b[2] \in 0..(MapHeight - 1) /\ b = <<b[1], b[2]>>
  BY DEF Maps!Blocks
<1>4. Maps!Square(k) = ((e1 \o e2) \o e3) \o e4
  BY DEF Maps!Square
<1> HIDE DEF cx, cy
<1>5. l \in Int /\ t \in Int /\ r \in Int /\ bot \in Int
  BY <1>2
<1>6. e1 \in Seq(Places) /\ e2 \in Seq(Places) /\ e3 \in Seq(Places) /\ e4 \in Seq(Places)
  BY <1>5, OnTop, OnRight, OnBottom, OnLeft
<1>7. \/ b[1] \in {l, r} /\ t <= b[2] /\ b[2] <= bot
      \/ b[2] \in {t, bot} /\ l <= b[1] /\ b[1] <= r
  BY DEF cx, cy
<1>8. b[1] = l /\ t <= b[2] /\ b[2] <= bot => Appears(b, e4)
  <2> HAVE b[1] = l /\ t <= b[2] /\ b[2] <= bot
  <2>1. l >= 0
    BY <1>3, <1>5
  <2>2. Appears(<<l, b[2]>>, e4)
    BY <1>3, <1>5, <2>1, OnLeft
  <2> QED BY <1>3, <2>2
<1>9. b[2] = bot /\ l <= b[1] /\ b[1] <= r => Appears(b, e3)
  <2> HAVE b[2] = bot /\ l <= b[1] /\ b[1] <= r
  <2>1. bot < MapHeight
    BY <1>1, <1>3, <1>5
  <2>2. Appears(<<b[1], bot>>, e3)
    BY <1>3, <1>5, <2>1, OnBottom
  <2> QED BY <1>3, <2>2
<1>10. b[1] = r /\ t <= b[2] /\ b[2] < bot => Appears(b, e2)
  <2> HAVE b[1] = r /\ t <= b[2] /\ b[2] < bot
  <2>1. r < MapWidth
    BY <1>1, <1>3, <1>5
  <2>2. Appears(<<r, b[2]>>, e2)
    BY <1>3, <1>5, <2>1, OnRight
  <2> QED BY <1>3, <2>2
<1>11. b[2] = t /\ l <= b[1] /\ b[1] < r => Appears(b, e1)
  <2> HAVE b[2] = t /\ l <= b[1] /\ b[1] < r
  <2>1. t >= 0
    BY <1>3, <1>5
  <2>2. Appears(<<b[1], t>>, e1)
    BY <1>3, <1>5, <2>1, OnTop
  <2> QED BY <1>3, <2>2
<1>12. l < r /\ t < bot
  BY <1>2
<1> HIDE DEF l, t, r, bot
<1>13. b[1] \in Int /\ b[2] \in Int
  BY <1>1, <1>3
<1>14. \/ Appears(b, e1) \/ Appears(b, e2) \/ Appears(b, e3) \/ Appears(b, e4)
  BY <1>5, <1>7, <1>8, <1>9, <1>10, <1>11, <1>12, <1>13
<1> HIDE DEF e1, e2, e3, e4
<1>15. e1 \o e2 \in Seq(Places) /\ (e1 \o e2) \o e3 \in Seq(Places)
  BY <1>6, ConcatProperties
<1>16. CASE Appears(b, e1) \/ Appears(b, e2)
  BY <1>4, <1>6, <1>15, <1>16, AppearsInBoth
<1>17. CASE Appears(b, e3) \/ Appears(b, e4)
  BY <1>4, <1>6, <1>15, <1>17, AppearsInBoth
<1> QED BY <1>14, <1>16, <1>17

LEMMA SquareIsWalked ==
  ASSUME NEW k \in Nat
  PROVE  Maps!Square(k) \in Seq(Places)
<1> DEFINE cx == Maps!Centre[1]  cy == Maps!Centre[2]
           l == cx - k  t == cy - k  r == cx + k  bot == cy + k
           e1 == Maps!TopEdge(t, l, r)  e2 == Maps!RightEdge(r, t, bot)
           e3 == Maps!BottomEdge(bot, l, r)  e4 == Maps!LeftEdge(l, t, bot)
<1>1. cx \in Nat /\ cy \in Nat
  BY DetectionAssumption DEF Maps!Centre
<1>2. Maps!Square(k) = ((e1 \o e2) \o e3) \o e4
  BY DEF Maps!Square
<1> HIDE DEF cx, cy
<1>3. e1 \in Seq(Places) /\ e2 \in Seq(Places) /\ e3 \in Seq(Places) /\ e4 \in Seq(Places)
  <2>1. l \in Int /\ t \in Int /\ r \in Int /\ bot \in Int
    BY <1>1
  <2> QED BY <2>1, OnTop, OnRight, OnBottom, OnLeft
<1> HIDE DEF e1, e2, e3, e4
<1>4. e1 \o e2 \in Seq(Places) /\ (e1 \o e2) \o e3 \in Seq(Places)
  BY <1>3, ConcatProperties
<1> QED BY <1>2, <1>3, <1>4, ConcatProperties

\* What a sequence of sequences comes to, one after the other.
Flattens(seqs, n, f) == f = [i \in 1..n |-> IF i = 1 THEN seqs[i] ELSE f[i - 1] \o seqs[i]]

LEMMA FlattensExist ==
  ASSUME NEW seqs, NEW n \in Nat
  PROVE  \E f : Flattens(seqs, n, f)
<1> DEFINE T == {m \in Nat : ~\E f : Flattens(seqs, m, f)}
<1> SUFFICES ASSUME T # {} PROVE FALSE
  OBVIOUS
<1>1. PICK m \in T : \A y \in T : m <= y
  BY LeastNumber
<1>2. CASE m = 0
  <2> DEFINE f == [i \in 1..0 |-> 0]
  <2>1. f = [i \in 1..0 |-> IF i = 1 THEN seqs[i] ELSE f[i - 1] \o seqs[i]]
    OBVIOUS
  <2> HIDE DEF f
  <2> QED BY <1>1, <1>2, <2>1 DEF Flattens
<1>3. CASE m # 0
  <2>1. m - 1 \in Nat /\ (m - 1) + 1 = m /\ m - 1 \notin T
    <3>1. m \in Nat /\ m - 1 \in Nat /\ (m - 1) + 1 = m /\ ~(m <= m - 1)
      BY <1>3
    <3> HIDE DEF T
    <3> QED BY <1>1, <3>1
  <2>2. PICK f : Flattens(seqs, m - 1, f)
    BY <2>1
  <2> DEFINE last == IF m = 1 THEN seqs[m] ELSE f[m - 1] \o seqs[m]
             g == [i \in 1..m |-> IF i = m THEN last ELSE f[i]]
  <2>3. ASSUME NEW i \in 1..m
        PROVE  g[i] = IF i = 1 THEN seqs[i] ELSE g[i - 1] \o seqs[i]
    <3>1. CASE i = m
      <4>1. g[i] = last
        BY <3>1
      <4>2. i # 1 => g[i - 1] = f[i - 1]
        BY <2>1, <3>1
      <4> HIDE DEF g
      <4> QED BY <3>1, <4>1, <4>2
    <3>2. CASE i # m
      <4>1. i \in 1..(m - 1) /\ (i # 1 => i - 1 \in 1..m /\ i - 1 # m)
        BY <2>1, <3>2
      <4>2. f[i] = IF i = 1 THEN seqs[i] ELSE f[i - 1] \o seqs[i]
        BY <2>2, <4>1 DEF Flattens
      <4>3. g[i] = f[i] /\ (i # 1 => g[i - 1] = f[i - 1])
        BY <3>2, <4>1
      <4> HIDE DEF g
      <4> QED BY <4>2, <4>3
    <3> QED BY <3>1, <3>2
  <2>4. g = [i \in 1..m |-> g[i]]
    OBVIOUS
  <2> HIDE DEF g
  <2>5. g = [i \in 1..m |-> IF i = 1 THEN seqs[i] ELSE g[i - 1] \o seqs[i]]
    BY <2>3, <2>4
  <2> QED BY <1>1, <2>5 DEF Flattens
<1> QED BY <1>2, <1>3

LEMMA AppearsInFlat ==
  ASSUME NEW S, NEW n \in Nat, NEW seqs \in [1..n -> Seq(S)]
  PROVE  /\ Maps!FlattenSeq(seqs) \in Seq(S)
         /\ \A k \in 1..n : \A x : Appears(x, seqs[k]) => Appears(x, Maps!FlattenSeq(seqs))
<1>1. seqs \in Seq(Seq(S)) /\ Len(seqs) = n
  BY FunctionIsSeq
<1>2. CASE n = 0
  <2>1. Maps!FlattenSeq(seqs) = seqs
    BY <1>1, <1>2 DEF Maps!FlattenSeq
  <2>2. seqs \in [1..0 -> S]
    BY <1>2
  <2>3. seqs \in Seq(S)
    BY <2>2, FunctionIsSeq
  <2> QED BY <1>2, <2>1, <2>3
<1>3. CASE n # 0
  <2> DEFINE f == CHOOSE f : Flattens(seqs, n, f)
  <2>1. Flattens(seqs, n, f)
    BY FlattensExist
  <2>2. Maps!FlattenSeq(seqs) = f[n]
    BY <1>1, <1>3 DEF Maps!FlattenSeq, Flattens
  <2> HIDE DEF f
  <2>3. \A i \in 1..n : f[i] = IF i = 1 THEN seqs[i] ELSE f[i - 1] \o seqs[i]
    BY <2>1 DEF Flattens
  <2> DEFINE Good(i) == f[i] \in Seq(S) /\ \A k \in 1..i : \A x : Appears(x, seqs[k]) => Appears(x, f[i])
             T == {i \in 1..n : ~Good(i)}
  <2>4. T = {}
    <3> SUFFICES ASSUME T # {} PROVE FALSE
      OBVIOUS
    <3>1. T \in SUBSET Nat
      OBVIOUS
    <3>2. PICK i \in T : \A y \in T : i <= y
      BY <3>1, LeastNumber
    <3>3. i \in 1..n /\ ~Good(i) /\ \A y \in 1..n : ~(i <= y) => Good(y)
      BY <3>2
    <3> HIDE DEF T
    <3>4. CASE i = 1
      BY <2>3, <3>3, <3>4
    <3>5. CASE i # 1
      <4>1. i - 1 \in 1..n /\ ~(i <= i - 1)
        BY <3>3, <3>5
      <4>2. Good(i - 1)
        BY <3>3, <4>1
      <4>3. f[i] = f[i - 1] \o seqs[i] /\ seqs[i] \in Seq(S)
        BY <2>3, <3>3, <3>5
      <4>4. f[i] \in Seq(S)
        BY <4>2, <4>3, ConcatProperties
      <4>5. ASSUME NEW k \in 1..i, NEW x, Appears(x, seqs[k])
            PROVE  Appears(x, f[i])
        <5>1. k \in 1..(i - 1) \/ k = i
          BY <3>3
        <5>2. Appears(x, f[i - 1]) \/ Appears(x, seqs[i])
          BY <4>2, <4>5, <5>1
        <5> QED BY <4>2, <4>3, <5>2, AppearsInBoth
      <4> QED BY <3>3, <4>4, <4>5
    <3> QED BY <3>4, <3>5
  <2>5. Good(n)
    <3>1. n \in 1..n
      BY <1>3
    <3> QED BY <2>4, <3>1
  <2> QED BY <2>2, <2>5
<1> QED BY <1>2, <1>3

\* The walk meets every block.
LEMMA WalkCovers ==
  /\ Maps!Walk \in Seq(Places)
  /\ \A b \in Maps!Blocks : Appears(b, Maps!Walk)
<1> DEFINE cx == Maps!Centre[1]  cy == Maps!Centre[2]  n == Maps!Squares
           squares == [k \in 1..n |-> Maps!Square(k)]
           flat == Maps!FlattenSeq(squares)
<1>1. MapWidth \in Nat \ {0} /\ MapHeight \in Nat \ {0}
  BY DetectionAssumption
<1>2. /\ cx \in 0..(MapWidth - 1) /\ cy \in 0..(MapHeight - 1)
      /\ Maps!Centre = <<cx, cy>>
  BY <1>1 DEF Maps!Centre
<1>3. /\ n \in Nat /\ cx <= n /\ MapWidth - 1 - cx <= n /\ cy <= n /\ MapHeight - 1 - cy <= n
  <2> DEFINE M == {cx, MapWidth - 1 - cx, cy, MapHeight - 1 - cy}
  <2>1. M \subseteq Nat
    BY <1>1, <1>2
  <2>2. \E x \in M : \A y \in M : x >= y
    <3>1. ASSUME NEW a \in Nat, NEW b \in Nat, NEW c \in Nat, NEW d \in Nat
          PROVE  \E x \in {a, b, c, d} : \A y \in {a, b, c, d} : x >= y
      OBVIOUS
    <3> HIDE DEF cx, cy
    <3>2. cx \in Nat /\ MapWidth - 1 - cx \in Nat /\ cy \in Nat /\ MapHeight - 1 - cy \in Nat
      BY <2>1
    <3> QED BY <3>1, <3>2
  <2>3. n = Maps!Max(M)
    BY DEF Maps!Squares
  <2> HIDE DEF n
  <2>4. n \in M /\ \A y \in M : n >= y
    BY <2>2, <2>3 DEF Maps!Max
  <2> HIDE DEF cx, cy
  <2> QED BY <1>1, <1>2, <2>1, <2>4
<1> HIDE DEF cx, cy, n
<1>4. squares \in [1..n -> Seq(Places)]
  BY <1>3, SquareIsWalked
<1>5. flat \in Seq(Places) /\ \A k \in 1..n : \A x : Appears(x, squares[k]) => Appears(x, flat)
  <2> HIDE DEF squares
  <2> QED BY <1>3, <1>4, AppearsInFlat
<1>6. \A k \in 1..n : squares[k] = Maps!Square(k)
  OBVIOUS
<1>7. Maps!Walk = <<Maps!Centre>> \o flat
  BY DEF Maps!Walk, n
<1>8. <<Maps!Centre>> \in Seq(Places) /\ Appears(Maps!Centre, <<Maps!Centre>>)
  BY <1>1, <1>2 DEF Places, Appears
<1> HIDE DEF squares, flat
<1>9. Maps!Walk \in Seq(Places)
  BY <1>5, <1>7, <1>8, ConcatProperties
<1>10. ASSUME NEW b \in Maps!Blocks
       PROVE  Appears(b, Maps!Walk)
  <2> DEFINE dx == IF b[1] >= cx THEN b[1] - cx ELSE cx - b[1]
             dy == IF b[2] >= cy THEN b[2] - cy ELSE cy - b[2]
             k == IF dx >= dy THEN dx ELSE dy
  <2>1. b[1] \in 0..(MapWidth - 1) /\ b[2] \in 0..(MapHeight - 1) /\ b = <<b[1], b[2]>>
    BY DEF Maps!Blocks
  <2>2. k \in 0..n
    BY <1>1, <1>2, <1>3, <2>1
  <2>3. k = 0 => b = Maps!Centre
    BY <1>1, <1>2, <2>1
  <2>4. \/ b[1] \in {cx - k, cx + k} /\ cy - k <= b[2] /\ b[2] <= cy + k
        \/ b[2] \in {cy - k, cy + k} /\ cx - k <= b[1] /\ b[1] <= cx + k
    BY <1>1, <1>2, <2>1
  <2> HIDE DEF k
  <2>5. k # 0 => k \in 1..n /\ k \in Nat
    BY <1>3, <2>2
  <2>6. k # 0 => Appears(b, Maps!Square(k))
    BY <2>4, <2>5, OnItsSquare DEF cx, cy
  <2>7. k # 0 => Appears(b, flat)
    BY <1>5, <1>6, <2>5, <2>6
  <2>8. Appears(b, <<Maps!Centre>>) \/ Appears(b, flat)
    BY <1>8, <2>3, <2>7
  <2> QED BY <1>5, <1>7, <1>8, <2>8, AppearsInBoth
<1> QED BY <1>9, <1>10

-----------------------------------------------------------------------------
(* The removal of directions.                                               *)

OnBlocks(dirs) == dirs = [b \in Maps!Blocks |-> dirs[b]]
Quiet(dirs) == \A b \in Maps!Blocks : dirs[b] # Maps!Invalid => ~Maps!Inconsistent(dirs, b)

\* What the map is after each block of a path.
Removes(path, n, f) == f = [k \in 0..n |-> IF k = 0 THEN directions ELSE Maps!TestAndRemove(f[k - 1], path[k])]

LEMMA RemovesExist ==
  ASSUME NEW path, NEW n \in Nat
  PROVE  \E f : Removes(path, n, f)
<1> DEFINE T == {m \in Nat : ~\E f : Removes(path, m, f)}
<1> SUFFICES ASSUME T # {} PROVE FALSE
  OBVIOUS
<1>1. PICK m \in T : \A y \in T : m <= y
  BY LeastNumber
<1>2. CASE m = 0
  <2> DEFINE f == [k \in 0..0 |-> directions]
  <2>1. f = [k \in 0..0 |-> IF k = 0 THEN directions ELSE Maps!TestAndRemove(f[k - 1], path[k])]
    OBVIOUS
  <2> HIDE DEF f
  <2> QED BY <1>1, <1>2, <2>1 DEF Removes
<1>3. CASE m # 0
  <2>1. m - 1 \in Nat /\ (m - 1) + 1 = m /\ m - 1 \notin T
    <3>1. m \in Nat /\ m - 1 \in Nat /\ (m - 1) + 1 = m /\ ~(m <= m - 1)
      BY <1>3
    <3> HIDE DEF T
    <3> QED BY <1>1, <3>1
  <2>2. PICK f : Removes(path, m - 1, f)
    BY <2>1
  <2> DEFINE g == [k \in 0..m |-> IF k = m THEN Maps!TestAndRemove(f[m - 1], path[m]) ELSE f[k]]
  <2>3. ASSUME NEW k \in 0..m
        PROVE  g[k] = IF k = 0 THEN directions ELSE Maps!TestAndRemove(g[k - 1], path[k])
    <3>1. CASE k = m
      <4>1. g[k] = Maps!TestAndRemove(f[m - 1], path[m]) /\ g[m - 1] = f[m - 1]
        BY <2>1, <3>1
      <4> HIDE DEF g
      <4> QED BY <1>3, <3>1, <4>1
    <3>2. CASE k # m
      <4>1. k \in 0..(m - 1) /\ (k # 0 => k - 1 \in 0..m /\ k - 1 # m)
        BY <2>1, <3>2
      <4>2. f[k] = IF k = 0 THEN directions ELSE Maps!TestAndRemove(f[k - 1], path[k])
        BY <2>2, <4>1 DEF Removes
      <4>3. g[k] = f[k] /\ (k # 0 => g[k - 1] = f[k - 1])
        BY <3>2, <4>1
      <4> HIDE DEF g
      <4> QED BY <4>2, <4>3
    <3> QED BY <3>1, <3>2
  <2>4. g = [k \in 0..m |-> g[k]]
    OBVIOUS
  <2> HIDE DEF g
  <2>5. g = [k \in 0..m |-> IF k = 0 THEN directions ELSE Maps!TestAndRemove(g[k - 1], path[k])]
    BY <2>3, <2>4
  <2> QED BY <1>1, <2>5 DEF Removes
<1> QED BY <1>2, <1>3

\* A block of the path may lose its direction, and no other changes.
LEMMA OneRemoval ==
  ASSUME NEW dirs, OnBlocks(dirs), NEW b
  PROVE  /\ OnBlocks(Maps!TestAndRemove(dirs, b))
         /\ \A c \in Maps!Blocks : Maps!TestAndRemove(dirs, b)[c] \in {dirs[c], Maps!Invalid}
         /\ b \in Maps!Blocks /\ dirs[b] # Maps!Invalid /\ Maps!Inconsistent(dirs, b) => Maps!TestAndRemove(dirs, b) # dirs
<1> DEFINE d == [dirs EXCEPT ![b] = Maps!Invalid]
           gone == dirs[b] # Maps!Invalid /\ Maps!Inconsistent(dirs, b)
<1>1. Maps!TestAndRemove(dirs, b) = IF gone THEN d ELSE dirs
  BY DEF Maps!TestAndRemove
<1>2. DOMAIN dirs = Maps!Blocks /\ d = [c \in Maps!Blocks |-> IF c = b THEN Maps!Invalid ELSE dirs[c]]
  BY DEF OnBlocks
<1> HIDE DEF gone
<1>3. OnBlocks(d)
  BY <1>2 DEF OnBlocks
<1>4. \A c \in Maps!Blocks : d[c] \in {dirs[c], Maps!Invalid}
  BY <1>2
<1>5. b \in Maps!Blocks => d[b] = Maps!Invalid
  BY <1>2
<1> HIDE DEF d
<1>6. OnBlocks(Maps!TestAndRemove(dirs, b)) /\ \A c \in Maps!Blocks : Maps!TestAndRemove(dirs, b)[c] \in {dirs[c], Maps!Invalid}
  BY <1>1, <1>3, <1>4
<1>7. b \in Maps!Blocks /\ gone => Maps!TestAndRemove(dirs, b) # dirs
  BY <1>1, <1>5 DEF gone
<1> QED BY <1>6, <1>7 DEF gone

\* A walk keeps the blocks, and gives none a direction; one that removes
\* nothing leaves nothing that it would remove.
LEMMA SweptQuiet ==
  ASSUME OnBlocks(directions)
  PROVE  LET after == Maps!Swept(Maps!TestAndRemove, Maps!Walk)
         IN  /\ OnBlocks(after)
             /\ \A b \in Maps!Blocks : after[b] \in {directions[b], Maps!Invalid}
             /\ after = directions => Quiet(directions)
<1> DEFINE path == Maps!Walk  n == Len(path)
           f == CHOOSE f : Removes(path, n, f)
<1>1. path \in Seq(Places) /\ n \in Nat
  BY WalkCovers, LenProperties
<1>2. Removes(path, n, f)
  BY <1>1, RemovesExist
<1>3. Maps!Swept(Maps!TestAndRemove, Maps!Walk) = f[n]
  BY DEF Maps!Swept, Removes
<1> HIDE DEF f
<1>4. \A k \in 0..n : f[k] = IF k = 0 THEN directions ELSE Maps!TestAndRemove(f[k - 1], path[k])
  BY <1>2 DEF Removes
<1> DEFINE Good(k) == OnBlocks(f[k]) /\ \A b \in Maps!Blocks : f[k][b] \in {directions[b], Maps!Invalid}
<1>5. \A k \in 0..n : Good(k)
  <2> DEFINE T == {k \in 0..n : ~Good(k)}
  <2> SUFFICES ASSUME T # {} PROVE FALSE
    OBVIOUS
  <2>1. T \in SUBSET Nat
    OBVIOUS
  <2>2. PICK k \in T : \A y \in T : k <= y
    BY <2>1, LeastNumber
  <2>3. k \in 0..n /\ ~Good(k) /\ \A y \in 0..n : ~(k <= y) => Good(y)
    BY <2>2
  <2> HIDE DEF T
  <2>4. k # 0
    BY <1>4, <2>3
  <2>5. k - 1 \in 0..n /\ ~(k <= k - 1)
    BY <1>1, <2>3, <2>4
  <2>6. Good(k - 1)
    BY <2>3, <2>5
  <2>7. f[k] = Maps!TestAndRemove(f[k - 1], path[k])
    BY <1>4, <2>3, <2>4
  <2> DEFINE d == f[k - 1]
  <2>8. OnBlocks(d) /\ \A b \in Maps!Blocks : d[b] \in {directions[b], Maps!Invalid}
    BY <2>6
  <2> HIDE DEF d
  <2>9. /\ OnBlocks(Maps!TestAndRemove(d, path[k]))
        /\ \A c \in Maps!Blocks : Maps!TestAndRemove(d, path[k])[c] \in {d[c], Maps!Invalid}
    BY <2>8, OneRemoval
  <2>10. Good(k)
    <3>1. f[k] = Maps!TestAndRemove(d, path[k])
      BY <2>7 DEF d
    <3> QED BY <2>8, <2>9, <3>1
  <2> QED BY <2>3, <2>10
<1>6. Good(n)
  <2>1. n \in 0..n
    BY <1>1
  <2> QED BY <1>5, <2>1
<1>7. ASSUME f[n] = directions
      PROVE  \A k \in 0..n : f[k] = directions
  <2> DEFINE T == {j \in 0..n : f[n - j] # directions}
  <2>1. T = {}
    <3> SUFFICES ASSUME T # {} PROVE FALSE
      OBVIOUS
    <3>1. T \in SUBSET Nat
      OBVIOUS
    <3>2. PICK j \in T : \A y \in T : j <= y
      BY <3>1, LeastNumber
    <3>3. j \in 0..n /\ f[n - j] # directions /\ \A y \in 0..n : ~(j <= y) => f[n - y] = directions
      BY <3>2
    <3> HIDE DEF T
    <3>4. j # 0
      <4>1. n - 0 = n
        BY <1>1
      <4> QED BY <1>7, <3>3, <4>1
    <3> DEFINE k == n - j
    <3>5. k \in 0..n /\ k + 1 \in 0..n /\ k + 1 # 0 /\ (k + 1) - 1 = k /\ n - (j - 1) = k + 1 /\ j - 1 \in 0..n /\ ~(j <= j - 1)
      BY <1>1, <3>3, <3>4
    <3>6. f[k + 1] = directions /\ f[k] # directions
      <4>1. f[n - (j - 1)] = directions
        BY <3>3, <3>5
      <4>2. n - (j - 1) = k + 1
        BY <3>5
      <4> QED BY <3>3, <4>1, <4>2
    <3> HIDE DEF k
    <3> DEFINE d == f[k]
    <3>7. OnBlocks(d) /\ \A b \in Maps!Blocks : d[b] \in {directions[b], Maps!Invalid}
      BY <1>5, <3>5
    <3>8. directions = Maps!TestAndRemove(d, path[k + 1])
      BY <1>4, <3>5, <3>6
    <3>9. d # directions
      BY <3>6
    <3> HIDE DEF d
    <3>10. PICK b \in Maps!Blocks : d[b] # directions[b]
      BY <3>7, <3>9 DEF OnBlocks
    <3>11. directions[b] \in {d[b], Maps!Invalid}
      BY <3>7, <3>8, OneRemoval
    <3>12. d[b] = Maps!Invalid
      BY <3>7, <3>10
    <3> QED BY <3>10, <3>11, <3>12
  <2>2. ASSUME NEW k \in 0..n
        PROVE  f[k] = directions
    <3>1. n - k \in 0..n /\ n - (n - k) = k
      BY <1>1
    <3> QED BY <2>1, <3>1
  <2> QED BY <2>2
<1>8. ASSUME f[n] = directions
      PROVE  Quiet(directions)
  <2> SUFFICES ASSUME NEW b \in Maps!Blocks, directions[b] # Maps!Invalid, Maps!Inconsistent(directions, b)
               PROVE  FALSE
    BY DEF Quiet
  <2>1. PICK k \in 1..n : path[k] = b
    BY WalkCovers DEF Appears
  <2>2. k \in 0..n /\ k - 1 \in 0..n /\ k # 0
    BY <1>1
  <2>3. f[k] = Maps!TestAndRemove(directions, b) /\ f[k] = directions
    BY <1>4, <1>7, <1>8, <2>1, <2>2
  <2> QED BY <2>3, OneRemoval
<1> QED BY <1>3, <1>6, <1>8

-----------------------------------------------------------------------------
(* The invariant of the maps.                                               *)

\* The map is one of the blocks where a stage sweeps it; it is quiet where one
\* smooths it; and once it is framed there is no direction in its margin.
MapInv ==
  /\ mapStage \in 1..MapLength
  /\ mapStage \in {1, 2, 3, 5, 6} => OnBlocks(directions)
  /\ mapStage \in {3, 6} => Quiet(directions)
  /\ mapStage >= 8 => \A b \in Maps!Margin : directions[b] = Maps!Invalid

\* The invariant holds of a map that is just given.
LEMMA MapInit == Init => MapInv
<1> SUFFICES ASSUME Init PROVE MapInv
  OBVIOUS
<1>1. mapStage = 1 /\ 1 \in 1..MapLength
  BY StageNames DEF Init, Maps!Init
<1>2. OnBlocks(directions)
  BY DEF Init, Maps!Init, OnBlocks
<1> QED BY <1>1, <1>2 DEF MapInv

\* Every stage of the maps keeps it.
LEMMA MapsKeep ==
  ASSUME MapInv, Maps!Next
  PROVE  MapInv'
<1>1. MapLength \in Nat /\ MapLength > 8 /\ MapLength' = MapLength /\ mapStage \in 1..MapLength
  BY StageNames DEF MapInv, MapLength
<1>2. CASE Maps!Close
  <2>1. mapStage = 1 /\ mapStage' = 2 /\ directions' = directions
    BY <1>1, <1>2, WhereStages DEF Maps!Close, Maps!Advance
  <2> QED BY <1>1, <2>1 DEF MapInv, OnBlocks
<1>3. CASE Maps!RemoveDirections
  <2>1. mapStage \in {2, 5} /\ directions' = Maps!Swept(Maps!TestAndRemove, Maps!Walk)
    BY <1>1, <1>3, WhereStages DEF Maps!RemoveDirections
  <2>2. OnBlocks(directions)
    BY <2>1 DEF MapInv
  <2>3. OnBlocks(directions')
    BY <2>1, <2>2, SweptQuiet
  <2>4. CASE directions' = directions
    <3>1. mapStage' \in {3, 6} /\ mapStage' = mapStage + 1
      BY <1>3, <2>1, <2>4 DEF Maps!RemoveDirections, Maps!Advance
    <3>2. Quiet(directions)
      BY <2>1, <2>2, <2>4, SweptQuiet
    <3>3. OnBlocks(directions)' /\ Quiet(directions)'
      <4>1. \A b \in Maps!Blocks : Maps!Inconsistent(directions, b)' <=> Maps!Inconsistent(directions, b)
        BY <2>4
      <4> QED BY <2>3, <2>4, <3>2, <4>1 DEF OnBlocks, Quiet
    <3> QED BY <1>1, <3>1, <3>3 DEF MapInv
  <2>5. CASE directions' # directions
    <3>1. mapStage' = mapStage
      BY <1>3, <2>5 DEF Maps!RemoveDirections
    <3>2. OnBlocks(directions)'
      BY <2>3 DEF OnBlocks
    <3> QED BY <1>1, <2>1, <3>1, <3>2 DEF MapInv
  <2> QED BY <2>4, <2>5
<1>4. CASE Maps!Smooth
  <2>1. mapStage \in {3, 6} /\ mapStage' = mapStage + 1
    BY <1>1, <1>4, WhereStages DEF Maps!Smooth, Maps!Advance
  <2> QED BY <1>1, <2>1 DEF MapInv
<1>5. CASE Maps!Interpolate
  <2>1. mapStage = 4 /\ mapStage' = 5 /\ directions' = [b \in Maps!Blocks |-> Maps!Interpolated(b)]
    BY <1>1, <1>5, WhereStages DEF Maps!Interpolate, Maps!Advance
  <2>2. OnBlocks(directions)'
    BY <2>1 DEF OnBlocks
  <2> QED BY <1>1, <2>1, <2>2 DEF MapInv
<1>6. CASE Maps!Finish
  <2>1. mapStage = 7 /\ mapStage' = 8 /\ directions' = Maps!Framed(directions)
    BY <1>1, <1>6, WhereStages DEF Maps!Finish, Maps!Advance
  <2>2. \A b \in Maps!Margin : directions'[b] = Maps!Invalid
    BY <2>1 DEF Maps!Framed, Maps!Margin
  <2> QED BY <1>1, <2>1, <2>2 DEF MapInv
<1>7. CASE Maps!Draw
  <2>1. mapStage \in 8..(MapLength - 1)
    <3>1. Maps!In("binarize") \/ Maps!In("rows") \/ Maps!In("columns")
      BY <1>7 DEF Maps!Draw
    <3>2. mapStage = 8 \/ mapStage \in 9..(MapLength - 1)
      BY <1>1, <3>1, WhereStages
    <3> QED BY <1>1, <3>2
  <2>2. mapStage' = mapStage + 1 /\ directions' = directions
    BY <1>7 DEF Maps!Draw, Maps!Advance
  <2>3. \A b \in Maps!Margin : directions'[b] = Maps!Invalid
    BY <2>1, <2>2 DEF MapInv
  <2> QED BY <1>1, <2>1, <2>2, <2>3 DEF MapInv
<1> QED BY <1>2, <1>3, <1>4, <1>5, <1>6, <1>7 DEF Maps!Next

\* So does every step.
LEMMA MapStep ==
  ASSUME MapInv, [Next]_vars
  PROVE  MapInv'
<1>1. CASE UNCHANGED <<directions, mapStage>>
  <2>1. MapLength' = MapLength
    BY DEF MapLength
  <2>2. OnBlocks(directions)' <=> OnBlocks(directions)
    BY <1>1 DEF OnBlocks
  <2>3. Quiet(directions)' <=> Quiet(directions)
    <3>1. \A b \in Maps!Blocks : Maps!Inconsistent(directions, b)' <=> Maps!Inconsistent(directions, b)
      BY <1>1
    <3> QED BY <1>1, <3>1 DEF Quiet
  <2> QED BY <1>1, <2>1, <2>2, <2>3 DEF MapInv
<1>2. CASE BuildMaps
  BY <1>2, MapsKeep DEF BuildMaps
<1>3. CASE StartScan
  BY <1>1, <1>3 DEF StartScan, maps, mapVars
<1>4. CASE MinutiaeNext /\ UNCHANGED <<neighbours, mapVars>>
  BY <1>1, <1>4, ListLeavesMaps DEF maps, mapVars
<1>5. CASE RidgesNext /\ UNCHANGED mapVars
  BY <1>1, <1>5, ListLeavesMaps DEF maps, mapVars
<1>6. CASE Finished
  BY <1>1, <1>6 DEF Finished, vars, maps, mapVars
<1>7. CASE UNCHANGED vars
  BY <1>1, <1>7 DEF vars, maps, mapVars
<1> QED BY <1>2, <1>3, <1>4, <1>5, <1>6, <1>7 DEF Next

\* In every behaviour, whatever the image, the map is as its stage needs it.
THEOREM MapInvariant == Spec => []MapInv
<1>1. Init => MapInv
  BY MapInit
<1>2. MapInv /\ [Next]_vars => MapInv'
  BY MapStep
<1> QED BY <1>1, <1>2, PTL DEF Spec

\* When a removal of directions ends there is none left that it would remove,
\* for any map: the walk meets every block (remove_incon_dirs).
THEOREM SettledWhenSmoothed == Spec => []Settled
<1>1. MapInv => Settled
  <2> SUFFICES ASSUME MapInv, Maps!In("smooth")
               PROVE  \A b \in Maps!Blocks : directions[b] # Maps!Invalid => ~Maps!Inconsistent(directions, b)
    BY DEF Settled, Maps!Settled
  <2>1. mapStage \in {3, 6}
    BY WhereStages DEF MapInv
  <2> QED BY <2>1 DEF MapInv, Quiet
<1> QED BY <1>1, MapInvariant, PTL

\* Where the scan sees a direction the pixel was binarized along the same one,
\* for any size of the image and of its blocks (pixelize_map and binarize_image).
THEOREM ScannedAlongItsFlow == Spec => []ScannedAsBinarized
<1>1. MapInv => ScannedAsBinarized
  <2> SUFFICES ASSUME MapInv, Maps!In("done"), NEW p \in Maps!Pixels
               PROVE  directions[Maps!PaintedBy(p)] \in {Maps!Invalid, directions[Maps!BlockOf(p)]}
    BY DEF ScannedAsBinarized, Maps!ScannedAsBinarized
  <2>1. mapStage = MapLength /\ mapStage >= 8
    BY WhereStages, StageNames DEF MapInv
  <2>2. \A b \in Maps!Margin : directions[b] = Maps!Invalid
    BY <2>1 DEF MapInv
  <2> QED BY <2>2, PaintedInMargin
<1> QED BY <1>1, MapInvariant, PTL

-----------------------------------------------------------------------------
(* Order.                                                                   *)

\* What comes before a member of a set in an order.
Ahead(D, T, i) == {j \in D : <<j, i>> \in T}

TotalOrder(D, T) ==
  /\ \A i \in D : <<i, i>> \notin T
  /\ \A i, j \in D : i # j => <<i, j>> \in T \/ <<j, i>> \in T
  /\ \A i, j, k \in D : <<i, j>> \in T /\ <<j, k>> \in T => <<i, k>> \in T

\* In a finite set with a total order there is one of every rank.
LEMMA RanksFilled ==
  ASSUME NEW D, IsFiniteSet(D), NEW T, TotalOrder(D, T)
  PROVE  /\ Cardinality(D) \in Nat
         /\ \A n \in 1..Cardinality(D) : \E i \in D : Cardinality(Ahead(D, T, i)) = n - 1
         /\ \A i, k \in D : Cardinality(Ahead(D, T, i)) = Cardinality(Ahead(D, T, k)) => i = k
<1> DEFINE c == Cardinality(D)
           B(i) == Ahead(D, T, i)
           r == [i \in D |-> Cardinality(B(i))]
<1>1. c \in Nat
  BY FS_CardinalityType
<1>b. /\ \A i \in D : <<i, i>> \notin T
      /\ \A i, j \in D : i # j => <<i, j>> \in T \/ <<j, i>> \in T
      /\ \A i, j, k \in D : <<i, j>> \in T /\ <<j, k>> \in T => <<i, k>> \in T
  BY DEF TotalOrder
<1>a. \A i \in D : B(i) \in SUBSET D /\ \A j \in D : j \in B(i) <=> <<j, i>> \in T
  BY DEF Ahead
<1> HIDE DEF B
<1>2. ASSUME NEW i \in D
      PROVE  IsFiniteSet(B(i)) /\ Cardinality(B(i)) \in 0..(c - 1)
  <2>1. D \ {i} \in SUBSET D /\ IsFiniteSet(D \ {i}) /\ Cardinality(D \ {i}) = c - 1
    BY FS_RemoveElement
  <2>2. B(i) \in SUBSET (D \ {i})
    BY <1>a, <1>b
  <2>3. IsFiniteSet(B(i)) /\ Cardinality(B(i)) <= c - 1
    BY <2>1, <2>2, FS_Subset
  <2>4. Cardinality(B(i)) \in Nat
    BY <2>3, FS_CardinalityType
  <2> QED BY <1>1, <2>3, <2>4
<1>3. ASSUME NEW i \in D, NEW k \in D, <<i, k>> \in T
      PROVE  Cardinality(B(i)) < Cardinality(B(k))
  <2>0. \A j \in D : <<j, i>> \in T => <<j, k>> \in T
    BY <1>b, <1>3
  <2>1. i \notin B(i) /\ B(i) \cup {i} \in SUBSET B(k)
    BY <1>a, <1>b, <1>3, <2>0
  <2>2. Cardinality(B(i) \cup {i}) = Cardinality(B(i)) + 1
    BY <1>2, <2>1, FS_AddElement
  <2>3. Cardinality(B(i) \cup {i}) <= Cardinality(B(k))
    BY <1>2, <2>1, FS_Subset
  <2>4. Cardinality(B(i)) \in Nat /\ Cardinality(B(k)) \in Nat
    BY <1>1, <1>2
  <2> QED BY <2>2, <2>3, <2>4
<1>4. \A i, k \in D : Cardinality(B(i)) = Cardinality(B(k)) => i = k
  <2> SUFFICES ASSUME NEW i \in D, NEW k \in D, Cardinality(B(i)) = Cardinality(B(k)), i # k
               PROVE  FALSE
    OBVIOUS
  <2>1. Cardinality(B(i)) < Cardinality(B(k)) \/ Cardinality(B(k)) < Cardinality(B(i))
    BY <1>b, <1>3
  <2>2. Cardinality(B(i)) \in Nat /\ Cardinality(B(k)) \in Nat
    BY <1>1, <1>2
  <2> QED BY <2>1, <2>2
<1>5. r \in Injection(D, 0..(c - 1))
  <2>1. r \in [D -> 0..(c - 1)]
    BY <1>2
  <2>2. \A i, k \in D : r[i] = r[k] => i = k
    BY <1>4
  <2> HIDE DEF r
  <2> QED BY <2>1, <2>2 DEF Injection, IsInjective
<1>6. \A i \in D : r[i] = Cardinality(B(i))
  OBVIOUS
<1> HIDE DEF r
<1>7. IsFiniteSet(0..(c - 1)) /\ Cardinality(0..(c - 1)) = c
  <2>1. c - 1 \in Int /\ (IF 0 > c - 1 THEN 0 ELSE (c - 1) - 0 + 1) = c
    BY <1>1
  <2> QED BY <2>1, FS_Interval
<1>8. r \in Surjection(D, 0..(c - 1))
  BY <1>5, <1>7, FS_Injection
<1>9. ASSUME NEW n \in 1..c
      PROVE  \E i \in D : Cardinality(B(i)) = n - 1
  <2>1. n - 1 \in 0..(c - 1)
    BY <1>1
  <2>2. PICK i \in D : r[i] = n - 1
    BY <1>8, <2>1 DEF Surjection
  <2> QED BY <1>6, <2>2
<1> QED BY <1>1, <1>4, <1>9 DEF B

\* The first of the best, in any order that can compare all.
LEMMA FirstOfTheBest ==
  ASSUME NEW a \in Int, NEW b \in Int, a <= b, NEW G,
         \A i, j \in a..b : <<i, j>> \in G \/ <<j, i>> \in G,
         \A i, j, k \in a..b : <<i, j>> \in G /\ <<j, k>> \in G => <<i, k>> \in G
  PROVE  \E i \in a..b : \A j \in a..b : <<j, i>> \notin G \/ (<<i, j>> \in G /\ i <= j)
<1> DEFINE First(m, i) == i \in a..(a + m) /\ \A j \in a..(a + m) : <<j, i>> \notin G \/ (<<i, j>> \in G /\ i <= j)
           T == {m \in 0..(b - a) : ~\E i : First(m, i)}
<1>1. T = {}
  <2> SUFFICES ASSUME T # {} PROVE FALSE
    OBVIOUS
  <2>1. T \in SUBSET Nat
    OBVIOUS
  <2>2. PICK m \in T : \A y \in T : m <= y
    BY <2>1, LeastNumber
  <2>3. m \in 0..(b - a) /\ (~\E i : First(m, i)) /\ \A y \in 0..(b - a) : ~(m <= y) => \E i : First(y, i)
    BY <2>2
  <2> HIDE DEF T
  <2>4. CASE m = 0
    <3>1. First(0, a)
      OBVIOUS
    <3> QED BY <2>3, <2>4, <3>1
  <2>5. CASE m # 0
    <3>1. m - 1 \in 0..(b - a) /\ ~(m <= m - 1)
      BY <2>3, <2>5
    <3>2. PICK i : First(m - 1, i)
      BY <2>3, <3>1
    <3> DEFINE n == a + m
    <3>3. n \in a..b /\ i \in a..b /\ i < n /\ i \in a..(a + m) /\ n \in a..(a + m) /\ \A j \in a..n : j \in a..(a + (m - 1)) \/ j = n
      BY <2>3, <2>5, <3>2
    <3>4. \A j \in a..(a + (m - 1)) : j \in a..b /\ j < n
      BY <2>3, <2>5
    <3> HIDE DEF n
    <3>5. CASE <<i, n>> \in G
      <4>1. First(m, i)
        BY <3>2, <3>3, <3>4, <3>5 DEF n
      <4> QED BY <2>3, <4>1
    <3>6. CASE <<i, n>> \notin G
      <4>1. <<n, i>> \in G
        BY <3>3, <3>6
      <4>2. ASSUME NEW j \in a..(a + (m - 1)), <<j, n>> \in G
            PROVE  FALSE
        <5>1. j \in a..b
          BY <3>4
        <5>2. <<j, i>> \in G
          BY <3>3, <4>1, <4>2, <5>1
        <5>3. <<i, j>> \in G
          BY <3>2, <5>2
        <5> QED BY <3>3, <3>6, <4>2, <5>1, <5>3
      <4>3. First(m, n)
        <5>1. <<n, n>> \in G /\ n <= n
          BY <3>3
        <5> QED BY <3>3, <4>2, <5>1 DEF n
      <4> QED BY <2>3, <4>3
    <3> QED BY <3>5, <3>6
  <2> QED BY <2>4, <2>5
<1>2. b - a \in 0..(b - a) /\ a + (b - a) = b
  OBVIOUS
<1>3. PICK i : First(b - a, i)
  BY <1>1, <1>2
<1> QED BY <1>2, <1>3

\* Of a list sorted by a number of each, stably, every place is taken.
LEMMA KeyRanks ==
  ASSUME NEW n \in Nat, NEW key \in [1..n -> Int]
  PROVE  \A m \in 1..n : \E i \in 1..n : Cardinality({j \in 1..n : key[j] < key[i] \/ (~(key[i] < key[j]) /\ j < i)}) = m - 1
<1> DEFINE D == 1..n
           T == {p \in D \X D : key[p[1]] < key[p[2]] \/ (~(key[p[2]] < key[p[1]]) /\ p[1] < p[2])}
<1>1. IsFiniteSet(D) /\ Cardinality(D) = n
  <2>1. (IF 1 > n THEN 0 ELSE n - 1 + 1) = n
    OBVIOUS
  <2> QED BY <2>1, FS_Interval
<1>2. \A i \in D : key[i] \in Int /\ i \in Int
  OBVIOUS
<1>3. \A i, j \in D : <<i, j>> \in T <=> key[i] < key[j] \/ (~(key[j] < key[i]) /\ i < j)
  OBVIOUS
<1>4. T \in SUBSET (D \X D)
  OBVIOUS
<1> HIDE DEF D, T
<1>5. \A i \in D : <<i, i>> \notin T
  BY <1>2, <1>3
<1>6. \A i, j \in D : i # j => <<i, j>> \in T \/ <<j, i>> \in T
  BY <1>2, <1>3
<1>7. \A i, j, k \in D : <<i, j>> \in T /\ <<j, k>> \in T => <<i, k>> \in T
  BY <1>2, <1>3
<1>8. ASSUME NEW m \in 1..n
      PROVE  \E i \in D : Cardinality(Ahead(D, T, i)) = m - 1
  <2>1. TotalOrder(D, T)
    BY <1>5, <1>6, <1>7 DEF TotalOrder
  <2>2. m \in 1..Cardinality(D)
    BY <1>1
  <2>3. IsFiniteSet(D)
    BY <1>1
  <2>4. \A k \in 1..Cardinality(D) : \E i \in D : Cardinality(Ahead(D, T, i)) = k - 1
    BY <2>1, <2>3, RanksFilled
  <2> QED BY <2>2, <2>4
<1>9. ASSUME NEW m \in 1..n
      PROVE  \E i \in D : Cardinality({j \in D : key[j] < key[i] \/ (~(key[i] < key[j]) /\ j < i)}) = m - 1
  <2>1. PICK i \in D : Cardinality(Ahead(D, T, i)) = m - 1
    BY <1>8
  <2>2. Ahead(D, T, i) = {j \in D : key[j] < key[i] \/ (~(key[i] < key[j]) /\ j < i)}
    BY <1>3 DEF Ahead
  <2> QED BY <2>1, <2>2
<1> QED BY <1>9 DEF D

-----------------------------------------------------------------------------
(* The list.                                                                *)

\* What is left of a list is of it.
LEMMA WithoutIs ==
  ASSUME NEW S, NEW ms \in Seq(S), NEW gone
  PROVE  Without(ms, gone) \in Seq(S)
<1> DEFINE n == Len(ms)  kept == (1..n) \ gone  c == Cardinality(kept)
           T == {p \in kept \X kept : p[1] < p[2]}
           Nth(m) == CHOOSE i \in kept : Cardinality({j \in kept : j < i}) = m - 1
<1>1. n \in Nat /\ DOMAIN ms = 1..n /\ \A i \in 1..n : ms[i] \in S
  BY LenProperties, ElementOfSeq
<1>2. Without(ms, gone) = [m \in 1..c |-> ms[Nth(m)]]
  BY <1>1 DEF Without
<1> HIDE DEF n
<1>3. IsFiniteSet(kept)
  <2>1. IsFiniteSet(1..n) /\ kept \in SUBSET (1..n)
    BY <1>1, FS_Interval
  <2> QED BY <2>1, FS_Subset
<1>4. \A i \in kept : i \in Int
  BY <1>1
<1>5. T \in SUBSET (kept \X kept) /\ \A i, j \in kept : <<i, j>> \in T <=> i < j
  OBVIOUS
<1>6. kept \subseteq 1..n
  OBVIOUS
<1> HIDE DEF kept, T
<1>7. /\ \A i \in kept : <<i, i>> \notin T
      /\ \A i, j \in kept : i # j => <<i, j>> \in T \/ <<j, i>> \in T
      /\ \A i, j, k \in kept : <<i, j>> \in T /\ <<j, k>> \in T => <<i, k>> \in T
  BY <1>4, <1>5
<1>8. c \in Nat /\ \A m \in 1..c : \E i \in kept : Cardinality(Ahead(kept, T, i)) = m - 1
  <2>1. TotalOrder(kept, T)
    BY <1>7 DEF TotalOrder
  <2> QED BY <1>3, <2>1, RanksFilled
<1>9. ASSUME NEW m \in 1..c
      PROVE  Nth(m) \in kept
  <2>1. PICK i \in kept : Cardinality(Ahead(kept, T, i)) = m - 1
    BY <1>8
  <2>2. Ahead(kept, T, i) = {j \in kept : j < i}
    BY <1>5 DEF Ahead
  <2> QED BY <2>1, <2>2
<1> HIDE DEF c, Nth
<1>10. [m \in 1..c |-> ms[Nth(m)]] \in [1..c -> S]
  BY <1>1, <1>6, <1>9
<1> QED BY <1>2, <1>8, <1>10, FunctionIsSeq

\* Without one, those before it stay where they are.
LosesOne(ms, i) ==
  Len(Without(ms, {i})) = Len(ms) - 1 /\ \A j \in 1..(i - 1) : Without(ms, {i})[j] = ms[j]
LEMMA WithoutOne ==
  ASSUME NEW S, NEW ms \in Seq(S), NEW i \in 1..Len(ms)
  PROVE  LosesOne(ms, i)
<1> DEFINE n == Len(ms)  kept == (1..n) \ {i}  c == Cardinality(kept)
           T == {p \in kept \X kept : p[1] < p[2]}
           Nth(m) == CHOOSE k \in kept : Cardinality({j \in kept : j < k}) = m - 1
<1>1. n \in Nat /\ DOMAIN ms = 1..n /\ i \in 1..n
  BY LenProperties
<1>2. Without(ms, {i}) = [m \in 1..c |-> ms[Nth(m)]]
  BY <1>1 DEF Without
<1> HIDE DEF n
<1>3. IsFiniteSet(1..n) /\ Cardinality(1..n) = n
  <2>1. (IF 1 > n THEN 0 ELSE n - 1 + 1) = n
    BY <1>1
  <2> QED BY <1>1, <2>1, FS_Interval
<1>4. IsFiniteSet(kept) /\ c = n - 1
  BY <1>1, <1>3, FS_RemoveElement
<1>5. \A k \in kept : k \in Int
  BY <1>1
<1>6. \A j, k \in kept : <<j, k>> \in T <=> j < k
  OBVIOUS
<1>7. TotalOrder(kept, T)
  <2> HIDE DEF kept, T
  <2> QED BY <1>5, <1>6 DEF TotalOrder
<1>8. \A j, k \in kept : Cardinality(Ahead(kept, T, j)) = Cardinality(Ahead(kept, T, k)) => j = k
  <2> HIDE DEF kept, T
  <2> QED BY <1>4, <1>7, RanksFilled
<1>9. \A k \in kept : Ahead(kept, T, k) = {j \in kept : j < k}
  <2> HIDE DEF T
  <2> QED BY <1>6 DEF Ahead
<1>10. ASSUME NEW m \in 1..(i - 1)
       PROVE  Nth(m) = m
  <2>1. m \in kept
    BY <1>1
  <2>2. {j \in kept : j < m} = 1..(m - 1)
    BY <1>1
  <2>3. Cardinality(1..(m - 1)) = m - 1
    <3>1. (IF 1 > m - 1 THEN 0 ELSE (m - 1) - 1 + 1) = m - 1 /\ m - 1 \in Int
      BY <1>1
    <3> QED BY <3>1, FS_Interval
  <2> DEFINE F(k) == {j \in kept : j < k}
  <2>4. \A k \in kept : Cardinality(F(k)) = Cardinality(F(m)) => k = m
    BY <1>8, <1>9, <2>1
  <2>5. Cardinality(F(m)) = m - 1
    BY <2>2, <2>3
  <2>6. Nth(m) = CHOOSE k \in kept : Cardinality(F(k)) = m - 1
    OBVIOUS
  <2> HIDE DEF F, Nth, kept
  <2> QED BY <2>1, <2>4, <2>5, <2>6
<1>11. \A j \in 1..(i - 1) : j \in 1..c
  BY <1>1, <1>4
<1>12. c \in Nat
  BY <1>1, <1>4
<1> HIDE DEF c, Nth
<1> DEFINE w == [m \in 1..c |-> ms[Nth(m)]]
<1>13. \A j \in 1..(i - 1) : w[j] = ms[j]
  BY <1>10, <1>11
<1>14. Len(w) = c
  <2>1. w \in [1..c -> {ms[Nth(m)] : m \in 1..c}]
    OBVIOUS
  <2> HIDE DEF w
  <2> QED BY <1>12, <2>1, FunctionIsSeq
<1> HIDE DEF w
<1> QED BY <1>2, <1>4, <1>13, <1>14 DEF w, n, LosesOne
\* Minutiae that lie somewhere.
Placed(S) == \A m \in S : m.pair.at \in Places

\* Sorting loses none and makes none.
LEMMA SortedIs ==
  ASSUME NEW S, NEW ms \in Seq(S), Placed(S)
  PROVE  Sorted(ms) \in Seq(S) /\ Len(Sorted(ms)) = Len(ms)
<1> DEFINE n == Len(ms)
           key == [i \in 1..n |-> ImageWidth * Place(ms[i])[2] + Place(ms[i])[1]]
           Rank1(i) == Cardinality({j \in 1..n : key[j] < key[i] \/ (~(key[i] < key[j]) /\ j < i)})
           Pick(m) == CHOOSE i \in 1..n : Rank1(i) = m - 1
           a == [m \in 1..n |-> ms[Pick(m)]]
<1>1. n \in Nat /\ DOMAIN ms = 1..n /\ \A i \in 1..n : ms[i] \in S
  BY LenProperties, ElementOfSeq
<1>2. key \in [1..n -> Int]
  <2>1. \A i \in 1..n : Place(ms[i])[1] \in Int /\ Place(ms[i])[2] \in Int
    BY <1>1 DEF Placed, Place, Places
  <2>2. \A u, v \in Int : ImageWidth * u + v \in Int
    BY DetectionAssumption
  <2>3. \A i \in 1..n : key[i] \in Int
    BY <2>1, <2>2
  <2>4. key = [i \in 1..n |-> key[i]]
    OBVIOUS
  <2> HIDE DEF n, key
  <2> QED BY <2>3, <2>4
<1>3. \A i, j \in 1..n : Higher(ms[i], ms[j]) <=> key[i] < key[j]
  BY DEF Higher
<1>4. Sorted(ms) = a
  <2>1. ASSUME NEW i \in 1..n
        PROVE  {j \in 1..n : Higher(ms[j], ms[i]) \/ (~Higher(ms[i], ms[j]) /\ j < i)}
                 = {j \in 1..n : key[j] < key[i] \/ (~(key[i] < key[j]) /\ j < i)}
    <3> HIDE DEF key
    <3> QED BY <1>3
  <2> DEFINE Rank2(i) == Cardinality({j \in 1..n : Higher(ms[j], ms[i]) \/ (~Higher(ms[i], ms[j]) /\ j < i)})
  <2>2. \A i \in 1..n : Rank2(i) = Rank1(i)
    BY <2>1
  <2>3. Sorted(ms) = [m \in 1..n |-> ms[CHOOSE i \in 1..n : Rank2(i) = m - 1]]
    BY <1>1 DEF Sorted, Arranged
  <2> HIDE DEF Rank1, Rank2, n
  <2>4. \A m \in 1..n : (CHOOSE i \in 1..n : Rank2(i) = m - 1) = CHOOSE i \in 1..n : Rank1(i) = m - 1
    BY <2>2
  <2> QED BY <2>3, <2>4
<1>5. \A m \in 1..n : \E i \in 1..n : Rank1(i) = m - 1
  <2> HIDE DEF key, n
  <2> QED BY <1>1, <1>2, KeyRanks
<1> HIDE DEF Rank1, n
<1>6. \A m \in 1..n : Pick(m) \in 1..n
  BY <1>5
<1> HIDE DEF Pick
<1>7. a \in [1..n -> S]
  BY <1>1, <1>6
<1> HIDE DEF a
<1> QED BY <1>1, <1>4, <1>7, FunctionIsSeq DEF n

\* Nor does the second sort.
LEMMA ArrangedIs ==
  ASSUME NEW S, NEW ms \in Seq(S), Placed(S)
  PROVE  Arranged(ms, MoreLeft) \in Seq(S) /\ Len(Arranged(ms, MoreLeft)) = Len(ms)
<1> DEFINE n == Len(ms)
           key == [i \in 1..n |-> Place(ms[i])[1] * ImageWidth + Place(ms[i])[2]]
           Rank1(i) == Cardinality({j \in 1..n : key[j] < key[i] \/ (~(key[i] < key[j]) /\ j < i)})
           Pick(m) == CHOOSE i \in 1..n : Rank1(i) = m - 1
           a == [m \in 1..n |-> ms[Pick(m)]]
<1>1. n \in Nat /\ DOMAIN ms = 1..n /\ \A i \in 1..n : ms[i] \in S
  BY LenProperties, ElementOfSeq
<1>2. key \in [1..n -> Int]
  <2>1. \A i \in 1..n : Place(ms[i])[1] \in Int /\ Place(ms[i])[2] \in Int
    BY <1>1 DEF Placed, Place, Places
  <2>2. \A u, v \in Int : u * ImageWidth + v \in Int
    BY DetectionAssumption
  <2>3. \A i \in 1..n : key[i] \in Int
    BY <2>1, <2>2
  <2>4. key = [i \in 1..n |-> key[i]]
    OBVIOUS
  <2> HIDE DEF n, key
  <2> QED BY <2>3, <2>4
<1>3. \A i, j \in 1..n : MoreLeft(ms[i], ms[j]) <=> key[i] < key[j]
  BY DEF MoreLeft
<1>4. Arranged(ms, MoreLeft) = a
  <2>1. ASSUME NEW i \in 1..n
        PROVE  {j \in 1..n : MoreLeft(ms[j], ms[i]) \/ (~MoreLeft(ms[i], ms[j]) /\ j < i)}
                 = {j \in 1..n : key[j] < key[i] \/ (~(key[i] < key[j]) /\ j < i)}
    <3> HIDE DEF key
    <3> QED BY <1>3
  <2> DEFINE Rank2(i) == Cardinality({j \in 1..n : MoreLeft(ms[j], ms[i]) \/ (~MoreLeft(ms[i], ms[j]) /\ j < i)})
  <2>2. \A i \in 1..n : Rank2(i) = Rank1(i)
    BY <2>1
  <2>3. Arranged(ms, MoreLeft) = [m \in 1..n |-> ms[CHOOSE i \in 1..n : Rank2(i) = m - 1]]
    BY <1>1 DEF Arranged
  <2> HIDE DEF Rank1, Rank2, n
  <2>4. \A m \in 1..n : (CHOOSE i \in 1..n : Rank2(i) = m - 1) = CHOOSE i \in 1..n : Rank1(i) = m - 1
    BY <2>2
  <2> QED BY <2>3, <2>4
<1>5. \A m \in 1..n : \E i \in 1..n : Rank1(i) = m - 1
  <2> HIDE DEF key, n
  <2> QED BY <1>1, <1>2, KeyRanks
<1> HIDE DEF Rank1, n
<1>6. \A m \in 1..n : Pick(m) \in 1..n
  BY <1>5
<1> HIDE DEF Pick
<1>7. a \in [1..n -> S]
  BY <1>1, <1>6
<1> HIDE DEF a
<1> QED BY <1>1, <1>4, <1>7, FunctionIsSeq DEF n
-----------------------------------------------------------------------------
(* Contours.                                                                *)

\* Pairs that lie somewhere, with one colour on the border and one beyond it.
Bordering(S, img, a, e) == \A q \in S : q.at \in Places /\ img[q.at] = a /\ img[q.edge] = e
Borders(c, img, a, e) == \E S : c \in Seq(S) /\ Bordering(S, img, a, e)

\* The next pair has the colours of the last.
LEMMA NextPairIs ==
  ASSUME NEW img, DOMAIN img \subseteq Places, NEW pair, NEW scan
  PROVE  \/ NextPair(img, pair, scan) = <<>>
         \/ \E q : NextPair(img, pair, scan) = <<q>> /\ Bordering({q}, img, img[pair.at], img[pair.edge])
<1> DEFINE around == Around(pair, scan)
           F(k) == Final(img, pair, around, k)
           last == CHOOSE k \in 0..8 : (\A j \in 0..(k - 1) : ~F(j)) /\ F(k)
           q == [at |-> around[last + 1], edge |-> around[last]]
<1>1. NextPair(img, pair, scan) = IF last = 8 \/ Leaves(img, pair, around, last) THEN <<>> ELSE <<q>>
  BY DEF NextPair, PairFrom
<1>2. F(8)
  BY DEF Final
<1>3. \A k : F(k) => k = 8 \/ Leaves(img, pair, around, k) \/ Follows(img, pair, around, k)
  BY DEF Final
<1> HIDE DEF around
<1> HIDE DEF F
<1>4. \E k \in 0..8 : (\A j \in 0..(k - 1) : ~F(j)) /\ F(k)
  <2> DEFINE T == {k \in 0..8 : F(k)}
  <2>1. T \in SUBSET Nat /\ 8 \in T
    BY <1>2
  <2>2. PICK k \in T : \A y \in T : k <= y
    BY <2>1, LeastNumber
  <2>3. \A j \in 0..(k - 1) : ~F(j)
    <3>1. \A j \in 0..(k - 1) : j \in 0..8 /\ ~(k <= j)
      OBVIOUS
    <3> QED BY <2>2, <3>1
  <2> QED BY <2>3
<1>5. last \in 0..8 /\ F(last)
  BY <1>4
<1> HIDE DEF last
<1>6. CASE last = 8 \/ Leaves(img, pair, around, last)
  BY <1>1, <1>6
<1>7. CASE ~(last = 8 \/ Leaves(img, pair, around, last))
  <2>1. Follows(img, pair, around, last) /\ around[last + 1] \in DOMAIN img
    BY <1>3, <1>5, <1>7 DEF Leaves
  <2>2. img[around[last]] = img[pair.edge] /\ img[around[last + 1]] = img[pair.at]
    BY <2>1 DEF Follows, Changes
  <2>3. q.at = around[last + 1] /\ q.edge = around[last]
    OBVIOUS
  <2>4. q.at \in Places /\ img[q.at] = img[pair.at] /\ img[q.edge] = img[pair.edge]
    BY <2>1, <2>2, <2>3
  <2> HIDE DEF q
  <2> QED BY <1>1, <1>7, <2>4 DEF Bordering
<1> QED BY <1>6, <1>7

\* What a walk is after each step.
Walks(img, scan, trigger, pair, n, f) ==
  f = [k \in 0..n |-> IF k = 0 THEN [end |-> "on", pairs |-> <<pair>>] ELSE OnceMore(img, scan, trigger, f[k - 1])]

LEMMA WalksExist ==
  ASSUME NEW img, NEW scan, NEW trigger, NEW pair, NEW n \in Nat
  PROVE  \E f : Walks(img, scan, trigger, pair, n, f)
<1> DEFINE start == [end |-> "on", pairs |-> <<pair>>]
           T == {m \in Nat : ~\E f : Walks(img, scan, trigger, pair, m, f)}
<1> SUFFICES ASSUME T # {} PROVE FALSE
  OBVIOUS
<1>1. PICK m \in T : \A y \in T : m <= y
  BY LeastNumber
<1> HIDE DEF start
<1>2. CASE m = 0
  <2> DEFINE f == [k \in 0..0 |-> start]
  <2>1. f = [k \in 0..0 |-> IF k = 0 THEN start ELSE OnceMore(img, scan, trigger, f[k - 1])]
    OBVIOUS
  <2> HIDE DEF f
  <2> QED BY <1>1, <1>2, <2>1 DEF Walks, start
<1>3. CASE m # 0
  <2>1. m - 1 \in Nat /\ (m - 1) + 1 = m /\ m - 1 \notin T
    <3>1. m \in Nat /\ m - 1 \in Nat /\ (m - 1) + 1 = m /\ ~(m <= m - 1)
      BY <1>3
    <3> HIDE DEF T
    <3> QED BY <1>1, <3>1
  <2>2. PICK f : f = [k \in 0..(m - 1) |-> IF k = 0 THEN start ELSE OnceMore(img, scan, trigger, f[k - 1])]
    BY <2>1 DEF Walks, start
  <2> DEFINE g == [k \in 0..m |-> IF k = m THEN OnceMore(img, scan, trigger, f[m - 1]) ELSE f[k]]
  <2>3. ASSUME NEW k \in 0..m
        PROVE  g[k] = IF k = 0 THEN start ELSE OnceMore(img, scan, trigger, g[k - 1])
    <3>1. CASE k = m
      <4>1. g[k] = OnceMore(img, scan, trigger, f[m - 1]) /\ g[m - 1] = f[m - 1]
        BY <2>1, <3>1
      <4> HIDE DEF g
      <4> QED BY <1>3, <3>1, <4>1
    <3>2. CASE k # m
      <4>1. k \in 0..(m - 1) /\ (k # 0 => k - 1 \in 0..m /\ k - 1 # m)
        BY <2>1, <3>2
      <4>2. f[k] = IF k = 0 THEN start ELSE OnceMore(img, scan, trigger, f[k - 1])
        BY <2>2, <4>1
      <4>3. g[k] = f[k] /\ (k # 0 => g[k - 1] = f[k - 1])
        BY <3>2, <4>1
      <4> HIDE DEF g
      <4> QED BY <4>2, <4>3
    <3> QED BY <3>1, <3>2
  <2>4. g = [k \in 0..m |-> g[k]]
    OBVIOUS
  <2> HIDE DEF g
  <2>5. g = [k \in 0..m |-> IF k = 0 THEN start ELSE OnceMore(img, scan, trigger, g[k - 1])]
    BY <2>3, <2>4
  <2> QED BY <1>1, <2>5 DEF Walks, start
<1> QED BY <1>2, <1>3

\* A walk keeps to the border it starts on.
LEMMA WalkIs ==
  ASSUME NEW img, DOMAIN img \subseteq Places, NEW scan, NEW trigger, NEW pair, pair.at \in Places, NEW length \in Nat
  PROVE  Borders(Walk(img, scan, trigger, pair, length).pairs, img, img[pair.at], img[pair.edge])
<1> DEFINE a == img[pair.at]  e == img[pair.edge]
           f == CHOOSE f : Walks(img, scan, trigger, pair, length, f)
           Good(w) == /\ w = [end |-> w.end, pairs |-> w.pairs]
                      /\ \E S : w.pairs \in Seq(S) /\ w.pairs # <<>> /\ Bordering(S, img, a, e)
<1> HIDE DEF a, e
<1>1. Walks(img, scan, trigger, pair, length, f)
  BY WalksExist
<1>2. Walk(img, scan, trigger, pair, length).pairs = Tail(f[length].pairs)
  BY DEF Walk, Walks
<1> HIDE DEF f
<1>3. \A k \in 0..length : f[k] = IF k = 0 THEN [end |-> "on", pairs |-> <<pair>>] ELSE OnceMore(img, scan, trigger, f[k - 1])
  BY <1>1 DEF Walks
<1>4. Good([end |-> "on", pairs |-> <<pair>>])
  <2> DEFINE w == [end |-> "on", pairs |-> <<pair>>]
  <2>1. w.pairs = <<pair>> /\ w.end = "on" /\ w = [end |-> w.end, pairs |-> w.pairs]
    OBVIOUS
  <2>2. <<pair>> \in Seq({pair}) /\ <<pair>> # <<>>
    OBVIOUS
  <2>3. Bordering({pair}, img, a, e)
    BY DEF Bordering, a, e
  <2> HIDE DEF w
  <2>4. Good(w)
    BY <2>1, <2>2, <2>3
  <2> QED BY <2>4 DEF w
<1>5. ASSUME NEW w, Good(w)
      PROVE  Good(OnceMore(img, scan, trigger, w))
  <2>1. CASE w.end # "on"
    BY <1>5, <2>1 DEF OnceMore
  <2>2. CASE w.end = "on"
    <3> DEFINE next == NextPair(img, Last(w.pairs), scan)
               v == Extended(w, next, trigger)
    <3>1. OnceMore(img, scan, trigger, w) = v
      BY <2>2 DEF OnceMore
    <3>2. PICK S : w.pairs \in Seq(S) /\ w.pairs # <<>> /\ Bordering(S, img, a, e)
      BY <1>5
    <3>3. Last(w.pairs) \in S
      <4>1. Len(w.pairs) \in 1..Len(w.pairs)
        BY <3>2
      <4> QED BY <3>2, <4>1, ElementOfSeq DEF Last
    <3>4. img[Last(w.pairs).at] = a /\ img[Last(w.pairs).edge] = e
      BY <3>2, <3>3 DEF Bordering
    <3>5. next = <<>> \/ \E q : next = <<q>> /\ Bordering({q}, img, a, e)
      BY <3>4, NextPairIs
    <3> HIDE DEF next
    <3>6. w = [end |-> w.end, pairs |-> w.pairs]
      BY <1>5
    <3>7. CASE next = <<>>
      <4>1. v = [end |-> "traced", pairs |-> w.pairs]
        <5>1. v = [w EXCEPT !.end = "traced"]
          BY <3>7 DEF Extended
        <5> QED BY <3>6, <5>1
      <4>2. v.pairs = w.pairs /\ v = [end |-> v.end, pairs |-> v.pairs]
        BY <4>1
      <4> HIDE DEF v
      <4> QED BY <3>1, <3>2, <4>2
    <3>8. CASE next # <<>> /\ next[1].at = trigger
      <4>1. v = [end |-> "loop", pairs |-> w.pairs]
        <5>1. v = [w EXCEPT !.end = "loop"]
          BY <3>8 DEF Extended
        <5> QED BY <3>6, <5>1
      <4>2. v.pairs = w.pairs /\ v = [end |-> v.end, pairs |-> v.pairs]
        BY <4>1
      <4> HIDE DEF v
      <4> QED BY <3>1, <3>2, <4>2
    <3>9. CASE next # <<>> /\ next[1].at # trigger
      <4>1. v = [end |-> w.end, pairs |-> w.pairs \o next]
        <5>1. v = [w EXCEPT !.pairs = @ \o next]
          BY <3>9, Zenon DEF Extended
        <5> QED BY <3>6, <5>1
      <4>2. v.pairs = w.pairs \o next /\ v = [end |-> v.end, pairs |-> v.pairs]
        BY <4>1
      <4> HIDE DEF v
      <4>3. PICK q : next = <<q>> /\ Bordering({q}, img, a, e)
        BY <3>5, <3>9
      <4> DEFINE U == S \cup {q}
      <4>4. Bordering(U, img, a, e)
        BY <3>2, <4>3 DEF Bordering
      <4>5. w.pairs \in Seq(U) /\ next \in Seq(U)
        <5>1. S \subseteq U /\ q \in U
          OBVIOUS
        <5> HIDE DEF U
        <5>2. w.pairs \in Seq(U)
          BY <3>2, <5>1
        <5> QED BY <4>3, <5>1, <5>2
      <4> HIDE DEF U
      <4>6. v.pairs \in Seq(U) /\ Len(v.pairs) = Len(w.pairs) + Len(next)
        BY <4>2, <4>5, ConcatProperties
      <4>7. v.pairs # <<>>
        <5>1. Len(w.pairs) \in Nat /\ Len(next) \in Nat /\ Len(w.pairs) # 0
          BY <3>2, <4>5
        <5>2. Len(v.pairs) # 0
          BY <4>6, <5>1
        <5> QED BY <5>2
      <4> QED BY <3>1, <4>2, <4>4, <4>6, <4>7
    <3> QED BY <3>7, <3>8, <3>9
  <2> QED BY <2>1, <2>2
<1> HIDE DEF Good
<1>6. \A k \in 0..length : Good(f[k])
  <2> DEFINE T == {k \in 0..length : ~Good(f[k])}
  <2> SUFFICES ASSUME T # {} PROVE FALSE
    OBVIOUS
  <2>1. T \in SUBSET Nat
    OBVIOUS
  <2>2. PICK k \in T : \A y \in T : k <= y
    BY <2>1, LeastNumber
  <2>3. k \in 0..length /\ ~Good(f[k]) /\ \A y \in 0..length : ~(k <= y) => Good(f[y])
    BY <2>2
  <2> HIDE DEF T
  <2>4. k # 0
    BY <1>3, <1>4, <2>3
  <2>5. k - 1 \in 0..length /\ ~(k <= k - 1)
    BY <2>3, <2>4
  <2>6. Good(f[k - 1])
    BY <2>3, <2>5
  <2> QED BY <1>3, <1>5, <2>3, <2>4, <2>6
<1>7. Good(f[length])
  <2>1. length \in 0..length
    OBVIOUS
  <2> QED BY <1>6, <2>1
<1>8. PICK S : f[length].pairs \in Seq(S) /\ f[length].pairs # <<>> /\ Bordering(S, img, a, e)
  BY <1>7 DEF Good
<1>9. Tail(f[length].pairs) \in Seq(S)
  BY <1>8
<1> QED BY <1>2, <1>8, <1>9 DEF a, e, Borders
\* So does a trace; one that is not ignored starts on a border.
LEMMA TraceIs ==
  ASSUME NEW img, DOMAIN img \subseteq Places, NEW scan, NEW trigger, NEW pair, pair.at \in Places, NEW length \in Nat
  PROVE  LET trace == TraceContour(img, length, trigger, pair, scan)
         IN  /\ Borders(trace.pairs, img, img[pair.at], img[pair.edge])
             /\ trace.end # "ignore" => img[pair.at] # img[pair.edge]
<1> DEFINE trace == TraceContour(img, length, trigger, pair, scan)
<1>1. CASE img[pair.at] = img[pair.edge]
  <2>1. trace.end = "ignore" /\ trace.pairs = <<>>
    BY <1>1 DEF TraceContour
  <2>2. <<>> \in Seq({}) /\ Bordering({}, img, img[pair.at], img[pair.edge])
    BY DEF Bordering
  <2> QED BY <2>1, <2>2 DEF Borders
<1>2. CASE img[pair.at] # img[pair.edge]
  <2>1. trace = Walk(img, scan, trigger, pair, length)
    BY <1>2 DEF TraceContour
  <2> QED BY <1>2, <2>1, WalkIs
<1> QED BY <1>1, <1>2

LEMMA ReverseIs ==
  ASSUME NEW S, NEW s \in Seq(S)
  PROVE  Reverse(s) \in Seq(S) /\ Len(Reverse(s)) = Len(s)
<1> DEFINE n == Len(s)  r == [i \in 1..n |-> s[(n - i) + 1]]
<1>1. n \in Nat /\ \A i \in 1..n : s[i] \in S
  BY LenProperties, ElementOfSeq
<1>2. Reverse(s) = r
  BY DEF Reverse
<1> HIDE DEF n
<1>3. \A i \in 1..n : (n - i) + 1 \in 1..n
  BY <1>1
<1>4. r \in [1..n -> S]
  BY <1>1, <1>3
<1> HIDE DEF r
<1> QED BY <1>1, <1>2, <1>4, FunctionIsSeq DEF n

LEMMA ConcatIs ==
  ASSUME NEW S, NEW s \in Seq(S), NEW t \in Seq(S)
  PROVE  s \o t \in Seq(S) /\ Len(s \o t) = Len(s) + Len(t)
BY ConcatProperties

\* Two traces from one pair, joined.
BordersFor(c, n, img, a, e) == Borders(c, img, a, e) /\ Len(c) = n
LEMMA JoinedIs ==
  ASSUME NEW img, NEW a, NEW e, NEW pair, Bordering({pair}, img, a, e), NEW first, NEW second,
         Borders(first.pairs, img, a, e), Borders(second.pairs, img, a, e)
  PROVE  BordersFor(Joined(first, pair, second), Len(first.pairs) + 1 + Len(second.pairs), img, a, e)
<1>0. PICK S, T : /\ first.pairs \in Seq(S) /\ Bordering(S, img, a, e)
                  /\ second.pairs \in Seq(T) /\ Bordering(T, img, a, e)
  BY DEF Borders
<1> DEFINE U == (S \cup T) \cup {pair}  r == Reverse(first.pairs)  p == <<pair>>  t == second.pairs
<1>1. Bordering(U, img, a, e)
  BY <1>0 DEF Bordering
<1>2. S \subseteq U /\ T \subseteq U /\ pair \in U
  OBVIOUS
<1> HIDE DEF U
<1>3. r \in Seq(S) /\ Len(r) = Len(first.pairs)
  BY <1>0, ReverseIs
<1>4. r \in Seq(U) /\ t \in Seq(U) /\ p \in Seq(U) /\ Len(p) = 1
  BY <1>0, <1>2, <1>3
<1>5. Joined(first, pair, second) = (r \o p) \o t
  BY DEF Joined
<1> HIDE DEF r, p, t
<1>6. r \o p \in Seq(U) /\ Len(r \o p) = Len(r) + 1
  BY <1>4, ConcatIs
<1> DEFINE u == r \o p
<1>7. u \in Seq(U) /\ Len(u) = Len(r) + 1
  BY <1>6
<1>8. Joined(first, pair, second) = u \o t
  BY <1>5
<1> HIDE DEF u
<1>9. u \o t \in Seq(U) /\ Len(u \o t) = Len(u) + Len(t)
  BY <1>4, <1>7, ConcatIs
<1> QED BY <1>1, <1>3, <1>7, <1>8, <1>9 DEF t, Borders, BordersFor

\* A centred contour is of pairs of two colours.
LEMMA CenteredIs ==
  ASSUME NEW img, DOMAIN img \subseteq Places, NEW pair, pair.at \in Places, NEW half \in Nat
  PROVE  \A i \in DOMAIN CenteredContour(img, half, pair) :
           LET q == CenteredContour(img, half, pair)[i] IN q.at \in Places /\ img[q.at] # img[q.edge]
<1> DEFINE c == CenteredContour(img, half, pair)
           first == FirstHalf(img, half, pair)  second == SecondHalf(img, half, pair, first)
           a == img[pair.at]  e == img[pair.edge]
<1>1. Borders(first.pairs, img, a, e) /\ (first.end # "ignore" => a # e)
  BY TraceIs DEF FirstHalf
<1>2. Borders(second.pairs, img, a, e)
  BY TraceIs DEF SecondHalf
<1>3. c = IF Complete(first, half) /\ Complete(second, half) THEN Joined(first, pair, second) ELSE <<>>
  BY DEF CenteredContour
<1>4. Bordering({pair}, img, a, e)
  BY DEF Bordering
<1> HIDE DEF c, first, second, a, e
<1>5. CASE ~(Complete(first, half) /\ Complete(second, half))
  BY <1>3, <1>5 DEF c
<1>6. CASE Complete(first, half) /\ Complete(second, half)
  <2>1. a # e
    BY <1>1, <1>6 DEF Complete
  <2>2. PICK U : c \in Seq(U) /\ Bordering(U, img, a, e)
    BY <1>1, <1>2, <1>3, <1>4, <1>6, JoinedIs DEF BordersFor, Borders
  <2>3. \A i \in DOMAIN c : c[i] \in U
    BY <2>2
  <2> QED BY <2>1, <2>2, <2>3 DEF Bordering, c
<1> QED BY <1>5, <1>6

\* A contour of high curvature lies somewhere, and is whole if it says so.
LEMMA HighCurvatureIs ==
  ASSUME NEW img, DOMAIN img \subseteq Places, NEW pair, pair.at \in Places, NEW half \in Nat
  PROVE  LET contour == HighCurvatureContour(img, half, pair)
         IN  /\ contour.end = "whole" => \E U : contour.pairs \in Seq(U) /\ (\A q \in U : q.at \in Places) /\ Len(contour.pairs) = 2 * half + 1
             /\ contour.end = "loop" => \E U : contour.pairs \in Seq(U) /\ \A q \in U : q.at \in Places
<1> DEFINE contour == HighCurvatureContour(img, half, pair)
           first == FirstHalf(img, half, pair)  second == SecondHalf(img, half, pair, first)
           a == img[pair.at]  e == img[pair.edge]
<1>1. Borders(first.pairs, img, a, e)
  BY TraceIs DEF FirstHalf
<1>2. Borders(second.pairs, img, a, e)
  BY TraceIs DEF SecondHalf
<1>3. contour = IF first.end = "loop" THEN [end |-> "loop", pairs |-> <<pair>> \o Reverse(first.pairs)]
                ELSE IF ~Complete(first, half) THEN [end |-> "empty", pairs |-> <<>>]
                ELSE IF second.end = "loop" THEN [end |-> "loop", pairs |-> Joined(first, pair, second)]
                ELSE IF Complete(second, half) THEN [end |-> "whole", pairs |-> Joined(first, pair, second)]
                ELSE [end |-> "empty", pairs |-> <<>>]
  BY DEF HighCurvatureContour, FirstTraced, SecondTraced
<1>4. Bordering({pair}, img, a, e)
  BY DEF Bordering
<1> HIDE DEF contour, first, second, a, e
<1>5. PICK U : /\ Joined(first, pair, second) \in Seq(U) /\ Bordering(U, img, a, e)
               /\ Len(Joined(first, pair, second)) = Len(first.pairs) + 1 + Len(second.pairs)
  <2>1. BordersFor(Joined(first, pair, second), Len(first.pairs) + 1 + Len(second.pairs), img, a, e)
    BY <1>1, <1>2, <1>4, JoinedIs
  <2> QED BY <2>1 DEF Borders, BordersFor
<1>6. \A q \in U : q.at \in Places
  BY <1>5 DEF Bordering
<1>7. CASE first.end = "loop"
  <2>1. contour.end = "loop" /\ contour.pairs = <<pair>> \o Reverse(first.pairs)
    BY <1>3, <1>7
  <2>2. PICK S : first.pairs \in Seq(S) /\ Bordering(S, img, a, e)
    BY <1>1 DEF Borders
  <2> DEFINE V == S \cup {pair}
  <2>3. \A q \in V : q.at \in Places
    BY <2>2 DEF Bordering
  <2>4. <<pair>> \in Seq(V) /\ S \subseteq V
    OBVIOUS
  <2> HIDE DEF V
  <2>5. Reverse(first.pairs) \in Seq(V)
    BY <2>2, <2>4, ReverseIs
  <2>6. <<pair>> \o Reverse(first.pairs) \in Seq(V)
    BY <2>4, <2>5, ConcatProperties
  <2> QED BY <2>1, <2>3, <2>6 DEF contour
<1>8. CASE first.end # "loop" /\ ~Complete(first, half)
  <2>1. contour.end = "empty"
    BY <1>3, <1>8
  <2> QED BY <2>1 DEF contour
<1>9. CASE first.end # "loop" /\ Complete(first, half) /\ second.end = "loop"
  <2>1. contour.end = "loop" /\ contour.pairs = Joined(first, pair, second)
    BY <1>3, <1>9
  <2> QED BY <1>5, <1>6, <2>1 DEF contour
<1>10. CASE first.end # "loop" /\ Complete(first, half) /\ second.end # "loop"
  <2>1. CASE Complete(second, half)
    <3>1. contour.end = "whole" /\ contour.pairs = Joined(first, pair, second)
      BY <1>3, <1>10, <2>1
    <3>2. Len(Joined(first, pair, second)) = 2 * half + 1
      BY <1>5, <1>10, <2>1 DEF Complete
    <3> QED BY <1>5, <1>6, <3>1, <3>2 DEF contour
  <2>2. CASE ~Complete(second, half)
    <3>1. contour.end = "empty"
      BY <1>3, <1>10, <2>2
    <3> QED BY <3>1 DEF contour
  <2> QED BY <2>1, <2>2
<1> QED BY <1>7, <1>8, <1>9, <1>10
-----------------------------------------------------------------------------
(* The points that are chosen on a contour.                                 *)

LEMMA Products ==
  ASSUME NEW x \in Int, NEW y \in Int, NEW z \in Int, z > 0
  PROVE  (x >= y => x * z >= y * z) /\ (x * z >= y * z => x >= y)
<1>1. x >= y => x * z >= y * z
  <2> HAVE x >= y
  <2>1. PICK d \in Nat : x = y + d
    <3>1. x - y \in Nat /\ x = y + (x - y)
      OBVIOUS
    <3> QED BY <3>1
  <2>2. d * z >= 0
    BY <2>1
  <2> QED BY <2>1, <2>2
<1>2. x < y => x * z < y * z
  <2> HAVE x < y
  <2>1. PICK d \in Nat : y = (x + 1) + d
    <3>1. y - (x + 1) \in Nat /\ y = (x + 1) + (y - (x + 1))
      OBVIOUS
    <3> QED BY <3>1
  <2>2. d * z >= 0 /\ d * z \in Int /\ x * z \in Int
    BY <2>1
  <2>3. y * z = x * z + z + d * z
    BY <2>1
  <2> QED BY <2>2, <2>3
<1>3. x * z \in Int /\ y * z \in Int
  OBVIOUS
<1> QED BY <1>1, <1>2, <1>3

\* Fractions compare as numbers do.
LEMMA Fractions ==
  ASSUME NEW a \in Int, NEW b \in Int, NEW c \in Int, NEW p \in Int, NEW q \in Int, NEW r \in Int, p > 0, q > 0, r > 0,
         a * q >= b * p, b * r >= c * q
  PROVE  a * r >= c * p
<1>1. (a * q) * r >= (b * p) * r
  <2>1. a * q \in Int /\ b * p \in Int
    OBVIOUS
  <2> QED BY <2>1, Products
<1>2. (b * r) * p >= (c * q) * p
  <2>1. b * r \in Int /\ c * q \in Int
    OBVIOUS
  <2> QED BY <2>1, Products
<1>3. (a * q) * r = (a * r) * q /\ (b * p) * r = (b * r) * p /\ (c * q) * p = (c * p) * q
  OBVIOUS
<1>4. (a * r) * q >= (c * p) * q
  <2>1. (a * r) * q \in Int /\ (b * r) * p \in Int /\ (c * p) * q \in Int
    OBVIOUS
  <2> QED BY <1>1, <1>2, <1>3, <2>1
<1>5. a * r \in Int /\ c * p \in Int
  OBVIOUS
<1> QED BY <1>4, <1>5, Products

LEMMA WidestIs ==
  ASSUME NEW U, NEW c \in Seq(U), \A q \in U : q.at \in Places, Len(c) > 3
  PROVE  Widest(c) \in 1..Len(c) /\ Opposite(c, Widest(c)) \in 1..Len(c)
<1> DEFINE n == Len(c)  b == IF n % 2 = 1 THEN n ELSE n \div 2
           G == {p \in (1..b) \X (1..b) : Span(c, p[1]) >= Span(c, p[2])}
<1>1. n \in Nat /\ n > 3 /\ \A i \in 1..n : c[i] \in U
  BY LenProperties, ElementOfSeq
<1>2. SpanStarts(c) = 1..b
  BY DEF SpanStarts
<1>3. \A i \in 1..n : Opposite(c, i) \in 1..n
  <2> SUFFICES ASSUME NEW i \in 1..n PROVE Opposite(c, i) \in 1..n
    OBVIOUS
  <2> DEFINE x == i - 1 + n \div 2
  <2>1. x \in Nat /\ Opposite(c, i) = (x % n) + 1
    BY <1>1 DEF Opposite
  <2> HIDE DEF x, n
  <2>2. x % n \in 0..(n - 1)
    BY <1>1, <2>1
  <2> QED BY <1>1, <2>1, <2>2
<1>4. \A i \in 1..n : c[i].at[1] \in Int /\ c[i].at[2] \in Int
  BY <1>1 DEF Places
<1>5. \A i \in 1..n : Span(c, i) \in Int
  <2> SUFFICES ASSUME NEW i \in 1..n PROVE Span(c, i) \in Int
    OBVIOUS
  <2> DEFINE o == Opposite(c, i)
  <2>1. o \in 1..n
    BY <1>3
  <2> HIDE DEF o
  <2>2. \A u \in Int : u * u \in Int
    OBVIOUS
  <2>3. c[i].at[1] \in Int /\ c[i].at[2] \in Int /\ c[o].at[1] \in Int /\ c[o].at[2] \in Int
    BY <1>4, <2>1
  <2> DEFINE x == c[i].at[1] - c[o].at[1]  y == c[i].at[2] - c[o].at[2]
  <2>4. x \in Int /\ y \in Int
    <3>1. \A s, t \in Int : s - t \in Int
      OBVIOUS
    <3> QED BY <2>3, <3>1, Zenon
  <2>5. SquaredDistance(c[i].at, c[o].at) = x * x + y * y
    BY DEF SquaredDistance
  <2> HIDE DEF x, y
  <2>6. SquaredDistance(c[i].at, c[o].at) \in Int
    BY <2>2, <2>4, <2>5
  <2> QED BY <2>6 DEF Span, o
<1>6. b \in 1..n
  BY <1>1
<1>7. \A i \in 1..b : i \in 1..n /\ Span(c, i) \in Int
  BY <1>1, <1>5, <1>6
<1>8. \A i, j \in 1..b : <<i, j>> \in G <=> Span(c, i) >= Span(c, j)
  OBVIOUS
<1>9. Widest(c) = CHOOSE i \in 1..b : \A j \in 1..b : Span(c, j) < Span(c, i) \/ (Span(c, j) = Span(c, i) /\ i <= j)
  BY <1>2 DEF Widest
<1> HIDE DEF b, G, n
<1>10. /\ \A i, j \in 1..b : <<i, j>> \in G \/ <<j, i>> \in G
       /\ \A i, j, k \in 1..b : <<i, j>> \in G /\ <<j, k>> \in G => <<i, k>> \in G
  BY <1>7, <1>8
<1>11. \E i \in 1..b : \A j \in 1..b : <<j, i>> \notin G \/ (<<i, j>> \in G /\ i <= j)
  <2>1. 1 \in Int /\ b \in Int /\ 1 <= b
    BY <1>1, <1>6
  <2> QED BY <1>10, <2>1, FirstOfTheBest
<1>12. \E i \in 1..b : \A j \in 1..b : Span(c, j) < Span(c, i) \/ (Span(c, j) = Span(c, i) /\ i <= j)
  <2>1. PICK i \in 1..b : \A j \in 1..b : <<j, i>> \notin G \/ (<<i, j>> \in G /\ i <= j)
    BY <1>11
  <2>2. ASSUME NEW j \in 1..b
        PROVE  Span(c, j) < Span(c, i) \/ (Span(c, j) = Span(c, i) /\ i <= j)
    <3> DEFINE x == Span(c, i)  y == Span(c, j)
    <3>1. x \in Int /\ y \in Int
      BY <1>7
    <3>2. (<<j, i>> \in G <=> y >= x) /\ (<<i, j>> \in G <=> x >= y)
      BY <1>8
    <3>3. <<j, i>> \notin G \/ (<<i, j>> \in G /\ i <= j)
      BY <2>1
    <3> HIDE DEF x, y
    <3>4. y < x \/ (y = x /\ i <= j)
      BY <3>1, <3>2, <3>3
    <3> QED BY <3>4 DEF x, y
  <2> QED BY <2>2
<1>13. Widest(c) \in 1..b
  BY <1>9, <1>12
<1> QED BY <1>3, <1>7, <1>13 DEF n

\* An arm has a length.
LEMMA ArmIs ==
  ASSUME NEW p \in Places, NEW q \in Places
  PROVE  Arm(p, q) \in Places /\ Dot(Arm(p, q), Arm(p, q)) > 0
<1>1. p[1] \in Int /\ p[2] \in Int /\ q[1] \in Int /\ q[2] \in Int /\ p = <<p[1], p[2]>> /\ q = <<q[1], q[2]>>
  BY DEF Places
<1>2. \A u \in Int : u * u \in Int /\ u * u >= 0 /\ (u # 0 => u * u > 0)
  OBVIOUS
<1>3. CASE p = q
  BY <1>3 DEF Arm, Dot, Places
<1>4. CASE p # q
  <2> DEFINE x == q[1] - p[1]  y == q[2] - p[2]
  <2>1. Arm(p, q) = <<x, y>>
    BY <1>4 DEF Arm
  <2>2. x \in Int /\ y \in Int /\ (x # 0 \/ y # 0)
    BY <1>1, <1>4
  <2>3. Dot(Arm(p, q), Arm(p, q)) = x * x + y * y
    BY <2>1 DEF Dot
  <2> HIDE DEF x, y
  <2>4. x * x \in Int /\ x * x >= 0 /\ (x # 0 => x * x > 0) /\ y * y \in Int /\ y * y >= 0 /\ (y # 0 => y * y > 0)
    BY <1>2, <2>2
  <2>5. x * x + y * y > 0
    BY <2>2, <2>4
  <2> QED BY <2>1, <2>2, <2>3, <2>5 DEF Places
<1> QED BY <1>3, <1>4

LEMMA SharpestIs ==
  ASSUME NEW U, NEW c \in Seq(U), \A q \in U : q.at \in Places, Len(c) = 2 * HighCurveHalfContour + 1
  PROVE  Sharpest(c) \in 1..Len(c)
<1> DEFINE n == Len(c)  a == AngleEdge + 1  b == n - AngleEdge
           Sq(i) == Cosine(c, i).square  Of(i) == Cosine(c, i).of
           G == {p \in (a..b) \X (a..b) : Sq(p[1]) * Of(p[2]) >= Sq(p[2]) * Of(p[1])}
<1>1. n \in Nat /\ \A i \in 1..n : c[i] \in U /\ c[i].at \in Places
  BY LenProperties, ElementOfSeq
<1>2. AngleEdge \in Nat /\ a \in Int /\ b \in Int /\ a <= b /\ 1 <= a /\ b <= n
  <2> DEFINE h == HighCurveHalfContour
  <2>1. h \in Nat /\ n = 2 * h + 1
    BY DetectionAssumption
  <2> HIDE DEF h, n
  <2>2. AngleEdge = h \div 2
    BY DEF AngleEdge, h
  <2>3. h \div 2 \in Nat /\ 2 * (h \div 2) <= h
    BY <2>1
  <2> QED BY <2>1, <2>2, <2>3
<1>3. Bends(c) = a..b
  BY DEF Bends
<1>4. ASSUME NEW i \in a..b
      PROVE  Sq(i) \in Int /\ Of(i) \in Int /\ Of(i) > 0
  <2> DEFINE u == Arm(c[i].at, c[i - AngleEdge].at)  v == Arm(c[i].at, c[i + AngleEdge].at)  d == Dot(u, v)
             uu == Dot(u, u)  vv == Dot(v, v)
  <2>1. i \in 1..n /\ i - AngleEdge \in 1..n /\ i + AngleEdge \in 1..n
    BY <1>1, <1>2
  <2>2. u \in Places /\ uu > 0 /\ v \in Places /\ vv > 0
    BY <1>1, <2>1, ArmIs
  <2>3. Arms(c, i) = <<u, v>>
    BY DEF Arms
  <2>4. Cosine(c, i) = [square |-> (IF d < 0 THEN -1 ELSE 1) * d * d, of |-> uu * vv]
    BY <2>3 DEF Cosine
  <2> HIDE DEF u, v
  <2>5. \A x, y \in Places : Dot(x, y) \in Int
    <3>1. \A x \in Places : x[1] \in Int /\ x[2] \in Int
      BY DEF Places
    <3>2. \A s, t \in Int : s * t \in Int
      OBVIOUS
    <3> QED BY <3>1, <3>2 DEF Dot
  <2>6. d \in Int /\ uu \in Int /\ vv \in Int
    BY <2>2, <2>5
  <2> HIDE DEF d, uu, vv
  <2>7. Sq(i) = (IF d < 0 THEN -1 ELSE 1) * d * d /\ Of(i) = uu * vv
    BY <2>4
  <2> HIDE DEF Sq, Of
  <2>8. \A s, t \in Int : s * t \in Int /\ (s > 0 /\ t > 0 => s * t > 0)
    OBVIOUS
  <2>9. Of(i) \in Int /\ Of(i) > 0
    BY <2>2, <2>6, <2>7, <2>8
  <2>10. Sq(i) \in Int
    BY <2>6, <2>7, <2>8
  <2> QED BY <2>9, <2>10
<1>5. \A i, j \in a..b : <<i, j>> \in G <=> Sq(i) * Of(j) >= Sq(j) * Of(i)
  OBVIOUS
<1>6. \A i, j \in a..b : Sharper(Cosine(c, i), Cosine(c, j)) <=> Sq(i) * Of(j) > Sq(j) * Of(i)
  BY DEF Sharper
<1>7. Sharpest(c) = CHOOSE i \in a..b : \A j \in a..b :
                      Sharper(Cosine(c, i), Cosine(c, j)) \/ (~Sharper(Cosine(c, j), Cosine(c, i)) /\ i <= j)
  BY <1>3 DEF Sharpest
<1> HIDE DEF a, b, G, Sq, Of, n
<1>8. \A i, j \in a..b : Sq(i) * Of(j) \in Int
  <2>1. \A s, t \in Int : s * t \in Int
    OBVIOUS
  <2> QED BY <1>4, <2>1
<1>9. /\ \A i, j \in a..b : <<i, j>> \in G \/ <<j, i>> \in G
  BY <1>5, <1>8
<1>10. ASSUME NEW i \in a..b, NEW j \in a..b, NEW k \in a..b, <<i, j>> \in G, <<j, k>> \in G
       PROVE  <<i, k>> \in G
  <2>1. Sq(i) * Of(j) >= Sq(j) * Of(i) /\ Sq(j) * Of(k) >= Sq(k) * Of(j)
    BY <1>5, <1>10
  <2>2. /\ Sq(i) \in Int /\ Sq(j) \in Int /\ Sq(k) \in Int /\ Of(i) \in Int /\ Of(j) \in Int /\ Of(k) \in Int
        /\ Of(i) > 0 /\ Of(j) > 0 /\ Of(k) > 0
    BY <1>4
  <2>3. Sq(i) * Of(k) >= Sq(k) * Of(i)
    BY <2>1, <2>2, Fractions
  <2> QED BY <1>5, <2>3
<1>11. \E i \in a..b : \A j \in a..b : <<j, i>> \notin G \/ (<<i, j>> \in G /\ i <= j)
  BY <1>2, <1>9, <1>10, FirstOfTheBest
<1>12. \E i \in a..b : \A j \in a..b : Sharper(Cosine(c, i), Cosine(c, j)) \/ (~Sharper(Cosine(c, j), Cosine(c, i)) /\ i <= j)
  <2>1. PICK i \in a..b : \A j \in a..b : <<j, i>> \notin G \/ (<<i, j>> \in G /\ i <= j)
    BY <1>11
  <2>2. ASSUME NEW j \in a..b
        PROVE  Sharper(Cosine(c, i), Cosine(c, j)) \/ (~Sharper(Cosine(c, j), Cosine(c, i)) /\ i <= j)
    <3>1. Sq(i) * Of(j) \in Int /\ Sq(j) * Of(i) \in Int
      BY <1>8
    <3>2. <<j, i>> \in G <=> Sq(j) * Of(i) >= Sq(i) * Of(j)
      BY <1>5
    <3>3. <<j, i>> \notin G \/ (<<i, j>> \in G /\ i <= j)
      BY <2>1
    <3>4. Sharper(Cosine(c, i), Cosine(c, j)) <=> Sq(i) * Of(j) > Sq(j) * Of(i)
      BY <1>6
    <3>5. Sharper(Cosine(c, j), Cosine(c, i)) <=> Sq(j) * Of(i) > Sq(i) * Of(j)
      BY <1>6
    <3>6. <<i, j>> \in G <=> Sq(i) * Of(j) >= Sq(j) * Of(i)
      BY <1>5
    <3> DEFINE x == Sq(i) * Of(j)  y == Sq(j) * Of(i)
    <3> HIDE DEF x, y
    <3>7. x \in Int /\ y \in Int
      BY <3>1 DEF x, y
    <3>8. CASE x > y
      BY <3>4, <3>8 DEF x, y
    <3>9. CASE ~(x > y)
      <4>1. y >= x
        BY <3>7, <3>9
      <4>2. <<i, j>> \in G /\ i <= j /\ x >= y
        BY <3>2, <3>3, <3>6, <4>1 DEF x, y
      <4>3. ~(y > x)
        BY <3>7, <4>2
      <4> QED BY <3>5, <4>2, <4>3 DEF x, y
    <3> QED BY <3>8, <3>9
  <2> QED BY <2>2
<1>13. Sharpest(c) \in a..b
  BY <1>7, <1>12
<1> QED BY <1>1, <1>2, <1>13 DEF n
-----------------------------------------------------------------------------
(* What a candidate makes of the list and of the image.                     *)

Listed(ms) == \E S : ms \in Seq(S) /\ Placed(S)
FoundOn(D, found) == DOMAIN found.image = D /\ Listed(found.minutiae)

\* One more that lies somewhere.
LEMMA AppendIs ==
  ASSUME NEW ms, Listed(ms), NEW m, m.pair.at \in Places
  PROVE  Listed(Append(ms, m))
<1>1. PICK S : ms \in Seq(S) /\ Placed(S)
  BY DEF Listed
<1> DEFINE U == S \cup {m}
<1>2. S \subseteq U /\ m \in U /\ Placed(U)
  BY <1>1 DEF Placed
<1> HIDE DEF U
<1>3. Append(ms, m) \in Seq(U)
  BY <1>1, <1>2
<1> QED BY <1>2, <1>3 DEF Listed

LEMMA DroppedIs ==
  ASSUME NEW ms, Listed(ms), NEW gone
  PROVE  Listed(Without(ms, gone))
<1>1. PICK S : ms \in Seq(S) /\ Placed(S)
  BY DEF Listed
<1> QED BY <1>1, WithoutIs DEF Listed

LEMMA UpdateIs ==
  ASSUME NEW img, NEW ms, Listed(ms), NEW m, m.pair.at \in Places
  PROVE  Listed(Update(img, ms, m)) /\ \A scan, flow : Listed(UpdateV2(img, ms, m, scan, flow))
<1>1. Listed(ms) /\ Listed(Append(ms, m))
  BY AppendIs
<1>2. ASSUME NEW gone
      PROVE  Listed(Without(ms, gone)) /\ Listed(Append(Without(ms, gone), m))
  <2>1. Listed(Without(ms, gone))
    BY DroppedIs
  <2> QED BY <2>1, AppendIs
<1>3. Listed(Update(img, ms, m))
  BY <1>1 DEF Update
<1>4. ASSUME NEW scan, NEW flow
      PROVE  Listed(UpdateV2(img, ms, m, scan, flow))
  <2> DEFINE here == Here(ms, m)  twins == OnContour(img, ms, m)
             later == {i \in twins : i > Max(here)}
  <2>1. UpdateV2(img, ms, m, scan, flow) =
          IF ScanAcross(flow) # scan THEN IF here \cup twins = {} THEN Append(ms, m) ELSE ms
          ELSE IF here = {} THEN Append(Without(ms, twins), m)
          ELSE Without(ms, later)
    BY DEF UpdateV2
  <2> HIDE DEF here, twins, later
  <2> QED BY <1>1, <1>2, <2>1
<1> QED BY <1>3, <1>4

\* What a loop on the contour makes of them: two minutiae, or an erasure.
LEMMA LoopIs ==
  ASSUME NEW img, NEW ms, Listed(ms), NEW U, NEW c \in Seq(U), \A q \in U : q.at \in Places, Len(c) > 3
  PROVE  FoundOn(DOMAIN img, ProcessLoop(img, ms, c))
<1> DEFINE from == c[Widest(c)]
           to == c[Opposite(c, Widest(c))]
           colour == img[c[1].at]
           dir == LineDirection(from.at, to.at)
           one == Minutia(from, dir, colour)
           other == Minutia(to, (dir + NumDirections) % FullCircle, colour)
           twice == Update(img, Update(img, ms, one), other)
<1>1. from.at \in Places /\ to.at \in Places
  <2>1. Widest(c) \in 1..Len(c) /\ Opposite(c, Widest(c)) \in 1..Len(c)
    BY WidestIs
  <2>2. \A i \in 1..Len(c) : c[i] \in U
    BY ElementOfSeq
  <2> QED BY <2>1, <2>2
<1>2. one.pair = from /\ other.pair = to
  BY DEF Minutia
<1>3. ProcessLoop(img, ms, c) =
        IF Len(c) > MinLoopLen /\ Elongated(c) /\ img[Halfway(from.at, to.at)] = colour
        THEN Found(img, twice) ELSE Found(FillLoop(img, c), ms)
  BY DEF ProcessLoop
<1> HIDE DEF from, to, one, other
<1>4. Listed(twice)
  <2>1. Listed(Update(img, ms, one))
    BY <1>1, <1>2, UpdateIs
  <2> QED BY <1>1, <1>2, <2>1, UpdateIs
<1>5. DOMAIN FillLoop(img, c) = DOMAIN img
  BY DEF FillLoop
<1> HIDE DEF twice
<1>6. FoundOn(DOMAIN img, Found(img, twice)) /\ FoundOn(DOMAIN img, Found(FillLoop(img, c), ms))
  BY <1>4, <1>5 DEF FoundOn, Found
<1> QED BY <1>3, <1>6, Zenon

\* What a bend makes of them.
LEMMA BendIs ==
  ASSUME NEW img, NEW ms, Listed(ms), NEW pair, pair.at \in Places, NEW c, NEW i, c[i] = pair, NEW mid, NEW kind, NEW scan, NEW flow
  PROVE  FoundOn(DOMAIN img, Bend(img, ms, c, i, mid, kind, scan, flow))
<1> DEFINE m == Minutia(c[i], LineDirection(c[i].at, mid), kind)
           updated == UpdateV2(img, ms, m, scan, flow)
<1>1. m.pair = pair
  BY DEF Minutia
<1>2. Bend(img, ms, c, i, mid, kind, scan, flow) =
        IF SharpEnough(Cosine(c, i)) /\ img[mid] = img[c[i].at] THEN Found(img, updated) ELSE Found(img, ms)
  BY DEF Bend
<1> HIDE DEF m
<1>3. Listed(updated)
  BY <1>1, UpdateIs
<1> HIDE DEF updated
<1>4. FoundOn(DOMAIN img, Found(img, updated)) /\ FoundOn(DOMAIN img, Found(img, ms))
  BY <1>3 DEF FoundOn, Found
<1> QED BY <1>2, <1>4, Zenon

LEMMA AdjustIs ==
  ASSUME NEW img, DOMAIN img \subseteq Places, NEW ms, Listed(ms), NEW pair, pair.at \in Places, NEW kind, NEW scan, NEW flow
  PROVE  FoundOn(DOMAIN img, Adjust(img, ms, HighCurvatureContour(img, HighCurveHalfContour, pair), kind, scan, flow))
<1> DEFINE contour == HighCurvatureContour(img, HighCurveHalfContour, pair)
           c == contour.pairs
           result == Adjust(img, ms, contour, kind, scan, flow)
<1>1. HighCurveHalfContour \in Nat
  BY DetectionAssumption
<1>2. /\ contour.end = "whole" => \E U : c \in Seq(U) /\ (\A q \in U : q.at \in Places) /\ Len(c) = 2 * HighCurveHalfContour + 1
      /\ contour.end = "loop" => \E U : c \in Seq(U) /\ \A q \in U : q.at \in Places
  BY <1>1, HighCurvatureIs
<1> HIDE DEF contour
<1>3. CASE contour.end = "whole"
  <2>1. PICK U : c \in Seq(U) /\ (\A q \in U : q.at \in Places) /\ Len(c) = 2 * HighCurveHalfContour + 1
    BY <1>2, <1>3
  <2>2. result = AtBend(img, ms, c, Sharpest(c), kind, scan, flow)
    BY <1>3 DEF Adjust
  <2> DEFINE i == Sharpest(c)  mid == Halfway(c[i - AngleEdge].at, c[i + AngleEdge].at)
  <2>3. result = Bend(img, ms, c, i, mid, kind, scan, flow)
    BY <2>2 DEF AtBend
  <2>4. c[i].at \in Places
    <3>1. i \in 1..Len(c)
      BY <2>1, SharpestIs
    <3>2. \A j \in 1..Len(c) : c[j] \in U
      BY <2>1, ElementOfSeq
    <3> QED BY <2>1, <3>1, <3>2
  <2> HIDE DEF i, mid, c, result
  <2>5. FoundOn(DOMAIN img, Bend(img, ms, c, i, mid, kind, scan, flow))
    BY <2>4, BendIs
  <2> QED BY <2>3, <2>5 DEF result, contour
<1>4. CASE contour.end # "whole" /\ contour.end = "loop" /\ ~LoopClockwise(c)
  <2>1. PICK U : c \in Seq(U) /\ (\A q \in U : q.at \in Places)
    BY <1>2, <1>4
  <2>2. result = ProcessLoop(img, ms, c)
    BY <1>4 DEF Adjust
  <2>3. Len(c) > 3
    <3>1. ~(Len(c) <= 3)
      BY <1>4 DEF LoopClockwise
    <3>2. Len(c) \in Nat
      BY <2>1, LenProperties
    <3> QED BY <3>1, <3>2
  <2> QED BY <2>1, <2>2, <2>3, LoopIs DEF contour
<1>5. CASE contour.end # "whole" /\ ~(contour.end = "loop" /\ ~LoopClockwise(c))
  <2>1. result = Found(img, ms)
    BY <1>5, Zenon DEF Adjust
  <2>2. FoundOn(DOMAIN img, Found(img, ms))
    BY DEF FoundOn, Found
  <2> QED BY <2>1, <2>2 DEF contour
<1> QED BY <1>3, <1>4, <1>5

\* What a candidate of the scan makes of them.
LEMMA CandidateIs ==
  ASSUME DOMAIN image \subseteq Places, Listed(minutiae), NEW scan, NEW line \in Int, NEW second \in Int, NEW third \in Int, NEW fp
  PROVE  FoundOn(DOMAIN image, ProcessCandidate(scan, line, second, third, fp))
<1> DEFINE mid == (second + third) \div 2
           near == Pixel(scan, line, mid)
           far == Pixel(scan, line + 1, mid)
           pair == IF fp.appearing THEN [at |-> far, edge |-> near] ELSE [at |-> near, edge |-> far]
           flow == FlowAt(pair.at)
           m == Minutia(pair, LowCurvatureDirection(scan, fp.appearing, flow), fp.kind)
           adjusted == Adjust(image, minutiae, HighCurvatureContour(image, HighCurveHalfContour, pair), fp.kind, scan, flow)
           updated == UpdateV2(image, minutiae, m, scan, flow)
<1>1. ProcessCandidate(scan, line, second, third, fp) =
        IF flow = NoDirection THEN Found(image, minutiae)
        ELSE IF Painter(pair.at) \in curved THEN adjusted
        ELSE Found(image, updated)
  BY DEF ProcessCandidate
<1>2. mid \in Int
  OBVIOUS
<1> HIDE DEF mid
<1>3. near \in Places /\ far \in Places
  BY <1>2 DEF Pixel, Places
<1> HIDE DEF near, far
<1>4. pair.at \in Places
  BY <1>3
<1>5. m.pair = pair
  BY DEF Minutia
<1> HIDE DEF pair, flow, m
<1>6. Listed(updated)
  BY <1>4, <1>5, UpdateIs
<1>7. FoundOn(DOMAIN image, adjusted)
  BY <1>4, AdjustIs
<1> HIDE DEF updated, adjusted
<1>8. FoundOn(DOMAIN image, Found(image, updated)) /\ FoundOn(DOMAIN image, Found(image, minutiae))
  BY <1>6 DEF FoundOn, Found
<1> QED BY <1>1, <1>7, <1>8, Zenon

\* A number beyond the next one.
LEMMA PastIs ==
  ASSUME NEW scan, NEW line, NEW pos \in Int, Length(scan) \in Int, pos + 1 <= Length(scan)
  PROVE  SkipRepeated(scan, line, pos) \in (pos + 1)..Length(scan)
<1> DEFINE n == Length(scan)
           T == {p \in (pos + 1)..n : p = n \/ PairAt(image, scan, line, p) # PairAt(image, scan, line, pos)}
           W == {d \in Nat : pos + 1 + d \in T}
<1>1. SkipRepeated(scan, line, pos) = CHOOSE x \in T : \A y \in T : x <= y
  BY DEF SkipRepeated, Min
<1> HIDE DEF n
<1>2. n \in Int /\ n \in T
  BY DEF n
<1>3. \A p \in T : p \in (pos + 1)..n
  OBVIOUS
<1> HIDE DEF T
<1>4. \A p \in T : p - (pos + 1) \in W /\ p \in Int
  <2> TAKE p \in T
  <2>1. p \in Int /\ p - (pos + 1) \in Nat /\ pos + 1 + (p - (pos + 1)) = p
    BY <1>2, <1>3
  <2> QED BY <2>1
<1>5. PICK d \in W : \A e \in W : d <= e
  <2>1. W \in SUBSET Nat /\ W # {}
    BY <1>2, <1>4
  <2> HIDE DEF W
  <2> QED BY <2>1, LeastNumber
<1>6. pos + 1 + d \in T /\ \A y \in T : pos + 1 + d <= y
  <2>1. pos + 1 + d \in T /\ d \in Nat
    OBVIOUS
  <2>2. \A y \in T : d <= y - (pos + 1) /\ y \in Int
    BY <1>4, <1>5
  <2> HIDE DEF W
  <2> QED BY <2>1, <2>2
<1>7. SkipRepeated(scan, line, pos) \in T
  BY <1>1, <1>6
<1> QED BY <1>3, <1>7 DEF n

\* A round of a scan goes on from beyond where it began.
LEMMA RoundIs ==
  ASSUME DOMAIN image \subseteq Places, Listed(minutiae), NEW scan, NEW line \in Int, NEW pos \in Int, Length(scan) \in Int, pos < Length(scan)
  PROVE  LET round == ScanRound(scan, line, pos)
         IN  FoundOn(DOMAIN image, round.found) /\ round.next \in Int /\ round.next > pos
<1> DEFINE Seen(p) == PairAt(image, scan, line, p)
           first == Matching(DOMAIN FeaturePatterns, 1, Seen(pos))
           second == Matching(first, 2, Seen(pos + 1))
           past == SkipRepeated(scan, line, pos + 1)
           third == Matching(second, 3, Seen(past))
           found == IF third = {} THEN Nothing ELSE ProcessCandidate(scan, line, pos + 1, past, FeaturePatterns[Min(third)])
           round == ScanRound(scan, line, pos)
<1>1. round = IF first = {} \/ pos + 1 = Length(scan) THEN Round(Nothing, pos + 1)
              ELSE IF second = {} THEN Round(Nothing, pos + 1)
              ELSE IF past = Length(scan) THEN Round(Nothing, past)
              ELSE AfterCandidate(scan, line, past, found)
  BY DEF ScanRound
<1>2. pos + 1 # Length(scan) => past \in Int /\ past >= pos + 2
  <2> HAVE pos + 1 # Length(scan)
  <2>1. pos + 1 \in Int /\ (pos + 1) + 1 <= Length(scan)
    OBVIOUS
  <2>2. past \in ((pos + 1) + 1)..Length(scan)
    BY <2>1, PastIs
  <2> QED BY <2>2
<1> HIDE DEF first, second, past, third
<1>3. past \in Int => FoundOn(DOMAIN image, found)
  <2> HAVE past \in Int
  <2>1. pos + 1 \in Int
    OBVIOUS
  <2>2. \A fp : FoundOn(DOMAIN image, ProcessCandidate(scan, line, pos + 1, past, fp))
    BY <2>1, CandidateIs
  <2>3. FoundOn(DOMAIN image, Nothing)
    BY DEF FoundOn, Nothing, Found
  <2> QED BY <2>2, <2>3
<1> HIDE DEF found, round
<1>4. FoundOn(DOMAIN image, Nothing)
  BY DEF FoundOn, Nothing, Found
<1>5. CASE round = Round(Nothing, pos + 1)
  <2>1. round.found = Nothing /\ round.next = pos + 1
    BY <1>5 DEF Round
  <2> QED BY <1>4, <2>1 DEF round
<1>6. CASE pos + 1 # Length(scan) /\ round = Round(Nothing, past)
  <2>1. round.found = Nothing /\ round.next = past
    BY <1>6 DEF Round
  <2>2. past \in Int /\ past > pos
    BY <1>2, <1>6
  <2> QED BY <1>4, <2>1, <2>2 DEF round
<1>7. CASE pos + 1 # Length(scan) /\ round = AfterCandidate(scan, line, past, found)
  <2>1. round.found = found /\ round.next \in {past - 1, past}
    BY <1>7 DEF AfterCandidate, Round
  <2>2. past \in Int /\ past > pos /\ past - 1 \in Int /\ past - 1 > pos
    BY <1>2, <1>7
  <2> QED BY <1>3, <2>1, <2>2 DEF round
<1> QED BY <1>1, <1>5, <1>6, <1>7
-----------------------------------------------------------------------------
(* The stages of the list, in their order.                                  *)

Singles == {"holes", "pointing", "near", "side", "malformed", "pores"}
AfterSide == {"hooks", "overlaps", "malformed", "pores", "done", "counting", "finished"}
StagesOfList == {"maps", "rows", "columns", "sort", "islands", "done", "counting", "finished"} \cup Singles \cup AfterSide

LEMMA Ranks ==
  /\ Rank("maps") = 1 /\ Rank("rows") = 2 /\ Rank("columns") = 3 /\ Rank("sort") = 4 /\ Rank("islands") = 5
  /\ Rank("holes") = 6 /\ Rank("pointing") = 7 /\ Rank("near") = 8 /\ Rank("side") = 9 /\ Rank("hooks") = 10
  /\ Rank("overlaps") = 11 /\ Rank("malformed") = 12 /\ Rank("pores") = 13 /\ Rank("done") = 14
  /\ Rank("counting") = 15 /\ Rank("finished") = 16
<1> DEFINE a == <<"maps", "rows", "columns", "sort">>  b == Removals  c == <<"counting", "finished">>
           u == a \o b  S == StagesOfList
           all == <<"maps", "rows", "columns", "sort", "islands", "holes", "pointing", "near", "side", "hooks",
                    "overlaps", "malformed", "pores", "done", "counting", "finished">>
<1>1. a \in Seq(S) /\ Len(a) = 4 /\ b \in Seq(S) /\ Len(b) = 10 /\ c \in Seq(S) /\ Len(c) = 2
  BY DEF Removals, StagesOfList, Singles, AfterSide
<1>2. /\ \A k \in 1..4 : a[k] = all[k]
      /\ \A k \in 1..10 : b[k] = all[k + 4]
      /\ \A k \in 1..2 : c[k] = all[k + 14]
  <2>1. \A k \in 1..4 : k \in {1, 2, 3, 4}
    OBVIOUS
  <2>2. \A k \in 1..10 : k \in {1, 2, 3, 4, 5, 6, 7, 8, 9, 10}
    OBVIOUS
  <2>3. \A k \in 1..2 : k \in {1, 2}
    OBVIOUS
  <2>4. \A k \in 1..4 : a[k] = all[k]
    BY <2>1
  <2>5. \A k \in 1..10 : b[k] = all[k + 4]
    BY <2>2 DEF Removals
  <2>6. \A k \in 1..2 : c[k] = all[k + 14]
    BY <2>3
  <2> QED BY <2>4, <2>5, <2>6
<1>3. Phases = u \o c
  BY DEF Phases
<1> HIDE DEF a, b, c, S
<1>4. u \in Seq(S) /\ Len(u) = 14 /\ \A k \in 1..14 : u[k] = IF k <= 4 THEN a[k] ELSE b[k - 4]
  <2>1. u \in Seq(S) /\ Len(u) = Len(a) + Len(b)
    BY <1>1, ConcatProperties
  <2>2. \A k \in 1..(Len(a) + Len(b)) : u[k] = IF k <= Len(a) THEN a[k] ELSE b[k - Len(a)]
    BY <1>1, ConcatProperties
  <2> HIDE DEF u
  <2> QED BY <1>1, <2>1, <2>2
<1> HIDE DEF u
<1>5. Len(Phases) = 16 /\ Phases \in Seq(S) /\ \A k \in 1..16 : Phases[k] = IF k <= 14 THEN u[k] ELSE c[k - 14]
  <2>1. Phases \in Seq(S) /\ Len(Phases) = Len(u) + Len(c)
    BY <1>1, <1>3, <1>4, ConcatProperties
  <2>2. \A k \in 1..(Len(u) + Len(c)) : Phases[k] = IF k <= Len(u) THEN u[k] ELSE c[k - Len(u)]
    BY <1>1, <1>3, <1>4, ConcatProperties
  <2> QED BY <1>1, <1>4, <2>1, <2>2
<1>6. \A k \in 1..16 : Phases[k] = all[k]
  <2> HIDE DEF all
  <2> TAKE k \in 1..16
  <2>1. CASE k <= 4
    <3>1. k \in 1..4 /\ k \in 1..14 /\ k <= 14
      BY <2>1
    <3> QED BY <1>2, <1>4, <1>5, <2>1, <3>1
  <2>2. CASE k > 4 /\ k <= 14
    <3>1. k - 4 \in 1..10 /\ (k - 4) + 4 = k /\ k \in 1..14 /\ ~(k <= 4)
      BY <2>2
    <3> QED BY <1>2, <1>4, <1>5, <2>2, <3>1
  <2>3. CASE k > 14
    <3>1. k - 14 \in 1..2 /\ (k - 14) + 14 = k /\ ~(k <= 14)
      BY <2>3
    <3> QED BY <1>2, <1>5, <2>3, <3>1
  <2> QED BY <2>1, <2>2, <2>3
<1>7. DOMAIN Phases = 1..16
  BY <1>5
<1>8. \A j, k \in 1..16 : all[j] = all[k] => j = k
  <2>1. \A k \in 1..16 : k \in {1, 2, 3, 4, 5, 6, 7, 8, 9, 10, 11, 12, 13, 14, 15, 16}
    OBVIOUS
  <2> DEFINE key(s) == CASE s = "maps" -> 1 [] s = "rows" -> 2 [] s = "columns" -> 3 [] s = "sort" -> 4
                         [] s = "islands" -> 5 [] s = "holes" -> 6 [] s = "pointing" -> 7 [] s = "near" -> 8
                         [] s = "side" -> 9 [] s = "hooks" -> 10 [] s = "overlaps" -> 11 [] s = "malformed" -> 12
                         [] s = "pores" -> 13 [] s = "done" -> 14 [] s = "counting" -> 15 [] OTHER -> 16
  <2>2. \A k \in 1..16 : key(all[k]) = k
    BY <2>1
  <2> HIDE DEF key, all
  <2> QED BY <2>2
<1>9. \A k \in 1..16 : Rank(all[k]) = k
  <2> HIDE DEF all
  <2> TAKE k \in 1..16
  <2>1. k \in DOMAIN Phases /\ Phases[k] = all[k] /\ \A j \in DOMAIN Phases : Phases[j] = all[k] => j = k
    BY <1>6, <1>7, <1>8
  <2> HIDE DEF all
  <2> QED BY <2>1 DEF Rank
<1> HIDE DEF u
<1>10. /\ all[1] = "maps" /\ all[2] = "rows" /\ all[3] = "columns" /\ all[4] = "sort" /\ all[5] = "islands"
       /\ all[6] = "holes" /\ all[7] = "pointing" /\ all[8] = "near" /\ all[9] = "side" /\ all[10] = "hooks"
       /\ all[11] = "overlaps" /\ all[12] = "malformed" /\ all[13] = "pores" /\ all[14] = "done"
       /\ all[15] = "counting" /\ all[16] = "finished"
  OBVIOUS
<1>11. \A k \in {1, 2, 3, 4, 5, 6, 7, 8, 9, 10, 11, 12, 13, 14, 15, 16} : Rank(all[k]) = k
  <2> HIDE DEF all
  <2> QED BY <1>9
<1> HIDE DEF all
<1> QED BY <1>10, <1>11

\* The stage after each, which is the next one of the order.
NextIs(s, next) == stage = s => NextStage = next
LEMMA NextStages ==
  /\ NextIs("islands", "holes") /\ NextIs("holes", "pointing") /\ NextIs("pointing", "near") /\ NextIs("near", "side")
  /\ NextIs("side", "hooks") /\ NextIs("hooks", "overlaps") /\ NextIs("overlaps", "malformed")
  /\ NextIs("malformed", "pores") /\ NextIs("pores", "done")
<1>1. DOMAIN Removals = 1..10 /\ \A k \in 1..10 : k \in {1, 2, 3, 4, 5, 6, 7, 8, 9, 10}
  BY DEF Removals
<1>2. /\ Removals[1] = "islands" /\ Removals[2] = "holes" /\ Removals[3] = "pointing" /\ Removals[4] = "near"
      /\ Removals[5] = "side" /\ Removals[6] = "hooks" /\ Removals[7] = "overlaps" /\ Removals[8] = "malformed"
      /\ Removals[9] = "pores" /\ Removals[10] = "done"
  BY DEF Removals
<1>3. ASSUME NEW k \in 1..9, stage = Removals[k]
      PROVE  NextStage = Removals[1 + k]
  <2>1. \A j \in 1..10 : Removals[j] = Removals[k] => j = k
    BY <1>1, <1>2
  <2>2. k \in 1..10
    OBVIOUS
  <2>3. (CHOOSE n \in DOMAIN Removals : Removals[n] = stage) = k
    BY <1>1, <1>3, <2>1, <2>2
  <2> QED BY <2>3 DEF NextStage
<1>4. \A k \in {1, 2, 3, 4, 5, 6, 7, 8, 9} : stage = Removals[k] => NextStage = Removals[k + 1]
  <2> TAKE k \in {1, 2, 3, 4, 5, 6, 7, 8, 9}
  <2>1. k \in 1..9 /\ 1 + k = k + 1
    OBVIOUS
  <2> QED BY <1>3, <2>1
<1> QED BY <1>2, <1>4 DEF NextIs
-----------------------------------------------------------------------------
(* The invariant of the list.                                               *)

\* Where a stage may stand.
Cursor ==
  /\ stage \in {"rows", "columns"} =>
       \E line \in Nat, pos \in Nat : at = <<line, pos>> /\ line < Lines(stage) /\ pos < Length(stage)
  /\ stage \in PairStages => \E f \in Int, s \in Int : at = <<f, s>>
  /\ stage \in Singles \cup {"counting"} => \E i \in Int : at = <<i>>
  /\ stage = "side" => at[1] > 0
  /\ stage = "maps" => at = <<0, 0>>

\* The list is one of minutiae that lie somewhere, and the image keeps its pixels.
ListInv ==
  /\ stage \in StagesOfList
  /\ DOMAIN image = Maps!Pixels
  /\ Listed(minutiae)
  /\ Cursor

\* The side stage leaves behind it only minutiae on an edge, in a block with a flow.
OnEdge(m) == image[m.pair.at] # image[m.pair.edge] /\ directions[Block(m.pair.at)] # NoDirection
EdgesInv ==
  /\ stage = "side" => \A j \in DOMAIN minutiae : j < at[1] => OnEdge(minutiae[j])
  /\ stage \in AfterSide => \A j \in DOMAIN minutiae : OnEdge(minutiae[j])

Kept == ListInv' /\ EdgesInv' /\ Advances

LEMMA PixelsArePlaces == Maps!Pixels \subseteq Places
BY DEF Maps!Pixels, Places

LEMMA ListedIs ==
  ASSUME NEW ms, Listed(ms)
  PROVE  Len(ms) \in Nat /\ DOMAIN ms = 1..Len(ms) /\ \A i \in DOMAIN ms : ms[i].pair.at \in Places
<1>1. PICK S : ms \in Seq(S) /\ Placed(S)
  BY DEF Listed
<1>2. Len(ms) \in Nat /\ DOMAIN ms = 1..Len(ms) /\ \A i \in 1..Len(ms) : ms[i] \in S
  BY <1>1, LenProperties, ElementOfSeq
<1> QED BY <1>1, <1>2 DEF Placed

\* A sequence is one over whatever holds its elements.
LEMMA SeqOver ==
  ASSUME NEW S, NEW ms \in Seq(S), NEW T, \A i \in 1..Len(ms) : ms[i] \in T
  PROVE  ms \in Seq(T)
<1>1. Len(ms) \in Nat /\ ms = [i \in 1..Len(ms) |-> ms[i]]
  BY LenProperties
<1>2. ms \in [1..Len(ms) -> T]
  BY <1>1
<1> QED BY <1>1, <1>2, FunctionIsSeq

\* What is left of the distance a stage has to go.
RemainingFor ==
  /\ stage = "maps" => Remaining = <<Cardinality({b \in DOMAIN directions : directions[b] # NoDirection}), 0>>
  /\ stage \in {"rows", "columns"} => Remaining = <<Lines(stage) - at[1], Length(stage) - at[2]>>
  /\ stage \in PairStages => Remaining = <<Len(minutiae) - at[1], Len(minutiae) - at[2]>>
  /\ stage \in Backward => Remaining = <<at[1], 0>>
  /\ stage \in {"holes", "pointing", "near", "side", "pores", "counting"} => Remaining = <<Len(minutiae) - at[1], 0>>

LEMMA RemainingIs == RemainingFor
<1> DEFINE m == <<Cardinality({b \in DOMAIN directions : directions[b] # NoDirection}), 0>>
           s == <<Lines(stage) - at[1], Length(stage) - at[2]>>
           p == <<Len(minutiae) - at[1], Len(minutiae) - at[2]>>
           b == <<at[1], 0>>
           o == <<Len(minutiae) - at[1], 0>>
<1>1. Remaining = CASE stage = "maps" -> m [] stage \in {"rows", "columns"} -> s [] stage \in PairStages -> p
                    [] stage \in Backward -> b [] OTHER -> o
  BY DEF Remaining
<1> HIDE DEF m, s, p, b, o
<1>2. /\ stage = "maps" => stage \notin {"rows", "columns"} /\ stage \notin PairStages /\ stage \notin Backward
      /\ stage \in {"rows", "columns"} => stage # "maps" /\ stage \notin PairStages /\ stage \notin Backward
      /\ stage \in PairStages => stage # "maps" /\ stage \notin {"rows", "columns"} /\ stage \notin Backward
      /\ stage \in Backward => stage # "maps" /\ stage \notin {"rows", "columns"} /\ stage \notin PairStages
      /\ stage \in {"holes", "pointing", "near", "side", "pores", "counting"} =>
           stage # "maps" /\ stage \notin {"rows", "columns"} /\ stage \notin PairStages /\ stage \notin Backward
  BY DEF PairStages, Backward
<1>3. stage = "maps" => Remaining = m
  BY <1>1, <1>2, Zenon
<1>4. stage \in {"rows", "columns"} => Remaining = s
  BY <1>1, <1>2, Zenon
<1>5. stage \in PairStages => Remaining = p
  BY <1>1, <1>2, Zenon
<1>6. stage \in Backward => Remaining = b
  BY <1>1, <1>2, Zenon
<1>7. stage \in {"holes", "pointing", "near", "side", "pores", "counting"} => Remaining = o
  BY <1>1, <1>2, Zenon
<1> QED BY <1>3, <1>4, <1>5, <1>6, <1>7 DEF m, s, p, b, o, RemainingFor

LEMMA RemainingNext == RemainingFor'
BY RemainingIs, PTL
-----------------------------------------------------------------------------
(* The steps of the list.                                                   *)

\* A removal that ends makes room for the next.
LEMMA StageEnds ==
  ASSUME ListInv, stage \in {"islands", "hooks", "overlaps"} \cup Singles, NEW ms, Listed(ms), EndStage(ms), UNCHANGED <<maps, image>>,
         stage = "side" \/ stage \in AfterSide => \A j \in DOMAIN ms : OnEdge(ms[j])
  PROVE  Kept
<1>1. minutiae' = ms /\ stage' = NextStage /\ at' = Start(NextStage, ms) /\ image' = image /\ directions' = directions
  BY DEF EndStage, maps
<1>2. /\ stage' \in {"hooks", "overlaps", "done"} \cup Singles
      /\ Rank(stage') > Rank(stage)
      /\ stage' \in AfterSide => stage = "side" \/ stage \in AfterSide
  BY <1>1, NextStages, Ranks DEF NextIs, Singles, AfterSide
<1>3. /\ stage' \in PairStages => at' = <<1, 2>>
      /\ stage' \in Singles => \E i \in Int : at' = <<i>>
      /\ stage' = "side" => at' = <<1>>
  <2>1. Len(ms) \in Int
    BY ListedIs
  <2>2. stage' \in Singles => stage' \notin PairStages
    BY DEF Singles, PairStages
  <2>3. stage' = "side" => stage' \notin PairStages /\ stage' \notin Backward
    BY DEF PairStages, Backward
  <2> QED BY <1>1, <2>1, <2>2, <2>3 DEF Start
<1>4. ListInv'
  <2>1. stage' \in StagesOfList /\ stage' \notin {"maps", "rows", "columns", "counting"}
    BY <1>2 DEF StagesOfList, Singles, AfterSide
  <2>2. Cursor'
    BY <1>3, <2>1 DEF Cursor
  <2>3. DOMAIN image' = Maps!Pixels' /\ Listed(minutiae)'
    BY <1>1 DEF ListInv, Maps!Pixels, Listed, Placed, Places
  <2> QED BY <2>1, <2>2, <2>3 DEF ListInv
<1>5. EdgesInv'
  <2>1. \A m : OnEdge(m)' <=> OnEdge(m)
    BY <1>1 DEF OnEdge, Block, NoDirection
  <2>2. stage' = "side" => \A j \in DOMAIN ms : ~(j < at'[1])
    BY <1>3, ListedIs
  <2> QED BY <1>1, <1>2, <2>1, <2>2 DEF EdgesInv
<1> QED BY <1>2, <1>4, <1>5 DEF Kept, Advances

\* A list that stays or loses some, at a stage that stays, is still good.
LEMMA SameStage ==
  ASSUME ListInv, stage' = stage, stage \notin {"maps", "rows", "columns"}, Listed(minutiae'), Cursor',
         DOMAIN image' = DOMAIN image, Advances, EdgesInv'
  PROVE  Kept
BY DEF ListInv, Kept, Maps!Pixels, Listed, Placed, Places

\* A judged minutia: the cursor moves on, or the list gets shorter.
LEMMA Judged ==
  ASSUME ListInv, EdgesInv, NEW s \in Singles, NEW i, Looking(s, i), NEW false \in BOOLEAN, Judge(s, i, false), s = "side" => false
  PROVE  Kept
<1>1. stage = s /\ at = <<i>> /\ i \in DOMAIN minutiae
  BY DEF Looking
<1>2. stage' = stage /\ image' = image /\ directions' = directions
  BY DEF Judge, maps
<1>3. PICK S : minutiae \in Seq(S) /\ Placed(S)
  BY DEF ListInv, Listed
<1>4. Len(minutiae) \in Nat /\ DOMAIN minutiae = 1..Len(minutiae) /\ i \in 1..Len(minutiae)
  BY <1>1, <1>3, LenProperties
<1>5. \/ ~false /\ minutiae' = minutiae /\ at' = <<IF s \in Backward THEN i - 1 ELSE i + 1>>
      \/ false /\ minutiae' = Without(minutiae, {i}) /\ at' = <<IF s \in Backward THEN i - 1 ELSE i>>
  BY DEF Judge, Keep, Drop
<1>6. Len(Without(minutiae, {i})) = Len(minutiae) - 1 /\ \A j \in 1..(i - 1) : Without(minutiae, {i})[j] = minutiae[j]
  <2>1. LosesOne(minutiae, i)
    BY <1>3, <1>4, WithoutOne
  <2> QED BY <2>1 DEF LosesOne
<1>7. Listed(Without(minutiae, {i}))
  BY DroppedIs DEF ListInv
<1>8. Listed(minutiae')
  BY <1>5, <1>7 DEF ListInv
<1>9. s \notin {"maps", "rows", "columns", "counting"} /\ s \notin PairStages /\ (s = "side" => s \notin Backward)
  BY DEF Singles, PairStages, Backward
<1>10. Cursor'
  <2>1. \E k \in Int : at' = <<k>> /\ (s = "side" => k = i)
    BY <1>4, <1>5, <1>9
  <2>2. PICK k \in Int : at' = <<k>> /\ (s = "side" => k = i)
    BY <2>1
  <2>3. s = "side" => at'[1] > 0
    <3>1. s = "side" => i > 0 /\ k = i
      BY <1>4, <2>2
    <3> QED BY <2>2, <3>1
  <2> QED BY <1>1, <1>2, <1>9, <2>2, <2>3 DEF Cursor
<1>11. Advances
  <2>1. CASE s \in Backward
    <3>1. Remaining = <<at[1], 0>> /\ Remaining' = <<at'[1], 0>>
      BY <1>1, <1>2, <2>1, RemainingIs, RemainingNext DEF RemainingFor
    <3>2. at'[1] = i - 1 /\ at[1] = i /\ i \in Int
      BY <1>1, <1>4, <1>5, <2>1
    <3> QED BY <1>2, <3>1, <3>2 DEF Advances
  <2>2. CASE s \notin Backward
    <3>1. s \in {"holes", "pointing", "near", "side", "pores", "counting"}
      BY <2>2 DEF Singles, Backward
    <3>2. Remaining = <<Len(minutiae) - at[1], 0>> /\ Remaining' = <<Len(minutiae') - at'[1], 0>>
      BY <1>1, <1>2, <3>1, RemainingIs, RemainingNext DEF RemainingFor
    <3>3. at[1] = i /\ ((at'[1] = i + 1 /\ minutiae' = minutiae) \/ (at'[1] = i /\ Len(minutiae') = Len(minutiae) - 1))
      BY <1>1, <1>5, <1>6, <2>2
    <3>4. i \in Int /\ Len(minutiae) \in Int
      BY <1>4
    <3>5. Len(minutiae') - at'[1] < Len(minutiae) - at[1]
      <4>1. CASE at'[1] = i + 1 /\ minutiae' = minutiae
        BY <3>3, <3>4, <4>1
      <4>2. CASE at'[1] = i /\ Len(minutiae') = Len(minutiae) - 1
        BY <3>3, <3>4, <4>2
      <4> QED BY <3>3, <4>1, <4>2
    <3> QED BY <1>2, <3>2, <3>5 DEF Advances
  <2> QED BY <2>1, <2>2
<1>12. \A m : OnEdge(m)' <=> OnEdge(m)
  BY <1>2 DEF OnEdge, Block, NoDirection
<1>13. EdgesInv'
  <2>1. ASSUME stage = "side"
        PROVE  \A j \in DOMAIN minutiae' : j < at'[1] => OnEdge(minutiae'[j])
    <3>1. minutiae' = Without(minutiae, {i}) /\ at' = <<i>>
      BY <1>1, <1>5, <1>9, <2>1
    <3>2. DOMAIN minutiae' = 1..Len(minutiae')
      BY <1>8, ListedIs
    <3> TAKE j \in DOMAIN minutiae'
    <3> HAVE j < at'[1]
    <3>3. j \in 1..(i - 1) /\ j \in DOMAIN minutiae /\ j < at[1]
      BY <1>1, <1>4, <3>1, <3>2
    <3>4. minutiae'[j] = minutiae[j]
      BY <1>6, <3>1, <3>3
    <3> QED BY <2>1, <3>3, <3>4 DEF EdgesInv
  <2>2. ASSUME stage \in AfterSide
        PROVE  \A j \in DOMAIN minutiae' : OnEdge(minutiae'[j])
    <3> DEFINE T == {minutiae[j] : j \in 1..Len(minutiae)}
    <3>1. \A m \in T : OnEdge(m)
      BY <1>4, <2>2 DEF EdgesInv
    <3>2. \A j \in 1..Len(minutiae) : minutiae[j] \in T
      OBVIOUS
    <3> HIDE DEF T
    <3>3. minutiae' \in Seq(T)
      <4>1. minutiae \in Seq(T)
        BY <1>3, <3>2, SeqOver
      <4> QED BY <1>5, <4>1, WithoutIs
    <3> QED BY <3>1, <3>3, LenProperties, ElementOfSeq
  <2> QED BY <1>2, <1>12, <2>1, <2>2 DEF EdgesInv
<1> QED BY <1>1, <1>2, <1>8, <1>9, <1>10, <1>11, <1>13, SameStage

\* A minutia moved along its contour stands on an edge.
LEMMA SideMoved ==
  ASSUME ListInv, EdgesInv, NEW i, Looking("side", i),
         NEW loc \in DOMAIN CenteredContour(image, SideHalfContour, minutiae[i].pair),
         AdjustSide(i, CenteredContour(image, SideHalfContour, minutiae[i].pair)[loc])
  PROVE  Kept
<1> DEFINE pair == CenteredContour(image, SideHalfContour, minutiae[i].pair)[loc]
           m == Minutia(pair, minutiae[i].dir, minutiae[i].kind)
<1>1. stage = "side" /\ at = <<i>> /\ i \in DOMAIN minutiae
  BY DEF Looking
<1>2. stage' = stage /\ image' = image /\ maps' = maps /\ flagged' = flagged /\ directions' = directions
  BY DEF AdjustSide, maps
<1>3. PICK S : minutiae \in Seq(S) /\ Placed(S)
  BY DEF ListInv, Listed
<1>4. Len(minutiae) \in Nat /\ DOMAIN minutiae = 1..Len(minutiae) /\ i \in 1..Len(minutiae)
  BY <1>1, <1>3, LenProperties
<1>5. pair.at \in Places /\ image[pair.at] # image[pair.edge]
  <2>1. minutiae[i].pair.at \in Places
    BY <1>1, ListedIs DEF ListInv
  <2>2. SideHalfContour \in Nat /\ DOMAIN image \subseteq Places
    BY DetectionAssumption, PixelsArePlaces DEF ListInv
  <2> QED BY <2>1, <2>2, CenteredIs
<1> HIDE DEF pair
<1>6. CASE directions[Block(pair.at)] = NoDirection
  <2>1. Drop("side", i)
    BY <1>6 DEF AdjustSide, pair
  <2>2. Judge("side", i, TRUE)
    BY <1>2, <2>1 DEF Judge
  <2>3. "side" \in Singles /\ TRUE \in BOOLEAN
    BY DEF Singles
  <2> QED BY <2>2, <2>3, Judged
<1>7. CASE directions[Block(pair.at)] # NoDirection
  <2> DEFINE ms == [j \in 1..Len(minutiae) |-> IF j = i THEN m ELSE minutiae[j]]
             U == S \cup {m}
  <2>1. minutiae' = [minutiae EXCEPT ![i] = m] /\ at' = <<i + 1>>
    BY <1>7 DEF AdjustSide, pair
  <2>2. m.pair = pair
    BY DEF Minutia
  <2> HIDE DEF m
  <2>3. minutiae' = ms
    BY <1>3, <1>4, <2>1
  <2>4. Placed(U) /\ ms \in [1..Len(minutiae) -> U]
    <3>1. \A j \in 1..Len(minutiae) : minutiae[j] \in S
      BY <1>3, ElementOfSeq
    <3> QED BY <1>3, <1>5, <2>2, <3>1 DEF Placed
  <2> HIDE DEF ms, U
  <2>5. ms \in Seq(U) /\ Len(ms) = Len(minutiae)
    BY <1>4, <2>4, FunctionIsSeq
  <2>6. Listed(minutiae') /\ Len(minutiae') = Len(minutiae) /\ DOMAIN minutiae' = DOMAIN minutiae
    BY <1>4, <2>3, <2>4, <2>5 DEF Listed
  <2>7. Cursor'
    <3>1. i + 1 \in Int /\ i + 1 > 0 /\ at'[1] = i + 1
      BY <1>4, <2>1
    <3>2. stage' \notin {"maps", "rows", "columns"} /\ stage' \notin PairStages
      BY <1>1, <1>2 DEF PairStages
    <3> QED BY <2>1, <3>1, <3>2 DEF Cursor
  <2>8. Advances
    <3>1. Remaining = <<Len(minutiae) - at[1], 0>> /\ Remaining' = <<Len(minutiae') - at'[1], 0>>
      BY <1>1, <1>2, RemainingIs, RemainingNext DEF RemainingFor
    <3>2. Len(minutiae') - at'[1] < Len(minutiae) - at[1]
      BY <1>1, <1>4, <2>1, <2>6
    <3> QED BY <1>2, <3>1, <3>2 DEF Advances
  <2>9. OnEdge(m)
    BY <1>5, <1>7, <2>2 DEF OnEdge
  <2>10. \A n : OnEdge(n)' <=> OnEdge(n)
    BY <1>2 DEF OnEdge, Block, NoDirection
  <2>11. EdgesInv'
    <3>1. ASSUME NEW j \in DOMAIN minutiae', j < at'[1]
          PROVE  OnEdge(minutiae'[j])
      <4>1. j \in 1..Len(minutiae) /\ (j = i \/ j < i)
        BY <1>4, <2>1, <2>6, <3>1
      <4>2. CASE j = i
        BY <1>4, <2>3, <2>9, <4>2 DEF ms
      <4>3. CASE j # i /\ j < i
        <5>1. minutiae'[j] = minutiae[j] /\ j \in DOMAIN minutiae /\ j < at[1]
          BY <1>1, <1>4, <2>3, <4>1, <4>3 DEF ms
        <5> QED BY <1>1, <5>1 DEF EdgesInv
      <4> QED BY <4>1, <4>2, <4>3
    <3>2. stage' \notin AfterSide
      BY <1>1, <1>2 DEF AfterSide
    <3> QED BY <2>10, <3>1, <3>2 DEF EdgesInv
  <2> QED BY <1>1, <1>2, <2>6, <2>7, <2>8, <2>11, SameStage
<1> QED BY <1>6, <1>7

LEMMA SinglesKeep ==
  ASSUME ListInv, EdgesInv, NEW i \in DOMAIN minutiae, RemoveSingle(i)
  PROVE  Kept
<1>1. /\ {"holes", "pointing", "near", "side", "malformed", "pores"} = Singles
      /\ \A s \in {"holes", "pointing", "near", "malformed", "pores"} : s # "side" /\ s \in Singles
  BY DEF Singles
<1>2. CASE RemoveHoles(i)
  <2>1. PICK odd \in BOOLEAN : Looking("holes", i) /\ Judge("holes", i, odd)
    BY <1>2 DEF RemoveHoles
  <2> QED BY <1>1, <2>1, Judged
<1>3. CASE RemovePointingInvblock(i)
  <2>1. PICK odd \in BOOLEAN : Looking("pointing", i) /\ Judge("pointing", i, odd)
    BY <1>3 DEF RemovePointingInvblock
  <2> QED BY <1>1, <2>1, Judged
<1>4. CASE RemoveNearInvblock(i)
  <2>1. PICK odd \in BOOLEAN : Looking("near", i) /\ Judge("near", i, odd)
    BY <1>4 DEF RemoveNearInvblock
  <2> QED BY <1>1, <2>1, Judged
<1>5. CASE RemoveOrAdjustSide(i)
  <2>1. CASE Judge("side", i, TRUE)
    <3>1. Looking("side", i) /\ TRUE \in BOOLEAN
      BY <1>5 DEF RemoveOrAdjustSide
    <3> QED BY <1>1, <2>1, <3>1, Judged
  <2>2. CASE \E loc \in DOMAIN CenteredContour(image, SideHalfContour, minutiae[i].pair) :
               AdjustSide(i, CenteredContour(image, SideHalfContour, minutiae[i].pair)[loc])
    <3>1. Looking("side", i)
      BY <1>5 DEF RemoveOrAdjustSide
    <3> QED BY <2>2, <3>1, SideMoved
  <2> QED BY <1>5, <2>1, <2>2 DEF RemoveOrAdjustSide
<1>6. CASE RemoveMalformations(i)
  <2>1. PICK odd \in BOOLEAN : Looking("malformed", i) /\ Judge("malformed", i, odd)
    BY <1>6 DEF RemoveMalformations
  <2> QED BY <1>1, <2>1, Judged
<1>7. CASE RemovePores(i)
  <2>1. PICK odd \in BOOLEAN : Looking("pores", i) /\ Judge("pores", i, odd)
    BY <1>7 DEF RemovePores
  <2> QED BY <1>1, <2>1, Judged
<1> QED BY <1>2, <1>3, <1>4, <1>5, <1>6, <1>7 DEF RemoveSingle

\* The cursor of a stage over pairs moves on.
LEMMA PairMoved ==
  ASSUME ListInv, EdgesInv, stage \in PairStages, stage' = stage, minutiae' = minutiae, directions' = directions,
         DOMAIN image' = DOMAIN image, stage # "islands" => image' = image, NextFirst(at[1]) \/ NextSecond(at[1], at[2])
  PROVE  Kept
<1>1. PICK f \in Int, s \in Int : at = <<f, s>>
  BY DEF ListInv, Cursor
<1>2. at' = <<f + 1, f + 2>> \/ at' = <<f, s + 1>>
  BY <1>1 DEF NextFirst, NextSecond
<1>3. Len(minutiae) \in Nat
  BY ListedIs DEF ListInv
<1>4. Cursor'
  <2>1. stage \notin {"maps", "rows", "columns", "side", "counting"} /\ stage \notin Singles
    BY DEF PairStages, Singles
  <2>2. f + 1 \in Int /\ f + 2 \in Int /\ s + 1 \in Int
    OBVIOUS
  <2> QED BY <1>2, <2>1, <2>2 DEF Cursor
<1>5. Advances
  <2>1. /\ Remaining = <<Len(minutiae) - at[1], Len(minutiae) - at[2]>>
        /\ Remaining' = <<Len(minutiae) - at'[1], Len(minutiae) - at'[2]>>
    BY RemainingIs, RemainingNext DEF RemainingFor
  <2>2. CASE at' = <<f + 1, f + 2>>
    <3>1. Len(minutiae) - at'[1] < Len(minutiae) - at[1]
      BY <1>1, <1>3, <2>2
    <3> QED BY <2>1, <3>1 DEF Advances
  <2>3. CASE at' = <<f, s + 1>>
    <3>1. Len(minutiae) - at'[1] = Len(minutiae) - at[1] /\ Len(minutiae) - at'[2] < Len(minutiae) - at[2]
      BY <1>1, <1>3, <2>3
    <3> QED BY <2>1, <3>1 DEF Advances
  <2> QED BY <1>2, <2>2, <2>3
<1>6. EdgesInv'
  <2>1. stage' # "side" /\ (stage' \in AfterSide => image' = image)
    BY DEF PairStages, AfterSide
  <2>2. image' = image => \A m : OnEdge(m)' <=> OnEdge(m)
    BY DEF OnEdge, Block, NoDirection
  <2> QED BY <2>1, <2>2 DEF EdgesInv
<1>7. stage \notin {"maps", "rows", "columns"} /\ Listed(minutiae')
  BY DEF PairStages, ListInv
<1> QED BY <1>4, <1>5, <1>6, <1>7, SameStage

LEMMA PairsKeep ==
  ASSUME ListInv, EdgesInv, NEW f \in DOMAIN minutiae, NEW s \in DOMAIN minutiae, RemovePair(f, s)
  PROVE  Kept
<1>1. ASSUME NEW v, Settle(f, s, v)
      PROVE  stage' = stage /\ minutiae' = minutiae /\ directions' = directions /\ (NextFirst(f) \/ NextSecond(f, s))
  <2>1. UNCHANGED <<maps, minutiae, stage>> /\ (NextFirst(f) \/ NextSecond(f, s))
    BY <1>1, Zenon DEF Settle
  <2> QED BY <2>1 DEF maps
<1>2. ASSUME NEW st \in PairStages, Comparing(st, f, s)
      PROVE  stage = st /\ stage \in PairStages /\ at[1] = f /\ at[2] = s
  BY <1>2 DEF Comparing
<1>3. CASE RemoveIslandsAndLakes(f, s)
  <2>1. stage = "islands" /\ stage \in PairStages /\ at[1] = f /\ at[2] = s
    BY <1>2, <1>3 DEF RemoveIslandsAndLakes, PairStages
  <2>2. \E v : Settle(f, s, v)
    BY <1>3 DEF RemoveIslandsAndLakes
  <2>3. \E loop : image' = FillLoop(image, loop.pairs) \/ image' = image
    BY <1>3, Zenon DEF RemoveIslandsAndLakes
  <2>4. DOMAIN image' = DOMAIN image
    BY <2>3 DEF FillLoop
  <2> QED BY <1>1, <2>1, <2>2, <2>4, PairMoved
<1>4. CASE RemoveHooks(f, s)
  <2>1. stage = "hooks" /\ stage \in PairStages /\ at[1] = f /\ at[2] = s
    BY <1>2, <1>4 DEF RemoveHooks, PairStages
  <2>2. image' = image /\ \E v : Settle(f, s, v)
    BY <1>4 DEF RemoveHooks
  <2> QED BY <1>1, <2>1, <2>2, PairMoved
<1>5. CASE RemoveOverlaps(f, s)
  <2>1. stage = "overlaps" /\ stage \in PairStages /\ at[1] = f /\ at[2] = s
    BY <1>2, <1>5 DEF RemoveOverlaps, PairStages
  <2>2. image' = image /\ \E v : Settle(f, s, v)
    BY <1>5 DEF RemoveOverlaps
  <2> QED BY <1>1, <2>1, <2>2, PairMoved
<1> QED BY <1>3, <1>4, <1>5 DEF RemovePair

LEMMA EndsKeep ==
  ASSUME ListInv, EdgesInv, SingleStageEnds \/ PairStageMoves \/ PairStageEnds
  PROVE  Kept
<1>1. PICK S : minutiae \in Seq(S) /\ Placed(S)
  BY DEF ListInv, Listed
<1>2. Len(minutiae) \in Nat /\ DOMAIN minutiae = 1..Len(minutiae) /\ \A j \in DOMAIN minutiae : minutiae[j] \in S
  BY <1>1, LenProperties, ElementOfSeq
<1>3. CASE SingleStageEnds
  <2>1. stage \in Singles
    <3>1. stage \in ToSet(Removals) /\ stage \notin PairStages /\ stage # "done"
      BY <1>3 DEF SingleStageEnds
    <3>2. \A k \in DOMAIN Removals : Removals[k] \in Singles \cup PairStages \cup {"done"}
      <4>1. DOMAIN Removals = 1..10 /\ \A k \in 1..10 : k \in {1, 2, 3, 4, 5, 6, 7, 8, 9, 10}
        BY DEF Removals
      <4> QED BY <4>1 DEF Removals, Singles, PairStages
    <3> QED BY <3>1, <3>2 DEF ToSet
  <2>2. EndStage(minutiae) /\ UNCHANGED <<maps, image>> /\ Listed(minutiae)
    BY <1>3 DEF SingleStageEnds, ListInv
  <2>3. ASSUME stage = "side", NEW j \in DOMAIN minutiae
        PROVE  OnEdge(minutiae[j])
    <3>1. PICK i \in Int : at = <<i>> /\ i > 0
      BY <2>3, <2>1 DEF ListInv, Cursor
    <3>2. i \notin DOMAIN minutiae
      BY <1>3, <3>1 DEF SingleStageEnds
    <3>3. j < at[1]
      BY <1>2, <3>1, <3>2
    <3> QED BY <2>3, <3>3 DEF EdgesInv
  <2>4. stage = "side" \/ stage \in AfterSide => \A j \in DOMAIN minutiae : OnEdge(minutiae[j])
    BY <2>3 DEF EdgesInv
  <2> QED BY <2>1, <2>2, <2>4, StageEnds
<1>4. CASE PairStageMoves
  <2>1. stage \in PairStages /\ NextFirst(at[1]) /\ UNCHANGED <<maps, image, minutiae, stage, flagged>>
    BY <1>4 DEF PairStageMoves
  <2>2. directions' = directions
    BY <2>1 DEF maps
  <2> QED BY <2>1, <2>2, PairMoved
<1>5. CASE PairStageEnds
  <2>1. stage \in PairStages /\ EndStage(Without(minutiae, flagged)) /\ UNCHANGED <<maps, image>>
    BY <1>5 DEF PairStageEnds
  <2> DEFINE ms == Without(minutiae, flagged)
             T == {minutiae[j] : j \in DOMAIN minutiae}
  <2>2. Listed(ms)
    BY DroppedIs DEF ListInv
  <2>3. ASSUME stage \in AfterSide
        PROVE  \A j \in DOMAIN ms : OnEdge(ms[j])
    <3>1. \A m \in T : OnEdge(m)
      BY <2>3 DEF EdgesInv
    <3>2. \A j \in 1..Len(minutiae) : minutiae[j] \in T
      BY <1>2
    <3> HIDE DEF T
    <3>3. minutiae \in Seq(T)
      BY <1>1, <3>2, SeqOver
    <3>4. ms \in Seq(T)
      BY <3>3, WithoutIs
    <3> HIDE DEF ms
    <3> QED BY <3>1, <3>4, LenProperties, ElementOfSeq
  <2>4. stage # "side" /\ stage \in {"islands", "hooks", "overlaps"} \cup Singles
    BY <2>1 DEF PairStages
  <2> HIDE DEF ms
  <2>5. EndStage(ms)
    BY <2>1 DEF ms
  <2> QED BY <2>1, <2>2, <2>3, <2>4, <2>5, StageEnds
<1> QED BY <1>3, <1>4, <1>5

LEMMA SortKeeps ==
  ASSUME ListInv, SortMinutiae
  PROVE  Kept
<1>1. stage = "sort" /\ minutiae' = Sorted(minutiae) /\ stage' = "islands" /\ image' = image
  BY DEF SortMinutiae, Removals
<1>2. at' = <<1, 2>>
  BY <1>1 DEF SortMinutiae, Start, PairStages, Removals
<1>3. Listed(minutiae')
  <2>1. PICK S : minutiae \in Seq(S) /\ Placed(S)
    BY DEF ListInv, Listed
  <2> QED BY <1>1, <2>1, SortedIs DEF Listed
<1>4. Cursor'
  BY <1>1, <1>2 DEF Cursor, Singles
<1>5. ListInv'
  BY <1>1, <1>3, <1>4 DEF ListInv, StagesOfList, Maps!Pixels, Listed, Placed, Places
<1>6. EdgesInv'
  BY <1>1 DEF EdgesInv, AfterSide
<1>7. Advances
  BY <1>1, Ranks DEF Advances
<1> QED BY <1>5, <1>6, <1>7 DEF Kept

\* A round of a scan moves its cursor on, and what it finds lies somewhere.
LEMMA ScanKeeps ==
  ASSUME ListInv, NEW scan \in {"rows", "columns"}, stage = scan, NEW then \in {"columns", "sort"}, Rank(then) > Rank(scan),
         then = "columns" => scan = "rows", Scan(scan, then, ScanRound(scan, at[1], at[2]))
  PROVE  Kept
<1> DEFINE round == ScanRound(scan, at[1], at[2])
<1>1. PICK line \in Nat, pos \in Nat : at = <<line, pos>> /\ line < Lines(scan) /\ pos < Length(scan)
  BY DEF ListInv, Cursor
<1>2. Lines(scan) \in Nat /\ Length(scan) \in Nat /\ ImageWidth \in Nat /\ ImageHeight \in Nat /\ ImageWidth > 0 /\ ImageHeight > 0
  <2>1. ImageWidth \in Nat /\ ImageHeight \in Nat
    BY DetectionAssumption
  <2>2. Lines(scan) \in {ImageWidth, ImageHeight} /\ Length(scan) \in {ImageWidth, ImageHeight}
    BY DEF Lines, Length
  <2>3. {Lines(scan), Length(scan)} = {ImageWidth, ImageHeight} /\ Lines(scan) > 0 /\ Length(scan) > 0
    BY <1>1, <2>1, <2>2 DEF Lines, Length
  <2> QED BY <2>1, <2>2, <2>3
<1>3. FoundOn(DOMAIN image, round.found) /\ round.next \in Int /\ round.next > pos
  <2>1. DOMAIN image \subseteq Places /\ Listed(minutiae)
    BY PixelsArePlaces DEF ListInv
  <2>2. /\ FoundOn(DOMAIN image, ScanRound(scan, line, pos).found)
        /\ ScanRound(scan, line, pos).next \in Int /\ ScanRound(scan, line, pos).next > pos
    BY <1>1, <1>2, <2>1, RoundIs
  <2> QED BY <1>1, <2>2
<1> HIDE DEF round
<1>4. image' = round.found.image /\ minutiae' = round.found.minutiae
  BY DEF Scan, round
<1>5. DOMAIN image' = DOMAIN image /\ Listed(minutiae')
  BY <1>3, <1>4 DEF FoundOn
<1>6. \/ round.next < Length(scan) /\ at' = <<line, round.next>> /\ stage' = stage
      \/ line + 2 < Lines(scan) /\ at' = <<line + 1, 0>> /\ stage' = stage
      \/ at' = <<0, 0>> /\ stage' = then
  <2>1. (CASE round.next < Length(scan) -> at' = <<at[1], round.next>> /\ UNCHANGED stage
           [] round.next >= Length(scan) /\ at[1] + 2 < Lines(scan) -> at' = <<at[1] + 1, 0>> /\ UNCHANGED stage
           [] OTHER -> at' = <<0, 0>> /\ stage' = then)
    BY DEF Scan, round
  <2> DEFINE c == round.next < Length(scan)  d == round.next >= Length(scan) /\ at[1] + 2 < Lines(scan)
             x == at' = <<at[1], round.next>> /\ UNCHANGED stage
             y == at' = <<at[1] + 1, 0>> /\ UNCHANGED stage
             z == at' = <<0, 0>> /\ stage' = then
  <2>2. (CASE c -> x [] d -> y [] OTHER -> z)
    BY <2>1
  <2>3. ~(c /\ d)
    BY <1>2, <1>3
  <2> HIDE DEF c, d, x, y, z
  <2>4. (c /\ x) \/ (d /\ y) \/ z
    BY <2>2, <2>3, Zenon
  <2> QED BY <1>1, <2>4 DEF c, d, x, y, z
<1>7. CASE stage' = stage /\ ((round.next < Length(scan) /\ at' = <<line, round.next>>) \/ (line + 2 < Lines(scan) /\ at' = <<line + 1, 0>>))
  <2>1. \E l \in Nat, p \in Nat : at' = <<l, p>> /\ l < Lines(scan) /\ p < Length(scan) /\ (l > line \/ (l = line /\ p > pos))
    <3>1. CASE round.next < Length(scan) /\ at' = <<line, round.next>>
      <4>1. round.next \in Nat
        BY <1>3
      <4> QED BY <1>1, <1>3, <3>1, <4>1
    <3>2. CASE line + 2 < Lines(scan) /\ at' = <<line + 1, 0>>
      <4>1. line + 1 \in Nat /\ line + 1 < Lines(scan) /\ line + 1 > line /\ 0 \in Nat /\ 0 < Length(scan)
        BY <1>1, <1>2, <3>2
      <4> QED BY <3>2, <4>1
    <3> QED BY <1>7, <3>1, <3>2
  <2>2. PICK l \in Nat, p \in Nat : at' = <<l, p>> /\ l < Lines(scan) /\ p < Length(scan) /\ (l > line \/ (l = line /\ p > pos))
    BY <2>1
  <2>3. stage' \notin {"maps", "side", "counting"} /\ stage' \notin PairStages /\ stage' \notin Singles /\ stage' \notin AfterSide
    BY <1>7 DEF PairStages, Singles, AfterSide
  <2>4. Cursor'
    BY <1>7, <2>2, <2>3 DEF Cursor, Lines, Length
  <2>5. ListInv'
    BY <1>5, <1>7, <2>4 DEF ListInv, Maps!Pixels, Listed, Placed, Places
  <2>6. EdgesInv'
    BY <2>3 DEF EdgesInv
  <2>7. Advances
    <3>1. /\ Remaining = <<Lines(scan) - at[1], Length(scan) - at[2]>>
          /\ Remaining' = <<Lines(scan) - at'[1], Length(scan) - at'[2]>>
      BY <1>7, RemainingIs, RemainingNext DEF RemainingFor, Lines, Length
    <3>2. CASE l > line
      <4>1. Lines(scan) - at'[1] < Lines(scan) - at[1]
        BY <1>1, <1>2, <2>2, <3>2
      <4> QED BY <1>7, <3>1, <4>1 DEF Advances
    <3>3. CASE l = line /\ p > pos
      <4>1. Lines(scan) - at'[1] = Lines(scan) - at[1] /\ Length(scan) - at'[2] < Length(scan) - at[2]
        BY <1>1, <1>2, <2>2, <3>3
      <4> QED BY <1>7, <3>1, <4>1 DEF Advances
    <3> QED BY <2>2, <3>2, <3>3
  <2> QED BY <2>5, <2>6, <2>7 DEF Kept
<1>8. CASE at' = <<0, 0>> /\ stage' = then
  <2>1. stage' \notin {"maps", "side", "counting"} /\ stage' \notin PairStages /\ stage' \notin Singles /\ stage' \notin AfterSide
    BY <1>8 DEF PairStages, Singles, AfterSide
  <2>2. Cursor'
    <3>1. stage' \in {"rows", "columns"} => Lines(stage') > 0 /\ Length(stage') > 0
      BY <1>2 DEF Lines, Length
    <3>2. stage' \in {"rows", "columns"} => \E l \in Nat, p \in Nat : at' = <<l, p>> /\ l < Lines(stage') /\ p < Length(stage')
      <4>1. 0 \in Nat
        OBVIOUS
      <4> QED BY <1>8, <3>1, <4>1
    <3> QED BY <2>1, <3>2 DEF Cursor, Lines, Length
  <2>3. ListInv'
    BY <1>5, <1>8, <2>2 DEF ListInv, StagesOfList, Maps!Pixels, Listed, Placed, Places
  <2>4. EdgesInv'
    BY <2>1 DEF EdgesInv
  <2>5. Advances
    BY <1>8 DEF Advances
  <2> QED BY <2>3, <2>4, <2>5 DEF Kept
<1> QED BY <1>6, <1>7, <1>8

LEMMA MinutiaeKeep ==
  ASSUME ListInv, EdgesInv, MinutiaeNext
  PROVE  Kept
<1>1. CASE ScanHorizontally
  <2>1. "rows" \in {"rows", "columns"} /\ "columns" \in {"columns", "sort"} /\ Rank("columns") > Rank("rows")
    BY Ranks
  <2>2. stage = "rows" /\ Scan("rows", "columns", ScanRound("rows", at[1], at[2]))
    BY <1>1 DEF ScanHorizontally
  <2> QED BY <2>1, <2>2, ScanKeeps
<1>2. CASE ScanVertically
  <2>1. "columns" \in {"rows", "columns"} /\ "sort" \in {"columns", "sort"} /\ Rank("sort") > Rank("columns")
    BY Ranks
  <2>2. stage = "columns" /\ Scan("columns", "sort", ScanRound("columns", at[1], at[2]))
    BY <1>2 DEF ScanVertically
  <2>3. "sort" # "columns"
    OBVIOUS
  <2> QED BY <2>1, <2>2, <2>3, ScanKeeps
<1>3. CASE SortMinutiae
  BY <1>3, SortKeeps
<1>4. CASE \E i \in DOMAIN minutiae : RemoveSingle(i)
  BY <1>4, SinglesKeep
<1>5. CASE \E f, s \in DOMAIN minutiae : RemovePair(f, s)
  BY <1>5, PairsKeep
<1>6. CASE SingleStageEnds \/ PairStageMoves \/ PairStageEnds
  BY <1>6, EndsKeep
<1> QED BY <1>1, <1>2, <1>3, <1>4, <1>5, <1>6 DEF MinutiaeNext, Detect

LEMMA RidgesKeep ==
  ASSUME ListInv, EdgesInv, RidgesNext
  PROVE  Kept
<1>1. PICK S : minutiae \in Seq(S) /\ Placed(S)
  BY DEF ListInv, Listed
<1>2. Len(minutiae) \in Nat /\ DOMAIN minutiae = 1..Len(minutiae) /\ \A j \in DOMAIN minutiae : minutiae[j] \in S
  BY <1>1, LenProperties, ElementOfSeq
<1>3. image' = image /\ directions' = directions
  BY DEF RidgesNext, SortByColumn, CountRidges, CountingEnds, maps
<1>4. \A m : OnEdge(m)' <=> OnEdge(m)
  BY <1>3 DEF OnEdge, Block, NoDirection
<1>5. CASE SortByColumn
  <2> DEFINE T == {m \in S : OnEdge(m)}
             a == Arranged(minutiae, MoreLeft)
             gone == {i \in 1..(Len(a) - 1) : Place(a[i]) = Place(a[i + 1])}
  <2>1. stage = "done" /\ stage' = "counting" /\ at' = <<1>> /\ minutiae' = Deduplicated(Arranged(minutiae, MoreLeft))
    BY <1>5 DEF SortByColumn
  <2>2. minutiae' = Without(a, gone)
    BY <2>1 DEF Deduplicated
  <2>3. Placed(T) /\ \A j \in 1..Len(minutiae) : minutiae[j] \in T
    <3>1. \A j \in DOMAIN minutiae : OnEdge(minutiae[j])
      BY <2>1 DEF EdgesInv, AfterSide
    <3> QED BY <1>1, <1>2, <3>1 DEF Placed
  <2>4. \A m \in T : OnEdge(m)
    OBVIOUS
  <2> HIDE DEF T
  <2>5. minutiae \in Seq(T)
    BY <1>1, <2>3, SeqOver
  <2>6. a \in Seq(T)
    BY <2>3, <2>5, ArrangedIs
  <2> HIDE DEF a, gone
  <2>7. minutiae' \in Seq(T)
    BY <2>2, <2>6, WithoutIs
  <2>8. Cursor'
    BY <2>1 DEF Cursor, PairStages
  <2>9. ListInv'
    BY <1>3, <2>1, <2>3, <2>7, <2>8 DEF ListInv, StagesOfList, Maps!Pixels, Listed, Placed, Places
  <2>10. EdgesInv'
    <3>1. \A j \in DOMAIN minutiae' : OnEdge(minutiae'[j])
      BY <2>4, <2>7, LenProperties, ElementOfSeq
    <3> QED BY <1>4, <2>1, <3>1 DEF EdgesInv
  <2>11. Advances
    BY <2>1, Ranks DEF Advances
  <2> QED BY <2>9, <2>10, <2>11 DEF Kept
<1>6. ASSUME NEW i \in DOMAIN minutiae, CountRidges(i)
      PROVE  Kept
  <2>1. stage = "counting" /\ at = <<i>> /\ stage' = stage /\ minutiae' = minutiae /\ at' = <<i + 1>>
    BY <1>6 DEF CountRidges
  <2>2. Cursor'
    BY <1>2, <2>1 DEF Cursor, PairStages
  <2>3. Advances
    <3>1. Remaining = <<Len(minutiae) - at[1], 0>> /\ Remaining' = <<Len(minutiae) - at'[1], 0>>
      BY <2>1, RemainingIs, RemainingNext DEF RemainingFor
    <3>2. Len(minutiae) - at'[1] < Len(minutiae) - at[1]
      BY <1>2, <2>1
    <3> QED BY <2>1, <3>1, <3>2 DEF Advances
  <2>4. EdgesInv'
    BY <1>4, <2>1 DEF EdgesInv
  <2>5. Listed(minutiae') /\ DOMAIN image' = DOMAIN image /\ stage \notin {"maps", "rows", "columns"}
    BY <1>3, <2>1 DEF ListInv
  <2> QED BY <2>1, <2>2, <2>3, <2>4, <2>5, SameStage
<1>7. CASE CountingEnds
  <2>1. stage = "counting" /\ stage' = "finished" /\ minutiae' = minutiae
    BY <1>7 DEF CountingEnds
  <2>2. Cursor'
    BY <2>1 DEF Cursor, PairStages, Singles
  <2>3. ListInv'
    BY <1>3, <2>1, <2>2 DEF ListInv, StagesOfList, Maps!Pixels, Listed, Placed, Places
  <2>4. EdgesInv'
    BY <1>4, <2>1 DEF EdgesInv, AfterSide
  <2>5. Advances
    BY <2>1, Ranks DEF Advances
  <2> QED BY <2>3, <2>4, <2>5 DEF Kept
<1> QED BY <1>5, <1>6, <1>7 DEF RidgesNext

\* A removal that removes leaves fewer directions, and every other stage of the maps is the next.
LEMMA MapsAdvance ==
  ASSUME MapInv, ListInv, EdgesInv, BuildMaps
  PROVE  Kept
<1>1. stage = "maps" /\ Maps!Next /\ minutiae' = minutiae /\ stage' = stage /\ at' = at
  BY DEF BuildMaps, listVars
<1>2. Advances
  <2>1. CASE mapStage' = mapStage + 1
    <3>1. mapStage \in Int
      BY StageNames DEF MapInv
    <3> QED BY <1>1, <2>1, <3>1 DEF Advances
  <2>2. CASE Maps!RemoveDirections /\ directions' # directions
    <3> DEFINE after == Maps!Swept(Maps!TestAndRemove, Maps!Walk)
               V == {b \in Maps!Blocks : directions[b] # Maps!Invalid}
               W == {b \in Maps!Blocks : directions'[b] # Maps!Invalid}
    <3>1. directions' = after /\ mapStage \in {2, 5}
      BY <2>2, WhereStages DEF Maps!RemoveDirections, MapInv
    <3>2. OnBlocks(directions)
      BY <3>1 DEF MapInv
    <3>3. OnBlocks(directions') /\ \A b \in Maps!Blocks : directions'[b] \in {directions[b], Maps!Invalid}
      BY <3>1, <3>2, SweptQuiet
    <3> HIDE DEF after
    <3>4. PICK b \in Maps!Blocks : directions'[b] # directions[b]
      BY <2>2, <3>2, <3>3 DEF OnBlocks
    <3>5. b \in V /\ b \notin W /\ W \subseteq V
      BY <3>3, <3>4
    <3>6. IsFiniteSet(V)
      <4>1. MapWidth - 1 \in Int /\ MapHeight - 1 \in Int
        BY DetectionAssumption
      <4>2. IsFiniteSet(0..(MapWidth - 1)) /\ IsFiniteSet(0..(MapHeight - 1))
        BY <4>1, FS_Interval
      <4>3. IsFiniteSet(Maps!Blocks)
        BY <4>2, FS_Product DEF Maps!Blocks
      <4> QED BY <4>3, FS_Subset
    <3>7. V = {c \in DOMAIN directions : directions[c] # NoDirection}
      <4>1. DOMAIN directions = Maps!Blocks
        BY <3>2 DEF OnBlocks
      <4> QED BY <4>1 DEF Maps!Invalid, NoDirection
    <3>8. W = {c \in DOMAIN directions' : directions'[c] # NoDirection'}
      <4>1. DOMAIN directions' = Maps!Blocks
        BY <3>3 DEF OnBlocks
      <4> QED BY <4>1 DEF Maps!Invalid, NoDirection
    <3> HIDE DEF V, W
    <3>9. Cardinality(W) < Cardinality(V)
      <4>1. Cardinality(V \ {b}) = Cardinality(V) - 1 /\ IsFiniteSet(V \ {b}) /\ Cardinality(V) \in Nat
        BY <3>5, <3>6, FS_RemoveElement, FS_CardinalityType
      <4>2. W \subseteq V \ {b}
        BY <3>5
      <4>3. Cardinality(W) <= Cardinality(V \ {b}) /\ Cardinality(W) \in Nat
        BY <4>1, <4>2, FS_Subset, FS_CardinalityType
      <4> QED BY <4>1, <4>3
    <3>10. Remaining = <<Cardinality(V), 0>> /\ Remaining' = <<Cardinality(W), 0>>
      BY <1>1, <3>7, <3>8, RemainingIs, RemainingNext DEF RemainingFor
    <3> QED BY <1>1, <3>9, <3>10 DEF Advances
  <2>3. Maps!Close \/ Maps!Smooth \/ Maps!Interpolate \/ Maps!Finish \/ Maps!Draw => mapStage' = mapStage + 1
    BY DEF Maps!Close, Maps!Smooth, Maps!Interpolate, Maps!Finish, Maps!Draw, Maps!Advance
  <2>4. Maps!RemoveDirections => directions' # directions \/ mapStage' = mapStage + 1
    BY DEF Maps!RemoveDirections, Maps!Advance
  <2> QED BY <1>1, <2>1, <2>2, <2>3, <2>4 DEF Maps!Next
<1>3. DOMAIN image' = Maps!Pixels
  <2>1. Maps!Draw => DOMAIN image' = Maps!Pixels
    <3>1. DOMAIN Maps!Binarized = Maps!Pixels
      BY DEF Maps!Binarized
    <3>2. DOMAIN Maps!FilledRows(image) = Maps!Pixels
      BY Zenon DEF Maps!FilledRows
    <3>3. DOMAIN Maps!FilledColumns(image) = Maps!Pixels
      BY Zenon DEF Maps!FilledColumns
    <3> QED BY <3>1, <3>2, <3>3 DEF Maps!Draw
  <2>2. Maps!Next /\ ~Maps!Draw => image' = image
    BY DEF Maps!Next, Maps!Close, Maps!RemoveDirections, Maps!Smooth, Maps!Interpolate, Maps!Finish
  <2> QED BY <1>1, <2>1, <2>2 DEF ListInv
<1>4. Cursor'
  BY <1>1 DEF Cursor, ListInv, PairStages, Singles
<1>5. ListInv'
  BY <1>1, <1>3, <1>4 DEF ListInv, Maps!Pixels, Listed, Placed, Places
<1>6. EdgesInv'
  BY <1>1 DEF EdgesInv, AfterSide
<1> QED BY <1>2, <1>5, <1>6 DEF Kept

LEMMA ScanStarts ==
  ASSUME ListInv, StartScan
  PROVE  Kept
<1>1. stage = "maps" /\ stage' = "rows" /\ image' = image /\ minutiae' = minutiae /\ at' = <<0, 0>>
  BY DEF StartScan, ListInv, Cursor
<1>2. Cursor'
  <2>1. ImageWidth \in Nat /\ ImageHeight \in Nat /\ 0 < ImageWidth /\ 0 < ImageHeight
    <3>1. /\ BlockSize \in Nat /\ MapWidth \in Nat /\ MapHeight \in Nat /\ MapWidth # 0 /\ MapHeight # 0
          /\ ImageWidth \in Nat /\ ImageHeight \in Nat
          /\ BlockSize * (MapWidth - 1) < ImageWidth /\ BlockSize * (MapHeight - 1) < ImageHeight
      BY DetectionAssumption
    <3>2. BlockSize * (MapWidth - 1) \in Nat /\ BlockSize * (MapHeight - 1) \in Nat
      <4>1. MapWidth - 1 \in Nat /\ MapHeight - 1 \in Nat
        BY <3>1
      <4>2. \A u, v \in Nat : u * v \in Nat
        OBVIOUS
      <4> QED BY <3>1, <4>1, <4>2
    <3> QED BY <3>1, <3>2
  <2>2. 0 < Lines("rows") /\ 0 < Length("rows") /\ 0 \in Nat
    BY <2>1 DEF Lines, Length
  <2>3. \E line \in Nat, pos \in Nat : at' = <<line, pos>> /\ line < Lines("rows") /\ pos < Length("rows")
    BY <1>1, <2>2
  <2> QED BY <1>1, <2>3 DEF Cursor, PairStages, Singles, Lines, Length
<1>3. ListInv'
  BY <1>1, <1>2 DEF ListInv, StagesOfList, Maps!Pixels, Listed, Placed, Places
<1>4. EdgesInv'
  BY <1>1 DEF EdgesInv, AfterSide
<1>5. Advances
  BY <1>1, Ranks DEF Advances
<1> QED BY <1>3, <1>4, <1>5 DEF Kept

-----------------------------------------------------------------------------
(* What holds of the list.                                                  *)

LEMMA ListInit == Init => ListInv /\ EdgesInv
<1> SUFFICES ASSUME Init PROVE ListInv /\ EdgesInv
  OBVIOUS
<1>1. stage = "maps" /\ minutiae = <<>> /\ at = <<0, 0>> /\ DOMAIN image = Maps!Pixels
  BY DEF Init, Maps!Init
<1>2. Listed(minutiae)
  <2>1. <<>> \in Seq({}) /\ Placed({})
    BY DEF Placed
  <2> QED BY <1>1, <2>1 DEF Listed
<1>3. Cursor
  BY <1>1 DEF Cursor, PairStages, Singles
<1> QED BY <1>1, <1>2, <1>3 DEF ListInv, EdgesInv, StagesOfList, AfterSide

LEMMA ListStep ==
  ASSUME MapInv, ListInv, EdgesInv, Next
  PROVE  Kept \/ UNCHANGED vars
<1>1. CASE BuildMaps
  BY <1>1, MapsAdvance
<1>2. CASE StartScan
  BY <1>2, ScanStarts
<1>3. CASE MinutiaeNext
  BY <1>3, MinutiaeKeep
<1>4. CASE RidgesNext
  BY <1>4, RidgesKeep
<1>5. CASE Finished
  BY <1>5 DEF Finished
<1> QED BY <1>1, <1>2, <1>3, <1>4, <1>5 DEF Next

LEMMA UnchangedKeeps ==
  ASSUME ListInv, EdgesInv, UNCHANGED vars
  PROVE  ListInv' /\ EdgesInv'
<1>1. image' = image /\ minutiae' = minutiae /\ stage' = stage /\ at' = at /\ directions' = directions
  BY DEF vars, maps, listVars
<1>2. ListInv'
  BY <1>1 DEF ListInv, Cursor, Lines, Length, Maps!Pixels, Listed, Placed, Places
<1>3. \A m : OnEdge(m)' <=> OnEdge(m)
  BY <1>1 DEF OnEdge, Block, NoDirection
<1>4. EdgesInv'
  BY <1>1, <1>3 DEF EdgesInv
<1> QED BY <1>2, <1>4

\* In every behaviour the list is one of minutiae that lie somewhere on the
\* image's plane, under a cursor that fits its stage.
THEOREM ListInvariant == Spec => [](ListInv /\ EdgesInv)
<1>1. Init => ListInv /\ EdgesInv
  BY ListInit
<1>2. MapInv /\ (ListInv /\ EdgesInv) /\ [Next]_vars => (ListInv /\ EdgesInv)'
  <2>1. CASE Next
    BY <2>1, ListStep, UnchangedKeeps DEF Kept
  <2>2. CASE UNCHANGED vars
    BY <2>2, UnchangedKeeps
  <2> QED BY <2>1, <2>2
<1> QED BY <1>1, <1>2, MapInvariant, PTL DEF Spec

\* Past the side stage every minutia left stands on an edge of the image as it
\* is by then, in a block with a flow, whatever was erased after it was found
\* (remove_or_adjust_side_minutiae_v2).
THEOREM EdgesSurvive == Spec => []SurvivorsOnEdges
<1>1. ListInv /\ EdgesInv => SurvivorsOnEdges
  BY DEF ListInv, EdgesInv, SurvivorsOnEdges, StagesOfList, Singles, AfterSide, OnEdge
<1> QED BY <1>1, ListInvariant, PTL

\* No step of the detection comes back to where it was, so it ends: not the
\* removals of directions that are repeated, not the scans that back up a pixel,
\* not the stages that take a minutia out of the list under their index.
THEOREM StepsAdvance == Spec => EveryStepAdvances
<1>1. MapInv /\ ListInv /\ EdgesInv /\ [Next]_vars => [Advances]_vars
  BY ListStep DEF Kept
<1> QED BY <1>1, MapInvariant, ListInvariant, PTL DEF Spec, EveryStepAdvances
=============================================================================
