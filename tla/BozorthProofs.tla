--------------------------- MODULE BozorthProofs ---------------------------
(***************************************************************************)
(* What holds of the matcher's paths, for any prints, tables and limits:    *)
(* a path pairs each minutia of the probe with one of the gallery and the   *)
(* other way round, nothing of one seed is left for the next, and the       *)
(* score is the best set of clusters that agree.                            *)
(*                                                                         *)
(* The argument is about what is paired at each place of the loop: a        *)
(* pairing is owed to the seed, to a group that the odometer has set, or to *)
(* an endpoint in the queue, and each of the three is undone by a part of   *)
(* the teardown.  Of the search for the score, it is about the cliques that *)
(* it has still to come to: each is ahead at some depth, or beaten.         *)
(***************************************************************************)
EXTENDS
  BozorthCluster, WellFoundedInduction, FiniteSetTheorems, FunctionTheorems, SequenceTheorems, TLAPS

-----------------------------------------------------------------------------
(* The inductive invariant.                                                *)

\* A group of alternatives is of an endpoint of either print.
GroupsOf(side, ends, others) ==
  [side : {side}, end : ends, alts : Seq(others), pick : Nat, set : Probe \cup {0}]
Groups == GroupsOf("probe", Probe, Gallery) \cup GroupsOf("gallery", Gallery, Probe)

\* The types of the work arrays.
Works ==
  [tq : [Probe -> Gallery \cup {0}], rq : [Gallery -> Probe \cup {0}],
   sc : [Rows -> Int], rk : [Rows -> Int], seen : SUBSET Probe,
   path : Seq(Rows), queue : Seq(Probe), groups : Seq(Groups),
   cp : [Probe -> Nat], rp : [Gallery -> Nat], over : BOOLEAN]

\* The two arrays of pairings are each other's inverse.
Mutual(w) == \A e \in Probe : \A l \in Gallery : w.tq[e] = l <=> w.rq[l] = e

\* Each group stands at one of its alternatives, and an endpoint's group is its own.
Grouped(w) ==
  /\ \A i \in DOMAIN w.groups : w.groups[i].pick \in DOMAIN w.groups[i].alts
  /\ \A e \in Probe : w.cp[e] # 0 =>
       w.cp[e] \in DOMAIN w.groups /\ w.groups[w.cp[e]].side = "probe" /\ w.groups[w.cp[e]].end = e
  /\ \A l \in Gallery : w.rp[l] # 0 =>
       w.rp[l] \in DOMAIN w.groups /\ w.groups[w.rp[l]].side = "gallery" /\ w.groups[w.rp[l]].end = l

\* The first n groups are set, each to an endpoint.
SetUpTo(w, n) == n <= Len(w.groups) /\ \A i \in 1..n : w.groups[i].set \in Probe
SetEnds(w, n) == {w.groups[i].set : i \in 1..n}

\* The endpoints that were put into the queue behind the seed's.
Later(w) == {w.queue[i] : i \in 2..Len(w.queue)}
Queueing(w) == w.queue # <<>> /\ w.queue[1] = Row(seed).k

\* Nothing is paired but the endpoints E and the seed's.
OnlyPaired(w, E) == \A e \in Probe : w.tq[e] # 0 => e = Row(seed).k \/ e \in E

\* A pairing that a path may rest on: its own, or the seed's.
Known(w, e, l) == <<e, l>> = SeedPair \/ w.tq[e] = l

\* While a path grows.
Growing(w) ==
  /\ Mutual(w) /\ Grouped(w) /\ SetUpTo(w, turned) /\ Queueing(w)
  /\ OnlyPaired(w, Later(w) \cup SetEnds(w, turned))
  /\ w.seen \subseteq Later(w)
  /\ \A e \in Later(w) : w.tq[e] # 0
  /\ \A x \in ToSet(w.path) : Known(w, Row(x).k, Row(x).a) /\ Known(w, Row(x).j, Row(x).b)

\* Between two settings of the odometer the seed alone is paired.
Standing(w) == Mutual(w) /\ Grouped(w) /\ Queueing(w) /\ OnlyPaired(w, {}) /\ w.seen = {}

\* The rows at hand rest on pairings that are there.
AheadKnown ==
  /\ ahead \in [first : SUBSET Rows, second : SUBSET Rows]
  /\ \A x \in ahead.first : Known(walk, Row(x).j, Row(x).b)
  /\ \A x \in ahead.second : Known(walk, Row(x).k, Row(x).a)

ClusterTyped ==
  /\ table \in Tables /\ walk \in Works
  /\ seed \in Nat /\ stamp \in Int /\ at \in Nat /\ turned \in Nat /\ dial \in Nat

ClusterInv ==
  /\ ClusterTyped
  /\ pc = "seed" => CleanBetweenSeeds /\ Mutual(walk)
  /\ pc \in {"path", "grow", "turn", "dial"} => seed \in Rows
  /\ pc = "path" => /\ Mutual(walk) /\ Grouped(walk) /\ SetUpTo(walk, turned)
                    /\ OnlyPaired(walk, SetEnds(walk, turned)) /\ walk.seen = {}
  /\ pc \in {"grow", "turn"} => Growing(walk)
  /\ pc = "grow" => AheadKnown /\ at # 0
  /\ pc = "dial" => Standing(walk) /\ dial <= Len(walk.groups)

-----------------------------------------------------------------------------
(* The rows of a table, and the fields that the sieve's helpers change.    *)

\* A row joins two minutiae of the probe and two of the gallery, none of which is 0.
LEMMA RowTyped ==
  ASSUME table \in Tables, NEW x \in Rows
  PROVE  /\ Row(x).k \in Probe /\ Row(x).j \in Probe
         /\ Row(x).a \in Gallery /\ Row(x).b \in Gallery
<1> DEFINE R == [k : Probe, j : Probe, a : Gallery, b : Gallery, rot : Int]
<1>1. table \in Seq(R)
  BY BozorthAssumption
<1>2. x \in 1..Len(table)
  BY <1>1, LenProperties DEF Rows
<1>3. table[x] \in R
  BY <1>1, <1>2, ElementOfSeq
<1> QED
  BY <1>3 DEF Row

\* Zero stands for no endpoint.
LEMMA ZeroIsNoEnd == 0 \notin Probe /\ 0 \notin Gallery
BY BozorthAssumption

\* Stamping a row puts it on the path, and changes stamps besides.
LEMMA StampedFields ==
  ASSUME NEW w \in Works, NEW x \in Rows, stamp \in Int
  PROVE  /\ Stamped(w, x) \in Works
         /\ Stamped(w, x).tq = w.tq /\ Stamped(w, x).rq = w.rq
         /\ Stamped(w, x).seen = w.seen /\ Stamped(w, x).queue = w.queue
         /\ Stamped(w, x).groups = w.groups /\ Stamped(w, x).over = w.over
         /\ Stamped(w, x).cp = w.cp /\ Stamped(w, x).rp = w.rp
         /\ ToSet(Stamped(w, x).path) \subseteq ToSet(w.path) \cup {x}
<1>1. CASE w.sc[x] = stamp
  BY <1>1 DEF Stamped
<1>2. CASE w.sc[x] # stamp
  <2> DEFINE p == Append(w.path, x)
  <2>1. p \in Seq(Rows) /\ ToSet(p) \subseteq ToSet(w.path) \cup {x}
    <3>1. w.path \in Seq(Rows)
      BY DEF Works
    <3>2. p \in Seq(Rows) /\ DOMAIN p = 1..(Len(w.path) + 1) /\ DOMAIN w.path = 1..Len(w.path)
          /\ Len(w.path) \in Nat /\ (\A i \in 1..Len(w.path) : p[i] = w.path[i]) /\ p[Len(w.path) + 1] = x
      BY <3>1, AppendProperties, LenProperties
    <3> QED
      BY <3>2 DEF ToSet
  <2>2. Stamped(w, x) = [w EXCEPT !.path = p, !.rk = [@ EXCEPT ![x] = w.sc[x]], !.sc = [@ EXCEPT ![x] = stamp]]
    BY <1>2 DEF Stamped
  <2>3. w.sc \in [Rows -> Int] /\ w.rk \in [Rows -> Int]
    BY DEF Works
  <2> DEFINE rk == [w.rk EXCEPT ![x] = w.sc[x]]
             sc == [w.sc EXCEPT ![x] = stamp]
  <2>4. rk \in [Rows -> Int] /\ sc \in [Rows -> Int]
    BY <2>3
  <2>5. Stamped(w, x) = [w EXCEPT !.path = p, !.rk = rk, !.sc = sc]
    BY <2>2 DEF Works
  <2> HIDE DEF p, rk, sc
  <2>6. [w EXCEPT !.path = p, !.rk = rk, !.sc = sc] \in Works
    BY <2>1, <2>4 DEF Works
  <2>7. [w EXCEPT !.path = p, !.rk = rk, !.sc = sc].path = p
    BY DEF Works
  <2> QED
    BY <2>1, <2>5, <2>6, <2>7
<1> QED
  BY <1>1, <1>2

\* An endpoint that has room in the queue comes last, and counts as seen.
LEMMA QueuedFields ==
  ASSUME NEW w \in Works, NEW e \in Probe
  PROVE  /\ Queued(w, e) \in Works
         /\ Queued(w, e).tq = w.tq /\ Queued(w, e).rq = w.rq
         /\ Queued(w, e).sc = w.sc /\ Queued(w, e).path = w.path
         /\ Queued(w, e).groups = w.groups
         /\ Queued(w, e).cp = w.cp /\ Queued(w, e).rp = w.rp
         /\ ~Queued(w, e).over =>
              Queued(w, e).queue = Append(w.queue, e) /\ Queued(w, e).seen = w.seen \cup {e}
<1>1. CASE Len(w.queue) >= QueueSize
  BY <1>1, Queued(w, e) = [w EXCEPT !.over = TRUE] DEF Queued, Works
<1>2. CASE ~(Len(w.queue) >= QueueSize)
  <2> DEFINE q == Append(w.queue, e)
             z == w.seen \cup {e}
  <2>1. q \in Seq(Probe) /\ z \in SUBSET Probe
    BY AppendProperties DEF Works
  <2>2. Queued(w, e) = [w EXCEPT !.queue = q, !.seen = z]
    BY <1>2 DEF Queued
  <2>3. q = Append(w.queue, e) /\ z = w.seen \cup {e}
    OBVIOUS
  <2> HIDE DEF q, z
  <2>4. [w EXCEPT !.queue = q, !.seen = z] \in Works
    BY <2>1 DEF Works
  <2>5. [w EXCEPT !.queue = q, !.seen = z].queue = q /\ [w EXCEPT !.queue = q, !.seen = z].seen = z
    BY DEF Works
  <2> QED
    BY <2>2, <2>3, <2>4, <2>5
<1> QED
  BY <1>1, <1>2

\* Two endpoints that are paired point at each other.
LEMMA PairedFields ==
  ASSUME NEW w \in Works, NEW e \in Probe, NEW l \in Gallery
  PROVE  /\ Paired(w, e, l) \in Works
         /\ Paired(w, e, l).tq = [w.tq EXCEPT ![e] = l]
         /\ Paired(w, e, l).rq = [w.rq EXCEPT ![l] = e]
         /\ Paired(w, e, l).sc = w.sc /\ Paired(w, e, l).path = w.path
         /\ Paired(w, e, l).groups = w.groups /\ Paired(w, e, l).over = w.over
         /\ Paired(w, e, l).cp = w.cp /\ Paired(w, e, l).rp = w.rp
         /\ Paired(w, e, l).queue = w.queue /\ Paired(w, e, l).seen = w.seen
BY DEF Paired, Works

\* What offering an alternative leaves alone: everything but the groups,
\* of which those that are there stay as set as they were.
Alike(w, v) ==
  /\ v.tq = w.tq /\ v.rq = w.rq /\ v.sc = w.sc /\ v.path = w.path
  /\ v.seen = w.seen /\ v.queue = w.queue /\ v.over = w.over
SetsKept(w, v) ==
  /\ Len(w.groups) <= Len(v.groups)
  /\ \A i \in 1..Len(w.groups) : v.groups[i].set = w.groups[i].set

\* A group can be given one more alternative of its kind.
LEMMA AlternativeAdded ==
  ASSUME NEW w \in Works, Grouped(w), NEW i \in DOMAIN w.groups, NEW m,
         \/ w.groups[i].side = "probe" /\ m \in Gallery
         \/ w.groups[i].side = "gallery" /\ m \in Probe
  PROVE  LET v == [w EXCEPT !.groups[i].alts = Append(@, m)] IN
         v \in Works /\ Grouped(v) /\ Alike(w, v) /\ SetsKept(w, v)
<1> DEFINE g == w.groups[i]
           alts == Append(g.alts, m)
           h == [g EXCEPT !.alts = alts]
           groups == [w.groups EXCEPT ![i] = h]
           v == [w EXCEPT !.groups = groups]
<1>1. w.groups \in Seq(Groups) /\ DOMAIN w.groups = 1..Len(w.groups) /\ Len(w.groups) \in Nat
  BY LenProperties DEF Works
<1>2. g \in Groups
  BY <1>1, ElementOfSeq
<1>3. /\ h \in Groups /\ h.side = g.side /\ h.end = g.end /\ h.pick = g.pick /\ h.set = g.set
      /\ h.alts = alts /\ DOMAIN g.alts \subseteq DOMAIN h.alts
  <2>1. CASE g.side = "probe"
    <3>1. g \in GroupsOf("probe", Probe, Gallery) /\ m \in Gallery
      BY <1>2, <2>1 DEF Groups, GroupsOf
    <3>2. g.alts \in Seq(Gallery)
      BY <3>1 DEF GroupsOf
    <3>3. alts \in Seq(Gallery) /\ Len(alts) = Len(g.alts) + 1
      BY <3>1, <3>2, AppendProperties
    <3>4. DOMAIN g.alts \subseteq DOMAIN alts
      BY <3>2, <3>3, LenProperties
    <3> HIDE DEF alts, g
    <3>5. h \in GroupsOf("probe", Probe, Gallery) /\ h.side = g.side /\ h.end = g.end /\ h.pick = g.pick
          /\ h.set = g.set /\ h.alts = alts
      BY <3>1, <3>3 DEF GroupsOf
    <3> QED
      BY <3>4, <3>5 DEF Groups
  <2>2. CASE g.side = "gallery"
    <3>1. g \in GroupsOf("gallery", Gallery, Probe) /\ m \in Probe
      BY <1>2, <2>2 DEF Groups, GroupsOf
    <3>2. g.alts \in Seq(Probe)
      BY <3>1 DEF GroupsOf
    <3>3. alts \in Seq(Probe) /\ Len(alts) = Len(g.alts) + 1
      BY <3>1, <3>2, AppendProperties
    <3>4. DOMAIN g.alts \subseteq DOMAIN alts
      BY <3>2, <3>3, LenProperties
    <3> HIDE DEF alts, g
    <3>5. h \in GroupsOf("gallery", Gallery, Probe) /\ h.side = g.side /\ h.end = g.end /\ h.pick = g.pick
          /\ h.set = g.set /\ h.alts = alts
      BY <3>1, <3>3 DEF GroupsOf
    <3> QED
      BY <3>4, <3>5 DEF Groups
  <2> QED
    BY <2>1, <2>2
<1>4. [w EXCEPT !.groups[i].alts = Append(@, m)] = v
  BY DEF Works
<1> HIDE DEF g, alts, h
<1>5. groups \in Seq(Groups) /\ Len(groups) = Len(w.groups) /\ DOMAIN groups = DOMAIN w.groups
      /\ groups[i] = h /\ \A n \in DOMAIN w.groups \ {i} : groups[n] = w.groups[n]
  BY <1>1, <1>3, ExceptSeq
<1> HIDE DEF groups
<1>6. v \in Works /\ Alike(w, v) /\ v.groups = groups /\ v.cp = w.cp /\ v.rp = w.rp
  BY <1>5 DEF Works, Alike
<1> HIDE DEF v
<1>7. \A n \in DOMAIN w.groups : /\ groups[n].side = w.groups[n].side /\ groups[n].end = w.groups[n].end
                                 /\ groups[n].pick = w.groups[n].pick /\ groups[n].set = w.groups[n].set
                                 /\ DOMAIN w.groups[n].alts \subseteq DOMAIN groups[n].alts
  BY <1>3, <1>5 DEF g
<1>8. Grouped(v)
  BY <1>5, <1>6, <1>7 DEF Grouped
<1>9. SetsKept(w, v)
  BY <1>1, <1>5, <1>6, <1>7 DEF SetsKept
<1> QED
  BY <1>4, <1>6, <1>8, <1>9

\* A new group has its first alternative only, and nothing set.
LEMMA GroupTyped ==
  /\ \A e \in Probe : \A l \in Gallery : Group("probe", e, l) \in Groups
  /\ \A e \in Probe : \A l \in Gallery : Group("gallery", l, e) \in Groups
  /\ \A side, end, first : 1 \in DOMAIN Group(side, end, first).alts
<1>1. \A S : \A m \in S : <<m>> \in Seq(S)
  OBVIOUS
<1> QED
  BY <1>1 DEF Group, Groups, GroupsOf

\* An endpoint without a group can be given one.
LEMMA ProbeGroupAdded ==
  ASSUME NEW w \in Works, Grouped(w), NEW e \in Probe, NEW l \in Gallery
  PROVE  LET v == [w EXCEPT !.groups = Append(@, Group("probe", e, l)), !.cp[e] = Len(w.groups) + 1] IN
         v \in Works /\ Grouped(v) /\ Alike(w, v) /\ SetsKept(w, v)
         /\ v.cp[e] \in DOMAIN v.groups /\ v.groups[v.cp[e]].side = "probe" /\ v.rp = w.rp
<1> DEFINE g == Group("probe", e, l)
           n == Len(w.groups) + 1
           groups == Append(w.groups, g)
           cp == [w.cp EXCEPT ![e] = n]
           v == [w EXCEPT !.groups = groups, !.cp = cp]
<1>1. w.groups \in Seq(Groups) /\ DOMAIN w.groups = 1..Len(w.groups) /\ Len(w.groups) \in Nat
  BY LenProperties DEF Works
<1>2. g \in Groups /\ g.pick \in DOMAIN g.alts /\ g.side = "probe" /\ g.end = e
  BY GroupTyped DEF Group
<1>3. [w EXCEPT !.groups = Append(@, Group("probe", e, l)), !.cp[e] = Len(w.groups) + 1] = v
  BY DEF Works
<1>4. cp \in [Probe -> Nat] /\ cp[e] = n /\ \A d \in Probe \ {e} : cp[d] = w.cp[d]
  BY <1>1 DEF Works
<1> HIDE DEF g, cp
<1>5. groups \in Seq(Groups) /\ Len(groups) = n /\ DOMAIN groups = 1..n
      /\ groups[n] = g /\ \A i \in DOMAIN w.groups : groups[i] = w.groups[i]
  BY <1>1, <1>2, AppendProperties, LenProperties
<1> HIDE DEF groups
<1>6. v \in Works /\ Alike(w, v) /\ v.groups = groups /\ v.cp = cp /\ v.rp = w.rp
  BY <1>4, <1>5 DEF Works, Alike
<1> HIDE DEF v
<1>7. Grouped(v)
  <2>1. \A i \in DOMAIN groups : groups[i].pick \in DOMAIN groups[i].alts
    BY <1>1, <1>2, <1>5 DEF Grouped
  <2>2. \A d \in Probe : cp[d] # 0 =>
          cp[d] \in DOMAIN groups /\ groups[cp[d]].side = "probe" /\ groups[cp[d]].end = d
    BY <1>1, <1>2, <1>4, <1>5 DEF Grouped
  <2>3. \A d \in Gallery : w.rp[d] # 0 =>
          w.rp[d] \in DOMAIN groups /\ groups[w.rp[d]].side = "gallery" /\ groups[w.rp[d]].end = d
    BY <1>1, <1>5 DEF Grouped
  <2> QED
    BY <1>6, <2>1, <2>2, <2>3 DEF Grouped
<1>8. SetsKept(w, v)
  BY <1>1, <1>5, <1>6 DEF SetsKept
<1>9. n \in DOMAIN groups
  BY <1>1, <1>5
<1> QED
  BY <1>2, <1>3, <1>4, <1>5, <1>6, <1>7, <1>8, <1>9

\* The same for an endpoint of the gallery.
LEMMA GalleryGroupAdded ==
  ASSUME NEW w \in Works, Grouped(w), NEW e \in Probe, NEW l \in Gallery
  PROVE  LET v == [w EXCEPT !.groups = Append(@, Group("gallery", l, e)), !.rp[l] = Len(w.groups) + 1] IN
         v \in Works /\ Grouped(v) /\ Alike(w, v) /\ SetsKept(w, v)
         /\ v.rp[l] \in DOMAIN v.groups /\ v.groups[v.rp[l]].side = "gallery" /\ v.cp = w.cp
<1> DEFINE g == Group("gallery", l, e)
           n == Len(w.groups) + 1
           groups == Append(w.groups, g)
           rp == [w.rp EXCEPT ![l] = n]
           v == [w EXCEPT !.groups = groups, !.rp = rp]
<1>1. w.groups \in Seq(Groups) /\ DOMAIN w.groups = 1..Len(w.groups) /\ Len(w.groups) \in Nat
  BY LenProperties DEF Works
<1>2. g \in Groups /\ g.pick \in DOMAIN g.alts /\ g.side = "gallery" /\ g.end = l
  BY GroupTyped DEF Group
<1>3. [w EXCEPT !.groups = Append(@, Group("gallery", l, e)), !.rp[l] = Len(w.groups) + 1] = v
  BY DEF Works
<1>4. rp \in [Gallery -> Nat] /\ rp[l] = n /\ \A d \in Gallery \ {l} : rp[d] = w.rp[d]
  BY <1>1 DEF Works
<1> HIDE DEF g, rp
<1>5. groups \in Seq(Groups) /\ Len(groups) = n /\ DOMAIN groups = 1..n
      /\ groups[n] = g /\ \A i \in DOMAIN w.groups : groups[i] = w.groups[i]
  BY <1>1, <1>2, AppendProperties, LenProperties
<1> HIDE DEF groups
<1>6. v \in Works /\ Alike(w, v) /\ v.groups = groups /\ v.cp = w.cp /\ v.rp = rp
  BY <1>4, <1>5 DEF Works, Alike
<1> HIDE DEF v
<1>7. Grouped(v)
  <2>1. \A i \in DOMAIN groups : groups[i].pick \in DOMAIN groups[i].alts
    BY <1>1, <1>2, <1>5 DEF Grouped
  <2>2. \A d \in Gallery : rp[d] # 0 =>
          rp[d] \in DOMAIN groups /\ groups[rp[d]].side = "gallery" /\ groups[rp[d]].end = d
    BY <1>1, <1>2, <1>4, <1>5 DEF Grouped
  <2>3. \A d \in Probe : w.cp[d] # 0 =>
          w.cp[d] \in DOMAIN groups /\ groups[w.cp[d]].side = "probe" /\ groups[w.cp[d]].end = d
    BY <1>1, <1>5 DEF Grouped
  <2> QED
    BY <1>6, <2>1, <2>2, <2>3 DEF Grouped
<1>8. SetsKept(w, v)
  BY <1>1, <1>5, <1>6 DEF SetsKept
<1>9. n \in DOMAIN groups
  BY <1>1, <1>5
<1> QED
  BY <1>2, <1>3, <1>4, <1>5, <1>6, <1>7, <1>8, <1>9

\* Alternatives add to the groups, and change nothing else.
LEMMA OfferProbeFields ==
  ASSUME NEW w \in Works, Grouped(w), NEW e \in Probe, NEW l \in Gallery
  PROVE  LET v == OfferProbe(w, e, l) IN v \in Works /\ Grouped(v) /\ Alike(w, v) /\ SetsKept(w, v)
<1>0. Len(w.groups) \in Nat /\ DOMAIN w.groups = 1..Len(w.groups)
  BY LenProperties DEF Works
<1>1. CASE w.tq[e] = 0
  BY <1>0, <1>1 DEF OfferProbe, Alike, SetsKept
<1>2. CASE w.tq[e] # 0
  <2> DEFINE opened == [w EXCEPT !.groups = Append(@, Group("probe", e, w.tq[e])),
                                 !.cp[e] = Len(w.groups) + 1]
             v == IF w.cp[e] # 0 THEN w ELSE opened
  <2>1. w.tq[e] \in Gallery
    BY <1>2 DEF Works
  <2>2. /\ v \in Works /\ Grouped(v) /\ Alike(w, v) /\ SetsKept(w, v)
        /\ v.cp[e] \in DOMAIN v.groups /\ v.groups[v.cp[e]].side = "probe"
    <3>1. CASE w.cp[e] # 0
      BY <1>0, <3>1 DEF Grouped, Alike, SetsKept
    <3>2. CASE w.cp[e] = 0
      <4>1. /\ opened \in Works /\ Grouped(opened) /\ Alike(w, opened) /\ SetsKept(w, opened)
            /\ opened.cp[e] \in DOMAIN opened.groups /\ opened.groups[opened.cp[e]].side = "probe"
        BY <2>1, ProbeGroupAdded
      <4> HIDE DEF opened
      <4> QED
        BY <3>2, <4>1
    <3> QED
      BY <3>1, <3>2
  <2> DEFINE u == [v EXCEPT !.groups[v.cp[e]].alts = Append(@, l)]
  <2>3. OfferProbe(w, e, l) = IF Contains(v.groups[v.cp[e]].alts, l) THEN v ELSE u
    BY <1>2 DEF OfferProbe
  <2> HIDE DEF v
  <2>4. u \in Works /\ Grouped(u) /\ Alike(v, u) /\ SetsKept(v, u)
    BY <2>2, AlternativeAdded
  <2> HIDE DEF u
  <2>5. Alike(w, u)
    BY <2>2, <2>4 DEF Alike
  <2>6. SetsKept(w, u)
    <3>1. Len(v.groups) \in Nat /\ Len(u.groups) \in Nat
      BY <2>2, <2>4, LenProperties DEF Works
    <3> QED
      BY <1>0, <2>2, <2>4, <3>1 DEF SetsKept
  <2> QED
    BY <2>2, <2>3, <2>4, <2>5, <2>6
<1> QED
  BY <1>1, <1>2

\* The same for an alternative of the gallery.
LEMMA OfferGalleryFields ==
  ASSUME NEW w \in Works, Grouped(w), NEW e \in Probe, NEW l \in Gallery
  PROVE  LET v == OfferGallery(w, e, l) IN v \in Works /\ Grouped(v) /\ Alike(w, v) /\ SetsKept(w, v)
<1>0. Len(w.groups) \in Nat /\ DOMAIN w.groups = 1..Len(w.groups)
  BY LenProperties DEF Works
<1>1. CASE w.rq[l] = 0
  BY <1>0, <1>1 DEF OfferGallery, Alike, SetsKept
<1>2. CASE w.rq[l] # 0
  <2> DEFINE opened == [w EXCEPT !.groups = Append(@, Group("gallery", l, w.rq[l])),
                                 !.rp[l] = Len(w.groups) + 1]
             v == IF w.rp[l] # 0 THEN w ELSE opened
  <2>1. w.rq[l] \in Probe
    BY <1>2 DEF Works
  <2>2. /\ v \in Works /\ Grouped(v) /\ Alike(w, v) /\ SetsKept(w, v)
        /\ v.rp[l] \in DOMAIN v.groups /\ v.groups[v.rp[l]].side = "gallery"
    <3>1. CASE w.rp[l] # 0
      BY <1>0, <3>1 DEF Grouped, Alike, SetsKept
    <3>2. CASE w.rp[l] = 0
      <4>1. /\ opened \in Works /\ Grouped(opened) /\ Alike(w, opened) /\ SetsKept(w, opened)
            /\ opened.rp[l] \in DOMAIN opened.groups /\ opened.groups[opened.rp[l]].side = "gallery"
        BY <2>1, GalleryGroupAdded
      <4> HIDE DEF opened
      <4> QED
        BY <3>2, <4>1
    <3> QED
      BY <3>1, <3>2
  <2> DEFINE u == [v EXCEPT !.groups[v.rp[l]].alts = Append(@, e)]
  <2>3. OfferGallery(w, e, l) = IF Contains(v.groups[v.rp[l]].alts, e) THEN v ELSE u
    BY <1>2 DEF OfferGallery
  <2> HIDE DEF v
  <2>4. u \in Works /\ Grouped(u) /\ Alike(v, u) /\ SetsKept(v, u)
    BY <2>2, AlternativeAdded
  <2> HIDE DEF u
  <2>5. Alike(w, u)
    BY <2>2, <2>4 DEF Alike
  <2>6. SetsKept(w, u)
    <3>1. Len(v.groups) \in Nat /\ Len(u.groups) \in Nat
      BY <2>2, <2>4, LenProperties DEF Works
    <3> QED
      BY <1>0, <2>2, <2>4, <3>1 DEF SetsKept
  <2> QED
    BY <2>2, <2>3, <2>4, <2>5, <2>6
<1> QED
  BY <1>1, <1>2

-----------------------------------------------------------------------------
(* One row of an endpoint keeps the path growing on pairings that are there. *)

\* Two free endpoints can be paired.
LEMMA PairedMutual ==
  ASSUME NEW w \in Works, NEW e \in Probe, NEW l \in Gallery, Mutual(w), FreeEnds(w, e, l)
  PROVE  Mutual(Paired(w, e, l))
<1> DEFINE v == Paired(w, e, l)
<1>1. v.tq = [w.tq EXCEPT ![e] = l] /\ v.rq = [w.rq EXCEPT ![l] = e]
  BY PairedFields
<1> HIDE DEF v
<1>2. w.tq \in [Probe -> Gallery \cup {0}] /\ w.rq \in [Gallery -> Probe \cup {0}]
  BY DEF Works
<1>3. w.tq[e] = 0 /\ w.rq[l] = 0
  BY DEF FreeEnds
<1> SUFFICES ASSUME NEW d \in Probe, NEW m \in Gallery PROVE v.tq[d] = m <=> v.rq[m] = d
  BY DEF v, Mutual
<1>4. w.tq[d] = m <=> w.rq[m] = d
  BY DEF Mutual
<1> QED
  BY <1>1, <1>2, <1>3, <1>4, ZeroIsNoEnd

\* What is known stays known as long as no pairing is undone.
LEMMA KnownKept ==
  ASSUME NEW w, NEW v, NEW e \in Probe, NEW l \in Gallery, Known(w, e, l),
         \A d \in Probe : w.tq[d] # 0 => v.tq[d] = w.tq[d]
  PROVE  Known(v, e, l)
BY ZeroIsNoEnd DEF Known

\* An endpoint that enters the queue comes behind the seed's.
LEMMA LaterAppended ==
  ASSUME NEW w \in Works, NEW v \in Works, NEW e \in Probe, Queueing(w), v.queue = Append(w.queue, e)
  PROVE  Queueing(v) /\ Later(v) = Later(w) \cup {e}
<1>1. w.queue \in Seq(Probe) /\ Len(w.queue) \in Nat /\ DOMAIN w.queue = 1..Len(w.queue)
  BY LenProperties DEF Works
<1>2. Len(w.queue) > 0
  BY <1>1, EmptySeq DEF Queueing
<1>3. /\ Len(v.queue) = Len(w.queue) + 1 /\ v.queue[Len(w.queue) + 1] = e
      /\ \A i \in 1..Len(w.queue) : v.queue[i] = w.queue[i]
  BY <1>1, AppendProperties
<1>4. v.queue # <<>>
  <2>1. Len(<<>>) = 0 /\ Len(v.queue) # 0
    BY <1>1, <1>3
  <2> QED
    BY <2>1, Zenon
<1>5. Queueing(v)
  BY <1>1, <1>2, <1>3, <1>4 DEF Queueing
<1>6. Later(v) = Later(w) \cup {e}
  BY <1>1, <1>2, <1>3 DEF Later
<1> QED
  BY <1>5, <1>6

\* A path that grows keeps growing when at most a pairing, an endpoint of the
\* queue and a row whose ends are known are added.
LEMMA GrowsOn ==
  ASSUME table \in Tables, turned \in Nat,
         NEW w \in Works, NEW v \in Works, NEW x \in Rows, Growing(w),
         Mutual(v), Grouped(v), SetsKept(w, v), Queueing(v), Later(w) \subseteq Later(v),
         v.seen \subseteq Later(v),
         \A d \in Probe : w.tq[d] # 0 => v.tq[d] = w.tq[d],
         \A d \in Probe : v.tq[d] # 0 => w.tq[d] # 0 \/ d \in Later(v),
         \A d \in Later(v) : v.tq[d] # 0,
         ToSet(v.path) \subseteq ToSet(w.path) \cup {x},
         x \in ToSet(v.path) /\ x \notin ToSet(w.path) =>
           Known(v, Row(x).k, Row(x).a) /\ Known(v, Row(x).j, Row(x).b)
  PROVE  Growing(v)
<1>1. Len(w.groups) \in Nat /\ Len(v.groups) \in Nat
  BY LenProperties DEF Works
<1>2. SetUpTo(w, turned)
  BY DEF Growing
<1>3. SetUpTo(v, turned) /\ SetEnds(v, turned) = SetEnds(w, turned)
  <2>1. turned <= Len(w.groups) /\ \A i \in 1..turned : w.groups[i].set \in Probe
    BY <1>2 DEF SetUpTo
  <2>2. turned <= Len(v.groups) /\ \A i \in 1..turned : v.groups[i].set = w.groups[i].set
    BY <1>1, <2>1 DEF SetsKept
  <2>3. SetUpTo(v, turned)
    BY <2>1, <2>2 DEF SetUpTo
  <2>4. SetEnds(v, turned) = SetEnds(w, turned)
    BY <2>2 DEF SetEnds
  <2> QED
    BY <2>3, <2>4
<1>4. OnlyPaired(v, Later(v) \cup SetEnds(v, turned))
  <2>1. OnlyPaired(w, Later(w) \cup SetEnds(w, turned))
    BY DEF Growing
  <2> QED
    BY <1>3, <2>1 DEF OnlyPaired
<1>5. ASSUME NEW y \in ToSet(v.path)
      PROVE  Known(v, Row(y).k, Row(y).a) /\ Known(v, Row(y).j, Row(y).b)
  <2>1. CASE y \in ToSet(w.path)
    <3>1. Known(w, Row(y).k, Row(y).a) /\ Known(w, Row(y).j, Row(y).b)
      BY <2>1 DEF Growing
    <3>2. y \in Rows
      BY <2>1 DEF ToSet, Works
    <3>3. Row(y).k \in Probe /\ Row(y).j \in Probe /\ Row(y).a \in Gallery /\ Row(y).b \in Gallery
      BY <3>2, RowTyped
    <3> QED
      BY <3>1, <3>3, KnownKept
  <2>2. CASE y \notin ToSet(w.path)
    BY <2>2
  <2> QED
    BY <2>1, <2>2
<1> QED
  BY <1>3, <1>4, <1>5 DEF Growing

\* Whatever the row's far ends are: when its near ones are known the path still
\* grows on known pairings, and none of them is undone.
LEMMA SiftKeeps ==
  ASSUME table \in Tables, turned \in Nat, stamp \in Int,
         NEW w \in Works, Growing(w), NEW x \in Rows,
         NEW e \in Probe, NEW l \in Gallery, NEW d \in Probe, NEW m \in Gallery,
         Known(w, d, m), RowPairs(x) = {<<e, l>>, <<d, m>>}
  PROVE  LET v == Sift(w, x, e, l) IN
         /\ v \in Works
         /\ ~v.over => Growing(v) /\ \A c \in Probe : w.tq[c] # 0 => v.tq[c] = w.tq[c]
<1>1. ASSUME NEW v, Known(v, e, l), Known(v, d, m)
      PROVE  Known(v, Row(x).k, Row(x).a) /\ Known(v, Row(x).j, Row(x).b)
  <2>1. /\ <<Row(x).k, Row(x).a>> = <<e, l>> \/ <<Row(x).k, Row(x).a>> = <<d, m>>
        /\ <<Row(x).j, Row(x).b>> = <<e, l>> \/ <<Row(x).j, Row(x).b>> = <<d, m>>
    BY DEF RowPairs
  <2> QED
    BY <1>1, <2>1
<1>2. Mutual(w) /\ Grouped(w) /\ Queueing(w) /\ w.seen \subseteq Later(w) /\ \A c \in Later(w) : w.tq[c] # 0
  BY DEF Growing
<1>3. CASE FreeEnds(w, e, l)
  <2> DEFINE s == Stamped(w, x)
             q == Queued(s, e)
             v == Paired(q, e, l)
  <2>1. Sift(w, x, e, l) = IF q.over THEN q ELSE v
    BY <1>3, ZeroIsNoEnd DEF Sift, FreeEnds
  <2>2. /\ s \in Works /\ s.tq = w.tq /\ s.rq = w.rq /\ s.seen = w.seen /\ s.queue = w.queue
        /\ s.groups = w.groups /\ s.over = w.over /\ s.cp = w.cp /\ s.rp = w.rp
        /\ ToSet(s.path) \subseteq ToSet(w.path) \cup {x}
    BY StampedFields, Zenon
  <2> HIDE DEF s
  <2>3. /\ q \in Works /\ q.tq = s.tq /\ q.rq = s.rq /\ q.path = s.path
        /\ q.groups = s.groups /\ q.cp = s.cp /\ q.rp = s.rp
        /\ (~q.over => q.queue = Append(s.queue, e) /\ q.seen = s.seen \cup {e})
    BY <2>2, QueuedFields
  <2> HIDE DEF q
  <2>4. CASE q.over
    BY <2>1, <2>3, <2>4
  <2>5. CASE ~q.over
    <3>0. q \in Works
      BY <2>3
    <3>1. /\ v \in Works /\ v.tq = [q.tq EXCEPT ![e] = l] /\ v.path = q.path /\ v.groups = q.groups
          /\ v.cp = q.cp /\ v.rp = q.rp /\ v.queue = q.queue /\ v.seen = q.seen
      <4>1. v \in Works
        BY <3>0, PairedFields
      <4>2. v.tq = [q.tq EXCEPT ![e] = l]
        BY <3>0, PairedFields, ZenonT(20)
      <4>3. /\ v.path = q.path /\ v.groups = q.groups /\ v.cp = q.cp /\ v.rp = q.rp
            /\ v.queue = q.queue /\ v.seen = q.seen
        BY <3>0, Paired(q, e, l) = [q EXCEPT !.tq[e] = l, !.rq[l] = e] DEF Paired, Works
      <4> QED
        BY <4>1, <4>2, <4>3
    <3>2. Mutual(v)
      <4>1. Mutual(q) /\ FreeEnds(q, e, l)
        BY <1>2, <1>3, <2>2, <2>3 DEF Mutual, FreeEnds
      <4> QED
        BY <2>3, <4>1, PairedMutual
    <3> HIDE DEF v
    <3>3. Grouped(v) /\ SetsKept(w, v)
      <4>1. Len(w.groups) \in Nat
        BY LenProperties DEF Works
      <4> QED
        BY <1>2, <2>2, <2>3, <3>1, <4>1 DEF Grouped, SetsKept
    <3>4. Queueing(v) /\ Later(v) = Later(w) \cup {e}
      BY <1>2, <2>2, <2>3, <2>5, <3>1, LaterAppended
    <3>5. w.tq[e] = 0 /\ v.tq[e] = l /\ \A c \in Probe \ {e} : v.tq[c] = w.tq[c]
      BY <1>3, <2>2, <2>3, <3>1 DEF FreeEnds, Works
    <3>6. \A c \in Probe : w.tq[c] # 0 => v.tq[c] = w.tq[c]
      BY <3>5
    <3>7. Known(v, e, l) /\ Known(v, d, m)
      BY <3>5, <3>6, KnownKept DEF Known
    <3>8. v.seen \subseteq Later(v)
      BY <1>2, <2>2, <2>3, <2>5, <3>1, <3>4
    <3>9. \A c \in Later(v) : v.tq[c] # 0
      <4>1. Later(w) \subseteq Probe
        BY DEF Later, Works
      <4> QED
        BY <1>2, <3>4, <3>5, <4>1, ZeroIsNoEnd
    <3>10. ToSet(v.path) \subseteq ToSet(w.path) \cup {x}
      BY <2>2, <2>3, <3>1
    <3>11. Growing(v)
      BY <1>1, <3>1, <3>2, <3>3, <3>4, <3>5, <3>6, <3>7, <3>8, <3>9, <3>10, GrowsOn
    <3> QED
      BY <2>1, <2>5, <3>1, <3>6, <3>11
  <2> QED
    BY <2>4, <2>5
<1>4. CASE ~FreeEnds(w, e, l) /\ w.tq[e] = l
  <2>1. CASE w.sc[x] = stamp
    BY <1>4, <2>1 DEF Sift
  <2>2. CASE w.sc[x] # stamp
    <3> DEFINE q == IF x \in w.seen THEN w ELSE Queued(w, e)
               v == Stamped(q, x)
    <3>1. Sift(w, x, e, l) = IF q.over THEN q ELSE v
      BY <1>4, <2>2 DEF Sift
    <3>2. /\ q \in Works /\ q.tq = w.tq /\ q.rq = w.rq /\ q.path = w.path
          /\ q.groups = w.groups /\ q.cp = w.cp /\ q.rp = w.rp
          /\ ~q.over => \/ q.queue = w.queue /\ q.seen = w.seen
                        \/ q.queue = Append(w.queue, e) /\ q.seen = w.seen \cup {e}
      BY QueuedFields
    <3> HIDE DEF q
    <3>3. CASE q.over
      BY <3>1, <3>2, <3>3
    <3>4. CASE ~q.over
      <4>1. /\ v \in Works /\ v.tq = q.tq /\ v.rq = q.rq /\ v.seen = q.seen /\ v.queue = q.queue
            /\ v.groups = q.groups /\ v.cp = q.cp /\ v.rp = q.rp /\ ToSet(v.path) \subseteq ToSet(q.path) \cup {x}
        BY <3>2, StampedFields
      <4> HIDE DEF v
      <4>2. Mutual(v) /\ Grouped(v) /\ SetsKept(w, v)
        <5>1. Len(w.groups) \in Nat
          BY LenProperties DEF Works
        <5> QED
          BY <1>2, <3>2, <4>1, <5>1 DEF Mutual, Grouped, SetsKept
      <4>3. Queueing(v) /\ Later(w) \subseteq Later(v) /\ Later(v) \subseteq Later(w) \cup {e}
            /\ v.seen \subseteq Later(v)
        <5>1. CASE q.queue = w.queue /\ q.seen = w.seen
          BY <1>2, <4>1, <5>1 DEF Queueing, Later
        <5>2. CASE q.queue = Append(w.queue, e) /\ q.seen = w.seen \cup {e}
          BY <1>2, <4>1, <5>2, LaterAppended
        <5> QED
          BY <3>2, <3>4, <5>1, <5>2
      <4>4. v.tq = w.tq /\ w.tq[e] # 0
        BY <1>4, <3>2, <4>1, ZeroIsNoEnd
      <4>5. \A c \in Later(v) : v.tq[c] # 0
        BY <1>2, <4>3, <4>4
      <4>6. Known(v, e, l) /\ Known(v, d, m)
        BY <1>4, <4>4 DEF Known
      <4>7. ToSet(v.path) \subseteq ToSet(w.path) \cup {x}
        BY <3>2, <4>1
      <4>8. Growing(v)
        BY <1>1, <4>1, <4>2, <4>3, <4>4, <4>5, <4>6, <4>7, GrowsOn
      <4> QED
        BY <3>1, <3>4, <4>1, <4>4, <4>8
    <3> QED
      BY <3>3, <3>4
  <2> QED
    BY <2>1, <2>2
<1>5. CASE ~FreeEnds(w, e, l) /\ w.tq[e] # l
  <2>1. CASE Len(w.groups) >= MaxGroups
    BY <1>5, <2>1 DEF Sift
  <2>2. CASE ~(Len(w.groups) >= MaxGroups)
    <3> DEFINE p == OfferProbe(w, e, l)
               g == OfferGallery(p, e, l)
               v == IF w.rq[l] = 0 THEN p ELSE g
    <3>1. Sift(w, x, e, l) = v
      BY <1>5, <2>2 DEF Sift
    <3>2. p \in Works /\ Grouped(p) /\ Alike(w, p) /\ SetsKept(w, p)
      BY <1>2, OfferProbeFields
    <3> HIDE DEF p
    <3>3. g \in Works /\ Grouped(g) /\ Alike(p, g) /\ SetsKept(p, g)
      BY <3>2, OfferGalleryFields
    <3> HIDE DEF g
    <3>4. v \in Works /\ Grouped(v) /\ Alike(w, v) /\ SetsKept(w, v)
      <4>1. Alike(w, g)
        BY <3>2, <3>3 DEF Alike
      <4>2. Len(w.groups) \in Nat /\ Len(p.groups) \in Nat /\ Len(g.groups) \in Nat
        BY <3>2, <3>3, LenProperties DEF Works
      <4>3. SetsKept(w, g)
        BY <3>2, <3>3, <4>2 DEF SetsKept
      <4> QED
        BY <3>2, <3>3, <4>1, <4>3
    <3> HIDE DEF v
    <3>5. v.tq = w.tq /\ v.rq = w.rq /\ v.path = w.path /\ v.seen = w.seen /\ v.queue = w.queue
      BY <3>4 DEF Alike
    <3>6. Mutual(v) /\ Queueing(v) /\ Later(v) = Later(w)
      BY <1>2, <3>5 DEF Mutual, Queueing, Later
    <3>7. Growing(v)
      BY <1>2, <3>4, <3>5, <3>6, GrowsOn
    <3> QED
      BY <3>1, <3>4, <3>5, <3>7
  <2> QED
    BY <2>1, <2>2
<1> QED
  BY <1>3, <1>4, <1>5

-----------------------------------------------------------------------------
(* The steps of a path: the seed, the start, the rows and the end.         *)

\* The table does not change, and with it neither do its rows and the types over them.
LEMMA TableFrame ==
  ASSUME table' = table
  PROVE  Rows' = Rows /\ Works' = Works /\ \A x : Row(x)' = Row(x)
<1>1. Rows' = Rows
  BY DEF Rows
<1> QED
  BY <1>1 DEF Works, Row

\* What is said of the work arrays depends on the table, the seed and the odometer.
LEMMA GrowingFrame ==
  ASSUME table' = table, seed' = seed, turned' = turned
  PROVE  /\ Growing(walk') => Growing(walk)'
         /\ Standing(walk') => Standing(walk)'
         /\ \A e, l : Known(walk', e, l) => Known(walk, e, l)'
<1>1. \A x : Row(x)' = Row(x)
  BY TableFrame
<1>2. SeedPair' = SeedPair
  BY <1>1 DEF SeedPair, Row
<1>3. \A e, l : Known(walk', e, l) => Known(walk, e, l)'
  BY <1>2 DEF Known
<1>4. Standing(walk') => Standing(walk)'
  BY DEF Standing, Mutual, Grouped, Queueing, OnlyPaired, Row
<1>5. Growing(walk') => Growing(walk)'
  BY <1>2 DEF Growing, Mutual, Grouped, SetUpTo, Queueing, OnlyPaired, Later, SetEnds, Known, Row, ToSet
<1> QED
  BY <1>3, <1>4, <1>5

\* The first state has nothing paired.
LEMMA InitCluster ==
  ASSUME Init
  PROVE  ClusterInv
<1>1. table \in Tables /\ Rows = 1..Len(table) /\ pc = "seed"
  <2>1. table \in Seq([k : Probe, j : Probe, a : Gallery, b : Gallery, rot : Int])
    BY BozorthAssumption DEF Init
  <2> QED
    BY <2>1, LenProperties DEF Init, Rows
<1>2. walk \in Works
  BY <1>1 DEF Init, Works, Zero
<1>3. \A e \in Probe : walk.tq[e] = 0 /\ walk.cp[e] = 0
  BY DEF Init, Zero
<1>4. \A l \in Gallery : walk.rq[l] = 0 /\ walk.rp[l] = 0
  BY DEF Init, Zero
<1>5. walk.seen = {}
  BY DEF Init
<1>6. Mutual(walk)
  BY <1>3, <1>4, ZeroIsNoEnd DEF Mutual
<1>7. ClusterTyped
  BY <1>1, <1>2 DEF ClusterTyped, Init
<1> QED
  BY <1>1, <1>3, <1>4, <1>5, <1>6, <1>7 DEF ClusterInv, CleanBetweenSeeds

\* A seed pairs its near ends, in arrays that hold nothing else.
LEMMA NextSeedStep ==
  ASSUME ClusterInv, NextSeed
  PROVE  ClusterInv'
<1>1. /\ ClusterTyped /\ Mutual(walk) /\ walk.seen = {}
      /\ \A e \in Probe : walk.tq[e] = 0 /\ walk.cp[e] = 0
      /\ \A l \in Gallery : walk.rq[l] = 0 /\ walk.rp[l] = 0
  BY DEF ClusterInv, NextSeed, CleanBetweenSeeds
<1>2. PICK x \in Rows : seed' = x /\ walk' = [Paired(walk, Row(x).k, Row(x).a) EXCEPT !.groups = <<>>]
  BY DEF NextSeed
<1>3. table' = table /\ turned' = 0 /\ pc' = "path" /\ stamp' = stamp /\ at' = at /\ dial' = dial
  BY DEF NextSeed
<1> DEFINE e == Row(x).k
           l == Row(x).a
           v == Paired(walk, e, l)
           none == <<>>
<1>4. table \in Tables /\ walk \in Works
  BY <1>1 DEF ClusterTyped
<1>5. e \in Probe /\ l \in Gallery
  BY <1>4, RowTyped
<1>6. Mutual(v)
  BY <1>1, <1>4, <1>5, PairedMutual DEF FreeEnds
<1>7. v \in Works
  BY <1>4, <1>5, PairedFields
<1>8. v.tq = [walk.tq EXCEPT ![e] = l]
  BY <1>4, <1>5, PairedFields, ZenonT(20)
<1>9. v.seen = walk.seen /\ v.cp = walk.cp /\ v.rp = walk.rp
  BY <1>4, Paired(walk, e, l) = [walk EXCEPT !.tq[e] = l, !.rq[l] = e] DEF Paired, Works
<1>10. walk' = [v EXCEPT !.groups = none] /\ none \in Seq(Groups) /\ Len(none) = 0 /\ DOMAIN none = {}
  BY <1>2
<1> HIDE DEF v, none
<1>11. walk' \in Works /\ walk'.groups = none /\ walk'.tq = v.tq /\ walk'.rq = v.rq
       /\ walk'.seen = v.seen /\ walk'.cp = v.cp /\ walk'.rp = v.rp
  BY <1>7, <1>10 DEF Works
<1>12. ClusterTyped'
  <2>1. seed' \in Nat
    <3>1. table \in Seq([k : Probe, j : Probe, a : Gallery, b : Gallery, rot : Int])
      BY <1>4, BozorthAssumption
    <3> QED
      BY <1>2, <3>1, LenProperties DEF Rows
  <2>2. walk' \in Works'
    BY <1>3, <1>11, TableFrame
  <2> QED
    BY <1>1, <1>3, <2>1, <2>2 DEF ClusterTyped
<1>13. (seed \in Rows)'
  BY <1>2, <1>3, TableFrame
<1>14. Mutual(walk)' /\ Grouped(walk)' /\ SetUpTo(walk, turned)'
  <2>1. Mutual(walk)'
    BY <1>6, <1>11 DEF Mutual
  <2>2. Grouped(walk)'
    BY <1>1, <1>9, <1>10, <1>11 DEF Grouped
  <2>3. SetUpTo(walk, turned)'
    BY <1>3, <1>10, <1>11 DEF SetUpTo
  <2> QED
    BY <2>1, <2>2, <2>3
<1>15. OnlyPaired(walk, SetEnds(walk, turned))'
  <2>1. \A d \in Probe : walk'.tq[d] # 0 => d = e
    BY <1>1, <1>4, <1>8, <1>11 DEF Works
  <2> QED
    BY <1>2, <1>3, <2>1 DEF OnlyPaired, Row
<1>16. walk'.seen = {}
  BY <1>1, <1>9, <1>11
<1> QED
  BY <1>3, <1>12, <1>13, <1>14, <1>15, <1>16 DEF ClusterInv

\* A path starts with the seed's near end alone in the queue.
LEMMA StartPathStep ==
  ASSUME ClusterInv, StartPath
  PROVE  ClusterInv'
<1>1. /\ ClusterTyped /\ seed \in Rows /\ Mutual(walk) /\ Grouped(walk) /\ SetUpTo(walk, turned)
      /\ OnlyPaired(walk, SetEnds(walk, turned)) /\ walk.seen = {}
  BY DEF ClusterInv, StartPath
<1>2. /\ table' = table /\ seed' = seed /\ turned' = turned /\ pc' = "grow" /\ at' = 1
      /\ stamp' = stamp + 1 /\ dial' = dial /\ ahead' = [first |-> {}, second |-> FirstRun]
  BY DEF StartPath, NoRows
<1>3. table \in Tables /\ walk \in Works /\ Row(seed).k \in Probe
  BY <1>1, RowTyped DEF ClusterTyped
<1> DEFINE q == <<Row(seed).k>>
           none == <<>>
<1>4. q \in Seq(Probe) /\ Len(q) = 1 /\ q[1] = Row(seed).k /\ q # <<>>
      /\ none \in Seq(Rows) /\ ToSet(none) = {}
  BY <1>3 DEF ToSet
<1>5. walk' = [walk EXCEPT !.path = none, !.queue = q]
  BY DEF StartPath
<1> HIDE DEF q, none
<1>6. /\ walk' \in Works /\ walk'.path = none /\ walk'.queue = q
      /\ walk'.tq = walk.tq /\ walk'.rq = walk.rq /\ walk'.seen = walk.seen
      /\ walk'.groups = walk.groups /\ walk'.cp = walk.cp /\ walk'.rp = walk.rp
  BY <1>3, <1>4, <1>5 DEF Works
<1>7. ClusterTyped'
  <2>1. walk' \in Works'
    BY <1>2, <1>6, TableFrame
  <2> QED
    BY <1>1, <1>2, <2>1 DEF ClusterTyped
<1>8. Growing(walk')
  <2>1. Mutual(walk') /\ Grouped(walk') /\ SetUpTo(walk', turned)
    BY <1>1, <1>6 DEF Mutual, Grouped, SetUpTo
  <2>2. Later(walk') = {} /\ SetEnds(walk', turned) = SetEnds(walk, turned)
    <3>1. Len(walk'.queue) = 1 /\ 2..1 = {}
      BY <1>4, <1>6
    <3> QED
      BY <1>6, <3>1 DEF Later, SetEnds
  <2>3. OnlyPaired(walk', Later(walk') \cup SetEnds(walk', turned))
    BY <1>1, <1>6, <2>2 DEF OnlyPaired
  <2>4. Queueing(walk')
    BY <1>4, <1>6 DEF Queueing
  <2>5. ToSet(walk'.path) = {}
    BY <1>4, <1>6
  <2> QED
    BY <1>1, <1>6, <2>1, <2>2, <2>3, <2>4, <2>5 DEF Growing
<1>9. AheadKnown'
  <2>1. \A x \in FirstRun : <<Row(x).k, Row(x).a>> = SeedPair
    BY DEF FirstRun, SameStart, SeedPair
  <2>2. \A x \in FirstRun : Known(walk, Row(x).k, Row(x).a)'
    BY <1>2, <2>1, TableFrame DEF Known, SeedPair, Row
  <2>3. FirstRun \subseteq Rows
    BY DEF FirstRun
  <2>4. Rows' = Rows
    BY <1>2, TableFrame
  <2> QED
    BY <1>2, <2>2, <2>3, <2>4 DEF AheadKnown
<1>10. Growing(walk)'
  BY <1>2, <1>8, GrowingFrame
<1>11. (seed \in Rows)'
  BY <1>1, <1>2, TableFrame
<1> QED
  BY <1>2, <1>7, <1>9, <1>10, <1>11 DEF ClusterInv

\* The rows of the next endpoint rest on its own pairing.
LEMMA GrowStep ==
  ASSUME ClusterInv, Grow
  PROVE  ClusterInv'
<1>1. ClusterTyped /\ seed \in Rows /\ Growing(walk) /\ AheadKnown /\ at # 0
  BY DEF ClusterInv, Grow
<1>2. /\ table' = table /\ seed' = seed /\ turned' = turned /\ pc' = pc /\ pc = "grow" /\ at' = at + 1
      /\ walk' = walk /\ stamp' = stamp /\ dial' = dial
  BY DEF Grow
<1> DEFINE e == walk.queue[at + 1]
           l == walk.tq[e]
<1>3. ahead' = [first |-> Incoming(e, l), second |-> Outgoing(e, l)]
  BY DEF Grow
<1>4. /\ Incoming(e, l) \subseteq Rows /\ Outgoing(e, l) \subseteq Rows
      /\ \A x \in Incoming(e, l) : walk.tq[Row(x).j] = Row(x).b
      /\ \A x \in Outgoing(e, l) : walk.tq[Row(x).k] = Row(x).a
  BY DEF Incoming, Outgoing
<1> HIDE DEF e, l
<1>5. AheadKnown'
  <2>1. \A x : Row(x)' = Row(x)
    BY <1>2, TableFrame
  <2>2. Rows' = Rows
    BY <1>2, TableFrame
  <2>3. \A x \in Incoming(e, l) : Known(walk, Row(x).j, Row(x).b)'
    BY <1>2, <1>4 DEF Known, Row
  <2>4. \A x \in Outgoing(e, l) : Known(walk, Row(x).k, Row(x).a)'
    BY <1>2, <1>4 DEF Known, Row
  <2> QED
    BY <1>3, <1>4, <2>2, <2>3, <2>4 DEF AheadKnown
<1>6. Growing(walk)'
  BY <1>1, <1>2, GrowingFrame
<1>7. ClusterTyped' /\ (seed \in Rows)' /\ at' # 0
  <2>1. Works' = Works /\ Rows' = Rows
    BY <1>2, TableFrame
  <2> QED
    BY <1>1, <1>2, <2>1 DEF ClusterTyped
<1> QED
  BY <1>2, <1>5, <1>6, <1>7 DEF ClusterInv

\* One row is sifted: the path grows on, and the rows still ahead stay known.
LEMMA SiftRowStep ==
  ASSUME ClusterInv, SiftRow
  PROVE  ClusterInv'
<1>1. ClusterTyped /\ seed \in Rows /\ Growing(walk) /\ AheadKnown /\ at # 0 /\ pc = "grow"
  BY DEF ClusterInv, SiftRow
<1>2. /\ table' = table /\ seed' = seed /\ turned' = turned /\ at' = at
      /\ stamp' = stamp /\ dial' = dial
      /\ (walk'.over /\ pc' = "done") \/ (~walk'.over /\ pc' = pc)
  BY DEF SiftRow
<1>3. table \in Tables /\ walk \in Works /\ turned \in Nat /\ stamp \in Int
  BY <1>1 DEF ClusterTyped
<1>4. /\ ahead \in [first : SUBSET Rows, second : SUBSET Rows]
      /\ \A x \in ahead.first : Known(walk, Row(x).j, Row(x).b)
      /\ \A x \in ahead.second : Known(walk, Row(x).k, Row(x).a)
  BY <1>1 DEF AheadKnown
<1>5. /\ walk' \in Works
      /\ ~walk'.over => Growing(walk') /\ \A c \in Probe : walk.tq[c] # 0 => walk'.tq[c] = walk.tq[c]
      /\ ahead' \in [first : SUBSET ahead.first, second : SUBSET ahead.second]
  <2>1. CASE \E x \in ahead.first : walk' = SiftFirst(walk, x) /\ ahead' = [ahead EXCEPT !.first = @ \ {x}]
    <3>1. PICK x \in ahead.first : walk' = SiftFirst(walk, x) /\ ahead' = [ahead EXCEPT !.first = @ \ {x}]
      BY <2>1
    <3>2. x \in Rows
      BY <1>4
    <3>3. Row(x).k \in Probe /\ Row(x).j \in Probe /\ Row(x).a \in Gallery /\ Row(x).b \in Gallery
      BY <1>3, <3>2, RowTyped
    <3>4. Known(walk, Row(x).j, Row(x).b)
      BY <1>4
    <3>5. RowPairs(x) = {<<Row(x).k, Row(x).a>>, <<Row(x).j, Row(x).b>>}
      BY DEF RowPairs
    <3>6. walk' = Sift(walk, x, Row(x).k, Row(x).a)
      BY <3>1 DEF SiftFirst
    <3>7. ahead' \in [first : SUBSET ahead.first, second : SUBSET ahead.second]
      BY <1>4, <3>1
    <3>8. LET v == Sift(walk, x, Row(x).k, Row(x).a) IN
          /\ v \in Works
          /\ ~v.over => Growing(v) /\ \A c \in Probe : walk.tq[c] # 0 => v.tq[c] = walk.tq[c]
      BY <1>1, <1>3, <3>2, <3>3, <3>4, <3>5, SiftKeeps
    <3> QED
      BY <3>6, <3>7, <3>8
  <2>2. CASE \E x \in ahead.second : walk' = SiftSecond(walk, x) /\ ahead' = [ahead EXCEPT !.second = @ \ {x}]
    <3>1. PICK x \in ahead.second : walk' = SiftSecond(walk, x) /\ ahead' = [ahead EXCEPT !.second = @ \ {x}]
      BY <2>2
    <3>2. x \in Rows
      BY <1>4
    <3>3. Row(x).k \in Probe /\ Row(x).j \in Probe /\ Row(x).a \in Gallery /\ Row(x).b \in Gallery
      BY <1>3, <3>2, RowTyped
    <3>4. Known(walk, Row(x).k, Row(x).a)
      BY <1>4
    <3>5. RowPairs(x) = {<<Row(x).j, Row(x).b>>, <<Row(x).k, Row(x).a>>}
      BY DEF RowPairs
    <3>6. walk' = Sift(walk, x, Row(x).j, Row(x).b)
      BY <3>1 DEF SiftSecond
    <3>7. ahead' \in [first : SUBSET ahead.first, second : SUBSET ahead.second]
      BY <1>4, <3>1
    <3>8. LET v == Sift(walk, x, Row(x).j, Row(x).b) IN
          /\ v \in Works
          /\ ~v.over => Growing(v) /\ \A c \in Probe : walk.tq[c] # 0 => v.tq[c] = walk.tq[c]
      BY <1>1, <1>3, <3>2, <3>3, <3>4, <3>5, SiftKeeps
    <3> QED
      BY <3>6, <3>7, <3>8
  <2> QED
    BY <2>1, <2>2 DEF SiftRow
<1>6. ClusterTyped' /\ (seed \in Rows)'
  <2>1. Works' = Works /\ Rows' = Rows
    BY <1>2, TableFrame
  <2> QED
    BY <1>1, <1>2, <1>5, <2>1 DEF ClusterTyped
<1>7. CASE walk'.over
  BY <1>2, <1>6, <1>7 DEF ClusterInv
<1>8. CASE ~walk'.over
  <2>1. Growing(walk)'
    BY <1>2, <1>5, <1>8, GrowingFrame
  <2>2. AheadKnown'
    <3>1. ahead' \in [first : SUBSET Rows, second : SUBSET Rows]
      BY <1>4, <1>5
    <3>2. Rows' = Rows
      BY <1>2, TableFrame
    <3>3. ASSUME NEW x \in ahead'.first
          PROVE  Known(walk, Row(x).j, Row(x).b)'
      <4>1. x \in Rows /\ Known(walk, Row(x).j, Row(x).b)
        BY <1>4, <1>5
      <4>2. Row(x).j \in Probe /\ Row(x).b \in Gallery
        BY <1>3, <4>1, RowTyped
      <4>3. Known(walk', Row(x).j, Row(x).b)
        BY <1>5, <1>8, <4>1, <4>2, KnownKept
      <4> QED
        BY <1>2, <4>3 DEF Known, SeedPair, Row
    <3>4. ASSUME NEW x \in ahead'.second
          PROVE  Known(walk, Row(x).k, Row(x).a)'
      <4>1. x \in Rows /\ Known(walk, Row(x).k, Row(x).a)
        BY <1>4, <1>5
      <4>2. Row(x).k \in Probe /\ Row(x).a \in Gallery
        BY <1>3, <4>1, RowTyped
      <4>3. Known(walk', Row(x).k, Row(x).a)
        BY <1>5, <1>8, <4>1, <4>2, KnownKept
      <4> QED
        BY <1>2, <4>3 DEF Known, SeedPair, Row
    <3> QED
      BY <3>1, <3>2, <3>3, <3>4 DEF AheadKnown
  <2> QED
    BY <1>1, <1>2, <1>6, <1>8, <2>1, <2>2 DEF ClusterInv
<1> QED
  BY <1>7, <1>8

\* The end of a path changes nothing but stamps.
LEMMA SettleStep ==
  ASSUME ClusterInv, Settle
  PROVE  ClusterInv'
<1>1. ClusterTyped /\ seed \in Rows /\ Growing(walk)
  BY DEF ClusterInv, Settle
<1>2. /\ table' = table /\ seed' = seed /\ turned' = turned /\ at' = at
      /\ stamp' \in {stamp, stamp - 1} /\ dial' = dial /\ pc' = "turn"
  BY DEF Settle
<1>3. walk' = walk \/ \E p : walk' = RolledBack(walk, p)
  BY DEF Settle
<1>4. walk \in Works
  BY <1>1 DEF ClusterTyped
<1>5. /\ walk' \in Works /\ walk'.tq = walk.tq /\ walk'.rq = walk.rq /\ walk'.seen = walk.seen
      /\ walk'.groups = walk.groups /\ walk'.cp = walk.cp /\ walk'.rp = walk.rp
      /\ walk'.queue = walk.queue /\ walk'.path = walk.path
  <2>1. CASE walk' = walk
    BY <1>4, <2>1
  <2>2. ASSUME NEW p, walk' = RolledBack(walk, p)
        PROVE  /\ walk' \in Works /\ walk'.tq = walk.tq /\ walk'.rq = walk.rq /\ walk'.seen = walk.seen
               /\ walk'.groups = walk.groups /\ walk'.cp = walk.cp /\ walk'.rp = walk.rp
               /\ walk'.queue = walk.queue /\ walk'.path = walk.path
    <3> DEFINE sc == [x \in Rows |-> IF ~Contains(p, x) THEN walk.sc[x]
                                     ELSE IF walk.rk[x] = 0 THEN -1 ELSE walk.rk[x]]
    <3>1. sc \in [Rows -> Int]
      BY <1>4 DEF Works
    <3>2. walk' = [walk EXCEPT !.sc = sc]
      BY <2>2 DEF RolledBack
    <3> HIDE DEF sc
    <3> QED
      BY <1>4, <3>1, <3>2 DEF Works
  <2> QED
    BY <1>3, <2>1, <2>2
<1>6. Growing(walk')
  BY <1>1, <1>5 DEF Growing, Mutual, Grouped, SetUpTo, Queueing, OnlyPaired, Later, SetEnds, Known
<1>7. ClusterTyped' /\ (seed \in Rows)'
  <2>1. Works' = Works /\ Rows' = Rows
    BY <1>2, TableFrame
  <2> QED
    BY <1>1, <1>2, <1>5, <2>1 DEF ClusterTyped
<1>8. Growing(walk)'
  BY <1>2, <1>6, GrowingFrame
<1> QED
  BY <1>2, <1>7, <1>8 DEF ClusterInv

-----------------------------------------------------------------------------
(* The odometer.                                                           *)

\* Endpoints that lose their pairing are free, and the rest keep theirs.
LEMMA UnpairedFields ==
  ASSUME NEW w \in Works, Mutual(w), NEW E \in SUBSET Probe
  PROVE  LET v == Unpaired(w, E) IN
         /\ v \in Works /\ Mutual(v)
         /\ \A d \in Probe : v.tq[d] = IF d \in E THEN 0 ELSE w.tq[d]
         /\ v.seen = w.seen /\ v.groups = w.groups /\ v.queue = w.queue /\ v.cp = w.cp /\ v.rp = w.rp
<1> DEFINE tq == [e \in Probe |-> IF e \in E THEN 0 ELSE w.tq[e]]
           rq == [l \in Gallery |-> IF \E e \in E : w.tq[e] = l THEN 0 ELSE w.rq[l]]
           v == [w EXCEPT !.tq = tq, !.rq = rq]
<1>1. Unpaired(w, E) = v
  BY DEF Unpaired
<1>2. tq \in [Probe -> Gallery \cup {0}] /\ rq \in [Gallery -> Probe \cup {0}]
  BY DEF Works
<1>3. ASSUME NEW d \in Probe, NEW m \in Gallery
      PROVE  tq[d] = m <=> rq[m] = d
  <2>1. w.tq[d] = m <=> w.rq[m] = d
    BY DEF Mutual
  <2>2. \A e \in E : w.tq[e] = m => w.rq[m] = e
    BY DEF Mutual
  <2> QED
    BY <2>1, <2>2, ZeroIsNoEnd
<1>4. \A d \in Probe : tq[d] = IF d \in E THEN 0 ELSE w.tq[d]
  OBVIOUS
<1> HIDE DEF tq, rq
<1>5. /\ v \in Works /\ v.tq = tq /\ v.rq = rq
      /\ v.seen = w.seen /\ v.groups = w.groups /\ v.queue = w.queue /\ v.cp = w.cp /\ v.rp = w.rp
  BY <1>2 DEF Works
<1>6. Mutual(v)
  BY <1>3, <1>5 DEF Mutual
<1> QED
  BY <1>1, <1>4, <1>5, <1>6

\* The teardown of a path leaves the seed's pairing at most, and nothing seen.
LEMMA TurnStep ==
  ASSUME ClusterInv, Turn
  PROVE  ClusterInv'
<1>1. ClusterTyped /\ seed \in Rows /\ Growing(walk) /\ walk \in Works
  BY DEF ClusterInv, Turn, ClusterTyped
<1>2. /\ table' = table /\ seed' = seed /\ turned' = turned /\ at' = at /\ stamp' = stamp
      /\ \/ pc' = "score" /\ walk' = walk /\ dial' = dial
         \/ /\ pc' = "dial" /\ dial' = Len(walk.groups)
            /\ walk' = Unturned(Unqueued(walk, ToSet(Tail(walk.queue))), 1..turned)
  BY DEF Turn
<1>3. Works' = Works /\ Rows' = Rows
  BY <1>2, TableFrame
<1>4. CASE pc' = "score" /\ walk' = walk /\ dial' = dial
  BY <1>1, <1>2, <1>3, <1>4 DEF ClusterInv, ClusterTyped
<1>5. CASE /\ pc' = "dial" /\ dial' = Len(walk.groups)
           /\ walk' = Unturned(Unqueued(walk, ToSet(Tail(walk.queue))), 1..turned)
  <2> DEFINE E == ToSet(Tail(walk.queue))
             p == Unpaired(walk, E)
             z == p.seen \ {e \in E : walk.tq[e] # 0}
             u == [p EXCEPT !.seen = z]
             S == SetEnds(walk, turned)
  <2>1. E = Later(walk) /\ E \subseteq Probe
    <3>1. walk.queue \in Seq(Probe) /\ walk.queue # <<>> /\ Len(walk.queue) \in Nat
      BY <1>1 DEF Works, Growing, Queueing
    <3>2. /\ Len(Tail(walk.queue)) = Len(walk.queue) - 1 /\ Tail(walk.queue) \in Seq(Probe)
          /\ \A i \in 1..Len(Tail(walk.queue)) : Tail(walk.queue)[i] = walk.queue[i + 1]
      BY <3>1, HeadTailProperties
    <3>3. DOMAIN Tail(walk.queue) = 1..(Len(walk.queue) - 1)
      BY <3>2, LenProperties
    <3>4. E = {walk.queue[i + 1] : i \in 1..(Len(walk.queue) - 1)}
      BY <3>2, <3>3 DEF ToSet
    <3> HIDE DEF E
    <3>5. E = Later(walk)
      <4>1. E \subseteq Later(walk)
        BY <3>1, <3>4 DEF Later
      <4>2. \A i \in 2..Len(walk.queue) : (i - 1) \in 1..(Len(walk.queue) - 1) /\ (i - 1) + 1 = i
        BY <3>1
      <4>3. Later(walk) \subseteq E
        BY <3>4, <4>2 DEF Later
      <4> QED
        BY <4>1, <4>3
    <3>6. Later(walk) \subseteq Probe
      BY <1>1 DEF Later, Works
    <3> QED
      BY <3>5, <3>6
  <2>2. Mutual(walk) /\ Grouped(walk) /\ SetUpTo(walk, turned) /\ Queueing(walk)
        /\ OnlyPaired(walk, E \cup S) /\ walk.seen \subseteq E /\ \A e \in E : walk.tq[e] # 0
    BY <1>1, <2>1 DEF Growing
  <2>3. Unqueued(walk, E) = u
    BY DEF Unqueued
  <2> HIDE DEF E
  <2>4. p \in Works /\ Mutual(p)
    BY <1>1, <2>1, <2>2, UnpairedFields
  <2>5. \A d \in Probe : p.tq[d] = IF d \in E THEN 0 ELSE walk.tq[d]
    BY <1>1, <2>1, <2>2, UnpairedFields
  <2>6. p.seen = walk.seen /\ p.groups = walk.groups /\ p.queue = walk.queue /\ p.cp = walk.cp /\ p.rp = walk.rp
    BY <1>1, <2>1, <2>2, UnpairedFields
  <2>7. z = {}
    BY <2>2, <2>6
  <2> HIDE DEF p, z
  <2>8. /\ u \in Works /\ u.tq = p.tq /\ u.rq = p.rq /\ u.seen = z
        /\ u.groups = p.groups /\ u.queue = p.queue /\ u.cp = p.cp /\ u.rp = p.rp
    BY <2>7, <2>4 DEF Works
  <2> HIDE DEF u
  <2>9. Mutual(u)
    BY <2>4, <2>8 DEF Mutual
  <2>10. {u.groups[i].set : i \in 1..turned} = S
    BY <2>6, <2>8 DEF SetEnds
  <2>11. S \subseteq Probe
    BY <2>2 DEF SetUpTo, SetEnds
  <2>12. walk' = Unpaired(u, S)
    BY <1>5, <2>3, <2>10 DEF Unturned, E
  <2> HIDE DEF S
  <2>13. walk' \in Works /\ Mutual(walk')
    BY <2>8, <2>9, <2>11, <2>12, UnpairedFields
  <2>14. \A d \in Probe : walk'.tq[d] = IF d \in S THEN 0 ELSE u.tq[d]
    BY <2>8, <2>9, <2>11, <2>12, UnpairedFields
  <2>15. walk'.seen = u.seen /\ walk'.groups = u.groups /\ walk'.queue = u.queue
         /\ walk'.cp = u.cp /\ walk'.rp = u.rp
    BY <2>8, <2>9, <2>11, <2>12, UnpairedFields
  <2>16. Grouped(walk') /\ Queueing(walk') /\ walk'.seen = {} /\ walk'.groups = walk.groups
    BY <2>2, <2>7, <2>6, <2>8, <2>15 DEF Grouped, Queueing
  <2>17. OnlyPaired(walk', {})
    BY <2>2, <2>5, <2>8, <2>14 DEF OnlyPaired
  <2>18. Standing(walk)'
    BY <1>2, <2>13, <2>16, <2>17, GrowingFrame DEF Standing
  <2>19. dial' \in Nat /\ dial' <= Len(walk'.groups)
    BY <1>1, <1>5, <2>16, LenProperties DEF Works
  <2>20. ClusterTyped'
    BY <1>1, <1>2, <1>3, <2>13, <2>19 DEF ClusterTyped
  <2>21. (seed \in Rows)'
    BY <1>1, <1>2, <1>3
  <2> QED
    BY <1>5, <2>16, <2>18, <2>19, <2>20, <2>21 DEF ClusterInv
<1> QED
  BY <1>2, <1>4, <1>5

\* A group that is moved to another of its alternatives is a group still.
LEMMA PickMoved ==
  ASSUME NEW w \in Works, Grouped(w), NEW i \in DOMAIN w.groups, NEW n \in DOMAIN w.groups[i].alts
  PROVE  LET v == [w EXCEPT !.groups[i].pick = n] IN
         /\ v \in Works /\ Grouped(v) /\ Len(v.groups) = Len(w.groups)
         /\ v.tq = w.tq /\ v.rq = w.rq /\ v.seen = w.seen /\ v.queue = w.queue
<1> DEFINE g == w.groups[i]
           h == [g EXCEPT !.pick = n]
           groups == [w.groups EXCEPT ![i] = h]
           v == [w EXCEPT !.groups = groups]
<1>1. w.groups \in Seq(Groups) /\ DOMAIN w.groups = 1..Len(w.groups) /\ Len(w.groups) \in Nat
  BY LenProperties DEF Works
<1>2. g \in Groups
  BY <1>1, ElementOfSeq
<1>3. n \in Nat
  <2>1. \E S : g.alts \in Seq(S)
    BY <1>2 DEF Groups, GroupsOf
  <2>2. DOMAIN g.alts = 1..Len(g.alts)
    BY <2>1, LenProperties
  <2> QED
    BY <2>1, <2>2
<1>4. h \in Groups /\ h.side = g.side /\ h.end = g.end /\ h.alts = g.alts /\ h.pick = n
  <2>1. CASE g \in GroupsOf("probe", Probe, Gallery)
    BY <1>3, <2>1 DEF GroupsOf, Groups
  <2>2. CASE g \in GroupsOf("gallery", Gallery, Probe)
    BY <1>3, <2>2 DEF GroupsOf, Groups
  <2> QED
    BY <1>2, <2>1, <2>2 DEF Groups
<1>5. [w EXCEPT !.groups[i].pick = n] = v
  BY DEF Works
<1>6. n \in DOMAIN g.alts
  OBVIOUS
<1> HIDE DEF g, h
<1>7. groups \in Seq(Groups) /\ Len(groups) = Len(w.groups) /\ DOMAIN groups = DOMAIN w.groups
      /\ groups[i] = h /\ \A m \in DOMAIN w.groups \ {i} : groups[m] = w.groups[m]
  BY <1>1, <1>4, ExceptSeq
<1> HIDE DEF groups
<1>8. /\ v \in Works /\ v.groups = groups /\ v.cp = w.cp /\ v.rp = w.rp
      /\ v.tq = w.tq /\ v.rq = w.rq /\ v.seen = w.seen /\ v.queue = w.queue
  BY <1>7 DEF Works
<1> HIDE DEF v
<1>9. \A m \in DOMAIN w.groups : groups[m].side = w.groups[m].side /\ groups[m].end = w.groups[m].end
  BY <1>4, <1>7 DEF g
<1>10. \A m \in DOMAIN w.groups : groups[m].pick \in DOMAIN groups[m].alts
  BY <1>4, <1>6, <1>7 DEF g, Grouped
<1>11. Grouped(v)
  BY <1>7, <1>8, <1>9, <1>10 DEF Grouped
<1> QED
  BY <1>5, <1>7, <1>8, <1>11

\* A group stands at a pairing of the two prints.
LEMMA PickTyped ==
  ASSUME NEW w \in Works, Grouped(w), NEW i \in DOMAIN w.groups
  PROVE  PickE(w.groups[i]) \in Probe /\ PickL(w.groups[i]) \in Gallery
<1> DEFINE g == w.groups[i]
<1>1. g \in Groups
  <2>1. w.groups \in Seq(Groups) /\ DOMAIN w.groups = 1..Len(w.groups)
    BY LenProperties DEF Works
  <2> QED
    BY <2>1, ElementOfSeq
<1>2. g.pick \in DOMAIN g.alts
  BY DEF Grouped
<1> HIDE DEF g
<1>3. CASE g \in GroupsOf("probe", Probe, Gallery)
  <2>1. g.side = "probe" /\ g.end \in Probe /\ g.alts \in Seq(Gallery)
    BY <1>3 DEF GroupsOf
  <2>2. g.alts[g.pick] \in Gallery
    BY <1>2, <2>1, ElementOfSeq, LenProperties
  <2> QED
    BY <2>1, <2>2 DEF PickE, PickL, g
<1>4. CASE g \in GroupsOf("gallery", Gallery, Probe)
  <2>1. g.side = "gallery" /\ g.end \in Gallery /\ g.alts \in Seq(Probe)
    BY <1>4 DEF GroupsOf
  <2>2. g.alts[g.pick] \in Probe
    BY <1>2, <2>1, ElementOfSeq, LenProperties
  <2> QED
    BY <2>1, <2>2 DEF PickE, PickL, g
<1> QED
  BY <1>1, <1>3, <1>4 DEF Groups

\* Groups that can be set one after the other contradict neither each other
\* nor what was paired before, so the pairings stay each other's inverse.
LEMMA AllSetFields ==
  ASSUME NEW w \in Works, Mutual(w), Grouped(w), NEW G \in SUBSET DOMAIN w.groups,
         \A i \in G : CanBeSet(w, i),
         \A i \in G : \A n \in (i + 1)..Len(w.groups) : n \in G
  PROVE  LET v == AllSet(w, G) IN
         /\ v \in Works /\ Mutual(v) /\ Grouped(v) /\ Len(v.groups) = Len(w.groups)
         /\ v.seen = w.seen /\ v.queue = w.queue
         /\ \A i \in G : v.groups[i].set = PickE(w.groups[i])
         /\ \A d \in Probe : v.tq[d] # 0 => w.tq[d] # 0 \/ \E i \in G : PickE(w.groups[i]) = d
<1> DEFINE pairs == {<<PickE(w.groups[i]), PickL(w.groups[i])>> : i \in G}
           Of(e) == {p \in pairs : p[1] = e}
           To(l) == {p \in pairs : p[2] = l}
           tq == [e \in Probe |-> IF Of(e) = {} THEN w.tq[e] ELSE (CHOOSE p \in Of(e) : TRUE)[2]]
           rq == [l \in Gallery |-> IF To(l) = {} THEN w.rq[l] ELSE (CHOOSE p \in To(l) : TRUE)[1]]
           gs == [i \in DOMAIN w.groups |->
                    IF i \in G THEN [w.groups[i] EXCEPT !.set = PickE(w.groups[i])] ELSE w.groups[i]]
           v == [w EXCEPT !.tq = tq, !.rq = rq, !.groups = gs]
<1>1. AllSet(w, G) = v
  BY DEF AllSet
<1>2. w.groups \in Seq(Groups) /\ DOMAIN w.groups = 1..Len(w.groups) /\ Len(w.groups) \in Nat
  BY LenProperties DEF Works
<1>3. \A i \in G : PickE(w.groups[i]) \in Probe /\ PickL(w.groups[i]) \in Gallery
  BY PickTyped
<1>4. \A i, n \in G : PickE(w.groups[i]) = PickE(w.groups[n]) <=> PickL(w.groups[i]) = PickL(w.groups[n])
  <2>1. ASSUME NEW i \in G, NEW n \in G, i < n
        PROVE  PickE(w.groups[i]) = PickE(w.groups[n]) <=> PickL(w.groups[i]) = PickL(w.groups[n])
    <3>1. n \in (i + 1)..Len(w.groups)
      BY <1>2, <2>1
    <3>2. CanBeSet(w, i)
      OBVIOUS
    <3> QED
      BY <3>1, <3>2 DEF CanBeSet
  <2>2. \A i, n \in G : i < n \/ n < i \/ i = n
    BY <1>2
  <2> QED
    BY <2>1, <2>2
<1>5. \A i \in G : /\ w.tq[PickE(w.groups[i])] \in {0, PickL(w.groups[i])}
                   /\ w.rq[PickL(w.groups[i])] \in {0, PickE(w.groups[i])}
  BY DEF CanBeSet, Fits
<1>6. /\ \A p, q \in pairs : p[1] = q[1] <=> p[2] = q[2]
      /\ \A p \in pairs : /\ p[1] \in Probe /\ p[2] \in Gallery
                          /\ w.tq[p[1]] \in {0, p[2]} /\ w.rq[p[2]] \in {0, p[1]}
      /\ \A p \in pairs : \E i \in G : p[1] = PickE(w.groups[i])
  BY <1>3, <1>4, <1>5
<1> HIDE DEF pairs
<1>7. \A p \in pairs : tq[p[1]] = p[2] /\ rq[p[2]] = p[1]
  <2> TAKE p \in pairs
  <2>1. p \in Of(p[1]) /\ p \in To(p[2])
    OBVIOUS
  <2>2. (CHOOSE q \in Of(p[1]) : TRUE) \in Of(p[1]) /\ (CHOOSE q \in To(p[2]) : TRUE) \in To(p[2])
    BY <2>1
  <2> QED
    BY <1>6, <2>1, <2>2
<1>8. /\ \A d \in Probe : (\A p \in pairs : p[1] # d) => tq[d] = w.tq[d]
      /\ \A m \in Gallery : (\A p \in pairs : p[2] # m) => rq[m] = w.rq[m]
  OBVIOUS
<1>9. tq \in [Probe -> Gallery \cup {0}] /\ rq \in [Gallery -> Probe \cup {0}]
  <2>1. w.tq \in [Probe -> Gallery \cup {0}] /\ w.rq \in [Gallery -> Probe \cup {0}]
    BY DEF Works
  <2>2. \A d \in Probe : tq[d] \in Gallery \cup {0}
    <3> TAKE d \in Probe
    <3>1. CASE \E p \in pairs : p[1] = d
      BY <1>6, <1>7, <3>1
    <3>2. CASE ~ \E p \in pairs : p[1] = d
      BY <1>8, <2>1, <3>2
    <3> QED
      BY <3>1, <3>2
  <2>3. \A m \in Gallery : rq[m] \in Probe \cup {0}
    <3> TAKE m \in Gallery
    <3>1. CASE \E p \in pairs : p[2] = m
      BY <1>6, <1>7, <3>1
    <3>2. CASE ~ \E p \in pairs : p[2] = m
      BY <1>8, <2>1, <3>2
    <3> QED
      BY <3>1, <3>2
  <2>4. tq = [d \in Probe |-> tq[d]] /\ rq = [m \in Gallery |-> rq[m]]
    OBVIOUS
  <2> HIDE DEF tq, rq
  <2> QED
    BY <2>2, <2>3, <2>4
<1> HIDE DEF tq, rq
<1>10. ASSUME NEW d \in Probe, NEW m \in Gallery
       PROVE  tq[d] = m <=> rq[m] = d
  <2>1. w.tq[d] = m <=> w.rq[m] = d
    BY DEF Mutual
  <2>2. CASE \E p \in pairs : p[1] = d /\ p[2] = m
    BY <1>7, <2>2
  <2>3. CASE (\E p \in pairs : p[1] = d) /\ ~ \E p \in pairs : p[1] = d /\ p[2] = m
    <3>1. PICK p \in pairs : p[1] = d /\ p[2] # m
      BY <2>3
    <3>2. tq[d] # m
      BY <1>7, <3>1
    <3>3. CASE \E q \in pairs : q[2] = m
      BY <1>7, <2>3, <3>2, <3>3
    <3>4. CASE ~ \E q \in pairs : q[2] = m
      <4>1. w.tq[d] # m
        BY <1>6, <3>1, ZeroIsNoEnd
      <4> QED
        BY <1>8, <2>1, <3>2, <3>4, <4>1
    <3> QED
      BY <3>3, <3>4
  <2>4. CASE ~ \E p \in pairs : p[1] = d
    <3>1. tq[d] = w.tq[d]
      BY <1>8, <2>4
    <3>2. CASE \E q \in pairs : q[2] = m
      <4>1. PICK q \in pairs : q[2] = m /\ q[1] # d
        BY <2>4, <3>2
      <4>2. w.rq[m] # d
        BY <1>6, <4>1, ZeroIsNoEnd
      <4> QED
        BY <1>7, <2>1, <3>1, <4>1, <4>2
    <3>3. CASE ~ \E q \in pairs : q[2] = m
      BY <1>8, <2>1, <3>1, <3>3
    <3> QED
      BY <3>2, <3>3
  <2> QED
    BY <2>2, <2>3, <2>4
<1>11. \A i \in DOMAIN w.groups :
         /\ gs[i] \in Groups /\ gs[i].side = w.groups[i].side /\ gs[i].end = w.groups[i].end
         /\ gs[i].pick = w.groups[i].pick /\ gs[i].alts = w.groups[i].alts
         /\ i \in G => gs[i].set = PickE(w.groups[i])
  <2> TAKE i \in DOMAIN w.groups
  <2>1. w.groups[i] \in Groups
    BY <1>2, ElementOfSeq
  <2> DEFINE g == w.groups[i]
             e == PickE(w.groups[i])
  <2>2. gs[i] = IF i \in G THEN [g EXCEPT !.set = e] ELSE g
    OBVIOUS
  <2>3. i \in G => e \in Probe
    BY <1>3
  <2>4. CASE i \notin G
    BY <2>1, <2>2, <2>4
  <2>5. CASE i \in G
    <3> DEFINE h == [g EXCEPT !.set = e]
    <3>1. gs[i] = h /\ e \in Probe /\ g \in Groups
      BY <2>1, <2>2, <2>3, <2>5
    <3> HIDE DEF e, gs, g
    <3>2. h \in Groups /\ h.side = g.side /\ h.end = g.end /\ h.pick = g.pick /\ h.alts = g.alts /\ h.set = e
      <4>1. CASE g \in GroupsOf("probe", Probe, Gallery)
        BY <3>1, <4>1 DEF Groups, GroupsOf
      <4>2. CASE g \in GroupsOf("gallery", Gallery, Probe)
        BY <3>1, <4>2 DEF Groups, GroupsOf
      <4> QED
        BY <3>1, <4>1, <4>2 DEF Groups
    <3> QED
      BY <3>1, <3>2 DEF e, g
  <2> QED
    BY <2>4, <2>5
<1>12. gs \in Seq(Groups) /\ Len(gs) = Len(w.groups) /\ DOMAIN gs = DOMAIN w.groups
  <2>1. gs = [i \in 1..Len(w.groups) |-> gs[i]]
    BY <1>2
  <2> HIDE DEF gs
  <2>2. gs \in [1..Len(w.groups) -> Groups]
    BY <1>2, <1>11, <2>1
  <2>3. gs \in Seq(Groups)
    BY <1>2, <2>2
  <2> QED
    BY <1>2, <2>2, <2>3, LenProperties
<1> HIDE DEF gs
<1>13. /\ v \in Works /\ v.tq = tq /\ v.rq = rq /\ v.groups = gs /\ v.seen = w.seen /\ v.queue = w.queue
       /\ v.cp = w.cp /\ v.rp = w.rp
  BY <1>9, <1>12 DEF Works
<1>14. Mutual(v)
  BY <1>10, <1>13 DEF Mutual
<1>15. Grouped(v)
  BY <1>11, <1>12, <1>13 DEF Grouped
<1>16. \A d \in Probe : tq[d] # 0 => w.tq[d] # 0 \/ \E i \in G : PickE(w.groups[i]) = d
  BY <1>6, <1>8
<1>17. \A i \in G : gs[i].set = PickE(w.groups[i])
  BY <1>11
<1> HIDE DEF v
<1> QED
  BY <1>1, <1>12, <1>13, <1>14, <1>15, <1>16, <1>17

\* A dial that starts over stands at its first alternative.
LEMMA CarryStep ==
  ASSUME ClusterInv, Carry
  PROVE  ClusterInv'
<1>1. /\ ClusterTyped /\ seed \in Rows /\ Standing(walk) /\ walk \in Works
      /\ dial \in DOMAIN walk.groups /\ dial \in Nat
  <2>1. ClusterTyped /\ seed \in Rows /\ Standing(walk) /\ dial <= Len(walk.groups) /\ dial > 0
    BY DEF ClusterInv, Carry
  <2>2. dial \in Nat /\ walk \in Works
    BY <2>1 DEF ClusterTyped
  <2>3. Len(walk.groups) \in Nat /\ DOMAIN walk.groups = 1..Len(walk.groups)
    BY <2>2, LenProperties DEF Works
  <2> QED
    BY <2>1, <2>2, <2>3
<1>2. /\ table' = table /\ seed' = seed /\ turned' = turned /\ at' = at /\ stamp' = stamp
      /\ pc = "dial" /\ pc' = pc /\ dial' = dial - 1 /\ walk' = [walk EXCEPT !.groups[dial].pick = 1]
  BY DEF Carry
<1>3. 1 \in DOMAIN walk.groups[dial].alts
  <2>1. walk.groups \in Seq(Groups) /\ DOMAIN walk.groups = 1..Len(walk.groups)
    BY <1>1, LenProperties DEF Works
  <2>2. walk.groups[dial] \in Groups
    BY <1>1, <2>1, ElementOfSeq
  <2>3. \E S : walk.groups[dial].alts \in Seq(S)
    BY <2>2 DEF Groups, GroupsOf
  <2>4. DOMAIN walk.groups[dial].alts = 1..Len(walk.groups[dial].alts) /\ Len(walk.groups[dial].alts) \in Nat
    BY <2>3, LenProperties
  <2>5. walk.groups[dial].pick \in DOMAIN walk.groups[dial].alts
    BY <1>1 DEF Standing, Grouped
  <2> QED
    BY <2>4, <2>5
<1>4. /\ walk' \in Works /\ Grouped(walk') /\ Len(walk'.groups) = Len(walk.groups)
      /\ walk'.tq = walk.tq /\ walk'.rq = walk.rq /\ walk'.seen = walk.seen /\ walk'.queue = walk.queue
  BY <1>1, <1>2, <1>3, PickMoved DEF Standing
<1>5. Standing(walk')
  BY <1>1, <1>4 DEF Standing, Mutual, Queueing, OnlyPaired
<1>6. Standing(walk)'
  BY <1>2, <1>5, GrowingFrame
<1>7. dial' \in Nat /\ dial' <= Len(walk'.groups)
  BY <1>1, <1>2, <1>4, LenProperties DEF Works
<1>8. ClusterTyped' /\ (seed \in Rows)'
  <2>1. Works' = Works /\ Rows' = Rows
    BY <1>2, TableFrame
  <2> QED
    BY <1>1, <1>2, <1>4, <1>7, <2>1 DEF ClusterTyped
<1> QED
  BY <1>2, <1>6, <1>7, <1>8 DEF ClusterInv

\* When all groups can be set they are; when one cannot, those set are taken back.
LEMMA AdvanceStep ==
  ASSUME ClusterInv, Advance
  PROVE  ClusterInv'
<1> DEFINE all == Len(walk.groups)
           w == [walk EXCEPT !.groups[dial].pick = @ + 1]
<1>1. /\ ClusterTyped /\ seed \in Rows /\ Standing(walk) /\ walk \in Works
      /\ dial \in DOMAIN walk.groups /\ all \in Nat /\ DOMAIN walk.groups = 1..all
  <2>1. ClusterTyped /\ seed \in Rows /\ Standing(walk) /\ dial <= Len(walk.groups) /\ dial > 0
    BY DEF ClusterInv, Advance
  <2>2. dial \in Nat /\ walk \in Works
    BY <2>1 DEF ClusterTyped
  <2>3. Len(walk.groups) \in Nat /\ DOMAIN walk.groups = 1..Len(walk.groups)
    BY <2>2, LenProperties DEF Works
  <2> QED
    BY <2>1, <2>2, <2>3
<1>2. /\ table' = table /\ seed' = seed /\ at' = at /\ stamp' = stamp /\ pc = "dial"
      /\ ~Spent(walk, dial)
      /\ \/ /\ \A i \in 1..all : CanBeSet(w, i)
            /\ walk' = AllSet(w, 1..all) /\ turned' = all /\ pc' = "path" /\ dial' = dial
         \/ \E stuck \in 1..all :
              LET G == (stuck + 1)..all IN
              /\ \A i \in G : CanBeSet(w, i)
              /\ walk' = Unturned(AllSet(w, G), G) /\ dial' = all /\ pc' = pc /\ turned' = turned
  BY DEF Advance
<1>3. /\ w \in Works /\ Grouped(w) /\ Len(w.groups) = all
      /\ w.tq = walk.tq /\ w.rq = walk.rq /\ w.seen = walk.seen /\ w.queue = walk.queue
  <2> DEFINE n == walk.groups[dial].pick + 1
  <2>1. n \in DOMAIN walk.groups[dial].alts
    <3>1. walk.groups \in Seq(Groups)
      BY <1>1 DEF Works
    <3>2. walk.groups[dial] \in Groups
      BY <1>1, <3>1, ElementOfSeq
    <3>3. \E S : walk.groups[dial].alts \in Seq(S)
      BY <3>2 DEF Groups, GroupsOf
    <3>4. DOMAIN walk.groups[dial].alts = 1..Len(walk.groups[dial].alts) /\ Len(walk.groups[dial].alts) \in Nat
      BY <3>3, LenProperties
    <3>5. walk.groups[dial].pick \in DOMAIN walk.groups[dial].alts
      BY <1>1 DEF Standing, Grouped
    <3> QED
      BY <1>2, <3>4, <3>5 DEF Spent
  <2>2. w = [walk EXCEPT !.groups[dial].pick = n]
    OBVIOUS
  <2> HIDE DEF n, w
  <2>3. Grouped(walk)
    BY <1>1 DEF Standing
  <2>4. LET v == [walk EXCEPT !.groups[dial].pick = n] IN
        /\ v \in Works /\ Grouped(v) /\ Len(v.groups) = Len(walk.groups)
        /\ v.tq = walk.tq /\ v.rq = walk.rq /\ v.seen = walk.seen /\ v.queue = walk.queue
    BY <1>1, <2>1, <2>3, PickMoved
  <2> QED
    BY <2>2, <2>4
<1> HIDE DEF w, all
<1>4. Mutual(w) /\ OnlyPaired(w, {}) /\ Queueing(w) /\ w.seen = {}
  BY <1>1, <1>3 DEF Standing, Mutual, OnlyPaired, Queueing
<1>5. DOMAIN w.groups = 1..all
  BY <1>3, LenProperties DEF Works
<1>6. Works' = Works /\ Rows' = Rows
  BY <1>2, TableFrame
<1>7. CASE /\ \A i \in 1..all : CanBeSet(w, i)
           /\ walk' = AllSet(w, 1..all) /\ turned' = all /\ pc' = "path" /\ dial' = dial
  <2>1. /\ walk' \in Works /\ Mutual(walk') /\ Grouped(walk') /\ Len(walk'.groups) = all
        /\ walk'.seen = w.seen /\ walk'.queue = w.queue
        /\ \A i \in 1..all : walk'.groups[i].set = PickE(w.groups[i])
        /\ \A d \in Probe : walk'.tq[d] # 0 => w.tq[d] # 0 \/ \E i \in 1..all : PickE(w.groups[i]) = d
    <3>1. \A i \in 1..all : \A n \in (i + 1)..all : n \in 1..all
      BY <1>1
    <3> QED
      BY <1>3, <1>4, <1>5, <1>7, <3>1, AllSetFields
  <2>2. \A i \in 1..all : walk'.groups[i].set \in Probe
    BY <1>3, <1>5, <2>1, PickTyped
  <2>3. SetUpTo(walk', all)
    BY <1>1, <2>1, <2>2 DEF SetUpTo
  <2>4. OnlyPaired(walk', SetEnds(walk', all))
    BY <1>4, <2>1 DEF OnlyPaired, SetEnds
  <2>5. /\ Mutual(walk)' /\ Grouped(walk)' /\ SetUpTo(walk, turned)'
        /\ OnlyPaired(walk, SetEnds(walk, turned))'
    BY <1>2, <1>7, <2>1, <2>3, <2>4 DEF Mutual, Grouped, SetUpTo, OnlyPaired, SetEnds, Row
  <2>6. ClusterTyped' /\ (seed \in Rows)'
    BY <1>1, <1>2, <1>6, <1>7, <2>1 DEF ClusterTyped
  <2> QED
    BY <1>4, <1>7, <2>1, <2>5, <2>6 DEF ClusterInv
<1>8. ASSUME NEW stuck \in 1..all,
             \A i \in (stuck + 1)..all : CanBeSet(w, i),
             walk' = Unturned(AllSet(w, (stuck + 1)..all), (stuck + 1)..all),
             dial' = all, pc' = pc, turned' = turned
      PROVE  ClusterInv'
  <2> DEFINE G == (stuck + 1)..all
             v == AllSet(w, G)
             S == {v.groups[i].set : i \in G}
  <2>1. G \subseteq DOMAIN w.groups /\ \A i \in G : \A n \in (i + 1)..all : n \in G
    BY <1>1, <1>5
  <2>2. \A i \in G : CanBeSet(w, i)
    BY <1>8
  <2>3. walk' = Unpaired(v, S)
    BY <1>8 DEF Unturned
  <2> HIDE DEF G
  <2>4. /\ v \in Works /\ Mutual(v) /\ Grouped(v) /\ Len(v.groups) = Len(w.groups)
        /\ v.seen = w.seen /\ v.queue = w.queue
        /\ \A i \in G : v.groups[i].set = PickE(w.groups[i])
        /\ \A d \in Probe : v.tq[d] # 0 => w.tq[d] # 0 \/ \E i \in G : PickE(w.groups[i]) = d
    BY <1>3, <1>4, <2>1, <2>2, AllSetFields
  <2> HIDE DEF v
  <2>5. \A i \in G : PickE(w.groups[i]) \in Probe
    BY <1>3, <2>1, PickTyped
  <2>6. S \subseteq Probe /\ \A d \in Probe : d \notin S => (v.tq[d] # 0 => w.tq[d] # 0)
    BY <2>4, <2>5
  <2> HIDE DEF S
  <2>7. walk' \in Works /\ Mutual(walk')
    BY <2>3, <2>4, <2>6, UnpairedFields
  <2>8. \A d \in Probe : walk'.tq[d] = IF d \in S THEN 0 ELSE v.tq[d]
    BY <2>3, <2>4, <2>6, UnpairedFields
  <2>9. walk'.seen = v.seen /\ walk'.groups = v.groups /\ walk'.queue = v.queue
        /\ walk'.cp = v.cp /\ walk'.rp = v.rp
    BY <2>3, <2>4, <2>6, UnpairedFields
  <2>10. OnlyPaired(walk', {})
    BY <1>4, <2>6, <2>8 DEF OnlyPaired
  <2>11. Standing(walk')
    BY <1>4, <2>4, <2>7, <2>9, <2>10 DEF Standing, Grouped, Queueing
  <2>12. Standing(walk)'
    BY <1>2, <1>8, <2>11, GrowingFrame
  <2>13. dial' \in Nat /\ dial' <= Len(walk'.groups)
    BY <1>1, <1>3, <1>8, <2>4, <2>9
  <2>14. ClusterTyped' /\ (seed \in Rows)'
    BY <1>1, <1>2, <1>6, <1>8, <2>7, <2>13 DEF ClusterTyped
  <2> QED
    BY <1>2, <1>8, <2>12, <2>13, <2>14 DEF ClusterInv
<1> QED
  BY <1>2, <1>7, <1>8

\* The end of a seed frees its own pairing, and every endpoint of a group.
LEMMA EndSeedStep ==
  ASSUME ClusterInv, EndSeed
  PROVE  ClusterInv'
<1>1. ClusterTyped /\ seed \in Rows /\ Standing(walk) /\ walk \in Works
  BY DEF ClusterInv, EndSeed, ClusterTyped
<1>2. /\ table' = table /\ seed' = seed /\ turned' = turned /\ at' = at /\ stamp' = stamp
      /\ dial' = dial /\ pc' = "seed"
  BY DEF EndSeed
<1> DEFINE E == {Head(walk.queue)}
           v == Unpaired(walk, E)
           cp == [e \in Probe |-> IF \E g \in ToSet(walk.groups) : g.side = "probe" /\ g.end = e THEN 0 ELSE v.cp[e]]
           rp == [l \in Gallery |-> IF \E g \in ToSet(walk.groups) : g.side = "gallery" /\ g.end = l THEN 0 ELSE v.rp[l]]
<1>3. walk' = [v EXCEPT !.cp = cp, !.rp = rp]
  BY DEF EndSeed
<1>4. E = {Row(seed).k} /\ E \subseteq Probe
  <2>1. Head(walk.queue) = walk.queue[1]
    OBVIOUS
  <2>2. Row(seed).k \in Probe
    BY <1>1, RowTyped DEF ClusterTyped
  <2> QED
    BY <1>1, <2>1, <2>2 DEF Standing, Queueing
<1>5. v.cp = walk.cp /\ v.rp = walk.rp /\ v.seen = walk.seen
  BY <1>1, <1>4, UnpairedFields DEF Standing
<1>6. v \in Works /\ Mutual(v)
  BY <1>1, <1>4, UnpairedFields DEF Standing
<1>7. \A d \in Probe : v.tq[d] = IF d \in E THEN 0 ELSE walk.tq[d]
  BY <1>1, <1>4, UnpairedFields DEF Standing
<1> HIDE DEF v
<1>8. cp \in [Probe -> Nat] /\ rp \in [Gallery -> Nat]
  BY <1>6 DEF Works
<1>9. (\A e \in Probe : cp[e] = 0) /\ \A l \in Gallery : rp[l] = 0
  BY <1>1, <1>5 DEF Standing, Grouped, ToSet
<1> HIDE DEF cp, rp
<1>10. /\ walk' \in Works /\ walk'.tq = v.tq /\ walk'.rq = v.rq /\ walk'.seen = v.seen
       /\ walk'.cp = cp /\ walk'.rp = rp
  BY <1>3, <1>6, <1>8 DEF Works
<1>11. \A e \in Probe : v.tq[e] = 0
  BY <1>1, <1>4, <1>7 DEF Standing, OnlyPaired
<1>12. \A l \in Gallery : v.rq[l] = 0
  <2> TAKE l \in Gallery
  <2>1. v.rq[l] \in Probe \cup {0}
    BY <1>6 DEF Works
  <2>2. \A e \in Probe : v.rq[l] # e
    BY <1>6, <1>11, ZeroIsNoEnd DEF Mutual
  <2> QED
    BY <2>1, <2>2
<1>13. CleanBetweenSeeds'
  BY <1>1, <1>5, <1>9, <1>10, <1>11, <1>12 DEF CleanBetweenSeeds, Standing
<1>14. Mutual(walk)'
  BY <1>6, <1>10 DEF Mutual
<1>15. ClusterTyped'
  <2>1. Works' = Works
    BY <1>2, TableFrame
  <2> QED
    BY <1>1, <1>2, <1>10, <2>1 DEF ClusterTyped
<1> QED
  BY <1>2, <1>13, <1>14, <1>15 DEF ClusterInv

-----------------------------------------------------------------------------
(* The theorems.                                                           *)

\* The final loop leaves the work arrays alone.
LEMMA FinalStep ==
  ASSUME ClusterInv, NoSeed \/ Low \/ Root \/ Descend \/ Leaf \/ Done
  PROVE  ClusterInv'
<1>1. /\ table' = table /\ walk' = walk /\ seed' = seed /\ stamp' = stamp /\ at' = at
      /\ turned' = turned /\ dial' = dial /\ pc' \in {"score", "done"}
  BY DEF NoSeed, Low, Root, Descend, Leaf, Done, vars
<1>2. Works' = Works
  BY <1>1, TableFrame
<1> QED
  BY <1>1, <1>2 DEF ClusterInv, ClusterTyped

\* What the loop does not touch keeps the invariant.
LEMMA ClusterUnchanged ==
  ASSUME ClusterInv, UNCHANGED vars
  PROVE  ClusterInv'
<1>1. /\ pc' = pc /\ table' = table /\ walk' = walk /\ seed' = seed /\ stamp' = stamp /\ at' = at
      /\ turned' = turned /\ dial' = dial /\ ahead' = ahead
  BY DEF vars
<1>2. Works' = Works /\ Rows' = Rows
  BY <1>1, TableFrame
<1>3. ClusterTyped' /\ (pc \in {"path", "grow", "turn", "dial"} => seed \in Rows)'
  BY <1>1, <1>2 DEF ClusterInv, ClusterTyped
<1>4. (pc = "seed" => CleanBetweenSeeds /\ Mutual(walk))'
  BY <1>1 DEF ClusterInv, CleanBetweenSeeds, Mutual
<1>5. (pc = "path" => /\ Mutual(walk) /\ Grouped(walk) /\ SetUpTo(walk, turned)
                      /\ OnlyPaired(walk, SetEnds(walk, turned)) /\ walk.seen = {})'
  BY <1>1 DEF ClusterInv, Mutual, Grouped, SetUpTo, OnlyPaired, SetEnds, Row
<1>6. (pc \in {"grow", "turn"} => Growing(walk))'
  BY <1>1, GrowingFrame DEF ClusterInv
<1>7. (pc = "grow" => AheadKnown /\ at # 0)'
  BY <1>1, <1>2 DEF ClusterInv, AheadKnown, Known, SeedPair, Row
<1>8. (pc = "dial" => Standing(walk) /\ dial <= Len(walk.groups))'
  BY <1>1, GrowingFrame DEF ClusterInv
<1> QED
  BY <1>3, <1>4, <1>5, <1>6, <1>7, <1>8 DEF ClusterInv

\* At every place of the loop, what is paired is owed to the seed, to the odometer
\* or to the queue (the growth of a path in cluster.rs:275-376, its teardown and
\* the odometer in cluster.rs:592-736).
THEOREM ClusterIsOwed == Spec => []ClusterInv
<1>1. Init => ClusterInv
  BY InitCluster
<1>2. ClusterInv /\ [Next]_vars => ClusterInv'
  <2> SUFFICES ASSUME ClusterInv, [Next]_vars PROVE ClusterInv'
    OBVIOUS
  <2>1. CASE NextSeed
    BY <2>1, NextSeedStep
  <2>2. CASE StartPath
    BY <2>2, StartPathStep
  <2>3. CASE Grow
    BY <2>3, GrowStep
  <2>4. CASE SiftRow
    BY <2>4, SiftRowStep
  <2>5. CASE Settle
    BY <2>5, SettleStep
  <2>6. CASE Turn
    BY <2>6, TurnStep
  <2>7. CASE Carry
    BY <2>7, CarryStep
  <2>8. CASE Advance
    BY <2>8, AdvanceStep
  <2>9. CASE EndSeed
    BY <2>9, EndSeedStep
  <2>10. CASE NoSeed \/ Low \/ Root \/ Descend \/ Leaf \/ Done
    BY <2>10, FinalStep
  <2>11. CASE UNCHANGED vars
    BY <2>11, ClusterUnchanged
  <2> QED
    BY <2>1, <2>2, <2>3, <2>4, <2>5, <2>6, <2>7, <2>8, <2>9, <2>10, <2>11 DEF Next
<1> QED
  BY <1>1, <1>2, PTL DEF Spec

\* A path takes no minutia of either print to two of the other, whatever the
\* odometer had paired before it was grown (cluster.rs:275-376).
THEOREM PathIsConsistent == Spec => []PathConsistent
<1>1. ClusterInv => PathConsistent
  <2> SUFFICES ASSUME ClusterInv, pc \in {"grow", "turn"},
                      NEW p \in (UNION {RowPairs(x) : x \in ToSet(walk.path)}) \ {SeedPair},
                      NEW q \in (UNION {RowPairs(x) : x \in ToSet(walk.path)}) \ {SeedPair}
               PROVE  p[1] = q[1] <=> p[2] = q[2]
    BY DEF PathConsistent
  <2>1. Growing(walk) /\ table \in Tables /\ walk \in Works
    BY DEF ClusterInv, ClusterTyped
  <2>2. ASSUME NEW r \in (UNION {RowPairs(x) : x \in ToSet(walk.path)}) \ {SeedPair}
        PROVE  r[1] \in Probe /\ r[2] \in Gallery /\ walk.tq[r[1]] = r[2]
    <3>1. PICK x \in ToSet(walk.path) : r \in RowPairs(x)
      OBVIOUS
    <3>2. x \in Rows
      BY <2>1 DEF ToSet, Works
    <3>3. Row(x).k \in Probe /\ Row(x).j \in Probe /\ Row(x).a \in Gallery /\ Row(x).b \in Gallery
      BY <2>1, <3>2, RowTyped
    <3>4. Known(walk, Row(x).k, Row(x).a) /\ Known(walk, Row(x).j, Row(x).b)
      BY <2>1 DEF Growing
    <3>5. r # SeedPair /\ (r = <<Row(x).k, Row(x).a>> \/ r = <<Row(x).j, Row(x).b>>)
      BY <3>1 DEF RowPairs
    <3> QED
      BY <3>3, <3>4, <3>5 DEF Known
  <2>3. Mutual(walk)
    BY <2>1 DEF Growing
  <2> QED
    BY <2>2, <2>3 DEF Mutual
<1> QED
  BY <1>1, ClusterIsOwed, PTL

\* Nothing of one seed is left in the shared arrays for the next (the teardown of a
\* seed, cluster.rs:711-736).
THEOREM SeedsStartClean == Spec => []CleanBetweenSeeds
<1>1. ClusterInv => CleanBetweenSeeds
  BY DEF ClusterInv, CleanBetweenSeeds
<1> QED
  BY <1>1, ClusterIsOwed, PTL

-----------------------------------------------------------------------------
(* The search for the best clique: its invariant.                           *)

\* What a sequence is.
IsSequence(s) == Len(s) \in Nat /\ s = [i \in 1..Len(s) |-> s[i]]

\* The weights of sets of clusters, for any clusters.
RowsIn(cl, s) == UNION {{k} \X DOMAIN cl[s[k]].rows : k \in DOMAIN s}
WeightIn(cl, S) == Cardinality(RowsIn(cl, [i \in S |-> i]))

\* Clusters with their rows.
Listed(cl) ==
  /\ IsSequence(cl)
  /\ \A i \in 1..Len(cl) :
       /\ cl[i] = [rows |-> cl[i].rows, agree |-> cl[i].agree, total |-> cl[i].total]
       /\ IsSequence(cl[i].rows)

\* A cluster agrees with itself and with later ones, and its total is their rows.
Clustered(cl) ==
  /\ Listed(cl)
  /\ \A i \in 1..Len(cl) :
       /\ i \in cl[i].agree /\ cl[i].agree \subseteq i..Len(cl)
       /\ cl[i].total = WeightIn(cl, cl[i].agree)

\* The candidate that a level tries is the first of those left at the level above.
HeadIn(ls, d) == Min(ls[d].list)
\* The heads down to a depth, and what else a clique there may have.
Chosen(ls, d) == {HeadIn(ls, c) : c \in 1..d}
Rest(ls, d) == IF d = Len(ls) THEN ls[d].left ELSE ls[d].left \ {HeadIn(ls, d + 1)}

\* The numbers of the clusters.
Numbers == 1..Len(clusters)

\* A level's candidates agree with its head and were left at the levels above; those
\* that are left are the last ones.
Nested(ls) ==
  /\ ls \in Seq([list : SUBSET Numbers, left : SUBSET Numbers])
  /\ \A d \in 1..Len(ls) :
       /\ ls[d].list # {} /\ ls[d].left \subseteq ls[d].list \ {HeadIn(ls, d)}
       /\ \A x \in ls[d].left, y \in ls[d].list : x < y => y \in ls[d].left
       /\ ls[d].list \subseteq clusters[HeadIn(ls, d)].agree
       /\ \A c \in 1..(d - 1) : ls[d].list \subseteq ls[c].left
       /\ d < Len(ls) => HeadIn(ls, d + 1) = Min(ls[d].left)

\* A clique that the search has yet to come to, at depth d.
AheadAt(ls, S, d) == Chosen(ls, d) \subseteq S /\ S \subseteq Chosen(ls, d) \cup Rest(ls, d)

\* Whatever clique begins at a root gone through has been beaten, or at the root
\* at hand, unless the search is still to come to it.
Searching ==
  /\ root \in Nat /\ score \in Nat /\ Nested(levels)
  /\ \E S \in Cliques : score = Weight(S)
  /\ \A S \in Cliques :
       (\E i \in S : i < root \/ (i = root /\ levels = <<>>)) => Weight(S) <= score
  /\ levels # <<>> =>
       /\ HeadIn(levels, 1) = root
       /\ \A S \in Cliques : root \in S /\ (\A i \in S : root <= i) =>
            Weight(S) <= score \/ \E d \in 1..Len(levels) : AheadAt(levels, S, d)

\* The search has not begun, is in order, or has the best score.
SearchInv ==
  /\ Clustered(clusters)
  /\ pc \notin {"score", "done"} => levels = <<>> /\ root = 0 /\ score = 0
  /\ pc = "score" => Searching
  /\ ScoreIsBestClique

-----------------------------------------------------------------------------
(* Least and greatest numbers, and what a sequence is.                      *)

\* A set of numbers has a least one.
LEMMA LeastNumber ==
  ASSUME NEW T \in SUBSET Nat, T # {}
  PROVE  Min(T) \in T /\ \A y \in T : Min(T) <= y
<1> DEFINE U == {0..i : i \in T}
<1>1. U # {} /\ U \subseteq FiniteSubsetsOf(Nat)
  <2>1. ASSUME NEW i \in T
        PROVE  0..i \in SUBSET Nat /\ IsFiniteSet(0..i)
    BY FS_Interval
  <2> QED
    BY <2>1 DEF FiniteSubsetsOf
<1>2. PICK X \in U : \A Y \in U : <<Y, X>> \notin StrictSubsetOrdering(Nat)
  BY <1>1, WFMin, FS_StrictSubsetOrderingWellFounded
<1>3. PICK i \in T : X = 0..i
  OBVIOUS
<1>4. ASSUME NEW j \in T, j < i
      PROVE  FALSE
  <2>1. 0..j \subseteq 0..i /\ i \notin 0..j /\ i \in 0..i
    BY <1>4
  <2>2. <<0..j, X>> \in StrictSubsetOrdering(Nat)
    BY <2>1, <1>3 DEF StrictSubsetOrdering
  <2> QED
    BY <2>2, <1>2
<1>5. \A y \in T : i <= y
  BY <1>4
<1> QED
  BY <1>3, <1>5 DEF Min

\* A set of numbers that are not beyond n has a greatest one.
LEMMA GreatestNumber ==
  ASSUME NEW n \in Nat, NEW T \in SUBSET (0..n), T # {}
  PROVE  Max(T) \in T /\ \A y \in T : y <= Max(T)
<1> DEFINE U == {n - x : x \in T}
<1>1. U \in SUBSET Nat /\ U # {}
  <2>1. \A x \in T : n - x \in Nat
    OBVIOUS
  <2> QED
    BY <2>1
<1>2. PICK u \in U : \A v \in U : u <= v
  BY <1>1, LeastNumber
<1>3. PICK x \in T : u = n - x
  OBVIOUS
<1>4. \A y \in T : y <= x
  <2> SUFFICES ASSUME NEW y \in T PROVE y <= x
    OBVIOUS
  <2>1. n - y \in U /\ x \in 0..n /\ y \in 0..n
    BY <1>3
  <2>2. n - x <= n - y
    BY <1>2, <1>3, <2>1
  <2> QED
    BY <2>1, <2>2
<1> QED
  BY <1>3, <1>4 DEF Max

\* The numbers up to n are n.
LEMMA UpTo ==
  ASSUME NEW n \in Nat
  PROVE  IsFiniteSet(1..n) /\ Cardinality(1..n) = n
<1>1. 1 \in Int /\ n \in Int
  OBVIOUS
<1> QED
  BY <1>1, FS_Interval

\* A sequence with one element more.
LEMMA OneMore ==
  ASSUME NEW s, IsSequence(s), NEW e
  PROVE  /\ IsSequence(Append(s, e)) /\ Len(Append(s, e)) = Len(s) + 1
         /\ \A i \in 1..Len(s) : Append(s, e)[i] = s[i]
         /\ Append(s, e)[Len(s) + 1] = e
<1> DEFINE S == {s[i] : i \in 1..Len(s)} \cup {e}
<1>1. s \in Seq(S) /\ e \in S
  BY DEF IsSequence
<1>2. /\ Append(s, e) \in Seq(S) /\ Len(Append(s, e)) = Len(s) + 1
      /\ \A i \in 1..Len(s) : Append(s, e)[i] = s[i]
      /\ Append(s, e)[Len(s) + 1] = e
  BY <1>1, AppendProperties
<1>3. Append(s, e) = [i \in 1..Len(Append(s, e)) |-> Append(s, e)[i]] /\ Len(Append(s, e)) \in Nat
  BY <1>2, LenProperties
<1> QED
  BY <1>2, <1>3 DEF IsSequence

\* A function on the first n numbers is a sequence of n.
LEMMA MadeSequence ==
  ASSUME NEW n \in Nat, NEW s, s = [i \in 1..n |-> s[i]]
  PROVE  IsSequence(s) /\ Len(s) = n
<1> DEFINE S == {s[i] : i \in 1..n}
<1>1. s \in Seq(S) /\ Len(s) = n
  BY IsASeq, LenProperties
<1> QED
  BY <1>1 DEF IsSequence

-----------------------------------------------------------------------------
(* The rows of sets of clusters.                                            *)

\* A list of clusters has finitely many rows.
LEMMA RowsFinite ==
  ASSUME NEW cl, Listed(cl), NEW s, IsFiniteSet(DOMAIN s), \A k \in DOMAIN s : s[k] \in 1..Len(cl)
  PROVE  IsFiniteSet(RowsIn(cl, s)) /\ Cardinality(RowsIn(cl, s)) \in Nat
<1> DEFINE Part(k) == {k} \X DOMAIN cl[s[k]].rows
           Parts == {Part(k) : k \in DOMAIN s}
<1>1. IsFiniteSet(Parts)
  <2> DEFINE f == [k \in DOMAIN s |-> Part(k)]
  <2>1. f \in Surjection(DOMAIN s, Parts)
    BY DEF Surjection
  <2> HIDE DEF f, Parts
  <2> QED
    BY <2>1, FS_Surjection
<1>2. ASSUME NEW k \in DOMAIN s
      PROVE  IsFiniteSet(Part(k))
  <2>1. DOMAIN cl[s[k]].rows = 1..Len(cl[s[k]].rows) /\ Len(cl[s[k]].rows) \in Nat
    BY DEF Listed, IsSequence
  <2>2. IsFiniteSet(DOMAIN cl[s[k]].rows)
    BY <2>1, UpTo
  <2> QED
    BY <2>2, FS_Product, FS_Singleton
<1>3. IsFiniteSet(UNION Parts)
  BY <1>1, <1>2, FS_UNION
<1> QED
  BY <1>3, FS_CardinalityType DEF RowsIn

\* A set of clusters is finite, and so are its rows.
LEMMA WeightFinite ==
  ASSUME NEW cl, Listed(cl), NEW S \in SUBSET (1..Len(cl))
  PROVE  /\ IsFiniteSet(S)
         /\ IsFiniteSet(RowsIn(cl, [i \in S |-> i])) /\ WeightIn(cl, S) \in Nat
<1>1. IsFiniteSet(S)
  <2>1. Len(cl) \in Nat
    BY DEF Listed, IsSequence
  <2> QED
    BY <2>1, UpTo, FS_Subset
<1> QED
  BY <1>1, RowsFinite DEF WeightIn

\* More clusters have no fewer rows.
LEMMA WeightGrows ==
  ASSUME NEW cl, Listed(cl), NEW T \in SUBSET (1..Len(cl)), NEW S \in SUBSET T
  PROVE  WeightIn(cl, S) <= WeightIn(cl, T)
<1>1. RowsIn(cl, [i \in S |-> i]) \subseteq RowsIn(cl, [i \in T |-> i])
  BY DEF RowsIn
<1> QED
  BY <1>1, WeightFinite, FS_Subset DEF WeightIn

\* Two sets of clusters without a common one have their rows together.
LEMMA WeightOfBoth ==
  ASSUME NEW cl, Listed(cl), NEW S \in SUBSET (1..Len(cl)), NEW T \in SUBSET (1..Len(cl)), S \cap T = {}
  PROVE  WeightIn(cl, S \cup T) = WeightIn(cl, S) + WeightIn(cl, T)
<1> DEFINE A == RowsIn(cl, [i \in S |-> i])
           B == RowsIn(cl, [i \in T |-> i])
           C == RowsIn(cl, [i \in S \cup T |-> i])
<1>1. C = A \cup B
  BY DEF RowsIn
<1>2. A \cap B = {}
  BY DEF RowsIn
<1>3. IsFiniteSet(A) /\ IsFiniteSet(B) /\ Cardinality(A) \in Nat /\ Cardinality(B) \in Nat
  BY WeightFinite, FS_CardinalityType
<1> HIDE DEF A, B, C
<1>4. Cardinality(C) = Cardinality(A) + Cardinality(B)
  <2>1. Cardinality(A \cup B) = Cardinality(A) + Cardinality(B) - Cardinality(A \cap B)
    BY <1>3, FS_Union
  <2>2. Cardinality(A \cap B) = 0
    BY <1>2, FS_EmptySet
  <2> QED
    BY <1>1, <1>3, <2>1, <2>2
<1> QED
  BY <1>4 DEF WeightIn, A, B, C

\* One cluster has its rows.
LEMMA WeightOfOne ==
  ASSUME NEW cl, Listed(cl), NEW i \in 1..Len(cl)
  PROVE  WeightIn(cl, {i}) = Len(cl[i].rows)
<1>1. RowsIn(cl, [k \in {i} |-> k]) = {i} \X DOMAIN cl[i].rows
  BY DEF RowsIn
<1>2. DOMAIN cl[i].rows = 1..Len(cl[i].rows) /\ Len(cl[i].rows) \in Nat
  BY DEF Listed, IsSequence
<1>3. IsFiniteSet(1..Len(cl[i].rows)) /\ Cardinality(1..Len(cl[i].rows)) = Len(cl[i].rows)
  BY <1>2, UpTo
<1>4. Cardinality({i} \X (1..Len(cl[i].rows))) = Cardinality({i}) * Cardinality(1..Len(cl[i].rows))
  <2>1. IsFiniteSet({i})
    BY FS_Singleton
  <2> QED
    BY <1>3, <2>1, FS_Product
<1>5. Cardinality({i}) = 1
  BY FS_Singleton
<1>6. Cardinality({i} \X (1..Len(cl[i].rows))) = Len(cl[i].rows)
  BY <1>2, <1>3, <1>4, <1>5
<1>7. WeightIn(cl, {i}) = Cardinality(RowsIn(cl, [k \in {i} |-> k]))
  BY DEF WeightIn
<1> QED
  BY <1>1, <1>2, <1>6, <1>7

\* A list without repetitions has the rows of its clusters.
LEMMA ListedOnce ==
  ASSUME NEW cl, Listed(cl), NEW n \in Nat, NEW s \in [1..n -> 1..Len(cl)],
         \A c, d \in 1..n : s[c] = s[d] => c = d
  PROVE  Cardinality(RowsIn(cl, s)) = WeightIn(cl, {s[d] : d \in 1..n})
<1> DEFINE S == {s[d] : d \in 1..n}
           A == RowsIn(cl, s)
           B == RowsIn(cl, [i \in S |-> i])
           f == [a \in A |-> <<s[a[1]], a[2]>>]
<1>1. IsFiniteSet(A)
  <2>1. DOMAIN s = 1..n /\ IsFiniteSet(1..n)
    BY UpTo
  <2> QED
    BY <2>1, RowsFinite
<1>2. \A a : a \in A <=> \E d \in 1..n : \E r \in DOMAIN cl[s[d]].rows : a = <<d, r>>
  BY DEF RowsIn
<1>3. \A b : b \in B <=> \E d \in 1..n : \E r \in DOMAIN cl[s[d]].rows : b = <<s[d], r>>
  <2>1. \A b : b \in B <=> \E i \in S : \E r \in DOMAIN cl[i].rows : b = <<i, r>>
    <3> HIDE DEF S
    <3> QED
      BY DEF RowsIn
  <2>2. \A i : i \in S <=> \E d \in 1..n : i = s[d]
    OBVIOUS
  <2> HIDE DEF S, B
  <2> QED
    BY <2>1, <2>2
<1> HIDE DEF A, B
<1>4. f \in [A -> B]
  BY <1>2, <1>3
<1>5. ASSUME NEW a \in A, NEW b \in A, f[a] = f[b]
      PROVE  a = b
  <2>1. PICK c \in 1..n : \E q \in DOMAIN cl[s[c]].rows : a = <<c, q>>
    BY <1>2
  <2>2. PICK d \in 1..n : \E r \in DOMAIN cl[s[d]].rows : b = <<d, r>>
    BY <1>2
  <2>3. f[a] = <<s[c], a[2]>> /\ f[b] = <<s[d], b[2]>>
    BY <2>1, <2>2
  <2>4. c = d
    BY <1>5, <2>3
  <2> QED
    BY <1>5, <2>1, <2>2, <2>3, <2>4
<1>6. ASSUME NEW b \in B
      PROVE  \E a \in A : f[a] = b
  <2>1. PICK d \in 1..n : \E r \in DOMAIN cl[s[d]].rows : b = <<s[d], r>>
    BY <1>3
  <2>2. PICK r \in DOMAIN cl[s[d]].rows : b = <<s[d], r>>
    BY <2>1
  <2>3. <<d, r>> \in A
    BY <1>2
  <2>4. f[<<d, r>>] = b
    BY <2>2, <2>3
  <2> QED
    BY <2>3, <2>4
<1>7. f \in Bijection(A, B)
  BY <1>4, <1>5, <1>6, Fun_IsBij
<1>8. Cardinality(A) = Cardinality(B)
  BY <1>1, <1>7, FS_Bijection DEF ExistsBijection
<1> QED
  BY <1>8 DEF A, B, WeightIn

-----------------------------------------------------------------------------
(* Clusters as they are made.                                               *)

\* What is left of a path is a sequence.
LEMMA PrunedIsSequence ==
  ASSUME NEW p \in Seq(Rows)
  PROVE  IsSequence(Pruned(p))
<1>1. IsSequence(p)
  BY LenProperties DEF IsSequence
<1>2. ASSUME NEW K \in SUBSET DOMAIN p
      PROVE  IsSequence(At(p, K))
  <2>1. IsFiniteSet(K)
    BY <1>1, UpTo, FS_Subset, LenProperties
  <2>2. Cardinality(K) \in Nat
    BY <2>1, FS_CardinalityType
  <2>3. At(p, K) = [n \in 1..Cardinality(K) |-> At(p, K)[n]]
    BY DEF At
  <2> QED
    BY <2>2, <2>3, MadeSequence
<1>3. Pruned(p) = p \/ \E K \in SUBSET DOMAIN p : Pruned(p) = At(p, K)
  BY DEF Pruned
<1> QED
  BY <1>1, <1>2, <1>3

\* A new cluster and those that agree with it.
LEMMA ClusterAdded ==
  ASSUME Clustered(clusters), NEW p, IsSequence(p), NEW suit
  PROVE  Clustered(WithCluster(p, suit))
<1> DEFINE N == Len(clusters)
           n == N + 1
           cl == WithCluster(p, suit)
           Agrees(i) == i \in suit /\ Apart(clusters[i].rows, p)
           Joined(i) == IF Agrees(i)
                        THEN [clusters[i] EXCEPT !.agree = @ \cup {n}, !.total = @ + Len(p)]
                        ELSE clusters[i]
           before == [i \in DOMAIN clusters |-> Joined(i)]
           new == [rows |-> p, agree |-> {n}, total |-> Len(p)]
<1> HIDE DEF Joined
<1>1. N \in Nat /\ DOMAIN clusters = 1..N /\ Listed(clusters)
  BY DEF Clustered, Listed, IsSequence
<1>2. IsSequence(before) /\ Len(before) = N /\ \A i \in 1..N : before[i] = Joined(i)
  <2>1. before = [i \in 1..N |-> before[i]]
    BY <1>1
  <2>2. IsSequence(before) /\ Len(before) = N
    BY <1>1, <2>1, MadeSequence
  <2> QED
    BY <1>1, <2>2
<1>3. cl = Append(before, new)
  BY DEF WithCluster, Joined
<1>4. ASSUME NEW i \in 1..N
      PROVE  /\ Joined(i).rows = clusters[i].rows
             /\ Joined(i) = [rows |-> Joined(i).rows, agree |-> Joined(i).agree, total |-> Joined(i).total]
             /\ \/ Joined(i) = clusters[i]
                \/ /\ Joined(i).agree = clusters[i].agree \cup {n}
                   /\ Joined(i).total = clusters[i].total + Len(p)
  <2>1. clusters[i] = [rows |-> clusters[i].rows, agree |-> clusters[i].agree, total |-> clusters[i].total]
    BY <1>1 DEF Listed
  <2> QED
    BY <2>1 DEF Joined
<1> HIDE DEF before, new, cl
<1>5. IsSequence(cl) /\ Len(cl) = n /\ cl[n] = new /\ \A i \in 1..N : cl[i] = Joined(i)
  BY <1>2, <1>3, OneMore
<1>6. new = [rows |-> new.rows, agree |-> new.agree, total |-> new.total]
      /\ new.rows = p /\ new.agree = {n} /\ new.total = Len(p) /\ Len(p) \in Nat
  BY DEF new, IsSequence
<1>7. Listed(cl)
  <2> SUFFICES ASSUME NEW i \in 1..n
               PROVE  /\ cl[i] = [rows |-> cl[i].rows, agree |-> cl[i].agree, total |-> cl[i].total]
                      /\ IsSequence(cl[i].rows)
    BY <1>5 DEF Listed
  <2>1. CASE i = n
    BY <1>5, <1>6, <2>1
  <2>2. CASE i # n
    <3>1. i \in 1..N
      BY <1>1, <2>2
    <3>2. IsSequence(clusters[i].rows)
      BY <1>1, <3>1 DEF Listed
    <3> QED
      BY <1>4, <1>5, <3>1, <3>2
  <2> QED
    BY <2>1, <2>2
<1>8. ASSUME NEW S \in SUBSET (1..N)
      PROVE  WeightIn(cl, S) = WeightIn(clusters, S)
  <2>1. \A i \in S : cl[i].rows = clusters[i].rows
    BY <1>4, <1>5
  <2>2. RowsIn(cl, [i \in S |-> i]) = RowsIn(clusters, [i \in S |-> i])
    BY <2>1 DEF RowsIn
  <2> QED
    BY <2>2 DEF WeightIn
<1>9. WeightIn(cl, {n}) = Len(p)
  <2>1. n \in 1..Len(cl)
    BY <1>1, <1>5
  <2> QED
    BY <1>5, <1>6, <1>7, <2>1, WeightOfOne
<1>10. ASSUME NEW i \in 1..n
       PROVE  /\ i \in cl[i].agree /\ cl[i].agree \subseteq i..n
              /\ cl[i].total = WeightIn(cl, cl[i].agree)
  <2>1. CASE i = n
    <3>1. cl[i].agree = {n} /\ cl[i].total = Len(p)
      BY <1>5, <1>6, <2>1
    <3>2. cl[i].total = WeightIn(cl, cl[i].agree)
      BY <1>9, <3>1
    <3>3. i \in {n} /\ {n} \subseteq i..n
      BY <1>1, <2>1
    <3> QED
      BY <3>1, <3>2, <3>3
  <2>2. CASE i # n
    <3>1. i \in 1..N
      BY <1>1, <2>2
    <3>2. /\ i \in clusters[i].agree /\ clusters[i].agree \subseteq i..N
          /\ clusters[i].total = WeightIn(clusters, clusters[i].agree)
      BY <3>1 DEF Clustered
    <3>3. clusters[i].agree \in SUBSET (1..N)
      BY <1>1, <3>1, <3>2
    <3>4. clusters[i].total = WeightIn(cl, clusters[i].agree)
      BY <1>8, <3>2, <3>3
    <3>5. CASE Joined(i) = clusters[i]
      BY <1>1, <1>5, <3>1, <3>2, <3>4, <3>5
    <3>6. CASE /\ Joined(i).agree = clusters[i].agree \cup {n}
               /\ Joined(i).total = clusters[i].total + Len(p)
      <4>1. WeightIn(cl, clusters[i].agree \cup {n}) = WeightIn(cl, clusters[i].agree) + WeightIn(cl, {n})
        <5>1. clusters[i].agree \cap {n} = {}
          BY <1>1, <3>3
        <5>2. clusters[i].agree \in SUBSET (1..Len(cl)) /\ {n} \in SUBSET (1..Len(cl))
          BY <1>1, <1>5, <3>3
        <5> QED
          BY <1>7, <5>1, <5>2, WeightOfBoth
      <4>2. cl[i].agree = clusters[i].agree \cup {n} /\ cl[i].total = clusters[i].total + Len(p)
        BY <1>5, <3>1, <3>6
      <4>3. cl[i].total = WeightIn(cl, cl[i].agree)
        BY <1>9, <3>4, <4>1, <4>2
      <4>4. i \in cl[i].agree /\ cl[i].agree \subseteq i..n
        BY <1>1, <3>1, <3>2, <4>2
      <4> QED
        BY <4>3, <4>4
    <3> QED
      BY <1>4, <3>1, <3>5, <3>6
  <2> QED
    BY <2>1, <2>2
<1>11. Clustered(cl)
  BY <1>5, <1>7, <1>10 DEF Clustered
<1> QED
  BY <1>11 DEF cl

\* There is nothing to search at first.
LEMMA InitSearch ==
  ASSUME Init
  PROVE  SearchInv
<1>1. clusters = <<>> /\ levels = <<>> /\ root = 0 /\ score = 0 /\ pc = "seed"
  BY DEF Init
<1>2. Clustered(clusters)
  BY <1>1 DEF Clustered, Listed, IsSequence
<1> QED
  BY <1>1, <1>2 DEF SearchInv, ScoreIsBestClique

\* Before the search nothing of it has changed, and the clusters are in order.
LEMMA ClusteringStep ==
  ASSUME ClusterInv, SearchInv,
         NextSeed \/ StartPath \/ Grow \/ SiftRow \/ Settle \/ Turn \/ Carry \/ Advance \/ EndSeed \/ NoSeed
  PROVE  SearchInv'
<1>1. /\ pc \notin {"score", "done"} /\ levels' = levels /\ root' = root
      /\ score' = score \/ (pc' = "done" /\ score' = Overflow)
      /\ pc' # "done" \/ score' = Overflow
  BY DEF NextSeed, StartPath, Grow, SiftRow, Settle, Turn, Carry, Advance, EndSeed, NoSeed
<1>2. levels = <<>> /\ root = 0 /\ score = 0 /\ Clustered(clusters)
  BY <1>1 DEF SearchInv
<1>3. Clustered(clusters')
  <2>1. CASE Settle
    <3>1. IsSequence(Pruned(walk.path))
      <4>1. walk.path \in Seq(Rows)
        BY DEF ClusterInv, ClusterTyped, Works
      <4> QED
        BY <4>1, PrunedIsSequence
    <3>2. clusters' = clusters \/ \E suit : clusters' = WithCluster(Pruned(walk.path), suit)
      BY <2>1 DEF Settle
    <3> QED
      BY <1>2, <3>1, <3>2, ClusterAdded
  <2>2. CASE ~Settle
    <3>1. clusters' = clusters
      BY <2>2 DEF NextSeed, StartPath, Grow, SiftRow, Turn, Carry, Advance, EndSeed, NoSeed
    <3> QED
      BY <1>2, <3>1
  <2> QED
    BY <2>1, <2>2
<1>4. ScoreIsBestClique'
  BY <1>1 DEF ScoreIsBestClique, Overflow
<1>5. CASE pc' = "score"
  <2>1. levels' = <<>> /\ root' = 0 /\ score' = 0
    BY <1>1, <1>2, <1>5
  <2>2. \A S \in Cliques' : S \subseteq Nat \ {0}
    <3>1. DOMAIN clusters' = 1..Len(clusters') /\ Len(clusters') \in Nat
      BY <1>3 DEF Clustered, Listed, IsSequence
    <3> QED
      BY <3>1 DEF Cliques
  <2>3. {} \in Cliques' /\ Weight({})' = 0
    <3>1. RowsOf([i \in {} |-> i])' = {}
      BY DEF RowsOf
    <3> QED
      BY <3>1, FS_EmptySet DEF Cliques, Weight, Added
  <2>4. Nested(levels)'
    BY <2>1 DEF Nested
  <2>5. Searching'
    BY <2>1, <2>2, <2>3, <2>4 DEF Searching
  <2> QED
    BY <1>3, <1>4, <1>5, <2>1, <2>5 DEF SearchInv
<1>6. CASE pc' # "score"
  BY <1>1, <1>2, <1>3, <1>4, <1>6 DEF SearchInv
<1> QED
  BY <1>5, <1>6
-----------------------------------------------------------------------------
(* The search.                                                              *)

\* A set of clusters weighs what its rows are.
LEMMA WeightSame == \A S : Weight(S) = WeightIn(clusters, S)
BY DEF Weight, Added, RowsOf, WeightIn, RowsIn

\* Cliques are of the clusters there are, and one more cluster makes none lighter.
LEMMA CliqueGrows ==
  ASSUME Clustered(clusters), NEW T \in SUBSET Numbers, NEW S \in SUBSET T
  PROVE  Weight(S) \in Nat /\ Weight(T) \in Nat /\ Weight(S) <= Weight(T)
<1>1. S \in SUBSET Numbers /\ Listed(clusters)
  BY DEF Clustered
<1> QED
  BY <1>1, WeightSame, WeightFinite, WeightGrows DEF Numbers

\* A clique weighs no more than what its first cluster agrees with.
LEMMA CliqueUnderTotal ==
  ASSUME Clustered(clusters), NEW S \in Cliques, NEW m \in S, \A i \in S : m <= i
  PROVE  Weight(S) <= clusters[m].total
<1>1. DOMAIN clusters = Numbers /\ Numbers \subseteq Nat
  BY DEF Clustered, Listed, IsSequence, Numbers
<1>2. S \subseteq Numbers /\ \A i, j \in S : i < j => j \in clusters[i].agree
  BY <1>1 DEF Cliques
<1>3. /\ m \in clusters[m].agree /\ clusters[m].agree \subseteq Numbers
      /\ clusters[m].total = WeightIn(clusters, clusters[m].agree)
  BY <1>2 DEF Clustered, Numbers
<1>4. S \subseteq clusters[m].agree
  <2> SUFFICES ASSUME NEW i \in S PROVE i \in clusters[m].agree
    OBVIOUS
  <2>1. m <= i /\ m \in Nat /\ i \in Nat
    BY <1>1, <1>2
  <2> QED
    BY <1>2, <1>3, <2>1
<1>5. Weight(S) <= Weight(clusters[m].agree)
  BY <1>3, <1>4, CliqueGrows
<1> QED
  BY <1>3, <1>5, WeightSame

\* The head of a level is the first of its candidates, behind the heads above it,
\* which they all agree with.
LEMMA Heading ==
  ASSUME Clustered(clusters), NEW ls, Nested(ls), NEW d \in 1..Len(ls)
  PROVE  /\ ls[d] = [list |-> ls[d].list, left |-> ls[d].left]
         /\ ls[d].list \subseteq Numbers /\ ls[d].left \subseteq ls[d].list
         /\ HeadIn(ls, d) \in ls[d].list /\ HeadIn(ls, d) \notin ls[d].left
         /\ \A x \in ls[d].list : HeadIn(ls, d) <= x
         /\ \A x \in ls[d].list : x \in clusters[HeadIn(ls, d)].agree
         /\ \A c \in 1..(d - 1) : \A x \in ls[d].list :
              HeadIn(ls, c) < x /\ x \in clusters[HeadIn(ls, c)].agree
<1>1. ls \in Seq([list : SUBSET Numbers, left : SUBSET Numbers]) /\ Len(ls) \in Nat
  BY DEF Nested
<1>2. ASSUME NEW e \in 1..Len(ls)
      PROVE  /\ ls[e] = [list |-> ls[e].list, left |-> ls[e].left]
             /\ ls[e].list \subseteq Numbers /\ ls[e].left \subseteq ls[e].list \ {HeadIn(ls, e)}
             /\ HeadIn(ls, e) \in ls[e].list
             /\ \A x \in ls[e].list : HeadIn(ls, e) <= x /\ x \in clusters[HeadIn(ls, e)].agree
  <2>1. ls[e] \in [list : SUBSET Numbers, left : SUBSET Numbers]
    BY <1>1, ElementOfSeq
  <2>2. ls[e].list # {} /\ ls[e].list \in SUBSET Nat
    BY <2>1 DEF Nested, Numbers
  <2>3. HeadIn(ls, e) \in ls[e].list /\ \A x \in ls[e].list : HeadIn(ls, e) <= x
    BY <2>2, LeastNumber DEF HeadIn
  <2> QED
    BY <2>1, <2>3 DEF Nested
<1>3. ASSUME NEW c \in 1..(d - 1), NEW x \in ls[d].list
      PROVE  HeadIn(ls, c) < x /\ x \in clusters[HeadIn(ls, c)].agree
  <2>1. c \in 1..Len(ls)
    BY <1>1
  <2>2. x \in ls[c].left
    BY DEF Nested
  <2>3. /\ ls[c].list \subseteq Numbers /\ ls[c].left \subseteq ls[c].list \ {HeadIn(ls, c)}
        /\ HeadIn(ls, c) \in ls[c].list
        /\ \A y \in ls[c].list : HeadIn(ls, c) <= y /\ y \in clusters[HeadIn(ls, c)].agree
    BY <1>2, <2>1
  <2>4. x \in ls[c].list /\ x # HeadIn(ls, c)
    BY <2>2, <2>3
  <2>5. HeadIn(ls, c) <= x /\ x \in clusters[HeadIn(ls, c)].agree
    BY <2>3, <2>4
  <2>6. HeadIn(ls, c) \in Nat /\ x \in Nat
    BY <2>3, <2>4 DEF Numbers
  <2> QED
    BY <2>4, <2>5, <2>6
<1> QED
  BY <1>2, <1>3

\* The heads down to a level agree, are different, and weigh what is added up for them.
LEMMA ChosenAgree ==
  ASSUME Clustered(clusters), Nested(levels), NEW n \in 0..Len(levels)
  PROVE  /\ Chosen(levels, n) \subseteq Numbers
         /\ \A i, j \in Chosen(levels, n) : i < j => j \in clusters[i].agree
         /\ Added(Heads(n)) = Weight(Chosen(levels, n))
<1>1. Len(levels) \in Nat /\ Listed(clusters)
  BY DEF Nested, Clustered
<1>2. ASSUME NEW c \in 1..n
      PROVE  c \in 1..Len(levels) /\ HeadIn(levels, c) \in Numbers /\ HeadIn(levels, c) \in levels[c].list
  <2>1. c \in 1..Len(levels)
    BY <1>1
  <2> QED
    BY <2>1, Heading
<1>3. ASSUME NEW c \in 1..n, NEW d \in 1..n, c < d
      PROVE  /\ HeadIn(levels, c) < HeadIn(levels, d)
             /\ HeadIn(levels, d) \in clusters[HeadIn(levels, c)].agree
  <2>1. c \in 1..(d - 1)
    BY <1>3
  <2> QED
    BY <1>2, <2>1, Heading
<1>4. Numbers \subseteq Nat
  BY DEF Numbers
<1>5. ASSUME NEW c \in 1..n, NEW d \in 1..n, HeadIn(levels, c) <= HeadIn(levels, d)
      PROVE  c <= d
  <2>1. CASE d < c
    <3>1. HeadIn(levels, d) < HeadIn(levels, c)
      BY <1>3, <2>1
    <3>2. HeadIn(levels, c) \in Nat /\ HeadIn(levels, d) \in Nat
      BY <1>2, <1>4
    <3> QED
      BY <1>5, <3>1, <3>2
  <2> QED
    BY <2>1
<1>6. ASSUME NEW i \in Chosen(levels, n), NEW j \in Chosen(levels, n), i < j
      PROVE  j \in clusters[i].agree
  <2>1. PICK c \in 1..n : i = HeadIn(levels, c)
    BY DEF Chosen
  <2>2. PICK d \in 1..n : j = HeadIn(levels, d)
    BY DEF Chosen
  <2>3. c <= d /\ c # d
    <3>1. HeadIn(levels, c) \in Nat /\ HeadIn(levels, d) \in Nat
      BY <1>2, <1>4
    <3>2. HeadIn(levels, c) < HeadIn(levels, d)
      BY <1>6, <2>1, <2>2
    <3>3. HeadIn(levels, c) <= HeadIn(levels, d) /\ HeadIn(levels, c) # HeadIn(levels, d)
      BY <3>1, <3>2
    <3> QED
      BY <1>5, <3>3
  <2> QED
    BY <1>3, <2>1, <2>2, <2>3
<1>7. Added(Heads(n)) = Weight(Chosen(levels, n))
  <2>1. Heads(n) \in [1..n -> 1..Len(clusters)] /\ \A d \in 1..n : Heads(n)[d] = HeadIn(levels, d)
    BY <1>2 DEF Heads, HeadIn, Numbers
  <2>2. ASSUME NEW c \in 1..n, NEW d \in 1..n, Heads(n)[c] = Heads(n)[d]
        PROVE  c = d
    <3>1. HeadIn(levels, c) <= HeadIn(levels, d) /\ HeadIn(levels, d) <= HeadIn(levels, c)
      BY <1>2, <1>4, <2>1, <2>2
    <3> QED
      BY <1>5, <3>1
  <2>3. Cardinality(RowsIn(clusters, Heads(n))) = WeightIn(clusters, {Heads(n)[d] : d \in 1..n})
    <3> DEFINE s == Heads(n)
    <3>1. n \in Nat /\ s \in [1..n -> 1..Len(clusters)]
      BY <1>1, <2>1
    <3>2. \A c, d \in 1..n : s[c] = s[d] => c = d
      BY <2>2
    <3> HIDE DEF s
    <3>3. Cardinality(RowsIn(clusters, s)) = WeightIn(clusters, {s[d] : d \in 1..n})
      BY <1>1, <3>1, <3>2, ListedOnce
    <3> QED
      BY <3>3 DEF s
  <2>4. {Heads(n)[d] : d \in 1..n} = Chosen(levels, n)
    BY <2>1 DEF Chosen
  <2>5. Added(Heads(n)) = Cardinality(RowsIn(clusters, Heads(n)))
    BY DEF Added, RowsOf, RowsIn
  <2> QED
    BY <2>3, <2>4, <2>5, WeightSame
<1> QED
  BY <1>2, <1>6, <1>7 DEF Chosen

\* What is added up when a level has at most one candidate left is a clique's
\* weight, and that clique has all that the search would come to there.
LEMMA LeafClique ==
  ASSUME Clustered(clusters), Nested(levels), levels # <<>>, Cardinality(Deepest.left) <= 1
  PROVE  \E T \in Cliques : /\ LeafScore = Weight(T)
                            /\ Chosen(levels, Len(levels)) \cup Deepest.left \subseteq T
<1> DEFINE D == Len(levels)
           L == levels[D].list
           R == levels[D].left
           h == HeadIn(levels, D)
           A == Chosen(levels, D - 1)
           B == Chosen(levels, D)
<1>1. D \in Nat \ {0} /\ D \in 1..D /\ Deepest = levels[D] /\ Listed(clusters)
      /\ DOMAIN clusters = Numbers /\ Numbers \subseteq Nat /\ Len(clusters) \in Nat
  <2>1. levels \in Seq([list : SUBSET Numbers, left : SUBSET Numbers])
    BY DEF Nested
  <2>2. D \in Nat /\ D # 0
    BY <2>1, EmptySeq
  <2> QED
    BY <2>2 DEF Deepest, Clustered, Listed, IsSequence, Numbers
<1>2. /\ levels[D] = [list |-> L, left |-> R]
      /\ L \subseteq Numbers /\ R \subseteq L /\ h \in L /\ h \notin R
      /\ \A x \in L : h <= x /\ x \in clusters[h].agree
      /\ \A c \in 1..(D - 1) : \A x \in L :
           HeadIn(levels, c) < x /\ x \in clusters[HeadIn(levels, c)].agree
  BY <1>1, Heading
<1>3. /\ A \subseteq Numbers /\ B \subseteq Numbers
      /\ \A i, j \in A : i < j => j \in clusters[i].agree
      /\ \A i, j \in B : i < j => j \in clusters[i].agree
      /\ Added(Heads(D - 1)) = Weight(A) /\ Added(Heads(D)) = Weight(B)
  <2>1. D - 1 \in 0..Len(levels) /\ D \in 0..Len(levels)
    BY <1>1
  <2> QED
    BY <2>1, ChosenAgree
<1>4. B = A \cup {h} /\ \A i \in A : \A x \in L : i < x /\ x \in clusters[i].agree
  BY <1>1, <1>2 DEF Chosen
<1>5. \A x, y \in R : x = y
  <2>1. IsFiniteSet(R)
    <3>1. R \in SUBSET (1..Len(clusters))
      BY <1>2 DEF Numbers
    <3> QED
      BY <1>1, <3>1, WeightFinite
  <2>2. Cardinality(R) = 0 \/ Cardinality(R) = 1
    <3>1. Cardinality(R) \in Nat /\ Cardinality(R) <= 1
      BY <1>1, <2>1, FS_CardinalityType
    <3> QED
      BY <3>1
  <2> QED
    BY <2>1, <2>2, FS_EmptySet, FS_Singleton
<1>6. \A x \in R, y \in L : x < y => y \in R
  BY <1>1 DEF Nested
<1> HIDE DEF D, L, R, h, A, B
<1>7. CASE R = L \ {h}
  <2> DEFINE T == L \cup A
  <2>1. LeafScore = Weight(L) + Weight(A)
    <3>1. Deepest = Level(Deepest.list) /\ Deepest.list = L
      BY <1>1, <1>2, <1>7 DEF Level, h, HeadIn, L
    <3> QED
      BY <1>3, <3>1 DEF LeafScore, D
  <2>2. L \cap A = {}
    BY <1>1, <1>2, <1>3, <1>4
  <2>3. Weight(T) = Weight(L) + Weight(A)
    BY <1>1, <1>2, <1>3, <2>2, WeightOfBoth, WeightSame DEF Numbers
  <2>4. ASSUME NEW i \in T, NEW j \in T, i < j
        PROVE  j \in clusters[i].agree
    <3>1. i \in Nat /\ j \in Nat
      BY <1>1, <1>2, <1>3
    <3>2. CASE i \in A
      BY <1>3, <1>4, <2>4, <3>2
    <3>3. CASE i \in L
      <4>1. j \in L
        BY <1>4, <2>4, <3>1, <3>3
      <4>2. CASE i = h
        BY <1>2, <4>1, <4>2
      <4>3. CASE i # h
        <5>1. i \in R
          BY <1>7, <3>3, <4>3
        <5>2. j \in R
          BY <1>6, <2>4, <4>1, <5>1
        <5> QED
          BY <1>5, <2>4, <3>1, <5>1, <5>2
      <4> QED
        BY <4>2, <4>3
    <3> QED
      BY <3>2, <3>3
  <2>5. T \in Cliques
    BY <1>1, <1>2, <1>3, <2>4 DEF Cliques
  <2>6. B \cup R \subseteq T
    BY <1>2, <1>4
  <2> QED
    BY <1>1, <2>1, <2>3, <2>5, <2>6 DEF B, R, D
<1>8. CASE R # L \ {h}
  <2> DEFINE M == Max(L)
             T == B \cup {M}
  <2>1. M \in L /\ \A y \in L : y <= M
    <3>1. L \in SUBSET (0..Len(clusters)) /\ L # {}
      BY <1>1, <1>2 DEF Numbers
    <3> QED
      BY <1>1, <3>1, GreatestNumber
  <2> HIDE DEF M
  <2>2. M # h /\ M \in Nat /\ h \in Nat
    <3>1. PICK x \in L : x # h
      BY <1>2, <1>8
    <3>2. h <= x /\ x <= M /\ x \in Nat /\ h \in Nat /\ M \in Nat
      BY <1>1, <1>2, <2>1
    <3> QED
      BY <3>1, <3>2
  <2>3. LeafScore = Size(M) + Weight(B)
    <3>1. Deepest # Level(Deepest.list) /\ Deepest.list = L
      BY <1>1, <1>2, <1>8 DEF Level, h, HeadIn, L
    <3> QED
      BY <1>3, <3>1 DEF LeafScore, D, M
  <2>4. M \notin B /\ M \in Numbers
    BY <1>1, <1>2, <1>3, <1>4, <2>1, <2>2
  <2>5. Weight(T) = Weight(B) + Size(M)
    <3>1. WeightIn(clusters, T) = WeightIn(clusters, B) + WeightIn(clusters, {M})
      BY <1>1, <1>3, <2>4, WeightOfBoth DEF Numbers
    <3>2. WeightIn(clusters, {M}) = Size(M)
      BY <1>1, <2>4, WeightOfOne DEF Size, Numbers
    <3> QED
      BY <3>1, <3>2, WeightSame
  <2>6. Size(M) + Weight(B) = Weight(B) + Size(M)
    <3>1. Size(M) \in Nat /\ Weight(B) \in Nat
      BY <1>1, <1>3, <2>4, CliqueGrows DEF Size, Listed, IsSequence, Numbers
    <3> QED
      BY <3>1
  <2>7. ASSUME NEW i \in T, NEW j \in T, i < j
        PROVE  j \in clusters[i].agree
    <3>1. \A x \in B : x < M /\ M \in clusters[x].agree
      BY <1>1, <1>2, <1>4, <2>1, <2>2
    <3>2. i \in Nat /\ j \in Nat
      BY <1>1, <1>3, <2>2
    <3>3. CASE i = M
      BY <2>2, <2>7, <3>1, <3>2, <3>3
    <3>4. CASE i \in B
      BY <1>3, <2>7, <3>1, <3>4
    <3> QED
      BY <3>3, <3>4
  <2>8. T \in Cliques
    BY <1>1, <1>3, <2>4, <2>7 DEF Cliques
  <2>9. R \subseteq {M}
    <3> SUFFICES ASSUME NEW y \in R, y # M PROVE FALSE
      OBVIOUS
    <3>1. y < M
      BY <1>1, <1>2, <2>1, <2>2
    <3>2. M \in R
      BY <1>6, <2>1, <3>1
    <3> QED
      BY <1>5, <3>2
  <2> QED
    BY <1>1, <2>3, <2>5, <2>6, <2>8, <2>9 DEF B, R, D
<1> QED
  BY <1>7, <1>8

\* The least of a set is the only one not beyond any other, and so is the greatest.
LEMMA LeastIs ==
  ASSUME NEW T \in SUBSET Nat, NEW m \in T, \A y \in T : m <= y
  PROVE  Min(T) = m
<1>1. Min(T) \in T /\ Min(T) <= m
  BY LeastNumber
<1>2. m <= Min(T) /\ m \in Nat /\ Min(T) \in Nat
  BY <1>1
<1> QED
  BY <1>1, <1>2

\* A number of a set that no other is beyond is its greatest.
LEMMA GreatestIs ==
  ASSUME NEW T \in SUBSET Nat, NEW m \in T, \A y \in T : y <= m
  PROVE  Max(T) = m
<1>1. T \in SUBSET (0..m) /\ m \in Nat
  OBVIOUS
<1>2. Max(T) \in T /\ m <= Max(T)
  BY <1>1, GreatestNumber
<1>3. Max(T) <= m /\ m \in Nat /\ Max(T) \in Nat
  BY <1>1, <1>2
<1> QED
  BY <1>2, <1>3

\* What is to be shown of a step that goes on with the search.
LEMMA StillSearching ==
  ASSUME Clustered(clusters), clusters' = clusters, pc' = "score",
         root' \in Nat, score' \in Nat, Nested(levels'),
         \E S \in Cliques : score' = Weight(S),
         \A S \in Cliques :
           (\E i \in S : i < root' \/ (i = root' /\ levels' = <<>>)) => Weight(S) <= score',
         levels' # <<>> =>
           /\ HeadIn(levels', 1) = root'
           /\ \A S \in Cliques : root' \in S /\ (\A i \in S : root' <= i) =>
                Weight(S) <= score' \/ \E d \in 1..Len(levels') : AheadAt(levels', S, d)
  PROVE  SearchInv'
<1>1. Cliques' = Cliques /\ \A S : Weight(S)' = Weight(S)
  BY DEF Cliques, Weight, Added, RowsOf
<1>2. Nested(levels)'
  BY DEF Nested, Numbers
<1>3. Searching'
  BY <1>1, <1>2 DEF Searching
<1>4. Clustered(clusters)' /\ ScoreIsBestClique'
  BY DEF ScoreIsBestClique
<1> QED
  BY <1>3, <1>4 DEF SearchInv

\* The clusters of a clique, and what they agree with, are numbers of clusters.
LEMMA CliqueNumbers ==
  ASSUME Clustered(clusters)
  PROVE  /\ DOMAIN clusters = Numbers /\ Numbers \subseteq Nat /\ Len(clusters) \in Nat
         /\ \A i \in Numbers : /\ i \in clusters[i].agree /\ clusters[i].agree \subseteq Numbers
                               /\ \A j \in clusters[i].agree : i <= j
         /\ \A S \in Cliques : S \subseteq Numbers /\ \A i, j \in S : i < j => j \in clusters[i].agree
<1>1. DOMAIN clusters = Numbers /\ Numbers \subseteq Nat /\ Len(clusters) \in Nat
  BY DEF Clustered, Listed, IsSequence, Numbers
<1>2. ASSUME NEW i \in Numbers
      PROVE  /\ i \in clusters[i].agree /\ clusters[i].agree \subseteq Numbers
             /\ \A j \in clusters[i].agree : i <= j
  <2>1. i \in 1..Len(clusters) /\ i \in clusters[i].agree /\ clusters[i].agree \subseteq i..Len(clusters)
    BY DEF Clustered, Numbers
  <2> QED
    BY <1>1, <2>1 DEF Numbers
<1> QED
  BY <1>1, <1>2 DEF Cliques

\* One candidate more is tried with the heads: whatever clique has it is still ahead
\* below, and whatever has it not, above.
LEMMA DescendStep ==
  ASSUME SearchInv, Descend
  PROVE  SearchInv'
<1> DEFINE D == Len(levels)
           R == levels[D].left
           m == Min(R)
           N == R \cap clusters[m].agree
<1>1. /\ Clustered(clusters) /\ Searching /\ Nested(levels) /\ levels # <<>>
      /\ Cardinality(Deepest.left) > 1 /\ levels' = Append(levels, Level(Narrowed(Deepest)))
      /\ clusters' = clusters /\ pc' = "score" /\ root' = root /\ score' = score
  BY DEF SearchInv, Descend, Searching
<1>2. /\ D \in Nat \ {0} /\ D \in 1..D /\ Deepest = levels[D]
      /\ levels \in Seq([list : SUBSET Numbers, left : SUBSET Numbers])
  <2>1. levels \in Seq([list : SUBSET Numbers, left : SUBSET Numbers])
    BY <1>1 DEF Nested
  <2>2. D \in Nat /\ D # 0
    BY <1>1, <2>1, EmptySeq
  <2> QED
    BY <2>1, <2>2 DEF Deepest
<1>3. R \subseteq Numbers /\ R # {} /\ R \subseteq levels[D].list
  <2>1. R \subseteq Numbers /\ R \subseteq levels[D].list
    BY <1>1, <1>2, Heading
  <2>2. R # {}
    <3>1. Cardinality(R) > 1
      BY <1>1, <1>2
    <3>2. Cardinality({}) = 0
      BY FS_EmptySet
    <3> HIDE DEF R
    <3> QED
      BY <3>1, <3>2
  <2> QED
    BY <2>1, <2>2
<1>4. /\ Numbers \subseteq Nat
      /\ m \in R /\ \A y \in R : m <= y
      /\ m \in N /\ N \subseteq R /\ N \subseteq clusters[m].agree /\ Min(N) = m
  <2>1. Numbers \subseteq Nat
    BY <1>1, CliqueNumbers
  <2>2. m \in R /\ \A y \in R : m <= y
    BY <1>3, <2>1, LeastNumber
  <2>3. m \in N
    BY <1>1, <1>3, <2>2, CliqueNumbers
  <2>4. Min(N) = m
    <3>1. N \in SUBSET Nat /\ \A y \in N : m <= y
      BY <1>3, <2>1, <2>2
    <3> HIDE DEF m, N
    <3> QED
      BY <2>3, <3>1, LeastIs
  <2> QED
    BY <2>1, <2>2, <2>3, <2>4
<1> HIDE DEF D, R, m, N
<1>5. levels' = Append(levels, [list |-> N, left |-> N \ {m}])
  BY <1>1, <1>2, <1>4 DEF Narrowed, Level, N, m, R
<1>6. /\ levels' \in Seq([list : SUBSET Numbers, left : SUBSET Numbers])
      /\ Len(levels') = D + 1
      /\ \A d \in 1..D : levels'[d] = levels[d]
      /\ levels'[D + 1] = [list |-> N, left |-> N \ {m}]
  <2>1. [list |-> N, left |-> N \ {m}] \in [list : SUBSET Numbers, left : SUBSET Numbers]
    BY <1>3, <1>4
  <2> QED
    BY <1>2, <1>5, <2>1, AppendProperties DEF D
<1>7. /\ \A d \in 1..D : HeadIn(levels', d) = HeadIn(levels, d)
      /\ HeadIn(levels', D + 1) = m
  BY <1>4, <1>6 DEF HeadIn
<1>8. Nested(levels')
  <2>1. ASSUME NEW d \in 1..(D + 1)
        PROVE  /\ levels'[d].list # {} /\ levels'[d].left \subseteq levels'[d].list \ {HeadIn(levels', d)}
               /\ \A x \in levels'[d].left, y \in levels'[d].list : x < y => y \in levels'[d].left
               /\ levels'[d].list \subseteq clusters[HeadIn(levels', d)].agree
               /\ \A c \in 1..(d - 1) : levels'[d].list \subseteq levels'[c].left
               /\ d < D + 1 => HeadIn(levels', d + 1) = Min(levels'[d].left)
    <3>1. CASE d = D + 1
      <4>1. levels'[d].list = N /\ levels'[d].left = N \ {m} /\ HeadIn(levels', d) = m
        BY <1>6, <1>7, <3>1
      <4>2. ASSUME NEW x \in N \ {m}, NEW y \in N, x < y
            PROVE  y \in N \ {m}
        <5>1. m <= x /\ m \in Nat /\ x \in Nat /\ y \in Nat
          BY <1>3, <1>4
        <5> QED
          BY <4>2, <5>1
      <4>3. ASSUME NEW c \in 1..D
            PROVE  N \subseteq levels'[c].left
        <5>1. levels'[c].left = levels[c].left
          BY <1>6
        <5>2. CASE c = D
          BY <1>4, <5>1, <5>2 DEF R
        <5>3. CASE c # D
          <6>1. c \in 1..(D - 1)
            BY <1>2, <5>3
          <6>2. levels[D].list \subseteq levels[c].left
            BY <1>1, <1>2, <6>1 DEF Nested, D
          <6> QED
            BY <1>3, <1>4, <5>1, <6>2
        <5> QED
          BY <5>2, <5>3
      <4>4. d - 1 = D /\ ~(d < D + 1)
        BY <1>2, <3>1
      <4> QED
        BY <1>4, <4>1, <4>2, <4>3, <4>4
    <3>2. CASE d # D + 1
      <4>1. d \in 1..D
        BY <1>2, <3>2
      <4>2. levels'[d] = levels[d] /\ HeadIn(levels', d) = HeadIn(levels, d)
        BY <1>6, <1>7, <4>1
      <4>3. /\ levels[d].list # {} /\ levels[d].left \subseteq levels[d].list \ {HeadIn(levels, d)}
            /\ \A x \in levels[d].left, y \in levels[d].list : x < y => y \in levels[d].left
            /\ levels[d].list \subseteq clusters[HeadIn(levels, d)].agree
            /\ \A c \in 1..(d - 1) : levels[d].list \subseteq levels[c].left
            /\ d < D => HeadIn(levels, d + 1) = Min(levels[d].left)
        BY <1>1, <4>1 DEF Nested, D
      <4>4. \A c \in 1..(d - 1) : levels'[c] = levels[c]
        BY <1>2, <1>6, <4>1
      <4>5. HeadIn(levels', d + 1) = Min(levels'[d].left)
        <5>1. CASE d = D
          BY <1>7, <4>2, <5>1 DEF m, R
        <5>2. CASE d # D
          <6>1. d + 1 \in 1..D /\ d < D
            BY <1>2, <4>1, <5>2
          <6> QED
            BY <1>7, <4>2, <4>3, <6>1
        <5> QED
          BY <5>1, <5>2
      <4> QED
        BY <4>2, <4>3, <4>4, <4>5
    <3> QED
      BY <3>1, <3>2
  <2> QED
    BY <1>6, <2>1 DEF Nested
<1>9. levels' # <<>> /\ HeadIn(levels', 1) = HeadIn(levels, 1)
  BY <1>2, <1>6, <1>7, EmptySeq
<1>10. ASSUME NEW S \in Cliques, NEW d \in 1..D, AheadAt(levels, S, d)
       PROVE  \E e \in 1..(D + 1) : AheadAt(levels', S, e)
  <2>1. ASSUME NEW e \in 1..D
        PROVE  e \in 1..(D + 1) /\ e # D + 1 /\ Chosen(levels', e) = Chosen(levels, e)
    BY <1>2, <1>7 DEF Chosen
  <2>2. CASE d # D
    <3>1. d + 1 \in 1..D
      BY <1>2, <2>2
    <3>2. Rest(levels', d) = Rest(levels, d)
      BY <1>6, <1>7, <2>1, <2>2, <3>1 DEF Rest, D
    <3> QED
      BY <1>10, <2>1, <3>2 DEF AheadAt
  <2>3. CASE d = D /\ m \notin S
    <3>1. Rest(levels', D) = R \ {m} /\ Rest(levels, D) = R
      BY <1>2, <1>6, <1>7, <2>1 DEF Rest, R, D
    <3>2. AheadAt(levels', S, D)
      BY <1>2, <1>10, <2>1, <2>3, <3>1 DEF AheadAt
    <3> QED
      BY <1>2, <2>1, <3>2
  <2>4. CASE d = D /\ m \in S
    <3>1. Rest(levels, D) = R /\ Rest(levels', D + 1) = N \ {m}
      BY <1>6 DEF Rest, R, D
    <3>2. Chosen(levels', D + 1) = Chosen(levels, D) \cup {m}
      <4>1. \A e : e \in 1..(D + 1) <=> e \in 1..D \/ e = D + 1
        BY <1>2
      <4> QED
        BY <1>7, <4>1 DEF Chosen
    <3>3. S \cap R \subseteq N
      <4> SUFFICES ASSUME NEW x \in S, x \in R PROVE x \in clusters[m].agree
        BY DEF N
      <4>1. m <= x /\ m \in Nat /\ x \in Nat
        BY <1>3, <1>4
      <4>2. CASE x = m
        BY <1>4, <4>2
      <4>3. CASE x # m
        <5>1. m < x
          BY <4>1, <4>3
        <5> QED
          BY <1>1, <2>4, <5>1, CliqueNumbers
      <4> QED
        BY <4>2, <4>3
    <3>4. AheadAt(levels', S, D + 1)
      BY <1>10, <2>4, <3>1, <3>2, <3>3 DEF AheadAt
    <3> QED
      BY <1>2, <3>4
  <2> QED
    BY <2>2, <2>3, <2>4
<1>11. /\ root \in Nat /\ score \in Nat /\ HeadIn(levels, 1) = root
       /\ \E S \in Cliques : score = Weight(S)
       /\ \A S \in Cliques : (\E i \in S : i < root) => Weight(S) <= score
       /\ \A S \in Cliques : root \in S /\ (\A i \in S : root <= i) =>
            Weight(S) <= score \/ \E d \in 1..D : AheadAt(levels, S, d)
  BY <1>1 DEF Searching, D
<1>12. \A S \in Cliques : root \in S /\ (\A i \in S : root <= i) =>
         Weight(S) <= score \/ \E e \in 1..(D + 1) : AheadAt(levels', S, e)
  BY <1>10, <1>11
<1> QED
  BY <1>1, <1>6, <1>8, <1>9, <1>11, <1>12, StillSearching

\* What the last candidate gave is counted and it goes: no clique that was ahead
\* there has more rows.
LEMMA LeafStep ==
  ASSUME SearchInv, Leaf
  PROVE  SearchInv'
<1> DEFINE D == Len(levels)
           h == HeadIn(levels, D)
           best == Max({score, LeafScore})
<1>1. /\ Clustered(clusters) /\ Searching /\ Nested(levels) /\ levels # <<>>
      /\ Cardinality(Deepest.left) <= 1 /\ score' = best
      /\ clusters' = clusters /\ pc' = "score" /\ root' = root
  BY DEF SearchInv, Leaf, Searching
<1>2. /\ D \in Nat \ {0} /\ D \in 1..D /\ Deepest = levels[D]
      /\ levels \in Seq([list : SUBSET Numbers, left : SUBSET Numbers])
  <2>1. levels \in Seq([list : SUBSET Numbers, left : SUBSET Numbers])
    BY <1>1 DEF Nested
  <2>2. D \in Nat /\ D # 0
    BY <1>1, <2>1, EmptySeq
  <2> QED
    BY <2>1, <2>2 DEF Deepest
<1>3. levels' = [d \in 1..(D - 1) |->
                   IF d = D - 1 THEN [levels[d] EXCEPT !.left = @ \ {Min(@)}] ELSE levels[d]]
  BY DEF Leaf
<1>4. /\ root \in Nat /\ score \in Nat /\ HeadIn(levels, 1) = root
      /\ \E S \in Cliques : score = Weight(S)
      /\ \A S \in Cliques : (\E i \in S : i < root) => Weight(S) <= score
      /\ \A S \in Cliques : root \in S /\ (\A i \in S : root <= i) =>
           Weight(S) <= score \/ \E d \in 1..D : AheadAt(levels, S, d)
  BY <1>1 DEF Searching
<1>5. PICK T \in Cliques : LeafScore = Weight(T) /\ Chosen(levels, D) \cup levels[D].left \subseteq T
  BY <1>1, <1>2, LeafClique
<1>6. \A S \in Cliques : Weight(S) \in Nat
  <2> SUFFICES ASSUME NEW S \in Cliques PROVE Weight(S) \in Nat
    OBVIOUS
  <2>1. S \in SUBSET Numbers
    BY <1>1, CliqueNumbers
  <2> QED
    BY <1>1, <2>1, CliqueGrows
<1>7. best \in {score, LeafScore} /\ score <= best /\ LeafScore <= best
  <2>1. LeafScore \in Nat
    BY <1>5, <1>6
  <2>2. {score, LeafScore} \in SUBSET (0..(score + LeafScore)) /\ score + LeafScore \in Nat
    BY <1>4, <2>1
  <2> QED
    BY <2>2, GreatestNumber
<1> HIDE DEF D, h, best
<1>8. best \in Nat /\ \E S \in Cliques : best = Weight(S)
  BY <1>4, <1>5, <1>6, <1>7
<1>9. ASSUME NEW S \in Cliques, Weight(S) <= score \/ Weight(S) <= LeafScore
      PROVE  Weight(S) <= best
  <2>1. Weight(S) \in Nat /\ LeafScore \in Nat
    BY <1>5, <1>6
  <2> QED
    BY <1>4, <1>7, <1>8, <1>9, <2>1
<1>10. ASSUME NEW S \in Cliques, AheadAt(levels, S, D)
       PROVE  Weight(S) <= best
  <2>1. Rest(levels, D) = levels[D].left
    BY DEF Rest, D
  <2>2. S \subseteq T /\ T \in SUBSET Numbers
    BY <1>1, <1>5, <1>10, <2>1, CliqueNumbers DEF AheadAt
  <2>3. Weight(S) <= LeafScore
    BY <1>1, <1>5, <2>2, CliqueGrows
  <2> QED
    BY <1>9, <2>3
<1>11. /\ levels' \in Seq([list : SUBSET Numbers, left : SUBSET Numbers]) /\ Len(levels') = D - 1
       /\ \A d \in 1..(D - 1) :
            /\ levels'[d].list = levels[d].list
            /\ d # D - 1 => levels'[d].left = levels[d].left
            /\ d = D - 1 => levels'[d].left = levels[d].left \ {h}
  <2>1. ASSUME NEW d \in 1..(D - 1)
        PROVE  /\ levels'[d] \in [list : SUBSET Numbers, left : SUBSET Numbers]
               /\ levels'[d].list = levels[d].list
               /\ d # D - 1 => levels'[d].left = levels[d].left
               /\ d = D - 1 => levels'[d].left = levels[d].left \ {h}
    <3>1. d \in 1..D
      BY <1>2
    <3>2. levels[d] \in [list : SUBSET Numbers, left : SUBSET Numbers]
      BY <1>2, <3>1, ElementOfSeq DEF D
    <3>3. CASE d # D - 1
      BY <1>3, <3>2, <3>3
    <3>4. CASE d = D - 1
      <4>1. levels'[d] = [levels[d] EXCEPT !.left = levels[d].left \ {Min(levels[d].left)}]
        BY <1>3, <3>4
      <4>2. h = Min(levels[d].left)
        <5>1. d < D /\ d + 1 = D
          BY <1>2, <3>4
        <5>2. HeadIn(levels, d + 1) = Min(levels[d].left)
          BY <1>1, <3>1, <5>1 DEF Nested, D
        <5> QED
          BY <5>1, <5>2 DEF h
      <4> QED
        BY <3>2, <3>4, <4>1, <4>2
    <3> QED
      BY <3>3, <3>4
  <2>2. D - 1 \in Nat /\ levels' = [d \in 1..(D - 1) |-> levels'[d]]
    BY <1>2, <1>3
  <2>3. levels' \in Seq([list : SUBSET Numbers, left : SUBSET Numbers])
    <3> DEFINE V == [list : SUBSET Numbers, left : SUBSET Numbers]
    <3>1. \A d \in 1..(D - 1) : levels'[d] \in V
      BY <2>1
    <3> HIDE DEF V
    <3>2. levels' \in [1..(D - 1) -> V]
      BY <2>2, <3>1
    <3>3. levels' \in Seq(V)
      BY <2>2, <3>2
    <3> QED
      BY <3>3 DEF V
  <2>4. Len(levels') = D - 1
    BY <2>2, MadeSequence
  <2> QED
    BY <2>1, <2>3, <2>4
<1>12. \A d \in 1..(D - 1) : HeadIn(levels', d) = HeadIn(levels, d) /\ Rest(levels', d) = Rest(levels, d)
  <2>1. \A d \in 1..(D - 1) : HeadIn(levels', d) = HeadIn(levels, d)
    BY <1>11 DEF HeadIn
  <2>2. ASSUME NEW d \in 1..(D - 1)
        PROVE  Rest(levels', d) = Rest(levels, d)
    <3>1. Rest(levels, d) = levels[d].left \ {HeadIn(levels, d + 1)}
      BY <1>2 DEF Rest, D
    <3>2. CASE d = D - 1
      <4>1. d + 1 = D
        BY <1>2, <3>2
      <4> QED
        BY <1>11, <3>1, <3>2, <4>1 DEF Rest, h
    <3>3. CASE d # D - 1
      <4>1. d + 1 \in 1..(D - 1)
        BY <1>2, <3>3
      <4> QED
        BY <1>11, <2>1, <3>1, <3>3, <4>1 DEF Rest
    <3> QED
      BY <3>2, <3>3
  <2> QED
    BY <2>1, <2>2
<1>13. Nested(levels')
  <2>1. ASSUME NEW d \in 1..(D - 1)
        PROVE  /\ levels'[d].list # {} /\ levels'[d].left \subseteq levels'[d].list \ {HeadIn(levels', d)}
               /\ \A x \in levels'[d].left, y \in levels'[d].list : x < y => y \in levels'[d].left
               /\ levels'[d].list \subseteq clusters[HeadIn(levels', d)].agree
               /\ \A c \in 1..(d - 1) : levels'[d].list \subseteq levels'[c].left
               /\ d < D - 1 => HeadIn(levels', d + 1) = Min(levels'[d].left)
    <3>1. d \in 1..D /\ d < D
      BY <1>2
    <3>2. /\ levels[d].list # {} /\ levels[d].left \subseteq levels[d].list \ {HeadIn(levels, d)}
          /\ \A x \in levels[d].left, y \in levels[d].list : x < y => y \in levels[d].left
          /\ levels[d].list \subseteq clusters[HeadIn(levels, d)].agree
          /\ \A c \in 1..(d - 1) : levels[d].list \subseteq levels[c].left
          /\ HeadIn(levels, d + 1) = Min(levels[d].left)
          /\ levels[d].list \subseteq Numbers
      <4>1. levels[d].list \subseteq Numbers
        BY <1>1, <3>1, Heading DEF D
      <4> QED
        BY <1>1, <3>1, <4>1 DEF Nested, D
    <3>3. levels'[d].list = levels[d].list /\ HeadIn(levels', d) = HeadIn(levels, d)
          /\ levels'[d].left \subseteq levels[d].left
      BY <1>11, <1>12
    <3>4. ASSUME NEW x \in levels'[d].left, NEW y \in levels'[d].list, x < y
          PROVE  y \in levels'[d].left
      <4>1. x \in levels[d].left /\ y \in levels[d].list
        BY <3>3
      <4>2. y \in levels[d].left
        BY <3>2, <3>4, <4>1
      <4>3. CASE d # D - 1
        BY <1>11, <4>2, <4>3
      <4>4. CASE d = D - 1
        <5>1. h = Min(levels[d].left)
          BY <1>2, <3>2, <4>4 DEF h
        <5>2. levels[d].left \in SUBSET Nat
          BY <3>2 DEF Numbers
        <5>3. h <= x /\ h \in Nat /\ x \in Nat /\ y \in Nat
          BY <4>1, <4>2, <5>1, <5>2, LeastNumber
        <5>4. y # h
          BY <3>4, <5>3
        <5> QED
          BY <1>11, <4>2, <4>4, <5>4
      <4> QED
        BY <4>3, <4>4
    <3>5. ASSUME NEW c \in 1..(d - 1)
          PROVE  levels'[d].list \subseteq levels'[c].left
      <4>1. c \in 1..(D - 1) /\ c # D - 1
        BY <1>2, <3>1
      <4> QED
        BY <1>11, <3>2, <3>3, <4>1
    <3>6. ASSUME d < D - 1
          PROVE  HeadIn(levels', d + 1) = Min(levels'[d].left)
      <4>1. d + 1 \in 1..(D - 1) /\ d # D - 1
        BY <1>2, <3>6
      <4> QED
        BY <1>11, <1>12, <3>2, <4>1
    <3> QED
      BY <3>2, <3>3, <3>4, <3>5, <3>6
  <2> QED
    BY <1>11, <2>1 DEF Nested
<1>14. ASSUME NEW S \in Cliques, root \in S, \A i \in S : root <= i
       PROVE  Weight(S) <= best \/ \E d \in 1..(D - 1) : AheadAt(levels', S, d)
  <2>1. CASE Weight(S) <= score
    BY <1>9, <2>1
  <2>2. CASE AheadAt(levels, S, D)
    BY <1>10, <2>2
  <2>3. ASSUME NEW d \in 1..D, d # D, AheadAt(levels, S, d)
        PROVE  d \in 1..(D - 1) /\ AheadAt(levels', S, d)
    <3>1. d \in 1..(D - 1) /\ \A c \in 1..d : c \in 1..(D - 1)
      BY <1>2, <2>3
    <3>2. Chosen(levels', d) = Chosen(levels, d) /\ Rest(levels', d) = Rest(levels, d)
      BY <1>12, <3>1 DEF Chosen
    <3> QED
      BY <2>3, <3>1, <3>2 DEF AheadAt
  <2> QED
    BY <1>4, <1>14, <2>1, <2>2, <2>3
<1>15. ASSUME NEW S \in Cliques, NEW i \in S, i < root \/ (i = root /\ levels' = <<>>)
       PROVE  Weight(S) <= best
  <2>1. CASE \E j \in S : j < root
    BY <1>4, <1>9, <2>1
  <2>2. CASE \A j \in S : ~(j < root)
    <3>1. i = root /\ levels' = <<>>
      BY <1>15, <2>2
    <3>2. 1..(D - 1) = {}
      BY <1>2, <1>11, <3>1, EmptySeq
    <3>3. \A j \in S : root <= j
      <4>1. S \subseteq Nat
        BY <1>1, CliqueNumbers
      <4> QED
        BY <1>4, <2>2, <4>1
    <3> QED
      BY <1>14, <3>1, <3>2, <3>3
  <2> QED
    BY <2>1, <2>2
<1>16. levels' # <<>> => HeadIn(levels', 1) = root
  <2> SUFFICES ASSUME levels' # <<>> PROVE 1 \in 1..(D - 1)
    BY <1>4, <1>12
  <2>1. Len(levels') # 0
    BY <1>11, EmptySeq
  <2> QED
    BY <1>2, <1>11, <2>1
<1> QED
  BY <1>1, <1>4, <1>8, <1>11, <1>13, <1>14, <1>15, <1>16, StillSearching

\* The next root: what begins before it, or at no other, is beaten already; when no
\* root promises more, the score is the best.
LEMMA RootStep ==
  ASSUME SearchInv, Root
  PROVE  SearchInv'
<1> DEFINE promising == {i \in DOMAIN clusters : i > root /\ score < clusters[i].total}
           m == Min(promising)
           A == clusters[m].agree
<1>1. /\ Clustered(clusters) /\ Searching /\ levels = <<>> /\ root \in Nat /\ score \in Nat
      /\ clusters' = clusters /\ score' = score /\ pc = "score"
  BY DEF SearchInv, Root, Searching
<1>2. /\ DOMAIN clusters = Numbers /\ Numbers \subseteq Nat
      /\ \A S \in Cliques : S \subseteq Numbers /\ \A i, j \in S : i < j => j \in clusters[i].agree
      /\ \A i \in Numbers : /\ i \in clusters[i].agree /\ clusters[i].agree \subseteq Numbers
                            /\ \A j \in clusters[i].agree : i <= j
  BY <1>1, CliqueNumbers
<1>3. /\ \E S \in Cliques : score = Weight(S)
      /\ \A S \in Cliques : (\E i \in S : i <= root) => Weight(S) <= score
  <2>1. ASSUME NEW S \in Cliques, NEW i \in S, i <= root
        PROVE  i < root \/ i = root
    BY <1>1, <1>2, <2>1
  <2> QED
    BY <1>1, <2>1 DEF Searching
<1>4. ASSUME NEW S \in Cliques, NEW l \in S, \A i \in S : l <= i, l \notin promising
      PROVE  Weight(S) <= score
  <2>1. l \in Numbers /\ l \in Nat
    BY <1>2
  <2>2. CASE l <= root
    BY <1>3, <2>2
  <2>3. CASE ~(l <= root)
    <3>1. Weight(S) <= clusters[l].total
      BY <1>1, <1>4, CliqueUnderTotal
    <3>2. ~(score < clusters[l].total)
      BY <1>1, <1>2, <1>4, <2>1, <2>3
    <3>3. Weight(S) \in Nat /\ clusters[l].total \in Nat
      <4>1. clusters[l].agree \in SUBSET Numbers /\ S \in SUBSET Numbers
        BY <1>2, <2>1
      <4>2. clusters[l].total = Weight(clusters[l].agree)
        BY <1>1, <2>1, WeightSame DEF Clustered, Numbers
      <4> QED
        BY <1>1, <4>1, <4>2, CliqueGrows
    <3> QED
      BY <1>1, <3>1, <3>2, <3>3
  <2> QED
    BY <2>2, <2>3
<1>5. CASE promising = {}
  <2>1. pc' = "done" /\ levels' = levels /\ root' = root
    BY <1>5 DEF Root
  <2>2. ASSUME NEW S \in Cliques
        PROVE  Weight(S) \in Nat /\ Weight(S) <= score
    <3>1. S \in SUBSET Numbers
      BY <1>2
    <3>2. Weight(S) \in Nat
      BY <1>1, <3>1, CliqueGrows
    <3>3. CASE S = {}
      <4>1. PICK T \in Cliques : score = Weight(T)
        BY <1>3
      <4>2. T \in SUBSET Numbers /\ S \in SUBSET T
        BY <1>2, <3>3
      <4> QED
        BY <1>1, <3>2, <4>1, <4>2, CliqueGrows
    <3>4. CASE S # {}
      <4>1. S \in SUBSET Nat
        BY <1>2, <3>1
      <4>2. Min(S) \in S /\ \A i \in S : Min(S) <= i
        BY <3>4, <4>1, LeastNumber
      <4> QED
        BY <1>4, <1>5, <3>2, <4>2
    <3> QED
      BY <3>2, <3>3, <3>4
  <2>3. score = BestClique
    <3> DEFINE W == {Weight(S) : S \in Cliques}
    <3>1. W \in SUBSET Nat /\ score \in W /\ \A y \in W : y <= score
      BY <1>3, <2>2
    <3> HIDE DEF W
    <3>2. Max(W) = score
      BY <3>1, GreatestIs
    <3> QED
      BY <3>2 DEF BestClique, W
  <2>4. BestClique' = BestClique
    BY <1>1 DEF BestClique, Cliques, Weight, Added, RowsOf
  <2>5. ScoreIsBestClique'
    BY <1>1, <2>3, <2>4 DEF ScoreIsBestClique
  <2>6. Clustered(clusters)'
    BY <1>1
  <2> QED
    BY <2>1, <2>5, <2>6 DEF SearchInv
<1>6. CASE promising # {}
  <2>1. root' = m /\ levels' = <<Level(A)>> /\ pc' = "score"
    BY <1>1, <1>6 DEF Root
  <2>2. m \in promising /\ \A y \in promising : m <= y
    <3>1. promising \in SUBSET Nat
      BY <1>2
    <3> HIDE DEF promising
    <3> QED
      BY <1>6, <3>1, LeastNumber
  <2>3. m \in Numbers /\ m \in Nat /\ m > root
    BY <1>2, <2>2
  <2> HIDE DEF m
  <2>4. A \subseteq Numbers /\ m \in A /\ Min(A) = m
    <3>1. A \in SUBSET Nat /\ m \in A /\ \A y \in A : m <= y
      BY <1>2, <2>3
    <3> HIDE DEF A
    <3>2. Min(A) = m
      BY <3>1, LeastIs
    <3> QED
      BY <1>2, <2>3, <3>1, <3>2 DEF A
  <2>5. /\ Len(levels') = 1 /\ levels' # <<>>
        /\ levels'[1].list = A /\ levels'[1].left = A \ {m} /\ HeadIn(levels', 1) = m
    BY <2>1, <2>4 DEF Level, HeadIn
  <2>6. Nested(levels')
    <3>1. levels' \in Seq([list : SUBSET Numbers, left : SUBSET Numbers])
      <4>1. Level(A) \in [list : SUBSET Numbers, left : SUBSET Numbers]
        BY <2>4 DEF Level
      <4> QED
        BY <2>1, <4>1
    <3>2. ASSUME NEW x \in A \ {m}, NEW y \in A, x < y
          PROVE  y \in A \ {m}
      <4>1. m <= x /\ x \in Nat /\ y \in Nat /\ m \in Nat
        BY <1>2, <2>3, <2>4
      <4> QED
        BY <3>2, <4>1
    <3>3. ASSUME NEW d \in 1..1
          PROVE  d = 1 /\ 1..(d - 1) = {} /\ ~(d < 1)
      OBVIOUS
    <3> QED
      BY <2>4, <2>5, <3>1, <3>2, <3>3 DEF Nested
  <2>7. ASSUME NEW S \in Cliques, NEW i \in S, i < m
        PROVE  Weight(S) <= score
    <3>1. S \in SUBSET Nat /\ S # {}
      BY <1>2
    <3>2. Min(S) \in S /\ \A j \in S : Min(S) <= j
      BY <3>1, LeastNumber
    <3>3. Min(S) \in Nat /\ i \in Nat /\ Min(S) <= i
      BY <3>1, <3>2
    <3>4. Min(S) \notin promising
      BY <2>2, <2>3, <2>7, <3>3
    <3> QED
      BY <1>4, <3>2, <3>4
  <2>8. ASSUME NEW S \in Cliques, m \in S, \A i \in S : m <= i
        PROVE  AheadAt(levels', S, 1)
    <3>1. Chosen(levels', 1) = {m} /\ Rest(levels', 1) = A \ {m}
      BY <2>5 DEF Chosen, Rest
    <3>2. S \subseteq A
      <4> SUFFICES ASSUME NEW i \in S PROVE i \in A
        OBVIOUS
      <4>1. i \in Nat /\ m <= i
        BY <1>2, <2>8
      <4> QED
        BY <1>2, <2>3, <2>4, <2>8, <4>1
    <3> QED
      BY <2>8, <3>1, <3>2 DEF AheadAt
  <2>9. \A S \in Cliques :
          (\E i \in S : i < root' \/ (i = root' /\ levels' = <<>>)) => Weight(S) <= score'
    BY <1>1, <2>1, <2>5, <2>7
  <2>10. /\ HeadIn(levels', 1) = root'
         /\ \A S \in Cliques : root' \in S /\ (\A i \in S : root' <= i) =>
              \E d \in 1..Len(levels') : AheadAt(levels', S, d)
    <3>1. 1 \in 1..Len(levels')
      BY <2>5
    <3> QED
      BY <2>1, <2>5, <2>8, <3>1
  <2> QED
    BY <1>1, <1>3, <2>1, <2>3, <2>6, <2>9, <2>10, StillSearching
<1> QED
  BY <1>5, <1>6

\* Every step keeps the search in order.
LEMMA SearchStep ==
  ASSUME ClusterInv, SearchInv, [Next]_vars
  PROVE  SearchInv'
<1>1. CASE NextSeed \/ StartPath \/ Grow \/ SiftRow \/ Settle \/ Turn \/ Carry \/ Advance \/ EndSeed \/ NoSeed
  BY <1>1, ClusteringStep
<1>2. CASE Low
  <2>1. pc' = "done" /\ clusters' = clusters /\ Clustered(clusters) /\ MatchScore < MinScore
    BY <1>2 DEF Low, SearchInv
  <2>2. MatchScore' = MatchScore
    BY <2>1 DEF MatchScore
  <2>3. ~(MatchScore >= MinScore)
    <3> DEFINE w == Weight(Numbers)
               T == {clusters[i].total : i \in DOMAIN clusters} \cup {0}
    <3>1. w \in Nat /\ T \in SUBSET (0..w) /\ T \in SUBSET Nat /\ T # {}
      <4>1. w \in Nat /\ DOMAIN clusters = Numbers
        BY <2>1, CliqueGrows, CliqueNumbers
      <4>2. ASSUME NEW i \in Numbers
            PROVE  clusters[i].total \in 0..w
        <5>1. clusters[i].agree \in SUBSET Numbers
          BY <2>1, CliqueNumbers
        <5>2. clusters[i].total = Weight(clusters[i].agree)
          BY <2>1, WeightSame DEF Clustered, Numbers
        <5> QED
          BY <2>1, <5>1, <5>2, CliqueGrows
      <4>3. 0 \in 0..w
        BY <4>1
      <4> QED
        BY <4>1, <4>2, <4>3
    <3>2. MatchScore \in Nat
      <4> HIDE DEF w, T
      <4>1. Max(T) \in T
        BY <3>1, GreatestNumber
      <4>2. Max(T) \in Nat
        BY <3>1, <4>1
      <4> QED
        BY <4>2 DEF MatchScore, T
    <3>3. MinScore \in Nat
      BY BozorthAssumption
    <3> QED
      BY <2>1, <3>2, <3>3
  <2> QED
    BY <2>1, <2>2, <2>3 DEF SearchInv, ScoreIsBestClique
<1>3. CASE Root
  BY <1>3, RootStep
<1>4. CASE Descend
  BY <1>4, DescendStep
<1>5. CASE Leaf
  BY <1>5, LeafStep
<1>6. CASE Done \/ UNCHANGED vars
  <2>1. /\ pc' = pc /\ clusters' = clusters /\ levels' = levels /\ root' = root /\ score' = score
    BY <1>6 DEF Done, vars
  <2>2. Cliques' = Cliques /\ \A S : Weight(S)' = Weight(S)
    BY <2>1 DEF Cliques, Weight, Added, RowsOf
  <2>3. Searching' = Searching
    BY <2>1, <2>2 DEF Searching, Nested, Numbers
  <2>4. ScoreIsBestClique' = ScoreIsBestClique
    BY <2>1, <2>2 DEF ScoreIsBestClique, BestClique, MatchScore
  <2> QED
    BY <2>1, <2>3, <2>4 DEF SearchInv
<1> QED
  BY <1>1, <1>2, <1>3, <1>4, <1>5, <1>6 DEF Next

\* Whatever the table and the limits, the search is always in order.
THEOREM SearchIsInOrder == Spec => []SearchInv
<1>1. Init => SearchInv
  BY InitSearch
<1>2. ClusterInv /\ SearchInv /\ [Next]_vars => SearchInv'
  BY SearchStep
<1> QED
  BY <1>1, <1>2, ClusterIsOwed, PTL DEF Spec

\* The score is the most rows of clusters that agree with each other, whatever the
\* search leaves out (the final loop, cluster.rs:725-818).
THEOREM ScoreIsBest == Spec => []ScoreIsBestClique
<1>1. SearchInv => ScoreIsBestClique
  BY DEF SearchInv
<1> QED
  BY <1>1, SearchIsInOrder, PTL

=============================================================================
