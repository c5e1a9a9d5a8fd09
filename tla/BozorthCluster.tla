--------------------------- MODULE BozorthCluster ---------------------------
(***************************************************************************)
(* The clustering of the fingerprint matcher                               *)
(* (src/crates/fprint-bozorth3/src/cluster.rs).  Each row of the sorted    *)
(* compatibility table lays an edge between two minutiae of the probe over *)
(* an edge of the gallery.  From each seed row a path of rows is grown     *)
(* that pair the endpoints consistently; where two rows disagree, the      *)
(* alternatives are kept as a group and an odometer tries their            *)
(* combinations.  Paths that are long enough become clusters, and the      *)
(* score is the most edges that clusters agreeing with each other have.    *)
(*                                                                         *)
(* Whether two clusters agree in rotation, distance and direction is left  *)
(* open; that they share no endpoint is not.                               *)
(***************************************************************************)
EXTENDS Integers, FiniteSets, SequencesExt

CONSTANTS
  Probe, Gallery,  \* the minutiae, as 1..n
  Tables,          \* the compatibility tables: sorted sequences of rows
  MinPath,         \* MSTR
  MinScore,        \* MMSTR
  MaxGroups,       \* WWIM
  QueueSize,       \* QQ_SIZE
  MaxClusters      \* 2000

ASSUME BozorthAssumption ==
  /\ Probe \subseteq Nat \ {0} /\ Gallery \subseteq Nat \ {0}
  /\ Tables \subseteq Seq([k : Probe, j : Probe, a : Gallery, b : Gallery, rot : Int])
  /\ {MinPath, MinScore, MaxGroups, QueueSize, MaxClusters} \subseteq Nat \ {0}

VARIABLES
  pc, table, seed,
  stamp,    \* ftt: the number of the path
  walk,     \* the work arrays of the path
  ahead,    \* the rows of the endpoint at hand whose first, and whose second end is to be sifted
  at,       \* j: the place in the queue
  turned,   \* dw: how many groups the odometer had set
  dial,     \* the odometer's group
  clusters, \* their rows, and the later clusters that agree with each
  root,     \* ii: the cluster whose cliques the final loop adds up
  levels,   \* sct, y, cp: the depths of its search
  score

vars == <<pc, table, seed, stamp, walk, ahead, at, turned, dial, clusters, root, levels, score>>

Overflow == QueueSize
Rows == DOMAIN table
Row(x) == table[x]
Zero(S) == [e \in S |-> 0]
NoRows == [first |-> {}, second |-> {}]

Init ==
  /\ pc = "seed"
  /\ table \in Tables
  /\ seed = 0 /\ stamp = 0 /\ at = 0 /\ turned = 0 /\ dial = 0 /\ score = 0
  /\ root = 0 /\ levels = <<>>
  /\ walk = [tq |-> Zero(Probe), rq |-> Zero(Gallery),   \* the pairing and its inverse
             sc |-> Zero(Rows), rk |-> Zero(Rows),       \* each row's stamp, and the one before
             seen |-> {},                                \* zz: what was put into the queue
             path |-> <<>>, queue |-> <<>>,              \* y, qq
             groups |-> <<>>,
             cp |-> Zero(Probe), rp |-> Zero(Gallery),   \* an endpoint's group
             over |-> FALSE]
  /\ ahead = NoRows
  /\ clusters = <<>>

-----------------------------------------------------------------------------
(* One row joins the path, or is put down as an alternative.               *)

Stamped(w, x) ==
  IF w.sc[x] = stamp THEN w
  ELSE [w EXCEPT !.path = Append(@, x), !.rk[x] = w.sc[x], !.sc[x] = stamp]

Queued(w, e) ==
  IF Len(w.queue) >= QueueSize THEN [w EXCEPT !.over = TRUE]
  ELSE [w EXCEPT !.queue = Append(@, e), !.seen = @ \cup {e}]

Paired(w, e, l) == [w EXCEPT !.tq[e] = l, !.rq[l] = e]

Group(side, end, first) == [side |-> side, end |-> end, alts |-> <<first>>, pick |-> 1, set |-> 0]

\* The alternatives of a probe endpoint, the first of which is its pairing.
OfferProbe(w, e, l) ==
  IF w.tq[e] = 0 THEN w
  ELSE LET v == IF w.cp[e] # 0 THEN w
                ELSE [w EXCEPT !.groups = Append(@, Group("probe", e, w.tq[e])),
                               !.cp[e] = Len(w.groups) + 1]
       IN IF Contains(v.groups[v.cp[e]].alts, l) THEN v
          ELSE [v EXCEPT !.groups[v.cp[e]].alts = Append(@, l)]

OfferGallery(w, e, l) ==
  IF w.rq[l] = 0 THEN w
  ELSE LET v == IF w.rp[l] # 0 THEN w
                ELSE [w EXCEPT !.groups = Append(@, Group("gallery", l, w.rq[l])),
                               !.rp[l] = Len(w.groups) + 1]
       IN IF Contains(v.groups[v.rp[l]].alts, e) THEN v
          ELSE [v EXCEPT !.groups[v.rp[l]].alts = Append(@, e)]

\* mutant
ProbeEndFree(w, e, l) == w.tq[e] = 0

FreeEnds(w, e, l) == w.tq[e] = 0 /\ w.rq[l] = 0

\* e and l are the row's far ends.  The test of `seen` is by the row's number,
\* as in the reference implementation.
Sift(w, x, e, l) ==
  CASE FreeEnds(w, e, l) ->
         LET v == Queued(Stamped(w, x), e) IN IF v.over THEN v ELSE Paired(v, e, l)
    [] w.tq[e] = l ->
         IF w.sc[x] = stamp THEN w
         ELSE LET v == IF x \in w.seen THEN w ELSE Queued(w, e) IN
              IF v.over THEN v ELSE Stamped(v, x)
    [] OTHER ->
         IF Len(w.groups) >= MaxGroups THEN w
         ELSE LET v == OfferProbe(w, e, l) IN
              IF w.rq[l] = 0 THEN v ELSE OfferGallery(v, e, l)

SiftFirst(w, x) == Sift(w, x, Row(x).k, Row(x).a)
SiftSecond(w, x) == Sift(w, x, Row(x).j, Row(x).b)

\* The rows of one endpoint, in their order: by their first end, then by their second.
SiftRow ==
  /\ pc = "grow"
  /\ \/ \E x \in ahead.first :
          /\ \A y \in ahead.first : x <= y
          /\ walk' = SiftFirst(walk, x)
          /\ ahead' = [ahead EXCEPT !.first = @ \ {x}]
     \/ /\ ahead.first = {}
        /\ \E x \in ahead.second :
             /\ \A y \in ahead.second : x <= y
             /\ walk' = SiftSecond(walk, x)
             /\ ahead' = [ahead EXCEPT !.second = @ \ {x}]
  /\ IF walk'.over THEN pc' = "done" /\ score' = Overflow ELSE UNCHANGED <<pc, score>>
  /\ UNCHANGED <<table, seed, stamp, at, turned, dial, clusters, root, levels>>

-----------------------------------------------------------------------------
(* The path of a seed.                                                     *)

\* The next row that no path has.
NextSeed ==
  /\ pc = "seed"
  /\ \E x \in Rows :
       /\ seed < x /\ x < Len(table) /\ walk.sc[x] = 0
       /\ \A y \in (seed + 1)..(x - 1) : walk.sc[y] # 0
       /\ seed' = x
       /\ walk' = [Paired(walk, Row(x).k, Row(x).a) EXCEPT !.groups = <<>>]
  /\ turned' = 0
  /\ pc' = "path"
  /\ UNCHANGED <<table, stamp, ahead, at, dial, clusters, root, levels, score>>

SameStart(x, y) == Row(x).k = Row(y).k /\ Row(x).a = Row(y).a
\* The rows from the seed on that begin as it does.
FirstRun == {x \in Rows : x >= seed /\ SameStart(x, seed)}

StartPath ==
  /\ pc = "path"
  /\ stamp' = stamp + 1
  /\ walk' = [walk EXCEPT !.path = <<>>, !.queue = <<Row(seed).k>>]
  /\ ahead' = [NoRows EXCEPT !.second = FirstRun]
  /\ at' = 1
  /\ pc' = "grow"
  /\ UNCHANGED <<table, seed, turned, dial, clusters, root, levels, score>>

\* The rows after the first run that end at the pair, and those that begin at it.
Incoming(e, l) == {x \in Rows :
  /\ x > seed /\ ~SameStart(x, seed)
  /\ Row(x).j = e /\ Row(x).b = l
  /\ Row(x).k # Row(seed).k /\ Row(x).a # Row(seed).a}
Outgoing(e, l) == {x \in Rows : Row(x).k = e /\ Row(x).a = l}

Grow ==
  /\ pc = "grow" /\ ahead = NoRows /\ at < Len(walk.queue)
  /\ LET e == walk.queue[at + 1]
         l == walk.tq[e]
     IN ahead' = [first |-> Incoming(e, l), second |-> Outgoing(e, l)]
  /\ at' = at + 1
  /\ UNCHANGED <<pc, table, seed, stamp, walk, turned, dial, clusters, root, levels, score>>

-----------------------------------------------------------------------------
(* The end of a path: its rows are pruned by their rotation, and it        *)
(* becomes a cluster or is rolled back.                                    *)

Rot(x) == Row(x).rot
Sum(f(_), s) == FoldLeft(LAMBDA n, x : n + f(x), 0, s)

HalfAway(n, d) == IF n >= 0 THEN (2 * n + d) \div (2 * d) ELSE -((d - 2 * n) \div (2 * d))

\* The mean rotation: rows on both sides of the half turn are averaged across it.
Mean(p) ==
  LET neg == SelectSeq(p, LAMBDA x : Rot(x) < 0)
      pos == SelectSeq(p, LAMBDA x : Rot(x) >= 0)
      n == Len(neg)
      total == Sum(Rot, p)
      apart == n > 0 /\ pos # <<>> /\ Sum(Rot, pos) * n - Sum(Rot, neg) * Len(pos) > 180 * n * Len(pos)
      turn == IF ~apart THEN total
              ELSE IF total + 360 * n > 180 * Len(p) THEN total + 360 * (n - Len(p))
              ELSE total + 360 * n
      mean == HalfAway(turn, Len(p))
  IN IF mean <= -180 THEN mean + 360 ELSE mean

Near(r, s) == LET sq == (r - s) * (r - s) IN sq <= 121 \/ sq >= 349 * 349

\* The elements of p at the places K.
Nth(K, n) == CHOOSE k \in K : Cardinality({i \in K : i <= k}) = n
At(p, K) == [n \in 1..Cardinality(K) |-> p[Nth(K, n)]]

Pruned(p) ==
  IF Len(p) < MinPath THEN p ELSE LET m == Mean(p) IN At(p, {n \in DOMAIN p : Near(Rot(p[n]), m)})

\* A pruned row keeps its stamp; the rows left get their earlier one back.
RolledBack(w, p) ==
  [w EXCEPT !.sc = [x \in Rows |-> IF ~Contains(p, x) THEN @[x]
                                  ELSE IF w.rk[x] = 0 THEN -1 ELSE w.rk[x]]]

Ends(p) == LET R == ToSet(p) IN
  <<{Row(x).k : x \in R} \cup {Row(x).j : x \in R}, {Row(x).a : x \in R} \cup {Row(x).b : x \in R}>>
Apart(p, q) == \A side \in 1..2 : Ends(p)[side] \cap Ends(q)[side] = {}

\* The cluster of p, given the earlier ones whose place and rotation suit it.
WithCluster(p, suit) ==
  LET n == Len(clusters) + 1
      Agrees(i) == i \in suit /\ Apart(clusters[i].rows, p)
      Joined(i) == IF Agrees(i) THEN [clusters[i] EXCEPT !.agree = @ \cup {n}, !.total = @ + Len(p)]
                   ELSE clusters[i]
  IN Append([i \in DOMAIN clusters |-> Joined(i)], [rows |-> p, agree |-> {n}, total |-> Len(p)])

Settle ==
  /\ pc = "grow" /\ ahead = NoRows /\ at >= Len(walk.queue)
  /\ LET p == Pruned(walk.path) IN
     \/ /\ Len(p) < MinPath
        /\ walk' = RolledBack(walk, p)
        /\ stamp' = stamp - 1
        /\ UNCHANGED clusters
     \/ /\ Len(p) >= MinPath
        /\ \E suit \in SUBSET {i \in DOMAIN clusters : Apart(clusters[i].rows, p)} :
             clusters' = WithCluster(p, suit)
        /\ UNCHANGED <<walk, stamp>>
  /\ pc' = "turn"
  /\ UNCHANGED <<table, seed, ahead, at, turned, dial, root, levels, score>>

-----------------------------------------------------------------------------
(* The odometer: the next combination of the groups' alternatives that     *)
(* contradicts neither itself nor the seed.                                *)

\* The probe's endpoints E lose their pairing.
Unpaired(w, E) ==
  [w EXCEPT !.tq = [e \in Probe |-> IF e \in E THEN 0 ELSE @[e]],
            !.rq = [l \in Gallery |-> IF \E e \in E : w.tq[e] = l THEN 0 ELSE @[l]]]

Unqueued(w, E) == [Unpaired(w, E) EXCEPT !.seen = @ \ {e \in E : w.tq[e] # 0}]

\* mutant
FirstUnturned(w, G) == Unpaired(w, {w.groups[i].set : i \in G \cap {1}})

\* Groups G are no longer set.
Unturned(w, G) == Unpaired(w, {w.groups[i].set : i \in G})

\* What the path and the last turn of the odometer paired is undone.
Turn ==
  /\ pc = "turn"
  /\ IF Len(clusters) >= MaxClusters THEN pc' = "score" /\ UNCHANGED <<walk, dial>>
     ELSE /\ walk' = Unturned(Unqueued(walk, ToSet(Tail(walk.queue))), 1..turned)
          /\ dial' = Len(walk.groups)
          /\ pc' = "dial"
  /\ UNCHANGED <<table, seed, stamp, ahead, at, turned, clusters, root, levels, score>>

Spent(w, g) == w.groups[g].pick >= Len(w.groups[g].alts)

\* mutant
CarryStuck ==
  /\ pc = "dial" /\ dial > 0 /\ Spent(walk, dial)
  /\ walk' = [walk EXCEPT !.groups[dial].pick = 1]
  /\ UNCHANGED <<pc, table, seed, stamp, ahead, at, turned, dial, clusters, root, levels, score>>

\* This dial is through: it starts over, and the one before it is advanced.
Carry ==
  /\ pc = "dial" /\ dial > 0 /\ Spent(walk, dial)
  /\ walk' = [walk EXCEPT !.groups[dial].pick = 1]
  /\ dial' = dial - 1
  /\ UNCHANGED <<pc, table, seed, stamp, ahead, at, turned, clusters, root, levels, score>>

Fits(w, e, l) == w.tq[e] \in {0, l} /\ w.rq[l] \in {0, e}

\* The pairing a group stands at.
PickE(g) == IF g.side = "probe" THEN g.end ELSE g.alts[g.pick]
PickL(g) == IF g.side = "probe" THEN g.alts[g.pick] ELSE g.end

\* Group i can be set when what is paired allows it, and those after it that are set.
CanBeSet(w, i) ==
  LET g == w.groups[i] IN
  /\ Fits(w, PickE(g), PickL(g))
  /\ \A h \in {w.groups[n] : n \in (i + 1)..Len(w.groups)} : PickE(g) = PickE(h) <=> PickL(g) = PickL(h)

\* Groups G are set.
AllSet(w, G) ==
  LET pairs == {<<PickE(w.groups[i]), PickL(w.groups[i])>> : i \in G}
      Of(e) == {p \in pairs : p[1] = e}
      To(l) == {p \in pairs : p[2] = l}
  IN  [w EXCEPT !.tq = [e \in Probe |-> IF Of(e) = {} THEN @[e] ELSE (CHOOSE p \in Of(e) : TRUE)[2]],
                !.rq = [l \in Gallery |-> IF To(l) = {} THEN @[l] ELSE (CHOOSE p \in To(l) : TRUE)[1]],
                !.groups = [i \in DOMAIN @ |-> IF i \in G THEN [@[i] EXCEPT !.set = PickE(w.groups[i])] ELSE @[i]]]

\* They are set from the last to the first, until one cannot be.
Advance ==
  /\ pc = "dial" /\ dial > 0 /\ ~Spent(walk, dial)
  /\ LET all == Len(walk.groups)
         w == [walk EXCEPT !.groups[dial].pick = @ + 1]
     IN \/ /\ \A i \in 1..all : CanBeSet(w, i)
           /\ walk' = AllSet(w, 1..all) /\ turned' = all /\ pc' = "path"
           /\ UNCHANGED dial
        \/ \E stuck \in 1..all :
             LET G == (stuck + 1)..all IN
             /\ ~CanBeSet(w, stuck) /\ \A i \in G : CanBeSet(w, i)
             /\ walk' = Unturned(AllSet(w, G), G) /\ dial' = all
             /\ UNCHANGED <<pc, turned>>
  /\ UNCHANGED <<table, seed, stamp, ahead, at, clusters, root, levels, score>>

\* No combination is left: the seed's pairing goes, and the groups do.
EndSeed ==
  /\ pc = "dial" /\ dial = 0
  /\ walk' = [Unpaired(walk, {Head(walk.queue)}) EXCEPT
        !.cp = [e \in Probe |-> IF \E g \in ToSet(walk.groups) : g.side = "probe" /\ g.end = e THEN 0 ELSE @[e]],
        !.rp = [l \in Gallery |-> IF \E g \in ToSet(walk.groups) : g.side = "gallery" /\ g.end = l THEN 0 ELSE @[l]]]
  /\ pc' = "seed"
  /\ UNCHANGED <<table, seed, stamp, ahead, at, turned, dial, clusters, root, levels, score>>

NoSeed ==
  /\ pc = "seed"
  /\ \A y \in (seed + 1)..(Len(table) - 1) : walk.sc[y] # 0
  /\ pc' = "score"
  /\ UNCHANGED <<table, seed, stamp, walk, ahead, at, turned, dial, clusters, root, levels, score>>

-----------------------------------------------------------------------------
(* The final loop: a depth-first search for the clusters that all agree    *)
(* and have the most rows.                                                 *)

Size(i) == Len(clusters[i].rows)
MatchScore == Max({clusters[i].total : i \in DOMAIN clusters} \cup {0})

\* How many rows the clusters have that s lists.
RowsOf(s) == UNION {{k} \X DOMAIN clusters[s[k]].rows : k \in DOMAIN s}
Added(s) == Cardinality(RowsOf(s))
Weight(S) == Added([i \in S |-> i])

Low ==
  /\ pc = "score" /\ MatchScore < MinScore
  /\ pc' = "done" /\ score' = MatchScore
  /\ UNCHANGED <<table, seed, stamp, walk, ahead, at, turned, dial, clusters, root, levels>>

\* A depth of the search: its candidates, in the order of their numbers, of which
\* the first is chosen, and those that are left to be tried with it.
Level(list) == [list |-> list, left |-> list \ {Min(list)}]

\* The next cluster whose total still promises more.
Root ==
  /\ pc = "score" /\ MatchScore >= MinScore /\ levels = <<>>
  /\ LET promising == {i \in DOMAIN clusters : i > root /\ score < clusters[i].total} IN
     IF promising = {} THEN pc' = "done" /\ UNCHANGED <<root, levels>>
     ELSE /\ root' = Min(promising)
          /\ levels' = <<Level(clusters[Min(promising)].agree)>>
          /\ UNCHANGED pc
  /\ UNCHANGED <<table, seed, stamp, walk, ahead, at, turned, dial, clusters, score>>

Deepest == levels[Len(levels)]
\* mutant
NotNarrowed(lv) == lv.left

\* The candidates that also agree with the next of them.
Narrowed(lv) == lv.left \cap clusters[Min(lv.left)].agree

Descend ==
  /\ pc = "score" /\ levels # <<>> /\ Cardinality(Deepest.left) > 1
  /\ levels' = Append(levels, Level(Narrowed(Deepest)))
  /\ UNCHANGED <<pc, table, seed, stamp, walk, ahead, at, turned, dial, clusters, root, score>>

Heads(n) == [d \in 1..n |-> Min(levels[d].list)]
\* A new list counts whole, one that was tried by its head and its last, and with
\* either the heads of the lists above it.
LeafScore ==
  IF Deepest = Level(Deepest.list) THEN Weight(Deepest.list) + Added(Heads(Len(levels) - 1))
  ELSE Size(Max(Deepest.list)) + Added(Heads(Len(levels)))

\* What the next candidate gave is counted; it has been tried.
Leaf ==
  /\ pc = "score" /\ levels # <<>> /\ Cardinality(Deepest.left) <= 1
  /\ score' = Max({score, LeafScore})
  /\ levels' = [d \in 1..(Len(levels) - 1) |->
                  IF d = Len(levels) - 1 THEN [levels[d] EXCEPT !.left = @ \ {Min(@)}] ELSE levels[d]]
  /\ UNCHANGED <<pc, table, seed, stamp, walk, ahead, at, turned, dial, clusters, root>>

Done == pc = "done" /\ UNCHANGED vars

Next ==
  \/ NextSeed \/ StartPath \/ Grow \/ SiftRow \/ Settle
  \/ Turn \/ Carry \/ Advance \/ EndSeed \/ NoSeed
  \/ Low \/ Root \/ Descend \/ Leaf
  \/ Done

Spec == Init /\ [][Next]_vars /\ WF_vars(Next)

-----------------------------------------------------------------------------
(* A path is consistent: its rows take no probe minutia to two of the      *)
(* gallery and none of the gallery from two of the probe, whatever the     *)
(* odometer paired before.  Only the seed's own near end is exempt: a      *)
(* group of alternatives of the gallery end of the seed lets the odometer  *)
(* give that end away, and the seed's rows join the path all the same.     *)
RowPairs(x) == {<<Row(x).k, Row(x).a>>, <<Row(x).j, Row(x).b>>}
SeedPair == <<Row(seed).k, Row(seed).a>>
PathConsistent ==
  pc \in {"grow", "turn"} =>
    \A p, q \in (UNION {RowPairs(x) : x \in ToSet(walk.path)}) \ {SeedPair} : p[1] = q[1] <=> p[2] = q[2]

(* Nothing of one seed is left for the next in the shared work arrays.     *)
CleanBetweenSeeds ==
  pc = "seed" => /\ \A e \in Probe : walk.tq[e] = 0 /\ walk.cp[e] = 0
                 /\ \A l \in Gallery : walk.rq[l] = 0 /\ walk.rp[l] = 0
                 /\ walk.seen = {}

(* The score is the most rows of any set of clusters that agree with each  *)
(* other, whatever order the search takes and prunes in.                   *)
Cliques == {S \in SUBSET DOMAIN clusters : \A i, j \in S : i < j => j \in clusters[i].agree}
BestClique == Max({Weight(S) : S \in Cliques})
ScoreIsBestClique ==
  pc = "done" /\ score # Overflow /\ MatchScore >= MinScore => score = BestClique

(* Every match comes to an end.                                            *)
MatchEnds == <>(pc = "done")
=============================================================================
