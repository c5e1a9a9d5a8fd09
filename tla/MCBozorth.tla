----------------------------- MODULE MCBozorth ------------------------------
(* The clustering on all small tables over three minutiae of each print,   *)
(* and on a table of four parts that share no minutia.                     *)
EXTENDS BozorthCluster

CONSTANTS MostRows, MostTurned

Edges == {<<1, 2>>, <<1, 3>>, <<2, 3>>}

\* An edge of the probe over one of the gallery, which may lie the other way round.
Over(p, g, other) ==
  [k |-> p[1], j |-> p[2], a |-> g[IF other THEN 2 ELSE 1], b |-> g[IF other THEN 1 ELSE 2], rot |-> 0]

Place(r) == 1000 * r.k + 100 * r.a + 10 * r.j + r.b
InOrder(R) == SetToSortSeq(R, LAMBDA r, s : Place(r) < Place(s))

TablesOver(S) == {InOrder({Over(x[1], x[2], x \in O) : x \in S}) : O \in SUBSET S}
SmallTables == UNION {TablesOver(S) : S \in UNION {kSubset(n, Edges \X Edges) : n \in 1..MostRows}}

\* One row is turned against the others, in tables of unswapped edges.
Turned(t, x, most, one) == [i \in DOMAIN t |-> [t[i] EXCEPT !.rot = IF i = x THEN one ELSE most]]
TurnedTables ==
  UNION {{Turned(t, x, 0, 30) : x \in DOMAIN t} \cup {Turned(t, x, 175, -175) : x \in DOMAIN t} :
         t \in {s \in SmallTables : Len(s) <= MostTurned /\ \A i \in DOMAIN s : s[i].a < s[i].b}}

\* Four parts of three minutiae: two edges each, and a third in the
\* first and, the other way round, in the last.
Same(p) == Over(p, p, FALSE)
Part(n) == <<Same(<<3 * n + 1, 3 * n + 2>>), Same(<<3 * n + 1, 3 * n + 3>>)>>
FarParts == Part(0) \o <<Same(<<2, 3>>)>> \o Part(1) \o Part(2) \o Part(3)
              \o <<Over(<<11, 12>>, <<11, 12>>, TRUE)>>

MCTables == SmallTables \cup TurnedTables \cup {FarParts}
=============================================================================
