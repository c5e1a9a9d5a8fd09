---------------------------- MODULE MCDetection -----------------------------
(* Detection on images of sixteen by sixteen pixels in blocks of three,     *)
(* the last column and row cut to one, with four directions a quarter of    *)
(* the circle apart (of their doubled angles).                              *)
EXTENDS Detection

MCHeadings == (0 :> <<1, 0>>) @@ (1 :> <<0, 1>>) @@ (2 :> <<-1, 0>>) @@ (3 :> <<0, -1>>)
MCStrength == <<1, 5>>
MCTangents == {414214}
MCBehindSine == <<0, 3, 4>>

MCBlocks == (0..5) \X (0..5)
MCRect(x, y, u, v) == (x..u) \X (y..v)

\* The ink: two ridges side by side, a ring, a cup open to the top, three broken
\* ridges and a patch with a notch, each with two of the dabs added to it; and
\* for the tests of the maps a patch of dots that are one pixel apart.
MCBars == MCRect(3, 3, 4, 14) \cup MCRect(13, 3, 14, 14)
MCRing == MCRect(3, 3, 11, 11) \ MCRect(5, 5, 9, 9)
MCCup == MCRect(3, 3, 14, 14) \ MCRect(5, 3, 12, 12)
MCRidges == {5, 6, 9, 10} \X (3..14)
MCPatch == MCRect(3, 3, 14, 14) \ MCRect(6, 9, 10, 10)
MCBases == <<MCBars, MCRing, MCCup, MCRidges, MCPatch>>
MCDab(k) ==
  LET x == <<5, 7, 9>>[1 + (k % 3)]
      y == <<5, 7, 9>>[1 + (k \div 3)]
  IN  MCRect(x, y, x + 1, y + 1)
MCPictures == {n \in 0..404 : LET k == (n \div 9) % 9  l == n % 9 IN k = l \/ k + l = 8}
MCPicture(n) ==
  LET base == MCBases[1 + (n \div 81)]
      dabs == MCDab((n \div 9) % 9) \cup MCDab(n % 9)
  IN  (base \ dabs) \cup (dabs \ base)
MCDots == [d \in 0..3 |-> {p \in MCRect(0, 0, 15, 15) : d \in {0, 2} => {p[1] % 6, p[2] % 6} \cap {0, 2, 4, 5} # {}}]
MCDotted == 405
MCInk == [n \in MCPictures \cup {MCDotted} |-> IF n = MCDotted THEN MCDots ELSE [d \in 0..3 |-> MCPicture(n)]]

\* A flow that is the same everywhere, one with a cross of no flow, one that
\* changes half way, and one that turns about the centre.
MCEven(d) == [b \in MCBlocks |-> d]
MCCrossed == [b \in MCBlocks |-> IF 3 \in {b[1], b[2]} /\ {b[1], b[2]} \subseteq 2..4 THEN -2 ELSE 1]
MCFault == [b \in MCBlocks |-> IF b[1] < 3 THEN 0 ELSE 2]
MCRound == [b \in MCBlocks |-> IF b[2] < 3 THEN (IF b[1] < 3 THEN 0 ELSE 1) ELSE (IF b[1] < 3 THEN 3 ELSE 2)]
MCFlows == {MCEven(1), MCCrossed, MCFault, MCRound}

\* Two blocks changed to anything, the second one to what has no direction, and
\* dotted; or the pictures in two flows, with a block of low contrast amid.
MCVaried == {[flow EXCEPT ![b] = k, ![<<2, 2>>] = l] : l \in {-3, -2}, flow \in MCFlows, b \in (2..4) \X (2..4), k \in {-3, -2, 1, 2}}
MCPlain == {MCEven(0), [MCFault EXCEPT ![<<2, 3>>] = -3, ![<<4, 1>>] = -2]}
MCKindsOf(n) == IF n = MCDotted THEN MCVaried ELSE MCPlain
MCInputs == UNION {{[kinds |-> kinds, ink |-> n] : kinds \in MCKindsOf(n)} : n \in DOMAIN MCInk}
=============================================================================
