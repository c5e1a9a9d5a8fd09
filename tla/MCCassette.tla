----------------------------- MODULE MCCassette -----------------------------
(* Pixels in units, a header of two; eight pixels at most and three at     *)
(* least.                                                                  *)
EXTENDS Cassette

MCShot(claims, chunks) == [claims |-> claims, chunks |-> chunks]

\* A frame, one too small to detect in and as long as a header, one without a
\* pixel, one in two chunks, and one that claims too much.
MCShots == {MCShot(4, <<4>>), MCShot(2, <<2>>), MCShot(0, <<0>>), MCShot(4, <<2, 2>>), MCShot(9, <<9>>)}
=============================================================================
