--------------------------- MODULE MCMocReconcile --------------------------
(* Two users; one of them enrolls two fingers.  The sensor may hold        *)
(* another system's print.                                                 *)
EXTENDS MocReconcile, TLC

CONSTANTS u1, u2, f1, f2, t1, t2, t3, t4

MCUsers == {u1, u2}
MCFingers == {f1, f2}
MCTemplates == {t1, t2, t3, t4}
MCEnrolments == {[user |-> u1, finger |-> f1, template |-> t1],
                 [user |-> u1, finger |-> f2, template |-> t2],
                 [user |-> u2, finger |-> f1, template |-> t3]}
MCPresent == MCEnrolments \cup {[user |-> None, finger |-> None, template |-> t4]}
MCProbed == {"storage"}
\* A sensor that stores a finger again that it holds, one that refuses to and can only be listed and wiped,
\* and one that matches on the host.
Twins == {"storage", "list", "delete"}
WipeOnly == {"storage", "list", "clear", "duplicates"}
HostImage == {}
MCShapes == {Twins, WipeOnly, HostImage}

MCSymmetry == Permutations(Handlers)
\* The print of the finger deleted last is forgotten: Load sets it before it is read.
MCView ==
  <<reader, rec, claim, serving, active, pc, pst, stop, calls,
    [h \in Handlers |-> IF pc[h] = "load" THEN [loc[h] EXCEPT !.print = None] ELSE loc[h]]>>
============================================================================
