------------------------------ MODULE MCStore ------------------------------
(* Two workers on the prints of one user on two readers of one driver, so  *)
(* that deleting one print prunes up to the directory of the other.  The   *)
(* level of the driver is left out of the paths.  Between them the workers *)
(* make every call on the first print, and one of them saves the second.   *)
EXTENDS Store, TLC

CONSTANTS w1, w2

MCWorkers == {w1, w2}
k1 == <<"u", "x", "7">>
k2 == <<"u", "y", "7">>
MCKeys == {k1, k2}
MCAsks == ({w1} \X {"save"} \X {k1}) \cup ({w2} \X {"load", "list", "delete"} \X {k1})
          \cup ({w2} \X {"save"} \X {k2})
\* What a free inode holds does not matter: it is emptied when it is taken.
MCView == <<names, saved, [i \in Inodes |-> IF Free(i) THEN Empty ELSE data[i]],
            [i \in Inodes |-> IF Free(i) THEN Empty ELSE disk[i]], pc, call, fd, at, got>>
MCSymmetry == Permutations(Inodes)
============================================================================
