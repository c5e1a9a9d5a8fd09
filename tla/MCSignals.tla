----------------------------- MODULE MCSignals -----------------------------
(* Values for TLC's run of StatusSignals. *)
EXTENDS StatusSignals, TLC

CONSTANTS f1, f2

MCGalleries == {<<f1>>, <<f1, f2>>}

MCSymmetry == Permutations(Pumps)

(* What can still matter.  A pump past its last word says nothing more: only  *)
(* whether it has ended, was stopped, gave a verdict or lost the actor.  Of   *)
(* what the others have told, retries and the finger that was selected are in *)
(* no property, and nothing reads which stage was heard of last.              *)
Over(p) == pump[p].pc \in {"closing", "ended"} /\ p \notin selecting
Weighty(s) == s.done \/ s.name \notin {"enroll-retry", "verify-retry", "finger-selected"}
Lasting(p) ==
    IF Over(p) THEN <<pump[p].pc, pump[p].stop, HasVerdict(p), answer[p].class = "gone">>
    ELSE <<pump[p], queue[p], answer[p], [tally[p] EXCEPT !.heard = 0], p \in saved,
           SelectSeq(told[p], Weighty)>>
MCView == <<patient, active, selecting, latest, rx, [p \in Pumps |-> Lasting(p)]>>
=============================================================================
