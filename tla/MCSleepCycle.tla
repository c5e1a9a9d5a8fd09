---------------------------- MODULE MCSleepCycle ----------------------------
(* One reader with every command and one that is only opened.              *)
EXTENDS SleepCycle

CONSTANTS r1, r2

MCReaders == {r1, r2}
MCOffered == [r \in MCReaders |-> IF r = r1 THEN {"open", "close", "stream"} ELSE {"open"}]
=============================================================================
