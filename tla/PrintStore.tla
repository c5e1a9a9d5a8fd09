----------------------------- MODULE PrintStore -----------------------------
(***************************************************************************)
(* What the print store of fprintd promises its callers                    *)
(* (src/crates/fprintd/src/storage.rs, lines 48-56 and the docs of save,   *)
(* load, list_fingers and delete): a map from a user's finger on a reader  *)
(* to one whole print.  A call takes effect in one step between its start  *)
(* and its return, a call that fails has no effect, and a crash forgets    *)
(* the calls and perhaps the latest effects, all back to one point.  A     *)
(* load or a listing that fails answers as if there were nothing, and a    *)
(* listing looks at one name after the other.                              *)
(***************************************************************************)
EXTENDS SequencesExt

CONSTANTS
  Keys,    \* where a print may be stored: paths <<user, ..., finger>>
  Prints,  \* what may be stored
  Alien,   \* a file whose print names another finger, user or driver
  Workers, \* who calls the store
  None     \* no print

VARIABLES
  records,   \* what is stored
  committed, \* what a crash falls back to
  calls      \* what each worker asks and, once it is decided, the answer

NoCall == [op |-> "none", key |-> None, print |-> None, answer |-> <<"none">>]

Init ==
  /\ records \in [Keys -> Prints \cup {Alien, None}]
  /\ committed = records
  /\ calls = [w \in Workers |-> NoCall]

Call(w) ==
  /\ calls[w] = NoCall
  /\ \E op \in {"save", "load", "list", "delete"}, k \in Keys, p \in Prints \cup {None} :
       /\ (op = "save") = (p # None)
       /\ calls' = [calls EXCEPT ![w] = [op |-> op, key |-> k, print |-> p, answer |-> <<"none">>]]
  /\ UNCHANGED <<records, committed>>

Answer(w, a) == calls' = [calls EXCEPT ![w].answer = a]

Undecided(w, op) == calls[w].op = op /\ calls[w].answer = <<"none">>

Save(w) ==
  /\ Undecided(w, "save")
  /\ records' = [records EXCEPT ![calls[w].key] = calls[w].print]
  /\ Answer(w, <<"ok">>)
  /\ UNCHANGED committed

Delete(w) ==
  /\ Undecided(w, "delete")
  /\ records' = [records EXCEPT ![calls[w].key] = None]
  /\ Answer(w, <<"ok">>)
  /\ UNCHANGED committed

\* A print that is not the caller's does not count as one.
Own(r) == IF r = Alien THEN None ELSE r

Load(w) ==
  /\ Undecided(w, "load")
  /\ Answer(w, <<"found", Own(records[calls[w].key])>>)
  /\ UNCHANGED <<records, committed>>

\* A load that fails, perhaps after it has chosen what to read.
Miss(w) ==
  /\ calls[w].op = "load"
  /\ Answer(w, <<"found", None>>)
  /\ UNCHANGED <<records, committed>>

\* A listing begins, and it may end before it has seen every name.
List(w) ==
  /\ Undecided(w, "list")
  /\ Answer(w, <<"listed", {}>>)
  /\ UNCHANGED <<records, committed>>

\* It sees a finger of the reader asked for, which has a print at that moment.
See(w) ==
  /\ calls[w].op = "list" /\ calls[w].answer[1] = "listed"
  /\ \E j \in Keys :
       /\ Front(j) = Front(calls[w].key) /\ records[j] # None
       /\ Answer(w, <<"listed", calls[w].answer[2] \cup {j}>>)
  /\ UNCHANGED <<records, committed>>

Fail(w) ==
  /\ calls[w].op \in {"save", "delete"} /\ calls[w].answer = <<"none">>
  /\ Answer(w, <<"failed">>)
  /\ UNCHANGED <<records, committed>>

Return(w) ==
  /\ calls[w] # NoCall
  /\ calls[w].answer # <<"none">>
  /\ calls' = [calls EXCEPT ![w] = NoCall]
  /\ UNCHANGED <<records, committed>>

Commit == committed' = records /\ UNCHANGED <<records, calls>>

Crash ==
  /\ records' = committed
  /\ calls' = [w \in Workers |-> NoCall]
  /\ UNCHANGED committed

Next ==
  \/ \E w \in Workers : \/ Call(w) \/ Return(w) \/ Fail(w)
                        \/ Save(w) \/ Delete(w) \/ Load(w) \/ Miss(w)
                        \/ List(w) \/ See(w)
  \/ Commit
  \/ Crash

Spec == Init /\ [][Next]_<<records, committed, calls>>
=============================================================================
