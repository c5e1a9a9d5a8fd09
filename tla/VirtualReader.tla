--------------------------- MODULE VirtualReader ---------------------------
(***************************************************************************)
(* The in-memory reader of the native backend                              *)
(* (src/crates/fprint-backend-native/src/device.rs, store.rs), a           *)
(* match-on-chip sensor when it has the feature STORAGE: the shape it       *)
(* settles to when it is opened, an enrolment stage by stage, and the      *)
(* slots on the sensor, which outlive the handle.                          *)
(*                                                                         *)
(* A print is its owner, its finger and its template.  A slot that another *)
(* system wrote has no owner or finger.                                    *)
(***************************************************************************)
EXTENDS Naturals, SequencesExt

CONSTANTS
  Users, Fingers, Templates,
  Present,   \* the prints that may be on the sensor to begin with
  None,      \* no owner, no finger, no capture
  Probed,    \* the features before the reader is opened
  Shapes,    \* the sets of features it may settle to
  Capacity,  \* how many slots the sensor has
  Stages     \* how many touches an enrolment takes

Printed == [user : Users \cup {None}, finger : Fingers \cup {None}, template : Templates]

ASSUME ReaderAssumption ==
  /\ Present \subseteq Printed
  /\ None \notin Users \cup Fingers \cup Templates
  /\ Capacity \in Nat \ {0} /\ Stages \in Nat \ {0}

VARIABLES
  open,     \* whether the reader is open
  features, \* what it advertises
  slots,    \* the prints on the sensor, oldest first
  capture   \* the enrolment under way: its print and the stages done

reader == <<open, features, slots, capture>>

OnChip == "storage" \in features
Full == Len(slots) >= Capacity
Stored(t) == \E i \in DOMAIN slots : slots[i].template = t

Distinct(s) == \A i, j \in DOMAIN s : s[i].template = s[j].template => i = j

\* The slots are what earlier runs and other systems left.
ReaderInit ==
  /\ open = FALSE
  /\ features = Probed
  /\ slots \in {s \in SeqOf(Present, Capacity) : Distinct(s)}
  /\ capture = None

\* The shape settles when the reader is first opened, and stays.
OpenReader ==
  /\ ~open
  /\ open' = TRUE
  /\ features' \in IF features \in Shapes THEN {features}
                  ELSE {s \in Shapes : slots # <<>> => "storage" \in s}
  /\ UNCHANGED <<slots, capture>>

CloseReader ==
  /\ open' = FALSE
  /\ UNCHANGED <<features, slots, capture>>

\* The checks before the first touch.
Accepts(t) == ~(OnChip /\ Full) /\ ~("duplicates" \in features /\ Stored(t))

BeginEnroll(p) ==
  /\ open
  /\ Accepts(p.template)
  /\ capture' = [print |-> p, done |-> 0]
  /\ UNCHANGED <<open, features, slots>>

\* One touch, not the last; a touch that has to be repeated changes nothing.
Advance ==
  /\ capture # None
  /\ capture.done + 1 < Stages
  /\ capture' = [capture EXCEPT !.done = @ + 1]
  /\ UNCHANGED <<open, features, slots>>

\* The last touch, and the commit in the same poll.
Finish ==
  /\ capture # None
  /\ capture.done + 1 = Stages
  /\ OnChip => ~Full
  /\ slots' = IF OnChip THEN Append(slots, capture.print) ELSE slots
  /\ capture' = None
  /\ UNCHANGED <<open, features>>

\* The future is dropped, or the last push finds no slot.
DropEnroll ==
  /\ capture # None
  /\ capture' = None
  /\ UNCHANGED <<open, features, slots>>

\* Of several equal templates the oldest goes.
FirstWith(t) == CHOOSE i \in DOMAIN slots :
  slots[i].template = t /\ \A j \in 1..(i - 1) : slots[j].template # t

DeletePrint(t) ==
  /\ open
  /\ "delete" \in features
  /\ Stored(t)
  /\ slots' = RemoveAt(slots, FirstWith(t))
  /\ UNCHANGED <<open, features, capture>>

ClearStorage ==
  /\ open
  /\ "clear" \in features
  /\ slots' = <<>>
  /\ UNCHANGED <<open, features, capture>>

=============================================================================
