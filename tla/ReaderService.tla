---------------------------- MODULE ReaderService ----------------------------
(***************************************************************************)
(* What one reader of fprintd promises the clients that await their        *)
(* replies and stay on the bus until they have them (the interface         *)
(* net.reactivated.Fprint.Device of src/crates/fprintd/src/device.rs and   *)
(* the guarantees of its module docs, lines 1-40): one client at a time    *)
(* holds a session, the reader is open only for that session, one          *)
(* operation at a time serves the session's user, and whatever begins,     *)
(* ends or stops was asked for by the client it concerns, or happens       *)
(* because that client left the bus.                                       *)
(*                                                                         *)
(* A client leaves between two calls (Leave).  To one that leaves in the   *)
(* middle of a Claim, a start or a Release the code does not keep all of   *)
(* this: see Device.                                                       *)
(***************************************************************************)
EXTENDS Naturals

CONSTANTS
  Clients, \* unique bus names
  Users,   \* usernames
  Calls,   \* method calls that can be in flight together
  Ops,     \* operations that can be in progress together
  None

VARIABLES
  session,  \* the client and the user of the session, or None
  reader,   \* "open" or "shut"
  ops,      \* the operations
  finger,   \* what the clients are told of the finger
  prints,   \* users with a print
  present,  \* clients on the bus
  calls     \* the calls in flight

vars == <<session, reader, ops, finger, prints, present, calls>>

NoCall == [client |-> None, method |-> "none"]
NoOp == [state |-> "none", kind |-> "Verify", user |-> None]

MethodNames == {"Claim", "Release", "VerifyStart", "EnrollStart", "VerifyStop",
            "EnrollStop", "Delete"}
KindOf(m) == IF m \in {"VerifyBegin", "VerifyStop"} THEN "Verify" ELSE "Enroll"

Init ==
  /\ session = None /\ reader = "shut" /\ finger = "off"
  /\ ops = [o \in Ops |-> NoOp]
  /\ prints \in SUBSET Users /\ present = Clients
  /\ calls = [k \in Calls |-> NoCall]

\* An operation serves the session until it is told to stop; then it leaves.
InProgress(o) == ops[o].state # "none"
Serving(o) == ops[o].state = "serving"
NobodyServed == \A o \in Ops : ~Serving(o)

Owner(c) == session # None /\ session.client = c
Asked(k, m) == calls[k].method = m
OwnerAsked(k, m) == Asked(k, m) /\ Owner(calls[k].client)
OwnerLeft == session # None /\ session.client \notin present

Answer(k) == calls' = [calls EXCEPT ![k] = NoCall]
Halt(o) == ops' = [ops EXCEPT ![o].state = "leaving"]

-----------------------------------------------------------------------------
(* Clients call, with one call in flight each, and leave between calls.    *)

Call(k, c) ==
  /\ calls[k] = NoCall
  /\ c \in present /\ \A j \in Calls : calls[j].client # c
  /\ \E m \in IF Owner(c) THEN MethodNames ELSE {"Claim", "Delete"} :
       calls' = [calls EXCEPT ![k] = [client |-> c, method |-> m]]
  /\ UNCHANGED <<session, reader, ops, finger, prints, present>>

Leave(c) ==
  /\ c \in present /\ \A k \in Calls : calls[k].client # c
  /\ present' = present \ {c}
  /\ UNCHANGED <<session, reader, ops, finger, prints, calls>>

\* A call returns having done nothing more: a Claim has no session or an open
\* reader, a stop leaves nothing of its kind, a Release never gets here.
Return(k) ==
  /\ calls[k] # NoCall /\ ~Asked(k, "Release")
  /\ OwnerAsked(k, "Claim") => reader = "open"
  /\ calls[k].method \in {"VerifyStop", "EnrollStop"} =>
       \A o \in Ops : Serving(o) => ops[o].kind # KindOf(calls[k].method)
  /\ Answer(k)
  /\ UNCHANGED <<session, reader, ops, finger, prints, present>>

-----------------------------------------------------------------------------
(* Sessions.                                                               *)

Begin(k) ==
  /\ session = None /\ Asked(k, "Claim")
  /\ reader = "shut" /\ NobodyServed
  /\ \E u \in Users : session' = [client |-> calls[k].client, user |-> u]
  /\ UNCHANGED <<reader, ops, finger, prints, present, calls>>

Open ==
  /\ \E k \in Calls : OwnerAsked(k, "Claim")
  /\ reader = "shut" /\ NobodyServed
  /\ reader' = "open"
  /\ UNCHANGED <<session, ops, finger, prints, present, calls>>

Shut ==
  /\ OwnerLeft \/ \E k \in Calls : OwnerAsked(k, "Release")
  /\ NobodyServed
  /\ reader' = "shut"
  /\ UNCHANGED <<session, ops, finger, prints, present, calls>>

\* A Release, or a Claim whose reader did not open.
End(k) ==
  /\ OwnerAsked(k, "Release") \/ OwnerAsked(k, "Claim")
  /\ reader = "shut" /\ NobodyServed
  /\ session' = None
  /\ Answer(k)
  /\ UNCHANGED <<reader, ops, finger, prints, present>>

EndForGone ==
  /\ OwnerLeft
  /\ reader = "shut" /\ NobodyServed
  /\ session' = None
  /\ UNCHANGED <<reader, ops, finger, prints, present, calls>>

-----------------------------------------------------------------------------
(* Operations.                                                             *)

\* A VerifyStart goes on to VerifyBegin once it has found a print to compare with.
Find(k) ==
  /\ OwnerAsked(k, "VerifyStart") /\ session.user \in prints
  /\ calls' = [calls EXCEPT ![k].method = "VerifyBegin"]
  /\ UNCHANGED <<session, reader, ops, finger, prints, present>>

Start(k, o) ==
  /\ OwnerAsked(k, "VerifyBegin") \/ OwnerAsked(k, "EnrollStart")
  /\ reader = "open" /\ NobodyServed /\ ~InProgress(o)
  /\ ops' = [ops EXCEPT ![o] = [state |-> "serving", kind |-> KindOf(calls[k].method),
                                user |-> session.user]]
  /\ Answer(k)
  /\ UNCHANGED <<session, reader, finger, prints, present>>

Stop(k, o) ==
  /\ OwnerAsked(k, "VerifyStop") \/ OwnerAsked(k, "EnrollStop")
  /\ Serving(o) /\ ops[o].kind = KindOf(calls[k].method)
  /\ Halt(o) /\ Answer(k)
  /\ UNCHANGED <<session, reader, finger, prints, present>>

StopForEnd(o) ==
  /\ OwnerLeft \/ \E k \in Calls : OwnerAsked(k, "Release")
  /\ Serving(o) /\ Halt(o)
  /\ UNCHANGED <<session, reader, finger, prints, present, calls>>

Tell(o) ==
  /\ InProgress(o)
  /\ finger' \in {"on", "off"}
  /\ UNCHANGED <<session, reader, ops, prints, present, calls>>

\* An enrollment that was told to stop may still have been through.
Save(o) ==
  /\ InProgress(o) /\ ops[o].kind = "Enroll"
  /\ finger' = "off" /\ prints' = prints \cup {ops[o].user}
  /\ UNCHANGED <<session, reader, ops, present, calls>>

\* The last operation to go leaves the finger status quiet.
Finish(o) ==
  /\ InProgress(o)
  /\ (\A q \in Ops \ {o} : ~InProgress(q)) => finger = "off"
  /\ ops' = [ops EXCEPT ![o] = NoOp]
  /\ UNCHANGED <<session, reader, finger, prints, present, calls>>

Delete(k) ==
  /\ Asked(k, "Delete")
  /\ \E u \in Users : prints' = prints \ {u}
  /\ Answer(k)
  /\ UNCHANGED <<session, reader, ops, finger, present>>

Next ==
  \/ \E k \in Calls, c \in Clients : Call(k, c)
  \/ \E c \in Clients : Leave(c)
  \/ \E k \in Calls : Return(k) \/ Begin(k) \/ End(k) \/ Find(k) \/ Delete(k)
  \/ Open \/ Shut \/ EndForGone
  \/ \E k \in Calls, o \in Ops : Start(k, o) \/ Stop(k, o)
  \/ \E o \in Ops : StopForEnd(o) \/ Save(o) \/ Finish(o) \/ Tell(o)

Spec == Init /\ [][Next]_vars
==============================================================================
