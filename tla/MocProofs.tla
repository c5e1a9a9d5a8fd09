------------------------------ MODULE MocProofs ------------------------------
(***************************************************************************)
(* What holds of a match-on-chip reader and the host's records for any     *)
(* users, fingers, prints, shapes, handlers and pumps, whatever records    *)
(* and slots earlier runs left.                                            *)
(*                                                                         *)
(* That a command takes only slots of the user it works for needs no       *)
(* order between sessions (MocInv).  That reconciliation compares with     *)
(* what is still true when it acts does: it holds because a Claim comes    *)
(* after the earlier session's tasks, so that while it reconciles no pump  *)
(* works, no command of a pump is queued, and no other handler touches a   *)
(* slot (SerialInv).                                                       *)
(***************************************************************************)
EXTENDS MocReconcile, WellFoundedInduction, FiniteSetTheorems, SequenceTheorems, TLAPS

\* The prints there are: on the sensor to begin with, or enrolled.
Prints == Present \cup Enrolments

\* A template is of one print: no two enrolments give the same.
TemplatesTellPrints == \A p, q \in Prints : p.template = q.template => p = q

-----------------------------------------------------------------------------
(* The inductive invariant, whatever sessions overlap.                     *)

\* The types of what is kept: a record that was loaded, a handler's locals.
Loaded == [user : Users, finger : Fingers, template : Templates \cup {None}]
Locals == [user : Users \cup {None}, todo : SUBSET Fingers, print : Loaded \cup {None},
           host : SUBSET Fingers, left : Seq(Prints), wipe : BOOLEAN, warned : BOOLEAN]

\* Where a handler waits for the reader, and for which command.
Waits == {<<"opening", "open">>, <<"listing", "list">>, <<"freeing", "delete">>,
          <<"closing", "close">>, <<"unslot", "delete">>, <<"wiping", "clear">>}
\* Where a claim acts on what it compared, and where it reconciles at all.
Comparing == {"dropping", "freeing"}
Reconciling == {"opening", "listing"} \cup Comparing
\* Where a deletion of the session's is, and who works for the session.
Deleting == {"load", "unhost", "unslot", "wiping"}
Busy(h) == pc[h] \notin {"idle", "hostonly"}

\* What is asked of the reader, and what it answers.
Commands == {"none", "open", "list", "delete", "close", "clear", "enroll"}

Replies == {<<"none">>, <<"ok">>, <<"failed">>}
             \cup ({"listed"} \X Seq(Prints)) \cup ({"enrolled"} \X Enrolments)

\* The types of the reader's state, the daemon's and the calls'.
ReaderTyped ==
  /\ slots \in Seq(Prints)
  /\ capture \in [print : Enrolments, done : Nat] \cup {None}

DaemonTyped ==
  /\ rec \in [Users -> [Fingers -> Templates \cup {None}]]
  /\ claim \in Users \cup {None} /\ serving \in Handlers \cup {None}
  /\ pc \in [Handlers -> {"idle", "hostonly", "closing"} \cup Reconciling \cup Deleting]
  /\ loc \in [Handlers -> Locals]
  /\ pst \in [Pumps -> {"off", "start", "wait"}]
  /\ active \in Pumps \cup {None} /\ stop \subseteq Pumps

CallsTyped ==
  /\ queue \in Seq(Callers)
  /\ ask \in [Callers -> [kind : Commands, print : Prints \cup {None}]]
  /\ reply \in [Callers -> Replies]

TypeOK == ReaderTyped /\ DaemonTyped /\ CallsTyped

\* A record is of an enrolment.
RecordsOfEnrolments == \A u \in Users : \A f \in Recorded(u) : Slot(u, f) \in Enrolments

\* A handler has a command with the reader only where it waits for it.
HandlerAsks(h) ==
  /\ ask[h].kind # "none" => <<pc[h], ask[h].kind>> \in Waits
  /\ reply[h] # <<"none">> => ask[h].kind = "none"

\* A pump asks for its enrolment only.
PumpAsks(p) ==
  /\ ask[p].kind \in {"none", "enroll"}
  /\ ask[p].kind = "enroll" => ask[p].print \in Enrolments
  /\ pst[p] = "start" => ask[p].kind = "enroll"

Asked == (\A h \in Handlers : HandlerAsks(h)) /\ (\A p \in Pumps : PumpAsks(p))

\* A caller is in the queue once, while it has a command there.
Queued ==
  /\ \A i, j \in DOMAIN queue : queue[i] = queue[j] => i = j
  /\ \A i \in DOMAIN queue : /\ ask[queue[i]].kind # "none"
                             /\ queue[i] \in Pumps => pst[queue[i]] # "start"

\* A slot of this user's, with its finger.
OwnSlot(u, s) == s \in Prints /\ s.user = u /\ s.finger # None

\* What a handler works on is its user's,
OwnLocals(h) ==
  /\ pc[h] # "idle" => loc[h].user \in Users
  /\ pc[h] = "unhost" => /\ loc[h].print \in Loaded /\ loc[h].print.user = loc[h].user
                         /\ loc[h].print.template # None => loc[h].print \in Enrolments
  /\ pc[h] = "wiping" => loc[h].wipe
  /\ pc[h] \in Deleting /\ loc[h].wipe => "delete" \notin features
\* and so is the slot it asks the reader to delete.
OwnAsk(h) == ask[h].kind = "delete" => OwnSlot(loc[h].user, ask[h].print)
OwnWork(h) == OwnLocals(h) /\ OwnAsk(h)

\* Before the reader has its shape, no handler came further than to open it.
Settled ==
  features \notin Shapes =>
    /\ ~open
    /\ \A h \in Handlers : /\ pc[h] \in {"idle", "hostonly", "opening", "closing"}
                           /\ pc[h] = "opening" => reply[h] # <<"ok">>
    /\ claim # None => serving # None
    /\ serving # None => Busy(serving)

\* What holds whatever sessions overlap.
MocInv ==
  /\ TypeOK
  /\ RecordsOfEnrolments
  /\ Asked /\ Queued
  /\ \A h \in Handlers : OwnWork(h)
  /\ Settled

-----------------------------------------------------------------------------
(* The inductive invariant when sessions do not overlap.                   *)

\* One handler works for the session, beside one that ends it.
OneActs ==
  /\ serving # None => Busy(serving)
  /\ \A h \in Handlers : pc[h] = "closing" => serving = h
  /\ \A g, h \in Handlers : Busy(g) /\ Busy(h) /\ pc[g] # "closing" /\ pc[h] # "closing" => g = h
  /\ claim # None /\ serving = None => \A h \in Handlers : ~Busy(h)
  /\ claim # None /\ serving # None /\ pc[serving] # "closing" =>
       \A h \in Handlers : Busy(h) => h = serving

\* No pump works while a claim reconciles, and what an earlier one left with
\* the reader is served before the reader is opened.
PumpsGone ==
  \A h \in Handlers : pc[h] \in Reconciling =>
    /\ \A p \in Pumps : pst[p] = "off"
    /\ \A i \in DOMAIN queue : queue[i] \in Pumps =>
         pc[h] = "opening" /\ \E j \in DOMAIN queue : j > i /\ queue[j] = h

\* What a claim compares stays true: the listing is the slots, what it drops
\* has no slot, what the host records was recorded, and what it frees was not.
FreshFor(h) ==
  /\ pc[h] = "listing" /\ reply[h][1] = "listed" => reply[h][2] = slots
  /\ pc[h] \in Comparing =>
       /\ loc[h].todo \cap Named(slots) = {}
       /\ Recorded(loc[h].user) \subseteq loc[h].host
       /\ ask[h].kind = "delete" => Orphan(h, ask[h].print)
Fresh == \A h \in Handlers : FreshFor(h)

\* What holds besides when they do not.
SerialInv == MocInv /\ OneActs /\ PumpsGone /\ Fresh

-----------------------------------------------------------------------------
(* What a claim that warned of nothing has still to do.                    *)

\* How many of the slots the claim has gone through.
Seen(h) == Len(slots) - Len(loc[h].left)
\* What is left of the listing is what the sensor has after those, and none of
\* those is an orphan but the last, while the reader has the command to free it.
Walked(h) ==
  /\ Seen(h) >= 0
  /\ \A i \in DOMAIN loc[h].left : slots[Seen(h) + i] = loc[h].left[i]
  /\ \A i \in 1..Seen(h) : Orphan(h, slots[i]) => i = Seen(h) /\ ask[h].kind = "delete"
  /\ ask[h].kind = "delete" => Seen(h) > 0 /\ slots[Seen(h)] = ask[h].print

\* It warned of something, or is about to.
Failed(h) == loc[h].warned \/ (pc[h] = "freeing" /\ reply[h] = <<"failed">>)
\* Records without a slot are still to be dropped, and orphans to be freed.
ProgressOf(h) == pc[h] \in Comparing /\ ~Failed(h) =>
  /\ Recorded(loc[h].user) \subseteq Named(slots) \cup loc[h].todo
  /\ "delete" \in features => Walked(h)
Progress == \A h \in Handlers : ProgressOf(h)

\* What holds of claims that warned of nothing.
CompleteInv == SerialInv /\ Progress

-----------------------------------------------------------------------------
(* Sequences: the queue and the slots.                                     *)

\* The least of some positions.
LEMMA LeastPosition ==
  ASSUME NEW T \in SUBSET Nat, T # {}
  PROVE  \E x \in T : \A y \in T : x <= y
<1> DEFINE U == {0..i : i \in T}
<1>1. U # {} /\ U \subseteq FiniteSubsetsOf(Nat)
  <2>1. ASSUME NEW i \in T
        PROVE  0..i \in SUBSET Nat /\ IsFiniteSet(0..i)
    <3>1. i \in Int /\ 0 \in Int
      OBVIOUS
    <3> QED BY <3>1, FS_Interval
  <2> QED BY <2>1 DEF FiniteSubsetsOf
<1>2. PICK x \in U : \A y \in U : <<y, x>> \notin StrictSubsetOrdering(Nat)
  BY <1>1, WFMin, FS_StrictSubsetOrderingWellFounded
<1>3. PICK i \in T : x = 0..i
  OBVIOUS
<1>4. ASSUME NEW j \in T, j < i
      PROVE  FALSE
  <2>1. 0..j \subseteq 0..i /\ i \notin 0..j /\ i \in 0..i
    BY <1>4
  <2>2. <<0..j, x>> \in StrictSubsetOrdering(Nat)
    BY <2>1, <1>3 DEF StrictSubsetOrdering
  <2> QED BY <2>2, <1>2
<1> QED BY <1>4

\* A template that is stored has a first slot.
LEMMA FirstSlot ==
  ASSUME NEW S, slots \in Seq(S), NEW t, Stored(t)
  PROVE  FirstWith(t) \in DOMAIN slots /\ slots[FirstWith(t)].template = t
<1> DEFINE T == {i \in DOMAIN slots : slots[i].template = t}
<1>1. T # {} /\ T \in SUBSET Nat /\ DOMAIN slots = 1..Len(slots) /\ Len(slots) \in Nat
  BY DEF Stored
<1>2. PICK i \in T : \A j \in T : i <= j
  BY <1>1, LeastPosition
<1>3. i \in DOMAIN slots /\ slots[i].template = t /\ \A j \in 1..(i - 1) : slots[j].template # t
  BY <1>1, <1>2
<1> QED BY <1>3 DEF FirstWith

\* The sequence without one of its positions.
LEMMA Removed ==
  ASSUME NEW S, NEW s \in Seq(S), NEW i \in DOMAIN s
  PROVE  /\ RemoveAt(s, i) \in Seq(S)
         /\ Len(RemoveAt(s, i)) = Len(s) - 1
         /\ \A j \in 1..(Len(s) - 1) : RemoveAt(s, i)[j] = IF j < i THEN s[j] ELSE s[j + 1]
<1> DEFINE a == SubSeq(s, 1, i - 1)
           b == SubSeq(s, i + 1, Len(s))
<1>1. /\ DOMAIN s = 1..Len(s) /\ Len(s) \in Nat /\ i \in 1..Len(s)
      /\ i - 1 \in Int /\ i + 1 \in Int /\ Len(s) \in Int /\ 1 \in Int
      /\ \A j \in 1..Len(s) : s[j] \in S
  BY ElementOfSeq
<1>2. a \in Seq(S) /\ Len(a) = i - 1 /\ \A j \in 1..(i - 1) : a[j] = s[j]
  <2>1. \A j \in 1..(i - 1) : s[j] \in S
    BY <1>1
  <2> QED BY <1>1, <2>1, SubSeqProperties
<1>3. b \in Seq(S) /\ Len(b) = Len(s) - i /\ \A j \in 1..(Len(s) - i) : b[j] = s[j + i]
  <2>1. \A j \in (i + 1)..Len(s) : s[j] \in S
    BY <1>1
  <2>2. /\ b \in Seq(S) /\ Len(b) = IF i + 1 <= Len(s) THEN Len(s) - (i + 1) + 1 ELSE 0
        /\ \A j \in 1..(Len(s) - (i + 1) + 1) : b[j] = s[(i + 1) + j - 1]
    BY <1>1, <2>1, SubSeqProperties
  <2> QED BY <1>1, <2>2
<1> HIDE DEF a, b
<1>4. /\ a \o b \in Seq(S) /\ Len(a \o b) = Len(a) + Len(b)
      /\ \A j \in 1..(Len(a) + Len(b)) : (a \o b)[j] = IF j <= Len(a) THEN a[j] ELSE b[j - Len(a)]
  BY <1>2, <1>3, ConcatProperties
<1>5. ASSUME NEW j \in 1..(Len(s) - 1)
      PROVE  (a \o b)[j] = IF j < i THEN s[j] ELSE s[j + 1]
  <2>1. j \in 1..(Len(a) + Len(b)) /\ Len(a) = i - 1 /\ j \in Int /\ i \in Int
    BY <1>1, <1>2, <1>3
  <2>2. CASE j < i
    <3>1. j <= Len(a) /\ j \in 1..(i - 1)
      BY <2>1, <2>2
    <3> QED BY <3>1, <2>1, <2>2, <1>2, <1>4
  <2>3. CASE ~(j < i)
    <3>1. ~(j <= Len(a)) /\ j - (i - 1) \in 1..(Len(s) - i) /\ (j - (i - 1)) + i = j + 1
      BY <1>1, <2>1, <2>3
    <3>2. (a \o b)[j] = b[j - (i - 1)]
      BY <3>1, <2>1, <1>4
    <3> QED BY <3>1, <3>2, <2>3, <1>3
  <2> QED BY <2>2, <2>3
<1>6. RemoveAt(s, i) = a \o b
  BY DEF RemoveAt, a, b
<1>7. Len(a) + Len(b) = Len(s) - 1
  BY <1>1, <1>2, <1>3
<1> QED BY <1>4, <1>5, <1>6, <1>7

\* What is left of some slots when one goes.
LEMMA OneGone ==
  ASSUME NEW S, NEW s \in Seq(S), NEW i \in DOMAIN s
  PROVE  /\ ToSet(RemoveAt(s, i)) \subseteq ToSet(s)
         /\ ToSet(s) \subseteq ToSet(RemoveAt(s, i)) \cup {s[i]}
<1> DEFINE r == RemoveAt(s, i)
<1>1. /\ DOMAIN s = 1..Len(s) /\ Len(s) \in Nat /\ i \in 1..Len(s)
      /\ r \in Seq(S) /\ DOMAIN r = 1..(Len(s) - 1)
      /\ \A j \in 1..(Len(s) - 1) : r[j] = IF j < i THEN s[j] ELSE s[j + 1]
  <2>1. DOMAIN s = 1..Len(s) /\ Len(s) \in Nat
    OBVIOUS
  <2>2. /\ r \in Seq(S) /\ Len(r) = Len(s) - 1
        /\ \A j \in 1..(Len(s) - 1) : r[j] = IF j < i THEN s[j] ELSE s[j + 1]
    BY Removed
  <2> QED BY <2>1, <2>2
<1> HIDE DEF r
<1>2. ASSUME NEW x \in ToSet(r)
      PROVE  \E j \in DOMAIN s \ {i} : x = s[j]
  <2>1. PICK j \in 1..(Len(s) - 1) : x = r[j]
    BY <1>1 DEF ToSet
  <2>2. CASE j < i
    BY <1>1, <2>1, <2>2
  <2>3. CASE ~(j < i)
    <3>1. j + 1 \in DOMAIN s \ {i} /\ x = s[j + 1]
      BY <1>1, <2>1, <2>3
    <3> QED BY <3>1
  <2> QED BY <2>2, <2>3
<1>3. ASSUME NEW j \in DOMAIN s \ {i}
      PROVE  s[j] \in ToSet(r)
  <2>1. CASE j < i
    <3>1. j \in DOMAIN r /\ r[j] = s[j]
      BY <1>1, <2>1
    <3> QED BY <3>1 DEF ToSet
  <2>2. CASE ~(j < i)
    <3>1. j - 1 \in DOMAIN r /\ r[j - 1] = s[j]
      BY <1>1, <2>2
    <3> QED BY <3>1 DEF ToSet
  <2> QED BY <2>1, <2>2
<1>4. ToSet(r) \subseteq ToSet(s) /\ ToSet(s) \subseteq ToSet(r) \cup {s[i]}
  BY <1>2, <1>3 DEF ToSet
<1> QED BY <1>4 DEF r

\* The elements of a longer sequence.
LEMMA Appended ==
  ASSUME NEW S, NEW s \in Seq(S), NEW e \in S
  PROVE  ToSet(Append(s, e)) = ToSet(s) \cup {e}
<1>1. /\ DOMAIN s = 1..Len(s) /\ Len(s) \in Nat /\ DOMAIN Append(s, e) = 1..(Len(s) + 1)
      /\ \A i \in 1..Len(s) : Append(s, e)[i] = s[i]
      /\ Append(s, e)[Len(s) + 1] = e
  BY AppendProperties
<1> QED BY <1>1 DEF ToSet

-----------------------------------------------------------------------------
(* The reader's operations and the calls.                                  *)

\* What a sequence has after a position.
LEMMA LeftOver ==
  ASSUME NEW S, NEW l \in Seq(S), NEW i \in DOMAIN l
  PROVE  /\ SubSeq(l, i + 1, Len(l)) \in Seq(S)
         /\ Len(SubSeq(l, i + 1, Len(l))) = Len(l) - i
         /\ \A j \in 1..(Len(l) - i) : SubSeq(l, i + 1, Len(l))[j] = l[i + j]
<1>1. DOMAIN l = 1..Len(l) /\ Len(l) \in Nat /\ i \in 1..Len(l) /\ i + 1 \in Int /\ Len(l) \in Int
  OBVIOUS
<1>2. \A j \in (i + 1)..Len(l) : l[j] \in S
  BY <1>1, ElementOfSeq
<1> QED BY <1>1, <1>2, SubSeqProperties

\* Enrolments are prints, and prints have an owner, a finger and a template.
LEMMA PrintTypes ==
  /\ Enrolments \subseteq Prints
  /\ Prints \subseteq [user : Users \cup {None}, finger : Fingers \cup {None}, template : Templates]
  /\ Enrolments \subseteq [user : Users, finger : Fingers, template : Templates]
  /\ None \notin Users \cup Fingers \cup Templates \cup Handlers \cup Pumps
  /\ Handlers \cap Pumps = {} /\ Callers = Handlers \cup Pumps
BY ReaderAssumption, MocAssumption DEF Prints, Printed, Callers

\* A deletion takes the print it names, and no other.
LEMMA PrintDeleted ==
  ASSUME ReaderTyped, TemplatesTellPrints, NEW p \in Prints, DeletePrint(p.template)
  PROVE  /\ slots' \in Seq(Prints)
         /\ ToSet(slots') \subseteq ToSet(slots)
         /\ ToSet(slots) \subseteq ToSet(slots') \cup {p}
<1> DEFINE i == FirstWith(p.template)
<1>1. slots \in Seq(Prints) /\ i \in DOMAIN slots /\ slots[i].template = p.template
  BY FirstSlot DEF ReaderTyped, DeletePrint
<1>2. slots[i] \in Prints
  BY <1>1
<1>3. slots[i] = p
  BY <1>1, <1>2 DEF TemplatesTellPrints
<1>4. slots' = RemoveAt(slots, i)
  BY DEF DeletePrint
<1> HIDE DEF i
<1>5. RemoveAt(slots, i) \in Seq(Prints)
  BY <1>1, Removed
<1>6. /\ ToSet(RemoveAt(slots, i)) \subseteq ToSet(slots)
      /\ ToSet(slots) \subseteq ToSet(RemoveAt(slots, i)) \cup {slots[i]}
  BY <1>1, OneGone
<1> QED BY <1>3, <1>4, <1>5, <1>6

\* The last touch adds the enrolment's print, if anything.
LEMMA PrintAdded ==
  ASSUME ReaderTyped, Finish
  PROVE  /\ slots' \in Seq(Prints) /\ capture.print \in Enrolments
         /\ ToSet(slots) \subseteq ToSet(slots')
         /\ slots' = slots \/ slots' = Append(slots, capture.print)
<1>1. capture.print \in Enrolments /\ capture.print \in Prints
  BY PrintTypes DEF Finish, ReaderTyped
<1>2. CASE slots' = slots
  BY <1>1, <1>2 DEF ReaderTyped
<1>3. CASE slots' = Append(slots, capture.print)
  BY <1>1, <1>3, AppendProperties, Appended DEF ReaderTyped
<1> QED BY <1>2, <1>3 DEF Finish

\* A command sent changes its caller's call only.
LEMMA Sent ==
  ASSUME CallsTyped, NEW c \in Callers, NEW k \in Commands, NEW p \in Prints \cup {None}, Send(c, k, p)
  PROVE  /\ CallsTyped'
         /\ ask'[c] = [kind |-> k, print |-> p] /\ reply'[c] = <<"none">>
         /\ \A d \in Callers \ {c} : ask'[d] = ask[d] /\ reply'[d] = reply[d]
<1>1. queue' \in Seq(Callers)
  BY AppendProperties DEF CallsTyped, Send
<1>2. ask' \in [Callers -> [kind : Commands, print : Prints \cup {None}]]
  BY DEF CallsTyped, Send
<1>3. reply' \in [Callers -> Replies]
  BY DEF CallsTyped, Send, Replies
<1> QED BY <1>1, <1>2, <1>3 DEF CallsTyped, Send

\* So does a reply taken.
LEMMA ReplyTaken ==
  ASSUME CallsTyped, NEW h \in Handlers, Taken(h)
  PROVE  /\ CallsTyped'
         /\ ask' = ask /\ queue' = queue /\ reply'[h] = <<"none">>
         /\ \A d \in Callers \ {h} : reply'[d] = reply[d]
<1>1. reply' \in [Callers -> Replies]
  BY DEF CallsTyped, Taken, Replies
<1> QED BY <1>1, PrintTypes DEF CallsTyped, Taken

\* An answer ends the call of the first in the queue.
LEMMA Answered ==
  ASSUME CallsTyped, queue # <<>>, NEW a \in Replies, Answer(a)
  PROVE  /\ CallsTyped' /\ UNCHANGED daemon /\ Head1 \in Callers
         /\ ask'[Head1] = NoAsk /\ reply'[Head1] \in {<<"none">>, a}
         /\ \A d \in Callers \ {Head1} : ask'[d] = ask[d] /\ reply'[d] = reply[d]
<1>1. Head1 \in Callers /\ queue' \in Seq(Callers)
  BY HeadTailProperties DEF CallsTyped, Answer, Head1
<1>2. ask' \in [Callers -> [kind : Commands, print : Prints \cup {None}]] /\ ask'[Head1] = NoAsk
  BY <1>1 DEF CallsTyped, Answer, NoAsk, Commands
<1>3. <<"none">> \in Replies
  BY DEF Replies
<1>4. reply' \in [Callers -> Replies] /\ reply'[Head1] \in {<<"none">>, a}
  BY <1>1, <1>3 DEF CallsTyped, Answer
<1> QED BY <1>1, <1>2, <1>4 DEF CallsTyped, Answer

-----------------------------------------------------------------------------
(* The reader's actor keeps MocInv.                                        *)

\* What an action of the actor does to the calls: it answers one, or none.
LEMMA SensorAnswers ==
  ASSUME MocInv, Sensor
  PROVE  \/ UNCHANGED <<daemon, calls>>
         \/ queue # <<>> /\ \E a \in Replies : Answer(a)
<1>1. /\ <<"ok">> \in Replies /\ <<"failed">> \in Replies /\ <<"none">> \in Replies
      /\ <<"listed", slots>> \in Replies
      /\ \A p \in Enrolments : <<"enrolled", p>> \in Replies
  BY DEF Replies, MocInv, TypeOK, ReaderTyped
<1>2. CASE ServeOpen \/ ServeClose \/ ServeList \/ ServeDelete \/ ServeClear \/ ServeFails \/ ServeCancelled
  BY <1>1, <1>2 DEF ServeOpen, ServeClose, ServeList, ServeDelete, ServeClear, ServeFails,
                    ServeCancelled, Serving
<1>3. CASE ServeBegin \/ ServeAdvance
  BY <1>3 DEF ServeBegin, ServeAdvance
<1>4. CASE ServeFinish
  BY <1>1, <1>4, PrintAdded DEF ServeFinish, Serving, MocInv, TypeOK
<1> QED BY <1>2, <1>3, <1>4 DEF Sensor

\* The queue without its first stays a queue.
LEMMA QueueShrinks ==
  ASSUME CallsTyped, Queued, queue # <<>>, NEW a \in Replies, Answer(a)
  PROVE  /\ Queued'
         /\ Len(queue) \in Nat \ {0} /\ DOMAIN queue = 1..Len(queue) /\ queue[1] = Head1
         /\ DOMAIN queue' = 1..(Len(queue) - 1)
         /\ \A i \in 1..(Len(queue) - 1) : queue'[i] = queue[i + 1] /\ queue'[i] # Head1
<1>1. /\ queue \in Seq(Callers) /\ Len(queue) \in Nat \ {0} /\ DOMAIN queue = 1..Len(queue)
      /\ queue[1] = Head1
  BY DEF CallsTyped, Head1
<1>2. /\ DOMAIN queue' = 1..(Len(queue) - 1)
      /\ \A i \in 1..(Len(queue) - 1) : queue'[i] = queue[i + 1]
  <2>1. queue' = Tail(queue)
    BY DEF Answer
  <2>2. /\ Tail(queue) \in Seq(Callers) /\ Len(Tail(queue)) = Len(queue) - 1
        /\ \A i \in 1..Len(Tail(queue)) : Tail(queue)[i] = queue[i + 1]
    BY <1>1, HeadTailProperties
  <2> QED BY <2>1, <2>2
<1>3. \A i \in 1..(Len(queue) - 1) : queue'[i] # Head1 /\ i + 1 \in DOMAIN queue /\ queue[i + 1] \in Callers
  BY <1>1, <1>2 DEF Queued
<1>4. \A i \in DOMAIN queue' : ask'[queue'[i]] = ask[queue[i + 1]] /\ pst' = pst
  BY <1>1, <1>2, <1>3, Answered DEF daemon
<1>5. \A i, j \in DOMAIN queue' : queue'[i] = queue'[j] => i = j
  BY <1>1, <1>2, <1>3 DEF Queued
<1>6. \A i \in DOMAIN queue' : /\ ask'[queue'[i]].kind # "none"
                               /\ queue'[i] \in Pumps => pst'[queue'[i]] # "start"
  BY <1>2, <1>3, <1>4 DEF Queued
<1> QED BY <1>1, <1>2, <1>3, <1>5, <1>6 DEF Queued

\* The actor leaves the daemon alone, and of the calls it ends at most one.
LEMMA SensorLeavesDaemon ==
  ASSUME MocInv, Sensor
  PROVE  /\ UNCHANGED daemon /\ CallsTyped' /\ Queued'
         /\ \A c \in Callers : \/ ask'[c] = ask[c] /\ reply'[c] = reply[c]
                               \/ ask'[c] = NoAsk /\ (c \in Pumps => pst[c] # "start")
<1>1. CASE UNCHANGED <<daemon, calls>>
  BY <1>1 DEF calls, daemon, CallsTyped, MocInv, TypeOK, Queued
<1>2. CASE queue # <<>> /\ \E a \in Replies : Answer(a)
  <2> PICK a \in Replies : Answer(a)
    BY <1>2
  <2>1. Queued' /\ 1 \in DOMAIN queue /\ queue[1] = Head1
    BY <1>2, QueueShrinks DEF MocInv, TypeOK
  <2>2. Head1 \in Pumps => pst[Head1] # "start"
    BY <2>1 DEF MocInv, Queued
  <2> QED BY <1>2, <2>1, <2>2, Answered DEF MocInv, TypeOK
<1> QED BY <1>1, <1>2, SensorAnswers

\* The reader's state keeps its type.
LEMMA SensorTypesReader ==
  ASSUME MocInv, TemplatesTellPrints, Sensor
  PROVE  ReaderTyped'
<1>1. CASE ServeOpen \/ ServeClose \/ ServeList
  BY <1>1 DEF ServeOpen, ServeClose, ServeList, OpenReader, CloseReader, reader,
              MocInv, TypeOK, ReaderTyped
<1>2. CASE ServeDelete
  <2>1. Head1 \in Callers /\ ask[Head1] \in [kind : Commands, print : Prints \cup {None}]
    BY <1>2, HeadTailProperties DEF MocInv, TypeOK, CallsTyped, Head1, ServeDelete, Serving
  <2>2. Request.print \in Prints
    BY <1>2, <2>1, PrintTypes DEF ServeDelete, Serving, Request, MocInv, Asked, PumpAsks, OwnWork, OwnAsk, OwnSlot
  <2>3. slots' \in Seq(Prints)
    BY <1>2, <2>2, PrintDeleted DEF ServeDelete, MocInv, TypeOK
  <2> QED BY <1>2, <2>3 DEF ServeDelete, DeletePrint, MocInv, TypeOK, ReaderTyped
<1>3. CASE ServeClear
  BY <1>3 DEF ServeClear, ClearStorage, MocInv, TypeOK, ReaderTyped
<1>4. CASE ServeFails \/ ServeCancelled
  BY <1>4 DEF ServeFails, ServeCancelled, DropEnroll, reader, MocInv, TypeOK, ReaderTyped
<1>5. CASE ServeBegin
  <2>1. Head1 \in Callers /\ Request.kind = "enroll"
    BY <1>5, HeadTailProperties DEF MocInv, TypeOK, CallsTyped, Head1, ServeBegin, Serving
  <2>2. Request.print \in Enrolments
    BY <2>1, PrintTypes DEF Request, MocInv, Asked, HandlerAsks, PumpAsks, Waits
  <2> QED BY <1>5, <2>2 DEF ServeBegin, BeginEnroll, MocInv, TypeOK, ReaderTyped
<1>6. CASE ServeAdvance
  BY <1>6 DEF ServeAdvance, Advance, MocInv, TypeOK, ReaderTyped
<1>7. CASE ServeFinish
  BY <1>7, PrintAdded DEF ServeFinish, Finish, MocInv, TypeOK, ReaderTyped
<1> QED BY <1>1, <1>2, <1>3, <1>4, <1>5, <1>6, <1>7 DEF Sensor

\* The shape settles once, when the reader is opened for a Claim.
LEMMA ShapeSettles ==
  ASSUME MocInv, Sensor
  PROVE  /\ features \in Shapes => features' = features
         /\ features' \notin Shapes => UNCHANGED <<open, features>> \/ ~open'
         /\ Settled'
<1>1. CASE ServeOpen
  BY <1>1 DEF ServeOpen, OpenReader, Settled
<1>2. CASE ServeClose
  <2>1. Head1 \in Callers /\ ask[Head1].kind = "close" /\ queue # <<>>
    BY <1>2, HeadTailProperties DEF MocInv, TypeOK, CallsTyped, Head1, ServeClose, Serving, Request
  <2>2. Head1 \in Handlers => pc[Head1] = "closing"
    BY <2>1 DEF MocInv, Asked, HandlerAsks, Waits
  <2>3. Answer(<<"ok">>) /\ <<"ok">> \in Replies
    BY <1>2 DEF ServeClose, Replies
  <2>4. \A h \in Handlers : h # Head1 => reply'[h] = reply[h]
    BY <2>1, <2>3, Answered, PrintTypes DEF MocInv, TypeOK
  <2>5. UNCHANGED <<claim, serving, pc, features>> /\ ~open'
    BY <1>2 DEF ServeClose, CloseReader, Answer, daemon
  <2> QED BY <2>2, <2>4, <2>5 DEF MocInv, Settled, Busy
<1>3. CASE ServeList \/ ServeDelete \/ ServeClear
  <2>1. open /\ UNCHANGED features
    BY <1>3 DEF ServeList, ServeDelete, ServeClear, DeletePrint, ClearStorage, reader
  <2> QED BY <2>1 DEF MocInv, Settled
<1>4. CASE ServeBegin \/ ServeAdvance
  BY <1>4 DEF ServeBegin, ServeAdvance, BeginEnroll, Advance, MocInv, Settled, daemon, calls, Busy
<1>5. CASE ServeFails \/ ServeCancelled \/ ServeFinish
  <2>1. UNCHANGED <<open, features>>
    BY <1>5 DEF ServeFails, ServeCancelled, ServeFinish, DropEnroll, Finish, reader
  <2>2. UNCHANGED <<claim, serving, pc>>
    BY <1>5 DEF ServeFails, ServeCancelled, ServeFinish, Answer, daemon
  <2>3. PICK a \in Replies : Answer(a) /\ queue # <<>> /\ a # <<"ok">>
    <3>1. CASE ServeFails \/ ServeCancelled
      BY <3>1 DEF ServeFails, ServeCancelled, Replies, Serving
    <3>2. CASE ServeFinish
      <4>1. <<"enrolled", capture.print>> \in Replies
        BY <3>2, PrintAdded DEF ServeFinish, Replies, MocInv, TypeOK
      <4>2. <<"enrolled", capture.print>> # <<"ok">>
        <5>1. <<"enrolled", capture.print>>[1] # <<"ok">>[1]
          OBVIOUS
        <5> QED BY <5>1
      <4> QED BY <3>2, <4>1, <4>2 DEF ServeFinish, Serving
    <3> QED BY <1>5, <3>1, <3>2
  <2>4. \A h \in Handlers : reply'[h] = <<"ok">> => reply[h] = <<"ok">>
    <3>1. <<"none">> # <<"ok">> /\ CallsTyped
      BY DEF MocInv, TypeOK
    <3>2. /\ reply'[Head1] \in {<<"none">>, a}
          /\ \A d \in Callers \ {Head1} : reply'[d] = reply[d]
      BY <2>3, <3>1, Answered
    <3> QED BY <2>3, <3>1, <3>2, PrintTypes
  <2> QED BY <2>1, <2>2, <2>4 DEF MocInv, Settled, Busy
<1> QED BY <1>1, <1>2, <1>3, <1>4, <1>5 DEF Sensor

\* The actor keeps the invariant.
LEMMA SensorKeepsMoc ==
  ASSUME MocInv, TemplatesTellPrints, Sensor
  PROVE  MocInv'
<1>1. /\ UNCHANGED daemon /\ CallsTyped' /\ Queued'
      /\ \A c \in Callers : \/ ask'[c] = ask[c] /\ reply'[c] = reply[c]
                            \/ ask'[c] = NoAsk /\ (c \in Pumps => pst[c] # "start")
  BY SensorLeavesDaemon
<1>2. TypeOK' /\ RecordsOfEnrolments'
  BY <1>1, SensorTypesReader DEF TypeOK, MocInv, DaemonTyped, daemon, RecordsOfEnrolments, Recorded, Slot
<1>3. Asked'
  BY <1>1, PrintTypes DEF daemon, MocInv, Asked, HandlerAsks, PumpAsks, NoAsk, TypeOK, DaemonTyped
<1>4. Settled' /\ (features \in Shapes => features' = features)
  BY ShapeSettles
<1>5. ASSUME NEW h \in Handlers
      PROVE  OwnWork(h)'
  <2>1. OwnWork(h) /\ UNCHANGED <<pc, loc>>
    BY <1>1 DEF MocInv, daemon
  <2>2. ask'[h].kind = "delete" => ask'[h] = ask[h]
    BY <1>1, PrintTypes DEF NoAsk
  <2>3. pc[h] \in Deleting => features' = features
    BY <1>4 DEF MocInv, Settled, Deleting
  <2> QED BY <2>1, <2>2, <2>3 DEF OwnWork, OwnLocals, OwnAsk, Deleting
<1> QED BY <1>1, <1>2, <1>3, <1>4, <1>5 DEF MocInv

-----------------------------------------------------------------------------
(* Handlers keep MocInv.                                                   *)

\* A command sent by a caller that has none there keeps the queue.
LEMMA QueueGrows ==
  ASSUME CallsTyped, Queued, NEW c \in Callers, NEW k \in Commands \ {"none"},
         NEW p \in Prints \cup {None}, Send(c, k, p),
         c \notin ToSet(queue), c \in Pumps => pst'[c] # "start",
         \A q \in Pumps \ {c} : pst'[q] = pst[q]
  PROVE  /\ Queued'
         /\ Len(queue) \in Nat /\ DOMAIN queue = 1..Len(queue) /\ DOMAIN queue' = 1..(Len(queue) + 1)
         /\ \A i \in 1..Len(queue) : queue'[i] = queue[i] /\ queue'[i] # c
         /\ queue'[Len(queue) + 1] = c
<1>1. /\ queue \in Seq(Callers) /\ Len(queue) \in Nat /\ DOMAIN queue = 1..Len(queue)
      /\ \A i \in 1..Len(queue) : queue[i] # c /\ queue[i] \in Callers
  BY DEF CallsTyped, ToSet
<1>2. /\ DOMAIN queue' = 1..(Len(queue) + 1)
      /\ \A i \in 1..Len(queue) : queue'[i] = queue[i]
      /\ queue'[Len(queue) + 1] = c
  <2>1. queue' = Append(queue, c)
    BY DEF Send
  <2>2. /\ Append(queue, c) \in Seq(Callers) /\ Len(Append(queue, c)) = Len(queue) + 1
        /\ \A i \in 1..Len(queue) : Append(queue, c)[i] = queue[i]
        /\ Append(queue, c)[Len(queue) + 1] = c
    BY <1>1, AppendProperties
  <2> QED BY <2>1, <2>2
<1>3. \A i, j \in DOMAIN queue' : queue'[i] = queue'[j] => i = j
  BY <1>1, <1>2 DEF Queued
<1>4. /\ ask'[c].kind = k /\ \A d \in Callers \ {c} : ask'[d] = ask[d]
  BY DEF Send, CallsTyped
<1>5. ASSUME NEW i \in DOMAIN queue'
      PROVE  ask'[queue'[i]].kind # "none" /\ (queue'[i] \in Pumps => pst'[queue'[i]] # "start")
  <2>1. CASE i = Len(queue) + 1
    BY <2>1, <1>2, <1>4
  <2>2. CASE i \in 1..Len(queue)
    BY <2>2, <1>1, <1>2, <1>4 DEF Queued
  <2> QED BY <2>1, <2>2, <1>1, <1>2
<1> QED BY <1>1, <1>2, <1>3, <1>5 DEF Queued

\* A step of one handler, as far as the calls and the other handlers go.
HandlerStep(h) ==
  /\ UNCHANGED <<open, features, pst>>
  /\ ask[h].kind = "none"
  /\ \A g \in Handlers \ {h} : pc'[g] = pc[g] /\ loc'[g] = loc[g]
  /\ \/ UNCHANGED calls
     \/ Taken(h)
     \/ \E k \in Commands \ {"none"}, p \in Prints \cup {None} :
          /\ <<pc'[h], k>> \in Waits
          /\ k = "delete" => OwnSlot(loc'[h].user, p)
          /\ Send(h, k, p)

\* The calls stay in order when a handler asks, takes a reply, or does neither.
LEMMA HandlerStepKeeps ==
  ASSUME MocInv, NEW h \in Handlers, HandlerStep(h), OwnLocals(h)'
  PROVE  CallsTyped' /\ Asked' /\ Queued' /\ \A g \in Handlers : OwnWork(g)'
<1> USE PrintTypes
<1>1. \A c \in Callers \ {h} : ask'[c] = ask[c] /\ reply'[c] = reply[c]
  BY Sent, ReplyTaken DEF HandlerStep, calls, MocInv, TypeOK
<1>2. CallsTyped' /\ HandlerAsks(h)' /\ OwnAsk(h)'
  <2>1. CASE UNCHANGED calls
    BY <2>1 DEF HandlerStep, calls, MocInv, TypeOK, CallsTyped, Asked, HandlerAsks, OwnAsk
  <2>2. CASE Taken(h)
    <3>1. CallsTyped' /\ ask' = ask /\ reply'[h] = <<"none">>
      BY <2>2, ReplyTaken DEF MocInv, TypeOK
    <3> QED BY <3>1 DEF HandlerStep, HandlerAsks, OwnAsk
  <2>3. ASSUME NEW k \in Commands \ {"none"}, NEW p \in Prints \cup {None},
               <<pc'[h], k>> \in Waits, k = "delete" => OwnSlot(loc'[h].user, p), Send(h, k, p)
        PROVE  CallsTyped' /\ HandlerAsks(h)' /\ OwnAsk(h)'
    <3>1. CallsTyped' /\ ask'[h] = [kind |-> k, print |-> p] /\ reply'[h] = <<"none">>
      BY <2>3, Sent DEF MocInv, TypeOK
    <3> QED BY <2>3, <3>1 DEF HandlerAsks, OwnAsk, OwnSlot
  <2> QED BY <2>1, <2>2, <2>3 DEF HandlerStep
<1>3. Queued'
  <2>1. CASE UNCHANGED calls \/ Taken(h)
    BY <2>1 DEF calls, Taken, HandlerStep, MocInv, Queued
  <2>2. h \notin ToSet(queue) /\ h \notin Pumps
    BY DEF HandlerStep, MocInv, Queued, ToSet
  <2>3. ASSUME NEW k \in Commands \ {"none"}, NEW p \in Prints \cup {None}, Send(h, k, p)
        PROVE  Queued'
    BY <2>2, <2>3, QueueGrows DEF HandlerStep, MocInv, TypeOK
  <2> QED BY <2>1, <2>3 DEF HandlerStep
<1>4. Asked'
  <2>1. ASSUME NEW g \in Handlers \ {h}
        PROVE  HandlerAsks(g)'
    BY <1>1 DEF HandlerStep, MocInv, Asked, HandlerAsks
  <2>2. ASSUME NEW p \in Pumps
        PROVE  PumpAsks(p)'
    BY <1>1 DEF HandlerStep, MocInv, Asked, PumpAsks
  <2> QED BY <1>2, <2>1, <2>2 DEF Asked
<1>5. ASSUME NEW g \in Handlers
      PROVE  OwnWork(g)'
  <2>1. CASE g = h
    BY <2>1, <1>2 DEF OwnWork
  <2>2. CASE g # h
    BY <2>2, <1>1 DEF HandlerStep, MocInv, OwnWork, OwnLocals, OwnAsk
  <2> QED BY <2>1, <2>2
<1> QED BY <1>2, <1>3, <1>4, <1>5

\* A record dropped, or none.
LEMMA RecordDropped ==
  ASSUME DaemonTyped, RecordsOfEnrolments, NEW u \in Users, NEW f \in Fingers,
         rec' \in {rec, [rec EXCEPT ![u][f] = None]}
  PROVE  /\ RecordsOfEnrolments'
         /\ rec' \in [Users -> [Fingers -> Templates \cup {None}]]
         /\ \A v \in Users, g \in Fingers : rec'[v][g] = rec[v][g] \/ (v = u /\ g = f /\ rec'[v][g] = None)
<1>1. /\ rec' \in [Users -> [Fingers -> Templates \cup {None}]]
      /\ \A v \in Users, g \in Fingers : rec'[v][g] = rec[v][g] \/ (v = u /\ g = f /\ rec'[v][g] = None)
  BY DEF DaemonTyped
<1> QED BY <1>1 DEF RecordsOfEnrolments, Recorded, Slot

\* What every handler's action has in common.
HandlerKeeps(h) ==
  /\ HandlerStep(h) /\ UNCHANGED <<slots, capture>>
  /\ OwnLocals(h)' /\ DaemonTyped' /\ RecordsOfEnrolments' /\ Settled'

\* A handler that has its reply, or waits for none, has no command there.
LEMMA NothingAsked ==
  ASSUME MocInv, NEW h \in Handlers,
         \/ reply[h] # <<"none">>
         \/ pc[h] \notin {"opening", "listing", "freeing", "closing", "unslot", "wiping"}
  PROVE  ask[h].kind = "none"
BY DEF MocInv, Asked, HandlerAsks, Waits

\* A reply is told from another by its first component.
LEMMA RepliesDiffer ==
  /\ <<"ok">> # <<"none">> /\ <<"failed">> # <<"none">> /\ <<"ok">> # <<"failed">>
  /\ \A r : r[1] = "listed" \/ r[1] = "enrolled" => r # <<"none">> /\ r # <<"failed">> /\ r # <<"ok">>
<1>1. <<"none">>[1] = "none" /\ <<"ok">>[1] = "ok" /\ <<"failed">>[1] = "failed"
  OBVIOUS
<1> QED BY <1>1

\* A handler that returns.
LEMMA ReturnKeeps ==
  ASSUME MocInv, NEW h \in Handlers, ask[h].kind = "none", Return(h), Taken(h),
         UNCHANGED <<reader, rec, active, pst, stop>>,
         \/ claim' = None
         \/ claim' = claim /\ (features \in Shapes \/ serving # h)
  PROVE  HandlerKeeps(h)
<1> USE PrintTypes
<1>1. HandlerStep(h) /\ UNCHANGED <<slots, capture>>
  BY DEF HandlerStep, Return, Goto, Set, reader, MocInv, TypeOK, DaemonTyped
<1>2. pc'[h] = "idle" /\ loc' \in [Handlers -> Locals] /\ UNCHANGED features
  <2>1. NoLocals \in Locals
    BY DEF NoLocals, Locals
  <2> QED BY <2>1 DEF Return, Goto, Set, reader, MocInv, TypeOK, DaemonTyped
<1>3. OwnLocals(h)'
  BY <1>2 DEF OwnLocals, Comparing, Deleting
<1>4. DaemonTyped'
  BY <1>2 DEF Return, Goto, MocInv, TypeOK, DaemonTyped
<1>5. RecordsOfEnrolments'
  BY DEF MocInv, RecordsOfEnrolments, Recorded, Slot
<1>6. Settled'
  <2>1. \A g \in Handlers \ {h} : pc'[g] = pc[g] /\ reply'[g] = reply[g]
    BY DEF Return, Goto, Taken, MocInv, TypeOK, DaemonTyped, CallsTyped
  <2>2. serving' = (IF serving = h THEN None ELSE serving) /\ UNCHANGED <<open, features>>
    BY DEF Return, reader
  <2>3. serving \in Handlers \cup {None}
    BY DEF MocInv, TypeOK, DaemonTyped
  <2> QED BY <1>2, <2>1, <2>2, <2>3 DEF MocInv, Settled, Busy
<1> QED BY <1>1, <1>3, <1>4, <1>5, <1>6 DEF HandlerKeeps

\* A handler that works for a session, or on records alone.
LEMMA GoesOn ==
  ASSUME MocInv, NEW h \in Handlers, HandlerStep(h), UNCHANGED <<reader, claim, active, stop>>,
         OwnLocals(h)',
         \/ UNCHANGED rec
         \/ \E u \in Users, f \in Fingers : rec' = [rec EXCEPT ![u][f] = None],
         \/ features \in Shapes /\ serving' \in {serving, h}
         \/ pc[h] \in {"idle", "hostonly"} /\ pc'[h] = "hostonly" /\ serving' = serving,
         loc' \in [Handlers -> Locals],
         pc' \in [Handlers -> {"idle", "hostonly", "closing"} \cup Reconciling \cup Deleting]
  PROVE  HandlerKeeps(h)
<1>1. RecordsOfEnrolments' /\ rec' \in [Users -> [Fingers -> Templates \cup {None}]]
  <2>1. CASE UNCHANGED rec
    BY <2>1 DEF MocInv, RecordsOfEnrolments, Recorded, Slot, TypeOK, DaemonTyped
  <2>2. CASE \E u \in Users, f \in Fingers : rec' = [rec EXCEPT ![u][f] = None]
    BY <2>2, RecordDropped DEF MocInv, TypeOK
  <2> QED BY <2>1, <2>2
<1>2. serving' \in Handlers \cup {None}
  BY DEF MocInv, TypeOK, DaemonTyped
<1>3. DaemonTyped' /\ UNCHANGED <<slots, capture, features, open>>
  BY <1>1, <1>2 DEF DaemonTyped, MocInv, TypeOK, HandlerStep, reader
<1>4. Settled'
  <2>1. CASE features \in Shapes
    BY <2>1, <1>3 DEF Settled
  <2>2. CASE pc[h] \in {"idle", "hostonly"} /\ pc'[h] = "hostonly" /\ serving' = serving
    <3>1. \A g \in Handlers \ {h} : pc'[g] = pc[g] /\ reply'[g] = reply[g]
      <4>1. \A g \in Handlers \ {h} : reply'[g] = reply[g]
        BY Sent, ReplyTaken, PrintTypes DEF HandlerStep, calls, MocInv, TypeOK
      <4> QED BY <4>1 DEF HandlerStep
    <3> QED BY <2>2, <3>1, <1>3 DEF MocInv, Settled, Busy, TypeOK, DaemonTyped
  <2> QED BY <2>1, <2>2
<1> QED BY <1>1, <1>3, <1>4 DEF HandlerKeeps

\* The locals of a handler that starts.
LEMMA LocalsToBeginWith == NoLocals \in Locals
<1>1. <<>> \in Seq(Prints)
  OBVIOUS
<1> QED BY <1>1 DEF NoLocals, Locals

\* A Claim, and what its reconciliation does up to its end.
LEMMA ClaimKeeps ==
  ASSUME MocInv, NEW h \in Handlers, NEW u \in Users, Claim(h, u)
  PROVE  HandlerKeeps(h)
<1> USE PrintTypes
<1>1. ask[h].kind = "none"
  BY NothingAsked DEF Claim
<1>2. /\ pc' = [pc EXCEPT ![h] = "opening"] /\ pc'[h] = "opening"
      /\ loc' = [loc EXCEPT ![h] = [NoLocals EXCEPT !.user = u]]
      /\ loc'[h] = [NoLocals EXCEPT !.user = u]
      /\ Send(h, "open", None) /\ claim' = u /\ serving' = h
      /\ UNCHANGED <<reader, rec, active, pst, stop>>
  BY DEF Claim, Goto, Set, MocInv, TypeOK, DaemonTyped
<1>3. [NoLocals EXCEPT !.user = u] \in Locals /\ [NoLocals EXCEPT !.user = u].user = u
  BY LocalsToBeginWith DEF Locals
<1>4. HandlerStep(h) /\ UNCHANGED <<slots, capture, open, features>>
  BY <1>1, <1>2 DEF HandlerStep, reader, Waits, MocInv, TypeOK, DaemonTyped, Commands
<1>5. OwnLocals(h)'
  BY <1>2, <1>3 DEF OwnLocals, Comparing, Deleting
<1>6. DaemonTyped'
  BY <1>2, <1>3 DEF MocInv, TypeOK, DaemonTyped, Reconciling
<1>7. RecordsOfEnrolments'
  BY <1>2 DEF MocInv, RecordsOfEnrolments, Recorded, Slot
<1>8. Settled'
  <2>1. reply'[h] = <<"none">> /\ \A g \in Handlers \ {h} : reply'[g] = reply[g]
    BY <1>2, Sent DEF MocInv, TypeOK, Commands
  <2> QED BY <1>2, <1>4, <2>1, RepliesDiffer DEF HandlerStep, MocInv, Settled, Busy
<1> QED BY <1>4, <1>5, <1>6, <1>7, <1>8 DEF HandlerKeeps

\* The reader was opened, or the Claim fails.
LEMMA ClaimAnsweredKeeps ==
  ASSUME MocInv, NEW h \in Handlers, ClaimOpened(h) \/ ClaimFailed(h) \/ CannotConfirm(h)
  PROVE  HandlerKeeps(h)
<1> USE PrintTypes
<1>1. ask[h].kind = "none" /\ pc[h] \in {"opening", "listing"}
  <2>1. reply[h] # <<"none">>
    BY RepliesDiffer DEF ClaimOpened, ClaimFailed, CannotConfirm
  <2> QED BY <2>1, NothingAsked DEF ClaimOpened, ClaimFailed, CannotConfirm
<1>2. ClaimOpened(h) \/ CannotConfirm(h) => features \in Shapes
  BY DEF ClaimOpened, CannotConfirm, MocInv, Settled
<1>3. CASE ClaimOpened(h) /\ "list" \in features
  <2>1. /\ pc' = [pc EXCEPT ![h] = "listing"] /\ pc'[h] = "listing" /\ Send(h, "list", None)
        /\ UNCHANGED <<reader, rec, claim, serving, active, loc, pst, stop>>
    BY <1>3 DEF ClaimOpened, Goto, MocInv, TypeOK, DaemonTyped
  <2>2. HandlerStep(h)
    BY <1>1, <2>1 DEF HandlerStep, reader, Waits, MocInv, TypeOK, DaemonTyped, Commands
  <2>3. OwnLocals(h)' /\ loc' \in [Handlers -> Locals]
        /\ pc' \in [Handlers -> {"idle", "hostonly", "closing"} \cup Reconciling \cup Deleting]
    BY <1>1, <2>1 DEF OwnLocals, Comparing, Deleting, Reconciling, MocInv, TypeOK, DaemonTyped, OwnWork
  <2> QED BY <1>2, <1>3, <2>1, <2>2, <2>3, GoesOn
<1>4. CASE ~(ClaimOpened(h) /\ "list" \in features)
  <2>1. Return(h) /\ Taken(h) /\ UNCHANGED <<reader, rec, active, pst, stop>>
    BY <1>4 DEF ClaimOpened, ClaimFailed, CannotConfirm
  <2>2. claim' = None \/ (claim' = claim /\ features \in Shapes)
    BY <1>2, <1>4 DEF ClaimOpened, ClaimFailed, CannotConfirm
  <2> QED BY <1>1, <2>1, <2>2, ReturnKeeps
<1> QED BY <1>3, <1>4

\* The comparison of the records with the listing.
LEMMA CompareKeeps ==
  ASSUME MocInv, NEW h \in Handlers, Compare(h)
  PROVE  HandlerKeeps(h)
<1> USE PrintTypes
<1> DEFINE l == reply[h][2]
           u == loc[h].user
           new == [loc[h] EXCEPT !.host = Recorded(u), !.todo = Recorded(u) \ Named(l),
                                 !.left = IF "delete" \in features THEN l ELSE <<>>]
<1>1. ask[h].kind = "none" /\ pc[h] = "listing" /\ features \in Shapes
  BY NothingAsked, RepliesDiffer DEF Compare, MocInv, Settled
<1>2. /\ pc' = [pc EXCEPT ![h] = "dropping"] /\ pc'[h] = "dropping"
      /\ loc' = [loc EXCEPT ![h] = new] /\ loc'[h] = new /\ Taken(h)
      /\ UNCHANGED <<reader, rec, claim, serving, active, pst, stop>>
  BY DEF Compare, Goto, Set, MocInv, TypeOK, DaemonTyped
<1>3. l \in Seq(Prints)
  <2>1. reply[h] \in Replies /\ reply[h][1] = "listed"
    BY DEF Compare, MocInv, TypeOK, CallsTyped
  <2>2. reply[h] \in {"listed"} \X Seq(Prints)
    BY <2>1 DEF Replies
  <2> QED BY <2>2
<1>5. loc[h] \in Locals /\ u \in Users
  BY <1>1 DEF MocInv, TypeOK, DaemonTyped, OwnWork, OwnLocals
<1>6. new \in Locals /\ new.user = u
  <2> DEFINE H == Recorded(u)
             T == Recorded(u) \ Named(l)
             F == IF "delete" \in features THEN l ELSE <<>>
  <2>1. new = [loc[h] EXCEPT !.host = H, !.todo = T, !.left = F]
    OBVIOUS
  <2>2. H \in SUBSET Fingers /\ T \in SUBSET Fingers /\ F \in Seq(Prints)
    BY <1>3 DEF Recorded
  <2> HIDE DEF H, T, F, new
  <2> QED BY <1>5, <2>1, <2>2 DEF Locals
<1> HIDE DEF l, u, new
<1>7. HandlerStep(h)
  BY <1>1, <1>2 DEF HandlerStep, reader, MocInv, TypeOK, DaemonTyped
<1>8. /\ OwnLocals(h)' /\ loc' \in [Handlers -> Locals]
      /\ pc' \in [Handlers -> {"idle", "hostonly", "closing"} \cup Reconciling \cup Deleting]
  BY <1>2, <1>5, <1>6 DEF OwnLocals, Comparing, Deleting, Reconciling, MocInv, TypeOK, DaemonTyped, OwnSlot
<1> QED BY <1>1, <1>2, <1>7, <1>8, GoesOn

\* The rest of the reconciliation.
LEMMA ReconciliationKeeps ==
  ASSUME MocInv, NEW h \in Handlers,
         DropRecord(h) \/ FreeSlot(h) \/ Freed(h) \/ Reconciled(h)
  PROVE  HandlerKeeps(h)
<1> USE PrintTypes
<1>1. ask[h].kind = "none" /\ pc[h] \in Comparing /\ features \in Shapes
  BY NothingAsked DEF DropRecord, FreeSlot, Freed, Reconciled, Comparing, MocInv, Settled
<1>2. loc[h] \in Locals /\ loc[h].user \in Users
  BY <1>1 DEF MocInv, TypeOK, DaemonTyped, OwnWork, OwnLocals, Comparing
<1>3. CASE DropRecord(h)
  <2>1. PICK f \in loc[h].todo, fails \in BOOLEAN :
          /\ rec' = IF fails THEN rec ELSE [rec EXCEPT ![loc[h].user][f] = None]
          /\ loc' = [loc EXCEPT ![h] = [loc[h] EXCEPT !.todo = @ \ {f}, !.warned = @ \/ fails]]
    BY <1>3 DEF DropRecord, Set
  <2> DEFINE new == [loc[h] EXCEPT !.todo = @ \ {f}, !.warned = @ \/ fails]
  <2>2. f \in Fingers /\ new \in Locals /\ new.user = loc[h].user
    BY <1>2 DEF Locals
  <2>3. loc'[h] = new /\ loc' \in [Handlers -> Locals] /\ \A g \in Handlers \ {h} : loc'[g] = loc[g]
    BY <2>1, <2>2 DEF MocInv, TypeOK, DaemonTyped
  <2> HIDE DEF new
  <2>4. HandlerStep(h) /\ OwnLocals(h)'
    BY <1>1, <1>2, <1>3, <2>2, <2>3 DEF DropRecord, HandlerStep, reader, OwnLocals, Deleting, Comparing
  <2> QED BY <1>1, <1>2, <1>3, <2>1, <2>2, <2>3, <2>4, GoesOn DEF DropRecord, MocInv, TypeOK, DaemonTyped
<1>4. CASE FreeSlot(h)
  <2> DEFINE left == loc[h].left
  <2>1. PICK i \in Orphans(h) :
          /\ loc' = [loc EXCEPT ![h] = [loc[h] EXCEPT !.left = SubSeq(@, i + 1, Len(@))]]
          /\ Send(h, "delete", left[i])
    BY <1>4 DEF FreeSlot, Set
  <2> DEFINE new == [loc[h] EXCEPT !.left = SubSeq(@, i + 1, Len(@))]
             s == left[i]
  <2>2. /\ OwnSlot(loc[h].user, s) /\ s \in Prints /\ new \in Locals /\ new.user = loc[h].user
    <3>1. left \in Seq(Prints) /\ i \in DOMAIN left /\ Orphan(h, s)
      BY <1>2, <2>1 DEF Locals, Orphans
    <3>2. SubSeq(left, i + 1, Len(left)) \in Seq(Prints)
      BY <3>1, LeftOver
    <3>3. new = [loc[h] EXCEPT !.left = SubSeq(left, i + 1, Len(left))]
      OBVIOUS
    <3> HIDE DEF left, new
    <3>4. new \in Locals /\ new.user = loc[h].user
      BY <1>2, <3>2, <3>3 DEF Locals
    <3> QED BY <3>1, <3>4 DEF OwnSlot, Orphan
  <2>3. loc'[h] = new /\ loc' \in [Handlers -> Locals] /\ \A g \in Handlers \ {h} : loc'[g] = loc[g]
    BY <2>1, <2>2 DEF MocInv, TypeOK, DaemonTyped
  <2> HIDE DEF new
  <2>4. /\ pc' = [pc EXCEPT ![h] = "freeing"] /\ pc'[h] = "freeing"
        /\ pc' \in [Handlers -> {"idle", "hostonly", "closing"} \cup Reconciling \cup Deleting]
    BY <1>4 DEF FreeSlot, Goto, Reconciling, Comparing, MocInv, TypeOK, DaemonTyped
  <2>5. \E k \in Commands \ {"none"}, p \in Prints \cup {None} :
          <<pc'[h], k>> \in Waits /\ (k = "delete" => OwnSlot(loc'[h].user, p)) /\ Send(h, k, p)
    BY <2>1, <2>2, <2>3, <2>4 DEF Waits, Commands
  <2>6. HandlerStep(h)
    BY <1>1, <1>4, <2>3, <2>4, <2>5 DEF FreeSlot, HandlerStep, reader, MocInv, TypeOK, DaemonTyped
  <2>7. OwnLocals(h)'
    BY <1>2, <2>2, <2>3, <2>4 DEF OwnLocals, Deleting, Comparing
  <2> QED BY <1>1, <1>4, <2>3, <2>4, <2>6, <2>7, GoesOn DEF FreeSlot
<1>5. CASE Freed(h)
  <2> DEFINE new == [loc[h] EXCEPT !.warned = @ \/ reply[h] = <<"failed">>]
  <2>1. /\ loc' = [loc EXCEPT ![h] = new] /\ pc' = [pc EXCEPT ![h] = "dropping"]
        /\ Taken(h) /\ UNCHANGED <<reader, rec, claim, serving, active, pst, stop>>
    BY <1>5 DEF Freed, Set, Goto
  <2>2. new \in Locals /\ new.user = loc[h].user
    BY <1>2 DEF Locals
  <2>3. /\ loc'[h] = new /\ loc' \in [Handlers -> Locals] /\ pc'[h] = "dropping"
        /\ \A g \in Handlers \ {h} : loc'[g] = loc[g] /\ pc'[g] = pc[g]
        /\ pc' \in [Handlers -> {"idle", "hostonly", "closing"} \cup Reconciling \cup Deleting]
    BY <2>1, <2>2 DEF MocInv, TypeOK, DaemonTyped, Reconciling, Comparing
  <2> HIDE DEF new
  <2>4. HandlerStep(h) /\ OwnLocals(h)'
    BY <1>1, <1>2, <2>1, <2>2, <2>3 DEF HandlerStep, reader, OwnLocals, Deleting, Comparing
  <2> QED BY <1>1, <2>1, <2>3, <2>4, GoesOn
<1>6. CASE Reconciled(h)
  BY <1>1, <1>6, ReturnKeeps DEF Reconciled
<1> QED BY <1>3, <1>4, <1>5, <1>6

\* The teardown of a session.
LEMMA TeardownKeeps ==
  ASSUME MocInv, NEW h \in Handlers, Teardown(h) \/ Closed(h)
  PROVE  HandlerKeeps(h)
<1> USE PrintTypes
<1>1. ask[h].kind = "none"
  BY NothingAsked DEF Teardown, Closed
<1>2. CASE Teardown(h)
  <2>1. /\ pc' = [pc EXCEPT ![h] = "closing"] /\ pc'[h] = "closing"
        /\ loc' = [loc EXCEPT ![h] = [NoLocals EXCEPT !.user = claim]]
        /\ loc'[h] = [NoLocals EXCEPT !.user = claim]
        /\ Send(h, "close", None) /\ claim' = claim /\ serving' = h /\ active' = None
        /\ UNCHANGED <<reader, rec, pst>>
    BY <1>2 DEF Teardown, Goto, Set, StopActive, MocInv, TypeOK, DaemonTyped
  <2>2. claim \in Users /\ [NoLocals EXCEPT !.user = claim] \in Locals
        /\ [NoLocals EXCEPT !.user = claim].user = claim
    BY <1>2, LocalsToBeginWith DEF Teardown, MocInv, TypeOK, DaemonTyped, Locals
  <2>3. HandlerStep(h) /\ UNCHANGED <<slots, capture, open, features>>
    BY <1>1, <2>1 DEF HandlerStep, reader, Waits, MocInv, TypeOK, DaemonTyped, Commands
  <2>4. OwnLocals(h)'
    BY <2>1, <2>2 DEF OwnLocals, Comparing, Deleting
  <2>5. stop' \subseteq Pumps
    BY <1>2 DEF Teardown, StopActive, MocInv, TypeOK, DaemonTyped
  <2>6. DaemonTyped'
    BY <2>1, <2>2, <2>5 DEF MocInv, TypeOK, DaemonTyped
  <2>7. RecordsOfEnrolments'
    BY <2>1 DEF MocInv, RecordsOfEnrolments, Recorded, Slot
  <2>8. Settled'
    <3>1. reply'[h] = <<"none">> /\ \A g \in Handlers \ {h} : reply'[g] = reply[g]
      BY <2>1, Sent DEF MocInv, TypeOK, Commands
    <3> QED BY <2>1, <2>3, <3>1, RepliesDiffer DEF HandlerStep, MocInv, Settled, Busy
  <2> QED BY <2>3, <2>4, <2>6, <2>7, <2>8 DEF HandlerKeeps
<1>3. CASE Closed(h)
  BY <1>1, <1>3, ReturnKeeps DEF Closed
<1> QED BY <1>2, <1>3

\* The deletions, of records alone and of records and slots.
LEMMA DeletionStarts ==
  ASSUME MocInv, NEW h \in Handlers,
         DeleteOne(h) \/ DeleteAll(h) \/ \E u \in Users : DeleteUnclaimed(h, u)
  PROVE  HandlerKeeps(h)
<1> USE PrintTypes
<1>1. ask[h].kind = "none" /\ pc[h] = "idle"
  BY NothingAsked DEF DeleteOne, DeleteAll, DeleteUnclaimed, Delete
<1>2. \A u \in Users, fs \in SUBSET Fingers, w \in BOOLEAN :
        /\ [NoLocals EXCEPT !.user = u, !.todo = fs, !.wipe = w] \in Locals
        /\ [NoLocals EXCEPT !.user = u, !.todo = fs, !.wipe = w].user = u
        /\ [NoLocals EXCEPT !.user = u, !.todo = fs, !.wipe = w].wipe = w
        /\ [NoLocals EXCEPT !.user = u, !.todo = fs] \in Locals
        /\ [NoLocals EXCEPT !.user = u, !.todo = fs].user = u
  BY LocalsToBeginWith DEF Locals
<1>3. \A u : Recorded(u) \in SUBSET Fingers
  BY DEF Recorded
<1>4. CASE DeleteOne(h) \/ DeleteAll(h)
  <2>1. claim \in Users /\ features \in Shapes /\ serving' = h
    BY <1>4 DEF DeleteOne, DeleteAll, MocInv, Settled, TypeOK, DaemonTyped
  <2>2. PICK fs \in SUBSET Fingers, w \in BOOLEAN :
          Delete(h, claim, fs, w) /\ (w => "delete" \notin features)
    <3>1. CASE DeleteOne(h)
      BY <3>1 DEF DeleteOne
    <3>2. CASE DeleteAll(h)
      <4> DEFINE w == "delete" \notin features /\ "clear" \in features
      <4>1. Delete(h, claim, Recorded(claim), w) /\ w \in BOOLEAN /\ (w => "delete" \notin features)
        BY <3>2 DEF DeleteAll
      <4> HIDE DEF w
      <4> QED BY <4>1, <1>3
    <3> QED BY <1>4, <3>1, <3>2
  <2> DEFINE new == [NoLocals EXCEPT !.user = claim, !.todo = fs, !.wipe = w]
  <2>3. /\ pc' = [pc EXCEPT ![h] = "load"] /\ loc' = [loc EXCEPT ![h] = new]
        /\ UNCHANGED <<reader, rec, claim, active, pst, stop, calls>>
    BY <2>2 DEF Delete, Goto, Set
  <2>4. new \in Locals /\ new.user = claim /\ new.wipe = w
    BY <2>1, LocalsToBeginWith DEF Locals
  <2> HIDE DEF new
  <2>5. /\ loc'[h] = new /\ loc' \in [Handlers -> Locals] /\ pc'[h] = "load"
        /\ \A g \in Handlers \ {h} : loc'[g] = loc[g] /\ pc'[g] = pc[g]
        /\ pc' \in [Handlers -> {"idle", "hostonly", "closing"} \cup Reconciling \cup Deleting]
    BY <2>3, <2>4 DEF MocInv, TypeOK, DaemonTyped, Deleting
  <2>6. HandlerStep(h) /\ OwnLocals(h)'
    BY <1>1, <2>1, <2>2, <2>3, <2>4, <2>5 DEF HandlerStep, reader, OwnLocals, Deleting, Comparing
  <2> QED BY <2>1, <2>3, <2>5, <2>6, GoesOn
<1>5. ASSUME NEW u \in Users, DeleteUnclaimed(h, u)
      PROVE  HandlerKeeps(h)
  <2> DEFINE new == [NoLocals EXCEPT !.user = u, !.todo = Recorded(u)]
  <2>1. /\ pc' = [pc EXCEPT ![h] = "hostonly"] /\ loc' = [loc EXCEPT ![h] = new]
        /\ UNCHANGED <<reader, rec, claim, serving, active, pst, stop, calls>>
    BY <1>5 DEF DeleteUnclaimed, Goto, Set
  <2>2. new \in Locals /\ new.user = u
    BY <1>2, <1>3
  <2> HIDE DEF new
  <2>3. /\ loc'[h] = new /\ loc' \in [Handlers -> Locals] /\ pc'[h] = "hostonly"
        /\ \A g \in Handlers \ {h} : loc'[g] = loc[g] /\ pc'[g] = pc[g]
        /\ pc' \in [Handlers -> {"idle", "hostonly", "closing"} \cup Reconciling \cup Deleting]
    BY <2>1, <2>2 DEF MocInv, TypeOK, DaemonTyped
  <2>4. HandlerStep(h) /\ OwnLocals(h)'
    BY <1>1, <2>1, <2>2, <2>3 DEF HandlerStep, reader, OwnLocals, Deleting, Comparing
  <2> QED BY <1>1, <2>1, <2>3, <2>4, GoesOn
<1> QED BY <1>4, <1>5

\* The deletion without a claim.
LEMMA DropUnclaimedKeeps ==
  ASSUME MocInv, NEW h \in Handlers, DropUnclaimed(h)
  PROVE  HandlerKeeps(h)
<1> USE PrintTypes
<1>1. ask[h].kind = "none" /\ pc[h] = "hostonly" /\ loc[h] \in Locals /\ loc[h].user \in Users
  BY NothingAsked DEF DropUnclaimed, MocInv, OwnWork, OwnLocals, TypeOK, DaemonTyped
<1>2. PICK f \in loc[h].todo :
        /\ rec' = [rec EXCEPT ![loc[h].user][f] = None]
        /\ loc' = [loc EXCEPT ![h] = [loc[h] EXCEPT !.todo = @ \ {f}]]
  BY DEF DropUnclaimed, Set
<1> DEFINE new == [loc[h] EXCEPT !.todo = @ \ {f}]
<1>3. f \in Fingers /\ new \in Locals /\ new.user = loc[h].user
  BY <1>1 DEF Locals
<1>4. loc'[h] = new /\ loc' \in [Handlers -> Locals] /\ \A g \in Handlers \ {h} : loc'[g] = loc[g]
  BY <1>2, <1>3 DEF MocInv, TypeOK, DaemonTyped
<1> HIDE DEF new
<1>5. HandlerStep(h) /\ OwnLocals(h)'
  BY <1>1, <1>3, <1>4 DEF DropUnclaimed, HandlerStep, reader, OwnLocals, Deleting, Comparing
<1> QED BY <1>1, <1>2, <1>3, <1>4, <1>5, GoesOn DEF DropUnclaimed, MocInv, TypeOK, DaemonTyped

\* The claiming user's deletions: load, record, slot, wipe.
LEMMA DeletionKeeps ==
  ASSUME MocInv, NEW h \in Handlers,
         Load(h) \/ Unhost(h) \/ Unslotted(h) \/ WipeSensor(h) \/ Deleted(h)
  PROVE  HandlerKeeps(h)
<1> USE PrintTypes
<1> DEFINE Places == {"idle", "hostonly", "closing"} \cup Reconciling \cup Deleting
<1>1. /\ loc[h] \in Locals /\ pc[h] \in Deleting \cup {"hostonly"} /\ loc[h].user \in Users
      /\ loc[h].wipe /\ pc[h] # "hostonly" => "delete" \notin features
      /\ pc[h] # "hostonly" => features \in Shapes
  BY DEF Load, Unhost, Unslotted, WipeSensor, Deleted, Deleting, MocInv, TypeOK, DaemonTyped,
         OwnWork, OwnLocals, Settled
<1>2. ask[h].kind = "none"
  BY NothingAsked DEF Load, Unhost, Unslotted, WipeSensor, Deleted
<1>3. CASE Load(h)
  <2> PICK f \in loc[h].todo : \E t \in {rec[loc[h].user][f], None} :
          loc' = [loc EXCEPT ![h] = [loc[h] EXCEPT !.print =
                    [user |-> loc[h].user, finger |-> f, template |-> t]]]
    BY <1>3 DEF Load, Set
  <2>1. PICK t \in {rec[loc[h].user][f], None} :
          loc' = [loc EXCEPT ![h] = [loc[h] EXCEPT !.print =
                    [user |-> loc[h].user, finger |-> f, template |-> t]]]
    OBVIOUS
  <2> DEFINE p == [user |-> loc[h].user, finger |-> f, template |-> t]
             new == [loc[h] EXCEPT !.print = p]
  <2>2. f \in Fingers /\ t \in Templates \cup {None}
    BY <1>1 DEF Locals, MocInv, TypeOK, DaemonTyped
  <2>3. p \in Loaded /\ p.user = loc[h].user /\ p.template = t
    BY <1>1, <2>2 DEF Loaded
  <2>4. t # None => p \in Enrolments
    <3>1. t # None => f \in Recorded(loc[h].user) /\ p = Slot(loc[h].user, f)
      BY <2>2 DEF Recorded, Slot
    <3> QED BY <1>1, <3>1 DEF MocInv, RecordsOfEnrolments
  <2> HIDE DEF p
  <2>5. new \in Locals /\ new.user = loc[h].user /\ new.print = p /\ new.wipe = loc[h].wipe
    BY <1>1, <2>3 DEF Locals
  <2>6. loc' = [loc EXCEPT ![h] = new]
    BY <2>1 DEF p
  <2> HIDE DEF new
  <2>7. /\ loc'[h] = new /\ loc' \in [Handlers -> Locals] /\ pc'[h] = "unhost"
        /\ \A g \in Handlers \ {h} : loc'[g] = loc[g] /\ pc'[g] = pc[g]
        /\ pc' \in [Handlers -> Places]
    BY <1>3, <2>5, <2>6 DEF Load, Goto, MocInv, TypeOK, DaemonTyped, Deleting
  <2>8. HandlerStep(h) /\ OwnLocals(h)'
    BY <1>1, <1>2, <1>3, <2>3, <2>4, <2>5, <2>7 DEF Load, HandlerStep, reader, OwnLocals, Deleting, Comparing
  <2> QED BY <1>1, <1>3, <2>7, <2>8, GoesOn DEF Load
<1>4. CASE Unhost(h)
  <2> DEFINE p == loc[h].print
             new == [loc[h] EXCEPT !.todo = @ \ {p.finger}]
  <2>1. /\ p \in Loaded /\ p.user = loc[h].user /\ (p.template # None => p \in Enrolments)
        /\ p.finger \in Fingers
    BY <1>4 DEF Unhost, MocInv, OwnWork, OwnLocals, Loaded
  <2>2. /\ new \in Locals /\ new.user = loc[h].user /\ new.wipe = loc[h].wipe
        /\ loc' = [loc EXCEPT ![h] = new]
    BY <1>1, <1>4 DEF Unhost, Set, Locals
  <2>3. rec' = [rec EXCEPT ![loc[h].user][p.finger] = None]
    BY <1>4 DEF Unhost
  <2> HIDE DEF new
  <2>4. /\ loc'[h] = new /\ loc' \in [Handlers -> Locals]
        /\ pc'[h] \in {"load", "unslot"}
        /\ \A g \in Handlers \ {h} : loc'[g] = loc[g] /\ pc'[g] = pc[g]
        /\ pc' \in [Handlers -> Places]
    BY <1>4, <2>2 DEF Unhost, Goto, MocInv, TypeOK, DaemonTyped, Deleting
  <2>5. OwnLocals(h)'
    BY <1>1, <1>4, <2>2, <2>4 DEF Unhost, reader, OwnLocals, Deleting, Comparing
  <2>6. HandlerStep(h)
    <3>1. CASE "delete" \in features /\ p.template # None
      <4>1. pc'[h] = "unslot" /\ Send(h, "delete", p)
        BY <1>4, <3>1 DEF Unhost, Goto, MocInv, TypeOK, DaemonTyped
      <4>2. p \in Prints /\ OwnSlot(loc'[h].user, p)
        BY <2>1, <2>2, <2>4, <3>1 DEF OwnSlot
      <4>3. \E k \in Commands \ {"none"}, q \in Prints \cup {None} :
              <<pc'[h], k>> \in Waits /\ (k = "delete" => OwnSlot(loc'[h].user, q)) /\ Send(h, k, q)
        BY <4>1, <4>2 DEF Waits, Commands
      <4> QED BY <1>2, <1>4, <2>4, <4>3 DEF Unhost, HandlerStep, reader
    <3>2. CASE ~("delete" \in features /\ p.template # None)
      BY <1>2, <1>4, <2>4, <3>2 DEF Unhost, HandlerStep, reader
    <3> QED BY <3>1, <3>2
  <2> QED BY <1>1, <1>4, <2>1, <2>3, <2>4, <2>5, <2>6, GoesOn DEF Unhost
<1>5. CASE Unslotted(h) \/ WipeSensor(h)
  <2>1. /\ loc' = loc /\ pc'[h] \in {"load", "wiping"} /\ (pc'[h] = "wiping" => loc[h].wipe)
        /\ \A g \in Handlers \ {h} : pc'[g] = pc[g]
        /\ pc' \in [Handlers -> Places] /\ loc' \in [Handlers -> Locals]
        /\ UNCHANGED <<reader, rec, claim, serving, active, pst, stop>>
        /\ Taken(h) \/ (pc'[h] = "wiping" /\ Send(h, "clear", None))
        /\ pc[h] # "hostonly"
    BY <1>5 DEF Unslotted, WipeSensor, Goto, MocInv, TypeOK, DaemonTyped, Deleting
  <2>2. HandlerStep(h)
    BY <1>2, <2>1 DEF HandlerStep, reader, Waits, Commands
  <2>3. OwnLocals(h)'
    BY <1>1, <2>1 DEF OwnLocals, reader, Deleting, Comparing
  <2> QED BY <1>1, <2>1, <2>2, <2>3, GoesOn
<1>6. CASE Deleted(h)
  <2>1. features \in Shapes \/ serving # h
    BY <1>1 DEF MocInv, Settled, Busy, Deleting
  <2> QED BY <1>2, <1>6, <2>1, ReturnKeeps DEF Deleted
<1> QED BY <1>3, <1>4, <1>5, <1>6

\* Handlers keep the invariant.
LEMMA HandlersKeepMoc ==
  ASSUME MocInv, NEW h \in Handlers, Client(h) \/ Handler(h)
  PROVE  MocInv'
<1>1. HandlerKeeps(h)
  BY ClaimKeeps, ClaimAnsweredKeeps, CompareKeeps, ReconciliationKeeps, TeardownKeeps,
     DeletionStarts, DropUnclaimedKeeps, DeletionKeeps DEF Client, Handler
<1>2. CallsTyped' /\ Asked' /\ Queued' /\ \A g \in Handlers : OwnWork(g)'
  BY <1>1, HandlerStepKeeps DEF HandlerKeeps
<1> QED BY <1>1, <1>2 DEF HandlerKeeps, MocInv, TypeOK, ReaderTyped

-----------------------------------------------------------------------------
(* Pumps keep MocInv.                                                      *)

\* Pumps keep it: a print they save is of an enrolment.
LEMMA PumpsKeepMoc ==
  ASSUME MocInv, NEW p \in Pumps, Pump(p)
  PROVE  MocInv'
<1> USE PrintTypes
<1>1. /\ UNCHANGED <<reader, claim, serving, pc, loc>>
      /\ \A h \in Handlers : ask'[h] = ask[h] /\ reply'[h] = reply[h]
      /\ \A q \in Pumps \ {p} : pst'[q] = pst[q] /\ ask'[q] = ask[q]
      /\ pst' \in [Pumps -> {"off", "start", "wait"}] /\ (pst'[p] = "start" => ask'[p].kind = "enroll")
      /\ active' \in Pumps \cup {None} /\ stop' \subseteq Pumps
  <2> USE DEF MocInv, TypeOK, DaemonTyped, CallsTyped
  <2>1. CASE \E print \in Enrolments : EnrollStart(p, print)
    BY <2>1 DEF EnrollStart
  <2>2. CASE PumpSend(p)
    BY <2>2 DEF PumpSend, Send
  <2>3. CASE PumpStopped(p) \/ PumpFailed(p) \/ PumpSaved(p)
    BY <2>3 DEF PumpStopped, PumpFailed, PumpSaved, PumpEnds
  <2> QED BY <2>1, <2>2, <2>3 DEF Pump
<1>2. RecordsOfEnrolments' /\ rec' \in [Users -> [Fingers -> Templates \cup {None}]]
  <2>1. CASE UNCHANGED rec
    BY <2>1 DEF MocInv, RecordsOfEnrolments, Recorded, Slot, TypeOK, DaemonTyped
  <2>2. CASE PumpSaved(p)
    <3> DEFINE e == reply[p][2]
    <3>1. e \in Enrolments
      <4>1. reply[p] \in Replies /\ reply[p][1] = "enrolled"
        BY <2>2 DEF PumpSaved, MocInv, TypeOK, CallsTyped
      <4>2. reply[p] \in {"enrolled"} \X Enrolments
        BY <4>1 DEF Replies
      <4> QED BY <4>2
    <3>2. rec' \in {rec, [rec EXCEPT ![e.user][e.finger] = e.template]}
      BY <2>2 DEF PumpSaved
    <3> HIDE DEF e
    <3>3. e.user \in Users /\ e.finger \in Fingers /\ e.template \in Templates
          /\ e = [user |-> e.user, finger |-> e.finger, template |-> e.template]
      BY <3>1
    <3>4. CASE rec' = [rec EXCEPT ![e.user][e.finger] = e.template]
      <4>1. rec' \in [Users -> [Fingers -> Templates \cup {None}]]
        BY <3>3, <3>4 DEF MocInv, TypeOK, DaemonTyped
      <4>2. \A u \in Users, f \in Fingers :
              \/ rec'[u][f] = rec[u][f]
              \/ u = e.user /\ f = e.finger /\ rec'[u][f] = e.template
        BY <3>3, <3>4 DEF MocInv, TypeOK, DaemonTyped
      <4>3. ASSUME NEW u \in Users, NEW f \in Fingers, rec'[u][f] # None
            PROVE  [user |-> u, finger |-> f, template |-> rec'[u][f]] \in Enrolments
        BY <3>1, <3>3, <4>2, <4>3 DEF MocInv, RecordsOfEnrolments, Recorded, Slot
      <4> QED BY <4>1, <4>3 DEF RecordsOfEnrolments, Recorded, Slot
    <3>5. CASE rec' = rec
      BY <3>5 DEF MocInv, RecordsOfEnrolments, Recorded, Slot, TypeOK, DaemonTyped
    <3> QED BY <3>2, <3>4, <3>5
  <2> QED BY <2>1, <2>2 DEF Pump, EnrollStart, PumpSend, PumpStopped, PumpFailed
<1>3. CallsTyped' /\ Queued' /\ PumpAsks(p)'
  <2>1. ASSUME NEW e \in Enrolments, EnrollStart(p, e)
        PROVE  CallsTyped' /\ Queued' /\ PumpAsks(p)'
    <3>1. ask' = [ask EXCEPT ![p] = [kind |-> "enroll", print |-> e]] /\ UNCHANGED <<queue, reply>>
          /\ ask[p].kind = "none"
      BY <2>1 DEF EnrollStart, NoAsk
    <3>2. CallsTyped' /\ ask'[p] = [kind |-> "enroll", print |-> e]
      BY <3>1 DEF MocInv, TypeOK, CallsTyped, Commands
    <3>3. \A i \in DOMAIN queue : queue[i] # p /\ queue[i] \in Callers
      BY <3>1 DEF MocInv, TypeOK, CallsTyped, Queued
    <3> QED BY <1>1, <3>1, <3>2, <3>3 DEF MocInv, Queued, PumpAsks
  <2>2. CASE PumpSend(p)
    <3>1. /\ pst[p] = "start" /\ pst'[p] = "wait" /\ ask[p].print \in Enrolments
          /\ Send(p, "enroll", ask[p].print) /\ CallsTyped /\ Queued
      BY <2>2 DEF PumpSend, MocInv, TypeOK, DaemonTyped, Asked, PumpAsks
    <3>2. p \notin ToSet(queue)
      BY <3>1 DEF Queued, ToSet
    <3>3. Queued'
      BY <1>1, <3>1, <3>2, QueueGrows DEF Commands
    <3>4. CallsTyped' /\ ask'[p] = [kind |-> "enroll", print |-> ask[p].print]
      BY <3>1, Sent DEF Commands
    <3> QED BY <3>1, <3>3, <3>4 DEF PumpAsks
  <2>3. CASE PumpStopped(p) \/ PumpFailed(p) \/ PumpSaved(p)
    <3>1. /\ reply' = [reply EXCEPT ![p] = <<"none">>] /\ UNCHANGED <<queue, ask>>
          /\ pst'[p] = "off"
      BY <2>3 DEF PumpStopped, PumpFailed, PumpSaved, PumpEnds, MocInv, TypeOK, DaemonTyped
    <3>2. CallsTyped'
      BY <3>1 DEF MocInv, TypeOK, CallsTyped, Replies
    <3> QED BY <1>1, <3>1, <3>2 DEF MocInv, Queued, Asked, PumpAsks
  <2> QED BY <2>1, <2>2, <2>3 DEF Pump
<1>4. Asked'
  <2>1. ASSUME NEW q \in Pumps \ {p}
        PROVE  PumpAsks(q)'
    BY <1>1 DEF MocInv, Asked, PumpAsks
  <2>2. ASSUME NEW h \in Handlers
        PROVE  HandlerAsks(h)'
    BY <1>1 DEF MocInv, Asked, HandlerAsks
  <2> QED BY <1>3, <2>1, <2>2 DEF Asked
<1>5. ASSUME NEW h \in Handlers
      PROVE  OwnWork(h)'
  BY <1>1 DEF MocInv, OwnWork, OwnLocals, OwnAsk, reader
<1>6. Settled'
  BY <1>1 DEF MocInv, Settled, Busy, reader
<1>7. TypeOK'
  BY <1>1, <1>2, <1>3 DEF MocInv, TypeOK, ReaderTyped, DaemonTyped, reader
<1> QED BY <1>2, <1>3, <1>4, <1>5, <1>6, <1>7 DEF MocInv

\* It holds whatever records and slots earlier runs left.
LEMMA MocInitial ==
  ASSUME MocInit
  PROVE  MocInv
<1> USE PrintTypes
<1>1. slots \in Seq(Prints)
  <2>1. PICK n \in 0..Capacity : slots \in [1..n -> Present]
    BY DEF MocInit, ReaderInit, SeqOf
  <2>2. n \in Nat /\ slots \in [1..n -> Prints]
    BY <2>1, ReaderAssumption DEF Prints
  <2> QED BY <2>2, SeqDef
<1>2. TypeOK
  <2>1. NoLocals \in Locals /\ NoAsk \in [kind : Commands, print : Prints \cup {None}]
        /\ <<"none">> \in Replies /\ queue \in Seq(Callers)
    BY DEF NoLocals, Locals, NoAsk, Commands, Replies, MocInit
  <2> QED BY <1>1, <2>1 DEF MocInit, ReaderInit, TypeOK, ReaderTyped, DaemonTyped, CallsTyped
<1>3. RecordsOfEnrolments
  BY DEF MocInit, RecordsOfEnrolments
<1>4. Asked /\ Queued
  BY DEF MocInit, NoAsk, Asked, HandlerAsks, PumpAsks, Queued
<1>5. \A h \in Handlers : OwnWork(h)
  BY DEF MocInit, NoAsk, OwnWork, OwnLocals, OwnAsk, Comparing, Deleting
<1>6. Settled
  BY DEF MocInit, ReaderInit, Settled
<1> QED BY <1>2, <1>3, <1>4, <1>5, <1>6 DEF MocInv

\* Every step keeps it.
LEMMA MocInvKept ==
  ASSUME MocInv, TemplatesTellPrints, [Next]_vars
  PROVE  MocInv'
<1>1. CASE Sensor
  BY <1>1, SensorKeepsMoc
<1>2. CASE EnrollStop
  <2>1. UNCHANGED <<reader, rec, claim, serving, pc, loc, pst, calls>> /\ active' = None /\ stop' \subseteq Pumps
    BY <1>2 DEF EnrollStop, StopActive, MocInv, TypeOK, DaemonTyped
  <2>2. TypeOK' /\ RecordsOfEnrolments'
    BY <2>1 DEF MocInv, TypeOK, ReaderTyped, DaemonTyped, CallsTyped, RecordsOfEnrolments, Recorded, Slot, reader, calls
  <2>3. Asked' /\ Queued' /\ Settled'
    BY <2>1 DEF MocInv, Asked, HandlerAsks, PumpAsks, Queued, Settled, Busy, reader, calls
  <2>4. \A h \in Handlers : OwnWork(h)'
    BY <2>1 DEF MocInv, OwnWork, OwnLocals, OwnAsk, reader, calls
  <2> QED BY <2>2, <2>3, <2>4 DEF MocInv
<1>3. CASE UNCHANGED vars
  <2>1. UNCHANGED <<open, features, slots, capture, rec, claim, serving, active, pc, loc, pst, stop, queue, ask, reply>>
    BY <1>3 DEF vars, reader, daemon, calls
  <2>2. TypeOK' /\ RecordsOfEnrolments'
    BY <2>1 DEF MocInv, TypeOK, ReaderTyped, DaemonTyped, CallsTyped, RecordsOfEnrolments, Recorded, Slot
  <2>3. Asked' /\ Queued' /\ Settled'
    BY <2>1 DEF MocInv, Asked, HandlerAsks, PumpAsks, Queued, Settled, Busy
  <2>4. \A h \in Handlers : OwnWork(h)'
    BY <2>1 DEF MocInv, OwnWork, OwnLocals, OwnAsk
  <2> QED BY <2>2, <2>3, <2>4 DEF MocInv
<1> QED BY <1>1, <1>2, <1>3, HandlersKeepMoc, PumpsKeepMoc DEF Next

\* The invariant holds in every behaviour, sessions overlapping or not.
THEOREM MocSafe == TemplatesTellPrints => (Spec => []MocInv)
<1> SUFFICES ASSUME TemplatesTellPrints
             PROVE  Spec => []MocInv
  OBVIOUS
<1>1. MocInit => MocInv
  BY MocInitial
<1>2. MocInv /\ [Next]_vars => MocInv'
  BY MocInvKept
<1> QED BY <1>1, <1>2, PTL DEF Spec

-----------------------------------------------------------------------------
(* A command takes only slots of its handler's user.                       *)

\* The slots change when the actor commits an enrolment or deletes.
LEMMA SlotsChange ==
  ASSUME MocInv, TemplatesTellPrints, [Next]_vars, slots' # slots
  PROVE  /\ Sensor /\ queue # <<>> /\ 1 \in DOMAIN queue /\ queue[1] = Head1
         /\ \/ Head1 \in Pumps /\ ServeFinish
            \/ /\ Head1 \in Handlers /\ pc[Head1] \in {"freeing", "unslot", "wiping"}
               /\ ToSet(slots') \subseteq ToSet(slots)
               /\ ServeDelete \/ ServeClear
<1> USE PrintTypes
<1>1. Sensor
  <2>1. CASE EnrollStop \/ UNCHANGED vars
    BY <2>1 DEF EnrollStop, vars, reader
  <2>2. CASE \E h \in Handlers : Client(h) \/ Handler(h)
    <3>1. PICK h \in Handlers : Client(h) \/ Handler(h)
      BY <2>2
    <3>2. HandlerKeeps(h)
      BY <3>1, ClaimKeeps, ClaimAnsweredKeeps, CompareKeeps, ReconciliationKeeps, TeardownKeeps,
         DeletionStarts, DropUnclaimedKeeps, DeletionKeeps DEF Client, Handler
    <3> QED BY <3>2 DEF HandlerKeeps
  <2>3. CASE \E p \in Pumps : Pump(p)
    BY <2>3 DEF Pump, EnrollStart, PumpSend, PumpStopped, PumpFailed, PumpSaved, PumpEnds, reader
  <2> QED BY <2>1, <2>2, <2>3 DEF Next
<1>2. ServeDelete \/ ServeClear \/ ServeFinish
  BY <1>1 DEF Sensor, ServeOpen, ServeClose, ServeList, ServeFails, ServeCancelled, ServeBegin, ServeAdvance,
              OpenReader, CloseReader, DropEnroll, BeginEnroll, Advance, reader
<1>3. queue # <<>> /\ queue \in Seq(Callers)
  BY <1>2 DEF ServeDelete, ServeClear, ServeFinish, Serving, MocInv, TypeOK, CallsTyped
<1>4. 1 \in DOMAIN queue /\ queue[1] = Head1 /\ Head1 \in Callers
  BY <1>3 DEF Head1
<1>5. CASE ServeFinish
  <2>1. Head1 \in Pumps
    BY <1>4, <1>5 DEF ServeFinish, Serving, Request, MocInv, Asked, HandlerAsks, Waits
  <2> QED BY <1>1, <1>3, <1>4, <1>5, <2>1
<1>6. CASE ServeDelete
  <2>1. Head1 \in Handlers /\ ask[Head1].kind = "delete" /\ DeletePrint(ask[Head1].print.template)
    BY <1>4, <1>6 DEF ServeDelete, Serving, Request, MocInv, Asked, PumpAsks
  <2>2. OwnSlot(loc[Head1].user, ask[Head1].print) /\ pc[Head1] \in {"freeing", "unslot"}
    BY <2>1 DEF MocInv, OwnWork, OwnAsk, Asked, HandlerAsks, Waits
  <2>3. ToSet(slots') \subseteq ToSet(slots)
    BY <2>1, <2>2, PrintDeleted DEF OwnSlot, MocInv, TypeOK
  <2> QED BY <1>1, <1>3, <1>4, <1>6, <2>1, <2>2, <2>3
<1>7. CASE ServeClear
  <2>1. Head1 \in Handlers /\ pc[Head1] = "wiping"
    BY <1>4, <1>7 DEF ServeClear, Serving, Request, MocInv, Asked, HandlerAsks, PumpAsks, Waits
  <2>2. ToSet(slots') = {}
    BY <1>7 DEF ServeClear, ClearStorage, ToSet
  <2> QED BY <1>1, <1>3, <1>4, <1>7, <2>1, <2>2
<1> QED BY <1>2, <1>5, <1>6, <1>7

\* A slot is lost to a deletion of it, or to a wipe where no slot can be
\* deleted singly.
LEMMA LostSlots ==
  ASSUME MocInv, TemplatesTellPrints, [Next]_vars, Lost # {}
  PROVE  /\ Head1 \in Handlers /\ queue # <<>>
         /\ \/ /\ ask[Head1].kind = "delete" /\ DeletePrint(ask[Head1].print.template)
               /\ Lost = {ask[Head1].print} /\ OwnSlot(loc[Head1].user, ask[Head1].print)
               /\ pc[Head1] \in {"freeing", "unslot"}
            \/ pc[Head1] = "wiping" /\ "delete" \notin features
<1> USE PrintTypes
<1>1. slots' # slots
  BY DEF Lost
<1>2. ~ServeFinish
  BY PrintAdded DEF ServeFinish, Lost, MocInv, TypeOK
<1>3. /\ Head1 \in Handlers /\ queue # <<>> /\ pc[Head1] \in {"freeing", "unslot", "wiping"}
      /\ ServeDelete \/ ServeClear
  BY <1>1, <1>2, SlotsChange
<1>4. CASE ServeDelete
  <2>1. ask[Head1].kind = "delete" /\ DeletePrint(ask[Head1].print.template)
    BY <1>4 DEF ServeDelete, Serving, Request
  <2>2. OwnSlot(loc[Head1].user, ask[Head1].print) /\ pc[Head1] \in {"freeing", "unslot"}
    BY <1>3, <2>1 DEF MocInv, OwnWork, OwnAsk, Asked, HandlerAsks, Waits
  <2>3. ToSet(slots) \subseteq ToSet(slots') \cup {ask[Head1].print}
    BY <2>1, <2>2, PrintDeleted DEF OwnSlot, MocInv, TypeOK
  <2> QED BY <1>3, <2>1, <2>2, <2>3 DEF Lost
<1>5. CASE ServeClear
  <2>1. pc[Head1] = "wiping"
    BY <1>3, <1>5 DEF ServeClear, Serving, Request, MocInv, Asked, HandlerAsks, Waits
  <2> QED BY <1>3, <2>1 DEF MocInv, OwnWork, OwnLocals, Deleting
<1> QED BY <1>3, <1>4, <1>5

\* On a reader that can delete single slots, a command of the daemon takes no
\* slot but the user's it works for, however sessions overlap
\* (reconcile_host_with_device, delete_all).
THEOREM MocOthersKept == TemplatesTellPrints => (Spec => OthersKept)
<1> SUFFICES ASSUME TemplatesTellPrints
             PROVE  Spec => OthersKept
  OBVIOUS
<1> DEFINE A == "delete" \in features /\ queue' # queue =>
                  \A s \in Lost : s.user # None /\ Head1 \in Handlers /\ loc[Head1].user = s.user
<1>1. MocInv /\ [Next]_vars => [A]_vars
  <2> SUFFICES ASSUME MocInv, [Next]_vars, "delete" \in features, NEW s \in Lost
               PROVE  s.user # None /\ Head1 \in Handlers /\ loc[Head1].user = s.user
    OBVIOUS
  <2>1. /\ Head1 \in Handlers /\ s = ask[Head1].print /\ OwnSlot(loc[Head1].user, s)
        /\ pc[Head1] \in {"freeing", "unslot"}
    BY LostSlots
  <2>2. loc[Head1].user \in Users
    BY <2>1 DEF MocInv, OwnWork, OwnLocals
  <2> QED BY <2>1, <2>2, PrintTypes DEF OwnSlot
<1>2. Spec => []MocInv
  BY MocSafe
<1> HIDE DEF A
<1>3. Spec => [][A]_vars
  BY <1>1, <1>2, PTL DEF Spec
<1> QED BY <1>3, PTL DEF OthersKept, A

-----------------------------------------------------------------------------
(* Sessions that do not overlap.                                           *)

\* One handler acts.
LEMMA OneActsKept ==
  ASSUME MocInv, OneActs, ~Lingering, [Next]_vars
  PROVE  OneActs'
<1> USE PrintTypes
<1>1. CASE UNCHANGED <<claim, serving, pc>>
  BY <1>1 DEF OneActs, Busy
<1>2. ASSUME NEW h \in Handlers, Client(h) \/ Handler(h)
      PROVE  OneActs'
  <2>1. pc \in [Handlers -> {"idle", "hostonly", "closing"} \cup Reconciling \cup Deleting]
        /\ serving \in Handlers \cup {None} /\ claim \in Users \cup {None}
    BY DEF MocInv, TypeOK, DaemonTyped
  <2>2. ASSUME UNCHANGED <<claim, serving>>, NEW q, pc' = [pc EXCEPT ![h] = q],
               \/ pc[h] \notin {"idle", "hostonly", "closing"} /\ q \notin {"idle", "hostonly", "closing"}
               \/ pc[h] \in {"idle", "hostonly"} /\ q = "hostonly"
        PROVE  OneActs'
    BY <2>1, <2>2 DEF OneActs, Busy
  <2>3. ASSUME Return(h), claim' = None \/ (claim' = claim /\ pc[h] # "closing")
        PROVE  OneActs'
    BY <2>1, <2>3 DEF Return, Goto, OneActs, Busy
  <2>4. CASE \E u \in Users : Claim(h, u)
    <3>1. Quiet /\ pc[h] = "idle" /\ claim = None
      BY <2>4 DEF Claim
    <3>2. pc' = [pc EXCEPT ![h] = "opening"] /\ serving' = h
      BY <2>4 DEF Claim, Goto
    <3>3. \A g \in Handlers \ {h} : pc'[g] \in {"idle", "hostonly"}
      BY <2>1, <3>1, <3>2 DEF Quiet
    <3> QED BY <2>1, <3>2, <3>3 DEF OneActs, Busy
  <2>5. CASE Teardown(h)
    BY <2>1, <2>5 DEF Teardown, Goto, OneActs, Busy
  <2>6. CASE DeleteOne(h) \/ DeleteAll(h)
    BY <2>1, <2>6 DEF DeleteOne, DeleteAll, Delete, Goto, OneActs, Busy
  <2>7. CASE \/ ClaimOpened(h) /\ "list" \in features
             \/ Compare(h) \/ DropRecord(h) \/ FreeSlot(h) \/ Freed(h)
             \/ Load(h) \/ Unhost(h) \/ Unslotted(h) \/ WipeSensor(h)
             \/ DropUnclaimed(h) \/ \E u \in Users : DeleteUnclaimed(h, u)
    <3>1. CASE DropRecord(h) \/ DropUnclaimed(h)
      BY <1>1, <3>1 DEF DropRecord, DropUnclaimed
    <3>2. CASE ~(DropRecord(h) \/ DropUnclaimed(h))
      BY <2>2, <2>7, <3>2 DEF ClaimOpened, Compare, FreeSlot, Freed, Load, Unhost, Unslotted, WipeSensor,
                              DeleteUnclaimed, Goto
    <3> QED BY <3>1, <3>2
  <2>8. CASE \/ ClaimOpened(h) /\ "list" \notin features
             \/ ClaimFailed(h) \/ CannotConfirm(h) \/ Reconciled(h) \/ Closed(h) \/ Deleted(h)
    BY <2>3, <2>8 DEF ClaimOpened, ClaimFailed, CannotConfirm, Reconciled, Closed, Deleted
  <2> QED BY <1>2, <2>4, <2>5, <2>6, <2>7, <2>8 DEF Client, Handler
<1>3. CASE Sensor
  BY <1>1, <1>3, SensorLeavesDaemon DEF daemon
<1>4. CASE EnrollStop \/ UNCHANGED vars \/ \E p \in Pumps : Pump(p)
  BY <1>1, <1>4 DEF EnrollStop, vars, daemon, Pump, EnrollStart, PumpSend, PumpStopped, PumpFailed,
                    PumpSaved, PumpEnds
<1> QED BY <1>2, <1>3, <1>4 DEF Next

\* What a handler's step does to the queue: nothing, or its own command joins.
LEMMA HandlersQueue ==
  ASSUME MocInv, NEW h \in Handlers, HandlerStep(h)
  PROVE  /\ Len(queue) \in Nat /\ DOMAIN queue = 1..Len(queue)
         /\ \A i \in DOMAIN queue : queue[i] # h
         /\ \/ queue' = queue
            \/ /\ DOMAIN queue' = 1..(Len(queue) + 1) /\ queue'[Len(queue) + 1] = h
               /\ \A i \in 1..Len(queue) : queue'[i] = queue[i]
<1> USE PrintTypes
<1>1. h \notin ToSet(queue) /\ h \notin Pumps
  BY DEF HandlerStep, MocInv, Queued, ToSet
<1>2. Len(queue) \in Nat /\ DOMAIN queue = 1..Len(queue)
  BY DEF MocInv, TypeOK, CallsTyped
<1>3. ASSUME NEW k \in Commands \ {"none"}, NEW p \in Prints \cup {None}, Send(h, k, p)
      PROVE  /\ DOMAIN queue' = 1..(Len(queue) + 1) /\ queue'[Len(queue) + 1] = h
             /\ \A i \in 1..Len(queue) : queue'[i] = queue[i]
  BY <1>1, <1>3, QueueGrows DEF HandlerStep, MocInv, TypeOK
<1> QED BY <1>1, <1>2, <1>3 DEF HandlerStep, calls, Taken, ToSet

\* A Claim comes when no pump works, and the reader is opened after what an
\* earlier pump left in the queue.
LEMMA PumpsGoneKept ==
  ASSUME MocInv, OneActs, PumpsGone, ~Lingering, [Next]_vars
  PROVE  PumpsGone'
<1> USE PrintTypes
<1>1. CASE UNCHANGED <<pc, pst, queue>>
  BY <1>1 DEF PumpsGone
<1>2. ASSUME NEW h \in Handlers, Client(h) \/ Handler(h)
      PROVE  PumpsGone'
  <2>1. HandlerStep(h) /\ pc \in [Handlers -> {"idle", "hostonly", "closing"} \cup Reconciling \cup Deleting]
    BY <1>2, ClaimKeeps, ClaimAnsweredKeeps, CompareKeeps, ReconciliationKeeps, TeardownKeeps,
       DeletionStarts, DropUnclaimedKeeps, DeletionKeeps
       DEF Client, Handler, HandlerKeeps, MocInv, TypeOK, DaemonTyped
  <2>2. /\ Len(queue) \in Nat /\ DOMAIN queue = 1..Len(queue)
        /\ \A i \in DOMAIN queue : queue[i] # h
        /\ \/ queue' = queue
           \/ /\ DOMAIN queue' = 1..(Len(queue) + 1) /\ queue'[Len(queue) + 1] = h
              /\ \A i \in 1..Len(queue) : queue'[i] = queue[i]
    BY <2>1, HandlersQueue
  <2>3. ASSUME NEW g \in Handlers, g # h, pc'[g] \in Reconciling, NEW i \in DOMAIN queue', queue'[i] \in Pumps
        PROVE  pc'[g] = "opening" /\ \E j \in DOMAIN queue' : j > i /\ queue'[j] = g
    <3>1. pc'[g] = pc[g] /\ i \in DOMAIN queue /\ queue[i] = queue'[i]
      BY <2>1, <2>2, <2>3 DEF HandlerStep
    <3>2. PICK j \in DOMAIN queue : j > i /\ queue[j] = g
      BY <2>3, <3>1 DEF PumpsGone
    <3>3. j \in DOMAIN queue' /\ queue'[j] = g
      BY <2>2, <3>2
    <3> QED BY <2>3, <3>1, <3>2, <3>3 DEF PumpsGone
  <2>4. \A g \in Handlers \ {h} : pc'[g] \in Reconciling => \A p \in Pumps : pst'[p] = "off"
    BY <2>1 DEF HandlerStep, PumpsGone
  <2>5. CASE pc[h] \in Reconciling
    <3>1. ASSUME NEW i \in DOMAIN queue', pc'[h] \in Reconciling
          PROVE  queue'[i] \notin Pumps
      <4>1. \A j \in DOMAIN queue : queue[j] \notin Pumps
        BY <2>2, <2>5 DEF PumpsGone
      <4> QED BY <2>2, <4>1
    <3>2. \A p \in Pumps : pst'[p] = "off"
      BY <2>1, <2>5 DEF HandlerStep, PumpsGone
    <3> QED BY <2>3, <2>4, <3>1, <3>2 DEF PumpsGone
  <2>6. CASE \E u \in Users : Claim(h, u)
    <3>1. Quiet /\ pc'[h] = "opening" /\ \E u \in Users : Send(h, "open", None)
      BY <2>1, <2>6 DEF Claim, Goto
    <3>2. queue' # queue
      <4>1. queue' = Append(queue, h) /\ queue \in Seq(Callers)
        BY <3>1 DEF Send, MocInv, TypeOK, CallsTyped
      <4>2. Len(queue') = Len(queue) + 1
        BY <4>1, AppendProperties
      <4> QED BY <2>2, <4>2
    <3>3. \A i \in DOMAIN queue' : queue'[i] \in Pumps =>
            \E j \in DOMAIN queue' : j > i /\ queue'[j] = h
      <4> SUFFICES ASSUME NEW i \in DOMAIN queue', queue'[i] \in Pumps
                   PROVE  Len(queue) + 1 > i /\ Len(queue) + 1 \in DOMAIN queue' /\ queue'[Len(queue) + 1] = h
        OBVIOUS
      <4> QED BY <2>2, <3>2
    <3>4. \A p \in Pumps : pst'[p] = "off"
      BY <2>1, <3>1 DEF Quiet, HandlerStep
    <3> QED BY <2>3, <2>4, <3>1, <3>3, <3>4 DEF PumpsGone
  <2>7. CASE pc[h] \notin Reconciling /\ ~\E u \in Users : Claim(h, u)
    <3>1. pc'[h] \notin Reconciling
      <4>1. \/ \E u \in Users : DeleteUnclaimed(h, u)
            \/ Teardown(h) \/ DeleteOne(h) \/ DeleteAll(h) \/ Closed(h) \/ DropUnclaimed(h)
            \/ Load(h) \/ Unhost(h) \/ Unslotted(h) \/ WipeSensor(h) \/ Deleted(h)
        BY <1>2, <2>7 DEF Client, Handler, ClaimOpened, ClaimFailed, CannotConfirm, Compare, DropRecord,
                          FreeSlot, Freed, Reconciled, Reconciling, Comparing
      <4> QED BY <2>1, <2>7, <4>1 DEF DeleteUnclaimed, Teardown, DeleteOne, DeleteAll, Delete, Closed,
                          DropUnclaimed, Load, Unhost, Unslotted, WipeSensor, Deleted, Return, Goto,
                          Reconciling, Comparing
    <3> QED BY <2>3, <2>4, <3>1 DEF PumpsGone
  <2> QED BY <2>5, <2>6, <2>7
<1>3. CASE Sensor
  <2>1. UNCHANGED <<pc, pst>>
    BY <1>3, SensorLeavesDaemon DEF daemon
  <2>2. CASE UNCHANGED calls
    BY <1>1, <2>1, <2>2 DEF calls
  <2>3. ASSUME queue # <<>>, NEW a \in Replies, Answer(a)
        PROVE  PumpsGone'
    <3>1. /\ Len(queue) \in Nat \ {0} /\ DOMAIN queue = 1..Len(queue)
          /\ DOMAIN queue' = 1..(Len(queue) - 1)
          /\ \A i \in 1..(Len(queue) - 1) : queue'[i] = queue[i + 1]
      BY <2>3, QueueShrinks DEF MocInv, TypeOK
    <3>2. ASSUME NEW g \in Handlers, pc[g] \in Reconciling, NEW i \in DOMAIN queue', queue'[i] \in Pumps
          PROVE  pc[g] = "opening" /\ \E j \in DOMAIN queue' : j > i /\ queue'[j] = g
      <4>1. i + 1 \in DOMAIN queue /\ queue[i + 1] \in Pumps
        BY <3>1, <3>2
      <4>2. PICK j \in DOMAIN queue : j > i + 1 /\ queue[j] = g /\ pc[g] = "opening"
        BY <3>2, <4>1 DEF PumpsGone
      <4>3. j - 1 \in DOMAIN queue' /\ j - 1 > i /\ queue'[j - 1] = g
        BY <3>1, <4>2
      <4> QED BY <4>2, <4>3
    <3> QED BY <2>1, <3>2 DEF PumpsGone
  <2> QED BY <1>3, <2>2, <2>3, SensorAnswers
<1>4. ASSUME NEW p \in Pumps, Pump(p)
      PROVE  PumpsGone'
  <2>1. ASSUME NEW h \in Handlers, pc[h] \in Reconciling
        PROVE  FALSE
    <3>1. \A q \in Pumps : pst[q] = "off"
      BY <2>1 DEF PumpsGone
    <3>2. \E e \in Enrolments : EnrollStart(p, e)
      BY <1>4, <3>1 DEF Pump, PumpSend, PumpStopped, PumpFailed, PumpSaved
    <3>3. claim # None /\ serving = None
      BY <3>2 DEF EnrollStart
    <3> QED BY <2>1, <3>3 DEF OneActs, Busy, Reconciling, Comparing
  <2>2. UNCHANGED pc
    BY <1>4 DEF Pump, EnrollStart, PumpSend, PumpStopped, PumpFailed, PumpSaved, PumpEnds
  <2> QED BY <2>1, <2>2 DEF PumpsGone
<1>5. CASE EnrollStop \/ UNCHANGED vars
  BY <1>1, <1>5 DEF EnrollStop, vars, daemon, calls
<1> QED BY <1>2, <1>3, <1>4, <1>5 DEF Next

\* While a claim compares, no slot is added and no record is made.
LEMMA ComparedStands ==
  ASSUME SerialInv, TemplatesTellPrints, [Next]_vars, NEW h \in Handlers
  PROVE  /\ pc[h] \in Comparing =>
              /\ ToSet(slots') \subseteq ToSet(slots)
              /\ \A u \in Users, f \in Fingers : rec[u][f] = None => rec'[u][f] = None
         /\ pc[h] = "listing" => slots' = slots
<1> USE PrintTypes
<1>1. ASSUME pc[h] \in {"listing"} \cup Comparing, slots' # slots
      PROVE  pc[h] \in Comparing /\ ToSet(slots') \subseteq ToSet(slots)
  <2>1. /\ Sensor /\ queue # <<>> /\ 1 \in DOMAIN queue /\ queue[1] = Head1
        /\ \/ Head1 \in Pumps /\ ServeFinish
           \/ /\ Head1 \in Handlers /\ pc[Head1] \in {"freeing", "unslot", "wiping"}
              /\ ToSet(slots') \subseteq ToSet(slots)
              /\ ServeDelete \/ ServeClear
    BY <1>1, SlotsChange DEF SerialInv
  <2>2. Head1 \notin Pumps
    BY <1>1, <2>1 DEF SerialInv, PumpsGone, Reconciling, Comparing
  <2>3. Head1 = h
    BY <1>1, <2>1, <2>2 DEF SerialInv, OneActs, Busy, Comparing
  <2> QED BY <1>1, <2>1, <2>2, <2>3 DEF Comparing
<1>2. ASSUME pc[h] \in Comparing, NEW u \in Users, NEW f \in Fingers, rec[u][f] = None
      PROVE  rec'[u][f] = None
  <2>1. CASE UNCHANGED rec
    BY <1>2, <2>1
  <2>2. CASE rec' # rec
    <3>1. \A p \in Pumps : pst[p] = "off"
      BY <1>2 DEF SerialInv, PumpsGone, Reconciling
    <3>2. ~\E p \in Pumps : Pump(p)
      BY <2>2, <3>1 DEF Pump, EnrollStart, PumpSend, PumpStopped, PumpFailed, PumpSaved
    <3>3. ~Sensor
      BY <2>2, SensorLeavesDaemon DEF daemon, SerialInv
    <3>4. PICK g \in Handlers : Client(g) \/ Handler(g)
      BY <2>2, <3>2, <3>3 DEF Next, EnrollStop, vars, daemon
    <3>5. DropRecord(g) \/ DropUnclaimed(g) \/ Unhost(g)
      BY <2>2, <3>4 DEF Client, Claim, DeleteUnclaimed, Teardown, DeleteOne, DeleteAll, Delete, Handler,
                        ClaimOpened, ClaimFailed, CannotConfirm, Compare, FreeSlot, Freed, Reconciled,
                        Closed, Load, Unslotted, WipeSensor, Deleted
    <3>6. loc[g].user \in Users /\ rec \in [Users -> [Fingers -> Templates \cup {None}]]
      BY <3>5 DEF DropRecord, DropUnclaimed, Unhost, SerialInv, MocInv, OwnWork, OwnLocals, TypeOK, DaemonTyped
    <3>7. \E k : rec' = [rec EXCEPT ![loc[g].user][k] = None]
      <4>1. CASE DropRecord(g)
        BY <2>2, <4>1 DEF DropRecord
      <4>2. CASE DropUnclaimed(g)
        BY <4>2 DEF DropUnclaimed
      <4>3. CASE Unhost(g)
        BY <4>3 DEF Unhost
      <4> QED BY <3>5, <4>1, <4>2, <4>3
    <3> QED BY <1>2, <3>6, <3>7
  <2> QED BY <2>1, <2>2
<1>3. slots' = slots => ToSet(slots') \subseteq ToSet(slots)
  BY DEF ToSet
<1> QED BY <1>1, <1>2, <1>3 DEF Comparing

\* Fewer slots name fewer fingers.
LEMMA NamedShrinks ==
  ASSUME ToSet(slots') \subseteq ToSet(slots)
  PROVE  Named(slots') \subseteq Named(slots)
BY DEF Named, ToSet

\* A slot of a user's is of one of the users and one of the fingers.
LEMMA OwnSlotNamed ==
  ASSUME NEW u \in Users, NEW s, OwnSlot(u, s)
  PROVE  s.user \in Users /\ s.finger \in Fingers
BY PrintTypes DEF OwnSlot

\* What a handler compares stays fresh while others act, or when the reader
\* answers it.
LEMMA OthersFresh ==
  ASSUME SerialInv, TemplatesTellPrints, [Next]_vars, NEW h \in Handlers, FreshFor(h),
         pc'[h] = pc[h], loc'[h] = loc[h],
         \/ ask'[h] = ask[h] /\ reply'[h] = reply[h]
         \/ /\ ask'[h].kind = "none"
            /\ pc[h] = "listing" /\ reply'[h][1] = "listed" => reply'[h][2] = slots
  PROVE  FreshFor(h)'
<1>1. CASE pc[h] = "listing"
  <2>1. slots' = slots
    BY <1>1, ComparedStands
  <2> QED BY <1>1, <2>1 DEF FreshFor, Comparing
<1>2. CASE pc[h] \in Comparing
  <2>1. /\ Named(slots') \subseteq Named(slots)
        /\ \A u \in Users, f \in Fingers : rec[u][f] = None => rec'[u][f] = None
    BY <1>2, ComparedStands, NamedShrinks
  <2>2. loc[h].user \in Users
    BY <1>2 DEF SerialInv, MocInv, OwnWork, OwnLocals, Comparing
  <2>3. Recorded(loc[h].user)' \subseteq Recorded(loc[h].user)
    BY <2>1, <2>2 DEF Recorded
  <2> QED BY <1>2, <2>1, <2>2, <2>3 DEF FreshFor, Comparing, Orphan
<1> QED BY <1>1, <1>2 DEF FreshFor

\* The reader is sent the orphan at a place of what is left, the first one.
FreeingAt(h, i) ==
  /\ i \in 1..Len(loc[h].left) /\ loc[h].left[i] \in Prints
  /\ \A j \in Orphans(h) : i <= j
  /\ pc[h] = "dropping" /\ pc'[h] = "freeing" /\ UNCHANGED rec
  /\ ask'[h] = [kind |-> "delete", print |-> loc[h].left[i]] /\ reply'[h] = <<"none">>
  /\ loc'[h].left = SubSeq(loc[h].left, i + 1, Len(loc[h].left))
  /\ loc'[h].user = loc[h].user /\ loc'[h].host = loc[h].host /\ loc'[h].todo = loc[h].todo
  /\ loc'[h].warned = loc[h].warned

\* A step that frees a slot is of this form.
LEMMA FreesOne ==
  ASSUME MocInv, NEW h \in Handlers, FreeSlot(h)
  PROVE  \E i \in Orphans(h) : FreeingAt(h, i)
<1> DEFINE left == loc[h].left
<1> USE PrintTypes
<1>1. PICK i \in Orphans(h) :
        /\ \A j \in Orphans(h) : i <= j
        /\ loc' = [loc EXCEPT ![h] = [loc[h] EXCEPT !.left = SubSeq(@, i + 1, Len(@))]]
        /\ Send(h, "delete", left[i])
  BY DEF FreeSlot, Set
<1>2. /\ loc \in [Handlers -> Locals] /\ loc[h] \in Locals
      /\ pc \in [Handlers -> {"idle", "hostonly", "closing"} \cup Reconciling \cup Deleting]
  BY DEF MocInv, TypeOK, DaemonTyped
<1>3. left \in Seq(Prints) /\ i \in 1..Len(left) /\ left[i] \in Prints
  BY <1>1, <1>2 DEF Locals, Orphans
<1>4. ask'[h] = [kind |-> "delete", print |-> left[i]] /\ reply'[h] = <<"none">>
  BY <1>1, <1>3, Sent DEF MocInv, TypeOK, Commands
<1>5. pc[h] = "dropping" /\ pc'[h] = "freeing" /\ UNCHANGED rec
  BY <1>2 DEF FreeSlot, Goto
<1>6. /\ loc'[h].left = SubSeq(left, i + 1, Len(left))
      /\ loc'[h].user = loc[h].user /\ loc'[h].host = loc[h].host /\ loc'[h].todo = loc[h].todo
      /\ loc'[h].warned = loc[h].warned
  BY <1>1, <1>2 DEF Locals
<1> QED BY <1>1, <1>3, <1>4, <1>5, <1>6 DEF FreeingAt

\* What the handler itself does.
LEMMA HandlerFresh ==
  ASSUME SerialInv, NEW h \in Handlers, Client(h) \/ Handler(h)
  PROVE  FreshFor(h)'
<1> USE PrintTypes
<1>1. /\ HandlerStep(h) /\ UNCHANGED slots /\ MocInv /\ FreshFor(h)
      /\ pc \in [Handlers -> {"idle", "hostonly", "closing"} \cup Reconciling \cup Deleting]
      /\ loc \in [Handlers -> Locals] /\ OwnLocals(h)
  BY ClaimKeeps, ClaimAnsweredKeeps, CompareKeeps, ReconciliationKeeps, TeardownKeeps,
     DeletionStarts, DropUnclaimedKeeps, DeletionKeeps
     DEF Client, Handler, HandlerKeeps, SerialInv, Fresh, MocInv, TypeOK, DaemonTyped, OwnWork
<1>2. /\ reply'[h][1] = "listed" => UNCHANGED calls
      /\ ask'[h].kind = "delete" => \E p \in Prints \cup {None} : Send(h, "delete", p) /\ ask'[h].print = p
  <2>1. <<"none">>[1] # "listed"
    OBVIOUS
  <2>2. CASE UNCHANGED calls
    BY <1>1, <2>2 DEF HandlerStep, calls
  <2>3. CASE Taken(h)
    BY <1>1, <2>1, <2>3, ReplyTaken DEF HandlerStep, MocInv, TypeOK
  <2>4. ASSUME NEW k \in Commands \ {"none"}, NEW p \in Prints \cup {None}, Send(h, k, p)
        PROVE  reply'[h][1] # "listed" /\ ask'[h].kind = k /\ ask'[h].print = p
    <3>1. ask'[h] = [kind |-> k, print |-> p] /\ reply'[h] = <<"none">>
      BY <2>4, Sent DEF SerialInv, MocInv, TypeOK
    <3> QED BY <2>1, <3>1
  <2>5. CASE \E k \in Commands \ {"none"}, p \in Prints \cup {None} : Send(h, k, p)
    BY <2>4, <2>5
  <2>6. (UNCHANGED calls) => ask'[h].kind = "none"
    BY <1>1 DEF HandlerStep, calls
  <2>7. Taken(h) => ask'[h].kind = "none"
    BY <1>1 DEF HandlerStep, Taken
  <2> QED BY <1>1, <2>2, <2>3, <2>5, <2>6, <2>7 DEF HandlerStep
<1>3. CASE Compare(h)
  <2> DEFINE l == reply[h][2]
             u == loc[h].user
  <2>1. /\ l = slots /\ pc'[h] = "dropping" /\ loc'[h].todo = Recorded(u) \ Named(l)
        /\ loc'[h].host = Recorded(u) /\ loc'[h].user = u /\ UNCHANGED rec /\ Taken(h)
    <3>1. loc[h] \in Locals /\ FreshFor(h)
      BY <1>1
    <3> QED BY <1>1, <1>3, <3>1 DEF Compare, FreshFor, Goto, Set, Locals
  <2>2. Recorded(u)' = Recorded(u)
    BY <2>1 DEF Recorded
  <2>3. ask'[h].kind # "delete"
    BY <1>1, <2>1, ReplyTaken DEF HandlerStep, MocInv, TypeOK
  <2>4. Recorded(loc[h].user)' = Recorded(u)'
    BY <2>1 DEF Recorded
  <2> HIDE DEF l, u
  <2> QED BY <1>1, <2>1, <2>2, <2>3, <2>4 DEF FreshFor
<1>4. CASE DropRecord(h)
  <2>1. PICK f \in loc[h].todo, fails \in BOOLEAN :
          /\ rec' = IF fails THEN rec ELSE [rec EXCEPT ![loc[h].user][f] = None]
          /\ loc' = [loc EXCEPT ![h] = [loc[h] EXCEPT !.todo = @ \ {f}, !.warned = @ \/ fails]]
    BY <1>4 DEF DropRecord, Set
  <2>2. loc[h] \in Locals /\ pc[h] = "dropping" /\ pc'[h] = "dropping" /\ UNCHANGED calls
    BY <1>1, <1>4 DEF DropRecord
  <2>3. /\ loc'[h].todo \subseteq loc[h].todo /\ loc'[h].host = loc[h].host
        /\ loc'[h].user = loc[h].user /\ loc[h].user \in Users
    BY <1>1, <2>1, <2>2 DEF Locals, OwnLocals, Comparing
  <2>5. \A u \in Users, f2 \in Fingers : rec[u][f2] = None => rec'[u][f2] = None
    <3>1. loc[h].user \in Users /\ rec \in [Users -> [Fingers -> Templates \cup {None}]]
      BY <1>1, <2>2 DEF OwnLocals, MocInv, TypeOK, DaemonTyped
    <3> QED BY <2>1, <3>1
  <2>6. ask'[h].kind # "delete"
    BY <1>1, <2>2 DEF HandlerStep, calls
  <2>7. Recorded(loc[h].user)' \subseteq Recorded(loc[h].user)
    BY <2>3, <2>5 DEF Recorded
  <2> QED BY <1>1, <2>2, <2>3, <2>6, <2>7 DEF FreshFor, Comparing
<1>5. CASE FreeSlot(h)
  <2>1. PICK i \in Orphans(h) : FreeingAt(h, i)
    BY <1>1, <1>5, FreesOne
  <2>2. Recorded(loc[h].user)' = Recorded(loc[h].user)
    BY <2>1 DEF FreeingAt, Recorded
  <2>3. Orphan(h, loc[h].left[i])
    BY DEF Orphans
  <2> QED BY <1>1, <2>1, <2>2, <2>3 DEF FreshFor, Comparing, Orphan, FreeingAt
<1>6. CASE Freed(h)
  <2>1. loc[h] \in Locals /\ pc[h] = "freeing" /\ pc'[h] = "dropping" /\ UNCHANGED rec /\ Taken(h)
    BY <1>1, <1>6 DEF Freed, Goto
  <2>2. loc'[h].todo = loc[h].todo /\ loc'[h].host = loc[h].host /\ loc'[h].user = loc[h].user
    BY <1>1, <1>6, <2>1 DEF Freed, Set, Locals
  <2>3. ask'[h].kind # "delete"
    BY <1>1, <2>1, ReplyTaken DEF HandlerStep, MocInv, TypeOK
  <2>4. Recorded(loc[h].user)' = Recorded(loc[h].user)
    BY <2>1, <2>2 DEF Recorded
  <2> QED BY <1>1, <2>1, <2>2, <2>3, <2>4 DEF FreshFor, Comparing
<1>7. CASE ~(Compare(h) \/ DropRecord(h) \/ FreeSlot(h) \/ Freed(h))
  <2>1. pc'[h] \notin Comparing /\ (pc'[h] = "listing" => Send(h, "list", None))
    <3>1. CASE Client(h)
      BY <1>1, <3>1 DEF Client, Claim, Teardown, DeleteOne, DeleteAll, DeleteUnclaimed, Delete, Goto, Comparing
    <3>2. CASE Handler(h)
      BY <1>1, <1>7, <3>2 DEF Handler, ClaimOpened, ClaimFailed, CannotConfirm, Reconciled, Closed,
           DropUnclaimed, Load, Unhost, Unslotted, WipeSensor, Deleted, Return, Goto, Comparing
    <3> QED BY <1>2, <3>1, <3>2
  <2>2. pc'[h] = "listing" => reply'[h][1] # "listed"
    <3>1. <<"none">>[1] # "listed"
      OBVIOUS
    <3> QED BY <1>1, <2>1, <3>1, Sent DEF MocInv, TypeOK, Commands
  <2> QED BY <2>1, <2>2 DEF FreshFor
<1> QED BY <1>3, <1>4, <1>5, <1>6, <1>7

\* The actor answers a listing with the slots of now.
LEMMA ListedNow ==
  ASSUME MocInv, TemplatesTellPrints, Sensor, NEW h \in Handlers, pc[h] = "listing",
         ~(ask'[h] = ask[h] /\ reply'[h] = reply[h])
  PROVE  ask'[h].kind = "none" /\ (reply'[h][1] = "listed" => reply'[h][2] = slots)
<1> USE PrintTypes
<1>1. ask'[h] = NoAsk /\ ask[h].kind \in {"none", "list"}
  BY SensorLeavesDaemon DEF MocInv, Asked, HandlerAsks, Waits
<1>2. queue # <<>> /\ \E a \in Replies : Answer(a)
  BY SensorAnswers DEF calls
<1>3. h = Head1
  BY <1>2, Answered DEF MocInv, TypeOK
<1>4. ask[h].kind = "list"
  <2>1. Head1 = queue[1] /\ 1 \in DOMAIN queue
    BY <1>2, QueueShrinks DEF MocInv, TypeOK
  <2> QED BY <1>1, <1>3, <2>1 DEF MocInv, Queued
<1>5. ServeList \/ ServeFails
  BY <1>2, <1>3, <1>4 DEF Sensor, ServeOpen, ServeClose, ServeDelete, ServeClear, ServeBegin, ServeAdvance,
     ServeFinish, ServeCancelled, Serving, Request, calls, MocInv, NoAsk, Answer
<1>6. <<"none">>[1] # "listed" /\ <<"failed">>[1] # "listed"
  OBVIOUS
<1>7. CASE ServeList
  <2>1. reply'[h] \in {<<"none">>, <<"listed", slots>>}
    BY <1>2, <1>3, <1>7, Answered DEF ServeList, Replies, MocInv, TypeOK, ReaderTyped
  <2>2. <<"listed", slots>>[2] = slots
    OBVIOUS
  <2> QED BY <1>1, <1>6, <2>1, <2>2 DEF NoAsk
<1>8. CASE ServeFails
  <2>1. reply'[h] \in {<<"none">>, <<"failed">>}
    BY <1>2, <1>3, <1>8, Answered DEF ServeFails, Replies, MocInv, TypeOK
  <2> QED BY <1>1, <1>6, <2>1 DEF NoAsk
<1> QED BY <1>5, <1>7, <1>8

\* Every step keeps what is compared fresh.
LEMMA FreshKept ==
  ASSUME SerialInv, TemplatesTellPrints, [Next]_vars
  PROVE  Fresh'
<1> USE PrintTypes
<1> SUFFICES ASSUME NEW h \in Handlers
             PROVE  FreshFor(h)'
  BY DEF Fresh
<1>1. FreshFor(h) /\ MocInv
  BY DEF SerialInv, Fresh
<1>2. CASE Sensor
  <2>1. pc'[h] = pc[h] /\ loc'[h] = loc[h]
    BY <1>1, <1>2, SensorLeavesDaemon DEF daemon
  <2>2. CASE ask'[h] = ask[h] /\ reply'[h] = reply[h]
    BY <1>1, <2>1, <2>2, OthersFresh
  <2>3. CASE ~(ask'[h] = ask[h] /\ reply'[h] = reply[h])
    <3>1. ask'[h] = NoAsk
      BY <1>1, <1>2, <2>3, SensorLeavesDaemon
    <3>2. pc[h] = "listing" => (reply'[h][1] = "listed" => reply'[h][2] = slots)
      BY <1>1, <1>2, <2>3, ListedNow
    <3> QED BY <1>1, <2>1, <3>1, <3>2, OthersFresh DEF NoAsk
  <2> QED BY <2>2, <2>3
<1>3. CASE EnrollStop \/ UNCHANGED vars
  <2>1. pc' = pc /\ loc' = loc /\ ask' = ask /\ reply' = reply
    BY <1>3 DEF EnrollStop, vars, daemon, calls
  <2> QED BY <1>1, <2>1, OthersFresh
<1>4. ASSUME NEW g \in Handlers, Client(g) \/ Handler(g)
      PROVE  FreshFor(h)'
  <2>1. CASE g = h
    BY <1>4, <2>1, HandlerFresh
  <2>2. CASE g # h
    <3>1. HandlerStep(g)
      BY <1>1, <1>4, ClaimKeeps, ClaimAnsweredKeeps, CompareKeeps, ReconciliationKeeps, TeardownKeeps,
         DeletionStarts, DropUnclaimedKeeps, DeletionKeeps DEF Client, Handler, HandlerKeeps
    <3>2. \A c \in Callers \ {g} : ask'[c] = ask[c] /\ reply'[c] = reply[c]
      BY <1>1, <3>1, Sent, ReplyTaken DEF HandlerStep, calls, MocInv, TypeOK
    <3> QED BY <1>1, <2>2, <3>1, <3>2, OthersFresh DEF HandlerStep
  <2> QED BY <2>1, <2>2
<1>5. ASSUME NEW p \in Pumps, Pump(p)
      PROVE  FreshFor(h)'
  <2>1. pc' = pc /\ loc' = loc
    BY <1>5 DEF Pump, EnrollStart, PumpSend, PumpStopped, PumpFailed, PumpSaved, PumpEnds
  <2>2. h # p
    OBVIOUS
  <2>3. ask'[h] = ask[h] /\ reply'[h] = reply[h]
    BY <1>1, <1>5, <2>2 DEF Pump, EnrollStart, PumpSend, PumpStopped, PumpFailed, PumpSaved, PumpEnds, Send,
         MocInv, TypeOK, CallsTyped
  <2> QED BY <1>1, <2>1, <2>3, OthersFresh
<1> QED BY <1>2, <1>3, <1>4, <1>5 DEF Next

\* No session is there to begin with.
LEMMA SerialInitial ==
  ASSUME MocInit
  PROVE  SerialInv
<1>1. \A h \in Handlers : pc[h] = "idle"
  BY DEF MocInit
<1> QED BY <1>1, MocInitial
        DEF MocInit, SerialInv, OneActs, PumpsGone, Fresh, FreshFor, Busy, Reconciling, Comparing

\* While no Claim comes before the earlier session's tasks ended, one handler
\* works for a session, no pump works while it reconciles, and what it
\* compares stays true.
THEOREM MocSerial == ~Lingering /\ TemplatesTellPrints => (Spec => []SerialInv)
<1> SUFFICES ASSUME ~Lingering, TemplatesTellPrints
             PROVE  Spec => []SerialInv
  OBVIOUS
<1>1. SerialInv /\ [Next]_vars => SerialInv'
  BY MocInvKept, OneActsKept, PumpsGoneKept, FreshKept DEF SerialInv
<1> QED BY <1>1, SerialInitial, PTL DEF Spec

\* If a Claim comes only when the earlier session's tasks have ended, then
\* reconciliation does not free the slot of a print that the host records: what
\* reconcile_host_with_device read of the host's fingers at its start is still
\* true at each free. (With Lingering it is not, and a slot that a late pump has
\* just recorded is freed.)
THEOREM MocRecordedSlotKept == ~Lingering /\ TemplatesTellPrints => (Spec => RecordedSlotKept)
<1> SUFFICES ASSUME ~Lingering, TemplatesTellPrints
             PROVE  Spec => RecordedSlotKept
  OBVIOUS
<1> USE PrintTypes
<1> DEFINE A == \A u \in Users, f \in Fingers :
                  Slot(u, f) \in Lost /\ queue' # queue => pc[Head1] # "freeing"
<1>1. SerialInv /\ [Next]_vars => [A]_vars
  <2> SUFFICES ASSUME SerialInv, [Next]_vars, NEW u \in Users, NEW f \in Fingers, Slot(u, f) \in Lost,
                      pc[Head1] = "freeing"
               PROVE  FALSE
    OBVIOUS
  <2> DEFINE s == Slot(u, f)
  <2>1. Lost # {}
    OBVIOUS
  <2>2. Head1 \in Handlers /\ s = ask[Head1].print /\ OwnSlot(loc[Head1].user, s) /\ ask[Head1].kind = "delete"
    BY <2>1, LostSlots DEF SerialInv
  <2>3. s.user = u /\ s.finger = f /\ s.template = rec[u][f]
    BY DEF Slot
  <2>4. s.template # None
    BY <2>2 DEF OwnSlot
  <2>5. f \in Recorded(loc[Head1].user)
    BY <2>2, <2>3, <2>4 DEF Recorded, OwnSlot
  <2> HIDE DEF s
  <2> QED BY <2>2, <2>3, <2>5 DEF SerialInv, Fresh, FreshFor, Comparing, Orphan
<1> HIDE DEF A
<1>2. Spec => [][A]_vars
  BY <1>1, MocSerial, PTL DEF Spec
<1> QED BY <1>2, PTL DEF RecordedSlotKept, A

\* If a Claim comes only when the earlier session's tasks have ended, then
\* reconciliation does not drop a record whose slot is on the sensor: nothing is
\* enrolled after the listing that reconcile_host_with_device compares with.
THEOREM MocBackedRecordKept == ~Lingering /\ TemplatesTellPrints => (Spec => BackedRecordKept)
<1> SUFFICES ASSUME ~Lingering, TemplatesTellPrints
             PROVE  Spec => BackedRecordKept
  OBVIOUS
<1> USE PrintTypes
<1> DEFINE A == \A u \in Users, f \in Fingers :
                  Held(Slot(u, f)) /\ rec'[u][f] = None =>
                    \A h \in Handlers : pc[h] = "dropping" => loc'[h] = loc[h]
<1>1. SerialInv /\ [Next]_vars => [A]_vars
  <2> SUFFICES ASSUME SerialInv, [Next]_vars, NEW u \in Users, NEW f \in Fingers,
                      Held(Slot(u, f)), rec'[u][f] = None,
                      NEW h \in Handlers, pc[h] = "dropping", loc'[h] # loc[h]
               PROVE  FALSE
    OBVIOUS
  <2>1. rec[u][f] # None /\ f \in Named(slots)
    <3>1. PICK i \in DOMAIN slots : slots[i] = Slot(u, f)
      BY DEF Held, ToSet
    <3>2. slots[i] \in Prints /\ slots[i].template = rec[u][f] /\ slots[i].finger = f
      BY <3>1 DEF SerialInv, MocInv, TypeOK, ReaderTyped, Slot
    <3> QED BY <3>2 DEF Named
  <2>2. \A p \in Pumps : pst[p] = "off"
    BY DEF SerialInv, PumpsGone, Reconciling, Comparing
  <2>3. ~\E p \in Pumps : Pump(p)
    BY <2>2 DEF Pump, EnrollStart, PumpSend, PumpStopped, PumpFailed, PumpSaved
  <2>4. ~Sensor
    BY SensorLeavesDaemon DEF daemon, SerialInv
  <2>5. PICK g \in Handlers : Client(g) \/ Handler(g)
    BY <2>3, <2>4 DEF Next, EnrollStop, vars, daemon
  <2>6. HandlerStep(g)
    BY <2>5, ClaimKeeps, ClaimAnsweredKeeps, CompareKeeps, ReconciliationKeeps, TeardownKeeps,
       DeletionStarts, DropUnclaimedKeeps, DeletionKeeps DEF Client, Handler, HandlerKeeps, SerialInv
  <2>7. g = h
    BY <2>6 DEF HandlerStep
  <2>8. DropRecord(h)
    <3>1. rec' # rec
      BY <2>1
    <3> QED BY <2>5, <2>7, <3>1 DEF Client, Claim, DeleteUnclaimed, Teardown, DeleteOne, DeleteAll, Delete,
                Handler, ClaimOpened, ClaimFailed, CannotConfirm, Compare, FreeSlot, Freed, Reconciled,
                Closed, DropUnclaimed, Load, Unhost, Unslotted, WipeSensor, Deleted
  <2>9. f \in loc[h].todo
    <3>1. loc[h].user \in Users /\ rec \in [Users -> [Fingers -> Templates \cup {None}]]
      BY DEF SerialInv, MocInv, TypeOK, DaemonTyped, OwnWork, OwnLocals
    <3>2. PICK k \in loc[h].todo : rec' = [rec EXCEPT ![loc[h].user][k] = None]
      BY <2>1, <2>8 DEF DropRecord
    <3> QED BY <2>1, <3>1, <3>2
  <2> QED BY <2>1, <2>9 DEF SerialInv, Fresh, FreshFor, Comparing
<1> HIDE DEF A
<1>2. Spec => [][A]_vars
  BY <1>1, MocSerial, PTL DEF Spec
<1> QED BY <1>2, PTL DEF BackedRecordKept, A

-----------------------------------------------------------------------------
(* What a claim that warned of nothing has done.                           *)

\* What is before and after a position that goes.
LEMMA BeforeAndAfter ==
  ASSUME NEW S, NEW s \in Seq(S), NEW n \in DOMAIN s
  PROVE  /\ Len(RemoveAt(s, n)) = Len(s) - 1
         /\ \A i \in 1..(n - 1) : RemoveAt(s, n)[i] = s[i]
         /\ \A i \in 1..(Len(s) - n) : RemoveAt(s, n)[n - 1 + i] = s[n + i]
<1> DEFINE r == RemoveAt(s, n)
<1>1. /\ Len(s) \in Nat /\ n \in 1..Len(s) /\ Len(r) = Len(s) - 1
      /\ \A j \in 1..(Len(s) - 1) : r[j] = IF j < n THEN s[j] ELSE s[j + 1]
  BY Removed
<1> HIDE DEF r
<1>2. \A i \in 1..(Len(s) - n) : r[n - 1 + i] = s[n + i]
  <2> SUFFICES ASSUME NEW i \in 1..(Len(s) - n)
               PROVE  r[n - 1 + i] = s[n + i]
    OBVIOUS
  <2>1. n - 1 + i \in 1..(Len(s) - 1) /\ ~(n - 1 + i < n) /\ n - 1 + i + 1 = n + i
    BY <1>1
  <2> QED BY <1>1, <2>1
<1>3. \A i \in 1..(n - 1) : r[i] = s[i]
  BY <1>1
<1> QED BY <1>1, <1>2, <1>3 DEF r

\* The reader frees the slot that the claim has come to, and no twin before it.
LEMMA WalkedOn ==
  ASSUME MocInv, TemplatesTellPrints, NEW h \in Handlers, Walked(h), UNCHANGED loc,
         ask[h].kind = "delete", ask[h].print \in Prints, Orphan(h, ask[h].print),
         DeletePrint(ask[h].print.template), ask'[h].kind = "none"
  PROVE  Walked(h)'
<1> DEFINE l == loc[h].left
           n == Seen(h)
           t == ask[h].print.template
<1>1. slots \in Seq(Prints) /\ l \in Seq(Prints)
  BY DEF MocInv, TypeOK, ReaderTyped, DaemonTyped, Locals
<1>2. n = Len(slots) - Len(l) /\ n \in Nat /\ n > 0 /\ slots[n] = ask[h].print
  BY <1>1 DEF Walked, Seen
<1>3. \A i \in DOMAIN l : slots[n + i] = l[i]
  BY DEF Walked
<1>4. \A i \in 1..(n - 1) : ~Orphan(h, slots[i])
  <2> HIDE DEF n
  <2>1. \A i \in 1..(n - 1) : i \in 1..n /\ i # n
    BY <1>2
  <2> QED BY <2>1 DEF Walked, n
<1> HIDE DEF n, l
<1>5. FirstWith(t) = n
  <2>1. /\ n \in DOMAIN slots /\ DOMAIN slots = 1..Len(slots) /\ Len(slots) \in Nat
        /\ slots[n].template = t
    <3>1. l \in Seq(Prints) => Len(l) \in Nat
      OBVIOUS
    <3> QED BY <1>1, <1>2, <3>1
  <2>2. \A i \in 1..(n - 1) : slots[i].template # t
    <3> SUFFICES ASSUME NEW i \in 1..(n - 1), slots[i].template = t
                 PROVE  FALSE
      OBVIOUS
    <3>1. i \in DOMAIN slots
      BY <1>2, <2>1
    <3>2. slots[i] = ask[h].print
      BY <1>1, <3>1 DEF TemplatesTellPrints
    <3> QED BY <1>4, <3>2
  <2> HIDE DEF t
  <2>3. \A i \in DOMAIN slots :
          slots[i].template = t /\ (\A j \in 1..(i - 1) : slots[j].template # t) => i = n
    <3> SUFFICES ASSUME NEW i \in DOMAIN slots, slots[i].template = t,
                        \A j \in 1..(i - 1) : slots[j].template # t
                 PROVE  i = n
      OBVIOUS
    <3>1. i \in Nat /\ i >= 1 /\ n >= 1 /\ i \notin 1..(n - 1) /\ n \notin 1..(i - 1)
      BY <1>2, <2>1, <2>2
    <3> QED BY <1>2, <3>1
  <2> QED BY <2>1, <2>2, <2>3 DEF FirstWith
<1>6. /\ n \in DOMAIN slots
      /\ Len(slots') - Len(l) = n - 1
      /\ \A i \in DOMAIN l : slots'[n - 1 + i] = l[i]
      /\ \A i \in 1..(n - 1) : slots'[i] = slots[i]
  <2>1. slots' = RemoveAt(slots, n)
    BY <1>5 DEF DeletePrint
  <2>2. /\ n \in DOMAIN slots /\ Len(slots) \in Nat /\ Len(l) \in Nat
        /\ DOMAIN l = 1..(Len(slots) - n) /\ Len(l) = Len(slots) - n
    <3>1. l \in Seq(Prints) => Len(l) \in Nat /\ DOMAIN l = 1..Len(l)
      OBVIOUS
    <3> QED BY <1>1, <1>2, <3>1
  <2>3. /\ Len(slots') = Len(slots) - 1
        /\ \A i \in 1..(n - 1) : slots'[i] = slots[i]
        /\ \A i \in 1..(Len(slots) - n) : slots'[n - 1 + i] = slots[n + i]
    BY <1>1, <2>1, <2>2, BeforeAndAfter
  <2>4. Len(slots') - Len(l) = n - 1
    BY <1>2, <2>2, <2>3
  <2>5. \A i \in DOMAIN l : slots'[n - 1 + i] = l[i]
    BY <1>3, <2>2, <2>3
  <2> QED BY <2>2, <2>3, <2>4, <2>5
<1>7. Seen(h)' = n - 1 /\ loc'[h].left = l
  BY <1>6 DEF Seen, l
<1>8. \A i \in 1..(n - 1) : ~Orphan(h, slots[i])'
  BY <1>4, <1>6 DEF Orphan
<1> QED BY <1>2, <1>6, <1>7, <1>8 DEF Walked

\* The claim goes on to the next orphan, past what is none.
LEMMA WalkedPast ==
  ASSUME MocInv, NEW h \in Handlers, Walked(h), NEW i \in Orphans(h), FreeingAt(h, i),
         ask[h].kind = "none", UNCHANGED slots
  PROVE  Walked(h)'
<1> DEFINE l == loc[h].left
           r == SubSeq(l, i + 1, Len(l))
           n == Seen(h)
<1>1. slots \in Seq(Prints) /\ l \in Seq(Prints) /\ i \in DOMAIN l
  BY DEF MocInv, TypeOK, ReaderTyped, DaemonTyped, Locals, Orphans
<1>2. /\ n = Len(slots) - Len(l) /\ n \in Nat /\ Len(l) \in Nat /\ DOMAIN l = 1..Len(l)
      /\ \A j \in DOMAIN l : slots[n + j] = l[j]
  BY <1>1 DEF Walked, Seen
<1>3. r \in Seq(Prints) /\ Len(r) = Len(l) - i /\ DOMAIN r = 1..(Len(l) - i)
      /\ \A j \in 1..(Len(l) - i) : r[j] = l[i + j]
  BY <1>1, LeftOver
<1>4. loc'[h].left = r /\ ask'[h].kind = "delete" /\ ask'[h].print = l[i]
  BY DEF FreeingAt
<1> HIDE DEF l, r, n
<1>5. Seen(h)' = n + i
  <2>1. Seen(h)' = Len(slots) - Len(r)
    BY <1>4 DEF Seen
  <2>2. Len(slots) \in Nat /\ Len(l) \in Nat /\ i \in Nat
    BY <1>1, <1>2
  <2> QED BY <1>2, <1>3, <2>1, <2>2
<1>6. \A j \in 1..(n + i) : Orphan(h, slots[j]) => j = n + i
  <2> SUFFICES ASSUME NEW j \in 1..(n + i), Orphan(h, slots[j]), j # n + i
               PROVE  FALSE
    OBVIOUS
  <2>1. j \notin 1..n
    BY DEF Walked, n
  <2>2. j - n \in DOMAIN l /\ j - n < i /\ n + (j - n) = j
    <3>1. i \in 1..Len(l) /\ n \in Nat /\ Len(l) \in Nat
      BY <1>1, <1>2
    <3>2. j \in Nat /\ j > n /\ j < n + i
      BY <2>1, <3>1
    <3>3. j - n \in 1..Len(l) /\ j - n < i /\ n + (j - n) = j
      BY <3>1, <3>2
    <3> QED BY <1>2, <3>3
  <2>3. slots[j] = l[j - n]
    BY <1>2, <2>2
  <2>4. j - n \in Orphans(h)
    BY <2>2, <2>3 DEF Orphans, l
  <2>5. i <= j - n
    BY <2>4 DEF FreeingAt
  <2> QED BY <1>1, <1>2, <2>2, <2>5
<1>7. \A j \in 1..(n + i) : Orphan(h, slots[j])' => Orphan(h, slots[j])
  BY DEF FreeingAt, Orphan
<1>8. \A j \in DOMAIN r : slots[n + i + j] = r[j]
  <2> SUFFICES ASSUME NEW j \in DOMAIN r
               PROVE  slots[n + i + j] = r[j]
    OBVIOUS
  <2>1. i + j \in DOMAIN l /\ n + i + j = n + (i + j) /\ r[j] = l[i + j]
    BY <1>1, <1>2, <1>3
  <2> QED BY <1>2, <2>1
<1>9. slots[n + i] = l[i] /\ n + i > 0
  BY <1>1, <1>2
<1>10. n + i \in Nat /\ \A j \in 1..(n + i) : Orphan(h, slots[j])' => j = n + i
  BY <1>1, <1>2, <1>6, <1>7
<1> QED BY <1>4, <1>5, <1>8, <1>9, <1>10 DEF Walked

\* What stays of the progress while others act.
LEMMA ProgressStays ==
  ASSUME SerialInv, TemplatesTellPrints, [Next]_vars, NEW h \in Handlers, ProgressOf(h),
         UNCHANGED <<slots, features>>,
         pc'[h] = pc[h], loc'[h] = loc[h], ask'[h] = ask[h], reply'[h] = reply[h]
  PROVE  ProgressOf(h)'
<1> SUFFICES ASSUME pc[h] \in Comparing, ~Failed(h)
             PROVE  /\ Recorded(loc[h].user)' \subseteq Named(slots) \cup loc[h].todo
                    /\ "delete" \in features => Walked(h)'
  BY DEF ProgressOf, Failed, Named, ToSet, Recorded
<1>1. loc[h].user \in Users
  BY DEF SerialInv, MocInv, OwnWork, OwnLocals, Comparing
<1>2. \A f \in Fingers : rec[loc[h].user][f] = None => rec'[loc[h].user][f] = None
  BY <1>1, ComparedStands
<1>3. Recorded(loc[h].user)' \subseteq Recorded(loc[h].user)
  BY <1>2 DEF Recorded
<1> QED BY <1>3 DEF ProgressOf, Walked, Seen, Orphan

\* The actor answers a handler that compares: it frees the slot or refuses.
LEMMA ProgressAnswered ==
  ASSUME SerialInv, TemplatesTellPrints, Sensor, NEW h \in Handlers, ProgressOf(h)
  PROVE  ProgressOf(h)'
<1> USE PrintTypes
<1> SUFFICES ASSUME pc[h] \in Comparing, ~loc[h].warned
             PROVE  ProgressOf(h)'
  BY SensorLeavesDaemon DEF ProgressOf, Failed, daemon, SerialInv
<1>1. /\ MocInv /\ FreshFor(h) /\ UNCHANGED daemon /\ features' = features /\ features \in Shapes
      /\ loc[h].user \in Users
  BY SensorLeavesDaemon, ShapeSettles
     DEF SerialInv, Fresh, MocInv, Settled, Comparing, OwnWork, OwnLocals
<1>2. CASE ask'[h] = ask[h] /\ reply'[h] = reply[h]
  <2>1. slots' = slots
    <3> SUFFICES ASSUME slots' # slots
                 PROVE  FALSE
      OBVIOUS
    <3>1. Head1 = h /\ queue # <<>> /\ (ServeDelete \/ ServeClear)
      <4>1. /\ queue # <<>> /\ 1 \in DOMAIN queue /\ queue[1] = Head1
            /\ \/ Head1 \in Pumps
               \/ /\ Head1 \in Handlers /\ pc[Head1] \in {"freeing", "unslot", "wiping"}
                  /\ ServeDelete \/ ServeClear
        BY <1>1, SlotsChange DEF Next
      <4>2. Head1 \notin Pumps
        BY <4>1 DEF SerialInv, PumpsGone, Reconciling, Comparing
      <4> QED BY <4>1, <4>2 DEF SerialInv, OneActs, Busy, Comparing
    <3>2. PICK a \in Replies : Answer(a)
      BY <3>1 DEF ServeDelete, ServeClear, Replies
    <3>3. ask'[h] = NoAsk /\ ask[h].kind # "none"
      BY <1>1, <3>1, <3>2, Answered, QueueShrinks DEF MocInv, TypeOK, Queued
    <3> QED BY <1>2, <3>3 DEF NoAsk
  <2> QED BY <1>1, <1>2, <2>1, ProgressStays DEF Next, daemon
<1>3. CASE ~(ask'[h] = ask[h] /\ reply'[h] = reply[h])
  <2>1. queue # <<>> /\ (\E a \in Replies : Answer(a)) /\ ask'[h] = NoAsk
    BY <1>1, <1>3, SensorAnswers, SensorLeavesDaemon DEF calls
  <2>2. h = Head1
    BY <1>1, <1>3, <2>1, Answered DEF MocInv, TypeOK
  <2>3. ask[h].kind # "none"
    <3>1. Head1 = queue[1] /\ 1 \in DOMAIN queue
      BY <1>1, <2>1, QueueShrinks DEF MocInv, TypeOK
    <3> QED BY <1>1, <2>2, <3>1 DEF MocInv, Queued
  <2>4. pc[h] = "freeing" /\ ask[h].kind = "delete"
    BY <1>1, <2>3 DEF MocInv, Asked, HandlerAsks, Waits, Comparing
  <2>5. ServeDelete \/ ServeFails
    BY <2>1, <2>2, <2>4, <1>3 DEF Sensor, ServeOpen, ServeClose, ServeList, ServeClear, ServeBegin, ServeAdvance,
       ServeFinish, ServeCancelled, Serving, Request, calls, NoAsk, Answer
  <2>6. CASE ServeFails
    <3>1. reply'[h] = <<"failed">>
      BY <1>1, <2>2, <2>6 DEF ServeFails, Answer, MocInv, TypeOK, CallsTyped
    <3> QED BY <1>1, <2>4, <3>1 DEF ProgressOf, Failed, daemon
  <2>7. CASE ServeDelete
    <3> DEFINE p == ask[h].print
    <3>1. OwnSlot(loc[h].user, p) /\ p \in Prints /\ DeletePrint(p.template) /\ "delete" \in features
      BY <1>1, <2>2, <2>4, <2>7 DEF MocInv, OwnWork, OwnAsk, OwnSlot, ServeDelete, Request, DeletePrint
    <3>2. Orphan(h, p)
      BY <1>1, <2>4 DEF FreshFor, Comparing
    <3>3. ToSet(slots) \subseteq ToSet(slots') \cup {p}
      BY <1>1, <3>1, PrintDeleted DEF MocInv, TypeOK
    <3>4. rec[loc[h].user][p.finger] = None
      <4>1. p.finger \in Fingers
        BY <1>1, <3>1, OwnSlotNamed
      <4> QED BY <1>1, <2>4, <3>2, <4>1 DEF FreshFor, Comparing, Orphan, Recorded
    <3>5. \A s \in ToSet(slots) \ {p} : s \in ToSet(slots')
      BY <3>3
    <3>6. reply[h] # <<"failed">>
      BY <1>1, <2>3, RepliesDiffer DEF MocInv, Asked, HandlerAsks
    <3> HIDE DEF p
    <3>7. Recorded(loc[h].user) \subseteq Named(slots') \cup loc[h].todo
      <4> SUFFICES ASSUME NEW f \in Recorded(loc[h].user), f \notin loc[h].todo
                   PROVE  f \in Named(slots')
        OBVIOUS
      <4>1. PICK s \in ToSet(slots) : s.finger = f /\ f # None
        BY <3>6 DEF ProgressOf, Failed, Named, ToSet
      <4>2. s # p
        BY <3>4, <4>1 DEF Recorded
      <4> QED BY <3>5, <4>1, <4>2 DEF Named, ToSet
    <3>8. Walked(h)'
      BY <1>1, <2>1, <2>4, <3>1, <3>2, <3>6, WalkedOn DEF ProgressOf, Failed, daemon, NoAsk, p
    <3> QED BY <1>1, <3>7, <3>8 DEF ProgressOf, daemon, Recorded, Named
  <2> QED BY <2>5, <2>6, <2>7
<1> QED BY <1>2, <1>3

\* The handler itself: it compares, drops a record, or frees a slot.
LEMMA ProgressMade ==
  ASSUME SerialInv, NEW h \in Handlers, ProgressOf(h), Client(h) \/ Handler(h)
  PROVE  ProgressOf(h)'
<1> USE PrintTypes
<1>1. /\ MocInv /\ FreshFor(h) /\ UNCHANGED <<slots, features>>
      /\ pc \in [Handlers -> {"idle", "hostonly", "closing"} \cup Reconciling \cup Deleting]
      /\ loc \in [Handlers -> Locals] /\ loc[h] \in Locals /\ OwnLocals(h)
  BY ClaimKeeps, ClaimAnsweredKeeps, CompareKeeps, ReconciliationKeeps, TeardownKeeps,
     DeletionStarts, DropUnclaimedKeeps, DeletionKeeps
     DEF Client, Handler, HandlerKeeps, HandlerStep, SerialInv, Fresh, MocInv, TypeOK, DaemonTyped, OwnWork
<1>2. ToSet(slots') = ToSet(slots) /\ Named(slots') = Named(slots)
  BY <1>1
<1>3. CASE Compare(h)
  <2> DEFINE u == loc[h].user
             all == IF "delete" \in features THEN slots ELSE <<>>
  <2>1. /\ loc' = [loc EXCEPT ![h] = [loc[h] EXCEPT !.host = Recorded(u),
                                                    !.todo = Recorded(u) \ Named(slots),
                                                    !.left = all]]
        /\ UNCHANGED rec /\ Taken(h)
    BY <1>1, <1>3 DEF Compare, FreshFor, Set
  <2>2. /\ loc'[h].user = u /\ loc'[h].host = Recorded(u) /\ loc'[h].todo = Recorded(u) \ Named(slots)
        /\ loc'[h].left = all
    <3> HIDE DEF all, u
    <3> QED BY <1>1, <2>1 DEF Locals, u
  <2>3. Recorded(loc[h].user)' \subseteq Named(slots') \cup loc'[h].todo
    BY <1>2, <2>1, <2>2 DEF Recorded
  <2>4. ask'[h].kind = "none"
    BY <1>1, <1>3, <2>1, NothingAsked DEF Compare, Taken
  <2>5. ("delete" \in features) => Walked(h)'
    <3> SUFFICES ASSUME "delete" \in features
                 PROVE  Walked(h)'
      OBVIOUS
    <3>1. slots \in Seq(Prints) /\ loc'[h].left = slots /\ slots' = slots
      BY <1>1, <2>2 DEF MocInv, TypeOK, ReaderTyped
    <3>2. Seen(h)' = 0 /\ \A i \in DOMAIN slots : 0 + i = i
      BY <3>1 DEF Seen
    <3> QED BY <2>4, <3>1, <3>2 DEF Walked
  <2> HIDE DEF u, all
  <2> QED BY <1>1, <2>3, <2>5 DEF ProgressOf, Recorded
<1>4. CASE DropRecord(h)
  <2>1. PICK f \in loc[h].todo, fails \in BOOLEAN :
          /\ rec' = IF fails THEN rec ELSE [rec EXCEPT ![loc[h].user][f] = None]
          /\ loc' = [loc EXCEPT ![h] = [loc[h] EXCEPT !.todo = @ \ {f}, !.warned = @ \/ fails]]
    BY <1>4 DEF DropRecord, Set
  <2>2. pc[h] = "dropping" /\ pc'[h] = "dropping" /\ loc[h].user \in Users
        /\ rec \in [Users -> [Fingers -> Templates \cup {None}]]
    BY <1>1, <1>4 DEF DropRecord, OwnLocals, MocInv, TypeOK, DaemonTyped
  <2>3. /\ loc'[h].user = loc[h].user /\ loc'[h].host = loc[h].host /\ loc'[h].left = loc[h].left
        /\ loc'[h].todo = loc[h].todo \ {f} /\ (loc'[h].warned <=> (loc[h].warned \/ fails))
    BY <1>1, <2>1 DEF Locals
  <2> SUFFICES ASSUME ~loc'[h].warned
               PROVE  /\ Recorded(loc[h].user)' \subseteq Named(slots') \cup loc'[h].todo
                      /\ "delete" \in features => Walked(h)'
    BY <1>1 DEF ProgressOf, Failed, Recorded
  <2>4. rec' = [rec EXCEPT ![loc[h].user][f] = None] /\ ~loc[h].warned
    BY <2>1, <2>3
  <2>5. rec'[loc[h].user] = [rec[loc[h].user] EXCEPT ![f] = None]
    BY <2>2, <2>4
  <2>6. \A k \in Fingers : rec'[loc[h].user][k] # None => k # f /\ rec[loc[h].user][k] # None
    BY <2>2, <2>5
  <2>7. ProgressOf(h) /\ pc[h] \in Comparing /\ ~Failed(h) /\ UNCHANGED calls
    BY <1>4, <2>2, <2>4 DEF Comparing, Failed, DropRecord
  <2>8. ("delete" \in features) => Walked(h)'
    BY <1>1, <2>3, <2>4, <2>7 DEF ProgressOf, Walked, Seen, Orphan, calls
  <2> QED BY <1>2, <2>2, <2>3, <2>4, <2>6, <2>7, <2>8 DEF ProgressOf, Recorded, calls
<1>5. CASE FreeSlot(h)
  <2>1. PICK i \in Orphans(h) : FreeingAt(h, i)
    BY <1>1, <1>5, FreesOne
  <2>2. ask[h].kind = "none" /\ (~loc[h].warned => ~Failed(h))
    BY <1>1, <1>5, NothingAsked DEF FreeSlot, Failed
  <2>3. ~loc[h].warned /\ "delete" \in features => Walked(h)'
    BY <1>1, <2>1, <2>2, WalkedPast DEF ProgressOf, Comparing, FreeingAt
  <2> QED BY <1>1, <1>2, <2>1, <2>2, <2>3 DEF ProgressOf, Failed, Recorded, Comparing, FreeingAt
<1>6. CASE Freed(h)
  <2> DEFINE w == loc[h].warned \/ reply[h] = <<"failed">>
  <2>1. loc' = [loc EXCEPT ![h] = [loc[h] EXCEPT !.warned = w]]
    BY <1>6 DEF Freed, Set
  <2>2. /\ loc'[h].user = loc[h].user /\ loc'[h].host = loc[h].host /\ loc'[h].todo = loc[h].todo
        /\ loc'[h].left = loc[h].left /\ loc'[h].warned = w
    <3> HIDE DEF w
    <3> QED BY <1>1, <2>1 DEF Locals
  <2>3. ask[h].kind = "none"
    BY <1>1, <1>6, NothingAsked DEF Freed
  <2>4. pc[h] = "freeing" /\ pc'[h] = "dropping" /\ UNCHANGED rec
    BY <1>1, <1>6 DEF Freed, Goto
  <2>5. ask' = ask
    BY <1>6 DEF Freed, Taken
  <2>6. ~w => ~Failed(h)
    BY <2>4 DEF Failed
  <2>7. ~w /\ "delete" \in features => Walked(h)'
    BY <1>1, <2>2, <2>4, <2>5, <2>6 DEF ProgressOf, Walked, Seen, Orphan, Comparing
  <2> QED BY <1>1, <1>2, <2>2, <2>4, <2>6, <2>7 DEF ProgressOf, Failed, Recorded, Comparing
<1>7. CASE ~(Compare(h) \/ DropRecord(h) \/ FreeSlot(h) \/ Freed(h))
  <2>1. pc'[h] \notin Comparing
    <3>1. CASE Client(h)
      BY <1>1, <3>1 DEF Client, Claim, Teardown, DeleteOne, DeleteAll, DeleteUnclaimed, Delete, Goto, Comparing
    <3>2. CASE Handler(h)
      BY <1>1, <1>7, <3>2 DEF Handler, ClaimOpened, ClaimFailed, CannotConfirm, Reconciled, Closed,
           DropUnclaimed, Load, Unhost, Unslotted, WipeSensor, Deleted, Return, Goto, Comparing
    <3> QED BY <3>1, <3>2
  <2> QED BY <2>1 DEF ProgressOf
<1> QED BY <1>3, <1>4, <1>5, <1>6, <1>7

\* Every step keeps the progress of every claim.
LEMMA ProgressKept ==
  ASSUME CompleteInv, TemplatesTellPrints, [Next]_vars
  PROVE  Progress'
<1> USE PrintTypes
<1> SUFFICES ASSUME NEW h \in Handlers
             PROVE  ProgressOf(h)'
  BY DEF Progress
<1>1. MocInv /\ SerialInv /\ ProgressOf(h)
  BY DEF CompleteInv, SerialInv, Progress
<1>2. CASE Sensor
  BY <1>1, <1>2, ProgressAnswered
<1>3. CASE EnrollStop \/ UNCHANGED vars
  <2>1. UNCHANGED <<slots, features, pc, loc, ask, reply>>
    BY <1>3 DEF EnrollStop, vars, reader, daemon, calls
  <2> QED BY <1>1, <2>1, ProgressStays
<1>4. ASSUME NEW g \in Handlers, Client(g) \/ Handler(g)
      PROVE  ProgressOf(h)'
  <2>1. CASE g = h
    BY <1>1, <1>4, <2>1, ProgressMade
  <2>2. CASE g # h
    <3>1. HandlerStep(g) /\ UNCHANGED slots
      BY <1>1, <1>4, ClaimKeeps, ClaimAnsweredKeeps, CompareKeeps, ReconciliationKeeps, TeardownKeeps,
         DeletionStarts, DropUnclaimedKeeps, DeletionKeeps DEF Client, Handler, HandlerKeeps
    <3>2. \A c \in Callers \ {g} : ask'[c] = ask[c] /\ reply'[c] = reply[c]
      BY <1>1, <3>1, Sent, ReplyTaken DEF HandlerStep, calls, MocInv, TypeOK
    <3> QED BY <1>1, <2>2, <3>1, <3>2, ProgressStays DEF HandlerStep
  <2> QED BY <2>1, <2>2
<1>5. ASSUME NEW p \in Pumps, Pump(p)
      PROVE  ProgressOf(h)'
  <2>1. pc' = pc /\ loc' = loc /\ UNCHANGED <<slots, features>>
    BY <1>5 DEF Pump, EnrollStart, PumpSend, PumpStopped, PumpFailed, PumpSaved, PumpEnds, reader
  <2>2. h # p
    OBVIOUS
  <2>3. ask'[h] = ask[h] /\ reply'[h] = reply[h]
    BY <1>1, <1>5, <2>2 DEF Pump, EnrollStart, PumpSend, PumpStopped, PumpFailed, PumpSaved, PumpEnds, Send,
         MocInv, TypeOK, CallsTyped
  <2> QED BY <1>1, <2>1, <2>3, ProgressStays
<1> QED BY <1>2, <1>3, <1>4, <1>5 DEF Next

\* If a Claim comes only when the earlier session's tasks have ended: when one
\* has reconciled and warned of nothing, this user's records name only fingers
\* on the sensor, and the user's slots only fingers that were recorded
\* (reconcile_host_with_device): every slot that had no record is gone, and of
\* several alike every one.
THEOREM MocReconcileComplete ==
  ~Lingering /\ TemplatesTellPrints => (Spec => ReconcileComplete)
<1> SUFFICES ASSUME ~Lingering, TemplatesTellPrints
             PROVE  Spec => ReconcileComplete
  OBVIOUS
<1> DEFINE A == \A h \in Handlers : Reconciled(h) /\ ~loc[h].warned =>
                  /\ Recorded(loc[h].user) \subseteq Named(slots)
                  /\ "delete" \in features =>
                       \A s \in ToSet(slots) : s.user = loc[h].user /\ s.finger # None => s.finger \in loc[h].host
<1>1. MocInit => CompleteInv
  BY SerialInitial DEF MocInit, Progress, ProgressOf, Comparing, CompleteInv
<1>2. CompleteInv /\ [Next]_vars => CompleteInv'
  BY MocInvKept, OneActsKept, PumpsGoneKept, FreshKept, ProgressKept DEF CompleteInv, SerialInv
<1>3. CompleteInv /\ [Next]_vars => [A]_vars
  <2> SUFFICES ASSUME CompleteInv, NEW h \in Handlers, Reconciled(h), ~loc[h].warned
               PROVE  /\ Recorded(loc[h].user) \subseteq Named(slots)
                      /\ "delete" \in features =>
                           \A s \in ToSet(slots) : ~Orphan(h, s)
    BY DEF Orphan
  <2>1. pc[h] = "dropping" /\ loc[h].todo = {} /\ Orphans(h) = {} /\ MocInv /\ ProgressOf(h)
    BY DEF Reconciled, CompleteInv, SerialInv, Progress
  <2>2. ask[h].kind = "none" /\ ~Failed(h)
    BY <2>1, NothingAsked DEF Reconciled, Failed
  <2>3. /\ Recorded(loc[h].user) \subseteq Named(slots)
        /\ "delete" \in features => Walked(h)
    BY <2>1, <2>2 DEF ProgressOf, Comparing
  <2>4. ASSUME Walked(h), NEW i \in DOMAIN slots, Orphan(h, slots[i])
        PROVE  FALSE
    <3> DEFINE l == loc[h].left
    <3>1. l \in Seq(Prints) /\ slots \in Seq(Prints)
      BY <2>1 DEF MocInv, TypeOK, ReaderTyped, DaemonTyped, Locals
    <3>2. i \notin 1..Seen(h)
      BY <2>2, <2>4 DEF Walked
    <3>3. i - Seen(h) \in DOMAIN l /\ Seen(h) + (i - Seen(h)) = i
      BY <2>4, <3>1, <3>2 DEF Seen, Walked
    <3>4. l[i - Seen(h)] = slots[i]
      BY <2>4, <3>3 DEF Walked
    <3> QED BY <2>1, <2>4, <3>3, <3>4 DEF Orphans
  <2> QED BY <2>3, <2>4 DEF ToSet
<1> HIDE DEF A
<1>4. Spec => [][A]_vars
  BY <1>1, <1>2, <1>3, PTL DEF Spec
<1> QED BY <1>4, PTL DEF ReconcileComplete, A

=============================================================================
