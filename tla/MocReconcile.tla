---------------------------- MODULE MocReconcile ----------------------------
(***************************************************************************)
(* The host's records and the slots of a match-on-chip sensor, as          *)
(* src/crates/fprintd/src/device.rs keeps them in step: Claim reconciles   *)
(* them, an enrolment writes the slot first and the record when its pump   *)
(* sees the reply, the deletions of the claiming user take both, and the   *)
(* unclaimed deletion takes the record only.                               *)
(*                                                                         *)
(* A handler is a method call in flight, or the watcher's teardown; a pump *)
(* is an enrolment's task.  Each has at most one command with the reader,  *)
(* whose actor serves them one after the other.  A client awaits each      *)
(* reply, but it may leave in the middle of a call: the handler runs on.   *)
(***************************************************************************)
EXTENDS VirtualReader, FiniteSets

CONSTANTS
  Handlers, Pumps,
  Enrolments, \* the prints that users enroll
  Lingering   \* whether a Claim may come before the earlier session's tasks ended

ASSUME MocAssumption ==
  /\ Enrolments \subseteq [user : Users, finger : Fingers, template : Templates]
  /\ Lingering \in BOOLEAN
  /\ None \notin Handlers \cup Pumps
  /\ Handlers \cap Pumps = {}

VARIABLES
  rec,     \* each user's records: a template for each finger, or None
  claim,   \* the user of the session
  serving, \* the handler that the session's client waits for
  active,  \* the pump in the slot
  pc, loc, \* the handlers' places and locals
  pst,     \* the pumps' places
  stop,    \* the pumps told to stop
  queue,   \* the callers whose commands wait at the reader; the first is served
  ask,     \* what each asked
  reply    \* what it was answered

daemon == <<rec, claim, serving, active, pc, loc, pst, stop>>
calls == <<queue, ask, reply>>
vars == <<reader, daemon, calls>>

Callers == Handlers \cup Pumps
NoAsk == [kind |-> "none", print |-> None]
NoLocals == [user |-> None, todo |-> {}, print |-> None, host |-> {}, left |-> <<>>,
             wipe |-> FALSE, warned |-> FALSE]

Recorded(u) == {f \in Fingers : rec[u][f] # None}
\* The slot that a record of u's is about.
Slot(u, f) == [user |-> u, finger |-> f, template |-> rec[u][f]]

\* Records and slots are what earlier runs left: they need not agree.
MocInit ==
  /\ ReaderInit
  /\ rec \in [Users -> [Fingers -> Templates \cup {None}]]
  /\ \A u \in Users : \A f \in Recorded(u) : Slot(u, f) \in Enrolments
  /\ claim = None /\ serving = None /\ active = None
  /\ pc = [h \in Handlers |-> "idle"]
  /\ loc = [h \in Handlers |-> NoLocals]
  /\ pst = [p \in Pumps |-> "off"]
  /\ stop = {}
  /\ queue = <<>>
  /\ ask = [c \in Callers |-> NoAsk]
  /\ reply = [c \in Callers |-> <<"none">>]

Goto(h, p) == pc' = [pc EXCEPT ![h] = p]
Set(h, l) == loc' = [loc EXCEPT ![h] = l]

\* A caller's command joins the queue; its last reply is taken.
Send(c, kind, p) ==
  /\ queue' = Append(queue, c)
  /\ ask' = [ask EXCEPT ![c] = [kind |-> kind, print |-> p]]
  /\ reply' = [reply EXCEPT ![c] = <<"none">>]

\* A handler that has its reply goes on without another command.
Taken(h) == reply' = [reply EXCEPT ![h] = <<"none">>] /\ UNCHANGED <<queue, ask>>

Return(h) ==
  /\ Goto(h, "idle")
  /\ Set(h, NoLocals)
  /\ serving' = IF serving = h THEN None ELSE serving

-----------------------------------------------------------------------------
(* The reader's actor.                                                     *)

Head1 == Head(queue)
Request == ask[Head1]
Serving(kind) == queue # <<>> /\ Request.kind = kind

\* A pump that ended does not receive its reply.
Answer(a) ==
  /\ queue' = Tail(queue)
  /\ ask' = [ask EXCEPT ![Head1] = NoAsk]
  /\ reply' = [reply EXCEPT ![Head1] = IF Head1 \in Pumps /\ pst[Head1] = "off" THEN <<"none">> ELSE a]
  /\ UNCHANGED daemon

ServeOpen == Serving("open") /\ OpenReader /\ Answer(<<"ok">>)
ServeClose == Serving("close") /\ CloseReader /\ Answer(<<"ok">>)
ServeList ==
  /\ Serving("list")
  /\ open /\ "list" \in features
  /\ Answer(<<"listed", slots>>)
  /\ UNCHANGED reader
ServeDelete == Serving("delete") /\ DeletePrint(Request.print.template) /\ Answer(<<"ok">>)
ServeClear == Serving("clear") /\ ClearStorage /\ Answer(<<"ok">>)

\* The reader refuses, or fails for a reason of its own.
ServeFails ==
  /\ queue # <<>>
  /\ Request.kind \notin {"none", "close"}
  /\ IF capture # None THEN DropEnroll ELSE UNCHANGED reader
  /\ Answer(<<"failed">>)

ServeBegin ==
  /\ Serving("enroll")
  /\ capture = None
  /\ BeginEnroll(Request.print)
  /\ UNCHANGED <<daemon, calls>>
ServeAdvance == Advance /\ UNCHANGED <<daemon, calls>>
ServeFinish == Serving("enroll") /\ Finish /\ Answer(<<"enrolled", capture.print>>)

\* The pump dropped its cancel sender: the select! drops the operation.
ServeCancelled ==
  /\ Serving("enroll")
  /\ pst[Head1] = "off"
  /\ IF capture # None THEN DropEnroll ELSE UNCHANGED reader
  /\ Answer(<<"none">>)

-----------------------------------------------------------------------------
(* Claim, and its reconciliation.                                          *)

Quiet ==
  /\ \A h \in Handlers : pc[h] \in {"idle", "hostonly"}
  /\ \A p \in Pumps : pst[p] = "off"

Claim(h, u) ==
  /\ claim = None /\ pc[h] = "idle"
  /\ Lingering \/ Quiet
  /\ claim' = u
  /\ serving' = h
  /\ Goto(h, "opening")
  /\ Set(h, [NoLocals EXCEPT !.user = u])
  /\ Send(h, "open", None)
  /\ UNCHANGED <<reader, rec, active, pst, stop>>

ClaimOpened(h) ==
  /\ pc[h] = "opening" /\ reply[h] = <<"ok">>
  /\ IF "list" \in features
     THEN Goto(h, "listing") /\ Send(h, "list", None) /\ UNCHANGED <<loc, serving>>
     ELSE Return(h) /\ Taken(h)
  /\ UNCHANGED <<reader, rec, claim, active, pst, stop>>

\* It clears the session that is stored now.
ClaimFailed(h) ==
  /\ pc[h] = "opening" /\ reply[h] = <<"failed">>
  /\ claim' = None
  /\ Return(h) /\ Taken(h)
  /\ UNCHANGED <<reader, rec, active, pst, stop>>

\* The listing failed, or names no finger: nothing is reconciled.
CannotConfirm(h) ==
  /\ pc[h] = "listing"
  /\ \/ reply[h] = <<"failed">>
     \/ reply[h][1] = "listed" /\ \A i \in DOMAIN reply[h][2] : reply[h][2][i].finger = None
  /\ Return(h) /\ Taken(h)
  /\ UNCHANGED <<reader, rec, claim, active, pst, stop>>

NamedByLast(listing) == IF listing = <<>> THEN {} ELSE {Last(listing).finger} \ {None}   \* mutant
\* The fingers a listing names, over all users.
Named(listing) == {listing[i].finger : i \in DOMAIN listing} \ {None}

\* What to drop is settled by the host's records of now; a reader that can
\* delete single slots has its listing gone through after.
Compare(h) ==
  /\ pc[h] = "listing" /\ reply[h][1] = "listed"
  /\ LET listing == reply[h][2]
         u == loc[h].user IN
     /\ \E i \in DOMAIN listing : listing[i].finger # None
     /\ Set(h, [loc[h] EXCEPT !.host = Recorded(u),
                              !.todo = Recorded(u) \ Named(listing),
                              !.left = IF "delete" \in features THEN listing ELSE <<>>])
  /\ Goto(h, "dropping")
  /\ Taken(h)
  /\ UNCHANGED <<reader, rec, claim, serving, active, pst, stop>>

\* The store may fail to delete: a warning, and the claim goes on.
DropRecord(h) ==
  /\ pc[h] = "dropping"
  /\ \E f \in loc[h].todo, fails \in BOOLEAN :
       /\ rec' = IF fails THEN rec ELSE [rec EXCEPT ![loc[h].user][f] = None]
       /\ Set(h, [loc[h] EXCEPT !.todo = @ \ {f}, !.warned = @ \/ fails])
  /\ UNCHANGED <<reader, claim, serving, active, pc, pst, stop, calls>>

OrphanOfAnyone(h, s) == s.finger # None /\ s.finger \notin loc[h].host             \* mutant
OrphanIfOwned(h, s) == s.user = loc[h].user /\ s.finger # None                     \* mutant
NoOrphan(h, s) == FALSE                                                            \* mutant
\* A slot of this user's, of a finger that the host did not record for them.
Orphan(h, s) ==
  /\ s.user = loc[h].user
  /\ s.finger # None /\ s.finger \notin loc[h].host

Orphans(h) == {i \in DOMAIN loc[h].left : Orphan(h, loc[h].left[i])}

\* The next of them; twins are two slots, and are freed one after the other.
FreeSlot(h) ==
  /\ pc[h] = "dropping" /\ loc[h].todo = {}
  /\ \E i \in Orphans(h) :
       /\ \A j \in Orphans(h) : i <= j
       /\ Set(h, [loc[h] EXCEPT !.left = SubSeq(@, i + 1, Len(@))])
       /\ Send(h, "delete", loc[h].left[i])
  /\ Goto(h, "freeing")
  /\ UNCHANGED <<reader, rec, claim, serving, active, pst, stop>>

Freed(h) ==
  /\ pc[h] = "freeing" /\ reply[h] # <<"none">>
  /\ Set(h, [loc[h] EXCEPT !.warned = @ \/ reply[h] = <<"failed">>])
  /\ Goto(h, "dropping")
  /\ Taken(h)
  /\ UNCHANGED <<reader, rec, claim, serving, active, pst, stop>>

Reconciled(h) ==
  /\ pc[h] = "dropping" /\ loc[h].todo = {} /\ Orphans(h) = {}
  /\ Return(h) /\ Taken(h)
  /\ UNCHANGED <<reader, rec, claim, active, pst, stop>>

-----------------------------------------------------------------------------
(* Release, and the watcher's teardown when the client has left.           *)

\* A pump that still runs is told to stop.
StopActive ==
  /\ stop' = stop \cup {p \in Pumps : p = active /\ pst[p] # "off"}
  /\ active' = None

Teardown(h) ==
  /\ claim # None /\ pc[h] = "idle"
  /\ serving # None => pc[serving] # "closing"
  /\ serving' = h
  /\ StopActive
  /\ Goto(h, "closing")
  /\ Set(h, [NoLocals EXCEPT !.user = claim])
  /\ Send(h, "close", None)
  /\ UNCHANGED <<reader, rec, claim, pst>>

Closed(h) ==
  /\ pc[h] = "closing" /\ reply[h] # <<"none">>
  /\ claim' = None
  /\ Return(h) /\ Taken(h)
  /\ UNCHANGED <<reader, rec, active, pst, stop>>

-----------------------------------------------------------------------------
(* Deletions.  Each finger's template is read before its record goes, and  *)
(* the slot freed after.                                                   *)

\* The store's directory of this user, as the method lists it.
Delete(h, u, fs, wipe) ==
  /\ pc[h] = "idle"
  /\ fs # {} /\ fs \subseteq Recorded(u)
  /\ Goto(h, "load")
  /\ Set(h, [NoLocals EXCEPT !.user = u, !.todo = fs, !.wipe = wipe])
  /\ UNCHANGED <<reader, rec, claim, active, pst, stop, calls>>

DeleteOne(h) ==
  /\ claim # None /\ serving = None
  /\ serving' = h
  /\ \E f \in Fingers : Delete(h, claim, {f}, FALSE)

DeleteAll(h) ==
  /\ claim # None /\ serving = None
  /\ serving' = h
  /\ Delete(h, claim, Recorded(claim), "delete" \notin features /\ "clear" \in features)

\* By anyone with the authorization, without a claim: the sensor is not driven.
DeleteUnclaimed(h, u) ==
  /\ pc[h] = "idle"
  /\ Recorded(u) # {}
  /\ Goto(h, "hostonly")
  /\ Set(h, [NoLocals EXCEPT !.user = u, !.todo = Recorded(u)])
  /\ UNCHANGED <<reader, rec, claim, serving, active, pst, stop, calls>>

DropUnclaimed(h) ==
  /\ pc[h] = "hostonly"
  /\ \E f \in loc[h].todo :
       /\ rec' = [rec EXCEPT ![loc[h].user][f] = None]
       /\ Set(h, [loc[h] EXCEPT !.todo = @ \ {f}])
  /\ UNCHANGED <<reader, claim, serving, active, pc, pst, stop, calls>>

\* What cannot be read is as absent.
Load(h) ==
  /\ pc[h] = "load"
  /\ \E f \in loc[h].todo : \E t \in {rec[loc[h].user][f], None} :
       Set(h, [loc[h] EXCEPT !.print = [user |-> loc[h].user, finger |-> f, template |-> t]])
  /\ Goto(h, "unhost")
  /\ UNCHANGED <<reader, rec, claim, serving, active, pst, stop, calls>>

\* The record goes, and if it was loaded its slot is to go.
Unhost(h) ==
  /\ pc[h] = "unhost"
  /\ LET p == loc[h].print IN
     /\ rec' = [rec EXCEPT ![loc[h].user][p.finger] = None]
     /\ Set(h, [loc[h] EXCEPT !.todo = @ \ {p.finger}])
     /\ IF "delete" \in features /\ p.template # None
        THEN Goto(h, "unslot") /\ Send(h, "delete", p)
        ELSE Goto(h, "load") /\ UNCHANGED calls
  /\ UNCHANGED <<reader, claim, serving, active, pst, stop>>

\* Whatever the sensor said.
Unslotted(h) ==
  /\ pc[h] = "unslot" /\ reply[h] # <<"none">>
  /\ Goto(h, "load")
  /\ Taken(h)
  /\ UNCHANGED <<reader, rec, claim, serving, active, loc, pst, stop>>

WipeSensor(h) ==
  /\ pc[h] = "load" /\ loc[h].todo = {} /\ loc[h].wipe
  /\ Goto(h, "wiping")
  /\ Send(h, "clear", None)
  /\ UNCHANGED <<reader, rec, claim, serving, active, loc, pst, stop>>

\* Done, or the store fails to delete and the rest stays.
Deleted(h) ==
  /\ \/ pc[h] \in {"load", "hostonly"} /\ loc[h].todo = {} /\ ~loc[h].wipe
     \/ pc[h] = "wiping" /\ reply[h] # <<"none">>
     \/ pc[h] \in {"unhost", "hostonly"}
  /\ Return(h) /\ Taken(h)
  /\ UNCHANGED <<reader, rec, claim, active, pst, stop>>

-----------------------------------------------------------------------------
(* Enrolment.                                                              *)

EnrollStart(p, print) ==
  /\ claim = print.user /\ serving = None
  /\ \A q \in Pumps : q = active => pst[q] = "off"
  /\ pst[p] = "off" /\ ask[p] = NoAsk
  /\ active' = p
  /\ pst' = [pst EXCEPT ![p] = "start"]
  /\ ask' = [ask EXCEPT ![p] = [kind |-> "enroll", print |-> print]]
  /\ UNCHANGED <<reader, rec, claim, serving, pc, loc, stop, queue, reply>>

EnrollStop ==
  /\ claim # None /\ serving = None /\ active # None
  /\ StopActive
  /\ UNCHANGED <<reader, rec, claim, serving, pc, loc, pst, calls>>

PumpSend(p) ==
  /\ pst[p] = "start"
  /\ pst' = [pst EXCEPT ![p] = "wait"]
  /\ Send(p, "enroll", ask[p].print)
  /\ UNCHANGED <<reader, rec, claim, serving, active, pc, loc, stop>>

PumpEnds(p) ==
  /\ pst' = [pst EXCEPT ![p] = "off"]
  /\ stop' = stop \ {p}
  /\ reply' = [reply EXCEPT ![p] = <<"none">>]
  /\ UNCHANGED <<reader, claim, serving, active, pc, loc, queue, ask>>

\* The stop is chosen, perhaps over a reply that is there.
PumpStopped(p) ==
  /\ pst[p] = "wait" /\ p \in stop
  /\ PumpEnds(p)
  /\ UNCHANGED rec

PumpFailed(p) ==
  /\ pst[p] = "wait" /\ reply[p] = <<"failed">>
  /\ PumpEnds(p)
  /\ UNCHANGED rec

\* The store saves the print, or fails to.
PumpSaved(p) ==
  /\ pst[p] = "wait" /\ reply[p][1] = "enrolled"
  /\ LET print == reply[p][2] IN
       rec' \in {rec, [rec EXCEPT ![print.user][print.finger] = print.template]}
  /\ PumpEnds(p)

-----------------------------------------------------------------------------
Sensor ==
  \/ ServeOpen \/ ServeClose \/ ServeList \/ ServeDelete \/ ServeClear \/ ServeFails
  \/ ServeBegin \/ ServeAdvance \/ ServeFinish \/ ServeCancelled

Handler(h) ==
  \/ ClaimOpened(h) \/ ClaimFailed(h) \/ CannotConfirm(h)
  \/ Compare(h) \/ DropRecord(h) \/ FreeSlot(h) \/ Freed(h) \/ Reconciled(h)
  \/ Closed(h)
  \/ DropUnclaimed(h) \/ Load(h) \/ Unhost(h) \/ Unslotted(h) \/ WipeSensor(h) \/ Deleted(h)

Client(h) ==
  \/ \E u \in Users : Claim(h, u) \/ DeleteUnclaimed(h, u)
  \/ Teardown(h) \/ DeleteOne(h) \/ DeleteAll(h)

Pump(p) ==
  \/ \E print \in Enrolments : EnrollStart(p, print)
  \/ PumpSend(p) \/ PumpStopped(p) \/ PumpFailed(p) \/ PumpSaved(p)

Next ==
  \/ Sensor \/ EnrollStop
  \/ \E h \in Handlers : Client(h) \/ Handler(h)
  \/ \E p \in Pumps : Pump(p)

Spec == MocInit /\ [][Next]_vars

-----------------------------------------------------------------------------
Held(s) == s \in ToSet(slots)
Lost == ToSet(slots) \ ToSet(slots')

\* On a reader that can delete single slots, a command of the daemon takes no
\* slot but the user's it works for, whatever was enrolled, deleted or left
\* over between (delete_all and reconcile_host_with_device promise it).
OthersKept ==
  [][ "delete" \in features /\ queue' # queue =>
        \A s \in Lost : s.user # None /\ Head1 \in Handlers /\ loc[Head1].user = s.user ]_vars

\* Reconciliation does not free the slot of a print that the host records,
\* where a Claim comes only when the earlier session's tasks have ended. With
\* Lingering it may: an enroll pump that was told to stop saves its record
\* after the Claim has read the host's fingers.
RecordedSlotKept ==
  [][ \A u \in Users, f \in Fingers :
        Slot(u, f) \in Lost /\ queue' # queue => pc[Head1] # "freeing" ]_vars

\* Reconciliation never drops a record whose slot is on the sensor.
BackedRecordKept ==
  [][ \A u \in Users, f \in Fingers :
        Held(Slot(u, f)) /\ rec'[u][f] = None =>
          \A h \in Handlers : pc[h] = "dropping" => loc'[h] = loc[h] ]_vars

\* When a claim has reconciled and warned of nothing, this user's records name
\* only fingers that are on the sensor, and the user's slots only fingers that
\* were recorded.
ReconcileComplete ==
  [][ \A h \in Handlers : Reconciled(h) /\ ~loc[h].warned =>
        /\ Recorded(loc[h].user) \subseteq Named(slots)
        /\ "delete" \in features =>
             \A s \in ToSet(slots) : s.user = loc[h].user /\ s.finger # None => s.finger \in loc[h].host ]_vars
=============================================================================
