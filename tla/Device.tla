-------------------------------- MODULE Device --------------------------------
(***************************************************************************)
(* The D-Bus object of one reader (src/crates/fprintd/src/device.rs): the  *)
(* session a client takes with Claim, the name watcher that ends it when   *)
(* the client leaves the bus, the pumps that drive enroll and verify, and  *)
(* the interface lock of the object server, on top of the device actor.    *)
(*                                                                         *)
(* The reader is a host-image one: no STORAGE feature, so Claim does not   *)
(* reconcile and deletions touch only the host's records.  A user's        *)
(* records are abstracted to whether there is one.  Verify and Identify    *)
(* take the same steps and are one kind of operation.                      *)
(*                                                                         *)
(* Method handlers, watchers and pumps run concurrently on the runtime's   *)
(* threads.  A step below is what runs between two awaits, split further   *)
(* where the code takes two locks one after the other.                     *)
(***************************************************************************)
EXTENDS DeviceActor

CONSTANTS
  Clients,   \* unique bus names
  Tasks,     \* method handlers that can be in flight together
  Watchers,  \* name watcher tasks
  Pumps,     \* pump tasks
  Users,     \* usernames
  Reports,   \* finger statuses the reader reports ("off" is NONE)
  Methods,   \* first steps of the methods the clients call
  Awaits,    \* clients have one call at a time in flight
  Stays,     \* clients leave the bus only when no call of theirs is in flight
  None

Agents == Tasks \cup Watchers

\* Where Release, VerifyStart, EnrollStart, VerifyStop, EnrollStop and the
\* deletions begin.
ClaimedMethods == {"td_take", "vs_auth", "es_auth", "vs_stop", "es_stop", "del_auth"}

ASSUME DeviceAssumption ==
  /\ Tasks \cap Watchers = {} /\ Tasks \cap Pumps = {} /\ Watchers \cap Pumps = {}
  /\ Callers = Agents \cup Pumps
  /\ Reports \subseteq {"on", "off"}
  /\ Methods \subseteq ClaimedMethods \cup {"cl_auth"}
  /\ {"Open", "Close", "Verify", "Enroll"} \subseteq Used
  /\ Awaits \in BOOLEAN /\ Stays \in BOOLEAN
  /\ None \notin Clients \cup Users \cup Agents \cup Pumps
  /\ None \notin [sender : Clients, user : Users, watcher : Watchers]
  /\ None \notin [client : Clients, user : Users]

VARIABLES
  claim,     \* the Session, or None
  active,    \* the pump of the ActiveOp, or None
  finger,    \* finger_status
  enrolled,  \* users with a print on the host
  present,   \* clients still on the bus
  pc,        \* where each handler and watcher is
  loc,       \* its locals
  aborted,   \* watchers whose task was aborted but has not been dropped yet
  pst,       \* where each pump is
  op,        \* what it drives: OpKind
  puser,     \* whose print an enroll pump saves
  stop,      \* pumps whose stop signal was sent
  note       \* the report waiting in each pump's status channel

deviceVars == <<claim, active, finger, enrolled, present, pc, loc, aborted,
                pst, op, puser, stop, note>>
vars == <<actorVars, deviceVars>>
prioVars == <<prio, pstage>>
pumpVars == <<finger, enrolled, pst, op, puser, stop, note>>

OpKinds == {"Verify", "Enroll"}
NoLocals == [who |-> None, user |-> None, watcher |-> None]

Init ==
  /\ ActorInit
  /\ claim = None /\ active = None
  /\ finger = "off" /\ enrolled \in SUBSET Users
  /\ present = Clients
  /\ pc = [a \in Agents |-> "idle"]
  /\ loc = [a \in Agents |-> NoLocals]
  /\ aborted = {}
  /\ pst = [p \in Pumps |-> "done"]
  /\ op = [p \in Pumps |-> "Verify"]
  /\ puser = [p \in Pumps |-> None]
  /\ stop = {}
  /\ note = [p \in Pumps |-> "none"]

-----------------------------------------------------------------------------
(* The interface lock.  A handler's future borrows the interface until it  *)
(* returns.  A pump that publishes a changed status takes the lock for     *)
(* writing, so it waits for every handler in flight; the lock is fair, so  *)
(* no new handler starts while a pump waits.                               *)

Publishing(p) == pst[p] \in {"pub_run", "pub_send", "pub_end"}
WriterWaiting == \E p \in Pumps : Publishing(p)
ReadersGone == \A t \in Tasks : pc[t] = "idle"

Busy(c) == \E t \in Tasks : pc[t] # "idle" /\ loc[t].who = c
Finished(p) == pst[p] = "done"

-----------------------------------------------------------------------------
(* Method calls.  A call that a check without an await refuses changes     *)
(* nothing and is left out.                                                *)

Dispatch(t, c, at, user) ==
  /\ pc[t] = "idle" /\ ~WriterWaiting
  /\ c \in present /\ (Awaits => ~Busy(c))
  /\ pc' = [pc EXCEPT ![t] = at]
  /\ loc' = [loc EXCEPT ![t] = [NoLocals EXCEPT !.who = c, !.user = user]]
  /\ UNCHANGED <<claim, active, present, aborted>>
  /\ UNCHANGED <<actorVars, pumpVars>>

CallClaim(t, c) ==
  "cl_auth" \in Methods /\ Dispatch(t, c, "cl_auth", None)

\* delete_enrolled_fingers needs no claim, only a user.
CallDeleteUnclaimed(t, c) ==
  "del_auth" \in Methods /\ \E u \in Users : Dispatch(t, c, "del_auth", u)

\* The others begin with require_claimed, which also reads the session's user.
CallClaimed(t, c) ==
  /\ claim # None /\ claim.sender = c
  /\ \E at \in ClaimedMethods \cap Methods : Dispatch(t, c, at, claim.user)

Goto(a, at) == pc' = [pc EXCEPT ![a] = at] /\ UNCHANGED loc
Return(t) ==
  /\ pc' = [pc EXCEPT ![t] = "idle"]
  /\ loc' = [loc EXCEPT ![t] = NoLocals]

\* Dropping a Session aborts its watcher: at once where the watcher awaits, at
\* its next await where it runs.  `last` is who drops it.
Watching == {"watch", "deaf", "td_wait"}
AbortAndReturn(w, last) ==
  LET gone == {last} \cup IF w # None /\ pc[w] \in Watching THEN {w} ELSE {}
  IN /\ pc' = [a \in Agents |-> IF a \in gone THEN "idle" ELSE pc[a]]
     /\ loc' = [a \in Agents |-> IF a \in gone THEN NoLocals ELSE loc[a]]
     /\ aborted' = (aborted \cup IF w # None /\ pc[w] \in {"td_take", "td_send"}
                                 THEN {w} ELSE {}) \ gone
     /\ EndCalls(gone)
     /\ UNCHANGED <<cancelled, prioVars>>

SessionWatcher == IF claim = None THEN None ELSE claim.watcher

-----------------------------------------------------------------------------
(* Claim.                                                                  *)

\* Polkit and the user lookup allow the claim for some user, or refuse it.
\* Both ask about a name on the bus, so they refuse one that has left it.
AuthorizeClaim(t) ==
  /\ pc[t] = "cl_auth"
  /\ \/ Return(t)
     \/ \E u \in Users :
          /\ loc[t].who \in present
          /\ pc' = [pc EXCEPT ![t] = "cl_watch"]
          /\ loc' = [loc EXCEPT ![t].user = u]
  /\ UNCHANGED <<claim, active, present, aborted>>
  /\ UNCHANGED <<actorVars, pumpVars>>

FreeWatcher(w) ==
  /\ pc[w] = "idle" /\ stage[w] = "free" /\ w # SessionWatcher
  /\ \A t \in Tasks : loc[t].watcher # w

\* spawn_name_watcher: the match rule sees only later departures.
SpawnWatcher(t) ==
  /\ pc[t] = "cl_watch"
  /\ \/ Return(t)
     \/ \E w \in Watchers :
          /\ FreeWatcher(w)
          /\ pc' = [pc EXCEPT ![t] = "cl_store",
                              ![w] = IF loc[t].who \in present THEN "watch" ELSE "deaf"]
          /\ loc' = [loc EXCEPT ![t].watcher = w,
                                ![w] = [NoLocals EXCEPT !.who = loc[t].who]]
  /\ UNCHANGED <<claim, active, present, aborted>>
  /\ UNCHANGED <<actorVars, pumpVars>>

NewSession(t) ==
  [sender |-> loc[t].who, user |-> loc[t].user, watcher |-> loc[t].watcher]

StoreClaim(t) ==
  /\ pc[t] = "cl_store" /\ claim = None
  /\ claim' = NewSession(t)
  /\ Goto(t, "cl_open")
  /\ UNCHANGED <<active, present, aborted>>
  /\ UNCHANGED <<actorVars, pumpVars>>

RefusedDropsStored(t) ==   \* mutant: the refused Claim aborts the stored session's watcher
  /\ pc[t] = "cl_store" /\ claim # None
  /\ AbortAndReturn(SessionWatcher, t)
  /\ UNCHANGED <<claim, active, present, pumpVars>>
RefuseClaim(t) ==
  /\ pc[t] = "cl_store" /\ claim # None
  /\ AbortAndReturn(loc[t].watcher, t)
  /\ UNCHANGED <<claim, active, present, pumpVars>>

SendOpen(t) ==
  /\ pc[t] = "cl_open"
  /\ Submit(t, "Open")
  /\ Goto(t, "cl_wait")
  /\ UNCHANGED <<claim, active, present, aborted, cancelled, deaf>>
  /\ UNCHANGED <<prioVars, pumpVars>>

ClaimOpened(t) ==
  /\ pc[t] = "cl_wait" /\ stage[t] = "answered" /\ res[t] = "ok"
  /\ AbortAndReturn(None, t)
  /\ UNCHANGED <<claim, active, present, pumpVars>>

\* The error path clears whichever session is stored by then.
ClaimFailed(t) ==
  /\ pc[t] = "cl_wait" /\ stage[t] = "answered" /\ res[t] # "ok"
  /\ claim' = None
  /\ AbortAndReturn(SessionWatcher, t)
  /\ UNCHANGED <<active, present, pumpVars>>

-----------------------------------------------------------------------------
(* teardown, run by Release and by a watcher.                              *)

LiveActive == {p \in Pumps : p = active /\ ~Finished(p)}

TakeActive(a) ==
  /\ pc[a] = "td_take"
  /\ active' = None
  /\ stop' = stop \cup LiveActive
  /\ Goto(a, "td_send")
  /\ UNCHANGED <<claim, present, aborted, finger, enrolled, pst, op, puser, note>>
  /\ UNCHANGED actorVars

SendClose(a) ==
  /\ pc[a] = "td_send"
  /\ Submit(a, "Close")
  /\ Goto(a, "td_wait")
  /\ UNCHANGED <<claim, active, present, aborted, cancelled, deaf>>
  /\ UNCHANGED <<prioVars, pumpVars>>

ClearClaim(a) ==
  /\ pc[a] = "td_wait" /\ stage[a] = "answered"
  /\ claim' = None
  /\ AbortAndReturn(SessionWatcher, a)
  /\ UNCHANGED <<active, present, pumpVars>>

-----------------------------------------------------------------------------
(* The name watcher.                                                       *)

NameIgnored(w) == FALSE   \* mutant
NameVanished(w) ==
  /\ pc[w] = "watch" /\ loc[w].who \notin present
  /\ Goto(w, "td_take")
  /\ UNCHANGED <<claim, active, present, aborted>>
  /\ UNCHANGED <<actorVars, pumpVars>>

\* An aborted task is dropped where it awaits: the reply, or room in the channel.
AbortLands(w) ==
  /\ w \in aborted
  /\ pc[w] = "td_wait" \/ (pc[w] = "td_send" /\ Len(rx) = RxCap)
  /\ AbortAndReturn(None, w)
  /\ UNCHANGED <<claim, active, present, pumpVars>>

-----------------------------------------------------------------------------
(* Starting and stopping an operation.                                     *)

OpOf(at) == IF at \in {"vs_begin", "vs_stop"} THEN "Verify" ELSE "Enroll"

\* Refused by polkit, by the arguments, for want of a print or by begin_op.
RefuseStart(t) ==
  /\ pc[t] \in {"vs_auth", "vs_begin", "es_auth"}
  /\ Return(t)
  /\ UNCHANGED <<claim, active, present, aborted>>
  /\ UNCHANGED <<actorVars, pumpVars>>

\* verify_start loads the prints first; they may be deleted before it begins.
FindPrint(t) ==
  /\ pc[t] = "vs_auth" /\ loc[t].user \in enrolled
  /\ Goto(t, "vs_begin")
  /\ UNCHANGED <<claim, active, present, aborted>>
  /\ UNCHANGED <<actorVars, pumpVars>>

FreePump(p) == Finished(p) /\ p # active /\ stage[p] = "free"

SlotFree == active # None => Finished(active)

BeginOp(t) ==
  /\ pc[t] \in {"vs_begin", "es_auth"}
  /\ SlotFree
  /\ \E p \in Pumps :
       /\ FreePump(p)
       /\ active' = p
       /\ pst' = [pst EXCEPT ![p] = "send"]
       /\ op' = [op EXCEPT ![p] = OpOf(pc[t])]
       /\ puser' = [puser EXCEPT ![p] = loc[t].user]
       /\ stop' = stop \ {p}
  /\ Return(t)
  /\ UNCHANGED <<claim, present, aborted, finger, enrolled, note>>
  /\ UNCHANGED actorVars

StopAnyActive(t) ==   \* mutant: a stop of one kind ends an operation of the other
  /\ pc[t] \in {"vs_stop", "es_stop"}
  /\ active' = None
  /\ stop' = stop \cup LiveActive
  /\ Return(t)
  /\ UNCHANGED <<claim, present, aborted, finger, enrolled, pst, op, puser, note>>
  /\ UNCHANGED actorVars
\* stop_active: nothing to stop, a finished pump, the wrong kind, or a stop.
StopActive(t) ==
  /\ pc[t] \in {"vs_stop", "es_stop"}
  /\ IF active = None \/ (~Finished(active) /\ op[active] # OpOf(pc[t]))
     THEN UNCHANGED <<active, stop>>
     ELSE /\ active' = None
          /\ stop' = IF Finished(active) THEN stop ELSE stop \cup {active}
  /\ Return(t)
  /\ UNCHANGED <<claim, present, aborted, finger, enrolled, pst, op, puser, note>>
  /\ UNCHANGED actorVars

\* The three deletions: refused, partial, or leaving the user no record.
DeleteRecords(t) ==
  /\ pc[t] = "del_auth"
  /\ enrolled' \in {enrolled, enrolled \ {loc[t].user}}
  /\ Return(t)
  /\ UNCHANGED <<claim, active, present, aborted, finger, pst, op, puser, stop, note>>
  /\ UNCHANGED actorVars

-----------------------------------------------------------------------------
(* The pumps: verify_loop, identify_loop and run_enroll.                   *)

PublishNotAtEnd(p, s, next) ==   \* mutant
  /\ finger' = IF next = "end" THEN finger ELSE s
  /\ pst' = [pst EXCEPT ![p] = next]
\* publish_finger_status, then on to `next`; the lock is needed on a change only.
Publish(p, s, next) ==
  /\ finger' = s
  /\ pst' = [pst EXCEPT ![p] =
       IF finger = s THEN next
       ELSE CASE next = "run" -> "pub_run"
              [] next = "send" -> "pub_send"
              [] next = "end" -> "pub_end"]

Published(p) ==
  /\ Publishing(p) /\ ReadersGone
  /\ pst' = [pst EXCEPT ![p] =
       CASE pst[p] = "pub_run" -> "run"
         [] pst[p] = "pub_send" -> "send"
         [] pst[p] = "pub_end" -> "end"]
  /\ UNCHANGED <<claim, active, finger, enrolled, present, pc, loc, aborted,
                 op, puser, stop, note, actorVars>>

PumpSend(p) ==
  /\ pst[p] = "send"
  /\ Submit(p, op[p])
  /\ pst' = [pst EXCEPT ![p] = "run"]
  /\ UNCHANGED <<claim, active, finger, enrolled, present, pc, loc, aborted,
                 op, puser, stop, note, cancelled, deaf, prioVars>>

PumpReport(p) ==
  /\ pst[p] = "run" /\ note[p] # "none"
  /\ Publish(p, note[p], "run")
  /\ note' = [note EXCEPT ![p] = "none"]
  /\ UNCHANGED <<claim, active, enrolled, present, pc, loc, aborted,
                 op, puser, stop, actorVars>>

StopIgnored(p) == FALSE   \* mutant
\* verify_loop drops its cancel sender before it publishes; run_enroll keeps it
\* until the function returns.
PumpStopped(p) ==
  /\ pst[p] = "run" /\ p \in stop
  /\ IF op[p] = "Verify" THEN DropCancels({p}) ELSE UNCHANGED cancelled
  /\ Publish(p, "off", "end")
  /\ note' = [note EXCEPT ![p] = "none"]
  /\ UNCHANGED <<claim, active, enrolled, present, pc, loc, aborted,
                 op, puser, stop, prioVars>>
  /\ UNCHANGED <<rx, cur, dev, stage, kind, deaf, res>>

PumpReply(p) ==
  /\ pst[p] = "run" /\ stage[p] = "answered"
  /\ EndCalls({p})
  /\ Publish(p, "off", IF op[p] = "Verify" /\ res[p] = "retry" THEN "send" ELSE "end")
  /\ IF op[p] = "Enroll" /\ res[p] = "ok"
     THEN enrolled' \in {enrolled, enrolled \cup {puser[p]}}
     ELSE UNCHANGED enrolled
  /\ note' = [note EXCEPT ![p] = "none"]
  /\ UNCHANGED <<claim, active, present, pc, loc, aborted, op, puser, stop,
                 cancelled, prioVars>>

\* The function returns: its channels are dropped and the task is finished.
PumpEnd(p) ==
  /\ pst[p] = "end"
  /\ pst' = [pst EXCEPT ![p] = "done"]
  /\ op' = [op EXCEPT ![p] = "Verify"]
  /\ puser' = [puser EXCEPT ![p] = None]
  /\ stop' = stop \ {p}
  /\ DropCancels({p})
  /\ EndCalls({p})
  /\ UNCHANGED <<claim, active, finger, enrolled, present, pc, loc, aborted,
                 note, prioVars>>

\* The running operation reports a status (status.try_send; a full channel
\* drops it).
SensorReports(p) ==
  /\ cur = p /\ dev = "open" /\ note[p] = "none"
  /\ pst[p] \in {"run", "pub_run"}
  /\ \E s \in Reports : note' = [note EXCEPT ![p] = s]
  /\ UNCHANGED <<claim, active, finger, enrolled, present, pc, loc, aborted,
                 pst, op, puser, stop, actorVars>>

-----------------------------------------------------------------------------
\* A client leaves the bus, whatever it waits for.  Its name is never used again.
Vanish(c) ==
  /\ c \in present /\ (Stays => ~Busy(c))
  /\ present' = present \ {c}
  /\ UNCHANGED <<claim, active, pc, loc, aborted, pumpVars, actorVars>>

\* The logind watcher suspends and resumes the reader.
Logind ==
  /\ \E p \in PrioCallers : CollectPrio(p) \/ SubmitPrio(p)
  /\ UNCHANGED deviceVars

Handler(t) ==
  \/ AuthorizeClaim(t) \/ SpawnWatcher(t) \/ StoreClaim(t) \/ RefuseClaim(t)
  \/ SendOpen(t) \/ ClaimOpened(t) \/ ClaimFailed(t)
  \/ RefuseStart(t) \/ FindPrint(t) \/ BeginOp(t) \/ StopActive(t)
  \/ DeleteRecords(t)

Teardown(a) == TakeActive(a) \/ SendClose(a) \/ ClearClaim(a)
Watcher(w) == NameVanished(w) \/ AbortLands(w)

Pump(p) ==
  \/ PumpSend(p) \/ PumpReport(p) \/ PumpStopped(p) \/ PumpReply(p)
  \/ Published(p) \/ PumpEnd(p)

Next ==
  \/ \E t \in Tasks, c \in Clients :
       CallClaim(t, c) \/ CallDeleteUnclaimed(t, c) \/ CallClaimed(t, c)
  \/ \E t \in Tasks : Handler(t)
  \/ \E a \in Agents : Teardown(a)
  \/ \E w \in Watchers : Watcher(w)
  \/ \E p \in Pumps : Pump(p) \/ SensorReports(p)
  \/ \E c \in Clients : Vanish(c)
  \/ Logind
  \/ ActorNext /\ UNCHANGED deviceVars

Spec == Init /\ [][Next]_vars

\* The runtime runs every task, the actor's calls into the reader return and
\* polkit answers, but nobody is made to touch the sensor: no FinishStream.  A
\* pump's select! polls its branches in random order, so a stop signal is not
\* passed over for ever in favour of reports: SF for PumpStopped.  The system
\* does not fall asleep and wake up for ever without letting the idle actor
\* look at its command channel: SF for TakeCmd.
Fairness ==
  /\ \A t \in Tasks : WF_vars(Handler(t) \/ Teardown(t))
  /\ \A w \in Watchers : WF_vars(Watcher(w) \/ Teardown(w))
  /\ \A p \in Pumps : WF_vars(Pump(p)) /\ SF_vars(PumpStopped(p))
  /\ WF_vars(ActorStep /\ UNCHANGED deviceVars)
  /\ SF_vars(TakeCmd /\ UNCHANGED deviceVars)

FairSpec == Spec /\ Fairness

-----------------------------------------------------------------------------
HandlerPlaces == {"idle", "cl_auth", "cl_watch", "cl_store", "cl_open", "cl_wait",
                  "td_send", "vs_begin"} \cup ClaimedMethods \cup Watching
PumpPlaces == {"send", "run", "end", "done", "pub_run", "pub_send", "pub_end"}

TypeOK ==
  /\ ActorTypeOK
  /\ claim \in [sender : Clients, user : Users, watcher : Watchers] \cup {None}
  /\ active \in Pumps \cup {None}
  /\ finger \in {"on", "off"} /\ enrolled \subseteq Users /\ present \subseteq Clients
  /\ pc \in [Agents -> HandlerPlaces]
  /\ loc \in [Agents -> [who : Clients \cup {None}, user : Users \cup {None},
                         watcher : Watchers \cup {None}]]
  /\ aborted \subseteq Watchers
  /\ pst \in [Pumps -> PumpPlaces] /\ op \in [Pumps -> OpKinds]
  /\ puser \in [Pumps -> Users \cup {None}]
  /\ stop \subseteq Pumps
  /\ note \in [Pumps -> {"none", "on", "off"}]

(* No pump runs that nobody can stop: a pump that was not told to stop is  *)
(* the one in the single-operation slot.  begin_op holds its lock across   *)
(* the spawn so that two concurrent starts cannot orphan a pump.           *)
NoOrphanPump ==
  \A p \in Pumps : ~Finished(p) /\ p \notin stop => active = p

(* Whatever streaming operation is queued for the sensor or holds it, it   *)
(* has been cancelled, or its pump lives and either was told to stop or is *)
(* the one VerifyStop, EnrollStop, Release and the watcher will stop.      *)
EveryStreamStoppable ==
  \A p \in Pumps : stage[p] \in {"queued", "running"} =>
    p \in cancelled \/ (~Finished(p) /\ (active = p \/ p \in stop))

(* finger-present and finger-needed read false between operations, however *)
(* many overlapping pumps wrote the one shared status.                     *)
FingerQuietBetweenOps ==
  (\A p \in Pumps : Finished(p)) => finger = "off"

(* While its client is on the bus, a session has a watcher that listens    *)
(* for that client and nobody else: no teardown, refused Claim or abort    *)
(* that belongs to another call or session takes it away, although Claim   *)
(* spawns the watcher before it knows whether it gets the session.         *)
SessionWatched ==
  claim # None /\ claim.sender \in present =>
    pc[claim.watcher] = "watch" /\ loc[claim.watcher].who = claim.sender

(* A Release that waits for the reader while a pump, to publish a finger   *)
(* status, waits for the interface lock that the Release holds.            *)
HeldUp == WriterWaiting /\ \E t \in Tasks : pc[t] = "td_wait"

(* An operation that a start began after the session's watcher emptied the *)
(* slot: nobody stops it, and the watcher's Close waits until it ends.     *)
LateStart ==
  /\ claim # None /\ pc[claim.watcher] \in {"td_send", "td_wait"}
  /\ \E p \in Pumps : ~Finished(p) /\ p \notin stop

(* A claim does not outlive a client that leaves the bus while a watcher   *)
(* of its session listens for it, at whatever moment that is, be it in the *)
(* middle of a call.  There are two exceptions: that hold-up, and a start  *)
(* of the departed client that comes late.  (The other claims, which Claim *)
(* stores for a client that left before its watcher's match rule was there *)
(* or whose watcher has been through its teardown already, outlive their   *)
(* clients for good.)                                                      *)
VanishedClaimFreed ==
  \A c \in Clients :
    (claim # None /\ claim.sender = c /\ c \notin present /\ pc[claim.watcher] = "watch")
      ~> (claim = None \/ claim.sender # c \/ HeldUp \/ LateStart)

(* A pump that was told to stop finishes without the user's help, unless a *)
(* Release and a publication hold each other up: nothing else stands in    *)
(* the way of a cancelled operation.                                       *)
StoppedPumpEnds == \A p \in Pumps : (p \in stop) ~> (Finished(p) \/ HeldUp)

(* Release stops any operation, closes the sensor and drops the session.   *)
ReleaseEndsSession ==
  \A t \in Tasks : (pc[t] = "td_take") ~> (claim = None)

(* Every method call returns with the same one exception: in particular a  *)
(* Release, which stops the operation in flight and waits for the reader.  *)
CallsReturn == \A t \in Tasks : (pc[t] # "idle") ~> (pc[t] = "idle" \/ HeldUp)
-----------------------------------------------------------------------------
(* What the clients see of all this: the handlers' progress is the call    *)
(* that is in flight, a pump is an operation that serves until it is told  *)
(* to stop, and everything about watchers, channels and locks is hidden.   *)

MethodOf(at) ==
  CASE at \in {"cl_auth", "cl_watch", "cl_store", "cl_open", "cl_wait"} -> "Claim"
    [] at \in {"td_take", "td_send", "td_wait"} -> "Release"
    [] at = "vs_auth" -> "VerifyStart"
    [] at = "vs_begin" -> "VerifyBegin"
    [] at = "es_auth" -> "EnrollStart"
    [] at = "vs_stop" -> "VerifyStop"
    [] at = "es_stop" -> "EnrollStop"
    [] at = "del_auth" -> "Delete"
    [] OTHER -> "none"

OpState(p) ==
  IF Finished(p) THEN "none" ELSE IF p \in stop THEN "leaving" ELSE "serving"

SessionOf == IF claim = None THEN None ELSE [client |-> claim.sender, user |-> claim.user]
ReaderOf == IF dev = "open" THEN "open" ELSE "shut"
OpsOf == [p \in Pumps |-> [state |-> OpState(p), kind |-> op[p], user |-> puser[p]]]
CallsOf == [t \in Tasks |-> [client |-> loc[t].who, method |-> MethodOf(pc[t])]]

Service == INSTANCE ReaderService WITH
  Calls <- Tasks, Ops <- Pumps, prints <- enrolled,
  session <- SessionOf, reader <- ReaderOf, ops <- OpsOf, calls <- CallsOf

(* To clients that await their replies, and stay on the bus until they     *)
(* have them, the reader is a ReaderService: sessions, the reader,         *)
(* operations and prints change only in its steps, so no operation and no  *)
(* open reader survives the session it served, no client's call touches    *)
(* another's session, and a stop that returned left nothing of its kind    *)
(* running.  Not so without Awaits and Stays: then the Close of a watcher  *)
(* may be served before the Open of its client's Claim and leave an open   *)
(* reader without a session, and a Claim that fails late may end the       *)
(* session of another.                                                     *)
ServesItsClients == Service!Spec
===============================================================================
