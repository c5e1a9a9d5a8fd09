----------------------------- MODULE DeviceProofs -----------------------------
(***************************************************************************)
(* What holds of the device actor for any number of callers, any channel   *)
(* capacities and any use of its handle; and of one reader's D-Bus object  *)
(* for any number of clients, concurrent handlers, watchers and pumps.     *)
(*                                                                         *)
(* Every step of the object on its device handle is a step the actor's     *)
(* specification allows, so the object's specification implements the      *)
(* actor's and inherits what is proved of it first.  The object's own      *)
(* invariant, DeviceInv, adds to the types what the code relies on         *)
(* without saying so: a handler that is about to store a session has its   *)
(* locals set (Locals), the command of a pump is a cancellable one         *)
(* (PumpStreams), and somebody is left to clear a raised finger status     *)
(* (FingerOwned).  Then who listens for a session's client, whatever the   *)
(* clients do (Listening); and last the refinement of ReaderService, for   *)
(* clients that await their replies and stay, over SessionInv.             *)
(***************************************************************************)
EXTENDS Device, TLAPS

-----------------------------------------------------------------------------
(* The actor's own invariant: its types and ExactlyOnce are inductive      *)
(* together.  That the actor serves nobody else needs the typing of cur,   *)
(* that a taken command has left its channel needs the channel to hold it  *)
(* once.                                                                   *)
ActorInv == ActorTypeOK /\ ExactlyOnce

-----------------------------------------------------------------------------
(* Queues.                                                                 *)

(* Nothing changes for a queue when nobody starts or stops waiting.        *)
LEMMA QueueKept ==
  ASSUME NEW S, NEW q \in Seq(S), NEW f \in [S -> Stages], NEW g \in [S -> Stages],
         Holds(q, f),
         \A c \in S : f[c] = "queued" <=> g[c] = "queued"
  PROVE  Holds(q, g)
  BY DEF Holds

(* A caller that waits nowhere joins the queue.                            *)
LEMMA QueueJoined ==
  ASSUME NEW S, NEW q \in Seq(S), NEW f \in [S -> Stages], NEW c \in S,
         Holds(q, f), f[c] # "queued"
  PROVE  /\ Append(q, c) \in Seq(S) /\ Len(Append(q, c)) = Len(q) + 1
         /\ Holds(Append(q, c), [f EXCEPT ![c] = "queued"])
<1> DEFINE r == Append(q, c)
           g == [f EXCEPT ![c] = "queued"]
<1>1. r \in Seq(S) /\ Len(r) = Len(q) + 1 /\ r[Len(q) + 1] = c
  OBVIOUS
<1>2. \A i \in 1..Len(q) : r[i] = q[i] /\ q[i] # c
  BY DEF Holds
<1>3. \A i \in 1..Len(r) : i \in 1..Len(q) \/ i = Len(q) + 1
  BY <1>1
<1>4. \A i \in 1..Len(r) : g[r[i]] = "queued"
  BY <1>1, <1>2, <1>3 DEF Holds
<1>5. ASSUME NEW d \in S, g[d] = "queued"
      PROVE  \E i \in 1..Len(r) : r[i] = d
  <2>1. CASE d = c
    BY <1>1, <2>1
  <2>2. CASE d # c
    <3>1. PICK i \in 1..Len(q) : q[i] = d
      BY <1>5, <2>2 DEF Holds
    <3> QED
      BY <1>1, <1>2, <3>1
  <2> QED
    BY <2>1, <2>2
<1>6. \A i, j \in 1..Len(r) : r[i] = r[j] => i = j
  BY <1>1, <1>2, <1>3 DEF Holds
<1> QED
  BY <1>1, <1>4, <1>5, <1>6 DEF Holds

(* The first of the queue leaves it.                                       *)
LEMMA QueueTaken ==
  ASSUME NEW S, NEW q \in Seq(S), NEW f \in [S -> Stages], NEW v \in Stages,
         Holds(q, f), q # <<>>, v # "queued"
  PROVE  /\ Head(q) \in S /\ f[Head(q)] = "queued"
         /\ Tail(q) \in Seq(S) /\ Len(Tail(q)) = Len(q) - 1
         /\ Holds(Tail(q), [f EXCEPT ![Head(q)] = v])
<1> DEFINE h == Head(q)
           r == Tail(q)
           g == [f EXCEPT ![h] = v]
<1>1. /\ h \in S /\ h = q[1] /\ 1 \in 1..Len(q)
      /\ r \in Seq(S) /\ Len(r) = Len(q) - 1
  OBVIOUS
<1>2. \A i \in 1..Len(r) : i + 1 \in 1..Len(q) /\ r[i] = q[i + 1]
  BY <1>1
<1>3. \A i \in 1..Len(r) : r[i] \in S /\ r[i] # h
  BY <1>1, <1>2 DEF Holds
<1>4. \A i \in 1..Len(r) : g[r[i]] = "queued"
  BY <1>2, <1>3 DEF Holds
<1>5. ASSUME NEW d \in S, g[d] = "queued"
      PROVE  \E i \in 1..Len(r) : r[i] = d
  <2>1. d # h /\ f[d] = "queued"
    BY <1>1, <1>5
  <2>2. PICK i \in 1..Len(q) : q[i] = d
    BY <2>1 DEF Holds
  <2>3. i # 1 /\ i - 1 \in 1..Len(r) /\ r[i - 1] = d
    BY <1>1, <2>1, <2>2
  <2> QED
    BY <2>3
<1>6. \A i, j \in 1..Len(r) : r[i] = r[j] => i = j
  BY <1>2 DEF Holds
<1>7. f[h] = "queued"
  BY <1>1 DEF Holds
<1> QED
  BY <1>1, <1>4, <1>5, <1>6, <1>7 DEF Holds

-----------------------------------------------------------------------------
(* The actor's own steps.                                                  *)

(* Sending a reply takes the command off the actor and leaves the channel  *)
(* as it was.                                                              *)
LEMMA Answered ==
  ASSUME ActorInv, NEW r \in Outcomes, cur \in Callers, Answer(cur, r)
  PROVE  /\ stage' \in [Callers -> Stages]
         /\ kind' \in [Callers -> Kinds \cup {"none"}]
         /\ res' \in [Callers -> Outcomes]
         /\ cancelled' \subseteq Callers /\ deaf' \subseteq Callers
         /\ Holds(rx, stage')
         /\ \A c \in Callers : stage'[c] # "running"
         /\ \A c \in (deaf \cup cancelled)' : stage'[c] \in {"queued", "running"}
<1>1. stage[cur] = "running"
  BY DEF ActorInv, ExactlyOnce
<1>2. /\ stage' \in [Callers -> Stages]
      /\ kind' \in [Callers -> Kinds \cup {"none"}]
      /\ res' \in [Callers -> Outcomes]
      /\ cancelled' \subseteq Callers /\ deaf' \subseteq Callers
  <2>1. /\ stage \in [Callers -> Stages]
        /\ kind \in [Callers -> Kinds \cup {"none"}]
        /\ res \in [Callers -> Outcomes]
        /\ cancelled \subseteq Callers /\ deaf \subseteq Callers
    BY DEF ActorInv, ActorTypeOK
  <2>2. stage' \in [Callers -> Stages]
    BY <2>1 DEF Answer, Stages
  <2>3. kind' \in [Callers -> Kinds \cup {"none"}]
    BY <2>1 DEF Answer
  <2>4. res' \in [Callers -> Outcomes]
    BY <2>1 DEF Answer
  <2>5. cancelled' \subseteq Callers /\ deaf' \subseteq Callers
    BY <2>1 DEF Answer
  <2> QED
    BY <2>2, <2>3, <2>4, <2>5
<1>3. /\ stage'[cur] \in {"free", "answered"}
      /\ \A c \in Callers \ {cur} : stage'[c] = stage[c]
  <2>1. DOMAIN stage = Callers
    BY DEF ActorInv, ActorTypeOK
  <2> QED
    BY <2>1 DEF Answer
<1>4. Holds(rx, stage')
  <2>1. \A c \in Callers : stage[c] = "queued" <=> stage'[c] = "queued"
    BY <1>1, <1>3
  <2>2. rx \in Seq(Callers) /\ Holds(rx, stage)
    BY DEF ActorInv, ActorTypeOK, ExactlyOnce
  <2>3. stage \in [Callers -> Stages] /\ stage' \in [Callers -> Stages]
    BY <1>2 DEF ActorInv, ActorTypeOK
  <2> QED
    BY <2>1, <2>2, <2>3, QueueKept
<1>5. \A c \in Callers : stage'[c] # "running"
  BY <1>3 DEF ActorInv, ExactlyOnce
<1>6. \A c \in (deaf \cup cancelled)' : stage'[c] \in {"queued", "running"}
  BY <1>3 DEF ActorInv, ActorTypeOK, ExactlyOnce, Answer
<1> QED
  BY <1>2, <1>4, <1>5, <1>6

(* A command answered, the actor is idle again.                            *)
LEMMA ServedInv ==
  ASSUME ActorInv, NEW r \in Outcomes, cur \in Callers, Answer(cur, r),
         cur' = Idle, UNCHANGED <<rx, prio, pstage>>,
         dev' \in {"none", "shut", "open"}
  PROVE  ActorInv'
<1>1. ActorTypeOK'
  BY Answered DEF ActorInv, ActorTypeOK
<1>2. Idle \notin Callers /\ Idle \notin PrioCallers
  BY ActorAssumption
<1>3. \A p \in PrioCallers : pstage[p] # "running"
  BY ActorAssumption DEF ActorInv, ExactlyOnce
<1>4. ExactlyOnce'
  BY <1>2, <1>3, Answered DEF ActorInv, ExactlyOnce
<1> QED
  BY <1>1, <1>4 DEF ActorInv

(* The actor takes the priority command that waits longest.                *)
LEMMA PrioTaken ==
  ASSUME ActorInv, prio # <<>>, prio' = PrioRest, cur' = Head(prio),
         pstage' = [pstage EXCEPT ![Head(prio)] = "running"],
         \A p \in PrioCallers : pstage[p] # "running"
  PROVE  /\ prio' \in Seq(PrioCallers) /\ Len(prio') <= PrioCap
         /\ cur' \in PrioCallers
         /\ pstage' \in [PrioCallers -> Stages]
         /\ Holds(prio', pstage')
         /\ \A p \in PrioCallers : pstage'[p] = "running" <=> cur' = p
<1>1. /\ prio \in Seq(PrioCallers) /\ pstage \in [PrioCallers -> Stages]
      /\ Holds(prio, pstage)
  BY DEF ActorInv, ActorTypeOK, ExactlyOnce
<1>2. "running" \in Stages /\ "running" # "queued"
  BY DEF Stages
<1>3. /\ Head(prio) \in PrioCallers
      /\ Tail(prio) \in Seq(PrioCallers) /\ Len(Tail(prio)) = Len(prio) - 1
      /\ Holds(Tail(prio), [pstage EXCEPT ![Head(prio)] = "running"])
  BY <1>1, <1>2, QueueTaken
<1>4. Len(prio') <= PrioCap
  <2>1. Len(prio) \in Nat /\ Len(prio) <= PrioCap /\ PrioCap \in Nat
    BY ActorAssumption DEF ActorInv, ActorTypeOK
  <2> QED
    BY <1>3, <2>1 DEF PrioRest
<1>5. pstage' \in [PrioCallers -> Stages]
  BY <1>1, <1>2, <1>3
<1> QED
  BY <1>1, <1>3, <1>4, <1>5 DEF PrioRest

(* The actor idles until it takes a priority command or, failing one, the  *)
(* command that waits longest.                                             *)
LEMMA TakeInv ==
  ASSUME ActorInv, TakePrio \/ TakeCmd
  PROVE  ActorInv'
<1>1. /\ \A c \in Callers : stage[c] # "running"
      /\ \A p \in PrioCallers : pstage[p] # "running"
  BY ActorAssumption DEF ActorInv, ExactlyOnce, TakePrio, TakeCmd
<1>2. CASE TakePrio
  <2>1. ActorTypeOK'
    BY <1>1, <1>2, PrioTaken DEF TakePrio, ActorInv, ActorTypeOK
  <2>2. ExactlyOnce'
    BY <1>1, <1>2, <2>1, PrioTaken, ActorAssumption
    DEF TakePrio, ActorInv, ActorTypeOK, ExactlyOnce
  <2> QED
    BY <2>1, <2>2 DEF ActorInv
<1>3. CASE TakeCmd
  <2>1. /\ rx \in Seq(Callers) /\ stage \in [Callers -> Stages]
        /\ Holds(rx, stage) /\ rx # <<>>
        /\ "running" \in Stages /\ "running" # "queued"
    BY <1>3 DEF TakeCmd, ActorInv, ActorTypeOK, ExactlyOnce, Stages
  <2>2. /\ Head(rx) \in Callers /\ stage[Head(rx)] = "queued"
        /\ rx' \in Seq(Callers) /\ Len(rx') = Len(rx) - 1
        /\ Holds(rx', stage')
    BY <1>3, <2>1, QueueTaken DEF TakeCmd
  <2>3. Len(rx') <= RxCap
    <3>1. Len(rx) \in Nat /\ Len(rx) <= RxCap /\ RxCap \in Nat
      BY ActorAssumption DEF ActorInv, ActorTypeOK
    <3> QED
      BY <2>2, <3>1
  <2>4. ActorTypeOK'
    BY <1>3, <2>1, <2>2, <2>3 DEF TakeCmd, ActorInv, ActorTypeOK
  <2>5. \A c \in Callers : stage'[c] = "running" <=> cur' = c
    BY <1>1, <1>3, <2>1, <2>2 DEF TakeCmd
  <2>6. \A c \in Callers : stage[c] = "queued" => stage'[c] \in {"queued", "running"}
    BY <1>3, <2>1, <2>2 DEF TakeCmd
  <2>7. \A c \in (deaf \cup cancelled)' : stage'[c] \in {"queued", "running"}
    BY <1>1, <1>3, <2>6 DEF TakeCmd, ActorInv, ActorTypeOK, ExactlyOnce
  <2>8. Holds(prio', pstage')
    BY <1>3 DEF TakeCmd, ActorInv, ExactlyOnce
  <2>9. \A p \in PrioCallers : pstage'[p] = "running" <=> cur' = p
    BY <1>1, <1>3, <2>2, ActorAssumption DEF TakeCmd
  <2> QED
    BY <2>2, <2>4, <2>5, <2>7, <2>8, <2>9 DEF ActorInv, ExactlyOnce
<1> QED
  BY <1>2, <1>3

(* Every way a command ends with the actor idle.                           *)
LEMMA ServeInv ==
  ASSUME ActorInv,
         \/ RefuseCmd \/ FinishStream \/ CancelStream
         \/ FinishOpen \/ FinishClose \/ FinishUnary
  PROVE  ActorInv'
<1>1. /\ dev \in {"none", "shut", "open"}
      /\ {"ok", "retry", "failed", "cancelled", "proto"} \subseteq Outcomes
  BY DEF ActorInv, ActorTypeOK, Outcomes
<1>2. CASE RefuseCmd
  BY <1>1, <1>2, ServedInv DEF RefuseCmd, Serves
<1>3. CASE FinishStream
  BY <1>1, <1>3, ServedInv DEF FinishStream, Serves
<1>4. CASE CancelStream
  BY <1>1, <1>4, ServedInv DEF CancelStream, Serves
<1>5. CASE FinishOpen
  BY <1>1, <1>5, ServedInv DEF FinishOpen, Serves
<1>6. CASE FinishClose
  BY <1>1, <1>6, ServedInv DEF FinishClose, Serves
<1>7. CASE FinishUnary
  BY <1>1, <1>7, ServedInv DEF FinishUnary, Serves
<1> QED
  BY <1>2, <1>3, <1>4, <1>5, <1>6, <1>7

(* A preempted operation is answered and the priority command taken in the *)
(* same step.                                                              *)
LEMMA PreemptInv ==
  ASSUME ActorInv, Preempt
  PROVE  ActorInv'
<1>1. /\ cur \in Callers /\ Answer(cur, "cancelled") /\ "cancelled" \in Outcomes
      /\ \A p \in PrioCallers : pstage[p] # "running"
  BY ActorAssumption DEF Preempt, Serves, Outcomes, ActorInv, ExactlyOnce
<1>2. /\ prio' \in Seq(PrioCallers) /\ Len(prio') <= PrioCap
      /\ cur' \in PrioCallers
      /\ pstage' \in [PrioCallers -> Stages]
      /\ Holds(prio', pstage')
      /\ \A p \in PrioCallers : pstage'[p] = "running" <=> cur' = p
  BY <1>1, PrioTaken DEF Preempt
<1>3. ActorTypeOK'
  BY <1>1, <1>2, Answered DEF Preempt, ActorInv, ActorTypeOK
<1>4. ExactlyOnce'
  BY <1>1, <1>2, Answered, ActorAssumption DEF Preempt, ExactlyOnce
<1> QED
  BY <1>3, <1>4 DEF ActorInv

(* A suspend or resume ends.                                               *)
LEMMA FinishPrioInv ==
  ASSUME ActorInv, FinishPrio
  PROVE  ActorInv'
<1>1. ActorTypeOK'
  BY DEF FinishPrio, ActorInv, ActorTypeOK, Stages
<1>2. /\ cur \in PrioCallers /\ pstage[cur] = "running"
      /\ pstage \in [PrioCallers -> Stages] /\ prio \in Seq(PrioCallers)
      /\ \A p \in PrioCallers \ {cur} : pstage'[p] = pstage[p] /\ pstage[p] # "running"
      /\ pstage'[cur] = "answered"
  BY DEF FinishPrio, ActorInv, ActorTypeOK, ExactlyOnce
<1>3. Holds(prio', pstage')
  <2>1. \A p \in PrioCallers : pstage[p] = "queued" <=> pstage'[p] = "queued"
    BY <1>2
  <2>2. Holds(prio, pstage) /\ pstage' \in [PrioCallers -> Stages]
    BY <1>1 DEF ActorInv, ActorTypeOK, ExactlyOnce
  <2>3. Holds(prio, pstage')
    BY <1>2, <2>1, <2>2, QueueKept
  <2> QED
    BY <2>3 DEF FinishPrio
<1>4. ExactlyOnce'
  BY <1>2, <1>3, ActorAssumption DEF FinishPrio, ActorInv, ExactlyOnce
<1> QED
  BY <1>1, <1>4 DEF ActorInv

-----------------------------------------------------------------------------
(* The callers' steps.                                                     *)

LEMMA SendInv ==
  ASSUME ActorInv, NEW c \in Callers, Send(c)
  PROVE  ActorInv'
<1>1. /\ rx \in Seq(Callers) /\ stage \in [Callers -> Stages]
      /\ Holds(rx, stage) /\ stage[c] = "free"
  BY DEF Send, Submit, ActorInv, ActorTypeOK, ExactlyOnce
<1>2. /\ rx' \in Seq(Callers) /\ Len(rx') = Len(rx) + 1
      /\ Holds(rx', stage')
  <2>1. rx' = Append(rx, c) /\ stage' = [stage EXCEPT ![c] = "queued"]
    BY DEF Send, Submit
  <2>2. stage[c] # "queued"
    BY <1>1
  <2> QED
    BY <1>1, <2>1, <2>2, QueueJoined
<1>3. Len(rx') <= RxCap
  <2>1. Len(rx) \in Nat /\ Len(rx) < RxCap /\ RxCap \in Nat
    BY <1>1, ActorAssumption DEF Send, Submit, Room
  <2> QED
    BY <1>2, <2>1
<1>4. ActorTypeOK'
  BY <1>1, <1>2, <1>3, ActorAssumption
  DEF Send, Submit, ActorInv, ActorTypeOK, Stages
<1>5. ExactlyOnce'
  BY <1>1, <1>2 DEF Send, Submit, ActorInv, ActorTypeOK, ExactlyOnce
<1> QED
  BY <1>4, <1>5 DEF ActorInv

LEMMA LetGoInv ==
  ASSUME ActorInv, NEW S \in SUBSET Callers, NEW D \in SUBSET Callers, LetGo(S, D)
  PROVE  ActorInv'
<1>1. ActorTypeOK'
  BY DEF LetGo, EndCalls, DropCancels, ActorInv, ActorTypeOK, Stages, Outcomes
<1>2. \A c \in Callers : \/ stage'[c] = stage[c]
                         \/ stage[c] = "answered" /\ stage'[c] = "free"
  BY DEF LetGo, EndCalls, ActorInv, ActorTypeOK
<1>3. Holds(rx', stage')
  <2>1. \A c \in Callers : stage[c] = "queued" <=> stage'[c] = "queued"
    BY <1>2
  <2>2. /\ rx \in Seq(Callers) /\ Holds(rx, stage)
        /\ stage \in [Callers -> Stages] /\ stage' \in [Callers -> Stages]
    BY <1>1 DEF ActorInv, ActorTypeOK, ExactlyOnce
  <2>3. Holds(rx, stage')
    BY <2>1, <2>2, QueueKept
  <2> QED
    BY <2>3 DEF LetGo, EndCalls
<1>4. \A c \in Callers : stage'[c] = "running" <=> cur' = c
  BY <1>2 DEF LetGo, EndCalls, ActorInv, ExactlyOnce
<1>5. \A c \in (deaf \cup cancelled)' : stage'[c] \in {"queued", "running"}
  <2>1. \A c \in Callers : stage[c] \in {"queued", "running"}
                             => stage'[c] \in {"queued", "running"}
    BY <1>2
  <2> QED
    BY <2>1 DEF LetGo, EndCalls, DropCancels, ActorInv, ActorTypeOK, ExactlyOnce
<1>6. ExactlyOnce'
  BY <1>3, <1>4, <1>5 DEF LetGo, EndCalls, ActorInv, ExactlyOnce
<1> QED
  BY <1>1, <1>6 DEF ActorInv

LEMMA PrioCallersInv ==
  ASSUME ActorInv, NEW p \in PrioCallers,
         CollectPrio(p) \/ SubmitPrio(p)
  PROVE  ActorInv'
<1>1. /\ prio \in Seq(PrioCallers) /\ pstage \in [PrioCallers -> Stages]
      /\ Holds(prio, pstage)
  BY DEF ActorInv, ActorTypeOK, ExactlyOnce
<1>2. CASE CollectPrio(p)
  <2>1. ActorTypeOK'
    BY <1>2 DEF CollectPrio, ActorInv, ActorTypeOK, Stages
  <2>2. \A q \in PrioCallers : \/ pstage'[q] = pstage[q]
                               \/ pstage[q] = "answered" /\ pstage'[q] = "free"
    BY <1>1, <1>2 DEF CollectPrio
  <2>3. Holds(prio', pstage')
    <3>1. \A q \in PrioCallers : pstage[q] = "queued" <=> pstage'[q] = "queued"
      BY <2>2
    <3>2. pstage' \in [PrioCallers -> Stages]
      BY <2>1 DEF ActorTypeOK
    <3>3. Holds(prio, pstage')
      BY <1>1, <3>1, <3>2, QueueKept
    <3> QED
      BY <1>2, <3>3 DEF CollectPrio
  <2>4. ExactlyOnce'
    BY <1>2, <2>2, <2>3 DEF CollectPrio, ActorInv, ExactlyOnce
  <2> QED
    BY <2>1, <2>4 DEF ActorInv
<1>3. CASE SubmitPrio(p)
  <2>1. /\ prio' \in Seq(PrioCallers) /\ Len(prio') = Len(prio) + 1
        /\ Holds(prio', pstage')
    BY <1>1, <1>3, QueueJoined DEF SubmitPrio
  <2>2. Len(prio') <= PrioCap
    <3>1. Len(prio) \in Nat /\ Len(prio) < PrioCap /\ PrioCap \in Nat
      BY <1>1, <1>3, ActorAssumption DEF SubmitPrio
    <3> QED
      BY <2>1, <3>1
  <2>3. ActorTypeOK'
    BY <1>1, <1>3, <2>1, <2>2 DEF SubmitPrio, ActorInv, ActorTypeOK, Stages
  <2>4. ExactlyOnce'
    BY <1>1, <1>3, <2>1 DEF SubmitPrio, ActorInv, ExactlyOnce
  <2> QED
    BY <2>3, <2>4 DEF ActorInv
<1> QED
  BY <1>2, <1>3

-----------------------------------------------------------------------------
(* The actor starts with empty channels and every caller free.             *)
LEMMA ActorInitInv ==
  ASSUME ActorInit
  PROVE  ActorInv
<1>1. ActorTypeOK
  <2>1. /\ rx \in Seq(Callers) /\ Len(rx) <= RxCap
        /\ prio \in Seq(PrioCallers) /\ Len(prio) <= PrioCap
    BY ActorAssumption DEF ActorInit
  <2> QED
    BY <2>1 DEF ActorInit, ActorTypeOK, Stages, Outcomes
<1>2. Holds(rx, stage) /\ Holds(prio, pstage)
  BY DEF ActorInit, Holds
<1>3. ExactlyOnce
  BY <1>2, ActorAssumption DEF ActorInit, ExactlyOnce
<1> QED
  BY <1>1, <1>3 DEF ActorInv

(* No step of the actor or of its callers breaks the invariant.            *)
LEMMA ActorStepInv ==
  ASSUME ActorInv, [ActorAndEnvironment]_actorVars
  PROVE  ActorInv'
<1>1. CASE ActorNext
  BY <1>1, TakeInv, ServeInv, PreemptInv, FinishPrioInv DEF ActorNext, ActorStep
<1>2. CASE Environment
  BY <1>2, SendInv, LetGoInv, PrioCallersInv DEF Environment
<1>3. CASE UNCHANGED actorVars
  BY <1>3 DEF actorVars, ActorInv, ActorTypeOK, ExactlyOnce, Holds
<1> QED
  BY <1>1, <1>2, <1>3 DEF ActorAndEnvironment

LEMMA ActorInvariance == ActorSpec => []ActorInv
<1>1. ActorInit => ActorInv
  BY ActorInitInv
<1>2. ActorInv /\ [ActorAndEnvironment]_actorVars => ActorInv'
  BY ActorStepInv
<1> QED
  BY <1>1, <1>2, PTL DEF ActorSpec

(* run_actor keeps its state well-typed and both channels within their     *)
(* capacities.                                                             *)
THEOREM ActorTyped == ActorSpec => []ActorTypeOK
<1>1. ActorInv => ActorTypeOK
  BY DEF ActorInv
<1> QED
  BY <1>1, ActorInvariance, PTL

(* No command and no suspend is lost, served twice, left in its channel    *)
(* after it was taken, or on the actor after it was answered, whatever the *)
(* number of callers and the order of cancels, preempts and dropped        *)
(* replies.                                                                *)
THEOREM ActorServesExactlyOnce == ActorSpec => []ExactlyOnce
<1>1. ActorInv => ExactlyOnce
  BY DEF ActorInv
<1> QED
  BY <1>1, ActorInvariance, PTL

-----------------------------------------------------------------------------
(* The object's invariant.                                                 *)

\* What a handler's locals hold by the time it uses them.
Locals ==
  /\ \A t \in Tasks : pc[t] \in {"cl_auth", "cl_watch", "cl_store"}
                        => loc[t].who \in Clients
  /\ \A t \in Tasks : pc[t] \in {"cl_watch", "cl_store", "vs_auth", "vs_begin", "es_auth"}
                        => loc[t].user \in Users
  /\ \A t \in Tasks : pc[t] = "cl_store" => loc[t].watcher \in Watchers
  /\ \A p \in Pumps : ~Finished(p) => puser[p] \in Users

\* A pump's command in the actor's hands is a streaming one, and has been
\* cancelled if the pump is gone.
PumpStreams ==
  \A p \in Pumps : stage[p] \in {"queued", "running"} =>
    kind[p] \in Streams /\ (p \in cancelled \/ ~Finished(p))

\* A finger status is only raised while a pump that will clear it runs.
FingerOwned ==
  finger = "on" => \E p \in Pumps : pst[p] \in {"run", "pub_run"}

Typed == ActorInv /\ TypeOK /\ Locals
DeviceInv == Typed /\ NoOrphanPump /\ PumpStreams /\ FingerOwned

-----------------------------------------------------------------------------
(* The object and the actor.                                               *)

(* Ending calls without cancelling anything is a step of the actor's       *)
(* environment.                                                            *)
LEMMA EndCallsAllowed ==
  ASSUME NEW S \in SUBSET Callers, EndCalls(S), UNCHANGED <<cancelled, prioVars>>
  PROVE  ActorAndEnvironment
<1>1. DropCancels({})
  BY DEF DropCancels
<1>2. LetGo(S, {})
  BY <1>1 DEF LetGo, prioVars
<1> QED
  BY <1>2 DEF ActorAndEnvironment, Environment

(* So is sending a command.                                                *)
LEMMA SubmitAllowed ==
  ASSUME NEW c \in Callers, NEW k \in Used, Submit(c, k),
         UNCHANGED <<cancelled, deaf, prioVars>>
  PROVE  ActorAndEnvironment
<1>1. Send(c)
  BY DEF Send, prioVars
<1> QED
  BY <1>1 DEF ActorAndEnvironment, Environment

(* The steps of a handler or a watcher that abort a watcher end calls of   *)
(* agents only.                                                            *)
LEMMA AbortAllowed ==
  ASSUME NEW w \in Watchers \cup {None}, NEW a \in Agents, AbortAndReturn(w, a)
  PROVE  ActorAndEnvironment
<1> DEFINE gone == {a} \cup IF w # None /\ pc[w] \in Watching THEN {w} ELSE {}
<1>1. gone \in SUBSET Callers
  BY DeviceAssumption DEF Agents
<1>2. EndCalls(gone) /\ UNCHANGED <<cancelled, prioVars>>
  BY DEF AbortAndReturn
<1> QED
  BY <1>1, <1>2, EndCallsAllowed

(* A pump that stops or ends drops its own channels.                       *)
LEMMA PumpAllowed ==
  ASSUME Typed, NEW p \in Pumps, Pump(p)
  PROVE  [ActorAndEnvironment]_actorVars
<1>1. p \in Callers
  BY DeviceAssumption
<1>2. CASE PumpSend(p)
  <2>1. op[p] \in Used
    BY DeviceAssumption DEF Typed, TypeOK, OpKinds
  <2> QED
    BY <1>1, <1>2, <2>1, SubmitAllowed DEF PumpSend
<1>3. CASE PumpReply(p)
  BY <1>1, <1>3, EndCallsAllowed DEF PumpReply
<1>4. CASE PumpStopped(p)
  <2>1. CASE DropCancels({p})
    <3>1. EndCalls({})
      BY <1>4 DEF PumpStopped, EndCalls, Typed, TypeOK, ActorTypeOK
    <3>2. LetGo({}, {p})
      BY <1>4, <2>1, <3>1 DEF PumpStopped, LetGo, prioVars
    <3> QED
      BY <1>1, <3>2 DEF ActorAndEnvironment, Environment
  <2>2. CASE UNCHANGED cancelled
    BY <1>4, <2>2 DEF PumpStopped, prioVars, actorVars
  <2> QED
    BY <1>4, <2>1, <2>2 DEF PumpStopped
<1>5. CASE PumpEnd(p)
  <2>1. LetGo({p}, {p})
    BY <1>5 DEF PumpEnd, LetGo, prioVars
  <2> QED
    BY <1>1, <2>1 DEF ActorAndEnvironment, Environment
<1>6. CASE PumpReport(p) \/ Published(p)
  BY <1>6 DEF PumpReport, Published
<1> QED
  BY <1>2, <1>3, <1>4, <1>5, <1>6 DEF Pump

(* Whatever the object does, the actor sees a step it allows or none.      *)
LEMMA StepAllowed ==
  ASSUME Typed, [Next]_vars
  PROVE  [ActorAndEnvironment]_actorVars
<1>1. ASSUME NEW t \in Tasks, NEW c \in Clients,
             CallClaim(t, c) \/ CallDeleteUnclaimed(t, c) \/ CallClaimed(t, c)
      PROVE  UNCHANGED actorVars
  BY <1>1 DEF CallClaim, CallDeleteUnclaimed, CallClaimed, Dispatch
<1>2. ASSUME NEW t \in Tasks, Handler(t)
      PROVE  [ActorAndEnvironment]_actorVars
  <2>1. t \in Agents /\ t \in Callers
    BY DeviceAssumption DEF Agents
  <2>2. /\ loc[t].watcher \in Watchers \cup {None}
        /\ SessionWatcher \in Watchers \cup {None}
    BY <2>1 DEF Typed, TypeOK, SessionWatcher
  <2>3. CASE SendOpen(t)
    <3>1. "Open" \in Used
      BY DeviceAssumption
    <3> QED
      BY <2>1, <2>3, <3>1, SubmitAllowed DEF SendOpen
  <2>4. CASE RefuseClaim(t) \/ ClaimOpened(t) \/ ClaimFailed(t)
    BY <2>1, <2>2, <2>4, AbortAllowed DEF RefuseClaim, ClaimOpened, ClaimFailed
  <2>5. CASE \/ AuthorizeClaim(t) \/ SpawnWatcher(t) \/ StoreClaim(t)
             \/ RefuseStart(t) \/ FindPrint(t) \/ BeginOp(t) \/ StopActive(t) \/ DeleteRecords(t)
    BY <2>5 DEF AuthorizeClaim, SpawnWatcher, StoreClaim, RefuseStart, FindPrint, BeginOp,
                StopActive, DeleteRecords
  <2> QED
    BY <1>2, <2>3, <2>4, <2>5 DEF Handler
<1>3. ASSUME NEW a \in Agents, Teardown(a)
      PROVE  [ActorAndEnvironment]_actorVars
  <2>1. a \in Callers /\ "Close" \in Used
    BY DeviceAssumption DEF Agents
  <2>2. SessionWatcher \in Watchers \cup {None}
    BY DEF Typed, TypeOK, SessionWatcher
  <2>3. CASE TakeActive(a)
    BY <2>3 DEF TakeActive
  <2>4. CASE SendClose(a)
    BY <2>1, <2>4, SubmitAllowed DEF SendClose
  <2>5. CASE ClearClaim(a)
    BY <2>2, <2>5, AbortAllowed DEF ClearClaim
  <2> QED
    BY <1>3, <2>3, <2>4, <2>5 DEF Teardown
<1>4. ASSUME NEW w \in Watchers, Watcher(w)
      PROVE  [ActorAndEnvironment]_actorVars
  <2>1. w \in Agents
    BY DEF Agents
  <2> QED
    BY <1>4, <2>1, AbortAllowed DEF Watcher, NameVanished, AbortLands
<1>5. ASSUME NEW p \in Pumps, Pump(p) \/ SensorReports(p)
      PROVE  [ActorAndEnvironment]_actorVars
  BY <1>5, PumpAllowed DEF SensorReports
<1>6. ASSUME NEW c \in Clients, Vanish(c)
      PROVE  UNCHANGED actorVars
  BY <1>6 DEF Vanish
<1>7. CASE Logind
  BY <1>7 DEF Logind, ActorAndEnvironment, Environment
<1>8. CASE ActorNext /\ UNCHANGED deviceVars
  BY <1>8 DEF ActorAndEnvironment
<1>9. CASE UNCHANGED vars
  BY <1>9 DEF vars
<1> QED
  BY <1>1, <1>2, <1>3, <1>4, <1>5, <1>6, <1>7, <1>8, <1>9 DEF Next

-----------------------------------------------------------------------------
(* Types.                                                                  *)

(* Where handlers and watchers end up when a session's watcher is aborted. *)
LEMMA AbortTyped ==
  ASSUME Typed, NEW w \in Watchers \cup {None}, NEW a \in Agents,
         AbortAndReturn(w, a)
  PROVE  /\ pc' \in [Agents -> HandlerPlaces]
         /\ loc' \in [Agents -> [who : Clients \cup {None}, user : Users \cup {None},
                                 watcher : Watchers \cup {None}]]
         /\ aborted' \subseteq Watchers
         /\ \A b \in Agents : \/ pc'[b] = pc[b] /\ loc'[b] = loc[b]
                              \/ pc'[b] = "idle" /\ loc'[b] = NoLocals
<1>1. "idle" \in HandlerPlaces
  BY DEF HandlerPlaces
<1>2. NoLocals \in [who : Clients \cup {None}, user : Users \cup {None},
                    watcher : Watchers \cup {None}]
  BY DEF NoLocals
<1> QED
  BY <1>1, <1>2 DEF AbortAndReturn, Typed, TypeOK

(* What a method call or a return does to the handlers.                    *)
LEMMA MoveTyped ==
  ASSUME Typed, NEW a \in Agents, NEW at \in HandlerPlaces,
         pc' = [pc EXCEPT ![a] = at],
         NEW l \in [who : Clients \cup {None}, user : Users \cup {None},
                    watcher : Watchers \cup {None}],
         loc' = [loc EXCEPT ![a] = l]
  PROVE  /\ pc' \in [Agents -> HandlerPlaces]
         /\ loc' \in [Agents -> [who : Clients \cup {None}, user : Users \cup {None},
                                 watcher : Watchers \cup {None}]]
         /\ pc'[a] = at /\ loc'[a] = l
         /\ \A b \in Agents \ {a} : pc'[b] = pc[b] /\ loc'[b] = loc[b]
  BY DEF Typed, TypeOK

(* Claim, the start and stop methods and the deletions.                    *)
LEMMA HandlerTyped ==
  ASSUME Typed, NEW t \in Tasks, Handler(t), ActorInv'
  PROVE  Typed'
<1>1. t \in Agents /\ t \notin Watchers /\ None \notin Clients \cup Users \cup Watchers
  BY DeviceAssumption DEF Agents
<1>2. /\ loc[t].watcher \in Watchers \cup {None}
      /\ SessionWatcher \in Watchers \cup {None}
  BY <1>1 DEF Typed, TypeOK, SessionWatcher
<1>3. /\ NoLocals \in [who : Clients \cup {None}, user : Users \cup {None},
                       watcher : Watchers \cup {None}]
      /\ {"idle", "cl_watch", "cl_store", "cl_open", "cl_wait", "vs_begin", "watch", "deaf"}
           \subseteq HandlerPlaces
  BY DEF NoLocals, HandlerPlaces, Watching
<1>4. CASE AuthorizeClaim(t)
  <2>1. CASE Return(t)
    BY <1>1, <1>3, <1>4, <2>1, MoveTyped
    DEF AuthorizeClaim, Return, pumpVars, Typed, TypeOK, Locals, Finished, ActorInv
  <2>2. ASSUME NEW u \in Users,
               pc' = [pc EXCEPT ![t] = "cl_watch"], loc' = [loc EXCEPT ![t].user = u]
        PROVE  Typed'
    <3> DEFINE l == [loc[t] EXCEPT !.user = u]
    <3>1. /\ l \in [who : Clients \cup {None}, user : Users \cup {None},
                    watcher : Watchers \cup {None}]
          /\ loc' = [loc EXCEPT ![t] = l]
          /\ l.who = loc[t].who /\ l.user = u
      BY <1>1, <2>2 DEF Typed, TypeOK
    <3>2. loc[t].who \in Clients
      BY <1>4 DEF AuthorizeClaim, Typed, Locals
    <3> HIDE DEF l
    <3> QED
      BY <1>1, <1>3, <1>4, <2>2, <3>1, <3>2, MoveTyped
      DEF AuthorizeClaim, pumpVars, Typed, TypeOK, Locals, Finished, ActorInv, Agents
  <2> QED
    BY <1>4, <2>1, <2>2 DEF AuthorizeClaim
<1>5. CASE SpawnWatcher(t)
  <2>1. CASE Return(t)
    BY <1>1, <1>3, <1>5, <2>1, MoveTyped
    DEF SpawnWatcher, Return, pumpVars, Typed, TypeOK, Locals, Finished, ActorInv
  <2>2. ASSUME NEW w \in Watchers,
               pc' = [pc EXCEPT ![t] = "cl_store",
                                ![w] = IF loc[t].who \in present THEN "watch" ELSE "deaf"],
               loc' = [loc EXCEPT ![t].watcher = w,
                                  ![w] = [NoLocals EXCEPT !.who = loc[t].who]]
        PROVE  Typed'
    <3>1. w \in Agents /\ w # t /\ w \notin Tasks
      BY <1>1, DeviceAssumption DEF Agents
    <3>2. /\ pc' \in [Agents -> HandlerPlaces]
          /\ pc'[t] = "cl_store"
          /\ \A s \in Tasks \ {t} : pc'[s] = pc[s]
      BY <1>1, <1>3, <2>2, <3>1 DEF Typed, TypeOK, Agents
    <3>3. /\ loc' \in [Agents -> [who : Clients \cup {None}, user : Users \cup {None},
                                  watcher : Watchers \cup {None}]]
          /\ loc'[t].who = loc[t].who /\ loc'[t].user = loc[t].user
          /\ loc'[t].watcher = w
          /\ \A s \in Tasks \ {t} : loc'[s] = loc[s]
      BY <1>1, <1>3, <2>2, <3>1 DEF Typed, TypeOK, NoLocals, Agents
    <3>4. loc[t].who \in Clients /\ loc[t].user \in Users
      BY <1>5 DEF SpawnWatcher, Typed, Locals
    <3> QED
      BY <1>5, <3>2, <3>3, <3>4
      DEF SpawnWatcher, pumpVars, Typed, TypeOK, Locals, Finished, ActorInv
  <2> QED
    BY <1>5, <2>1, <2>2 DEF SpawnWatcher
<1>6. CASE StoreClaim(t)
  <2>1. NewSession(t) \in [sender : Clients, user : Users, watcher : Watchers]
    BY <1>6 DEF StoreClaim, NewSession, Typed, Locals
  <2>2. /\ pc' \in [Agents -> HandlerPlaces] /\ pc'[t] = "cl_open"
        /\ \A s \in Tasks \ {t} : pc'[s] = pc[s]
    BY <1>1, <1>3, <1>6 DEF StoreClaim, Goto, Typed, TypeOK, Agents
  <2> QED
    BY <1>6, <2>1, <2>2
    DEF StoreClaim, Goto, pumpVars, Typed, TypeOK, Locals, Finished, ActorInv
<1>7. CASE SendOpen(t)
  <2>1. /\ pc' \in [Agents -> HandlerPlaces] /\ pc'[t] = "cl_wait"
        /\ \A s \in Tasks \ {t} : pc'[s] = pc[s]
    BY <1>1, <1>3, <1>7 DEF SendOpen, Goto, Typed, TypeOK, Agents
  <2> QED
    BY <1>7, <2>1 DEF SendOpen, Goto, pumpVars, Typed, TypeOK, Locals, Finished, ActorInv
<1>8. CASE RefuseClaim(t) \/ ClaimOpened(t) \/ ClaimFailed(t)
  <2>1. PICK w \in Watchers \cup {None} : AbortAndReturn(w, t)
    BY <1>2, <1>8 DEF RefuseClaim, ClaimOpened, ClaimFailed
  <2> QED
    BY <1>1, <1>8, <2>1, AbortTyped
    DEF RefuseClaim, ClaimOpened, ClaimFailed, pumpVars, Typed, TypeOK, Locals,
        Finished, ActorInv, Agents
<1>9. CASE RefuseStart(t)
  BY <1>1, <1>3, <1>9, MoveTyped
  DEF RefuseStart, Return, pumpVars, Typed, TypeOK, Locals, Finished, ActorInv, Agents
<1>10. CASE BeginOp(t)
  <2>1. PICK p \in Pumps :
          /\ active' = p
          /\ pst' = [pst EXCEPT ![p] = "send"]
          /\ op' = [op EXCEPT ![p] = OpOf(pc[t])]
          /\ puser' = [puser EXCEPT ![p] = loc[t].user]
          /\ stop' = stop \ {p}
    BY <1>10 DEF BeginOp
  <2>2. loc[t].user \in Users
    BY <1>10 DEF BeginOp, Typed, Locals
  <2>3. "send" \in PumpPlaces /\ OpOf(pc[t]) \in OpKinds
    BY DEF PumpPlaces, OpOf, OpKinds
  <2>4. /\ pst' \in [Pumps -> PumpPlaces] /\ op' \in [Pumps -> OpKinds]
        /\ puser' \in [Pumps -> Users \cup {None}]
        /\ active' \in Pumps /\ stop' \subseteq Pumps
        /\ puser'[p] \in Users
        /\ \A q \in Pumps \ {p} : pst'[q] = pst[q] /\ puser'[q] = puser[q]
    BY <2>1, <2>2, <2>3 DEF Typed, TypeOK
  <2>5. \A q \in Pumps : ~Finished(q)' => puser'[q] \in Users
    BY <2>4 DEF Typed, Locals, Finished
  <2>6. /\ pc' \in [Agents -> HandlerPlaces]
        /\ loc' \in [Agents -> [who : Clients \cup {None}, user : Users \cup {None},
                                watcher : Watchers \cup {None}]]
        /\ pc'[t] = "idle"
        /\ \A b \in Agents \ {t} : pc'[b] = pc[b] /\ loc'[b] = loc[b]
    BY <1>1, <1>3, <1>10, MoveTyped DEF BeginOp, Return
  <2> QED
    BY <1>10, <2>4, <2>5, <2>6 DEF BeginOp, Typed, TypeOK, Locals, ActorInv, Agents
<1>11. CASE StopActive(t) \/ DeleteRecords(t)
  <2>1. /\ active' \in Pumps \cup {None} /\ stop' \subseteq Pumps
        /\ enrolled' \subseteq Users
        /\ UNCHANGED <<claim, present, aborted, finger, pst, op, puser, note>>
    BY <1>11 DEF StopActive, DeleteRecords, Typed, TypeOK
  <2>2. Return(t)
    BY <1>11 DEF StopActive, DeleteRecords
  <2> QED
    BY <1>1, <1>3, <2>1, <2>2, MoveTyped
    DEF Return, Typed, TypeOK, Locals, Finished, ActorInv, Agents
<1>12. CASE FindPrint(t)
  <2>1. /\ pc' \in [Agents -> HandlerPlaces] /\ pc'[t] = "vs_begin"
        /\ \A s \in Tasks \ {t} : pc'[s] = pc[s]
    BY <1>1, <1>3, <1>12 DEF FindPrint, Goto, Typed, TypeOK, Agents
  <2> QED
    BY <1>12, <2>1 DEF FindPrint, Goto, pumpVars, Typed, TypeOK, Locals, Finished, ActorInv
<1> QED
  BY <1>4, <1>5, <1>6, <1>7, <1>8, <1>9, <1>10, <1>11, <1>12 DEF Handler

(* A method call arrives.                                                  *)
LEMMA DispatchTyped ==
  ASSUME Typed, ActorInv', NEW t \in Tasks, NEW c \in Clients,
         CallClaim(t, c) \/ CallDeleteUnclaimed(t, c) \/ CallClaimed(t, c)
  PROVE  Typed'
<1>1. PICK at \in ClaimedMethods \cup {"cl_auth"}, u \in Users \cup {None} :
        /\ Dispatch(t, c, at, u)
        /\ at \in {"vs_auth", "es_auth"} => u \in Users
  <2>1. CASE CallClaim(t, c)
    BY <2>1 DEF CallClaim
  <2>2. CASE CallDeleteUnclaimed(t, c)
    BY <2>2 DEF CallDeleteUnclaimed, ClaimedMethods
  <2>3. CASE CallClaimed(t, c)
    <3>1. claim.user \in Users
      BY <2>3 DEF CallClaimed, Typed, TypeOK
    <3> QED
      BY <2>3, <3>1 DEF CallClaimed
  <2> QED
    BY <2>1, <2>2, <2>3
<1> DEFINE l == [NoLocals EXCEPT !.who = c, !.user = u]
<1>2. /\ l \in [who : Clients \cup {None}, user : Users \cup {None},
                watcher : Watchers \cup {None}]
      /\ l.who = c /\ l.user = u
  BY DEF NoLocals
<1>3. t \in Agents /\ at \in HandlerPlaces
  BY DEF Agents, HandlerPlaces
<1>4. /\ pc' \in [Agents -> HandlerPlaces]
      /\ loc' \in [Agents -> [who : Clients \cup {None}, user : Users \cup {None},
                              watcher : Watchers \cup {None}]]
      /\ pc'[t] = at /\ loc'[t] = l
      /\ \A b \in Agents \ {t} : pc'[b] = pc[b] /\ loc'[b] = loc[b]
  <2>1. pc' = [pc EXCEPT ![t] = at] /\ loc' = [loc EXCEPT ![t] = l]
    BY <1>1 DEF Dispatch
  <2> HIDE DEF l
  <2> QED
    BY <1>2, <1>3, <2>1, MoveTyped
<1> HIDE DEF l
<1>5. Locals'
  BY <1>1, <1>2, <1>4
  DEF Dispatch, pumpVars, Typed, Locals, Finished, ClaimedMethods, Agents
<1> QED
  BY <1>1, <1>4, <1>5 DEF Dispatch, pumpVars, Typed, TypeOK, ActorInv

(* teardown and the name watcher.                                          *)
LEMMA WatcherTyped ==
  ASSUME Typed, ActorInv', NEW a \in Agents,
         Teardown(a) \/ (a \in Watchers /\ Watcher(a))
  PROVE  Typed'
<1>1. {"td_take", "td_send", "td_wait"} \subseteq HandlerPlaces
  BY DEF HandlerPlaces, ClaimedMethods, Watching
<1>2. SessionWatcher \in Watchers \cup {None}
  BY DEF Typed, TypeOK, SessionWatcher
<1>3. ASSUME NEW at \in {"td_take", "td_send", "td_wait"}, Goto(a, at)
      PROVE  /\ pc' \in [Agents -> HandlerPlaces] /\ pc'[a] = at
             /\ \A b \in Agents \ {a} : pc'[b] = pc[b]
             /\ loc' = loc
  BY <1>1, <1>3 DEF Goto, Typed, TypeOK
<1>4. CASE TakeActive(a)
  <2>1. stop' \subseteq Pumps
    BY <1>4 DEF TakeActive, LiveActive, Typed, TypeOK
  <2> QED
    BY <1>3, <1>4, <2>1
    DEF TakeActive, Typed, TypeOK, Locals, Finished, ActorInv, Agents
<1>5. CASE SendClose(a)
  BY <1>3, <1>5 DEF SendClose, pumpVars, Typed, TypeOK, Locals, Finished, ActorInv, Agents
<1>6. CASE ClearClaim(a)
  BY <1>2, <1>6, AbortTyped
  DEF ClearClaim, pumpVars, Typed, TypeOK, Locals, Finished, ActorInv, Agents
<1>7. CASE NameVanished(a)
  BY <1>3, <1>7 DEF NameVanished, pumpVars, Typed, TypeOK, Locals, Finished, ActorInv, Agents
<1>8. CASE AbortLands(a)
  BY <1>8, AbortTyped
  DEF AbortLands, pumpVars, Typed, TypeOK, Locals, Finished, ActorInv, Agents
<1> QED
  BY <1>4, <1>5, <1>6, <1>7, <1>8 DEF Teardown, Watcher

(* Where a pump goes when it publishes a status.                           *)
LEMMA PublishTyped ==
  ASSUME Typed, NEW p \in Pumps, NEW s \in {"on", "off"},
         NEW next \in {"run", "send", "end"}, Publish(p, s, next)
  PROVE  /\ finger' = s
         /\ pst' \in [Pumps -> PumpPlaces]
         /\ pst'[p] \in {"run", "send", "end", "pub_run", "pub_send", "pub_end"}
         /\ next = "run" => pst'[p] \in {"run", "pub_run"}
         /\ \A q \in Pumps \ {p} : pst'[q] = pst[q]
<1> DEFINE at == IF finger = s THEN next
                 ELSE CASE next = "run" -> "pub_run"
                        [] next = "send" -> "pub_send"
                        [] next = "end" -> "pub_end"
<1>1. /\ at \in {"run", "send", "end", "pub_run", "pub_send", "pub_end"}
      /\ next = "run" => at \in {"run", "pub_run"}
  OBVIOUS
<1>2. finger' = s /\ pst' = [pst EXCEPT ![p] = at]
  BY DEF Publish
<1>3. at \in PumpPlaces
  BY <1>1 DEF PumpPlaces
<1> HIDE DEF at
<1> QED
  BY <1>1, <1>2, <1>3 DEF Typed, TypeOK

(* The pumps.                                                              *)
LEMMA PumpTyped ==
  ASSUME Typed, ActorInv', NEW p \in Pumps, Pump(p) \/ SensorReports(p)
  PROVE  Typed'
<1>1. UNCHANGED <<claim, active, present, pc, loc, aborted>>
  BY DEF Pump, PumpSend, PumpReport, PumpStopped, PumpReply, Published, PumpEnd,
         SensorReports
<1>2. CASE PumpSend(p)
  BY <1>1, <1>2 DEF PumpSend, PumpPlaces, Typed, TypeOK, Locals, Finished, ActorInv
<1>3. CASE PumpReport(p)
  <2>1. note[p] \in {"on", "off"} /\ Publish(p, note[p], "run")
    BY <1>3 DEF PumpReport, Typed, TypeOK
  <2> QED
    BY <1>1, <1>3, <2>1, PublishTyped
    DEF PumpReport, Typed, TypeOK, Locals, Finished, ActorInv
<1>4. CASE PumpStopped(p)
  <2>1. Publish(p, "off", "end")
    BY <1>4 DEF PumpStopped
  <2> QED
    BY <1>1, <1>4, <2>1, PublishTyped
    DEF PumpStopped, Typed, TypeOK, Locals, Finished, ActorInv
<1>5. CASE PumpReply(p)
  <2>1. PICK next \in {"run", "send", "end"} : Publish(p, "off", next)
    BY <1>5 DEF PumpReply
  <2>2. puser[p] \in Users
    BY <1>5 DEF PumpReply, Typed, Locals, Finished
  <2>3. enrolled' \subseteq Users
    BY <1>5, <2>2 DEF PumpReply, Typed, TypeOK
  <2> QED
    BY <1>1, <1>5, <2>1, <2>3, PublishTyped
    DEF PumpReply, Typed, TypeOK, Locals, Finished, ActorInv
<1>6. CASE Published(p)
  <2>1. PICK at \in {"run", "send", "end"} : pst' = [pst EXCEPT ![p] = at]
    BY <1>6 DEF Published, Publishing
  <2> QED
    BY <1>1, <1>6, <2>1
    DEF Published, Publishing, PumpPlaces, Typed, TypeOK, Locals, Finished, ActorInv
<1>7. CASE PumpEnd(p)
  BY <1>1, <1>7 DEF PumpEnd, PumpPlaces, OpKinds, Typed, TypeOK, Locals, Finished, ActorInv
<1>8. CASE SensorReports(p)
  BY <1>1, <1>8, DeviceAssumption
  DEF SensorReports, Typed, TypeOK, Locals, Finished, ActorInv
<1> QED
  BY <1>2, <1>3, <1>4, <1>5, <1>6, <1>7, <1>8 DEF Pump

(* The types hold initially and every step keeps them.                     *)
LEMMA InitTyped ==
  ASSUME Init
  PROVE  Typed
<1>1. ActorInv
  BY ActorInitInv DEF Init
<1>2. /\ "idle" \in HandlerPlaces /\ "done" \in PumpPlaces /\ "Verify" \in OpKinds
      /\ NoLocals \in [who : Clients \cup {None}, user : Users \cup {None},
                       watcher : Watchers \cup {None}]
  BY DEF HandlerPlaces, PumpPlaces, OpKinds, NoLocals
<1>3. TypeOK
  BY <1>1, <1>2 DEF Init, TypeOK, ActorInv
<1>4. Locals
  BY DEF Init, Locals, Finished, Agents
<1> QED
  BY <1>1, <1>3, <1>4 DEF Typed

LEMMA StepTyped ==
  ASSUME Typed, [Next]_vars
  PROVE  Typed'
<1>1. ActorInv'
  BY StepAllowed, ActorStepInv DEF Typed
<1>2. ASSUME NEW c \in Clients, Vanish(c)
      PROVE  Typed'
  BY <1>1, <1>2 DEF Vanish, pumpVars, Typed, TypeOK, Locals, Finished, ActorInv
<1>3. CASE Logind \/ (ActorNext /\ UNCHANGED deviceVars) \/ UNCHANGED vars
  <2>1. UNCHANGED deviceVars
    BY <1>3 DEF Logind, vars
  <2> QED
    BY <1>1, <2>1 DEF deviceVars, Typed, TypeOK, Locals, Finished, ActorInv
<1>4. ASSUME NEW w \in Watchers, Watcher(w)
      PROVE  Typed'
  BY <1>1, <1>4, WatcherTyped DEF Agents
<1> QED
  BY <1>1, <1>2, <1>3, <1>4, DispatchTyped, HandlerTyped, WatcherTyped, PumpTyped DEF Next

-----------------------------------------------------------------------------
(* The single-operation slot.                                              *)

\* The steps that touch neither the slot, nor a pump's place, nor its stop
\* signal, nor the status.
PumpsLeftAlone == UNCHANGED <<active, pst, stop, finger>>

LEMMA OthersLeavePumpsAlone ==
  ASSUME Next
  PROVE  \/ PumpsLeftAlone
         \/ \E t \in Tasks : BeginOp(t) \/ StopActive(t)
         \/ \E a \in Agents : TakeActive(a)
         \/ \E p \in Pumps : Pump(p)
<1>1. ASSUME NEW t \in Tasks, NEW c \in Clients,
             CallClaim(t, c) \/ CallDeleteUnclaimed(t, c) \/ CallClaimed(t, c)
      PROVE  PumpsLeftAlone
  BY <1>1 DEF CallClaim, CallDeleteUnclaimed, CallClaimed, Dispatch, pumpVars,
              PumpsLeftAlone
<1>2. ASSUME NEW t \in Tasks, Handler(t)
      PROVE  PumpsLeftAlone \/ BeginOp(t) \/ StopActive(t)
  BY <1>2 DEF Handler, AuthorizeClaim, SpawnWatcher, StoreClaim, RefuseClaim, SendOpen,
              ClaimOpened, ClaimFailed, RefuseStart, FindPrint, DeleteRecords,
              pumpVars, PumpsLeftAlone
<1>3. ASSUME NEW a \in Agents, Teardown(a)
      PROVE  PumpsLeftAlone \/ TakeActive(a)
  BY <1>3 DEF Teardown, SendClose, ClearClaim, pumpVars, PumpsLeftAlone
<1>4. ASSUME NEW w \in Watchers, Watcher(w)
      PROVE  PumpsLeftAlone
  BY <1>4 DEF Watcher, NameVanished, AbortLands, pumpVars, PumpsLeftAlone
<1>5. ASSUME NEW p \in Pumps, SensorReports(p)
      PROVE  PumpsLeftAlone
  BY <1>5 DEF SensorReports, PumpsLeftAlone
<1>6. ASSUME NEW c \in Clients, Vanish(c)
      PROVE  PumpsLeftAlone
  BY <1>6 DEF Vanish, pumpVars, PumpsLeftAlone
<1>7. CASE Logind \/ (ActorNext /\ UNCHANGED deviceVars)
  BY <1>7 DEF Logind, deviceVars, PumpsLeftAlone
<1> QED
  BY <1>1, <1>2, <1>3, <1>4, <1>5, <1>6, <1>7 DEF Next

(* begin_op replaces a pump in the slot only when it has finished, and     *)
(* whoever empties the slot tells a pump that has not.                     *)
LEMMA NoOrphanStep ==
  ASSUME Typed, NoOrphanPump, [Next]_vars
  PROVE  NoOrphanPump'
<1>1. CASE PumpsLeftAlone
  BY <1>1 DEF PumpsLeftAlone, NoOrphanPump, Finished
<1>2. ASSUME NEW t \in Tasks, BeginOp(t)
      PROVE  NoOrphanPump'
  <2>1. PICK p \in Pumps : /\ active' = p
                           /\ pst' = [pst EXCEPT ![p] = "send"]
                           /\ stop' = stop \ {p}
    BY <1>2 DEF BeginOp
  <2>2. \A q \in Pumps : Finished(q) \/ q \in stop
    <3>1. \A q \in Pumps : q # None
      BY DeviceAssumption
    <3>2. SlotFree
      BY <1>2 DEF BeginOp
    <3> QED
      BY <3>1, <3>2 DEF SlotFree, NoOrphanPump
  <2> QED
    BY <2>1, <2>2 DEF NoOrphanPump, Finished, Typed, TypeOK
<1>3. ASSUME NEW t \in Tasks, StopActive(t)
      PROVE  NoOrphanPump'
  BY <1>3 DEF StopActive, NoOrphanPump, Finished
<1>4. ASSUME NEW a \in Agents, TakeActive(a)
      PROVE  NoOrphanPump'
  BY <1>4 DEF TakeActive, LiveActive, NoOrphanPump, Finished
<1>5. ASSUME NEW p \in Pumps, Pump(p)
      PROVE  NoOrphanPump'
  <2>1. \A q \in Pumps : ~Finished(q)' => ~Finished(q)
    BY <1>5 DEF Pump, PumpSend, PumpReport, PumpStopped, PumpReply, Published, PumpEnd,
                Publish, Publishing, Finished, Typed, TypeOK
  <2>2. /\ active' = active
        /\ stop' = stop \/ (stop' = stop \ {p} /\ Finished(p)')
    BY <1>5 DEF Pump, PumpSend, PumpReport, PumpStopped, PumpReply, Published, PumpEnd,
                Finished, Typed, TypeOK
  <2> QED
    BY <2>1, <2>2 DEF NoOrphanPump
<1>6. CASE UNCHANGED vars
  BY <1>6 DEF vars, deviceVars, NoOrphanPump, Finished
<1> QED
  BY <1>1, <1>2, <1>3, <1>4, <1>5, <1>6, OthersLeavePumpsAlone

-----------------------------------------------------------------------------
(* The finger status.                                                      *)

(* Only a pump that goes on reading its reports raises the status, and     *)
(* before it ends it lowers it, whoever raised it.                         *)
LEMMA FingerOwnedStep ==
  ASSUME Typed, FingerOwned, [Next]_vars
  PROVE  FingerOwned'
<1>1. CASE PumpsLeftAlone
  BY <1>1 DEF PumpsLeftAlone, FingerOwned
<1>2. ASSUME NEW t \in Tasks, BeginOp(t)
      PROVE  FingerOwned'
  BY <1>2 DEF BeginOp, FreePump, Finished, FingerOwned, Typed, TypeOK
<1>3. ASSUME NEW t \in Tasks, StopActive(t)
      PROVE  FingerOwned'
  BY <1>3 DEF StopActive, FingerOwned
<1>4. ASSUME NEW a \in Agents, TakeActive(a)
      PROVE  FingerOwned'
  BY <1>4 DEF TakeActive, FingerOwned
<1>5. ASSUME NEW p \in Pumps, Pump(p)
      PROVE  FingerOwned'
  <2>1. CASE PumpReport(p)
    <3>1. note[p] \in {"on", "off"} /\ Publish(p, note[p], "run")
      BY <2>1 DEF PumpReport, Typed, TypeOK
    <3> QED
      BY <3>1, PublishTyped DEF FingerOwned
  <2>2. CASE PumpStopped(p) \/ PumpReply(p)
    <3>1. finger' = "off"
      BY <2>2 DEF PumpStopped, PumpReply, Publish
    <3> QED
      BY <3>1 DEF FingerOwned
  <2>3. CASE PumpSend(p) \/ PumpEnd(p)
    BY <2>3 DEF PumpSend, PumpEnd, FingerOwned, Typed, TypeOK
  <2>4. CASE Published(p)
    BY <2>4 DEF Published, Publishing, FingerOwned, Typed, TypeOK
  <2> QED
    BY <1>5, <2>1, <2>2, <2>3, <2>4 DEF Pump
<1>6. CASE UNCHANGED vars
  BY <1>6 DEF vars, deviceVars, FingerOwned
<1> QED
  BY <1>1, <1>2, <1>3, <1>4, <1>5, <1>6, OthersLeavePumpsAlone

-----------------------------------------------------------------------------
(* The commands of pumps.                                                  *)

\* A command that is still in the actor's hands was there before, is the same
\* command, and stays cancelled if it was.
StillSame(p) ==
  stage'[p] \in {"queued", "running"} =>
    /\ stage[p] \in {"queued", "running"}
    /\ kind'[p] = kind[p]
    /\ p \in cancelled => p \in cancelled'

LEMMA EndCallsStillSame ==
  ASSUME Typed, NEW p \in Callers, NEW S, EndCalls(S), cancelled \subseteq cancelled'
  PROVE  StillSame(p)
  BY DEF EndCalls, StillSame, Typed, TypeOK, ActorTypeOK

LEMMA SubmitStillSame ==
  ASSUME Typed, NEW p \in Callers, NEW c \in Callers \ {p}, NEW k, Submit(c, k),
         UNCHANGED cancelled
  PROVE  StillSame(p)
  BY DEF Submit, StillSame, Typed, TypeOK, ActorTypeOK

LEMMA AnswerStillSame ==
  ASSUME Typed, NEW p \in Callers, cur \in Callers, NEW r, Answer(cur, r)
  PROVE  StillSame(p)
  BY DEF Answer, StillSame, Typed, TypeOK, ActorTypeOK

LEMMA ActorStillSame ==
  ASSUME Typed, NEW p \in Callers, ActorNext
  PROVE  StillSame(p)
<1>1. CASE TakePrio \/ FinishPrio
  BY <1>1 DEF TakePrio, FinishPrio, StillSame
<1>2. CASE TakeCmd
  <2>1. \A i \in 1..Len(rx) : stage[rx[i]] = "queued"
    BY DEF Typed, ActorInv, ExactlyOnce, Holds
  <2>2. Head(rx) \in Callers /\ stage[Head(rx)] = "queued"
    BY <1>2, <2>1 DEF TakeCmd, Typed, TypeOK, ActorTypeOK
  <2> QED
    BY <1>2, <2>2 DEF TakeCmd, StillSame, Typed, TypeOK, ActorTypeOK
<1>3. CASE \/ RefuseCmd \/ FinishStream \/ CancelStream \/ Preempt
           \/ FinishOpen \/ FinishClose \/ FinishUnary
  <2>1. cur \in Callers /\ \E r \in Outcomes : Answer(cur, r)
    BY <1>3 DEF RefuseCmd, FinishStream, CancelStream, Preempt, FinishOpen,
                FinishClose, FinishUnary, Serves, Outcomes
  <2> QED
    BY <2>1, AnswerStillSame
<1> QED
  BY <1>1, <1>2, <1>3 DEF ActorNext, ActorStep

(* Only the pump itself puts a command of its own in the actor's hands.    *)
LEMMA StepStillSame ==
  ASSUME Typed, Next, NEW p \in Pumps
  PROVE  StillSame(p) \/ PumpSend(p)
<1>1. p \in Callers /\ p \notin Agents /\ Agents \subseteq Callers
  BY DeviceAssumption DEF Agents
<1>2. ASSUME UNCHANGED <<stage, kind, cancelled>>
      PROVE  StillSame(p)
  BY <1>2 DEF StillSame
<1>3. ASSUME NEW w, NEW a, AbortAndReturn(w, a)
      PROVE  StillSame(p)
  BY <1>1, <1>3, EndCallsStillSame DEF AbortAndReturn
<1>4. ASSUME NEW t \in Tasks, NEW c \in Clients,
             CallClaim(t, c) \/ CallDeleteUnclaimed(t, c) \/ CallClaimed(t, c)
      PROVE  StillSame(p)
  BY <1>2, <1>4 DEF CallClaim, CallDeleteUnclaimed, CallClaimed, Dispatch, actorVars
<1>5. ASSUME NEW t \in Tasks, Handler(t)
      PROVE  StillSame(p)
  <2>1. CASE SendOpen(t)
    BY <1>1, <2>1, SubmitStillSame DEF SendOpen, Agents
  <2>2. CASE RefuseClaim(t) \/ ClaimOpened(t) \/ ClaimFailed(t)
    BY <1>3, <2>2 DEF RefuseClaim, ClaimOpened, ClaimFailed
  <2>3. CASE \/ AuthorizeClaim(t) \/ SpawnWatcher(t) \/ StoreClaim(t)
             \/ RefuseStart(t) \/ FindPrint(t) \/ BeginOp(t) \/ StopActive(t) \/ DeleteRecords(t)
    BY <1>2, <2>3 DEF AuthorizeClaim, SpawnWatcher, StoreClaim, RefuseStart, FindPrint, BeginOp,
                      StopActive, DeleteRecords, actorVars
  <2> QED
    BY <1>5, <2>1, <2>2, <2>3 DEF Handler
<1>6. ASSUME NEW a \in Agents, Teardown(a) \/ Watcher(a)
      PROVE  StillSame(p)
  <2>1. CASE SendClose(a)
    BY <1>1, <2>1, SubmitStillSame DEF SendClose
  <2>2. CASE ClearClaim(a) \/ AbortLands(a)
    BY <1>3, <2>2 DEF ClearClaim, AbortLands
  <2>3. CASE TakeActive(a) \/ NameVanished(a)
    BY <1>2, <2>3 DEF TakeActive, NameVanished, actorVars
  <2> QED
    BY <1>6, <2>1, <2>2, <2>3 DEF Teardown, Watcher
<1>7. ASSUME NEW q \in Pumps, Pump(q) \/ SensorReports(q), ~PumpSend(p)
      PROVE  StillSame(p)
  <2>1. q \in Callers
    BY DeviceAssumption
  <2>2. CASE PumpSend(q)
    BY <1>1, <1>7, <2>1, <2>2, SubmitStillSame DEF PumpSend
  <2>3. CASE PumpReply(q)
    BY <1>1, <2>3, EndCallsStillSame DEF PumpReply
  <2>4. CASE PumpEnd(q)
    BY <1>1, <2>4, EndCallsStillSame DEF PumpEnd, DropCancels
  <2>5. CASE PumpStopped(q)
    BY <2>5 DEF PumpStopped, DropCancels, StillSame
  <2>6. CASE PumpReport(q) \/ Published(q) \/ SensorReports(q)
    BY <1>2, <2>6 DEF PumpReport, Published, SensorReports, actorVars
  <2> QED
    BY <1>7, <2>2, <2>3, <2>4, <2>5, <2>6 DEF Pump
<1>8. ASSUME NEW c \in Clients, Vanish(c)
      PROVE  StillSame(p)
  BY <1>2, <1>8 DEF Vanish, actorVars
<1>9. CASE Logind
  BY <1>2, <1>9 DEF Logind, CollectPrio, SubmitPrio
<1>10. CASE ActorNext /\ UNCHANGED deviceVars
  BY <1>1, <1>10, ActorStillSame
<1>11. Watchers \subseteq Agents
  BY DEF Agents
<1> QED
  BY <1>4, <1>5, <1>6, <1>7, <1>8, <1>9, <1>10, <1>11 DEF Next

(* A pump that returns takes its cancel sender with it, so no command      *)
(* outlives the pump uncancelled.                                          *)
LEMMA PumpStreamsStep ==
  ASSUME Typed, PumpStreams, [Next]_vars
  PROVE  PumpStreams'
<1>1. ASSUME NEW p \in Pumps, Next, PumpSend(p)
      PROVE  (stage[p] \in {"queued", "running"} =>
                kind[p] \in Streams /\ (p \in cancelled \/ ~Finished(p)))'
  <2>1. op[p] \in Streams /\ kind' = [kind EXCEPT ![p] = op[p]]
    BY <1>1 DEF PumpSend, Submit, Typed, TypeOK, OpKinds, Streams
  <2>2. p \in Callers
    BY DeviceAssumption
  <2>3. kind'[p] \in Streams
    BY <2>1, <2>2 DEF Typed, TypeOK, ActorTypeOK
  <2>4. ~Finished(p)'
    BY <1>1 DEF PumpSend, Finished, Typed, TypeOK
  <2> QED
    BY <2>3, <2>4
<1>2. ASSUME NEW p \in Pumps, Next, StillSame(p),
             stage'[p] \in {"queued", "running"}
      PROVE  kind'[p] \in Streams /\ (p \in cancelled' \/ ~Finished(p)')
  <2>1. /\ stage[p] \in {"queued", "running"}
        /\ kind'[p] = kind[p] /\ kind[p] \in Streams
        /\ p \in cancelled => p \in cancelled'
        /\ p \in cancelled \/ ~Finished(p)
    BY <1>2 DEF StillSame, PumpStreams
  <2>2. CASE PumpEnd(p)
    BY <2>1, <2>2 DEF PumpEnd, DropCancels
  <2>3. CASE ~PumpEnd(p)
    <3>1. ASSUME PumpsLeftAlone
          PROVE  ~Finished(p) => ~Finished(p)'
      BY <3>1 DEF PumpsLeftAlone, Finished
    <3>2. ASSUME NEW t \in Tasks, BeginOp(t)
          PROVE  ~Finished(p) => ~Finished(p)'
      <4>1. PICK q \in Pumps : pst' = [pst EXCEPT ![q] = "send"]
        BY <3>2 DEF BeginOp
      <4> QED
        BY <4>1 DEF Finished, Typed, TypeOK
    <3>3. ASSUME NEW t \in Tasks, StopActive(t)
          PROVE  ~Finished(p) => ~Finished(p)'
      BY <3>3 DEF StopActive, Finished
    <3>4. ASSUME NEW a \in Agents, TakeActive(a)
          PROVE  ~Finished(p) => ~Finished(p)'
      BY <3>4 DEF TakeActive, Finished
    <3>5. ASSUME NEW q \in Pumps, Pump(q)
          PROVE  ~Finished(p) => ~Finished(p)'
      <4>1. pst \in [Pumps -> PumpPlaces]
        BY DEF Typed, TypeOK
      <4>2. CASE PumpEnd(q)
        <5>1. q # p
          BY <2>3, <4>2
        <5> QED
          BY <4>1, <4>2, <5>1 DEF PumpEnd, Finished
      <4>3. CASE Published(q)
        BY <4>1, <4>3 DEF Published, Publishing, Finished
      <4>4. CASE PumpSend(q)
        BY <4>1, <4>4 DEF PumpSend, Finished
      <4>5. CASE PumpReport(q)
        BY <4>1, <4>5 DEF PumpReport, Publish, Finished
      <4>6. CASE PumpStopped(q)
        BY <4>1, <4>6 DEF PumpStopped, Publish, Finished
      <4>7. CASE PumpReply(q)
        BY <4>1, <4>7 DEF PumpReply, Publish, Finished
      <4> QED
        BY <3>5, <4>2, <4>3, <4>4, <4>5, <4>6, <4>7 DEF Pump
    <3>6. ~Finished(p) => ~Finished(p)'
      BY <1>2, <3>1, <3>2, <3>3, <3>4, <3>5, OthersLeavePumpsAlone
    <3> QED
      BY <2>1, <3>6
  <2> QED
    BY <2>1, <2>2, <2>3
<1>3. CASE Next
  BY <1>1, <1>2, <1>3, StepStillSame DEF PumpStreams
<1>4. CASE UNCHANGED vars
  BY <1>4 DEF vars, actorVars, deviceVars, PumpStreams, Finished
<1> QED
  BY <1>3, <1>4

-----------------------------------------------------------------------------
(* The invariant and what follows from it.                                 *)

LEMMA DeviceInvariance == Spec => []DeviceInv
<1>1. Init => DeviceInv
  <2>1. ASSUME Init
        PROVE  NoOrphanPump /\ PumpStreams /\ FingerOwned
    BY <2>1, DeviceAssumption
    DEF Init, ActorInit, NoOrphanPump, PumpStreams, FingerOwned, Finished
  <2> QED
    BY <2>1, InitTyped DEF DeviceInv
<1>2. DeviceInv /\ [Next]_vars => DeviceInv'
  BY StepTyped, NoOrphanStep, PumpStreamsStep, FingerOwnedStep DEF DeviceInv
<1> QED
  BY <1>1, <1>2, PTL DEF Spec

(* device.rs uses its handle as the actor expects: the object, its pumps   *)
(* and its watchers together are one of the actor's environments.          *)
THEOREM DeviceUsesActor == Spec => ActorSpec
<1>1. Init => ActorInit
  BY DEF Init
<1>2. DeviceInv /\ [Next]_vars => [ActorAndEnvironment]_actorVars
  BY StepAllowed DEF DeviceInv
<1> QED
  BY <1>1, <1>2, DeviceInvariance, PTL DEF Spec, ActorSpec

(* So no Open, Close, verify, enroll, suspend or resume is lost or served  *)
(* twice, whatever handlers, watchers and pumps are aborted meanwhile.     *)
THEOREM DeviceServesExactlyOnce == Spec => []ExactlyOnce
  BY DeviceUsesActor, ActorServesExactlyOnce, PTL

(* The state of one reader's object stays well-typed: in particular a      *)
(* stored session has a client, a user and a watcher.                      *)
THEOREM DeviceTyped == Spec => []TypeOK
<1>1. DeviceInv => TypeOK
  BY DEF DeviceInv, Typed
<1> QED
  BY <1>1, DeviceInvariance, PTL

(* However many starts race, a pump that was not told to stop is the one   *)
(* in the slot, where VerifyStop, EnrollStop, Release and the watcher find *)
(* it.                                                                     *)
THEOREM DeviceNoOrphanPump == Spec => []NoOrphanPump
<1>1. DeviceInv => NoOrphanPump
  BY DEF DeviceInv
<1> QED
  BY <1>1, DeviceInvariance, PTL

(* No operation is left on the sensor, or queued for it, that nobody can   *)
(* stop.                                                                   *)
THEOREM DeviceEveryStreamStoppable == Spec => []EveryStreamStoppable
<1>1. DeviceInv => EveryStreamStoppable
  BY DEF DeviceInv, NoOrphanPump, PumpStreams, EveryStreamStoppable
<1> QED
  BY <1>1, DeviceInvariance, PTL

(* finger-present and finger-needed are false once every pump has ended,   *)
(* in whatever order overlapping pumps published.                          *)
THEOREM DeviceFingerQuiet == Spec => []FingerQuietBetweenOps
<1>1. DeviceInv => FingerQuietBetweenOps
  BY DEF DeviceInv, Typed, TypeOK, FingerOwned, FingerQuietBetweenOps, Finished
<1> QED
  BY <1>1, DeviceInvariance, PTL

-------------------------------------------------------------------------------
(***************************************************************************)
(* Who listens for a session's client, whatever the clients do: they may   *)
(* have many calls in flight and leave in the middle of any of them.       *)
(*                                                                         *)
(* A Claim spawns its watcher before it asks for the slot, so at any time  *)
(* several Claims can hold a watcher that listens, of which one gets the   *)
(* session and the others drop theirs (Listening).                         *)
(***************************************************************************)

\* A Claim that has its watcher but not yet the session.
Storing(t) == pc[t] = "cl_store"

\* Its watcher is not the session's and listens for its client, while that is there to leave.
Equipped(t) ==
  /\ loc[t].watcher # SessionWatcher
  /\ loc[t].who \in present =>
       pc[loc[t].watcher] = "watch" /\ loc[loc[t].watcher].who = loc[t].who

\* The session's watcher and those of Claims about to be stored listen, each for its
\* own client, and no two are the same.
Listening ==
  /\ SessionWatched
  /\ \A t \in Tasks : Storing(t) => Equipped(t)
  /\ \A s, t \in Tasks :
       Storing(s) /\ Storing(t) /\ loc[s].watcher = loc[t].watcher => s = t

\* The types, without the components' vocabulary.
LEMMA AgentTypes ==
  ASSUME Typed
  PROVE  /\ pc \in [Agents -> HandlerPlaces]
         /\ loc \in [Agents -> [who : Clients \cup {None}, user : Users \cup {None},
                                watcher : Watchers \cup {None}]]
         /\ claim \in [sender : Clients, user : Users, watcher : Watchers] \cup {None}
         /\ Tasks \subseteq Agents /\ Watchers \subseteq Agents
         /\ Tasks \cap Watchers = {}
         /\ None \notin Clients \cup Users \cup Agents \cup Pumps
         /\ claim # None => /\ claim.sender \in Clients /\ claim.user \in Users
                            /\ claim.watcher \in Watchers /\ claim.watcher = SessionWatcher
         /\ claim = None => SessionWatcher = None
  BY DeviceAssumption DEF Typed, TypeOK, Agents, SessionWatcher

(* A step of the agents in G that spawns no watcher and stores no session  *)
(* takes no listening watcher away, if those of G have nobody to listen to.*)
LEMMA ListeningKept ==
  ASSUME Typed, Listening, NEW G \in SUBSET Agents,
         \A b \in Agents \ G : pc'[b] = pc[b] /\ loc'[b] = loc[b],
         present' \subseteq present, claim' \in {claim, None},
         \A t \in Tasks : pc'[t] = "cl_store" =>
           /\ t \notin G /\ Storing(t)
           /\ loc[t].watcher \in G => loc[t].who \notin present,
         claim' # None /\ claim.watcher \in G => claim.sender \notin present
  PROVE  Listening'
<1>1. SessionWatched'
  <2> SUFFICES ASSUME claim' # None, claim.sender \in present
               PROVE  pc'[claim.watcher] = "watch" /\ loc'[claim.watcher].who = claim.sender
    BY DEF SessionWatched
  <2>1. claim # None /\ claim.watcher \in Agents \ G
    BY AgentTypes
  <2> QED
    BY <2>1 DEF Listening, SessionWatched
<1>2. ASSUME NEW t \in Tasks, Storing(t)'
      PROVE  /\ t \in Agents \ G /\ Storing(t) /\ loc'[t] = loc[t]
             /\ Equipped(t)'
  <2>1. t \in Agents \ G /\ Storing(t) /\ loc'[t] = loc[t]
    BY <1>2, AgentTypes DEF Storing
  <2>2. loc[t].watcher \in Watchers
    BY <2>1 DEF Typed, Locals, Storing
  <2>3. loc[t].watcher # SessionWatcher'
    BY <2>1, <2>2, AgentTypes DEF Listening, Equipped, SessionWatcher
  <2>4. ASSUME loc[t].who \in present
        PROVE  pc'[loc[t].watcher] = "watch" /\ loc'[loc[t].watcher].who = loc[t].who
    <3>1. loc[t].watcher \in Agents \ G
      BY <1>2, <2>2, <2>4, AgentTypes DEF Storing
    <3> QED
      BY <2>1, <2>4, <3>1 DEF Listening, Equipped
  <2> QED
    BY <2>1, <2>3, <2>4 DEF Equipped
<1>3. \A t \in Tasks : Storing(t)' => Equipped(t)'
  BY <1>2
<1>4. \A s, t \in Tasks :
        Storing(s)' /\ Storing(t)' /\ loc'[s].watcher = loc'[t].watcher => s = t
  BY <1>2 DEF Listening
<1> QED
  BY <1>1, <1>3, <1>4 DEF Listening

(* One agent's step: a handler that does not get a watcher by it, or a     *)
(* watcher whose client is gone or that was past listening.                *)
LEMMA ListeningBesides ==
  ASSUME Typed, Listening, NEW a \in Agents,
         a \in Watchers => pc[a] # "watch" \/ loc[a].who \notin present,
         pc'[a] # "cl_store", \A b \in Agents \ {a} : pc'[b] = pc[b] /\ loc'[b] = loc[b],
         UNCHANGED <<claim, present>>
  PROVE  Listening'
<1>1. \A t \in Tasks : pc'[t] = "cl_store" => t \notin {a} /\ Storing(t)
  BY AgentTypes DEF Storing
<1>2. \A t \in Tasks : pc'[t] = "cl_store" /\ loc[t].watcher \in {a} => loc[t].who \notin present
  BY <1>1, AgentTypes DEF Listening, Equipped, Typed, Locals, Storing
<1>3. claim # None /\ claim.watcher \in {a} => claim.sender \notin present
  BY AgentTypes DEF Listening, SessionWatched
<1> QED
  BY <1>1, <1>2, <1>3, ListeningKept

(* A session's end, or the abort of a watcher that nobody counts on.       *)
LEMMA ListeningDropped ==
  ASSUME Typed, Listening, NEW a \in Agents, NEW w \in Watchers \cup {None},
         AbortAndReturn(w, a), claim' \in {claim, None}, present' = present,
         claim' # None => w # SessionWatcher \/ w = None,
         a \in Watchers => pc[a] # "watch",
         \A t \in Tasks : Storing(t) /\ t # a => loc[t].watcher # w
  PROVE  Listening'
<1> DEFINE gone == {a} \cup IF w # None /\ pc[w] \in Watching THEN {w} ELSE {}
<1>1. gone \in SUBSET Agents /\ gone \subseteq {a, w}
  BY AgentTypes DEF Agents
<1>2. \A b \in Agents : /\ b \in gone => pc'[b] = "idle"
                        /\ b \notin gone => pc'[b] = pc[b] /\ loc'[b] = loc[b]
  BY DEF AbortAndReturn
<1>3. ASSUME NEW t \in Tasks, pc'[t] = "cl_store"
      PROVE  /\ t \notin gone /\ Storing(t)
             /\ loc[t].watcher \in gone => loc[t].who \notin present
  <2>1. t \notin gone /\ Storing(t)
    BY <1>2, <1>3, AgentTypes DEF Storing
  <2>2. loc[t].watcher # w /\ loc[t].watcher \in Watchers
    BY <2>1 DEF Typed, Locals, Storing
  <2>3. loc[t].watcher = a => loc[t].who \notin present
    BY <2>1, <2>2 DEF Listening, Equipped
  <2> QED
    BY <1>1, <2>1, <2>2, <2>3
<1>4. claim' # None /\ claim.watcher \in gone => claim.sender \notin present
  <2> SUFFICES ASSUME claim' # None, claim.watcher \in gone
               PROVE  claim.sender \notin present
    OBVIOUS
  <2>1. claim # None /\ claim.watcher \in Watchers /\ claim.watcher = SessionWatcher
    BY AgentTypes
  <2>2. claim.watcher = a
    BY <1>1, <2>1, AgentTypes
  <2> QED
    BY <2>1, <2>2 DEF Listening, SessionWatched
<1> HIDE DEF gone
<1> QED
  BY <1>1, <1>2, <1>3, <1>4, ListeningKept

\* A Claim gets a watcher that nobody else has, while its client may be there.
LEMMA ListeningSpawned ==
  ASSUME Typed, Listening, NEW t \in Tasks, SpawnWatcher(t)
  PROVE  Listening'
<1>1. CASE Return(t)
  <2>1. pc'[t] = "idle" /\ \A b \in Agents \ {t} : pc'[b] = pc[b] /\ loc'[b] = loc[b]
    BY <1>1, AgentTypes DEF Return
  <2> QED
    BY <1>1, <2>1, ListeningBesides, AgentTypes DEF SpawnWatcher
<1>2. ASSUME NEW w \in Watchers, FreeWatcher(w),
             pc' = [pc EXCEPT ![t] = "cl_store",
                              ![w] = IF loc[t].who \in present THEN "watch" ELSE "deaf"],
             loc' = [loc EXCEPT ![t].watcher = w,
                                ![w] = [NoLocals EXCEPT !.who = loc[t].who]]
      PROVE  Listening'
  <2>1. t # w /\ t \in Agents /\ w \in Agents /\ UNCHANGED <<claim, present>>
    BY AgentTypes DEF SpawnWatcher
  <2>2. /\ pc'[t] = "cl_store" /\ pc'[w] = IF loc[t].who \in present THEN "watch" ELSE "deaf"
        /\ loc'[t].who = loc[t].who /\ loc'[t].watcher = w /\ loc'[w].who = loc[t].who
        /\ \A b \in Agents \ {t, w} : pc'[b] = pc[b] /\ loc'[b] = loc[b]
    BY <1>2, <2>1, AgentTypes DEF NoLocals
  <2>3. w # SessionWatcher /\ \A s \in Tasks : loc[s].watcher # w
    BY <1>2 DEF FreeWatcher
  <2>4. SessionWatched'
    <3>1. claim # None => claim.watcher \in Agents \ {t, w}
      BY <2>3, AgentTypes
    <3> QED
      BY <2>1, <2>2, <3>1 DEF Listening, SessionWatched
  <2>5. ASSUME NEW s \in Tasks \ {t}, Storing(s)'
        PROVE  /\ Storing(s) /\ loc'[s] = loc[s] /\ loc[s].watcher # w
               /\ Equipped(s)'
    <3>1. s \in Agents \ {t, w} /\ Storing(s) /\ loc'[s] = loc[s]
      BY <2>1, <2>2, <2>5, AgentTypes DEF Storing
    <3>2. loc[s].watcher \in Agents \ {t, w}
      BY <2>3, <3>1, AgentTypes DEF Typed, Locals, Storing
    <3> QED
      BY <2>1, <2>2, <3>1, <3>2 DEF Listening, Equipped, SessionWatcher
  <2>6. Equipped(t)'
    BY <2>1, <2>2, <2>3 DEF Equipped, SessionWatcher
  <2>7. \A s \in Tasks : Storing(s)' => Equipped(s)'
    BY <2>5, <2>6
  <2>8. \A s, r \in Tasks :
          Storing(s)' /\ Storing(r)' /\ loc'[s].watcher = loc'[r].watcher => s = r
    BY <2>2, <2>5 DEF Listening
  <2> QED
    BY <2>4, <2>7, <2>8 DEF Listening
<1> QED
  BY <1>1, <1>2 DEF SpawnWatcher

\* The session takes the watcher of the Claim that stores it.
LEMMA ListeningStored ==
  ASSUME Typed, Listening, NEW t \in Tasks, StoreClaim(t)
  PROVE  Listening'
<1>1. /\ Storing(t) /\ claim' = NewSession(t) /\ pc'[t] = "cl_open" /\ loc' = loc
      /\ present' = present /\ \A b \in Agents \ {t} : pc'[b] = pc[b]
  BY AgentTypes DEF StoreClaim, Goto, Storing
<1>2. loc[t].watcher \in Watchers /\ loc[t].watcher # t
  BY <1>1, AgentTypes DEF Typed, Locals, Storing
<1>3. claim' # None /\ claim'.watcher = loc[t].watcher /\ claim'.sender = loc[t].who
  <2>1. claim' \in [sender : Clients, user : Users, watcher : Watchers]
    BY <1>1, <1>2, AgentTypes DEF NewSession, Typed, Locals, Storing
  <2> QED
    BY <1>1, <2>1, DeviceAssumption DEF NewSession
<1>4. SessionWatched'
  BY <1>1, <1>2, <1>3, AgentTypes DEF Listening, Equipped, SessionWatched, Agents
<1>5. SessionWatcher' = loc[t].watcher
  BY <1>3 DEF SessionWatcher
<1>6. ASSUME NEW s \in Tasks, Storing(s)'
      PROVE  /\ s # t /\ Storing(s) /\ loc[s].watcher # loc[t].watcher
             /\ Equipped(s)'
  <2>1. s # t /\ Storing(s)
    BY <1>1, <1>6, AgentTypes DEF Storing
  <2>2. loc[s].watcher \in Agents \ {t}
    BY <2>1, AgentTypes DEF Typed, Locals, Storing
  <2> QED
    BY <1>1, <1>5, <2>1, <2>2 DEF Listening, Equipped
<1> QED
  BY <1>1, <1>4, <1>5, <1>6 DEF Listening, Equipped

\* Every step leaves the watchers that listen where they are.
LEMMA ListeningStep ==
  ASSUME Typed, Listening, [Next]_vars
  PROVE  Listening'
<1>1. ASSUME NEW t \in Tasks, NEW c \in Clients,
             CallClaim(t, c) \/ CallDeleteUnclaimed(t, c) \/ CallClaimed(t, c)
      PROVE  Listening'
  <2>1. PICK at \in ClaimedMethods \cup {"cl_auth"}, u \in Users \cup {None} :
          Dispatch(t, c, at, u)
    BY <1>1, AgentTypes DEF CallClaim, CallDeleteUnclaimed, CallClaimed, ClaimedMethods
  <2>2. /\ pc'[t] # "cl_store" /\ UNCHANGED <<claim, present>>
        /\ \A b \in Agents \ {t} : pc'[b] = pc[b] /\ loc'[b] = loc[b]
    BY <2>1, AgentTypes DEF Dispatch, ClaimedMethods
  <2> QED
    BY <2>2, ListeningBesides, AgentTypes
<1>2. ASSUME NEW t \in Tasks, Handler(t)
      PROVE  Listening'
  <2>1. CASE AuthorizeClaim(t) \/ SendOpen(t) \/ RefuseStart(t) \/ FindPrint(t) \/ BeginOp(t) \/ StopActive(t)
             \/ DeleteRecords(t)
    <3>1. /\ pc'[t] # "cl_store" /\ UNCHANGED <<claim, present>>
          /\ \A b \in Agents \ {t} : pc'[b] = pc[b] /\ loc'[b] = loc[b]
      BY <2>1, AgentTypes DEF AuthorizeClaim, SendOpen, RefuseStart, FindPrint, BeginOp, StopActive,
                              DeleteRecords, Return, Goto
    <3> QED
      BY <3>1, ListeningBesides, AgentTypes
  <2>2. CASE RefuseClaim(t)
    <3>1. Storing(t) /\ loc[t].watcher \in Watchers
      BY <2>2 DEF RefuseClaim, Typed, Locals, Storing
    <3>2. loc[t].watcher # SessionWatcher /\ \A s \in Tasks : Storing(s) /\ s # t => loc[s].watcher # loc[t].watcher
      BY <3>1 DEF Listening, Equipped
    <3> QED
      BY <2>2, <3>1, <3>2, ListeningDropped, AgentTypes DEF RefuseClaim
  <2>3. CASE ClaimOpened(t)
    <3>1. \A s \in Tasks : Storing(s) => loc[s].watcher # None
      BY AgentTypes DEF Typed, Locals, Storing, Agents
    <3> QED
      BY <2>3, <3>1, ListeningDropped, AgentTypes DEF ClaimOpened
  <2>4. CASE ClaimFailed(t)
    <3>1. SessionWatcher \in Watchers \cup {None}
      BY AgentTypes
    <3> QED
      BY <2>4, <3>1, ListeningDropped, AgentTypes DEF ClaimFailed, Listening, Equipped
  <2> QED
    BY <1>2, <2>1, <2>2, <2>3, <2>4, ListeningSpawned, ListeningStored DEF Handler
<1>3. ASSUME NEW a \in Agents, Teardown(a)
      PROVE  Listening'
  <2>1. CASE TakeActive(a) \/ SendClose(a)
    <3>1. /\ pc[a] # "watch" /\ pc'[a] # "cl_store" /\ UNCHANGED <<claim, present>>
          /\ \A b \in Agents \ {a} : pc'[b] = pc[b] /\ loc'[b] = loc[b]
      BY <2>1, AgentTypes DEF TakeActive, SendClose, Goto
    <3> QED
      BY <3>1, ListeningBesides
  <2>2. CASE ClearClaim(a)
    <3>1. SessionWatcher \in Watchers \cup {None}
      BY AgentTypes
    <3> QED
      BY <2>2, <3>1, ListeningDropped DEF ClearClaim, Listening, Equipped
  <2> QED
    BY <1>3, <2>1, <2>2 DEF Teardown
<1>4. ASSUME NEW w \in Watchers, Watcher(w)
      PROVE  Listening'
  <2>1. CASE NameVanished(w)
    <3>1. /\ loc[w].who \notin present /\ pc'[w] # "cl_store" /\ UNCHANGED <<claim, present>>
          /\ \A b \in Agents \ {w} : pc'[b] = pc[b] /\ loc'[b] = loc[b]
      BY <2>1, AgentTypes DEF NameVanished, Goto
    <3> QED
      BY <3>1, ListeningBesides, AgentTypes
  <2>2. CASE AbortLands(w)
    <3>1. \A s \in Tasks : Storing(s) => loc[s].watcher # None
      BY AgentTypes DEF Typed, Locals, Storing, Agents
    <3> QED
      BY <2>2, <3>1, ListeningDropped, AgentTypes DEF AbortLands
  <2> QED
    BY <1>4, <2>1, <2>2 DEF Watcher
<1>5. ASSUME UNCHANGED <<claim, pc, loc>>, present' \subseteq present
      PROVE  Listening'
  BY <1>5 DEF Listening, SessionWatched, Storing, Equipped, SessionWatcher
<1>6. ASSUME NEW p \in Pumps, Pump(p) \/ SensorReports(p)
      PROVE  UNCHANGED <<claim, pc, loc, present>>
  BY <1>6 DEF Pump, PumpSend, PumpReport, PumpStopped, PumpReply, Published, PumpEnd,
              SensorReports
<1>7. CASE Logind \/ (ActorNext /\ UNCHANGED deviceVars) \/ UNCHANGED vars
  BY <1>5, <1>7 DEF Logind, vars, deviceVars
<1>8. ASSUME NEW c \in Clients, Vanish(c)
      PROVE  Listening'
  BY <1>5, <1>8 DEF Vanish
<1> QED
  BY <1>1, <1>2, <1>3, <1>4, <1>5, <1>6, <1>7, <1>8 DEF Next

(* While its client is on the bus a session has a watcher that listens for *)
(* it, whatever calls are pipelined, refused, aborted or torn down.        *)
THEOREM DeviceSessionWatched == Spec => []SessionWatched
<1>1. Init => Listening
  BY AgentTypes, InitTyped, DeviceAssumption
  DEF Init, Listening, SessionWatched, Storing, Agents
<1>2. DeviceInv /\ Listening /\ [Next]_vars => Listening'
  BY ListeningStep DEF DeviceInv
<1>3. Listening => SessionWatched
  BY DEF Listening
<1> QED
  BY <1>1, <1>2, <1>3, DeviceInvariance, PTL DEF Spec

-------------------------------------------------------------------------------
(***************************************************************************)
(* What holds of one reader's sessions when each client awaits its reply   *)
(* before it calls again or leaves: for any number of clients, handlers    *)
(* and watchers that interleave with each other, any pumps, suspends and   *)
(* resumes, and a command channel of any size.                             *)
(*                                                                         *)
(* The code keeps a session in one slot and lets three parties clear it: a *)
(* Claim that failed to open, a Release and a name watcher.  The invariant *)
(* says why no two of them ever meet.  Whoever is on its way to open or to *)
(* close the reader acts for the client that holds the session (Holding),  *)
(* a client has one call in flight (OneCall) and no call when it is gone   *)
(* (Places), and a watcher acts only for its own client and only once that *)
(* client is gone (Watched).                                               *)
(***************************************************************************)

\* A Claim that waits for its Open, a teardown, and a start on its way to an operation.
Opening == {"cl_open", "cl_wait"}
Ending == {"td_take", "td_send", "td_wait"}
Starting == {"vs_auth", "vs_begin", "es_auth"}

\* Clients that have one call at a time in flight and stay until it has returned.
Polite == Awaits /\ Stays

\* A client has one method call in flight.
OneCall ==
  \A s, t \in Tasks : pc[s] # "idle" /\ pc[t] # "idle" /\ loc[s].who = loc[t].who => s = t

\* Where handlers and watchers can be.
Places ==
  /\ \A t \in Tasks : pc[t] # "idle" => loc[t].who \in present
  /\ \A t \in Tasks : pc[t] \notin {"watch", "deaf"}
  /\ \A w \in Watchers : pc[w] \in {"idle", "watch"} \cup Ending

\* The session a handler works on stays its client's.
Holding ==
  /\ \A t \in Tasks : pc[t] \in Starting \cup Opening \cup Ending =>
       claim # None /\ claim.sender = loc[t].who
  /\ \A t \in Tasks : pc[t] \in Starting => claim.user = loc[t].user
  /\ \A t \in Tasks : pc[t] \in Opening => claim = NewSession(t)

\* A session has a watcher of its own client that will end it.
StoredWatched ==
  claim # None =>
    /\ loc[claim.watcher].who = claim.sender
    /\ pc[claim.watcher] \in {"watch", "td_take", "td_send", "td_wait"}

\* The session's watcher watches its client; a Claim about to store one has its own
\* watcher, nobody else has any, and a watcher ends a session only once its client is gone.
Watched ==
  /\ StoredWatched
  /\ \A t \in Tasks : Storing(t) =>
       /\ pc[loc[t].watcher] = "watch" /\ loc[loc[t].watcher].who = loc[t].who
       /\ loc[t].watcher # SessionWatcher
  /\ \A w \in Watchers : pc[w] # "idle" =>
       w = SessionWatcher \/ \E t \in Tasks : Storing(t) /\ loc[t].watcher = w
  /\ \A w \in Watchers : pc[w] \in Ending => loc[w].who \notin present
  /\ aborted = {}

\* Who may touch the session.
Roles == OneCall /\ Places /\ Holding /\ Watched

\* A pump that nobody told to stop works for the user of the session.
LiveOpHasSession ==
  \A p \in Pumps : ~Finished(p) /\ p \notin stop =>
    claim # None /\ claim.user = puser[p]

\* Between a Claim's session and its open reader, and between a Release's stop
\* and its closed one, no pump works.
Quiet ==
  \A a \in Agents : pc[a] \in Opening \cup {"td_send", "td_wait"} =>
    \A p \in Pumps : ~Finished(p) => p \in stop

\* Who has a command with the actor, and which.
Commands ==
  /\ \A a \in Agents :
       /\ pc[a] = "cl_wait" => stage[a] # "free" /\ kind[a] = "Open"
       /\ pc[a] = "td_wait" => stage[a] # "free" /\ kind[a] = "Close"
       /\ pc[a] \notin {"cl_wait", "td_wait"} => stage[a] = "free"
  /\ deaf \cap Agents = {}

\* Whether the reader is open, by what is being done about the session.
Reader ==
  /\ claim = None => dev # "open"
  /\ claim # None /\ (\A a \in Agents : pc[a] \notin Opening \cup {"td_wait"}) => dev = "open"
  /\ \A a \in Agents :
       /\ pc[a] = "cl_open" => dev # "open"
       /\ pc[a] = "cl_wait" =>
            IF stage[a] = "answered" THEN res[a] = "ok" <=> dev = "open" ELSE dev # "open"
       /\ pc[a] = "td_wait" /\ stage[a] = "answered" => dev # "open"

\* The inductive invariant.
SessionInv ==
  /\ DeviceInv
  /\ Roles
  /\ Quiet /\ LiveOpHasSession
  /\ Commands /\ Reader

-----------------------------------------------------------------------------
(* What the invariant says of handlers and watchers.                       *)

(* A watcher that ends a session is the one of that session, and its       *)
(* client is gone.                                                         *)
LEMMA EndingWatcher ==
  ASSUME Typed, Roles, NEW w \in Watchers, pc[w] \in Ending
  PROVE  claim # None /\ claim.watcher = w /\ claim.sender = loc[w].who /\ loc[w].who \notin present
<1>1. ~\E t \in Tasks : Storing(t) /\ loc[t].watcher = w
  BY DEF Roles, Watched, Ending
<1>2. w = SessionWatcher /\ w # None
  BY <1>1, AgentTypes DEF Roles, Watched, Ending
<1> QED
  BY <1>2, AgentTypes DEF Roles, Watched, StoredWatched, SessionWatcher

(* One party at a time opens or closes the reader, for the client that     *)
(* holds the session.                                                      *)
LEMMA OneMover ==
  ASSUME Typed, Roles, NEW a \in Agents, NEW b \in Agents,
         pc[a] \in Opening \cup Ending, pc[b] \in Opening \cup Ending
  PROVE  a = b /\ claim # None /\ claim.sender = loc[a].who
<1>1. \A t \in Tasks : pc[t] \in Opening \cup Ending =>
        claim # None /\ claim.sender = loc[t].who /\ loc[t].who \in present
  BY AgentTypes, DeviceAssumption DEF Roles, Holding, Places, Opening, Ending, NewSession
<1>2. \A w \in Watchers : pc[w] \notin Opening
  BY DEF Roles, Places, Opening, Ending
<1>3. CASE a \in Tasks /\ b \in Tasks
  BY <1>1, <1>3 DEF Roles, OneCall, Opening, Ending
<1>4. CASE a \in Watchers \/ b \in Watchers
  BY <1>1, <1>2, <1>4, EndingWatcher DEF Agents
<1> QED
  BY <1>3, <1>4 DEF Agents

-----------------------------------------------------------------------------
(* The roles of handlers and watchers, step by step.                       *)

(* A step of handlers that hold no watcher of their own, before or after,  *)
(* leaves the watchers as they are.                                        *)
LEMMA WatchedElsewhere ==
  ASSUME Typed, Roles, NEW t \in Tasks, ~Storing(t), pc'[t] # "cl_store",
         \A b \in Agents \ {t} : pc'[b] = pc[b] /\ loc'[b] = loc[b],
         UNCHANGED <<claim, present, aborted>>
  PROVE  Watched'
<1>1. \A w \in Watchers : w \in Agents \ {t} /\ pc'[w] = pc[w] /\ loc'[w] = loc[w]
  BY AgentTypes
<1>2. \A s \in Tasks : Storing(s)' <=> Storing(s)
  BY AgentTypes DEF Storing
<1>3. \A s \in Tasks : Storing(s) => loc[s].watcher \in Watchers /\ loc'[s] = loc[s]
  BY AgentTypes DEF Typed, Locals, Storing
<1>4. StoredWatched'
  BY <1>1, AgentTypes DEF Roles, Watched, StoredWatched
<1>5. \A s \in Tasks : Storing(s)' =>
        /\ pc'[loc'[s].watcher] = "watch" /\ loc'[loc'[s].watcher].who = loc'[s].who
        /\ loc'[s].watcher # SessionWatcher'
  BY <1>1, <1>2, <1>3 DEF Roles, Watched, SessionWatcher
<1>6. \A w \in Watchers : pc'[w] # "idle" =>
        w = SessionWatcher' \/ \E s \in Tasks : Storing(s)' /\ loc'[s].watcher = w
  BY <1>1, <1>2, <1>3 DEF Roles, Watched, SessionWatcher
<1>7. \A w \in Watchers : pc'[w] \in Ending => loc'[w].who \notin present'
  BY <1>1 DEF Roles, Watched
<1> QED
  BY <1>4, <1>5, <1>6, <1>7 DEF Roles, Watched

(* A handler that does not hold a watcher of its own returns.              *)
LEMMA ReturnKeepsRoles ==
  ASSUME Typed, Roles, NEW t \in Tasks, ~Storing(t), Return(t), UNCHANGED <<claim, present, aborted>>
  PROVE  Roles'
<1>1. /\ pc'[t] = "idle" /\ loc'[t] = NoLocals
      /\ \A b \in Agents \ {t} : pc'[b] = pc[b] /\ loc'[b] = loc[b]
  BY AgentTypes DEF Return
<1>2. OneCall' /\ Places'
  BY <1>1, AgentTypes DEF Roles, OneCall, Places
<1>3. Holding'
  BY <1>1, AgentTypes DEF Roles, Holding, Starting, Opening, Ending, NewSession
<1>4. Watched'
  BY <1>1, WatchedElsewhere
<1> QED
  BY <1>2, <1>3, <1>4 DEF Roles

(* Somebody goes on with opening or with closing the reader.               *)
LEMMA GotoKeepsRoles ==
  ASSUME Typed, Roles, NEW a \in Agents, NEW at \in Starting \cup Opening \cup Ending, Goto(a, at),
         \/ pc[a] \in Starting /\ at \in Starting
         \/ pc[a] \in Opening /\ at \in Opening
         \/ pc[a] \in Ending /\ at \in Ending,
         UNCHANGED <<claim, present, aborted>>
  PROVE  Roles'
<1>1. /\ pc'[a] = at /\ loc' = loc
      /\ \A b \in Agents \ {a} : pc'[b] = pc[b]
  BY AgentTypes DEF Goto
<1>2. OneCall' /\ Places'
  BY <1>1, AgentTypes DEF Roles, OneCall, Places, Starting, Opening, Ending
<1>3. Holding'
  BY <1>1, AgentTypes DEF Roles, Holding, Starting, Opening, Ending, NewSession
<1>4. Watched'
  <2>1. a \in Watchers => pc[a] \in Ending /\ at \in Ending
    BY DEF Roles, Places, Starting, Opening, Ending
  <2>2. StoredWatched'
    BY <1>1, <2>1, AgentTypes DEF Roles, Watched, StoredWatched, Ending, Opening, Starting, Agents
  <2>3. \A t \in Tasks : Storing(t)' <=> Storing(t)
    BY <1>1, AgentTypes DEF Storing, Starting, Opening, Ending
  <2>4. \A t \in Tasks : Storing(t)' =>
          pc'[loc'[t].watcher] = "watch" /\ loc'[loc'[t].watcher].who = loc'[t].who
    <3> SUFFICES ASSUME NEW t \in Tasks, Storing(t)
                 PROVE  pc'[loc'[t].watcher] = "watch" /\ loc'[loc'[t].watcher].who = loc'[t].who
      BY <2>3
    <3>1. loc[t].watcher \in Watchers /\ pc[loc[t].watcher] = "watch"
      BY DEF Typed, Locals, Storing, Roles, Watched
    <3> QED
      BY <1>1, <3>1, AgentTypes DEF Roles, Watched, Ending, Opening, Starting
  <2>5. \A w \in Watchers : pc'[w] # "idle" => pc[w] # "idle"
    BY <1>1, AgentTypes DEF Ending, Opening, Starting
  <2>6. \A w \in Watchers : pc'[w] \in Ending => pc[w] \in Ending
    BY <1>1, <2>1, AgentTypes
  <2> QED
    BY <1>1, <2>2, <2>3, <2>4, <2>5, <2>6 DEF Roles, Watched, SessionWatcher
<1> QED
  BY <1>2, <1>3, <1>4 DEF Roles

(* A call arrives, of a client that has no other in flight.                *)
LEMMA DispatchKeepsRoles ==
  ASSUME Typed, Roles, Polite, NEW t \in Tasks, NEW c \in Clients,
         CallClaim(t, c) \/ CallDeleteUnclaimed(t, c) \/ CallClaimed(t, c)
  PROVE  Roles'
<1>1. PICK at \in ClaimedMethods \cup {"cl_auth"}, u \in Users \cup {None} :
        /\ Dispatch(t, c, at, u)
        /\ at \notin {"cl_auth", "del_auth"} => claim # None /\ claim.sender = c /\ claim.user = u
  <2>1. CASE CallClaim(t, c)
    BY <2>1 DEF CallClaim
  <2>2. CASE CallDeleteUnclaimed(t, c)
    BY <2>2 DEF CallDeleteUnclaimed, ClaimedMethods
  <2>3. CASE CallClaimed(t, c)
    BY <2>3, AgentTypes DEF CallClaimed
  <2> QED
    BY <2>1, <2>2, <2>3
<1>2. at \notin {"idle", "watch", "deaf", "cl_store", "cl_open", "cl_wait"}
  BY DEF ClaimedMethods
<1>3. /\ pc'[t] = at /\ loc'[t].who = c /\ loc'[t].user = u
      /\ \A b \in Agents \ {t} : pc'[b] = pc[b] /\ loc'[b] = loc[b]
      /\ pc[t] = "idle" /\ c \in present /\ ~Busy(c)
      /\ UNCHANGED <<claim, present, aborted>>
  BY <1>1, AgentTypes DEF Dispatch, NoLocals, Polite
<1>4. OneCall' /\ Places'
  BY <1>2, <1>3, AgentTypes DEF Roles, OneCall, Places, Busy
<1>5. Holding'
  BY <1>1, <1>2, <1>3, AgentTypes
  DEF Roles, Holding, Starting, Opening, Ending, NewSession, ClaimedMethods
<1>6. Watched'
  BY <1>2, <1>3, WatchedElsewhere DEF Storing
<1> QED
  BY <1>4, <1>5, <1>6 DEF Roles

\* A Claim is authorized, or not.
LEMMA AuthorizeKeepsRoles ==
  ASSUME Typed, Roles, NEW t \in Tasks, AuthorizeClaim(t)
  PROVE  Roles'
<1>1. CASE Return(t)
  BY <1>1, ReturnKeepsRoles DEF AuthorizeClaim, Storing
<1>2. ASSUME NEW u \in Users, pc' = [pc EXCEPT ![t] = "cl_watch"], loc' = [loc EXCEPT ![t].user = u]
      PROVE  Roles'
  <2>1. /\ pc'[t] = "cl_watch" /\ pc[t] = "cl_auth" /\ loc'[t].who = loc[t].who
        /\ \A b \in Agents \ {t} : pc'[b] = pc[b] /\ loc'[b] = loc[b]
        /\ UNCHANGED <<claim, present, aborted>>
    BY <1>2, AgentTypes DEF AuthorizeClaim
  <2>2. OneCall' /\ Places'
    BY <2>1, AgentTypes DEF Roles, OneCall, Places
  <2>3. Holding'
    BY <2>1, AgentTypes DEF Roles, Holding, Starting, Opening, Ending, NewSession
  <2>4. Watched'
    BY <2>1, WatchedElsewhere DEF Storing
  <2> QED
    BY <2>2, <2>3, <2>4 DEF Roles
<1> QED
  BY <1>1, <1>2 DEF AuthorizeClaim

(* The watcher of a call is a new one, and its client is there.            *)
LEMMA SpawnKeepsRoles ==
  ASSUME Typed, Roles, NEW t \in Tasks, SpawnWatcher(t)
  PROVE  Roles'
<1>1. CASE Return(t)
  BY <1>1, ReturnKeepsRoles DEF SpawnWatcher, Storing
<1>2. ASSUME NEW w \in Watchers, FreeWatcher(w),
             pc' = [pc EXCEPT ![t] = "cl_store",
                              ![w] = IF loc[t].who \in present THEN "watch" ELSE "deaf"],
             loc' = [loc EXCEPT ![t].watcher = w,
                                ![w] = [NoLocals EXCEPT !.who = loc[t].who]]
      PROVE  Roles'
  <2>1. loc[t].who \in present /\ pc[t] = "cl_watch"
    BY DEF SpawnWatcher, Roles, Places
  <2>2. t # w /\ t \in Agents /\ w \in Agents
    BY AgentTypes
  <2>3. /\ pc'[t] = "cl_store" /\ pc'[w] = "watch"
        /\ \A b \in Agents \ {t, w} : pc'[b] = pc[b]
    BY <1>2, <2>1, <2>2, AgentTypes
  <2>4. /\ loc'[t].who = loc[t].who /\ loc'[t].watcher = w /\ loc'[w].who = loc[t].who
        /\ \A b \in Agents \ {t, w} : loc'[b] = loc[b]
    BY <1>2, <2>2, AgentTypes DEF NoLocals
  <2>5. UNCHANGED <<claim, present, aborted>>
    BY DEF SpawnWatcher
  <2>6. OneCall' /\ Places'
    <3>1. OneCall'
      BY <2>1, <2>2, <2>3, <2>4, <2>5, AgentTypes DEF Roles, OneCall
    <3>2. Places'
      BY <2>1, <2>2, <2>3, <2>4, <2>5, AgentTypes DEF Roles, Places
    <3> QED
      BY <3>1, <3>2
  <2>7. Holding'
    BY <2>1, <2>3, <2>4, <2>5, AgentTypes
    DEF Roles, Holding, Starting, Opening, Ending, NewSession
  <2>8. Watched'
    <3>1. pc[w] = "idle" /\ w # SessionWatcher /\ \A s \in Tasks : loc[s].watcher # w
      BY <1>2 DEF FreeWatcher
    <3>2. StoredWatched'
      BY <2>3, <2>4, <2>5, <3>1, AgentTypes DEF Roles, Watched, StoredWatched, Storing
    <3>3. \A s \in Tasks : Storing(s)' =>
            /\ pc'[loc'[s].watcher] = "watch" /\ loc'[loc'[s].watcher].who = loc'[s].who
            /\ loc'[s].watcher # SessionWatcher'
      <4> SUFFICES ASSUME NEW s \in Tasks, Storing(s)', s # t
                   PROVE  /\ pc'[loc'[s].watcher] = "watch"
                          /\ loc'[loc'[s].watcher].who = loc'[s].who
                          /\ loc'[s].watcher # SessionWatcher'
        BY <2>3, <2>4, <2>5, <3>1 DEF SessionWatcher
      <4>1. s \in Agents \ {t, w} /\ Storing(s)
        BY <2>2, <2>3, AgentTypes DEF Storing
      <4>2. loc[s].watcher \in Watchers \ {w}
        BY <3>1, <4>1 DEF Typed, Locals, Storing
      <4> QED
        BY <2>3, <2>4, <2>5, <4>1, <4>2, AgentTypes DEF Roles, Watched, SessionWatcher
    <3>4. \A v \in Watchers : pc'[v] # "idle" =>
            v = SessionWatcher' \/ \E s \in Tasks : Storing(s)' /\ loc'[s].watcher = v
      <4> SUFFICES ASSUME NEW v \in Watchers, pc'[v] # "idle", v # w, v # SessionWatcher'
                   PROVE  \E s \in Tasks : Storing(s)' /\ loc'[s].watcher = v
        BY <2>3, <2>4 DEF Storing
      <4>1. PICK s \in Tasks : Storing(s) /\ loc[s].watcher = v
        BY <2>2, <2>3, <2>5, AgentTypes DEF Roles, Watched, SessionWatcher
      <4>2. s \in Agents \ {t, w}
        BY <2>1, <2>2, <4>1, AgentTypes DEF Storing
      <4> QED
        BY <2>3, <2>4, <4>1, <4>2 DEF Storing
    <3>5. \A v \in Watchers : pc'[v] \in Ending => loc'[v].who \notin present'
      BY <2>2, <2>3, <2>4, <2>5, AgentTypes DEF Roles, Watched, Ending
    <3> QED
      BY <2>5, <3>2, <3>3, <3>4, <3>5 DEF Roles, Watched
  <2> QED
    BY <2>6, <2>7, <2>8 DEF Roles
<1> QED
  BY <1>1, <1>2 DEF SpawnWatcher

(* A session is stored when there is none, so nobody else is about to open *)
(* or to close the reader.                                                 *)
LEMMA StoreKeepsRoles ==
  ASSUME Typed, Roles, NEW t \in Tasks, StoreClaim(t)
  PROVE  Roles'
<1>1. /\ claim = None /\ Storing(t)
      /\ claim' = NewSession(t) /\ loc' = loc /\ pc'[t] = "cl_open"
      /\ \A b \in Agents \ {t} : pc'[b] = pc[b]
      /\ UNCHANGED <<present, aborted>>
  BY AgentTypes DEF StoreClaim, Goto, Storing
<1>2. /\ loc[t].who \in Clients /\ loc[t].user \in Users /\ loc[t].watcher \in Watchers
      /\ claim' # None
      /\ claim'.sender = loc[t].who /\ claim'.user = loc[t].user /\ claim'.watcher = loc[t].watcher
      /\ SessionWatcher' = loc[t].watcher
  <2>1. loc[t].who \in Clients /\ loc[t].user \in Users /\ loc[t].watcher \in Watchers
    BY <1>1 DEF Typed, Locals, Storing
  <2>2. NewSession(t) # None
    BY <2>1, DeviceAssumption DEF NewSession
  <2> QED
    BY <1>1, <2>1, <2>2 DEF NewSession, SessionWatcher
<1>3. OneCall' /\ Places'
  BY <1>1, AgentTypes DEF Roles, OneCall, Places, Storing
<1>4. Holding'
  <2>1. \A s \in Tasks : pc[s] \notin Starting \cup Opening \cup Ending
    BY <1>1 DEF Roles, Holding
  <2> QED
    BY <1>1, <1>2, <2>1, AgentTypes DEF Holding, Starting, Opening, Ending, NewSession
<1>5. Watched'
  <2>1. StoredWatched'
    BY <1>1, <1>2, AgentTypes DEF Roles, Watched, StoredWatched
  <2>2. \A s \in Tasks : Storing(s)' =>
          /\ pc'[loc'[s].watcher] = "watch" /\ loc'[loc'[s].watcher].who = loc'[s].who
          /\ loc'[s].watcher # SessionWatcher'
    <3> SUFFICES ASSUME NEW s \in Tasks, Storing(s)'
                 PROVE  /\ pc'[loc'[s].watcher] = "watch"
                        /\ loc'[loc'[s].watcher].who = loc'[s].who
                        /\ loc'[s].watcher # SessionWatcher'
      OBVIOUS
    <3>1. s # t /\ Storing(s)
      BY <1>1, AgentTypes DEF Storing
    <3>2. loc[s].watcher \in Watchers
      BY <3>1 DEF Typed, Locals, Storing
    <3>3. loc[s].who # loc[t].who
      BY <1>1, <3>1 DEF Roles, OneCall, Storing
    <3> QED
      BY <1>1, <1>2, <3>1, <3>2, <3>3, AgentTypes DEF Roles, Watched
  <2>3. \A v \in Watchers : pc'[v] # "idle" =>
          v = SessionWatcher' \/ \E s \in Tasks : Storing(s)' /\ loc'[s].watcher = v
    <3> SUFFICES ASSUME NEW v \in Watchers, pc'[v] # "idle", v # SessionWatcher'
                 PROVE  \E s \in Tasks : Storing(s)' /\ loc'[s].watcher = v
      OBVIOUS
    <3>1. PICK s \in Tasks : Storing(s) /\ loc[s].watcher = v
      BY <1>1, AgentTypes DEF Roles, Watched
    <3>2. s # t
      BY <1>2, <3>1
    <3> QED
      BY <1>1, <3>1, <3>2, AgentTypes DEF Storing
  <2>4. \A v \in Watchers : pc'[v] \in Ending => loc'[v].who \notin present'
    BY <1>1, AgentTypes DEF Roles, Watched
  <2> QED
    BY <1>1, <2>1, <2>2, <2>3, <2>4 DEF Roles, Watched
<1> QED
  BY <1>3, <1>4, <1>5 DEF Roles

(* Dropping a session, or the watcher of a refused Claim, when the watcher *)
(* waits for its signal or drops it itself: it is gone at once.            *)
LEMMA AbortedAtOnce ==
  ASSUME Typed, Roles, NEW w \in Watchers \cup {None}, NEW a \in Agents, AbortAndReturn(w, a),
         w # None => (w = a /\ pc[a] \in Watching) \/ pc[w] = "watch"
  PROVE  LET gone == {a} \cup ({w} \ {None})
         IN  /\ \A b \in Agents \cap gone : pc'[b] = "idle" /\ loc'[b] = NoLocals
             /\ \A b \in Agents \ gone : pc'[b] = pc[b] /\ loc'[b] = loc[b]
             /\ aborted' = {}
             /\ EndCalls(gone)
             /\ UNCHANGED <<cancelled, prioVars>>
<1> DEFINE gone == {a} \cup ({w} \ {None})
<1>1. {a} \cup (IF w # None /\ pc[w] \in Watching THEN {w} ELSE {}) = gone
  BY DEF Watching
<1>2. aborted = {}
  BY DEF Roles, Watched
<1> QED
  BY <1>1, <1>2, AgentTypes DEF AbortAndReturn

(* Whoever ends a session finds its watcher waiting, or is its watcher; no *)
(* other handler works on it.                                              *)
LEMMA EndsAlone ==
  ASSUME Typed, Roles, NEW a \in Agents, pc[a] \in {"cl_wait", "td_wait"}
  PROVE  /\ claim # None /\ claim.sender = loc[a].who
         /\ SessionWatcher \in Watchers
         /\ SessionWatcher = a \/ pc[SessionWatcher] = "watch"
         /\ a \in Watchers => a = SessionWatcher
         /\ \A b \in Agents \ {a} : pc[b] \notin Opening \cup Ending
         /\ \A t \in Tasks : pc[t] \notin Starting
<1>1. pc[a] \in Opening \cup Ending
  BY DEF Opening, Ending
<1>2. claim # None /\ claim.sender = loc[a].who /\ \A b \in Agents \ {a} : pc[b] \notin Opening \cup Ending
  BY <1>1, OneMover
<1>3. SessionWatcher \in Watchers /\ claim.watcher = SessionWatcher
  BY <1>2, AgentTypes
<1>4. a \in Watchers => a = SessionWatcher
  BY <1>1, EndingWatcher, AgentTypes DEF Roles, Places, Opening, Ending, SessionWatcher
<1>5. SessionWatcher = a \/ pc[SessionWatcher] = "watch"
  BY <1>2, <1>3, AgentTypes DEF Roles, Watched, StoredWatched, Ending
<1>6. ASSUME NEW t \in Tasks, pc[t] \in Starting
      PROVE  FALSE
  <2>1. loc[t].who = loc[a].who /\ loc[t].who \in present /\ pc[t] # "idle"
    BY <1>2, <1>6 DEF Roles, Holding, Places, Starting
  <2>2. CASE a \in Tasks
    <3>1. a = t
      BY <2>1, <2>2, <1>1 DEF Roles, OneCall, Opening, Ending
    <3> QED
      BY <1>1, <1>6, <3>1 DEF Starting, Opening, Ending
  <2>3. CASE a \in Watchers
    BY <1>1, <2>1, <2>3 DEF Roles, Places, Watched, Opening, Ending
  <2> QED
    BY <2>2, <2>3 DEF Agents
<1> QED
  BY <1>2, <1>3, <1>4, <1>5, <1>6

\* The session is cleared and its watcher aborted: a failed Claim, a Release, a watcher.
LEMMA EndKeepsRoles ==
  ASSUME Typed, Roles, NEW a \in Agents, pc[a] \in {"cl_wait", "td_wait"},
         claim' = None, UNCHANGED present, AbortAndReturn(SessionWatcher, a)
  PROVE  Roles'
<1> DEFINE w == SessionWatcher
<1>1. w \in Watchers /\ w \in Agents /\ w # None
  BY EndsAlone, AgentTypes
<1>2. /\ \A b \in {a, w} : pc'[b] = "idle" /\ loc'[b] = NoLocals
      /\ \A b \in Agents \ {a, w} : pc'[b] = pc[b] /\ loc'[b] = loc[b]
      /\ aborted' = {}
  <2>1. pc[a] \in Watching \/ w # a
    <3>1. a \in Watchers => pc[a] # "cl_wait"
      BY DEF Roles, Places, Ending
    <3> QED
      BY <1>1, <3>1 DEF Watching
  <2>2. (w = a /\ pc[a] \in Watching) \/ pc[w] = "watch"
    BY <2>1, EndsAlone
  <2>3. {a} \cup ({w} \ {None}) = {a, w} /\ Agents \cap {a, w} = {a, w}
    BY <1>1
  <2> HIDE DEF w
  <2>4. AbortAndReturn(w, a) /\ w \in Watchers \cup {None}
    BY <1>1 DEF w
  <2> QED
    BY <2>2, <2>3, <2>4, AbortedAtOnce
<1> HIDE DEF w
<1>3. OneCall' /\ Places'
  BY <1>2, AgentTypes DEF Roles, OneCall, Places
<1>4. \A t \in Tasks : pc'[t] \notin Starting \cup Opening \cup Ending
  <2>1. \A t \in Tasks : pc'[t] = "idle" \/ (t \in Agents \ {a} /\ pc'[t] = pc[t])
    BY <1>2, AgentTypes
  <2>2. "idle" \notin Starting \cup Opening \cup Ending
    BY DEF Starting, Opening, Ending
  <2> QED
    BY <2>1, <2>2, EndsAlone
<1>5. Holding'
  BY <1>4 DEF Holding
<1>6. SessionWatcher' = None /\ StoredWatched'
  BY DEF SessionWatcher, StoredWatched
<1>7. \A s \in Tasks : Storing(s)' =>
        Storing(s) /\ loc[s].watcher \in Watchers \ {a, w} /\ loc'[s] = loc[s]
  <2> SUFFICES ASSUME NEW s \in Tasks, Storing(s)'
               PROVE  Storing(s) /\ loc[s].watcher \in Watchers \ {a, w} /\ loc'[s] = loc[s]
    OBVIOUS
  <2>1. s \in Agents \ {a, w} /\ Storing(s)
    BY <1>2, AgentTypes DEF Storing
  <2>2. loc[s].watcher \in Watchers /\ loc[s].watcher # w
    BY <2>1 DEF Typed, Locals, Storing, Roles, Watched, w
  <2>3. a \in Watchers => a = w
    BY EndsAlone DEF w
  <2> QED
    BY <1>2, <2>1, <2>2, <2>3
<1>8. \A s \in Tasks : Storing(s)' =>
        /\ pc'[loc'[s].watcher] = "watch" /\ loc'[loc'[s].watcher].who = loc'[s].who
        /\ loc'[s].watcher # SessionWatcher'
  BY <1>2, <1>6, <1>7, AgentTypes DEF Roles, Watched
<1>9. \A v \in Watchers : pc'[v] # "idle" =>
        \E s \in Tasks : Storing(s)' /\ loc'[s].watcher = v
  <2> SUFFICES ASSUME NEW v \in Watchers, pc'[v] # "idle"
               PROVE  \E s \in Tasks : Storing(s)' /\ loc'[s].watcher = v
    OBVIOUS
  <2>1. v \in Agents \ {a, w} /\ pc[v] # "idle"
    BY <1>2, AgentTypes
  <2>2. PICK s \in Tasks : Storing(s) /\ loc[s].watcher = v
    BY <2>1 DEF Roles, Watched, w
  <2>3. s # a /\ s # w
    BY <1>1, <2>2, AgentTypes DEF Storing
  <2> QED
    BY <1>2, <2>2, <2>3, AgentTypes DEF Storing
<1>10. \A v \in Watchers : pc'[v] \in Ending => loc'[v].who \notin present'
  <2>1. \A v \in Watchers : pc'[v] = "idle" \/ (v \in Agents \ {a} /\ pc'[v] = pc[v])
    BY <1>2, AgentTypes
  <2> QED
    BY <2>1, EndsAlone DEF Ending
<1>11. Watched'
  BY <1>2, <1>6, <1>8, <1>9, <1>10 DEF Watched
<1> QED
  BY <1>3, <1>5, <1>11 DEF Roles

\* A Claim that lost the race aborts the watcher it had spawned.
LEMMA RefuseKeepsRoles ==
  ASSUME Typed, Roles, NEW t \in Tasks, RefuseClaim(t)
  PROVE  Roles'
<1> DEFINE w == loc[t].watcher
<1>1. /\ Storing(t) /\ w \in Watchers /\ w \in Agents /\ t \in Agents /\ w # t /\ w # None
      /\ pc[w] = "watch" /\ w # SessionWatcher /\ loc[w].who = loc[t].who
      /\ UNCHANGED <<claim, present>>
  BY AgentTypes DEF RefuseClaim, Typed, Locals, Roles, Watched, Storing
<1>2. /\ \A b \in {t, w} : pc'[b] = "idle" /\ loc'[b] = NoLocals
      /\ \A b \in Agents \ {t, w} : pc'[b] = pc[b] /\ loc'[b] = loc[b]
      /\ aborted' = {}
  <2>1. AbortAndReturn(w, t) /\ w \in Watchers \cup {None} /\ t \in Agents
    BY <1>1 DEF RefuseClaim
  <2>2. w # None => (w = t /\ pc[t] \in Watching) \/ pc[w] = "watch"
    BY <1>1
  <2>3. {t} \cup ({w} \ {None}) = {t, w} /\ Agents \cap {t, w} = {t, w}
    BY <1>1
  <2> HIDE DEF w
  <2>4. /\ \A b \in Agents \cap ({t} \cup ({w} \ {None})) : pc'[b] = "idle" /\ loc'[b] = NoLocals
        /\ \A b \in Agents \ ({t} \cup ({w} \ {None})) : pc'[b] = pc[b] /\ loc'[b] = loc[b]
        /\ aborted' = {}
    BY <2>1, <2>2, AbortedAtOnce
  <2> QED
    BY <2>3, <2>4
<1> HIDE DEF w
<1>3. OneCall' /\ Places'
  BY <1>1, <1>2, AgentTypes DEF Roles, OneCall, Places
<1>4. Holding'
  BY <1>1, <1>2, AgentTypes DEF Roles, Holding, Starting, Opening, Ending, NewSession
<1>5. StoredWatched'
  BY <1>1, <1>2, AgentTypes DEF Roles, Watched, StoredWatched
<1>6. \A s \in Tasks : Storing(s)' =>
        /\ Storing(s) /\ s # t /\ loc'[s] = loc[s]
        /\ loc[s].watcher \in Watchers \ {w}
  <2> SUFFICES ASSUME NEW s \in Tasks, Storing(s)'
               PROVE  /\ Storing(s) /\ s # t /\ loc'[s] = loc[s]
                      /\ loc[s].watcher \in Watchers \ {w}
    OBVIOUS
  <2>1. s # t /\ s # w /\ Storing(s) /\ loc'[s] = loc[s]
    BY <1>2, AgentTypes DEF Storing
  <2>2. loc[s].who # loc[t].who
    BY <1>1, <2>1 DEF Roles, OneCall, Storing
  <2> QED
    BY <1>1, <2>1, <2>2 DEF Typed, Locals, Roles, Watched, Storing
<1>7. \A s \in Tasks : Storing(s)' =>
        /\ pc'[loc'[s].watcher] = "watch" /\ loc'[loc'[s].watcher].who = loc'[s].who
        /\ loc'[s].watcher # SessionWatcher'
  BY <1>1, <1>2, <1>6, AgentTypes DEF Roles, Watched, SessionWatcher
<1>8. \A v \in Watchers : pc'[v] # "idle" =>
        v = SessionWatcher' \/ \E s \in Tasks : Storing(s)' /\ loc'[s].watcher = v
  <2> SUFFICES ASSUME NEW v \in Watchers, pc'[v] # "idle", v # SessionWatcher'
               PROVE  \E s \in Tasks : Storing(s)' /\ loc'[s].watcher = v
    OBVIOUS
  <2>1. v # w /\ pc[v] # "idle" /\ v # SessionWatcher
    BY <1>1, <1>2, AgentTypes DEF SessionWatcher
  <2>2. PICK s \in Tasks : Storing(s) /\ loc[s].watcher = v
    BY <2>1 DEF Roles, Watched
  <2>3. s # t /\ s # w
    BY <1>1, <2>1, <2>2, AgentTypes DEF w
  <2> QED
    BY <1>2, <2>2, <2>3, AgentTypes DEF Storing
<1>9. \A v \in Watchers : pc'[v] \in Ending => loc'[v].who \notin present'
  BY <1>1, <1>2, AgentTypes DEF Roles, Watched, Ending
<1>10. Watched'
  BY <1>2, <1>5, <1>7, <1>8, <1>9 DEF Watched
<1> QED
  BY <1>3, <1>4, <1>10 DEF Roles

(* A watcher wakes: its client is gone, so it is the session's.            *)
LEMMA NameVanishedKeepsRoles ==
  ASSUME Typed, Roles, NEW w \in Watchers, NameVanished(w)
  PROVE  Roles'
<1>1. /\ pc[w] = "watch" /\ pc'[w] = "td_take" /\ loc' = loc /\ loc[w].who \notin present
      /\ \A b \in Agents \ {w} : pc'[b] = pc[b]
      /\ UNCHANGED <<claim, present, aborted>>
  BY AgentTypes DEF NameVanished, Goto
<1>2. \A t \in Tasks : t # w /\ pc'[t] = pc[t]
  BY <1>1, AgentTypes
<1>3. \A t \in Tasks : Storing(t) => loc[t].watcher \in Watchers \ {w}
  BY <1>1 DEF Typed, Locals, Storing, Roles, Places, Watched
<1>4. OneCall' /\ Places'
  BY <1>1, <1>2, AgentTypes DEF Roles, OneCall, Places, Ending
<1>5. Holding'
  BY <1>1, <1>2 DEF Roles, Holding, NewSession
<1>6. StoredWatched'
  BY <1>1, AgentTypes DEF Roles, Watched, StoredWatched
<1>7. \A t \in Tasks : Storing(t)' =>
        /\ pc'[loc'[t].watcher] = "watch" /\ loc'[loc'[t].watcher].who = loc'[t].who
        /\ loc'[t].watcher # SessionWatcher'
  BY <1>1, <1>2, <1>3, AgentTypes DEF Roles, Watched, Storing, SessionWatcher
<1>8. \A v \in Watchers : pc'[v] # "idle" =>
        v = SessionWatcher' \/ \E s \in Tasks : Storing(s)' /\ loc'[s].watcher = v
  BY <1>1, <1>2, AgentTypes DEF Roles, Watched, Storing, SessionWatcher
<1>9. \A v \in Watchers : pc'[v] \in Ending => loc'[v].who \notin present'
  BY <1>1, AgentTypes DEF Roles, Watched
<1> QED
  BY <1>1, <1>4, <1>5, <1>6, <1>7, <1>8, <1>9 DEF Roles, Watched

(* A client with no call in flight leaves.                                 *)
LEMMA VanishKeepsRoles ==
  ASSUME Typed, Roles, Polite, NEW c \in Clients, Vanish(c)
  PROVE  Roles'
<1>1. UNCHANGED <<claim, pc, loc, aborted>> /\ present' = present \ {c} /\ ~Busy(c)
  BY DEF Vanish, Polite
<1>2. OneCall' /\ Places' /\ Holding'
  BY <1>1 DEF Roles, OneCall, Places, Holding, NewSession, Busy
<1>3. Watched'
  BY <1>1 DEF Roles, Watched, StoredWatched, SessionWatcher, Storing
<1> QED
  BY <1>2, <1>3 DEF Roles

(* Nothing else touches sessions, handlers or watchers.                    *)
RolesLeftAlone == UNCHANGED <<claim, present, pc, loc, aborted>>

\* Pumps, the sleep monitor and the actor do not touch a session.
LEMMA OthersLeaveRolesAlone ==
  ASSUME \/ \E p \in Pumps : Pump(p) \/ SensorReports(p)
         \/ Logind
         \/ ActorNext /\ UNCHANGED deviceVars
         \/ UNCHANGED vars
  PROVE  RolesLeftAlone
<1>1. ASSUME NEW p \in Pumps, Pump(p) \/ SensorReports(p)
      PROVE  RolesLeftAlone
  BY <1>1 DEF Pump, PumpSend, PumpReport, PumpStopped, PumpReply, Published, PumpEnd,
              SensorReports, RolesLeftAlone
<1>2. CASE Logind \/ (ActorNext /\ UNCHANGED deviceVars) \/ UNCHANGED vars
  BY <1>2 DEF Logind, vars, deviceVars, RolesLeftAlone
<1> QED
  BY <1>1, <1>2

\* Every step keeps each session with its client, if the clients are polite.
LEMMA RolesStep ==
  ASSUME Typed, Roles, Polite, [Next]_vars
  PROVE  Roles'
<1>1. ASSUME NEW t \in Tasks, Handler(t)
      PROVE  Roles'
  <2>1. CASE SendOpen(t)
    BY <2>1, GotoKeepsRoles, AgentTypes DEF SendOpen, Opening
  <2>2. CASE ClaimOpened(t)
    <3>1. pc' = [pc EXCEPT ![t] = "idle"] /\ loc' = [loc EXCEPT ![t] = NoLocals]
      BY <2>2, AgentTypes DEF ClaimOpened, AbortAndReturn
    <3>2. UNCHANGED <<claim, present, aborted>>
      BY <2>2 DEF ClaimOpened, AbortAndReturn, Roles, Watched
    <3> QED
      BY <2>2, <3>1, <3>2, ReturnKeepsRoles DEF ClaimOpened, Return, Storing
  <2>3. CASE ClaimFailed(t)
    BY <2>3, EndKeepsRoles, AgentTypes DEF ClaimFailed
  <2>4. CASE RefuseStart(t) \/ BeginOp(t) \/ StopActive(t) \/ DeleteRecords(t)
    BY <2>4, ReturnKeepsRoles DEF RefuseStart, BeginOp, StopActive, DeleteRecords, Storing
  <2>5. CASE FindPrint(t)
    BY <2>5, GotoKeepsRoles, AgentTypes DEF FindPrint, Starting
  <2> QED
    BY <1>1, <2>1, <2>2, <2>3, <2>4, <2>5, AuthorizeKeepsRoles, SpawnKeepsRoles, StoreKeepsRoles,
       RefuseKeepsRoles DEF Handler
<1>2. ASSUME NEW a \in Agents, Teardown(a)
      PROVE  Roles'
  <2>1. CASE TakeActive(a)
    BY <2>1, GotoKeepsRoles DEF TakeActive, Ending
  <2>2. CASE SendClose(a)
    BY <2>2, GotoKeepsRoles DEF SendClose, Ending
  <2>3. CASE ClearClaim(a)
    BY <2>3, EndKeepsRoles DEF ClearClaim
  <2> QED
    BY <1>2, <2>1, <2>2, <2>3 DEF Teardown
<1>3. ASSUME NEW w \in Watchers, Watcher(w)
      PROVE  Roles'
  BY <1>3, NameVanishedKeepsRoles DEF Watcher, AbortLands, Roles, Watched
<1>4. CASE RolesLeftAlone
  BY <1>4 DEF RolesLeftAlone, Roles, OneCall, Places, Holding, NewSession, Watched,
              StoredWatched, SessionWatcher, Storing
<1> QED
  BY <1>1, <1>2, <1>3, <1>4, DispatchKeepsRoles, VanishKeepsRoles, OthersLeaveRolesAlone DEF Next

-----------------------------------------------------------------------------
(* The pumps and the session.                                              *)

\* Where no pump may work.
QuietPlaces == Opening \cup {"td_send", "td_wait"}

(* Where an operation starts, nobody opens or closes the reader.           *)
LEMMA StartsAlone ==
  ASSUME Typed, Roles, NEW t \in Tasks, pc[t] \in Starting
  PROVE  \A a \in Agents : pc[a] \notin Opening \cup Ending
<1> SUFFICES ASSUME NEW a \in Agents, pc[a] \in Opening \cup Ending
             PROVE  FALSE
  OBVIOUS
<1>1. claim # None /\ claim.sender = loc[a].who
  BY OneMover
<1>2. claim.sender = loc[t].who /\ loc[t].who \in present /\ pc[t] # "idle"
  BY DEF Roles, Holding, Places, Starting
<1>3. CASE a \in Tasks
  <2>1. a = t
    BY <1>1, <1>2, <1>3 DEF Roles, OneCall, Opening, Ending
  <2> QED
    BY <2>1 DEF Starting, Opening, Ending
<1>4. CASE a \in Watchers
  BY <1>1, <1>2, <1>4, EndingWatcher DEF Roles, Places, Opening, Ending
<1> QED
  BY <1>3, <1>4 DEF Agents

(* A step of a pump starts no work and forgets the stop of none.           *)
LEMMA PumpStarts ==
  ASSUME Typed, NEW p \in Pumps, Pump(p)
  PROVE  /\ \A q \in Pumps : ~Finished(q)' =>
              ~Finished(q) /\ puser'[q] = puser[q] /\ (q \in stop => q \in stop')
         /\ stop' \subseteq stop
         /\ RolesLeftAlone
<1>1. /\ pst \in [Pumps -> PumpPlaces] /\ puser \in [Pumps -> Users \cup {None}]
  BY DEF Typed, TypeOK
<1>2. RolesLeftAlone
  BY OthersLeaveRolesAlone
<1>3. CASE PumpEnd(p)
  BY <1>1, <1>2, <1>3 DEF PumpEnd, Finished
<1>4. CASE PumpSend(p) \/ Published(p)
  BY <1>1, <1>2, <1>4 DEF PumpSend, Published, Publishing, Finished
<1>5. CASE PumpReport(p) \/ PumpStopped(p) \/ PumpReply(p)
  BY <1>1, <1>2, <1>5 DEF PumpReport, PumpStopped, PumpReply, Publish, Finished
<1> QED
  BY <1>3, <1>4, <1>5 DEF Pump

(* Steps that leave the pumps alone begin to open the reader when there is *)
(* no session, and drop a session only where no pump works.                *)
LEMMA QuietKept ==
  ASSUME Quiet, LiveOpHasSession, UNCHANGED <<pst, stop, puser>>,
         \A a \in Agents : pc'[a] \in QuietPlaces => pc[a] \in QuietPlaces \/ claim = None,
         \/ claim' = claim \/ claim = None
         \/ \E a \in Agents : pc[a] \in QuietPlaces
  PROVE  Quiet' /\ LiveOpHasSession'
  BY DEF Quiet, LiveOpHasSession, Finished, QuietPlaces

\* Every step keeps the pumps out of a session that opens or closes.
LEMMA QuietStep ==
  ASSUME Typed, NoOrphanPump, Roles, Quiet, LiveOpHasSession, [Next]_vars
  PROVE  Quiet' /\ LiveOpHasSession'
<1>1. ASSUME NEW t \in Tasks, NEW c \in Clients,
             CallClaim(t, c) \/ CallDeleteUnclaimed(t, c) \/ CallClaimed(t, c)
      PROVE  Quiet' /\ LiveOpHasSession'
  <2>1. PICK at \in ClaimedMethods \cup {"cl_auth"}, u \in Users \cup {None} : Dispatch(t, c, at, u)
    BY <1>1, AgentTypes DEF CallClaim, CallDeleteUnclaimed, CallClaimed, ClaimedMethods
  <2>2. \A a \in Agents : pc'[a] \in QuietPlaces => pc[a] \in QuietPlaces
    BY <2>1, AgentTypes DEF Dispatch, QuietPlaces, Opening, ClaimedMethods
  <2> QED
    BY <2>1, <2>2, QuietKept DEF Dispatch, pumpVars
<1>2. ASSUME NEW t \in Tasks, Handler(t)
      PROVE  Quiet' /\ LiveOpHasSession'
  <2>1. t \in Agents
    BY AgentTypes
  <2>2. CASE BeginOp(t)
    <3>1. \A a \in Agents : pc'[a] \notin QuietPlaces
      BY <2>2, StartsAlone, AgentTypes
      DEF BeginOp, Return, QuietPlaces, Opening, Ending, Starting
    <3>2. claim # None /\ claim.user = loc[t].user /\ claim' = claim
      BY <2>2 DEF BeginOp, Roles, Holding, Starting
    <3>3. LiveOpHasSession'
      BY <2>2, <3>2 DEF BeginOp, LiveOpHasSession, Finished, Typed, TypeOK
    <3> QED
      BY <3>1, <3>3 DEF Quiet, QuietPlaces
  <2>3. CASE StopActive(t)
    <3>1. \A a \in Agents : pc'[a] \in QuietPlaces => pc[a] \in QuietPlaces
      BY <2>3, AgentTypes DEF StopActive, Return, QuietPlaces, Opening
    <3>2. stop \subseteq stop' /\ UNCHANGED <<claim, pst, puser>>
      BY <2>3 DEF StopActive
    <3> QED
      BY <3>1, <3>2 DEF Quiet, LiveOpHasSession, Finished, QuietPlaces
  <2>4. CASE \/ AuthorizeClaim(t) \/ SpawnWatcher(t) \/ SendOpen(t)
             \/ RefuseStart(t) \/ FindPrint(t) \/ DeleteRecords(t)
    <3>1. \A a \in Agents : pc'[a] \in QuietPlaces => pc[a] \in QuietPlaces
      BY <2>4, AgentTypes DEF AuthorizeClaim, SpawnWatcher, SendOpen, RefuseStart, FindPrint, DeleteRecords,
             Goto, Return, QuietPlaces, Opening
    <3>2. UNCHANGED <<claim, pst, stop, puser>>
      BY <2>4 DEF AuthorizeClaim, SpawnWatcher, SendOpen, RefuseStart, FindPrint, DeleteRecords,
                     pumpVars
    <3> QED
      BY <3>1, <3>2, QuietKept
  <2>5. CASE StoreClaim(t)
    BY <2>5, QuietKept DEF StoreClaim, pumpVars
  <2>6. CASE RefuseClaim(t) \/ ClaimOpened(t) \/ ClaimFailed(t)
    <3>1. \A a \in Agents : pc'[a] \in QuietPlaces => pc[a] \in QuietPlaces
      BY <2>6, AgentTypes DEF RefuseClaim, ClaimOpened, ClaimFailed, AbortAndReturn,
             QuietPlaces, Opening
    <3>2. UNCHANGED <<pst, stop, puser>>
      BY <2>6 DEF RefuseClaim, ClaimOpened, ClaimFailed, pumpVars
    <3>3. claim' = claim \/ pc[t] \in QuietPlaces
      BY <2>6 DEF RefuseClaim, ClaimOpened, ClaimFailed, QuietPlaces, Opening
    <3> QED
      BY <2>1, <3>1, <3>2, <3>3, QuietKept
  <2> QED
    BY <1>2, <2>2, <2>3, <2>4, <2>5, <2>6 DEF Handler
<1>3. ASSUME NEW a \in Agents, Teardown(a)
      PROVE  Quiet' /\ LiveOpHasSession'
  <2>1. CASE TakeActive(a)
    <3>1. \A p \in Pumps : ~Finished(p) => p \in stop'
      BY <2>1 DEF TakeActive, LiveActive, NoOrphanPump
    <3>2. UNCHANGED <<pst, claim, puser>>
      BY <2>1 DEF TakeActive
    <3> QED
      BY <3>1, <3>2 DEF Quiet, LiveOpHasSession, Finished
  <2>2. CASE SendClose(a)
    <3>1. \A b \in Agents : pc'[b] \in QuietPlaces => pc[b] \in QuietPlaces
      BY <2>2, AgentTypes DEF SendClose, Goto, QuietPlaces
    <3> QED
      BY <2>2, <3>1, QuietKept DEF SendClose, pumpVars
  <2>3. CASE ClearClaim(a)
    <3>1. \A b \in Agents : pc'[b] \in QuietPlaces => pc[b] \in QuietPlaces
      BY <2>3, AgentTypes DEF ClearClaim, AbortAndReturn, QuietPlaces, Opening
    <3>2. pc[a] \in QuietPlaces
      BY <2>3 DEF ClearClaim, QuietPlaces
    <3> QED
      BY <2>3, <3>1, <3>2, QuietKept DEF ClearClaim, pumpVars
  <2> QED
    BY <1>3, <2>1, <2>2, <2>3 DEF Teardown
<1>4. ASSUME NEW w \in Watchers, Watcher(w)
      PROVE  Quiet' /\ LiveOpHasSession'
  <2>1. NameVanished(w)
    BY <1>4 DEF Watcher, AbortLands, Roles, Watched
  <2>2. \A b \in Agents : pc'[b] \in QuietPlaces => pc[b] \in QuietPlaces
    BY <2>1, AgentTypes DEF NameVanished, Goto, QuietPlaces, Opening
  <2> QED
    BY <2>1, <2>2, QuietKept DEF NameVanished, pumpVars
<1>5. ASSUME NEW p \in Pumps, Pump(p)
      PROVE  Quiet' /\ LiveOpHasSession'
  BY <1>5, PumpStarts DEF RolesLeftAlone, Quiet, LiveOpHasSession
<1>6. CASE \/ \E p \in Pumps : SensorReports(p)
           \/ \E c \in Clients : Vanish(c)
           \/ Logind \/ (ActorNext /\ UNCHANGED deviceVars) \/ UNCHANGED vars
  <2>1. UNCHANGED <<claim, pc, pst, stop, puser>>
    BY <1>6 DEF SensorReports, Vanish, Logind, pumpVars, deviceVars, vars
  <2> QED
    BY <2>1, QuietKept
<1> QED
  BY <1>1, <1>2, <1>3, <1>4, <1>5, <1>6 DEF Next

-----------------------------------------------------------------------------
(* The commands, and whether the reader is open.                           *)

\* Places at which the reader is left alone.
Calm(at) == at \notin Opening \cup {"td_wait"}

(* A step that sees no command of a handler's or a watcher's, and moves    *)
(* them only where the reader is left alone.                               *)
LEMMA CalmKept ==
  ASSUME Commands, Reader, UNCHANGED <<claim, dev>>,
         \A a \in Agents :
           /\ stage'[a] = stage[a] /\ kind'[a] = kind[a] /\ res'[a] = res[a]
           /\ pc'[a] = pc[a] \/ (Calm(pc[a]) /\ Calm(pc'[a])),
         deaf' \cap Agents = {}
  PROVE  Commands' /\ Reader'
<1>1. \A a \in Agents : Calm(pc'[a]) <=> Calm(pc[a])
  OBVIOUS
<1>2. Commands'
  BY DEF Commands, Calm, Opening
<1>3. \A a \in Agents :
       /\ pc'[a] = "cl_open" => dev # "open"
       /\ pc'[a] = "cl_wait" =>
            IF stage'[a] = "answered" THEN res'[a] = "ok" <=> dev = "open" ELSE dev # "open"
       /\ pc'[a] = "td_wait" /\ stage'[a] = "answered" => dev # "open"
  BY DEF Reader, Calm, Opening
<1>4. Reader'
  BY <1>1, <1>3 DEF Reader, Calm
<1> QED
  BY <1>2, <1>4

(* Who ends no call, or one that was answered, leaves nobody deaf.         *)
LEMMA CallsEnded ==
  ASSUME Typed, NEW S, S \subseteq Agents, EndCalls(S),
         \A a \in S : stage[a] \in {"free", "answered"}
  PROVE  /\ deaf' = deaf /\ dev' = dev
         /\ \A a \in S : stage'[a] = "free"
         /\ \A a \in Agents : stage[a] # "answered" \/ a \notin S =>
              stage'[a] = stage[a] /\ kind'[a] = kind[a] /\ res'[a] = res[a]
<1>1. Agents \subseteq Callers
  BY DeviceAssumption
<1>2. {a \in S : stage[a] \in {"queued", "running"}} = {}
  OBVIOUS
<1> QED
  BY <1>1, <1>2 DEF EndCalls

\* What an ended pump, a command sent and an answer change of the calls.
LEMMA PumpsCallsEnded ==
  ASSUME Typed, NEW p \in Pumps, EndCalls({p})
  PROVE  /\ deaf' \cap Agents = deaf \cap Agents /\ dev' = dev
         /\ \A a \in Agents : stage'[a] = stage[a] /\ kind'[a] = kind[a] /\ res'[a] = res[a]
<1>1. Agents \subseteq Callers /\ p \notin Agents
  BY DeviceAssumption DEF Agents
<1> QED
  BY <1>1 DEF EndCalls

LEMMA CommandSent ==
  ASSUME Typed, NEW c \in Callers, NEW k, Submit(c, k)
  PROVE  /\ stage'[c] = "queued" /\ kind'[c] = k
         /\ \A a \in Agents \ {c} : stage'[a] = stage[a] /\ kind'[a] = kind[a]
         /\ UNCHANGED <<dev, res>>
<1>1. Agents \subseteq Callers
  BY DeviceAssumption
<1> QED
  BY <1>1 DEF Submit, Typed, TypeOK, ActorTypeOK

LEMMA AnswerGiven ==
  ASSUME Typed, NEW c \in Callers, NEW r, Answer(c, r)
  PROVE  /\ c \notin deaf => stage'[c] = "answered" /\ res'[c] = r /\ kind'[c] = kind[c]
         /\ \A a \in Agents \ {c} : stage'[a] = stage[a] /\ kind'[a] = kind[a] /\ res'[a] = res[a]
         /\ deaf' \subseteq deaf
<1>1. Agents \subseteq Callers
  BY DeviceAssumption
<1> QED
  BY <1>1 DEF Answer, Typed, TypeOK, ActorTypeOK

(* The actor serves a handler or a watcher only what it waits for.         *)
LEMMA ServedAgent ==
  ASSUME Typed, PumpStreams, Commands, cur \in Callers
  PROVE  /\ kind[cur] \in Streams \cup Unary => cur \in Pumps
         /\ kind[cur] = "Open" => cur \in Agents /\ pc[cur] = "cl_wait"
         /\ kind[cur] = "Close" => cur \in Agents /\ pc[cur] = "td_wait"
         /\ cur \in Agents => cur \notin deaf /\ stage[cur] = "running"
<1>1. stage[cur] = "running"
  BY DEF Typed, ActorInv, ExactlyOnce
<1>2. cur \in Agents \cup Pumps
  BY DeviceAssumption
<1>3. cur \in Pumps => kind[cur] \in Streams
  BY <1>1 DEF PumpStreams
<1>4. cur \in Agents => (pc[cur] = "cl_wait" /\ kind[cur] = "Open") \/ (pc[cur] = "td_wait" /\ kind[cur] = "Close")
  BY <1>1 DEF Commands
<1> QED
  BY <1>1, <1>2, <1>3, <1>4 DEF Streams, Unary, Commands

\* The actor opens and closes the reader only as the commands it serves say.
LEMMA ActorKeepsReader ==
  ASSUME Typed, PumpStreams, Roles, Commands, Reader, ActorNext, UNCHANGED deviceVars
  PROVE  Commands' /\ Reader'
<1>1. /\ UNCHANGED <<claim, pc>>
      /\ deaf \cap Agents = {}
      /\ Agents \subseteq Callers /\ Agents \cap Pumps = {}
  BY DeviceAssumption DEF deviceVars, Commands, Agents
<1>2. CASE TakePrio \/ FinishPrio
  <2>1. UNCHANGED <<dev, stage, kind, res, deaf>>
    BY <1>2 DEF TakePrio, FinishPrio
  <2> QED
    BY <1>1, <2>1, CalmKept
<1>3. CASE TakeCmd
  <2>1. Head(rx) \in Callers /\ stage[Head(rx)] = "queued"
    BY <1>3 DEF TakeCmd, Typed, ActorInv, ActorTypeOK, ExactlyOnce, Holds
  <2>2. \A a \in Agents : \/ stage'[a] = stage[a]
                          \/ stage[a] = "queued" /\ stage'[a] = "running"
    BY <1>1, <1>3, <2>1 DEF TakeCmd, Typed, TypeOK, ActorTypeOK
  <2> QED
    BY <1>1, <1>3, <2>2 DEF TakeCmd, Commands, Reader
<1>4. CASE RefuseCmd \/ FinishStream \/ CancelStream \/ Preempt \/ FinishUnary
  <2>1. cur \in Callers /\ kind[cur] \in Streams \cup Unary /\ dev' = dev
    BY <1>4 DEF RefuseCmd, FinishStream, CancelStream, Preempt, FinishUnary, Serves
  <2>2. cur \in Pumps
    BY <2>1, ServedAgent
  <2>3. PICK r : Answer(cur, r)
    BY <1>4 DEF RefuseCmd, FinishStream, CancelStream, Preempt, FinishUnary
  <2>4. /\ \A a \in Agents : stage'[a] = stage[a] /\ kind'[a] = kind[a] /\ res'[a] = res[a]
        /\ deaf' \cap Agents = {}
    BY <1>1, <2>1, <2>2, <2>3, AnswerGiven
  <2> QED
    BY <1>1, <2>1, <2>4, CalmKept
<1>5. CASE FinishOpen
  <2>1. cur \in Agents /\ pc[cur] = "cl_wait" /\ cur \notin deaf /\ kind[cur] = "Open"
        /\ stage[cur] = "running"
    BY <1>5, ServedAgent DEF FinishOpen, Serves
  <2>2. dev # "open"
    BY <2>1 DEF Reader
  <2>3. PICK r : Answer(cur, r) /\ (r = "ok" <=> dev' = "open")
    BY <1>5, <2>2 DEF FinishOpen
  <2>4. /\ stage'[cur] = "answered" /\ res'[cur] = r /\ kind'[cur] = "Open"
        /\ \A a \in Agents \ {cur} : stage'[a] = stage[a] /\ kind'[a] = kind[a] /\ res'[a] = res[a]
        /\ deaf' \cap Agents = {}
    BY <1>1, <2>1, <2>3, AnswerGiven
  <2>5. claim # None /\ \A a \in Agents \ {cur} : pc[a] \notin Opening \cup {"td_wait"}
    BY <2>1, EndsAlone DEF Ending
  <2>6. Commands'
    BY <1>1, <2>1, <2>4 DEF Commands
  <2>7. Reader'
    BY <1>1, <2>1, <2>3, <2>4, <2>5 DEF Reader, Opening
  <2> QED
    BY <2>6, <2>7
<1>6. CASE FinishClose
  <2>1. cur \in Agents /\ pc[cur] = "td_wait" /\ cur \notin deaf /\ kind[cur] = "Close"
        /\ stage[cur] = "running"
    BY <1>6, ServedAgent DEF FinishClose, Serves
  <2>2. PICK r : Answer(cur, r)
    BY <1>6 DEF FinishClose
  <2>3. /\ stage'[cur] = "answered" /\ kind'[cur] = "Close"
        /\ \A a \in Agents \ {cur} : stage'[a] = stage[a] /\ kind'[a] = kind[a] /\ res'[a] = res[a]
        /\ deaf' \cap Agents = {}
    BY <1>1, <2>1, <2>2, AnswerGiven
  <2>4. claim # None /\ \A a \in Agents \ {cur} : pc[a] \notin Opening \cup {"td_wait"}
    BY <2>1, EndsAlone DEF Ending
  <2>5. dev' = "none"
    BY <1>6 DEF FinishClose
  <2>6. Commands'
    BY <1>1, <2>1, <2>3 DEF Commands
  <2>7. Reader'
    BY <1>1, <2>1, <2>3, <2>4, <2>5 DEF Reader, Opening
  <2> QED
    BY <2>6, <2>7
<1> QED
  BY <1>2, <1>3, <1>4, <1>5, <1>6 DEF ActorNext, ActorStep

(* Whoever drops a session drops it when the reader is closed.             *)
LEMMA EndKeepsReader ==
  ASSUME Typed, Roles, Commands, Reader, NEW a \in Agents,
         pc[a] \in {"cl_wait", "td_wait"}, stage[a] = "answered", dev # "open",
         claim' = None, AbortAndReturn(SessionWatcher, a)
  PROVE  Commands' /\ Reader'
<1> DEFINE w == SessionWatcher
<1>1. /\ w \in Watchers /\ w \in Agents /\ w # None
      /\ w = a \/ pc[w] = "watch"
      /\ \A b \in Agents \ {a} : pc[b] \notin Opening \cup Ending
      /\ Agents \subseteq Callers /\ deaf \cap Agents = {}
  BY EndsAlone, AgentTypes, DeviceAssumption DEF Commands
<1>2. w = a => pc[a] \in Watching
  BY <1>1 DEF Roles, Places, Ending, Watching
<1>3. AbortAndReturn(w, a) /\ w \in Watchers \cup {None}
  BY <1>1
<1> HIDE DEF w
<1>4. /\ \A b \in Agents \cap ({a} \cup ({w} \ {None})) : pc'[b] = "idle" /\ loc'[b] = NoLocals
      /\ \A b \in Agents \ ({a} \cup ({w} \ {None})) : pc'[b] = pc[b] /\ loc'[b] = loc[b]
      /\ EndCalls({a} \cup ({w} \ {None}))
  BY <1>1, <1>2, <1>3, AbortedAtOnce
<1>5. /\ {a} \cup ({w} \ {None}) = {a, w} /\ {a, w} \subseteq Agents
  BY <1>1
<1>6. \A b \in {a, w} : stage[b] \in {"free", "answered"}
  BY <1>1 DEF Commands
<1>7. /\ deaf' = deaf /\ dev' = dev
      /\ \A b \in {a, w} : stage'[b] = "free"
      /\ \A b \in Agents \ {a, w} : stage'[b] = stage[b] /\ kind'[b] = kind[b] /\ res'[b] = res[b]
  BY <1>4, <1>5, <1>6, CallsEnded
<1>8. /\ \A b \in {a, w} : pc'[b] = "idle"
      /\ \A b \in Agents \ {a, w} : pc'[b] = pc[b]
  BY <1>4, <1>5
<1>9. Commands'
  BY <1>1, <1>5, <1>7, <1>8 DEF Commands
<1>10. Reader'
  BY <1>1, <1>7, <1>8 DEF Reader, Opening, Ending
<1> QED
  BY <1>9, <1>10

\* So do the handlers,
LEMMA HandlerKeepsReader ==
  ASSUME Typed, Roles, Commands, Reader, NEW t \in Tasks, Handler(t)
  PROVE  Commands' /\ Reader'
<1>1. t \in Agents /\ Agents \subseteq Callers /\ deaf \cap Agents = {}
  BY AgentTypes, DeviceAssumption DEF Commands
<1>2. CASE \/ AuthorizeClaim(t) \/ SpawnWatcher(t) \/ RefuseStart(t) \/ FindPrint(t) \/ BeginOp(t)
           \/ StopActive(t) \/ DeleteRecords(t)
  <2>1. UNCHANGED <<claim, dev, stage, kind, res, deaf>>
    BY <1>2 DEF AuthorizeClaim, SpawnWatcher, RefuseStart, FindPrint, BeginOp, StopActive, DeleteRecords,
                actorVars
  <2>2. CASE SpawnWatcher(t)
    <3>1. \A a \in Agents : pc'[a] = pc[a] \/ (Calm(pc[a]) /\ Calm(pc'[a]))
      BY <2>2, AgentTypes DEF SpawnWatcher, FreeWatcher, Return, Calm, Opening
    <3> QED
      BY <1>1, <2>1, <3>1, CalmKept
  <2>3. CASE ~SpawnWatcher(t)
    <3>1. \A a \in Agents : pc'[a] = pc[a] \/ (Calm(pc[a]) /\ Calm(pc'[a]))
      BY <1>2, <2>3, AgentTypes
      DEF AuthorizeClaim, RefuseStart, FindPrint, BeginOp, StopActive, DeleteRecords, Goto, Return, Calm, Opening
    <3> QED
      BY <1>1, <2>1, <3>1, CalmKept
  <2> QED
    BY <2>2, <2>3
<1>3. CASE StoreClaim(t)
  <2>1. /\ claim = None /\ pc'[t] = "cl_open" /\ pc[t] = "cl_store"
        /\ \A a \in Agents \ {t} : pc'[a] = pc[a]
        /\ UNCHANGED <<dev, stage, kind, res, deaf>>
    BY <1>3, AgentTypes DEF StoreClaim, Goto, actorVars
  <2>2. \A a \in Agents : pc[a] \notin Opening \cup Ending
    BY <2>1, OneMover
  <2>3. dev # "open"
    BY <2>1 DEF Reader
  <2>4. Commands'
    BY <1>1, <2>1 DEF Commands
  <2>5. Reader'
    BY <1>1, <2>1, <2>2, <2>3 DEF Reader, Opening, Ending
  <2> QED
    BY <2>4, <2>5
<1>4. CASE RefuseClaim(t)
  <2>1. pc[t] = "cl_store" /\ loc[t].watcher \in Watchers /\ pc[loc[t].watcher] = "watch"
        /\ claim' = claim /\ AbortAndReturn(loc[t].watcher, t)
    BY <1>4 DEF RefuseClaim, Typed, Locals, Roles, Watched, Storing
  <2>2. {t} \cup ({loc[t].watcher} \ {None}) = {t, loc[t].watcher}
        /\ {t, loc[t].watcher} \subseteq Agents
    BY <2>1, AgentTypes
  <2>3. /\ \A a \in {t, loc[t].watcher} : pc'[a] = "idle" /\ Calm(pc[a])
        /\ \A a \in Agents \ {t, loc[t].watcher} : pc'[a] = pc[a]
        /\ EndCalls({t, loc[t].watcher})
    BY <1>1, <2>1, <2>2, AbortedAtOnce DEF Calm, Opening
  <2>4. \A a \in {t, loc[t].watcher} : stage[a] = "free"
    BY <2>2, <2>3 DEF Commands, Calm, Opening
  <2>5. /\ deaf' = deaf /\ dev' = dev
        /\ \A a \in Agents : stage'[a] = stage[a] /\ kind'[a] = kind[a] /\ res'[a] = res[a]
    BY <2>2, <2>3, <2>4, CallsEnded
  <2> QED
    BY <1>1, <2>1, <2>3, <2>5, CalmKept DEF Calm, Opening
<1>5. CASE SendOpen(t)
  <2>1. /\ pc[t] = "cl_open" /\ pc'[t] = "cl_wait" /\ \A a \in Agents \ {t} : pc'[a] = pc[a]
        /\ UNCHANGED <<claim, deaf>>
    BY <1>5, AgentTypes DEF SendOpen, Goto
  <2>2. /\ stage'[t] = "queued" /\ kind'[t] = "Open"
        /\ \A a \in Agents \ {t} : stage'[a] = stage[a] /\ kind'[a] = kind[a]
        /\ UNCHANGED <<dev, res>>
    BY <1>1, <1>5, CommandSent DEF SendOpen
  <2>3. dev # "open"
    BY <1>1, <2>1 DEF Reader
  <2>4. Commands'
    BY <1>1, <2>1, <2>2 DEF Commands
  <2>5. Reader'
    BY <1>1, <2>1, <2>2, <2>3 DEF Reader, Opening
  <2> QED
    BY <2>4, <2>5
<1>6. CASE ClaimOpened(t)
  <2>1. pc[t] = "cl_wait" /\ stage[t] = "answered" /\ dev = "open"
    BY <1>1, <1>6 DEF ClaimOpened, Reader
  <2>2. /\ pc'[t] = "idle" /\ \A a \in Agents \ {t} : pc'[a] = pc[a]
        /\ EndCalls({t}) /\ claim' = claim
    BY <1>6, AgentTypes DEF ClaimOpened, AbortAndReturn
  <2>3. /\ deaf' = deaf /\ dev' = dev /\ stage'[t] = "free"
        /\ \A a \in Agents \ {t} : stage'[a] = stage[a] /\ kind'[a] = kind[a] /\ res'[a] = res[a]
    BY <1>1, <2>1, <2>2, CallsEnded
  <2>4. claim # None /\ \A a \in Agents \ {t} : pc[a] \notin Opening \cup Ending
    BY <1>1, <2>1, EndsAlone
  <2>5. Commands'
    BY <1>1, <2>2, <2>3 DEF Commands
  <2>6. Reader'
    BY <1>1, <2>1, <2>2, <2>3, <2>4 DEF Reader, Opening, Ending
  <2> QED
    BY <2>5, <2>6
<1>7. CASE ClaimFailed(t)
  <2>1. dev # "open"
    BY <1>1, <1>7 DEF ClaimFailed, Reader
  <2> QED
    BY <1>1, <1>7, <2>1, EndKeepsReader DEF ClaimFailed
<1> QED
  BY <1>2, <1>3, <1>4, <1>5, <1>6, <1>7 DEF Handler

\* and whoever ends a session.
LEMMA TeardownKeepsReader ==
  ASSUME Typed, Roles, Commands, Reader, NEW a \in Agents,
         Teardown(a) \/ (a \in Watchers /\ Watcher(a))
  PROVE  Commands' /\ Reader'
<1>1. Agents \subseteq Callers /\ deaf \cap Agents = {}
  BY DeviceAssumption DEF Commands
<1>2. CASE TakeActive(a) \/ NameVanished(a)
  <2>1. UNCHANGED <<claim, dev, stage, kind, res, deaf>>
    BY <1>2 DEF TakeActive, NameVanished, actorVars
  <2>2. \A b \in Agents : pc'[b] = pc[b] \/ (Calm(pc[b]) /\ Calm(pc'[b]))
    BY <1>2, AgentTypes DEF TakeActive, NameVanished, Goto, Calm, Opening
  <2> QED
    BY <1>1, <2>1, <2>2, CalmKept
<1>3. CASE SendClose(a)
  <2>1. /\ pc[a] = "td_send" /\ pc'[a] = "td_wait" /\ \A b \in Agents \ {a} : pc'[b] = pc[b]
        /\ UNCHANGED <<claim, deaf>>
    BY <1>3, AgentTypes DEF SendClose, Goto
  <2>2. /\ stage'[a] = "queued" /\ kind'[a] = "Close"
        /\ \A b \in Agents \ {a} : stage'[b] = stage[b] /\ kind'[b] = kind[b]
        /\ UNCHANGED <<dev, res>>
    BY <1>1, <1>3, CommandSent DEF SendClose
  <2>3. Commands'
    BY <1>1, <2>1, <2>2 DEF Commands
  <2>4. claim # None
    BY <2>1, OneMover DEF Ending
  <2>5. Reader'
    BY <1>1, <2>1, <2>2, <2>4 DEF Reader, Opening
  <2> QED
    BY <2>3, <2>5
<1>4. CASE ClearClaim(a)
  <2>1. dev # "open"
    BY <1>4 DEF ClearClaim, Reader
  <2> QED
    BY <1>4, <2>1, EndKeepsReader DEF ClearClaim
<1> QED
  BY <1>2, <1>3, <1>4 DEF Teardown, Watcher, AbortLands, Roles, Watched

\* Every step keeps the reader with the session.
LEMMA ReaderStep ==
  ASSUME Typed, PumpStreams, Roles, Commands, Reader, [Next]_vars
  PROVE  Commands' /\ Reader'
<1>1. Agents \subseteq Callers /\ Agents \cap Pumps = {} /\ deaf \cap Agents = {}
  BY DeviceAssumption DEF Commands, Agents
<1>2. ASSUME NEW t \in Tasks, NEW c \in Clients,
             CallClaim(t, c) \/ CallDeleteUnclaimed(t, c) \/ CallClaimed(t, c)
      PROVE  Commands' /\ Reader'
  <2>1. PICK at \in ClaimedMethods \cup {"cl_auth"}, u \in Users \cup {None} : Dispatch(t, c, at, u)
    BY <1>2, AgentTypes DEF CallClaim, CallDeleteUnclaimed, CallClaimed, ClaimedMethods
  <2>2. \A a \in Agents : pc'[a] = pc[a] \/ (Calm(pc[a]) /\ Calm(pc'[a]))
    BY <2>1, AgentTypes DEF Dispatch, Calm, Opening, ClaimedMethods
  <2>3. UNCHANGED <<claim, dev, stage, kind, res, deaf>>
    BY <2>1 DEF Dispatch, actorVars
  <2> QED
    BY <1>1, <2>2, <2>3, CalmKept
<1>3. ASSUME NEW p \in Pumps, Pump(p)
      PROVE  Commands' /\ Reader'
  <2>1. UNCHANGED <<claim, pc>>
    BY <1>3, OthersLeaveRolesAlone DEF RolesLeftAlone
  <2>2. /\ \A a \in Agents : stage'[a] = stage[a] /\ kind'[a] = kind[a] /\ res'[a] = res[a]
        /\ deaf' \cap Agents = {} /\ dev' = dev
    <3>1. CASE PumpSend(p)
      BY <1>1, <3>1, CommandSent, DeviceAssumption DEF PumpSend
    <3>2. CASE PumpReply(p)
      BY <1>1, <3>2, PumpsCallsEnded DEF PumpReply
    <3>3. CASE PumpEnd(p)
      BY <1>1, <3>3, PumpsCallsEnded DEF PumpEnd
    <3>4. CASE PumpReport(p) \/ PumpStopped(p) \/ Published(p)
      BY <1>1, <3>4 DEF PumpReport, PumpStopped, Published, actorVars
    <3> QED
      BY <1>3, <3>1, <3>2, <3>3, <3>4 DEF Pump
  <2> QED
    BY <2>1, <2>2, CalmKept
<1>4. CASE \/ \E p \in Pumps : SensorReports(p)
           \/ \E c \in Clients : Vanish(c)
           \/ Logind \/ UNCHANGED vars
  <2>1. UNCHANGED <<claim, pc, dev, stage, kind, res, deaf>>
    BY <1>4 DEF SensorReports, Vanish, Logind, SubmitPrio, CollectPrio, deviceVars, actorVars, vars
  <2> QED
    BY <1>1, <2>1, CalmKept
<1>5. ASSUME NEW w \in Watchers, Watcher(w)
      PROVE  Commands' /\ Reader'
  BY <1>5, TeardownKeepsReader, AgentTypes
<1> QED
  BY <1>2, <1>3, <1>4, <1>5, HandlerKeepsReader, TeardownKeepsReader, ActorKeepsReader DEF Next

-----------------------------------------------------------------------------
(* The invariant and what follows from it.                                 *)

\* Initially nobody is under way.
LEMMA SessionInitial ==
  ASSUME Init, Typed
  PROVE  Roles /\ Quiet /\ LiveOpHasSession /\ Commands /\ Reader
<1>1. /\ \A a \in Agents : pc[a] = "idle" /\ loc[a] = NoLocals /\ stage[a] = "free"
      /\ Tasks \subseteq Agents /\ Watchers \subseteq Agents
      /\ claim = None /\ aborted = {} /\ dev = "none" /\ deaf = {}
      /\ \A p \in Pumps : Finished(p)
  BY AgentTypes, DeviceAssumption DEF Init, ActorInit, Finished
<1>2. Roles
  BY <1>1 DEF Roles, OneCall, Places, Holding, Watched, StoredWatched, Storing, Starting,
              Opening, Ending
<1>3. Quiet /\ LiveOpHasSession
  BY <1>1 DEF Quiet, LiveOpHasSession
<1>4. Commands /\ Reader
  BY <1>1 DEF Commands, Reader
<1> QED
  BY <1>2, <1>3, <1>4

\* The invariant holds in every behaviour of polite clients.
LEMMA SessionInvariance == Polite => (Spec => []SessionInv)
<1> SUFFICES ASSUME Polite
             PROVE  Spec => []SessionInv
  OBVIOUS
<1>1. Init => Typed /\ Roles /\ Quiet /\ LiveOpHasSession /\ Commands /\ Reader
  BY InitTyped, SessionInitial
<1>2. ASSUME DeviceInv, DeviceInv', SessionInv, [Next]_vars
      PROVE  SessionInv'
  BY <1>2, RolesStep, QuietStep, ReaderStep DEF SessionInv, DeviceInv
<1>3. DeviceInv /\ Roles /\ Quiet /\ LiveOpHasSession /\ Commands /\ Reader <=> SessionInv
  BY DEF SessionInv
<1>4. Init => Roles /\ Quiet /\ LiveOpHasSession /\ Commands /\ Reader
  BY <1>1
<1> QED
  BY <1>2, <1>3, <1>4, DeviceInvariance, PTL DEF Spec

-----------------------------------------------------------------------------
(* What the clients see: every step is a step of ReaderService, or none.   *)
(*                                                                         *)
(* Beyond SessionInv the mapping needs that a handler at rest knows no     *)
(* client, so that the calls in flight are the handlers at work, and that  *)
(* a stop in flight comes from the client that holds the session.          *)

Stopping == {"vs_stop", "es_stop"}

\* A handler at rest has forgotten its client.
AtRest == \A t \in Tasks : pc[t] = "idle" => loc[t].who = None

\* A stop is its session's own.
StopsHeld == \A t \in Tasks : pc[t] \in Stopping => claim # None /\ claim.sender = loc[t].who

ServiceInv == SessionInv /\ AtRest /\ StopsHeld

\* The types the mapping needs, without the components' vocabulary.
LEMMA ServiceTypes ==
  ASSUME SessionInv
  PROVE  /\ Typed /\ Roles
         /\ pst \in [Pumps -> PumpPlaces] /\ op \in [Pumps -> OpKinds]
         /\ puser \in [Pumps -> Users \cup {None}] /\ stop \subseteq Pumps
         /\ finger \in {"on", "off"} /\ enrolled \subseteq Users /\ present \subseteq Clients
         /\ active \in Pumps \cup {None} /\ None \notin Pumps
         /\ \A t \in Tasks : loc[t].who \in Clients \cup {None}
         /\ \A t \in Tasks : pc[t] # "idle" => loc[t].who \in Clients
  BY AgentTypes, DeviceAssumption DEF SessionInv, DeviceInv, Typed, TypeOK, Roles, Places

\* The service's words, in the terms of the code.
LEMMA ServiceTerms ==
  /\ \A p \in Pumps : /\ Service!Serving(p) <=> ~Finished(p) /\ p \notin stop
                      /\ Service!InProgress(p) <=> ~Finished(p)
                      /\ OpsOf[p].kind = op[p] /\ OpsOf[p].user = puser[p]
  /\ Service!NobodyServed <=> \A p \in Pumps : ~Finished(p) => p \in stop
  /\ \A t \in Tasks : /\ CallsOf[t].client = loc[t].who
                      /\ CallsOf[t].method = MethodOf(pc[t])
                      /\ \A m : Service!Asked(t, m) <=> MethodOf(pc[t]) = m
  /\ \A c : Service!Owner(c) <=> SessionOf # None /\ SessionOf.client = c
  /\ Service!OwnerLeft <=> SessionOf # None /\ SessionOf.client \notin present
<1>1. \A p \in Pumps : /\ OpsOf[p].state = OpState(p)
                       /\ OpsOf[p].kind = op[p] /\ OpsOf[p].user = puser[p]
  BY DEF OpsOf
<1>2. \A t \in Tasks : CallsOf[t].client = loc[t].who /\ CallsOf[t].method = MethodOf(pc[t])
  BY DEF CallsOf
<1> QED
  BY <1>1, <1>2 DEF Service!Serving, Service!InProgress, Service!NobodyServed, Service!Asked,
                    Service!Owner, Service!OwnerLeft, OpState

\* The session the clients see is the stored one.
LEMMA SessionShown ==
  ASSUME SessionInv
  PROVE  /\ SessionOf = None <=> claim = None
         /\ claim # None => SessionOf.client = claim.sender /\ SessionOf.user = claim.user
         /\ ReaderOf = "open" <=> dev = "open"
         /\ ReaderOf = "shut" <=> dev # "open"
<1>1. claim # None => [client |-> claim.sender, user |-> claim.user] \in [client : Clients, user : Users]
  BY ServiceTypes, AgentTypes
<1>2. claim # None => [client |-> claim.sender, user |-> claim.user] # None
  BY <1>1, DeviceAssumption
<1> QED
  BY <1>2 DEF SessionOf, ReaderOf

\* What the clients do not see of a step.
LEMMA Unseen ==
  /\ claim' = claim => SessionOf' = SessionOf
  /\ dev' = dev => ReaderOf' = ReaderOf
  /\ UNCHANGED <<pst, stop, op, puser>> => OpsOf' = OpsOf
  /\ UNCHANGED <<stop, op, puser>> /\ (\A p \in Pumps : Finished(p)' <=> Finished(p))
       => OpsOf' = OpsOf
  /\ (\A t \in Tasks : loc'[t].who = loc[t].who /\ MethodOf(pc[t])' = MethodOf(pc[t]))
       => CallsOf' = CallsOf
  /\ UNCHANGED <<pc, loc>> => CallsOf' = CallsOf
<1>1. claim' = claim => SessionOf' = SessionOf
  BY DEF SessionOf
<1>2. dev' = dev => ReaderOf' = ReaderOf
  BY DEF ReaderOf
<1>3. UNCHANGED <<stop, op, puser>> /\ (\A p \in Pumps : Finished(p)' <=> Finished(p))
        => OpsOf' = OpsOf
  BY DEF OpsOf, OpState
<1>4. UNCHANGED pst => \A p \in Pumps : Finished(p)' <=> Finished(p)
  BY DEF Finished
<1>5. (\A t \in Tasks : loc'[t].who = loc[t].who /\ MethodOf(pc[t])' = MethodOf(pc[t]))
        => CallsOf' = CallsOf
  BY DEF CallsOf
<1>6. UNCHANGED <<pc, loc>> => CallsOf' = CallsOf
  BY DEF CallsOf, MethodOf
<1> QED
  BY <1>1, <1>2, <1>3, <1>4, <1>5, <1>6

\* A handler that returns answers its call, and no other's.
LEMMA CallAnswered ==
  ASSUME NEW t \in Tasks, pc'[t] = "idle", loc'[t] = NoLocals,
         \A s \in Tasks \ {t} : pc'[s] = pc[s] /\ loc'[s] = loc[s]
  PROVE  Service!Answer(t)
<1>1. CallsOf'[t] = Service!NoCall
  BY DEF CallsOf, MethodOf, NoLocals, Service!NoCall
<1>2. \A s \in Tasks \ {t} : CallsOf'[s] = CallsOf[s]
  BY DEF CallsOf, MethodOf
<1>3. CallsOf' = [CallsOf EXCEPT ![t] = Service!NoCall]
  BY <1>1, <1>2 DEF CallsOf
<1> QED
  BY <1>3 DEF Service!Answer

(* While a client that holds the session has a call in flight, nobody but  *)
(* that call opens or closes the reader.                                   *)
LEMMA HolderAlone ==
  ASSUME Typed, Roles, NEW t \in Tasks, pc[t] # "idle",
         claim # None, claim.sender = loc[t].who, NEW a \in Agents, pc[a] \in Opening \cup Ending
  PROVE  a = t
<1>1. claim.sender = loc[a].who
  BY OneMover
<1>2. loc[t].who \in present
  BY DEF Roles, Places
<1>3. CASE a \in Tasks
  BY <1>1, <1>3 DEF Roles, OneCall, Opening, Ending
<1>4. CASE a \in Watchers
  BY <1>1, <1>2, <1>4, EndingWatcher DEF Roles, Places, Opening, Ending
<1> QED
  BY <1>3, <1>4 DEF Agents

-----------------------------------------------------------------------------
(* The two facts the mapping adds to SessionInv.                           *)

\* Every step keeps them.
LEMMA ServiceKept ==
  ASSUME SessionInv, SessionInv', AtRest, StopsHeld, [Next]_vars
  PROVE  AtRest' /\ StopsHeld'
<1>1. Typed /\ Roles /\ Typed' /\ Roles'
  BY DEF SessionInv, DeviceInv
<1>2. ASSUME NEW t \in Tasks, NEW c \in Clients,
             CallClaim(t, c) \/ CallDeleteUnclaimed(t, c) \/ CallClaimed(t, c)
      PROVE  AtRest' /\ StopsHeld'
  <2>1. PICK at \in ClaimedMethods \cup {"cl_auth"}, u \in Users \cup {None} :
          /\ Dispatch(t, c, at, u)
          /\ at \in Stopping => claim # None /\ claim.sender = c
    BY <1>1, <1>2, AgentTypes DEF CallClaim, CallDeleteUnclaimed, CallClaimed, ClaimedMethods, Stopping
  <2>2. /\ pc'[t] = at /\ at # "idle" /\ loc'[t].who = c /\ claim' = claim
        /\ \A b \in Agents \ {t} : pc'[b] = pc[b] /\ loc'[b] = loc[b]
    BY <1>1, <2>1, AgentTypes DEF Dispatch, NoLocals, ClaimedMethods
  <2> QED
    BY <1>1, <2>1, <2>2, AgentTypes DEF AtRest, StopsHeld
<1>3. ASSUME NEW a \in Agents, NEW w \in Watchers \cup {None}, AbortAndReturn(w, a),
             pc[a] \in {"cl_store", "cl_wait", "td_wait"},
             claim' = claim \/ claim = None \/ claim.sender = loc[a].who
      PROVE  AtRest' /\ StopsHeld'
  <2>1. \A t \in Tasks : \/ pc'[t] = "idle" /\ loc'[t] = NoLocals
                         \/ t # a /\ pc'[t] = pc[t] /\ loc'[t] = loc[t]
    BY <1>1, <1>3, AgentTypes DEF AbortAndReturn
  <2>2. ASSUME NEW t \in Tasks, pc'[t] \in Stopping
        PROVE  claim' # None /\ claim'.sender = loc'[t].who
    <3>1. t # a /\ pc'[t] = pc[t] /\ loc'[t] = loc[t] /\ pc[t] \in Stopping
      BY <2>1, <2>2 DEF Stopping
    <3>2. claim # None /\ claim.sender = loc[t].who /\ pc[t] # "idle"
      BY <3>1 DEF StopsHeld, Stopping
    <3>3. pc[a] \in {"cl_wait", "td_wait"} => pc[a] \in Opening \cup Ending
      BY DEF Opening, Ending
    <3>4. pc[a] = "cl_store" => a \in Tasks
      BY <1>1 DEF Roles, Places, Ending, Agents
    <3>5. claim.sender # loc[a].who
      BY <1>1, <1>3, <3>1, <3>2, <3>3, <3>4, HolderAlone DEF Roles, OneCall
    <3> QED
      BY <1>3, <3>1, <3>2, <3>5
  <2> QED
    BY <2>1, <2>2 DEF AtRest, StopsHeld, NoLocals
<1>4. ASSUME NEW t \in Tasks, Handler(t)
      PROVE  AtRest' /\ StopsHeld'
  <2>1. CASE RefuseClaim(t)
    BY <1>1, <1>3, <2>1, AgentTypes DEF RefuseClaim, Typed, Locals
  <2>2. CASE ClaimOpened(t)
    BY <1>1, <1>3, <2>2, AgentTypes DEF ClaimOpened
  <2>3. CASE ClaimFailed(t)
    <3>1. claim.sender = loc[t].who /\ SessionWatcher \in Watchers
      BY <1>1, <2>3, EndsAlone, AgentTypes DEF ClaimFailed
    <3> QED
      BY <1>1, <1>3, <2>3, <3>1, AgentTypes DEF ClaimFailed
  <2>4. CASE SpawnWatcher(t)
    <3>1. \A s \in Tasks : \/ pc'[s] = pc[s] /\ loc'[s].who = loc[s].who
                           \/ pc'[s] = "idle" /\ loc'[s] = NoLocals
                           \/ pc'[s] = "cl_store"
      BY <1>1, <2>4, AgentTypes DEF SpawnWatcher, Return
    <3> QED
      BY <2>4, <3>1 DEF SpawnWatcher, AtRest, StopsHeld, Stopping, NoLocals
  <2>5. CASE \/ AuthorizeClaim(t) \/ RefuseStart(t) \/ FindPrint(t) \/ BeginOp(t)
             \/ StopActive(t) \/ DeleteRecords(t)
    <3>1. \A s \in Tasks : \/ pc'[s] = pc[s] /\ loc'[s].who = loc[s].who
                           \/ pc'[s] = "idle" /\ loc'[s] = NoLocals
                           \/ pc'[s] \in {"cl_watch", "vs_begin"}
      BY <1>1, <2>5, AgentTypes
      DEF AuthorizeClaim, RefuseStart, FindPrint, BeginOp, StopActive, DeleteRecords, Goto, Return
    <3>2. claim' = claim
      BY <2>5 DEF AuthorizeClaim, RefuseStart, FindPrint, BeginOp, StopActive, DeleteRecords
    <3> QED
      BY <3>1, <3>2 DEF AtRest, StopsHeld, Stopping, NoLocals
  <2>6. CASE StoreClaim(t) \/ SendOpen(t)
    <3>1. /\ \A s \in Tasks : loc'[s] = loc[s] /\ (pc'[s] = pc[s] \/ pc'[s] \in Opening)
          /\ claim' = claim \/ claim = None
      BY <1>1, <2>6, AgentTypes DEF StoreClaim, SendOpen, Goto, Opening
    <3> QED
      BY <3>1 DEF AtRest, StopsHeld, Stopping, Opening
  <2> QED
    BY <1>4, <2>1, <2>2, <2>3, <2>4, <2>5, <2>6 DEF Handler
<1>5. ASSUME NEW a \in Agents, Teardown(a)
      PROVE  AtRest' /\ StopsHeld'
  <2>1. CASE ClearClaim(a)
    <3>1. claim.sender = loc[a].who /\ SessionWatcher \in Watchers
      BY <1>1, <2>1, EndsAlone DEF ClearClaim
    <3> QED
      BY <1>3, <2>1, <3>1 DEF ClearClaim
  <2>2. CASE TakeActive(a) \/ SendClose(a)
    <3>1. /\ \A s \in Tasks : loc'[s] = loc[s] /\ (pc'[s] = pc[s] \/ pc'[s] \in Ending)
          /\ claim' = claim
      BY <1>1, <2>2, AgentTypes DEF TakeActive, SendClose, Goto, Ending
    <3> QED
      BY <3>1 DEF AtRest, StopsHeld, Stopping, Ending
  <2> QED
    BY <1>5, <2>1, <2>2 DEF Teardown
<1>6. ASSUME NEW w \in Watchers, Watcher(w)
      PROVE  AtRest' /\ StopsHeld'
  <2>1. NameVanished(w)
    BY <1>1, <1>6 DEF Watcher, AbortLands, Roles, Watched
  <2>2. \A s \in Tasks : pc'[s] = pc[s] /\ loc'[s] = loc[s]
    BY <1>1, <2>1, AgentTypes DEF NameVanished, Goto
  <2> QED
    BY <2>1, <2>2 DEF NameVanished, AtRest, StopsHeld
<1>7. CASE RolesLeftAlone \/ \E c \in Clients : Vanish(c)
  BY <1>7 DEF RolesLeftAlone, Vanish, AtRest, StopsHeld
<1> QED
  BY <1>2, <1>4, <1>5, <1>6, <1>7, OthersLeaveRolesAlone DEF Next

-----------------------------------------------------------------------------
(* The mapping, step by step.                                              *)

\* A call arrives.
LEMMA CallServed ==
  ASSUME ServiceInv, NEW t \in Tasks, NEW c \in Clients, Polite,
         CallClaim(t, c) \/ CallDeleteUnclaimed(t, c) \/ CallClaimed(t, c)
  PROVE  Service!Call(t, c)
<1>1. SessionInv /\ Typed /\ AtRest
  BY ServiceTypes DEF ServiceInv
<1>2. PICK at \in ClaimedMethods \cup {"cl_auth"}, u \in Users \cup {None} :
        /\ Dispatch(t, c, at, u)
        /\ at \notin {"cl_auth", "del_auth"} => claim # None /\ claim.sender = c
  BY <1>1, AgentTypes DEF CallClaim, CallDeleteUnclaimed, CallClaimed, ClaimedMethods
<1>3. /\ pc[t] = "idle" /\ c \in present /\ ~Busy(c)
      /\ pc'[t] = at /\ loc'[t].who = c
      /\ \A s \in Tasks \ {t} : pc'[s] = pc[s] /\ loc'[s] = loc[s]
      /\ UNCHANGED <<claim, dev, pst, stop, op, puser, finger, enrolled, present>>
  BY <1>1, <1>2, AgentTypes DEF Dispatch, NoLocals, actorVars, pumpVars, Polite
<1>4. CallsOf[t] = Service!NoCall
  BY <1>1, <1>3 DEF CallsOf, MethodOf, Service!NoCall, AtRest
<1>5. \A s \in Tasks : CallsOf[s].client # c
  <2>1. \A s \in Tasks : loc[s].who # c
    BY <1>1, <1>3, AgentTypes DEF Busy, AtRest
  <2> QED
    BY <2>1, ServiceTerms
<1>6. /\ MethodOf(at) \in Service!MethodNames
      /\ MethodOf(at) \notin {"Claim", "Delete"} => at \notin {"cl_auth", "del_auth"}
  BY DEF MethodOf, ClaimedMethods, Service!MethodNames
<1>7. MethodOf(at) \in IF Service!Owner(c) THEN Service!MethodNames ELSE {"Claim", "Delete"}
  <2>1. MethodOf(at) \notin {"Claim", "Delete"} => Service!Owner(c)
    BY <1>1, <1>2, <1>6, SessionShown, ServiceTerms
  <2> QED
    BY <1>6, <2>1
<1>8. CallsOf' = [CallsOf EXCEPT ![t] = [client |-> c, method |-> MethodOf(at)]]
  BY <1>3 DEF CallsOf, MethodOf
<1>9. UNCHANGED <<SessionOf, ReaderOf, OpsOf, finger, enrolled, present>>
  BY <1>3, Unseen
<1> QED
  BY <1>3, <1>4, <1>5, <1>7, <1>8, <1>9 DEF Service!Call

\* A call that returns with no more than its answer.
LEMMA ReturnServed ==
  ASSUME SessionInv, NEW t \in Tasks, pc[t] # "idle", pc[t] \notin Ending,
         pc'[t] = "idle", loc'[t] = NoLocals,
         \A s \in Tasks \ {t} : pc'[s] = pc[s] /\ loc'[s] = loc[s],
         UNCHANGED <<claim, dev, pst, stop, op, puser, finger, enrolled, present>>,
         pc[t] \in Opening => dev = "open",
         pc[t] \in Stopping => \A p \in Pumps : ~Finished(p) /\ p \notin stop => op[p] # OpOf(pc[t])
  PROVE  Service!Return(t)
<1>1. Typed /\ Roles
  BY ServiceTypes
<1>2. loc[t].who # None /\ loc[t].who \in Clients
  BY <1>1, ServiceTypes, AgentTypes
<1>3. CallsOf[t] # Service!NoCall
  BY <1>2, ServiceTerms DEF Service!NoCall
<1>4. ~Service!Asked(t, "Release")
  BY <1>1, AgentTypes, ServiceTerms DEF MethodOf, Ending
<1>5. Service!OwnerAsked(t, "Claim") => ReaderOf = "open"
  <2>1. SUFFICES ASSUME claim # None, claim.sender = loc[t].who, pc[t] \notin Opening
                 PROVE  dev = "open"
    BY ServiceTerms, SessionShown DEF Service!OwnerAsked
  <2>2. \A a \in Agents : pc[a] \notin Opening \cup Ending
    BY <1>1, <2>1, HolderAlone
  <2> QED
    BY <2>1, <2>2 DEF SessionInv, Reader, Ending, Opening
<1>6. CallsOf[t].method \in {"VerifyStop", "EnrollStop"} =>
        \A p \in Pumps : Service!Serving(p) => OpsOf[p].kind # Service!KindOf(CallsOf[t].method)
  <2>1. MethodOf(pc[t]) \in {"VerifyStop", "EnrollStop"} =>
          pc[t] \in Stopping /\ Service!KindOf(MethodOf(pc[t])) = OpOf(pc[t])
    BY DEF MethodOf, Stopping, OpOf, Service!KindOf
  <2> QED
    BY <2>1, ServiceTerms
<1>7. UNCHANGED <<SessionOf, ReaderOf, OpsOf, finger, enrolled, present>>
  BY Unseen
<1> QED
  BY <1>3, <1>4, <1>5, <1>6, <1>7, CallAnswered DEF Service!Return

\* Whoever ends a session ends it for its client, the reader shut and nothing served.
LEMMA EndServed ==
  ASSUME ServiceInv, NEW a \in Agents, pc[a] \in {"cl_wait", "td_wait"}, dev # "open",
         claim' = None, AbortAndReturn(SessionWatcher, a),
         UNCHANGED <<pst, stop, op, puser, finger, enrolled, present>>
  PROVE  Service!Next
<1>1. SessionInv /\ Typed /\ Roles /\ dev' = dev
  BY ServiceTypes DEF ServiceInv, AbortAndReturn, EndCalls
<1>2. /\ claim # None /\ claim.sender = loc[a].who /\ SessionWatcher \in Watchers
      /\ a \in Watchers => a = SessionWatcher
  BY <1>1, EndsAlone
<1>3. Service!NobodyServed /\ ReaderOf = "shut"
  BY <1>1, ServiceTerms, SessionShown DEF SessionInv, Quiet, Opening
<1>4. SessionOf' = None
  BY DEF SessionOf
<1>5. UNCHANGED <<ReaderOf, OpsOf, finger, enrolled, present>>
  BY <1>1, Unseen
<1>6. CASE a \in Tasks
  <2>1. pc'[a] = "idle" /\ loc'[a] = NoLocals
        /\ \A s \in Tasks \ {a} : pc'[s] = pc[s] /\ loc'[s] = loc[s]
    BY <1>1, <1>2, AgentTypes DEF AbortAndReturn
  <2>2. Service!OwnerAsked(a, "Release") \/ Service!OwnerAsked(a, "Claim")
    BY <1>1, <1>2, <1>6, ServiceTerms, SessionShown DEF Service!OwnerAsked, MethodOf
  <2> QED
    BY <1>3, <1>4, <1>5, <1>6, <2>1, <2>2, CallAnswered DEF Service!End, Service!Next
<1>7. CASE a \in Watchers
  <2>1. claim.sender \notin present
    BY <1>1, <1>7, EndingWatcher DEF Roles, Places, Ending
  <2>2. Service!OwnerLeft
    BY <1>1, <1>2, <2>1, ServiceTerms, SessionShown
  <2>3. \A s \in Tasks : pc'[s] = pc[s] /\ loc'[s] = loc[s]
    BY <1>1, <1>2, <1>7, AgentTypes DEF AbortAndReturn
  <2>4. CallsOf' = CallsOf
    BY <2>3 DEF CallsOf, MethodOf
  <2> QED
    BY <1>3, <1>4, <1>5, <2>2, <2>4 DEF Service!EndForGone, Service!Next
<1> QED
  BY <1>6, <1>7 DEF Agents


\* What is served is the operation in the slot.
LEMMA ServedIsActive ==
  ASSUME SessionInv, NEW p \in Pumps, ~Finished(p), p \notin stop
  PROVE  active = p
  BY DEF SessionInv, DeviceInv, NoOrphanPump

\* The steps of method handlers.
LEMMA HandlerServed ==
  ASSUME ServiceInv, NEW t \in Tasks, Handler(t)
  PROVE  [Service!Next]_(Service!vars)
<1>1. SessionInv /\ Typed /\ Roles /\ t \in Agents
  BY ServiceTypes, AgentTypes DEF ServiceInv
<1>2. Service!Return(t) \/ Service!Begin(t) \/ Service!Delete(t) => Service!Next
  BY DEF Service!Next
<1>3. CASE AuthorizeClaim(t) \/ SpawnWatcher(t)
  <2>1. UNCHANGED <<claim, dev, pst, stop, op, puser, finger, enrolled, present>>
    BY <1>3 DEF AuthorizeClaim, SpawnWatcher, actorVars, pumpVars
  <2>2. pc[t] \in {"cl_auth", "cl_watch"}
    BY <1>3 DEF AuthorizeClaim, SpawnWatcher
  <2>3. CASE Return(t)
    <3>1. pc'[t] = "idle" /\ loc'[t] = NoLocals
          /\ \A s \in Tasks \ {t} : pc'[s] = pc[s] /\ loc'[s] = loc[s]
      BY <1>1, <2>3, AgentTypes DEF Return
    <3> QED
      BY <1>1, <1>2, <2>1, <2>2, <3>1, ReturnServed DEF Opening, Ending, Stopping
  <2>4. CASE ~Return(t)
    <3>1. \A s \in Tasks : loc'[s].who = loc[s].who
      BY <1>1, <1>3, <2>4, AgentTypes DEF AuthorizeClaim, SpawnWatcher
    <3>2. \A s \in Tasks : \/ pc'[s] = pc[s]
                           \/ s = t /\ pc'[s] \in {"cl_watch", "cl_store"}
      BY <1>1, <1>3, <2>4, AgentTypes DEF AuthorizeClaim, SpawnWatcher
    <3>3. \A s \in Tasks : MethodOf(pc[s])' = MethodOf(pc[s])
      BY <2>2, <3>2 DEF MethodOf
    <3> QED
      BY <2>1, <3>1, <3>3, Unseen DEF Service!vars
  <2> QED
    BY <2>3, <2>4
<1>4. CASE StoreClaim(t)
  <2>1. /\ pc[t] = "cl_store" /\ claim = None /\ claim' = NewSession(t)
        /\ loc[t].who \in Clients /\ loc[t].user \in Users /\ loc[t].watcher \in Watchers
        /\ loc' = loc /\ pc'[t] = "cl_open" /\ \A s \in Tasks \ {t} : pc'[s] = pc[s]
        /\ UNCHANGED <<dev, pst, stop, op, puser, finger, enrolled, present>>
    BY <1>1, <1>4, AgentTypes DEF StoreClaim, Goto, actorVars, pumpVars, Typed, Locals
  <2>2. SessionOf = None /\ Service!Asked(t, "Claim") /\ ReaderOf = "shut"
    BY <1>1, <2>1, ServiceTerms, SessionShown DEF MethodOf, SessionInv, Reader
  <2>3. Service!NobodyServed
    BY <1>1, <2>1, ServiceTerms DEF SessionInv, LiveOpHasSession
  <2>4. SessionOf' = [client |-> loc[t].who, user |-> loc[t].user]
    <3>1. NewSession(t) # None
      BY <2>1, DeviceAssumption DEF NewSession
    <3> QED
      BY <2>1, <3>1 DEF SessionOf, NewSession
  <2>5. CallsOf' = CallsOf
    <3>1. \A s \in Tasks : MethodOf(pc[s])' = MethodOf(pc[s])
      BY <2>1 DEF MethodOf
    <3> QED
      BY <2>1, <3>1, Unseen
  <2> QED
    BY <1>2, <2>1, <2>2, <2>3, <2>4, <2>5, Unseen, ServiceTerms DEF Service!Begin
<1>5. CASE RefuseClaim(t) \/ ClaimOpened(t)
  <2>1. PICK w \in Watchers \cup {None} : AbortAndReturn(w, t)
    BY <1>1, <1>5, AgentTypes DEF RefuseClaim, ClaimOpened, Typed, Locals
  <2>2. pc'[t] = "idle" /\ loc'[t] = NoLocals /\ dev' = dev
        /\ \A s \in Tasks \ {t} : pc'[s] = pc[s] /\ loc'[s] = loc[s]
    BY <1>1, <2>1, AgentTypes DEF AbortAndReturn, EndCalls
  <2>3. pc[t] \in {"cl_store", "cl_wait"} /\ UNCHANGED <<claim, pst, stop, op, puser, finger, enrolled, present>>
    BY <1>5 DEF RefuseClaim, ClaimOpened, pumpVars
  <2>4. pc[t] = "cl_wait" => dev = "open"
    BY <1>1, <1>5 DEF RefuseClaim, ClaimOpened, SessionInv, Reader
  <2> QED
    BY <1>1, <1>2, <2>2, <2>3, <2>4, ReturnServed DEF Opening, Ending, Stopping
<1>6. CASE SendOpen(t)
  <2>1. /\ UNCHANGED <<claim, dev, pst, stop, op, puser, finger, enrolled, present, loc>>
        /\ pc[t] = "cl_open" /\ pc'[t] = "cl_wait" /\ \A s \in Tasks \ {t} : pc'[s] = pc[s]
    BY <1>1, <1>6, AgentTypes DEF SendOpen, Submit, Goto, pumpVars
  <2>2. \A s \in Tasks : MethodOf(pc[s])' = MethodOf(pc[s])
    BY <2>1 DEF MethodOf
  <2> QED
    BY <2>1, <2>2, Unseen DEF Service!vars
<1>7. CASE ClaimFailed(t)
  <2>1. dev # "open" /\ pc[t] = "cl_wait"
    BY <1>1, <1>7 DEF ClaimFailed, SessionInv, Reader
  <2> QED
    BY <1>1, <1>7, <2>1, EndServed DEF ClaimFailed, pumpVars
<1>8. CASE RefuseStart(t)
  <2>1. pc'[t] = "idle" /\ loc'[t] = NoLocals
        /\ \A s \in Tasks \ {t} : pc'[s] = pc[s] /\ loc'[s] = loc[s]
    BY <1>1, <1>8, AgentTypes DEF RefuseStart, Return
  <2>2. /\ pc[t] \in Starting
        /\ UNCHANGED <<claim, dev, pst, stop, op, puser, finger, enrolled, present>>
    BY <1>8 DEF RefuseStart, Starting, actorVars, pumpVars
  <2> QED
    BY <1>1, <1>2, <2>1, <2>2, ReturnServed DEF Starting, Opening, Ending, Stopping
<1>9. CASE DeleteRecords(t)
  <2>1. pc'[t] = "idle" /\ loc'[t] = NoLocals
        /\ \A s \in Tasks \ {t} : pc'[s] = pc[s] /\ loc'[s] = loc[s]
    BY <1>1, <1>9, AgentTypes DEF DeleteRecords, Return
  <2>2. /\ pc[t] = "del_auth"
        /\ UNCHANGED <<claim, dev, pst, stop, op, puser, finger, present>>
    BY <1>9 DEF DeleteRecords, actorVars
  <2>3. CASE enrolled' = enrolled
    BY <1>1, <1>2, <2>1, <2>2, <2>3, ReturnServed DEF Opening, Ending, Stopping
  <2>4. CASE enrolled' = enrolled \ {loc[t].user} /\ enrolled' # enrolled
    <3>1. loc[t].user \in Users
      BY <1>1, <2>4, ServiceTypes
    <3>2. Service!Asked(t, "Delete")
      BY <2>2, ServiceTerms DEF MethodOf
    <3> QED
      BY <1>2, <2>1, <2>2, <2>4, <3>1, <3>2, CallAnswered, Unseen DEF Service!Delete
  <2> QED
    BY <1>9, <2>3, <2>4 DEF DeleteRecords
<1>10. CASE BeginOp(t)
  <2>1. pc'[t] = "idle" /\ loc'[t] = NoLocals
        /\ \A s \in Tasks \ {t} : pc'[s] = pc[s] /\ loc'[s] = loc[s]
    BY <1>1, <1>10, AgentTypes DEF BeginOp, Return
  <2>2. PICK p \in Pumps : /\ FreePump(p)
                           /\ pst' = [pst EXCEPT ![p] = "send"]
                           /\ op' = [op EXCEPT ![p] = OpOf(pc[t])]
                           /\ puser' = [puser EXCEPT ![p] = loc[t].user]
                           /\ stop' = stop \ {p}
    BY <1>10 DEF BeginOp
  <2>3. /\ pc[t] \in {"vs_begin", "es_auth"} /\ pc[t] \in Starting
        /\ UNCHANGED <<claim, dev, finger, enrolled, present>>
    BY <1>10 DEF BeginOp, Starting, actorVars
  <2>4. claim # None /\ claim.sender = loc[t].who /\ claim.user = loc[t].user
    BY <1>1, <2>3 DEF Roles, Holding
  <2>5. dev = "open"
    BY <1>1, <2>3, <2>4, StartsAlone DEF SessionInv, Reader, Ending
  <2>6. Service!NobodyServed
    <3>1. \A q \in Pumps : ~Finished(q) => q \in stop
      BY <1>1, <1>10, ServedIsActive, ServiceTypes DEF BeginOp, SlotFree
    <3> QED
      BY <3>1, ServiceTerms
  <2>7. /\ Service!KindOf(MethodOf(pc[t])) = OpOf(pc[t])
        /\ MethodOf(pc[t]) \in {"VerifyBegin", "EnrollStart"}
    BY <2>3 DEF MethodOf, OpOf, Service!KindOf
  <2>8. OpsOf' = [OpsOf EXCEPT ![p] = [state |-> "serving",
                                       kind |-> Service!KindOf(CallsOf[t].method),
                                       user |-> SessionOf.user]]
    <3>1. OpsOf'[p] = [state |-> "serving", kind |-> OpOf(pc[t]), user |-> claim.user]
      BY <1>1, <2>2, <2>4, ServiceTypes DEF OpsOf, OpState, Finished
    <3>2. \A q \in Pumps \ {p} : OpsOf'[q] = OpsOf[q]
      BY <1>1, <2>2, ServiceTypes DEF OpsOf, OpState, Finished
    <3>3. OpsOf' = [OpsOf EXCEPT ![p] = [state |-> "serving", kind |-> OpOf(pc[t]), user |-> claim.user]]
      BY <3>1, <3>2 DEF OpsOf
    <3> QED
      BY <1>1, <2>4, <2>7, <3>3, ServiceTerms, SessionShown
  <2>9. Service!Start(t, p)
    <3>1. Service!OwnerAsked(t, "VerifyBegin") \/ Service!OwnerAsked(t, "EnrollStart")
      BY <1>1, <2>4, <2>7, ServiceTerms, SessionShown DEF Service!OwnerAsked
    <3>2. ReaderOf = "open" /\ ~Service!InProgress(p)
      BY <1>1, <2>2, <2>5, ServiceTerms, SessionShown DEF FreePump
    <3> QED
      BY <2>1, <2>3, <2>6, <2>8, <3>1, <3>2, CallAnswered, Unseen DEF Service!Start
  <2> QED
    BY <2>9 DEF Service!Next
<1>11. CASE StopActive(t)
  <2>1. pc'[t] = "idle" /\ loc'[t] = NoLocals
        /\ \A s \in Tasks \ {t} : pc'[s] = pc[s] /\ loc'[s] = loc[s]
    BY <1>1, <1>11, AgentTypes DEF StopActive, Return
  <2>2. /\ pc[t] \in Stopping
        /\ UNCHANGED <<claim, dev, pst, op, puser, finger, enrolled, present>>
    BY <1>11 DEF StopActive, Stopping, actorVars
  <2>3. claim # None /\ claim.sender = loc[t].who
    BY <2>2 DEF ServiceInv, StopsHeld
  <2>4. CASE stop' = stop /\ \A p \in Pumps : ~Finished(p) /\ p \notin stop => op[p] # OpOf(pc[t])
    BY <1>1, <1>2, <2>1, <2>2, <2>4, ReturnServed DEF Opening, Ending, Stopping
  <2>5. CASE \E p \in Pumps : ~Finished(p) /\ p \notin stop /\ op[p] = OpOf(pc[t]) /\ stop' = stop \cup {p}
    <3>1. PICK p \in Pumps : ~Finished(p) /\ p \notin stop /\ op[p] = OpOf(pc[t]) /\ stop' = stop \cup {p}
      BY <2>5
    <3>2. OpsOf' = [OpsOf EXCEPT ![p].state = "leaving"]
      <4>1. OpsOf'[p] = [OpsOf[p] EXCEPT !.state = "leaving"]
        BY <2>2, <3>1 DEF OpsOf, OpState, Finished
      <4>2. \A q \in Pumps \ {p} : OpsOf'[q] = OpsOf[q]
        BY <2>2, <3>1 DEF OpsOf, OpState, Finished
      <4> QED
        BY <4>1, <4>2 DEF OpsOf
    <3>3. /\ Service!KindOf(MethodOf(pc[t])) = OpOf(pc[t])
          /\ MethodOf(pc[t]) \in {"VerifyStop", "EnrollStop"}
      BY <2>2 DEF Stopping, MethodOf, OpOf, Service!KindOf
    <3>4. Service!OwnerAsked(t, "VerifyStop") \/ Service!OwnerAsked(t, "EnrollStop")
      BY <1>1, <2>3, <3>3, ServiceTerms, SessionShown DEF Service!OwnerAsked
    <3>5. Service!Serving(p) /\ OpsOf[p].kind = Service!KindOf(CallsOf[t].method)
      BY <3>1, <3>3, ServiceTerms
    <3>6. Service!Stop(t, p)
      BY <2>1, <2>2, <3>2, <3>4, <3>5, CallAnswered, Unseen DEF Service!Stop, Service!Halt
    <3> QED
      BY <3>6 DEF Service!Next
  <2>6. stop' = stop \/ (active \in Pumps /\ ~Finished(active) /\ op[active] = OpOf(pc[t]) /\ stop' = stop \cup {active})
    BY <1>1, <1>11, ServiceTypes DEF StopActive
  <2>7. stop' = stop => \A p \in Pumps : ~Finished(p) /\ p \notin stop => op[p] # OpOf(pc[t])
    BY <1>1, <1>11, ServedIsActive, ServiceTypes DEF StopActive
  <2> QED
    BY <2>4, <2>5, <2>6, <2>7
<1>12. CASE FindPrint(t)
  <2>1. /\ pc[t] = "vs_auth" /\ pc[t] \in Starting /\ loc[t].user \in enrolled
        /\ pc' = [pc EXCEPT ![t] = "vs_begin"] /\ loc' = loc
        /\ UNCHANGED <<claim, dev, pst, stop, op, puser, finger, enrolled, present>>
    BY <1>12 DEF FindPrint, Goto, Starting, actorVars, pumpVars
  <2>2. claim # None /\ claim.sender = loc[t].who /\ claim.user = loc[t].user
    BY <1>1, <2>1 DEF Roles, Holding
  <2>3. Service!OwnerAsked(t, "VerifyStart") /\ SessionOf.user \in enrolled
    BY <1>1, <2>1, <2>2, ServiceTerms, SessionShown DEF Service!OwnerAsked, MethodOf
  <2>4. CallsOf' = [CallsOf EXCEPT ![t].method = "VerifyBegin"]
    <3>1. /\ CallsOf'[t] = [CallsOf[t] EXCEPT !.method = "VerifyBegin"]
          /\ \A s \in Tasks \ {t} : CallsOf'[s] = CallsOf[s]
      BY <1>1, <2>1, AgentTypes DEF CallsOf, MethodOf
    <3> QED
      BY <3>1 DEF CallsOf
  <2> QED
    BY <2>1, <2>3, <2>4, Unseen DEF Service!Find, Service!Next
<1> QED
  BY <1>3, <1>4, <1>5, <1>6, <1>7, <1>8, <1>9, <1>10, <1>11, <1>12 DEF Handler


\* The steps of teardown and of the watchers.
LEMMA TeardownServed ==
  ASSUME ServiceInv, NEW a \in Agents, Teardown(a) \/ (a \in Watchers /\ Watcher(a))
  PROVE  [Service!Next]_(Service!vars)
<1>1. SessionInv /\ Typed /\ Roles
  BY ServiceTypes DEF ServiceInv
<1>2. CASE ClearClaim(a)
  <2>1. dev # "open" /\ pc[a] = "td_wait"
    BY <1>1, <1>2 DEF ClearClaim, SessionInv, Reader
  <2> QED
    BY <1>2, <2>1, EndServed DEF ClearClaim, pumpVars
<1>3. CASE SendClose(a) \/ NameVanished(a)
  <2>1. /\ UNCHANGED <<claim, dev, pst, stop, op, puser, finger, enrolled, present, loc>>
        /\ \A s \in Tasks : pc'[s] = pc[s] \/ (pc[s] \in Ending /\ pc'[s] \in Ending)
    BY <1>1, <1>3, AgentTypes
    DEF SendClose, NameVanished, Submit, Goto, pumpVars, actorVars, Ending, Roles, Places
  <2>2. \A s \in Tasks : MethodOf(pc[s])' = MethodOf(pc[s])
    BY <2>1 DEF MethodOf, Ending
  <2> QED
    BY <2>1, <2>2, Unseen DEF Service!vars
<1>4. CASE TakeActive(a)
  <2>1. /\ pc[a] = "td_take" /\ stop' = stop \cup LiveActive
        /\ UNCHANGED <<claim, dev, pst, op, puser, finger, enrolled, present, loc>>
        /\ \A s \in Tasks : pc'[s] = pc[s] \/ (pc[s] \in Ending /\ pc'[s] \in Ending)
    BY <1>1, <1>4, AgentTypes DEF TakeActive, Goto, actorVars, Ending
  <2>2. CallsOf' = CallsOf
    <3>1. \A s \in Tasks : MethodOf(pc[s])' = MethodOf(pc[s])
      BY <2>1 DEF MethodOf, Ending
    <3> QED
      BY <2>1, <3>1, Unseen
  <2>3. CASE stop' = stop
    BY <2>1, <2>2, <2>3, Unseen DEF Service!vars
  <2>4. CASE stop' # stop
    <3>1. active \in Pumps /\ ~Finished(active) /\ active \notin stop /\ stop' = stop \cup {active}
      BY <2>1, <2>4 DEF LiveActive
    <3>2. claim # None /\ claim.sender = loc[a].who
      BY <1>1, <2>1, OneMover DEF Ending
    <3>3. Service!OwnerLeft \/ \E k \in Tasks : Service!OwnerAsked(k, "Release")
      <4>1. a \in Tasks => Service!OwnerAsked(a, "Release")
        BY <1>1, <2>1, <3>2, ServiceTerms, SessionShown DEF Service!OwnerAsked, MethodOf
      <4>2. a \in Watchers => Service!OwnerLeft
        BY <1>1, <2>1, EndingWatcher, ServiceTerms, SessionShown DEF Ending
      <4> QED
        BY <4>1, <4>2 DEF Agents
    <3>4. OpsOf' = [OpsOf EXCEPT ![active].state = "leaving"]
      <4>1. OpsOf'[active] = [OpsOf[active] EXCEPT !.state = "leaving"]
        BY <2>1, <3>1 DEF OpsOf, OpState, Finished
      <4>2. \A q \in Pumps \ {active} : OpsOf'[q] = OpsOf[q]
        BY <2>1, <3>1 DEF OpsOf, OpState, Finished
      <4> QED
        BY <4>1, <4>2 DEF OpsOf
    <3>5. Service!Serving(active)
      BY <3>1, ServiceTerms
    <3>6. Service!StopForEnd(active)
      BY <2>1, <2>2, <3>3, <3>4, <3>5, Unseen DEF Service!StopForEnd, Service!Halt
    <3> QED
      BY <3>1, <3>6 DEF Service!Next
  <2> QED
    BY <2>3, <2>4
<1>5. CASE AbortLands(a)
  BY <1>1, <1>5 DEF AbortLands, Roles, Watched
<1> QED
  BY <1>2, <1>3, <1>4, <1>5 DEF Teardown, Watcher

\* The steps of the pumps.
LEMMA PumpServed ==
  ASSUME ServiceInv, ServiceInv', NEW p \in Pumps, Pump(p) \/ SensorReports(p)
  PROVE  [Service!Next]_(Service!vars)
<1>1. SessionInv /\ SessionInv'
  BY DEF ServiceInv
<1>2. UNCHANGED <<claim, present, pc, loc>>
  BY OthersLeaveRolesAlone DEF RolesLeftAlone
<1>3. dev' = dev
  BY DEF Pump, PumpSend, PumpReport, PumpStopped, PumpReply, Published, PumpEnd, SensorReports,
         Submit, EndCalls, actorVars
<1>4. UNCHANGED <<SessionOf, ReaderOf, CallsOf, present>>
  BY <1>2, <1>3, Unseen
<1>5. finger' \in {"on", "off"}
  BY <1>1 DEF SessionInv, DeviceInv, Typed, TypeOK
<1>6. CASE PumpSend(p) \/ Published(p) \/ SensorReports(p)
  <2>1. UNCHANGED <<stop, op, puser, finger, enrolled>> /\ \A q \in Pumps : Finished(q)' <=> Finished(q)
    BY <1>1, <1>6, ServiceTypes DEF PumpSend, Published, Publishing, SensorReports, Finished
  <2> QED
    BY <1>4, <2>1, Unseen DEF Service!vars
<1>7. CASE PumpReport(p) \/ PumpStopped(p) \/ PumpReply(p)
  <2>1. /\ UNCHANGED <<stop, op, puser>> /\ ~Finished(p)
        /\ \A q \in Pumps : Finished(q)' <=> Finished(q)
    BY <1>1, <1>7, ServiceTypes DEF PumpReport, PumpStopped, PumpReply, Publish, Finished
  <2>2. Service!InProgress(p) /\ UNCHANGED OpsOf
    BY <2>1, ServiceTerms, Unseen
  <2>3. CASE enrolled' = enrolled
    BY <1>4, <1>5, <2>2, <2>3 DEF Service!Tell, Service!Next
  <2>4. CASE enrolled' # enrolled
    <3>1. PumpReply(p) /\ op[p] = "Enroll" /\ enrolled' = enrolled \cup {puser[p]} /\ finger' = "off"
      BY <1>7, <2>4 DEF PumpReport, PumpStopped, PumpReply, Publish
    <3>2. Service!Save(p)
      BY <1>4, <2>2, <3>1, ServiceTerms DEF Service!Save
    <3> QED
      BY <3>2 DEF Service!Next
  <2> QED
    BY <2>3, <2>4
<1>8. CASE PumpEnd(p)
  <2>1. /\ ~Finished(p) /\ Finished(p)'
        /\ op'[p] = "Verify" /\ puser'[p] = None /\ stop' = stop \ {p}
        /\ \A q \in Pumps \ {p} : pst'[q] = pst[q] /\ op'[q] = op[q] /\ puser'[q] = puser[q]
        /\ UNCHANGED <<finger, enrolled>>
    BY <1>1, <1>8, ServiceTypes DEF PumpEnd, Finished
  <2>2. OpsOf' = [OpsOf EXCEPT ![p] = Service!NoOp]
    <3>1. OpsOf'[p] = Service!NoOp
      BY <2>1 DEF OpsOf, OpState, Service!NoOp
    <3>2. \A q \in Pumps \ {p} : OpsOf'[q] = OpsOf[q]
      BY <2>1 DEF OpsOf, OpState, Finished
    <3> QED
      BY <3>1, <3>2 DEF OpsOf
  <2>3. (\A q \in Pumps \ {p} : ~Service!InProgress(q)) => finger = "off"
    <3>1. SUFFICES ASSUME \A q \in Pumps \ {p} : Finished(q), finger # "off"
                   PROVE  FALSE
      BY ServiceTerms
    <3>2. PICK q \in Pumps : pst[q] \in {"run", "pub_run"}
      BY <1>1, <3>1, ServiceTypes DEF SessionInv, DeviceInv, FingerOwned
    <3> QED
      BY <1>8, <3>1, <3>2 DEF PumpEnd, Finished
  <2>4. Service!Finish(p)
    BY <1>4, <2>1, <2>2, <2>3, ServiceTerms DEF Service!Finish
  <2> QED
    BY <2>4 DEF Service!Next
<1> QED
  BY <1>6, <1>7, <1>8 DEF Pump

\* The steps of the actor: it opens and shuts the reader only for the session.
LEMMA ActorServed ==
  ASSUME ServiceInv, ActorNext, UNCHANGED deviceVars
  PROVE  [Service!Next]_(Service!vars)
<1>1. SessionInv /\ Typed /\ Roles /\ PumpStreams /\ Commands
  BY ServiceTypes DEF ServiceInv, SessionInv, DeviceInv
<1>2. UNCHANGED <<SessionOf, OpsOf, CallsOf, finger, enrolled, present>>
  BY Unseen DEF deviceVars
<1>3. CASE ReaderOf' = ReaderOf
  BY <1>2, <1>3 DEF Service!vars
<1>4. CASE ReaderOf' # ReaderOf
  <2>1. FinishOpen \/ FinishClose
    BY <1>4, Unseen DEF ActorNext, ActorStep, TakePrio, TakeCmd, RefuseCmd, CancelStream, Preempt,
                        FinishUnary, FinishPrio, FinishStream
  <2>2. /\ cur \in Agents
        /\ FinishOpen => pc[cur] = "cl_wait"
        /\ FinishClose => pc[cur] = "td_wait"
    BY <1>1, <2>1, ServedAgent DEF FinishOpen, FinishClose, Serves
  <2>3. claim # None /\ claim.sender = loc[cur].who /\ pc[cur] \in {"cl_wait", "td_wait"}
    BY <1>1, <2>1, <2>2, EndsAlone
  <2>4. Service!NobodyServed
    BY <1>1, <2>2, <2>3, ServiceTerms DEF SessionInv, Quiet, Opening
  <2>5. CASE FinishOpen
    <3>1. cur \in Tasks
      BY <1>1, <2>2, <2>5 DEF Roles, Places, Ending, Agents
    <3>2. Service!OwnerAsked(cur, "Claim")
      BY <1>1, <2>2, <2>3, <2>5, <3>1, ServiceTerms, SessionShown DEF Service!OwnerAsked, MethodOf
    <3>3. dev # "open"
      BY <1>4, <2>5 DEF FinishOpen, ReaderOf
    <3>4. ReaderOf = "shut" /\ ReaderOf' = "open"
      BY <1>4, <3>3 DEF ReaderOf
    <3> QED
      BY <1>2, <2>4, <3>1, <3>2, <3>4 DEF Service!Open, Service!Next
  <2>6. CASE FinishClose
    <3>1. ReaderOf' = "shut"
      BY <2>6 DEF FinishClose, ReaderOf
    <3>2. cur \in Tasks => Service!OwnerAsked(cur, "Release")
      BY <1>1, <2>2, <2>3, <2>6, ServiceTerms, SessionShown DEF Service!OwnerAsked, MethodOf
    <3>3. cur \in Watchers => Service!OwnerLeft
      BY <1>1, <2>2, <2>6, EndingWatcher, ServiceTerms, SessionShown DEF Ending
    <3>4. Service!OwnerLeft \/ \E k \in Tasks : Service!OwnerAsked(k, "Release")
      BY <2>2, <3>2, <3>3 DEF Agents
    <3> QED
      BY <1>2, <2>4, <3>1, <3>4 DEF Service!Shut, Service!Next
  <2> QED
    BY <2>1, <2>5, <2>6
<1> QED
  BY <1>3, <1>4

\* A fresh object is a fresh service.
LEMMA ServiceInitial ==
  ASSUME Init
  PROVE  Service!Init /\ AtRest /\ StopsHeld
<1>1. /\ claim = None /\ dev = "none" /\ finger = "off" /\ enrolled \in SUBSET Users /\ present = Clients
      /\ \A t \in Tasks : pc[t] = "idle" /\ loc[t] = NoLocals
      /\ \A p \in Pumps : Finished(p) /\ op[p] = "Verify" /\ puser[p] = None
  BY DEF Init, ActorInit, Finished, Agents
<1>2. SessionOf = None /\ ReaderOf = "shut"
  BY <1>1 DEF SessionOf, ReaderOf
<1>3. OpsOf = [p \in Pumps |-> Service!NoOp]
  BY <1>1 DEF OpsOf, OpState, Service!NoOp
<1>4. CallsOf = [t \in Tasks |-> Service!NoCall]
  BY <1>1 DEF CallsOf, MethodOf, NoLocals, Service!NoCall
<1> QED
  BY <1>1, <1>2, <1>3, <1>4 DEF Service!Init, AtRest, StopsHeld, Stopping, NoLocals

(* To clients that await their replies, the handlers, watchers, pumps and  *)
(* the actor of one reader together are a ReaderService: sessions, the     *)
(* reader, operations and prints change only as that service allows, for   *)
(* any number of clients, users, calls and pumps.                          *)
THEOREM DeviceServesItsClients == Polite => (Spec => ServesItsClients)
<1> SUFFICES ASSUME Polite
             PROVE  Spec => ServesItsClients
  OBVIOUS
<1>1. Init => Service!Init /\ AtRest /\ StopsHeld
  BY ServiceInitial
<1>2. SessionInv /\ SessionInv' /\ AtRest /\ StopsHeld /\ [Next]_vars => AtRest' /\ StopsHeld'
  BY ServiceKept
<1>3. ASSUME ServiceInv, ServiceInv', [Next]_vars
      PROVE  [Service!Next]_(Service!vars)
  <2>1. ASSUME NEW t \in Tasks, NEW c \in Clients,
               CallClaim(t, c) \/ CallDeleteUnclaimed(t, c) \/ CallClaimed(t, c)
        PROVE  Service!Next
    BY <1>3, <2>1, CallServed DEF Service!Next
  <2>2. ASSUME NEW c \in Clients, Vanish(c)
        PROVE  Service!Next
    <3>1. /\ c \in present /\ ~Busy(c) /\ present' = present \ {c}
          /\ UNCHANGED <<claim, dev, pst, stop, op, puser, finger, enrolled, pc, loc>>
      BY <2>2 DEF Vanish, pumpVars, actorVars, Polite
    <3>2. \A t \in Tasks : CallsOf[t].client # c
      <4>1. c # None
        BY DeviceAssumption
      <4>2. \A t \in Tasks : loc[t].who # c
        BY <1>3, <3>1, <4>1 DEF Busy, ServiceInv, AtRest
      <4> QED
        BY <4>2, ServiceTerms
    <3>3. UNCHANGED <<SessionOf, ReaderOf, OpsOf, finger, enrolled, CallsOf>>
      BY <3>1, Unseen
    <3> QED
      BY <3>1, <3>2, <3>3 DEF Service!Leave, Service!Next
  <2>3. CASE Logind \/ UNCHANGED vars
    <3>1. UNCHANGED <<claim, dev, pst, stop, op, puser, finger, enrolled, present, pc, loc>>
      BY <2>3 DEF Logind, SubmitPrio, CollectPrio, vars, deviceVars, actorVars
    <3> QED
      BY <3>1, Unseen DEF Service!vars
  <2>4. ASSUME NEW a \in Agents, Teardown(a) \/ (a \in Watchers /\ Watcher(a))
        PROVE  [Service!Next]_(Service!vars)
    BY <1>3, <2>4, TeardownServed
  <2>5. Watchers \subseteq Agents
    BY DEF Agents
  <2> QED
    BY <1>3, <2>1, <2>2, <2>3, <2>4, <2>5, HandlerServed, PumpServed, ActorServed DEF Next
<1>4. ServiceInv <=> SessionInv /\ AtRest /\ StopsHeld
  BY DEF ServiceInv
<1>5. SessionInv /\ SessionInv' /\ AtRest /\ StopsHeld /\ AtRest' /\ StopsHeld' /\ [Next]_vars
        => [Service!Next]_(Service!vars)
  BY <1>3 DEF ServiceInv
<1> QED
  BY <1>1, <1>2, <1>5, SessionInvariance, PTL DEF Spec, ServesItsClients, Service!Spec
===============================================================================
