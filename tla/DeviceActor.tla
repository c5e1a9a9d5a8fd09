----------------------------- MODULE DeviceActor -----------------------------
(***************************************************************************)
(* The device actor of fprintd (src/crates/fprintd/src/actor.rs): one      *)
(* thread per reader that owns the reader and serves DeviceCommands from a *)
(* bounded channel, one at a time, and suspend/resume requests from a      *)
(* priority channel that may interrupt a streaming command.                *)
(*                                                                         *)
(* A caller is whoever holds the reply channel of one command: a method    *)
(* handler, a pump or a name watcher of device.rs.  It has at most one     *)
(* command outstanding, so the caller names the command.                   *)
(***************************************************************************)
EXTENDS Naturals, Sequences, FiniteSets

CONSTANTS
  Callers,      \* who sends DeviceCommands
  PrioCallers,  \* who sends PrioCommands (the logind watcher's futures)
  RxCap,        \* capacity of the command channel (16 in the code)
  PrioCap,      \* capacity of the priority channel (4 in the code)
  Used,         \* which commands the callers of ActorSpec send
  Idle          \* "the actor serves nobody"

Streams == {"Verify", "Identify", "Enroll"}
Unary   == {"ListPrints", "DeletePrint", "ClearStorage"}
Kinds   == Streams \cup Unary \cup {"Open", "Close"}

ASSUME ActorAssumption ==
  /\ RxCap \in Nat \ {0}
  /\ PrioCap \in Nat \ {0}
  /\ Callers \cap PrioCallers = {}
  /\ Used \subseteq Kinds
  /\ Idle \notin Callers \cup PrioCallers

VARIABLES
  rx,        \* the command channel: the callers whose commands wait, in order
  prio,      \* the priority channel
  cur,       \* whose command the actor is serving
  dev,       \* run_actor's `dev`: no reader, one that is not open, an open one
  stage,     \* where each caller's command is
  kind,      \* which command it is
  cancelled, \* callers whose command's cancel sender is gone
  deaf,      \* callers whose reply receiver is gone while the command lives
  res,       \* the outcome last sent to each caller
  pstage     \* where each priority caller's suspend or resume is

actorVars == <<rx, prio, cur, dev, stage, kind, cancelled, deaf, res, pstage>>

Stages  == {"free", "queued", "running", "answered"}
Outcomes == {"none", "ok", "retry", "failed", "cancelled", "proto"}

ActorInit ==
  /\ rx = <<>> /\ prio = <<>> /\ cur = Idle
  /\ dev = "none"
  /\ stage = [c \in Callers |-> "free"]
  /\ kind = [c \in Callers |-> "none"]
  /\ cancelled = {} /\ deaf = {}
  /\ res = [c \in Callers |-> "none"]
  /\ pstage = [p \in PrioCallers |-> "free"]

-----------------------------------------------------------------------------
(* What callers do: parts of their own actions, so each one names the      *)
(* variables it determines.                                                *)

Room == Len(rx) < RxCap

\* handle.send(cmd): waits while the channel is full.
Submit(c, k) ==
  /\ stage[c] = "free"
  /\ Room
  /\ rx' = Append(rx, c)
  /\ stage' = [stage EXCEPT ![c] = "queued"]
  /\ kind' = [kind EXCEPT ![c] = k]
  /\ UNCHANGED <<cur, dev, res>>

\* The callers of S are done with their commands: one whose reply is there has
\* read it or throws it away, the reply of another will find nobody.
EndCalls(S) ==
  LET over == {c \in S : stage[c] = "answered"}
      Clear(f, v) == [c \in Callers |-> IF c \in over THEN v ELSE f[c]]
  IN /\ stage' = Clear(stage, "free")
     /\ kind' = Clear(kind, "none")
     /\ res' = Clear(res, "none")
     /\ deaf' = deaf \cup {c \in S : stage[c] \in {"queued", "running"}}
     /\ UNCHANGED <<rx, cur, dev>>

CancelsKept(S) == UNCHANGED cancelled   \* mutant
\* The callers of S drop their cancel senders.
DropCancels(S) ==
  cancelled' = cancelled \cup
    {c \in S : stage[c] \in {"queued", "running"} /\ kind[c] \in Streams}

\* DeviceHandle::suspend / resume.
SubmitPrio(p) ==
  /\ pstage[p] = "free"
  /\ Len(prio) < PrioCap
  /\ prio' = Append(prio, p)
  /\ pstage' = [pstage EXCEPT ![p] = "queued"]
  /\ UNCHANGED <<rx, cur, dev, stage, kind, cancelled, deaf, res>>

CollectPrio(p) ==
  /\ pstage[p] = "answered"
  /\ pstage' = [pstage EXCEPT ![p] = "free"]
  /\ UNCHANGED <<rx, prio, cur, dev, stage, kind, cancelled, deaf, res>>

-----------------------------------------------------------------------------
(* The actor thread.                                                       *)

\* reply.send(r): lost when the caller dropped its receiver.  The command's
\* cancel receiver goes with it.
Answer(c, r) ==
  /\ IF c \in deaf
     THEN /\ stage' = [stage EXCEPT ![c] = "free"]
          /\ kind' = [kind EXCEPT ![c] = "none"]
          /\ UNCHANGED res
     ELSE /\ stage' = [stage EXCEPT ![c] = "answered"]
          /\ res' = [res EXCEPT ![c] = r]
          /\ UNCHANGED kind
  /\ deaf' = deaf \ {c}
  /\ cancelled' = cancelled \ {c}

PrioKept == prio   \* mutant
PrioRest == Tail(prio)

\* The idle select! is biased: a waiting priority command goes first.
TakePrio ==
  /\ cur = Idle /\ prio # <<>>
  /\ cur' = Head(prio)
  /\ prio' = PrioRest
  /\ pstage' = [pstage EXCEPT ![Head(prio)] = "running"]
  /\ UNCHANGED <<rx, dev, stage, kind, cancelled, deaf, res>>

TakeCmd ==
  /\ cur = Idle /\ prio = <<>> /\ rx # <<>>
  /\ cur' = Head(rx)
  /\ rx' = Tail(rx)
  /\ stage' = [stage EXCEPT ![Head(rx)] = "running"]
  /\ UNCHANGED <<prio, dev, kind, cancelled, deaf, res, pstage>>

Serves(ks) == cur \in Callers /\ kind[cur] \in ks

\* `None => Err(ProtoState)`, and the same refusal by a reader that is held
\* but not open.
RefuseCmd ==
  /\ Serves(Streams \cup Unary)
  /\ dev # "open"
  /\ Answer(cur, "proto")
  /\ cur' = Idle
  /\ UNCHANGED <<rx, prio, dev, pstage>>

\* The operation future of a streaming command resolves by itself.
FinishStream ==
  /\ Serves(Streams)
  /\ dev = "open"
  /\ \E r \in {"ok", "retry", "failed"} : Answer(cur, r)
  /\ cur' = Idle
  /\ UNCHANGED <<rx, prio, dev, pstage>>

\* `_ = cancel => Err(Cancelled)`.
CancelStream ==
  /\ Serves(Streams)
  /\ dev # "none"
  /\ cur \in cancelled
  /\ Answer(cur, "cancelled")
  /\ cur' = Idle
  /\ UNCHANGED <<rx, prio, dev, pstage>>

PreemptMissing == FALSE   \* mutant
\* `Some(p) = prio.recv()` inside the operation: the operation is dropped,
\* answered, and the priority command runs next.
Preempt ==
  /\ Serves(Streams)
  /\ dev # "none"
  /\ prio # <<>>
  /\ Answer(cur, "cancelled")
  /\ cur' = Head(prio)
  /\ prio' = PrioRest
  /\ pstage' = [pstage EXCEPT ![Head(prio)] = "running"]
  /\ UNCHANGED <<rx, dev>>

\* open(): acquire the reader if there is none, then open it.
FinishOpen ==
  /\ Serves({"Open"})
  /\ \/ dev = "none" /\ dev' = "none" /\ Answer(cur, "failed")
     \/ dev # "open" /\ dev' = "shut" /\ Answer(cur, "failed")
     \/ dev # "open" /\ dev' = "open" /\ Answer(cur, "ok")
     \/ dev = "open" /\ dev' = "open" /\ Answer(cur, "proto")
  /\ cur' = Idle
  /\ UNCHANGED <<rx, prio, pstage>>

\* dev.take(): the reader is given up whether or not close() succeeds.
FinishClose ==
  /\ Serves({"Close"})
  /\ dev' = "none"
  /\ \/ Answer(cur, "ok")
     \/ dev # "none" /\ Answer(cur, "failed")
  /\ cur' = Idle
  /\ UNCHANGED <<rx, prio, pstage>>

FinishUnary ==
  /\ Serves(Unary)
  /\ dev = "open"
  /\ \E r \in {"ok", "failed"} : Answer(cur, r)
  /\ cur' = Idle
  /\ UNCHANGED <<rx, prio, dev, pstage>>

\* handle_prio: told to suspend or to resume, the reader leaves the actor as it was.
FinishPrio ==
  /\ cur \in PrioCallers
  /\ pstage' = [pstage EXCEPT ![cur] = "answered"]
  /\ cur' = Idle
  /\ UNCHANGED <<rx, prio, dev, stage, kind, cancelled, deaf, res>>

\* What the actor does whether or not a finger comes.
ActorStep ==
  \/ TakePrio \/ TakeCmd
  \/ RefuseCmd \/ CancelStream \/ Preempt
  \/ FinishOpen \/ FinishClose \/ FinishUnary \/ FinishPrio

ActorNext == ActorStep \/ FinishStream

-----------------------------------------------------------------------------
(* The actor by itself, against every use of its handle that the types     *)
(* allow: a caller sends its next command after the reply to the last one, *)
(* and may drop the cancel sender or the reply receiver at any time.       *)
(* Every step of device.rs on its handle is one of these.                  *)

Send(c) ==
  /\ \E k \in Used : Submit(c, k)
  /\ UNCHANGED <<prio, cancelled, deaf, pstage>>

\* The callers of S read or throw away their replies, those of D drop their
\* cancel senders.
LetGo(S, D) ==
  /\ EndCalls(S) /\ DropCancels(D)
  /\ UNCHANGED <<prio, pstage>>

Environment ==
  \/ \E c \in Callers : Send(c)
  \/ \E S, D \in SUBSET Callers : LetGo(S, D)
  \/ \E p \in PrioCallers : CollectPrio(p) \/ SubmitPrio(p)

ActorAndEnvironment == ActorNext \/ Environment

ActorSpec == ActorInit /\ [][ActorAndEnvironment]_actorVars

\* The thread keeps running and calls into the reader return, except that a
\* streaming operation may wait for a finger for ever.
ActorFairSpec == ActorSpec /\ WF_actorVars(ActorStep)

-----------------------------------------------------------------------------
ActorTypeOK ==
  /\ rx \in Seq(Callers) /\ Len(rx) <= RxCap
  /\ prio \in Seq(PrioCallers) /\ Len(prio) <= PrioCap
  /\ cur \in Callers \cup PrioCallers \cup {Idle}
  /\ dev \in {"none", "shut", "open"}
  /\ stage \in [Callers -> Stages]
  /\ kind \in [Callers -> Kinds \cup {"none"}]
  /\ cancelled \subseteq Callers /\ deaf \subseteq Callers
  /\ res \in [Callers -> Outcomes]
  /\ pstage \in [PrioCallers -> Stages]

\* A queue holds exactly the waiting commands, each of them once.
Holds(queue, where) ==
  /\ \A i \in 1..Len(queue) : where[queue[i]] = "queued"
  /\ \A c \in DOMAIN where :
       where[c] = "queued" => \E i \in 1..Len(queue) : queue[i] = c
  /\ \A i, j \in 1..Len(queue) : queue[i] = queue[j] => i = j

(* Every command sent is in exactly one place until it is answered: it     *)
(* waits once in its channel or the actor is serving it, and nothing else  *)
(* is ever served.  This is "a preempt can neither be lost nor linger" of  *)
(* actor.rs together with the reply discipline of command.rs: no command   *)
(* is dropped by a cancelled select!, served twice or left unanswered.     *)
ExactlyOnce ==
  /\ Holds(rx, stage) /\ Holds(prio, pstage)
  /\ \A c \in Callers : stage[c] = "running" <=> cur = c
  /\ \A p \in PrioCallers : pstage[p] = "running" <=> cur = p
  /\ \A c \in deaf \cup cancelled : stage[c] \in {"queued", "running"}

(* A suspend or resume is always answered, though an operation that only a *)
(* finger can end may hold the reader when it arrives.                     *)
PrioAnswered ==
  \A p \in PrioCallers : (pstage[p] = "queued") ~> (pstage[p] = "answered")
==============================================================================
