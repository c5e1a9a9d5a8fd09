--------------------------- MODULE LibfprintShim ---------------------------
(***************************************************************************)
(* The libfprint backend's reader                                          *)
(* (src/crates/fprint-backend-libfprint/src/device.rs, worker.rs,          *)
(* progress.rs): a handle on the caller's side and, behind a channel of    *)
(* jobs, a worker thread that owns the libfprint objects and makes one     *)
(* blocking call at a time.  Each job carries a cancellable that is fired  *)
(* when its future is dropped, and a streaming job a channel of reports.   *)
(*                                                                         *)
(* A token stands for a job with its cancellable and its channels; it is   *)
(* free again when neither the handle nor the worker has the job.          *)
(***************************************************************************)
EXTENDS Naturals, SequencesExt

CONSTANTS
  Readers,
  Tokens,    \* a bound on a reader's jobs that are not done with
  Reports,   \* a bound on the reports of one operation
  None

Streams == {"stream"}  \* Enroll, Verify, Identify
JobKinds == Streams \cup {"open", "close", "unary", "suspend", "resume"}
Jobs == [token : Tokens, kind : JobKinds]
Shutdown == [token |-> None, kind |-> "shutdown"]

ASSUME ShimAssumption ==
  /\ Reports \in Nat \ {0}
  /\ Tokens # {}
  /\ None \notin Tokens \cup Jobs \cup {"done", "cancelled"}

VARIABLES
  at,      \* where the handle is, or "none" without one
  call,    \* the job that it awaits
  reply,   \* the answer that has come
  pushed,  \* how many reports the call's channel has been given
  taken,   \* and how many of them were delivered
  fired,   \* the cancellables that were fired
  jobs,    \* the job channel
  worker,  \* the worker thread
  doing,   \* the job whose call it is in
  sensor   \* libfprint's device, as the worker found it

handle == <<at, call, taken>>
shim == <<at, call, reply, pushed, taken, fired, jobs, worker, doing, sensor>>

ShimTypeOK ==
  /\ at \in [Readers -> {"none", "free", "parked", "drained", "last", "joining"}]
  /\ call \in [Readers -> Jobs \cup {None}]
  /\ reply \in [Readers -> {None, "done", "cancelled"}]
  /\ pushed \in [Readers -> 0..Reports] /\ taken \in [Readers -> Nat]
  /\ \A r \in Readers : taken[r] <= pushed[r]
  /\ fired \in [Readers -> SUBSET Tokens]
  /\ jobs \in [Readers -> Seq(Jobs \cup {Shutdown})]
  /\ worker \in [Readers -> {"gone", "serving", "closing"}]
  /\ doing \in [Readers -> Jobs \cup {None}]
  /\ sensor \in [Readers -> {"missing", "closed", "open"}]

ShimInit ==
  /\ at = [r \in Readers |-> "none"]
  /\ call = [r \in Readers |-> None]
  /\ reply = [r \in Readers |-> None]
  /\ pushed = [r \in Readers |-> 0] /\ taken = [r \in Readers |-> 0]
  /\ fired = [r \in Readers |-> {}]
  /\ jobs = [r \in Readers |-> <<>>]
  /\ worker = [r \in Readers |-> "gone"]
  /\ doing = [r \in Readers |-> None]
  /\ sensor = [r \in Readers |-> "closed"]

\* The jobs that the worker has or will have.
Held(r) == ToSet(jobs[r]) \cup {doing[r]}
InUse(r) == {j.token : j \in (Held(r) \cup {call[r]}) \ {None}}

-----------------------------------------------------------------------------
(* The handle.                                                             *)

\* The worker looks for the device again, and may not find it.
Spawn(r) ==
  /\ at[r] = "none"
  /\ at' = [at EXCEPT ![r] = "free"]
  /\ worker' = [worker EXCEPT ![r] = "serving"]
  /\ sensor' \in {[sensor EXCEPT ![r] = s] : s \in {"missing", "closed"}}
  /\ UNCHANGED <<call, reply, pushed, taken, fired, jobs, doing>>

Reused(r, t) == fired   \* mutant
\* A fresh cancellable, not fired yet.
Fresh(r, t) == [fired EXCEPT ![r] = @ \ {t}]

Start(r, kind) ==
  /\ at[r] = "free" /\ ~(Tokens \subseteq InUse(r))
  /\ LET t == CHOOSE t \in Tokens : t \notin InUse(r)   \* which does not matter
         job == [token |-> t, kind |-> kind] IN
       /\ fired' = Fresh(r, t)
       /\ call' = [call EXCEPT ![r] = job]
       /\ jobs' = [jobs EXCEPT ![r] = Append(@, job)]
  /\ at' = [at EXCEPT ![r] = "parked"]
  /\ reply' = [reply EXCEPT ![r] = None]
  /\ pushed' = [pushed EXCEPT ![r] = 0]
  /\ taken' = [taken EXCEPT ![r] = 0]
  /\ UNCHANGED <<worker, doing, sensor>>

Streaming(r) == call[r] # None /\ call[r].kind \in Streams
Goto(r, p) == at' = [at EXCEPT ![r] = p]

\* A report or the reply wakes the future, which delivers what has arrived.
Drain(r) ==
  /\ at[r] = "parked" /\ Streaming(r)
  /\ taken[r] < pushed[r] \/ reply[r] # None
  /\ taken' = [taken EXCEPT ![r] = pushed[r]]
  /\ Goto(r, "drained")
  /\ UNCHANGED <<call, reply, pushed, fired, jobs, worker, doing, sensor>>

CheckReply(r) ==
  /\ at[r] = "drained"
  /\ Goto(r, IF reply[r] = None THEN "parked" ELSE "last")
  /\ UNCHANGED <<call, reply, pushed, taken, fired, jobs, worker, doing, sensor>>

NotDetached(r) == fired   \* mutant
\* The guard fires its cancellable, whether the call has its reply or not.
CancelOnDrop(r) == [fired EXCEPT ![r] = @ \cup {call[r].token}]

\* The future is gone: the guard, and both receivers.
Done(r) ==
  /\ Goto(r, "free")
  /\ fired' = CancelOnDrop(r)
  /\ call' = [call EXCEPT ![r] = None]
  /\ reply' = [reply EXCEPT ![r] = None]
  /\ UNCHANGED <<jobs, worker, doing, sensor>>

NotDrained(r) == taken   \* mutant
\* What arrived between the first drain and the reply.
Gap(r) == [taken EXCEPT ![r] = pushed[r]]

LastDrain(r) ==
  /\ at[r] = "last"
  /\ taken' = Gap(r)
  /\ Done(r)
  /\ UNCHANGED pushed

AwaitReply(r) ==
  /\ at[r] = "parked" /\ ~Streaming(r) /\ reply[r] # None
  /\ Done(r)
  /\ UNCHANGED <<pushed, taken>>

\* A future is dropped only while it is parked, and its channels with it.
DropCall(r) ==
  /\ at[r] = "parked"
  /\ Done(r)
  /\ pushed' = [pushed EXCEPT ![r] = 0]
  /\ taken' = [taken EXCEPT ![r] = 0]

LeftToDrop(r) == jobs   \* mutant
Told(r) == [jobs EXCEPT ![r] = Append(@, Shutdown)]

DropHandle(r) ==
  /\ at[r] = "free"
  /\ Goto(r, "joining")
  /\ jobs' = Told(r)
  /\ UNCHANGED <<call, reply, pushed, taken, fired, worker, doing, sensor>>

WorkerEnded(r) == worker[r] = "gone"

Join(r) ==
  /\ at[r] = "joining" /\ WorkerEnded(r)
  /\ Goto(r, "none")
  /\ UNCHANGED <<call, reply, pushed, taken, fired, jobs, worker, doing, sensor>>

-----------------------------------------------------------------------------
(* The worker.                                                             *)

TakeJob(r) ==
  /\ worker[r] = "serving" /\ doing[r] = None /\ jobs[r] # <<>>
  /\ jobs' = [jobs EXCEPT ![r] = Tail(@)]
  /\ LET job == Head(jobs[r]) IN
     IF job = Shutdown
     THEN worker' = [worker EXCEPT ![r] = "closing"] /\ UNCHANGED doing
     ELSE doing' = [doing EXCEPT ![r] = job] /\ UNCHANGED worker
  /\ UNCHANGED <<handle, reply, pushed, fired, sensor>>

\* libfprint calls back from inside the call; a channel without a receiver
\* takes nothing.
Report(r) ==
  /\ doing[r] # None /\ doing[r].kind \in Streams /\ sensor[r] = "open"
  /\ doing[r] = call[r] /\ pushed[r] < Reports
  /\ pushed' = [pushed EXCEPT ![r] = @ + 1]
  /\ UNCHANGED <<handle, reply, fired, jobs, worker, doing, sensor>>

Answer(r, outcome) ==
  /\ reply' = [reply EXCEPT ![r] = IF doing[r] = call[r] THEN outcome ELSE @]
  /\ doing' = [doing EXCEPT ![r] = None]
  /\ UNCHANGED <<handle, pushed, fired, jobs, worker>>

\* On an open sensor only a finger, or libfprint's own failure, ends it.
FinishStream(r) ==
  /\ doing[r] # None /\ doing[r].kind \in Streams /\ sensor[r] = "open"
  /\ Answer(r, "done")
  /\ UNCHANGED sensor

\* A call that returns by itself, with success or with an error.
FinishCall(r) ==
  /\ doing[r] # None
  /\ doing[r].kind \in Streams => sensor[r] # "open"
  /\ sensor' \in {sensor} \cup
       CASE doing[r].kind = "open" /\ sensor[r] = "closed" -> {[sensor EXCEPT ![r] = "open"]}
         [] doing[r].kind = "close" /\ sensor[r] = "open" -> {[sensor EXCEPT ![r] = "closed"]}
         [] OTHER -> {}
  /\ Answer(r, "done")

CancelCall(r) ==
  /\ doing[r] # None /\ doing[r].token \in fired[r] /\ sensor[r] # "missing"
  /\ Answer(r, "cancelled")
  /\ UNCHANGED sensor

\* The sensor is released before the thread ends.
EndWorker(r) ==
  /\ worker[r] = "closing"
  /\ worker' = [worker EXCEPT ![r] = "gone"]
  /\ sensor' = [sensor EXCEPT ![r] = "closed"]
  /\ UNCHANGED <<handle, reply, pushed, fired, jobs, doing>>

Poll(r) == Drain(r) \/ CheckReply(r) \/ LastDrain(r) \/ AwaitReply(r) \/ Join(r)
WorkerStep(r) == TakeJob(r) \/ FinishCall(r) \/ CancelCall(r) \/ EndWorker(r)

-----------------------------------------------------------------------------
\* When an operation that was awaited to its end returns, the worker is done
\* with it and each of its reports was delivered, however the pushes, the reply
\* and the polls interleave.
ReportsDelivered ==
  [][ \A r \in Readers :
        at[r] = "last" /\ call'[r] = None =>
          call[r] \notin Held(r) /\ taken'[r] = pushed'[r] ]_shim

\* An operation whose future lives is never answered as cancelled: a cancel
\* stays with the job it was meant for, even when it comes too late for it.
CancelKeptToItsJob == \A r \in Readers : reply[r] # "cancelled"

\* When the handle is gone the reader is free for another process, and for the
\* worker of the next handle.
ReaderFreed ==
  \A r \in Readers : at[r] = "none" =>
    worker[r] = "gone" /\ doing[r] = None /\ jobs[r] = <<>> /\ sensor[r] = "closed"

\* A handle's drop ends without a finger, whatever was cancelled before it.
DropReturns == \A r \in Readers : at[r] = "joining" ~> at[r] = "none"
=============================================================================
