---------------------------- MODULE SleepProofs ----------------------------
(***************************************************************************)
(* Proofs about LibfprintShim and SleepCycle: what a reader's handle and   *)
(* worker keep to between themselves, for any readers, jobs and reports,   *)
(* and that a sleep is let go with the old operations off.                 *)
(***************************************************************************)
EXTENDS SleepCycle, TLAPS

\* A call is awaited exactly where a future is polled, its cancellable is not
\* fired, and its reply is never one of a cancel.
Awaited(r) ==
  /\ at[r] \in {"parked", "drained", "last"} <=> call[r] # None
  /\ reply[r] # None => call[r] # None
  /\ at[r] = "last" => reply[r] # None
  /\ call[r] # None => call[r].token \notin fired[r]
  /\ reply[r] # "cancelled"

\* The call is the youngest job: until it is answered it is last in the channel
\* or in the worker's hands, and then the worker has nothing.
Youngest(r) ==
  call[r] # None =>
    IF reply[r] # None THEN jobs[r] = <<>> /\ doing[r] = None
    ELSE IF jobs[r] = <<>> THEN doing[r] = call[r]
    ELSE /\ jobs[r][Len(jobs[r])] = call[r]
         /\ \A i \in 1..(Len(jobs[r]) - 1) : jobs[r][i] # call[r]
         /\ doing[r] # call[r]

\* The worker lives with the handle, and ends when it was told to.
Tended(r) ==
  /\ at[r] \notin {"none", "joining"} => worker[r] = "serving"
  /\ at[r] = "none" => worker[r] = "gone"
  /\ at[r] = "joining" =>
       IF worker[r] = "serving" THEN jobs[r] # <<>> /\ jobs[r][Len(jobs[r])] = Shutdown
       ELSE jobs[r] = <<>> /\ doing[r] = None
  /\ worker[r] = "gone" => jobs[r] = <<>> /\ doing[r] = None /\ sensor[r] = "closed"
  /\ \A i \in DOMAIN jobs[r] : jobs[r][i] = Shutdown => i = Len(jobs[r]) /\ at[r] = "joining"

ShimInv ==
  /\ ShimTypeOK
  /\ \A r \in Readers : Awaited(r) /\ Youngest(r) /\ Tended(r)

\* Where the actor is agrees with where the handle is, and a command that has
\* run to its end leaves the worker with nothing.
Places(r) ==
  /\ command[r] = "none" => at[r] \in {"none", "free", "joining"}
  /\ command[r] = "making" => at[r] = "free"
  /\ command[r] \in JobKinds => at[r] \notin {"none", "joining"}
  /\ command[r] \in JobKinds /\ at[r] = "free" => jobs[r] = <<>> /\ doing[r] = None

\* A reader that has answered has none of the operations the sleep waits for.
OldOff ==
  monitor = "suspending" =>
    \A r \in Readers : prio[r] = "none" => \A t \in Tokens : <<r, t>> \notin old

SleepInv == ShimInv /\ SleepTypeOK /\ (\A r \in Readers : Places(r)) /\ OldOff

-----------------------------------------------------------------------------
(* The handle and its worker.                                              *)

LEMMA NoneApart == None \notin Tokens /\ None \notin Jobs /\ None # "done" /\ None # "cancelled" /\ Shutdown \notin Jobs
BY ShimAssumption DEF Jobs, Shutdown

LEMMA EmptyByLength ==
  ASSUME NEW S, NEW t \in Seq(S)
  PROVE  t = <<>> <=> Len(t) = 0
OBVIOUS

LEMMA SpawnKeeps ==
  ASSUME ShimInv, NEW r \in Readers, Spawn(r)
  PROVE  ShimInv'
<1>. USE NoneApart, ShimAssumption DEF ShimInv
<1>1. ShimTypeOK'
  BY DEF ShimTypeOK, Spawn
<1>2. ASSUME NEW q \in Readers PROVE (Awaited(q) /\ Youngest(q) /\ Tended(q))'
  <2>. USE DEF ShimTypeOK, Spawn
  <2>1. Awaited(q)'
    BY DEF Awaited
  <2>2. Youngest(q)'
    BY DEF Awaited, Youngest, Tended
  <2>3. Tended(q)'
    BY DEF Awaited, Tended
  <2>. QED BY <2>1, <2>2, <2>3
<1>. QED BY <1>1, <1>2

LEMMA StartKeeps ==
  ASSUME ShimInv, NEW r \in Readers, NEW kind \in JobKinds, Start(r, kind)
  PROVE  ShimInv'
<1>. USE NoneApart, ShimAssumption DEF ShimInv
<1>1. PICK t \in Tokens \ InUse(r) :
        /\ fired' = [fired EXCEPT ![r] = @ \ {t}]
        /\ call' = [call EXCEPT ![r] = [token |-> t, kind |-> kind]]
        /\ jobs' = [jobs EXCEPT ![r] = Append(@, [token |-> t, kind |-> kind])]
  BY DEF Start, Fresh
<1>9. /\ at[r] = "free"
      /\ at' = [at EXCEPT ![r] = "parked"]
      /\ reply' = [reply EXCEPT ![r] = None]
      /\ pushed' = [pushed EXCEPT ![r] = 0]
      /\ taken' = [taken EXCEPT ![r] = 0]
      /\ UNCHANGED <<worker, doing, sensor>>
  BY DEF Start
<1>. DEFINE job == [token |-> t, kind |-> kind]
<1>2. job \in Jobs
  BY DEF Jobs
<1>3. jobs[r] \in Seq(Jobs \cup {Shutdown})
  BY DEF ShimTypeOK
<1>4. /\ \A i \in DOMAIN jobs[r] : jobs[r][i] # job
      /\ doing[r] # job
  BY <1>2, <1>3 DEF InUse, Held, ToSet
<1>5. /\ Append(jobs[r], job) \in Seq(Jobs \cup {Shutdown})
      /\ Append(jobs[r], job) # <<>>
      /\ Len(Append(jobs[r], job)) = Len(jobs[r]) + 1
      /\ Append(jobs[r], job)[Len(jobs[r]) + 1] = job
      /\ \A i \in 1..Len(jobs[r]) : Append(jobs[r], job)[i] = jobs[r][i]
  BY <1>2, <1>3
<1>6. /\ call' = [call EXCEPT ![r] = job]
      /\ jobs' = [jobs EXCEPT ![r] = Append(jobs[r], job)]
      /\ job.token = t
  BY <1>1
<1>. HIDE DEF job
<1>7. ShimTypeOK'
  BY <1>1, <1>2, <1>5, <1>6, <1>9 DEF ShimTypeOK
<1>8. ASSUME NEW q \in Readers PROVE (Awaited(q) /\ Youngest(q) /\ Tended(q))'
  <2>1. Awaited(q)'
    BY <1>1, <1>2, <1>6, <1>9 DEF Awaited, ShimTypeOK
  <2>2. CASE q = r
    <3>1. Youngest(q)'
      BY <2>2, <1>2, <1>3, <1>4, <1>5, <1>6, <1>9 DEF Youngest, ShimTypeOK
    <3>2. \A i \in DOMAIN jobs[r] : jobs[r][i] # Shutdown
      BY DEF Tended, Start
    <3>3. DOMAIN Append(jobs[r], job) = 1..(Len(jobs[r]) + 1)
      BY <1>2, <1>3
    <3>4. \A i \in DOMAIN jobs'[r] : jobs'[r][i] # Shutdown
      BY <1>2, <1>3, <1>5, <1>6, <3>2, <3>3 DEF ShimTypeOK
    <3>5. Tended(q)'
      BY <2>2, <3>4 DEF Tended, ShimTypeOK, Start
    <3>. QED BY <2>1, <3>1, <3>5
  <2>3. CASE q # r
    BY <2>1, <2>3, <1>6 DEF Youngest, Tended, ShimTypeOK, Start
  <2>. QED BY <2>2, <2>3
<1>. QED BY <1>7, <1>8

LEMMA DrainKeeps ==
  ASSUME ShimInv, NEW r \in Readers, Drain(r)
  PROVE  ShimInv'
<1>. USE NoneApart, ShimAssumption DEF ShimInv
<1>1. ShimTypeOK'
  BY DEF ShimTypeOK, Drain, Goto, Streaming
<1>2. ASSUME NEW q \in Readers PROVE (Awaited(q) /\ Youngest(q) /\ Tended(q))'
  <2>. USE DEF ShimTypeOK, Drain, Goto, Streaming
  <2>1. Awaited(q)'
    BY DEF Awaited
  <2>2. Youngest(q)'
    BY DEF Awaited, Youngest, Tended
  <2>3. Tended(q)'
    BY DEF Awaited, Tended
  <2>. QED BY <2>1, <2>2, <2>3
<1>. QED BY <1>1, <1>2

LEMMA CheckReplyKeeps ==
  ASSUME ShimInv, NEW r \in Readers, CheckReply(r)
  PROVE  ShimInv'
<1>. USE NoneApart, ShimAssumption DEF ShimInv
<1>1. ShimTypeOK'
  BY DEF ShimTypeOK, CheckReply, Goto
<1>2. ASSUME NEW q \in Readers PROVE (Awaited(q) /\ Youngest(q) /\ Tended(q))'
  <2>. USE DEF ShimTypeOK, CheckReply, Goto
  <2>1. Awaited(q)'
    BY DEF Awaited
  <2>2. Youngest(q)'
    BY DEF Awaited, Youngest, Tended
  <2>3. Tended(q)'
    BY DEF Awaited, Tended
  <2>. QED BY <2>1, <2>2, <2>3
<1>. QED BY <1>1, <1>2

LEMMA LastDrainKeeps ==
  ASSUME ShimInv, NEW r \in Readers, LastDrain(r)
  PROVE  ShimInv'
<1>. USE NoneApart, ShimAssumption DEF ShimInv
<1>1. ShimTypeOK'
  <2>. call[r].token \in Tokens
    BY DEF ShimTypeOK, Awaited, Jobs, LastDrain
  <2>. QED BY DEF ShimTypeOK, LastDrain, Done, CancelOnDrop, Goto, Gap
<1>2. ASSUME NEW q \in Readers PROVE (Awaited(q) /\ Youngest(q) /\ Tended(q))'
  <2>. USE DEF ShimTypeOK, LastDrain, Done, CancelOnDrop, Goto, Gap
  <2>1. Awaited(q)'
    BY DEF Awaited
  <2>2. Youngest(q)'
    BY DEF Awaited, Youngest, Tended
  <2>3. Tended(q)'
    BY DEF Awaited, Tended
  <2>. QED BY <2>1, <2>2, <2>3
<1>. QED BY <1>1, <1>2

LEMMA AwaitReplyKeeps ==
  ASSUME ShimInv, NEW r \in Readers, AwaitReply(r)
  PROVE  ShimInv'
<1>. USE NoneApart, ShimAssumption DEF ShimInv
<1>1. ShimTypeOK'
  <2>. call[r].token \in Tokens
    BY DEF ShimTypeOK, Awaited, Jobs, AwaitReply
  <2>. QED BY DEF ShimTypeOK, AwaitReply, Done, CancelOnDrop, Goto
<1>2. ASSUME NEW q \in Readers PROVE (Awaited(q) /\ Youngest(q) /\ Tended(q))'
  <2>. USE DEF ShimTypeOK, AwaitReply, Done, CancelOnDrop, Goto
  <2>1. Awaited(q)'
    BY DEF Awaited
  <2>2. Youngest(q)'
    BY DEF Awaited, Youngest, Tended
  <2>3. Tended(q)'
    BY DEF Awaited, Tended
  <2>. QED BY <2>1, <2>2, <2>3
<1>. QED BY <1>1, <1>2

LEMMA DropCallKeeps ==
  ASSUME ShimInv, NEW r \in Readers, DropCall(r)
  PROVE  ShimInv'
<1>. USE NoneApart, ShimAssumption DEF ShimInv
<1>1. ShimTypeOK'
  <2>. call[r].token \in Tokens
    BY DEF ShimTypeOK, Awaited, Jobs, DropCall
  <2>. QED BY DEF ShimTypeOK, DropCall, Done, CancelOnDrop, Goto
<1>2. ASSUME NEW q \in Readers PROVE (Awaited(q) /\ Youngest(q) /\ Tended(q))'
  <2>. USE DEF ShimTypeOK, DropCall, Done, CancelOnDrop, Goto
  <2>1. Awaited(q)'
    BY DEF Awaited
  <2>2. Youngest(q)'
    BY DEF Awaited, Youngest, Tended
  <2>3. Tended(q)'
    BY DEF Awaited, Tended
  <2>. QED BY <2>1, <2>2, <2>3
<1>. QED BY <1>1, <1>2

LEMMA DropHandleKeeps ==
  ASSUME ShimInv, NEW r \in Readers, DropHandle(r)
  PROVE  ShimInv'
<1>. USE NoneApart, ShimAssumption DEF ShimInv
<1>1. ShimTypeOK'
  BY DEF ShimTypeOK, DropHandle, Goto, Told
<1>2. ASSUME NEW q \in Readers PROVE (Awaited(q) /\ Youngest(q) /\ Tended(q))'
  <2>. USE DEF ShimTypeOK, DropHandle, Goto, Told
  <2>1. Awaited(q)'
    BY DEF Awaited
  <2>2. Youngest(q)'
    BY DEF Awaited, Youngest, Tended
  <2>3. Tended(q)'
    BY DEF Awaited, Tended
  <2>. QED BY <2>1, <2>2, <2>3
<1>. QED BY <1>1, <1>2

LEMMA JoinKeeps ==
  ASSUME ShimInv, NEW r \in Readers, Join(r)
  PROVE  ShimInv'
<1>. USE NoneApart, ShimAssumption DEF ShimInv
<1>1. ShimTypeOK'
  BY DEF ShimTypeOK, Join, Goto, WorkerEnded
<1>2. ASSUME NEW q \in Readers PROVE (Awaited(q) /\ Youngest(q) /\ Tended(q))'
  <2>. USE DEF ShimTypeOK, Join, Goto, WorkerEnded
  <2>1. Awaited(q)'
    BY DEF Awaited
  <2>2. Youngest(q)'
    BY DEF Awaited, Youngest, Tended
  <2>3. Tended(q)'
    BY DEF Awaited, Tended
  <2>. QED BY <2>1, <2>2, <2>3
<1>. QED BY <1>1, <1>2

LEMMA TakeJobKeeps ==
  ASSUME ShimInv, NEW r \in Readers, TakeJob(r)
  PROVE  ShimInv'
<1>. USE NoneApart, ShimAssumption DEF ShimInv
<1>. DEFINE s == jobs[r]
<1>1. s \in Seq(Jobs \cup {Shutdown}) /\ s # <<>>
  BY DEF ShimTypeOK, TakeJob
<1>2. /\ Len(s) \in Nat /\ Len(s) > 0
      /\ Head(s) = s[1] /\ s[1] \in Jobs \cup {Shutdown}
      /\ Tail(s) \in Seq(Jobs \cup {Shutdown})
      /\ Len(Tail(s)) = Len(s) - 1
      /\ DOMAIN Tail(s) = 1..(Len(s) - 1) /\ DOMAIN s = 1..Len(s)
      /\ \A i \in 1..(Len(s) - 1) : Tail(s)[i] = s[i + 1]
  BY <1>1
<1>13. Tail(s) = <<>> <=> Len(s) = 1
  <2>. HIDE DEF s
  <2>1. Tail(s) = <<>> <=> Len(Tail(s)) = 0
    BY <1>2, EmptyByLength
  <2>. QED BY <2>1, <1>2
<1>3. /\ worker[r] = "serving" /\ doing[r] = None
      /\ jobs' = [jobs EXCEPT ![r] = Tail(s)]
      /\ IF s[1] = Shutdown
         THEN worker' = [worker EXCEPT ![r] = "closing"] /\ UNCHANGED doing
         ELSE doing' = [doing EXCEPT ![r] = s[1]] /\ UNCHANGED worker
      /\ UNCHANGED <<at, call, taken, reply, pushed, fired, sensor>>
  BY <1>2 DEF TakeJob, handle
<1>4. ShimTypeOK'
  BY <1>2, <1>3 DEF ShimTypeOK
<1>5. Awaited(r) /\ Youngest(r) /\ Tended(r)
  OBVIOUS
<1>6. jobs'[r] = Tail(s)
  BY <1>3 DEF ShimTypeOK
<1>. HIDE DEF s
<1>7. s[1] = Shutdown => Len(s) = 1 /\ at[r] = "joining"
  <2>1. 1 \in DOMAIN jobs[r] /\ jobs[r] = s
    BY <1>2 DEF s
  <2>2. jobs[r][1] = Shutdown => 1 = Len(jobs[r]) /\ at[r] = "joining"
    BY <2>1, <1>5 DEF Tended
  <2>. QED BY <2>1, <2>2
<1>8. s[1] # Shutdown => doing'[r] = s[1]
  BY <1>3 DEF ShimTypeOK
<1>9. Youngest(r)'
  <2>1. CASE call[r] = None \/ reply[r] # None
    BY <2>1, <1>1, <1>3, <1>5 DEF Youngest, s
  <2>2. CASE call[r] # None /\ reply[r] = None
    <3>1. s[Len(s)] = call[r] /\ \A i \in 1..(Len(s) - 1) : s[i] # call[r]
      BY <2>2, <1>1, <1>5 DEF Youngest, s
    <3>2. s[1] # Shutdown
      BY <2>2, <1>5, <1>7 DEF Awaited
    <3>3. CASE Len(s) = 1
      BY <2>2, <3>1, <3>2, <3>3, <1>2, <1>3, <1>6, <1>8, <1>13 DEF Youngest
    <3>4. CASE Len(s) # 1
      <4>1. s[1] # call[r]
        BY <3>1, <3>4, <1>2
      <4>2. /\ Tail(s)[Len(Tail(s))] = call[r]
            /\ \A i \in 1..(Len(Tail(s)) - 1) : Tail(s)[i] # call[r]
        BY <3>1, <3>4, <1>2
      <4>. QED BY <2>2, <3>2, <3>4, <4>1, <4>2, <1>2, <1>3, <1>6, <1>8, <1>13 DEF Youngest
    <3>. QED BY <3>3, <3>4
  <2>. QED BY <2>1, <2>2
<1>10. Tended(r)'
  <2>1. \A i \in DOMAIN Tail(s) : Tail(s)[i] = Shutdown => i = Len(Tail(s)) /\ at[r] = "joining"
    BY <1>2, <1>5 DEF Tended, s
  <2>2. CASE s[1] = Shutdown
    BY <2>1, <2>2, <1>2, <1>3, <1>5, <1>6, <1>7, <1>13 DEF Tended, ShimTypeOK
  <2>3. CASE s[1] # Shutdown
    <3>1. at[r] = "joining" => s[Len(s)] = Shutdown
      BY <1>3, <1>5 DEF Tended, s
    <3>2. at[r] = "joining" => Tail(s) # <<>> /\ Tail(s)[Len(Tail(s))] = Shutdown
      BY <2>3, <3>1, <1>2, <1>13
    <3>. QED BY <2>1, <2>3, <3>2, <1>2, <1>3, <1>5, <1>6 DEF Tended, ShimTypeOK
  <2>. QED BY <2>2, <2>3
<1>11. Awaited(r)'
  BY <1>3, <1>5 DEF Awaited
<1>12. ASSUME NEW q \in Readers, q # r PROVE (Awaited(q) /\ Youngest(q) /\ Tended(q))'
  BY <1>12, <1>3 DEF Awaited, Youngest, Tended, ShimTypeOK
<1>. QED BY <1>4, <1>9, <1>10, <1>11, <1>12

LEMMA ReportKeeps ==
  ASSUME ShimInv, NEW r \in Readers, Report(r)
  PROVE  ShimInv'
<1>. USE NoneApart, ShimAssumption DEF ShimInv
<1>1. ShimTypeOK'
  BY DEF ShimTypeOK, Report, handle
<1>2. ASSUME NEW q \in Readers PROVE (Awaited(q) /\ Youngest(q) /\ Tended(q))'
  <2>. USE DEF ShimTypeOK, Report, handle
  <2>1. Awaited(q)'
    BY DEF Awaited
  <2>2. Youngest(q)'
    BY DEF Awaited, Youngest, Tended
  <2>3. Tended(q)'
    BY DEF Awaited, Tended
  <2>. QED BY <2>1, <2>2, <2>3
<1>. QED BY <1>1, <1>2

LEMMA FinishStreamKeeps ==
  ASSUME ShimInv, NEW r \in Readers, FinishStream(r)
  PROVE  ShimInv'
<1>. USE NoneApart, ShimAssumption DEF ShimInv
<1>1. ShimTypeOK'
  BY DEF ShimTypeOK, FinishStream, Answer, handle
<1>2. ASSUME NEW q \in Readers PROVE (Awaited(q) /\ Youngest(q) /\ Tended(q))'
  <2>. USE DEF ShimTypeOK, FinishStream, Answer, handle
  <2>1. Awaited(q)'
    BY DEF Awaited
  <2>2. Youngest(q)'
    BY DEF Awaited, Youngest, Tended
  <2>3. Tended(q)'
    BY DEF Awaited, Tended
  <2>. QED BY <2>1, <2>2, <2>3
<1>. QED BY <1>1, <1>2

LEMMA FinishCallKeeps ==
  ASSUME ShimInv, NEW r \in Readers, FinishCall(r)
  PROVE  ShimInv'
<1>. USE NoneApart, ShimAssumption DEF ShimInv
<1>1. ShimTypeOK'
  BY DEF ShimTypeOK, FinishCall, Answer, handle
<1>2. ASSUME NEW q \in Readers PROVE (Awaited(q) /\ Youngest(q) /\ Tended(q))'
  <2>. USE DEF ShimTypeOK, FinishCall, Answer, handle
  <2>1. Awaited(q)'
    BY DEF Awaited
  <2>2. Youngest(q)'
    BY DEF Awaited, Youngest, Tended
  <2>3. Tended(q)'
    BY DEF Awaited, Tended
  <2>. QED BY <2>1, <2>2, <2>3
<1>. QED BY <1>1, <1>2

LEMMA CancelCallKeeps ==
  ASSUME ShimInv, NEW r \in Readers, CancelCall(r)
  PROVE  ShimInv'
<1>. USE NoneApart, ShimAssumption DEF ShimInv
<1>1. ShimTypeOK'
  BY DEF ShimTypeOK, CancelCall, Answer, handle
<1>2. ASSUME NEW q \in Readers PROVE (Awaited(q) /\ Youngest(q) /\ Tended(q))'
  <2>. USE DEF ShimTypeOK, CancelCall, Answer, handle
  <2>1. Awaited(q)'
    BY DEF Awaited
  <2>2. Youngest(q)'
    BY DEF Awaited, Youngest, Tended
  <2>3. Tended(q)'
    BY DEF Awaited, Tended
  <2>. QED BY <2>1, <2>2, <2>3
<1>. QED BY <1>1, <1>2

LEMMA EndWorkerKeeps ==
  ASSUME ShimInv, NEW r \in Readers, EndWorker(r)
  PROVE  ShimInv'
<1>. USE NoneApart, ShimAssumption DEF ShimInv
<1>1. ShimTypeOK'
  BY DEF ShimTypeOK, EndWorker, handle
<1>2. ASSUME NEW q \in Readers PROVE (Awaited(q) /\ Youngest(q) /\ Tended(q))'
  <2>. USE DEF ShimTypeOK, EndWorker, handle
  <2>1. Awaited(q)'
    BY DEF Awaited
  <2>2. Youngest(q)'
    BY DEF Awaited, Youngest, Tended
  <2>3. Tended(q)'
    BY DEF Awaited, Tended
  <2>. QED BY <2>1, <2>2, <2>3
<1>. QED BY <1>1, <1>2

LEMMA StutterKeeps ==
  ASSUME ShimInv, UNCHANGED shim
  PROVE  ShimInv'
BY DEF ShimInv, ShimTypeOK, Awaited, Youngest, Tended, shim

-----------------------------------------------------------------------------
(* The actors, the monitor and logind.                                     *)

LEMMA KindsApart == {"open", "close", "stream", "unary", "suspend", "resume"} = JobKinds
BY DEF JobKinds, Streams

LEMMA ShimSteps ==
  ASSUME SleepInv, Step
  PROVE  ShimInv'
<1>. USE KindsApart DEF SleepInv
<1>1. ASSUME NEW r \in Readers, TakePrio(r) PROVE ShimInv'
  <2>. prio[r] \in JobKinds
    BY <1>1 DEF TakePrio, SleepTypeOK
  <2>. QED BY <1>1, StartKeeps, StutterKeeps DEF TakePrio
<1>2. ASSUME NEW r \in Readers, Abandon(r) PROVE ShimInv'
  BY <1>2, DropCallKeeps DEF Abandon
<1>3. ASSUME NEW r \in Readers, OpenNew(r) PROVE ShimInv'
  BY <1>3, StartKeeps DEF OpenNew
<1>4. ASSUME NEW r \in Readers, Served(r) PROVE ShimInv'
  BY <1>4, DropHandleKeeps, StutterKeeps DEF Served
<1>5. ASSUME NEW r \in Readers, Poll(r) PROVE ShimInv'
  BY <1>5, DrainKeeps, CheckReplyKeeps, LastDrainKeeps, AwaitReplyKeeps, JoinKeeps DEF Poll
<1>6. ASSUME NEW r \in Readers, NewReader(r) PROVE ShimInv'
  BY <1>6, SpawnKeeps DEF NewReader
<1>7. ASSUME NEW r \in Readers, NEW kind \in JobKinds, Serves(r, kind) PROVE ShimInv'
  BY <1>7, StartKeeps DEF Serves
<1>8. ASSUME NEW r \in Readers, Sensor(r) PROVE ShimInv'
  BY <1>8, TakeJobKeeps, FinishCallKeeps, CancelCallKeeps, EndWorkerKeeps, ReportKeeps, FinishStreamKeeps
     DEF Sensor, WorkerStep
<1>9. ASSUME Monitor \/ Announce \/ FallAsleep \/ WakeUp PROVE ShimInv'
  BY <1>9, StutterKeeps
     DEF Monitor, Install, Subscribe, Hear, LetSleep, Resumed, Rearm, Announce, FallAsleep, WakeUp
<1>. QED BY <1>1, <1>2, <1>3, <1>4, <1>5, <1>6, <1>7, <1>8, <1>9 DEF Step, Actor, Callers, Preempt

LEMMA TypeSteps ==
  ASSUME SleepInv, Next
  PROVE  SleepTypeOK'
<1>. USE KindsApart, SleepAssumption DEF SleepInv, SleepTypeOK
<1>1. ShimTypeOK'
  BY ShimSteps DEF Next, ShimInv
<1>2. old' \subseteq Readers \X Tokens
  BY DEF Next, Live
<1>. DEFINE Cells ==
       /\ command \in [Readers -> JobKinds \cup {"none", "making"}]
       /\ prio \in [Readers -> {"none", "suspend", "resume"}]
       /\ monitor \in {"install", "subscribe", "listening", "suspending", "resuming", "rearming", "off"}
       /\ held \in BOOLEAN
       /\ signals \in Seq(BOOLEAN) /\ Len(signals) <= Heard
       /\ logind \in {"awake", "announced", "asleep"}
<1>3. Cells
  OBVIOUS
<1>4. ASSUME UNCHANGED sleep PROVE Cells'
  BY <1>3, <1>4 DEF sleep
<1>5. ASSUME NEW r \in Readers, NEW kind \in JobKinds \cup {"none", "making"}, Serve(r, kind),
             UNCHANGED <<prio, monitor, held, signals, logind>>
      PROVE  Cells'
  BY <1>3, <1>5 DEF Serve
<1>6. ASSUME NEW r \in Readers, Actor(r) PROVE Cells'
  <2>1. CASE TakePrio(r)
    BY <2>1, <1>3 DEF TakePrio, Serve
  <2>2. CASE Preempt(r)
    BY <2>2, <1>5 DEF Preempt, Abandon
  <2>3. CASE OpenNew(r)
    BY <2>3, <1>5 DEF OpenNew
  <2>4. CASE Served(r)
    BY <2>4, <1>3 DEF Served, Serve
  <2>5. CASE Poll(r) /\ UNCHANGED sleep
    BY <2>5, <1>4
  <2>. QED BY <1>6, <2>1, <2>2, <2>3, <2>4, <2>5 DEF Actor
<1>7. ASSUME NEW r \in Readers, Callers(r) PROVE Cells'
  BY <1>7, <1>5 DEF Callers, NewReader, Serves, Abandon
<1>8. ASSUME Monitor PROVE Cells'
  <2>1. CASE Hear
    <3>1. /\ signals # <<>>
          /\ signals' = Tail(signals)
          /\ monitor' \in {"suspending", "resuming"}
          /\ prio' \in [Readers -> {"suspend", "resume"}]
          /\ UNCHANGED <<command, held, logind>>
      BY <2>1 DEF Hear
    <3>2. Tail(signals) \in Seq(BOOLEAN) /\ Len(Tail(signals)) <= Heard
      BY <1>3, <3>1
    <3>. QED BY <1>3, <3>1, <3>2
  <2>2. CASE Install \/ Subscribe \/ LetSleep \/ Resumed \/ Rearm
    BY <2>2, <1>3 DEF Install, Subscribe, LetSleep, Resumed, Rearm
  <2>. QED BY <1>8, <2>1, <2>2 DEF Monitor
<1>9. ASSUME Announce \/ FallAsleep \/ WakeUp PROVE Cells'
  <2>1. ASSUME Len(signals) < Heard, NEW start \in BOOLEAN, Signal(start)
        PROVE  signals' \in Seq(BOOLEAN) /\ Len(signals') <= Heard
    <3>1. Append(signals, start) \in Seq(BOOLEAN) /\ Len(Append(signals, start)) = Len(signals) + 1
      BY <2>1, <1>3
    <3>2. Len(signals) \in Nat /\ Heard \in Nat
      BY <1>3
    <3>3. Len(Append(signals, start)) <= Heard
      BY ONLY <3>1, <3>2, <2>1
    <3>4. signals' = Append(signals, start) \/ signals' = signals
      BY <2>1 DEF Signal
    <3>5. CASE signals' = signals
      BY <3>5, <1>3
    <3>6. CASE signals' = Append(signals, start)
      BY ONLY <3>1, <3>3, <3>6
    <3>. QED BY <3>4, <3>5, <3>6
  <2>. QED BY <1>3, <1>9, <2>1 DEF Announce, FallAsleep, WakeUp
<1>. QED
  <2>. Cells'
    BY <1>4, <1>6, <1>7, <1>8, <1>9 DEF Next, Step, Sensor
  <2>. QED BY <1>1, <1>2

LEMMA PlacesSteps ==
  ASSUME SleepInv, Step, NEW q \in Readers
  PROVE  Places(q)'
<1>. USE KindsApart DEF SleepInv, Places
<1>1. Places(q) /\ Awaited(q) /\ Youngest(q) /\ Tended(q)
  BY DEF ShimInv
<1>2. SleepTypeOK /\ ShimTypeOK
  BY DEF SleepTypeOK
<1>3. ASSUME NEW r \in Readers, TakePrio(r) PROVE Places(q)'
  <2>1. CASE at[r] = "none"
    BY <1>1, <1>3, <2>1 DEF TakePrio, shim
  <2>2. CASE at[r] # "none"
    <3>1. /\ prio[r] \in {"suspend", "resume"}
          /\ Start(r, prio[r]) /\ Serve(r, prio[r])
      BY <1>2, <1>3, <2>2 DEF TakePrio, SleepTypeOK
    <3>2. CASE q = r
      <4>1. at'[q] = "parked" /\ command'[q] = prio[r]
        BY <1>2, <3>1, <3>2 DEF Start, Serve, SleepTypeOK, ShimTypeOK
      <4>. QED BY <3>1, <4>1
    <3>3. CASE q # r
      BY <1>1, <1>2, <3>1, <3>3 DEF Start, Serve, SleepTypeOK, ShimTypeOK
    <3>. QED BY <3>2, <3>3
  <2>. QED BY <2>1, <2>2
<1>4. ASSUME NEW r \in Readers, Abandon(r) PROVE Places(q)'
  BY <1>1, <1>2, <1>4 DEF Abandon, DropCall, Done, Goto, Serve, SleepTypeOK, ShimTypeOK
<1>5. ASSUME NEW r \in Readers, OpenNew(r) PROVE Places(q)'
  BY <1>1, <1>2, <1>5 DEF OpenNew, Start, Serve, SleepTypeOK, ShimTypeOK
<1>6. ASSUME NEW r \in Readers, Served(r) PROVE Places(q)'
  <2>1. command[r] \in JobKinds /\ at[r] = "free" /\ Serve(r, "none")
    BY <1>6 DEF Served
  <2>2. CASE command[r] = "close"
    <3>1. DropHandle(r)
      BY <1>6, <2>2 DEF Served
    <3>. QED BY <1>1, <1>2, <2>1, <3>1 DEF DropHandle, Goto, Serve, Told, SleepTypeOK, ShimTypeOK
  <2>3. CASE command[r] # "close"
    <3>1. UNCHANGED <<at, jobs, doing>>
      BY <1>6, <2>3 DEF Served, shim
    <3>. QED BY <1>1, <1>2, <2>1, <3>1 DEF Serve, SleepTypeOK, ShimTypeOK
  <2>. QED BY <2>2, <2>3
<1>7. ASSUME NEW r \in Readers, Poll(r), UNCHANGED sleep PROVE Places(q)'
  BY <1>1, <1>2, <1>7
     DEF Poll, Drain, CheckReply, LastDrain, AwaitReply, Join, Done, Goto, sleep, Awaited, Youngest,
         SleepTypeOK, ShimTypeOK
<1>8. ASSUME NEW r \in Readers, NewReader(r) PROVE Places(q)'
  BY <1>1, <1>2, <1>8 DEF NewReader, Spawn, Serve, SleepTypeOK, ShimTypeOK
<1>9. ASSUME NEW r \in Readers, NEW kind \in JobKinds, Serves(r, kind) PROVE Places(q)'
  BY <1>1, <1>2, <1>9 DEF Serves, Start, Serve, SleepTypeOK, ShimTypeOK
<1>10. ASSUME NEW r \in Readers, Sensor(r) PROVE Places(q)'
  BY <1>1, <1>2, <1>10
     DEF Sensor, WorkerStep, TakeJob, FinishCall, CancelCall, EndWorker, Report, FinishStream, Answer,
         handle, sleep, SleepTypeOK, ShimTypeOK
<1>11. ASSUME Monitor \/ Announce \/ FallAsleep \/ WakeUp PROVE Places(q)'
  <2>1. UNCHANGED <<at, jobs, doing, command>>
    BY <1>11
       DEF Monitor, Install, Subscribe, Hear, LetSleep, Resumed, Rearm, Announce, FallAsleep, WakeUp, shim
  <2>. QED BY <1>1, <2>1
<1>. QED
  BY <1>3, <1>4, <1>5, <1>6, <1>7, <1>8, <1>9, <1>10, <1>11 DEF Step, Actor, Callers, Preempt

\* A reader whose suspend or resume is answered has nothing in its worker's hands.
LEMMA AnsweredIdle ==
  ASSUME SleepInv, Step, NEW q \in Readers, prio[q] # "none", prio'[q] = "none"
  PROVE  jobs'[q] = <<>> /\ doing'[q] = None
<1>. USE KindsApart DEF SleepInv
<1>1. Places(q) /\ Tended(q) /\ SleepTypeOK
  BY DEF ShimInv
<1>2. CASE TakePrio(q)
  BY <1>1, <1>2 DEF TakePrio, Tended, shim
<1>3. CASE Served(q)
  BY <1>1, <1>3 DEF Served, Places, shim
<1>4. ASSUME NEW r \in Readers, TakePrio(r) \/ Served(r) PROVE r = q
  BY <1>1, <1>4 DEF TakePrio, Served, SleepTypeOK
<1>5. ~Monitor /\ ~Announce /\ ~FallAsleep /\ ~WakeUp
  BY DEF Monitor, Install, Subscribe, Hear, LetSleep, Resumed, Rearm, Announce, FallAsleep, WakeUp
<1>6. ASSUME NEW r \in Readers,
             OpenNew(r) \/ Abandon(r) \/ NewReader(r) \/ (\E kind \in JobKinds : Serves(r, kind)) \/ UNCHANGED sleep
      PROVE  FALSE
  BY <1>6 DEF OpenNew, Abandon, NewReader, Serves, sleep
<1>. QED
  BY <1>2, <1>3, <1>4, <1>5, <1>6 DEF Step, Actor, Callers, Sensor, Preempt

LEMMA OldSteps ==
  ASSUME SleepInv, Next
  PROVE  OldOff'
<1>. SUFFICES ASSUME monitor' = "suspending", NEW q \in Readers, prio'[q] = "none", NEW t \in Tokens
              PROVE  <<q, t>> \notin old'
  BY DEF OldOff
<1>1. old' \subseteq Live'
  BY DEF Next
<1>2. CASE prio[q] # "none"
  <2>1. jobs'[q] = <<>> /\ doing'[q] = None
    BY <1>2, AnsweredIdle DEF Next
  <2>2. <<q, t>> \notin Live'
    BY <2>1 DEF Live, Held, ToSet
  <2>. QED BY <1>1, <2>2
<1>3. CASE prio[q] = "none"
  <2>1. monitor = "suspending"
    <3>1. ~Hear
      BY DEF Hear, SleepInv, SleepTypeOK
    <3>2. ASSUME Install \/ Subscribe \/ LetSleep \/ Resumed \/ Rearm PROVE FALSE
      BY <3>2 DEF Install, Subscribe, LetSleep, Resumed, Rearm
    <3>3. ASSUME NEW r \in Readers, Actor(r) \/ Callers(r) \/ Sensor(r) PROVE UNCHANGED monitor
      BY <3>3 DEF Actor, Callers, Sensor, TakePrio, Preempt, Abandon, OpenNew, Served, NewReader, Serves, sleep
    <3>4. ASSUME Announce \/ FallAsleep \/ WakeUp PROVE UNCHANGED monitor
      BY <3>4 DEF Announce, FallAsleep, WakeUp
    <3>. QED BY <3>1, <3>2, <3>3, <3>4 DEF Next, Step, Monitor
  <2>2. old' \subseteq old
    BY <2>1 DEF Next
  <2>. QED BY <1>3, <2>1, <2>2 DEF SleepInv, OldOff
<1>. QED BY <1>2, <1>3

LEMMA SleepInvInitial ==
  ASSUME Init
  PROVE  SleepInv
<1>. USE KindsApart, NoneApart, ShimAssumption, SleepAssumption DEF Init, ShimInit
<1>1. ShimTypeOK
  BY DEF ShimTypeOK
<1>2. \A r \in Readers : Awaited(r) /\ Youngest(r) /\ Tended(r) /\ Places(r)
  BY DEF Awaited, Youngest, Tended, Places
<1>3. SleepTypeOK
  <2>1. /\ command \in [Readers -> JobKinds \cup {"none", "making"}]
        /\ prio \in [Readers -> {"none", "suspend", "resume"}]
    OBVIOUS
  <2>2. signals \in Seq(BOOLEAN) /\ Len(signals) <= Heard
    <3>1. signals = <<>> /\ Heard \in Nat
      OBVIOUS
    <3>. QED BY ONLY <3>1
  <2>3. held \in BOOLEAN /\ old \subseteq Readers \X Tokens
    OBVIOUS
  <2>4. /\ monitor \in {"install", "subscribe", "listening", "suspending", "resuming", "rearming", "off"}
        /\ logind \in {"awake", "announced", "asleep"}
    OBVIOUS
  <2>. QED BY ONLY <1>1, <2>1, <2>2, <2>3, <2>4 DEF SleepTypeOK
<1>. QED BY <1>1, <1>2, <1>3 DEF SleepInv, ShimInv, OldOff

LEMMA SleepInvKept ==
  ASSUME SleepInv, [Next]_vars
  PROVE  SleepInv'
<1>1. CASE Next
  BY <1>1, ShimSteps, TypeSteps, PlacesSteps, OldSteps DEF SleepInv, Next
<1>2. CASE UNCHANGED vars
  <2>1. ShimInv'
    BY <1>2, StutterKeeps DEF SleepInv, vars, parts
  <2>2. SleepTypeOK'
    BY <1>2, <2>1 DEF SleepInv, ShimInv, SleepTypeOK, vars, parts, sleep
  <2>3. (\A r \in Readers : Places(r))' /\ OldOff'
    BY <1>2 DEF SleepInv, Places, OldOff, vars, parts, sleep, shim
  <2>. QED BY <2>1, <2>2, <2>3 DEF SleepInv
<1>. QED BY <1>1, <1>2

\* The inductive invariant of the readers, the monitor and logind.
THEOREM SleepSafe == Spec => []SleepInv
BY SleepInvInitial, SleepInvKept, PTL DEF Spec

-----------------------------------------------------------------------------
(* What follows.                                                           *)

\* Type correctness, for any readers, jobs and numbers of reports and signals.
THEOREM SleepTyped == Spec => []SleepTypeOK
<1>1. SleepInv => SleepTypeOK
  BY DEF SleepInv
<1>. QED BY <1>1, SleepSafe, PTL

\* A cancel stays with the job it was meant for: an operation that is awaited
\* is never answered as cancelled.
THEOREM SleepCancelKept == Spec => []CancelKeptToItsJob
<1>1. SleepInv => CancelKeptToItsJob
  BY DEF SleepInv, ShimInv, Awaited, CancelKeptToItsJob
<1>. QED BY <1>1, SleepSafe, PTL

\* A handle that is gone has left the reader free and its worker ended.
THEOREM SleepReaderFreed == Spec => []ReaderFreed
<1>1. SleepInv => ReaderFreed
  BY DEF SleepInv, ShimInv, Tended, ReaderFreed
<1>. QED BY <1>1, SleepSafe, PTL

\* A sleep is let go only when the operations that were there are off.
THEOREM SleepOldOperationsGone == Spec => OldOperationsGone
<1>1. SleepInv /\ LetSleep => old = {}
  <2>. SUFFICES ASSUME SleepInv, LetSleep, NEW o \in old PROVE FALSE
    OBVIOUS
  <2>1. PICK r \in Readers, t \in Tokens : o = <<r, t>>
    BY DEF SleepInv, SleepTypeOK
  <2>. QED BY <2>1 DEF SleepInv, OldOff, LetSleep, AllAnswered
<1>2. SleepInv /\ [Next]_vars => [LetSleep => old = {}]_vars
  BY <1>1
<1>. QED BY <1>2, SleepSafe, PTL DEF Spec, OldOperationsGone

\* A call that is at its last drain is left by that drain alone.
LEMMA LeftByLastDrain ==
  ASSUME SleepInv, Step, NEW q \in Readers, at[q] = "last", call'[q] = None
  PROVE  LastDrain(q)
<1>. USE KindsApart DEF SleepInv
<1>1. ShimTypeOK /\ call[q] # None /\ Places(q)
  BY DEF ShimInv, Awaited
<1>2. ASSUME NEW r \in Readers, NEW kind, Start(r, kind) PROVE FALSE
  BY <1>1, <1>2 DEF Start, ShimTypeOK
<1>3. ASSUME NEW r \in Readers, DropCall(r) PROVE FALSE
  BY <1>1, <1>3 DEF DropCall, Done, ShimTypeOK
<1>4. ASSUME NEW r \in Readers, Poll(r) PROVE LastDrain(q)
  BY <1>1, <1>4 DEF Poll, Drain, CheckReply, LastDrain, AwaitReply, Join, Done, ShimTypeOK
<1>5. call' # call
  BY <1>1
<1>6. ASSUME NEW r \in Readers, Sensor(r) PROVE FALSE
  BY <1>5, <1>6
     DEF Sensor, WorkerStep, TakeJob, FinishCall, CancelCall, EndWorker, Report, FinishStream, Answer, handle
<1>7. ASSUME NEW r \in Readers, NewReader(r) \/ Served(r) PROVE FALSE
  BY <1>5, <1>7 DEF NewReader, Spawn, Served, DropHandle, shim
<1>8. ASSUME NEW r \in Readers, TakePrio(r) \/ OpenNew(r) \/ (\E kind \in JobKinds : Serves(r, kind)) \/ Abandon(r)
      PROVE  FALSE
  BY <1>2, <1>3, <1>5, <1>8 DEF TakePrio, OpenNew, Serves, Abandon, shim
<1>9. ~Monitor /\ ~Announce /\ ~FallAsleep /\ ~WakeUp
  BY <1>5
     DEF Monitor, Install, Subscribe, Hear, LetSleep, Resumed, Rearm, Announce, FallAsleep, WakeUp, shim
<1>. QED BY <1>4, <1>6, <1>7, <1>8, <1>9 DEF Step, Actor, Callers, Preempt

\* An operation that is awaited to its end has had each of its reports delivered.
THEOREM SleepReportsDelivered == Spec => ReportsDelivered
<1>. DEFINE AllTaken == \A r \in Readers : at[r] = "last" /\ call'[r] = None =>
                       call[r] \notin Held(r) /\ taken'[r] = pushed'[r]
<1>1. SleepInv /\ [Next]_vars => [AllTaken]_shim
  <2>. SUFFICES ASSUME SleepInv, Next, NEW q \in Readers, at[q] = "last", call'[q] = None
                PROVE  call[q] \notin Held(q) /\ taken'[q] = pushed'[q]
    BY DEF vars, parts, shim
  <2>1. LastDrain(q)
    BY LeftByLastDrain DEF Next
  <2>2. taken'[q] = pushed'[q]
    BY <2>1 DEF LastDrain, Gap, Done, SleepInv, ShimInv, ShimTypeOK
  <2>3. call[q] # None /\ jobs[q] = <<>> /\ doing[q] = None
    BY DEF SleepInv, ShimInv, Awaited, Youngest
  <2>. QED BY <2>2, <2>3 DEF Held, ToSet
<1>. QED BY <1>1, SleepSafe, PTL DEF Spec, ReportsDelivered
=============================================================================
