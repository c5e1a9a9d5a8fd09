----------------------------- MODULE SleepCycle -----------------------------
(***************************************************************************)
(* Sleep integration (src/crates/fprintd/src/sleep.rs) over the readers'   *)
(* actors and the libfprint backend: the monitor holds logind's delay lock, *)
(* suspends every reader when a sleep is announced, lets go of the lock     *)
(* when all have answered, and resumes the readers and takes the lock       *)
(* again after it.                                                          *)
(*                                                                         *)
(* Of an actor this module keeps what a suspend meets: one command at a     *)
(* time, suspends and resumes first, and an operation on the sensor that    *)
(* gives way.  DeviceActor has its channels and callers.                    *)
(***************************************************************************)
EXTENDS LibfprintShim

CONSTANTS
  Offered,  \* the commands that the callers of each reader use
  Heard     \* a bound on the signals that wait for the monitor

ASSUME SleepAssumption ==
  /\ Offered \in [Readers -> SUBSET {"open", "close", "stream", "unary"}]
  /\ Heard \in Nat \ {0}

VARIABLES
  command, \* what each actor serves
  prio,    \* the suspend or resume that it has not answered
  monitor, \* where the monitor's task is
  held,    \* whether the daemon has the delay lock
  signals, \* PrepareForSleep as the monitor will see it
  logind,  \* the system
  old      \* the operations that were there when the suspends were sent

sleep == <<command, prio, monitor, held, signals, logind>>
parts == <<shim, sleep>>
vars == <<parts, old>>

Subscribed == monitor \in {"listening", "suspending", "resuming", "rearming"}

SleepTypeOK ==
  /\ ShimTypeOK
  /\ command \in [Readers -> JobKinds \cup {"none", "making"}]
  /\ prio \in [Readers -> {"none", "suspend", "resume"}]
  /\ monitor \in {"install", "subscribe", "listening", "suspending", "resuming", "rearming", "off"}
  /\ held \in BOOLEAN
  /\ signals \in Seq(BOOLEAN) /\ Len(signals) <= Heard
  /\ logind \in {"awake", "announced", "asleep"}
  /\ old \subseteq Readers \X Tokens

\* The daemon may start at any moment of a sleep.
Init ==
  /\ ShimInit
  /\ command = [r \in Readers |-> "none"]
  /\ prio = [r \in Readers |-> "none"]
  /\ monitor = "install"
  /\ held = FALSE
  /\ signals = <<>>
  /\ logind \in {"awake", "announced", "asleep"}
  /\ old = {}

\* The streaming jobs that are on the sensor or on their way to it.
Live == {o \in Readers \X Tokens :
           \E j \in Held(o[1]) \ {None} : j.kind \in Streams /\ j.token = o[2]}

-----------------------------------------------------------------------------
(* The actors.                                                             *)

Serve(r, kind) == command' = [command EXCEPT ![r] = kind]

\* A command is taken when no suspend or resume waits; without a reader in the
\* slot it is refused at once, which changes nothing.
Serves(r, kind) ==
  /\ kind \in Offered[r]
  /\ command[r] = "none" /\ prio[r] = "none"
  /\ Start(r, kind)
  /\ Serve(r, kind)
  /\ UNCHANGED <<prio, monitor, held, signals, logind>>

\* Open makes a reader first when there is none in the slot.
NewReader(r) ==
  /\ "open" \in Offered[r]
  /\ command[r] = "none" /\ prio[r] = "none"
  /\ Spawn(r)
  /\ Serve(r, "making")
  /\ UNCHANGED <<prio, monitor, held, signals, logind>>

OpenNew(r) ==
  /\ command[r] = "making"
  /\ Start(r, "open")
  /\ Serve(r, "open")
  /\ UNCHANGED <<prio, monitor, held, signals, logind>>

TakePrio(r) ==
  /\ prio[r] # "none" /\ command[r] = "none"
  /\ IF at[r] = "none"
     THEN prio' = [prio EXCEPT ![r] = "none"] /\ UNCHANGED <<shim, command>>
     ELSE Start(r, prio[r]) /\ Serve(r, prio[r]) /\ UNCHANGED prio
  /\ UNCHANGED <<monitor, held, signals, logind>>

\* The command's future has returned.
Served(r) ==
  /\ command[r] \in JobKinds /\ at[r] = "free"
  /\ IF command[r] = "close" THEN DropHandle(r) ELSE UNCHANGED shim
  /\ Serve(r, "none")
  /\ prio' = IF command[r] \in {"suspend", "resume"} THEN [prio EXCEPT ![r] = "none"] ELSE prio
  /\ UNCHANGED <<monitor, held, signals, logind>>

\* The select! of a streaming operation.
Abandon(r) ==
  /\ command[r] \in Streams
  /\ DropCall(r)
  /\ Serve(r, "none")
  /\ UNCHANGED <<prio, monitor, held, signals, logind>>

Preempt(r) == prio[r] # "none" /\ Abandon(r)

\* The actor's thread is in the handle's drop, or awaits its poll.
Actor(r) ==
  \/ TakePrio(r) \/ Preempt(r) \/ OpenNew(r) \/ Served(r)
  \/ Poll(r) /\ UNCHANGED sleep

Callers(r) == NewReader(r) \/ (\E kind \in JobKinds : Serves(r, kind)) \/ Abandon(r)

-----------------------------------------------------------------------------
(* The monitor.                                                            *)

Install ==
  /\ monitor = "install"
  /\ \/ monitor' = "subscribe" /\ held' = TRUE
     \/ monitor' = "off" /\ UNCHANGED held
  /\ UNCHANGED <<shim, command, prio, signals, logind>>

\* Without the signals the task ends, and its lock with it.
Subscribe ==
  /\ monitor = "subscribe"
  /\ \/ monitor' = "listening" /\ UNCHANGED held
     \/ monitor' = "off" /\ held' = FALSE
  /\ UNCHANGED <<shim, command, prio, signals, logind>>

Hear ==
  /\ monitor = "listening" /\ signals # <<>>
  /\ signals' = Tail(signals)
  /\ monitor' = IF Head(signals) THEN "suspending" ELSE "resuming"
  /\ prio' = [r \in Readers |-> IF Head(signals) THEN "suspend" ELSE "resume"]
  /\ UNCHANGED <<shim, command, held, logind>>

AnyAnswered == \E r \in Readers : prio[r] = "none"   \* mutant
AllAnswered == \A r \in Readers : prio[r] = "none"

LetSleep ==
  /\ monitor = "suspending" /\ AllAnswered
  /\ held' = FALSE
  /\ monitor' = "listening"
  /\ UNCHANGED <<shim, command, prio, signals, logind>>

Resumed ==
  /\ monitor = "resuming" /\ AllAnswered
  /\ monitor' = "rearming"
  /\ UNCHANGED <<shim, command, prio, held, signals, logind>>

\* The lock of the last cycle, if it is still held, goes when the new one comes
\* or is refused.
Rearm ==
  /\ monitor = "rearming"
  /\ held' \in BOOLEAN
  /\ monitor' = "listening"
  /\ UNCHANGED <<shim, command, prio, signals, logind>>

Monitor == Install \/ Subscribe \/ Hear \/ LetSleep \/ Resumed \/ Rearm

-----------------------------------------------------------------------------
(* logind.                                                                 *)

Signal(start) == signals' = IF Subscribed THEN Append(signals, start) ELSE signals

Announce ==
  /\ logind = "awake" /\ Len(signals) < Heard
  /\ logind' = "announced"
  /\ Signal(TRUE)
  /\ UNCHANGED <<shim, command, prio, monitor, held>>

\* When nobody delays it, or when InhibitDelayMaxSec is over.
FallAsleep ==
  /\ logind = "announced"
  /\ logind' = "asleep"
  /\ UNCHANGED <<shim, command, prio, monitor, held, signals>>

WakeUp ==
  /\ logind = "asleep" /\ Len(signals) < Heard
  /\ logind' = "awake"
  /\ Signal(FALSE)
  /\ UNCHANGED <<shim, command, prio, monitor, held>>

-----------------------------------------------------------------------------
Sensor(r) == (WorkerStep(r) \/ Report(r) \/ FinishStream(r)) /\ UNCHANGED sleep

Step ==
  \/ \E r \in Readers : Actor(r) \/ Callers(r) \/ Sensor(r)
  \/ Monitor \/ Announce \/ FallAsleep \/ WakeUp

\* Operations leave `old` when their call on the sensor has returned.
Next == Step /\ old' = (IF monitor = "listening" /\ monitor' = "suspending" THEN Live ELSE old) \cap Live'

Spec == Init /\ [][Next]_vars

\* The threads and the runtime's tasks keep running and libfprint's calls
\* return, but an operation waits for a finger for ever.
Fairness ==
  /\ \A r \in Readers : WF_parts(Actor(r)) /\ WF_parts(WorkerStep(r) /\ UNCHANGED sleep)
  /\ WF_parts(Monitor)

FairSpec == Spec /\ Fairness

-----------------------------------------------------------------------------
\* When the daemon lets a sleep proceed, the operations that were there when
\* it was announced are off every sensor, also those whose futures were
\* dropped and are still on their way out.
OldOperationsGone ==
  [][ LetSleep => old = {} ]_vars

\* An announced sleep that the monitor hears is let go without a finger and
\* without logind's timeout, whatever the readers are doing.
SleepLetGo == TRUE \in ToSet(signals) ~> ~held
=============================================================================
