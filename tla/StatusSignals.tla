--------------------------- MODULE StatusSignals ---------------------------
(***************************************************************************)
(* What a client is told: the signals of the operations of one session     *)
(* (device.rs, status.rs).  A start spawns a pump and, for a verify, tells *)
(* afterwards which finger was selected; the pump sends its command to the *)
(* actor, hears the reports of the sensor through a channel of Cap places  *)
(* that drops what it has no room for, picks at random between report,     *)
(* stop and reply, and turns what it hears into statuses, of which the one *)
(* marked done ends the operation.  Device has the sessions and the finger *)
(* status, and with it the reports of a verify, which carry nothing else;  *)
(* here a pump is what it says.                                            *)
(***************************************************************************)
EXTENDS Naturals, Sequences, FiniteSets

CONSTANTS
    Pumps,       \* the operations, one pump each
    Fingers,     \* the fingers with a print
    Galleries,   \* what a verify may be asked to match: sequences of fingers
    None,        \* no pump, no finger
    Stages,      \* enroll_stages of the reader
    Cap,         \* places of a report channel (eight in the code)
    MaxReports,  \* bound: reports of one command
    MaxTries     \* bound: commands of one verify

ASSUME SignalsAssumption ==
    /\ None \notin Pumps /\ None \notin Fingers
    /\ \A g \in Galleries : g \in Seq(Fingers) /\ g # <<>>
    /\ Stages \in Nat \ {0} /\ Cap \in Nat \ {0}
    /\ MaxReports \in Nat /\ MaxTries \in Nat

VARIABLES
    patient,    \* whether the client awaits its starts' replies, and a verdict before it stops
    pump,       \* the task of each operation
    active,     \* the slot: the pump that a stop would reach
    selecting,  \* the starts that have yet to tell the selected finger
    latest,     \* the operation started last
    rx,         \* the actor's commands, the one it serves first
    queue,      \* the report channel of each pump's command
    answer,     \* the last reply to each pump's command
    saved,      \* the enrolments whose print is in the store
    told,       \* the signals of each operation, in order
    tally       \* of each pump: its command's stages done and reports made, the
                \* stage its client last heard of, and its commands so far

vars == <<patient, pump, active, selecting, latest, rx, queue, answer, saved, told, tally>>

Kinds == {"enroll", "verify", "identify"}

\* What a reader can answer; the index is of the gallery's print that matched,
\* or of none if the reader miscounts.  Gone is the reply that never comes: the
\* actor's task ended and dropped its sender.
Classes == {"print", "matched", "unmatched", "retry", "cancelled", "error", "gone"}
NoAnswer == [class |-> "none", index |-> 0]
Outcome(class, index) == [class |-> class, index |-> index]
Answers == [class : Classes, index : Nat]

Names == {"finger-selected", "finger-matched",
          "enroll-stage-passed", "enroll-retry", "enroll-completed", "enroll-failed", "enroll-error",
          "verify-match", "verify-no-match", "verify-retry", "verify-error"}
Signal(name, done) == [name |-> name, finger |-> None, done |-> done]
Naming(name, finger) == [name |-> name, finger |-> finger, done |-> FALSE]
Signals == [name : Names, finger : Fingers \cup {None}, done : BOOLEAN]

Reports == [stage : 0 .. Stages, retry : BOOLEAN]

Idle == [pc |-> "unused", kind |-> "enroll", gallery |-> <<>>, stop |-> FALSE,
         out |-> <<>>, next |-> "ended"]
Fresh == [stage |-> 0, made |-> 0, heard |-> 0, tries |-> 0]

Init ==
    /\ patient \in BOOLEAN
    /\ pump = [p \in Pumps |-> Idle]
    /\ active = None /\ latest = None
    /\ selecting = {} /\ saved = {}
    /\ rx = <<>>
    /\ queue = [p \in Pumps |-> <<>>]
    /\ answer = [p \in Pumps |-> NoAnswer]
    /\ told = [p \in Pumps |-> <<>>]
    /\ tally = [p \in Pumps |-> Fresh]

----------------------------------------------------------------------------
(* The client's calls.                                                     *)

Finished(p) == pump[p].pc = "ended"
Running(p) == pump[p].pc \notin {"unused", "ended"}
HasVerdict(p) == \E i \in DOMAIN told[p] : told[p][i].done

\* Mutant: the slot is looked at as if an operation were never running.
SlotAlwaysFree == TRUE

\* begin_op: refused while the pump in the slot runs; the pump is spawned
\* under the slot's lock.
SlotFree == active # None => Finished(active)

BeginOp(p, kind, gallery) ==
    /\ SlotFree
    /\ pump' = [pump EXCEPT ![p] = [Idle EXCEPT !.pc = "sending", !.kind = kind, !.gallery = gallery]]
    /\ active' = p /\ latest' = p

\* enroll_start
EnrollStart(p) ==
    /\ pump[p].pc = "unused"
    /\ patient => selecting = {}
    /\ BeginOp(p, "enroll", <<>>)
    /\ UNCHANGED <<selecting, rx, queue, answer, saved, told, tally>>

\* verify_start: one print is verified, several are identified.
VerifyStart(p, gallery) ==
    /\ pump[p].pc = "unused"
    /\ patient => selecting = {}
    /\ BeginOp(p, IF Len(gallery) = 1 THEN "verify" ELSE "identify", gallery)
    /\ selecting' = selecting \cup {p}
    /\ UNCHANGED <<rx, queue, answer, saved, told, tally>>

\* ... and tells the finger only then, while the pump is at work.
TellSelected(p) ==
    /\ p \in selecting
    /\ selecting' = selecting \ {p}
    /\ told' = [told EXCEPT ![p] = Append(@,
                    Naming("finger-selected",
                           IF pump[p].kind = "verify" THEN pump[p].gallery[1] ELSE None))]
    /\ UNCHANGED <<pump, active, latest, rx, queue, answer, saved, tally>>

\* stop_active, of a stop or a teardown: the slot is emptied at once, whether
\* or not the pump still runs.
Stop ==
    /\ active # None
    /\ patient => selecting = {} /\ HasVerdict(active)
    /\ active' = None
    /\ pump' = IF Finished(active) THEN pump ELSE [pump EXCEPT ![active].stop = TRUE]
    /\ UNCHANGED <<selecting, latest, rx, queue, answer, saved, told, tally>>

----------------------------------------------------------------------------
(* The actor and the sensor: the first command is served.                  *)

Served(p) == rx # <<>> /\ Head(rx) = p

\* The callback's try_send: without room, or without a receiver, the report
\* is gone.
TrySend(p, report) ==
    queue' = [queue EXCEPT ![p] = IF Finished(p) \/ Len(@) >= Cap THEN @ ELSE Append(@, report)]

\* A capture of an enrolment: a stage done, or one to be tried again.
Capture(p, retry) ==
    LET stage == IF retry THEN tally[p].stage ELSE tally[p].stage + 1 IN
    /\ Served(p) /\ pump[p].kind = "enroll"
    /\ tally[p].stage < Stages /\ tally[p].made < MaxReports
    /\ tally' = [tally EXCEPT ![p].stage = stage, ![p].made = @ + 1]
    /\ TrySend(p, [stage |-> stage, retry |-> retry])
    /\ UNCHANGED <<pump, active, selecting, latest, rx, answer, saved, told>>

Reply(p, outcome) ==
    /\ Served(p)
    /\ rx' = Tail(rx)
    /\ answer' = [answer EXCEPT ![p] = outcome]
    /\ UNCHANGED <<pump, active, selecting, latest, queue, saved, told, tally>>

\* The print is made of the captures of all stages.
EnrollDone(p) ==
    pump[p].kind = "enroll" /\ tally[p].stage = Stages /\ Reply(p, Outcome("print", 0))

\* The reader's verdict: for several prints the index of one, which the
\* daemon does not trust to be in range.
Compared(p) ==
    /\ pump[p].kind # "enroll"
    /\ \/ Reply(p, Outcome("unmatched", 0))
       \/ \E i \in 1 .. IF pump[p].kind = "verify" THEN 1 ELSE Len(pump[p].gallery) + 1 :
            Reply(p, Outcome("matched", i))

RetryScan(p) ==
    pump[p].kind # "enroll" /\ tally[p].tries < MaxTries /\ Reply(p, Outcome("retry", 0))

Fails(p) == Reply(p, Outcome("error", 0))

\* A suspend, or the pump's cancel sender: a verify drops it before its last
\* publication, an enrolment with its task.
Cancelled(p) == Reply(p, Outcome("cancelled", 0))

\* The actor's task ends, in a panic of the reader's driver: the command at work,
\* those in the channel and any sent later find nobody to answer them.
ActorGone == \E p \in Pumps : answer[p].class = "gone"
Lost(p) == Reply(p, Outcome("gone", 0))

----------------------------------------------------------------------------
(* The pumps.                                                              *)

Goto(p, pc) == pump' = [pump EXCEPT ![p].pc = pc]
Say(p, statuses, next) ==
    pump' = [pump EXCEPT ![p].pc = "telling", ![p].out = statuses, ![p].next = next]

\* A command with channels of its own, for each attempt.
PumpSend(p) ==
    /\ pump[p].pc = "sending"
    /\ Goto(p, "waiting")
    /\ rx' = Append(rx, p)
    /\ queue' = [queue EXCEPT ![p] = <<>>]
    /\ answer' = [answer EXCEPT ![p] = NoAnswer]
    /\ tally' = [tally EXCEPT ![p] = [Fresh EXCEPT !.tries = tally[p].tries + 1]]
    /\ UNCHANGED <<active, selecting, latest, saved, told>>

\* Mutant: the last stage is told like the others.
EveryStagePassed(report) ==
    IF report.retry THEN <<Signal("enroll-retry", FALSE)>> ELSE <<Signal("enroll-stage-passed", FALSE)>>

\* enroll_progress: the last stage is left to the result.
EnrollProgress(report) ==
    IF report.retry THEN <<Signal("enroll-retry", FALSE)>>
    ELSE IF report.stage < Stages THEN <<Signal("enroll-stage-passed", FALSE)>>
    ELSE <<>>

\* The pump's select! picks among what is ready: a report ...
PumpReport(p) ==
    /\ pump[p].pc = "waiting" /\ queue[p] # <<>>
    /\ Say(p, EnrollProgress(Head(queue[p])), "waiting")
    /\ queue' = [queue EXCEPT ![p] = Tail(@)]
    /\ tally' = [tally EXCEPT ![p].heard = Head(queue[p]).stage]
    /\ UNCHANGED <<active, selecting, latest, rx, answer, saved, told>>

\* ... its stop, after which it says nothing ...
PumpStopped(p) ==
    /\ pump[p].pc = "waiting" /\ pump[p].stop
    /\ Goto(p, "closing")
    /\ UNCHANGED <<active, selecting, latest, rx, queue, answer, saved, told, tally>>

\* ... or the reply; without one it ends as silently.
PumpUnanswered(p) ==
    /\ pump[p].pc = "waiting" /\ answer[p].class = "gone"
    /\ Goto(p, "closing")
    /\ UNCHANGED <<active, selecting, latest, rx, queue, answer, saved, told, tally>>

Answered(p) == answer[p] # NoAnswer /\ answer[p].class # "gone"

\* An enrolment saves its print first;
EnrollReply(p) ==
    /\ pump[p].pc = "waiting" /\ pump[p].kind = "enroll" /\ Answered(p)
    /\ \/ /\ answer[p].class = "print"
          /\ \/ saved' = saved \cup {p} /\ Say(p, <<Signal("enroll-completed", TRUE)>>, "closing")
             \/ saved' = saved /\ Say(p, <<Signal("enroll-failed", TRUE)>>, "closing")
       \/ /\ answer[p].class # "print"
          /\ saved' = saved
          /\ Say(p, <<Signal(IF answer[p].class = "cancelled" THEN "enroll-failed" ELSE "enroll-error",
                             TRUE)>>, "closing")
    /\ UNCHANGED <<active, selecting, latest, rx, queue, answer, told, tally>>

\* Mutant: an index out of range is taken for the first print.
MatchedOrFirst(p) ==
    IF answer[p].class # "matched" THEN None
    ELSE pump[p].gallery[IF answer[p].index \in DOMAIN pump[p].gallery THEN answer[p].index ELSE 1]

\* the finger of the print that matched, if the reader named one;
MatchedFinger(p) ==
    IF answer[p].class = "matched" /\ answer[p].index \in DOMAIN pump[p].gallery
    THEN pump[p].gallery[answer[p].index] ELSE None

\* Mutant: a failure ends the verify without a word.
VerdictUnlessError(p) ==
    IF answer[p].class = "error" THEN <<>>
    ELSE IF MatchedFinger(p) # None
    THEN <<Naming("finger-matched", MatchedFinger(p)), Signal("verify-match", TRUE)>>
    ELSE <<Signal("verify-no-match", TRUE)>>

\* a match is told twice, the finger first (verify_match, verify_error).
Verdict(p) ==
    IF MatchedFinger(p) # None
    THEN <<Naming("finger-matched", MatchedFinger(p)), Signal("verify-match", TRUE)>>
    ELSE <<Signal(IF answer[p].class = "error" THEN "verify-error" ELSE "verify-no-match", TRUE)>>

\* Mutant: a retry ends the verify for the client.
RetryIsVerdict == <<Signal("verify-retry", TRUE)>>

VerifyRetry == <<Signal("verify-retry", FALSE)>>

VerifyReply(p) ==
    /\ pump[p].pc = "waiting" /\ pump[p].kind # "enroll" /\ Answered(p)
    /\ IF answer[p].class = "retry" THEN Say(p, VerifyRetry, "sending")
                                    ELSE Say(p, Verdict(p), "closing")
    /\ UNCHANGED <<active, selecting, latest, rx, queue, answer, saved, told, tally>>

\* One signal after the other, each an await of its own.
Tell(p) ==
    /\ pump[p].pc = "telling" /\ pump[p].out # <<>>
    /\ told' = [told EXCEPT ![p] = Append(@, Head(pump[p].out))]
    /\ pump' = [pump EXCEPT ![p].out = Tail(@)]
    /\ UNCHANGED <<active, selecting, latest, rx, queue, answer, saved, tally>>

\* All is said: the finger status is published, and the loop goes on.
Told(p) ==
    /\ pump[p].pc = "telling" /\ pump[p].out = <<>>
    /\ Goto(p, pump[p].next)
    /\ UNCHANGED <<active, selecting, latest, rx, queue, answer, saved, told, tally>>

PumpEnd(p) ==
    /\ pump[p].pc = "closing"
    /\ Goto(p, "ended")
    /\ UNCHANGED <<active, selecting, latest, rx, queue, answer, saved, told, tally>>

PumpStep(p) ==
    \/ PumpSend(p) \/ PumpReport(p) \/ PumpStopped(p) \/ PumpUnanswered(p)
    \/ EnrollReply(p) \/ VerifyReply(p) \/ Tell(p) \/ Told(p) \/ PumpEnd(p)

SensorStep(p) ==
    \/ Lost(p)
    \/ /\ ~ActorGone
       /\ \/ \E retry \in BOOLEAN : Capture(p, retry)
          \/ EnrollDone(p) \/ Compared(p) \/ RetryScan(p) \/ Fails(p) \/ Cancelled(p)

ClientStep(p) ==
    EnrollStart(p) \/ (\E gallery \in Galleries : VerifyStart(p, gallery)) \/ TellSelected(p)

Next ==
    /\ Stop \/ \E p \in Pumps : ClientStep(p) \/ SensorStep(p) \/ PumpStep(p)
    /\ UNCHANGED patient

Spec == Init /\ [][Next]_vars

----------------------------------------------------------------------------
(* Properties.                                                             *)

\* Type correctness.
TypeOK ==
    /\ patient \in BOOLEAN
    /\ pump \in [Pumps -> [pc : {"unused", "sending", "waiting", "telling", "closing", "ended"},
                           kind : Kinds, gallery : Seq(Fingers), stop : BOOLEAN,
                           out : Seq(Signals), next : {"waiting", "sending", "closing", "ended"}]]
    /\ active \in Pumps \cup {None} /\ latest \in Pumps \cup {None}
    /\ selecting \subseteq Pumps /\ saved \subseteq Pumps
    /\ rx \in Seq(Pumps)
    /\ queue \in [Pumps -> Seq(Reports)]
    /\ answer \in [Pumps -> Answers \cup {NoAnswer}]
    /\ told \in [Pumps -> Seq(Signals)]
    /\ tally \in [Pumps -> [stage : 0 .. Stages, made : Nat, heard : 0 .. Stages, tries : Nat]]

\* An operation ends with its verdict, the one status marked done: none follows
\* it but the late news of which finger was selected, a retry is none
\* (dbus_result_confusion.rs names that untested), and no operation ends without
\* one unless it was stopped or the actor is gone.
VerdictLast ==
    \A p \in Pumps :
        /\ \A i, j \in DOMAIN told[p] :
              told[p][i].done /\ i < j => told[p][j].name = "finger-selected"
        /\ Finished(p) => HasVerdict(p) \/ pump[p].stop \/ answer[p].class = "gone"

\* What is told is so.  An enrolment is completed when its print is in the
\* store, and not else; the finger named is that of a print of the gallery that
\* the reader matched, an index out of range being no match; it is named before
\* the match is told; and no match is told of a print that did match.
VerdictTrue ==
    \A p \in Pumps : \A i \in DOMAIN told[p] :
        LET name == told[p][i].name
            inGallery == answer[p].class = "matched" /\ answer[p].index \in DOMAIN pump[p].gallery IN
        /\ name = "enroll-completed" => p \in saved
        /\ name \in {"enroll-failed", "enroll-error"} => p \notin saved
        /\ name = "finger-matched" =>
              inGallery /\ told[p][i].finger = pump[p].gallery[answer[p].index]
        /\ name = "verify-match" => \E j \in 1 .. i - 1 : told[p][j].name = "finger-matched"
        /\ name = "verify-no-match" => ~inGallery

\* A client that counts the stages passed never counts the last one, however
\* many tries it took; and when an enrolment is completed it has counted all the
\* others, if no more reports were made than the channel has places and none is
\* left in it (the reply may overtake them).
Passed(p) == Cardinality({i \in DOMAIN told[p] : told[p][i].name = "enroll-stage-passed"})

StagesTold ==
    \A p \in Pumps :
        /\ Passed(p) < Stages
        /\ p \in saved /\ HasVerdict(p) /\ tally[p].made <= Cap /\ queue[p] = <<>> =>
              Passed(p) = Stages - 1

\* To a client that awaits its start's reply and the verdict before it stops,
\* only the operation started last speaks, although a stop empties the slot while
\* the pump still runs.
NewsIsCurrent ==
    [][patient => \A p \in Pumps : told'[p] # told[p] => p = latest]_told
=============================================================================
