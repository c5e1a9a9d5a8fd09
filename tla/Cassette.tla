------------------------------ MODULE Cassette ------------------------------
(***************************************************************************)
(* Recording a sensor (src/crates/fprint-driverkit/src/record.rs), the same *)
(* session as a monitor of the bus sees it and fpdev import reads it        *)
(* (capture/), and the replay of either (replay.rs), over the reader that   *)
(* the daemon uses at other times.                                          *)
(***************************************************************************)
EXTENDS UsbReader, FiniteSets

CONSTANTS
  Frames,   \* how many captures a recording drives
  Extras    \* a bound on the transfers of others that the monitor sees

ASSUME CassetteAssumption == {Frames, Extras} \subseteq Nat

VARIABLES
  tape,     \* what RecordingTransport has
  cassette, \* what was saved
  trace,    \* what the monitor has seen, or None when there is none
  extra,    \* a transfer of another device, or of another program with the sensor
  extras,   \* how many there were
  urbId     \* the id of the sensor's transfer

monitor == <<trace, extra, extras, urbId>>
vars == <<usb, tape, cassette, monitor>>

Keys == {"sensor", "other"}  \* bus and address
UrbIds == {1, 2}

Init ==
  /\ UsbInit
  /\ tape = <<>> /\ cassette = None
  /\ trace = None
  /\ extra = None /\ extras = 0
  /\ urbId = 1

-----------------------------------------------------------------------------
(* Transfers as a cassette has them: a write, or what was read.             *)

Transfer(kind, name, item) == [kind |-> kind, name |-> name, item |-> item]
Nothing == Item(0, 0, NoHeader)
Kind(name) == IF name \in {"reset"} \cup Keys THEN "control" ELSE "out"
Written(name) == Transfer(Kind(name), name, Nothing)
Read(item) == Transfer("in", "data", item)
Exchange(name, item) == IF name \in Reads THEN Read(item) ELSE Written(name)
-----------------------------------------------------------------------------
(* The monitor sees a transfer go down and come back. Its event has the      *)
(* transfer's id, device, type and direction, and what that half carries.   *)

Event(id, key, type, in, stage, name, item) ==
  [id |-> id, key |-> key, type |-> type, in |-> in, stage |-> stage, name |-> name, item |-> item]

Transfers == {"reset", "configure", "stop", "command", "header", "pixels"}
Items == [of : Nat, size : Nat, claims : Claims]
Types == {"control", "bulk"}
Foreign == [id : UrbIds, key : Keys, type : Types, in : BOOLEAN]
Events == [id : UrbIds, key : Keys, type : Types, in : BOOLEAN, stage : {"submit", "complete"},
           name : Transfers \cup Keys, item : Items]

ASSUME NoneAssumption == None \notin Seq(Events) \cup Foreign

Seen(event) == trace' = IF trace = None THEN None ELSE Append(trace, event)

Type(name) == IF name = "reset" THEN "control" ELSE "bulk"
Down(name, id) == Event(id, "sensor", Type(name), name \in Reads, "submit", name, Nothing)
Up(name, item) == Event(urbId, "sensor", Type(name), name \in Reads, "complete", name, item)

FreeId == CHOOSE id \in UrbIds : extra = None \/ extra.id # id

\* Other devices transfer what they like, and any program may read a
\* descriptor, the sensor's too.
ExtraKinds == {[key |-> "other", type |-> "bulk", in |-> FALSE], [key |-> "other", type |-> "bulk", in |-> TRUE]}
              \cup [key : Keys, type : {"control"}, in : {TRUE}]

ExtraDown ==
  /\ trace # None /\ extra = None /\ extras < Extras
  /\ \E k \in ExtraKinds : \E id \in UrbIds :
       /\ urb => id # urbId
       /\ extra' = [id |-> id, key |-> k.key, type |-> k.type, in |-> k.in]
       /\ Seen(Event(id, k.key, k.type, k.in, "submit", k.key, Nothing))
  /\ extras' = extras + 1
  /\ UNCHANGED <<usb, tape, cassette, urbId>>

ExtraUp ==
  /\ extra # None
  /\ Seen(Event(extra.id, extra.key, extra.type, extra.in, "complete", extra.key, Nothing))
  /\ extra' = None
  /\ UNCHANGED <<usb, tape, cassette, extras, urbId>>

-----------------------------------------------------------------------------
(* fpdev record. The interface is claimed by one program at a time; a        *)
(* monitor may be on from before it starts.                                  *)

RecordProgram == Arm \o Captures(Frames) \o Disarm

BeginRecord ==
  /\ dev = "none" /\ cassette = None /\ trace = None
  /\ Start("record", RecordProgram)
  /\ UNCHANGED dev
  /\ tape' = <<>>
  /\ trace' \in {None, <<>>}
  /\ UNCHANGED <<cassette, extra, extras, urbId>>

Recording == op = "record"

TapedAsAsked(name, item) ==   \* mutant
  Append(tape, Exchange(name, IF name \in Reads THEN [item EXCEPT !.size = Asked(name)] ELSE item))

Taped(name, item) == Append(tape, Exchange(name, item))

SubmitSeen ==
  /\ Submit
  /\ urbId' = FreeId
  /\ IF Recording THEN Seen(Down(Head(todo), FreeId)) ELSE UNCHANGED trace
  /\ UNCHANGED <<tape, cassette, extra, extras>>

Arrived == IF Head(todo) \in Reads THEN Head(sensor.unread) ELSE Nothing

CompleteSeen ==
  /\ Complete
  /\ IF Recording
     THEN /\ tape' = Taped(Head(todo), Arrived)
          /\ Seen(Up(Head(todo), Arrived))
          /\ cassette' = IF Len(todo) = 1 THEN tape' ELSE None
     ELSE UNCHANGED <<tape, trace, cassette>>
  /\ UNCHANGED <<extra, extras, urbId>>

\* A read that the driver refuses came from the transport all the same; an
\* overflow did not.
RefuseSeen ==
  /\ Refuse
  /\ IF Recording
     THEN LET whole == Fits(Head(todo), Head(sensor.unread))
          IN  /\ tape' = IF whole THEN Taped(Head(todo), Arrived) ELSE tape
              /\ Seen(Up(Head(todo), IF whole THEN Arrived ELSE Nothing))
     ELSE UNCHANGED <<tape, trace>>
  /\ UNCHANGED <<cassette, extra, extras, urbId>>

\* A transfer that fails or is cancelled completes as well, with no data; one that
\* could not be submitted shows as an error event, which import skips.
FailureSeen ==
  /\ TransferFails
  /\ \/ UNCHANGED trace
     \/ Recording /\ Seen(Up(Head(todo), Nothing))
  /\ UNCHANGED <<tape, cassette, extra, extras, urbId>>

\* The files are put away.
PutAway ==
  /\ op = "idle" /\ extra = None
  /\ tape # <<>> \/ trace # None
  /\ tape' = <<>> /\ cassette' = None /\ trace' = None /\ extras' = 0
  /\ UNCHANGED <<usb, extra, urbId>>

-----------------------------------------------------------------------------
(* fpdev import.                                                            *)

\* assemble: a write is known when it goes down, a read when it comes up; a
\* control read waits under its id for its answer.
Emit(acc, key, transfer) == [acc EXCEPT !.transfers = Append(@, [key |-> key, transfer |-> transfer])]

Fold(acc, ev) ==
  LET control == ev.type = "control"
      down == ev.stage = "submit"
  IN  CASE control /\ ev.in /\ down -> [acc EXCEPT !.pending = {p \in @ : p[1] # ev.id} \cup {<<ev.id, ev.key>>}]
        [] control /\ ~down /\ (\E p \in acc.pending : p[1] = ev.id) ->
             LET p == CHOOSE p \in acc.pending : p[1] = ev.id
             IN  [Emit(acc, p[2], Written(ev.name)) EXCEPT !.pending = @ \ {p}, !.described = @ \cup {p[2]}]
        [] ~ev.in /\ down -> Emit(acc, ev.key, Written(ev.name))
        [] ev.in /\ ~control /\ ~down -> Emit(acc, ev.key, Read(ev.item))
        [] OTHER -> acc

NothingYet == [transfers |-> <<>>, pending |-> {}, described |-> {}]

Assembled(events) ==
  LET after[n \in 0..Len(events)] == IF n = 0 THEN NothingYet ELSE Fold(after[n - 1], events[n])
  IN  after[Len(events)]

\* What a sequence has at the places of a set, in order.
Place(S, i) == Cardinality({j \in S : j <= i})
Nth(S, k) == CHOOSE i \in S : Place(S, i) = k
Picked(s, S) == [k \in 1..Cardinality(S) |-> s[Nth(S, k)]]

\* build_session by ids, which only a captured descriptor can tell, by place,
\* or with everything.
Kept(filter, assembled) ==
  CASE filter = "ids" -> {"sensor"} \cap assembled.described
    [] filter = "place" -> {"sensor"}
    [] filter = "all" -> Keys
Session(filter, assembled) ==
  LET all == assembled.transfers
  IN  Picked([i \in DOMAIN all |-> all[i].transfer], {i \in DOMAIN all : all[i].key \in Kept(filter, assembled)})

Imported(filter) == Session(filter, Assembled(trace))

-----------------------------------------------------------------------------
(* fpdev replay: what was read is handed back in order, two reads a frame,   *)
(* until one does not make a frame.                                          *)

Ins(session) == {i \in DOMAIN session : session[i].kind = "in"}
ReadsOf(session) == [k \in 1..Cardinality(Ins(session)) |-> session[Nth(Ins(session), k)].item]

\* GrayImage::new, whose refusal `measure` does not expect.
Detectable(size) == size >= MinFrame

MakesImage(h, p) == Acceptable(h) /\ p.size = h.claims /\ Detectable(p.size)   \* mutant
MakesFrame(h, p) == Acceptable(h) /\ p.size = h.claims
Framed(ins, i) == MakesFrame(ins[2 * i - 1], ins[2 * i])
Good(ins) == CHOOSE n \in 0..(Len(ins) \div 2) :
               /\ \A i \in 1..n : Framed(ins, i)
               /\ n < Len(ins) \div 2 => ~Framed(ins, n + 1)

Replay(session) ==
  LET ins == ReadsOf(session)
      n == Good(ins)
  IN  [frames |-> [i \in 1..n |-> [of |-> ins[2 * i].of, header |-> ins[2 * i - 1].of,
                                   claims |-> ins[2 * i - 1].claims, size |-> ins[2 * i].size]],
       diverged |-> n < Len(ins) \div 2 \/ Len(ins) % 2 = 1,
       panicked |-> \E i \in 1..n : ~Detectable(ins[2 * i].size)]

-----------------------------------------------------------------------------
Device ==
  /\ ~Recording /\ tape = <<>> /\ trace = None
  /\ Begin \/ Abandon \/ Die
  /\ UNCHANGED <<tape, cassette, monitor>>

Next ==
  \/ Device
  \/ Touch /\ UNCHANGED <<tape, cassette, monitor>>
  \/ BeginRecord \/ PutAway
  \/ SubmitSeen \/ CompleteSeen \/ RefuseSeen \/ FailureSeen
  \/ ExtraDown \/ ExtraUp

Spec == Init /\ [][Next]_vars

-----------------------------------------------------------------------------
Delivers == Len(frames') > Len(frames)

\* A frame that reaches the pipeline has the pixels of its own header, as many
\* as that claims, whatever was cut short before it.
FrameWhole == \A i \in DOMAIN frames : frames[i].of = frames[i].header /\ frames[i].size = frames[i].claims

\* A frame answers its own capture command, or a capture since the sensor's
\* last reset was cut short and the sensor keeps what nobody has read.
FreshUnlessCut == [][ Delivers => (frames'[Len(frames')].of = commands \/ (~clean /\ sensor.keeps)) ]_vars

\* An open device's sensor is armed.
ArmedWhileOpen == dev = "open" => sensor.armed

\* A cassette that was saved replays to the frames its recording had, unless
\* one of them is too small to measure.
RecordReplays ==
  cassette # None =>
    Replay(cassette) = [frames |-> frames, diverged |-> FALSE,
                        panicked |-> \E i \in DOMAIN frames : ~Detectable(frames[i].size)]

Quiet == ~urb /\ extra = None
\* Without the descriptors that others read from the sensor, which import
\* puts in the session and replay does not hand back.
Ours(session) == Picked(session, {i \in DOMAIN session : session[i].name # "sensor"})

\* What import makes of the monitor's trace is what the recorder taped and, if
\* others read the sensor's descriptors, those reads, whatever other devices
\* did meanwhile. A transfer that failed is one more write, or an empty read, at
\* its end.
ImportAgrees ==
  trace # None /\ Quiet =>
    LET session == Ours(Imported("place"))
    IN  /\ IsPrefix(tape, session)
        /\ Len(session) <= Len(tape) + (IF cassette = None /\ op = "idle" THEN 1 ELSE 0)
        /\ Imported("ids") # <<>> => Imported("ids") = Imported("place")
        /\ (\A i \in DOMAIN trace : trace[i].key = "sensor") => Imported("all") = Imported("place")
=============================================================================
