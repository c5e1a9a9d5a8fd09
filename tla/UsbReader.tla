----------------------------- MODULE UsbReader -----------------------------
(***************************************************************************)
(* A host-image reader on USB: ImageDevice over UsbFrameSource             *)
(* (src/crates/fprint-backend-native/src/image_device.rs, usb/source.rs).  *)
(* Each operation of the device is a sequence of USB transfers; a transfer  *)
(* is submitted, and completes, fails, or is cancelled with the future that *)
(* awaits it.                                                               *)
(*                                                                         *)
(* The sensor is external. What it does with pixels nobody has read when    *)
(* the next capture is commanded is not known: it keeps or it drops them.   *)
(***************************************************************************)
EXTENDS Integers, Sequences, SequencesExt

CONSTANTS
  None,
  Stages,      \* enroll_stages
  HeaderLen,   \* FRAME_HEADER_LEN
  MaxFrame,    \* MAX_FRAME_BYTES
  MinFrame,    \* the fewest pixels that can be detected in
  Shots,       \* what the sensor may send for a touch
  MaxCommands  \* a bound on the captures between two resets

\* A shot is a header and the chunks its pixels come in. A header claims a
\* number of pixels, which may be none, or is garbled.
NoHeader == -1
Claims == Nat \cup {NoHeader}

ASSUME UsbAssumption ==
  /\ {Stages, HeaderLen, MaxFrame, MinFrame, MaxCommands} \subseteq Nat \ {0}
  /\ \A s \in Shots : s.claims \in Claims /\ s.chunks \in Seq(Nat)

VARIABLES
  sensor,   \* armed, the commands it has not answered, the items nobody has read, keeps
  commands, \* how many captures it was asked for since its reset
  dev,      \* the actor's Option<ImageDevice>, with its open flag
  op,       \* the operation that runs on the transport
  todo,     \* its transfers that have not completed
  urb,      \* whether the first of them is submitted
  header,   \* the header that the running capture has read
  frames,   \* the frames the operation has
  clean     \* whether every capture since the reset went to its end

usb == <<sensor, commands, dev, op, todo, urb, header, frames, clean>>

Arm == <<"reset", "configure">>
Disarm == <<"stop", "reset">>
Capture == <<"command", "header", "pixels">>
Captures(n) == [i \in 1..(3 * n) |-> Capture[1 + ((i - 1) % 3)]]

Program(kind) ==
  CASE kind = "open" -> Arm
    [] kind = "close" -> Disarm
    [] kind = "enroll" -> Captures(Stages)
    [] kind = "verify" -> Capture

Streams == {"enroll", "verify"}

UsbInit ==
  /\ sensor \in [armed : BOOLEAN, asked : {<<>>}, unread : {<<>>}, keeps : BOOLEAN]
  /\ commands = 0
  /\ dev = "none"
  /\ op = "idle"
  /\ todo = <<>> /\ urb = FALSE
  /\ header = None /\ frames = <<>>
  /\ clean = TRUE

-----------------------------------------------------------------------------
(* The sensor. An item carries the number of the command that it answers;   *)
(* pixels are never taken for a header.                                     *)

Item(n, size, claims) == [of |-> n, size |-> size, claims |-> claims]
ItemsOf(n, shot) ==
  <<Item(n, HeaderLen, shot.claims)>> \o [i \in DOMAIN shot.chunks |-> Item(n, shot.chunks[i], NoHeader)]

Touch ==
  /\ sensor.armed /\ sensor.asked # <<>>
  /\ \E shot \in Shots :
       sensor' = [sensor EXCEPT !.asked = Tail(@), !.unread = @ \o ItemsOf(Head(sensor.asked), shot)]
  /\ UNCHANGED <<commands, dev, op, todo, urb, header, frames, clean>>

Reads == {"header", "pixels"}

OnlyDisarmed == sensor' = [sensor EXCEPT !.armed = FALSE]   \* mutant
ResetSensor == sensor' = [sensor EXCEPT !.armed = FALSE, !.asked = <<>>, !.unread = <<>>]

\* The transfer reaches the sensor.
Effect(transfer) ==
  CASE transfer = "reset" -> ResetSensor /\ commands' = 0
    [] transfer = "configure" -> sensor' = [sensor EXCEPT !.armed = TRUE] /\ UNCHANGED commands
    [] transfer = "stop" -> sensor' = [sensor EXCEPT !.armed = FALSE] /\ UNCHANGED commands
    [] transfer = "command" /\ sensor.keeps ->
         /\ sensor' = [sensor EXCEPT !.asked = Append(@, commands + 1)]
         /\ commands' = commands + 1
    [] transfer = "command" /\ ~sensor.keeps ->
         /\ sensor' = [sensor EXCEPT !.asked = <<commands + 1>>, !.unread = <<>>]
         /\ commands' = commands + 1
    [] transfer \in Reads ->
         /\ sensor' = [sensor EXCEPT !.unread = Tail(@)]
         /\ UNCHANGED commands

Possible(transfer) == transfer \in Reads => sensor.unread # <<>>

\* The transfer is given up: the sensor may have had it or not.
MaybeEffect(transfer) ==
  \/ Possible(transfer) /\ Effect(transfer)
  \/ UNCHANGED <<sensor, commands>>

-----------------------------------------------------------------------------
(* Operations. The actor takes the device out of its slot for a close, and  *)
(* makes one for an open.                                                   *)

Start(kind, program) ==
  /\ op = "idle"
  /\ op' = kind
  /\ todo' = program
  /\ frames' = <<>>
  /\ UNCHANGED <<sensor, commands, urb, header, clean>>

Taken == "none"

Begin ==
  \/ dev # "open" /\ Start("open", Program("open")) /\ dev' = "closed"
  \/ dev # "none" /\ Start("close", Program("close")) /\ dev' = Taken
  \/ dev = "open" /\ (\E kind \in Streams : Start(kind, Program(kind))) /\ UNCHANGED dev

\* The operation is over; what the capture had so far is gone.
Stop ==
  /\ op' = "idle"
  /\ todo' = <<>>
  /\ urb' = FALSE
  /\ header' = None

\* It fails, or its future is dropped. What the sensor has sent or is still to
\* send for its command stays behind.
Broken == Stop /\ UNCHANGED <<dev, frames>>

Submit ==
  /\ op # "idle" /\ ~urb
  /\ Head(todo) = "command" => commands < MaxCommands
  /\ urb' = TRUE
  /\ UNCHANGED <<sensor, commands, dev, op, todo, header, frames, clean>>

InCapture == op # "idle" /\ Head(todo) \in ToSet(Capture)

\* capture awaits a yield before its first transfer: a future that is dropped
\* there has sent nothing.
AtYield == Head(todo) = "command" /\ ~urb

Abandon ==
  /\ op \in Streams
  /\ \/ AtYield /\ UNCHANGED <<sensor, commands, clean>>
     \/ urb /\ MaybeEffect(Head(todo)) /\ clean' = FALSE
  /\ Broken

\* A transport error.
TransferFails ==
  /\ urb
  /\ MaybeEffect(Head(todo))
  /\ clean' = (clean /\ ~InCapture)
  /\ Broken

\* parse_frame_header and the checks of the geometry it claims.
Acceptable(item) == item.size = HeaderLen /\ item.claims # NoHeader /\ item.claims <= MaxFrame

\* What a read of so many bytes can take: a longer item is an overflow.
Asked(transfer) == IF transfer = "header" THEN HeaderLen ELSE header.claims
Fits(transfer, item) == item.size <= Asked(transfer)

Unchecked(item) == TRUE   \* mutant

\* assemble_frame wants all the pixels.
Assembles(item) == item.size = header.claims

Frame(item) == [of |-> item.of, header |-> header.of, claims |-> header.claims, size |-> item.size]

Refused(transfer, item) ==
  \/ ~Fits(transfer, item)
  \/ transfer = "header" /\ ~Acceptable(item)
  \/ transfer = "pixels" /\ ~Assembles(item)

Completes ==
  /\ urb /\ Possible(Head(todo))
  /\ Head(todo) \in Reads => ~Refused(Head(todo), Head(sensor.unread))

\* The last transfer's completion ends the operation.
Advance ==
  /\ todo' = Tail(todo)
  /\ urb' = FALSE
  /\ op' = IF Len(todo) = 1 THEN "idle" ELSE op
  /\ dev' = IF Len(todo) = 1 /\ op = "open" THEN "open" ELSE dev

Complete ==
  /\ Completes
  /\ Effect(Head(todo))
  /\ Advance
  /\ header' = IF Head(todo) = "header" THEN Head(sensor.unread) ELSE IF Head(todo) = "pixels" THEN None ELSE header
  /\ frames' = IF Head(todo) = "pixels" THEN Append(frames, Frame(Head(sensor.unread))) ELSE frames
  /\ clean' = (clean \/ Head(todo) = "reset")

\* A read that arrives and is refused.
Refuse ==
  /\ urb /\ Head(todo) \in Reads /\ Possible(Head(todo))
  /\ Refused(Head(todo), Head(sensor.unread))
  /\ Effect(Head(todo))
  /\ clean' = FALSE
  /\ Broken

\* The daemon dies; what it had submitted is cancelled.
Die ==
  /\ dev # "none" \/ op # "idle"
  /\ IF urb THEN MaybeEffect(Head(todo)) ELSE UNCHANGED <<sensor, commands>>
  /\ clean' = (clean /\ op = "idle")
  /\ dev' = "none"
  /\ Stop
  /\ frames' = <<>>

=============================================================================
