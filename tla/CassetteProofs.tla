--------------------------- MODULE CassetteProofs ---------------------------
(***************************************************************************)
(* What holds of the frames of a USB reader, for any shots of the sensor,   *)
(* limits and operations, under the daemon or a recording: whatever is cut  *)
(* short, refused or abandoned, a frame has the pixels of its own header,   *)
(* and it answers its own command unless a capture was cut short before.    *)
(*                                                                         *)
(* The argument is about what the sensor's pipe still holds: a header is    *)
(* followed by pixels of its own shot, so what was left behind is refused   *)
(* before it makes a frame (WholePipe); and while every capture went to     *)
(* its end the pipe has no header but the one that is asked for (FreshPipe).*)
(* A recording's tape has the reads of its frames (TapeInv), and an import   *)
(* of the bus trace has the tape (TraceInv).                                *)
(***************************************************************************)
EXTENDS Cassette, SequenceTheorems, FiniteSetTheorems, WellFoundedInduction, TLAPS

\* The sensor sends pixels with every header.
ShotsHavePixels == \A s \in Shots : s.chunks # <<>>

-----------------------------------------------------------------------------
(* The inductive invariant.                                                *)

\* The types of the reader's state.
Sensors == [armed : BOOLEAN, asked : Seq(Nat), unread : Seq(Items), keeps : BOOLEAN]

ReaderTyped ==
  /\ sensor \in Sensors /\ commands \in Nat
  /\ todo \in Seq(Transfers) /\ frames \in Seq([of : Nat, header : Nat, claims : Nat, size : Nat])

\* A capture's transfers come in its order.
Ordered(s) == \A i \in DOMAIN s :
  /\ s[i] = "command" => i + 1 \in DOMAIN s /\ s[i + 1] = "header"
  /\ s[i] = "header" => i + 1 \in DOMAIN s /\ s[i + 1] = "pixels"
  /\ i > 1 /\ s[i] = "header" => s[i - 1] = "command"
  /\ i > 1 /\ s[i] = "pixels" => s[i - 1] = "header"

\* The transfer at which the operation is.
At(transfer) == todo # <<>> /\ Head(todo) = transfer
Reading == At("header") \/ At("pixels")

\* What an operation has still to transfer, and for what device.
Programmed ==
  /\ Ordered(todo)
  /\ op = "idle" <=> todo = <<>>
  /\ op = "idle" => ~urb
  /\ op \in Streams => \A i \in DOMAIN todo : todo[i] \in ToSet(Capture)
  /\ op = "open" => todo \in {Arm, Tail(Arm)} /\ dev = "closed"
  /\ dev = "open" => op \in {"idle"} \cup Streams

\* A header is followed by pixels of its shot.
Whole(items) == \A i \in DOMAIN items :
  items[i].claims # NoHeader => i + 1 \in DOMAIN items /\ items[i + 1].of = items[i].of

\* When the pixels are to be read, the pixels of the header are next.
WholePipe ==
  /\ Whole(sensor.unread)
  /\ At("pixels") => /\ header \in Items
                     /\ sensor.unread # <<>> /\ Head(sensor.unread).of = header.of

ReaderInv == ReaderTyped /\ Programmed /\ ArmedWhileOpen /\ WholePipe /\ FrameWhole

\* No shot begins in what is left in the pipe.
NoHeaders(items) == \A i \in DOMAIN items : items[i].claims = NoHeader

\* One shot is asked for or has begun, of the last command.
OneShot ==
  \/ sensor.asked = <<commands>> /\ NoHeaders(sensor.unread)
  \/ /\ sensor.asked = <<>>
     /\ \A i, j \in DOMAIN sensor.unread :
          sensor.unread[i].claims # NoHeader /\ sensor.unread[j].claims # NoHeader => i = j
     /\ \A i \in DOMAIN sensor.unread : sensor.unread[i].claims # NoHeader => sensor.unread[i].of = commands

\* Nothing was cut short, or the sensor drops what is.
Dependable == clean \/ ~sensor.keeps

FreshPipe ==
  /\ clean /\ ~Reading => sensor.asked = <<>> /\ NoHeaders(sensor.unread)
  /\ Dependable /\ At("header") => OneShot
  /\ Dependable /\ At("pixels") =>
       header.of = commands /\ sensor.asked = <<>> /\ NoHeaders(sensor.unread)

-----------------------------------------------------------------------------
(* Sequences.                                                              *)

\* The rest of a sequence.
LEMMA TailOf ==
  ASSUME NEW S, NEW s \in Seq(S), s # <<>>
  PROVE  /\ Tail(s) \in Seq(S) /\ Len(s) \in Nat \ {0} /\ DOMAIN s = 1..Len(s)
         /\ DOMAIN Tail(s) = 1..(Len(s) - 1) /\ Len(Tail(s)) = Len(s) - 1
         /\ \A i \in 1..(Len(s) - 1) : Tail(s)[i] = s[i + 1]
         /\ Head(s) = s[1] /\ s[1] \in S
         /\ (Tail(s) # <<>>) <=> Len(s) > 1
         /\ Tail(s) # <<>> => Head(Tail(s)) = s[2]
<1>1. /\ Tail(s) \in Seq(S) /\ Len(s) \in Nat \ {0} /\ DOMAIN s = 1..Len(s)
      /\ Len(Tail(s)) = Len(s) - 1 /\ DOMAIN Tail(s) = 1..(Len(s) - 1)
      /\ \A i \in 1..(Len(s) - 1) : Tail(s)[i] = s[i + 1]
      /\ Head(s) = s[1] /\ s[1] \in S
  BY HeadTailProperties
<1>2. Tail(s) # <<>> <=> Len(s) > 1
  <2>1. Tail(s) = <<>> <=> Len(Tail(s)) = 0
    BY <1>1, EmptySeq
  <2> QED BY <1>1, <2>1
<1>3. Tail(s) # <<>> => Head(Tail(s)) = s[2]
  BY <1>1, <1>2
<1> QED BY <1>1, <1>2, <1>3

\* What is ordered stays so when its first transfer is done.
LEMMA TailOrdered ==
  ASSUME NEW S, NEW s \in Seq(S), s # <<>>, Ordered(s)
  PROVE  Ordered(Tail(s))
<1>1. /\ Len(s) \in Nat \ {0} /\ DOMAIN s = 1..Len(s) /\ DOMAIN Tail(s) = 1..(Len(s) - 1)
      /\ \A i \in 1..(Len(s) - 1) : Tail(s)[i] = s[i + 1]
  BY TailOf
<1> SUFFICES ASSUME NEW i \in 1..(Len(s) - 1)
             PROVE  /\ Tail(s)[i] = "command" => i + 1 \in 1..(Len(s) - 1) /\ Tail(s)[i + 1] = "header"
                    /\ Tail(s)[i] = "header" => i + 1 \in 1..(Len(s) - 1) /\ Tail(s)[i + 1] = "pixels"
                    /\ i > 1 /\ Tail(s)[i] = "header" => Tail(s)[i - 1] = "command"
                    /\ i > 1 /\ Tail(s)[i] = "pixels" => Tail(s)[i - 1] = "header"
  BY <1>1 DEF Ordered
<1>2. i + 1 \in DOMAIN s /\ Tail(s)[i] = s[i + 1]
  BY <1>1
<1>3. /\ s[i + 1] = "command" => (i + 1) + 1 \in DOMAIN s /\ s[(i + 1) + 1] = "header"
      /\ s[i + 1] = "header" => (i + 1) + 1 \in DOMAIN s /\ s[(i + 1) + 1] = "pixels"
      /\ i + 1 > 1 /\ s[i + 1] = "header" => s[(i + 1) - 1] = "command"
      /\ i + 1 > 1 /\ s[i + 1] = "pixels" => s[(i + 1) - 1] = "header"
  BY <1>2 DEF Ordered
<1>4. i > 1 => Tail(s)[i - 1] = s[i]
  <2>1. i > 1 => i - 1 \in 1..(Len(s) - 1) /\ (i - 1) + 1 = i
    BY <1>1
  <2> QED BY <1>1, <2>1
<1>5. (i + 1) + 1 \in DOMAIN s => i + 1 \in 1..(Len(s) - 1) /\ Tail(s)[i + 1] = s[(i + 1) + 1]
  BY <1>1
<1>6. i \in Int /\ (i + 1) - 1 = i
  BY <1>1
<1> QED BY <1>2, <1>3, <1>4, <1>5, <1>6

\* Two sequences one after the other.
LEMMA Joined ==
  ASSUME NEW S, NEW s \in Seq(S), NEW t \in Seq(S)
  PROVE  /\ s \o t \in Seq(S) /\ Len(s) \in Nat /\ Len(t) \in Nat
         /\ DOMAIN s = 1..Len(s) /\ DOMAIN t = 1..Len(t) /\ DOMAIN (s \o t) = 1..(Len(s) + Len(t))
         /\ \A i \in 1..Len(s) : (s \o t)[i] = s[i]
         /\ \A i \in 1..Len(t) : (s \o t)[Len(s) + i] = t[i]
         /\ \A k \in DOMAIN (s \o t) : k \in DOMAIN s \/ \E i \in DOMAIN t : k = Len(s) + i
<1>1. /\ s \o t \in Seq(S) /\ Len(s \o t) = Len(s) + Len(t)
      /\ \A i \in 1..(Len(s) + Len(t)) : (s \o t)[i] = IF i <= Len(s) THEN s[i] ELSE t[i - Len(s)]
  BY ConcatProperties
<1>2. Len(s) \in Nat /\ Len(t) \in Nat /\ DOMAIN s = 1..Len(s) /\ DOMAIN t = 1..Len(t)
      /\ DOMAIN (s \o t) = 1..(Len(s) + Len(t))
  BY <1>1
<1>3. ASSUME NEW i \in 1..Len(t)
      PROVE  (s \o t)[Len(s) + i] = t[i]
  <2>1. Len(s) + i \in 1..(Len(s) + Len(t)) /\ ~(Len(s) + i <= Len(s)) /\ (Len(s) + i) - Len(s) = i
    BY <1>2
  <2> QED BY <1>1, <2>1
<1>4. ASSUME NEW k \in 1..(Len(s) + Len(t)), k \notin 1..Len(s)
      PROVE  k - Len(s) \in 1..Len(t) /\ k = Len(s) + (k - Len(s))
  BY <1>2, <1>4
<1>5. \A i \in 1..Len(s) : (s \o t)[i] = s[i]
  BY <1>1, <1>2
<1> QED BY <1>1, <1>2, <1>3, <1>4, <1>5

\* Ordered programs make an ordered program, if the second does not begin with
\* a read.
LEMMA JoinedOrdered ==
  ASSUME NEW S, NEW s \in Seq(S), NEW t \in Seq(S), Ordered(s), Ordered(t), t # <<>> => t[1] \notin Reads
  PROVE  Ordered(s \o t)
<1> DEFINE j == s \o t
           m == Len(s)
           n == Len(t)
<1>1. /\ m \in Nat /\ n \in Nat /\ DOMAIN s = 1..m /\ DOMAIN t = 1..n /\ DOMAIN j = 1..(m + n)
      /\ \A i \in 1..m : j[i] = s[i]
      /\ \A i \in 1..n : j[m + i] = t[i]
  BY Joined
<1>2. n > 0 => t[1] \notin Reads
  <2>1. n > 0 => t # <<>>
    BY <1>1
  <2> QED BY <2>1
<1> SUFFICES ASSUME NEW k \in 1..(m + n)
             PROVE  /\ j[k] = "command" => k + 1 \in 1..(m + n) /\ j[k + 1] = "header"
                    /\ j[k] = "header" => k + 1 \in 1..(m + n) /\ j[k + 1] = "pixels"
                    /\ k > 1 /\ j[k] = "header" => j[k - 1] = "command"
                    /\ k > 1 /\ j[k] = "pixels" => j[k - 1] = "header"
  BY <1>1 DEF Ordered
<1> HIDE DEF j, m, n
<1>3. CASE k \in 1..m
  <2>1. /\ s[k] = "command" => k + 1 \in 1..m /\ s[k + 1] = "header"
        /\ s[k] = "header" => k + 1 \in 1..m /\ s[k + 1] = "pixels"
        /\ k > 1 /\ s[k] = "header" => s[k - 1] = "command"
        /\ k > 1 /\ s[k] = "pixels" => s[k - 1] = "header"
    BY <1>1, <1>3 DEF Ordered
  <2>2. k > 1 => k - 1 \in 1..m
    BY <1>1, <1>3
  <2>3. \A i \in 1..m : i \in 1..(m + n)
    BY <1>1
  <2> QED BY <1>1, <1>3, <2>1, <2>2, <2>3
<1>4. CASE k \notin 1..m
  <2> DEFINE i == k - m
  <2>1. i \in 1..n /\ k = m + i
    BY <1>1, <1>4
  <2>2. /\ t[i] = "command" => i + 1 \in 1..n /\ t[i + 1] = "header"
        /\ t[i] = "header" => i + 1 \in 1..n /\ t[i + 1] = "pixels"
        /\ i > 1 /\ t[i] = "header" => t[i - 1] = "command"
        /\ i > 1 /\ t[i] = "pixels" => t[i - 1] = "header"
    BY <1>1, <2>1 DEF Ordered
  <2>3. i + 1 \in 1..n => k + 1 \in 1..(m + n) /\ k + 1 = m + (i + 1)
    BY <1>1, <2>1
  <2>4. i > 1 => i - 1 \in 1..n /\ k - 1 = m + (i - 1)
    BY <1>1, <2>1
  <2>5. ~(i > 1) => i = 1 /\ t[i] \notin {"header", "pixels"}
    BY <1>1, <1>2, <2>1 DEF Reads
  <2> HIDE DEF i
  <2> QED BY <1>1, <2>1, <2>2, <2>3, <2>4, <2>5
<1> QED BY <1>3, <1>4

-----------------------------------------------------------------------------
(* The operations' programs.                                               *)

\* A program is made of transfers in their order and does not begin with a read.
Sound(program) ==
  program \in Seq(Transfers) /\ program # <<>> /\ Ordered(program) /\ program[1] \notin Reads

\* A capture's transfers.
LEMMA CaptureTransfers == ToSet(Capture) = {"command", "header", "pixels"}
BY DEF ToSet, Capture

\* The captures of an enrolment or a recording.
LEMMA CapturesOrdered ==
  ASSUME NEW n \in Nat
  PROVE  /\ Captures(n) \in Seq(ToSet(Capture)) /\ Ordered(Captures(n))
         /\ Captures(n) # <<>> => Captures(n)[1] \notin Reads
         /\ n # 0 => Captures(n) # <<>>
<1> DEFINE c == Captures(n)
           At3(i) == (i - 1) % 3
<1>1. DOMAIN c = 1..(3 * n) /\ 3 * n \in Nat
  BY DEF Captures
<1>2. ASSUME NEW i \in 1..(3 * n)
      PROVE  /\ At3(i) \in 0..2
             /\ At3(i) = 0 => c[i] = "command" /\ i + 1 \in 1..(3 * n) /\ At3(i + 1) = 1
             /\ At3(i) = 1 => c[i] = "header" /\ i + 1 \in 1..(3 * n) /\ At3(i + 1) = 2 /\ i > 1 /\ At3(i - 1) = 0
             /\ At3(i) = 2 => c[i] = "pixels" /\ i > 1 /\ At3(i - 1) = 1
  <2>1. c[i] = Capture[1 + At3(i)]
    BY DEF Captures
  <2>2. /\ At3(i) \in 0..2
        /\ At3(i) = 0 => i + 1 \in 1..(3 * n) /\ At3(i + 1) = 1
        /\ At3(i) = 1 => i + 1 \in 1..(3 * n) /\ At3(i + 1) = 2 /\ i > 1 /\ At3(i - 1) = 0
        /\ At3(i) = 2 => i > 1 /\ At3(i - 1) = 1
    OBVIOUS
  <2> HIDE DEF At3
  <2>3. Capture[1 + 0] = "command" /\ Capture[1 + 1] = "header" /\ Capture[1 + 2] = "pixels"
    BY DEF Capture
  <2> QED BY <2>1, <2>2, <2>3
<1>3. At3(1) = 0
  OBVIOUS
<1> HIDE DEF At3, c
<1>4. \A i \in 1..(3 * n) : c[i] \in {"command", "header", "pixels"}
  BY <1>2
<1>5. c \in Seq({"command", "header", "pixels"}) /\ Len(c) = 3 * n
  <2>1. c = [i \in 1..(3 * n) |-> Capture[1 + ((i - 1) % 3)]]
    BY DEF c, Captures
  <2> QED BY <1>1, <1>4, <2>1
<1>6. Ordered(c)
  <2> SUFFICES ASSUME NEW i \in 1..(3 * n)
               PROVE  /\ c[i] = "command" => i + 1 \in 1..(3 * n) /\ c[i + 1] = "header"
                      /\ c[i] = "header" => i + 1 \in 1..(3 * n) /\ c[i + 1] = "pixels"
                      /\ i > 1 /\ c[i] = "header" => c[i - 1] = "command"
                      /\ i > 1 /\ c[i] = "pixels" => c[i - 1] = "header"
    BY <1>1 DEF Ordered
  <2>1. i > 1 => i - 1 \in 1..(3 * n)
    BY <1>1
  <2> QED BY <1>2, <2>1
<1>7. c # <<>> => c[1] \notin Reads
  <2>1. c # <<>> => 1 \in 1..(3 * n)
    BY <1>1, <1>5, EmptySeq
  <2> QED BY <1>2, <1>3, <2>1 DEF Reads
<1>8. n # 0 => c # <<>>
  BY <1>5, EmptySeq
<1> QED BY <1>5, <1>6, <1>7, <1>8, CaptureTransfers DEF c

\* The programs of all operations are sound, and a verification or an enrolment
\* only captures.
LEMMA ProgramsSound ==
  /\ Sound(Arm) /\ Sound(Disarm) /\ Sound(RecordProgram)
  /\ \A kind \in Streams : /\ Sound(Program(kind))
                           /\ \A i \in DOMAIN Program(kind) : Program(kind)[i] \in ToSet(Capture)
<1>1. /\ \A s \in Seq(ToSet(Capture)) : s \in Seq(Transfers)
      /\ Stages \in Nat \ {0} /\ Frames \in Nat
  BY CaptureTransfers, UsbAssumption, CassetteAssumption DEF Transfers
<1>2. Sound(Arm)
  BY DEF Sound, Arm, Transfers, Ordered, Reads
<1>3. Sound(Disarm)
  BY DEF Sound, Disarm, Transfers, Ordered, Reads
<1>4. Sound(Capture) /\ Capture \in Seq(ToSet(Capture))
  <2>1. Capture \in Seq(ToSet(Capture))
    BY CaptureTransfers DEF Capture
  <2>2. Ordered(Capture) /\ Capture[1] \notin Reads /\ Capture # <<>>
    BY DEF Capture, Ordered, Reads
  <2> QED BY <1>1, <2>1, <2>2 DEF Sound
<1>5. Sound(Captures(Stages)) /\ Captures(Stages) \in Seq(ToSet(Capture))
  BY <1>1, CapturesOrdered DEF Sound
<1>6. Sound(RecordProgram)
  <2> DEFINE c == Captures(Frames)
             t == Arm \o c
  <2>1. c \in Seq(Transfers) /\ Ordered(c) /\ (c # <<>> => c[1] \notin Reads)
    BY <1>1, CapturesOrdered
  <2> HIDE DEF c
  <2>2. t \in Seq(Transfers) /\ Ordered(t)
    BY <1>2, <2>1, JoinedOrdered, Joined DEF Sound
  <2>3. t # <<>> /\ t[1] = Arm[1]
    <3>1. Len(Arm) = 2 /\ Arm \in Seq(Transfers)
      BY <1>2 DEF Arm, Sound
    <3>2. /\ Len(c) \in Nat /\ DOMAIN t = 1..(Len(Arm) + Len(c))
          /\ \A i \in 1..Len(Arm) : t[i] = Arm[i]
      <4>1. c \in Seq(Transfers) /\ Arm \in Seq(Transfers)
        BY <2>1, <3>1
      <4>2. DOMAIN t = 1..(Len(Arm) + Len(c))
        BY <4>1, Joined
      <4>3. Len(c) \in Nat
        BY <4>1
      <4>4. \A i \in 1..Len(Arm) : t[i] = Arm[i]
        BY <4>1, Joined
      <4> QED BY <4>2, <4>3, <4>4
    <3>3. t[1] = Arm[1] /\ 1 \in DOMAIN t
      BY <3>1, <3>2
    <3>4. t # <<>>
      BY <2>2, <3>3, EmptySeq
    <3> QED BY <3>3, <3>4
  <2> HIDE DEF t
  <2>4. t \o Disarm \in Seq(Transfers) /\ Ordered(t \o Disarm)
    BY <1>3, <2>2, JoinedOrdered, Joined DEF Sound
  <2>5. t \o Disarm # <<>> /\ (t \o Disarm)[1] = t[1]
    <3>1. Len(t) \in Nat \ {0} /\ Len(Disarm) = 2 /\ Disarm \in Seq(Transfers)
      BY <1>3, <2>2, <2>3, EmptySeq DEF Disarm, Sound
    <3>2. /\ DOMAIN (t \o Disarm) = 1..(Len(t) + Len(Disarm))
          /\ \A i \in 1..Len(t) : (t \o Disarm)[i] = t[i]
      <4>1. t \in Seq(Transfers) /\ Disarm \in Seq(Transfers)
        BY <2>2, <3>1
      <4>2. DOMAIN (t \o Disarm) = 1..(Len(t) + Len(Disarm))
        BY <4>1, Joined
      <4>3. \A i \in 1..Len(t) : (t \o Disarm)[i] = t[i]
        BY <4>1, Joined
      <4> QED BY <4>2, <4>3
    <3>3. (t \o Disarm)[1] = t[1] /\ 1 \in DOMAIN (t \o Disarm)
      BY <3>1, <3>2
    <3>4. t \o Disarm # <<>>
      BY <2>4, <3>3, EmptySeq
    <3> QED BY <3>3, <3>4
  <2> QED BY <1>2, <2>3, <2>4, <2>5 DEF Sound, RecordProgram, t, c
<1>7. ASSUME NEW s \in Seq(ToSet(Capture))
      PROVE  \A i \in DOMAIN s : s[i] \in ToSet(Capture)
  OBVIOUS
<1>8. Program("enroll") = Captures(Stages) /\ Program("verify") = Capture
  BY DEF Program
<1> QED BY <1>2, <1>3, <1>4, <1>5, <1>6, <1>7, <1>8 DEF Streams

-----------------------------------------------------------------------------
(* What a touch sends.                                                     *)

\* The items of a shot: its header, then its pixels.
LEMMA ShotItems ==
  ASSUME ShotsHavePixels, NEW n \in Nat, NEW shot \in Shots
  PROVE  LET items == ItemsOf(n, shot) IN
         /\ items \in Seq(Items) /\ items # <<>> /\ Whole(items)
         /\ \A i \in DOMAIN items : items[i].of = n /\ (items[i].claims # NoHeader => i = 1)
<1> DEFINE h == <<Item(n, HeaderLen, shot.claims)>>
           p == [i \in DOMAIN shot.chunks |-> Item(n, shot.chunks[i], NoHeader)]
           items == ItemsOf(n, shot)
<1>1. /\ HeaderLen \in Nat /\ shot.claims \in Claims /\ shot.chunks \in Seq(Nat) /\ shot.chunks # <<>>
      /\ DOMAIN shot.chunks = 1..Len(shot.chunks) /\ Len(shot.chunks) \in Nat \ {0}
  BY UsbAssumption, EmptySeq DEF ShotsHavePixels
<1>2. /\ p \in Seq(Items) /\ Len(p) = Len(shot.chunks) /\ DOMAIN p = 1..Len(p)
      /\ \A i \in 1..Len(p) : p[i].of = n /\ p[i].claims = NoHeader
  <2>1. \A i \in 1..Len(shot.chunks) : p[i] \in Items /\ p[i].of = n /\ p[i].claims = NoHeader
    BY <1>1 DEF Items, Item, NoHeader, Claims
  <2>2. p \in [1..Len(shot.chunks) -> Items]
    BY <1>1, <2>1
  <2> HIDE DEF p
  <2>3. p \in Seq(Items) /\ Len(p) = Len(shot.chunks)
    <3>1. Len(shot.chunks) \in Nat
      BY <1>1
    <3>2. p \in Seq(Items)
      BY <2>2, <3>1
    <3>3. DOMAIN p = 1..Len(shot.chunks)
      BY <2>2
    <3>4. DOMAIN p = 1..Len(p)
      BY <3>2
    <3> QED BY <3>1, <3>2, <3>3, <3>4
  <2> QED BY <1>1, <2>1, <2>3
<1>3. h \in Seq(Items) /\ Len(h) = 1 /\ h[1].of = n
  BY <1>1 DEF Item, Items
<1>4. items = h \o p
  BY DEF ItemsOf
<1> HIDE DEF h, p, items
<1>5. /\ items \in Seq(Items) /\ DOMAIN items = 1..(1 + Len(p)) /\ items[1] = h[1]
      /\ \A i \in 1..Len(p) : items[1 + i] = p[i]
      /\ \A k \in DOMAIN items : k \in DOMAIN h \/ \E i \in DOMAIN p : k = Len(h) + i
  <2>1. /\ items \in Seq(Items) /\ DOMAIN items = 1..(Len(h) + Len(p))
        /\ \A i \in 1..Len(h) : items[i] = h[i]
        /\ \A i \in 1..Len(p) : items[Len(h) + i] = p[i]
        /\ \A k \in DOMAIN items : k \in DOMAIN h \/ \E i \in DOMAIN p : k = Len(h) + i
    <3>1. h \in Seq(Items) /\ p \in Seq(Items) /\ items = h \o p
      BY <1>2, <1>3, <1>4
    <3>2. items \in Seq(Items)
      BY <3>1
    <3>3. DOMAIN items = 1..(Len(h) + Len(p))
      BY <3>1, Joined
    <3>4. \A i \in 1..Len(h) : items[i] = h[i]
      BY <3>1, Joined
    <3>5. \A i \in 1..Len(p) : items[Len(h) + i] = p[i]
      BY <3>1, Joined
    <3>6. \A k \in DOMAIN items : k \in DOMAIN h \/ \E i \in DOMAIN p : k = Len(h) + i
      BY <3>1, Joined
    <3> QED BY <3>2, <3>3, <3>4, <3>5, <3>6
  <2> QED BY <1>3, <2>1
<1>6. \A k \in DOMAIN items : k = 1 \/ \E i \in 1..Len(p) : k = 1 + i
  BY <1>2, <1>3, <1>5
<1>7. items[1].of = n /\ items[2].of = n /\ 2 \in DOMAIN items /\ 1 \in DOMAIN items
  <2>1. 1 \in 1..Len(p) /\ 1 + 1 = 2
    BY <1>1, <1>2
  <2> QED BY <1>2, <1>3, <1>5, <2>1
<1>8. \A i \in DOMAIN items : items[i].of = n /\ (items[i].claims # NoHeader => i = 1)
  <2> TAKE k \in DOMAIN items
  <2>1. CASE k = 1
    BY <1>7, <2>1
  <2>2. ASSUME NEW i \in 1..Len(p), k = 1 + i
        PROVE  items[k].of = n /\ items[k].claims = NoHeader
    <3>1. items[k] = p[i]
      BY <1>5, <2>2
    <3> QED BY <1>2, <3>1
  <2> QED BY <1>6, <2>1, <2>2
<1>9. Whole(items)
  BY <1>7, <1>8 DEF Whole
<1> QED BY <1>5, <1>7, <1>8, <1>9 DEF items

\* What is whole stays so when more is sent after it.
LEMMA WholeJoined ==
  ASSUME NEW s \in Seq(Items), NEW t \in Seq(Items), Whole(s), Whole(t)
  PROVE  Whole(s \o t)
<1>1. /\ Len(s) \in Nat /\ Len(t) \in Nat
      /\ DOMAIN s = 1..Len(s) /\ DOMAIN t = 1..Len(t) /\ DOMAIN (s \o t) = 1..(Len(s) + Len(t))
      /\ \A i \in 1..Len(s) : (s \o t)[i] = s[i]
      /\ \A i \in 1..Len(t) : (s \o t)[Len(s) + i] = t[i]
      /\ \A k \in DOMAIN (s \o t) : k \in DOMAIN s \/ \E i \in DOMAIN t : k = Len(s) + i
  BY Joined
<1> SUFFICES ASSUME NEW k \in DOMAIN (s \o t), (s \o t)[k].claims # NoHeader
             PROVE  k + 1 \in DOMAIN (s \o t) /\ (s \o t)[k + 1].of = (s \o t)[k].of
  BY DEF Whole
<1>2. CASE k \in DOMAIN s
  <2>1. k + 1 \in 1..Len(s) /\ s[k + 1].of = s[k].of
    BY <1>1, <1>2 DEF Whole
  <2>2. k + 1 \in 1..(Len(s) + Len(t))
    BY <1>1, <2>1
  <2> QED BY <1>1, <1>2, <2>1, <2>2
<1>3. ASSUME NEW i \in DOMAIN t, k = Len(s) + i
      PROVE  k + 1 \in DOMAIN (s \o t) /\ (s \o t)[k + 1].of = (s \o t)[k].of
  <2>1. i + 1 \in 1..Len(t) /\ t[i + 1].of = t[i].of
    BY <1>1, <1>3 DEF Whole
  <2>2. k + 1 \in 1..(Len(s) + Len(t)) /\ k + 1 = Len(s) + (i + 1)
    BY <1>1, <1>3, <2>1
  <2> QED BY <1>1, <1>3, <2>1, <2>2
<1> QED BY <1>1, <1>2, <1>3

\* And when its first item is read.
LEMMA WholeTail ==
  ASSUME NEW s \in Seq(Items), s # <<>>, Whole(s)
  PROVE  Whole(Tail(s))
<1>1. /\ Len(s) \in Nat \ {0} /\ DOMAIN s = 1..Len(s) /\ DOMAIN Tail(s) = 1..(Len(s) - 1)
      /\ \A i \in 1..(Len(s) - 1) : Tail(s)[i] = s[i + 1]
  BY TailOf
<1> SUFFICES ASSUME NEW i \in 1..(Len(s) - 1), s[i + 1].claims # NoHeader
             PROVE  i + 1 \in 1..(Len(s) - 1) /\ Tail(s)[i + 1].of = Tail(s)[i].of
  BY <1>1 DEF Whole
<1>2. i + 1 \in DOMAIN s
  BY <1>1
<1>3. (i + 1) + 1 \in DOMAIN s /\ s[(i + 1) + 1].of = s[i + 1].of
  BY <1>2 DEF Whole
<1>4. i + 1 \in 1..(Len(s) - 1)
  BY <1>1, <1>3
<1> QED BY <1>1, <1>3, <1>4

-----------------------------------------------------------------------------
(* What a transfer does to the sensor.                                     *)

\* What is to be transferred after the first transfer.
LEMMA NextTransfer ==
  ASSUME NEW s \in Seq(Transfers), s # <<>>, Ordered(s)
  PROVE  /\ Head(s) = "command" => Tail(s) # <<>> /\ Head(Tail(s)) = "header"
         /\ Head(s) = "header" => Tail(s) # <<>> /\ Head(Tail(s)) = "pixels"
         /\ Tail(s) # <<>> /\ Head(Tail(s)) = "header" => Head(s) = "command"
         /\ Tail(s) # <<>> /\ Head(Tail(s)) = "pixels" => Head(s) = "header"
<1>1. /\ Len(s) \in Nat \ {0} /\ DOMAIN s = 1..Len(s)
      /\ Head(s) = s[1]
      /\ Tail(s) # <<>> <=> Len(s) > 1
      /\ Tail(s) # <<>> => Head(Tail(s)) = s[2]
  BY TailOf
<1>2. /\ s[1] = "command" => 1 + 1 \in DOMAIN s /\ s[1 + 1] = "header"
      /\ s[1] = "header" => 1 + 1 \in DOMAIN s /\ s[1 + 1] = "pixels"
  <2>1. 1 \in DOMAIN s
    BY <1>1
  <2> QED BY <2>1 DEF Ordered
<1>3. Len(s) > 1 => /\ s[2] = "header" => s[2 - 1] = "command"
                    /\ s[2] = "pixels" => s[2 - 1] = "header"
  <2>1. Len(s) > 1 => 2 \in DOMAIN s /\ 2 > 1
    BY <1>1
  <2> QED BY <2>1 DEF Ordered
<1>4. 2 - 1 = 1 /\ 1 + 1 = 2
  OBVIOUS
<1> QED BY <1>1, <1>2, <1>3, <1>4

\* The sensor after a transfer has reached it.
LEMMA EffectOf ==
  ASSUME ReaderTyped, Whole(sensor.unread), NEW t \in Transfers, Possible(t), Effect(t)
  PROVE  /\ sensor' \in Sensors /\ commands' \in Nat
         /\ sensor'.keeps = sensor.keeps
         /\ Whole(sensor'.unread)
         /\ t = "reset" => sensor'.asked = <<>> /\ sensor'.unread = <<>>
         /\ t \in {"configure", "stop"} => sensor'.asked = sensor.asked /\ sensor'.unread = sensor.unread
         /\ t = "configure" => sensor'.armed
         /\ t \in ToSet(Capture) => sensor'.armed = sensor.armed
         /\ t = "command" => /\ commands' = commands + 1
                             /\ sensor.keeps => /\ sensor'.asked = Append(sensor.asked, commands')
                                                /\ sensor'.unread = sensor.unread
                             /\ ~sensor.keeps => sensor'.asked = <<commands'>> /\ sensor'.unread = <<>>
         /\ t \in Reads => /\ commands' = commands /\ sensor'.asked = sensor.asked
                           /\ sensor.unread # <<>> /\ sensor'.unread = Tail(sensor.unread)
<1>1. /\ sensor \in [armed : BOOLEAN, asked : Seq(Nat), unread : Seq(Items), keeps : BOOLEAN]
      /\ commands \in Nat
  BY DEF ReaderTyped, Sensors
<1>2. Whole(<<>>) /\ <<>> \in Seq(Items) /\ <<>> \in Seq(Nat)
  BY DEF Whole
<1>3. CASE t = "reset"
  <2>1. sensor' = [sensor EXCEPT !.armed = FALSE, !.asked = <<>>, !.unread = <<>>] /\ commands' = 0
    BY <1>3 DEF Effect, ResetSensor, Reads
  <2> QED BY <1>1, <1>2, <1>3, <2>1, CaptureTransfers DEF Sensors, Reads
<1>4. CASE t = "configure"
  <2>1. sensor' = [sensor EXCEPT !.armed = TRUE] /\ commands' = commands
    BY <1>4 DEF Effect, Reads
  <2> QED BY <1>1, <1>4, <2>1, CaptureTransfers DEF Sensors, Reads
<1>5. CASE t = "stop"
  <2>1. sensor' = [sensor EXCEPT !.armed = FALSE] /\ commands' = commands
    BY <1>5 DEF Effect, Reads
  <2> QED BY <1>1, <1>5, <2>1, CaptureTransfers DEF Sensors, Reads
<1>6. CASE t = "command" /\ sensor.keeps
  <2>1. sensor' = [sensor EXCEPT !.asked = Append(sensor.asked, commands + 1)] /\ commands' = commands + 1
    BY <1>6 DEF Effect, Reads
  <2>2. commands + 1 \in Nat /\ Append(sensor.asked, commands + 1) \in Seq(Nat)
    BY <1>1
  <2> QED BY <1>1, <1>6, <2>1, <2>2 DEF Sensors, Reads
<1>7. CASE t = "command" /\ ~sensor.keeps
  <2>1. sensor' = [sensor EXCEPT !.asked = <<commands + 1>>, !.unread = <<>>] /\ commands' = commands + 1
    BY <1>7 DEF Effect, Reads
  <2>2. commands + 1 \in Nat /\ <<commands + 1>> \in Seq(Nat)
    BY <1>1
  <2> QED BY <1>1, <1>2, <1>7, <2>1, <2>2 DEF Sensors, Reads
<1>8. CASE t \in Reads
  <2>1. sensor' = [sensor EXCEPT !.unread = Tail(sensor.unread)] /\ commands' = commands
    BY <1>8 DEF Effect, Reads
  <2>2. sensor.unread # <<>>
    BY <1>8 DEF Possible
  <2>3. Tail(sensor.unread) \in Seq(Items) /\ Whole(Tail(sensor.unread))
    BY <1>1, <2>2, TailOf, WholeTail
  <2> QED BY <1>1, <1>8, <2>1, <2>2, <2>3 DEF Sensors, Reads
<1> QED BY <1>3, <1>4, <1>5, <1>6, <1>7, <1>8 DEF Transfers, Reads

\* And after a transfer that may have reached it.
LEMMA MaybeEffectOf ==
  ASSUME ReaderTyped, Whole(sensor.unread), NEW t \in Transfers, MaybeEffect(t)
  PROVE  /\ sensor' \in Sensors /\ commands' \in Nat
         /\ Whole(sensor'.unread)
         /\ t \in ToSet(Capture) => sensor'.armed = sensor.armed
         /\ t \notin ToSet(Capture) /\ sensor.asked = <<>> /\ NoHeaders(sensor.unread) =>
              sensor'.asked = <<>> /\ NoHeaders(sensor'.unread)
<1>1. CASE Possible(t) /\ Effect(t)
  <2>1. NoHeaders(<<>>)
    BY DEF NoHeaders
  <2>2. t \notin ToSet(Capture) => t \in {"reset", "configure", "stop"}
    BY CaptureTransfers DEF Transfers
  <2> QED BY <1>1, <2>1, <2>2, EffectOf
<1>2. CASE UNCHANGED <<sensor, commands>>
  BY <1>2 DEF ReaderTyped
<1> QED BY <1>1, <1>2 DEF MaybeEffect

-----------------------------------------------------------------------------
(* Each step keeps the invariant.                                          *)

\* An operation that ends early: no more is transferred, and what it got is kept
\* or thrown away.
LEMMA StoppedKeeps ==
  ASSUME ReaderInv, Stop,
         frames' \in {frames, <<>>}, dev' \in {dev, "none"},
         sensor' \in Sensors, commands' \in Nat, Whole(sensor'.unread),
         dev' = "open" => sensor'.armed,
         clean' => sensor'.asked = <<>> /\ NoHeaders(sensor'.unread)
  PROVE  ReaderInv' /\ FreshPipe' /\ ~Delivers
<1>1. op' = "idle" /\ todo' = <<>> /\ urb' = FALSE
  BY DEF Stop
<1>2. frames \in Seq([of : Nat, header : Nat, claims : Nat, size : Nat]) /\ FrameWhole
  BY DEF ReaderInv, ReaderTyped
<1>3. ReaderTyped'
  <2>1. <<>> \in Seq([of : Nat, header : Nat, claims : Nat, size : Nat]) /\ <<>> \in Seq(Transfers)
    OBVIOUS
  <2>2. frames' \in Seq([of : Nat, header : Nat, claims : Nat, size : Nat])
    BY <1>2, <2>1
  <2> QED BY <1>1, <2>1, <2>2 DEF ReaderTyped
<1>4. Programmed'
  BY <1>1 DEF Programmed, Ordered, Streams
<1>5. FrameWhole'
  BY <1>2 DEF FrameWhole
<1>6. WholePipe'
  BY <1>1 DEF WholePipe, At
<1>7. FreshPipe'
  BY <1>1 DEF FreshPipe, At, Reading
<1>8. ~Delivers
  <2>1. Len(frames) \in Nat /\ Len(<<>>) = 0
    BY <1>2
  <2> QED BY <2>1 DEF Delivers
<1> QED BY <1>3, <1>4, <1>5, <1>6, <1>7, <1>8 DEF ReaderInv, ArmedWhileOpen

\* An operation that begins.
LEMMA StartKeeps ==
  ASSUME ReaderInv, FreshPipe, NEW kind, NEW program, Start(kind, program), Sound(program),
         kind # "idle",
         kind \in Streams => /\ dev' = dev
                             /\ \A i \in DOMAIN program : program[i] \in ToSet(Capture),
         kind = "open" => program = Arm /\ dev' = "closed",
         kind \notin Streams => dev' # "open"
  PROVE  ReaderInv' /\ FreshPipe' /\ ~Delivers
<1>1. /\ op = "idle" /\ op' = kind /\ todo' = program /\ frames' = <<>>
      /\ sensor' = sensor /\ commands' = commands /\ urb' = urb /\ header' = header /\ clean' = clean
  BY DEF Start
<1>2. todo = <<>> /\ ~urb
  BY <1>1 DEF ReaderInv, Programmed
<1>3. /\ program \in Seq(Transfers) /\ program # <<>> /\ Ordered(program)
      /\ Head(program) \notin Reads
  BY TailOf DEF Sound
<1>4. ReaderTyped'
  <2>1. sensor \in Sensors /\ commands \in Nat
    BY DEF ReaderInv, ReaderTyped
  <2>2. <<>> \in Seq([of : Nat, header : Nat, claims : Nat, size : Nat])
    OBVIOUS
  <2> QED BY <1>1, <1>3, <2>1, <2>2 DEF ReaderTyped
<1>5. Programmed'
  BY <1>1, <1>2, <1>3 DEF Programmed
<1>6. ArmedWhileOpen'
  <2>1. dev' = "open" => dev = "open"
    OBVIOUS
  <2> QED BY <1>1, <2>1 DEF ReaderInv, ArmedWhileOpen
<1>7. ~At("header")' /\ ~At("pixels")'
  BY <1>1, <1>3 DEF At, Reads
<1>8. WholePipe' /\ FrameWhole'
  BY <1>1, <1>7 DEF ReaderInv, WholePipe, FrameWhole
<1>9. FreshPipe'
  <2>1. ~Reading
    BY <1>2 DEF Reading, At
  <2> QED BY <1>1, <1>7, <2>1 DEF FreshPipe
<1>10. ~Delivers
  <2>1. Len(frames) \in Nat /\ Len(<<>>) = 0
    BY DEF ReaderInv, ReaderTyped
  <2> QED BY <1>1, <2>1 DEF Delivers
<1> QED BY <1>4, <1>5, <1>6, <1>8, <1>9, <1>10 DEF ReaderInv

\* A transfer that is submitted.
LEMMA SubmitKeeps ==
  ASSUME ReaderInv, FreshPipe, Submit
  PROVE  ReaderInv' /\ FreshPipe' /\ ~Delivers
<1>1. /\ op # "idle" /\ UNCHANGED <<sensor, commands, dev, op, todo, header, frames, clean>>
  BY DEF Submit
<1>2. ReaderTyped' /\ ArmedWhileOpen' /\ WholePipe' /\ FrameWhole'
  BY <1>1 DEF ReaderInv, ReaderTyped, ArmedWhileOpen, WholePipe, FrameWhole, At
<1>3. Programmed'
  BY <1>1 DEF ReaderInv, Programmed
<1>4. FreshPipe'
  BY <1>1 DEF FreshPipe, Reading, At, Dependable, OneShot
<1>5. ~Delivers
  BY <1>1 DEF Delivers, ReaderInv, ReaderTyped
<1> QED BY <1>2, <1>3, <1>4, <1>5 DEF ReaderInv

\* A touch of the sensor: it answers the first command that it has.
LEMMA TouchKeeps ==
  ASSUME ReaderInv, FreshPipe, Touch, ShotsHavePixels
  PROVE  ReaderInv' /\ FreshPipe' /\ ~Delivers
<1>1. /\ sensor.asked # <<>>
      /\ UNCHANGED <<commands, dev, op, todo, urb, header, frames, clean>>
  BY DEF Touch
<1> PICK shot \in Shots :
      sensor' = [sensor EXCEPT !.asked = Tail(sensor.asked),
                               !.unread = sensor.unread \o ItemsOf(Head(sensor.asked), shot)]
  BY DEF Touch
<1> DEFINE n == Head(sensor.asked)
           items == ItemsOf(n, shot)
<1>2. /\ sensor \in [armed : BOOLEAN, asked : Seq(Nat), unread : Seq(Items), keeps : BOOLEAN]
      /\ Whole(sensor.unread)
  BY DEF ReaderInv, ReaderTyped, Sensors, WholePipe
<1>3. n \in Nat /\ n = sensor.asked[1] /\ Tail(sensor.asked) \in Seq(Nat)
  BY <1>1, <1>2, TailOf
<1>4. /\ items \in Seq(Items) /\ items # <<>> /\ Whole(items)
      /\ \A i \in DOMAIN items : items[i].of = n /\ (items[i].claims # NoHeader => i = 1)
  BY <1>3, ShotItems
<1> HIDE DEF items
<1>5. /\ sensor'.armed = sensor.armed /\ sensor'.keeps = sensor.keeps
      /\ sensor'.asked = Tail(sensor.asked) /\ sensor'.unread = sensor.unread \o items
  BY <1>2 DEF items
<1>6. sensor.unread \o items \in Seq(Items)
  BY <1>2, <1>4
<1>7. sensor' \in Sensors
  BY <1>2, <1>3, <1>6 DEF Sensors, items
<1>8. Whole(sensor'.unread)
  BY <1>2, <1>4, <1>5, WholeJoined
<1>9. sensor.unread # <<>> => sensor'.unread # <<>> /\ Head(sensor'.unread) = Head(sensor.unread)
  <2> DEFINE u == sensor.unread
  <2> HIDE DEF u
  <2> SUFFICES ASSUME u # <<>>
               PROVE  u \o items # <<>> /\ Head(u \o items) = Head(u)
    BY <1>5 DEF u
  <2>1. u \in Seq(Items)
    BY <1>2 DEF u
  <2>2. Len(u) \in Nat \ {0} /\ Head(u) = u[1]
    BY <2>1, TailOf
  <2>3. \A i \in 1..Len(u) : (u \o items)[i] = u[i]
    BY <1>4, <2>1, Joined
  <2>4. DOMAIN (u \o items) = 1..(Len(u) + Len(items))
    BY <1>4, <2>1, Joined
  <2>5. Len(items) \in Nat
    BY <1>4
  <2>6. 1 \in DOMAIN (u \o items) /\ (u \o items)[1] = u[1]
    BY <2>2, <2>3, <2>4, <2>5
  <2>7. u \o items \in Seq(Items) /\ u \o items # <<>>
    BY <1>4, <2>1, <2>6, EmptySeq
  <2>8. Head(u \o items) = (u \o items)[1]
    BY <2>7, TailOf
  <2> QED BY <2>2, <2>6, <2>7, <2>8
<1>10. ReaderTyped' /\ Programmed' /\ ArmedWhileOpen' /\ FrameWhole'
  BY <1>1, <1>5, <1>7 DEF ReaderInv, ReaderTyped, Programmed, ArmedWhileOpen, FrameWhole
<1>11. WholePipe'
  BY <1>1, <1>8, <1>9 DEF ReaderInv, WholePipe, At
<1>12. (clean /\ ~Reading) = FALSE
  BY <1>1 DEF FreshPipe
<1>13. ~(Dependable /\ At("pixels"))
  BY <1>1 DEF FreshPipe
<1>14. ASSUME Dependable, At("header")
       PROVE  /\ sensor'.asked = <<>>
              /\ \A i, j \in DOMAIN sensor'.unread :
                   sensor'.unread[i].claims # NoHeader /\ sensor'.unread[j].claims # NoHeader => i = j
              /\ \A i \in DOMAIN sensor'.unread : sensor'.unread[i].claims # NoHeader => sensor'.unread[i].of = commands
  <2>1. sensor.asked = <<commands>> /\ NoHeaders(sensor.unread)
    BY <1>1, <1>14 DEF FreshPipe, OneShot
  <2>2. n = commands /\ Tail(sensor.asked) = <<>>
    BY <1>2, <1>3, <2>1 DEF ReaderInv, ReaderTyped
  <2> DEFINE u == sensor.unread
  <2>3. u \in Seq(Items) /\ \A i \in DOMAIN u : u[i].claims = NoHeader
    BY <1>2, <2>1 DEF NoHeaders
  <2> HIDE DEF u
  <2>4. /\ Len(u) \in Nat /\ Len(items) \in Nat
        /\ DOMAIN u = 1..Len(u) /\ DOMAIN items = 1..Len(items)
    BY <1>4, <2>3
  <2>5. \A i \in 1..Len(u) : (u \o items)[i] = u[i]
    BY <1>4, <2>3, Joined
  <2>6. \A i \in 1..Len(items) : (u \o items)[Len(u) + i] = items[i]
    BY <1>4, <2>3, Joined
  <2>7. \A k \in DOMAIN (u \o items) : k \in DOMAIN u \/ \E i \in DOMAIN items : k = Len(u) + i
    BY <1>4, <2>3, Joined
  <2>8. ASSUME NEW k \in DOMAIN (u \o items), (u \o items)[k].claims # NoHeader
        PROVE  k = Len(u) + 1 /\ (u \o items)[k].of = n
    <3>1. k \notin DOMAIN u
      BY <2>3, <2>4, <2>5, <2>8
    <3>2. PICK i \in DOMAIN items : k = Len(u) + i
      BY <2>7, <3>1
    <3>3. (u \o items)[k] = items[i]
      BY <2>4, <2>6, <3>2
    <3> QED BY <1>4, <2>8, <3>2, <3>3
  <2>9. sensor'.unread = u \o items
    BY <1>5 DEF u
  <2> HIDE DEF n, u
  <2>10. \A i, j \in DOMAIN (u \o items) :
           (u \o items)[i].claims # NoHeader /\ (u \o items)[j].claims # NoHeader => i = j
    BY <2>8
  <2>11. \A i \in DOMAIN (u \o items) : (u \o items)[i].claims # NoHeader => (u \o items)[i].of = commands
    BY <2>2, <2>8
  <2> QED BY <1>5, <2>2, <2>9, <2>10, <2>11
<1>15. FreshPipe'
  <2>1. /\ At("header")' <=> At("header")
        /\ At("pixels")' <=> At("pixels")
        /\ Reading' <=> Reading
        /\ Dependable' <=> Dependable
        /\ clean' <=> clean
    BY <1>1, <1>5 DEF At, Reading, Dependable
  <2>2. Dependable /\ At("header") => OneShot'
    BY <1>1, <1>14 DEF OneShot
  <2> QED BY <1>12, <1>13, <2>1, <2>2 DEF FreshPipe
<1>16. ~Delivers
  BY <1>1 DEF Delivers, ReaderInv, ReaderTyped
<1> QED BY <1>10, <1>11, <1>15, <1>16 DEF ReaderInv

\* A transfer that completes, whatever it is: what is left of the operation.
LEMMA CompleteAdvances ==
  ASSUME ReaderInv, Complete
  PROVE  /\ todo # <<>> /\ Head(todo) \in Transfers
         /\ Possible(Head(todo)) /\ Effect(Head(todo))
         /\ todo' = Tail(todo) /\ todo' \in Seq(Transfers)
         /\ Programmed' /\ ArmedWhileOpen'
<1>1. /\ urb /\ todo' = Tail(todo) /\ urb' = FALSE
      /\ op' = IF Len(todo) = 1 THEN "idle" ELSE op
      /\ dev' = IF Len(todo) = 1 /\ op = "open" THEN "open" ELSE dev
      /\ Possible(Head(todo)) /\ Effect(Head(todo))
  BY DEF Complete, Completes, Advance
<1>2. /\ ReaderTyped /\ Programmed /\ ArmedWhileOpen /\ Whole(sensor.unread) /\ todo \in Seq(Transfers)
  BY DEF ReaderInv, ReaderTyped, WholePipe
<1>3. op # "idle" /\ todo # <<>>
  BY <1>1, <1>2 DEF Programmed
<1>4. /\ Len(todo) \in Nat \ {0} /\ DOMAIN todo = 1..Len(todo)
      /\ Head(todo) = todo[1] /\ Head(todo) \in Transfers
      /\ Tail(todo) \in Seq(Transfers) /\ DOMAIN Tail(todo) = 1..(Len(todo) - 1)
      /\ \A i \in 1..(Len(todo) - 1) : Tail(todo)[i] = todo[i + 1]
      /\ Tail(todo) # <<>> <=> Len(todo) > 1
  BY <1>2, <1>3, TailOf
<1>5. Ordered(Tail(todo))
  BY <1>2, <1>3, TailOrdered DEF Programmed
<1>6. Tail(todo) = <<>> <=> Len(todo) = 1
  BY <1>4
<1>7. op = "open" => \/ todo = Arm /\ Len(todo) = 2
                     \/ Len(todo) = 1 /\ Head(todo) = "configure"
  BY <1>2 DEF Programmed, Arm
<1>8. Programmed'
  <2>1. Ordered(todo') /\ (op' = "idle" <=> todo' = <<>>) /\ ~urb'
    BY <1>1, <1>3, <1>5, <1>6
  <2>2. op' \in Streams => \A i \in DOMAIN todo' : todo'[i] \in ToSet(Capture)
    <3> SUFFICES ASSUME op' \in Streams, NEW i \in 1..(Len(todo) - 1)
                 PROVE  todo[i + 1] \in ToSet(Capture)
      BY <1>1, <1>4
    <3>1. op \in Streams
      BY <1>1 DEF Streams
    <3>2. i + 1 \in DOMAIN todo
      BY <1>4
    <3> QED BY <1>2, <3>1, <3>2 DEF Programmed
  <2>3. op' = "open" => todo' \in {Arm, Tail(Arm)} /\ dev' = "closed"
    BY <1>1, <1>2, <1>7 DEF Programmed
  <2>4. dev' = "open" => op' \in {"idle"} \cup Streams
    BY <1>1, <1>2 DEF Programmed
  <2> QED BY <2>1, <2>2, <2>3, <2>4 DEF Programmed
<1>9. ArmedWhileOpen'
  <2> SUFFICES ASSUME dev' = "open"
               PROVE  sensor'.armed
    BY DEF ArmedWhileOpen
  <2>1. CASE Len(todo) = 1 /\ op = "open"
    <3>1. Head(todo) = "configure"
      BY <1>7, <2>1
    <3> QED BY <1>1, <1>2, <1>4, <3>1, EffectOf
  <2>2. CASE ~(Len(todo) = 1 /\ op = "open")
    <3>1. dev = "open" /\ sensor.armed
      BY <1>1, <1>2, <2>2 DEF ArmedWhileOpen
    <3>2. op \in Streams /\ 1 \in DOMAIN todo
      BY <1>2, <1>3, <1>4, <3>1 DEF Programmed
    <3>3. Head(todo) \in ToSet(Capture)
      BY <1>2, <1>4, <3>2 DEF Programmed
    <3> QED BY <1>1, <1>2, <1>4, <3>1, <3>3, EffectOf
  <2> QED BY <2>1, <2>2
<1> QED BY <1>1, <1>3, <1>4, <1>8, <1>9

\* A frame that is made of what was read: it has its own pixels, and it answers
\* the command of its capture.
LEMMA FrameMade ==
  ASSUME ReaderInv, FreshPipe, Complete, At("pixels")
  PROVE  /\ frames' \in Seq([of : Nat, header : Nat, claims : Nat, size : Nat])
         /\ FrameWhole'
         /\ Dependable => frames'[Len(frames')].of = commands
<1> DEFINE item == Head(sensor.unread)
           F == [of : Nat, header : Nat, claims : Nat, size : Nat]
<1>1. /\ Head(todo) = "pixels" /\ frames' = Append(frames, Frame(item))
      /\ ~Refused("pixels", item)
  BY DEF At, Complete, Completes, Reads
<1>2. /\ sensor.unread \in Seq(Items) /\ sensor.unread # <<>> /\ item.of = header.of
      /\ header \in Items /\ frames \in Seq(F) /\ FrameWhole
  BY DEF ReaderInv, ReaderTyped, Sensors, WholePipe, At
<1>3. item \in Items
  BY <1>2, TailOf
<1>4. item.size = header.claims
  BY <1>1 DEF Refused, Assembles
<1> HIDE DEF item
<1>5. Frame(item) \in F
  BY <1>2, <1>3, <1>4 DEF Frame, Items
<1>6. Frame(item).of = Frame(item).header /\ Frame(item).size = Frame(item).claims /\ Frame(item).of = header.of
  BY <1>2, <1>4 DEF Frame
<1>7. /\ Len(frames) \in Nat /\ frames' \in Seq(F) /\ Len(frames') = Len(frames) + 1
      /\ DOMAIN frames = 1..Len(frames) /\ DOMAIN frames' = 1..(Len(frames) + 1)
      /\ \A i \in 1..Len(frames) : frames'[i] = frames[i]
      /\ frames'[Len(frames) + 1] = Frame(item)
  BY <1>1, <1>2, <1>5, AppendProperties
<1>8. FrameWhole'
  <2> SUFFICES ASSUME NEW i \in 1..(Len(frames) + 1)
               PROVE  frames'[i].of = frames'[i].header /\ frames'[i].size = frames'[i].claims
    BY <1>7 DEF FrameWhole
  <2>1. CASE i \in 1..Len(frames)
    BY <1>2, <1>7, <2>1 DEF FrameWhole
  <2>2. CASE i = Len(frames) + 1
    BY <1>6, <1>7, <2>2
  <2> QED BY <1>7, <2>1, <2>2
<1>9. Dependable => header.of = commands
  BY DEF FreshPipe
<1> QED BY <1>6, <1>7, <1>8, <1>9

\* A transfer that completes: the next one reads only what the sensor sends for
\* this capture.
LEMMA CompleteKeeps ==
  ASSUME ReaderInv, FreshPipe, Complete
  PROVE  /\ ReaderInv' /\ FreshPipe'
         /\ Delivers => frames'[Len(frames')].of = commands \/ (~clean /\ sensor.keeps)
<1> DEFINE t == Head(todo)
           F == [of : Nat, header : Nat, claims : Nat, size : Nat]
<1>1. /\ todo # <<>> /\ t \in Transfers /\ Possible(t) /\ Effect(t)
      /\ todo' = Tail(todo) /\ todo' \in Seq(Transfers)
      /\ Programmed' /\ ArmedWhileOpen'
  BY CompleteAdvances
<1>2. /\ t \in Reads => ~Refused(t, Head(sensor.unread))
      /\ header' = IF t = "header" THEN Head(sensor.unread) ELSE IF t = "pixels" THEN None ELSE header
      /\ frames' = IF t = "pixels" THEN Append(frames, Frame(Head(sensor.unread))) ELSE frames
      /\ clean' = (clean \/ t = "reset")
  BY DEF Complete, Completes
<1>3. /\ ReaderTyped /\ Whole(sensor.unread) /\ FrameWhole /\ todo \in Seq(Transfers) /\ Ordered(todo)
      /\ sensor.unread \in Seq(Items) /\ frames \in Seq(F) /\ commands \in Nat
  BY DEF ReaderInv, ReaderTyped, WholePipe, Programmed, Sensors
<1>4. /\ sensor' \in Sensors /\ commands' \in Nat
      /\ sensor'.keeps = sensor.keeps
      /\ Whole(sensor'.unread)
      /\ t = "reset" => sensor'.asked = <<>> /\ sensor'.unread = <<>>
      /\ t \in {"configure", "stop"} => sensor'.asked = sensor.asked /\ sensor'.unread = sensor.unread
      /\ t = "command" => /\ commands' = commands + 1
                          /\ sensor.keeps => /\ sensor'.asked = Append(sensor.asked, commands')
                                             /\ sensor'.unread = sensor.unread
                          /\ ~sensor.keeps => sensor'.asked = <<commands'>> /\ sensor'.unread = <<>>
      /\ t \in Reads => /\ commands' = commands /\ sensor'.asked = sensor.asked
                        /\ sensor.unread # <<>> /\ sensor'.unread = Tail(sensor.unread)
  BY <1>1, <1>3, EffectOf
<1>5. /\ t = "command" <=> At("header")'
      /\ t = "header" <=> At("pixels")'
  BY <1>1, <1>3, NextTransfer DEF At
<1>6. /\ t = "header" <=> At("header")
      /\ t = "pixels" <=> At("pixels")
  BY <1>1 DEF At
<1> HIDE DEF t
<1>7. t \in Reads => t = "header" \/ t = "pixels"
  BY DEF Reads
<1>8. NoHeaders(<<>>)
  BY DEF NoHeaders
\* What the frames are.
<1>9. frames' \in Seq(F) /\ FrameWhole'
  <2>1. CASE t = "pixels"
    BY <1>6, <2>1, FrameMade
  <2>2. CASE t # "pixels"
    BY <1>2, <1>3, <2>2 DEF FrameWhole
  <2> QED BY <2>1, <2>2
<1>10. Delivers => frames'[Len(frames')].of = commands \/ (~clean /\ sensor.keeps)
  <2>1. CASE t = "pixels"
    BY <1>6, <2>1, FrameMade DEF Dependable
  <2>2. CASE t # "pixels"
    BY <1>2, <1>3, <2>2 DEF Delivers
  <2> QED BY <2>1, <2>2
<1>11. ReaderTyped'
  BY <1>1, <1>4, <1>9 DEF ReaderTyped
\* What is next in the pipe.
<1>12. t = "header" => /\ header' \in Items /\ header'.claims # NoHeader
                       /\ header' = sensor.unread[1] /\ sensor.unread # <<>> /\ sensor'.unread = Tail(sensor.unread)
  <2> SUFFICES ASSUME t = "header"
               PROVE  /\ header' \in Items /\ header'.claims # NoHeader
                      /\ header' = sensor.unread[1] /\ sensor.unread # <<>> /\ sensor'.unread = Tail(sensor.unread)
    OBVIOUS
  <2>1. sensor.unread # <<>> /\ sensor'.unread = Tail(sensor.unread) /\ t \in Reads
    BY <1>4 DEF Reads
  <2>2. Head(sensor.unread) \in Items /\ Head(sensor.unread) = sensor.unread[1]
    BY <1>3, <2>1, TailOf
  <2>3. Acceptable(Head(sensor.unread))
    BY <1>2, <2>1 DEF Refused
  <2> QED BY <1>2, <2>1, <2>2, <2>3 DEF Acceptable
<1>13. WholePipe'
  <2>1. At("pixels")' => sensor'.unread # <<>> /\ Head(sensor'.unread).of = header'.of
    <3> SUFFICES ASSUME t = "header"
                 PROVE  sensor'.unread # <<>> /\ Head(sensor'.unread).of = header'.of
      BY <1>5
    <3> DEFINE u == sensor.unread
    <3>1. u \in Seq(Items) /\ u # <<>> /\ Whole(u) /\ u[1].claims # NoHeader
      BY <1>3, <1>12
    <3> HIDE DEF u
    <3>2. /\ Len(u) \in Nat \ {0} /\ DOMAIN u = 1..Len(u)
          /\ Tail(u) # <<>> <=> Len(u) > 1
          /\ Tail(u) # <<>> => Head(Tail(u)) = u[2]
      BY <3>1, TailOf
    <3>3. 1 \in DOMAIN u
      BY <3>2
    <3>4. 1 + 1 \in DOMAIN u /\ u[1 + 1].of = u[1].of
      BY <3>1, <3>3 DEF Whole
    <3>5. Len(u) > 1 /\ 1 + 1 = 2
      BY <3>2, <3>4
    <3>6. Tail(u) # <<>> /\ Head(Tail(u)).of = u[1].of
      BY <3>2, <3>4, <3>5
    <3> QED BY <1>12, <3>6 DEF u
  <2>2. At("pixels")' => header' \in Items
    BY <1>5, <1>12
  <2> QED BY <1>4, <2>1, <2>2 DEF WholePipe
\* And that it is of this command.
<1>14. clean' /\ ~Reading' => sensor'.asked = <<>> /\ NoHeaders(sensor'.unread)
  <2> SUFFICES ASSUME clean', ~Reading'
               PROVE  sensor'.asked = <<>> /\ NoHeaders(sensor'.unread)
    OBVIOUS
  <2>1. t # "command" /\ t # "header"
    BY <1>5 DEF Reading
  <2>2. CASE t = "reset"
    BY <1>4, <1>8, <2>2
  <2>3. CASE t \in {"configure", "stop"}
    <3>1. clean /\ ~Reading
      BY <1>2, <1>6, <2>3 DEF Reading
    <3> QED BY <1>4, <2>3, <3>1 DEF FreshPipe
  <2>4. CASE t = "pixels"
    <3>1. clean
      BY <1>2, <2>4
    <3>2. sensor.asked = <<>> /\ NoHeaders(sensor.unread)
      BY <1>6, <2>4, <3>1 DEF FreshPipe, Dependable
    <3>3. sensor'.asked = sensor.asked /\ sensor.unread # <<>> /\ sensor'.unread = Tail(sensor.unread)
      BY <1>4, <2>4 DEF Reads
    <3> DEFINE u == sensor.unread
    <3>4. u \in Seq(Items) /\ u # <<>> /\ \A i \in DOMAIN u : u[i].claims = NoHeader
      BY <1>3, <3>2, <3>3 DEF NoHeaders
    <3> HIDE DEF u
    <3>5. /\ Len(u) \in Nat \ {0} /\ DOMAIN u = 1..Len(u) /\ DOMAIN Tail(u) = 1..(Len(u) - 1)
          /\ \A i \in 1..(Len(u) - 1) : Tail(u)[i] = u[i + 1]
      BY <3>4, TailOf
    <3>6. NoHeaders(Tail(u))
      <4> SUFFICES ASSUME NEW i \in 1..(Len(u) - 1)
                   PROVE  u[i + 1].claims = NoHeader
        BY <3>5 DEF NoHeaders
      <4>1. i + 1 \in DOMAIN u
        BY <3>5
      <4> QED BY <3>4, <4>1
    <3> QED BY <3>2, <3>3, <3>6 DEF u
  <2> QED BY <1>1, <2>1, <2>2, <2>3, <2>4 DEF Transfers, t
<1>15. Dependable' /\ At("header")' => OneShot'
  <2> SUFFICES ASSUME Dependable', t = "command"
               PROVE  OneShot'
    BY <1>5
  <2>1. CASE ~sensor.keeps
    BY <1>4, <1>8, <2>1 DEF OneShot
  <2>2. CASE sensor.keeps
    <3>1. clean /\ ~Reading
      BY <1>2, <1>4, <1>6, <2>2 DEF Dependable, Reading
    <3>2. sensor.asked = <<>> /\ NoHeaders(sensor.unread)
      BY <3>1 DEF FreshPipe
    <3>3. Append(<<>>, commands') = <<commands'>>
      OBVIOUS
    <3> QED BY <1>4, <2>2, <3>2, <3>3 DEF OneShot
  <2> QED BY <2>1, <2>2
<1>16. Dependable' /\ At("pixels")' =>
         header'.of = commands' /\ sensor'.asked = <<>> /\ NoHeaders(sensor'.unread)
  <2> SUFFICES ASSUME Dependable', t = "header"
               PROVE  header'.of = commands' /\ sensor'.asked = <<>> /\ NoHeaders(sensor'.unread)
    BY <1>5
  <2>1. Dependable
    BY <1>2, <1>4 DEF Dependable
  <2>2. OneShot
    BY <1>6, <2>1 DEF FreshPipe
  <2> DEFINE u == sensor.unread
  <2>3. u \in Seq(Items) /\ u # <<>> /\ u[1].claims # NoHeader /\ header' = u[1] /\ sensor'.unread = Tail(u)
    BY <1>3, <1>12
  <2>4. commands' = commands /\ sensor'.asked = sensor.asked
    BY <1>4 DEF Reads
  <2>5. /\ Len(u) \in Nat \ {0} /\ DOMAIN u = 1..Len(u) /\ DOMAIN Tail(u) = 1..(Len(u) - 1)
        /\ \A i \in 1..(Len(u) - 1) : Tail(u)[i] = u[i + 1]
    BY <2>3, TailOf
  <2>6. 1 \in DOMAIN u
    BY <2>5
  <2>7. ~NoHeaders(u)
    BY <2>3, <2>6 DEF NoHeaders
  <2>8. /\ sensor.asked = <<>>
        /\ \A i, j \in DOMAIN u : u[i].claims # NoHeader /\ u[j].claims # NoHeader => i = j
        /\ \A i \in DOMAIN u : u[i].claims # NoHeader => u[i].of = commands
    BY <2>2, <2>7 DEF OneShot
  <2> HIDE DEF u
  <2>9. u[1].of = commands
    BY <2>3, <2>6, <2>8
  <2>10. NoHeaders(Tail(u))
    <3> SUFFICES ASSUME NEW i \in 1..(Len(u) - 1)
                 PROVE  u[i + 1].claims = NoHeader
      BY <2>5 DEF NoHeaders
    <3>1. i + 1 \in DOMAIN u /\ i + 1 # 1
      BY <2>5
    <3> QED BY <2>3, <2>6, <2>8, <3>1
  <2> QED BY <2>3, <2>4, <2>8, <2>9, <2>10
<1>17. FreshPipe'
  BY <1>14, <1>15, <1>16 DEF FreshPipe
<1> QED BY <1>1, <1>9, <1>10, <1>11, <1>13, <1>17 DEF ReaderInv

\* What the running operation is about to transfer. That of an open device is a
\* capture's.
LEMMA AboutToTransfer ==
  ASSUME ReaderInv, op # "idle"
  PROVE  /\ todo # <<>> /\ Head(todo) \in Transfers
         /\ op \in Streams \/ dev = "open" => Head(todo) \in ToSet(Capture)
<1>1. /\ todo # <<>> /\ todo \in Seq(Transfers)
      /\ op \in Streams => \A i \in DOMAIN todo : todo[i] \in ToSet(Capture)
      /\ dev = "open" => op \in Streams
  BY DEF ReaderInv, ReaderTyped, Programmed
<1>2. Len(todo) \in Nat \ {0} /\ DOMAIN todo = 1..Len(todo) /\ Head(todo) = todo[1] /\ Head(todo) \in Transfers
  BY <1>1, TailOf
<1>3. 1 \in DOMAIN todo
  BY <1>2
<1> QED BY <1>1, <1>2, <1>3

\* A future that is dropped.
LEMMA AbandonKeeps ==
  ASSUME ReaderInv, FreshPipe, Abandon
  PROVE  ReaderInv' /\ FreshPipe' /\ ~Delivers
<1>1. /\ op \in Streams /\ Stop /\ UNCHANGED <<dev, frames>>
      /\ \/ AtYield /\ UNCHANGED <<sensor, commands, clean>>
         \/ MaybeEffect(Head(todo)) /\ clean' = FALSE
  BY DEF Abandon, Broken
<1>2. /\ ReaderTyped /\ Whole(sensor.unread) /\ sensor \in Sensors /\ commands \in Nat
      /\ dev = "open" => sensor.armed
  BY DEF ReaderInv, ReaderTyped, WholePipe, ArmedWhileOpen
<1>3. todo # <<>> /\ Head(todo) \in Transfers /\ Head(todo) \in ToSet(Capture)
  BY <1>1, AboutToTransfer DEF Streams
<1>4. CASE AtYield /\ UNCHANGED <<sensor, commands, clean>>
  <2>1. ~Reading
    BY <1>4 DEF AtYield, Reading, At
  <2>2. clean' => sensor'.asked = <<>> /\ NoHeaders(sensor'.unread)
    BY <1>4, <2>1 DEF FreshPipe
  <2> QED BY <1>1, <1>2, <1>4, <2>2, StoppedKeeps
<1>5. CASE MaybeEffect(Head(todo)) /\ clean' = FALSE
  <2>1. /\ sensor' \in Sensors /\ commands' \in Nat /\ Whole(sensor'.unread)
        /\ sensor'.armed = sensor.armed
    BY <1>2, <1>3, <1>5, MaybeEffectOf
  <2> QED BY <1>1, <1>2, <1>5, <2>1, StoppedKeeps
<1> QED BY <1>1, <1>4, <1>5

\* A transport error, or a read that is refused.
LEMMA FailureKeeps ==
  ASSUME ReaderInv, FreshPipe, TransferFails \/ Refuse
  PROVE  ReaderInv' /\ FreshPipe' /\ ~Delivers
<1>1. /\ urb /\ Stop /\ UNCHANGED <<dev, frames>> /\ MaybeEffect(Head(todo))
      /\ clean' => clean /\ ~InCapture
  BY DEF TransferFails, Refuse, Broken, MaybeEffect
<1>2. /\ ReaderTyped /\ Whole(sensor.unread) /\ op # "idle"
      /\ dev = "open" => sensor.armed
  BY <1>1 DEF ReaderInv, WholePipe, ArmedWhileOpen, Programmed
<1>3. todo # <<>> /\ Head(todo) \in Transfers /\ (dev = "open" => Head(todo) \in ToSet(Capture))
  BY <1>2, AboutToTransfer
<1>4. /\ sensor' \in Sensors /\ commands' \in Nat /\ Whole(sensor'.unread)
      /\ Head(todo) \in ToSet(Capture) => sensor'.armed = sensor.armed
      /\ Head(todo) \notin ToSet(Capture) /\ sensor.asked = <<>> /\ NoHeaders(sensor.unread) =>
           sensor'.asked = <<>> /\ NoHeaders(sensor'.unread)
  BY <1>1, <1>2, <1>3, MaybeEffectOf
<1>5. clean' => sensor'.asked = <<>> /\ NoHeaders(sensor'.unread)
  <2> SUFFICES ASSUME clean'
               PROVE  sensor'.asked = <<>> /\ NoHeaders(sensor'.unread)
    OBVIOUS
  <2>1. clean /\ Head(todo) \notin ToSet(Capture)
    BY <1>1, <1>2 DEF InCapture
  <2>2. ~Reading
    BY <2>1, CaptureTransfers DEF Reading, At
  <2> QED BY <1>4, <2>1, <2>2 DEF FreshPipe
<1> QED BY <1>1, <1>2, <1>3, <1>4, <1>5, StoppedKeeps

\* The daemon's death.
LEMMA DieKeeps ==
  ASSUME ReaderInv, FreshPipe, Die
  PROVE  ReaderInv' /\ FreshPipe' /\ ~Delivers
<1>1. /\ IF urb THEN MaybeEffect(Head(todo)) ELSE UNCHANGED <<sensor, commands>>
      /\ clean' = (clean /\ op = "idle") /\ dev' = "none" /\ Stop /\ frames' = <<>>
  BY DEF Die
<1>2. /\ ReaderTyped /\ Whole(sensor.unread) /\ sensor \in Sensors /\ commands \in Nat
      /\ op = "idle" => ~urb /\ todo = <<>>
  BY DEF ReaderInv, ReaderTyped, WholePipe, Programmed
<1>3. sensor' \in Sensors /\ commands' \in Nat /\ Whole(sensor'.unread)
  <2>1. CASE urb
    <3>1. Head(todo) \in Transfers
      BY <1>2, <2>1, AboutToTransfer
    <3> QED BY <1>1, <1>2, <2>1, <3>1, MaybeEffectOf
  <2>2. CASE ~urb
    BY <1>1, <1>2, <2>2
  <2> QED BY <2>1, <2>2
<1>4. clean' => sensor'.asked = <<>> /\ NoHeaders(sensor'.unread)
  <2> SUFFICES ASSUME clean'
               PROVE  sensor'.asked = <<>> /\ NoHeaders(sensor'.unread)
    OBVIOUS
  <2>1. clean /\ ~urb /\ todo = <<>> /\ sensor' = sensor
    BY <1>1, <1>2
  <2> QED BY <2>1 DEF FreshPipe, Reading, At
<1> QED BY <1>1, <1>3, <1>4, StoppedKeeps

\* An operation of the device begins.
LEMMA BeginKeeps ==
  ASSUME ReaderInv, FreshPipe, Begin
  PROVE  ReaderInv' /\ FreshPipe' /\ ~Delivers
<1>1. Program("open") = Arm /\ Program("close") = Disarm
  BY DEF Program
<1>2. Sound(Arm) /\ Sound(Disarm)
  BY ProgramsSound
<1>3. CASE Start("open", Program("open")) /\ dev' = "closed"
  BY <1>1, <1>2, <1>3, StartKeeps DEF Streams
<1>4. CASE Start("close", Program("close")) /\ dev' = Taken
  BY <1>1, <1>2, <1>4, StartKeeps DEF Streams, Taken
<1>5. ASSUME NEW kind \in Streams, Start(kind, Program(kind)), UNCHANGED dev
      PROVE  ReaderInv' /\ FreshPipe' /\ ~Delivers
  <2>1. Sound(Program(kind)) /\ \A i \in DOMAIN Program(kind) : Program(kind)[i] \in ToSet(Capture)
    BY ProgramsSound
  <2>2. kind # "idle" /\ kind # "open"
    BY DEF Streams
  <2> QED BY <1>5, <2>1, <2>2, StartKeeps
<1> QED BY <1>3, <1>4, <1>5 DEF Begin

\* Every step keeps what holds of the reader, and a frame it delivers is fresh.
LEMMA ReaderStep ==
  ASSUME ReaderInv, FreshPipe, ShotsHavePixels, [Next]_vars
  PROVE  /\ ReaderInv' /\ FreshPipe'
         /\ Delivers => frames'[Len(frames')].of = commands \/ (~clean /\ sensor.keeps)
<1>1. CASE UNCHANGED usb
  <2>1. UNCHANGED <<sensor, commands, dev, op, todo, urb, header, frames, clean>>
    BY <1>1 DEF usb
  <2>2. ReaderTyped' /\ ArmedWhileOpen' /\ WholePipe' /\ FrameWhole' /\ Programmed'
    BY <2>1 DEF ReaderInv, ReaderTyped, ArmedWhileOpen, WholePipe, FrameWhole, At, Programmed
  <2>3. FreshPipe'
    BY <2>1 DEF FreshPipe, Reading, At, Dependable, OneShot
  <2>4. ~Delivers
    BY <2>1 DEF Delivers, ReaderInv, ReaderTyped
  <2> QED BY <2>2, <2>3, <2>4 DEF ReaderInv
<1>2. CASE Device
  BY <1>2, BeginKeeps, AbandonKeeps, DieKeeps DEF Device
<1>3. CASE Touch
  BY <1>3, TouchKeeps
<1>4. CASE BeginRecord
  <2>1. Start("record", RecordProgram) /\ dev' = "none"
    BY <1>4 DEF BeginRecord
  <2> QED BY <2>1, ProgramsSound, StartKeeps DEF Streams
<1>5. CASE SubmitSeen
  BY <1>5, SubmitKeeps DEF SubmitSeen
<1>6. CASE CompleteSeen
  BY <1>6, CompleteKeeps DEF CompleteSeen
<1>7. CASE RefuseSeen
  BY <1>7, FailureKeeps DEF RefuseSeen
<1>8. CASE FailureSeen
  BY <1>8, FailureKeeps DEF FailureSeen
<1>9. CASE PutAway \/ ExtraDown \/ ExtraUp
  BY <1>1, <1>9 DEF PutAway, ExtraDown, ExtraUp
<1>10. CASE UNCHANGED vars
  BY <1>1, <1>10 DEF vars
<1> QED BY <1>2, <1>3, <1>4, <1>5, <1>6, <1>7, <1>8, <1>9, <1>10 DEF Next

-----------------------------------------------------------------------------
(* What a recording has taped, for any number of frames: the reads on the   *)
(* tape are the headers and the pixels of its frames, in their order.       *)

Pieces == [kind : {"control", "out", "in"}, name : Transfers \cup {"data"}, item : Items]

\* The members of a set of places can be counted through.
InOrder(S) ==
  /\ \A k \in 1..Cardinality(S) : \E i \in S : Place(S, i) = k
  /\ \A i, j \in S : Place(S, i) = Place(S, j) => i = j

\* Each frame is what the replay makes of its two reads.
MadeOf(frame, h, p) ==
  MakesFrame(h, p) /\ frame = [of |-> p.of, header |-> h.of, claims |-> h.claims, size |-> p.size]
MadeOfReads(ins) == \A i \in DOMAIN frames : MadeOf(frames[i], ins[2 * i - 1], ins[2 * i])

Taping ==
  /\ Len(ReadsOf(tape)) = 2 * Len(frames) + (IF At("pixels") THEN 1 ELSE 0)
  /\ MadeOfReads(ReadsOf(tape))
  /\ At("pixels") => Acceptable(header) /\ ReadsOf(tape)[2 * Len(frames) + 1] = header

TapeInv ==
  /\ tape \in Seq(Pieces) /\ InOrder(Ins(tape))
  /\ Recording => cassette = None
  /\ cassette # None => op = "idle" /\ cassette = tape /\ tape # <<>>
  /\ Recording \/ cassette # None => Taping

\* A set of places that gets one more, behind the others.
LEMMA OneMorePlace ==
  ASSUME NEW n \in Nat, NEW S \in SUBSET (1..n), InOrder(S)
  PROVE  LET T == S \cup {n + 1} IN
         /\ Cardinality(S) \in Nat /\ Cardinality(T) = Cardinality(S) + 1 /\ InOrder(T)
         /\ \A k \in 1..Cardinality(S) : Nth(S, k) \in S /\ Nth(T, k) = Nth(S, k)
         /\ Nth(T, Cardinality(S) + 1) = n + 1
<1> DEFINE T == S \cup {n + 1}
           c == Cardinality(S)
<1>1. IsFiniteSet(S) /\ c \in Nat /\ n + 1 \notin S
  <2>1. IsFiniteSet(1..n)
    BY FS_Interval
  <2>2. IsFiniteSet(S)
    BY <2>1, FS_Subset
  <2>3. n + 1 \notin S
    OBVIOUS
  <2> QED BY <2>2, <2>3, FS_CardinalityType
<1>2. IsFiniteSet(T) /\ Cardinality(T) = c + 1
  BY <1>1, FS_AddElement
<1>3. ASSUME NEW i \in S
      PROVE  Place(T, i) = Place(S, i) /\ Place(S, i) \in 0..c
  <2>1. {j \in T : j <= i} = {j \in S : j <= i}
    <3>1. ~(n + 1 <= i)
      OBVIOUS
    <3> QED BY <3>1
  <2>2. Cardinality({j \in S : j <= i}) \in Nat /\ Cardinality({j \in S : j <= i}) <= c
    <3>1. {j \in S : j <= i} \in SUBSET S
      OBVIOUS
    <3> QED BY <1>1, <3>1, FS_Subset, FS_CardinalityType
  <2> QED BY <1>1, <2>1, <2>2 DEF Place
<1>4. Place(T, n + 1) = c + 1
  <2>1. {j \in T : j <= n + 1} = T
    <3>1. \A j \in T : j <= n + 1
      OBVIOUS
    <3> QED BY <3>1
  <2> QED BY <1>2, <2>1 DEF Place
<1> HIDE DEF c
<1>5. \A i, j \in T : Place(T, i) = Place(T, j) => i = j
  BY <1>1, <1>3, <1>4 DEF InOrder
<1>6. \A k \in 1..(c + 1) : \E i \in T : Place(T, i) = k
  <2> SUFFICES ASSUME NEW k \in 1..(c + 1)
               PROVE  \E i \in T : Place(T, i) = k
    OBVIOUS
  <2>1. CASE k \in 1..c
    <3> PICK i \in S : Place(S, i) = k
      BY <2>1 DEF InOrder, c
    <3> QED BY <1>3
  <2>2. CASE k = c + 1
    BY <1>4, <2>2
  <2> QED BY <1>1, <2>1, <2>2
<1>7. InOrder(T)
  BY <1>2, <1>5, <1>6 DEF InOrder
<1>8. ASSUME NEW k \in 1..c
      PROVE  Nth(S, k) \in S /\ Nth(T, k) = Nth(S, k)
  <2>1. \E i \in S : Place(S, i) = k
    BY DEF InOrder, c
  <2>2. Nth(S, k) \in S /\ Place(S, Nth(S, k)) = k
    BY <2>1 DEF Nth
  <2>3. Nth(S, k) \in T /\ Place(T, Nth(S, k)) = k
    BY <1>3, <2>2
  <2>4. Nth(T, k) \in T /\ Place(T, Nth(T, k)) = k
    BY <2>3 DEF Nth
  <2> QED BY <1>5, <2>2, <2>3, <2>4
<1>9. Nth(T, c + 1) = n + 1
  <2>1. n + 1 \in T
    OBVIOUS
  <2>2. Nth(T, c + 1) \in T /\ Place(T, Nth(T, c + 1)) = c + 1
    BY <1>4, <2>1 DEF Nth
  <2> QED BY <1>4, <1>5, <2>1, <2>2
<1> QED BY <1>1, <1>2, <1>7, <1>8, <1>9 DEF c

\* The reads of what is taped are items.
LEMMA ReadsTyped ==
  ASSUME NEW s \in Seq(Pieces), InOrder(Ins(s))
  PROVE  /\ ReadsOf(s) \in Seq(Items) /\ Len(ReadsOf(s)) = Cardinality(Ins(s))
         /\ Len(ReadsOf(s)) \in Nat /\ DOMAIN ReadsOf(s) = 1..Len(ReadsOf(s))
         /\ Ins(s) \in SUBSET (1..Len(s)) /\ Len(s) \in Nat
         /\ \A k \in 1..Cardinality(Ins(s)) : ReadsOf(s)[k] = s[Nth(Ins(s), k)].item
<1> DEFINE S == Ins(s)
           c == Cardinality(S)
           r == ReadsOf(s)
<1>1. Len(s) \in Nat /\ DOMAIN s = 1..Len(s) /\ S \in SUBSET (1..Len(s))
  BY DEF Ins
<1> HIDE DEF S
<1>2. c \in Nat /\ \A k \in 1..c : Nth(S, k) \in S
  BY <1>1, OneMorePlace DEF S
<1>3. r = [k \in 1..c |-> s[Nth(S, k)].item]
  BY DEF ReadsOf, S
<1>4. \A k \in 1..c : s[Nth(S, k)].item \in Items
  <2> SUFFICES ASSUME NEW k \in 1..c
               PROVE  s[Nth(S, k)].item \in Items
    OBVIOUS
  <2>1. Nth(S, k) \in 1..Len(s)
    BY <1>1, <1>2
  <2>2. s[Nth(S, k)] \in Pieces
    BY <1>1, <2>1
  <2> QED BY <2>2 DEF Pieces
<1> HIDE DEF c, r
<1>5. r \in [1..c -> Items] /\ \A k \in 1..c : r[k] = s[Nth(S, k)].item
  BY <1>3, <1>4
<1>6. r \in Seq(Items) /\ DOMAIN r = 1..c
  BY <1>2, <1>5
<1>7. Len(r) = c
  BY <1>2, <1>6
<1> QED BY <1>1, <1>2, <1>5, <1>6, <1>7 DEF S, c, r

\* One more transfer on the tape: a read comes behind the others.
LEMMA ReadsGrow ==
  ASSUME NEW s \in Seq(Pieces), InOrder(Ins(s)), NEW e \in Pieces
  PROVE  LET t == Append(s, e)
             old == ReadsOf(s)
             new == ReadsOf(t)
         IN  /\ t \in Seq(Pieces) /\ t # <<>> /\ InOrder(Ins(t))
             /\ e.kind # "in" => new = old
             /\ e.kind = "in" => /\ Len(new) = Len(old) + 1 /\ new[Len(old) + 1] = e.item
                                 /\ \A k \in 1..Len(old) : new[k] = old[k]
<1> DEFINE t == Append(s, e)
           n == Len(s)
           S == Ins(s)
           c == Cardinality(S)
<1>1. /\ n \in Nat /\ DOMAIN s = 1..n /\ t \in Seq(Pieces) /\ t # <<>> /\ Len(t) = n + 1 /\ DOMAIN t = 1..(n + 1)
      /\ \A i \in 1..n : t[i] = s[i]
      /\ t[n + 1] = e
  BY AppendProperties
<1> HIDE DEF t, n
<1>2. /\ S \in SUBSET (1..n) /\ c \in Nat /\ Len(ReadsOf(s)) = c
      /\ \A k \in 1..c : ReadsOf(s)[k] = s[Nth(S, k)].item
  BY ReadsTyped DEF n
<1>3. CASE e.kind # "in"
  <2>1. Ins(t) = S
    BY <1>1, <1>3 DEF Ins
  <2>2. \A k \in 1..c : t[Nth(S, k)] = s[Nth(S, k)]
    <3>1. \A k \in 1..c : Nth(S, k) \in S
      BY <1>1, <1>2, OneMorePlace
    <3> QED BY <1>1, <1>2, <3>1
  <2>3. ReadsOf(t) = ReadsOf(s)
    BY <2>1, <2>2 DEF ReadsOf
  <2> QED BY <1>1, <1>3, <2>1, <2>3 DEF t
<1>4. CASE e.kind = "in"
  <2>1. Ins(t) = S \cup {n + 1}
    BY <1>1, <1>4 DEF Ins
  <2> DEFINE T == Ins(t)
  <2>2. /\ Cardinality(T) = c + 1 /\ InOrder(T)
        /\ \A k \in 1..c : Nth(S, k) \in S /\ Nth(T, k) = Nth(S, k)
        /\ Nth(T, c + 1) = n + 1
    <3> DEFINE U == S \cup {n + 1}
    <3>1. /\ Cardinality(U) = c + 1 /\ InOrder(U)
          /\ \A k \in 1..c : Nth(S, k) \in S /\ Nth(U, k) = Nth(S, k)
          /\ Nth(U, c + 1) = n + 1
      BY <1>1, <1>2, OneMorePlace
    <3> QED BY <2>1, <3>1
  <2> HIDE DEF c
  <2>3. /\ Len(ReadsOf(t)) = c + 1
        /\ \A k \in 1..(c + 1) : ReadsOf(t)[k] = t[Nth(T, k)].item
    BY <1>1, <2>2, ReadsTyped
  <2>4. ReadsOf(t)[c + 1] = e.item
    BY <1>1, <1>2, <2>2, <2>3
  <2>5. \A k \in 1..c : ReadsOf(t)[k] = ReadsOf(s)[k]
    <3> SUFFICES ASSUME NEW k \in 1..c
                 PROVE  ReadsOf(t)[k] = ReadsOf(s)[k]
      OBVIOUS
    <3>1. Nth(S, k) \in 1..n /\ Nth(T, k) = Nth(S, k)
      BY <1>2, <2>2
    <3>2. ReadsOf(t)[k] = t[Nth(S, k)].item
      BY <1>2, <2>3, <3>1
    <3> QED BY <1>1, <1>2, <3>1, <3>2
  <2> QED BY <1>1, <1>2, <1>4, <2>2, <2>3, <2>4, <2>5 DEF t
<1> QED BY <1>3, <1>4

\* An empty tape.
LEMMA NothingRead == InOrder(Ins(<<>>)) /\ Len(ReadsOf(<<>>)) = 0 /\ <<>> \in Seq(Pieces)
<1>1. Ins(<<>>) = {}
  BY DEF Ins
<1>2. Cardinality({}) = 0
  BY FS_EmptySet
<1>3. InOrder({})
  BY <1>2 DEF InOrder
<1>4. <<>> \in Seq(Pieces)
  OBVIOUS
<1>5. Len(ReadsOf(<<>>)) = 0
  BY <1>1, <1>2, <1>3, <1>4, ReadsTyped
<1> QED BY <1>1, <1>3, <1>4, <1>5

\* A tape that gets one more transfer, or none, stays one.
LEMMA TapeGrows ==
  ASSUME tape \in Seq(Pieces), InOrder(Ins(tape)), NEW t \in Transfers, NEW item \in Items,
         tape' \in {tape, Taped(t, item)}
  PROVE  tape' \in Seq(Pieces) /\ InOrder(Ins(tape'))
<1>1. Exchange(t, item) \in Pieces
  BY DEF Exchange, Read, Written, Transfer, Kind, Keys, Reads, Pieces, Nothing, Item, Items, Claims, NoHeader, Transfers
<1>2. Append(tape, Exchange(t, item)) \in Seq(Pieces) /\ InOrder(Ins(Append(tape, Exchange(t, item))))
  BY <1>1, ReadsGrow
<1> QED BY <1>2 DEF Taped

\* What a transfer that completes brings: an item of the sensor's, or nothing.
LEMMA ArrivedItem ==
  ASSUME ReaderInv, todo # <<>>, Possible(Head(todo))
  PROVE  Head(todo) \in Transfers /\ Arrived \in Items
<1>1. todo \in Seq(Transfers) /\ sensor.unread \in Seq(Items)
  BY DEF ReaderInv, ReaderTyped, Sensors
<1>2. Head(todo) \in Transfers
  BY <1>1, TailOf
<1>3. Nothing \in Items
  BY DEF Nothing, Item, Items, Claims, NoHeader
<1>4. Head(todo) \in Reads => Head(sensor.unread) \in Items
  BY <1>1, TailOf DEF Possible
<1> QED BY <1>2, <1>3, <1>4 DEF Arrived

\* A transfer that completes under a recording: a header waits for its pixels,
\* pixels make a frame with the header before them, the rest is not read back.
LEMMA CompleteTaped ==
  ASSUME ReaderInv, TapeInv, Recording, Complete, tape' = Taped(Head(todo), Arrived)
  PROVE  Taping'
<1> DEFINE t == Head(todo)
           F == [of : Nat, header : Nat, claims : Nat, size : Nat]
           e == Exchange(t, Arrived)
           old == ReadsOf(tape)
           new == ReadsOf(tape')
           n == Len(frames)
<1>1. /\ todo # <<>> /\ t \in Transfers /\ Possible(t) /\ todo' = Tail(todo) /\ todo' \in Seq(Transfers)
  BY CompleteAdvances
<1>2. /\ t \in Reads => ~Refused(t, Head(sensor.unread))
      /\ header' = IF t = "header" THEN Head(sensor.unread) ELSE IF t = "pixels" THEN None ELSE header
      /\ frames' = IF t = "pixels" THEN Append(frames, Frame(Head(sensor.unread))) ELSE frames
  BY DEF Complete, Completes
<1>3. /\ todo \in Seq(Transfers) /\ Ordered(todo) /\ sensor.unread \in Seq(Items) /\ frames \in Seq(F)
      /\ n \in Nat /\ DOMAIN frames = 1..n
  BY DEF ReaderInv, ReaderTyped, Programmed, Sensors
<1>4. t = "header" <=> At("pixels")'
  BY <1>1, <1>3, NextTransfer DEF At
<1>5. /\ tape \in Seq(Pieces) /\ InOrder(Ins(tape))
      /\ Len(old) = 2 * n + (IF At("pixels") THEN 1 ELSE 0)
      /\ MadeOfReads(old)
      /\ At("pixels") => Acceptable(header) /\ old[2 * n + 1] = header
  BY DEF TapeInv, Taping
<1>6. t = "pixels" <=> At("pixels")
  BY <1>1 DEF At
<1>7. Arrived \in Items
  BY <1>1, ArrivedItem
<1>8. e \in Pieces /\ tape' = Append(tape, e)
  BY <1>1, <1>7 DEF Taped, Exchange, Read, Written, Transfer, Kind, Keys, Reads, Pieces,
                    Nothing, Item, Items, Claims, NoHeader, Transfers
<1>9. /\ t \in Reads => e.kind = "in" /\ e.item = Head(sensor.unread)
      /\ t \notin Reads => e.kind # "in"
  BY DEF Exchange, Read, Written, Transfer, Kind, Arrived
<1> HIDE DEF e
<1>10. /\ e.kind # "in" => new = old
       /\ e.kind = "in" => /\ Len(new) = Len(old) + 1 /\ new[Len(old) + 1] = e.item
                           /\ \A k \in 1..Len(old) : new[k] = old[k]
  <2> DEFINE u == Append(tape, e)
  <2>1. /\ e.kind # "in" => ReadsOf(u) = old
        /\ e.kind = "in" => /\ Len(ReadsOf(u)) = Len(old) + 1 /\ ReadsOf(u)[Len(old) + 1] = e.item
                            /\ \A k \in 1..Len(old) : ReadsOf(u)[k] = old[k]
    BY <1>5, <1>8, ReadsGrow
  <2>2. new = ReadsOf(u)
    BY <1>8
  <2> QED BY <2>1, <2>2
<1> HIDE DEF t, old, new, n
<1>11. CASE t \notin Reads
  <2>1. new = old /\ frames' = frames /\ ~At("pixels") /\ ~At("pixels")'
    BY <1>2, <1>4, <1>6, <1>9, <1>10, <1>11 DEF Reads
  <2>2. \A i \in DOMAIN frames : MadeOf(frames[i], new[2 * i - 1], new[2 * i])
    BY <1>5, <2>1 DEF MadeOfReads
  <2>3. MadeOfReads(ReadsOf(tape))'
    BY <2>1, <2>2 DEF MadeOfReads, MadeOf, MakesFrame, Acceptable, new
  <2>4. Len(new) = 2 * Len(frames)
    BY <1>3, <1>5, <2>1 DEF n
  <2> QED BY <2>1, <2>3, <2>4 DEF Taping, new
<1>12. CASE t = "header"
  <2>1. /\ frames' = frames /\ header' = Head(sensor.unread) /\ At("pixels")' /\ ~At("pixels")
        /\ e.kind = "in" /\ e.item = header'
    BY <1>2, <1>4, <1>6, <1>9, <1>12 DEF Reads
  <2>2. Acceptable(header')
    BY <1>2, <1>12, <2>1 DEF Refused, Reads
  <2>3. /\ Len(new) = 2 * n + 1 /\ new[2 * n + 1] = header'
        /\ \A k \in 1..(2 * n) : new[k] = old[k]
    BY <1>3, <1>5, <1>10, <2>1
  <2>4. \A i \in 1..n : MadeOf(frames[i], new[2 * i - 1], new[2 * i])
    <3> SUFFICES ASSUME NEW i \in 1..n
                 PROVE  MadeOf(frames[i], new[2 * i - 1], new[2 * i])
      OBVIOUS
    <3>1. 2 * i - 1 \in 1..(2 * n) /\ 2 * i \in 1..(2 * n)
      BY <1>3
    <3>2. MadeOf(frames[i], old[2 * i - 1], old[2 * i])
      BY <1>3, <1>5 DEF MadeOfReads
    <3> QED BY <2>3, <3>1, <3>2
  <2>5. MadeOfReads(ReadsOf(tape))'
    BY <1>3, <2>1, <2>4 DEF MadeOfReads, MadeOf, MakesFrame, Acceptable, new
  <2>6. Acceptable(header)'
    BY <2>2 DEF Acceptable
  <2> QED BY <2>1, <2>3, <2>5, <2>6 DEF Taping, new, n
<1>13. CASE t = "pixels"
  <2> DEFINE p == Head(sensor.unread)
             f == Frame(p)
  <2>1. /\ frames' = Append(frames, f) /\ At("pixels") /\ ~At("pixels")'
        /\ e.kind = "in" /\ e.item = p
    BY <1>2, <1>4, <1>6, <1>9, <1>13 DEF Reads
  <2>2. Acceptable(header) /\ p.size = header.claims
    BY <1>2, <1>5, <1>13, <2>1 DEF Refused, Reads, Assembles
  <2>3. MadeOf(f, header, p)
    BY <2>2 DEF MadeOf, MakesFrame, Frame
  <2> HIDE DEF p, f
  <2>4. /\ Len(new) = 2 * (n + 1) /\ new[2 * n + 1] = header /\ new[2 * n + 2] = p
        /\ \A k \in 1..(2 * n) : new[k] = old[k]
    BY <1>3, <1>5, <1>10, <2>1
  <2>5. f \in F
    <3>1. header \in Items /\ p \in Items
      BY <1>7, <1>13, <2>1 DEF ReaderInv, WholePipe, Arrived, Reads, t, p
    <3> QED BY <2>2, <3>1 DEF Frame, Items, f
  <2>6. /\ Len(frames') = n + 1 /\ DOMAIN frames' = 1..(n + 1)
        /\ \A i \in 1..n : frames'[i] = frames[i]
        /\ frames'[n + 1] = f
    BY <1>3, <2>1, <2>5, AppendProperties DEF n
  <2>7. \A i \in 1..(n + 1) : MadeOf(frames'[i], new[2 * i - 1], new[2 * i])
    <3> SUFFICES ASSUME NEW i \in 1..(n + 1)
                 PROVE  MadeOf(frames'[i], new[2 * i - 1], new[2 * i])
      OBVIOUS
    <3>1. CASE i \in 1..n
      <4>1. 2 * i - 1 \in 1..(2 * n) /\ 2 * i \in 1..(2 * n)
        BY <1>3, <3>1
      <4>2. MadeOf(frames[i], old[2 * i - 1], old[2 * i])
        BY <1>3, <1>5, <3>1 DEF MadeOfReads
      <4> QED BY <2>4, <2>6, <3>1, <4>1, <4>2
    <3>2. CASE i = n + 1
      <4>1. 2 * i - 1 = 2 * n + 1 /\ 2 * i = 2 * n + 2
        BY <1>3, <3>2
      <4> QED BY <2>3, <2>4, <2>6, <3>2, <4>1
    <3> QED BY <1>3, <3>1, <3>2
  <2>8. MadeOfReads(ReadsOf(tape))'
    BY <2>6, <2>7 DEF MadeOfReads, MadeOf, MakesFrame, Acceptable, new
  <2> QED BY <2>1, <2>4, <2>6, <2>8 DEF Taping, new
<1> QED BY <1>11, <1>12, <1>13 DEF Reads

\* An operation that ends early leaves a tape, and nothing that was saved.
LEMMA TapeStopped ==
  ASSUME TapeInv, tape' \in Seq(Pieces), InOrder(Ins(tape')), op' = "idle", cassette' = None
  PROVE  TapeInv'
<1>1. ~Recording'
  BY DEF Recording
<1> QED BY <1>1 DEF TapeInv

\* Nothing that a recording looks at has changed.
LEMMA TapeLeft ==
  ASSUME TapeInv, UNCHANGED <<tape, cassette, op, todo, header, frames>>
  PROVE  TapeInv'
<1>1. /\ Recording' <=> Recording
      /\ At("pixels")' <=> At("pixels")
  BY DEF Recording, At
<1>2. Taping => Taping'
  <2>1. MadeOfReads(ReadsOf(tape)) => MadeOfReads(ReadsOf(tape))'
    BY DEF MadeOfReads, MadeOf, MakesFrame, Acceptable
  <2>2. Acceptable(header) => Acceptable(header)'
    BY DEF Acceptable
  <2> QED BY <1>1, <2>1, <2>2 DEF Taping
<1> QED BY <1>1, <1>2 DEF TapeInv

\* A transfer of a recording, or of the daemon, completes.
LEMMA CompleteTapes ==
  ASSUME ReaderInv, FreshPipe, TapeInv, CompleteSeen
  PROVE  TapeInv'
<1>1. /\ Complete /\ op # "idle" /\ op' \in {op, "idle"} /\ todo # <<>> /\ Possible(Head(todo))
      /\ op' = IF Len(todo) = 1 THEN "idle" ELSE op
  BY CompleteAdvances DEF CompleteSeen, Complete, Completes, Advance, ReaderInv, Programmed
<1>2. cassette = None
  BY <1>1 DEF TapeInv
<1>3. CASE Recording
  <2>1. /\ tape' = Taped(Head(todo), Arrived)
        /\ cassette' = IF Len(todo) = 1 THEN tape' ELSE None
    BY <1>3 DEF CompleteSeen
  <2>2. Taping'
    BY <1>1, <1>3, <2>1, CompleteTaped
  <2>3. tape' \in Seq(Pieces) /\ InOrder(Ins(tape')) /\ tape' # <<>>
    <3>1. Head(todo) \in Transfers /\ Arrived \in Items
      BY <1>1, ArrivedItem
    <3>2. tape' \in Seq(Pieces) /\ InOrder(Ins(tape'))
      BY <2>1, <3>1, TapeGrows DEF TapeInv
    <3>3. tape' # <<>>
      BY <2>1 DEF Taped, TapeInv
    <3> QED BY <3>2, <3>3
  <2>4. Recording' => cassette' = None
    BY <1>1, <2>1 DEF Recording
  <2>5. cassette' # None => op' = "idle" /\ cassette' = tape'
    BY <1>1, <2>1
  <2> QED BY <2>2, <2>3, <2>4, <2>5 DEF TapeInv
<1>4. CASE ~Recording
  <2>1. UNCHANGED <<tape, cassette>>
    BY <1>4 DEF CompleteSeen
  <2>2. ~Recording'
    BY <1>1, <1>4 DEF Recording
  <2> QED BY <1>2, <2>1, <2>2 DEF TapeInv
<1> QED BY <1>3, <1>4

\* A transfer that is refused or fails ends the recording.
LEMMA FailureTapes ==
  ASSUME ReaderInv, TapeInv, RefuseSeen \/ FailureSeen
  PROVE  TapeInv'
<1>1. /\ urb /\ op' = "idle" /\ cassette' = cassette
      /\ RefuseSeen => Possible(Head(todo))
      /\ tape' = tape \/ (RefuseSeen /\ tape' = Taped(Head(todo), Arrived))
  BY DEF RefuseSeen, FailureSeen, Refuse, TransferFails, Broken, Stop
<1>2. op # "idle" /\ todo # <<>>
  BY <1>1 DEF ReaderInv, Programmed
<1>3. cassette' = None
  BY <1>1, <1>2 DEF TapeInv
<1>4. tape' \in Seq(Pieces) /\ InOrder(Ins(tape'))
  <2>1. CASE tape' = tape
    BY <2>1 DEF TapeInv
  <2>2. CASE RefuseSeen /\ tape' = Taped(Head(todo), Arrived)
    <3>1. Head(todo) \in Transfers /\ Arrived \in Items
      BY <1>1, <1>2, <2>2, ArrivedItem
    <3> QED BY <2>2, <3>1, TapeGrows DEF TapeInv
  <2> QED BY <1>1, <2>1, <2>2
<1> QED BY <1>1, <1>3, <1>4, TapeStopped

\* The daemon's own operations run while there is no tape.
LEMMA DeviceTapes ==
  ASSUME TapeInv, Device
  PROVE  TapeInv'
<1>1. /\ ~Recording /\ tape = <<>> /\ UNCHANGED <<tape, cassette>>
      /\ Begin \/ Abandon \/ Die
  BY DEF Device
<1>2. cassette = None
  BY <1>1 DEF TapeInv
<1>3. ~Recording'
  BY <1>1 DEF Begin, Abandon, Die, Broken, Stop, Start, Streams, Recording
<1> QED BY <1>1, <1>2, <1>3 DEF TapeInv

\* A recording begins with an empty tape.
LEMMA BeginTapes ==
  ASSUME TapeInv, BeginRecord
  PROVE  TapeInv'
<1>1. tape' = <<>> /\ cassette' = None /\ frames' = <<>> /\ todo' = RecordProgram
  BY DEF BeginRecord, Start
<1>2. InOrder(Ins(tape')) /\ Len(ReadsOf(tape')) = 0 /\ tape' \in Seq(Pieces)
  BY <1>1, NothingRead
<1>3. ~At("pixels")'
  <2>1. todo' # <<>> /\ Head(todo') \notin Reads
    BY <1>1, ProgramsSound, TailOf DEF Sound
  <2> QED BY <2>1 DEF At, Reads
<1>4. MadeOfReads(ReadsOf(tape))'
  BY <1>1 DEF MadeOfReads, MadeOf, MakesFrame, Acceptable
<1>5. Taping'
  <2>1. Len(frames') = 0
    BY <1>1
  <2> QED BY <1>2, <1>3, <1>4, <2>1 DEF Taping
<1> QED BY <1>1, <1>2, <1>5 DEF TapeInv

\* Every step keeps what is on the tape.
LEMMA TapeStep ==
  ASSUME ReaderInv, FreshPipe, TapeInv, [Next]_vars
  PROVE  TapeInv'
<1>1. CASE Touch /\ UNCHANGED <<tape, cassette, monitor>>
  BY <1>1, TapeLeft DEF Touch
<1>2. CASE SubmitSeen
  BY <1>2, TapeLeft DEF SubmitSeen, Submit
<1>3. CASE ExtraDown \/ ExtraUp
  BY <1>3, TapeLeft DEF ExtraDown, ExtraUp, usb
<1>4. CASE PutAway
  <2>1. op' = "idle" /\ tape' = <<>> /\ cassette' = None
    BY <1>4 DEF PutAway, usb
  <2> QED BY <2>1, NothingRead, TapeStopped
<1>5. CASE UNCHANGED vars
  BY <1>5, TapeLeft DEF vars, usb
<1> QED BY <1>1, <1>2, <1>3, <1>4, <1>5, DeviceTapes, BeginTapes, CompleteTapes, FailureTapes DEF Next

\* What a session replays to, when its reads are those of whole frames.
LEMMA ReplayOf ==
  ASSUME NEW session, frames \in Seq([of : Nat, header : Nat, claims : Nat, size : Nat]),
         Len(ReadsOf(session)) = 2 * Len(frames), MadeOfReads(ReadsOf(session))
  PROVE  Replay(session) = [frames |-> frames, diverged |-> FALSE,
                            panicked |-> \E i \in DOMAIN frames : ~Detectable(frames[i].size)]
<1> DEFINE ins == ReadsOf(session)
           n == Len(frames)
           made == [i \in 1..n |-> [of |-> ins[2 * i].of, header |-> ins[2 * i - 1].of,
                                    claims |-> ins[2 * i - 1].claims, size |-> ins[2 * i].size]]
<1>1. n \in Nat /\ DOMAIN frames = 1..n /\ Len(ins) = 2 * n
  OBVIOUS
<1>2. \A i \in 1..n : MadeOf(frames[i], ins[2 * i - 1], ins[2 * i])
  BY <1>1 DEF MadeOfReads
<1> HIDE DEF ins, n
<1>3. \A i \in 1..n : Framed(ins, i)
  BY <1>2 DEF MadeOf, Framed
<1>4. Len(ins) \div 2 = n /\ Len(ins) % 2 = 0
  BY <1>1
<1>5. Good(ins) = n
  <2> DEFINE IsGood(k) == /\ \A i \in 1..k : Framed(ins, i)
                          /\ k < Len(ins) \div 2 => ~Framed(ins, k + 1)
  <2>1. n \in 0..(Len(ins) \div 2) /\ IsGood(n)
    BY <1>1, <1>3, <1>4
  <2>2. ASSUME NEW k \in 0..(Len(ins) \div 2), IsGood(k)
        PROVE  k = n
    <3>1. k < n => k + 1 \in 1..n
      BY <1>1, <1>4
    <3> QED BY <1>1, <1>3, <1>4, <2>2, <3>1
  <2>3. Good(ins) = CHOOSE k \in 0..(Len(ins) \div 2) : IsGood(k)
    BY DEF Good
  <2> HIDE DEF IsGood
  <2> QED BY <2>1, <2>2, <2>3
<1>6. made = frames
  <2>1. frames = [i \in 1..n |-> frames[i]]
    BY <1>1
  <2>2. \A i \in 1..n : frames[i] = [of |-> ins[2 * i].of, header |-> ins[2 * i - 1].of,
                                    claims |-> ins[2 * i - 1].claims, size |-> ins[2 * i].size]
    BY <1>2 DEF MadeOf
  <2> QED BY <2>1, <2>2
<1>7. (\E i \in 1..n : ~Detectable(ins[2 * i].size)) <=> \E i \in DOMAIN frames : ~Detectable(frames[i].size)
  <2>1. ASSUME NEW i \in 1..n
        PROVE  frames[i].size = ins[2 * i].size
    <3> DEFINE p == ins[2 * i]
               h == ins[2 * i - 1]
    <3>1. frames[i] = [of |-> p.of, header |-> h.of, claims |-> h.claims, size |-> p.size]
      BY <1>2 DEF MadeOf
    <3> HIDE DEF p, h
    <3>2. frames[i].size = p.size
      BY <3>1
    <3> QED BY <3>2 DEF p
  <2> QED BY <1>1, <2>1
<1>8. Replay(session) = [frames |-> made, diverged |-> (n < Len(ins) \div 2 \/ Len(ins) % 2 = 1),
                         panicked |-> \E i \in 1..n : ~Detectable(ins[2 * i].size)]
  BY <1>5 DEF Replay, ins
<1>9. (n < Len(ins) \div 2 \/ Len(ins) % 2 = 1) = FALSE
  BY <1>1, <1>4
<1> HIDE DEF made
<1> QED BY <1>6, <1>7, <1>8, <1>9

-----------------------------------------------------------------------------
(* What import makes of a trace, event by event.                           *)

\* What import makes.
Parcels == [kind : {"control", "out", "in"}, name : Transfers \cup Keys \cup {"data"}, item : Items]
Entries == [key : Keys, transfer : Parcels]
Accs == [transfers : Seq(Entries), pending : SUBSET (UrbIds \X Keys), described : SUBSET Keys]

\* A set of numbers has a least one.
LEMMA LeastNumber ==
  ASSUME NEW T \in SUBSET Nat, T # {}
  PROVE  \E i \in T : \A y \in T : i <= y
<1> DEFINE U == {0..i : i \in T}
<1>1. U # {} /\ U \subseteq FiniteSubsetsOf(Nat)
  <2>1. \A i \in T : 0..i \in SUBSET Nat /\ IsFiniteSet(0..i)
    BY FS_Interval
  <2> QED BY <2>1 DEF FiniteSubsetsOf
<1>2. PICK X \in U : \A Y \in U : <<Y, X>> \notin StrictSubsetOrdering(Nat)
  BY <1>1, WFMin, FS_StrictSubsetOrderingWellFounded
<1>3. PICK i \in T : X = 0..i
  OBVIOUS
<1>4. ASSUME NEW y \in T, y < i
      PROVE  FALSE
  <2>1. 0..y \subseteq 0..i /\ i \notin 0..y /\ i \in 0..i
    BY <1>4
  <2>2. <<0..y, X>> \in StrictSubsetOrdering(Nat)
    BY <1>3, <2>1 DEF StrictSubsetOrdering
  <2> QED BY <1>2, <2>2
<1>5. \A y \in T : i <= y
  BY <1>4
<1> QED BY <1>5

\* The members of any set of places can be counted through.
LEMMA AnyInOrder ==
  ASSUME NEW n \in Nat, NEW S \in SUBSET (1..n)
  PROVE  InOrder(S)
<1> DEFINE T == {m \in Nat : \E U \in SUBSET (1..m) : ~InOrder(U)}
<1> SUFFICES T = {}
  OBVIOUS
<1> SUFFICES ASSUME T # {} PROVE FALSE
  OBVIOUS
<1>1. PICK m \in T : \A y \in T : m <= y
  <2>1. T \in SUBSET Nat
    OBVIOUS
  <2> HIDE DEF T
  <2> QED BY <2>1, LeastNumber
<1>2. PICK U \in SUBSET (1..m) : ~InOrder(U)
  OBVIOUS
<1>3. CASE m = 0
  <2>1. U = {}
    BY <1>3
  <2>2. Cardinality({}) = 0
    BY FS_EmptySet
  <2> QED BY <2>2, <1>2, <2>1 DEF InOrder
<1>4. CASE m # 0
  <2>1. m - 1 \in Nat /\ (m - 1) + 1 = m /\ m - 1 \notin T
    <3>1. m \in Nat /\ m - 1 \in Nat /\ (m - 1) + 1 = m /\ ~(m <= m - 1)
      BY <1>4
    <3> HIDE DEF T
    <3> QED BY <1>1, <3>1
  <2>2. \A V \in SUBSET (1..(m - 1)) : InOrder(V)
    BY <2>1
  <2> DEFINE V == U \ {m}
  <2>3. V \in SUBSET (1..(m - 1))
    BY <2>1
  <2>4. InOrder(V)
    BY <2>2, <2>3
  <2>5. InOrder(V \cup {m})
    <3> HIDE DEF V
    <3>1. InOrder(V \cup {(m - 1) + 1})
      BY <2>1, <2>3, <2>4, OneMorePlace
    <3> QED BY <2>1, <3>1
  <2>6. U = V \cup {m} \/ U = V
    OBVIOUS
  <2> HIDE DEF V
  <2> QED BY <1>2, <2>4, <2>5, <2>6
<1> QED BY <1>3, <1>4

\* What is picked of a sequence that gets one element more.
LEMMA PickedGrows ==
  ASSUME NEW s \in Seq(Parcels), NEW S \in SUBSET (1..Len(s)), NEW e \in Parcels
  PROVE  /\ Picked(s, S) \in Seq(Parcels)
         /\ Picked(Append(s, e), S) = Picked(s, S)
         /\ Picked(Append(s, e), S \cup {Len(s) + 1}) = Append(Picked(s, S), e)
<1> DEFINE n == Len(s)
           t == Append(s, e)
           c == Cardinality(S)
           T == S \cup {n + 1}
<1>1. /\ n \in Nat /\ DOMAIN s = 1..n /\ t \in Seq(Parcels) /\ DOMAIN t = 1..(n + 1)
      /\ \A i \in 1..n : t[i] = s[i]
      /\ t[n + 1] = e /\ S \in SUBSET (1..n)
  BY AppendProperties
<1> HIDE DEF t, n
<1>2. InOrder(S)
  BY <1>1, AnyInOrder
<1>3. /\ c \in Nat /\ Cardinality(T) = c + 1
      /\ \A k \in 1..c : Nth(S, k) \in S /\ Nth(T, k) = Nth(S, k)
      /\ Nth(T, c + 1) = n + 1
  BY <1>1, <1>2, OneMorePlace
<1> HIDE DEF c, T
<1>4. /\ Picked(s, S) = [k \in 1..c |-> s[Nth(S, k)]]
      /\ Picked(t, S) = [k \in 1..c |-> t[Nth(S, k)]]
      /\ Picked(t, T) = [k \in 1..(c + 1) |-> t[Nth(T, k)]]
  BY <1>3 DEF Picked, c
<1>5. \A k \in 1..c : t[Nth(S, k)] = s[Nth(S, k)] /\ s[Nth(S, k)] \in Parcels
  <2>1. \A k \in 1..c : Nth(S, k) \in 1..n
    BY <1>1, <1>3
  <2> QED BY <1>1, <2>1
<1>6. Picked(s, S) \in Seq(Parcels) /\ Len(Picked(s, S)) = c
  <2>1. Picked(s, S) \in [1..c -> Parcels]
    BY <1>4, <1>5
  <2> QED BY <1>3, <2>1
<1>7. Picked(t, S) = Picked(s, S)
  BY <1>4, <1>5
<1>8. Picked(t, T) = Append(Picked(s, S), e)
  <2>1. Append(Picked(s, S), e) = [k \in 1..(c + 1) |-> IF k = c + 1 THEN e ELSE Picked(s, S)[k]]
    <3> DEFINE q == Picked(s, S)
               a == Append(q, e)
    <3>1. /\ a \in Seq(Parcels) /\ Len(a) = c + 1 /\ a[c + 1] = e
          /\ \A k \in 1..c : a[k] = q[k]
      BY <1>3, <1>6, AppendProperties
    <3> HIDE DEF a, q
    <3>2. a = [k \in 1..(c + 1) |-> a[k]]
      BY <3>1
    <3>3. \A k \in 1..(c + 1) : a[k] = IF k = c + 1 THEN e ELSE q[k]
      BY <1>3, <3>1
    <3>4. a = [k \in 1..(c + 1) |-> IF k = c + 1 THEN e ELSE q[k]]
      BY <3>2, <3>3
    <3> QED BY <3>4 DEF a, q
  <2>2. \A k \in 1..(c + 1) : t[Nth(T, k)] = IF k = c + 1 THEN e ELSE Picked(s, S)[k]
    <3> SUFFICES ASSUME NEW k \in 1..(c + 1)
                 PROVE  t[Nth(T, k)] = IF k = c + 1 THEN e ELSE Picked(s, S)[k]
      OBVIOUS
    <3>1. k = c + 1 => t[Nth(T, k)] = e
      BY <1>1, <1>3
    <3>2. k # c + 1 => k \in 1..c
      BY <1>3
    <3>3. k \in 1..c => t[Nth(T, k)] = Picked(s, S)[k]
      BY <1>3, <1>4, <1>5
    <3> QED BY <3>1, <3>2, <3>3
  <2> QED BY <1>4, <2>1, <2>2
<1> QED BY <1>6, <1>7, <1>8 DEF t, T, n

\* What comes of the first n of the events, for every n.
Folds(events, n, f) == f = [k \in 0..n |-> IF k = 0 THEN NothingYet ELSE Fold(f[k - 1], events[k])]

\* Such a function is there.
LEMMA FoldsExist ==
  ASSUME NEW events, NEW n \in Nat
  PROVE  \E f : Folds(events, n, f)
<1> DEFINE T == {m \in Nat : ~\E f : Folds(events, m, f)}
<1> SUFFICES ASSUME T # {} PROVE FALSE
  OBVIOUS
<1>1. PICK m \in T : \A y \in T : m <= y
  BY LeastNumber
<1>2. CASE m = 0
  <2> DEFINE f == [k \in 0..0 |-> NothingYet]
  <2>1. f = [k \in 0..0 |-> IF k = 0 THEN NothingYet ELSE Fold(f[k - 1], events[k])]
    OBVIOUS
  <2> HIDE DEF f
  <2> QED BY <1>1, <1>2, <2>1 DEF Folds
<1>3. CASE m # 0
  <2>1. m - 1 \in Nat /\ (m - 1) + 1 = m /\ m - 1 \notin T
    <3>1. m \in Nat /\ m - 1 \in Nat /\ (m - 1) + 1 = m /\ ~(m <= m - 1)
      BY <1>3
    <3> HIDE DEF T
    <3> QED BY <1>1, <3>1
  <2>2. PICK f : Folds(events, m - 1, f)
    BY <2>1
  <2> DEFINE g == [k \in 0..m |-> IF k = m THEN Fold(f[m - 1], events[m]) ELSE f[k]]
  <2>3. ASSUME NEW k \in 0..m
        PROVE  g[k] = IF k = 0 THEN NothingYet ELSE Fold(g[k - 1], events[k])
    <3>1. CASE k = 0
      <4>1. k \in 0..(m - 1) /\ k # m
        BY <1>3, <2>1, <3>1
      <4>2. f[k] = NothingYet
        BY <2>2, <3>1, <4>1 DEF Folds
      <4> QED BY <3>1, <4>1, <4>2
    <3>2. CASE k # 0 /\ k # m
      <4>1. k \in 0..(m - 1) /\ k - 1 \in 0..m /\ k - 1 # m
        BY <2>1, <3>2
      <4>2. f[k] = Fold(f[k - 1], events[k])
        BY <2>2, <3>2, <4>1 DEF Folds
      <4>3. g[k] = f[k] /\ g[k - 1] = f[k - 1]
        BY <3>2, <4>1
      <4> HIDE DEF g
      <4> QED BY <3>2, <4>2, <4>3
    <3>3. CASE k = m
      <4>1. g[k] = Fold(f[m - 1], events[m])
        BY <3>3
      <4>2. g[m - 1] = f[m - 1]
        BY <2>1
      <4> HIDE DEF g
      <4> QED BY <1>3, <3>3, <4>1, <4>2
    <3> QED BY <3>1, <3>2, <3>3
  <2>4. g = [k \in 0..m |-> g[k]]
    OBVIOUS
  <2> HIDE DEF g
  <2>5. g = [k \in 0..m |-> IF k = 0 THEN NothingYet ELSE Fold(g[k - 1], events[k])]
    BY <2>3, <2>4
  <2> QED BY <1>1, <2>5 DEF Folds
<1> QED BY <1>2, <1>3

\* What comes of the first n events is the same, whatever follows them.
LEMMA FoldsAgree ==
  ASSUME NEW s, NEW t, NEW n \in Nat, NEW m \in Nat, n <= m, NEW f, NEW g,
         \A k \in 1..n : s[k] = t[k], Folds(s, n, f), Folds(t, m, g)
  PROVE  f[n] = g[n]
<1> DEFINE T == {k \in 0..n : f[k] # g[k]}
<1> SUFFICES ASSUME T # {} PROVE FALSE
  OBVIOUS
<1>1. T \in SUBSET Nat
  OBVIOUS
<1>2. PICK k \in T : \A y \in T : k <= y
  BY <1>1, LeastNumber
<1>3. k \in 0..n /\ k \in 0..m /\ f[k] # g[k]
  OBVIOUS
<1>4. /\ f[k] = IF k = 0 THEN NothingYet ELSE Fold(f[k - 1], s[k])
      /\ g[k] = IF k = 0 THEN NothingYet ELSE Fold(g[k - 1], t[k])
  BY <1>3 DEF Folds
<1>5. k # 0
  BY <1>3, <1>4
<1>6. k - 1 \in 0..n /\ k - 1 \notin T /\ k \in 1..n
  BY <1>2, <1>3, <1>5
<1>7. f[k - 1] = g[k - 1] /\ s[k] = t[k]
  BY <1>6
<1> QED BY <1>3, <1>4, <1>7

\* Import goes on from what it has.
LEMMA AssembledGrows ==
  ASSUME NEW events \in Seq(Events), NEW ev \in Events
  PROVE  Assembled(Append(events, ev)) = Fold(Assembled(events), ev)
<1> DEFINE n == Len(events)
           t == Append(events, ev)
<1>1. /\ n \in Nat /\ Len(t) = n + 1 /\ t[n + 1] = ev
      /\ \A k \in 1..n : events[k] = t[k]
  BY AppendProperties
<1> DEFINE f == CHOOSE h : Folds(events, n, h)
           g == CHOOSE h : Folds(t, n + 1, h)
<1>2. Folds(events, n, f) /\ Folds(t, n + 1, g)
  <2>1. n + 1 \in Nat
    BY <1>1
  <2> HIDE DEF t, n
  <2>2. (\E h : Folds(events, n, h)) /\ \E h : Folds(t, n + 1, h)
    BY <1>1, <2>1, FoldsExist
  <2> QED BY <2>2
<1>3. Assembled(events) = f[n]
  BY DEF Assembled, Folds
<1>4. Assembled(t) = g[n + 1]
  <2>1. Assembled(t) = (CHOOSE h : Folds(t, Len(t), h))[Len(t)]
    BY DEF Assembled, Folds
  <2> HIDE DEF t
  <2> QED BY <1>1, <2>1
<1> HIDE DEF f, g, t, n
<1>5. f[n] = g[n]
  BY <1>1, <1>2, FoldsAgree
<1>6. g[n + 1] = Fold(g[n], ev)
  <2>1. n + 1 \in 0..(n + 1) /\ n + 1 # 0 /\ (n + 1) - 1 = n
    BY <1>1
  <2>2. g[n + 1] = Fold(g[(n + 1) - 1], t[n + 1])
    BY <1>2, <2>1 DEF Folds
  <2> QED BY <1>1, <2>1, <2>2
<1> QED BY <1>3, <1>4, <1>5, <1>6 DEF t

\* Of no events comes nothing.
LEMMA AssembledNothing == Assembled(<<>>) = NothingYet
<1> DEFINE f == CHOOSE h : Folds(<<>>, 0, h)
<1>1. Folds(<<>>, 0, f)
  BY FoldsExist
<1>2. Assembled(<<>>) = f[0]
  <2>1. Len(<<>>) = 0
    OBVIOUS
  <2> QED BY <2>1 DEF Assembled, Folds
<1> HIDE DEF f
<1> QED BY <1>1, <1>2 DEF Folds

-----------------------------------------------------------------------------
(* What of a trace is the recording's own, and what the recorder has of it. *)

Mine(acc) == Ours(Session("place", acc))
OnlySensor(entries) == \A i \in DOMAIN entries : entries[i].key = "sensor"

\* The control read of others that waits for its answer.
Waiting == IF extra # None /\ extra.type = "control" THEN {<<extra.id, extra.key>>} ELSE {}

\* A write is in the trace when it goes down, and on the tape when it is done.
Submitted == IF urb /\ Head(todo) \notin Reads THEN Append(tape, Written(Head(todo))) ELSE tape

Traced(acc) ==
  /\ acc \in Accs /\ acc.pending = Waiting
  /\ OnlySensor(trace) => OnlySensor(acc.transfers) /\ (extra # None => extra.key = "sensor")
  /\ Recording => Mine(acc) = Submitted
  /\ op = "idle" => Mine(acc) = tape \/ (cassette = None /\ \E t \in Parcels : Mine(acc) = Append(tape, t))

TraceInv ==
  /\ trace \in {None} \cup Seq(Events) /\ extra \in {None} \cup Foreign /\ urbId \in UrbIds
  /\ trace = None => extra = None
  /\ trace # None => op \in {"idle", "record"} /\ Traced(Assembled(trace))
  /\ extra # None => IF extra.type = "control" THEN extra.in ELSE extra.key = "other"
  /\ extra # None /\ urb => extra.id # urbId

\* What is left of a session without what others asked of the sensor.
LEMMA OursGrows ==
  ASSUME NEW s \in Seq(Parcels), NEW e \in Parcels
  PROVE  /\ Ours(s) \in Seq(Parcels)
         /\ Ours(Append(s, e)) = IF e.name = "sensor" THEN Ours(s) ELSE Append(Ours(s), e)
<1> DEFINE n == Len(s)
           t == Append(s, e)
           S == {i \in DOMAIN s : s[i].name # "sensor"}
           T == {i \in DOMAIN t : t[i].name # "sensor"}
<1>1. /\ n \in Nat /\ DOMAIN s = 1..n /\ DOMAIN t = 1..(n + 1)
      /\ \A i \in 1..n : t[i] = s[i]
      /\ t[n + 1] = e
  BY AppendProperties
<1>2. /\ Picked(s, S) \in Seq(Parcels) /\ Picked(t, S) = Picked(s, S)
      /\ Picked(t, S \cup {n + 1}) = Append(Picked(s, S), e)
  <2>1. S \in SUBSET (1..Len(s))
    BY <1>1
  <2> HIDE DEF S
  <2>2. /\ Picked(s, S) \in Seq(Parcels)
        /\ Picked(Append(s, e), S) = Picked(s, S)
        /\ Picked(Append(s, e), S \cup {Len(s) + 1}) = Append(Picked(s, S), e)
    <3>1. Picked(s, S) \in Seq(Parcels)
      BY <2>1, PickedGrows
    <3>2. Picked(Append(s, e), S) = Picked(s, S)
      BY <2>1, PickedGrows
    <3>3. Picked(Append(s, e), S \cup {Len(s) + 1}) = Append(Picked(s, S), e)
      BY <2>1, PickedGrows
    <3> QED BY <3>1, <3>2, <3>3
  <2> QED BY <2>2
<1>3. T = IF e.name = "sensor" THEN S ELSE S \cup {n + 1}
  <2> HIDE DEF t, n
  <2> QED BY <1>1
<1>4. Ours(s) = Picked(s, S) /\ Ours(t) = Picked(t, T)
  BY DEF Ours
<1> HIDE DEF S, T, t, n
<1> QED BY <1>2, <1>3, <1>4 DEF t

\* An imported session, and what in it is the recording's.
LEMMA SessionGrows ==
  ASSUME NEW acc \in Accs, NEW key \in Keys, NEW e \in Parcels, NEW new,
         new.transfers = Append(acc.transfers, [key |-> key, transfer |-> e])
  PROVE  /\ new.transfers \in Seq(Entries)
         /\ Mine(new) = IF key = "sensor" /\ e.name # "sensor" THEN Append(Mine(acc), e) ELSE Mine(acc)
         /\ OnlySensor(acc.transfers) /\ key = "sensor" => OnlySensor(new.transfers)
<1> DEFINE all == acc.transfers
           n == Len(all)
           entry == [key |-> key, transfer |-> e]
           more == new.transfers
<1>1. all \in Seq(Entries) /\ entry \in Entries /\ entry.key = key /\ entry.transfer = e
  BY DEF Accs, Entries
<1>2. /\ n \in Nat /\ DOMAIN all = 1..n /\ DOMAIN more = 1..(n + 1) /\ more \in Seq(Entries)
      /\ \A i \in 1..n : more[i] = all[i]
      /\ more[n + 1] = entry
  <2> HIDE DEF entry, all
  <2>1. more = Append(all, entry)
    BY DEF all, entry
  <2> HIDE DEF more
  <2> QED BY <1>1, <2>1, AppendProperties
<1> HIDE DEF all, n, entry, more
<1> DEFINE s == [i \in DOMAIN all |-> all[i].transfer]
           t == [i \in DOMAIN more |-> more[i].transfer]
           S == {i \in DOMAIN all : all[i].key = "sensor"}
           T == {i \in DOMAIN more : more[i].key = "sensor"}
<1>3. s \in Seq(Parcels) /\ Len(s) = n
  <2>1. \A i \in 1..n : all[i].transfer \in Parcels
    <3>1. \A i \in 1..n : all[i] \in Entries
      BY <1>1, <1>2
    <3>2. \A entered \in Entries : entered.transfer \in Parcels
      BY DEF Entries
    <3> QED BY <3>1, <3>2
  <2>2. s \in [1..n -> Parcels]
    BY <1>2, <2>1
  <2> HIDE DEF s
  <2> QED BY <1>2, <2>2
<1>4. t = Append(s, e)
  <2> DEFINE a == Append(s, e)
  <2>1. /\ a \in Seq(Parcels) /\ Len(a) = n + 1 /\ a[n + 1] = e
        /\ \A i \in 1..n : a[i] = s[i]
    <3> HIDE DEF s
    <3> QED BY <1>2, <1>3, AppendProperties
  <2>2. \A i \in 1..(n + 1) : a[i] = more[i].transfer
    <3> HIDE DEF a
    <3>1. \A i \in 1..n : s[i] = more[i].transfer
      BY <1>2
    <3> HIDE DEF s
    <3>2. a[n + 1] = more[n + 1].transfer
      BY <1>1, <1>2, <2>1
    <3> QED BY <1>2, <2>1, <3>1, <3>2
  <2>3. a = [i \in 1..(n + 1) |-> a[i]]
    <3> HIDE DEF a
    <3> QED BY <1>2, <2>1
  <2> HIDE DEF a, s
  <2>4. a = [i \in 1..(n + 1) |-> more[i].transfer]
    BY <2>2, <2>3
  <2> QED BY <1>2, <2>4 DEF a
<1>5. Session("place", acc) = Picked(s, S) /\ Session("place", new) = Picked(t, T)
  BY DEF Session, Kept, all, more
<1>6. T = IF key = "sensor" THEN S \cup {n + 1} ELSE S
  BY <1>1, <1>2
<1>7. /\ Picked(s, S) \in Seq(Parcels) /\ Picked(t, S) = Picked(s, S)
      /\ Picked(t, S \cup {n + 1}) = Append(Picked(s, S), e)
  <2>1. S \in SUBSET (1..n)
    BY <1>2
  <2> HIDE DEF S, s, t
  <2>2. S \in SUBSET (1..Len(s))
    BY <1>3, <2>1
  <2>3. /\ Picked(s, S) \in Seq(Parcels)
        /\ Picked(Append(s, e), S) = Picked(s, S)
        /\ Picked(Append(s, e), S \cup {Len(s) + 1}) = Append(Picked(s, S), e)
    <3>1. Picked(s, S) \in Seq(Parcels)
      BY <1>3, <2>2, PickedGrows
    <3>2. Picked(Append(s, e), S) = Picked(s, S)
      BY <1>3, <2>2, PickedGrows
    <3>3. Picked(Append(s, e), S \cup {Len(s) + 1}) = Append(Picked(s, S), e)
      BY <1>3, <2>2, PickedGrows
    <3> QED BY <3>1, <3>2, <3>3
  <2> QED BY <1>3, <1>4, <2>3
<1> HIDE DEF s, t, S, T
<1>8. Session("place", new) = IF key = "sensor" THEN Append(Session("place", acc), e) ELSE Session("place", acc)
  BY <1>5, <1>6, <1>7
<1>9. Mine(new) = IF key = "sensor" /\ e.name # "sensor" THEN Append(Mine(acc), e) ELSE Mine(acc)
  <2>1. Session("place", acc) \in Seq(Parcels)
    BY <1>5, <1>7
  <2> QED BY <1>8, <2>1, OursGrows DEF Mine
<1>10. OnlySensor(all) /\ key = "sensor" => OnlySensor(more)
  <2> SUFFICES ASSUME OnlySensor(all), key = "sensor", NEW i \in 1..(n + 1)
               PROVE  more[i].key = "sensor"
    BY <1>2 DEF OnlySensor
  <2>1. i \in 1..n => more[i].key = "sensor"
    BY <1>2 DEF OnlySensor
  <2>2. i \notin 1..n => i = n + 1
    BY <1>2
  <2> QED BY <1>1, <1>2, <2>1, <2>2
<1> QED BY <1>2, <1>9, <1>10 DEF more, all

\* What a write and a read come to.
LEMMA ParcelsMade ==
  /\ \A name \in Transfers \cup Keys : Written(name) \in Parcels /\ Written(name).name = name
  /\ \A item \in Items : Read(item) \in Parcels /\ Read(item).name = "data"
  /\ Nothing \in Items
  /\ Transfers \cap Keys = {} /\ "data" \notin Keys
<1>1. Nothing \in Items
  BY DEF Nothing, Item, NoHeader, Claims, Items
<1>2. \A name \in Transfers \cup Keys : Kind(name) \in {"control", "out", "in"}
  BY DEF Kind
<1> QED BY <1>1, <1>2 DEF Written, Read, Transfer, Parcels, Transfers, Keys

\* A transfer is added to what there is.
LEMMA Emitted ==
  ASSUME NEW acc \in Accs, NEW key \in Keys, NEW e \in Parcels
  PROVE  LET new == Emit(acc, key, e)
         IN  /\ new \in Accs /\ new.pending = acc.pending /\ new.described = acc.described
             /\ new.transfers = Append(acc.transfers, [key |-> key, transfer |-> e])
             /\ Mine(new) = IF key = "sensor" /\ e.name # "sensor" THEN Append(Mine(acc), e) ELSE Mine(acc)
             /\ OnlySensor(acc.transfers) /\ key = "sensor" => OnlySensor(new.transfers)
<1> DEFINE new == Emit(acc, key, e)
<1>1. /\ new = [acc EXCEPT !.transfers = Append(@, [key |-> key, transfer |-> e])]
      /\ acc = [transfers |-> acc.transfers, pending |-> acc.pending, described |-> acc.described]
      /\ acc.pending \in SUBSET (UrbIds \X Keys) /\ acc.described \in SUBSET Keys
  BY DEF Emit, Accs
<1> HIDE DEF new
<1>2. /\ new = [transfers |-> Append(acc.transfers, [key |-> key, transfer |-> e]),
                pending |-> acc.pending, described |-> acc.described]
  BY <1>1
<1>3. /\ new.transfers = Append(acc.transfers, [key |-> key, transfer |-> e])
      /\ new.pending = acc.pending /\ new.described = acc.described
  BY <1>2
<1>4. /\ new.transfers \in Seq(Entries)
      /\ Mine(new) = IF key = "sensor" /\ e.name # "sensor" THEN Append(Mine(acc), e) ELSE Mine(acc)
      /\ OnlySensor(acc.transfers) /\ key = "sensor" => OnlySensor(new.transfers)
  BY <1>3, SessionGrows
<1>5. new \in Accs
  BY <1>1, <1>2, <1>3, <1>4 DEF Accs
<1> QED BY <1>3, <1>4, <1>5 DEF new

\* Nothing comes of nothing.
LEMMA NothingMine == NothingYet \in Accs /\ Mine(NothingYet) = <<>> /\ OnlySensor(NothingYet.transfers)
<1>1. NothingYet \in Accs /\ NothingYet.transfers = <<>> /\ OnlySensor(NothingYet.transfers)
  BY DEF NothingYet, Accs, OnlySensor
<1>2. \A s : Picked(s, {}) = <<>>
  <2>1. Cardinality({}) = 0
    BY FS_EmptySet
  <2>2. \A s : Picked(s, {}) = [k \in 1..0 |-> s[Nth({}, k)]]
    BY <2>1 DEF Picked
  <2>3. \A s : [k \in 1..0 |-> s[Nth({}, k)]] = <<>>
    OBVIOUS
  <2> QED BY <2>2, <2>3
<1>3. Session("place", NothingYet) = <<>>
  BY <1>1, <1>2 DEF Session
<1>4. Ours(<<>>) = <<>>
  BY <1>2 DEF Ours
<1> QED BY <1>1, <1>3, <1>4 DEF Mine

\* The sensor's transfer goes down: a write is known.
LEMMA SensorDown ==
  ASSUME NEW acc, NEW name \in Transfers, NEW id \in UrbIds
  PROVE  /\ Down(name, id) \in Events /\ Down(name, id).key = "sensor"
         /\ Fold(acc, Down(name, id)) = IF name \in Reads THEN acc ELSE Emit(acc, "sensor", Written(name))
<1> DEFINE ev == Down(name, id)
<1>1. ev = [id |-> id, key |-> "sensor", type |-> Type(name), in |-> name \in Reads, stage |-> "submit",
            name |-> name, item |-> Nothing]
  BY DEF Down, Event
<1>2. ev \in Events
  BY <1>1, ParcelsMade DEF Events, Keys, Types, Type
<1> HIDE DEF ev
<1>3. /\ ev.type = Type(name) /\ ev.in = (name \in Reads) /\ ev.stage = "submit" /\ ev.name = name
      /\ ev.key = "sensor"
  BY <1>1
<1>4. name \in Reads => Type(name) # "control"
  BY DEF Type, Reads
<1>5. Fold(acc, ev) = IF name \in Reads THEN acc ELSE Emit(acc, "sensor", Written(name))
  <2>1. CASE name \in Reads
    BY <1>3, <1>4, <2>1 DEF Fold
  <2>2. CASE name \notin Reads
    BY <1>3, <2>2 DEF Fold
  <2> QED BY <2>1, <2>2
<1> QED BY <1>2, <1>3, <1>5 DEF ev

\* It comes up, and nobody else's control read waits under its id: a read is
\* known.
LEMMA SensorUp ==
  ASSUME NEW acc, NEW name \in Transfers, NEW item \in Items, urbId \in UrbIds,
         \A p \in acc.pending : p[1] # urbId
  PROVE  /\ Up(name, item) \in Events /\ Up(name, item).key = "sensor"
         /\ Fold(acc, Up(name, item)) = IF name \in Reads THEN Emit(acc, "sensor", Read(item)) ELSE acc
<1> DEFINE ev == Up(name, item)
<1>1. ev = [id |-> urbId, key |-> "sensor", type |-> Type(name), in |-> name \in Reads, stage |-> "complete",
            name |-> name, item |-> item]
  BY DEF Up, Event
<1>2. ev \in Events
  BY <1>1 DEF Events, Keys, Types, Type
<1> HIDE DEF ev
<1>3. /\ ev.type = Type(name) /\ ev.in = (name \in Reads) /\ ev.stage = "complete" /\ ev.name = name
      /\ ev.key = "sensor" /\ ev.item = item /\ ev.id = urbId
  BY <1>1
<1>4. name \in Reads => Type(name) # "control"
  BY DEF Type, Reads
<1>5. ~\E p \in acc.pending : p[1] = ev.id
  BY <1>3
<1>6. Fold(acc, ev) = IF name \in Reads THEN Emit(acc, "sensor", Read(item)) ELSE acc
  <2>1. CASE name \in Reads
    BY <1>3, <1>4, <2>1 DEF Fold
  <2>2. CASE name \notin Reads
    BY <1>3, <1>5, <2>2 DEF Fold
  <2> QED BY <2>1, <2>2
<1> QED BY <1>2, <1>3, <1>6 DEF ev

\* A bulk transfer of another device is a transfer more at most, of that device.
LEMMA ForeignBulk ==
  ASSUME NEW acc \in Accs, NEW id \in UrbIds, NEW in \in BOOLEAN, NEW stage \in {"submit", "complete"}
  PROVE  LET ev == Event(id, "other", "bulk", in, stage, "other", Nothing)
             new == Fold(acc, ev)
         IN  /\ ev \in Events /\ ev.key = "other"
             /\ new \in Accs /\ new.pending = acc.pending /\ Mine(new) = Mine(acc)
<1> DEFINE ev == Event(id, "other", "bulk", in, stage, "other", Nothing)
<1>1. ev = [id |-> id, key |-> "other", type |-> "bulk", in |-> in, stage |-> stage, name |-> "other",
            item |-> Nothing]
  BY DEF Event
<1>2. ev \in Events
  BY <1>1, ParcelsMade DEF Events, Keys, Types
<1> HIDE DEF ev
<1>3. /\ ev.type = "bulk" /\ ev.in = in /\ ev.stage = stage /\ ev.name = "other" /\ ev.key = "other"
      /\ ev.item = Nothing
  BY <1>1
<1>4. Fold(acc, ev) = IF ~in /\ stage = "submit" THEN Emit(acc, "other", Written("other"))
                      ELSE IF in /\ stage # "submit" THEN Emit(acc, "other", Read(Nothing)) ELSE acc
  <2>1. CASE stage = "submit"
    BY <1>3, <2>1 DEF Fold
  <2>2. CASE stage # "submit"
    BY <1>3, <2>2 DEF Fold
  <2> QED BY <2>1, <2>2
<1>5. Written("other") \in Parcels /\ Read(Nothing) \in Parcels /\ "other" \in Keys
  BY ParcelsMade DEF Keys
<1>6. ASSUME NEW e \in Parcels
      PROVE  /\ Emit(acc, "other", e) \in Accs /\ Emit(acc, "other", e).pending = acc.pending
             /\ Mine(Emit(acc, "other", e)) = Mine(acc)
  <2> DEFINE made == Emit(acc, "other", e)
  <2>1. "other" \in Keys /\ "other" # "sensor"
    BY <1>5
  <2>2. made \in Accs /\ made.pending = acc.pending
    BY <2>1, Emitted
  <2>3. Mine(made) = IF "other" = "sensor" /\ e.name # "sensor" THEN Append(Mine(acc), e) ELSE Mine(acc)
    BY <2>1, Emitted
  <2> HIDE DEF made
  <2> QED BY <2>1, <2>2, <2>3 DEF made
<1> QED BY <1>2, <1>3, <1>4, <1>5, <1>6 DEF ev

\* Somebody's control read is answered, and is a transfer that is not the
\* recording's.
LEMMA ForeignAnswered ==
  ASSUME NEW acc \in Accs, NEW id \in UrbIds, NEW key \in Keys, acc.pending = {<<id, key>>}
  PROVE  LET ev == Event(id, key, "control", TRUE, "complete", key, Nothing)
             new == Fold(acc, ev)
         IN  /\ ev \in Events /\ ev.key = key
             /\ new \in Accs /\ new.pending = {} /\ Mine(new) = Mine(acc)
             /\ OnlySensor(acc.transfers) /\ key = "sensor" => OnlySensor(new.transfers)
<1> DEFINE ev == Event(id, key, "control", TRUE, "complete", key, Nothing)
           new == Fold(acc, ev)
           more == Emit(acc, key, Written(key))
<1>1. ev = [id |-> id, key |-> key, type |-> "control", in |-> TRUE, stage |-> "complete", name |-> key,
            item |-> Nothing]
  BY DEF Event
<1>2. ev \in Events
  <2>1. Nothing \in Items /\ key \in Transfers \cup Keys /\ TRUE \in BOOLEAN /\ "control" \in Types
    BY ParcelsMade DEF Types
  <2> HIDE DEF ev
  <2> QED BY <1>1, <2>1 DEF Events
<1> HIDE DEF ev
<1>3. ev.type = "control" /\ ev.stage = "complete" /\ ev.key = key /\ ev.id = id /\ ev.name = key
  BY <1>1
<1> DEFINE q == CHOOSE p \in acc.pending : p[1] = ev.id
<1>4. (\E p \in acc.pending : p[1] = ev.id) /\ q = <<id, key>>
  <2>1. <<id, key>> \in acc.pending /\ <<id, key>>[1] = ev.id
    BY <1>3
  <2>2. q \in acc.pending
    BY <2>1
  <2> QED BY <2>1, <2>2
<1>5. new = [Emit(acc, q[2], Written(ev.name)) EXCEPT !.pending = @ \ {q}, !.described = @ \cup {q[2]}]
  BY <1>3, <1>4 DEF Fold
<1> HIDE DEF new, q
<1>6. new = [more EXCEPT !.pending = @ \ {<<id, key>>}, !.described = @ \cup {key}]
  BY <1>3, <1>4, <1>5
<1>7. /\ more \in Accs /\ more.pending = {<<id, key>>}
      /\ more.transfers = Append(acc.transfers, [key |-> key, transfer |-> Written(key)])
  BY ParcelsMade, Emitted
<1> HIDE DEF more
<1>8. /\ more = [transfers |-> more.transfers, pending |-> more.pending, described |-> more.described]
      /\ more.transfers \in Seq(Entries) /\ more.described \in SUBSET Keys
  BY <1>7 DEF Accs
<1>9. new = [transfers |-> more.transfers, pending |-> {}, described |-> more.described \cup {key}]
  BY <1>6, <1>7, <1>8
<1>10. new \in Accs /\ new.pending = {} /\ new.transfers = Append(acc.transfers, [key |-> key, transfer |-> Written(key)])
  BY <1>7, <1>8, <1>9 DEF Accs
<1>11. /\ Mine(new) = Mine(acc)
       /\ OnlySensor(acc.transfers) /\ key = "sensor" => OnlySensor(new.transfers)
  <2>1. Written(key) \in Parcels /\ Written(key).name = key
    BY ParcelsMade
  <2> DEFINE w == Written(key)
  <2>2. w \in Parcels /\ w.name = key /\ new.transfers = Append(acc.transfers, [key |-> key, transfer |-> w])
    BY <1>10, <2>1
  <2> HIDE DEF w
  <2>3. Mine(new) = IF key = "sensor" /\ w.name # "sensor" THEN Append(Mine(acc), w) ELSE Mine(acc)
    BY <2>2, SessionGrows
  <2>4. OnlySensor(acc.transfers) /\ key = "sensor" => OnlySensor(new.transfers)
    BY <2>2, SessionGrows
  <2> QED BY <2>2, <2>3, <2>4
<1> QED BY <1>2, <1>3, <1>10, <1>11 DEF ev, new

\* The trace gets an event more.
LEMMA TraceGrows ==
  ASSUME trace \in Seq(Events), trace # None, NEW ev \in Events, Seen(ev)
  PROVE  /\ trace' \in Seq(Events) /\ trace' # None
         /\ Assembled(trace') = Fold(Assembled(trace), ev)
         /\ OnlySensor(trace') => OnlySensor(trace) /\ ev.key = "sensor"
<1>1. trace' = Append(trace, ev)
  BY DEF Seen
<1>2. Assembled(trace') = Fold(Assembled(trace), ev)
  BY <1>1, AssembledGrows
<1> DEFINE n == Len(trace)
<1>3. /\ n \in Nat /\ DOMAIN trace = 1..n /\ DOMAIN trace' = 1..(n + 1) /\ trace' \in Seq(Events)
      /\ \A i \in 1..n : trace'[i] = trace[i]
      /\ trace'[n + 1] = ev
  BY <1>1, AppendProperties
<1>4. trace' # None
  BY <1>3, NoneAssumption
<1> HIDE DEF n
<1>5. ASSUME OnlySensor(trace')
      PROVE  OnlySensor(trace) /\ ev.key = "sensor"
  <2>1. \A i \in 1..(n + 1) : trace'[i].key = "sensor"
    BY <1>3, <1>5 DEF OnlySensor
  <2>2. n + 1 \in 1..(n + 1) /\ \A i \in 1..n : i \in 1..(n + 1)
    BY <1>3
  <2>3. \A i \in 1..n : trace[i].key = "sensor"
    BY <1>3, <2>1, <2>2
  <2>4. ev.key = "sensor"
    BY <1>3, <2>1, <2>2
  <2> QED BY <1>3, <2>3, <2>4 DEF OnlySensor
<1> QED BY <1>2, <1>3, <1>4, <1>5

\* Nothing that import looks at has changed.
LEMMA TraceLeft ==
  ASSUME TraceInv, UNCHANGED <<trace, extra, urbId, op, urb, todo, tape, cassette>>
  PROVE  TraceInv'
<1>1. Waiting' = Waiting /\ Submitted' = Submitted /\ (Recording' <=> Recording)
  BY DEF Waiting, Submitted, Recording
<1>2. ASSUME NEW acc, Traced(acc)
      PROVE  Traced(acc)'
  BY <1>1, <1>2 DEF Traced
<1> QED BY <1>2 DEF TraceInv

\* Without a monitor there is nothing to agree with.
LEMMA NoTrace ==
  ASSUME trace' = None, extra' = None, urbId' \in UrbIds
  PROVE  TraceInv'
BY DEF TraceInv

\* Nobody else waits under the id of the sensor's transfer.
LEMMA NobodyWaits ==
  ASSUME TraceInv, urb, trace # None
  PROVE  \A p \in Assembled(trace).pending : p[1] # urbId
<1>1. Assembled(trace).pending = Waiting
  BY DEF TraceInv, Traced
<1>2. extra # None => extra.id # urbId
  BY DEF TraceInv
<1> QED BY <1>1, <1>2 DEF Waiting

\* The recording's transfer goes down.
LEMMA SubmitTraces ==
  ASSUME ReaderInv, TraceInv, SubmitSeen
  PROVE  TraceInv'
<1>1. /\ op # "idle" /\ ~urb /\ urb' = TRUE /\ urbId' = FreeId
      /\ UNCHANGED <<op, todo, tape, cassette, extra>>
      /\ IF Recording THEN Seen(Down(Head(todo), FreeId)) ELSE UNCHANGED trace
  BY DEF SubmitSeen, Submit
<1>2. FreeId \in UrbIds /\ (extra # None => extra.id # FreeId)
  <2>1. \E id \in UrbIds : extra = None \/ extra.id # id
    BY DEF UrbIds
  <2> QED BY <2>1 DEF FreeId
<1>3. CASE trace = None
  <2>1. trace' = None
    BY <1>1, <1>3 DEF Seen
  <2>2. extra' = None
    BY <1>1, <1>3 DEF TraceInv
  <2> QED BY <1>1, <1>2, <2>1, <2>2, NoTrace
<1>4. CASE trace # None
  <2> DEFINE acc == Assembled(trace)
             new == Assembled(trace')
             name == Head(todo)
             ev == Down(name, FreeId)
  <2>1. Recording /\ op = "record"
    BY <1>1, <1>4 DEF TraceInv, Recording
  <2>2. name \in Transfers
    BY <1>1, AboutToTransfer DEF ReaderInv
  <2>3. /\ ev \in Events /\ ev.key = "sensor"
        /\ Fold(acc, ev) = IF name \in Reads THEN acc ELSE Emit(acc, "sensor", Written(name))
    BY <1>2, <2>2, SensorDown
  <2>4. /\ trace \in Seq(Events) /\ Traced(acc)
    BY <1>4 DEF TraceInv
  <2>5. /\ trace' \in Seq(Events) /\ trace' # None /\ new = Fold(acc, ev)
        /\ OnlySensor(trace') => OnlySensor(trace)
    <3>1. Seen(ev)
      BY <1>1, <2>1
    <3> HIDE DEF ev
    <3> QED BY <1>4, <2>3, <2>4, <3>1, TraceGrows
  <2> HIDE DEF ev
  <2>6. /\ new \in Accs /\ new.pending = acc.pending
        /\ OnlySensor(acc.transfers) => OnlySensor(new.transfers)
        /\ Mine(new) = IF name \in Reads THEN Mine(acc) ELSE Append(Mine(acc), Written(name))
    <3>1. acc \in Accs
      BY <2>4 DEF Traced
    <3>2. CASE name \in Reads
      BY <2>3, <2>5, <3>1, <3>2
    <3>3. CASE name \notin Reads
      <4>1. Written(name) \in Parcels /\ Written(name).name # "sensor" /\ "sensor" \in Keys
        BY <2>2, ParcelsMade DEF Keys
      <4> DEFINE made == Emit(acc, "sensor", Written(name))
      <4>2. /\ made \in Accs /\ made.pending = acc.pending
            /\ OnlySensor(acc.transfers) => OnlySensor(made.transfers)
        <5> HIDE DEF acc, name
        <5> QED BY <3>1, <4>1, Emitted
      <4>3. Mine(made) = IF "sensor" = "sensor" /\ Written(name).name # "sensor"
                         THEN Append(Mine(acc), Written(name)) ELSE Mine(acc)
        <5> HIDE DEF acc, name
        <5> QED BY <3>1, <4>1, Emitted
      <4>4. new = made
        BY <2>3, <2>5, <3>3
      <4> HIDE DEF made, new
      <4> QED BY <3>3, <4>1, <4>2, <4>3, <4>4
    <3> QED BY <3>2, <3>3
  <2>7. Mine(acc) = tape
    BY <1>1, <2>1, <2>4 DEF Traced, Submitted
  <2>8. Submitted' = IF name \notin Reads THEN Append(tape, Written(name)) ELSE tape
    BY <1>1 DEF Submitted
  <2>9. Waiting' = Waiting
    BY <1>1 DEF Waiting
  <2>10. op' = "record" /\ extra' = extra
    BY <1>1, <2>1
  <2>11. Traced(Assembled(trace))'
    <3> HIDE DEF acc, name
    <3>1. /\ acc.pending = Waiting
          /\ OnlySensor(trace) => OnlySensor(acc.transfers) /\ (extra # None => extra.key = "sensor")
      BY <2>4 DEF Traced
    <3>2. Assembled(trace') \in Accs /\ Assembled(trace').pending = Waiting'
      BY <2>6, <2>9, <3>1
    <3>3. OnlySensor(trace') => OnlySensor(Assembled(trace').transfers) /\ (extra' # None => extra'.key = "sensor")
      BY <2>5, <2>6, <2>10, <3>1
    <3>4. Mine(Assembled(trace')) = Submitted'
      BY <2>6, <2>7, <2>8
    <3> QED BY <2>10, <3>2, <3>3, <3>4 DEF Traced
  <2> QED BY <1>1, <1>2, <2>5, <2>10, <2>11 DEF TraceInv
<1> QED BY <1>3, <1>4

\* The recording's transfer comes up: a read is known.
LEMMA UpSeen ==
  ASSUME TraceInv, urb, trace # None, op = "record", NEW name \in Transfers, NEW item \in Items, Seen(Up(name, item))
  PROVE  LET new == Assembled(trace')
         IN  /\ trace' \in Seq(Events) /\ trace' # None
             /\ new \in Accs /\ new.pending = Waiting
             /\ OnlySensor(trace') => OnlySensor(new.transfers) /\ (extra # None => extra.key = "sensor")
             /\ Mine(new) = IF name \in Reads THEN Append(Mine(Assembled(trace)), Read(item))
                                              ELSE Mine(Assembled(trace))
<1> DEFINE acc == Assembled(trace)
           new == Assembled(trace')
           ev == Up(name, item)
<1>1. /\ trace \in Seq(Events) /\ urbId \in UrbIds /\ acc \in Accs /\ acc.pending = Waiting
      /\ OnlySensor(trace) => OnlySensor(acc.transfers) /\ (extra # None => extra.key = "sensor")
  BY DEF TraceInv, Traced
<1>2. \A p \in acc.pending : p[1] # urbId
  BY NobodyWaits
<1> HIDE DEF acc
<1>3. /\ ev \in Events /\ ev.key = "sensor"
      /\ Fold(acc, ev) = IF name \in Reads THEN Emit(acc, "sensor", Read(item)) ELSE acc
  BY <1>1, <1>2, SensorUp
<1>4. /\ trace' \in Seq(Events) /\ trace' # None /\ new = Fold(acc, ev)
      /\ OnlySensor(trace') => OnlySensor(trace)
  <2>1. Seen(ev)
    OBVIOUS
  <2> HIDE DEF ev
  <2> QED BY <1>1, <1>3, <2>1, TraceGrows DEF acc
<1> HIDE DEF ev, new
<1>5. /\ new \in Accs /\ new.pending = acc.pending
      /\ OnlySensor(acc.transfers) => OnlySensor(new.transfers)
      /\ Mine(new) = IF name \in Reads THEN Append(Mine(acc), Read(item)) ELSE Mine(acc)
  <2>1. CASE name \notin Reads
    BY <1>1, <1>3, <1>4, <2>1
  <2>2. CASE name \in Reads
    <3> DEFINE e == Read(item)
               made == Emit(acc, "sensor", e)
    <3>1. e \in Parcels /\ e.name # "sensor" /\ "sensor" \in Keys
      BY ParcelsMade DEF Keys
    <3> HIDE DEF e
    <3>2. /\ made \in Accs /\ made.pending = acc.pending
          /\ OnlySensor(acc.transfers) => OnlySensor(made.transfers)
      BY <1>1, <3>1, Emitted
    <3>3. Mine(made) = IF "sensor" = "sensor" /\ e.name # "sensor" THEN Append(Mine(acc), e) ELSE Mine(acc)
      BY <1>1, <3>1, Emitted
    <3>4. new = made
      BY <1>3, <1>4, <2>2 DEF e
    <3> HIDE DEF made
    <3> QED BY <2>2, <3>1, <3>2, <3>3, <3>4 DEF e
  <2> QED BY <2>1, <2>2
<1> QED BY <1>1, <1>4, <1>5 DEF new, acc

\* A transfer is over, and import has what the recorder has, or one thing more
\* that was not saved.
LEMMA TraceKept ==
  ASSUME TraceInv, trace' \in Seq(Events), trace' # None, ~urb', op' \in {"idle", "record"},
         UNCHANGED <<extra, urbId>>,
         Assembled(trace') \in Accs, Assembled(trace').pending = Waiting,
         OnlySensor(trace') => OnlySensor(Assembled(trace').transfers) /\ (extra # None => extra.key = "sensor"),
         \/ Mine(Assembled(trace')) = tape'
         \/ op' = "idle" /\ cassette' = None /\ \E t \in Parcels : Mine(Assembled(trace')) = Append(tape', t)
  PROVE  TraceInv'
<1> DEFINE new == Assembled(trace')
<1>1. Waiting' = Waiting
  BY DEF Waiting
<1>2. Submitted' = tape'
  BY DEF Submitted
<1>3. op' = "idle" => ~Recording'
  BY DEF Recording
<1>4. Traced(Assembled(trace))'
  <2>1. Recording' => Mine(new) = Submitted'
    BY <1>2, <1>3
  <2>2. op' = "idle" => Mine(new) = tape' \/ (cassette' = None /\ \E t \in Parcels : Mine(new) = Append(tape', t))
    OBVIOUS
  <2> QED BY <1>1, <2>1, <2>2 DEF Traced
<1>5. /\ extra' \in {None} \cup Foreign /\ urbId' \in UrbIds
      /\ extra' # None => IF extra'.type = "control" THEN extra'.in ELSE extra'.key = "other"
  BY DEF TraceInv
<1> QED BY <1>4, <1>5 DEF TraceInv

\* What import has while the recorder's transfer is under way.
LEMMA UnderWay ==
  ASSUME ReaderInv, TraceInv, urb, trace # None
  PROVE  /\ op = "record" /\ Recording /\ Head(todo) \in Transfers
         /\ trace \in Seq(Events) /\ Assembled(trace) \in Accs /\ Assembled(trace).pending = Waiting
         /\ OnlySensor(trace) => OnlySensor(Assembled(trace).transfers) /\ (extra # None => extra.key = "sensor")
         /\ Mine(Assembled(trace)) = IF Head(todo) \in Reads THEN tape ELSE Append(tape, Written(Head(todo)))
<1>1. op # "idle"
  BY DEF ReaderInv, Programmed
<1>2. op = "record" /\ Recording
  BY <1>1 DEF TraceInv, Recording
<1>3. Head(todo) \in Transfers
  BY <1>1, AboutToTransfer DEF ReaderInv
<1>4. Traced(Assembled(trace)) /\ trace \in Seq(Events)
  BY DEF TraceInv
<1> QED BY <1>2, <1>3, <1>4 DEF Traced, Submitted

\* The recording's transfer completes, or the daemon's.
LEMMA CompleteTraces ==
  ASSUME ReaderInv, TraceInv, CompleteSeen
  PROVE  TraceInv'
<1> DEFINE name == Head(todo)
<1>1. /\ Complete /\ op # "idle" /\ urb /\ ~urb' /\ op' \in {op, "idle"} /\ todo # <<>> /\ Possible(name)
      /\ UNCHANGED <<extra, extras, urbId>>
  BY CompleteAdvances DEF CompleteSeen, Complete, Completes, Advance, ReaderInv, Programmed
<1>2. CASE trace = None
  <2>1. trace' = None
    BY <1>2 DEF CompleteSeen, Seen
  <2> QED BY <1>1, <1>2, <2>1, NoTrace DEF TraceInv
<1>3. CASE trace # None
  <2>1. /\ op = "record" /\ Recording /\ name \in Transfers
        /\ Mine(Assembled(trace)) = IF name \in Reads THEN tape ELSE Append(tape, Written(name))
    BY <1>1, <1>3, UnderWay
  <2>2. Arrived \in Items
    BY <1>1, <2>1, ArrivedItem
  <2>3. Seen(Up(name, Arrived)) /\ tape' = Append(tape, Exchange(name, Arrived))
    BY <2>1 DEF CompleteSeen, Taped
  <2> HIDE DEF name
  <2>4. /\ trace' \in Seq(Events) /\ trace' # None
        /\ Assembled(trace') \in Accs /\ Assembled(trace').pending = Waiting
        /\ OnlySensor(trace') => OnlySensor(Assembled(trace').transfers) /\ (extra # None => extra.key = "sensor")
        /\ Mine(Assembled(trace')) = IF name \in Reads THEN Append(Mine(Assembled(trace)), Read(Arrived))
                                                       ELSE Mine(Assembled(trace))
    BY <1>1, <1>3, <2>1, <2>2, <2>3, UpSeen
  <2>5. Mine(Assembled(trace')) = tape'
    BY <2>1, <2>3, <2>4 DEF Exchange
  <2> QED BY <1>1, <2>1, <2>4, <2>5, TraceKept
<1> QED BY <1>2, <1>3

\* A read of the recording is refused, or a transfer of it or of the daemon fails.
LEMMA FailureTraces ==
  ASSUME ReaderInv, TapeInv, TraceInv, RefuseSeen \/ FailureSeen
  PROVE  TraceInv'
<1> DEFINE name == Head(todo)
<1>1. /\ urb /\ ~urb' /\ op' = "idle" /\ op # "idle" /\ todo # <<>>
      /\ UNCHANGED <<extra, extras, urbId, cassette>>
  BY DEF RefuseSeen, FailureSeen, Refuse, TransferFails, Broken, Stop, ReaderInv, Programmed
<1>2. cassette' = None
  BY <1>1 DEF TapeInv
<1>3. CASE trace = None
  <2>1. trace' = None
    BY <1>3 DEF RefuseSeen, FailureSeen, Seen
  <2> QED BY <1>1, <1>3, <2>1, NoTrace DEF TraceInv
<1>4. CASE trace # None
  <2>1. /\ op = "record" /\ Recording /\ name \in Transfers /\ trace \in Seq(Events)
        /\ Assembled(trace) \in Accs /\ Assembled(trace).pending = Waiting
        /\ OnlySensor(trace) => OnlySensor(Assembled(trace).transfers) /\ (extra # None => extra.key = "sensor")
        /\ Mine(Assembled(trace)) = IF name \in Reads THEN tape ELSE Append(tape, Written(name))
    BY <1>1, <1>4, UnderWay
  <2>2. Nothing \in Items /\ Written(name) \in Parcels /\ \A item \in Items : Read(item) \in Parcels
    BY <2>1, ParcelsMade
  <2>3. ASSUME NEW item \in Items, Seen(Up(name, item)), tape' = tape \/ (name \in Reads /\ tape' = Append(tape, Read(item)))
        PROVE  TraceInv'
    <3> HIDE DEF name
    <3>1. /\ trace' \in Seq(Events) /\ trace' # None
          /\ Assembled(trace') \in Accs /\ Assembled(trace').pending = Waiting
          /\ OnlySensor(trace') => OnlySensor(Assembled(trace').transfers) /\ (extra # None => extra.key = "sensor")
          /\ Mine(Assembled(trace')) = IF name \in Reads THEN Append(Mine(Assembled(trace)), Read(item))
                                                         ELSE Mine(Assembled(trace))
      BY <1>1, <1>4, <2>1, <2>3, UpSeen
    <3>2. Mine(Assembled(trace')) = tape' \/ \E t \in Parcels : Mine(Assembled(trace')) = Append(tape', t)
      BY <2>1, <2>2, <2>3, <3>1
    <3> QED BY <1>1, <1>2, <3>1, <3>2, TraceKept
  <2>4. CASE RefuseSeen
    <3>1. /\ name \in Reads /\ Possible(name)
      BY <2>4 DEF RefuseSeen, Refuse
    <3>2. Arrived \in Items
      BY <1>1, <2>1, <3>1, ArrivedItem
    <3>3. \E item \in Items : Seen(Up(name, item)) /\ (tape' = tape \/ (name \in Reads /\ tape' = Append(tape, Read(item))))
      <4> DEFINE whole == Fits(Head(todo), Head(sensor.unread))
      <4>1. /\ tape' = IF whole THEN Taped(Head(todo), Arrived) ELSE tape
            /\ Seen(Up(Head(todo), IF whole THEN Arrived ELSE Nothing))
        BY <2>1, <2>4 DEF RefuseSeen
      <4> HIDE DEF whole
      <4> QED BY <2>2, <3>1, <3>2, <4>1 DEF Taped, Exchange
    <3> QED BY <2>3, <3>3
  <2>5. CASE FailureSeen
    <3>1. tape' = tape /\ (trace' = trace \/ Seen(Up(name, Nothing)))
      BY <2>5 DEF FailureSeen
    <3>2. CASE trace' = trace
      <4>1. Mine(Assembled(trace')) = tape' \/ \E t \in Parcels : Mine(Assembled(trace')) = Append(tape', t)
        BY <2>1, <2>2, <3>1, <3>2
      <4> QED BY <1>1, <1>2, <1>4, <2>1, <3>2, <4>1, TraceKept
    <3>3. CASE Seen(Up(name, Nothing))
      BY <2>2, <2>3, <3>1, <3>3
    <3> QED BY <3>1, <3>2, <3>3
  <2> QED BY <2>4, <2>5
<1> QED BY <1>3, <1>4

\* What a transfer of others leaves of the recording's.
LEMMA ForeignKept ==
  ASSUME TraceInv, trace # None, trace' \in Seq(Events), trace' # None,
         UNCHANGED <<usb, tape, cassette, urbId>>, extra' \in {None} \cup Foreign,
         extra' # None => IF extra'.type = "control" THEN extra'.in ELSE extra'.key = "other",
         extra' # None /\ urb => extra'.id # urbId,
         Assembled(trace') \in Accs, Assembled(trace').pending = Waiting',
         OnlySensor(trace') => OnlySensor(Assembled(trace').transfers) /\ (extra' # None => extra'.key = "sensor"),
         Mine(Assembled(trace')) = Mine(Assembled(trace))
  PROVE  TraceInv'
<1>1. /\ UNCHANGED <<op, urb, todo, tape, cassette, urbId>>
      /\ Submitted' = Submitted /\ (Recording' <=> Recording)
  BY DEF usb, Submitted, Recording
<1>2. Traced(Assembled(trace)) /\ op \in {"idle", "record"} /\ urbId \in UrbIds
  BY DEF TraceInv
<1>3. Traced(Assembled(trace))'
  <2>1. Recording' => Mine(Assembled(trace')) = Submitted'
    BY <1>1, <1>2 DEF Traced
  <2>2. op' = "idle" => \/ Mine(Assembled(trace')) = tape'
                        \/ cassette' = None /\ \E t \in Parcels : Mine(Assembled(trace')) = Append(tape', t)
    BY <1>1, <1>2 DEF Traced
  <2> QED BY <2>1, <2>2 DEF Traced
<1> QED BY <1>1, <1>2, <1>3 DEF TraceInv

\* Somebody else's transfer goes down.
LEMMA ExtraDownTraces ==
  ASSUME TraceInv, ExtraDown
  PROVE  TraceInv'
<1> DEFINE acc == Assembled(trace)
<1>1. trace # None /\ extra = None /\ UNCHANGED <<usb, tape, cassette, urbId>>
  BY DEF ExtraDown
<1>2. /\ trace \in Seq(Events) /\ acc \in Accs /\ acc.pending = {}
      /\ OnlySensor(trace) => OnlySensor(acc.transfers)
  BY <1>1 DEF TraceInv, Traced, Waiting
<1>3. PICK k \in ExtraKinds, id \in UrbIds :
        /\ urb => id # urbId
        /\ extra' = [id |-> id, key |-> k.key, type |-> k.type, in |-> k.in]
        /\ Seen(Event(id, k.key, k.type, k.in, "submit", k.key, Nothing))
  BY DEF ExtraDown
<1>4. /\ k.key \in Keys /\ k.type \in Types /\ k.in \in BOOLEAN
      /\ (k.type = "bulk" /\ k.key = "other") \/ (k.type = "control" /\ k.in = TRUE)
  <2>1. \/ k = [key |-> "other", type |-> "bulk", in |-> FALSE]
        \/ k = [key |-> "other", type |-> "bulk", in |-> TRUE]
        \/ k \in [key : Keys, type : {"control"}, in : {TRUE}]
    BY DEF ExtraKinds
  <2>2. CASE k \in [key : Keys, type : {"control"}, in : {TRUE}]
    <3>1. k.key \in Keys /\ k.type \in {"control"} /\ k.in \in {TRUE}
      BY <2>2
    <3> QED BY <3>1 DEF Types
  <2>3. CASE k = [key |-> "other", type |-> "bulk", in |-> FALSE] \/ k = [key |-> "other", type |-> "bulk", in |-> TRUE]
    <3>1. k.key = "other" /\ k.type = "bulk" /\ (k.in = FALSE \/ k.in = TRUE)
      BY <2>3
    <3> QED BY <3>1 DEF Keys, Types
  <2> QED BY <2>1, <2>2, <2>3
<1> DEFINE key == k.key
           type == k.type
           in == k.in
           ev == Event(id, key, type, in, "submit", key, Nothing)
<1>5. extra' = [id |-> id, key |-> key, type |-> type, in |-> in] /\ Seen(ev)
  BY <1>3
<1>6. /\ key \in Keys /\ type \in Types /\ in \in BOOLEAN
      /\ (type = "bulk" /\ key = "other") \/ (type = "control" /\ in = TRUE)
  BY <1>4
<1> HIDE DEF key, type, in, acc
<1>7. extra' \in Foreign /\ extra'.id = id /\ extra'.key = key /\ extra'.type = type /\ extra'.in = in
  BY <1>5, <1>6 DEF Foreign
<1>8. extra' # None
  BY <1>7, NoneAssumption
<1>9. CASE type = "bulk" /\ key = "other"
  <2>1. /\ ev \in Events /\ ev.key = "other" /\ Fold(acc, ev) \in Accs
        /\ Fold(acc, ev).pending = {} /\ Mine(Fold(acc, ev)) = Mine(acc)
    BY <1>2, <1>6, <1>9, ForeignBulk
  <2> HIDE DEF ev
  <2>2. /\ trace' \in Seq(Events) /\ trace' # None /\ Assembled(trace') = Fold(acc, ev)
        /\ ~OnlySensor(trace')
    BY <1>1, <1>2, <1>5, <2>1, TraceGrows DEF acc
  <2>3. Waiting' = {}
    BY <1>7, <1>9 DEF Waiting
  <2> QED BY <1>1, <1>3, <1>7, <1>9, <2>1, <2>2, <2>3, ForeignKept DEF acc
<1>10. CASE type = "control" /\ in = TRUE
  <2>1. Waiting' = {<<id, key>>}
    BY <1>7, <1>8, <1>10 DEF Waiting
  <2>2. /\ ev \in Events /\ ev.key = key /\ Fold(acc, ev) \in Accs
        /\ Fold(acc, ev).pending = Waiting' /\ Fold(acc, ev).transfers = acc.transfers
    <3>1. ev = [id |-> id, key |-> key, type |-> "control", in |-> in, stage |-> "submit", name |-> key,
                item |-> Nothing]
      BY <1>10 DEF Event
    <3>2. ev \in Events
      <4>1. /\ Nothing \in Items /\ key \in Transfers \cup Keys /\ key \in Keys /\ in \in BOOLEAN
            /\ "control" \in Types
        BY <1>6, ParcelsMade DEF Types
      <4> HIDE DEF ev
      <4> QED BY <3>1, <4>1 DEF Events
    <3> HIDE DEF ev
    <3>3. ev.type = "control" /\ ev.in = in /\ ev.stage = "submit" /\ ev.key = key /\ ev.id = id
      BY <3>1
    <3>4. Fold(acc, ev) = [acc EXCEPT !.pending = {p \in @ : p[1] # ev.id} \cup {<<ev.id, ev.key>>}]
      BY <1>10, <3>3 DEF Fold
    <3>5. {p \in acc.pending : p[1] # ev.id} \cup {<<ev.id, ev.key>>} = Waiting'
      BY <1>2, <2>1, <3>3
    <3>6. Fold(acc, ev) = [acc EXCEPT !.pending = Waiting']
      BY <3>4, <3>5
    <3>7. /\ acc = [transfers |-> acc.transfers, pending |-> acc.pending, described |-> acc.described]
          /\ acc.transfers \in Seq(Entries) /\ acc.described \in SUBSET Keys
      BY <1>2 DEF Accs
    <3>8. Fold(acc, ev) = [transfers |-> acc.transfers, pending |-> Waiting', described |-> acc.described]
      BY <3>6, <3>7
    <3>9. Waiting' \in SUBSET (UrbIds \X Keys)
      BY <1>6, <2>1
    <3> QED BY <3>2, <3>3, <3>7, <3>8, <3>9 DEF Accs
  <2> HIDE DEF ev
  <2>3. /\ trace' \in Seq(Events) /\ trace' # None /\ Assembled(trace') = Fold(acc, ev)
        /\ OnlySensor(trace') => OnlySensor(trace) /\ key = "sensor"
    BY <1>1, <1>2, <1>5, <2>2, TraceGrows DEF acc
  <2>4. Mine(Fold(acc, ev)) = Mine(acc)
    BY <2>2 DEF Mine, Session, Kept
  <2>5. OnlySensor(trace') => OnlySensor(Assembled(trace').transfers) /\ extra'.key = "sensor"
    BY <1>2, <1>7, <2>2, <2>3
  <2> QED BY <1>1, <1>3, <1>7, <1>10, <2>1, <2>2, <2>3, <2>4, <2>5, ForeignKept DEF acc
<1> QED BY <1>6, <1>9, <1>10

\* It comes up.
LEMMA ExtraUpTraces ==
  ASSUME TraceInv, ExtraUp
  PROVE  TraceInv'
<1> DEFINE acc == Assembled(trace)
           ev == Event(extra.id, extra.key, extra.type, extra.in, "complete", extra.key, Nothing)
<1>1. extra # None /\ extra' = None /\ UNCHANGED <<usb, tape, cassette, urbId>> /\ Seen(ev)
  BY DEF ExtraUp
<1>2. /\ trace # None /\ trace \in Seq(Events) /\ acc \in Accs /\ acc.pending = Waiting /\ extra \in Foreign
      /\ OnlySensor(trace) => OnlySensor(acc.transfers) /\ extra.key = "sensor"
      /\ IF extra.type = "control" THEN extra.in ELSE extra.key = "other"
  BY <1>1 DEF TraceInv, Traced
<1>3. extra.id \in UrbIds /\ extra.key \in Keys /\ extra.type \in {"control", "bulk"} /\ extra.in \in BOOLEAN
  BY <1>2 DEF Foreign, Types
<1>4. Waiting' = {}
  BY <1>1 DEF Waiting
<1> DEFINE id == extra.id
           key == extra.key
           in == extra.in
           new == Fold(acc, ev)
<1>5. /\ ev \in Events /\ ev.key = key
      /\ new \in Accs /\ new.pending = {} /\ Mine(new) = Mine(acc)
      /\ key = "sensor" /\ OnlySensor(acc.transfers) => OnlySensor(new.transfers)
  <2>1. CASE extra.type = "bulk"
    <3>1. key = "other" /\ acc.pending = {} /\ ev = Event(id, "other", "bulk", in, "complete", "other", Nothing)
      BY <1>2, <2>1 DEF Waiting
    <3> DEFINE bulk == Event(id, "other", "bulk", in, "complete", "other", Nothing)
    <3>2. id \in UrbIds /\ in \in BOOLEAN
      BY <1>3
    <3> HIDE DEF id, in, key, acc, ev
    <3>3. /\ bulk \in Events /\ bulk.key = "other" /\ Fold(acc, bulk) \in Accs
          /\ Fold(acc, bulk).pending = {} /\ Mine(Fold(acc, bulk)) = Mine(acc)
      BY <1>2, <3>1, <3>2, ForeignBulk
    <3> QED BY <3>1, <3>3
  <2>2. CASE extra.type = "control"
    <3>1. acc.pending = {<<id, key>>} /\ ev = Event(id, key, "control", TRUE, "complete", key, Nothing)
      BY <1>1, <1>2, <1>3, <2>2 DEF Waiting
    <3> DEFINE answer == Event(id, key, "control", TRUE, "complete", key, Nothing)
    <3>2. id \in UrbIds /\ key \in Keys
      BY <1>3
    <3> HIDE DEF id, in, key, acc, ev
    <3>3. /\ answer \in Events /\ answer.key = key /\ Fold(acc, answer) \in Accs
          /\ Fold(acc, answer).pending = {} /\ Mine(Fold(acc, answer)) = Mine(acc)
          /\ OnlySensor(acc.transfers) /\ key = "sensor" => OnlySensor(Fold(acc, answer).transfers)
      BY <1>2, <3>1, <3>2, ForeignAnswered
    <3> QED BY <3>1, <3>3
  <2> QED BY <1>3, <2>1, <2>2
<1>6. /\ trace' \in Seq(Events) /\ trace' # None /\ Assembled(trace') = new
      /\ OnlySensor(trace') => OnlySensor(trace) /\ key = "sensor"
  <2> HIDE DEF ev, key
  <2> QED BY <1>1, <1>2, <1>5, TraceGrows
<1>7. OnlySensor(trace') => OnlySensor(Assembled(trace').transfers)
  <2> HIDE DEF new, acc
  <2> QED BY <1>2, <1>5, <1>6
<1> HIDE DEF new, acc, ev
<1> QED BY <1>1, <1>2, <1>4, <1>5, <1>6, <1>7, ForeignKept DEF acc

\* A recording begins, with a monitor or without.
LEMMA BeginTraces ==
  ASSUME ReaderInv, TraceInv, BeginRecord
  PROVE  TraceInv'
<1>1. /\ op = "idle" /\ trace = None /\ tape' = <<>> /\ trace' \in {None, <<>>} /\ op' = "record"
      /\ UNCHANGED <<urb, extra, urbId, cassette>>
  BY DEF BeginRecord, Start
<1>2. ~urb' /\ extra' = None /\ urbId' \in UrbIds
  BY <1>1 DEF ReaderInv, Programmed, TraceInv
<1>3. CASE trace' = None
  BY <1>2, <1>3, NoTrace
<1>4. CASE trace' = <<>> /\ trace' # None
  <2>1. Assembled(trace') = NothingYet /\ NothingYet.pending = {}
    BY <1>4, AssembledNothing DEF NothingYet
  <2>2. Waiting' = {} /\ Submitted' = tape'
    BY <1>2 DEF Waiting, Submitted
  <2>3. Traced(Assembled(trace))'
    BY <1>1, <1>2, <2>1, <2>2, NothingMine DEF Traced
  <2>4. trace' \in Seq(Events)
    BY <1>4
  <2> QED BY <1>1, <1>2, <2>3, <2>4 DEF TraceInv
<1> QED BY <1>1, <1>3, <1>4

\* Every step keeps what import has of the recording.
LEMMA TraceStep ==
  ASSUME ReaderInv, TapeInv, TraceInv, [Next]_vars
  PROVE  TraceInv'
<1>1. CASE Touch /\ UNCHANGED <<tape, cassette, monitor>>
  BY <1>1, TraceLeft DEF Touch, monitor
<1>2. CASE Device
  <2>1. trace' = None /\ extra' = None /\ urbId' \in UrbIds
    BY <1>2 DEF Device, monitor, TraceInv
  <2> QED BY <2>1, NoTrace
<1>3. CASE PutAway
  <2>1. trace' = None /\ extra' = None /\ urbId' \in UrbIds
    BY <1>3 DEF PutAway, TraceInv
  <2> QED BY <2>1, NoTrace
<1>4. CASE UNCHANGED vars
  BY <1>4, TraceLeft DEF vars, usb, monitor
<1> QED BY <1>1, <1>2, <1>3, <1>4, BeginTraces, SubmitTraces, CompleteTraces, FailureTraces, ExtraDownTraces,
           ExtraUpTraces DEF Next

\* A session by ids is the session by place, or has nothing; and one of a bus
\* with nobody else on it is that session too.
LEMMA OtherFilters ==
  ASSUME NEW acc \in Accs
  PROVE  /\ Session("ids", acc) # <<>> => Session("ids", acc) = Session("place", acc)
         /\ OnlySensor(acc.transfers) => Session("all", acc) = Session("place", acc)
<1> DEFINE all == acc.transfers
           s == [i \in DOMAIN all |-> all[i].transfer]
           Places(kept) == {i \in DOMAIN all : all[i].key \in kept}
<1>1. /\ Session("ids", acc) = Picked(s, Places({"sensor"} \cap acc.described))
      /\ Session("place", acc) = Picked(s, Places({"sensor"}))
      /\ Session("all", acc) = Picked(s, Places(Keys))
  BY DEF Session, Kept
<1> HIDE DEF s, all
<1>2. {"sensor"} \cap acc.described = {"sensor"} \/ {"sensor"} \cap acc.described = {}
  OBVIOUS
<1>3. Picked(s, Places({})) = <<>>
  <2>1. Places({}) = {} /\ Cardinality({}) = 0
    BY FS_EmptySet
  <2>2. Picked(s, {}) = [k \in 1..0 |-> s[Nth({}, k)]]
    BY <2>1 DEF Picked
  <2>3. [k \in 1..0 |-> s[Nth({}, k)]] = <<>>
    OBVIOUS
  <2> QED BY <2>1, <2>2, <2>3
<1>4. OnlySensor(all) => Places(Keys) = Places({"sensor"})
  BY DEF OnlySensor, Keys
<1> HIDE DEF Places
<1> QED BY <1>1, <1>2, <1>3, <1>4 DEF all

\* One element more than a prefix.
LEMMA PrefixOf ==
  ASSUME NEW s \in Seq(Parcels), NEW e \in Parcels
  PROVE  /\ IsPrefix(s, s) /\ IsPrefix(s, Append(s, e))
         /\ Len(s) \in Nat /\ Len(Append(s, e)) = Len(s) + 1
<1> DEFINE a == Append(s, e)
           n == Len(s)
<1>1. /\ n \in Nat /\ Len(a) = n + 1 /\ a \in Seq(Parcels)
      /\ \A i \in 1..n : a[i] = s[i]
  BY AppendProperties
<1> HIDE DEF a
<1>2. SubSeq(a, 1, n) = [i \in 1..n |-> a[i]] /\ SubSeq(s, 1, n) = [i \in 1..n |-> s[i]]
  BY <1>1 DEF n
<1>3. SubSeq(a, 1, n) = SubSeq(s, 1, n)
  BY <1>1, <1>2
<1> QED BY <1>1, <1>3 DEF IsPrefix, a, n

-----------------------------------------------------------------------------
(* Theorems.                                                               *)

\* The reader begins with nothing in its pipe.
LEMMA ReaderBegins ==
  ASSUME Init
  PROVE  ReaderInv /\ FreshPipe
<1>1. /\ sensor \in [armed : BOOLEAN, asked : {<<>>}, unread : {<<>>}, keeps : BOOLEAN]
      /\ commands = 0 /\ dev = "none" /\ op = "idle" /\ todo = <<>> /\ urb = FALSE /\ frames = <<>>
  BY DEF Init, UsbInit
<1>2. <<>> \in Seq(Nat) /\ <<>> \in Seq(Items) /\ <<>> \in Seq(Transfers)
      /\ <<>> \in Seq([of : Nat, header : Nat, claims : Nat, size : Nat])
  OBVIOUS
<1>3. sensor \in Sensors /\ sensor.asked = <<>> /\ sensor.unread = <<>>
  BY <1>1, <1>2 DEF Sensors
<1>4. ReaderTyped
  BY <1>1, <1>2, <1>3 DEF ReaderTyped
<1>5. Programmed /\ ArmedWhileOpen /\ FrameWhole
  BY <1>1 DEF Programmed, Ordered, Streams, ArmedWhileOpen, FrameWhole
<1>6. WholePipe /\ FreshPipe
  BY <1>1, <1>3 DEF WholePipe, Whole, At, FreshPipe, Reading, NoHeaders
<1> QED BY <1>4, <1>5, <1>6 DEF ReaderInv

\* What the argument rests on holds in every state.
THEOREM CassetteSafe == ShotsHavePixels => (Spec => [](ReaderInv /\ FreshPipe))
<1> SUFFICES ASSUME ShotsHavePixels
             PROVE  Spec => [](ReaderInv /\ FreshPipe)
  OBVIOUS
<1>1. Init => ReaderInv /\ FreshPipe
  BY ReaderBegins
<1>2. ReaderInv /\ FreshPipe /\ [Next]_vars => (ReaderInv /\ FreshPipe)'
  BY ReaderStep
<1> QED BY <1>1, <1>2, PTL DEF Spec

\* A frame that reaches the pipeline (UsbFrameSource::capture, assemble_frame) is
\* made of one shot and has the pixels that its header claims, whatever was
\* abandoned, refused or lost before it.
THEOREM CassetteFrameWhole == ShotsHavePixels => (Spec => []FrameWhole)
<1> SUFFICES ASSUME ShotsHavePixels
             PROVE  Spec => []FrameWhole
  OBVIOUS
<1>1. ReaderInv /\ FreshPipe => FrameWhole
  BY DEF ReaderInv
<1> QED BY <1>1, CassetteSafe, PTL

\* The sensor of an open ImageDevice is armed: what open armed nothing but the
\* device's own close, or the end of the daemon, disarms.
THEOREM CassetteArmedWhileOpen == ShotsHavePixels => (Spec => []ArmedWhileOpen)
<1> SUFFICES ASSUME ShotsHavePixels
             PROVE  Spec => []ArmedWhileOpen
  OBVIOUS
<1>1. ReaderInv /\ FreshPipe => ArmedWhileOpen
  BY DEF ReaderInv
<1> QED BY <1>1, CassetteSafe, PTL

\* A frame answers the command of its own capture, unless a capture since the
\* sensor's last reset was cut short and the sensor keeps what nobody read.
THEOREM CassetteFresh == ShotsHavePixels => (Spec => FreshUnlessCut)
<1> SUFFICES ASSUME ShotsHavePixels
             PROVE  Spec => FreshUnlessCut
  OBVIOUS
<1>1. ReaderInv /\ FreshPipe /\ [Next]_vars =>
        [Delivers => (frames'[Len(frames')].of = commands \/ (~clean /\ sensor.keeps))]_vars
  BY ReaderStep
<1> QED BY <1>1, CassetteSafe, PTL DEF Spec, FreshUnlessCut

\* What fpdev record saved replays to the frames that it had, all of them and
\* nothing else, for recordings of any length: every capture tapes the header and
\* the pixels of its frame, and what was refused or failed is not saved. A frame
\* too small to measure is the exception that the property names.
THEOREM CassetteReplays == ShotsHavePixels => (Spec => []RecordReplays)
<1> SUFFICES ASSUME ShotsHavePixels
             PROVE  Spec => []RecordReplays
  OBVIOUS
<1>1. Init => TapeInv
  BY NothingRead DEF Init, UsbInit, TapeInv, Recording
<1>2. ReaderInv /\ FreshPipe /\ TapeInv /\ [Next]_vars => TapeInv'
  BY TapeStep
<1>3. ReaderInv /\ TapeInv => RecordReplays
  <2> SUFFICES ASSUME ReaderInv, TapeInv, cassette # None
               PROVE  Replay(cassette) = [frames |-> frames, diverged |-> FALSE,
                                          panicked |-> \E i \in DOMAIN frames : ~Detectable(frames[i].size)]
    BY DEF RecordReplays
  <2>1. cassette = tape /\ Taping /\ ~At("pixels")
    BY DEF TapeInv, ReaderInv, Programmed, At
  <2>2. frames \in Seq([of : Nat, header : Nat, claims : Nat, size : Nat])
    BY DEF ReaderInv, ReaderTyped
  <2>3. Len(ReadsOf(cassette)) = 2 * Len(frames) /\ MadeOfReads(ReadsOf(cassette))
    <3>1. Len(frames) \in Nat
      BY <2>2
    <3> QED BY <2>1, <3>1 DEF Taping
  <2> QED BY <2>2, <2>3, ReplayOf
<1> QED BY <1>1, <1>2, <1>3, CassetteSafe, PTL DEF Spec

\* What fpdev import makes of a monitor's trace is what fpdev record taped,
\* whatever others transferred between: the same writes and reads in the same
\* order, by ids where a descriptor was seen and with everything where nobody
\* else was on the bus; a transfer that failed is one more at the end, and
\* never of a session that was saved.
THEOREM CassetteImports == ShotsHavePixels => (Spec => []ImportAgrees)
<1> SUFFICES ASSUME ShotsHavePixels
             PROVE  Spec => []ImportAgrees
  OBVIOUS
<1>1. Init => TapeInv /\ TraceInv
  BY NothingRead DEF Init, UsbInit, TapeInv, Recording, TraceInv, UrbIds
<1>2. ReaderInv /\ FreshPipe /\ TapeInv /\ TraceInv /\ [Next]_vars => (TapeInv /\ TraceInv)'
  BY TapeStep, TraceStep
<1>3. ReaderInv /\ TapeInv /\ TraceInv => ImportAgrees
  <2> SUFFICES ASSUME ReaderInv, TapeInv, TraceInv, trace # None, Quiet
               PROVE  LET session == Ours(Imported("place"))
                      IN  /\ IsPrefix(tape, session)
                          /\ Len(session) <= Len(tape) + (IF cassette = None /\ op = "idle" THEN 1 ELSE 0)
                          /\ Imported("ids") # <<>> => Imported("ids") = Imported("place")
                          /\ (\A i \in DOMAIN trace : trace[i].key = "sensor") => Imported("all") = Imported("place")
    BY DEF ImportAgrees
  <2> DEFINE acc == Assembled(trace)
             session == Ours(Imported("place"))
  <2>1. /\ acc \in Accs /\ Traced(acc) /\ op \in {"idle", "record"} /\ session = Mine(acc)
        /\ tape \in Seq(Pieces) /\ ~urb
    BY DEF TraceInv, Traced, TapeInv, Quiet, Mine, Imported
  <2>2. tape \in Seq(Parcels) /\ Len(tape) \in Nat
    <3>1. \A p \in Pieces : p \in Parcels
      BY DEF Pieces, Parcels
    <3> QED BY <2>1, <3>1
  <2>3. session = tape \/ (op = "idle" /\ cassette = None /\ \E t \in Parcels : session = Append(tape, t))
    BY <2>1 DEF Traced, Submitted, Recording
  <2>4. /\ IsPrefix(tape, session)
        /\ Len(session) <= Len(tape) + (IF cassette = None /\ op = "idle" THEN 1 ELSE 0)
    <3> HIDE DEF session
    <3>1. CASE session = tape
      <4>1. \E t : t \in Parcels
        BY ParcelsMade
      <4>2. IsPrefix(tape, tape)
        BY <2>2, <4>1, PrefixOf
      <4> QED BY <2>2, <3>1, <4>2
    <3>2. ASSUME op = "idle", cassette = None, NEW t \in Parcels, session = Append(tape, t)
          PROVE  IsPrefix(tape, session) /\ Len(session) <= Len(tape) + 1
      BY <2>2, <3>2, PrefixOf
    <3> QED BY <2>3, <3>1, <3>2
  <2>5. /\ Imported("ids") # <<>> => Imported("ids") = Imported("place")
        /\ OnlySensor(trace) => Imported("all") = Imported("place")
    BY <2>1, OtherFilters DEF Imported, Traced
  <2> QED BY <2>4, <2>5 DEF OnlySensor
<1> QED BY <1>1, <1>2, <1>3, CassetteSafe, PTL DEF Spec

=============================================================================
