--------------------------- MODULE SignalsProofs ---------------------------
(***************************************************************************)
(* What a client is told, for any number of operations, galleries, stages  *)
(* and places of a report channel.  The invariant SignalsInv says of each  *)
(* operation where its command is (Commanded), what its pump is about to   *)
(* say (Outspoken), that this and what it has said is so (Truthful), and   *)
(* how the stages it was told of lag behind those it has done (Counted);   *)
(* of a patient client's operations that only the latest has something to  *)
(* say (Serial).                                                           *)
(***************************************************************************)
EXTENDS StatusSignals, TLAPS, FiniteSetTheorems

\* A command is on its way at most once, and not answered there.
Has(s, p) == \E i \in DOMAIN s : s[i] = p
Once(s) == \A i, j \in DOMAIN s : s[i] = s[j] => i = j

Commanded(p) ==
    /\ Has(rx, p) => answer[p] = NoAnswer /\ pump[p].pc \notin {"unused", "sending"}
    /\ pump[p].pc = "telling" /\ pump[p].next # "waiting" => answer[p] # NoAnswer
    /\ answer[p] # NoAnswer => pump[p].pc # "unused"
    /\ answer[p].class = "print" => pump[p].kind = "enroll" /\ tally[p].stage = Stages
    /\ pump[p].kind = "verify" => pump[p].gallery # <<>>
    /\ pump[p].kind = "enroll" =>
          /\ pump[p].pc = "telling" => pump[p].next # "sending"
          /\ pump[p].pc = "sending" => answer[p] = NoAnswer

\* The done status comes last of what a pump has to say, and ends it.
Outspoken(p) ==
    /\ Len(pump[p].out) <= 2
    /\ pump[p].pc # "telling" => pump[p].out = <<>>
    /\ pump[p].pc = "telling" => pump[p].next # "ended"
    /\ \A i \in DOMAIN pump[p].out :
          /\ pump[p].out[i].done <=> (pump[p].next = "closing" /\ i = Len(pump[p].out))
          /\ pump[p].out[i].name # "finger-selected"
    /\ pump[p].pc = "telling" /\ pump[p].next = "closing" => pump[p].out # <<>> \/ HasVerdict(p)
    /\ HasVerdict(p) =>
          \/ pump[p].pc \in {"closing", "ended"}
          \/ pump[p].pc = "telling" /\ pump[p].next = "closing" /\ pump[p].out = <<>>
    /\ pump[p].pc \in {"closing", "ended"} =>
          HasVerdict(p) \/ pump[p].stop \/ answer[p].class = "gone"

\* A signal that belongs to a verdict is so, and stays so.
Judging == {"enroll-completed", "enroll-failed", "enroll-error", "finger-matched",
            "verify-match", "verify-no-match", "verify-error"}
InGallery(p) == answer[p].class = "matched" /\ answer[p].index \in DOMAIN pump[p].gallery

Correct(p, s) ==
    /\ s.name = "enroll-completed" => p \in saved
    /\ s.name \in {"enroll-failed", "enroll-error"} => p \notin saved
    /\ s.name = "finger-matched" => InGallery(p) /\ s.finger = pump[p].gallery[answer[p].index]
    /\ s.name = "verify-no-match" => ~InGallery(p)

\* The pump has its last answer and is telling it, or has.
Decided(p) ==
    answer[p] # NoAnswer /\ \/ pump[p].pc \in {"closing", "ended"}
                            \/ pump[p].pc = "telling" /\ pump[p].next = "closing"

Truthful(p) ==
    /\ \A i \in DOMAIN told[p] : told[p][i].name \in Judging => Decided(p) /\ Correct(p, told[p][i])
    /\ \A i \in DOMAIN pump[p].out :
          pump[p].out[i].name \in Judging => Decided(p) /\ Correct(p, pump[p].out[i])
    /\ \A i \in DOMAIN told[p] : told[p][i].name = "verify-match" =>
          \E j \in 1 .. i - 1 : told[p][j].name = "finger-matched"
    /\ \A i \in DOMAIN pump[p].out : pump[p].out[i].name = "verify-match" =>
          \/ i = 1 /\ \E j \in DOMAIN told[p] : told[p][j].name = "finger-matched"
          \/ i = 2 /\ pump[p].out[1].name = "finger-matched"
    /\ p \in saved => answer[p].class = "print" /\ Decided(p)

\* The stages told lag behind those heard of, these behind those that wait in
\* the channel, and these behind those that are done; and not at all, while the
\* channel has had room for every report.
Passing == Signal("enroll-stage-passed", FALSE)
Pending(p) == IF pump[p].out = <<Passing>> THEN 1 ELSE 0
Gain(report) == IF report.retry THEN 0 ELSE 1
Before(heard, q, i) == IF i = 1 THEN heard ELSE q[i - 1].stage
Chain(heard, q, stage) ==
    /\ heard <= stage
    /\ \A i \in DOMAIN q : /\ q[i].stage <= stage
                           /\ q[i].stage >= Before(heard, q, i) + Gain(q[i])
Tight(heard, q, stage) ==
    /\ \A i \in DOMAIN q : q[i].stage = Before(heard, q, i) + Gain(q[i])
    /\ stage = IF q = <<>> THEN heard ELSE q[Len(q)].stage
Whole(p) == tally[p].made <= Cap /\ (pump[p].pc # "ended" \/ p \in saved)

Chained(p) ==
    /\ Chain(tally[p].heard, queue[p], tally[p].stage)
    /\ Len(queue[p]) <= tally[p].made
    /\ Whole(p) => Tight(tally[p].heard, queue[p], tally[p].stage)

Counted(p) ==
    /\ Chained(p)
    /\ pump[p].kind # "enroll" \/ pump[p].pc \in {"unused", "sending"} =>
          tally[p].heard = 0 /\ tally[p].stage = 0 /\ queue[p] = <<>>
    /\ \A i \in DOMAIN pump[p].out :
          pump[p].out[i].name = "enroll-stage-passed" => pump[p].out = <<Passing>>
    /\ Passed(p) \in Nat
    /\ Passed(p) + Pending(p) <= tally[p].heard
    /\ Passed(p) + Pending(p) < Stages
    /\ Whole(p) => \/ Passed(p) + Pending(p) = tally[p].heard
                   \/ tally[p].heard = Stages /\ Passed(p) + Pending(p) = Stages - 1

PumpInv(p) == Commanded(p) /\ Outspoken(p) /\ Truthful(p) /\ Counted(p)

\* Of a patient client's operations, those before the latest have had their say.
Silent(p) ==
    p \notin selecting /\ (pump[p].pc \in {"unused", "closing", "ended"} \/ HasVerdict(p))

Serial ==
    /\ active \in {None, latest}
    /\ latest = None => \A p \in Pumps : pump[p].pc = "unused" /\ p \notin selecting
    /\ patient => \A p \in Pumps : p = latest \/ Silent(p)
    /\ patient /\ active = None /\ latest # None => Silent(latest)

\* A verdict is followed by the selected finger alone.
Concluded(p) ==
    \A i, j \in DOMAIN told[p] :
        told[p][i].done /\ i < j => told[p][j].name = "finger-selected"

SignalsInv ==
    /\ TypeOK /\ Once(rx) /\ Serial
    /\ \A p \in Pumps : PumpInv(p) /\ Concluded(p)

-----------------------------------------------------------------------------
(* Sequences.                                                              *)

\* A sequence that gets one more element.
LEMMA Grows ==
  ASSUME NEW S, NEW s \in Seq(S), NEW e \in S
  PROVE  /\ Append(s, e) \in Seq(S) /\ Append(s, e) # <<>>
         /\ Len(s) \in Nat /\ DOMAIN s = 1 .. Len(s)
         /\ Len(Append(s, e)) = Len(s) + 1 /\ DOMAIN Append(s, e) = 1 .. Len(s) + 1
         /\ \A i \in 1 .. Len(s) : Append(s, e)[i] = s[i]
         /\ Append(s, e)[Len(s) + 1] = e
  OBVIOUS

\* A sequence that loses its first element.
LEMMA Shrinks ==
  ASSUME NEW S, NEW s \in Seq(S), s # <<>>
  PROVE  /\ Tail(s) \in Seq(S) /\ Head(s) \in S /\ Head(s) = s[1]
         /\ Len(s) \in Nat /\ Len(s) >= 1 /\ DOMAIN s = 1 .. Len(s)
         /\ Len(Tail(s)) = Len(s) - 1 /\ DOMAIN Tail(s) = 1 .. Len(s) - 1
         /\ \A i \in 1 .. Len(s) - 1 : Tail(s)[i] = s[i + 1]
  OBVIOUS

\* A sequence of one element.
LEMMA Single ==
  ASSUME NEW S, NEW e \in S
  PROVE  /\ <<e>> \in Seq(S) /\ <<e>> # <<>> /\ Len(<<e>>) = 1 /\ DOMAIN <<e>> = {1}
         /\ <<e>>[1] = e
  OBVIOUS

\* A sequence of two elements.
LEMMA Pair ==
  ASSUME NEW S, NEW d \in S, NEW e \in S
  PROVE  /\ <<d, e>> \in Seq(S) /\ Len(<<d, e>>) = 2 /\ DOMAIN <<d, e>> = {1, 2}
         /\ <<d, e>>[1] = d /\ <<d, e>>[2] = e
  OBVIOUS

\* The actor takes the first command.
LEMMA CommandTaken ==
  ASSUME NEW s \in Seq(Pumps), s # <<>>, Once(s)
  PROVE  /\ Once(Tail(s)) /\ Has(s, Head(s)) /\ ~Has(Tail(s), Head(s))
         /\ \A q \in Pumps : Has(Tail(s), q) => Has(s, q)
<1>1. /\ Len(s) \in Nat /\ Len(s) >= 1 /\ DOMAIN s = 1 .. Len(s) /\ Head(s) = s[1]
      /\ DOMAIN Tail(s) = 1 .. Len(s) - 1
      /\ \A i \in 1 .. Len(s) - 1 : Tail(s)[i] = s[i + 1]
  BY Shrinks
<1>2. \A i \in DOMAIN Tail(s) : i + 1 \in DOMAIN s /\ i + 1 # 1 /\ Tail(s)[i] = s[i + 1]
  BY <1>1
<1>3. Once(Tail(s))
  BY <1>1, <1>2 DEF Once
<1>4. Has(s, Head(s)) /\ ~Has(Tail(s), Head(s))
  BY <1>1, <1>2 DEF Has, Once
<1> QED
  BY <1>2, <1>3, <1>4 DEF Has

\* A pump that has no command on its way sends one.
LEMMA CommandSent ==
  ASSUME NEW s \in Seq(Pumps), NEW p \in Pumps, Once(s), ~Has(s, p)
  PROVE  /\ Once(Append(s, p))
         /\ \A q \in Pumps : Has(Append(s, p), q) => q = p \/ Has(s, q)
<1>1. /\ Len(s) \in Nat /\ DOMAIN s = 1 .. Len(s) /\ DOMAIN Append(s, p) = 1 .. Len(s) + 1
      /\ \A i \in 1 .. Len(s) : Append(s, p)[i] = s[i]
      /\ Append(s, p)[Len(s) + 1] = p
  BY Grows
<1>2. \A i \in DOMAIN Append(s, p) :
        \/ i \in DOMAIN s /\ Append(s, p)[i] = s[i] /\ s[i] # p
        \/ i = Len(s) + 1 /\ Append(s, p)[i] = p
  BY <1>1 DEF Has
<1>3. Once(Append(s, p))
  BY <1>2 DEF Once
<1> QED
  BY <1>2, <1>3 DEF Has

\* The stages passed among some signals.
Passes(s) == Cardinality({i \in DOMAIN s : s[i].name = "enroll-stage-passed"})

\* A signal more adds a stage passed, if it is one.
LEMMA PassesCounted ==
  ASSUME NEW s \in Seq(Signals), NEW e \in Signals
  PROVE  /\ Passes(s) \in Nat /\ Passes(<<>>) = 0
         /\ Passes(Append(s, e)) =
              IF e.name = "enroll-stage-passed" THEN Passes(s) + 1 ELSE Passes(s)
<1> DEFINE At(t) == {i \in DOMAIN t : t[i].name = "enroll-stage-passed"}
           n == Len(s) + 1
<1>1. /\ Len(s) \in Nat /\ DOMAIN s = 1 .. Len(s) /\ DOMAIN Append(s, e) = 1 .. n
      /\ \A i \in 1 .. Len(s) : Append(s, e)[i] = s[i]
      /\ Append(s, e)[n] = e
  BY Grows
<1>2. IsFiniteSet(At(s)) /\ Cardinality(At(s)) \in Nat
  <2>1. IsFiniteSet(1 .. Len(s)) /\ At(s) \in SUBSET (1 .. Len(s))
    BY <1>1, FS_Interval
  <2>2. IsFiniteSet(At(s))
    BY <2>1, FS_Subset
  <2> QED
    BY <2>2, FS_CardinalityType
<1>3. n \notin At(s)
  BY <1>1
<1>4. ASSUME e.name = "enroll-stage-passed"
      PROVE  Passes(Append(s, e)) = Passes(s) + 1
  <2>1. At(Append(s, e)) = At(s) \cup {n}
    BY <1>1, <1>4
  <2>2. Cardinality(At(s) \cup {n}) = Cardinality(At(s)) + 1
    BY <1>2, <1>3, FS_AddElement
  <2> QED
    BY <2>1, <2>2 DEF Passes
<1>5. ASSUME e.name # "enroll-stage-passed"
      PROVE  Passes(Append(s, e)) = Passes(s)
  <2>1. At(Append(s, e)) = At(s)
    BY <1>1, <1>5
  <2> QED
    BY <2>1 DEF Passes
<1>6. Passes(<<>>) = 0
  <2>1. At(<<>>) = {}
    OBVIOUS
  <2> QED BY <2>1, FS_EmptySet DEF Passes
<1> QED
  BY <1>2, <1>4, <1>5, <1>6 DEF Passes

-----------------------------------------------------------------------------
(* Types.                                                                  *)

\* The signals of the vocabulary.
LEMMA SignalTyped ==
  /\ \A n \in Names, d \in BOOLEAN : Signal(n, d) \in Signals /\ Signal(n, d).name = n
                                       /\ Signal(n, d).done = d
  /\ \A n \in Names, f \in Fingers \cup {None} :
       /\ Naming(n, f) \in Signals /\ Naming(n, f).name = n
       /\ Naming(n, f).done = FALSE /\ Naming(n, f).finger = f
  /\ Passing \in Signals /\ Passing.name = "enroll-stage-passed" /\ ~Passing.done
  BY DEF Signal, Naming, Signals, Names, Passing

\* One stage passed, and nothing else.
LEMMA OnePassing ==
  /\ <<Passing>> \in Seq(Signals) /\ <<Passing>> # <<>>
  /\ \A s : s = <<Passing>> =>
        Len(s) = 1 /\ DOMAIN s = {1} /\ s[1].name = "enroll-stage-passed"
  BY Single, SignalTyped

\* What is told of a report.
LEMMA ProgressTyped ==
  ASSUME NEW report \in Reports
  PROVE  /\ report.stage \in 0 .. Stages /\ report.retry \in BOOLEAN
         /\ EnrollProgress(report) \in Seq(Signals)
         /\ \/ EnrollProgress(report) = <<Passing>> /\ ~report.retry /\ report.stage < Stages
            \/ EnrollProgress(report) = <<Signal("enroll-retry", FALSE)>> /\ report.retry
            \/ EnrollProgress(report) = <<>> /\ ~report.retry /\ report.stage = Stages
<1>1. report.stage \in 0 .. Stages /\ report.retry \in BOOLEAN /\ Stages \in Nat
  BY SignalsAssumption DEF Reports
<1>2. <<Signal("enroll-retry", FALSE)>> \in Seq(Signals)
  BY Single, SignalTyped DEF Names
<1>3. CASE report.retry
  BY <1>1, <1>2, <1>3 DEF EnrollProgress
<1>4. CASE ~report.retry /\ report.stage < Stages
  BY <1>1, <1>4, OnePassing DEF EnrollProgress, Passing
<1>5. CASE ~report.retry /\ report.stage = Stages
  <2>1. EnrollProgress(report) = <<>>
    BY <1>1, <1>5 DEF EnrollProgress
  <2>2. <<>> \in Seq(Signals)
    OBVIOUS
  <2> QED
    BY <1>1, <1>5, <2>1, <2>2
<1>6. \/ report.retry
      \/ ~report.retry /\ report.stage < Stages
      \/ ~report.retry /\ report.stage = Stages
  BY <1>1
<1> QED
  BY <1>3, <1>4, <1>5, <1>6

\* What the reader may answer.
LEMMA OutcomeTyped ==
  \A c \in Classes, i \in Nat : /\ Outcome(c, i) \in Answers /\ Outcome(c, i) # NoAnswer
                                /\ Outcome(c, i).class = c /\ Outcome(c, i).index = i
  BY DEF Outcome, Answers, Classes, NoAnswer

PumpType == [pc : {"unused", "sending", "waiting", "telling", "closing", "ended"},
             kind : Kinds, gallery : Seq(Fingers), stop : BOOLEAN,
             out : Seq(Signals), next : {"waiting", "sending", "closing", "ended"}]
TallyType == [stage : 0 .. Stages, made : Nat, heard : 0 .. Stages, tries : Nat]

\* The matched finger is one of the gallery's.
LEMMA MatchTyped ==
  ASSUME TypeOK, NEW p \in Pumps
  PROVE  MatchedFinger(p) \in Fingers \cup {None} /\ (MatchedFinger(p) # None => InGallery(p))
<1>1. pump[p].gallery \in Seq(Fingers)
  BY DEF TypeOK
<1>2. \A i \in DOMAIN pump[p].gallery : pump[p].gallery[i] \in Fingers
  BY <1>1
<1> QED
  BY <1>2 DEF MatchedFinger, InGallery

-----------------------------------------------------------------------------
(* The stages told, heard of and done.                                     *)

\* The stages of reports.
LEMMA ReportsTyped ==
  ASSUME NEW q \in Seq(Reports)
  PROVE  /\ Len(q) \in Nat /\ DOMAIN q = 1 .. Len(q)
         /\ q = <<>> <=> Len(q) = 0
         /\ \A i \in 1 .. Len(q) : q[i] \in Reports /\ q[i].stage \in Nat /\ Gain(q[i]) \in {0, 1}
<1>1. Stages \in Nat
  BY SignalsAssumption
<1>2. \A r \in Reports : r.stage \in Nat /\ Gain(r) \in {0, 1}
  BY <1>1 DEF Reports, Gain
<1>3. \A i \in 1 .. Len(q) : q[i] \in Reports
  OBVIOUS
<1> QED
  BY <1>2, <1>3

\* The report of a stage more, or of none.
LEMMA ChainGrows ==
  ASSUME NEW q \in Seq(Reports), NEW heard \in Nat, NEW stage \in Nat, NEW report \in Reports,
         report.stage = stage + Gain(report), Chain(heard, q, stage)
  PROVE  /\ Chain(heard, Append(q, report), report.stage)
         /\ Tight(heard, q, stage) => Tight(heard, Append(q, report), report.stage)
         /\ Chain(heard, q, report.stage)
<1> DEFINE n == Len(q)
           r == Append(q, report)
<1>1. /\ n \in Nat /\ DOMAIN q = 1 .. n /\ (q = <<>> <=> n = 0)
      /\ \A i \in 1 .. n : q[i].stage \in Nat /\ Gain(q[i]) \in {0, 1}
  BY ReportsTyped
<1>2. /\ Len(r) = n + 1 /\ DOMAIN r = 1 .. n + 1 /\ r # <<>>
      /\ \A i \in 1 .. n : r[i] = q[i]
      /\ r[n + 1] = report
  BY Grows
<1>3. report.stage \in Nat /\ Gain(report) \in {0, 1} /\ report.stage >= stage
  BY SignalsAssumption DEF Reports, Gain
<1> HIDE DEF n, r
<1>4. \A i \in 1 .. n : i = 1 \/ i - 1 \in 1 .. n
  BY <1>1
<1>5. \A i \in 1 .. n : Before(heard, r, i) = Before(heard, q, i)
  BY <1>2, <1>4 DEF Before
<1>6. Before(heard, r, n + 1) = IF n = 0 THEN heard ELSE q[n].stage
  <2>1. (n + 1) - 1 = n /\ (n # 0 => n \in 1 .. n) /\ (n + 1 = 1 <=> n = 0)
    BY <1>1
  <2> QED
    BY <1>2, <2>1 DEF Before
<1>7. \A i \in 1 .. n : /\ q[i].stage <= stage
                        /\ q[i].stage >= Before(heard, q, i) + Gain(q[i])
  BY <1>1 DEF Chain
<1>8. Before(heard, r, n + 1) \in Nat /\ Before(heard, r, n + 1) <= stage
  <2>1. n # 0 => n \in 1 .. n
    BY <1>1
  <2> QED
    BY <1>1, <1>6, <1>7, <2>1 DEF Chain
<1>9. heard <= report.stage /\ \A i \in 1 .. n : q[i].stage <= report.stage
  BY <1>1, <1>3, <1>7 DEF Chain
<1>10. \A i \in 1 .. n + 1 : /\ r[i].stage <= report.stage
                             /\ r[i].stage >= Before(heard, r, i) + Gain(r[i])
  <2>1. \A i \in 1 .. n : /\ r[i].stage <= report.stage
                          /\ r[i].stage >= Before(heard, r, i) + Gain(r[i])
    BY <1>2, <1>5, <1>7, <1>9
  <2>2. /\ r[n + 1].stage <= report.stage
        /\ r[n + 1].stage >= Before(heard, r, n + 1) + Gain(r[n + 1])
    BY <1>2, <1>3, <1>8
  <2>3. \A i \in 1 .. n + 1 : i \in 1 .. n \/ i = n + 1
    BY <1>1
  <2> QED
    BY <2>1, <2>2, <2>3
<1>11. ASSUME Tight(heard, q, stage)
       PROVE  Tight(heard, r, report.stage)
  <2>1. \A i \in 1 .. n : r[i].stage = Before(heard, r, i) + Gain(r[i])
    BY <1>1, <1>2, <1>5, <1>11 DEF Tight
  <2>2. Before(heard, r, n + 1) = stage
    BY <1>1, <1>6, <1>11 DEF Tight, n
  <2>3. \A i \in 1 .. n + 1 : i \in 1 .. n \/ i = n + 1
    BY <1>1
  <2>4. \A i \in 1 .. n + 1 : r[i].stage = Before(heard, r, i) + Gain(r[i])
    BY <1>2, <2>1, <2>2, <2>3
  <2> QED
    BY <1>2, <2>4 DEF Tight
<1>12. Chain(heard, r, report.stage)
  BY <1>2, <1>9, <1>10 DEF Chain
<1>13. Chain(heard, q, report.stage)
  BY <1>1, <1>7, <1>9 DEF Chain
<1> QED
  BY <1>11, <1>12, <1>13 DEF r

\* The first report is heard.
LEMMA ChainShrinks ==
  ASSUME NEW q \in Seq(Reports), q # <<>>, NEW heard \in Nat, NEW stage \in Nat, Chain(heard, q, stage)
  PROVE  /\ Chain(q[1].stage, Tail(q), stage)
         /\ q[1].stage >= heard + Gain(q[1])
         /\ Tight(heard, q, stage) => /\ Tight(q[1].stage, Tail(q), stage)
                                      /\ q[1].stage = heard + Gain(q[1])
<1> DEFINE n == Len(q)
           r == Tail(q)
<1>1. /\ n \in Nat /\ n >= 1 /\ DOMAIN q = 1 .. n
      /\ Len(r) = n - 1 /\ DOMAIN r = 1 .. n - 1
      /\ \A i \in 1 .. n - 1 : r[i] = q[i + 1]
  BY Shrinks
<1>2. r = <<>> <=> n = 1
  BY <1>1
<1> HIDE DEF n, r
<1>3. 1 \in 1 .. n /\ Before(heard, q, 1) = heard
  BY <1>1 DEF Before
<1>4. \A i \in 1 .. n - 1 : i + 1 \in 1 .. n /\ i + 1 # 1 /\ (i + 1) - 1 = i
                            /\ (i = 1 \/ i - 1 \in 1 .. n - 1) /\ (i - 1) + 1 = i
  BY <1>1
<1>5. \A i \in 1 .. n - 1 : Before(q[1].stage, r, i) = Before(heard, q, i + 1)
  BY <1>1, <1>4 DEF Before
<1>6. Chain(q[1].stage, r, stage)
  BY <1>1, <1>3, <1>4, <1>5 DEF Chain
<1>7. ASSUME Tight(heard, q, stage)
      PROVE  Tight(q[1].stage, r, stage) /\ q[1].stage = heard + Gain(q[1])
  <2>1. stage = q[n].stage
    BY <1>7 DEF Tight, n
  <2>2. n # 1 => n - 1 \in 1 .. n - 1 /\ (n - 1) + 1 = n
    BY <1>1
  <2>3. stage = IF r = <<>> THEN q[1].stage ELSE r[Len(r)].stage
    BY <1>1, <1>2, <2>1, <2>2
  <2>4. \A i \in 1 .. n - 1 : r[i].stage = Before(q[1].stage, r, i) + Gain(r[i])
    BY <1>1, <1>4, <1>5, <1>7 DEF Tight
  <2> QED
    BY <1>1, <1>3, <1>7, <2>3, <2>4 DEF Tight
<1> QED
  BY <1>1, <1>3, <1>6, <1>7 DEF Chain, r

-----------------------------------------------------------------------------
(* What a step does to its operation and to the others; types.             *)

\* An operation the step does not touch.
Untouched(q) ==
    /\ pump'[q] = pump[q] /\ told'[q] = told[q] /\ queue'[q] = queue[q]
    /\ answer'[q] = answer[q] /\ tally'[q] = tally[q] /\ (q \in saved' <=> q \in saved)

\* The types of an operation's state, one by one.
LEMMA TypesOf ==
  ASSUME TypeOK, NEW p \in Pumps
  PROVE  /\ pump[p] \in PumpType /\ pump[p].out \in Seq(Signals) /\ pump[p].gallery \in Seq(Fingers)
         /\ queue[p] \in Seq(Reports) /\ answer[p] \in Answers \cup {NoAnswer}
         /\ told[p] \in Seq(Signals) /\ tally[p] \in TallyType
  BY DEF TypeOK, PumpType, TallyType

\* A pump moves on.
LEMMA Moves ==
  ASSUME TypeOK, NEW p \in Pumps, NEW pc \in {"waiting", "sending", "closing", "ended"}, Goto(p, pc)
  PROVE  /\ pump' \in [Pumps -> PumpType] /\ \A q \in Pumps : q # p => pump'[q] = pump[q]
         /\ pump'[p].pc = pc
         /\ pump'[p].kind = pump[p].kind /\ pump'[p].gallery = pump[p].gallery
         /\ pump'[p].stop = pump[p].stop /\ pump'[p].out = pump[p].out
<1> DEFINE r == [pump[p] EXCEPT !.pc = pc]
<1>1. pump \in [Pumps -> PumpType] /\ pump[p] \in PumpType
  BY DEF TypeOK, PumpType
<1>2. /\ r \in PumpType /\ r.pc = pc /\ r.kind = pump[p].kind /\ r.gallery = pump[p].gallery
      /\ r.stop = pump[p].stop /\ r.out = pump[p].out
  BY <1>1 DEF PumpType
<1>3. pump' = [pump EXCEPT ![p] = r]
  BY DEF Goto
<1> QED
  BY <1>1, <1>2, <1>3

\* A pump has something to say.
LEMMA Says ==
  ASSUME TypeOK, NEW p \in Pumps, NEW s \in Seq(Signals),
         NEW next \in {"waiting", "sending", "closing"}, Say(p, s, next)
  PROVE  /\ pump' \in [Pumps -> PumpType] /\ \A q \in Pumps : q # p => pump'[q] = pump[q]
         /\ pump'[p].pc = "telling" /\ pump'[p].out = s /\ pump'[p].next = next
         /\ pump'[p].kind = pump[p].kind /\ pump'[p].gallery = pump[p].gallery
         /\ pump'[p].stop = pump[p].stop
<1> DEFINE r == [pump[p] EXCEPT !.pc = "telling", !.out = s, !.next = next]
<1>1. pump \in [Pumps -> PumpType] /\ pump[p] \in PumpType
  BY DEF TypeOK, PumpType
<1>2. /\ r \in PumpType /\ r.pc = "telling" /\ r.out = s /\ r.next = next
      /\ r.kind = pump[p].kind /\ r.gallery = pump[p].gallery /\ r.stop = pump[p].stop
  BY <1>1 DEF PumpType
<1>3. pump' = [pump EXCEPT ![p] = r]
  BY <1>1 DEF Say, PumpType
<1> QED
  BY <1>1, <1>2, <1>3

\* A stop.
LEMMA StopDone ==
  ASSUME TypeOK, Stop, patient' = patient
  PROVE  /\ TypeOK' /\ rx' = rx
         /\ \A q \in Pumps : q # active => Untouched(q)
         /\ active \in Pumps
         /\ pump'[active].pc = pump[active].pc /\ pump'[active].kind = pump[active].kind
         /\ pump'[active].gallery = pump[active].gallery /\ pump'[active].out = pump[active].out
         /\ pump'[active].next = pump[active].next /\ (pump[active].stop => pump'[active].stop)
         /\ told' = told /\ queue' = queue /\ answer' = answer /\ tally' = tally /\ saved' = saved
<1>1. active \in Pumps
  BY DEF TypeOK, Stop
<1>2. /\ pump' \in [Pumps -> PumpType] /\ \A q \in Pumps : q # active => pump'[q] = pump[q]
      /\ pump'[active].pc = pump[active].pc /\ pump'[active].kind = pump[active].kind
      /\ pump'[active].gallery = pump[active].gallery /\ pump'[active].out = pump[active].out
      /\ pump'[active].next = pump[active].next /\ (pump[active].stop => pump'[active].stop)
  <2> DEFINE r == [pump[active] EXCEPT !.stop = TRUE]
  <2>1. pump \in [Pumps -> PumpType] /\ pump[active] \in PumpType
    BY <1>1 DEF TypeOK, PumpType
  <2>2. /\ r \in PumpType /\ r.pc = pump[active].pc /\ r.kind = pump[active].kind
        /\ r.gallery = pump[active].gallery /\ r.out = pump[active].out
        /\ r.next = pump[active].next /\ r.stop = TRUE
    BY <2>1 DEF PumpType
  <2>3. pump' = pump \/ pump' = [pump EXCEPT ![active] = r]
    BY DEF Stop
  <2> QED
    BY <1>1, <2>1, <2>2, <2>3
<1>3. TypeOK'
  BY <1>2 DEF TypeOK, Stop, PumpType
<1> QED
  BY <1>1, <1>2, <1>3 DEF Stop, Untouched

\* A start.
LEMMA BeginDone ==
  ASSUME TypeOK, NEW p \in Pumps, NEW k \in Kinds, NEW g \in Seq(Fingers), BeginOp(p, k, g),
         patient' = patient, selecting' \subseteq selecting \cup {p},
         UNCHANGED <<rx, queue, answer, saved, told, tally>>
  PROVE  /\ TypeOK' /\ rx' = rx
         /\ \A q \in Pumps : q # p => Untouched(q)
         /\ pump'[p].pc = "sending" /\ pump'[p].out = <<>>
         /\ pump'[p].kind = k /\ pump'[p].gallery = g
         /\ told' = told /\ queue' = queue /\ answer' = answer /\ tally' = tally /\ saved' = saved
<1> DEFINE r == [Idle EXCEPT !.pc = "sending", !.kind = k, !.gallery = g]
<1>1. r \in PumpType /\ r.pc = "sending" /\ r.out = <<>> /\ r.kind = k /\ r.gallery = g
  <2>1. Idle \in PumpType /\ Idle.out = <<>>
    BY DEF Idle, PumpType, Kinds
  <2> QED
    BY <2>1 DEF PumpType
<1>2. /\ pump' \in [Pumps -> PumpType] /\ \A q \in Pumps : q # p => pump'[q] = pump[q]
      /\ pump'[p].pc = "sending" /\ pump'[p].out = <<>>
      /\ pump'[p].kind = k /\ pump'[p].gallery = g
  <2>1. pump' = [pump EXCEPT ![p] = r] /\ pump \in [Pumps -> PumpType]
    BY DEF BeginOp, TypeOK, PumpType
  <2> QED
    BY <1>1, <2>1
<1>3. TypeOK'
  BY <1>2 DEF TypeOK, BeginOp, PumpType
<1> QED
  BY <1>2, <1>3 DEF Untouched

\* The late news of the selected finger.
LEMMA SelectedDone ==
  ASSUME TypeOK, NEW p \in Pumps, Commanded(p), TellSelected(p), patient' = patient
  PROVE  /\ TypeOK' /\ rx' = rx
         /\ \A q \in Pumps : q # p => Untouched(q)
         /\ \E f \in Fingers \cup {None} : told'[p] = Append(told[p], Naming("finger-selected", f))
         /\ pump' = pump /\ queue' = queue /\ answer' = answer /\ tally' = tally /\ saved' = saved
<1> DEFINE f == IF pump[p].kind = "verify" THEN pump[p].gallery[1] ELSE None
<1>1. f \in Fingers \cup {None}
  BY TypesOf DEF Commanded
<1>2. Append(told[p], Naming("finger-selected", f)) \in Seq(Signals)
  BY <1>1, TypesOf, SignalTyped, Grows DEF Names
<1>3. /\ told' \in [Pumps -> Seq(Signals)] /\ told'[p] = Append(told[p], Naming("finger-selected", f))
      /\ \A q \in Pumps : q # p => told'[q] = told[q]
  BY <1>2 DEF TypeOK, TellSelected
<1>4. TypeOK'
  BY <1>3 DEF TypeOK, TellSelected
<1> QED
  BY <1>1, <1>3, <1>4 DEF TellSelected, Untouched

\* A capture.
LEMMA CaptureDone ==
  ASSUME TypeOK, NEW p \in Pumps, NEW retry \in BOOLEAN, Capture(p, retry), patient' = patient
  PROVE  LET stage == IF retry THEN tally[p].stage ELSE tally[p].stage + 1
             report == [stage |-> stage, retry |-> retry] IN
         /\ TypeOK' /\ rx' = rx /\ report \in Reports
         /\ \A q \in Pumps : q # p => Untouched(q)
         /\ tally'[p].stage = stage /\ tally'[p].made = tally[p].made + 1
         /\ tally'[p].heard = tally[p].heard
         /\ queue'[p] = IF Finished(p) \/ Len(queue[p]) >= Cap THEN queue[p]
                        ELSE Append(queue[p], report)
         /\ pump' = pump /\ told' = told /\ answer' = answer /\ saved' = saved
<1> DEFINE stage == IF retry THEN tally[p].stage ELSE tally[p].stage + 1
           report == [stage |-> stage, retry |-> retry]
<1>1. stage \in 0 .. Stages /\ report \in Reports
  BY TypesOf, SignalsAssumption DEF Capture, TallyType, Reports
<1>2. /\ tally' \in [Pumps -> TallyType] /\ \A q \in Pumps : q # p => tally'[q] = tally[q]
      /\ tally'[p].stage = stage /\ tally'[p].made = tally[p].made + 1
      /\ tally'[p].heard = tally[p].heard
  <2> DEFINE r == [tally[p] EXCEPT !.stage = stage, !.made = tally[p].made + 1]
  <2> HIDE DEF stage
  <2>1. tally \in [Pumps -> TallyType] /\ tally[p] \in TallyType
    BY DEF TypeOK, TallyType
  <2>2. r \in TallyType /\ r.stage = stage /\ r.made = tally[p].made + 1 /\ r.heard = tally[p].heard
    <3>1. tally[p].made + 1 \in Nat /\ stage \in 0 .. Stages
      BY <1>1, <2>1 DEF TallyType
    <3> QED
      BY <2>1, <3>1 DEF TallyType
  <2>3. tally' = [tally EXCEPT ![p] = r]
    BY <2>1 DEF Capture, TallyType, stage
  <2> QED
    BY <2>1, <2>2, <2>3
<1>3. Append(queue[p], report) \in Seq(Reports)
  BY <1>1, TypesOf
<1>4. /\ queue' \in [Pumps -> Seq(Reports)] /\ \A q \in Pumps : q # p => queue'[q] = queue[q]
      /\ queue'[p] = IF Finished(p) \/ Len(queue[p]) >= Cap THEN queue[p]
                     ELSE Append(queue[p], report)
  BY <1>3 DEF TypeOK, Capture, TrySend
<1>5. TypeOK'
  BY <1>2, <1>4 DEF TypeOK, Capture, TallyType
<1> QED
  BY <1>1, <1>2, <1>4, <1>5 DEF Capture, Untouched

\* A reply.
LEMMA ReplyDone ==
  ASSUME TypeOK, Once(rx), NEW p \in Pumps, NEW outcome \in Answers, Reply(p, outcome), patient' = patient
  PROVE  /\ TypeOK' /\ Once(rx') /\ Has(rx, p) /\ ~Has(rx', p)
         /\ \A q \in Pumps : Has(rx', q) => Has(rx, q)
         /\ \A q \in Pumps : q # p => Untouched(q)
         /\ answer'[p] = outcome
         /\ pump' = pump /\ queue' = queue /\ told' = told /\ tally' = tally /\ saved' = saved
<1>1. rx \in Seq(Pumps) /\ rx # <<>> /\ Head(rx) = p /\ rx' = Tail(rx)
  BY DEF TypeOK, Reply, Served
<1>2. Tail(rx) \in Seq(Pumps)
  BY <1>1, Shrinks
<1>3. Once(rx') /\ Has(rx, p) /\ ~Has(rx', p) /\ \A q \in Pumps : Has(rx', q) => Has(rx, q)
  BY <1>1, CommandTaken
<1>4. /\ answer' \in [Pumps -> Answers \cup {NoAnswer}] /\ answer'[p] = outcome
      /\ \A q \in Pumps : q # p => answer'[q] = answer[q]
  BY DEF TypeOK, Reply
<1>5. TypeOK'
  BY <1>1, <1>2, <1>4 DEF TypeOK, Reply
<1> QED
  BY <1>3, <1>4, <1>5 DEF Reply, Untouched

\* A command.
LEMMA SendDone ==
  ASSUME TypeOK, Once(rx), NEW p \in Pumps, Commanded(p), PumpSend(p), patient' = patient
  PROVE  /\ TypeOK' /\ Once(rx') /\ \A q \in Pumps : q # p => Untouched(q)
         /\ \A q \in Pumps : q # p => (Has(rx', q) => Has(rx, q))
         /\ pump'[p].pc = "waiting" /\ pump'[p].kind = pump[p].kind
         /\ pump'[p].gallery = pump[p].gallery /\ pump'[p].out = pump[p].out
         /\ queue'[p] = <<>> /\ answer'[p] = NoAnswer
         /\ tally'[p].stage = 0 /\ tally'[p].made = 0 /\ tally'[p].heard = 0
         /\ told' = told /\ saved' = saved
<1>1. /\ pump' \in [Pumps -> PumpType] /\ \A q \in Pumps : q # p => pump'[q] = pump[q]
      /\ pump'[p].pc = "waiting" /\ pump'[p].kind = pump[p].kind
      /\ pump'[p].gallery = pump[p].gallery /\ pump'[p].out = pump[p].out
  BY Moves DEF PumpSend
<1>2. [Fresh EXCEPT !.tries = tally[p].tries + 1] \in TallyType
  BY TypesOf, SignalsAssumption DEF Fresh, TallyType
<1>3. /\ tally' \in [Pumps -> TallyType] /\ \A q \in Pumps : q # p => tally'[q] = tally[q]
      /\ tally'[p].stage = 0 /\ tally'[p].made = 0 /\ tally'[p].heard = 0
  BY <1>2 DEF TypeOK, PumpSend, TallyType, Fresh
<1>4. /\ queue' \in [Pumps -> Seq(Reports)] /\ \A q \in Pumps : q # p => queue'[q] = queue[q]
      /\ queue'[p] = <<>>
  BY DEF TypeOK, PumpSend
<1>5. /\ answer' \in [Pumps -> Answers \cup {NoAnswer}] /\ answer'[p] = NoAnswer
      /\ \A q \in Pumps : q # p => answer'[q] = answer[q]
  BY DEF TypeOK, PumpSend
<1>6. rx \in Seq(Pumps) /\ rx' = Append(rx, p) /\ ~Has(rx, p)
  BY DEF TypeOK, PumpSend, Commanded
<1>7. rx' \in Seq(Pumps) /\ Once(rx') /\ \A q \in Pumps : Has(rx', q) => q = p \/ Has(rx, q)
  BY <1>6, CommandSent, Grows
<1>8. TypeOK'
  BY <1>1, <1>3, <1>4, <1>5, <1>7 DEF TypeOK, PumpSend, PumpType, TallyType
<1> QED
  BY <1>1, <1>3, <1>4, <1>5, <1>7, <1>8 DEF PumpSend, Untouched

\* A report heard.
LEMMA ReportDone ==
  ASSUME TypeOK, NEW p \in Pumps, PumpReport(p), patient' = patient
  PROVE  /\ TypeOK' /\ rx' = rx /\ \A q \in Pumps : q # p => Untouched(q)
         /\ pump'[p].pc = "telling" /\ pump'[p].next = "waiting"
         /\ pump'[p].out = EnrollProgress(Head(queue[p]))
         /\ pump'[p].kind = pump[p].kind /\ pump'[p].gallery = pump[p].gallery
         /\ queue'[p] = Tail(queue[p])
         /\ tally'[p].heard = Head(queue[p]).stage
         /\ tally'[p].stage = tally[p].stage /\ tally'[p].made = tally[p].made
         /\ told' = told /\ answer' = answer /\ saved' = saved
<1>1. Head(queue[p]) \in Reports /\ Tail(queue[p]) \in Seq(Reports)
  BY TypesOf, Shrinks DEF PumpReport
<1>2. EnrollProgress(Head(queue[p])) \in Seq(Signals)
  BY <1>1, ProgressTyped
<1>3. /\ pump' \in [Pumps -> PumpType] /\ \A q \in Pumps : q # p => pump'[q] = pump[q]
      /\ pump'[p].pc = "telling" /\ pump'[p].next = "waiting"
      /\ pump'[p].out = EnrollProgress(Head(queue[p]))
      /\ pump'[p].kind = pump[p].kind /\ pump'[p].gallery = pump[p].gallery
  BY <1>2, Says DEF PumpReport
<1>4. /\ queue' \in [Pumps -> Seq(Reports)] /\ \A q \in Pumps : q # p => queue'[q] = queue[q]
      /\ queue'[p] = Tail(queue[p])
  BY <1>1 DEF TypeOK, PumpReport
<1>5. /\ tally' \in [Pumps -> TallyType] /\ \A q \in Pumps : q # p => tally'[q] = tally[q]
      /\ tally'[p].heard = Head(queue[p]).stage
      /\ tally'[p].stage = tally[p].stage /\ tally'[p].made = tally[p].made
  <2> DEFINE heard == Head(queue[p]).stage
  <2>1. tally \in [Pumps -> TallyType]
    BY DEF TypeOK, TallyType
  <2>2. heard \in 0 .. Stages
    BY <1>1 DEF Reports
  <2>3. tally' = [tally EXCEPT ![p].heard = heard]
    BY DEF PumpReport
  <2> HIDE DEF heard
  <2>4. /\ tally' \in [Pumps -> TallyType] /\ \A q \in Pumps : q # p => tally'[q] = tally[q]
        /\ tally'[p].heard = heard
        /\ tally'[p].stage = tally[p].stage /\ tally'[p].made = tally[p].made
    BY <2>1, <2>2, <2>3 DEF TallyType
  <2> QED
    BY <2>4 DEF heard
<1>6. TypeOK'
  BY <1>3, <1>4, <1>5 DEF TypeOK, PumpReport, PumpType, TallyType
<1> QED
  BY <1>3, <1>4, <1>5, <1>6 DEF PumpReport, Untouched

\* A pump that goes on, stopped, ended or with all said.
LEMMA GoesOn ==
  ASSUME TypeOK, NEW p \in Pumps, NEW pc \in {"waiting", "sending", "closing", "ended"}, Goto(p, pc),
         UNCHANGED <<patient, active, selecting, latest, rx, queue, answer, saved, told, tally>>
  PROVE  TypeOK' /\ \A q \in Pumps : q # p => Untouched(q)
<1>1. pump' \in [Pumps -> PumpType] /\ \A q \in Pumps : q # p => pump'[q] = pump[q]
  BY Moves
<1> QED
  BY <1>1 DEF TypeOK, PumpType, Untouched

\* A reply heard.
LEMMA HeardDone ==
  ASSUME TypeOK, NEW p \in Pumps, NEW s \in Seq(Signals), NEW next \in {"sending", "closing"},
         Say(p, s, next), saved' \subseteq Pumps, \A q \in Pumps : q # p => (q \in saved' <=> q \in saved),
         UNCHANGED <<patient, active, selecting, latest, rx, queue, answer, told, tally>>
  PROVE  TypeOK' /\ \A q \in Pumps : q # p => Untouched(q)
<1>1. pump' \in [Pumps -> PumpType] /\ \A q \in Pumps : q # p => pump'[q] = pump[q]
  BY Says
<1> QED
  BY <1>1 DEF TypeOK, PumpType, Untouched

\* A signal sent.
LEMMA TellDone ==
  ASSUME TypeOK, NEW p \in Pumps, Tell(p), patient' = patient
  PROVE  /\ TypeOK' /\ rx' = rx /\ \A q \in Pumps : q # p => Untouched(q)
         /\ told'[p] = Append(told[p], Head(pump[p].out)) /\ pump'[p].out = Tail(pump[p].out)
         /\ pump'[p].pc = "telling" /\ pump'[p].next = pump[p].next
         /\ pump'[p].kind = pump[p].kind /\ pump'[p].gallery = pump[p].gallery
         /\ pump'[p].stop = pump[p].stop
         /\ queue' = queue /\ answer' = answer /\ tally' = tally /\ saved' = saved
<1>1. Head(pump[p].out) \in Signals /\ Tail(pump[p].out) \in Seq(Signals)
  BY TypesOf, Shrinks DEF Tell
<1>2. Append(told[p], Head(pump[p].out)) \in Seq(Signals)
  BY <1>1, TypesOf, Grows
<1>3. /\ told' \in [Pumps -> Seq(Signals)] /\ told'[p] = Append(told[p], Head(pump[p].out))
      /\ \A q \in Pumps : q # p => told'[q] = told[q]
  BY <1>2 DEF TypeOK, Tell
<1>4. /\ pump' \in [Pumps -> PumpType] /\ \A q \in Pumps : q # p => pump'[q] = pump[q]
      /\ pump'[p].out = Tail(pump[p].out) /\ pump'[p].pc = "telling"
      /\ pump'[p].next = pump[p].next
      /\ pump'[p].kind = pump[p].kind /\ pump'[p].gallery = pump[p].gallery
      /\ pump'[p].stop = pump[p].stop
  BY <1>1 DEF TypeOK, Tell, PumpType
<1>5. TypeOK'
  BY <1>3, <1>4 DEF TypeOK, Tell, PumpType
<1> QED
  BY <1>3, <1>4, <1>5 DEF Tell, Untouched

-----------------------------------------------------------------------------
(* What a step keeps.                                                      *)

\* Nothing is told to the client of an operation.
LEMMA ToldKept ==
  ASSUME NEW p \in Pumps, told'[p] = told[p]
  PROVE  /\ HasVerdict(p)' <=> HasVerdict(p)
         /\ Passed(p)' = Passed(p)
         /\ Concluded(p)' <=> Concluded(p)
  BY DEF HasVerdict, Passed, Concluded

\* An operation the step does not touch.
LEMMA UntouchedKept ==
  ASSUME NEW q \in Pumps, PumpInv(q), Concluded(q), Untouched(q), Has(rx', q) => Has(rx, q)
  PROVE  PumpInv(q)' /\ Concluded(q)'
<1>1. /\ HasVerdict(q)' <=> HasVerdict(q)
      /\ Passed(q)' = Passed(q)
      /\ Concluded(q)' <=> Concluded(q)
  BY ToldKept DEF Untouched
<1>2. Commanded(q)'
  BY DEF PumpInv, Commanded, Untouched
<1>3. Outspoken(q)'
  BY <1>1 DEF PumpInv, Outspoken, Untouched
<1>4. Truthful(q)'
  BY DEF PumpInv, Truthful, Untouched, Decided, Correct, InGallery
<1>5. Counted(q)'
  BY <1>1 DEF PumpInv, Counted, Untouched, Chained, Whole, Pending
<1> QED
  BY <1>1, <1>2, <1>3, <1>4, <1>5 DEF PumpInv

\* Before the last answer is told, no signal of a verdict is, nor is a print saved.
LEMMA Undecided ==
  ASSUME NEW p \in Pumps, Truthful(p), ~Decided(p)
  PROVE  /\ \A i \in DOMAIN told[p] : told[p][i].name \notin Judging
         /\ \A i \in DOMAIN pump[p].out : pump[p].out[i].name \notin Judging
         /\ p \notin saved
  BY DEF Truthful

\* What says nothing of a verdict is true.
LEMMA NothingJudged ==
  ASSUME NEW p \in Pumps, p \notin saved',
         \A i \in DOMAIN told'[p] : told'[p][i].name \notin Judging,
         \A i \in DOMAIN pump'[p].out : pump'[p].out[i].name \notin Judging
  PROVE  Truthful(p)'
  BY DEF Truthful, Judging

\* No stage is told of, and none is in what the pump had or has to say.
LEMMA NoneCounted ==
  ASSUME NEW p \in Pumps, Counted(p), told'[p] = told[p], tally'[p] = tally[p], queue'[p] = queue[p],
         \A i \in DOMAIN pump[p].out : pump[p].out[i].name # "enroll-stage-passed",
         \A i \in DOMAIN pump'[p].out : pump'[p].out[i].name # "enroll-stage-passed",
         Whole(p)' => Whole(p),
         \/ pump'[p].kind = pump[p].kind
            /\ (pump'[p].pc \in {"unused", "sending"} =>
                    pump'[p].kind # "enroll" \/ pump[p].pc \in {"unused", "sending"})
         \/ pump[p].pc = "unused"
  PROVE  Counted(p)'
<1>1. Passed(p)' = Passed(p)
  BY ToldKept
<1>2. Chained(p)'
  BY DEF Counted, Chained, Whole
<1>3. Pending(p) = 0 /\ Pending(p)' = 0
  BY OnePassing DEF Pending
<1> QED
  BY <1>1, <1>2, <1>3 DEF Counted

\* Of a patient client's operations the earlier ones stay silent.
LEMMA SerialKept ==
  ASSUME TypeOK, Serial, patient' = patient, active' = active, latest' = latest,
         selecting' \subseteq selecting,
         \A q \in Pumps : /\ pump[q].pc = "unused" => pump'[q].pc = "unused"
                          /\ pump[q].pc \in {"closing", "ended"} => pump'[q].pc \in {"closing", "ended"}
                          /\ HasVerdict(q) => HasVerdict(q)'
  PROVE  Serial'
<1>1. \A q \in Pumps : Silent(q) => Silent(q)'
  BY DEF Silent
<1> QED
  BY <1>1 DEF Serial, TypeOK

-----------------------------------------------------------------------------
(* The client's calls.                                                     *)

\* A stop leaves the pump all it has and says.
LEMMA StopKeeps ==
  ASSUME SignalsInv, Stop, patient' = patient
  PROVE  SignalsInv'
<1>0. PICK p \in Pumps : p = active
  BY StopDone DEF SignalsInv
<1>1. /\ TypeOK' /\ rx' = rx
      /\ \A q \in Pumps : q # p => Untouched(q)
      /\ p \in Pumps
      /\ pump'[p].pc = pump[p].pc /\ pump'[p].kind = pump[p].kind
      /\ pump'[p].gallery = pump[p].gallery /\ pump'[p].out = pump[p].out
      /\ pump'[p].next = pump[p].next /\ (pump[p].stop => pump'[p].stop)
      /\ told' = told /\ queue' = queue /\ answer' = answer /\ tally' = tally /\ saved' = saved
  BY <1>0, StopDone DEF SignalsInv
<1>2. /\ HasVerdict(p)' <=> HasVerdict(p)
      /\ Passed(p)' = Passed(p)
      /\ Concluded(p)' <=> Concluded(p)
  BY <1>1, ToldKept
<1>3. PumpInv(p) /\ Concluded(p)
  BY <1>1 DEF SignalsInv
<1>4. PumpInv(p)'
  <2>1. Commanded(p)'
    BY <1>1, <1>3 DEF PumpInv, Commanded
  <2>2. Outspoken(p)'
    BY <1>1, <1>2, <1>3 DEF PumpInv, Outspoken
  <2>3. Truthful(p)'
    BY <1>1, <1>3 DEF PumpInv, Truthful, Decided, Correct, InGallery
  <2>4. Counted(p)'
    BY <1>1, <1>2, <1>3 DEF PumpInv, Counted, Chained, Whole, Pending
  <2> QED
    BY <2>1, <2>2, <2>3, <2>4 DEF PumpInv
<1>5. Serial'
  <2>1. \A q \in Pumps : /\ pump'[q].pc = pump[q].pc
                         /\ HasVerdict(q) => HasVerdict(q)'
    BY <1>1, ToldKept DEF Untouched
  <2>2. \A q \in Pumps : Silent(q) => Silent(q)'
    BY <2>1 DEF Silent, Stop
  <2>3. p = latest
    BY <1>0, <1>1 DEF SignalsInv, Serial, Stop
  <2>4. patient => Silent(p)'
    BY <1>0, <1>1, <2>1 DEF Silent, Stop
  <2> QED
    BY <1>1, <2>1, <2>2, <2>3, <2>4 DEF SignalsInv, Serial, Stop
<1> QED
  BY <1>1, <1>2, <1>3, <1>4, <1>5, UntouchedKept DEF SignalsInv

\* A start finds the slot free: what was started before has had its say.
LEMMA BeginKeeps ==
  ASSUME SignalsInv, NEW p \in Pumps, pump[p].pc = "unused", patient => selecting = {},
         NEW k \in Kinds, NEW g \in Seq(Fingers), k = "verify" => g # <<>>, BeginOp(p, k, g),
         patient' = patient, selecting' \subseteq selecting \cup {p},
         UNCHANGED <<rx, queue, answer, saved, told, tally>>
  PROVE  SignalsInv'
<1>1. /\ TypeOK' /\ rx' = rx
      /\ \A q \in Pumps : q # p => Untouched(q)
      /\ pump'[p].pc = "sending" /\ pump'[p].out = <<>>
      /\ pump'[p].kind = k /\ pump'[p].gallery = g
      /\ told' = told /\ queue' = queue /\ answer' = answer /\ tally' = tally /\ saved' = saved
  BY BeginDone DEF SignalsInv
<1>2. /\ HasVerdict(p)' <=> HasVerdict(p)
      /\ Concluded(p)' <=> Concluded(p)
  BY <1>1, ToldKept
<1>3. PumpInv(p) /\ Concluded(p)
  BY DEF SignalsInv
<1>4. PumpInv(p)'
  <2>1. Commanded(p)'
    <3>1. answer[p] = NoAnswer /\ ~Has(rx, p)
      BY <1>3 DEF PumpInv, Commanded
    <3> QED
      BY <1>1, <3>1 DEF Commanded, NoAnswer
  <2>2. Outspoken(p)'
    BY <1>1, <1>2, <1>3 DEF PumpInv, Outspoken
  <2>3. Truthful(p)'
    <3>1. ~Decided(p)
      BY DEF Decided
    <3> QED
      BY <1>1, <1>3, <3>1, Undecided, NothingJudged DEF PumpInv
  <2>4. Counted(p)'
    <3>1. pump[p].out = <<>>
      BY <1>3 DEF PumpInv, Outspoken
    <3>2. Whole(p)' => Whole(p)
      BY <1>1 DEF Whole
    <3> QED
      BY <1>1, <1>3, <3>1, <3>2, NoneCounted DEF PumpInv
  <2> QED
    BY <2>1, <2>2, <2>3, <2>4 DEF PumpInv
<1>5. Serial'
  <2>1. active' = p /\ latest' = p /\ p # None
    BY SignalsAssumption DEF BeginOp
  <2>2. \A q \in Pumps : q # p => (HasVerdict(q)' <=> HasVerdict(q)) /\ pump'[q].pc = pump[q].pc
    BY <1>1, ToldKept DEF Untouched
  <2>3. ASSUME patient, NEW q \in Pumps, q # p
        PROVE  Silent(q)'
    <3>1. q \notin selecting /\ q \notin selecting'
      BY <2>3
    <3>2. CASE q # latest
      BY <2>2, <2>3, <3>1, <3>2 DEF SignalsInv, Serial, Silent
    <3>3. CASE q = latest /\ active = None
      BY <2>2, <2>3, <3>1, <3>3, SignalsAssumption DEF SignalsInv, Serial, Silent
    <3>4. CASE q = latest /\ active # None
      BY <2>2, <2>3, <3>1, <3>4 DEF SignalsInv, Serial, Silent, BeginOp, SlotFree, Finished
    <3> QED
      BY <3>2, <3>3, <3>4
  <2> QED
    BY <2>1, <2>3 DEF Serial
<1> QED
  BY <1>1, <1>2, <1>3, <1>4, <1>5, UntouchedKept DEF SignalsInv

\* The selected finger may be told after the verdict, and belongs to none.
LEMMA TellSelectedKeeps ==
  ASSUME SignalsInv, NEW p \in Pumps, TellSelected(p), patient' = patient
  PROVE  SignalsInv'
<1>1. /\ TypeOK' /\ rx' = rx
      /\ \A q \in Pumps : q # p => Untouched(q)
      /\ \E f \in Fingers \cup {None} : told'[p] = Append(told[p], Naming("finger-selected", f))
      /\ pump' = pump /\ queue' = queue /\ answer' = answer /\ tally' = tally /\ saved' = saved
  BY SelectedDone DEF SignalsInv, PumpInv
<1>2. PICK f \in Fingers \cup {None} : told'[p] = Append(told[p], Naming("finger-selected", f))
  BY <1>1
<1> DEFINE e == Naming("finger-selected", f)
           n == Len(told[p])
<1>3. e \in Signals /\ e.name = "finger-selected" /\ ~e.done
  BY SignalTyped DEF Names
<1>4. told[p] \in Seq(Signals)
  BY TypesOf DEF SignalsInv
<1>5. /\ n \in Nat /\ DOMAIN told[p] = 1 .. n /\ DOMAIN told'[p] = 1 .. n + 1
      /\ \A i \in 1 .. n : told'[p][i] = told[p][i]
      /\ told'[p][n + 1] = e
  BY <1>2, <1>3, <1>4, Grows
<1>6. Passed(p)' = Passed(p)
  BY <1>2, <1>3, <1>4, PassesCounted DEF Passed, Passes
<1>7. HasVerdict(p)' <=> HasVerdict(p)
  <2>1. \A i \in 1 .. n + 1 : i \in 1 .. n \/ i = n + 1
    BY <1>5
  <2>2. \A i \in 1 .. n : i \in 1 .. n + 1
    BY <1>5
  <2> QED
    BY <1>3, <1>5, <2>1, <2>2 DEF HasVerdict
<1>8. PumpInv(p) /\ Concluded(p)
  BY DEF SignalsInv
<1> HIDE DEF e, n
<1>9. PumpInv(p)'
  <2>1. Commanded(p)'
    BY <1>1, <1>8 DEF PumpInv, Commanded
  <2>2. Outspoken(p)'
    BY <1>1, <1>7, <1>8 DEF PumpInv, Outspoken
  <2>3. Truthful(p)'
    <3>1. \A i \in DOMAIN told'[p] :
            \/ i \in DOMAIN told[p] /\ told'[p][i] = told[p][i]
            \/ i = n + 1 /\ told'[p][i].name = "finger-selected"
      BY <1>3, <1>5
    <3>2. Decided(p)' <=> Decided(p)
      BY <1>1 DEF Decided
    <3>3. \A i \in DOMAIN told'[p] : told'[p][i].name \in Judging
            => Decided(p) /\ Correct(p, told'[p][i])
      BY <1>8, <3>1 DEF PumpInv, Truthful, Judging
    <3>4. \A i \in DOMAIN told'[p] : told'[p][i].name = "verify-match" =>
            \E j \in 1 .. i - 1 : told'[p][j].name = "finger-matched"
      <4>1. ASSUME NEW i \in 1 .. n, told[p][i].name = "verify-match"
            PROVE  \E j \in 1 .. i - 1 : told'[p][j].name = "finger-matched"
        <5>1. PICK j \in 1 .. i - 1 : told[p][j].name = "finger-matched"
          BY <1>5, <1>8, <4>1 DEF PumpInv, Truthful
        <5> QED
          BY <1>5, <5>1
      <4> QED
        BY <1>5, <3>1, <4>1
    <3>5. \A j \in DOMAIN told[p] : j \in DOMAIN told'[p] /\ told'[p][j] = told[p][j]
      BY <1>5
    <3> QED
      BY <1>1, <1>8, <3>2, <3>3, <3>4, <3>5 DEF PumpInv, Truthful, Correct, InGallery
  <2>4. Counted(p)'
    BY <1>1, <1>6, <1>8 DEF PumpInv, Counted, Chained, Whole, Pending
  <2> QED
    BY <2>1, <2>2, <2>3, <2>4 DEF PumpInv
<1>10. Concluded(p)'
  BY <1>3, <1>5, <1>8 DEF Concluded
<1>11. Serial'
  <2>1. \A q \in Pumps : HasVerdict(q) => HasVerdict(q)'
    BY <1>1, <1>7, ToldKept DEF Untouched
  <2> QED
    BY <1>1, <2>1, SerialKept DEF SignalsInv, TellSelected
<1> QED
  BY <1>1, <1>8, <1>9, <1>10, <1>11, UntouchedKept DEF SignalsInv

-----------------------------------------------------------------------------
(* The actor and the sensor.                                               *)

\* A capture adds its stage and, while the channel has room, its report.
LEMMA CaptureKeeps ==
  ASSUME SignalsInv, NEW p \in Pumps, NEW retry \in BOOLEAN, Capture(p, retry), patient' = patient
  PROVE  SignalsInv'
<1> DEFINE stage == IF retry THEN tally[p].stage ELSE tally[p].stage + 1
           report == [stage |-> stage, retry |-> retry]
           n == Len(queue[p])
           room == ~(Finished(p) \/ n >= Cap)
<1>1. /\ TypeOK' /\ rx' = rx /\ report \in Reports
      /\ \A q \in Pumps : q # p => Untouched(q)
      /\ tally'[p].stage = stage /\ tally'[p].made = tally[p].made + 1
      /\ tally'[p].heard = tally[p].heard
      /\ queue'[p] = IF room THEN Append(queue[p], report) ELSE queue[p]
      /\ pump' = pump /\ told' = told /\ answer' = answer /\ saved' = saved
  BY CaptureDone DEF SignalsInv
<1>2. PumpInv(p) /\ Concluded(p)
  BY DEF SignalsInv
<1>3. /\ Has(rx, p) /\ answer[p] = NoAnswer /\ pump[p].kind = "enroll"
      /\ pump[p].pc \notin {"unused", "sending"} /\ p \notin saved
  <2>1. Has(rx, p)
    <3>1. rx \in Seq(Pumps) /\ rx # <<>> /\ Head(rx) = p
      BY DEF SignalsInv, TypeOK, Capture, Served
    <3> QED
      BY <3>1, CommandTaken DEF SignalsInv
  <2>2. answer[p] = NoAnswer /\ pump[p].pc \notin {"unused", "sending"}
    BY <1>2, <2>1 DEF PumpInv, Commanded
  <2>3. p \notin saved
    BY <1>2, <2>2 DEF PumpInv, Truthful, Decided
  <2> QED
    BY <2>1, <2>2, <2>3 DEF Capture
<1>4. /\ HasVerdict(p)' <=> HasVerdict(p)
      /\ Passed(p)' = Passed(p)
      /\ Concluded(p)' <=> Concluded(p)
  BY <1>1, ToldKept
<1>5. /\ tally[p].stage \in Nat /\ tally[p].heard \in Nat /\ tally[p].made \in Nat /\ Stages \in Nat
      /\ Cap \in Nat /\ Cap >= 1 /\ queue[p] \in Seq(Reports) /\ n \in Nat
  BY TypesOf, SignalsAssumption DEF SignalsInv, TallyType
<1>6. report.stage = stage /\ stage = tally[p].stage + Gain(report)
  BY <1>5 DEF Gain
<1>7. Len(Append(queue[p], report)) = n + 1
  BY <1>1, <1>5, Grows
<1> HIDE DEF stage, report, n
<1>8. Whole(p)' => Whole(p) /\ room
  BY <1>1, <1>2, <1>3, <1>5 DEF Whole, PumpInv, Counted, Chained, Finished, n
<1>9. Chained(p)'
  <2>1. /\ Chain(tally[p].heard, Append(queue[p], report), stage)
        /\ Tight(tally[p].heard, queue[p], tally[p].stage) =>
             Tight(tally[p].heard, Append(queue[p], report), stage)
        /\ Chain(tally[p].heard, queue[p], stage)
    BY <1>1, <1>2, <1>5, <1>6, ChainGrows DEF PumpInv, Counted, Chained
  <2>2. n <= tally[p].made /\ (Whole(p) => Tight(tally[p].heard, queue[p], tally[p].stage))
    BY <1>2 DEF PumpInv, Counted, Chained, n
  <2>3. CASE room
    BY <1>1, <1>5, <1>7, <1>8, <2>1, <2>2, <2>3 DEF Chained
  <2>4. CASE ~room
    BY <1>1, <1>5, <1>8, <2>1, <2>2, <2>4 DEF Chained, n
  <2> QED
    BY <2>3, <2>4
<1>10. PumpInv(p)'
  <2>1. Commanded(p)'
    BY <1>1, <1>2, <1>3 DEF PumpInv, Commanded, NoAnswer
  <2>2. Outspoken(p)'
    BY <1>1, <1>2, <1>4 DEF PumpInv, Outspoken
  <2>3. Truthful(p)'
    <3>1. ~Decided(p)
      BY <1>3 DEF Decided
    <3> QED
      BY <1>1, <1>2, <3>1, Undecided, NothingJudged DEF PumpInv
  <2>4. Counted(p)'
    <3>1. Whole(p)' => Whole(p)
      BY <1>1, <1>3, <1>5 DEF Whole
    <3>2. Pending(p)' = Pending(p)
      BY <1>1 DEF Pending
    <3> QED
      BY <1>1, <1>2, <1>3, <1>4, <1>9, <3>1, <3>2 DEF PumpInv, Counted
  <2> QED
    BY <2>1, <2>2, <2>3, <2>4 DEF PumpInv
<1>11. Serial'
  <2>1. \A q \in Pumps : HasVerdict(q) => HasVerdict(q)'
    BY <1>1 DEF HasVerdict
  <2> QED
    BY <1>1, <2>1, SerialKept DEF SignalsInv, Capture
<1> QED
  BY <1>1, <1>2, <1>4, <1>10, <1>11, UntouchedKept DEF SignalsInv

\* A reply takes its command from the actor; no signal speaks of it yet.
LEMMA ReplyKeeps ==
  ASSUME SignalsInv, NEW p \in Pumps, NEW outcome \in Answers, Reply(p, outcome), patient' = patient,
         outcome # NoAnswer,
         outcome.class = "print" => pump[p].kind = "enroll" /\ tally[p].stage = Stages
  PROVE  SignalsInv'
<1>1. /\ TypeOK' /\ Once(rx') /\ Has(rx, p) /\ ~Has(rx', p)
      /\ \A q \in Pumps : Has(rx', q) => Has(rx, q)
      /\ \A q \in Pumps : q # p => Untouched(q)
      /\ answer'[p] = outcome
      /\ pump' = pump /\ queue' = queue /\ told' = told /\ tally' = tally /\ saved' = saved
  BY ReplyDone DEF SignalsInv
<1>2. PumpInv(p) /\ Concluded(p)
  BY DEF SignalsInv
<1>3. answer[p] = NoAnswer /\ pump[p].pc \notin {"unused", "sending"}
  BY <1>1, <1>2 DEF PumpInv, Commanded
<1>4. /\ HasVerdict(p)' <=> HasVerdict(p)
      /\ Passed(p)' = Passed(p)
      /\ Concluded(p)' <=> Concluded(p)
  BY <1>1, ToldKept
<1>5. PumpInv(p)'
  <2>1. Commanded(p)'
    BY <1>1, <1>2, <1>3 DEF PumpInv, Commanded
  <2>2. Outspoken(p)'
    BY <1>1, <1>2, <1>3, <1>4 DEF PumpInv, Outspoken, NoAnswer
  <2>3. Truthful(p)'
    <3>1. ~Decided(p)
      BY <1>3 DEF Decided
    <3> QED
      BY <1>1, <1>2, <3>1, Undecided, NothingJudged DEF PumpInv
  <2>4. Counted(p)'
    BY <1>1, <1>2, <1>4 DEF PumpInv, Counted, Chained, Whole, Pending
  <2> QED
    BY <2>1, <2>2, <2>3, <2>4 DEF PumpInv
<1>6. Serial'
  <2>1. \A q \in Pumps : HasVerdict(q) => HasVerdict(q)'
    BY <1>1 DEF HasVerdict
  <2> QED
    BY <1>1, <2>1, SerialKept DEF SignalsInv, Reply
<1> QED
  BY <1>1, <1>2, <1>4, <1>5, <1>6, UntouchedKept DEF SignalsInv

\* Whatever the sensor does.
LEMMA SensorKeeps ==
  ASSUME SignalsInv, NEW p \in Pumps, SensorStep(p), patient' = patient
  PROVE  SignalsInv'
<1> USE OutcomeTyped DEF Classes
<1>1. CASE \E retry \in BOOLEAN : Capture(p, retry)
  BY <1>1, CaptureKeeps
<1>7. CASE Lost(p)
  BY <1>7, ReplyKeeps DEF Lost
<1>2. CASE EnrollDone(p)
  BY <1>2, ReplyKeeps DEF EnrollDone
<1>3. CASE Compared(p)
  <2>1. CASE Reply(p, Outcome("unmatched", 0))
    BY <2>1, ReplyKeeps
  <2>2. CASE \E i \in 1 .. IF pump[p].kind = "verify" THEN 1 ELSE Len(pump[p].gallery) + 1 :
               Reply(p, Outcome("matched", i))
    <3>1. Len(pump[p].gallery) \in Nat
      BY TypesOf DEF SignalsInv
    <3>2. PICK i \in Nat : Reply(p, Outcome("matched", i))
      BY <2>2, <3>1
    <3> QED
      BY <3>2, ReplyKeeps
  <2> QED
    BY <1>3, <2>1, <2>2 DEF Compared
<1>4. CASE RetryScan(p)
  BY <1>4, ReplyKeeps DEF RetryScan
<1>5. CASE Fails(p)
  BY <1>5, ReplyKeeps DEF Fails
<1>6. CASE Cancelled(p)
  BY <1>6, ReplyKeeps DEF Cancelled
<1> QED
  BY <1>1, <1>2, <1>3, <1>4, <1>5, <1>6, <1>7 DEF SensorStep

-----------------------------------------------------------------------------
(* The pumps.                                                              *)

\* A command is sent with a clean slate.
LEMMA SendKeeps ==
  ASSUME SignalsInv, NEW p \in Pumps, PumpSend(p), patient' = patient
  PROVE  SignalsInv'
<1>1. /\ TypeOK' /\ Once(rx') /\ \A q \in Pumps : q # p => Untouched(q)
      /\ \A q \in Pumps : q # p => (Has(rx', q) => Has(rx, q))
      /\ pump'[p].pc = "waiting" /\ pump'[p].kind = pump[p].kind
      /\ pump'[p].gallery = pump[p].gallery /\ pump'[p].out = pump[p].out
      /\ queue'[p] = <<>> /\ answer'[p] = NoAnswer
      /\ tally'[p].stage = 0 /\ tally'[p].made = 0 /\ tally'[p].heard = 0
      /\ told' = told /\ saved' = saved
  BY SendDone DEF SignalsInv, PumpInv
<1>2. PumpInv(p) /\ Concluded(p) /\ pump[p].pc = "sending"
  BY DEF SignalsInv, PumpSend
<1>3. /\ HasVerdict(p)' <=> HasVerdict(p)
      /\ Passed(p)' = Passed(p)
      /\ Concluded(p)' <=> Concluded(p)
  BY <1>1, ToldKept
<1>4. PumpInv(p)'
  <2>1. Commanded(p)'
    BY <1>1, <1>2 DEF PumpInv, Commanded, NoAnswer
  <2>2. Outspoken(p)'
    BY <1>1, <1>2, <1>3 DEF PumpInv, Outspoken
  <2>3. Truthful(p)'
    <3>1. ~Decided(p)
      BY <1>2 DEF Decided
    <3> QED
      BY <1>1, <1>2, <3>1, Undecided, NothingJudged DEF PumpInv
  <2>4. Counted(p)'
    <3>1. tally[p].heard = 0 /\ pump[p].out = <<>>
      BY <1>2 DEF PumpInv, Counted, Outspoken
    <3>2. Pending(p) = 0 /\ Pending(p)' = 0
      BY <1>1, <3>1, OnePassing DEF Pending
    <3>3. Chained(p)'
      BY <1>1 DEF Chained, Chain, Tight
    <3> QED
      BY <1>1, <1>2, <1>3, <3>1, <3>2, <3>3, SignalsAssumption DEF PumpInv, Counted
  <2> QED
    BY <2>1, <2>2, <2>3, <2>4 DEF PumpInv
<1>5. Serial'
  <2>1. \A q \in Pumps : HasVerdict(q) => HasVerdict(q)'
    BY <1>1 DEF HasVerdict
  <2>2. \A q \in Pumps : q # p => pump'[q] = pump[q]
    BY <1>1 DEF Untouched
  <2> QED
    BY <1>2, <2>1, <2>2, SerialKept DEF SignalsInv, PumpSend
<1> QED
  BY <1>1, <1>2, <1>3, <1>4, <1>5, UntouchedKept DEF SignalsInv

\* The stage of a report is told, or kept for the result.
LEMMA ReportKeeps ==
  ASSUME SignalsInv, NEW p \in Pumps, PumpReport(p), patient' = patient
  PROVE  SignalsInv'
<1> DEFINE report == Head(queue[p])
           n == Len(queue[p])
<1>1. /\ TypeOK' /\ rx' = rx /\ \A q \in Pumps : q # p => Untouched(q)
      /\ pump'[p].pc = "telling" /\ pump'[p].next = "waiting"
      /\ pump'[p].out = EnrollProgress(report)
      /\ pump'[p].kind = pump[p].kind /\ pump'[p].gallery = pump[p].gallery
      /\ queue'[p] = Tail(queue[p])
      /\ tally'[p].heard = report.stage
      /\ tally'[p].stage = tally[p].stage /\ tally'[p].made = tally[p].made
      /\ told' = told /\ answer' = answer /\ saved' = saved
  BY ReportDone DEF SignalsInv
<1>2. PumpInv(p) /\ Concluded(p) /\ pump[p].pc = "waiting" /\ queue[p] # <<>>
  BY DEF SignalsInv, PumpReport
<1>3. /\ HasVerdict(p)' <=> HasVerdict(p)
      /\ Passed(p)' = Passed(p)
      /\ Concluded(p)' <=> Concluded(p)
  BY <1>1, ToldKept
<1>4. /\ tally[p].stage \in Nat /\ tally[p].heard \in 0 .. Stages /\ tally[p].made \in Nat
      /\ Stages \in Nat /\ Stages >= 1 /\ queue[p] \in Seq(Reports) /\ Len(queue[p]) \in Nat
  BY TypesOf, SignalsAssumption DEF SignalsInv, TallyType
<1>5. /\ report = queue[p][1] /\ report \in Reports
      /\ Tail(queue[p]) \in Seq(Reports) /\ Len(Tail(queue[p])) = Len(queue[p]) - 1
  BY <1>2, <1>4, Shrinks
<1>6. /\ report.stage \in 0 .. Stages /\ report.retry \in BOOLEAN
      /\ \/ pump'[p].out = <<Passing>> /\ ~report.retry /\ report.stage < Stages
         \/ pump'[p].out = <<Signal("enroll-retry", FALSE)>> /\ report.retry
         \/ pump'[p].out = <<>> /\ ~report.retry /\ report.stage = Stages
  BY <1>1, <1>5, ProgressTyped
<1>7. Gain(report) = IF report.retry THEN 0 ELSE 1
  BY DEF Gain
<1> HIDE DEF report
<1>8. Whole(p)' => Whole(p)
  BY <1>1, <1>2 DEF Whole
<1>9. /\ Chain(report.stage, Tail(queue[p]), tally[p].stage)
      /\ report.stage >= tally[p].heard + Gain(report)
      /\ Whole(p) => /\ Tight(report.stage, Tail(queue[p]), tally[p].stage)
                     /\ report.stage = tally[p].heard + Gain(report)
  BY <1>2, <1>4, <1>5, ChainShrinks DEF PumpInv, Counted, Chained
<1>10. Chained(p)'
  <2>1. Len(queue[p]) <= tally[p].made
    BY <1>2 DEF PumpInv, Counted, Chained
  <2> QED
    BY <1>1, <1>4, <1>5, <1>8, <1>9, <2>1 DEF Chained
<1>11. pump[p].out = <<>> /\ Pending(p) = 0
  BY <1>2, OnePassing DEF PumpInv, Outspoken, Pending
<1>12. pump[p].kind = "enroll"
  BY <1>2 DEF PumpInv, Counted
<1>13. /\ Len(pump'[p].out) <= 2
       /\ \A i \in DOMAIN pump'[p].out :
            /\ pump'[p].out[i].name \in {"enroll-stage-passed", "enroll-retry"} /\ ~pump'[p].out[i].done
            /\ pump'[p].out[i].name = "enroll-stage-passed" => pump'[p].out = <<Passing>>
  <2> DEFINE r == Signal("enroll-retry", FALSE)
  <2>1. r \in Signals /\ r.name = "enroll-retry" /\ ~r.done /\ Passing \in Signals /\ ~Passing.done
        /\ Passing.name = "enroll-stage-passed"
    BY SignalTyped DEF Names
  <2> HIDE DEF r
  <2>2. CASE pump'[p].out = <<Passing>>
    BY <2>1, <2>2, Single
  <2>3. CASE pump'[p].out = <<r>>
    BY <2>1, <2>3, Single
  <2>4. CASE pump'[p].out = <<>>
    BY <2>4
  <2> QED
    BY <1>6, <2>2, <2>3, <2>4 DEF r
<1>14. PumpInv(p)'
  <2>1. Commanded(p)'
    BY <1>1, <1>2, <1>12 DEF PumpInv, Commanded
  <2>2. Outspoken(p)'
    BY <1>1, <1>2, <1>3, <1>13 DEF PumpInv, Outspoken
  <2>3. Truthful(p)'
    <3>1. ~Decided(p)
      BY <1>2 DEF Decided
    <3>2. \A i \in DOMAIN pump'[p].out : pump'[p].out[i].name \notin Judging
      BY <1>13 DEF Judging
    <3> QED
      BY <1>1, <1>2, <3>1, <3>2, Undecided, NothingJudged DEF PumpInv
  <2>4. Counted(p)'
    <3>1. /\ Passed(p) \in Nat /\ Passed(p) <= tally[p].heard /\ Passed(p) < Stages
          /\ Whole(p) => \/ Passed(p) = tally[p].heard
                         \/ tally[p].heard = Stages /\ Passed(p) = Stages - 1
      BY <1>2, <1>11 DEF PumpInv, Counted
    <3>2. Pending(p)' = IF pump'[p].out = <<Passing>> THEN 1 ELSE 0
      BY DEF Pending
    <3>3. <<Signal("enroll-retry", FALSE)>> # <<Passing>> /\ <<>> # <<Passing>>
      BY OnePassing, SignalTyped DEF Names
    <3>4. /\ Passed(p) + Pending(p)' <= report.stage
          /\ Passed(p) + Pending(p)' < Stages
          /\ Whole(p) => \/ Passed(p) + Pending(p)' = report.stage
                         \/ report.stage = Stages /\ Passed(p) + Pending(p)' = Stages - 1
      <4>1. CASE pump'[p].out = <<Passing>> /\ ~report.retry /\ report.stage < Stages
        BY <1>4, <1>6, <1>7, <1>9, <3>1, <3>2, <4>1
      <4>2. CASE pump'[p].out = <<Signal("enroll-retry", FALSE)>> /\ report.retry
        BY <1>4, <1>6, <1>7, <1>9, <3>1, <3>2, <3>3, <4>2
      <4>3. CASE pump'[p].out = <<>> /\ ~report.retry /\ report.stage = Stages
        BY <1>4, <1>6, <1>7, <1>9, <3>1, <3>2, <3>3, <4>3
      <4> QED
        BY <1>6, <4>1, <4>2, <4>3
    <3> QED
      BY <1>1, <1>3, <1>8, <1>10, <1>12, <1>13, <3>1, <3>4 DEF Counted
  <2> QED
    BY <2>1, <2>2, <2>3, <2>4 DEF PumpInv
<1>15. Serial'
  <2>1. \A q \in Pumps : HasVerdict(q) => HasVerdict(q)'
    BY <1>1 DEF HasVerdict
  <2>2. \A q \in Pumps : q # p => pump'[q] = pump[q]
    BY <1>1 DEF Untouched
  <2> QED
    BY <1>2, <2>1, <2>2, SerialKept DEF SignalsInv, PumpReport
<1> QED
  BY <1>1, <1>2, <1>3, <1>14, <1>15, UntouchedKept DEF SignalsInv

\* A pump that is stopped or gets no reply closes without a word.
LEMMA StoppedKeeps ==
  ASSUME SignalsInv, NEW p \in Pumps, PumpStopped(p) \/ PumpUnanswered(p), patient' = patient
  PROVE  SignalsInv'
<1>1. /\ TypeOK' /\ \A q \in Pumps : q # p => Untouched(q)
      /\ pump'[p].pc = "closing" /\ pump'[p].kind = pump[p].kind
      /\ pump'[p].gallery = pump[p].gallery /\ pump'[p].stop = pump[p].stop
      /\ pump'[p].out = pump[p].out
  BY GoesOn, Moves DEF SignalsInv, PumpStopped, PumpUnanswered
<1>2. PumpInv(p) /\ Concluded(p) /\ pump[p].pc = "waiting"
      /\ (pump[p].stop \/ answer[p].class = "gone")
  BY DEF SignalsInv, PumpStopped, PumpUnanswered
<1>3. rx' = rx /\ queue' = queue /\ answer' = answer /\ saved' = saved /\ told' = told /\ tally' = tally
  BY DEF PumpStopped, PumpUnanswered
<1>4. /\ HasVerdict(p)' <=> HasVerdict(p)
      /\ Concluded(p)' <=> Concluded(p)
  BY <1>3, ToldKept
<1>5. pump[p].out = <<>>
  BY <1>2 DEF PumpInv, Outspoken
<1>6. PumpInv(p)'
  <2>1. Commanded(p)'
    BY <1>1, <1>2, <1>3 DEF PumpInv, Commanded
  <2>2. Outspoken(p)'
    BY <1>1, <1>2, <1>3, <1>4, <1>5 DEF PumpInv, Outspoken
  <2>3. Truthful(p)'
    <3>1. ~Decided(p)
      BY <1>2 DEF Decided
    <3> QED
      BY <1>1, <1>2, <1>3, <3>1, Undecided, NothingJudged DEF PumpInv
  <2>4. Counted(p)'
    <3>1. Whole(p)' => Whole(p)
      BY <1>1, <1>2, <1>3 DEF Whole
    <3> QED
      BY <1>1, <1>2, <1>3, <1>5, <3>1, NoneCounted DEF PumpInv
  <2> QED
    BY <2>1, <2>2, <2>3, <2>4 DEF PumpInv
<1>7. Serial'
  <2>1. \A q \in Pumps : HasVerdict(q) => HasVerdict(q)'
    BY <1>3 DEF HasVerdict
  <2>2. \A q \in Pumps : q # p => pump'[q] = pump[q]
    BY <1>1 DEF Untouched
  <2> QED
    BY <1>2, <2>1, <2>2, SerialKept DEF SignalsInv, PumpStopped, PumpUnanswered
<1> QED
  BY <1>1, <1>2, <1>3, <1>4, <1>6, <1>7, UntouchedKept DEF SignalsInv

\* A verdict: one status, or two of a match, the last of them done.
LEMMA VerdictKeeps ==
  ASSUME SignalsInv, NEW p \in Pumps, pump[p].pc = "waiting", answer[p] # NoAnswer,
         NEW s \in Seq(Signals), Say(p, s, "closing"),
         saved' \subseteq Pumps, \A q \in Pumps : q # p => (q \in saved' <=> q \in saved),
         p \in saved' => answer[p].class = "print",
         UNCHANGED <<patient, active, selecting, latest, rx, queue, answer, told, tally>>,
         Len(s) \in {1, 2}, \A i \in DOMAIN s : s[i].done <=> i = Len(s),
         \A i \in DOMAIN s :
            /\ s[i].name \in Judging
            /\ s[i].name = "enroll-completed" => p \in saved'
            /\ s[i].name \in {"enroll-failed", "enroll-error"} => p \notin saved'
            /\ s[i].name = "finger-matched" =>
                  InGallery(p) /\ s[i].finger = pump[p].gallery[answer[p].index]
            /\ s[i].name = "verify-match" => i = 2 /\ s[1].name = "finger-matched"
            /\ s[i].name = "verify-no-match" => ~InGallery(p)
  PROVE  SignalsInv'
<1>1. /\ TypeOK' /\ \A q \in Pumps : q # p => Untouched(q)
      /\ pump'[p].pc = "telling" /\ pump'[p].out = s /\ pump'[p].next = "closing"
      /\ pump'[p].kind = pump[p].kind /\ pump'[p].gallery = pump[p].gallery
  BY HeardDone, Says DEF SignalsInv
<1>2. PumpInv(p) /\ Concluded(p)
  BY DEF SignalsInv
<1>3. /\ HasVerdict(p)' <=> HasVerdict(p)
      /\ Concluded(p)' <=> Concluded(p)
  BY ToldKept
<1>4. ~Decided(p) /\ ~HasVerdict(p) /\ pump[p].out = <<>>
  BY <1>2 DEF Decided, PumpInv, Outspoken
<1>5. DOMAIN s = 1 .. Len(s) /\ s # <<>>
  OBVIOUS
<1>6. PumpInv(p)'
  <2>1. Commanded(p)'
    BY <1>1, <1>2 DEF PumpInv, Commanded
  <2>2. Outspoken(p)'
    <3>1. \A i \in DOMAIN s : s[i].name # "finger-selected"
      BY DEF Judging
    <3> QED
      BY <1>1, <1>3, <1>4, <1>5, <3>1 DEF Outspoken
  <2>3. Truthful(p)'
    <3>1. \A i \in DOMAIN told[p] : told[p][i].name \notin Judging
      BY <1>2, <1>4, Undecided DEF PumpInv
    <3>2. Decided(p)'
      BY <1>1 DEF Decided
    <3>3. \A i \in DOMAIN s : Correct(p, s[i])'
      BY <1>1 DEF Correct, InGallery
    <3> QED
      BY <1>1, <3>1, <3>2, <3>3 DEF Truthful, Judging
  <2>4. Counted(p)'
    <3>1. Whole(p)' => Whole(p)
      BY <1>1 DEF Whole
    <3>2. \A i \in DOMAIN s : s[i].name # "enroll-stage-passed"
      BY DEF Judging
    <3> QED
      BY <1>1, <1>2, <1>4, <3>1, <3>2, NoneCounted DEF PumpInv
  <2> QED
    BY <2>1, <2>2, <2>3, <2>4 DEF PumpInv
<1>7. Serial'
  <2>1. \A q \in Pumps : HasVerdict(q) => HasVerdict(q)'
    BY DEF HasVerdict
  <2>2. \A q \in Pumps : q # p => pump'[q] = pump[q]
    BY <1>1 DEF Untouched
  <2> QED
    BY <2>1, <2>2, SerialKept DEF SignalsInv
<1> QED
  BY <1>1, <1>2, <1>3, <1>6, <1>7, UntouchedKept DEF SignalsInv

\* The result of an enrolment, its print saved first.
LEMMA EnrollReplyKeeps ==
  ASSUME SignalsInv, NEW p \in Pumps, EnrollReply(p), patient' = patient
  PROVE  SignalsInv'
<1>1. p \notin saved
  BY Undecided DEF SignalsInv, PumpInv, Decided, EnrollReply, Answered
<1>2. saved \subseteq Pumps
  BY DEF SignalsInv, TypeOK
<1>3. ASSUME NEW n \in {"enroll-completed", "enroll-failed", "enroll-error"},
             Say(p, <<Signal(n, TRUE)>>, "closing"),
             saved' \in {saved, saved \cup {p}},
             n = "enroll-completed" => p \in saved',
             p \in saved' => n = "enroll-completed" /\ answer[p].class = "print"
      PROVE  SignalsInv'
  <2> DEFINE s == <<Signal(n, TRUE)>>
  <2>1. n \in Names
    BY DEF Names
  <2>2. Signal(n, TRUE) \in Signals /\ Signal(n, TRUE).name = n /\ Signal(n, TRUE).done = TRUE
    BY <2>1, SignalTyped
  <2>3. s \in Seq(Signals) /\ Len(s) = 1 /\ DOMAIN s = {1} /\ s[1].name = n /\ s[1].done
    BY <2>2, Single
  <2>4. Say(p, s, "closing")
    BY <1>3
  <2> HIDE DEF s
  <2>5. \A i \in DOMAIN s :
            /\ s[i].name \in Judging
            /\ s[i].name = "enroll-completed" => p \in saved'
            /\ s[i].name \in {"enroll-failed", "enroll-error"} => p \notin saved'
            /\ s[i].name = "finger-matched" =>
                  InGallery(p) /\ s[i].finger = pump[p].gallery[answer[p].index]
            /\ s[i].name = "verify-match" => i = 2 /\ s[1].name = "finger-matched"
            /\ s[i].name = "verify-no-match" => ~InGallery(p)
    BY <1>3, <2>3 DEF Judging
  <2>6. saved' \subseteq Pumps /\ \A q \in Pumps : q # p => (q \in saved' <=> q \in saved)
    BY <1>2, <1>3
  <2>7. \A i \in DOMAIN s : s[i].done <=> i = Len(s)
    BY <2>3
  <2>8. pump[p].pc = "waiting" /\ answer[p] # NoAnswer
        /\ UNCHANGED <<patient, active, selecting, latest, rx, queue, answer, told, tally>>
    BY DEF EnrollReply, Answered
  <2> QED
    BY <1>3, <2>3, <2>4, <2>5, <2>6, <2>7, <2>8, VerdictKeeps
<1>4. CASE answer[p].class = "print" /\ saved' = saved \cup {p}
           /\ Say(p, <<Signal("enroll-completed", TRUE)>>, "closing")
  BY <1>3, <1>4
<1>5. CASE saved' = saved /\ Say(p, <<Signal("enroll-failed", TRUE)>>, "closing")
  BY <1>1, <1>3, <1>5
<1>6. CASE saved' = saved /\ Say(p, <<Signal("enroll-error", TRUE)>>, "closing")
  BY <1>1, <1>3, <1>6
<1> QED
  BY <1>4, <1>5, <1>6 DEF EnrollReply

\* The result of a verify, or a retry of it.
LEMMA VerifyReplyKeeps ==
  ASSUME SignalsInv, NEW p \in Pumps, VerifyReply(p), patient' = patient
  PROVE  SignalsInv'
<1>1. PumpInv(p) /\ Concluded(p) /\ pump[p].pc = "waiting" /\ pump[p].kind # "enroll"
      /\ answer[p] # NoAnswer /\ TypeOK
  BY DEF SignalsInv, VerifyReply, Answered
<1>2. ~Decided(p) /\ ~HasVerdict(p) /\ pump[p].out = <<>>
  BY <1>1 DEF Decided, PumpInv, Outspoken
<1>3. p \notin saved /\ saved \subseteq Pumps
  BY <1>1, <1>2, Undecided DEF PumpInv, TypeOK
<1>4. /\ saved' = saved /\ patient' = patient
      /\ UNCHANGED <<active, selecting, latest, rx, queue, answer, told, tally>>
  BY DEF VerifyReply
<1>5. CASE answer[p].class # "retry" /\ Say(p, Verdict(p), "closing")
  <2>1. CASE MatchedFinger(p) # None
    <3> DEFINE m == Naming("finger-matched", MatchedFinger(p))
               e == Signal("verify-match", TRUE)
               s == <<m, e>>
    <3>1. /\ m \in Signals /\ m.name = "finger-matched" /\ ~m.done /\ m.finger = MatchedFinger(p)
          /\ e \in Signals /\ e.name = "verify-match" /\ e.done
      <4>1. MatchedFinger(p) \in Fingers \cup {None} /\ "finger-matched" \in Names /\ "verify-match" \in Names
        BY <1>1, MatchTyped DEF Names
      <4> HIDE DEF m, e
      <4>2. m \in Signals /\ m.name = "finger-matched" /\ m.done = FALSE /\ m.finger = MatchedFinger(p)
        BY <4>1, SignalTyped DEF m
      <4>3. e \in Signals /\ e.name = "verify-match" /\ e.done = TRUE
        BY <4>1, SignalTyped DEF e
      <4> QED
        BY <4>2, <4>3
    <3>2. InGallery(p) /\ MatchedFinger(p) = pump[p].gallery[answer[p].index]
      BY <2>1 DEF MatchedFinger, InGallery
    <3> HIDE DEF m, e
    <3>3. s \in Seq(Signals) /\ Len(s) = 2 /\ DOMAIN s = {1, 2} /\ s[1] = m /\ s[2] = e
      BY <3>1, Pair
    <3>4. Verdict(p) = s
      BY <2>1 DEF Verdict, m, e
    <3> HIDE DEF s
    <3>5. \A i \in DOMAIN s :
            /\ s[i].name \in {"finger-matched", "verify-match"}
            /\ s[i].name = "finger-matched" => s[i].finger = MatchedFinger(p)
            /\ s[i].name = "verify-match" => i = 2 /\ s[1].name = "finger-matched"
            /\ s[i].done <=> i = Len(s)
      BY <3>1, <3>3
    <3>6. \A i \in DOMAIN s :
            /\ s[i].name \in Judging
            /\ s[i].name = "enroll-completed" => p \in saved'
            /\ s[i].name \in {"enroll-failed", "enroll-error"} => p \notin saved'
            /\ s[i].name = "finger-matched" =>
                  InGallery(p) /\ s[i].finger = pump[p].gallery[answer[p].index]
            /\ s[i].name = "verify-match" => i = 2 /\ s[1].name = "finger-matched"
            /\ s[i].name = "verify-no-match" => ~InGallery(p)
      BY <3>2, <3>5 DEF Judging
    <3>7. Say(p, s, "closing")
      BY <1>5, <3>4
    <3> QED
      BY <1>1, <1>3, <1>4, <3>3, <3>5, <3>6, <3>7, VerdictKeeps
  <2>2. CASE MatchedFinger(p) = None
    <3> DEFINE n == IF answer[p].class = "error" THEN "verify-error" ELSE "verify-no-match"
               s == <<Signal(n, TRUE)>>
    <3>1. /\ s \in Seq(Signals) /\ Len(s) = 1 /\ DOMAIN s = {1}
          /\ s[1].name = n /\ s[1].done
      <4>1. n \in Names
        BY DEF Names
      <4> HIDE DEF n
      <4>2. Signal(n, TRUE) \in Signals /\ Signal(n, TRUE).name = n /\ Signal(n, TRUE).done = TRUE
        BY <4>1, SignalTyped
      <4> QED
        BY <4>2, Single
    <3>2. Verdict(p) = s
      BY <2>2 DEF Verdict
    <3>3. ~InGallery(p)
      <4>1. InGallery(p) => pump[p].gallery[answer[p].index] \in Fingers
        BY <1>1, TypesOf DEF InGallery
      <4> QED
        BY <2>2, <4>1, SignalsAssumption DEF MatchedFinger, InGallery
    <3>4. Say(p, s, "closing") /\ n \in {"verify-error", "verify-no-match"}
      BY <1>5, <3>2
    <3> HIDE DEF s, n
    <3>5. \A i \in DOMAIN s :
            /\ s[i].name \in Judging
            /\ s[i].name = "enroll-completed" => p \in saved'
            /\ s[i].name \in {"enroll-failed", "enroll-error"} => p \notin saved'
            /\ s[i].name = "finger-matched" =>
                  InGallery(p) /\ s[i].finger = pump[p].gallery[answer[p].index]
            /\ s[i].name = "verify-match" => i = 2 /\ s[1].name = "finger-matched"
            /\ s[i].name = "verify-no-match" => ~InGallery(p)
      <4>1. \A i \in DOMAIN s : s[i].name \in {"verify-error", "verify-no-match"}
        BY <3>1, <3>4
      <4>2. ASSUME NEW n0 \in {"verify-error", "verify-no-match"}
            PROVE  /\ n0 \in Judging
                   /\ n0 \notin {"enroll-completed", "enroll-failed", "enroll-error",
                                 "finger-matched", "verify-match"}
        BY DEF Judging
      <4> QED
        BY <3>3, <4>1, <4>2
    <3>6. \A i \in DOMAIN s : s[i].done <=> i = Len(s)
      BY <3>1
    <3> QED
      BY <1>1, <1>3, <1>4, <3>1, <3>4, <3>5, <3>6, VerdictKeeps
  <2> QED
    BY <2>1, <2>2
<1>6. CASE answer[p].class = "retry" /\ Say(p, VerifyRetry, "sending")
  <2>1. /\ VerifyRetry \in Seq(Signals) /\ Len(VerifyRetry) = 1 /\ DOMAIN VerifyRetry = {1}
        /\ VerifyRetry[1].name = "verify-retry" /\ VerifyRetry[1].done = FALSE
    <3>1. /\ Signal("verify-retry", FALSE) \in Signals
          /\ Signal("verify-retry", FALSE).name = "verify-retry"
          /\ Signal("verify-retry", FALSE).done = FALSE
      BY SignalTyped DEF Names
    <3> QED
      BY <3>1, Single DEF VerifyRetry
  <2>2. /\ TypeOK' /\ \A q \in Pumps : q # p => Untouched(q)
        /\ pump'[p].pc = "telling" /\ pump'[p].out = VerifyRetry /\ pump'[p].next = "sending"
        /\ pump'[p].kind = pump[p].kind /\ pump'[p].gallery = pump[p].gallery
    BY <1>1, <1>3, <1>6, <2>1, HeardDone, Says DEF VerifyReply
  <2>3. UNCHANGED <<patient, active, selecting, latest, rx, queue, answer, saved, told, tally>>
    BY DEF VerifyReply
  <2>4. /\ HasVerdict(p)' <=> HasVerdict(p)
        /\ Concluded(p)' <=> Concluded(p)
    BY <2>3, ToldKept
  <2>5. PumpInv(p)'
    <3>1. Commanded(p)'
      BY <1>1, <2>2, <2>3 DEF PumpInv, Commanded
    <3>2. Outspoken(p)'
      <4>1. pump'[p].out[1].done = FALSE /\ pump'[p].out[1].name = "verify-retry"
            /\ DOMAIN pump'[p].out = {1} /\ Len(pump'[p].out) = 1
        BY <2>1, <2>2
      <4>2. /\ Len(pump'[p].out) <= 2
            /\ \A i \in DOMAIN pump'[p].out :
                 /\ pump'[p].out[i].done <=> (pump'[p].next = "closing" /\ i = Len(pump'[p].out))
                 /\ pump'[p].out[i].name # "finger-selected"
        BY <2>2, <4>1
      <4> QED
        BY <1>2, <2>2, <2>4, <4>2 DEF Outspoken
    <3>3. Truthful(p)'
      <4>1. \A i \in DOMAIN VerifyRetry : VerifyRetry[i].name \notin Judging
        BY <2>1 DEF Judging
      <4> QED
        BY <1>1, <1>2, <2>2, <2>3, <4>1, Undecided, NothingJudged DEF PumpInv
    <3>4. Counted(p)'
      <4>1. Whole(p)' => Whole(p)
        BY <1>1, <2>2, <2>3 DEF Whole
      <4> QED
        BY <1>1, <1>2, <2>1, <2>2, <2>3, <4>1, NoneCounted DEF PumpInv
    <3> QED
      BY <3>1, <3>2, <3>3, <3>4 DEF PumpInv
  <2>6. Serial'
    <3>1. \A q \in Pumps : HasVerdict(q) => HasVerdict(q)'
      BY <2>3 DEF HasVerdict
    <3>2. \A q \in Pumps : q # p => pump'[q] = pump[q]
      BY <2>2 DEF Untouched
    <3> QED
      BY <1>1, <2>2, <2>3, <3>1, <3>2, SerialKept DEF SignalsInv
  <2> QED
    BY <1>1, <2>2, <2>3, <2>4, <2>5, <2>6, UntouchedKept DEF SignalsInv
<1> QED
  BY <1>5, <1>6 DEF VerifyReply

\* A signal leaves what the pump has to say and is told.
LEMMA TellKeeps ==
  ASSUME SignalsInv, NEW p \in Pumps, Tell(p), patient' = patient
  PROVE  SignalsInv'
<1> DEFINE e == Head(pump[p].out)
           n == Len(told[p])
           m == Len(pump[p].out)
<1>1. /\ TypeOK' /\ rx' = rx /\ \A q \in Pumps : q # p => Untouched(q)
      /\ told'[p] = Append(told[p], e) /\ pump'[p].out = Tail(pump[p].out)
      /\ pump'[p].pc = "telling" /\ pump'[p].next = pump[p].next
      /\ pump'[p].kind = pump[p].kind /\ pump'[p].gallery = pump[p].gallery
      /\ pump'[p].stop = pump[p].stop
      /\ queue' = queue /\ answer' = answer /\ tally' = tally /\ saved' = saved
  BY TellDone DEF SignalsInv
<1>2. PumpInv(p) /\ Concluded(p) /\ pump[p].pc = "telling" /\ pump[p].out # <<>>
  BY DEF SignalsInv, Tell
<1>3. told[p] \in Seq(Signals) /\ pump[p].out \in Seq(Signals)
  BY TypesOf DEF SignalsInv
<1>4. /\ m \in Nat /\ m >= 1 /\ m <= 2 /\ DOMAIN pump[p].out = 1 .. m /\ e = pump[p].out[1]
      /\ e \in Signals
      /\ Len(Tail(pump[p].out)) = m - 1 /\ DOMAIN Tail(pump[p].out) = 1 .. m - 1
      /\ \A i \in 1 .. m - 1 : Tail(pump[p].out)[i] = pump[p].out[i + 1]
      /\ Tail(pump[p].out) \in Seq(Signals)
  BY <1>2, <1>3, Shrinks DEF PumpInv, Outspoken
<1>5. /\ n \in Nat /\ DOMAIN told[p] = 1 .. n /\ DOMAIN told'[p] = 1 .. n + 1
      /\ \A i \in 1 .. n : told'[p][i] = told[p][i]
      /\ told'[p][n + 1] = e
  BY <1>1, <1>3, <1>4, Grows
<1>6. Passed(p)' = IF e.name = "enroll-stage-passed" THEN Passed(p) + 1 ELSE Passed(p)
  <2>1. Passed(p) = Passes(told[p]) /\ Passed(p)' = Passes(told'[p])
    BY DEF Passed, Passes
  <2> QED
    BY <1>1, <1>3, <1>4, <2>1, PassesCounted
<1> HIDE DEF e, n, m
<1>7. /\ ~HasVerdict(p) /\ \A i \in 1 .. n : ~told[p][i].done
      /\ HasVerdict(p)' <=> e.done
  <2>1. ~HasVerdict(p)
    BY <1>2 DEF PumpInv, Outspoken
  <2>2. \A i \in 1 .. n : ~told[p][i].done
    BY <1>5, <2>1 DEF HasVerdict
  <2>3. \A i \in DOMAIN told'[p] : told'[p][i].done <=> i = n + 1 /\ e.done
    BY <1>5, <2>2
  <2>4. n + 1 \in DOMAIN told'[p]
    BY <1>5
  <2>5. HasVerdict(p)' <=> e.done
    BY <2>3, <2>4 DEF HasVerdict
  <2> QED
    BY <2>1, <2>2, <2>5
<1>8. e.done <=> (pump[p].next = "closing" /\ m = 1)
  <2>1. 1 \in DOMAIN pump[p].out /\ (1 = m <=> m = 1)
    BY <1>4
  <2> QED
    BY <1>2, <1>4, <2>1 DEF PumpInv, Outspoken, m
<1>9. pump'[p].out = <<>> <=> m = 1
  <2>1. \A t \in Seq(Signals) : t = <<>> <=> Len(t) = 0
    OBVIOUS
  <2> QED
    BY <1>1, <1>4, <2>1
<1>10. \A i \in 1 .. m - 1 : i + 1 \in 1 .. m /\ pump'[p].out[i] = pump[p].out[i + 1]
  BY <1>1, <1>4
<1>11. /\ DOMAIN pump'[p].out = 1 .. m - 1 /\ Len(pump'[p].out) = m - 1
       /\ DOMAIN pump[p].out = 1 .. m /\ Len(pump[p].out) = m
  BY <1>1, <1>4 DEF m
<1>12. PumpInv(p)'
  <2>1. Commanded(p)'
    BY <1>1, <1>2 DEF PumpInv, Commanded
  <2>2. Outspoken(p)'
    <3>1. \A i \in DOMAIN pump'[p].out :
            /\ pump'[p].out[i].done <=> (pump'[p].next = "closing" /\ i = Len(pump'[p].out))
            /\ pump'[p].out[i].name # "finger-selected"
      <4>1. ASSUME NEW i \in 1 .. m - 1
            PROVE  /\ pump[p].out[i + 1].done <=> (pump[p].next = "closing" /\ i + 1 = m)
                   /\ pump[p].out[i + 1].name # "finger-selected"
                   /\ i + 1 = m <=> i = m - 1
        BY <1>2, <1>4, <1>10, <1>11 DEF PumpInv, Outspoken
      <4> QED
        BY <1>1, <1>10, <1>11, <4>1
    <3> QED
      BY <1>1, <1>2, <1>4, <1>7, <1>8, <1>9, <1>11, <3>1 DEF PumpInv, Outspoken
  <2>3. Truthful(p)'
    <3>1. Decided(p)' <=> Decided(p)
      BY <1>1, <1>2 DEF Decided
    <3>2. e.name \in Judging => Decided(p) /\ Correct(p, e)
      BY <1>2, <1>4 DEF PumpInv, Truthful
    <3>3. \A i \in DOMAIN told'[p] :
            told'[p][i].name \in Judging => Decided(p) /\ Correct(p, told'[p][i])
      <4>1. ASSUME NEW i \in 1 .. n, told[p][i].name \in Judging
            PROVE  Decided(p) /\ Correct(p, told[p][i])
        BY <1>2, <1>5, <4>1 DEF PumpInv, Truthful
      <4>2. ASSUME NEW i \in 1 .. n + 1, told'[p][i].name \in Judging
            PROVE  Decided(p) /\ Correct(p, told'[p][i])
        <5>1. CASE i = n + 1
          BY <1>5, <3>2, <4>2, <5>1
        <5>2. CASE i \in 1 .. n
          BY <1>5, <4>1, <4>2, <5>2
        <5> QED
          BY <1>5, <5>1, <5>2
      <4> QED
        BY <1>5, <4>2
    <3>4. \A i \in DOMAIN pump'[p].out :
            pump'[p].out[i].name \in Judging => Decided(p) /\ Correct(p, pump'[p].out[i])
      BY <1>2, <1>10, <1>11 DEF PumpInv, Truthful
    <3>5. \A i \in DOMAIN told'[p] : told'[p][i].name = "verify-match" =>
            \E j \in 1 .. i - 1 : told'[p][j].name = "finger-matched"
      <4>1. ASSUME NEW i \in 1 .. n, told[p][i].name = "verify-match"
            PROVE  \E j \in 1 .. i - 1 : told'[p][j].name = "finger-matched"
        <5>1. PICK j \in 1 .. i - 1 : told[p][j].name = "finger-matched"
          BY <1>2, <1>5, <4>1 DEF PumpInv, Truthful
        <5> QED
          BY <1>5, <5>1
      <4>2. ASSUME e.name = "verify-match"
            PROVE  \E j \in 1 .. n : told'[p][j].name = "finger-matched"
        <5>1. \E j \in DOMAIN told[p] : told[p][j].name = "finger-matched"
          BY <1>2, <1>4, <4>2 DEF PumpInv, Truthful
        <5> QED
          BY <1>5, <5>1
      <4> QED
        BY <1>5, <4>1, <4>2
    <3>6. \A i \in DOMAIN pump'[p].out : pump'[p].out[i].name = "verify-match" =>
            i = 1 /\ \E j \in DOMAIN told'[p] : told'[p][j].name = "finger-matched"
      <4>1. ASSUME NEW i \in 1 .. m - 1, pump[p].out[i + 1].name = "verify-match"
            PROVE  i = 1 /\ e.name = "finger-matched"
        <5>1. i + 1 \in DOMAIN pump[p].out /\ i + 1 # 1 /\ (i + 1 = 2 => i = 1)
          BY <1>4, <1>11
        <5> QED
          BY <1>2, <1>4, <4>1, <5>1 DEF PumpInv, Truthful
      <4>2. e.name = "finger-matched" => \E j \in DOMAIN told'[p] : told'[p][j].name = "finger-matched"
        BY <1>5
      <4>3. ASSUME NEW i \in 1 .. m - 1, pump'[p].out[i].name = "verify-match"
            PROVE  i = 1 /\ \E j \in DOMAIN told'[p] : told'[p][j].name = "finger-matched"
        <5>1. pump[p].out[i + 1].name = "verify-match"
          BY <1>10, <4>3
        <5> QED
          BY <4>1, <4>2, <5>1
      <4> QED
        BY <1>11, <4>3
    <3>7. p \in saved' => answer'[p].class = "print" /\ Decided(p)'
      BY <1>1, <1>2, <3>1 DEF PumpInv, Truthful
    <3> QED
      BY <1>1, <3>1, <3>3, <3>4, <3>5, <3>6, <3>7 DEF Truthful, Correct, InGallery
  <2>4. Counted(p)'
    <3>1. Chained(p)'
      BY <1>1, <1>2 DEF PumpInv, Counted, Chained, Whole
    <3>2. \A i \in DOMAIN pump'[p].out : pump'[p].out[i].name # "enroll-stage-passed"
      <4>1. ASSUME NEW i \in 1 .. m - 1
            PROVE  pump[p].out[i + 1].name # "enroll-stage-passed"
        <5>1. i + 1 \in DOMAIN pump[p].out /\ m # 1
          BY <1>4, <1>11
        <5>2. pump[p].out # <<Passing>>
          BY <1>11, <5>1, OnePassing
        <5> QED
          BY <1>2, <5>1, <5>2 DEF PumpInv, Counted
      <4> QED
        BY <1>10, <1>11, <4>1
    <3>3. Pending(p)' = 0
      BY <3>2, OnePassing DEF Pending
    <3>4. Pending(p) = IF e.name = "enroll-stage-passed" THEN 1 ELSE 0
      <4>1. CASE e.name = "enroll-stage-passed"
        BY <1>2, <1>4, <4>1 DEF PumpInv, Counted, Pending
      <4>2. CASE e.name # "enroll-stage-passed"
        <5>1. pump[p].out # <<Passing>>
          BY <1>4, <4>2, OnePassing
        <5> QED
          BY <4>2, <5>1 DEF Pending
      <4> QED
        BY <4>1, <4>2
    <3>5. Passed(p) \in Nat /\ Passed(p)' + Pending(p)' = Passed(p) + Pending(p) /\ Passed(p)' \in Nat
      BY <1>2, <1>6, <3>3, <3>4 DEF PumpInv, Counted
    <3>6. Whole(p)' <=> Whole(p)
      BY <1>1, <1>2 DEF Whole
    <3> QED
      BY <1>1, <1>2, <3>1, <3>2, <3>5, <3>6 DEF PumpInv, Counted
  <2> QED
    BY <2>1, <2>2, <2>3, <2>4 DEF PumpInv
<1>13. Concluded(p)'
  <2>1. \A i \in 1 .. n + 1 : told'[p][i].done => i = n + 1
    BY <1>5, <1>7
  <2> QED
    BY <1>5, <2>1 DEF Concluded
<1>14. Serial'
  <2>1. \A q \in Pumps : HasVerdict(q) => HasVerdict(q)'
    BY <1>1, <1>7, ToldKept DEF Untouched
  <2>2. \A q \in Pumps : q # p => pump'[q] = pump[q]
    BY <1>1 DEF Untouched
  <2> QED
    BY <1>1, <1>2, <2>1, <2>2, SerialKept DEF SignalsInv, Tell
<1> QED
  BY <1>1, <1>2, <1>12, <1>13, <1>14, UntouchedKept DEF SignalsInv

\* All is said, or the task ends.
LEMMA GoesOnKeeps ==
  ASSUME SignalsInv, NEW p \in Pumps, Told(p) \/ PumpEnd(p), patient' = patient
  PROVE  SignalsInv'
<1> DEFINE pc == IF Told(p) THEN pump[p].next ELSE "ended"
<1>1. PumpInv(p) /\ Concluded(p) /\ TypeOK
  BY DEF SignalsInv
<1>2. /\ Goto(p, pc)
      /\ \/ pump[p].pc = "telling" /\ pump[p].out = <<>> /\ pc = pump[p].next
            /\ pc \in {"waiting", "sending", "closing"}
         \/ pump[p].pc = "closing" /\ pc = "ended"
  BY <1>1, TypesOf DEF Told, PumpEnd, PumpInv, Outspoken, PumpType
<1>3. UNCHANGED <<patient, active, selecting, latest, rx, queue, answer, saved, told, tally>>
  BY DEF Told, PumpEnd
<1> HIDE DEF pc
<1>4. /\ TypeOK' /\ \A q \in Pumps : q # p => Untouched(q)
      /\ pump'[p].pc = pc /\ pump'[p].kind = pump[p].kind
      /\ pump'[p].gallery = pump[p].gallery /\ pump'[p].stop = pump[p].stop
      /\ pump'[p].out = pump[p].out
  BY <1>1, <1>2, <1>3, GoesOn, Moves
<1>5. /\ HasVerdict(p)' <=> HasVerdict(p)
      /\ Concluded(p)' <=> Concluded(p)
  BY <1>3, ToldKept
<1>6. pump[p].out = <<>>
  BY <1>1, <1>2 DEF PumpInv, Outspoken
<1>7. PumpInv(p)'
  <2>1. Commanded(p)'
    BY <1>1, <1>2, <1>3, <1>4 DEF PumpInv, Commanded
  <2>2. Outspoken(p)'
    BY <1>1, <1>2, <1>3, <1>4, <1>5, <1>6 DEF PumpInv, Outspoken
  <2>3. Truthful(p)'
    <3>1. Decided(p) => Decided(p)'
      BY <1>1, <1>2, <1>3, <1>4 DEF PumpInv, Decided
    <3> QED
      BY <1>1, <1>3, <1>4, <1>6, <3>1 DEF PumpInv, Truthful, Correct, InGallery
  <2>4. Counted(p)'
    <3>1. Whole(p)' => Whole(p)
      BY <1>2, <1>3, <1>4 DEF Whole
    <3>2. pc = "sending" => pump[p].kind # "enroll"
      BY <1>1, <1>2 DEF PumpInv, Commanded
    <3>3. pc # "unused"
      BY <1>2
    <3> QED
      BY <1>1, <1>3, <1>4, <1>6, <3>1, <3>2, <3>3, NoneCounted DEF PumpInv
  <2> QED
    BY <2>1, <2>2, <2>3, <2>4 DEF PumpInv
<1>8. Serial'
  <2>1. \A q \in Pumps : HasVerdict(q) => HasVerdict(q)'
    BY <1>3 DEF HasVerdict
  <2>2. \A q \in Pumps : q # p => pump'[q] = pump[q]
    BY <1>4 DEF Untouched
  <2> QED
    BY <1>1, <1>2, <1>3, <1>4, <2>1, <2>2, SerialKept DEF SignalsInv
<1> QED
  BY <1>1, <1>3, <1>4, <1>5, <1>7, <1>8, UntouchedKept DEF SignalsInv

-----------------------------------------------------------------------------
(* Theorems.                                                               *)

\* At first no operation was started and nothing told.
LEMMA SignalsInit == Init => SignalsInv
<1> SUFFICES ASSUME Init PROVE SignalsInv
  OBVIOUS
<1> USE DEF Init
<1>1. TypeOK
  <2>1. Idle \in PumpType
    BY DEF Idle, PumpType, Kinds
  <2>2. Fresh \in TallyType
    BY SignalsAssumption DEF Fresh, TallyType
  <2> QED
    BY <2>1, <2>2 DEF TypeOK, PumpType, TallyType
<1>2. Once(rx) /\ \A p \in Pumps : ~Has(rx, p)
  BY DEF Once, Has
<1>3. ASSUME NEW p \in Pumps
      PROVE  PumpInv(p) /\ Concluded(p)
  <2>1. /\ pump[p] = Idle /\ told[p] = <<>> /\ queue[p] = <<>> /\ tally[p] = Fresh
        /\ answer[p] = NoAnswer /\ p \notin saved
    OBVIOUS
  <2>2. ~HasVerdict(p)
    BY <2>1 DEF HasVerdict
  <2>3. Commanded(p) /\ Outspoken(p)
    BY <1>2, <2>1, <2>2 DEF Commanded, Outspoken, Idle, NoAnswer
  <2>4. Truthful(p)
    BY <2>1 DEF Truthful, Idle
  <2>5. Counted(p)
    <3>1. Passed(p) = 0
      <4>1. {i \in DOMAIN told[p] : told[p][i].name = "enroll-stage-passed"} = {}
        BY <2>1
      <4> QED
        BY <4>1, FS_EmptySet DEF Passed
    <3>2. Pending(p) = 0
      BY <2>1, OnePassing DEF Pending, Idle
    <3>3. Chained(p)
      BY <2>1 DEF Chained, Chain, Tight, Fresh
    <3> QED
      BY <2>1, <3>1, <3>2, <3>3, SignalsAssumption DEF Counted, Idle, Fresh
  <2> QED
    BY <2>1, <2>3, <2>4, <2>5 DEF PumpInv, Concluded
<1>4. Serial
  BY DEF Serial, Silent, Idle
<1> QED
  BY <1>1, <1>2, <1>3, <1>4 DEF SignalsInv

\* Every step keeps the invariant.
LEMMA SignalsStep == SignalsInv /\ [Next]_vars => SignalsInv'
<1> SUFFICES ASSUME SignalsInv, [Next]_vars PROVE SignalsInv'
  OBVIOUS
<1>1. CASE UNCHANGED vars
  <2>1. \A q \in Pumps : Untouched(q) /\ (Has(rx', q) => Has(rx, q))
    BY <1>1 DEF Untouched, vars
  <2>2. \A q \in Pumps : PumpInv(q)' /\ Concluded(q)'
    BY <2>1, UntouchedKept DEF SignalsInv
  <2>3. TypeOK' /\ Once(rx')
    BY <1>1 DEF SignalsInv, TypeOK, vars
  <2>4. Serial'
    <3>1. \A q \in Pumps : HasVerdict(q) => HasVerdict(q)'
      BY <1>1 DEF vars, HasVerdict
    <3> QED
      BY <1>1, <3>1, SerialKept DEF SignalsInv, vars
  <2> QED
    BY <2>2, <2>3, <2>4 DEF SignalsInv
<1>2. CASE Stop /\ patient' = patient
  BY <1>2, StopKeeps
<1>3. ASSUME NEW p \in Pumps, ClientStep(p), patient' = patient
      PROVE  SignalsInv'
  <2>1. CASE EnrollStart(p)
    <3>1. <<>> \in Seq(Fingers) /\ "enroll" \in Kinds
      BY DEF Kinds
    <3> QED
      BY <1>3, <2>1, <3>1, BeginKeeps DEF EnrollStart
  <2>2. CASE \E gallery \in Galleries : VerifyStart(p, gallery)
    <3>1. PICK gallery \in Galleries : VerifyStart(p, gallery)
      BY <2>2
    <3>2. gallery \in Seq(Fingers) /\ gallery # <<>>
      BY SignalsAssumption
    <3>3. (IF Len(gallery) = 1 THEN "verify" ELSE "identify") \in Kinds
      BY DEF Kinds
    <3> QED
      BY <1>3, <3>1, <3>2, <3>3, BeginKeeps DEF VerifyStart
  <2>3. CASE TellSelected(p)
    BY <1>3, <2>3, TellSelectedKeeps
  <2> QED
    BY <1>3, <2>1, <2>2, <2>3 DEF ClientStep
<1>4. ASSUME NEW p \in Pumps, PumpStep(p), patient' = patient
      PROVE  SignalsInv'
  BY <1>4, SendKeeps, ReportKeeps, StoppedKeeps, EnrollReplyKeeps, VerifyReplyKeeps, TellKeeps,
     GoesOnKeeps DEF PumpStep
<1> QED
  BY <1>1, <1>2, <1>3, <1>4, SensorKeeps DEF Next

\* The invariant holds of every behaviour.
THEOREM SignalsSafe == Spec => []SignalsInv
<1> QED
  BY SignalsInit, SignalsStep, PTL DEF Spec

\* An operation ends with its verdict, the one status marked done, and only the
\* late news of the selected finger follows it: a retry is none, and no operation
\* that was not stopped ends without one.
THEOREM SignalsVerdictLast == Spec => []VerdictLast
<1>1. SignalsInv => VerdictLast
  BY DEF SignalsInv, PumpInv, Outspoken, Concluded, VerdictLast, Finished
<1> QED
  BY <1>1, SignalsSafe, PTL

\* What is told of a verdict is so: the enrolment's print is in the store if and
\* only if it is told completed, and the finger named is one the reader matched.
THEOREM SignalsVerdictTrue == Spec => []VerdictTrue
<1>1. ASSUME SignalsInv, NEW p \in Pumps, NEW i \in DOMAIN told[p]
      PROVE  LET name == told[p][i].name
                 inGallery == answer[p].class = "matched" /\ answer[p].index \in DOMAIN pump[p].gallery IN
             /\ name = "enroll-completed" => p \in saved
             /\ name \in {"enroll-failed", "enroll-error"} => p \notin saved
             /\ name = "finger-matched" =>
                   inGallery /\ told[p][i].finger = pump[p].gallery[answer[p].index]
             /\ name = "verify-match" => \E j \in 1 .. i - 1 : told[p][j].name = "finger-matched"
             /\ name = "verify-no-match" => ~inGallery
  BY <1>1 DEF SignalsInv, PumpInv, Truthful, Correct, InGallery, Judging
<1>2. SignalsInv => VerdictTrue
  BY <1>1 DEF VerdictTrue
<1> QED
  BY <1>2, SignalsSafe, PTL

\* The client never counts the last stage, and all the others of an enrolment that
\* completed, unless the channel was full or the reply overtook a report.
THEOREM SignalsStagesTold == Spec => []StagesTold
<1>1. ASSUME SignalsInv, NEW p \in Pumps
      PROVE  /\ Passed(p) < Stages
             /\ p \in saved /\ HasVerdict(p) /\ tally[p].made <= Cap /\ queue[p] = <<>> =>
                   Passed(p) = Stages - 1
  <2>1. /\ Passed(p) \in Nat /\ Pending(p) \in {0, 1} /\ Stages \in Nat
        /\ Passed(p) + Pending(p) < Stages
    BY SignalsAssumption, <1>1 DEF SignalsInv, PumpInv, Counted, Pending
  <2>2. HasVerdict(p) => Pending(p) = 0
    <3>1. HasVerdict(p) => pump[p].out = <<>>
      BY <1>1 DEF SignalsInv, PumpInv, Outspoken
    <3> QED
      BY <3>1, OnePassing DEF Pending
  <2>3. p \in saved => tally[p].stage = Stages
    BY <1>1 DEF SignalsInv, PumpInv, Truthful, Commanded
  <2>4. p \in saved /\ tally[p].made <= Cap /\ queue[p] = <<>> =>
          /\ tally[p].heard = tally[p].stage
          /\ \/ Passed(p) + Pending(p) = tally[p].heard
             \/ tally[p].heard = Stages /\ Passed(p) + Pending(p) = Stages - 1
    BY <1>1 DEF SignalsInv, PumpInv, Counted, Chained, Tight, Whole
  <2> QED
    BY <2>1, <2>2, <2>3, <2>4
<1>2. SignalsInv => StagesTold
  BY <1>1 DEF StagesTold
<1> QED
  BY <1>2, SignalsSafe, PTL

\* To a client that awaits its replies and verdicts only the operation started
\* last speaks, though a stop empties the slot while the pump still runs.
THEOREM SignalsNewsIsCurrent == Spec => NewsIsCurrent
<1> DEFINE News == patient => \A p \in Pumps : told'[p] # told[p] => p = latest
<1>1. SignalsInv /\ [Next]_vars => [News]_told
  <2> SUFFICES ASSUME SignalsInv, [Next]_vars, patient, NEW p \in Pumps, told'[p] # told[p]
               PROVE  p = latest
    OBVIOUS
  <2>1. PICK q \in Pumps : Tell(q) \/ TellSelected(q)
    BY DEF Next, vars, Stop, ClientStep, SensorStep, PumpStep, EnrollStart, VerifyStart, Capture,
           EnrollDone, Compared, RetryScan, Fails, Cancelled, Lost, Reply, PumpSend, PumpReport,
           PumpStopped, PumpUnanswered, EnrollReply, VerifyReply, Told, PumpEnd
  <2>2. told \in [Pumps -> Seq(Signals)]
    BY DEF SignalsInv, TypeOK
  <2>3. p = q
    BY <2>1, <2>2 DEF Tell, TellSelected
  <2>4. ~Silent(p)
    BY <2>1, <2>3 DEF SignalsInv, PumpInv, Outspoken, Silent, Tell, TellSelected
  <2> QED
    BY <2>4 DEF SignalsInv, Serial
<1> QED
  BY <1>1, SignalsSafe, PTL DEF Spec, NewsIsCurrent

=============================================================================
