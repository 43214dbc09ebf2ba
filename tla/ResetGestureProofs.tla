-------------------------- MODULE ResetGestureProofs --------------------------
(***************************************************************************)
(* The safety properties of ResetGesture, for every debounce count, every  *)
(* duration and every length of the buzzer's queue that its assumption     *)
(* admits.                                                                 *)
(*                                                                         *)
(* The debouncer and the double-click detector see counters; the history   *)
(* sees the samples and the levels.  The proof relates the two: Debounced  *)
(* says what the debouncer's counter knows of the samples, ClicksAgree     *)
(* what the detector knows of the clicks.  For the warning, WarningDue     *)
(* bounds when it will be over by what still sounds before it.             *)
(***************************************************************************)
EXTENDS ResetGesture, TLAPS

(* The debouncer's counter is the number of equal samples at the end, as   *)
(* far as they are kept, and its level the last that settled.              *)
Debounced ==
  /\ button.samples <= Len(samples)
  /\ samples # <<>> => button.samples > 0
  /\ \A i \in 1..Len(samples) :
       i > Len(samples) - button.samples => samples[i] = button.candidate
  /\ button.samples < Len(samples) =>
       samples[Len(samples) - button.samples] # button.candidate
  /\ button.stable <=> level = "down"

(* Between gestures the button has been up, or is not up yet.              *)
Rests ==
  /\ phase = "longPress" => rested
  /\ phase = "release" /\ level = "up" => rested

(* In the window every press is seen and the last one is remembered.       *)
ClicksAgree ==
  phase = "window" =>
    /\ ~double
    /\ ~button.stable => armed
    /\ clicks = 0 => lastPress = DoubleClick + 1
    /\ clicks = 1 => lastPress = sinceClick

(* What sounds ends within the time its pattern takes.                     *)
PatternLength(p) == IF p = "startup" THEN 1 ELSE Longest(p)

Sounding ==
  IF Idle THEN remaining = 0
  ELSE remaining > 0 /\ remaining <= PatternLength(playing)

(* The warning is queued at most once, at the front, and only in a gesture *)
(* whose warning has not been heard; one that was cut short by a           *)
(* cancellation is over before the next long press is.                     *)
OneWarning ==
  /\ \A i \in 1..Len(queue) : queue[i] = "warning" =>
       /\ i = 1
       /\ phase \in {"warning", "window", "cancelled"}
       /\ ~warned
       /\ playing # "warning"
  /\ phase = "longPress" /\ playing = "warning" => remaining + count <= Warning

Elapsed == IF phase = "warning" THEN count ELSE WarningWait + count

(* The latest poll, counted from the long press, at which it may begin.    *)
Latest == Window - 4 * Debounce

(* Until the warning has been heard it sounds, or is next, in time.        *)
WarningDue ==
  /\ phase = "longPress" => count <= Hold
  /\ phase = "warning" => count <= WarningWait
  /\ phase = "window" => count <= Window
  /\ phase \in {"warning", "window"} /\ ~warned =>
       \/ playing = "warning" /\ Elapsed + remaining <= Latest + Warning
       \/ queue # <<>> /\ queue[1] = "warning" /\ Elapsed + remaining <= Latest
  /\ phase \in {"marker", "erasing"} => warned

GestureInvariant ==
  /\ GestureTypeOK
  /\ Debounced
  /\ Rests
  /\ ClicksAgree
  /\ DoubleClickCancels
  /\ Sounding
  /\ OneWarning
  /\ WarningDue

-------------------------------------------------------------------------------
(* The debouncer. *)

LEMMA Durations ==
  /\ Debounce \in Nat /\ Debounce > 1
  /\ Hold \in Nat /\ Hold > 0 /\ Window \in Nat /\ DoubleClick \in Nat
  /\ FailureWait \in Nat /\ QueueLength \in Nat /\ QueueLength > 0
  /\ Alert \in Nat /\ Alert > 0 /\ Warning \in Nat /\ Warning > 0
  /\ Cancelled \in Nat /\ Cancelled > 0 /\ Failure \in Nat /\ Failure > 0
  /\ WarningWait = Warning + 1 /\ WarningWait \in Nat
  /\ Warning < Hold
  /\ Alert + 4 * Debounce <= Window
  /\ Cancelled + 4 * Debounce <= Window
  /\ Failure + 4 * Debounce <= Window
BY GestureAssumption

(* t is what is kept of the samples s after one more.                      *)
Kept(s, p, t) ==
  /\ t \in Seq(BOOLEAN)
  /\ Len(s) < Debounce =>
       /\ Len(t) = Len(s) + 1
       /\ \A i \in 1..Len(s) : t[i] = s[i]
       /\ t[Len(s) + 1] = p
  /\ Len(s) = Debounce =>
       /\ Len(t) = Debounce
       /\ \A i \in 1..(Debounce - 1) : t[i] = s[i + 1]
       /\ t[Debounce] = p

LEMMA LastOfAppend ==
  ASSUME NEW s \in Seq(BOOLEAN), NEW p \in BOOLEAN, Len(s) <= Debounce
  PROVE  Kept(s, p, LastOf(Append(s, p)))
<1> DEFINE a == Append(s, p)
<1>1. a \in Seq(BOOLEAN) /\ Len(a) = Len(s) + 1 /\ a[Len(s) + 1] = p
  OBVIOUS
<1>2. \A i \in 1..Len(s) : a[i] = s[i]
  OBVIOUS
<1>3. a # <<>>
  BY <1>1
<1> HIDE DEF a
<1>4. CASE Len(s) < Debounce
  <2>1. LastOf(a) = a
    BY <1>1, <1>4, Durations DEF LastOf
  <2> QED
    BY <2>1, <1>1, <1>2, <1>4, Durations DEF a, Kept
<1>5. CASE Len(s) = Debounce
  <2>1. LastOf(a) = Tail(a)
    BY <1>1, <1>5, Durations DEF LastOf
  <2>2. /\ Tail(a) \in Seq(BOOLEAN) /\ Len(Tail(a)) = Debounce
        /\ \A i \in 1..Debounce : Tail(a)[i] = a[i + 1]
    BY <1>1, <1>3, <1>5, Durations
  <2>3. \A i \in 1..(Debounce - 1) : Tail(a)[i] = s[i + 1]
    BY <2>2, <1>2, <1>5, Durations
  <2>4. Tail(a)[Debounce] = p
    BY <2>2, <1>1, <1>5, Durations
  <2>5. ~(Len(s) < Debounce)
    BY <1>5, Durations
  <2> QED
    BY <2>1, <2>2, <2>3, <2>4, <2>5, Zenon DEF a, Kept
<1> QED
  BY <1>4, <1>5, Durations

(* Two samples that differ, or too few samples, settle nothing.            *)
LEMMA NotSettled ==
  ASSUME NEW s \in Seq(BOOLEAN), NEW old,
         \/ Len(s) # Debounce
         \/ \E i, j \in 1..Len(s) : s[i] # s[j]
  PROVE  Settled(s, old) = old
BY DEF Settled

LEMMA AllSettled ==
  ASSUME NEW s \in Seq(BOOLEAN), NEW old, NEW p \in BOOLEAN,
         Len(s) = Debounce, \A i \in 1..Len(s) : s[i] = p
  PROVE  Settled(s, old) = IF p THEN "down" ELSE "up"
<1>1. 1 \in 1..Len(s)
  BY Durations
<1>2. DOMAIN s = 1..Len(s)
  OBVIOUS
<1> QED
  BY <1>1, <1>2 DEF Settled

ButtonType == [stable : BOOLEAN, candidate : BOOLEAN, samples : 0..Debounce]

LEMMA UpdateButtonEffect ==
  ASSUME button \in ButtonType, NEW p \in BOOLEAN
  PROVE  /\ UpdateButton(button, p) \in ButtonType
         /\ UpdateButton(button, p).candidate = p
         /\ p # button.candidate =>
              /\ UpdateButton(button, p).samples = 1
              /\ UpdateButton(button, p).stable = button.stable
         /\ p = button.candidate /\ button.samples + 1 < Debounce =>
              /\ UpdateButton(button, p).samples = button.samples + 1
              /\ UpdateButton(button, p).stable = button.stable
         /\ p = button.candidate /\ button.samples + 1 >= Debounce =>
              /\ UpdateButton(button, p).samples = Debounce
              /\ UpdateButton(button, p).stable = p
BY Durations DEF UpdateButton, ButtonType

(* One sample keeps the debouncer and the samples in step: Debounce equal  *)
(* samples at the end are what the counter reaches Debounce with.          *)
LEMMA SampleDebounced ==
  ASSUME GestureTypeOK, Debounced, Sample
  PROVE  /\ Debounced'
         /\ button' \in ButtonType
         /\ samples' \in Seq(BOOLEAN) /\ Len(samples') <= Debounce
         /\ level' \in {"up", "down"}
<1>1. PICK p \in BOOLEAN : /\ button' = UpdateButton(button, p)
                           /\ samples' = LastOf(Append(samples, p))
  BY DEF Sample
<1>2. level' = Settled(samples', level)
  BY DEF Sample
<1>3. /\ button \in ButtonType
      /\ samples \in Seq(BOOLEAN) /\ Len(samples) \in Nat /\ Len(samples) <= Debounce
      /\ level \in {"up", "down"}
      /\ button.samples \in Nat /\ button.candidate \in BOOLEAN
      /\ button.stable \in BOOLEAN
  BY Durations DEF GestureTypeOK, ButtonType
<1>4. Kept(samples, p, samples')
  BY <1>1, <1>3, LastOfAppend, Zenon
<1>5. /\ button' \in ButtonType
      /\ button'.candidate = p
      /\ p # button.candidate =>
           /\ button'.samples = 1
           /\ button'.stable = button.stable
      /\ p = button.candidate /\ button.samples + 1 < Debounce =>
           /\ button'.samples = button.samples + 1
           /\ button'.stable = button.stable
      /\ p = button.candidate /\ button.samples + 1 >= Debounce =>
           /\ button'.samples = Debounce
           /\ button'.stable = p
  BY <1>1, <1>3, UpdateButtonEffect
<1>6. Len(samples') <= Debounce /\ Len(samples') \in Nat
  BY <1>3, <1>4, Durations DEF Kept
<1>7. CASE p # button.candidate
  <2>1. CASE samples = <<>>
    <3>1. Len(samples) = 0 /\ Len(samples') = 1 /\ samples'[1] = p
      BY <1>3, <1>4, <2>1, Durations DEF Kept
    <3>2. level' = level
      BY <1>2, <1>4, <3>1, NotSettled, Durations DEF Kept
    <3> QED
      BY <1>3, <1>5, <1>7, <3>1, <3>2, <1>4, <1>6 DEF Debounced, Kept
  <2>2. CASE samples # <<>>
    <3>1. Len(samples) >= 1 /\ samples[Len(samples)] = button.candidate
      BY <1>3, <2>2 DEF Debounced
    <3>2. /\ Len(samples') >= 2
          /\ samples'[Len(samples')] = p
          /\ samples'[Len(samples') - 1] = button.candidate
      BY <1>3, <1>4, <3>1, Durations DEF Kept
    <3>3. level' = level
      BY <1>2, <1>4, <3>2, <1>7, <1>6, NotSettled, Durations DEF Kept
    <3> QED
      BY <1>3, <1>5, <1>7, <3>2, <3>3, <1>4, <1>6 DEF Debounced, Kept
  <2> QED
    BY <2>1, <2>2
<1>8. CASE p = button.candidate /\ button.samples + 1 < Debounce
  <2>1. button.samples + 1 <= Len(samples')
    BY <1>3, <1>4, <1>8, Durations DEF Debounced, Kept
  <2>2. \A i \in 1..Len(samples') :
          i > Len(samples') - (button.samples + 1) => samples'[i] = p
    <3> SUFFICES ASSUME NEW i \in 1..Len(samples'),
                        i > Len(samples') - (button.samples + 1)
                 PROVE  samples'[i] = p
      OBVIOUS
    <3>1. CASE Len(samples) < Debounce
      <4>1. Len(samples') = Len(samples) + 1 /\ samples'[Len(samples) + 1] = p
        BY <1>4, <3>1 DEF Kept
      <4>2. CASE i = Len(samples) + 1
        BY <4>1, <4>2
      <4>3. CASE i # Len(samples) + 1
        <5>1. i \in 1..Len(samples) /\ i > Len(samples) - button.samples
          BY <4>1, <4>3, <1>3
        <5>2. samples'[i] = samples[i] /\ samples[i] = button.candidate
          BY <5>1, <1>4, <3>1 DEF Kept, Debounced
        <5> QED
          BY <5>2, <1>8
      <4> QED
        BY <4>2, <4>3
    <3>2. CASE Len(samples) = Debounce
      <4>1. Len(samples') = Debounce /\ samples'[Debounce] = p
        BY <1>4, <3>2 DEF Kept
      <4>2. CASE i = Debounce
        BY <4>1, <4>2
      <4>3. CASE i # Debounce
        <5>1. /\ i \in 1..(Debounce - 1) /\ i + 1 \in 1..Len(samples)
              /\ i + 1 > Len(samples) - button.samples
          BY <4>1, <4>3, <1>3, <3>2, Durations
        <5>2. samples'[i] = samples[i + 1] /\ samples[i + 1] = button.candidate
          BY <5>1, <1>4, <3>2 DEF Kept, Debounced
        <5> QED
          BY <5>2, <1>8
      <4> QED
        BY <4>2, <4>3
    <3> QED
      BY <3>1, <3>2, <1>3, Durations
  <2>3. button.samples + 1 < Len(samples') =>
          samples'[Len(samples') - (button.samples + 1)] # p
    <3> SUFFICES ASSUME button.samples + 1 < Len(samples')
                 PROVE  samples'[Len(samples') - (button.samples + 1)] # p
      OBVIOUS
    <3>1. CASE Len(samples) < Debounce
      <4>1. /\ Len(samples') = Len(samples) + 1
            /\ Len(samples') - (button.samples + 1) = Len(samples) - button.samples
            /\ Len(samples) - button.samples \in 1..Len(samples)
        <5>1. Len(samples') = Len(samples) + 1
          BY <1>4, <3>1 DEF Kept
        <5> QED
          BY <5>1, <1>3
      <4>2. samples[Len(samples) - button.samples] # p
        BY <4>1, <1>3, <1>8 DEF Debounced
      <4>3. samples'[Len(samples) - button.samples] = samples[Len(samples) - button.samples]
        BY <4>1, <1>4, <3>1 DEF Kept
      <4> QED
        BY <4>1, <4>2, <4>3
    <3>2. CASE Len(samples) = Debounce
      <4>1. /\ Len(samples') = Debounce
            /\ Debounce - (button.samples + 1) \in 1..(Debounce - 1)
            /\ Debounce - (button.samples + 1) + 1 = Debounce - button.samples
        BY <1>3, <1>4, <3>2, Durations DEF Kept
      <4>2. samples[Debounce - button.samples] # p
        BY <4>1, <1>3, <1>8, <3>2, Durations DEF Debounced
      <4>3. samples'[Debounce - (button.samples + 1)] = samples[Debounce - button.samples]
        BY <4>1, <1>4, <3>2 DEF Kept
      <4> QED
        BY <4>1, <4>2, <4>3
    <3> QED
      BY <3>1, <3>2, <1>3, Durations
  <2>4. level' = level
    <3>1. CASE button.samples + 1 < Len(samples')
      <4>1. samples'[Len(samples')] = p
        BY <2>1, <2>2, <1>3, <1>6
      <4>2. /\ Len(samples') - (button.samples + 1) \in 1..Len(samples')
            /\ Len(samples') \in 1..Len(samples')
        BY <3>1, <1>3, <1>6
      <4> QED
        BY <1>2, <1>4, <4>1, <4>2, <2>3, <3>1, NotSettled DEF Kept
    <3>2. CASE button.samples + 1 = Len(samples')
      BY <1>2, <1>4, <1>8, <3>2, NotSettled DEF Kept
    <3> QED
      BY <3>1, <3>2, <2>1, <1>3, <1>6
  <2> QED
    BY <1>3, <1>5, <1>6, <1>8, <2>1, <2>2, <2>3, <2>4, <1>4 DEF Debounced, Kept
<1>9. CASE p = button.candidate /\ button.samples + 1 >= Debounce
  <2>1. Len(samples') = Debounce
    BY <1>3, <1>4, <1>9, Durations DEF Debounced, Kept
  <2>2. \A i \in 1..Debounce : samples'[i] = p
    <3>1. CASE Len(samples) < Debounce
      BY <1>3, <1>4, <1>9, <3>1, Durations DEF Debounced, Kept
    <3>2. CASE Len(samples) = Debounce
      BY <1>3, <1>4, <1>9, <3>2, Durations DEF Debounced, Kept
    <3> QED
      BY <3>1, <3>2, <1>3, Durations
  <2>3. level' = IF p THEN "down" ELSE "up"
    BY <1>2, <1>4, <2>1, <2>2, AllSettled DEF Kept
  <2> QED
    BY <1>3, <1>5, <1>6, <1>9, <2>1, <2>2, <2>3, <1>4, Durations DEF Debounced, Kept
<1> QED
  BY <1>3, <1>7, <1>8, <1>9, Durations

-------------------------------------------------------------------------------
(* The buzzer. *)

(* Every pattern but the warning leaves time for the warning after it.     *)
LEMMA Patterns ==
  /\ Latest \in Nat
  /\ PatternLength("warning") = Warning
  /\ \A p \in Events \cup {"startup"} : PatternLength(p) \in Nat
  /\ \A p \in (Events \cup {"startup"}) \ {"warning"} : PatternLength(p) <= Latest
BY Durations DEF PatternLength, Longest, Events, Latest

LEMMA SumsOrdered ==
  ASSUME NEW a \in Nat, NEW b \in Nat, NEW c \in Nat, NEW d \in Nat, a <= c, b <= d
  PROVE  a + b <= c + d
OBVIOUS

LEMMA SumKept ==
  ASSUME NEW a \in Nat, NEW b \in Nat, NEW c \in Nat, NEW d \in Nat,
         a > 0, c <= b + 1, a + b <= d
  PROVE  (a - 1) + c <= d
OBVIOUS

LEMMA TickEffect ==
  ASSUME GestureTypeOK, Sounding, Tick
  PROVE  /\ queue' = queue
         /\ remaining' \in Nat /\ warned' \in BOOLEAN
         /\ playing' \in Events \cup {"nothing", "startup"}
         /\ Sounding'
         /\ Idle => queue = <<>> /\ remaining = 0 /\ remaining' = 0
         /\ ~Idle => remaining' = remaining - 1
         /\ playing' = playing \/ playing' = "nothing"
         /\ playing # "warning" \/ remaining' > 0 => warned' = warned
         /\ playing = "warning" /\ remaining' = 0 => warned'
         /\ playing' = "nothing" => remaining' = 0
         /\ warned => warned'
<1>1. /\ Idle => queue = <<>>
      /\ remaining' = IF Idle THEN 0 ELSE remaining - 1
      /\ playing' = IF remaining' = 0 THEN "nothing" ELSE playing
      /\ warned' = (warned \/ (playing = "warning" /\ remaining' = 0))
      /\ queue' = queue
  BY DEF Tick
<1>2. /\ remaining \in Nat /\ warned \in BOOLEAN
      /\ playing \in Events \cup {"nothing", "startup"}
  BY DEF GestureTypeOK
<1>3. warned' \in BOOLEAN /\ (warned => warned')
      /\ (playing = "warning" /\ remaining' = 0 => warned')
  BY <1>1, Zenon
<1>4. playing # "warning" \/ remaining' > 0 => warned' = warned
  <2> SUFFICES ASSUME playing # "warning" \/ remaining' > 0
               PROVE  warned' = warned
    OBVIOUS
  <2>1. ~(playing = "warning" /\ remaining' = 0)
    OBVIOUS
  <2> QED
    BY <2>1, <1>1, <1>2, Zenon
<1>5. remaining' \in Nat
      /\ (Idle => remaining = 0 /\ remaining' = 0)
      /\ (~Idle => remaining' = remaining - 1)
  BY <1>1, <1>2 DEF Sounding
<1>6. playing' = playing \/ playing' = "nothing"
  BY <1>1
<1>7. Sounding'
  <2>1. CASE remaining' = 0
    BY <1>1, <2>1 DEF Sounding, Idle
  <2>2. CASE remaining' # 0
    <3>1. ~Idle /\ playing' = playing /\ playing # "nothing"
      BY <1>1, <2>2 DEF Idle
    <3>2. remaining <= PatternLength(playing) /\ PatternLength(playing) \in Nat
      BY <3>1, <1>2, Patterns DEF Sounding
    <3>3. remaining' > 0 /\ remaining' <= PatternLength(playing)
      BY <3>1, <3>2, <1>5, <1>2, <2>2
    <3> QED
      BY <3>1, <3>3, Zenon DEF Sounding, Idle, PatternLength, Longest
  <2> QED
    BY <2>1, <2>2
<1>8. playing' = "nothing" => remaining' = 0
  BY <1>7 DEF Sounding, Idle
<1> QED
  BY <1>1, <1>2, <1>3, <1>4, <1>5, <1>6, <1>7, <1>8

LEMMA PlayEffect ==
  ASSUME GestureTypeOK, Play
  PROVE  /\ Idle /\ queue # <<>>
         /\ queue' \in Seq(Events) /\ Len(queue') = Len(queue) - 1
         /\ \A i \in 1..Len(queue') : queue'[i] = queue[i + 1]
         /\ playing' = queue[1] /\ playing' \in Events
         /\ remaining' \in Nat /\ Sounding'
         /\ untold' \in BOOLEAN
<1>1. queue \in Seq(Events) /\ queue # <<>> /\ Idle
  BY DEF GestureTypeOK, Play
<1>2. /\ playing' = Head(queue) /\ queue' = Tail(queue)
      /\ remaining' \in IF Head(queue) = "alert" THEN 1..Alert
                        ELSE {Longest(Head(queue))}
      /\ untold' = (untold /\ playing' \notin {"cancelled", "failure"})
  BY DEF Play
<1>3. Head(queue) = queue[1] /\ Head(queue) \in Events
  BY <1>1
<1>4. queue' \in Seq(Events) /\ Len(queue') = Len(queue) - 1
      /\ \A i \in 1..Len(queue') : queue'[i] = queue[i + 1]
  BY <1>1, <1>2
<1>5. remaining' \in Nat /\ remaining' > 0 /\ remaining' <= Longest(Head(queue))
  <2>1. /\ Longest(Head(queue)) \in Nat /\ Longest(Head(queue)) > 0
        /\ Head(queue) = "alert" => Longest(Head(queue)) = Alert
    BY <1>3, Durations DEF Longest, Events
  <2> QED
    BY <1>2, <2>1
<1>6. playing' # "nothing" /\ playing' # "startup"
  BY <1>2, <1>3 DEF Events
<1>7. Longest(playing') = Longest(Head(queue))
  BY <1>2
<1>8. Sounding'
  BY <1>5, <1>6, <1>7, Zenon DEF Sounding, Idle, PatternLength, Longest
<1>9. untold' \in BOOLEAN
  BY <1>2, Zenon
<1> QED
  BY <1>1, <1>2, <1>3, <1>4, <1>5, <1>8, <1>9

-------------------------------------------------------------------------------
(* Types. *)

LEMMA LaterType ==
  ASSUME NEW n \in 0..(DoubleClick + 1)
  PROVE  /\ Later(n) \in 0..(DoubleClick + 1)
         /\ Later(DoubleClick + 1) = DoubleClick + 1
BY Durations DEF Later

LEMMA FreshTypes ==
  /\ 0 \in 0..(DoubleClick + 1) /\ DoubleClick + 1 \in 0..(DoubleClick + 1)
  /\ 0 \in 0..1 /\ 0 \in Nat /\ 1 \in Nat
  /\ <<>> \in Seq(Events) /\ Len(<<>>) <= QueueLength
  /\ <<>> \in Seq(BOOLEAN) /\ Len(<<>>) <= Debounce
  /\ \A e \in Events : <<e>> \in Seq(Events) /\ Len(<<e>>) <= QueueLength
BY Durations

LEMMA TypeInitial ==
  ASSUME Init
  PROVE  GestureTypeOK /\ Debounced
<1>1. button \in [stable : BOOLEAN, candidate : BOOLEAN, samples : 0..Debounce]
  BY Durations DEF Init, NoSample
<1>2. GestureTypeOK
  BY <1>1, FreshTypes, Zenon DEF Init, GestureTypeOK, Phases
<1>3. Debounced
  BY DEF Init, NoSample, Debounced
<1> QED
  BY <1>2, <1>3

(* The type invariant by the part of the state that an action disturbs.    *)
TaskTypes ==
  phase \in Phases /\ count \in Nat /\ rested \in BOOLEAN /\ untold \in BOOLEAN

ClickTypes ==
  /\ armed \in BOOLEAN /\ clicks \in 0..1 /\ double \in BOOLEAN
  /\ sinceClick \in 0..(DoubleClick + 1) /\ lastPress \in 0..(DoubleClick + 1)

SamplerTypes ==
  /\ button \in ButtonType /\ level \in {"up", "down"}
  /\ samples \in Seq(BOOLEAN) /\ Len(samples) <= Debounce

BuzzerTypes ==
  /\ queue \in Seq(Events) /\ Len(queue) <= QueueLength
  /\ playing \in Events \cup {"nothing", "startup"}
  /\ remaining \in Nat /\ warned \in BOOLEAN

LEMMA TypeStep ==
  ASSUME GestureTypeOK, Debounced, Sounding, [Next]_vars
  PROVE  GestureTypeOK' /\ Debounced'
<1>1. TaskTypes /\ ClickTypes /\ SamplerTypes /\ BuzzerTypes
  BY DEF GestureTypeOK, TaskTypes, ClickTypes, SamplerTypes, BuzzerTypes, ButtonType
<1>2. SUFFICES TaskTypes' /\ ClickTypes' /\ SamplerTypes' /\ BuzzerTypes' /\ Debounced'
  BY DEF GestureTypeOK, TaskTypes, ClickTypes, SamplerTypes, BuzzerTypes, ButtonType
<1>3. ASSUME Tick PROVE BuzzerTypes'
  <2>1. /\ queue' = queue /\ remaining' \in Nat /\ warned' \in BOOLEAN
        /\ playing' \in Events \cup {"nothing", "startup"}
    BY <1>3, TickEffect
  <2> QED
    BY <1>1, <2>1 DEF BuzzerTypes
<1>4. ASSUME Sample PROVE SamplerTypes' /\ BuzzerTypes' /\ Debounced'
  <2>1. Tick
    BY <1>4 DEF Sample
  <2> QED
    BY <1>3, <1>4, <2>1, SampleDebounced DEF SamplerTypes
<1>5. ASSUME UNCHANGED <<button, samples, level>> PROVE SamplerTypes' /\ Debounced'
  BY <1>1, <1>5, Zenon DEF SamplerTypes, Debounced
<1>6. ASSUME UNCHANGED <<armed, clicks, sinceClick, lastPress, double>>
      PROVE  ClickTypes'
  BY <1>1, <1>6, Zenon DEF ClickTypes
<1>7. ASSUME UNCHANGED <<queue, playing, remaining, warned>> PROVE BuzzerTypes'
  BY <1>1, <1>7, Zenon DEF BuzzerTypes
<1>8. ASSUME NEW e \in Events, Post(e), warned' \in BOOLEAN PROVE BuzzerTypes'
  <2>1. queue' = <<e>> /\ UNCHANGED <<playing, remaining>>
    BY <1>8 DEF Post
  <2>2. queue' \in Seq(Events) /\ Len(queue') <= QueueLength
    BY <2>1, FreshTypes, Zenon
  <2> QED
    BY <1>1, <1>8, <2>1, <2>2, Zenon DEF BuzzerTypes
<1>9. "warning" \in Events /\ "cancelled" \in Events /\ "failure" \in Events
  BY DEF Events
<1>10. CASE WaitForLongPress
  <2>1. /\ Sample /\ UNCHANGED <<armed, clicks, sinceClick, lastPress, double>>
        /\ UNCHANGED <<phase, untold>>
    BY <1>10 DEF WaitForLongPress
  <2>2. count' \in Nat
    BY <1>1, <1>10 DEF WaitForLongPress, TaskTypes
  <2>3. rested' \in BOOLEAN
    BY <1>10, Zenon DEF WaitForLongPress
  <2>4. TaskTypes'
    BY <1>1, <2>1, <2>2, <2>3, Zenon DEF TaskTypes
  <2> QED
    BY <1>4, <1>6, <2>1, <2>4
<1>11. CASE ConfirmLongPress
  <2>1. /\ Post("warning") /\ warned' = FALSE
        /\ UNCHANGED <<armed, clicks, sinceClick, lastPress, double>>
        /\ UNCHANGED <<button, samples, level>> /\ UNCHANGED <<rested, untold>>
        /\ phase' = "warning" /\ count' = 0
    BY <1>11 DEF ConfirmLongPress
  <2>2. TaskTypes'
    BY <1>1, <2>1 DEF TaskTypes, Phases
  <2> QED
    BY <1>5, <1>6, <1>8, <1>9, <2>1, <2>2, Zenon
<1>12. CASE WaitForWarning
  <2>1. /\ Sample /\ UNCHANGED <<armed, clicks, sinceClick, lastPress, double>>
        /\ UNCHANGED <<phase, rested, untold>> /\ count' = count + 1
    BY <1>12 DEF WaitForWarning
  <2>2. TaskTypes'
    BY <1>1, <2>1 DEF TaskTypes
  <2> QED
    BY <1>4, <1>6, <2>1, <2>2
<1>13. CASE WindowOpens
  <2>1. /\ UNCHANGED <<button, samples, level>> /\ UNCHANGED <<rested, untold>>
        /\ UNCHANGED <<queue, playing, remaining, warned>>
        /\ phase' = "window" /\ count' = 0 /\ clicks' = 0 /\ sinceClick' = 0
        /\ lastPress' = DoubleClick + 1 /\ double' = FALSE
    BY <1>13 DEF WindowOpens, buzzer
  <2>2. armed' \in BOOLEAN
    BY <1>13, Zenon DEF WindowOpens
  <2>3. TaskTypes'
    BY <1>1, <2>1 DEF TaskTypes, Phases
  <2>4. ClickTypes'
    BY <2>1, <2>2, FreshTypes, Zenon DEF ClickTypes
  <2> QED
    BY <1>5, <1>7, <2>1, <2>3, <2>4
<1>14. CASE WaitForCancellation
  <2> DEFINE event == armed /\ PressedEvent
  <2>1. /\ Sample /\ UNCHANGED <<rested, untold>> /\ count' = count + 1
        /\ lastPress' = IF Clicked THEN 0 ELSE Later(lastPress)
        /\ \/ phase' = "cancelled" /\ UNCHANGED <<clicks, sinceClick>>
           \/ /\ clicks' = IF event THEN 1 ELSE clicks
              /\ sinceClick' = SinceFirstClick(event)
              /\ phase' = phase
    BY <1>14 DEF WaitForCancellation
  <2> HIDE DEF event
  <2>2. armed' \in BOOLEAN /\ double' \in BOOLEAN
    BY <1>14, Zenon DEF WaitForCancellation
  <2>3. lastPress' \in 0..(DoubleClick + 1)
    BY <1>1, <2>1, LaterType, FreshTypes DEF ClickTypes
  <2>4. SinceFirstClick(event) \in 0..(DoubleClick + 1)
    BY <1>1, LaterType, FreshTypes DEF SinceFirstClick, ClickTypes
  <2>5. clicks' \in 0..1 /\ sinceClick' \in 0..(DoubleClick + 1)
    BY <1>1, <2>1, <2>4 DEF ClickTypes
  <2>6. TaskTypes'
    BY <1>1, <2>1 DEF TaskTypes, Phases
  <2>7. ClickTypes'
    BY <2>2, <2>3, <2>5, Zenon DEF ClickTypes
  <2> QED
    BY <1>4, <2>1, <2>6, <2>7
<1>15. CASE Cancel
  <2>1. /\ Post("cancelled") /\ phase' = "release" /\ untold' = TRUE
        /\ UNCHANGED <<armed, clicks, sinceClick, lastPress, double>>
        /\ UNCHANGED <<button, samples, level>> /\ UNCHANGED <<count, warned>>
    BY <1>15 DEF Cancel
  <2>2. rested' \in BOOLEAN
    BY <1>15, Zenon DEF Cancel
  <2>3. TaskTypes' /\ warned' \in BOOLEAN
    BY <1>1, <2>1, <2>2 DEF TaskTypes, BuzzerTypes, Phases
  <2> QED
    BY <1>5, <1>6, <1>8, <1>9, <2>1, <2>3
<1>16. CASE WindowExpires \/ MarkerWritten \/ Released
  <2>1. /\ UNCHANGED <<armed, clicks, sinceClick, lastPress, double>>
        /\ UNCHANGED <<button, samples, level>> /\ UNCHANGED <<rested, untold>>
        /\ UNCHANGED <<queue, playing, remaining, warned>>
        /\ phase' \in {"marker", "erasing", "longPress"} /\ count' \in {0, count}
    BY <1>16 DEF WindowExpires, MarkerWritten, Released, buzzer, history
  <2>2. TaskTypes'
    BY <1>1, <2>1 DEF TaskTypes, Phases
  <2> QED
    BY <1>5, <1>6, <1>7, <2>1, <2>2
<1>17. CASE FlashFails
  <2>1. /\ Post("failure") /\ phase' \in {"markerFailed", "eraseFailed"} /\ count' = 0
        /\ UNCHANGED <<armed, clicks, sinceClick, lastPress, double>>
        /\ UNCHANGED <<button, samples, level>> /\ UNCHANGED <<rested, warned>>
    BY <1>17 DEF FlashFails
  <2>2. untold' \in BOOLEAN
    BY <1>17, Zenon DEF FlashFails
  <2>3. TaskTypes' /\ warned' \in BOOLEAN
    BY <1>1, <2>1, <2>2 DEF TaskTypes, BuzzerTypes, Phases
  <2> QED
    BY <1>5, <1>6, <1>8, <1>9, <2>1, <2>3
<1>18. CASE WaitForTone
  <2>1. /\ Tick /\ UNCHANGED <<armed, clicks, sinceClick, lastPress, double>>
        /\ UNCHANGED <<button, samples, level>> /\ UNCHANGED <<phase, rested, untold>>
        /\ count' = count + 1
    BY <1>18 DEF WaitForTone
  <2>2. TaskTypes'
    BY <1>1, <2>1 DEF TaskTypes
  <2> QED
    BY <1>3, <1>5, <1>6, <2>1, <2>2
<1>19. CASE GiveUp
  <2>1. /\ UNCHANGED <<armed, clicks, sinceClick, lastPress, double>>
        /\ UNCHANGED <<button, samples, level>> /\ UNCHANGED <<count, untold>>
        /\ UNCHANGED <<queue, playing, remaining, warned>> /\ phase' = "release"
    BY <1>19 DEF GiveUp, buzzer
  <2>2. rested' \in BOOLEAN
    BY <1>19, Zenon DEF GiveUp
  <2>3. TaskTypes'
    BY <1>1, <2>1, <2>2 DEF TaskTypes, Phases
  <2> QED
    BY <1>5, <1>6, <1>7, <2>1, <2>3
<1>20. CASE WaitForRelease
  <2>1. /\ Sample /\ UNCHANGED <<armed, clicks, sinceClick, lastPress, double>>
        /\ UNCHANGED <<phase, count, untold>>
    BY <1>20 DEF WaitForRelease
  <2>2. rested' \in BOOLEAN
    BY <1>20, Zenon DEF WaitForRelease
  <2>3. TaskTypes'
    BY <1>1, <2>1, <2>2, Zenon DEF TaskTypes
  <2> QED
    BY <1>4, <1>6, <2>1, <2>3
<1>21. CASE Restart
  <2>1. TaskTypes'
    BY <1>1, <1>21 DEF Restart, TaskTypes, Phases
  <2>2. ClickTypes'
    BY <1>21, FreshTypes, Zenon DEF Restart, ClickTypes
  <2>3. button' \in ButtonType
    BY <1>21, Durations DEF Restart, NoSample, ButtonType
  <2>4. SamplerTypes'
    BY <1>21, <2>3, FreshTypes DEF Restart, SamplerTypes
  <2>5. BuzzerTypes'
    BY <1>21, FreshTypes, Zenon DEF Restart, BuzzerTypes
  <2>6. Debounced'
    BY <1>21 DEF Restart, NoSample, Debounced
  <2> QED
    BY <2>1, <2>2, <2>4, <2>5, <2>6
<1>22. CASE FlashWorks
  <2>1. /\ Tick /\ UNCHANGED <<armed, clicks, sinceClick, lastPress, double>>
        /\ UNCHANGED <<button, samples, level>>
        /\ UNCHANGED <<phase, count, rested, untold>>
    BY <1>22 DEF FlashWorks, gesture
  <2>2. TaskTypes'
    BY <1>1, <2>1, Zenon DEF TaskTypes
  <2> QED
    BY <1>3, <1>5, <1>6, <2>1, <2>2
<1>23. CASE Play
  <2>1. /\ UNCHANGED <<armed, clicks, sinceClick, lastPress, double>>
        /\ UNCHANGED <<button, samples, level>>
        /\ UNCHANGED <<phase, count, rested, warned>>
    BY <1>23 DEF Play, gesture
  <2>2. /\ queue' \in Seq(Events) /\ Len(queue') = Len(queue) - 1
        /\ playing' \in Events /\ remaining' \in Nat /\ untold' \in BOOLEAN
    BY <1>23, PlayEffect
  <2>3. Len(queue') <= QueueLength
    BY <1>1, <2>2, Durations DEF BuzzerTypes
  <2>4. TaskTypes' /\ BuzzerTypes'
    BY <1>1, <2>1, <2>2, <2>3 DEF TaskTypes, BuzzerTypes
  <2> QED
    BY <1>5, <1>6, <2>1, <2>4
<1>24. CASE PostAlert
  <2>1. /\ UNCHANGED <<armed, clicks, sinceClick, lastPress, double>>
        /\ UNCHANGED <<button, samples, level>>
        /\ UNCHANGED <<phase, count, rested, untold>>
        /\ UNCHANGED <<playing, remaining, warned>>
    BY <1>24 DEF PostAlert, gesture, history
  <2>2. queue' \in Seq(Events) /\ Len(queue') <= QueueLength
    BY <1>1, <1>24, Durations DEF PostAlert, BuzzerTypes, Events
  <2>3. TaskTypes' /\ BuzzerTypes'
    BY <1>1, <2>1, <2>2, Zenon DEF TaskTypes, BuzzerTypes
  <2> QED
    BY <1>5, <1>6, <2>1, <2>3
<1>25. CASE UNCHANGED vars
  <2>1. /\ UNCHANGED <<armed, clicks, sinceClick, lastPress, double>>
        /\ UNCHANGED <<button, samples, level>>
        /\ UNCHANGED <<phase, count, rested, untold>>
        /\ UNCHANGED <<queue, playing, remaining, warned>>
    BY <1>25 DEF vars, gesture, buzzer, history
  <2>2. TaskTypes'
    BY <1>1, <2>1, Zenon DEF TaskTypes
  <2> QED
    BY <1>5, <1>6, <1>7, <2>1, <2>2
<1> QED
  BY <1>10, <1>11, <1>12, <1>13, <1>14, <1>15, <1>16, <1>17, <1>18, <1>19, <1>20,
     <1>21, <1>22, <1>23, <1>24, <1>25, Zenon DEF Next, ResetTask

-------------------------------------------------------------------------------
(* The gesture. *)

(* While the release is awaited a button that is up has been noticed, and  *)
(* a button that the debouncer takes to be up is up.                       *)
LEMMA RestsStep ==
  ASSUME GestureTypeOK, Debounced, Rests, [Next]_vars
  PROVE  Rests'
<1> USE DEF Rests
<1>1. CASE WaitForLongPress
  BY <1>1, Zenon DEF WaitForLongPress
<1>2. CASE Cancel
  BY <1>2, Zenon DEF Cancel
<1>3. CASE GiveUp
  BY <1>3, Zenon DEF GiveUp
<1>4. CASE WaitForRelease
  BY <1>4, Zenon DEF WaitForRelease
<1>5. CASE Released
  <2>1. level = "up"
    BY <1>5 DEF Released, Debounced, GestureTypeOK
  <2> QED
    BY <1>5, <2>1 DEF Released, history
<1>6. CASE Restart
  BY <1>6 DEF Restart
<1>7. CASE Play \/ PostAlert \/ UNCHANGED vars
  BY <1>7 DEF Play, PostAlert, vars, gesture, history
<1>8. CASE FlashWorks \/ WaitForTone
  BY <1>8 DEF FlashWorks, WaitForTone, gesture
<1>9. CASE \/ ConfirmLongPress \/ WaitForWarning \/ WindowOpens \/ WindowExpires
           \/ MarkerWritten \/ FlashFails
  BY <1>9 DEF ConfirmLongPress, WaitForWarning, WindowOpens, WindowExpires,
              MarkerWritten, FlashFails
<1>10. CASE WaitForCancellation
  BY <1>10 DEF WaitForCancellation
<1> QED
  BY <1>1, <1>2, <1>3, <1>4, <1>5, <1>6, <1>7, <1>8, <1>9, <1>10 DEF Next, ResetTask

(* The detector arms on the release that precedes the first click, so that *)
(* its events are the clicks, and it cancels on the second of two that are *)
(* close enough.                                                           *)
LEMMA ClicksStep ==
  ASSUME GestureTypeOK, GestureTypeOK', Debounced, Debounced',
         ClicksAgree, DoubleClickCancels, [Next]_vars
  PROVE  ClicksAgree' /\ DoubleClickCancels'
<1> USE DEF ClicksAgree, DoubleClickCancels
<1>1. CASE WindowOpens
  <2>1. ~button'.stable => armed'
    BY <1>1, Zenon DEF WindowOpens
  <2> QED
    BY <1>1, <2>1 DEF WindowOpens
<1>2. CASE WaitForCancellation
  <2> DEFINE event == armed /\ PressedEvent
             cancels == event /\ clicks = 1 /\ Later(sinceClick) <= DoubleClick
  <2>1. /\ phase = "window"
        /\ armed' = (armed \/ (button.stable /\ ~button'.stable))
        /\ lastPress' = IF Clicked THEN 0 ELSE Later(lastPress)
        /\ double' = (double \/ (Clicked /\ Later(lastPress) <= DoubleClick))
    BY <1>2 DEF WaitForCancellation
  <2>2. /\ cancels => phase' = "cancelled" /\ UNCHANGED <<clicks, sinceClick>>
        /\ ~cancels => /\ clicks' = IF event THEN 1 ELSE clicks
                       /\ sinceClick' = IF event THEN 0 ELSE Later(sinceClick)
                       /\ phase' = phase
    BY <1>2 DEF WaitForCancellation, SinceFirstClick
  <2>3. /\ ~double
        /\ ~button.stable => armed
        /\ clicks = 0 => lastPress = DoubleClick + 1
        /\ clicks = 1 => lastPress = sinceClick
        /\ clicks \in {0, 1}
    BY <2>1 DEF GestureTypeOK
  <2>4. /\ button.stable \in BOOLEAN /\ button'.stable \in BOOLEAN
        /\ button.stable <=> level = "down"
        /\ button'.stable <=> level' = "down"
        /\ level \in {"up", "down"} /\ level' \in {"up", "down"}
    BY DEF GestureTypeOK, Debounced
  <2>5. event <=> Clicked
    BY <2>3, <2>4 DEF PressedEvent, Clicked
  <2>6. ~button'.stable => armed'
    BY <2>1, <2>3, <2>4, Zenon
  <2>7. cancels <=> Clicked /\ Later(lastPress) <= DoubleClick
    <3>1. clicks = 0 => ~(Later(lastPress) <= DoubleClick)
      BY <2>3, Durations, LaterType
    <3> QED
      BY <2>3, <2>5, <3>1
  <2>8. double' <=> cancels
    BY <2>1, <2>3, <2>7, Zenon
  <2> HIDE DEF event, cancels
  <2>9. CASE cancels
    BY <2>2, <2>8, <2>9
  <2>10. CASE ~cancels
    <3>1. phase' = "window" /\ ~double'
      BY <2>1, <2>2, <2>8, <2>10
    <3>2. CASE event
      BY <2>1, <2>2, <2>5, <2>6, <2>10, <3>1, <3>2
    <3>3. CASE ~event
      <4>1. lastPress' = Later(lastPress) /\ clicks' = clicks
            /\ sinceClick' = Later(sinceClick)
        BY <2>1, <2>2, <2>5, <2>10, <3>3
      <4>2. clicks' = 0 => lastPress' = DoubleClick + 1
        BY <4>1, <2>3, Durations DEF Later
      <4> QED
        BY <4>1, <4>2, <2>3, <2>6, <3>1
    <3> QED
      BY <3>2, <3>3
  <2> QED
    BY <2>9, <2>10
<1>3. CASE Play \/ PostAlert \/ UNCHANGED vars
  BY <1>3 DEF Play, PostAlert, vars, gesture, history
<1>4. CASE FlashWorks \/ WaitForTone
  BY <1>4 DEF FlashWorks, WaitForTone, gesture
<1>5. CASE \/ WaitForLongPress \/ ConfirmLongPress \/ WaitForWarning
           \/ WaitForRelease \/ Released \/ Restart
  BY <1>5 DEF WaitForLongPress, ConfirmLongPress, WaitForWarning, WaitForRelease,
              Released, Restart
<1>6. CASE Cancel \/ WindowExpires \/ MarkerWritten \/ FlashFails \/ GiveUp
  BY <1>6 DEF Cancel, WindowExpires, MarkerWritten, FlashFails, GiveUp, history
<1> QED
  BY <1>1, <1>2, <1>3, <1>4, <1>5, <1>6 DEF Next, ResetTask

-------------------------------------------------------------------------------
(* The warning. *)

LEMMA SoundingStep ==
  ASSUME GestureTypeOK, Sounding, [Next]_vars
  PROVE  Sounding'
<1>1. ASSUME Tick PROVE Sounding'
  BY <1>1, TickEffect
<1>2. ASSUME UNCHANGED <<playing, remaining>> PROVE Sounding'
  BY <1>2, Zenon DEF Sounding, Idle, PatternLength, Longest
<1>3. CASE WaitForLongPress \/ WaitForWarning \/ WaitForCancellation \/ WaitForRelease
  BY <1>1, <1>3 DEF WaitForLongPress, WaitForWarning, WaitForCancellation,
                    WaitForRelease, Sample
<1>4. CASE FlashWorks \/ WaitForTone
  BY <1>1, <1>4 DEF FlashWorks, WaitForTone
<1>5. CASE ConfirmLongPress \/ Cancel \/ FlashFails
  BY <1>2, <1>5 DEF ConfirmLongPress, Cancel, FlashFails, Post
<1>6. CASE WindowOpens \/ WindowExpires \/ MarkerWritten \/ GiveUp \/ Released
  BY <1>2, <1>6 DEF WindowOpens, WindowExpires, MarkerWritten, GiveUp, Released, buzzer
<1>7. CASE Restart
  BY <1>7 DEF Restart, Sounding, Idle, PatternLength
<1>8. CASE Play
  BY <1>8, PlayEffect
<1>9. CASE PostAlert \/ UNCHANGED vars
  BY <1>2, <1>9 DEF PostAlert, vars, buzzer
<1> QED
  BY <1>3, <1>4, <1>5, <1>6, <1>7, <1>8, <1>9 DEF Next, ResetTask

(* A poll of any phase that keeps the queue, by what becomes of the phase. *)
LEMMA OneWarningTick ==
  ASSUME GestureTypeOK, Sounding, OneWarning, Tick, count' \in Nat,
         \/ phase' = phase
         \/ phase = "window" /\ phase' = "cancelled",
         phase = "longPress" => count' <= count + 1
  PROVE  OneWarning'
<1>1. /\ queue' = queue
      /\ Idle => queue = <<>> /\ remaining = 0 /\ remaining' = 0
      /\ ~Idle => remaining' = remaining - 1
      /\ playing' = playing \/ playing' = "nothing"
      /\ playing # "warning" \/ remaining' > 0 => warned' = warned
  BY TickEffect
<1>2. /\ remaining \in Nat /\ count \in Nat
      /\ queue \in Seq(Events) /\ Len(queue) \in Nat
  BY DEF GestureTypeOK
<1>3. ASSUME NEW i \in 1..Len(queue'), queue'[i] = "warning"
      PROVE  /\ i = 1
             /\ phase' \in {"warning", "window", "cancelled"}
             /\ ~warned'
             /\ playing' # "warning"
  <2>1. i \in 1..Len(queue) /\ queue[i] = "warning"
    BY <1>1, <1>3
  <2>2. /\ i = 1 /\ phase \in {"warning", "window", "cancelled"}
        /\ ~warned /\ playing # "warning"
    BY <2>1 DEF OneWarning
  <2> QED
    BY <2>2, <1>1
<1>4. ASSUME phase' = "longPress", playing' = "warning"
      PROVE  remaining' + count' <= Warning
  <2>1. phase = "longPress" /\ playing = "warning"
    BY <1>1, <1>4
  <2>2. remaining' = remaining - 1 /\ remaining > 0
    BY <2>1, <1>1 DEF Idle, Sounding
  <2>3. remaining + count <= Warning
    BY <2>1 DEF OneWarning
  <2>4. count' \in Nat /\ count' <= count + 1
    BY <2>1
  <2>5. Warning \in Nat
    BY Durations
  <2>6. (remaining - 1) + count' <= Warning
    BY <2>2, <2>3, <2>4, <2>5, <1>2, SumKept, Zenon
  <2> QED
    BY <2>2, <2>6
<1> QED
  BY <1>3, <1>4 DEF OneWarning

(* When the window closes the warning has been heard.                      *)
LEMMA WarnedAtLast ==
  ASSUME GestureTypeOK, WarningDue, phase = "window", count > Latest
  PROVE  warned
<1>1. count \in Nat /\ remaining \in Nat
  BY DEF GestureTypeOK
<1>2. SUFFICES ASSUME ~warned PROVE FALSE
  OBVIOUS
<1>3. \/ Elapsed + remaining <= Latest + Warning
      \/ Elapsed + remaining <= Latest
  BY <1>2 DEF WarningDue
<1>4. Elapsed = Warning + 1 + count
  BY Durations DEF Elapsed
<1> QED
  BY <1>1, <1>3, <1>4, Patterns, Durations

(* Posting a reset event leaves one event; in the phases it leads to, that *)
(* event is the warning only if it is the one just posted.                 *)
LEMMA OneWarningStep ==
  ASSUME GestureTypeOK, GestureTypeOK', Sounding, OneWarning, WarningDue, [Next]_vars
  PROVE  OneWarning'
<1>1. /\ queue \in Seq(Events) /\ Len(queue) \in Nat
      /\ remaining \in Nat /\ count \in Nat /\ count' \in Nat
  BY DEF GestureTypeOK
<1>2. CASE WaitForLongPress
  <2>1. Tick /\ phase' = phase /\ count' <= count + 1
    BY <1>2, <1>1 DEF WaitForLongPress, Sample
  <2> QED
    BY <2>1, <1>1, OneWarningTick
<1>3. CASE WaitForWarning \/ WaitForRelease
  <2>1. Tick /\ phase' = phase /\ phase # "longPress"
    BY <1>3 DEF WaitForWarning, WaitForRelease, Sample
  <2> QED
    BY <2>1, <1>1, OneWarningTick
<1>4. CASE WaitForCancellation
  <2>1. Tick /\ phase = "window" /\ (phase' = phase \/ phase' = "cancelled")
    BY <1>4 DEF WaitForCancellation, Sample
  <2> QED
    BY <2>1, <1>1, OneWarningTick
<1>5. CASE FlashWorks \/ WaitForTone
  <2>1. Tick /\ phase' = phase /\ phase # "longPress"
    BY <1>5 DEF FlashWorks, WaitForTone, gesture
  <2> QED
    BY <2>1, <1>1, OneWarningTick
<1>6. CASE ConfirmLongPress
  <2>1. /\ phase = "longPress" /\ count = Hold /\ phase' = "warning" /\ warned' = FALSE
        /\ queue' = <<"warning">> /\ playing' = playing
    BY <1>6 DEF ConfirmLongPress, Post
  <2>2. playing # "warning"
    BY <2>1, <1>1, Durations DEF OneWarning
  <2> QED
    BY <2>1, <2>2 DEF OneWarning
<1>7. CASE Cancel
  <2>1. queue' = <<"cancelled">> /\ phase' = "release"
    BY <1>7 DEF Cancel, Post
  <2> QED
    BY <2>1 DEF OneWarning
<1>8. CASE FlashFails
  <2>1. queue' = <<"failure">> /\ phase' # "longPress"
    BY <1>8 DEF FlashFails, Post
  <2> QED
    BY <2>1 DEF OneWarning
<1>9. CASE WindowOpens
  BY <1>9 DEF WindowOpens, buzzer, OneWarning
<1>10. CASE WindowExpires
  <2>1. warned
    <3>1. count > Latest /\ phase = "window"
      BY <1>10, Durations DEF WindowExpires, Latest
    <3> QED
      BY <3>1, WarnedAtLast
  <2> QED
    BY <1>10, <2>1 DEF WindowExpires, buzzer, history, OneWarning
<1>11. CASE MarkerWritten \/ GiveUp
  BY <1>11 DEF MarkerWritten, GiveUp, buzzer, history, OneWarning
<1>12. CASE Released
  <2>1. /\ phase = "release" /\ phase' = "longPress" /\ count' = 0
        /\ queue' = queue /\ playing' = playing /\ remaining' = remaining
    BY <1>12 DEF Released, buzzer
  <2>2. playing = "warning" => remaining <= Warning
    BY Patterns DEF Sounding, Idle
  <2> QED
    BY <2>1, <2>2, <1>1, Durations DEF OneWarning
<1>13. CASE Restart
  BY <1>13 DEF Restart, OneWarning
<1>14. CASE Play
  <2>1. /\ Len(queue') = Len(queue) - 1 /\ Len(queue) > 0
        /\ \A i \in 1..Len(queue') : queue'[i] = queue[i + 1]
        /\ playing' = queue[1]
        /\ phase' = phase
    BY <1>14, <1>1, PlayEffect DEF Play, gesture
  <2>2. \A i \in 1..Len(queue') : queue'[i] # "warning"
    <3> SUFFICES ASSUME NEW i \in 1..Len(queue'), queue'[i] = "warning"
                 PROVE  FALSE
      OBVIOUS
    <3>1. i + 1 \in 1..Len(queue) /\ queue[i + 1] = "warning" /\ i + 1 # 1
      BY <2>1, <1>1
    <3> QED
      BY <3>1 DEF OneWarning
  <2>3. ~(phase' = "longPress" /\ playing' = "warning")
    <3>1. 1 \in 1..Len(queue)
      BY <2>1, <1>1
    <3> QED
      BY <2>1, <3>1 DEF OneWarning
  <2> QED
    BY <2>2, <2>3 DEF OneWarning
<1>15. CASE PostAlert
  <2>1. /\ Len(queue') = Len(queue) + 1
        /\ \A i \in 1..Len(queue) : queue'[i] = queue[i]
        /\ queue'[Len(queue) + 1] = "alert"
        /\ UNCHANGED <<phase, warned, playing, remaining, count>>
    BY <1>1, <1>15 DEF PostAlert, gesture, history
  <2>2. ASSUME NEW i \in 1..Len(queue'), queue'[i] = "warning"
        PROVE  i \in 1..Len(queue) /\ queue[i] = "warning"
    BY <2>1, <2>2, <1>1
  <2> QED
    BY <2>1, <2>2 DEF OneWarning
<1>16. CASE UNCHANGED vars
  BY <1>16 DEF vars, gesture, buzzer, history, OneWarning
<1> QED
  BY <1>2, <1>3, <1>4, <1>5, <1>6, <1>7, <1>8, <1>9, <1>10, <1>11, <1>12, <1>13,
     <1>14, <1>15, <1>16 DEF Next, ResetTask

(* With every poll the warning, or what sounds before it, gets shorter.    *)
LEMMA WarningDueTick ==
  ASSUME GestureTypeOK, Sounding, WarningDue, Tick,
         phase \in {"warning", "window"}, phase' = phase, count' = count + 1,
         ~warned'
  PROVE  \/ playing' = "warning" /\ Elapsed' + remaining' <= Latest + Warning
         \/ queue' # <<>> /\ queue'[1] = "warning" /\ Elapsed' + remaining' <= Latest
<1>1. /\ queue' = queue /\ remaining' \in Nat
      /\ Idle => queue = <<>> /\ remaining = 0 /\ remaining' = 0
      /\ ~Idle => remaining' = remaining - 1
      /\ playing' = playing \/ playing' = "nothing"
      /\ playing = "warning" /\ remaining' = 0 => warned'
      /\ playing' = "nothing" => remaining' = 0
      /\ warned => warned'
  BY TickEffect
<1>2. remaining \in Nat /\ count \in Nat /\ Latest \in Nat
  BY Patterns DEF GestureTypeOK
<1>3. Elapsed \in Nat /\ Elapsed' = Elapsed + 1
  BY <1>2, Durations DEF Elapsed
<1>4. \/ playing = "warning" /\ Elapsed + remaining <= Latest + Warning
      \/ queue # <<>> /\ queue[1] = "warning" /\ Elapsed + remaining <= Latest
  BY <1>1 DEF WarningDue
<1>5. CASE playing = "warning" /\ Elapsed + remaining <= Latest + Warning
  <2>1. ~Idle
    BY <1>5 DEF Idle
  <2>2. playing' = "warning"
    BY <1>1, <1>5
  <2> QED
    BY <1>1, <1>2, <1>3, <1>5, <2>1, <2>2, Durations
<1>6. CASE queue # <<>> /\ queue[1] = "warning" /\ Elapsed + remaining <= Latest
  <2>1. ~Idle
    BY <1>1, <1>6
  <2> QED
    BY <1>1, <1>2, <1>3, <1>6, <2>1
<1> QED
  BY <1>4, <1>5, <1>6

LEMMA WarningDueStep ==
  ASSUME GestureTypeOK, GestureTypeOK', Sounding, OneWarning, WarningDue, [Next]_vars
  PROVE  WarningDue'
<1>1. /\ queue \in Seq(Events) /\ Len(queue) \in Nat
      /\ remaining \in Nat /\ count \in Nat /\ Latest \in Nat
      /\ playing \in Events \cup {"nothing", "startup"}
  BY Patterns DEF GestureTypeOK
<1>2. ASSUME phase' \notin {"longPress", "warning", "window", "marker", "erasing"}
      PROVE  WarningDue'
  BY <1>2 DEF WarningDue
<1>3. CASE WaitForLongPress
  <2>1. phase' = "longPress" /\ count' <= Hold
    BY <1>1, <1>3, Durations DEF WaitForLongPress
  <2> QED
    BY <2>1 DEF WarningDue
<1>4. CASE Released \/ Restart
  <2>1. phase' = "longPress" /\ count' = 0
    BY <1>4 DEF Released, Restart
  <2> QED
    BY <2>1, Durations DEF WarningDue
<1>5. CASE ConfirmLongPress
  <2>1. /\ phase = "longPress" /\ count = Hold /\ phase' = "warning" /\ count' = 0
        /\ queue' = <<"warning">> /\ UNCHANGED <<playing, remaining>>
    BY <1>5 DEF ConfirmLongPress, Post
  <2>2. playing # "warning"
    BY <2>1, <1>1, Durations DEF OneWarning
  <2>3. remaining <= Latest
    <3>1. CASE Idle
      BY <3>1, Patterns DEF Sounding
    <3>2. CASE ~Idle
      <4>1. playing \in (Events \cup {"startup"}) \ {"warning"}
        BY <3>2, <2>2, <1>1 DEF Idle
      <4>2. remaining <= PatternLength(playing) /\ PatternLength(playing) <= Latest
            /\ PatternLength(playing) \in Nat
        BY <3>2, <4>1, Patterns DEF Sounding
      <4> QED
        BY <4>2, <1>1
    <3> QED
      BY <3>1, <3>2
  <2>4. Elapsed' = 0
    BY <2>1 DEF Elapsed
  <2>5. queue' # <<>> /\ queue'[1] = "warning"
    BY <2>1
  <2>6. Elapsed' + remaining' <= Latest
    BY <2>1, <2>3, <2>4, <1>1
  <2> QED
    BY <2>1, <2>5, <2>6, Durations, Patterns DEF WarningDue
<1>6. CASE WaitForWarning
  <2>1. /\ Tick /\ phase = "warning" /\ phase' = phase /\ count' = count + 1
        /\ count' <= WarningWait
    BY <1>1, <1>6, Durations DEF WaitForWarning, Sample
  <2> QED
    BY <2>1, WarningDueTick, Patterns DEF WarningDue
<1>7. CASE WindowOpens
  <2>1. /\ phase = "warning" /\ count = WarningWait /\ phase' = "window" /\ count' = 0
        /\ UNCHANGED <<queue, playing, remaining, warned>>
    BY <1>7 DEF WindowOpens, buzzer
  <2>2. Elapsed' = Elapsed
    BY <2>1, Durations DEF Elapsed
  <2> QED
    BY <2>1, <2>2, Durations, Patterns DEF WarningDue
<1>8. CASE WaitForCancellation
  <2>1. CASE phase' = "cancelled"
    BY <1>2, <2>1
  <2>2. CASE phase' # "cancelled"
    <3>1. /\ Tick /\ phase = "window" /\ phase' = phase /\ count' = count + 1
          /\ count' <= Window
      BY <1>1, <1>8, <2>2, Durations DEF WaitForCancellation, Sample
    <3> QED
      BY <3>1, WarningDueTick, Patterns DEF WarningDue
  <2> QED
    BY <2>1, <2>2
<1>9. CASE Cancel \/ FlashFails \/ GiveUp \/ WaitForTone \/ WaitForRelease
  BY <1>2, <1>9 DEF Cancel, FlashFails, GiveUp, WaitForTone, WaitForRelease
<1>10. CASE WindowExpires
  <2>1. count > Latest /\ phase = "window"
    BY <1>10, Durations DEF WindowExpires, Latest
  <2>2. phase' = "marker" /\ warned'
    BY <2>1, <1>10, WarnedAtLast DEF WindowExpires, history
  <2> QED
    BY <2>2 DEF WarningDue
<1>11. CASE MarkerWritten
  BY <1>11 DEF MarkerWritten, history, WarningDue
<1>12. CASE FlashWorks
  <2>1. phase' = phase /\ phase \in {"marker", "erasing"} /\ (warned => warned')
    BY <1>12, TickEffect DEF FlashWorks, gesture
  <2> QED
    BY <2>1 DEF WarningDue
<1>13. CASE Play
  <2>1. /\ Idle /\ queue # <<>> /\ playing' = queue[1]
        /\ Sounding' /\ remaining' \in Nat
        /\ UNCHANGED <<phase, count, warned>>
    BY <1>13, PlayEffect DEF Play, gesture
  <2>2. Elapsed' = Elapsed /\ Elapsed \in Nat
    BY <2>1, <1>1, Durations DEF Elapsed
  <2>3. ASSUME phase \in {"warning", "window"}, ~warned
        PROVE  playing' = "warning" /\ Elapsed' + remaining' <= Latest + Warning
    <3>1. queue[1] = "warning" /\ Elapsed + remaining <= Latest /\ remaining = 0
      BY <2>1, <2>3 DEF WarningDue, Idle, Sounding
    <3>2. remaining' <= Warning
      BY <2>1, <3>1, Patterns DEF Sounding, Idle, PatternLength, Longest
    <3>3. Elapsed <= Latest /\ Warning \in Nat
      BY <2>2, <3>1, <1>1, Durations
    <3>4. Elapsed + remaining' <= Latest + Warning
      BY <2>1, <2>2, <3>2, <3>3, <1>1, SumsOrdered, Zenon
    <3> QED
      BY <2>1, <2>2, <3>1, <3>4
  <2> QED
    BY <2>1, <2>3, Patterns DEF WarningDue
<1>14. CASE PostAlert
  <2>1. /\ queue # <<>> => queue' # <<>> /\ queue'[1] = queue[1]
        /\ UNCHANGED <<phase, warned, playing, remaining, count>>
    BY <1>1, <1>14 DEF PostAlert, gesture, history
  <2>2. Elapsed' = Elapsed
    BY <2>1 DEF Elapsed
  <2> QED
    BY <2>1, <2>2, Patterns DEF WarningDue
<1>15. CASE UNCHANGED vars
  <2>1. UNCHANGED <<phase, warned, playing, remaining, count, queue>>
    BY <1>15 DEF vars, gesture, buzzer, history
  <2> QED
    BY <2>1 DEF WarningDue, Elapsed, Latest
<1> QED
  BY <1>3, <1>4, <1>5, <1>6, <1>7, <1>8, <1>9, <1>10, <1>11, <1>12, <1>13,
     <1>14, <1>15 DEF Next, ResetTask

-------------------------------------------------------------------------------
LEMMA InvariantInitial ==
  ASSUME Init
  PROVE  GestureInvariant
<1>1. GestureTypeOK /\ Debounced
  BY TypeInitial
<1>2. Rests /\ ClicksAgree /\ DoubleClickCancels
  BY DEF Init, Rests, ClicksAgree, DoubleClickCancels
<1>3. Sounding
  BY DEF Init, Sounding, Idle, PatternLength
<1>4. OneWarning
  BY DEF Init, OneWarning
<1>5. WarningDue
  BY Durations DEF Init, WarningDue
<1> QED
  BY <1>1, <1>2, <1>3, <1>4, <1>5 DEF GestureInvariant

LEMMA InvariantStep ==
  ASSUME GestureInvariant, [Next]_vars
  PROVE  GestureInvariant'
<1> USE DEF GestureInvariant
<1>1. GestureTypeOK' /\ Debounced'
  BY TypeStep
<1>2. Rests'
  BY RestsStep
<1>3. ClicksAgree' /\ DoubleClickCancels'
  BY <1>1, ClicksStep
<1>4. Sounding'
  BY SoundingStep
<1>5. OneWarning' /\ WarningDue'
  BY <1>1, OneWarningStep, WarningDueStep
<1> QED
  BY <1>1, <1>2, <1>3, <1>4, <1>5

LEMMA InvariantHolds ==
  Spec => []GestureInvariant
<1>1. Init => GestureInvariant
  BY InvariantInitial
<1>2. GestureInvariant /\ [Next]_vars => GestureInvariant'
  BY InvariantStep
<1> QED
  BY <1>1, <1>2, PTL DEF Spec

(* A press that belongs to one gesture never counts towards the next, for  *)
(* every debounce count: factoryResetService_WaitForRelease.               *)
THEOREM PressIsFreshCorrect ==
  Spec => []PressIsFresh
<1>1. GestureInvariant => PressIsFresh
  BY DEF GestureInvariant, Rests, PressIsFresh
<1> QED
  BY <1>1, InvariantHolds, PTL

(* A double-click made in the cancellation window always cancels and       *)
(* nothing else does, however the contact bounces and for every debounce   *)
(* count and double-click time: factoryResetService_UpdateButton and       *)
(* factoryResetService_WaitForCancellation.                                *)
THEOREM DoubleClickCancelsCorrect ==
  Spec => []DoubleClickCancels
<1>1. GestureInvariant => DoubleClickCancels
  BY DEF GestureInvariant
<1> QED
  BY <1>1, InvariantHolds, PTL

(* The warning of a gesture is over in time to cancel, whatever sounded or *)
(* was queued when the long press was confirmed and whatever alerts are    *)
(* posted after it, for every queue length and all durations in the        *)
(* proportions of GestureAssumption: factoryResetService_Task with         *)
(* BuzzerService_FactoryResetWarning.                                      *)
THEOREM WarnedInTimeCorrect ==
  Spec => []WarnedInTime
<1>1. GestureInvariant => WarnedInTime
  <2> SUFFICES ASSUME GestureInvariant PROVE WarnedInTime
    OBVIOUS
  <2>1. phase = "window" /\ count > Window - 4 * Debounce => warned
    BY WarnedAtLast DEF GestureInvariant, Latest
  <2> QED
    BY <2>1 DEF WarnedInTime, GestureInvariant, WarningDue
<1> QED
  BY <1>1, InvariantHolds, PTL
===============================================================================
