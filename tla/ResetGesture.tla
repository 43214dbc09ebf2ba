----------------------------- MODULE ResetGesture -----------------------------
(***************************************************************************)
(* The button gesture that requests a factory reset                        *)
(* (Srv/Src/factory_reset_service.c) and the buzzer that leads the user    *)
(* through it (Srv/Src/buzzer_service.c).                                  *)
(*                                                                         *)
(* Time is counted in polls of FACTORY_RESET_POLL_MS.  With every poll the *)
(* reset task samples the button, unless it sits out a delay or works on   *)
(* the flash, and the pattern the buzzer plays gets one poll shorter.      *)
(* What takes no time happens between two polls.  FactoryReset has what    *)
(* happens to the flash; here it succeeds or fails.                        *)
(*                                                                         *)
(* The tasks that post alerts and the buzzer task have a lower priority    *)
(* than the reset task, so nothing comes between the two queue operations  *)
(* of a factory-reset event.                                               *)
(***************************************************************************)
EXTENDS Naturals, Sequences, Functions

CONSTANTS
  Debounce,       \* FACTORY_RESET_DEBOUNCE_SAMPLES
  Hold,           \* FACTORY_RESET_HOLD_SAMPLES
  WarningWait,    \* FactoryResetWarningDuration and one poll
  Window,         \* FACTORY_RESET_CANCEL_WINDOW_MS
  DoubleClick,    \* FACTORY_RESET_DOUBLE_CLICK_MS
  FailureWait,    \* FACTORY_RESET_FAILURE_WAIT_MS
  QueueLength,    \* BUZZER_QUEUE_LENGTH
  Alert, Warning, Cancelled, Failure   \* the longest each pattern takes

(* A level takes more than one sample to settle, two quick clicks fit into *)
(* the double-click time, the window is long enough for a pattern in       *)
(* progress and a double-click after it, and neither an alert nor a        *)
(* warning lasts as long as a long press.                                  *)
ASSUME GestureAssumption ==
  /\ {Debounce, Hold, Window, DoubleClick, FailureWait, QueueLength,
      Alert, Warning, Cancelled, Failure} \subseteq Nat \ {0}
  /\ Debounce > 1
  /\ WarningWait = Warning + 1
  /\ 2 * Debounce <= DoubleClick
  /\ \A pattern \in {Alert, Cancelled, Failure} : pattern + 4 * Debounce <= Window
  /\ Alert < Hold /\ Warning < Hold
  /\ Failure < FailureWait

VARIABLES
  button,     \* the debouncer: stablePressed, candidatePressed, -Samples
  phase,      \* where factoryResetService_Task is
  count,      \* pressedSamples, or the polls a wait has lasted
  armed, clicks, \* of the double-click detector; clickCount
  sinceClick, \* polls since firstClickAt, as far as they matter
  queue,      \* buzzerQueue
  playing,    \* the pattern that sounds
  remaining,  \* polls until it ends
  (* history *)
  samples,    \* the last samples of the button, at most Debounce
  level,      \* the last level that lasted for Debounce samples
  rested,     \* that level was "up" after the last gesture ended
  lastPress,  \* polls since level last became "down" in the window
  double,     \* a double-click has been made in the window
  warned,     \* the warning of this gesture has sounded in full
  untold      \* an outcome was posted and has not begun to sound

buzzer == <<queue, playing, remaining>>
gesture == <<button, phase, count, armed, clicks, sinceClick>>
history == <<samples, level, rested, lastPress, double, warned, untold>>
vars == <<gesture, buzzer, history>>

Phases == {"longPress", "warning", "window", "marker", "erasing",
           "cancelled",
           "markerFailed", "eraseFailed", "release"}
Events == {"alert", "warning", "cancelled", "failure"}

GestureTypeOK ==
  /\ button \in [stable : BOOLEAN, candidate : BOOLEAN, samples : 0..Debounce]
  /\ phase \in Phases
  /\ count \in Nat
  /\ armed \in BOOLEAN
  /\ clicks \in 0..1
  /\ sinceClick \in 0..(DoubleClick + 1)
  /\ queue \in Seq(Events) /\ Len(queue) <= QueueLength
  /\ playing \in Events \cup {"nothing", "startup"}
  /\ remaining \in Nat
  /\ samples \in Seq(BOOLEAN) /\ Len(samples) <= Debounce
  /\ level \in {"up", "down"}
  /\ lastPress \in 0..(DoubleClick + 1)
  /\ rested \in BOOLEAN /\ double \in BOOLEAN
  /\ warned \in BOOLEAN /\ untold \in BOOLEAN

NoSample == [stable |-> FALSE, candidate |-> FALSE, samples |-> 0]

Init ==
  /\ button = NoSample
  /\ phase = "longPress" /\ count = 0
  /\ armed = FALSE /\ clicks = 0 /\ sinceClick = 0
  /\ queue = <<>> /\ playing = "startup" /\ remaining = 1
  /\ samples = <<>> /\ level = "up" /\ rested = TRUE
  /\ lastPress = DoubleClick + 1 /\ double = FALSE /\ warned = FALSE
  /\ untold = FALSE

-------------------------------------------------------------------------------
(* The buzzer: buzzerService_Task and the queue. *)

(* buzzerService_Task receives the next event and plays its pattern.  The  *)
(* pattern of a high resource index takes longer.                          *)
Longest(e) == CASE e = "alert" -> Alert
                [] e = "warning" -> Warning
                [] e = "cancelled" -> Cancelled
                [] e = "failure" -> Failure

Idle == playing = "nothing"

Play ==
  /\ Idle
  /\ queue # <<>>
  /\ playing' = Head(queue)
  /\ queue' = Tail(queue)
  /\ remaining' \in IF Head(queue) = "alert" THEN 1..Alert ELSE {Longest(Head(queue))}
  /\ untold' = (untold /\ playing' \notin {"cancelled", "failure"})
  /\ UNCHANGED <<gesture, samples, level, rested, lastPress, double, warned>>

(* One poll of the pattern is over.                                        *)
Tick ==
  /\ Idle => queue = <<>>
  /\ remaining' = IF Idle THEN 0 ELSE remaining - 1
  /\ playing' = IF remaining' = 0 THEN "nothing" ELSE playing
  /\ warned' = (warned \/ (playing = "warning" /\ remaining' = 0))
  /\ UNCHANGED queue

(* Seeded fault: a reset event waits its turn.                             *)
PostLast(e) ==
  /\ queue' = IF Len(queue) < QueueLength THEN Append(queue, e) ELSE queue
  /\ UNCHANGED <<playing, remaining>>

(* BuzzerService_FactoryReset*: xQueueReset, xQueueSendToFront.            *)
Post(e) ==
  /\ queue' = <<e>>
  /\ UNCHANGED <<playing, remaining>>

(* Seeded fault: a full queue loses its oldest event instead.              *)
PostAlertDisplaces ==
  /\ queue' = Append(IF Len(queue) < QueueLength THEN queue ELSE Tail(queue), "alert")
  /\ UNCHANGED <<gesture, playing, remaining, history>>

(* BuzzerService_HealthCheckAlert and _CertificateWarning, from the health *)
(* check or the API; a full queue refuses.                                 *)
PostAlert ==
  /\ Len(queue) < QueueLength
  /\ queue' = Append(queue, "alert")
  /\ UNCHANGED <<gesture, playing, remaining, history>>

-------------------------------------------------------------------------------
(* The button. *)

(* factoryResetService_UpdateButton.                                       *)
UpdateButton(b, pressed) ==
  LET n == IF b.samples < Debounce THEN b.samples + 1 ELSE b.samples
  IN IF pressed # b.candidate
     THEN [stable |-> b.stable, candidate |-> pressed, samples |-> 1]
     ELSE [stable |-> IF n < Debounce THEN b.stable ELSE pressed,
           candidate |-> pressed, samples |-> n]

PressedEvent == ~button.stable /\ button'.stable

(* What the samples say, without the debouncer's way of counting.          *)
Settled(s, old) ==
  IF Len(s) = Debounce /\ \A i \in DOMAIN s : s[i] = s[1]
  THEN (IF s[1] THEN "down" ELSE "up")
  ELSE old

LastOf(s) == IF Len(s) > Debounce THEN Tail(s) ELSE s

(* One poll in which the button is sampled.                                *)
Sample ==
  /\ \E pressed \in BOOLEAN :
       /\ button' = UpdateButton(button, pressed)
       /\ samples' = LastOf(Append(samples, pressed))
  /\ level' = Settled(samples', level)
  /\ Tick

Clicked == level = "up" /\ level' = "down"

-------------------------------------------------------------------------------
(* factoryResetService_Task. *)

(* factoryResetService_WaitForLongPress.                                   *)
WaitForLongPress ==
  /\ phase = "longPress"
  /\ count < Hold
  /\ Sample
  /\ count' = IF button'.stable THEN count + 1 ELSE 0
  /\ rested' = (rested \/ level' = "up")
  /\ UNCHANGED <<phase, armed, clicks, sinceClick, lastPress, double, untold>>

ConfirmLongPress ==
  /\ phase = "longPress"
  /\ count = Hold
  /\ Post("warning")
  /\ phase' = "warning"
  /\ count' = 0
  /\ warned' = FALSE
  /\ UNCHANGED <<button, armed, clicks, sinceClick, samples, level, rested,
                 lastPress, double, untold>>

(* The warning sounds; edges are followed and ignored.                     *)
WaitForWarning ==
  /\ phase = "warning"
  /\ count < WarningWait
  /\ Sample
  /\ count' = count + 1
  /\ UNCHANGED <<phase, armed, clicks, sinceClick, rested, lastPress, double,
                 untold>>

WindowOpens ==
  /\ phase = "warning"
  /\ count = WarningWait
  /\ phase' = "window"
  /\ count' = 0
  /\ armed' = ~button.stable
  /\ clicks' = 0
  /\ sinceClick' = 0
  /\ lastPress' = DoubleClick + 1
  /\ double' = FALSE
  /\ UNCHANGED <<button, buzzer, samples, level, rested, warned, untold>>

(* One poll more, as far as polls since a click matter.                    *)
Later(n) == IF n > DoubleClick THEN n ELSE n + 1

(* Seeded fault: a click that comes too late does not count as a first.    *)
SinceFirstClickKept(event) ==
  IF event /\ clicks = 0 THEN 0 ELSE Later(sinceClick)

(* The polls since firstClickAt when a click that does not cancel counts   *)
(* as the first.                                                           *)
SinceFirstClick(event) == IF event THEN 0 ELSE Later(sinceClick)

(* factoryResetService_WaitForCancellation: the second press of two in     *)
(* quick succession cancels; a press that comes too late is a first again. *)
WaitForCancellation ==
  /\ phase = "window"
  /\ count < Window
  /\ Sample
  /\ count' = count + 1
  /\ armed' = (armed \/ (button.stable /\ ~button'.stable))
  /\ LET event == armed /\ PressedEvent
     IN IF event /\ clicks = 1 /\ Later(sinceClick) <= DoubleClick
        THEN phase' = "cancelled" /\ UNCHANGED <<clicks, sinceClick>>
        ELSE /\ clicks' = IF event THEN 1 ELSE clicks
             /\ sinceClick' = SinceFirstClick(event)
             /\ UNCHANGED phase
  /\ lastPress' = IF Clicked THEN 0 ELSE Later(lastPress)
  /\ double' = (double \/ (Clicked /\ Later(lastPress) <= DoubleClick))
  /\ UNCHANGED <<rested, untold>>

Cancel ==
  /\ phase = "cancelled"
  /\ Post("cancelled")
  /\ phase' = "release"
  /\ rested' = (level = "up")
  /\ untold' = TRUE
  /\ UNCHANGED <<button, count, armed, clicks, sinceClick, samples, level,
                 lastPress, double, warned>>

WindowExpires ==
  /\ phase = "window"
  /\ count = Window
  /\ phase' = "marker"
  /\ UNCHANGED <<button, count, armed, clicks, sinceClick, buzzer, history>>

(* Flash operations take their time.                                       *)
FlashWorks ==
  /\ phase \in {"marker", "erasing"}
  /\ Tick
  /\ UNCHANGED <<gesture, samples, level, rested, lastPress, double, untold>>

MarkerWritten ==
  /\ phase = "marker"
  /\ phase' = "erasing"
  /\ UNCHANGED <<button, count, armed, clicks, sinceClick, buzzer, history>>

(* The failure is reported and the task sits out the tone.                 *)
FlashFails ==
  /\ phase \in {"marker", "erasing"}
  /\ Post("failure")
  /\ phase' = IF phase = "marker" THEN "markerFailed" ELSE "eraseFailed"
  /\ count' = 0
  /\ untold' = (untold \/ phase = "marker")
  /\ UNCHANGED <<button, armed, clicks, sinceClick, samples, level, rested,
                 lastPress, double, warned>>

WaitForTone ==
  /\ phase \in {"markerFailed", "eraseFailed"}
  /\ count < FailureWait
  /\ Tick
  /\ count' = count + 1
  /\ UNCHANGED <<button, phase, armed, clicks, sinceClick, samples, level,
                 rested, lastPress, double, untold>>

(* "Reset cancelled" after a marker that could not be written.             *)
GiveUp ==
  /\ phase = "markerFailed"
  /\ count = FailureWait
  /\ phase' = "release"
  /\ rested' = (level = "up")
  /\ UNCHANGED <<button, count, armed, clicks, sinceClick, buzzer, samples,
                 level, lastPress, double, warned, untold>>

(* Seeded fault: the task does not wait for the button to be released.     *)
ReleasedAtOnce ==
  /\ phase = "release"
  /\ phase' = "longPress"
  /\ count' = 0
  /\ UNCHANGED <<button, armed, clicks, sinceClick, buzzer, history>>

(* factoryResetService_WaitForRelease.                                     *)
WaitForRelease ==
  /\ phase = "release"
  /\ button.stable
  /\ Sample
  /\ rested' = (rested \/ level' = "up")
  /\ UNCHANGED <<phase, count, armed, clicks, sinceClick, lastPress, double,
                 untold>>

Released ==
  /\ phase = "release"
  /\ ~button.stable
  /\ phase' = "longPress"
  /\ count' = 0
  /\ UNCHANGED <<button, armed, clicks, sinceClick, buzzer, history>>

(* factoryResetService_Restart, after the erasure or the tone.             *)
Restart ==
  /\ phase = "erasing" \/ (phase = "eraseFailed" /\ count = FailureWait)
  /\ button' = NoSample
  /\ phase' = "longPress" /\ count' = 0
  /\ armed' = FALSE /\ clicks' = 0 /\ sinceClick' = 0
  /\ queue' = <<>> /\ playing' = "startup" /\ remaining' = 1
  /\ samples' = <<>> /\ level' = "up" /\ rested' = TRUE
  /\ lastPress' = DoubleClick + 1 /\ double' = FALSE /\ warned' = FALSE
  /\ UNCHANGED untold

ResetTask ==
  \/ WaitForLongPress \/ ConfirmLongPress \/ WaitForWarning \/ WindowOpens
  \/ WaitForCancellation \/ Cancel \/ WindowExpires
  \/ MarkerWritten \/ FlashFails \/ WaitForTone \/ GiveUp
  \/ WaitForRelease \/ Released \/ Restart

Next == ResetTask \/ FlashWorks \/ Play \/ PostAlert

Spec == Init /\ [][Next]_vars

(* Both tasks run; nothing is assumed of the button or of the alerts.      *)
FairSpec == Spec /\ WF_vars(ResetTask) /\ WF_vars(Play)

-------------------------------------------------------------------------------
(* Properties. *)

(* A press that belongs to one gesture never counts towards the next: when *)
(* a long press is being measured the button has been up, debounced, since *)
(* the last gesture ended ("Prevent a completed gesture from becoming the  *)
(* next long press", factoryResetService_WaitForRelease).                  *)
PressIsFresh == phase = "longPress" /\ count > 0 => rested

(* A double-click made in the window always cancels, whatever came before  *)
(* it, and nothing else does.                                              *)
DoubleClickCancels ==
  /\ phase \in {"marker", "erasing"} => ~double
  /\ phase = "cancelled" => double

(* Whatever sounds or is queued when the long press is confirmed, the      *)
(* warning is over while there is still time to release the button and     *)
(* double-click (README, "wait for the active alert and warning tones to   *)
(* finish before entering the cancellation double-click").                 *)
WarnedInTime ==
  /\ phase = "window" /\ count > Window - 4 * Debounce => warned
  /\ phase \in {"marker", "erasing"} => warned

(* The user is always told, in the end, that a reset was cancelled or     *)
(* failed for want of a marker: an alert in progress only delays the event *)
(* posted by BuzzerService_FactoryReset*, alerts posted later do not push  *)
(* it out, and the next gesture does not flush it.                         *)
OutcomeIsHeard == []<>~untold

(* "Five short tones report a Flash failure" (README): the device does not *)
(* restart before they have begun.  The code does not keep this when an    *)
(* alert is sounding; the project's README tells how.                      *)
FailureIsHeard ==
  [][phase = "eraseFailed" /\ phase' = "longPress" =>
       "failure" \notin Range(queue)]_vars
===============================================================================
