------------------------ MODULE CallbackPipelineProofs ------------------------
(***************************************************************************)
(* No event of the callback pipeline is lost unaccounted for, delivered    *)
(* without a record or out of order, and no setting is used more than once *)
(* after it changed: for any number of resources, any queue length and any *)
(* number of records.                                                      *)
(***************************************************************************)
EXTENDS CallbackPipeline, WellFoundedInduction, TLAPS

(* Where a check is: its resource is the first of those that remain, its   *)
(* record has the last number given out, and no number of an event exceeds *)
(* those given out.                                                        *)
CheckInProgress ==
  /\ checker = "sleep" => pending = {}
  /\ checker \in {"checking", "append", "enqueue"} => pending # {}
  /\ checker \in {"checking", "append"} => nextSequence <= MaxRecords
  /\ checker = "enqueue" =>
       entry = nextSequence - 1 /\ entry \in persisted /\ newest < entry
  /\ persisted \subseteq 1..(nextSequence - 1)
  /\ newest < nextSequence
  /\ received <= newest
  /\ enqueued <= newest

(* Nothing in the queue is newer than the newest event.                    *)
QueueBounded == \A i \in DOMAIN queue : queue[i] <= newest

(* Who may still act on an old setting has not done so yet.                *)
NotYetLate ==
  /\ callbackEnabled \/ sender = "ready" => late = 0
  /\ \A r \in enabledResources : lateChecks[r] = 0
  /\ \A r \in pending : checker = "cycle" \/ r # Min(pending) => lateChecks[r] = 0

PipelineInvariant ==
  /\ TypeOK
  /\ CheckInProgress
  /\ QueuedWerePersisted
  /\ EveryEventAccounted
  /\ QueueBounded
  /\ NewestKept
  /\ NotYetLate
  /\ AtMostOneLate
-------------------------------------------------------------------------------
(* Operators. *)

(* A set of natural numbers that is not empty has a least element.         *)
LEMMA MinMember ==
  ASSUME NEW S \in SUBSET Nat, S # {}
  PROVE  Min(S) \in S
<1>1. PICK x \in S : \A y \in S : ~(<<y, x>> \in OpToRel(<, Nat))
  BY NatLessThanWellFounded, WFMin, Zenon
<1>2. ASSUME NEW y \in S, y < x
      PROVE  FALSE
  <2>1. <<y, x>> \in Nat \X Nat /\ <<y, x>>[1] < <<y, x>>[2]
    BY <1>2
  <2>2. <<y, x>> \in OpToRel(<, Nat)
    BY <2>1, Zenon DEF OpToRel
  <2> QED
    BY <1>1, <2>2, Zenon
<1>3. \A y \in S : x <= y
  <2>1. x \in Nat /\ S \subseteq Nat
    OBVIOUS
  <2> QED
    BY <1>2, <2>1
<1> QED
  BY <1>3, Zenon DEF Min

(* What a queue looks like after its oldest event was taken off.           *)
LEMMA TailOf ==
  ASSUME NEW S, NEW q \in Seq(S), q # <<>>
  PROVE  /\ Tail(q) \in Seq(S)
         /\ Len(Tail(q)) = Len(q) - 1 /\ Len(q) \in Nat \ {0}
         /\ \A i \in 1..(Len(q) - 1) : Tail(q)[i] = q[i + 1]
         /\ Head(q) = q[1] /\ Head(q) \in S
OBVIOUS

(* a is q after e was queued: e comes last, the others move up by one      *)
(* place if the oldest had to go.                                          *)
Queued(q, e, a) ==
  \E shift \in {0, 1} :
    /\ shift = (IF Len(q) = QueueLength THEN 1 ELSE 0)
    /\ Len(a) = Len(q) - shift + 1
    /\ a[Len(q) - shift + 1] = e
    /\ \A i \in 1..(Len(q) - shift) : a[i] = q[i + shift]

(* CallbackService_Enqueue keeps the queue within its length.              *)
LEMMA AdmitEffect ==
  ASSUME NEW S, NEW q \in Seq(S), Len(q) <= QueueLength, NEW e \in S
  PROVE  /\ Admit(q, e) \in Seq(S)
         /\ Len(Admit(q, e)) \in 1..QueueLength
         /\ Queued(q, e, Admit(q, e))
<1>0. PICK shift \in {0, 1} : shift = (IF Len(q) = QueueLength THEN 1 ELSE 0)
  OBVIOUS
<1> DEFINE rest == IF Len(q) = QueueLength THEN Tail(q) ELSE q
<1>1. /\ rest \in Seq(S) /\ Len(rest) = Len(q) - shift /\ Len(rest) \in Nat
      /\ \A i \in 1..(Len(q) - shift) : rest[i] = q[i + shift]
      /\ Len(rest) < QueueLength
  <2>1. CASE Len(q) = QueueLength
    <3>1. q # <<>>
      BY <2>1, PipelineAssumption
    <3> QED
      BY <1>0, <2>1, <3>1, TailOf, PipelineAssumption
  <2>2. CASE Len(q) # QueueLength
    BY <1>0, <2>2, PipelineAssumption
  <2> QED
    BY <2>1, <2>2
<1>2. Admit(q, e) = Append(rest, e)
  BY DEF Admit
<1> HIDE DEF rest
<1>3. /\ Append(rest, e) \in Seq(S) /\ Len(Append(rest, e)) = Len(rest) + 1
      /\ Append(rest, e)[Len(rest) + 1] = e
      /\ \A i \in 1..Len(rest) : Append(rest, e)[i] = rest[i]
  BY <1>1
<1>4. /\ Len(Append(rest, e)) = Len(q) - shift + 1
      /\ Append(rest, e)[Len(q) - shift + 1] = e
      /\ \A i \in 1..(Len(q) - shift) : Append(rest, e)[i] = q[i + shift]
      /\ Len(Append(rest, e)) \in 1..QueueLength
  BY <1>1, <1>3, PipelineAssumption
<1>5. Queued(q, e, Append(rest, e))
  BY <1>0, <1>4 DEF Queued
<1> QED
  BY <1>2, <1>3, <1>4, <1>5

(* The set of a queue's events, by their places.                           *)
LEMMA QueueSet ==
  ASSUME NEW S, NEW q \in Seq(S)
  PROVE  /\ DOMAIN q = 1..Len(q) /\ Len(q) \in Nat
         /\ \A i \in 1..Len(q) : q[i] \in S
         /\ \A x : x \in Range(q) <=> \E i \in 1..Len(q) : q[i] = x
BY DEF Range

(* The initial states.                                                     *)
LEMMA PipelineInit == Init => PipelineInvariant
<1> SUFFICES ASSUME Init
             PROVE  PipelineInvariant
  OBVIOUS
<1>1. TypeOK
  <2>1. callbackEnabled \in BOOLEAN /\ healthy \in BOOLEAN
    BY Zenon DEF Init
  <2>2. queue \in Seq(1..MaxRecords) /\ Len(queue) <= QueueLength
    BY PipelineAssumption DEF Init
  <2>3. lateChecks \in [Resources -> 0..MaxRecords]
    BY PipelineAssumption DEF Init
  <2> QED
    BY <2>1, <2>2, <2>3, PipelineAssumption DEF Init, TypeOK
<1>2. DOMAIN queue = {} /\ Range(queue) = {} /\ Len(queue) = 0
  BY DEF Init, Range
<1>3. CheckInProgress /\ QueuedWerePersisted /\ EveryEventAccounted /\ QueueBounded
      /\ NewestKept
  BY <1>2 DEF Init, CheckInProgress, QueuedWerePersisted, EveryEventAccounted,
              QueueBounded, NewestKept
<1>4. NotYetLate /\ AtMostOneLate
  BY DEF Init, NotYetLate, AtMostOneLate
<1> QED
  BY <1>1, <1>3, <1>4 DEF PipelineInvariant
-------------------------------------------------------------------------------
(* Types. *)

(* What the accounting of events and the numbering of records leave room   *)
(* for: a counter that is about to grow has not reached MaxRecords.        *)
LEMMA RoomToCount ==
  ASSUME PipelineInvariant
  PROVE  /\ sender # "wait" =>
              skipped + 1 \in 0..MaxRecords /\ successCount + 1 \in 0..MaxRecords
              /\ failureCount + 1 \in 0..MaxRecords /\ MaxRecords >= 1
         /\ checker = "enqueue" =>
              /\ entry \in 1..MaxRecords
              /\ enqueued + 1 \in 0..MaxRecords /\ enqueued + 1 <= entry
              /\ droppedCount + 1 \in 0..MaxRecords
<1>1. /\ successCount \in Nat /\ failureCount \in Nat /\ droppedCount \in Nat
      /\ skipped \in Nat /\ enqueued \in Nat /\ newest \in Nat /\ entry \in Nat
      /\ nextSequence \in 1..(MaxRecords + 1) /\ MaxRecords \in Nat
      /\ Len(queue) \in Nat
  BY PipelineAssumption DEF PipelineInvariant, TypeOK
<1>2. /\ enqueued <= newest /\ newest < nextSequence
      /\ checker = "enqueue" => entry = nextSequence - 1 /\ newest < entry
  BY DEF PipelineInvariant, CheckInProgress
<1>3. enqueued = droppedCount + successCount + failureCount + skipped + Len(queue)
                 + (IF sender = "wait" THEN 0 ELSE 1)
  BY DEF PipelineInvariant, EveryEventAccounted
<1>4. CASE sender # "wait"
  BY <1>1, <1>2, <1>3, <1>4
<1>5. CASE sender = "wait"
  BY <1>1, <1>2, <1>3, <1>5
<1> QED
  BY <1>4, <1>5

(* The result of a check or of a delivery is a truth value.                *)
LEMMA ResultsAreBoolean ==
  /\ {Healthy(result) : result \in TlsTransport_Request} \subseteq BOOLEAN
  /\ {Delivered(result) : result \in TlsTransport_Request} \subseteq BOOLEAN
BY Zenon DEF Healthy, Delivered

LEMMA PipelineTypeStep ==
  ASSUME PipelineInvariant, [Next]_vars
  PROVE  TypeOK'
<1> USE PipelineAssumption DEF config, checkerVars, counters, senderVars, queueVars,
        Take, Give
<1>0. TypeOK /\ CheckInProgress /\ AtMostOneLate
  BY DEF PipelineInvariant
<1>1. CASE CycleStart
  BY <1>0, <1>1 DEF CycleStart, TypeOK
<1>2. CASE CycleEnd
  BY <1>0, <1>2 DEF CycleEnd, TypeOK
<1>3. CASE CheckBegin
  <2>1. lateChecks' \in [Resources -> 0..MaxRecords]
    <3> DEFINE r == Min(pending)
    <3>1. MaxRecords >= 1
      BY <1>0, <1>3 DEF CheckBegin, TypeOK
    <3>2. r \in pending /\ r \in Resources
      <4>1. pending \in SUBSET Nat /\ pending # {} /\ pending \subseteq Resources
        BY <1>0, <1>3 DEF CheckBegin, TypeOK
      <4> QED
        BY <4>1, MinMember, Zenon
    <3> HIDE DEF r
    <3>3. lateChecks[r] = 0
      BY <1>3, <3>2 DEF CheckBegin, NotYetLate, PipelineInvariant
    <3>4. lateChecks' = [lateChecks EXCEPT ![r] =
                           IF r \in enabledResources THEN @ ELSE @ + 1]
      BY <1>3 DEF CheckBegin, r
    <3>5. lateChecks \in [Resources -> 0..MaxRecords]
      BY <1>0 DEF TypeOK
    <3> QED
      BY <3>1, <3>2, <3>3, <3>4, <3>5
  <2> QED
    BY <1>0, <1>3, <2>1 DEF CheckBegin, TypeOK
<1>4. CASE CheckEnd
  <2>1. healthy' \in BOOLEAN
    BY <1>4, ResultsAreBoolean DEF CheckEnd
  <2> QED
    BY <1>0, <1>4, <2>1 DEF CheckEnd, TypeOK
<1>5. CASE AppendRecord
  <2>1. /\ nextSequence' \in {nextSequence, nextSequence + 1}
        /\ entry' \in {entry, nextSequence}
        /\ persisted' \in {persisted, persisted \cup {nextSequence}}
        /\ pending' \subseteq pending
        /\ checker' \in {"enqueue", "cycle"}
        /\ healthy' = FALSE
        /\ nextSequence \in 1..MaxRecords
    BY <1>0, <1>5 DEF AppendRecord, NextResource, TypeOK, CheckInProgress
  <2>2. /\ persisted' \subseteq 1..MaxRecords /\ pending' \subseteq Resources
        /\ nextSequence' \in 1..(MaxRecords + 1) /\ entry' \in 0..MaxRecords
    BY <1>0, <2>1 DEF TypeOK
  <2>3. UNCHANGED <<config, tlsLock, lateChecks, queueVars, senderVars, api>>
    BY <1>5 DEF AppendRecord
  <2> QED
    BY <1>0, <2>1, <2>2, <2>3, Zenon DEF TypeOK
<1>6. CASE Enqueue
  <2>1. /\ entry \in 1..MaxRecords /\ enqueued + 1 \in 0..MaxRecords
        /\ droppedCount + 1 \in 0..MaxRecords
    BY <1>6, RoomToCount DEF Enqueue
  <2>2. queue' \in Seq(1..MaxRecords) /\ Len(queue') <= QueueLength
    <3>1. /\ queue \in Seq(1..MaxRecords) /\ Len(queue) <= QueueLength
          /\ queue' = Admit(queue, entry)
      BY <1>0, <1>6 DEF Enqueue, TypeOK
    <3>2. /\ Admit(queue, entry) \in Seq(1..MaxRecords)
          /\ Len(Admit(queue, entry)) \in 1..QueueLength
      BY <2>1, <3>1, AdmitEffect
    <3> QED
      BY <3>1, <3>2
  <2>3. /\ droppedCount' \in {droppedCount, droppedCount + 1}
        /\ enqueued' = enqueued + 1 /\ newest' = entry /\ entry' = 0
        /\ checker' = "cycle" /\ pending' = pending \ {Min(pending)}
        /\ UNCHANGED <<config, tlsLock, healthy, nextSequence, persisted, lateChecks,
                       senderVars, api>>
    BY <1>6 DEF Enqueue, NextResource
  <2>4. pending \subseteq Resources /\ droppedCount \in 0..MaxRecords
    BY <1>0 DEF TypeOK
  <2>5. pending' \subseteq Resources
    BY <2>3, <2>4, Zenon
  <2>6. droppedCount' \in 0..MaxRecords
    BY <2>1, <2>3, <2>4
  <2>7. /\ enqueued' \in 0..MaxRecords
        /\ newest' \in 0..MaxRecords /\ entry' \in 0..MaxRecords
    BY <2>1, <2>3
  <2> QED
    BY <1>0, <2>2, <2>3, <2>5, <2>6, <2>7 DEF TypeOK
<1>7. CASE Receive
  <2>1. /\ queue' \in Seq(1..MaxRecords) /\ Len(queue') <= QueueLength
        /\ Head(queue) \in 1..MaxRecords
    <3>1. /\ queue \in Seq(1..MaxRecords) /\ Len(queue) <= QueueLength
          /\ queue # <<>> /\ queue' = Tail(queue)
      BY <1>0, <1>7 DEF Receive, TypeOK
    <3>2. /\ Tail(queue) \in Seq(1..MaxRecords) /\ Len(Tail(queue)) = Len(queue) - 1
          /\ Len(queue) \in Nat \ {0} /\ Head(queue) \in 1..MaxRecords
      BY <3>1, TailOf
    <3> QED
      BY <3>1, <3>2
  <2>2. /\ event' = Head(queue) /\ received' = Head(queue) /\ sender' = "received"
        /\ UNCHANGED <<config, tlsLock, checkerVars, droppedCount, enqueued, newest,
                       counters, skipped, late, api>>
    BY <1>7 DEF Receive
  <2> QED
    BY <1>0, <2>1, <2>2 DEF TypeOK
<1>8. CASE ReadConfig
  <2>1. skipped + 1 \in 0..MaxRecords
    BY <1>8, RoomToCount DEF ReadConfig
  <2>2. CASE sender' = "ready" /\ UNCHANGED <<event, skipped>>
    BY <1>0, <1>8, <2>2 DEF ReadConfig, TypeOK
  <2>3. CASE sender' = "wait" /\ event' = 0 /\ skipped' = skipped + 1
    BY <1>0, <1>8, <2>1, <2>3 DEF ReadConfig, TypeOK
  <2> QED
    BY <1>8, <2>2, <2>3 DEF ReadConfig
<1>9. CASE SendBegin
  <2>1. late' \in 0..MaxRecords
    <3>1. late \in 0..1 /\ MaxRecords >= 1 /\ late = 0
      BY <1>0, <1>9, RoomToCount DEF SendBegin, TypeOK, PipelineInvariant, NotYetLate,
         AtMostOneLate
    <3> QED
      BY <1>9, <3>1 DEF SendBegin
  <2> QED
    BY <1>0, <1>9, <2>1 DEF SendBegin, TypeOK
<1>10. CASE SendEnd
  <2>1. successCount + 1 \in 0..MaxRecords /\ failureCount + 1 \in 0..MaxRecords
    BY <1>10, RoomToCount DEF SendEnd
  <2>2. /\ successCount' \in 0..MaxRecords
        /\ failureCount' \in 0..MaxRecords
    BY <1>0, <1>10, <2>1 DEF SendEnd, TypeOK
  <2>3. /\ tlsLock' = "none" /\ sender' = "wait" /\ event' = 0
        /\ UNCHANGED <<config, checkerVars, queueVars, skipped, received, late, api>>
    BY <1>10 DEF SendEnd
  <2> QED
    BY <1>0, <2>2, <2>3 DEF TypeOK
<1>11. CASE ApiAccept
  BY <1>0, <1>11 DEF ApiAccept, TypeOK
<1>12. CASE ApiSetCallback
  BY <1>0, <1>12 DEF ApiSetCallback, TypeOK
<1>13. CASE ApiClose
  BY <1>0, <1>13 DEF ApiClose, TypeOK
<1>14. ASSUME NEW r \in Resources, ApiSetResource(r)
       PROVE  TypeOK'
  BY <1>0, <1>14 DEF ApiSetResource, TypeOK
<1>15. CASE UNCHANGED vars
  BY <1>0, <1>15 DEF vars, TypeOK
<1> QED
  BY <1>1, <1>2, <1>3, <1>4, <1>5, <1>6, <1>7, <1>8, <1>9, <1>10, <1>11, <1>12, <1>13,
     <1>14, <1>15 DEF Next, CheckerStep, SenderStep, ApiStep
-------------------------------------------------------------------------------
(* The rest of the invariant, step by step. *)

(* AppendRecord by its outcome: a verified record of a failed check goes   *)
(* on to the queue, everything else ends the resource's turn.              *)
LEMMA AppendOutcome ==
  ASSUME AppendRecord
  PROVE  /\ checker = "append"
         /\ nextSequence' \in {nextSequence, nextSequence + 1}
         /\ \/ /\ nextSequence' = nextSequence + 1
               /\ entry' = nextSequence
               /\ persisted' = persisted \cup {nextSequence}
               /\ checker' = "enqueue" /\ pending' = pending
            \/ /\ NextResource
               /\ entry' = entry /\ persisted' = persisted
         /\ UNCHANGED <<config, tlsLock, lateChecks, queueVars, senderVars, api>>
BY DEF AppendRecord

LEMMA IntervalGrows ==
  ASSUME NEW a \in Nat, NEW b \in Nat, a <= b
  PROVE  1..(a - 1) \subseteq 1..(b - 1)
OBVIOUS

(* Enqueue by its effect on the queue: shift is 1 if the oldest event went. *)
LEMMA EnqueueOutcome ==
  ASSUME PipelineInvariant, Enqueue
  PROVE  \E shift \in {0, 1} :
           /\ shift = (IF Len(queue) = QueueLength THEN 1 ELSE 0)
           /\ shift <= Len(queue) /\ Len(queue) \in Nat
           /\ queue' \in Seq(1..MaxRecords)
           /\ Len(queue') = Len(queue) - shift + 1
           /\ queue'[Len(queue) - shift + 1] = entry
           /\ \A i \in 1..(Len(queue) - shift) : queue'[i] = queue[i + shift]
<1>1. /\ queue \in Seq(1..MaxRecords) /\ Len(queue) <= QueueLength
      /\ entry \in 1..MaxRecords /\ queue' = Admit(queue, entry)
  BY RoomToCount DEF PipelineInvariant, TypeOK, Enqueue
<1>2. queue' \in Seq(1..MaxRecords) /\ Queued(queue, entry, queue')
  BY <1>1, AdmitEffect, Zenon
<1>3. QueueLength <= Len(queue) => 1 <= Len(queue)
  BY <1>1, PipelineAssumption
<1> QED
  BY <1>1, <1>2, <1>3 DEF Queued

LEMMA CheckInProgressStep ==
  ASSUME PipelineInvariant, [Next]_vars
  PROVE  CheckInProgress'
<1> USE PipelineAssumption DEF checkerVars, senderVars, queueVars
<1>0. TypeOK /\ CheckInProgress
  BY DEF PipelineInvariant
<1>1. CASE CycleStart
  BY <1>0, <1>1 DEF CycleStart, CheckInProgress
<1>2. CASE CycleEnd
  BY <1>0, <1>2 DEF CycleEnd, CheckInProgress
<1>3. CASE CheckBegin
  BY <1>0, <1>3 DEF CheckBegin, CheckInProgress
<1>4. CASE CheckEnd
  BY <1>0, <1>4 DEF CheckEnd, CheckInProgress
<1>5. CASE AppendRecord
  <2>1. /\ checker = "append" /\ nextSequence \in Nat /\ newest \in Nat /\ pending # {}
        /\ persisted \subseteq 1..(nextSequence - 1) /\ newest < nextSequence
    BY <1>0, <1>5, AppendOutcome DEF CheckInProgress, TypeOK
  <2>2. UNCHANGED <<queueVars, senderVars>> /\ nextSequence' \in {nextSequence, nextSequence + 1}
    BY <1>5, AppendOutcome
  <2>3. CASE /\ nextSequence' = nextSequence + 1
             /\ entry' = nextSequence
             /\ persisted' = persisted \cup {nextSequence}
             /\ checker' = "enqueue" /\ pending' = pending
    BY <1>0, <2>1, <2>2, <2>3 DEF CheckInProgress
  <2>4. CASE NextResource /\ entry' = entry /\ persisted' = persisted
    <3>1. checker' = "cycle" /\ persisted' = persisted
      BY <2>4 DEF NextResource
    <3>2. newest' < nextSequence'
      BY <2>1, <2>2
    <3>3. persisted' \subseteq 1..(nextSequence' - 1)
      <4>1. \A x \in persisted : x \in 1..(nextSequence - 1)
        BY <2>1
      <4>2. nextSequence \in Nat /\ nextSequence' \in Nat /\ nextSequence <= nextSequence'
        BY <2>1, <2>2
      <4>3. 1..(nextSequence - 1) \subseteq 1..(nextSequence' - 1)
        BY <4>2, IntervalGrows, Zenon
      <4> QED
        BY <3>1, <4>1, <4>3
    <3> QED
      BY <1>0, <2>2, <3>1, <3>2, <3>3 DEF CheckInProgress
  <2> QED
    BY <1>5, <2>3, <2>4, AppendOutcome
<1>6. CASE Enqueue
  <2>1. /\ entry \in Nat /\ enqueued \in Nat /\ newest \in Nat /\ received \in Nat
        /\ nextSequence \in Nat
    BY <1>0 DEF TypeOK
  <2>2. /\ entry = nextSequence - 1 /\ newest < entry /\ received <= newest
        /\ enqueued <= newest /\ persisted \subseteq 1..(nextSequence - 1)
    BY <1>0, <1>6 DEF CheckInProgress, Enqueue
  <2>3. /\ enqueued' = enqueued + 1 /\ newest' = entry /\ checker' = "cycle"
        /\ UNCHANGED <<nextSequence, persisted, received>>
    BY <1>6 DEF Enqueue, NextResource
  <2> QED
    BY <2>1, <2>2, <2>3 DEF CheckInProgress
<1>7. CASE Receive
  <2>1. Head(queue) <= newest
    <3>1. queue \in Seq(1..MaxRecords) /\ queue # <<>>
      BY <1>0, <1>7 DEF Receive, TypeOK
    <3>2. 1 \in DOMAIN queue /\ Head(queue) = queue[1]
      BY <3>1
    <3> QED
      BY <3>2 DEF PipelineInvariant, QueueBounded
  <2> QED
    BY <1>0, <1>7, <2>1 DEF Receive, CheckInProgress
<1>8. CASE ReadConfig
  BY <1>0, <1>8 DEF ReadConfig, CheckInProgress
<1>9. CASE SendBegin
  BY <1>0, <1>9 DEF SendBegin, CheckInProgress
<1>10. CASE SendEnd
  BY <1>0, <1>10 DEF SendEnd, CheckInProgress
<1>11. CASE ApiAccept \/ ApiSetCallback \/ ApiClose
  BY <1>0, <1>11, Zenon DEF ApiAccept, ApiSetCallback, ApiClose, CheckInProgress
<1>12. ASSUME NEW r \in Resources, ApiSetResource(r)
       PROVE  CheckInProgress'
  BY <1>0, <1>12 DEF ApiSetResource, CheckInProgress
<1>13. CASE UNCHANGED vars
  BY <1>0, <1>13 DEF vars, CheckInProgress
<1> QED
  BY <1>1, <1>2, <1>3, <1>4, <1>5, <1>6, <1>7, <1>8, <1>9, <1>10, <1>11, <1>12, <1>13
     DEF Next, CheckerStep, SenderStep, ApiStep

LEMMA QueuedWerePersistedStep ==
  ASSUME PipelineInvariant, [Next]_vars
  PROVE  QueuedWerePersisted'
<1> USE DEF checkerVars, senderVars, queueVars
<1>0. /\ TypeOK /\ QueuedWerePersisted
      /\ queue \in Seq(1..MaxRecords) /\ Len(queue) <= QueueLength
  BY Zenon DEF PipelineInvariant, TypeOK
<1>1. CASE CycleStart \/ CycleEnd \/ CheckBegin \/ CheckEnd
  BY <1>0, <1>1 DEF CycleStart, CycleEnd, CheckBegin, CheckEnd, QueuedWerePersisted
<1>2. CASE AppendRecord
  <2>1. persisted \subseteq persisted' /\ UNCHANGED <<queue, sender, event>>
    BY <1>2, AppendOutcome
  <2> QED
    BY <1>0, <2>1 DEF QueuedWerePersisted
<1>3. CASE Enqueue
  <2>1. /\ entry \in 1..MaxRecords /\ entry \in persisted
        /\ queue' = Admit(queue, entry)
        /\ UNCHANGED <<persisted, sender, event>>
    BY <1>3, RoomToCount DEF Enqueue, PipelineInvariant, CheckInProgress
  <2>2. PICK shift \in {0, 1} :
          /\ queue' \in Seq(1..MaxRecords) /\ Len(queue) \in Nat /\ shift <= Len(queue)
          /\ Len(queue') = Len(queue) - shift + 1
          /\ queue'[Len(queue) - shift + 1] = entry
          /\ \A i \in 1..(Len(queue) - shift) : queue'[i] = queue[i + shift]
    BY <1>3, EnqueueOutcome
  <2>4. ASSUME NEW x \in Range(queue')
        PROVE  x \in persisted
    <3>1. PICK i \in 1..Len(queue') : queue'[i] = x
      BY <2>2, QueueSet
    <3>2. Len(queue) \in Nat
      BY <1>0
    <3>3. CASE i = Len(queue) - shift + 1
      BY <2>1, <2>2, <3>1, <3>3
    <3>4. CASE i # Len(queue) - shift + 1
      <4>1. i \in 1..(Len(queue) - shift) /\ i + shift \in 1..Len(queue)
        BY <2>2, <3>1, <3>2, <3>4
      <4>2. x = queue[i + shift]
        BY <2>2, <3>1, <4>1
      <4>3. x \in Range(queue)
        BY <1>0, <4>1, <4>2, QueueSet
      <4> QED
        BY <1>0, <4>3 DEF QueuedWerePersisted
    <3> QED
      BY <3>3, <3>4
  <2> QED
    BY <1>0, <2>1, <2>4 DEF QueuedWerePersisted
<1>4. CASE Receive
  <2>1. /\ queue # <<>> /\ queue' = Tail(queue) /\ event' = Head(queue)
        /\ UNCHANGED persisted
    BY <1>4 DEF Receive
  <2>2. /\ queue' \in Seq(1..MaxRecords) /\ Len(queue') = Len(queue) - 1
        /\ Len(queue) \in Nat \ {0} /\ Head(queue) = queue[1]
        /\ \A i \in 1..(Len(queue) - 1) : queue'[i] = queue[i + 1]
    BY <1>0, <2>1, TailOf
  <2>3. Head(queue) \in Range(queue)
    BY <1>0, <2>2, QueueSet
  <2>4. ASSUME NEW x \in Range(queue')
        PROVE  x \in Range(queue)
    <3>1. PICK i \in 1..Len(queue') : queue'[i] = x
      BY <2>2, QueueSet
    <3>2. i + 1 \in 1..Len(queue) /\ queue[i + 1] = x
      BY <2>2, <3>1
    <3> QED
      BY <1>0, <3>2, QueueSet
  <2> QED
    BY <1>0, <2>1, <2>3, <2>4 DEF QueuedWerePersisted
<1>5. CASE ReadConfig \/ SendBegin \/ SendEnd
  BY <1>0, <1>5 DEF ReadConfig, SendBegin, SendEnd, QueuedWerePersisted
<1>6. CASE ApiStep
  BY <1>0, <1>6 DEF ApiStep, ApiAccept, ApiSetCallback, ApiSetResource, ApiClose,
     QueuedWerePersisted
<1>7. CASE UNCHANGED vars
  BY <1>0, <1>7 DEF vars, QueuedWerePersisted
<1> QED
  BY <1>1, <1>2, <1>3, <1>4, <1>5, <1>6, <1>7 DEF Next, CheckerStep, SenderStep

LEMMA EveryEventAccountedStep ==
  ASSUME PipelineInvariant, [Next]_vars
  PROVE  EveryEventAccounted'
<1> USE DEF checkerVars, counters, senderVars, queueVars
<1>0. /\ EveryEventAccounted
      /\ queue \in Seq(1..MaxRecords) /\ Len(queue) <= QueueLength
  BY DEF PipelineInvariant, TypeOK
<1>1. /\ successCount \in Nat /\ failureCount \in Nat /\ droppedCount \in Nat
      /\ skipped \in Nat /\ enqueued \in Nat /\ Len(queue) \in Nat
  BY PipelineAssumption DEF PipelineInvariant, TypeOK
<1>2. CASE CycleStart \/ CycleEnd \/ CheckBegin \/ CheckEnd
  BY <1>0, <1>2 DEF CycleStart, CycleEnd, CheckBegin, CheckEnd, EveryEventAccounted
<1>3. CASE AppendRecord
  BY <1>0, <1>3, AppendOutcome DEF EveryEventAccounted
<1>4. CASE Enqueue
  <2>1. entry \in 1..MaxRecords
    BY <1>4, RoomToCount DEF Enqueue
  <2>2. /\ queue' = Admit(queue, entry) /\ enqueued' = enqueued + 1
        /\ droppedCount' = IF Len(queue) = QueueLength THEN droppedCount + 1
                           ELSE droppedCount
        /\ UNCHANGED <<successCount, failureCount, skipped, sender>>
    BY <1>4 DEF Enqueue
  <2>3. Len(queue') = IF Len(queue) = QueueLength THEN Len(queue) ELSE Len(queue) + 1
    BY <1>1, <1>4, EnqueueOutcome
  <2>4. CASE Len(queue) = QueueLength
    BY <1>0, <1>1, <2>2, <2>3, <2>4 DEF EveryEventAccounted
  <2>5. CASE Len(queue) # QueueLength
    <3>1. droppedCount' = droppedCount /\ Len(queue') = Len(queue) + 1
      BY <2>2, <2>3, <2>5
    <3> QED
      BY <1>0, <1>1, <2>2, <3>1 DEF EveryEventAccounted
  <2> QED
    BY <2>4, <2>5
<1>5. CASE Receive
  <2>1. /\ queue # <<>> /\ queue' = Tail(queue)
        /\ sender = "wait" /\ sender' = "received"
        /\ UNCHANGED <<enqueued, droppedCount, successCount, failureCount, skipped>>
    BY <1>5 DEF Receive
  <2>2. Len(queue') = Len(queue) - 1
    BY <1>0, <2>1, TailOf
  <2> QED
    BY <1>0, <1>1, <2>1, <2>2 DEF EveryEventAccounted
<1>6. CASE ReadConfig
  BY <1>0, <1>1, <1>6 DEF ReadConfig, EveryEventAccounted
<1>7. CASE SendBegin
  BY <1>0, <1>1, <1>7 DEF SendBegin, EveryEventAccounted
<1>8. CASE SendEnd
  BY <1>0, <1>1, <1>8 DEF SendEnd, EveryEventAccounted
<1>9. CASE ApiStep
  BY <1>0, <1>9 DEF ApiStep, ApiAccept, ApiSetCallback, ApiSetResource, ApiClose,
     EveryEventAccounted
<1>10. CASE UNCHANGED vars
  BY <1>0, <1>10 DEF vars, EveryEventAccounted
<1> QED
  BY <1>2, <1>3, <1>4, <1>5, <1>6, <1>7, <1>8, <1>9, <1>10
     DEF Next, CheckerStep, SenderStep

(* The queue stays in order, between what was received and what is newest. *)
LEMMA NewestKeptStep ==
  ASSUME PipelineInvariant, [Next]_vars
  PROVE  QueueBounded' /\ NewestKept'
<1> USE DEF checkerVars, senderVars, queueVars
<1>0. /\ QueueBounded /\ NewestKept
      /\ queue \in Seq(1..MaxRecords) /\ Len(queue) \in Nat /\ DOMAIN queue = 1..Len(queue)
      /\ newest \in Nat /\ received \in Nat
  BY DEF PipelineInvariant, TypeOK
<1>1. /\ \A i \in 1..Len(queue) : queue[i] \in Nat /\ queue[i] <= newest /\ received < queue[i]
      /\ \A i, j \in 1..Len(queue) : i < j => queue[i] < queue[j]
  <2>1. \A i \in 1..Len(queue) : queue[i] \in 1..MaxRecords
    BY <1>0, QueueSet, Zenon
  <2>2. \A i \in 1..Len(queue) : queue[i] \in Nat
    BY <2>1
  <2> QED
    BY <1>0, <2>2, Zenon DEF QueueBounded, NewestKept
<1>2. CASE Enqueue
  <2>1. PICK shift \in {0, 1} :
          /\ queue' \in Seq(1..MaxRecords) /\ shift <= Len(queue)
          /\ Len(queue') = Len(queue) - shift + 1
          /\ queue'[Len(queue) - shift + 1] = entry
          /\ \A i \in 1..(Len(queue) - shift) : queue'[i] = queue[i + shift]
    BY <1>2, EnqueueOutcome
  <2>2. /\ newest < entry /\ newest' = entry /\ received' = received
        /\ received <= newest /\ entry \in Nat
    BY <1>2 DEF Enqueue, PipelineInvariant, CheckInProgress, TypeOK
  <2> DEFINE n == Len(queue) - shift
  <2>3. n \in Nat /\ DOMAIN queue' = 1..(n + 1) /\ Len(queue') = n + 1
    BY <1>0, <2>1
  <2>4. \A i \in 1..n : i + shift \in 1..Len(queue) /\ queue'[i] = queue[i + shift]
    BY <1>0, <2>1
  <2>5. queue'[n + 1] = entry
    BY <2>1
  <2> HIDE DEF n
  <2>6. \A i \in 1..n : queue'[i] \in Nat /\ queue'[i] < entry /\ received < queue'[i]
    BY <1>0, <1>1, <2>2, <2>4
  <2>7. \A i \in 1..(n + 1) : i = n + 1 \/ i \in 1..n
    BY <2>3
  <2>8. QueueBounded' /\ \A i \in DOMAIN queue' : received' < queue'[i]
    BY <1>0, <2>2, <2>3, <2>5, <2>6, <2>7 DEF QueueBounded
  <2>9. ASSUME NEW i \in DOMAIN queue', NEW j \in DOMAIN queue', i < j
        PROVE  queue'[i] < queue'[j]
    <3>1. i \in 1..n
      BY <2>3, <2>9
    <3>2. CASE j = n + 1
      BY <2>5, <2>6, <3>1, <3>2
    <3>3. CASE j \in 1..n
      <4>1. i + shift < j + shift
        BY <2>9, <3>1, <3>3
      <4> QED
        BY <1>1, <2>4, <3>1, <3>3, <4>1
    <3> QED
      BY <2>3, <2>7, <3>2, <3>3
  <2>10. queue' # <<>> /\ queue'[Len(queue')] = newest'
    BY <2>1, <2>2, <2>3, <2>5
  <2> QED
    BY <2>8, <2>9, <2>10 DEF NewestKept
<1>3. CASE Receive
  <2>1. /\ queue # <<>> /\ queue' = Tail(queue) /\ received' = Head(queue)
        /\ newest' = newest
    BY <1>3 DEF Receive
  <2>2. /\ queue' \in Seq(1..MaxRecords) /\ Len(queue') = Len(queue) - 1
        /\ Len(queue) \in Nat \ {0} /\ received' = queue[1]
        /\ \A i \in 1..(Len(queue) - 1) : queue'[i] = queue[i + 1]
    BY <1>0, <2>1, TailOf
  <2> DEFINE n == Len(queue) - 1
  <2>3. n \in Nat /\ DOMAIN queue' = 1..n /\ Len(queue') = n /\ Len(queue) = n + 1
    BY <2>2
  <2>4. \A i \in 1..n : i + 1 \in 1..(n + 1) /\ 1 < i + 1 /\ queue'[i] = queue[i + 1]
    BY <2>2, <2>3
  <2> HIDE DEF n
  <2>5. QueueBounded'
    BY <1>1, <2>1, <2>3, <2>4 DEF QueueBounded
  <2>6. \A i \in DOMAIN queue' : received' < queue'[i]
    BY <1>1, <2>2, <2>3, <2>4
  <2>7. ASSUME NEW i \in DOMAIN queue', NEW j \in DOMAIN queue', i < j
        PROVE  queue'[i] < queue'[j]
    <3>1. i \in 1..n /\ j \in 1..n /\ i + 1 < j + 1
      BY <2>3, <2>7
    <3> QED
      BY <1>1, <2>3, <2>4, <3>1
  <2>8. newest' > received' => queue' # <<>> /\ queue'[Len(queue')] = newest'
    <3>1. newest > received /\ queue[n + 1] = newest
      <4>1. received < queue[1] /\ queue[1] <= newest /\ queue[1] \in Nat
        BY <1>1, <2>2
      <4>2. newest > received
        BY <1>0, <4>1
      <4> QED
        BY <1>0, <2>3, <4>2 DEF NewestKept
    <3>2. CASE n = 0
      BY <1>0, <2>1, <2>2, <3>1, <3>2
    <3>3. CASE n # 0
      <4>1. n \in 1..n /\ queue'[n] = queue[n + 1] /\ queue' # <<>>
        BY <2>2, <2>3, <2>4, <3>3
      <4> QED
        BY <2>1, <2>3, <3>1, <4>1
    <3> QED
      BY <3>2, <3>3
  <2> QED
    BY <2>5, <2>6, <2>7, <2>8 DEF NewestKept
<1>4. CASE UNCHANGED <<queue, newest, received>>
  BY <1>0, <1>4 DEF QueueBounded, NewestKept
<1>5. CASE CycleStart \/ CycleEnd \/ CheckBegin \/ CheckEnd
  BY <1>4, <1>5 DEF CycleStart, CycleEnd, CheckBegin, CheckEnd
<1>6. CASE AppendRecord
  BY <1>4, <1>6 DEF AppendRecord
<1>7. CASE ReadConfig \/ SendBegin \/ SendEnd
  BY <1>4, <1>7 DEF ReadConfig, SendBegin, SendEnd
<1>8. CASE ApiStep
  BY <1>4, <1>8 DEF ApiStep, ApiAccept, ApiSetCallback, ApiSetResource, ApiClose
<1>9. CASE UNCHANGED vars
  BY <1>4, <1>9 DEF vars
<1> QED
  BY <1>2, <1>3, <1>5, <1>6, <1>7, <1>8, <1>9 DEF Next, CheckerStep, SenderStep

(* Old settings are used once at most: when one is used the counter was 0, *)
(* and until it is set again nobody holds a copy in which it is enabled.   *)
LEMMA AtMostOneLateStep ==
  ASSUME PipelineInvariant, [Next]_vars
  PROVE  NotYetLate' /\ AtMostOneLate'
<1> USE DEF config, checkerVars, senderVars, queueVars
<1>0. /\ NotYetLate /\ AtMostOneLate /\ CheckInProgress
      /\ late \in Nat /\ lateChecks \in [Resources -> 0..MaxRecords]
      /\ pending \subseteq Resources /\ enabledResources \subseteq Resources
  BY DEF PipelineInvariant, TypeOK
<1>1. CASE CycleStart
  BY <1>0, <1>1 DEF CycleStart, NotYetLate, AtMostOneLate
<1>2. CASE CycleEnd
  BY <1>0, <1>2 DEF CycleEnd, NotYetLate, AtMostOneLate
<1>3. CASE CheckBegin
  <2> DEFINE r == Min(pending)
  <2>1. r \in pending /\ r \in Resources
    <3>1. pending \in SUBSET Nat /\ pending # {}
      BY <1>0, <1>3, PipelineAssumption DEF CheckBegin
    <3> QED
      BY <1>0, <3>1, MinMember, Zenon
  <2>2. /\ checker = "cycle" /\ checker' = "checking"
        /\ UNCHANGED <<config, pending, sender, late>>
        /\ lateChecks' = [lateChecks EXCEPT ![r] =
                            IF r \in enabledResources THEN @ ELSE @ + 1]
    BY <1>3 DEF CheckBegin
  <2>3. Min(pending') = r
    BY <2>2
  <2> HIDE DEF r
  <2>4. lateChecks[r] = 0
    BY <1>0, <2>1, <2>2 DEF NotYetLate
  <2>5. /\ \A x \in Resources : x # r => lateChecks'[x] = lateChecks[x]
        /\ lateChecks'[r] = IF r \in enabledResources THEN 0 ELSE 1
    BY <1>0, <2>1, <2>2, <2>4
  <2>6. NotYetLate'
    BY <1>0, <2>1, <2>2, <2>3, <2>5 DEF NotYetLate
  <2>7. AtMostOneLate'
    BY <1>0, <2>2, <2>5 DEF AtMostOneLate
  <2> QED
    BY <2>6, <2>7
<1>4. CASE CheckEnd
  BY <1>0, <1>4 DEF CheckEnd, NotYetLate, AtMostOneLate
<1>5. CASE AppendRecord
  <2>1. /\ UNCHANGED <<config, sender, late, lateChecks>> /\ checker = "append"
        /\ \/ checker' = "enqueue" /\ pending' = pending
           \/ NextResource
    BY <1>5, AppendOutcome
  <2> QED
    BY <1>0, <2>1 DEF NextResource, NotYetLate, AtMostOneLate
<1>6. CASE Enqueue
  BY <1>0, <1>6 DEF Enqueue, NextResource, NotYetLate, AtMostOneLate
<1>7. CASE Receive
  BY <1>0, <1>7 DEF Receive, NotYetLate, AtMostOneLate
<1>8. CASE ReadConfig
  BY <1>0, <1>8 DEF ReadConfig, NotYetLate, AtMostOneLate
<1>9. CASE SendBegin
  BY <1>0, <1>9 DEF SendBegin, NotYetLate, AtMostOneLate
<1>10. CASE SendEnd
  BY <1>0, <1>10 DEF SendEnd, NotYetLate, AtMostOneLate
<1>11. CASE ApiAccept \/ ApiClose
  BY <1>0, <1>11 DEF ApiAccept, ApiClose, NotYetLate, AtMostOneLate
<1>12. CASE ApiSetCallback
  BY <1>0, <1>12 DEF ApiSetCallback, NotYetLate, AtMostOneLate
<1>13. ASSUME NEW r \in Resources, ApiSetResource(r)
       PROVE  NotYetLate' /\ AtMostOneLate'
  <2>1. /\ enabledResources' \subseteq enabledResources \cup {r}
        /\ UNCHANGED <<callbackEnabled, checker, pending, sender, late>>
        /\ lateChecks' = IF r \in enabledResources' THEN [lateChecks EXCEPT ![r] = 0]
                         ELSE lateChecks
    BY <1>13 DEF ApiSetResource
  <2>2. /\ \A x \in Resources : lateChecks'[x] \in {0, lateChecks[x]}
        /\ r \in enabledResources' => lateChecks'[r] = 0
    BY <1>0, <1>13, <2>1
  <2>3. NotYetLate'
    BY <1>0, <2>1, <2>2 DEF NotYetLate
  <2>4. AtMostOneLate'
    BY <1>0, <2>1, <2>2 DEF AtMostOneLate
  <2> QED
    BY <2>3, <2>4
<1>14. CASE UNCHANGED vars
  BY <1>0, <1>14 DEF vars, NotYetLate, AtMostOneLate
<1> QED
  BY <1>1, <1>2, <1>3, <1>4, <1>5, <1>6, <1>7, <1>8, <1>9, <1>10, <1>11, <1>12, <1>13,
     <1>14 DEF Next, CheckerStep, SenderStep, ApiStep
-------------------------------------------------------------------------------
(* Theorems. *)

LEMMA PipelineInvariantCorrect == Spec => []PipelineInvariant
<1>1. PipelineInvariant /\ [Next]_vars => PipelineInvariant'
  BY PipelineTypeStep, CheckInProgressStep, QueuedWerePersistedStep,
     EveryEventAccountedStep, NewestKeptStep, AtMostOneLateStep DEF PipelineInvariant
<1> QED
  BY PipelineInit, <1>1, PTL DEF Spec

(* Every variable keeps its type and every counter its range, the queue    *)
(* never exceeds CALLBACK_QUEUE_LENGTH.                                    *)
THEOREM PipelineTypeCorrect == Spec => []TypeOK
<1>1. PipelineInvariant => TypeOK
  BY DEF PipelineInvariant
<1> QED
  BY PipelineInvariantCorrect, <1>1, PTL

(* Whatever is queued or delivered has a verified record in the log:       *)
(* healthCheckService_CheckResource enqueues after HealthCheckLog_Append.  *)
THEOREM PersistedBeforeQueued == Spec => []QueuedWerePersisted
<1>1. PipelineInvariant => QueuedWerePersisted
  BY DEF PipelineInvariant
<1> QED
  BY PipelineInvariantCorrect, <1>1, PTL

(* Every event CallbackService_Enqueue accepted is in the queue, with the  *)
(* task, or in exactly one of the counters of its telemetry.               *)
THEOREM EventsAccounted == Spec => []EveryEventAccounted
<1>1. PipelineInvariant => EveryEventAccounted
  BY DEF PipelineInvariant
<1> QED
  BY PipelineInvariantCorrect, <1>1, PTL

(* However often the queue overflows, the newest event stays in it until   *)
(* callbackService_Task receives it, and events are received in order.     *)
THEOREM OverflowKeepsNewest == Spec => []NewestKept
<1>1. PipelineInvariant => NewestKept
  BY DEF PipelineInvariant
<1> QED
  BY PipelineInvariantCorrect, <1>1, PTL

(* A copied setting outlives its change by one use at most, for each of    *)
(* any number of resources and for the callback.                           *)
THEOREM OneLateUse == Spec => []AtMostOneLate
<1>1. PipelineInvariant => AtMostOneLate
  BY DEF PipelineInvariant
<1> QED
  BY PipelineInvariantCorrect, <1>1, PTL
===============================================================================
