--------------------------- MODULE CallbackPipeline ---------------------------
(***************************************************************************)
(* From a health check to its callback: the health-check task              *)
(* (Srv/Src/health_check_service.c), the bounded queue and the delivery    *)
(* task (Srv/Src/callback_service.c), and the management API               *)
(* (Srv/Src/api_service.c) that reconfigures both while they run.          *)
(*                                                                         *)
(* All three take the TLS platform lock for a whole exchange.  The checker *)
(* copies the resource table before a cycle and the sender copies the      *)
(* callback configuration before it waits for the lock, so both may act on *)
(* settings that have changed since.  What an exchange may come to is in   *)
(* TlsTransport.                                                           *)
(*                                                                         *)
(* An event is identified by the sequence number of its log record.  Local *)
(* variables are cleared when they go out of scope.                        *)
(***************************************************************************)
EXTENDS TlsTransport, Sequences, FiniteSets, FiniteSetsExt

CONSTANTS
  Resources,     \* resource slots, numbers
  QueueLength,   \* CALLBACK_QUEUE_LENGTH
  MaxRecords     \* log records in one behaviour

ASSUME PipelineAssumption ==
  /\ Resources \subseteq Nat
  /\ QueueLength \in Nat \ {0}
  /\ MaxRecords \in Nat

VARIABLES
  (* configuration, as the stores hold it in RAM *)
  enabledResources, callbackEnabled,
  tlsLock,         \* who holds the TLS platform lock
  (* the health-check task *)
  checker, pending, healthy, entry,
  nextSequence,    \* of the log
  (* the queue and the delivery task *)
  queue, sender, event,
  successCount, failureCount, droppedCount,
  api,             \* the management API task
  (* history *)
  persisted,       \* failed checks whose record was verified
  enqueued, skipped, received, newest,
  late,            \* requests sent since callbacks were disabled
  lateChecks       \* the same for each resource: checks since it was disabled

config == <<enabledResources, callbackEnabled>>
checkerVars == <<checker, pending, healthy, entry, nextSequence, persisted, lateChecks>>
counters == <<successCount, failureCount>>
senderVars == <<sender, event, counters, skipped, received, late>>
queueVars == <<queue, droppedCount, enqueued, newest>>
vars == <<config, tlsLock, checkerVars, queueVars, senderVars, api>>

TypeOK ==
  /\ enabledResources \subseteq Resources
  /\ callbackEnabled \in BOOLEAN
  /\ tlsLock \in {"none", "checker", "sender", "api"}
  /\ checker \in {"sleep", "cycle", "checking", "append", "enqueue"}
  /\ pending \subseteq Resources
  /\ healthy \in BOOLEAN
  /\ entry \in 0..MaxRecords
  /\ nextSequence \in 1..(MaxRecords + 1)
  /\ queue \in Seq(1..MaxRecords)
  /\ Len(queue) <= QueueLength
  /\ sender \in {"wait", "received", "ready", "sending"}
  /\ event \in 0..MaxRecords
  /\ successCount \in 0..MaxRecords /\ failureCount \in 0..MaxRecords
  /\ droppedCount \in 0..MaxRecords /\ enqueued \in 0..MaxRecords
  /\ skipped \in 0..MaxRecords
  /\ api \in {"accept", "serving", "answered"}
  /\ persisted \subseteq 1..MaxRecords
  /\ received \in 0..MaxRecords
  /\ newest \in 0..MaxRecords
  /\ late \in 0..MaxRecords
  /\ lateChecks \in [Resources -> 0..MaxRecords]

Init ==
  /\ enabledResources \in SUBSET Resources
  /\ callbackEnabled \in BOOLEAN
  /\ tlsLock = "none"
  /\ checker = "sleep" /\ pending = {} /\ healthy = FALSE /\ entry = 0
  /\ nextSequence = 1
  /\ queue = <<>> /\ sender = "wait" /\ event = 0
  /\ successCount = 0 /\ failureCount = 0 /\ droppedCount = 0
  /\ api = "accept"
  /\ persisted = {}
  /\ enqueued = 0 /\ skipped = 0 /\ received = 0 /\ newest = 0 /\ late = 0
  /\ lateChecks = [x \in Resources |-> 0]

Take(task) == tlsLock = "none" /\ tlsLock' = task
Give == tlsLock' = "none"

-------------------------------------------------------------------------------
(* healthCheckService_Task and healthCheckService_CheckResource. *)

(* The network is up and the clock is set: copy the resource table.        *)
CycleStart ==
  /\ checker = "sleep"
  /\ checker' = "cycle"
  /\ pending' = enabledResources
  /\ UNCHANGED <<config, tlsLock, healthy, entry, nextSequence, persisted,
                 lateChecks, queueVars, senderVars, api>>

CycleEnd ==
  /\ checker = "cycle"
  /\ pending = {}
  /\ checker' = "sleep"
  /\ UNCHANGED <<config, tlsLock, pending, healthy, entry, nextSequence, persisted,
                 lateChecks, queueVars, senderVars, api>>

(* TlsTransport_Head, under the TLS lock.                                  *)
CheckBegin ==
  /\ checker = "cycle"
  /\ pending # {}
  /\ nextSequence <= MaxRecords
  /\ Take("checker")
  /\ checker' = "checking"
  /\ lateChecks' = [lateChecks EXCEPT ![Min(pending)] =
                      IF Min(pending) \in enabledResources THEN @ ELSE @ + 1]
  /\ UNCHANGED <<config, pending, healthy, entry, nextSequence, persisted,
                 queueVars, senderVars, api>>

Healthy(result) == result.status = "ok" /\ result.httpStatus = 200

CheckEnd ==
  /\ checker = "checking"
  /\ Give
  /\ healthy' \in {Healthy(result) : result \in TlsTransport_Request}
  /\ checker' = "append"
  /\ UNCHANGED <<config, pending, entry, nextSequence, persisted, lateChecks,
                 queueVars, senderVars, api>>

(* The resource's turn is over.                                            *)
NextResource ==
  /\ checker' = "cycle"
  /\ pending' = pending \ {Min(pending)}

AppendRecordUnverified ==           \* seeded fault: the status is not checked
  /\ checker = "append"
  /\ nextSequence' = nextSequence + 1
  /\ entry' = nextSequence
  /\ checker' = "enqueue"
  /\ UNCHANGED <<config, tlsLock, healthy, pending, persisted, lateChecks,
                 queueVars, senderVars, api>>

(* HealthCheckLog_Append: a record that fails verification still uses up   *)
(* its sequence number; with no room, because the next sector could not be *)
(* erased, it does not.  Without a verified record there is no callback.   *)
AppendRecord ==
  /\ checker = "append"
  /\ \E outcome \in {"verified", "unverified", "noRoom"} :
       /\ nextSequence' = IF outcome = "noRoom" THEN nextSequence ELSE nextSequence + 1
       /\ IF outcome = "verified" /\ ~healthy
          THEN /\ entry' = nextSequence
               /\ persisted' = persisted \cup {nextSequence}
               /\ checker' = "enqueue"
               /\ UNCHANGED pending
          ELSE /\ NextResource
               /\ UNCHANGED <<entry, persisted>>
  /\ healthy' = FALSE
  /\ UNCHANGED <<config, tlsLock, lateChecks, queueVars, senderVars, api>>

AdmitUnlessFull(q, e) ==            \* seeded fault: the newest event is lost
  IF Len(q) = QueueLength THEN q ELSE Append(q, e)

(* CallbackService_Enqueue, in a critical section: a full queue loses its  *)
(* oldest event.                                                           *)
Admit(q, e) == Append(IF Len(q) = QueueLength THEN Tail(q) ELSE q, e)

EnqueueUncounted ==                 \* seeded fault: a drop is not counted
  /\ checker = "enqueue"
  /\ queue' = Admit(queue, entry)
  /\ enqueued' = enqueued + 1
  /\ newest' = entry
  /\ NextResource
  /\ entry' = 0
  /\ UNCHANGED <<droppedCount, config, tlsLock, healthy, nextSequence, persisted,
                 lateChecks, senderVars, api>>

Enqueue ==
  /\ checker = "enqueue"
  /\ queue' = Admit(queue, entry)
  /\ droppedCount' = IF Len(queue) = QueueLength THEN droppedCount + 1 ELSE droppedCount
  /\ enqueued' = enqueued + 1
  /\ newest' = entry
  /\ NextResource
  /\ entry' = 0
  /\ UNCHANGED <<config, tlsLock, healthy, nextSequence, persisted, lateChecks,
                 senderVars, api>>

-------------------------------------------------------------------------------
(* callbackService_Task. *)

Receive ==
  /\ sender = "wait"
  /\ queue # <<>>
  /\ event' = Head(queue)
  /\ queue' = Tail(queue)
  /\ received' = Head(queue)
  /\ sender' = "received"
  /\ UNCHANGED <<config, tlsLock, checkerVars, droppedCount, enqueued, newest,
                 counters, skipped, late, api>>

ReadConfigStale ==                  \* seeded fault: enabled is not looked at
  /\ sender = "received"
  /\ sender' = "ready"
  /\ UNCHANGED <<config, tlsLock, checkerVars, queueVars, event, counters, skipped,
                 received, late, api>>

(* CallbackConfig_Get; the event is skipped if callbacks are disabled or   *)
(* the request does not fit its buffer.                                    *)
ReadConfig ==
  /\ sender = "received"
  /\ \E fits \in BOOLEAN :
       IF callbackEnabled /\ fits
       THEN sender' = "ready" /\ UNCHANGED <<event, skipped>>
       ELSE sender' = "wait" /\ event' = 0 /\ skipped' = skipped + 1
  /\ UNCHANGED <<config, tlsLock, checkerVars, queueVars, counters, received, late, api>>

(* TlsTransport_Request, under the TLS lock.                               *)
SendBegin ==
  /\ sender = "ready"
  /\ Take("sender")
  /\ sender' = "sending"
  /\ late' = IF callbackEnabled THEN late ELSE late + 1
  /\ UNCHANGED <<config, checkerVars, queueVars, event, counters, skipped, received, api>>

SendEndLocked ==                    \* seeded fault: a failure keeps the lock
  /\ sender = "sending"
  /\ sender' = "wait"
  /\ failureCount' = failureCount + 1
  /\ UNCHANGED <<config, tlsLock, checkerVars, queueVars, event, successCount, skipped,
                 received, late, api>>

Delivered(result) == result.status = "ok" /\ result.httpStatus \in 200..299

SendEnd ==
  /\ sender = "sending"
  /\ Give
  /\ sender' = "wait"
  /\ \E success \in {Delivered(result) : result \in TlsTransport_Request} :
       \/ success /\ successCount' = successCount + 1 /\ UNCHANGED failureCount
       \/ ~success /\ failureCount' = failureCount + 1 /\ UNCHANGED successCount
  /\ event' = 0
  /\ UNCHANGED <<config, checkerVars, queueVars, skipped, received, late, api>>

-------------------------------------------------------------------------------
(* apiService_Task: one connection, one request, under the TLS lock. *)

ApiAccept ==
  /\ api = "accept"
  /\ Take("api")
  /\ api' = "serving"
  /\ UNCHANGED <<config, checkerVars, queueVars, senderVars>>

ApiSetCallback ==
  /\ api = "serving"
  /\ callbackEnabled' \in BOOLEAN
  /\ late' = IF callbackEnabled' THEN 0 ELSE late
  /\ api' = "answered"
  /\ UNCHANGED <<enabledResources, tlsLock, checkerVars, queueVars, sender, event,
                 counters, skipped, received>>

(* A resource is added, updated or deleted: one slot of the table changes. *)
ApiSetResource(r) ==
  /\ api = "serving"
  /\ enabledResources' \in {enabledResources \cup {r}, enabledResources \ {r}}
  /\ lateChecks' = IF r \in enabledResources' THEN [lateChecks EXCEPT ![r] = 0]
                   ELSE lateChecks
  /\ api' = "answered"
  /\ UNCHANGED <<callbackEnabled, tlsLock, checker, pending, healthy, entry,
                 nextSequence, persisted, queueVars, senderVars>>

ApiCloseLocked ==                   \* seeded fault: an early return keeps the lock
  /\ api \in {"serving", "answered"}
  /\ api' = "accept"
  /\ UNCHANGED <<config, tlsLock, checkerVars, queueVars, senderVars>>

ApiClose ==
  /\ api \in {"serving", "answered"}
  /\ Give
  /\ api' = "accept"
  /\ UNCHANGED <<config, checkerVars, queueVars, senderVars>>

CheckerStep == CycleStart \/ CycleEnd \/ CheckBegin \/ CheckEnd \/ AppendRecord \/ Enqueue
SenderStep == Receive \/ ReadConfig \/ SendBegin \/ SendEnd
ApiStep ==
  \/ ApiAccept
  \/ ApiSetCallback
  \/ \E r \in Resources : ApiSetResource(r)
  \/ ApiClose

Next == CheckerStep \/ SenderStep \/ ApiStep

(* Every exchange ends, by its socket timeouts at the latest, and every    *)
(* task runs; a task that waits for the TLS lock gets it in the end,       *)
(* because the others sleep between cycles and between connections.        *)
Fairness ==
  /\ WF_vars(CycleEnd) /\ WF_vars(CheckEnd) /\ WF_vars(AppendRecord) /\ WF_vars(Enqueue)
  /\ WF_vars(Receive) /\ WF_vars(ReadConfig) /\ WF_vars(SendEnd)
  /\ WF_vars(ApiClose)
  /\ SF_vars(CheckBegin) /\ SF_vars(SendBegin)

Spec == Init /\ [][Next]_vars
FairSpec == Spec /\ Fairness

-------------------------------------------------------------------------------
(* Properties. *)

(* "Each failure is persisted before it is queued": whatever is queued or  *)
(* delivered has a verified record in the log.                             *)
QueuedWerePersisted ==
  /\ Range(queue) \subseteq persisted
  /\ sender # "wait" => event \in persisted

(* No event is lost or counted twice: the telemetry, the queue and the     *)
(* task account for every event ever enqueued.                             *)
EveryEventAccounted ==
  enqueued = droppedCount + successCount + failureCount + skipped + Len(queue)
             + (IF sender = "wait" THEN 0 ELSE 1)

(* Overflow never costs the newest event, and what remains stays in order. *)
NewestKept ==
  /\ newest > received => queue # <<>> /\ queue[Len(queue)] = newest
  /\ \A i, j \in DOMAIN queue : i < j => queue[i] < queue[j]
  /\ \A i \in DOMAIN queue : received < queue[i]

(* A setting that was copied before it changed is used at most once more:  *)
(* after callbacks are disabled one request may still go out (the gap      *)
(* between CallbackConfig_Get and TlsPlatform_Lock), and a resource that   *)
(* is disabled or deleted may be checked once more (the table a cycle of   *)
(* healthCheckService_Task copies).                                        *)
AtMostOneLate == late <= 1 /\ \A r \in Resources : lateChecks[r] <= 1

(* Every queued event leaves the queue, delivered, skipped or displaced.   *)
QueueDrains == \A e \in 1..MaxRecords : []<>(e \notin Range(queue))

(* A cycle comes to an end, whatever the API and the callbacks do.         *)
CycleCompletes == []<>(checker = "sleep" \/ nextSequence > MaxRecords)
===============================================================================
