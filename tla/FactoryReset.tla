----------------------------- MODULE FactoryReset -----------------------------
(***************************************************************************)
(* The factory reset (Srv/Src/factory_reset_service.c) with the start-up   *)
(* code that resumes it (Core/Src/main.c) and the flash it erases.         *)
(*                                                                         *)
(* A confirmed reset writes a marker sector, erases every sector with      *)
(* persistent state in a fixed order, erases the marker last and restarts. *)
(* A start that finds the marker completes the erasure before it loads     *)
(* anything.  Sectors are numbered in the order they are erased: the two   *)
(* callback sectors, then the range above the marker from the highest      *)
(* address down.                                                           *)
(*                                                                         *)
(* Between the marker and the restart the reset task never blocks but for  *)
(* the flash, whose mutex it then holds, and the tasks that write flash    *)
(* have lower priority: they can save only while it is idle or sits out    *)
(* the tone after a failure.                                               *)
(*                                                                         *)
(* Settings carry the number of resets that were committed before they     *)
(* were made, so that settings that outlive a reset can be told apart.     *)
(***************************************************************************)
EXTENDS W25Q64

CONSTANTS
  N,           \* sectors with persistent state
  Marker,      \* the image of a valid marker
  Faults,      \* the classes of flash fault that may occur
  MaxTroubles, \* faults and power cuts in one behaviour
  MaxResets    \* resets confirmed in one behaviour

(* "transfer": an erase or program fails and leaves the chip idle;         *)
(* "poll": the wait at its end fails while the chip works on;              *)
(* "read": a read fails;  "probe": the identity read at start-up fails.    *)
FaultClasses == {"transfer", "poll", "read", "probe"}

Sectors == 1..N
Epochs == 0..MaxResets

ASSUME ResetAssumption ==
  /\ N \in Nat \ {0}
  /\ Faults \subseteq FaultClasses
  /\ MaxTroubles \in Nat
  /\ MaxResets \in Nat
  /\ Marker \notin {Blank, Torn}
  /\ Blank \notin Epochs
  /\ Torn \notin Epochs

VARIABLES
  marker,      \* the marker sector
  data,        \* the sectors with persistent state
  chip,        \* "busy" after a wait that failed
  phase,       \* what the reset task, or the start-up code, is doing
  position,    \* the sector ErasePersistentState erases next; N+1: the marker
  ram,         \* the settings the services hold in RAM, by sector
  troubles,    \* faults and power cuts left
  suffered,    \* history: the classes of fault that have occurred
  epoch,       \* history: resets committed, i.e. markers that became valid
  request      \* history: "confirmed" until the reset is cancelled or done

vars == <<marker, data, chip, phase, position, ram, troubles, suffered, epoch,
          request>>

Phases == {"off", "resuming", "halted", "idle", "noService", "eraseMarker",
           "programMarker", "readMarker", "erasing", "failureWait", "restart"}

TypeOK ==
  /\ marker \in {Blank, Torn, Marker}
  /\ data \in [Sectors -> Epochs \cup {Blank, Torn}]
  /\ chip \in ChipStates
  /\ phase \in Phases
  /\ position \in 1..(N + 1)
  /\ ram \in [Sectors -> Epochs]
  /\ troubles \in 0..MaxTroubles
  /\ suffered \subseteq FaultClasses
  /\ epoch \in Epochs
  /\ request \in {"none", "confirmed"}

Init ==
  /\ marker = Blank
  /\ data \in [Sectors -> {0, Blank}]
  /\ chip = "ready"
  /\ phase = "off"
  /\ position = 1
  /\ ram = [s \in Sectors |-> 0]
  /\ troubles = MaxTroubles
  /\ suffered = {}
  /\ epoch = 0
  /\ request = "none"

(* The class of a failed erase or program, seen from its result.           *)
FaultOf(r) == IF r.chip = "busy" THEN "poll" ELSE "transfer"

(* A fault must be of a class that may occur, and there are only so many.  *)
Suffer(status, class) ==
  /\ status = "error" => class \in Faults /\ troubles > 0
  /\ troubles' = IF status = "error" THEN troubles - 1 ELSE troubles
  /\ suffered' = IF status = "error" THEN suffered \cup {class} ELSE suffered

-------------------------------------------------------------------------------
(* Start-up: main.c and FactoryResetService_ResumePending. *)

(* The services load their stores; a sector without an image gives the     *)
(* defaults.                                                               *)
LoadStores ==
  /\ ram' = [s \in Sectors |-> IF data[s] \in Epochs THEN data[s] ELSE epoch]
  /\ UNCHANGED position

(* The flash does not answer the identity probe: main reports it, does not *)
(* look for a marker, does not create the reset task, and goes on.         *)
BootWithoutFlash ==
  /\ phase = "off"
  /\ Suffer("error", "probe")
  /\ LoadStores
  /\ phase' = "noService"
  /\ UNCHANGED <<marker, data, chip, epoch, request>>

(* The marker cannot be read: System_ErrorHandler, before the watchdog     *)
(* runs.                                                                   *)
BootUnreadable ==
  /\ phase = "off"
  /\ Suffer("error", "read")
  /\ phase' = "halted"
  /\ UNCHANGED <<marker, data, chip, position, ram, epoch, request>>

BootResume ==
  /\ phase = "off"
  /\ marker = Marker
  /\ phase' = "resuming"
  /\ position' = 1
  /\ UNCHANGED <<marker, data, chip, ram, troubles, suffered, epoch, request>>

(* Seeded fault: the marker is not looked at.                              *)
BootNormalUnchecked ==
  /\ phase = "off"
  /\ LoadStores
  /\ phase' = "idle"
  /\ request' = "none"
  /\ UNCHANGED <<marker, data, chip, troubles, suffered, epoch>>

BootNormal ==
  /\ phase = "off"
  /\ marker # Marker
  /\ LoadStores
  /\ phase' = "idle"
  /\ request' = "none"
  /\ UNCHANGED <<marker, data, chip, troubles, suffered, epoch>>

-------------------------------------------------------------------------------
(* The reset task: factoryResetService_Task. *)

(* The cancellation window after a long press ran out.                     *)
WindowExpires ==
  /\ phase = "idle"
  /\ epoch < MaxResets
  /\ phase' = "eraseMarker"
  /\ request' = "confirmed"
  /\ UNCHANGED <<marker, data, chip, position, ram, troubles, suffered, epoch>>

(* A reset is committed when its marker becomes valid.                     *)
Committed(newMarker) ==
  IF newMarker = Marker /\ marker # Marker THEN epoch + 1 ELSE epoch

(* factoryResetService_WriteMarker: erase; program unless the erase failed;*)
(* read back in either case, and let the read-back decide.                 *)
EraseMarker ==
  /\ phase = "eraseMarker"
  /\ \E r \in EraseSector(marker, chip) :
       /\ Suffer(r.status, FaultOf(r))
       /\ marker' = r.content
       /\ chip' = r.chip
       /\ phase' = IF r.status = "ok" THEN "programMarker" ELSE "readMarker"
  /\ UNCHANGED <<data, position, ram, epoch, request>>

ProgramMarker ==
  /\ phase = "programMarker"
  /\ \E r \in Program(marker, Marker, chip) :
       /\ Suffer(r.status, FaultOf(r))
       /\ marker' = r.content
       /\ chip' = r.chip
       /\ epoch' = Committed(r.content)
  /\ phase' = "readMarker"
  /\ UNCHANGED <<data, position, ram, request>>

(* Seeded fault: the read-back is not compared with the marker.            *)
ReadMarkerUnchecked ==
  /\ phase = "readMarker"
  /\ phase' = "erasing"
  /\ position' = 1
  /\ UNCHANGED <<marker, data, chip, ram, troubles, suffered, epoch, request>>

ReadMarker ==
  /\ phase = "readMarker"
  /\ \E r \in Read(marker, chip) :
       /\ Suffer(r.status, "read")
       /\ \/ /\ r.status = "ok" /\ r.content = Marker
             /\ phase' = "erasing"
             /\ position' = 1
             /\ UNCHANGED request
          \/ /\ ~(r.status = "ok" /\ r.content = Marker)
             /\ phase' = "idle"            \* "reset cancelled"
             /\ request' = "none"
             /\ UNCHANGED position
  /\ UNCHANGED <<marker, data, chip, ram, epoch>>

(* factoryResetService_ErasePersistentState, one sector at a time.  The    *)
(* task waits out a failure tone and restarts; the start-up code halts.    *)
EraseFailed == IF phase = "resuming" THEN "halted" ELSE "failureWait"

EraseData ==
  /\ phase \in {"erasing", "resuming"}
  /\ position \in Sectors
  /\ \E r \in EraseSector(data[position], chip) :
       /\ Suffer(r.status, FaultOf(r))
       /\ data' = [data EXCEPT ![position] = r.content]
       /\ chip' = r.chip
       /\ phase' = IF r.status = "ok" THEN phase ELSE EraseFailed
       /\ position' = IF r.status = "ok" THEN position + 1 ELSE position
  /\ UNCHANGED <<marker, ram, epoch, request>>

(* Seeded faults: the range is erased upwards, the marker first; the range *)
(* ends before the marker.                                                 *)
EraseMarkerFirst ==
  /\ phase \in {"erasing", "resuming"}
  /\ position = 1
  /\ marker' = Blank
  /\ UNCHANGED <<data, chip, phase, position, ram, troubles, suffered, epoch,
                 request>>

EraseMarkerNever ==
  /\ phase \in {"erasing", "resuming"}
  /\ position = N + 1
  /\ phase' = "restart"
  /\ request' = "none"
  /\ UNCHANGED <<marker, data, chip, position, ram, troubles, suffered, epoch>>

EraseMarkerLast ==
  /\ phase \in {"erasing", "resuming"}
  /\ position = N + 1
  /\ \E r \in EraseSector(marker, chip) :
       /\ Suffer(r.status, FaultOf(r))
       /\ marker' = r.content
       /\ chip' = r.chip
       /\ phase' = IF r.status = "ok" THEN "restart" ELSE EraseFailed
       /\ request' = IF r.status = "ok" THEN "none" ELSE request
  /\ UNCHANGED <<data, position, ram, epoch>>

(* factoryResetService_Restart, at once or after the failure tone, which   *)
(* outlasts any erase.                                                     *)
RestartOnlyWhenDone ==   \* seeded fault: no restart after a failure
  /\ phase = "restart"
  /\ phase' = "off"
  /\ UNCHANGED <<marker, data, chip, position, ram, troubles, suffered, epoch,
                 request>>

Restart ==
  /\ phase = "restart" \/ (phase = "failureWait" /\ chip = "ready")
  /\ phase' = "off"
  /\ UNCHANGED <<marker, data, chip, position, ram, troubles, suffered, epoch,
                 request>>

-------------------------------------------------------------------------------
(* The surroundings. *)

(* A service saves: the settings it holds, or what a failed save leaves.   *)
Save(s) ==
  /\ phase \in {"idle", "noService", "failureWait"}
  /\ \E c \in {ram[s], Blank, Torn} : data' = [data EXCEPT ![s] = c]
  /\ UNCHANGED <<marker, chip, phase, position, ram, troubles, suffered,
                 epoch, request>>

ChipReady ==
  /\ chip = "busy"
  /\ chip' = "ready"
  /\ UNCHANGED <<marker, data, phase, position, ram, troubles, suffered,
                 epoch, request>>

(* Power fails and cuts the driver call in progress short.                 *)
PowerLoss ==
  /\ phase \notin {"off", "halted"}
  /\ troubles > 0
  /\ troubles' = troubles - 1
  /\ marker' \in
       CASE phase = "eraseMarker" -> EraseCut(marker)
         [] phase = "programMarker" -> ProgramCut(marker, Marker)
         [] phase \in {"erasing", "resuming"} /\ position = N + 1 -> EraseCut(marker)
         [] OTHER -> {marker}
  /\ data' \in
       IF phase \in {"erasing", "resuming"} /\ position \in Sectors
       THEN {[data EXCEPT ![position] = c] : c \in EraseCut(data[position])}
       ELSE {data}
  /\ epoch' = Committed(marker')
  /\ phase' = "off"
  /\ chip' = "ready"
  /\ UNCHANGED <<position, ram, suffered, request>>

(* Only the operator gets a halted device going again.                     *)
PowerCycle ==
  /\ phase \in {"halted", "noService", "idle"}
  /\ phase' = "off"
  /\ chip' = "ready"
  /\ UNCHANGED <<marker, data, position, ram, troubles, suffered, epoch,
                 request>>

ResetStep ==
  \/ EraseMarker \/ ProgramMarker \/ ReadMarker
  \/ EraseData \/ EraseMarkerLast \/ Restart

BootStep == BootWithoutFlash \/ BootUnreadable \/ BootResume \/ BootNormal

Next ==
  \/ BootStep
  \/ WindowExpires
  \/ ResetStep
  \/ \E s \in Sectors : Save(s)
  \/ ChipReady
  \/ PowerLoss
  \/ PowerCycle

(* The processor runs and the chip finishes what it has begun; nothing is  *)
(* assumed of the operator.                                                *)
Fairness == WF_vars(BootStep) /\ WF_vars(ResetStep) /\ WF_vars(ChipReady)

Spec == Init /\ [][Next]_vars
FairSpec == Spec /\ Fairness

-------------------------------------------------------------------------------
(* Properties. *)

(* A failed erase or program that leaves the chip idle is the only class   *)
(* of fault so far.                                                        *)
OnlyTransfers == suffered \subseteq {"transfer"}

(* Why the properties hold until a fault of another class: while settings  *)
(* of before the reset are left in flash the marker is there; the erasing  *)
(* works its way through the sectors under the marker; and outside a reset *)
(* RAM and flash hold nothing older.                                       *)
NothingOld == \A s \in Sectors : data[s] \in Epochs => data[s] = epoch

Consistent ==
  /\ chip = "ready"
  /\ phase # "noService"
  /\ marker # Marker => NothingOld
  /\ phase \in {"idle", "eraseMarker", "programMarker", "restart"} => marker # Marker
  /\ phase \in {"erasing", "resuming", "failureWait"} => marker = Marker
  /\ phase \in {"erasing", "resuming"} =>
       \A s \in Sectors : s < position => data[s] = Blank
  /\ (phase \in {"idle", "eraseMarker", "programMarker"}
      \/ (phase = "readMarker" /\ marker # Marker)) => \A s \in Sectors : ram[s] = epoch
  /\ phase \in {"eraseMarker", "programMarker"} => epoch < MaxResets

(* No sequence of power cuts and failed transfers leaves a half-erased     *)
(* device without the marker that makes the next start finish the job, and *)
(* the marker goes only when nothing old is left (the erase order in       *)
(* factoryResetService_ErasePersistentState).                              *)
ResetInvariant == OnlyTransfers => Consistent

(* Once the device runs, every setting it serves was made after the last   *)
(* committed reset: a reset interrupted anywhere is complete before any    *)
(* store is loaded (README, "A dedicated Flash marker is erased last").    *)
NoSettingsSurvive ==
  OnlyTransfers /\ phase \in {"idle", "noService"} =>
    \A s \in Sectors : ram[s] = epoch

(* Only a reset the user confirmed, and the device did not report as       *)
(* cancelled, is resumed at start-up (the failure branch after             *)
(* factoryResetService_WriteMarker), until a read-back or a wait fails.    *)
ResumesOnlyConfirmed ==
  suffered \subseteq {"transfer", "probe"} /\ phase = "resuming" =>
    request = "confirmed"

(* While old settings are partly gone the marker is there to finish the    *)
(* job (the erase order in ErasePersistentState).                          *)
PartialEraseIsMarked ==
  OnlyTransfers /\ (\E s \in Sectors : data[s] \in Epochs /\ data[s] < epoch) =>
    marker = Marker

(* When an erase fails, the restart finds the marker in place.             *)
FailureKeepsMarker ==
  [][OnlyTransfers /\ phase = "failureWait" /\ phase' = "off" => marker' = Marker]_vars

(* Whatever fails, nothing is erased unless a marker is in flash to finish *)
(* the job: the task starts on the sectors only after the marker has been  *)
(* read back (factoryResetService_WriteMarker).                            *)
NothingErasedUnmarked ==
  phase \in {"erasing", "resuming"} /\ position \in Sectors => marker = Marker

(* An accepted reset comes to an end: the device runs again or, when the   *)
(* flash fails during recovery, is halted for the operator.                *)
ResetCompletes ==
  (phase = "erasing") ~> (phase \in {"idle", "noService", "halted"})
===============================================================================
