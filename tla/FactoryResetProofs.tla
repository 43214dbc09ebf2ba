-------------------------- MODULE FactoryResetProofs --------------------------
(***************************************************************************)
(* Proofs about FactoryReset, for any number of sectors, faults, power     *)
(* cuts and resets.  The properties hold until the first fault that is not *)
(* a failed erase or program that leaves the chip idle; the other classes  *)
(* of fault do break them, as the model checker shows.                     *)
(***************************************************************************)
EXTENDS FactoryReset, TLAPS

(* What one driver call can do when the chip is idle before and after it.  *)
LEMMA EraseOutcome ==
  ASSUME NEW old, NEW r \in EraseSector(old, "ready")
  PROVE  /\ r.status \in Statuses
         /\ r.chip \in ChipStates
         /\ r.content \in {old, Blank, Torn}
         /\ r.status = "ok" => r.content = Blank /\ r.chip = "ready"
         /\ r.chip = "ready" /\ r.status = "error" => r.content = old
BY DEF EraseSector, Result, Statuses, ChipStates

(* W25Q64_Program: the sector keeps its contents, is torn, or holds the    *)
(* image.                                                                  *)
LEMMA ProgramOutcome ==
  ASSUME NEW old, NEW image, NEW r \in Program(old, image, "ready")
  PROVE  /\ r.status \in Statuses
         /\ r.chip \in ChipStates
         /\ r.content \in {old, Torn, image}
BY DEF Program, Programmed, Result, Statuses, ChipStates

(* W25Q64_Read of an idle chip: what it delivers is what is stored.        *)
LEMMA ReadOutcome ==
  ASSUME NEW content, NEW r \in Read(content, "ready")
  PROVE  /\ r.status \in Statuses
         /\ r.status = "ok" => r.content = content
BY DEF Read, Result, Statuses

(* A call that fails leaves the chip idle, if only transfers fail.         *)
LEMMA TransferFault ==
  ASSUME OnlyTransfers', NEW r,
         r.status \in Statuses, r.chip \in ChipStates,
         r.status = "ok" => r.chip = "ready",
         Suffer(r.status, FaultOf(r)), TypeOK
  PROVE  /\ r.chip = "ready"
         /\ troubles' \in 0..MaxTroubles
         /\ suffered' \subseteq FaultClasses
<1>1. r.chip = "ready"
  BY DEF Suffer, FaultOf, Statuses, ChipStates, OnlyTransfers
<1>2. troubles' \in 0..MaxTroubles
  BY ResetAssumption DEF Suffer, TypeOK
<1>3. suffered' \subseteq FaultClasses
  BY DEF OnlyTransfers, FaultClasses
<1> QED BY <1>1, <1>2, <1>3

(* A program that succeeds on an idle chip leaves it idle.                 *)
LEMMA ProgramOkReady ==
  ASSUME NEW old, NEW image, NEW r \in Program(old, image, "ready")
  PROVE  r.status = "ok" => r.chip = "ready"
BY DEF Program, Result

(* The inductive invariant holds in the beginning: the marker is blank and *)
(* every image is of epoch 0.                                              *)
LEMMA InvariantInit == Init => TypeOK /\ Consistent
<1> SUFFICES ASSUME Init PROVE TypeOK /\ Consistent
  OBVIOUS
<1>1. 0 \in Epochs /\ Blank \notin Epochs
  BY ResetAssumption DEF Epochs
<1>2. data \in [Sectors -> Epochs \cup {Blank, Torn}]
  BY <1>1 DEF Init
<1>3. TypeOK
  BY <1>1, <1>2, ResetAssumption DEF Init, TypeOK, Phases, ChipStates
<1>4. NothingOld
  BY <1>1 DEF Init, NothingOld
<1>5. Consistent
  BY <1>4, ResetAssumption DEF Init, Consistent
<1> QED BY <1>3, <1>5

(* Start-up.  Loading from flash without a marker finds nothing old.       *)
LEMMA BootKeeps ==
  ASSUME OnlyTransfers', TypeOK, Consistent, BootStep
  PROVE  TypeOK' /\ Consistent'
<1>1. CASE BootWithoutFlash
  BY <1>1 DEF BootWithoutFlash, Suffer, OnlyTransfers
<1>2. CASE BootUnreadable
  BY <1>2 DEF BootUnreadable, Suffer, OnlyTransfers
<1>3. CASE BootResume
  <2>1. TypeOK'
    BY <1>3, ResetAssumption DEF BootResume, TypeOK, Phases
  <2>2. NothingOld' <=> NothingOld
    BY <1>3 DEF BootResume, NothingOld
  <2>3. Consistent'
    BY <1>3, <2>2 DEF BootResume, Consistent, Sectors
  <2> QED BY <2>1, <2>3
<1>4. CASE BootNormal
  <2>1. ram' \in [Sectors -> Epochs]
    BY <1>4 DEF BootNormal, LoadStores, TypeOK
  <2>2. TypeOK'
    BY <1>4, <2>1 DEF BootNormal, LoadStores, TypeOK, Phases
  <2>3. NothingOld /\ NothingOld'
    BY <1>4 DEF BootNormal, NothingOld, Consistent
  <2>4. \A s \in Sectors : ram'[s] = epoch'
    BY <1>4, <2>3 DEF BootNormal, LoadStores, NothingOld
  <2>5. Consistent'
    BY <1>4, <2>3, <2>4 DEF BootNormal, Consistent
  <2> QED BY <2>2, <2>5
<1> QED BY <1>1, <1>2, <1>3, <1>4 DEF BootStep

(* Writing the marker.  The reset is committed by the very step that makes *)
(* the marker valid, so that old settings and a marker appear together.    *)
LEMMA MarkerKeeps ==
  ASSUME OnlyTransfers', TypeOK, Consistent,
         EraseMarker \/ ProgramMarker \/ ReadMarker
  PROVE  TypeOK' /\ Consistent'
<1>0. chip = "ready"
  BY DEF Consistent
<1>1. CASE EraseMarker
  <2>1. PICK r \in EraseSector(marker, chip) :
          /\ Suffer(r.status, FaultOf(r))
          /\ marker' = r.content
          /\ chip' = r.chip
          /\ phase' = IF r.status = "ok" THEN "programMarker" ELSE "readMarker"
    BY <1>1 DEF EraseMarker
  <2>2. r.chip = "ready" /\ troubles' \in 0..MaxTroubles
        /\ suffered' \subseteq FaultClasses
    BY <1>0, <2>1, EraseOutcome, TransferFault
  <2>3. marker' \in {Blank, Torn, marker} /\ marker # Marker
    BY <1>0, <1>1, <2>1, EraseOutcome DEF EraseMarker, Consistent
  <2>4. marker' # Marker /\ marker' \in {Blank, Torn, Marker}
    BY <2>3, ResetAssumption DEF TypeOK
  <2>5. TypeOK'
    BY <1>1, <2>1, <2>2, <2>4 DEF EraseMarker, TypeOK, Phases, ChipStates
  <2>6. NothingOld /\ NothingOld'
    BY <1>1, <2>3 DEF EraseMarker, NothingOld, Consistent
  <2>7. Consistent'
    BY <1>1, <2>1, <2>2, <2>4, <2>6 DEF EraseMarker, Consistent
  <2> QED BY <2>5, <2>7
<1>2. CASE ProgramMarker
  <2>1. PICK r \in Program(marker, Marker, chip) :
          /\ Suffer(r.status, FaultOf(r))
          /\ marker' = r.content
          /\ chip' = r.chip
          /\ epoch' = Committed(r.content)
    BY <1>2 DEF ProgramMarker
  <2>2. r.chip = "ready" /\ troubles' \in 0..MaxTroubles
        /\ suffered' \subseteq FaultClasses
    BY <1>0, <2>1, ProgramOutcome, ProgramOkReady, TransferFault
  <2>3. marker' \in {marker, Torn, Marker} /\ marker # Marker /\ epoch < MaxResets
    BY <1>0, <1>2, <2>1, ProgramOutcome DEF ProgramMarker, Consistent
  <2>4. epoch' \in Epochs
    BY <2>1, <2>3, ResetAssumption DEF Committed, TypeOK, Epochs
  <2>5. TypeOK'
    BY <1>2, <2>2, <2>3, <2>4, <2>1 DEF ProgramMarker, TypeOK, Phases, ChipStates
  <2>6. CASE marker' = Marker
    BY <1>2, <2>1, <2>2, <2>5, <2>6 DEF ProgramMarker, Consistent
  <2>7. CASE marker' # Marker
    <3>1. epoch' = epoch
      BY <2>1, <2>7 DEF Committed
    <3>2. NothingOld /\ NothingOld'
      BY <1>2, <2>3, <3>1 DEF ProgramMarker, NothingOld, Consistent
    <3> QED
      BY <1>2, <2>1, <2>2, <2>5, <2>7, <3>1, <3>2 DEF ProgramMarker, Consistent
  <2> QED BY <2>5, <2>6, <2>7
<1>3. CASE ReadMarker
  <2>1. PICK r \in Read(marker, chip) :
          /\ Suffer(r.status, "read")
          /\ \/ /\ r.status = "ok" /\ r.content = Marker
                /\ phase' = "erasing"
                /\ position' = 1
                /\ UNCHANGED request
             \/ /\ ~(r.status = "ok" /\ r.content = Marker)
                /\ phase' = "idle"
                /\ request' = "none"
                /\ UNCHANGED position
    BY <1>3 DEF ReadMarker
  <2>2. r.status = "ok" /\ r.content = marker /\ troubles' = troubles
        /\ suffered' = suffered
    BY <1>0, <2>1, ReadOutcome DEF Suffer, Statuses, OnlyTransfers
  <2>3. TypeOK'
    BY <1>3, <2>1, <2>2, ResetAssumption DEF ReadMarker, TypeOK, Phases
  <2>4. NothingOld' <=> NothingOld
    BY <1>3 DEF ReadMarker, NothingOld
  <2>5. Consistent'
    BY <1>3, <2>1, <2>2, <2>4 DEF ReadMarker, Consistent, Sectors
  <2> QED BY <2>3, <2>5
<1> QED BY <1>1, <1>2, <1>3

(* Erasing.  A sector is blank when the position passes it, and the marker *)
(* goes when all of them are.                                              *)
LEMMA EraseKeeps ==
  ASSUME OnlyTransfers', TypeOK, Consistent,
         EraseData \/ EraseMarkerLast
  PROVE  TypeOK' /\ Consistent'
<1>0. chip = "ready" /\ marker = Marker
  BY DEF Consistent, EraseData, EraseMarkerLast
<1>1. CASE EraseData
  <2>1. PICK r \in EraseSector(data[position], chip) :
          /\ Suffer(r.status, FaultOf(r))
          /\ data' = [data EXCEPT ![position] = r.content]
          /\ chip' = r.chip
          /\ phase' = IF r.status = "ok" THEN phase ELSE EraseFailed
          /\ position' = IF r.status = "ok" THEN position + 1 ELSE position
    BY <1>1, Zenon DEF EraseData
  <2>2. r.chip = "ready" /\ troubles' \in 0..MaxTroubles
        /\ suffered' \subseteq FaultClasses
    BY <1>0, <2>1, EraseOutcome, TransferFault
  <2>3. r.content \in {data[position], Blank, Torn}
        /\ (r.status = "ok" => r.content = Blank)
    BY <1>0, <2>1, EraseOutcome
  <2>4. position \in Sectors /\ position' \in 1..(N + 1)
    BY <1>1, <2>1, ResetAssumption DEF EraseData, Sectors
  <2>5. data' \in [Sectors -> Epochs \cup {Blank, Torn}]
    BY <2>1, <2>3, <2>4 DEF TypeOK
  <2>6. TypeOK'
    BY <1>1, <2>1, <2>2, <2>4, <2>5 DEF EraseData, EraseFailed, TypeOK, Phases, ChipStates
  <2>7. ASSUME phase' \in {"erasing", "resuming"}, NEW s \in Sectors, s < position'
        PROVE  data'[s] = Blank
    <3>1. r.status = "ok" /\ position' = position + 1
      BY <2>1, <2>7 DEF EraseFailed
    <3>2. CASE s = position
      BY <2>1, <2>3, <2>4, <3>1, <3>2 DEF TypeOK
    <3>3. CASE s # position
      <4>1. s < position
        BY <2>4, <2>7, <3>1, <3>3, ResetAssumption DEF Sectors
      <4>2. data[s] = Blank
        BY <1>1, <4>1 DEF EraseData, Consistent
      <4> QED BY <2>1, <3>3, <4>2 DEF TypeOK
    <3> QED BY <3>2, <3>3
  <2>8. Consistent'
    BY <1>0, <1>1, <2>1, <2>2, <2>7 DEF EraseData, EraseFailed, Consistent
  <2> QED BY <2>6, <2>8
<1>2. CASE EraseMarkerLast
  <2>1. PICK r \in EraseSector(marker, chip) :
          /\ Suffer(r.status, FaultOf(r))
          /\ marker' = r.content
          /\ chip' = r.chip
          /\ phase' = IF r.status = "ok" THEN "restart" ELSE EraseFailed
          /\ request' = IF r.status = "ok" THEN "none" ELSE request
    BY <1>2 DEF EraseMarkerLast
  <2>2. r.chip = "ready" /\ troubles' \in 0..MaxTroubles
        /\ suffered' \subseteq FaultClasses
    BY <1>0, <2>1, EraseOutcome, TransferFault
  <2>3. /\ r.status \in Statuses
        /\ r.status = "ok" => marker' = Blank
        /\ r.status = "error" => marker' = Marker
    BY <1>0, <2>1, <2>2, EraseOutcome
  <2>4. TypeOK'
    BY <1>2, <2>1, <2>2, <2>3 DEF EraseMarkerLast, EraseFailed, TypeOK, Phases,
      ChipStates, Statuses
  <2>5. NothingOld'
    <3>1. \A s \in Sectors : data[s] = Blank
      BY <1>2, ResetAssumption DEF EraseMarkerLast, Consistent, Sectors
    <3> QED BY <1>2, <3>1, ResetAssumption DEF EraseMarkerLast, NothingOld
  <2>6. Consistent'
    BY <1>0, <1>2, <2>1, <2>2, <2>3, <2>5, ResetAssumption
      DEF EraseMarkerLast, EraseFailed, Consistent, Statuses
  <2> QED BY <2>4, <2>6
<1> QED BY <1>1, <1>2

(* A power cut.  A cut erase of the marker finds every sector blank; a cut *)
(* program of it commits the reset or leaves things as they were.          *)
LEMMA PowerLossKeeps ==
  ASSUME TypeOK, Consistent, PowerLoss
  PROVE  TypeOK' /\ Consistent'
<1>1. /\ phase' = "off" /\ chip' = "ready" /\ ram' = ram
      /\ position' = position /\ request' = request /\ suffered' = suffered
      /\ troubles' \in 0..MaxTroubles
      /\ epoch' = Committed(marker')
  BY ResetAssumption DEF PowerLoss, TypeOK
<1>2. SUFFICES /\ marker' \in {Blank, Torn, Marker}
               /\ data' \in [Sectors -> Epochs \cup {Blank, Torn}]
               /\ epoch' \in Epochs
               /\ marker' # Marker => NothingOld'
  BY <1>1 DEF TypeOK, Phases, ChipStates, Consistent
<1>3. CASE phase \in {"erasing", "resuming"} /\ position \in Sectors
  <2>1. position # N + 1
    BY <1>3, ResetAssumption DEF Sectors
  <2>2. marker' = Marker /\ marker = Marker
    BY <1>3, <2>1 DEF PowerLoss, Consistent
  <2>3. PICK c \in EraseCut(data[position]) : data' = [data EXCEPT ![position] = c]
    BY <1>3 DEF PowerLoss
  <2>4. data' \in [Sectors -> Epochs \cup {Blank, Torn}]
    BY <1>3, <2>3 DEF EraseCut, TypeOK
  <2>5. epoch' = epoch
    BY <1>1, <2>2 DEF Committed
  <2> QED BY <2>2, <2>4, <2>5 DEF TypeOK
<1>4. CASE phase \in {"erasing", "resuming"} /\ position = N + 1
  <2>1. data' = data
    BY <1>4, ResetAssumption DEF PowerLoss, Sectors
  <2>2. marker' \in {Blank, Torn, Marker} /\ marker = Marker
    BY <1>4 DEF PowerLoss, EraseCut, Consistent
  <2>3. epoch' = epoch
    BY <1>1, <2>2 DEF Committed
  <2>4. \A s \in Sectors : data[s] = Blank
    BY <1>4, ResetAssumption DEF Consistent, Sectors
  <2>5. NothingOld'
    BY <2>1, <2>4, ResetAssumption DEF NothingOld
  <2> QED BY <2>1, <2>2, <2>3, <2>5 DEF TypeOK
<1>5. CASE phase \notin {"erasing", "resuming"}
  <2>1. data' = data
    BY <1>5 DEF PowerLoss
  <2>2. CASE phase = "programMarker"
    <3>1. marker' \in ProgramCut(marker, Marker)
      BY <2>2 DEF PowerLoss
    <3>2. marker' \in {marker, Torn, Marker} /\ marker # Marker /\ epoch < MaxResets
      BY <2>2, <3>1 DEF ProgramCut, Programmed, Consistent
    <3>3. epoch' \in Epochs
      BY <1>1, <3>2, ResetAssumption DEF Committed, TypeOK, Epochs
    <3>4. marker' # Marker => epoch' = epoch
      BY <1>1 DEF Committed
    <3>5. marker' # Marker => NothingOld'
      BY <2>1, <3>2, <3>4 DEF NothingOld, Consistent
    <3> QED BY <2>1, <3>2, <3>3, <3>5 DEF TypeOK
  <2>3. CASE phase # "programMarker"
    <3>1. marker' \in {marker, Torn, Blank}
      BY <1>5, <2>3 DEF PowerLoss, EraseCut
    <3>2. phase # "eraseMarker" => marker' = marker
      BY <1>5, <2>3 DEF PowerLoss
    <3>3. marker' # Marker => marker # Marker
      BY <3>2 DEF Consistent
    <3>4. epoch' = epoch
      BY <1>1, <3>1, ResetAssumption DEF Committed
    <3>5. marker' # Marker => NothingOld'
      BY <2>1, <3>3, <3>4 DEF NothingOld, Consistent
    <3> QED BY <2>1, <3>1, <3>4, <3>5 DEF TypeOK
  <2> QED BY <2>2, <2>3
<1>6. position \in Sectors \/ position = N + 1
  BY ResetAssumption DEF TypeOK, Sectors
<1> QED BY <1>3, <1>4, <1>5, <1>6

(* The remaining steps touch neither marker nor epoch; a save writes what  *)
(* RAM holds, which is old only while the marker is in place.              *)
LEMMA OtherKeeps ==
  ASSUME TypeOK, Consistent,
         \/ WindowExpires \/ Restart \/ ChipReady \/ PowerCycle
         \/ \E s \in Sectors : Save(s)
  PROVE  TypeOK' /\ Consistent'
<1>1. CASE WindowExpires \/ Restart \/ ChipReady \/ PowerCycle
  <2>1. TypeOK'
    BY <1>1 DEF WindowExpires, Restart, ChipReady, PowerCycle, TypeOK, Phases, ChipStates
  <2>2. NothingOld' <=> NothingOld
    BY <1>1 DEF WindowExpires, Restart, ChipReady, PowerCycle, NothingOld
  <2>3. Consistent'
    BY <1>1, <2>2 DEF WindowExpires, Restart, ChipReady, PowerCycle, Consistent
  <2> QED BY <2>1, <2>3
<1>2. ASSUME NEW s \in Sectors, Save(s)
      PROVE  TypeOK' /\ Consistent'
  <2>1. PICK c \in {ram[s], Blank, Torn} : data' = [data EXCEPT ![s] = c]
    BY <1>2, Zenon DEF Save
  <2>2. data' \in [Sectors -> Epochs \cup {Blank, Torn}]
    BY <1>2, <2>1 DEF TypeOK
  <2>3. TypeOK'
    BY <1>2, <2>2 DEF Save, TypeOK
  <2>4. marker # Marker => NothingOld'
    <3> SUFFICES ASSUME marker # Marker, NEW t \in Sectors, data'[t] \in Epochs
                 PROVE  data'[t] = epoch
      BY <1>2 DEF Save, NothingOld
    <3>1. CASE t = s
      <4>1. c = ram[s]
        BY <2>1, <3>1, ResetAssumption DEF TypeOK
      <4>2. ram[s] = epoch
        BY <1>2 DEF Save, Consistent
      <4> QED BY <2>1, <3>1, <4>1, <4>2 DEF TypeOK
    <3>2. CASE t # s
      BY <2>1, <3>2 DEF Consistent, NothingOld, TypeOK
    <3> QED BY <3>1, <3>2
  <2>5. Consistent'
    BY <1>2, <2>4 DEF Save, Consistent
  <2> QED BY <2>3, <2>5
<1> QED BY <1>1, <1>2

(* The classes of fault that have occurred stay on record.                 *)
LEMMA SufferedGrows == [Next]_vars => suffered \subseteq suffered'
<1>1. ASSUME NEW status, NEW class, Suffer(status, class)
      PROVE  suffered \subseteq suffered'
  BY <1>1 DEF Suffer
<1>2. BootStep => suffered \subseteq suffered'
  BY <1>1 DEF BootStep, BootWithoutFlash, BootUnreadable, BootResume, BootNormal
<1>3. ResetStep => suffered \subseteq suffered'
  BY <1>1 DEF ResetStep, EraseMarker, ProgramMarker, ReadMarker, EraseData,
    EraseMarkerLast, Restart
<1> QED
  BY <1>2, <1>3 DEF Next, WindowExpires, Save, ChipReady, PowerLoss, PowerCycle, vars

(* The inductive invariant.                                                *)
Inductive == OnlyTransfers => TypeOK /\ Consistent

(* Every step preserves the inductive invariant: one case per kind of      *)
(* step.                                                                   *)
LEMMA InvariantStep ==
  ASSUME Inductive, [Next]_vars
  PROVE  Inductive'
<1> SUFFICES ASSUME OnlyTransfers' PROVE TypeOK' /\ Consistent'
  BY DEF Inductive
<1>0. TypeOK /\ Consistent
  BY SufferedGrows, Zenon DEF Inductive, OnlyTransfers
<1>1. CASE BootStep
  BY <1>0, <1>1, BootKeeps
<1>2. CASE EraseMarker \/ ProgramMarker \/ ReadMarker
  BY <1>0, <1>2, MarkerKeeps
<1>3. CASE EraseData \/ EraseMarkerLast
  BY <1>0, <1>3, EraseKeeps
<1>4. CASE PowerLoss
  BY <1>0, <1>4, PowerLossKeeps
<1>5. CASE \/ WindowExpires \/ Restart \/ ChipReady \/ PowerCycle
           \/ \E s \in Sectors : Save(s)
  BY <1>0, <1>5, OtherKeeps
<1>6. CASE UNCHANGED vars
  <2>1. TypeOK'
    BY <1>0, <1>6 DEF vars, TypeOK
  <2>2. NothingOld' <=> NothingOld
    BY <1>6 DEF vars, NothingOld
  <2>3. Consistent'
    BY <1>0, <1>6, <2>2 DEF vars, Consistent
  <2> QED BY <2>1, <2>3
<1> QED BY <1>1, <1>2, <1>3, <1>4, <1>5, <1>6 DEF Next, ResetStep

LEMMA InductiveCorrect == Spec => []Inductive
<1>1. Init => Inductive
  BY InvariantInit DEF Inductive
<1>2. Inductive /\ [Next]_vars => Inductive'
  BY InvariantStep
<1> QED BY <1>1, <1>2, PTL DEF Spec

(* The invariant of the reset, for every number of sectors: the marker     *)
(* outlasts whatever is older than the reset                               *)
(* (factoryResetService_ErasePersistentState).                             *)
THEOREM ResetInvariantCorrect == Spec => []ResetInvariant
<1>1. Inductive => ResetInvariant
  BY DEF Inductive, ResetInvariant
<1> QED BY <1>1, InductiveCorrect, PTL

(* Every setting a running device serves was made after the last committed *)
(* reset, wherever power cuts and failed erases interrupted that reset     *)
(* (ErasePersistentState and ResumePending).                               *)
THEOREM NoSettingsSurviveCorrect == Spec => []NoSettingsSurvive
<1>1. Inductive => NoSettingsSurvive
  BY DEF Inductive, Consistent, NoSettingsSurvive
<1> QED BY <1>1, InductiveCorrect, PTL

(* Settings from before a committed reset are never in flash without the   *)
(* marker that makes the next start erase them (the order of the erases).  *)
THEOREM PartialEraseIsMarkedCorrect == Spec => []PartialEraseIsMarked
<1>1. Inductive => PartialEraseIsMarked
  BY ResetAssumption
    DEF Inductive, TypeOK, Consistent, PartialEraseIsMarked, NothingOld, Epochs
<1> QED BY <1>1, InductiveCorrect, PTL

(* The restart after a failed erase finds the marker in place (the failure *)
(* branch of factoryResetService_Task).                                    *)
THEOREM FailureKeepsMarkerCorrect == Spec => FailureKeepsMarker
<1>1. Inductive /\ [Next]_vars
      => [OnlyTransfers /\ phase = "failureWait" /\ phase' = "off"
            => marker' = Marker]_vars
  <2> SUFFICES ASSUME Inductive, Next, OnlyTransfers,
                      phase = "failureWait", phase' = "off"
               PROVE  marker' = Marker
    OBVIOUS
  <2>1. marker = Marker
    BY DEF Inductive, Consistent
  <2>2. marker' = marker
    BY DEF Next, BootStep, BootWithoutFlash, BootUnreadable, BootResume, BootNormal,
      WindowExpires, ResetStep, EraseMarker, ProgramMarker, ReadMarker, EraseData,
      EraseMarkerLast, Restart, Save, ChipReady, PowerLoss, PowerCycle
  <2> QED BY <2>1, <2>2
<1> QED BY <1>1, InductiveCorrect, PTL DEF Spec, FailureKeepsMarker
-------------------------------------------------------------------------------
(* Properties that survive more classes of fault. *)

(* Whatever fails, the sectors are erased only under a valid marker: the   *)
(* property is inductive by itself, since a read that delivers the marker  *)
(* was of the marker.                                                      *)
LEMMA NothingErasedStep ==
  ASSUME NothingErasedUnmarked, [Next]_vars
  PROVE  NothingErasedUnmarked'
<1> USE DEF NothingErasedUnmarked
<1>1. CASE BootStep
  BY <1>1 DEF BootStep, BootWithoutFlash, BootUnreadable, BootResume, BootNormal
<1>2. CASE EraseMarker \/ ProgramMarker
  BY <1>2 DEF EraseMarker, ProgramMarker
<1>3. CASE ReadMarker
  <2>1. PICK r \in Read(marker, chip) :
          phase' = "idle" \/ (phase' = "erasing" /\ r.content = Marker)
    BY <1>3 DEF ReadMarker
  <2>2. r.content \in {marker, Torn}
    BY DEF Read, Result
  <2> QED
    BY <1>3, <2>1, <2>2, ResetAssumption DEF ReadMarker
<1>4. CASE EraseData
  BY <1>4 DEF EraseData, EraseFailed
<1>5. CASE EraseMarkerLast
  BY <1>5 DEF EraseMarkerLast, EraseFailed
<1>6. CASE WindowExpires \/ Restart \/ ChipReady \/ PowerLoss \/ PowerCycle
  BY <1>6 DEF WindowExpires, Restart, ChipReady, PowerLoss, PowerCycle
<1>7. CASE \E s \in Sectors : Save(s)
  BY <1>7 DEF Save
<1>8. CASE UNCHANGED vars
  BY <1>8 DEF vars
<1> QED
  BY <1>1, <1>2, <1>3, <1>4, <1>5, <1>6, <1>7, <1>8 DEF Next, ResetStep

(* With every class of fault, whatever the number of sectors, no sector is *)
(* erased without a marker in flash (factoryResetService_WriteMarker).     *)
THEOREM NothingErasedUnmarkedCorrect == Spec => []NothingErasedUnmarked
<1>1. Init => NothingErasedUnmarked
  BY DEF Init, NothingErasedUnmarked
<1>2. NothingErasedUnmarked /\ [Next]_vars => NothingErasedUnmarked'
  BY NothingErasedStep
<1> QED BY <1>1, <1>2, PTL DEF Spec

(* Neither a read-back nor a wait has failed so far.                       *)
NoneMisled == suffered \subseteq {"transfer", "probe"}

(* Until one does, the chip is idle and a marker, or the writing of one,   *)
(* goes with a confirmed request.                                          *)
MarkerIsConfirmed ==
  NoneMisled =>
    /\ chip = "ready"
    /\ marker = Marker \/ phase \in {"eraseMarker", "programMarker", "resuming"} =>
         request = "confirmed"

(* A call that fails leaves the chip idle, unless it is the wait.          *)
LEMMA IdleAfterFault ==
  ASSUME NoneMisled', NEW r,
         r.status \in Statuses, r.chip \in ChipStates,
         r.status = "ok" => r.chip = "ready",
         Suffer(r.status, FaultOf(r))
  PROVE  r.chip = "ready"
BY DEF Suffer, FaultOf, Statuses, ChipStates, NoneMisled

LEMMA MarkerIsConfirmedStep ==
  ASSUME MarkerIsConfirmed, [Next]_vars
  PROVE  MarkerIsConfirmed'
<1> SUFFICES ASSUME NoneMisled'
             PROVE  /\ chip' = "ready"
                    /\ marker' = Marker
                       \/ phase' \in {"eraseMarker", "programMarker", "resuming"} =>
                         request' = "confirmed"
  BY DEF MarkerIsConfirmed
<1>0. /\ chip = "ready"
      /\ marker = Marker \/ phase \in {"eraseMarker", "programMarker", "resuming"} =>
           request = "confirmed"
  BY SufferedGrows, Zenon DEF MarkerIsConfirmed, NoneMisled
<1>1. CASE BootStep
  BY <1>0, <1>1 DEF BootStep, BootWithoutFlash, BootUnreadable, BootResume, BootNormal
<1>2. CASE EraseMarker
  <2>1. PICK r \in EraseSector(marker, chip) :
          /\ Suffer(r.status, FaultOf(r)) /\ marker' = r.content /\ chip' = r.chip
    BY <1>2 DEF EraseMarker
  <2>2. r.chip = "ready"
    BY <1>0, <2>1, EraseOutcome, IdleAfterFault
  <2>3. request' = "confirmed"
    BY <1>0, <1>2 DEF EraseMarker
  <2> QED
    BY <2>1, <2>2, <2>3
<1>3. CASE ProgramMarker
  <2>1. PICK r \in Program(marker, Marker, chip) :
          /\ Suffer(r.status, FaultOf(r)) /\ marker' = r.content /\ chip' = r.chip
    BY <1>3 DEF ProgramMarker
  <2>2. r.chip = "ready"
    BY <1>0, <2>1, ProgramOutcome, ProgramOkReady, IdleAfterFault
  <2>3. request' = "confirmed"
    BY <1>0, <1>3 DEF ProgramMarker
  <2> QED
    BY <2>1, <2>2, <2>3
<1>4. CASE ReadMarker
  <2>1. PICK r \in Read(marker, chip) :
          /\ Suffer(r.status, "read")
          /\ \/ r.status = "ok" /\ r.content = Marker /\ phase' = "erasing"
                /\ UNCHANGED request
             \/ ~(r.status = "ok" /\ r.content = Marker) /\ phase' = "idle"
    BY <1>4 DEF ReadMarker
  <2>2. r.status = "ok" /\ r.content = marker
    BY <1>0, <2>1, ReadOutcome DEF Suffer, Statuses, NoneMisled
  <2> QED
    BY <1>0, <1>4, <2>1, <2>2 DEF ReadMarker
<1>5. CASE EraseData
  <2>1. PICK r \in EraseSector(data[position], chip) :
          Suffer(r.status, FaultOf(r)) /\ chip' = r.chip
    BY <1>5 DEF EraseData
  <2>2. r.chip = "ready"
    BY <1>0, <2>1, EraseOutcome, IdleAfterFault
  <2>3. phase' \in {phase, "halted", "failureWait"} /\ UNCHANGED <<marker, request>>
    BY <1>5 DEF EraseData, EraseFailed
  <2> QED
    BY <1>0, <2>1, <2>2, <2>3
<1>6. CASE EraseMarkerLast
  <2>1. PICK r \in EraseSector(marker, chip) :
          /\ Suffer(r.status, FaultOf(r)) /\ marker' = r.content /\ chip' = r.chip
          /\ request' = IF r.status = "ok" THEN "none" ELSE request
    BY <1>6 DEF EraseMarkerLast
  <2>2. r.chip = "ready" /\ phase' \in {"restart", "halted", "failureWait"}
    BY <1>0, <1>6, <2>1, EraseOutcome, IdleAfterFault DEF EraseMarkerLast, EraseFailed
  <2>3. CASE r.status = "ok"
    <3>1. marker' = Blank
      BY <1>0, <2>1, <2>3, EraseOutcome
    <3> QED
      BY <2>1, <2>2, <3>1, ResetAssumption
  <2>4. CASE r.status # "ok"
    <3>1. marker' = marker
      BY <1>0, <2>1, <2>2, <2>4, EraseOutcome DEF Statuses
    <3> QED
      BY <1>0, <2>1, <2>2, <2>4, <3>1
  <2> QED
    BY <2>3, <2>4
<1>7. CASE WindowExpires \/ Restart \/ ChipReady \/ PowerCycle
  BY <1>0, <1>7 DEF WindowExpires, Restart, ChipReady, PowerCycle
<1>8. CASE PowerLoss
  <2>1. phase' = "off" /\ chip' = "ready" /\ request' = request
    BY <1>8 DEF PowerLoss
  <2>2. marker' = Marker => marker = Marker \/ phase = "programMarker"
    BY <1>8, ResetAssumption DEF PowerLoss, EraseCut
  <2> QED
    BY <1>0, <2>1, <2>2
<1>9. CASE \E s \in Sectors : Save(s)
  BY <1>0, <1>9 DEF Save
<1>10. CASE UNCHANGED vars
  BY <1>0, <1>10 DEF vars
<1> QED
  BY <1>1, <1>2, <1>3, <1>4, <1>5, <1>6, <1>7, <1>8, <1>9, <1>10 DEF Next, ResetStep

(* As long as no read-back and no wait fails, a start resumes a reset only *)
(* if the user confirmed it and the device did not report it as cancelled. *)
THEOREM ResumesOnlyConfirmedCorrect == Spec => []ResumesOnlyConfirmed
<1>1. Init => MarkerIsConfirmed
  BY ResetAssumption DEF Init, MarkerIsConfirmed
<1>2. MarkerIsConfirmed /\ [Next]_vars => MarkerIsConfirmed'
  BY MarkerIsConfirmedStep
<1>3. MarkerIsConfirmed => ResumesOnlyConfirmed
  BY DEF MarkerIsConfirmed, NoneMisled, ResumesOnlyConfirmed
<1> QED BY <1>1, <1>2, <1>3, PTL DEF Spec
===============================================================================
