---------------------------- MODULE HealthCheckLog ----------------------------
(***************************************************************************)
(* The persistent ring of health-check results, Srv/Src/health_check_log.c.*)
(* Two flash sectors take records slot by slot; when the active one is     *)
(* full the other is erased and becomes active.  Position and sequence     *)
(* number live in RAM and are found again by a scan at start-up.           *)
(*                                                                         *)
(* A record is modelled by its sequence number and by a stamp, the number  *)
(* of the append that wrote it.  The code never sees the stamp: it tells   *)
(* which of two records is really the more recent one.                     *)
(*                                                                         *)
(* The log mutex is held throughout an append, so its steps are told apart *)
(* only because power may fail between them.  A slot whose program was cut *)
(* before the sequence word is Blank to the scan, and can be programmed    *)
(* again, since the bits it has lost are those of the same magic.          *)
(***************************************************************************)
EXTENDS W25Q64, Integers, FiniteSets

CONSTANTS
  Slots,       \* HEALTH_CHECK_LOG_SLOTS_PER_SECTOR
  Capacity,    \* entries a reader of the log asks for
  Faults,      \* the classes of flash fault that may occur
  MaxTroubles, \* faults and power cuts in one behaviour
  MaxAppends   \* appends in one behaviour

(* "torn": a program fails half-way;  "hole": a program fails and leaves   *)
(* the slot as it was;  "read": the read-back fails, or the program does   *)
(* so after its last byte;  "erase": an erase fails;  "ignored": a chip    *)
(* that is still busy ignores the erase, and the call returns OK;  "scan": *)
(* a read of the start-up scan fails.                                      *)
FaultClasses == {"torn", "hole", "read", "erase", "ignored", "scan"}

Sectors == {0, 1}
SlotNumbers == 0..(Slots - 1)
Record == [sequence : 1..MaxAppends, stamp : 1..MaxAppends]

ASSUME LogAssumption ==
  /\ Slots \in Nat \ {0}
  /\ Capacity \in Nat \ {0}
  /\ Faults \subseteq FaultClasses
  /\ MaxTroubles \in Nat
  /\ MaxAppends \in Nat
  /\ Blank \notin Record
  /\ Torn \notin Record

VARIABLES
  flash,        \* [Sectors -> [SlotNumbers -> contents]]
  activeSector, nextSlot, nextSequence,
  pc,           \* where the log's code is
  troubles,     \* faults and power cuts left
  suffered,     \* history: the classes of fault that have occurred
  spoiled,      \* history: the sectors have lost their order, see Spoil
  appends,      \* history: appends that reached the flash so far
  acked         \* history: the records whose append returned OK

vars == <<flash, activeSector, nextSlot, nextSequence, pc, troubles, suffered,
          spoiled, appends, acked>>

TypeOK ==
  /\ flash \in [Sectors -> [SlotNumbers -> Record \cup {Blank, Torn}]]
  /\ activeSector \in Sectors
  /\ nextSlot \in 0..Slots
  /\ nextSequence \in 0..(MaxAppends + 1)
  /\ pc \in {"off", "bootRoll", "halt", "idle", "rolled", "program", "verify"}
  /\ troubles \in 0..MaxTroubles
  /\ suffered \subseteq FaultClasses
  /\ spoiled \in BOOLEAN
  /\ appends \in 0..MaxAppends
  /\ acked \subseteq Record

Init ==
  /\ flash = [s \in Sectors |-> [i \in SlotNumbers |-> Blank]]
  /\ activeSector = 0
  /\ nextSlot = 0
  /\ nextSequence = 0
  /\ pc = "off"
  /\ troubles = MaxTroubles
  /\ suffered = {}
  /\ spoiled = FALSE
  /\ appends = 0
  /\ acked = {}

(* A fault must be of a class that may occur, and there are only so many.  *)
Suffer(faults) ==
  /\ faults \subseteq Faults
  /\ Cardinality(faults) <= troubles
  /\ troubles' = troubles - Cardinality(faults)
  /\ suffered' = suffered \cup faults

(* What the scan relies on can be lost in two ways: a sector is filled     *)
(* without one valid record, or an erase is ignored over a sector that an  *)
(* earlier one left half erased.                                           *)
Spoil(how) == spoiled' = (spoiled \/ how)

Least(S) == CHOOSE i \in S : \A j \in S : i <= j
Greatest(S) == CHOOSE i \in S : \A j \in S : i >= j

-------------------------------------------------------------------------------
(* healthCheckLog_ScanSector: the scan skips slots that are torn or cannot *)
(* be read, and stops at the first erased one.                             *)

ScanEndAtBad(sector, readable) ==   \* seeded fault: stops at a torn slot, too
  Least({i \in readable : flash[sector][i] \notin Record} \cup {Slots})

ScanEnd(sector, readable) ==
  Least({i \in readable : flash[sector][i] = Blank} \cup {Slots})

ScanValid(sector, readable) ==
  {i \in readable : i < ScanEnd(sector, readable) /\ flash[sector][i] \in Record}

LastSequence(sector, readable) ==
  IF ScanValid(sector, readable) = {} THEN 0
  ELSE flash[sector][Greatest(ScanValid(sector, readable))].sequence

Other(sector) == 1 - sector

PreferredZero(last) == 0            \* seeded fault: sequences not compared

(* HealthCheckLog_Init: the sector with the greater last sequence goes on, *)
(* or, if it is full, the other one is erased; an empty log starts in      *)
(* sector 0.  (While Init rolls, activeSector is the one it rolls from.)   *)
Preferred(last) == IF last[0] >= last[1] THEN 0 ELSE 1

Boot ==
  /\ pc = "off"
  /\ \E unreadable \in {{}} \cup {{slot} : slot \in Sectors \X SlotNumbers} :
       LET readable(s) == {i \in SlotNumbers : <<s, i>> \notin unreadable}
           last == [s \in Sectors |-> LastSequence(s, readable(s))]
           active == Preferred(last)
           empty == \A s \in Sectors : ScanValid(s, readable(s)) = {}
           available == ScanEnd(active, readable(active))
       IN /\ Suffer(IF unreadable = {} THEN {} ELSE {"scan"})
          /\ nextSequence' = IF empty THEN 1 ELSE last[active] + 1
          /\ activeSector' = IF empty THEN 1 ELSE active
          /\ nextSlot' = IF empty THEN Slots ELSE available
          /\ pc' = IF empty \/ available = Slots THEN "bootRoll" ELSE "idle"
  /\ UNCHANGED <<flash, spoiled, appends, acked>>

(* healthCheckLog_RollToSector: an interrupted erase may leave any mixture *)
(* of old, torn and blank slots; RAM changes only when it succeeds.        *)
Cut(sector) ==
  {[i \in SlotNumbers |-> IF i \in torn THEN Torn ELSE IF i \in blank THEN Blank
                          ELSE flash[sector][i]] :
     torn \in SUBSET SlotNumbers, blank \in SUBSET SlotNumbers}

HalfErased(sector) ==
  /\ \E i \in SlotNumbers : flash[sector][i] = Blank
  /\ \E i \in SlotNumbers : flash[sector][i] # Blank

Roll(sector, onSuccess, onFailure) ==
  \/ /\ Suffer({})
     /\ flash' = [flash EXCEPT ![sector] = [i \in SlotNumbers |-> Blank]]
     /\ activeSector' = sector
     /\ nextSlot' = 0
     /\ pc' = onSuccess
     /\ UNCHANGED spoiled
  \/ /\ Suffer({"erase"})
     /\ \E f \in Cut(sector) : flash' = [flash EXCEPT ![sector] = f]
     /\ pc' = onFailure
     /\ UNCHANGED <<activeSector, nextSlot, spoiled>>
  \/ /\ Suffer({"ignored"})
     /\ Spoil(HalfErased(sector))
     /\ activeSector' = sector
     /\ nextSlot' = 0
     /\ pc' = onSuccess
     /\ UNCHANGED flash

BootRoll ==
  /\ pc = "bootRoll"
  /\ Roll(Other(activeSector), "idle", "halt")
  /\ UNCHANGED <<nextSequence, appends, acked>>

-------------------------------------------------------------------------------
(* HealthCheckLog_Append. *)

AppendStart ==
  /\ pc = "rolled" \/ (pc = "idle" /\ nextSlot < Slots)
  /\ appends < MaxAppends
  /\ appends' = appends + 1
  /\ pc' = "program"
  /\ UNCHANGED <<flash, activeSector, nextSlot, nextSequence, troubles, suffered,
                 spoiled, acked>>

AppendRoll ==
  /\ pc = "idle"
  /\ appends < MaxAppends
  /\ nextSlot >= Slots
  /\ Roll(Other(activeSector), "rolled", "idle")
  /\ UNCHANGED <<nextSequence, appends, acked>>

NewRecord == [sequence |-> nextSequence, stamp |-> appends]

Slot == flash[activeSector][nextSlot]

Barren(contents) == \A i \in SlotNumbers : contents[i] \notin Record

AdvanceSlotOnly ==                  \* seeded fault: the number is given again
  /\ nextSlot' = nextSlot + 1
  /\ pc' = "idle"
  /\ Spoil(nextSlot' = Slots /\ Barren(flash'[activeSector]))
  /\ UNCHANGED nextSequence

(* A slot is never tried twice and a sequence number never given twice,    *)
(* whether or not the record could be written.                             *)
Advance ==
  /\ nextSlot' = nextSlot + 1
  /\ nextSequence' = nextSequence + 1
  /\ pc' = "idle"
  /\ Spoil(nextSlot' = Slots /\ Barren(flash'[activeSector]))

ProgramFault(content) ==
  CASE content = Torn -> {"torn"} [] content = Slot -> {"hole"} [] OTHER -> {"read"}

AppendProgram ==
  /\ pc = "program"
  /\ \E r \in Program(Slot, NewRecord, "ready") :
       /\ r.chip = "ready"
       /\ flash' = [flash EXCEPT ![activeSector][nextSlot] = r.content]
       /\ \/ /\ r.status = "ok"
             /\ Suffer({})
             /\ pc' = "verify"
             /\ UNCHANGED <<nextSlot, nextSequence, spoiled>>
          \/ /\ r.status = "error"
             /\ Suffer(ProgramFault(r.content))
             /\ Advance
  /\ UNCHANGED <<activeSector, appends, acked>>

(* The append is acknowledged if the slot reads back as it was written.    *)
Verified == Slot = NewRecord

AppendVerify ==
  /\ pc = "verify"
  /\ UNCHANGED <<flash, activeSector, appends>>
  /\ \/ /\ Verified
        /\ Suffer({})
        /\ acked' = acked \cup {NewRecord}
     \/ /\ Suffer(IF Verified THEN {"read"} ELSE {})
        /\ UNCHANGED acked
  /\ Advance

-------------------------------------------------------------------------------
(* Power fails and cuts the driver call in progress short.  A halted       *)
(* device is restarted by the watchdog or the operator.                    *)
PowerLoss ==
  /\ pc # "off"
  /\ \/ pc = "halt" /\ UNCHANGED troubles
     \/ troubles > 0 /\ troubles' = troubles - 1
  /\ \/ /\ pc \notin {"program", "bootRoll"}
        /\ UNCHANGED flash
     \/ /\ pc = "program"
        /\ \E c \in ProgramCut(Slot, NewRecord) :
             flash' = [flash EXCEPT ![activeSector][nextSlot] = c]
     \/ /\ pc = "bootRoll" \/ (pc = "idle" /\ nextSlot >= Slots /\ appends < MaxAppends)
        /\ \E f \in Cut(Other(activeSector)) :
             flash' = [flash EXCEPT ![Other(activeSector)] = f]
  /\ pc' = "off"
  /\ activeSector' = 0
  /\ nextSlot' = 0
  /\ nextSequence' = 0
  /\ UNCHANGED <<suffered, spoiled, appends, acked>>

(* Behaviours end here only because appends are counted.                   *)
Bounded == pc = "idle" /\ appends = MaxAppends /\ UNCHANGED vars

Next ==
  \/ Boot \/ BootRoll
  \/ AppendStart \/ AppendRoll \/ AppendProgram \/ AppendVerify
  \/ PowerLoss
  \/ Bounded

Spec == Init /\ [][Next]_vars

-------------------------------------------------------------------------------
(* HealthCheckLog_GetRecent reads the active sector from the last slot     *)
(* down, then the other one, leaves out what is not a valid record, and    *)
(* stops when it has as many entries as were asked for.  What it returns   *)
(* is modelled as the set of slots the entries come from, in the order of  *)
(* Precedes.                                                               *)
Count(sector) ==
  IF sector = activeSector THEN nextSlot ELSE ScanEnd(sector, SlotNumbers)

Content(slot) == flash[slot[1]][slot[2]]

Found ==
  {slot \in Sectors \X SlotNumbers :
     slot[2] < Count(slot[1]) /\ Content(slot) \in Record}

Precedes(p, q) ==
  \/ p[1] = activeSector /\ q[1] # activeSector
  \/ p[1] = q[1] /\ p[2] > q[2]

GetRecent ==
  {slot \in Found : Cardinality({p \in Found : Precedes(p, slot)}) < Capacity}

-------------------------------------------------------------------------------
(* Properties. *)

(* The scan relies on every slot it has read being used: no program left   *)
(* its slot untouched, and no read of a scan failed.  And it relies on a   *)
(* record in every sector it comes from, and on nothing in the one it goes *)
(* to.                                                                     *)
Dependable == suffered \cap {"hole", "scan"} = {} /\ ~spoiled

Older(r, q) == r.sequence < q.sequence /\ r.stamp < q.stamp

(* The log reads newest first: of any two entries GetRecent returns, the   *)
(* earlier one has the greater sequence number and was written later, also *)
(* after a roll whose erase the chip ignored.                              *)
NewestFirst ==
  Dependable /\ pc = "idle" =>
    \A p, q \in GetRecent : Precedes(p, q) => Older(Content(q), Content(p))

(* Acknowledged results are not lost early: whatever failed meanwhile,     *)
(* each of the last appends, as many as a sector has slots and a reader    *)
(* asks for, is returned by GetRecent if it was acknowledged.              *)
RetainsRecent ==
  Dependable /\ pc = "idle" =>
    \A r \in acked : r.stamp > appends - Slots /\ r.stamp > appends - Capacity =>
      \E slot \in GetRecent : Content(slot) = r

(* Sequence numbers increase from one acknowledged record to the next,     *)
(* across restarts.                                                        *)
Increases == \A r \in acked' \ acked : \A q \in acked : r.sequence > q.sequence

SequencesIncrease ==
  [][Dependable => Increases]_vars

(* "Monotonically increasing record number; higher is more recent"         *)
(* (Srv/Inc/health_check_log.h), whatever failed.                          *)
MonotonicallyIncreasing == [][Increases]_vars
===============================================================================
