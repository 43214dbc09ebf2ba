-------------------------- MODULE SnapshotProperties --------------------------
(* What the A/B snapshot stores guarantee, for model checking and proof.   *)
EXTENDS SnapshotStore

Running == pc \in {"idle", "erase", "program", "verify"} /\ ~booting

(* The running snapshot is never ahead of the flash: whatever the service  *)
(* serves from RAM is what the active bank holds, bit for bit, unless the  *)
(* store has never been written (the publish-after-verify order of         *)
(* healthCheckConfig_Save).                                                *)
ServedIsStored ==
  Running => \/ bank[activeAddress] = snapshot
             \/ ~WritesDefault /\ snapshot = Empty

(* The image last acknowledged, or last loaded, is in one of the banks at  *)
(* every instant, whatever is being erased or programmed: a power cut can  *)
(* never cost an acknowledged setting.                                     *)
AcknowledgedIsStored ==
  \/ durable = Empty
  \/ \E b \in Banks : bank[b] \in Image /\ Migrated(bank[b]) = durable

(* A start never goes back to an older snapshot than the last one          *)
(* acknowledged (the choice by generation in HealthCheckConfig_Init).      *)
NeverRollsBack ==
  [][pc = "off" /\ pc' # "off" => snapshot'.generation >= durable.generation]_vars

(* Why the above holds.  A save changes only the inactive bank, so the     *)
(* program step finds it blank or has used up the one busy encounter, and  *)
(* the read-back finds the candidate or nothing valid.                     *)
SaveInvariant ==
  /\ pc \notin {"off", "halt"} => snapshot.version = Version
  /\ pc \in {"erase", "program", "verify"} =>
       /\ candidate.version = Version
       /\ candidate.generation = snapshot.generation + 1
  /\ pc = "program" => bank[Target] = Blank \/ ignored > 0
  /\ pc = "verify" => bank[Target] \in {candidate, Blank, Torn}

(* Bank b holds the acknowledged image (or the store was never written),   *)
(* and the other bank holds an older one, a newer unacknowledged one, or   *)
(* nothing valid.                                                          *)
HoldsDurable(b) ==
  /\ \/ bank[b] \in Image /\ Migrated(bank[b]) = durable
     \/ bank[b] \notin Image /\ durable = Empty
  /\ bank[Other(b)] \in Image =>
       \/ /\ bank[Other(b)].generation < durable.generation
          /\ bank[b] \in Image => bank[Other(b)].version <= bank[b].version
       \/ /\ bank[Other(b)].generation > durable.generation
          /\ bank[Other(b)].version = Version

(* At rest some bank holds the acknowledged image; while the store runs it *)
(* is the active one, which no step of a save writes.                      *)
StoreInvariant ==
  /\ SaveInvariant
  /\ \/ pc \in {"off", "halt"} /\ \E b \in Banks : HoldsDurable(b)
     \/ pc \notin {"off", "halt"} /\ HoldsDurable(activeAddress) /\ snapshot = durable

(* The abstract register: its limbo is the value of an image newer than    *)
(* the acknowledged one.                                                   *)
Limbo ==
  {Migrated(bank[b]).value : b \in {x \in Banks :
     bank[x] \in Image /\ bank[x].generation > durable.generation}}
  \ {durable.value}

NoRequest == Torn

(* Its request is the save in progress, unless it is the one Init makes.   *)
Requested ==
  IF pc \in {"erase", "program", "verify"} /\ ~booting THEN candidate.value ELSE NoRequest

Up == pc # "off" /\ pc # "halt" /\ ~booting

Register == INSTANCE DurableRegister WITH
  value <- durable.value, request <- Requested, limbo <- Limbo, up <- Up

(* The store with its erases, programs, read-backs, errors and power cuts  *)
(* implements the durable register.                                        *)
ImplementsRegister == Register!RegisterSpec
===============================================================================
