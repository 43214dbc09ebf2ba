----------------------------- MODULE SnapshotStore -----------------------------
(***************************************************************************)
(* The A/B snapshot store.  Four services keep their settings this way:    *)
(* health_check_config.c, callback_config.c, user_store.c and              *)
(* tls_server_credentials.c (TrustStore models the fifth, whose banks have *)
(* several sectors).  Each owns two flash sectors, its banks, and a RAM    *)
(* snapshot; a change is copied into a candidate with the next generation, *)
(* written to the inactive bank, read back, and only then published.  At   *)
(* boot the valid image with the greatest generation wins.                 *)
(*                                                                         *)
(* The steps of a save are separate actions because the flash mutex is     *)
(* released between driver calls and because power may fail in any of      *)
(* them.  The store's own mutex is held from SaveBegin to the end.         *)
(***************************************************************************)
EXTENDS W25Q64

CONSTANTS
  Values,          \* what a snapshot may hold
  Default,         \* the value of a store with no valid image
  Version,         \* the current layout version; older images are migrated
  Migrate,         \* [Values -> Values]: what a migration keeps of a value
  MaxGeneration,   \* bound on the generation counter
  WritesDefault,   \* Init saves the default (the two configurations) or
                   \* keeps it in RAM only (user store, server credentials)
  BootReadFaults,  \* a bank read may fail transiently while booting
  MaxIgnored       \* commands of one save that may meet a busy chip

Versions == 1..Version
Banks == {"A", "B"}
Other(b) == IF b = "A" THEN "B" ELSE "A"
Image == [version : Versions, generation : 0..MaxGeneration, value : Values]
Contents == Image \cup {Blank, Torn}
Empty == [version |-> Version, generation |-> 0, value |-> Default]

ASSUME StoreAssumption ==
  /\ Default \in Values
  /\ Version \in Nat \ {0}
  /\ Migrate \in [Values -> Values]
  /\ MaxGeneration \in Nat \ {0}
  /\ MaxIgnored \in Nat
  /\ WritesDefault \in BOOLEAN
  /\ BootReadFaults \in BOOLEAN
  /\ Blank \notin Image
  /\ Torn \notin Image
  /\ Torn \notin Values

VARIABLES
  bank,            \* the two flash banks
  chip,            \* "busy": it still works on an operation given up on
  snapshot,        \* RAM: the published snapshot
  activeAddress,   \* RAM: the bank it was read from or saved to
  candidate,       \* RAM: the image being saved
  pc,              \* where the store's code is
  booting,         \* the save in progress is the one Init makes
  ignored,         \* commands of the save in progress that met a busy chip
  durable          \* history: the image last acknowledged or loaded

vars == <<bank, chip, snapshot, activeAddress, candidate, pc, booting, ignored,
          durable>>

IsValid(content, version) == content \in Image /\ content.version = version

NewestLast(found) ==                \* seeded fault: generations not compared
  IF "B" \in found THEN "B" ELSE "A"

(* The image Init prefers among the banks it could read: bank A on a tie.  *)
Newest(found) ==
  IF "A" \in found
     /\ ("B" \notin found \/ bank["A"].generation >= bank["B"].generation)
  THEN "A" ELSE "B"

(* A migrated image keeps its generation; resources that refer to removed  *)
(* factory anchors are dropped from its value.                             *)
Migrated(image) ==
  IF image.version = Version THEN image
  ELSE [image EXCEPT !.version = Version, !.value = Migrate[image.value]]

TargetActive == activeAddress       \* seeded fault: saves over the live image

Target == Other(activeAddress)

Successor(image) == [image EXCEPT !.generation = @ + 1]

TypeOK ==
  /\ bank \in [Banks -> Contents]
  /\ chip \in ChipStates
  /\ snapshot \in Image
  /\ activeAddress \in Banks
  /\ candidate \in Image
  /\ pc \in {"off", "idle", "erase", "program", "verify", "halt"}
  /\ booting \in BOOLEAN
  /\ ignored \in 0..MaxIgnored
  /\ durable \in Image

(* A device leaves the factory blank, or comes from older firmware with    *)
(* one image, or with one image and its predecessor.                       *)
Init ==
  /\ bank \in [Banks -> Contents \ {Torn}]
  /\ \/ bank = [b \in Banks |-> Blank] /\ durable = Empty
     \/ \E b \in Banks :
          /\ bank[b] \in Image
          /\ bank[b].generation \in 1..(MaxGeneration - 1)
          /\ durable = Migrated(bank[b])
          /\ \/ bank[Other(b)] = Blank
             \/ /\ bank[Other(b)] \in Image
                /\ bank[Other(b)].version <= bank[b].version
                /\ bank[Other(b)].generation + 1 = bank[b].generation
                /\ bank[Other(b)].generation > 0
  /\ chip = "ready"
  /\ snapshot = Empty
  /\ activeAddress = "A"
  /\ candidate = Empty
  /\ pc = "off"
  /\ booting = FALSE
  /\ ignored = 0

-------------------------------------------------------------------------------
(* Boot. *)

(* An image of the current version is adopted as it is.                    *)
Load(b) ==
  /\ snapshot' = bank[b]
  /\ activeAddress' = b
  /\ durable' = bank[b]
  /\ pc' = "idle"
  /\ UNCHANGED <<candidate, booting>>

(* An older image is migrated in RAM and saved to the other bank.          *)
LoadOlder(b) ==
  /\ bank[b].generation < MaxGeneration
  /\ snapshot' = Migrated(bank[b])
  /\ activeAddress' = b
  /\ candidate' = Successor(Migrated(bank[b]))
  /\ booting' = TRUE
  /\ pc' = "erase"
  /\ UNCHANGED durable

(* With no image the default is published, and saved to bank A by the      *)
(* stores that do so.                                                      *)
LoadDefault ==
  /\ snapshot' = Empty
  /\ activeAddress' = "B"
  /\ IF WritesDefault
     THEN /\ candidate' = Successor(Empty)
          /\ booting' = TRUE
          /\ pc' = "erase"
          /\ UNCHANGED durable
     ELSE /\ pc' = "idle"
          /\ durable' = Empty
          /\ UNCHANGED <<candidate, booting>>

(* Init reads both banks once per layout version, newest version first,    *)
(* and a failed read counts as an invalid image.                           *)
Boot ==
  /\ pc = "off"
  /\ \E readable \in [Versions -> SUBSET Banks] :
       LET found(v) == {b \in readable[v] : IsValid(bank[b], v)}
       IN /\ BootReadFaults \/ readable = [v \in Versions |-> Banks]
          /\ \/ found(Version) # {} /\ Load(Newest(found(Version)))
             \/ \E v \in 1..(Version - 1) :
                  /\ found(v) # {}
                  /\ \A w \in (v + 1)..Version : found(w) = {}
                  /\ LoadOlder(Newest(found(v)))
             \/ (\A v \in Versions : found(v) = {}) /\ LoadDefault
  /\ ignored' = 0
  /\ UNCHANGED <<bank, chip>>

-------------------------------------------------------------------------------
(* Save. *)

SaveBeginInPlace(value) ==          \* seeded fault: no candidate copy
  /\ pc = "idle"
  /\ snapshot.generation < MaxGeneration
  /\ candidate' = Successor([snapshot EXCEPT !.value = value])
  /\ snapshot' = candidate'
  /\ pc' = "erase"
  /\ ignored' = 0
  /\ UNCHANGED <<bank, chip, activeAddress, booting, durable>>

SaveBegin(value) ==
  /\ pc = "idle"
  /\ snapshot.generation < MaxGeneration
  /\ candidate' = Successor([snapshot EXCEPT !.value = value])
  /\ pc' = "erase"
  /\ ignored' = 0
  /\ UNCHANGED <<bank, chip, snapshot, activeAddress, booting, durable>>

(* A failed save leaves RAM as it was.  The save Init makes ends in        *)
(* System_ErrorHandler (so that its candidate, which is the RAM snapshot   *)
(* itself, is never served).                                               *)
Fail ==
  /\ pc' = IF booting THEN "halt" ELSE "idle"
  /\ booting' = FALSE
  /\ UNCHANGED <<snapshot, activeAddress, durable>>

CountIgnored ==
  /\ chip = "busy" => ignored < MaxIgnored
  /\ ignored' = IF chip = "busy" THEN ignored + 1 ELSE ignored

SaveErase ==
  /\ pc = "erase"
  /\ CountIgnored
  /\ \E r \in EraseSector(bank[Target], chip) :
       /\ bank' = [bank EXCEPT ![Target] = r.content]
       /\ chip' = r.chip
       /\ \/ r.status = "ok" /\ pc' = "program"
             /\ UNCHANGED <<booting, snapshot, activeAddress, durable>>
          \/ r.status = "error" /\ Fail
  /\ UNCHANGED candidate

SaveProgram ==
  /\ pc = "program"
  /\ CountIgnored
  /\ \E r \in Program(bank[Target], candidate, chip) :
       /\ bank' = [bank EXCEPT ![Target] = r.content]
       /\ chip' = r.chip
       /\ \/ r.status = "ok" /\ pc' = "verify"
             /\ UNCHANGED <<booting, snapshot, activeAddress, durable>>
          \/ r.status = "error" /\ Fail
  /\ UNCHANGED candidate

AcceptedUnread(r) == r.status = "ok"   \* seeded fault: contents not looked at

(* The read-back must be a valid image of the candidate's generation.      *)
Accepted(r) ==
  /\ r.status = "ok"
  /\ IsValid(r.content, Version)
  /\ r.content.generation = candidate.generation

Publish(image) ==
  /\ snapshot' = image
  /\ activeAddress' = Target
  /\ durable' = image
  /\ pc' = "idle"
  /\ booting' = FALSE

SaveVerify ==
  /\ pc = "verify"
  /\ \E r \in Read(bank[Target], chip) :
       \/ Accepted(r) /\ Publish(candidate)
       \/ ~Accepted(r) /\ Fail
  /\ UNCHANGED <<bank, chip, candidate, ignored>>

-------------------------------------------------------------------------------
(* The surroundings. *)

(* Another store's call gives up on a working chip.                        *)
ChipLeftBusy ==
  /\ pc # "off"
  /\ chip = "ready"
  /\ ignored < MaxIgnored
  /\ chip' = "busy"
  /\ UNCHANGED <<bank, snapshot, activeAddress, candidate, pc, booting, ignored,
                 durable>>

ChipReady ==
  /\ chip = "busy"
  /\ chip' = "ready"
  /\ UNCHANGED <<bank, snapshot, activeAddress, candidate, pc, booting, ignored,
                 durable>>

(* Power fails, or System_ErrorHandler ends in a watchdog reset.  An erase *)
(* or program under way is cut short; RAM is lost.                         *)
PowerLoss ==
  /\ pc # "off"
  /\ bank' \in
       CASE pc = "erase" /\ chip = "ready" ->
              {[bank EXCEPT ![Target] = c] : c \in EraseCut(bank[Target])}
         [] pc = "program" /\ chip = "ready" ->
              {[bank EXCEPT ![Target] = c] : c \in ProgramCut(bank[Target], candidate)}
         [] OTHER -> {bank}
  /\ chip' = "ready"
  /\ snapshot' = Empty
  /\ activeAddress' = "A"
  /\ candidate' = Empty
  /\ pc' = "off"
  /\ booting' = FALSE
  /\ ignored' = 0
  /\ UNCHANGED durable

Next ==
  \/ Boot
  \/ \E value \in Values : SaveBegin(value)
  \/ SaveErase
  \/ SaveProgram
  \/ SaveVerify
  \/ ChipLeftBusy
  \/ ChipReady
  \/ PowerLoss

Spec == Init /\ [][Next]_vars
===============================================================================
