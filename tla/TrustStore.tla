------------------------------ MODULE TrustStore ------------------------------
(***************************************************************************)
(* The trust-anchor store, TLS/Src/tls_trust_store.c: an A/B store like    *)
(* SnapshotStore, except that                                              *)
(*   - a bank has several sectors, erased one driver call at a time, so    *)
(*     that other tasks use the flash in between, and programmed by one;   *)
(*   - images of the two older layouts are in banks of their own, which    *)
(*     are read when the current ones hold nothing, and never written;     *)
(*   - the read-back does not compare generations: whatever valid image it *)
(*     finds is published;                                                 *)
(*   - the default is saved like any other image.                          *)
(* A sector holds its part of an image; a bank holds an image when all its *)
(* sectors do.                                                             *)
(***************************************************************************)
EXTENDS W25Q64

CONSTANTS
  Values,          \* what a snapshot may hold: the set of anchors
  Default,         \* no anchors
  BankSectors,     \* FLASH_LAYOUT_TLS_TRUST_STORE_BANK_SECTORS
  MaxGeneration,   \* bound on the generation counter
  OldGenerations,  \* generations an image of an older layout may have
  BootReadFaults,  \* the reads that may fail transiently while booting: the
                   \* "first" of a bank, or the "second" of bank A
  MaxIgnored       \* commands of one save that may meet a busy chip

Banks == {"A", "B"}
Layouts == {"previous", "legacy"}
Sectors == 1..BankSectors
Other(b) == IF b = "A" THEN "B" ELSE "A"
Image == [generation : 0..MaxGeneration, value : Values]
Empty == [generation |-> 0, value |-> Default]

ASSUME TrustAssumption ==
  /\ Default \in Values
  /\ BankSectors \in Nat \ {0}
  /\ MaxGeneration \in Nat \ {0}
  /\ OldGenerations \subseteq 1..(MaxGeneration - 1)
  /\ BootReadFaults \subseteq {"first", "second"}
  /\ MaxIgnored \in Nat
  /\ Blank \notin Image
  /\ Torn \notin Image
  /\ Torn \notin Values

VARIABLES
  bank,            \* the two banks, sector by sector
  older,           \* the banks of the older layouts
  chip,            \* "busy": it still works on an operation given up on
  snapshot,        \* RAM: the published snapshot
  activeAddress,   \* RAM: its bank
  candidate,       \* RAM: the image being saved
  pc,              \* where the store's code is
  sector,          \* the sector being erased or programmed
  booting,         \* the save in progress is the one Init makes
  ignored,         \* commands of the save in progress that met a busy chip
  durable          \* history: the image last acknowledged or loaded

vars == <<bank, older, chip, snapshot, activeAddress, candidate, pc, sector, booting,
          ignored, durable>>

(* What a bank reads as: an image if every sector holds its part.          *)
Whole(b) ==
  IF bank[b][1] \in Image /\ \A s \in Sectors : bank[b][s] = bank[b][1]
  THEN bank[b][1] ELSE Torn

(* TlsTrustStore_Init prefers bank A on a tie, but an older layout's B.    *)
Newest(found) ==
  IF "A" \in found
     /\ ("B" \notin found \/ Whole("A").generation >= Whole("B").generation)
  THEN "A" ELSE "B"

NewestOlder(pair, found) ==
  IF "B" \in found /\ ("A" \notin found \/ pair["B"].generation >= pair["A"].generation)
  THEN pair["B"] ELSE pair["A"]

Valid(pair) == {b \in Banks : pair[b] \in Image}

TargetActive == activeAddress       \* seeded fault: saves over the live image

Target == Other(activeAddress)

Successor(image) == [image EXCEPT !.generation = @ + 1]

(* Older firmware leaves nothing, an image, or an image and the one before.*)
OlderPairs ==
  {[b \in Banks |-> Blank]}
  \cup {[b \in Banks |-> IF b = x THEN i ELSE Blank] :
          x \in Banks, i \in [generation : OldGenerations, value : Values]}
  \cup {[b \in Banks |-> IF b = x THEN Successor(i) ELSE i] :
          x \in Banks, i \in {j \in [generation : OldGenerations, value : Values] :
                                j.generation + 1 \in OldGenerations}}

OlderImage(pairs) ==
  CASE Valid(pairs["previous"]) # {} ->
         NewestOlder(pairs["previous"], Valid(pairs["previous"]))
    [] Valid(pairs["previous"]) = {} /\ Valid(pairs["legacy"]) # {} ->
         NewestOlder(pairs["legacy"], Valid(pairs["legacy"]))
    [] OTHER -> Empty

Init ==
  /\ bank = [b \in Banks |-> [s \in Sectors |-> Blank]]
  /\ older \in [Layouts -> OlderPairs]
  /\ durable = OlderImage(older)
  /\ chip = "ready"
  /\ snapshot = Empty
  /\ activeAddress = "A"
  /\ candidate = Empty
  /\ pc = "off"
  /\ sector = 1
  /\ booting = FALSE
  /\ ignored = 0

-------------------------------------------------------------------------------
(* TlsTrustStore_Init. *)

Load(b) ==
  /\ snapshot' = Whole(b)
  /\ activeAddress' = b
  /\ durable' = Whole(b)
  /\ pc' = "idle"
  /\ UNCHANGED <<candidate, booting>>

(* Bank A is read into place a second time; if that fails, Init does.      *)
LoadFails ==
  /\ pc' = "halt"
  /\ UNCHANGED <<snapshot, activeAddress, durable, candidate, booting>>

(* An image of an older layout, or the default, is saved; the migrated     *)
(* image of the previous layout to bank B, the others to bank A.           *)
LoadAndSave(image, b) ==
  /\ image.generation < MaxGeneration
  /\ snapshot' = image
  /\ activeAddress' = b
  /\ candidate' = Successor(image)
  /\ booting' = TRUE
  /\ pc' = "erase"
  /\ UNCHANGED durable

Boot ==
  /\ pc = "off"
  /\ \E readable \in SUBSET Banks, again \in BOOLEAN,
        olderReadable \in [Layouts -> SUBSET Banks] :
       LET found == {b \in readable : Whole(b) \in Image}
           foundOlder(l) == olderReadable[l] \cap Valid(older[l])
       IN /\ "first" \notin BootReadFaults =>
               readable = Banks /\ olderReadable = [l \in Layouts |-> Banks]
          /\ "second" \notin BootReadFaults => again
          /\ \/ found # {} /\ (Newest(found) = "A" => again) /\ Load(Newest(found))
             \/ found # {} /\ Newest(found) = "A" /\ ~again /\ LoadFails
             \/ /\ found = {} /\ foundOlder("previous") # {}
                /\ LoadAndSave(NewestOlder(older["previous"], foundOlder("previous")), "A")
             \/ /\ found = {} /\ foundOlder("previous") = {} /\ foundOlder("legacy") # {}
                /\ LoadAndSave(NewestOlder(older["legacy"], foundOlder("legacy")), "B")
             \/ /\ found = {} /\ foundOlder("previous") = {} /\ foundOlder("legacy") = {}
                /\ LoadAndSave(Empty, "B")
  /\ ignored' = 0
  /\ sector' = 1
  /\ UNCHANGED <<bank, older, chip>>

-------------------------------------------------------------------------------
(* TlsTrustStore_Add, _Replace, _Delete and _Reset make a candidate of the *)
(* snapshot; tlsTrustStore_CommitCandidate and tlsTrustStore_Save write it.*)

SaveBegin(value) ==
  /\ pc = "idle"
  /\ snapshot.generation < MaxGeneration
  /\ candidate' = Successor([snapshot EXCEPT !.value = value])
  /\ pc' = "erase"
  /\ sector' = 1
  /\ ignored' = 0
  /\ UNCHANGED <<bank, older, chip, snapshot, activeAddress, booting, durable>>

Fail ==
  /\ pc' = IF booting THEN "halt" ELSE "idle"
  /\ booting' = FALSE
  /\ sector' = 1
  /\ UNCHANGED <<snapshot, activeAddress, durable>>

CountIgnored ==
  /\ chip = "busy" => ignored < MaxIgnored
  /\ ignored' = IF chip = "busy" THEN ignored + 1 ELSE ignored

(* On to the next sector, or to the next part of the save.                 *)
Advance(next) ==
  /\ IF sector = BankSectors THEN pc' = next /\ sector' = 1
     ELSE pc' = pc /\ sector' = sector + 1
  /\ UNCHANGED <<booting, snapshot, activeAddress, durable>>

SaveEraseShort ==                   \* seeded fault: the loop ends a sector early
  /\ pc = "erase"
  /\ CountIgnored
  /\ bank' = IF sector < BankSectors
             THEN [bank EXCEPT ![Target][sector] = Blank] ELSE bank
  /\ Advance("program")
  /\ UNCHANGED <<older, candidate, chip>>

SaveErase ==
  /\ pc = "erase"
  /\ CountIgnored
  /\ \E r \in EraseSector(bank[Target][sector], chip) :
       /\ bank' = [bank EXCEPT ![Target][sector] = r.content]
       /\ chip' = r.chip
       /\ \/ r.status = "ok" /\ Advance("program")
          \/ r.status = "error" /\ Fail
  /\ UNCHANGED <<older, candidate>>

(* One driver call programs all the sectors.  An image has more pages than *)
(* the one a busy chip ignores, so that its first sector is then torn.     *)
SaveProgram ==
  /\ pc = "program"
  /\ CountIgnored
  /\ \E r \in Program(bank[Target][sector], candidate, chip) :
       /\ chip = "busy" /\ r.status = "ok" => r.content = Torn
       /\ bank' = [bank EXCEPT ![Target][sector] = r.content]
       /\ chip' = r.chip
       /\ \/ r.status = "ok" /\ Advance("verify")
          \/ r.status = "error" /\ Fail
  /\ UNCHANGED <<older, candidate>>

Accepted(r) == r.status = "ok" /\ r.content \in Image

Publish(image) ==
  /\ snapshot' = image
  /\ activeAddress' = Target
  /\ durable' = image
  /\ pc' = "idle"
  /\ booting' = FALSE
  /\ UNCHANGED sector

SaveVerify ==
  /\ pc = "verify"
  /\ \E r \in Read(Whole(Target), chip) :
       \/ Accepted(r) /\ Publish(r.content)
       \/ ~Accepted(r) /\ Fail
  /\ UNCHANGED <<bank, older, chip, candidate, ignored>>

-------------------------------------------------------------------------------
(* The surroundings, as for SnapshotStore.  While W25Q64_Program runs no   *)
(* other task can reach the chip.                                          *)

ChipLeftBusy ==
  /\ pc # "off"
  /\ ~(pc = "program" /\ sector > 1)
  /\ chip = "ready"
  /\ ignored < MaxIgnored
  /\ chip' = "busy"
  /\ UNCHANGED <<bank, older, snapshot, activeAddress, candidate, pc, sector, booting,
                 ignored, durable>>

ChipReady ==
  /\ chip = "busy"
  /\ chip' = "ready"
  /\ UNCHANGED <<bank, older, snapshot, activeAddress, candidate, pc, sector, booting,
                 ignored, durable>>

PowerLoss ==
  /\ pc # "off"
  /\ bank' \in
       CASE pc = "erase" /\ chip = "ready" ->
              {[bank EXCEPT ![Target][sector] = c] : c \in EraseCut(bank[Target][sector])}
         [] pc = "program" /\ chip = "ready" ->
              {[bank EXCEPT ![Target][sector] = c] :
                 c \in ProgramCut(bank[Target][sector], candidate)}
         [] OTHER -> {bank}
  /\ chip' = "ready"
  /\ snapshot' = Empty
  /\ activeAddress' = "A"
  /\ candidate' = Empty
  /\ pc' = "off"
  /\ sector' = 1
  /\ booting' = FALSE
  /\ ignored' = 0
  /\ UNCHANGED <<older, durable>>

Next ==
  \/ Boot
  \/ \E value \in Values : SaveBegin(value)
  \/ SaveErase
  \/ SaveProgram
  \/ SaveVerify
  \/ ChipLeftBusy
  \/ ChipReady
  \/ PowerLoss

Spec == Init /\ [][Next]_vars

-------------------------------------------------------------------------------
(* Properties. *)

(* A save none of whose commands was ignored and none of whose calls has   *)
(* failed has the candidate in the bank when it comes to read it back: the *)
(* erases cover all that the program needs (tlsTrustStore_Save).           *)
FaultlessSaveIsWhole == pc = "verify" /\ ignored = 0 => Whole(Target) = candidate

Limbo ==
  {Whole(b).value : b \in {x \in Banks :
     Whole(x) \in Image /\ Whole(x).generation > durable.generation}} \ {durable.value}

NoRequest == Torn

Requested ==
  IF pc \in {"erase", "program", "verify"} /\ ~booting
  THEN candidate.value ELSE NoRequest

Up == pc # "off" /\ pc # "halt" /\ ~booting

Register == INSTANCE DurableRegister WITH
  value <- durable.value,
  request <- Requested,
  limbo <- Limbo,
  up <- Up

(* With its several sectors and its older layouts the trust store keeps    *)
(* the promise of the durable register.                                    *)
ImplementsRegister == Register!RegisterSpec
===============================================================================
