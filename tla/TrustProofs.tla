------------------------------ MODULE TrustProofs ------------------------------
(***************************************************************************)
(* Proofs about the trust anchors: the store that keeps them, TrustStore,  *)
(* for any number of sectors to a bank, and the references other stores    *)
(* make to them, TrustAnchorRefs, for any number of anchors and resources. *)
(*                                                                         *)
(* The store implements the durable register that TrustAnchorRefs takes    *)
(* each of its three stores to be.  One write of a save leaves a bank with *)
(* the image it held, the image being saved, or none (WriteWhole): with    *)
(* that lemma a bank of many sectors is as good as a bank of one.          *)
(*                                                                         *)
(* The handlers of the management API keep every reference valid through   *)
(* failed and interrupted saves, until a start adopts a change reported as *)
(* failed.  SoundUntilAdoption is inductive together with the types.       *)
(***************************************************************************)
EXTENDS TrustStore, TrustAnchorRefs, TLAPS

(* A save is under way.                                                    *)
Saving == pc \in {"erase", "program", "verify"}

(* The types of the store's variables, the ranges its counters keep to and *)
(* the shape of an older layout.                                           *)
TrustTypeOK ==
  /\ bank \in [Banks -> [Sectors -> Image \cup {Blank, Torn}]]
  /\ older \in [Layouts -> OlderPairs]
  /\ chip \in ChipStates
  /\ snapshot \in Image
  /\ activeAddress \in Banks
  /\ candidate \in Image
  /\ pc \in {"off", "idle", "erase", "program", "verify", "halt"}
  /\ sector \in Sectors
  /\ booting \in BOOLEAN
  /\ ignored \in Nat
  /\ durable \in Image

(* How far the save has come.  Of what a sector held before nothing is     *)
(* left once it is programmed, even by a busy chip; and while no command   *)
(* has been ignored the erased and the programmed sectors are what they    *)
(* should be.                                                              *)
SaveProgress ==
  /\ \A s \in Sectors :
       pc = "verify" \/ (pc = "program" /\ s < sector)
         => bank[Target][s] \in {candidate, Torn}
  /\ ignored = 0 =>
       \A s \in Sectors :
         /\ pc = "erase" /\ s < sector => bank[Target][s] = Blank
         /\ pc = "program" /\ s >= sector => bank[Target][s] = Blank
         /\ pc = "verify" \/ (pc = "program" /\ s < sector)
              => bank[Target][s] = candidate

(* Bank b holds the acknowledged image, and the other bank none of the     *)
(* same generation: Init can tell them apart.                              *)
HoldsDurable(b) ==
  /\ Whole(b) = durable
  /\ Whole(Other(b)) \in Image
       => Whole(Other(b)).generation # durable.generation

(* The bank Init saves a migrated or default image to.                     *)
MigrationBank == IF Valid(older["previous"]) # {} THEN "B" ELSE "A"

(* No image has been loaded from the current layout yet: what Init serves  *)
(* is the newest image of the older layouts, and the migration has written *)
(* that or nothing.                                                        *)
Unmigrated ==
  /\ durable = OlderImage(older)
  /\ Whole(Other(MigrationBank)) \notin Image
  /\ Whole(MigrationBank) \in Image => Whole(MigrationBank) = Successor(durable)

(* What the refinement rests on, place by place: which bank holds the      *)
(* image that counts as written while the store idles, saves and starts.   *)
StoreInvariant ==
  /\ booting => /\ Saving
                /\ Unmigrated
                /\ activeAddress = Other(MigrationBank)
                /\ candidate = Successor(durable)
  /\ Saving /\ ~booting => candidate.generation = durable.generation + 1
  /\ (pc = "idle" \/ Saving) /\ ~booting
       => snapshot = durable /\ HoldsDurable(activeAddress)
  /\ pc \in {"off", "halt"}
       => Unmigrated \/ \E b \in Banks : HoldsDurable(b)

-------------------------------------------------------------------------------
(* What the driver's calls and the helpers return.                         *)
LEMMA EraseResult ==
  ASSUME NEW old, NEW state \in ChipStates, NEW r \in EraseSector(old, state)
  PROVE  /\ r.chip \in ChipStates
         /\ r.content \in {old, Blank, Torn}
         /\ r.status = "ok" /\ state = "ready" => r.content = Blank
BY DEF EraseSector, Result, ChipStates

(* W25Q64_Program of one sector.                                           *)
LEMMA ProgramResult ==
  ASSUME NEW old, NEW image, NEW state \in ChipStates,
         NEW r \in Program(old, image, state)
  PROVE  /\ r.chip \in ChipStates
         /\ r.content \in {old, Torn, image}
         /\ r.status = "ok" /\ state = "ready" => r.content = Programmed(old, image)
BY DEF Program, Programmed, Result, ChipStates

(* W25Q64_Read delivers the contents or nothing a reader accepts.          *)
LEMMA ReadResult ==
  ASSUME NEW content, NEW state \in ChipStates, NEW r \in Read(content, state)
  PROVE  r.content \in {Torn, content}
BY DEF Read, Result, ChipStates

(* The two banks are each other's counterpart.                             *)
LEMMA OtherBank ==
  \A b \in Banks : Other(b) \in Banks /\ Other(b) # b /\ Other(Other(b)) = b
BY DEF Banks, Other

(* The default is an image.                                                *)
LEMMA EmptyImage == Empty \in Image
BY TrustAssumption DEF Empty, Image

(* The image the next save writes.                                         *)
LEMMA SuccessorImage ==
  ASSUME NEW image \in Image
  PROVE  /\ Successor(image).generation = image.generation + 1
         /\ Successor(image).value = image.value
         /\ image.generation < MaxGeneration => Successor(image) \in Image
BY TrustAssumption DEF Successor, Image

(* The banks of an older layout hold images or nothing.                    *)
LEMMA OlderBanks ==
  ASSUME NEW pair \in OlderPairs
  PROVE  pair \in [Banks -> Image \cup {Blank}]
<1> DEFINE Old == [generation : OldGenerations, value : Values]
<1>1. \A i \in Old : i \in Image /\ i.generation < MaxGeneration
  BY TrustAssumption DEF Image
<1>2. \A i \in Old : Successor(i) \in Image
  BY <1>1, SuccessorImage
<1>3. CASE pair = [b \in Banks |-> Blank]
  BY <1>3
<1>4. CASE \E x \in Banks, i \in Old :
             pair = [b \in Banks |-> IF b = x THEN i ELSE Blank]
  BY <1>1, <1>4
<1>5. CASE \E x \in Banks, i \in Old :
             pair = [b \in Banks |-> IF b = x THEN Successor(i) ELSE i]
  BY <1>1, <1>2, <1>5
<1> QED
  BY <1>3, <1>4, <1>5 DEF OlderPairs

(* What is chosen of an older layout is one of its images.                 *)
LEMMA NewestOlderImage ==
  ASSUME NEW pair \in OlderPairs, NEW found \in SUBSET Valid(pair), found # {}
  PROVE  NewestOlder(pair, found) \in Image
<1>1. /\ "A" \in found => pair["A"] \in Image
      /\ "B" \in found => pair["B"] \in Image
      /\ "A" \in found \/ "B" \in found
  BY Zenon DEF Valid, Banks
<1> QED
  BY <1>1, Zenon DEF NewestOlder

(* What a device without an image of the current layout serves.            *)
LEMMA OlderImageIsImage ==
  ASSUME NEW pairs \in [Layouts -> OlderPairs]
  PROVE  OlderImage(pairs) \in Image
<1>1. pairs["previous"] \in OlderPairs /\ pairs["legacy"] \in OlderPairs
  BY DEF Layouts
<1>2. Valid(pairs["previous"]) # {}
        => NewestOlder(pairs["previous"], Valid(pairs["previous"])) \in Image
  BY <1>1, NewestOlderImage
<1>3. Valid(pairs["legacy"]) # {}
        => NewestOlder(pairs["legacy"], Valid(pairs["legacy"])) \in Image
  BY <1>1, NewestOlderImage
<1>4. CASE Valid(pairs["previous"]) # {}
  BY <1>2, <1>4 DEF OlderImage
<1>5. CASE Valid(pairs["previous"]) = {} /\ Valid(pairs["legacy"]) # {}
  BY <1>3, <1>5 DEF OlderImage
<1>6. CASE Valid(pairs["previous"]) = {} /\ Valid(pairs["legacy"]) = {}
  BY <1>6, EmptyImage DEF OlderImage
<1> QED
  BY <1>4, <1>5, <1>6

(* A bank has a first sector.                                              *)
LEMMA FirstSector == 1 \in Sectors
BY TrustAssumption DEF Sectors

(* Init chooses a bank in which it found an image.                         *)
LEMMA NewestBank ==
  ASSUME NEW found \in SUBSET Banks, found # {}
  PROVE  Newest(found) \in found
BY Zenon DEF Banks, Newest

(* Init with what it could read.                                           *)
BootWith(readable, olderReadable) ==
  LET found == {b \in readable : Whole(b) \in Image}
      foundOlder(l) == olderReadable[l] \cap Valid(older[l])
  IN \/ found # {} /\ Load(Newest(found))
     \/ LoadFails
     \/ /\ found = {} /\ foundOlder("previous") # {}
        /\ LoadAndSave(NewestOlder(older["previous"], foundOlder("previous")), "A")
     \/ /\ found = {} /\ foundOlder("previous") = {} /\ foundOlder("legacy") # {}
        /\ LoadAndSave(NewestOlder(older["legacy"], foundOlder("legacy")), "B")
     \/ /\ found = {} /\ foundOlder("previous") = {} /\ foundOlder("legacy") = {}
        /\ LoadAndSave(Empty, "B")

(* It loads an image, fails, or saves what it serves.                      *)
BootLoads(b) == Whole(b) \in Image /\ Load(b)

(* So whatever could be read, what Init serves is an image.                *)
LEMMA BootBranches ==
  ASSUME TrustTypeOK, Boot
  PROVE  \/ \E b \in Banks : BootLoads(b)
         \/ LoadFails
         \/ \E image \in Image, b \in Banks : LoadAndSave(image, b)
<1>1. PICK readable \in SUBSET Banks, olderReadable \in [Layouts -> SUBSET Banks] :
        BootWith(readable, olderReadable)
  BY Zenon DEF Boot, BootWith
<1> DEFINE found == {b \in readable : Whole(b) \in Image}
           foundOlder(l) == olderReadable[l] \cap Valid(older[l])
<1>2. found \in SUBSET Banks /\ (found # {} => Whole(Newest(found)) \in Image)
  <2>1. found \in SUBSET Banks
    OBVIOUS
  <2>2. found # {} => Newest(found) \in found
    BY <2>1, NewestBank
  <2> QED
    BY <2>1, <2>2
<1>3. \A l \in Layouts :
        foundOlder(l) # {} => NewestOlder(older[l], foundOlder(l)) \in Image
  <2> TAKE l \in Layouts
  <2>1. older[l] \in OlderPairs /\ foundOlder(l) \in SUBSET Valid(older[l])
    BY DEF TrustTypeOK
  <2> HIDE DEF foundOlder
  <2> QED
    BY <2>1, NewestOlderImage
<1>4. "previous" \in Layouts /\ "legacy" \in Layouts /\ "A" \in Banks /\ "B" \in Banks
  BY DEF Layouts, Banks
<1>5. \/ found # {} /\ Load(Newest(found))
      \/ LoadFails
      \/ /\ foundOlder("previous") # {}
         /\ LoadAndSave(NewestOlder(older["previous"], foundOlder("previous")), "A")
      \/ /\ foundOlder("legacy") # {}
         /\ LoadAndSave(NewestOlder(older["legacy"], foundOlder("legacy")), "B")
      \/ LoadAndSave(Empty, "B")
  BY <1>1, Zenon DEF BootWith
<1> HIDE DEF foundOlder
<1>6. found # {} => Newest(found) \in Banks
  BY <1>2, NewestBank
<1> HIDE DEF found
<1> QED
  BY <1>2, <1>3, <1>4, <1>5, <1>6, EmptyImage DEF BootLoads

(* A step of the save: what it writes, and where it goes on.               *)
Wrote(c) == bank' = [bank EXCEPT ![Target][sector] = c]

(* W25Q64_EraseSector of the current sector.                               *)
LEMMA EraseEffect ==
  ASSUME TrustTypeOK, SaveErase
  PROVE  \E c \in {bank[Target][sector], Blank, Torn} :
           /\ Wrote(c)
           /\ chip' \in ChipStates
           /\ \/ Advance("program") /\ (chip = "ready" => c = Blank)
              \/ Fail
<1>1. PICK r \in EraseSector(bank[Target][sector], chip) :
        /\ bank' = [bank EXCEPT ![Target][sector] = r.content]
        /\ chip' = r.chip
        /\ \/ r.status = "ok" /\ Advance("program")
           \/ r.status = "error" /\ Fail
  BY Zenon DEF SaveErase
<1>2. chip \in ChipStates
  BY DEF TrustTypeOK
<1>3. /\ r.chip \in ChipStates
      /\ r.content \in {bank[Target][sector], Blank, Torn}
      /\ r.status = "ok" /\ chip = "ready" => r.content = Blank
  BY <1>2, EraseResult
<1> QED
  BY <1>1, <1>3, Zenon DEF Wrote

(* W25Q64_Program of the current sector: one that a busy chip ignored in   *)
(* part is torn.                                                           *)
LEMMA ProgramEffect ==
  ASSUME TrustTypeOK, SaveProgram
  PROVE  \E c \in {bank[Target][sector], Torn, candidate} :
           /\ Wrote(c)
           /\ chip' \in ChipStates
           /\ \/ /\ Advance("verify")
                 /\ c \in {candidate, Torn}
                 /\ chip = "ready" /\ bank[Target][sector] = Blank => c = candidate
              \/ Fail
<1>1. PICK r \in Program(bank[Target][sector], candidate, chip) :
        /\ chip = "busy" /\ r.status = "ok" => r.content = Torn
        /\ bank' = [bank EXCEPT ![Target][sector] = r.content]
        /\ chip' = r.chip
        /\ \/ r.status = "ok" /\ Advance("verify")
           \/ r.status = "error" /\ Fail
  BY Zenon DEF SaveProgram
<1>2. chip \in {"ready", "busy"} /\ chip \in ChipStates
  BY DEF TrustTypeOK, ChipStates
<1>3. /\ r.chip \in ChipStates
      /\ r.content \in {bank[Target][sector], Torn, candidate}
      /\ r.status = "ok" /\ chip = "ready"
           => r.content = Programmed(bank[Target][sector], candidate)
  BY <1>2, ProgramResult
<1>4. CASE r.status = "ok" /\ Advance("verify")
  <2>1. r.content \in {candidate, Torn}
    BY <1>1, <1>2, <1>3, <1>4 DEF Programmed
  <2>2. chip = "ready" /\ bank[Target][sector] = Blank => r.content = candidate
    BY <1>3, <1>4 DEF Programmed
  <2> QED
    BY <1>1, <1>3, <1>4, <2>1, <2>2, Zenon DEF Wrote
<1>5. CASE r.status = "error" /\ Fail
  BY <1>1, <1>3, <1>5, Zenon DEF Wrote
<1> QED
  BY <1>1, <1>4, <1>5

(* The read-back publishes what the bank holds, or fails.                  *)
LEMMA VerifyEffect ==
  ASSUME TrustTypeOK, SaveVerify
  PROVE  \/ Whole(Target) \in Image /\ Publish(Whole(Target))
         \/ Fail
<1>1. PICK r \in Read(Whole(Target), chip) :
        \/ Accepted(r) /\ Publish(r.content)
        \/ Fail
  BY Zenon DEF SaveVerify
<1>2. r.content \in {Torn, Whole(Target)}
  BY ReadResult DEF TrustTypeOK
<1>3. Accepted(r) => r.content = Whole(Target) /\ r.content \in Image
  BY <1>2, TrustAssumption DEF Accepted
<1> QED
  BY <1>1, <1>3

(* What a power cut may do to the sector being written.                    *)
LEMMA PowerLossEffect ==
  ASSUME TrustTypeOK, PowerLoss
  PROVE  \/ bank' = bank
         \/ /\ Saving
            /\ \E c \in {bank[Target][sector], Blank, Torn, candidate} : Wrote(c)
BY Zenon DEF PowerLoss, EraseCut, ProgramCut, Programmed, Wrote, Saving

-------------------------------------------------------------------------------
(* Writing a sector.                                                       *)

(* A write changes its own sector and no other.                            *)
LEMMA WriteSector ==
  ASSUME TrustTypeOK, NEW c \in Image \cup {Blank, Torn}, Wrote(c)
  PROVE  /\ bank' \in [Banks -> [Sectors -> Image \cup {Blank, Torn}]]
         /\ \A b \in Banks, s \in Sectors :
              bank'[b][s] = IF b = Target /\ s = sector THEN c ELSE bank[b][s]
BY OtherBank DEF TrustTypeOK, Wrote, Target

(* Whatever one write leaves in a sector, the bank holds the image it held *)
(* before, or the one being saved, or none: no mixture passes for another. *)
LEMMA WriteWhole ==
  ASSUME TrustTypeOK, NEW c \in {bank[Target][sector], Blank, Torn, candidate},
         Wrote(c)
  PROVE  \A b \in Banks : /\ Whole(b)' \in {Whole(b), Torn, candidate}
                          /\ b # Target => Whole(b)' = Whole(b)
<1> TAKE b \in Banks
<1>1. /\ bank[Target][sector] \in Image \cup {Blank, Torn}
      /\ candidate \in Image /\ sector \in Sectors /\ Target \in Banks
  BY OtherBank DEF TrustTypeOK, Target
<1>2. c \in Image \cup {Blank, Torn}
  BY <1>1
<1>3. \A x \in Banks, s \in Sectors :
        bank'[x][s] = IF x = Target /\ s = sector THEN c ELSE bank[x][s]
  BY <1>2, WriteSector
<1>4. CASE b # Target \/ c = bank[Target][sector]
  <2>1. \A s \in Sectors : bank'[b][s] = bank[b][s]
    BY <1>3, <1>4
  <2> QED
    BY <2>1, <1>4, FirstSector DEF Whole
<1>5. CASE b = Target /\ c \in {Blank, Torn, candidate}
  <2>1. bank'[b][sector] = c
    BY <1>1, <1>3, <1>5
  <2>2. CASE c = candidate
    BY <1>1, <1>5, <2>1, <2>2 DEF Whole
  <2>3. CASE c \in {Blank, Torn}
    BY <1>1, <1>5, <2>1, <2>3, TrustAssumption DEF Whole
  <2> QED
    BY <1>5, <2>2, <2>3
<1> QED
  BY <1>4, <1>5

(* The sector counter stays within the bank.                               *)
LEMMA AdvanceTypes ==
  ASSUME TrustTypeOK, NEW next \in {"program", "verify"}, Advance(next)
  PROVE  /\ sector' \in Sectors
         /\ pc' \in {"off", "idle", "erase", "program", "verify", "halt"}
         /\ UNCHANGED <<booting, snapshot, activeAddress, durable>>
BY TrustAssumption, FirstSector DEF TrustTypeOK, Advance, Sectors

(* As long as none is counted, no command met a busy chip.                 *)
LEMMA IgnoredCount ==
  ASSUME TrustTypeOK, CountIgnored
  PROVE  ignored' \in Nat /\ (ignored' = 0 => ignored = 0 /\ chip = "ready")
BY DEF TrustTypeOK, CountIgnored, ChipStates

(* A failed save gives the store back as it was.                           *)
LEMMA FailTypes ==
  ASSUME TrustTypeOK, Fail
  PROVE  /\ sector' \in Sectors /\ booting' = FALSE
         /\ pc' = IF booting THEN "halt" ELSE "idle"
         /\ UNCHANGED <<snapshot, activeAddress, durable>>
BY FirstSector DEF Fail

(* The writes of a save.                                                   *)
LEMMA SaveWrites ==
  ASSUME TrustTypeOK, SaveErase \/ SaveProgram
  PROVE  /\ \E c \in {bank[Target][sector], Blank, Torn, candidate} : Wrote(c)
         /\ Saving
         /\ chip' \in ChipStates
         /\ UNCHANGED <<older, candidate>>
         /\ CountIgnored
         /\ (\E next \in {"program", "verify"} : Advance(next)) \/ Fail
<1>1. CASE SaveErase
  <2>1. PICK c \in {bank[Target][sector], Blank, Torn} :
          Wrote(c) /\ chip' \in ChipStates /\ (Advance("program") \/ Fail)
    BY <1>1, EraseEffect
  <2>2. Saving /\ UNCHANGED <<older, candidate>> /\ CountIgnored
    BY <1>1 DEF SaveErase, Saving
  <2> QED
    BY <2>1, <2>2
<1>2. CASE SaveProgram
  <2>1. PICK c \in {bank[Target][sector], Torn, candidate} :
          Wrote(c) /\ chip' \in ChipStates /\ (Advance("verify") \/ Fail)
    BY <1>2, ProgramEffect
  <2>2. Saving /\ UNCHANGED <<older, candidate>> /\ CountIgnored
    BY <1>2 DEF SaveProgram, Saving
  <2> QED
    BY <2>1, <2>2
<1> QED
  BY <1>1, <1>2

(* The initial states are well typed.                                      *)
LEMMA TrustTypeInit == ASSUME Init PROVE TrustTypeOK
<1>1. OlderImage(older) \in Image
  BY OlderImageIsImage DEF Init
<1>2. bank \in [Banks -> [Sectors -> Image \cup {Blank, Torn}]]
  BY DEF Init
<1> QED
  BY <1>1, <1>2, FirstSector, EmptyImage, Zenon DEF Init, TrustTypeOK, Banks, ChipStates

(* Every step keeps the types.                                             *)
LEMMA TrustTypeStep == ASSUME TrustTypeOK, [Next]_vars PROVE TrustTypeOK'
<1>1. CASE Boot
  <2>1. /\ ignored' = 0 /\ sector' \in Sectors /\ UNCHANGED <<bank, older, chip>>
    BY <1>1, FirstSector DEF Boot
  <2>2. CASE \E b \in Banks : BootLoads(b)
    BY <2>1, <2>2 DEF BootLoads, Load, TrustTypeOK
  <2>3. CASE LoadFails
    BY <2>1, <2>3 DEF LoadFails, TrustTypeOK
  <2>4. CASE \E image \in Image, b \in Banks : LoadAndSave(image, b)
    <3>1. PICK image \in Image, b \in Banks : LoadAndSave(image, b)
      BY <2>4
    <3>2. Successor(image) \in Image
      BY <3>1, SuccessorImage DEF LoadAndSave
    <3> QED
      BY <2>1, <3>1, <3>2 DEF LoadAndSave, TrustTypeOK
  <2> QED
    BY <1>1, <2>2, <2>3, <2>4, BootBranches
<1>2. ASSUME NEW value \in Values, SaveBegin(value) PROVE TrustTypeOK'
  <2>1. [snapshot EXCEPT !.value = value] \in Image
        /\ [snapshot EXCEPT !.value = value].generation < MaxGeneration
    BY <1>2 DEF SaveBegin, TrustTypeOK, Image
  <2>2. candidate' \in Image
    BY <1>2, <2>1, SuccessorImage, Zenon DEF SaveBegin
  <2> QED
    BY <1>2, <2>2, FirstSector DEF SaveBegin, TrustTypeOK
<1>3. CASE SaveErase \/ SaveProgram
  <2>1. PICK c \in {bank[Target][sector], Blank, Torn, candidate} : Wrote(c)
    BY <1>3, SaveWrites
  <2>2. c \in Image \cup {Blank, Torn}
    BY OtherBank DEF TrustTypeOK, Target
  <2>3. bank' \in [Banks -> [Sectors -> Image \cup {Blank, Torn}]]
    BY <2>1, <2>2, WriteSector
  <2>4. /\ sector' \in Sectors /\ booting' \in BOOLEAN
        /\ pc' \in {"off", "idle", "erase", "program", "verify", "halt"}
        /\ UNCHANGED <<snapshot, activeAddress, durable>>
    <3>1. CASE \E next \in {"program", "verify"} : Advance(next)
      BY <3>1, AdvanceTypes DEF TrustTypeOK
    <3>2. CASE Fail
      BY <3>2, FailTypes
    <3> QED
      BY <1>3, <3>1, <3>2, SaveWrites
  <2>5. ignored' \in Nat
    BY <1>3, SaveWrites, IgnoredCount
  <2>6. chip' \in ChipStates /\ UNCHANGED <<older, candidate>>
    BY <1>3, SaveWrites
  <2> QED
    BY <2>3, <2>4, <2>5, <2>6 DEF TrustTypeOK
<1>4. CASE SaveVerify
  <2>1. UNCHANGED <<bank, older, chip, candidate, ignored>>
    BY <1>4 DEF SaveVerify
  <2>2. CASE Whole(Target) \in Image /\ Publish(Whole(Target))
    BY <2>1, <2>2, OtherBank, Zenon DEF Publish, TrustTypeOK, Target
  <2>3. CASE Fail
    BY <2>1, <2>3, FailTypes, Zenon DEF TrustTypeOK
  <2> QED
    BY <1>4, <2>2, <2>3, VerifyEffect
<1>5. CASE ChipLeftBusy \/ ChipReady
  BY <1>5 DEF ChipLeftBusy, ChipReady, TrustTypeOK, ChipStates
<1>6. CASE PowerLoss
  <2>1. bank' \in [Banks -> [Sectors -> Image \cup {Blank, Torn}]]
    <3>1. CASE bank' = bank
      BY <3>1 DEF TrustTypeOK
    <3>2. CASE \E c \in {bank[Target][sector], Blank, Torn, candidate} : Wrote(c)
      <4>1. PICK c \in {bank[Target][sector], Blank, Torn, candidate} : Wrote(c)
        BY <3>2
      <4>2. c \in Image \cup {Blank, Torn}
        BY OtherBank DEF TrustTypeOK, Target
      <4> QED
        BY <4>1, <4>2, WriteSector
    <3> QED
      BY <1>6, <3>1, <3>2, PowerLossEffect
  <2>2. /\ chip' = "ready" /\ snapshot' = Empty /\ activeAddress' = "A"
        /\ candidate' = Empty /\ pc' = "off" /\ sector' = 1 /\ booting' = FALSE
        /\ ignored' = 0 /\ UNCHANGED <<older, durable>>
    BY <1>6 DEF PowerLoss
  <2> QED
    BY <2>1, <2>2, FirstSector, EmptyImage, Zenon DEF TrustTypeOK, Banks, ChipStates
<1>7. CASE UNCHANGED vars
  BY <1>7 DEF vars, TrustTypeOK
<1> QED
  BY <1>1, <1>2, <1>3, <1>4, <1>5, <1>6, <1>7 DEF Next

-------------------------------------------------------------------------------
(* The progress of a save.                                                 *)

(* Every step keeps what is known of the progress of a save.               *)
LEMMA ProgressStep ==
  ASSUME TrustTypeOK, SaveProgress, [Next]_vars
  PROVE  SaveProgress'
<1>1. sector \in Sectors /\ Sectors = 1..BankSectors /\ BankSectors \in Nat \ {0}
  BY TrustAssumption DEF TrustTypeOK, Sectors
<1>2. CASE sector' = 1 /\ pc' \in {"erase", "idle", "off", "halt"}
  BY <1>1, <1>2 DEF SaveProgress
<1>3. ASSUME NEW c, c \in Image \cup {Blank, Torn}, Wrote(c), CountIgnored,
             UNCHANGED <<activeAddress, candidate>>
      PROVE  /\ \A s \in Sectors : (bank[Target][s])' = IF s = sector THEN c
                                                       ELSE bank[Target][s]
             /\ candidate' = candidate
             /\ ignored' = 0 => ignored = 0 /\ chip = "ready"
  <2>1. Target \in Banks /\ Target' = Target
    BY <1>3, OtherBank DEF TrustTypeOK, Target
  <2>2. \A b \in Banks, s \in Sectors :
          bank'[b][s] = IF b = Target /\ s = sector THEN c ELSE bank[b][s]
    BY <1>3, WriteSector
  <2> QED
    BY <1>3, <2>1, <2>2, IgnoredCount
<1>4. bank[Target][sector] \in Image \cup {Blank, Torn} /\ candidate \in Image
  BY OtherBank DEF TrustTypeOK, Target
<1>5. CASE SaveErase
  <2>1. PICK c \in {bank[Target][sector], Blank, Torn} :
           /\ Wrote(c)
           /\ \/ Advance("program") /\ (chip = "ready" => c = Blank)
              \/ Fail
    BY <1>5, EraseEffect
  <2>2. CASE Fail
    <3>1. sector' = 1 /\ pc' \in {"idle", "halt"}
      BY <2>2 DEF Fail
    <3> QED
      BY <1>2, <3>1
  <2>3. CASE Advance("program") /\ (chip = "ready" => c = Blank)
    <3>1. /\ \A s \in Sectors : (bank[Target][s])' = IF s = sector THEN c
                                                    ELSE bank[Target][s]
          /\ ignored' = 0 => ignored = 0 /\ chip = "ready"
      BY <1>3, <1>4, <1>5, <2>1, <2>3 DEF SaveErase, Advance
    <3>2. pc = "erase"
      BY <1>5 DEF SaveErase
    <3>3. ignored' = 0 =>
            \A s \in Sectors : s <= sector => (bank[Target][s])' = Blank
      BY <1>1, <2>3, <3>1, <3>2 DEF SaveProgress
    <3>4. CASE sector = BankSectors
      <4>1. pc' = "program" /\ sector' = 1
        BY <2>3, <3>4 DEF Advance
      <4> QED
        BY <1>1, <3>3, <3>4, <4>1 DEF SaveProgress
    <3>5. CASE sector # BankSectors
      <4>1. pc' = "erase" /\ sector' = sector + 1
        BY <2>3, <3>2, <3>5 DEF Advance
      <4> QED
        BY <1>1, <3>3, <3>5, <4>1 DEF SaveProgress
    <3> QED
      BY <3>4, <3>5
  <2> QED
    BY <2>1, <2>2, <2>3
<1>6. CASE SaveProgram
  <2>1. PICK c \in {bank[Target][sector], Torn, candidate} :
           /\ Wrote(c)
           /\ \/ /\ Advance("verify")
                 /\ c \in {candidate, Torn}
                 /\ chip = "ready" /\ bank[Target][sector] = Blank => c = candidate
              \/ Fail
    BY <1>6, ProgramEffect
  <2>2. CASE Fail
    <3>1. sector' = 1 /\ pc' \in {"idle", "halt"}
      BY <2>2 DEF Fail
    <3> QED
      BY <1>2, <3>1
  <2>3. CASE /\ Advance("verify")
             /\ c \in {candidate, Torn}
             /\ chip = "ready" /\ bank[Target][sector] = Blank => c = candidate
    <3>1. /\ \A s \in Sectors : (bank[Target][s])' = IF s = sector THEN c
                                                    ELSE bank[Target][s]
          /\ candidate' = candidate
          /\ ignored' = 0 => ignored = 0 /\ chip = "ready"
      BY <1>3, <1>4, <1>6, <2>1, <2>3 DEF SaveProgram, Advance
    <3>2. pc = "program"
      BY <1>6 DEF SaveProgram
    <3>3. \A s \in Sectors : s <= sector => (bank[Target][s])' \in {candidate, Torn}
      BY <1>1, <2>3, <3>1, <3>2 DEF SaveProgress
    <3>4. ignored' = 0 =>
            \A s \in Sectors :
              (bank[Target][s])' = IF s <= sector THEN candidate ELSE Blank
      BY <1>1, <2>3, <3>1, <3>2 DEF SaveProgress
    <3>5. CASE sector = BankSectors
      <4>1. pc' = "verify" /\ sector' = 1
        BY <2>3, <3>5 DEF Advance
      <4> QED
        BY <1>1, <3>1, <3>3, <3>4, <3>5, <4>1 DEF SaveProgress
    <3>6. CASE sector # BankSectors
      <4>1. pc' = "program" /\ sector' = sector + 1
        BY <2>3, <3>2, <3>6 DEF Advance
      <4> QED
        BY <1>1, <3>1, <3>3, <3>4, <3>6, <4>1 DEF SaveProgress
    <3> QED
      BY <3>5, <3>6
  <2> QED
    BY <2>1, <2>2, <2>3
<1>7. CASE Boot
  BY <1>2, <1>7 DEF Boot, Load, LoadFails, LoadAndSave
<1>8. ASSUME NEW value \in Values, SaveBegin(value) PROVE SaveProgress'
  BY <1>2, <1>8 DEF SaveBegin
<1>9. CASE SaveVerify
  <2>1. pc' \in {"idle", "halt"}
    BY <1>9 DEF SaveVerify, Publish, Fail
  <2> QED
    BY <2>1 DEF SaveProgress
<1>10. CASE PowerLoss
  BY <1>2, <1>10 DEF PowerLoss
<1>11. CASE UNCHANGED <<bank, activeAddress, candidate, pc, sector, ignored>>
  BY <1>11 DEF SaveProgress, Target
<1>12. CASE ChipLeftBusy \/ ChipReady
  BY <1>11, <1>12 DEF ChipLeftBusy, ChipReady
<1>13. CASE UNCHANGED vars
  BY <1>11, <1>13 DEF vars
<1> QED
  BY <1>5, <1>6, <1>7, <1>8, <1>9, <1>10, <1>12, <1>13 DEF Next

(* No save is under way at first.                                          *)
LEMMA ProgressInit == ASSUME Init PROVE SaveProgress
BY DEF Init, SaveProgress

(* How far a save has come tells what the sectors of its bank hold, in     *)
(* every reachable state (tlsTrustStore_Save), for any number of sectors.  *)
THEOREM SaveProgressCorrect == Spec => [](TrustTypeOK /\ SaveProgress)
BY TrustTypeInit, TrustTypeStep, ProgressInit, ProgressStep, PTL DEF Spec

(* FaultlessSaveIsWhole for any number of sectors and of commands that a   *)
(* busy chip ignores, and whatever can be read at a start: the erases of   *)
(* tlsTrustStore_Save cover what its program needs.                        *)
THEOREM FaultlessSaveCorrect == Spec => []FaultlessSaveIsWhole
<1>1. TrustTypeOK /\ SaveProgress => FaultlessSaveIsWhole
  <2> SUFFICES ASSUME TrustTypeOK, SaveProgress, pc = "verify", ignored = 0
               PROVE  Whole(Target) = candidate
    BY DEF FaultlessSaveIsWhole
  <2>1. \A s \in Sectors : bank[Target][s] = candidate
    BY DEF SaveProgress
  <2>2. candidate \in Image
    BY DEF TrustTypeOK
  <2> QED
    BY <2>1, <2>2, FirstSector DEF Whole
<1> QED
  BY <1>1, SaveProgressCorrect, PTL

-------------------------------------------------------------------------------
(* What a start adopts, when every bank can be read the first time.        *)

(* Init writes to one of the two banks.                                    *)
LEMMA MigrationBanks ==
  /\ MigrationBank \in Banks
  /\ \A b \in Banks : b = MigrationBank \/ b = Other(MigrationBank)
BY DEF MigrationBank, Banks, Other

(* Init chooses the greatest generation.                                   *)
LEMMA NewestIsNewest ==
  ASSUME NEW found \in SUBSET Banks, found # {},
         \A x \in Banks : x \in found <=> Whole(x) \in Image
  PROVE  \A x \in Banks : Whole(x) \in Image
           => Whole(x).generation <= Whole(Newest(found)).generation
<1>1. \A x \in Banks : Whole(x) \in Image => Whole(x).generation \in Nat
  BY DEF Image
<1> QED
  BY <1>1 DEF Newest, Banks

LoadsNewest(b) ==
  /\ Whole(b) \in Image
  /\ \A x \in Banks : Whole(x) \in Image
                        => Whole(x).generation <= Whole(b).generation
  /\ Load(b)

Migrates ==
  /\ \A b \in Banks : Whole(b) \notin Image
  /\ LoadAndSave(OlderImage(older), Other(MigrationBank))

(* Init loads the newest image, fails, or migrates, and always to the same *)
(* bank.                                                                   *)
LEMMA CleanBoot ==
  ASSUME "first" \notin BootReadFaults, TrustTypeOK, Boot
  PROVE  \/ \E b \in Banks : LoadsNewest(b)
         \/ LoadFails
         \/ Migrates
<1> DEFINE found == {b \in Banks : Whole(b) \in Image}
           previous == Valid(older["previous"])
           legacy == Valid(older["legacy"])
<1>1. \/ found # {} /\ Load(Newest(found))
      \/ LoadFails
      \/ /\ found = {} /\ previous # {}
         /\ LoadAndSave(NewestOlder(older["previous"], previous), "A")
      \/ /\ found = {} /\ previous = {} /\ legacy # {}
         /\ LoadAndSave(NewestOlder(older["legacy"], legacy), "B")
      \/ found = {} /\ previous = {} /\ legacy = {} /\ LoadAndSave(Empty, "B")
  <2> DEFINE everything == [l \in Layouts |-> Banks]
             foundOlder(l) == everything[l] \cap Valid(older[l])
  <2>0. BootWith(Banks, everything)
    <3>1. PICK readable \in SUBSET Banks, olderReadable \in [Layouts -> SUBSET Banks] :
            /\ readable = Banks /\ olderReadable = everything
            /\ BootWith(readable, olderReadable)
      BY Zenon DEF Boot, BootWith
    <3> QED
      BY <3>1
  <2>1. \/ found # {} /\ Load(Newest(found))
        \/ LoadFails
        \/ /\ found = {} /\ foundOlder("previous") # {}
           /\ LoadAndSave(NewestOlder(older["previous"], foundOlder("previous")), "A")
        \/ /\ found = {} /\ foundOlder("previous") = {} /\ foundOlder("legacy") # {}
           /\ LoadAndSave(NewestOlder(older["legacy"], foundOlder("legacy")), "B")
        \/ /\ found = {} /\ foundOlder("previous") = {} /\ foundOlder("legacy") = {}
           /\ LoadAndSave(Empty, "B")
    BY <2>0, Zenon DEF BootWith
  <2>2. foundOlder("previous") = previous /\ foundOlder("legacy") = legacy
    BY DEF Valid, Layouts
  <2> HIDE DEF foundOlder, found, previous, legacy
  <2> QED
    BY <2>1, <2>2
<1>2. CASE found # {} /\ Load(Newest(found))
  <2>1. found \in SUBSET Banks /\ \A x \in Banks : x \in found <=> Whole(x) \in Image
    OBVIOUS
  <2>2. Newest(found) \in found
    BY <1>2, <2>1, NewestBank
  <2>3. Newest(found) \in Banks /\ Whole(Newest(found)) \in Image
    BY <2>2
  <2> HIDE DEF found
  <2>4. LoadsNewest(Newest(found))
    BY <1>2, <2>1, <2>3, NewestIsNewest DEF LoadsNewest
  <2> QED
    BY <2>3, <2>4
<1>3. found = {} => \A b \in Banks : Whole(b) \notin Image
  OBVIOUS
<1> HIDE DEF found
<1>4. CASE found = {} /\ previous # {}
            /\ LoadAndSave(NewestOlder(older["previous"], previous), "A")
  <2>1. Other(MigrationBank) = "A"
    BY <1>4 DEF MigrationBank, Other
  <2>2. OlderImage(older) = NewestOlder(older["previous"], previous)
    BY <1>4 DEF OlderImage
  <2> QED
    BY <1>3, <1>4, <2>1, <2>2 DEF Migrates
<1>5. CASE found = {} /\ previous = {} /\ legacy # {}
            /\ LoadAndSave(NewestOlder(older["legacy"], legacy), "B")
  <2>1. Other(MigrationBank) = "B"
    BY <1>5 DEF MigrationBank, Other
  <2>2. OlderImage(older) = NewestOlder(older["legacy"], legacy)
    BY <1>5 DEF OlderImage
  <2> QED
    BY <1>3, <1>5, <2>1, <2>2 DEF Migrates
<1>6. CASE found = {} /\ previous = {} /\ legacy = {} /\ LoadAndSave(Empty, "B")
  <2>1. Other(MigrationBank) = "B"
    BY <1>6 DEF MigrationBank, Other
  <2>2. OlderImage(older) = Empty
    BY <1>6 DEF OlderImage
  <2> QED
    BY <1>3, <1>6, <2>1, <2>2 DEF Migrates
<1> QED
  BY <1>1, <1>2, <1>4, <1>5, <1>6

-------------------------------------------------------------------------------
(* Limbo: newer images whose save was not acknowledged.                    *)

(* A value in limbo, by the bank that holds it.                            *)
LEMMA LimboMember ==
  \A v : v \in Limbo <=>
    /\ v # durable.value
    /\ \E b \in Banks : /\ Whole(b) \in Image
                        /\ Whole(b).generation > durable.generation
                        /\ Whole(b).value = v
BY DEF Limbo

(* Nothing is in limbo when no image is newer than the acknowledged one.   *)
LEMMA LimboEmpties ==
  ASSUME durable' \in Image,
         \A b \in Banks : Whole(b)' \in Image
                            => Whole(b)'.generation <= durable'.generation
  PROVE  Limbo' = {}
<1>1. \A b \in Banks : Whole(b)' \in Image => Whole(b)'.generation \in Nat
  BY DEF Image
<1>2. durable'.generation \in Nat
  BY DEF Image
<1> QED
  BY <1>1, <1>2 DEF Limbo

(* A migration writes the acknowledged value again.                        *)
LEMMA UnmigratedLimbo ==
  ASSUME TrustTypeOK, Unmigrated
  PROVE  Limbo = {}
<1>1. \A b \in Banks : Whole(b) \in Image => Whole(b) = Successor(durable)
  BY MigrationBanks DEF Unmigrated
<1>2. Successor(durable).value = durable.value
  BY SuccessorImage DEF TrustTypeOK
<1> QED
  BY <1>1, <1>2 DEF Limbo

(* What one write of a save can do: the acknowledged image stays, and      *)
(* limbo gains the value being saved at most.                              *)
LEMMA WriteKeeps ==
  ASSUME TrustTypeOK, StoreInvariant, Saving,
         NEW c \in {bank[Target][sector], Blank, Torn, candidate},
         Wrote(c), UNCHANGED <<durable, older>>
  PROVE  /\ booting => Unmigrated'
         /\ ~booting => \A b \in Banks : b = activeAddress => HoldsDurable(b)'
         /\ Limbo' \subseteq (Limbo \cup {candidate.value}) \ {durable.value}
<1>1. \A b \in Banks : /\ Whole(b)' \in {Whole(b), Torn, candidate}
                       /\ b # Target => Whole(b)' = Whole(b)
  BY WriteWhole
<1>2. activeAddress \in Banks /\ durable \in Image /\ durable.generation \in Nat
  BY DEF TrustTypeOK, Image
<1>3. booting => Unmigrated'
  <2> SUFFICES ASSUME booting PROVE Unmigrated'
    OBVIOUS
  <2>1. /\ Unmigrated /\ activeAddress = Other(MigrationBank)
        /\ candidate = Successor(durable)
    BY DEF StoreInvariant
  <2>2. Target = MigrationBank /\ MigrationBank' = MigrationBank
        /\ Other(MigrationBank) \in Banks /\ Other(MigrationBank) # Target
        /\ MigrationBank \in Banks
    BY <2>1, MigrationBanks, OtherBank DEF Target, MigrationBank
  <2>3. PICK x \in Banks, y \in Banks : x = MigrationBank /\ y = Other(MigrationBank)
    BY <2>2
  <2>4. Whole(y)' = Whole(y) /\ Whole(y) \notin Image
    BY <1>1, <2>1, <2>2, <2>3 DEF Unmigrated
  <2>5. Whole(x)' \in Image => Whole(x)' = Successor(durable)
    BY <1>1, <2>1, <2>3, TrustAssumption DEF Unmigrated
  <2>6. (Whole(Other(MigrationBank)))' \notin Image
    BY <2>2, <2>3, <2>4 DEF Whole
  <2>7. (Whole(MigrationBank))' \in Image
          => (Whole(MigrationBank))' = Successor(durable)
    BY <2>2, <2>3, <2>5 DEF Whole
  <2>8. durable' = OlderImage(older')
    BY <2>1 DEF Unmigrated
  <2>9. Successor(durable') = Successor(durable)
    OBVIOUS
  <2> QED
    BY <2>6, <2>7, <2>8, <2>9 DEF Unmigrated
<1>4. ASSUME ~booting, NEW b \in Banks, b = activeAddress PROVE HoldsDurable(b)'
  <2>1. HoldsDurable(b) /\ candidate.generation = durable.generation + 1
    BY <1>4 DEF StoreInvariant
  <2>2. b # Target /\ Other(b) \in Banks
    BY <1>4, OtherBank DEF Target
  <2>3. Whole(b)' = durable /\ Whole(Other(b))' \in {Whole(Other(b)), Torn, candidate}
    BY <1>1, <2>1, <2>2 DEF HoldsDurable
  <2>4. Whole(Other(b))' \in Image => Whole(Other(b))'.generation # durable.generation
    BY <1>2, <2>1, <2>3, TrustAssumption DEF HoldsDurable
  <2> QED
    BY <2>3, <2>4 DEF HoldsDurable
<1>5. Limbo' \subseteq (Limbo \cup {candidate.value}) \ {durable.value}
  <2> SUFFICES ASSUME NEW v \in Limbo'
               PROVE  v \in (Limbo \cup {candidate.value}) \ {durable.value}
    OBVIOUS
  <2>1. v # durable.value
    BY DEF Limbo
  <2>2. PICK b \in Banks : /\ Whole(b)' \in Image
                           /\ Whole(b)'.generation > durable.generation
                           /\ Whole(b)'.value = v
    BY DEF Limbo
  <2>3. Whole(b)' \in {Whole(b), candidate}
    BY <1>1, <2>2, TrustAssumption
  <2>4. CASE Whole(b)' = candidate
    BY <2>1, <2>2, <2>4
  <2>5. CASE Whole(b)' = Whole(b)
    BY <2>1, <2>2, <2>5, LimboMember
  <2> QED
    BY <2>3, <2>4, <2>5
<1> QED
  BY <1>3, <1>4, <1>5

-------------------------------------------------------------------------------
(* A step keeps the invariant and is a step of the register or leaves the  *)
(* register alone.                                                         *)
Refines == StoreInvariant' /\ [Register!RegisterNext]_(Register!rvars)

(* Steps of the chip alone.                                                *)
LEMMA UnchangedRefines ==
  ASSUME StoreInvariant,
         UNCHANGED <<bank, older, snapshot, activeAddress, candidate, pc,
                     booting, durable>>
  PROVE  Refines
<1>1. \A b : Whole(b)' = Whole(b)
  BY DEF Whole
<1>2. UNCHANGED <<Limbo, Up, Requested>>
  BY DEF Limbo, Whole, Up, Requested
<1>3. StoreInvariant'
  BY Zenon DEF StoreInvariant, Saving, Unmigrated, HoldsDurable, MigrationBank, Whole
<1>4. UNCHANGED Register!rvars
  BY <1>2 DEF Register!rvars
<1> QED
  BY <1>3, <1>4 DEF Refines

(* TlsTrustStore_Init starts the register with the acknowledged value or   *)
(* one in limbo; until a migration is over the register stays down.        *)
LEMMA BootRefines ==
  ASSUME "first" \notin BootReadFaults, TrustTypeOK, TrustTypeOK', StoreInvariant, Boot
  PROVE  Refines
<1>1. pc = "off" /\ UNCHANGED <<bank, older>>
  BY DEF Boot
<1>2. booting = FALSE
  BY <1>1 DEF StoreInvariant, Saving, TrustTypeOK
<1>3. Unmigrated \/ \E b \in Banks : HoldsDurable(b)
  BY <1>1 DEF StoreInvariant
<1>4. \A b \in Banks : Whole(b)' = Whole(b)
  BY <1>1 DEF Whole
<1>5. durable \in Image /\ durable.generation \in Nat
  BY DEF TrustTypeOK, Image
<1>6. ASSUME NEW b \in Banks, LoadsNewest(b) PROVE Refines
  <2>1. /\ snapshot' = Whole(b) /\ activeAddress' = b /\ durable' = Whole(b)
        /\ pc' = "idle" /\ booting' = FALSE
    BY <1>2, <1>6 DEF LoadsNewest, Load
  <2>2. \A x \in Banks : Whole(x) \in Image
                           => Whole(x).generation <= Whole(b).generation
    BY <1>6 DEF LoadsNewest
  <2>3. Limbo' = {}
    BY <1>4, <2>1, <2>2, LimboEmpties DEF TrustTypeOK
  <2>4. b \in Banks /\ Other(b) \in Banks /\ Other(Other(b)) = b /\ Other(b) # b
    BY OtherBank
  <2>5. /\ Whole(Other(b)) \in Image => Whole(Other(b)).generation # Whole(b).generation
        /\ Whole(b).value \in {durable.value} \cup Limbo
    <3>1. CASE Unmigrated
      <4>1. b = MigrationBank
        BY <1>6, <3>1, MigrationBanks DEF Unmigrated, LoadsNewest
      <4>2. Whole(Other(b)) \notin Image /\ Whole(b) = Successor(durable)
        BY <1>6, <3>1, <4>1 DEF Unmigrated, LoadsNewest
      <4> QED
        BY <1>5, <4>2, SuccessorImage
    <3>2. CASE HoldsDurable(b)
      BY <3>2 DEF HoldsDurable
    <3>3. CASE HoldsDurable(Other(b))
      <4>1. Whole(Other(b)) = durable /\ Whole(b) \in Image
            /\ Whole(b).generation # durable.generation
        BY <1>6, <2>4, <3>3 DEF HoldsDurable, LoadsNewest
      <4>2. Whole(b).generation > durable.generation
        <5>1. Whole(b).generation \in Nat
          BY <4>1 DEF Image
        <5> QED
          BY <1>5, <2>2, <2>4, <4>1, <5>1
      <4> QED
        BY <4>1, <4>2, LimboMember
    <3>4. \A x \in Banks : x = b \/ x = Other(b)
      BY DEF Banks, Other
    <3> QED
      BY <1>3, <3>1, <3>2, <3>3, <3>4
  <2>6. HoldsDurable(b)'
    BY <1>4, <2>1, <2>4, <2>5 DEF HoldsDurable
  <2>7. (HoldsDurable(activeAddress))'
    BY <2>1, <2>6 DEF HoldsDurable, Whole
  <2>8. StoreInvariant'
    BY <2>1, <2>7 DEF StoreInvariant, Saving
  <2>9. ~Up /\ Up' /\ Requested' = Requested
    BY <1>1, <2>1 DEF Up, Requested
  <2>10. Register!Start
    BY <2>1, <2>3, <2>5, <2>9 DEF Register!Start
  <2> QED
    BY <2>8, <2>10 DEF Refines, Register!RegisterNext
<1>7. Limbo' = Limbo \/ durable' # durable
  BY <1>1 DEF Limbo, Whole
<1>8. Unmigrated /\ durable' = durable => Unmigrated'
  BY <1>1, Zenon DEF Unmigrated, MigrationBank, Whole
<1>9. CASE LoadFails
  <2>1. pc' = "halt" /\ durable' = durable /\ booting' = FALSE
    BY <1>2, <1>9 DEF LoadFails
  <2>2. \A b \in Banks : HoldsDurable(b) => HoldsDurable(b)'
    BY <1>4, <2>1, OtherBank DEF HoldsDurable
  <2>3. StoreInvariant'
    BY <1>3, <1>8, <2>1, <2>2 DEF StoreInvariant, Saving
  <2>4. Up' = Up /\ Requested' = Requested
    BY <1>1, <2>1 DEF Up, Requested
  <2>5. UNCHANGED Register!rvars
    BY <1>7, <2>1, <2>4 DEF Register!rvars
  <2> QED
    BY <2>3, <2>5 DEF Refines
<1>10. CASE Migrates
  <2>1. Unmigrated
    BY <1>3, <1>5, <1>10 DEF Migrates, HoldsDurable
  <2>2. /\ durable' = durable /\ booting' = TRUE /\ pc' = "erase"
        /\ activeAddress' = Other(MigrationBank)
        /\ candidate' = Successor(durable)
    BY <1>10, <2>1 DEF Migrates, LoadAndSave, Unmigrated
  <2>3. MigrationBank' = MigrationBank
    BY <1>1 DEF MigrationBank
  <2>4. StoreInvariant'
    BY <1>8, <2>1, <2>2, <2>3 DEF StoreInvariant, Saving
  <2>5. Up' = Up /\ Requested' = Requested
    BY <1>1, <2>2 DEF Up, Requested
  <2>6. UNCHANGED Register!rvars
    BY <1>7, <2>2, <2>5 DEF Register!rvars
  <2> QED
    BY <2>4, <2>6 DEF Refines
<1> QED
  BY <1>6, <1>9, <1>10, CleanBoot

(* TlsTrustStore_Add, _Replace, _Delete and _Reset make a request.         *)
LEMMA SaveBeginRefines ==
  ASSUME TrustTypeOK, StoreInvariant, NEW value \in Values, SaveBegin(value)
  PROVE  Refines
<1>1. /\ pc = "idle" /\ pc' = "erase"
      /\ UNCHANGED <<bank, older, snapshot, activeAddress, booting, durable>>
  BY DEF SaveBegin
<1>2. booting = FALSE /\ snapshot = durable /\ HoldsDurable(activeAddress)
  BY <1>1 DEF StoreInvariant, Saving, TrustTypeOK
<1>3. candidate'.value = value /\ candidate'.generation = durable.generation + 1
  <2>1. [snapshot EXCEPT !.value = value] \in Image
        /\ [snapshot EXCEPT !.value = value].value = value
        /\ [snapshot EXCEPT !.value = value].generation = snapshot.generation
    BY DEF TrustTypeOK, Image
  <2> DEFINE changed == [snapshot EXCEPT !.value = value]
  <2>2. candidate' = Successor(changed)
    BY DEF SaveBegin
  <2>3. changed \in Image /\ changed.value = value
        /\ changed.generation = durable.generation
    BY <1>2, <2>1
  <2> HIDE DEF changed
  <2>4. /\ Successor(changed).generation = changed.generation + 1
        /\ Successor(changed).value = changed.value
    BY <2>3, SuccessorImage, Zenon
  <2> QED
    BY <2>2, <2>3, <2>4
<1>4. (HoldsDurable(activeAddress))'
  BY <1>1, <1>2 DEF HoldsDurable, Whole
<1>5. StoreInvariant'
  BY <1>1, <1>2, <1>3, <1>4 DEF StoreInvariant, Saving
<1>6. Limbo' = Limbo
  BY <1>1 DEF Limbo, Whole
<1>7. Up /\ Up' /\ Requested = NoRequest /\ Requested' = value
  BY <1>1, <1>2, <1>3 DEF Up, Requested
<1>8. Register!Request(value)
  BY <1>1, <1>6, <1>7 DEF Register!Request
<1> QED
  BY <1>5, <1>8 DEF Refines, Register!RegisterNext

(* The writes of a save settle the request or, when one fails, refuse it;  *)
(* those of a migration are not seen.                                      *)
LEMMA WriteRefines ==
  ASSUME TrustTypeOK, StoreInvariant, SaveErase \/ SaveProgram
  PROVE  Refines
<1>1. PICK c \in {bank[Target][sector], Blank, Torn, candidate} : Wrote(c)
  BY SaveWrites
<1>2. Saving /\ UNCHANGED <<older, candidate>>
  BY SaveWrites
<1>3. /\ UNCHANGED <<snapshot, activeAddress, durable>>
      /\ \/ booting' = booting /\ Saving'
         \/ booting' = FALSE /\ pc' = IF booting THEN "halt" ELSE "idle"
  <2>1. CASE \E next \in {"program", "verify"} : Advance(next)
    BY <1>2, <2>1 DEF Advance, Saving
  <2>2. CASE Fail
    BY <2>2 DEF Fail
  <2> QED
    BY <2>1, <2>2, SaveWrites, Zenon
<1>4. /\ booting => Unmigrated'
      /\ ~booting => \A b \in Banks : b = activeAddress => HoldsDurable(b)'
      /\ Limbo' \subseteq (Limbo \cup {candidate.value}) \ {durable.value}
  BY <1>1, <1>2, <1>3, WriteKeeps
<1>5. booting \in BOOLEAN /\ activeAddress \in Banks /\ durable \in Image
      /\ candidate.value # NoRequest
  BY TrustAssumption DEF TrustTypeOK, Image, NoRequest
<1>6. CASE booting
  <2>1. /\ Unmigrated /\ activeAddress = Other(MigrationBank)
        /\ candidate = Successor(durable)
    BY <1>6 DEF StoreInvariant
  <2>2. Limbo = {} /\ Limbo' = {}
    BY <1>4, <1>5, <2>1, UnmigratedLimbo, SuccessorImage
  <2>3. MigrationBank' = MigrationBank
    BY <1>2 DEF MigrationBank
  <2>4. StoreInvariant'
    BY <1>2, <1>3, <1>4, <1>6, <2>1, <2>3, Zenon DEF StoreInvariant, Saving
  <2>5. Up = FALSE /\ Up' = FALSE /\ Requested = NoRequest /\ Requested' = NoRequest
    BY <1>3, <1>6, Zenon DEF Up, Requested, Saving
  <2>6. UNCHANGED Register!rvars
    BY <1>3, <2>2, <2>5, Zenon DEF Register!rvars
  <2> QED
    BY <2>4, <2>6 DEF Refines
<1>7. CASE ~booting
  <2>1. candidate.generation = durable.generation + 1 /\ snapshot = durable
    BY <1>2, <1>7 DEF StoreInvariant
  <2>2. (HoldsDurable(activeAddress))'
    <3>1. PICK b \in Banks : b = activeAddress
      BY <1>5
    <3>2. HoldsDurable(b)'
      BY <1>4, <1>7, <3>1
    <3> QED
      BY <1>3, <3>1, <3>2 DEF HoldsDurable, Whole
  <2>3. booting' = FALSE /\ pc' # "halt"
    BY <1>3, <1>5, <1>7 DEF Saving
  <2>4. StoreInvariant'
    BY <1>2, <1>3, <1>7, <2>1, <2>2, <2>3, Zenon DEF StoreInvariant, Saving
  <2>5. Up = TRUE /\ Requested = candidate.value
    BY <1>2, <1>7 DEF Up, Requested, Saving
  <2>6. Limbo' \in SUBSET (Limbo \cup {Requested}) /\ Requested # NoRequest
    BY <1>4, <1>5, <2>5
  <2>7. CASE Saving'
    <3>1. Up' = TRUE /\ Requested' = Requested
      BY <1>2, <2>3, <2>5, <2>7 DEF Up, Requested, Saving
    <3>2. Register!Settle
      BY <1>3, <2>5, <2>6, <3>1 DEF Register!Settle
    <3> QED
      BY <2>4, <3>2 DEF Refines, Register!RegisterNext
  <2>8. CASE pc' = "idle"
    <3>1. Up' = TRUE /\ Requested' = NoRequest
      BY <2>3, <2>8 DEF Up, Requested
    <3>2. Register!Refuse
      BY <1>3, <2>5, <2>6, <3>1 DEF Register!Refuse
    <3> QED
      BY <2>4, <3>2 DEF Refines, Register!RegisterNext
  <2> QED
    BY <1>3, <1>7, <2>7, <2>8
<1> QED
  BY <1>6, <1>7

(* The read-back acknowledges the request or refuses it.                   *)
LEMMA VerifyRefines ==
  ASSUME TrustTypeOK, TrustTypeOK', SaveProgress, StoreInvariant, SaveVerify
  PROVE  Refines
<1>1. pc = "verify" /\ UNCHANGED <<bank, older, candidate>>
  BY DEF SaveVerify
<1>2. booting \in BOOLEAN /\ activeAddress \in Banks /\ durable \in Image
      /\ durable.generation \in Nat
      /\ candidate \in Image /\ candidate.value # NoRequest
  BY TrustAssumption DEF TrustTypeOK, Image, NoRequest
<1>3. \A b \in Banks : Whole(b)' = Whole(b)
  BY <1>1 DEF Whole
<1>4. CASE Whole(Target) \in Image /\ Publish(Whole(Target))
  <2>1. Whole(Target) = candidate
    <3>1. \A s \in Sectors : bank[Target][s] \in {candidate, Torn}
      BY <1>1 DEF SaveProgress
    <3> QED
      BY <1>4, <3>1, FirstSector, TrustAssumption DEF Whole
  <2>2. /\ snapshot' = candidate /\ activeAddress' = Target /\ durable' = candidate
        /\ pc' = "idle" /\ booting' = FALSE
    BY <1>4, <2>1 DEF Publish
  <2>3. PICK x \in Banks, y \in Banks : x = Target /\ y = activeAddress
    BY <1>2, OtherBank DEF Target
  <2>4. Other(x) = y /\ \A b \in Banks : b = x \/ b = y
    BY <2>3 DEF Target, Banks, Other
  <2>5. /\ candidate.generation = durable.generation + 1
        /\ Whole(y) \in Image => Whole(y).generation = durable.generation
        /\ booting => candidate.value = durable.value
    <3>1. CASE booting
      <4>1. Unmigrated /\ y = Other(MigrationBank) /\ candidate = Successor(durable)
        BY <2>3, <3>1 DEF StoreInvariant
      <4> QED
        BY <1>2, <4>1, SuccessorImage DEF Unmigrated
    <3>2. CASE ~booting
      BY <1>1, <2>3, <3>2 DEF StoreInvariant, Saving, HoldsDurable
    <3> QED
      BY <3>1, <3>2
  <2>6. HoldsDurable(x)'
    BY <1>2, <1>3, <2>1, <2>2, <2>3, <2>4, <2>5 DEF HoldsDurable
  <2>7. (HoldsDurable(activeAddress))'
    BY <2>2, <2>3, <2>6 DEF HoldsDurable, Whole
  <2>8. StoreInvariant'
    BY <2>2, <2>7 DEF StoreInvariant, Saving
  <2>9. \A b \in Banks : Whole(b)' \in Image
                           => Whole(b)'.generation <= durable'.generation
    BY <1>2, <1>3, <2>1, <2>2, <2>3, <2>4, <2>5
  <2>10. Limbo' = {}
    BY <1>2, <2>2, <2>9, LimboEmpties
  <2>11. Up' = TRUE /\ Requested' = NoRequest
    BY <2>2 DEF Up, Requested
  <2>12. CASE booting
    <3>1. Up = FALSE /\ Requested = NoRequest
      BY <2>12 DEF Up, Requested
    <3>2. Register!Start
      BY <2>2, <2>5, <2>10, <2>11, <2>12, <3>1 DEF Register!Start
    <3> QED
      BY <2>8, <3>2 DEF Refines, Register!RegisterNext
  <2>13. CASE ~booting
    <3>1. Up = TRUE /\ Requested = candidate.value
      BY <1>1, <2>13 DEF Up, Requested
    <3>2. Register!Acknowledge
      BY <1>2, <2>2, <2>10, <2>11, <3>1 DEF Register!Acknowledge
    <3> QED
      BY <2>8, <3>2 DEF Refines, Register!RegisterNext
  <2> QED
    BY <2>12, <2>13
<1>5. CASE Fail
  <2>1. /\ pc' = (IF booting THEN "halt" ELSE "idle") /\ booting' = FALSE
        /\ UNCHANGED <<snapshot, activeAddress, durable>>
    BY <1>5 DEF Fail
  <2>2. Limbo' = Limbo
    BY <1>1, <2>1 DEF Limbo, Whole
  <2>3. CASE booting
    <3>1. Unmigrated'
      BY <1>1, <2>1, <2>3, Zenon DEF StoreInvariant, Unmigrated, MigrationBank, Whole
    <3>2. StoreInvariant'
      BY <2>1, <2>3, <3>1 DEF StoreInvariant, Saving
    <3>3. Up' = Up /\ Requested' = Requested
      BY <2>1, <2>3 DEF Up, Requested
    <3>4. UNCHANGED Register!rvars
      BY <2>1, <2>2, <3>3 DEF Register!rvars
    <3> QED
      BY <3>2, <3>4 DEF Refines
  <2>4. CASE ~booting
    <3>1. snapshot = durable /\ HoldsDurable(activeAddress)
      BY <1>1, <2>4 DEF StoreInvariant, Saving
    <3>2. (HoldsDurable(activeAddress))'
      BY <1>1, <2>1, <3>1 DEF HoldsDurable, Whole
    <3>3. StoreInvariant'
      BY <2>1, <2>4, <3>1, <3>2 DEF StoreInvariant, Saving
    <3>4. Up = TRUE /\ Up' = TRUE /\ Requested = candidate.value
          /\ Requested' = NoRequest
      BY <1>1, <2>1, <2>4 DEF Up, Requested
    <3>5. Register!Refuse
      BY <1>2, <2>1, <2>2, <3>4 DEF Register!Refuse
    <3> QED
      BY <3>3, <3>5 DEF Refines, Register!RegisterNext
  <2> QED
    BY <2>3, <2>4
<1> QED
  BY <1>4, <1>5, VerifyEffect

(* A power cut anywhere stops the register.                                *)
LEMMA PowerLossRefines ==
  ASSUME TrustTypeOK, StoreInvariant, PowerLoss
  PROVE  Refines
<1>1. pc' = "off" /\ booting' = FALSE /\ UNCHANGED <<older, durable>> /\ pc # "off"
  BY DEF PowerLoss
<1>2. booting \in BOOLEAN /\ activeAddress \in Banks /\ durable \in Image
      /\ candidate.value # NoRequest
  BY TrustAssumption DEF TrustTypeOK, Image, NoRequest
<1>3. Up' = FALSE /\ Requested' = NoRequest
  BY <1>1 DEF Up, Requested
<1>4. ASSUME Unmigrated' \/ \E b \in Banks : HoldsDurable(b)' PROVE StoreInvariant'
  BY <1>1, <1>4 DEF StoreInvariant, Saving
<1>5. CASE bank' = bank
  <2>1. Limbo' = Limbo
    BY <1>1, <1>5 DEF Limbo, Whole
  <2>2. Unmigrated => Unmigrated'
    BY <1>1, <1>5, Zenon DEF Unmigrated, MigrationBank, Whole
  <2>3. \A b \in Banks : HoldsDurable(b) => HoldsDurable(b)'
    BY <1>1, <1>5 DEF HoldsDurable, Whole
  <2>4. Unmigrated \/ \E b \in Banks : HoldsDurable(b)
    BY <1>1, <1>2 DEF StoreInvariant, TrustTypeOK, Saving
  <2>5. Register!Stop
    BY <1>1, <1>3, <2>1 DEF Register!Stop
  <2> QED
    BY <1>4, <2>2, <2>3, <2>4, <2>5 DEF Refines, Register!RegisterNext
<1>6. CASE /\ Saving
           /\ \E c \in {bank[Target][sector], Blank, Torn, candidate} : Wrote(c)
  <2>1. /\ booting => Unmigrated'
        /\ ~booting => \A b \in Banks : b = activeAddress => HoldsDurable(b)'
        /\ Limbo' \subseteq (Limbo \cup {candidate.value}) \ {durable.value}
    BY <1>1, <1>6, WriteKeeps
  <2>2. StoreInvariant'
    BY <1>2, <1>4, <2>1
  <2>3. Limbo' \in SUBSET (Limbo \cup ({Requested} \ {NoRequest}))
    <3>1. CASE booting
      BY <1>2, <2>1, <3>1, SuccessorImage DEF StoreInvariant
    <3>2. CASE ~booting
      BY <1>2, <1>6, <2>1, <3>2 DEF Requested, Saving
    <3> QED
      BY <3>1, <3>2
  <2>4. Register!Stop
    BY <1>1, <1>3, <2>3 DEF Register!Stop
  <2> QED
    BY <2>2, <2>4 DEF Refines, Register!RegisterNext
<1> QED
  BY <1>5, <1>6, PowerLossEffect

(* Every step is a step of the register or leaves it alone.                *)
LEMMA StepRefines ==
  ASSUME "first" \notin BootReadFaults, TrustTypeOK, TrustTypeOK', SaveProgress,
         StoreInvariant, [Next]_vars
  PROVE  Refines
<1>1. CASE ChipLeftBusy \/ ChipReady
  BY <1>1, UnchangedRefines DEF ChipLeftBusy, ChipReady
<1>2. CASE UNCHANGED vars
  BY <1>2, UnchangedRefines DEF vars
<1> QED
  BY <1>1, <1>2, BootRefines, SaveBeginRefines, WriteRefines, VerifyRefines,
     PowerLossRefines DEF Next

(* The initial states are initial states of the register.                  *)
LEMMA InitRefines == ASSUME Init PROVE StoreInvariant /\ Register!RegisterInit
<1>1. TrustTypeOK
  BY TrustTypeInit
<1>2. \A b \in Banks : Whole(b) \notin Image
  BY FirstSector, TrustAssumption DEF Init, Whole
<1>3. pc = "off" /\ booting = FALSE /\ durable = OlderImage(older)
  BY DEF Init
<1>4. Unmigrated
  BY <1>2, <1>3, MigrationBanks, OtherBank DEF Unmigrated
<1>5. StoreInvariant
  BY <1>3, <1>4 DEF StoreInvariant, Saving
<1>6. Limbo = {}
  BY <1>1, <1>4, UnmigratedLimbo
<1>7. Up = FALSE /\ Requested = NoRequest /\ durable.value \in Values
  BY <1>1, <1>3 DEF Up, Requested, TrustTypeOK, Image
<1> QED
  BY <1>5, <1>6, <1>7 DEF Register!RegisterInit

(* The trust store implements the durable register: for any number of      *)
(* sectors, of saves and of commands that a busy chip ignores, in whatever *)
(* step an erase, a program, a read-back or the power fails, also during   *)
(* the migration from an older layout.  Its clients see changes that are   *)
(* acknowledged and then survive every start, or refused and then leave    *)
(* the anchors alone (tlsTrustStore_Save and TlsTrustStore_Init).  The     *)
(* hypothesis is that a start can read every bank once: a bank that cannot *)
(* be read is skipped, and an older image served instead.                  *)
THEOREM TrustStoreImplementsRegister ==
  ASSUME "first" \notin BootReadFaults
  PROVE  Spec => ImplementsRegister
<1>1. Init => StoreInvariant /\ Register!RegisterInit
  BY InitRefines
<1>2. TrustTypeOK /\ TrustTypeOK' /\ SaveProgress /\ StoreInvariant /\ [Next]_vars
        => StoreInvariant' /\ [Register!RegisterNext]_(Register!rvars)
  BY StepRefines DEF Refines
<1> QED
  BY <1>1, <1>2, SaveProgressCorrect, PTL
     DEF Spec, ImplementsRegister, Register!RegisterSpec

-------------------------------------------------------------------------------
(* The references between the stores.                                      *)

(* The three stores by name.                                               *)
LEMMA StoreNames ==
  /\ Stores = {"anchors", "resources", "callback"}
  /\ Tables["anchors"] = SUBSET Ids
  /\ Tables["resources"] = [Slots -> Ids \cup {Free}]
  /\ Tables["callback"] = [enabled : BOOLEAN, trustAnchorId : Ids]
BY Zenon DEF Stores, Tables

(* A store's record is made of its two fields.                             *)
LEMMA StoreFields ==
  ASSUME NEW v, NEW l, NEW r, r = [value |-> v, limbo |-> l]
  PROVE  r.value = v /\ r.limbo = l /\ r = [value |-> r.value, limbo |-> r.limbo]
<1>1. r.value = v
  BY Zenon
<1>2. r.limbo = l
  BY Zenon
<1>3. QED
  BY <1>1, <1>2, Zenon

(* A save, however it ends, keeps the types; and unless it makes a start   *)
(* adopt an earlier refused change, it changes no store but its own, and   *)
(* that one to the saved table if at all.                                  *)
LEMMA SaveEffect ==
  ASSUME RefsTypeOK, NEW s \in Stores, NEW table \in Tables[s], Save(s, table)
  PROVE  /\ RefsTypeOK'
         /\ ~adopted' =>
              /\ ~adopted
              /\ \A t \in Stores \ {s} : store'[t].value = store[t].value
              /\ store'[s].value \in {store[s].value, table}
<1>1. CASE /\ store' = [store EXCEPT ![s] = [value |-> table, limbo |-> NoImage]]
           /\ UNCHANGED adopted
  BY <1>1, Zenon DEF RefsTypeOK
<1>2. CASE /\ \E image \in {table, store[s].limbo, NoImage} :
                store' = [store EXCEPT ![s] = WithLimbo(store[s], image)]
           /\ UNCHANGED adopted
  <2>1. PICK image \in {table, store[s].limbo, NoImage} :
          store' = [store EXCEPT ![s] = WithLimbo(store[s], image)]
    BY <1>2, Zenon
  <2>2. image \in Tables[s] \cup {NoImage}
    BY DEF RefsTypeOK
  <2>3. store'[s] = [value |-> store[s].value, limbo |-> image]
    BY <2>1 DEF RefsTypeOK, WithLimbo
  <2>4. \A t \in Stores \ {s} : store'[t] = store[t]
    BY <2>1 DEF RefsTypeOK
  <2>5. \A t \in Stores : /\ store'[t] = [value |-> store'[t].value,
                                         limbo |-> store'[t].limbo]
                          /\ store'[t].value \in Tables[t]
                          /\ store'[t].limbo \in Tables[t] \cup {NoImage}
    <3>1. /\ store'[s] = [value |-> store'[s].value, limbo |-> store'[s].limbo]
          /\ store'[s].value \in Tables[s]
          /\ store'[s].limbo \in Tables[s] \cup {NoImage}
      BY <2>2, <2>3 DEF RefsTypeOK
    <3>2. ASSUME NEW t \in Stores \ {s}
          PROVE  /\ store'[t] = [value |-> store'[t].value, limbo |-> store'[t].limbo]
                 /\ store'[t].value \in Tables[t]
                 /\ store'[t].limbo \in Tables[t] \cup {NoImage}
      BY <2>4 DEF RefsTypeOK
    <3>3. QED
      BY <3>1, <3>2, Zenon
  <2>6. store' = [t \in Stores |-> [value |-> store'[t].value,
                                    limbo |-> store'[t].limbo]]
    <3>1. DOMAIN store' = Stores /\ store' = [t \in Stores |-> store'[t]]
      BY <2>1 DEF RefsTypeOK
    <3>2. QED
      BY <3>1, <2>5
  <2>7. RefsTypeOK'
    BY <1>2, <2>5, <2>6, Zenon DEF RefsTypeOK
  <2>8. QED
    BY <1>2, <2>3, <2>4, <2>7
<1>3. CASE \E image \in {table, store[s].limbo, NoImage} :
       /\ store' = [t \in Stores |->
            Loaded(IF t = s THEN WithLimbo(store[t], image) ELSE store[t])]
       /\ adopted' = (adopted \/ (image # table /\ image # NoImage)
                              \/ \E t \in Stores \ {s} : store[t].limbo # NoImage)
  <2>1. PICK image \in {table, store[s].limbo, NoImage} :
       /\ store' = [t \in Stores |->
            Loaded(IF t = s THEN WithLimbo(store[t], image) ELSE store[t])]
       /\ adopted' = (adopted \/ (image # table /\ image # NoImage)
                              \/ \E t \in Stores \ {s} : store[t].limbo # NoImage)
    BY <1>3
  <2>2. store'[s] = [value |-> IF image = NoImage THEN store[s].value ELSE image,
                     limbo |-> NoImage]
    BY <2>1, Zenon DEF Loaded, WithLimbo
  <2>3. ASSUME NEW t \in Stores \ {s}
        PROVE  store'[t] = [value |-> IF store[t].limbo = NoImage THEN store[t].value
                                      ELSE store[t].limbo,
                            limbo |-> NoImage]
    BY <2>1, <2>3 DEF Loaded
  <2>4. \A t \in Stores : /\ store'[t] = [value |-> store'[t].value,
                                         limbo |-> store'[t].limbo]
                          /\ store'[t].value \in Tables[t]
                          /\ store'[t].limbo = NoImage
    <3>1. image # NoImage => image \in Tables[s]
      BY <2>1, Zenon DEF RefsTypeOK
    <3>2. /\ store'[s] = [value |-> store'[s].value, limbo |-> store'[s].limbo]
          /\ store'[s].value \in Tables[s]
          /\ store'[s].limbo = NoImage
      <4> DEFINE v == IF image = NoImage THEN store[s].value ELSE image
      <4>1. store'[s] = [value |-> v, limbo |-> NoImage]
        BY <2>2
      <4>2. v \in Tables[s]
        BY <3>1 DEF RefsTypeOK
      <4> HIDE DEF v
      <4>3. store'[s].value = v
        BY <4>1
      <4>4. store'[s].limbo = NoImage
        BY <4>1
      <4>5. QED
        BY <4>1, <4>2, <4>3, <4>4, Zenon
    <3>3. ASSUME NEW t \in Stores \ {s}
          PROVE  /\ store'[t] = [value |-> store'[t].value, limbo |-> store'[t].limbo]
                 /\ store'[t].value \in Tables[t]
                 /\ store'[t].limbo = NoImage
      <4> DEFINE v == IF store[t].limbo = NoImage THEN store[t].value
                      ELSE store[t].limbo
      <4>1. store'[t] = [value |-> v, limbo |-> NoImage]
        BY <2>3
      <4>2. v \in Tables[t]
        BY DEF RefsTypeOK
      <4> HIDE DEF v
      <4>3. store'[t].value = v
        BY <4>1
      <4>4. store'[t].limbo = NoImage
        BY <4>1
      <4>5. QED
        BY <4>1, <4>2, <4>3, <4>4, Zenon
    <3>4. QED
      BY <3>2, <3>3, Zenon
  <2>5. adopted' \in BOOLEAN
    BY <2>1
  <2>6. store' = [t \in Stores |-> [value |-> store'[t].value,
                                    limbo |-> store'[t].limbo]]
    BY <2>1, <2>4
  <2>7. RefsTypeOK'
    BY <2>4, <2>5, <2>6 DEF RefsTypeOK
  <2>8. ASSUME ~adopted'
        PROVE  /\ ~adopted
               /\ image \in {table, NoImage}
               /\ \A t \in Stores \ {s} : store[t].limbo = NoImage
    BY <2>1, <2>8, Zenon
  <2>9. ASSUME ~adopted'
        PROVE  store'[s].value \in {store[s].value, table}
    BY <2>2, <2>8, <2>9
  <2>10. ASSUME ~adopted', NEW t \in Stores \ {s}
         PROVE  store'[t].value = store[t].value
    <3>1. store[t].limbo = NoImage
      BY <2>8, <2>10
    <3>2. store'[t] = [value |-> IF store[t].limbo = NoImage THEN store[t].value
                                 ELSE store[t].limbo,
                       limbo |-> NoImage]
      BY <2>3
    <3>3. QED
      BY <3>1, <3>2
  <2>11. QED
    BY <2>7, <2>8, <2>9, <2>10, Zenon
<1>4. QED
  BY <1>1, <1>2, <1>3 DEF Save

(* What NoDanglingReference says of given anchors, resources and callback. *)
Sound(a, r, c) ==
  /\ \A i \in Slots : r[i] # Free => r[i] \in a
  /\ c.enabled => c.trustAnchorId \in a

RefsInvariant == RefsTypeOK /\ SoundUntilAdoption

(* NoDanglingReference in terms of the three tables, in this state ...     *)
LEMMA SoundIsNoDangling ==
  NoDanglingReference <=> Sound(anchors, resources, callback)
BY DEF NoDanglingReference, Sound, Exists

(* ... and in the next.                                                    *)
LEMMA SoundIsNoDanglingNext ==
  NoDanglingReference' <=> Sound(anchors', resources', callback')
BY DEF NoDanglingReference, Sound, Exists

(* A save of anchors under which the references would be valid, however it *)
(* ends, keeps the invariant.                                              *)
LEMMA AnchorsSave ==
  ASSUME RefsInvariant, NEW table \in SUBSET Ids, Save("anchors", table),
         NoDanglingReference => Sound(table, resources, callback)
  PROVE  RefsInvariant'
<1>1. /\ RefsTypeOK'
      /\ ~adopted' =>
           /\ ~adopted
           /\ resources' = resources /\ callback' = callback
           /\ anchors' \in {anchors, table}
  BY SaveEffect, StoreNames DEF RefsInvariant, anchors, resources, callback
<1>2. QED
  BY <1>1, SoundIsNoDangling, SoundIsNoDanglingNext
     DEF RefsInvariant, SoundUntilAdoption

(* The same for a save of the resources ...                                *)
LEMMA ResourcesSave ==
  ASSUME RefsInvariant, NEW table \in [Slots -> Ids \cup {Free}],
         Save("resources", table),
         NoDanglingReference => Sound(anchors, table, callback)
  PROVE  RefsInvariant'
<1>1. /\ RefsTypeOK'
      /\ ~adopted' =>
           /\ ~adopted
           /\ anchors' = anchors /\ callback' = callback
           /\ resources' \in {resources, table}
  BY SaveEffect, StoreNames DEF RefsInvariant, anchors, resources, callback
<1>2. QED
  BY <1>1, SoundIsNoDangling, SoundIsNoDanglingNext
     DEF RefsInvariant, SoundUntilAdoption

(* ... and of the callback configuration.                                  *)
LEMMA CallbackSave ==
  ASSUME RefsInvariant, NEW table \in [enabled : BOOLEAN, trustAnchorId : Ids],
         Save("callback", table),
         NoDanglingReference => Sound(anchors, resources, table)
  PROVE  RefsInvariant'
<1>1. /\ RefsTypeOK'
      /\ ~adopted' =>
           /\ ~adopted
           /\ anchors' = anchors /\ resources' = resources
           /\ callback' \in {callback, table}
  BY SaveEffect, StoreNames, Zenon DEF RefsInvariant, anchors, resources, callback
<1>2. QED
  BY <1>1, SoundIsNoDangling, SoundIsNoDanglingNext
     DEF RefsInvariant, SoundUntilAdoption

(* The types of the three values.                                          *)
LEMMA ValuesTyped ==
  ASSUME RefsInvariant
  PROVE  /\ anchors \in SUBSET Ids
         /\ resources \in [Slots -> Ids \cup {Free}]
         /\ callback \in [enabled : BOOLEAN, trustAnchorId : Ids]
BY StoreNames, Zenon DEF RefsInvariant, RefsTypeOK, anchors, resources, callback

(* The defaults satisfy the invariant.                                     *)
LEMMA InvariantInitially == RefsInit => RefsInvariant
<1> SUFFICES ASSUME RefsInit PROVE RefsInvariant
  OBVIOUS
<1>1. 1 \in Ids
  BY RefsAssumption DEF Ids
<1>2. RefsTypeOK
  <2>1. /\ store["anchors"] = [value |-> {}, limbo |-> NoImage]
        /\ store["resources"] = [value |-> [i \in Slots |-> Free], limbo |-> NoImage]
        /\ store["callback"] = [value |-> [enabled |-> FALSE, trustAnchorId |-> 1],
                                limbo |-> NoImage]
    BY DEF RefsInit
  <2>2. store = [s \in Stores |-> store[s]]
    BY StoreNames DEF RefsInit
  <2>3. ASSUME NEW s \in Stores
        PROVE  /\ store[s] = [value |-> store[s].value, limbo |-> store[s].limbo]
               /\ store[s].limbo = NoImage
               /\ store[s].value \in Tables[s]
    <3>1. CASE s = "anchors"
      BY <2>1, <3>1, StoreNames
    <3>2. CASE s = "resources"
      BY <2>1, <3>2, StoreNames
    <3>3. CASE s = "callback"
      <4>1. [enabled |-> FALSE, trustAnchorId |-> 1]
              \in [enabled : BOOLEAN, trustAnchorId : Ids]
        BY <1>1, Zenon
      <4>2. store[s] = [value |-> [enabled |-> FALSE, trustAnchorId |-> 1],
                        limbo |-> NoImage]
        BY <2>1, <3>3, Zenon
      <4>3. /\ store[s].value = [enabled |-> FALSE, trustAnchorId |-> 1]
            /\ store[s].limbo = NoImage
            /\ store[s] = [value |-> store[s].value, limbo |-> store[s].limbo]
        BY <4>2, StoreFields
      <4>4. store[s].value \in Tables[s]
        BY <3>3, <4>1, <4>3, StoreNames, Zenon
      <4>5. QED
        BY <4>3, <4>4
    <3>4. QED
      BY <3>1, <3>2, <3>3, StoreNames
  <2>4. QED
    BY <2>2, <2>3, Zenon DEF RefsInit, RefsTypeOK
<1>3. NoDanglingReference
  BY DEF RefsInit, NoDanglingReference, resources, callback
<1>4. QED
  BY <1>2, <1>3 DEF RefsInvariant, SoundUntilAdoption

(* Every request, and every restart, preserves the invariant.              *)
LEMMA InvariantPreserved == RefsInvariant /\ [RefsNext]_refVars => RefsInvariant'
<1> SUFFICES ASSUME RefsInvariant, [RefsNext]_refVars PROVE RefsInvariant'
  OBVIOUS
<1> USE ValuesTyped
<1>1. CASE AddAnchor
  <2>1. PICK id \in Ids \ anchors : Save("anchors", anchors \cup {id})
    BY <1>1, Zenon DEF AddAnchor
  <2>2. QED
    BY <2>1, AnchorsSave DEF NoDanglingReference, Sound, Exists
<1>2. CASE ResetAnchors
  <2>1. NoDanglingReference => Sound({}, resources, callback)
    BY <1>2 DEF ResetAnchors, NoDanglingReference, Sound, Exists, InUse
  <2>2. QED
    BY <1>2, <2>1, AnchorsSave DEF ResetAnchors
<1>3. CASE SetPeriod
  BY <1>3, ResourcesSave, SoundIsNoDangling DEF SetPeriod
<1>4. ASSUME NEW id \in Ids, ReplaceAnchor(id) PROVE RefsInvariant'
  BY <1>4, AnchorsSave, SoundIsNoDangling DEF ReplaceAnchor
<1>5. ASSUME NEW id \in Ids, DeleteAnchor(id) PROVE RefsInvariant'
  <2>1. NoDanglingReference => Sound(anchors \ {id}, resources, callback)
    BY <1>5 DEF DeleteAnchor, NoDanglingReference, Sound, Exists, InUse
  <2>2. QED
    BY <1>5, <2>1, AnchorsSave DEF DeleteAnchor
<1>6. ASSUME NEW id \in Ids, AddResource(id) PROVE RefsInvariant'
  <2>1. PICK i : Save("resources", [resources EXCEPT ![i] = id])
    BY <1>6, Zenon DEF AddResource
  <2>2. NoDanglingReference => Sound(anchors, [resources EXCEPT ![i] = id], callback)
    BY <1>6 DEF AddResource, NoDanglingReference, Sound, Exists
  <2>3. QED
    BY <2>1, <2>2, ResourcesSave, Zenon
<1>7. ASSUME NEW id \in Ids, NEW enabled \in BOOLEAN, SetCallback(enabled, id)
      PROVE  RefsInvariant'
  <2>1. NoDanglingReference =>
          Sound(anchors, resources, [enabled |-> enabled, trustAnchorId |-> id])
    BY <1>7 DEF SetCallback, NoDanglingReference, Sound, Exists
  <2>2. QED
    BY <1>7, <2>1, CallbackSave DEF SetCallback
<1>8. ASSUME NEW id \in Ids, NEW i \in Slots, UpdateResource(i, id)
      PROVE  RefsInvariant'
  <2>1. NoDanglingReference => Sound(anchors, [resources EXCEPT ![i] = id], callback)
    BY <1>8 DEF UpdateResource, NoDanglingReference, Sound, Exists
  <2>2. QED
    BY <1>8, <2>1, ResourcesSave, Zenon DEF UpdateResource
<1>9. ASSUME NEW i \in Slots, DeleteResource(i) PROVE RefsInvariant'
  <2>1. NoDanglingReference => Sound(anchors, [resources EXCEPT ![i] = Free], callback)
    BY DEF NoDanglingReference, Sound, Exists
  <2>2. QED
    BY <1>9, <2>1, ResourcesSave, Zenon DEF DeleteResource
<1>10. CASE Restart
  <2>1. RefsTypeOK'
    BY <1>10, Zenon DEF Restart, Loaded, RefsInvariant, RefsTypeOK
  <2>2. ASSUME ~adopted'
        PROVE  ~adopted /\ \A s \in Stores : store'[s].value = store[s].value
    BY <1>10, <2>2, Zenon DEF Restart, Loaded
  <2>3. ~adopted' => ~adopted /\ anchors' = anchors /\ resources' = resources
                              /\ callback' = callback
    BY <2>2, StoreNames, Zenon DEF anchors, resources, callback
  <2>4. QED
    BY <2>1, <2>3, SoundIsNoDangling, SoundIsNoDanglingNext
       DEF RefsInvariant, SoundUntilAdoption
<1>11. CASE UNCHANGED refVars
  BY <1>11 DEF refVars, RefsInvariant, RefsTypeOK, SoundUntilAdoption,
               NoDanglingReference, Exists, anchors, resources, callback
<1>12. QED
  BY <1>1, <1>2, <1>3, <1>4, <1>5, <1>6, <1>7, <1>8, <1>9, <1>10, <1>11
     DEF RefsNext

(* Every reachable state is well typed, for any number of anchors and      *)
(* resource slots.                                                         *)
THEOREM RefsTypeCorrect == RefsSpec => []RefsTypeOK
<1>1. RefsInvariant => RefsTypeOK
  BY DEF RefsInvariant
<1>2. QED
  BY <1>1, InvariantInitially, InvariantPreserved, PTL DEF RefsSpec

(* No resource, and no enabled callback target, ever names an anchor that  *)
(* is gone, unless a start has adopted a change the API had reported as    *)
(* failed.                                                                 *)
THEOREM SoundUntilAdoptionCorrect == RefsSpec => []SoundUntilAdoption
<1>1. RefsInvariant => SoundUntilAdoption
  BY DEF RefsInvariant
<1>2. QED
  BY <1>1, InvariantInitially, InvariantPreserved, PTL DEF RefsSpec
===============================================================================
