---------------------------- MODULE SnapshotProofs ----------------------------
(***************************************************************************)
(* Proofs about the A/B snapshot store, for any set of values, any number  *)
(* of layout versions and any bound on generations; and, on top of it,     *)
(* about the server credentials, which are kept in such a store.           *)
(***************************************************************************)
EXTENDS ServerCredentials, TLAPS

(* What a driver call can report and leave behind.                         *)
LEMMA EraseResult ==
  ASSUME NEW old, NEW state \in ChipStates, NEW r \in EraseSector(old, state)
  PROVE  /\ r.status \in Statuses
         /\ r.chip \in ChipStates
         /\ r.content \in {old, Blank, Torn}
         /\ r.status = "ok" /\ state = "ready" => r.content = Blank
BY DEF EraseSector, Result, Statuses, ChipStates

(* W25Q64_Program, likewise; programming a blank bank leaves nothing but   *)
(* the new image that passes for one.                                      *)
LEMMA ProgramResult ==
  ASSUME NEW old, NEW image, NEW state \in ChipStates, NEW r \in Program(old, image, state)
  PROVE  /\ r.status \in Statuses
         /\ r.chip \in ChipStates
         /\ r.content \in {old, Torn, image}
         /\ old = Blank => r.content \in {Blank, Torn, image}
         /\ r.status = "ok" /\ state = "ready" => r.content \in {Torn, image}
BY DEF Program, Programmed, Result, Statuses, ChipStates

(* W25Q64_Read delivers the contents or nothing a reader accepts.          *)
LEMMA ReadResult ==
  ASSUME NEW content, NEW state \in ChipStates, NEW r \in Read(content, state)
  PROVE  r.status \in Statuses /\ r.content \in {Torn, content}
BY DEF Read, Result, Statuses, ChipStates

(* The two banks are each other's counterpart.                             *)
LEMMA OtherBank ==
  \A b \in Banks : Other(b) \in Banks /\ Other(b) # b /\ Other(Other(b)) = b
BY DEF Banks, Other

(* Init chooses a bank in which it found an image.                         *)
LEMMA NewestBank == ASSUME NEW found \in SUBSET Banks, found # {}
                    PROVE  Newest(found) \in found
BY Zenon DEF Banks, Newest

(* The snapshot of a store without images is well formed.                  *)
LEMMA EmptyImage == Empty \in Image
BY StoreAssumption DEF Empty, Image, Versions

(* Migration yields an image of the current version and keeps the          *)
(* generation.                                                             *)
LEMMA MigratedImage ==
  ASSUME NEW image \in Image
  PROVE  /\ Migrated(image) \in Image
         /\ Migrated(image).version = Version
         /\ Migrated(image).generation = image.generation
         /\ image.version = Version => Migrated(image) = image
<1>1. CASE image.version = Version
  BY <1>1 DEF Migrated
<1>2. CASE image.version # Version
  <2>1. Migrated(image) = [image EXCEPT !.version = Version,
                                        !.value = Migrate[image.value]]
    BY <1>2 DEF Migrated
  <2>2. Migrate[image.value] \in Values /\ Version \in Versions
    BY StoreAssumption DEF Image, Versions
  <2> QED
    BY <1>2, <2>1, <2>2, Zenon DEF Image
<1> QED
  BY <1>1, <1>2

(* A candidate is well formed below the bound on generations.              *)
LEMMA SuccessorImage ==
  ASSUME NEW image \in Image, image.generation < MaxGeneration
  PROVE  /\ Successor(image) \in Image
         /\ Successor(image).version = image.version
         /\ Successor(image).generation = image.generation + 1
         /\ Successor(image).value = image.value
BY StoreAssumption DEF Successor, Image

-------------------------------------------------------------------------------
(* Every step of the store keeps the types.                                *)
LEMMA TypeStep == ASSUME TypeOK, [Next]_vars PROVE TypeOK'
<1> USE DEF TypeOK
<1>0. Target \in Banks
  BY OtherBank DEF Target
<1>1. CASE Boot
  <2>1. PICK readable \in [Versions -> SUBSET Banks] :
          LET found(v) == {b \in readable[v] : IsValid(bank[b], v)}
          IN \/ found(Version) # {} /\ Load(Newest(found(Version)))
             \/ \E v \in 1..(Version - 1) :
                  found(v) # {} /\ LoadOlder(Newest(found(v)))
             \/ (\A v \in Versions : found(v) = {}) /\ LoadDefault
    BY <1>1, Zenon DEF Boot
  <2> DEFINE found(v) == {b \in readable[v] : IsValid(bank[b], v)}
  <2>2. \A v \in Versions : found(v) # {} =>
           Newest(found(v)) \in Banks /\ bank[Newest(found(v))] \in Image
    <3> TAKE v \in Versions
    <3>1. found(v) \in SUBSET Banks
      OBVIOUS
    <3> HIDE DEF found
    <3>2. found(v) # {} => Newest(found(v)) \in found(v)
      BY <3>1, NewestBank
    <3> QED
      BY <3>1, <3>2 DEF found, IsValid
  <2>3. UNCHANGED <<bank, chip>> /\ ignored' \in 0..MaxIgnored
    BY <1>1, StoreAssumption DEF Boot, vars
  <2>4. CASE found(Version) # {} /\ Load(Newest(found(Version)))
    BY <2>2, <2>3, <2>4, StoreAssumption DEF Load, Versions
  <2>5. CASE \E v \in 1..(Version - 1) : found(v) # {} /\ LoadOlder(Newest(found(v)))
    <3>1. PICK v \in 1..(Version - 1) : found(v) # {} /\ LoadOlder(Newest(found(v)))
      BY <2>5, Zenon
    <3> DEFINE b == Newest(found(v))
    <3>2. b \in Banks /\ bank[b] \in Image
      BY <2>2, <3>1, StoreAssumption DEF Versions
    <3>3. Migrated(bank[b]) \in Image /\ Successor(Migrated(bank[b])) \in Image
      BY <3>1, <3>2, MigratedImage, SuccessorImage DEF LoadOlder
    <3> QED
      BY <2>3, <3>1, <3>2, <3>3 DEF LoadOlder
  <2>6. CASE LoadDefault
    <3>1. Successor(Empty) \in Image
      BY EmptyImage, SuccessorImage, StoreAssumption DEF Empty
    <3> QED
      BY <2>3, <2>6, <3>1, EmptyImage, Zenon DEF LoadDefault, Banks
  <2> QED
    BY <2>1, <2>4, <2>5, <2>6
<1>2. ASSUME NEW value \in Values, SaveBegin(value) PROVE TypeOK'
  <2>1. [snapshot EXCEPT !.value = value] \in Image
        /\ [snapshot EXCEPT !.value = value].generation = snapshot.generation
    BY DEF Image
  <2>2. candidate' \in Image
    BY <1>2, <2>1, SuccessorImage, Zenon DEF SaveBegin
  <2> QED
    BY <1>2, <2>2, StoreAssumption DEF SaveBegin
<1>3. CASE SaveErase
  <2>1. PICK r \in EraseSector(bank[Target], chip) :
          /\ bank' = [bank EXCEPT ![Target] = r.content]
          /\ chip' = r.chip
          /\ \/ r.status = "ok" /\ pc' = "program"
                /\ UNCHANGED <<booting, snapshot, activeAddress, durable>>
             \/ r.status = "error" /\ Fail
    BY <1>3, Zenon DEF SaveErase
  <2>2. r.content \in Contents /\ r.chip \in ChipStates
    BY <1>0, EraseResult DEF Contents
  <2>3. ignored' \in 0..MaxIgnored /\ candidate' = candidate
    BY <1>3, StoreAssumption DEF SaveErase, CountIgnored
  <2> QED
    BY <1>0, <2>1, <2>2, <2>3, Zenon DEF Fail
<1>4. CASE SaveProgram
  <2>1. PICK r \in Program(bank[Target], candidate, chip) :
          /\ bank' = [bank EXCEPT ![Target] = r.content]
          /\ chip' = r.chip
          /\ \/ r.status = "ok" /\ pc' = "verify"
                /\ UNCHANGED <<booting, snapshot, activeAddress, durable>>
             \/ r.status = "error" /\ Fail
    BY <1>4, Zenon DEF SaveProgram
  <2>2. r.content \in Contents /\ r.chip \in ChipStates
    BY <1>0, ProgramResult DEF Contents
  <2>3. ignored' \in 0..MaxIgnored /\ candidate' = candidate
    BY <1>4, StoreAssumption DEF SaveProgram, CountIgnored
  <2> QED
    BY <1>0, <2>1, <2>2, <2>3, Zenon DEF Fail
<1>5. CASE SaveVerify
  <2>1. PICK r \in Read(bank[Target], chip) :
          \/ Accepted(r) /\ Publish(candidate)
          \/ ~Accepted(r) /\ Fail
    BY <1>5 DEF SaveVerify
  <2>2. Accepted(r) => r.content \in Image
    BY DEF Accepted, IsValid
  <2> QED
    BY <1>0, <1>5, <2>1, <2>2, Zenon DEF SaveVerify, Publish, Fail
<1>6. CASE ChipLeftBusy
  BY <1>6 DEF ChipLeftBusy, ChipStates
<1>7. CASE ChipReady
  BY <1>7 DEF ChipReady, ChipStates
<1>8. CASE PowerLoss
  <2>1. EraseCut(bank[Target]) \subseteq Contents
        /\ ProgramCut(bank[Target], candidate) \subseteq Contents
    BY <1>0 DEF EraseCut, ProgramCut, Programmed, Contents
  <2>2. bank' \in [Banks -> Contents]
    <3>1. CASE pc = "erase" /\ chip = "ready"
      BY <1>0, <1>8, <2>1, <3>1 DEF PowerLoss
    <3>2. CASE pc = "program" /\ chip = "ready"
      BY <1>0, <1>8, <2>1, <3>2 DEF PowerLoss
    <3>3. CASE pc \notin {"erase", "program"} \/ chip # "ready"
      BY <1>8, <3>3 DEF PowerLoss
    <3> QED
      BY <3>1, <3>2, <3>3
  <2> QED
    <3>1. activeAddress' \in Banks
      BY <1>8 DEF PowerLoss, Banks
    <3>2. chip' \in ChipStates /\ ignored' \in 0..MaxIgnored
      BY <1>8, StoreAssumption DEF PowerLoss, ChipStates
    <3>3. booting' \in BOOLEAN
      BY <1>8, Zenon DEF PowerLoss
    <3> QED
      BY <1>8, <2>2, <3>1, <3>2, <3>3, EmptyImage DEF PowerLoss
<1>9. CASE UNCHANGED vars
  BY <1>9 DEF vars
<1> QED
  BY <1>1, <1>2, <1>3, <1>4, <1>5, <1>6, <1>7, <1>8, <1>9 DEF Next

(* The initial states have the right types.                                *)
LEMMA InitialTypes == Init => TypeOK
<1> SUFFICES ASSUME Init PROVE TypeOK
  OBVIOUS
<1>1. durable \in Image
  <2>1. CASE durable = Empty
    BY <2>1, EmptyImage
  <2>2. CASE \E b \in Banks : bank[b] \in Image /\ durable = Migrated(bank[b])
    BY <2>2, MigratedImage
  <2> QED
    BY <2>1, <2>2 DEF Init
<1>2. bank \in [Banks -> Contents]
  BY DEF Init, Contents
<1>3. activeAddress \in Banks
  BY DEF Init, Banks
<1>4. chip \in ChipStates /\ ignored \in 0..MaxIgnored
  BY StoreAssumption DEF Init, ChipStates
<1>5. booting \in BOOLEAN
  BY Zenon DEF Init
<1> QED
  BY <1>1, <1>2, <1>3, <1>4, <1>5, EmptyImage DEF Init, TypeOK

(* The store's variables keep their types in every behaviour of the store, *)
(* whatever errors, power cuts and busy-chip encounters occur.             *)
THEOREM TypeCorrect == Spec => []TypeOK
<1>1. TypeOK /\ [Next]_vars => TypeOK'
  BY TypeStep
<1> QED
  BY InitialTypes, <1>1, PTL DEF Spec
-------------------------------------------------------------------------------
(* What each step of a save does to the banks and to the RAM copy.         *)
LEMMA EraseEffect ==
  ASSUME TypeOK, SaveErase
  PROVE  \E c \in {bank[Target], Blank, Torn} :
           /\ bank' = [bank EXCEPT ![Target] = c]
           /\ pc' \in {"program", "halt", "idle"}
           /\ pc' = "idle" => ~booting
           /\ pc' = "program" => c = Blank \/ ignored' > 0
           /\ pc' = "program" => booting' = booting
           /\ UNCHANGED <<candidate, snapshot, activeAddress, durable>>
<1>1. PICK r \in EraseSector(bank[Target], chip) :
        /\ bank' = [bank EXCEPT ![Target] = r.content]
        /\ \/ r.status = "ok" /\ pc' = "program"
              /\ UNCHANGED <<booting, snapshot, activeAddress, durable>>
           \/ r.status = "error" /\ Fail
  BY Zenon DEF SaveErase
<1>2. chip \in ChipStates
  BY DEF TypeOK
<1>3. /\ r.content \in {bank[Target], Blank, Torn}
      /\ r.status = "ok" /\ chip = "ready" => r.content = Blank
  BY <1>2, EraseResult
<1>4. chip = "busy" => ignored' > 0
  BY StoreAssumption DEF SaveErase, CountIgnored, TypeOK
<1>5. candidate' = candidate
  BY DEF SaveErase
<1>6. CASE r.status = "ok" /\ pc' = "program"
           /\ UNCHANGED <<booting, snapshot, activeAddress, durable>>
  BY <1>1, <1>2, <1>3, <1>4, <1>5, <1>6, Zenon DEF ChipStates
<1>7. CASE r.status = "error" /\ Fail
  BY <1>1, <1>3, <1>5, <1>7, Zenon DEF Fail
<1> QED
  BY <1>1, <1>6, <1>7

(* SaveProgram writes only the inactive bank and publishes nothing.        *)
LEMMA ProgramEffect ==
  ASSUME TypeOK, SaveInvariant, MaxIgnored <= 1, SaveProgram
  PROVE  \E c \in {bank[Target], Torn, candidate} :
           /\ bank' = [bank EXCEPT ![Target] = c]
           /\ pc' \in {"verify", "halt", "idle"}
           /\ pc' = "idle" => ~booting
           /\ pc' = "verify" => c \in {candidate, Blank, Torn}
           /\ pc' = "verify" => booting' = booting
           /\ UNCHANGED <<candidate, snapshot, activeAddress, durable>>
<1>1. PICK r \in Program(bank[Target], candidate, chip) :
        /\ bank' = [bank EXCEPT ![Target] = r.content]
        /\ \/ r.status = "ok" /\ pc' = "verify"
              /\ UNCHANGED <<booting, snapshot, activeAddress, durable>>
           \/ r.status = "error" /\ Fail
  BY Zenon DEF SaveProgram
<1>2. chip \in ChipStates
  BY DEF TypeOK
<1>3. /\ r.content \in {bank[Target], Torn, candidate}
      /\ bank[Target] = Blank => r.content \in {Blank, Torn, candidate}
      /\ r.status = "ok" /\ chip = "ready" => r.content \in {Torn, candidate}
  BY <1>2, ProgramResult
<1>4. chip = "ready" \/ bank[Target] = Blank
  BY <1>2, StoreAssumption
     DEF SaveProgram, CountIgnored, SaveInvariant, TypeOK, ChipStates
<1>5. candidate' = candidate
  BY DEF SaveProgram
<1>6. CASE r.status = "ok" /\ pc' = "verify"
           /\ UNCHANGED <<booting, snapshot, activeAddress, durable>>
  BY <1>1, <1>3, <1>4, <1>5, <1>6, Zenon
<1>7. CASE r.status = "error" /\ Fail
  BY <1>1, <1>3, <1>5, <1>7, Zenon DEF Fail
<1> QED
  BY <1>1, <1>6, <1>7

(* SaveVerify writes nothing, and publishes the candidate only if the      *)
(* inactive bank holds it.                                                 *)
LEMMA VerifyEffect ==
  ASSUME TypeOK, SaveInvariant, SaveVerify
  PROVE  /\ UNCHANGED <<bank, candidate>>
         /\ \/ /\ bank[Target] = candidate
               /\ snapshot' = candidate /\ durable' = candidate
               /\ activeAddress' = Target /\ pc' = "idle"
            \/ /\ UNCHANGED <<snapshot, activeAddress, durable>>
               /\ pc' \in {"idle", "halt"}
               /\ pc' = "idle" => ~booting
<1>1. PICK r \in Read(bank[Target], chip) :
        \/ Accepted(r) /\ Publish(candidate)
        \/ ~Accepted(r) /\ Fail
  BY DEF SaveVerify
<1>2. UNCHANGED <<bank, candidate>>
  BY DEF SaveVerify
<1>3. CASE Accepted(r) /\ Publish(candidate)
  <2>1. r.content \in Image
    BY <1>3 DEF Accepted, IsValid
  <2>2. r.content \in {Torn, bank[Target]}
    BY ReadResult DEF TypeOK
  <2>3. bank[Target] \in {candidate, Blank, Torn}
    BY DEF SaveInvariant, SaveVerify
  <2>4. r.content = candidate /\ bank[Target] = candidate
    BY <2>1, <2>2, <2>3, StoreAssumption
  <2> QED
    BY <1>2, <1>3, <2>4 DEF Publish
<1>4. CASE ~Accepted(r) /\ Fail
  BY <1>2, <1>4 DEF Fail
<1> QED
  BY <1>1, <1>3, <1>4

(* Boot loads a bank it could read, migrates one, or takes the default.    *)
LEMMA BootEffect ==
  ASSUME TypeOK, Boot
  PROVE  /\ UNCHANGED bank
         /\ \/ \E b \in Banks : IsValid(bank[b], Version) /\ Load(b)
            \/ \E b \in Banks, v \in Versions : IsValid(bank[b], v) /\ LoadOlder(b)
            \/ LoadDefault
<1>1. PICK readable \in [Versions -> SUBSET Banks] :
        LET found(v) == {b \in readable[v] : IsValid(bank[b], v)}
        IN \/ found(Version) # {} /\ Load(Newest(found(Version)))
           \/ \E v \in 1..(Version - 1) : found(v) # {} /\ LoadOlder(Newest(found(v)))
           \/ (\A v \in Versions : found(v) = {}) /\ LoadDefault
  BY Zenon DEF Boot
<1> DEFINE found(v) == {b \in readable[v] : IsValid(bank[b], v)}
<1>2. UNCHANGED bank
  BY DEF Boot
<1>3. \A v \in Versions : found(v) # {} =>
         Newest(found(v)) \in Banks /\ IsValid(bank[Newest(found(v))], v)
  <2> TAKE v \in Versions
  <2>1. found(v) \in SUBSET Banks
    OBVIOUS
  <2> HIDE DEF found
  <2>2. found(v) # {} => Newest(found(v)) \in found(v)
    BY <2>1, NewestBank
  <2> QED
    BY <2>1, <2>2 DEF found
<1>4. Version \in Versions /\ \A v \in 1..(Version - 1) : v \in Versions
  BY StoreAssumption DEF Versions
<1>5. \/ found(Version) # {} /\ Load(Newest(found(Version)))
      \/ \E v \in 1..(Version - 1) : found(v) # {} /\ LoadOlder(Newest(found(v)))
      \/ LoadDefault
  BY <1>1, Zenon
<1> HIDE DEF found
<1>6. CASE found(Version) # {} /\ Load(Newest(found(Version)))
  BY <1>2, <1>3, <1>4, <1>6, Zenon
<1>7. CASE \E v \in 1..(Version - 1) : found(v) # {} /\ LoadOlder(Newest(found(v)))
  BY <1>2, <1>3, <1>4, <1>7, Zenon
<1> QED
  BY <1>2, <1>5, <1>6, <1>7, Zenon

(* SaveBegin prepares the next generation and touches neither bank.        *)
LEMMA SaveBeginEffect ==
  ASSUME TypeOK, NEW value \in Values, SaveBegin(value)
  PROVE  /\ UNCHANGED <<bank, snapshot, activeAddress, booting, durable>>
         /\ pc' = "erase"
         /\ candidate'.version = snapshot.version
         /\ candidate'.generation = snapshot.generation + 1
         /\ candidate'.value = value
<1> DEFINE edited == [snapshot EXCEPT !.value = value]
<1>1. /\ edited \in Image
      /\ edited.version = snapshot.version
      /\ edited.generation = snapshot.generation
      /\ edited.value = value
  BY DEF TypeOK, Image
<1>2. candidate' = Successor(edited)
  BY DEF SaveBegin
<1>3. edited.generation < MaxGeneration
  BY <1>1 DEF SaveBegin
<1> HIDE DEF edited
<1>4. /\ candidate'.version = edited.version
      /\ candidate'.generation = edited.generation + 1
      /\ candidate'.value = edited.value
  BY <1>1, <1>2, <1>3, SuccessorImage
<1> QED
  BY <1>1, <1>4 DEF SaveBegin
-------------------------------------------------------------------------------
(* The bookkeeping of a save is inductive, whatever the boot reads report. *)
LEMMA SaveInvariantInit == Init => SaveInvariant
BY DEF Init, SaveInvariant

(* Every step keeps the bookkeeping of a save, if at most one of its       *)
(* commands meets a busy chip.                                             *)
LEMMA SaveInvariantStep ==
  ASSUME TypeOK, TypeOK', SaveInvariant, MaxIgnored <= 1, [Next]_vars
  PROVE  SaveInvariant'
<1>0. Target \in Banks /\ bank \in [Banks -> Contents]
  BY OtherBank DEF Target, TypeOK
<1>1. CASE Boot
  <2>1. CASE \E b \in Banks : IsValid(bank[b], Version) /\ Load(b)
    BY <2>1 DEF Load, IsValid, SaveInvariant
  <2>2. CASE \E b \in Banks, v \in Versions : IsValid(bank[b], v) /\ LoadOlder(b)
    <3>1. PICK b \in Banks, v \in Versions : IsValid(bank[b], v) /\ LoadOlder(b)
      BY <2>2
    <3> DEFINE m == Migrated(bank[b])
    <3>2. m \in Image /\ m.version = Version /\ m.generation < MaxGeneration
      BY <3>1, MigratedImage DEF IsValid, LoadOlder
    <3>3. snapshot' = m /\ candidate' = Successor(m) /\ pc' = "erase"
      BY <3>1 DEF LoadOlder
    <3> HIDE DEF m
    <3> QED
      BY <3>2, <3>3, SuccessorImage DEF SaveInvariant
  <2>3. CASE LoadDefault
    <3>1. /\ Successor(Empty).version = Version
          /\ Successor(Empty).generation = Empty.generation + 1
      BY EmptyImage, SuccessorImage, StoreAssumption DEF Empty
    <3>2. Empty.version = Version
      BY DEF Empty
    <3> QED
      BY <2>3, <3>1, <3>2 DEF LoadDefault, SaveInvariant
  <2> QED
    BY <1>1, <2>1, <2>2, <2>3, BootEffect
<1>2. ASSUME NEW value \in Values, SaveBegin(value) PROVE SaveInvariant'
  BY <1>2, SaveBeginEffect DEF SaveInvariant, SaveBegin
<1>3. CASE SaveErase
  <2>1. PICK c \in {bank[Target], Blank, Torn} :
           /\ bank' = [bank EXCEPT ![Target] = c]
           /\ pc' \in {"program", "halt", "idle"}
           /\ pc' = "program" => c = Blank \/ ignored' > 0
           /\ UNCHANGED <<candidate, snapshot, activeAddress>>
    BY <1>3, EraseEffect
  <2>2. pc = "erase" /\ Target' = Target
    BY <1>3, <2>1 DEF SaveErase, Target
  <2> QED
    BY <1>0, <2>1, <2>2 DEF SaveInvariant
<1>4. CASE SaveProgram
  <2>1. PICK c \in {bank[Target], Torn, candidate} :
           /\ bank' = [bank EXCEPT ![Target] = c]
           /\ pc' \in {"verify", "halt", "idle"}
           /\ pc' = "verify" => c \in {candidate, Blank, Torn}
           /\ UNCHANGED <<candidate, snapshot, activeAddress>>
    BY <1>4, ProgramEffect
  <2>2. pc = "program" /\ Target' = Target
    BY <1>4, <2>1 DEF SaveProgram, Target
  <2> QED
    BY <1>0, <2>1, <2>2 DEF SaveInvariant
<1>5. CASE SaveVerify
  BY <1>5, VerifyEffect DEF SaveInvariant, SaveVerify
<1>6. CASE ChipLeftBusy \/ ChipReady
  BY <1>6 DEF ChipLeftBusy, ChipReady, SaveInvariant, Target
<1>7. CASE PowerLoss
  BY <1>7 DEF PowerLoss, SaveInvariant
<1>8. CASE UNCHANGED vars
  BY <1>8 DEF vars, SaveInvariant, Target
<1> QED
  BY <1>1, <1>2, <1>3, <1>4, <1>5, <1>6, <1>7, <1>8 DEF Next

(* In every behaviour, boot read errors included, the snapshot served from *)
(* RAM is the image in the active bank, provided at most one command of a  *)
(* save meets a busy chip.                                                 *)
THEOREM ServedCorrect ==
  ASSUME MaxIgnored <= 1
  PROVE  Spec => []ServedIsStored
<1>1. Init => ServedIsStored
  BY DEF Init, ServedIsStored, Running
<1>2. TypeOK /\ TypeOK' /\ SaveInvariant /\ ServedIsStored /\ [Next]_vars
        => ServedIsStored'
  <2> SUFFICES ASSUME TypeOK, TypeOK', SaveInvariant, ServedIsStored, [Next]_vars
               PROVE  ServedIsStored'
    OBVIOUS
  <2> USE DEF ServedIsStored, Running
  <2>0. /\ Target \in Banks /\ activeAddress \in Banks /\ Target # activeAddress
        /\ bank \in [Banks -> Contents]
    BY OtherBank DEF Target, TypeOK
  <2>1. CASE Boot
    <3>1. CASE \E b \in Banks : IsValid(bank[b], Version) /\ Load(b)
      BY <2>1, <3>1, BootEffect DEF Load
    <3>2. CASE \E b \in Banks, v \in Versions : IsValid(bank[b], v) /\ LoadOlder(b)
      BY <3>2 DEF LoadOlder
    <3>3. CASE LoadDefault
      BY <3>3 DEF LoadDefault
    <3> QED
      BY <2>1, <3>1, <3>2, <3>3, BootEffect
  <2>2. ASSUME NEW value \in Values, SaveBegin(value) PROVE ServedIsStored'
    BY <2>2 DEF SaveBegin
  <2>3. CASE SaveErase
    <3>1. PICK c \in {bank[Target], Blank, Torn} :
             /\ bank' = [bank EXCEPT ![Target] = c]
             /\ pc' \in {"program", "halt", "idle"}
             /\ pc' = "idle" => ~booting
             /\ pc' = "program" => booting' = booting
             /\ UNCHANGED <<snapshot, activeAddress>>
      BY <2>3, EraseEffect
    <3> QED
      BY <2>0, <2>3, <3>1 DEF SaveErase
  <2>4. CASE SaveProgram
    <3>1. PICK c \in {bank[Target], Torn, candidate} :
             /\ bank' = [bank EXCEPT ![Target] = c]
             /\ pc' \in {"verify", "halt", "idle"}
             /\ pc' = "idle" => ~booting
             /\ pc' = "verify" => booting' = booting
             /\ UNCHANGED <<snapshot, activeAddress>>
      BY <2>4, ProgramEffect
    <3> QED
      BY <2>0, <2>4, <3>1 DEF SaveProgram
  <2>5. CASE SaveVerify
    BY <2>5, VerifyEffect DEF SaveVerify
  <2>6. CASE ChipLeftBusy \/ ChipReady
    BY <2>6 DEF ChipLeftBusy, ChipReady
  <2>7. CASE PowerLoss
    BY <2>7 DEF PowerLoss
  <2>8. CASE UNCHANGED vars
    BY <2>8 DEF vars
  <2> QED
    BY <2>1, <2>2, <2>3, <2>4, <2>5, <2>6, <2>7, <2>8 DEF Next
<1>3. TypeOK /\ TypeOK' /\ SaveInvariant /\ [Next]_vars => SaveInvariant'
  BY SaveInvariantStep
<1> QED
  BY <1>1, <1>2, <1>3, SaveInvariantInit, TypeCorrect, PTL DEF Spec
-------------------------------------------------------------------------------
(* Writing the inactive bank, or power failing while it is written, leaves *)
(* the acknowledged image where it is.                                     *)
LEMMA WriteKeepsDurable ==
  ASSUME TypeOK, HoldsDurable(activeAddress),
         candidate.version = Version,
         candidate.generation = durable.generation + 1,
         NEW c \in {bank[Target], Blank, Torn, candidate},
         bank' = [bank EXCEPT ![Target] = c],
         durable' = durable, activeAddress' = activeAddress
  PROVE  HoldsDurable(activeAddress)'
<1>1. /\ activeAddress \in Banks /\ Target \in Banks /\ Target # activeAddress
      /\ Other(activeAddress) = Target
  BY OtherBank DEF Target, TypeOK
<1>2. bank'[activeAddress] = bank[activeAddress] /\ bank'[Target] = c
  BY <1>1 DEF TypeOK
<1>3. durable.generation \in Nat
  BY DEF TypeOK, Image
<1>4. \/ bank[activeAddress] \in Image /\ Migrated(bank[activeAddress]) = durable
      \/ bank[activeAddress] \notin Image /\ durable = Empty
  BY DEF HoldsDurable
<1>5. c \in Image =>
        \/ /\ c.generation < durable.generation
           /\ bank[activeAddress] \in Image => c.version <= bank[activeAddress].version
        \/ c.generation > durable.generation /\ c.version = Version
  BY <1>1, <1>3, StoreAssumption DEF HoldsDurable
<1> QED
  BY <1>1, <1>2, <1>4, <1>5 DEF HoldsDurable

(* Without read errors, boot adopts the acknowledged image or a newer one  *)
(* and makes its bank the active one; no newer image is left behind.       *)
LEMMA BootAdoptsNewest ==
  ASSUME TypeOK, BootReadFaults = FALSE, NEW b \in Banks, HoldsDurable(b), Boot
  PROVE  /\ HoldsDurable(activeAddress)' /\ snapshot' = durable'
         /\ pc' \notin {"off", "halt"}
         /\ durable' = durable \/ durable'.generation > durable.generation
         /\ durable' = durable \/ \E y \in Banks : bank[y] = durable'
         /\ \A y \in Banks : bank[y] \in Image => bank[y].generation <= durable'.generation
<1> DEFINE o == Other(b)
           found(v) == {x \in Banks : IsValid(bank[x], v)}
<1>1. \/ found(Version) # {} /\ Load(Newest(found(Version)))
      \/ \E v \in 1..(Version - 1) :
           /\ found(v) # {}
           /\ \A w \in (v + 1)..Version : found(w) = {}
           /\ LoadOlder(Newest(found(v)))
      \/ (\A v \in Versions : found(v) = {}) /\ LoadDefault
  <2>1. PICK readable \in [Versions -> SUBSET Banks] :
          LET fnd(v) == {x \in readable[v] : IsValid(bank[x], v)}
          IN /\ readable = [v \in Versions |-> Banks]
             /\ \/ fnd(Version) # {} /\ Load(Newest(fnd(Version)))
                \/ \E v \in 1..(Version - 1) :
                     /\ fnd(v) # {}
                     /\ \A w \in (v + 1)..Version : fnd(w) = {}
                     /\ LoadOlder(Newest(fnd(v)))
                \/ (\A v \in Versions : fnd(v) = {}) /\ LoadDefault
    BY Zenon DEF Boot
  <2>2. \A v \in Versions : {x \in readable[v] : IsValid(bank[x], v)} = found(v)
    BY <2>1
  <2>3. /\ Version \in Versions
        /\ \A v \in 1..(Version - 1) : v \in Versions /\ (v + 1)..Version \subseteq Versions
    BY StoreAssumption DEF Versions
  <2> HIDE DEF found
  <2> QED
    BY <2>1, <2>2, <2>3, Zenon
<1>2. bank' = bank /\ o \in Banks /\ Other(o) = b /\ Banks = {b, o} /\ o # b
  BY OtherBank DEF Boot, Banks, Other
<1>3. \A x \in Banks : bank[x] \in Image =>
         /\ bank[x].version \in Versions /\ bank[x].generation \in Nat
         /\ x \in found(bank[x].version)
         /\ Migrated(bank[x]).generation = bank[x].generation
  BY MigratedImage DEF IsValid, Image
<1>4. \A v : found(v) # {} =>
         /\ Newest(found(v)) \in Banks
         /\ IsValid(bank[Newest(found(v))], v)
         /\ b \in found(v) /\ o \in found(v) /\ bank[o].generation < bank[b].generation
              => Newest(found(v)) = b
         /\ b \in found(v) /\ o \in found(v) /\ bank[b].generation < bank[o].generation
              => Newest(found(v)) = o
  BY <1>2, <1>3 DEF Newest, Banks, Other, IsValid
<1>5. Versions = 1..Version /\ Version \in Nat \ {0} /\ Empty.generation = 0
  BY StoreAssumption DEF Versions, Empty
<1>6. CASE found(Version) # {} /\ Load(Newest(found(Version)))
  <2> DEFINE x == Newest(found(Version))
  <2>1. x \in {b, o} /\ bank[x] \in Image /\ bank[x].version = Version
    <3> HIDE DEF found
    <3> QED
      BY <1>2, <1>4, <1>6 DEF IsValid
  <2>2. Migrated(bank[x]) = bank[x]
    BY <2>1, MigratedImage
  <2>3. x = o => bank[b] \notin Image \/ bank[b].generation < bank[o].generation
    <3> SUFFICES ASSUME x = o, bank[b] \in Image
                 PROVE  bank[b].generation < bank[o].generation
      OBVIOUS
    <3>1. bank[b].generation = durable.generation
      BY <1>3, StoreAssumption DEF HoldsDurable
    <3>2. CASE bank[o].generation < durable.generation
               /\ bank[o].version <= bank[b].version
      <4>1. bank[b].version = Version
        BY <1>3, <1>5, <2>1, <3>2
      <4>2. b \in found(Version) /\ o \in found(Version)
        BY <1>2, <2>1, <4>1 DEF IsValid
      <4> QED
        BY <1>2, <1>4, <1>6, <3>1, <3>2, <4>2
    <3> QED
      BY <2>1, <3>1, <3>2 DEF HoldsDurable
  <2>4. /\ snapshot' = bank[x] /\ durable' = bank[x] /\ activeAddress' = x
        /\ pc' = "idle"
    BY <1>6 DEF Load
  <2>7. x = b /\ bank[o] \in Image => bank[o].generation <= bank[b].generation
    <3> SUFFICES ASSUME x = b, bank[o] \in Image,
                        ~(bank[o].generation <= bank[b].generation)
                 PROVE  FALSE
      OBVIOUS
    <3>1. bank[b].generation < bank[o].generation
      BY <1>2, <1>3, <2>1
    <3>2. bank[b].generation = durable.generation
      BY <1>3, <2>1 DEF HoldsDurable
    <3>3. bank[o].version = Version
      BY <1>2, <1>3, <2>1, <3>1, <3>2 DEF HoldsDurable
    <3>4. b \in found(Version) /\ o \in found(Version)
      BY <1>2, <2>1, <3>3 DEF IsValid
    <3> QED
      BY <1>2, <1>4, <1>6, <3>1, <3>4
  <2> HIDE DEF x, found
  <2>8. \A y \in Banks : bank[y] \in Image => bank[y].generation <= durable'.generation
    BY <1>2, <1>3, <2>1, <2>3, <2>4, <2>7
  <2>9. \E y \in Banks : bank[y] = durable'
    BY <1>2, <2>1, <2>4
  <2>5. CASE x = b
    BY <1>2, <2>1, <2>2, <2>4, <2>5, <2>8, <2>9 DEF HoldsDurable
  <2>6. CASE x = o
    <3>1. HoldsDurable(o)'
      BY <1>2, <1>3, <1>5, <2>1, <2>2, <2>3, <2>4, <2>6 DEF HoldsDurable
    <3>2. durable' = bank[o] /\ bank[o].generation \in Nat
      BY <1>2, <1>3, <2>1, <2>4, <2>6
    <3>3. bank[b] \in Image => durable.generation = bank[b].generation
      BY <1>3 DEF HoldsDurable
    <3>4. durable.generation = 0 \/ durable'.generation > durable.generation
      BY <1>5, <2>3, <2>6, <3>2, <3>3 DEF HoldsDurable
    <3>5. bank[b] \notin Image => bank[o].generation > durable.generation
      BY <1>5, <2>1, <2>6, <3>2 DEF HoldsDurable
    <3> QED
      BY <2>3, <2>4, <2>6, <2>8, <2>9, <3>1, <3>2, <3>3, <3>5 DEF HoldsDurable
  <2> QED
    BY <2>1, <2>5, <2>6
<1>7. ASSUME NEW v \in 1..(Version - 1), found(v) # {},
             \A w \in (v + 1)..Version : found(w) = {},
             LoadOlder(Newest(found(v)))
      PROVE  /\ HoldsDurable(activeAddress)' /\ snapshot' = durable'
             /\ pc' \notin {"off", "halt"}
             /\ durable' = durable
             /\ \A y \in Banks : bank[y] \in Image => bank[y].generation <= durable'.generation
  <2> DEFINE x == Newest(found(v))
  <2>0. v \in Nat /\ v < Version
    BY <1>5
  <2>1. x \in {b, o} /\ bank[x] \in Image /\ bank[x].version = v
    <3> HIDE DEF found
    <3> QED
      BY <1>2, <1>4, <1>7 DEF IsValid
  <2>2. x = b
    <3> SUFFICES ASSUME x = o PROVE FALSE
      BY <2>1
    <3>1. /\ bank[o].generation < durable.generation
          /\ bank[b] \in Image => bank[o].version <= bank[b].version
      BY <1>5, <2>0, <2>1 DEF HoldsDurable
    <3>2. bank[b] \in Image
      <4>1. bank[o].generation \in Nat
        BY <1>2, <1>3, <2>1
      <4>2. bank[b] \notin Image => durable.generation = 0
        BY <1>5 DEF HoldsDurable
      <4> QED
        BY <3>1, <4>1, <4>2
    <3>3. bank[b].generation = durable.generation
      BY <1>3, <3>2 DEF HoldsDurable
    <3>4. bank[b].version = v
      <4>1. bank[b].version \in (v + 1)..Version => FALSE
        BY <1>3, <1>7, <3>2
      <4> QED
        BY <1>3, <1>5, <2>0, <2>1, <3>1, <3>2, <4>1
    <3>5. b \in found(v) /\ o \in found(v)
      BY <1>2, <2>1, <3>2, <3>4 DEF IsValid
    <3> QED
      BY <1>2, <1>4, <1>7, <3>1, <3>3, <3>5
  <2>3. /\ snapshot' = Migrated(bank[b]) /\ durable' = durable /\ activeAddress' = b
        /\ pc' = "erase"
    BY <1>7, <2>2 DEF LoadOlder
  <2>4. bank[b].generation = durable.generation
    BY <1>3, <2>1, <2>2 DEF HoldsDurable
  <2>5. bank[o] \in Image => bank[o].generation <= durable.generation
    <3> SUFFICES ASSUME bank[o] \in Image, ~(bank[o].generation <= durable.generation)
                 PROVE  FALSE
      OBVIOUS
    <3>1. bank[o].version = Version
      BY <1>2, <1>3, <2>1, <2>2, <2>4 DEF HoldsDurable
    <3>2. o \in found(Version) /\ Version \in (v + 1)..Version
      BY <1>2, <1>5, <2>0, <3>1 DEF IsValid
    <3> QED
      BY <1>7, <3>2
  <2>6. \A y \in Banks : bank[y] \in Image => bank[y].generation <= durable'.generation
    BY <1>2, <1>3, <2>3, <2>4, <2>5
  <2> QED
    BY <1>2, <2>1, <2>2, <2>3, <2>6 DEF HoldsDurable, Migrated
<1>8. CASE (\A v \in Versions : found(v) = {}) /\ LoadDefault
  <2>1. bank[b] \notin Image /\ bank[o] \notin Image
    BY <1>2, <1>3, <1>8
  <2>2. durable = Empty
    BY <2>1 DEF HoldsDurable
  <2>3. snapshot' = Empty /\ durable' = Empty /\ activeAddress' = "B"
        /\ pc' \in {"erase", "idle"}
    BY <1>8, <2>2 DEF LoadDefault
  <2> QED
    BY <1>2, <2>1, <2>3 DEF HoldsDurable, Banks, Other
<1> HIDE DEF found
<1> QED
  BY <1>1, <1>6, <1>7, <1>8

(* The position of the acknowledged image is inductive.                    *)
LEMMA StoreInvariantInit == Init => StoreInvariant
<1> SUFFICES ASSUME Init PROVE \E b \in Banks : HoldsDurable(b)
  BY SaveInvariantInit, Zenon DEF StoreInvariant, Init
<1>1. CASE bank = [b \in Banks |-> Blank] /\ durable = Empty
  BY <1>1, StoreAssumption DEF HoldsDurable, Banks, Other
<1>2. ASSUME NEW b \in Banks,
             bank[b] \in Image,
             durable = Migrated(bank[b]),
             \/ bank[Other(b)] = Blank
             \/ /\ bank[Other(b)] \in Image
                /\ bank[Other(b)].version <= bank[b].version
                /\ bank[Other(b)].generation + 1 = bank[b].generation
      PROVE  HoldsDurable(b)
  <2>1. durable.generation = bank[b].generation
    BY <1>2, MigratedImage
  <2>2. bank[Other(b)] \in Image => bank[Other(b)].generation \in Nat
    BY DEF Image
  <2> QED
    BY <1>2, <2>1, <2>2, StoreAssumption DEF HoldsDurable
<1> QED
  BY <1>1, <1>2 DEF Init

(* Every step keeps the acknowledged image in its place.                   *)
LEMMA StoreInvariantStep ==
  ASSUME TypeOK, TypeOK', StoreInvariant, MaxIgnored <= 1,
         BootReadFaults = FALSE, [Next]_vars
  PROVE  StoreInvariant'
<1>0. SaveInvariant /\ SaveInvariant'
  BY SaveInvariantStep DEF StoreInvariant
<1>1. CASE Boot
  <2>1. PICK b \in Banks : HoldsDurable(b)
    BY <1>1 DEF StoreInvariant, Boot
  <2> QED
    BY <1>0, <1>1, <2>1, BootAdoptsNewest, Zenon DEF StoreInvariant
<1>2. ASSUME NEW value \in Values, SaveBegin(value) PROVE StoreInvariant'
  BY <1>0, <1>2 DEF SaveBegin, StoreInvariant, HoldsDurable
<1>3. CASE SaveErase \/ SaveProgram
  <2>1. PICK c \in {bank[Target], Blank, Torn, candidate} :
           /\ bank' = [bank EXCEPT ![Target] = c]
           /\ UNCHANGED <<snapshot, activeAddress, durable>>
    BY <1>0, <1>3, EraseEffect, ProgramEffect
  <2>2. pc \in {"erase", "program"}
    BY <1>3 DEF SaveErase, SaveProgram
  <2>3. HoldsDurable(activeAddress) /\ snapshot = durable
    BY <2>2 DEF StoreInvariant
  <2>4. candidate.version = Version /\ candidate.generation = durable.generation + 1
    BY <1>0, <2>2, <2>3 DEF SaveInvariant
  <2>5. HoldsDurable(activeAddress)'
    BY <2>1, <2>3, <2>4, WriteKeepsDurable, Zenon
  <2>6. activeAddress' \in Banks /\ pc' # "off"
    BY <1>0, <1>3, EraseEffect, ProgramEffect DEF TypeOK
  <2> QED
    BY <1>0, <2>1, <2>3, <2>5, <2>6 DEF StoreInvariant
<1>4. CASE SaveVerify
  <2>1. HoldsDurable(activeAddress) /\ snapshot = durable
    BY <1>4 DEF StoreInvariant, SaveVerify
  <2>2. candidate.version = Version /\ candidate.generation = durable.generation + 1
    BY <1>0, <1>4, <2>1 DEF SaveInvariant, SaveVerify
  <2>3. CASE /\ bank[Target] = candidate
             /\ snapshot' = candidate /\ durable' = candidate
             /\ activeAddress' = Target /\ pc' = "idle" /\ bank' = bank
    <3>1. /\ activeAddress \in Banks /\ Target \in Banks /\ Other(Target) = activeAddress
          /\ candidate \in Image /\ durable \in Image /\ durable.generation \in Nat
      BY OtherBank DEF Target, TypeOK, Image
    <3>2. Migrated(candidate) = candidate
      BY <2>2, <3>1, MigratedImage
    <3>3. bank[activeAddress] \in Image =>
            /\ bank[activeAddress].generation = durable.generation
            /\ bank[activeAddress].version <= Version
      BY <2>1, MigratedImage, StoreAssumption DEF HoldsDurable, Image, Versions
    <3>4. /\ bank'[activeAddress'] = candidate /\ durable' = candidate
          /\ bank'[Other(activeAddress')] = bank[activeAddress]
      BY <2>3, <3>1
    <3>5. HoldsDurable(activeAddress)'
      BY <2>2, <3>1, <3>2, <3>3, <3>4 DEF HoldsDurable
    <3> QED
      BY <1>0, <2>3, <3>5 DEF StoreInvariant
  <2>4. CASE /\ UNCHANGED <<snapshot, activeAddress, durable, bank>>
             /\ pc' \in {"idle", "halt"}
    BY <1>0, <2>1, <2>4 DEF StoreInvariant, HoldsDurable, TypeOK
  <2> QED
    BY <1>0, <1>4, <2>3, <2>4, VerifyEffect
<1>5. CASE ChipLeftBusy \/ ChipReady
  BY <1>0, <1>5 DEF ChipLeftBusy, ChipReady, StoreInvariant, HoldsDurable
<1>6. CASE PowerLoss
  <2>1. durable' = durable /\ pc' = "off" /\ activeAddress \in Banks
    BY <1>6 DEF PowerLoss, TypeOK
  <2>2. CASE bank' = bank
    BY <1>0, <2>1, <2>2 DEF StoreInvariant, HoldsDurable
  <2>3. CASE bank' # bank
    <3>1. pc \in {"erase", "program"}
      BY <1>6, <2>3 DEF PowerLoss
    <3>2. HoldsDurable(activeAddress) /\ snapshot = durable
      BY <3>1 DEF StoreInvariant
    <3>3. candidate.version = Version /\ candidate.generation = durable.generation + 1
      BY <1>0, <3>1, <3>2 DEF SaveInvariant
    <3>4. PICK c \in {bank[Target], Blank, Torn, candidate} :
             bank' = [bank EXCEPT ![Target] = c]
      BY <1>6, <2>3 DEF PowerLoss, EraseCut, ProgramCut, Programmed
    <3> DEFINE a == activeAddress
    <3>5. a \in Banks /\ Target = Other(a) /\ Target \in Banks /\ a # Target
      BY OtherBank DEF Target, TypeOK
    <3>6. bank'[a] = bank[a] /\ bank'[Other(a)] = c
      BY <3>4, <3>5 DEF TypeOK
    <3>7. durable.generation \in Nat
      BY DEF TypeOK, Image
    <3>8. \/ bank'[a] \in Image /\ Migrated(bank'[a]) = durable'
          \/ bank'[a] \notin Image /\ durable' = Empty
      BY <2>1, <3>2, <3>6 DEF HoldsDurable
    <3>9. bank'[Other(a)] \in Image =>
            \/ /\ bank'[Other(a)].generation < durable'.generation
               /\ bank'[a] \in Image => bank'[Other(a)].version <= bank'[a].version
            \/ /\ bank'[Other(a)].generation > durable'.generation
               /\ bank'[Other(a)].version = Version
      BY <2>1, <3>2, <3>3, <3>5, <3>6, <3>7, StoreAssumption DEF HoldsDurable
    <3> HIDE DEF a
    <3>10. \E b \in Banks : HoldsDurable(b)'
      BY <3>5, <3>8, <3>9 DEF HoldsDurable
    <3> QED
      BY <1>0, <2>1, <3>10 DEF StoreInvariant
  <2> QED
    BY <2>2, <2>3
<1>7. CASE UNCHANGED vars
  BY <1>0, <1>7 DEF vars, StoreInvariant, HoldsDurable
<1> QED
  BY <1>1, <1>2, <1>3, <1>4, <1>5, <1>6, <1>7 DEF Next

(* The acknowledged image is always in a bank that no step of a save       *)
(* writes, and while the store runs that bank is the active one (the       *)
(* choice of the inactive bank in the Save functions and of the greatest   *)
(* generation in the Init functions).                                      *)
THEOREM StoreInvariantCorrect ==
  ASSUME MaxIgnored <= 1, BootReadFaults = FALSE
  PROVE  Spec => []StoreInvariant
<1>1. TypeOK /\ TypeOK' /\ StoreInvariant /\ [Next]_vars => StoreInvariant'
  BY StoreInvariantStep, Zenon
<1> QED
  BY <1>1, StoreInvariantInit, TypeCorrect, PTL DEF Spec

(* An acknowledged setting is in one of the two banks at every instant: no *)
(* power cut, flash error or failed save can lose it.                      *)
THEOREM AcknowledgedCorrect ==
  ASSUME MaxIgnored <= 1, BootReadFaults = FALSE
  PROVE  Spec => []AcknowledgedIsStored
<1>1. TypeOK /\ StoreInvariant => AcknowledgedIsStored
  BY DEF TypeOK, StoreInvariant, HoldsDurable, AcknowledgedIsStored
<1> QED
  BY <1>1, StoreInvariantCorrect, TypeCorrect, PTL

(* No start adopts a snapshot older than the last acknowledged one.        *)
THEOREM NeverRollsBackCorrect ==
  ASSUME MaxIgnored <= 1, BootReadFaults = FALSE
  PROVE  Spec => NeverRollsBack
<1>1. TypeOK /\ StoreInvariant /\ [Next]_vars =>
        [pc = "off" /\ pc' # "off" => snapshot'.generation >= durable.generation]_vars
  <2> SUFFICES ASSUME TypeOK, StoreInvariant, Next, pc = "off", pc' # "off"
               PROVE  snapshot'.generation >= durable.generation
    OBVIOUS
  <2>1. Boot
    BY DEF Next, SaveBegin, SaveErase, SaveProgram, SaveVerify, ChipLeftBusy,
           ChipReady, PowerLoss
  <2>2. PICK b \in Banks : HoldsDurable(b)
    BY DEF StoreInvariant
  <2>3. /\ snapshot' = durable'
        /\ durable' = durable \/ durable'.generation > durable.generation
    BY <2>1, <2>2, BootAdoptsNewest, Zenon
  <2>4. durable.generation \in Nat /\ durable' \in Image
    <3>1. TypeOK'
      BY TypeStep
    <3> QED
      BY <3>1 DEF TypeOK, Image
  <2> QED
    BY <2>3, <2>4 DEF Image
<1> QED
  BY <1>1, StoreInvariantCorrect, TypeCorrect, PTL DEF Spec, NeverRollsBack
-------------------------------------------------------------------------------
(* The store implements the durable register. *)

(* A value in limbo, by the bank that holds it.                            *)
LEMMA LimboMember ==
  \A v : v \in Limbo <=>
    /\ v # durable.value
    /\ \E b \in Banks : /\ bank[b] \in Image
                        /\ bank[b].generation > durable.generation
                        /\ Migrated(bank[b]).value = v
BY DEF Limbo

(* What a save writes can add its own value to limbo and nothing else.     *)
LEMMA WriteReachesLimbo ==
  ASSUME TypeOK, candidate.version = Version,
         NEW c \in {bank[Target], Blank, Torn, candidate},
         bank' = [bank EXCEPT ![Target] = c], durable' = durable
  PROVE  Limbo' \subseteq (Limbo \cup {candidate.value}) \ {durable.value}
<1>1. \A b \in Banks : bank'[b] \in {bank[b], Blank, Torn, candidate}
  BY OtherBank DEF TypeOK, Target
<1>2. Migrated(candidate) = candidate
  BY MigratedImage DEF TypeOK
<1> SUFFICES ASSUME NEW v \in Limbo'
             PROVE  v \in (Limbo \cup {candidate.value}) \ {durable.value}
  OBVIOUS
<1>3. PICK b \in Banks : /\ bank'[b] \in Image
                         /\ bank'[b].generation > durable'.generation
                         /\ Migrated(bank'[b]).value = v
  BY DEF Limbo
<1>4. v # durable.value
  BY DEF Limbo
<1>5. bank'[b] \in {bank[b], candidate}
  BY <1>1, <1>3, StoreAssumption
<1>6. CASE bank'[b] = candidate
  BY <1>2, <1>3, <1>4, <1>6
<1>7. CASE bank'[b] = bank[b]
  BY <1>3, <1>4, <1>7, LimboMember
<1> QED
  BY <1>5, <1>6, <1>7

(* Nothing is in limbo when no image is newer than the acknowledged one.   *)
LEMMA LimboEmpties ==
  ASSUME TypeOK', \A b \in Banks : bank'[b] \in Image =>
                                    bank'[b].generation <= durable'.generation
  PROVE  Limbo' = {}
<1>1. \A b \in Banks : bank'[b] \in Image => bank'[b].generation \in Nat
  BY DEF Image
<1>2. durable'.generation \in Nat
  BY DEF TypeOK, Image
<1> QED
  BY <1>1, <1>2 DEF Limbo

(* The save Init makes repeats the acknowledged value, with nothing in     *)
(* limbo: the register does not see it.                                    *)
BootInvariant ==
  booting => /\ pc \in {"erase", "program", "verify"}
             /\ candidate.value = durable.value
             /\ Limbo = {}

(* Boot loads and runs, or prepares a save of what it loaded.              *)
LEMMA BootBranches ==
  ASSUME TypeOK, Boot
  PROVE  \/ pc' = "idle" /\ booting' = booting
         \/ /\ pc' = "erase" /\ booting' = TRUE
            /\ durable' = durable /\ candidate'.value = snapshot'.value
<1>1. \A image \in Image : Successor(image).value = image.value
  BY DEF Successor, Image
<1>2. CASE \E b \in Banks : IsValid(bank[b], Version) /\ Load(b)
  BY <1>2 DEF Load
<1>3. CASE \E b \in Banks, v \in Versions : IsValid(bank[b], v) /\ LoadOlder(b)
  BY <1>1, <1>3, MigratedImage DEF LoadOlder, IsValid
<1>4. CASE LoadDefault
  BY <1>1, <1>4, EmptyImage DEF LoadDefault
<1> QED
  BY <1>2, <1>3, <1>4, BootEffect, Zenon

(* A step of the store is a step of the register or leaves it alone.       *)
LEMMA RegisterStep ==
  ASSUME MaxIgnored <= 1, BootReadFaults = FALSE,
         TypeOK, TypeOK', StoreInvariant, BootInvariant, [Next]_vars
  PROVE  BootInvariant' /\ [Register!RegisterNext]_(Register!rvars)
<1> DEFINE saving == pc \in {"erase", "program", "verify"}
<1>0. /\ SaveInvariant /\ booting \in BOOLEAN
      /\ candidate \in Image /\ candidate.value \in Values /\ candidate.value # NoRequest
      /\ durable.value \in Values
  BY StoreAssumption DEF StoreInvariant, TypeOK, Image, NoRequest
<1>1. CASE Boot
  <2>1. PICK b \in Banks : HoldsDurable(b)
    BY <1>1 DEF StoreInvariant, Boot
  <2>2. /\ snapshot' = durable' /\ bank' = bank
        /\ durable' = durable \/ durable'.generation > durable.generation
        /\ durable' = durable \/ \E y \in Banks : bank[y] = durable'
        /\ \A y \in Banks : bank[y] \in Image => bank[y].generation <= durable'.generation
    BY <1>1, <2>1, BootAdoptsNewest, Zenon DEF Boot
  <2>3. Limbo' = {}
    BY <2>2, LimboEmpties
  <2>4. pc = "off" /\ ~booting
    BY <1>1 DEF Boot, BootInvariant
  <2>5. durable'.value \in {durable.value} \cup Limbo
    <3>1. CASE durable' = durable
      BY <3>1
    <3>2. CASE durable' # durable
      <4>1. PICK y \in Banks : bank[y] = durable'
        BY <2>2, <3>2
      <4>2. durable' \in Image /\ durable'.version = Version
        <5>1. pc' \notin {"off", "halt"}
          BY <1>1, BootBranches, Zenon
        <5>2. SaveInvariant'
          BY <1>0, SaveInvariantStep
        <5> QED
          BY <2>2, <5>1, <5>2 DEF TypeOK, SaveInvariant
      <4>3. Migrated(bank[y]).value = durable'.value
        BY <4>1, <4>2, MigratedImage
      <4> QED
        BY <2>2, <3>2, <4>1, <4>2, <4>3, LimboMember
    <3> QED
      BY <3>1, <3>2
  <2>6. CASE pc' = "idle" /\ booting' = booting
    <3>1. BootInvariant'
      BY <2>4, <2>6 DEF BootInvariant
    <3>2. ~Up /\ Up' /\ Requested' = Requested
      BY <2>4, <2>6 DEF Up, Requested
    <3>3. Register!Start
      BY <2>3, <2>5, <3>2 DEF Register!Start
    <3> QED
      BY <3>1, <3>3 DEF Register!RegisterNext
  <2>7. CASE /\ pc' = "erase" /\ booting' = TRUE
             /\ durable' = durable /\ candidate'.value = snapshot'.value
    <3>1. BootInvariant'
      BY <2>2, <2>3, <2>7 DEF BootInvariant
    <3>2. Limbo = {}
      BY <2>2, <2>3, <2>7 DEF Limbo
    <3>3. Up' = Up /\ Requested' = Requested
      BY <2>4, <2>7 DEF Up, Requested
    <3>4. UNCHANGED Register!rvars
      BY <2>3, <2>7, <3>2, <3>3 DEF Register!rvars
    <3> QED
      BY <3>1, <3>4
  <2> QED
    BY <1>1, <2>6, <2>7, BootBranches, Zenon
<1>2. ASSUME NEW value \in Values, SaveBegin(value)
      PROVE  BootInvariant' /\ Register!RegisterNext
  <2>1. /\ pc = "idle" /\ pc' = "erase" /\ UNCHANGED <<bank, booting, durable>> /\ ~booting
    BY <1>2 DEF SaveBegin, BootInvariant
  <2>2. candidate'.value = value
    BY <1>2, SaveBeginEffect
  <2>3. /\ Up /\ Up' /\ Requested = NoRequest /\ Requested' = value
        /\ Limbo' = Limbo
    BY <2>1, <2>2 DEF Up, Requested, Limbo
  <2>4. Register!Request(value)
    BY <2>1, <2>3 DEF Register!Request
  <2> QED
    BY <2>1, <2>4 DEF BootInvariant, Register!RegisterNext
<1>3. CASE SaveErase \/ SaveProgram
  <2>1. PICK c \in {bank[Target], Blank, Torn, candidate} :
           /\ bank' = [bank EXCEPT ![Target] = c]
           /\ UNCHANGED <<candidate, durable>>
           /\ pc' \in {"program", "verify", "halt", "idle"}
           /\ pc' = "idle" => ~booting
           /\ pc' \in {"program", "verify"} => booting' = booting
    BY <1>0, <1>3, EraseEffect, ProgramEffect
  <2>2. saving /\ candidate.version = Version
    BY <1>0, <1>3 DEF SaveErase, SaveProgram, SaveInvariant
  <2>3. Limbo' \subseteq (Limbo \cup {candidate.value}) \ {durable.value}
    BY <2>1, <2>2, WriteReachesLimbo, Zenon
  <2>4. pc' \in {"halt", "idle"} => booting' = FALSE /\ (pc' = "halt" => booting)
    BY <1>0, <1>3, <2>1, Zenon DEF SaveErase, SaveProgram, Fail
  <2>5. CASE booting
    <3>1. Limbo' = {} /\ Limbo = {} /\ candidate.value = durable.value
      BY <2>3, <2>5 DEF BootInvariant
    <3>2. ~Up /\ ~Up' /\ Requested = NoRequest /\ Requested' = NoRequest
      BY <2>1, <2>4, <2>5, Zenon DEF Up, Requested
    <3>3. BootInvariant'
      BY <2>1, <2>4, <3>1 DEF BootInvariant
    <3>4. UNCHANGED Register!rvars
      BY <1>0, <2>1, <3>1, <3>2 DEF Register!rvars, Up
    <3> QED
      BY <3>3, <3>4
  <2>6. CASE ~booting
    <3>1. booting' = FALSE /\ pc' # "halt"
      BY <1>0, <2>1, <2>4, <2>6
    <3>2. BootInvariant' /\ Up /\ Up' /\ Requested = candidate.value
      BY <2>1, <2>2, <2>6, <3>1 DEF BootInvariant, Up, Requested
    <3>3. Limbo' \in SUBSET (Limbo \cup {Requested}) /\ Requested # NoRequest
      BY <1>0, <2>3, <3>2
    <3>4. CASE pc' = "idle"
      <4>1. Requested' = NoRequest
        BY <3>4 DEF Requested
      <4>2. Register!Refuse
        BY <2>1, <3>2, <3>3, <4>1 DEF Register!Refuse
      <4> QED
        BY <3>2, <4>2 DEF Register!RegisterNext
    <3>5. CASE pc' # "idle"
      <4>1. Requested' = Requested
        BY <2>1, <3>1, <3>2, <3>5 DEF Requested
      <4>2. Register!Settle
        BY <2>1, <3>2, <3>3, <4>1 DEF Register!Settle
      <4> QED
        BY <3>2, <4>2 DEF Register!RegisterNext
    <3> QED
      BY <3>4, <3>5
  <2> QED
    BY <2>5, <2>6
<1>4. CASE SaveVerify
  <2>1. saving /\ pc = "verify" /\ bank' = bank /\ booting' = FALSE
    BY <1>4 DEF SaveVerify, Publish, Fail
  <2>2. BootInvariant'
    BY <2>1 DEF BootInvariant
  <2>3. CASE /\ bank[Target] = candidate
             /\ durable' = candidate /\ pc' = "idle"
    <3>1. HoldsDurable(activeAddress) /\ snapshot = durable
      BY <2>1 DEF StoreInvariant
    <3>2. candidate.generation = durable.generation + 1 /\ durable.generation \in Nat
      BY <1>0, <2>1, <3>1 DEF SaveInvariant, TypeOK, Image
    <3>3. bank[activeAddress] \in Image => bank[activeAddress].generation = durable.generation
      BY <3>1, MigratedImage, StoreAssumption DEF HoldsDurable
    <3>4. \A b \in Banks : b = activeAddress \/ b = Target
      BY DEF Target, Other, Banks, TypeOK
    <3>5. \A b \in Banks : bank'[b] \in Image => bank'[b].generation <= durable'.generation
      BY <2>1, <2>3, <3>2, <3>3, <3>4
    <3>6. Limbo' = {}
      BY <3>5, LimboEmpties
    <3>7. Up' /\ Requested' = NoRequest
      BY <2>1, <2>3 DEF Up, Requested
    <3>8. CASE booting
      <4>1. ~Up /\ Requested = NoRequest /\ durable'.value = durable.value
        BY <2>3, <3>8 DEF Up, Requested, BootInvariant
      <4>2. Register!Start
        BY <3>6, <3>7, <4>1 DEF Register!Start
      <4> QED
        BY <2>2, <4>2 DEF Register!RegisterNext
    <3>9. CASE ~booting
      <4>1. Up /\ Requested = candidate.value
        BY <2>1, <3>9 DEF Up, Requested
      <4>2. Register!Acknowledge
        BY <1>0, <2>3, <3>6, <3>7, <4>1 DEF Register!Acknowledge
      <4> QED
        BY <2>2, <4>2 DEF Register!RegisterNext
    <3> QED
      BY <3>8, <3>9
  <2>4. CASE durable' = durable /\ Fail
    <3>1. Limbo' = Limbo /\ pc' = IF booting THEN "halt" ELSE "idle"
      BY <2>1, <2>4 DEF Limbo, Fail
    <3>2. CASE booting
      <4>1. Up' = Up /\ Requested' = Requested
        BY <2>1, <3>1, <3>2 DEF Up, Requested
      <4>2. UNCHANGED Register!rvars
        BY <2>4, <3>1, <4>1 DEF Register!rvars
      <4> QED
        BY <2>2, <4>2
    <3>3. CASE ~booting
      <4>1. Up /\ Up' /\ Requested = candidate.value /\ Requested' = NoRequest
        BY <2>1, <3>1, <3>3 DEF Up, Requested
      <4>2. Register!Refuse
        BY <1>0, <2>4, <3>1, <4>1 DEF Register!Refuse
      <4> QED
        BY <2>2, <4>2 DEF Register!RegisterNext
    <3> QED
      BY <3>2, <3>3
  <2>5. \/ bank[Target] = candidate /\ durable' = candidate /\ pc' = "idle"
        \/ durable' = durable /\ Fail
    <3>1. \/ Publish(candidate)
          \/ Fail
      BY <1>4 DEF SaveVerify
    <3>2. CASE Fail
      BY <3>2 DEF Fail
    <3>3. CASE Publish(candidate)
      <4>1. activeAddress' = Target /\ Target # activeAddress
        BY <3>3, OtherBank DEF Publish, Target, TypeOK
      <4>2. bank[Target] = candidate
        BY <1>0, <1>4, <4>1, VerifyEffect
      <4> QED
        BY <3>3, <4>2 DEF Publish
    <3> QED
      BY <3>1, <3>2, <3>3
  <2> QED
    BY <2>3, <2>4, <2>5
<1>5. CASE PowerLoss
  <2>1. /\ pc' = "off" /\ booting' = FALSE /\ durable' = durable
        /\ Up' = FALSE /\ Requested' = NoRequest /\ BootInvariant'
    BY <1>5 DEF PowerLoss, Up, Requested, BootInvariant
  <2>2. CASE bank' = bank
    <3>1. Limbo' = Limbo
      BY <2>1, <2>2 DEF Limbo
    <3>2. Register!Stop
      BY <2>1, <3>1 DEF Register!Stop
    <3> QED
      BY <2>1, <3>2 DEF Register!RegisterNext
  <2>3. CASE bank' # bank
    <3>1. pc \in {"erase", "program"}
      BY <1>5, <2>3 DEF PowerLoss
    <3>2. PICK c \in {bank[Target], Blank, Torn, candidate} :
             bank' = [bank EXCEPT ![Target] = c]
      BY <1>5, <2>3 DEF PowerLoss, EraseCut, ProgramCut, Programmed
    <3>3. candidate.version = Version
      BY <1>0, <3>1 DEF SaveInvariant
    <3>4. Limbo' \subseteq (Limbo \cup {candidate.value}) \ {durable.value}
      BY <2>1, <3>2, <3>3, WriteReachesLimbo, Zenon
    <3>5. Limbo' \in SUBSET (Limbo \cup ({Requested} \ {NoRequest}))
      <4>1. CASE booting
        BY <3>4, <4>1 DEF BootInvariant
      <4>2. CASE ~booting
        BY <1>0, <3>1, <3>4, <4>2 DEF Requested
      <4> QED
        BY <4>1, <4>2
    <3>6. Register!Stop
      BY <2>1, <3>5 DEF Register!Stop
    <3> QED
      BY <2>1, <3>6 DEF Register!RegisterNext
  <2> QED
    BY <2>2, <2>3
<1>6. CASE UNCHANGED <<bank, durable, pc, booting, candidate>>
  <2>1. UNCHANGED <<Limbo, Up, Requested>>
    BY <1>6 DEF Limbo, Up, Requested
  <2>2. BootInvariant'
    BY <1>6, <2>1 DEF BootInvariant
  <2>3. UNCHANGED Register!rvars
    BY <1>6, <2>1 DEF Register!rvars
  <2> QED
    BY <2>2, <2>3
<1>7. CASE ChipLeftBusy \/ ChipReady
  BY <1>6, <1>7 DEF ChipLeftBusy, ChipReady
<1>8. CASE UNCHANGED vars
  BY <1>6, <1>8 DEF vars
<1> QED
  BY <1>1, <1>2, <1>3, <1>4, <1>5, <1>7, <1>8 DEF Next

(* The initial states of the store are initial states of the register.     *)
LEMMA RegisterInitial == ASSUME TypeOK, Init PROVE BootInvariant /\ Register!RegisterInit
<1>1. /\ pc = "off" /\ booting = FALSE /\ durable.value \in Values
  BY DEF Init, TypeOK, Image
<1>2. ~Up /\ Requested = NoRequest
  BY <1>1 DEF Up, Requested
<1>3. Limbo = {}
  <2>1. CASE bank = [b \in Banks |-> Blank]
    BY <2>1, StoreAssumption DEF Limbo
  <2>2. CASE bank # [b \in Banks |-> Blank]
    <3>1. PICK b \in Banks :
            /\ bank[b] \in Image
            /\ durable = Migrated(bank[b])
            /\ \/ bank[Other(b)] = Blank
               \/ /\ bank[Other(b)] \in Image
                  /\ bank[Other(b)].generation + 1 = bank[b].generation
      BY <2>2 DEF Init
    <3>2. durable.generation = bank[b].generation
      BY <3>1, MigratedImage
    <3>3. \A x \in Banks : x = b \/ x = Other(b)
      BY DEF Banks, Other
    <3>4. \A x \in Banks : bank[x] \in Image => bank[x].generation \in Nat
      BY DEF Image
    <3>5. \A x \in Banks : bank[x] \in Image => ~(bank[x].generation > durable.generation)
      BY <3>1, <3>2, <3>3, <3>4, StoreAssumption
    <3> QED
      BY <3>5 DEF Limbo
  <2> QED
    BY <2>1, <2>2
<1> QED
  BY <1>1, <1>2, <1>3 DEF BootInvariant, Register!RegisterInit, Up

(* The store implements the durable register: for any number of layout     *)
(* versions and of saves, in whatever step an erase, a program, a          *)
(* read-back or the power fails, its clients see requests that are         *)
(* acknowledged and then survive every start, or refused and then leave    *)
(* the value alone, and a start that adopts nothing but the acknowledged   *)
(* value or that of a save that was cut off or refused (the Save and Init  *)
(* functions of the four stores).                                          *)
THEOREM ImplementsRegisterCorrect ==
  ASSUME MaxIgnored <= 1, BootReadFaults = FALSE
  PROVE  Spec => ImplementsRegister
<1>1. TypeOK /\ Init => BootInvariant /\ Register!RegisterInit
  BY RegisterInitial
<1>2. TypeOK /\ TypeOK' /\ StoreInvariant /\ BootInvariant /\ [Next]_vars
        => BootInvariant' /\ [Register!RegisterNext]_(Register!rvars)
  BY RegisterStep, Zenon
<1> QED
  BY <1>1, <1>2, StoreInvariantCorrect, TypeCorrect, PTL
     DEF Spec, ImplementsRegister, Register!RegisterSpec

-------------------------------------------------------------------------------
(***************************************************************************)
(* The server never presents, stores or loads a certificate without its    *)
(* key, for any set of certificates and keys and any sequence of uploads,  *)
(* restarts and flash errors, boot read errors included.                   *)
(***************************************************************************)

(* The pair on its way to flash is a pair, as those stored are.            *)
AllPaired == PairsMatch /\ Paired(candidate.value)

(* The buffers are empty when the firmware starts, an answer stands only   *)
(* while no save is under way, and a save under way is of the half         *)
(* uploaded last.                                                          *)
Staging ==
  /\ pendingCertificate \in Certificates \cup {Nothing}
  /\ pendingKey \in PrivateKeys \cup {Nothing}
  /\ pc = "off" => staging = <<Nothing, Nothing>>
  /\ response = 200 => pc = "idle"
  /\ pc \in {"erase", "program", "verify"} =>
       upload \in {candidate.value.certificate, candidate.value.key}

CredentialsInvariant ==
  /\ TypeOK
  /\ SaveInvariant
  /\ AllPaired
  /\ Staging
  /\ NothingLeftBehind
  /\ ActivatedServesUpload
-------------------------------------------------------------------------------
(* What a request comes to: the store is left alone, or the save of a pair *)
(* begins.                                                                 *)
Attempt(certificate, key) ==
  LET pair == PairToTry(certificate, key)
      stage == pendingCertificate' = certificate /\ pendingKey' = key
  IN \/ /\ UNCHANGED vars
        /\ response' # 200
        /\ \/ ClearStaging
           \/ /\ stage /\ Nothing \in {certificate, key}
              /\ hasValidSnapshot => ~Paired(pair)
     \/ /\ pair \in Values /\ Paired(pair)
        /\ SaveBegin(pair)
        /\ stage
        /\ response' = 0

LEMMA TryActivateEffect ==
  ASSUME TypeOK,
         NEW certificate \in Certificates \cup {Nothing},
         NEW key \in PrivateKeys \cup {Nothing},
         TryActivate(certificate, key)
  PROVE  Attempt(certificate, key)
<1> DEFINE pair == PairToTry(certificate, key)
           bothStaged == Nothing \notin {certificate, key}
           complete == hasValidSnapshot \/ bothStaged
           stage == pendingCertificate' = certificate /\ pendingKey' = key
<1>1. \/ /\ ~complete \/ (Parses(pair) /\ ~Paired(pair) /\ ~bothStaged)
         /\ stage
         /\ response' = Respond("pending")
         /\ UNCHANGED vars
      \/ /\ ClearStaging
         /\ response' \in {Respond("invalid_data"), Respond("mismatch")}
         /\ UNCHANGED vars
      \/ /\ Paired(pair)
         /\ SaveBegin(pair)
         /\ stage
         /\ response' = 0
  BY DEF TryActivate
<1>2. pair \in Values
  <2>1. snapshot.value \in [certificate : Certificates, key : PrivateKeys]
    BY CredentialsAssumption DEF TypeOK, Image
  <2>2. /\ (IF certificate # Nothing THEN certificate ELSE snapshot.value.certificate)
             \in Certificates
        /\ (IF key # Nothing THEN key ELSE snapshot.value.key) \in PrivateKeys
    BY <2>1
  <2> QED
    BY <2>2, CredentialsAssumption DEF PairToTry
<1>3. /\ Respond("pending") = 202 /\ Respond("invalid_data") = 400
      /\ Respond("mismatch") = 409
  BY DEF Respond
<1> QED
  BY <1>1, <1>2, <1>3 DEF Attempt

(* A request tries the half it carries with the one that is staged.        *)
LEMMA RequestEffect ==
  ASSUME CredentialsInvariant, CertificateRequest \/ PrivateKeyRequest
  PROVE  \E certificate \in Certificates \cup {Nothing}, key \in PrivateKeys \cup {Nothing} :
           /\ Attempt(certificate, key)
           /\ upload' \in {certificate, key} \ {Nothing}
           /\ pc = "idle"
<1>1. /\ pendingCertificate \in Certificates \cup {Nothing}
      /\ pendingKey \in PrivateKeys \cup {Nothing} /\ TypeOK
  BY DEF CredentialsInvariant, Staging
<1>2. CASE CertificateRequest
  <2>1. PICK der \in Certificates : /\ pc = "idle" /\ upload' = der
                                    /\ TryActivate(der, pendingKey)
    BY <1>2 DEF CertificateRequest, StageCertificate
  <2>2. Attempt(der, pendingKey) /\ der # Nothing
    BY <1>1, <2>1, TryActivateEffect, CredentialsAssumption
  <2> QED
    BY <1>1, <2>1, <2>2
<1>3. CASE PrivateKeyRequest
  <2>1. PICK der \in PrivateKeys : /\ pc = "idle" /\ upload' = der
                                   /\ TryActivate(pendingCertificate, der)
    BY <1>3 DEF PrivateKeyRequest, StagePrivateKey
  <2>2. Attempt(pendingCertificate, der) /\ der # Nothing
    BY <1>1, <2>1, TryActivateEffect, CredentialsAssumption
  <2> QED
    BY <1>1, <2>1, <2>2
<1> QED
  BY <1>2, <1>3

(* Every step of the credentials is one of their store, or leaves it alone. *)
LEMMA CredentialsStoreStep ==
  ASSUME CredentialsInvariant, [CredentialsNext]_credentialVars
  PROVE  [Next]_vars
<1>1. CASE CertificateRequest \/ PrivateKeyRequest
  BY <1>1, RequestEffect DEF Attempt, Next
<1>2. CASE SaveStep \/ Surroundings \/ Reset
  BY <1>2 DEF SaveStep, Surroundings, Reset, Next
<1>3. CASE UNCHANGED credentialVars
  BY <1>3 DEF credentialVars
<1> QED
  BY <1>1, <1>2, <1>3 DEF CredentialsNext
(* With one layout version and no default to save, boot loads and runs.    *)
LEMMA BootLoads ==
  ASSUME TypeOK, Boot
  PROVE  /\ \/ \E b \in Banks : IsValid(bank[b], Version) /\ Load(b)
            \/ LoadDefault
         /\ pc' = "idle"
<1>1. 1..(Version - 1) = {}
  BY CredentialsAssumption
<1>2. PICK readable \in [Versions -> SUBSET Banks] :
        LET found(v) == {b \in readable[v] : IsValid(bank[b], v)}
        IN \/ found(Version) # {} /\ Load(Newest(found(Version)))
           \/ LoadDefault
  BY <1>1, Zenon DEF Boot
<1> DEFINE found == {b \in readable[Version] : IsValid(bank[b], Version)}
<1>3. found \in SUBSET Banks
  BY StoreAssumption DEF Versions
<1>4. CASE found # {} /\ Load(Newest(found))
  <2> HIDE DEF found
  <2>1. Newest(found) \in found
    BY <1>3, <1>4, NewestBank
  <2>2. Newest(found) \in Banks /\ IsValid(bank[Newest(found)], Version)
    BY <1>3, <2>1 DEF found
  <2> QED
    BY <1>4, <2>2 DEF Load
<1>5. CASE LoadDefault
  BY <1>5, CredentialsAssumption DEF LoadDefault
<1> QED
  BY <1>2, <1>4, <1>5
-------------------------------------------------------------------------------
(* Nothing but pairs is published or written.                              *)
LEMMA AllPairedStep ==
  ASSUME CredentialsInvariant, MaxIgnored <= 1, [CredentialsNext]_credentialVars
  PROVE  AllPaired'
<1>0. /\ TypeOK /\ SaveInvariant /\ Paired(snapshot.value) /\ Paired(candidate.value)
      /\ \A b \in Banks : bank[b] \in Image => Paired(bank[b].value)
      /\ Paired(Empty.value) /\ Target \in Banks /\ bank \in [Banks -> Contents]
  BY CredentialsAssumption, OtherBank
     DEF CredentialsInvariant, AllPaired, PairsMatch, Empty, Target, TypeOK
<1>1. ASSUME NEW c \in {bank[Target], Blank, Torn, candidate},
             bank' = [bank EXCEPT ![Target] = c]
      PROVE  \A b \in Banks : bank'[b] \in Image => Paired(bank'[b].value)
  <2>1. \A b \in Banks : bank'[b] \in {bank[b], Blank, Torn, candidate}
    BY <1>0, <1>1
  <2> QED
    BY <1>0, <2>1, StoreAssumption
<1>2. CASE CertificateRequest \/ PrivateKeyRequest
  <2>1. PICK certificate \in Certificates \cup {Nothing}, key \in PrivateKeys \cup {Nothing} :
          Attempt(certificate, key)
    BY <1>2, RequestEffect
  <2> DEFINE pair == PairToTry(certificate, key)
  <2>2. CASE UNCHANGED vars
    BY <1>0, <2>2 DEF vars, AllPaired, PairsMatch
  <2>3. CASE pair \in Values /\ Paired(pair) /\ SaveBegin(pair)
    <3>1. candidate'.value = pair /\ bank' = bank /\ snapshot' = snapshot
      BY <1>0, <2>3, SaveBeginEffect, Zenon
    <3> HIDE DEF pair
    <3> QED
      BY <1>0, <2>3, <3>1 DEF AllPaired, PairsMatch
  <2> QED
    BY <2>1, <2>2, <2>3 DEF Attempt
<1>3. CASE SaveErase
  <2>1. PICK c \in {bank[Target], Blank, Torn} :
          bank' = [bank EXCEPT ![Target] = c] /\ UNCHANGED <<candidate, snapshot>>
    BY <1>0, <1>3, EraseEffect
  <2> QED
    BY <1>0, <1>1, <2>1, Zenon DEF AllPaired, PairsMatch
<1>4. CASE SaveProgram
  <2>1. PICK c \in {bank[Target], Torn, candidate} :
          bank' = [bank EXCEPT ![Target] = c] /\ UNCHANGED <<candidate, snapshot>>
    BY <1>0, <1>4, ProgramEffect
  <2> QED
    BY <1>0, <1>1, <2>1, Zenon DEF AllPaired, PairsMatch
<1>5. CASE SaveVerify
  BY <1>0, <1>5, VerifyEffect DEF AllPaired, PairsMatch
<1>6. CASE Boot
  <2>1. bank' = bank
    BY <1>6 DEF Boot
  <2>2. CASE \E b \in Banks : IsValid(bank[b], Version) /\ Load(b)
    BY <1>0, <2>1, <2>2 DEF IsValid, Load, AllPaired, PairsMatch
  <2>3. CASE LoadDefault
    BY <1>0, <2>1, <2>3, CredentialsAssumption DEF LoadDefault, AllPaired, PairsMatch
  <2> QED
    BY <1>0, <1>6, <2>2, <2>3, BootLoads
<1>7. CASE ChipLeftBusy \/ ChipReady
  BY <1>0, <1>7 DEF ChipLeftBusy, ChipReady, AllPaired, PairsMatch
<1>8. CASE PowerLoss
  <2>1. snapshot' = Empty /\ candidate' = Empty
    BY <1>8 DEF PowerLoss
  <2>2. \/ bank' = bank
        \/ \E c \in {bank[Target], Blank, Torn, candidate} : bank' = [bank EXCEPT ![Target] = c]
    BY <1>8 DEF PowerLoss, EraseCut, ProgramCut, Programmed
  <2> QED
    BY <1>0, <1>1, <2>1, <2>2 DEF AllPaired, PairsMatch
<1>9. CASE UNCHANGED credentialVars
  BY <1>0, <1>9 DEF credentialVars, vars, AllPaired, PairsMatch
<1> QED
  BY <1>2, <1>3, <1>4, <1>5, <1>6, <1>7, <1>8, <1>9
     DEF CredentialsNext, SaveStep, Surroundings, Reset

(* A save that ends without publishing its candidate is answered with an   *)
(* error, one that publishes it leaves it in the active bank.              *)
LEMMA SaveStepEffect ==
  ASSUME TypeOK, SaveInvariant, MaxIgnored <= 1, SaveStep
  PROVE  /\ pc \in {"erase", "program", "verify"}
         /\ pc' \in {"program", "verify", "halt", "idle"} /\ candidate' = candidate
         /\ upload' = upload
         /\ \/ pc' # "idle" /\ UNCHANGED <<staging, response>>
            \/ /\ pc' = "idle" /\ ClearStaging /\ response' = 500
            \/ /\ pc' = "idle" /\ ClearStaging /\ response' = 200
               /\ snapshot' = candidate /\ bank'[activeAddress'] = snapshot'
<1>1. /\ pc \in {"erase", "program", "verify"}
      /\ candidate' = candidate /\ upload' = upload
  BY DEF SaveStep, SaveErase, SaveProgram, SaveVerify
<1>2. snapshot # candidate
  <2>1. candidate.generation = snapshot.generation + 1 /\ snapshot.generation \in Nat
    BY <1>1 DEF SaveInvariant, TypeOK, Image
  <2> QED
    BY <2>1
<1>3. /\ pc' \in {"program", "verify", "halt", "idle"}
      /\ \/ snapshot' = snapshot
         \/ snapshot' = candidate /\ bank'[activeAddress'] = snapshot'
  <2>1. CASE SaveErase
    BY <2>1, EraseEffect
  <2>2. CASE SaveProgram
    BY <2>2, ProgramEffect
  <2>3. CASE SaveVerify
    BY <2>3, VerifyEffect
  <2> QED
    BY <2>1, <2>2, <2>3 DEF SaveStep
<1>4. Respond("activated") = 200 /\ Respond("storage_error") = 500
  BY DEF Respond
<1>5. CASE pc' # "idle"
  <2>1. UNCHANGED <<staging, response>>
    BY <1>5 DEF SaveStep
  <2> QED
    BY <1>1, <1>3, <1>5, <2>1, Zenon
<1>6. CASE pc' = "idle"
  <2>1. /\ ClearStaging
        /\ response' = Respond(IF snapshot' = candidate THEN "activated" ELSE "storage_error")
    BY <1>6 DEF SaveStep
  <2>2. CASE snapshot' = candidate
    <3>1. response' = 200 /\ bank'[activeAddress'] = snapshot'
      BY <1>2, <1>3, <1>4, <2>1, <2>2
    <3> QED
      BY <1>1, <1>3, <1>6, <2>1, <2>2, <3>1, Zenon
  <2>3. CASE snapshot' # candidate
    <3>1. response' = 500
      BY <1>4, <2>1, <2>3
    <3> QED
      BY <1>1, <1>3, <1>6, <2>1, <3>1, Zenon
  <2> QED
    BY <2>2, <2>3
<1> QED
  BY <1>5, <1>6

LEMMA StagingStep ==
  ASSUME CredentialsInvariant, MaxIgnored <= 1, [CredentialsNext]_credentialVars
  PROVE  Staging' /\ NothingLeftBehind' /\ ActivatedServesUpload'
<1>0. /\ TypeOK /\ SaveInvariant /\ Staging /\ NothingLeftBehind /\ ActivatedServesUpload
      /\ Nothing \notin Certificates /\ Nothing \notin PrivateKeys
  BY CredentialsAssumption DEF CredentialsInvariant
<1>1. CASE CertificateRequest \/ PrivateKeyRequest
  <2>1. PICK certificate \in Certificates \cup {Nothing}, key \in PrivateKeys \cup {Nothing} :
          /\ Attempt(certificate, key)
          /\ upload' \in {certificate, key} \ {Nothing}
          /\ pc = "idle"
    BY <1>1, RequestEffect
  <2> DEFINE pair == PairToTry(certificate, key)
             stage == pendingCertificate' = certificate /\ pendingKey' = key
  <2>2. CASE UNCHANGED vars /\ response' # 200 /\ ClearStaging
    <3>1. pc' = "idle" /\ pendingCertificate' = Nothing /\ pendingKey' = Nothing
      BY <2>1, <2>2 DEF vars, ClearStaging, staging
    <3>2. staging' = <<Nothing, Nothing>>
      BY <3>1 DEF staging
    <3>3. Staging'
      BY <2>2, <3>1 DEF Staging
    <3>4. NothingLeftBehind'
      BY <3>1, <3>2 DEF NothingLeftBehind
    <3>5. ActivatedServesUpload'
      BY <2>2 DEF ActivatedServesUpload
    <3> QED
      BY <3>3, <3>4, <3>5
  <2>3. CASE /\ UNCHANGED vars /\ response' # 200
             /\ stage /\ Nothing \in {certificate, key}
             /\ hasValidSnapshot => ~Paired(pair)
    <3>1. /\ pc' = "idle" /\ snapshot' = snapshot
          /\ pendingCertificate' = certificate /\ pendingKey' = key
      BY <2>1, <2>3 DEF vars
    <3>2. Staging'
      BY <2>1, <2>3, <3>1 DEF Staging
    <3>3. hasValidSnapshot' = hasValidSnapshot
      BY <3>1 DEF hasValidSnapshot
    <3>4. PairToTry(pendingCertificate, pendingKey)' = pair
      BY <3>1 DEF PairToTry
    <3> HIDE DEF pair, stage
    <3>5. Paired(PairToTry(pendingCertificate, pendingKey))' = Paired(pair)
      BY <3>4 DEF Paired
    <3>6. NothingLeftBehind'
      BY <2>3, <3>1, <3>3, <3>5 DEF NothingLeftBehind
    <3>7. ActivatedServesUpload'
      BY <2>3 DEF ActivatedServesUpload
    <3> QED
      BY <3>2, <3>6, <3>7
  <2>4. CASE pair \in Values /\ Paired(pair) /\ SaveBegin(pair) /\ stage /\ response' = 0
    <3>1. candidate'.value = pair /\ pc' = "erase"
      BY <1>0, <2>4, SaveBeginEffect, Zenon
    <3>2. upload' \in {pair.certificate, pair.key}
      BY <2>1 DEF PairToTry
    <3>3. pendingCertificate' = certificate /\ pendingKey' = key /\ response' = 0
      BY <2>4
    <3> HIDE DEF pair, stage
    <3>4. Staging'
      BY <2>1, <3>1, <3>2, <3>3 DEF Staging
    <3>5. NothingLeftBehind'
      BY <3>1 DEF NothingLeftBehind
    <3>6. ActivatedServesUpload'
      BY <3>3 DEF ActivatedServesUpload
    <3> QED
      BY <3>4, <3>5, <3>6
  <2> QED
    BY <2>1, <2>2, <2>3, <2>4 DEF Attempt
<1>2. CASE SaveStep
  <2> DEFINE ends == \/ pc' # "idle" /\ UNCHANGED <<staging, response>>
                     \/ /\ pc' = "idle" /\ ClearStaging /\ response' = 500
                     \/ /\ pc' = "idle" /\ ClearStaging /\ response' = 200
                        /\ snapshot' = candidate /\ bank'[activeAddress'] = snapshot'
  <2>1. /\ pc \in {"erase", "program", "verify"}
        /\ pc' \in {"program", "verify", "halt", "idle"}
        /\ candidate' = candidate /\ upload' = upload /\ ends
    BY <1>0, <1>2, SaveStepEffect
  <2>2. /\ response # 200
        /\ upload \in {candidate.value.certificate, candidate.value.key}
    BY <1>0, <2>1 DEF Staging
  <2>3. CASE pc' # "idle" /\ UNCHANGED <<staging, response>>
    BY <1>0, <2>1, <2>2, <2>3 DEF staging, Staging, NothingLeftBehind, ActivatedServesUpload
  <2>4. CASE pc' = "idle" /\ ClearStaging
    <3>1. Staging' /\ NothingLeftBehind'
      BY <2>1, <2>4 DEF ClearStaging, staging, Staging, NothingLeftBehind
    <3>2. ActivatedServesUpload'
      BY <2>1, <2>2, <2>4 DEF ActivatedServesUpload
    <3> QED
      BY <3>1, <3>2
  <2> QED
    BY <2>1, <2>3, <2>4
<1>3. CASE Surroundings
  <2>1. UNCHANGED <<staging, response, upload>>
    BY <1>3 DEF Surroundings
  <2>2. CASE Boot
    <3>1. /\ pc = "off" /\ staging = <<Nothing, Nothing>> /\ response # 200
          /\ pc' = "idle"
      <4>1. pc = "off" /\ staging = <<Nothing, Nothing>> /\ response # 200
        BY <1>0, <2>2 DEF Boot, Staging
      <4>2. pc' = "idle"
        BY <1>0, <2>2, BootLoads
      <4> QED
        BY <4>1, <4>2
    <3> QED
      BY <1>0, <2>1, <3>1 DEF staging, Staging, NothingLeftBehind, ActivatedServesUpload
  <2>3. CASE ChipLeftBusy \/ ChipReady
    <3>1. UNCHANGED <<bank, snapshot, activeAddress, candidate, pc>>
      BY <2>3 DEF ChipLeftBusy, ChipReady
    <3> QED
      BY <1>0, <2>1, <3>1 DEF staging, Staging, NothingLeftBehind, ActivatedServesUpload,
         PairToTry, hasValidSnapshot
  <2> QED
    BY <1>3, <2>2, <2>3 DEF Surroundings
<1>4. CASE Reset
  BY <1>4 DEF Reset, PowerLoss, ClearStaging, staging, Staging, NothingLeftBehind,
     ActivatedServesUpload
<1>5. CASE UNCHANGED credentialVars
  BY <1>0, <1>5 DEF credentialVars, vars, staging, Staging, NothingLeftBehind,
     ActivatedServesUpload, PairToTry, hasValidSnapshot
<1> QED
  BY <1>1, <1>2, <1>3, <1>4, <1>5 DEF CredentialsNext
-------------------------------------------------------------------------------
(* Theorems. *)

LEMMA CredentialsInitial == TypeOK /\ CredentialsInit => CredentialsInvariant
<1> SUFFICES ASSUME TypeOK, CredentialsInit
             PROVE  CredentialsInvariant
  OBVIOUS
<1>1. SaveInvariant
  BY SaveInvariantInit DEF CredentialsInit
<1>2. AllPaired
  BY CredentialsAssumption DEF CredentialsInit, Init, Empty, AllPaired, PairsMatch
<1>3. Staging /\ NothingLeftBehind /\ ActivatedServesUpload
  BY DEF CredentialsInit, Init, staging, Staging, NothingLeftBehind, ActivatedServesUpload
<1> QED
  BY <1>1, <1>2, <1>3 DEF CredentialsInvariant

LEMMA CredentialsInvariantCorrect ==
  ASSUME MaxIgnored <= 1
  PROVE  CredentialsSpec => []CredentialsInvariant
<1>1. CredentialsInit => CredentialsInvariant
  BY CredentialsInitial, InitialTypes DEF CredentialsInit
<1>2. CredentialsInvariant /\ [CredentialsNext]_credentialVars => CredentialsInvariant'
  <2> SUFFICES ASSUME CredentialsInvariant, [CredentialsNext]_credentialVars
               PROVE  CredentialsInvariant'
    OBVIOUS
  <2>1. [Next]_vars
    BY CredentialsStoreStep
  <2>2. TypeOK'
    BY <2>1, TypeStep DEF CredentialsInvariant
  <2>3. SaveInvariant'
    BY <2>1, <2>2, SaveInvariantStep DEF CredentialsInvariant
  <2> QED
    BY <2>2, <2>3, AllPairedStep, StagingStep DEF CredentialsInvariant
<1> QED
  BY <1>1, <1>2, PTL DEF CredentialsSpec

(* The certificate and the key the server presents, and those in either    *)
(* bank, belong together at every instant, whatever was uploaded and       *)
(* wherever tlsServerCredentials_TryActivate was cut off.                  *)
THEOREM PairsAlwaysMatch ==
  ASSUME MaxIgnored <= 1
  PROVE  CredentialsSpec => []PairsMatch
<1>1. CredentialsInvariant => PairsMatch
  BY DEF CredentialsInvariant, AllPaired
<1> QED
  BY <1>1, CredentialsInvariantCorrect, PTL

(* No half is left in a staging buffer that pairs with what is stored, and *)
(* the two buffers are never both full.                                    *)
THEOREM UploadsAreSettled ==
  ASSUME MaxIgnored <= 1
  PROVE  CredentialsSpec => []NothingLeftBehind
<1>1. CredentialsInvariant => NothingLeftBehind
  BY DEF CredentialsInvariant
<1> QED
  BY <1>1, CredentialsInvariantCorrect, PTL

(* While the answer to an upload is 200, its half is served and stored.    *)
THEOREM ActivatedIsServed ==
  ASSUME MaxIgnored <= 1
  PROVE  CredentialsSpec => []ActivatedServesUpload
<1>1. CredentialsInvariant => ActivatedServesUpload
  BY DEF CredentialsInvariant
<1> QED
  BY <1>1, CredentialsInvariantCorrect, PTL

(* The staging of uploads on top of it does not break the store's promise: *)
(* the stored pair is a durable register too.                              *)
THEOREM CredentialsImplementRegister ==
  ASSUME MaxIgnored <= 1, BootReadFaults = FALSE
  PROVE  CredentialsSpec => ImplementsRegister
<1>1. CredentialsInit => Init
  BY DEF CredentialsInit
<1>2. CredentialsInvariant /\ [CredentialsNext]_credentialVars => [Next]_vars
  BY CredentialsStoreStep
<1>3. CredentialsSpec => Spec
  BY <1>1, <1>2, CredentialsInvariantCorrect, PTL DEF CredentialsSpec, Spec
<1> QED
  BY <1>3, ImplementsRegisterCorrect, PTL
=============================================================================
