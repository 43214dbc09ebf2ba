----------------------------- MODULE EthernetRings -----------------------------
(***************************************************************************)
(* The descriptor rings between the Ethernet MAC's DMA engine and the      *)
(* firmware (Core/Src/ethernet_ll.c, Core/Src/network_interface.c).        *)
(*                                                                         *)
(* A descriptor belongs to one side at a time: its OWN bit says "dma" or   *)
(* "cpu".  On the receive ring the DMA fills descriptors and the network   *)
(* task empties them; on the transmit ring whichever task holds lwIP's     *)
(* core lock fills them and the DMA empties them.  Each side keeps its own *)
(* index and never looks at the other's.  A side that finds the next       *)
(* descriptor not its own stops: the firmware returns, the DMA suspends    *)
(* until a poll demand.                                                    *)
(*                                                                         *)
(* A frame is the number it got when it was put into a ring, counted per   *)
(* ring from 1, so that loss, repetition and reordering are visible.  A    *)
(* frame that finds the receive ring full gets no number.                  *)
(***************************************************************************)
EXTENDS Integers

CONSTANTS
  N,         \* ETHERNET_RX_DESCRIPTOR_COUNT, ETHERNET_TX_DESCRIPTOR_COUNT (8)
  MaxFrames  \* frames through each ring in one behaviour

ASSUME RingAssumption ==
  /\ N \in Nat \ {0}
  /\ MaxFrames \in Nat

VARIABLES
  rxOwner,    \* the OWN bit of each receive descriptor
  rxBuffer,   \* the frame in each receive buffer; 0 before the first
  rxError,    \* the receive status: "good", or to be discarded
  rxDma,      \* the descriptor the DMA uses next
  rxIndex,    \* receiveDescriptorIndex
  rxEngine,   \* the DMA: "running", "writing" a frame, "suspended"
  task,       \* the network task in NetworkInterface_ProcessInput
  stored,     \* frames put into the receive ring
  taken,      \* the last frame the task took from the ring
  txOwner, txBuffer, txDma,
  txIndex,    \* transmitDescriptorIndex
  txEngine,
  sender,     \* the task that holds the core lock, in EthernetMac_Transmit
  accepted,   \* frames Transmit took over
  sent        \* the last frame on the wire

rxVars == <<rxOwner, rxBuffer, rxError, rxDma, rxIndex, rxEngine, task,
            stored, taken>>
txVars == <<txOwner, txBuffer, txDma, txIndex, txEngine, sender, accepted,
            sent>>
ringVars == <<rxVars, txVars>>

Indices == 0..(N - 1)

(* (i + 1) % N for a descriptor i.                                         *)
NextIndex(i) == IF i = N - 1 THEN 0 ELSE i + 1

(* EthernetMac_Init.                                                       *)
RingInit ==
  /\ rxOwner = [i \in Indices |-> "dma"]
  /\ rxBuffer = [i \in Indices |-> 0]
  /\ rxError = [i \in Indices |-> "good"]
  /\ rxDma = 0
  /\ rxIndex = 0
  /\ rxEngine = "running"
  /\ task = "asleep"
  /\ stored = 0
  /\ taken = 0
  /\ txOwner = [i \in Indices |-> "cpu"]
  /\ txBuffer = [i \in Indices |-> 0]
  /\ txDma = 0
  /\ txIndex = 0
  /\ txEngine = "running"
  /\ sender = "none"
  /\ accepted = 0
  /\ sent = 0

-----------------------------------------------------------------------------
(* Receiving: the DMA engine.                                              *)

(* A frame arrives.  Without a descriptor of its own the DMA sets RBUS,    *)
(* suspends and the frame is lost.                                         *)
FrameArrives ==
  /\ rxEngine = "running"
  /\ stored < MaxFrames
  /\ rxEngine' = IF rxOwner[rxDma] = "dma" THEN "writing" ELSE "suspended"
  /\ UNCHANGED <<rxOwner, rxBuffer, rxError, rxDma, rxIndex, task, stored,
                 taken, txVars>>

(* The frame, good or not, is in the buffer: status, OWN, next descriptor. *)
FrameStored ==
  /\ rxEngine = "writing"
  /\ rxBuffer' = [rxBuffer EXCEPT ![rxDma] = stored + 1]
  /\ \E e \in {"good", "error"} : rxError' = [rxError EXCEPT ![rxDma] = e]
  /\ rxOwner' = [rxOwner EXCEPT ![rxDma] = "cpu"]
  /\ rxDma' = NextIndex(rxDma)
  /\ stored' = stored + 1
  /\ rxEngine' = "running"
  /\ UNCHANGED <<rxIndex, task, taken, txVars>>

(* Receiving: the network task, every NETWORK_POLL_PERIOD_MS.              *)
PollBegins ==
  /\ task = "asleep"
  /\ task' = "polling"
  /\ UNCHANGED <<rxOwner, rxBuffer, rxError, rxDma, rxIndex, rxEngine, stored,
                 taken, txVars>>

(* Seeded fault: a frame is looked for without a look at its owner.        *)
GetReceivedFrameUnowned ==
  /\ task = "polling"
  /\ task' = IF rxBuffer[rxIndex] = 0 THEN "asleep" ELSE "copying"
  /\ UNCHANGED <<rxOwner, rxBuffer, rxError, rxDma, rxIndex, rxEngine, stored,
                 taken, txVars>>

(* EthernetMac_GetReceivedFrame: no frame, a frame to copy, or one to      *)
(* discard.                                                                *)
GetReceivedFrame ==
  /\ task = "polling"
  /\ task' = CASE rxOwner[rxIndex] = "dma" -> "asleep"
               [] rxOwner[rxIndex] = "cpu" /\ rxError[rxIndex] = "good" ->
                    "copying"
               [] rxOwner[rxIndex] = "cpu" /\ rxError[rxIndex] # "good" ->
                    "discarding"
  /\ UNCHANGED <<rxOwner, rxBuffer, rxError, rxDma, rxIndex, rxEngine, stored,
                 taken, txVars>>

(* The frame is copied into a pbuf and handed to tcpip_input, or dropped   *)
(* for want of a pbuf or of room in the mailbox.  Either way it is dealt   *)
(* with and its descriptor goes back.                                      *)
TakeFrame ==
  /\ task \in {"copying", "discarding"}
  /\ taken' = rxBuffer[rxIndex]
  /\ task' = "releasing"
  /\ UNCHANGED <<rxOwner, rxBuffer, rxError, rxDma, rxIndex, rxEngine, stored,
                 txVars>>

(* EthernetMac_ReleaseReceivedFrame: OWN first, then the poll demand.      *)
ReleaseReceivedFrame ==
  /\ task = "releasing"
  /\ rxOwner' = [rxOwner EXCEPT ![rxIndex] = "dma"]
  /\ rxIndex' = NextIndex(rxIndex)
  /\ task' = "demanding"
  /\ UNCHANGED <<rxBuffer, rxError, rxDma, rxEngine, stored, taken, txVars>>

(* Seeded fault: RBUS is cleared but no poll demand is issued.             *)
ReceiveNoDemand ==
  /\ task = "demanding"
  /\ task' = "polling"
  /\ UNCHANGED <<rxOwner, rxBuffer, rxError, rxDma, rxIndex, rxEngine, stored,
                 taken, txVars>>

ReceivePollDemand ==
  /\ task = "demanding"
  /\ rxEngine' = IF rxEngine = "suspended" THEN "running" ELSE rxEngine
  /\ task' = "polling"
  /\ UNCHANGED <<rxOwner, rxBuffer, rxError, rxDma, rxIndex, stored, taken,
                 txVars>>

-----------------------------------------------------------------------------
(* Transmitting: EthernetMac_Transmit under the core lock.                 *)

(* Seeded fault: the buffer is filled whoever owns it.                     *)
TransmitCopyUnowned ==
  /\ sender = "none"
  /\ accepted < MaxFrames
  /\ txBuffer' = [txBuffer EXCEPT ![txIndex] = accepted + 1]
  /\ sender' = "copied"
  /\ UNCHANGED <<rxVars, txOwner, txDma, txIndex, txEngine, accepted, sent>>

(* A descriptor that is still the DMA's makes Transmit return              *)
(* TRANSMIT_BUSY, which changes nothing.                                   *)
TransmitCopy ==
  /\ sender = "none"
  /\ accepted < MaxFrames
  /\ txOwner[txIndex] = "cpu"
  /\ txBuffer' = [txBuffer EXCEPT ![txIndex] = accepted + 1]
  /\ sender' = "copied"
  /\ UNCHANGED <<rxVars, txOwner, txDma, txIndex, txEngine, accepted, sent>>

(* Behind the barrier: OWN, next descriptor.                               *)
TransmitOwn ==
  /\ sender = "copied"
  /\ txOwner' = [txOwner EXCEPT ![txIndex] = "dma"]
  /\ txIndex' = NextIndex(txIndex)
  /\ accepted' = accepted + 1
  /\ sender' = "demanding"
  /\ UNCHANGED <<rxVars, txBuffer, txDma, txEngine, sent>>

(* TBUS is cleared and the poll demand register written.                   *)
TransmitPollDemand ==
  /\ sender = "demanding"
  /\ txEngine' = "running"
  /\ sender' = "none"
  /\ UNCHANGED <<rxVars, txOwner, txBuffer, txDma, txIndex, accepted, sent>>

(* The transmit DMA sends the next frame, or sets TBUS and suspends.       *)
SendFrame ==
  /\ txEngine = "running"
  /\ txOwner[txDma] = "dma"
  /\ sent' = txBuffer[txDma]
  /\ txOwner' = [txOwner EXCEPT ![txDma] = "cpu"]
  /\ txDma' = NextIndex(txDma)
  /\ UNCHANGED <<rxVars, txBuffer, txIndex, txEngine, sender, accepted>>

SendSuspends ==
  /\ txEngine = "running"
  /\ txOwner[txDma] = "cpu"
  /\ txEngine' = "suspended"
  /\ UNCHANGED <<rxVars, txOwner, txBuffer, txDma, txIndex, sender, accepted,
                 sent>>

-----------------------------------------------------------------------------
NetworkTask ==
  \/ PollBegins \/ GetReceivedFrame \/ TakeFrame
  \/ ReleaseReceivedFrame \/ ReceivePollDemand

RingNext ==
  \/ FrameArrives \/ FrameStored
  \/ NetworkTask
  \/ TransmitCopy \/ TransmitOwn \/ TransmitPollDemand
  \/ SendFrame \/ SendSuspends

RingSpec == RingInit /\ [][RingNext]_ringVars

(* The network task and the sender run on, and the DMA finishes what it    *)
(* began; no frame need arrive and nobody need send.                       *)
RingFairSpec ==
  /\ RingSpec
  /\ WF_ringVars(FrameStored)
  /\ WF_ringVars(NetworkTask)
  /\ WF_ringVars(TransmitOwn)
  /\ WF_ringVars(TransmitPollDemand)
  /\ WF_ringVars(SendFrame)

-----------------------------------------------------------------------------
(* How many descriptors i lies behind descriptor "from", going round.      *)
Offset(i, from) == IF i >= from THEN i - from ELSE i - from + N

(* The descriptor that many places on.                                     *)
Beyond(from, count) ==
  IF from + count < N THEN from + count ELSE from + count - N

(* The count descriptors from "from" on are exactly the consumer's, and    *)
(* hold the frames that follow frame "last", in order.                     *)
Window(owner, consumer, buffer, from, count, last) ==
  /\ count \in 0..N
  /\ \A i \in Indices :
       /\ owner[i] = consumer <=> Offset(i, from) < count
       /\ Offset(i, from) < count => buffer[i] = last + Offset(i, from) + 1

(* The frame the task has taken but not released counts as in the ring.    *)
Released == IF task = "releasing" THEN taken - 1 ELSE taken

RingTypeOK ==
  /\ rxOwner \in [Indices -> {"dma", "cpu"}]
  /\ rxBuffer \in [Indices -> Nat]
  /\ rxError \in [Indices -> {"good", "error"}]
  /\ rxDma \in Indices
  /\ rxIndex \in Indices
  /\ rxEngine \in {"running", "writing", "suspended"}
  /\ task \in {"asleep", "polling", "copying", "discarding", "releasing",
               "demanding"}
  /\ stored \in Nat
  /\ taken \in Nat
  /\ txOwner \in [Indices -> {"dma", "cpu"}]
  /\ txBuffer \in [Indices -> Nat]
  /\ txDma \in Indices
  /\ txIndex \in Indices
  /\ txEngine \in {"running", "suspended"}
  /\ sender \in {"none", "copied", "demanding"}
  /\ accepted \in Nat
  /\ sent \in Nat

(* The two sides never disagree about a ring although neither reads the    *)
(* other's index: the descriptors between the indices are the consumer's   *)
(* and hold the frames still to be consumed, in order.  No buffer is used  *)
(* by both sides: the DMA writes only into a descriptor it owns, and the   *)
(* firmware reads, fills and releases only one that it owns.  From         *)
(* EthernetMac_Transmit, GetReceivedFrame and ReleaseReceivedFrame.        *)
RingInvariant ==
  /\ Window(rxOwner, "cpu", rxBuffer, rxIndex, stored - Released, Released)
  /\ rxDma = Beyond(rxIndex, stored - Released)
  /\ rxEngine = "writing" => rxOwner[rxDma] = "dma"
  /\ task \in {"copying", "discarding", "releasing"} =>
       rxOwner[rxIndex] = "cpu"
  /\ task = "releasing" => taken = rxBuffer[rxIndex]
  /\ Window(txOwner, "dma", txBuffer, txDma, accepted - sent, sent)
  /\ txIndex = Beyond(txDma, accepted - sent)
  /\ sender = "copied" => /\ txOwner[txIndex] = "cpu"
                          /\ txBuffer[txIndex] = accepted + 1

(* Every frame the DMA stored is dealt with exactly once and in order of   *)
(* arrival, and every frame Transmit accepted goes out exactly once and in *)
(* the order it was accepted, unchanged.                                   *)
FramesInOrder ==
  [][taken' \in {taken, taken + 1} /\ sent' \in {sent, sent + 1}]_ringVars

(* Nothing gets stuck: a frame in a ring gets through, and a receiver that *)
(* ran out of descriptors starts again, because each release and each      *)
(* transmission ends with a poll demand.                                   *)
EveryFrameMoves ==
  /\ \A k \in 1..MaxFrames : stored >= k ~> taken >= k
  /\ \A k \in 1..MaxFrames : accepted >= k ~> sent >= k
  /\ rxEngine = "suspended" ~> rxEngine # "suspended"
===============================================================================
