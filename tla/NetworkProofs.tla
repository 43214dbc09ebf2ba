----------------------------- MODULE NetworkProofs -----------------------------
(***************************************************************************)
(* Proofs about the network, from the wire up: EthernetRings for rings of  *)
(* any size, and NetworkService for any limits of the DHCP client and any  *)
(* number of faults.                                                       *)
(*                                                                         *)
(* Both rings have the same shape: a window of descriptors that belong to  *)
(* the consumer, starting at the consumer's index and ending before the    *)
(* producer's.  The lemmas say what filling the descriptor behind the      *)
(* window, handing it over and giving back the first one do to a window;   *)
(* the receive ring uses them with the DMA as producer, the transmit ring  *)
(* with the firmware as producer.                                          *)
(*                                                                         *)
(* The functions of the DHCP client and of the service map a state to a    *)
(* state: a lemma for each says that it takes a sound interface, or a      *)
(* settled service, to one, and the steps only compose them.               *)
(***************************************************************************)
EXTENDS NetworkService, EthernetRings, TLAPS

(* Going round the ring stays in the ring.                                 *)
LEMMA RingArithmetic ==
  ASSUME NEW from \in Indices, NEW count \in 0..N
  PROVE  /\ Beyond(from, count) \in Indices
         /\ count < N => /\ Offset(Beyond(from, count), from) = count
                         /\ NextIndex(Beyond(from, count))
                              = Beyond(from, count + 1)
         /\ count > 0 => /\ NextIndex(from) \in Indices
                         /\ Beyond(NextIndex(from), count - 1)
                              = Beyond(from, count)
         /\ Offset(from, from) = 0
BY RingAssumption DEF Indices, Beyond, Offset, NextIndex

(* No two descriptors are equally far from the same one.                   *)
LEMMA OffsetInjective ==
  ASSUME NEW from \in Indices, NEW i \in Indices, NEW j \in Indices
  PROVE  /\ Offset(i, from) \in 0..(N - 1)
         /\ Offset(i, from) = Offset(j, from) => i = j
BY RingAssumption DEF Indices, Offset

(* Seen from the next descriptor everything is one nearer.                 *)
LEMMA OffsetShift ==
  ASSUME NEW from \in Indices, NEW i \in Indices
  PROVE  /\ i # from => Offset(i, NextIndex(from)) = Offset(i, from) - 1
         /\ i = from => Offset(i, NextIndex(from)) = N - 1
BY RingAssumption DEF Indices, Offset, NextIndex

(* The descriptor behind the window is the producer's unless the ring is   *)
(* full, and the first one is the consumer's unless it is empty and then   *)
(* holds the frame that is due.                                            *)
LEMMA WindowEnds ==
  ASSUME NEW owner, NEW consumer, NEW buffer, NEW from \in Indices,
         NEW count \in Int, NEW last \in Int,
         Window(owner, consumer, buffer, from, count, last)
  PROVE  /\ count \in 0..N
         /\ owner[Beyond(from, count)] # consumer <=> count < N
         /\ owner[from] = consumer <=> count > 0
         /\ count > 0 => buffer[from] = last + 1
<1>1. count \in 0..N
  BY DEF Window
<1>2. owner[from] = consumer <=> count > 0
  BY <1>1, RingArithmetic DEF Window
<1>3. count > 0 => buffer[from] = last + 1
  BY <1>1, RingArithmetic DEF Window
<1>4. owner[Beyond(from, count)] # consumer <=> count < N
  <2>1. CASE count < N
    BY <1>1, <2>1, RingArithmetic DEF Window
  <2>2. CASE count = N
    <3>1. Beyond(from, count) = from
      BY <2>2, RingAssumption DEF Beyond, Indices
    <3> QED
      BY <1>2, <2>2, <3>1, RingAssumption
  <2> QED
    BY <1>1, <2>1, <2>2, RingAssumption
<1> QED
  BY <1>1, <1>2, <1>3, <1>4

(* Filling the buffer behind the window does not disturb it.               *)
LEMMA WindowFill ==
  ASSUME NEW owner, NEW consumer, NEW buffer \in [Indices -> Nat],
         NEW from \in Indices, NEW count \in Int, NEW last \in Int,
         NEW p, p = Beyond(from, count),
         NEW after, \A i \in Indices : i # p => after[i] = buffer[i],
         Window(owner, consumer, buffer, from, count, last), count < N
  PROVE  Window(owner, consumer, after, from, count, last)
<1>1. count \in 0..N
  BY DEF Window
<1>2. p \in Indices /\ Offset(p, from) = count
  BY <1>1, RingArithmetic
<1>3. ASSUME NEW i \in Indices, Offset(i, from) < count
      PROVE  after[i] = buffer[i]
  BY <1>1, <1>2, <1>3
<1> QED
  BY <1>1, <1>3 DEF Window

(* Handing over the filled descriptor behind the window makes it one       *)
(* longer.                                                                 *)
LEMMA WindowGrow ==
  ASSUME NEW consumer \in {"dma", "cpu"},
         NEW owner \in [Indices -> {"dma", "cpu"}],
         NEW buffer, NEW from \in Indices, NEW count \in Int, NEW last \in Int,
         NEW p, p = Beyond(from, count),
         NEW after, after[p] = consumer,
         \A i \in Indices : i # p => after[i] = owner[i],
         Window(owner, consumer, buffer, from, count, last), count < N,
         buffer[p] = last + count + 1
  PROVE  /\ Window(after, consumer, buffer, from, count + 1, last)
         /\ NextIndex(p) = Beyond(from, count + 1)
<1>1. count \in 0..N
  BY DEF Window
<1>2. p \in Indices /\ Offset(p, from) = count
  BY <1>1, RingArithmetic
<1>3. ASSUME NEW i \in Indices
      PROVE  /\ after[i] = consumer <=> Offset(i, from) < count + 1
             /\ Offset(i, from) < count + 1 =>
                  buffer[i] = last + Offset(i, from) + 1
  <2>1. Offset(i, from) \in 0..(N - 1) /\ (Offset(i, from) = count => i = p)
    BY <1>2, OffsetInjective
  <2>2. CASE i = p
    BY <1>1, <1>2, <2>2
  <2>3. CASE i # p
    <3>1. after[i] = owner[i] /\ Offset(i, from) # count
      BY <2>1, <2>3, <1>2
    <3>2. Offset(i, from) < count + 1 <=> Offset(i, from) < count
      BY <1>1, <2>1, <3>1
    <3> QED
      BY <3>1, <3>2 DEF Window
  <2> QED
    BY <2>2, <2>3
<1>4. count + 1 \in 0..N
  BY <1>1, RingAssumption
<1> QED
  BY <1>1, <1>3, <1>4, RingArithmetic DEF Window

(* Giving back the first descriptor makes the window one shorter.          *)
LEMMA WindowShrink ==
  ASSUME NEW consumer \in {"dma", "cpu"}, NEW producer \in {"dma", "cpu"},
         consumer # producer,
         NEW owner \in [Indices -> {"dma", "cpu"}],
         NEW buffer, NEW from \in Indices, NEW count \in Int, NEW last \in Int,
         NEW after, after[from] = producer,
         \A i \in Indices : i # from => after[i] = owner[i],
         Window(owner, consumer, buffer, from, count, last), count > 0
  PROVE  /\ Window(after, consumer, buffer, NextIndex(from), count - 1,
                   last + 1)
         /\ Beyond(NextIndex(from), count - 1) = Beyond(from, count)
<1> DEFINE next == NextIndex(from)
<1>1. count \in 0..N
  BY DEF Window
<1>2. ASSUME NEW i \in Indices
      PROVE  /\ after[i] = consumer <=> Offset(i, next) < count - 1
             /\ Offset(i, next) < count - 1 =>
                  buffer[i] = last + 1 + Offset(i, next) + 1
  <2>1. CASE i = from
    <3>1. Offset(i, next) = N - 1
      BY <2>1, OffsetShift
    <3> QED
      BY <1>1, <2>1, <3>1, RingAssumption
  <2>2. CASE i # from
    <3>1. Offset(i, next) = Offset(i, from) - 1
      BY <2>2, OffsetShift
    <3>2. Offset(i, from) \in 0..(N - 1)
      BY OffsetInjective
    <3>3. after[i] = owner[i]
      BY <2>2
    <3> QED
      BY <1>1, <3>1, <3>2, <3>3, RingAssumption DEF Window
  <2> QED
    BY <2>1, <2>2
<1>3. count - 1 \in 0..N
  BY <1>1, RingAssumption
<1> QED
  BY <1>1, <1>2, <1>3, RingArithmetic DEF Window

-------------------------------------------------------------------------------
(* The two halves of the invariant: no action touches both rings.          *)
RxInvariant ==
  /\ Window(rxOwner, "cpu", rxBuffer, rxIndex, stored - Released, Released)
  /\ rxDma = Beyond(rxIndex, stored - Released)
  /\ rxEngine = "writing" => rxOwner[rxDma] = "dma"
  /\ task \in {"copying", "discarding", "releasing"} =>
       rxOwner[rxIndex] = "cpu"
  /\ task = "releasing" => taken = rxBuffer[rxIndex]

TxInvariant ==
  /\ Window(txOwner, "dma", txBuffer, txDma, accepted - sent, sent)
  /\ txIndex = Beyond(txDma, accepted - sent)
  /\ sender = "copied" => /\ txOwner[txIndex] = "cpu"
                          /\ txBuffer[txIndex] = accepted + 1

(* The invariant of the rings is one of each ring.                         *)
LEMMA InvariantHalves == RingInvariant <=> RxInvariant /\ TxInvariant
BY DEF RingInvariant, RxInvariant, TxInvariant

(* EthernetMac_Init leaves both rings empty.                               *)
LEMMA InitInvariant == RingInit => RingTypeOK /\ RxInvariant /\ TxInvariant
<1> SUFFICES ASSUME RingInit PROVE RingTypeOK /\ RxInvariant /\ TxInvariant
  OBVIOUS
<1>1. RingTypeOK
  BY RingAssumption DEF RingInit, RingTypeOK, Indices
<1>2. 0 \in Indices /\ Beyond(0, 0) = 0
  BY RingAssumption DEF Indices, Beyond
<1>3. \A i \in Indices : Offset(i, 0) = i /\ ~(i < 0)
  BY RingAssumption DEF Indices, Offset
<1>4. RxInvariant
  <2>1. Released = 0 /\ stored - Released = 0
    BY DEF RingInit, Released
  <2> QED
    BY <1>2, <1>3, <2>1, RingAssumption DEF RingInit, RxInvariant, Window
<1>5. TxInvariant
  <2>1. accepted - sent = 0 /\ sent = 0
    BY DEF RingInit
  <2> QED
    BY <1>2, <1>3, <2>1, RingAssumption DEF RingInit, TxInvariant, Window
<1> QED
  BY <1>1, <1>4, <1>5

(* Every step of the rings keeps the types.                                *)
LEMMA NextType == RingTypeOK /\ RxInvariant /\ TxInvariant /\ RingNext => RingTypeOK'
<1> SUFFICES ASSUME RingTypeOK, RxInvariant, TxInvariant, RingNext
             PROVE  RingTypeOK'
  OBVIOUS
<1>1. \A i \in Indices : NextIndex(i) \in Indices
  BY RingAssumption DEF Indices, NextIndex
<1>2. CASE FrameArrives
  BY <1>2 DEF FrameArrives, RingTypeOK, txVars
<1>3. CASE FrameStored
  BY <1>1, <1>3 DEF FrameStored, RingTypeOK, txVars
<1>4. CASE PollBegins
  BY <1>4 DEF PollBegins, RingTypeOK, txVars
<1>5. CASE GetReceivedFrame
  <2>1. task' \in {"asleep", "copying", "discarding"}
    BY <1>5 DEF GetReceivedFrame, RingTypeOK
  <2> QED
    BY <1>5, <2>1 DEF GetReceivedFrame, RingTypeOK, txVars
<1>6. CASE TakeFrame
  BY <1>6 DEF TakeFrame, RingTypeOK, txVars
<1>7. CASE ReleaseReceivedFrame
  BY <1>1, <1>7 DEF ReleaseReceivedFrame, RingTypeOK, txVars
<1>8. CASE ReceivePollDemand
  BY <1>8 DEF ReceivePollDemand, RingTypeOK, txVars
<1>9. CASE TransmitCopy
  BY <1>9 DEF TransmitCopy, RingTypeOK, rxVars
<1>10. CASE TransmitOwn
  BY <1>1, <1>10 DEF TransmitOwn, RingTypeOK, rxVars
<1>11. CASE TransmitPollDemand
  BY <1>11 DEF TransmitPollDemand, RingTypeOK, rxVars
<1>12. CASE SendFrame
  BY <1>1, <1>12 DEF SendFrame, RingTypeOK, rxVars
<1>13. CASE SendSuspends
  BY <1>13 DEF SendSuspends, RingTypeOK, rxVars
<1> QED
  BY <1>2, <1>3, <1>4, <1>5, <1>6, <1>7, <1>8, <1>9, <1>10, <1>11, <1>12,
     <1>13 DEF RingNext, NetworkTask

(* What a step of the receive ring does, and that it hands frames over in  *)
(* order.                                                                  *)
LEMMA NextRx ==
  RingTypeOK /\ RxInvariant /\ RingNext =>
    RxInvariant' /\ taken' \in {taken, taken + 1}
<1> SUFFICES ASSUME RingTypeOK, RxInvariant, RingNext
             PROVE  RxInvariant' /\ taken' \in {taken, taken + 1}
  OBVIOUS
<1> DEFINE count == stored - Released
<1>1. /\ rxIndex \in Indices /\ rxDma \in Indices
      /\ rxOwner \in [Indices -> {"dma", "cpu"}]
      /\ rxBuffer \in [Indices -> Nat]
      /\ stored \in Nat /\ taken \in Nat /\ Released \in Int /\ count \in Int
  BY DEF RingTypeOK, Released
<1>2. /\ Window(rxOwner, "cpu", rxBuffer, rxIndex, count, Released)
      /\ rxDma = Beyond(rxIndex, count)
  BY DEF RxInvariant
<1>3. /\ count \in 0..N
      /\ rxOwner[rxDma] # "cpu" <=> count < N
      /\ rxOwner[rxIndex] = "cpu" <=> count > 0
      /\ count > 0 => rxBuffer[rxIndex] = Released + 1
  BY <1>1, <1>2, WindowEnds
<1>4. CASE UNCHANGED rxVars
  BY <1>4 DEF rxVars, RxInvariant, Released
<1>5. CASE FrameArrives
  BY <1>5, <1>1 DEF FrameArrives, RxInvariant, Released
<1>6. CASE FrameStored
  <2> DEFINE filled == [rxBuffer EXCEPT ![rxDma] = stored + 1]
             owned == [rxOwner EXCEPT ![rxDma] = "cpu"]
  <2>1. count < N
    BY <1>3, <1>6 DEF FrameStored, RxInvariant
  <2>2. Window(rxOwner, "cpu", filled, rxIndex, count, Released)
    <3>1. \A i \in Indices : i # rxDma => filled[i] = rxBuffer[i]
      BY <1>1
    <3> HIDE DEF count, filled
    <3> QED
      BY <1>1, <1>2, <2>1, <3>1, WindowFill
  <2>3. filled[rxDma] = Released + count + 1
    BY <1>1
  <2>4. /\ Window(owned, "cpu", filled, rxIndex, count + 1, Released)
        /\ NextIndex(rxDma) = Beyond(rxIndex, count + 1)
    <3>1. /\ owned[rxDma] = "cpu"
          /\ \A i \in Indices : i # rxDma => owned[i] = rxOwner[i]
      BY <1>1
    <3> HIDE DEF count, filled, owned
    <3> QED
      BY <1>1, <1>2, <2>1, <2>2, <2>3, <3>1, WindowGrow
  <2>5. /\ rxOwner' = owned /\ rxBuffer' = filled /\ rxIndex' = rxIndex
        /\ rxDma' = NextIndex(rxDma) /\ taken' = taken /\ task' = task
        /\ rxEngine' = "running" /\ stored' = stored + 1
    BY <1>6 DEF FrameStored
  <2>6. Released' = Released /\ stored' - Released' = count + 1
    BY <1>1, <2>5 DEF Released
  <2>7. task \in {"copying", "discarding", "releasing"} =>
          owned[rxIndex] = "cpu"
    BY <1>1 DEF RxInvariant
  <2>8. task = "releasing" => taken = filled[rxIndex]
    <3> SUFFICES ASSUME task = "releasing" PROVE taken = filled[rxIndex]
      OBVIOUS
    <3>1. rxOwner[rxIndex] = "cpu" /\ taken = rxBuffer[rxIndex]
      BY DEF RxInvariant
    <3>2. rxIndex # rxDma
      BY <1>3, <2>1, <3>1
    <3> QED
      BY <1>1, <3>1, <3>2
  <2> QED
    BY <2>4, <2>5, <2>6, <2>7, <2>8 DEF RxInvariant
<1>7. CASE PollBegins
  BY <1>7 DEF PollBegins, RxInvariant, Released
<1>8. CASE GetReceivedFrame
  <2>1. /\ task = "polling" /\ taken' = taken /\ rxOwner' = rxOwner
        /\ rxBuffer' = rxBuffer /\ rxIndex' = rxIndex /\ rxDma' = rxDma
        /\ rxEngine' = rxEngine /\ stored' = stored
    BY <1>8 DEF GetReceivedFrame
  <2>2. task' # "releasing"
        /\ (task' \in {"copying", "discarding"} => rxOwner[rxIndex] = "cpu")
    BY <1>1, <1>8 DEF GetReceivedFrame, RingTypeOK
  <2>3. Released' = Released
    BY <2>1, <2>2 DEF Released
  <2> QED
    BY <2>1, <2>2, <2>3 DEF RxInvariant
<1>9. CASE TakeFrame
  <2>1. /\ task \in {"copying", "discarding"} /\ task' = "releasing"
        /\ taken' = rxBuffer[rxIndex]
        /\ rxOwner' = rxOwner /\ rxBuffer' = rxBuffer /\ rxIndex' = rxIndex
        /\ rxDma' = rxDma /\ rxEngine' = rxEngine /\ stored' = stored
    BY <1>9 DEF TakeFrame
  <2>2. rxOwner[rxIndex] = "cpu" /\ Released = taken
    BY <2>1 DEF RxInvariant, Released
  <2>3. taken' = taken + 1
    BY <1>3, <2>1, <2>2
  <2>4. Released' = Released
    BY <1>1, <2>1, <2>2, <2>3 DEF Released
  <2> QED
    BY <2>1, <2>2, <2>3, <2>4 DEF RxInvariant
<1>10. CASE ReleaseReceivedFrame
  <2> DEFINE owned == [rxOwner EXCEPT ![rxIndex] = "dma"]
  <2>1. /\ task = "releasing" /\ task' = "demanding" /\ taken' = taken
        /\ rxOwner' = owned /\ rxBuffer' = rxBuffer
        /\ rxIndex' = NextIndex(rxIndex)
        /\ rxDma' = rxDma /\ rxEngine' = rxEngine /\ stored' = stored
    BY <1>10 DEF ReleaseReceivedFrame
  <2>2. Released = taken - 1 /\ Released' = taken /\ count > 0
    BY <1>3, <2>1 DEF RxInvariant, Released
  <2>3. Released' = Released + 1 /\ stored' - Released' = count - 1
    BY <1>1, <2>1, <2>2
  <2>4. /\ Window(owned, "cpu", rxBuffer, NextIndex(rxIndex), count - 1,
                  Released + 1)
        /\ Beyond(NextIndex(rxIndex), count - 1) = Beyond(rxIndex, count)
    <3>1. /\ owned[rxIndex] = "dma"
          /\ \A i \in Indices : i # rxIndex => owned[i] = rxOwner[i]
      BY <1>1
    <3>2. count > 0
      BY <2>2
    <3> HIDE DEF count, owned
    <3> QED
      BY <1>1, <1>2, <3>1, <3>2, WindowShrink
  <2>5. rxEngine = "writing" => owned[rxDma] = "dma"
    BY <1>1 DEF RxInvariant
  <2> QED
    BY <1>2, <2>1, <2>3, <2>4, <2>5 DEF RxInvariant
<1>11. CASE ReceivePollDemand
  BY <1>11 DEF ReceivePollDemand, RxInvariant, Released
<1>12. CASE TransmitCopy
  BY <1>4, <1>12 DEF TransmitCopy
<1>13. CASE TransmitOwn
  BY <1>4, <1>13 DEF TransmitOwn
<1>14. CASE TransmitPollDemand
  BY <1>4, <1>14 DEF TransmitPollDemand
<1>15. CASE SendFrame
  BY <1>4, <1>15 DEF SendFrame
<1>16. CASE SendSuspends
  BY <1>4, <1>16 DEF SendSuspends
<1> QED
  BY <1>5, <1>6, <1>7, <1>8, <1>9, <1>10, <1>11, <1>12, <1>13, <1>14, <1>15,
     <1>16 DEF RingNext, NetworkTask

(* The same for the transmit ring.                                         *)
LEMMA NextTx ==
  RingTypeOK /\ TxInvariant /\ RingNext =>
    TxInvariant' /\ sent' \in {sent, sent + 1}
<1> SUFFICES ASSUME RingTypeOK, TxInvariant, RingNext
             PROVE  TxInvariant' /\ sent' \in {sent, sent + 1}
  OBVIOUS
<1> DEFINE count == accepted - sent
<1>1. /\ txIndex \in Indices /\ txDma \in Indices
      /\ txOwner \in [Indices -> {"dma", "cpu"}]
      /\ txBuffer \in [Indices -> Nat]
      /\ accepted \in Nat /\ sent \in Nat /\ sent \in Int /\ count \in Int
  BY DEF RingTypeOK
<1>2. /\ Window(txOwner, "dma", txBuffer, txDma, count, sent)
      /\ txIndex = Beyond(txDma, count)
  BY DEF TxInvariant
<1>3. /\ count \in 0..N
      /\ txOwner[txIndex] # "dma" <=> count < N
      /\ txOwner[txDma] = "dma" <=> count > 0
      /\ count > 0 => txBuffer[txDma] = sent + 1
  BY <1>1, <1>2, WindowEnds
<1>4. CASE UNCHANGED txVars
  BY <1>4 DEF txVars, TxInvariant
<1>5. CASE TransmitCopy
  <2> DEFINE filled == [txBuffer EXCEPT ![txIndex] = accepted + 1]
  <2>1. /\ txOwner[txIndex] = "cpu" /\ txBuffer' = filled
        /\ txOwner' = txOwner /\ txDma' = txDma /\ txIndex' = txIndex
        /\ accepted' = accepted /\ sent' = sent
    BY <1>5 DEF TransmitCopy
  <2>2. count < N
    BY <1>3, <2>1
  <2>3. Window(txOwner, "dma", filled, txDma, count, sent)
    <3>1. \A i \in Indices : i # txIndex => filled[i] = txBuffer[i]
      BY <1>1
    <3> HIDE DEF count, filled
    <3> QED
      BY <1>1, <1>2, <2>2, <3>1, WindowFill
  <2>4. filled[txIndex] = accepted + 1
    BY <1>1
  <2> QED
    BY <1>2, <2>1, <2>3, <2>4 DEF TxInvariant
<1>6. CASE TransmitOwn
  <2> DEFINE owned == [txOwner EXCEPT ![txIndex] = "dma"]
  <2>1. /\ sender = "copied" /\ sender' = "demanding" /\ txOwner' = owned
        /\ txBuffer' = txBuffer /\ txDma' = txDma
        /\ txIndex' = NextIndex(txIndex)
        /\ accepted' = accepted + 1 /\ sent' = sent
    BY <1>6 DEF TransmitOwn
  <2>2. count < N /\ txBuffer[txIndex] = sent + count + 1
    BY <1>1, <1>3, <2>1 DEF TxInvariant
  <2>3. /\ Window(owned, "dma", txBuffer, txDma, count + 1, sent)
        /\ NextIndex(txIndex) = Beyond(txDma, count + 1)
    <3>1. /\ owned[txIndex] = "dma"
          /\ \A i \in Indices : i # txIndex => owned[i] = txOwner[i]
      BY <1>1
    <3> HIDE DEF count, owned
    <3> QED
      BY <1>1, <1>2, <2>2, <3>1, WindowGrow
  <2>4. accepted' - sent' = count + 1
    BY <1>1, <2>1
  <2> QED
    BY <2>1, <2>3, <2>4 DEF TxInvariant
<1>7. CASE TransmitPollDemand
  BY <1>7 DEF TransmitPollDemand, TxInvariant
<1>8. CASE SendFrame
  <2> DEFINE owned == [txOwner EXCEPT ![txDma] = "cpu"]
  <2>1. /\ txOwner[txDma] = "dma" /\ sent' = txBuffer[txDma]
        /\ txOwner' = owned /\ txBuffer' = txBuffer
        /\ txDma' = NextIndex(txDma) /\ txIndex' = txIndex
        /\ accepted' = accepted /\ sender' = sender
    BY <1>8 DEF SendFrame
  <2>2. count > 0 /\ sent' = sent + 1
    BY <1>3, <2>1
  <2>3. /\ Window(owned, "dma", txBuffer, NextIndex(txDma), count - 1, sent + 1)
        /\ Beyond(NextIndex(txDma), count - 1) = Beyond(txDma, count)
    <3>1. /\ owned[txDma] = "cpu"
          /\ \A i \in Indices : i # txDma => owned[i] = txOwner[i]
      BY <1>1
    <3>2. count > 0
      BY <2>2
    <3>3. /\ txDma \in Indices /\ count \in Int /\ sent \in Int
          /\ txOwner \in [Indices -> {"dma", "cpu"}]
      BY <1>1
    <3> HIDE DEF count, owned
    <3> QED
      BY <1>2, <3>1, <3>2, <3>3, WindowShrink
  <2>4. accepted' - sent' = count - 1
    BY <1>1, <2>1, <2>2
  <2>5. sender = "copied" => owned[txIndex] = "cpu"
    BY <1>1 DEF TxInvariant
  <2> QED
    BY <1>2, <2>1, <2>2, <2>3, <2>4, <2>5 DEF TxInvariant
<1>9. CASE SendSuspends
  BY <1>9 DEF SendSuspends, TxInvariant
<1>10. CASE FrameArrives
  BY <1>4, <1>10 DEF FrameArrives
<1>11. CASE FrameStored
  BY <1>4, <1>11 DEF FrameStored
<1>12. CASE PollBegins
  BY <1>4, <1>12 DEF PollBegins
<1>13. CASE GetReceivedFrame
  BY <1>4, <1>13 DEF GetReceivedFrame
<1>14. CASE TakeFrame
  BY <1>4, <1>14 DEF TakeFrame
<1>15. CASE ReleaseReceivedFrame
  BY <1>4, <1>15 DEF ReleaseReceivedFrame
<1>16. CASE ReceivePollDemand
  BY <1>4, <1>16 DEF ReceivePollDemand
<1> QED
  BY <1>5, <1>6, <1>7, <1>8, <1>9, <1>10, <1>11, <1>12, <1>13, <1>14, <1>15,
     <1>16 DEF RingNext, NetworkTask

(* A step that leaves the rings alone.                                     *)
LEMMA Stutters ==
  RingTypeOK /\ RxInvariant /\ TxInvariant /\ UNCHANGED ringVars =>
    RingTypeOK' /\ RxInvariant' /\ TxInvariant'
BY DEF ringVars, rxVars, txVars, RingTypeOK, RxInvariant, TxInvariant, Released

-------------------------------------------------------------------------------
(* For rings of any size, the firmware and the DMA always agree on whose   *)
(* each descriptor is and what is in its buffer, and neither touches one   *)
(* of the other's (EthernetMac_Transmit, GetReceivedFrame,                 *)
(* ReleaseReceivedFrame).                                                  *)
THEOREM RingsAgree == RingSpec => []RingInvariant
<1>1. RingInit => RingTypeOK /\ RxInvariant /\ TxInvariant
  BY InitInvariant
<1>2. RingTypeOK /\ RxInvariant /\ TxInvariant /\ [RingNext]_ringVars =>
        RingTypeOK' /\ RxInvariant' /\ TxInvariant'
  BY NextType, NextRx, NextTx, Stutters
<1> QED
  BY <1>1, <1>2, InvariantHalves, PTL DEF RingSpec

(* For rings of any size, every frame leaves a ring exactly once, in the   *)
(* order the frames entered it, with the content it entered with.          *)
THEOREM RingsKeepOrder == RingSpec => FramesInOrder
<1>1. RingInit => RingTypeOK /\ RxInvariant /\ TxInvariant
  BY InitInvariant
<1>2. RingTypeOK /\ RxInvariant /\ TxInvariant /\ [RingNext]_ringVars =>
        RingTypeOK' /\ RxInvariant' /\ TxInvariant'
  BY NextType, NextRx, NextTx, Stutters
<1>3. RingTypeOK /\ RxInvariant /\ TxInvariant /\ [RingNext]_ringVars =>
        [taken' \in {taken, taken + 1} /\ sent' \in {sent, sent + 1}]_ringVars
  BY NextRx, NextTx
<1> QED
  BY <1>1, <1>2, <1>3, PTL DEF RingSpec, FramesInOrder

-------------------------------------------------------------------------------
(* The interface and its DHCP client.                                      *)

(* A client that is off has stopped its conflict detection and its lease,  *)
(* and is off while the link is down.  Conflict detection works on an      *)
(* address only while the client waits for the verdict, and when it slows  *)
(* the search down it alone decides when the client goes on.               *)
Sound(n) ==
  /\ n \in Interfaces
  /\ n.state \notin {"REBOOTING", "INIT"}
  /\ ~n.linkUp => n.state = "OFF"
  /\ n.state = "OFF" => n.acd = "OFF" /\ ~n.lease
  /\ n.state = "BACKING_OFF" => n.acd \in {"OFF", "RATE_LIMIT"}
  /\ n.acd = "RATE_LIMIT" => n.state = "BACKING_OFF" /\ ~n.timer
  /\ n.acd \in {"PROBING", "ANNOUNCING"} => n.state = "CHECKING"
  /\ n.address = "lease" => dhcp_supplied_address(n)

(* What the invariant needs of a change of state.                          *)
KeepsRest(n, m) ==
  /\ m \in Interfaces
  /\ m.linkUp = n.linkUp /\ m.address = n.address
  /\ m.lease = n.lease /\ m.acd = n.acd

Moved(n, s, m) ==
  KeepsRest(n, m) /\ m.state = s /\ (n.state # s => ~m.timer)

Asked(n, s, m) ==
  KeepsRest(n, m) /\ m.state = s /\ m.timer

(* dhcp_set_state: the timer of the state that was left is stopped.        *)
LEMMA SetState ==
  ASSUME NEW n \in Interfaces, NEW s \in DhcpStates
  PROVE  Moved(n, s, dhcp_set_state(n, s))
<1>1. 0 \in Tries
  BY DhcpAssumption DEF Tries
<1>2. CASE n.state = s
  BY <1>2 DEF Moved, KeepsRest, dhcp_set_state
<1>3. CASE n.state # s
  <2> DEFINE m == [n EXCEPT !.state = s, !.tries = 0, !.timer = FALSE]
  <2>1. dhcp_set_state(n, s) = m
    BY <1>3 DEF dhcp_set_state
  <2>2. m \in Interfaces /\ m.state = s /\ m.timer = FALSE /\ m.linkUp = n.linkUp
        /\ m.address = n.address /\ m.lease = n.lease /\ m.acd = n.acd
    BY <1>1, Zenon DEF Interfaces
  <2> QED
    BY <2>1, <2>2 DEF Moved, KeepsRest
<1> QED
  BY <1>2, <1>3

(* A state is entered, or stayed in, with a message and a running timer.   *)
LEMMA SendAsks ==
  ASSUME NEW n \in Interfaces, NEW s \in DhcpStates
  PROVE  Asked(n, s, Send(dhcp_set_state(n, s)))
<1> DEFINE m == dhcp_set_state(n, s)
           t == IF m.tries + 1 \in Tries THEN m.tries + 1 ELSE m.tries
           k == [m EXCEPT !.tries = t, !.timer = TRUE]
<1>1. Moved(n, s, m)
  BY SetState
<1> HIDE DEF m
<1>2. t \in Tries
  BY <1>1 DEF Moved, KeepsRest, Interfaces
<1>3. Send(m) = k
  BY DEF Send
<1> HIDE DEF t
<1>4. k \in Interfaces /\ k.state = m.state /\ k.timer /\ k.linkUp = m.linkUp
      /\ k.address = m.address /\ k.lease = m.lease /\ k.acd = m.acd
  BY <1>1, <1>2, Zenon DEF Moved, KeepsRest, Interfaces
<1>5. Asked(n, s, Send(m))
  BY <1>1, <1>3, <1>4 DEF Moved, Asked, KeepsRest
<1> QED
  BY <1>5 DEF m

(* What the client sends in its states, each with its timer.               *)
LEMMA Messages ==
  ASSUME NEW n \in Interfaces
  PROVE  /\ Asked(n, "SELECTING", dhcp_discover(n))
         /\ Asked(n, "REQUESTING", dhcp_select(n))
         /\ Asked(n, "RENEWING", dhcp_renew(n))
         /\ Asked(n, "REBINDING", dhcp_rebind(n))
<1>1. {"SELECTING", "REQUESTING", "RENEWING", "REBINDING"} \subseteq DhcpStates
  BY DEF DhcpStates
<1> QED
  BY <1>1, SendAsks DEF dhcp_discover, dhcp_select, dhcp_renew, dhcp_rebind

(* A client that goes on asking stays sound.                               *)
LEMMA AskingIsSound ==
  ASSUME NEW n, NEW m, NEW s \in {"SELECTING", "REQUESTING", "RENEWING", "REBINDING"},
         Sound(n), n.linkUp, Asked(n, s, m),
         n.acd \notin {"PROBING", "ANNOUNCING", "RATE_LIMIT"},
         n.address # "lease" \/ s \in {"RENEWING", "REBINDING"}
  PROVE  Sound(m) /\ m.linkUp = n.linkUp
BY DEF Sound, Asked, KeepsRest, dhcp_supplied_address

(* dhcp_stop leaves nothing of the client, whether the link is up or not.  *)
LEMMA StopIsSound ==
  ASSUME NEW n \in Interfaces,
         n.state = "OFF" => n.acd = "OFF" /\ ~n.lease,
         n.address = "lease" => dhcp_supplied_address(n)
  PROVE  /\ Sound(dhcp_release_and_stop(n))
         /\ dhcp_release_and_stop(n).state = "OFF"
         /\ dhcp_release_and_stop(n).linkUp = n.linkUp
<1>1. CASE n.state = "OFF"
  BY <1>1 DEF dhcp_release_and_stop, Sound, dhcp_supplied_address
<1>2. CASE n.state # "OFF"
  <2> DEFINE a == IF dhcp_supplied_address(n) THEN "any" ELSE n.address
             k == dhcp_set_state(n, "OFF")
             m == [k EXCEPT !.lease = FALSE, !.acd = "OFF", !.address = a]
  <2>1. Moved(n, "OFF", k)
    BY SetState DEF DhcpStates
  <2>2. dhcp_release_and_stop(n) = m
    <3>1. k.address = n.address
      BY <2>1 DEF Moved, KeepsRest
    <3> HIDE DEF k
    <3>2. [k EXCEPT !.lease = FALSE, !.acd = "OFF",
             !.address = IF dhcp_supplied_address(n) THEN "any" ELSE @] = m
      BY <2>1, <3>1 DEF Moved, KeepsRest, Interfaces
    <3> QED
      BY <1>2, <3>2 DEF dhcp_release_and_stop, k
  <2> HIDE DEF k
  <2>3. a \in Addresses /\ a # "lease"
    BY DEF Addresses, Interfaces
  <2> HIDE DEF a
  <2>4. m \in Interfaces /\ m.state = k.state /\ m.linkUp = k.linkUp
        /\ m.lease = FALSE /\ m.acd = "OFF" /\ m.address = a
    BY <2>1, <2>3, Zenon DEF Moved, KeepsRest, Interfaces, AcdStates
  <2> HIDE DEF m
  <2>5. Sound(m) /\ m.state = "OFF" /\ m.linkUp = n.linkUp
    BY <2>1, <2>3, <2>4 DEF Sound, Moved, KeepsRest
  <2> QED
    BY <2>2, <2>5
<1> QED
  BY <1>1, <1>2

(* dhcp_start, of an interface whose leased address is gone.               *)
LEMMA StartIsSound ==
  ASSUME NEW n \in Interfaces, n.address # "lease", n.linkUp, NEW memory \in BOOLEAN
  PROVE  Sound(dhcp_start(n, memory)) /\ dhcp_start(n, memory).linkUp
<1> DEFINE c == [NoClient(n.linkUp) EXCEPT !.address = n.address, !.dns = n.dns]
<1>1. 0 \in Tries /\ 0 \in 0..MaxConflicts
  BY DhcpAssumption DEF Tries
<1>2. c \in Interfaces /\ c.linkUp = n.linkUp /\ c.address = n.address
      /\ c.state = "OFF" /\ c.acd = "OFF" /\ c.lease = FALSE
  BY <1>1, Zenon DEF NoClient, Interfaces, DhcpStates, AcdStates
<1>3. dhcp_start(n, memory) = IF memory THEN dhcp_discover(c) ELSE c
  BY DEF dhcp_start
<1> HIDE DEF c
<1>4. Sound(c)
  BY <1>2 DEF Sound
<1>5. Asked(c, "SELECTING", dhcp_discover(c))
  BY <1>2, Messages
<1>6. Sound(dhcp_discover(c)) /\ dhcp_discover(c).linkUp = c.linkUp
  BY <1>2, <1>4, <1>5, AskingIsSound, Zenon
<1> QED
  BY <1>2, <1>3, <1>4, <1>6, Zenon

-------------------------------------------------------------------------------
(* What the client does on the tcpip thread keeps the interface sound and  *)
(* the link as it was.                                                     *)
Kept(n, m) == Sound(m) /\ m.linkUp = n.linkUp

(* The fields no clause of Sound reads.                                    *)
LEMMA AsideIsSound ==
  ASSUME NEW n, Sound(n)
  PROVE  /\ Kept(n, [n EXCEPT !.timer = FALSE])
         /\ Kept(n, [n EXCEPT !.dns = "lease"])
         /\ \A b \in BOOLEAN : Kept(n, [n EXCEPT !.defending = b])
<1>1. n \in Interfaces
  BY DEF Sound
<1> DEFINE m == [n EXCEPT !.timer = FALSE]
           k == [n EXCEPT !.dns = "lease"]
           d(b) == [n EXCEPT !.defending = b]
<1>2. Kept(n, m)
  <2>1. m \in Interfaces /\ m.state = n.state /\ m.linkUp = n.linkUp
        /\ m.address = n.address /\ m.lease = n.lease /\ m.acd = n.acd
        /\ m.timer = FALSE
    BY <1>1, Zenon DEF Interfaces
  <2> HIDE DEF m
  <2> QED
    BY <2>1 DEF Kept, Sound, dhcp_supplied_address
<1>3. Kept(n, k)
  <2>1. k \in Interfaces /\ k.state = n.state /\ k.linkUp = n.linkUp
        /\ k.address = n.address /\ k.lease = n.lease /\ k.acd = n.acd
        /\ k.timer = n.timer
    BY <1>1 DEF Interfaces, Addresses
  <2> HIDE DEF k
  <2> QED
    BY <2>1 DEF Kept, Sound, dhcp_supplied_address
<1>4. ASSUME NEW b \in BOOLEAN PROVE Kept(n, d(b))
  <2>1. d(b) \in Interfaces /\ d(b).state = n.state /\ d(b).linkUp = n.linkUp
        /\ d(b).address = n.address /\ d(b).lease = n.lease
        /\ d(b).acd = n.acd /\ d(b).timer = n.timer
    BY <1>1 DEF Interfaces
  <2> HIDE DEF d
  <2> QED
    BY <2>1 DEF Kept, Sound, dhcp_supplied_address
<1> QED
  BY <1>2, <1>3, <1>4

(* dhcp_recv of a DHCPOFFER.                                               *)
LEMMA OfferIsSound ==
  ASSUME NEW n, Sound(n)
  PROVE  Kept(n, RecvOffer(n))
<1> DEFINE m == [n EXCEPT !.timer = FALSE]
<1>1. CASE n.state = "SELECTING"
  <2>1. Kept(n, m) /\ m.state = n.state /\ m.acd = n.acd /\ m.address = n.address
    BY AsideIsSound, Zenon DEF Sound, Interfaces
  <2> HIDE DEF m
  <2>2. Asked(m, "REQUESTING", dhcp_select(m))
    BY <2>1, Messages DEF Kept, Sound
  <2>3. m.linkUp /\ m.acd \notin {"PROBING", "ANNOUNCING", "RATE_LIMIT"}
        /\ m.address # "lease"
    BY <1>1, <2>1 DEF Kept, Sound, dhcp_supplied_address, Interfaces
  <2>4. Kept(n, dhcp_select(m))
    BY <2>1, <2>2, <2>3, AskingIsSound, Zenon DEF Kept
  <2> QED
    BY <1>1, <2>4 DEF RecvOffer, m
<1>2. CASE n.state # "SELECTING"
  BY <1>2 DEF RecvOffer, Kept
<1> QED
  BY <1>1, <1>2

(* dhcp_bind, from the states it is called in.                             *)
LEMMA BindIsSound ==
  ASSUME NEW n \in Interfaces, NEW finite \in BOOLEAN, n.linkUp,
         n.acd \in {"OFF", "ONGOING"}
  PROVE  Kept(n, dhcp_bind(n, finite))
<1> DEFINE k == dhcp_set_state(n, "BOUND")
           l == k.lease \/ finite
           m == [k EXCEPT !.address = "lease", !.lease = l]
<1>1. Moved(n, "BOUND", k)
  BY SetState DEF DhcpStates
<1>2. dhcp_bind(n, finite) = m
  BY DEF dhcp_bind
<1> HIDE DEF k
<1>3. l \in BOOLEAN
  OBVIOUS
<1> HIDE DEF l
<1>4. m \in Interfaces /\ m.state = k.state /\ m.linkUp = k.linkUp
      /\ m.acd = k.acd /\ m.address = "lease"
  BY <1>1, <1>3, Zenon DEF Moved, KeepsRest, Interfaces, Addresses
<1> HIDE DEF m
<1> QED
  BY <1>1, <1>2, <1>4 DEF Kept, Sound, Moved, KeepsRest, dhcp_supplied_address

(* dhcp_check: conflict detection starts with the state that waits for it. *)
LEMMA CheckIsSound ==
  ASSUME NEW n, Sound(n), n.linkUp, n.state = "REQUESTING"
  PROVE  Kept(n, dhcp_check(n))
<1> DEFINE k == dhcp_set_state(n, "CHECKING")
           m == [k EXCEPT !.acd = "PROBING", !.defending = FALSE]
<1>1. Moved(n, "CHECKING", k)
  BY SetState DEF DhcpStates, Sound
<1>2. dhcp_check(n) = m
  BY DEF dhcp_check
<1> HIDE DEF k
<1>3. m \in Interfaces /\ m.state = k.state /\ m.linkUp = k.linkUp
      /\ m.acd = "PROBING" /\ m.address = k.address
  BY <1>1, Zenon DEF Moved, KeepsRest, Interfaces, AcdStates
<1> HIDE DEF m
<1> QED
  BY <1>1, <1>2, <1>3 DEF Kept, Sound, Moved, KeepsRest, dhcp_supplied_address

(* dhcp_recv of a DHCPACK: an offered address is checked, a renewed one    *)
(* bound.                                                                  *)
LEMMA AckIsSound ==
  ASSUME NEW n, Sound(n), NEW finite \in BOOLEAN, NEW givesDns \in BOOLEAN
  PROVE  Kept(n, RecvAck(n, finite, givesDns))
<1> DEFINE m == dhcp_handle_ack(n, givesDns)
<1>1. Kept(n, m) /\ m.state = n.state /\ m.acd = n.acd
  <2>1. CASE givesDns
    BY <2>1, AsideIsSound, Zenon DEF dhcp_handle_ack, Sound, Interfaces
  <2>2. CASE ~givesDns
    BY <2>2 DEF dhcp_handle_ack, Kept
  <2> QED
    BY <2>1, <2>2
<1>2. CASE n.state = "REQUESTING"
  <2>1. RecvAck(n, finite, givesDns) = dhcp_check(m)
    BY <1>2 DEF RecvAck
  <2> HIDE DEF m
  <2>2. m.linkUp /\ m.state = "REQUESTING"
    BY <1>1, <1>2 DEF Kept, Sound, Interfaces
  <2>3. Kept(m, dhcp_check(m))
    BY <1>1, <2>2, CheckIsSound, Zenon DEF Kept
  <2> QED
    BY <1>1, <2>1, <2>3 DEF Kept
<1>3. CASE n.state \in {"REBINDING", "RENEWING"}
  <2>1. RecvAck(n, finite, givesDns) = dhcp_bind(m, finite)
    BY <1>3 DEF RecvAck
  <2> HIDE DEF m
  <2>2. m \in Interfaces /\ m.linkUp /\ m.acd \in {"OFF", "ONGOING"}
    BY <1>1, <1>3 DEF Kept, Sound, Interfaces, AcdStates
  <2>3. Kept(m, dhcp_bind(m, finite))
    BY <2>2, BindIsSound
  <2> QED
    BY <1>1, <2>1, <2>3 DEF Kept
<1>4. CASE n.state \notin {"REQUESTING", "REBOOTING", "REBINDING", "RENEWING"}
  BY <1>4 DEF RecvAck, Kept
<1> QED
  BY <1>2, <1>3, <1>4 DEF Sound

(* dhcp_recv of a DHCPNAK: the address goes before the client asks again.  *)
LEMMA NakIsSound ==
  ASSUME NEW n, Sound(n)
  PROVE  Kept(n, RecvNak(n))
<1> DEFINE k == dhcp_set_state(n, "BACKING_OFF")
           m == [k EXCEPT !.address = "any"]
<1>1. CASE n.state \in {"REQUESTING", "REBINDING", "RENEWING"}
  <2>1. RecvNak(n) = dhcp_discover(m)
    BY <1>1 DEF RecvNak, dhcp_handle_nak
  <2>2. Moved(n, "BACKING_OFF", k)
    BY SetState DEF DhcpStates, Sound
  <2> HIDE DEF k
  <2>3. m \in Interfaces /\ m.linkUp = k.linkUp /\ m.lease = k.lease
        /\ m.acd = k.acd /\ m.address = "any"
    BY <2>2 DEF Moved, KeepsRest, Interfaces, Addresses
  <2> HIDE DEF m
  <2>4. Asked(m, "SELECTING", dhcp_discover(m))
    BY <2>3, Messages
  <2>5. n.linkUp /\ n.acd \in {"OFF", "ONGOING"}
    BY <1>1 DEF Sound, Interfaces, AcdStates
  <2> QED
    BY <2>1, <2>2, <2>3, <2>4, <2>5
    DEF Kept, Sound, Moved, Asked, KeepsRest, dhcp_supplied_address
<1>2. CASE n.state \notin {"REBOOTING", "REQUESTING", "REBINDING", "RENEWING"}
  BY <1>2 DEF RecvNak, Kept
<1> QED
  BY <1>1, <1>2 DEF Sound

(* dhcp_coarse_tmr at the end of a lease: released, and started anew.      *)
LEMMA LeaseEndsIsSound ==
  ASSUME NEW n, Sound(n), n.linkUp, NEW memory \in BOOLEAN
  PROVE  Kept(n, LeaseEnds(n, memory))
<1> DEFINE m == dhcp_release_and_stop(n)
<1>1. Sound(m) /\ m.state = "OFF" /\ m.linkUp
  BY StopIsSound DEF Sound
<1> HIDE DEF m
<1>2. m \in Interfaces /\ m.address # "lease"
  BY <1>1 DEF Sound, dhcp_supplied_address
<1>3. Sound(dhcp_start(m, memory)) /\ dhcp_start(m, memory).linkUp
  BY <1>1, <1>2, StartIsSound
<1>4. dhcp_start(m, memory).linkUp = n.linkUp
  BY <1>3 DEF Sound, Interfaces
<1> QED
  BY <1>3, <1>4 DEF Kept, LeaseEnds, m

(* dhcp_timeout.  Conflict detection that slows the search down has no     *)
(* timer to run out.                                                       *)
LEMMA TimeoutIsSound ==
  ASSUME NEW n, Sound(n), n.timer, NEW memory \in BOOLEAN
  PROVE  Kept(n, dhcp_timeout(n, memory))
<1> DEFINE m == [n EXCEPT !.timer = FALSE]
<1>1. Kept(n, m) /\ m.state = n.state /\ m.acd = n.acd /\ m.address = n.address
  BY AsideIsSound, Zenon DEF Sound, Interfaces
<1>2. m \in Interfaces /\ n.acd # "RATE_LIMIT"
  BY <1>1 DEF Kept, Sound
<1>3. CASE n.state \in {"BACKING_OFF", "SELECTING"}
  <2>1. dhcp_timeout(n, memory) = dhcp_discover(m)
    BY <1>3 DEF dhcp_timeout
  <2> HIDE DEF m
  <2>2. Asked(m, "SELECTING", dhcp_discover(m))
    BY <1>2, Messages
  <2>3. m.linkUp /\ m.acd \notin {"PROBING", "ANNOUNCING", "RATE_LIMIT"}
        /\ m.address # "lease"
    BY <1>1, <1>2, <1>3 DEF Kept, Sound, dhcp_supplied_address, Interfaces
  <2> QED
    BY <1>1, <2>1, <2>2, <2>3, AskingIsSound, Zenon DEF Kept
<1>4. CASE n.state = "REQUESTING"
  <2>1. m.linkUp /\ m.acd \notin {"PROBING", "ANNOUNCING", "RATE_LIMIT"}
        /\ m.address # "lease"
    BY <1>1, <1>2, <1>4 DEF Kept, Sound, dhcp_supplied_address, Interfaces
  <2>2. n.tries \in Int
    BY DhcpAssumption DEF Sound, Interfaces, Tries
  <2>3. CASE n.tries <= MaxSelectTries
    <3>1. dhcp_timeout(n, memory) = dhcp_select(m)
      BY <1>4, <2>2, <2>3, DhcpAssumption DEF dhcp_timeout
    <3> HIDE DEF m
    <3>2. Asked(m, "REQUESTING", dhcp_select(m))
      BY <1>2, Messages
    <3> QED
      BY <1>1, <2>1, <3>1, <3>2, AskingIsSound, Zenon DEF Kept
  <2>4. CASE n.tries > MaxSelectTries
    <3>1. dhcp_timeout(n, memory) = LeaseEnds(m, memory)
      BY <1>4, <2>2, <2>4, DhcpAssumption DEF dhcp_timeout, LeaseEnds
    <3> HIDE DEF m
    <3>2. Kept(m, LeaseEnds(m, memory))
      BY <1>1, <2>1, LeaseEndsIsSound, Zenon DEF Kept
    <3> QED
      BY <1>1, <3>1, <3>2 DEF Kept
  <2> QED
    BY <2>2, <2>3, <2>4, DhcpAssumption
<1>5. CASE n.state \notin {"BACKING_OFF", "SELECTING", "REQUESTING", "REBOOTING"}
  <2>1. dhcp_timeout(n, memory) = m
    BY <1>5 DEF dhcp_timeout
  <2> QED
    BY <1>1, <2>1
<1> QED
  BY <1>3, <1>4, <1>5 DEF Sound

(* dhcp_t1_timeout and dhcp_t2_timeout, in whatever state they find the    *)
(* client.                                                                 *)
LEMMA RenewalIsSound ==
  ASSUME NEW n, Sound(n)
  PROVE  Kept(n, dhcp_t1_timeout(n)) /\ Kept(n, dhcp_t2_timeout(n))
<1>1. /\ Asked(n, "RENEWING", dhcp_renew(n))
      /\ Asked(n, "REBINDING", dhcp_rebind(n))
  BY Messages DEF Sound
<1>2. ASSUME n.state \in {"REQUESTING", "BOUND", "RENEWING", "REBINDING"}
      PROVE  n.linkUp /\ n.acd \notin {"PROBING", "ANNOUNCING", "RATE_LIMIT"}
  BY <1>2 DEF Sound
<1>3. Kept(n, dhcp_t1_timeout(n))
  BY <1>1, <1>2, AskingIsSound DEF dhcp_t1_timeout, Kept
<1>4. Kept(n, dhcp_t2_timeout(n))
  BY <1>1, <1>2, AskingIsSound DEF dhcp_t2_timeout, Kept
<1> QED
  BY <1>3, <1>4

(* Conflict detection starts the client again after its wait.              *)
LEMMA RestartIsSound ==
  ASSUME NEW n \in Interfaces, n.linkUp, n.acd = "OFF", n.address # "lease"
  PROVE  Kept(n, AcdRestartClient(n))
<1> DEFINE k == dhcp_set_state(n, "BACKING_OFF")
           m == [k EXCEPT !.timer = TRUE]
<1>1. Moved(n, "BACKING_OFF", k)
  BY SetState DEF DhcpStates
<1>2. AcdRestartClient(n) = m
  BY DEF AcdRestartClient
<1> HIDE DEF k
<1>3. m \in Interfaces /\ m.state = k.state /\ m.linkUp = k.linkUp
      /\ m.acd = k.acd /\ m.address = k.address
  BY <1>1, Zenon DEF Moved, KeepsRest, Interfaces
<1> HIDE DEF m
<1> QED
  BY <1>1, <1>2, <1>3 DEF Kept, Sound, Moved, KeepsRest

(* acd_restart: the address is declined, and the client waits a short or a *)
(* long time.                                                              *)
LEMMA AcdRestartIsSound ==
  ASSUME NEW n, Sound(n), n.acd \in {"PROBING", "ANNOUNCING", "ONGOING"}
  PROVE  Kept(n, acd_restart(n))
<1> DEFINE c == IF n.conflicts < MaxConflicts THEN n.conflicts + 1
                                              ELSE n.conflicts
           counted == [n EXCEPT !.conflicts = c]
           k == dhcp_set_state(counted, "BACKING_OFF")
           declined == [k EXCEPT !.address = "any"]
           limited == [declined EXCEPT !.acd = "RATE_LIMIT"]
           off == [declined EXCEPT !.acd = "OFF"]
<1>1. n \in Interfaces /\ n.linkUp /\ n.state # "BACKING_OFF"
  BY DEF Sound, Interfaces
<1>2. c \in 0..MaxConflicts
  BY <1>1, DhcpAssumption DEF Interfaces
<1>3. acd_restart(n) = IF declined.conflicts >= MaxConflicts
                       THEN limited ELSE AcdRestartClient(off)
  BY DEF acd_restart, AcdDecline
<1> HIDE DEF c
<1>4. counted \in Interfaces /\ counted.linkUp /\ counted.state = n.state
  BY <1>1, <1>2 DEF Interfaces
<1> HIDE DEF counted
<1>5. Moved(counted, "BACKING_OFF", k)
  BY <1>4, SetState DEF DhcpStates
<1> HIDE DEF k
<1>6. declined \in Interfaces /\ declined.linkUp
      /\ declined.state = "BACKING_OFF" /\ declined.address = "any"
      /\ declined.timer = k.timer
  BY <1>4, <1>5, Zenon DEF Moved, KeepsRest, Interfaces, Addresses
<1>7. ~k.timer
  BY <1>1, <1>4, <1>5 DEF Moved
<1> HIDE DEF declined
<1>8. Kept(n, limited)
  <2>1. limited \in Interfaces /\ limited.linkUp
        /\ limited.state = "BACKING_OFF" /\ limited.address = "any"
        /\ ~limited.timer /\ limited.acd = "RATE_LIMIT"
    BY <1>6, <1>7 DEF Interfaces, AcdStates
  <2> HIDE DEF limited
  <2>2. Sound(limited)
    BY <2>1 DEF Sound
  <2>3. limited.linkUp = n.linkUp
    BY <1>1, <2>1 DEF Interfaces
  <2> QED
    BY <2>2, <2>3 DEF Kept
<1>9. Kept(n, AcdRestartClient(off))
  <2>1. off \in Interfaces /\ off.linkUp /\ off.acd = "OFF" /\ off.address # "lease"
    BY <1>6 DEF Interfaces, AcdStates
  <2> HIDE DEF off
  <2>2. Kept(off, AcdRestartClient(off))
    BY <2>1, RestartIsSound
  <2>3. off.linkUp = n.linkUp
    BY <1>1, <2>1 DEF Interfaces
  <2> QED
    BY <2>2, <2>3 DEF Kept
<1> QED
  BY <1>3, <1>8, <1>9

(* acd_arp_reply: another host answers for the address.                    *)
LEMMA ConflictIsSound ==
  ASSUME NEW n, Sound(n)
  PROVE  Kept(n, acd_arp_reply(n))
<1>1. CASE acd_arp_reply(n) = acd_restart(n)
           /\ n.acd \in {"PROBING", "ANNOUNCING", "ONGOING"}
  BY <1>1, AcdRestartIsSound
<1>2. CASE acd_arp_reply(n) = [n EXCEPT !.defending = TRUE]
  BY <1>2, AsideIsSound, Zenon
<1>3. CASE acd_arp_reply(n) = n
  BY <1>3 DEF Kept
<1> QED
  BY <1>1, <1>2, <1>3 DEF acd_arp_reply

(* acd_tmr: the probing, the announcing or the long wait is over.          *)
LEMMA AcdTimerIsSound ==
  ASSUME NEW n, Sound(n), NEW finite \in BOOLEAN,
         n.acd \in {"PROBING", "ANNOUNCING", "RATE_LIMIT"}
  PROVE  Kept(n, acd_tmr(n, finite))
<1>1. n \in Interfaces /\ n.linkUp
  BY DEF Sound, Interfaces
<1>2. CASE n.acd = "PROBING"
  <2> DEFINE m == [n EXCEPT !.acd = "ANNOUNCING", !.conflicts = 0]
  <2>1. acd_tmr(n, finite) = m
    BY <1>2 DEF acd_tmr
  <2>2. 0 \in 0..MaxConflicts
    BY DhcpAssumption
  <2>3. m \in Interfaces /\ m.state = n.state /\ m.linkUp = n.linkUp
        /\ m.address = n.address /\ m.acd = "ANNOUNCING"
    BY <1>1, <2>2, Zenon DEF Interfaces, AcdStates
  <2> HIDE DEF m
  <2> QED
    BY <1>1, <1>2, <2>1, <2>3 DEF Kept, Sound, dhcp_supplied_address
<1>3. CASE n.acd = "ANNOUNCING"
  <2> DEFINE m == [n EXCEPT !.acd = "ONGOING"]
  <2>1. acd_tmr(n, finite) = dhcp_bind(m, finite)
    BY <1>3 DEF acd_tmr, AcdIpOk
  <2>2. m \in Interfaces /\ m.linkUp = n.linkUp /\ m.acd = "ONGOING"
    BY <1>1, Zenon DEF Interfaces, AcdStates
  <2> HIDE DEF m
  <2>3. Kept(m, dhcp_bind(m, finite))
    BY <1>1, <2>2, BindIsSound, Zenon
  <2> QED
    BY <2>1, <2>2, <2>3 DEF Kept
<1>4. CASE n.acd = "RATE_LIMIT"
  <2> DEFINE m == [n EXCEPT !.acd = "OFF"]
  <2>1. acd_tmr(n, finite) = AcdRestartClient(m)
    BY <1>4 DEF acd_tmr
  <2>2. m \in Interfaces /\ m.linkUp = n.linkUp /\ m.acd = "OFF"
        /\ m.address = n.address
    BY <1>1, Zenon DEF Interfaces, AcdStates
  <2>3. n.address # "lease"
    BY <1>4 DEF Sound, dhcp_supplied_address
  <2> HIDE DEF m
  <2>4. Kept(m, AcdRestartClient(m))
    BY <1>1, <2>2, <2>3, RestartIsSound, Zenon
  <2> QED
    BY <2>1, <2>2, <2>4 DEF Kept
<1> QED
  BY <1>2, <1>3, <1>4

-------------------------------------------------------------------------------
(* The service.                                                            *)

Services == [net: Interfaces, configuration: Configurations,
             ready: BOOLEAN, late: BOOLEAN]

(* The service chose nothing and promises nothing without a link.          *)
Settled(s) ==
  /\ s \in Services
  /\ Sound(s.net)
  /\ ~s.net.linkUp => s.configuration = "NONE" /\ ~s.ready
  /\ s.ready => s.configuration # "NONE"

(* The fallback's address is not the lease's: applied with the link up, it *)
(* leaves the client running.                                              *)
LEMMA FallbackIsSettled ==
  ASSUME NEW s \in Services, Sound(s.net), s.net.linkUp
  PROVE  Settled(networkService_ApplyFallback(s))
<1> DEFINE n == s.net
           m == [n EXCEPT !.address = "fallback", !.dns = "fallback"]
           t == [s EXCEPT !.net = m, !.configuration = "FALLBACK"]
           r == [t EXCEPT !.ready = t.net.linkUp]
<1>1. networkService_ApplyFallback(s) = r
  BY DEF networkService_ApplyFallback, networkService_Report
<1>2. n \in Interfaces /\ Sound(n) /\ n.linkUp
  BY DEF Services
<1> HIDE DEF n
<1>3. m \in Interfaces /\ m.linkUp = n.linkUp /\ m.state = n.state
      /\ m.acd = n.acd /\ m.lease = n.lease /\ m.timer = n.timer
      /\ m.address = "fallback"
  BY <1>2, Zenon DEF Interfaces, Addresses
<1> HIDE DEF m
<1>4. Sound(m) /\ m.linkUp
  BY <1>2, <1>3 DEF Sound
<1>5. t \in Services /\ t.net = m /\ t.configuration = "FALLBACK"
  BY <1>3, Zenon DEF Services, Configurations
<1> HIDE DEF t
<1>6. t.net.linkUp \in BOOLEAN
  BY <1>3, <1>5 DEF Interfaces
<1>7. r \in Services /\ r.net = m /\ r.configuration = "FALLBACK"
  BY <1>5, <1>6 DEF Services
<1> HIDE DEF r
<1> QED
  BY <1>1, <1>4, <1>7 DEF Settled

(* networkService_StartDhcp, with or without memory for the client.        *)
LEMMA StartDhcpIsSettled ==
  ASSUME NEW s \in Services, s.net.linkUp, NEW memory \in BOOLEAN
  PROVE  Settled(networkService_StartDhcp(s, memory))
<1> DEFINE n == s.net
           m == [n EXCEPT !.address = "any", !.dns = "any"]
           started == dhcp_start(m, memory)
           reset == [net |-> started, configuration |-> "NONE",
                     ready |-> FALSE, late |-> FALSE]
<1>1. networkService_StartDhcp(s, memory)
        = IF memory THEN reset ELSE networkService_ApplyFallback(reset)
  BY DEF networkService_StartDhcp
<1>2. n \in Interfaces /\ n.linkUp
  BY DEF Services
<1> HIDE DEF n
<1>3. m \in Interfaces /\ m.linkUp /\ m.address = "any"
  BY <1>2, Zenon DEF Interfaces, Addresses
<1> HIDE DEF m
<1>4. Sound(started) /\ started.linkUp
  BY <1>3, StartIsSound
<1> HIDE DEF started
<1>5. reset \in Services /\ reset.net = started /\ reset.ready = FALSE
  BY <1>4 DEF Services, Configurations, Sound
<1> HIDE DEF reset
<1>6. Settled(reset)
  BY <1>4, <1>5 DEF Settled
<1>7. Settled(networkService_ApplyFallback(reset))
  BY <1>4, <1>5, FallbackIsSettled
<1> QED
  BY <1>1, <1>6, <1>7

(* Whatever the client was doing when the link changed, lwIP's callbacks   *)
(* and the service's bring it to a settled state in one step.              *)
LEMMA UpdateLinkIsSettled ==
  ASSUME NEW s, Settled(s), NEW up \in BOOLEAN, NEW memory \in BOOLEAN
  PROVE  Settled(UpdateLink(s, up, memory))
<1> DEFINE n == s.net
           raised == [n EXCEPT !.linkUp = TRUE]
           lowered == [n EXCEPT !.linkUp = FALSE]
           left == [lowered EXCEPT !.acd = "OFF"]
           su == [s EXCEPT !.net = raised]
           sd == [s EXCEPT !.net = left]
<1>1. n \in Interfaces /\ Sound(n) /\ s \in Services
  BY DEF Settled, Services
<1>2. CASE up /\ ~n.linkUp
  <2>1. raised \in Interfaces /\ raised.linkUp /\ raised.state = n.state
    BY <1>1, Zenon DEF Interfaces
  <2>2. n.state = "OFF"
    BY <1>1, <1>2 DEF Sound
  <2>3. dhcp_network_changed_link_up(raised) = raised
    BY <2>1, <2>2 DEF dhcp_network_changed_link_up
  <2>4. UpdateLink(s, up, memory) = networkService_LinkChanged(su, memory)
    BY <1>2, <2>3, Zenon DEF UpdateLink
  <2> HIDE DEF raised
  <2>5. su \in Services /\ su.net = raised
    BY <1>1, <2>1 DEF Services
  <2> HIDE DEF su
  <2>6. networkService_LinkChanged(su, memory) = networkService_StartDhcp(su, memory)
    BY <2>1, <2>5 DEF networkService_LinkChanged
  <2> QED
    BY <2>1, <2>4, <2>5, <2>6, StartDhcpIsSettled
<1>3. CASE ~up /\ n.linkUp
  <2>1. UpdateLink(s, up, memory) = networkService_LinkChanged(sd, memory)
    BY <1>3 DEF UpdateLink, acd_network_changed_link_down
  <2> HIDE DEF n
  <2>2. left \in Interfaces /\ left.linkUp = FALSE /\ left.state = n.state
        /\ left.lease = n.lease /\ left.acd = "OFF" /\ left.address = n.address
    BY <1>1, Zenon DEF Interfaces, AcdStates
  <2> HIDE DEF left
  <2>3. sd.net = left
    BY <1>1 DEF Services
  <2> HIDE DEF sd
  <2> DEFINE stopped == dhcp_release_and_stop(left)
             r == [net |-> stopped, configuration |-> "NONE",
                   ready |-> FALSE, late |-> FALSE]
  <2>4. networkService_LinkChanged(sd, memory) = r
    BY <2>2, <2>3 DEF networkService_LinkChanged
  <2>5. /\ left.state = "OFF" => left.acd = "OFF" /\ ~left.lease
        /\ left.address = "lease" => dhcp_supplied_address(left)
    BY <1>1, <2>2 DEF Sound, dhcp_supplied_address
  <2>6. Sound(stopped)
    BY <2>2, <2>5, StopIsSound
  <2> HIDE DEF stopped
  <2>7. r \in Services /\ r.net = stopped /\ r.configuration = "NONE"
        /\ r.ready = FALSE
    BY <2>6 DEF Services, Configurations, Sound
  <2> HIDE DEF r
  <2> QED
    BY <2>1, <2>4, <2>6, <2>7 DEF Settled
<1>4. CASE ~(up /\ ~n.linkUp) /\ ~(~up /\ n.linkUp)
  <2>1. UpdateLink(s, up, memory) = s
    BY <1>4 DEF UpdateLink
  <2> QED
    BY <2>1
<1> QED
  BY <1>2, <1>3, <1>4

(* The part of CoreProcess that follows the DHCP client.                   *)
LEMMA FollowDhcpIsSettled ==
  ASSUME NEW s, Settled(s)
  PROVE  Settled(FollowDhcp(s))
<1> DEFINE t == [s EXCEPT !.configuration = "DHCP"]
           r == [t EXCEPT !.ready = t.net.linkUp]
<1>1. s \in Services /\ Sound(s.net)
  BY DEF Settled
<1>2. CASE FollowDhcp(s) = s
  BY <1>2
<1>3. CASE FollowDhcp(s) = networkService_Report(t) /\ s.net.linkUp
  <2>1. networkService_Report(t) = r
    BY DEF networkService_Report
  <2>2. t \in Services /\ t.net = s.net /\ t.configuration = "DHCP"
    BY <1>1 DEF Services, Configurations
  <2> HIDE DEF t
  <2>3. t.net.linkUp \in BOOLEAN
    BY <2>2 DEF Services, Interfaces
  <2>4. r \in Services /\ r.net = s.net /\ r.configuration = "DHCP"
    BY <2>2, <2>3 DEF Services
  <2> HIDE DEF r
  <2> QED
    BY <1>1, <1>3, <2>1, <2>4 DEF Settled
<1>4. CASE FollowDhcp(s) = networkService_ApplyFallback(s) /\ s.net.linkUp
  BY <1>1, <1>4, FallbackIsSettled
<1> QED
  BY <1>2, <1>3, <1>4 DEF FollowDhcp

-------------------------------------------------------------------------------
(* The inductive invariant.                                                *)
NetworkInvariant == NetworkTypeOK /\ Settled(Service)

(* The service's state is that of its variables.                           *)
LEMMA ServiceFields ==
  /\ Service.net = net /\ Service.configuration = configuration
  /\ Service.ready = networkReady /\ Service.late = late
BY DEF Service

(* The service's step takes the state its functions return.                *)
LEMMA BecomesSettled ==
  ASSUME NEW s, Settled(s), Becomes(s)
  PROVE  /\ Settled(Service)'
         /\ net' \in Interfaces /\ configuration' \in Configurations
         /\ networkReady' \in BOOLEAN /\ late' \in BOOLEAN
<1>1. s \in Services
  BY DEF Settled
<1>2. /\ net' \in Interfaces /\ configuration' \in Configurations
      /\ networkReady' \in BOOLEAN /\ late' \in BOOLEAN
  BY <1>1 DEF Becomes, Services
<1>3. Service' = s
  BY <1>1 DEF Service, Becomes, Services
<1> QED
  BY <1>2, <1>3

(* A step of lwIP's that keeps the interface sound and the link as it was. *)
LEMMA LwipSettled ==
  ASSUME NetworkInvariant, NEW m, Kept(net, m), Lwip(m)
  PROVE  /\ Settled(Service)'
         /\ net' \in Interfaces
<1>1. net' = m /\ Service'.net = m /\ Service'.configuration = configuration
      /\ Service'.ready = networkReady /\ Service'.late = late
  BY DEF Lwip, Service
<1>2. m \in Interfaces /\ Sound(m) /\ m.linkUp = net.linkUp
  BY DEF Kept, Sound
<1>3. Service' \in Services
  BY <1>2 DEF Lwip, Service, Services, NetworkInvariant, NetworkTypeOK
<1>4. /\ ~net.linkUp => configuration = "NONE" /\ ~networkReady
      /\ networkReady => configuration # "NONE"
  BY ServiceFields DEF NetworkInvariant, Settled
<1>5. Settled(Service')
  BY <1>1, <1>2, <1>3, <1>4 DEF Settled
<1> QED
  BY <1>1, <1>2, <1>5

(* No step takes more than one of the faults that are left.                *)
LEMMA TroublesCounted ==
  ASSUME NetworkTypeOK,
         \/ UNCHANGED troubles
         \/ Suffer
         \/ \E memory \in BOOLEAN : Allocation(memory)
  PROVE  troubles' \in 0..MaxTroubles
BY NetworkAssumption DEF NetworkTypeOK, Suffer, Allocation

(* The interface before CoreInit.                                          *)
LEMMA NetworkInit ==
  ASSUME Init
  PROVE  NetworkInvariant
<1> DEFINE n == NoClient(FALSE)
<1>1. 0 \in Tries /\ 0 \in 0..MaxConflicts /\ MaxTroubles \in 0..MaxTroubles
  BY DhcpAssumption, NetworkAssumption DEF Tries
<1>2. n \in Interfaces /\ n.linkUp = FALSE /\ n.state = "OFF" /\ n.acd = "OFF"
      /\ n.lease = FALSE /\ n.address = "any"
  BY <1>1 DEF NoClient, Interfaces, DhcpStates, AcdStates, Addresses
<1>3. net = n
  BY DEF Init
<1> HIDE DEF n
<1>4. NetworkTypeOK
  BY <1>1, <1>2, <1>3, Zenon DEF Init, NetworkTypeOK, Configurations
<1>5. Sound(net)
  BY <1>2, <1>3 DEF Sound
<1>6. Service \in Services
  BY <1>4 DEF NetworkTypeOK, Service, Services
<1>7. Settled(Service)
  BY <1>5, <1>6, ServiceFields, Zenon DEF Init, Settled
<1> QED
  BY <1>4, <1>7 DEF NetworkInvariant

(* Every callback on the tcpip thread, whatever came before it.            *)
LEMMA LwipStep ==
  ASSUME NetworkInvariant,
         \/ Offer \/ Ack \/ Nak \/ Conflict \/ RequestTimesOut \/ AcdTimer
         \/ DefenceEnds \/ Renewal \/ Expiry
  PROVE  NetworkInvariant'
<1>1. Sound(net)
  BY ServiceFields DEF NetworkInvariant, Settled
<1>2. ASSUME NEW m, Kept(net, m), Lwip(m), troubles' \in 0..MaxTroubles
      PROVE  NetworkInvariant'
  <2>1. Settled(Service)' /\ net' \in Interfaces
    BY <1>2, LwipSettled
  <2>2. NetworkTypeOK'
    BY <1>2, <2>1 DEF NetworkInvariant, NetworkTypeOK, Lwip
  <2> QED
    BY <2>1, <2>2 DEF NetworkInvariant
<1>3. NetworkTypeOK
  BY DEF NetworkInvariant
<1>4. CASE Offer
  BY <1>1, <1>2, <1>3, <1>4, OfferIsSound, TroublesCounted DEF Offer
<1>5. CASE Ack
  <2>1. PICK finite \in BOOLEAN, givesDns \in BOOLEAN :
          Lwip(RecvAck(net, finite, givesDns))
    BY <1>5 DEF Ack
  <2>2. Kept(net, RecvAck(net, finite, givesDns))
    BY <1>1, AckIsSound
  <2>3. troubles' \in 0..MaxTroubles
    BY <1>3, <1>5, TroublesCounted DEF Ack
  <2> QED
    BY <1>2, <2>1, <2>2, <2>3
<1>6. CASE Nak
  BY <1>1, <1>2, <1>3, <1>6, NakIsSound, TroublesCounted DEF Nak
<1>7. CASE Conflict
  BY <1>1, <1>2, <1>3, <1>7, ConflictIsSound, TroublesCounted DEF Conflict
<1>8. CASE RequestTimesOut
  <2>1. PICK memory \in BOOLEAN :
          Lwip(dhcp_timeout(net, memory)) /\ Allocation(memory)
    BY <1>8 DEF RequestTimesOut
  <2>2. Kept(net, dhcp_timeout(net, memory))
    BY <1>1, <1>8, TimeoutIsSound DEF RequestTimesOut
  <2>3. troubles' \in 0..MaxTroubles
    BY <1>3, <2>1, TroublesCounted
  <2> QED
    BY <1>2, <2>1, <2>2, <2>3
<1>9. CASE AcdTimer
  <2>1. PICK finite \in BOOLEAN : Lwip(acd_tmr(net, finite))
    BY <1>9 DEF AcdTimer
  <2>2. Kept(net, acd_tmr(net, finite))
    BY <1>1, <1>9, AcdTimerIsSound DEF AcdTimer
  <2>3. troubles' \in 0..MaxTroubles
    BY <1>3, <1>9, TroublesCounted DEF AcdTimer
  <2> QED
    BY <1>2, <2>1, <2>2, <2>3
<1>10. CASE DefenceEnds
  BY <1>1, <1>2, <1>3, <1>10, AsideIsSound, TroublesCounted, Zenon DEF DefenceEnds
<1>11. CASE Renewal
  BY <1>1, <1>2, <1>3, <1>11, RenewalIsSound, TroublesCounted DEF Renewal
<1>12. CASE Expiry
  <2>1. PICK memory \in BOOLEAN : Lwip(LeaseEnds(net, memory))
    BY <1>12 DEF Expiry
  <2>2. net.linkUp
    BY <1>1, <1>12 DEF Expiry, Sound
  <2>3. Kept(net, LeaseEnds(net, memory))
    BY <1>1, <2>2, LeaseEndsIsSound
  <2>4. troubles' \in 0..MaxTroubles
    BY <1>3, <1>12, TroublesCounted DEF Expiry
  <2> QED
    BY <1>2, <2>1, <2>3, <2>4
<1> QED
  BY <1>4, <1>5, <1>6, <1>7, <1>8, <1>9, <1>10, <1>11, <1>12

(* Every step keeps the invariant.                                         *)
LEMMA NetworkStep ==
  ASSUME NetworkInvariant, [Next]_vars
  PROVE  NetworkInvariant'
<1>1. NetworkTypeOK /\ Settled(Service)
  BY DEF NetworkInvariant
<1>2. ASSUME NEW s, Settled(s), Becomes(s), troubles' \in 0..MaxTroubles,
             UNCHANGED cable, phase' \in {"starting", "running", "halted"}
      PROVE  NetworkInvariant'
  BY <1>1, <1>2, BecomesSettled DEF NetworkInvariant, NetworkTypeOK
<1>3. ASSUME UNCHANGED <<net, configuration, networkReady, late>>, NetworkTypeOK'
      PROVE  NetworkInvariant'
  BY <1>1, <1>3 DEF NetworkInvariant, Service
<1>4. ASSUME NEW memory \in BOOLEAN, CoreInit(memory)
      PROVE  NetworkInvariant'
  <2>1. Settled(UpdateLink(Service, cable, memory))
    BY <1>1, UpdateLinkIsSettled DEF NetworkTypeOK
  <2>2. troubles' \in 0..MaxTroubles
    BY <1>1, <1>4, TroublesCounted DEF CoreInit
  <2> QED
    BY <1>2, <1>4, <2>1, <2>2 DEF CoreInit
<1>5. ASSUME NEW memory \in BOOLEAN, CoreProcess(memory)
      PROVE  NetworkInvariant'
  <2>1. Settled(UpdateLink(Service, cable, memory))
    BY <1>1, UpdateLinkIsSettled DEF NetworkTypeOK
  <2>2. Settled(FollowDhcp(UpdateLink(Service, cable, memory)))
    BY <2>1, FollowDhcpIsSettled
  <2>3. troubles' \in 0..MaxTroubles
    BY <1>1, <1>5, TroublesCounted DEF CoreProcess
  <2>4. phase' \in {"starting", "running", "halted"} /\ UNCHANGED cable
        /\ Becomes(FollowDhcp(UpdateLink(Service, cable, memory)))
    BY <1>1, <1>5 DEF CoreProcess, NetworkTypeOK
  <2> QED
    BY <1>2, <2>2, <2>3, <2>4
<1>6. CASE InitFails
  <2>1. NetworkTypeOK'
    BY <1>1, <1>6, TroublesCounted DEF InitFails, NetworkTypeOK
  <2> QED
    BY <1>3, <1>6, <2>1 DEF InitFails
<1>7. CASE WatchdogReset
  <2> DEFINE n == NoClient(FALSE)
             s == [net |-> n, configuration |-> "NONE",
                   ready |-> FALSE, late |-> FALSE]
  <2>1. 0 \in Tries /\ 0 \in 0..MaxConflicts
    BY DhcpAssumption DEF Tries
  <2>2. n \in Interfaces /\ n.linkUp = FALSE /\ n.state = "OFF" /\ n.acd = "OFF"
        /\ n.lease = FALSE /\ n.address = "any"
    BY <2>1 DEF NoClient, Interfaces, DhcpStates, AcdStates, Addresses
  <2>3. Becomes(s) /\ phase' = "starting" /\ UNCHANGED <<cable, troubles>>
    BY <1>7 DEF WatchdogReset
  <2> HIDE DEF n
  <2>4. s \in Services /\ s.net = n /\ s.configuration = "NONE" /\ s.ready = FALSE
    BY <2>2 DEF Services, Configurations
  <2> HIDE DEF s
  <2>5. Settled(s)
    BY <2>2, <2>4 DEF Settled, Sound
  <2>6. troubles' \in 0..MaxTroubles
    BY <1>1, <2>3, TroublesCounted
  <2> QED
    BY <1>2, <2>3, <2>5, <2>6
<1>8. CASE CableChanges
  <2>1. NetworkTypeOK'
    BY <1>1, <1>8, TroublesCounted DEF CableChanges, NetworkTypeOK
  <2> QED
    BY <1>3, <1>8, <2>1 DEF CableChanges
<1>9. CASE TimePasses
  <2>1. Service'.net = net /\ Service'.configuration = configuration
        /\ Service'.ready = networkReady /\ Service' \in Services
    BY <1>1, <1>9 DEF TimePasses, Service, Services, NetworkTypeOK
  <2>2. Settled(Service')
    BY <1>1, <2>1, ServiceFields DEF Settled
  <2>3. NetworkTypeOK'
    BY <1>1, <1>9 DEF TimePasses, NetworkTypeOK
  <2> QED
    BY <2>2, <2>3 DEF NetworkInvariant
<1>10. CASE UNCHANGED vars
  <2>1. NetworkTypeOK'
    BY <1>1, <1>10 DEF NetworkTypeOK, vars
  <2> QED
    BY <1>3, <1>10, <2>1 DEF vars
<1> QED
  BY <1>4, <1>5, <1>6, <1>7, <1>8, <1>9, <1>10, LwipStep DEF Next

(* The invariant holds in every reachable state, for any limits of the     *)
(* DHCP client and any number of faults: what CoreProcess, the DHCP client *)
(* and the conflict detection leave each other to find.                    *)
THEOREM NetworkCorrect == Spec => []NetworkInvariant
BY NetworkInit, NetworkStep, PTL DEF Spec

(* LinkLossRevokes for any limits of the client and any number of faults:  *)
(* whatever the DHCP client or the conflict detection was doing when the   *)
(* link went down, CoreProcess leaves the client off, no leased address    *)
(* and no task told that the network is ready.                             *)
THEOREM LinkLossAlwaysRevokes == Spec => []LinkLossRevokes
<1>1. NetworkInvariant => LinkLossRevokes
  BY ServiceFields
  DEF NetworkInvariant, Settled, Sound, LinkLossRevokes, dhcp_supplied_address
<1> QED
  BY <1>1, NetworkCorrect, PTL

(* AddressHasOwner likewise: refusals, conflicts, expiries and timeouts in *)
(* any order leave no leased address without its lease.                    *)
THEOREM AddressAlwaysOwned == Spec => []AddressHasOwner
<1>1. NetworkInvariant => AddressHasOwner
  BY ServiceFields
  DEF NetworkInvariant, Settled, Sound, AddressHasOwner
<1> QED
  BY <1>1, NetworkCorrect, PTL
===============================================================================
