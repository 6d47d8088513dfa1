--------------------------- MODULE DeliveryProofs ---------------------------
(***************************************************************************)
(* What is handed in comes out once.  For every number of batches and      *)
(* every channel size the id batcher loses and duplicates nothing, is a    *)
(* delay line of exactly NumBatches switches, never blocks in a switch,    *)
(* and implements the atomic BatchPipeline; for any log of events and any  *)
(* restarts the receiver of RawEvents reports an event once.               *)
(***************************************************************************)
EXTENDS IdBatcher, RawEvents, TLAPS

-----------------------------------------------------------------------------
(* IdBatcher. *)

\* The ages behind DelayExact in every state of the reader, the middle of a
\* switch included, and of the ids that have not entered the pipe.
Ages ==
  /\ \A k \in DOMAIN batches : \A x \in batches[k] :
       /\ rpc \in {"idle", "stopping"} => age[x] + k = NumBatches + 1
       /\ rpc = "push" => age[x] + k = NumBatches
  /\ \A x \in readBatch : age[x] = NumBatches
  /\ rpc \in {"idle", "push", "stopping"} => \A x \in returned : age[x] = NumBatches
  /\ \A x \in Items : x \notin InBatches \cup readBatch \cup returned => age[x] = 0

\* How far Stop has got: what is closed, what is empty.
Stopping ==
  /\ idsClosed <=> rpc \in {"stopping", "drain", "done"}
  /\ rpc \in {"drain", "done"} => fillerDone
  /\ fillerDone => pendingIds = {} /\ hand = NoId /\ idsClosed
  /\ rpc # "push" => readBatch = {}
  /\ rpc = "done" => batches = <<>> /\ currentBatch = {}

IndInv == BatcherTypeOK /\ ExactlyOnce /\ SwitchNeverBlocks /\ Ages /\ Stopping

-----------------------------------------------------------------------------
(* How the batches of the pipe change with a receive and with a send. *)

\* A receive leaves the batches after the first, one place further on.
LEMMA TailBatches ==
  ASSUME NEW S, NEW s \in Seq(S), s # <<>>
  PROVE  /\ Tail(s) \in Seq(S)
         /\ Head(s) \in S
         /\ Head(s) = s[1]
         /\ 1 \in DOMAIN s
         /\ Len(Tail(s)) = Len(s) - 1
         /\ DOMAIN Tail(s) = 1 .. (Len(s) - 1)
         /\ \A k \in DOMAIN Tail(s) : k + 1 \in DOMAIN s /\ Tail(s)[k] = s[k + 1]
         /\ \A k \in DOMAIN s : k # 1 => k - 1 \in DOMAIN Tail(s) /\ Tail(s)[k - 1] = s[k]
  OBVIOUS

\* A send adds one batch at the end.
LEMMA AppendBatches ==
  ASSUME NEW S, NEW s \in Seq(S), NEW b \in S
  PROVE  /\ Append(s, b) \in Seq(S)
         /\ Len(Append(s, b)) = Len(s) + 1
         /\ DOMAIN Append(s, b) = 1 .. (Len(s) + 1)
         /\ Append(s, b)[Len(s) + 1] = b
         /\ \A k \in DOMAIN s : k \in DOMAIN Append(s, b) /\ Append(s, b)[k] = s[k]
         /\ \A k \in DOMAIN Append(s, b) : k = Len(s) + 1 \/ k \in DOMAIN s
  OBVIOUS

UnionOf(s) == UNION {s[k] : k \in DOMAIN s}

\* What a receive leaves in the pipe, and what a send adds to it.
LEMMA TailUnion ==
  ASSUME NEW S, NEW s \in Seq(S), s # <<>>
  PROVE  UnionOf(s) = Head(s) \cup UnionOf(Tail(s))
<1>1. \A x : x \in UnionOf(s) <=> \E k \in DOMAIN s : x \in s[k]
  BY DEF UnionOf
<1>2. \A x : x \in UnionOf(Tail(s)) <=> \E k \in DOMAIN Tail(s) : x \in Tail(s)[k]
  BY DEF UnionOf
<1>3. ASSUME NEW x \in UnionOf(s)
      PROVE  x \in Head(s) \cup UnionOf(Tail(s))
  <2>1. PICK k \in DOMAIN s : x \in s[k]
    BY <1>1, <1>3
  <2>2. CASE k = 1
    BY <2>1, <2>2, TailBatches
  <2>3. CASE k # 1
    <3>1. k - 1 \in DOMAIN Tail(s) /\ Tail(s)[k - 1] = s[k]
      BY <2>3, TailBatches
    <3> QED BY <3>1, <2>1, <1>2, Zenon
  <2> QED BY <2>2, <2>3
<1>4. ASSUME NEW x \in Head(s) \cup UnionOf(Tail(s))
      PROVE  x \in UnionOf(s)
  BY <1>1, <1>2, <1>4, TailBatches
<1> QED BY <1>3, <1>4

\* A send adds its batch to what the pipe holds.
LEMMA AppendUnion ==
  ASSUME NEW S, NEW s \in Seq(S), NEW b \in S
  PROVE  UnionOf(Append(s, b)) = UnionOf(s) \cup b
<1>1. \A x : x \in UnionOf(s) <=> \E k \in DOMAIN s : x \in s[k]
  BY DEF UnionOf
<1>2. \A x : x \in UnionOf(Append(s, b))
               <=> \E k \in DOMAIN Append(s, b) : x \in Append(s, b)[k]
  BY Zenon DEF UnionOf
<1>3. ASSUME NEW x \in UnionOf(Append(s, b))
      PROVE  x \in UnionOf(s) \cup b
  BY <1>1, <1>2, <1>3, AppendBatches
<1>4. ASSUME NEW x \in UnionOf(s) \cup b
      PROVE  x \in UnionOf(Append(s, b))
  BY <1>1, <1>2, <1>4, AppendBatches
<1> QED BY <1>3, <1>4

-----------------------------------------------------------------------------
(* The invariant. *)

\* New leaves empty batches in the channel and nothing in flight.
LEMMA InitIndInv == BatcherInit => IndInv
<1> SUFFICES ASSUME BatcherInit PROVE IndInv
  OBVIOUS
<1> USE SizesAssumption DEF BatcherInit
<1>1. batches \in Seq(SUBSET Items) /\ Len(batches) = NumBatches
  OBVIOUS
<1>2. InBatches = {}
  BY DEF InBatches
<1>3. BatcherTypeOK
  BY <1>1, Zenon DEF BatcherTypeOK
<1>4. ExactlyOnce
  BY <1>2 DEF ExactlyOnce, InHand
<1>5. SwitchNeverBlocks
  BY <1>1 DEF SwitchNeverBlocks
<1>6. Ages
  BY <1>2 DEF Ages
<1>7. Stopping
  BY DEF Stopping
<1> QED BY <1>3, <1>4, <1>5, <1>6, <1>7 DEF IndInv

\* Every step of the caller, the filler and Stop preserves the invariant.
LEMMA NextIndInv == IndInv /\ [BatcherNext]_batcherVars => IndInv'
<1> SUFFICES ASSUME IndInv, [BatcherNext]_batcherVars PROVE IndInv'
  OBVIOUS
<1> USE SizesAssumption DEF IndInv
<1>1. ASSUME NEW x \in Items, AddToCurrentBatch(x) PROVE IndInv'
  <2> USE <1>1 DEF AddToCurrentBatch
  <2>1. InBatches' = InBatches /\ InHand' = InHand
    BY DEF InBatches, InHand
  <2>2. BatcherTypeOK'
    BY Zenon DEF BatcherTypeOK
  <2>3. ExactlyOnce'
    BY <2>1 DEF ExactlyOnce, Added
  <2>4. SwitchNeverBlocks'
    BY Zenon DEF SwitchNeverBlocks
  <2>5. Ages'
    BY <2>1, Zenon DEF Ages, Added
  <2>6. Stopping'
    BY Zenon DEF Stopping
  <2> QED BY <2>2, <2>3, <2>4, <2>5, <2>6, Zenon
<1>2. ASSUME NEW x \in Items, FillerReceive(x) PROVE IndInv'
  <2> USE <1>2 DEF FillerReceive
  <2>1. InBatches' = InBatches /\ InHand = {} /\ InHand' = {x}
    BY DEF InBatches, InHand
  <2>2. BatcherTypeOK'
    BY DEF BatcherTypeOK
  <2>3. ExactlyOnce'
    BY <2>1 DEF ExactlyOnce
  <2>4. SwitchNeverBlocks'
    BY DEF SwitchNeverBlocks
  <2>5. Ages'
    BY <2>1, Zenon DEF Ages
  <2>6. Stopping'
    BY Zenon DEF Stopping
  <2> QED BY <2>2, <2>3, <2>4, <2>5, <2>6
<1>3. ASSUME FillerAppend PROVE IndInv'
  <2> USE <1>3 DEF FillerAppend
  <2>1. InBatches' = InBatches /\ InHand = {hand} /\ InHand' = {}
    BY DEF InBatches, InHand
  <2>2. BatcherTypeOK'
    BY Zenon DEF BatcherTypeOK
  <2>3. ExactlyOnce'
    BY <2>1 DEF ExactlyOnce
  <2>4. SwitchNeverBlocks'
    BY Zenon DEF SwitchNeverBlocks
  <2>5. Ages'
    BY <2>1, Zenon DEF Ages
  <2>6. Stopping'
    BY Zenon DEF Stopping
  <2> QED BY <2>2, <2>3, <2>4, <2>5, <2>6
<1>4. ASSUME FillerExit PROVE IndInv'
  <2> USE <1>4 DEF FillerExit
  <2>1. InBatches' = InBatches /\ InHand' = InHand
    BY DEF InBatches, InHand
  <2>2. BatcherTypeOK'
    BY Zenon DEF BatcherTypeOK
  <2>3. ExactlyOnce'
    BY <2>1, Zenon DEF ExactlyOnce
  <2>4. SwitchNeverBlocks'
    BY DEF SwitchNeverBlocks
  <2>5. Ages'
    BY <2>1, Zenon DEF Ages
  <2>6. Stopping'
    BY Zenon DEF Stopping
  <2> QED BY <2>2, <2>3, <2>4, <2>5, <2>6
<1>5. ASSUME CloseReceive PROVE IndInv'
  <2> USE <1>5 DEF CloseReceive
  <2>0. batches \in Seq(SUBSET Items)
    BY Zenon DEF BatcherTypeOK
  <2>1. InBatches = readBatch' \cup InBatches' /\ InHand' = InHand
    BY <2>0, TailUnion DEF InBatches, InHand, UnionOf
  <2>a. readBatch = {} /\ rpc = "idle" /\ readBatch' \in SUBSET Items
    BY <2>0, TailBatches, Zenon DEF Stopping
  <2>2. BatcherTypeOK'
    BY <2>0, <2>a, TailBatches, Zenon DEF BatcherTypeOK
  <2>3. ExactlyOnce'
    BY <2>0, <2>1, <2>a, TailBatches DEF ExactlyOnce, InBatches
  <2>4. SwitchNeverBlocks'
    BY <2>0, TailBatches, Zenon DEF SwitchNeverBlocks
  <2>5. Ages'
    <3>1. ASSUME NEW k \in DOMAIN batches', NEW x \in batches'[k]
          PROVE  age[x] + k = NumBatches
      <4>1. k + 1 \in DOMAIN batches /\ batches'[k] = batches[k + 1] /\ k \in Nat
        BY <2>0, TailBatches
      <4>2. x \in Items /\ age[x] \in Nat
        BY <4>1, <3>1 DEF BatcherTypeOK
      <4>3. age[x] + (k + 1) = NumBatches + 1
        BY <4>1, <3>1, Zenon DEF Ages
      <4> QED BY ONLY <4>1, <4>2, <4>3, SizesAssumption
    <3>2. ASSUME NEW x \in readBatch' PROVE age[x] = NumBatches
      <4>1. 1 \in DOMAIN batches /\ x \in batches[1]
        BY <2>0, <3>2, TailBatches, Zenon
      <4>2. x \in Items /\ age[x] \in Nat
        BY <4>1 DEF BatcherTypeOK
      <4>3. age[x] + 1 = NumBatches + 1
        BY <4>1, Zenon DEF Ages
      <4> QED BY ONLY <4>2, <4>3, SizesAssumption
    <3> QED BY <3>1, <3>2, <2>1, <2>a, Zenon DEF Ages
  <2>6. Stopping'
    BY Zenon DEF Stopping
  <2> QED BY <2>2, <2>3, <2>4, <2>5, <2>6
<1>6. ASSUME ClosePush PROVE IndInv'
  <2> USE <1>6 DEF ClosePush
  <2>0. batches \in Seq(SUBSET Items) /\ currentBatch \in SUBSET Items
    BY Zenon DEF BatcherTypeOK
  <2>1. InBatches' = InBatches \cup currentBatch /\ InHand' = InHand
    <3>1. InBatches' = UnionOf(Append(batches, currentBatch)) /\ InBatches = UnionOf(batches)
      <4>1. batches' = Append(batches, currentBatch)
        OBVIOUS
      <4> QED BY ONLY <4>1 DEF InBatches, UnionOf
    <3>2. UnionOf(Append(batches, currentBatch)) = UnionOf(batches) \cup currentBatch
      BY ONLY <2>0, AppendUnion
    <3>3. InHand' = InHand
      BY DEF InHand
    <3> QED BY <3>1, <3>2, <3>3, Zenon
  <2>a. /\ Len(batches) \in Nat
        /\ Len(batches) + 1 = NumBatches
        /\ age \in [Items -> Nat]
        /\ InBatches \cap (currentBatch \cup readBatch \cup returned) = {}
        /\ currentBatch \cap (readBatch \cup returned) = {}
    BY <2>0 DEF SwitchNeverBlocks, BatcherTypeOK, ExactlyOnce
  <2>2. BatcherTypeOK'
    BY <2>0, <2>a, AppendBatches DEF BatcherTypeOK
  <2>3. ExactlyOnce'
    BY <2>0, <2>1, <2>a, AppendBatches DEF ExactlyOnce, InBatches
  <2>4. SwitchNeverBlocks'
    BY <2>0, <2>a, AppendBatches DEF SwitchNeverBlocks
  <2>5. Ages'
    <3>1. ASSUME NEW k \in DOMAIN batches', NEW x \in batches'[k]
          PROVE  age'[x] + k = NumBatches + 1
      <4>1. CASE k \in DOMAIN batches
        <5>1. batches'[k] = batches[k] /\ k \in Nat
          BY <4>1, <2>0, AppendBatches
        <5>2. x \in batches[k] /\ x \in InBatches
          BY <5>1, <4>1, <3>1, Zenon DEF InBatches
        <5>3. x \in Items /\ age[x] \in Nat
          BY <5>2, <4>1, <2>0, <2>a
        <5>4. age'[x] = age[x] + 1
          BY <5>2, <5>3, Zenon
        <5>5. age[x] + k = NumBatches
          BY <5>2, <4>1, Zenon DEF Ages
        <5> QED BY ONLY <5>1, <5>3, <5>4, <5>5, SizesAssumption
      <4>2. CASE k = Len(batches) + 1
        <5>1. x \in currentBatch
          BY <4>2, <3>1, <2>0, AppendBatches
        <5>2. x \in Items /\ age[x] = 0
          BY <5>1, <2>0, <2>a, Zenon DEF Ages
        <5>3. age'[x] = 1
          BY <5>1, <5>2
        <5> QED BY ONLY <5>3, <4>2, <2>a, SizesAssumption
      <4> QED BY <4>1, <4>2, <2>0, AppendBatches
    <3>2. ASSUME NEW x \in returned' PROVE age'[x] = NumBatches
      BY <3>2, <2>a, Zenon DEF BatcherTypeOK, Ages
    <3>3. ASSUME NEW x \in Items, x \notin InBatches' \cup readBatch' \cup returned'
          PROVE  age'[x] = 0
      BY <2>1, <3>3, Zenon DEF Ages
    <3> QED BY <3>1, <3>2, <3>3, Zenon DEF Ages
  <2>6. Stopping'
    BY Zenon DEF Stopping
  <2> QED BY <2>2, <2>3, <2>4, <2>5, <2>6, Zenon
<1>7. ASSUME StopBegin \/ StopEnd PROVE IndInv'
  <2> USE <1>7 DEF StopBegin, StopEnd
  <2>1. InBatches' = InBatches /\ InHand' = InHand
    BY Zenon DEF InBatches, InHand
  <2>2. BatcherTypeOK'
    BY Zenon DEF BatcherTypeOK
  <2>3. ExactlyOnce'
    BY <2>1, Zenon DEF ExactlyOnce
  <2>4. SwitchNeverBlocks'
    BY Zenon DEF SwitchNeverBlocks
  <2>5. Ages'
    BY <2>1 DEF Ages
  <2>6. Stopping'
    BY DEF Stopping
  <2> QED BY <2>2, <2>3, <2>4, <2>5, <2>6, Zenon
<1>8. ASSUME DrainBatch PROVE IndInv'
  <2> USE <1>8 DEF DrainBatch
  <2>0. batches \in Seq(SUBSET Items) /\ Head(batches) \in SUBSET Items
    BY TailBatches, Zenon DEF BatcherTypeOK
  <2>1. InBatches = Head(batches) \cup InBatches' /\ InHand' = InHand
    BY <2>0, TailUnion DEF InBatches, InHand, UnionOf
  <2>2. BatcherTypeOK'
    BY <2>0, TailBatches, Zenon DEF BatcherTypeOK
  <2>3. ExactlyOnce'
    <3>1. \A k \in DOMAIN batches' : \A m \in DOMAIN batches' :
            k # m => batches'[k] \cap batches'[m] = {}
      BY <2>0, TailBatches DEF ExactlyOnce
    <3>2. Head(batches) \cap InBatches' = {}
      BY <2>0, TailBatches DEF InBatches, ExactlyOnce
    <3> QED BY <3>1, <3>2, <2>1 DEF ExactlyOnce
  <2>4. SwitchNeverBlocks'
    BY Zenon DEF SwitchNeverBlocks
  <2>5. Ages'
    BY <2>1, Zenon DEF Ages
  <2>6. Stopping'
    BY Zenon DEF Stopping
  <2> QED BY <2>2, <2>3, <2>4, <2>5, <2>6, Zenon
<1>9. ASSUME DrainCurrent PROVE IndInv'
  <2> USE <1>9 DEF DrainCurrent
  <2>1. InBatches' = InBatches /\ InHand' = InHand
    BY DEF InBatches, InHand
  <2>2. BatcherTypeOK'
    BY Zenon DEF BatcherTypeOK
  <2>3. ExactlyOnce'
    BY <2>1 DEF ExactlyOnce
  <2>4. SwitchNeverBlocks'
    BY DEF SwitchNeverBlocks
  <2>5. Ages'
    BY <2>1, Zenon DEF Ages
  <2>6. Stopping'
    BY Zenon DEF Stopping
  <2> QED BY <2>2, <2>3, <2>4, <2>5, <2>6
<1>10. CASE UNCHANGED batcherVars
  <2>1. InBatches' = InBatches /\ InHand' = InHand
    BY <1>10 DEF InBatches, InHand, batcherVars
  <2> QED BY <1>10, <2>1 DEF batcherVars, BatcherTypeOK, ExactlyOnce, SwitchNeverBlocks, Ages, Stopping
<1> QED BY <1>1, <1>2, <1>3, <1>4, <1>5, <1>6, <1>7, <1>8, <1>9, <1>10, Zenon
        DEF BatcherNext, Filler, Reader

\* The batcher keeps IndInv through every step of its callers, its filler and its
\* reader, for every number of batches and channel size.
THEOREM BatcherInvariant == BatcherSpec => []IndInv
BY InitIndInv, NextIndInv, PTL DEF BatcherSpec

\* AddToCurrentBatch, the filler and CloseCurrentAndTakeFirstBatch leave an id in
\* one place only, and neither the receive nor the send of a switch ever blocks.
THEOREM BatcherSafe == BatcherSpec => [](BatcherTypeOK /\ ExactlyOnce /\ SwitchNeverBlocks)
<1>1. IndInv => BatcherTypeOK /\ ExactlyOnce /\ SwitchNeverBlocks
  BY DEF IndInv
<1> QED BY <1>1, BatcherInvariant, PTL

\* CloseCurrentAndTakeFirstBatch returns the batch that was filled
\* numBatches switches ago, neither sooner nor later.
THEOREM BatchDelayIsExact == BatcherSpec => []DelayExact
<1>1. IndInv => DelayExact
  BY DEF IndInv, Ages, DelayExact
<1> QED BY <1>1, BatcherInvariant, PTL

\* Once Stop has returned and the reader has drained the batcher, nothing that
\* was added is left in it.
THEOREM StopLeavesNothing == BatcherSpec => []StopDrains
<1>1. IndInv => StopDrains
  BY DEF StopDrains, IndInv, Stopping, InBatches, InHand, Added
<1> QED BY <1>1, BatcherInvariant, PTL

\* No step of the callers, the filler or the reader loses an id that was
\* added: channel, hand, batches and caller together only grow.
THEOREM BatcherLosesNothing == BatcherSpec => NothingLost
<1>1. IndInv /\ [BatcherNext]_batcherVars => [Added \subseteq Added']_batcherVars
  <2> SUFFICES ASSUME IndInv, BatcherNext PROVE Added \subseteq Added'
    BY DEF batcherVars
  <2>0. batches \in Seq(SUBSET Items) /\ currentBatch \in SUBSET Items
    BY DEF IndInv, BatcherTypeOK
  <2>1. ASSUME NEW x \in Items, AddToCurrentBatch(x) PROVE Added \subseteq Added'
    BY <2>1 DEF AddToCurrentBatch, Added, InHand, InBatches
  <2>2. ASSUME NEW x \in Items, FillerReceive(x) PROVE Added \subseteq Added'
    BY <2>2, SizesAssumption DEF FillerReceive, Added, InHand, InBatches
  <2>3. ASSUME FillerAppend PROVE Added \subseteq Added'
    BY <2>3 DEF FillerAppend, Added, InHand, InBatches
  <2>4. ASSUME FillerExit \/ StopBegin \/ StopEnd PROVE Added \subseteq Added'
    BY <2>4 DEF FillerExit, StopBegin, StopEnd, Added, InHand, InBatches
  <2>5. ASSUME CloseReceive PROVE Added \subseteq Added'
    <3>1. InBatches = readBatch' \cup InBatches' /\ InHand' = InHand
      BY <2>0, <2>5, TailUnion DEF CloseReceive, InBatches, InHand, UnionOf
    <3>2. readBatch = {}
      BY <2>5 DEF CloseReceive, IndInv, Stopping
    <3> QED BY <2>5, <3>1, <3>2 DEF CloseReceive, Added
  <2>6. ASSUME ClosePush PROVE Added \subseteq Added'
    BY <2>0, <2>6, AppendUnion DEF ClosePush, InBatches, InHand, UnionOf, Added
  <2>7. ASSUME DrainBatch PROVE Added \subseteq Added'
    BY <2>0, <2>7, TailUnion DEF DrainBatch, InBatches, InHand, UnionOf, Added
  <2>8. ASSUME DrainCurrent PROVE Added \subseteq Added'
    BY <2>8 DEF DrainCurrent, Added, InHand, InBatches
  <2> QED BY <2>1, <2>2, <2>3, <2>4, <2>5, <2>6, <2>7, <2>8 DEF BatcherNext, Filler, Reader
<1> QED BY <1>1, InitIndInv, NextIndInv, PTL DEF BatcherSpec, NothingLost

-----------------------------------------------------------------------------
(* Refinement. *)

PipeBar == IF rpc = "push" THEN <<readBatch>> \o batches ELSE batches

OpenBar == rpc \in {"idle", "push", "stopping"}

\* What the abstract pipe holds in the middle of a switch.
LEMMA ConsBatches ==
  ASSUME NEW S, NEW h \in S, NEW s \in Seq(S)
  PROVE  /\ <<h>> \o s \in Seq(S)
         /\ <<h>> \o s # <<>>
         /\ Head(<<h>> \o s) = h
         /\ Tail(<<h>> \o s) = s
<1>1. /\ <<h>> \o s \in Seq(S)
      /\ Len(<<h>> \o s) = Len(s) + 1
      /\ (<<h>> \o s)[1] = h
      /\ \A k \in 1..Len(s) : (<<h>> \o s)[k + 1] = s[k]
  OBVIOUS
<1>2. <<h>> \o s # <<>> /\ Head(<<h>> \o s) = h
  BY <1>1
<1>3. Tail(<<h>> \o s) = s
  BY <1>1, <1>2, TailBatches
<1> QED BY <1>1, <1>2, <1>3, Zenon

\* A received batch put back in front is the pipe before the receive.
LEMMA HeadTail ==
  ASSUME NEW S, NEW s \in Seq(S), s # <<>>
  PROVE  <<Head(s)>> \o Tail(s) = s
<1>1. Tail(s) \in Seq(S) /\ Head(s) \in S /\ Len(Tail(s)) = Len(s) - 1
  BY TailBatches
<1>2. /\ <<Head(s)>> \o Tail(s) \in Seq(S)
      /\ Len(<<Head(s)>> \o Tail(s)) = Len(s)
  BY <1>1
<1>3. \A k \in 1..Len(s) : (<<Head(s)>> \o Tail(s))[k] = s[k]
  BY <1>1
<1> QED BY <1>2, <1>3

\* Every step of the goroutines is a step of the pipeline or a stutter.
LEMMA StepRefines ==
  ASSUME IndInv, IndInv', [BatcherNext]_batcherVars
  PROVE  [Pipeline!PNext]_(Pipeline!pvars)
<1> USE SizesAssumption DEF IndInv
<1> USE DEF Pipeline!PNext, Pipeline!pvars
<1>0. batches \in Seq(SUBSET Items) /\ currentBatch \in SUBSET Items /\ readBatch \in SUBSET Items
  BY Zenon DEF BatcherTypeOK
<1>1. ASSUME NEW x \in Items, AddToCurrentBatch(x) PROVE UNCHANGED Pipeline!pvars
  BY <1>1, Zenon DEF AddToCurrentBatch
<1>2. ASSUME NEW x \in Items, FillerReceive(x) PROVE UNCHANGED Pipeline!pvars
  BY <1>2, Zenon DEF FillerReceive
<1>3. ASSUME FillerAppend PROVE Pipeline!Put(hand) /\ hand \in Items
  <2>1. hand \in Items /\ InHand = {hand}
    BY <1>3, Zenon DEF FillerAppend, BatcherTypeOK, InHand
  <2>2. OpenBar
    BY <1>3, Zenon DEF FillerAppend, Stopping, OpenBar, BatcherTypeOK
  <2>3. hand \notin currentBatch \cup returned \cup readBatch \cup InBatches
    BY <2>1, Zenon DEF ExactlyOnce
  <2>4. UnionOf(PipeBar) \subseteq readBatch \cup InBatches
    BY <1>0, ConsBatches, TailUnion DEF PipeBar, InBatches, UnionOf
  <2>5. hand \notin Pipeline!Held
    BY <2>3, <2>4, Zenon DEF Pipeline!Held, Pipeline!InPipe, PipeBar, UnionOf
  <2> QED BY <2>1, <2>2, <2>5, <1>3, Zenon DEF FillerAppend, Pipeline!Put, OpenBar
<1>4. ASSUME FillerExit PROVE UNCHANGED Pipeline!pvars
  BY <1>4, Zenon DEF FillerExit
<1>5. ASSUME CloseReceive PROVE UNCHANGED Pipeline!pvars
  BY <1>0, <1>5, HeadTail DEF CloseReceive
<1>6. ASSUME ClosePush PROVE Pipeline!Rotate
  BY <1>0, <1>6, ConsBatches DEF ClosePush, Pipeline!Rotate
<1>7. ASSUME StopBegin PROVE UNCHANGED Pipeline!pvars
  BY <1>7 DEF StopBegin
<1>8. ASSUME StopEnd PROVE Pipeline!Close
  BY <1>8 DEF StopEnd, Pipeline!Close
<1>9. ASSUME DrainBatch PROVE Pipeline!Drain
  BY <1>9, Zenon DEF DrainBatch, Pipeline!Drain
<1>10. ASSUME DrainCurrent PROVE Pipeline!Drain
  BY <1>10 DEF DrainCurrent, Pipeline!Drain
<1>11. CASE UNCHANGED batcherVars
  BY <1>11, Zenon DEF batcherVars
<1> QED BY <1>1, <1>2, <1>3, <1>4, <1>5, <1>6, <1>7, <1>8, <1>9, <1>10, <1>11, Zenon
        DEF BatcherNext, Filler, Reader

\* The two-step switch, with ids arriving between its halves, implements the
\* atomic switch that the Batcher interface promises.
THEOREM BatcherImplementsPipeline == BatcherSpec => ImplementsPipeline
<1>1. BatcherInit => Pipeline!PInit
  BY Zenon DEF BatcherInit, Pipeline!PInit
<1>2. IndInv /\ IndInv' /\ [BatcherNext]_batcherVars => [Pipeline!PNext]_(Pipeline!pvars)
  BY StepRefines
<1> QED BY <1>1, <1>2, InitIndInv, NextIndInv, PTL DEF BatcherSpec, ImplementsPipeline, Pipeline!PSpec

-----------------------------------------------------------------------------
(* RawEvents: ReportedOnce. *)

LogEntry == [name : Names, stamps : [event : Nat, last : Nat, first : Nat]]

EventsTypeOK ==
  /\ log \in Seq(LogEntry) /\ Len(log) <= MaxVersion
  /\ stored \in Nat /\ latestResourceVersion \in Nat /\ change \in Nat
  /\ known \in [Names -> 0..MaxVersion]
  /\ passed \in SUBSET Versions

\* What was passed on is stored, unless its record failed or was overtaken.
Stored == \A v \in passed : v \in unrecorded \/ v \in overtaken \/ v <= stored

\* While the receiver lives it knows what earlier runs passed on from the storage
\* it read at Start, with the same exceptions.
Known ==
  life # "down" =>
    \A v \in before : v \in unrecorded \/ v \in overtaken \/ v <= latestResourceVersion

\* The version in the hands of the loop is stored once it is recorded, and newer
\* than the storage was at Start if it is to be consumed.
AtHand ==
  at # "idle" =>
    /\ life # "down" /\ change \in Versions
    /\ at \in {"accept", "consume"} => change \in unrecorded \/ change <= stored
    /\ at = "consume" => latestResourceVersion = 0 \/ latestResourceVersion < change

EventsInv == EventsTypeOK /\ before \subseteq passed /\ Stored /\ Known /\ AtHand /\ ReportedOnce

-----------------------------------------------------------------------------

\* Before the first Start nothing was passed on.
LEMMA InitEventsInv == EventsInit => EventsInv
<1> SUFFICES ASSUME EventsInit PROVE EventsInv
  OBVIOUS
<1>1. log \in Seq(LogEntry) /\ Len(log) = 0
  BY DEF EventsInit
<1> QED BY <1>1, EventsAssumption DEF EventsInit, EventsInv, EventsTypeOK, Stored, Known, AtHand, ReportedOnce

\* An event of the cluster changes the log only.
LEMMA EmitInv == ASSUME EventsInv, NEW n \in Names, Emit(n) PROVE EventsInv'
<1>1. log \in Seq(LogEntry) /\ [name |-> n, stamps |-> Stamps(n)] \in LogEntry
  BY EventsAssumption DEF EventsInv, EventsTypeOK, LogEntry, Stamps, Now, NoStamp
<1>2. log' \in Seq(LogEntry) /\ Len(log') <= MaxVersion
  BY <1>1, EventsAssumption DEF Emit
<1>3. UNCHANGED <<stored, life, known, at, change, latestResourceVersion, passed, before, again, unrecorded, overtaken>>
  BY Zenon DEF Emit, loop, history
<1> QED BY <1>2, <1>3, Zenon DEF EventsInv, EventsTypeOK, Stored, Known, AtHand, ReportedOnce

\* A new receiver reads the storage; one that is shut down keeps what it has, and
\* one that ends forgets it.
LEMMA LifeInv == ASSUME EventsInv, Start \/ Shutdown \/ Exit PROVE EventsInv'
<1>1. CASE Start
  <2>1. UNCHANGED <<log, stored, known, at, change, passed, again, unrecorded, overtaken>>
        /\ latestResourceVersion' = stored /\ before' = passed
    BY <1>1, Zenon DEF Start, loop
  <2>2. at = "idle"
    BY <1>1, Zenon DEF EventsInv, AtHand, Start
  <2> QED BY <2>1, <2>2, Zenon DEF EventsInv, EventsTypeOK, Stored, Known, AtHand, ReportedOnce
<1>2. CASE Shutdown
  <2>1. UNCHANGED <<log, stored, known, at, change, latestResourceVersion, passed, before, again, unrecorded, overtaken>>
        /\ life # "down" /\ life' # "down"
    BY <1>2 DEF Shutdown, loop, history
  <2> QED BY <2>1, Zenon DEF EventsInv, EventsTypeOK, Stored, Known, AtHand, ReportedOnce
<1>3. CASE Exit
  <2>1. UNCHANGED <<log, stored, passed, before, again, unrecorded, overtaken>>
        /\ life' = "down" /\ at' = "idle" /\ change' = 0 /\ latestResourceVersion' = 0
        /\ known' \in [Names -> 0..MaxVersion]
    BY <1>3, EventsAssumption DEF Exit, Idle, history
  <2> QED BY <2>1 DEF EventsInv, EventsTypeOK, Stored, Known, AtHand, ReportedOnce
<1> QED BY <1>1, <1>2, <1>3

\* An informer hands over a version of its object, new or not.
LEMMA HandOverInv ==
  ASSUME EventsInv, NEW n \in Names, AddOrUpdate(n) \/ Relist(n)
  PROVE  EventsInv'
<1>1. PICK v : HandOver(n, v) /\ v \in Versions
  <2>1. CASE AddOrUpdate(n)
    BY <2>1, EventsAssumption DEF AddOrUpdate, VersionsOf, Versions, EventsInv, EventsTypeOK
  <2>2. CASE Relist(n)
    BY <2>2, EventsAssumption DEF Relist, EventsInv, EventsTypeOK, Versions
  <2> QED BY <2>1, <2>2
<1>2. UNCHANGED <<log, stored, life, latestResourceVersion, passed, before, again, unrecorded, overtaken>>
      /\ at' = "record" /\ change' = v /\ life # "down" /\ known' = [known EXCEPT ![n] = v]
  BY <1>1, Zenon DEF HandOver, history
<1> QED BY <1>1, <1>2, EventsAssumption DEF EventsInv, EventsTypeOK, Stored, Known, AtHand, ReportedOnce, Versions

\* The record of a version: what was passed on and is newer counts as overtaken.
LEMMA RecordInv == ASSUME EventsInv, RecordEventReceived PROVE EventsInv'
<1>1. UNCHANGED <<log, life, known, change, latestResourceVersion, passed, before, again>> /\ at' = "accept"
      /\ life # "down" /\ at = "record"
  BY Zenon DEF RecordEventReceived
<1>2. change \in Versions /\ change \in Nat
  BY <1>1, Zenon DEF EventsInv, AtHand, EventsTypeOK
<1>3. \/ /\ stored' = change /\ unrecorded' = unrecorded
         /\ overtaken' = overtaken \cup {v \in passed : v > change}
      \/ stored' = stored /\ overtaken' = overtaken /\ unrecorded' = unrecorded \cup {change}
  BY Zenon DEF RecordEventReceived
<1>4. EventsTypeOK' /\ (before \subseteq passed)'
  BY <1>1, <1>2, <1>3, Zenon DEF EventsInv, EventsTypeOK
<1>5. Stored'
  BY <1>1, <1>2, <1>3 DEF EventsInv, EventsTypeOK, Stored, Versions
<1>6. Known' /\ ReportedOnce'
  BY <1>1, <1>3, Zenon DEF EventsInv, Known, ReportedOnce
<1>7. AtHand'
  BY <1>1, <1>2, <1>3 DEF AtHand
<1> QED BY <1>4, <1>5, <1>6, <1>7 DEF EventsInv

\* Acceptance compares with the storage as it was at Start.
LEMMA AcceptInv == ASSUME EventsInv, Accept PROVE EventsInv'
<1>1. UNCHANGED <<log, stored, life, known, latestResourceVersion, passed, before, again, unrecorded, overtaken>>
      /\ at = "accept"
  BY Zenon DEF Accept, history
<1>2. (at' = "idle" /\ change' = 0) \/ (at' = "consume" /\ change' = change)
  BY DEF Accept, Idle
<1>3. at' = "consume" => latestResourceVersion = 0 \/ latestResourceVersion < change
  BY DEF Accept, Idle, IsEventAccepted, EventsInv, EventsTypeOK
<1> QED BY <1>1, <1>2, <1>3 DEF EventsInv, EventsTypeOK, Stored, Known, AtHand, ReportedOnce

\* What earlier runs passed on and the storage showed is not passed on again.
LEMMA ConsumeInv == ASSUME EventsInv, Consume PROVE EventsInv'
<1>1. UNCHANGED <<log, stored, life, known, latestResourceVersion, before, unrecorded, overtaken>>
      /\ life # "down" /\ at = "consume"
  BY DEF Consume
<1>2. CASE UNCHANGED <<passed, again>> /\ ((at' = "idle" /\ change' = 0) \/ UNCHANGED <<at, change>>)
  BY <1>1, <1>2 DEF EventsInv, EventsTypeOK, Stored, Known, AtHand, ReportedOnce
<1>3. CASE /\ passed' = passed \cup {change} /\ again' = again \cup ({change} \cap before)
           /\ at' = "idle" /\ change' = 0
  <2>1. change \in Versions /\ change \in Nat \ {0} /\ (change \in unrecorded \/ change <= stored)
        /\ (latestResourceVersion = 0 \/ latestResourceVersion < change)
    BY <1>1, EventsAssumption DEF EventsInv, AtHand, Versions
  <2>2. change \in before => change \in unrecorded \/ change \in overtaken
    BY <1>1, <2>1 DEF EventsInv, EventsTypeOK, Known
  <2>3. EventsTypeOK' /\ Stored' /\ Known' /\ AtHand' /\ (before \subseteq passed)'
    BY <1>1, <1>3, <2>1, Zenon DEF EventsInv, EventsTypeOK, Stored, Known, AtHand
  <2>4. ReportedOnce'
    BY <1>1, <1>3, <2>2, Zenon DEF EventsInv, ReportedOnce
  <2> QED BY <2>3, <2>4 DEF EventsInv
<1> QED BY <1>1, <1>2, <1>3, Zenon DEF Consume, Consumed, Retry, GiveUp, Idle

-----------------------------------------------------------------------------

\* What one run passed on, a later one passes on again only if recordEventReceived
\* failed for it or stored an older version after it, however informers, lists,
\* loop, shutdowns and crashes interleave.
THEOREM EventsReportedOnce == EventsSpec => []ReportedOnce
<1>1. EventsInv /\ [EventsNext]_eventsVars => EventsInv'
  <2> SUFFICES ASSUME EventsInv, [EventsNext]_eventsVars PROVE EventsInv'
    OBVIOUS
  <2>1. CASE EventsNext
    BY <2>1, EmitInv, LifeInv, HandOverInv, RecordInv, AcceptInv, ConsumeInv, Zenon DEF EventsNext, Loop
  <2>2. CASE UNCHANGED eventsVars
    BY <2>2, Zenon DEF eventsVars, history, EventsInv, EventsTypeOK, Stored, Known, AtHand, ReportedOnce
  <2> QED BY <2>1, <2>2
<1>2. EventsInv => ReportedOnce
  BY DEF EventsInv
<1> QED BY InitEventsInv, <1>1, <1>2, PTL DEF EventsSpec
=============================================================================
