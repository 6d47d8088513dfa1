------------------------------ MODULE IdBatcher ------------------------------
(***************************************************************************)
(* idbatcher/id_batcher.go: the channel-and-goroutine implementation of    *)
(* the Batcher.  Callers of AddToCurrentBatch send on pendingIds, a single *)
(* goroutine moves ids into currentBatch under cbMutex, and one reader     *)
(* (the policy ticker) calls CloseCurrentAndTakeFirstBatch, which is two   *)
(* steps: a receive from batches and, under cbMutex, a send to it.  Stop   *)
(* is called by that same reader, as in concurrencyTest.                   *)
(***************************************************************************)
EXTENDS Naturals, Sequences, FiniteSets

CONSTANTS Items,        \* the calls of AddToCurrentBatch
          NumBatches,   \* numBatches
          ChanSize,     \* batchChannelSize
          NoId          \* no id in the filler goroutine's hand

\* New returns an error unless both sizes are at least one.
ASSUME SizesAssumption == /\ NumBatches \in Nat \ {0}
                          /\ ChanSize \in Nat \ {0}
                          /\ NoId \notin Items

VARIABLES pendingIds,   \* ids sent and not yet received by the filler
          hand,         \* the id the filler goroutine is about to append
          currentBatch,
          batches,      \* the channel of captured batches
          readBatch,    \* what the reader received and has not returned yet
          rpc,          \* reader: "idle", "push", "stopping", "drain", "done"
          idsClosed,    \* pendingIds is closed
          fillerDone,   \* the filler goroutine has sent on stopchan
          returned,     \* history: ids the reader has been given
          age           \* history: batch switches an id has seen in the pipe

batcherVars == <<pendingIds, hand, currentBatch, batches, readBatch, rpc, idsClosed,
                 fillerDone, returned, age>>

InBatches == UNION {batches[k] : k \in DOMAIN batches}

InHand == {hand} \ {NoId}

Added == pendingIds \cup InHand \cup currentBatch \cup InBatches
           \cup readBatch \cup returned

\* The shape of the state; pendingIds is closed from the moment Stop is called.
BatcherTypeOK ==
  /\ pendingIds \in SUBSET Items
  /\ hand \in Items \cup {NoId}
  /\ currentBatch \in SUBSET Items
  /\ batches \in Seq(SUBSET Items)
  /\ readBatch \in SUBSET Items
  /\ rpc \in {"idle", "push", "stopping", "drain", "done"}
  /\ idsClosed \in BOOLEAN
  /\ idsClosed <=> rpc \in {"stopping", "drain", "done"}
  /\ fillerDone \in BOOLEAN
  /\ returned \in SUBSET Items
  /\ age \in [Items -> Nat]

\* Mutant: the loop that fills the pipe stops one batch early.
BatcherInitShort ==
  /\ pendingIds = {} /\ hand = NoId /\ currentBatch = {}
  /\ batches = [k \in 1..(NumBatches - 1) |-> {}]
  /\ readBatch = {} /\ rpc = "idle" /\ idsClosed = FALSE /\ fillerDone = FALSE
  /\ returned = {} /\ age = [x \in Items |-> 0]

\* New fills the pipe with numBatches nil batches.
BatcherInit ==
  /\ pendingIds = {}
  /\ hand = NoId
  /\ currentBatch = {}
  /\ batches = [k \in 1..NumBatches |-> {}]
  /\ readBatch = {}
  /\ rpc = "idle"
  /\ idsClosed = FALSE
  /\ fillerDone = FALSE
  /\ returned = {}
  /\ age = [x \in Items |-> 0]

\* A send on the buffered channel blocks while it is full.  After Stop no
\* caller adds: the interface says that such a call panics.
AddToCurrentBatch(x) ==
  /\ x \notin Added
  /\ ~idsClosed
  /\ Cardinality(pendingIds) < ChanSize
  /\ pendingIds' = pendingIds \cup {x}
  /\ UNCHANGED <<hand, currentBatch, batches, readBatch, rpc, idsClosed,
                 fillerDone, returned, age>>

FillerReceive(x) ==
  /\ hand = NoId
  /\ x \in pendingIds
  /\ pendingIds' = pendingIds \ {x}
  /\ hand' = x
  /\ UNCHANGED <<currentBatch, batches, readBatch, rpc, idsClosed, fillerDone,
                 returned, age>>

FillerAppend ==
  /\ hand # NoId
  /\ currentBatch' = currentBatch \cup {hand}
  /\ hand' = NoId
  /\ UNCHANGED <<pendingIds, batches, readBatch, rpc, idsClosed, fillerDone,
                 returned, age>>

\* The range loop ends when the channel is closed and empty.
FillerExit ==
  /\ hand = NoId
  /\ idsClosed
  /\ pendingIds = {}
  /\ ~fillerDone
  /\ fillerDone' = TRUE
  /\ UNCHANGED <<pendingIds, hand, currentBatch, batches, readBatch, rpc,
                 idsClosed, returned, age>>

\* CloseCurrentAndTakeFirstBatch, first half: receive the oldest batch.
CloseReceive ==
  /\ rpc = "idle"
  /\ batches # <<>>
  /\ readBatch' = Head(batches)
  /\ batches' = Tail(batches)
  /\ rpc' = "push"
  /\ UNCHANGED <<pendingIds, hand, currentBatch, idsClosed, fillerDone,
                 returned, age>>

\* Mutant of the switch: the batch is sent and not replaced by an empty one.
ClosePushNoReset ==
  /\ rpc = "push"
  /\ Len(batches) < NumBatches
  /\ batches' = Append(batches, currentBatch)
  /\ currentBatch' = currentBatch
  /\ age' = [x \in Items |-> IF x \in InBatches \cup currentBatch
                             THEN age[x] + 1 ELSE age[x]]
  /\ returned' = returned \cup readBatch
  /\ readBatch' = {}
  /\ rpc' = "idle"
  /\ UNCHANGED <<pendingIds, hand, idsClosed, fillerDone>>

\* Second half, under cbMutex: the send blocks if the channel were full.
ClosePush ==
  /\ rpc = "push"
  /\ Len(batches) < NumBatches
  /\ batches' = Append(batches, currentBatch)
  /\ currentBatch' = {}
  /\ age' = [x \in Items |-> IF x \in InBatches \cup currentBatch
                             THEN age[x] + 1 ELSE age[x]]
  /\ returned' = returned \cup readBatch
  /\ readBatch' = {}
  /\ rpc' = "idle"
  /\ UNCHANGED <<pendingIds, hand, idsClosed, fillerDone>>

\* Stop: close pendingIds, wait for the filler, then close batches.
StopBegin ==
  /\ rpc = "idle"
  /\ idsClosed' = TRUE
  /\ rpc' = "stopping"
  /\ UNCHANGED <<pendingIds, hand, currentBatch, batches, readBatch,
                 fillerDone, returned, age>>

\* Mutant: Stop does not wait for the filler goroutine.
StopEndNoWait ==
  /\ rpc = "stopping"
  /\ rpc' = "drain"
  /\ UNCHANGED <<pendingIds, hand, currentBatch, batches, readBatch, idsClosed,
                 fillerDone, returned, age>>

StopEnd ==
  /\ rpc = "stopping"
  /\ fillerDone
  /\ rpc' = "drain"
  /\ UNCHANGED <<pendingIds, hand, currentBatch, batches, readBatch, idsClosed,
                 fillerDone, returned, age>>

\* CloseCurrentAndTakeFirstBatch after Stop: what is left of the pipe, then
\* the batch being built, returned with FALSE.
DrainBatch ==
  /\ rpc = "drain"
  /\ batches # <<>>
  /\ returned' = returned \cup Head(batches)
  /\ batches' = Tail(batches)
  /\ UNCHANGED <<pendingIds, hand, currentBatch, readBatch, rpc, idsClosed,
                 fillerDone, age>>

\* Mutant: the batch being built is forgotten at the end.
DrainCurrentForgets ==
  /\ rpc = "drain"
  /\ batches = <<>>
  /\ currentBatch' = {}
  /\ rpc' = "done"
  /\ UNCHANGED <<pendingIds, hand, batches, readBatch, idsClosed, fillerDone,
                 returned, age>>

DrainCurrent ==
  /\ rpc = "drain"
  /\ batches = <<>>
  /\ returned' = returned \cup currentBatch
  /\ currentBatch' = {}
  /\ rpc' = "done"
  /\ UNCHANGED <<pendingIds, hand, batches, readBatch, idsClosed, fillerDone, age>>

Filler == (\E x \in Items : FillerReceive(x)) \/ FillerAppend \/ FillerExit

Reader == \/ CloseReceive \/ ClosePush
          \/ StopBegin \/ StopEnd
          \/ DrainBatch \/ DrainCurrent

BatcherNext == (\E x \in Items : AddToCurrentBatch(x)) \/ Filler \/ Reader

BatcherSpec == BatcherInit /\ [][BatcherNext]_batcherVars

\* The goroutine that fills the batch and the ticker that switches batches
\* are never stopped by anyone else; the callers promise nothing.
BatcherFairness == WF_batcherVars(Filler) /\ WF_batcherVars(Reader)

-----------------------------------------------------------------------------
(* Properties *)

\* An id that was added is in exactly one place: the channel, the filler's
\* hand, the batch being built, one batch of the pipe, the reader's hand or
\* with the caller.  Switching batches while ids arrive duplicates nothing.
ExactlyOnce ==
  /\ \A k \in DOMAIN batches : \A m \in DOMAIN batches :
       k # m => batches[k] \cap batches[m] = {}
  /\ InBatches \cap (pendingIds \cup InHand \cup currentBatch
                      \cup readBatch \cup returned) = {}
  /\ pendingIds \cap (InHand \cup currentBatch \cup readBatch \cup returned) = {}
  /\ InHand \cap (currentBatch \cup readBatch \cup returned) = {}
  /\ currentBatch \cap (readBatch \cup returned) = {}
  /\ readBatch \cap returned = {}

\* The pipe is a delay line: while the batcher runs, an id is handed out by
\* exactly the NumBatches-th switch after the one that closed its batch,
\* never by an earlier one; this is what makes decision_wait a waiting time.
DelayExact ==
  /\ \A k \in DOMAIN batches : \A x \in batches[k] :
       rpc \in {"idle", "stopping"} => age[x] + k = NumBatches + 1
  /\ \A x \in readBatch : age[x] = NumBatches
  /\ rpc \in {"idle", "push", "stopping"} => \A x \in returned : age[x] = NumBatches

\* The receive and the send of CloseCurrentAndTakeFirstBatch never block: the
\* pipe is full between switches and has room while one is under way, so
\* cbMutex is never held across a blocked send.
SwitchNeverBlocks ==
  /\ rpc \in {"idle", "stopping"} => Len(batches) = NumBatches
  /\ rpc = "push" => Len(batches) = NumBatches - 1

\* When the reader is told that there is nothing more, every id ever added
\* has been handed to it (the property concurrencyTest samples).
StopDrains == rpc = "done" => returned = Added

\* No step of any of the goroutines loses an id.
NothingLost == [][Added \subseteq Added']_batcherVars

\* The implementation is the atomic pipeline: an id counts as put when the
\* filler appends it, a switch happens at the send under cbMutex.
Pipeline == INSTANCE BatchPipeline WITH
  current <- currentBatch,
  pipe <- IF rpc = "push" THEN <<readBatch>> \o batches ELSE batches,
  taken <- returned,
  open <- rpc \in {"idle", "push", "stopping"}

\* id_batcher.go implements the pipeline its interface comment describes.
ImplementsPipeline == Pipeline!PSpec

\* Every added id is eventually handed out, by a tick or by the final drain: once no
\* more are added, all of them have been.  (None is forgotten: NothingLost.)
EventuallyReturned == <>[](Added \subseteq returned)
==============================================================================
