------------------------- MODULE CascadingInvariant -------------------------
(***************************************************************************)
(* The inductive invariant of CascadingFilter, what keeps its parts as     *)
(* they are, and the steps that keep it, for any number of consumers,      *)
(* traces and groups of spans: no consumer is left waiting for an id to    *)
(* evict, and every trace on the map has its own entry on the way to a     *)
(* decision.                                                               *)
(***************************************************************************)
EXTENDS CascadingFilter, TLAPS

\* An object is on the map under its own trace id, and a consumer that still
\* has to announce an object to the batcher created it.
Linked ==
  /\ \A t \in TraceIDs : idToTrace[t] # None => TraceOf[idToTrace[t]] = t
  /\ \A c \in Consumers : pc[c] = "batch" => obj[c] = grp[c]

\* While every consumer is dropping an id, the queue has room for one.
Room == (\A c \in Consumers : key[c] # None) => Len(deleteChan) < NumTraces

\* The inductive invariant.
Inv == /\ TypeOK /\ Linked
       /\ KeyTracked /\ Room /\ EvictNeverStuck
       /\ EveryTraceScheduled

QueueOK == KeyTracked /\ Room /\ EvictNeverStuck

-----------------------------------------------------------------------------
(* Sequences: the queue deleteChan. *)

\* A send keeps what is queued and adds one id.
LEMMA AppendKeys ==
  ASSUME NEW S, NEW s \in Seq(S), NEW x \in S
  PROVE  /\ Append(s, x) \in Seq(S)
         /\ Len(Append(s, x)) = Len(s) + 1
         /\ Append(s, x) # <<>>
         /\ \A k \in DOMAIN s : k \in DOMAIN Append(s, x) /\ Append(s, x)[k] = s[k]
         /\ Len(s) + 1 \in DOMAIN Append(s, x) /\ Append(s, x)[Len(s) + 1] = x
  OBVIOUS

\* A receive takes the first id and keeps the others.
LEMMA TailKeys ==
  ASSUME NEW S, NEW s \in Seq(S), s # <<>>
  PROVE  /\ Head(s) \in S /\ Tail(s) \in Seq(S)
         /\ Len(Tail(s)) = Len(s) - 1
         /\ \A k \in DOMAIN s : \/ s[k] = Head(s)
                                \/ \E j \in DOMAIN Tail(s) : Tail(s)[j] = s[k]
<1>1. Head(s) \in S /\ Tail(s) \in Seq(S) /\ Len(Tail(s)) = Len(s) - 1 /\ Len(s) \in Nat
  OBVIOUS
<1>2. ASSUME NEW k \in DOMAIN s, k # 1
      PROVE  \E j \in DOMAIN Tail(s) : Tail(s)[j] = s[k]
  <2>1. k - 1 \in 1..(Len(s) - 1)
    BY <1>2, <1>1
  <2>2. k - 1 \in DOMAIN Tail(s) /\ Tail(s)[k - 1] = s[k]
    BY <2>1, <1>1
  <2> QED  BY <2>2
<1> QED  BY <1>1, <1>2

-----------------------------------------------------------------------------
(* Frames: what the conjuncts depend on. *)

\* The queue's invariants depend on the map, the queue and the consumers.
LEMMA QueueFrame ==
  ASSUME QueueOK, UNCHANGED <<idToTrace, deleteChan, pc, grp, key>>
  PROVE  QueueOK'
BY DEF QueueOK, KeyTracked, Room, EvictNeverStuck, OnMap

\* The schedule depends on the map, the batcher, the batch and the consumers
\* that announce an object.
LEMMA ScheduleFrame ==
  ASSUME EveryTraceScheduled, UNCHANGED <<idToTrace, batcherVars, todo, batch, pc, obj>>
  PROVE  EveryTraceScheduled'
BY DEF EveryTraceScheduled, OnMap, InBatcher, batcherVars

\* What waits for a decision: the entries of the batcher and of the batch.
Entries == InBatcher \cup todo \cup batch

\* They depend on the batcher and the batch.
LEMMA EntriesFrame ==
  ASSUME UNCHANGED <<adding, current, pipe, todo, batch>>
  PROVE  Entries' = Entries
BY DEF Entries, InBatcher

\* A step keeps every trace scheduled if it stores none, keeps the entries but
\* for some whose object is not on the map afterwards, and lets a consumer that
\* has announced its object go on.
LEMMA ScheduleStep ==
  ASSUME EveryTraceScheduled,
         NEW gone, Entries \subseteq Entries' \cup gone,
         \A t \in TraceIDs : idToTrace'[t] # None =>
            idToTrace'[t] = idToTrace[t] /\ idToTrace[t] \notin gone,
         \A c \in Consumers : pc[c] = "batch" =>
            (pc'[c] = "batch" /\ obj'[c] = obj[c]) \/ obj[c] \in Entries'
  PROVE  EveryTraceScheduled'
BY DEF EveryTraceScheduled, OnMap, Entries

\* The same for a step that keeps all entries.
LEMMA ScheduleKept ==
  ASSUME EveryTraceScheduled,
         Entries \subseteq Entries',
         \A t \in TraceIDs : idToTrace'[t] # None => idToTrace'[t] = idToTrace[t],
         \A c \in Consumers : pc[c] = "batch" =>
            (pc'[c] = "batch" /\ obj'[c] = obj[c]) \/ obj[c] \in Entries'
  PROVE  EveryTraceScheduled'
BY DEF EveryTraceScheduled, OnMap, Entries

\* The links depend on the map and the consumers.
LEMMA LinkedFrame ==
  ASSUME Linked, UNCHANGED <<idToTrace, pc, grp, obj>>
  PROVE  Linked'
BY Zenon DEF Linked

\* The types of the parts depend on their own variables.
LEMMA MapFrame ==
  ASSUME MapTypeOK, UNCHANGED <<mapVars, decisionHistory>>
  PROVE  MapTypeOK'
BY DEF MapTypeOK, mapVars

\* As for MapFrame, the trace objects.
LEMMA ObjectFrame ==
  ASSUME ObjectTypeOK, UNCHANGED objVars
  PROVE  ObjectTypeOK'
BY DEF ObjectTypeOK, objVars

\* As for MapFrame, the batcher.
LEMMA BatcherFrame ==
  ASSUME BatcherTypeOK, UNCHANGED batcherVars
  PROVE  BatcherTypeOK'
BY DEF BatcherTypeOK, batcherVars

\* As for MapFrame, the consumers.
LEMMA ConsumerFrame ==
  ASSUME ConsumerTypeOK, UNCHANGED consumerVars
  PROVE  ConsumerTypeOK'
BY Zenon DEF ConsumerTypeOK, consumerVars

\* As for MapFrame, the ticker.
LEMMA TickerFrame ==
  ASSUME TickerTypeOK, UNCHANGED tickVars
  PROVE  TickerTypeOK'
BY Zenon DEF TickerTypeOK, tickVars

\* As for MapFrame, the fates of the groups.
LEMMA FateFrame ==
  ASSUME FateTypeOK, UNCHANGED fateVars
  PROVE  FateTypeOK'
BY DEF FateTypeOK, fateVars

-----------------------------------------------------------------------------
(* Every action preserves the invariant. *)

\* A late group changes nothing but its own fate.
LEMMA ArriveLateInv ==
  ASSUME Inv, NEW c \in Consumers, NEW g \in Groups, ArriveLate(c, g)
  PROVE  Inv'
<1> USE DEF Inv, TypeOK
<1>1. MapTypeOK' /\ ObjectTypeOK' /\ BatcherTypeOK' /\ ConsumerTypeOK'
      /\ TickerTypeOK' /\ Linked' /\ QueueOK' /\ EveryTraceScheduled'
  BY MapFrame, ObjectFrame, BatcherFrame, ConsumerFrame, TickerFrame,
     LinkedFrame, QueueFrame, ScheduleFrame DEF ArriveLate, consumerVars,
     mapVars, tickVars, QueueOK
<1>2. FateTypeOK'
  BY CascadeAssumption DEF ArriveLate, FateTypeOK, Objects, ConsumerTypeOK,
     TickerTypeOK
<1> QED  BY <1>1, <1>2, Zenon DEF QueueOK

\* A consumer that takes a group holds no object and no key yet.
LEMMA ArriveNewInv ==
  ASSUME Inv, NEW c \in Consumers, NEW g \in Groups, ArriveNew(c, g)
  PROVE  Inv'
<1> USE DEF Inv, TypeOK
<1>1. MapTypeOK' /\ ObjectTypeOK' /\ BatcherTypeOK' /\ TickerTypeOK'
      /\ FateTypeOK'
  BY MapFrame, ObjectFrame, BatcherFrame, TickerFrame, FateFrame, Zenon DEF
     ArriveNew, mapVars
<1>2. ConsumerTypeOK'
  BY CascadeAssumption DEF ArriveNew, Goto, ConsumerTypeOK, Objects, MapTypeOK
<1>3. Linked'
  BY CascadeAssumption DEF ArriveNew, Goto, mapVars, consumerVars, Linked,
     MapTypeOK, ConsumerTypeOK, Objects
<1>4. QueueOK'
  BY CascadeAssumption DEF ArriveNew, Goto, mapVars, QueueOK, KeyTracked, Room,
     EvictNeverStuck, OnMap, MapTypeOK, ConsumerTypeOK, Objects, Linked
<1>5. EveryTraceScheduled'
  <2>1. Entries' = Entries
    BY EntriesFrame, Zenon DEF ArriveNew, batcherVars, tickVars
  <2>2. \A t \in TraceIDs : idToTrace'[t] # None => idToTrace'[t] = idToTrace[t]
    BY Zenon DEF ArriveNew, Goto, mapVars, MapTypeOK
  <2>3. \A d \in Consumers : pc[d] = "batch" =>
            (pc'[d] = "batch" /\ obj'[d] = obj[d]) \/ obj[d] \in Entries'
    BY Zenon DEF ArriveNew, Goto, consumerVars, ConsumerTypeOK, Entries, InBatcher
  <2> QED  BY <2>1, <2>2, <2>3, ScheduleKept, Zenon
<1> QED  BY <1>1, <1>2, <1>3, <1>4, <1>5, Zenon DEF QueueOK

\* A new object is in the hands of its consumer, which will announce its
\* entry and queue its id.
LEMMA LoadOrStoreInv ==
  ASSUME Inv, NEW c \in Consumers, LoadOrStore(c)
  PROVE  Inv'
<1> USE DEF Inv, TypeOK
<1>1. BatcherTypeOK' /\ TickerTypeOK' /\ FateTypeOK'
  BY BatcherFrame, TickerFrame, FateFrame, Zenon DEF LoadOrStore
<1>2. MapTypeOK'
  BY CascadeAssumption DEF LoadOrStore, Goto, MapTypeOK, Objects,
     ConsumerTypeOK, TickerTypeOK
<1>3. ObjectTypeOK'
  BY CascadeAssumption DEF LoadOrStore, Goto, ObjectTypeOK, Objects,
     ConsumerTypeOK, TickerTypeOK, Decisions
<1>4. ConsumerTypeOK'
  BY CascadeAssumption DEF LoadOrStore, Goto, ConsumerTypeOK, Objects, MapTypeOK
<1>5. Linked'
  BY CascadeAssumption DEF LoadOrStore, Goto, mapVars, consumerVars, Linked,
     MapTypeOK, ConsumerTypeOK, Objects
<1>6. QueueOK'
  BY CascadeAssumption DEF LoadOrStore, Goto, mapVars, QueueOK, KeyTracked,
     Room, EvictNeverStuck, OnMap, MapTypeOK, ConsumerTypeOK, Objects, Linked
<1>7. EveryTraceScheduled'
  <2> DEFINE u == TraceOf[grp[c]]
  <2>1. u \in TraceIDs /\ grp[c] \in Groups
    BY CascadeAssumption, Zenon DEF LoadOrStore, ConsumerTypeOK, Objects
  <2>2. Entries' = Entries
    BY EntriesFrame, Zenon DEF LoadOrStore, batcherVars, tickVars
  <2>3. ASSUME NEW t \in OnMap'
        PROVE  \/ idToTrace'[t] \in Entries'
               \/ \E d \in Consumers : pc'[d] = "batch" /\ obj'[d] = idToTrace'[t]
    <3>1. CASE idToTrace[u] = None /\ t = u
      BY <2>1, <3>1 DEF LoadOrStore, Goto, MapTypeOK, ConsumerTypeOK
    <3>2. CASE ~(idToTrace[u] = None /\ t = u)
      <4>1. t \in OnMap /\ idToTrace'[t] = idToTrace[t]
        BY <2>1, <2>3, <3>2, Zenon DEF LoadOrStore, OnMap, MapTypeOK
      <4>2. \A d \in Consumers : pc[d] = "batch" => pc'[d] = "batch" /\ obj'[d] = obj[d]
        BY DEF LoadOrStore, Goto, ConsumerTypeOK
      <4> QED  BY <2>2, <4>1, <4>2 DEF EveryTraceScheduled, Entries
    <3> QED  BY <3>1, <3>2, Zenon
  <2> QED  BY <2>3, Zenon DEF EveryTraceScheduled, Entries
<1> QED  BY <1>1, <1>2, <1>3, <1>4, <1>5, <1>6, <1>7, Zenon DEF QueueOK

\* The announced object has its entry in the batcher.
LEMMA AddToCurrentBatchInv ==
  ASSUME Inv, NEW c \in Consumers, AddToCurrentBatch(c)
  PROVE  Inv'
<1> USE DEF Inv, TypeOK
<1>1. ObjectTypeOK' /\ TickerTypeOK' /\ FateTypeOK'
  BY ObjectFrame, TickerFrame, FateFrame, Zenon DEF AddToCurrentBatch
<1>2. MapTypeOK'
  BY CascadeAssumption DEF AddToCurrentBatch, Goto, MapTypeOK, Objects,
     ConsumerTypeOK, TickerTypeOK
<1>3. BatcherTypeOK'
  BY CascadeAssumption DEF AddToCurrentBatch, Goto, BatcherTypeOK, Objects,
     ConsumerTypeOK, TickerTypeOK
<1>4. ConsumerTypeOK'
  BY CascadeAssumption DEF AddToCurrentBatch, Goto, ConsumerTypeOK, Objects,
     MapTypeOK
<1>5. Linked'
  BY CascadeAssumption DEF AddToCurrentBatch, Goto, mapVars, consumerVars,
     Linked, MapTypeOK, ConsumerTypeOK, Objects
<1>6. QueueOK'
  BY CascadeAssumption DEF AddToCurrentBatch, Goto, mapVars, QueueOK,
     KeyTracked, Room, EvictNeverStuck, OnMap, MapTypeOK, ConsumerTypeOK,
     Objects, Linked
<1>7. EveryTraceScheduled'
  <2>1. Entries \subseteq Entries'
    BY DEF AddToCurrentBatch, Goto, Entries, InBatcher, batcherVars, tickVars,
       TickerTypeOK
  <2>2. \A t \in TraceIDs : idToTrace'[t] # None => idToTrace'[t] = idToTrace[t]
    BY Zenon DEF AddToCurrentBatch, Goto, mapVars, MapTypeOK
  <2>3. \A d \in Consumers : pc[d] = "batch" =>
            (pc'[d] = "batch" /\ obj'[d] = obj[d]) \/ obj[d] \in Entries'
    BY Zenon DEF AddToCurrentBatch, Goto, consumerVars, ConsumerTypeOK, Entries, InBatcher
  <2> QED  BY <2>1, <2>2, <2>3, ScheduleKept, Zenon
<1> QED  BY <1>1, <1>2, <1>3, <1>4, <1>5, <1>6, <1>7, Zenon DEF QueueOK

\* The id is queued, or the queue is full and there is one to evict.
LEMMA EnqueueInv ==
  ASSUME Inv, NEW c \in Consumers, Enqueue(c)
  PROVE  Inv'
<1> USE DEF Inv, TypeOK
<1>1. ObjectTypeOK' /\ BatcherTypeOK' /\ TickerTypeOK' /\ FateTypeOK'
  BY ObjectFrame, BatcherFrame, TickerFrame, FateFrame, Zenon DEF Enqueue
<1>2. MapTypeOK'
  <2>1. TraceOf[grp[c]] \in TraceIDs
    BY CascadeAssumption, Zenon DEF Enqueue, ConsumerTypeOK, Objects
  <2>2. CASE Len(deleteChan) < NumTraces
    BY <2>1, <2>2, AppendKeys, CascadeAssumption DEF Enqueue, MapTypeOK
  <2>3. CASE ~(Len(deleteChan) < NumTraces)
    BY <2>3, Zenon DEF Enqueue, MapTypeOK
  <2> QED  BY <2>2, <2>3
<1>3. ConsumerTypeOK'
  <2>1. PICK l \in {"append", "evict"} : pc' = [pc EXCEPT ![c] = l]
    BY Zenon DEF Enqueue, Goto
  <2>2. pc[c] = "enqueue" /\ UNCHANGED <<grp, obj, key>>
    BY Zenon DEF Enqueue
  <2> QED BY <2>1, <2>2 DEF ConsumerTypeOK
<1>4. Linked'
  BY CascadeAssumption DEF Enqueue, Goto, mapVars, consumerVars, Linked,
     MapTypeOK, ConsumerTypeOK, Objects
<1>5. QueueOK'
  <2>1. TraceOf[grp[c]] \in TraceIDs /\ key'[c] = None
    BY CascadeAssumption, Zenon DEF Enqueue, ConsumerTypeOK, Objects
  <2>2. Room'
    BY <2>1 DEF Room
  <2>3. CASE Len(deleteChan) < NumTraces
    <3> DEFINE d == Append(deleteChan, TraceOf[grp[c]])
    <3>1. deleteChan' = d
      BY <2>3, Zenon DEF Enqueue
    <3>2. /\ d # <<>>
          /\ \A k \in DOMAIN deleteChan : k \in DOMAIN d /\ d[k] = deleteChan[k]
          /\ \E k \in DOMAIN d : d[k] = TraceOf[grp[c]]
      BY <2>1, AppendKeys DEF MapTypeOK
    <3> HIDE DEF d
    <3>3. KeyTracked'
      BY <3>1, <3>2, <2>3 DEF Enqueue, Goto, KeyTracked, OnMap, QueueOK,
         ConsumerTypeOK
    <3>4. EvictNeverStuck'
      BY <3>1, <3>2, Zenon DEF EvictNeverStuck
    <3> QED  BY <2>2, <3>3, <3>4 DEF QueueOK
  <2>4. CASE ~(Len(deleteChan) < NumTraces)
    <3>1. deleteChan' = deleteChan /\ deleteChan # <<>>
      BY <2>4, CascadeAssumption DEF Enqueue, MapTypeOK
    <3>2. KeyTracked'
      BY <3>1, <2>4 DEF Enqueue, Goto, KeyTracked, OnMap, QueueOK, ConsumerTypeOK
    <3>3. EvictNeverStuck'
      BY <3>1 DEF EvictNeverStuck
    <3> QED  BY <2>2, <3>2, <3>3 DEF QueueOK
  <2> QED  BY <2>3, <2>4
<1>6. EveryTraceScheduled'
  <2>1. Entries' = Entries
    BY EntriesFrame, Zenon DEF Enqueue, batcherVars, tickVars
  <2>2. \A t \in TraceIDs : idToTrace'[t] # None => idToTrace'[t] = idToTrace[t]
    BY Zenon DEF Enqueue, Goto, mapVars, MapTypeOK
  <2>3. \A d \in Consumers : pc[d] = "batch" =>
            (pc'[d] = "batch" /\ obj'[d] = obj[d]) \/ obj[d] \in Entries'
    BY DEF Enqueue, Goto, consumerVars, ConsumerTypeOK, Entries, InBatcher
  <2> QED  BY <2>1, <2>2, <2>3, ScheduleKept, Zenon
<1> QED  BY <1>1, <1>2, <1>3, <1>4, <1>5, <1>6, Zenon DEF QueueOK

\* The id taken from the queue is the key the consumer now holds.
LEMMA EvictInv ==
  ASSUME Inv, NEW c \in Consumers, Evict(c)
  PROVE  Inv'
<1> USE DEF Inv, TypeOK
<1>1. ObjectTypeOK' /\ BatcherTypeOK' /\ TickerTypeOK' /\ FateTypeOK'
  BY ObjectFrame, BatcherFrame, TickerFrame, FateFrame, Zenon DEF Evict
<1>2. MapTypeOK'
  BY CascadeAssumption DEF Evict, Goto, MapTypeOK, Objects, ConsumerTypeOK,
     TickerTypeOK
<1>3. ConsumerTypeOK'
  BY CascadeAssumption DEF Evict, Goto, ConsumerTypeOK, Objects, MapTypeOK
<1>4. Linked'
  BY CascadeAssumption DEF Evict, Goto, mapVars, consumerVars, Linked,
     MapTypeOK, ConsumerTypeOK, Objects
<1>5. QueueOK'
  <2>1. /\ Len(deleteChan') = Len(deleteChan) - 1
        /\ \A k \in DOMAIN deleteChan :
             \/ deleteChan[k] = key'[c]
             \/ \E j \in DOMAIN deleteChan' : deleteChan'[j] = deleteChan[k]
    BY TailKeys DEF Evict, MapTypeOK, ConsumerTypeOK
  <2>2. KeyTracked'
    <3> SUFFICES ASSUME NEW t \in OnMap'
                 PROVE  \/ \E j \in DOMAIN deleteChan' : deleteChan'[j] = t
                        \/ \E d \in Consumers :
                             \/ key'[d] = t
                             \/ /\ pc'[d] \in {"batch", "enqueue", "evict",
                                               "dropLoad", "dropDelete"}
                                /\ TraceOf[grp'[d]] = t
      BY Zenon DEF KeyTracked
    <3>1. t \in OnMap
      BY Zenon DEF OnMap, Evict
    <3>2. CASE \E k \in DOMAIN deleteChan : deleteChan[k] = t
      BY <2>1, <3>2
    <3>3. CASE \E d \in Consumers : key[d] = t
      BY <3>3, <3>1, CascadeAssumption DEF Evict, ConsumerTypeOK, OnMap
    <3>4. CASE \E d \in Consumers :
                 /\ pc[d] \in {"batch", "enqueue", "evict", "dropLoad", "dropDelete"}
                 /\ TraceOf[grp[d]] = t
      BY <3>4, Zenon DEF Evict, Goto, ConsumerTypeOK
    <3> QED  BY <3>1, <3>2, <3>3, <3>4, Zenon DEF KeyTracked
  <2>3. Room'
    BY <2>1, CascadeAssumption DEF Room, MapTypeOK
  <2>4. EvictNeverStuck'
    BY Zenon DEF Evict, Goto, EvictNeverStuck, ConsumerTypeOK
  <2> QED  BY <2>2, <2>3, <2>4 DEF QueueOK
<1>6. EveryTraceScheduled'
  <2>1. Entries' = Entries
    BY EntriesFrame, Zenon DEF Evict, batcherVars, tickVars
  <2>2. \A t \in TraceIDs : idToTrace'[t] # None => idToTrace'[t] = idToTrace[t]
    BY Zenon DEF Evict, Goto, mapVars, MapTypeOK
  <2>3. \A d \in Consumers : pc[d] = "batch" =>
            (pc'[d] = "batch" /\ obj'[d] = obj[d]) \/ obj[d] \in Entries'
    BY Zenon DEF Evict, Goto, consumerVars, ConsumerTypeOK, Entries, InBatcher
  <2> QED  BY <2>1, <2>2, <2>3, ScheduleKept, Zenon
<1> QED  BY <1>1, <1>2, <1>3, <1>4, <1>5, <1>6, Zenon DEF QueueOK

-----------------------------------------------------------------------------
(* A consumer that evicts a trace and adds its spans, the batcher, and the *)
(* first pass of the ticker.                                               *)

\* A key that is not on the map is let go.
LEMMA DropLoadInv ==
  ASSUME Inv, NEW c \in Consumers, DropLoad(c)
  PROVE  Inv'
<1> USE DEF Inv, TypeOK
<1>1. MapTypeOK' /\ ObjectTypeOK' /\ BatcherTypeOK' /\ TickerTypeOK'
      /\ FateTypeOK'
  BY MapFrame, ObjectFrame, BatcherFrame, TickerFrame, FateFrame DEF DropLoad,
     mapVars
<1>2. ConsumerTypeOK'
  BY CascadeAssumption DEF DropLoad, Goto, ConsumerTypeOK, Objects, MapTypeOK
<1>3. Linked'
  BY CascadeAssumption DEF DropLoad, Goto, mapVars, consumerVars, Linked,
     MapTypeOK, ConsumerTypeOK, Objects
<1>4. QueueOK'
  BY CascadeAssumption DEF DropLoad, Goto, mapVars, QueueOK, KeyTracked, Room,
     EvictNeverStuck, OnMap, MapTypeOK, ConsumerTypeOK, Objects, Linked
<1>5. EveryTraceScheduled'
  <2>1. Entries' = Entries
    BY EntriesFrame, Zenon DEF DropLoad, batcherVars, tickVars
  <2>2. \A t \in TraceIDs : idToTrace'[t] # None => idToTrace'[t] = idToTrace[t]
    BY Zenon DEF DropLoad, Goto, mapVars, MapTypeOK
  <2>3. \A d \in Consumers : pc[d] = "batch" =>
            (pc'[d] = "batch" /\ obj'[d] = obj[d]) \/ obj[d] \in Entries'
    BY DEF DropLoad, Goto, consumerVars, ConsumerTypeOK, Entries, InBatcher
  <2> QED  BY <2>1, <2>2, <2>3, ScheduleKept, Zenon
<1> QED  BY <1>1, <1>2, <1>3, <1>4, <1>5, Zenon DEF QueueOK

\* The key leaves the map with the consumer's hold on it.
LEMMA DropDeleteInv ==
  ASSUME Inv, NEW c \in Consumers, DropDelete(c)
  PROVE  Inv'
<1> USE DEF Inv, TypeOK
<1>1. ObjectTypeOK' /\ BatcherTypeOK' /\ TickerTypeOK' /\ FateTypeOK'
  BY ObjectFrame, BatcherFrame, TickerFrame, FateFrame, Zenon DEF DropDelete
<1>2. MapTypeOK'
  BY CascadeAssumption DEF DropDelete, Goto, MapTypeOK, Objects, ConsumerTypeOK,
     TickerTypeOK
<1>3. ConsumerTypeOK'
  BY CascadeAssumption DEF DropDelete, Goto, ConsumerTypeOK, Objects, MapTypeOK
<1>4. Linked'
  BY CascadeAssumption DEF DropDelete, Goto, mapVars, consumerVars, Linked,
     MapTypeOK, ConsumerTypeOK, Objects
<1>5. QueueOK'
  BY CascadeAssumption DEF DropDelete, Goto, mapVars, QueueOK, KeyTracked, Room,
     EvictNeverStuck, OnMap, MapTypeOK, ConsumerTypeOK, Objects, Linked
<1>6. EveryTraceScheduled'
  <2>1. Entries' = Entries
    BY EntriesFrame, Zenon DEF DropDelete, batcherVars, tickVars
  <2>2. \A t \in TraceIDs : idToTrace'[t] # None => idToTrace'[t] = idToTrace[t]
    BY Zenon DEF DropDelete, Goto, mapVars, MapTypeOK
  <2>3. \A d \in Consumers : pc[d] = "batch" =>
            (pc'[d] = "batch" /\ obj'[d] = obj[d]) \/ obj[d] \in Entries'
    BY Zenon DEF DropDelete, Goto, consumerVars, ConsumerTypeOK, Entries, InBatcher
  <2> QED  BY <2>1, <2>2, <2>3, ScheduleKept, Zenon
<1> QED  BY <1>1, <1>2, <1>3, <1>4, <1>5, <1>6, Zenon DEF QueueOK

\* The consumer is done with its group.
LEMMA AppendSpansInv ==
  ASSUME Inv, NEW c \in Consumers, AppendSpans(c)
  PROVE  Inv'
<1> USE DEF Inv, TypeOK
<1>1. MapTypeOK' /\ BatcherTypeOK' /\ TickerTypeOK'
  BY MapFrame, BatcherFrame, TickerFrame, Zenon DEF AppendSpans, mapVars
<1>2. ObjectTypeOK'
  BY CascadeAssumption DEF AppendSpans, Goto, ObjectTypeOK, Objects,
     ConsumerTypeOK, TickerTypeOK, Decisions
<1>3. ConsumerTypeOK'
  BY CascadeAssumption, Zenon DEF AppendSpans, Goto, ConsumerTypeOK, Objects, MapTypeOK
<1>4. FateTypeOK'
  BY CascadeAssumption DEF AppendSpans, Goto, FateTypeOK, Objects,
     ConsumerTypeOK, TickerTypeOK
<1>5. Linked'
  BY CascadeAssumption DEF AppendSpans, Goto, mapVars, consumerVars, Linked,
     MapTypeOK, ConsumerTypeOK, Objects
<1>6. QueueOK'
  <2>1. KeyTracked'
    BY DEF AppendSpans, Goto, KeyTracked, OnMap, mapVars, consumerVars,
       MapTypeOK, ConsumerTypeOK
  <2>2. Room'
    BY Zenon DEF AppendSpans, Goto, Room, mapVars, consumerVars, ConsumerTypeOK
  <2>3. EvictNeverStuck'
    BY Zenon DEF AppendSpans, Goto, EvictNeverStuck, mapVars, consumerVars, ConsumerTypeOK
  <2> QED  BY <2>1, <2>2, <2>3 DEF QueueOK
<1>7. EveryTraceScheduled'
  <2>1. Entries' = Entries
    BY EntriesFrame, Zenon DEF AppendSpans, batcherVars, tickVars
  <2>2. \A t \in TraceIDs : idToTrace'[t] # None => idToTrace'[t] = idToTrace[t]
    BY Zenon DEF AppendSpans, Goto, mapVars, MapTypeOK
  <2>3. \A d \in Consumers : pc[d] = "batch" =>
            (pc'[d] = "batch" /\ obj'[d] = obj[d]) \/ obj[d] \in Entries'
    BY Zenon DEF AppendSpans, Goto, consumerVars, ConsumerTypeOK, Entries, InBatcher
  <2> QED  BY <2>1, <2>2, <2>3, ScheduleKept, Zenon
<1> QED  BY <1>1, <1>2, <1>3, <1>4, <1>5, <1>6, <1>7, Zenon DEF QueueOK

\* An entry moves inside the batcher.
LEMMA FillBatchInv ==
  ASSUME Inv, NEW x \in Groups, FillBatch(x)
  PROVE  Inv'
<1> USE DEF Inv, TypeOK
<1>1. MapTypeOK' /\ ObjectTypeOK' /\ ConsumerTypeOK' /\ TickerTypeOK'
      /\ FateTypeOK' /\ Linked' /\ QueueOK'
  BY MapFrame, ObjectFrame, ConsumerFrame, TickerFrame, FateFrame,
     LinkedFrame, QueueFrame DEF FillBatch, consumerVars, mapVars, QueueOK
<1>2. BatcherTypeOK'
  BY CascadeAssumption DEF FillBatch, Batcher!Put, BatcherTypeOK, Objects,
     ConsumerTypeOK, TickerTypeOK
<1>3. EveryTraceScheduled'
  <2>1. Entries \subseteq Entries'
    <3>1. adding' = adding \ {x} /\ current' = current \cup {x} /\ UNCHANGED <<pipe, todo, batch>>
      BY Zenon DEF FillBatch, Batcher!Put, tickVars
    <3> QED BY ONLY <3>1 DEF Entries, InBatcher
  <2>2. \A t \in TraceIDs : idToTrace'[t] # None => idToTrace'[t] = idToTrace[t]
    BY Zenon DEF FillBatch, Batcher!Put, mapVars, MapTypeOK
  <2>3. \A d \in Consumers : pc[d] = "batch" =>
            (pc'[d] = "batch" /\ obj'[d] = obj[d]) \/ obj[d] \in Entries'
    BY Zenon DEF FillBatch, Batcher!Put, consumerVars, ConsumerTypeOK, Entries, InBatcher
  <2> QED  BY <2>1, <2>2, <2>3, ScheduleKept, Zenon
<1> QED  BY <1>1, <1>2, <1>3, Zenon DEF QueueOK

\* The oldest batch leaves the batcher and becomes the batch to decide.
LEMMA TickInv ==
  ASSUME Inv, Tick
  PROVE  Inv'
<1> USE DEF Inv, TypeOK
<1>1. MapTypeOK' /\ ObjectTypeOK' /\ ConsumerTypeOK' /\ Linked' /\ QueueOK'
  BY MapFrame, ObjectFrame, ConsumerFrame, LinkedFrame, QueueFrame DEF Tick,
     consumerVars, mapVars, QueueOK
<1>2. BatcherTypeOK'
  BY CascadeAssumption DEF Tick, Batcher!Rotate, BatcherTypeOK, Objects,
     ConsumerTypeOK, TickerTypeOK
<1>3. TickerTypeOK'
  BY CascadeAssumption DEF BatcherTypeOK, Tick, TickerTypeOK, Objects
<1>4. FateTypeOK'
  BY CascadeAssumption DEF Tick, Batcher!Rotate, FateTypeOK, Objects,
     ConsumerTypeOK, TickerTypeOK
<1>5. EveryTraceScheduled'
  <2>1. Entries \subseteq Entries'
    <3>1. pipe \in Seq(SUBSET Groups) /\ pipe # <<>> /\ Tail(pipe) \in Seq(SUBSET Groups)
      BY CascadeAssumption DEF BatcherTypeOK
    <3>2. pipe' = Append(Tail(pipe), current) /\ batch' = Head(pipe)
      BY Zenon DEF Tick, Batcher!Rotate
    <3>3. current \subseteq UNION {pipe'[k] : k \in DOMAIN pipe'}
      BY <3>1, <3>2, AppendKeys DEF BatcherTypeOK
    <3>4. ASSUME NEW k \in DOMAIN pipe
          PROVE  pipe[k] \subseteq Entries'
      <4>1. CASE pipe[k] = Head(pipe)
        BY <4>1, <3>2 DEF Entries
      <4>2. CASE \E j \in DOMAIN Tail(pipe) : Tail(pipe)[j] = pipe[k]
        BY <3>1, <3>2, <4>2, AppendKeys DEF BatcherTypeOK, Entries, InBatcher
      <4> QED  BY <3>1, <3>4, <4>1, <4>2, TailKeys, Zenon
    <3>5. todo = {} /\ batch = {} /\ adding' = adding
      BY Zenon DEF Tick, TickerTypeOK
    <3> QED  BY <3>3, <3>4, <3>5 DEF Entries, InBatcher
  <2>2. UNCHANGED <<idToTrace, pc, obj>>
    BY Zenon DEF Tick, mapVars, consumerVars
  <2> QED  BY <2>1, <2>2, ScheduleKept, Zenon
<1> QED  BY <1>1, <1>2, <1>3, <1>4, <1>5, Zenon DEF QueueOK

\* The first pass keeps the batch for the second.
LEMMA Pass1SkipInv ==
  ASSUME Inv, NEW x \in Groups, Pass1Skip(x)
  PROVE  Inv'
<1> USE DEF Inv, TypeOK
<1>1. MapTypeOK' /\ ObjectTypeOK' /\ BatcherTypeOK' /\ ConsumerTypeOK'
      /\ FateTypeOK' /\ Linked' /\ QueueOK'
  BY MapFrame, ObjectFrame, BatcherFrame, ConsumerFrame, FateFrame,
     LinkedFrame, QueueFrame DEF Pass1Skip, consumerVars, mapVars, QueueOK
<1>2. TickerTypeOK'
  BY CascadeAssumption DEF Pass1Skip, Pass1Next, TickerTypeOK, Objects,
     MapTypeOK, Decisions
<1>3. EveryTraceScheduled'
  <2>1. Entries \subseteq Entries'
    BY DEF Pass1Skip, Pass1Next, Entries, InBatcher, batcherVars, tickVars,
       TickerTypeOK
  <2>2. \A t \in TraceIDs : idToTrace'[t] # None => idToTrace'[t] = idToTrace[t]
    BY Zenon DEF Pass1Skip, Pass1Next, mapVars, MapTypeOK
  <2>3. \A d \in Consumers : pc[d] = "batch" =>
            (pc'[d] = "batch" /\ obj'[d] = obj[d]) \/ obj[d] \in Entries'
    BY Zenon DEF Pass1Skip, Pass1Next, consumerVars, ConsumerTypeOK, Entries, InBatcher
  <2> QED  BY <2>1, <2>2, <2>3, ScheduleKept, Zenon
<1> QED  BY <1>1, <1>2, <1>3, Zenon DEF QueueOK

\* An evaluation touches the ticker and the limiter only.
LEMMA Pass1EvaluateInv ==
  ASSUME Inv, NEW x \in Groups, Pass1Evaluate(x)
  PROVE  Inv'
<1> USE DEF Inv, TypeOK
<1>1. MapTypeOK' /\ ObjectTypeOK' /\ BatcherTypeOK' /\ ConsumerTypeOK'
      /\ FateTypeOK' /\ Linked' /\ QueueOK' /\ EveryTraceScheduled'
  BY ZenonT(60), MapFrame, ObjectFrame, BatcherFrame, ConsumerFrame, FateFrame,
     LinkedFrame, QueueFrame, ScheduleFrame DEF Pass1Evaluate, consumerVars,
     mapVars, tickVars, QueueOK
<1>2. TickerTypeOK'
  BY CascadeAssumption, Zenon DEF Pass1Evaluate, MapTypeOK, Objects, UpdateRate, Decisions, TickerTypeOK
<1> QED  BY <1>1, <1>2, Zenon DEF QueueOK

\* A decision leaves the batch for the second pass.
LEMMA Pass1DecideInv ==
  ASSUME Inv, Pass1Decide
  PROVE  Inv'
<1> USE DEF Inv, TypeOK
<1>1. MapTypeOK' /\ BatcherTypeOK' /\ ConsumerTypeOK' /\ FateTypeOK' /\ Linked'
      /\ QueueOK'
  BY MapFrame, BatcherFrame, ConsumerFrame, FateFrame, LinkedFrame, QueueFrame, Zenon
     DEF Pass1Decide, consumerVars, mapVars, QueueOK
<1>2. ObjectTypeOK'
  BY CascadeAssumption DEF Pass1Decide, Pass1Next, ObjectTypeOK, Objects,
     ConsumerTypeOK, TickerTypeOK, Decisions
<1>3. TickerTypeOK'
  BY CascadeAssumption DEF Pass1Decide, Pass1Next, TickerTypeOK, Objects,
     MapTypeOK, Decisions
<1>4. EveryTraceScheduled'
  <2>1. Entries \subseteq Entries'
    BY DEF Pass1Decide, Pass1Next, Entries, InBatcher, batcherVars, tickVars,
       TickerTypeOK
  <2>2. \A t \in TraceIDs : idToTrace'[t] # None => idToTrace'[t] = idToTrace[t]
    BY Zenon DEF Pass1Decide, Pass1Next, mapVars, MapTypeOK
  <2>3. \A d \in Consumers : pc[d] = "batch" =>
            (pc'[d] = "batch" /\ obj'[d] = obj[d]) \/ obj[d] \in Entries'
    BY Zenon DEF Pass1Decide, Pass1Next, consumerVars, ConsumerTypeOK, Entries, InBatcher
  <2> QED  BY <2>1, <2>2, <2>3, ScheduleKept, Zenon
<1> QED  BY <1>1, <1>2, <1>3, <1>4, Zenon DEF QueueOK

-----------------------------------------------------------------------------
(* The second pass of the ticker. *)

\* The entry leaves the batch; its object is not on the map.
LEMMA Pass2SkipInv ==
  ASSUME Inv, NEW x \in Groups, Pass2Skip(x)
  PROVE  Inv'
<1> USE DEF Inv, TypeOK
<1>1. MapTypeOK' /\ ObjectTypeOK' /\ BatcherTypeOK' /\ ConsumerTypeOK'
      /\ FateTypeOK' /\ Linked' /\ QueueOK'
  BY MapFrame, ObjectFrame, BatcherFrame, ConsumerFrame, FateFrame,
     LinkedFrame, QueueFrame DEF Pass2Skip, consumerVars, mapVars, QueueOK
<1>2. TickerTypeOK'
  BY CascadeAssumption DEF Pass2Skip, Pass2Next, TickerTypeOK, Objects,
     MapTypeOK, Decisions
<1>3. EveryTraceScheduled'
  <2>1. Entries \subseteq Entries' \cup {x}
    BY DEF Pass2Skip, Pass2Next, Entries, InBatcher, batcherVars, tickVars,
       TickerTypeOK
  <2>2. \A t \in TraceIDs : idToTrace'[t] # None =>
            idToTrace'[t] = idToTrace[t] /\ idToTrace[t] \notin {x}
    BY CascadeAssumption DEF Pass2Skip, Pass2Next, mapVars, MapTypeOK, Linked,
       TickerTypeOK, Objects
  <2>3. \A d \in Consumers : pc[d] = "batch" =>
            (pc'[d] = "batch" /\ obj'[d] = obj[d]) \/ obj[d] \in Entries'
    BY Zenon DEF Pass2Skip, Pass2Next, consumerVars, ConsumerTypeOK, Entries, InBatcher
  <2> QED  BY Zenon, <2>1, <2>2, <2>3, ScheduleStep
<1> QED  BY <1>1, <1>2, <1>3 DEF QueueOK

\* The second pass decides without touching the map.
LEMMA SecondPassInv ==
  ASSUME Inv, NEW x \in Groups, SecondPass(x)
  PROVE  Inv'
<1> USE DEF Inv, TypeOK
<1>1. MapTypeOK' /\ BatcherTypeOK' /\ ConsumerTypeOK' /\ FateTypeOK' /\ Linked'
      /\ QueueOK' /\ EveryTraceScheduled'
  BY MapFrame, BatcherFrame, ConsumerFrame, FateFrame, LinkedFrame,
     QueueFrame, ScheduleFrame DEF SecondPass, consumerVars, mapVars,
     tickVars, QueueOK
<1>2. ObjectTypeOK'
  BY Zenon DEF UpdateRate, Decisions, SecondPass, ObjectTypeOK
<1>3. TickerTypeOK'
  BY CascadeAssumption, Zenon DEF SecondPass, TickerTypeOK, Objects, MapTypeOK, Decisions
<1> QED  BY <1>1, <1>2, <1>3, Zenon DEF QueueOK

\* The history keeps decisions only.
LEMMA RememberInv ==
  ASSUME Inv, Remember
  PROVE  Inv'
<1> USE DEF Inv, TypeOK
<1>1. ObjectTypeOK' /\ BatcherTypeOK' /\ ConsumerTypeOK' /\ FateTypeOK'
      /\ Linked' /\ QueueOK' /\ EveryTraceScheduled'
  BY ObjectFrame, BatcherFrame, ConsumerFrame, FateFrame, LinkedFrame,
     QueueFrame, ScheduleFrame DEF Remember, consumerVars, mapVars, tickVars,
     QueueOK
<1>2. MapTypeOK'
  <2>1. tobj \in Groups
    BY Zenon DEF Remember, TickerTypeOK, Objects
  <2>2. finalDecision[tobj] \in Decisions
    BY <2>1 DEF ObjectTypeOK
  <2>3. decisionHistory' \in [TraceIDs -> Decisions \cup {None}]
    BY <2>2, Zenon DEF Remember, MapTypeOK
  <2> QED  BY <2>3, Zenon DEF Remember, MapTypeOK, mapVars
<1>3. TickerTypeOK'
  BY CascadeAssumption, Zenon DEF Remember, TickerTypeOK, Objects, MapTypeOK, Decisions
<1> QED  BY <1>1, <1>2, <1>3 DEF QueueOK

\* The spans leave their object.
LEMMA CleanupInv ==
  ASSUME Inv, Cleanup
  PROVE  Inv'
<1> USE DEF Inv, TypeOK
<1>1. MapTypeOK' /\ BatcherTypeOK' /\ ConsumerTypeOK' /\ Linked' /\ QueueOK'
      /\ EveryTraceScheduled'
  BY MapFrame, BatcherFrame, ConsumerFrame, LinkedFrame, QueueFrame,
     ScheduleFrame DEF Cleanup, consumerVars, mapVars, tickVars, QueueOK
<1>2. ObjectTypeOK'
  BY CascadeAssumption DEF Cleanup, ObjectTypeOK, Objects, ConsumerTypeOK,
     TickerTypeOK, Decisions
<1>3. TickerTypeOK'
  BY CascadeAssumption, Zenon DEF Cleanup, TickerTypeOK, Objects, MapTypeOK, Decisions
<1>4. FateTypeOK'
  BY Zenon DEF Cleanup, TickerTypeOK, ObjectTypeOK, Objects, FateTypeOK
<1> QED  BY <1>1, <1>2, <1>3, <1>4 DEF QueueOK

\* The entry leaves the batch if its id is not on the map.
LEMMA TickDropLoadInv ==
  ASSUME Inv, TickDropLoad
  PROVE  Inv'
<1> USE DEF Inv, TypeOK
<1>1. MapTypeOK' /\ ObjectTypeOK' /\ BatcherTypeOK' /\ ConsumerTypeOK'
      /\ FateTypeOK' /\ Linked' /\ QueueOK'
  BY MapFrame, ObjectFrame, BatcherFrame, ConsumerFrame, FateFrame,
     LinkedFrame, QueueFrame DEF TickDropLoad, consumerVars, mapVars, QueueOK
<1>2. TickerTypeOK'
  BY CascadeAssumption DEF TickDropLoad, TickerTypeOK, Objects, Pass2Next
<1>3. EveryTraceScheduled'
  <2>1. CASE idToTrace[TraceOf[token]] # None
    BY <2>1, ScheduleFrame, Zenon DEF TickDropLoad, mapVars, consumerVars
  <2>2. CASE idToTrace[TraceOf[token]] = None
    <3>1. Entries \subseteq Entries' \cup {token}
      BY <2>2 DEF TickDropLoad, Pass2Next, Entries, InBatcher, batcherVars,
         TickerTypeOK
    <3>2. \A t \in TraceIDs : idToTrace'[t] # None =>
            idToTrace'[t] = idToTrace[t] /\ idToTrace[t] \notin {token}
      BY <2>2, Zenon DEF TickDropLoad, mapVars, Linked
    <3>3. UNCHANGED <<pc, obj>>
      BY Zenon DEF TickDropLoad, consumerVars
    <3> QED  BY Zenon, <3>1, <3>2, <3>3, ScheduleStep
  <2> QED  BY <2>1, <2>2
<1> QED  BY <1>1, <1>2, <1>3 DEF QueueOK

\* The entry leaves the batch with whatever object its id led to.
LEMMA TickDropDeleteInv ==
  ASSUME Inv, TickDropDelete
  PROVE  Inv'
<1> USE DEF Inv, TypeOK
<1>1. ObjectTypeOK' /\ BatcherTypeOK' /\ ConsumerTypeOK' /\ FateTypeOK'
  BY ObjectFrame, BatcherFrame, ConsumerFrame, FateFrame DEF TickDropDelete
<1>2. MapTypeOK'
  BY CascadeAssumption DEF TickDropDelete, Pass2Next, MapTypeOK, Objects,
     ConsumerTypeOK, TickerTypeOK
<1>3. TickerTypeOK'
  BY CascadeAssumption DEF TickDropDelete, Pass2Next, TickerTypeOK, Objects,
     MapTypeOK, Decisions
<1>4. Linked'
  BY CascadeAssumption DEF TickDropDelete, Pass2Next, mapVars, consumerVars,
     Linked, MapTypeOK, ConsumerTypeOK, Objects
<1>5. QueueOK'
  <2>1. KeyTracked'
    BY DEF TickDropDelete, KeyTracked, OnMap, mapVars, consumerVars, MapTypeOK,
       ConsumerTypeOK
  <2>2. Room'
    BY Zenon DEF TickDropDelete, Room, mapVars, consumerVars, ConsumerTypeOK
  <2>3. EvictNeverStuck'
    BY Zenon DEF TickDropDelete, EvictNeverStuck, mapVars, consumerVars, ConsumerTypeOK
  <2> QED  BY <2>1, <2>2, <2>3 DEF QueueOK
<1>6. EveryTraceScheduled'
  <2>1. Entries \subseteq Entries' \cup {token}
    BY DEF TickDropDelete, Pass2Next, Entries, InBatcher, batcherVars, tickVars,
       TickerTypeOK
  <2>2. \A t \in TraceIDs : idToTrace'[t] # None =>
            idToTrace'[t] = idToTrace[t] /\ idToTrace[t] \notin {token}
    BY CascadeAssumption DEF TickDropDelete, Pass2Next, mapVars, MapTypeOK,
       Linked, TickerTypeOK, Objects
  <2>3. \A d \in Consumers : pc[d] = "batch" =>
            (pc'[d] = "batch" /\ obj'[d] = obj[d]) \/ obj[d] \in Entries'
    BY DEF TickDropDelete, Pass2Next, consumerVars, ConsumerTypeOK, Entries,
       InBatcher
  <2> QED  BY Zenon, <2>1, <2>2, <2>3, ScheduleStep
<1> QED  BY <1>1, <1>2, <1>3, <1>4, <1>5, <1>6 DEF QueueOK

-----------------------------------------------------------------------------
(* The theorems. *)

\* The map, the queue and the batcher start empty and nobody is busy.
LEMMA InitInv == Init => Inv
<1> SUFFICES ASSUME Init PROVE Inv
  OBVIOUS
<1>1. /\ idToTrace = [t \in TraceIDs |-> None] /\ deleteChan = <<>> /\ numTracesOnMap = 0
      /\ decisionHistory = [t \in TraceIDs |-> None]
      /\ pc = [c \in Consumers |-> "idle"] /\ key = [c \in Consumers |-> None]
      /\ tpc = "idle" /\ todo = {} /\ batch = {} /\ token = None /\ tobj = None
      /\ verdict = "Unspecified" /\ second = 0
  BY Zenon DEF Init
<1>2. MapTypeOK
  BY ONLY <1>1, CascadeAssumption DEF MapTypeOK, Objects
<1>3. ObjectTypeOK
  BY Zenon DEF Init, ObjectTypeOK, Decisions
<1>4. ConsumerTypeOK
  BY CascadeAssumption, Zenon DEF Init, ConsumerTypeOK, Objects
<1>5. FateTypeOK
  BY Zenon DEF Init, FateTypeOK, Objects
<1>6. BatcherTypeOK
  <2>1. adding = {} /\ Batcher!PInit
    BY Zenon DEF Init
  <2> QED BY ONLY <2>1, CascadeAssumption DEF BatcherTypeOK, Batcher!PInit
<1>7. TickerTypeOK
  BY ONLY <1>1, CascadeAssumption DEF TickerTypeOK, Objects, Decisions
<1>8. Linked /\ KeyTracked /\ Room /\ EvictNeverStuck /\ EveryTraceScheduled
  BY ONLY <1>1, CascadeAssumption
     DEF Linked, KeyTracked, Room, EvictNeverStuck, EveryTraceScheduled, OnMap
<1> QED  BY <1>2, <1>3, <1>4, <1>5, <1>6, <1>7, <1>8, Zenon DEF Inv, TypeOK

\* Every step of the system preserves the invariant.
LEMMA NextInv == Inv /\ [Next]_vars => Inv'
<1> SUFFICES ASSUME Inv, [Next]_vars PROVE Inv'
  OBVIOUS
<1>1. ASSUME NEW c \in Consumers, NEW g \in Groups, ArriveLate(c, g) \/ ArriveNew(c, g)
      PROVE  Inv'
  BY <1>1, ArriveLateInv, ArriveNewInv
<1>2. ASSUME NEW c \in Consumers, Consumer(c)
      PROVE  Inv'
  BY <1>2, LoadOrStoreInv, AddToCurrentBatchInv, EnqueueInv, EvictInv, DropLoadInv,
     DropDeleteInv, AppendSpansInv DEF Consumer
<1>3. ASSUME NEW x \in Groups, FillBatch(x)
      PROVE  Inv'
  BY <1>3, FillBatchInv
<1>4. CASE Ticker
  BY <1>4, TickInv, Pass1SkipInv, Pass1EvaluateInv, Pass2SkipInv, SecondPassInv,
     Pass1DecideInv, RememberInv, CleanupInv, TickDropLoadInv, TickDropDeleteInv
     DEF Ticker
<1>5. CASE UNCHANGED vars
  <2>1. /\ UNCHANGED mapVars /\ UNCHANGED objVars /\ UNCHANGED batcherVars
        /\ UNCHANGED consumerVars /\ UNCHANGED tickVars /\ UNCHANGED fateVars
        /\ UNCHANGED decisionHistory
    BY <1>5 DEF vars
  <2>2. TypeOK'
    BY <2>1, MapFrame, ObjectFrame, BatcherFrame, ConsumerFrame, TickerFrame,
       FateFrame
       DEF Inv, TypeOK
  <2>3. Linked' /\ QueueOK' /\ EveryTraceScheduled'
    BY <2>1, LinkedFrame, QueueFrame, ScheduleFrame
       DEF Inv, QueueOK, mapVars, consumerVars, tickVars
  <2> QED  BY <2>2, <2>3 DEF Inv, QueueOK
<1> QED  BY <1>1, <1>2, <1>3, <1>4, <1>5 DEF Next

\* The consumers and the ticker, whatever they interleave, keep the shape of
\* the state, know every id on the map to the queue, never leave a consumer
\* waiting for an id to evict, and keep an entry of its own for every trace on
\* the map: bufferTraces, dropTrace and decideOnBatch together.
THEOREM CascadeSafe ==
  Spec => [](TypeOK /\ NothingStranded)
<1>1. Inv => TypeOK /\ NothingStranded
  BY DEF Inv, NothingStranded
<1> QED  BY InitInv, NextInv, <1>1, PTL DEF Spec
==============================================================================
