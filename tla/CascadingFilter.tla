--------------------------- MODULE CascadingFilter ---------------------------
(***************************************************************************)
(* cascadingfilterprocessor/processor.go and cascade.go: the goroutines    *)
(* that deliver spans (ConsumeTraces) and the ticker goroutine that        *)
(* decides on one batch of traces per tick, over the shared map idToTrace, *)
(* the queue deleteChan, the decision history and the batcher.             *)
(*                                                                         *)
(* A group is the spans of one trace found in one resource: the unit that  *)
(* processTraces handles.  A TraceData object is named by the group whose  *)
(* LoadOrStore created it, so the batcher's additions are groups too.      *)
(* Which rules match a trace is left open: an evaluation may give any      *)
(* verdict (PolicyRules has the rules).  The batcher is BatchPipeline,     *)
(* which IdBatcher implements.  Dropped, the decision of a reject rule, is  *)
(* treated like NotSampled by all of this code and is not told apart.      *)
(***************************************************************************)
EXTENDS Naturals, Sequences, FiniteSets, RateLimiter

CONSTANTS Consumers,     \* goroutines inside ConsumeTraces
          TraceIDs,
          Groups,        \* groups of spans, each of one span
          TraceOf,       \* the trace of a group
          NumTraces,     \* num_traces, the capacity of deleteChan
          NumBatches,    \* decision_wait in seconds
          HistorySize,   \* history_size
          SpansPerSecond,
          CounterSize,   \* stands for the 2^64 of the unsigned counter
          MaxSecond,     \* bound on the clock
          None

ASSUME CascadeAssumption ==
  /\ TraceOf \in [Groups -> TraceIDs]
  /\ NumTraces \in Nat \ {0}
  /\ NumBatches \in Nat \ {0}
  /\ HistorySize \in Nat \ {0}
  /\ CounterSize \in Nat \ {0}
  /\ SpansPerSecond \in Int
  /\ MaxSecond \in Nat
  /\ None \notin Groups
  /\ None \notin TraceIDs
  /\ IsFiniteSet(Consumers)

Decisions == {"Unspecified", "Pending", "Sampled", "SecondChance", "NotSampled"}

ASSUME DecisionsAssumption == None \notin Decisions

VARIABLES
  idToTrace,       \* trace id -> TraceData object, or None
  spanCount,       \* SpanCount of an object
  finalDecision,   \* FinalDecision of an object
  received,        \* ReceivedBatches of an object
  deleteChan,
  numTracesOnMap,
  decisionHistory, \* trace id -> decision, or None
  limiter,         \* decisionSpansLimitter
  adding,          \* objects sent to the batcher and not yet in a batch
  current, pipe, taken, open,   \* the batcher
  pc, grp, obj, key,            \* a consumer: where it is, its group, the
                                \* object it holds, the key it evicts
  tpc,             \* the ticker: where it is,
  todo,            \* what is left of the batch in the current pass,
  batch,           \* the whole batch,
  token, tobj,     \* the batch entry at hand and the object it led to,
  verdict,         \* the decision about to be written
  second,          \* the second in which the batch is decided
  forwarded,       \* history: groups passed on when their trace was decided
  late,            \* history: groups passed on on arrival
  refused,         \* history: groups turned away by an earlier decision
  missed,          \* history: groups that found their object decided
  home,            \* history: the object a group was added to
  emitted          \* history: groups passed on by decisions of this second

mapVars == <<idToTrace, deleteChan, numTracesOnMap>>
objVars == <<spanCount, finalDecision, received>>
batcherVars == <<adding, current, pipe, taken, open>>
consumerVars == <<pc, grp, obj, key>>
tickVars == <<tpc, todo, batch, token, tobj, verdict, second>>
fateVars == <<forwarded, late, refused, missed, home, emitted>>
vars == <<mapVars, objVars, batcherVars, consumerVars, tickVars, fateVars,
          decisionHistory, limiter>>

Batcher == INSTANCE BatchPipeline WITH Items <- Groups

InBatcher == adding \cup current \cup UNION {pipe[k] : k \in DOMAIN pipe}

Arrived == {g \in Groups : \E c \in Consumers : grp[c] = g}
             \cup forwarded \cup late \cup refused \cup missed
             \cup {g \in Groups : home[g] # None}

OnMap == {t \in TraceIDs : idToTrace[t] # None}

Init ==
  /\ idToTrace = [t \in TraceIDs |-> None]
  /\ spanCount = [g \in Groups |-> 0]
  /\ finalDecision = [g \in Groups |-> "Unspecified"]
  /\ received = [g \in Groups |-> {}]
  /\ deleteChan = <<>>
  /\ numTracesOnMap = 0
  /\ decisionHistory = [t \in TraceIDs |-> None]
  /\ limiter = NewRateLimitter(SpansPerSecond)
  /\ adding = {}
  /\ Batcher!PInit
  /\ pc = [c \in Consumers |-> "idle"]
  /\ grp = [c \in Consumers |-> None]
  /\ obj = [c \in Consumers |-> None]
  /\ key = [c \in Consumers |-> None]
  /\ tpc = "idle" /\ todo = {} /\ batch = {} /\ token = None /\ tobj = None
  /\ verdict = "Unspecified" /\ second = 0
  /\ forwarded = {} /\ late = {} /\ refused = {} /\ missed = {}
  /\ home = [g \in Groups |-> None] /\ emitted = {}

-----------------------------------------------------------------------------
(* ConsumeTraces: processTraces and bufferTraces. *)

Goto(c, l) == pc' = [pc EXCEPT ![c] = l]

\* A group whose trace was sampled before is passed on if priorSpansLimitter
\* admits it; the outcome of that limiter, which callers race on, is open
\* here and modelled in LateSpans.
ArriveLate(c, g) ==
  /\ pc[c] = "idle"
  /\ g \notin Arrived
  /\ decisionHistory[TraceOf[g]] \in {"Sampled", "NotSampled"}
  /\ \/ /\ decisionHistory[TraceOf[g]] = "Sampled"
        /\ late' = late \cup {g}
        /\ UNCHANGED refused
     \/ /\ refused' = refused \cup {g}
        /\ UNCHANGED late
  /\ UNCHANGED <<mapVars, objVars, batcherVars, consumerVars, tickVars,
                 decisionHistory, limiter, forwarded, missed, home, emitted>>

\* No usable decision in the history: the group is to be buffered.
ArriveNew(c, g) ==
  /\ pc[c] = "idle"
  /\ g \notin Arrived
  /\ decisionHistory[TraceOf[g]] \notin {"Sampled", "NotSampled"}
  /\ grp' = [grp EXCEPT ![c] = g]
  /\ Goto(c, "store")
  /\ UNCHANGED <<mapVars, objVars, batcherVars, obj, key, tickVars, fateVars,
                 decisionHistory, limiter>>

\* idToTrace.LoadOrStore and, for a trace already there, the atomic addition
\* to its SpanCount, in one step: only the charge of firstPass reads the count,
\* and it may come before or after both.
LoadOrStore(c) ==
  /\ pc[c] = "store"
  /\ LET g == grp[c]
         t == TraceOf[g]
     IN IF idToTrace[t] = None
        THEN /\ idToTrace' = [idToTrace EXCEPT ![t] = g]
             /\ spanCount' = [spanCount EXCEPT ![g] = 1]
             /\ obj' = [obj EXCEPT ![c] = g]
             /\ Goto(c, "batch")
        ELSE /\ spanCount' = [spanCount EXCEPT ![idToTrace[t]] = @ + 1]
             /\ obj' = [obj EXCEPT ![c] = idToTrace[t]]
             /\ Goto(c, "append")
             /\ UNCHANGED idToTrace
  /\ UNCHANGED <<deleteChan, numTracesOnMap, finalDecision, received,
                 batcherVars, grp, key, tickVars, fateVars, decisionHistory,
                 limiter>>

\* AddToCurrentBatch and the counter, which no other step reads.
AddToCurrentBatch(c) ==
  /\ pc[c] = "batch"
  /\ adding' = adding \cup {obj[c]}
  /\ numTracesOnMap' = (numTracesOnMap + 1) % CounterSize
  /\ Goto(c, "enqueue")
  /\ UNCHANGED <<idToTrace, deleteChan, objVars, current, pipe, taken, open, grp,
                 obj, key, tickVars, fateVars, decisionHistory, limiter>>

\* Mutant: the id is queued for deletion however full the queue is.
EnqueueUnbounded(c) ==
  /\ pc[c] = "enqueue"
  /\ deleteChan' = Append(deleteChan, TraceOf[grp[c]])
  /\ Goto(c, "append")
  /\ UNCHANGED <<idToTrace, numTracesOnMap, objVars, batcherVars, grp, obj, key,
                 tickVars, fateVars, decisionHistory, limiter>>

\* The select: queue the id if there is room, or else go and evict one.
Enqueue(c) ==
  /\ pc[c] = "enqueue"
  /\ IF Len(deleteChan) < NumTraces
     THEN /\ deleteChan' = Append(deleteChan, TraceOf[grp[c]])
          /\ Goto(c, "append")
     ELSE /\ Goto(c, "evict")
          /\ UNCHANGED deleteChan
  /\ UNCHANGED <<idToTrace, numTracesOnMap, objVars, batcherVars, grp, obj, key,
                 tickVars, fateVars, decisionHistory, limiter>>

\* The receive blocks while other consumers have emptied the queue.
Evict(c) ==
  /\ pc[c] = "evict"
  /\ deleteChan # <<>>
  /\ key' = [key EXCEPT ![c] = Head(deleteChan)]
  /\ deleteChan' = Tail(deleteChan)
  /\ Goto(c, "dropLoad")
  /\ UNCHANGED <<idToTrace, numTracesOnMap, objVars, batcherVars, grp, obj,
                 tickVars, fateVars, decisionHistory, limiter>>

\* Mutant: the evicted id is left on the map.
EvictForgets(c) ==
  /\ pc[c] = "dropLoad"
  /\ key' = [key EXCEPT ![c] = None]
  /\ Goto(c, "enqueue")
  /\ UNCHANGED <<mapVars, objVars, batcherVars, grp, obj, tickVars, fateVars,
                 decisionHistory, limiter>>

\* dropTrace of the evicted id: load, then delete and count.
DropLoad(c) ==
  /\ pc[c] = "dropLoad"
  /\ IF idToTrace[key[c]] # None
     THEN Goto(c, "dropDelete") /\ UNCHANGED key
     ELSE Goto(c, "enqueue") /\ key' = [key EXCEPT ![c] = None]
  /\ UNCHANGED <<mapVars, objVars, batcherVars, grp, obj, tickVars, fateVars,
                 decisionHistory, limiter>>

DropDelete(c) ==
  /\ pc[c] = "dropDelete"
  /\ idToTrace' = [idToTrace EXCEPT ![key[c]] = None]
  /\ numTracesOnMap' = (numTracesOnMap + CounterSize - 1) % CounterSize
  /\ key' = [key EXCEPT ![c] = None]
  /\ Goto(c, "enqueue")
  /\ UNCHANGED <<deleteChan, objVars, batcherVars, grp, obj, tickVars, fateVars,
                 decisionHistory, limiter>>

\* Under the object's lock: the spans are kept only while it is undecided.
AppendSpans(c) ==
  /\ pc[c] = "append"
  /\ IF finalDecision[obj[c]] \in {"Pending", "Unspecified"}
     THEN /\ received' = [received EXCEPT ![obj[c]] = @ \cup {grp[c]}]
          /\ UNCHANGED missed
     ELSE /\ missed' = missed \cup {grp[c]}
          /\ UNCHANGED received
  /\ home' = [home EXCEPT ![grp[c]] = obj[c]]
  /\ grp' = [grp EXCEPT ![c] = None]
  /\ obj' = [obj EXCEPT ![c] = None]
  /\ Goto(c, "idle")
  /\ UNCHANGED <<mapVars, spanCount, finalDecision, batcherVars, key, tickVars,
                 forwarded, late, refused, emitted, decisionHistory, limiter>>

Consumer(c) == \/ LoadOrStore(c) \/ AddToCurrentBatch(c)
               \/ Enqueue(c) \/ Evict(c)
               \/ DropLoad(c) \/ DropDelete(c)
               \/ AppendSpans(c)

-----------------------------------------------------------------------------
(* The batcher's goroutine. *)

FillBatch(x) ==
  /\ x \in adding
  /\ adding' = adding \ {x}
  /\ Batcher!Put(x)
  /\ UNCHANGED <<mapVars, objVars, consumerVars, tickVars, fateVars,
                 decisionHistory, limiter>>

-----------------------------------------------------------------------------
(* The ticker: samplingPolicyOnTick and decideOnBatch. *)

\* One tick takes the oldest batch.  The ticker is started by the first
\* ConsumeTraces.  The clock is read once per batch.
Tick ==
  /\ tpc = "idle"
  /\ Arrived # {}
  /\ Batcher!Rotate
  /\ batch' = Head(pipe)
  /\ todo' = Head(pipe)
  /\ tpc' = IF Head(pipe) = {} THEN "idle" ELSE "pass1"
  /\ \E t \in second..MaxSecond :
       /\ second' = t
       /\ emitted' = IF t > second THEN {} ELSE emitted
  /\ UNCHANGED <<mapVars, objVars, adding, consumerVars, token, tobj, verdict,
                 forwarded, late, refused, missed, home, decisionHistory, limiter>>

\* The entry at hand is done with: the next one, or the second pass.
Pass1Next(x) ==
  /\ tpc' = IF todo = {x} THEN "pass2" ELSE "pass1"
  /\ todo' = IF todo = {x} THEN batch ELSE todo \ {x}
  /\ UNCHANGED batch

Pass2Next(x) ==
  /\ tpc' = IF todo = {x} THEN "idle" ELSE "pass2"
  /\ todo' = todo \ {x}
  /\ batch' = todo \ {x}

\* An id evicted before the decision is skipped.
Pass1Skip(x) ==
  /\ tpc = "pass1"
  /\ x \in todo
  /\ idToTrace[TraceOf[x]] = None
  /\ Pass1Next(x)
  /\ UNCHANGED <<mapVars, objVars, batcherVars, consumerVars, token, tobj,
                 verdict, second, fateVars, decisionHistory, limiter>>

\* The reject and accept rules give a provisional decision; firstPass charges
\* a sampled trace to the limiter with the SpanCount it has now.  Load, the rules
\* and the charge are one step: spans that come between them might as well have
\* come before, and an eviction after.
Pass1Evaluate(x) ==
  /\ tpc = "pass1"
  /\ x \in todo
  /\ idToTrace[TraceOf[x]] # None
  /\ token' = x
  /\ tobj' = idToTrace[TraceOf[x]]
  /\ tpc' = "decide"
  /\ \/ /\ verdict' \in {"NotSampled", "SecondChance"}
        /\ UNCHANGED limiter
     \/ LET rate == UpdateRate(limiter, second, spanCount[tobj'])
        IN verdict' = rate.decision /\ limiter' = rate.limiter
  /\ UNCHANGED <<mapVars, objVars, batcherVars, consumerVars, todo, batch, second,
                 fateVars, decisionHistory>>

\* firstPass stores the decision, without the object's lock.
Pass1Decide ==
  /\ tpc = "decide"
  /\ finalDecision' = [finalDecision EXCEPT ![tobj] = verdict]
  /\ Pass1Next(token)
  /\ token' = None /\ tobj' = None /\ verdict' = "Unspecified"
  /\ UNCHANGED <<mapVars, spanCount, received, batcherVars, consumerVars, second,
                 fateVars, decisionHistory, limiter>>

Pass2Skip(x) ==
  /\ tpc = "pass2"
  /\ x \in todo
  /\ idToTrace[TraceOf[x]] = None
  /\ Pass2Next(x)
  /\ UNCHANGED <<mapVars, objVars, batcherVars, consumerVars, token, tobj,
                 verdict, second, fateVars, decisionHistory, limiter>>

\* secondPass: what is left of the limit goes to the second-chance traces.
SecondPass(x) ==
  /\ tpc = "pass2"
  /\ x \in todo
  /\ idToTrace[TraceOf[x]] # None
  /\ token' = x
  /\ tobj' = idToTrace[TraceOf[x]]
  /\ IF finalDecision[tobj'] = "SecondChance"
     THEN LET rate == UpdateRate(limiter, second, spanCount[tobj'])
          IN /\ finalDecision' = [finalDecision EXCEPT ![tobj'] = rate.decision]
             /\ limiter' = rate.limiter
     ELSE UNCHANGED <<finalDecision, limiter>>
  /\ tpc' = "history"
  /\ UNCHANGED <<mapVars, spanCount, received, batcherVars, consumerVars, todo,
                 batch, verdict, second, fateVars, decisionHistory>>

\* Mutant: whatever was decided is remembered as sampled.
RememberSampled ==
  /\ tpc = "history"
  /\ decisionHistory' = [decisionHistory EXCEPT ![TraceOf[token]] = "Sampled"]
  /\ tpc' = "cleanup"
  /\ UNCHANGED <<mapVars, objVars, batcherVars, consumerVars, todo, batch, token,
                 tobj, verdict, second, fateVars, limiter>>

\* decisionHistory.Add evicts an older entry when the cache is full.
Remember ==
  /\ tpc = "history"
  /\ LET t == TraceOf[token]
         kept == {u \in TraceIDs \ {t} : decisionHistory[u] # None}
         added == [decisionHistory EXCEPT ![t] = finalDecision[tobj]]
     IN IF Cardinality(kept) < HistorySize
        THEN decisionHistory' = added
        ELSE \E u \in kept : decisionHistory' = [added EXCEPT ![u] = None]
  /\ tpc' = "cleanup"
  /\ UNCHANGED <<mapVars, objVars, batcherVars, consumerVars, todo, batch, token,
                 tobj, verdict, second, fateVars, limiter>>

\* Mutant: the spans are passed on whatever was decided.
CleanupAll ==
  /\ tpc = "cleanup"
  /\ received' = [received EXCEPT ![tobj] = {}]
  /\ forwarded' = forwarded \cup received[tobj]
  /\ emitted' = emitted \cup received[tobj]
  /\ tpc' = "dropLoad" /\ tobj' = None
  /\ UNCHANGED <<mapVars, spanCount, finalDecision, batcherVars, consumerVars,
                 todo, batch, token, verdict, second, late, refused, missed,
                 home, decisionHistory, limiter>>

\* Mutant: the batches are read and not removed.
CleanupKeeps ==
  /\ tpc = "cleanup"
  /\ forwarded' = IF finalDecision[tobj] = "Sampled"
                  THEN forwarded \cup received[tobj] ELSE forwarded
  /\ emitted' = emitted \cup (forwarded' \ forwarded)
  /\ tpc' = "dropLoad" /\ tobj' = None
  /\ UNCHANGED <<mapVars, objVars, batcherVars, consumerVars,
                 todo, batch, token, verdict, second, late, refused, missed,
                 home, decisionHistory, limiter>>

\* The batches are taken under the lock and, if sampled, passed on together.
Cleanup ==
  /\ tpc = "cleanup"
  /\ received' = [received EXCEPT ![tobj] = {}]
  /\ IF finalDecision[tobj] = "Sampled"
     THEN /\ forwarded' = forwarded \cup received[tobj]
          /\ emitted' = emitted \cup received[tobj]
     ELSE UNCHANGED <<forwarded, emitted>>
  /\ tpc' = "dropLoad" /\ tobj' = None
  /\ UNCHANGED <<mapVars, spanCount, finalDecision, batcherVars, consumerVars,
                 todo, batch, token, verdict, second, late, refused, missed,
                 home, decisionHistory, limiter>>

\* Mutant: a decided trace is left for the queue to evict.
TickDropForgets ==
  /\ tpc = "dropLoad"
  /\ Pass2Next(token)
  /\ token' = None
  /\ UNCHANGED <<mapVars, objVars, batcherVars, consumerVars, tobj, verdict,
                 second, fateVars, decisionHistory, limiter>>

\* dropTrace by the ticker.
TickDropLoad ==
  /\ tpc = "dropLoad"
  /\ IF idToTrace[TraceOf[token]] # None
     THEN tpc' = "dropDelete" /\ UNCHANGED <<todo, batch, token>>
     ELSE Pass2Next(token) /\ token' = None
  /\ UNCHANGED <<mapVars, objVars, batcherVars, consumerVars, tobj, verdict,
                 second, fateVars, decisionHistory, limiter>>

TickDropDelete ==
  /\ tpc = "dropDelete"
  /\ idToTrace' = [idToTrace EXCEPT ![TraceOf[token]] = None]
  /\ numTracesOnMap' = (numTracesOnMap + CounterSize - 1) % CounterSize
  /\ Pass2Next(token)
  /\ token' = None
  /\ UNCHANGED <<deleteChan, objVars, batcherVars, consumerVars, tobj, verdict,
                 second, fateVars, decisionHistory, limiter>>

Ticker == \/ Tick
          \/ \E x \in Groups : \/ Pass1Skip(x) \/ Pass1Evaluate(x)
                               \/ Pass2Skip(x) \/ SecondPass(x)
          \/ Pass1Decide \/ Remember \/ Cleanup
          \/ TickDropLoad \/ TickDropDelete

Next == \/ \E c \in Consumers, g \in Groups : ArriveLate(c, g) \/ ArriveNew(c, g)
        \/ \E c \in Consumers : Consumer(c)
        \/ \E x \in Groups : FillBatch(x)
        \/ Ticker

Spec == Init /\ [][Next]_vars

\* Goroutines that can run do run; nobody has to send spans.
Fairness == /\ \A c \in Consumers : WF_vars(Consumer(c))
            /\ WF_vars(\E x \in Groups : FillBatch(x))
            /\ WF_vars(Ticker)

FairSpec == Spec /\ Fairness

-----------------------------------------------------------------------------
(* Properties. *)

Objects == Groups \cup {None}

MapTypeOK ==
  /\ idToTrace \in [TraceIDs -> Objects]
  /\ deleteChan \in Seq(TraceIDs) /\ Len(deleteChan) <= NumTraces
  /\ numTracesOnMap \in 0..(CounterSize - 1)
  /\ decisionHistory \in [TraceIDs -> Decisions \cup {None}]

ObjectTypeOK ==
  /\ spanCount \in [Groups -> Nat]
  /\ finalDecision \in [Groups -> Decisions]
  /\ received \in [Groups -> SUBSET Groups]

BatcherTypeOK ==
  /\ adding \in SUBSET Groups /\ current \in SUBSET Groups
  /\ pipe \in Seq(SUBSET Groups) /\ Len(pipe) = NumBatches
  /\ taken \in SUBSET Groups /\ open \in BOOLEAN

ConsumerTypeOK ==
  /\ pc \in [Consumers -> {"idle", "store", "batch", "enqueue", "evict",
                           "dropLoad", "dropDelete", "append"}]
  /\ grp \in [Consumers -> Objects] /\ obj \in [Consumers -> Objects]
  /\ key \in [Consumers -> TraceIDs \cup {None}]
  /\ \A c \in Consumers :
       /\ grp[c] = None <=> pc[c] = "idle"
       /\ obj[c] = None <=> pc[c] \in {"idle", "store"}
       /\ key[c] = None <=> pc[c] \notin {"dropLoad", "dropDelete"}

TickerTypeOK ==
  /\ tpc \in {"idle", "pass1", "decide", "pass2", "history", "cleanup",
              "dropLoad", "dropDelete"}
  /\ batch \in SUBSET Groups /\ todo \in SUBSET batch
  /\ tpc \notin {"pass1", "decide"} => todo = batch
  /\ tpc = "idle" => batch = {}
  /\ token \in Objects /\ tobj \in Objects
  /\ token = None <=> tpc \in {"idle", "pass1", "pass2"}
  /\ token # None => token \in todo
  /\ tobj = None <=> tpc \notin {"decide", "history", "cleanup"}
  /\ verdict \in Decisions /\ second \in 0..MaxSecond

FateTypeOK ==
  /\ forwarded \in SUBSET Groups /\ late \in SUBSET Groups
  /\ refused \in SUBSET Groups /\ missed \in SUBSET Groups
  /\ home \in [Groups -> Objects] /\ emitted \in SUBSET forwarded

\* The shape of the state.  A consumer names its group while it works on one,
\* its object between LoadOrStore and the append, and a key while it drops
\* one; the queue never holds more ids than the channel has room for.
TypeOK == /\ MapTypeOK /\ ObjectTypeOK /\ BatcherTypeOK
          /\ ConsumerTypeOK /\ TickerTypeOK /\ FateTypeOK

\* The map never holds more than num_traces traces and, for each consumer, the
\* trace it is adding and the one it is evicting, less one because a consumer
\* that evicts has made room in the queue: the limit that bufferTraces keeps
\* with deleteChan, however the consumers and the ticker interleave.
MemoryBound == Cardinality(OnMap) <= NumTraces + 2 * Cardinality(Consumers) - 1

\* The id of every trace on the map is in deleteChan, or with a consumer that
\* is still to queue it or is about to delete it: a trace that is out of the
\* queue's reach would never be evicted.
KeyTracked ==
  \A t \in OnMap :
    \/ \E k \in DOMAIN deleteChan : deleteChan[k] = t
    \/ \E c \in Consumers :
         \/ key[c] = t
         \/ /\ pc[c] \in {"batch", "enqueue", "evict", "dropLoad", "dropDelete"}
            /\ TraceOf[grp[c]] = t

\* A consumer that waits for an id to evict is never left waiting: while the
\* queue is empty, another consumer is past its own receive and will queue an
\* id (the select and the receive of bufferTraces on one full channel).
EvictNeverStuck ==
  (deleteChan = <<>> /\ \E c \in Consumers : pc[c] = "evict")
    => \E d \in Consumers : pc[d] \in {"dropLoad", "dropDelete", "enqueue"}

\* Every trace on the map has its own entry in the batcher, in the batch being
\* decided, or in the hands of the consumer that created it, whatever evictions
\* and stale entries of earlier traces with the same id did: no trace is
\* buffered that no tick will decide.
EveryTraceScheduled ==
  \A t \in OnMap :
    \/ idToTrace[t] \in InBatcher \cup todo \cup batch
    \/ \E c \in Consumers : pc[c] = "batch" /\ obj[c] = idToTrace[t]

\* Nothing is left behind, however consumers and ticker interleave: a trace on
\* the map is within reach of the eviction and of a decision, and a consumer that
\* evicts gets an id.
NothingStranded == KeyTracked /\ EveryTraceScheduled /\ EvictNeverStuck

\* No spans are duplicated: a group is buffered by one trace object at most, and
\* is not buffered any more, nor counted as late, refused or missed, once it
\* has been passed on (bufferTraces "only once", cleanup).
NoDuplicates ==
  \A g \in Groups :
    /\ \A o, p \in Groups : g \in received[o] /\ g \in received[p] => o = p
    /\ Cardinality({f \in {"forwarded", "late", "refused", "missed", "buffered"} :
          \/ f = "forwarded" /\ g \in forwarded
          \/ f = "late" /\ g \in late
          \/ f = "refused" /\ g \in refused
          \/ f = "missed" /\ g \in missed
          \/ f = "buffered" /\ \E o \in Groups : g \in received[o]}) <= 1

\* What cleanup passed on belongs to a trace object that is sampled now and
\* for good, although the decision is written without the lock under which the
\* spans are added and a stale batch entry can decide an object again.
OnlySampledForwarded == \A g \in forwarded : finalDecision[home[g]] = "Sampled"

\* What is passed on is passed on once and because its trace is sampled.
ForwardedOnceIfSampled == NoDuplicates /\ OnlySampledForwarded

\* Late spans are passed on only for a trace of which some object was sampled:
\* the history never says otherwise, even with entries of several objects of
\* one trace and evictions in between.
LateFollowsDecision ==
  \A g \in late : \E o \in Groups : TraceOf[o] = TraceOf[g] /\ finalDecision[o] = "Sampled"

\* With a limit set, the traces passed on in a second are at most as many as
\* the limit has spans: each was charged at least one span in that second,
\* in whichever pass it was sampled.
SampledTracesWithinLimit ==
  SpansPerSecond > 0 => Cardinality({home[g] : g \in emitted}) <= SpansPerSecond

\* Every buffered trace leaves the map: it is decided or evicted, and when no more
\* spans arrive the map is empty.
TraceLeavesMap == <>[](OnMap = {})

-----------------------------------------------------------------------------
(* What the documentation or a comment says and the code does not do. *)

\* "only full traces are accepted": a group that joined the object of a
\* sampled trace is passed on with it, or waits to be.
OnlyFullTraces == \A g \in missed : finalDecision[home[g]] # "Sampled"
==============================================================================
