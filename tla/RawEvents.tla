------------------------------ MODULE RawEvents ------------------------------
(***************************************************************************)
(* receiver/rawk8seventsreceiver: informers hand the Kubernetes events of  *)
(* their namespaces over an unbuffered channel to one loop.  The loop      *)
(* stores the resource version of an event, decides whether it is new and  *)
(* passes it on.  After a restart the stored version separates the events  *)
(* that were reported from those that were not.                            *)
(*                                                                         *)
(* The resource version of an event is its position in the log of the      *)
(* cluster (external), which is also its time.  Versions are numbers.  The *)
(* contents of the log record that is passed on are left out.              *)
(***************************************************************************)
EXTENDS Naturals, Sequences

CONSTANTS Names,        \* event objects
          Timed,        \* those of the events API that sets EventTime
          HasStorage,   \* a storage extension is configured
          MaxEventAge, ConsumeMaxRetries,
          MaxVersion, MaxFaults   \* bounds

ASSUME EventsAssumption ==
  /\ HasStorage \in BOOLEAN
  /\ {MaxEventAge, ConsumeMaxRetries, MaxVersion, MaxFaults} \subseteq Nat

VARIABLES
  log,       \* the versions of the events: their name and time stamps
  stored,    \* the latest resource version in the storage; 0 for none
  life,      \* "down", "up", "cancelled" (r.ctx is) or "closed" (r.storage is)
  known,     \* name -> the version its informer has seen; 0 for none
  at,        \* of the loop: "idle", "record", "accept" or "consume"
  change,    \* the version in its hands; 0 for none
  retries,   \* of ConsumeLogs
  latestResourceVersion, startTime,
  faults,
  passed,     \* history: versions that were passed on,
  before,     \*   by earlier runs of the receiver,
  again,      \*   and by another run after that
  unrecorded, \* history: versions that could not be stored
  overtaken   \* history: versions that were passed on before an older one was stored

loop == <<at, change, retries>>
history == <<passed, before, again, unrecorded, overtaken>>
eventsVars == <<log, stored, life, known, at, change, retries, latestResourceVersion,
          startTime, faults, history>>

Versions == 1..MaxVersion
NoStamp == 0
Now == MaxEventAge + 1 + Len(log)

EventsInit ==
  /\ log = <<>> /\ stored = 0 /\ life = "down"
  /\ known = [n \in Names |-> 0] /\ at = "idle" /\ change = 0 /\ retries = 0
  /\ latestResourceVersion = 0 /\ startTime = 0 /\ faults = 0
  /\ passed = {} /\ before = {} /\ again = {} /\ unrecorded = {} /\ overtaken = {}

Fault == faults < MaxFaults /\ faults' = faults + 1
Fine == UNCHANGED faults

\* The loop waits for the next event.
Idle == at' = "idle" /\ change' = 0 /\ retries' = 0

-----------------------------------------------------------------------------
(* The cluster                                                             *)

\* Events of the newer API have an event time, the others a first and a last one.
Stamps(n) ==
  IF n \in Timed THEN [event |-> Now, last |-> NoStamp, first |-> NoStamp]
  ELSE [event |-> NoStamp, last |-> Now, first |-> 1]

\* An event is created or updated.
Emit(n) ==
  /\ Len(log) < MaxVersion
  /\ log' = Append(log, [name |-> n, stamps |-> Stamps(n)])
  /\ Fine /\ UNCHANGED <<stored, life, known, loop, latestResourceVersion, startTime, history>>

VersionsOf(n) == {v \in DOMAIN log : log[v].name = n}

-----------------------------------------------------------------------------
(* Start and Shutdown                                                      *)

\* A new receiver: getStorage, getLatestResourceVersion, then the goroutines.
Start ==
  /\ life = "down"
  /\ life' = "up"
  /\ latestResourceVersion' = stored
  /\ startTime' = Now
  /\ before' = passed
  /\ Fine /\ UNCHANGED <<log, stored, known, loop, passed, again, unrecorded, overtaken>>

\* Shutdown cancels the context and then closes the storage; the loop goes on.
Shutdown ==
  /\ \/ life = "up" /\ life' = "cancelled"
     \/ life = "cancelled" /\ life' = "closed"
  /\ Fine
  /\ UNCHANGED <<log, stored, known, loop, latestResourceVersion, startTime, history>>

\* The process ends, after a Shutdown or by a crash.
Exit ==
  /\ life # "down" /\ life' = "down"
  /\ known' = [n \in Names |-> 0] /\ Idle
  /\ latestResourceVersion' = 0 /\ startTime' = 0
  /\ Fault
  /\ UNCHANGED <<log, stored, history>>

-----------------------------------------------------------------------------
(* Informers and loop                                                      *)

\* getEventTimestamp
EventTimestamp(v) ==
  LET s == log[v].stamps
  IN IF s.event # NoStamp THEN s.event ELSE IF s.last # NoStamp THEN s.last ELSE s.first

Recent(v) == EventTimestamp(v) >= startTime - MaxEventAge

\* Mutant: the version that was stored last is accepted again.
AcceptedAgain(v) ==
  IF latestResourceVersion > 0 THEN v >= latestResourceVersion ELSE Recent(v)

\* isEventAccepted
IsEventAccepted(v) ==
  IF latestResourceVersion > 0 THEN v > latestResourceVersion ELSE Recent(v)

\* AddFunc and UpdateFunc: the informer of n hands version v to the loop.
HandOver(n, v) ==
  /\ life # "down" /\ at = "idle"
  /\ change' = v /\ known' = [known EXCEPT ![n] = v]
  /\ at' = "record"
  /\ UNCHANGED <<log, stored, life, retries, latestResourceVersion, startTime, history>>

\* The first list has the last version of each object, the watch all that follow; a
\* list after a lost watch skips some.  Objects and namespaces are in no order.
AddOrUpdate(n) ==
  LET newer == {v \in VersionsOf(n) : v > known[n]}
  IN \E v \in newer :
       /\ \/ \A w \in newer : w <= v
          \/ known[n] # 0 /\ \A w \in newer : v <= w
       /\ HandOver(n, v) /\ Fine

\* A list after a lost watch also has the objects that have not changed, and the
\* informer calls UpdateFunc for them too.
Relist(n) ==
  /\ known[n] # 0 /\ \A w \in VersionsOf(n) : w <= known[n]
  /\ HandOver(n, known[n]) /\ Fault

Writable == HasStorage /\ life # "closed"

\* The version of the event at hand is stored.  A failure is only logged.
RecordEventReceived ==
  /\ at = "record" /\ life # "down"
  /\ \/ /\ Writable /\ stored' = change
        /\ overtaken' = overtaken \cup {v \in passed : v > change}
        /\ Fine /\ UNCHANGED unrecorded
     \/ /\ unrecorded' = unrecorded \cup {change}
        /\ IF Writable THEN Fault ELSE Fine
        /\ UNCHANGED <<stored, overtaken>>
  /\ at' = "accept"
  /\ UNCHANGED <<log, life, known, change, retries, latestResourceVersion, startTime,
                 passed, before, again>>

\* The event is skipped, or converted to a log record to be consumed, which may fail.
Accept ==
  /\ at = "accept" /\ life # "down"
  /\ \/ IsEventAccepted(change) /\ at' = "consume" /\ Fine /\ UNCHANGED <<change, retries>>
     \/ IsEventAccepted(change) /\ Idle /\ Fault
     \/ ~IsEventAccepted(change) /\ Idle /\ Fine
  /\ UNCHANGED <<log, stored, life, known, latestResourceVersion, startTime, history>>

Consumed ==
  /\ life = "up"
  /\ passed' = passed \cup {change} /\ again' = again \cup ({change} \cap before)
  /\ Idle

\* Mutant: recoverable errors are retried for ever.
RetryForever ==
  /\ life = "up"
  /\ retries' = (retries + 1) % (ConsumeMaxRetries + 1) /\ UNCHANGED <<at, change, passed, again>>

Retry ==
  /\ life = "up" /\ retries < ConsumeMaxRetries
  /\ retries' = retries + 1 /\ UNCHANGED <<at, change, passed, again>>

\* A permanent error, the last retry failed, or the receiver is closing.
GiveUp == Idle /\ UNCHANGED <<passed, again>>

\* consumeWithRetry: one call of ConsumeLogs.
Consume ==
  /\ at = "consume" /\ life # "down"
  /\ Consumed \/ Retry \/ GiveUp
  /\ Fine
  /\ UNCHANGED <<log, stored, life, known, latestResourceVersion, startTime,
                 before, unrecorded, overtaken>>

Loop == RecordEventReceived \/ Accept \/ Consume

EventsNext ==
  \/ \E n \in Names : Emit(n) \/ AddOrUpdate(n) \/ Relist(n)
  \/ Start \/ Shutdown \/ Exit \/ Loop

EventsSpec == EventsInit /\ [][EventsNext]_eventsVars

\* The goroutines go on, and a receiver that is down is started again.
EventsFairness ==
  /\ \A n \in Names : WF_eventsVars(AddOrUpdate(n))
  /\ WF_eventsVars(Loop) /\ WF_eventsVars(Start)

-----------------------------------------------------------------------------

\* What one run of the receiver passed on, a later run passes on again only if the
\* storage did not take its version or was set back to an older one after it.  In
\* particular a crash at any point of the loop doubles nothing.
ReportedOnce == again \subseteq unrecorded \cup overtaken

\* README.md, Persistent Storage: a restarted receiver reports no duplicates, where
\* the storage took every version that was reported.
NoDuplicates == again \subseteq unrecorded

\* As long as the receiver is up, every event reaches the loop: neither a failing
\* storage nor a failing consumer holds up the informers for good.
EventsFlow ==
  \A n \in Names :
    life = "up" ~> life # "up" \/ \A v \in VersionsOf(n) : v <= known[n]
=============================================================================
