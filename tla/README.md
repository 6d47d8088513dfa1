# A TLA+ model of the Sumo Logic distribution of the OpenTelemetry Collector

These modules model the concurrent and stateful parts of the components in
`src/pkg/`, check them with TLC on small instances, and prove the most
important properties for all instances with TLAPS. `PROJECT.json` lists the
runs, the lines of code behind each definition, the mutants that show that
each property can fail, the findings and the hazards.

Run a model with `tlc -config <X>.cfg <Module>` and a proof with
`tlapm <Module>.tla` (section 4 names the modules with proofs).

## 1. The system

The collector is a process into which components are plugged: receivers make
data, processors change or drop it, exporters send it on, extensions serve the
others. Each component is a set of goroutines around shared state. The
collector calls `Start`, `Shutdown` and `Consume...`; several `Consume...` calls
may be under way at once.

| Part | State | Operations | What is hard |
|---|---|---|---|
| **cascadingfilterprocessor** (tail sampling of traces) | map of buffered traces, queue of ids for eviction, batcher, decision history, two rate limiters, rules with budgets | `ConsumeTraces` → `processTraces` → `bufferTraces`/`dropTrace`; the ticker: two passes over a batch, `cleanup`; `idbatcher` with a goroutine of its own | any number of consumers race the ticker; eviction under pressure; decisions without the lock of the trace |
| **k8sprocessor/kube** (metadata of pods) | table from address, uid and name to pod; queue of deletions; services of a pod; owners of an object | informer handlers, `deleteLoop`, lookups | addresses and names are used again; deletion after a grace period; missed events; walks while the maps change |
| **sumologicextension** | registration, credentials (memory and file), HTTP client, heartbeat loop | `Start`, register with backoff, validate, heartbeat, re-register, `Shutdown` | failure between two steps; crash and restart; readers of the credentials |
| **opampextension** | client, auth header, effective configuration (memory and file) | `Start`, `Reload`, `watchCredentials`, `onMessage` | reload races shutdown and rotation of credentials; a save that fails half way |
| **sumologicexporter** | URLs, client, request under construction | push of logs, metrics and traces; the sender's packing; reconfiguration after a 401 | partial failure; lost answers; concurrent reconfiguration |
| **rawk8seventsreceiver** | stored resource version, channel of events | informer handlers, record, accept, consume with retry, `Start`, `Shutdown` | crash between storing and consuming; order of events |
| **metricfrequencyprocessor** | cache of points, last report by metric | sift a point, clean up | points that expire or come late; a map without a lock |
| **syslogexporter** | connection | connect, write, close, retry of a batch | partial failure, reconnect |
| **sourceprocessor**, **sumologicschemaprocessor** | none between calls, but loops that carry state over | rewriting of records and attributes | state of one record leaks into the next; order of the attributes |
| **telegrafreceiver**, **udpdemux**, **globprovider** | see section 6 | | |

The parts meet here: the batcher is called by the consumers and by the ticker
of the cascading filter; the pod cache asks the owner cache; the exporter and
the OpAMP agent take their credentials from the extension, which keeps them in
the credentials store.

## 2. The modules and the code

### The batcher: `BatchPipeline`, `IdBatcher`

`BatchPipeline` is the contract of `idbatcher.Batcher`: a delay line of batches
into which ids are put, which moves on by one batch at a time and is drained
after `Stop`. `IdBatcher` is `id_batcher.go`: the channel `pendingIds`, the
goroutine that receives an id (`FillerReceive`) and appends it under `cbMutex`
(`FillerAppend`), the two halves of `CloseCurrentAndTakeFirstBatch` (receive
outside the mutex, send inside it), `Stop` in two steps (close the channel,
wait for the goroutine), and the final drain. The reader and `Stop` are one
thread of control, as the ticker of the filter is.

### The filter: `RateLimiter`, `CascadingFilter`, `LateSpans`

`CascadingFilter` is `processor.go` and `cascade.go`. A consumer's program counter
follows `processTraces`: look at the decision history (`ArriveLate`,
`ArriveNew`), `LoadOrStore`, `AddToCurrentBatch`, the loop around the full queue
(`Enqueue`, `Evict`, `DropLoad`, `DropDelete`), `AppendSpans`. The ticker's follows
`decideOnBatch`: `Tick` takes a batch; the first pass looks an id up, evaluates
it and writes the decision in two steps (`Pass1Skip`, `Pass1Evaluate`,
`Pass1Decide`); the second pass (`Pass2Skip`, `SecondPass`) gives second chances,
then `Remember`, `Cleanup` under the lock of the trace, `TickDropLoad` and
`TickDropDelete`. An access to shared state that no lock joins to another one is a
step of its own, with two exceptions: `LoadOrStore` raises `SpanCount` with the
store or load, and `Pass1Evaluate` reads the map together with the charge of the
limiter. The steps between do not read what the other one writes. The batcher appears as `BatchPipeline` (its variables
`current`, `pipe`, `taken`, `open`), which is what the refinement in `DeliveryProofs` justifies.
A trace object is named by the group of spans that created it, so two objects
of one trace id can be told apart. What a rule says of a trace is an arbitrary
verdict here.

`RateLimiter` is `rate_limitter.go` as operators, used by the ticker, which is
alone with its limiter. `LateSpans` takes the same code apart into single reads
and writes, because the other limiter is shared by all consumers.

### The rules: `PolicyRules`

`policy_filter.go`, `policy_factory.go`, `drop_trace_factory.go` and the way
`cascade.go` combines verdicts. Criteria are operators over a trace (a sequence
of resources with spans); a regular expression is the set of strings it
matches. `Consider` and `Evaluate` are separate steps, between which the clock
and `SpanCount` move. `Begin` takes a trace that was not judged before. (A stale
batch entry can bring the ticker back to an object, which then still has the
verdicts and the filter name of the first time; the decision does not depend on
them.)

### Pods: `KubePods`

`kube/client.go`. The cluster is external: `Create`, `Run`, `Finish` and `Delete`
produce events in `watch`; the name of a deleted pod may be used again, and so
may the address of a finished one, whose object still exists and still
produces events. The informer's goroutine applies them: `HandleChange`,
`Resync`, `HandleDelete` followed by three `Forget` steps, each of which looks up
one identifier and asks for its deletion. `deleteLoop` is `DeleteTake` (under
`deleteMut`) and `DeleteApply` (under `m`). `GetPod` is what processors call. All pods
are in one namespace: the table has names with their namespace, but `forgetPod` and
`deleteLoop` compare bare names, so pods of one name in two namespaces that follow
each other on an address are not represented. Pods keep the address they got. A pod may carry the
annotation that makes the processor ignore it.

### Services and owners: `ServiceCache`, `OwnerCache`

`kube/owner.go`. `ServiceCache` applies the events of `Endpoints` objects pod by
pod; the loop of `deleteEndpointFromPod` over a shrinking slice is the recursive
operator `removed`, which gives `None` where the index is out of range. A panic
ends the process. Pods and services are known by their bare
names, as in the code; equal names in several namespaces, which share a list
there, are not represented. `OwnerCache` is the walk of `GetOwners`, one lock per owner,
against changes of the map.

### Identity: `SumoExtension`, `OpampAgent`

`SumoExtension` is `extension.go` with the file of
`credentialsstore_localfs.go`. Its thread (`pc`) goes through `Start` and then
the loop of heartbeats: `GetLocalCredentials`, `Validate`, `DeleteStored`,
`Registered` / `Redirected` / `RegistrationFails` with the backoff, `Store` (the
truncation) and `StoreWrite`, `Inject`, `Metadata`, `Heartbeat`, `Wait`. Around it
are `Revoke`, `Shutdown`, `Crash` and a new process. The server keeps which
credentials are valid; an answer may be lost after the server acted. A
credential is a number with the deployment that issued it.

`OpampAgent` extends it with the agent of `opamp_agent.go`: `CreateHeader` (or,
before there are credentials, `CreateHeaderLate` in a goroutine),
`StartClient`, `WatchCredentialKey`, `Reload`, `RestartFails` (a `Reload` whose `Start`
returns an error, which ends the watch), `AgentShutdown`. The header is read
without the lock while the registration may be replaced, so the model lets
its two halves come from either value. The history variable `due` is set by a
Shutdown that meets the goroutine of the agent outside its wait, and by a key
that changes afterwards.

### Remote configuration: `OpampConfig`

`onMessage`: `ApplyRemoteConfig` orders and merges the files, `CreateFile` and
`WriteFile` are `saveEffectiveConfig`, `RestoreEffective` is what a failed save
leaves, then the status and `ReloadCollectorConfig`. A reload ends the agent and
starts a new one that reads the file (`LoadEffectiveConfig`). What a crash leaves
of a file may parse or not; if not, `Start` fails in every later process.

### Exporter: `SumoExporter`

`exporter.go` and `sender.go` for pushes that run at the same time. A push reads
the URL and the client under two locks (`GetDataURLs`, `GetHTTPClient`), appends
units to a request (`AppendUnit`), sends when the next does not fit
(`SendAndAppend`) or a group ends (`CloseGroup`, `EndGroup`), collects what was not
accepted, merges its errors (`DeduplicateErrors`), reconfigures after a 401
(`GetBaseUrl`, `SetDataURLs`, `ToClient`, `SetHTTPClient`, each a step between those
of other pushes and of the extension) and hands the rest back. The queue that retries it
is external.

### Events: `RawEvents`

`receiver.go`: a handler hands an event over (`AddOrUpdate`, or `Relist` for one that
did not change), the loop records its version, decides and consumes with retries (`RecordEventReceived`, `Accept`,
`Consume`). `Shutdown` cancels the context and closes the storage in two steps. A
version is a position in the log of the cluster; lists may come in any order,
so a later event may carry an earlier version. History variables say what runs of
the receiver passed on, which versions the storage did not take (`unrecorded`), and
which were passed on before an older one was stored (`overtaken`).

### Syslog: `SyslogExporter`

One push with its connections: `Connect`, `Write`, `Reconnect` and `Rewrite` (the
second try inside `Write`), `CloseConn` (deferred), `PushAgain`. `FormatMsg` says for
each property of a line whether it is given, a default, `nil` or the additional
data.

### Sequential processors: `MetricSieve`, `SourceProcessor`, `SchemaProcessor`

`MetricSieve` is the verdict on a data point with the cached points, their
expiry and the cleanup goroutine, which may come between the steps of a sift.
One point is sifted at a time; `ProcessMetrics` takes no lock, and calls of it that
overlap are not represented.
`SourceProcessor` sets the attributes of a resource in the order of
`processResource` and unpacks records with the one `dockerLog` variable of
`ProcessLogs`. `SchemaProcessor` runs the six subprocessors one after another;
nesting, squashing and aggregation are operators on nested maps, over every
order in which a map may be visited.

### Modules for TLC

`MCCascadingFilter`, `MCKubePods`, `MCServiceCache`, `MCPolicyRules`, `MCSourceProcessor`
and `MCSumoExporter` give constants their values. `MCProgress` runs the parts with
the most to say about liveness (`IdBatcher`, `SumoExporter`, `OpampAgent` with
`SumoExtension`, `OpampConfig`), `MCComponents` the eight small parts. The parts of
either share no state: the variable `subject`, chosen in `Init`, says which part a
behaviour is about, and the others stay as they are.

## 3. What TLC checks

| Run | Instance | Shows |
|---|---|---|
| `cascade_races` | 2 consumers, 2 traces, 3 groups, queue of 1, limit of 1 span, 2 seconds | a trace on the map stays within reach of the queue and of the ticker, and the blocking receive is never a trap (`NothingStranded`); spans are passed on once and only if sampled (`ForwardedOnceIfSampled`), late ones as their trace was decided (`LateFollowsDecision`), and not more traces than the limit (`SampledTracesWithinLimit`) |
| `cascade_limits` | 1 consumer, 3 traces, queue of 1 | the map has its bound (`MemoryBound`); every trace leaves the map (`TraceLeavesMap`) |
| `kube_pods` | 3 pods (2 of one name, 1 perhaps ignored), 1 address, grace period 1, clock to 2, the informer up to 2 events behind | a running pod is found under its identifiers once its events are in (`RunningPodFound`); no deleted pod stays (`NothingLeaks`) or goes before its time (`GracePeriodKept`) |
| `progress` | see below | the batcher, the exporter, the identity with the OpAMP agent, and the remote configuration |
| `components` | see below | the eight parts that meet no other one |

The properties of `progress`, by part:

| Part | Instance | Shows |
|---|---|---|
| batcher | 3 ids, 2 batches, channel of 2 | each id is in one place (`ExactlyOnce`), is returned after exactly `NumBatches` switches (`DelayExact`), the drain returns everything (`StopDrains`), in the end every id is returned (`EventuallyReturned`), and the contract is implemented (`ImplementsPipeline`) |
| exporter | 5 pairs of batches, requests below 8 bytes, 2 faults | each record is acknowledged or handed back, not both (`AcknowledgedOrReturned`); only a lost answer doubles one (`OnlyLostAnswersDouble`); a request of several units keeps to its size and all its units to one group (`RequestsWellFormed`); a push ends although its credentials are replaced (`PushEnds`) |
| identity | 4 faults, 2 deployments | credentials go to the deployment that issued them (`CredentialsGoHome`), the heartbeat loop replaces only rejected ones (`OnlyRejectedReplaced`), heartbeats resume when the faults end (`IdentityResumes`); after `Shutdown` no OpAMP client runs unless the goroutine was about to start one or the key changed (`ShutdownHolds`), and the agent misses no change of the key (`NoMissedWakeup`) |
| config | 4 configurations, 3 mishaps | a configuration reported as applied is effective, saved and loaded, unless a crash or a failed write tore the file (`AppliedTakesHold`), and reloads come to an end (`ReloadsEnd`) |

The properties of `components`, by part:

| Part | Instance | Shows |
|---|---|---|
| rules | 4 accept rules, 1 reject rule, 7 traces | a rule keeps its budget (`RuleBudget`), the best verdict wins (`BestDecisionWins`), the duration is that of all spans (`DurationExact`) |
| services | 2 pods, 3 services, pods listed twice | no listed service is missing, and the process panics only for a pod listed twice or a missed deletion (`ListedServicesKept`) |
| owners | 3 owners, circles, 4 changes | the walk finds what did not change under it (`OwnersFound`) and has a measure that falls (`WalkEnds`) |
| events | 2 event objects, 3 versions, 2 faults, 1 retry | a later run passes a version on again only if its record failed or an older one was stored after it (`ReportedOnce`); failing storage and consumers do not hold up the informers (`EventsFlow`) |
| sieve | 2 values, clock to 6, points up to 1 late | a dropped point is represented by one that was passed on (`DroppedPointsRepresented`) |
| syslog | batches of 1 to 3 records, both formats, 4 failures | a push that succeeds has written each record once, whole and in order (`LinesDelivered`); no connection is left open (`ConnectionsClosed`) |
| source | 2 resources, 3 records of 4 kinds | a complete record is unpacked with its own values and one that is no JSON is left as it is, whatever came before them (`RecordsUnpacked`) |
| schema | 40 configurations; up to 3 attributes of 8 and of 6 keys | every nested attribute is found by its path (`NestedByPath`); no value is lost unless two attributes claim a key (`ValuesKept`) |

Runs that end in a counterexample, each a disagreement between the code and
what the repository says of it:

| Run | Property | The code |
|---|---|---|
| `cascade_full_traces` | `OnlyFullTraces` | the decision is written without the lock of the trace, so spans that were about to be added to a sampled trace are lost |
| `policy_rules_split` | `OneSpanMeetsAll` | the criteria of a rule may be met by different spans |
| `late_spans_race` | `PriorRateKept` | the limiter for late spans is not locked |
| `kube_same_name` | `SamePodDeleted` | a deletion takes out the successor of the pod that has its name |
| `services_deleted` | `DeletedServiceGone` | the last service in a list of two or more is never removed |
| `docker_incomplete` | `IncompleteLeftAlone` | a record that lacks a key is unpacked with the value of an earlier record |
| `events_again` | `NoDuplicates` | versions that come out of order set the storage back, and a restarted receiver reports an event again |

**Bounds.** Two consumers and a queue of one are the least that make two
evictions meet; three groups over two traces give a trace a second group and
one that comes back after its eviction. One consumer suffices for
`cascade_limits`, in which the ticker is the other actor: `MemoryBound` is proved for
any number, and that two consumers in the loop around the full queue never leave
one another waiting is `EvictNeverStuck`, a part of `NothingStranded`, which
`cascade_races` checks with two. The
clock has the seconds the limiter's reset needs. Three pods on one address are
a predecessor, its namesake and a stranger. Four faults are enough for a
revocation, a lost answer to the registration, a crash while the file is
written and one more; three mishaps for a failed save, a crash and a change of
mind. Two faults of the exporter let a lost answer meet replaced
credentials. The clock of the sieve goes past the point where a constant
metric is due again and the oldest points expire. Four failures let a syslog
push fail on its second try and the next push break as well. `SYMMETRY` is
used in `cascade_races` only (the two consumers), which checks no liveness.
`MaxTime`, `MaxEvents`, `MaxSecond`, `MaxSpanCount`, `MaxGroups`, `MaxChanges`,
`MaxFaults`, `MaxMishaps`, `MaxBreaks`, `MaxVersion` and `MaxDelay` stand in guards of
actions of the environment and of failures.

**Fairness.** Weak fairness of goroutines that nothing but the process can
stop: the one that fills batches and the reader (`BatcherFairness`), the ticker and a
consumer that has begun (`CascadingFilter`), the thread of the extension and the
agent (`AgentFairness`), the handler of messages (`OpampFairness`), a push
(`ExporterFairness`), informers and the loop (`EventsFairness`). A supervisor that starts
a dead process again is part of `AgentFairness`, `OpampFairness` and
`EventsFairness`, as a service manager or Kubernetes does. Strong fairness once:
a collector that was signalled reloads (`ReloadService`), although messages go on
to arrive, since it waits for the message at hand only. `Reregister` is fair since the extension registers
again after a rejected heartbeat (`IdentityResumes`). Nobody is assumed to send
anything, and failures are bounded, so that "in the end" means after the last
one. Deadlock checking is off where the environment may simply do nothing more.

## 4. What is proved

TLAPS checks the theorems below for every value of the constants that satisfies
the named assumptions. All but `BatcherLosesNothing` (no step of the batcher
forgets an id) state what a run of section 3 checks on its instance.

| Module | About | Theorems |
|---|---|---|
| `DeliveryProofs` | `IdBatcher`, `RawEvents` | `BatcherSafe`, `BatchDelayIsExact`, `StopLeavesNothing`, `BatcherLosesNothing`, `BatcherImplementsPipeline`; `EventsReportedOnce` |
| `CascadingInvariant` | `CascadingFilter`: reach | `CascadeSafe` |
| `CascadingFates` | `CascadingFilter`: decisions | `DecisionsAreFollowed` |
| `CascadingFilterProofs` | `CascadingFilter`: counting | `CascadeMemoryBounded`, `CascadeForwardsOnce`, `CascadeWithinLimit` |
| `SelectionProofs` | `SourceProcessor`, `PolicyRules`, `MetricSieve` | `UnpackedFromRecords`; `RulesKeepBudget`, `BestDecisionTaken`; `SieveRepresents` |
| `KubePodsProofs` | `KubePods` | `RunningPodsFound`, `TableDoesNotLeak`, `GracePeriodIsKept` |
| `ConnectionProofs` | `SumoExtension` with `OpampAgent`, `SyslogExporter` | `CredentialsStayHome`, `ReplacedWereRejected`, `NoClientAfterShutdown`, `KeyChangesNoticed`; `SyslogSafe` |
| `SumoExporterProofs` | `SumoExporter` | `NothingLostOrDoubled`, `OnlyLostAnswers`, `RequestsFit` |

**Batcher** (`IndInv`). `DelayExact` and `StopDrains` are not inductive. `IndInv`
adds `Ages` (the age of an id in the middle of a switch, and of ids that are not
in the pipe yet) and `Stopping` (what each step of `Stop` has closed and emptied:
when the filling goroutine is done, the channel and its hand are empty), and
`SwitchNeverBlocks` (the send under the mutex always has room). In the
refinement a step of the filling goroutine is a `Put`, the send under the mutex
a `Rotate`, the end of `Stop` a `Close`; all others are stutters. While the reader
is between receive and send, the batch it holds is mapped back to the head of
the pipe.

**Events** (`EventsInv`). It follows a version that was passed on: the storage has it
or a later one, unless its record failed or an older one was stored after it
(`Stored`); a living receiver knows what earlier runs passed on from the storage it
read at `Start` (`Known`); and the version in the hands of the loop is stored once
it is recorded, and newer than what was read at `Start` if it is to be consumed
(`AtHand`).

**Cascading filter.** Four invariants, each on top of the one before, with one
lemma per action.
- `Inv` (for `NothingStranded`, that is `KeyTracked`, `EvictNeverStuck` and
  `EveryTraceScheduled`) adds `Linked`: an object is on the map under its own
  trace id, and a consumer that is still to announce an object to the batcher
  created it. `EveryTraceScheduled` needs this when an entry of an earlier object
  is decided. `Room` says that while every consumer is dropping an id, the queue
  has a free place, which gives the "less one" of `MemoryBound`. `MemoryBound`
  itself is counting: by `KeyTracked` each trace on the map has a place in the
  queue or a consumer.
- `FateInv` (for `LateFollowsDecision` and `ForwardedOnceIfSampled`) adds `Homes` (a
  group of spans is with one consumer, or turned away, or in one object),
  `References` (nothing refers to an object that does not exist yet) and
  `Decided`. The difficulty is that a stale batch entry can lead the ticker to an
  object a second time and overwrite its decision. `Decided` therefore speaks of
  the objects that are sampled for good (`Settled`): they are off the map or about
  to leave it in `cleanup`, and the ticker is not about to write to them.
- `ChargeInv` (for `SampledTracesWithinLimit`) adds that an object without spans
  is not decided (`Fresh`), that one on the map has spans to charge (`Counted`),
  and that a decided one is on the map only while the batch at hand has an
  entry of its trace (`InBatch`). From it follows `Charging`, what any step may
  do: an object joins those being passed on in this second only when the limiter
  is charged for it, and a new second starts with none of them.
- `LimitInv` adds `Charged`: there are no more such objects than spans charged,
  and the charge is within the limit.

**Records** (`SourceInv`). What is ahead of the loops is as it was given, what is
behind is filtered out or has as many records as before (`Shaped`); the records so
far are unpacked or left (`Done`). What `dockerLog` holds need not be known: a
complete record overwrites all of it.

**Rules** (`BudgetInv`, `JudgedInv`). `Counted` ties the counter of a rule to what it
sampled in that second; seconds after it are untouched, so a clock that moves
between `Consider` and `Evaluate` cannot give a rule its budget twice. `Asked` says
what the loop has found when it is at rule `idx`.

**Sieve** (`SieveInv`). The point last passed on is cached unless the cache is
empty (`SentCached`); a time stamp is cached once (`OncePerStamp`); what was listed
at the start of a sift stays true until its end, although the cleanup goroutine
may come between (`StillListed`).

**Pods** (`KubeInv`). `RunningPodFound` and `NothingLeaks` speak of an informer that
has caught up; the invariant says what holds on the way there. What was said of
a pod is still true of it, as far as it goes (`AllTold`); its deletion is the last
event of a pod (`DeletionsLast`), and nothing is said of it afterwards
(`NothingStale`); requests are for identifiers of pods that are gone
(`RequestsTrue`); an entry of a pod that is gone is about to be deleted (`NoLeak`);
the table has what the informer knows (`Tabled`), and the informer knows the last
change of a pod or is about to be told (`LastKnown`).

**Identity and agent** (`IdInv`). The invariant adds that all credentials in memory
and in the file come from the home deployment (`ExtTypeOK`, with `Genuine`), what
the thread has at each point of its program (`Placed`), that a client made from
the credentials in hand is not ahead of the registration (`Linked`), where
the agent may wait (`AgentOK`), and that after a `Shutdown` that left nothing to do
its goroutine waits for another key than the present one or has ended (`AtRest`).

**Syslog** (`SyslogInv`). At most the connection in `s.conn` is open, a typed nil needs
two failures under TLS (`OneConnection`), and the connection at hand carried
whole lines only (`WholeSoFar`). `SyslogSafe` states `ConnectionsClosed` and
`CutLinesLast`, the part of `LinesDelivered` about lines that are cut short.

**Exporter** (`ExporterInv`). The units of a push are in one place each:
acknowledged, handed back, in the body or still to come (`InOnePlace`), and all
of them are somewhere (`Kept`); the body has the units and the size it claims
(`BodyOf`); what may be pushed again was not taken by the server, unless an
answer was lost (`NotTaken`).

**Assumptions.** All are evaluated by TLC on the instances.
- `SizesAssumption`, `CascadeAssumption`, `SizeAssumption`, `EventsAssumption`,
  `SettingsAssumption`: sizes that the code makes channels or caches of are
  positive, bounds are numbers, settings are Boolean, the set of consumers is
  finite; the span limit may be any integer. `DecisionsAssumption` and
  `NoneAssumption`: the markers for "none" are not values.
- `RulesAssumption`: a trace has a span, and only the first rule may be the
  probabilistic one, which the code puts there.
- `BatchesAssumption`: a batch is a sequence of resources with sequences of records.
- `LoadsAssumption`: units of a batch have ids of their own, which exist in the
  model only.
- `PodsAssumption`: a uid, a name and an address are never the same string, as
  they share one table; Kubernetes gives them different forms.
- `SieveAssumption`: a point stays cached until a constant metric is due again.
  The defaults (`metricfrequencyprocessor/factory.go:16`) have it so; the code does not
  test it, and with a shorter expiry the sieve forgets what it last reported.

**Only model-checked.**
- All liveness: `EventuallyReturned`, `TraceLeavesMap`,
  `IdentityResumes`, `ReloadsEnd`, `PushEnds`, `EventsFlow`. Fairness and `ENABLED` are
  outside the prover's reach.
- What needs induction over data, which the prover has no means for:
  `AppliedTakesHold` (the merge is a fold over the sorted names of the files),
  `DurationExact` (a fold over spans), and the rest of `LinesDelivered` (a
  selection from all lines written).
- `ListedServicesKept`, `OwnersFound`, `WalkEnds`, `NestedByPath` and `ValuesKept`, whose
  modules have recursive operators.

## 5. Observations

What the code does at these places, met while modelling. A property that is about
one of them is named; most have none. Where a document of the repository says
otherwise, it is quoted.

In `processor/cascadingfilterprocessor/` with its `sampling/`, and
`processor/k8sprocessor/`:

- `processor.go:463`: two goroutines that drop the same trace both decrement
  `numTracesOnMap`, which is unsigned (`metrics.go:54` calls it the number of
  traces in memory). It only feeds a gauge.
- `cascade.go:63`: the batch entry of an evicted trace finds a newer trace of the
  same id, which is then decided before its `decision_wait` (`README.md:23`).
- `cascade.go:128`: the limiter is charged with the `SpanCount` of that moment;
  spans added until `cleanup` are passed on too, although `README.md:17` says
  that "the total number of spans each second is never exceeded".
- `policy_filter.go:185`: a start of 0 means "none yet", so a trace with such a
  span is measured from another one.
- `policy_factory.go:111`: an empty value in a list of values matches nothing.
- `processor.go:255`: `prior_spans_rate` defaults to half of a total that may be
  0, and then late spans are not limited.
- `kube/client.go:416`: the transform of the informer drops `HostNetwork`, so the
  test for it in `shouldIgnorePod` (line 594) never succeeds; annotations are
  kept only if a rule reads them.
- `kube/owner.go:409`: an update of `Endpoints` adds services to pods and removes
  none, so a pod that left keeps the service.
- `kube/owner.go:433`: `GetServices` returns the slice that later events sort in
  place.

In `extension/sumologicextension/`:

- `extension.go:306`: stored credentials are deleted also if the validation
  failed for a reason that passes (no network at the start, a 5xx), and the
  collector registers under a new identity.
- `extension.go:551`: a registration that fails in the loop of heartbeats is
  followed by the next heartbeat at once, without the wait of the loop.
- `extension.go:424`: redirects are followed without a bound.
- `extension.go:875`: `CreateCredentialsHeader` reads the registration without
  the lock, so id and key may belong to different ones.
- `extension.go:243`: if the client cannot be made, the registration is new, the
  client old, and the watchers are not told.

In `extension/opampextension/opamp_agent.go`:

- line 122: a watch that fires after `Shutdown` starts a client again, until the
  process ends. `ShutdownHolds` says when that can be.
- line 218: credentials that change after the header was made and before the
  watch reads the key are noticed only at the next change.
- line 310: a save that fails restores the configuration in memory and leaves
  the file truncated; `Start` fails on a file it cannot parse.
- line 335: an instance id that cannot be parsed becomes the zero id.

In `exporter/sumologicexporter/`:

- `exporter.go:249`: several errors are merged before they are tested, and a
  merged one is no longer recognised as unauthorized, so that push is retried
  with the old client. `PushEnds` leaves such pushes out.
- A 400 in one request makes the whole error permanent, and the queue drops the
  records of the other requests too.

In `exporter/syslogexporter/`:

- `syslog.go:176`: `populateDefaults` returns after the first missing property;
  further ones are printed as nil.
- `syslog.go:148`: the structured data of a record is always replaced.
- `syslog.go:103`: a TLS connection that cannot be opened again leaves a typed
  nil, and the deferred `Close` panics (`ConnectionsClosed` says when).
- `exporter.go:132`: a failed push writes the whole batch again.

In `receiver/rawk8seventsreceiver/receiver.go`:

- line 273: a version is stored before its event is consumed: a crash in between
  loses the event.
- line 298: versions that come out of order move the stored one back (`events_again`).
  An event whose record failed, too, is reported again after a restart.

In the processors:

- `sourceprocessor/source_processor.go:208`: what a Docker record lacks is taken
  from an earlier record of the batch, also of another resource (`docker_incomplete`).
- `sumologicschemaprocessor/nesting_processor.go:235`: squashing a map with a
  single scalar panics; `cloud_namespace_processor.go:43` adds the namespace
  whether `add_cloud_namespace` is set or not, although `README.md:98` says "When this
  processor's `add_cloud_namespace` setting is set to `true`, the processor looks for"
  the attribute (`processor.go` runs every subprocessor and asks none whether it is
  enabled);
  `log_fields_conversion_processor.go:103` looks for the default name of a field
  and writes the configured one.
- `metricfrequencyprocessor/metriccache.go:73`: `Cleanup` ranges over a map that
  others write, without a lock; `sieve.go` counts the series of a metric
  together, so two points of one time stamp replace one another.

## 6. What is not modelled

Formatting and wording (Prometheus text, the text of syslog lines, JSON),
compression, encryption of the stored credentials (an opaque function), metrics
about the collector itself, options and factories, the generated main program,
installation scripts and their tests. In the filter: the tags it writes on
spans. In the pod cache: `Stop`, pods that change address, and the extraction of
attributes, which only reads. In the owner cache: the start of its informers.
In the exporter: start-up and the routing attributes.

The syslog processor is one regular expression. The Telegraf receiver is a loop
over a channel that the Telegraf library fills and closes. `udpdemux` is a tool
beside the collector. The glob provider reads files in the order of their names
and leaves the merge to the configuration library.
