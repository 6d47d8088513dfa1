----------------------------- MODULE MetricSieve -----------------------------
(***************************************************************************)
(* processor/metricfrequencyprocessor: which data points of a gauge are    *)
(* passed on.  The points of a metric, all its series together, are cached *)
(* by their time stamp until they expire.  A goroutine removes the caches  *)
(* that are empty, without a lock, also between two steps of a sift.       *)
(*                                                                         *)
(* Metrics do not affect one another, so there is one.  Metrics of other   *)
(* types are passed on.  Values are integers, NaN apart; what expired is   *)
(* not listed, whenever the janitor of the cache (external) removes it.    *)
(***************************************************************************)
EXTENDS Integers, Sequences, FiniteSets, Folds

CONSTANTS Values,
          MinPointAccumulationTime, ConstantMetricsReportFrequency,
          LowInfoMetricsReportFrequency, MaxReportFrequency,
          DataPointExpirationTime, SafetyInterval,
          IqrAnomalyCoef2, VariationIqrThresholdCoef,   \* the first one doubled
          MaxDelay, MaxTime   \* bounds

\* The configuration: some time is needed to accumulate points, and a point is
\* cached until the next report of a constant metric.
ASSUME SieveAssumption ==
  /\ MinPointAccumulationTime \in Nat \ {0} /\ SafetyInterval \in Nat \ {0}
  /\ ConstantMetricsReportFrequency \in Nat /\ DataPointExpirationTime \in Nat
  /\ MaxDelay \in Nat /\ MaxTime \in Nat
  /\ ConstantMetricsReportFrequency + MaxDelay < DataPointExpirationTime + SafetyInterval

VARIABLES
  now,
  cache,        \* the points in internalCaches[name]: [ts, value, at]
  lastReported, \* NoTime or a time stamp
  sift,         \* "idle", "set" or the last verdict
  point,        \* the point that is sifted
  listed,       \* what List returned: time stamp -> value
  orphan,       \* the cache in the hands of Register is not in the map any more
  sent,         \* history: the point that set lastReported
  doubled       \* history: two points had the same time stamp

sieveVars == <<now, cache, lastReported, sift, point, listed, orphan, sent, doubled>>

NoTime == -1
Dropped == {"constant", "low", "early"}

SieveInit ==
  /\ now = 0 /\ cache = {} /\ lastReported = NoTime
  /\ sift = "idle" /\ point = [ts |-> NoTime, value |-> 0] /\ listed = <<>>
  /\ orphan = FALSE /\ sent = point /\ doubled = FALSE

WithPoint(points, p) ==
  [t \in DOMAIN points \cup {p.ts} |-> IF t = p.ts THEN p.value ELSE points[t]]

-----------------------------------------------------------------------------
(* Categories                                                              *)

\* earliestTimestamp
Earliest(points) == CHOOSE t \in DOMAIN points \cup {now} : \A u \in DOMAIN points \cup {now} : t <= u

MetricRequiresSamples(p, earliest) == p.ts < earliest + MinPointAccumulationTime

PastCategoryFrequency(p, frequency) == p.ts + SafetyInterval > lastReported + frequency

\* Mutant: only compared with the oldest point.
LikeTheOldest(p, points) == points[Earliest(points)] = p.value

IsConstant(p, points) == \A t \in DOMAIN points : points[t] = p.value

\* calculateQ1Q3: values in order, by the index of the quartile.
Quartile(points, q) ==
  LET Before(t) == {u \in DOMAIN points : points[u] < points[t] \/ (points[u] = points[t] /\ u < t)}
  IN points[CHOOSE t \in DOMAIN points :
              Cardinality(Before(t)) = (q * Cardinality(DOMAIN points)) \div 4]

Distance(a, b) == IF a < b THEN b - a ELSE a - b

\* calculateVariation: the sum of the changes from point to point.
Variation(points) ==
  LET After(t) == {u \in DOMAIN points : u > t}
      First(T) == CHOOSE t \in T : \A u \in T : t <= u
  IN MapThenFoldSet(+, 0, LAMBDA t : Distance(points[t], points[First(After(t))]), First,
                    {t \in DOMAIN points : After(t) # {}})

\* isLowInformation: no anomaly and low variation.
IsLowInformation(points) ==
  LET q1  == Quartile(points, 1)
      q3  == Quartile(points, 3)
      iqr == q3 - q1
  IN /\ \A t \in DOMAIN points : /\ 2 * points[t] >= 2 * q1 - IqrAnomalyCoef2 * iqr
                                 /\ 2 * points[t] <= 2 * q3 + IqrAnomalyCoef2 * iqr
     /\ Variation(points) < VariationIqrThresholdCoef * iqr

\* siftDataPoint: reported, or dropped for a reason.
Verdict(p, cached) ==
  LET points == WithPoint(cached, p)
  IN CASE \/ lastReported = NoTime
          \/ MetricRequiresSamples(p, Earliest(cached))
          \/ PastCategoryFrequency(p, ConstantMetricsReportFrequency)      -> "report"
       [] OTHER -> CASE IsConstant(p, points)                              -> "constant"
       [] OTHER -> CASE PastCategoryFrequency(p, LowInfoMetricsReportFrequency) -> "report"
       [] OTHER -> CASE IsLowInformation(points)                           -> "low"
       [] OTHER -> CASE PastCategoryFrequency(p, MaxReportFrequency)       -> "report"
       [] OTHER -> "early"

-----------------------------------------------------------------------------
(* The processor                                                           *)

Live == {c \in cache : now < c.at + DataPointExpirationTime}

\* Sift lists what is cached and looks up, or creates, the cache of the metric.
\* Points arrive with some delay, one a tick.
List(p) ==
  /\ sift # "set" /\ sift' = "set"
  /\ \A c \in cache : c.at < now
  /\ point' = p
  /\ listed' = [t \in {c.ts : c \in Live} |-> (CHOOSE c \in Live : c.ts = t).value]
  /\ UNCHANGED <<now, cache, lastReported, orphan, sent, doubled>>

\* A value that is no number is passed on and not remembered.
PassNaN ==
  /\ sift # "set" /\ sift' = "nan"
  /\ UNCHANGED <<now, cache, lastReported, point, listed, orphan, sent, doubled>>

\* Register puts the point into that cache; then the verdict.
RegisterAndJudge ==
  /\ sift = "set"
  /\ cache' = IF orphan THEN cache
              ELSE {c \in cache : c.ts # point.ts} \cup {[ts |-> point.ts, value |-> point.value, at |-> now]}
  /\ doubled' = (doubled \/ \E c \in cache : c.ts = point.ts)
  /\ sift' = Verdict(point, listed)
  /\ IF sift' = "report" THEN lastReported' = point.ts /\ sent' = point
                         ELSE UNCHANGED <<lastReported, sent>>
  /\ listed' = <<>> /\ orphan' = FALSE
  /\ UNCHANGED <<now, point>>

\* Cleanup removes the cache if nothing is in it.
Cleanup ==
  /\ Live = {}
  /\ cache' = {} /\ orphan' = (sift = "set")
  /\ UNCHANGED <<now, lastReported, sift, point, listed, sent, doubled>>

Tick ==
  /\ now < MaxTime /\ sift # "set"
  /\ now' = now + 1
  /\ UNCHANGED <<cache, lastReported, sift, point, listed, orphan, sent, doubled>>

SieveNext ==
  \/ \E d \in 0..MaxDelay, v \in Values : now >= d /\ List([ts |-> now - d, value |-> v])
  \/ PassNaN \/ RegisterAndJudge \/ Cleanup \/ Tick

SieveSpec == SieveInit /\ [][SieveNext]_sieveVars

-----------------------------------------------------------------------------

\* A dropped data point is represented by one that was passed on: that one is
\* less than constant_metrics_report_frequency older, and it has the same value
\* if the point was dropped as constant.  Neither points that expire or arrive
\* late nor a Cleanup in the middle change this, as long as no two points of the
\* metric have the same time stamp.
DroppedPointsRepresented ==
  sift \in Dropped =>
    /\ point.ts < lastReported + ConstantMetricsReportFrequency
    /\ sift = "constant" /\ ~doubled => point.value = sent.value
=============================================================================
