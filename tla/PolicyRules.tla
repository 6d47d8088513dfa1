----------------------------- MODULE PolicyRules -----------------------------
(***************************************************************************)
(* cascadingfilterprocessor/sampling and makeProvisionalDecision: how the  *)
(* reject and accept rules judge the spans a trace holds, and how each     *)
(* accept rule keeps to its own spans_per_second.                          *)
(*                                                                         *)
(* A trace is a sequence of batches, each the attributes of one resource   *)
(* and a sequence of spans.  A string pattern is the set of the strings it *)
(* matches.  The spans do not change while a trace is judged, but          *)
(* SpanCount does: bufferTraces counts spans in before it appends them.    *)
(***************************************************************************)
EXTENDS Integers, Sequences, FiniteSets, Folds

CONSTANTS AcceptRules,   \* sequence of policyEvaluators
          RejectRules,   \* sequence of dropTraceEvaluators
          Traces,        \* the traces to judge
          MaxSecond,     \* bound on the clock
          MaxSpanCount,  \* bound on SpanCount
          Absent,        \* an attribute that is not there
          None           \* a criterion that is not configured

LastOf(S) == CHOOSE n \in S : \A m \in S : m <= n

\* The spans of a trace, batch by batch.
Spans(trace) ==
  MapThenFoldSet(LAMBDA spans, before : before \o spans, <<>>, LAMBDA b : trace[b].spans, LastOf, DOMAIN trace)

\* The probabilistic filter, if there is one, is put in front of the accept
\* rules.  A trace has a batch, and a batch spans.
ASSUME RulesAssumption ==
  /\ MaxSecond \in Nat \ {0} /\ MaxSpanCount \in Nat
  /\ AcceptRules \in Seq({AcceptRules[r] : r \in DOMAIN AcceptRules})
  /\ \A r \in DOMAIN AcceptRules :
       /\ AcceptRules[r].spansPerSecond \in Int
       /\ AcceptRules[r].probabilistic => r = 1
  /\ \A t \in Traces :
       /\ t # <<>> /\ \A b \in DOMAIN t : t[b].spans # <<>>
       /\ Len(Spans(t)) \in Nat

-----------------------------------------------------------------------------
(* Criteria. *)

\* pdata's Str(): empty for an attribute of another type.
Str(v) == IF v.type = "str" THEN v.val ELSE ""

MatchesRange(v, ranges) == \E r \in ranges : v.val >= r.min /\ v.val <= r.max

\* checkAttributeFilterMatchedAndFound of an attribute that is there.
MatchesFilter(v, f) ==
  \/ f.patterns # {} /\ \E p \in f.patterns : Str(v) \in p
  \/ f.patterns = {} /\ Str(v) # "" /\ Str(v) \in f.values
  \/ v.type \in {"int", "double"} /\ MatchesRange(v, f.ranges)
  \/ f.patterns = {} /\ f.values = {} /\ f.ranges = {}

\* checkIfAttrsMatched: the resource is looked at for a key the span lacks.
AttrsMatched(resAttrs, spanAttrs, filters) ==
  \A f \in filters :
    LET v == IF spanAttrs[f.key] # Absent THEN spanAttrs[f.key] ELSE resAttrs[f.key]
    IN v # Absent /\ MatchesFilter(v, f)

StringAttrFound(attrs, f) ==
  LET v == attrs[f.key]
  IN /\ v # Absent
     /\ IF f.patterns # {} THEN \E p \in f.patterns : Str(v) \in p
                           ELSE Str(v) # "" /\ Str(v) \in f.values

\* pdata's Int() of an attribute of another type is 0.
NumericAttrFound(attrs, f) ==
  LET v == attrs[f.key]
      value == IF v.type = "int" THEN v.val ELSE 0
  IN v # Absent /\ value >= f.min /\ value <= f.max

\* The attributes of every resource and of every span of the trace.
AllAttributes(trace) ==
  UNION {{trace[b].res} \cup {trace[b].spans[k].attrs : k \in DOMAIN trace[b].spans} :
           b \in DOMAIN trace}

\* createAttributeFilter: the empty string is not kept as a value to match.
AttributeFilter(cfg) ==
  [key |-> cfg.key, ranges |-> cfg.ranges,
   patterns |-> IF cfg.regex THEN cfg.values ELSE {},
   values |-> IF cfg.regex THEN {} ELSE cfg.values \ {""}]

\* The criteria that accept and reject rules share.
AttributesMet(rule, trace) ==
  /\ rule.name # None =>
       \E k \in DOMAIN Spans(trace) : Spans(trace)[k].name \in rule.name
  /\ rule.stringAttr # None =>
       \E a \in AllAttributes(trace) : StringAttrFound(a, AttributeFilter(rule.stringAttr))
  /\ rule.numericAttr # None =>
       \E a \in AllAttributes(trace) : NumericAttrFound(a, rule.numericAttr)
  /\ rule.attrs # {} =>
       \E b \in DOMAIN trace : \E k \in DOMAIN trace[b].spans :
         AttrsMatched(trace[b].res, trace[b].spans[k].attrs,
                      {AttributeFilter(f) : f \in rule.attrs})

\* Mutant: the end of the last span is taken for the end of the trace.
WidenStart(interval, span) ==
  IF interval.start = 0
  THEN [start |-> span.start, end |-> span.end]
  ELSE [start |-> IF span.start < interval.start THEN span.start ELSE interval.start,
        end |-> span.end]

\* The start and the end of a trace, with 0 for "no start seen yet".
Widen(interval, span) ==
  IF interval.start = 0
  THEN [start |-> span.start, end |-> span.end]
  ELSE [start |-> IF span.start < interval.start THEN span.start ELSE interval.start,
        end |-> IF span.end > interval.end THEN span.end ELSE interval.end]

Interval(trace) ==
  MapThenFoldSet(LAMBDA span, interval : Widen(interval, span), [start |-> 0, end |-> 0],
                 LAMBDA k : Spans(trace)[k], LastOf, DOMAIN Spans(trace))

LongEnough(trace, minDuration) ==
  LET i == Interval(trace) IN i.end > i.start /\ i.end - i.start >= minDuration

Errors(trace) == {k \in DOMAIN Spans(trace) : Spans(trace)[k].error}

\* evaluateRules
EvaluateRules(rule, trace) ==
  LET met == /\ AttributesMet(rule, trace)
             /\ rule.minSpans # None => Len(Spans(trace)) >= rule.minSpans
             /\ rule.minDuration # None => LongEnough(trace, rule.minDuration)
             /\ rule.minErrors # None => Cardinality(Errors(trace)) >= rule.minErrors
  IN met # rule.invert

ShouldDrop(trace) == \E r \in DOMAIN RejectRules : AttributesMet(RejectRules[r], trace)

-----------------------------------------------------------------------------
(* Judging one trace after another. *)

VARIABLES
  clock,          \* the second
  rate,           \* rule -> currentSecond and spansInCurrentSecond
  trace,          \* the trace being judged, or None
  spanCount,      \* its SpanCount
  decisions,      \* its Decisions, one per accept rule
  idx,            \* the accept rule at hand
  step,           \* where the ticker is
  currSecond,     \* the second read by the evaluation at hand
  provisional,    \* provisionalDecision
  filterName,     \* the rule that ProvisionalDecisionFilterName names, or 0
  used            \* history: rule -> second -> spans of the traces it sampled

rulesVars == <<clock, rate, trace, spanCount, decisions, idx, step, currSecond,
          provisional, filterName, used>>

Rules == DOMAIN AcceptRules

RulesInit ==
  /\ clock = 1
  /\ rate = [r \in Rules |-> [second |-> 0, spans |-> 0]]
  /\ trace = None /\ spanCount = 0 /\ decisions = [r \in Rules |-> "Pending"]
  /\ idx = 0 /\ step = "idle" /\ currSecond = 0
  /\ provisional = "Unspecified" /\ filterName = 0
  /\ used = [r \in Rules |-> [t \in 0..MaxSecond |-> 0]]

\* A reject rule settles it; without accept rules everything is sampled.
Begin(t) ==
  /\ step \in {"idle", "done"}
  /\ trace' = t
  /\ spanCount' = Len(Spans(t))
  /\ decisions' = [r \in Rules |-> "Pending"]
  /\ filterName' = 0
  /\ provisional' = IF ShouldDrop(t) THEN "Dropped"
                    ELSE IF AcceptRules = <<>> THEN "Sampled" ELSE "Unspecified"
  /\ step' = IF provisional' = "Unspecified" THEN "consider" ELSE "done"
  /\ idx' = IF provisional' = "Unspecified" THEN 1 ELSE 0
  /\ UNCHANGED <<clock, rate, currSecond, used>>

\* shouldConsider
ShouldConsider(r, second, n) ==
  LET max == AcceptRules[r].spansPerSecond
  IN \/ max < 0
     \/ n <= max /\ (rate[r].second = second => n <= max - rate[r].spans)

\* Mutant: a later rule that does not match takes the second chance back.
TookLast(r, decision) ==
  /\ decisions' = [decisions EXCEPT ![r] = decision]
  /\ provisional' = decision
  /\ filterName' = IF decision = "NotSampled" \/ AcceptRules[r].probabilistic
                   THEN filterName ELSE r
  /\ step' = IF decision = "Sampled" \/ r = Len(AcceptRules) THEN "done" ELSE "consider"
  /\ idx' = IF step' = "done" THEN 0 ELSE r + 1

\* What makeProvisionalDecision does with the decision of a rule.
Took(r, decision) ==
  /\ decisions' = [decisions EXCEPT ![r] = decision]
  /\ provisional' = IF decision # "NotSampled" THEN decision
                    ELSE IF provisional = "Unspecified" THEN "NotSampled"
                    ELSE provisional
  /\ filterName' = IF \/ decision = "NotSampled"
                      \/ decision = "Sampled" /\ AcceptRules[r].probabilistic
                   THEN filterName ELSE r
  /\ step' = IF decision = "Sampled" \/ r = Len(AcceptRules) THEN "done" ELSE "consider"
  /\ idx' = IF step' = "done" THEN 0 ELSE r + 1

\* Evaluate reads the clock and sees whether the trace may fit.
Consider ==
  /\ step = "consider"
  /\ IF ShouldConsider(idx, clock, spanCount)
     THEN /\ currSecond' = clock
          /\ step' = "rules"
          /\ UNCHANGED <<decisions, provisional, filterName, idx>>
     ELSE Took(idx, "NotSampled") /\ UNCHANGED currSecond
  /\ UNCHANGED <<clock, rate, trace, spanCount, used>>

\* Mutant: the budget was looked at in shouldConsider and is not again.
UpdateRateUnchecked(r) ==
  LET spans == IF rate[r].second # currSecond THEN 0 ELSE rate[r].spans
  IN /\ rate' = [rate EXCEPT ![r] = [second |-> currSecond, spans |-> spans + spanCount]]
     /\ used' = [used EXCEPT ![r][currSecond] = @ + spanCount]
     /\ Took(r, "Sampled")

\* updateRate with the SpanCount of this moment.
UpdateRate(r) ==
  LET spans == IF rate[r].second # currSecond THEN 0 ELSE rate[r].spans
      fits == spans + spanCount <= AcceptRules[r].spansPerSecond
  IN /\ rate' = [rate EXCEPT ![r] =
                   [second |-> currSecond,
                    spans |-> IF fits THEN spans + spanCount ELSE spans]]
     /\ used' = IF fits THEN [used EXCEPT ![r][currSecond] = @ + spanCount] ELSE used
     /\ Took(r, IF fits THEN "Sampled" ELSE "NotSampled")

\* The rest of Evaluate.
Evaluate ==
  /\ step = "rules"
  /\ \/ /\ ~EvaluateRules(AcceptRules[idx], trace)
        /\ Took(idx, "NotSampled")
        /\ UNCHANGED <<rate, used>>
     \/ /\ EvaluateRules(AcceptRules[idx], trace)
        /\ AcceptRules[idx].spansPerSecond < 0
        /\ Took(idx, "SecondChance")
        /\ UNCHANGED <<rate, used>>
     \/ /\ EvaluateRules(AcceptRules[idx], trace)
        /\ AcceptRules[idx].spansPerSecond >= 0
        /\ UpdateRate(idx)
  /\ UNCHANGED <<clock, trace, spanCount, currSecond>>

\* bufferTraces counts spans of the same trace while it is judged.
CountSpan ==
  /\ step \in {"consider", "rules"}
  /\ spanCount < MaxSpanCount
  /\ spanCount' = spanCount + 1
  /\ UNCHANGED <<clock, rate, trace, decisions, idx, step, currSecond, provisional,
                 filterName, used>>

ClockTick ==
  /\ clock < MaxSecond
  /\ clock' = clock + 1
  /\ UNCHANGED <<rate, trace, spanCount, decisions, idx, step, currSecond,
                 provisional, filterName, used>>

RulesNext ==
  \/ \E t \in Traces : Begin(t)
  \/ Consider \/ Evaluate \/ CountSpan \/ ClockTick

RulesSpec == RulesInit /\ [][RulesNext]_rulesVars

-----------------------------------------------------------------------------
(* Properties. *)

\* In no second does a rule sample traces of more spans than its
\* spans_per_second, although SpanCount and the clock move between
\* shouldConsider and updateRate.
RuleBudget ==
  \A r \in Rules, t \in 0..MaxSecond :
    AcceptRules[r].spansPerSecond >= 0 => used[r][t] <= AcceptRules[r].spansPerSecond

\* The provisional decision is the best any rule gave: sampled if one rule
\* sampled the trace, after which no rule was asked (and charged); else a
\* second chance if one rule gave it; and the filter named is a rule that gave
\* that decision.
BestDecisionWins ==
  (step = "done" /\ provisional # "Dropped" /\ AcceptRules # <<>>) =>
    LET gave(d) == {r \in Rules : decisions[r] = d}
    IN /\ provisional = IF gave("Sampled") # {} THEN "Sampled"
                        ELSE IF gave("SecondChance") # {} THEN "SecondChance"
                        ELSE "NotSampled"
       /\ \A r \in gave("Sampled"), q \in Rules : q > r => decisions[q] = "Pending"
       /\ filterName # 0 => decisions[filterName] = provisional
       /\ filterName = 0 =>
            \/ provisional = "NotSampled"
            \/ \E r \in gave("Sampled") : AcceptRules[r].probabilistic

\* The interval evaluateRules measures is from the first start to the last end
\* of the trace, in whatever order its spans came, if every span has a start.
DurationExact ==
  trace # None =>
    LET spans == {Spans(trace)[k] : k \in DOMAIN Spans(trace)}
        i == Interval(trace)
    IN (\A s \in spans : s.start # 0) =>
         /\ \E s \in spans : s.start = i.start /\ \A o \in spans : s.start <= o.start
         /\ \E s \in spans : s.end = i.end /\ \A o \in spans : s.end >= o.end

-----------------------------------------------------------------------------
(* What the documentation says and the code does not do. *)

Selected(r) == decisions[r] \in {"Sampled", "SecondChance"}

\* One span, with its resource, passes the name pattern and the attribute
\* criteria of a rule.
SpanMeets(rule, batch, span) ==
  AttributesMet(rule, << [res |-> batch.res, spans |-> <<span>>] >>)

\* "If at least one span matching all defined criteria is found, the trace is
\* selected": a trace is selected by one of its spans.
OneSpanMeetsAll ==
  \A r \in Rules :
    (Selected(r) /\ ~AcceptRules[r].invert) =>
       \E b \in DOMAIN trace : \E k \in DOMAIN trace[b].spans :
          SpanMeets(AcceptRules[r], trace[b], trace[b].spans[k])
==============================================================================
