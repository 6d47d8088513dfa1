------------------------------ MODULE LateSpans ------------------------------
(***************************************************************************)
(* cascadingfilterprocessor: spans that arrive after their trace was       *)
(* sampled (the first half of processTraces).  Every goroutine in          *)
(* ConsumeTraces calls updateRate of the one priorSpansLimitter; there is  *)
(* no lock, so each access to a field of the limiter is a step.            *)
(***************************************************************************)
EXTENDS Naturals, FiniteSets, RateLimiter

CONSTANTS Consumers,
          SpansPerSecond,  \* spans_per_second
          PriorSpansRate,  \* prior_spans_rate, or None
          MaxGroup,        \* spans in a group, at most
          MaxGroups,       \* groups that arrive, at most
          MaxSecond,       \* bound on the clock
          None

\* priorSpansRate: configured, or half of the configured total.
PriorRate == IF PriorSpansRate # None THEN PriorSpansRate ELSE SpansPerSecond \div 2

VARIABLES
  now,      \* the clock
  limiter,  \* priorSpansLimitter
  pc, curr, size, sum,   \* a consumer: where it is, its currTime, the spans of
                         \* the group at hand, spansInSecondIfSampled
  groups,   \* history: groups that have arrived
  passed    \* history: second -> late spans passed on

vars == <<now, limiter, pc, curr, size, sum, groups, passed>>

Init ==
  /\ now = 1
  /\ limiter = NewRateLimitter(PriorRate)
  /\ pc = [c \in Consumers |-> "idle"]
  /\ curr = [c \in Consumers |-> 0]
  /\ size = [c \in Consumers |-> 0]
  /\ sum = [c \in Consumers |-> 0]
  /\ groups = 0
  /\ passed = [t \in 0..MaxSecond |-> 0]

Goto(c, l) == pc' = [pc EXCEPT ![c] = l]

\* processTraces reads the clock once for all its groups.
ProcessTraces(c) ==
  /\ pc[c] = "idle"
  /\ groups < MaxGroups
  /\ curr' = [curr EXCEPT ![c] = now]
  /\ Goto(c, "next")
  /\ UNCHANGED <<now, limiter, size, sum, groups, passed>>

PassOn(c) == passed' = [passed EXCEPT ![curr[c]] = @ + size[c]]

\* The next group of a trace that was sampled; without a limit it goes on.
NextGroup(c) ==
  /\ pc[c] = "next"
  /\ groups < MaxGroups
  /\ \E n \in 1..MaxGroup :
       /\ size' = [size EXCEPT ![c] = n]
       /\ groups' = groups + 1
       /\ IF Unlimited(limiter)
          THEN passed' = [passed EXCEPT ![curr[c]] = @ + n] /\ UNCHANGED pc
          ELSE Goto(c, "second") /\ UNCHANGED passed
  /\ UNCHANGED <<now, limiter, curr, sum>>

Return(c) ==
  /\ pc[c] = "next"
  /\ Goto(c, "idle")
  /\ UNCHANGED <<now, limiter, curr, size, sum, groups, passed>>

\* rl.currentSecond < currSecond
CheckSecond(c) ==
  /\ pc[c] = "second"
  /\ Goto(c, IF limiter.currentSecond < curr[c] THEN "setSecond" ELSE "add")
  /\ UNCHANGED <<now, limiter, curr, size, sum, groups, passed>>

SetSecond(c) ==
  /\ pc[c] = "setSecond"
  /\ limiter' = [limiter EXCEPT !.currentSecond = curr[c]]
  /\ Goto(c, "reset")
  /\ UNCHANGED <<now, curr, size, sum, groups, passed>>

ResetCount(c) ==
  /\ pc[c] = "reset"
  /\ limiter' = [limiter EXCEPT !.spansInCurrentSecond = 0]
  /\ Goto(c, "add")
  /\ UNCHANGED <<now, curr, size, sum, groups, passed>>

\* spansInSecondIfSampled; a group that does not fit is refused.
AddSpans(c) ==
  /\ pc[c] = "add"
  /\ IF Fits(limiter, size[c])
     THEN /\ sum' = [sum EXCEPT ![c] = limiter.spansInCurrentSecond + size[c]]
          /\ Goto(c, "count")
     ELSE /\ Goto(c, "next")
          /\ UNCHANGED sum
  /\ UNCHANGED <<now, limiter, curr, size, groups, passed>>

StoreCount(c) ==
  /\ pc[c] = "count"
  /\ limiter' = [limiter EXCEPT !.spansInCurrentSecond = sum[c]]
  /\ PassOn(c)
  /\ Goto(c, "next")
  /\ UNCHANGED <<now, curr, size, sum, groups>>

ClockTick ==
  /\ now < MaxSecond
  /\ now' = now + 1
  /\ UNCHANGED <<limiter, pc, curr, size, sum, groups, passed>>

Next == \/ \E c \in Consumers :
             \/ ProcessTraces(c) \/ NextGroup(c) \/ Return(c)
             \/ CheckSecond(c) \/ SetSecond(c) \/ ResetCount(c)
             \/ AddSpans(c) \/ StoreCount(c)
        \/ ClockTick

Spec == Init /\ [][Next]_vars

-----------------------------------------------------------------------------
(* What the documentation says and the code does not do. *)

\* "number of spans that arrived late": no second passes on more late spans
\* than prior_spans_rate, whichever goroutines bring them.
PriorRateKept ==
  PriorRate > 0 => \A t \in 0..MaxSecond : passed[t] <= PriorRate
==============================================================================
