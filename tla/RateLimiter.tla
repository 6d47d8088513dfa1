----------------------------- MODULE RateLimiter -----------------------------
(***************************************************************************)
(* cascadingfilterprocessor/rate_limitter.go: the limiter of spans per     *)
(* second.  The cascading filter has two: decisionSpansLimitter, used by   *)
(* the ticker goroutine only, and priorSpansLimitter, used by every        *)
(* goroutine that delivers late spans, without a lock.                     *)
(***************************************************************************)
EXTENDS Integers

\* A limiter before its first use: newRateLimitter.
NewRateLimitter(max) ==
  [currentSecond |-> 0, maxSpansPerSecond |-> max, spansInCurrentSecond |-> 0]

\* The start of a new second empties the count.
Refreshed(rl, currSecond) ==
  IF rl.currentSecond < currSecond
  THEN [rl EXCEPT !.currentSecond = currSecond, !.spansInCurrentSecond = 0]
  ELSE rl

Unlimited(rl) == rl.maxSpansPerSecond <= 0

\* Mutant: the limit is tested before the new spans are added.
FitsBefore(rl, numSpans) ==
  rl.spansInCurrentSecond <= rl.maxSpansPerSecond

Fits(rl, numSpans) ==
  rl.spansInCurrentSecond + numSpans <= rl.maxSpansPerSecond

\* The decision of updateRate and the limiter it leaves behind.
UpdateRate(rl, currSecond, numSpans) ==
  LET now == Refreshed(rl, currSecond)
  IN IF Unlimited(rl)
     THEN [decision |-> "Sampled", limiter |-> rl]
     ELSE IF Fits(now, numSpans)
     THEN [decision |-> "Sampled",
           limiter |-> [now EXCEPT !.spansInCurrentSecond = @ + numSpans]]
     ELSE [decision |-> "NotSampled", limiter |-> now]
==============================================================================
