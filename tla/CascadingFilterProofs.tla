------------------------ MODULE CascadingFilterProofs ------------------------
(***************************************************************************)
(* For any number of consumers, traces and groups of spans: the map of     *)
(* buffered traces stays within its bound, a group of spans has one fate,  *)
(* and the traces passed on in a second stay within the limit.             *)
(***************************************************************************)
EXTENDS CascadingFates, FiniteSetTheorems

\* The ids on the map are no more than the places that can hold them: the
\* queue, the consumers that add a trace and those that drop one.
LEMMA InvMemoryBound == Inv => MemoryBound
<1> SUFFICES ASSUME Inv PROVE MemoryBound
  OBVIOUS
<1> DEFINE adders == {c \in Consumers :
                        pc[c] \in {"batch", "enqueue", "evict", "dropLoad", "dropDelete"}}
           droppers == {c \in Consumers : key[c] # None}
           queued == {deleteChan[k] : k \in 1..Len(deleteChan)}
           added == {TraceOf[grp[c]] : c \in adders}
           dropped == {key[c] : c \in droppers}
           n == Cardinality(Consumers)
<1>1. /\ IsFiniteSet(Consumers) /\ n \in Nat
      /\ IsFiniteSet(adders) /\ Cardinality(adders) \in Nat /\ Cardinality(adders) <= n
      /\ IsFiniteSet(droppers) /\ Cardinality(droppers) \in Nat
      /\ Cardinality(droppers) <= n
      /\ Cardinality(droppers) = n => droppers = Consumers
  <2>1. adders \in SUBSET Consumers /\ droppers \in SUBSET Consumers
    OBVIOUS
  <2> HIDE DEF adders, droppers
  <2> QED  BY <2>1, CascadeAssumption, FS_Subset, FS_CardinalityType, Zenon
<1>2. Len(deleteChan) \in Nat /\ NumTraces \in Nat \ {0} /\ Len(deleteChan) <= NumTraces
      /\ deleteChan \in Seq(TraceIDs)
  BY CascadeAssumption DEF Inv, TypeOK, MapTypeOK
<1>3. IsFiniteSet(queued) /\ Cardinality(queued) \in Nat
      /\ Cardinality(queued) <= Len(deleteChan)
  <2> DEFINE f == [k \in 1..Len(deleteChan) |-> deleteChan[k]]
  <2>1. f \in Surjection(1..Len(deleteChan), queued)
    BY DEF Surjection
  <2>2. IsFiniteSet(1..Len(deleteChan)) /\ Cardinality(1..Len(deleteChan)) = Len(deleteChan)
    <3> DEFINE m == Len(deleteChan)
    <3>1. 1 \in Int /\ m \in Int /\ m >= 0
      BY <1>2
    <3> HIDE DEF m
    <3>2. IsFiniteSet(1..m) /\ Cardinality(1..m) = IF 1 > m THEN 0 ELSE m - 1 + 1
      BY <3>1, FS_Interval
    <3>3. IsFiniteSet(1..m) /\ Cardinality(1..m) = m
      BY <3>1, <3>2
    <3> QED  BY <3>3 DEF m
  <2> HIDE DEF f, queued
  <2> QED  BY <2>1, <2>2, FS_Surjection, FS_CardinalityType
<1>4. IsFiniteSet(added) /\ Cardinality(added) \in Nat
      /\ Cardinality(added) <= Cardinality(adders)
  <2> DEFINE f == [c \in adders |-> TraceOf[grp[c]]]
  <2>1. f \in Surjection(adders, added)
    BY Zenon DEF Surjection
  <2> HIDE DEF f, added, adders
  <2> QED  BY <1>1, <2>1, FS_Surjection, FS_CardinalityType
<1>5. IsFiniteSet(dropped) /\ Cardinality(dropped) \in Nat
      /\ Cardinality(dropped) <= Cardinality(droppers)
  <2> DEFINE f == [c \in droppers |-> key[c]]
  <2>1. f \in Surjection(droppers, dropped)
    BY DEF Surjection
  <2> HIDE DEF f, dropped, droppers
  <2> QED  BY <1>1, <2>1, FS_Surjection, FS_CardinalityType
<1>6. OnMap \subseteq (queued \cup added) \cup dropped
  BY <1>2, CascadeAssumption DEF OnMap, Inv, KeyTracked
<1>7. /\ IsFiniteSet((queued \cup added) \cup dropped)
      /\ Cardinality((queued \cup added) \cup dropped)
           <= Cardinality(queued) + Cardinality(added) + Cardinality(dropped)
  <2> HIDE DEF queued, added, dropped
  <2>1. /\ IsFiniteSet(queued \cup added) /\ Cardinality(queued \cup added) \in Nat
        /\ Cardinality(queued \cap added) \in Nat
        /\ Cardinality(queued \cup added) =
             Cardinality(queued) + Cardinality(added) - Cardinality(queued \cap added)
    BY Zenon, <1>3, <1>4, FS_Union, FS_Intersection, FS_CardinalityType
  <2>2. /\ IsFiniteSet((queued \cup added) \cup dropped)
        /\ Cardinality((queued \cup added) \cap dropped) \in Nat
        /\ Cardinality((queued \cup added) \cup dropped) =
             Cardinality(queued \cup added) + Cardinality(dropped)
               - Cardinality((queued \cup added) \cap dropped)
    BY Zenon, <2>1, <1>5, FS_Union, FS_Intersection, FS_CardinalityType
  <2> QED  BY <2>1, <2>2, <1>3, <1>4, <1>5
<1>8. Cardinality(OnMap) \in Nat
      /\ Cardinality(OnMap) <= Cardinality((queued \cup added) \cup dropped)
  <2> HIDE DEF queued, added, dropped
  <2> QED  BY <1>6, <1>7, FS_Subset, FS_CardinalityType
<1>9. droppers = Consumers => Len(deleteChan) < NumTraces
  BY DEF Inv, Room
<1> HIDE DEF queued, added, dropped, adders, droppers, n
<1>10. Cardinality(OnMap) <= NumTraces + 2 * n - 1
  <2>1. Cardinality(OnMap) <= Len(deleteChan) + n + Cardinality(droppers)
    <3> DEFINE all == (queued \cup added) \cup dropped
    <3>1. Cardinality(all) \in Nat
      BY <1>7, FS_CardinalityType
    <3> HIDE DEF all
    <3>2. Cardinality(OnMap) <= Cardinality(all)
          /\ Cardinality(all) <= Cardinality(queued) + Cardinality(added) + Cardinality(dropped)
      BY <1>7, <1>8 DEF all
    <3> QED  BY ONLY <1>1, <1>2, <1>3, <1>4, <1>5, <1>8, <3>1, <3>2
  <2>2. CASE droppers = Consumers
    BY <2>1, <2>2, <1>1, <1>2, <1>8, <1>9
  <2>3. CASE droppers # Consumers
    BY <2>1, <2>3, <1>1, <1>2, <1>8
  <2> QED  BY <2>2, <2>3
<1> QED  BY <1>10 DEF MemoryBound, n

\* The map of bufferTraces and dropTrace keeps within num_traces and two traces
\* for each consumer, less one.
THEOREM CascadeMemoryBounded == Spec => []MemoryBound
BY InitInv, NextInv, InvMemoryBound, PTL DEF Spec

-----------------------------------------------------------------------------
(* One fate. *)

\* A set of which any two members are the same has at most one.
LEMMA AtMostOne ==
  ASSUME NEW S, \A x, y \in S : x = y
  PROVE  Cardinality(S) <= 1
<1>1. CASE S = {}
  <2>1. Cardinality(S) = 0
    BY <1>1, FS_EmptySet, Zenon
  <2> QED BY ONLY <2>1
<1>2. CASE S # {}
  <2>1. PICK x : x \in S
    BY <1>2, Zenon
  <2>2. S = {x}
    BY <2>1, Zenon
  <2>3. Cardinality(S) = 1
    BY <2>2, FS_Singleton, Zenon
  <2> QED BY ONLY <2>3
<1> QED BY <1>1, <1>2

\* A group is in one place, and what was passed on was sampled.
LEMMA OneFate == FateInv => ForwardedOnceIfSampled
<1> SUFFICES ASSUME FateInv PROVE ForwardedOnceIfSampled
  OBVIOUS
<1>1. Homes /\ Decided
  BY Zenon DEF FateInv
<1>2. OnlySampledForwarded
  BY <1>1, Zenon DEF Decided, Settled, OnlySampledForwarded
<1>3. ASSUME NEW g \in Groups
      PROVE  /\ \A o, p \in Groups : g \in received[o] /\ g \in received[p] => o = p
             /\ g \in forwarded => g \notin late \cup refused \cup missed
             /\ g \in missed => g \notin late \cup refused
             /\ g \in late => g \notin refused
             /\ \A o \in Groups : g \in received[o] =>
                  g \notin forwarded \cup missed \cup late \cup refused
  <2>1. \A o \in Groups : o # None
    BY CascadeAssumption
  <2>2. /\ g \in forwarded \cup missed => home[g] # None
        /\ g \in late \cup refused => home[g] = None
        /\ g \in late => g \notin refused
        /\ g \in forwarded => g \notin missed
    BY <1>1, Zenon DEF Homes
  <2>3. \A o \in Groups : g \in received[o] => home[g] = o /\ g \notin forwarded \cup missed
    BY <1>1, Zenon DEF Homes
  <2> QED BY ONLY <2>1, <2>2, <2>3, Zenon
<1>4. NoDuplicates
  <2> SUFFICES ASSUME NEW g \in Groups
               PROVE  Cardinality({f \in {"forwarded", "late", "refused", "missed", "buffered"} :
                        \/ f = "forwarded" /\ g \in forwarded
                        \/ f = "late" /\ g \in late
                        \/ f = "refused" /\ g \in refused
                        \/ f = "missed" /\ g \in missed
                        \/ f = "buffered" /\ \E o \in Groups : g \in received[o]}) <= 1
    BY <1>3, Zenon DEF NoDuplicates
  <2> DEFINE S == {f \in {"forwarded", "late", "refused", "missed", "buffered"} :
                    \/ f = "forwarded" /\ g \in forwarded
                    \/ f = "late" /\ g \in late
                    \/ f = "refused" /\ g \in refused
                    \/ f = "missed" /\ g \in missed
                    \/ f = "buffered" /\ \E o \in Groups : g \in received[o]}
  <2>1. \A x, y \in S : x = y
    BY <1>3, Zenon
  <2> HIDE DEF S
  <2>2. Cardinality(S) <= 1
    BY <2>1, AtMostOne, Zenon
  <2> QED BY <2>2 DEF S
<1> QED BY <1>2, <1>4, Zenon DEF ForwardedOnceIfSampled

\* Spans are passed on once, and because the object they are in is sampled, now
\* and for good: bufferTraces, the two passes and cleanup, whatever they
\* interleave.
THEOREM CascadeForwardsOnce == Spec => []ForwardedOnceIfSampled
BY InitFates, NextFates, OneFate, PTL DEF Spec

-----------------------------------------------------------------------------
(* The limit. *)

\* The limiters that the filter can have, and what one has spent in a second.
Limiters == [currentSecond : Nat, maxSpansPerSecond : {SpansPerSecond}, spansInCurrentSecond : Nat]

Spent(rl, s) == IF rl.currentSecond = s THEN rl.spansInCurrentSecond ELSE 0

\* updateRate spends the spans that it samples, and no more than the limit.
LEMMA UpdateRateSpends ==
  ASSUME NEW rl \in Limiters, NEW s \in Nat, NEW n \in Nat,
         rl.currentSecond <= s, Spent(rl, s) <= SpansPerSecond, SpansPerSecond > 0
  PROVE  LET rate == UpdateRate(rl, s, n)
         IN /\ rate.limiter \in Limiters /\ rate.limiter.currentSecond = s
            /\ Spent(rate.limiter, s) <= SpansPerSecond
            /\ Spent(rate.limiter, s) = Spent(rl, s) + (IF rate.decision = "Sampled" THEN n ELSE 0)
<1>1. SpansPerSecond \in Int
  BY CascadeAssumption
<1> DEFINE now == Refreshed(rl, s)
<1>2. /\ now \in Limiters /\ now.currentSecond = s
      /\ now.spansInCurrentSecond = Spent(rl, s) /\ now.maxSpansPerSecond = SpansPerSecond
  <2>1. rl.currentSecond \in Nat /\ rl.maxSpansPerSecond = SpansPerSecond
    BY DEF Limiters
  <2>2. CASE rl.currentSecond < s
    <3>1. now = [rl EXCEPT !.currentSecond = s, !.spansInCurrentSecond = 0] /\ Spent(rl, s) = 0
      BY <2>1, <2>2 DEF Refreshed, Spent
    <3> HIDE DEF now
    <3> QED BY ONLY <3>1, rl \in Limiters, s \in Nat, Zenon DEF Limiters
  <2>3. CASE rl.currentSecond = s
    BY <2>1, <2>3 DEF Limiters, Refreshed, Spent
  <2> QED BY <2>1, <2>2, <2>3
<1>3. ~Unlimited(rl)
  BY <1>1 DEF Unlimited, Limiters
<1>4. UpdateRate(rl, s, n) =
        IF Fits(now, n)
        THEN [decision |-> "Sampled", limiter |-> [now EXCEPT !.spansInCurrentSecond = @ + n]]
        ELSE [decision |-> "NotSampled", limiter |-> now]
  BY <1>3, Zenon DEF UpdateRate
<1> HIDE DEF now
<1>5. CASE Fits(now, n)
  BY ONLY <1>1, <1>2, <1>4, <1>5, n \in Nat DEF Limiters, Spent, Fits
<1>6. CASE ~Fits(now, n)
  BY ONLY <1>1, <1>2, <1>4, <1>6, Spent(rl, s) <= SpansPerSecond DEF Limiters, Spent
<1> QED BY <1>5, <1>6

\* Each object that is being passed on in this second was charged at least one
\* span, and the charge is within the limit.
Charged ==
  /\ limiter \in Limiters /\ limiter.currentSecond <= second
  /\ Spent(limiter, second) <= SpansPerSecond
  /\ IsFiniteSet(Sampling) /\ Cardinality(Sampling) <= Spent(limiter, second)

\* The limit's inductive invariant.
LimitInv == ChargeInv /\ (SpansPerSecond > 0 => Charged)

\* What the limiter is charged covers what a step adds.
LEMMA ChargedStep ==
  ASSUME Charged, Charging, second \in Nat, second' \in Nat, SpansPerSecond > 0
  PROVE  Charged'
<1>1. SpansPerSecond \in Int
  BY CascadeAssumption
<1>2. Spent(limiter, second) \in Nat /\ limiter.currentSecond \in Nat
  BY DEF Charged, Limiters, Spent
<1>3. ASSUME Sampling' \subseteq Sampling
      PROVE  IsFiniteSet(Sampling') /\ Cardinality(Sampling') <= Spent(limiter, second)
  <2>1. /\ IsFiniteSet(Sampling') /\ Cardinality(Sampling') <= Cardinality(Sampling)
        /\ Cardinality(Sampling') \in Nat /\ Cardinality(Sampling) \in Nat
    BY <1>3, FS_Subset, FS_CardinalityType, Zenon DEF Charged
  <2>2. Cardinality(Sampling) <= Spent(limiter, second)
    BY Zenon DEF Charged
  <2> QED BY ONLY <1>2, <2>1, <2>2
<1>4. CASE Sampling' \subseteq Sampling /\ UNCHANGED <<limiter, second>>
  BY <1>3, <1>4, Zenon DEF Charged, Spent
<1>5. CASE Sampling' = {} /\ second' > second /\ UNCHANGED limiter
  <2>1. Spent(limiter', second') = 0 /\ limiter'.currentSecond <= second'
    BY <1>2, <1>5 DEF Charged, Spent
  <2>2. IsFiniteSet(Sampling') /\ Cardinality(Sampling') = 0
    BY <1>5, FS_EmptySet, Zenon
  <2>3. limiter' \in Limiters
    BY <1>5, Zenon DEF Charged
  <2>4. 0 <= SpansPerSecond /\ 0 <= 0
    BY <1>1
  <2> QED BY <2>1, <2>2, <2>3, <2>4, Zenon DEF Charged, Spent
<1>6. CASE \E n \in Nat \ {0}, o \in Groups :
             LET rate == UpdateRate(limiter, second, n)
             IN /\ second' = second /\ limiter' = rate.limiter
                /\ Sampling' \subseteq Sampling \cup (IF rate.decision = "Sampled" THEN {o} ELSE {})
  <2>1. PICK n \in Nat \ {0}, o \in Groups :
               LET rate == UpdateRate(limiter, second, n)
               IN /\ second' = second /\ limiter' = rate.limiter
                  /\ Sampling' \subseteq Sampling \cup (IF rate.decision = "Sampled" THEN {o} ELSE {})
    BY <1>6, Zenon
  <2> DEFINE sampled == UpdateRate(limiter, second, n).decision = "Sampled"
  <2>2. /\ limiter' \in Limiters /\ limiter'.currentSecond = second'
        /\ Spent(limiter', second') <= SpansPerSecond
        /\ Spent(limiter', second') = Spent(limiter, second) + (IF sampled THEN n ELSE 0)
    BY <2>1, UpdateRateSpends DEF Charged
  <2>3. \/ Sampling' \subseteq Sampling
        \/ sampled /\ Sampling' \subseteq Sampling \cup {o}
    BY <2>1, Zenon
  <2> HIDE DEF sampled
  <2>4. second' \in Nat /\ Spent(limiter', second') \in Nat
        /\ Spent(limiter', second') >= Spent(limiter, second)
    BY <1>2, <2>2
  <2>5. ASSUME Sampling' \subseteq Sampling
        PROVE  IsFiniteSet(Sampling') /\ Cardinality(Sampling') <= Spent(limiter', second')
    <3>1. /\ IsFiniteSet(Sampling') /\ Cardinality(Sampling') \in Nat
          /\ Cardinality(Sampling') <= Spent(limiter, second)
      BY <1>3, <2>5, FS_CardinalityType, Zenon
    <3>2. Cardinality(Sampling') <= Spent(limiter', second')
      BY ONLY <1>2, <2>4, <3>1
    <3> QED BY <3>1, <3>2, Zenon
  <2>6. ASSUME sampled, Sampling' \subseteq Sampling \cup {o}
        PROVE  IsFiniteSet(Sampling') /\ Cardinality(Sampling') <= Spent(limiter', second')
    <3>1. /\ IsFiniteSet(Sampling \cup {o}) /\ Cardinality(Sampling) \in Nat
          /\ Cardinality(Sampling \cup {o}) =
               IF o \in Sampling THEN Cardinality(Sampling) ELSE Cardinality(Sampling) + 1
      BY FS_AddElement, FS_CardinalityType, Zenon DEF Charged
    <3>2. /\ IsFiniteSet(Sampling') /\ Cardinality(Sampling') \in Nat
          /\ Cardinality(Sampling') <= Cardinality(Sampling \cup {o})
      BY <2>6, <3>1, FS_Subset, FS_CardinalityType, Zenon
    <3>3. Cardinality(Sampling) <= Spent(limiter, second)
      BY Zenon DEF Charged
    <3>4. n \in Nat \ {0} /\ Spent(limiter', second') = Spent(limiter, second) + n
      BY <2>2, <2>6, Zenon
    <3> QED BY ONLY <1>2, <3>1, <3>2, <3>3, <3>4
  <2>7. IsFiniteSet(Sampling') /\ Cardinality(Sampling') <= Spent(limiter', second')
    BY <2>3, <2>5, <2>6, Zenon
  <2>8. second' <= second'
    BY ONLY <2>4
  <2> QED BY <2>2, <2>7, <2>8, Zenon DEF Charged, Spent
<1> QED BY <1>4, <1>5, <1>6, Zenon DEF Charging

\* The limiter starts with nothing spent.
LEMMA InitLimit == Init => LimitInv
<1> SUFFICES ASSUME Init PROVE LimitInv
  OBVIOUS
<1>1. ChargeInv /\ Sampling = {} /\ limiter = NewRateLimitter(SpansPerSecond) /\ second = 0
  BY InitCharge, Zenon DEF Init
<1>2. IsFiniteSet(Sampling) /\ Cardinality(Sampling) = 0
  BY <1>1, FS_EmptySet, Zenon
<1>3. /\ limiter \in Limiters /\ limiter.currentSecond <= second /\ Spent(limiter, second) = 0
  BY ONLY <1>1, CascadeAssumption DEF NewRateLimitter, Limiters, Spent
<1>4. SpansPerSecond > 0 => 0 <= SpansPerSecond /\ 0 <= 0
  BY ONLY CascadeAssumption
<1> QED BY <1>1, <1>2, <1>3, <1>4, Zenon DEF LimitInv, Charged

\* Every step keeps the limit.
LEMMA NextLimit == LimitInv /\ [Next]_vars => LimitInv'
<1> SUFFICES ASSUME LimitInv, [Next]_vars PROVE LimitInv'
  OBVIOUS
<1>1. ChargeInv /\ ChargeInv' /\ Charging
  BY NextCharge, Zenon DEF LimitInv
<1>2. TickerTypeOK /\ TickerTypeOK'
  BY <1>1, Zenon DEF ChargeInv, FateInv, Inv, TypeOK
<1>3. second \in Nat /\ second' \in Nat
  BY ONLY <1>2, CascadeAssumption DEF TickerTypeOK
<1>4. SpansPerSecond > 0 => Charged'
  BY <1>1, <1>3, ChargedStep, Zenon DEF LimitInv
<1> QED BY <1>1, <1>4, Zenon DEF LimitInv

\* With a limit set, the traces passed on in a second are at most as many as the
\* limit has spans: updateRate charges each at least one span in the second in
\* which it is passed on, because no decided trace outlives its batch.
THEOREM CascadeWithinLimit == Spec => []SampledTracesWithinLimit
<1>1. LimitInv => SampledTracesWithinLimit
  <2> SUFFICES ASSUME LimitInv, SpansPerSecond > 0
               PROVE  Cardinality({home[g] : g \in emitted}) <= SpansPerSecond
    BY Zenon DEF SampledTracesWithinLimit
  <2> DEFINE passedOn == {home[g] : g \in emitted}
  <2>1. Charged
    BY Zenon DEF LimitInv
  <2>2. passedOn \subseteq Sampling
    BY Zenon DEF Sampling
  <2> HIDE DEF passedOn
  <2>3. /\ Cardinality(passedOn) <= Cardinality(Sampling)
        /\ Cardinality(passedOn) \in Nat /\ Cardinality(Sampling) \in Nat
    BY <2>1, <2>2, FS_Subset, FS_CardinalityType, Zenon DEF Charged
  <2>4. Cardinality(Sampling) <= Spent(limiter, second) /\ Spent(limiter, second) <= SpansPerSecond
    BY <2>1, Zenon DEF Charged
  <2>5. Spent(limiter, second) \in Nat
    BY <2>1 DEF Charged, Limiters, Spent
  <2>6. Cardinality(passedOn) <= SpansPerSecond
    BY ONLY <2>3, <2>4, <2>5, CascadeAssumption
  <2> QED BY <2>6 DEF passedOn
<1> QED BY InitLimit, NextLimit, <1>1, PTL DEF Spec
=============================================================================
