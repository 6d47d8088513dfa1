-------------------------- MODULE SelectionProofs ---------------------------
(***************************************************************************)
(* What is kept of log records, of traces and of metrics, for any values   *)
(* and configuration: the records SourceProcessor unpacks, the budgets and *)
(* decisions of PolicyRules, the points MetricSieve drops.                 *)
(***************************************************************************)
EXTENDS PolicyRules, MetricSieve, SourceProcessor, TLAPS

-----------------------------------------------------------------------------
(* SourceProcessor: RecordsUnpacked. *)

\* A function on an initial segment of the numbers.
Listing(s) == s \in Seq({s[i] : i \in DOMAIN s})

\* What has passed processResource.
Filled(i) == i < resource \/ (i = resource /\ record > 0)

\* Resources and records ahead are as they were given; those behind are filtered
\* out or have as many records as before.
Shaped ==
  /\ given \in Batches
  /\ Listing(batch) /\ Len(batch) = Len(given)
  /\ \A i \in DOMAIN batch : /\ batch[i] = [atts |-> batch[i].atts, bodies |-> batch[i].bodies]
                             /\ Listing(batch[i].bodies)
  /\ resource \in Nat \ {0} /\ record \in Nat
  /\ resource <= Len(batch) => record <= Len(batch[resource].bodies) + 1
  /\ resource > Len(batch) => resource = Len(batch) + 1 /\ record = 0
  /\ \A i \in DOMAIN batch :
       IF Filled(i) THEN batch[i].bodies = <<>> \/ Len(batch[i].bodies) = Len(given[i].bodies)
       ELSE batch[i] = given[i]
  /\ \A j \in Nat : resource <= Len(batch) /\ record > 0 /\ j >= record
                      /\ j \in DOMAIN batch[resource].bodies
                    => batch[resource].bodies[j] = given[resource].bodies[j]

\* The records so far are unpacked or left.
Done ==
  \A i \in DOMAIN batch : \A j \in DOMAIN batch[i].bodies :
    i < resource \/ (i = resource /\ j < record) => Unpacks(given[i].bodies[j], batch[i].bodies[j])

SourceInv == Shaped /\ Done

-----------------------------------------------------------------------------

\* An update keeps a sequence one of the same length.
LEMMA ListingUpdate ==
  ASSUME NEW s, Listing(s), NEW i \in DOMAIN s, NEW e
  PROVE  LET t == [s EXCEPT ![i] = e]
         IN Listing(t) /\ Len(t) = Len(s) /\ DOMAIN t = DOMAIN s
<1> DEFINE t == [s EXCEPT ![i] = e]
           T == {t[k] : k \in DOMAIN t}
<1>1. s \in [1..Len(s) -> {s[k] : k \in DOMAIN s}] /\ Len(s) \in Nat
  BY DEF Listing
<1>2. DOMAIN t = 1..Len(s)
  BY <1>1
<1>3. t \in [1..Len(s) -> T]
  BY <1>1, <1>2
<1>4. \A n \in Nat : \A X, f : f \in [1..n -> X] => f \in Seq(X) /\ Len(f) = n
  OBVIOUS
<1> HIDE DEF t, T
<1>5. t \in Seq(T) /\ Len(t) = Len(s)
  BY <1>1, <1>3, <1>4, Zenon
<1> QED BY <1>1, <1>2, <1>5, Zenon DEF Listing, t, T

\* The domain of a sequence.
LEMMA ListingDomain ==
  ASSUME NEW s, Listing(s) PROVE Len(s) \in Nat /\ DOMAIN s = 1..Len(s)
BY DEF Listing

\* A batch as it was given.
LEMMA GivenListing ==
  ASSUME NEW b \in Batches
  PROVE  /\ Listing(b)
         /\ \A i \in DOMAIN b : /\ b[i] = [atts |-> b[i].atts, bodies |-> b[i].bodies]
                                /\ Listing(b[i].bodies)
BY BatchesAssumption, Zenon DEF Listing

\* Before the call nothing is unpacked.
LEMMA InitSource == SourceInit => SourceInv
<1> SUFFICES ASSUME SourceInit PROVE SourceInv
  OBVIOUS
<1>1. Shaped
  <2>1. given \in Batches /\ batch = given /\ resource = 1 /\ record = 0
    BY DEF SourceInit
  <2>2. Listing(batch) /\ Len(batch) \in Nat /\ DOMAIN batch = 1..Len(batch)
        /\ \A i \in DOMAIN batch :
             /\ batch[i] = [atts |-> batch[i].atts, bodies |-> batch[i].bodies]
             /\ Listing(batch[i].bodies) /\ Len(batch[i].bodies) \in Nat
    BY <2>1, GivenListing, ListingDomain, Zenon
  <2> QED BY <2>1, <2>2 DEF Shaped, Filled
<1>3. Done
  BY ListingDomain, <1>1 DEF Done, SourceInit, Shaped
<1> QED BY <1>1, <1>3 DEF SourceInv

\* processResource empties the resource or leaves its records.
LEMMA ProcessStep == ASSUME SourceInv, ProcessResource PROVE SourceInv'
<1> DEFINE r == resource
<1>1. PICK a, b : /\ batch' = [batch EXCEPT ![r] = [atts |-> a, bodies |-> b]]
                  /\ b = <<>> \/ b = batch[r].bodies
  BY Zenon DEF ProcessResource
<1>2. /\ r \in DOMAIN batch /\ record = 0 /\ record' = 1
      /\ UNCHANGED <<resource, dockerLog, given>>
  BY ListingDomain DEF ProcessResource, SourceInv, Shaped
<1>3. /\ Shaped /\ Listing(batch) /\ Len(batch) \in Nat /\ DOMAIN batch = 1..Len(batch)
      /\ Listing(batch[r].bodies) /\ batch[r] = given[r]
  BY <1>2, ListingDomain DEF SourceInv, Shaped, Filled
<1>4. Listing(batch') /\ Len(batch') = Len(batch) /\ DOMAIN batch' = DOMAIN batch
  BY <1>1, <1>2, <1>3, ListingUpdate, Zenon
<1>5. batch'[r] = [atts |-> a, bodies |-> b] /\ \A i \in DOMAIN batch : i # r => batch'[i] = batch[i]
  BY <1>1, <1>2, <1>3 DEF Listing
<1>6. Listing(b) /\ Len(b) \in Nat
  <2>1. Listing(<<>>)
    BY DEF Listing
  <2> QED BY <1>1, <1>3, <2>1, ListingDomain, Zenon
<1>7. Shaped'
  <2>1. \A i \in DOMAIN batch' : /\ batch'[i] = [atts |-> batch'[i].atts, bodies |-> batch'[i].bodies]
                                 /\ Listing(batch'[i].bodies)
    BY <1>3, <1>4, <1>5, <1>6 DEF Shaped
  <2>2. \A i \in DOMAIN batch' :
          IF Filled(i)' THEN batch'[i].bodies = <<>> \/ Len(batch'[i].bodies) = Len(given[i].bodies)
          ELSE batch'[i] = given[i]
    BY <1>1, <1>2, <1>3, <1>4, <1>5 DEF Shaped, Filled
  <2>3. \A j \in Nat : j \in DOMAIN batch'[r].bodies => batch'[r].bodies[j] = given[r].bodies[j]
    BY <1>1, <1>3, <1>5
  <2> QED BY <1>2, <1>3, <1>4, <1>5, <1>6, <2>1, <2>2, <2>3 DEF Shaped
<1>9. Done'
  <2> SUFFICES ASSUME NEW i \in DOMAIN batch, NEW j \in DOMAIN batch'[i].bodies,
                      i < r \/ (i = r /\ j < 1)
               PROVE  Unpacks(given[i].bodies[j], batch'[i].bodies[j])
    BY <1>2, <1>4 DEF Done, Unpacks, Complete
  <2>1. j \in Nat \ {0}
    BY <1>4, <1>7, ListingDomain DEF Shaped
  <2>2. i < r /\ batch'[i] = batch[i]
    BY <1>2, <1>3, <1>5, <2>1
  <2> QED BY <2>2 DEF SourceInv, Done
<1> QED BY <1>7, <1>9 DEF SourceInv

\* ProcessLogs unpacks a record or leaves it.
LEMMA UnpackStep == ASSUME SourceInv, UnpackRecord PROVE SourceInv'
<1>0. PICK r, c : r = resource /\ c = record
  OBVIOUS
<1> DEFINE bodies == batch[r].bodies
           body == bodies[c]
           log == Unmarshal(body)
           ok == body.json /\ ~body.mistyped /\ \A k \in DockerKeys : log[k] # NoText
           new == IF ok THEN [bodies EXCEPT ![c] = [unpacked |-> log]] ELSE bodies
<1>1. /\ r \in DOMAIN batch /\ c \in DOMAIN bodies /\ record = c /\ record' = c + 1
      /\ dockerLog' = log /\ resource = r /\ UNCHANGED <<resource, given>>
      /\ batch' = IF ok THEN [batch EXCEPT ![r].bodies[c] = [unpacked |-> log]] ELSE batch
  BY <1>0, ListingDomain DEF UnpackRecord, SourceInv, Shaped
<1>2. /\ Shaped /\ Listing(batch) /\ Len(batch) \in Nat /\ DOMAIN batch = 1..Len(batch)
      /\ batch[r] = [atts |-> batch[r].atts, bodies |-> bodies]
      /\ Listing(bodies) /\ Len(bodies) \in Nat /\ DOMAIN bodies = 1..Len(bodies)
  BY <1>1, ListingDomain DEF SourceInv, Shaped
<1>3. batch' = [batch EXCEPT ![r] = [atts |-> batch[r].atts, bodies |-> new]]
  <2>1. CASE ok
    <3>1. [batch EXCEPT ![r].bodies[c] = [unpacked |-> log]] =
          [batch EXCEPT ![r] = [atts |-> batch[r].atts,
                                bodies |-> [batch[r].bodies EXCEPT ![c] = [unpacked |-> log]]]]
      <4> DEFINE e == [unpacked |-> log]
      <4>1. r \in DOMAIN batch /\ batch[r] = [atts |-> batch[r].atts, bodies |-> batch[r].bodies]
        BY <1>1, <1>2
      <4> HIDE DEF e
      <4>2. [batch EXCEPT ![r].bodies[c] = e] =
            [batch EXCEPT ![r] = [atts |-> batch[r].atts, bodies |-> [batch[r].bodies EXCEPT ![c] = e]]]
        <5> DEFINE nb == [batch[r].bodies EXCEPT ![c] = e]
        <5>1. [batch EXCEPT ![r].bodies[c] = e] = [batch EXCEPT ![r] = [batch[r] EXCEPT !.bodies = nb]]
          OBVIOUS
        <5>2. [batch[r] EXCEPT !.bodies = nb] = [atts |-> batch[r].atts, bodies |-> nb]
          <6> HIDE DEF nb
          <6> QED BY <4>1
        <5> QED BY <5>1, <5>2, Zenon
      <4> QED BY <4>2, Zenon DEF e
    <3>2. new = [batch[r].bodies EXCEPT ![c] = [unpacked |-> log]]
      <4> HIDE DEF log, ok
      <4> QED BY <2>1
    <3> HIDE DEF new, ok, log
    <3> QED BY <1>1, <2>1, <3>1, <3>2, Zenon
  <2>2. CASE ~ok
    <3>1. new = bodies
      <4> HIDE DEF bodies, ok
      <4> QED BY <2>2
    <3>2. batch = [batch EXCEPT ![r] = batch[r]]
      BY <1>2 DEF Listing
    <3> HIDE DEF new, ok, bodies
    <3> QED BY <1>1, <1>2, <2>2, <3>1, <3>2, Zenon
  <2> HIDE DEF ok
  <2> QED BY <2>1, <2>2
<1>4. Listing(batch') /\ Len(batch') = Len(batch) /\ DOMAIN batch' = DOMAIN batch
  <2> DEFINE res == [atts |-> batch[r].atts, bodies |-> new]
  <2>1. batch' = [batch EXCEPT ![r] = res]
    BY <1>3
  <2>2. Listing(batch) /\ r \in DOMAIN batch
    BY <1>1, <1>2
  <2> HIDE DEF res
  <2> QED BY <2>1, <2>2, ListingUpdate, Zenon
<1>5. Listing(new) /\ Len(new) = Len(bodies) /\ DOMAIN new = DOMAIN bodies
  <2> HIDE DEF bodies, log, ok
  <2> QED BY <1>1, <1>2, ListingUpdate, Zenon
<1>6. /\ new # <<>> /\ bodies # <<>>
      /\ \A j \in DOMAIN bodies : j # c => new[j] = bodies[j]
      /\ new[c] = IF ok THEN [unpacked |-> log] ELSE body
  <2>1. new # <<>> /\ bodies # <<>>
    <3> HIDE DEF new, bodies
    <3> QED BY <1>1, <1>2, <1>5
  <2> HIDE DEF log, bodies, ok
  <2>2. /\ \A j \in DOMAIN bodies : j # c => new[j] = bodies[j]
        /\ new[c] = IF ok THEN [unpacked |-> log] ELSE bodies[c]
    BY <1>1
  <2> QED BY <2>1, <2>2, Zenon
<1> HIDE DEF new, ok, log
<1>7. /\ batch'[r] = [atts |-> batch[r].atts, bodies |-> new]
      /\ \A i \in DOMAIN batch : i # r => batch'[i] = batch[i]
  BY <1>1, <1>3, Zenon
<1>9. Shaped'
  <2>1. \A i \in DOMAIN batch' : /\ batch'[i] = [atts |-> batch'[i].atts, bodies |-> batch'[i].bodies]
                                 /\ Listing(batch'[i].bodies)
    BY <1>2, <1>4, <1>5, <1>7 DEF Shaped
  <2>2. \A i \in DOMAIN batch' :
          IF Filled(i)' THEN batch'[i].bodies = <<>> \/ Len(batch'[i].bodies) = Len(given[i].bodies)
          ELSE batch'[i] = given[i]
    <3> SUFFICES ASSUME NEW i \in DOMAIN batch
                 PROVE  IF Filled(i)' THEN batch'[i].bodies = <<>> \/ Len(batch'[i].bodies) = Len(given[i].bodies)
                        ELSE batch'[i] = given[i]
      BY <1>4
    <3>1. Filled(i)' = Filled(i)
      BY <1>1, <1>2 DEF Filled
    <3>2. Filled(r) /\ Len(new) = Len(given[r].bodies)
      BY <1>1, <1>2, <1>5, <1>6 DEF Shaped, Filled
    <3> QED BY <1>2, <1>7, <3>1, <3>2 DEF Shaped
  <2>3. \A j \in Nat : j > c /\ j \in DOMAIN batch'[r].bodies => batch'[r].bodies[j] = given[r].bodies[j]
    <3>1. \A j \in Nat : j >= c /\ j \in DOMAIN bodies => bodies[j] = given[r].bodies[j]
      BY <1>1, <1>2 DEF Shaped
    <3>2. batch'[r].bodies = new
      BY <1>7
    <3> SUFFICES ASSUME NEW j \in Nat, j > c, j \in DOMAIN new PROVE new[j] = given[r].bodies[j]
      BY <3>2
    <3>3. c \in Nat
      BY <1>1, <1>2
    <3>4. j \in DOMAIN bodies /\ j # c /\ j >= c
      BY <1>5, <3>3
    <3>5. new[j] = bodies[j]
      BY <1>6, <3>4, Zenon
    <3> QED BY <3>1, <3>4, <3>5, Zenon
  <2>4. c \in Nat /\ c <= Len(bodies) /\ r \in Nat \ {0} /\ r <= Len(batch)
    BY <1>1, <1>2 DEF Shaped
  <2>5. batch'[r].bodies = new
    BY <1>7
  <2>6. record' = c + 1 /\ resource' = r /\ given' = given /\ given \in Batches /\ Len(batch) = Len(given)
    BY <1>1, <1>2 DEF Shaped
  <2> HIDE DEF bodies
  <2>7. resource' <= Len(batch') => record' <= Len(batch'[resource'].bodies) + 1
    BY <1>2, <1>5, <2>4, <2>5, <2>6
  <2>8. ~(resource' > Len(batch')) /\ resource' \in Nat \ {0} /\ record' \in Nat
    BY <1>2, <1>4, <2>4, <2>6
  <2>9. \A j \in Nat : j >= record' /\ j \in DOMAIN batch'[resource'].bodies
                      => batch'[resource'].bodies[j] = given'[resource'].bodies[j]
    BY <2>3, <2>4, <2>6
  <2> QED BY <1>4, <2>1, <2>2, <2>6, <2>7, <2>8, <2>9, Zenon DEF Shaped
<1>10. body = given[r].bodies[c]
  BY <1>1, <1>2 DEF Shaped
<1>11. Unpacks(body, new[c])
  <2>1. CASE ok
    <3>1. /\ new[c] = [unpacked |-> log] /\ body.json /\ ~body.mistyped
          /\ \A k \in DockerKeys \cap DOMAIN body.keys : log[k] = body.keys[k]
      <4>1. new[c] = [unpacked |-> log] /\ body.json /\ ~body.mistyped
        BY <1>6, <2>1, Zenon DEF ok
      <4> HIDE DEF body
      <4> QED BY <4>1 DEF log, Unmarshal
    <3> HIDE DEF body
    <3> QED BY <3>1 DEF Unpacks
  <2>2. CASE ~ok
    <3>1. ~Complete(body)
      <4> HIDE DEF body
      <4> QED BY <2>2 DEF Complete, ok, log, Unmarshal
    <3> QED BY <1>6, <2>2, <3>1, Zenon DEF Unpacks
  <2> QED BY <2>1, <2>2
<1>13. Done'
  <2> SUFFICES ASSUME NEW i \in DOMAIN batch, NEW j \in DOMAIN batch'[i].bodies,
                      i < r \/ (i = r /\ j < c + 1)
               PROVE  Unpacks(given[i].bodies[j], batch'[i].bodies[j])
    BY <1>1, <1>4 DEF Done, Unpacks, Complete
  <2>1. DOMAIN batch'[i].bodies = DOMAIN batch[i].bodies /\ j \in Nat
    BY <1>2, <1>5, <1>7, ListingDomain DEF Shaped
  <2>2. CASE i = r /\ j = c
    BY <1>7, <1>10, <1>11, <2>2
  <2>3. CASE ~(i = r /\ j = c)
    <3>1. batch'[i].bodies[j] = batch[i].bodies[j]
      BY <1>6, <1>7, <2>1, <2>3
    <3>2. Unpacks(given[i].bodies[j], batch[i].bodies[j])
      BY <1>1, <1>2, <2>1, <2>3 DEF SourceInv, Done, Shaped
    <3> QED BY <3>1, <3>2
  <2> QED BY <2>2, <2>3
<1> QED BY <1>9, <1>13 DEF SourceInv

\* The next resource begins after all records of this one.
LEMMA NextStep == ASSUME SourceInv, NextResource PROVE SourceInv'
<1>0. PICK r : r = resource
  OBVIOUS
<1>1. /\ r \in DOMAIN batch /\ r \in Nat \ {0} /\ resource = r /\ resource' = r + 1 /\ record' = 0
      /\ record = Len(batch[r].bodies) + 1 /\ UNCHANGED <<batch, dockerLog, given>>
  BY <1>0, ListingDomain DEF NextResource, SourceInv, Shaped
<1>2. /\ Shaped /\ Len(batch) \in Nat /\ DOMAIN batch = 1..Len(batch)
      /\ Len(batch[r].bodies) \in Nat /\ DOMAIN batch[r].bodies = 1..Len(batch[r].bodies)
  BY <1>1, ListingDomain DEF SourceInv, Shaped
<1>3. \A i \in DOMAIN batch : Filled(i)' = Filled(i)
  BY <1>1, <1>2 DEF Filled
<1>4. Shaped'
  BY <1>1, <1>2, <1>3 DEF Shaped
<1>6. Done'
  BY <1>1, <1>2, <1>4, ListingDomain DEF SourceInv, Done, Shaped, Unpacks, Complete
<1> QED BY <1>4, <1>6 DEF SourceInv

\* ProcessLogs unpacks complete records with their own values and nothing that is no
\* JSON, for any batch and configuration.
THEOREM UnpackedFromRecords == SourceSpec => []RecordsUnpacked
<1>1. SourceInv /\ [SourceNext]_sourceVars => SourceInv'
  <2> SUFFICES ASSUME SourceInv, [SourceNext]_sourceVars PROVE SourceInv'
    OBVIOUS
  <2>1. CASE SourceNext
    BY <2>1, ProcessStep, UnpackStep, NextStep, Zenon DEF SourceNext
  <2>2. CASE UNCHANGED sourceVars
    <3>1. UNCHANGED <<batch, resource, record, dockerLog, given>>
      BY <2>2 DEF sourceVars
    <3>2. Shaped'
      BY <3>1 DEF SourceInv, Shaped, Filled
    <3>3. Done'
      BY <3>1 DEF SourceInv, Done, Unpacks, Complete
    <3> QED BY <3>2, <3>3 DEF SourceInv
  <2> QED BY <2>1, <2>2
<1>2. SourceInv => RecordsUnpacked
  <2> SUFFICES ASSUME SourceInv, NEW i \in 1..(resource - 1), NEW j \in DOMAIN batch[i].bodies
               PROVE  Unpacks(given[i].bodies[j], batch[i].bodies[j])
    BY DEF RecordsUnpacked
  <2>1. i \in DOMAIN batch /\ i < resource
    BY ListingDomain DEF SourceInv, Shaped
  <2> QED BY <2>1 DEF SourceInv, Done
<1> QED BY InitSource, <1>1, <1>2, PTL DEF SourceSpec

-----------------------------------------------------------------------------
(* PolicyRules: RuleBudget and BestDecisionWins. *)

RuleDecisions == {"Pending", "NotSampled", "SecondChance", "Sampled"}

RulesTypeOK ==
  /\ clock \in 1..MaxSecond /\ currSecond \in 0..clock
  /\ rate \in [Rules -> [second : Nat, spans : Nat]]
  /\ spanCount \in Nat
  /\ used \in [Rules -> [0..MaxSecond -> Nat]]

\* What a rule has counted in its second is what it sampled in that second, no
\* second is ahead of the one last read, and later ones are untouched.
Counted ==
  \A r \in Rules :
    /\ rate[r].second <= currSecond
    /\ used[r][rate[r].second] = rate[r].spans
    /\ \A t \in 0..MaxSecond : rate[r].second < t => used[r][t] = 0

BudgetInv == RulesTypeOK /\ Counted /\ RuleBudget

\* Rules from idx on were not asked; those before it did not sample the trace,
\* and the provisional decision is the best of theirs.
Asked ==
  /\ idx \in Rules
  /\ \A q \in Rules : q >= idx => decisions[q] = "Pending"
  /\ \A q \in Rules : q < idx => decisions[q] \in {"NotSampled", "SecondChance"}
  /\ (\E q \in Rules : decisions[q] = "SecondChance") => provisional = "SecondChance"
  /\ (\A q \in Rules : decisions[q] # "SecondChance") =>
        provisional = IF idx = 1 THEN "Unspecified" ELSE "NotSampled"
  /\ filterName = 0 => provisional # "SecondChance"
  /\ filterName # 0 => filterName \in Rules /\ decisions[filterName] = "SecondChance"

JudgedInv ==
  /\ decisions \in [Rules -> RuleDecisions]
  /\ step \in {"idle", "consider", "rules", "done"}
  /\ step \in {"consider", "rules"} => Asked
  /\ BestDecisionWins

-----------------------------------------------------------------------------
(* The budgets of the rules. *)

\* Rules are numbered from 1.
LEMMA RuleNumbers == Len(AcceptRules) \in Nat /\ Rules = 1..Len(AcceptRules)
BY RulesAssumption DEF Rules

\* What the configuration says of a rule.
LEMMA RuleSettings ==
  ASSUME NEW r \in Rules
  PROVE  AcceptRules[r].spansPerSecond \in Int /\ (AcceptRules[r].probabilistic => r = 1)
BY RulesAssumption, Zenon DEF Rules

\* Nothing was sampled yet.
LEMMA InitBudget == RulesInit => BudgetInv
<1> SUFFICES ASSUME RulesInit PROVE BudgetInv
  OBVIOUS
<1>1. RulesTypeOK
  BY RulesAssumption DEF RulesInit, RulesTypeOK
<1>2. Counted /\ RuleBudget
  BY RulesAssumption DEF RulesInit, Counted, RuleBudget
<1> QED BY <1>1, <1>2 DEF BudgetInv

\* updateRate: a trace is charged in the second that was read, which is the
\* rule's or a later one.
LEMMA UpdateRateBudget ==
  ASSUME BudgetInv, NEW r \in Rules, AcceptRules[r].spansPerSecond >= 0, UpdateRate(r),
         UNCHANGED <<clock, spanCount, currSecond>>
  PROVE  BudgetInv'
<1> DEFINE spans == IF rate[r].second # currSecond THEN 0 ELSE rate[r].spans
           max == AcceptRules[r].spansPerSecond
           fits == spans + spanCount <= max
           left == IF fits THEN spans + spanCount ELSE spans
<1>0. max \in Int /\ MaxSecond \in Nat
  BY RuleSettings, RulesAssumption, Zenon
<1>1. /\ currSecond \in 0..MaxSecond /\ rate[r] \in [second : Nat, spans : Nat]
      /\ spanCount \in Nat /\ used[r] \in [0..MaxSecond -> Nat]
  BY <1>0 DEF BudgetInv, RulesTypeOK
<1>2. spans \in Nat /\ used[r][currSecond] = spans
  BY <1>1 DEF BudgetInv, Counted
<1>3. rate' = [rate EXCEPT ![r] = [second |-> currSecond, spans |-> left]]
  BY Zenon DEF UpdateRate
<1>4. used' = IF fits THEN [used EXCEPT ![r][currSecond] = @ + spanCount] ELSE used
  BY Zenon DEF UpdateRate
<1> HIDE DEF spans, max
<1>5. left \in Nat
  BY <1>1, <1>2
<1>6. /\ used'[r] = [used[r] EXCEPT ![currSecond] = left]
      /\ \A q \in Rules : q # r => used'[q] = used[q]
      /\ used' \in [Rules -> [0..MaxSecond -> Nat]]
  <2>1. CASE fits
    BY <1>1, <1>2, <1>4, <2>1 DEF BudgetInv, RulesTypeOK
  <2>2. CASE ~fits
    BY <1>1, <1>2, <1>4, <2>2, Zenon DEF BudgetInv, RulesTypeOK
  <2> QED BY <2>1, <2>2, Zenon
<1>7. used'[r][currSecond] = left
  BY <1>1, <1>6, Zenon
<1>8. \A q \in Rules, t \in 0..MaxSecond : q # r \/ t # currSecond => used'[q][t] = used[q][t]
  BY <1>1, <1>6, Zenon
<1> HIDE DEF left
<1>9. /\ rate'[r] = [second |-> currSecond, spans |-> left]
      /\ \A q \in Rules : q # r => rate'[q] = rate[q]
      /\ rate' \in [Rules -> [second : Nat, spans : Nat]]
  BY <1>1, <1>3, <1>5 DEF BudgetInv, RulesTypeOK
<1>10. RulesTypeOK'
  BY <1>6, <1>9, Zenon DEF BudgetInv, RulesTypeOK
<1>11. Counted'
  <2> SUFFICES ASSUME NEW q \in Rules
               PROVE  /\ rate'[q].second <= currSecond
                      /\ used'[q][rate'[q].second] = rate'[q].spans
                      /\ \A t \in 0..MaxSecond : rate'[q].second < t => used'[q][t] = 0
    BY Zenon DEF Counted
  <2>1. CASE q = r
    BY <2>1, <1>1, <1>7, <1>8, <1>9 DEF BudgetInv, Counted
  <2>2. CASE q # r
    <3>1. rate[q].second \in 0..MaxSecond
      BY <1>0, <1>1 DEF BudgetInv, Counted, RulesTypeOK
    <3> QED BY <3>1, <2>2, <1>8, <1>9 DEF BudgetInv, Counted
  <2> QED BY <2>1, <2>2, Zenon
<1>12. RuleBudget'
  <2>1. left <= max
    BY <1>0, <1>1, <1>2, Zenon DEF left, BudgetInv, RuleBudget, max
  <2>2. used'[r][currSecond] <= max
    BY <2>1, <1>7
  <2> QED BY <2>2, <1>1, <1>8, Zenon DEF BudgetInv, RuleBudget, max
<1> QED BY <1>10, <1>11, <1>12 DEF BudgetInv

\* No other step charges a rule, and the second that is read is never an earlier one.
LEMMA OtherBudget ==
  ASSUME BudgetInv, UNCHANGED <<rate, used>>,
         clock' \in clock..MaxSecond, currSecond' \in currSecond..clock', spanCount' \in Nat
  PROVE  BudgetInv'
<1>1. RulesTypeOK'
  BY RulesAssumption DEF BudgetInv, RulesTypeOK
<1>2. \A r \in Rules : rate[r].second \in Nat
  BY Zenon DEF BudgetInv, RulesTypeOK
<1>3. Counted'
  BY <1>2, RulesAssumption DEF BudgetInv, RulesTypeOK, Counted
<1> QED BY <1>1, <1>3 DEF BudgetInv, RuleBudget

\* Only updateRate of the rule at hand charges a rule.
LEMMA NextBudget ==
  BudgetInv /\ (step = "rules" => idx \in Rules) /\ [RulesNext]_rulesVars => BudgetInv'
<1> SUFFICES ASSUME BudgetInv, step = "rules" => idx \in Rules, [RulesNext]_rulesVars PROVE BudgetInv'
  OBVIOUS
<1>0. clock \in 1..MaxSecond /\ currSecond \in 0..clock /\ spanCount \in Nat
  BY DEF BudgetInv, RulesTypeOK
<1> USE RulesAssumption
<1>1. ASSUME NEW t \in Traces, Begin(t) PROVE BudgetInv'
  BY <1>0, <1>1, OtherBudget DEF Begin
<1>2. ASSUME Consider PROVE BudgetInv'
  BY <1>0, <1>2, OtherBudget DEF Consider
<1>3. ASSUME Evaluate PROVE BudgetInv'
  BY <1>0, <1>3, OtherBudget, UpdateRateBudget DEF Evaluate
<1>4. ASSUME CountSpan PROVE BudgetInv'
  BY <1>0, <1>4, OtherBudget DEF CountSpan
<1>5. ASSUME ClockTick PROVE BudgetInv'
  BY <1>0, <1>5, OtherBudget DEF ClockTick
<1>6. ASSUME UNCHANGED rulesVars PROVE BudgetInv'
  BY <1>0, <1>6, OtherBudget DEF rulesVars
<1> QED BY <1>1, <1>2, <1>3, <1>4, <1>5, <1>6, Zenon DEF RulesNext

-----------------------------------------------------------------------------
(* The provisional decision. *)

\* Before the first trace there is no decision.
LEMMA InitJudged == RulesInit => JudgedInv
BY DEF RulesInit, JudgedInv, RuleDecisions, BestDecisionWins

\* A new trace was shown to no rule.
LEMMA BeginJudged == ASSUME JudgedInv, NEW t \in Traces, Begin(t) PROVE JudgedInv'
<1>1. /\ decisions' = [r \in Rules |-> "Pending"] /\ filterName' = 0
      /\ provisional' = IF ShouldDrop(t) THEN "Dropped"
                        ELSE IF AcceptRules = <<>> THEN "Sampled" ELSE "Unspecified"
      /\ step' = IF provisional' = "Unspecified" THEN "consider" ELSE "done"
      /\ idx' = IF provisional' = "Unspecified" THEN 1 ELSE 0
  BY Zenon DEF Begin
<1>2. CASE provisional' = "Unspecified"
  BY <1>1, <1>2, RuleNumbers, RulesAssumption DEF Asked, JudgedInv, RuleDecisions, BestDecisionWins
<1>3. CASE provisional' # "Unspecified"
  BY <1>1, <1>3, Zenon DEF JudgedInv, RuleDecisions, BestDecisionWins
<1> QED BY <1>2, <1>3

\* makeProvisionalDecision with the decision d of the rule at hand.
LEMMA TookJudged ==
  ASSUME decisions \in [Rules -> RuleDecisions], Asked,
         NEW d \in {"NotSampled", "SecondChance", "Sampled"}, Took(idx, d)
  PROVE  JudgedInv'
<1>1. /\ decisions' = [decisions EXCEPT ![idx] = d]
      /\ provisional' = IF d # "NotSampled" THEN d
                        ELSE IF provisional = "Unspecified" THEN "NotSampled" ELSE provisional
      /\ filterName' = IF d = "NotSampled" \/ (d = "Sampled" /\ AcceptRules[idx].probabilistic)
                       THEN filterName ELSE idx
      /\ step' = IF d = "Sampled" \/ idx = Len(AcceptRules) THEN "done" ELSE "consider"
      /\ idx' = IF step' = "done" THEN 0 ELSE idx + 1
  BY Zenon DEF Took
<1>2. idx \in Rules /\ idx \in Nat /\ Rules \subseteq Nat \ {0} /\ Len(AcceptRules) \in Nat
  BY RuleNumbers DEF Asked
<1>3. /\ decisions' \in [Rules -> RuleDecisions] /\ decisions'[idx] = d
      /\ \A q \in Rules : q # idx => decisions'[q] = decisions[q]
  BY <1>1, <1>2, Zenon DEF RuleDecisions
<1>4. /\ \A q \in Rules : q > idx => decisions[q] = "Pending"
      /\ \A q \in Rules : q < idx => decisions[q] \in {"NotSampled", "SecondChance"}
      /\ \A q \in Rules : q < idx \/ q = idx \/ q > idx
      /\ decisions[idx] = "Pending"
  BY <1>2 DEF Asked
<1>5. CASE d = "Sampled"
  <2>1. step' = "done" /\ provisional' = "Sampled"
    BY <1>1, <1>5
  <2>2. \A q \in Rules : decisions'[q] = "Sampled" <=> q = idx
    BY <1>3, <1>4, <1>5
  <2>3. \A q \in Rules : q > idx => decisions'[q] = "Pending"
    BY <1>2, <1>3, <1>4
  <2>4. filterName' # 0 => decisions'[filterName'] = "Sampled"
    <3>1. CASE AcceptRules[idx].probabilistic
      <4>1. idx = 1
        BY <3>1, <1>2, RuleSettings
      <4>2. \A q \in Rules : decisions[q] = "Pending"
        BY <4>1, <1>2 DEF Asked
      <4>3. filterName = 0
        BY <4>2, Zenon DEF Asked
      <4> QED BY <4>3, <3>1, <1>1, <1>5
    <3>2. CASE ~AcceptRules[idx].probabilistic
      BY <3>2, <1>1, <1>3, <1>5, Zenon
    <3> QED BY <3>1, <3>2
  <2>5. filterName' = 0 => AcceptRules[idx].probabilistic
    BY <1>1, <1>2, <1>5, Zenon
  <2>6. BestDecisionWins'
    BY <2>1, <2>2, <2>3, <2>4, <2>5, <1>2, Zenon DEF BestDecisionWins
  <2> QED BY <2>1, <2>6, <1>3 DEF JudgedInv
<1>6. CASE d # "Sampled"
  <2>1. \A q \in Rules : decisions'[q] # "Sampled"
    BY <1>3, <1>4, <1>6
  <2>2. (\E q \in Rules : decisions'[q] = "SecondChance") => provisional' = "SecondChance"
    BY <1>1, <1>3, <1>4, <1>6, Zenon DEF Asked
  <2>3. (\A q \in Rules : decisions'[q] # "SecondChance") => provisional' = "NotSampled"
    <3> SUFFICES ASSUME \A q \in Rules : decisions'[q] # "SecondChance"
                 PROVE  provisional' = "NotSampled"
      OBVIOUS
    <3>1. d = "NotSampled" /\ \A q \in Rules : decisions[q] # "SecondChance"
      BY <1>3, <1>4, <1>2, <1>6, Zenon
    <3>2. provisional \in {"Unspecified", "NotSampled"}
      BY <3>1 DEF Asked
    <3> QED BY <3>1, <3>2, <1>1
  <2>4. filterName' = 0 => provisional' # "SecondChance"
    BY <1>1, <1>2, <1>6, Zenon DEF Asked
  <2>5. filterName' # 0 => filterName' \in Rules /\ decisions'[filterName'] = "SecondChance"
    <3>1. CASE d = "NotSampled"
      BY <3>1, <1>1, <1>3, <1>4, Zenon DEF Asked
    <3>2. CASE d = "SecondChance"
      BY <3>2, <1>1, <1>3, <1>2, Zenon
    <3> QED BY <3>1, <3>2, <1>6
  <2>6. CASE idx = Len(AcceptRules)
    <3>1. step' = "done"
      BY <1>1, <2>6, Zenon
    <3>2. \A q \in Rules : decisions'[q] # "SecondChance" => decisions'[q] # provisional' \/ provisional' # "SecondChance"
      OBVIOUS
    <3>3. BestDecisionWins'
      <4>1. CASE \E q \in Rules : decisions'[q] = "SecondChance"
        BY <4>1, <2>1, <2>2, <2>4, <2>5, Zenon DEF BestDecisionWins
      <4>2. CASE \A q \in Rules : decisions'[q] # "SecondChance"
        BY <4>2, <2>1, <2>3, <2>5, Zenon DEF BestDecisionWins
      <4> QED BY <4>1, <4>2
    <3> QED BY <3>1, <3>3, <1>3 DEF JudgedInv
  <2>7. CASE idx # Len(AcceptRules)
    <3>1. step' = "consider" /\ idx' = idx + 1
      BY <1>1, <1>6, <2>7, Zenon
    <3>2. idx + 1 \in Rules /\ idx + 1 # 1
      BY <2>7, <1>2, RuleNumbers
    <3>3. \A q \in Rules : q >= idx + 1 => decisions'[q] = "Pending"
      BY <1>2, <1>3, <1>4
    <3>4. \A q \in Rules : q < idx + 1 => q < idx \/ q = idx
      BY <1>2
    <3>5. \A q \in Rules : q < idx + 1 => decisions'[q] \in {"NotSampled", "SecondChance"}
      BY <3>4, <1>2, <1>3, <1>4, <1>6, Zenon
    <3>6. Asked'
      BY <3>1, <3>2, <3>3, <3>5, <2>2, <2>3, <2>4, <2>5, Zenon DEF Asked
    <3>7. BestDecisionWins'
      BY <3>1, Zenon DEF BestDecisionWins
    <3> QED BY <3>1, <3>6, <3>7, <1>3 DEF JudgedInv
  <2> QED BY <2>6, <2>7
<1> QED BY <1>5, <1>6

\* Consider and Evaluate take a decision of the rule at hand or go on with it; the
\* clock and the consumers do not touch what was decided.
LEMMA NextJudged == JudgedInv /\ [RulesNext]_rulesVars => JudgedInv'
<1> SUFFICES ASSUME JudgedInv, [RulesNext]_rulesVars PROVE JudgedInv'
  OBVIOUS
<1>1. ASSUME NEW t \in Traces, Begin(t) PROVE JudgedInv'
  BY <1>1, BeginJudged, Zenon
<1>2. ASSUME Consider PROVE JudgedInv'
  BY <1>2, TookJudged DEF Consider, JudgedInv, Asked, BestDecisionWins
<1>3. ASSUME Evaluate PROVE JudgedInv'
  BY <1>3, TookJudged, Zenon DEF Evaluate, JudgedInv, UpdateRate
<1>4. ASSUME UNCHANGED <<decisions, step, idx, provisional, filterName>> PROVE JudgedInv'
  BY <1>4, Zenon DEF JudgedInv, Asked, BestDecisionWins
<1> QED BY <1>1, <1>2, <1>3, <1>4, Zenon DEF RulesNext, CountSpan, ClockTick, rulesVars

-----------------------------------------------------------------------------

\* In no second does a rule sample traces of more spans than its spans_per_second
\* (shouldConsider, updateRate), for any rules, whatever the clock and SpanCount do
\* in between.
THEOREM RulesKeepBudget == RulesSpec => []RuleBudget
<1>1. JudgedInv => (step = "rules" => idx \in Rules)
  BY Zenon DEF JudgedInv, Asked
<1>2. BudgetInv => RuleBudget
  BY DEF BudgetInv
<1> QED BY InitBudget, InitJudged, NextBudget, NextJudged, <1>1, <1>2, PTL DEF RulesSpec

\* makeProvisionalDecision takes the best decision of the rules, stops at the first
\* one that samples, and names a rule that gave this decision, for any rules with
\* the probabilistic filter, if there is one, in front.
THEOREM BestDecisionTaken == RulesSpec => []BestDecisionWins
<1>1. JudgedInv => BestDecisionWins
  BY DEF JudgedInv
<1> QED BY InitJudged, NextJudged, <1>1, PTL DEF RulesSpec

-----------------------------------------------------------------------------
(* MetricSieve: DroppedPointsRepresented. *)

\* A point is registered when it arrives, not before the time it was measured at.
SieveTypeOK ==
  /\ now \in Nat /\ point.ts \in Int /\ sent.ts \in Int /\ lastReported \in Int
  /\ \A c \in cache : c.ts \in Int /\ c.at \in Nat /\ c.ts <= c.at
  /\ orphan \in BOOLEAN /\ doubled \in BOOLEAN

\* A time stamp is cached once.
OncePerStamp == \A c, d \in cache : c.ts = d.ts => c = d

\* Between List and Register nothing that was listed changes: what Cleanup removes
\* had expired then, as the two are at the same time.
StillListed ==
  /\ orphan => sift = "set" /\ cache = {}
  /\ sift = "set" =>
       /\ point.ts <= now /\ now <= point.ts + MaxDelay
       /\ DOMAIN listed = {c.ts : c \in Live}
       /\ \A c \in Live : listed[c.ts] = c.value

\* The point last passed on is cached, unless the cache is empty.
SentCached ==
  lastReported # NoTime =>
    /\ sent.ts = lastReported
    /\ \/ cache = {} \/ doubled
       \/ \E c \in cache : c.ts = sent.ts /\ c.value = sent.value

SieveInv ==
  /\ SieveTypeOK /\ OncePerStamp /\ StillListed /\ SentCached
  /\ DroppedPointsRepresented

-----------------------------------------------------------------------------

\* Nothing was reported and nothing dropped.
LEMMA InitSieve == SieveInit => SieveInv
<1>1. NoTime \in Int
  BY DEF NoTime
<1> SUFFICES ASSUME SieveInit PROVE SieveInv
  OBVIOUS
<1>2. SieveTypeOK
  BY <1>1, Zenon DEF SieveInit, SieveTypeOK
<1>3. sift # "set" /\ sift \notin Dropped
  BY DEF SieveInit, Dropped
<1>4. OncePerStamp /\ StillListed /\ SentCached
  BY <1>3, Zenon DEF SieveInit, OncePerStamp, StillListed, SentCached
<1>5. DroppedPointsRepresented
  BY <1>3 DEF DroppedPointsRepresented
<1> QED BY <1>2, <1>4, <1>5 DEF SieveInv

\* What siftDataPoint knows of a point it does not report: points are cached, and
\* the last report is not too long ago.
LEMMA NotReported ==
  ASSUME NEW p, p.ts \in Int, NEW points, now \in Nat, p.ts <= now,
         Verdict(p, points) # "report"
  PROVE  /\ lastReported # NoTime
         /\ DOMAIN points # {}
         /\ ~PastCategoryFrequency(p, ConstantMetricsReportFrequency)
         /\ Verdict(p, points) = "constant" => IsConstant(p, WithPoint(points, p))
<1>1. /\ lastReported # NoTime
      /\ ~MetricRequiresSamples(p, Earliest(points))
      /\ ~PastCategoryFrequency(p, ConstantMetricsReportFrequency)
  BY DEF Verdict
<1>2. Verdict(p, points) = "constant" => IsConstant(p, WithPoint(points, p))
  BY <1>1 DEF Verdict
<1>3. ASSUME DOMAIN points = {} PROVE FALSE
  BY <1>1, <1>3, SieveAssumption DEF Earliest, MetricRequiresSamples
<1> QED BY <1>1, <1>2, <1>3, Zenon

\* A verdict is one of four.
LEMMA Verdicts ==
  ASSUME NEW p, NEW points
  PROVE  Verdict(p, points) \in {"report", "constant", "low", "early"}
BY DEF Verdict

\* List lists every point that has not expired under its own value.
LEMMA ListSieve ==
  ASSUME SieveInv, NEW d \in 0..MaxDelay, NEW v \in Values, now >= d,
         List([ts |-> now - d, value |-> v])
  PROVE  SieveInv'
<1> DEFINE p == [ts |-> now - d, value |-> v]
<1>1. /\ SieveTypeOK /\ OncePerStamp /\ StillListed /\ SentCached
      /\ sift # "set" /\ sift' = "set" /\ point' = p
      /\ UNCHANGED <<now, cache, lastReported, orphan, sent, doubled>>
      /\ listed' = [t \in {c.ts : c \in Live} |-> (CHOOSE c \in Live : c.ts = t).value]
  BY Zenon DEF SieveInv, List
<1>2. point'.ts \in Int /\ point'.ts <= now /\ now <= point'.ts + MaxDelay
  BY <1>1, SieveAssumption DEF SieveTypeOK
<1>3. Live' = Live /\ Live \subseteq cache
  BY <1>1, Zenon DEF Live
<1>4. SieveTypeOK' /\ OncePerStamp' /\ SentCached'
  BY <1>1, <1>2, Zenon DEF SieveTypeOK, OncePerStamp, SentCached
<1>5. ASSUME NEW c \in Live PROVE listed'[c.ts] = c.value
  <2> DEFINE e == CHOOSE x \in Live : x.ts = c.ts
  <2>1. e \in Live /\ e.ts = c.ts
    BY Zenon
  <2>2. e = c
    BY <2>1, <1>1, <1>3, Zenon DEF OncePerStamp
  <2>3. listed'[c.ts] = e.value
    BY <1>1, Zenon
  <2> QED BY <2>2, <2>3, Zenon
<1>6. ~orphan'
  BY <1>1, Zenon DEF StillListed
<1>7. DOMAIN listed' = {c.ts : c \in Live'}
  BY <1>1, <1>3, Zenon
<1>8. StillListed'
  BY <1>1, <1>2, <1>3, <1>5, <1>6, <1>7, Zenon DEF StillListed
<1>9. sift' \notin Dropped
  BY <1>1, Zenon DEF Dropped
<1> QED BY <1>4, <1>8, <1>9, Zenon DEF SieveInv, DroppedPointsRepresented

\* What Register and the verdict leave.  A point that is not reported finds the
\* one that was reported last among the points that were listed.
LEMMA RegisterSieve ==
  ASSUME SieveInv, RegisterAndJudge
  PROVE  SieveInv'
<1> DEFINE new == [ts |-> point.ts, value |-> point.value, at |-> now]
<1>1. /\ SieveTypeOK /\ OncePerStamp /\ StillListed /\ SentCached
      /\ cache' = IF orphan THEN cache ELSE {c \in cache : c.ts # point.ts} \cup {new}
      /\ doubled' = (doubled \/ \E c \in cache : c.ts = point.ts)
      /\ sift' = Verdict(point, listed)
      /\ listed' = <<>> /\ ~orphan' /\ now' = now /\ point' = point
  BY Zenon DEF SieveInv, RegisterAndJudge
<1>2. /\ sift' = "report" => lastReported' = point.ts /\ sent' = point
      /\ sift' # "report" => lastReported' = lastReported /\ sent' = sent
  BY Zenon DEF RegisterAndJudge
<1>3. /\ point.ts <= now /\ now <= point.ts + MaxDelay
      /\ DOMAIN listed = {c.ts : c \in Live}
      /\ \A c \in Live : listed[c.ts] = c.value
      /\ orphan => cache = {}
  BY <1>1, Zenon DEF StillListed, RegisterAndJudge
<1>4. new.ts = point.ts /\ new.value = point.value /\ new.at = now
  OBVIOUS
<1> HIDE DEF new
<1>5. doubled' \in BOOLEAN /\ orphan' \in BOOLEAN
  BY <1>1, Zenon DEF SieveTypeOK, RegisterAndJudge
<1>6. \A c \in cache' : c.ts \in Int /\ c.at \in Nat /\ c.ts <= c.at
  BY <1>1, <1>3, <1>4, Zenon DEF SieveTypeOK
<1>7. lastReported' \in Int /\ sent'.ts \in Int
  BY <1>1, <1>2, Zenon DEF SieveTypeOK
<1>8. SieveTypeOK'
  BY <1>1, <1>5, <1>6, <1>7, Zenon DEF SieveTypeOK
<1>9. OncePerStamp'
  BY <1>1, <1>4 DEF OncePerStamp
<1>10. sift' \in {"report", "constant", "low", "early"}
  BY <1>1, Verdicts
<1>11. sift' # "set"
  BY <1>10
<1>12. StillListed'
  BY <1>1, <1>11, Zenon DEF StillListed
<1>13. SentCached' /\ DroppedPointsRepresented'
  <2>1. CASE sift' = "report"
    <3>1. sift' \notin Dropped
      BY <2>1 DEF Dropped
    <3>2. cache' = {} \/ new \in cache'
      BY <1>1, <1>3, Zenon
    <3> QED BY <2>1, <3>1, <3>2, <1>2, <1>4, Zenon DEF SentCached, DroppedPointsRepresented
  <2>2. CASE sift' # "report"
    <3>1. /\ lastReported # NoTime /\ DOMAIN listed # {}
          /\ ~PastCategoryFrequency(point, ConstantMetricsReportFrequency)
          /\ sift' = "constant" => IsConstant(point, WithPoint(listed, point))
      BY <2>2, <1>1, <1>3, NotReported DEF SieveTypeOK
    <3>2. point.ts + SafetyInterval <= lastReported + ConstantMetricsReportFrequency
      BY <3>1, <1>1, SieveAssumption DEF PastCategoryFrequency, SieveTypeOK
    <3>3. point.ts < lastReported + ConstantMetricsReportFrequency
      BY <3>2, <1>1, SieveAssumption DEF SieveTypeOK
    <3>4. cache # {} /\ ~orphan /\ sent.ts = lastReported
      BY <3>1, <1>1, <1>3, Zenon DEF Live, SentCached
    <3>5. doubled \/ \E c \in cache : c.ts = sent.ts /\ c.value = sent.value
      BY <3>1, <3>4, <1>1, Zenon DEF SentCached
    <3>6. doubled' \/ \E c \in cache : c.ts = sent.ts /\ c.value = sent.value /\ c.ts # point.ts
      BY <3>5, <1>1, Zenon
    <3>7. SentCached'
      BY <3>4, <3>6, <1>1, <1>2, <2>2, Zenon DEF SentCached
    <3>8. ASSUME sift' = "constant", ~doubled' PROVE point.value = sent.value
      <4>1. PICK c \in cache : c.ts = sent.ts /\ c.value = sent.value /\ c.ts # point.ts
        BY <3>6, <3>8
      <4>2. now < c.at + DataPointExpirationTime
        BY <3>2, <3>4, <4>1, <1>1, <1>3, SieveAssumption DEF SieveTypeOK
      <4>3. c \in Live
        BY <4>2 DEF Live
      <4>4. c.ts \in DOMAIN listed /\ listed[c.ts] = sent.value
        BY <4>1, <4>3, <1>3, Zenon
      <4>5. WithPoint(listed, point)[c.ts] = point.value
        BY <3>1, <3>8, <4>4, Zenon DEF IsConstant, WithPoint
      <4> QED BY <4>1, <4>4, <4>5, Zenon DEF WithPoint
    <3> QED BY <3>3, <3>7, <3>8, <1>1, <1>2, <2>2, Zenon DEF DroppedPointsRepresented
  <2> QED BY <2>1, <2>2
<1> QED BY <1>8, <1>9, <1>12, <1>13 DEF SieveInv

\* The other steps register nothing.
LEMMA NextSieve ==
  ASSUME SieveInv, [SieveNext]_sieveVars
  PROVE  SieveInv'
<1>1. ASSUME NEW d \in 0..MaxDelay, NEW v \in Values, now >= d, List([ts |-> now - d, value |-> v])
      PROVE  SieveInv'
  BY <1>1, ListSieve, Zenon
<1>2. CASE RegisterAndJudge
  BY <1>2, RegisterSieve
<1>3. CASE PassNaN
  <2>1. sift' # "set" /\ sift' \notin Dropped
    BY <1>3 DEF PassNaN, Dropped
  <2>2. UNCHANGED <<now, cache, lastReported, point, orphan, sent, doubled>> /\ ~orphan
    BY <1>3 DEF PassNaN, SieveInv, StillListed
  <2> QED BY <2>1, <2>2 DEF SieveInv, SieveTypeOK, OncePerStamp, StillListed, SentCached,
             DroppedPointsRepresented
<1>4. CASE Cleanup
  <2>1. /\ Live = {} /\ Live' = {} /\ cache' = {} /\ orphan' = (sift = "set")
        /\ UNCHANGED <<now, lastReported, sift, point, listed, sent, doubled>>
    BY <1>4, Zenon DEF Cleanup, Live
  <2>2. StillListed'
    BY <2>1, Zenon DEF SieveInv, StillListed
  <2>3. SieveTypeOK' /\ OncePerStamp' /\ SentCached' /\ DroppedPointsRepresented'
    BY <2>1, Zenon DEF SieveInv, SieveTypeOK, OncePerStamp, SentCached, DroppedPointsRepresented
  <2> QED BY <2>2, <2>3 DEF SieveInv
<1>5. CASE Tick
  <2>1. /\ sift # "set" /\ now' = now + 1
        /\ UNCHANGED <<cache, lastReported, sift, point, listed, orphan, sent, doubled>>
    BY <1>5 DEF Tick
  <2>2. StillListed'
    BY <2>1, Zenon DEF SieveInv, StillListed
  <2>3. SieveTypeOK' /\ OncePerStamp' /\ SentCached' /\ DroppedPointsRepresented'
    BY <2>1 DEF SieveInv, SieveTypeOK, OncePerStamp, SentCached, DroppedPointsRepresented
  <2> QED BY <2>2, <2>3 DEF SieveInv
<1>6. CASE UNCHANGED sieveVars
  BY <1>6 DEF sieveVars, SieveInv, SieveTypeOK, OncePerStamp, StillListed, SentCached,
     DroppedPointsRepresented, Live
<1> QED BY <1>1, <1>2, <1>3, <1>4, <1>5, <1>6, Zenon DEF SieveNext

\* siftDataPoint drops a point only while one that was passed on stands for it, for
\* any values, any delays and any times of Cleanup.
THEOREM SieveRepresents == SieveSpec => []DroppedPointsRepresented
<1>1. SieveInit => SieveInv
  BY InitSieve
<1>2. SieveInv /\ [SieveNext]_sieveVars => SieveInv'
  BY NextSieve
<1>3. SieveInv => DroppedPointsRepresented
  BY DEF SieveInv
<1> QED BY <1>1, <1>2, <1>3, PTL DEF SieveSpec
=============================================================================
