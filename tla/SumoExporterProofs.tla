-------------------------- MODULE SumoExporterProofs --------------------------
(***************************************************************************)
(* AcknowledgedOrReturned, OnlyLostAnswersDouble and RequestsWellFormed    *)
(* for any number of pushes, any batches and any size of a request.        *)
(*                                                                         *)
(* The units of a push are in one place each: acknowledged, handed back,   *)
(* in the body, or still to be appended.  What is not acknowledged was     *)
(* never taken by the server, unless an answer was lost.                   *)
(***************************************************************************)
EXTENDS SumoExporter, TLAPS

Units == UNION {UNION {Range(b[p].units) : p \in Pushers} : b \in Loads}

\* No two units have one id.
Once(units) == \A i, j \in DOMAIN units : units[i].id = units[j].id => i = j

Ours(units) == IdsOf(Range(units))
FilledIds(units) == IdsOf(Filled(units))
IfFilled(u) == IF u.len > 0 THEN {u.id} ELSE {}

ExporterTypeOK ==
  /\ rest \in [Pushers -> Seq(Units)] /\ current \in [Pushers -> Seq(Units)]
  /\ dropped \in [Pushers -> Seq(Units)] /\ pushed \in [Pushers -> Seq(Units)]
  /\ body \in [Pushers -> Nat] /\ DOMAIN at = Pushers /\ DOMAIN ppc = Pushers
  /\ acked \in [Pushers -> SUBSET Ids]
  /\ taken \in [Ids -> Nat]

\* Where the units of a push are.
InOnePlace(p) ==
  /\ Once(rest[p]) /\ Once(current[p]) /\ Once(dropped[p])
  /\ Ours(rest[p]) \cap Ours(current[p]) = {}
  /\ Ours(rest[p]) \cap Ours(dropped[p]) = {}
  /\ Ours(current[p]) \cap Ours(dropped[p]) = {}
  /\ acked[p] \cap (Ours(rest[p]) \cup Ours(current[p]) \cup Ours(dropped[p])) = {}

\* All of them are somewhere, and none comes from elsewhere.
Kept(p) ==
  /\ FilledIds(pushed[p]) \subseteq
       acked[p] \cup FilledIds(rest[p]) \cup FilledIds(current[p]) \cup FilledIds(dropped[p])
  /\ acked[p] \cup Ours(rest[p]) \cup Ours(current[p]) \cup Ours(dropped[p])
       \subseteq Ours(pushed[p])

\* Where a push is when all has been sent or handed back.
Configuring == {"configure", "seturls", "toclient", "setclient"}

\* What the body holds.
BodyOf(p) ==
  /\ at[p] = 0 => current[p] = <<>>
  /\ ppc[p] \in Configuring => at[p] = 0 /\ rest[p] = <<>>
  /\ \A u \in Range(current[p]) : u.len \in Nat /\ u.len <= body[p]
  /\ \A u \in Filled(current[p]) : u.group = at[p]
  /\ \A u, v \in Filled(current[p]) : u # v => body[p] <= MaxRequestBodySize

Untaken(i) == i \in unsure \/ taken[i] = 0

\* What may be pushed again was not taken for sure.
NotTaken(p) == \A i \in Ours(rest[p]) \cup Ours(current[p]) \cup Ours(dropped[p]) : Untaken(i)

OwnUnits == \A p, q \in Pushers : p # q => Ours(pushed[p]) \cap Ours(pushed[q]) = {}

ExporterInv ==
  /\ ExporterTypeOK /\ OwnUnits
  /\ \A p \in Pushers : InOnePlace(p) /\ Kept(p) /\ BodyOf(p) /\ NotTaken(p)
  /\ OnlyLostAnswersDouble

-----------------------------------------------------------------------------
(* Sequences of units                                                      *)

\* What the batches are made of.
LEMMA UnitFacts ==
  \A u \in Units : u.id \in Ids /\ u.len \in Nat \cup {BadLine} /\ u.group # 0 /\ (u.lines = 0 => u.len = 0)
<1> SUFFICES ASSUME NEW u \in Units
             PROVE  u.id \in Ids /\ u.len \in Nat \cup {BadLine} /\ u.group # 0 /\ (u.lines = 0 => u.len = 0)
  OBVIOUS
<1>1. PICK b \in Loads, p \in Pushers : u \in Range(b[p].units)
  BY DEF Units
<1>2. PICK i \in DOMAIN b[p].units : u = b[p].units[i]
  BY <1>1, Zenon DEF Range
<1>3. u.id \in Ids
  BY <1>2 DEF Ids
<1> QED BY <1>2, <1>3, LoadsAssumption, Zenon

LEMMA AppendUnits ==
  ASSUME NEW s \in Seq(Units), NEW u \in Units
  PROVE  /\ Append(s, u) \in Seq(Units)
         /\ Range(Append(s, u)) = Range(s) \cup {u}
         /\ Ours(Append(s, u)) = Ours(s) \cup {u.id}
         /\ FilledIds(Append(s, u)) = FilledIds(s) \cup IfFilled(u)
         /\ Once(s) /\ u.id \notin Ours(s) => Once(Append(s, u))
<1>2. /\ \A i \in 1..Len(s) : Append(s, u)[i] = s[i]
      /\ Append(s, u)[Len(s) + 1] = u
  OBVIOUS
<1>3. Range(Append(s, u)) = Range(s) \cup {u}
  BY <1>2 DEF Range
<1>4. ASSUME Once(s), u.id \notin Ours(s) PROVE Once(Append(s, u))
  BY <1>4 DEF Ours, IdsOf, Range, Once
<1>5. FilledIds(Append(s, u)) = FilledIds(s) \cup IfFilled(u)
  BY <1>3 DEF FilledIds, IfFilled, IdsOf, Filled
<1> QED BY <1>3, <1>4, <1>5 DEF Ours, IdsOf

LEMMA JoinUnits ==
  ASSUME NEW s \in Seq(Units), NEW t \in Seq(Units)
  PROVE  /\ s \o t \in Seq(Units)
         /\ Range(s \o t) = Range(s) \cup Range(t)
         /\ Ours(s \o t) = Ours(s) \cup Ours(t)
         /\ FilledIds(s \o t) = FilledIds(s) \cup FilledIds(t)
         /\ Once(s) /\ Once(t) /\ Ours(s) \cap Ours(t) = {} => Once(s \o t)
<1>2. \A i \in 1..(Len(s) + Len(t)) : (s \o t)[i] = IF i <= Len(s) THEN s[i] ELSE t[i - Len(s)]
  OBVIOUS
<1>3. Range(s \o t) = Range(s) \cup Range(t)
  <2>4. Range(s) \subseteq Range(s \o t)
    BY DEF Range
  <2>5. Range(t) \subseteq Range(s \o t)
    <3> SUFFICES ASSUME NEW i \in DOMAIN t PROVE t[i] \in Range(s \o t)
      BY Zenon DEF Range
    <3> DEFINE k == Len(s) + i
    <3>1. k \in DOMAIN (s \o t) /\ (s \o t)[k] = t[i]
      OBVIOUS
    <3> HIDE DEF k
    <3> QED BY <3>1, Zenon DEF Range
  <2>6. Range(s \o t) \subseteq Range(s) \cup Range(t)
    BY DEF Range
  <2> QED BY <2>4, <2>5, <2>6
<1>4. ASSUME Once(s), Once(t), Ours(s) \cap Ours(t) = {} PROVE Once(s \o t)
  <2>1. \A i \in 1..Len(s), j \in 1..Len(t) : s[i].id # t[j].id
    BY <1>4 DEF Ours, IdsOf, Range
  <2> SUFFICES ASSUME NEW i \in DOMAIN (s \o t), NEW j \in DOMAIN (s \o t),
                      (s \o t)[i].id = (s \o t)[j].id
               PROVE  i = j
    BY Zenon DEF Once
  <2>2. CASE i <= Len(s) /\ j <= Len(s)
    BY <2>2, <1>4 DEF Once
  <2>3. CASE i > Len(s) /\ j > Len(s)
    BY <1>4, <2>3 DEF Once
  <2>4. CASE i <= Len(s) /\ j > Len(s)
    BY <1>2, <2>1, <2>4
  <2>5. CASE i > Len(s) /\ j <= Len(s)
    BY <1>2, <2>1, <2>5
  <2> QED BY <2>2, <2>3, <2>4, <2>5
<1>5. FilledIds(s \o t) = FilledIds(s) \cup FilledIds(t)
  BY <1>3 DEF FilledIds, IdsOf, Filled
<1> QED BY <1>3, <1>4, <1>5 DEF Ours, IdsOf

LEMMA NextUnit ==
  ASSUME NEW s \in Seq(Units), s # <<>>
  PROVE  /\ Head(s) \in Units /\ Tail(s) \in Seq(Units)
         /\ Ours(s) = Ours(Tail(s)) \cup {Head(s).id}
         /\ FilledIds(s) = FilledIds(Tail(s)) \cup IfFilled(Head(s))
         /\ Once(s) => Once(Tail(s)) /\ Head(s).id \notin Ours(Tail(s))
<1>2. Range(s) = Range(Tail(s)) \cup {Head(s)}
  <2>1. \A i \in DOMAIN s : s[i] \in Range(Tail(s)) \cup {Head(s)}
    <3> SUFFICES ASSUME NEW i \in DOMAIN s, i # 1 PROVE s[i] \in Range(Tail(s))
      OBVIOUS
    <3>2. Tail(s)[i - 1] = s[i] /\ i - 1 \in DOMAIN Tail(s)
      OBVIOUS
    <3> QED BY <3>2, Zenon DEF Range
  <2> QED BY <2>1 DEF Range
<1>3. ASSUME Once(s) PROVE Once(Tail(s)) /\ Head(s).id \notin Ours(Tail(s))
  <2>1. \A i \in DOMAIN Tail(s) : Tail(s)[i] = s[i + 1] /\ i + 1 \in DOMAIN s /\ i \in Nat /\ i # 0
    OBVIOUS
  <2>2. Once(Tail(s))
    BY <2>1, <1>3 DEF Once
  <2>3. \A i \in DOMAIN Tail(s) : Tail(s)[i].id # s[1].id
    BY <1>3 DEF Once
  <2>4. Head(s).id \notin Ours(Tail(s))
    BY <2>3 DEF Ours, IdsOf, Range
  <2> QED BY <2>2, <2>4
<1>4. FilledIds(s) = FilledIds(Tail(s)) \cup IfFilled(Head(s))
  BY <1>2, Zenon DEF FilledIds, IfFilled, IdsOf, Filled
<1> QED BY <1>2, <1>3, <1>4 DEF Ours, IdsOf

LEMMA NoUnits == /\ <<>> \in Seq(Units) /\ Once(<<>>) /\ Ours(<<>>) = {}
                 /\ Range(<<>>) = {} /\ Filled(<<>>) = {} /\ FilledIds(<<>>) = {}
BY DEF Once, Ours, IdsOf, Range, Filled, FilledIds

LEMMA OneUnit ==
  ASSUME NEW u \in Units
  PROVE  /\ <<u>> \in Seq(Units) /\ Once(<<u>>) /\ Ours(<<u>>) = {u.id} /\ Range(<<u>>) = {u}
         /\ FilledIds(<<u>>) = IfFilled(u)
<1>1. Range(<<u>>) = {u}
  BY DEF Range
<1>2. <<u>> \in Seq(Units) /\ Once(<<u>>)
  BY DEF Once
<1> QED BY <1>1, <1>2, Zenon DEF Ours, IdsOf, FilledIds, IfFilled, Filled

-----------------------------------------------------------------------------
(* The invariant                                                           *)

LEMMA InitExporter == ExporterInit => ExporterInv
<1> SUFFICES ASSUME ExporterInit PROVE ExporterInv
  OBVIOUS
<1>1. PICK b \in Loads : rest = [p \in Pushers |-> b[p].units] /\ pushed = rest
  BY Zenon DEF ExporterInit
<1>2. \A p \in Pushers : b[p].units \in Seq(Units)
  BY LoadsAssumption DEF Units
<1>3. \A p \in Pushers : Once(b[p].units)
  BY LoadsAssumption DEF Once
<1>4. \A p, q \in Pushers : p # q => Ours(b[p].units) \cap Ours(b[q].units) = {}
  <2> SUFFICES ASSUME NEW p \in Pushers, NEW q \in Pushers, p # q
               PROVE  Ours(b[p].units) \cap Ours(b[q].units) = {}
    BY Zenon
  <2>1. \A i \in DOMAIN b[p].units, j \in DOMAIN b[q].units : b[p].units[i].id # b[q].units[j].id
    BY LoadsAssumption, Zenon
  <2> QED BY <2>1, Zenon DEF Ours, IdsOf, Range
<1>5. /\ body = [p \in Pushers |-> 0] /\ at = [p \in Pushers |-> 0]
      /\ current = [p \in Pushers |-> <<>>] /\ dropped = [p \in Pushers |-> <<>>]
      /\ acked = [p \in Pushers |-> {}] /\ taken = [i \in Ids |-> 0]
      /\ ppc = [p \in Pushers |-> "urls"]
  BY Zenon DEF ExporterInit
<1>6. ExporterTypeOK
  BY <1>1, <1>2, <1>5 DEF ExporterTypeOK
<1>7. OwnUnits
  BY <1>1, <1>4, Zenon DEF OwnUnits
<1>8. ASSUME NEW p \in Pushers PROVE InOnePlace(p) /\ Kept(p) /\ BodyOf(p) /\ NotTaken(p)
  <2>1. rest[p] \in Seq(Units) /\ pushed[p] = rest[p] /\ current[p] = <<>> /\ dropped[p] = <<>>
    BY <1>1, <1>2, <1>5, Zenon
  <2>2. InOnePlace(p)
    BY <1>1, <1>3, <1>5, NoUnits, Zenon DEF InOnePlace
  <2>3. Kept(p)
    BY <1>5, <2>1, NoUnits, Zenon DEF Kept
  <2>4. ppc[p] \notin Configuring
    BY <1>5 DEF Configuring
  <2>5. BodyOf(p)
    BY <2>1, <2>4, NoUnits, Zenon DEF BodyOf
  <2>6. Ours(rest[p]) \subseteq Ids
    BY <2>1, UnitFacts DEF Ours, IdsOf, Range
  <2>7. NotTaken(p)
    BY <1>5, <2>6, NoUnits, Zenon DEF NotTaken, Untaken
  <2> QED BY <2>2, <2>3, <2>5, <2>7
<1>9. OnlyLostAnswersDouble
  BY <1>5 DEF OnlyLostAnswersDouble
<1> QED BY <1>6, <1>7, <1>8, <1>9 DEF ExporterInv

\* The pushes other than p are where they were.
Elsewhere(p) ==
  \A q \in Pushers \ {p} :
    /\ rest'[q] = rest[q] /\ current'[q] = current[q] /\ dropped'[q] = dropped[q]
    /\ pushed'[q] = pushed[q] /\ body'[q] = body[q] /\ at'[q] = at[q] /\ ppc'[q] = ppc[q]
    /\ acked'[q] = acked[q]

\* What a step of p has to keep.
LEMMA PushStep ==
  ASSUME ExporterInv, NEW p \in Pushers, Elsewhere(p),
         ExporterTypeOK', OwnUnits', OnlyLostAnswersDouble',
         InOnePlace(p)', Kept(p)', BodyOf(p)', \A q \in Pushers : NotTaken(q)'
  PROVE  ExporterInv'
<1>1. ASSUME NEW q \in Pushers \ {p} PROVE InOnePlace(q)' /\ Kept(q)' /\ BodyOf(q)'
  <2>1. /\ rest'[q] = rest[q] /\ current'[q] = current[q] /\ dropped'[q] = dropped[q]
        /\ pushed'[q] = pushed[q] /\ body'[q] = body[q] /\ at'[q] = at[q] /\ ppc'[q] = ppc[q]
        /\ acked'[q] = acked[q]
    BY Zenon DEF Elsewhere
  <2>2. InOnePlace(q) /\ Kept(q) /\ BodyOf(q)
    BY Zenon DEF ExporterInv
  <2>3. InOnePlace(q)'
    BY <2>1, <2>2, Zenon DEF InOnePlace
  <2>4. Kept(q)'
    BY <2>1, <2>2, Zenon DEF Kept
  <2>5. BodyOf(q)'
    BY <2>1, <2>2, Zenon DEF BodyOf
  <2> QED BY <2>3, <2>4, <2>5
<1> QED BY <1>1, Zenon DEF ExporterInv

\* Steps that touch no unit.
LEMMA NoUnitMoved ==
  ASSUME ExporterInv, UNCHANGED <<buffer, history>>, DOMAIN ppc' = Pushers,
         \A p \in Pushers : ppc'[p] \in Configuring => at[p] = 0 /\ rest[p] = <<>>
  PROVE  ExporterInv'
<1>1. /\ UNCHANGED <<rest, body, current, dropped, at>> /\ UNCHANGED <<pushed, acked, taken, unsure>>
  BY Zenon DEF buffer, history
<1>2. ExporterTypeOK' /\ OwnUnits' /\ OnlyLostAnswersDouble'
  BY <1>1, Zenon DEF ExporterInv, ExporterTypeOK, OwnUnits, OnlyLostAnswersDouble
<1>3. ASSUME NEW p \in Pushers PROVE InOnePlace(p)' /\ Kept(p)' /\ BodyOf(p)' /\ NotTaken(p)'
  <2>1. InOnePlace(p)'
    BY <1>1, Zenon DEF ExporterInv, InOnePlace
  <2>2. Kept(p)'
    BY <1>1, Zenon DEF ExporterInv, Kept
  <2>3. BodyOf(p)
    BY DEF ExporterInv
  <2>4. BodyOf(p)'
    BY <1>1, <2>3, Zenon DEF BodyOf
  <2>5. NotTaken(p)'
    BY <1>1, Zenon DEF ExporterInv, NotTaken, Untaken
  <2> QED BY <2>1, <2>2, <2>4, <2>5
<1> QED BY <1>2, <1>3, Zenon DEF ExporterInv

\* The units of a request are the filled ones of currentRecords.  Those of a
\* request that is not acknowledged were taken only if the answer was lost.
LEMMA SendEffect ==
  ASSUME ExporterInv, NEW p \in Pushers, NEW err \in Errors, Send(p, err)
  PROVE  /\ acked' \in [Pushers -> SUBSET Ids] /\ taken' \in [Ids -> Nat]
         /\ acked'[p] = IF err = "ok" THEN acked[p] \cup FilledIds(current[p]) ELSE acked[p]
         /\ \A q \in Pushers \ {p} : acked'[q] = acked[q]
         /\ OnlyLostAnswersDouble'
         /\ \A q \in Pushers : \A i \in Ours(rest[q]) \cup Ours(dropped[q]) : Untaken(i)'
         /\ \A q \in Pushers : q # p \/ err # "ok" => \A i \in Ours(current[q]) : Untaken(i)'
<1> DEFINE ids == FilledIds(current[p])
<1>1. /\ acked' = IF err = "ok" THEN [acked EXCEPT ![p] = @ \cup ids] ELSE acked
      /\ taken' = [i \in Ids |-> IF i \in ids /\ err \in {"ok", "lost"}
                                 THEN taken[i] + 1 ELSE taken[i]]
      /\ unsure' = IF err = "lost" THEN unsure \cup ids ELSE unsure
  BY Zenon DEF Send, FilledIds
<1>2. ids \subseteq Ours(current[p])
  BY DEF Ours, IdsOf, Filled, FilledIds
<1>3. \A q \in Pushers : Ours(rest[q]) \cup Ours(current[q]) \cup Ours(dropped[q]) \subseteq Ids
  BY UnitFacts DEF ExporterInv, ExporterTypeOK, Ours, IdsOf, Range
<1> HIDE DEF ids
<1>4. ids \subseteq Ids /\ acked \in [Pushers -> SUBSET Ids] /\ taken \in [Ids -> Nat]
  BY <1>2, <1>3, Zenon DEF ExporterInv, ExporterTypeOK
<1>5. /\ acked' \in [Pushers -> SUBSET Ids]
      /\ acked'[p] = IF err = "ok" THEN acked[p] \cup ids ELSE acked[p]
      /\ \A q \in Pushers \ {p} : acked'[q] = acked[q]
  BY <1>1, <1>4, Zenon
<1>6. taken' \in [Ids -> Nat]
  BY <1>1, <1>4
<1>7. \A i \in Ids : i \notin ids \/ err \notin {"ok", "lost"} => taken'[i] = taken[i]
  BY <1>1
<1>8. unsure \subseteq unsure' /\ (err = "lost" => ids \subseteq unsure')
  BY <1>1
<1>9. \A i \in Ids : Untaken(i) /\ (i \notin ids \/ err # "ok") => Untaken(i)'
  BY <1>7, <1>8 DEF Untaken
<1>10. \A i \in Ours(current[p]) \cup Ours(rest[p]) \cup Ours(dropped[p]) : Untaken(i)
  BY Zenon DEF ExporterInv, NotTaken
<1>11. \A i \in Ids : i \notin unsure' => taken'[i] <= 1
  BY <1>1, <1>2, <1>10 DEF ExporterInv, OnlyLostAnswersDouble, Untaken
<1>12. \A q \in Pushers \ {p} : Ours(pushed[q]) \cap ids = {}
  BY <1>2, Zenon DEF ExporterInv, OwnUnits, Kept
<1>13. \A i \in Ours(rest[p]) \cup Ours(dropped[p]) : i \notin ids
  BY <1>2, Zenon DEF ExporterInv, InOnePlace
<1>14. \A q \in Pushers \ {p} : \A i \in Ours(rest[q]) \cup Ours(dropped[q]) \cup Ours(current[q]) :
         i \notin ids /\ Untaken(i)
  BY <1>12 DEF ExporterInv, Kept, NotTaken
<1>15. OnlyLostAnswersDouble'
  BY <1>11 DEF OnlyLostAnswersDouble
<1> QED BY <1>3, <1>5, <1>6, <1>9, <1>10, <1>13, <1>14, <1>15, Zenon DEF ids

-----------------------------------------------------------------------------
(* The steps of a push                                                     *)

\* Nothing is sent: the server has taken what it had.
LEMMA NothingSent ==
  ASSUME ExporterInv, UNCHANGED <<taken, unsure>>
  PROVE  /\ taken' \in [Ids -> Nat] /\ OnlyLostAnswersDouble'
         /\ \A q \in Pushers : \A i \in Ours(rest[q]) \cup Ours(current[q]) \cup Ours(dropped[q]) :
              Untaken(i)'
BY Zenon DEF ExporterInv, ExporterTypeOK, OnlyLostAnswersDouble, NotTaken, Untaken

\* The record is handed back instead of appended.
LEMMA FormatFailsStep ==
  ASSUME ExporterInv, NEW p \in Pushers, FormatFails(p)
  PROVE  ExporterInv'
<1> DEFINE u == Head(rest[p])
<1>1. ExporterTypeOK /\ InOnePlace(p) /\ Kept(p) /\ BodyOf(p) /\ OwnUnits
  BY DEF ExporterInv
<1>2. /\ ppc[p] = "send" /\ InGroup(p)
      /\ dropped' = [dropped EXCEPT ![p] = Append(@, u)]
      /\ rest' = [rest EXCEPT ![p] = Tail(@)] /\ at' = [at EXCEPT ![p] = u.group]
      /\ UNCHANGED <<ppc, body, current, pushed, acked, taken, unsure>>
  BY Zenon DEF FormatFails, Advance, history
<1>3. rest[p] # <<>> /\ rest[p] \in Seq(Units) /\ dropped[p] \in Seq(Units)
  BY <1>1, <1>2, Zenon DEF ExporterTypeOK, InGroup
<1>4. /\ u \in Units /\ Tail(rest[p]) \in Seq(Units)
      /\ Ours(rest[p]) = Ours(Tail(rest[p])) \cup {u.id}
      /\ FilledIds(rest[p]) = FilledIds(Tail(rest[p])) \cup IfFilled(u)
      /\ Once(Tail(rest[p])) /\ u.id \notin Ours(Tail(rest[p]))
  BY <1>1, <1>3, NextUnit, Zenon DEF InOnePlace
<1>5. /\ Append(dropped[p], u) \in Seq(Units)
      /\ Ours(Append(dropped[p], u)) = Ours(dropped[p]) \cup {u.id}
      /\ FilledIds(Append(dropped[p], u)) = FilledIds(dropped[p]) \cup IfFilled(u)
      /\ Once(Append(dropped[p], u))
  BY <1>1, <1>3, <1>4, AppendUnits, Zenon DEF InOnePlace
<1> HIDE DEF u
<1>6. /\ rest'[p] = Tail(rest[p]) /\ dropped'[p] = Append(dropped[p], u) /\ at'[p] = u.group
      /\ \A q \in Pushers \ {p} : rest'[q] = rest[q] /\ dropped'[q] = dropped[q] /\ at'[q] = at[q]
  BY <1>1, <1>2, Zenon DEF ExporterTypeOK
<1>7. Elsewhere(p)
  BY <1>2 DEF Elsewhere
<1>8. ExporterTypeOK' /\ OwnUnits'
  BY <1>1, <1>2, <1>4, <1>5, Zenon DEF ExporterTypeOK, OwnUnits
<1>9. InOnePlace(p)'
  BY <1>1, <1>2, <1>4, <1>5, <1>6 DEF InOnePlace
<1>10. Kept(p)'
  BY <1>1, <1>2, <1>4, <1>5, <1>6, Zenon DEF Kept
<1>11. \A v \in Filled(current[p]) : v.group = u.group
  BY <1>1, <1>2, NoUnits DEF BodyOf, Filled, InGroup, u
<1>12. u.group # 0 /\ ppc'[p] \notin Configuring
  BY <1>2, <1>4, UnitFacts, Zenon DEF Configuring
<1>13. BodyOf(p)'
  BY <1>1, <1>2, <1>11, <1>12 DEF BodyOf
<1>14. \A q \in Pushers : NotTaken(q)'
  BY <1>2, <1>4, <1>5, NothingSent DEF NotTaken
<1> QED BY <1>2, <1>7, <1>8, <1>9, <1>10, <1>13, <1>14, NothingSent, PushStep, Zenon

\* The unit joins those of its group, and there is room.
LEMMA AppendUnitStep ==
  ASSUME ExporterInv, NEW p \in Pushers, AppendUnit(p)
  PROVE  ExporterInv'
<1> DEFINE u == Head(rest[p])
<1>1. ExporterTypeOK /\ InOnePlace(p) /\ Kept(p) /\ BodyOf(p) /\ OwnUnits
  BY DEF ExporterInv
<1>2. /\ ppc[p] = "send" /\ InGroup(p) /\ u.len # BadLine /\ ~Overflows(body[p], u)
      /\ body' = [body EXCEPT ![p] = Grown(@, u)]
      /\ current' = [current EXCEPT ![p] = Append(@, u)]
      /\ rest' = [rest EXCEPT ![p] = Tail(@)] /\ at' = [at EXCEPT ![p] = u.group]
      /\ UNCHANGED <<ppc, dropped, pushed, acked, taken, unsure>>
  BY Zenon DEF AppendUnit, Advance, history
<1>3. rest[p] # <<>> /\ rest[p] \in Seq(Units) /\ current[p] \in Seq(Units) /\ body[p] \in Nat
  BY <1>1, <1>2, Zenon DEF ExporterTypeOK, InGroup
<1>4. /\ u \in Units /\ Tail(rest[p]) \in Seq(Units)
      /\ Ours(rest[p]) = Ours(Tail(rest[p])) \cup {u.id}
      /\ FilledIds(rest[p]) = FilledIds(Tail(rest[p])) \cup IfFilled(u)
      /\ Once(Tail(rest[p])) /\ u.id \notin Ours(Tail(rest[p]))
  BY <1>1, <1>3, NextUnit, Zenon DEF InOnePlace
<1>5. /\ Append(current[p], u) \in Seq(Units)
      /\ Range(Append(current[p], u)) = Range(current[p]) \cup {u}
      /\ Ours(Append(current[p], u)) = Ours(current[p]) \cup {u.id}
      /\ FilledIds(Append(current[p], u)) = FilledIds(current[p]) \cup IfFilled(u)
      /\ Once(Append(current[p], u))
  BY <1>1, <1>3, <1>4, AppendUnits, Zenon DEF InOnePlace
<1>6. /\ u.len \in Nat /\ u.group # 0 /\ (u.lines = 0 => u.len = 0)
      /\ at[p] \in {0, u.group} \/ body[p] = 0
  BY <1>2, <1>4, UnitFacts, Zenon DEF InGroup
<1> HIDE DEF u
<1>7. /\ rest'[p] = Tail(rest[p]) /\ current'[p] = Append(current[p], u) /\ at'[p] = u.group
      /\ body'[p] = Grown(body[p], u)
      /\ \A q \in Pushers \ {p} : /\ rest'[q] = rest[q] /\ current'[q] = current[q]
                                  /\ at'[q] = at[q] /\ body'[q] = body[q]
  BY <1>1, <1>2, Zenon DEF ExporterTypeOK
<1>8. Elsewhere(p)
  BY <1>2 DEF Elsewhere
<1>9. /\ Grown(body[p], u) \in Nat /\ body[p] <= Grown(body[p], u) /\ u.len <= Grown(body[p], u)
      /\ body[p] > 0 => Grown(body[p], u) <= MaxRequestBodySize
  <2>1. ~Overflows(body[p], u)
    BY <1>2
  <2> QED BY <1>3, <1>6, <2>1, SizeAssumption DEF Grown, Overflows, LinesTotalLength
<1>10. ExporterTypeOK' /\ OwnUnits'
  BY <1>1, <1>2, <1>4, <1>5, <1>9, Zenon DEF ExporterTypeOK, OwnUnits
<1>11. InOnePlace(p)'
  BY <1>1, <1>2, <1>4, <1>5, <1>7 DEF InOnePlace
<1>12. Kept(p)'
  BY <1>1, <1>2, <1>4, <1>5, <1>7 DEF Kept
<1>13. BodyOf(p)'
  <2>1. Filled(current'[p]) \subseteq Filled(current[p]) \cup {u}
    BY <1>5, <1>7, Zenon DEF Filled
  <2>2. body[p] = 0 => Filled(current[p]) = {}
    BY <1>1 DEF BodyOf, Filled
  <2>3. at[p] = 0 => Filled(current[p]) = {}
    BY <1>1, NoUnits, Zenon DEF BodyOf
  <2>4. \A v \in Filled(current'[p]) : v.group = at'[p]
    BY <1>1, <1>6, <1>7, <2>1, <2>2, <2>3, Zenon DEF BodyOf
  <2>5. \A v, w \in Filled(current'[p]) : v # w => body'[p] <= MaxRequestBodySize
    BY <1>3, <1>7, <1>9, <2>1, <2>2
  <2>6. \A v \in Range(current'[p]) : v.len \in Nat /\ v.len <= body'[p]
    BY <1>1, <1>3, <1>5, <1>6, <1>7, <1>9 DEF BodyOf
  <2>7. at'[p] # 0 /\ ppc'[p] \notin Configuring
    BY <1>2, <1>6, <1>7, Zenon DEF Configuring
  <2> QED BY <2>4, <2>5, <2>6, <2>7, Zenon DEF BodyOf
<1>14. \A q \in Pushers : NotTaken(q)'
  BY <1>2, <1>4, <1>5, NothingSent DEF NotTaken
<1> QED BY <1>2, <1>8, <1>10, <1>11, <1>12, <1>13, <1>14, NothingSent, PushStep, Zenon

\* What is handed back after the request.
LEMMA DroppedUnits ==
  ASSUME ExporterInv, NEW p \in Pushers, NEW err \in Errors, Send(p, err),
         NEW ds, ds = dropped[p] \o DroppedBy(p, err)
  PROVE  /\ ds \in Seq(Units) /\ Once(ds)
         /\ Ours(ds) = Ours(dropped[p]) \cup (IF err = "ok" THEN {} ELSE Ours(current[p]))
         /\ \A i \in Ours(ds) : Untaken(i)'
         /\ acked'[p] \cap (Ours(ds) \cup Ours(rest[p])) = {}
         /\ acked'[p] \subseteq acked[p] \cup Ours(current[p])
         /\ acked[p] \cup FilledIds(current[p]) \cup FilledIds(dropped[p])
              \subseteq acked'[p] \cup FilledIds(ds)
<1>1. ExporterTypeOK /\ InOnePlace(p)
  BY Zenon DEF ExporterInv
<1>2. dropped[p] \in Seq(Units) /\ current[p] \in Seq(Units)
  BY <1>1, Zenon DEF ExporterTypeOK
<1>3. DroppedBy(p, err) = IF err = "ok" THEN <<>> ELSE current[p]
  BY Zenon DEF DroppedBy
<1>4. /\ DroppedBy(p, err) \in Seq(Units) /\ Once(DroppedBy(p, err))
      /\ Ours(DroppedBy(p, err)) = IF err = "ok" THEN {} ELSE Ours(current[p])
      /\ FilledIds(DroppedBy(p, err)) = IF err = "ok" THEN {} ELSE FilledIds(current[p])
  BY <1>1, <1>2, <1>3, NoUnits, Zenon DEF InOnePlace
<1>5. Ours(dropped[p]) \cap Ours(DroppedBy(p, err)) = {} /\ Once(dropped[p])
  BY <1>1, <1>4, Zenon DEF InOnePlace
<1>6. /\ ds \in Seq(Units) /\ Once(ds)
      /\ Ours(ds) = Ours(dropped[p]) \cup Ours(DroppedBy(p, err))
      /\ FilledIds(ds) = FilledIds(dropped[p]) \cup FilledIds(DroppedBy(p, err))
  BY <1>2, <1>4, <1>5, JoinUnits, Zenon
<1>7. Ours(ds) = Ours(dropped[p]) \cup (IF err = "ok" THEN {} ELSE Ours(current[p]))
  BY <1>4, <1>6, Zenon
<1>8. \A i \in Ours(ds) : Untaken(i)'
  <2>1. \A i \in Ours(dropped[p]) : Untaken(i)'
    BY SendEffect, Zenon
  <2>2. err # "ok" => \A i \in Ours(current[p]) : Untaken(i)'
    BY SendEffect, Zenon
  <2> QED BY <1>7, <2>1, <2>2, Zenon
<1>9. acked'[p] = IF err = "ok" THEN acked[p] \cup FilledIds(current[p]) ELSE acked[p]
  BY SendEffect, Zenon
<1>10. FilledIds(current[p]) \subseteq Ours(current[p])
  BY Zenon DEF Ours, IdsOf, Filled, FilledIds
<1>11. acked'[p] \cap (Ours(ds) \cup Ours(rest[p])) = {}
  BY <1>1, <1>7, <1>9, <1>10, Zenon DEF InOnePlace
<1>12. acked[p] \cup FilledIds(current[p]) \cup FilledIds(dropped[p])
         \subseteq acked'[p] \cup FilledIds(ds)
  BY <1>4, <1>6, <1>9, Zenon
<1> QED BY <1>6, <1>7, <1>8, <1>9, <1>10, <1>11, <1>12, Zenon

\* The body is sent and the unit begins the next one.
LEMMA SendAndAppendStep ==
  ASSUME ExporterInv, NEW p \in Pushers, SendAndAppend(p)
  PROVE  ExporterInv'
<1> DEFINE u == Head(rest[p])
<1>1. ExporterTypeOK /\ InOnePlace(p) /\ Kept(p) /\ BodyOf(p) /\ OwnUnits
  BY DEF ExporterInv
<1>2. /\ ppc[p] = "send" /\ InGroup(p) /\ u.len # BadLine
      /\ body' = [body EXCEPT ![p] = u.len]
      /\ current' = [current EXCEPT ![p] = <<u>>]
      /\ rest' = [rest EXCEPT ![p] = Tail(@)] /\ at' = [at EXCEPT ![p] = u.group]
      /\ UNCHANGED <<ppc, pushed>>
  BY Zenon DEF SendAndAppend, Advance, StartWith
<1>3. PICK err \in Errors : /\ Send(p, err)
                            /\ dropped' = [dropped EXCEPT ![p] = @ \o DroppedBy(p, err)]
  BY Zenon DEF SendAndAppend
<1>4. rest[p] # <<>> /\ rest[p] \in Seq(Units)
  BY <1>1, <1>2, Zenon DEF ExporterTypeOK, InGroup
<1>5. u \in Units /\ u.len \in Nat /\ u.group # 0
  BY <1>2, <1>4, UnitFacts
<1> HIDE DEF u
<1>6. /\ rest'[p] = Tail(rest[p]) /\ current'[p] = <<u>>
      /\ dropped'[p] = dropped[p] \o DroppedBy(p, err)
  BY <1>1, <1>2, <1>3, Zenon DEF ExporterTypeOK
<1>7. at'[p] = u.group /\ body'[p] = u.len /\ ppc'[p] = "send" /\ pushed' = pushed
  BY <1>1, <1>2, Zenon DEF ExporterTypeOK
<1>8. \A q \in Pushers \ {p} : /\ rest'[q] = rest[q] /\ current'[q] = current[q]
                               /\ dropped'[q] = dropped[q] /\ at'[q] = at[q] /\ body'[q] = body[q]
  BY <1>2, <1>3
<1>9. /\ rest'[p] \in Seq(Units) /\ Once(rest'[p]) /\ u.id \notin Ours(rest'[p])
      /\ Ours(rest[p]) = Ours(rest'[p]) \cup {u.id}
      /\ FilledIds(rest[p]) = FilledIds(rest'[p]) \cup IfFilled(u)
  BY <1>1, <1>4, <1>6, NextUnit DEF InOnePlace, u
<1>10. /\ current'[p] \in Seq(Units) /\ Once(current'[p]) /\ Range(current'[p]) = {u}
       /\ Ours(current'[p]) = {u.id} /\ FilledIds(current'[p]) = IfFilled(u)
  BY <1>5, <1>6, OneUnit, Zenon
<1>11. /\ dropped'[p] \in Seq(Units) /\ Once(dropped'[p])
       /\ Ours(dropped'[p]) \subseteq Ours(dropped[p]) \cup Ours(current[p])
       /\ \A i \in Ours(dropped'[p]) : Untaken(i)'
       /\ acked'[p] \cap (Ours(dropped'[p]) \cup Ours(rest[p])) = {}
       /\ acked'[p] \subseteq acked[p] \cup Ours(current[p])
       /\ acked[p] \cup FilledIds(current[p]) \cup FilledIds(dropped[p])
            \subseteq acked'[p] \cup FilledIds(dropped'[p])
  <2> DEFINE ds == dropped'[p]
  <2>1. ds = dropped[p] \o DroppedBy(p, err)
    BY <1>6, Zenon
  <2> HIDE DEF ds
  <2>2. /\ ds \in Seq(Units) /\ Once(ds)
        /\ Ours(ds) = Ours(dropped[p]) \cup (IF err = "ok" THEN {} ELSE Ours(current[p]))
        /\ \A i \in Ours(ds) : Untaken(i)'
        /\ acked'[p] \cap (Ours(ds) \cup Ours(rest[p])) = {}
        /\ acked'[p] \subseteq acked[p] \cup Ours(current[p])
        /\ acked[p] \cup FilledIds(current[p]) \cup FilledIds(dropped[p])
             \subseteq acked'[p] \cup FilledIds(ds)
    BY <1>3, <2>1, DroppedUnits, Zenon
  <2> QED BY <2>2, Zenon DEF ds
<1>12. \A q \in Pushers \ {p} : acked'[q] = acked[q]
  BY <1>3, SendEffect, Zenon
<1>13. Elsewhere(p)
  BY <1>2, <1>8, <1>12, Zenon DEF Elsewhere
<1>14. ExporterTypeOK' /\ OwnUnits'
  <2>1. rest' \in [Pushers -> Seq(Units)] /\ current' \in [Pushers -> Seq(Units)]
    BY <1>1, <1>2, <1>9, <1>10, Zenon DEF ExporterTypeOK
  <2>2. dropped' \in [Pushers -> Seq(Units)]
    BY <1>1, <1>3, <1>11, Zenon DEF ExporterTypeOK
  <2>3. acked' \in [Pushers -> SUBSET Ids] /\ taken' \in [Ids -> Nat]
    BY <1>3, SendEffect, Zenon
  <2>4. body' \in [Pushers -> Nat] /\ DOMAIN at' = Pushers /\ DOMAIN ppc' = Pushers
    BY <1>1, <1>2, <1>5, Zenon DEF ExporterTypeOK
  <2> QED BY <1>1, <1>7, <2>1, <2>2, <2>3, <2>4, Zenon DEF ExporterTypeOK, OwnUnits
<1>15. InOnePlace(p)'
  BY <1>1, <1>9, <1>10, <1>11 DEF InOnePlace
<1>16. Kept(p)'
  BY <1>1, <1>7, <1>9, <1>10, <1>11 DEF Kept
<1>17. BodyOf(p)'
  BY <1>5, <1>7, <1>10 DEF Filled, BodyOf, Configuring
<1>18. ASSUME NEW q \in Pushers PROVE NotTaken(q)'
  <2>1. CASE q = p
    <3>1. \A i \in Ours(rest[p]) : Untaken(i)'
      BY <1>3, SendEffect, Zenon
    <3> QED BY <2>1, <3>1, <1>9, <1>10, <1>11, Zenon DEF NotTaken
  <2>2. CASE q # p
    <3>1. \A i \in Ours(rest[q]) \cup Ours(dropped[q]) \cup Ours(current[q]) : Untaken(i)'
      BY <1>3, <2>2, SendEffect, Zenon
    <3> QED BY <2>2, <3>1, <1>8, Zenon DEF NotTaken
  <2> QED BY <2>1, <2>2
<1>19. OnlyLostAnswersDouble'
  BY <1>3, SendEffect, Zenon
<1> QED BY <1>13, <1>14, <1>15, <1>16, <1>17, <1>18, <1>19, PushStep, Zenon

\* The group is over: its units were acknowledged or are handed back, or there was
\* nothing in them.
LEMMA EndGroupStep ==
  ASSUME ExporterInv, NEW p \in Pushers, EndGroup(p)
  PROVE  ExporterInv'
<1>1. ExporterTypeOK /\ InOnePlace(p) /\ Kept(p) /\ BodyOf(p) /\ OwnUnits
  BY DEF ExporterInv
<1>2. /\ ppc[p] = "send" /\ UNCHANGED <<ppc, rest, pushed>>
      /\ body' = [body EXCEPT ![p] = 0] /\ current' = [current EXCEPT ![p] = <<>>]
      /\ at' = [at EXCEPT ![p] = 0]
  BY Zenon DEF EndGroup, CloseGroup, history
<1>3. /\ body'[p] = 0 /\ current'[p] = <<>> /\ at'[p] = 0 /\ ppc'[p] = "send"
      /\ \A q \in Pushers \ {p} : current'[q] = current[q] /\ body'[q] = body[q] /\ at'[q] = at[q]
  BY <1>1, <1>2, Zenon DEF ExporterTypeOK
<1>4. /\ dropped' \in [Pushers -> Seq(Units)] /\ Once(dropped'[p])
      /\ Ours(dropped'[p]) \subseteq Ours(dropped[p]) \cup Ours(current[p])
      /\ \A q \in Pushers : \A i \in Ours(rest[q]) \cup Ours(dropped'[q]) : Untaken(i)'
      /\ \A q \in Pushers \ {p} : \A i \in Ours(current[q]) : Untaken(i)'
      /\ acked'[p] \cap (Ours(dropped'[p]) \cup Ours(rest[p])) = {}
      /\ acked'[p] \subseteq acked[p] \cup Ours(current[p])
      /\ acked[p] \cup FilledIds(current[p]) \cup FilledIds(dropped[p])
           \subseteq acked'[p] \cup FilledIds(dropped'[p])
      /\ \A q \in Pushers \ {p} : dropped'[q] = dropped[q] /\ acked'[q] = acked[q]
      /\ acked' \in [Pushers -> SUBSET Ids] /\ taken' \in [Ids -> Nat]
      /\ OnlyLostAnswersDouble'
  <2>1. ASSUME NEW err \in Errors, Send(p, err),
               dropped' = [dropped EXCEPT ![p] = @ \o DroppedBy(p, err)]
        PROVE  <1>4!:
    <3> DEFINE ds == dropped'[p]
    <3>1. dropped \in [Pushers -> Seq(Units)]
      BY <1>1, Zenon DEF ExporterTypeOK
    <3>2. ds = dropped[p] \o DroppedBy(p, err)
      BY <2>1, <3>1, Zenon
    <3>3. \A q \in Pushers \ {p} : dropped'[q] = dropped[q]
      BY <2>1
    <3> HIDE DEF ds
    <3>4. /\ ds \in Seq(Units) /\ Once(ds)
          /\ Ours(ds) = Ours(dropped[p]) \cup (IF err = "ok" THEN {} ELSE Ours(current[p]))
          /\ \A i \in Ours(ds) : Untaken(i)'
          /\ acked'[p] \cap (Ours(ds) \cup Ours(rest[p])) = {}
          /\ acked'[p] \subseteq acked[p] \cup Ours(current[p])
          /\ acked[p] \cup FilledIds(current[p]) \cup FilledIds(dropped[p])
               \subseteq acked'[p] \cup FilledIds(ds)
      BY <2>1, <3>2, DroppedUnits, Zenon
    <3>5. dropped' = [dropped EXCEPT ![p] = ds]
      BY <2>1, <3>2, Zenon
    <3>6. dropped' \in [Pushers -> Seq(Units)]
      BY <3>1, <3>4, <3>5, Zenon
    <3>7. \A q \in Pushers : \A i \in Ours(rest[q]) \cup Ours(dropped[q]) : Untaken(i)'
      BY <2>1, SendEffect, Zenon
    <3>8. \A q \in Pushers : \A i \in Ours(rest[q]) \cup Ours(dropped'[q]) : Untaken(i)'
      BY <3>3, <3>4, <3>7, Zenon DEF ds
    <3>9. \A q \in Pushers \ {p} : \A i \in Ours(current[q]) : Untaken(i)'
      BY <2>1, SendEffect, Zenon
    <3>10. \A q \in Pushers \ {p} : acked'[q] = acked[q]
      BY <2>1, SendEffect, Zenon
    <3>11. acked' \in [Pushers -> SUBSET Ids] /\ taken' \in [Ids -> Nat] /\ OnlyLostAnswersDouble'
      BY <2>1, SendEffect, Zenon
    <3> QED BY <3>3, <3>4, <3>6, <3>8, <3>9, <3>10, <3>11, Zenon DEF ds
  <2>2. CASE body[p] > 0
    <3>1. PICK err \in Errors : Send(p, err) /\ CloseGroup(p, DroppedBy(p, err), errs[p] \o ErrorOf(err))
      BY <2>2 DEF EndGroup
    <3> QED BY <3>1, <2>1, Zenon DEF CloseGroup
  <2>3. CASE ~(body[p] > 0)
    <3>1. CloseGroup(p, <<>>, errs[p]) /\ UNCHANGED history /\ body[p] = 0
      BY <2>3, Zenon DEF EndGroup
    <3>2. dropped \in [Pushers -> Seq(Units)]
      BY <1>1 DEF ExporterTypeOK
    <3>3. dropped' = dropped
      BY <3>1, <3>2 DEF CloseGroup
    <3>4. UNCHANGED <<acked, taken, unsure>>
      BY <3>1 DEF history
    <3>5. FilledIds(current[p]) = {}
      BY <1>1, <3>1 DEF BodyOf, FilledIds, IdsOf, Filled
    <3>6. /\ taken' \in [Ids -> Nat] /\ OnlyLostAnswersDouble'
          /\ \A q \in Pushers : \A i \in Ours(rest[q]) \cup Ours(current[q]) \cup Ours(dropped[q]) :
               Untaken(i)'
      BY <3>4, NothingSent, Zenon
    <3>7. Once(dropped[p]) /\ acked[p] \cap (Ours(rest[p]) \cup Ours(dropped[p])) = {}
      BY <1>1, Zenon DEF InOnePlace
    <3>8. acked \in [Pushers -> SUBSET Ids]
      BY <1>1 DEF ExporterTypeOK
    <3> QED BY <3>2, <3>3, <3>4, <3>5, <3>6, <3>7, <3>8, Zenon
  <2> QED BY <2>2, <2>3, Zenon
<1>5. Elsewhere(p)
  BY <1>2, <1>4 DEF Elsewhere
<1>6. ExporterTypeOK' /\ OwnUnits'
  <2>1. current' \in [Pushers -> Seq(Units)]
    BY <1>1, <1>2 DEF ExporterTypeOK
  <2> QED BY <1>1, <1>2, <1>4, <2>1, Zenon DEF ExporterTypeOK, OwnUnits
<1>7. InOnePlace(p)'
  BY <1>1, <1>2, <1>3, <1>4, NoUnits, Zenon DEF InOnePlace
<1>8. Kept(p)'
  BY <1>1, <1>2, <1>3, <1>4, NoUnits, Zenon DEF Kept
<1>9. BodyOf(p)'
  BY <1>3, NoUnits, Zenon DEF BodyOf, Configuring
<1>10. \A q \in Pushers : NotTaken(q)'
  BY <1>2, <1>3, <1>4, NoUnits, Zenon DEF NotTaken
<1> QED BY <1>4, <1>5, <1>6, <1>7, <1>8, <1>9, <1>10, PushStep, Zenon

\* What is pushed again is what was handed back.
LEMMA ReturnStep ==
  ASSUME ExporterInv, NEW p \in Pushers, Return(p)
  PROVE  ExporterInv'
<1>1. ExporterTypeOK /\ InOnePlace(p) /\ Kept(p) /\ BodyOf(p) /\ OwnUnits
  BY DEF ExporterInv
<1>2. at[p] = 0 /\ rest[p] = <<>> /\ current[p] = <<>>
  BY <1>1, Zenon DEF Return, BodyOf, Configuring
<1>3. CASE ppc' = [ppc EXCEPT ![p] = "done"] /\ UNCHANGED <<buffer, history>>
  <2>1. DOMAIN ppc' = Pushers
    BY <1>1, <1>3, Zenon DEF ExporterTypeOK
  <2>2. \A q \in Pushers : ppc'[q] \in Configuring => at[q] = 0 /\ rest[q] = <<>>
    BY <1>3 DEF ExporterInv, BodyOf, Configuring
  <2> QED BY <1>3, <2>1, <2>2, NoUnitMoved
<1>4. CASE /\ ppc' = [ppc EXCEPT ![p] = "urls"]
           /\ rest' = [rest EXCEPT ![p] = dropped[p]]
           /\ pushed' = [pushed EXCEPT ![p] = dropped[p]]
           /\ acked' = [acked EXCEPT ![p] = {}]
           /\ dropped' = [dropped EXCEPT ![p] = <<>>]
           /\ UNCHANGED <<body, current, at, errs, taken, unsure>>
  <2>1. /\ ppc'[p] = "urls" /\ rest'[p] = dropped[p] /\ pushed'[p] = dropped[p]
        /\ acked'[p] = {} /\ dropped'[p] = <<>> /\ current'[p] = <<>> /\ at'[p] = 0
    BY <1>1, <1>2, <1>4, Zenon DEF ExporterTypeOK
  <2>2. \A q \in Pushers \ {p} : /\ ppc'[q] = ppc[q] /\ rest'[q] = rest[q] /\ pushed'[q] = pushed[q]
                                 /\ acked'[q] = acked[q] /\ dropped'[q] = dropped[q]
    BY <1>4
  <2>3. Elsewhere(p)
    BY <1>4 DEF Elsewhere
  <2>4. ExporterTypeOK'
    BY <1>1, <1>4 DEF ExporterTypeOK
  <2>5. Ours(dropped[p]) \subseteq Ours(pushed[p])
    BY <1>1, Zenon DEF Kept
  <2>6. OwnUnits'
    BY <1>1, <2>1, <2>2, <2>5 DEF OwnUnits
  <2>7. InOnePlace(p)'
    BY <1>1, <2>1, NoUnits, Zenon DEF InOnePlace
  <2>8. Kept(p)'
    BY <2>1, NoUnits, Zenon DEF Kept
  <2>9. BodyOf(p)'
    BY <2>1, NoUnits, Zenon DEF BodyOf, Configuring
  <2>10. \A q \in Pushers : NotTaken(q)'
    BY <1>4, NoUnits, NothingSent DEF NotTaken
  <2>11. OnlyLostAnswersDouble'
    BY <1>4, NothingSent, Zenon
  <2> QED BY <2>3, <2>4, <2>6, <2>7, <2>8, <2>9, <2>10, <2>11, PushStep, Zenon
<1> QED BY <1>3, <1>4, Zenon DEF Return

\* The steps that only move pc, and those of the server and the extension.
LEMMA OtherStep ==
  ASSUME ExporterInv,
         \/ \E p \in Pushers : \/ GetDataURLs(p) \/ GetHTTPClient(p) \/ EndPush(p)
                               \/ Configure(p)
         \/ \E u \in Deployments : Replace(u)
         \/ Reregister
         \/ UNCHANGED exporterVars
  PROVE  ExporterInv'
<1>1. UNCHANGED <<buffer, history>>
  BY Zenon DEF GetDataURLs, GetHTTPClient, EndPush, Configure, GetBaseUrl, SetDataURLs, ToClient,
     SetHTTPClient, Replace, Reregister, exporterVars
<1>2. \/ ppc' = ppc
      \/ \E p \in Pushers : /\ ppc' = [ppc EXCEPT ![p] = "client"] \/ ppc' = [ppc EXCEPT ![p] = "send"]
      \/ \E p \in Pushers : /\ at[p] = 0 /\ rest[p] = <<>>
                            /\ \E c \in Configuring : ppc' = [ppc EXCEPT ![p] = c]
  <2>1. \A p \in Pushers : ppc[p] \in Configuring => at[p] = 0 /\ rest[p] = <<>>
    BY Zenon DEF ExporterInv, BodyOf
  <2>2. ASSUME NEW p \in Pushers, Configure(p)
        PROVE  ppc[p] \in Configuring /\ \E c \in Configuring : ppc' = [ppc EXCEPT ![p] = c]
    BY <2>2, Zenon DEF Configure, GetBaseUrl, SetDataURLs, ToClient, SetHTTPClient, Configuring
  <2>3. ASSUME NEW p \in Pushers, EndPush(p)
        PROVE  at[p] = 0 /\ rest[p] = <<>> /\ \E c \in Configuring : ppc' = [ppc EXCEPT ![p] = c]
    BY <2>3, Zenon DEF EndPush, Configuring
  <2> QED BY <2>1, <2>2, <2>3, Zenon DEF GetDataURLs, GetHTTPClient, Replace, Reregister, exporterVars
<1>3. DOMAIN ppc' = Pushers
  BY <1>2, Zenon DEF ExporterInv, ExporterTypeOK
<1>4. \A p \in Pushers : ppc'[p] \in Configuring => at[p] = 0 /\ rest[p] = <<>>
  <2>1. \A p \in Pushers : ppc[p] \in Configuring => at[p] = 0 /\ rest[p] = <<>>
    BY Zenon DEF ExporterInv, BodyOf
  <2>2. DOMAIN ppc = Pushers /\ "client" \notin Configuring /\ "send" \notin Configuring
    BY DEF ExporterInv, ExporterTypeOK, Configuring
  <2> QED BY <1>2, <2>1, <2>2, Zenon
<1> QED BY <1>1, <1>3, <1>4, NoUnitMoved, Zenon

LEMMA NextExporter == ExporterInv /\ [ExporterNext]_exporterVars => ExporterInv'
BY FormatFailsStep, AppendUnitStep, SendAndAppendStep, EndGroupStep, ReturnStep, OtherStep, Zenon
   DEF ExporterNext, Push

LEMMA ExporterInvImplies ==
  ExporterInv => AcknowledgedOrReturned /\ OnlyLostAnswersDouble /\ RequestsWellFormed
<1> SUFFICES ASSUME ExporterInv
             PROVE  AcknowledgedOrReturned /\ OnlyLostAnswersDouble /\ RequestsWellFormed
  OBVIOUS
<1>1. RequestsWellFormed
  BY DEF ExporterInv, BodyOf, RequestsWellFormed
<1>2. ASSUME NEW p \in Pushers, ppc[p] = "configure"
      PROVE  /\ IdsOf(Filled(pushed[p])) \subseteq acked[p] \cup IdsOf(Range(dropped[p]))
             /\ acked[p] \cap IdsOf(Range(dropped[p])) = {}
             /\ IsInjective(dropped[p])
  <2>1. InOnePlace(p) /\ Kept(p) /\ BodyOf(p)
    BY DEF ExporterInv
  <2>2. rest[p] = <<>> /\ current[p] = <<>>
    BY <1>2, <2>1, Zenon DEF BodyOf, Configuring
  <2>3. FilledIds(dropped[p]) \subseteq Ours(dropped[p])
    BY DEF FilledIds, Ours, IdsOf, Filled
  <2>4. FilledIds(pushed[p]) \subseteq acked[p] \cup Ours(dropped[p])
    BY <2>1, <2>2, <2>3, NoUnits, Zenon DEF Kept
  <2>5. acked[p] \cap Ours(dropped[p]) = {} /\ Once(dropped[p])
    BY <2>1, Zenon DEF InOnePlace
  <2> QED BY <2>4, <2>5, Zenon DEF FilledIds, Ours, IsInjective, Once
<1> QED BY <1>1, <1>2, Zenon DEF AcknowledgedOrReturned, ExporterInv

LEMMA ExporterInvariant == ExporterSpec => []ExporterInv
<1>1. ExporterInit => ExporterInv
  BY InitExporter
<1>2. ExporterInv /\ [ExporterNext]_exporterVars => ExporterInv'
  BY NextExporter
<1> QED BY <1>1, <1>2, PTL DEF ExporterSpec

\* A push hands back the units of the requests that failed, and only those,
\* however the batch was cut and whatever other pushes do.
THEOREM NothingLostOrDoubled == ExporterSpec => []AcknowledgedOrReturned
BY ExporterInvariant, ExporterInvImplies, PTL

\* Retries do not double what the server took, unless its answer was lost.
THEOREM OnlyLostAnswers == ExporterSpec => []OnlyLostAnswersDouble
BY ExporterInvariant, ExporterInvImplies, PTL

\* appendAndMaybeSend keeps a request of several units within max_request_body_size,
\* and to one group.
THEOREM RequestsFit == ExporterSpec => []RequestsWellFormed
BY ExporterInvariant, ExporterInvImplies, PTL
===============================================================================
