--------------------------- MODULE CascadingFates ---------------------------
(***************************************************************************)
(* What becomes of a group of spans, for any number of consumers, traces   *)
(* and groups: it is in one place at a time, it is passed on only if its   *)
(* trace is sampled, and late spans follow the decision on their trace.    *)
(***************************************************************************)
EXTENDS CascadingInvariant

\* The objects that have been created: a group whose consumer is past
\* LoadOrStore has named its object, if it names any.
Created == {o \in Groups : home[o] # None \/ \E c \in Consumers : grp[c] = o /\ pc[c] # "store"}

\* A group is with one consumer, or turned away, or at home in one object.
Homes ==
  /\ \A c, d \in Consumers : grp[c] # None /\ grp[c] = grp[d] => c = d
  /\ \A c \in Consumers : grp[c] # None => home[grp[c]] = None /\ grp[c] \notin late \cup refused
  /\ \A g \in forwarded \cup missed : home[g] # None
  /\ \A g \in late \cup refused : home[g] = None
  /\ late \cap refused = {} /\ forwarded \cap missed = {}
  /\ \A o \in Groups : \A g \in received[o] : home[g] = o /\ g \notin forwarded \cup missed

\* Whatever refers to an object refers to one that was created; the ticker's
\* object is of the trace of its entry.
References ==
  /\ \A t \in TraceIDs : idToTrace[t] # None => idToTrace[t] \in Created
  /\ \A c \in Consumers : obj[c] # None => obj[c] \in Created
  /\ \A g \in Groups : home[g] # None => home[g] \in Created
  /\ tobj # None => tobj \in Created /\ TraceOf[tobj] = TraceOf[token]

\* The objects that are sampled for good: no entry, not even a stale one, leads
\* to them any more, except the one that is being done with.
Settled ==
  {o \in Created :
    /\ finalDecision[o] = "Sampled"
    /\ tpc = "decide" => tobj # o
    /\ idToTrace[TraceOf[o]] = o =>
         tpc \in {"cleanup", "dropLoad", "dropDelete"} /\ TraceOf[token] = TraceOf[o]}

SettledTraces == {TraceOf[o] : o \in Settled}

\* What was passed on, what the history says and what was let through late
\* goes back to an object that is sampled for good.
Decided ==
  /\ \A g \in forwarded : home[g] \in Settled
  /\ \A t \in TraceIDs : decisionHistory[t] = "Sampled" => t \in SettledTraces
  /\ \A g \in late : TraceOf[g] \in SettledTraces

\* The inductive invariant of the fates.
FateInv == Inv /\ Homes /\ References /\ Decided

-----------------------------------------------------------------------------
(* What keeps the parts of the invariant. *)

\* An object stays created while no group is forgotten.
LEMMA CreatedFrame ==
  ASSUME UNCHANGED <<grp, home>>,
         \A c \in Consumers : pc'[c] = "store" => pc[c] = "store"
  PROVE  Created \subseteq Created'
BY Zenon DEF Created

\* The places of a group depend on the consumers, the objects and the fates.
LEMMA HomesFrame ==
  ASSUME Homes, UNCHANGED <<grp, home, received, forwarded, missed, late, refused>>
  PROVE  Homes'
BY Zenon DEF Homes

\* References are passed on or dropped; the ticker takes its object from the map.
LEMMA ReferencesStep ==
  ASSUME References, Created \subseteq Created',
         \A t \in TraceIDs : idToTrace'[t] = None \/ idToTrace'[t] = idToTrace[t],
         \A c \in Consumers : obj'[c] = None \/ obj'[c] = obj[c],
         UNCHANGED home,
         \/ tobj' = None
         \/ UNCHANGED <<tobj, token>>
         \/ \E t \in TraceIDs : t = TraceOf[token'] /\ tobj' = idToTrace[t] /\ TraceOf[tobj'] = t
  PROVE  References'
<1>1. /\ \A t \in TraceIDs : idToTrace'[t] # None => idToTrace'[t] \in Created'
      /\ \A c \in Consumers : obj'[c] # None => obj'[c] \in Created'
      /\ \A g \in Groups : home'[g] # None => home'[g] \in Created'
  BY Zenon DEF References
<1>2. tobj' # None => tobj' \in Created' /\ TraceOf[tobj'] = TraceOf[token']
  BY Zenon DEF References
<1> QED BY <1>1, <1>2, Zenon DEF References

\* What is decided stays so while sampled objects stay settled.
LEMMA DecidedStep ==
  ASSUME Decided, Settled \subseteq Settled',
         forwarded' = forwarded, late' = late, \A g \in forwarded : home'[g] = home[g],
         \A t \in TraceIDs : decisionHistory'[t] = "Sampled" => decisionHistory[t] = "Sampled"
  PROVE  Decided'
<1>1. SettledTraces \subseteq SettledTraces'
  BY Zenon DEF SettledTraces
<1> QED BY <1>1, Zenon DEF Decided

\* Consumers do not touch decisions, and put no object back on the map.
LEMMA SettledByOthers ==
  ASSUME Created \subseteq Created', UNCHANGED <<finalDecision, tpc, tobj, token>>,
         \A t \in TraceIDs : \/ idToTrace'[t] = None \/ idToTrace'[t] = idToTrace[t]
                             \/ idToTrace'[t] \notin Created
  PROVE  Settled \subseteq Settled'
<1> SUFFICES ASSUME NEW o \in Settled PROVE o \in Settled'
  BY Zenon
<1>1. o \in Groups /\ o # None /\ TraceOf[o] \in TraceIDs /\ o \in Created
  BY CascadeAssumption DEF Settled, Created
<1>2. idToTrace'[TraceOf[o]] = o => idToTrace[TraceOf[o]] = o
  BY <1>1, Zenon
<1> QED BY <1>1, <1>2, Zenon DEF Settled

\* Before cleanup the ticker takes its objects from the map, where none is settled.
LEMMA SettledByTicker ==
  ASSUME Linked, UNCHANGED <<idToTrace, grp, pc, home>>,
         tpc \notin {"cleanup", "dropLoad", "dropDelete"},
         \A o \in Settled : finalDecision'[o] = "Sampled",
         tpc' = "decide" => \E t \in TraceIDs : tobj' = idToTrace[t] /\ tobj' # None
  PROVE  Settled \subseteq Settled'
<1> SUFFICES ASSUME NEW o \in Settled PROVE o \in Settled'
  BY Zenon
<1>1. o \in Created /\ o \in Created' /\ idToTrace[TraceOf[o]] # o
  BY CreatedFrame, Zenon DEF Settled
<1>2. ASSUME tpc' = "decide" PROVE tobj' # o
  BY <1>1, <1>2, Zenon DEF Linked
<1> QED BY <1>1, <1>2, Zenon DEF Settled

\* A step of a consumer that moves no group, or of the batcher.
LEMMA QuietStep ==
  ASSUME FateInv,
         UNCHANGED <<grp, obj, home, received, forwarded, missed, late, refused>>,
         UNCHANGED <<finalDecision, tpc, tobj, token, decisionHistory>>,
         \A c \in Consumers : pc'[c] = "store" => pc[c] = "store",
         \A t \in TraceIDs : idToTrace'[t] = None \/ idToTrace'[t] = idToTrace[t]
  PROVE  Homes' /\ References' /\ Decided'
<1>1. Homes /\ References /\ Decided
  BY Zenon DEF FateInv
<1>2. Created \subseteq Created'
  BY CreatedFrame, Zenon
<1>3. Settled \subseteq Settled'
  BY <1>2, SettledByOthers, Zenon
<1>4. Homes'
  BY <1>1, HomesFrame, Zenon
<1>5. References'
  BY <1>1, <1>2, ReferencesStep, Zenon
<1>6. Decided'
  BY <1>1, <1>3, DecidedStep, Zenon
<1> QED BY <1>4, <1>5, <1>6, Zenon

\* A step of the ticker before cleanup.
LEMMA TickerStep ==
  ASSUME FateInv,
         UNCHANGED <<grp, pc, obj, home, received, forwarded, missed, late, refused>>,
         UNCHANGED <<idToTrace, decisionHistory>>,
         tpc \notin {"cleanup", "dropLoad", "dropDelete"},
         \A o \in Settled : finalDecision'[o] = "Sampled",
         \/ tpc' # "decide" /\ tobj' = None
         \/ \E t \in TraceIDs : t = TraceOf[token'] /\ tobj' = idToTrace[t] /\ tobj' # None
  PROVE  Homes' /\ References' /\ Decided'
<1>1. Homes /\ References /\ Decided /\ Linked
  BY Zenon DEF FateInv, Inv
<1>2. Created \subseteq Created'
  BY CreatedFrame, Zenon
<1>3. Settled \subseteq Settled'
  BY <1>1, SettledByTicker, Zenon
<1>4. Homes'
  BY <1>1, HomesFrame, Zenon
<1>5. References'
  BY <1>1, <1>2, ReferencesStep, Zenon DEF Linked
<1>6. Decided'
  BY <1>1, <1>3, DecidedStep, Zenon
<1> QED BY <1>4, <1>5, <1>6, Zenon

-----------------------------------------------------------------------------
(* The steps. *)

\* bufferTraces around the queue, dropTrace and the batcher's goroutine.
LEMMA QueueFates ==
  ASSUME FateInv,
         \/ \E c \in Consumers : \/ AddToCurrentBatch(c) \/ Enqueue(c) \/ Evict(c)
                                 \/ DropLoad(c) \/ DropDelete(c)
         \/ \E x \in Groups : FillBatch(x)
  PROVE  Homes' /\ References' /\ Decided'
<1>1. MapTypeOK /\ ConsumerTypeOK
  BY Zenon DEF FateInv, Inv, TypeOK
<1>2. UNCHANGED <<grp, obj, home, received, forwarded, missed, late, refused>>
  BY Zenon DEF AddToCurrentBatch, Enqueue, Evict, DropLoad, DropDelete, FillBatch,
     objVars, fateVars, consumerVars
<1>3. UNCHANGED <<finalDecision, tpc, tobj, token, decisionHistory>>
  BY Zenon DEF AddToCurrentBatch, Enqueue, Evict, DropLoad, DropDelete, FillBatch,
     objVars, tickVars
<1>4. \A c \in Consumers : pc'[c] = "store" => pc[c] = "store"
  BY <1>1 DEF AddToCurrentBatch, Enqueue, Evict, DropLoad, DropDelete, FillBatch,
     Goto, consumerVars, ConsumerTypeOK
<1>5. \A t \in TraceIDs : idToTrace'[t] = None \/ idToTrace'[t] = idToTrace[t]
  BY <1>1, Zenon DEF AddToCurrentBatch, Enqueue, Evict, DropLoad, DropDelete, FillBatch,
     mapVars, MapTypeOK
<1> QED BY <1>2, <1>3, <1>4, <1>5, QuietStep, Zenon

\* An arrival is turned away or let through at once; nobody else has the group.
LEMMA ArriveLateFates ==
  ASSUME FateInv, NEW c \in Consumers, NEW g \in Groups, ArriveLate(c, g)
  PROVE  Homes' /\ References' /\ Decided'
<1>1. Homes /\ References /\ Decided /\ TraceOf[g] \in TraceIDs
  BY CascadeAssumption DEF FateInv
<1>2. /\ home[g] = None /\ g \notin forwarded \cup late \cup refused \cup missed
      /\ \A d \in Consumers : grp[d] # g
  BY Zenon DEF ArriveLate, Arrived
<1>3. /\ UNCHANGED <<grp, pc, obj, home, received, forwarded, missed>>
      /\ UNCHANGED <<idToTrace, finalDecision, tpc, tobj, token, decisionHistory>>
  BY Zenon DEF ArriveLate, objVars, mapVars, tickVars, consumerVars
<1>4. \/ /\ decisionHistory[TraceOf[g]] = "Sampled" /\ late' = late \cup {g} /\ refused' = refused
      \/ late' = late /\ refused' = refused \cup {g}
  BY Zenon DEF ArriveLate
<1>5. Homes'
  BY <1>1, <1>2, <1>3, <1>4 DEF Homes
<1>6. Created' = Created /\ Settled' = Settled /\ SettledTraces' = SettledTraces
  BY <1>3, Zenon DEF Created, Settled, SettledTraces
<1>7. References'
  BY <1>1, <1>3, <1>6, Zenon DEF References
<1>8. Decided'
  BY <1>1, <1>3, <1>4, <1>6, Zenon DEF Decided
<1> QED BY <1>5, <1>7, <1>8

\* A group that nobody has is taken by a consumer, and creates nothing yet.
LEMMA ArriveNewFates ==
  ASSUME FateInv, NEW c \in Consumers, NEW g \in Groups, ArriveNew(c, g)
  PROVE  Homes' /\ References' /\ Decided' /\ Created \subseteq Created'
<1>1. Homes /\ References /\ Decided /\ ConsumerTypeOK
  BY Zenon DEF FateInv, Inv, TypeOK
<1>2. /\ home[g] = None /\ g \notin forwarded \cup late \cup refused \cup missed
      /\ \A d \in Consumers : grp[d] # g
  BY Zenon DEF ArriveNew, Arrived
<1>3. /\ UNCHANGED <<obj, home, received, forwarded, missed, late, refused>>
      /\ UNCHANGED <<idToTrace, finalDecision, tpc, tobj, token, decisionHistory>>
  BY Zenon DEF ArriveNew, objVars, mapVars, tickVars, fateVars
<1>4. /\ pc[c] = "idle" /\ grp[c] = None /\ grp'[c] = g /\ pc'[c] = "store"
      /\ \A d \in Consumers : d # c => grp'[d] = grp[d] /\ pc'[d] = pc[d]
  BY <1>1 DEF ArriveNew, Goto, ConsumerTypeOK
<1>5. Homes'
  BY <1>1, <1>2, <1>3, <1>4 DEF Homes
<1>6. Created \subseteq Created'
  BY <1>3, <1>4, CascadeAssumption DEF Created
<1>7. Settled \subseteq Settled'
  BY <1>3, <1>6, SettledByOthers, Zenon
<1>8. References'
  BY <1>1, <1>3, <1>6, ReferencesStep, Zenon
<1>9. Decided'
  BY <1>1, <1>3, <1>7, DecidedStep, Zenon
<1> QED BY <1>5, <1>6, <1>8, <1>9

\* The object that is stored is named by a group that has created none before.
LEMMA LoadOrStoreFates ==
  ASSUME FateInv, NEW c \in Consumers, LoadOrStore(c)
  PROVE  Homes' /\ References' /\ Decided' /\ Created \subseteq Created' /\ grp[c] \notin Created
<1> DEFINE g == grp[c]
           t == TraceOf[g]
<1>1. Homes /\ References /\ Decided /\ ConsumerTypeOK /\ MapTypeOK
  BY Zenon DEF FateInv, Inv, TypeOK
<1>2. /\ UNCHANGED <<grp, home, received, forwarded, missed, late, refused>>
      /\ UNCHANGED <<finalDecision, tpc, tobj, token, decisionHistory>>
  BY Zenon DEF LoadOrStore, tickVars, fateVars
<1>3. pc[c] = "store" /\ g \in Groups /\ t \in TraceIDs
  BY <1>1, CascadeAssumption DEF LoadOrStore, ConsumerTypeOK, Objects
<1>4. /\ pc'[c] # "store" /\ obj'[c] \in {g, idToTrace[t]} \ {None}
      /\ \A d \in Consumers : d # c => obj'[d] = obj[d] /\ pc'[d] = pc[d]
      /\ \A u \in TraceIDs : idToTrace'[u] = idToTrace[u] \/ idToTrace'[u] = g
  BY <1>1, <1>3, CascadeAssumption DEF LoadOrStore, Goto, ConsumerTypeOK, MapTypeOK
<1> HIDE DEF g, t
<1>5. g \notin Created /\ g \in Created' /\ g = grp[c]
  <2>1. g = grp[c] /\ g # None
    BY <1>3, CascadeAssumption DEF g
  <2>2. home[g] = None /\ \A d \in Consumers : grp[d] = g => pc[d] = "store"
    BY <1>1, <1>3, <2>1, Zenon DEF Homes
  <2> QED BY <1>2, <1>3, <1>4, <2>1, <2>2, Zenon DEF Created
<1>6. Created \subseteq Created'
  BY <1>2, <1>3, <1>4, CreatedFrame, Zenon
<1>7. Settled \subseteq Settled'
  BY <1>2, <1>4, <1>5, <1>6, SettledByOthers, Zenon
<1>8. Homes'
  BY <1>1, <1>2, HomesFrame, Zenon
<1>9. References'
  BY <1>1, <1>2, <1>3, <1>4, <1>5, <1>6, Zenon DEF References
<1>10. Decided'
  BY <1>1, <1>2, <1>7, DecidedStep, Zenon
<1> QED BY <1>5, <1>6, <1>8, <1>9, <1>10, Zenon

\* A group comes home to the object its consumer holds.
LEMMA AppendSpansFates ==
  ASSUME FateInv, NEW c \in Consumers, AppendSpans(c)
  PROVE  Homes' /\ References' /\ Decided' /\ Created \subseteq Created' /\ grp[c] \notin forwarded
<1> DEFINE g == grp[c]
           o == obj[c]
<1>1. Homes /\ References /\ Decided /\ ConsumerTypeOK /\ ObjectTypeOK /\ FateTypeOK
  BY Zenon DEF FateInv, Inv, TypeOK
<1>2. /\ UNCHANGED <<forwarded, late, refused>>
      /\ UNCHANGED <<idToTrace, finalDecision, tpc, tobj, token, decisionHistory>>
  BY Zenon DEF AppendSpans, tickVars, mapVars
<1>3. pc[c] = "append" /\ g \in Groups /\ o \in Groups /\ g # None /\ o # None
  BY <1>1, CascadeAssumption DEF AppendSpans, ConsumerTypeOK, Objects
<1>4. /\ grp'[c] = None /\ obj'[c] = None /\ pc'[c] = "idle"
      /\ \A d \in Consumers : d # c => grp'[d] = grp[d] /\ obj'[d] = obj[d] /\ pc'[d] = pc[d]
  BY <1>1 DEF AppendSpans, Goto, ConsumerTypeOK
<1>5. home'[g] = o /\ \A h \in Groups : h # g => home'[h] = home[h]
  BY <1>1, <1>3 DEF AppendSpans, FateTypeOK
<1>6. \/ /\ missed' = missed /\ received'[o] = received[o] \cup {g}
         /\ \A p \in Groups : p # o => received'[p] = received[p]
      \/ missed' = missed \cup {g} /\ received' = received
  BY <1>1, <1>3 DEF AppendSpans, ObjectTypeOK
<1>7. /\ g = grp[c] /\ o = obj[c] /\ home[g] = None /\ o \in Created
      /\ g \notin forwarded \cup missed \cup late \cup refused
      /\ \A p \in Groups : g \notin received[p]
  <2>1. g = grp[c] /\ o = obj[c]
    OBVIOUS
  <2> HIDE DEF g, o
  <2>2. home[g] = None /\ g \notin late \cup refused
    BY <1>1, <1>3, <2>1, Zenon DEF Homes
  <2>3. g \notin forwarded \cup missed /\ \A p \in Groups : g \notin received[p]
    BY <1>1, <1>3, <2>2, CascadeAssumption, Zenon DEF Homes
  <2>4. o \in Created
    BY <1>1, <1>3, <2>1, Zenon DEF References
  <2> QED BY <2>1, <2>2, <2>3, <2>4
<1>8. /\ forwarded \in SUBSET Groups /\ missed \in SUBSET Groups /\ received \in [Groups -> SUBSET Groups]
      /\ late \in SUBSET Groups /\ refused \in SUBSET Groups
  BY <1>1, Zenon DEF FateTypeOK, ObjectTypeOK
<1> HIDE DEF g, o
<1>9. Homes'
  <2>1. \A d, e \in Consumers : grp'[d] # None /\ grp'[d] = grp'[e] => d = e
    BY <1>1, <1>4 DEF Homes
  <2>2. \A d \in Consumers : grp'[d] # None => home'[grp'[d]] = None /\ grp'[d] \notin late' \cup refused'
    <3> SUFFICES ASSUME NEW d \in Consumers, grp'[d] # None
                 PROVE  home'[grp'[d]] = None /\ grp'[d] \notin late' \cup refused'
      OBVIOUS
    <3>1. d # c /\ grp'[d] = grp[d]
      BY <1>4
    <3>2. grp[d] \in Groups /\ grp[d] # g
      BY <1>1, <1>7, <3>1 DEF Homes, ConsumerTypeOK, Objects
    <3> QED BY <1>1, <1>2, <1>5, <3>1, <3>2, Zenon DEF Homes
  <2>3. \A h \in forwarded' \cup missed' : home'[h] # None
    BY <1>1, <1>2, <1>3, <1>5, <1>6, <1>8, Zenon DEF Homes
  <2>4. /\ \A h \in late' \cup refused' : home'[h] = None
        /\ late' \cap refused' = {} /\ forwarded' \cap missed' = {}
    BY <1>1, <1>2, <1>5, <1>6, <1>7, <1>8 DEF Homes
  <2>5. \A p \in Groups : \A h \in received'[p] : home'[h] = p /\ h \notin forwarded' \cup missed'
    BY <1>1, <1>2, <1>3, <1>5, <1>6, <1>7, <1>8 DEF Homes
  <2> QED BY <2>1, <2>2, <2>3, <2>4, <2>5, Zenon DEF Homes
<1>10. Created \subseteq Created'
  BY <1>3, <1>4, <1>5, <1>7 DEF Created
<1>11. Settled \subseteq Settled'
  BY <1>2, <1>10, SettledByOthers, Zenon
<1>12. References'
  BY <1>1, <1>2, <1>3, <1>4, <1>5, <1>7, <1>10, Zenon DEF References
<1>13. Decided'
  BY <1>1, <1>2, <1>5, <1>7, <1>8, <1>11, DecidedStep, Zenon
<1> QED BY <1>7, <1>9, <1>10, <1>12, <1>13, Zenon

\* The ticker up to the first decision.
LEMMA FirstPassFates ==
  ASSUME FateInv,
         \/ Tick \/ Pass1Decide
         \/ \E x \in Groups : Pass1Skip(x) \/ Pass1Evaluate(x) \/ Pass2Skip(x)
  PROVE  Homes' /\ References' /\ Decided'
<1>1. ObjectTypeOK /\ TickerTypeOK
  BY Zenon DEF FateInv, Inv, TypeOK
<1>2. /\ UNCHANGED <<grp, pc, obj, home, received, forwarded, missed, late, refused>>
      /\ UNCHANGED <<idToTrace, decisionHistory>>
  BY Zenon DEF Tick, Pass1Decide, Pass1Skip, Pass1Evaluate, Pass2Skip, mapVars, objVars,
     consumerVars, fateVars
<1>3. tpc \notin {"cleanup", "dropLoad", "dropDelete"}
  BY DEF Tick, Pass1Decide, Pass1Skip, Pass1Evaluate, Pass2Skip
<1>4. \A o \in Settled : finalDecision'[o] = "Sampled"
  <2>1. CASE finalDecision' = finalDecision
    BY <2>1, Zenon DEF Settled
  <2>2. CASE Pass1Decide
    BY <1>1, <2>2 DEF Settled, Created, Pass1Decide, ObjectTypeOK
  <2> QED BY <2>1, <2>2, Zenon DEF Tick, Pass1Skip, Pass1Evaluate, Pass2Skip, objVars
<1>5. \/ tpc' # "decide" /\ tobj' = None
      \/ \E t \in TraceIDs : t = TraceOf[token'] /\ tobj' = idToTrace[t] /\ tobj' # None
  <2>1. ASSUME NEW x \in Groups, Pass1Evaluate(x)
        PROVE  \E t \in TraceIDs : t = TraceOf[token'] /\ tobj' = idToTrace[t] /\ tobj' # None
    BY <2>1, CascadeAssumption, Zenon DEF Pass1Evaluate
  <2>2. ASSUME NEW x \in Groups, Pass1Skip(x) \/ Pass2Skip(x)
        PROVE  tpc' # "decide" /\ tobj' = None
    BY <1>1, <2>2 DEF Pass1Skip, Pass2Skip, Pass1Next, Pass2Next, TickerTypeOK
  <2>3. ASSUME Tick \/ Pass1Decide
        PROVE  tpc' # "decide" /\ tobj' = None
    BY <1>1, <2>3 DEF Tick, Pass1Decide, Pass1Next, TickerTypeOK
  <2> QED BY <2>1, <2>2, <2>3, Zenon
<1> QED BY <1>2, <1>3, <1>4, <1>5, TickerStep, Zenon

\* secondPass decides only what was given a second chance.
LEMMA SecondPassFates ==
  ASSUME FateInv, NEW x \in Groups, SecondPass(x)
  PROVE  Homes' /\ References' /\ Decided'
<1>1. ObjectTypeOK
  BY Zenon DEF FateInv, Inv, TypeOK
<1>2. /\ UNCHANGED <<grp, pc, obj, home, received, forwarded, missed, late, refused>>
      /\ UNCHANGED <<idToTrace, decisionHistory>>
  BY Zenon DEF SecondPass, mapVars, consumerVars, fateVars
<1>3. tpc \notin {"cleanup", "dropLoad", "dropDelete"}
  BY DEF SecondPass
<1>4. \A o \in Settled : finalDecision'[o] = "Sampled"
  BY <1>1 DEF Settled, Created, SecondPass, ObjectTypeOK
<1>5. \E t \in TraceIDs : t = TraceOf[token'] /\ tobj' = idToTrace[t] /\ tobj' # None
  BY CascadeAssumption, Zenon DEF SecondPass
<1> QED BY <1>2, <1>3, <1>4, <1>5, TickerStep, Zenon

\* What is remembered as sampled is decided for good from then on.
LEMMA RememberFates ==
  ASSUME FateInv, Remember
  PROVE  Homes' /\ References' /\ Decided'
<1>1. /\ Homes /\ References /\ Decided
      /\ MapTypeOK /\ ObjectTypeOK /\ TickerTypeOK
  BY Zenon DEF FateInv, Inv, TypeOK
<1>2. /\ UNCHANGED <<grp, pc, obj, home, received, forwarded, missed, late, refused>>
      /\ UNCHANGED <<idToTrace, finalDecision, tobj, token>> /\ tpc = "history" /\ tpc' = "cleanup"
  BY Zenon DEF Remember, mapVars, objVars, consumerVars, fateVars
<1>3. tobj # None /\ tobj \in Created /\ TraceOf[tobj] = TraceOf[token]
  BY <1>1, <1>2 DEF TickerTypeOK, References
<1>4. \A t \in TraceIDs : decisionHistory'[t] = "Sampled" =>
        \/ decisionHistory[t] = "Sampled"
        \/ t = TraceOf[token] /\ finalDecision[tobj] = "Sampled"
  <2> DEFINE added == [decisionHistory EXCEPT ![TraceOf[token]] = finalDecision[tobj]]
  <2>1. decisionHistory' = added \/ \E u \in TraceIDs : decisionHistory' = [added EXCEPT ![u] = None]
    BY Zenon DEF Remember
  <2>2. added \in [TraceIDs -> Decisions \cup {None}]
    BY <1>1, <1>3, Zenon DEF MapTypeOK, ObjectTypeOK, Created
  <2>3. \A t \in TraceIDs : \/ added[t] = decisionHistory[t]
                            \/ t = TraceOf[token] /\ added[t] = finalDecision[tobj]
    BY <1>1 DEF MapTypeOK
  <2> HIDE DEF added
  <2>4. \A t \in TraceIDs : decisionHistory'[t] \in {added[t], None}
    BY <2>1, <2>2
  <2> QED BY <2>3, <2>4, DecisionsAssumption, Zenon DEF Decisions
<1>5. Created \subseteq Created'
  BY <1>2, CreatedFrame, Zenon
<1>6. Settled \subseteq Settled'
  BY <1>2, <1>5 DEF Settled
<1>7. finalDecision[tobj] = "Sampled" => TraceOf[token] \in SettledTraces'
  BY <1>2, <1>3, <1>5 DEF Settled, SettledTraces
<1>8. Homes'
  BY <1>1, <1>2, HomesFrame, Zenon
<1>9. References'
  BY <1>1, <1>2, <1>5, ReferencesStep, Zenon
<1>10. Decided'
  <2>1. SettledTraces \subseteq SettledTraces'
    BY <1>6, Zenon DEF SettledTraces
  <2> QED BY <1>1, <1>2, <1>4, <1>6, <1>7, <2>1, Zenon DEF Decided
<1> QED BY <1>8, <1>9, <1>10

\* What is passed on comes from the object that was decided.
LEMMA CleanupFates ==
  ASSUME FateInv, Cleanup
  PROVE  Homes' /\ References' /\ Decided'
<1>1. /\ Homes /\ References /\ Decided
      /\ ObjectTypeOK /\ TickerTypeOK
  BY Zenon DEF FateInv, Inv, TypeOK
<1>2. /\ UNCHANGED <<grp, pc, obj, home, missed, late, refused>>
      /\ UNCHANGED <<idToTrace, finalDecision, token, decisionHistory>>
      /\ tpc = "cleanup" /\ tpc' = "dropLoad" /\ tobj' = None
  BY Zenon DEF Cleanup, mapVars, consumerVars
<1>3. tobj \in Groups /\ tobj \in Created /\ TraceOf[tobj] = TraceOf[token]
  BY <1>1, <1>2 DEF TickerTypeOK, References, Objects
<1>4. /\ received'[tobj] = {} /\ \A o \in Groups : received'[o] = {} \/ received'[o] = received[o]
      /\ \/ forwarded' = forwarded
         \/ finalDecision[tobj] = "Sampled" /\ forwarded' = forwarded \cup received[tobj]
  BY <1>1, <1>3 DEF Cleanup, ObjectTypeOK
<1>5. Created \subseteq Created'
  BY <1>2, CreatedFrame, Zenon
<1>6. Settled \subseteq Settled'
  BY <1>2, <1>5 DEF Settled
<1>7. finalDecision[tobj] = "Sampled" => tobj \in Settled'
  BY <1>2, <1>3, <1>5 DEF Settled
<1>8. \A g \in received[tobj] : home[g] = tobj /\ home[g] # None /\ g \notin missed
  BY <1>1, <1>3, CascadeAssumption DEF Homes
<1>9. Homes'
  <2>1. \A g \in forwarded' \cup missed' : home'[g] # None
    BY <1>1, <1>2, <1>4, <1>8, Zenon DEF Homes
  <2>2. forwarded' \cap missed' = {}
    BY <1>1, <1>2, <1>4, <1>8, Zenon DEF Homes
  <2>3. \A o \in Groups : \A g \in received'[o] : home'[g] = o /\ g \notin forwarded' \cup missed'
    <3> SUFFICES ASSUME NEW o \in Groups, NEW g \in received'[o]
                 PROVE  home'[g] = o /\ g \notin forwarded' \cup missed'
      OBVIOUS
    <3>1. g \in received[o] /\ o # tobj
      BY <1>4, Zenon
    <3>2. home[g] = o /\ g \notin forwarded \cup missed
      BY <1>1, <3>1, Zenon DEF Homes
    <3>3. g \notin received[tobj]
      BY <1>8, <3>1, <3>2, Zenon
    <3> QED BY <1>2, <1>4, <3>2, <3>3, Zenon
  <2> QED BY <1>1, <1>2, <2>1, <2>2, <2>3, Zenon DEF Homes
<1>10. References'
  BY <1>1, <1>2, <1>5, ReferencesStep, Zenon
<1>11. Decided'
  <2>1. SettledTraces \subseteq SettledTraces'
    BY <1>6, Zenon DEF SettledTraces
  <2>2. \A g \in forwarded' : home'[g] \in Settled'
    BY <1>1, <1>2, <1>4, <1>6, <1>7, <1>8, Zenon DEF Decided
  <2> QED BY <1>1, <1>2, <2>1, <2>2, Zenon DEF Decided
<1> QED BY <1>9, <1>10, <1>11

\* The ticker's dropTrace takes the decided trace off the map, or finds it gone.
LEMMA TickDropFates ==
  ASSUME FateInv, TickDropLoad \/ TickDropDelete
  PROVE  Homes' /\ References' /\ Decided'
<1>1. /\ Homes /\ References /\ Decided
      /\ MapTypeOK /\ TickerTypeOK
  BY Zenon DEF FateInv, Inv, TypeOK
<1>2. /\ UNCHANGED <<grp, pc, obj, home, received, forwarded, missed, late, refused>>
      /\ UNCHANGED <<finalDecision, decisionHistory>> /\ tobj' = tobj
  BY Zenon DEF TickDropLoad, TickDropDelete, objVars, consumerVars, fateVars
<1>3. tobj = None /\ tpc' # "decide"
  BY <1>1 DEF TickDropLoad, TickDropDelete, Pass2Next, TickerTypeOK
<1>4. \A t \in TraceIDs : idToTrace'[t] = None \/ idToTrace'[t] = idToTrace[t]
  BY <1>1, Zenon DEF TickDropLoad, TickDropDelete, MapTypeOK, mapVars
<1>5. Created \subseteq Created'
  BY <1>2, CreatedFrame, Zenon
<1>6. Settled \subseteq Settled'
  <2> SUFFICES ASSUME NEW o \in Settled PROVE o \in Settled'
    BY Zenon
  <2>1. o \in Groups /\ o # None /\ TraceOf[o] \in TraceIDs /\ o \in Created'
    BY <1>5, CascadeAssumption DEF Settled, Created
  <2>2. ASSUME idToTrace'[TraceOf[o]] = o
        PROVE  tpc' \in {"cleanup", "dropLoad", "dropDelete"} /\ TraceOf[token'] = TraceOf[o]
    <3>1. idToTrace[TraceOf[o]] = o /\ TraceOf[token] = TraceOf[o]
      BY <1>4, <2>1, <2>2, Zenon DEF Settled
    <3> QED BY <1>1, <2>1, <2>2, <3>1 DEF TickDropLoad, TickDropDelete, MapTypeOK
  <2> QED BY <1>2, <1>3, <2>1, <2>2, Zenon DEF Settled
<1>7. Homes'
  BY <1>1, <1>2, HomesFrame, Zenon
<1>8. References'
  BY <1>1, <1>2, <1>3, <1>4, <1>5, ReferencesStep, Zenon
<1>9. Decided'
  BY <1>1, <1>2, <1>6, DecidedStep, Zenon
<1> QED BY <1>7, <1>8, <1>9

-----------------------------------------------------------------------------
(* The theorems. *)

\* Nothing has arrived and nothing is decided.
LEMMA InitFates == Init => FateInv
<1> SUFFICES ASSUME Init PROVE FateInv
  OBVIOUS
<1>1. /\ grp = [c \in Consumers |-> None] /\ obj = [c \in Consumers |-> None]
      /\ home = [g \in Groups |-> None] /\ received = [o \in Groups |-> {}]
      /\ forwarded = {} /\ missed = {} /\ late = {} /\ refused = {}
      /\ idToTrace = [t \in TraceIDs |-> None] /\ decisionHistory = [t \in TraceIDs |-> None]
      /\ tobj = None
  BY Zenon DEF Init
<1>2. Homes /\ References
  BY ONLY <1>1, Zenon DEF Homes, References
<1>3. Decided
  BY ONLY <1>1, DecisionsAssumption, Zenon DEF Decided, Decisions
<1> QED BY <1>2, <1>3, InitInv, Zenon DEF FateInv

\* Every step of the system keeps the fates.
LEMMA NextFates == FateInv /\ [Next]_vars => FateInv'
<1> SUFFICES ASSUME FateInv, [Next]_vars PROVE FateInv'
  OBVIOUS
<1> DEFINE Kept == Homes' /\ References' /\ Decided'
<1>1. ASSUME NEW c \in Consumers, NEW g \in Groups, ArriveLate(c, g) \/ ArriveNew(c, g)
      PROVE  Kept
  BY <1>1, ArriveLateFates, ArriveNewFates, Zenon
<1>2. ASSUME NEW c \in Consumers, Consumer(c)
      PROVE  Kept
  BY <1>2, LoadOrStoreFates, AppendSpansFates, QueueFates, Zenon DEF Consumer
<1>3. ASSUME NEW x \in Groups, FillBatch(x)
      PROVE  Kept
  BY <1>3, QueueFates, Zenon
<1>4. ASSUME Ticker PROVE Kept
  <2>1. ASSUME NEW x \in Groups, Pass1Skip(x) \/ Pass1Evaluate(x) \/ Pass2Skip(x) PROVE Kept
    BY <2>1, FirstPassFates, Zenon
  <2>2. ASSUME NEW x \in Groups, SecondPass(x) PROVE Kept
    BY <2>2, SecondPassFates, Zenon
  <2>3. ASSUME Tick \/ Pass1Decide PROVE Kept
    BY <2>3, FirstPassFates, Zenon
  <2>4. ASSUME Remember \/ Cleanup \/ TickDropLoad \/ TickDropDelete PROVE Kept
    BY <2>4, RememberFates, CleanupFates, TickDropFates, Zenon
  <2> HIDE DEF Kept
  <2> QED BY <1>4, <2>1, <2>2, <2>3, <2>4, Zenon DEF Ticker
<1>5. ASSUME UNCHANGED vars PROVE Kept
  <2>1. /\ UNCHANGED <<grp, obj, home, received, forwarded, missed, late, refused>>
        /\ UNCHANGED <<finalDecision, tpc, tobj, token, decisionHistory>>
        /\ pc' = pc /\ idToTrace' = idToTrace
    BY <1>5, Zenon DEF vars, objVars, mapVars, consumerVars, tickVars, fateVars
  <2>2. /\ \A c \in Consumers : pc'[c] = "store" => pc[c] = "store"
        /\ \A t \in TraceIDs : idToTrace'[t] = None \/ idToTrace'[t] = idToTrace[t]
    BY <2>1, Zenon
  <2> QED BY <2>1, <2>2, QuietStep, Zenon
<1> HIDE DEF Kept
<1>6. Kept
  BY <1>1, <1>2, <1>3, <1>4, <1>5, Zenon DEF Next
<1>7. Inv'
  BY NextInv, Zenon DEF FateInv
<1> QED BY <1>6, <1>7, Zenon DEF FateInv, Kept

\* Late spans are passed on only for a trace of which an object was sampled, and
\* what cleanup passed on belongs to an object that stays sampled, whatever
\* evictions, returning ids and stale entries do: the decision history,
\* the decisions written without the lock, and cleanup.
THEOREM DecisionsAreFollowed ==
  Spec => [](LateFollowsDecision /\ OnlySampledForwarded)
<1>1. FateInv => LateFollowsDecision /\ OnlySampledForwarded
  <2> SUFFICES ASSUME FateInv PROVE LateFollowsDecision /\ OnlySampledForwarded
    OBVIOUS
  <2>1. Decided
    BY Zenon DEF FateInv
  <2>2. LateFollowsDecision
    BY <2>1, Zenon DEF Decided, SettledTraces, Settled, Created, LateFollowsDecision
  <2>3. OnlySampledForwarded
    BY <2>1, Zenon DEF Decided, Settled, OnlySampledForwarded
  <2> QED BY <2>2, <2>3
<1> QED BY InitFates, NextFates, <1>1, PTL DEF Spec
-----------------------------------------------------------------------------
(* What the limiter is charged for. *)

\* An object that is not created yet is not decided.
Fresh == \A o \in Groups \ Created : finalDecision[o] = "Unspecified"

\* An object on the map has spans to charge.
Counted == \A t \in TraceIDs : idToTrace[t] # None => spanCount[idToTrace[t]] > 0

\* A decided object is on the map only while the batch has an entry of its trace.
InBatch ==
  \A t \in TraceIDs :
    idToTrace[t] # None /\ finalDecision[idToTrace[t]] # "Unspecified"
      => \E x \in batch : TraceOf[x] = t

\* The objects whose spans were passed on in this second or can still be.
Sampling ==
  {home[g] : g \in emitted} \cup
  {o \in Groups :
    \/ finalDecision[o] = "Sampled" /\ idToTrace[TraceOf[o]] = o
    \/ finalDecision[o] = "Sampled" /\ tobj = o /\ tpc \in {"history", "cleanup"}
    \/ verdict = "Sampled" /\ tobj = o /\ tpc = "decide"}

\* What a step does to the limiter and to these objects: one is added only when
\* the limiter is charged for it, and a new second starts with none.
Charging ==
  \/ Sampling' \subseteq Sampling /\ UNCHANGED <<limiter, second>>
  \/ Sampling' = {} /\ second' > second /\ UNCHANGED limiter
  \/ \E n \in Nat \ {0}, o \in Groups :
       LET rate == UpdateRate(limiter, second, n)
       IN /\ second' = second /\ limiter' = rate.limiter
          /\ Sampling' \subseteq Sampling \cup (IF rate.decision = "Sampled" THEN {o} ELSE {})

\* The inductive invariant behind the limit.
ChargeInv == FateInv /\ Fresh /\ Counted /\ InBatch

\* A step that decides nothing: the map loses objects or gains one that was not
\* created before, and the batch loses entries of traces that are off the map.
LEMMA QuietCharge ==
  ASSUME ChargeInv, Created \subseteq Created',
         UNCHANGED <<finalDecision, emitted, limiter, second>>,
         \A g \in emitted : home'[g] = home[g],
         \A o \in Groups : spanCount[o] > 0 => spanCount'[o] > 0,
         \A t \in TraceIDs : \/ idToTrace'[t] = None \/ idToTrace'[t] = idToTrace[t]
                             \/ /\ idToTrace'[t] \in Groups \ Created
                                /\ spanCount'[idToTrace'[t]] > 0,
         \A x \in batch : x \in batch' \/ idToTrace'[TraceOf[x]] = None,
         tpc' = "decide" => UNCHANGED <<tpc, tobj, verdict>>,
         tpc' \in {"history", "cleanup"} => tobj' = tobj /\ tpc \in {"history", "cleanup"}
  PROVE  Fresh' /\ Counted' /\ InBatch' /\ Charging
<1>1. Fresh /\ Counted /\ InBatch /\ MapTypeOK
  BY Zenon DEF ChargeInv, FateInv, Inv, TypeOK
<1>2. \A t \in TraceIDs : idToTrace[t] # None => idToTrace[t] \in Groups
  BY <1>1, Zenon DEF MapTypeOK, Objects
<1>3. Fresh'
  BY <1>1, Zenon DEF Fresh
<1>4. Counted'
  BY <1>1, <1>2, Zenon DEF Counted
<1>5. InBatch'
  <2> SUFFICES ASSUME NEW t \in TraceIDs,
                      idToTrace'[t] # None, finalDecision'[idToTrace'[t]] # "Unspecified"
               PROVE  \E x \in batch' : TraceOf[x] = t
    BY Zenon DEF InBatch
  <2>1. idToTrace'[t] = idToTrace[t]
    BY <1>1, Zenon DEF Fresh
  <2>2. PICK x \in batch : TraceOf[x] = t
    BY <1>1, <2>1, Zenon DEF InBatch
  <2> QED BY <2>2, Zenon
<1>6. Sampling' \subseteq Sampling
  <2> SUFFICES ASSUME NEW o \in Sampling' PROVE o \in Sampling
    BY Zenon
  <2>1. CASE \E g \in emitted' : o = home'[g]
    BY <2>1, Zenon DEF Sampling
  <2>2. CASE o \in Groups /\ finalDecision'[o] = "Sampled" /\ idToTrace'[TraceOf[o]] = o
    <3>1. TraceOf[o] \in TraceIDs /\ o # None
      BY <2>2, CascadeAssumption
    <3>2. o \in Created
      BY <1>1, <2>2 DEF Fresh
    <3>3. idToTrace[TraceOf[o]] = o
      BY <2>2, <3>1, <3>2, Zenon
    <3> QED BY <2>2, <3>3, Zenon DEF Sampling
  <2>3. CASE /\ o \in Groups /\ tobj' = o
             /\ \/ finalDecision'[o] = "Sampled" /\ tpc' \in {"history", "cleanup"}
                \/ verdict' = "Sampled" /\ tpc' = "decide"
    BY <2>3, Zenon DEF Sampling
  <2> QED BY <2>1, <2>2, <2>3, Zenon DEF Sampling
<1> QED BY <1>3, <1>4, <1>5, <1>6, Zenon DEF Charging

\* bufferTraces around the queue, dropTrace and the batcher's goroutine.
LEMMA QueueCharge ==
  ASSUME ChargeInv,
         \/ \E c \in Consumers : \/ AddToCurrentBatch(c) \/ Enqueue(c) \/ Evict(c)
                                 \/ DropLoad(c) \/ DropDelete(c)
                                 \/ \E g \in Groups : ArriveLate(c, g)
         \/ \E x \in Groups : FillBatch(x)
  PROVE  Fresh' /\ Counted' /\ InBatch' /\ Charging
<1>1. MapTypeOK /\ ConsumerTypeOK
  BY Zenon DEF ChargeInv, FateInv, Inv, TypeOK
<1>2. /\ UNCHANGED <<finalDecision, emitted, limiter, second>>
      /\ grp' = grp /\ home' = home /\ spanCount' = spanCount
  BY Zenon DEF AddToCurrentBatch, Enqueue, Evict, DropLoad, DropDelete, ArriveLate, FillBatch,
     objVars, fateVars, consumerVars, tickVars
<1>3. UNCHANGED <<tpc, tobj, verdict>> /\ batch' = batch
  BY Zenon DEF AddToCurrentBatch, Enqueue, Evict, DropLoad, DropDelete, ArriveLate, FillBatch,
     tickVars
<1>4. \A c \in Consumers : pc'[c] = "store" => pc[c] = "store"
  BY <1>1 DEF AddToCurrentBatch, Enqueue, Evict, DropLoad, DropDelete, ArriveLate, FillBatch,
     Goto, consumerVars, ConsumerTypeOK
<1>5. \A t \in TraceIDs : idToTrace'[t] = None \/ idToTrace'[t] = idToTrace[t]
  BY <1>1, Zenon DEF AddToCurrentBatch, Enqueue, Evict, DropLoad, DropDelete, ArriveLate,
     FillBatch, MapTypeOK, mapVars
<1>6. Created \subseteq Created'
  BY <1>2, <1>4, CreatedFrame, Zenon
<1> QED BY <1>2, <1>3, <1>5, <1>6, QuietCharge, Zenon

\* A consumer takes, stores or appends a group.
LEMMA ConsumerCharge ==
  ASSUME ChargeInv, NEW c \in Consumers,
         LoadOrStore(c) \/ AppendSpans(c) \/ \E g \in Groups : ArriveNew(c, g)
  PROVE  Fresh' /\ Counted' /\ InBatch' /\ Charging
<1>1. FateInv /\ MapTypeOK /\ ConsumerTypeOK /\ ObjectTypeOK /\ FateTypeOK
  BY Zenon DEF ChargeInv, FateInv, Inv, TypeOK
<1>2. UNCHANGED <<finalDecision, limiter, second>> /\ emitted' = emitted
  BY Zenon DEF LoadOrStore, AppendSpans, ArriveNew, objVars, fateVars, tickVars
<1>3. UNCHANGED <<tpc, tobj, verdict>> /\ batch' = batch
  BY Zenon DEF LoadOrStore, AppendSpans, ArriveNew, tickVars
<1>4. Created \subseteq Created'
  BY <1>1, LoadOrStoreFates, AppendSpansFates, ArriveNewFates, Zenon
<1>5. \A g \in emitted : home'[g] = home[g]
  <2>1. CASE home' = home
    BY <2>1, Zenon
  <2>2. CASE AppendSpans(c)
    <3>1. grp[c] \notin forwarded
      BY <1>1, <2>2, AppendSpansFates, Zenon
    <3> QED BY <1>1, <2>2, <3>1, Zenon DEF AppendSpans, FateTypeOK
  <2> QED BY <2>1, <2>2, Zenon DEF LoadOrStore, ArriveNew, fateVars
<1>6. CASE idToTrace' = idToTrace /\ spanCount' = spanCount
  BY <1>2, <1>3, <1>4, <1>5, <1>6, QuietCharge, Zenon
<1>7. CASE LoadOrStore(c)
  <2> DEFINE g == grp[c]
             t == TraceOf[g]
  <2>1. g \in Groups /\ t \in TraceIDs /\ g \notin Created
    <3>1. pc[c] # "idle" /\ g \notin Created
      BY <1>1, <1>7, LoadOrStoreFates, Zenon DEF LoadOrStore
    <3>2. g \in Groups
      BY <1>1, <3>1, Zenon DEF ConsumerTypeOK, Objects
    <3> QED BY <3>1, <3>2, CascadeAssumption, Zenon
  <2>2. spanCount \in [Groups -> Nat] /\ idToTrace \in [TraceIDs -> Objects]
    BY <1>1, Zenon DEF ObjectTypeOK, MapTypeOK
  <2>3. \/ /\ idToTrace' = [idToTrace EXCEPT ![t] = g]
           /\ spanCount' = [spanCount EXCEPT ![g] = 1]
        \/ /\ idToTrace' = idToTrace
           /\ spanCount' = [spanCount EXCEPT ![idToTrace[t]] = @ + 1]
    BY <1>7, Zenon DEF LoadOrStore
  <2> HIDE DEF g, t
  <2>4. \A o \in Groups : spanCount[o] > 0 => spanCount'[o] > 0
    BY ONLY <2>1, <2>2, <2>3
  <2>5. \A u \in TraceIDs : \/ idToTrace'[u] = idToTrace[u]
                            \/ idToTrace'[u] = g /\ spanCount'[g] > 0
    <3>1. CASE /\ idToTrace' = [idToTrace EXCEPT ![t] = g]
               /\ spanCount' = [spanCount EXCEPT ![g] = 1]
      BY ONLY <2>1, <2>2, <3>1
    <3>2. CASE idToTrace' = idToTrace
      BY <3>2, Zenon
    <3> QED BY <2>3, <3>1, <3>2, Zenon
  <2> QED BY <1>2, <1>3, <1>4, <1>5, <2>1, <2>4, <2>5, QuietCharge, Zenon
<1> QED BY <1>6, <1>7, Zenon DEF AppendSpans, ArriveNew, mapVars, objVars

\* The ticker between the decisions: what is skipped or dropped is off the map.
LEMMA TickerCharge ==
  ASSUME ChargeInv,
         \/ \E x \in Groups : Pass1Skip(x) \/ Pass2Skip(x)
         \/ Remember \/ TickDropLoad \/ TickDropDelete
  PROVE  Fresh' /\ Counted' /\ InBatch' /\ Charging
<1>1. MapTypeOK /\ TickerTypeOK
  BY Zenon DEF ChargeInv, FateInv, Inv, TypeOK
<1>2. /\ UNCHANGED <<finalDecision, emitted, limiter, second>>
      /\ grp' = grp /\ home' = home /\ pc' = pc /\ spanCount' = spanCount /\ tobj' = tobj
  BY Zenon DEF Pass1Skip, Pass2Skip, Remember, TickDropLoad, TickDropDelete,
     objVars, fateVars, consumerVars
<1>3. /\ tpc' # "decide"
      /\ tpc' \in {"history", "cleanup"} => tpc \in {"history", "cleanup"}
  BY DEF Pass1Skip, Pass2Skip, Remember, TickDropLoad, TickDropDelete, Pass1Next, Pass2Next
<1>4. \A t \in TraceIDs : idToTrace'[t] = None \/ idToTrace'[t] = idToTrace[t]
  BY <1>1, Zenon DEF Pass1Skip, Pass2Skip, Remember, TickDropLoad, TickDropDelete,
     MapTypeOK, mapVars
<1>5. \A x \in batch : x \in batch' \/ idToTrace'[TraceOf[x]] = None
  <2>1. CASE batch' = batch
    BY <2>1, Zenon
  <2>2. ASSUME NEW x \in Groups, Pass2Skip(x)
        PROVE  \A y \in batch : y \in batch' \/ idToTrace'[TraceOf[y]] = None
    BY <1>1, <2>2 DEF Pass2Skip, Pass2Next, TickerTypeOK, mapVars
  <2>3. CASE TickDropLoad
    BY <1>1, <2>3 DEF TickDropLoad, Pass2Next, TickerTypeOK, mapVars
  <2>4. CASE TickDropDelete
    <3>1. batch' = batch \ {token} /\ TraceOf[token] \in TraceIDs
      BY <1>1, <2>4, CascadeAssumption DEF TickDropDelete, Pass2Next, TickerTypeOK
    <3>2. idToTrace'[TraceOf[token]] = None
      BY <1>1, <2>4, <3>1, Zenon DEF TickDropDelete, MapTypeOK
    <3> QED BY <3>1, <3>2, Zenon
  <2> QED BY <2>1, <2>2, <2>3, <2>4, Zenon DEF Pass1Skip, Pass1Next, Remember
<1>6. Created \subseteq Created'
  BY <1>2, CreatedFrame, Zenon
<1> QED BY <1>2, <1>3, <1>4, <1>5, <1>6, QuietCharge, Zenon

\* A tick finds the map without decided objects.
LEMMA TickCharge ==
  ASSUME ChargeInv, Tick
  PROVE  Fresh' /\ Counted' /\ InBatch' /\ Charging
<1>1. Fresh /\ Counted /\ InBatch /\ MapTypeOK /\ TickerTypeOK /\ Linked
  BY Zenon DEF ChargeInv, FateInv, Inv, TypeOK
<1>2. /\ grp' = grp /\ home' = home /\ pc' = pc /\ idToTrace' = idToTrace
      /\ finalDecision' = finalDecision /\ spanCount' = spanCount /\ limiter' = limiter
      /\ tobj' = tobj
  BY Zenon DEF Tick, mapVars, objVars, consumerVars
<1>3. batch = {} /\ tobj = None /\ tpc' \in {"idle", "pass1"}
  BY <1>1 DEF Tick, TickerTypeOK
<1>4. \A t \in TraceIDs : idToTrace[t] # None => finalDecision[idToTrace[t]] = "Unspecified"
  BY <1>1, <1>3, Zenon DEF InBatch
<1>5. Created \subseteq Created'
  BY <1>2, CreatedFrame, Zenon
<1>6. Fresh'
  BY <1>1, <1>2, <1>5, Zenon DEF Fresh
<1>7. Counted'
  BY <1>1, <1>2, Zenon DEF Counted
<1>8. InBatch'
  BY <1>2, <1>4, Zenon DEF InBatch
<1>9. Sampling' = {home[g] : g \in emitted'}
  <2>1. ASSUME NEW o \in Groups, finalDecision[o] = "Sampled" PROVE idToTrace[TraceOf[o]] # o
    <3>1. TraceOf[o] \in TraceIDs /\ o # None
      BY CascadeAssumption
    <3> QED BY <1>4, <2>1, <3>1
  <2>2. \A o \in Groups : tobj' # o
    BY <1>2, <1>3, CascadeAssumption
  <2> QED BY <1>2, <2>1, <2>2, Zenon DEF Sampling
<1>10. PICK t \in second..MaxSecond : second' = t /\ emitted' = IF t > second THEN {} ELSE emitted
  BY Zenon DEF Tick
<1>11. second \in Nat /\ second' \in Nat /\ second' >= second
  BY <1>1, <1>10, CascadeAssumption DEF TickerTypeOK
<1>12. CASE second' > second
  <2>1. Sampling' = {}
    BY <1>9, <1>10, <1>12, Zenon
  <2> QED BY <1>2, <1>6, <1>7, <1>8, <1>12, <2>1, Zenon DEF Charging
<1>13. CASE second' = second
  <2>1. emitted' = emitted
    BY <1>10, <1>11, <1>13
  <2>2. Sampling' \subseteq Sampling
    BY <1>9, <2>1, Zenon DEF Sampling
  <2> QED BY <1>2, <1>6, <1>7, <1>8, <1>13, <2>2, Zenon DEF Charging
<1> QED BY <1>11, <1>12, <1>13

\* cleanup passes on the spans of an object that is sampled and charged.
LEMMA CleanupCharge ==
  ASSUME ChargeInv, Cleanup
  PROVE  Fresh' /\ Counted' /\ InBatch' /\ Charging
<1>1. Fresh /\ Counted /\ InBatch /\ TickerTypeOK /\ Homes
  BY Zenon DEF ChargeInv, FateInv, Inv, TypeOK
<1>2. /\ grp' = grp /\ home' = home /\ pc' = pc /\ idToTrace' = idToTrace /\ batch' = batch
      /\ finalDecision' = finalDecision /\ spanCount' = spanCount
      /\ UNCHANGED <<limiter, second>> /\ tpc = "cleanup" /\ tpc' = "dropLoad"
  BY Zenon DEF Cleanup, mapVars, consumerVars
<1>3. tobj \in Groups
  BY <1>1, <1>2 DEF TickerTypeOK, Objects
<1>4. Created \subseteq Created'
  BY <1>2, CreatedFrame, Zenon
<1>5. Fresh' /\ Counted' /\ InBatch'
  BY <1>1, <1>2, <1>4, Zenon DEF Fresh, Counted, InBatch
<1>6. \A g \in emitted' : home'[g] \in Sampling
  <2>1. CASE emitted' = emitted
    BY <1>2, <2>1, Zenon DEF Sampling
  <2>2. CASE finalDecision[tobj] = "Sampled" /\ emitted' = emitted \cup received[tobj]
    <3>1. tobj \in Sampling
      BY <1>2, <1>3, <2>2, Zenon DEF Sampling
    <3>2. \A g \in received[tobj] : home[g] = tobj
      BY <1>1, <1>3, Zenon DEF Homes
    <3> QED BY <1>2, <2>2, <3>1, <3>2, Zenon DEF Sampling
  <2> QED BY <2>1, <2>2, Zenon DEF Cleanup
<1>7. Sampling' \subseteq Sampling
  <2> SUFFICES ASSUME NEW o \in Sampling' PROVE o \in Sampling
    BY Zenon
  <2>1. CASE \E g \in emitted' : o = home'[g]
    BY <1>6, <2>1, Zenon
  <2>2. CASE o \in Groups /\ finalDecision'[o] = "Sampled" /\ idToTrace'[TraceOf[o]] = o
    BY <1>2, <2>2, Zenon DEF Sampling
  <2> QED BY <1>2, <2>1, <2>2, Zenon DEF Sampling
<1> QED BY <1>2, <1>5, <1>7, Zenon DEF Charging

\* firstPass charges the limiter for the object it samples.
LEMMA EvaluateCharge ==
  ASSUME ChargeInv, NEW x \in Groups, Pass1Evaluate(x)
  PROVE  Fresh' /\ Counted' /\ InBatch' /\ Charging
<1>1. Fresh /\ Counted /\ InBatch /\ MapTypeOK /\ ObjectTypeOK
  BY Zenon DEF ChargeInv, FateInv, Inv, TypeOK
<1>2. /\ grp' = grp /\ home' = home /\ pc' = pc /\ idToTrace' = idToTrace /\ batch' = batch
      /\ finalDecision' = finalDecision /\ spanCount' = spanCount /\ emitted' = emitted
      /\ second' = second /\ tpc' = "decide"
  BY Zenon DEF Pass1Evaluate, mapVars, objVars, consumerVars, fateVars
<1>3. tobj' \in Groups /\ spanCount[tobj'] \in Nat \ {0}
  <2>1. TraceOf[x] \in TraceIDs /\ tobj' = idToTrace[TraceOf[x]] /\ tobj' # None
    BY CascadeAssumption, Zenon DEF Pass1Evaluate
  <2>2. tobj' \in Groups /\ spanCount[tobj'] > 0
    BY <1>1, <2>1, Zenon DEF MapTypeOK, Objects, Counted
  <2> QED BY <1>1, <2>2 DEF ObjectTypeOK
<1>4. Created \subseteq Created'
  BY <1>2, CreatedFrame, Zenon
<1>5. Fresh' /\ Counted' /\ InBatch'
  BY <1>1, <1>2, <1>4, Zenon DEF Fresh, Counted, InBatch
<1>6. /\ Sampling' \subseteq Sampling \cup {tobj'}
      /\ verdict' # "Sampled" => Sampling' \subseteq Sampling
  BY <1>2, Zenon DEF Sampling
<1>7. CASE verdict' \in {"NotSampled", "SecondChance"} /\ limiter' = limiter
  <2>1. verdict' # "Sampled"
    BY <1>7
  <2> QED BY <1>2, <1>5, <1>6, <1>7, <2>1, Zenon DEF Charging
<1>8. CASE LET rate == UpdateRate(limiter, second, spanCount[tobj'])
           IN verdict' = rate.decision /\ limiter' = rate.limiter
  BY <1>2, <1>3, <1>5, <1>6, <1>8, Zenon DEF Charging
<1> QED BY <1>7, <1>8, Zenon DEF Pass1Evaluate

\* The decision that firstPass stores was charged when it was made.
LEMMA DecideCharge ==
  ASSUME ChargeInv, Pass1Decide
  PROVE  Fresh' /\ Counted' /\ InBatch' /\ Charging
<1>1. /\ Fresh /\ Counted /\ InBatch /\ ObjectTypeOK
      /\ TickerTypeOK /\ Linked /\ References
  BY Zenon DEF ChargeInv, FateInv, Inv, TypeOK
<1>2. /\ grp' = grp /\ home' = home /\ pc' = pc /\ idToTrace' = idToTrace /\ batch' = batch
      /\ spanCount' = spanCount /\ emitted' = emitted
      /\ UNCHANGED <<limiter, second>> /\ tpc = "decide" /\ tobj' = None
  BY Zenon DEF Pass1Decide, Pass1Next, mapVars, consumerVars, fateVars
<1>3. /\ tobj \in Groups /\ tobj \in Created /\ token \in batch
      /\ TraceOf[tobj] = TraceOf[token]
  BY <1>1, <1>2 DEF TickerTypeOK, References, Objects
<1>4. \A o \in Groups : finalDecision'[o] = IF o = tobj THEN verdict ELSE finalDecision[o]
  BY <1>1 DEF Pass1Decide, ObjectTypeOK
<1>5. Created \subseteq Created'
  BY <1>2, CreatedFrame, Zenon
<1>6. Fresh'
  BY <1>1, <1>3, <1>4, <1>5, Zenon DEF Fresh
<1>7. Counted'
  BY <1>1, <1>2, Zenon DEF Counted
<1>8. InBatch'
  <2> SUFFICES ASSUME NEW t \in TraceIDs,
                      idToTrace[t] # None, finalDecision'[idToTrace[t]] # "Unspecified"
               PROVE  \E x \in batch : TraceOf[x] = t
    BY <1>2, Zenon DEF InBatch
  <2>1. CASE idToTrace[t] = tobj
    BY <1>1, <1>3, <2>1, Zenon DEF Linked
  <2>2. CASE idToTrace[t] # tobj
    <3>1. idToTrace[t] \in Groups
      BY <1>1, Zenon DEF References, Created
    <3> QED BY <1>1, <1>4, <2>2, <3>1, Zenon DEF InBatch
  <2> QED BY <2>1, <2>2
<1>9. Sampling' \subseteq Sampling
  <2> SUFFICES ASSUME NEW o \in Sampling' PROVE o \in Sampling
    BY Zenon
  <2>1. CASE \E g \in emitted' : o = home'[g]
    BY <1>2, <2>1, Zenon DEF Sampling
  <2>2. CASE o \in Groups /\ finalDecision'[o] = "Sampled" /\ idToTrace'[TraceOf[o]] = o
    BY <1>2, <1>4, <2>2, Zenon DEF Sampling
  <2>3. \A p \in Groups : tobj' # p
    BY <1>2, CascadeAssumption
  <2> QED BY <2>1, <2>2, <2>3, Zenon DEF Sampling
<1> QED BY <1>2, <1>6, <1>7, <1>8, <1>9, Zenon DEF Charging

\* secondPass charges the limiter for the object it samples.
LEMMA SecondPassCharge ==
  ASSUME ChargeInv, NEW x \in Groups, SecondPass(x)
  PROVE  Fresh' /\ Counted' /\ InBatch' /\ Charging
<1>1. /\ Fresh /\ Counted /\ InBatch /\ MapTypeOK /\ ObjectTypeOK
      /\ TickerTypeOK /\ Linked /\ References
  BY Zenon DEF ChargeInv, FateInv, Inv, TypeOK
<1>2. /\ grp' = grp /\ home' = home /\ pc' = pc /\ idToTrace' = idToTrace /\ batch' = batch
      /\ spanCount' = spanCount /\ emitted' = emitted
      /\ second' = second /\ tpc' = "history"
  BY Zenon DEF SecondPass, mapVars, consumerVars, fateVars
<1>3. /\ TraceOf[x] \in TraceIDs /\ tobj' = idToTrace[TraceOf[x]] /\ tobj' # None
      /\ tobj' \in Created /\ x \in batch
  BY <1>1, CascadeAssumption DEF SecondPass, TickerTypeOK, References
<1>4. tobj' \in Groups /\ spanCount[tobj'] \in Nat \ {0} /\ TraceOf[tobj'] = TraceOf[x]
  <2>1. tobj' \in Groups /\ spanCount[tobj'] > 0 /\ TraceOf[tobj'] = TraceOf[x]
    BY <1>1, <1>3, Zenon DEF MapTypeOK, Objects, Counted, Linked
  <2> QED BY <1>1, <2>1 DEF ObjectTypeOK
<1>5. Created \subseteq Created'
  BY <1>2, CreatedFrame, Zenon
<1>6. /\ \A o \in Groups : o # tobj' => finalDecision'[o] = finalDecision[o]
      /\ \/ UNCHANGED <<finalDecision, limiter>>
         \/ LET rate == UpdateRate(limiter, second, spanCount[tobj'])
            IN finalDecision'[tobj'] = rate.decision /\ limiter' = rate.limiter
  <2>1. CASE UNCHANGED <<finalDecision, limiter>>
    BY <2>1, Zenon
  <2>2. CASE LET rate == UpdateRate(limiter, second, spanCount[tobj'])
             IN /\ finalDecision' = [finalDecision EXCEPT ![tobj'] = rate.decision]
                /\ limiter' = rate.limiter
    BY <1>1, <1>4, <2>2, Zenon DEF ObjectTypeOK
  <2> QED BY <2>1, <2>2, Zenon DEF SecondPass
<1>7. Fresh'
  BY <1>1, <1>3, <1>5, <1>6, Zenon DEF Fresh
<1>8. Counted'
  BY <1>1, <1>2, Zenon DEF Counted
<1>9. InBatch'
  <2> SUFFICES ASSUME NEW t \in TraceIDs,
                      idToTrace[t] # None, finalDecision'[idToTrace[t]] # "Unspecified"
               PROVE  \E y \in batch : TraceOf[y] = t
    BY <1>2, Zenon DEF InBatch
  <2>1. CASE idToTrace[t] = tobj'
    BY <1>1, <1>3, <1>4, <2>1, Zenon DEF Linked
  <2>2. CASE idToTrace[t] # tobj'
    <3>1. idToTrace[t] \in Groups
      BY <1>1, Zenon DEF References, Created
    <3> QED BY <1>1, <1>6, <2>2, <3>1, Zenon DEF InBatch
  <2> QED BY <2>1, <2>2
<1>10. \A o \in Sampling' : o \notin Sampling => o = tobj' /\ finalDecision'[tobj'] = "Sampled"
  <2> SUFFICES ASSUME NEW o \in Sampling', o \notin Sampling
               PROVE  o = tobj' /\ finalDecision'[tobj'] = "Sampled"
    BY Zenon
  <2>1. ~\E g \in emitted' : o = home'[g]
    BY <1>2, Zenon DEF Sampling
  <2>2. CASE o \in Groups /\ finalDecision'[o] = "Sampled" /\ idToTrace'[TraceOf[o]] = o
    <3>1. finalDecision[o] # "Sampled"
      BY <1>2, <2>2, Zenon DEF Sampling
    <3> QED BY <1>6, <2>2, <3>1, Zenon
  <2>3. CASE o \in Groups /\ finalDecision'[o] = "Sampled" /\ tobj' = o
    BY <2>3, Zenon
  <2>4. tpc' # "decide"
    BY <1>2
  <2> QED BY <2>1, <2>2, <2>3, <2>4, Zenon DEF Sampling
<1>11. CASE UNCHANGED <<finalDecision, limiter>>
  <2>1. Sampling' \subseteq Sampling
    <3>1. finalDecision[tobj'] = "Sampled" => tobj' \in Sampling
      BY <1>3, <1>4, Zenon DEF Sampling
    <3> QED BY <1>10, <1>11, <3>1, Zenon
  <2> QED BY <1>2, <1>7, <1>8, <1>9, <1>11, <2>1, Zenon DEF Charging
<1>12. CASE LET rate == UpdateRate(limiter, second, spanCount[tobj'])
            IN finalDecision'[tobj'] = rate.decision /\ limiter' = rate.limiter
  BY <1>2, <1>4, <1>7, <1>8, <1>9, <1>10, <1>12, Zenon DEF Charging
<1> QED BY <1>6, <1>11, <1>12, Zenon

\* Nothing is on the map and nothing was passed on.
LEMMA InitCharge == Init => ChargeInv /\ Sampling = {}
<1> SUFFICES ASSUME Init PROVE ChargeInv /\ Sampling = {}
  OBVIOUS
<1>1. /\ finalDecision = [g \in Groups |-> "Unspecified"]
      /\ idToTrace = [t \in TraceIDs |-> None] /\ emitted = {} /\ tobj = None
  BY Zenon DEF Init
<1>2. Fresh /\ Counted /\ InBatch
  BY ONLY <1>1, Zenon DEF Fresh, Counted, InBatch
<1>3. Sampling = {}
  <2>1. \A o \in Groups : finalDecision[o] # "Sampled" /\ tobj # o
    BY ONLY <1>1, CascadeAssumption
  <2> QED BY ONLY <1>1, <2>1, Zenon DEF Sampling
<1> QED BY <1>2, <1>3, InitFates, Zenon DEF ChargeInv

\* Every step keeps the invariant and charges for what it samples.
LEMMA NextCharge == ChargeInv /\ [Next]_vars => ChargeInv' /\ Charging
<1> SUFFICES ASSUME ChargeInv, [Next]_vars PROVE ChargeInv' /\ Charging
  OBVIOUS
<1> DEFINE Kept == Fresh' /\ Counted' /\ InBatch' /\ Charging
<1>1. ASSUME NEW c \in Consumers, NEW g \in Groups, ArriveLate(c, g) \/ ArriveNew(c, g)
      PROVE  Kept
  BY <1>1, QueueCharge, ConsumerCharge, Zenon
<1>2. ASSUME NEW c \in Consumers, Consumer(c)
      PROVE  Kept
  BY <1>2, ConsumerCharge, QueueCharge, Zenon DEF Consumer
<1>3. ASSUME NEW x \in Groups, FillBatch(x)
      PROVE  Kept
  BY <1>3, QueueCharge, Zenon
<1>4. ASSUME Ticker PROVE Kept
  <2>1. ASSUME NEW x \in Groups, Pass1Skip(x) \/ Pass2Skip(x) PROVE Kept
    BY <2>1, TickerCharge, Zenon
  <2>2. ASSUME NEW x \in Groups, Pass1Evaluate(x) \/ SecondPass(x) PROVE Kept
    BY <2>2, EvaluateCharge, SecondPassCharge, Zenon
  <2>3. ASSUME Tick \/ Pass1Decide \/ Cleanup PROVE Kept
    BY <2>3, TickCharge, DecideCharge, CleanupCharge, Zenon
  <2>4. ASSUME Remember \/ TickDropLoad \/ TickDropDelete PROVE Kept
    BY <2>4, TickerCharge, Zenon
  <2> HIDE DEF Kept
  <2> QED BY <1>4, <2>1, <2>2, <2>3, <2>4, Zenon DEF Ticker
<1>5. ASSUME UNCHANGED vars PROVE Kept
  <2>1. /\ UNCHANGED <<finalDecision, emitted, limiter, second>> /\ UNCHANGED <<tpc, tobj, verdict>>
        /\ batch' = batch /\ grp' = grp /\ pc' = pc /\ home' = home
        /\ spanCount' = spanCount /\ idToTrace' = idToTrace
    BY <1>5, Zenon DEF vars, objVars, mapVars, consumerVars, tickVars, fateVars
  <2>2. Created \subseteq Created'
    BY <2>1, CreatedFrame, Zenon
  <2> QED BY <2>1, <2>2, QuietCharge, Zenon
<1> HIDE DEF Kept
<1>6. Kept
  BY <1>1, <1>2, <1>3, <1>4, <1>5, Zenon DEF Next
<1>7. FateInv'
  BY NextFates, Zenon DEF ChargeInv
<1> QED BY <1>6, <1>7, Zenon DEF ChargeInv, Kept
=============================================================================
