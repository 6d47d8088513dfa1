--------------------------- MODULE SchemaProcessor ---------------------------
(***************************************************************************)
(* processor/sumologicschemaprocessor: six subprocessors that change, one  *)
(* after another, the attributes of a resource and of the log record, data *)
(* point or span in it.                                                    *)
(*                                                                         *)
(* A key is the sequence of its pieces between separators; a prefix that   *)
(* ends with a separator ends with an empty piece.  An attribute map is a  *)
(* function of keys, and the code visits its keys in some order.  A value  *)
(* is a leaf or a map again.                                               *)
(***************************************************************************)
EXTENDS Naturals, Sequences, FiniteSets, SequencesExt, TLC

CONSTANTS SchemaConfigs,   \* configurations of the processor
          Records,         \* what comes in: signal, resource, record, ...
          Translations,    \* attributeTranslations
          CloudNamespaces, \* value of CloudPlatform -> value of CloudNamespace
          CloudPlatform, CloudNamespace,
          TelegrafNames    \* metricsTranslations

VARIABLES config, stage, data, input

schemaVars == <<config, stage, data, input>>

\* config: translate, telegraf, nest (enabled, include, exclude,
\* squash), aggregate (a sequence of [attribute, prefixes]), fields (field -> attribute).
\* data: signal, resource, record, name (of a metric), fields (of a log record).
Panicked == 0
LogFields == <<"loglevel", "severitytext", "spanid", "traceid">>

SchemaInit ==
  /\ config \in SchemaConfigs /\ input \in Records
  /\ data = input /\ stage = 1

Leaf(x) == [map |-> FALSE, of |-> x]
Map(f) == [map |-> TRUE, of |-> f]
EmptyMap == [k \in {} |-> 0]
Put(f, k, v) == (k :> v) @@ f
Orders(f) == SetToSeqs(DOMAIN f)

HasPrefix(k, p) ==
  IF Last(p) = "" THEN IsStrictPrefix(Front(p), k) ELSE IsPrefix(p, k)

-----------------------------------------------------------------------------
(* Cloud namespace, attribute translation, Telegraf names                  *)

\* addCloudNamespaceAttribute, whatever add_cloud_namespace says.
AddCloudNamespace(atts) ==
  IF CloudPlatform \in DOMAIN atts /\ atts[CloudPlatform] \in DOMAIN CloudNamespaces
  THEN Put(atts, CloudNamespace, CloudNamespaces[atts[CloudPlatform]])
  ELSE atts

\* Mutant: a key that is there already is overwritten.
TranslateOver(atts, order) ==
  FoldLeft(LAMBDA res, k : Put(res, IF k \in DOMAIN Translations THEN Translations[k] ELSE k, atts[k]),
           EmptyMap, order)

\* translateAttributes: renamed unless the new key is in use; the first one wins.
TranslateAttributes(atts, order) ==
  LET target(k) == IF k \in DOMAIN Translations /\ Translations[k] \notin DOMAIN atts
                   THEN Translations[k] ELSE k
  IN FoldLeft(LAMBDA res, k : IF target(k) \in DOMAIN res THEN res ELSE Put(res, target(k), atts[k]),
              EmptyMap, order)

-----------------------------------------------------------------------------
(* Nesting                                                                 *)

\* shouldTranslateKey
ShouldTranslateKey(nest, k) ==
  /\ nest.include = {} \/ \E p \in nest.include : HasPrefix(k, p)
  /\ ~\E p \in nest.exclude : HasPrefix(k, p)

\* Mutant: what stands in the way is replaced.
RECURSIVE PlaceOver(_, _, _)
PlaceOver(value, path, v) ==
  IF path = <<>> THEN v
  ELSE LET f == IF value.map THEN value.of ELSE EmptyMap
           k == <<Head(path)>>
       IN Map(Put(f, k, PlaceOver(IF k \in DOMAIN f THEN f[k] ELSE Map(EmptyMap), Tail(path), v)))

\* The value under path after v was put there: what stands in the way of a map
\* moves to the key "", two maps are merged.
RECURSIVE Place(_, _, _)
Place(value, path, v) ==
  IF path = <<>>
  THEN IF ~value.map THEN v
       ELSE Map(IF v.map THEN v.of @@ value.of ELSE Put(value.of, <<"">>, v))
  ELSE LET f == IF value.map THEN value.of ELSE (<<"">> :> value)
           k == <<Head(path)>>
       IN Map(Put(f, k, IF k \in DOMAIN f THEN Place(f[k], Tail(path), v)
                        ELSE IF Len(path) = 1 THEN v
                        ELSE Place(Map(EmptyMap), Tail(path), v)))

\* squashKey: <<"">> is the empty key.
SquashKey(key, keySuffix) == IF keySuffix = <<"">> THEN key ELSE key \o keySuffix

\* squashAttribute: the key of a map with one entry moves up; [key, value].
RECURSIVE SquashAttribute(_)
SquashAttribute(value) ==
  IF ~value.map THEN [key |-> <<"">>, value |-> value]
  ELSE LET sub == [k \in DOMAIN value.of |-> SquashAttribute(value.of[k])]
           key == [k \in DOMAIN sub |-> SquashKey(k, sub[k].key)]
           only == CHOOSE k \in DOMAIN value.of : TRUE
       IN IF Cardinality(DOMAIN value.of) = 1
          THEN [key |-> key[only], value |-> sub[only].value]
          ELSE [key |-> <<"">>,
                value |-> Map([l \in Range(key) |-> sub[CHOOSE k \in DOMAIN sub : l = key[k]].value])]

\* squash: a map with one entry has its key moved up too.  If what is left is no
\* map, it is read as one nevertheless, which panics.
Squash(atts) ==
  LET squashed == SquashAttribute(Map(atts))
  IN IF squashed.key = <<"">> THEN squashed.value.of ELSE (squashed.key :> squashed.value)

SquashPanics(atts) == ~SquashAttribute(Map(atts)).value.map

\* processAttributes of the nesting processor, before squash.
NestAttributes(nest, atts, order) ==
  FoldLeft(LAMBDA f, k : IF ShouldTranslateKey(nest, k)
                         THEN Place(Map(f), k, atts[k]).of ELSE Put(f, k, atts[k]),
           EmptyMap, order)

-----------------------------------------------------------------------------
(* Aggregation and log fields                                              *)

\* getNewKey
NewKey(k, p) ==
  IF Last(p) = "" THEN SubSeq(k, Len(p), Len(k)) ELSE <<"">> \o SubSeq(k, Len(p) + 1, Len(k))

\* The keys that prefix i of an aggregation matches, after the prefixes before it.
Matching(a, order, i) ==
  SelectSeq(order, LAMBDA k : /\ HasPrefix(k, a.prefixes[i])
                              /\ \A j \in 1..(i - 1) : ~HasPrefix(k, a.prefixes[j]))

\* One aggregation: the attributes with one of its prefixes move into a map under
\* a new key.  s has the attributes and their order.
Aggregate(s, a) ==
  LET moved == FlattenSeq([i \in DOMAIN a.prefixes |->
                 LET keys == Matching(a, s.order, i)
                 IN [j \in DOMAIN keys |-> <<keys[j], NewKey(keys[j], a.prefixes[i])>>]])
      left  == SelectSeq(s.order, LAMBDA k : \A m \in ToSet(moved) : m[1] # k)
      map   == FoldLeft(LAMBDA f, m : Put(f, m[2], s.atts[m[1]]), EmptyMap, moved)
  IN IF moved = <<>> THEN s
     ELSE [atts  |-> Put([k \in ToSet(left) |-> s.atts[k]], a.attribute, Map(map)),
           order |-> IF Contains(left, a.attribute) THEN left ELSE Append(left, a.attribute)]

AggregateAttributes(atts, order) ==
  FoldLeft(Aggregate, [atts |-> atts, order |-> order], config.aggregate).atts

\* addAttributes: the default name of a field is looked for, its configured name
\* is written.
AddLogFields(atts, fields, names) ==
  FoldLeft(LAMBDA res, f : IF f \in DOMAIN fields \cap DOMAIN names /\ <<f>> \notin DOMAIN res
                           THEN Put(res, names[f], fields[f]) ELSE res,
           atts, LogFields)

-----------------------------------------------------------------------------
(* processLogs, processMetrics, processTraces: the subprocessors in order  *)

Advance == stage' = stage + 1 /\ UNCHANGED <<config, input>>

CloudNamespaceStage ==
  /\ stage = 1 /\ data' = [data EXCEPT !.resource = AddCloudNamespace(@)]
  /\ Advance

TranslateStage ==
  /\ stage = 2
  /\ IF config.translate /\ data.signal # "traces"
     THEN \E o \in Orders(data.resource) : data' = [data EXCEPT !.resource = TranslateAttributes(@, o)]
     ELSE UNCHANGED data
  /\ Advance

TelegrafStage ==
  /\ stage = 3
  /\ data' = IF config.telegraf /\ data.signal = "metrics" /\ data.name \in DOMAIN TelegrafNames
             THEN [data EXCEPT !.name = TelegrafNames[@]] ELSE data
  /\ Advance

\* A metric without data points has no attributes of its own.
NestStage ==
  /\ stage = 4
  /\ IF ~config.nest.enabled THEN Advance /\ UNCHANGED data
     ELSE \E o \in Orders(data.resource), q \in Orders(data.record) :
            LET resource == NestAttributes(config.nest, data.resource, o)
                record   == NestAttributes(config.nest, data.record, q)
            IN IF config.nest.squash /\ (SquashPanics(resource) \/ SquashPanics(record))
               THEN stage' = Panicked /\ UNCHANGED <<config, data, input>>
               ELSE /\ data' = IF config.nest.squash
                               THEN [data EXCEPT !.resource = Squash(resource), !.record = Squash(record)]
                               ELSE [data EXCEPT !.resource = resource, !.record = record]
                    /\ Advance

AggregateStage ==
  /\ stage = 5
  /\ \E o \in Orders(data.resource), q \in Orders(data.record) :
       data' = [data EXCEPT !.resource = AggregateAttributes(@, o), !.record = AggregateAttributes(@, q)]
  /\ Advance

LogFieldsStage ==
  /\ stage = 6
  /\ data' = IF data.signal = "logs"
             THEN [data EXCEPT !.record = AddLogFields(@, data.fields, config.fields)] ELSE data
  /\ Advance

SchemaNext ==
  \/ CloudNamespaceStage \/ TranslateStage \/ TelegrafStage
  \/ NestStage \/ AggregateStage \/ LogFieldsStage

-----------------------------------------------------------------------------

\* The leaves of a map: whole keys, whatever the nesting, and values.
RECURSIVE Leaves(_, _)
Leaves(path, value) ==
  IF ~value.map THEN {<<path, value.of>>}
  ELSE UNION {Leaves(path \o k, value.of[k]) : k \in DOMAIN value.of}

LeavesOf(atts) == Leaves(<<>>, Map(atts))
ValuesOf(atts) == {l[2] : l \in LeavesOf(atts)}
Parts == {"resource", "record"}

\* No key that stays flat is the path to a nested one.
Separate(nest, atts) ==
  \A k, l \in DOMAIN atts :
    IsStrictPrefix(k, l) /\ ShouldTranslateKey(nest, l) => ShouldTranslateKey(nest, k)

\* Where an attribute is found after nesting: under the pieces of its key, then ""
\* if other attributes are nested below.
PathOf(nest, atts, k) ==
  IF ShouldTranslateKey(nest, k) /\ \E l \in DOMAIN atts : IsStrictPrefix(k, l) /\ ShouldTranslateKey(nest, l)
  THEN Append(k, "") ELSE k

\* After processAttributes of the nesting processor, in whatever order it visits the
\* attributes, squashed or not, every attribute is found by the pieces of its key,
\* and nothing else is there.
NestedByPath ==
  [][stage = 4 /\ stage' = 5 /\ config.nest.enabled =>
       \A p \in Parts : Separate(config.nest, data[p]) =>
         LeavesOf(data'[p]) = {<<PathOf(config.nest, data[p], k), data[p][k].of>> : k \in DOMAIN data[p]}
    ]_schemaVars

\* Two attributes claim one key in this stage.
Clash(p) ==
  LET atts == data[p]
      renames == {<<k, Translations[k]>> : k \in DOMAIN Translations \cap DOMAIN atts}
      moves(a) == {<<k, NewKey(k, a.prefixes[i])>> : k \in DOMAIN atts, i \in DOMAIN a.prefixes}
  IN \/ stage = 1 /\ CloudNamespace \in DOMAIN atts
     \/ stage = 2 /\ \E r, q \in renames : r # q /\ r[2] = q[2]
     \/ stage = 4 /\ config.nest.enabled /\ ~Separate(config.nest, atts)
     \/ stage = 5 /\ \E a \in ToSet(config.aggregate) :
          \/ a.attribute \in DOMAIN atts
          \/ \E r, q \in moves(a) : r[1] # q[1] /\ r[2] = q[2]
     \/ stage = 6 /\ \E f \in DOMAIN config.fields : config.fields[f] \in DOMAIN atts

\* No subprocessor loses the value of an attribute, unless two attributes claim the
\* same key.
ValuesKept ==
  [][stage' = stage + 1 =>
       \A p \in Parts : ValuesOf(data[p]) \subseteq ValuesOf(data'[p]) \/ Clash(p)]_schemaVars
=============================================================================
