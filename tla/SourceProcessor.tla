--------------------------- MODULE SourceProcessor ---------------------------
(***************************************************************************)
(* processor/sourceprocessor: the source attributes of a resource, whether *)
(* it is filtered out, and the unpacking of log records that hold the JSON *)
(* of the Docker log driver.                                               *)
(*                                                                         *)
(* A text is the sequence of its parts between dashes; a template is the   *)
(* sequence of the attributes it names; literal text is left out.  Metrics *)
(* and traces are processed like a batch of logs without records.          *)
(***************************************************************************)
EXTENDS Naturals, Sequences, FiniteSets, Folds

CONSTANTS Batches,        \* sequences of resources: [atts, bodies]
          SourceConfig,   \* the Config; containerKeys has, for each prefix of the
                          \* container annotations, the attribute of a container
          Encoded         \* SafeEncodeString: template hash -> pod name part

\* A batch is a sequence of resources, each with its attributes and records.
ASSUME BatchesAssumption ==
  \A b \in Batches :
    /\ b \in Seq({b[i] : i \in DOMAIN b})
    /\ \A i \in DOMAIN b :
         /\ b[i] = [atts |-> b[i].atts, bodies |-> b[i].bodies]
         /\ b[i].bodies \in Seq({b[i].bodies[j] : j \in DOMAIN b[i].bodies})

VARIABLES
  batch,      \* the resources of the call; processed from the first on
  resource,   \* index of the resource
  record,     \* index of the record in it; 0 before processResource
  dockerLog,  \* the variable of ProcessLogs
  given       \* history: the batch before the call

sourceVars == <<batch, resource, record, dockerLog, given>>

DockerKeys == {"stream", "time", "log"}
NoText == <<>>

SourceInit ==
  /\ given \in Batches /\ batch = given
  /\ resource = 1 /\ record = 0
  /\ dockerLog = [k \in DockerKeys |-> NoText]

Set(atts, key, text) == [k \in DOMAIN atts \cup {key} |-> IF k = key THEN text ELSE atts[k]]
Get(atts, key) == IF key \in DOMAIN atts THEN atts[key] ELSE NoText

-----------------------------------------------------------------------------
(* processResource                                                         *)

\* enrichPodName: the name without the suffix of the pod and, if it is there, the
\* hash of the template, as it is or encoded.
EnrichPodName(atts) ==
  LET parts   == Get(atts, "pod")
      l       == Len(parts)
      hash    == Get(atts, "pod_template_hash")
      isHash(part) == hash # NoText /\ (hash = <<part>> \/ Encoded[hash] = <<part>>)
  IN IF l < 2 THEN atts
     ELSE Set(atts, "pod_name", SubSeq(parts, 1, IF l > 2 /\ isHash(parts[l - 1]) THEN l - 2 ELSE l - 1))

FillOtherMeta(atts) ==
  IF SourceConfig.collector = NoText THEN atts ELSE Set(atts, "_collector", SourceConfig.collector)

\* The attributes a template names; an attribute that is not there is undefined.
Labels(template, atts) ==
  LET text(i) == IF template[i] \in DOMAIN atts THEN atts[template[i]] ELSE <<"undefined">>
      last(S) == CHOOSE i \in S : \A j \in S : j <= i
  IN MapThenFoldSet(LAMBDA next, before : before \o next, <<>>, text, last, DOMAIN template)

\* fillResourceOrUseAnnotation: the template of the annotation, or the configured one.
FillResourceOrUseAnnotation(atts, name, annotation, configured) ==
  LET template == IF annotation \in DOMAIN atts THEN atts[annotation] ELSE configured
  IN IF template = NoText THEN atts ELSE Set(atts, name, Labels(template, atts))

\* getSourceCategoryFromContainerAnnotation: of the first prefix that has one.
ContainerCategory(atts) ==
  LET container == Get(atts, "container")
      values    == [i \in DOMAIN SourceConfig.containerKeys |->
                      Get(atts, SourceConfig.containerKeys[i][container])]
  IN IF container = NoText THEN NoText
     ELSE Head(SelectSeq(values, LAMBDA v : v # NoText) \o <<NoText>>)

OrElse(text, other) == IF text # NoText THEN text ELSE other

\* ReplaceAll(text, "-", by); NoText removes the dashes.
ReplaceDash(text, by) == <<[text |-> text, dash |-> by]>>

\* fill: the source category by precedence.  Prefix and dash replacement do not
\* apply to the one of a container.
FillSourceCategory(atts) ==
  LET template == OrElse(Get(atts, "sourceCategory"), SourceConfig.category)
      prefix   == OrElse(Get(atts, "sourceCategoryPrefix"), SourceConfig.prefix)
      dash     == OrElse(Get(atts, "sourceCategoryReplaceDash"), SourceConfig.dash)
  IN Set(atts, "_sourceCategory",
         OrElse(ContainerCategory(atts), ReplaceDash(prefix \o Labels(template, atts), dash)))

\* isFilteredOut: annotations first, then the configured exclusions.
IsFilteredOut(atts) ==
  \/ Get(atts, "exclude") = <<"true">>
  \/ /\ Get(atts, "include") # <<"true">>
     /\ \E field \in DOMAIN SourceConfig.exclude :
          field \in DOMAIN atts /\ atts[field] \in SourceConfig.exclude[field]

ProcessResource ==
  /\ resource <= Len(batch) /\ record = 0
  /\ LET named    == FillOtherMeta(EnrichPodName(batch[resource].atts))
         host     == FillResourceOrUseAnnotation(named, "_sourceHost", "sourceHost", SourceConfig.host)
         category == FillSourceCategory(host)
         atts     == FillResourceOrUseAnnotation(category, "_sourceName", "sourceName", SourceConfig.name)
         bodies   == IF IsFilteredOut(atts) THEN <<>> ELSE batch[resource].bodies
     IN batch' = [batch EXCEPT ![resource] = [atts |-> atts, bodies |-> bodies]]
  /\ record' = 1
  /\ UNCHANGED <<resource, dockerLog, given>>

-----------------------------------------------------------------------------
(* The records of ProcessLogs                                              *)

\* Mutant: a key that has a value already keeps it.
UnmarshalMissing(body) ==
  [k \in DockerKeys |-> IF body.json /\ dockerLog[k] = NoText /\ k \in DOMAIN body.keys
                        THEN body.keys[k] ELSE dockerLog[k]]

\* json.Unmarshal: keys that the JSON does not have keep the value they have.
Unmarshal(body) ==
  [k \in DockerKeys |-> IF body.json /\ k \in DOMAIN body.keys THEN body.keys[k] ELSE dockerLog[k]]

\* A body is a string, of JSON or not; its keys may have values of other types,
\* which is an error.  Records with all three values are unpacked.
UnpackRecord ==
  /\ resource <= Len(batch) /\ record \in DOMAIN batch[resource].bodies
  /\ LET body == batch[resource].bodies[record]
         log  == Unmarshal(body)
         ok   == body.json /\ ~body.mistyped /\ \A k \in DockerKeys : log[k] # NoText
     IN /\ dockerLog' = log
        /\ batch' = IF ok THEN [batch EXCEPT ![resource].bodies[record] = [unpacked |-> log]] ELSE batch
  /\ record' = record + 1
  /\ UNCHANGED <<resource, given>>

NextResource ==
  /\ resource <= Len(batch) /\ record = Len(batch[resource].bodies) + 1
  /\ resource' = resource + 1 /\ record' = 0
  /\ UNCHANGED <<batch, dockerLog, given>>

SourceNext == ProcessResource \/ UnpackRecord \/ NextResource

SourceSpec == SourceInit /\ [][SourceNext]_sourceVars

-----------------------------------------------------------------------------

\* A record of JSON with a value for each key.
Complete(body) ==
  /\ body.json /\ ~body.mistyped
  /\ \A k \in DockerKeys : k \in DOMAIN body.keys /\ body.keys[k] # NoText

\* A record is as it was, which a complete one may not be, or it was unpacked, which
\* only JSON may be, with its own values of the keys it has.
Unpacks(body, after) ==
  \/ after = body /\ ~Complete(body)
  \/ /\ body.json /\ ~body.mistyped /\ DOMAIN after = {"unpacked"}
     /\ \A k \in DockerKeys \cap DOMAIN body.keys : after.unpacked[k] = body.keys[k]

\* ProcessLogs unpacks a record that has its stream, time and log with just these,
\* whatever the records before it left in the variable they share, never gives a
\* record another value for a key that it has, and leaves alone what is no JSON.
RecordsUnpacked ==
  \A i \in 1..(resource - 1) : \A j \in DOMAIN batch[i].bodies :
    Unpacks(given[i].bodies[j], batch[i].bodies[j])

\* What the comment in ProcessLogs says: a record of which a key has no value is
\* left unchanged.
IncompleteLeftAlone ==
  \A i \in 1..(resource - 1) : \A j \in DOMAIN batch[i].bodies :
    ~Complete(given[i].bodies[j]) => batch[i].bodies[j] = given[i].bodies[j]
=============================================================================
