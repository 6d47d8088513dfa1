---------------------------- MODULE MCComponents ----------------------------
(* Small instances of the components that share no state with one another: a *)
(* behaviour is one of SourceProcessor, SchemaProcessor, MetricSieve,        *)
(* PolicyRules, ServiceCache, OwnerCache, RawEvents or SyslogExporter.       *)
EXTENDS MCSourceProcessor, SchemaProcessor, MetricSieve, MCPolicyRules, ServiceCache,
        OwnerCache, RawEvents, SyslogExporter

CONSTANTS p1, p2, rs, dep, own

VARIABLE subject

allVars == <<sourceVars, schemaVars, sieveVars, rulesVars, servicesVars, ownersVars,
             eventsVars, syslogVars, subject>>

-----------------------------------------------------------------------------
Host == <<"host">>
MCCloudPlatform == <<"cloud", "platform">>
MCCloudNamespace == <<"cloud", "namespace">>
MCTranslations ==
  (<<"host", "name">> :> Host) @@ (<<"k8s", "pod", "hostname">> :> Host) @@
  (<<"k8s", "pod", "name">> :> <<"pod">>) @@ (MCCloudPlatform :> <<"aws_service">>)
MCCloudNamespaces == Leaf(MCCloudPlatform) :> Leaf(<<"aws/ec2">>)
MCTelegrafNames == "cpu_usage_irq" :> "CPU_Irq"

ResourceKeys ==
  DOMAIN MCTranslations \cup {Host, <<"k8s", "pod">>, <<"pod", "x">>, MCCloudNamespace}
RecordKeys == {<<"a">>, <<"a", "b">>, <<"a", "b", "c">>, <<"loglevel">>, <<"pod", "x">>, <<"pod2", "x">>}

\* The value of an attribute is its key.
Attributes(keys) == {[k \in ks |-> Leaf(k)] : ks \in {s \in SUBSET keys : Cardinality(s) <= 3}}
Data(s, r, a) ==
  [signal |-> s, resource |-> r, record |-> a, name |-> "cpu_usage_irq",
   fields |-> [f \in {"loglevel", "spanid"} |-> Leaf(<<"new", f>>)]]

\* Attributes of the resource or of the record.
MCRecords ==
  {Data(s, r, EmptyMap) : s \in {"metrics", "traces"}, r \in Attributes(ResourceKeys)}
    \cup {Data("logs", EmptyMap, a) : a \in Attributes(RecordKeys)}

Nest(on, i, e, sq) == [enabled |-> on, include |-> i, exclude |-> e, squash |-> sq]
MCNests ==
  { Nest(FALSE, {}, {}, FALSE), Nest(TRUE, {}, {}, FALSE), Nest(TRUE, {}, {}, TRUE),
    Nest(TRUE, {<<"k8s", "pod", "">>, <<"a", "">>}, {}, FALSE),
    Nest(TRUE, {}, {<<"a", "b">>, <<"host">>}, TRUE) }
MCAggregations ==
  { <<>>, <<[attribute |-> <<"pods">>, prefixes |-> <<<<"pod", "">>, <<"pod2", "">>>>],
            [attribute |-> <<"a">>, prefixes |-> <<<<"loglevel">>>>]>> }
MCFields == {[f \in {} |-> <<>>], [f \in {"loglevel"} |-> <<"a", "b">>]}
MCSchemaConfigs ==
  [translate : BOOLEAN, telegraf : {TRUE}, nest : MCNests, aggregate : MCAggregations, fields : MCFields]

-----------------------------------------------------------------------------
\* What an Endpoints object lists: one pod, two, or one in two subsets.
MCListings == {<<p1>>, <<p1, p2>>, <<p1, p1>>, <<p2, p1>>}

\* The owners of an object: none, one, two, and a circle.
MCReferences == {<<>>, <<dep>>, <<own, dep>>, <<rs>>}
MCPodReferences == <<rs, own, rs>>

-----------------------------------------------------------------------------
\* Records with all properties, without one, without two.
MCSyslogBatches ==
  LET all == ToSet(Properties("rfc5424"))
  IN {<<all>>, <<all \ {"priority"}, all>>, <<all \ {"structured_data"}, all \ {"priority", "message"}>>,
      <<all \ {"msg_id", "structured_data"}, all, all \ {"hostname"}>>}

-----------------------------------------------------------------------------
Subjects == {"source", "schema", "sieve", "rules", "services", "owners", "events", "syslog"}

\* The state of the parts that a behaviour is not about stays as it is.
Init ==
  /\ subject \in Subjects
  /\ SieveInit /\ RulesInit /\ ServicesInit /\ OwnersInit /\ EventsInit
  /\ IF subject = "source" THEN SourceInit
     ELSE given = <<>> /\ batch = <<>> /\ resource = 1 /\ record = 0 /\ dockerLog = <<>>
  /\ IF subject = "schema" THEN SchemaInit
     ELSE config = <<>> /\ stage = 7 /\ data = <<>> /\ input = <<>>
  /\ SyslogInit /\ (subject # "syslog" => format = "rfc5424" /\ tlsConfig /\ Len(logs) = 1)

Next ==
  /\ UNCHANGED subject
  /\ subject # "source"   => UNCHANGED sourceVars
  /\ subject # "schema"   => UNCHANGED schemaVars
  /\ subject # "sieve"    => UNCHANGED sieveVars
  /\ subject # "rules"    => UNCHANGED rulesVars
  /\ subject # "services" => UNCHANGED servicesVars
  /\ subject # "owners"   => UNCHANGED ownersVars
  /\ subject # "events"   => UNCHANGED eventsVars
  /\ subject # "syslog"   => UNCHANGED syslogVars
  /\ \/ subject = "source"   /\ SourceNext
     \/ subject = "schema"   /\ SchemaNext
     \/ subject = "sieve"    /\ SieveNext
     \/ subject = "rules"    /\ RulesNext
     \/ subject = "services" /\ ServicesNext
     \/ subject = "owners"   /\ OwnersNext
     \/ subject = "events"   /\ EventsNext
     \/ subject = "syslog"   /\ SyslogNext

Spec == Init /\ [][Next]_allVars /\ (subject = "events" => EventsFairness)
=============================================================================
