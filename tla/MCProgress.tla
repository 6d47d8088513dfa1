----------------------------- MODULE MCProgress ------------------------------
(* Parts that share no state and must come to an end or come back: a          *)
(* behaviour is about the batcher of the cascading filter, the pushes of the  *)
(* exporter, the credentials of the collector, which the OpAMP agent follows, *)
(* or the configuration that the OpAMP server sends.                          *)
EXTENDS IdBatcher, MCSumoExporter, OpampAgent, OpampConfig

VARIABLE subject

allVars == <<batcherVars, exporterVars, identityVars, opampVars, subject>>

\* Remote configurations: three files for one key, the instance configuration
\* against another one, one file alone, and one that cannot be parsed.
MCRemoteConfigs ==
  { (0 :> [a |-> 3]) @@ (1 :> [a |-> 1, b |-> 1]) @@ (2 :> [a |-> 2]),
    (0 :> [b |-> 1]) @@ (2 :> [a |-> 1, b |-> 2]),
    (1 :> [a |-> 1]),
    (1 :> [a |-> 1]) @@ (2 :> Unparsable) }

\* The state of the parts that a behaviour is not about stays as it is.
Init ==
  /\ subject \in {"batcher", "exporter", "identity", "config"}
  /\ BatcherInit
  /\ ExporterInit /\ (subject # "exporter" => kind[p2] = "logs")
  /\ AgentInit
  /\ OpampInit /\ (subject # "config" => wanted = (1 :> [a |-> 1]))

Next ==
  /\ UNCHANGED subject
  /\ subject # "batcher"  => UNCHANGED batcherVars
  /\ subject # "exporter" => UNCHANGED exporterVars
  /\ subject # "identity" => UNCHANGED identityVars
  /\ subject # "config"   => UNCHANGED opampVars
  /\ \/ subject = "batcher"  /\ BatcherNext
     \/ subject = "exporter" /\ ExporterNext
     \/ subject = "identity" /\ AgentNext
     \/ subject = "config"   /\ OpampNext

\* A behaviour keeps its subject: <>[](subject = "batcher") says what it is about.
Spec ==
  /\ Init /\ [][Next]_allVars
  /\ \/ <>[](subject = "batcher") /\ BatcherFairness
     \/ <>[](subject = "exporter") /\ ExporterFairness
     \/ <>[](subject = "identity") /\ AgentFairness
     \/ <>[](subject = "config") /\ OpampFairness

\* Every push of the exporter comes to its end, unless a record cannot be formatted
\* or ResourceLogs with different headers share a push: the 401 leads to a client
\* with new credentials (handleUnauthorizedErrors, configure, the retries).
PushEnds == <>[](subject = "exporter" => PushesDone)

\* When nothing goes wrong any more, the collector is registered for good and
\* sends heartbeats with credentials the server accepts: lost answers,
\* revocations, failed files and crashes never leave it silent (heartbeatLoop).
IdentityResumes == <>[](subject = "identity" => HeartbeatsAccepted)
==============================================================================
