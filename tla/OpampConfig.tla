----------------------------- MODULE OpampConfig -----------------------------
(***************************************************************************)
(* extension/opampextension: what onMessage does with a configuration that *)
(* the OpAMP server sends.  It is merged, saved in a file, acknowledged,   *)
(* and the collector is told to reload, which starts a new agent that      *)
(* reads the file again.                                                   *)
(*                                                                         *)
(* A configuration maps keys, whole paths, to values; parsing and          *)
(* marshalling bring it into one normal form.  External: the server, which *)
(* may send what it wants the agent to have at any time and change its     *)
(* mind, and the collector, which runs with what is in the file.           *)
(***************************************************************************)
EXTENDS Naturals, Sequences, SequencesExt, TLC

CONSTANTS RemoteConfigs,  \* ConfigMaps: file name -> configuration or Unparsable
          InstanceConfig, \* the name "": a number, as the other names are
          Unparsable,
          NoConfig,       \* no file, no remote configuration, effectiveConfig = ""
          MaxMishaps      \* bound on failures, crashes and changes of mind

VARIABLES
  wanted,     \* server: the configuration it sends
  disk,       \* the file: NoConfig, or what is written, whether all of it is, and
              \* whether a parser takes the part that is there
  effective,  \* effectiveConfig
  previous,   \* oldEffectiveConfig
  status,     \* the status last set: hash (the ConfigMap itself) and result
  instance,   \* instanceId: "own", "given" or "zero"
  handler,    \* where onMessage is; "down" while there is no agent
  message,    \* what it handles
  changed,    \* configChanged
  sighup,     \* the signal was sent and not handled
  collector,  \* the configuration the collector runs with
  unsignalled,\* history: this process failed to send itself the signal
  mishaps

opampVars == <<wanted, disk, effective, previous, status, instance, handler, message,
               changed, sighup, collector, unsignalled, mishaps>>

NoStatus == [hash |-> NoConfig, result |-> "unset"]
NoMessage == [remote |-> NoConfig, identity |-> "none"]

OpampInit ==
  /\ wanted \in RemoteConfigs
  /\ disk = NoConfig /\ effective = NoConfig /\ previous = NoConfig /\ collector = NoConfig
  /\ status = NoStatus /\ instance = "own"
  /\ handler = "down" /\ message = NoMessage /\ changed = FALSE
  /\ sighup = FALSE /\ unsignalled = FALSE /\ mishaps = 0

Mishap == mishaps < MaxMishaps /\ mishaps' = mishaps + 1
AllWell == UNCHANGED mishaps

-----------------------------------------------------------------------------
(* Start                                                                   *)

\* What a parser makes of the file: if a part is missing, less or an error.
Readings(d) ==
  IF d = NoConfig THEN {NoConfig}
  ELSE IF d.whole THEN {d.config}
  ELSE IF ~d.parses THEN {}
  ELSE {[k \in ks |-> d.config[k]] : ks \in SUBSET DOMAIN d.config}

\* Mutant: a new agent knows nothing of the file.
LoadNothing(reading) == NoConfig

\* loadEffectiveConfig
LoadEffectiveConfig(reading) == reading

\* A new agent.  If the file cannot be parsed, Start fails in this and in every
\* later process.  createAgentDescription takes the identity of newOpampAgent.
NewAgent(reading) ==
  /\ effective' = LoadEffectiveConfig(reading) /\ collector' = reading
  /\ handler' = "idle" /\ status' = NoStatus /\ instance' = "own"
  /\ previous' = NoConfig /\ message' = NoMessage /\ changed' = FALSE
  /\ sighup' = FALSE /\ unsignalled' = FALSE /\ UNCHANGED <<wanted, disk>>

AgentStart ==
  /\ handler = "down"
  /\ \E reading \in Readings(disk) : NewAgent(reading)
  /\ AllWell

\* The service handles the signal: the agent is stopped, the configuration read,
\* and a new agent started; or the process ends, if the file cannot be parsed.
ReloadService ==
  /\ sighup /\ handler = "idle"
  /\ \/ \E reading \in Readings(disk) : NewAgent(reading)
     \/ /\ Readings(disk) = {} /\ handler' = "down" /\ sighup' = FALSE
        /\ UNCHANGED <<wanted, disk, effective, previous, status, instance, message, changed,
                       collector, unsignalled>>
  /\ AllWell

-----------------------------------------------------------------------------
(* onMessage                                                               *)

\* A message with a configuration, with a new identity, which may not parse, or both.
OnMessage ==
  /\ handler = "idle"
  /\ message' \in [remote : {wanted, NoConfig}, identity : {"none", "given", "zero"}]
  /\ message' # NoMessage
  /\ handler' = "apply" /\ changed' = FALSE
  /\ AllWell
  /\ UNCHANGED <<wanted, disk, effective, previous, status, instance, sighup, collector, unsignalled>>

SetStatus(result) == status' = [hash |-> message.remote, result |-> result]

\* Mutant: the instance configuration is merged first.
InstanceFirst(names) ==
  (IF InstanceConfig \in names THEN <<InstanceConfig>> ELSE <<>>) \o SetToSortSeq(names \ {InstanceConfig}, <)

\* agentConfigFileSlice: by name, the instance configuration last.
OrderedConfigs(names) ==
  SetToSortSeq(names \ {InstanceConfig}, <) \o (IF InstanceConfig \in names THEN <<InstanceConfig>> ELSE <<>>)

\* k.Merge of one after another: the last one wins.
Merged(remote) ==
  FoldLeft(LAMBDA config, name : remote[name] @@ config, <<>>, OrderedConfigs(DOMAIN remote))

\* applyRemoteConfig up to saveEffectiveConfig.
ApplyRemoteConfig ==
  /\ handler = "apply"
  /\ LET remote == message.remote
     IN \/ /\ remote = NoConfig
           /\ handler' = "identify" /\ UNCHANGED <<effective, previous, status>>
        \/ /\ remote # NoConfig /\ \E name \in DOMAIN remote : remote[name] = Unparsable
           /\ handler' = "identify" /\ SetStatus("FAILED") /\ UNCHANGED <<effective, previous>>
        \/ /\ remote # NoConfig /\ \A name \in DOMAIN remote : remote[name] # Unparsable
           /\ IF effective = Merged(remote)
              THEN handler' = "identify" /\ SetStatus("APPLIED") /\ UNCHANGED <<effective, previous>>
              ELSE /\ previous' = effective /\ effective' = Merged(remote)
                   /\ handler' = "create" /\ UNCHANGED status
  /\ AllWell
  /\ UNCHANGED <<wanted, disk, instance, message, changed, sighup, collector, unsignalled>>

\* Mutant: the new configuration stays although it was not saved.
KeepEffective == UNCHANGED effective

\* The error path of applyRemoteConfig.
RestoreEffective == effective' = previous

NotSaved ==
  /\ RestoreEffective /\ SetStatus("FAILED")
  /\ handler' = "identify" /\ UNCHANGED changed /\ Mishap

\* saveEffectiveConfig: os.Create empties the file, ...
CreateFile ==
  /\ handler = "create"
  /\ \/ /\ \E parses \in BOOLEAN : disk' = [whole |-> FALSE, parses |-> parses, config |-> effective]
        /\ handler' = "write" /\ AllWell /\ UNCHANGED <<effective, status, changed>>
     \/ NotSaved /\ UNCHANGED disk
  /\ UNCHANGED <<wanted, previous, instance, message, sighup, collector, unsignalled>>

\* ... then it is written.
WriteFile ==
  /\ handler = "write"
  /\ \/ /\ disk' = [disk EXCEPT !.whole = TRUE, !.parses = TRUE]
        /\ handler' = "identify" /\ SetStatus("APPLIED") /\ changed' = TRUE
        /\ AllWell /\ UNCHANGED effective
     \/ NotSaved /\ UNCHANGED disk
  /\ UNCHANGED <<wanted, previous, instance, message, sighup, collector, unsignalled>>

\* updateAgentIdentity, with the zero ULID if the new one cannot be parsed.
UpdateAgentIdentity ==
  /\ handler = "identify"
  /\ instance' = IF message.identity = "none" THEN instance ELSE message.identity
  /\ handler' = IF changed THEN "reload" ELSE "idle"
  /\ message' = NoMessage
  /\ AllWell
  /\ UNCHANGED <<wanted, disk, effective, previous, status, changed, sighup, collector, unsignalled>>

\* reloadCollectorConfig; a failure is logged.
ReloadCollectorConfig ==
  /\ handler = "reload"
  /\ handler' = "idle" /\ changed' = FALSE
  /\ \/ sighup' = TRUE /\ AllWell /\ UNCHANGED unsignalled
     \/ unsignalled' = TRUE /\ Mishap /\ UNCHANGED sighup
  /\ UNCHANGED <<wanted, disk, effective, previous, status, instance, message, collector>>

-----------------------------------------------------------------------------

\* The server wants something else, or the process crashes, with any signal to it.
OpampEnvironment ==
  /\ Mishap
  /\ \/ wanted' \in RemoteConfigs \ {wanted} /\ UNCHANGED <<handler, sighup>>
     \/ handler # "down" /\ handler' = "down" /\ sighup' = FALSE /\ UNCHANGED wanted
  /\ UNCHANGED <<disk, effective, previous, status, instance, message, changed, collector, unsignalled>>

OpampStep ==
  \/ AgentStart \/ ReloadService \/ ApplyRemoteConfig \/ CreateFile \/ WriteFile
  \/ UpdateAgentIdentity \/ ReloadCollectorConfig

OpampNext == OpampStep \/ OnMessage \/ OpampEnvironment

\* The handler goes on, and a process that ended is started again.  To handle a
\* signal the service waits only for the message at hand.
OpampFairness == WF_opampVars(OpampStep) /\ SF_opampVars(ReloadService)

-----------------------------------------------------------------------------

\* The file whose value for a key counts: the instance configuration, or the last
\* one by name.
Decides(remote, key, name) ==
  /\ key \in DOMAIN remote[name]
  /\ \A other \in DOMAIN remote \ {name, InstanceConfig} :
       key \in DOMAIN remote[other] => name = InstanceConfig \/ other < name
  /\ InstanceConfig \in DOMAIN remote /\ key \in DOMAIN remote[InstanceConfig] => name = InstanceConfig

\* A configuration that onMessage reported as APPLIED is the effective one, merged
\* with the precedence of the files.  It is in the file, unless a write was cut
\* short, and the collector runs with it or is about to, unless the signal could
\* not be sent: neither failed saves nor crashes in the middle, nor the same
\* configuration sent again, make the server believe otherwise.
AppliedTakesHold ==
  handler = "idle" /\ status.result = "APPLIED" =>
    /\ DOMAIN effective = UNION {DOMAIN status.hash[name] : name \in DOMAIN status.hash}
    /\ \A key \in DOMAIN effective : \A name \in DOMAIN status.hash :
         Decides(status.hash, key, name) => effective[key] = status.hash[name][key]
    /\ disk # NoConfig /\ (disk.whole => disk.config = effective)
    /\ collector = effective \/ sighup \/ unsignalled

\* The collector does not reload for ever when the server sends its configuration
\* to each new agent: the agent knows from the file that nothing changed.
ReloadsEnd == <>[]~sighup
=============================================================================
