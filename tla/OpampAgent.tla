----------------------------- MODULE OpampAgent -----------------------------
(***************************************************************************)
(* extension/opampextension beside the extension whose credentials it      *)
(* uses: Start, Reload, Shutdown and watchCredentials of the OpAMP agent.  *)
(* The agent has one thread at a time: the caller of Start, then the       *)
(* goroutine that waits for the first key or for a change of the key and   *)
(* calls Reload.  The service may call Shutdown at any time.               *)
(*                                                                         *)
(* CreateCredentialsHeader reads registrationInfo without the lock: while  *)
(* it is being replaced, the id and the key may come from either value.    *)
(* The client of opamp-go is external and only runs or does not; what it   *)
(* delivers is in OpampConfig.  The context of Start is the one of the     *)
(* collector's main, which is never done while the process runs, so        *)
(* WatchCredentialKey returns with another key or not at all.  A first     *)
(* Start that fails ends the process, as Crash does.                       *)
(***************************************************************************)
EXTENDS SumoExtension

VARIABLES
  apc,       \* where the thread of the agent is
  header,    \* authHeader: id and key, or None
  watchKey,  \* the key WatchCredentialKey compares with; 0 is ""
  waiting,   \* WatchCredentialKey holds a channel and waits
  running,   \* opampClient was started and not stopped
  stopped,   \* the service called Shutdown
  due        \* history: Shutdown met the agent between two clients, or the
             \* key was another one then or became one since

agentVars == <<apc, header, watchKey, waiting, running, stopped, due>>
identityVars == <<extVars, agentVars>>

NoAgent == <<"idle", None, 0, FALSE, FALSE, FALSE, FALSE>>

AgentInit ==
  /\ ExtInit
  /\ apc = "idle" /\ header = None /\ watchKey = 0
  /\ waiting = FALSE /\ running = FALSE /\ stopped = FALSE /\ due = FALSE

\* CollectorCredentialKey of registrationInfo.
KeyOf(r) == IF r = None THEN 0 ELSE r.id

\* What CreateCredentialsHeader may read: None if an id or a key is "".
Headers ==
  LET from == IF pc = "inject" THEN {KeyOf(reg), KeyOf(got)} ELSE {KeyOf(reg)}
      read == [id : from, key : from]
  IN {IF h.id = 0 \/ h.key = 0 THEN None ELSE h : h \in read}

-----------------------------------------------------------------------------

\* Start and Reload's Start: a new client, then the header.  The service starts
\* the agent before the extension or after it.
CreateHeader ==
  /\ \/ apc = "idle" /\ ~stopped /\ (pc = "start" \/ Running)
     \/ apc = "restart"
  /\ \E h \in Headers :
       IF h = None
       THEN /\ UNCHANGED header
            /\ apc' = "await" /\ watchKey' = 0
       ELSE /\ header' = h
            /\ apc' = "client" /\ UNCHANGED watchKey
  /\ UNCHANGED <<extVars, waiting, running, stopped, due>>

\* Reload's Start fails on the way to the header: the error is logged, and
\* nobody watches the key any more.
RestartFails ==
  /\ apc = "restart" /\ apc' = "ended"
  /\ Fault
  /\ UNCHANGED <<file, serverVars, pc, caller, credVars, baseUrl, tries, closed, notified,
                 header, watchKey, waiting, running, stopped, due>>

\* The goroutine of Start after the wait: no header, no client.
CreateHeaderLate ==
  /\ apc = "created"
  /\ \E h \in Headers :
       IF h = None THEN apc' = "ended" /\ UNCHANGED header
                   ELSE apc' = "client" /\ header' = h
  /\ UNCHANGED <<extVars, watchKey, waiting, running, stopped, due>>

\* watchCredentials: it calls WatchCredentialKey with "" to learn the key
\* ("watch") and with that key to wait ("watching"), and then the callback.
AfterKey ==
  CASE apc = "await" -> "created" [] apc = "watch" -> "watching" [] apc = "watching" -> "stop"

\* Mutant: the key is not compared again when the channel was closed.
UnchangedAtFirst == KeyOf(reg) = watchKey /\ ~waiting

\* The condition of the loop of WatchCredentialKey.
Unchanged == KeyOf(reg) = watchKey

\* One round of WatchCredentialKey: under the lock it reads the key and takes the
\* channel, and returns if the key is not the old one.
WatchCredentialKey ==
  /\ apc \in {"await", "watch", "watching"}
  /\ pc # "inject"
  /\ ~waiting \/ notified
  /\ IF Unchanged
     THEN /\ waiting' = TRUE /\ notified' = FALSE
          /\ UNCHANGED <<apc, watchKey>>
     ELSE /\ waiting' = FALSE /\ UNCHANGED notified
          /\ apc' = AfterKey
          /\ watchKey' = IF apc = "watch" THEN KeyOf(reg) ELSE watchKey
  /\ UNCHANGED <<file, serverVars, pc, caller, credVars, baseUrl, tries, closed, faults,
                 header, running, stopped, due>>

\* startClient up to watchCredentials.
StartClient ==
  /\ apc = "client"
  /\ \/ running' = TRUE /\ apc' = "watch" /\ watchKey' = 0 /\ Fine
     \/ apc' = "ended" /\ Fault /\ UNCHANGED <<running, watchKey>>
  /\ UNCHANGED <<file, serverVars, pc, caller, credVars, baseUrl, tries, closed, notified,
                 header, waiting, stopped, due>>

\* Reload: Shutdown stops the client.  A client that was stopped before may
\* refuse (external); then nothing is started.
Reload ==
  /\ apc = "stop"
  /\ running' = FALSE
  /\ apc' = "restart" \/ (~running /\ apc' = "ended")
  /\ UNCHANGED <<extVars, header, watchKey, waiting, stopped, due>>

\* Shutdown, by the service once everything was started: it stops the client
\* that opampClient holds, and nothing tells the goroutine.
AgentShutdown ==
  /\ apc # "idle" /\ ~stopped /\ (Running \/ pc = "off")
  /\ stopped' = TRUE /\ running' = FALSE
  /\ due' = (apc \notin {"watch", "ended"} /\ ~(apc = "watching" /\ KeyOf(reg) = watchKey))
  /\ Fault
  /\ UNCHANGED <<file, serverVars, pc, caller, credVars, baseUrl, tries, closed, notified,
                 apc, header, watchKey, waiting>>

AgentStep == CreateHeader \/ RestartFails \/ CreateHeaderLate \/ WatchCredentialKey \/ StartClient \/ Reload

\* A process that ends takes the agent with it.
AgentFollows ==
  LET now == IF pc' = "down" THEN NoAgent ELSE agentVars
  IN /\ apc' = now[1] /\ header' = now[2] /\ watchKey' = now[3]
     /\ waiting' = now[4] /\ running' = now[5] /\ stopped' = now[6]
     /\ due' = (now[7] \/ (now[6] /\ KeyOf(reg') # KeyOf(reg)))

AgentNext == (ExtNext /\ AgentFollows) \/ AgentStep \/ AgentShutdown

AgentSpec == AgentInit /\ [][AgentNext]_identityVars

\* The goroutines go on, and a supervisor starts the process again.
AgentFairness == WF_identityVars(ExtStep /\ AgentFollows) /\ WF_identityVars(AgentStep)

-----------------------------------------------------------------------------

\* Once the service has called Shutdown, an OpAMP client runs only if the call met
\* the agent's goroutine between two clients, or if the key changed: a goroutine
\* that waits in WatchCredentialKey starts no client because it was woken.
ShutdownHolds == stopped /\ running => due

\* A watcher that waits while the key is another one has been woken, unless the
\* client for the new credentials could not be made: injectCredentials and
\* WatchCredentialKey use the lock so that no change falls between reading the
\* key and taking the channel.
NoMissedWakeup ==
  waiting /\ KeyOf(reg) # watchKey /\ client = reg => notified

\* The collector is registered and sends heartbeats with credentials the server
\* accepts.
HeartbeatsAccepted == pc \in {"beat", "wait"} /\ client.id \in valid
=============================================================================
