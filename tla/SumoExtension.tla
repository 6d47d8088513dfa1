--------------------------- MODULE SumoExtension ---------------------------
(***************************************************************************)
(* extension/sumologicextension: how a collector gets the credentials that *)
(* are its identity, keeps them in a file, proves them with heartbeats and *)
(* replaces them.  Start and, after it, the goroutine of heartbeatLoop are *)
(* one thread (pc); around it the server revokes credentials, the service  *)
(* is shut down, and the process crashes and is started again.  The file   *)
(* and the server outlive the process.                                     *)
(*                                                                         *)
(* A credential is a number (its id and key) with the deployment that      *)
(* issued it.  Requests carry nothing else.  Names, fields, hashes and     *)
(* ciphers are left out: a file either decrypts to what was stored or, if  *)
(* it was written only in part, fails to decrypt.  A response of the       *)
(* server has an id and a key, and what is stored has a base URL: the      *)
(* tests of heartbeatLoop and getLocalCredentials for empty ones do not    *)
(* come out otherwise.  Whatever goes wrong counts as a fault, and         *)
(* MaxFaults bounds them all.                                              *)
(***************************************************************************)
EXTENDS Naturals

CONSTANTS ForceRegistration, UpdateMetadata,  \* settings
          ConfiguredUrl,  \* api_base_url
          HomeUrl,        \* the deployment the install token belongs to
          MaxTries,       \* retries before the backoff gives up
          MaxFaults,      \* bound on faults, revocations and stops
          None, Torn

ASSUME SettingsAssumption ==
  /\ ForceRegistration \in BOOLEAN /\ UpdateMetadata \in BOOLEAN
  /\ MaxTries \in Nat /\ MaxFaults \in Nat

VARIABLES
  file,    \* what the credentials store holds: None, Torn or a credential
  issued,  \* server: credentials issued so far
  valid,   \* server: numbers of the credentials it accepts
  pc,      \* where the thread of the extension is
  caller,  \* who registers or injects: "start", "validate" or "beat"
  got,     \* colCreds: the credential in hand
  reg,     \* registrationInfo
  client,  \* the credential the transport of httpClient sends
  baseUrl,
  tries,   \* of the backoff
  closed,  \* closeChan is closed
  notified,\* the channel a watcher holds was closed (credsNotifyUpdate)
  faults

serverVars == <<issued, valid>>
credVars == <<got, reg, client>>
extVars == <<file, serverVars, pc, caller, credVars, baseUrl, tries, closed, notified, faults>>

Urls == {ConfiguredUrl, HomeUrl}
Credential == [id : Nat \ {0}, url : Urls]

\* A missing credential, or one that does not decrypt, is none.
ASSUME NoneAssumption == None # Torn /\ {None, Torn} \cap Credential = {}

Points == {"down", "start", "validate", "delete", "register", "store", "write", "inject",
           "metadata", "beat", "wait", "off"}

ExtInit ==
  /\ file = None /\ issued = 0 /\ valid = {}
  /\ pc = "down" /\ caller = "start"
  /\ got = None /\ reg = None /\ client = None
  /\ baseUrl = ConfiguredUrl
  /\ tries = 0 /\ closed = FALSE /\ notified = FALSE
  /\ faults = 0

\* One more thing goes wrong.
Fault == faults < MaxFaults /\ faults' = faults + 1
Fine  == UNCHANGED faults

-----------------------------------------------------------------------------
(* Start and getCredentials                                                *)

\* newSumologicExtension in a new process.
NewExtension ==
  /\ pc = "down"
  /\ pc' = "start" /\ caller' = "start"
  /\ got' = None /\ reg' = None /\ client' = None
  /\ baseUrl' = ConfiguredUrl
  /\ tries' = 0 /\ closed' = FALSE
  /\ Fine /\ UNCHANGED <<file, serverVars, notified>>

\* registerCollectorWithBackoff begins.
BeginRegistering(who) == pc' = "register" /\ caller' = who /\ tries' = 0

\* Mutant: the deployment in the file is ignored.
ConfiguredUrlOf(stored) == ConfiguredUrl

\* getLocalCredentials: the base URL that goes with stored credentials.
UrlOf(stored) == stored.url

\* Get: a file that is missing or does not decrypt is an error.
Readable(f) == f \notin {None, Torn}

\* getCredentials up to validateCredentials: without stored credentials the
\* collector is registered.
GetLocalCredentials ==
  /\ pc = "start"
  /\ \/ /\ ForceRegistration \/ ~Readable(file)
        /\ BeginRegistering("start")
        /\ UNCHANGED <<got, baseUrl>>
     \/ /\ ~ForceRegistration /\ Readable(file)
        /\ got' = file /\ baseUrl' = UrlOf(file)
        /\ pc' = "inject" /\ caller' = "validate"
        /\ UNCHANGED tries
  /\ Fine /\ UNCHANGED <<file, serverVars, reg, client, closed, notified>>

\* roundTripper: every request of the client carries its credentials.
Sent == client.id

\* The answers to such a request.
Accepted == Sent \in valid /\ Fine
Rejected == Sent \notin valid /\ Fine
Unanswered == Fault

\* validateCredentials: any error, the network's too, counts against the file.
Validate ==
  /\ pc = "validate"
  /\ \/ Accepted /\ pc' = "inject" /\ caller' = "start"
     \/ (Rejected \/ Unanswered) /\ pc' = "delete" /\ UNCHANGED caller
  /\ UNCHANGED <<file, serverVars, credVars, baseUrl, tries, closed, notified>>

\* credentialsStore.Delete; an error is only logged.
DeleteStored ==
  /\ pc = "delete"
  /\ \/ Fine /\ file' = None
     \/ Fault /\ UNCHANGED file
  /\ BeginRegistering("start")
  /\ UNCHANGED <<serverVars, credVars, baseUrl, closed, notified>>

\* Mutant: the channel is not closed.
TellNobody == UNCHANGED notified

\* injectCredentials closes the channel of the watchers.
TellWatchers == notified' = TRUE

\* injectCredentials as far as the copy into registrationInfo is under way
\* while pc is "inject"; then the client, and the watchers are told.  Without a
\* client the new registration stays, and nobody is told.
Inject ==
  /\ pc = "inject"
  /\ reg' = got
  /\ \/ /\ Fine
        /\ client' = got /\ TellWatchers
        /\ pc' = CASE caller = "validate" -> "validate"
                   [] caller = "start"    -> IF UpdateMetadata THEN "metadata" ELSE "beat"
                   [] caller = "beat"     -> "wait"
     \/ /\ Fault
        /\ UNCHANGED <<client, notified>>
        /\ pc' = CASE caller = "validate" -> "delete"
                   [] caller = "start"    -> "down"
                   [] caller = "beat"     -> "beat"
  /\ tries' = 0
  /\ UNCHANGED <<file, serverVars, caller, got, baseUrl, closed>>

\* updateMetadataWithHTTPClient succeeds.
MetadataUpdated == Accepted

\* updateMetadataWithBackoff: no error is permanent; when it gives up, Start fails and the process ends.
Metadata ==
  /\ pc = "metadata"
  /\ \/ MetadataUpdated /\ pc' = "beat" /\ tries' = 0
     \/ /\ Rejected \/ Unanswered
        /\ IF tries < MaxTries THEN pc' = pc /\ tries' = tries + 1
                               ELSE pc' = "down" /\ tries' = 0
  /\ UNCHANGED <<file, serverVars, caller, credVars, baseUrl, closed, notified>>

-----------------------------------------------------------------------------
(* Registration, from Start and from heartbeatLoop                         *)

\* Mutant: the loop ends with the first registration that fails.
GiveUpForGood == pc' = (IF caller = "start" THEN "down" ELSE "off") /\ tries' = 0

\* What a failed registration leads to: Start fails, or the loop goes on.
GiveUp == pc' = (IF caller = "start" THEN "down" ELSE "beat") /\ tries' = 0

\* The server makes a credential for this deployment.
Issue == issued' = issued + 1 /\ valid' = valid \cup {issued + 1}

\* registerCollector: a 301 changes the base URL and asks there, ...
Redirected ==
  /\ pc = "register"
  /\ baseUrl # HomeUrl
  /\ baseUrl' = HomeUrl
  /\ Fine /\ UNCHANGED <<file, serverVars, pc, caller, credVars, tries, closed, notified>>

\* ... a 2xx carries the credentials, ...
Registered ==
  /\ pc = "register"
  /\ baseUrl = HomeUrl
  /\ Issue
  /\ got' = [id |-> issued + 1, url |-> baseUrl]
  /\ pc' = "store"
  /\ Fine /\ UNCHANGED <<file, caller, reg, client, baseUrl, tries, closed, notified>>

\* handleRegistrationError: a 4xx other than 429 is permanent.
RegistrationErrors == {"permanent", "passing"}

\* ... any other answer or none is tried again, until the error is permanent, the
\* backoff gives up, or the loop's context was cancelled.  The server may have
\* registered the collector all the same.
RegistrationFails ==
  /\ pc = "register"
  /\ Fault \/ (caller = "beat" /\ closed /\ Fine)
  /\ \/ baseUrl = HomeUrl /\ Issue
     \/ UNCHANGED serverVars
  /\ \E e \in RegistrationErrors :
       \/ /\ e = "permanent" \/ tries = MaxTries \/ (caller = "beat" /\ closed)
          /\ GiveUp
       \/ e = "passing" /\ tries < MaxTries /\ tries' = tries + 1 /\ pc' = pc
  /\ UNCHANGED <<file, caller, credVars, baseUrl, closed, notified>>

\* Store: ensureDirExists or opening the file fails and it stays as it is, or
\* os.WriteFile truncates it ...
Store ==
  /\ pc = "store"
  /\ \/ Fault /\ pc' = "inject" /\ UNCHANGED file
     \/ Fine /\ pc' = "write" /\ file' = Torn
  /\ UNCHANGED <<serverVars, caller, credVars, baseUrl, tries, closed, notified>>

\* ... and writes it.
StoreWrite ==
  /\ pc = "write"
  /\ \/ Fine /\ file' = got
     \/ Fault /\ UNCHANGED file
  /\ pc' = "inject"
  /\ UNCHANGED <<serverVars, caller, credVars, baseUrl, tries, closed, notified>>

-----------------------------------------------------------------------------
(* heartbeatLoop, Shutdown, and what happens around them                   *)

\* Mutant: any failed heartbeat leads to a new registration.
AnyError == Rejected \/ Unanswered

\* errUnauthorizedHeartbeat: the heartbeat was answered with a 401.
Unauthorized == Rejected

\* One round of heartbeatLoop up to the registration or the timer.
Heartbeat ==
  /\ pc = "beat"
  /\ \/ closed /\ pc' = "off" /\ Fine /\ UNCHANGED <<caller, tries>>
     \/ /\ ~closed
        /\ \/ (Accepted \/ Unanswered) /\ pc' = "wait" /\ UNCHANGED <<caller, tries>>
           \/ Unauthorized /\ BeginRegistering("beat")
  /\ UNCHANGED <<file, serverVars, credVars, baseUrl, closed, notified>>

\* The timer of the loop fires, or closeChan is closed.
Wait == pc = "wait" /\ pc' = "beat" /\ Fine
        /\ UNCHANGED <<file, serverVars, caller, credVars, baseUrl, tries, closed, notified>>

\* Start has returned and heartbeatLoop runs.
Running == pc \in {"beat", "wait"} \/ (caller = "beat" /\ pc \notin {"down", "off", "start"})

\* Shutdown, by the service once Start has returned.
Shutdown ==
  /\ Running
  /\ ~closed /\ closed' = TRUE
  /\ Fault /\ UNCHANGED <<file, serverVars, pc, caller, credVars, baseUrl, tries, notified>>

\* The process ends after a shutdown, ...
Exit ==
  /\ pc = "off" /\ closed
  /\ pc' = "down"
  /\ Fine /\ UNCHANGED <<file, serverVars, caller, credVars, baseUrl, tries, closed, notified>>

\* ... or crashes anywhere.
Crash ==
  /\ pc # "down"
  /\ pc' = "down"
  /\ Fault /\ UNCHANGED <<file, serverVars, caller, credVars, baseUrl, tries, closed, notified>>

\* The collector was removed at the server, which no longer accepts it.
Revoke ==
  /\ \E id \in valid : valid' = valid \ {id}
  /\ Fault
  /\ UNCHANGED <<file, issued, pc, caller, credVars, baseUrl, tries, closed, notified>>

-----------------------------------------------------------------------------

\* A request with the collector's credentials goes to the deployment that issued
\* them, also after a restart: registerCollector follows a 301 and keeps the URL
\* with the credentials, and getLocalCredentials takes it back from the file.
CredentialsGoHome ==
  pc \in {"validate", "metadata", "beat"} => client # None /\ client.url = baseUrl

\* heartbeatLoop registers the collector anew only if the server no longer
\* accepts the credentials its client sends: a heartbeat that fails for another
\* reason, however often, costs no identity.
OnlyRejectedReplaced ==
  caller = "beat" /\ pc \in {"register", "store", "write", "inject"} => client.id \notin valid

\* What the extension does by itself.
ExtStep ==
  \/ NewExtension \/ GetLocalCredentials \/ Validate \/ DeleteStored \/ Inject \/ Metadata
  \/ Redirected \/ Registered \/ RegistrationFails \/ Store \/ StoreWrite
  \/ Heartbeat \/ Wait \/ Exit

ExtNext == ExtStep \/ Shutdown \/ Crash \/ Revoke
=============================================================================
