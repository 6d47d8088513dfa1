-------------------------- MODULE ConnectionProofs --------------------------
(***************************************************************************)
(* The collector's identity, the OpAMP agent that follows it and the       *)
(* connections of the syslog exporter, for any settings, deployments,      *)
(* lines and number of faults.                                             *)
(***************************************************************************)
EXTENDS OpampAgent, SyslogExporter, FiniteSetTheorems, TLAPS

-----------------------------------------------------------------------------
(* SumoExtension and OpampAgent: the identity. *)

\* Credentials come from the deployment of the install token and were issued.
Genuine(c) == c \in Credential /\ c.url = HomeUrl /\ c.id <= issued

ExtTypeOK ==
  /\ issued \in Nat /\ valid \in SUBSET (1..issued)
  /\ pc \in Points /\ caller \in {"start", "validate", "beat"}
  /\ file \in {None, Torn} \/ Genuine(file)
  /\ got = None \/ Genuine(got)
  /\ reg = None \/ Genuine(reg)
  /\ client = None \/ Genuine(client)

\* Where the thread of the extension is tells what it has: credentials in hand
\* while it stores or injects them, a client once it sends, and from then on the
\* base URL of the deployment.
Placed ==
  /\ pc \in {"validate", "store", "write", "inject"} => got # None /\ baseUrl = HomeUrl
  /\ pc \in {"register", "store", "write"} => caller # "validate"
  /\ pc \in {"validate", "metadata", "beat", "wait"} => client # None /\ baseUrl = HomeUrl
  /\ caller = "beat" /\ pc \notin {"down", "start"} => client # None /\ baseUrl = HomeUrl
  /\ pc = "start" => reg = None /\ client = None /\ got = None /\ caller = "start"
  /\ pc = "metadata" => caller = "start"
  /\ pc = "validate" => caller = "validate"
  /\ pc = "inject" /\ caller = "validate" => client = None

\* A client that has the credentials in hand is not behind the registration.
Linked == client # None /\ client = got => reg = client

ExtInv == ExtTypeOK /\ Placed /\ OnlyRejectedReplaced /\ Linked

\* The agent waits only where it watches, and goes with the process.
AgentOK ==
  /\ waiting \in BOOLEAN /\ running \in BOOLEAN /\ stopped \in BOOLEAN /\ due \in BOOLEAN
  /\ waiting => apc \in {"await", "watch", "watching"}
  /\ pc = "down" => apc = "idle" /\ ~waiting

\* After a Shutdown that left nothing to do, the goroutine is about to wait for
\* another key than the present one, waits for it, or has ended.
AtRest ==
  stopped /\ ~due =>
    /\ ~running
    /\ apc \in {"watch", "ended"} \/ (apc = "watching" /\ watchKey = KeyOf(reg))

IdInv == ExtInv /\ AgentOK /\ AtRest /\ NoMissedWakeup

-----------------------------------------------------------------------------
(* The extension                                                           *)

\* Before the first process nothing is stored and no credential is issued.
LEMMA InitIdInv == AgentInit => IdInv
<1> SUFFICES ASSUME AgentInit PROVE IdInv
  OBVIOUS
<1>1. ExtTypeOK
  BY DEF AgentInit, ExtInit, ExtTypeOK, Points
<1>2. Placed /\ OnlyRejectedReplaced /\ Linked
  BY Zenon DEF AgentInit, ExtInit, Placed, OnlyRejectedReplaced, Linked
<1>3. AgentOK /\ AtRest /\ NoMissedWakeup
  BY Zenon DEF AgentInit, ExtInit, AgentOK, AtRest, NoMissedWakeup
<1> QED BY <1>1, <1>2, <1>3 DEF IdInv, ExtInv

\* Start, validation and injection keep what the extension has in place.
LEMMA StartInv ==
  ASSUME ExtInv, NewExtension \/ GetLocalCredentials \/ Validate \/ DeleteStored \/ Metadata
  PROVE  ExtInv'
<1> USE DEF ExtInv, ExtTypeOK, Placed, OnlyRejectedReplaced, Linked, Points, Genuine, serverVars, credVars
<1>1. CASE NewExtension
  BY <1>1, Zenon DEF NewExtension
<1>2. CASE GetLocalCredentials
  BY <1>2, Zenon DEF GetLocalCredentials, BeginRegistering, Readable, UrlOf
<1>3. CASE Validate
  BY <1>3, Zenon DEF Validate, Accepted, Rejected, Unanswered
<1>4. CASE DeleteStored
  BY <1>4, Zenon DEF DeleteStored, BeginRegistering
<1>5. CASE Metadata
  BY <1>5 DEF Metadata, MetadataUpdated, Accepted, Rejected, Unanswered
<1> QED BY <1>1, <1>2, <1>3, <1>4, <1>5, Zenon

\* injectCredentials replaces the registration, and the client or nothing more.
LEMMA InjectInv == ASSUME ExtInv, Inject PROVE ExtInv'
BY DEF ExtInv, ExtTypeOK, Placed, OnlyRejectedReplaced, Linked, Points, Genuine, serverVars,
       Inject, TellWatchers

\* The server counts the credentials it issues.
LEMMA IssueInv ==
  ASSUME issued \in Nat, valid \in SUBSET (1..issued), Issue \/ UNCHANGED serverVars
  PROVE  /\ issued' \in Nat /\ valid' \in SUBSET (1..issued') /\ issued <= issued'
         /\ \A id \in 1..issued : id \notin valid => id \notin valid'
<1>1. CASE Issue
  BY <1>1 DEF Issue
<1>2. CASE UNCHANGED serverVars
  BY <1>2 DEF serverVars
<1> QED BY <1>1, <1>2

\* A registration gives credentials that no one had before.
LEMMA RegisterInv ==
  ASSUME ExtInv, Redirected \/ Registered \/ RegistrationFails \/ Store \/ StoreWrite
  PROVE  ExtInv'
<1> USE DEF ExtInv, ExtTypeOK, Placed, OnlyRejectedReplaced, Linked, Points, Genuine, serverVars, credVars
<1>1. CASE Redirected
  BY <1>1, Zenon DEF Redirected
<1>2. CASE Registered
  BY <1>2, IssueInv, NoneAssumption DEF Registered, Issue, Credential, Urls
<1>3. CASE RegistrationFails
  BY <1>3, IssueInv DEF RegistrationFails, Credential, GiveUp
<1>4. CASE Store
  BY <1>4 DEF Store
<1>5. CASE StoreWrite
  BY <1>5 DEF StoreWrite
<1> QED BY <1>1, <1>2, <1>3, <1>4, <1>5, Zenon

\* heartbeatLoop begins to register only after a 401; the rest leaves credentials alone.
LEMMA LoopInv ==
  ASSUME ExtInv, Heartbeat \/ Wait \/ Exit \/ Shutdown \/ Crash \/ Revoke
  PROVE  ExtInv'
<1> USE DEF ExtInv, ExtTypeOK, Placed, OnlyRejectedReplaced, Linked, Points, Genuine, serverVars, credVars
<1>1. CASE Heartbeat
  BY <1>1 DEF Heartbeat, Accepted, Unanswered, Unauthorized, Rejected, Sent, BeginRegistering
<1>2. CASE Wait \/ Exit
  BY <1>2, Zenon DEF Wait, Exit
<1>3. CASE Shutdown
  BY <1>3 DEF Shutdown
<1>4. CASE Crash
  BY <1>4 DEF Crash
<1>5. CASE Revoke
  BY <1>5 DEF Revoke
<1> QED BY <1>1, <1>2, <1>3, <1>4, <1>5, Zenon

\* Every step of the extension and of what happens around it keeps its invariant.
LEMMA ExtNextInv == ASSUME ExtInv, ExtNext PROVE ExtInv'
BY StartInv, InjectInv, RegisterInv, LoopInv, Zenon DEF ExtNext, ExtStep

-----------------------------------------------------------------------------
(* The agent                                                               *)

\* The agent ends with the process and is left alone otherwise.
LEMMA Follows ==
  ASSUME AgentFollows
  PROVE  \/ /\ pc' = "down" /\ apc' = "idle" /\ watchKey' = 0 /\ waiting' = FALSE
            /\ running' = FALSE /\ stopped' = FALSE /\ due' = FALSE
         \/ /\ pc' # "down" /\ UNCHANGED <<apc, watchKey, waiting, running, stopped>>
            /\ due' = (due \/ (stopped /\ KeyOf(reg') # KeyOf(reg)))
BY Zenon DEF AgentFollows, NoAgent, agentVars

\* Only injectCredentials gives the registration another value while a process
\* runs; if there is a client for it, the watchers are told.
LEMMA RegistrationChanges ==
  ASSUME ExtInv, ExtNext
  PROVE  \/ UNCHANGED <<reg, client, notified>>
         \/ pc = "down"
         \/ pc = "inject" /\ reg' = got /\ client' = got /\ notified' = TRUE
         \/ pc = "inject" /\ reg' = got /\ UNCHANGED <<client, notified>>
<1> USE DEF serverVars, credVars
<1>1. CASE NewExtension
  BY <1>1 DEF NewExtension
<1>2. CASE Inject
  BY <1>2 DEF Inject, TellWatchers
<1>3. CASE GetLocalCredentials \/ Validate \/ DeleteStored \/ Metadata \/ Redirected \/ Registered
  BY <1>3, Zenon DEF GetLocalCredentials, Validate, DeleteStored, Metadata, Redirected, Registered
<1>4. CASE RegistrationFails \/ Store \/ StoreWrite \/ Heartbeat \/ Wait \/ Exit
  BY <1>4, Zenon DEF RegistrationFails, Store, StoreWrite, Heartbeat, Wait, Exit
<1>5. CASE Shutdown \/ Crash \/ Revoke
  BY <1>5, Zenon DEF Shutdown, Crash, Revoke
<1> QED BY <1>1, <1>2, <1>3, <1>4, <1>5, Zenon DEF ExtNext, ExtStep

\* A step of the extension, with the agent at its side.
LEMMA ExtIdInv == ASSUME IdInv, ExtNext, AgentFollows PROVE IdInv'
<1>1. ExtInv'
  BY ExtNextInv DEF IdInv
<1>2. AgentOK'
  <2>1. CASE pc' = "down"
    BY <2>1, Follows DEF AgentOK
  <2>2. CASE pc' # "down"
    <3>1. /\ apc' = apc /\ waiting' = waiting /\ running' = running /\ stopped' = stopped
          /\ due' \in BOOLEAN
      BY <2>2, Follows, Zenon
    <3> QED BY <2>2, <3>1, Zenon DEF IdInv, AgentOK
  <2> QED BY <2>1, <2>2
<1>3. AtRest'
  <2> SUFFICES ASSUME stopped', ~due'
               PROVE  ~running' /\ (apc' \in {"watch", "ended"} \/ (apc' = "watching" /\ watchKey' = KeyOf(reg')))
    BY Zenon DEF AtRest, KeyOf
  <2>1. /\ UNCHANGED <<apc, watchKey, running, stopped>> /\ ~due
        /\ KeyOf(reg') = KeyOf(reg)
    BY Follows, Zenon DEF IdInv, AgentOK
  <2> QED BY <2>1, Zenon DEF IdInv, AtRest
<1>4. NoMissedWakeup'
  <2> SUFFICES ASSUME waiting', KeyOf(reg') # watchKey', client' = reg' PROVE notified'
    BY DEF NoMissedWakeup, KeyOf
  <2>1. UNCHANGED <<waiting, watchKey>> /\ pc # "down"
    BY Follows, Zenon DEF IdInv, AgentOK
  <2>2. CASE UNCHANGED <<reg, client, notified>>
    BY <2>1, <2>2 DEF IdInv, NoMissedWakeup
  <2>3. CASE pc = "inject" /\ reg' = got /\ UNCHANGED <<client, notified>>
    BY <2>1, <2>3, Zenon DEF IdInv, ExtInv, Placed, Linked, NoMissedWakeup
  <2> QED BY <2>1, <2>2, <2>3, RegistrationChanges, Zenon DEF IdInv
<1> QED BY <1>1, <1>2, <1>3, <1>4 DEF IdInv

\* A step of the agent: it reads the registration and takes a channel under one lock.
LEMMA AgentStepInv == ASSUME IdInv, AgentStep \/ AgentShutdown PROVE IdInv'
<1>1. ExtInv' /\ pc' = pc /\ UNCHANGED <<reg, client>>
  <2>1. UNCHANGED <<file, issued, valid, pc, caller, got, reg, client, baseUrl>>
    BY DEF AgentStep, CreateHeader, RestartFails, CreateHeaderLate, WatchCredentialKey, StartClient, Reload,
           AgentShutdown, extVars, serverVars, credVars
  <2> QED BY <2>1 DEF IdInv, ExtInv, ExtTypeOK, Placed, OnlyRejectedReplaced, Linked, Genuine
<1> USE DEF IdInv, AgentOK, AtRest, NoMissedWakeup
<1>2. CASE CreateHeader
  BY <1>1, <1>2, Zenon DEF CreateHeader, Running, extVars
<1>8. CASE RestartFails
  BY <1>1, <1>8, Zenon DEF RestartFails
<1>3. CASE CreateHeaderLate
  BY <1>1, <1>3, Zenon DEF CreateHeaderLate, extVars
<1>4. CASE WatchCredentialKey
  BY <1>1, <1>4, Zenon DEF WatchCredentialKey, AfterKey, Unchanged, KeyOf
<1>5. CASE StartClient
  BY <1>1, <1>5, Zenon DEF StartClient
<1>6. CASE Reload
  BY <1>1, <1>6, Zenon DEF Reload, extVars
<1>7. CASE AgentShutdown
  BY <1>1, <1>7, Zenon DEF AgentShutdown
<1> QED BY <1>2, <1>3, <1>4, <1>5, <1>6, <1>7, <1>8, Zenon DEF AgentStep

-----------------------------------------------------------------------------

\* The extension and the OpAMP agent keep IdInv, whatever the server, the
\* credentials file, crashes and shutdowns do.
THEOREM IdentityInvariant == AgentSpec => []IdInv
<1>1. IdInv /\ [AgentNext]_identityVars => IdInv'
  <2> SUFFICES ASSUME IdInv, [AgentNext]_identityVars PROVE IdInv'
    OBVIOUS
  <2>1. CASE AgentNext
    BY <2>1, ExtIdInv, AgentStepInv DEF AgentNext
  <2>2. CASE UNCHANGED identityVars
    BY <2>2 DEF identityVars, extVars, agentVars, serverVars, credVars, IdInv, ExtInv, ExtTypeOK, Placed,
       OnlyRejectedReplaced, Linked, Genuine, AgentOK, AtRest, NoMissedWakeup, KeyOf
  <2> QED BY <2>1, <2>2
<1> QED BY InitIdInv, <1>1, PTL DEF AgentSpec

\* Requests carry their credentials to the deployment that issued them
\* (getCredentials, injectCredentials, the redirect of registerCollector).
THEOREM CredentialsStayHome == AgentSpec => []CredentialsGoHome
<1>1. IdInv => CredentialsGoHome
  BY DEF IdInv, ExtInv, ExtTypeOK, Placed, Genuine, CredentialsGoHome
<1> QED BY <1>1, IdentityInvariant, PTL

\* getCredentials and heartbeatLoop replace only credentials the server rejected.
THEOREM ReplacedWereRejected == AgentSpec => []OnlyRejectedReplaced
<1>1. IdInv => OnlyRejectedReplaced
  BY DEF IdInv, ExtInv
<1> QED BY <1>1, IdentityInvariant, PTL

\* After Shutdown of the agent, no goroutine of watchCredentials or of Start makes
\* an OpAMP client run unless it was about to when Shutdown was called or the key
\* changed.
THEOREM NoClientAfterShutdown == AgentSpec => []ShutdownHolds
<1>1. IdInv => ShutdownHolds
  BY DEF IdInv, AtRest, ShutdownHolds
<1> QED BY <1>1, IdentityInvariant, PTL

\* No change of the key passes WatchCredentialKey by: it reads the registration and
\* takes the channel that injectCredentials closes under one lock.
THEOREM KeyChangesNoticed == AgentSpec => []NoMissedWakeup
<1>1. IdInv => NoMissedWakeup
  BY DEF IdInv
<1> QED BY <1>1, IdentityInvariant, PTL

-----------------------------------------------------------------------------
(* SyslogExporter: ConnectionsClosed and CutLinesLast. *)

Fillings == {"given", "default", "nil", "additional"}
Line == UNION {[SetOf(Properties(f)) -> Fillings] : f \in {"rfc3164", "rfc5424"}}
WireLine == [record : Nat, whole : BOOLEAN, line : Line]

Pushes == {"connect", "write", "reconnect", "rewrite", "close failed", "failed", "done", "panicked"}

Numbers == position \in Nat /\ breaks \in Nat /\ opened \in Nat /\ conn \in Int

SyslogTypeOK == push \in Pushes /\ Numbers /\ wire \in Seq(Seq(WireLine)) /\ Len(wire) = opened

\* At most the connection in s.conn is open, and none between pushes.
OneConnection ==
  /\ open \subseteq {conn}
  /\ push \in {"connect", "failed", "done", "panicked"} => open = {}
  /\ push \in {"write", "reconnect", "rewrite"} => conn \in 1..opened
  /\ push = "reconnect" => breaks >= 1
  /\ conn = TypedNil => push \in {"close failed", "panicked"}
  /\ push = "panicked" \/ conn = TypedNil => tlsConfig /\ breaks >= 2

\* The connection that is written to carried whole lines only.
WholeSoFar ==
  push \in {"write", "rewrite"} => \A i \in 1..Len(wire[conn]) : wire[conn][i].whole

SyslogInv == SyslogTypeOK /\ OneConnection /\ WholeSoFar /\ CutLinesLast

-----------------------------------------------------------------------------

\* The nil of a failed tls.Dial is neither nil nor a connection (s.conn).
LEMMA TypedNilDiffers == NoConn \in Int /\ TypedNil \in Int /\ TypedNil # NoConn /\ \A n \in Nat : TypedNil \notin 1..n
BY DEF NoConn, TypedNil

\* Nothing is open and nothing written before the first push.
LEMMA InitSyslogInv == SyslogInit => SyslogInv
BY TypedNilDiffers DEF SyslogInit, SyslogInv, SyslogTypeOK, Numbers, Pushes, OneConnection, WholeSoFar, CutLinesLast

\* A new connection carries nothing yet.
LEMMA DialledInv ==
  ASSUME SyslogInv, Dialled, UNCHANGED <<format, logs>>
  PROVE  /\ wire' \in Seq(Seq(WireLine)) /\ Len(wire') = opened' /\ opened' \in Nat
         /\ conn' \in 1..opened' /\ wire'[conn'] = <<>>
         /\ CutLinesLast'
<1>1. /\ wire \in Seq(Seq(WireLine)) /\ opened \in Nat /\ Len(wire) = opened
      /\ wire' = Append(wire, <<>>) /\ opened' = opened + 1 /\ conn' = opened + 1
  BY Zenon DEF SyslogInv, SyslogTypeOK, Numbers, Dialled
<1>3. /\ wire' \in Seq(Seq(WireLine)) /\ Len(wire') = opened + 1 /\ wire'[opened + 1] = <<>>
      /\ \A c \in 1..opened : wire'[c] = wire[c]
  BY <1>1
<1>4. CutLinesLast'
  BY <1>1, <1>3 DEF CutLinesLast, SyslogInv
<1> QED BY <1>1, <1>3, <1>4

\* formatMsg fills in the properties of its format.
LEMMA FormatMsgLine == ASSUME NEW record PROVE FormatMsg(record) \in Line
<1>1. Properties(format) \in {Properties("rfc3164"), Properties("rfc5424")}
  BY DEF Properties
<1>2. PopulateDefaults(record, Properties(format)) \in [SetOf(Properties(format)) -> Fillings]
  BY DEF PopulateDefaults, Fillings
<1>3. FormatMsg(record) \in [SetOf(Properties(format)) -> Fillings]
  BY <1>2, Zenon DEF FormatMsg, AddStructuredData, Fillings
<1> QED BY <1>1, <1>3 DEF Line

\* A line is written after whole lines.
LEMMA WrittenInv ==
  ASSUME SyslogInv, push \in {"write", "rewrite"}, NEW new \in WireLine,
         wire' = [wire EXCEPT ![conn] = Append(@, new)], UNCHANGED <<conn, opened>>
  PROVE  /\ wire' \in Seq(Seq(WireLine)) /\ Len(wire') = opened
         /\ CutLinesLast'
         /\ new.whole => \A i \in 1..Len(wire'[conn]) : wire'[conn][i].whole
<1>1. /\ wire \in Seq(Seq(WireLine)) /\ opened \in Nat /\ Len(wire) = opened /\ conn \in 1..opened
  BY Zenon DEF SyslogInv, SyslogTypeOK, Numbers, OneConnection
<1>4. wire[conn] \in Seq(WireLine)
  BY <1>1
<1>5. /\ Append(wire[conn], new) \in Seq(WireLine)
      /\ Len(Append(wire[conn], new)) = Len(wire[conn]) + 1 /\ Len(wire[conn]) \in Nat
      /\ \A i \in 1..Len(wire[conn]) : Append(wire[conn], new)[i] = wire[conn][i]
      /\ Append(wire[conn], new)[Len(wire[conn]) + 1] = new
  BY <1>4
<1>6. /\ wire' \in Seq(Seq(WireLine)) /\ Len(wire') = opened
      /\ wire'[conn] = Append(wire[conn], new)
      /\ \A c \in 1..opened : c # conn => wire'[c] = wire[c]
  BY <1>1, <1>5
<1>7. \A i \in 1..Len(wire[conn]) : wire[conn][i].whole
  BY Zenon DEF SyslogInv, WholeSoFar
<1>8. CutLinesLast'
  BY <1>1, <1>5, <1>6, <1>7 DEF CutLinesLast, SyslogInv
<1>9. ASSUME new.whole, NEW i \in 1..Len(wire'[conn]) PROVE wire'[conn][i].whole
  BY <1>5, <1>6, <1>7, <1>9
<1> QED BY <1>6, <1>8, <1>9, Zenon

\* Connect opens a connection or nothing.
LEMMA ConnectInv == ASSUME SyslogInv, Connect PROVE SyslogInv'
<1>0. push = "connect" /\ UNCHANGED <<format, tlsConfig, logs, position>>
  BY DEF Connect
<1>3. Numbers
  BY DEF SyslogInv, SyslogTypeOK
<1>1. CASE Dialled /\ open' = open \cup {conn'} /\ push' = "write" /\ Works
  <2>1. /\ wire' \in Seq(Seq(WireLine)) /\ Len(wire') = opened' /\ opened' \in Nat
        /\ conn' \in 1..opened' /\ wire'[conn'] = <<>> /\ CutLinesLast'
    BY <1>0, <1>1, DialledInv
  <2>2. Numbers' /\ conn' # TypedNil
    <3>1. UNCHANGED <<position, breaks>>
      BY <1>0, <1>1 DEF Works
    <3>2. conn' \in Int /\ conn' # TypedNil
      <4>1. opened' \in Nat /\ conn' \in 1..opened'
        BY <2>1
      <4> QED BY <4>1, TypedNilDiffers
    <3> QED BY <1>3, <2>1, <3>1, <3>2 DEF Numbers
  <2>3. open' = {conn'}
    BY <1>0, <1>1 DEF SyslogInv, OneConnection
  <2>4. OneConnection' /\ WholeSoFar'
    BY <1>1, <2>1, <2>2, <2>3 DEF OneConnection, WholeSoFar
  <2> QED BY <1>1, <2>1, <2>2, <2>4, Zenon DEF SyslogInv, SyslogTypeOK, Pushes
<1>2. CASE UNCHANGED <<opened, wire, conn, open, first>> /\ push' = "failed" /\ Break
  BY <1>0, <1>2 DEF SyslogInv, SyslogTypeOK, Numbers, Pushes, OneConnection, WholeSoFar, CutLinesLast, Break
<1> QED BY <1>1, <1>2 DEF Connect

\* The first and the second try of Write.
LEMMA WriteInv == ASSUME SyslogInv, Write \/ Rewrite PROVE SyslogInv'
<1>0. /\ push \in {"write", "rewrite"} /\ UNCHANGED <<format, tlsConfig, logs, conn, opened, open>>
  BY Zenon DEF Write, Rewrite
<1>3. Numbers
  BY DEF SyslogInv, SyslogTypeOK
<1>1. CASE Written(TRUE) /\ Works /\ position' = position + 1 /\ push' = "write"
  <2>1. /\ wire' \in Seq(Seq(WireLine)) /\ Len(wire') = opened
        /\ CutLinesLast' /\ \A i \in 1..Len(wire'[conn]) : wire'[conn][i].whole
    <3> DEFINE new == [record |-> position, whole |-> TRUE, line |-> FormatMsg(logs[position])]
    <3>1. new \in WireLine /\ new.whole
      BY FormatMsgLine, Zenon DEF WireLine, SyslogInv, SyslogTypeOK, Numbers
    <3>2. wire' = [wire EXCEPT ![conn] = Append(@, new)]
      BY <1>1, Zenon DEF Written
    <3> HIDE DEF new
    <3> QED BY <1>0, <3>1, <3>2, WrittenInv, Zenon
  <2>2. SyslogTypeOK'
    <3>1. position' = position + 1 /\ UNCHANGED <<conn, opened, breaks>>
      BY <1>0, <1>1 DEF Works
    <3>2. Numbers'
      BY <1>3, <3>1 DEF Numbers
    <3>3. push' \in Pushes
      BY <1>1 DEF Pushes
    <3> QED BY <2>1, <3>1, <3>2, <3>3 DEF SyslogTypeOK
  <2>3. OneConnection'
    BY <1>0, <1>1, Zenon DEF SyslogInv, OneConnection, Works
  <2>4. WholeSoFar'
    BY <1>0, <2>1, Zenon DEF WholeSoFar
  <2> QED BY <2>1, <2>2, <2>3, <2>4 DEF SyslogInv
<1>2. CASE Written(FALSE) /\ Break /\ push' \in {"reconnect", "close failed"} /\ UNCHANGED position
  <2>1. /\ wire' \in Seq(Seq(WireLine)) /\ Len(wire') = opened /\ CutLinesLast'
    <3> DEFINE new == [record |-> position, whole |-> FALSE, line |-> FormatMsg(logs[position])]
    <3>1. new \in WireLine
      BY FormatMsgLine, Zenon DEF WireLine, SyslogInv, SyslogTypeOK, Numbers
    <3>2. wire' = [wire EXCEPT ![conn] = Append(@, new)]
      BY <1>2, Zenon DEF Written
    <3> HIDE DEF new
    <3> QED BY <1>0, <3>1, <3>2, WrittenInv, Zenon
  <2>2. /\ push' \in {"reconnect", "close failed"} /\ breaks' = breaks + 1
        /\ UNCHANGED <<position, tlsConfig, conn, opened, open>>
    BY <1>0, <1>2, Zenon DEF Break
  <2>3. SyslogTypeOK' /\ OneConnection'
    <3>1. Numbers' /\ breaks' >= 1
      <4>1. breaks' = breaks + 1 /\ UNCHANGED <<position, conn, opened>>
        BY <2>2, Zenon
      <4> QED BY <1>3, <4>1 DEF Numbers
    <3>2. conn # TypedNil /\ conn \in 1..opened /\ open \subseteq {conn}
      BY <1>0, Zenon DEF SyslogInv, OneConnection
    <3>3. OneConnection'
      BY <2>2, <3>1, <3>2, Zenon DEF OneConnection
    <3> QED BY <2>1, <2>2, <3>1, <3>3, Zenon DEF SyslogTypeOK, Pushes
  <2>4. WholeSoFar'
    BY <1>2, Zenon DEF WholeSoFar
  <2> QED BY <2>1, <2>3, <2>4 DEF SyslogInv
<1> QED BY <1>1, <1>2, Zenon DEF Write, Rewrite

\* connect in the middle of Write closes the connection before it dials.
LEMMA ReconnectInv == ASSUME SyslogInv, Reconnect PROVE SyslogInv'
<1>0. push = "reconnect" /\ UNCHANGED <<format, tlsConfig, logs, position>>
  BY Zenon DEF Reconnect
<1>3. Numbers
  BY DEF SyslogInv, SyslogTypeOK
<1>1. CASE Reconnected /\ push' = "rewrite" /\ Works
  <2>1. /\ wire' \in Seq(Seq(WireLine)) /\ Len(wire') = opened' /\ opened' \in Nat
        /\ conn' \in 1..opened' /\ wire'[conn'] = <<>> /\ CutLinesLast'
    BY <1>0, <1>1, DialledInv DEF Reconnected
  <2>2. Numbers' /\ conn' # TypedNil
    <3>1. UNCHANGED <<position, breaks>>
      BY <1>0, <1>1 DEF Works
    <3>2. conn' \in Int /\ conn' # TypedNil
      <4>1. opened' \in Nat /\ conn' \in 1..opened'
        BY <2>1
      <4> QED BY <4>1, TypedNilDiffers
    <3> QED BY <1>3, <2>1, <3>1, <3>2 DEF Numbers
  <2>3. open' = {conn'}
    BY <1>1, Zenon DEF Reconnected, CloseOld, SyslogInv, OneConnection
  <2>4. OneConnection' /\ WholeSoFar'
    BY <1>1, <2>1, <2>2, <2>3 DEF OneConnection, WholeSoFar
  <2> QED BY <1>1, <2>1, <2>2, <2>4, Zenon DEF SyslogInv, SyslogTypeOK, Pushes
<1>2. CASE DialFails /\ open' = CloseOld /\ push' = "close failed" /\ Break
  <2>1. UNCHANGED <<opened, wire>> /\ conn' \in {NoConn, TypedNil} /\ (conn' = TypedNil => tlsConfig) /\ breaks' = breaks + 1
    BY <1>2, TypedNilDiffers, Zenon DEF DialFails, Break
  <2>2. SyslogTypeOK'
    <3>1. conn' \in Int /\ breaks' = breaks + 1 /\ UNCHANGED <<position, opened>>
      BY <1>0, <2>1, TypedNilDiffers
    <3>2. Numbers'
      BY <1>3, <3>1 DEF Numbers
    <3> QED BY <1>2, <2>1, <3>2, Zenon DEF SyslogInv, SyslogTypeOK, Pushes
  <2>3. open' = {}
    BY <1>2, Zenon DEF CloseOld, SyslogInv, OneConnection
  <2>4. OneConnection'
    <3>1. breaks' >= 2 /\ (conn' = TypedNil => tlsConfig')
      BY <1>0, <2>1 DEF SyslogInv, SyslogTypeOK, Numbers, OneConnection
    <3> QED BY <1>2, <2>3, <3>1, Zenon DEF OneConnection
  <2>5. WholeSoFar' /\ CutLinesLast'
    BY <1>2, <2>1, Zenon DEF SyslogInv, WholeSoFar, CutLinesLast
  <2> QED BY <2>2, <2>4, <2>5 DEF SyslogInv
<1> QED BY <1>1, <1>2, Zenon DEF Reconnect

\* Close, and the next push of the batch.
LEMMA CloseInv == ASSUME SyslogInv, CloseConn \/ PushAgain PROVE SyslogInv'
<1> USE DEF SyslogInv, SyslogTypeOK, Numbers, Pushes, OneConnection, WholeSoFar, CutLinesLast, Works
<1>2. CASE CloseConn
  <2>1. /\ push \in {"write", "close failed"} /\ push' \in {"panicked", "done", "failed"}
        /\ UNCHANGED <<tlsConfig, position, opened, wire, breaks>>
        /\ (push' = "panicked" \/ conn' = TypedNil => conn = TypedNil /\ push' = "panicked")
        /\ conn' \in {conn, NoConn}
    BY <1>2, TypedNilDiffers, Zenon DEF CloseConn
  <2>2. open' = {}
    BY <1>2, Zenon DEF CloseConn
  <2> QED BY <2>1, <2>2, TypedNilDiffers, Zenon
<1>3. CASE PushAgain
  BY <1>3, Zenon DEF PushAgain
<1> QED BY <1>2, <1>3, Zenon

-----------------------------------------------------------------------------

\* Whatever breaks, a push leaves no connection open and panics only after a
\* TLS connection broke and could not be opened again, and no line follows one that
\* was cut short (Connect, Write, Close).
THEOREM SyslogSafe == SyslogSpec => [](ConnectionsClosed /\ CutLinesLast)
<1>1. SyslogInv /\ [SyslogNext]_syslogVars => SyslogInv'
  <2> SUFFICES ASSUME SyslogInv, [SyslogNext]_syslogVars PROVE SyslogInv'
    OBVIOUS
  <2>1. CASE SyslogNext
    BY <2>1, ConnectInv, WriteInv, ReconnectInv, CloseInv DEF SyslogNext
  <2>2. CASE UNCHANGED syslogVars
    BY <2>2, Zenon DEF syslogVars, SyslogInv, SyslogTypeOK, Numbers, OneConnection, WholeSoFar, CutLinesLast
  <2> QED BY <2>1, <2>2
<1>2. SyslogInv => ConnectionsClosed /\ CutLinesLast
  <2> SUFFICES ASSUME SyslogInv PROVE ConnectionsClosed
    BY DEF SyslogInv
  <2>1. open = {} \/ open = {conn}
    BY Zenon DEF SyslogInv, OneConnection
  <2>2. Cardinality(open) <= 1
    <3>1. Cardinality({}) = 0
      BY FS_EmptySet
    <3>2. Cardinality({conn}) = 1
      BY FS_Singleton
    <3>3. 0 <= 1 /\ 1 <= 1
      OBVIOUS
    <3> QED BY <2>1, <3>1, <3>2, <3>3, Zenon
  <2> QED BY <2>2 DEF ConnectionsClosed, SyslogInv, OneConnection
<1> QED BY InitSyslogInv, <1>1, <1>2, PTL DEF SyslogSpec
=============================================================================
