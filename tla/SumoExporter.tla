---------------------------- MODULE SumoExporter ----------------------------
(***************************************************************************)
(* exporter/sumologicexporter: goroutines of the sending queue push        *)
(* batches of logs, metrics or traces.  A push cuts its batch into         *)
(* requests, collects what was not accepted, has the exporter reconfigured *)
(* after a 401 and hands the rest back to be retried.  The URL and the     *)
(* HTTP client are shared by all pushes and replaced under two locks.      *)
(*                                                                         *)
(* A batch is a sequence of units, what appendAndMaybeSend is called with: *)
(* a log record with its line, or a ResourceMetrics with its lines.  A     *)
(* unit has the number of its lines, their length when joined by newlines  *)
(* (BadLine if the record cannot be formatted), and a group, what one body *)
(* must not mix: the ResourceLogs of a record, the source headers of a     *)
(* ResourceMetrics.  A push in the OTLP formats is one unit.  Lines        *)
(* themselves, compression and headers are left out.                       *)
(*                                                                         *)
(* External: the queue of exporterhelper, which retries what it is handed  *)
(* back, unless an error is permanent; the server, which answers 401 to    *)
(* credentials it does not know; the extension (see SumoExtension).        *)
(***************************************************************************)
EXTENDS Integers, Sequences, FiniteSets, Functions

CONSTANTS Pushers,    \* goroutines that push
          Loads,      \* what they may push: functions that give each pusher
                      \* a record with kind and units
          Deployments, \* their base URLs
          MaxRequestBodySize,
          MaxExporterFaults \* bound on failures and on replaced credentials

BadLine == -1

ASSUME SizeAssumption == MaxRequestBodySize \in Nat /\ MaxExporterFaults \in Nat

\* Every unit has an id of its own; group 0 is none.
ASSUME LoadsAssumption ==
  \A b \in Loads, p \in Pushers :
    /\ b[p].units \in Seq(Range(b[p].units))
    /\ \A i \in DOMAIN b[p].units :
         /\ b[p].units[i].lines \in Nat /\ b[p].units[i].len \in Nat \cup {BadLine}
         /\ b[p].units[i].lines = 0 => b[p].units[i].len = 0
         /\ b[p].units[i].group # 0
         /\ \A q \in Pushers : \A j \in DOMAIN b[q].units :
              b[p].units[i].id = b[q].units[j].id => p = q /\ i = j

VARIABLES
  server,    \* the credentials the server accepts, and where: [key, url]
  extKey, extUrl,      \* registrationInfo and baseUrl of the extension
  dataUrl, clientKey,  \* of the exporter; the key that its client sends
  kind,      \* p -> "logs", "metrics" or "otlp"
  ppc,       \* p -> where its push is
  url, key,  \* p -> the URL and the client of its sender; after the push, those
             \*      that configure takes from the extension
  rest,      \* p -> units still to be appended
  body,      \* p -> body.Len()
  current,   \* p -> currentRecords, currentResources
  dropped,   \* p -> units that were not accepted
  at,        \* p -> the group of the unit before; 0 for none
  errs,      \* p -> errors since the body was sent for a group
  allErrs,   \* p -> errors of the push; those of a ResourceLogs are one entry
  unresolved, \* p -> unauthorized errors handleUnauthorizedErrors has to look at
  exporterFaults,
  pushed,    \* history: p -> the units this push began with
  acked,     \* history: p -> the units of this push in requests answered 200
  taken,     \* history: for each id, how often the server took it
  unsure     \* history: ids the server took without the answer arriving

remote == <<server, extKey, extUrl>>
shared == <<dataUrl, clientKey>>
sender == <<kind, url, key>>
buffer == <<rest, body, current, dropped, at, errs, allErrs>>
history == <<pushed, acked, taken, unsure>>
exporterVars == <<remote, shared, sender, ppc, buffer, unresolved, exporterFaults, history>>

Ids == UNION {UNION {{b[p].units[i].id : i \in DOMAIN b[p].units} : p \in Pushers} : b \in Loads}

ExporterFault == exporterFaults < MaxExporterFaults /\ exporterFaults' = exporterFaults + 1
ExporterFine  == UNCHANGED exporterFaults

\* The exporter was started with the credentials of the extension.
ExporterInit ==
  /\ extUrl = (CHOOSE u \in Deployments : TRUE) /\ dataUrl = extUrl
  /\ server = [key |-> 1, url |-> extUrl]
  /\ extKey = 1 /\ clientKey = 1
  /\ \E b \in Loads :
       /\ kind = [p \in Pushers |-> b[p].kind]
       /\ rest = [p \in Pushers |-> b[p].units]
       /\ pushed = rest
  /\ ppc = [p \in Pushers |-> "urls"]
  /\ url = [p \in Pushers |-> dataUrl] /\ key = [p \in Pushers |-> 1]
  /\ body = [p \in Pushers |-> 0]
  /\ current = [p \in Pushers |-> <<>>] /\ dropped = [p \in Pushers |-> <<>>]
  /\ at = [p \in Pushers |-> 0]
  /\ errs = [p \in Pushers |-> <<>>] /\ allErrs = [p \in Pushers |-> <<>>]
  /\ unresolved = [p \in Pushers |-> 0]
  /\ exporterFaults = 0
  /\ acked = [p \in Pushers |-> {}]
  /\ taken = [i \in Ids |-> 0] /\ unsure = {}

-----------------------------------------------------------------------------
(* send and handleReceiverResponse                                         *)

\* An answer, and what the sender makes of it.  A 200 counts as success
\* whatever its body says.  A request without an answer may have been taken.
\* server takes the units: "ok" and "lost".
Answer(p, err) ==
  LET known == server = [key |-> key[p], url |-> url[p]]
  IN \/ known /\ err = "ok" /\ ExporterFine
     \/ ~known /\ err = "unauthorized" /\ ExporterFine
     \/ known /\ err = "lost" /\ ExporterFault
     \/ err \in {"permanent", "failed"} /\ ExporterFault

Errors == {"ok", "unauthorized", "permanent", "failed", "lost"}

\* A unit whose lines are all empty adds nothing to a body.
Filled(units) == {u \in Range(units) : u.len > 0}

IdsOf(units) == {u.id : u \in units}

\* send with the units in current: the answer is err.
Send(p, err) ==
  LET ids == IdsOf(Filled(current[p]))
  IN /\ Answer(p, err)
     /\ acked' = IF err = "ok" THEN [acked EXCEPT ![p] = @ \cup ids] ELSE acked
     /\ taken' = [i \in Ids |-> IF i \in ids /\ err \in {"ok", "lost"}
                                THEN taken[i] + 1 ELSE taken[i]]
     /\ unsure' = IF err = "lost" THEN unsure \cup ids ELSE unsure

\* Mutant: the whole batch is handed back.
DropBatch(p, err) == IF err = "ok" THEN <<>> ELSE pushed[p]

\* What a request that was answered with err adds to the units to hand back
\* and to the errors.
DroppedBy(p, err) == IF err = "ok" THEN <<>> ELSE current[p]
ErrorOf(err) == IF err = "ok" THEN <<>> ELSE <<err>>

-----------------------------------------------------------------------------
(* appendAndMaybeSend, sendNonOTLPLogs, sendNonOTLPMetrics                 *)

\* linesTotalLength: a newline is counted for every line.
LinesTotalLength(u) == IF u.lines = 0 THEN 0 ELSE u.len + 1

\* Mutant: a unit that reaches the limit by itself still fits.
OverflowsAfter(size, u) == size > 0 /\ LinesTotalLength(u) >= MaxRequestBodySize

\* The unit does not fit behind what is in the body.
Overflows(size, u) == size > 0 /\ size + LinesTotalLength(u) >= MaxRequestBodySize

\* addNewLine and addLines.
Grown(size, u) == IF size > 0 THEN size + 1 + u.len ELSE u.len

\* The next unit goes behind those before it: it is of the same ResourceLogs, or
\* the source headers are the same, or the body of the others is empty.
InGroup(p) ==
  /\ rest[p] # <<>>
  /\ \/ at[p] \in {0, Head(rest[p]).group}
     \/ kind[p] = "metrics" /\ body[p] = 0

\* A unit is dealt with.
Advance(p) ==
  /\ rest' = [rest EXCEPT ![p] = Tail(@)]
  /\ at' = [at EXCEPT ![p] = Head(rest[p]).group]

\* formatLogLine fails: the record is handed back.
FormatFails(p) ==
  /\ ppc[p] = "send" /\ InGroup(p)
  /\ Head(rest[p]).len = BadLine
  /\ dropped' = [dropped EXCEPT ![p] = Append(@, Head(rest[p]))]
  /\ errs' = [errs EXCEPT ![p] = Append(@, "format")]
  /\ Advance(p)
  /\ ExporterFine
  /\ UNCHANGED <<remote, shared, sender, ppc, body, current, allErrs, unresolved, history>>

\* appendAndMaybeSend where there is room, ...
AppendUnit(p) ==
  /\ ppc[p] = "send" /\ InGroup(p)
  /\ LET u == Head(rest[p])
     IN /\ u.len # BadLine /\ ~Overflows(body[p], u)
        /\ body' = [body EXCEPT ![p] = Grown(@, u)]
        /\ current' = [current EXCEPT ![p] = Append(@, u)]
  /\ Advance(p)
  /\ ExporterFine
  /\ UNCHANGED <<remote, shared, sender, ppc, dropped, errs, allErrs, unresolved, history>>

\* Mutant: currentRecords is not emptied when the body was sent.
GoOnWith(p, u) == Append(current[p], u)

\* currentRecords and currentResources after the body was sent.
StartWith(p, u) == <<u>>

\* ... and where the body has to be sent first.
SendAndAppend(p) ==
  /\ ppc[p] = "send" /\ InGroup(p)
  /\ LET u == Head(rest[p])
     IN /\ u.len # BadLine /\ Overflows(body[p], u)
        /\ \E err \in Errors :
             /\ Send(p, err)
             /\ dropped' = [dropped EXCEPT ![p] = @ \o DroppedBy(p, err)]
             /\ errs' = [errs EXCEPT ![p] = @ \o ErrorOf(err)]
        /\ body' = [body EXCEPT ![p] = u.len]
        /\ current' = [current EXCEPT ![p] = StartWith(p, u)]
  /\ Advance(p)
  /\ UNCHANGED <<remote, shared, sender, ppc, allErrs, unresolved, pushed>>

\* The errors of a ResourceLogs are combined, those of metrics are a list.
Combined(p, errors) ==
  IF kind[p] = "logs" /\ errors # <<>> THEN <<errors>>
  ELSE [i \in DOMAIN errors |-> <<errors[i]>>]

\* A group has ended with the units in more handed back and with these errors.
CloseGroup(p, more, errors) ==
  /\ dropped' = [dropped EXCEPT ![p] = @ \o more]
  /\ allErrs' = [allErrs EXCEPT ![p] = @ \o Combined(p, errors)]
  /\ body' = [body EXCEPT ![p] = 0] /\ current' = [current EXCEPT ![p] = <<>>]
  /\ errs' = [errs EXCEPT ![p] = <<>>] /\ at' = [at EXCEPT ![p] = 0]

\* The end of a ResourceLogs, other source headers, or the end of the batch: the
\* body is sent.  If it is empty nothing is, and its units are done.
EndGroup(p) ==
  /\ ppc[p] = "send" /\ at[p] # 0 /\ ~InGroup(p)
  /\ \/ /\ body[p] > 0
        /\ \E err \in Errors :
             /\ Send(p, err)
             /\ CloseGroup(p, DroppedBy(p, err), errs[p] \o ErrorOf(err))
        /\ UNCHANGED pushed
     \/ /\ body[p] = 0
        /\ CloseGroup(p, <<>>, errs[p])
        /\ ExporterFine /\ UNCHANGED history
  /\ UNCHANGED <<remote, shared, sender, ppc, rest, unresolved>>

-----------------------------------------------------------------------------
(* pushLogsData, pushMetricsData, pushTracesData and configure             *)

\* getDataURLs, then getHTTPClient: the sender of this push.
GetDataURLs(p) ==
  /\ ppc[p] = "urls"
  /\ url' = [url EXCEPT ![p] = dataUrl]
  /\ ppc' = [ppc EXCEPT ![p] = "client"]
  /\ ExporterFine /\ UNCHANGED <<remote, shared, kind, key, buffer, unresolved, history>>

GetHTTPClient(p) ==
  /\ ppc[p] = "client"
  /\ key' = [key EXCEPT ![p] = clientKey]
  /\ ppc' = [ppc EXCEPT ![p] = "send"]
  /\ ExporterFine /\ UNCHANGED <<remote, shared, kind, url, buffer, unresolved, history>>

\* deduplicateErrors: an error that occurs twice is replaced by a new one with
\* the same text, which is neither unauthorized nor permanent.
DeduplicateErrors(list) ==
  SelectSeq(list, LAMBDA e : Cardinality({i \in DOMAIN list : list[i] = e}) = 1)

\* The errors that handleUnauthorizedErrors and the queue can tell apart.
Visible(p) == IF kind[p] = "logs" THEN DeduplicateErrors(allErrs[p]) ELSE allErrs[p]

\* Mutant: the error is only logged.
IgnoreUnauthorized(p) == 0

\* handleUnauthorizedErrors: how many errors are unauthorized.
UnauthorizedErrors(p) == Len(SelectSeq(Visible(p), LAMBDA e : "unauthorized" \in Range(e)))

\* All has been sent or dropped.
EndPush(p) ==
  /\ ppc[p] = "send" /\ at[p] = 0 /\ rest[p] = <<>>
  /\ unresolved' = [unresolved EXCEPT ![p] = UnauthorizedErrors(p)]
  /\ ppc' = [ppc EXCEPT ![p] = "configure"]
  /\ ExporterFine /\ UNCHANGED <<remote, shared, sender, buffer, history>>

\* configure: the URL of the extension, ...
GetBaseUrl(p) ==
  /\ ppc[p] = "configure" /\ unresolved[p] > 0
  /\ url' = [url EXCEPT ![p] = extUrl]
  /\ ppc' = [ppc EXCEPT ![p] = "seturls"]
  /\ ExporterFine /\ UNCHANGED <<remote, shared, kind, key, buffer, unresolved, history>>

SetDataURLs(p) ==
  /\ ppc[p] = "seturls"
  /\ dataUrl' = url[p]
  /\ ppc' = [ppc EXCEPT ![p] = "toclient"]
  /\ ExporterFine /\ UNCHANGED <<remote, clientKey, sender, buffer, unresolved, history>>

\* ... then a client with the credentials the extension has by now.  A failure is
\* followed by another try for the next unauthorized error.
ToClient(p) ==
  /\ ppc[p] = "toclient"
  /\ \/ /\ key' = [key EXCEPT ![p] = extKey]
        /\ ppc' = [ppc EXCEPT ![p] = "setclient"]
        /\ ExporterFine /\ UNCHANGED unresolved
     \/ /\ unresolved' = [unresolved EXCEPT ![p] = @ - 1]
        /\ ppc' = [ppc EXCEPT ![p] = "configure"]
        /\ ExporterFault /\ UNCHANGED key
  /\ UNCHANGED <<remote, shared, kind, url, buffer, history>>

\* Once is enough.
SetHTTPClient(p) ==
  /\ ppc[p] = "setclient"
  /\ clientKey' = key[p]
  /\ unresolved' = [unresolved EXCEPT ![p] = 0]
  /\ ppc' = [ppc EXCEPT ![p] = "configure"]
  /\ ExporterFine /\ UNCHANGED <<remote, dataUrl, sender, buffer, history>>

Configure(p) == GetBaseUrl(p) \/ SetDataURLs(p) \/ ToClient(p) \/ SetHTTPClient(p)

\* The push returns.  The queue drops what it is handed back if it sees a
\* permanent error, and otherwise pushes it again (external).
Return(p) ==
  /\ ppc[p] = "configure" /\ unresolved[p] = 0
  /\ IF dropped[p] = <<>> \/ \E i \in DOMAIN Visible(p) : "permanent" \in Range(Visible(p)[i])
     THEN /\ ppc' = [ppc EXCEPT ![p] = "done"]
          /\ UNCHANGED <<buffer, history>>
     ELSE /\ ppc' = [ppc EXCEPT ![p] = "urls"]
          /\ rest' = [rest EXCEPT ![p] = dropped[p]]
          /\ pushed' = [pushed EXCEPT ![p] = dropped[p]]
          /\ acked' = [acked EXCEPT ![p] = {}]
          /\ dropped' = [dropped EXCEPT ![p] = <<>>]
          /\ allErrs' = [allErrs EXCEPT ![p] = <<>>]
          /\ UNCHANGED <<body, current, at, errs, taken, unsure>>
  /\ ExporterFine /\ UNCHANGED <<remote, shared, sender, unresolved>>

Push(p) ==
  \/ GetDataURLs(p) \/ GetHTTPClient(p)
  \/ FormatFails(p) \/ AppendUnit(p) \/ SendAndAppend(p) \/ EndGroup(p)
  \/ EndPush(p) \/ Configure(p) \/ Return(p)

-----------------------------------------------------------------------------
(* The server and the extension                                            *)

\* The credentials are no longer accepted; new ones will be given out at u.
Replace(u) ==
  /\ server' = [key |-> server.key + 1, url |-> u]
  /\ ExporterFault
  /\ UNCHANGED <<extKey, extUrl, shared, sender, ppc, buffer, unresolved, history>>

\* The extension registers anew: the URL it is redirected to, then the key.
Reregister ==
  /\ \/ extUrl # server.url /\ extUrl' = server.url /\ UNCHANGED extKey
     \/ extUrl = server.url /\ extKey # server.key /\ extKey' = server.key /\ UNCHANGED extUrl
  /\ ExporterFine /\ UNCHANGED <<server, shared, sender, ppc, buffer, unresolved, history>>

ExporterNext ==
  \/ \E p \in Pushers : Push(p)
  \/ \E u \in Deployments : Replace(u)
  \/ Reregister

ExporterSpec == ExporterInit /\ [][ExporterNext]_exporterVars

\* Goroutines and the extension go on.
ExporterFairness ==
  (\A p \in Pushers : WF_exporterVars(Push(p))) /\ WF_exporterVars(Reregister)

-----------------------------------------------------------------------------

\* When a push is over, every unit with something in it was acknowledged in a
\* request or is handed back, never both and never twice, whatever requests in
\* the middle failed: sendNonOTLPLogs and sendNonOTLPMetrics drop the units of
\* the failed requests and only those.
AcknowledgedOrReturned ==
  \A p \in Pushers : ppc[p] = "configure" =>
    /\ IdsOf(Filled(pushed[p])) \subseteq acked[p] \cup IdsOf(Range(dropped[p]))
    /\ acked[p] \cap IdsOf(Range(dropped[p])) = {}
    /\ IsInjective(dropped[p])

\* The server gets a unit again only if it took it in a request whose answer was
\* lost: neither a retry after other errors nor a reconfiguration doubles it.
OnlyLostAnswersDouble == \A i \in Ids \ unsure : taken[i] <= 1

\* A request is not larger than max_request_body_size, also when units without a
\* line, for which no newline is counted, are behind the others, unless it carries
\* one unit that is larger by itself; and units of different groups do not share
\* one: the headers of a request are true of all it carries.
RequestsWellFormed ==
  \A p \in Pushers : \A u, v \in Filled(current[p]) :
    /\ u # v => body[p] <= MaxRequestBodySize
    /\ u.group = v.group

\* Pushes whose errors are not merged.
Unmerged(p) ==
  \/ kind[p] # "logs"
  \/ \A i, j \in DOMAIN pushed[p] : pushed[p][i].group = pushed[p][j].group

\* Such a push has ended, also after its credentials were replaced: the 401 leads to a
\* client with the new ones.  A record that cannot be formatted is retried for
\* ever.
PushesDone ==
  \A p \in Pushers :
    Unmerged(p) /\ (\A i \in DOMAIN pushed[p] : pushed[p][i].len # BadLine) => ppc[p] = "done"
=============================================================================
