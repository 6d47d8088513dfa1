--------------------------- MODULE SyslogExporter ---------------------------
(***************************************************************************)
(* exporter/syslogexporter: pushLogsData opens a connection, writes the    *)
(* records of a batch as lines and closes it.  A write that fails is tried *)
(* once more on a new connection; after that the push fails, and the queue *)
(* (external) pushes the whole batch again.  Pushes share nothing, so      *)
(* there is one.                                                           *)
(*                                                                         *)
(* A record is the set of the properties it has.  A line maps properties   *)
(* to "given", "default", "nil" or "additional".  A line is written whole, *)
(* or a part of it was written when the connection broke.                  *)
(***************************************************************************)
EXTENDS Integers, Sequences, FiniteSets, Folds

CONSTANTS SyslogBatches,   \* sequences of records
          SyslogFormats,   \* formats that may be configured
          HasAdditional,   \* additional_structured_data is configured
          MaxBreaks        \* bound on failures of the network

VARIABLES
  format, tlsConfig,  \* configuration; tlsConfig is TRUE if there is one
  logs,       \* the batch
  position,   \* the record at hand
  push,       \* where pushLogsData is
  conn,       \* s.conn: 0 for nil, TypedNil, or the number of a connection
  opened,     \* connections opened so far
  open,       \* those that are open
  wire,       \* connection -> what was written: the record, its line and whether all of it
  first,      \* history: the connection that this push opened first
  breaks

syslogVars == <<format, tlsConfig, logs, position, push, conn, opened, open, wire, first, breaks>>

NoConn == 0
\* What tls.Dial leaves in the interface s.conn when it fails: not nil.
TypedNil == -1

SyslogInit ==
  /\ format \in SyslogFormats /\ tlsConfig \in BOOLEAN
  /\ logs \in SyslogBatches
  /\ position = 1 /\ push = "connect"
  /\ conn = NoConn /\ opened = 0 /\ open = {} /\ wire = <<>> /\ first = 1
  /\ breaks = 0

Break == breaks < MaxBreaks /\ breaks' = breaks + 1
Works == UNCHANGED breaks

-----------------------------------------------------------------------------
(* formatMsg                                                               *)

Properties(f) ==
  IF f = "rfc3164" THEN <<"priority", "hostname", "message">>
  ELSE <<"priority", "version", "hostname", "appname", "proc_id", "msg_id", "message", "structured_data">>

Missing(record, properties) == SelectSeq(properties, LAMBDA p : p \notin record)

SetOf(properties) == {properties[i] : i \in DOMAIN properties}

\* populateDefaults returns as soon as it has filled one in.
PopulateDefaults(record, properties) ==
  [p \in SetOf(properties) |->
     IF p \in record THEN "given"
     ELSE IF p = Head(Missing(record, properties)) THEN "default" ELSE "nil"]

\* addStructuredData: a record of the pipeline never has its data in the type that
\* is asked for here, so that it is replaced.
AddStructuredData(line) ==
  [line EXCEPT !["structured_data"] = IF HasAdditional THEN "additional" ELSE "default"]

FormatMsg(record) ==
  LET line == PopulateDefaults(record, Properties(format))
  IN IF format = "rfc5424" THEN AddStructuredData(line) ELSE line

-----------------------------------------------------------------------------
(* Connections                                                             *)

\* net.Dial or tls.Dial succeeds.
Dialled ==
  /\ opened' = opened + 1 /\ conn' = opened + 1
  /\ wire' = Append(wire, <<>>)

DialFails ==
  /\ conn' = IF tlsConfig THEN TypedNil ELSE NoConn
  /\ UNCHANGED <<opened, wire>>

\* Connect: without a connection the push fails, and there is nothing to close.
Connect ==
  /\ push = "connect"
  /\ \/ Dialled /\ open' = open \cup {conn'} /\ first' = conn' /\ push' = "write" /\ Works
     \/ UNCHANGED <<opened, wire, conn, open, first>> /\ push' = "failed" /\ Break
  /\ UNCHANGED <<format, tlsConfig, logs, position>>

\* Mutant: the old connection is left to the garbage collector.
KeepOld == open

\* connect closes what there is before it dials.
CloseOld == open \ {conn}

\* write: the line, or a part of it.
Written(whole) ==
  wire' = [wire EXCEPT ![conn] = Append(@, [record |-> position, whole |-> whole,
                                            line |-> FormatMsg(logs[position])])]

Write ==
  /\ push = "write" /\ position <= Len(logs)
  /\ \/ /\ Written(TRUE) /\ Works
        /\ position' = position + 1 /\ UNCHANGED push
     \/ /\ Written(FALSE) /\ Break
        /\ push' = "reconnect" /\ UNCHANGED position
  /\ UNCHANGED <<format, tlsConfig, logs, conn, opened, open, first>>

\* Mutant: the second try uses the connection that failed.
Redial == UNCHANGED <<conn, opened, wire, open>>

\* connect in the middle of Write.
Reconnected == Dialled /\ open' = CloseOld \cup {conn'}

Reconnect ==
  /\ push = "reconnect"
  /\ \/ Reconnected /\ push' = "rewrite" /\ Works
     \/ DialFails /\ open' = CloseOld /\ push' = "close failed" /\ Break
  /\ UNCHANGED <<format, tlsConfig, logs, position, first>>

\* The second try of Write.
Rewrite ==
  /\ push = "rewrite"
  /\ \/ /\ Written(TRUE) /\ Works
        /\ position' = position + 1 /\ push' = "write"
     \/ /\ Written(FALSE) /\ Break
        /\ push' = "close failed" /\ UNCHANGED position
  /\ UNCHANGED <<format, tlsConfig, logs, conn, opened, open, first>>

\* Close, deferred by pushLogsData.  Closing a typed nil panics.
CloseConn ==
  /\ \/ push = "write" /\ position > Len(logs)
     \/ push = "close failed"
  /\ push' = IF conn = TypedNil THEN "panicked" ELSE IF push = "write" THEN "done" ELSE "failed"
  /\ open' = open \ {conn}
  /\ conn' = IF conn = TypedNil THEN conn ELSE NoConn
  /\ Works /\ UNCHANGED <<format, tlsConfig, logs, position, opened, wire, first>>

\* The queue hands the batch to pushLogsData again.
PushAgain ==
  /\ push = "failed"
  /\ push' = "connect" /\ position' = 1
  /\ Works /\ UNCHANGED <<format, tlsConfig, logs, conn, opened, open, wire, first>>

SyslogNext == Connect \/ Write \/ Reconnect \/ Rewrite \/ CloseConn \/ PushAgain

SyslogSpec == SyslogInit /\ [][SyslogNext]_syslogVars

-----------------------------------------------------------------------------

\* What the connections of this push carried, one after another.
Carried ==
  MapThenFoldSet(LAMBDA lines, before : before \o lines, <<>>, LAMBDA c : wire[c],
                 LAMBDA S : CHOOSE n \in S : \A m \in S : m <= n, first..opened)

\* A line that was cut short is the last of its connection, so that no line is
\* glued to another one: Write dials before it tries again.
CutLinesLast == \A c \in DOMAIN wire : \A i \in 1..(Len(wire[c]) - 1) : wire[c][i].whole

\* A push that succeeds has written every record of the batch as a whole line, once
\* and in order, whatever broke in between, and no line is glued to another one.
\* The fields of a line are filled in if the record lacks at most one property.
LinesDelivered ==
  /\ CutLinesLast
  /\ push = "done" =>
       LET whole == SelectSeq(Carried, LAMBDA w : w.whole)
       IN /\ [i \in DOMAIN whole |-> whole[i].record] = [i \in DOMAIN logs |-> i]
          /\ \A i \in DOMAIN whole :
               Cardinality(SetOf(Properties(format)) \ (logs[i] \cup {"structured_data"})) <= 1
                 => \A p \in DOMAIN whole[i].line : whole[i].line[p] # "nil"

\* No connection is left open by a push, whether it succeeds, fails or is pushed
\* again, and it panics only if a TLS connection broke and could not be opened
\* again.
ConnectionsClosed ==
  /\ Cardinality(open) <= 1
  /\ push \in {"connect", "failed", "done", "panicked"} => open = {}
  /\ push = "panicked" => tlsConfig /\ breaks >= 2
=============================================================================
