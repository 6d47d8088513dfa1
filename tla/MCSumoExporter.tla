--------------------------- MODULE MCSumoExporter ---------------------------
(* Small batches for SumoExporter. *)
EXTENDS SumoExporter

CONSTANTS p1, p2

U(i, l, g) == [id |-> i, lines |-> 1, len |-> l, group |-> g]
NoLines(i, g) == [id |-> i, lines |-> 0, len |-> 0, group |-> g]
B(k, us) == [kind |-> k, units |-> us]
With(b, c) == [p \in {p1, p2} |-> IF p = p1 THEN b ELSE c]

\* A request of lines holds up to 7 bytes.  One push with: two lines that just fit
\* and a third that does not, an empty line, a line that is too large by itself; a
\* record that cannot be formatted; resources without lines, other source headers.
\* Then two pushes, one of them with two ResourceLogs.
MCLoads ==
  LET none == B("otlp", <<>>)
  IN { With(B("logs",    <<U(1, 3, 1), U(2, 3, 1), U(3, 0, 1), U(4, 9, 2)>>), none),
       With(B("logs",    <<U(1, BadLine, 1), U(2, 3, 1), U(3, 4, 1)>>), none),
       With(B("metrics", <<NoLines(1, 2), U(2, 3, 1), U(3, 3, 1), NoLines(4, 1), NoLines(5, 1), U(6, 8, 1)>>), none),
       With(B("logs",    <<U(1, 3, 1), U(2, 2, 2)>>), B("otlp", <<U(3, 5, 1)>>)),
       With(B("metrics", <<U(1, 3, 1), U(2, 2, 2)>>), B("logs", <<U(3, 4, 1)>>)) }
=============================================================================
