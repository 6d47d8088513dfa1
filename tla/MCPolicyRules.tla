---------------------------- MODULE MCPolicyRules ----------------------------
EXTENDS PolicyRules

\* One attribute key and three values for it.
StrX == [type |-> "str", val |-> "x"]
StrY == [type |-> "str", val |-> "y"]
Int5 == [type |-> "int", val |-> 5]
Attrs(v) == [k |-> v]

Span(name, v, start, end, error) ==
  [name |-> name, attrs |-> Attrs(v), start |-> start, end |-> end, error |-> error]

Batch(v, spans) == [res |-> Attrs(v), spans |-> spans]

Quick == Span("op", Absent, 4, 5, FALSE)
Slow == Span("other", StrX, 1, 6, TRUE)
Tagged == Span("op", StrX, 3, 4, FALSE)
Odd == Span("other", StrY, 2, 3, TRUE)
Health == Span("health", Int5, 1, 2, FALSE)

MCTraces == { << Batch(Absent, <<Quick>>) >>,
              << Batch(StrX, <<Quick>>) >>,
              << Batch(Absent, <<Slow, Quick>>) >>,
              << Batch(Absent, <<Tagged>>), Batch(StrY, <<Odd>>) >>,
              << Batch(Absent, <<Odd>>), Batch(Absent, <<Quick, Slow>>) >>,
              << Batch(Absent, <<Health>>) >>,
              << Batch(Int5, <<Health, Quick>>) >> }

Rule == [name |-> None, stringAttr |-> None, numericAttr |-> None, attrs |-> {},
         minSpans |-> None, minDuration |-> None, minErrors |-> None,
         spansPerSecond |-> 3, invert |-> FALSE, probabilistic |-> FALSE]

OneOf(vs) == [key |-> "k", values |-> vs, regex |-> FALSE, ranges |-> {}]

MCAcceptRules ==
  << [Rule EXCEPT !.spansPerSecond = 2, !.probabilistic = TRUE],
     [Rule EXCEPT !.minDuration = 3, !.spansPerSecond = -1],
     [Rule EXCEPT !.name = {"op"}, !.attrs = {OneOf({"x"})}],
     [Rule EXCEPT !.stringAttr = [OneOf({{"y"}}) EXCEPT !.regex = TRUE],
                  !.minErrors = 1, !.minSpans = 2, !.invert = TRUE] >>

MCRejectRules == << [Rule EXCEPT !.numericAttr = [key |-> "k", min |-> 4, max |-> 6],
                                 !.name = {"health"}] >>

NoRules == <<>>

\* Only an operation name and a value.
SplitRules == << [Rule EXCEPT !.name = {"op"}, !.attrs = {OneOf({"x"})}] >>
=============================================================================
