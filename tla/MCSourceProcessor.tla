-------------------------- MODULE MCSourceProcessor --------------------------
EXTENDS SourceProcessor

\* Bodies: complete, without a time, no JSON, a value of another type.
Body(j, m, ks) == [json |-> j, mistyped |-> m, keys |-> ks]
Docker(n, ks) == [k \in ks |-> <<n, k>>]
MCBodies ==
  { Body(TRUE, FALSE, Docker("1", DockerKeys)), Body(TRUE, FALSE, Docker("2", {"log", "stream"})),
    Body(FALSE, FALSE, Docker("3", {})), Body(TRUE, TRUE, Docker("4", {"time"})) }

Texts(names) == [n \in names |-> <<n>>]

\* Resources: of a pod with its template hash, plain or encoded, of another
\* workload, excluded, excluded and included, with annotations.
MCAtts ==
  { [pod |-> <<"web", "api", "h1", "x">>, pod_template_hash |-> <<"h1">>, container |-> <<"c">>, c2 |-> <<"mine">>],
    [pod |-> <<"web", "e1", "x">>, pod_template_hash |-> <<"h1">>, sourceName |-> <<"pod">>, c1 |-> <<"k">>],
    [pod |-> <<"db", "main", "0">>, container |-> <<"d">>, sourceCategoryPrefix |-> <<"p">>,
     sourceCategory |-> <<"pod_name", "_sourceHost">>],
    [pod |-> <<"bare">>, exclude |-> <<"true">>, include |-> <<"true">>],
    [namespace |-> <<"kube">>, sourceHost |-> <<"namespace">>],
    [namespace |-> <<"kube">>, include |-> <<"true">>] }

MCBatches ==
  {<<[atts |-> a, bodies |-> <<x, y>>], [atts |-> b, bodies |-> <<z>>]>> : a, b \in MCAtts, x, y, z \in MCBodies}

MCSourceConfig ==
  [collector |-> <<"col">>, host |-> <<"host">>, name |-> <<"namespace", "pod_name">>,
   category |-> <<"namespace", "_collector">>, prefix |-> <<>>, dash |-> <<"/">>,
   containerKeys |-> <<[c \in {<<"c">>, <<"d">>} |-> "c1"], [c \in {<<"c">>, <<"d">>} |-> "c2"]>>,
   exclude |-> [f \in {"namespace"} |-> {<<"kube">>}]]

MCEncoded == [h \in {<<"h1">>} |-> <<"e1">>]
==============================================================================
