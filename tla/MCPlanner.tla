----------------------------- MODULE MCPlanner -----------------------------
(***************************************************************************)
(* Families of configurations small enough to plan for exhaustively: up to *)
(* two contracts under one prefix, at shared or distinct addresses, with   *)
(* metrics that may share names, calls, help texts and labels.             *)
(***************************************************************************)
EXTENDS Planner

MCFunctionName == [supply |-> <<"supply">>, balance |-> <<"balance">>, pair |-> <<"pair">>]
MCOutputNames  == [supply |-> <<<<>>>>, balance |-> <<<<>>>>, pair |-> <<<<"supply">>, <<"1">>>>]

None == NoLabels
Tier(v) == [k \in {"tier"} |-> v]
Zone(v) == [k \in {"zone"} |-> v]

Metric(function, name, help, outputs, args, subcalls, labels) ==
    [function |-> function, name |-> name, help |-> help, outputs |-> outputs,
     args |-> args, calls |-> subcalls, labels |-> labels]

Picked(index, field, name) == [index |-> index, field |-> field, name |-> name]

\* Two calls of one function, each with a label of its own.
Labelled == <<[args |-> "u", labels |-> Tier("call")], [args |-> "v", labels |-> Zone("call")]>>

Plain(help)    == Metric("supply", <<>>, help, <<>>, "", <<>>, None)
Renamed        == Metric("balance", <<"supply">>, "h2", <<>>, "u", <<>>, None)
Balances(subs) == Metric("balance", <<>>, "", <<>>, "", subs, None)
WholePair      == Metric("pair", <<>>, "", <<>>, "", <<>>, None)
BadCall        == Metric("balance", <<>>, "", <<>>, "bad", <<>>, None)
Suffixed       == Metric("supply", <<>>, "", <<Picked(1, <<>>, <<"total">>)>>, "", <<>>, None)
OwnLabels      == Metric("supply", <<>>, "", <<>>, "", <<>>, Tier("metric"))
Fields         == Metric("pair", <<"supply">>, "h1",
                    <<Picked(2, <<"debt">>, <<>>), Picked(2, <<"debt">>, <<"due">>), Picked(1, <<>>, <<>>)>>,
                    "", <<>>, None)

Instances == {
    <<[address |-> "x", labels |-> None]>>,
    <<[address |-> "y", labels |-> Tier("instance")], [address |-> "x", labels |-> Zone("instance")]>>}

Contracts(metrics, labels) ==
    {[prefix |-> <<"p">>, labels |-> l, instances |-> i, metrics |-> m] :
        l \in labels, i \in Instances, m \in metrics}

ConfigsOf(contracts, labels) ==
    {[chainId |-> "1", labels |-> l, contracts |-> cs] : l \in labels, cs \in contracts}

One == {Plain(""), Plain("h1"), Plain("h2"), Renamed, Balances(Labelled),
        WholePair, Fields, BadCall}

\* One contract with two metrics, under every pair of labellings.
SingleContract ==
    ConfigsOf({<<c>> : c \in Contracts({<<m, n>> : m, n \in One}, {None, Tier("contract")})},
              {None, Zone("top")})

\* Two contracts under one prefix, with three metrics in all, labelled or not.
TwoContracts ==
    ConfigsOf({<<c, d>> : c \in Contracts({<<m>> : m \in One}, {None, Tier("contract")}),
                          d \in Contracts({<<m, n>> : m \in {Plain("h1"), Renamed, Balances(Labelled)},
                                                      n \in {Plain("h2"), Suffixed}}, {None})},
              {Tier("top")})

\* What validation lets through and build refuses: a label key no metric may
\* have, an address that does not parse, a prefix that is no metric name or that
\* makes a name of the exporter's own.
BadKey == [k \in {"zone-id"} |-> "z"]
Counted == Metric("supply", <<"calls", "total">>, "", <<>>, "", <<>>, None)
BadInstance == <<[address |-> "x", labels |-> None], [address |-> "0xzz", labels |-> None]>>

Unplannable == ConfigsOf(
    {<<[prefix |-> pl[1], labels |-> pl[2], instances |-> i, metrics |-> <<WholePair, Counted>>]>> :
        i \in Instances \cup {BadInstance},
        pl \in {<<<<"p">>, BadKey>>, <<<<"my-p">>, None>>, <<<<"evm", "exporter">>, None>>, <<<<"p">>, None>>}},
    {None})

MCConfigs == SingleContract \cup TwoContracts \cup Unplannable

\* A metric with labels of its own.
MCOwnLabels == ConfigsOf({<<c>> : c \in Contracts({<<OwnLabels>>}, {None})}, {None})

MCBadArgs == {"bad"}
=============================================================================
