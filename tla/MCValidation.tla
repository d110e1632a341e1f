---------------------------- MODULE MCValidation ----------------------------
(***************************************************************************)
(* Families of configurations around a valid one: every metric over a      *)
(* small ABI, every shape of a contract, every top level, and pairs of     *)
(* contracts.                                                              *)
(***************************************************************************)
EXTENDS Validation

Scalar(kind) == [kind |-> kind, components |-> <<>>]
Struct(kind, components) ==
    [kind |-> kind,
     components |-> [c \in DOMAIN components |-> [name |-> components[c][1], kind |-> components[c][2]]]]

View(inputs, outputs) == [mutability |-> "view", inputs |-> inputs, outputs |-> outputs]

Slot == <<<<"price", "uint">>, <<"owner", "address">>, <<"open", "bool">>, <<"price", "string">>>>

Functions == [
    total   |-> <<View(0, <<Scalar("uint")>>)>>,
    owner   |-> <<View(0, <<Scalar("address")>>)>>,
    balance |-> <<View(1, <<Scalar("int")>>), View(0, <<Scalar("bool")>>)>>,
    poke    |-> <<[View(0, <<Scalar("uint")>>) EXCEPT !.mutability = "payable"], View(0, <<Scalar("uint")>>)>>,
    slot    |-> <<View(0, <<Struct("tuple", Slot), Scalar("uint")>>)>>,
    slots   |-> <<View(0, <<Struct("tuple[]", Slot)>>)>>]

MCAbi == [a |-> Functions]

Pick(index, field, name) == [index |-> index, field |-> field, name |-> name]

Selections == {
    <<>>, <<Pick(1, "", "")>>, <<Pick(2, "", "")>>, <<Pick(1, "", "1x")>>, <<Pick(1, "", "x-y")>>,
    <<Pick(1, "price", "")>>, <<Pick(1, "owner", "")>>, <<Pick(1, "none", "")>>,
    <<Pick(1, "price", "x-y")>>, <<Pick(1, "price", "1x")>>,
    <<Pick(1, "price", ""), Pick(1, "price", "x")>>, <<Pick(1, "price", ""), Pick(1, "open", ""), Pick(2, "", "")>>}

ACall(args, labels) == [args |-> args, labels |-> labels]

CallLists == {<<>>, <<ACall(1, {})>>, <<ACall(1, {"tier"}), ACall(0, {})>>,
              <<ACall(0, {"address"})>>}

AMetric(function, name, args, calls, outputs, labels) ==
    [function |-> function, name |-> name, args |-> args, calls |-> calls,
     outputs |-> outputs, labels |-> labels]

Plain == AMetric("total", "", 0, <<>>, <<>>, {})

AllMetrics ==
    {AMetric(f, n, a, cs, os, {}) :
        f \in DOMAIN Functions \cup {"", "missing"}, n \in {"", "m", "1x"}, a \in {0, 1},
        cs \in CallLists, os \in Selections}
    \cup {AMetric("total", "", 0, <<>>, <<>>, {"chain_id"})}

AnInstance(address, labels) == [address |-> address, labels |-> labels]

AContract(name, path, inline, labels, instances, metrics) ==
    [name |-> name, abiPath |-> path, abiInline |-> inline, labels |-> labels,
     instances |-> instances, metrics |-> metrics]

Usual(metrics) == AContract("c", "", "a", {}, <<AnInstance("x", {})>>, metrics)

AllContracts ==
    {AContract(n, p, i, l, is, ms) :
        n \in {"", "c"}, p \in {"", "a", "unreadable"}, i \in {"", "a", "no abi"},
        l \in {{}, {"address"}},
        is \in {<<>>, <<AnInstance("", {})>>, <<AnInstance("x", {}), AnInstance("y", {"zone"})>>,
                <<AnInstance("x", {}), AnInstance("y", {"chain_id"})>>},
        ms \in {<<>>, <<Plain>>}}

AConfig(url, id, labels, interval, timeout, batch, contracts) ==
    [rpcUrl |-> url, chainId |-> id, labels |-> labels, interval |-> interval,
     timeout |-> timeout, batch |-> batch, contracts |-> contracts]

Normal(contracts) == AConfig("url", 1, {}, 0, 0, 0, contracts)

Some == {Usual(<<Plain>>), Usual(<<Plain, AMetric("slot", "", 0, <<>>, <<Pick(1, "owner", "")>>, {})>>),
         Usual(<<AMetric("balance", "", 0, <<ACall(1, {})>>, <<>>, {})>>),
         AContract("d", "a", "", {"zone"}, <<AnInstance("x", {})>>, <<Plain>>)}

MCConfigs ==
    {Normal(<<Usual(<<m>>)>>) : m \in AllMetrics}
    \cup {Normal(<<c>>) : c \in AllContracts}
    \cup {Normal(<<c, d>>) : c, d \in Some}
    \cup {AConfig(u, i, l, t, o, b, cs) :
            u \in {"", "url"}, i \in {0, 1}, l \in {{}, {"tier"}, {"address"}}, t \in {0, 5}, o \in {0, 5},
            b \in {0, 2}, cs \in {<<>>, <<Usual(<<Plain>>)>>}}
=============================================================================
