----------------------------- MODULE Validation -----------------------------
(***************************************************************************)
(* config::load after the YAML is read: apply_defaults, validate and its   *)
(* checks per contract, metric and output (config.rs, config/abi.rs), and  *)
(* what planner::build and the decoder take for granted afterwards.        *)
(*                                                                         *)
(* Abstractions.  Labels are the set of their keys, arguments their        *)
(* number.  A type is its kind; a tuple has components.  A file that       *)
(* cannot be read and a text that is no ABI are both outside DOMAIN Abi.   *)
(***************************************************************************)
EXTENDS Integers, Sequences, FiniteSets

CONSTANTS
    Configs,   \* the configurations to load
    Abi,       \* per ABI source, function name -> overloads
    Invalid,   \* names that are no Prometheus metric names
    Unusable   \* those that are none behind a prefix either

ASSUME NameAssumption == Unusable \subseteq Invalid

\* What the YAML and the ABI are read into.
Param    == [kind : STRING, components : Seq([name : STRING, kind : STRING])]
Function == [mutability : STRING, inputs : Nat, outputs : Seq(Param)]

Output   == [index : Nat, field : STRING, name : STRING]
Call     == [args : Nat, labels : SUBSET STRING]
Metric   == [function : STRING, name : STRING, args : Nat, calls : Seq(Call),
             outputs : Seq(Output), labels : SUBSET STRING]
Instance == [address : STRING, labels : SUBSET STRING]
Contract == [name : STRING, abiPath : STRING, abiInline : STRING, labels : SUBSET STRING,
             instances : Seq(Instance), metrics : Seq(Metric)]
Config   == [rpcUrl : STRING, chainId : Nat, labels : SUBSET STRING, interval : Nat,
             timeout : Nat, batch : Nat, contracts : Seq(Contract)]

\* The overloads of a function are never none.
ASSUME InputAssumption ==
    /\ Configs \subseteq Config
    /\ \A source \in DOMAIN Abi : \A name \in DOMAIN Abi[source] :
          Abi[source][name] \in Seq(Function) \ {<<>>}

VARIABLES
    cfg,     \* the configuration
    parsed,  \* the contracts that have a parsed_abi
    stage    \* "read", "defaulted", "checked", "valid", "rejected", "planned" or "refused"

vars == <<cfg, parsed, stage>>

Reserved == {"address", "chain_id"}

-----------------------------------------------------------------------------
\* The ABI (config/abi.rs)

FunctionIn(abi, name) == abi[name][1]

\* The first overload is taken, and must be a view.
Reads(abi, name) ==
    name \in DOMAIN abi /\ FunctionIn(abi, name).mutability \in {"view", "pure"}

\* The components that a field of this output may name: of a tuple, or of an
\* array of tuples, whose type starts with "tuple" too.
FieldsOf(func, index, field) ==
    IF index \notin DOMAIN func.outputs \/ func.outputs[index].kind \notin {"tuple", "tuple[]"}
    THEN {}
    ELSE {c \in DOMAIN func.outputs[index].components :
             func.outputs[index].components[c].name = field}

IsNumeric(kind) == kind \in {"uint", "int", "bool"}

First(S) == CHOOSE c \in S : \A d \in S : c <= d

-----------------------------------------------------------------------------
\* The metrics (validate_metric, validate_outputs)

\* Mutated form: a field may name a component of any type.
FieldExists(func, o) == FieldsOf(func, o.index, o.field) # {}

\* The field names a component that is a number or a bool.
FieldFits(func, o) ==
    LET found == FieldsOf(func, o.index, o.field)
    IN found # {} /\ IsNumeric(func.outputs[o.index].components[First(found)].kind)

OutputsFit(func, outputs) ==
    \A i \in DOMAIN outputs :
        /\ outputs[i].index \in DOMAIN func.outputs
        /\ \A j \in 1..i - 1 : <<outputs[j].index, outputs[j].field>> # <<outputs[i].index, outputs[i].field>>
        /\ outputs[i].field # "" => FieldFits(func, outputs[i])

\* Mutated form: the arguments of calls are not counted.
OwnArgsFit(func, m) == m.calls # <<>> \/ m.args = func.inputs

ArgsFit(func, m) ==
    IF m.calls # <<>> THEN \A k \in DOMAIN m.calls : m.calls[k].args = func.inputs
    ELSE m.args = func.inputs

LabelsFree(m) ==
    m.labels \cap Reserved = {} /\ \A k \in DOMAIN m.calls : m.calls[k].labels \cap Reserved = {}

\* Mutated form: the name of an output is always taken to stand behind the metric's.
AppendedNameFits(func, m) ==
    m.name \notin Invalid /\ \A i \in DOMAIN m.outputs : m.outputs[i].name \notin Unusable

\* A name that an output adds to the metric's is matched behind it; for a
\* function of one output, with no field, it replaces the metric's.
NamesFit(func, m) ==
    /\ m.name \notin Invalid
    /\ \A i \in DOMAIN m.outputs :
         m.outputs[i].name \notin
            IF Len(func.outputs) = 1 /\ m.outputs[i].field = "" THEN Invalid ELSE Unusable

MetricValid(abi, m) ==
    /\ LabelsFree(m)
    /\ m.function # ""
    /\ m.args = 0 \/ m.calls = <<>>
    /\ Reads(abi, m.function)
    /\ LET func == FunctionIn(abi, m.function)
       IN OutputsFit(func, m.outputs) /\ ArgsFit(func, m) /\ NamesFit(func, m)

-----------------------------------------------------------------------------
\* The contracts (validate, validate_contract, load_abi)

Source(c) == IF c.abiInline # "" THEN c.abiInline ELSE c.abiPath

ContractValid(c) ==
    /\ c.name # ""
    /\ c.labels \cap Reserved = {}
    /\ (c.abiPath = "") # (c.abiInline = "")
    /\ Source(c) \in DOMAIN Abi
    /\ c.instances # <<>>
    /\ \A j \in DOMAIN c.instances :
         c.instances[j].address # "" /\ c.instances[j].labels \cap Reserved = {}
    /\ c.metrics # <<>>
    /\ \A m \in DOMAIN c.metrics : MetricValid(Abi[Source(c)], c.metrics[m])

Init == cfg \in Configs /\ parsed = {} /\ stage = "read"

Or(n, default) == IF n = 0 THEN default ELSE n

\* A duration or size of zero is one that was not given.
Defaults(given) ==
    [given EXCEPT !.interval = Or(@, 30), !.timeout = Or(@, 25), !.batch = Or(@, 500)]

ApplyDefaults ==
    /\ stage = "read"
    /\ cfg' = Defaults(cfg)
    /\ stage' = "defaulted"
    /\ UNCHANGED parsed

CheckTop ==
    /\ stage = "defaulted"
    /\ stage' = IF /\ cfg.rpcUrl # "" /\ cfg.chainId # 0 /\ cfg.contracts # <<>>
                   /\ cfg.labels \cap Reserved = {}
                THEN "checked" ELSE "rejected"
    /\ UNCHANGED <<cfg, parsed>>

\* The contracts are checked one by one; one that is valid keeps its parsed ABI.
CheckContract ==
    /\ stage = "checked"
    /\ LET i == Cardinality(parsed) + 1
       IN IF ContractValid(cfg.contracts[i])
          THEN /\ parsed' = parsed \cup {i}
               /\ stage' = IF i = Len(cfg.contracts) THEN "valid" ELSE "checked"
          ELSE stage' = "rejected" /\ UNCHANGED parsed
    /\ UNCHANGED cfg

-----------------------------------------------------------------------------
\* What planner::build looks up again

\* resolve_outputs: as many names as outputs, each from an output that exists.
NamesResolve(func, m) ==
    \A i \in DOMAIN m.outputs :
        /\ m.outputs[i].index \in DOMAIN func.outputs
        /\ m.outputs[i].field # "" => FieldsOf(func, m.outputs[i].index, m.outputs[i].field) # {}

Plannable(i) ==
    /\ i \in parsed
    /\ \A k \in DOMAIN cfg.contracts[i].metrics :
         LET m   == cfg.contracts[i].metrics[k]
             abi == Abi[Source(cfg.contracts[i])]
         IN /\ m.function \in DOMAIN abi
            /\ NamesResolve(FunctionIn(abi, m.function), m)
            /\ IF m.calls # <<>>
               THEN \A s \in DOMAIN m.calls : m.calls[s].args = FunctionIn(abi, m.function).inputs
               ELSE m.args = FunctionIn(abi, m.function).inputs

Build ==
    /\ stage = "valid"
    /\ stage' = IF \A i \in DOMAIN cfg.contracts : Plannable(i) THEN "planned" ELSE "refused"
    /\ UNCHANGED <<cfg, parsed>>

Next == ApplyDefaults \/ CheckTop \/ CheckContract \/ Build

Spec == Init /\ [][Next]_vars

-----------------------------------------------------------------------------
(***************************************************************************)
(* Properties                                                              *)
(***************************************************************************)

Metrics == UNION {{<<i, k>> : k \in DOMAIN cfg.contracts[i].metrics} : i \in DOMAIN cfg.contracts}

MetricAt(p) == cfg.contracts[p[1]].metrics[p[2]]

FunctionAt(p) == FunctionIn(Abi[Source(cfg.contracts[p[1]])], MetricAt(p).function)

Accepted == stage \in {"valid", "planned", "refused"}

\* What validation accepts, build finds again: every ABI, the very overload that
\* was checked, as many arguments as it takes in each call, every output and
\* field; the lookups of planner.rs:140-241 never fail behind it.  Nor are the
\* loop and the driver started with a zero, whatever was given: tokio's interval
\* would panic, every scrape would time out at once (exporter.rs:105, 123).
AcceptedRuns ==
    /\ stage # "refused"
    /\ Accepted => /\ cfg.interval > 0 /\ cfg.timeout > 0 /\ cfg.batch > 0
                   /\ \A p \in Metrics : FunctionAt(p).mutability \in {"view", "pure"}

\* A field that validation accepts and whose output is a tuple always decodes:
\* the component that build selects, the first of that name, is a number or a
\* bool (decoder.rs:50).
FieldsDecode ==
    Accepted => \A p \in Metrics : \A j \in DOMAIN MetricAt(p).outputs :
        LET o == MetricAt(p).outputs[j]
            output == FunctionAt(p).outputs[o.index]
            named(c) == output.components[c].name = o.field
        IN o.field # "" /\ output.kind = "tuple" =>
             \E c \in DOMAIN output.components :
                /\ named(c) /\ \A d \in 1..c - 1 : ~named(d)
                /\ IsNumeric(output.components[c].kind)

\* What the name of an output is put together from, in front of which a contract
\* may have no prefix (naming.rs:58-95): the metric's name and the output's, or
\* the output's alone where the function has no other output.
NameParts(m, func, j) ==
    LET o == m.outputs[j]
    IN IF o.name # "" /\ o.field = "" /\ Len(func.outputs) = 1 THEN <<o.name>>
       ELSE <<m.name, o.name>>

\* Every gauge of an accepted configuration can be made, behind a usable prefix or
\* none.  No level that build merges holds a key that build itself adds to the
\* schema, or the gauge would have one label twice (planner.rs:291).  A name begins
\* with a part that is one by itself, also where the name of an output replaces
\* that of the metric (naming.rs:81), and goes on with parts that fit behind it.
GaugesCanBeMade ==
    Accepted =>
        /\ \A i \in DOMAIN cfg.contracts :
             LET c == cfg.contracts[i]
                 levels == {cfg.labels, c.labels} \cup {c.instances[j].labels : j \in DOMAIN c.instances}
                           \cup UNION {{c.metrics[k].calls[s].labels : s \in DOMAIN c.metrics[k].calls}
                                       : k \in DOMAIN c.metrics}
             IN Reserved \cap UNION levels = {}
        /\ \A p \in Metrics :
             /\ MetricAt(p).name \notin Invalid
             /\ \A j \in DOMAIN MetricAt(p).outputs :
                  LET parts == NameParts(MetricAt(p), FunctionAt(p), j)
                  IN \A k \in DOMAIN parts :
                       parts[k] \notin IF k = 1 THEN Invalid ELSE Unusable

-----------------------------------------------------------------------------
(***************************************************************************)
(* What the documents say and the code does not do                         *)
(***************************************************************************)

SelectedKinds(p) ==
    LET m == MetricAt(p)
        kindOf(o) == IF o.field = "" THEN FunctionAt(p).outputs[o.index].kind
                     ELSE IF FunctionAt(p).outputs[o.index].kind # "tuple" THEN "array"
                     ELSE FunctionAt(p).outputs[o.index].components[
                            First(FieldsOf(FunctionAt(p), o.index, o.field))].kind
    IN IF m.outputs = <<>> THEN {FunctionAt(p).outputs[j].kind : j \in DOMAIN FunctionAt(p).outputs}
       ELSE {kindOf(m.outputs[j]) : j \in DOMAIN m.outputs}

\* README.md:157: "Only numeric and boolean scalar outputs are exportable;
\* address/string/bytes and nested composite returns are rejected at validation
\* time."
NumericOnly == Accepted => \A p \in Metrics : \A kind \in SelectedKinds(p) : IsNumeric(kind)
=============================================================================
