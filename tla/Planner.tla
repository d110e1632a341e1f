------------------------------ MODULE Planner ------------------------------
(***************************************************************************)
(* planner::build (planner.rs): from a validated configuration to the plan *)
(* of a scrape.  The nested loops over contracts, instances, metrics and   *)
(* calls draft the entries, share equal calls, and collect one help text   *)
(* and one set of label keys per metric name; then one gauge per name is   *)
(* registered, in the order of a hash map; then the entries get their      *)
(* label values.  The chunk count of the plan is in Scrape.                *)
(*                                                                         *)
(* Abstractions.  A name is the sequence of its words, so that joining     *)
(* names with "_" is concatenation and different splits of one name meet.  *)
(* Encoded call data is the function with its arguments.  The columns of a *)
(* gauge are a set: label values are a function on it.                     *)
(***************************************************************************)
EXTENDS Integers, Sequences, FiniteSets

CONSTANTS
    Configs,      \* the configurations to plan for
    FunctionName, \* per function of the ABI, its name
    OutputNames,  \* per function, the names of its outputs (or their indexes)
    BadAddresses, \* instance addresses that do not parse
    BadArgs,      \* arguments that convert_args or the ABI encoder refuses
    BadKeys,      \* label keys outside the Prometheus grammar
    BadWords      \* words no metric name may have: a prefix is not validated

VARIABLES
    cfg,          \* the configuration
    todo,         \* the iterations of the nested loops still to run
    calls,        \* the calls of the plan, call_by_key being their inverse
    drafts,       \* the entries before their label values are known
    helpOf,       \* help_by_metric
    keysOf,       \* keys_by_metric
    registered,   \* the metric names that have a gauge in the registry
    entries,      \* the entries of the plan
    phase,        \* "drafting", "registering", "built", "done" or "failed"
    error         \* why it failed

vars == <<cfg, todo, calls, drafts, helpOf, keysOf, registered, entries, phase, error>>

NoLabels == [k \in {} |-> ""]

\* expand_metric_calls: the calls of a metric, or one call with its args.
Subcalls(m) ==
    IF m.calls # <<>> THEN m.calls ELSE <<[args |-> m.args, labels |-> NoLabels]>>

\* The iterations of the loops: contract, instance, metric, call.
Places(cf) ==
    UNION {UNION {{<<c, i, m, s>> : i \in DOMAIN cf.contracts[c].instances,
                                    s \in DOMAIN Subcalls(cf.contracts[c].metrics[m])}
                  : m \in DOMAIN cf.contracts[c].metrics}
           : c \in DOMAIN cf.contracts}

Before(p, q) == \E k \in 1..4 : p[k] < q[k] /\ \A j \in 1..k - 1 : p[j] = q[j]

\* Lists are finite and counted; a metric names a function of the ABI.
Output == [index : Nat, field : Seq(STRING), name : Seq(STRING)]

ASSUME InputAssumption ==
    /\ \A f \in DOMAIN OutputNames : OutputNames[f] \in Seq(Seq(STRING))
    /\ \A cf \in Configs :
         /\ IsFiniteSet(Places(cf)) /\ Places(cf) \subseteq Nat \X Nat \X Nat \X Nat
         /\ \A p \in Places(cf) :
              LET m == cf.contracts[p[1]].metrics[p[3]]
              IN m.function \in DOMAIN OutputNames /\ m.outputs \in Seq(Output)

ContractAt(p) == cfg.contracts[p[1]]
InstanceAt(p) == ContractAt(p).instances[p[2]]
MetricAt(p)   == ContractAt(p).metrics[p[3]]
SubcallAt(p)  == Subcalls(MetricAt(p))[p[4]]

CallOf(p) == [target |-> InstanceAt(p).address,
              data   |-> <<MetricAt(p).function, SubcallAt(p).args>>]

-----------------------------------------------------------------------------
\* Names (resolve_outputs and infer_metric_names)

Single(m) == Len(OutputNames[m.function]) = 1

BaseName(m) == IF m.name = <<>> THEN FunctionName[m.function] ELSE m.name

\* No selection selects every output.
Selected(m) ==
    IF m.outputs # <<>> THEN m.outputs
    ELSE [j \in DOMAIN OutputNames[m.function] |-> [index |-> j, field |-> <<>>, name |-> <<>>]]

InferredName(m, o) ==
    IF o.field # <<>> THEN BaseName(m) \o (IF o.name # <<>> THEN o.name ELSE o.field)
    ELSE IF o.name # <<>> THEN (IF Single(m) THEN o.name ELSE BaseName(m) \o o.name)
    ELSE IF Single(m) THEN BaseName(m)
    ELSE BaseName(m) \o OutputNames[m.function][o.index]

NamesAt(p) ==
    [j \in DOMAIN Selected(MetricAt(p)) |->
        ContractAt(p).prefix \o InferredName(MetricAt(p), Selected(MetricAt(p))[j])]

NameSet(p) == {NamesAt(p)[j] : j \in DOMAIN NamesAt(p)}

-----------------------------------------------------------------------------
\* Labels

Override(f, g) ==
    [k \in DOMAIN f \cup DOMAIN g |-> IF k \in DOMAIN g THEN g[k] ELSE f[k]]

\* Mutated form: the instance is merged before its contract.
ContractPrevails(p) ==
    Override(Override(Override(cfg.labels, InstanceAt(p).labels), ContractAt(p).labels),
             SubcallAt(p).labels)

\* top < contract < instance < call; the labels of the metric are not read.
Merged(p) ==
    Override(Override(Override(cfg.labels, ContractAt(p).labels), InstanceAt(p).labels),
             SubcallAt(p).labels)

-----------------------------------------------------------------------------
Init ==
    /\ cfg \in Configs
    /\ todo = Places(cfg)
    /\ calls = <<>> /\ drafts = <<>>
    /\ helpOf = [n \in {} |-> ""] /\ keysOf = [n \in {} |-> {}]
    /\ registered = {} /\ entries = <<>>
    /\ phase = "drafting" /\ error = "none"

Bail(reason) ==
    /\ phase' = "failed" /\ error' = reason
    /\ UNCHANGED <<cfg, todo, calls, drafts, helpOf, keysOf, registered, entries>>

\* Mutated form: calls are shared by their data alone.
SameData(p) == {i \in DOMAIN calls : calls[i].data = CallOf(p).data}

\* The index call_by_key has for this address and call data.
Known(p) == {i \in DOMAIN calls : calls[i] = CallOf(p)}

CallIndex(p) == IF Known(p) = {} THEN Len(calls) + 1 ELSE CHOOSE i \in Known(p) : TRUE

\* Two non-empty help texts of a metric name differ.
Conflict(p) ==
    /\ MetricAt(p).help # ""
    /\ \E n \in NameSet(p) \cap DOMAIN helpOf : helpOf[n] \notin {"", MetricAt(p).help}

\* Mutated form: an empty help text is never replaced by a later one.
FirstHelp(n, help) == IF n \in DOMAIN helpOf THEN helpOf[n] ELSE help

\* The first non-empty help text of a name is kept.
HelpFor(n, help) == IF n \in DOMAIN helpOf /\ helpOf[n] # "" THEN helpOf[n] ELSE help

\* Mutated form: the keys of the last entry replace those of the others.
LastKeys(n, labels) == DOMAIN labels

\* The keys of a name are those of all its entries.
KeysFor(n, labels) == DOMAIN labels \cup IF n \in DOMAIN keysOf THEN keysOf[n] ELSE {}

\* The decode target of an output; its field is the component of that name that
\* resolve_tuple_field finds first, and its scale is left out.
DecodeAt(p, j) ==
    LET o == Selected(MetricAt(p))[j]
    IN [function |-> MetricAt(p).function, output |-> o.index, field |-> o.field]

DraftOf(p, j) ==
    [from |-> p, output |-> j, call |-> CallIndex(p), decode |-> DecodeAt(p, j),
     name |-> NamesAt(p)[j], labels |-> Merged(p), address |-> InstanceAt(p).address]

\* Mutated form: a shared call is taken for a shared metric.
DraftsIfNew(p) ==
    IF Known(p) # {} THEN <<>> ELSE [j \in DOMAIN NamesAt(p) |-> DraftOf(p, j)]

\* One draft per output, with the labels of all levels.
DraftsAt(p) == [j \in DOMAIN NamesAt(p) |-> DraftOf(p, j)]

\* One iteration: the next one in the order of the loops.
DraftCall(p) ==
    /\ phase = "drafting"
    /\ \A q \in todo : p = q \/ Before(p, q)
    /\ IF InstanceAt(p).address \in BadAddresses THEN Bail("address")
       ELSE IF SubcallAt(p).args \in BadArgs THEN Bail("args")
       ELSE IF Conflict(p) THEN Bail("help")
       ELSE /\ todo' = todo \ {p}
            /\ calls' = IF Known(p) = {} THEN Append(calls, CallOf(p)) ELSE calls
            /\ drafts' = drafts \o DraftsAt(p)
            /\ helpOf' = [n \in DOMAIN helpOf \cup NameSet(p) |->
                 IF n \in NameSet(p) THEN HelpFor(n, MetricAt(p).help) ELSE helpOf[n]]
            /\ keysOf' = [n \in DOMAIN keysOf \cup NameSet(p) |->
                 IF n \in NameSet(p) THEN KeysFor(n, Merged(p)) ELSE keysOf[n]]
            /\ phase' = IF todo' = {} THEN "registering" ELSE "drafting"
            /\ UNCHANGED <<cfg, registered, entries, error>>

\* GaugeVec::new refuses an invalid name or label key.
Refused(n) == keysOf[n] \cap BadKeys # {} \/ \E j \in DOMAIN n : n[j] \in BadWords

Register(n) ==
    /\ phase = "registering"
    /\ IF Refused(n) THEN Bail("gauge")
       ELSE /\ registered' = registered \cup {n}
            /\ UNCHANGED <<cfg, todo, calls, drafts, helpOf, keysOf, entries, phase, error>>

\* The value of a column: the reserved ones, the entry's label, or empty.
ValueOf(d, k) == IF k = "address" THEN d.address
                 ELSE IF k = "chain_id" THEN cfg.chainId
                 ELSE IF k \in DOMAIN d.labels THEN d.labels[k] ELSE ""

EmitEntries ==
    /\ phase = "registering" /\ registered = DOMAIN keysOf
    /\ entries' = [e \in DOMAIN drafts |->
         [call |-> drafts[e].call, decode |-> drafts[e].decode, name |-> drafts[e].name,
          values |-> [k \in keysOf[drafts[e].name] \cup {"address", "chain_id"} |->
                        ValueOf(drafts[e], k)]]]
    /\ phase' = "built"
    /\ UNCHANGED <<cfg, todo, calls, drafts, helpOf, keysOf, registered, error>>

\* The exporter's own metrics (metrics.rs).
SelfNames == {<<"evm", "exporter">> \o n : n \in {
    <<"scrape", "duration", "seconds">>, <<"scrape", "errors", "total">>,
    <<"call", "errors", "total">>, <<"last", "scrape", "success", "timestamp", "seconds">>,
    <<"rpc", "block", "number">>, <<"calls", "total">>, <<"chunks", "total">>,
    <<"build", "info">>}}

\* Mutated form: names that are taken are passed over.
RegisterFreeSelf ==
    /\ phase = "built"
    /\ registered' = registered \cup SelfNames /\ phase' = "done"
    /\ UNCHANGED <<cfg, todo, calls, drafts, helpOf, keysOf, entries, error>>

\* SelfMetrics::new registers them where build registered its own: a name that is
\* taken ends the start.
RegisterSelf ==
    /\ phase = "built"
    /\ IF registered \cap SelfNames # {} THEN Bail("selfMetrics")
       ELSE /\ registered' = registered \cup SelfNames /\ phase' = "done"
            /\ UNCHANGED <<cfg, todo, calls, drafts, helpOf, keysOf, entries, error>>

Next == \/ \E p \in todo : DraftCall(p)
        \/ \E n \in DOMAIN keysOf \ registered : Register(n)
        \/ EmitEntries
        \/ RegisterSelf

Spec == Init /\ [][Next]_vars

-----------------------------------------------------------------------------
(***************************************************************************)
(* Properties                                                              *)
(***************************************************************************)

\* Equal calls are shared, and only those.  No call is sent twice in a scrape, and
\* an entry's call_index names a call to its own instance's address with its own
\* function and arguments, also when the call was added for another metric or
\* contract (planner.rs:183-194); it is in range for the results of the scrape.
ReadsOwnCall ==
    /\ \A i, j \in DOMAIN calls : calls[i] = calls[j] => i = j
    /\ \A d \in DOMAIN drafts :
         drafts[d].call \in DOMAIN calls /\ calls[drafts[d].call] = CallOf(drafts[d].from)

\* A plan is complete and in the order of the configuration: each output selected
\* by each metric, for each instance and each of its calls, has one entry, in the
\* order of the loops and, within an iteration, of the outputs.  The entry decodes
\* that output, and of the function that its call, own or shared, invokes.
PlanComplete ==
    phase = "done" =>
        /\ \A p \in Places(cfg) : \A j \in DOMAIN NamesAt(p) :
             Cardinality({e \in DOMAIN drafts : drafts[e].from = p /\ drafts[e].output = j}) = 1
        /\ \A d, e \in DOMAIN drafts :
             \/ Before(drafts[d].from, drafts[e].from)
             \/ drafts[d].from = drafts[e].from /\ drafts[d].output < drafts[e].output
             => d < e
        /\ DOMAIN entries = DOMAIN drafts
        /\ \A e \in DOMAIN entries :
             LET chosen == Selected(MetricAt(drafts[e].from))[drafts[e].output]
             IN /\ entries[e].decode.output = chosen.index
                /\ entries[e].decode.field = chosen.field
                /\ entries[e].decode.function = calls[entries[e].call].data[1]

\* The levels that define a label for an iteration, most specific first.
Levels(p) == <<SubcallAt(p).labels, InstanceAt(p).labels, ContractAt(p).labels, cfg.labels>>

\* README.md:98, "more-specific levels win": whatever the metrics it shares its
\* gauge with add to the schema, an entry shows for each column the value of the
\* most specific level that defines it, and an empty one if none does.
MostSpecificWins ==
    \A e \in DOMAIN entries : \A k \in DOMAIN entries[e].values \ {"address", "chain_id"} :
        LET p == drafts[e].from
            defining == {l \in 1..4 : k \in DOMAIN Levels(p)[l]}
        IN entries[e].values[k] =
             IF defining = {} THEN ""
             ELSE Levels(p)[CHOOSE l \in defining : \A h \in defining : l <= h][k]

\* Entries of one metric name have the same columns, and every label any of them
\* was given is one of these: the schema does not depend on which entry came last
\* (planner.rs:261).  No entry of an exporter that starts bears the name of one of
\* its own metrics, whatever the prefix (metrics.rs:76).
UniformSchema ==
    /\ \A d, e \in DOMAIN entries : entries[d].name = entries[e].name =>
        /\ DOMAIN entries[d].values = DOMAIN entries[e].values
        /\ DOMAIN drafts[d].labels \subseteq DOMAIN entries[e].values
    /\ phase = "done" => \A e \in DOMAIN entries : entries[e].name \notin SelfNames

HelpsOf(n, places) == {MetricAt(p).help : p \in {q \in places : n \in NameSet(q)}} \ {""}

\* Conflicting help texts are found whatever the order in which empty and
\* non-empty ones are met, and nothing else is taken for a conflict
\* (planner.rs:243).
HelpConflictsFound ==
    LET names == UNION {NameSet(p) : p \in Places(cfg)}
    IN /\ error = "help" => \E n \in names : Cardinality(HelpsOf(n, Places(cfg))) > 1
       /\ phase = "done" => \A n \in names :
            /\ Cardinality(HelpsOf(n, Places(cfg))) <= 1
            /\ helpOf[n] = "" <=> HelpsOf(n, Places(cfg)) = {}

-----------------------------------------------------------------------------
(***************************************************************************)
(* What the documents say and the code does not do                         *)
(***************************************************************************)

\* README.md:129: the labels of a metric are "labels applied to this metric".
MetricLabelsApplied ==
    \A e \in DOMAIN entries : DOMAIN MetricAt(drafts[e].from).labels \subseteq DOMAIN entries[e].values
=============================================================================
