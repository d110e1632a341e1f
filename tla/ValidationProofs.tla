-------------------------- MODULE ValidationProofs --------------------------
(***************************************************************************)
(* Theorems about Validation, for every set of configurations and every    *)
(* ABI: what is accepted can be planned, registered and decoded.           *)
(***************************************************************************)
EXTENDS Validation, FiniteSetTheorems, WellFoundedInduction, TLAPS

-----------------------------------------------------------------------------
(***************************************************************************)
(* The inductive invariant: how far the checks are, and that each contract *)
(* behind them is valid.                                                   *)
(***************************************************************************)

\* The defaults left no zero.
Nonzero == cfg.interval > 0 /\ cfg.timeout > 0 /\ cfg.batch > 0

\* The contracts are checked from the first to the last.
Progress ==
    /\ stage \in {"read", "defaulted"} => parsed = {}
    /\ stage = "checked" => \E n \in Nat : n < Len(cfg.contracts) /\ parsed = 1..n
    /\ Accepted => parsed = DOMAIN cfg.contracts

\* None is passed over.
Valid ==
    /\ \A i \in parsed : ContractValid(cfg.contracts[i])
    /\ Accepted => cfg.labels \cap Reserved = {}
    /\ stage = "checked" => cfg.labels \cap Reserved = {}

ValidationInv ==
    /\ cfg \in Config
    /\ stage \in {"read", "defaulted", "checked", "valid", "rejected", "planned"}
    /\ stage # "read" => Nonzero
    /\ Progress /\ Valid

-----------------------------------------------------------------------------
\* A set of natural numbers has a first element.
LEMMA FirstIsLeast ==
    ASSUME NEW S \in SUBSET Nat, S # {}
    PROVE  First(S) \in S /\ \A d \in S : First(S) <= d
<1>1. \E c \in S : \A d \in S : ~ (<<d, c>> \in OpToRel(<, Nat))
  BY NatLessThanWellFounded, WFMin
<1>2. PICK c \in S : \A d \in S : ~ (<<d, c>> \in OpToRel(<, Nat))
  BY <1>1
<1>3. ASSUME NEW d \in S PROVE c <= d
  <2>1. ~ (d < c)
    BY <1>2 DEF OpToRel
  <2> QED BY <2>1
<1> QED BY <1>3 DEF First

\* Nothing is accepted before the first step.
LEMMA InitValidationInv == Init => ValidationInv
BY InputAssumption DEF Init, ValidationInv, Progress, Valid, Accepted

\* apply_defaults leaves no zero that it replaces.
LEMMA DefaultsInv ==
    ASSUME ValidationInv, ApplyDefaults
    PROVE  ValidationInv'
<1>1. /\ Or(cfg.interval, 30) \in Nat \ {0} /\ Or(cfg.timeout, 25) \in Nat \ {0}
      /\ Or(cfg.batch, 500) \in Nat \ {0}
  BY DEF ValidationInv, Config, Or
<1>2. cfg' = [cfg EXCEPT !.interval = Or(@, 30), !.timeout = Or(@, 25), !.batch = Or(@, 500)]
  BY DEF ApplyDefaults, Defaults
<1>3. cfg' \in Config
  <2> DEFINE timed(c) == [c EXCEPT !.interval = Or(cfg.interval, 30)]
             bounded(c) == [c EXCEPT !.timeout = Or(cfg.timeout, 25)]
             batched(c) == [c EXCEPT !.batch = Or(cfg.batch, 500)]
  <2>1. timed(cfg) \in Config
    BY <1>1 DEF ValidationInv, Config
  <2>2. ASSUME NEW c \in Config PROVE bounded(c) \in Config
    BY <1>1 DEF Config
  <2>3. ASSUME NEW c \in Config PROVE batched(c) \in Config
    BY <1>1 DEF Config
  <2>4. cfg' = batched(bounded(timed(cfg)))
    BY <1>2
  <2> HIDE DEF timed, bounded, batched
  <2> QED BY <2>1, <2>2, <2>3, <2>4
<1>4. /\ cfg'.interval = Or(cfg.interval, 30) /\ cfg'.timeout = Or(cfg.timeout, 25)
      /\ cfg'.batch = Or(cfg.batch, 500)
  BY <1>2 DEF ValidationInv, Config
<1>5. Nonzero'
  BY <1>1, <1>4 DEF Nonzero
<1> QED BY <1>3, <1>5 DEF ValidationInv, ApplyDefaults, Progress, Valid, Accepted

\* The checks of the whole configuration pass only what Nonzero says.
LEMMA CheckTopInv ==
    ASSUME ValidationInv, CheckTop
    PROVE  ValidationInv'
<1>1. stage = "defaulted" /\ cfg' = cfg /\ parsed' = parsed /\ parsed = {}
  BY DEF ValidationInv, CheckTop, Progress
<1>2. CASE stage' = "rejected"
  BY <1>1, <1>2 DEF ValidationInv, Progress, Valid, Accepted, Nonzero
<1>3. CASE stage' = "checked"
  <2>1. cfg.contracts # <<>> /\ cfg.labels \cap Reserved = {}
    BY <1>3 DEF CheckTop
  <2>2. cfg.contracts \in Seq(Contract)
    BY DEF ValidationInv, Config
  <2>3. 0 < Len(cfg.contracts) /\ parsed' = 1..0
    BY <1>1, <2>1, <2>2
  <2> QED BY <1>1, <1>3, <2>1, <2>3 DEF ValidationInv, Progress, Valid, Accepted, Nonzero
<1> QED BY <1>2, <1>3 DEF CheckTop

\* A contract that passes its checks joins the valid ones.
LEMMA CheckContractInv ==
    ASSUME ValidationInv, CheckContract
    PROVE  ValidationInv'
<1>1. stage = "checked" /\ cfg' = cfg
  BY DEF CheckContract
<1>2. PICK n \in Nat : n < Len(cfg.contracts) /\ parsed = 1..n
  BY <1>1 DEF ValidationInv, Progress
<1>3. Cardinality(parsed) + 1 = n + 1 /\ parsed \cup {n + 1} = 1..n + 1
  <2>1. Cardinality(1..n) = IF 1 > n THEN 0 ELSE n - 1 + 1
    BY FS_Interval, 1 \in Int, n \in Int
  <2> QED BY <1>2, <2>1
<1>4. cfg.contracts \in Seq(Contract)
  BY DEF ValidationInv, Config
<1>5. CASE ContractValid(cfg.contracts[n + 1])
  <2>1. /\ parsed' = 1..n + 1
        /\ stage' = IF n + 1 = Len(cfg.contracts) THEN "valid" ELSE "checked"
    BY <1>2, <1>3, <1>5 DEF CheckContract
  <2>2. \A i \in parsed' : ContractValid(cfg.contracts[i])
    BY <1>2, <1>5, <2>1 DEF ValidationInv, Valid
  <2>3. Progress'
    BY <1>1, <1>2, <1>4, <2>1 DEF Progress, Accepted
  <2> QED BY <1>1, <2>1, <2>2, <2>3 DEF ValidationInv, Valid, Nonzero
<1>6. CASE ~ContractValid(cfg.contracts[n + 1])
  BY <1>1, <1>3, <1>6 DEF CheckContract, ValidationInv, Progress, Valid, Accepted, Nonzero
<1> QED BY <1>5, <1>6

\* A metric that validation accepts is found again.
LEMMA ValidIsPlannable ==
    ASSUME ValidationInv, Accepted, NEW i \in DOMAIN cfg.contracts
    PROVE  Plannable(i)
<1>1. i \in parsed /\ ContractValid(cfg.contracts[i])
  BY DEF ValidationInv, Progress, Valid
<1> SUFFICES ASSUME NEW k \in DOMAIN cfg.contracts[i].metrics
             PROVE  LET m   == cfg.contracts[i].metrics[k]
                        abi == Abi[Source(cfg.contracts[i])]
                    IN /\ m.function \in DOMAIN abi
                       /\ NamesResolve(FunctionIn(abi, m.function), m)
                       /\ IF m.calls # <<>>
                          THEN \A s \in DOMAIN m.calls :
                                 m.calls[s].args = FunctionIn(abi, m.function).inputs
                          ELSE m.args = FunctionIn(abi, m.function).inputs
  BY <1>1 DEF Plannable
<1> DEFINE m    == cfg.contracts[i].metrics[k]
           abi  == Abi[Source(cfg.contracts[i])]
           func == FunctionIn(abi, m.function)
<1>2. MetricValid(abi, m)
  BY <1>1 DEF ContractValid
<1>3. Reads(abi, m.function) /\ OutputsFit(func, m.outputs) /\ ArgsFit(func, m)
  BY <1>2 DEF MetricValid
<1> HIDE DEF m, abi, func
<1>4. m.function \in DOMAIN abi
  BY <1>3 DEF Reads
<1>5. NamesResolve(func, m)
  BY <1>3 DEF OutputsFit, FieldFits, NamesResolve
<1>6. IF m.calls # <<>> THEN \A s \in DOMAIN m.calls : m.calls[s].args = func.inputs
      ELSE m.args = func.inputs
  BY <1>3 DEF ArgsFit
<1> QED BY <1>4, <1>5, <1>6 DEF m, abi, func

\* build leaves what validation established as it is.
LEMMA BuildInv ==
    ASSUME ValidationInv, Build
    PROVE  ValidationInv'
<1>1. stage = "valid" /\ cfg' = cfg /\ parsed' = parsed
  BY DEF Build
<1>2. \A i \in DOMAIN cfg.contracts : Plannable(i)
  BY <1>1, ValidIsPlannable DEF Accepted
<1>3. stage' = "planned"
  BY <1>2 DEF Build
<1> QED BY <1>1, <1>3 DEF ValidationInv, Progress, Valid, Accepted, Nonzero

\* Every step of loading, validating and building keeps the invariant.
LEMMA NextValidationInv == ValidationInv /\ [Next]_vars => ValidationInv'
<1> SUFFICES ASSUME ValidationInv, [Next]_vars PROVE ValidationInv'
  OBVIOUS
<1>1. CASE UNCHANGED vars
  BY <1>1 DEF vars, ValidationInv, Progress, Valid, Accepted, Nonzero
<1> QED BY <1>1, DefaultsInv, CheckTopInv, CheckContractInv, BuildInv DEF Next

\* The invariant of validation holds in every state it reaches.
THEOREM ValidationInvariant == Spec => []ValidationInv
<1> QED BY InitValidationInv, NextValidationInv, PTL DEF Spec

-----------------------------------------------------------------------------
\* What follows

\* The contract of a metric of an accepted configuration is valid.
LEMMA AcceptedMetric ==
    ASSUME ValidationInv, Accepted, NEW p \in Metrics
    PROVE  /\ ContractValid(cfg.contracts[p[1]])
           /\ MetricValid(Abi[Source(cfg.contracts[p[1]])], MetricAt(p))
           /\ FunctionAt(p) \in Function /\ MetricAt(p) \in Metric
<1>1. PICK i \in DOMAIN cfg.contracts : \E k \in DOMAIN cfg.contracts[i].metrics : p = <<i, k>>
  BY DEF Metrics
<1>2. PICK k \in DOMAIN cfg.contracts[i].metrics : p = <<i, k>>
  BY <1>1
<1>3. p[1] = i /\ p[2] = k
  BY <1>2
<1>4. ContractValid(cfg.contracts[i])
  BY DEF ValidationInv, Progress, Valid
<1>5. cfg.contracts[i] \in Contract
  BY DEF ValidationInv, Config
<1>6. cfg.contracts[i].metrics[k] \in Metric
  BY <1>5 DEF Contract
<1>7. /\ Source(cfg.contracts[i]) \in DOMAIN Abi
      /\ MetricValid(Abi[Source(cfg.contracts[i])], cfg.contracts[i].metrics[k])
  BY <1>4 DEF ContractValid
<1>8. FunctionIn(Abi[Source(cfg.contracts[i])], cfg.contracts[i].metrics[k].function) \in Function
  <2> DEFINE abi  == Abi[Source(cfg.contracts[i])]
             name == cfg.contracts[i].metrics[k].function
  <2>1. name \in DOMAIN abi
    BY <1>7 DEF MetricValid, Reads
  <2>2. abi[name] \in Seq(Function) \ {<<>>}
    BY <1>7, <2>1, InputAssumption
  <2> HIDE DEF abi, name
  <2>3. abi[name][1] \in Function
    BY <2>2
  <2> QED BY <2>3 DEF FunctionIn, abi, name
<1> QED BY <1>3, <1>4, <1>6, <1>7, <1>8 DEF MetricAt, FunctionAt

\* What validation accepts, build never refuses; the loop gets no zero, and what
\* is called reads only.
THEOREM AcceptedIsSafe == Spec => []AcceptedRuns
<1>1. ValidationInv => AcceptedRuns
  <2> SUFFICES ASSUME ValidationInv
               PROVE  /\ stage # "refused"
                      /\ Accepted =>
                           /\ cfg.interval > 0 /\ cfg.timeout > 0 /\ cfg.batch > 0
                           /\ \A p \in Metrics : FunctionAt(p).mutability \in {"view", "pure"}
    BY DEF AcceptedRuns
  <2>1. stage # "refused" /\ (Accepted => Nonzero)
    BY DEF ValidationInv, Accepted
  <2>2. ASSUME Accepted, NEW p \in Metrics
        PROVE  FunctionAt(p).mutability \in {"view", "pure"}
    BY <2>2, AcceptedMetric DEF MetricValid, Reads, FunctionAt
  <2> QED BY <2>1, <2>2 DEF Nonzero
<1> QED BY <1>1, ValidationInvariant, PTL

\* A field that fits is, in a tuple, first the name of a number or bool.
LEMMA FieldIsNumber ==
    ASSUME NEW func \in Function, NEW o, o.index \in DOMAIN func.outputs, FieldFits(func, o)
    PROVE  LET output == func.outputs[o.index]
               named(c) == output.components[c].name = o.field
           IN \E c \in DOMAIN output.components :
                /\ named(c) /\ \A d \in 1..c - 1 : ~named(d)
                /\ IsNumeric(output.components[c].kind)
<1> DEFINE output == func.outputs[o.index]
           parts  == output.components
           found  == FieldsOf(func, o.index, o.field)
           c      == First(found)
<1>1. output \in Param
  <2>1. func.outputs \in Seq(Param)
    BY DEF Function
  <2> QED BY <2>1
<1>2. parts \in Seq([name : STRING, kind : STRING])
  BY <1>1 DEF Param
<1>3. found # {} /\ IsNumeric(parts[c].kind)
  BY DEF FieldFits
<1>4. found = {d \in DOMAIN parts : parts[d].name = o.field}
  BY <1>3 DEF FieldsOf
<1> HIDE DEF parts, found
<1>5. DOMAIN parts = 1..Len(parts) /\ Len(parts) \in Nat
  BY <1>2
<1>6. found \in SUBSET Nat
  BY <1>4, <1>5
<1>7. c \in found /\ \A d \in found : c <= d
  BY <1>3, <1>6, FirstIsLeast
<1> HIDE DEF c
<1>8. c \in 1..Len(parts) /\ parts[c].name = o.field
  BY <1>4, <1>5, <1>7
<1>9. \A d \in 1..c - 1 : d \in DOMAIN parts /\ ~(c <= d)
  BY <1>5, <1>8
<1>10. \A d \in 1..c - 1 : parts[d].name # o.field
  BY <1>4, <1>7, <1>9
<1> QED BY <1>3, <1>5, <1>8, <1>10 DEF parts

\* The component that build selects for a field of a tuple is a number or a bool.
THEOREM FieldsAreNumbers == Spec => []FieldsDecode
<1>1. ValidationInv => FieldsDecode
  <2> SUFFICES ASSUME ValidationInv, Accepted, NEW p \in Metrics,
                      NEW j \in DOMAIN MetricAt(p).outputs,
                      MetricAt(p).outputs[j].field # ""
               PROVE  LET o == MetricAt(p).outputs[j]
                          output == FunctionAt(p).outputs[o.index]
                          named(c) == output.components[c].name = o.field
                      IN \E c \in DOMAIN output.components :
                            /\ named(c) /\ \A d \in 1..c - 1 : ~named(d)
                            /\ IsNumeric(output.components[c].kind)
    BY DEF FieldsDecode
  <2>1. OutputsFit(FunctionAt(p), MetricAt(p).outputs) /\ FunctionAt(p) \in Function
    BY AcceptedMetric DEF MetricValid, FunctionAt
  <2>2. /\ MetricAt(p).outputs[j].index \in DOMAIN FunctionAt(p).outputs
        /\ FieldFits(FunctionAt(p), MetricAt(p).outputs[j])
    BY <2>1 DEF OutputsFit
  <2> QED BY <2>1, <2>2, FieldIsNumber
<1> QED BY <1>1, ValidationInvariant, PTL

\* No merged level holds a reserved label, and every name is one, part by part, also
\* where that of an output replaces that of its metric.
THEOREM GaugesAreMade == Spec => []GaugesCanBeMade
<1>1. ASSUME ValidationInv, Accepted, NEW i \in DOMAIN cfg.contracts
      PROVE  LET c == cfg.contracts[i]
                 levels == {cfg.labels, c.labels} \cup {c.instances[j].labels : j \in DOMAIN c.instances}
                           \cup UNION {{c.metrics[k].calls[s].labels : s \in DOMAIN c.metrics[k].calls}
                                       : k \in DOMAIN c.metrics}
             IN Reserved \cap UNION levels = {}
  <2> DEFINE c == cfg.contracts[i]
  <2>1. ContractValid(c) /\ cfg.labels \cap Reserved = {}
    BY <1>1 DEF ValidationInv, Progress, Valid
  <2> HIDE DEF c
  <2>2. c.labels \cap Reserved = {}
    BY <2>1 DEF ContractValid
  <2>3. \A j \in DOMAIN c.instances : c.instances[j].labels \cap Reserved = {}
    BY <2>1 DEF ContractValid
  <2>4. \A k \in DOMAIN c.metrics : \A s \in DOMAIN c.metrics[k].calls :
            c.metrics[k].calls[s].labels \cap Reserved = {}
    BY <2>1 DEF ContractValid, MetricValid, LabelsFree
  <2> DEFINE levels == {cfg.labels, c.labels} \cup {c.instances[j].labels : j \in DOMAIN c.instances}
                       \cup UNION {{c.metrics[k].calls[s].labels : s \in DOMAIN c.metrics[k].calls}
                                   : k \in DOMAIN c.metrics}
  <2>5. \A level \in levels : Reserved \cap level = {}
    BY <2>1, <2>2, <2>3, <2>4
  <2>6. Reserved \cap UNION levels = {}
    <3> HIDE DEF levels
    <3> QED BY <2>5
  <2> QED BY <2>6 DEF c
<1>2. ASSUME ValidationInv, Accepted, NEW p \in Metrics
      PROVE  /\ MetricAt(p).name \notin Invalid
             /\ \A j \in DOMAIN MetricAt(p).outputs :
                  LET parts == NameParts(MetricAt(p), FunctionAt(p), j)
                  IN \A k \in DOMAIN parts :
                       parts[k] \notin IF k = 1 THEN Invalid ELSE Unusable
  <2>1. NamesFit(FunctionAt(p), MetricAt(p))
    BY <1>2, AcceptedMetric DEF MetricValid, FunctionAt
  <2>2. ASSUME NEW j \in DOMAIN MetricAt(p).outputs,
               NEW k \in DOMAIN NameParts(MetricAt(p), FunctionAt(p), j)
        PROVE  NameParts(MetricAt(p), FunctionAt(p), j)[k]
                 \notin IF k = 1 THEN Invalid ELSE Unusable
    <3> DEFINE o == MetricAt(p).outputs[j]
               parts == NameParts(MetricAt(p), FunctionAt(p), j)
    <3>1. CASE o.name # "" /\ o.field = "" /\ Len(FunctionAt(p).outputs) = 1
      <4>1. parts = <<o.name>>
        BY <3>1 DEF NameParts
      <4>2. o.name \notin Invalid
        BY <2>1, <3>1 DEF NamesFit
      <4>3. k = 1
        BY <4>1
      <4> QED BY <4>1, <4>2, <4>3
    <3>2. CASE ~(o.name # "" /\ o.field = "" /\ Len(FunctionAt(p).outputs) = 1)
      <4>1. parts = <<MetricAt(p).name, o.name>>
        BY <3>2 DEF NameParts
      <4>2. MetricAt(p).name \notin Invalid /\ o.name \notin Unusable
        BY <2>1, NameAssumption DEF NamesFit
      <4>3. k \in {1, 2}
        BY <4>1
      <4> QED BY <4>1, <4>2, <4>3
    <3> QED BY <3>1, <3>2
  <2> QED BY <2>1, <2>2 DEF NamesFit
<1>3. ValidationInv => GaugesCanBeMade
  BY <1>1, <1>2 DEF GaugesCanBeMade
<1> QED BY <1>3, ValidationInvariant, PTL
=============================================================================
