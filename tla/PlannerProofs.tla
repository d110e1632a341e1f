---------------------------- MODULE PlannerProofs ----------------------------
(***************************************************************************)
(* Theorems about Planner, for every set of configurations and every ABI.  *)
(***************************************************************************)
EXTENDS Planner, FiniteSetTheorems, SequenceTheorems, TLAPS

-----------------------------------------------------------------------------
(***************************************************************************)
(* The inductive invariant: what the loops have done for the iterations    *)
(* behind them, and that they have done nothing for the others.            *)
(***************************************************************************)

Behind == Places(cfg) \ todo

Decodes == {DecodeAt(p, j) : p \in Places(cfg), j \in Nat}

\* What the loops draft, whatever the iteration.
Draft == [from    : Places(cfg),
          output  : Nat,
          call    : Nat,
          decode  : Decodes,
          name    : UNION {NameSet(p) : p \in Places(cfg)},
          labels  : {Merged(p) : p \in Places(cfg)},
          address : {InstanceAt(p).address : p \in Places(cfg)}]

Shape ==
    /\ cfg \in Configs
    /\ todo \subseteq Places(cfg)
    /\ phase \in {"drafting", "registering", "built", "done", "failed"}
    /\ phase \in {"registering", "built", "done"} => todo = {}
    /\ calls \in Seq({CallOf(p) : p \in Places(cfg)})
    /\ drafts \in Seq(Draft)

\* A draft is what its iteration and output make of the configuration.
Faithful ==
    \A d \in DOMAIN drafts :
        LET p == drafts[d].from
        IN /\ p \in Behind
           /\ drafts[d].output \in DOMAIN NamesAt(p)
           /\ drafts[d].name = NamesAt(p)[drafts[d].output]
           /\ drafts[d].labels = Merged(p)
           /\ drafts[d].decode = DecodeAt(p, drafts[d].output)

\* Every iteration behind has one draft per output, and they are in order.
Covered == \A p \in Behind : \A j \in DOMAIN NamesAt(p) :
               \E d \in DOMAIN drafts : drafts[d].from = p /\ drafts[d].output = j

Once == \A d, e \in DOMAIN drafts :
            drafts[d].from = drafts[e].from /\ drafts[d].output = drafts[e].output => d = e

Ordered ==
    /\ \A d \in DOMAIN drafts : \A q \in todo : Before(drafts[d].from, q)
    /\ \A d, e \in DOMAIN drafts : Before(drafts[d].from, drafts[e].from) => d < e
    /\ \A d, e \in DOMAIN drafts :
         drafts[d].from = drafts[e].from /\ drafts[d].output < drafts[e].output => d < e

PlannerInv == Shape /\ ReadsOwnCall /\ Faithful /\ Covered /\ Once /\ Ordered

-----------------------------------------------------------------------------
\* The order of the loops

\* No iteration comes before itself, or before one that comes before it.
LEMMA BeforeIsStrict ==
    ASSUME NEW p \in Nat \X Nat \X Nat \X Nat, NEW q \in Nat \X Nat \X Nat \X Nat, Before(p, q)
    PROVE  ~Before(q, p) /\ p # q
<1>1. \A k \in 1..4 : p[k] \in Nat /\ q[k] \in Nat
  OBVIOUS
<1>2. PICK k \in 1..4 : p[k] < q[k] /\ \A j \in 1..k - 1 : p[j] = q[j]
  BY DEF Before
<1>3. ASSUME NEW h \in 1..4, q[h] < p[h], \A j \in 1..h - 1 : q[j] = p[j] PROVE FALSE
  <2>1. k \in 1..h - 1 \/ k = h \/ h \in 1..k - 1
    BY <1>2
  <2> QED BY <1>1, <1>2, <1>3, <2>1
<1>4. p # q
  BY <1>1, <1>2
<1> QED BY <1>3, <1>4 DEF Before

\* The configuration never changes, nor what is read from it.
LEMMA SamePlaces ==
    ASSUME UNCHANGED cfg
    PROVE  /\ Places(cfg)' = Places(cfg)
           /\ \A p : /\ CallOf(p)' = CallOf(p) /\ NamesAt(p)' = NamesAt(p)
                     /\ NameSet(p)' = NameSet(p) /\ Merged(p)' = Merged(p)
                     /\ InstanceAt(p)' = InstanceAt(p) /\ MetricAt(p)' = MetricAt(p)
           /\ \A p, j : DecodeAt(p, j)' = DecodeAt(p, j)
           /\ Draft' = Draft
<1>1. /\ Places(cfg)' = Places(cfg)
      /\ \A p : InstanceAt(p)' = InstanceAt(p) /\ MetricAt(p)' = MetricAt(p)
  BY DEF InstanceAt, MetricAt, ContractAt
<1>2. \A p : /\ CallOf(p)' = CallOf(p) /\ NamesAt(p)' = NamesAt(p) /\ Merged(p)' = Merged(p)
  BY DEF CallOf, NamesAt, Merged, InstanceAt, MetricAt, ContractAt, SubcallAt
<1>3. \A p : NameSet(p)' = NameSet(p)
  BY <1>2 DEF NameSet
<1>4. \A p, j : DecodeAt(p, j)' = DecodeAt(p, j)
  BY <1>1 DEF DecodeAt
<1>5. Draft' = Draft
  <2>1. (UNION {NameSet(p) : p \in Places(cfg)})' = UNION {NameSet(p) : p \in Places(cfg)}
    BY <1>1, <1>3
  <2>2. {Merged(p) : p \in Places(cfg)}' = {Merged(p) : p \in Places(cfg)}
    BY <1>1, <1>2
  <2>3. {InstanceAt(p).address : p \in Places(cfg)}' = {InstanceAt(p).address : p \in Places(cfg)}
    BY <1>1
  <2>4. Decodes' = Decodes
    BY <1>1, <1>4 DEF Decodes
  <2> QED BY <1>1, <2>1, <2>2, <2>3, <2>4 DEF Draft
<1> QED BY <1>1, <1>2, <1>3, <1>4, <1>5

\* The names of an iteration are those of a sequence of outputs.
LEMMA NamesAreCounted ==
    ASSUME cfg \in Configs, NEW p \in Places(cfg)
    PROVE  \E n \in Nat : DOMAIN NamesAt(p) = 1..n
<1>1. MetricAt(p).function \in DOMAIN OutputNames /\ MetricAt(p).outputs \in Seq(Output)
  BY InputAssumption DEF MetricAt, ContractAt
<1>2. OutputNames[MetricAt(p).function] \in Seq(Seq(STRING))
  BY <1>1, InputAssumption
<1>3. DOMAIN NamesAt(p) = DOMAIN Selected(MetricAt(p))
  BY DEF NamesAt
<1>4. \/ DOMAIN Selected(MetricAt(p)) = DOMAIN MetricAt(p).outputs
      \/ DOMAIN Selected(MetricAt(p)) = DOMAIN OutputNames[MetricAt(p).function]
  BY DEF Selected
<1> QED BY <1>1, <1>2, <1>3, <1>4

-----------------------------------------------------------------------------
\* The invariant is inductive

\* Before the first iteration nothing is behind.
LEMMA InitPlannerInv == Init => PlannerInv
<1> SUFFICES ASSUME Init PROVE PlannerInv
  OBVIOUS
<1>1. cfg \in Configs /\ todo = Places(cfg) /\ calls = <<>> /\ drafts = <<>> /\ phase = "drafting"
  BY DEF Init
<1>2. Shape
  BY <1>1, EmptySeq DEF Shape
<1>3. ReadsOwnCall /\ Faithful /\ Covered /\ Once /\ Ordered
  BY <1>1 DEF ReadsOwnCall, Faithful, Covered, Behind, Once, Ordered
<1> QED BY <1>2, <1>3 DEF PlannerInv

\* Steps that draft nothing: what was drafted still holds.
LEMMA NothingDrafted ==
    ASSUME PlannerInv, UNCHANGED <<cfg, todo, calls, drafts>>,
           phase' \in {"failed", phase} \/ (todo = {} /\ phase' \in {"built", "done"})
    PROVE  PlannerInv'
<1>1. Draft' = Draft /\ Places(cfg)' = Places(cfg) /\ Behind' = Behind
  BY SamePlaces DEF Behind
<1>2. /\ \A p : CallOf(p)' = CallOf(p) /\ NamesAt(p)' = NamesAt(p) /\ Merged(p)' = Merged(p)
      /\ \A p, j : DecodeAt(p, j)' = DecodeAt(p, j)
  BY SamePlaces
<1>3. Shape'
  BY <1>1, <1>2 DEF PlannerInv, Shape
<1>4. ReadsOwnCall' /\ Faithful' /\ Covered' /\ Once' /\ Ordered'
  BY <1>1, <1>2 DEF PlannerInv, ReadsOwnCall, Faithful, Covered, Once, Ordered
<1> QED BY <1>3, <1>4 DEF PlannerInv

\* The call of an iteration is in the plan after it, at the index its drafts have;
\* it is added only if no equal one was there.
LEMMA CallIsShared ==
    ASSUME PlannerInv, NEW p \in todo,
           calls' = IF Known(p) = {} THEN Append(calls, CallOf(p)) ELSE calls
    PROVE  /\ calls' \in Seq({CallOf(q) : q \in Places(cfg)})
           /\ \A i, j \in DOMAIN calls' : calls'[i] = calls'[j] => i = j
           /\ CallIndex(p) \in DOMAIN calls' /\ calls'[CallIndex(p)] = CallOf(p)
           /\ \A i \in DOMAIN calls : i \in DOMAIN calls' /\ calls'[i] = calls[i]
<1> DEFINE C == {CallOf(q) : q \in Places(cfg)}
<1>1. /\ calls \in Seq(C) /\ CallOf(p) \in C
      /\ \A i, j \in DOMAIN calls : calls[i] = calls[j] => i = j
  BY DEF PlannerInv, Shape, ReadsOwnCall
<1> HIDE DEF C
<1>2. DOMAIN calls = 1..Len(calls) /\ Len(calls) \in Nat
  BY <1>1
<1>3. CASE Known(p) = {}
  <2>1. calls' = Append(calls, CallOf(p)) /\ CallIndex(p) = Len(calls) + 1
    BY <1>3 DEF CallIndex
  <2>2. /\ calls' \in Seq(C) /\ DOMAIN calls' = 1..Len(calls) + 1
        /\ \A i \in 1..Len(calls) : calls'[i] = calls[i]
        /\ calls'[Len(calls) + 1] = CallOf(p)
    BY <1>1, <1>2, <2>1, AppendProperties
  <2>3. \A i \in DOMAIN calls : calls[i] # CallOf(p)
    BY <1>3 DEF Known
  <2> QED BY <1>1, <1>2, <2>1, <2>2, <2>3 DEF C
<1>4. CASE Known(p) # {}
  <2>1. calls' = calls /\ CallIndex(p) \in Known(p)
    BY <1>4 DEF CallIndex
  <2> QED BY <1>1, <2>1 DEF Known, C
<1> QED BY <1>3, <1>4

\* An iteration appends its drafts.
LEMMA DraftsAreAppended ==
    ASSUME PlannerInv, NEW p \in todo, CallIndex(p) \in Nat, drafts' = drafts \o DraftsAt(p)
    PROVE  /\ drafts' \in Seq(Draft)
           /\ \A d \in DOMAIN drafts : d \in DOMAIN drafts' /\ drafts'[d] = drafts[d]
           /\ \A d \in DOMAIN drafts' \ DOMAIN drafts :
                 \E j \in DOMAIN NamesAt(p) :
                    d = Len(drafts) + j /\ drafts'[d] = DraftsAt(p)[j]
           /\ \A j \in DOMAIN NamesAt(p) :
                 /\ Len(drafts) + j \in DOMAIN drafts' \ DOMAIN drafts
                 /\ drafts'[Len(drafts) + j] = DraftsAt(p)[j]
<1>1. p \in Places(cfg) /\ cfg \in Configs /\ drafts \in Seq(Draft)
  BY DEF PlannerInv, Shape
<1>2. PICK n \in Nat : DOMAIN NamesAt(p) = 1..n
  BY <1>1, NamesAreCounted
<1>3. \A j \in 1..n : DraftsAt(p)[j] \in Draft
  <2> SUFFICES ASSUME NEW j \in 1..n PROVE DraftsAt(p)[j] \in Draft
    OBVIOUS
  <2>1. DraftsAt(p)[j] = [from |-> p, output |-> j, call |-> CallIndex(p),
                          decode |-> DecodeAt(p, j), name |-> NamesAt(p)[j],
                          labels |-> Merged(p), address |-> InstanceAt(p).address]
    BY <1>2 DEF DraftsAt, DraftOf
  <2>2. NamesAt(p)[j] \in UNION {NameSet(q) : q \in Places(cfg)}
    <3>1. NamesAt(p)[j] \in NameSet(p)
      BY <1>2 DEF NameSet
    <3> QED BY <1>1, <3>1
  <2>3. DecodeAt(p, j) \in Decodes
    BY <1>1 DEF Decodes
  <2> QED BY <1>1, <2>1, <2>2, <2>3 DEF Draft
<1>4. DOMAIN DraftsAt(p) = 1..n
  BY <1>2 DEF DraftsAt
<1>5. DraftsAt(p) \in Seq(Draft) /\ Len(DraftsAt(p)) = n
  <2>1. DraftsAt(p) \in [1..n -> Draft]
    BY <1>3, <1>4 DEF DraftsAt
  <2> QED BY <2>1
<1>6. /\ drafts' \in Seq(Draft) /\ Len(drafts') = Len(drafts) + n
      /\ \A d \in 1..Len(drafts) + n :
            drafts'[d] = IF d <= Len(drafts) THEN drafts[d] ELSE DraftsAt(p)[d - Len(drafts)]
  BY <1>1, <1>5, ConcatProperties
<1>7. DOMAIN drafts = 1..Len(drafts) /\ Len(drafts) \in Nat /\ DOMAIN drafts' = 1..Len(drafts) + n
  BY <1>1, <1>6
<1>8. ASSUME NEW d \in DOMAIN drafts' \ DOMAIN drafts
      PROVE  \E j \in DOMAIN NamesAt(p) : d = Len(drafts) + j /\ drafts'[d] = DraftsAt(p)[j]
  <2>1. d - Len(drafts) \in 1..n /\ ~(d <= Len(drafts)) /\ d = Len(drafts) + (d - Len(drafts))
    BY <1>7
  <2> QED BY <1>2, <1>6, <1>7, <2>1
<1>9. ASSUME NEW j \in DOMAIN NamesAt(p)
      PROVE  /\ Len(drafts) + j \in DOMAIN drafts' \ DOMAIN drafts
             /\ drafts'[Len(drafts) + j] = DraftsAt(p)[j]
  <2>1. j \in 1..n /\ ~(Len(drafts) + j <= Len(drafts)) /\ Len(drafts) + j - Len(drafts) = j
    BY <1>2, <1>7
  <2> QED BY <1>6, <1>7, <2>1
<1> QED BY <1>6, <1>7, <1>8, <1>9

\* What an iteration that does not bail out does.
LEMMA DraftCallSucceeds ==
    ASSUME NEW p \in todo, DraftCall(p)
    PROVE  \/ /\ phase' = "failed" /\ error' \in {"address", "args", "help"}
              /\ error' = "help" => Conflict(p)
              /\ UNCHANGED <<cfg, todo, calls, drafts, helpOf, keysOf, registered, entries>>
           \/ /\ phase = "drafting" /\ todo' = todo \ {p} /\ ~Conflict(p)
              /\ \A q \in todo : p = q \/ Before(p, q)
              /\ calls' = IF Known(p) = {} THEN Append(calls, CallOf(p)) ELSE calls
              /\ drafts' = drafts \o DraftsAt(p)
              /\ helpOf' = [n \in DOMAIN helpOf \cup NameSet(p) |->
                   IF n \in NameSet(p) THEN HelpFor(n, MetricAt(p).help) ELSE helpOf[n]]
              /\ keysOf' = [n \in DOMAIN keysOf \cup NameSet(p) |->
                   IF n \in NameSet(p) THEN KeysFor(n, Merged(p)) ELSE keysOf[n]]
              /\ phase' = IF todo' = {} THEN "registering" ELSE "drafting"
              /\ UNCHANGED <<cfg, registered, entries, error>>
BY DEF DraftCall, Bail

\* An iteration keeps the invariant, whether it bails out or drafts.
LEMMA DraftCallInv ==
    ASSUME PlannerInv, NEW p \in todo, DraftCall(p)
    PROVE  PlannerInv'
<1>1. CASE phase' = "failed" /\ UNCHANGED <<cfg, todo, calls, drafts>>
  BY <1>1, NothingDrafted
<1>2. CASE /\ todo' = todo \ {p} /\ \A q \in todo : p = q \/ Before(p, q)
           /\ calls' = IF Known(p) = {} THEN Append(calls, CallOf(p)) ELSE calls
           /\ drafts' = drafts \o DraftsAt(p)
           /\ phase' = IF todo' = {} THEN "registering" ELSE "drafting"
           /\ cfg' = cfg
  <2>1. /\ cfg \in Configs /\ todo \subseteq Places(cfg) /\ p \in Places(cfg)
        /\ Places(cfg) \subseteq Nat \X Nat \X Nat \X Nat
        /\ DOMAIN drafts = 1..Len(drafts) /\ DOMAIN calls = 1..Len(calls)
        /\ Len(drafts) \in Nat /\ Len(calls) \in Nat
    BY InputAssumption DEF PlannerInv, Shape
  <2>2. /\ Draft' = Draft /\ Places(cfg)' = Places(cfg) /\ Behind' = Behind \cup {p}
        /\ \A q : CallOf(q)' = CallOf(q) /\ NamesAt(q)' = NamesAt(q) /\ Merged(q)' = Merged(q)
        /\ \A q, j : DecodeAt(q, j)' = DecodeAt(q, j)
    BY <1>2, <2>1, SamePlaces DEF Behind
  <2>3. /\ calls' \in Seq({CallOf(q) : q \in Places(cfg)})
        /\ \A i, j \in DOMAIN calls' : calls'[i] = calls'[j] => i = j
        /\ CallIndex(p) \in DOMAIN calls' /\ calls'[CallIndex(p)] = CallOf(p)
        /\ \A i \in DOMAIN calls : i \in DOMAIN calls' /\ calls'[i] = calls[i]
    BY <1>2, CallIsShared
  <2>4. CallIndex(p) \in Nat
    BY <2>3
  <2>5. /\ drafts' \in Seq(Draft)
        /\ \A d \in DOMAIN drafts : d \in DOMAIN drafts' /\ drafts'[d] = drafts[d]
        /\ \A d \in DOMAIN drafts' \ DOMAIN drafts :
              \E j \in DOMAIN NamesAt(p) : d = Len(drafts) + j /\ drafts'[d] = DraftsAt(p)[j]
        /\ \A j \in DOMAIN NamesAt(p) :
              /\ Len(drafts) + j \in DOMAIN drafts' \ DOMAIN drafts
              /\ drafts'[Len(drafts) + j] = DraftsAt(p)[j]
    BY <1>2, <2>4, DraftsAreAppended
  <2>6. \A j \in DOMAIN NamesAt(p) :
          /\ DraftsAt(p)[j].from = p /\ DraftsAt(p)[j].output = j
          /\ DraftsAt(p)[j].call = CallIndex(p) /\ DraftsAt(p)[j].name = NamesAt(p)[j]
          /\ DraftsAt(p)[j].labels = Merged(p) /\ DraftsAt(p)[j].decode = DecodeAt(p, j)
    BY DEF DraftsAt, DraftOf
  <2>7. \A d \in DOMAIN drafts' \ DOMAIN drafts :
          /\ drafts'[d].from = p /\ drafts'[d].call = CallIndex(p)
          /\ drafts'[d].output \in DOMAIN NamesAt(p) /\ d = Len(drafts) + drafts'[d].output
          /\ drafts'[d].name = NamesAt(p)[drafts'[d].output] /\ drafts'[d].labels = Merged(p)
          /\ drafts'[d].decode = DecodeAt(p, drafts'[d].output)
    BY <2>5, <2>6
  <2>8. \A d \in DOMAIN drafts : drafts[d].from \in Behind /\ drafts[d].from # p
    BY DEF PlannerInv, Faithful, Behind
  <2>9. Shape'
    <3>1. {CallOf(q) : q \in Places(cfg)}' = {CallOf(q) : q \in Places(cfg)}
      BY <2>2
    <3>2. calls' \in Seq({CallOf(q) : q \in Places(cfg)})' /\ drafts' \in Seq(Draft')
      BY <2>2, <2>3, <2>5, <3>1
    <3>3. todo' \subseteq Places(cfg)' /\ cfg' \in Configs
      BY <1>2, <2>1
    <3> QED BY <1>2, <3>2, <3>3 DEF Shape
  <2>10. ReadsOwnCall'
    <3>1. \A d \in DOMAIN drafts' :
            drafts'[d].call \in DOMAIN calls' /\ calls'[drafts'[d].call] = CallOf(drafts'[d].from)
      BY <2>3, <2>5, <2>7 DEF PlannerInv, ReadsOwnCall
    <3> QED BY <2>2, <2>3, <3>1 DEF ReadsOwnCall
  <2>11. Faithful'
    <3>1. \A d \in DOMAIN drafts' :
            LET q == drafts'[d].from
            IN /\ q \in Behind \cup {p}
               /\ drafts'[d].output \in DOMAIN NamesAt(q)
               /\ drafts'[d].name = NamesAt(q)[drafts'[d].output]
               /\ drafts'[d].labels = Merged(q)
               /\ drafts'[d].decode = DecodeAt(q, drafts'[d].output)
      BY <2>5, <2>7 DEF PlannerInv, Faithful
    <3> QED BY <2>2, <3>1 DEF Faithful
  <2>12. Covered'
    <3>1. ASSUME NEW q \in Behind, NEW j \in DOMAIN NamesAt(q)
          PROVE  \E d \in DOMAIN drafts' : drafts'[d].from = q /\ drafts'[d].output = j
      BY <2>5 DEF PlannerInv, Covered
    <3>2. ASSUME NEW j \in DOMAIN NamesAt(p)
          PROVE  \E d \in DOMAIN drafts' : drafts'[d].from = p /\ drafts'[d].output = j
      BY <2>5, <2>6
    <3> QED BY <2>2, <3>1, <3>2 DEF Covered
  <2>13. Once'
    BY <2>5, <2>7, <2>8 DEF PlannerInv, Once
  <2>14. Ordered'
    <3>1. ASSUME NEW d \in DOMAIN drafts', NEW q \in todo' PROVE Before(drafts'[d].from, q)
      BY <1>2, <2>5, <2>7 DEF PlannerInv, Ordered
    <3>2. ASSUME NEW d \in DOMAIN drafts', NEW e \in DOMAIN drafts',
                 Before(drafts'[d].from, drafts'[e].from)
          PROVE  d < e
      <4>1. CASE e \in DOMAIN drafts /\ d \in DOMAIN drafts
        BY <2>5, <3>2, <4>1 DEF PlannerInv, Ordered
      <4>2. CASE e \notin DOMAIN drafts /\ d \in DOMAIN drafts
        <5>1. d \in 1..Len(drafts) /\ e \in Nat /\ e \notin 1..Len(drafts) /\ e >= 1
          BY <2>1, <2>5, <4>2
        <5> QED BY <2>1, <5>1
      <4>3. CASE e \in DOMAIN drafts /\ d \notin DOMAIN drafts
        <5>1. Before(p, drafts[e].from) /\ Before(drafts[e].from, p)
          BY <2>5, <2>7, <3>2, <4>3 DEF PlannerInv, Ordered
        <5>2. drafts[e].from \in Nat \X Nat \X Nat \X Nat /\ p \in Nat \X Nat \X Nat \X Nat
          BY <2>1, <2>8, <4>3 DEF Behind
        <5> QED BY <5>1, <5>2, BeforeIsStrict
      <4>4. CASE e \notin DOMAIN drafts /\ d \notin DOMAIN drafts
        <5>1. Before(p, p) /\ p \in Nat \X Nat \X Nat \X Nat
          BY <2>1, <2>7, <3>2, <4>4
        <5> QED BY <5>1, BeforeIsStrict
      <4> QED BY <4>1, <4>2, <4>3, <4>4
    <3>3. ASSUME NEW d \in DOMAIN drafts', NEW e \in DOMAIN drafts',
                 drafts'[d].from = drafts'[e].from, drafts'[d].output < drafts'[e].output
          PROVE  d < e
      <4>1. CASE e \in DOMAIN drafts /\ d \in DOMAIN drafts
        BY <2>5, <3>3, <4>1 DEF PlannerInv, Ordered
      <4>2. CASE e \notin DOMAIN drafts /\ d \notin DOMAIN drafts
        <5>1. /\ d = Len(drafts) + drafts'[d].output /\ e = Len(drafts) + drafts'[e].output
              /\ drafts'[d].output \in DOMAIN NamesAt(p) /\ drafts'[e].output \in DOMAIN NamesAt(p)
          BY <2>7, <4>2
        <5>2. PICK n \in Nat : DOMAIN NamesAt(p) = 1..n
          BY <2>1, NamesAreCounted
        <5>3. drafts'[d].output \in Nat /\ drafts'[e].output \in Nat
          BY <5>1, <5>2
        <5> QED BY <2>1, <3>3, <5>1, <5>3
      <4>3. (e \in DOMAIN drafts) <=> (d \in DOMAIN drafts)
        BY <2>5, <2>7, <2>8, <3>3
      <4> QED BY <4>1, <4>2, <4>3
    <3> QED BY <3>1, <3>2, <3>3 DEF Ordered
  <2> QED BY <2>9, <2>10, <2>11, <2>12, <2>13, <2>14 DEF PlannerInv
<1> QED BY <1>1, <1>2, DraftCallSucceeds

\* Every step keeps it: only an iteration drafts.
LEMMA NextPlannerInv == PlannerInv /\ [Next]_vars => PlannerInv'
<1> SUFFICES ASSUME PlannerInv, [Next]_vars PROVE PlannerInv'
  OBVIOUS
<1>1. CASE \E p \in todo : DraftCall(p)
  BY <1>1, DraftCallInv
<1>2. CASE \E n \in DOMAIN keysOf \ registered : Register(n)
  BY <1>2, NothingDrafted DEF Register, Bail
<1>3. CASE EmitEntries
  BY <1>3, NothingDrafted DEF EmitEntries, PlannerInv, Shape
<1>4. CASE RegisterSelf
  BY <1>4, NothingDrafted DEF RegisterSelf, Bail, PlannerInv, Shape
<1>5. CASE UNCHANGED vars
  BY <1>5, NothingDrafted DEF vars
<1> QED BY <1>1, <1>2, <1>3, <1>4, <1>5 DEF Next

\* After any number of iterations the drafts are exactly those of the iterations
\* behind, once each and in their order, each with its own call (planner.rs:142-224).
THEOREM PlannerInvariant == Spec => []PlannerInv
<1> QED BY InitPlannerInv, NextPlannerInv, PTL DEF Spec

-----------------------------------------------------------------------------
(***************************************************************************)
(* The tables by metric name: a second invariant on top of the first.      *)
(***************************************************************************)

\* The names that have a help text and keys are those of the iterations behind,
\* and the keys of a name cover the labels of each of them.
Keyed ==
    /\ DOMAIN helpOf = DOMAIN keysOf
    /\ DOMAIN keysOf = UNION {NameSet(p) : p \in Behind}
    /\ \A p \in Behind : \A n \in NameSet(p) : DOMAIN Merged(p) \subseteq keysOf[n]

\* The help text of a name is the only one that the iterations behind give it.
Helped ==
    /\ \A n \in DOMAIN helpOf : HelpsOf(n, Behind) = {helpOf[n]} \ {""}
    /\ error = "help" => \E n \in UNION {NameSet(p) : p \in Places(cfg)} :
                            \E a, b \in HelpsOf(n, Places(cfg)) : a # b

\* The gauges and entries are made once the tables are complete.
Emitted ==
    /\ error = "help" => phase = "failed"
    /\ phase \in {"drafting", "registering"} => entries = <<>>
    /\ phase = "built" => registered = DOMAIN keysOf
    /\ phase = "done" => DOMAIN keysOf \cap SelfNames = {}
    /\ phase \in {"built", "done"} => DOMAIN entries = DOMAIN drafts
    /\ \A e \in DOMAIN entries :
         /\ e \in DOMAIN drafts /\ entries[e].name = drafts[e].name
         /\ entries[e].call = drafts[e].call /\ entries[e].decode = drafts[e].decode
         /\ DOMAIN entries[e].values = keysOf[drafts[e].name] \cup {"address", "chain_id"}
         /\ \A k \in DOMAIN entries[e].values : entries[e].values[k] = ValueOf(drafts[e], k)

TableInv == Keyed /\ Helped /\ Emitted

\* The tables start empty, as the iterations behind are none.
LEMMA InitTableInv == Init => TableInv
<1> SUFFICES ASSUME Init PROVE TableInv
  OBVIOUS
<1>1. /\ DOMAIN helpOf = {} /\ DOMAIN keysOf = {} /\ DOMAIN entries = {} /\ Behind = {}
      /\ entries = <<>> /\ phase = "drafting" /\ error = "none"
  BY DEF Init, Behind
<1> QED BY <1>1 DEF TableInv, Keyed, Helped, Emitted

\* The helps of more iterations.
LEMMA HelpsGrow ==
    ASSUME NEW n, NEW P, NEW p
    PROVE  HelpsOf(n, P \cup {p}) =
             IF n \in NameSet(p) THEN HelpsOf(n, P) \cup ({MetricAt(p).help} \ {""}) ELSE HelpsOf(n, P)
BY DEF HelpsOf

\* An iteration that found no conflict gives its names the one help text.
LEMMA HelpIsKept ==
    ASSUME Helped, Keyed, NEW p, ~Conflict(p), NEW n \in NameSet(p)
    PROVE  HelpsOf(n, Behind \cup {p}) = {HelpFor(n, MetricAt(p).help)} \ {""}
<1>1. HelpsOf(n, Behind \cup {p}) = HelpsOf(n, Behind) \cup ({MetricAt(p).help} \ {""})
  BY HelpsGrow
<1>2. CASE n \in DOMAIN helpOf
  <2>1. HelpsOf(n, Behind) = {helpOf[n]} \ {""}
    BY <1>2 DEF Helped
  <2>2. MetricAt(p).help = "" \/ helpOf[n] = "" \/ helpOf[n] = MetricAt(p).help
    BY <1>2 DEF Conflict
  <2> QED BY <1>1, <1>2, <2>1, <2>2 DEF HelpFor
<1>3. CASE n \notin DOMAIN helpOf
  <2>1. \A q \in Behind : n \notin NameSet(q)
    BY <1>3 DEF Keyed
  <2>2. HelpsOf(n, Behind) = {}
    BY <2>1 DEF HelpsOf
  <2> QED BY <1>1, <1>3, <2>2 DEF HelpFor
<1> QED BY <1>2, <1>3

\* An iteration keeps the tables those of the iterations behind.
LEMMA DraftCallTables ==
    ASSUME PlannerInv, TableInv, NEW p \in todo, DraftCall(p)
    PROVE  TableInv'
<1>1. /\ cfg' = cfg /\ phase = "drafting" /\ p \in Places(cfg) /\ todo \subseteq Places(cfg)
      /\ entries' = entries /\ entries = <<>> /\ DOMAIN entries = {}
  <2>1. phase = "drafting"
    BY DEF DraftCall
  <2>2. cfg' = cfg /\ entries' = entries
    BY DraftCallSucceeds
  <2>3. entries = <<>>
    BY <2>1 DEF TableInv, Emitted
  <2>4. DOMAIN entries = {}
    BY <2>3
  <2> QED BY <2>1, <2>2, <2>3, <2>4 DEF PlannerInv, Shape
<1>2. /\ Places(cfg)' = Places(cfg)
      /\ \A q : NameSet(q)' = NameSet(q) /\ Merged(q)' = Merged(q) /\ MetricAt(q)' = MetricAt(q)
  BY <1>1, SamePlaces
<1>3. \A n, P : HelpsOf(n, P)' = HelpsOf(n, P)
  BY <1>2 DEF HelpsOf
<1>4. CASE /\ phase' = "failed" /\ error' \in {"address", "args", "help"}
           /\ error' = "help" => Conflict(p)
           /\ UNCHANGED <<todo, drafts, helpOf, keysOf, registered>>
  <2>1. Behind' = Behind
    BY <1>2, <1>4 DEF Behind
  <2>2. Keyed'
    BY <1>2, <1>4, <2>1 DEF TableInv, Keyed
  <2>3. ASSUME Conflict(p)
        PROVE  \E n \in UNION {NameSet(q) : q \in Places(cfg)} :
                  \E a, b \in HelpsOf(n, Places(cfg)) : a # b
    <3>1. PICK n \in NameSet(p) \cap DOMAIN helpOf : helpOf[n] \notin {"", MetricAt(p).help}
      BY <2>3 DEF Conflict
    <3>2. MetricAt(p).help # ""
      BY <2>3 DEF Conflict
    <3>3. helpOf[n] \in HelpsOf(n, Behind)
      BY <3>1 DEF TableInv, Helped
    <3>4. helpOf[n] \in HelpsOf(n, Places(cfg)) /\ MetricAt(p).help \in HelpsOf(n, Places(cfg))
      BY <1>1, <3>1, <3>2, <3>3 DEF HelpsOf, Behind
    <3>5. n \in UNION {NameSet(q) : q \in Places(cfg)}
      BY <1>1, <3>1
    <3> QED BY <3>1, <3>4, <3>5
  <2>4. Helped'
    BY <1>2, <1>3, <1>4, <2>1, <2>3 DEF TableInv, Helped
  <2>5. Emitted'
    BY <1>1, <1>4 DEF Emitted
  <2> QED BY <2>2, <2>4, <2>5 DEF TableInv
<1>5. CASE /\ todo' = todo \ {p} /\ ~Conflict(p)
           /\ helpOf' = [n \in DOMAIN helpOf \cup NameSet(p) |->
                IF n \in NameSet(p) THEN HelpFor(n, MetricAt(p).help) ELSE helpOf[n]]
           /\ keysOf' = [n \in DOMAIN keysOf \cup NameSet(p) |->
                IF n \in NameSet(p) THEN KeysFor(n, Merged(p)) ELSE keysOf[n]]
           /\ phase' = IF todo' = {} THEN "registering" ELSE "drafting"
           /\ error' = error
  <2>1. Behind' = Behind \cup {p}
    BY <1>1, <1>2, <1>5 DEF Behind
  <2>2. /\ DOMAIN helpOf' = DOMAIN helpOf \cup NameSet(p)
        /\ DOMAIN keysOf' = DOMAIN keysOf \cup NameSet(p)
    BY <1>5
  <2>3. Keyed'
    <3>1. DOMAIN keysOf' = UNION {NameSet(q) : q \in Behind \cup {p}}
      BY <2>2 DEF TableInv, Keyed
    <3>2. ASSUME NEW q \in Behind, NEW n \in NameSet(q)
          PROVE  DOMAIN Merged(q) \subseteq keysOf'[n]
      <4>1. n \in DOMAIN keysOf /\ DOMAIN Merged(q) \subseteq keysOf[n]
        BY DEF TableInv, Keyed
      <4> QED BY <1>5, <4>1 DEF KeysFor
    <3>3. ASSUME NEW n \in NameSet(p) PROVE DOMAIN Merged(p) \subseteq keysOf'[n]
      BY <1>5 DEF KeysFor
    <3> QED BY <1>2, <2>1, <2>2, <3>1, <3>2, <3>3 DEF TableInv, Keyed
  <2>4. Helped'
    <3>1. ASSUME NEW n \in DOMAIN helpOf'
          PROVE  HelpsOf(n, Behind \cup {p}) = {helpOf'[n]} \ {""}
      <4>1. CASE n \in NameSet(p)
        BY <1>5, <4>1, HelpIsKept DEF TableInv
      <4>2. CASE n \notin NameSet(p)
        <5>1. n \in DOMAIN helpOf /\ helpOf'[n] = helpOf[n]
          BY <1>5, <4>2
        <5>2. HelpsOf(n, Behind \cup {p}) = HelpsOf(n, Behind)
          BY <4>2, HelpsGrow
        <5>3. HelpsOf(n, Behind) = {helpOf[n]} \ {""}
          BY <5>1 DEF TableInv, Helped
        <5> QED BY <5>1, <5>2, <5>3
      <4> QED BY <4>1, <4>2
    <3>2. error' # "help"
      BY <1>1, <1>5 DEF TableInv, Emitted
    <3>3. \A n \in DOMAIN helpOf' : HelpsOf(n, Behind)' = HelpsOf(n, Behind \cup {p})
      BY <2>1, <1>2 DEF HelpsOf
    <3> QED BY <3>1, <3>2, <3>3 DEF Helped
  <2>5. Emitted'
    BY <1>1, <1>5 DEF TableInv, Emitted
  <2> QED BY <2>3, <2>4, <2>5 DEF TableInv
<1> QED BY <1>4, <1>5, DraftCallSucceeds

\* Steps that touch neither the tables nor what they were made from.
LEMMA TablesKept ==
    ASSUME TableInv, UNCHANGED <<cfg, todo, drafts, helpOf, keysOf>>,
           error' = "help" => error = "help", Emitted'
    PROVE  TableInv'
<1>1. /\ Places(cfg)' = Places(cfg) /\ Behind' = Behind
      /\ \A q : NameSet(q)' = NameSet(q) /\ Merged(q)' = Merged(q) /\ MetricAt(q)' = MetricAt(q)
  BY SamePlaces DEF Behind
<1>2. \A n, P : HelpsOf(n, P)' = HelpsOf(n, P)
  BY <1>1 DEF HelpsOf
<1>3. Keyed'
  BY <1>1 DEF TableInv, Keyed
<1>4. Helped'
  <2>1. \A n : /\ HelpsOf(n, Behind)' = HelpsOf(n, Behind)
               /\ HelpsOf(n, Places(cfg))' = HelpsOf(n, Places(cfg))
    BY <1>1 DEF HelpsOf
  <2>2. \A n \in DOMAIN helpOf' : HelpsOf(n, Behind)' = {helpOf'[n]} \ {""}
    BY <2>1 DEF TableInv, Helped
  <2>3. (UNION {NameSet(p) : p \in Places(cfg)})' = UNION {NameSet(p) : p \in Places(cfg)}
    BY <1>1
  <2>4. ASSUME error' = "help"
        PROVE  \E n \in (UNION {NameSet(p) : p \in Places(cfg)})' :
                  \E a, b \in HelpsOf(n, Places(cfg))' : a # b
    <3>1. PICK n \in UNION {NameSet(p) : p \in Places(cfg)} :
                  \E a, b \in HelpsOf(n, Places(cfg)) : a # b
      BY <2>4 DEF TableInv, Helped
    <3>2. n \in (UNION {NameSet(p) : p \in Places(cfg)})'
      BY <2>3, <3>1
    <3> QED BY <2>1, <3>1, <3>2
  <2> QED BY <2>2, <2>4 DEF Helped
<1> QED BY <1>3, <1>4 DEF TableInv

\* Registering a gauge touches no table.
LEMMA RegisterTables ==
    ASSUME TableInv, NEW n, Register(n)
    PROVE  TableInv'
<1>1. /\ phase = "registering" /\ UNCHANGED <<cfg, todo, drafts, helpOf, keysOf, entries>>
      /\ (phase' = "failed" /\ error' = "gauge") \/ (phase' = phase /\ error' = error)
  BY DEF Register, Bail
<1>2. entries = <<>> /\ error # "help" /\ DOMAIN entries = {}
  <2>1. entries = <<>> /\ error # "help"
    BY <1>1 DEF TableInv, Emitted
  <2> QED BY <2>1
<1>3. Emitted'
  BY <1>1, <1>2 DEF Emitted
<1> QED BY <1>1, <1>2, <1>3, TablesKept

\* The entries take their columns from the finished tables.
LEMMA EmitTables ==
    ASSUME TableInv, EmitEntries
    PROVE  TableInv'
<1>1. /\ phase = "registering" /\ registered = DOMAIN keysOf /\ phase' = "built"
      /\ UNCHANGED <<cfg, todo, drafts, helpOf, keysOf, registered, error>>
      /\ entries' = [e \in DOMAIN drafts |->
           [call |-> drafts[e].call, decode |-> drafts[e].decode, name |-> drafts[e].name,
            values |-> [k \in keysOf[drafts[e].name] \cup {"address", "chain_id"} |->
                          ValueOf(drafts[e], k)]]]
  BY DEF EmitEntries
<1>2. \A d, k : ValueOf(d, k)' = ValueOf(d, k)
  BY <1>1 DEF ValueOf
<1>3. error # "help"
  BY <1>1 DEF TableInv, Emitted
<1>4. DOMAIN entries' = DOMAIN drafts
  BY <1>1
<1>5. ASSUME NEW e \in DOMAIN entries'
      PROVE  /\ entries'[e].name = drafts[e].name
             /\ entries'[e].call = drafts[e].call /\ entries'[e].decode = drafts[e].decode
             /\ DOMAIN entries'[e].values = keysOf[drafts[e].name] \cup {"address", "chain_id"}
             /\ \A k \in DOMAIN entries'[e].values : entries'[e].values[k] = ValueOf(drafts[e], k)
  <2>1. /\ entries'[e].name = drafts[e].name
        /\ entries'[e].call = drafts[e].call /\ entries'[e].decode = drafts[e].decode
        /\ entries'[e].values = [k \in keysOf[drafts[e].name] \cup {"address", "chain_id"} |->
                                   ValueOf(drafts[e], k)]
    BY <1>1, <1>4
  <2> QED BY <2>1
<1>6. Emitted'
  <2>1. \A e \in DOMAIN entries' : \A k \in DOMAIN entries'[e].values :
            entries'[e].values[k] = ValueOf(drafts[e], k)'
    BY <1>1, <1>2, <1>5
  <2> QED BY <1>1, <1>3, <1>4, <1>5, <2>1 DEF Emitted
<1> QED BY <1>1, <1>6, TablesKept

\* The exporter's own metrics are registered only beside other names.
LEMMA RegisterSelfTables ==
    ASSUME TableInv, RegisterSelf
    PROVE  TableInv'
<1>1. /\ phase = "built" /\ UNCHANGED <<cfg, todo, drafts, helpOf, keysOf, entries>>
      /\ \/ phase' = "failed" /\ error' = "selfMetrics"
         \/ phase' = "done" /\ error' = error /\ registered \cap SelfNames = {}
  BY DEF RegisterSelf, Bail
<1>2. registered = DOMAIN keysOf /\ DOMAIN entries = DOMAIN drafts /\ error # "help"
  BY <1>1 DEF TableInv, Emitted
<1>3. \A d, k : ValueOf(d, k)' = ValueOf(d, k)
  BY <1>1 DEF ValueOf
<1>4. Emitted'
  <2>1. \A e \in DOMAIN entries' :
          /\ e \in DOMAIN drafts' /\ entries'[e].name = drafts'[e].name
          /\ entries'[e].call = drafts'[e].call /\ entries'[e].decode = drafts'[e].decode
          /\ DOMAIN entries'[e].values = keysOf'[drafts'[e].name] \cup {"address", "chain_id"}
          /\ \A k \in DOMAIN entries'[e].values : entries'[e].values[k] = ValueOf(drafts[e], k)'
    BY <1>1, <1>3 DEF TableInv, Emitted
  <2> QED BY <1>1, <1>2, <2>1 DEF Emitted
<1> QED BY <1>1, <1>2, <1>4, TablesKept

\* Every step keeps the tables, given what the loops keep.
LEMMA NextTableInv == PlannerInv /\ TableInv /\ [Next]_vars => TableInv'
<1> SUFFICES ASSUME PlannerInv, TableInv, [Next]_vars PROVE TableInv'
  OBVIOUS
<1>1. CASE UNCHANGED vars
  <2>1. \A d, k : ValueOf(d, k)' = ValueOf(d, k)
    BY <1>1 DEF ValueOf, vars
  <2>2. Emitted'
    <3>1. \A e \in DOMAIN entries' :
            /\ e \in DOMAIN drafts' /\ entries'[e].name = drafts'[e].name
            /\ entries'[e].call = drafts'[e].call /\ entries'[e].decode = drafts'[e].decode
            /\ DOMAIN entries'[e].values = keysOf'[drafts'[e].name] \cup {"address", "chain_id"}
            /\ \A k \in DOMAIN entries'[e].values : entries'[e].values[k] = ValueOf(drafts[e], k)'
      BY <1>1, <2>1 DEF TableInv, Emitted, vars
    <3> QED BY <1>1, <3>1 DEF TableInv, Emitted, vars
  <2> QED BY <1>1, <2>2, TablesKept DEF vars
<1> QED BY <1>1, DraftCallTables, RegisterTables, EmitTables, RegisterSelfTables DEF Next

\* The tables by name hold what all the iterations behind give to a name, and
\* nothing else, until the entries are made from them (planner.rs:224-300).
THEOREM TableInvariant == Spec => [](PlannerInv /\ TableInv)
<1>1. Init => PlannerInv /\ TableInv
  BY InitPlannerInv, InitTableInv
<1>2. PlannerInv /\ TableInv /\ [Next]_vars => (PlannerInv /\ TableInv)'
  BY NextPlannerInv, NextTableInv
<1> QED BY <1>1, <1>2, PTL DEF Spec

-----------------------------------------------------------------------------
(***************************************************************************)
(* What a plan promises                                                    *)
(***************************************************************************)

\* An entry reads the result of its own call, whoever added that call, and no
\* call is sent twice (planner.rs:183-194), in every plan being made.
THEOREM CallsAreOwn == Spec => []ReadsOwnCall
<1>1. PlannerInv => ReadsOwnCall
  BY DEF PlannerInv
<1> QED BY <1>1, PlannerInvariant, PTL

\* A finished plan has each selected output once, however many there are, in the
\* order of the loops and of the outputs, decoded from the function of its call.
THEOREM PlansAreComplete == Spec => []PlanComplete
<1>1. ASSUME PlannerInv, TableInv, phase = "done" PROVE PlanComplete
  <2>1. Behind = Places(cfg)
    BY <1>1 DEF PlannerInv, Shape, Behind
  <2>2. ASSUME NEW p \in Places(cfg), NEW j \in DOMAIN NamesAt(p)
        PROVE  Cardinality({e \in DOMAIN drafts : drafts[e].from = p /\ drafts[e].output = j}) = 1
    <3>1. PICK d \in DOMAIN drafts : drafts[d].from = p /\ drafts[d].output = j
      BY <1>1, <2>1 DEF PlannerInv, Covered
    <3>2. {e \in DOMAIN drafts : drafts[e].from = p /\ drafts[e].output = j} = {d}
      BY <1>1, <3>1 DEF PlannerInv, Once
    <3> QED BY <3>2, FS_Singleton
  <2>3. DOMAIN entries = DOMAIN drafts
    BY <1>1 DEF TableInv, Emitted
  <2>4. ASSUME NEW d \in DOMAIN drafts, NEW e \in DOMAIN drafts,
               \/ Before(drafts[d].from, drafts[e].from)
               \/ drafts[d].from = drafts[e].from /\ drafts[d].output < drafts[e].output
        PROVE  d < e
    BY <1>1, <2>4 DEF PlannerInv, Ordered
  <2>5. ASSUME NEW e \in DOMAIN entries
        PROVE  LET chosen == Selected(MetricAt(drafts[e].from))[drafts[e].output]
               IN /\ entries[e].decode.output = chosen.index
                  /\ entries[e].decode.field = chosen.field
                  /\ entries[e].decode.function = calls[entries[e].call].data[1]
    <3>1. /\ e \in DOMAIN drafts /\ entries[e].call = drafts[e].call
          /\ entries[e].decode = drafts[e].decode
      BY <1>1 DEF TableInv, Emitted
    <3>2. drafts[e].decode = DecodeAt(drafts[e].from, drafts[e].output)
      BY <1>1, <3>1 DEF PlannerInv, Faithful
    <3>3. calls[drafts[e].call] = CallOf(drafts[e].from)
      BY <1>1, <3>1 DEF PlannerInv, ReadsOwnCall
    <3> QED BY <3>1, <3>2, <3>3 DEF DecodeAt, CallOf
  <2> QED BY <2>2, <2>3, <2>4, <2>5 DEF PlanComplete
<1>2. PlannerInv /\ TableInv => PlanComplete
  BY <1>1 DEF PlanComplete
<1> QED BY <1>2, TableInvariant, PTL

\* A level adds its keys to those it overrides.
LEMMA OverrideKeys ==
    ASSUME NEW f, NEW g
    PROVE  DOMAIN Override(f, g) = DOMAIN f \cup DOMAIN g
BY DEF Override

\* A key of the overriding level has its value there, another the one it had.
LEMMA OverrideValues ==
    ASSUME NEW f, NEW g, NEW k
    PROVE  /\ k \in DOMAIN g => Override(f, g)[k] = g[k]
           /\ k \in DOMAIN f /\ k \notin DOMAIN g => Override(f, g)[k] = f[k]
BY DEF Override

\* What an iteration merges is what the most specific level says.
LEMMA MergedIsMostSpecific ==
    ASSUME NEW p, NEW k
    PROVE  LET defining == {l \in 1..4 : k \in DOMAIN Levels(p)[l]}
           IN /\ k \in DOMAIN Merged(p) <=> defining # {}
              /\ defining # {} =>
                   Merged(p)[k] = Levels(p)[CHOOSE l \in defining : \A h \in defining : l <= h][k]
<1> DEFINE L1 == SubcallAt(p).labels
           L2 == InstanceAt(p).labels
           L3 == ContractAt(p).labels
           L4 == cfg.labels
           M3 == Override(L4, L3)
           M2 == Override(M3, L2)
           defining == {l \in 1..4 : k \in DOMAIN Levels(p)[l]}
           first == CHOOSE l \in defining : \A h \in defining : l <= h
<1>1. Levels(p)[1] = L1 /\ Levels(p)[2] = L2 /\ Levels(p)[3] = L3 /\ Levels(p)[4] = L4
  BY DEF Levels
<1>2. Merged(p) = Override(M2, L1) /\ M2 = Override(M3, L2) /\ M3 = Override(L4, L3)
  BY DEF Merged
<1> HIDE DEF L1, L2, L3, L4, M2, M3
<1>3. /\ DOMAIN M3 = DOMAIN L4 \cup DOMAIN L3
      /\ DOMAIN M2 = DOMAIN M3 \cup DOMAIN L2
      /\ DOMAIN Merged(p) = DOMAIN M2 \cup DOMAIN L1
  BY <1>2, OverrideKeys
<1>4. /\ k \in DOMAIN L1 => Merged(p)[k] = L1[k]
      /\ k \in DOMAIN M2 /\ k \notin DOMAIN L1 => Merged(p)[k] = M2[k]
      /\ k \in DOMAIN L2 => M2[k] = L2[k]
      /\ k \in DOMAIN M3 /\ k \notin DOMAIN L2 => M2[k] = M3[k]
      /\ k \in DOMAIN L3 => M3[k] = L3[k]
      /\ k \in DOMAIN L4 /\ k \notin DOMAIN L3 => M3[k] = L4[k]
  BY <1>2, OverrideValues
<1>5. /\ 1 \in defining <=> k \in DOMAIN L1
      /\ 2 \in defining <=> k \in DOMAIN L2
      /\ 3 \in defining <=> k \in DOMAIN L3
      /\ 4 \in defining <=> k \in DOMAIN L4
      /\ \A l \in defining : l \in 1..4
  BY <1>1
<1>6. ASSUME NEW l \in defining, \A h \in defining : l <= h PROVE first = l
  <2>1. first \in defining /\ \A h \in defining : first <= h
    BY <1>6
  <2> HIDE DEF first, defining
  <2>2. first <= l /\ l <= first /\ first \in 1..4 /\ l \in 1..4
    BY <1>5, <1>6, <2>1
  <2> QED BY <2>2
<1> HIDE DEF first, defining
<1>7. k \in DOMAIN Merged(p) <=> defining # {}
  <2>1. defining # {} <=> 1 \in defining \/ 2 \in defining \/ 3 \in defining \/ 4 \in defining
    BY <1>5
  <2> QED BY <1>3, <1>5, <2>1
<1>8. ASSUME defining # {} PROVE Merged(p)[k] = Levels(p)[first][k]
  <2>1. CASE 1 \in defining
    <3>1. first = 1
      BY <1>5, <1>6, <2>1
    <3> QED BY <1>1, <1>4, <1>5, <2>1, <3>1
  <2>2. CASE 1 \notin defining /\ 2 \in defining
    <3>1. first = 2
      BY <1>5, <1>6, <2>2
    <3> QED BY <1>1, <1>3, <1>4, <1>5, <2>2, <3>1
  <2>3. CASE 1 \notin defining /\ 2 \notin defining /\ 3 \in defining
    <3>1. first = 3
      BY <1>5, <1>6, <2>3
    <3> QED BY <1>1, <1>3, <1>4, <1>5, <2>3, <3>1
  <2>4. CASE 1 \notin defining /\ 2 \notin defining /\ 3 \notin defining /\ 4 \in defining
    <3>1. first = 4
      BY <1>5, <1>6, <2>4
    <3> QED BY <1>1, <1>3, <1>4, <1>5, <2>4, <3>1
  <2> QED BY <1>5, <1>8, <2>1, <2>2, <2>3, <2>4
<1> QED BY <1>7, <1>8 DEF defining, first

\* README.md:98: whatever else shares the gauge of an entry, each of its columns
\* shows the value of the most specific level that defines it.
THEOREM SpecificLevelsWin == Spec => []MostSpecificWins
<1>1. ASSUME PlannerInv, TableInv PROVE MostSpecificWins
  <2> SUFFICES ASSUME NEW e \in DOMAIN entries,
                      NEW k \in DOMAIN entries[e].values \ {"address", "chain_id"}
               PROVE  LET p == drafts[e].from
                          defining == {l \in 1..4 : k \in DOMAIN Levels(p)[l]}
                      IN entries[e].values[k] =
                           IF defining = {} THEN ""
                           ELSE Levels(p)[CHOOSE l \in defining : \A h \in defining : l <= h][k]
    BY DEF MostSpecificWins
  <2>1. e \in DOMAIN drafts /\ entries[e].values[k] = ValueOf(drafts[e], k)
    BY <1>1 DEF TableInv, Emitted
  <2>2. drafts[e].labels = Merged(drafts[e].from)
    BY <1>1, <2>1 DEF PlannerInv, Faithful
  <2>3. entries[e].values[k] =
          IF k \in DOMAIN Merged(drafts[e].from) THEN Merged(drafts[e].from)[k] ELSE ""
    BY <2>1, <2>2 DEF ValueOf
  <2> QED BY <2>3, MergedIsMostSpecific
<1> QED BY <1>1, TableInvariant, PTL

\* Entries of one name have one set of columns, which holds the labels of each
\* of them, and none bears the name of one of the exporter's own metrics.
THEOREM SchemasAreUniform == Spec => []UniformSchema
<1>1. ASSUME PlannerInv, TableInv PROVE UniformSchema
  <2>1. ASSUME NEW e \in DOMAIN entries
        PROVE  /\ e \in DOMAIN drafts /\ entries[e].name = drafts[e].name
               /\ DOMAIN entries[e].values = keysOf[drafts[e].name] \cup {"address", "chain_id"}
    BY <1>1 DEF TableInv, Emitted
  <2>2. ASSUME NEW d \in DOMAIN drafts
        PROVE  /\ drafts[d].name \in DOMAIN keysOf
               /\ DOMAIN drafts[d].labels \subseteq keysOf[drafts[d].name]
    <3>1. /\ drafts[d].from \in Behind /\ drafts[d].labels = Merged(drafts[d].from)
          /\ drafts[d].name \in NameSet(drafts[d].from)
      BY <1>1 DEF PlannerInv, Faithful, NameSet
    <3> QED BY <1>1, <3>1 DEF TableInv, Keyed
  <2>3. ASSUME NEW d \in DOMAIN entries, NEW e \in DOMAIN entries,
               entries[d].name = entries[e].name
        PROVE  /\ DOMAIN entries[d].values = DOMAIN entries[e].values
               /\ DOMAIN drafts[d].labels \subseteq DOMAIN entries[e].values
    BY <2>1, <2>2, <2>3
  <2>4. ASSUME phase = "done", NEW e \in DOMAIN entries PROVE entries[e].name \notin SelfNames
    <3>1. DOMAIN keysOf \cap SelfNames = {}
      BY <1>1, <2>4 DEF TableInv, Emitted
    <3> QED BY <2>1, <2>2, <3>1
  <2> QED BY <2>3, <2>4 DEF UniformSchema
<1> QED BY <1>1, TableInvariant, PTL

\* The help texts of a name are finitely many.
LEMMA HelpsAreFinite ==
    ASSUME cfg \in Configs, NEW n
    PROVE  IsFiniteSet(HelpsOf(n, Places(cfg)))
<1> DEFINE Q == {q \in Places(cfg) : n \in NameSet(q)}
           H == {MetricAt(p).help : p \in Q}
<1>1. IsFiniteSet(Q)
  BY InputAssumption, FS_Subset
<1>2. [p \in Q |-> MetricAt(p).help] \in Surjection(Q, H)
  BY DEF Surjection
<1>3. IsFiniteSet(H)
  <2> HIDE DEF Q, H
  <2> QED BY <1>1, <1>2, FS_Surjection
<1> QED BY <1>3, FS_Subset DEF HelpsOf

\* Two elements are counted as two.
LEMMA TwoElements ==
    ASSUME NEW a, NEW b, a # b
    PROVE  Cardinality({a, b}) = 2
<1>1. IsFiniteSet({b}) /\ Cardinality({b}) = 1
  BY FS_Singleton
<1>2. Cardinality({b} \cup {a}) = IF a \in {b} THEN Cardinality({b}) ELSE Cardinality({b}) + 1
  BY <1>1, FS_AddElement
<1>3. Cardinality({b} \cup {a}) = 2
  BY <1>1, <1>2
<1>4. {a, b} = {b} \cup {a}
  OBVIOUS
<1> QED BY <1>3, <1>4

\* A start fails on the help texts exactly when two non-empty ones of a name
\* differ, in whatever order they are met (planner.rs:243).
THEOREM HelpConflictsAreFound == Spec => []HelpConflictsFound
<1>1. ASSUME PlannerInv, TableInv PROVE HelpConflictsFound
  <2> DEFINE names == UNION {NameSet(p) : p \in Places(cfg)}
  <2>1. cfg \in Configs
    BY <1>1 DEF PlannerInv, Shape
  <2>2. ASSUME error = "help"
        PROVE  \E n \in names : Cardinality(HelpsOf(n, Places(cfg))) > 1
    <3>1. PICK n \in names : \E a, b \in HelpsOf(n, Places(cfg)) : a # b
      BY <1>1, <2>2 DEF TableInv, Helped
    <3>2. PICK a, b \in HelpsOf(n, Places(cfg)) : a # b
      BY <3>1
    <3>3. IsFiniteSet(HelpsOf(n, Places(cfg)))
      BY <2>1, HelpsAreFinite
    <3>4. Cardinality({a, b}) = 2
      BY <3>2, TwoElements
    <3>5. Cardinality({a, b}) <= Cardinality(HelpsOf(n, Places(cfg)))
      BY <3>2, <3>3, FS_Subset
    <3>6. Cardinality(HelpsOf(n, Places(cfg))) \in Nat
      BY <3>3, FS_CardinalityType
    <3> QED BY <3>4, <3>5, <3>6
  <2>3. ASSUME phase = "done", NEW n \in names
        PROVE  /\ Cardinality(HelpsOf(n, Places(cfg))) <= 1
               /\ helpOf[n] = "" <=> HelpsOf(n, Places(cfg)) = {}
    <3>1. Behind = Places(cfg)
      BY <1>1, <2>3 DEF PlannerInv, Shape, Behind
    <3>2. n \in DOMAIN helpOf
      BY <1>1, <3>1 DEF TableInv, Keyed
    <3>3. HelpsOf(n, Places(cfg)) = {helpOf[n]} \ {""}
      BY <1>1, <3>1, <3>2 DEF TableInv, Helped
    <3>4. helpOf[n] = "" <=> HelpsOf(n, Places(cfg)) = {}
      BY <3>3
    <3>5. Cardinality(HelpsOf(n, Places(cfg))) \in {0, 1}
      <4>1. HelpsOf(n, Places(cfg)) = {} \/ HelpsOf(n, Places(cfg)) = {helpOf[n]}
        BY <3>3
      <4> QED BY <4>1, FS_EmptySet, FS_Singleton
    <3>6. Cardinality(HelpsOf(n, Places(cfg))) <= 1
      BY <3>5
    <3> QED BY <3>4, <3>6
  <2> QED BY <2>2, <2>3 DEF HelpConflictsFound
<1> QED BY <1>1, TableInvariant, PTL
==============================================================================
