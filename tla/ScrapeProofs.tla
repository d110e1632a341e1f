---------------------------- MODULE ScrapeProofs ----------------------------
(***************************************************************************)
(* Theorems about Scrape, for every plan, batch size, set of blocks and    *)
(* number of scrapes.                                                      *)
(***************************************************************************)
EXTENDS Scrape, FiniteSetTheorems, SequenceTheorems, TLAPS

-----------------------------------------------------------------------------
\* Arithmetic of chunks

\* Multiplication by a natural number is monotone.
LEMMA MultMonotone ==
    ASSUME NEW a \in Nat, NEW b \in Nat, NEW c \in Nat, a <= b
    PROVE  a * c <= b * c
OBVIOUS

\* Between two multiples of c, the upper factor is the quotient rounded up.
LEMMA CeilingIsUnique ==
    ASSUME NEW n \in Nat, NEW c \in Nat \ {0}, NEW k \in Nat,
           k * c < n, n <= (k + 1) * c
    PROVE  k + 1 = n \div c + IF n % c > 0 THEN 1 ELSE 0
<1> DEFINE q == n \div c
           r == n % c
<1>1. q \in Nat /\ r \in Nat /\ r < c /\ n = q * c + r
  OBVIOUS
<1> HIDE DEF q, r
<1>2. q <= k + 1
  <2>1. SUFFICES ASSUME q >= k + 2 PROVE FALSE
    BY <1>1
  <2>2. (k + 2) * c <= q * c
    BY <1>1, <2>1, MultMonotone
  <2>3. (k + 2) * c = (k + 1) * c + c
    OBVIOUS
  <2> QED BY <1>1, <2>2, <2>3
<1>3. q >= k
  <2>1. SUFFICES ASSUME q + 1 <= k PROVE FALSE
    BY <1>1
  <2>2. (q + 1) * c <= k * c
    BY <1>1, <2>1, MultMonotone
  <2>3. (q + 1) * c = q * c + c
    BY <1>1
  <2> QED BY <1>1, <2>2, <2>3
<1>4. CASE q = k
  <2>1. r > 0
    BY <1>1, <1>4
  <2> QED BY <1>1, <1>4, <2>1 DEF q, r
<1>5. CASE q = k + 1
  <2>1. r = 0
    BY <1>1, <1>5
  <2> QED BY <1>1, <1>5, <2>1 DEF q, r
<1> QED BY <1>1, <1>2, <1>3, <1>4, <1>5
-----------------------------------------------------------------------------
\* The planned batch and the driver's chunk differ only above NumCalls.
LEMMA ChunkSizeType ==
    /\ ChunkSize \in Nat /\ ChunkSize <= NumCalls
    /\ NumCalls > 0 => ChunkSize > 0
BY CountAssumption DEF ChunkSize

\* The chunk count is a natural number.
LEMMA PlannedChunksType == PlannedChunks \in Nat
BY CountAssumption DEF PlannedChunks, PlannedBatch

\* The loop over chunk_ranges makes as many chunks as the planner counts.
LEMMA LastChunkIsPlanned ==
    ASSUME NEW k \in Nat, k * ChunkSize < NumCalls, NumCalls <= k * ChunkSize + ChunkSize
    PROVE  k + 1 = PlannedChunks
<1>1. NumCalls \in Nat \ {0} /\ ChunkSize \in Nat \ {0} /\ PlannedBatch \in Nat \ {0}
  BY CountAssumption, ChunkSizeType DEF PlannedBatch
<1>2. k + 1 = NumCalls \div ChunkSize + IF NumCalls % ChunkSize > 0 THEN 1 ELSE 0
  <2>1. k * ChunkSize + ChunkSize = (k + 1) * ChunkSize
    BY <1>1
  <2> QED BY <1>1, <2>1, CeilingIsUnique
<1>3. CASE PlannedBatch = ChunkSize
  BY <1>1, <1>2, <1>3 DEF PlannedChunks
<1>4. CASE PlannedBatch # ChunkSize
  <2>1. MaxBatch > NumCalls /\ ChunkSize = NumCalls /\ PlannedBatch = MaxBatch
    BY <1>1, <1>4, CountAssumption DEF PlannedBatch, ChunkSize
  <2>2. k = 0
    <3>1. SUFFICES ASSUME k >= 1 PROVE FALSE
      OBVIOUS
    <3>2. 1 * ChunkSize <= k * ChunkSize
      BY <1>1, <3>1, MultMonotone
    <3> QED BY <1>1, <2>1, <3>2
  <2>3. NumCalls \div MaxBatch = 0 /\ NumCalls % MaxBatch = NumCalls
    BY <1>1, <2>1, CountAssumption
  <2> QED BY <1>1, <2>1, <2>2, <2>3 DEF PlannedChunks
<1> QED BY <1>3, <1>4

-----------------------------------------------------------------------------
\* Type correctness needs the progress of the chunks: a result is read by its
\* call's number, and that is in range only once all chunks were accepted.

Chunking ==
    /\ phase = "resolving" => results = <<>> /\ start = 0 /\ issued = 0
    /\ phase = "calling" \/ Gathered => pinned \in Blocks
    /\ phase = "calling" => /\ start = Len(results) /\ start < NumCalls
                            /\ start = issued * ChunkSize
    /\ Gathered => issued = PlannedChunks /\ Len(results) = NumCalls

IInv == TypeOK /\ ResultsAligned /\ Chunking

\* The program starts with no results and no chunk under way.
LEMMA InitIInv == Init => IInv
<1> SUFFICES ASSUME Init PROVE IInv
  OBVIOUS
<1> USE DEF Init
<1>1. TypeOK
  BY PlanAssumption, CountAssumption, ChainAssumption
     DEF TypeOK, Phases, Unset, Sample, Reasons
<1>2. ResultsAligned
  BY DEF ResultsAligned
<1>3. Chunking
  BY DEF Chunking, Gathered
<1> QED BY <1>1, <1>2, <1>3 DEF IInv

\* An early return keeps the invariant, wherever it happens.
LEMMA GiveUpIInv ==
    ASSUME IInv, NEW reason \in Reasons,
           GiveUp(reason)
    PROVE  IInv'
<1> USE DEF IInv, GiveUp, CountFailure, cycleVars, seriesVars, lossVars, statusVars
<1>1. TypeOK'
  BY DEF TypeOK, Phases
<1>2. ResultsAligned'
  BY DEF ResultsAligned
<1>3. Chunking'
  BY DEF Chunking, Gathered
<1> QED BY <1>1, <1>2, <1>3

\* An accepted chunk continues the results where they stopped.
LEMMA AcceptChunkIInv ==
    ASSUME IInv,
           NEW n \in 0..ChunkSize + 1, NEW fork \in Forks,
           NEW statuses \in [1..n -> Statuses], AcceptChunk(n, statuses, fork)
    PROVE  IInv'
<1> DEFINE answers == [j \in 1..n |-> [call |-> start + j, status |-> statuses[j],
                                       block |-> pinned, fork |-> fork]]
<1>1. /\ phase = "calling" /\ pinned \in Blocks
      /\ start = Len(results) /\ start < NumCalls /\ start = issued * ChunkSize
      /\ start \in Nat /\ issued \in Nat /\ NumCalls \in Nat /\ results \in Seq(Result)
  BY CountAssumption DEF AcceptChunk, IInv, TypeOK, Chunking
<1>2. ChunkSize \in Nat \ {0} /\ PlannedChunks \in Nat
  BY <1>1, ChunkSizeType, PlannedChunksType
<1>3. n \in Nat /\ start + n = ChunkEnd /\ ChunkEnd \in Nat
  BY <1>1, <1>2 DEF AcceptChunk, ReplyFits, ChunkEnd
<1>4. answers \in Seq(Result) /\ Len(answers) = n
  <2>1. \A j \in 1..n : answers[j] \in Result
    BY <1>1, <1>3 DEF Result
  <2>2. answers \in [1..n -> Result]
    BY <2>1
  <2> QED BY <1>3, <2>2
<1>5. results' = results \o answers
  BY DEF AcceptChunk, AskedBlock
<1> HIDE DEF answers
<1>6. results' \in Seq(Result) /\ Len(results') = start + n
  <2>1. /\ results \o answers \in Seq(Result)
        /\ Len(results \o answers) = Len(results) + Len(answers)
    BY <1>1, <1>4, ConcatProperties
  <2> QED BY <1>1, <1>4, <1>5, <2>1
<1>7. TypeOK'
  BY <1>1, <1>2, <1>6
     DEF IInv, TypeOK, AcceptChunk, Phases, seriesVars, lossVars, statusVars
<1>8. ResultsAligned'
  <2>1. SUFFICES ASSUME NEW i \in 1..Len(results')
                 PROVE  results'[i].call = i /\ results'[i].block = pinned'
    BY DEF ResultsAligned
  <2>2. pinned' = pinned
    BY DEF AcceptChunk
  <2>3. CASE i <= Len(results)
    <3>1. results'[i] = results[i]
      BY <1>1, <1>4, <1>5, <1>6, <2>3
    <3> QED BY <1>1, <2>2, <2>3, <3>1 DEF IInv, ResultsAligned
  <2>4. CASE i > Len(results)
    <3>1. i - start \in 1..n /\ results'[i] = answers[i - start]
      BY <1>1, <1>3, <1>4, <1>5, <1>6, <2>4
    <3> QED BY <1>1, <2>2, <3>1 DEF answers
  <2> QED BY <1>1, <1>6, <2>3, <2>4
<1>9. Chunking'
  <2>1. /\ start' = start + ChunkSize /\ issued' = issued + 1 /\ pinned' = pinned
        /\ phase' = IF start' < NumCalls THEN "calling" ELSE "returned"
    BY DEF AcceptChunk
  <2>2. CASE start' < NumCalls
    <3>1. Len(results') = start'
      BY <1>1, <1>2, <1>3, <1>6, <2>1, <2>2 DEF ChunkEnd
    <3>2. start' = issued' * ChunkSize
      BY <1>1, <1>2, <2>1
    <3> QED BY <1>1, <2>1, <2>2, <3>1, <3>2 DEF Chunking, Gathered, ChunkSize
  <2>3. CASE ~(start' < NumCalls)
    <3>1. Len(results') = NumCalls
      BY <1>1, <1>2, <1>3, <1>6, <2>1, <2>3 DEF ChunkEnd
    <3>2. issued' = PlannedChunks
      BY <1>1, <1>2, <2>1, <2>3, LastChunkIsPlanned
    <3> QED BY <1>1, <2>1, <2>3, <3>1, <3>2
            DEF Chunking, Gathered, PlannedChunks, PlannedBatch
  <2> QED BY <2>2, <2>3
<1> QED BY <1>7, <1>8, <1>9 DEF IInv

\* The answer that an entry reads, once all results are there.
LEMMA EntryReads ==
    ASSUME IInv, AtEntry
    PROVE  /\ nextEntry \in 1..Len(Plan) /\ Plan[nextEntry] \in Entry
           /\ Len(results) = NumCalls /\ Plan[nextEntry].call \in 1..Len(results)
           /\ ResultOf(nextEntry) \in Result
           /\ ResultOf(nextEntry).call = Plan[nextEntry].call
           /\ ResultOf(nextEntry).block = pinned
<1>1. /\ nextEntry \in 1..Len(Plan) /\ Plan[nextEntry] \in Entry
      /\ Len(results) = NumCalls /\ results \in Seq(Result)
  BY PlanAssumption DEF AtEntry, IInv, TypeOK, Chunking, Gathered
<1>2. Plan[nextEntry].call \in 1..Len(results)
  BY <1>1, CountAssumption DEF Entry, Calls
<1> QED BY <1>1, <1>2 DEF ResultOf, IInv, ResultsAligned

\* Publishing an entry touches neither the chunks nor the results.
LEMMA EntryIInv == IInv /\ PublishEntry => IInv'
<1> SUFFICES ASSUME IInv, PublishEntry
             PROVE  IInv'
  OBVIOUS
<1> USE DEF stepVars, cycleVars, lossVars, statusVars
<1>1. phase = "publishing" /\ UNCHANGED <<phase, attempt, pinned, start, issued, results>>
  BY DEF PublishEntry, CountCallError, CreateSeries, SetGauge, WarnPrecision, AtEntry
<1>2. TypeOK'
  <2>1. CASE CountCallError
    <3>1. callErrors' \in [ErrKeys -> Nat]
      <4>1. Plan[nextEntry].errKey \in ErrKeys /\ callErrors \in [ErrKeys -> Nat]
        BY <2>1, EntryReads DEF CountCallError, IInv, TypeOK, Entry
      <4> QED BY <2>1, <4>1 DEF CountCallError
    <3>2. nextEntry \in 1..Len(Plan)
      BY <2>1, EntryReads DEF CountCallError
    <3> QED BY <2>1, <3>1, <3>2, PlanAssumption DEF CountCallError, IInv, TypeOK
  <2>2. CASE CreateSeries
    <3>1. Plan[nextEntry].series \in Series
      BY <2>2, EntryReads DEF CreateSeries, Entry
    <3> QED BY <2>2, <3>1 DEF CreateSeries, IInv, TypeOK
  <2>3. CASE SetGauge
    <3>1. /\ nextEntry \in 1..Len(Plan) /\ Plan[nextEntry] \in Entry
          /\ ResultOf(nextEntry) \in Result
          /\ ResultOf(nextEntry).call \in 0..NumCalls /\ attempt \in Nat
      BY <2>3, EntryReads, CountAssumption DEF SetGauge, IInv, TypeOK
    <3>2. PICK lossy \in BOOLEAN :
            /\ gauge' = [gauge EXCEPT ![Plan[nextEntry].series] = SampleOf(nextEntry, lossy)]
            /\ warnFor' = IF lossy THEN nextEntry ELSE 0
      BY <2>3 DEF SetGauge, Roundings
    <3>3. SampleOf(nextEntry, lossy) \in Sample
      BY <3>1 DEF SampleOf, Sample, Result
    <3>4. gauge' \in [Series -> Sample]
      BY <3>2, <3>3 DEF IInv, TypeOK
    <3>5. warnFor' \in 0..Len(Plan)
      BY <3>1, <3>2
    <3> QED BY <2>3, <3>1, <3>4, <3>5 DEF SetGauge, IInv, TypeOK
  <2>4. CASE WarnPrecision
    <3>1. warnFor \in 1..Len(Plan)
      BY <2>4, PlanAssumption DEF WarnPrecision, IInv, TypeOK
    <3>2. Plan[warnFor].lossKey \in LossKeys
      <4>1. Plan[warnFor] \in Entry
        BY <3>1, PlanAssumption
      <4> QED BY <4>1 DEF Entry
    <3>3. lossSeen' \subseteq LossKeys /\ warnings' \in [LossKeys -> Nat]
      BY <2>4, <3>2 DEF WarnPrecision, WarnOnce, IInv, TypeOK
    <3> QED BY <2>4, <3>3, PlanAssumption DEF WarnPrecision, IInv, TypeOK
  <2> QED BY <2>1, <2>2, <2>3, <2>4 DEF PublishEntry
<1>3. ResultsAligned' /\ Chunking'
  BY <1>1 DEF IInv, ResultsAligned, Chunking, Gathered
<1> QED BY <1>2, <1>3 DEF IInv

\* Every step keeps the results aligned with the calls sent so far.
LEMMA NextIInv == IInv /\ [Next]_vars => IInv'
<1> SUFFICES ASSUME IInv, [Next]_vars
             PROVE  IInv'
  OBVIOUS
<1> USE DEF cycleVars, seriesVars, lossVars, statusVars
<1>1. CASE StartScrape
  <2>1. TypeOK'
    BY <1>1, PlanAssumption DEF StartScrape, IInv, TypeOK, Phases
  <2>2. ResultsAligned' /\ Chunking'
    BY <1>1 DEF StartScrape, ResultsAligned, Chunking, Gathered
  <2> QED BY <2>1, <2>2 DEF IInv
<1>2. ASSUME NEW b \in Blocks, ResolveBlock(b)
      PROVE  IInv'
  <2>1. TypeOK'
    BY <1>2 DEF ResolveBlock, IInv, TypeOK, Phases
  <2>2. ResultsAligned'
    BY <1>2 DEF ResolveBlock, IInv, Chunking, ResultsAligned
  <2>3. Chunking'
    BY <1>2, CountAssumption, ChunkSizeType
       DEF ResolveBlock, IInv, TypeOK, Chunking, Gathered, PlannedChunks
  <2> QED BY <2>1, <2>2, <2>3 DEF IInv
<1>3. CASE ResolveFails
  BY <1>3, GiveUpIInv DEF ResolveFails, Reasons
<1>4. CASE ReplyChunk
  BY <1>4, AcceptChunkIInv DEF ReplyChunk
<1>5. CASE ChunkFails
  BY <1>5, GiveUpIInv DEF ChunkFails, Reasons, IInv, TypeOK
<1>6. CASE CheckResults
  <2>1. AllAnswered
    BY <1>6 DEF CheckResults, AllAnswered, IInv, Chunking, Gathered
  <2>2. TypeOK'
    BY <1>6, <2>1 DEF CheckResults, IInv, TypeOK, Phases
  <2>3. ResultsAligned' /\ Chunking'
    BY <1>6, <2>1 DEF CheckResults, IInv, ResultsAligned, Chunking, Gathered
  <2> QED BY <2>2, <2>3 DEF IInv
<1>7. CASE Timeout
  <2>1. TypeOK'
    BY <1>7 DEF Timeout, CountFailure, IInv, TypeOK, Phases, Reasons
  <2>2. ResultsAligned' /\ Chunking'
    BY <1>7 DEF Timeout, IInv, ResultsAligned, Chunking, Gathered
  <2> QED BY <2>1, <2>2 DEF IInv
<1>8. CASE PublishEntry
  BY <1>8, EntryIInv
<1>9. CASE StampTime
  <2>1. TypeOK'
    BY <1>9 DEF StampTime, AfterEntries, IInv, TypeOK, Phases
  <2>2. ResultsAligned' /\ Chunking'
    BY <1>9 DEF StampTime, AfterEntries, IInv, ResultsAligned, Chunking, Gathered
  <2> QED BY <2>1, <2>2 DEF IInv
<1>10. CASE StampBlock
  <2>1. TypeOK'
    BY <1>10 DEF StampBlock, IInv, TypeOK, Phases
  <2>2. ResultsAligned' /\ Chunking'
    BY <1>10 DEF StampBlock, IInv, ResultsAligned, Chunking, Gathered
  <2> QED BY <2>1, <2>2 DEF IInv
<1>11. CASE StampPlan
  <2>1. TypeOK'
    BY <1>11, CountAssumption, PlannedChunksType DEF StampPlan, IInv, TypeOK, Phases
  <2>2. ResultsAligned' /\ Chunking'
    BY <1>11 DEF StampPlan, IInv, ResultsAligned, Chunking, Gathered
  <2> QED BY <2>1, <2>2 DEF IInv
<1>12. CASE StampDuration
  <2>1. TypeOK'
    BY <1>12 DEF StampDuration, IInv, TypeOK, Phases
  <2>2. ResultsAligned' /\ Chunking'
    BY <1>12 DEF StampDuration, IInv, ResultsAligned, Chunking, Gathered
  <2> QED BY <2>1, <2>2 DEF IInv
<1>13. CASE UNCHANGED vars
  BY <1>13 DEF vars, IInv, TypeOK, ResultsAligned, Chunking, Gathered
<1> QED BY <1>1, <1>2, <1>3, <1>4, <1>5, <1>6, <1>7, <1>8, <1>9, <1>10, <1>11,
           <1>12, <1>13 DEF Next, Resolve, Publish

\* The invariant the other theorems about Scrape start from.
THEOREM Inductive == Spec => []IInv
BY InitIInv, NextIInv, PTL DEF Spec

\* Every variable keeps its type, for every plan and batch size.
THEOREM TypeCorrect == Spec => []TypeOK
<1>1. IInv => TypeOK
  BY DEF IInv
<1> QED BY <1>1, Inductive, PTL

\* The i-th result answers the i-th call, at the pinned block.
THEOREM Aligned == Spec => []ResultsAligned
<1>1. IInv => ResultsAligned
  BY DEF IInv
<1> QED BY <1>1, Inductive, PTL

\* The exported chunk count is the number of chunks the driver sends, and the
\* length test of scrape_once never fails, for every number of calls and every
\* batch size.
THEOREM ChunkCount == Spec => []ChunksMatchPlan
<1>1. IInv => ChunksMatchPlan
  BY DEF IInv, Chunking, ChunksMatchPlan, AllAnswered
<1> QED BY <1>1, Inductive, PTL
-----------------------------------------------------------------------------
\* The accounts of the scrapes

\* One failure more is one more in the sum over the reasons.
LEMMA CountFailureAddsOne ==
    ASSUME scrapeErrors \in [Reasons -> Nat], NEW reason \in Reasons, CountFailure(reason)
    PROVE  Failures' = Failures + 1
BY DEF CountFailure, Failures, Reasons

\* A scrape is counted under one heading by the step that ends it.
LEMMA NextAccounted == IInv /\ AttemptsAccounted /\ [Next]_vars => AttemptsAccounted'
<1> SUFFICES ASSUME IInv, AttemptsAccounted, [Next]_vars
             PROVE  AttemptsAccounted'
  OBVIOUS
<1> USE DEF cycleVars, seriesVars, lossVars, statusVars
<1>1. /\ scrapeErrors \in [Reasons -> Nat] /\ completed \in Nat /\ Failures \in Nat
      /\ attempt = completed + Failures + InProgress
  BY DEF IInv, TypeOK, Failures, Reasons, AttemptsAccounted
<1>2. ASSUME phase # "idle", phase' = "idle", Failures' = Failures + 1,
             attempt' = attempt, completed' = completed
      PROVE  AttemptsAccounted'
  BY <1>1, <1>2 DEF AttemptsAccounted, InProgress
<1>3. ASSUME phase # "idle", phase' # "idle", scrapeErrors' = scrapeErrors,
             attempt' = attempt, completed' = completed
      PROVE  AttemptsAccounted'
  BY <1>1, <1>3 DEF AttemptsAccounted, InProgress, Failures
<1>4. CASE StartScrape
  BY <1>1, <1>4 DEF StartScrape, AttemptsAccounted, InProgress, Failures
<1>5. ASSUME NEW b \in Blocks, ResolveBlock(b)
      PROVE  AttemptsAccounted'
  BY <1>3, <1>5 DEF ResolveBlock
<1>6. CASE ResolveFails
  BY <1>1, <1>2, <1>6, CountFailureAddsOne DEF ResolveFails, GiveUp, Reasons
<1>7. CASE ReplyChunk
  BY <1>3, <1>7 DEF ReplyChunk, AcceptChunk
<1>8. CASE ChunkFails
  BY <1>1, <1>2, <1>8, CountFailureAddsOne DEF ChunkFails, GiveUp, Reasons
<1>9. CASE CheckResults
  <2>1. CASE AllAnswered
    BY <1>3, <1>9, <2>1 DEF CheckResults
  <2>2. CASE ~AllAnswered
    BY <1>1, <1>2, <1>9, <2>2, CountFailureAddsOne DEF CheckResults, GiveUp, Reasons
  <2> QED BY <2>1, <2>2
<1>10. CASE Timeout
  BY <1>1, <1>2, <1>10, CountFailureAddsOne DEF Timeout, Awaiting, Reasons
<1>11. CASE PublishEntry
  BY <1>3, <1>11 DEF PublishEntry, CountCallError, CreateSeries, SetGauge, WarnPrecision,
                    AtEntry, stepVars
<1>12. CASE StampTime \/ StampBlock \/ StampPlan
  BY <1>3, <1>12 DEF StampTime, AfterEntries, StampBlock, StampPlan
<1>13. CASE StampDuration
  BY <1>1, <1>13 DEF StampDuration, AttemptsAccounted, InProgress, Failures
<1>14. CASE UNCHANGED vars
  BY <1>14 DEF vars, AttemptsAccounted, InProgress, Failures
<1> QED BY <1>4, <1>5, <1>6, <1>7, <1>8, <1>9, <1>10, <1>11, <1>12, <1>13, <1>14
        DEF Next, Resolve, Publish

\* Every scrape ends exactly once: as completed, or under one failure reason.
THEOREM Accounted == Spec => []AttemptsAccounted
<1>1. Init => AttemptsAccounted
  BY DEF Init, AttemptsAccounted, Failures, InProgress, Reasons
<1> QED BY <1>1, NextAccounted, Inductive, PTL DEF Spec

-----------------------------------------------------------------------------
\* What a scrape leaves on the page

Deciding == phase \in {"resolving", "calling", "returned"}

\* Nothing of a scrape is shown before all of its results are there.
Fresh ==
    /\ lastSuccess <= attempt /\ \A s \in Series : gauge[s].scrape <= attempt
    /\ Deciding => lastSuccess < attempt /\ \A s \in Series : gauge[s].scrape < attempt

\* PageCoherent is not inductive: while a scrape publishes, its block is still
\* to be exported, and the gauges it set are of the block it pinned.
Coherence ==
    /\ Fresh
    /\ PageCoherent
    /\ phase = "publishing" \/ Stamping =>
          \A s \in Series : gauge[s].scrape = attempt => gauge[s].block = pinned
    /\ Stamping => lastSuccess = attempt
    /\ phase \in {"stampPlan", "stampDuration"} => blockGauge = pinned

\* The first page shows no gauge.
LEMMA InitCoherence == Init => Coherence
BY DEF Init, Coherence, Fresh, Deciding, PageCoherent, Stamping, Unset

\* Every step keeps the gauges behind the scrape that set them.
LEMMA NextCoherence == IInv /\ Coherence /\ [Next]_vars => Coherence'
<1> SUFFICES ASSUME IInv, Coherence, [Next]_vars
             PROVE  Coherence'
  OBVIOUS
<1> USE DEF cycleVars, seriesVars, lossVars, statusVars, stepVars
<1>1. /\ attempt \in Nat /\ lastSuccess \in Nat /\ gauge \in [Series -> Sample]
      /\ \A s \in Series : gauge[s].scrape \in Nat
  BY DEF IInv, TypeOK, Sample
<1>2. ASSUME Deciding, phase' = "idle", UNCHANGED <<attempt, lastSuccess, blockGauge, gauge>>
      PROVE  Coherence'
  BY <1>1, <1>2 DEF Coherence, Fresh, Deciding, PageCoherent, Stamping
<1>3. ASSUME Deciding, phase' \in {"calling", "returned"},
             UNCHANGED <<attempt, lastSuccess, blockGauge, gauge>>
      PROVE  Coherence'
  BY <1>1, <1>3 DEF Coherence, Fresh, Deciding, PageCoherent, Stamping
<1>4. CASE StartScrape
  BY <1>1, <1>4 DEF StartScrape, Coherence, Fresh, Deciding, PageCoherent, Stamping
<1>5. ASSUME NEW b \in Blocks, ResolveBlock(b)
      PROVE  Coherence'
  BY <1>3, <1>5 DEF ResolveBlock, Deciding
<1>6. CASE ResolveFails
  BY <1>2, <1>6 DEF ResolveFails, GiveUp, Deciding
<1>7. CASE ReplyChunk
  BY <1>3, <1>7 DEF ReplyChunk, AcceptChunk, Deciding
<1>8. CASE ChunkFails
  BY <1>2, <1>8 DEF ChunkFails, GiveUp, Deciding
<1>9. CASE CheckResults
  <2>1. CASE AllAnswered
    BY <1>1, <1>9, <2>1
       DEF CheckResults, Coherence, Fresh, Deciding, PageCoherent, Stamping
  <2>2. CASE ~AllAnswered
    BY <1>2, <1>9, <2>2 DEF CheckResults, GiveUp, Deciding
  <2> QED BY <2>1, <2>2
<1>10. CASE Timeout
  BY <1>2, <1>10 DEF Timeout, Awaiting, Deciding
<1>11. CASE CountCallError
  BY <1>1, <1>11
     DEF CountCallError, AtEntry, Coherence, Fresh, Deciding, PageCoherent, Stamping
<1>12. CASE SetGauge
  <2>1. phase = "publishing" /\ phase' = phase /\ attempt' = attempt /\ pinned' = pinned
        /\ lastSuccess' = lastSuccess
    BY <1>12 DEF SetGauge, AtEntry
  <2>2. PICK lossy :
          gauge' = [gauge EXCEPT ![Plan[nextEntry].series] = SampleOf(nextEntry, lossy)]
    BY <1>12 DEF SetGauge
  <2>3. SampleOf(nextEntry, lossy).scrape = attempt /\ SampleOf(nextEntry, lossy).block = pinned
    BY <1>12, EntryReads DEF SetGauge, SampleOf
  <2>4. \A s \in Series : gauge'[s] = gauge[s] \/ gauge'[s] = SampleOf(nextEntry, lossy)
    BY <1>1, <2>2
  <2> QED BY <1>1, <2>1, <2>3, <2>4 DEF Coherence, Fresh, Deciding, PageCoherent, Stamping
<1>13. CASE StampTime
  BY <1>1, <1>13 DEF StampTime, AfterEntries, Coherence, Fresh, Deciding, PageCoherent, Stamping
<1>14. CASE StampBlock
  BY <1>1, <1>14 DEF StampBlock, Coherence, Fresh, Deciding, PageCoherent, Stamping
<1>15. CASE StampPlan
  BY <1>1, <1>15 DEF StampPlan, Coherence, Fresh, Deciding, PageCoherent, Stamping
<1>16. CASE StampDuration
  BY <1>1, <1>16 DEF StampDuration, Coherence, Fresh, Deciding, PageCoherent, Stamping
<1>17. CASE UNCHANGED vars
  BY <1>17 DEF vars, Coherence, Fresh, Deciding, PageCoherent, Stamping
<1>18. CASE CreateSeries \/ WarnPrecision
  BY <1>1, <1>18 DEF CreateSeries, WarnPrecision, AtEntry, Coherence, Fresh, Deciding,
                     PageCoherent, Stamping
<1> QED BY <1>4, <1>5, <1>6, <1>7, <1>8, <1>9, <1>10, <1>11, <1>12, <1>13, <1>14,
           <1>15, <1>16, <1>17, <1>18 DEF Next, Resolve, Publish, PublishEntry

\* Between publications no gauge is newer than the last success, and the ones
\* of that scrape are of the exported block.
THEOREM Coherent == Spec => []PageCoherent
<1>1. Coherence => PageCoherent
  BY DEF Coherence
<1> QED BY <1>1, InitCoherence, NextCoherence, Inductive, PTL DEF Spec

\* Only a scrape that has published nothing is ever counted as failed.
LEMMA FailingStep ==
    ASSUME IInv, Coherence, [Next]_vars, scrapeErrors' # scrapeErrors
    PROVE  Deciding /\ UNCHANGED <<gauge, callErrors>>
<1> USE DEF cycleVars, seriesVars, lossVars, statusVars, stepVars, Deciding
<1>1. \/ ResolveFails
      \/ ChunkFails \/ CheckResults \/ Timeout
  BY DEF Next, Resolve, Publish, PublishEntry, vars, StartScrape, ResolveBlock, ReplyChunk,
         AcceptChunk, CountCallError, CreateSeries, SetGauge, WarnPrecision, StampTime,
         StampBlock, StampPlan, StampDuration
<1> QED BY <1>1 DEF ResolveFails, ChunkFails, CheckResults, Timeout, Awaiting, GiveUp

\* A failed scrape, however late it fails, leaves no trace on the page.
THEOREM NoTrace == Spec => FailureLeavesNoTrace
<1>1. IInv /\ Coherence /\ [Next]_vars =>
        [scrapeErrors' # scrapeErrors =>
            /\ gauge' = gauge /\ callErrors' = callErrors
            /\ \A s \in Series : gauge[s].scrape < attempt
            /\ lastSuccess < attempt]_vars
  BY FailingStep DEF Coherence, Fresh
<1> QED BY <1>1, InitCoherence, NextCoherence, Inductive, PTL
        DEF Spec, FailureLeavesNoTrace

-----------------------------------------------------------------------------
\* Inserting into the set of seen losses decides who logs.
LEMMA WarnedOnceStep == IInv /\ WarnedOnce /\ [Next]_vars => WarnedOnce'
<1> SUFFICES ASSUME IInv, WarnedOnce, [Next]_vars
             PROVE  WarnedOnce'
  OBVIOUS
<1> USE DEF cycleVars, seriesVars, lossVars, statusVars, stepVars, WarnedOnce
<1>1. CASE WarnPrecision
  BY <1>1 DEF WarnPrecision, WarnOnce, IInv, TypeOK
<1>2. CASE ~WarnPrecision
  <2>1. UNCHANGED <<lossSeen, warnings>>
    BY <1>2 DEF Next, Resolve, Publish, PublishEntry, vars, StartScrape, ResolveBlock,
         ResolveFails, ReplyChunk, AcceptChunk, ChunkFails, CheckResults, Timeout, GiveUp,
         CountCallError, CreateSeries, SetGauge, StampTime, StampBlock, StampPlan,
         StampDuration
  <2> QED BY <2>1
<1> QED BY <1>1, <1>2

\* A precision loss is logged once per key over all scrapes.
THEOREM LossLoggedOnce == Spec => []WarnedOnce
<1>1. Init => WarnedOnce
  BY DEF Init, WarnedOnce
<1> QED BY <1>1, WarnedOnceStep, Inductive, PTL DEF Spec

-----------------------------------------------------------------------------
\* GaugeOfOwnCall is not inductive: that a series shows 0 when it is created needs
\* that no scrape has set it before.
OwnInv == GaugeOfOwnCall /\ \A s \in Series \ created : gauge[s] = Unset

\* What an entry shows of its call, given a warning or waiting for it.
Owned(s) ==
    \E i \in 1..Len(Plan) :
        /\ Plan[i].series = s /\ Plan[i].call = gauge[s].call
        /\ Plan[i].kind # "other"
        /\ gauge[s].lossy => warnings[Plan[i].lossKey] = 1 \/ warnFor = i

\* A created series that does not show the answer to its own call is the one that
\* the loop is about to set.
LEMMA OwnedUnlessBeingSet ==
    ASSUME OwnInv, NEW s \in created, ~BeingSet(s)
    PROVE  Owned(s)
BY DEF OwnInv, GaugeOfOwnCall, Owned

\* A warning that was given stays given.
LEMMA WarningsStay ==
    ASSUME WarnedOnce, WarnedOnce', lossSeen \subseteq lossSeen', NEW k \in LossKeys,
           warnings[k] = 1
    PROVE  warnings'[k] = 1
BY DEF WarnedOnce

\* The next entry of the loop creates its series and only then sets it, to the
\* answer to its own call.
LEMMA CreateSeriesOwn ==
    ASSUME IInv, OwnInv, CreateSeries
    PROVE  OwnInv'
<1>1. /\ created' = created \cup {Plan[nextEntry].series} /\ Plan[nextEntry].series \notin created
      /\ UNCHANGED <<phase, nextEntry, results, gauge, warnings, warnFor>>
      /\ AtEntry /\ ~Fails(nextEntry) /\ Plan[nextEntry].series \in Series
  BY EntryReads DEF CreateSeries, stepVars, lossVars, Entry
<1>2. BeingSet(Plan[nextEntry].series)'
  BY <1>1 DEF BeingSet, AtEntry, Fails, ResultOf
<1>3. gauge'[Plan[nextEntry].series] = Unset
  BY <1>1 DEF OwnInv
<1>4. ASSUME NEW s \in created PROVE Owned(s)'
  <2>1. ~BeingSet(s)
    BY <1>1, <1>4 DEF BeingSet
  <2> QED BY <1>1, <2>1, OwnedUnlessBeingSet DEF Owned
<1> QED BY <1>1, <1>2, <1>3, <1>4 DEF OwnInv, GaugeOfOwnCall, Owned

\* What a successful entry sets shows its own call, as a number; until then no
\* warning was due.
LEMMA SetGaugeOwn ==
    ASSUME IInv, OwnInv, SetGauge
    PROVE  OwnInv'
<1>1. /\ AtEntry /\ ~Fails(nextEntry) /\ warnFor = 0
      /\ Plan[nextEntry].series \in created
      /\ created' = created /\ warnings' = warnings
  BY DEF SetGauge, AtEntry
<1>2. PICK lossy \in BOOLEAN :
        /\ gauge' = [gauge EXCEPT ![Plan[nextEntry].series] = SampleOf(nextEntry, lossy)]
        /\ warnFor' = IF lossy THEN nextEntry ELSE 0
  BY DEF SetGauge, Roundings
<1>3. /\ nextEntry \in 1..Len(Plan) /\ Plan[nextEntry].series \in Series
      /\ ResultOf(nextEntry).call = Plan[nextEntry].call
      /\ gauge \in [Series -> Sample] /\ created \subseteq Series
  BY <1>1, EntryReads DEF Entry, IInv, TypeOK
<1>4. ASSUME NEW s \in created PROVE Owned(s)'
  <2>1. CASE s = Plan[nextEntry].series
    <3>1. gauge'[s].call = Plan[nextEntry].call /\ gauge'[s].lossy = lossy
      BY <1>2, <1>3, <2>1 DEF SampleOf
    <3>2. Plan[nextEntry].kind # "other"
      BY <1>1 DEF Fails
    <3> QED BY <1>2, <1>3, <2>1, <3>1, <3>2 DEF Owned
  <2>2. CASE s # Plan[nextEntry].series
    <3>1. gauge'[s] = gauge[s]
      BY <1>2, <1>3, <2>2
    <3>2. Owned(s)
      BY <2>2, OwnedUnlessBeingSet DEF BeingSet
    <3>3. PICK i \in 1..Len(Plan) :
            /\ Plan[i].series = s /\ Plan[i].call = gauge[s].call
            /\ Plan[i].kind # "other"
            /\ gauge[s].lossy => warnings[Plan[i].lossKey] = 1
      BY <1>1, <3>2 DEF Owned
    <3> QED BY <1>1, <3>1, <3>3 DEF Owned
  <2> QED BY <2>1, <2>2
<1>5. \A s \in Series \ created : gauge'[s] = Unset
  BY <1>1, <1>2, <1>3 DEF OwnInv
<1> QED BY <1>1, <1>4, <1>5 DEF OwnInv, GaugeOfOwnCall, Owned

\* The warning that a rounded value waited for is given.
LEMMA WarnPrecisionOwn ==
    ASSUME IInv, WarnedOnce, WarnedOnce', OwnInv, WarnPrecision
    PROVE  OwnInv'
<1>1. /\ warnFor > 0 /\ created' = created /\ gauge' = gauge
      /\ lossSeen' = lossSeen \cup {Plan[warnFor].lossKey}
  BY DEF WarnPrecision, WarnOnce, cycleVars
<1>2. ASSUME NEW i \in 1..Len(Plan) PROVE Plan[i].lossKey \in LossKeys
  <2>1. Plan[i] \in Entry
    BY PlanAssumption
  <2> QED BY <2>1 DEF Entry
<1>3. warnFor \in 1..Len(Plan) => warnings'[Plan[warnFor].lossKey] = 1
  BY <1>1, <1>2 DEF WarnedOnce
<1>4. ASSUME NEW s \in created PROVE Owned(s)'
  <2>1. ~BeingSet(s)
    BY <1>1 DEF BeingSet, AtEntry
  <2>2. PICK i \in 1..Len(Plan) :
          /\ Plan[i].series = s /\ Plan[i].call = gauge[s].call
          /\ Plan[i].kind # "other"
          /\ gauge[s].lossy => warnings[Plan[i].lossKey] = 1 \/ warnFor = i
    BY <2>1, OwnedUnlessBeingSet DEF Owned
  <2>3. gauge[s].lossy => warnings'[Plan[i].lossKey] = 1
    BY <1>1, <1>2, <1>3, <2>2, WarningsStay
  <2> QED BY <1>1, <2>2, <2>3 DEF Owned
<1> QED BY <1>1, <1>4 DEF OwnInv, GaugeOfOwnCall, Owned

\* No other step sets a gauge or withdraws a warning, and none leaves the loop
\* between the creation of a series and its first value.
LEMMA NextOwn ==
    IInv /\ WarnedOnce /\ WarnedOnce' /\ OwnInv /\ [Next]_vars => OwnInv'
<1> SUFFICES ASSUME IInv, WarnedOnce, WarnedOnce', OwnInv, [Next]_vars
             PROVE  OwnInv'
  OBVIOUS
<1>1. CASE CreateSeries
  BY <1>1, CreateSeriesOwn
<1>2. CASE SetGauge
  BY <1>2, SetGaugeOwn
<1>3. CASE WarnPrecision
  BY <1>3, WarnPrecisionOwn
<1>4. CASE UNCHANGED vars
  BY <1>4 DEF vars, cycleVars, seriesVars, lossVars, OwnInv, GaugeOfOwnCall, BeingSet,
              AtEntry, Fails, ResultOf
<1>5. CASE Next /\ ~CreateSeries /\ ~SetGauge /\ ~WarnPrecision
  <2>1. /\ phase # "publishing" \/ CountCallError \/ AfterEntries
        /\ UNCHANGED <<created, gauge, warnings, warnFor>>
    BY <1>5 DEF Next, Resolve, Publish, PublishEntry, StartScrape, ResolveBlock, ResolveFails,
         ReplyChunk, AcceptChunk, ChunkFails, CheckResults, Timeout, GiveUp, Awaiting,
         CountCallError, StampTime, StampBlock, StampPlan, StampDuration,
         cycleVars, seriesVars, lossVars, statusVars, stepVars
  <2>2. ~AtEntry \/ Fails(nextEntry)
    BY <2>1 DEF CountCallError, AtEntry, AfterEntries, IInv, TypeOK
  <2>3. ASSUME NEW s \in created PROVE Owned(s)'
    <3>1. Owned(s)
      BY <2>2, OwnedUnlessBeingSet DEF BeingSet
    <3> QED BY <2>1, <3>1 DEF Owned
  <2> QED BY <2>1, <2>3 DEF OwnInv, GaugeOfOwnCall, Owned
<1> QED BY <1>1, <1>2, <1>3, <1>4, <1>5

\* Whatever was shared, shifted, failed or left over from an earlier scrape, a
\* series shows the answer to a call that one of its entries reads; the 0 it is
\* created with stands only until the next step of the loop, and so does a rounded
\* value without its warning.
THEOREM OwnCall == Spec => []GaugeOfOwnCall
<1>1. Init => OwnInv
  BY DEF Init, OwnInv, GaugeOfOwnCall
<1>2. OwnInv => GaugeOfOwnCall
  BY DEF OwnInv
<1> QED BY <1>1, <1>2, NextOwn, LossLoggedOnce, Inductive, PTL DEF Spec

-----------------------------------------------------------------------------
(***************************************************************************)
(* What the publishing loop has done with the entries behind it            *)
(***************************************************************************)

\* PublishedAll is about the end of the loop: on the way it holds of the entries
\* the loop has passed, and a scrape reaches the loop with nothing shown.
Passed(n) ==
    /\ errCount = Cardinality({i \in 1..n : Fails(i)})
    /\ \A s \in Series :
         gauge[s].scrape = attempt <=> \E i \in 1..n : Plan[i].series = s /\ ~Fails(i)

Published ==
    /\ Deciding => nextEntry = 1 /\ errCount = 0
    /\ phase = "publishing" => Passed(nextEntry - 1)
    /\ Stamping => nextEntry = Len(Plan) + 1 /\ Passed(Len(Plan))

\* The entries up to the next one that fail.
LEMMA OneMoreEntry ==
    ASSUME NEW n \in Nat \ {0}
    PROVE  LET before == {i \in 1..n - 1 : Fails(i)}
               now    == {i \in 1..n : Fails(i)}
           IN /\ ~Fails(n) => now = before
              /\ Fails(n) => Cardinality(now) = Cardinality(before) + 1
<1> DEFINE before == {i \in 1..n - 1 : Fails(i)}
           now    == {i \in 1..n : Fails(i)}
<1>1. 1..n = (1..n - 1) \cup {n} /\ n \notin 1..n - 1
  OBVIOUS
<1>2. ~Fails(n) => now = before
  BY <1>1
<1>3. ASSUME Fails(n) PROVE Cardinality(now) = Cardinality(before) + 1
  <2>1. now = before \cup {n} /\ n \notin before
    BY <1>1, <1>3
  <2>2. IsFiniteSet(before)
    <3>1. IsFiniteSet(1..n - 1)
      BY FS_Interval
    <3> QED BY <3>1, FS_Subset
  <2> HIDE DEF before, now
  <2> QED BY <2>1, <2>2, FS_AddElement
<1> QED BY <1>2, <1>3

\* An entry that fails is counted and leaves every gauge alone.
LEMMA CountCallErrorPublishing ==
    ASSUME IInv, Published, CountCallError
    PROVE  Published'
<1>1. /\ phase = "publishing" /\ phase' = phase /\ attempt' = attempt /\ results' = results
      /\ gauge' = gauge /\ errCount' = errCount + 1 /\ nextEntry' = nextEntry + 1
      /\ Fails(nextEntry) /\ nextEntry \in Nat \ {0}
  BY DEF CountCallError, AtEntry, stepVars, IInv, TypeOK
<1>2. \A i : Fails(i)' = Fails(i)
  BY <1>1 DEF Fails, ResultOf
<1>3. errCount' = Cardinality({i \in 1..nextEntry : Fails(i)})
  BY <1>1, OneMoreEntry DEF Published, Passed
<1>4. \A s \in Series :
        gauge'[s].scrape = attempt
        <=> \E i \in 1..nextEntry : Plan[i].series = s /\ ~Fails(i)
  <2>1. 1..nextEntry = (1..nextEntry - 1) \cup {nextEntry}
    BY <1>1
  <2> QED BY <1>1, <2>1 DEF Published, Passed
<1>5. nextEntry' - 1 = nextEntry
  BY <1>1
<1> QED BY <1>1, <1>2, <1>3, <1>4, <1>5 DEF Published, Passed, Deciding, Stamping

\* An entry that decodes sets its own series as of this scrape, and no other.
LEMMA SetGaugePublishing ==
    ASSUME IInv, Published, SetGauge
    PROVE  Published'
<1>1. /\ phase = "publishing" /\ phase' = phase /\ attempt' = attempt /\ results' = results
      /\ errCount' = errCount /\ nextEntry' = nextEntry + 1
      /\ ~Fails(nextEntry) /\ nextEntry \in Nat \ {0} /\ gauge \in [Series -> Sample]
  BY DEF SetGauge, AtEntry, stepVars, IInv, TypeOK
<1>2. PICK lossy :
        gauge' = [gauge EXCEPT ![Plan[nextEntry].series] = SampleOf(nextEntry, lossy)]
  BY DEF SetGauge
<1>3. \A i : Fails(i)' = Fails(i)
  BY <1>1 DEF Fails, ResultOf
<1>4. errCount' = Cardinality({i \in 1..nextEntry : Fails(i)})
  BY <1>1, OneMoreEntry DEF Published, Passed
<1>5. SampleOf(nextEntry, lossy).scrape = attempt
  BY DEF SampleOf
<1>6. ASSUME NEW s \in Series
      PROVE  gauge'[s].scrape = attempt
             <=> \E i \in 1..nextEntry : Plan[i].series = s /\ ~Fails(i)
  <2>1. 1..nextEntry = (1..nextEntry - 1) \cup {nextEntry}
    BY <1>1
  <2>2. CASE s = Plan[nextEntry].series
    <3>1. gauge'[s].scrape = attempt
      BY <1>1, <1>5, <1>2, <2>2
    <3> QED BY <1>1, <2>1, <2>2, <3>1
  <2>3. CASE s # Plan[nextEntry].series
    <3>1. gauge'[s] = gauge[s]
      BY <1>1, <1>2, <2>3
    <3> QED BY <1>1, <2>1, <2>3, <3>1 DEF Published, Passed
  <2> QED BY <2>2, <2>3
<1>7. nextEntry' - 1 = nextEntry
  BY <1>1
<1> QED BY <1>1, <1>3, <1>4, <1>6, <1>7 DEF Published, Passed, Deciding, Stamping

\* The results reach the loop with nothing of this scrape shown, and after the
\* loop the stamps change neither a gauge nor the count.
LEMMA NextPublishing == IInv /\ Fresh /\ Published /\ [Next]_vars => Published'
<1> SUFFICES ASSUME IInv, Fresh, Published, [Next]_vars
             PROVE  Published'
  OBVIOUS
<1> USE DEF cycleVars, seriesVars, lossVars, statusVars
<1>1. \/ phase' = "idle"
      \/ /\ phase' \in {"resolving", "calling", "returned"}
         /\ \/ nextEntry' = 1 /\ errCount' = 0
            \/ Deciding /\ nextEntry' = nextEntry /\ errCount' = errCount
      \/ /\ phase = "returned" /\ phase' = "publishing"
         /\ UNCHANGED <<attempt, results, nextEntry, errCount, gauge>>
      \/ /\ phase = "publishing" /\ phase' = "stampBlock" /\ nextEntry > Len(Plan)
         /\ UNCHANGED <<attempt, results, nextEntry, errCount, gauge>>
      \/ /\ Stamping /\ phase' \in {"stampPlan", "stampDuration"}
         /\ UNCHANGED <<attempt, results, nextEntry, errCount, gauge>>
      \/ UNCHANGED <<phase, attempt, results, nextEntry, errCount, gauge>>
      \/ CountCallError \/ SetGauge
  BY DEF Next, Resolve, Publish, PublishEntry, vars, StartScrape, ResolveBlock, ResolveFails,
         ReplyChunk, AcceptChunk, ChunkFails, CheckResults, Timeout, GiveUp, CreateSeries,
         WarnPrecision, stepVars, StampTime, AfterEntries, StampBlock, StampPlan,
         StampDuration, Deciding, Stamping
<1>2. CASE phase' = "idle"
  BY <1>2 DEF Published, Deciding, Stamping
<1>3. CASE /\ phase' \in {"resolving", "calling", "returned"}
           /\ \/ nextEntry' = 1 /\ errCount' = 0
              \/ Deciding /\ nextEntry' = nextEntry /\ errCount' = errCount
  BY <1>3 DEF Published, Deciding, Stamping
<1>4. CASE /\ phase = "returned" /\ phase' = "publishing"
           /\ UNCHANGED <<attempt, results, nextEntry, errCount, gauge>>
  <2>1. nextEntry = 1 /\ errCount = 0 /\ \A s \in Series : gauge[s].scrape < attempt
    BY <1>4 DEF Published, Deciding, Fresh
  <2>2. \A s \in Series : gauge[s].scrape # attempt
    <3>1. attempt \in Nat /\ \A s \in Series : gauge[s].scrape \in Nat
      BY DEF IInv, TypeOK, Sample
    <3> QED BY <2>1, <3>1
  <2>3. nextEntry' - 1 = 0 /\ 1..0 = {}
    BY <1>4, <2>1
  <2>4. Cardinality({i \in 1..0 : Fails(i)}') = 0
    BY <2>3, FS_EmptySet
  <2>5. Passed(nextEntry - 1)'
    BY <1>4, <2>1, <2>2, <2>3, <2>4 DEF Passed
  <2> QED BY <1>4, <2>5 DEF Published, Deciding, Stamping
<1>5. CASE /\ phase = "publishing" /\ phase' = "stampBlock" /\ nextEntry > Len(Plan)
           /\ UNCHANGED <<attempt, results, nextEntry, errCount, gauge>>
  <2>1. nextEntry = Len(Plan) + 1 /\ nextEntry - 1 = Len(Plan)
    BY <1>5, PlanAssumption DEF IInv, TypeOK
  <2>2. \A n : Passed(n)' <=> Passed(n)
    BY <1>5 DEF Passed, Fails, ResultOf
  <2> QED BY <1>5, <2>1, <2>2 DEF Published, Deciding, Stamping
<1>6. CASE /\ Stamping /\ phase' \in {"stampPlan", "stampDuration"}
           /\ UNCHANGED <<attempt, results, nextEntry, errCount, gauge>>
  <2>1. \A n : Passed(n)' <=> Passed(n)
    BY <1>6 DEF Passed, Fails, ResultOf
  <2> QED BY <1>6, <2>1 DEF Published, Deciding, Stamping
<1>7. CASE UNCHANGED <<phase, attempt, results, nextEntry, errCount, gauge>>
  <2>1. \A n : Passed(n)' <=> Passed(n)
    BY <1>7 DEF Passed, Fails, ResultOf
  <2> QED BY <1>7, <2>1 DEF Published, Deciding, Stamping
<1> QED BY <1>1, <1>2, <1>3, <1>4, <1>5, <1>6, <1>7,
           CountCallErrorPublishing, SetGaugePublishing

\* One failing entry costs only itself, in every plan: when the loop is over each
\* entry that decoded is shown, and err_count is the number of the others.
THEOREM AllPublished == Spec => []PublishedAll
<1>1. Init => Published
  BY DEF Init, Published, Deciding, Stamping
<1>2. IInv /\ Coherence /\ Published /\ [Next]_vars => Published'
  BY NextPublishing DEF Coherence
<1>3. Published => PublishedAll
  BY DEF Published, Passed, PublishedAll
<1> QED BY <1>1, <1>2, <1>3, InitCoherence, NextCoherence, Inductive, PTL DEF Spec

-----------------------------------------------------------------------------
(***************************************************************************)
(* The chain a scrape reads                                                *)
(***************************************************************************)

\* The calls up to the end of a chunk belong to it or to an earlier one.
LEMMA ChunkOfCall ==
    ASSUME NEW k \in Nat, NEW i \in Nat \ {0}, ChunkSize > 0
    PROVE  /\ ChunkOf(i) \in Int
           /\ i <= k * ChunkSize => ChunkOf(i) < k
           /\ i > k * ChunkSize /\ i <= k * ChunkSize + ChunkSize => ChunkOf(i) = k
<1> DEFINE c == ChunkSize
           q == (i - 1) \div c
           r == (i - 1) % c
<1>1. c \in Nat \ {0}
  BY ChunkSizeType
<1> HIDE DEF c
<1>2. q \in Nat /\ r \in Nat /\ r < c /\ i - 1 = q * c + r
  BY <1>1
<1>3. ChunkOf(i) = q
  BY DEF ChunkOf, c
<1> HIDE DEF q, r
<1>4. ASSUME i <= k * c PROVE q < k
  <2> SUFFICES ASSUME k <= q PROVE FALSE
    BY <1>2
  <2>1. k * c <= q * c /\ k * c \in Nat /\ q * c \in Nat
    BY <1>1, <1>2, MultMonotone
  <2> QED BY <1>2, <1>4, <2>1
<1>5. ASSUME i > k * c, i <= k * c + c PROVE q = k
  <2>1. k * c \in Nat /\ q * c \in Nat /\ (k + 1) * c = k * c + c /\ (q + 1) * c = q * c + c
    BY <1>1, <1>2
  <2>2. ~(k + 1 <= q)
    <3> SUFFICES ASSUME k + 1 <= q PROVE FALSE
      OBVIOUS
    <3>1. (k + 1) * c <= q * c
      BY <1>1, <1>2, MultMonotone
    <3> QED BY <1>1, <1>2, <1>5, <2>1, <3>1
  <2>3. ~(q + 1 <= k)
    <3> SUFFICES ASSUME q + 1 <= k PROVE FALSE
      OBVIOUS
    <3>1. (q + 1) * c <= k * c
      BY <1>1, <1>2, MultMonotone
    <3> QED BY <1>1, <1>2, <1>5, <2>1, <3>1
  <2> QED BY <1>2, <2>2, <2>3
<1> QED BY <1>2, <1>3, <1>4, <1>5 DEF c

\* The answers of one chunk are of one chain.
OneForkPerChunk ==
    \A i, j \in 1..Len(results) :
        ChunkOf(i) = ChunkOf(j) => results[i].fork = results[j].fork

\* What this scrape has set is what its results say, at the pinned block.
OfResults ==
    phase = "publishing" \/ Stamping =>
        \A s \in Series : gauge[s].scrape = attempt =>
            /\ gauge[s].call \in 1..Len(results)
            /\ gauge[s].block = pinned
            /\ gauge[s].fork = results[gauge[s].call].fork

ChainInv == OneForkPerChunk /\ OfResults /\ OneChainState

\* An accepted chunk holds the next calls and no others.
LEMMA AcceptChunkForks ==
    ASSUME IInv, OneForkPerChunk,
           NEW n \in 0..ChunkSize + 1, NEW fork \in Forks,
           NEW statuses \in [1..n -> Statuses], AcceptChunk(n, statuses, fork)
    PROVE  OneForkPerChunk'
<1> DEFINE answers == [j \in 1..n |-> [call |-> start + j, status |-> statuses[j],
                                       block |-> pinned, fork |-> fork]]
<1>1. /\ start = Len(results) /\ start < NumCalls /\ start = issued * ChunkSize
      /\ start \in Nat /\ issued \in Nat /\ NumCalls \in Nat /\ results \in Seq(Result)
      /\ pinned \in Blocks
  BY CountAssumption DEF AcceptChunk, IInv, TypeOK, Chunking
<1>2. ChunkSize \in Nat \ {0}
  BY <1>1, ChunkSizeType
<1>3. n \in Nat /\ n <= ChunkSize
  BY <1>1, <1>2 DEF AcceptChunk, ReplyFits, ChunkEnd
<1>4. results' = results \o answers
  BY DEF AcceptChunk, AskedBlock
<1>5. \A j \in 1..n : answers[j].fork = fork
  OBVIOUS
<1>6. answers \in Seq(Result) /\ Len(answers) = n
  <2>1. \A j \in 1..n : answers[j] \in Result
    BY <1>1, <1>3 DEF Result
  <2>2. answers \in [1..n -> Result]
    BY <2>1
  <2> QED BY <1>3, <2>2
<1> HIDE DEF answers
<1>7. /\ Len(results') = start + n
      /\ \A i \in 1..start : results'[i] = results[i]
      /\ \A i \in start + 1..start + n : results'[i] = answers[i - start]
  <2>1. /\ Len(results') = start + n
        /\ \A i \in 1..start + n :
              results'[i] = IF i <= start THEN results[i] ELSE answers[i - start]
    <3>1. LET both == results \o answers
          IN /\ Len(both) = Len(results) + Len(answers)
             /\ \A i \in 1..Len(results) + Len(answers) :
                   both[i] = IF i <= Len(results) THEN results[i] ELSE answers[i - Len(results)]
      BY <1>1, <1>6, ConcatProperties
    <3> QED BY <1>1, <1>4, <1>6, <3>1
  <2> QED BY <1>1, <1>3, <2>1
<1>8. ASSUME NEW i \in 1..start + n
      PROVE  /\ ChunkOf(i) \in Int
             /\ i <= start => ChunkOf(i) < issued
             /\ i > start => ChunkOf(i) = issued /\ results'[i].fork = fork
  <2>1. /\ ChunkOf(i) \in Int
        /\ i <= start => ChunkOf(i) < issued
        /\ i > start /\ i <= start + ChunkSize => ChunkOf(i) = issued
    BY <1>1, <1>2, <1>3, ChunkOfCall
  <2>2. ASSUME i > start PROVE results'[i].fork = fork
    <3>1. i - start \in 1..n /\ i \in start + 1..start + n
      BY <1>1, <1>3, <2>2
    <3> QED BY <1>5, <1>7, <3>1
  <2> QED BY <1>1, <1>2, <1>3, <2>1, <2>2
<1>9. ASSUME NEW i \in 1..start + n, NEW j \in 1..start + n, ChunkOf(i) = ChunkOf(j)
      PROVE  results'[i].fork = results'[j].fork
  <2>1. CASE i <= start /\ j <= start
    <3>1. i \in 1..Len(results) /\ j \in 1..Len(results) /\ i \in 1..start /\ j \in 1..start
      BY <1>1, <1>3, <2>1
    <3>2. results[i].fork = results[j].fork
      BY <1>9, <3>1 DEF OneForkPerChunk
    <3> QED BY <1>7, <3>1, <3>2
  <2>2. CASE i > start /\ j > start
    BY <1>8, <2>2
  <2>3. (i <= start /\ j <= start) \/ (i > start /\ j > start)
    BY <1>1, <1>3, <1>8, <1>9
  <2> QED BY <2>1, <2>2, <2>3
<1> QED BY <1>7, <1>9 DEF OneForkPerChunk, ChunkOf

\* A gauge that is set joins the others of this scrape, which read the same
\* results.
LEMMA SetGaugeChain ==
    ASSUME IInv, ChainInv, SetGauge
    PROVE  ChainInv'
<1>1. /\ phase = "publishing" /\ phase' = phase
      /\ UNCHANGED <<attempt, pinned, results>>
  BY DEF SetGauge, AtEntry, stepVars
<1>2. PICK lossy :
        gauge' = [gauge EXCEPT ![Plan[nextEntry].series] = SampleOf(nextEntry, lossy)]
  BY DEF SetGauge
<1>3. LET new == SampleOf(nextEntry, lossy)
      IN /\ new.scrape = attempt /\ new.block = pinned /\ new.call \in 1..Len(results)
         /\ new.fork = results[new.call].fork
  <2>1. /\ ResultOf(nextEntry).call = Plan[nextEntry].call
        /\ Plan[nextEntry].call \in 1..Len(results) /\ ResultOf(nextEntry).block = pinned
    BY EntryReads DEF SetGauge
  <2> QED BY <2>1 DEF SampleOf, ResultOf
<1>4. \A s \in Series : gauge'[s] = gauge[s] \/ gauge'[s] = SampleOf(nextEntry, lossy)
  BY <1>2 DEF IInv, TypeOK
<1>5. OneForkPerChunk'
  BY <1>1 DEF ChainInv, OneForkPerChunk, ChunkOf
<1>6. ASSUME NEW s \in Series, gauge'[s].scrape = attempt
      PROVE  /\ gauge'[s].call \in 1..Len(results)
             /\ gauge'[s].block = pinned
             /\ gauge'[s].fork = results[gauge'[s].call].fork
  BY <1>1, <1>3, <1>4, <1>6 DEF ChainInv, OfResults
<1>7. OfResults'
  BY <1>1, <1>6 DEF OfResults, Stamping
<1>8. ASSUME NEW s \in Series, NEW t \in Series, gauge'[s].scrape = gauge'[t].scrape
      PROVE  /\ gauge'[s].block = gauge'[t].block
             /\ ChunkOf(gauge'[s].call) = ChunkOf(gauge'[t].call)
                => gauge'[s].fork = gauge'[t].fork
  <2>1. CASE gauge'[s].scrape = attempt
    BY <1>6, <1>8, <2>1 DEF ChainInv, OneForkPerChunk
  <2>2. CASE gauge'[s].scrape # attempt
    <3>1. gauge'[s] = gauge[s] /\ gauge'[t] = gauge[t]
      BY <1>3, <1>4, <1>8, <2>2
    <3> QED BY <1>8, <3>1 DEF ChainInv, OneChainState
  <2> QED BY <2>1, <2>2
<1>9. OneChainState'
  BY <1>8 DEF OneChainState, ChunkOf
<1> QED BY <1>5, <1>7, <1>9 DEF ChainInv

\* Every other step leaves the gauges alone, and the loop is reached with none
\* of this scrape.
LEMMA NextChain == IInv /\ Fresh /\ ChainInv /\ [Next]_vars => ChainInv'
<1> SUFFICES ASSUME IInv, Fresh, ChainInv, [Next]_vars
             PROVE  ChainInv'
  OBVIOUS
<1> USE DEF cycleVars, seriesVars, lossVars, statusVars
<1>1. CASE SetGauge
  BY <1>1, SetGaugeChain
<1>2. CASE ~SetGauge
  <2>1. /\ gauge' = gauge
        /\ \/ results' = <<>>
           \/ results' = results
           \/ ReplyChunk
        /\ \/ phase' \notin {"publishing", "stampBlock", "stampPlan", "stampDuration"}
           \/ UNCHANGED <<attempt, pinned, results>> /\ (phase = "returned" \/ phase = "publishing" \/ Stamping)
    BY <1>2 DEF Next, Resolve, Publish, PublishEntry, vars, StartScrape, ResolveBlock,
         ResolveFails, ReplyChunk, AcceptChunk, ChunkFails, CheckResults, Timeout, GiveUp,
         stepVars, AtEntry, CountCallError, CreateSeries, WarnPrecision, StampTime,
         AfterEntries, StampBlock, StampPlan, StampDuration, Stamping
  <2>2. OneForkPerChunk'
    <3>1. CASE results' = <<>>
      BY <3>1 DEF OneForkPerChunk
    <3>2. CASE results' = results
      BY <3>2 DEF ChainInv, OneForkPerChunk, ChunkOf
    <3>3. CASE ReplyChunk
      BY <3>3, AcceptChunkForks DEF ReplyChunk, ChainInv
    <3> QED BY <2>1, <3>1, <3>2, <3>3
  <2>3. OfResults'
    <3>1. CASE phase' \notin {"publishing", "stampBlock", "stampPlan", "stampDuration"}
      BY <3>1 DEF OfResults, Stamping
    <3>2. CASE UNCHANGED <<attempt, pinned, results>> /\ phase = "returned"
      <4>1. /\ attempt \in Nat
            /\ \A s \in Series : gauge[s].scrape \in Nat /\ gauge[s].scrape < attempt
        BY <3>2 DEF Fresh, Deciding, IInv, TypeOK, Sample
      <4>2. \A s \in Series : gauge[s].scrape # attempt
        BY <4>1
      <4> QED BY <2>1, <3>2, <4>2 DEF OfResults
    <3>3. CASE UNCHANGED <<attempt, pinned, results>> /\ (phase = "publishing" \/ Stamping)
      BY <2>1, <3>3 DEF ChainInv, OfResults
    <3> QED BY <2>1, <3>1, <3>2, <3>3
  <2>4. OneChainState'
    BY <2>1 DEF ChainInv, OneChainState, ChunkOf
  <2> QED BY <2>2, <2>3, <2>4 DEF ChainInv
<1> QED BY <1>1, <1>2

\* The gauges of one scrape are of one block number, and those answered in one
\* chunk of one chain, also the ones left over from the same earlier scrape.
THEOREM OneChain == Spec => []OneChainState
<1>1. Init => ChainInv
  BY DEF Init, ChainInv, OneForkPerChunk, OfResults, OneChainState, Stamping
<1>2. IInv /\ Coherence /\ ChainInv /\ [Next]_vars => ChainInv'
  BY NextChain DEF Coherence
<1>3. ChainInv => OneChainState
  BY DEF ChainInv
<1> QED BY <1>1, <1>2, <1>3, InitCoherence, NextCoherence, Inductive, PTL DEF Spec
=============================================================================
