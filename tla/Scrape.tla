------------------------------- MODULE Scrape -------------------------------
(***************************************************************************)
(* One exporter repeating scrape cycles: Exporter::run_scrape and          *)
(* Exporter::scrape_once (exporter.rs) over Multicall3Driver::call         *)
(* (multicall.rs).  A cycle resolves the block tag, sends the planned      *)
(* calls in chunks, waits for each chunk, and publishes the results one    *)
(* gauge at a time, in the steps a thread that reads the metrics can see.  *)
(* The node may answer anything, late or never; the deadline of run_scrape *)
(* may cut the cycle at every await.                                       *)
(*                                                                         *)
(* Abstractions.  A gauge holds a record that says where its value came    *)
(* from, in place of a float.  The times set in the self-metrics are the   *)
(* number of the scrape that set them.  MaxAttempts bounds the number of   *)
(* scrapes and is the only bound.                                          *)
(***************************************************************************)
EXTENDS Integers, Sequences, FiniteSets

CONSTANTS
    NumCalls,     \* plan.calls.len(): the contract calls sent by one scrape
    MaxBatch,     \* scrape.max_calls_per_batch, 0 for a single chunk
    Plan,         \* plan.entries: one record per gauge sample, in order
    Series,       \* the (gauge, label values) pairs the entries address
    ErrKeys,      \* the (contract, function, address) label sets
    LossKeys,     \* the "metric_name:address" keys of precision_loss_seen
    Blocks,       \* the block numbers the node may resolve the tag to
    Forks,        \* the chains on which a block of that number exists
    MaxAttempts   \* bound on the number of scrapes

Calls == 1..NumCalls

\* An entry reads one call; its output is an integer, a bool, or a type the
\* decoder cannot turn into a number.
Entry == [call: Calls, series: Series, errKey: ErrKeys, lossKey: LossKeys,
          kind: {"integer", "bool", "other"}]

ASSUME CountAssumption == NumCalls \in Nat /\ MaxBatch \in Nat /\ MaxAttempts \in Nat
ASSUME PlanAssumption  == Plan \in Seq(Entry)
ASSUME ChainAssumption == Blocks \subseteq Nat \ {0} /\ "none" \notin Forks

VARIABLES
    phase,        \* where the scrape task is
    attempt,      \* history: number of scrapes begun
    pinned,       \* block_number of the current scrape, 0 before it is known
    start,        \* first call (from 0) of the chunk being sent
    issued,       \* chunks whose answer was accepted in this scrape
    results,      \* the answers collected so far, one per call
    nextEntry,    \* the entry the publishing loop takes next
    errCount,     \* err_count of the current scrape
    created,      \* the series the gauges have: a new one shows 0 until it is set
    gauge,        \* what each series was last set to
    callErrors,   \* call_errors_total
    scrapeErrors, \* scrape_errors_total
    lastSuccess,  \* last_scrape_success_timestamp
    blockGauge,   \* rpc_block_number
    callsGauge,   \* calls_total
    chunksGauge,  \* chunks_total
    durationOf,   \* the scrape whose length scrape_duration_seconds shows
    lossSeen,     \* precision_loss_seen
    warnings,     \* history: precision-loss lines logged, per key
    warnFor,      \* the entry whose rounded value waits for its warning, or 0
    completed     \* history: "scrape complete" lines logged

cycleVars  == <<attempt, pinned, start, issued, results, nextEntry, errCount>>
statusVars == <<lastSuccess, blockGauge, callsGauge, chunksGauge>>
lossVars   == <<lossSeen, warnings, warnFor>>
seriesVars == <<created, gauge, callErrors, lossVars>>
vars == <<phase, cycleVars, seriesVars, statusVars, scrapeErrors, durationOf,
          completed>>

Phases    == {"idle", "resolving", "calling", "returned", "publishing",
              "stampBlock", "stampPlan", "stampDuration"}
Reasons   == {"block_not_available", "chunk_failed", "timeout"}
Statuses  == {"failed", "answered"}
\* "failed": the call reverted, or its answer is not what the decoder expects.
Result == [call: Nat, status: Statuses, block: Blocks, fork: Forks]
Sample == [call: 0..NumCalls, block: Blocks \cup {0}, fork: Forks \cup {"none"},
           scrape: Nat, lossy: BOOLEAN]

\* A series that no scrape has set: it is absent, or shows the 0 of its creation.
Unset == [call |-> 0, block |-> 0, fork |-> "none", scrape |-> 0, lossy |-> FALSE]

-----------------------------------------------------------------------------
\* Chunks: chunk_ranges of the driver, and the chunk count of the planner.

ChunkSize == IF MaxBatch = 0 \/ MaxBatch > NumCalls THEN NumCalls ELSE MaxBatch

ChunkEnd == IF start + ChunkSize < NumCalls THEN start + ChunkSize ELSE NumCalls

PlannedBatch == IF MaxBatch = 0 THEN NumCalls ELSE MaxBatch

\* Mutated form: the last, partial chunk is not counted.
FloorPlannedChunks == IF NumCalls = 0 THEN 0 ELSE NumCalls \div PlannedBatch

PlannedChunks ==
    IF NumCalls = 0 THEN 0
    ELSE NumCalls \div PlannedBatch + IF NumCalls % PlannedBatch > 0 THEN 1 ELSE 0

\* Mutated form: the length of an answer is not tested.
AnyFits(n) == TRUE

\* The length test of Multicall3Driver::call on an answer of n results.
ReplyFits(n) == n = ChunkEnd - start

\* The length test of scrape_once on what the driver returned.
AllAnswered == Len(results) = NumCalls

-----------------------------------------------------------------------------
\* What the answer to its call means for an entry.

\* Mutated form: the results are read in the order of the entries.
ResultInOrder(i) == results[IF i < NumCalls THEN i ELSE NumCalls]

ResultOf(i) == results[Plan[i].call]

Fails(i) == ResultOf(i).status = "failed" \/ Plan[i].kind = "other"

\* Whether the conversion rounds depends on the output and the scale of the
\* entry: two entries may read one call and only one of them round.
Roundings(i) == IF Plan[i].kind = "integer" THEN BOOLEAN ELSE {FALSE}

SampleOf(i, lossy) == [call   |-> ResultOf(i).call,
                       block  |-> ResultOf(i).block,
                       fork   |-> ResultOf(i).fork,
                       scrape |-> attempt,
                       lossy  |-> lossy]

-----------------------------------------------------------------------------
Init ==
    /\ phase = "idle"
    /\ attempt = 0 /\ pinned = 0 /\ start = 0 /\ issued = 0
    /\ results = <<>> /\ nextEntry = 1 /\ errCount = 0
    /\ created = {} /\ gauge = [s \in Series |-> Unset]
    /\ callErrors = [k \in ErrKeys |-> 0]
    /\ scrapeErrors = [r \in Reasons |-> 0]
    /\ lastSuccess = 0 /\ blockGauge = 0 /\ callsGauge = 0 /\ chunksGauge = 0
    /\ durationOf = 0
    /\ lossSeen = {} /\ warnings = [k \in LossKeys |-> 0] /\ warnFor = 0
    /\ completed = 0

\* run_scrape is called and scrape_once asks for the block of the tag.
StartScrape ==
    /\ phase = "idle"
    /\ attempt < MaxAttempts
    /\ phase' = "resolving"
    /\ attempt' = attempt + 1
    /\ pinned' = 0 /\ start' = 0 /\ issued' = 0
    /\ results' = <<>> /\ nextEntry' = 1 /\ errCount' = 0
    /\ UNCHANGED <<seriesVars, statusVars, scrapeErrors, durationOf, completed>>

CountFailure(reason) ==
    scrapeErrors' = [scrapeErrors EXCEPT ![reason] = @ + 1]

\* An early return of scrape_once: counted and timed.
GiveUp(reason) ==
    /\ CountFailure(reason)
    /\ durationOf' = attempt
    /\ phase' = "idle"
    /\ UNCHANGED <<cycleVars, seriesVars, statusVars, completed>>

\* The node names block b; with no planned call the driver returns at once.
ResolveBlock(b) ==
    /\ phase = "resolving"
    /\ pinned' = b
    /\ phase' = IF NumCalls = 0 THEN "returned" ELSE "calling"
    /\ UNCHANGED <<attempt, start, issued, results, nextEntry, errCount, seriesVars,
                   statusVars, scrapeErrors, durationOf, completed>>

\* Mutated form: a missing block is taken for block 0.
ResolveToZero ==
    /\ phase = "resolving"
    /\ pinned' = 0
    /\ phase' = "calling"
    /\ UNCHANGED <<attempt, start, issued, results, nextEntry, errCount, seriesVars,
                   statusVars, scrapeErrors, durationOf, completed>>

\* The node has no such block, or the request itself failed: one reason for both.
ResolveFails ==
    /\ phase = "resolving"
    /\ GiveUp("block_not_available")

\* Mutated form: a chunk asks for the tag again, not for the pinned block.
AnyBlock == Blocks

\* The block the node executes a chunk at.
AskedBlock == {pinned}

\* A chunk is answered by n results for the calls start+1, start+2, ...
AcceptChunk(n, statuses, fork) ==
    /\ phase = "calling"
    /\ ReplyFits(n)
    /\ \E b \in AskedBlock :
         results' = results \o [j \in 1..n |->
            [call |-> start + j, status |-> statuses[j], block |-> b, fork |-> fork]]
    /\ issued' = issued + 1
    /\ start' = start + ChunkSize
    /\ phase' = IF start' < NumCalls THEN "calling" ELSE "returned"
    /\ UNCHANGED <<attempt, pinned, nextEntry, errCount, seriesVars, statusVars,
                   scrapeErrors, durationOf, completed>>

\* Mutated form: a failed chunk is counted and the next one is tried.
CountChunkAndGoOn ==
    /\ phase = "calling"
    /\ CountFailure("chunk_failed")
    /\ UNCHANGED <<phase, cycleVars, seriesVars, statusVars, durationOf, completed>>

\* The request for a chunk fails, or its answer has the wrong length.
ChunkFails ==
    /\ phase = "calling"
    /\ GiveUp("chunk_failed")

\* scrape_once takes the driver's results.
CheckResults ==
    /\ phase = "returned"
    /\ IF AllAnswered
       THEN /\ phase' = "publishing"
            /\ UNCHANGED <<cycleVars, seriesVars, statusVars, scrapeErrors,
                           durationOf, completed>>
       ELSE GiveUp("chunk_failed")

\* Mutated forms: the deadline covers the first request only, or it can still
\* drop the cycle while it publishes.
AwaitsTagOnly == phase = "resolving"
AwaitsAndPublishes == phase \in {"resolving", "calling", "publishing"}

\* The awaits of scrape_once: nowhere else can the deadline drop it.
Awaiting == phase \in {"resolving", "calling"}

\* Mutated form: an elapsed deadline is not counted.
DropUncounted ==
    /\ Awaiting
    /\ phase' = "idle"
    /\ UNCHANGED <<cycleVars, seriesVars, statusVars, scrapeErrors, durationOf, completed>>

\* run_scrape's deadline passes first: the cycle is dropped where it awaits.
Timeout ==
    /\ Awaiting
    /\ CountFailure("timeout")
    /\ phase' = "idle"
    /\ UNCHANGED <<cycleVars, seriesVars, statusVars, durationOf, completed>>

-----------------------------------------------------------------------------
\* Publishing: no await from here on, so the cycle can no longer be dropped.

AtEntry == phase = "publishing" /\ nextEntry <= Len(Plan) /\ warnFor = 0

AfterEntries == phase = "publishing" /\ nextEntry > Len(Plan) /\ warnFor = 0

stepVars == <<phase, attempt, pinned, start, issued, results>>

\* Mutated form: the first failing entry ends the loop.
CountErrorAndStop ==
    /\ AtEntry /\ Fails(nextEntry)
    /\ callErrors' = [callErrors EXCEPT ![Plan[nextEntry].errKey] = @ + 1]
    /\ errCount' = errCount + 1
    /\ nextEntry' = Len(Plan) + 1
    /\ UNCHANGED <<stepVars, created, gauge, lossVars, statusVars, scrapeErrors,
                   durationOf, completed>>

\* Mutated form: the series of a failing entry is removed.
CountErrorAndDrop ==
    /\ AtEntry /\ Fails(nextEntry)
    /\ callErrors' = [callErrors EXCEPT ![Plan[nextEntry].errKey] = @ + 1]
    /\ errCount' = errCount + 1
    /\ gauge' = [gauge EXCEPT ![Plan[nextEntry].series] = Unset]
    /\ created' = created \ {Plan[nextEntry].series}
    /\ nextEntry' = nextEntry + 1
    /\ UNCHANGED <<stepVars, lossVars, statusVars, scrapeErrors,
                   durationOf, completed>>

\* A revert or a decode error: counted, and the gauge keeps what it shows.
CountCallError ==
    /\ AtEntry /\ Fails(nextEntry)
    /\ callErrors' = [callErrors EXCEPT ![Plan[nextEntry].errKey] = @ + 1]
    /\ errCount' = errCount + 1
    /\ nextEntry' = nextEntry + 1
    /\ UNCHANGED <<stepVars, created, gauge, lossVars, statusVars, scrapeErrors,
                   durationOf, completed>>

\* Mutated form: the line is logged before the set is consulted.
WarnAlways(key) ==
    /\ lossSeen' = lossSeen \cup {key}
    /\ warnings' = [warnings EXCEPT ![key] = @ + 1]

\* warn_precision_loss_once: the set insertion decides who logs.
WarnOnce(key) ==
    /\ lossSeen' = lossSeen \cup {key}
    /\ warnings' = IF key \in lossSeen THEN warnings
                   ELSE [warnings EXCEPT ![key] = @ + 1]

\* with_label_values: a series the gauge does not have yet is created, at 0.
CreateSeries ==
    /\ AtEntry /\ ~Fails(nextEntry)
    /\ Plan[nextEntry].series \notin created
    /\ created' = created \cup {Plan[nextEntry].series}
    /\ UNCHANGED <<stepVars, nextEntry, errCount, gauge, callErrors, lossVars,
                   statusVars, scrapeErrors, durationOf, completed>>

\* The series is set; a value that was rounded is still to be warned of.
SetGauge ==
    /\ AtEntry /\ ~Fails(nextEntry)
    /\ Plan[nextEntry].series \in created
    /\ \E lossy \in Roundings(nextEntry) :
         /\ gauge' = [gauge EXCEPT ![Plan[nextEntry].series] = SampleOf(nextEntry, lossy)]
         /\ warnFor' = IF lossy THEN nextEntry ELSE 0
    /\ nextEntry' = nextEntry + 1
    /\ UNCHANGED <<stepVars, errCount, created, callErrors, lossSeen, warnings,
                   statusVars, scrapeErrors, durationOf, completed>>

WarnPrecision ==
    /\ phase = "publishing" /\ warnFor > 0
    /\ WarnOnce(Plan[warnFor].lossKey)
    /\ warnFor' = 0
    /\ UNCHANGED <<phase, cycleVars, created, gauge, callErrors, statusVars,
                   scrapeErrors, durationOf, completed>>

\* Mutated form: a scrape with failed entries returns before the stamps.
StampTimeIfClean ==
    /\ AfterEntries
    /\ IF errCount = 0
       THEN /\ phase' = "stampBlock"
            /\ lastSuccess' = attempt
            /\ UNCHANGED completed
       ELSE /\ phase' = "idle"
            /\ completed' = completed + 1
            /\ UNCHANGED lastSuccess
    /\ UNCHANGED <<cycleVars, seriesVars, blockGauge, callsGauge, chunksGauge,
                   scrapeErrors, durationOf>>

\* The self-metrics are set one after the other, in this order.
StampTime ==
    /\ AfterEntries
    /\ phase' = "stampBlock"
    /\ lastSuccess' = attempt
    /\ UNCHANGED <<cycleVars, seriesVars, blockGauge, callsGauge, chunksGauge,
                   scrapeErrors, durationOf, completed>>

StampBlock ==
    /\ phase = "stampBlock"
    /\ phase' = "stampPlan"
    /\ blockGauge' = pinned
    /\ UNCHANGED <<cycleVars, seriesVars, lastSuccess, callsGauge, chunksGauge,
                   scrapeErrors, durationOf, completed>>

StampPlan ==
    /\ phase = "stampPlan"
    /\ phase' = "stampDuration"
    /\ callsGauge' = NumCalls
    /\ chunksGauge' = PlannedChunks
    /\ UNCHANGED <<cycleVars, seriesVars, lastSuccess, blockGauge,
                   scrapeErrors, durationOf, completed>>

StampDuration ==
    /\ phase = "stampDuration"
    /\ phase' = "idle"
    /\ durationOf' = attempt
    /\ completed' = completed + 1
    /\ UNCHANGED <<cycleVars, seriesVars, statusVars, scrapeErrors>>

-----------------------------------------------------------------------------
Resolve == \/ \E b \in Blocks : ResolveBlock(b)
           \/ ResolveFails

ReplyChunk == \E n \in 0..ChunkSize + 1, fork \in Forks :
                 \E statuses \in [1..n -> Statuses] : AcceptChunk(n, statuses, fork)

PublishEntry == CountCallError \/ CreateSeries \/ SetGauge \/ WarnPrecision

Publish == PublishEntry \/ StampTime \/ StampBlock \/ StampPlan \/ StampDuration

Next == \/ StartScrape \/ Resolve \/ ReplyChunk \/ ChunkFails \/ CheckResults
        \/ Timeout \/ Publish

(***************************************************************************)
(* The scrape task is polled again after each local step, and tokio fires  *)
(* a timer that is due; a node owes no answer.                             *)
(***************************************************************************)
Fairness == WF_vars(Timeout) /\ WF_vars(CheckResults) /\ WF_vars(Publish)

Spec == Init /\ [][Next]_vars /\ Fairness
-----------------------------------------------------------------------------
(***************************************************************************)
(* Properties                                                              *)
(***************************************************************************)

\* Every variable keeps its type: the counters are naturals, a gauge holds a
\* sample or is unset, the results are answers of the node.
TypeOK ==
    /\ phase \in Phases
    /\ attempt \in Nat /\ pinned \in Blocks \cup {0} /\ start \in Nat
    /\ issued \in Nat /\ results \in Seq(Result) /\ nextEntry \in 1..Len(Plan) + 1
    /\ errCount \in Nat
    /\ created \subseteq Series /\ gauge \in [Series -> Sample]
    /\ callErrors \in [ErrKeys -> Nat]
    /\ scrapeErrors \in [Reasons -> Nat]
    /\ lastSuccess \in Nat /\ blockGauge \in Blocks \cup {0}
    /\ callsGauge \in Nat /\ chunksGauge \in Nat /\ durationOf \in Nat
    /\ lossSeen \subseteq LossKeys /\ warnings \in [LossKeys -> Nat]
    /\ warnFor \in 0..Len(Plan)
    /\ completed \in Nat

\* While chunks of a few calls each are collected, the i-th result is the answer
\* to the i-th planned call, at the block the scrape pinned: the driver's length
\* test keeps a short or long answer from shifting the answers that follow it
\* (multicall.rs:116), and every chunk asks for the pinned block.
ResultsAligned ==
    \A i \in 1..Len(results) : results[i].call = i /\ results[i].block = pinned

Gathered == phase \in {"returned", "publishing", "stampBlock", "stampPlan", "stampDuration"}

\* The chunk count the planner computes with div_ceil and exports
\* (planner.rs:334) is the number of aggregate3 calls the driver's own chunking
\* makes (multicall.rs:49), and by then every planned call is answered, so the
\* length test of scrape_once (exporter.rs:173) never fails with this driver.
ChunksMatchPlan == Gathered => issued = PlannedChunks /\ AllAnswered

InProgress == IF phase = "idle" THEN 0 ELSE 1

Failures == scrapeErrors["block_not_available"] + scrapeErrors["chunk_failed"]
            + scrapeErrors["timeout"]

\* Each scrape ends exactly once, as completed or under one reason: a deadline
\* that races the last answer of the node never counts a scrape twice
\* (exporter.rs:123), and none is forgotten.
AttemptsAccounted == attempt = completed + Failures + InProgress

BeingSet(s) == AtEntry /\ ~Fails(nextEntry) /\ Plan[nextEntry].series = s

\* A series shows the answer to a call that one of its own entries reads, decoded
\* as a number, or else the 0 it was created with, and that only until the very
\* next step of the loop, which sets it: an entry that fails leaves no 0 behind.
\* A rounded value has had the precision warning of its entry, or the warning is
\* what the loop does next (exporter.rs:189-208).
GaugeOfOwnCall ==
    \A s \in created :
        \/ gauge[s] = Unset /\ BeingSet(s)
        \/ \E i \in 1..Len(Plan) :
            /\ Plan[i].series = s /\ Plan[i].call = gauge[s].call
            /\ Plan[i].kind # "other"
            /\ gauge[s].lossy => warnings[Plan[i].lossKey] = 1 \/ warnFor = i

\* Between publications the page is coherent: no gauge is newer than the last
\* success, and each one set by that scrape is of the block rpc_block_number
\* names, whatever failed or timed out since (exporter.rs:188-230).
PageCoherent ==
    phase \in {"idle", "resolving", "calling", "returned"} =>
        \A s \in Series :
            /\ gauge[s].scrape <= lastSuccess
            /\ gauge[s].scrape = lastSuccess /\ lastSuccess > 0
               => gauge[s].block = blockGauge

Stamping == phase \in {"stampBlock", "stampPlan", "stampDuration"}

\* One failing entry costs only itself: when the publishing loop is over, every
\* entry that decoded is shown as of this scrape, a series none of whose entries
\* decoded keeps an older sample, and err_count is the number of failed entries
\* (the continue of exporter.rs:199).
PublishedAll ==
    Stamping =>
        /\ errCount = Cardinality({i \in 1..Len(Plan) : Fails(i)})
        /\ \A s \in Series :
             gauge[s].scrape = attempt
             <=> \E i \in 1..Len(Plan) : Plan[i].series = s /\ ~Fails(i)

\* A precision loss is logged once per metric and address for the whole life of
\* the exporter, across scrapes (exporter.rs:254).
WarnedOnce == \A k \in LossKeys : warnings[k] = IF k \in lossSeen THEN 1 ELSE 0

\* README.md:192, "All gauges retain their last-known values across scrape
\* failures": the step that counts a scrape as failed, by whatever reason and
\* however late, finds nothing of this scrape published.
FailureLeavesNoTrace ==
    [][scrapeErrors' # scrapeErrors =>
          /\ gauge' = gauge /\ callErrors' = callErrors
          /\ \A s \in Series : gauge[s].scrape < attempt
          /\ lastSuccess < attempt]_vars

\* The gauges set by one scrape read one block number.  The chain behind that
\* number may change between two requests (multicall.rs:95 pins by number), so
\* only those answered in the same chunk are sure to read the same chain:
\* README.md:6, "every scrape interval it pins a block", holds in that sense.
ChunkOf(call) == (call - 1) \div ChunkSize

OneChainState ==
    \A s, t \in Series : gauge[s].scrape = gauge[t].scrape =>
        /\ gauge[s].block = gauge[t].block
        /\ ChunkOf(gauge[s].call) = ChunkOf(gauge[t].call) => gauge[s].fork = gauge[t].fork

\* A scrape ends, even when the node never answers: the deadline of run_scrape
\* covers every await (exporter.rs:123).
ScrapeEnds == phase # "idle" ~> phase = "idle"

-----------------------------------------------------------------------------
(***************************************************************************)
(* What the documents say and the code does not do                         *)
(***************************************************************************)

\* metrics.rs:53: the time is that "of the last fully successful scrape".
SuccessMeansNoError == lastSuccess = attempt => errCount = 0
=============================================================================
