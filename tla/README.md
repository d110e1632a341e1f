# Verification of evm-contract-exporter

TLA+ models of the exporter in `src/`, checked with TLC on small instances, and
theorems about them proved with TLAPS for all values of the constants. Paths such
as `exporter.rs` are relative to `src/src/`.

## 1. The system

The exporter reads `view` functions of EVM contracts on a fixed schedule and
serves the values as Prometheus gauges.

| Component | State it keeps | Operations | Talks to |
|---|---|---|---|
| Configuration (`config.rs`, `config/`) | the validated `Config` | load, expand `${ENV}`, defaults, offline validation, name inference, argument conversion | planner, start-up |
| Planner (`planner.rs`) | the `Plan`: calls, entries, chunk count; one registered gauge per metric name | `build` | registry |
| Start-up (`main.rs`, `Exporter::new`) | – | load, dial, probe chain id and block tag, build the plan, register the self metrics; validate only, or run | node, planner |
| Scrape cycle (`exporter.rs`: `run_scrape`, `scrape_once`) | gauges, self-metrics, `precision_loss_seen` | resolve the tag, call, decode, publish, stamp | node (through the driver), registry |
| Multicall driver (`multicall.rs`) | – | split the calls in chunks, send `aggregate3`, test lengths | node |
| Decoder (`decoder.rs`) | – | decode one output to `f64`, flag lost precision | – |
| Scrape loop (`exporter.rs`: `run`) | interval ticker, cancellation token | initial scrape, tick or cancel, join the server | scrape cycle, server, signals |
| HTTP server (`server.rs`) | listener, requests in flight | bind, serve `/metrics` and `/healthz`, drain | registry, loop |
| Self metrics (`metrics.rs`) | eight metrics | register, `set_build_info` | registry |
| Signal handler (`main.rs`) | – | cancel on SIGTERM or ctrl-c | token |

The scrape task and the server task run on a multi-threaded runtime. They share the
registry (every gauge is an atomic of its own: there is no lock around a scrape) and
the cancellation token. The node is outside: it may answer late, never, with a null
block, with an error, or with a chunk of the wrong length.

**What is hard here.**

- `run_scrape` puts a deadline around `scrape_once`, so the cycle may be dropped at
  each of its awaits. That a failed scrape leaves the page alone rests on there being
  no await after the first gauge is set.
- A scrape is several requests. One may fail after others succeeded, and they are tied
  together by a block *number*.
- Some entries of a scrape fail and the others are published; the failed ones keep
  the value of an older scrape, so one page mixes scrapes by design.
- Each way out of `scrape_once` sets its own subset of the self-metrics.
- The chunk count is computed in two places in two ways.
- Slow scrapes overlap the schedule; the tick and the cancellation race in `select!`.
- Shutdown waits for the server, which waits for its clients; a bind failure is noticed
  only at shutdown.
- The planner shares calls and unions label keys over contracts while it is still
  going over them.
- A page is gathered on another thread while the gauges are set one by one; a new series
  shows 0 between its creation and its first value.
- Start-up waits for two probes that have no deadline; signals may come before, while
  and after their handlers are installed, and only the first one counts. Without a
  handler a signal kills, unless the process is the init of its container, as in the
  repository's image (Dockerfile:26): there it is ignored.
- Validation, the planner and the decoder look the same things up on their own: what one
  accepts, the others take for granted.

What makes each component correct: for the *scrape*, results never shift between
calls, each attempt is accounted for once, a failure leaves no trace, a success
updates the page as if in one step; for the *driver*, its chunks are the planned ones
and cover every call once; for the *loop*, the schedule never drifts, ticks are never
made up for, scrapes recur and stop; for the *planner*, it is complete, shares exactly
the equal calls, and its schemas and labels do not depend on the order of things; for a
*page*, it mixes at most two scrapes and only while one is published; for the *process*,
nothing scrapes unprobed and a signal that is not ignored ends it; for the *configuration*,
what is accepted can be planned, registered and run.
PROJECT.json `hazards` lists these at their lines with the properties that cover them.

## 2. The modules

| Module | What it is |
|---|---|
| `Scrape` | the scrape cycle and the driver, with its properties |
| `ScrapeBoard` | abstract specification: a scrape updates the page in one step, or not at all |
| `ScrapeRefinement` | the mapping under which `Scrape` implements `ScrapeBoard` |
| `MetricsPage` | EXTENDS `Scrape`: a page gathered beside a scrape |
| `ScrapeLoop` | the loop, the ticker, the server task and the cancellation, over discrete time; scrapes are opaque |
| `Exporter` | composes `Scrape` and an instance of `ScrapeLoop` |
| `Process` | EXTENDS `ScrapeLoop`: start-up, probes, signals, exit status |
| `Planner` | `planner::build` with metric naming, then the registration of the self metrics |
| `Validation` | defaults and offline validation, then what `build` looks up again |
| `Conversions` | `expand_env` and `camel_to_snake`, over characters |
| `MC...` | instances of these for TLC |
| `ScrapeProofs`, `RefinementProofs`, `PageProofs` | theorems about `Scrape`, `ScrapeRefinement`, `MetricsPage` |
| `LoopProofs` | theorems about `ScrapeLoop` and about `Process` around it |
| `ExporterProofs` | theorems about `Exporter` |
| `PlannerProofs`, `ValidationProofs`, `ConversionsProofs` | theorems about `Planner`, `Validation`, `Conversions` |

Definitions that start with the comment "Mutated form" are not used by any
specification. Each is a plausible bug of the definition below it; PROJECT.json
`mutants` says which property finds it.

### Scrape

A record in `gauge` says where a value comes from – call, block, fork, scrape – and
whether it was rounded, instead of being a float; a time set in a self-metric is the
number of the scrape that set it. `created` are the series the gauges have, `warnFor`
the entry between its `set` and its warning. The variables marked *history* are not in
the program; they count log lines and scrapes that properties speak of.

| Action | Code |
|---|---|
| `StartScrape` | `run_scrape` is entered, the tag request is sent (exporter.rs:121, 140) |
| `ResolveBlock`, `ResolveFails` | the answer: a number; a null block or an error (146-157, 283) |
| `AcceptChunk`, `ChunkFails` | a chunk of the right length; an error or a wrong length (multicall.rs:113-125, exporter.rs:161-171) |
| `CheckResults` | the second length test (exporter.rs:173) |
| `Timeout` | the deadline, at the awaits only (exporter.rs:126) |
| `CountCallError` | a revert or a decode error: one turn of the publishing loop (192-200, 210-221) |
| `CreateSeries` | `with_label_values` of a series that does not exist: it shows 0 (205) |
| `SetGauge` | `with_label_values` of one that does, and `set` (205) |
| `WarnPrecision` | `warn_precision_loss_once`, after a rounded value was set (206-208, 254) |
| `StampTime` … `StampDuration` | the stamps in their order (225-252) |

`tokio::time::timeout` polls the scrape before the timer, so a scrape that is done in
the same instant counts as done: `Timeout` and the last answer exclude each other, as
in the model. Publishing an entry is up to three steps although nothing in the scrape task can
come between them, because the server's thread can: a page may show the 0 of a series just
created, or a rounded value that has not been warned of yet. `GaugeOfOwnCall` says that
this is all it may show, and that the very next step mends it. An answer's length ranges
from none to one more than asked for, its results are `failed` (a revert, or what the
decoder expects not to get) or `answered`. An entry's `kind` says whether the decoder
takes its output for an integer, a bool, or refuses it, and `Roundings` which conversions
may round: those of integers, entry by entry, as each has its own output and scale.

`ScrapeRefinement` maps the moment `CheckResults` accepts the results to the abstract
commit: the entries still to publish are counted as published, the stamps as set.

### ScrapeLoop

Time is relative (`elapsed`, `due`), so the state is finite without a bound on the
length of a run. A ready task runs before time passes (`Ready` disables `Tick`). The
ticker is tokio's `interval` with `MissedTickBehavior::Skip`, modelled in `NextDue`
from how `run` uses it. `select!` polls its branches in random order, so a ready tick
may win over a cancelled token. `gridPos`, `startsInCell`, `sinceStart`, `firstGap`
and `sinceCancel` are history.

### MetricsPage

`Ask`, `Gather(c)` and `AnswerPage` are one request; `ScrapeStep` is any step of
`Scrape`. The registry keeps its collectors in a hash map, so they are read in any
order, and each value is an atomic. A page has the series that existed when their gauge was
read (`shown`). `CollectorAssumption` says that no series has the
name of one of the two self-metrics a page holds; that the planner keeps it so is
`UniformSchema`. A request changes nothing, so that one client that
asks again and again stands for many. `writers` (history) are the scrapes that were
publishing at some moment of the request.

### Exporter

`Loop == INSTANCE ScrapeLoop`. Its opaque scrape is joined with the cycle of `Scrape`:
`Begin` starts the cycle when `run_scrape` is polled, `Return` lets the loop go on once
it is idle, `Expire` is `DeadlineFires` and `Timeout` in one step. Time passes only
while the cycle or, outside of one, the loop awaits (`Wait`), so that no deadline is
reached in the publishing loop.

### Process

`After` is the row of gates of `main::run` and `Exporter::new`. A local gate fails if it
is in `broken`, chosen at the start; a probe is answered right, wrong (which stands for
errors) or never. `Install` is the handler task making its SIGTERM stream, then polling
it with `ctrl_c`, in either order, as `select!` does: a SIGTERM that it finds first ends
the task without a handler for SIGINT. A signal without a handler kills, except if `pid1`
says that the process is the init of its container: then it is ignored. The image makes it
so (Dockerfile:26 is an exec-form ENTRYPOINT without an init), and the chart changes
nothing about it. A signal with a handler is noted, and after the first one the handlers
stay although the task has ended. `SignalEndsIt` is therefore about the signals that are
`Heeded`: all of them for a process of its own, and for an init those that come once its
handlers are installed, so that there a silent node does hold the start against SIGTERM.

### Validation

A configuration has the fields the checks read (`Config` and the types in it, which follow
the structs of config.rs); `InputAssumption` says that the inputs are such configurations
and ABIs. Labels are sets of keys, arguments their
number. `ApplyDefaults`, `CheckTop` and one `CheckContract` per contract are `load`;
`Build` is the lookups of the planner over what came through. Names are model values:
`Invalid` ones are outside the Prometheus grammar, `Unusable` ones also behind a prefix.
`NameParts` is what naming.rs makes a name of, for `GaugesCanBeMade` to compare with what
validation let through.

### Conversions

One step per iteration of either loop. The properties compare the output with a
definition of what it should be: `Expansions`, which knows all references of the template
at once, and `SnakeWords`, from the words of the phrase the camel case was made of.
`KeepsWords` speaks of the phrases whose capitals show their words (`Clear`): in `feeAPRX`
nothing tells where the acronym ends, and in `API1K` the `K` behind a digit begins a word.
Characters are two letters in both cases, two digits and, in templates, the marks.

### Planner

One step per iteration of the four nested loops, then one step per registered gauge in
any order (the code iterates over a `HashMap`), then the entries, then the self metrics
in the same registry. The errors left after validation are modelled: an address that
does not parse, arguments that cannot be encoded, conflicting help texts, a name or
label key the registry refuses, a name the self metrics need. An entry has its call, its
decode target (function, output and field, by the field's name) and its column values; the
scale goes with the arithmetic that is left out. `Scrape` assumes that an
entry's call is one of the plan's calls (`PlanAssumption`); `ReadsOwnCall` says so of
`Planner`. `InputAssumption` says that the lists of a configuration are finite and that a
metric names a function of the ABI, which `Validation` has made sure of by then.

## 3. The runs

All passing runs end with the state space exhausted.

| Run | Instance | Shows |
|---|---|---|
| `scrape` | 3 calls in chunks of 2 (a full and a partial chunk), 4 entries (two on one call, two on one series and one loss key), 2 blocks, 2 forks, 2 scrapes | all properties of `Scrape`, and that it implements `ScrapeBoard` |
| `loop` | interval and timeout 3/2, 2/2, 2/5 | schedule, recurrence and exit, whether or not scrapes can outlast the interval |
| `planner` | 900 configurations | the properties of the planner |
| `page` | 2 gauges in two chunks, 2 blocks, 2 scrapes, any number of requests | what a reader can see while a scrape publishes |
| `exporter` | 2 calls in two chunks, 3 scrapes, timings 2/1, 3/2, 1/2 | the loop and the scrapes together under a node that may stay silent |
| `process` | every gate failing or none, both probes, both signals, as the init of a container or not, timings 3/2, 2/3 | start, stop and exit status |
| `config` | 2,800 configurations around a valid one | acceptance means that the rest of the program can rely on it |
| `conversions` | 54,900 texts | both conversions against their definitions |

**Bounds.** Two scrapes are enough for what relates one scrape to an earlier one (a
value kept, a warning not repeated, a stamp left behind): the properties compare a
scrape with at most one before it. Two blocks tell "pinned" from "not pinned", two forks
one chain from two. `page` overlaps a request with no, one and two publications.
`exporter` needs three scrapes for a silence of more than two failures.
`MaxAttempts` is the only bound of `Scrape`; the theorems hold for all of its values.
In `ScrapeLoop`, `MaxRequests` bounds the requests in flight, one being enough to
hold a shutdown (none in `exporter`, which says nothing of clients), and
`SinceCancelCap` the history after a cancellation. Interval 2 and timeout 5 let a scrape
miss zero, one or two ticks and end on or between them. At most one local gate of
`Process` is broken, since the first one ends the process. The texts of `conversions`
hold two references, nested and unclosed braces, and an environment value that looks
like a reference; its phrases hold up to four words of up to three characters.
`CHECK_DEADLOCK` is off where the model stops on purpose: at `MaxAttempts`, after the
process has exited, and when a plan is built or a configuration or text is done.

**Fairness.** `Scrape`: a due timer fires (`Timeout` stays enabled across the awaits of
a cycle) and local steps are taken; nothing is assumed of the node. `ScrapeLoop`: time
goes on and ready tasks are polled; `TakeCancel` is strongly fair because `select!`
draws the branch to poll first at random, and only with scrapes as long as the
interval can the tick be ready each time. `Exporter` and `Process` take these over, part
by part; in `Process` the start-up code and the handler task run too, and neither an
answer to a probe nor a signal is assumed. Nothing is assumed of clients: that the
exporter exits is stated for clients that do not hold a request open for ever.

**Runs that expect a violation** each check one statement of a document or comment that
the code does not keep; PROJECT.json `findings` quotes it.

| Run | The code |
|---|---|
| `success_with_errors` | "last fully successful" is stamped although calls failed |
| `metric_labels_dropped` | `metrics[].labels` are never applied |
| `non_numeric_accepted` | outputs without `field` are not checked for their type, nor are fields of arrays |
| `startup_unbounded` | `request_timeout` bounds no request: a silent node holds the start |

More disagreements show in the models without a run of their own:

- a timed-out scrape does not set the duration gauge, "most recent scrape attempt"
  (exporter.rs:126, metrics.rs:33), and logs nothing (README.md:210);
- an RPC error while resolving the tag is counted as `block_not_available`; `rpc_error`
  never is (exporter.rs:146, README.md:187-188);
- chunks are tied by block number: if the chain behind it changes, one scrape publishes
  values of two states (multicall.rs:95, README.md:6). `OneChainState` says what does
  hold: one number per scrape, one chain per chunk;
- two calls of one metric without labels of their own write one series, the last one
  prevailing (planner.rs:321 and :16);
- a scrape that pinned a block and then failed does not export its number
  (exporter.rs:230, README.md:174);
- one failed call is counted once for each entry that reads it (exporter.rs:192,
  metrics.rs:47);
- `calls_total` and `chunks_total` are called counters of the "Total" of calls and chunks
  issued (README.md:175-176); they are gauges, set in each successful scrape to the numbers
  of the plan (metrics.rs:59-66, exporter.rs:231-236);
- a page may show a 0 that no contract returned, between the creation of a series and its
  first value (exporter.rs:205). `TornBetweenTwo` says when it can, `UntornPageCoherent`
  that it cannot otherwise;
- in the repository's image a signal sent before main.rs:108-110 is ignored, so that a
  start held by a silent node is not even ended by SIGTERM (Dockerfile:26);
- the name of the output of a single-output function replaces the metric name instead of
  being appended (naming.rs:81, README.md:137).

## 4. The proofs

Every safety property and every action property that a passing run checks is a theorem for
all values of the constants. The assumptions are those named in the modules, and TLC
evaluates them on every run:

| Assumption | Says | Why the code justifies it |
|---|---|---|
| `CountAssumption`, `PlanAssumption`, `ChainAssumption` (`Scrape`) | counts are naturals, an entry is of one of the plan's calls, block numbers are positive | `usize`; `ReadsOwnCall` of the planner; 0 and "none" mark what is absent |
| `TimeAssumption` (`ScrapeLoop`), `TimingAssumption` (`Exporter`) | interval and timeout are positive, the requests in flight are counted | `apply_defaults` replaces zero (`AcceptedRuns`) |
| `CollectorAssumption` (`MetricsPage`) | a series is none of the self-metrics | one registry refuses a name twice; `UniformSchema` |
| `InputAssumption` (`Planner`) | lists are finite, a metric's function is in the ABI | `Vec`; `Validation` |
| `NameAssumption`, `InputAssumption` (`Validation`) | what no prefix can repair is invalid; configurations and ABIs have the types of config.rs | serde; an overload list is never empty |
| `InputAssumption` (`Conversions`) | texts are sequences of characters, words begin with a letter | `String`; an identifier of Solidity cannot begin with a digit |

**`ScrapeProofs`**

- `TypeCorrect`, `Aligned`, `ChunkCount`. `TypeOK` is not inductive: publishing reads
  `results` by the number of a call, which is in range only once all chunks were
  accepted. `IInv` adds `ResultsAligned` and `Chunking`: while calling, `start` is the
  number of results and `issued` times the chunk size; afterwards all calls are
  answered. That the chunks sent are the planned `div_ceil` is `LastChunkIsPlanned`,
  from `CeilingIsUnique`: a number between two consecutive multiples determines the
  quotient rounded up.
- `Accounted`: `AttemptsAccounted` is inductive relative to `IInv`.
- `Coherent`, `NoTrace`. `PageCoherent` says nothing while a scrape publishes;
  `Coherence` adds what is already certain then: the gauges of the scrape are of the
  pinned block, the time is stamped before the block, and before the decision nothing
  is of this scrape (`Fresh`). `FailingStep` shows that only a scrape that has decided
  nothing is ever counted as failed, from which the action property follows.
- `LossLoggedOnce`: `WarnedOnce` is inductive relative to `TypeOK`.
- `OwnCall`: `GaugeOfOwnCall` is inductive relative to `IInv` and `WarnedOnce` once it is
  told that a series which does not exist was never set (`OwnInv`). `CreateSeries` leaves
  the 0 to the step that is the only one enabled next, `SetGauge` replaces it by the
  entry's own result (`ResultsAligned`) and leaves the warning due, and that
  `WarnPrecision` gives it, or had given it before, is `WarnedOnce`. A step of another
  entry finds the loop with no series half made (`OwnedUnlessBeingSet`).
- `AllPublished`: `PublishedAll` speaks of the end of the publishing loop; `Published`
  says at entry `n` what has been done for the entries before it, and `OneMoreEntry` that
  the failed ones among them are counted one by one.
- `OneChain`: gauges agree on a chain because the results they were made of do
  (`OneForkPerChunk`), and what a gauge shows of the current scrape is one of its results
  (`OfResults`). `ChunkOfCall` is the arithmetic: a call belongs to the chunk that its
  number divided by the chunk size names.

**`RefinementProofs`** proves `ScrapeImplementsBoard`: the initial states map to initial
states of `ScrapeBoard`, and each step to a step of it or to none. `StartScrape` is
`Begin`; each way to fail, the deadline among them, is `Fail`; `CheckResults` is
`Commit`. All of publishing is invisible: setting a gauge moves its entry from the
pending ones to the shown ones, and the last pending entry of a series decides what is
counted as shown, so the proof is about what is last (`LastExists`, by well-foundedness)
before and after one entry is taken away. It uses `IInv`, `Coherence` and `Published`.

**`PageProofs`** proves `UntornPages`, `TearsAreClean` and `PagesMoveForward`. `PageInv`
follows a request through the scrapes beside it: with no writer since it began, the
registry is the one it found, and settled (`Untouched`); with one, each gauge is as found
or of that scrape (`FoundOrOf`), and so is each that was read (`OneWriter`); no series goes
away, and one that was not found had not been set (`NoneWithdrawn`); and what was read lies
between the page before and the registry (`Forward`). `WhoWrites` is what all three need of
a step of `Scrape`. That a series shows 0 only just before it is set comes from `ScrapeInv`,
the invariants of `ScrapeProofs` together (`ShownUnlessBeingSet`).

**`LoopProofs`** proves all safety properties of `ScrapeLoop`: `LoopTypeCorrect`,
`NeverOffGrid`, `AtMostOnePerInterval`, `GapIsBounded`, `ExactInterval`, `StopIsPrompt`,
`ExitIsTheServers`. They hold each other up, and `LoopInv` is their conjunction with what
relates the clocks: the time in a scrape bounds the lag of the ticker (`Timed`), the place
in the grid and the lag add up to a multiple of the interval, beyond the cell that has
seen a scrape begin (`Gridded`), and the time since a scrape began and the time to the
next deadline add up to an interval at most (`Paced`). `Gridded` holds the multiple as a
number, since `%` is not linear; `NextDueOnGrid` is Skip's arithmetic.

Its second part is about `Process`, which takes, as seen by the loop, only steps of
`ScrapeLoop` (`ProcessRunsLoop`). So `LoopInv` holds in it and the schedule with it
(`ProcessKeepsSchedule`); from that and what the gates let through (`Passed`) follow
`NothingUnproven` and `CleanExitsOnly`.

**`ExporterProofs`** proves that the composition takes only steps of `Scrape`
(`ExporterRunsScrapes`) and of `ScrapeLoop` (`ExporterRunsLoop`); that all safety of
`Scrape` therefore holds in it (`ExporterKeepsScrapesSafe`, which asks no fairness of the
scrapes); and what neither has alone: `CyclesAreAwaited` and
`SilenceIsCounted`. The latter is an account (`Silence`): the scrapes since the last
success are those counted as failed and one that may still owe its outcome, each of them
accounts for one gap, and the first for the wait for the ticker too. A failure moves its
scrape from one side to the other, a success clears both, a tick opens the next entry.
`Clocks` bounds the gap that it closes.

**`PlannerProofs`** proves all properties of `Planner`. `PlannerInv` says what the nested
loops have done for the iterations behind them and that they have done nothing for the
others: one draft per output, however many, in the order of the loops and the outputs, of
the right call and with the decode target of its output (`Decodes`). `TableInv` says the same of
the tables by name: the help of a name is the only non-empty one that the iterations
behind give it (`Helped`), so that conflicts are found in whatever order the texts come;
its keys cover the labels of each of them (`Keyed`); and the entries show what the
complete tables say (`Emitted`).

**`ValidationProofs`** proves all properties of `Validation` that should hold:
`AcceptedIsSafe`, `FieldsAreNumbers`, `GaugesAreMade`. The invariant is that contracts
are checked in order without one passed over (`Progress`, `Valid`) and that the defaults
left no zero. `ValidIsPlannable` is the lemma about the code: each lookup of `build`
succeeds on a contract that validation found valid.

**`ConversionsProofs`** proves both properties of `Conversions`: `ExpandsOnce` and
`WordsAreKept`. Either loop keeps that what it has put out are the pieces of its reference
up to its position, flattened (`Expanding`, `Snaking`), and each step adds one piece
(`FlatNext`), or the piece of a whole reference and the empty ones of the places inside of
it (`FlatSkips`).

- `FlattenSeq` is recursive. That its recursion has a solution on each length is proved
  from the least length that has none (`FlattensExists`), and every fact about it in the
  same way, by the least counterexample.
- The loop looks for the first closing brace, `References` allows any. They are the same
  because a name holds no brace (`NamesArePlain`), so the first one behind a reference's
  opening is its own (`ReferenceIsFound`, `FoundIsReference`), and no reference begins
  inside of another (`NoneInside`).
- `Boundary` looks at one letter on either side. `WordsBegin` shows that it holds at the
  first letter of every word but the first, `WordsHold` that it holds at no other; where a
  letter of a word stands in the name is `PlaceOfLetter`. Both need all of `Clear`. Its
  second part, on digits in acronyms, was found by the proof: without it the statement
  is false of an acronym such as `X1Y`, which the instance of TLC now holds.

**Only model-checked.** Liveness (`ScrapeEnds`, `ScrapesRecur`, `CancelledExits`,
`ScrapesGoOn`, `SignalEndsIt`) rests on fairness, which this prover cannot reason about;
so does `StartupEnds`, which fails. The other runs that expect a violation refute what
they check. The two letters and two digits of `Conversions` are written into the module:
for all texts means for all texts over them, and `Cases` is the only lemma that goes over
them one by one.

## 5. Not modelled

- Floating-point values and the scaling arithmetic (decoder.rs:74-99): the flag of a
  rounded value is an input. The arithmetic is that of `rust_decimal` and `f64`.
- The conversion of each argument (args.rs:30-111): a dispatch to library parsers,
  without state. `Validation` counts arguments, `Planner` refuses those that do not
  convert. An unquoted `0x12` for a `bytes` argument is a number to YAML and is converted
  from its decimal digits.
- ABI and JSON encodings, YAML, the text format of `/metrics`, option parsing.
- Default texts (addresses, paths, the block tag): `Validation` has the defaults of what
  must not be zero.
- `build_info`, which is set once to a constant, and `/healthz`, which has no state.
- Logging, other than the lines a property counts. Signals on systems other than Unix.
- The chart, the image and the examples, which are not code of the program.

## 6. Plan

Done: `Scrape` first, as all values go through it; its abstract specification;
`ScrapeLoop`; `Planner`; the safety theorems of `Scrape`; then the page, the composition,
the process, the configuration and its conversions.

Then the theorems: the invariants of the page's chain and of the publishing loop, the
refinement, the page beside a scrape, the loop, the process, the planner, validation, the
composition, and last the conversions.

What remains is outside of the tools: a proof of the liveness properties, and the scaling
arithmetic of the decoder.
