----------------------------- MODULE PageProofs -----------------------------
(***************************************************************************)
(* Theorems about MetricsPage: what a request reads beside a scrape, for   *)
(* every plan, number of scrapes and order of the collectors.              *)
(***************************************************************************)
EXTENDS MetricsPage, ScrapeProofs

-----------------------------------------------------------------------------
(***************************************************************************)
(* The inductive invariant                                                 *)
(***************************************************************************)

Page == [shown : SUBSET Series, samples : [Series -> Sample], time : Nat,
         block : Blocks \cup {0}]

PageTypeOK ==
    /\ asking \in BOOLEAN /\ unread \subseteq Collectors
    /\ page \in Page /\ lastPage \in Page /\ atRequest \in Page

\* A registry in which no gauge is newer than the time of the last success, and
\* those of that scrape are of the exported block.
Settled(r) ==
    \A s \in Series :
        /\ r.samples[s].scrape <= r.time
        /\ r.samples[s].scrape = r.time /\ r.time > 0 => r.samples[s].block = r.block

\* What the request has read is what it found.
ReadAtRequest ==
    /\ \A s \in Series \ unread : page.samples[s] = atRequest.samples[s]
    /\ "last_scrape_success_timestamp" \notin unread => page.time = atRequest.time
    /\ "rpc_block_number" \notin unread => page.block = atRequest.block

\* A scrape that publishes is among the writers; without one nothing has changed.
Untouched ==
    asking =>
        /\ Publishing => attempt \in writers
        /\ writers = {} => Registry = atRequest /\ Settled(atRequest) /\ ReadAtRequest

\* A gauge is still as the request found it, or of the writer, and of the block of
\* what the request found if that was of the writer as well.
FoundOrOf(s, w) ==
    \/ gauge[s] = atRequest.samples[s]
    \/ /\ gauge[s].scrape = w
       /\ atRequest.samples[s].scrape = w => atRequest.samples[s].block = gauge[s].block

\* With one writer a gauge is as the request found it or of that writer, and what
\* was read of the writer is still shown, of the same block.
OneWriter ==
    \A w : asking /\ writers = {w} =>
        /\ \A s \in Series : FoundOrOf(s, w)
        /\ \A s \in Series \ unread :
             \/ page.samples[s] = atRequest.samples[s]
             \/ /\ page.samples[s].scrape = w /\ gauge[s].scrape = w
                /\ page.samples[s].block = gauge[s].block
        /\ lastSuccess \in {atRequest.time, w}
        /\ "last_scrape_success_timestamp" \notin unread => page.time \in {atRequest.time, w}

\* A series is never withdrawn, and one that the request did not find was not set.
NoneWithdrawn ==
    asking =>
        /\ atRequest.shown \subseteq created /\ page.shown \subseteq created
        /\ \A s \in Series \ unread : s \in atRequest.shown => s \in page.shown
        /\ \A s \in Series \ atRequest.shown : atRequest.samples[s] = Unset

\* The page answered before is behind the registry, and what was read since is
\* between the two.
Forward ==
    /\ lastPage.time <= lastSuccess
    /\ \A s \in Series : lastPage.samples[s].scrape <= gauge[s].scrape
    /\ asking =>
         /\ \A s \in Series \ unread :
              /\ lastPage.samples[s].scrape <= page.samples[s].scrape
              /\ page.samples[s].scrape <= gauge[s].scrape
         /\ "last_scrape_success_timestamp" \notin unread =>
              lastPage.time <= page.time /\ page.time <= lastSuccess

\* What the theorems about Scrape keep.
ScrapeInv == IInv /\ Coherence /\ ChainInv /\ WarnedOnce /\ OwnInv

PageInv == /\ ScrapeInv
           /\ PageTypeOK /\ Untouched /\ OneWriter /\ NoneWithdrawn /\ Forward

-----------------------------------------------------------------------------
(***************************************************************************)
(* What a step of the scrape task does to the registry                     *)
(***************************************************************************)

\* Only a scrape that publishes writes to the registry, its own values, and it
\* begins to publish without writing.
LEMMA WhoWrites ==
    ASSUME IInv, Coherence, [Next]_vars
    PROVE  /\ Publishing' => attempt' = attempt
           /\ \A s \in Series :
                \/ gauge'[s] = gauge[s]
                \/ Publishing /\ gauge'[s].scrape = attempt /\ gauge'[s].block = pinned
                   /\ (gauge[s].scrape = attempt => gauge[s].block = pinned)
           /\ gauge' = gauge \/ Publishing
           /\ lastSuccess' = lastSuccess \/ (Publishing /\ lastSuccess' = attempt)
           /\ blockGauge' = blockGauge \/ Publishing
           /\ created \subseteq created' /\ (created' = created \/ Publishing)
<1> USE DEF cycleVars, seriesVars, lossVars, statusVars, stepVars
<1>1. CASE SetGauge
  <2>1. /\ phase = "publishing" /\ UNCHANGED <<attempt, pinned, lastSuccess, blockGauge, created>>
    BY <1>1 DEF SetGauge, AtEntry
  <2>2. PICK lossy :
          gauge' = [gauge EXCEPT ![Plan[nextEntry].series] = SampleOf(nextEntry, lossy)]
    BY <1>1 DEF SetGauge
  <2>3. SampleOf(nextEntry, lossy).scrape = attempt /\ SampleOf(nextEntry, lossy).block = pinned
    BY <1>1, EntryReads DEF SetGauge, SampleOf
  <2>4. \A s \in Series : gauge'[s] = gauge[s] \/ gauge'[s] = SampleOf(nextEntry, lossy)
    BY <2>2 DEF IInv, TypeOK
  <2> QED BY <2>1, <2>3, <2>4 DEF Publishing, Coherence
<1>2. CASE ~SetGauge
  <2>1. gauge' = gauge
    BY <1>2 DEF Next, Resolve, Publish, PublishEntry, vars, StartScrape, ResolveBlock,
         ResolveFails, ReplyChunk, AcceptChunk, ChunkFails, CheckResults, Timeout, GiveUp,
         CountCallError, CreateSeries, WarnPrecision, StampTime, StampBlock, StampPlan,
         StampDuration
  <2>2. /\ lastSuccess' = lastSuccess \/ (phase = "publishing" /\ lastSuccess' = attempt)
        /\ blockGauge' = blockGauge \/ phase = "stampBlock"
    BY <1>2 DEF Next, Resolve, Publish, PublishEntry, vars, StartScrape, ResolveBlock,
         ResolveFails, ReplyChunk, AcceptChunk, ChunkFails, CheckResults, Timeout, GiveUp,
         CountCallError, CreateSeries, WarnPrecision, StampTime, AfterEntries, StampBlock,
         StampPlan, StampDuration
  <2>3. phase' \in {"publishing", "stampBlock"} => attempt' = attempt
    BY <1>2 DEF Next, Resolve, Publish, PublishEntry, vars, StartScrape, ResolveBlock,
         ResolveFails, ReplyChunk, AcceptChunk, ChunkFails, CheckResults, Timeout, GiveUp,
         CountCallError, CreateSeries, WarnPrecision, StampTime, StampBlock, StampPlan,
         StampDuration
  <2>4. created \subseteq created' /\ (created' = created \/ phase = "publishing")
    BY <1>2 DEF Next, Resolve, Publish, PublishEntry, vars, StartScrape, ResolveBlock,
         ResolveFails, ReplyChunk, AcceptChunk, ChunkFails, CheckResults, Timeout, GiveUp,
         CountCallError, CreateSeries, WarnPrecision, AtEntry, StampTime, StampBlock,
         StampPlan, StampDuration
  <2> QED BY <2>1, <2>2, <2>3, <2>4 DEF Publishing
<1> QED BY <1>1, <1>2

\* The registry only moves forward.
LEMMA RegistryMovesOn ==
    ASSUME IInv, Coherence, [Next]_vars
    PROVE  /\ \A s \in Series : gauge'[s].scrape >= gauge[s].scrape
           /\ lastSuccess' >= lastSuccess
<1>1. attempt \in Nat /\ lastSuccess \in Nat /\ \A s \in Series : gauge[s].scrape \in Nat
  BY DEF IInv, TypeOK, Sample
<1>2. lastSuccess <= attempt /\ \A s \in Series : gauge[s].scrape <= attempt
  BY DEF Coherence, Fresh
<1>3. \A s \in Series : gauge'[s] = gauge[s] \/ gauge'[s].scrape = attempt
  BY WhoWrites
<1>4. lastSuccess' = lastSuccess \/ lastSuccess' = attempt
  BY WhoWrites
<1> QED BY <1>1, <1>2, <1>3, <1>4

-----------------------------------------------------------------------------
\* The invariant is inductive

\* A step of the scrape task, or none, keeps what the theorems about Scrape keep.
LEMMA NextScrapeInv == ScrapeInv /\ [Next]_vars => ScrapeInv'
BY NextIInv, NextCoherence, NextChain, WarnedOnceStep, NextOwn DEF ScrapeInv, Coherence

\* The scrape task writes, if it publishes, as one of the writers.
LEMMA ScrapeStepPage ==
    ASSUME PageInv, [Next]_vars,
           writers' = IF asking /\ Publishing' THEN writers \cup {attempt} ELSE writers,
           UNCHANGED <<asking, unread, page, lastPage, atRequest>>
    PROVE  PageInv'
<1>1. ScrapeInv'
  BY NextScrapeInv DEF PageInv
<1>2. PageTypeOK'
  BY DEF PageInv, PageTypeOK
<1>3. /\ Publishing' => attempt' = attempt
      /\ \A s \in Series :
            \/ gauge'[s] = gauge[s]
            \/ Publishing /\ gauge'[s].scrape = attempt /\ gauge'[s].block = pinned
               /\ (gauge[s].scrape = attempt => gauge[s].block = pinned)
      /\ gauge' = gauge \/ Publishing
      /\ lastSuccess' = lastSuccess \/ (Publishing /\ lastSuccess' = attempt)
      /\ blockGauge' = blockGauge \/ Publishing
      /\ created \subseteq created' /\ (created' = created \/ Publishing)
  BY WhoWrites DEF PageInv, ScrapeInv
<1>4. ASSUME asking, writers = {}
      PROVE  /\ UNCHANGED <<created, gauge, lastSuccess, blockGauge>>
             /\ Registry' = atRequest /\ Settled(atRequest) /\ ReadAtRequest
  <2>1. ~Publishing /\ Registry = atRequest /\ Settled(atRequest) /\ ReadAtRequest
    BY <1>4 DEF PageInv, Untouched
  <2> QED BY <1>3, <2>1 DEF Registry
<1>5. Untouched'
  <2>1. ASSUME asking, Publishing' PROVE attempt' \in writers'
    BY <1>3, <2>1
  <2>2. ASSUME asking, writers' = {}
        PROVE  Registry' = atRequest /\ Settled(atRequest)' /\ ReadAtRequest'
    <3>1. writers = {}
      BY <2>2
    <3>2. Registry' = atRequest /\ Settled(atRequest) /\ ReadAtRequest
      BY <1>4, <2>2, <3>1
    <3> QED BY <3>2 DEF Settled, ReadAtRequest
  <2> QED BY <2>1, <2>2 DEF Untouched
<1>6. ASSUME NEW w, asking, writers' = {w}
      PROVE  /\ \A s \in Series : FoundOrOf(s, w)'
             /\ \A s \in Series \ unread :
                  \/ page.samples[s] = atRequest.samples[s]
                  \/ /\ page.samples[s].scrape = w /\ gauge'[s].scrape = w
                     /\ page.samples[s].block = gauge'[s].block
             /\ lastSuccess' \in {atRequest.time, w}
             /\ "last_scrape_success_timestamp" \notin unread =>
                  page.time \in {atRequest.time, w}
  <2>1. CASE writers = {}
    <3>1. /\ gauge' = atRequest.samples /\ lastSuccess' = atRequest.time /\ ReadAtRequest
      BY <1>4, <1>6, <2>1 DEF Registry
    <3> QED BY <3>1 DEF ReadAtRequest, FoundOrOf
  <2>2. CASE writers = {w}
    <3>1. Publishing => attempt = w
      BY <1>6, <2>2 DEF PageInv, Untouched
    <3>2. /\ \A s \in Series : FoundOrOf(s, w)
          /\ \A s \in Series \ unread :
               \/ page.samples[s] = atRequest.samples[s]
               \/ /\ page.samples[s].scrape = w /\ gauge[s].scrape = w
                  /\ page.samples[s].block = gauge[s].block
          /\ lastSuccess \in {atRequest.time, w}
          /\ "last_scrape_success_timestamp" \notin unread =>
               page.time \in {atRequest.time, w}
      BY <1>6, <2>2 DEF PageInv, OneWriter
    <3>3. \A s \in Series :
            \/ gauge'[s] = gauge[s]
            \/ /\ gauge'[s].scrape = w /\ gauge'[s].block = pinned
               /\ gauge[s].scrape = w => gauge[s].block = pinned
      BY <1>3, <3>1
    <3>4. lastSuccess' = lastSuccess \/ lastSuccess' = w
      BY <1>3, <3>1
    <3>5. \A s \in Series : FoundOrOf(s, w)'
      BY <3>2, <3>3 DEF FoundOrOf
    <3> QED BY <3>2, <3>3, <3>4, <3>5
  <2>3. writers = {} \/ writers = {w}
    BY <1>6
  <2> QED BY <2>1, <2>2, <2>3
<1>7. OneWriter'
  BY <1>6 DEF OneWriter
<1>8. Forward'
  <2>1. /\ \A s \in Series : gauge'[s].scrape >= gauge[s].scrape
        /\ lastSuccess' >= lastSuccess
    BY RegistryMovesOn DEF PageInv, ScrapeInv
  <2>2. /\ lastSuccess \in Nat /\ lastSuccess' \in Nat
        /\ \A s \in Series : gauge[s].scrape \in Nat /\ gauge'[s].scrape \in Nat
    BY <1>1 DEF PageInv, ScrapeInv, IInv, TypeOK, Sample
  <2>3. /\ page.time \in Nat /\ lastPage.time \in Nat
        /\ \A s \in Series : page.samples[s].scrape \in Nat /\ lastPage.samples[s].scrape \in Nat
    BY DEF PageInv, PageTypeOK, Page, Sample
  <2> QED BY <2>1, <2>2, <2>3 DEF PageInv, Forward
<1>9. NoneWithdrawn'
  BY <1>3 DEF PageInv, NoneWithdrawn
<1> QED BY <1>1, <1>2, <1>5, <1>7, <1>8, <1>9 DEF PageInv

\* What the scrapes promise is not touched by a request.
LEMMA RequestKeepsScrape ==
    ASSUME PageInv, UNCHANGED vars
    PROVE  ScrapeInv'
BY NextScrapeInv DEF PageInv

\* A request finds a settled registry unless a scrape is publishing.
LEMMA SettledRegistry ==
    ASSUME IInv, Coherence, ~Publishing
    PROVE  Settled(Registry)
<1>1. phase \in Phases /\ attempt \in Nat /\ lastSuccess \in Nat
      /\ \A s \in Series : gauge[s].scrape \in Nat
  BY DEF IInv, TypeOK, Sample
<1>2. CASE phase \in {"idle", "resolving", "calling", "returned"}
  BY <1>2 DEF Coherence, PageCoherent, Settled, Registry
<1>3. CASE phase \in {"stampPlan", "stampDuration"}
  BY <1>1, <1>3 DEF Coherence, Fresh, Stamping, Settled, Registry
<1> QED BY <1>1, <1>2, <1>3 DEF Phases, Publishing

\* A request that arrives has read nothing.
LEMMA AskPage ==
    ASSUME PageInv, Ask
    PROVE  PageInv'
<1>1. /\ asking' = TRUE /\ unread' = Collectors /\ page' = Blank /\ atRequest' = Registry
      /\ writers' = IF Publishing THEN {attempt} ELSE {}
      /\ UNCHANGED <<vars, lastPage>>
  BY DEF Ask
<1>2. UNCHANGED <<phase, attempt, created, gauge, lastSuccess, blockGauge>>
  BY <1>1 DEF vars, cycleVars, seriesVars, lossVars, statusVars
<1>3. ScrapeInv'
  BY <1>1, RequestKeepsScrape
<1>4. /\ "last_scrape_success_timestamp" \in unread' /\ "rpc_block_number" \in unread'
      /\ Series \ unread' = {}
  BY <1>1 DEF Collectors
<1>5. Registry \in Page /\ Blank \in Page
  BY CountAssumption
     DEF Registry, Blank, Page, PageInv, ScrapeInv, IInv, TypeOK, Sample, Unset
<1>6. PageTypeOK'
  BY <1>1, <1>5 DEF PageInv, PageTypeOK
<1>7. Registry' = atRequest' /\ (Publishing' <=> Publishing)
  BY <1>1, <1>2 DEF Registry, Publishing
<1>8. Untouched'
  <2>1. Publishing' => attempt' \in writers'
    BY <1>1, <1>2, <1>7
  <2>2. ASSUME writers' = {} PROVE Settled(atRequest)'
    <3>1. Settled(Registry)
      BY <1>1, <2>2, SettledRegistry DEF PageInv, ScrapeInv
    <3> QED BY <1>1, <3>1 DEF Settled
  <2>3. ReadAtRequest'
    BY <1>4 DEF ReadAtRequest
  <2> QED BY <1>7, <2>1, <2>2, <2>3 DEF Untouched
<1>9. OneWriter'
  BY <1>1, <1>2, <1>4 DEF OneWriter, FoundOrOf, Registry
<1>10. Forward'
  BY <1>1, <1>2, <1>4 DEF PageInv, Forward
<1>11. NoneWithdrawn'
  BY <1>1, <1>2, <1>4 DEF PageInv, ScrapeInv, OwnInv, NoneWithdrawn, Registry, Blank
<1> QED BY <1>3, <1>6, <1>8, <1>9, <1>10, <1>11 DEF PageInv

\* Reading a collector adds its present value to the page, and nothing else.
LEMMA GatherReads ==
    ASSUME PageInv, NEW c \in unread, Gather(c)
    PROVE  /\ page' \in Page
           /\ \A s \in Series \ unread' :
                page'.samples[s] = gauge[s] \/ (s \notin unread /\ page'.samples[s] = page.samples[s])
           /\ "last_scrape_success_timestamp" \notin unread' =>
                \/ page'.time = lastSuccess
                \/ "last_scrape_success_timestamp" \notin unread /\ page'.time = page.time
           /\ "rpc_block_number" \notin unread' =>
                \/ page'.block = blockGauge
                \/ "rpc_block_number" \notin unread /\ page'.block = page.block
           /\ page'.shown = page.shown \cup (created \cap {c})
<1>1. /\ c \in Collectors /\ page \in Page /\ unread' = unread \ {c}
      /\ gauge \in [Series -> Sample] /\ lastSuccess \in Nat /\ blockGauge \in Blocks \cup {0}
      /\ created \subseteq Series
  BY DEF PageInv, ScrapeInv, PageTypeOK, IInv, TypeOK, Gather
<1>2. CASE c \in Series
  <2>1. page' = [page EXCEPT !.samples[c] = gauge[c], !.shown = @ \cup (created \cap {c})]
    BY <1>2 DEF Gather
  <2>2. c # "last_scrape_success_timestamp" /\ c # "rpc_block_number"
    BY <1>2, CollectorAssumption
  <2>3. /\ page'.samples = [page.samples EXCEPT ![c] = gauge[c]]
        /\ page'.shown = page.shown \cup (created \cap {c})
        /\ page'.time = page.time /\ page'.block = page.block /\ page' \in Page
    BY <1>1, <1>2, <2>1 DEF Page
  <2> QED BY <1>1, <2>2, <2>3 DEF Page
<1>3. CASE c = "rpc_block_number"
  <2>1. page' = [page EXCEPT !.block = blockGauge] /\ c \notin Series
    BY <1>3, CollectorAssumption DEF Gather
  <2>2. /\ page'.samples = page.samples /\ page'.shown = page.shown
        /\ page'.time = page.time /\ page'.block = blockGauge /\ page' \in Page
    BY <1>1, <2>1 DEF Page
  <2> QED BY <1>1, <1>3, <2>1, <2>2
<1>4. CASE c = "last_scrape_success_timestamp"
  <2>1. page' = [page EXCEPT !.time = lastSuccess] /\ c \notin Series
    BY <1>4, CollectorAssumption DEF Gather
  <2>2. /\ page'.samples = page.samples /\ page'.shown = page.shown
        /\ page'.time = lastSuccess /\ page'.block = page.block /\ page' \in Page
    BY <1>1, <2>1 DEF Page
  <2> QED BY <1>1, <1>4, <2>1, <2>2
<1> QED BY <1>1, <1>2, <1>3, <1>4 DEF Collectors

\* Reading keeps the invariant: the value read is the one the registry has now.
LEMMA GatherPage ==
    ASSUME PageInv, NEW c \in unread, Gather(c)
    PROVE  PageInv'
<1>1. asking /\ unread' \subseteq unread /\ UNCHANGED <<vars, asking, lastPage, atRequest, writers>>
  BY DEF Gather
<1>2. UNCHANGED <<phase, attempt, created, gauge, lastSuccess, blockGauge>>
  BY <1>1 DEF vars, cycleVars, seriesVars, lossVars, statusVars
<1>3. ScrapeInv'
  BY <1>1, RequestKeepsScrape
<1>4. /\ page' \in Page
      /\ \A s \in Series \ unread' :
           page'.samples[s] = gauge[s] \/ (s \notin unread /\ page'.samples[s] = page.samples[s])
      /\ "last_scrape_success_timestamp" \notin unread' =>
           \/ page'.time = lastSuccess
           \/ "last_scrape_success_timestamp" \notin unread /\ page'.time = page.time
      /\ "rpc_block_number" \notin unread' =>
           \/ page'.block = blockGauge
           \/ "rpc_block_number" \notin unread /\ page'.block = page.block
      /\ page'.shown = page.shown \cup (created \cap {c})
  BY GatherReads
<1>5. PageTypeOK'
  BY <1>1, <1>4 DEF PageInv, PageTypeOK
<1>6. Untouched'
  <2>1. Publishing' => attempt' \in writers'
    BY <1>1, <1>2 DEF PageInv, Untouched, Publishing
  <2>2. ASSUME writers' = {}
        PROVE  Registry' = atRequest' /\ Settled(atRequest)' /\ ReadAtRequest'
    <3>1. Registry = atRequest /\ Settled(atRequest) /\ ReadAtRequest
      BY <1>1, <2>2 DEF PageInv, Untouched
    <3>2. gauge = atRequest.samples /\ lastSuccess = atRequest.time /\ blockGauge = atRequest.block
      BY <3>1 DEF Registry
    <3>3. ReadAtRequest'
      BY <1>1, <1>4, <3>1, <3>2 DEF ReadAtRequest
    <3>4. Registry' = Registry /\ Settled(atRequest)'
      BY <1>1, <1>2, <3>1 DEF Registry, Settled
    <3> QED BY <1>1, <3>1, <3>3, <3>4
  <2> QED BY <2>1, <2>2 DEF Untouched
<1>7. ASSUME NEW w, writers = {w}
      PROVE  /\ \A s \in Series : FoundOrOf(s, w)
             /\ \A s \in Series \ unread' :
                  \/ page'.samples[s] = atRequest.samples[s]
                  \/ /\ page'.samples[s].scrape = w /\ gauge[s].scrape = w
                     /\ page'.samples[s].block = gauge[s].block
             /\ lastSuccess \in {atRequest.time, w}
             /\ "last_scrape_success_timestamp" \notin unread' =>
                  page'.time \in {atRequest.time, w}
  <2>1. /\ \A s \in Series : FoundOrOf(s, w)
        /\ \A s \in Series \ unread :
             \/ page.samples[s] = atRequest.samples[s]
             \/ /\ page.samples[s].scrape = w /\ gauge[s].scrape = w
                /\ page.samples[s].block = gauge[s].block
        /\ lastSuccess \in {atRequest.time, w}
        /\ "last_scrape_success_timestamp" \notin unread =>
             page.time \in {atRequest.time, w}
    BY <1>1, <1>7 DEF PageInv, OneWriter
  <2> QED BY <1>4, <2>1 DEF FoundOrOf
<1>8. OneWriter'
  BY <1>1, <1>2, <1>7 DEF OneWriter, FoundOrOf
<1>9. Forward'
  <2>1. /\ lastSuccess \in Nat /\ \A s \in Series : gauge[s].scrape \in Nat
    BY DEF PageInv, ScrapeInv, IInv, TypeOK, Sample
  <2> QED BY <1>1, <1>2, <1>4, <2>1 DEF PageInv, Forward
<1>10. NoneWithdrawn'
  <2>1. /\ atRequest.shown \subseteq created /\ page.shown \subseteq created
        /\ \A s \in Series \ unread : s \in atRequest.shown => s \in page.shown
        /\ \A s \in Series \ atRequest.shown : atRequest.samples[s] = Unset
    BY <1>1 DEF PageInv, NoneWithdrawn
  <2>2. unread' = unread \ {c}
    BY DEF Gather
  <2> QED BY <1>1, <1>2, <1>4, <2>1, <2>2 DEF NoneWithdrawn
<1> QED BY <1>3, <1>5, <1>6, <1>8, <1>9, <1>10 DEF PageInv

\* An answered page is behind the registry, as all that was read of it is.
LEMMA AnswerPagePage ==
    ASSUME PageInv, AnswerPage
    PROVE  PageInv'
<1>1. /\ asking /\ unread = {} /\ asking' = FALSE /\ lastPage' = page
      /\ UNCHANGED <<vars, unread, page, atRequest, writers>>
  BY DEF AnswerPage
<1>2. UNCHANGED <<created, gauge, lastSuccess>>
  BY <1>1 DEF vars, seriesVars, statusVars
<1>3. ScrapeInv'
  BY <1>1, RequestKeepsScrape
<1>4. PageTypeOK'
  BY <1>1 DEF PageInv, PageTypeOK
<1>5. Untouched' /\ OneWriter' /\ NoneWithdrawn'
  BY <1>1 DEF Untouched, OneWriter, NoneWithdrawn
<1>6. Forward'
  BY <1>1, <1>2 DEF PageInv, Forward
<1> QED BY <1>3, <1>4, <1>5, <1>6 DEF PageInv

\* Before the first request the page shows nothing.
LEMMA InitPageInv == PageInit => PageInv
<1> SUFFICES ASSUME PageInit PROVE PageInv
  OBVIOUS
<1>1. /\ Init /\ asking = FALSE /\ unread = {} /\ page = Blank /\ lastPage = Blank
      /\ atRequest = Blank
  BY DEF PageInit
<1>2. IInv /\ Coherence
  BY <1>1, InitIInv, InitCoherence
<1>3. ChainInv
  BY <1>1 DEF Init, ChainInv, OneForkPerChunk, OfResults, OneChainState, Stamping
<1>4. WarnedOnce /\ OwnInv
  BY <1>1 DEF Init, WarnedOnce, OwnInv, GaugeOfOwnCall
<1>5. PageTypeOK
  <2>1. Blank \in Page
    BY CountAssumption DEF Blank, Page, Sample, Unset
  <2> QED BY <1>1, <2>1 DEF PageTypeOK
<1>6. Untouched /\ OneWriter /\ NoneWithdrawn
  BY <1>1 DEF Untouched, OneWriter, NoneWithdrawn
<1>7. Forward
  BY <1>1 DEF Forward, Init, Blank, Unset
<1> QED BY <1>2, <1>3, <1>4, <1>5, <1>6, <1>7 DEF PageInv, ScrapeInv

\* Every step of the request and of the scrape keeps the invariant.
LEMMA NextPageInv == PageInv /\ [PageNext]_<<vars, pageVars>> => PageInv'
<1> SUFFICES ASSUME PageInv, [PageNext]_<<vars, pageVars>> PROVE PageInv'
  OBVIOUS
<1>1. CASE Ask
  BY <1>1, AskPage
<1>2. CASE AnswerPage
  BY <1>2, AnswerPagePage
<1>3. CASE ScrapeStep
  BY <1>3, ScrapeStepPage DEF ScrapeStep
<1>4. CASE \E c \in unread : Gather(c)
  BY <1>4, GatherPage
<1>5. CASE UNCHANGED <<vars, pageVars>>
  <2>1. UNCHANGED vars /\ UNCHANGED <<asking, unread, page, lastPage, atRequest, writers>>
    BY <1>5 DEF pageVars
  <2>2. UNCHANGED <<phase, attempt, created, gauge, lastSuccess, blockGauge>>
    BY <2>1 DEF vars, cycleVars, seriesVars, lossVars, statusVars
  <2>3. ScrapeInv'
    BY <2>1, RequestKeepsScrape
  <2>4. Publishing' <=> Publishing
    BY <2>2 DEF Publishing
  <2>5. PageTypeOK'
    BY <2>1, <2>2 DEF PageInv, PageTypeOK
  <2>6. Untouched'
    BY <2>1, <2>2, <2>4 DEF PageInv, Untouched, Registry, Settled, ReadAtRequest
  <2>7. OneWriter'
    BY <2>1, <2>2, <2>4 DEF PageInv, OneWriter, FoundOrOf, ReadAtRequest
  <2>8. NoneWithdrawn' /\ Forward'
    BY <2>1, <2>2 DEF PageInv, NoneWithdrawn, Forward
  <2> QED BY <2>3, <2>5, <2>6, <2>7, <2>8 DEF PageInv
<1> QED BY <1>1, <1>2, <1>3, <1>4, <1>5 DEF PageNext

\* The invariant of a request beside the scrapes.
THEOREM PageInvariant == PageSpec => []PageInv
<1> QED BY InitPageInv, NextPageInv, PTL DEF PageSpec

-----------------------------------------------------------------------------
\* What follows from the invariant

\* Until it is about to be set, a series that was created shows an answer.
LEMMA ShownUnlessBeingSet ==
    ASSUME ScrapeInv, NEW s \in created, ~BeingSet(s)
    PROVE  gauge[s] # Unset
<1>1. PICK i \in 1..Len(Plan) : Plan[i].call = gauge[s].call
  BY OwnedUnlessBeingSet DEF ScrapeInv, Owned
<1>2. Plan[i] \in Entry
  BY PlanAssumption
<1>3. gauge[s].call # 0
  BY <1>1, <1>2, CountAssumption DEF Entry, Calls
<1> QED BY <1>3 DEF Unset

\* A page gathered while nothing published is coherent, in whatever order its
\* collectors were read, and each series on it shows an answer (server.rs:56).
THEOREM UntornPages == PageSpec => []UntornPageCoherent
<1>1. ASSUME PageInv, Complete, writers = {}, NEW s \in page.shown
      PROVE  /\ page.samples[s] # Unset
             /\ page.samples[s].scrape <= page.time
             /\ page.samples[s].scrape = page.time /\ page.time > 0
                => page.samples[s].block = page.block
  <2>1. /\ Registry = atRequest /\ Settled(atRequest) /\ ReadAtRequest /\ unread = {}
        /\ ~Publishing /\ page.shown \subseteq created /\ s \in Series
    BY <1>1 DEF PageInv, Untouched, NoneWithdrawn, PageTypeOK, Page, Complete
  <2>2. /\ page.samples[s] = atRequest.samples[s]
        /\ page.time = atRequest.time /\ page.block = atRequest.block
    BY <2>1 DEF ReadAtRequest
  <2>3. gauge[s] # Unset
    <3>1. ~BeingSet(s)
      BY <2>1 DEF BeingSet, AtEntry, Publishing
    <3> QED BY <1>1, <2>1, <3>1, ShownUnlessBeingSet DEF PageInv
  <2>4. page.samples[s] = gauge[s]
    BY <2>1, <2>2 DEF Registry
  <2> QED BY <2>1, <2>2, <2>3, <2>4 DEF Settled
<1>2. PageInv => UntornPageCoherent
  BY <1>1 DEF UntornPageCoherent
<1> QED BY <1>2, PageInvariant, PTL

\* A page that overlapped one publication mixes two scrapes and no more: what is
\* new on it is of one block, no series the request found is missing, and a 0 that
\* no contract returned is of a series this scrape creates (exporter.rs:205).
THEOREM TearsAreClean == PageSpec => []TornBetweenTwo
<1>1. ASSUME PageInv, NEW w \in 1..MaxAttempts, Complete, writers = {w}
      PROVE  /\ atRequest.shown \subseteq page.shown
             /\ \A s \in page.shown :
                  \/ s \in atRequest.shown /\ page.samples[s] = atRequest.samples[s]
                  \/ page.samples[s].scrape = w
                  \/ /\ s \notin atRequest.shown /\ page.samples[s] = Unset
                     /\ gauge[s].scrape = w \/ BeingSet(s)
             /\ \A s, t \in page.shown :
                  page.samples[s].scrape = w /\ page.samples[t].scrape = w
                  => page.samples[s].block = page.samples[t].block
             /\ page.time \in {atRequest.time, w}
  <2>1. /\ asking /\ unread = {} /\ page.shown \subseteq Series
        /\ atRequest.shown \subseteq Series /\ page.shown \subseteq created
        /\ \A s \in Series : s \in atRequest.shown => s \in page.shown
        /\ \A s \in Series \ atRequest.shown : atRequest.samples[s] = Unset
    BY <1>1 DEF PageInv, NoneWithdrawn, PageTypeOK, Page, Complete
  <2>2. /\ \A s \in Series : FoundOrOf(s, w)
        /\ \A s \in Series :
             \/ page.samples[s] = atRequest.samples[s]
             \/ /\ page.samples[s].scrape = w /\ gauge[s].scrape = w
                /\ page.samples[s].block = gauge[s].block
        /\ page.time \in {atRequest.time, w}
    BY <1>1, <2>1 DEF PageInv, OneWriter
  <2>3. ASSUME NEW s \in page.shown, s \notin atRequest.shown,
               page.samples[s] = atRequest.samples[s]
        PROVE  /\ page.samples[s] = Unset
               /\ gauge[s].scrape = w \/ BeingSet(s)
    <3>1. page.samples[s] = Unset /\ (gauge[s] = Unset \/ gauge[s].scrape = w)
      BY <2>1, <2>2, <2>3 DEF FoundOrOf
    <3> QED BY <1>1, <2>1, <3>1, ShownUnlessBeingSet DEF PageInv
  <2>4. ASSUME NEW s \in page.shown, NEW t \in page.shown,
               page.samples[s].scrape = w, page.samples[t].scrape = w
        PROVE  page.samples[s].block = page.samples[t].block
    <3>1. ASSUME NEW r \in Series, page.samples[r].scrape = w
          PROVE  gauge[r].scrape = w /\ page.samples[r].block = gauge[r].block
      BY <2>2, <3>1 DEF FoundOrOf
    <3>2. gauge[s].scrape = gauge[t].scrape => gauge[s].block = gauge[t].block
      BY <1>1, <2>1 DEF PageInv, ScrapeInv, ChainInv, OneChainState
    <3> QED BY <2>1, <2>4, <3>1, <3>2
  <2> QED BY <2>1, <2>2, <2>3, <2>4
<1>2. PageInv => TornBetweenTwo
  BY <1>1 DEF TornBetweenTwo
<1> QED BY <1>2, PageInvariant, PTL

\* Successive pages never go back in time, series by series, whatever failed or
\* was published between or during the requests (README.md:192).
THEOREM PagesMoveForward == PageSpec => PagesNeverGoBack
<1>1. ASSUME PageInv, [PageNext]_<<vars, pageVars>>
      PROVE  [/\ \A s \in Series : lastPage'.samples[s].scrape >= lastPage.samples[s].scrape
              /\ lastPage'.time >= lastPage.time]_lastPage
  <2>1. CASE AnswerPage
    <3>1. lastPage' = page /\ asking /\ unread = {}
      BY <2>1 DEF AnswerPage
    <3>2. /\ \A s \in Series : lastPage.samples[s].scrape <= page.samples[s].scrape
          /\ lastPage.time <= page.time
      BY <1>1, <3>1 DEF PageInv, Forward
    <3>3. /\ page.time \in Nat /\ lastPage.time \in Nat
          /\ \A s \in Series : page.samples[s].scrape \in Nat /\ lastPage.samples[s].scrape \in Nat
      BY <1>1 DEF PageInv, PageTypeOK, Page, Sample
    <3> QED BY <3>1, <3>2, <3>3
  <2>2. CASE ~AnswerPage
    BY <1>1, <2>2 DEF PageNext, pageVars, Ask, Gather, ScrapeStep
  <2> QED BY <2>1, <2>2
<1> QED BY <1>1, PageInvariant, PTL DEF PageSpec, PagesNeverGoBack
=============================================================================
