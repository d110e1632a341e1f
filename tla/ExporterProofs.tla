--------------------------- MODULE ExporterProofs ---------------------------
(***************************************************************************)
(* Theorems about Exporter, for every plan, interval and timeout: what the *)
(* loop and the cycle it awaits guarantee together.                        *)
(***************************************************************************)
EXTENDS Exporter, ScrapeProofs

-----------------------------------------------------------------------------
(***************************************************************************)
(* The inductive invariant.  The time since the last success is bounded by *)
(* an account: every scrape that has begun since then either is counted    *)
(* as a failure or still owes its outcome, and each covers one gap.        *)
(***************************************************************************)

LongestFirstGap == Deadline + Interval

\* Where the loop's clocks can be; cf. Timed and Paced of LoopProofs.
Clocks ==
    /\ timing \in Timings
    /\ pc \in {"first", "ticker", "select", "scrape", "join", "exited"}
    /\ elapsed \in Nat /\ due \in Int /\ sinceStart \in Nat /\ firstGap \in BOOLEAN
    /\ IF Loop!Scraping THEN sinceStart = elapsed ELSE elapsed = 0
    /\ elapsed <= Deadline
    /\ pc \in {"first", "ticker"} => firstGap
    /\ pc = "ticker" => sinceStart <= Deadline
    /\ pc = "scrape" => ~firstGap
    /\ pc = "select" /\ firstGap => due >= 0 /\ sinceStart + due <= LongestFirstGap
    /\ Loop!Ticking /\ ~firstGap => sinceStart + due <= Interval
    /\ pc = "select" => sinceStart <= Deadline \/ due >= 0

\* A cycle is under way only while the loop polls it, and its success is shown only
\* when it has published.
Polling == /\ polled \in BOOLEAN
           /\ phase # "idle" => polled
           /\ polled => Loop!Scraping
           /\ phase = "publishing" => lastSuccess < attempt

\* The cycle has been neither stamped nor counted.
Pending == Deciding \/ phase = "publishing"

\* The scrape that the loop awaits still owes its outcome.
OutcomeOwed == Loop!Scraping /\ (polled => Pending)

FailedSince == Failures - failedBefore

\* The scrapes begun since the last success.
Outstanding == IF OutcomeOwed THEN FailedSince + 1 ELSE FailedSince

\* The longest time from a success to the begin of the n-th scrape that follows it.
Accounts(n) == IF n = 0 THEN 0 ELSE LongestFirstGap + (n - 1) * LongestGap

Silence ==
    /\ sinceSuccess \in Nat /\ failedBefore \in Nat /\ FailedSince \in Nat
    /\ Loop!Looping => /\ firstGap => sinceSuccess <= sinceStart
                       /\ sinceSuccess <= sinceStart + Accounts(Outstanding)

ExporterInv == IInv /\ Coherence /\ Clocks /\ Polling /\ Silence

-----------------------------------------------------------------------------
\* Lengths of time

\* The configured times are positive, and the gaps they bound are ordered.
LEMMA Lengths ==
    ASSUME timing \in Timings
    PROVE  /\ Interval \in Nat \ {0} /\ Deadline \in Nat \ {0}
           /\ LongestGap \in Nat /\ LongestFirstGap \in Nat
           /\ Deadline <= LongestGap /\ Interval <= LongestGap
           /\ LongestGap <= LongestFirstGap
<1>1. Interval \in Nat \ {0} /\ Deadline \in Nat \ {0}
  BY TimingAssumption DEF Interval, Deadline
<1> QED BY <1>1 DEF LongestGap, LongestFirstGap

\* The account of one more scrape covers one more gap, and the first one covers the
\* wait for the ticker too.
LEMMA AccountsGrow ==
    ASSUME timing \in Timings, NEW n \in Nat
    PROVE  /\ Accounts(n) \in Nat /\ Accounts(0) = 0
           /\ Accounts(n) + LongestGap <= Accounts(n + 1)
           /\ LongestFirstGap <= Accounts(n + 1)
<1>1. /\ LongestGap \in Nat /\ LongestFirstGap \in Nat /\ LongestGap <= LongestFirstGap
  BY Lengths
<1>2. n * LongestGap \in Nat
  BY <1>1
<1>3. Accounts(n + 1) = LongestFirstGap + n * LongestGap
  BY DEF Accounts
<1>4. CASE n = 0
  BY <1>1, <1>2, <1>3, <1>4 DEF Accounts
<1>5. CASE n # 0
  <2>1. (n - 1) * LongestGap \in Nat /\ (n - 1) * LongestGap + LongestGap = n * LongestGap
    BY <1>1, <1>5
  <2> QED BY <1>1, <1>2, <1>3, <1>5, <2>1 DEF Accounts
<1> QED BY <1>4, <1>5

\* More scrapes account for more time.
LEMMA AccountsMonotone ==
    ASSUME timing \in Timings, NEW m \in Nat, NEW n \in Nat, m <= n
    PROVE  Accounts(m) <= Accounts(n)
<1>1. /\ LongestGap \in Nat /\ LongestFirstGap \in Nat
  BY Lengths
<1>2. CASE m = 0
  BY <1>2, AccountsGrow
<1>3. CASE m # 0
  <2>1. (m - 1) * LongestGap <= (n - 1) * LongestGap
    BY <1>1, <1>3, MultMonotone
  <2> QED BY <1>1, <1>3, <2>1 DEF Accounts
<1> QED BY <1>2, <1>3

\* The wait from one scrape to the next is bounded; cf. GapIsBounded of LoopProofs.
LEMMA GapOf ==
    ASSUME Clocks, Loop!Looping
    PROVE  sinceStart <= IF firstGap THEN LongestFirstGap ELSE LongestGap
<1>1. /\ Interval \in Nat \ {0} /\ Deadline \in Nat \ {0} /\ LongestGap \in Nat
      /\ Deadline <= LongestGap /\ Interval <= LongestGap
  BY Lengths DEF Clocks
<1> QED BY <1>1 DEF Clocks, LongestFirstGap, Loop!Looping, Loop!Scraping, Loop!Ticking

\* The timing is configured once.
LEMMA SameLengths ==
    ASSUME timing' = timing
    PROVE  /\ Interval' = Interval /\ Deadline' = Deadline
           /\ LongestGap' = LongestGap /\ LongestFirstGap' = LongestFirstGap
BY DEF Interval, Deadline, LongestGap, LongestFirstGap

\* The account is balanced after a step that leaves n scrapes outstanding.
LEMMA Balance ==
    ASSUME timing' = timing,
           sinceSuccess' \in Nat, failedBefore' \in Nat, FailedSince' \in Nat,
           Loop!Looping' /\ firstGap' => sinceSuccess' <= sinceStart',
           Loop!Looping' => sinceSuccess' <= sinceStart' + Accounts(Outstanding')
    PROVE  Silence'
BY SameLengths DEF Silence, Accounts

-----------------------------------------------------------------------------
\* The cycle

\* A step of the cycle goes on, fails, succeeds, or stamps.
LEMMA CycleStep ==
    ASSUME IInv, Coherence, Polling,
           Resolve \/ ReplyChunk \/ ChunkFails \/ CheckResults \/ Publish
    PROVE  /\ phase # "idle"
           /\ phase' = "publishing" => lastSuccess' < attempt'
           /\ \/ Pending /\ Pending' /\ UNCHANGED <<Failures, lastSuccess>>
              \/ Pending /\ ~Pending' /\ Failures' = Failures + 1 /\ lastSuccess' = lastSuccess
              \/ Pending /\ ~Pending' /\ Failures' = Failures /\ lastSuccess' # lastSuccess
              \/ ~Pending /\ ~Pending' /\ UNCHANGED <<Failures, lastSuccess>>
<1> USE DEF cycleVars, seriesVars, lossVars, statusVars, stepVars, Pending, Deciding, Reasons
<1>1. /\ scrapeErrors \in [Reasons -> Nat] /\ attempt \in Nat /\ lastSuccess \in Nat
      /\ Deciding => lastSuccess < attempt
      /\ phase = "publishing" => lastSuccess < attempt
  BY DEF IInv, TypeOK, Coherence, Fresh, Polling
<1>2. scrapeErrors' = scrapeErrors => Failures' = Failures
  BY DEF Failures
<1>3. ASSUME Pending, phase' = "idle", lastSuccess' = lastSuccess,
             NEW reason \in Reasons, CountFailure(reason)
      PROVE  /\ Pending /\ ~Pending' /\ phase' # "publishing"
             /\ Failures' = Failures + 1 /\ lastSuccess' = lastSuccess
  BY <1>1, <1>3, CountFailureAddsOne
<1>4. CASE \E b \in Blocks : ResolveBlock(b)
  BY <1>2, <1>4 DEF ResolveBlock
<1>5. CASE ResolveFails \/ ChunkFails
  BY <1>3, <1>5 DEF ResolveFails, ChunkFails, GiveUp
<1>6. CASE ReplyChunk
  BY <1>2, <1>6 DEF ReplyChunk, AcceptChunk
<1>7. CASE CheckResults
  <2>1. CASE AllAnswered
    BY <1>1, <1>2, <1>7, <2>1 DEF CheckResults
  <2>2. CASE ~AllAnswered
    BY <1>3, <1>7, <2>2 DEF CheckResults, GiveUp
  <2> QED BY <2>1, <2>2
<1>8. CASE PublishEntry
  BY <1>1, <1>2, <1>8
     DEF PublishEntry, CountCallError, CreateSeries, SetGauge, WarnPrecision, AtEntry
<1>9. CASE StampTime
  <2>1. lastSuccess' # lastSuccess /\ phase' = "stampBlock" /\ phase = "publishing"
    BY <1>1, <1>9 DEF StampTime, AfterEntries
  <2> QED BY <1>2, <1>9, <2>1 DEF StampTime
<1>10. CASE StampBlock \/ StampPlan \/ StampDuration
  BY <1>2, <1>10 DEF StampBlock, StampPlan, StampDuration
<1> QED BY <1>4, <1>5, <1>6, <1>7, <1>8, <1>9, <1>10 DEF Resolve, Publish

\* What the composition does to the page, the cycle does.
LEMMA StepOfScrape == [ExporterNext]_allVars => [Next]_vars
BY DEF ExporterNext, allVars, Next, Begin, NodeAnswers, CycleRuns, Return, Expire, TakeTick,
       LoopRuns, Wait

\* The deadline counts the cycle it drops.
LEMMA ExpiredCycle ==
    ASSUME IInv, Timeout
    PROVE  /\ Pending /\ ~Pending' /\ phase' = "idle"
           /\ Failures' = Failures + 1 /\ lastSuccess' = lastSuccess
<1>1. scrapeErrors \in [Reasons -> Nat] /\ "timeout" \in Reasons
  BY DEF IInv, TypeOK, Reasons
<1> QED BY <1>1, CountFailureAddsOne DEF Timeout, Awaiting, Pending, Deciding, statusVars

-----------------------------------------------------------------------------
\* The loop's side

\* The first scrape is under way when the exporter starts.
LEMMA InitExporterInv == ExporterInit => ExporterInv
<1> SUFFICES ASSUME ExporterInit PROVE ExporterInv
  OBVIOUS
<1> USE DEF ExporterInit
<1>1. IInv /\ Coherence
  BY InitIInv, InitCoherence
<1>2. Interval \in Nat \ {0} /\ Deadline \in Nat \ {0}
  BY Lengths DEF Loop!Init
<1>3. Clocks
  BY <1>2 DEF Loop!Init, Clocks, Loop!Scraping, Loop!Ticking
<1>4. Polling
  BY DEF Init, Polling
<1>5. FailedSince = 0 /\ failedBefore \in Nat
  BY DEF Init, FailedSince, Failures, Reasons
<1>6. Outstanding = 1
  BY <1>5 DEF Outstanding, OutcomeOwed, Loop!Init, Loop!Scraping
<1>7. 0 <= Accounts(1)
  <2>1. Accounts(0 + 1) >= LongestFirstGap /\ LongestFirstGap \in Nat
    BY <1>3, Lengths, AccountsGrow DEF Clocks
  <2>2. Accounts(0 + 1) \in Nat
    BY <1>3, AccountsGrow DEF Clocks
  <2> QED BY <2>2
<1>8. Silence
  <2>1. Accounts(1) \in Nat
    BY <1>3, AccountsGrow DEF Clocks
  <2>2. sinceStart + Accounts(Outstanding) >= sinceSuccess
    BY <1>6, <1>7, <2>1 DEF Loop!Init
  <2> QED BY <1>5, <2>2 DEF Silence, Loop!Init
<1> QED BY <1>1, <1>3, <1>4, <1>8 DEF ExporterInv

\* The clocks do not see the cycle.
LEMMA StillClocks ==
    ASSUME Clocks, UNCHANGED loopVars
    PROVE  Clocks' /\ (Loop!Scraping)' = Loop!Scraping /\ (Loop!Looping)' = Loop!Looping
BY SameLengths DEF loopVars, Clocks, Loop!Scraping, Loop!Ticking, Loop!Looping

\* run_scrape is polled for the first time: its outcome was owed before.
LEMMA BeginInv ==
    ASSUME ExporterInv, Begin
    PROVE  Clocks' /\ Polling' /\ Silence'
<1>1. Clocks' /\ (Loop!Scraping)' = Loop!Scraping /\ (Loop!Looping)' = Loop!Looping
  BY StillClocks DEF ExporterInv, Begin
<1>2. /\ UNCHANGED <<Failures, FailedSince, timing, sinceStart, firstGap, sinceSuccess, failedBefore>>
      /\ phase' = "resolving" /\ polled' = TRUE
  BY DEF Begin, StartScrape, loopVars, Failures, FailedSince
<1>3. Polling'
  BY <1>1, <1>2 DEF Begin, Polling
<1>4. OutcomeOwed' = OutcomeOwed
  BY <1>1, <1>2 DEF Begin, OutcomeOwed, Pending, Deciding
<1>5. Outstanding' = Outstanding
  BY <1>2, <1>4 DEF Outstanding
<1>6. Silence'
  BY <1>1, <1>2, <1>5, Balance DEF ExporterInv, Silence
<1> QED BY <1>1, <1>3, <1>6

\* A step of the cycle: a failure moves its scrape from the one side of the account
\* to the other, a success clears the account.
LEMMA CycleInv ==
    ASSUME ExporterInv, NodeAnswers \/ CycleRuns
    PROVE  Clocks' /\ Polling' /\ Silence'
<1>1. /\ Clocks' /\ (Loop!Scraping)' = Loop!Scraping /\ (Loop!Looping)' = Loop!Looping
      /\ UNCHANGED <<timing, sinceStart, firstGap, polled>>
  BY StillClocks DEF ExporterInv, NodeAnswers, CycleRuns, loopVars, linkVars
<1>2. NodeAnswers => lastSuccess' = lastSuccess
  BY DEF NodeAnswers, Resolve, ResolveBlock, ResolveFails, ReplyChunk, AcceptChunk, ChunkFails,
         GiveUp, statusVars
<1>3. IF lastSuccess' # lastSuccess
      THEN sinceSuccess' = 0 /\ failedBefore' = Failures
      ELSE UNCHANGED <<sinceSuccess, failedBefore>>
  BY <1>2 DEF NodeAnswers, CycleRuns, NoteSuccess, linkVars
<1>4. /\ phase # "idle"
      /\ phase' = "publishing" => lastSuccess' < attempt'
      /\ \/ Pending /\ Pending' /\ UNCHANGED <<Failures, lastSuccess>>
         \/ Pending /\ ~Pending' /\ Failures' = Failures + 1 /\ lastSuccess' = lastSuccess
         \/ Pending /\ ~Pending' /\ Failures' = Failures /\ lastSuccess' # lastSuccess
         \/ ~Pending /\ ~Pending' /\ UNCHANGED <<Failures, lastSuccess>>
  BY CycleStep DEF ExporterInv, NodeAnswers, CycleRuns
<1>5. polled /\ Loop!Scraping /\ Loop!Looping
  BY <1>4 DEF ExporterInv, Polling, Loop!Scraping, Loop!Looping
<1>6. Polling'
  BY <1>1, <1>4, <1>5 DEF Polling
<1>7. /\ timing \in Timings /\ sinceStart \in Nat /\ sinceSuccess \in Nat
      /\ failedBefore \in Nat /\ FailedSince \in Nat
      /\ firstGap => sinceSuccess <= sinceStart
      /\ sinceSuccess <= sinceStart + Accounts(Outstanding)
  BY <1>5 DEF ExporterInv, Clocks, Silence
<1>8. Failures \in Nat
  BY DEF ExporterInv, IInv, TypeOK, Failures, Reasons
<1>9. /\ Outstanding = IF Pending THEN FailedSince + 1 ELSE FailedSince
      /\ Outstanding' = IF Pending' THEN FailedSince' + 1 ELSE FailedSince'
  BY <1>1, <1>5 DEF Outstanding, OutcomeOwed
<1>10. Silence'
  <2>1. CASE lastSuccess' # lastSuccess
    <3>1. FailedSince' = 0 /\ Outstanding' = 0 /\ sinceSuccess' = 0 /\ failedBefore' \in Nat
      BY <1>3, <1>4, <1>8, <1>9, <2>1 DEF FailedSince
    <3>2. Accounts(Outstanding') = 0
      BY <1>7, <3>1, AccountsGrow
    <3> QED BY <1>1, <1>7, <3>1, <3>2, Balance
  <2>2. CASE lastSuccess' = lastSuccess
    <3>1. UNCHANGED <<sinceSuccess, failedBefore>>
      BY <1>3, <2>2
    <3>2. Outstanding' = Outstanding /\ FailedSince' \in Nat
      BY <1>4, <1>7, <1>8, <1>9, <2>2, <3>1 DEF FailedSince
    <3> QED BY <1>1, <1>7, <3>1, <3>2, Balance
  <2> QED BY <2>1, <2>2
<1> QED BY <1>1, <1>6, <1>10

\* A scrape that ends, returning or dropped by its deadline, leaves no outcome owed.
LEMMA EndInv ==
    ASSUME ExporterInv, Return \/ Expire
    PROVE  Clocks' /\ Polling' /\ Silence'
<1>1. /\ Loop!Scraping /\ pc' = Loop!AfterScrape /\ elapsed' = 0 /\ polled' = FALSE
      /\ UNCHANGED <<due, timing, sinceStart, firstGap, sinceSuccess, failedBefore>>
  BY DEF Return, Expire, Loop!ScrapeReturns, Loop!DeadlineFires, Loop!DeadlineDue,
         Loop!historyVars
<1>2. /\ phase' = "idle"
      /\ \/ ~OutcomeOwed /\ Failures' = Failures
         \/ OutcomeOwed /\ Failures' = Failures + 1
  <2>1. CASE Return
    BY <2>1 DEF Return, vars, Failures, OutcomeOwed, Pending, Deciding
  <2>2. CASE Expire
    BY <1>1, <2>2, ExpiredCycle DEF Expire, OutcomeOwed, ExporterInv
  <2> QED BY <2>1, <2>2
<1>3. ~(Loop!Scraping)' /\ Loop!Looping
  BY <1>1 DEF Loop!AfterScrape, Loop!Scraping, Loop!Looping
<1>4. Clocks'
  <2>1. /\ Interval' = Interval /\ Deadline' = Deadline /\ LongestFirstGap' = LongestFirstGap
        /\ Interval \in Nat \ {0} /\ Deadline \in Nat \ {0}
        /\ LongestFirstGap = Deadline + Interval
    BY <1>1, SameLengths, Lengths DEF ExporterInv, Clocks, LongestFirstGap
  <2> QED BY <1>1, <1>3, <2>1
          DEF ExporterInv, Clocks, Loop!AfterScrape, Loop!Scraping, Loop!Ticking
<1>5. Polling'
  BY <1>1, <1>2 DEF Polling
<1>6. Failures \in Nat
  BY DEF ExporterInv, IInv, TypeOK, Failures, Reasons
<1>7. /\ sinceSuccess \in Nat /\ failedBefore \in Nat /\ FailedSince \in Nat
      /\ firstGap => sinceSuccess <= sinceStart
      /\ sinceSuccess <= sinceStart + Accounts(Outstanding)
  BY <1>3 DEF ExporterInv, Silence
<1>8. FailedSince' \in Nat /\ Outstanding' = Outstanding
  BY <1>1, <1>2, <1>3, <1>6, <1>7 DEF FailedSince, Outstanding, OutcomeOwed
<1>9. Silence'
  BY <1>1, <1>7, <1>8, Balance
<1> QED BY <1>4, <1>5, <1>9

\* A tick begins a scrape: the gap that ends here is on its account.
LEMMA TakeTickInv ==
    ASSUME ExporterInv, TakeTick
    PROVE  Clocks' /\ Polling' /\ Silence'
<1>1. /\ pc = "select" /\ due <= 0 /\ pc' = "scrape" /\ due' = Loop!NextDue(-due)
      /\ sinceStart' = 0 /\ firstGap' = FALSE
      /\ UNCHANGED <<timing, elapsed, vars, polled, sinceSuccess, failedBefore>>
  BY DEF TakeTick, Loop!TakeTick, linkVars
<1>2. /\ Interval' = Interval /\ Deadline' = Deadline /\ LongestFirstGap' = LongestFirstGap
      /\ Interval \in Nat \ {0} /\ Deadline \in Nat \ {0}
      /\ LongestGap \in Nat /\ LongestFirstGap \in Nat /\ LongestGap <= LongestFirstGap
  BY <1>1, SameLengths, Lengths DEF ExporterInv, Clocks
<1>3. due' \in 1..Interval
  <2>1. -due \in Nat
    BY <1>1 DEF ExporterInv, Clocks
  <2>2. (-due) % Interval \in 0..Interval - 1
    BY <1>2, <2>1
  <2> QED BY <1>1, <1>2, <2>2 DEF Loop!NextDue, Loop!Interval, Interval
<1>4. ~Loop!Scraping /\ (Loop!Scraping)' /\ Loop!Looping /\ ~polled
  BY <1>1 DEF ExporterInv, Polling, Loop!Scraping, Loop!Looping
<1>5. Clocks'
  <2>1. /\ timing' \in Timings /\ elapsed' = 0 /\ 0 \in Nat
        /\ due' \in Int /\ sinceStart' + due' <= Interval' /\ elapsed' <= Deadline'
    BY <1>1, <1>2, <1>3, <1>4 DEF ExporterInv, Clocks
  <2>2. firstGap' \in BOOLEAN /\ ~firstGap'
    BY <1>1
  <2> QED BY <1>1, <1>4, <2>1, <2>2 DEF Clocks
<1>6. Polling'
  BY <1>1, <1>4 DEF ExporterInv, Polling, vars, cycleVars, statusVars
<1>7. /\ sinceSuccess \in Nat /\ failedBefore \in Nat /\ FailedSince \in Nat
      /\ firstGap => sinceSuccess <= sinceStart
      /\ sinceSuccess <= sinceStart + Accounts(Outstanding)
  BY <1>4 DEF ExporterInv, Silence
<1>8. /\ FailedSince' = FailedSince /\ Outstanding = FailedSince
      /\ Outstanding' = FailedSince + 1
  BY <1>1, <1>4 DEF FailedSince, Failures, Outstanding, OutcomeOwed, vars
<1>9. /\ sinceStart \in Nat /\ timing \in Timings /\ firstGap \in BOOLEAN
      /\ sinceStart <= IF firstGap THEN LongestFirstGap ELSE LongestGap
  BY <1>4, GapOf DEF ExporterInv, Clocks
<1>10. /\ Accounts(FailedSince) \in Nat
       /\ Accounts(FailedSince + 1) \in Nat
       /\ Accounts(FailedSince) + LongestGap <= Accounts(FailedSince + 1)
       /\ LongestFirstGap <= Accounts(FailedSince + 1)
  <2>1. FailedSince + 1 \in Nat
    BY <1>7
  <2> QED BY <1>7, <1>9, <2>1, AccountsGrow
<1>11. sinceSuccess <= Accounts(FailedSince + 1)
  BY <1>2, <1>7, <1>8, <1>9, <1>10
<1>12. Silence'
  BY <1>1, <1>7, <1>8, <1>10, <1>11, Balance
<1> QED BY <1>5, <1>6, <1>12

\* What the loop does besides lets no time pass and begins no scrape.
LEMMA LoopRunsInv ==
    ASSUME ExporterInv, LoopRuns
    PROVE  Clocks' /\ Polling' /\ Silence'
<1>1. UNCHANGED <<elapsed, timing, sinceStart, firstGap, vars, polled, sinceSuccess, failedBefore>>
  BY DEF LoopRuns, Loop!MakeTicker, Loop!JoinServer, Loop!TakeCancel, Loop!Cancel,
         Loop!ServerStep, Loop!Bind, Loop!BindFails, Loop!Drain, Loop!Close,
         Loop!historyVars, Loop!loopVars, linkVars
<1>2. \/ UNCHANGED <<pc, due>>
      \/ pc = "ticker" /\ pc' = "select" /\ due' = Interval
      \/ pc \in {"select", "join"} /\ pc' \in {"join", "exited"} /\ due' = due
  BY DEF LoopRuns, Loop!MakeTicker, Loop!JoinServer, Loop!TakeCancel, Loop!Cancel,
         Loop!ServerStep, Loop!Bind, Loop!BindFails, Loop!Drain, Loop!Close,
         Loop!loopVars, Loop!Interval, Interval
<1>3. /\ Interval' = Interval /\ Deadline' = Deadline /\ LongestFirstGap' = LongestFirstGap
      /\ Interval \in Nat \ {0} /\ Deadline \in Nat \ {0}
      /\ LongestFirstGap = Deadline + Interval
  BY <1>1, SameLengths, Lengths DEF ExporterInv, Clocks, LongestFirstGap
<1>4. (Loop!Scraping)' = Loop!Scraping /\ ((Loop!Looping)' => Loop!Looping)
  BY <1>2 DEF Loop!Scraping, Loop!Looping
<1>5. Clocks'
  BY <1>1, <1>2, <1>3, <1>4 DEF ExporterInv, Clocks, Loop!Scraping, Loop!Ticking
<1>6. Polling'
  BY <1>1, <1>4 DEF ExporterInv, Polling, vars, cycleVars, statusVars
<1>7. UNCHANGED <<FailedSince, Outstanding>>
  BY <1>1, <1>4 DEF FailedSince, Failures, Outstanding, OutcomeOwed, Pending, Deciding, vars
<1>8. Silence'
  BY <1>1, <1>4, <1>7, Balance DEF ExporterInv, Silence
<1> QED BY <1>5, <1>6, <1>8

\* Time passes for all clocks alike, and never beyond a deadline that is due.
LEMMA WaitInv ==
    ASSUME ExporterInv, Wait
    PROVE  Clocks' /\ Polling' /\ Silence'
<1>1. /\ sinceStart' = sinceStart + 1 /\ sinceSuccess' = sinceSuccess + 1
      /\ elapsed' = IF Loop!Scraping THEN elapsed + 1 ELSE elapsed
      /\ due' = IF Loop!Ticking THEN due - 1 ELSE due
      /\ UNCHANGED <<timing, pc, firstGap, vars, polled, failedBefore>>
  BY DEF Wait, Loop!Tick
<1>2. /\ pc # "ticker" /\ Loop!Looping
      /\ Loop!Scraping => elapsed # Deadline
      /\ pc = "select" => ~(due <= 0)
  BY DEF Wait, Loop!Tick, Loop!Ready, Loop!DeadlineDue, Loop!Timeout, Deadline
<1>3. /\ Interval' = Interval /\ Deadline' = Deadline /\ LongestFirstGap' = LongestFirstGap
      /\ Interval \in Nat \ {0} /\ Deadline \in Nat \ {0}
      /\ LongestFirstGap = Deadline + Interval
  BY <1>1, SameLengths, Lengths DEF ExporterInv, Clocks, LongestFirstGap
<1>4. /\ (Loop!Scraping)' = Loop!Scraping /\ (Loop!Ticking)' = Loop!Ticking
      /\ (Loop!Looping)' = Loop!Looping
  BY <1>1 DEF Loop!Scraping, Loop!Ticking, Loop!Looping
<1>5. Clocks'
  <2>1. /\ timing' \in Timings
        /\ pc' \in {"first", "ticker", "select", "scrape", "join", "exited"}
        /\ firstGap' \in BOOLEAN
    BY <1>1 DEF ExporterInv, Clocks
  <2>2. elapsed' \in Nat /\ due' \in Int /\ sinceStart' \in Nat /\ elapsed' <= Deadline'
    BY <1>1, <1>2, <1>3 DEF ExporterInv, Clocks
  <2>3. IF Loop!Scraping' THEN sinceStart' = elapsed' ELSE elapsed' = 0
    BY <1>1, <1>4 DEF ExporterInv, Clocks
  <2>4. /\ pc' \in {"first", "ticker"} => firstGap'
        /\ pc' = "scrape" => ~firstGap'
        /\ pc' # "ticker"
    BY <1>1, <1>2 DEF ExporterInv, Clocks
  <2>5. /\ pc' = "select" /\ firstGap' => due' >= 0 /\ sinceStart' + due' <= LongestFirstGap'
        /\ Loop!Ticking' /\ ~firstGap' => sinceStart' + due' <= Interval'
        /\ pc' = "select" => due' >= 0
    BY <1>1, <1>2, <1>3, <1>4 DEF ExporterInv, Clocks, Loop!Ticking
  <2> QED BY <2>1, <2>2, <2>3, <2>4, <2>5 DEF Clocks
<1>6. Polling'
  BY <1>1, <1>4 DEF ExporterInv, Polling, vars, cycleVars, statusVars
<1>7. UNCHANGED <<FailedSince, Outstanding>>
  BY <1>1, <1>4 DEF FailedSince, Failures, Outstanding, OutcomeOwed, Pending, Deciding, vars
<1>8. /\ sinceSuccess \in Nat /\ failedBefore \in Nat /\ FailedSince \in Nat
      /\ firstGap => sinceSuccess <= sinceStart
      /\ sinceSuccess <= sinceStart + Accounts(Outstanding)
      /\ sinceStart \in Nat /\ timing \in Timings
  BY <1>2 DEF ExporterInv, Silence, Clocks
<1>9. Accounts(Outstanding) \in Nat
  <2>1. Outstanding \in Nat
    BY <1>8 DEF Outstanding
  <2> QED BY <1>8, <2>1, AccountsGrow
<1>10. Silence'
  BY <1>1, <1>7, <1>8, <1>9, Balance
<1> QED BY <1>5, <1>6, <1>10

\* Every step of the composition keeps the invariant.
LEMMA NextExporterInv == ExporterInv /\ [ExporterNext]_allVars => ExporterInv'
<1> SUFFICES ASSUME ExporterInv, [ExporterNext]_allVars PROVE ExporterInv'
  OBVIOUS
<1>1. IInv' /\ Coherence'
  BY StepOfScrape, NextIInv, NextCoherence DEF ExporterInv
<1>2. Clocks' /\ Polling' /\ Silence'
  <2>1. CASE Begin
    BY <2>1, BeginInv
  <2>2. CASE NodeAnswers \/ CycleRuns
    BY <2>2, CycleInv
  <2>3. CASE Return \/ Expire
    BY <2>3, EndInv
  <2>4. CASE TakeTick
    BY <2>4, TakeTickInv
  <2>5. CASE LoopRuns
    BY <2>5, LoopRunsInv
  <2>6. CASE Wait
    BY <2>6, WaitInv
  <2>7. CASE UNCHANGED allVars
    <3>1. UNCHANGED <<loopVars, vars, linkVars>>
      BY <2>7 DEF allVars
    <3>2. /\ Clocks' /\ (Loop!Scraping)' = Loop!Scraping /\ (Loop!Looping)' = Loop!Looping
      BY <3>1, StillClocks DEF ExporterInv
    <3>3. Polling'
      BY <3>1, <3>2 DEF ExporterInv, Polling, vars, cycleVars, statusVars, linkVars
    <3>4. UNCHANGED <<FailedSince, Outstanding>>
      BY <3>1, <3>2 DEF FailedSince, Failures, Outstanding, OutcomeOwed, Pending, Deciding,
                        vars, linkVars
    <3>5. Silence'
      BY <3>1, <3>2, <3>4, Balance DEF ExporterInv, Silence, loopVars, linkVars
    <3> QED BY <3>2, <3>3, <3>5
  <2> QED BY <2>1, <2>2, <2>3, <2>4, <2>5, <2>6, <2>7 DEF ExporterNext
<1> QED BY <1>1, <1>2 DEF ExporterInv

\* The invariant of the composition holds in every state it reaches.
THEOREM ExporterInvariant == ExporterSpec => []ExporterInv
<1> QED BY InitExporterInv, NextExporterInv, PTL DEF ExporterSpec

-----------------------------------------------------------------------------
\* What follows from the invariant

\* Two cycles never overlap, and none outlives its deadline or the loop.
THEOREM CyclesAreAwaited == ExporterSpec => []CycleWithinDeadline
<1>1. ExporterInv => CycleWithinDeadline
  BY DEF ExporterInv, Polling, Clocks, CycleWithinDeadline
<1> QED BY <1>1, ExporterInvariant, PTL

\* Whatever the node, the signals and the timings do, silence is counted: each gap
\* without a success beyond the first ones has its failure on the page.
THEOREM SilenceIsCounted == ExporterSpec => []StaleMeansCounted
<1>1. ExporterInv => StaleMeansCounted
  <2> SUFFICES ASSUME ExporterInv, NEW k \in 1..MaxAttempts, Loop!Looping,
                      sinceSuccess > Interval + 2 * Deadline + (k - 1) * LongestGap,
                      ~(FailedSince >= k)
               PROVE  FALSE
    BY DEF StaleMeansCounted, FailedSince
  <2>1. /\ timing \in Timings /\ sinceStart \in Nat /\ sinceSuccess \in Nat
        /\ FailedSince \in Nat /\ firstGap \in BOOLEAN
        /\ firstGap => sinceSuccess <= sinceStart
        /\ sinceSuccess <= sinceStart + Accounts(Outstanding)
        /\ Loop!Scraping => sinceStart <= Deadline
    BY DEF ExporterInv, Clocks, Silence
  <2>2. /\ Interval \in Nat \ {0} /\ Deadline \in Nat \ {0}
        /\ LongestGap \in Nat /\ LongestFirstGap \in Nat
        /\ LongestGap <= LongestFirstGap /\ LongestFirstGap = Deadline + Interval
    BY <2>1, Lengths DEF LongestFirstGap
  <2>3. k \in Nat \ {0} /\ Accounts(k) = Interval + Deadline + (k - 1) * LongestGap
    BY <2>2, CountAssumption DEF Accounts
  <2>4. (k - 1) * LongestGap \in Nat
    BY <2>2, <2>3
  <2>5. CASE OutcomeOwed
    <3>1. Outstanding = FailedSince + 1 /\ Loop!Scraping
      BY <2>5 DEF Outstanding, OutcomeOwed
    <3>2. Accounts(Outstanding) <= Accounts(k) /\ Accounts(Outstanding) \in Nat
      BY <2>1, <2>3, <3>1, AccountsMonotone, AccountsGrow
    <3> QED BY <2>1, <2>2, <2>3, <2>4, <3>1, <3>2
  <2>6. CASE ~OutcomeOwed
    <3>1. Outstanding = FailedSince
      BY <2>6 DEF Outstanding
    <3>2. sinceStart <= IF firstGap THEN LongestFirstGap ELSE LongestGap
      BY GapOf DEF ExporterInv
    <3>3. /\ Accounts(FailedSince) + LongestGap <= Accounts(FailedSince + 1)
          /\ LongestFirstGap <= Accounts(FailedSince + 1)
          /\ Accounts(FailedSince + 1) <= Accounts(k)
          /\ Accounts(FailedSince) \in Nat /\ Accounts(FailedSince + 1) \in Nat
      <4>1. FailedSince + 1 \in Nat /\ FailedSince + 1 <= k
        BY <2>1, <2>3
      <4> QED BY <2>1, <2>3, <4>1, AccountsMonotone, AccountsGrow
    <3>4. sinceSuccess <= Accounts(k)
      BY <2>1, <2>2, <2>3, <2>4, <3>1, <3>2, <3>3
    <3> QED BY <2>1, <2>2, <2>3, <2>4, <3>4
  <2> QED BY <2>5, <2>6
<1> QED BY <1>1, ExporterInvariant, PTL

-----------------------------------------------------------------------------
\* What was shown of the parts holds of the whole

\* With the loop that polls it, the cycle does only what Scrape says.
THEOREM ExporterRunsScrapes == ExporterSpec => Init /\ [][Next]_vars
<1>1. ExporterInit => Init
  BY DEF ExporterInit
<1> QED BY <1>1, StepOfScrape, PTL DEF ExporterSpec

\* Whatever the loop does with its scrapes, their results stay aligned, each of them
\* is accounted for once, a failed one leaves no trace, a series shows its own call,
\* the pinned block and one chain per chunk, and each warning is logged once.
THEOREM ExporterKeepsScrapesSafe ==
    ExporterSpec =>
      /\ [](TypeOK /\ ResultsAligned /\ ChunksMatchPlan /\ AttemptsAccounted)
      /\ [](PageCoherent /\ WarnedOnce /\ GaugeOfOwnCall /\ PublishedAll /\ OneChainState)
      /\ FailureLeavesNoTrace
<1> DEFINE Inv == /\ IInv /\ AttemptsAccounted /\ Coherence /\ WarnedOnce /\ OwnInv
                  /\ Published /\ ChainInv
<1>1. Init => Inv
  <2> SUFFICES ASSUME Init PROVE Inv
    OBVIOUS
  <2>1. IInv /\ Coherence
    BY InitIInv, InitCoherence
  <2>2. AttemptsAccounted
    BY DEF Init, AttemptsAccounted, Failures, InProgress, Reasons
  <2>3. WarnedOnce /\ OwnInv
    BY DEF Init, WarnedOnce, OwnInv, GaugeOfOwnCall
  <2>4. Published /\ ChainInv
    BY DEF Init, Published, Deciding, Stamping, ChainInv, OneForkPerChunk, OfResults, OneChainState
  <2> QED BY <2>1, <2>2, <2>3, <2>4
<1>2. Inv /\ [Next]_vars => Inv'
  <2>1. Inv /\ [Next]_vars => IInv' /\ AttemptsAccounted' /\ Coherence' /\ WarnedOnce'
    BY NextIInv, NextAccounted, NextCoherence, WarnedOnceStep
  <2>2. Inv /\ [Next]_vars => OwnInv' /\ Published' /\ ChainInv'
    BY <2>1, NextOwn, NextPublishing, NextChain DEF Coherence
  <2> QED BY <2>1, <2>2
<1>3. Inv => TypeOK /\ ResultsAligned /\ ChunksMatchPlan /\ AttemptsAccounted
  BY DEF IInv, Chunking, ChunksMatchPlan, AllAnswered
<1>4. Inv => PageCoherent /\ WarnedOnce /\ GaugeOfOwnCall /\ PublishedAll /\ OneChainState
  BY DEF Coherence, OwnInv, Published, Passed, PublishedAll, ChainInv
<1>5. Inv /\ [Next]_vars =>
        [scrapeErrors' # scrapeErrors =>
            /\ gauge' = gauge /\ callErrors' = callErrors
            /\ \A s \in Series : gauge[s].scrape < attempt
            /\ lastSuccess < attempt]_vars
  BY FailingStep DEF Coherence, Fresh
<1> HIDE DEF Inv
<1> QED BY <1>1, <1>2, <1>3, <1>4, <1>5, ExporterRunsScrapes, PTL DEF FailureLeavesNoTrace

\* With the cycles it awaits, the loop does only what ScrapeLoop says: a cycle's own
\* end is the return that ScrapeLoop allows at any time.
THEOREM ExporterRunsLoop == ExporterSpec => Loop!Init /\ [][Loop!Next]_(Loop!vars)
<1>1. ExporterInit => Loop!Init
  BY DEF ExporterInit
<1>2. [ExporterNext]_allVars => [Loop!Next]_(Loop!vars)
  <2> SUFFICES ASSUME [ExporterNext]_allVars PROVE [Loop!Next]_(Loop!vars)
    OBVIOUS
  <2>1. CASE Begin \/ NodeAnswers \/ CycleRuns \/ UNCHANGED allVars
    BY <2>1 DEF Begin, NodeAnswers, CycleRuns, allVars, loopVars,
                Loop!vars, Loop!serverVars, Loop!historyVars
  <2>2. CASE Return \/ Expire \/ TakeTick \/ Wait
    BY <2>2 DEF Return, Expire, TakeTick, Wait, Loop!Next, Loop!LoopStep
  <2>3. CASE LoopRuns
    BY <2>3 DEF LoopRuns, Loop!Next, Loop!LoopStep
  <2> QED BY <2>1, <2>2, <2>3 DEF ExporterNext
<1> QED BY <1>1, <1>2, PTL DEF ExporterSpec
=============================================================================
