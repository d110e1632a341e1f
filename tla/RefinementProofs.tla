-------------------------- MODULE RefinementProofs --------------------------
(***************************************************************************)
(* Scrape implements ScrapeBoard, for every plan, batch size, set of       *)
(* blocks and number of scrapes: its initial states map to initial states  *)
(* of the board, and each of its steps to a step of the board or to none.  *)
(***************************************************************************)
EXTENDS ScrapeRefinement, ScrapeProofs, WellFoundedInduction

\* The refinement holds in the states Scrape reaches: the results answer the
\* calls in their order, and a scrape reaches the publishing loop at its first
\* entry.
RInv == IInv /\ Coherence /\ Published

\* The state the abstraction sees, besides the attempts and the failures.
SettledTime  == IF phase = "publishing" THEN attempt ELSE lastSuccess
SettledBlock == IF phase \in {"publishing", "stampBlock"} THEN pinned ELSE blockGauge

\* Where no entry is pending the board is what the gauges show.
LEMMA SettledOutside ==
    ASSUME phase # "publishing" \/ nextEntry > Len(Plan), Len(Plan) \in Nat, nextEntry \in Nat,
           gauge \in [Series -> Sample], callErrors \in [ErrKeys -> Nat]
    PROVE  /\ SettledBoard = [s \in Series |-> ViewOf(gauge[s])]
           /\ SettledErrors = callErrors
<1>1. CASE phase # "publishing"
  BY <1>1 DEF SettledBoard, SettledErrors
<1>2. CASE nextEntry > Len(Plan)
  <2>1. nextEntry..Len(Plan) = {}
    BY <1>2
  <2>2. \A s \in Series : Pending(s) = {}
    BY <2>1 DEF Pending
  <2>3. \A k \in ErrKeys :
          {i \in nextEntry..Len(Plan) : Plan[i].errKey = k /\ Fails(i)} = {}
    BY <2>1
  <2>4. SettledErrors = [k \in ErrKeys |-> callErrors[k] + 0]
    BY <2>3, FS_EmptySet DEF SettledErrors
  <2>5. SettledErrors = callErrors
    BY <2>4
  <2>6. SettledBoard = [s \in Series |-> ViewOf(gauge[s])]
    BY <2>2 DEF SettledBoard
  <2> QED BY <2>5, <2>6
<1> QED BY <1>1, <1>2

\* Among finitely many entries one is the last.
LEMMA LastExists ==
    ASSUME NEW n \in Nat, NEW S \in SUBSET (1..n), S # {}
    PROVE  \E i \in S : \A j \in S : j <= i
<1> DEFINE fromEnd == {m \in 0..n : n - m \in S}
<1>1. fromEnd \subseteq Nat /\ fromEnd # {}
  <2>1. PICK i \in S : TRUE
    OBVIOUS
  <2>2. n - i \in 0..n /\ n - (n - i) = i
    OBVIOUS
  <2>3. n - i \in fromEnd
    BY <2>2
  <2>4. fromEnd \subseteq Nat
    OBVIOUS
  <2> HIDE DEF fromEnd
  <2> QED BY <2>3, <2>4
<1>2. \E c \in fromEnd : \A d \in fromEnd : ~ (<<d, c>> \in OpToRel(<, Nat))
  <2> HIDE DEF fromEnd
  <2> QED BY <1>1, NatLessThanWellFounded, WFMin
<1>3. PICK c \in fromEnd : \A d \in fromEnd : ~ (<<d, c>> \in OpToRel(<, Nat))
  BY <1>2
<1>4. ASSUME NEW j \in S PROVE j <= n - c
  <2>1. n - j \in fromEnd
    <3>1. n - j \in 0..n /\ n - (n - j) = j
      OBVIOUS
    <3> QED BY <3>1
  <2>2. ~ (n - j < c)
    BY <1>1, <1>3, <2>1 DEF OpToRel
  <2> QED BY <1>1, <2>1, <2>2
<1> QED BY <1>3, <1>4

\* A step that changes nothing the abstraction sees.
LEMMA Unseen ==
    ASSUME Deciding' <=> Deciding, UNCHANGED <<attempt, scrapeErrors>>,
           SettledBoard' = SettledBoard, SettledErrors' = SettledErrors,
           SettledTime' = SettledTime, SettledBlock' = SettledBlock
    PROVE  UNCHANGED Board!boardVars
BY DEF Board!boardVars, Deciding, SettledTime, SettledBlock

\* A step that only moves the scrape on, before or after the publishing loop.
LEMMA MovesOn ==
    ASSUME RInv, phase # "publishing", phase' # "publishing",
           UNCHANGED <<gauge, callErrors, nextEntry>>
    PROVE  SettledBoard' = SettledBoard /\ SettledErrors' = SettledErrors
<1>1. /\ SettledBoard = [s \in Series |-> ViewOf(gauge[s])]
      /\ SettledErrors = callErrors
  BY PlanAssumption, SettledOutside DEF RInv, IInv, TypeOK
<1>2. SettledBoard' = [s \in Series |-> ViewOf(gauge[s])]
  BY DEF SettledBoard, ViewOf
<1>3. SettledErrors' = callErrors
  <2>1. SettledErrors' = [k \in ErrKeys |-> callErrors[k] + 0]
    BY DEF SettledErrors
  <2> QED BY <2>1 DEF RInv, IInv, TypeOK
<1> QED BY <1>1, <1>2, <1>3

\* The program starts as the board does.
LEMMA InitBoard == Init => Board!Init
<1> SUFFICES ASSUME Init PROVE Board!Init
  OBVIOUS
<1>1. /\ phase = "idle" /\ attempt = 0 /\ lastSuccess = 0 /\ blockGauge = 0
      /\ gauge = [s \in Series |-> Unset]
      /\ callErrors = [k \in ErrKeys |-> 0] /\ scrapeErrors = [r \in Reasons |-> 0]
  BY DEF Init
<1>2. SettledBoard = [s \in Series |-> [call |-> 0, block |-> 0, scrape |-> 0]]
  BY <1>1 DEF SettledBoard, ViewOf, Unset
<1>3. SettledErrors = [k \in ErrKeys |-> 0]
  BY <1>1 DEF SettledErrors
<1> QED BY <1>1, <1>2, <1>3 DEF Board!Init

\* A scrape begins: so does the board's.
LEMMA StartIsBegin == RInv /\ StartScrape => Board!Begin
<1> SUFFICES ASSUME RInv, StartScrape PROVE Board!Begin
  OBVIOUS
<1>1. /\ phase = "idle" /\ phase' = "resolving" /\ attempt' = attempt + 1
      /\ UNCHANGED <<gauge, callErrors, scrapeErrors, lastSuccess, blockGauge>>
  BY DEF StartScrape, seriesVars, statusVars
<1>2. SettledBoard' = SettledBoard
  BY <1>1 DEF SettledBoard, ViewOf
<1>3. SettledErrors' = SettledErrors
  BY <1>1 DEF SettledErrors
<1> QED BY <1>1, <1>2, <1>3 DEF Board!Begin

\* A scrape that gives up or is dropped fails under its reason.
LEMMA FailureIsFail ==
    ASSUME RInv, NEW reason \in Reasons, Deciding, phase' = "idle", CountFailure(reason),
           UNCHANGED <<attempt, nextEntry, gauge, callErrors, lastSuccess, blockGauge>>
    PROVE  Board!Fail(reason)
<1>1. SettledBoard' = SettledBoard /\ SettledErrors' = SettledErrors
  BY MovesOn DEF Deciding
<1>2. SettledTime' = SettledTime /\ SettledBlock' = SettledBlock
  BY DEF SettledTime, SettledBlock, Deciding
<1> QED BY <1>1, <1>2 DEF Board!Fail, CountFailure, Deciding, SettledTime, SettledBlock

\* What an entry shows, once the results are there.
LEMMA ViewOfEntry ==
    ASSUME IInv, Gathered, NEW i \in 1..Len(Plan)
    PROVE  ViewOf(SampleOf(i, FALSE)) = [call |-> Plan[i].call, block |-> pinned, scrape |-> attempt]
<1>1. Plan[i] \in Entry
  BY PlanAssumption
<1>2. Plan[i].call \in 1..Len(results)
  BY <1>1, CountAssumption DEF Entry, Calls, IInv, Chunking
<1>3. ResultOf(i).call = Plan[i].call /\ ResultOf(i).block = pinned
  BY <1>2 DEF ResultOf, IInv, ResultsAligned
<1> QED BY <1>3 DEF ViewOf, SampleOf

\* Accepting the results decides the whole scrape.
LEMMA AcceptanceIsCommit ==
    ASSUME RInv, phase = "returned", phase' = "publishing",
           UNCHANGED <<cycleVars, seriesVars, lossVars, statusVars, scrapeErrors>>
    PROVE  \E b \in Blocks, failed \in SUBSET Board!Entries : Board!Commit(b, failed)
<1> DEFINE failed == {i \in 1..Len(Plan) : Fails(i)}
<1>1. /\ nextEntry = 1 /\ pinned \in Blocks /\ Gathered
      /\ UNCHANGED <<attempt, pinned, results, nextEntry, gauge, callErrors,
                     lastSuccess, blockGauge>>
  BY DEF RInv, Published, Deciding, IInv, Chunking, Gathered, cycleVars, seriesVars, lossVars, statusVars
<1>2. \A i : Fails(i)' = Fails(i) /\ SampleOf(i, FALSE)' = SampleOf(i, FALSE)
  BY <1>1 DEF Fails, SampleOf, ResultOf
<1>3. failed \in SUBSET Board!Entries
  BY DEF Board!Entries
<1>4. ASSUME NEW s \in Series
      PROVE  SettledBoard'[s] =
               LET shown == {i \in Board!Entries \ failed : Plan[i].series = s}
               IN IF shown = {} THEN SettledBoard[s]
                  ELSE [call |-> Plan[Board!Last(shown)].call, block |-> pinned,
                        scrape |-> attempt]
  <2> DEFINE shown == {i \in Board!Entries \ failed : Plan[i].series = s}
  <2>1. Pending(s)' = shown
    BY <1>1, <1>2 DEF Pending, Board!Entries
  <2>2. SettledBoard[s] = ViewOf(gauge[s])
    BY DEF SettledBoard
  <2>3. LastPending(s)' = Board!Last(shown)
    BY <2>1 DEF LastPending, Board!Last
  <2>4. SettledBoard'[s] = IF shown # {} THEN ViewOf(SampleOf(Board!Last(shown), FALSE))
                           ELSE ViewOf(gauge[s])
    BY <1>1, <1>2, <2>1, <2>3 DEF SettledBoard, ViewOf
  <2>5. ASSUME shown # {} PROVE Board!Last(shown) \in 1..Len(Plan)
    <3>1. shown \in SUBSET (1..Len(Plan)) /\ Len(Plan) \in Nat
      BY PlanAssumption DEF Board!Entries
    <3>2. \E i \in shown : \A j \in shown : j <= i
      <4> HIDE DEF shown
      <4> QED BY <2>5, <3>1, LastExists
    <3> QED BY <3>1, <3>2 DEF Board!Last
  <2> HIDE DEF shown
  <2>6. CASE shown # {}
    BY <1>1, <2>4, <2>5, <2>6, ViewOfEntry DEF RInv, shown
  <2>7. CASE shown = {}
    BY <2>2, <2>4, <2>7 DEF shown
  <2> QED BY <2>6, <2>7
<1>5. ASSUME NEW k \in ErrKeys
      PROVE  SettledErrors'[k] =
               SettledErrors[k] + Cardinality({i \in failed : Plan[i].errKey = k})
  <2>1. SettledErrors[k] = callErrors[k]
    BY DEF SettledErrors, RInv, IInv, TypeOK
  <2>2. {i \in nextEntry..Len(Plan) : Plan[i].errKey = k /\ Fails(i)}'
          = {i \in failed : Plan[i].errKey = k}
    BY <1>1, <1>2
  <2> QED BY <1>1, <2>1, <2>2 DEF SettledErrors
<1> HIDE DEF failed
<1>6. SettledBoard' = [s \in Series |->
          LET shown == {i \in Board!Entries \ failed : Plan[i].series = s}
          IN IF shown = {} THEN SettledBoard[s]
             ELSE [call |-> Plan[Board!Last(shown)].call, block |-> pinned, scrape |-> attempt]]
  BY <1>4 DEF SettledBoard
<1>7. SettledErrors' = [k \in ErrKeys |->
          SettledErrors[k] + Cardinality({i \in failed : Plan[i].errKey = k})]
  BY <1>5 DEF SettledErrors
<1>8. \A S : Board!Cardinality(S) = Cardinality(S)
  BY DEF Board!Cardinality, Cardinality
<1>9. Board!Commit(pinned, failed)
  <2>1. SettledErrors' = [k \in ErrKeys |->
          SettledErrors[k] + Board!Cardinality({i \in failed : Plan[i].errKey = k})]
    BY <1>7, <1>8
  <2> QED BY <1>1, <1>6, <2>1 DEF Board!Commit
<1> QED BY <1>1, <1>3, <1>9

-----------------------------------------------------------------------------
\* The publishing loop and the stamps: the abstraction has counted them already.

\* A failing entry leaves what is pending to the entries after it.
LEMMA CountedEntryUnseen ==
    ASSUME RInv, CountCallError
    PROVE  SettledBoard' = SettledBoard /\ SettledErrors' = SettledErrors
<1>1. /\ phase = "publishing" /\ phase' = phase /\ nextEntry' = nextEntry + 1
      /\ Fails(nextEntry) /\ nextEntry \in 1..Len(Plan) /\ Len(Plan) \in Nat
      /\ UNCHANGED <<attempt, results, gauge>>
      /\ callErrors' = [callErrors EXCEPT ![Plan[nextEntry].errKey] = @ + 1]
      /\ callErrors \in [ErrKeys -> Nat]
  BY PlanAssumption DEF CountCallError, AtEntry, stepVars, RInv, IInv, TypeOK
<1>2. \A i : Fails(i)' = Fails(i) /\ SampleOf(i, FALSE)' = SampleOf(i, FALSE)
  BY <1>1 DEF Fails, SampleOf, ResultOf
<1>3. nextEntry..Len(Plan) = {nextEntry} \cup (nextEntry + 1..Len(Plan))
      /\ nextEntry \notin nextEntry + 1..Len(Plan)
  BY <1>1
<1>4. SettledBoard' = SettledBoard
  <2>1. \A s \in Series : Pending(s)' = Pending(s)
    BY <1>1, <1>2, <1>3 DEF Pending
  <2>2. \A s \in Series : LastPending(s)' = LastPending(s)
    BY <2>1 DEF LastPending
  <2> QED BY <1>1, <1>2, <2>1, <2>2 DEF SettledBoard, ViewOf
<1>5. ASSUME NEW k \in ErrKeys PROVE SettledErrors'[k] = SettledErrors[k]
  <2> DEFINE now  == {i \in nextEntry..Len(Plan) : Plan[i].errKey = k /\ Fails(i)}
             then == {i \in nextEntry + 1..Len(Plan) : Plan[i].errKey = k /\ Fails(i)}
  <2>1. /\ SettledErrors[k] = callErrors[k] + Cardinality(now)
        /\ SettledErrors'[k] = callErrors'[k] + Cardinality(then)
    BY <1>1, <1>2 DEF SettledErrors
  <2>2. IsFiniteSet(then) /\ Cardinality(then) \in Nat
    <3>1. IsFiniteSet(nextEntry + 1..Len(Plan))
      BY <1>1, FS_Interval
    <3> QED BY <3>1, FS_Subset, FS_CardinalityType
  <2>3. CASE Plan[nextEntry].errKey = k
    <3>1. now = then \cup {nextEntry} /\ nextEntry \notin then
      BY <1>1, <1>3, <2>3
    <3>2. Cardinality(now) = Cardinality(then) + 1
      <4> HIDE DEF now, then
      <4> QED BY <2>2, <3>1, FS_AddElement
    <3>3. callErrors'[k] = callErrors[k] + 1 /\ callErrors[k] \in Nat
      BY <1>1, <2>3
    <3> HIDE DEF now, then
    <3> QED BY <2>1, <2>2, <3>2, <3>3
  <2>4. CASE Plan[nextEntry].errKey # k
    <3>1. now = then
      BY <1>1, <1>3, <2>4
    <3>2. callErrors'[k] = callErrors[k]
      BY <1>1, <2>4
    <3> QED BY <2>1, <3>1, <3>2
  <2> QED BY <2>3, <2>4
<1>6. SettledErrors' = SettledErrors
  BY <1>5 DEF SettledErrors
<1> QED BY <1>4, <1>6

\* An entry that is shown was the pending one of its series, or a later one of
\* that series prevails over it.
LEMMA ShownEntryUnseen ==
    ASSUME RInv, SetGauge
    PROVE  SettledBoard' = SettledBoard /\ SettledErrors' = SettledErrors
<1>1. /\ phase = "publishing" /\ phase' = phase /\ nextEntry' = nextEntry + 1
      /\ ~Fails(nextEntry) /\ nextEntry \in 1..Len(Plan) /\ Len(Plan) \in Nat
      /\ UNCHANGED <<attempt, results, callErrors>>
      /\ gauge \in [Series -> Sample]
  BY PlanAssumption DEF SetGauge, AtEntry, stepVars, RInv, IInv, TypeOK
<1>2. PICK lossy :
        gauge' = [gauge EXCEPT ![Plan[nextEntry].series] = SampleOf(nextEntry, lossy)]
  BY DEF SetGauge
<1>3. \A i : Fails(i)' = Fails(i) /\ SampleOf(i, FALSE)' = SampleOf(i, FALSE)
  BY <1>1 DEF Fails, SampleOf, ResultOf
<1>4. nextEntry..Len(Plan) = {nextEntry} \cup (nextEntry + 1..Len(Plan))
      /\ nextEntry \notin nextEntry + 1..Len(Plan)
  BY <1>1
<1>5. ASSUME NEW s \in Series PROVE SettledBoard'[s] = SettledBoard[s]
  <2>1. /\ SettledBoard[s] = IF Pending(s) # {} THEN ViewOf(SampleOf(LastPending(s), FALSE))
                             ELSE ViewOf(gauge[s])
        /\ SettledBoard'[s] = IF Pending(s)' # {} THEN ViewOf(SampleOf(LastPending(s)', FALSE))
                              ELSE ViewOf(gauge'[s])
    BY <1>1, <1>3 DEF SettledBoard, ViewOf
  <2>2. CASE s # Plan[nextEntry].series
    <3>1. Pending(s)' = Pending(s)
      BY <1>1, <1>3, <1>4, <2>2 DEF Pending
    <3>2. LastPending(s)' = LastPending(s)
      BY <3>1 DEF LastPending
    <3>3. gauge'[s] = gauge[s]
      BY <1>1, <1>2, <2>2
    <3> QED BY <2>1, <3>1, <3>2, <3>3
  <2>3. CASE s = Plan[nextEntry].series
    <3>1. Pending(s) = Pending(s)' \cup {nextEntry}
      BY <1>1, <1>3, <1>4, <2>3 DEF Pending
    <3>2. \A i \in Pending(s)' : i \in 1..Len(Plan) /\ nextEntry < i
      BY <1>1 DEF Pending
    <3>3. CASE Pending(s)' = {}
      <4>1. LastPending(s) = nextEntry
        BY <1>1, <3>1, <3>3 DEF LastPending
      <4>2. ViewOf(gauge'[s]) = ViewOf(SampleOf(nextEntry, FALSE))
        BY <1>1, <1>2, <2>3 DEF ViewOf, SampleOf
      <4> QED BY <2>1, <3>1, <3>3, <4>1, <4>2
    <3>4. CASE Pending(s)' # {}
      <4>1. \E i \in Pending(s)' : \A j \in Pending(s)' : j <= i
        <5>1. Pending(s)' \in SUBSET (1..Len(Plan))
          BY <3>2
        <5> QED BY <1>1, <3>4, <5>1, LastExists
      <4>2. LastPending(s)' \in Pending(s)' /\ \A j \in Pending(s)' : j <= LastPending(s)'
        BY <4>1 DEF LastPending
      <4>3. \A j \in Pending(s) : j <= LastPending(s)'
        BY <1>1, <3>1, <3>2, <4>2
      <4>4. LastPending(s) \in Pending(s) /\ \A j \in Pending(s) : j <= LastPending(s)
        <5>1. LastPending(s)' \in Pending(s)
          BY <3>1, <4>2
        <5> QED BY <4>3, <5>1 DEF LastPending
      <4>5. LastPending(s) = LastPending(s)'
        <5>1. \A j \in Pending(s) : j \in Int
          BY <1>1, <3>1, <3>2
        <5>2. LastPending(s)' \in Pending(s)
          BY <3>1, <4>2
        <5> QED BY <4>3, <4>4, <5>1, <5>2
      <4> QED BY <2>1, <3>1, <3>4, <4>5
    <3> QED BY <3>3, <3>4
  <2> QED BY <2>2, <2>3
<1>6. SettledBoard' = SettledBoard
  BY <1>5 DEF SettledBoard
<1>7. ASSUME NEW k \in ErrKeys
      PROVE  {i \in nextEntry..Len(Plan) : Plan[i].errKey = k /\ Fails(i)}'
               = {i \in nextEntry..Len(Plan) : Plan[i].errKey = k /\ Fails(i)}
  BY <1>1, <1>3, <1>4
<1>8. SettledErrors' = SettledErrors
  BY <1>1, <1>7 DEF SettledErrors
<1> QED BY <1>6, <1>8

\* A series that is created, or a warning, changes nothing the board shows.
LEMMA UnshownStepUnseen ==
    ASSUME UNCHANGED <<phase, attempt, results, nextEntry, gauge, callErrors>>
    PROVE  SettledBoard' = SettledBoard /\ SettledErrors' = SettledErrors
<1>1. \A i : Fails(i)' = Fails(i) /\ SampleOf(i, FALSE)' = SampleOf(i, FALSE)
  BY DEF Fails, SampleOf, ResultOf
<1>2. \A s : Pending(s)' = Pending(s) /\ LastPending(s)' = LastPending(s)
  BY <1>1 DEF Pending, LastPending
<1> QED BY <1>1, <1>2 DEF SettledBoard, SettledErrors, ViewOf

\* Published, step by step, is not seen by the abstraction.
LEMMA PublishUnseen ==
    ASSUME RInv, Publish
    PROVE  UNCHANGED Board!boardVars
<1> USE DEF cycleVars, seriesVars, lossVars, statusVars, stepVars, SettledTime, SettledBlock, Deciding
<1>1. CASE CountCallError
  <2>1. UNCHANGED <<phase, attempt, pinned, scrapeErrors, lastSuccess, blockGauge>>
    BY <1>1 DEF CountCallError
  <2> QED BY <1>1, <2>1, CountedEntryUnseen, Unseen
<1>2. CASE SetGauge
  <2>1. UNCHANGED <<phase, attempt, pinned, scrapeErrors, lastSuccess, blockGauge>>
    BY <1>2 DEF SetGauge
  <2> QED BY <1>2, <2>1, ShownEntryUnseen, Unseen
<1>3. CASE CreateSeries \/ WarnPrecision
  <2>1. UNCHANGED <<phase, attempt, pinned, results, nextEntry, gauge, callErrors,
                    scrapeErrors, lastSuccess, blockGauge>>
    BY <1>3 DEF CreateSeries, WarnPrecision
  <2> QED BY <2>1, UnshownStepUnseen, Unseen
<1>4. CASE StampTime
  <2>1. /\ phase = "publishing" /\ phase' = "stampBlock" /\ nextEntry > Len(Plan)
        /\ lastSuccess' = attempt
        /\ UNCHANGED <<attempt, pinned, nextEntry, gauge, callErrors, scrapeErrors, blockGauge>>
    BY <1>4 DEF StampTime, AfterEntries
  <2>2. SettledBoard = [s \in Series |-> ViewOf(gauge[s])] /\ SettledErrors = callErrors
    BY <2>1, PlanAssumption, SettledOutside DEF RInv, IInv, TypeOK
  <2>3. SettledBoard' = [s \in Series |-> ViewOf(gauge[s])]
    BY <2>1 DEF SettledBoard, ViewOf
  <2>4. SettledErrors' = callErrors
    <3>1. SettledErrors' = [k \in ErrKeys |-> callErrors[k] + 0]
      BY <2>1 DEF SettledErrors
    <3> QED BY <3>1 DEF RInv, IInv, TypeOK
  <2> QED BY <2>1, <2>2, <2>3, <2>4, Unseen
<1>5. CASE StampBlock
  <2>1. /\ phase = "stampBlock" /\ phase' = "stampPlan" /\ blockGauge' = pinned
        /\ UNCHANGED <<attempt, nextEntry, gauge, callErrors, scrapeErrors, lastSuccess>>
    BY <1>5 DEF StampBlock
  <2> QED BY <2>1, MovesOn, Unseen
<1>6. CASE StampPlan \/ StampDuration
  <2>1. /\ phase \in {"stampPlan", "stampDuration"} /\ phase' \in {"stampDuration", "idle"}
        /\ UNCHANGED <<attempt, nextEntry, gauge, callErrors, scrapeErrors, lastSuccess, blockGauge>>
    BY <1>6 DEF StampPlan, StampDuration
  <2> QED BY <2>1, MovesOn, Unseen
<1> QED BY <1>1, <1>2, <1>4, <1>5, <1>6, <1>3 DEF Publish, PublishEntry

\* Each step of Scrape is a step of the board or none.
LEMMA NextBoard ==
    ASSUME RInv, [Next]_vars
    PROVE  [Board!Next]_(Board!boardVars)
<1> USE DEF cycleVars, seriesVars, lossVars, statusVars
<1>1. CASE StartScrape
  BY <1>1, StartIsBegin DEF Board!Next
<1>2. CASE (\E b \in Blocks : ResolveBlock(b)) \/ ReplyChunk
  <2>1. /\ phase \in {"resolving", "calling"} /\ phase' \in {"calling", "returned"}
        /\ UNCHANGED <<attempt, nextEntry, gauge, callErrors, scrapeErrors, lastSuccess, blockGauge>>
    BY <1>2 DEF ResolveBlock, ReplyChunk, AcceptChunk
  <2> QED BY <2>1, MovesOn, Unseen DEF Deciding, SettledTime, SettledBlock
<1>3. CASE ResolveFails
  <2>1. Board!Fail("block_not_available")
    BY <1>3, FailureIsFail DEF ResolveFails, GiveUp, Reasons, Deciding
  <2> QED BY <2>1 DEF Board!Next, Reasons
<1>4. CASE ChunkFails
  <2>1. Board!Fail("chunk_failed")
    BY <1>4, FailureIsFail DEF ChunkFails, GiveUp, Reasons, Deciding
  <2> QED BY <2>1 DEF Board!Next, Reasons
<1>5. CASE Timeout
  <2>1. Board!Fail("timeout")
    BY <1>5, FailureIsFail DEF Timeout, Awaiting, Reasons, Deciding
  <2> QED BY <2>1 DEF Board!Next, Reasons
<1>6. CASE CheckResults
  <2>1. AllAnswered
    BY <1>6 DEF CheckResults, AllAnswered, RInv, IInv, Chunking, Gathered
  <2> QED BY <1>6, <2>1, AcceptanceIsCommit DEF CheckResults, Board!Next
<1>7. CASE Publish
  BY <1>7, PublishUnseen
<1>8. CASE UNCHANGED vars
  <2>1. UNCHANGED <<phase, attempt, pinned, results, nextEntry, gauge, callErrors,
                    scrapeErrors, lastSuccess, blockGauge>>
    BY <1>8 DEF vars
  <2> QED BY <2>1, UnshownStepUnseen, Unseen DEF Deciding, SettledTime, SettledBlock
<1> QED BY <1>1, <1>2, <1>3, <1>4, <1>5, <1>6, <1>7, <1>8 DEF Next, Resolve

\* Every scrape updates the page as if in one step and from one block, or not at
\* all: what scrape_once does after its last await is one step of the board.
THEOREM ScrapeImplementsBoard == Spec => ImplementsBoard
<1>1. Init => RInv
  <2>1. Init => Published
    BY DEF Init, Published, Deciding, Stamping
  <2> QED BY <2>1, InitIInv, InitCoherence DEF RInv
<1>2. RInv /\ [Next]_vars => RInv'
  BY NextIInv, NextCoherence, NextPublishing DEF RInv, Coherence
<1> QED BY <1>1, <1>2, InitBoard, NextBoard, PTL DEF Spec, ImplementsBoard, Board!Spec
=============================================================================
