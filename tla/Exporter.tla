------------------------------ MODULE Exporter ------------------------------
(***************************************************************************)
(* Exporter::run with the scrapes it awaits: the loop of ScrapeLoop, whose *)
(* scrapes are opaque, composed with the cycle of Scrape, which has no     *)
(* clock.  Time passes only where the program awaits; the deadline drops   *)
(* the cycle at the await it has reached, when scrape.timeout has passed.  *)
(***************************************************************************)
EXTENDS Scrape

CONSTANTS Timings, MaxRequests

\* What ScrapeLoop asks of its constants.
ASSUME TimingAssumption ==
    Timings \subseteq (Nat \ {0}) \X (Nat \ {0}) /\ MaxRequests \in Nat

VARIABLES
    timing, pc, elapsed, due, cancelled, server, requests, exit,
    gridPos, startsInCell, sinceStart, firstGap, sinceCancel,
    polled,       \* run_scrape, which the loop awaits, has begun its cycle
    sinceSuccess, \* history: time since the last success, or since the start
    failedBefore  \* history: failures counted up to the last success

Loop == INSTANCE ScrapeLoop

loopVars == <<timing, pc, elapsed, due, cancelled, server, requests, exit,
              gridPos, startsInCell, sinceStart, firstGap, sinceCancel>>
linkVars == <<polled, sinceSuccess, failedBefore>>

Interval == timing[1]
Deadline == timing[2]

ExporterInit ==
    /\ Init /\ Loop!Init
    /\ polled = FALSE /\ sinceSuccess = 0 /\ failedBefore = 0

\* run awaits run_scrape, whose cycle begins.
Begin ==
    /\ Loop!Scraping /\ ~polled
    /\ StartScrape
    /\ polled' = TRUE
    /\ UNCHANGED <<loopVars, sinceSuccess, failedBefore>>

NoteSuccess ==
    IF lastSuccess' # lastSuccess
    THEN sinceSuccess' = 0 /\ failedBefore' = Failures
    ELSE UNCHANGED <<sinceSuccess, failedBefore>>

\* The node answers an await of the cycle.
NodeAnswers ==
    /\ Resolve \/ ReplyChunk \/ ChunkFails
    /\ UNCHANGED <<loopVars, linkVars>>

\* The cycle goes on where it does not await.
CycleRuns ==
    /\ CheckResults \/ Publish
    /\ NoteSuccess
    /\ UNCHANGED <<loopVars, polled>>

\* The cycle is over and run_scrape returns to the loop.
Return ==
    /\ polled /\ phase = "idle"
    /\ Loop!ScrapeReturns
    /\ polled' = FALSE
    /\ UNCHANGED <<vars, sinceSuccess, failedBefore>>

\* The deadline drops the cycle.
Expire ==
    /\ Loop!DeadlineFires
    /\ Timeout
    /\ polled' = FALSE
    /\ UNCHANGED <<sinceSuccess, failedBefore>>

\* Mutated form: the tick spawns the scrape and the loop goes on.
SpawnOnTick ==
    /\ pc = "select" /\ due <= 0
    /\ due' = Loop!NextDue(-due)
    /\ StartScrape
    /\ UNCHANGED <<timing, pc, elapsed, cancelled, server, requests, exit, gridPos,
                   startsInCell, sinceStart, firstGap, sinceCancel, linkVars>>

\* The loop takes a tick.
TakeTick == Loop!TakeTick /\ UNCHANGED <<vars, linkVars>>

\* What the loop, the signal handler and the server do besides.
LoopRuns ==
    /\ \/ Loop!MakeTicker \/ Loop!JoinServer \/ Loop!TakeCancel \/ Loop!Cancel
       \/ Loop!ServerStep
    /\ UNCHANGED <<vars, linkVars>>

\* Time passes while the cycle, or else the loop, awaits.
Wait ==
    /\ Loop!Scraping => polled /\ Awaiting
    /\ Loop!Tick
    /\ sinceSuccess' = sinceSuccess + 1
    /\ UNCHANGED <<vars, polled, failedBefore>>

ExporterNext == \/ Begin \/ NodeAnswers \/ CycleRuns \/ Return \/ Expire
                \/ TakeTick \/ LoopRuns \/ Wait

allVars == <<vars, loopVars, linkVars>>

(***************************************************************************)
(* The tasks are polled and time passes; the node owes no answer, and no   *)
(* signal need come.                                                       *)
(***************************************************************************)
ExporterSpec ==
    /\ ExporterInit /\ [][ExporterNext]_allVars
    /\ WF_allVars(Begin) /\ WF_allVars(CycleRuns) /\ WF_allVars(Return)
    /\ WF_allVars(Expire) /\ WF_allVars(TakeTick) /\ WF_allVars(Wait)
    /\ WF_allVars(Loop!MakeTicker /\ UNCHANGED <<vars, linkVars>>)

-----------------------------------------------------------------------------
(***************************************************************************)
(* Properties                                                              *)
(***************************************************************************)

LongestGap == IF Deadline > Interval THEN Deadline ELSE Interval

\* Silence is never without a cause on the page: while the exporter runs, the
\* time since the last success bounds from below how many failures were counted
\* since, one per interval or deadline once the first interval and two deadlines
\* have passed.  README.md:193 counts on it: "if it's older than a few intervals,
\* alert".
StaleMeansCounted ==
    \A k \in 1..MaxAttempts :
        /\ Loop!Looping
        /\ sinceSuccess > Interval + 2 * Deadline + (k - 1) * LongestGap
        => Failures - failedBefore >= k

\* A cycle that is under way has the loop waiting for it, within its deadline,
\* although a signal, a tick and the deadline may come due together: two cycles
\* never overlap, and once the loop is left, while the server answers its last
\* requests, none can still change the page (exporter.rs:109-115).
CycleWithinDeadline == phase # "idle" => Loop!Scraping /\ polled /\ elapsed <= Deadline

\* A silent node, hanging in any request of the cycle, never stops the scrapes:
\* all those of the bound are made unless the exporter is cancelled.
ScrapesGoOn == <>(cancelled \/ attempt = MaxAttempts)
=============================================================================
