----------------------------- MODULE ScrapeLoop -----------------------------
(***************************************************************************)
(* Exporter::run (exporter.rs): the initial scrape, the interval ticker    *)
(* with MissedTickBehavior::Skip, the select! between the ticker and the   *)
(* cancellation token, and the join of the HTTP server task; the signal    *)
(* handler of main.rs, which cancels; and the server task of server.rs.    *)
(*                                                                         *)
(* Time is discrete and relative.  A ready task runs before time passes,   *)
(* which is what the runtime aims at: a tick of this clock is long against *)
(* its scheduling delays.  What a scrape does is in Scrape; here it takes  *)
(* some time, at most scrape.timeout.                                      *)
(***************************************************************************)
EXTENDS Integers

CONSTANTS
    Timings,      \* pairs of scrape.interval and scrape.timeout to configure
    MaxRequests   \* bound on the HTTP requests in flight

\* A duration of zero is replaced by the default when the configuration is read.
ASSUME TimeAssumption ==
    Timings \subseteq (Nat \ {0}) \X (Nat \ {0}) /\ MaxRequests \in Nat

VARIABLES
    timing,       \* the configured interval and timeout
    pc,           \* where run is
    elapsed,      \* time spent in the current scrape
    due,          \* time until the ticker's deadline, negative once it is missed
    cancelled,    \* the cancellation token
    server,       \* the state of the server task
    requests,     \* requests the server has accepted and not answered
    exit,         \* what run returned
    gridPos,      \* history: time since the ticker was made, modulo Interval
    startsInCell, \* history: scrapes begun since gridPos was last 0
    sinceStart,   \* history: time since the last scrape began
    firstGap,     \* history: only the initial scrape has begun
    sinceCancel   \* history: time that passed since the cancellation

Interval == timing[1]
Timeout  == timing[2]

historyVars == <<timing, gridPos, startsInCell, sinceStart, firstGap, sinceCancel>>
serverVars  == <<server, requests>>
vars == <<pc, elapsed, due, cancelled, serverVars, exit, historyVars>>

\* The history of the time since cancellation stops counting here.
SinceCancelCap == Timeout + 1

Scraping == pc \in {"first", "scrape"}
Ticking  == pc \in {"select", "scrape"}
Looping  == pc \in {"first", "ticker", "select", "scrape"}
Ended    == {"closed", "failed"}

Init ==
    /\ timing \in Timings
    /\ pc = "first" /\ elapsed = 0 /\ due = 0 /\ cancelled = FALSE
    /\ server = "binding" /\ requests = 0 /\ exit = "none"
    /\ gridPos = 0 /\ startsInCell = 0 /\ sinceStart = 0 /\ firstGap = TRUE
    /\ sinceCancel = 0

-----------------------------------------------------------------------------
\* The loop

AfterScrape == IF pc = "first" THEN "ticker" ELSE "select"

\* Mutated form: the loop sleeps for the interval after each scrape.
ReturnAndSleep ==
    /\ Scraping
    /\ pc' = AfterScrape
    /\ elapsed' = 0
    /\ due' = Interval
    /\ UNCHANGED <<cancelled, serverVars, exit, historyVars>>

\* scrape_once finishes, with or without success, before its deadline.
ScrapeReturns ==
    /\ Scraping
    /\ pc' = AfterScrape
    /\ elapsed' = 0
    /\ UNCHANGED <<due, cancelled, serverVars, exit, historyVars>>

\* Mutated forms: there is no deadline, or a timeout ends the loop.
NoDeadline == FALSE
DeadlineEndsLoop ==
    /\ Scraping /\ elapsed = Timeout
    /\ pc' = "join"
    /\ elapsed' = 0
    /\ UNCHANGED <<due, cancelled, serverVars, exit, historyVars>>

DeadlineDue == Scraping /\ elapsed = Timeout

\* The deadline of run_scrape drops the cycle.
DeadlineFires ==
    /\ DeadlineDue
    /\ pc' = AfterScrape
    /\ elapsed' = 0
    /\ UNCHANGED <<due, cancelled, serverVars, exit, historyVars>>

\* The ticker is made and its first, immediate tick consumed.
MakeTicker ==
    /\ pc = "ticker"
    /\ pc' = "select"
    /\ due' = Interval
    /\ UNCHANGED <<elapsed, cancelled, serverVars, exit, historyVars>>

\* Mutated form: MissedTickBehavior::Burst, tokio's default.
NextDueBurst(late) == Interval - late

\* MissedTickBehavior::Skip: a tick taken late sets the next one to the next
\* multiple of the interval since the ticker was made.
NextDue(late) == Interval - (late % Interval)

\* select! finds the ticker ready, and may prefer it to a cancelled token.
TakeTick ==
    /\ pc = "select" /\ due <= 0
    /\ pc' = "scrape"
    /\ due' = NextDue(-due)
    /\ startsInCell' = startsInCell + 1
    /\ sinceStart' = 0
    /\ firstGap' = FALSE
    /\ UNCHANGED <<timing, elapsed, cancelled, serverVars, exit, gridPos, sinceCancel>>

\* Mutated form: a select! that polls the ticker first.
TakeCancelIfIdle ==
    /\ pc = "select" /\ cancelled /\ due > 0
    /\ pc' = "join"
    /\ UNCHANGED <<elapsed, due, cancelled, serverVars, exit, historyVars>>

\* select! finds the token cancelled.
TakeCancel ==
    /\ pc = "select" /\ cancelled
    /\ pc' = "join"
    /\ UNCHANGED <<elapsed, due, cancelled, serverVars, exit, historyVars>>

\* Mutated form: the result of the server task is dropped.
JoinIgnoringResult ==
    /\ pc = "join" /\ server \in Ended
    /\ pc' = "exited"
    /\ exit' = "ok"
    /\ UNCHANGED <<elapsed, due, cancelled, serverVars, historyVars>>

\* run awaits the server task and returns its result.
JoinServer ==
    /\ pc = "join" /\ server \in Ended
    /\ pc' = "exited"
    /\ exit' = IF server = "failed" THEN "error" ELSE "ok"
    /\ UNCHANGED <<elapsed, due, cancelled, serverVars, historyVars>>

-----------------------------------------------------------------------------
\* The signal handler: SIGTERM or ctrl-c, at any time.
Cancel ==
    /\ ~cancelled /\ pc # "exited"
    /\ cancelled' = TRUE
    /\ UNCHANGED <<pc, elapsed, due, serverVars, exit, historyVars>>

-----------------------------------------------------------------------------
\* The server task

loopVars == <<pc, elapsed, due, cancelled, exit, historyVars>>

\* The address is bound and served; or it is not, or the router panics over paths
\* that clash or do not begin with a slash.
Bind     == server = "binding" /\ server' = "serving" /\ UNCHANGED <<requests, loopVars>>
BindFails == server = "binding" /\ server' = "failed" /\ UNCHANGED <<requests, loopVars>>

Accept ==
    /\ server = "serving" /\ requests < MaxRequests
    /\ requests' = requests + 1
    /\ UNCHANGED <<server, loopVars>>

Answer ==
    /\ requests > 0
    /\ requests' = requests - 1
    /\ UNCHANGED <<server, loopVars>>

\* Graceful shutdown: no new request, the ones in flight are answered.
Drain == server = "serving" /\ cancelled /\ server' = "draining" /\ UNCHANGED <<requests, loopVars>>
Close == server = "draining" /\ requests = 0 /\ server' = "closed" /\ UNCHANGED <<requests, loopVars>>

-----------------------------------------------------------------------------
\* A task of the loop is ready: it runs before time passes.
Ready == \/ pc = "ticker"
         \/ DeadlineDue
         \/ pc = "select" /\ (cancelled \/ due <= 0)
         \/ pc = "join" /\ server \in Ended

Tick ==
    /\ ~Ready /\ Looping
    /\ elapsed' = IF Scraping THEN elapsed + 1 ELSE elapsed
    /\ due' = IF Ticking THEN due - 1 ELSE due
    /\ gridPos' = IF Ticking THEN (gridPos + 1) % Interval ELSE gridPos
    /\ startsInCell' = IF Ticking /\ gridPos' = 0 THEN 0 ELSE startsInCell
    /\ sinceStart' = sinceStart + 1
    /\ sinceCancel' = IF cancelled /\ sinceCancel < SinceCancelCap
                      THEN sinceCancel + 1 ELSE sinceCancel
    /\ UNCHANGED <<timing, pc, cancelled, serverVars, exit, firstGap>>

LoopStep   == DeadlineFires \/ MakeTicker \/ TakeTick \/ JoinServer
ServerStep == Bind \/ BindFails \/ Drain \/ Close

Next == \/ ScrapeReturns \/ LoopStep \/ TakeCancel \/ Cancel
        \/ ServerStep \/ Accept \/ Answer \/ Tick

(***************************************************************************)
(* Time goes on and ready tasks are polled.  TakeCancel is strongly fair:  *)
(* when the ticker is ready too, select! draws the branch it polls first,  *)
(* and the token is not passed over for ever.  Nothing is assumed of the   *)
(* node, of the clients or of the signals.                                 *)
(***************************************************************************)
Fairness == WF_vars(Tick) /\ WF_vars(LoopStep) /\ WF_vars(ServerStep) /\ SF_vars(TakeCancel)

Spec == Init /\ [][Next]_vars /\ Fairness

-----------------------------------------------------------------------------
(***************************************************************************)
(* Properties                                                              *)
(***************************************************************************)

LongestScrapeOr(n) == IF Timeout > n THEN Timeout ELSE n

\* Every variable keeps its type, and the ticker never lags by more than one scrape.
TypeOK ==
    /\ timing \in Timings
    /\ pc \in {"first", "ticker", "select", "scrape", "join", "exited"}
    /\ elapsed \in Nat /\ due \in -Timeout..Interval /\ cancelled \in BOOLEAN
    /\ server \in {"binding", "serving", "draining", "closed", "failed"}
    /\ requests \in 0..MaxRequests /\ exit \in {"none", "ok", "error"}
    /\ gridPos \in 0..Interval - 1 /\ startsInCell \in Nat /\ sinceStart \in Nat
    /\ firstGap \in BOOLEAN /\ sinceCancel \in 0..SinceCancelCap

\* Scrapes that outlast the interval never shift the schedule: the next deadline
\* is always a whole number of intervals after the ticker was made
\* (exporter.rs:105, Skip and not Delay).
OnGrid == Ticking => (gridPos + due) % Interval = 0

\* README.md:91, "overlapping scrapes are skipped": ticks missed during a slow
\* scrape are dropped, not made up for, so no interval sees two scrapes begin.
OneScrapePerInterval == startsInCell <= 1

\* The wait between two scrapes is bounded whatever the node does: an interval,
\* or the deadline if that is longer; the first one may last both together,
\* because the ticker is only made after the initial scrape.
BoundedGap ==
    Looping => sinceStart <= IF firstGap THEN Timeout + Interval ELSE LongestScrapeOr(Interval)

\* With a deadline shorter than the interval, as by default, scrapes begin
\* exactly one interval apart: README.md:90, "time between scrapes".
ExactlyEveryInterval ==
    [][TakeTick /\ ~firstGap /\ Timeout < Interval => sinceStart = Interval]_vars

\* With such a deadline, the loop is left within one scrape.timeout of the
\* cancellation, although neither a scrape under way nor a ready tick is
\* interrupted by it (exporter.rs:109).
StopsWithinTimeout ==
    Timeout < Interval /\ Looping /\ cancelled => sinceCancel <= Timeout

\* run returns only once cancelled, after the server task has ended with no
\* request left unanswered, and its result is the server's: a listen address
\* that could not be bound is reported then, and not before (exporter.rs:115).
ExitReportsServer ==
    pc = "exited" => /\ cancelled /\ server \in Ended /\ requests = 0
                     /\ exit = "error" <=> server = "failed"

\* Scrapes go on for ever unless the exporter is cancelled, even if every one
\* of them hangs until its deadline.
ScrapesRecur == <>cancelled \/ []<>(pc = "scrape")

\* A cancelled exporter exits, if the clients of its server let it: one request
\* that is never read to its end keeps the process up.
CancelledExits == <>[](requests = 0) => (cancelled ~> pc = "exited")
=============================================================================
