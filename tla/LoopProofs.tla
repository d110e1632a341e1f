----------------------------- MODULE LoopProofs -----------------------------
(***************************************************************************)
(* Theorems about ScrapeLoop, for every interval and timeout and any       *)
(* number of requests in flight, and, on top of them, about Process: the   *)
(* start-up gates, the signal handler and the exit status.                 *)
(***************************************************************************)
EXTENDS Process, TLAPS

-----------------------------------------------------------------------------
(***************************************************************************)
(* The inductive invariant.  No property of the loop is inductive by       *)
(* itself: what bounds the ticker's lag is the time spent in the scrape,   *)
(* what bounds the gap between scrapes is the lag, and what bounds the     *)
(* stop is both.                                                           *)
(***************************************************************************)

\* The history of a loop that has no ticker yet.
Beginning ==
    pc \in {"first", "ticker"} =>
        due = 0 /\ gridPos = 0 /\ startsInCell = 0 /\ firstGap

\* A scrape is measured against its deadline, and only a scrape is; the time of
\* the current scrape is what elapsed since it began.
Timed ==
    /\ elapsed <= Timeout
    /\ ~Scraping => elapsed = 0
    /\ Scraping => sinceStart = elapsed
    /\ pc = "ticker" => sinceStart <= Timeout
    /\ pc = "scrape" => ~firstGap

\* The ticker's deadline is on the grid, and beyond the present cell of the grid
\* once this cell has seen a scrape begin.
Gridded ==
    Ticking => /\ \E k \in Int : gridPos + due = k * Interval
               /\ startsInCell > 0 => gridPos + due >= Interval

\* From one scrape to the next: the time since the last began and the time to the
\* deadline add up to an interval, to less when ticks were missed.
Paced ==
    /\ pc = "select" /\ firstGap => due >= 0 /\ sinceStart + due <= Timeout + Interval
    /\ Ticking /\ ~firstGap => /\ sinceStart + due \in 1..Interval
                               /\ Timeout < Interval => sinceStart + due = Interval
    /\ pc = "select" => sinceStart <= Timeout \/ due >= 0

\* Where the time since the cancellation can have gone.
Stopping ==
    /\ ~cancelled => sinceCancel = 0
    /\ Timeout < Interval /\ cancelled =>
        /\ Scraping => sinceCancel <= elapsed
        /\ pc \in {"ticker", "select"} => sinceCancel <= Timeout
        /\ pc = "select" /\ due <= 0 => sinceCancel = 0

\* The server's side of the exit.
Served ==
    /\ server \in {"binding", "closed", "failed"} => requests = 0
    /\ pc \in {"join", "exited"} => cancelled

LoopInv == /\ TypeOK /\ OneScrapePerInterval /\ ExitReportsServer
           /\ Beginning /\ Timed /\ Gridded /\ Paced /\ Stopping /\ Served

-----------------------------------------------------------------------------
\* The lengths of time and the arithmetic of the grid

\* The interval and the timeout are positive.
LEMMA Times ==
    ASSUME TypeOK
    PROVE  Interval \in Nat \ {0} /\ Timeout \in Nat \ {0}
BY TimeAssumption DEF TypeOK, Interval, Timeout

\* What division leaves.
LEMMA Remainder ==
    ASSUME NEW n \in Int, NEW c \in Nat \ {0}
    PROVE  n % c \in 0..c - 1 /\ \E q \in Int : n = q * c + (n % c)
<1>1. n \div c \in Int /\ n % c \in 0..c - 1
  OBVIOUS
<1>2. n = (n \div c) * c + (n % c)
  OBVIOUS
<1> QED BY <1>1, <1>2

\* A multiple leaves nothing.
LEMMA MultipleLeavesNothing ==
    ASSUME NEW c \in Nat \ {0}, NEW k \in Int
    PROVE  (k * c) % c = 0
<1> DEFINE r == (k * c) % c
<1>1. r \in 0..c - 1 /\ \E q \in Int : k * c = q * c + r
  BY Remainder, k * c \in Int
<1> HIDE DEF r
<1>2. PICK q \in Int : k * c = q * c + r
  BY <1>1
<1>3. (k - q) * c = r /\ k - q \in Int
  BY <1>1, <1>2
<1>4. ASSUME k - q >= 1 PROVE FALSE
  <2>1. (k - q) * c >= c
    BY <1>3, <1>4
  <2> QED BY <1>1, <1>3, <2>1
<1>5. ASSUME k - q <= -1 PROVE FALSE
  <2>1. (k - q) * c <= -c
    BY <1>3, <1>5
  <2> QED BY <1>1, <1>3, <2>1
<1>6. k - q = 0
  BY <1>3, <1>4, <1>5
<1>7. r = 0
  BY <1>3, <1>6
<1> QED BY <1>7 DEF r

\* A place in a cell, one step on.
LEMMA NextPlace ==
    ASSUME NEW c \in Nat \ {0}, NEW g \in 0..c - 1
    PROVE  (g + 1) % c = IF g + 1 = c THEN 0 ELSE g + 1
<1>1. CASE g + 1 = c
  BY <1>1, MultipleLeavesNothing
<1>2. CASE g + 1 < c
  BY <1>2
<1> QED BY <1>1, <1>2

-----------------------------------------------------------------------------
\* The invariant is inductive

\* The initial scrape is under way, without a ticker.
LEMMA InitLoopInv == Init => LoopInv
<1> SUFFICES ASSUME Init PROVE LoopInv
  OBVIOUS
<1>1. /\ timing \in Timings /\ Interval \in Nat \ {0} /\ Timeout \in Nat \ {0}
      /\ MaxRequests \in Nat
  BY TimeAssumption DEF Init, Interval, Timeout
<1> USE <1>1 DEF Init
<1>2. TypeOK
  <2>1. 0 \in -Timeout..Interval /\ 0 \in 0..Interval - 1 /\ 0 \in 0..Timeout + 1
    OBVIOUS
  <2>2. cancelled \in BOOLEAN /\ firstGap \in BOOLEAN
    OBVIOUS
  <2> QED BY <2>1, <2>2 DEF TypeOK, SinceCancelCap
<1>3. OneScrapePerInterval /\ ExitReportsServer /\ Beginning /\ Served
  BY DEF OneScrapePerInterval, ExitReportsServer, Beginning, Served
<1>4. Timed /\ Gridded /\ Paced /\ Stopping
  BY DEF Timed, Gridded, Paced, Stopping, Scraping, Ticking
<1> QED BY <1>2, <1>3, <1>4 DEF LoopInv

\* A scrape that ends, by its own or by its deadline.
LEMMA EndOfScrape ==
    ASSUME LoopInv, ScrapeReturns \/ DeadlineFires
    PROVE  LoopInv'
<1>1. /\ Scraping /\ pc' = AfterScrape /\ elapsed' = 0
      /\ UNCHANGED <<due, cancelled, serverVars, exit, historyVars>>
  BY DEF ScrapeReturns, DeadlineFires, DeadlineDue
<1>2. Interval' = Interval /\ Timeout' = Timeout
  BY <1>1 DEF historyVars, Interval, Timeout
<1>3. TypeOK /\ Interval \in Nat \ {0} /\ Timeout \in Nat \ {0}
  BY Times DEF LoopInv
<1> USE <1>1, <1>2, <1>3 DEF LoopInv, AfterScrape, Scraping, historyVars, serverVars
<1>4. TypeOK'
  BY DEF TypeOK, SinceCancelCap
<1>5. OneScrapePerInterval' /\ ExitReportsServer' /\ Beginning' /\ Served'
  BY DEF OneScrapePerInterval, ExitReportsServer, Beginning, Served
<1>6. Timed'
  BY DEF Timed, TypeOK
<1>7. Gridded'
  BY DEF Gridded, Ticking, Beginning
<1>8. Paced'
  BY DEF Paced, Timed, Ticking, TypeOK, Beginning
<1>9. Stopping'
  BY DEF Stopping, Timed, Paced, Ticking, TypeOK
<1> QED BY <1>4, <1>5, <1>6, <1>7, <1>8, <1>9

\* The ticker is made at the end of the initial scrape, at the first place of its
\* grid.
LEMMA MakeTickerInv ==
    ASSUME LoopInv, MakeTicker
    PROVE  LoopInv'
<1>1. Interval' = Interval /\ Timeout' = Timeout
  BY DEF MakeTicker, historyVars, Interval, Timeout
<1>2. TypeOK /\ Interval \in Nat \ {0} /\ Timeout \in Nat \ {0}
  BY Times DEF LoopInv
<1> USE <1>1, <1>2 DEF LoopInv, MakeTicker, historyVars, serverVars
<1>3. TypeOK'
  BY DEF TypeOK, SinceCancelCap
<1>4. OneScrapePerInterval' /\ ExitReportsServer' /\ Beginning' /\ Served'
  BY DEF OneScrapePerInterval, ExitReportsServer, Beginning, Served
<1>5. Timed'
  BY DEF Timed, Scraping
<1>6. Gridded'
  <2>1. gridPos' + due' = 1 * Interval'
    BY DEF Beginning
  <2> QED BY <2>1 DEF Gridded, Ticking, Beginning
<1>7. Paced'
  BY DEF Paced, Timed, Ticking, TypeOK, Beginning
<1>8. Stopping'
  BY DEF Stopping, Scraping, TypeOK
<1> QED BY <1>3, <1>4, <1>5, <1>6, <1>7, <1>8

\* A tick taken on time or late leads to the first deadline of the grid to come.
LEMMA NextDueOnGrid ==
    ASSUME NEW late \in Nat, Interval \in Nat \ {0}
    PROVE  /\ NextDue(late) \in 1..Interval
           /\ \E q \in Int : NextDue(late) = Interval - late + q * Interval
           /\ late = 0 => NextDue(late) = Interval
<1> DEFINE r == late % Interval
<1>1. r \in 0..Interval - 1 /\ \E q \in Int : late = q * Interval + r
  BY Remainder, late \in Int
<1>2. late = 0 => r = 0
  BY MultipleLeavesNothing, 0 * Interval = 0
<1>3. NextDue(late) = Interval - r
  BY DEF NextDue
<1> HIDE DEF r
<1>4. PICK q \in Int : late = q * Interval + r
  BY <1>1
<1>5. q * Interval \in Int
  OBVIOUS
<1>6. NextDue(late) = Interval - late + q * Interval
  BY <1>1, <1>3, <1>4, <1>5
<1> QED BY <1>1, <1>2, <1>3, <1>6

\* A tick taken begins the only scrape of its cell and leaves the deadline on the
\* grid.
LEMMA TakeTickInv ==
    ASSUME LoopInv, TakeTick
    PROVE  LoopInv'
<1>1. Interval' = Interval /\ Timeout' = Timeout
  BY DEF TakeTick, Interval, Timeout
<1>2. TypeOK /\ Interval \in Nat \ {0} /\ Timeout \in Nat \ {0}
  BY Times DEF LoopInv
<1>3. -due \in Nat /\ due' = NextDue(-due)
  BY <1>2 DEF TypeOK, TakeTick
<1>4. /\ due' \in 1..Interval
      /\ \E q \in Int : due' = Interval + due + q * Interval
      /\ due = 0 => due' = Interval
  <2>1. Interval - (-due) = Interval + due
    BY <1>2, <1>3 DEF TypeOK
  <2>2. /\ NextDue(-due) \in 1..Interval
        /\ \E q \in Int : NextDue(-due) = Interval - (-due) + q * Interval
        /\ -due = 0 => NextDue(-due) = Interval
    BY <1>2, <1>3, NextDueOnGrid
  <2> QED BY <1>2, <1>3, <2>1, <2>2 DEF TypeOK
<1> USE <1>1, <1>2 DEF LoopInv, TakeTick, serverVars
<1>5. startsInCell = 0
  BY DEF Gridded, Ticking, TypeOK
<1>6. TypeOK'
  <2>1. firstGap' \in BOOLEAN
    OBVIOUS
  <2>2. due' \in -Timeout'..Interval'
    BY <1>4
  <2> QED BY <2>1, <2>2 DEF TypeOK, SinceCancelCap
<1>7. OneScrapePerInterval' /\ ExitReportsServer' /\ Beginning' /\ Served'
  BY <1>5 DEF OneScrapePerInterval, ExitReportsServer, Beginning, Served
<1>8. Timed'
  BY DEF Timed, Scraping
<1>9. Gridded'
  <2>1. PICK k \in Int : gridPos + due = k * Interval
    BY DEF Gridded, Ticking
  <2>2. PICK q \in Int : due' = Interval + due + q * Interval
    BY <1>4
  <2>3. gridPos' + due' = k * Interval + Interval + q * Interval
    BY <2>1, <2>2 DEF TypeOK
  <2>4. k * Interval + Interval + q * Interval = (k + 1 + q) * Interval
    OBVIOUS
  <2>5. gridPos' + due' = (k + 1 + q) * Interval' /\ k + 1 + q \in Int
    BY <2>3, <2>4
  <2>6. k + 1 + q >= 1
    <3>1. SUFFICES ASSUME k + 1 + q <= 0 PROVE FALSE
      OBVIOUS
    <3>2. (k + 1 + q) * Interval <= 0
      BY <3>1
    <3> QED BY <1>4, <2>5, <3>2 DEF TypeOK
  <2>7. (k + 1 + q) * Interval >= Interval
    BY <2>6
  <2> QED BY <2>5, <2>7 DEF Gridded, Ticking
<1>10. Paced'
  <2>1. Timeout < Interval => due = 0
    BY DEF Paced, Ticking, TypeOK
  <2> QED BY <1>4, <2>1 DEF Paced, Ticking, TypeOK
<1>11. Stopping'
  BY DEF Stopping, Scraping, TypeOK
<1> QED BY <1>6, <1>7, <1>8, <1>9, <1>10, <1>11

\* The steps that end the loop, and the one that asks for it: no clock moves.
LEMMA EndOfLoop ==
    ASSUME LoopInv, TakeCancel \/ JoinServer \/ Cancel
    PROVE  LoopInv'
<1>1. UNCHANGED <<elapsed, due, serverVars, historyVars>>
  BY DEF TakeCancel, JoinServer, Cancel
<1>2. Interval' = Interval /\ Timeout' = Timeout
  BY <1>1 DEF historyVars, Interval, Timeout
<1> USE <1>1, <1>2 DEF LoopInv, TakeCancel, JoinServer, Cancel, historyVars, serverVars
<1>3. TypeOK'
  <2>1. cancelled' \in BOOLEAN
    BY DEF TypeOK
  <2>2. pc' \in {"first", "ticker", "select", "scrape", "join", "exited"}
        /\ exit' \in {"none", "ok", "error"}
    BY DEF TypeOK
  <2>3. UNCHANGED <<timing, firstGap, sinceCancel, SinceCancelCap>>
    BY DEF SinceCancelCap
  <2> QED BY <2>1, <2>2, <2>3 DEF TypeOK
<1>4. OneScrapePerInterval' /\ Beginning' /\ Served'
  BY DEF OneScrapePerInterval, Beginning, Served
<1>5. ExitReportsServer'
  BY DEF ExitReportsServer, Served, Ended
<1>6. Timed'
  BY DEF Timed, Scraping
<1>7. Gridded'
  BY DEF Gridded, Ticking
<1>8. Paced'
  BY DEF Paced, Ticking
<1>9. Stopping'
  <2>1. Timeout \in Nat /\ elapsed \in Nat
    BY Times DEF TypeOK
  <2>2. CASE Cancel
    BY <2>1, <2>2 DEF Stopping, Scraping
  <2>3. CASE TakeCancel \/ JoinServer
    BY <2>1, <2>3 DEF Stopping, Scraping
  <2> QED BY <2>2, <2>3
<1> QED BY <1>3, <1>4, <1>5, <1>6, <1>7, <1>8, <1>9

\* The server's steps: the loop does not see them.
LEMMA ServerStepInv ==
    ASSUME LoopInv, ServerStep \/ Accept \/ Answer
    PROVE  LoopInv'
<1>1. UNCHANGED loopVars
  BY DEF ServerStep, Bind, BindFails, Drain, Close, Accept, Answer
<1>2. Interval' = Interval /\ Timeout' = Timeout
  BY <1>1 DEF loopVars, historyVars, Interval, Timeout
<1>3. /\ server' \in {"binding", "serving", "draining", "closed", "failed"}
      /\ requests' \in 0..MaxRequests
      /\ server' \in {"binding", "closed", "failed"} => requests' = 0
      /\ pc = "exited" => server' = server /\ requests' = requests
  BY TimeAssumption
     DEF LoopInv, TypeOK, ExitReportsServer, Served, Ended,
         ServerStep, Bind, BindFails, Drain, Close, Accept, Answer
<1> USE <1>1, <1>2, <1>3 DEF LoopInv, loopVars, historyVars
<1>4. TypeOK'
  BY DEF TypeOK, SinceCancelCap
<1>5. OneScrapePerInterval' /\ ExitReportsServer' /\ Beginning' /\ Served'
  BY DEF OneScrapePerInterval, ExitReportsServer, Beginning, Served
<1>6. Timed' /\ Gridded' /\ Paced' /\ Stopping'
  BY DEF Timed, Gridded, Paced, Stopping, Scraping, Ticking
<1> QED BY <1>4, <1>5, <1>6

\* Time passes only when no task is ready.
LEMMA TickInv ==
    ASSUME LoopInv, Tick
    PROVE  LoopInv'
<1>1. Interval' = Interval /\ Timeout' = Timeout
  BY DEF Tick, Interval, Timeout
<1>2. TypeOK /\ Interval \in Nat \ {0} /\ Timeout \in Nat \ {0}
  BY Times DEF LoopInv
<1>3. /\ pc \in {"first", "select", "scrape"} /\ Looping
      /\ Scraping => elapsed < Timeout
      /\ pc = "select" => ~cancelled /\ due > 0
  BY <1>2 DEF Tick, Ready, DeadlineDue, Looping, Scraping, LoopInv, Timed, TypeOK
<1>4. /\ Scraping => elapsed' = elapsed + 1
      /\ ~Scraping => elapsed' = elapsed
      /\ Ticking => due' = due - 1
      /\ ~Ticking => UNCHANGED <<due, gridPos, startsInCell>>
      /\ sinceStart' = sinceStart + 1
      /\ UNCHANGED <<timing, pc, cancelled, server, requests, exit, firstGap>>
  BY DEF Tick, serverVars
<1>5. Ticking => IF gridPos + 1 = Interval THEN gridPos' = 0 /\ startsInCell' = 0
                 ELSE gridPos' = gridPos + 1 /\ startsInCell' = startsInCell
  <2>1. (gridPos + 1) % Interval = IF gridPos + 1 = Interval THEN 0 ELSE gridPos + 1
    BY <1>2, NextPlace DEF TypeOK
  <2> QED BY <1>2, <2>1 DEF Tick, TypeOK
<1>6. /\ sinceCancel' \in 0..SinceCancelCap'
      /\ ~cancelled => sinceCancel' = sinceCancel
      /\ sinceCancel' \in {sinceCancel, sinceCancel + 1}
  BY <1>1, <1>2 DEF Tick, TypeOK, SinceCancelCap
<1>7. Scraping' = Scraping /\ Ticking' = Ticking
  BY <1>4 DEF Scraping, Ticking
<1>8. due' \in -Timeout'..Interval'
  BY <1>1, <1>2, <1>3, <1>4 DEF LoopInv, Timed, Paced, Ticking, Scraping, TypeOK
<1>9. TypeOK'
  <2>1. elapsed' \in Nat /\ sinceStart' \in Nat
    BY <1>2, <1>4 DEF TypeOK
  <2>2. gridPos' \in 0..Interval' - 1 /\ startsInCell' \in Nat
    BY <1>1, <1>2, <1>4, <1>5 DEF TypeOK
  <2>3. UNCHANGED <<timing, pc, cancelled, server, requests, exit, firstGap>>
    BY <1>4
  <2> QED BY <1>2, <1>6, <1>8, <2>1, <2>2, <2>3 DEF TypeOK
<1>10. OneScrapePerInterval' /\ ExitReportsServer' /\ Beginning' /\ Served'
  BY <1>2, <1>3, <1>4, <1>5
     DEF LoopInv, OneScrapePerInterval, ExitReportsServer, Beginning, Served, TypeOK, Ticking
<1>11. Timed'
  BY <1>1, <1>2, <1>3, <1>4, <1>7 DEF LoopInv, Timed, TypeOK, Scraping
<1>12. Gridded'
  <2>1. SUFFICES ASSUME Ticking PROVE Gridded'
    BY <1>7 DEF Gridded
  <2>2. PICK k \in Int : gridPos + due = k * Interval
    BY <2>1 DEF LoopInv, Gridded
  <2>3. CASE gridPos + 1 = Interval
    <3>1. gridPos' + due' = k * Interval - Interval
      BY <1>2, <1>4, <1>5, <2>1, <2>2, <2>3 DEF TypeOK
    <3>2. k * Interval - Interval = (k - 1) * Interval
      BY <1>2
    <3>3. gridPos' + due' = (k - 1) * Interval' /\ k - 1 \in Int /\ startsInCell' = 0
      BY <1>1, <1>5, <2>1, <2>3, <3>1, <3>2
    <3> QED BY <3>3 DEF Gridded
  <2>4. CASE gridPos + 1 # Interval
    <3>1. gridPos' + due' = gridPos + due /\ startsInCell' = startsInCell
      BY <1>2, <1>4, <1>5, <2>1, <2>4 DEF TypeOK
    <3> QED BY <1>1, <2>1, <2>2, <3>1 DEF LoopInv, Gridded
  <2> QED BY <2>3, <2>4
<1>13. Paced'
  BY <1>1, <1>2, <1>3, <1>4, <1>7 DEF LoopInv, Paced, Timed, TypeOK, Ticking, Scraping
<1>14. Stopping'
  BY <1>1, <1>2, <1>3, <1>4, <1>6, <1>7 DEF LoopInv, Stopping, TypeOK, Scraping
<1> QED BY <1>9, <1>10, <1>11, <1>12, <1>13, <1>14 DEF LoopInv

\* Every step of the loop, the signal handler and the server keeps the invariant.
LEMMA NextLoopInv == LoopInv /\ [Next]_vars => LoopInv'
<1> SUFFICES ASSUME LoopInv, [Next]_vars PROVE LoopInv'
  OBVIOUS
<1>1. CASE ScrapeReturns
  BY <1>1, EndOfScrape
<1>2. CASE LoopStep
  BY <1>2, EndOfScrape, MakeTickerInv, TakeTickInv, EndOfLoop DEF LoopStep
<1>3. CASE TakeCancel \/ Cancel
  BY <1>3, EndOfLoop
<1>4. CASE ServerStep \/ Accept \/ Answer
  BY <1>4, ServerStepInv
<1>5. CASE Tick
  BY <1>5, TickInv
<1>6. CASE UNCHANGED vars
  <2> USE <1>6 DEF vars, serverVars, historyVars, LoopInv
  <2>1. Interval' = Interval /\ Timeout' = Timeout
    BY DEF Interval, Timeout
  <2>2. TypeOK' /\ OneScrapePerInterval' /\ ExitReportsServer' /\ Beginning' /\ Served'
    BY <2>1 DEF TypeOK, SinceCancelCap, OneScrapePerInterval, ExitReportsServer,
                Beginning, Served
  <2>3. Timed' /\ Gridded' /\ Paced' /\ Stopping'
    BY <2>1 DEF Timed, Gridded, Paced, Stopping, Scraping, Ticking
  <2> QED BY <2>2, <2>3
<1> QED BY <1>1, <1>2, <1>3, <1>4, <1>5, <1>6 DEF Next

\* The invariant of the loop holds in every state it reaches.
THEOREM LoopInvariant == Spec => []LoopInv
<1>1. Init => LoopInv
  BY InitLoopInv
<1>2. LoopInv /\ [Next]_vars => LoopInv'
  BY NextLoopInv
<1> QED BY <1>1, <1>2, PTL DEF Spec

-----------------------------------------------------------------------------
\* What follows from the invariant

\* Every variable keeps its type; the ticker lags by less than one deadline.
THEOREM LoopTypeCorrect == Spec => []TypeOK
BY LoopInvariant, PTL DEF LoopInv

\* A multiple of the interval is on the grid.
LEMMA GriddedOnGrid == LoopInv => OnGrid
<1> SUFFICES ASSUME LoopInv, Ticking PROVE (gridPos + due) % Interval = 0
  BY DEF OnGrid
<1>1. Interval \in Nat \ {0}
  BY Times DEF LoopInv
<1>2. PICK k \in Int : gridPos + due = k * Interval
  BY DEF LoopInv, Gridded
<1> QED BY <1>1, <1>2, MultipleLeavesNothing

\* The ticker never leaves its grid, however long the scrapes take and however
\* many of its ticks they make it miss (MissedTickBehavior::Skip).
THEOREM NeverOffGrid == Spec => []OnGrid
BY GriddedOnGrid, LoopInvariant, PTL

\* No cell of the grid sees two scrapes begin.
THEOREM AtMostOnePerInterval == Spec => []OneScrapePerInterval
BY LoopInvariant, PTL DEF LoopInv

\* The clocks bound the gap, at each place of the loop.
LEMMA ClocksBoundGap == LoopInv => BoundedGap
<1> SUFFICES ASSUME LoopInv, Looping
             PROVE  sinceStart <= IF firstGap THEN Timeout + Interval
                                  ELSE LongestScrapeOr(Interval)
  BY DEF BoundedGap
<1>1. TypeOK /\ Interval \in Nat \ {0} /\ Timeout \in Nat \ {0}
  BY Times DEF LoopInv
<1>2. CASE pc = "first"
  BY <1>1, <1>2 DEF LoopInv, Timed, Scraping, Beginning, TypeOK
<1>3. CASE pc = "ticker"
  BY <1>1, <1>3 DEF LoopInv, Timed, Beginning, TypeOK
<1>4. CASE pc = "scrape"
  BY <1>1, <1>4 DEF LoopInv, Timed, Scraping, TypeOK, LongestScrapeOr
<1>5. CASE pc = "select"
  BY <1>1, <1>5 DEF LoopInv, Paced, Ticking, TypeOK, LongestScrapeOr
<1> QED BY <1>2, <1>3, <1>4, <1>5 DEF Looping

\* The next scrape begins within the interval or the deadline, whichever is
\* longer, of the last, and the second one within both together.
THEOREM GapIsBounded == Spec => []BoundedGap
BY ClocksBoundGap, LoopInvariant, PTL

\* With a short deadline a tick is taken when it is due.
LEMMA TickIsTakenInTime ==
    LoopInv => [TakeTick /\ ~firstGap /\ Timeout < Interval => sinceStart = Interval]_vars
<1> SUFFICES ASSUME LoopInv, TakeTick, ~firstGap, Timeout < Interval
             PROVE  sinceStart = Interval
  OBVIOUS
<1>1. TypeOK /\ Interval \in Nat \ {0} /\ Timeout \in Nat \ {0}
  BY Times DEF LoopInv
<1> QED BY <1>1 DEF LoopInv, TakeTick, Paced, Ticking, TypeOK

\* With a deadline shorter than the interval, scrapes begin exactly one interval
\* apart.
THEOREM ExactInterval == Spec => ExactlyEveryInterval
BY TickIsTakenInTime, LoopInvariant, PTL DEF ExactlyEveryInterval

\* Such a deadline bounds the time that a cancelled loop still runs.
LEMMA DeadlineBoundsStop == LoopInv => StopsWithinTimeout
BY Times DEF LoopInv, StopsWithinTimeout, Stopping, Timed, Looping, Scraping, TypeOK

\* With such a deadline the loop is left within one deadline of the cancellation.
THEOREM StopIsPrompt == Spec => []StopsWithinTimeout
BY DeadlineBoundsStop, LoopInvariant, PTL

\* run returns the server's result, once cancelled and with no request left.
THEOREM ExitIsTheServers == Spec => []ExitReportsServer
BY LoopInvariant, PTL DEF LoopInv

-----------------------------------------------------------------------------
(***************************************************************************)
(* The process around the loop.                                            *)
(***************************************************************************)

\* The gates in order, by their number.
Position == [logging |-> 0, load |-> 1, dial |-> 2, chainId |-> 3, tag |-> 4,
             plan |-> 5, selfMetrics |-> 6, ready |-> 7, running |-> 8]

\* Every gate and probe behind the process let it pass.
Passed ==
    /\ stage \in DOMAIN Position
    /\ broken \subseteq LocalGates /\ DOMAIN answers = Probes
    /\ \A g \in LocalGates : Position[g] < Position[stage] => g \notin broken
    /\ \A p \in Probes : Position[p] < Position[stage] => answers[p] = "right"

\* Only a validating process ends with 0 at the last gate, only another runs.
Ending ==
    /\ stage = "running" => ~validateOnly
    /\ status = "0" => stage \in {"ready", "running"}
    /\ status = "0" /\ stage = "ready" => validateOnly

\* The loop is cancelled only by a signal that was received, and a running process
\* that ended with 0 had let its server close.
Stopped ==
    /\ cancelled => received
    /\ status = "0" /\ stage = "running" => cancelled /\ server = "closed" /\ requests = 0

ProcessInv == LoopInv /\ Passed /\ Ending /\ Stopped

\* What the table of the gates says.
LEMMA Gates ==
    /\ Probes = {"chainId", "tag"}
    /\ LocalGates = {"logging", "load", "dial", "plan", "selfMetrics"}
    /\ DOMAIN Position = {"logging", "load", "dial", "chainId", "tag", "plan",
                          "selfMetrics", "ready", "running"}
    /\ \A g \in LocalGates \cup Probes :
         /\ After[g] \in DOMAIN Position \ {"running"}
         /\ Position[g] \in Int /\ Position[After[g]] = Position[g] + 1
    /\ \A g, h \in LocalGates \cup Probes : Position[g] = Position[h] => g = h
    /\ \A g \in LocalGates \cup Probes : Position[g] < 7
    /\ Position["ready"] = 7 /\ Position["running"] = 8
BY DEF Probes, LocalGates, After, Position

\* A process that starts has passed no gate.
LEMMA InitProcessInv == ProcessInit => ProcessInv
<1> SUFFICES ASSUME ProcessInit PROVE ProcessInv
  OBVIOUS
<1>1. LoopInv
  BY InitLoopInv DEF ProcessInit
<1>2. Passed
  BY Gates DEF ProcessInit, Passed, Position
<1>3. Ending /\ Stopped
  BY DEF ProcessInit, Init, Ending, Stopped
<1> QED BY <1>1, <1>2, <1>3 DEF ProcessInv

\* To the loop, a step of the process is a step of its own or none.
LEMMA ProcessStepsLoop == ProcessNext => [Next]_vars
<1> SUFFICES ASSUME ProcessNext PROVE [Next]_vars
  OBVIOUS
<1>1. CASE MainStep
  BY <1>1 DEF MainStep, Launch, Return, Gate
<1>2. CASE LoopTask \/ StopTask \/ ServerTask \/ Others \/ Passes \/ Wake
  BY <1>2 DEF LoopTask, StopTask, ServerTask, Others, Passes, Wake, Next
<1>3. CASE Install \/ \E p \in Probes, answer \in {"right", "wrong"} : Probe(p, answer)
  BY <1>3 DEF Install, Probe
<1>4. CASE \E sig \in Signals : Signal(sig)
  BY <1>4 DEF Signal
<1> QED BY <1>1, <1>2, <1>3, <1>4 DEF ProcessNext

\* A step that leaves the start-up alone keeps what it established.
LEMMA BeyondStart ==
    ASSUME ProcessInv, LoopInv', UNCHANGED <<validateOnly, broken, stage, answers>>,
           status' # "0" \/ status' = status,
           cancelled' => received',
           status # "up" => UNCHANGED <<cancelled, server, requests>>
    PROVE  ProcessInv'
<1>1. Passed'
  BY DEF ProcessInv, Passed
<1>2. Ending'
  BY DEF ProcessInv, Ending
<1>3. Stopped'
  BY DEF ProcessInv, Stopped
<1> QED BY <1>1, <1>2, <1>3 DEF ProcessInv

\* A gate lets the process on only if nothing it checks is broken.
LEMMA GateInv ==
    ASSUME ProcessInv, LoopInv', NEW g \in LocalGates, Gate(g)
    PROVE  ProcessInv'
<1>1. /\ status = "up" /\ stage = g
      /\ UNCHANGED <<cancelled, server, requests, validateOnly, broken, answers, received>>
      /\ \/ g \in broken /\ status' = "1" /\ stage' = stage
         \/ g \notin broken /\ status' = status /\ stage' = After[g]
  BY DEF Gate, At, Exit, vars, serverVars, signalVars
<1>2. Passed'
  <2>1. CASE stage' = stage
    BY <1>1, <2>1 DEF ProcessInv, Passed
  <2>2. CASE g \notin broken /\ stage' = After[g]
    <3>1. Position[stage'] = Position[g] + 1 /\ stage' \in DOMAIN Position
      BY <2>2, Gates
    <3>2. \A h \in LocalGates \cup Probes :
              Position[h] < Position[stage'] => Position[h] < Position[stage] \/ h = g
      BY <1>1, <3>1, Gates
    <3> QED BY <1>1, <2>2, <3>1, <3>2, Gates DEF ProcessInv, Passed
  <2> QED BY <1>1, <2>1, <2>2
<1>3. Ending' /\ Stopped'
  BY <1>1, Gates DEF ProcessInv, Ending, Stopped
<1> QED BY <1>2, <1>3 DEF ProcessInv

\* A probe lets the process on only if it was answered as configured.
LEMMA ProbeInv ==
    ASSUME ProcessInv, LoopInv', NEW p \in Probes, NEW answer \in {"right", "wrong"},
           Probe(p, answer)
    PROVE  ProcessInv'
<1>1. /\ status = "up" /\ stage = p
      /\ UNCHANGED <<cancelled, server, requests, validateOnly, broken, received>>
      /\ answers' = [answers EXCEPT ![p] = answer]
      /\ \/ answer # "right" /\ status' = "1" /\ stage' = stage
         \/ answer = "right" /\ status' = status /\ stage' = After[p]
  BY DEF Probe, At, Exit, vars, serverVars, signalVars
<1>2. Passed'
  <2>1. DOMAIN answers' = Probes /\ \A q \in Probes \ {p} : answers'[q] = answers[q]
    BY <1>1 DEF ProcessInv, Passed
  <2>2. CASE stage' = stage
    BY <1>1, <2>1, <2>2, Gates DEF ProcessInv, Passed
  <2>3. CASE answer = "right" /\ stage' = After[p]
    <3>1. Position[stage'] = Position[p] + 1 /\ stage' \in DOMAIN Position
      BY <2>3, Gates
    <3>2. \A h \in LocalGates \cup Probes :
              Position[h] < Position[stage'] => Position[h] < Position[stage] \/ h = p
      BY <1>1, <3>1, Gates
    <3>3. answers'[p] = "right"
      BY <1>1, <2>3 DEF ProcessInv, Passed
    <3>4. p \notin LocalGates
      BY DEF LocalGates
    <3> QED BY <1>1, <2>1, <3>1, <3>2, <3>3, <3>4 DEF ProcessInv, Passed
  <2> QED BY <1>1, <2>2, <2>3
<1>3. Ending' /\ Stopped'
  BY <1>1, Gates DEF ProcessInv, Ending, Stopped
<1> QED BY <1>2, <1>3 DEF ProcessInv

\* Past the last gate: the process validated, or it runs.
LEMMA LaunchInv ==
    ASSUME ProcessInv, LoopInv', Launch
    PROVE  ProcessInv'
<1>1. /\ status = "up" /\ stage = "ready"
      /\ UNCHANGED <<cancelled, server, requests, validateOnly, broken, answers, received>>
      /\ \/ validateOnly /\ status' = "0" /\ stage' = stage
         \/ ~validateOnly /\ status' = status /\ stage' = "running"
  BY DEF Launch, At, Exit, vars, serverVars, signalVars
<1>2. Passed'
  BY <1>1, Gates DEF ProcessInv, Passed
<1>3. Ending' /\ Stopped'
  BY <1>1 DEF ProcessInv, Ending, Stopped
<1> QED BY <1>2, <1>3 DEF ProcessInv

\* The exit status is what the loop returned.
LEMMA ReturnInv ==
    ASSUME ProcessInv, LoopInv', Return
    PROVE  ProcessInv'
<1>1. /\ status = "up" /\ stage = "running" /\ pc = "exited"
      /\ UNCHANGED <<cancelled, server, requests, validateOnly, broken, answers, received, stage>>
      /\ status' = IF exit = "error" THEN "1" ELSE "0"
  BY DEF Return, At, Exit, vars, serverVars, signalVars
<1>2. exit # "error" => cancelled /\ server = "closed" /\ requests = 0
  BY <1>1 DEF ProcessInv, LoopInv, ExitReportsServer, Ended
<1>3. Passed' /\ Ending'
  BY <1>1 DEF ProcessInv, Passed, Ending
<1>4. Stopped'
  BY <1>1, <1>2 DEF ProcessInv, Stopped
<1> QED BY <1>3, <1>4 DEF ProcessInv

\* Every step of the process keeps the invariant.
LEMMA NextProcessInv == ProcessInv /\ [ProcessNext]_allVars => ProcessInv'
<1> SUFFICES ASSUME ProcessInv, [ProcessNext]_allVars PROVE ProcessInv'
  OBVIOUS
<1>1. LoopInv'
  <2>1. UNCHANGED allVars => UNCHANGED vars
    BY DEF allVars
  <2> QED BY <2>1, ProcessStepsLoop, NextLoopInv DEF ProcessInv
<1>2. CASE MainStep
  BY <1>1, <1>2, LaunchInv, ReturnInv, GateInv DEF MainStep
<1>3. CASE LoopTask \/ StopTask \/ ServerTask \/ Others \/ Passes
  <2>1. /\ UNCHANGED <<validateOnly, broken, stage, answers, received, status>>
        /\ status = "up" /\ cancelled' = cancelled
    BY <1>3 DEF LoopTask, StopTask, ServerTask, Others, Passes, processVars, startVars, At,
                LoopStep, DeadlineFires, MakeTicker, TakeTick, JoinServer, TakeCancel, Tick,
                ServerStep, Bind, BindFails, Drain, Close, Accept, Answer, ScrapeReturns,
                loopVars, signalVars
  <2> QED BY <1>1, <2>1, BeyondStart DEF ProcessInv, Stopped
<1>4. CASE Install \/ Wake
  <2>1. /\ UNCHANGED <<validateOnly, broken, stage, answers, received, status>>
        /\ status = "up"
        /\ cancelled' => cancelled \/ received
    BY <1>4 DEF Install, Wake, startVars, signalVars, vars
  <2>2. cancelled' => received'
    BY <2>1 DEF ProcessInv, Stopped
  <2> QED BY <1>1, <2>1, <2>2, BeyondStart
<1>5. ASSUME NEW sig \in Signals, Signal(sig) PROVE ProcessInv'
  <2>1. /\ UNCHANGED <<validateOnly, broken, stage, answers, cancelled, server, requests>>
        /\ status = "up" /\ status' \in {"up", "killed"}
    BY <1>5 DEF Signal, startVars, vars, serverVars
  <2>2. received => received'
    BY <1>5 DEF Signal
  <2>3. cancelled' => received'
    BY <2>1, <2>2 DEF ProcessInv, Stopped
  <2> QED BY <1>1, <2>1, <2>3, BeyondStart
<1>6. ASSUME NEW p \in Probes, NEW answer \in {"right", "wrong"}, Probe(p, answer)
      PROVE  ProcessInv'
  BY <1>1, <1>6, ProbeInv
<1>7. CASE UNCHANGED allVars
  BY <1>1, <1>7, BeyondStart DEF allVars, processVars, startVars, signalVars, vars, serverVars, ProcessInv, Stopped
<1> QED BY <1>2, <1>3, <1>4, <1>5, <1>6, <1>7 DEF ProcessNext

\* The invariant of the process holds in every state it reaches.
THEOREM ProcessInvariant == ProcessSpec => []ProcessInv
<1>1. ProcessInit => ProcessInv
  BY InitProcessInv
<1>2. ProcessInv /\ [ProcessNext]_allVars => ProcessInv'
  BY NextProcessInv
<1> QED BY <1>1, <1>2, PTL DEF ProcessSpec

-----------------------------------------------------------------------------
\* What follows

\* The process runs the loop of ScrapeLoop: what holds of the steps of that loop
\* holds in the process, whatever signals and start-up add.
THEOREM ProcessRunsLoop == ProcessSpec => Init /\ [][Next]_vars
<1>1. ProcessInit => Init
  BY DEF ProcessInit
<1>2. [ProcessNext]_allVars => [Next]_vars
  <2>1. UNCHANGED allVars => UNCHANGED vars
    BY DEF allVars
  <2> QED BY <2>1, ProcessStepsLoop
<1> QED BY <1>1, <1>2, PTL DEF ProcessSpec

\* In the process, too, the schedule never drifts or doubles, the gaps are bounded,
\* a cancelled loop is left within a deadline and returns its server's result: no
\* signal and no moment of start-up changes that.
THEOREM ProcessKeepsSchedule ==
    ProcessSpec => /\ [](OnGrid /\ OneScrapePerInterval /\ BoundedGap)
                   /\ ExactlyEveryInterval
                   /\ [](StopsWithinTimeout /\ ExitReportsServer)
<1>1. ProcessInv => LoopInv
  BY DEF ProcessInv
<1>2. LoopInv => OnGrid /\ OneScrapePerInterval /\ BoundedGap
  BY GriddedOnGrid, ClocksBoundGap DEF LoopInv
<1>3. LoopInv => StopsWithinTimeout /\ ExitReportsServer
  BY DeadlineBoundsStop DEF LoopInv
<1> QED BY <1>1, <1>2, <1>3, TickIsTakenInTime, ProcessInvariant, PTL DEF ExactlyEveryInterval

\* A process that scrapes, and one that reports a valid configuration, passed
\* every gate and had both probes answered as configured.
THEOREM NothingUnproven == ProcessSpec => []ProvenBeforeUse
<1>1. ProcessInv => ProvenBeforeUse
  <2> SUFFICES ASSUME ProcessInv, stage = "running" \/ status = "0"
               PROVE  /\ broken = {} /\ \A p \in Probes : answers[p] = "right"
                      /\ validateOnly => stage # "running"
    BY DEF ProvenBeforeUse
  <2>1. Position[stage] >= 7
    BY Gates DEF ProcessInv, Ending
  <2>2. \A g \in LocalGates \cup Probes : Position[g] < Position[stage]
    BY <2>1, Gates DEF ProcessInv, Ending
  <2> QED BY <2>2 DEF ProcessInv, Passed, Ending
<1> QED BY <1>1, ProcessInvariant, PTL

\* Exit status 0 of an exporter that ran: it was told to stop, and its server
\* closed with no request left.
THEOREM CleanExitsOnly == ProcessSpec => []CleanExit
<1>1. ProcessInv => CleanExit
  BY DEF ProcessInv, CleanExit, Ending, Stopped
<1> QED BY <1>1, ProcessInvariant, PTL
=============================================================================
