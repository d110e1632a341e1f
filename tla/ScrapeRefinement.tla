-------------------------- MODULE ScrapeRefinement --------------------------
(***************************************************************************)
(* Scrape implements ScrapeBoard.  The board is updated, as seen by the    *)
(* abstraction, when scrape_once accepts the results (CheckResults): from  *)
(* there on no await is left, so every pending set, increment and stamp    *)
(* is certain, and the mapping counts it as done.                          *)
(***************************************************************************)
EXTENDS Scrape

\* The entries of a series that the publishing loop still has to show.
Pending(s) == {i \in nextEntry..Len(Plan) : Plan[i].series = s /\ ~Fails(i)}

LastPending(s) == CHOOSE i \in Pending(s) : \A j \in Pending(s) : j <= i

\* The board keeps no note of rounding.
ViewOf(sample) == [call |-> sample.call, block |-> sample.block, scrape |-> sample.scrape]

SettledBoard ==
    [s \in Series |->
        IF phase = "publishing" /\ Pending(s) # {}
        THEN ViewOf(SampleOf(LastPending(s), FALSE))
        ELSE ViewOf(gauge[s])]

SettledErrors ==
    [k \in ErrKeys |->
        callErrors[k] +
        IF phase = "publishing"
        THEN Cardinality({i \in nextEntry..Len(Plan) : Plan[i].errKey = k /\ Fails(i)})
        ELSE 0]

Board == INSTANCE ScrapeBoard WITH
    running     <- phase \in {"resolving", "calling", "returned"},
    board       <- SettledBoard,
    callErrors  <- SettledErrors,
    lastSuccess <- IF phase = "publishing" THEN attempt ELSE lastSuccess,
    blockGauge  <- IF phase \in {"publishing", "stampBlock"} THEN pinned ELSE blockGauge

\* Every scrape updates the page as if in one step, from one block, or not at
\* all: publishing entry by entry and stamp by stamp hides nothing from the
\* abstraction once it is over, and a dropped or failed scrape shows nothing.
ImplementsBoard == Board!Spec
=============================================================================
