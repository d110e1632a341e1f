---------------------------- MODULE ScrapeBoard ----------------------------
(***************************************************************************)
(* What scraping promises to whoever reads the metrics: a board that one   *)
(* scrape at a time either updates in a single step, all from one block,   *)
(* or leaves as it is while the failure is counted.  No chunks, no         *)
(* results, no publishing loop: ScrapeRefinement shows that Scrape         *)
(* implements it.                                                          *)
(***************************************************************************)
EXTENDS Integers, Sequences, FiniteSets

CONSTANTS Plan, Series, ErrKeys, Blocks, Reasons

VARIABLES
    running,      \* a scrape is under way and has decided nothing yet
    attempt,      \* number of scrapes begun
    board,        \* what each series shows: a call, at a block, by a scrape
    callErrors,   \* failed entries, per label set
    scrapeErrors, \* failed scrapes, per reason
    lastSuccess,  \* the last scrape that updated the board
    blockGauge    \* the block it read

boardVars == <<running, attempt, board, callErrors, scrapeErrors, lastSuccess, blockGauge>>

Entries == 1..Len(Plan)

Last(S) == CHOOSE i \in S : \A j \in S : j <= i

Init ==
    /\ running = FALSE /\ attempt = 0 /\ lastSuccess = 0 /\ blockGauge = 0
    /\ board = [s \in Series |-> [call |-> 0, block |-> 0, scrape |-> 0]]
    /\ callErrors = [k \in ErrKeys |-> 0]
    /\ scrapeErrors = [r \in Reasons |-> 0]

Begin ==
    /\ ~running
    /\ running' = TRUE
    /\ attempt' = attempt + 1
    /\ UNCHANGED <<board, callErrors, scrapeErrors, lastSuccess, blockGauge>>

\* The entries outside `failed` show the block b; the last entry of a series
\* prevails; a series whose entries all failed keeps what it showed.
Commit(b, failed) ==
    /\ running
    /\ running' = FALSE
    /\ board' = [s \in Series |->
          LET shown == {i \in Entries \ failed : Plan[i].series = s}
          IN IF shown = {} THEN board[s]
             ELSE [call |-> Plan[Last(shown)].call, block |-> b, scrape |-> attempt]]
    /\ callErrors' = [k \in ErrKeys |->
          callErrors[k] + Cardinality({i \in failed : Plan[i].errKey = k})]
    /\ lastSuccess' = attempt
    /\ blockGauge' = b
    /\ UNCHANGED <<attempt, scrapeErrors>>

Fail(reason) ==
    /\ running
    /\ running' = FALSE
    /\ scrapeErrors' = [scrapeErrors EXCEPT ![reason] = @ + 1]
    /\ UNCHANGED <<attempt, board, callErrors, lastSuccess, blockGauge>>

Next == \/ Begin
        \/ \E b \in Blocks, failed \in SUBSET Entries : Commit(b, failed)
        \/ \E reason \in Reasons : Fail(reason)

Spec == Init /\ [][Next]_boardVars
=============================================================================
