---------------------------- MODULE MetricsPage ----------------------------
(***************************************************************************)
(* metrics_handler (server.rs) beside a scrape: a request gathers the      *)
(* registry on a thread of the server while the scrape task sets gauges on *)
(* its own.  The registry is a hash map of collectors, read one after the  *)
(* other in no known order, each value atomically; no lock spans the       *)
(* gathering, nor the publishing.  A request does not change the registry, *)
(* so that one client, asking again and again, stands for all.  Of the     *)
(* self metrics a page shows the two that are read with the gauges.        *)
(***************************************************************************)
EXTENDS Scrape

\* A series is a gauge of the configuration: the registry takes no name twice.
ASSUME CollectorAssumption ==
    Series \cap {"last_scrape_success_timestamp", "rpc_block_number"} = {}

VARIABLES
    asking,    \* a request is being gathered
    unread,    \* the collectors it has not read yet
    page,      \* what it has read
    lastPage,  \* history: the page answered before
    atRequest, \* history: the registry when the request arrived
    writers    \* history: the scrapes that published during the request

pageVars == <<asking, unread, page, lastPage, atRequest, writers>>

Collectors == Series \cup {"last_scrape_success_timestamp", "rpc_block_number"}

Registry == [shown |-> created, samples |-> gauge, time |-> lastSuccess,
             block |-> blockGauge]

Blank == [shown |-> {}, samples |-> [s \in Series |-> Unset], time |-> 0, block |-> 0]

Publishing == phase \in {"publishing", "stampBlock"}

PageInit ==
    /\ Init
    /\ asking = FALSE /\ unread = {} /\ page = Blank /\ lastPage = Blank
    /\ atRequest = Blank /\ writers = {}

\* A GET of the metrics path reaches the handler.
Ask ==
    /\ ~asking
    /\ asking' = TRUE
    /\ unread' = Collectors
    /\ page' = Blank
    /\ atRequest' = Registry
    /\ writers' = IF Publishing THEN {attempt} ELSE {}
    /\ UNCHANGED <<vars, lastPage>>

\* registry.gather reads one more collector.
Gather(c) ==
    /\ asking
    /\ unread' = unread \ {c}
    /\ page' = IF c \in Series
               THEN [page EXCEPT !.samples[c] = gauge[c],
                                 !.shown = @ \cup (created \cap {c})]
               ELSE IF c = "rpc_block_number" THEN [page EXCEPT !.block = blockGauge]
               ELSE [page EXCEPT !.time = lastSuccess]
    /\ UNCHANGED <<vars, asking, lastPage, atRequest, writers>>

\* The page is encoded and answered.
AnswerPage ==
    /\ asking /\ unread = {}
    /\ asking' = FALSE
    /\ lastPage' = page
    /\ UNCHANGED <<vars, unread, page, atRequest, writers>>

\* A step of the scrape task.
ScrapeStep ==
    /\ Next
    /\ writers' = IF asking /\ Publishing' THEN writers \cup {attempt} ELSE writers
    /\ UNCHANGED <<asking, unread, page, lastPage, atRequest>>

PageNext == \/ Ask \/ AnswerPage \/ ScrapeStep
            \/ \E c \in unread : Gather(c)

PageSpec == PageInit /\ [][PageNext]_<<vars, pageVars>>

-----------------------------------------------------------------------------
(***************************************************************************)
(* Properties                                                              *)
(***************************************************************************)

Complete == asking /\ unread = {}

\* A page whose gathering overlapped no publication is coherent, in whatever
\* order the collectors were read and however many scrapes failed meanwhile: it
\* shows no 0 that no contract returned, no gauge is newer than the time of the
\* last success, and those of that scrape are of the block the page names
\* (server.rs:56, exporter.rs:205-230).
UntornPageCoherent ==
    Complete /\ writers = {} =>
        \A s \in page.shown :
            /\ page.samples[s] # Unset
            /\ page.samples[s].scrape <= page.time
            /\ page.samples[s].scrape = page.time /\ page.time > 0
               => page.samples[s].block = page.block

\* A page that overlapped one publication tears at the seam and nowhere else: no
\* series the request found is missing, and each one shown is as it was found, or
\* of the publishing scrape, those all of one block, or it is the 0 of a series
\* that this scrape creates and has set since or is about to set
\* (exporter.rs:205).
TornBetweenTwo ==
    \A w \in 1..MaxAttempts : Complete /\ writers = {w} =>
        /\ atRequest.shown \subseteq page.shown
        /\ \A s \in page.shown :
             \/ s \in atRequest.shown /\ page.samples[s] = atRequest.samples[s]
             \/ page.samples[s].scrape = w
             \/ /\ s \notin atRequest.shown /\ page.samples[s] = Unset
                /\ gauge[s].scrape = w \/ BeingSet(s)
        /\ \A s, t \in page.shown :
             page.samples[s].scrape = w /\ page.samples[t].scrape = w
             => page.samples[s].block = page.samples[t].block
        /\ page.time \in {atRequest.time, w}

\* Successive pages never go back in time, series by series: README.md:192, "All
\* gauges retain their last-known values across scrape failures".
PagesNeverGoBack ==
    [][/\ \A s \in Series : lastPage'.samples[s].scrape >= lastPage.samples[s].scrape
       /\ lastPage'.time >= lastPage.time]_lastPage
=============================================================================
