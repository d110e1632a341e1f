------------------------------ MODULE Process ------------------------------
(***************************************************************************)
(* The process from start to exit status: run and main (main.rs), the      *)
(* construction of the exporter (Exporter::new and new_with_deps), then    *)
(* the loop of ScrapeLoop.  Start-up is a row of gates that pass or end    *)
(* the process; two of them are probes of the node, which may answer       *)
(* anything, or never.  A signal that no handler was installed for kills,  *)
(* except the init process of a container, which is what the repository's  *)
(* image makes of the exporter: there it is ignored.  tokio never          *)
(* uninstalls a handler, so that later signals do nothing.                 *)
(***************************************************************************)
EXTENDS ScrapeLoop

VARIABLES
    validateOnly, \* the flag --validate-only
    broken,       \* the gates that this command line and configuration fail
    pid1,         \* the process is the init of its container
    stage,        \* the gate main is at, or "running"
    answers,      \* history: what the node answered to each probe
    handler,      \* the task of spawn_signal_handler
    installed,    \* the signals that have a handler
    received,     \* a signal that has a handler has arrived
    signalled,    \* history: a signal has been sent
    status        \* "up", the exit status, or "killed"

startVars   == <<validateOnly, broken, pid1, stage, answers>>
signalVars  == <<installed, received, signalled>>
processVars == <<startVars, handler, signalVars, status>>
allVars     == <<vars, processVars>>

\* The gates in order.  "dial" parses the URL and the multicall address, which
\* must not be zero; "selfMetrics" fails if the plan has taken one of their names.
After == [logging |-> "load", load |-> "dial", dial |-> "chainId", chainId |-> "tag",
          tag |-> "plan", plan |-> "selfMetrics", selfMetrics |-> "ready"]

Probes     == {"chainId", "tag"}
LocalGates == DOMAIN After \ Probes
Signals    == {"SIGTERM", "SIGINT"}

ProcessInit ==
    /\ Init
    /\ validateOnly \in BOOLEAN /\ broken \in {{}} \cup {{g} : g \in LocalGates}
    /\ pid1 \in BOOLEAN
    /\ stage = "logging" /\ answers = [p \in Probes |-> "none"]
    /\ handler = "none" /\ installed = {} /\ received = FALSE /\ signalled = FALSE
    /\ status = "up"

At(place) == status = "up" /\ stage = place

Exit(code) == status' = code /\ UNCHANGED stage

\* Mutated form: the handler is spawned before the exporter is made.
GateWithHandler(g) ==
    /\ At(g)
    /\ IF g \in broken THEN Exit("1") ELSE stage' = After[g] /\ UNCHANGED status
    /\ handler' = IF g = "logging" THEN "spawned" ELSE handler
    /\ UNCHANGED <<vars, validateOnly, broken, pid1, answers, signalVars>>

\* A step of start-up that needs no one: an error is printed and ends it.
Gate(g) ==
    /\ At(g)
    /\ IF g \in broken THEN Exit("1") ELSE stage' = After[g] /\ UNCHANGED status
    /\ UNCHANGED <<vars, validateOnly, broken, pid1, answers, handler, signalVars>>

\* Mutated form: one probe is enough for a node that is only to be validated.
ProbeLess(p, answer) ==
    /\ At(p)
    /\ answers' = [answers EXCEPT ![p] = answer]
    /\ IF answer # "right" THEN Exit("1")
       ELSE stage' = (IF validateOnly THEN "plan" ELSE After[p]) /\ UNCHANGED status
    /\ UNCHANGED <<vars, validateOnly, broken, pid1, handler, signalVars>>

\* The node answers a probe: the configured chain id, a block for the tag, or
\* something else, an error included.
Probe(p, answer) ==
    /\ At(p)
    /\ answers' = [answers EXCEPT ![p] = answer]
    /\ IF answer # "right" THEN Exit("1") ELSE stage' = After[p] /\ UNCHANGED status
    /\ UNCHANGED <<vars, validateOnly, broken, pid1, handler, signalVars>>

\* The exporter is made: main validated it only, or starts it.
Launch ==
    /\ At("ready")
    /\ IF validateOnly THEN Exit("0") /\ UNCHANGED handler
       ELSE stage' = "running" /\ handler' = "spawned" /\ UNCHANGED status
    /\ UNCHANGED <<vars, validateOnly, broken, pid1, answers, signalVars>>

-----------------------------------------------------------------------------
\* Signals

Signal(sig) ==
    /\ status = "up"
    /\ signalled' = TRUE
    /\ received' = (received \/ sig \in installed)
    /\ status' = IF sig \in installed \/ pid1 THEN status ELSE "killed"
    /\ UNCHANGED <<vars, startVars, handler, installed>>

\* The task makes the SIGTERM stream, then polls it and ctrl_c in either order;
\* ctrl_c takes SIGINT over when it is polled.
Install ==
    /\ status = "up" /\ handler \in {"spawned", "listening"} /\ installed # Signals
    /\ handler' = "listening"
    /\ installed' = IF handler = "spawned" THEN {"SIGTERM"} ELSE Signals
    /\ UNCHANGED <<vars, startVars, received, signalled, status>>

\* It wakes up, cancels and ends.  If it polls the SIGTERM stream first and finds
\* a signal there, SIGINT is never taken over.
Wake ==
    /\ status = "up" /\ handler = "listening" /\ received
    /\ handler' = "done"
    /\ Cancel
    /\ UNCHANGED <<startVars, signalVars, status>>

-----------------------------------------------------------------------------
\* Running

LoopTask == At("running") /\ LoopStep /\ UNCHANGED processVars

StopTask == At("running") /\ TakeCancel /\ UNCHANGED processVars

ServerTask == At("running") /\ ServerStep /\ UNCHANGED processVars

Others == At("running") /\ (ScrapeReturns \/ Accept \/ Answer) /\ UNCHANGED processVars

HandlerReady == \/ handler = "spawned"
                \/ handler = "listening" /\ (received \/ installed # Signals)

Passes == At("running") /\ ~HandlerReady /\ Tick /\ UNCHANGED processVars

\* main returns what run returned.
Return ==
    /\ At("running") /\ pc = "exited"
    /\ Exit(IF exit = "error" THEN "1" ELSE "0")
    /\ UNCHANGED <<vars, validateOnly, broken, pid1, answers, handler, signalVars>>

MainStep == Launch \/ Return \/ \E g \in LocalGates : Gate(g)

ProcessNext == \/ MainStep \/ LoopTask \/ StopTask \/ ServerTask \/ Others \/ Passes
               \/ Install \/ Wake
               \/ \E p \in Probes, answer \in {"right", "wrong"} : Probe(p, answer)
               \/ \E sig \in Signals : Signal(sig)

(***************************************************************************)
(* As in ScrapeLoop, with the tasks of start-up and of the handler; the    *)
(* node owes no answer to a probe, and no signal need come.                *)
(***************************************************************************)
ProcessSpec ==
    /\ ProcessInit /\ [][ProcessNext]_allVars
    /\ WF_allVars(MainStep) /\ WF_allVars(LoopTask) /\ WF_allVars(ServerTask)
    /\ WF_allVars(Passes) /\ WF_allVars(Install) /\ WF_allVars(Wake)
    /\ SF_allVars(StopTask)

-----------------------------------------------------------------------------
(***************************************************************************)
(* Properties                                                              *)
(***************************************************************************)

\* A process that scrapes, and one that reports a valid configuration, has had
\* both probes answered as configured, and a validating one never serves:
\* README.md:44, "Validate a config without serving".
ProvenBeforeUse ==
    stage = "running" \/ status = "0" =>
        /\ broken = {} /\ \A p \in Probes : answers[p] = "right"
        /\ validateOnly => stage # "running"

\* Exit status 0 of an exporter that ran means that it was told to stop, served
\* until then, and left no request unanswered (main.rs:36, exporter.rs:115).
CleanExit ==
    status = "0" /\ ~validateOnly => received /\ server = "closed" /\ requests = 0

\* A signal that counts: one that found its handler, or, where the process is not
\* the init of a container, any at all.
Heeded == received \/ (signalled /\ ~pid1)

\* Such a signal ends the process at whatever moment it comes, if the clients let
\* go: a silent node, in a probe of the start-up or in a scrape, does not hold it.
\* That the handlers are installed only once start-up is over is what makes it so
\* (main.rs:87), for nothing would look at the token before.  As the init of a
\* container the process ignores what comes before its handlers, so that there a
\* signal sent during a probe is lost.
SignalEndsIt == <>[](requests = 0) => (Heeded ~> status # "up")

-----------------------------------------------------------------------------
(***************************************************************************)
(* What the documents say and the code does not do                         *)
(***************************************************************************)

\* README.md:76: chain.request_timeout is the "Per-RPC-request timeout", so that
\* a node that never answers a probe does not hold the start.
StartupEnds == <>(stage = "running" \/ status # "up")
=============================================================================
