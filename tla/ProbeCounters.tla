---------------------------- MODULE ProbeCounters ---------------------------
(***************************************************************************)
(* What /metrics promises of health_shim_probe_success_total ("Total       *)
(* number of successful probes", images/health-shim/main.go:401): each     *)
(* successful probe is counted once, and a scrape shows all the counters   *)
(* as they were at one moment.                                             *)
(***************************************************************************)
EXTENDS Naturals

CONSTANTS
    Probe,      \* names of probes
    Scraper     \* clients of /metrics

VARIABLES
    successes,  \* successful probes recorded so far
    scraped     \* what each client read last

counterVars == <<successes, scraped>>

Init ==
    /\ successes = [p \in Probe |-> 0]
    /\ scraped = [s \in Scraper |-> [p \in Probe |-> 0]]

Success(p) ==
    /\ successes' = [successes EXCEPT ![p] = @ + 1]
    /\ UNCHANGED scraped

Scrape(s) ==
    /\ scraped' = [scraped EXCEPT ![s] = successes]
    /\ UNCHANGED successes

Next == \/ \E p \in Probe : Success(p)
        \/ \E s \in Scraper : Scrape(s)

Spec == Init /\ [][Next]_counterVars

-----------------------------------------------------------------------------
\* A client never sees a counter go down.
CountersNeverDecrease ==
    [][\A s \in Scraper, p \in Probe : scraped[s][p] <= scraped'[s][p]]_counterVars
=============================================================================
