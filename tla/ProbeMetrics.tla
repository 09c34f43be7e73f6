---------------------------- MODULE ProbeMetrics ----------------------------
(***************************************************************************)
(* The probe metrics of the health shim (recordProbe, wrapProbe and        *)
(* handleMetrics in images/health-shim/main.go): two Go maps of pointers,  *)
(* filled lazily by concurrent handlers and read by concurrent scrapes     *)
(* under one sync.RWMutex.  Every access of a map is a step, so that what  *)
(* the lock protects is checked and not assumed.                           *)
(***************************************************************************)
EXTENDS Integers, FiniteSets

CONSTANTS
    Recorder,   \* handler goroutines that record a probe
    Scraper,    \* handler goroutines that serve /metrics
    Probe,      \* names of probes
    Nobody,     \* no goroutine
    MaxTotal    \* bound: successes recorded for a probe

ASSUME MetricsAssumption ==
    /\ Recorder \cap Scraper = {}
    /\ Nobody \notin Recorder \cup Scraper
    /\ MaxTotal \in Nat

VARIABLES
    total,     \* probeSuccessTotal: a counter, or Nil
    duration,  \* probeDuration: "nil", or a cell that is "zero" or "set"
    writer,    \* who holds metricsMu.Lock
    readers,   \* who hold metricsMu.RLock
    pc,        \* where each goroutine is
    name,      \* the probe a recorder records
    success,   \* did that probe succeed?
    unread,    \* the entries a scrape has still to print
    seen,      \* the counters a scrape has printed
    scraped    \* history: what the last finished scrape showed

vars == <<total, duration, writer, readers, pc, name, success, unread, seen, scraped>>

Nil == -1
Goroutine == Recorder \cup Scraper
Statuses == {200, 302, 405, 503}

\* A missing entry of the map counts as zero.
Value(t) == IF t = Nil THEN 0 ELSE t

Init ==
    /\ total = [p \in Probe |-> Nil]
    /\ duration = [p \in Probe |-> "nil"]
    /\ writer = Nobody
    /\ readers = {}
    /\ pc = [g \in Goroutine |-> "idle"]
    /\ name \in [Recorder -> Probe]
    /\ success = [g \in Recorder |-> FALSE]
    /\ unread = [s \in Scraper |-> {}]
    /\ seen = [s \in Scraper |-> [p \in Probe |-> 0]]
    /\ scraped = [s \in Scraper |-> [p \in Probe |-> 0]]

TypeOK ==
    /\ total \in [Probe -> Nat \cup {Nil}]
    /\ duration \in [Probe -> {"nil", "zero", "set"}]
    /\ writer \in Recorder \cup {Nobody}
    /\ readers \in SUBSET Scraper
    /\ pc \in [Goroutine -> {"idle", "lock", "test", "make", "makeDuration",
                             "add", "store", "unlock",
                             "rlock", "print", "runlock"}]
    /\ name \in [Recorder -> Probe]
    /\ success \in [Recorder -> BOOLEAN]
    /\ unread \in [Scraper -> SUBSET Probe]
    /\ seen \in [Scraper -> [Probe -> Nat]]
    /\ scraped \in [Scraper -> [Probe -> Nat]]

Goto(g, label) == pc' = [pc EXCEPT ![g] = label]
MapsSame   == UNCHANGED <<total, duration>>
LockSame   == UNCHANGED <<writer, readers>>
RecordSame == UNCHANGED <<name, success>>
ScrapeSame == UNCHANGED <<unread, seen, scraped>>

-----------------------------------------------------------------------------
(* recordProbe, called by wrapProbe once the wrapped handler has returned. *)

\* What wrapProbe takes for a success.
Successful(code) == code >= 200 /\ code < 400

\* The handler of probe p has answered with code.
WrapProbe(g, p, code) ==
    /\ pc[g] = "idle"
    /\ Value(total[p]) < MaxTotal
    /\ name' = [name EXCEPT ![g] = p]
    /\ success' = [success EXCEPT ![g] = Successful(code)]
    /\ Goto(g, "lock")
    /\ MapsSame /\ LockSame /\ ScrapeSame

\* Mutants of Lock: readers are not excluded, writers are not excluded.
LockWithReaders(g) ==
    /\ pc[g] = "lock"
    /\ writer = Nobody
    /\ writer' = g
    /\ Goto(g, "test")
    /\ UNCHANGED readers /\ MapsSame /\ RecordSame /\ ScrapeSame

LockWithWriters(g) ==
    /\ pc[g] = "lock"
    /\ readers = {}
    /\ writer' = g
    /\ Goto(g, "test")
    /\ UNCHANGED readers /\ MapsSame /\ RecordSame /\ ScrapeSame

Lock(g) ==
    /\ pc[g] = "lock"
    /\ writer = Nobody /\ readers = {}
    /\ writer' = g
    /\ Goto(g, "test")
    /\ UNCHANGED readers /\ MapsSame /\ RecordSame /\ ScrapeSame

\* if probeSuccessTotal[name] == nil
TestEntry(g) ==
    /\ pc[g] = "test"
    /\ Goto(g, IF total[name[g]] = Nil THEN "make" ELSE "add")
    /\ MapsSame /\ LockSame /\ RecordSame /\ ScrapeSame

\* Mutant of MakeTotal: the entry of the other map is not made.
MakeTotalOnly(g) ==
    /\ pc[g] = "make"
    /\ total' = [total EXCEPT ![name[g]] = 0]
    /\ Goto(g, "add")
    /\ UNCHANGED duration /\ LockSame /\ RecordSame /\ ScrapeSame

MakeTotal(g) ==
    /\ pc[g] = "make"
    /\ total' = [total EXCEPT ![name[g]] = 0]
    /\ Goto(g, "makeDuration")
    /\ UNCHANGED duration /\ LockSame /\ RecordSame /\ ScrapeSame

MakeDuration(g) ==
    /\ pc[g] = "makeDuration"
    /\ duration' = [duration EXCEPT ![name[g]] = "zero"]
    /\ Goto(g, "add")
    /\ UNCHANGED total /\ LockSame /\ RecordSame /\ ScrapeSame

\* if success { atomic.AddUint64(probeSuccessTotal[name], 1) }
AddSuccess(g) ==
    /\ pc[g] = "add"
    /\ total' = IF success[g] THEN [total EXCEPT ![name[g]] = @ + 1] ELSE total
    /\ Goto(g, "store")
    /\ UNCHANGED duration /\ LockSame /\ RecordSame /\ ScrapeSame

\* *probeDuration[name] = ...
StoreDuration(g) ==
    /\ pc[g] = "store"
    /\ duration' = [duration EXCEPT ![name[g]] = "set"]
    /\ Goto(g, "unlock")
    /\ UNCHANGED total /\ LockSame /\ RecordSame /\ ScrapeSame

Unlock(g) ==
    /\ pc[g] = "unlock"
    /\ writer' = Nobody
    /\ Goto(g, "idle")
    /\ UNCHANGED readers /\ MapsSame /\ RecordSame /\ ScrapeSame

RecordProbe(g) ==
    \/ Lock(g) \/ TestEntry(g) \/ MakeTotal(g) \/ MakeDuration(g)
    \/ AddSuccess(g) \/ StoreDuration(g) \/ Unlock(g)

-----------------------------------------------------------------------------
(* handleMetrics prints the maps entry by entry, in any order.             *)

StartScrape(s) ==
    /\ pc[s] = "idle"
    /\ Goto(s, "rlock")
    /\ MapsSame /\ LockSame /\ RecordSame /\ ScrapeSame

RLock(s) ==
    /\ pc[s] = "rlock"
    /\ writer = Nobody
    /\ readers' = readers \cup {s}
    /\ unread' = [unread EXCEPT ![s] = Probe]
    /\ Goto(s, "print")
    /\ UNCHANGED <<writer, seen, scraped>> /\ MapsSame /\ RecordSame

PrintEntry(s, p) ==
    /\ pc[s] = "print"
    /\ p \in unread[s]
    /\ seen' = [seen EXCEPT ![s][p] = Value(total[p])]
    /\ unread' = [unread EXCEPT ![s] = @ \ {p}]
    /\ UNCHANGED <<pc, scraped>> /\ MapsSame /\ LockSame /\ RecordSame

PrintedAll(s) ==
    /\ pc[s] = "print"
    /\ unread[s] = {}
    /\ scraped' = [scraped EXCEPT ![s] = seen[s]]
    /\ Goto(s, "runlock")
    /\ UNCHANGED <<unread, seen>> /\ MapsSame /\ LockSame /\ RecordSame

\* Mutant of RUnlock: the read lock is kept.
RUnlockForgotten(s) ==
    /\ pc[s] = "runlock"
    /\ Goto(s, "idle")
    /\ LockSame /\ MapsSame /\ RecordSame /\ ScrapeSame

RUnlock(s) ==
    /\ pc[s] = "runlock"
    /\ readers' = readers \ {s}
    /\ Goto(s, "idle")
    /\ UNCHANGED writer /\ MapsSame /\ RecordSame /\ ScrapeSame

HandleMetrics(s) ==
    \/ RLock(s) \/ PrintedAll(s) \/ RUnlock(s)
    \/ \E p \in Probe : PrintEntry(s, p)

-----------------------------------------------------------------------------
Next ==
    \/ \E g \in Recorder :
          \/ \E p \in Probe, code \in Statuses : WrapProbe(g, p, code)
          \/ RecordProbe(g)
    \/ \E s \in Scraper : StartScrape(s) \/ HandleMetrics(s)

Safety == Init /\ [][Next]_vars

\* Goroutines run when they can, and sync.RWMutex starves nobody: a blocked
\* Lock keeps new readers out, and waiting readers go before the next writer.
Fairness ==
    /\ \A g \in Recorder : WF_vars(RecordProbe(g)) /\ SF_vars(Lock(g))
    /\ \A s \in Scraper : WF_vars(HandleMetrics(s)) /\ SF_vars(RLock(s))

Spec == Safety /\ Fairness

-----------------------------------------------------------------------------
\* The lock does its work: an entry is written by the one recorder inside, and
\* no scrape reads the maps meanwhile (metricsMu in recordProbe, handleMetrics).
Exclusive ==
    \A g \in Recorder :
        pc[g] \in {"test", "make", "makeDuration", "add", "store", "unlock"}
            => writer = g /\ readers = {}

\* No nil pointer is dereferenced, and nothing half-made is shown.  When a
\* recorder adds to a counter or stores a duration, both entries of its probe
\* exist, though recordProbe tests only one map before it makes them.  When a
\* scrape prints, every probe it finds in one map is in the other, with a
\* duration that has been measured and not the zero it was made with.
NoNilDereference ==
    /\ \A g \in Recorder :
          pc[g] \in {"add", "store"} =>
              total[name[g]] # Nil /\ duration[name[g]] # "nil"
    /\ \A s \in Scraper :
          pc[s] = "print" =>
              \A p \in Probe : IF total[p] = Nil THEN duration[p] = "nil"
                                                 ELSE duration[p] = "set"

\* The maps lose no success and a scrape mixes no two moments: the abstract
\* counters of ProbeCounters, with a missing entry counting as zero.
Counters == INSTANCE ProbeCounters WITH
    successes <- [p \in Probe |-> Value(total[p])]

\* recordProbe and handleMetrics together implement ProbeCounters.
ImplementsCounters == Counters!Spec

\* recordProbe returns, whatever the scrapes do: no probe is lost to the lock.
RecordReturns ==
    \A g \in Recorder : pc[g] = "lock" ~> pc[g] = "idle"
=============================================================================
