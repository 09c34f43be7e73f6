------------------------ MODULE ProbeMetrics_proofs -------------------------
(***************************************************************************)
(* Proofs about ProbeMetrics, for every set of goroutines and probes: the  *)
(* lock excludes, no nil pointer is dereferenced, and the two lazily       *)
(* filled maps implement the counters of ProbeCounters.                    *)
(***************************************************************************)
EXTENDS ProbeMetrics, TLAPS

Section == {"test", "make", "makeDuration", "add", "store", "unlock"}

\* Goroutines stay in their own function, and pc agrees with the lock.
LockInv ==
    /\ \A g \in Recorder : pc[g] \in {"idle", "lock"} \cup Section
    /\ \A s \in Scraper : pc[s] \in {"idle", "rlock", "print", "runlock"}
    /\ \A g \in Recorder : pc[g] \in Section <=> writer = g
    /\ writer # Nobody => readers = {}
    /\ \A s \in Scraper : pc[s] \in {"print", "runlock"} <=> s \in readers

\* The two maps have the same entries, except inside the section.
MapsInv ==
    /\ \A g \in Recorder :
          /\ pc[g] = "make" => total[name[g]] = Nil
          /\ pc[g] = "makeDuration" => total[name[g]] # Nil
          /\ pc[g] \in {"add", "store"} =>
                total[name[g]] # Nil /\ duration[name[g]] # "nil"
    /\ \A p \in Probe :
          /\ total[p] # Nil /\ duration[p] = "nil" =>
                writer # Nobody /\ pc[writer] = "makeDuration" /\ name[writer] = p
          /\ total[p] = Nil => duration[p] = "nil"
          /\ duration[p] = "zero" =>
                writer # Nobody /\ pc[writer] \in {"add", "store"} /\ name[writer] = p

\* What a scrape has printed is still true.
ScrapeInv ==
    \A s \in Scraper : pc[s] = "print" =>
        \A p \in Probe : p \in unread[s] \/ seen[s][p] = Value(total[p])

IInv == TypeOK /\ LockInv /\ MapsInv /\ ScrapeInv

-----------------------------------------------------------------------------
\* The invariant holds initially.
LEMMA InitIInv == Init => IInv
<1> SUFFICES ASSUME Init PROVE IInv
  OBVIOUS
<1>1. TypeOK
  BY DEF Init, TypeOK, Goroutine
<1>2. LockInv
  BY MetricsAssumption DEF Init, LockInv, Goroutine, Section
<1>3. MapsInv
  BY DEF Init, MapsInv, Goroutine
<1>4. ScrapeInv
  BY DEF Init, ScrapeInv, Goroutine
<1> QED
  BY <1>1, <1>2, <1>3, <1>4 DEF IInv

\* Every step keeps the types.
LEMMA NextTypeOK == IInv /\ [Next]_vars => TypeOK'
<1> SUFFICES ASSUME IInv, [Next]_vars PROVE TypeOK'
  OBVIOUS
<1> USE MetricsAssumption DEF IInv, TypeOK, Goroutine, Goto, MapsSame, LockSame, RecordSame, ScrapeSame,
        Nil, Value
<1>1. ASSUME NEW g \in Recorder, NEW p \in Probe, NEW code \in Statuses, WrapProbe(g, p, code)
     PROVE  TypeOK'
  BY <1>1 DEF WrapProbe, Successful, Statuses
<1>2. ASSUME NEW g \in Recorder, Lock(g) PROVE TypeOK'
  BY <1>2 DEF Lock
<1>3. ASSUME NEW g \in Recorder, TestEntry(g) PROVE TypeOK'
  BY <1>3 DEF TestEntry
<1>4. ASSUME NEW g \in Recorder, MakeTotal(g) PROVE TypeOK'
  BY <1>4 DEF MakeTotal
<1>5. ASSUME NEW g \in Recorder, MakeDuration(g) PROVE TypeOK'
  BY <1>5 DEF MakeDuration
<1>6. ASSUME NEW g \in Recorder, AddSuccess(g) PROVE TypeOK'
  BY <1>6 DEF AddSuccess
<1>7. ASSUME NEW g \in Recorder, StoreDuration(g) PROVE TypeOK'
  BY <1>7 DEF StoreDuration
<1>8. ASSUME NEW g \in Recorder, Unlock(g) PROVE TypeOK'
  BY <1>8 DEF Unlock
<1>9. ASSUME NEW s \in Scraper, StartScrape(s) PROVE TypeOK'
  BY <1>9 DEF StartScrape
<1>10. ASSUME NEW s \in Scraper, RLock(s) PROVE TypeOK'
  BY <1>10 DEF RLock
<1>11. ASSUME NEW s \in Scraper, PrintedAll(s) PROVE TypeOK'
  BY <1>11 DEF PrintedAll
<1>12. ASSUME NEW s \in Scraper, RUnlock(s) PROVE TypeOK'
  BY <1>12 DEF RUnlock
<1>13. ASSUME NEW s \in Scraper, NEW p \in Probe, PrintEntry(s, p) PROVE TypeOK'
  BY <1>13 DEF PrintEntry
<1>14. CASE UNCHANGED vars
  BY <1>14 DEF vars
<1> QED
  BY <1>1, <1>2, <1>3, <1>4, <1>5, <1>6, <1>7, <1>8, <1>9, <1>10, <1>11,
     <1>12, <1>13, <1>14
     DEF Next, RecordProbe, HandleMetrics

\* Every step keeps the lock exclusive.
LEMMA NextLockInv == IInv /\ [Next]_vars => LockInv'
<1> SUFFICES ASSUME IInv, [Next]_vars PROVE LockInv'
  OBVIOUS
<1> USE MetricsAssumption DEF IInv, TypeOK, Goroutine, Goto, MapsSame, LockSame, RecordSame, ScrapeSame,
        LockInv, Section
<1>1. ASSUME NEW g \in Recorder, NEW p \in Probe, NEW code \in Statuses, WrapProbe(g, p, code)
     PROVE  LockInv'
  BY <1>1 DEF WrapProbe, Successful, Statuses
<1>2. ASSUME NEW g \in Recorder, Lock(g) PROVE LockInv'
  BY <1>2 DEF Lock
<1>3. ASSUME NEW g \in Recorder, TestEntry(g) PROVE LockInv'
  BY <1>3 DEF TestEntry
<1>4. ASSUME NEW g \in Recorder, MakeTotal(g) PROVE LockInv'
  BY <1>4 DEF MakeTotal
<1>5. ASSUME NEW g \in Recorder, MakeDuration(g) PROVE LockInv'
  BY <1>5 DEF MakeDuration
<1>6. ASSUME NEW g \in Recorder, AddSuccess(g) PROVE LockInv'
  BY <1>6 DEF AddSuccess
<1>7. ASSUME NEW g \in Recorder, StoreDuration(g) PROVE LockInv'
  BY <1>7 DEF StoreDuration
<1>8. ASSUME NEW g \in Recorder, Unlock(g) PROVE LockInv'
  BY <1>8 DEF Unlock
<1>9. ASSUME NEW s \in Scraper, StartScrape(s) PROVE LockInv'
  BY <1>9 DEF StartScrape
<1>10. ASSUME NEW s \in Scraper, RLock(s) PROVE LockInv'
  BY <1>10 DEF RLock
<1>11. ASSUME NEW s \in Scraper, PrintedAll(s) PROVE LockInv'
  BY <1>11 DEF PrintedAll
<1>12. ASSUME NEW s \in Scraper, RUnlock(s) PROVE LockInv'
  BY <1>12 DEF RUnlock
<1>13. ASSUME NEW s \in Scraper, NEW p \in Probe, PrintEntry(s, p) PROVE LockInv'
  BY <1>13 DEF PrintEntry
<1>14. CASE UNCHANGED vars
  BY <1>14 DEF vars
<1> QED
  BY <1>1, <1>2, <1>3, <1>4, <1>5, <1>6, <1>7, <1>8, <1>9, <1>10, <1>11,
     <1>12, <1>13, <1>14
     DEF Next, RecordProbe, HandleMetrics

\* Every step keeps the two maps together.
LEMMA NextMapsInv == IInv /\ [Next]_vars => MapsInv'
<1> SUFFICES ASSUME IInv, [Next]_vars PROVE MapsInv'
  OBVIOUS
<1> USE MetricsAssumption DEF IInv, TypeOK, Goroutine, Goto, MapsSame, LockSame, RecordSame, ScrapeSame,
        LockInv, Section, MapsInv, Nil
<1>1. ASSUME NEW g \in Recorder, NEW p \in Probe, NEW code \in Statuses, WrapProbe(g, p, code)
     PROVE  MapsInv'
  BY <1>1 DEF WrapProbe, Successful, Statuses
<1>2. ASSUME NEW g \in Recorder, Lock(g) PROVE MapsInv'
  BY <1>2 DEF Lock
<1>3. ASSUME NEW g \in Recorder, TestEntry(g) PROVE MapsInv'
  BY <1>3 DEF TestEntry
<1>4. ASSUME NEW g \in Recorder, MakeTotal(g) PROVE MapsInv'
  BY <1>4 DEF MakeTotal
<1>5. ASSUME NEW g \in Recorder, MakeDuration(g) PROVE MapsInv'
  BY <1>5 DEF MakeDuration
<1>6. ASSUME NEW g \in Recorder, AddSuccess(g) PROVE MapsInv'
  BY <1>6 DEF AddSuccess
<1>7. ASSUME NEW g \in Recorder, StoreDuration(g) PROVE MapsInv'
  BY <1>7 DEF StoreDuration
<1>8. ASSUME NEW g \in Recorder, Unlock(g) PROVE MapsInv'
  BY <1>8 DEF Unlock
<1>9. ASSUME NEW s \in Scraper, StartScrape(s) PROVE MapsInv'
  BY <1>9 DEF StartScrape
<1>10. ASSUME NEW s \in Scraper, RLock(s) PROVE MapsInv'
  BY <1>10 DEF RLock
<1>11. ASSUME NEW s \in Scraper, PrintedAll(s) PROVE MapsInv'
  BY <1>11 DEF PrintedAll
<1>12. ASSUME NEW s \in Scraper, RUnlock(s) PROVE MapsInv'
  BY <1>12 DEF RUnlock
<1>13. ASSUME NEW s \in Scraper, NEW p \in Probe, PrintEntry(s, p) PROVE MapsInv'
  BY <1>13 DEF PrintEntry
<1>14. CASE UNCHANGED vars
  BY <1>14 DEF vars
<1> QED
  BY <1>1, <1>2, <1>3, <1>4, <1>5, <1>6, <1>7, <1>8, <1>9, <1>10, <1>11,
     <1>12, <1>13, <1>14
     DEF Next, RecordProbe, HandleMetrics

\* Every step keeps what the scrapes have printed true.
LEMMA NextScrapeInv == IInv /\ [Next]_vars => ScrapeInv'
<1> SUFFICES ASSUME IInv, [Next]_vars PROVE ScrapeInv'
  OBVIOUS
<1> USE MetricsAssumption DEF IInv, TypeOK, Goroutine, Goto, MapsSame, LockSame, RecordSame, ScrapeSame,
        LockInv, Section, ScrapeInv, Value, Nil
<1>1. ASSUME NEW g \in Recorder, NEW p \in Probe, NEW code \in Statuses, WrapProbe(g, p, code)
     PROVE  ScrapeInv'
  BY <1>1 DEF WrapProbe, Successful, Statuses
<1>2. ASSUME NEW g \in Recorder, Lock(g) PROVE ScrapeInv'
  BY <1>2 DEF Lock
<1>3. ASSUME NEW g \in Recorder, TestEntry(g) PROVE ScrapeInv'
  BY <1>3 DEF TestEntry
<1>4. ASSUME NEW g \in Recorder, MakeTotal(g) PROVE ScrapeInv'
  BY <1>4 DEF MakeTotal
<1>5. ASSUME NEW g \in Recorder, MakeDuration(g) PROVE ScrapeInv'
  BY <1>5 DEF MakeDuration
<1>6. ASSUME NEW g \in Recorder, AddSuccess(g) PROVE ScrapeInv'
  BY <1>6 DEF AddSuccess
<1>7. ASSUME NEW g \in Recorder, StoreDuration(g) PROVE ScrapeInv'
  BY <1>7 DEF StoreDuration
<1>8. ASSUME NEW g \in Recorder, Unlock(g) PROVE ScrapeInv'
  BY <1>8 DEF Unlock
<1>9. ASSUME NEW s \in Scraper, StartScrape(s) PROVE ScrapeInv'
  BY <1>9 DEF StartScrape
<1>10. ASSUME NEW s \in Scraper, RLock(s) PROVE ScrapeInv'
  BY <1>10 DEF RLock
<1>11. ASSUME NEW s \in Scraper, PrintedAll(s) PROVE ScrapeInv'
  BY <1>11 DEF PrintedAll
<1>12. ASSUME NEW s \in Scraper, RUnlock(s) PROVE ScrapeInv'
  BY <1>12 DEF RUnlock
<1>13. ASSUME NEW s \in Scraper, NEW p \in Probe, PrintEntry(s, p) PROVE ScrapeInv'
  BY <1>13 DEF PrintEntry
<1>14. CASE UNCHANGED vars
  BY <1>14 DEF vars
<1> QED
  BY <1>1, <1>2, <1>3, <1>4, <1>5, <1>6, <1>7, <1>8, <1>9, <1>10, <1>11,
     <1>12, <1>13, <1>14
     DEF Next, RecordProbe, HandleMetrics

\* The invariant holds in every state.
THEOREM Invariance == Safety => []IInv
<1>1. IInv /\ [Next]_vars => IInv'
  BY NextTypeOK, NextLockInv, NextMapsInv, NextScrapeInv DEF IInv
<1> QED
  BY <1>1, InitIInv, PTL DEF Safety

\* The variables keep their types, and metricsMu protects every entry.
THEOREM LockExcludes == Spec => [](TypeOK /\ Exclusive)
<1>1. IInv => TypeOK /\ Exclusive
  BY MetricsAssumption DEF IInv, LockInv, Exclusive, Section
<1> QED
  BY <1>1, Invariance, PTL DEF Spec

\* recordProbe never dereferences a missing entry, and a scrape never meets an
\* entry that recordProbe has only half made.
THEOREM PointersExist == Spec => []NoNilDereference
<1>1. ASSUME IInv PROVE NoNilDereference
  <2>1. \A g \in Recorder : pc[g] \in {"add", "store"} =>
            total[name[g]] # Nil /\ duration[name[g]] # "nil"
    BY <1>1 DEF IInv, MapsInv
  <2>2. ASSUME NEW s \in Scraper, pc[s] = "print", NEW p \in Probe
        PROVE  IF total[p] = Nil THEN duration[p] = "nil" ELSE duration[p] = "set"
    <3>1. writer = Nobody
      BY <1>1, <2>2 DEF IInv, LockInv
    <3>2. duration[p] \in {"nil", "zero", "set"}
      BY <1>1 DEF IInv, TypeOK
    <3> QED
      BY <1>1, <3>1, <3>2 DEF IInv, MapsInv
  <2> QED
    BY <2>1, <2>2 DEF NoNilDereference
<1> QED
  BY <1>1, Invariance, PTL DEF Spec

-----------------------------------------------------------------------------
(* The lazily filled maps implement the counters.                          *)

\* Missing entries are counters at zero.
LEMMA CountersInit == Init => Counters!Init
  BY DEF Init, Counters!Init, Value

\* Every step maps to a step of the counters or to a stutter.
LEMMA CountersStep == IInv /\ [Next]_vars => Counters!Next \/ UNCHANGED Counters!counterVars
<1> SUFFICES ASSUME IInv, [Next]_vars PROVE Counters!Next \/ UNCHANGED Counters!counterVars
  OBVIOUS
<1> USE MetricsAssumption DEF IInv, TypeOK, Goroutine, Goto, MapsSame, LockSame, RecordSame, ScrapeSame,
        Counters!Next, Counters!counterVars
<1>1. ASSUME NEW g \in Recorder, NEW p \in Probe, NEW code \in Statuses, WrapProbe(g, p, code)
     PROVE  Counters!Next \/ UNCHANGED Counters!counterVars
  BY <1>1 DEF WrapProbe, Successful, Statuses
<1>2. ASSUME NEW g \in Recorder, Lock(g) PROVE Counters!Next \/ UNCHANGED Counters!counterVars
  BY <1>2 DEF Lock
<1>3. ASSUME NEW g \in Recorder, TestEntry(g) PROVE Counters!Next \/ UNCHANGED Counters!counterVars
  BY <1>3 DEF TestEntry
<1>4. ASSUME NEW g \in Recorder, MakeTotal(g) PROVE Counters!Next \/ UNCHANGED Counters!counterVars
  BY <1>4 DEF MakeTotal, Value, MapsInv, Nil
<1>5. ASSUME NEW g \in Recorder, MakeDuration(g) PROVE Counters!Next \/ UNCHANGED Counters!counterVars
  BY <1>5 DEF MakeDuration
<1>6. ASSUME NEW g \in Recorder, AddSuccess(g) PROVE Counters!Next \/ UNCHANGED Counters!counterVars
  <2>1. CASE success[g]
    <3>1. Value(total[name[g]]) = total[name[g]]
      BY <1>6 DEF AddSuccess, Value, MapsInv
    <3>2. Counters!Success(name[g])
      BY <1>6, <2>1, <3>1 DEF AddSuccess, Counters!Success, Value, Nil
    <3> QED
      BY <3>2
  <2>2. CASE ~success[g]
    BY <1>6, <2>2 DEF AddSuccess
  <2> QED
    BY <2>1, <2>2
<1>7. ASSUME NEW g \in Recorder, StoreDuration(g) PROVE Counters!Next \/ UNCHANGED Counters!counterVars
  BY <1>7 DEF StoreDuration
<1>8. ASSUME NEW g \in Recorder, Unlock(g) PROVE Counters!Next \/ UNCHANGED Counters!counterVars
  BY <1>8 DEF Unlock
<1>9. ASSUME NEW s \in Scraper, StartScrape(s) PROVE Counters!Next \/ UNCHANGED Counters!counterVars
  BY <1>9 DEF StartScrape
<1>10. ASSUME NEW s \in Scraper, RLock(s) PROVE Counters!Next \/ UNCHANGED Counters!counterVars
  BY <1>10 DEF RLock
<1>11. ASSUME NEW s \in Scraper, PrintedAll(s) PROVE Counters!Next \/ UNCHANGED Counters!counterVars
  <2>1. seen[s] = [p \in Probe |-> Value(total[p])]
    BY <1>11 DEF PrintedAll, ScrapeInv
  <2> QED
    BY <1>11, <2>1 DEF PrintedAll, Counters!Scrape
<1>12. ASSUME NEW s \in Scraper, RUnlock(s) PROVE Counters!Next \/ UNCHANGED Counters!counterVars
  BY <1>12 DEF RUnlock
<1>13. ASSUME NEW s \in Scraper, NEW p \in Probe, PrintEntry(s, p) PROVE Counters!Next \/ UNCHANGED Counters!counterVars
  BY <1>13 DEF PrintEntry
<1>14. CASE UNCHANGED vars
  BY <1>14 DEF vars
<1> QED
  BY <1>1, <1>2, <1>3, <1>4, <1>5, <1>6, <1>7, <1>8, <1>9, <1>10, <1>11,
     <1>12, <1>13, <1>14
     DEF Next, RecordProbe, HandleMetrics

\* No success is lost and every scrape shows one moment.
THEOREM MetricsImplementCounters == Spec => ImplementsCounters
  BY CountersInit, CountersStep, Invariance, PTL
     DEF Spec, Safety, ImplementsCounters, Counters!Spec
=============================================================================
