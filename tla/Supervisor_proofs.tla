------------------------- MODULE Supervisor_proofs --------------------------
(***************************************************************************)
(* Proofs about Supervisor, for every set of requests, signals and exit    *)
(* codes and every configuration of commands.                              *)
(***************************************************************************)
EXTENDS Supervisor, TLAPS

(* The inductive invariant, in four parts besides the types.               *)

\* Where runSupervisor is tells what has become of the child and the shim.
Lifecycle ==
    /\ main \in {"boot", "start"} => child = "none"
    /\ hasCommand =>
          /\ main \in {"alive", "latch", "notify", "wait"} => child \in {"running", "zombie"}
          /\ main \in {"dead"} \cup ChildReported => child = "reaped"
          /\ main # "await"
    /\ ~hasCommand =>
          /\ child = "none"
          /\ main \in {"boot", "notify", "await", "shutdown", "drain", "exit"}
    /\ child \in {"none", "running"} <=> childCode = Unset
    /\ shim = "up" <=> code = Unset
    /\ shim = "exited" => code \in 0..255
    /\ shim = "killed" => code = BySignal
    /\ ExitHonest
    /\ childAlive => hasCommand /\ main \in {"latch", "notify", "wait", "dead"}

\* Only the orderly way out shuts the server down, and it waits for handlers.
Draining ==
    /\ main = "drain" <=> shutdown = "draining"
    /\ main = "exit" <=> shutdown \in {"drained", "expired"}
    /\ shutdown # "no" => listener # "open"
    /\ shutdown = "drained" => Busy = {}

\* What each handler has seen, according to where it is.
HandlerKnows(r) ==
    /\ pc[r] = "idle" <=> endpoint[r] = "none"
    /\ pc[r] = "idle" => status[r] = NoStatus /\ r \notin afterOK /\ r \notin afterDeath
    /\ pc[r] \in {"load", "window"} => endpoint[r] = "startupz"
    /\ pc[r] \in {"exec", "pipeok", "pipefail"} => HasCmd(endpoint[r])
    /\ pc[r] \notin {"record", "done"} => status[r] = NoStatus
    /\ endpoint[r] = "startupz" /\ (pc[r] = "ok" \/ status[r] = 200) => startupDone
    /\ r \in afterOK =>
          /\ endpoint[r] = "startupz" /\ startupDone
          /\ pc[r] \in {"load", "ok", "record", "done"}
          /\ status[r] # 503
    /\ endpoint[r] # "startupz" /\ ~HasCmd(endpoint[r]) =>
          (pc[r] \in {"ok", "store"} \/ status[r] = 200 =>
              child # "none" /\ r \notin afterDeath)
    /\ r \in afterDeath => child = "reaped" /\ main \in ChildReported

Handlers == \A r \in Request : HandlerKnows(r)

\* Every signal is accounted for, and only an active forwarder relays one.
Signals ==
    /\ SignalLedger
    /\ held # NoSignal =>
          forwarding \/ (~hasCommand /\ main \in {"shutdown", "drain", "exit"})
    /\ forwarding => hasCommand /\ main \in {"wait", "dead"} \cup ChildReported

IInv == TypeOK /\ Lifecycle /\ Draining /\ Handlers /\ Signals

-----------------------------------------------------------------------------
(* The type invariant.                                                     *)

\* The constants are as SupervisorAssumption and ServerAssumption say.
LEMMA InitTypeOK == Init => TypeOK
<1> SUFFICES ASSUME Init PROVE TypeOK
  OBVIOUS
<1>1. ServerTypeOK
  BY DEF Init, ServerInit, ServerTypeOK, Handler, NoStatus
<1>2. /\ childCode \in ChildCode \cup {Unset, BySignal}
      /\ code \in (0..255) \cup {Unset, BySignal}
  BY DEF Init
<1>3. /\ sent \in [Signal -> Nat] /\ relayed \in [Signal -> Nat]
      /\ missed \in [Signal -> Nat] /\ dropped \in [Signal -> Nat]
  BY DEF Init
<1> QED
  BY <1>1, <1>2, <1>3 DEF Init, TypeOK, MainStep

\* A handler keeps the server variables well typed.
LEMMA HandlerTypeOK ==
  ASSUME ServerTypeOK, NEW r \in Request, HandlerStep(r)
  PROVE  ServerTypeOK'
<1> USE DEF ServerTypeOK, Handler, NoStatus, Goto, Quiet, Local
<1>1. CASE \E e \in Endpoint : Arrive(r, e)
  BY <1>1 DEF Arrive, Entry
<1>2. CASE \E e \in Endpoint : ArriveOtherMethod(r, e)
  BY <1>2 DEF ArriveOtherMethod
<1>3. CASE LoadStartupDone(r)
  BY <1>3 DEF LoadStartupDone
<1>4. CASE ReadWindow(r)
  BY <1>4 DEF ReadWindow
<1>5. CASE CheckChild(r)
  BY <1>5 DEF CheckChild, Verdict
<1>6. CASE RunCheck(r)
  BY <1>6 DEF RunCheck
<1>7. CASE \E ok \in BOOLEAN : CommandExits(r, ok)
  BY <1>7 DEF CommandExits, Verdict
<1>8. CASE \E ok \in BOOLEAN : CommandLeavesPipe(r, ok)
  BY <1>8 DEF CommandLeavesPipe
<1>9. CASE StoreStartupDone(r)
  BY <1>9 DEF StoreStartupDone
<1>10. CASE Reply(r)
  BY <1>10 DEF Reply
<1>11. CASE Record(r)
  BY <1>11 DEF Record
<1>12. CASE PipeCloses(r)
  BY <1>12 DEF PipeCloses, Verdict
<1> QED
  BY <1>1, <1>2, <1>3, <1>4, <1>5, <1>6, <1>7, <1>8, <1>9, <1>10, <1>11, <1>12
     DEF HandlerStep, Progress

\* Every step keeps the types.
LEMMA NextTypeOK == IInv /\ [Next]_vars => TypeOK'
<1> SUFFICES ASSUME IInv, [Next]_vars PROVE TypeOK'
  OBVIOUS
<1> USE SupervisorAssumption DEF IInv, TypeOK, ServerTypeOK, Handler,
        NoStatus, MainStep, At, Then, Ends, vars,
        serverVars, processVars, lifeVars,
        requestVars, supVars, childVars,
        exitVars, signalVars
<1>1. CASE BadEnvironment
  BY <1>1 DEF BadEnvironment
<1>2. CASE Boot
  BY <1>2 DEF Boot
<1>3. CASE StartChild
  BY <1>3 DEF StartChild
<1>4. CASE StartFails
  BY <1>4 DEF StartFails
<1>5. CASE StoreAlive
  BY <1>5 DEF StoreAlive
<1>6. CASE LatchStartup
  BY <1>6 DEF LatchStartup
<1>7. CASE Notify
  BY <1>7 DEF Notify
<1>8. CASE Reap
  BY <1>8 DEF Reap
<1>9. CASE StoreDead
  <2>1. childAlive' \in BOOLEAN
    BY <1>9 DEF StoreDead
  <2> QED
    BY <1>9, <2>1 DEF StoreDead
<1>10. CASE StopSignals
  <2>1. notified' \in BOOLEAN
    BY <1>10 DEF StopSignals
  <2> QED
    BY <1>10, <2>1 DEF StopSignals
<1>11. CASE AwaitSignal
  BY <1>11 DEF AwaitSignal
<1>12. CASE ShutServer
  BY <1>12 DEF ShutServer, BeginShutdown
<1>13. CASE Drain
  BY <1>13 DEF Drain, Drained
<1>14. CASE Exit
  BY <1>14 DEF Exit, Propagated
<1>15. CASE Serve
  BY <1>15 DEF Serve, Listen
<1>16. CASE ServeFails
  BY <1>16 DEF ServeFails, BindFails
<1>17. CASE SignalDefault
  BY <1>17 DEF SignalDefault
<1>18. CASE TakeSignal
  BY <1>18 DEF TakeSignal
<1>19. CASE ForwardSignal
  BY <1>19 DEF ForwardSignal
<1>20. CASE ChildExits
  BY <1>20 DEF ChildExits
<1>21. CASE ClockPassesWindow
  BY <1>21 DEF ClockPassesWindow, WindowEnds
<1>22. ASSUME NEW s \in Signal, SignalNotified(s) PROVE TypeOK'
  BY <1>22 DEF SignalNotified
<1>23. ASSUME NEW r \in Request, Handle(r) PROVE TypeOK'
  <2>1. ServerTypeOK'
    BY <1>23, HandlerTypeOK DEF Handle
  <2> QED
    BY <1>23, <2>1 DEF Handle
<1>24. CASE Terminated \/ UNCHANGED vars
  BY <1>24 DEF Terminated
<1> QED
  BY <1>1, <1>2, <1>3, <1>4, <1>5, <1>6, <1>7, <1>8, <1>9, <1>10, <1>11,
     <1>12, <1>13, <1>14, <1>15, <1>16, <1>17, <1>18, <1>19, <1>20, <1>21,
     <1>22, <1>23, <1>24 DEF Next, Main

\* Every step keeps Lifecycle.
LEMMA NextLifecycle == IInv /\ [Next]_vars => Lifecycle'
<1> SUFFICES ASSUME IInv, [Next]_vars PROVE Lifecycle'
  OBVIOUS
<1> USE SupervisorAssumption DEF IInv, TypeOK, ServerTypeOK, MainStep,
        Lifecycle, ChildReported, ExitHonest,
        Unset, BySignal, Draining, At, Then,
        Ends, vars, serverVars, processVars,
        lifeVars, requestVars, supVars,
        childVars, exitVars, signalVars
<1>1. CASE BadEnvironment
  BY <1>1 DEF BadEnvironment
<1>2. CASE Boot
  BY <1>2 DEF Boot
<1>3. CASE StartChild
  BY <1>3 DEF StartChild
<1>4. CASE StartFails
  BY <1>4 DEF StartFails
<1>5. CASE StoreAlive
  BY <1>5 DEF StoreAlive
<1>6. CASE LatchStartup
  BY <1>6 DEF LatchStartup
<1>7. CASE Notify
  BY <1>7 DEF Notify
<1>8. CASE Reap
  BY <1>8 DEF Reap
<1>9. CASE StoreDead
  BY <1>9 DEF StoreDead
<1>10. CASE StopSignals
  BY <1>10 DEF StopSignals
<1>11. CASE AwaitSignal
  BY <1>11 DEF AwaitSignal
<1>12. CASE ShutServer
  BY <1>12 DEF ShutServer, BeginShutdown
<1>13. CASE Drain
  BY <1>13 DEF Drain, Drained
<1>14. CASE Exit
  <2>1. CASE ~hasCommand
    BY <1>14, <2>1 DEF Exit
  <2>2. CASE hasCommand
    <3>1. child = "reaped" /\ childCode \in ChildCode \cup {BySignal}
      BY <1>14, <2>2 DEF Exit
    <3>2. Propagated \in 0..255 /\ (Propagated = 0 => childCode = 0)
      BY <3>1 DEF Propagated
    <3>3. Propagated = IF childCode = BySignal THEN 1 ELSE childCode
      BY <3>1 DEF Propagated
    <3>4. UNCHANGED <<main, child, childCode, childAlive>> /\ shim' = "exited" /\ code' = Propagated
      BY <1>14, <2>2, <3>1 DEF Exit
    <3> QED
      BY <1>14, <2>2, <3>1, <3>2, <3>3, <3>4 DEF Exit
  <2> QED
    BY <2>1, <2>2
<1>15. CASE Serve
  BY <1>15 DEF Serve, Listen
<1>16. CASE ServeFails
  BY <1>16 DEF ServeFails, BindFails
<1>17. CASE SignalDefault
  BY <1>17 DEF SignalDefault
<1>18. CASE TakeSignal
  BY <1>18 DEF TakeSignal
<1>19. CASE ForwardSignal
  BY <1>19 DEF ForwardSignal
<1>20. CASE ChildExits
  BY <1>20 DEF ChildExits
<1>21. CASE ClockPassesWindow
  BY <1>21 DEF ClockPassesWindow, WindowEnds
<1>22. ASSUME NEW s \in Signal, SignalNotified(s) PROVE Lifecycle'
  BY <1>22 DEF SignalNotified
<1>23. ASSUME NEW r \in Request, Handle(r) PROVE Lifecycle'
  <2>1. UNCHANGED childAlive
    BY <1>23 DEF Handle, HandlerStep, Progress, Arrive, ArriveOtherMethod, Served, LoadStartupDone, ReadWindow, CheckChild, RunCheck, CommandExits, CommandLeavesPipe, StoreStartupDone, Reply, Record, PipeCloses, Verdict, Quiet, Local
  <2> QED
    BY <1>23, <2>1 DEF Handle
<1>24. CASE Terminated \/ UNCHANGED vars
  BY <1>24 DEF Terminated
<1> QED
  BY <1>1, <1>2, <1>3, <1>4, <1>5, <1>6, <1>7, <1>8, <1>9, <1>10, <1>11,
     <1>12, <1>13, <1>14, <1>15, <1>16, <1>17, <1>18, <1>19, <1>20, <1>21,
     <1>22, <1>23, <1>24 DEF Next, Main

\* Every step keeps Draining: no handler starts once the
\* drain is over.
LEMMA NextDraining == IInv /\ [Next]_vars => Draining'
<1> SUFFICES ASSUME IInv, [Next]_vars PROVE Draining'
  OBVIOUS
<1> USE SupervisorAssumption DEF IInv, TypeOK, ServerTypeOK, MainStep,
        Draining, Busy, Lifecycle, ChildReported,
        At, Then, Ends, vars, serverVars,
        processVars, lifeVars, requestVars,
        supVars, childVars, exitVars, signalVars
<1>1. CASE BadEnvironment
  BY <1>1 DEF BadEnvironment
<1>2. CASE Boot
  BY <1>2 DEF Boot
<1>3. CASE StartChild
  BY <1>3 DEF StartChild
<1>4. CASE StartFails
  BY <1>4 DEF StartFails
<1>5. CASE StoreAlive
  BY <1>5 DEF StoreAlive
<1>6. CASE LatchStartup
  BY <1>6 DEF LatchStartup
<1>7. CASE Notify
  BY <1>7 DEF Notify
<1>8. CASE Reap
  BY <1>8 DEF Reap
<1>9. CASE StoreDead
  BY <1>9 DEF StoreDead
<1>10. CASE StopSignals
  BY <1>10 DEF StopSignals
<1>11. CASE AwaitSignal
  BY <1>11 DEF AwaitSignal
<1>12. CASE ShutServer
  BY <1>12 DEF ShutServer, BeginShutdown
<1>13. CASE Drain
  BY <1>13 DEF Drain, Drained
<1>14. CASE Exit
  BY <1>14 DEF Exit, Propagated
<1>15. CASE Serve
  BY <1>15 DEF Serve, Listen
<1>16. CASE ServeFails
  BY <1>16 DEF ServeFails, BindFails
<1>17. CASE SignalDefault
  BY <1>17 DEF SignalDefault
<1>18. CASE TakeSignal
  BY <1>18 DEF TakeSignal
<1>19. CASE ForwardSignal
  BY <1>19 DEF ForwardSignal
<1>20. CASE ChildExits
  BY <1>20 DEF ChildExits
<1>21. CASE ClockPassesWindow
  BY <1>21 DEF ClockPassesWindow, WindowEnds
<1>22. ASSUME NEW s \in Signal, SignalNotified(s) PROVE Draining'
  BY <1>22 DEF SignalNotified
<1>23. ASSUME NEW r \in Request, Handle(r) PROVE Draining'
  BY <1>23 DEF Handle, HandlerStep, Progress, Arrive, ArriveOtherMethod, Served, LoadStartupDone, ReadWindow, CheckChild, RunCheck, CommandExits, CommandLeavesPipe, StoreStartupDone, Reply, Record, PipeCloses, Verdict, Quiet, Local, Goto, Entry
<1>24. CASE Terminated \/ UNCHANGED vars
  BY <1>24 DEF Terminated
<1> QED
  BY <1>1, <1>2, <1>3, <1>4, <1>5, <1>6, <1>7, <1>8, <1>9, <1>10, <1>11,
     <1>12, <1>13, <1>14, <1>15, <1>16, <1>17, <1>18, <1>19, <1>20, <1>21,
     <1>22, <1>23, <1>24 DEF Next, Main

\* Every step keeps what the handlers know.
LEMMA NextHandlers == IInv /\ [Next]_vars => Handlers'
<1> SUFFICES ASSUME IInv, [Next]_vars PROVE Handlers'
  OBVIOUS
<1> USE SupervisorAssumption DEF IInv, TypeOK, ServerTypeOK, Handler,
        NoStatus, MainStep, Handlers, HasCmd,
        ChildReported, Lifecycle, At, Then, Ends,
        vars, serverVars, processVars, lifeVars,
        requestVars, supVars, childVars,
        exitVars, signalVars
<1>1. CASE BadEnvironment
  BY <1>1 DEF BadEnvironment, HandlerKnows
<1>2. CASE Boot
  BY <1>2 DEF Boot, HandlerKnows
<1>3. CASE StartChild
  BY <1>3 DEF StartChild, HandlerKnows
<1>4. CASE StartFails
  BY <1>4 DEF StartFails, HandlerKnows
<1>5. CASE StoreAlive
  BY <1>5 DEF StoreAlive, HandlerKnows
<1>6. CASE LatchStartup
  BY <1>6 DEF LatchStartup, HandlerKnows
<1>7. CASE Notify
  BY <1>7 DEF Notify, HandlerKnows
<1>8. CASE Reap
  BY <1>8 DEF Reap, HandlerKnows
<1>9. CASE StoreDead
  BY <1>9 DEF StoreDead, HandlerKnows
<1>10. CASE StopSignals
  BY <1>10 DEF StopSignals, HandlerKnows
<1>11. CASE AwaitSignal
  BY <1>11 DEF AwaitSignal, HandlerKnows
<1>12. CASE ShutServer
  BY <1>12 DEF ShutServer, BeginShutdown, HandlerKnows
<1>13. CASE Drain
  BY <1>13 DEF Drain, Drained, HandlerKnows
<1>14. CASE Exit
  BY <1>14 DEF Exit, Propagated, HandlerKnows
<1>15. CASE Serve
  BY <1>15 DEF Serve, Listen, HandlerKnows
<1>16. CASE ServeFails
  BY <1>16 DEF ServeFails, BindFails, HandlerKnows
<1>17. CASE SignalDefault
  BY <1>17 DEF SignalDefault, HandlerKnows
<1>18. CASE TakeSignal
  BY <1>18 DEF TakeSignal, HandlerKnows
<1>19. CASE ForwardSignal
  BY <1>19 DEF ForwardSignal, HandlerKnows
<1>20. CASE ChildExits
  BY <1>20 DEF ChildExits, HandlerKnows
<1>21. CASE ClockPassesWindow
  BY <1>21 DEF ClockPassesWindow, WindowEnds, HandlerKnows
<1>22. ASSUME NEW s \in Signal, SignalNotified(s) PROVE Handlers'
  BY <1>22 DEF SignalNotified, HandlerKnows
<1>23. ASSUME NEW r \in Request, Handle(r) PROVE Handlers'
  <2> SUFFICES ASSUME NEW q \in Request PROVE HandlerKnows(q)'
    BY DEF Handlers
  <2> USE <1>23 DEF Handle, HandlerKnows
  <2>1. CASE \E e \in Endpoint : Arrive(r, e)
    BY <2>1, ServerAssumption DEF Arrive, Entry, StartupAnswered, Goto, Quiet
  <2>2. CASE \E e \in Endpoint : ArriveOtherMethod(r, e)
    BY <2>2, ServerAssumption DEF ArriveOtherMethod, Goto, Quiet
  <2>3. CASE LoadStartupDone(r)
    BY <2>3 DEF LoadStartupDone, Goto, Local, Quiet
  <2>4. CASE ReadWindow(r)
    BY <2>4 DEF ReadWindow, Goto, Local, Quiet
  <2>5. CASE CheckChild(r)
    BY <2>5 DEF CheckChild, Verdict, Goto, Quiet
  <2>6. CASE RunCheck(r)
    BY <2>6 DEF RunCheck, Goto, Local, Quiet
  <2>7. CASE \E ok \in BOOLEAN : CommandExits(r, ok)
    BY <2>7 DEF CommandExits, Verdict, Goto, Quiet
  <2>8. CASE \E ok \in BOOLEAN : CommandLeavesPipe(r, ok)
    BY <2>8 DEF CommandLeavesPipe, Goto, Local, Quiet
  <2>9. CASE StoreStartupDone(r)
    BY <2>9 DEF StoreStartupDone, Goto
  <2>10. CASE Reply(r)
    BY <2>10 DEF Reply, Goto, Quiet
  <2>11. CASE Record(r)
    BY <2>11 DEF Record, Goto, Local, Quiet
  <2>12. CASE PipeCloses(r)
    BY <2>12 DEF PipeCloses, Verdict, Goto, Quiet
  <2> QED
    BY <2>1, <2>2, <2>3, <2>4, <2>5, <2>6, <2>7, <2>8, <2>9, <2>10, <2>11,
       <2>12 DEF HandlerStep, Progress
<1>24. CASE Terminated \/ UNCHANGED vars
  BY <1>24 DEF Terminated, HandlerKnows
<1> QED
  BY <1>1, <1>2, <1>3, <1>4, <1>5, <1>6, <1>7, <1>8, <1>9, <1>10, <1>11,
     <1>12, <1>13, <1>14, <1>15, <1>16, <1>17, <1>18, <1>19, <1>20, <1>21,
     <1>22, <1>23, <1>24 DEF Next, Main

\* Every step keeps the account of the signals.
LEMMA NextSignals == IInv /\ [Next]_vars => Signals'
<1> SUFFICES ASSUME IInv, [Next]_vars PROVE Signals'
  OBVIOUS
<1> USE SupervisorAssumption DEF IInv, TypeOK, MainStep, Signals,
        SignalLedger, Count, Lifecycle,
        ChildReported, At, Then, Ends, vars,
        serverVars, processVars, lifeVars,
        requestVars, supVars, childVars,
        exitVars, signalVars
<1>1. CASE BadEnvironment
  BY <1>1 DEF BadEnvironment
<1>2. CASE Boot
  BY <1>2 DEF Boot
<1>3. CASE StartChild
  BY <1>3 DEF StartChild
<1>4. CASE StartFails
  BY <1>4 DEF StartFails
<1>5. CASE StoreAlive
  BY <1>5 DEF StoreAlive
<1>6. CASE LatchStartup
  BY <1>6 DEF LatchStartup
<1>7. CASE Notify
  BY <1>7 DEF Notify
<1>8. CASE Reap
  BY <1>8 DEF Reap
<1>9. CASE StoreDead
  BY <1>9 DEF StoreDead
<1>10. CASE StopSignals
  BY <1>10 DEF StopSignals
<1>11. CASE AwaitSignal
  BY <1>11 DEF AwaitSignal
<1>12. CASE ShutServer
  BY <1>12 DEF ShutServer, BeginShutdown
<1>13. CASE Drain
  BY <1>13 DEF Drain, Drained
<1>14. CASE Exit
  BY <1>14 DEF Exit, Propagated
<1>15. CASE Serve
  BY <1>15 DEF Serve, Listen
<1>16. CASE ServeFails
  BY <1>16 DEF ServeFails, BindFails
<1>17. CASE SignalDefault
  BY <1>17 DEF SignalDefault
<1>18. CASE TakeSignal
  BY <1>18 DEF TakeSignal
<1>19. CASE ForwardSignal
  BY <1>19 DEF ForwardSignal
<1>20. CASE ChildExits
  BY <1>20 DEF ChildExits
<1>21. CASE ClockPassesWindow
  BY <1>21 DEF ClockPassesWindow, WindowEnds
<1>22. ASSUME NEW s \in Signal, SignalNotified(s) PROVE Signals'
  BY <1>22 DEF SignalNotified
<1>23. ASSUME NEW r \in Request, Handle(r) PROVE Signals'
  BY <1>23 DEF Handle
<1>24. CASE Terminated \/ UNCHANGED vars
  BY <1>24 DEF Terminated
<1> QED
  BY <1>1, <1>2, <1>3, <1>4, <1>5, <1>6, <1>7, <1>8, <1>9, <1>10, <1>11,
     <1>12, <1>13, <1>14, <1>15, <1>16, <1>17, <1>18, <1>19, <1>20, <1>21,
     <1>22, <1>23, <1>24 DEF Next, Main

-----------------------------------------------------------------------------
(* The invariant holds, and the safety properties follow from it.          *)

\* The invariant holds initially.
LEMMA InitIInv == Init => IInv
<1> SUFFICES ASSUME Init PROVE IInv
  OBVIOUS
<1>1. TypeOK
  BY InitTypeOK
<1>2. Lifecycle
  BY DEF Init, ServerInit, Lifecycle, ExitHonest, ChildReported, Unset, BySignal
<1>3. Draining
  BY DEF Init, ServerInit, Draining, Busy
<1>4. Handlers
  <2> SUFFICES ASSUME NEW r \in Request PROVE HandlerKnows(r)
    BY DEF Handlers
  <2>1. /\ pc[r] = "idle" /\ endpoint[r] = "none" /\ status[r] = NoStatus
        /\ r \notin afterOK /\ r \notin afterDeath
    BY DEF Init, ServerInit
  <2> QED
    BY <2>1 DEF HandlerKnows, NoStatus
<1>5. Signals
  BY SupervisorAssumption DEF Init, Signals, SignalLedger, Count
<1> QED
  BY <1>1, <1>2, <1>3, <1>4, <1>5 DEF IInv

\* Every step keeps the invariant.
LEMMA NextIInv == IInv /\ [Next]_vars => IInv'
  BY NextTypeOK, NextLifecycle, NextDraining, NextHandlers, NextSignals DEF IInv

\* IInv is an invariant of the supervisor.
THEOREM Invariance == Safety => []IInv
  BY InitIInv, NextIInv, PTL DEF Safety

\* The variables of the supervisor keep their types.
THEOREM TypeCorrect == Spec => []TypeOK
<1>1. IInv => TypeOK
  BY DEF IInv
<1> QED
  BY <1>1, Invariance, PTL DEF Spec

\* No signal received while sigCh is registered is forgotten or doubled.
THEOREM SignalsAccounted == Spec => []SignalLedger
<1>1. IInv => SignalLedger
  BY DEF IInv, Signals
<1> QED
  BY <1>1, Invariance, PTL DEF Spec

\* The exit status of an orderly exit is the child's, and 0 is never a lie.
THEOREM ExitStatusHonest == Spec => []ExitHonest
<1>1. IInv => ExitHonest
  BY DEF IInv, Lifecycle
<1> QED
  BY <1>1, Invariance, PTL DEF Spec

\* No startup probe begun after a 200 is answered 503.
THEOREM StartupLatched == Spec => []StartupLatch
<1>1. IInv => StartupLatch
  BY DEF IInv, TypeOK, ServerTypeOK, Handlers, HandlerKnows, StartupLatch
<1> QED
  BY <1>1, Invariance, PTL DEF Spec

\* Without a check command, livez and readyz do not vouch for a child once its
\* death has been stored.
THEOREM ProbesHonest == Spec => []NoProbeVouchesForTheDead
<1>1. IInv => NoProbeVouchesForTheDead
  BY DEF IInv, TypeOK, Handlers, HandlerKnows, NoProbeVouchesForTheDead
<1> QED
  BY <1>1, Invariance, PTL DEF Spec

\* Nor do they vouch for a child that was never started.
THEOREM ProbesWait == Spec => []NoProbeVouchesForTheUnborn
<1>1. IInv => NoProbeVouchesForTheUnborn
  BY DEF IInv, TypeOK, Handlers, HandlerKnows, NoProbeVouchesForTheUnborn
<1> QED
  BY <1>1, Invariance, PTL DEF Spec

\* An orderly exit leaves no probe unanswered unless the 5 s are over.
THEOREM ExitGraceful == Spec => []GracefulExit
<1>1. IInv => GracefulExit
  BY DEF IInv, Draining, GracefulExit
<1> QED
  BY <1>1, Invariance, PTL DEF Spec

-----------------------------------------------------------------------------
(* The supervisor implements the safety part of ProcessWrapper: initial    *)
(* states map to initial states, steps to steps or stutters.               *)

\* Initial states map to initial states.
LEMMA WrapperInit == Init => Wrapper!Init
  BY DEF Init, Wrapper!Init, Unset, Wrapper!Unset

\* What a signal on its way says of the counters.
LEMMA HeldIsUnrelayed ==
  ASSUME IInv, held # NoSignal
  PROVE  held \in Signal /\ relayed[held] < sent[held]
<1>1. held \in Signal
  BY DEF IInv, TypeOK
<1>2. sent[held] = relayed[held] + missed[held] + dropped[held] + Count(held, sigCh) + 1
  BY <1>1 DEF IInv, Signals, SignalLedger, Count
<1>3. /\ sent[held] \in Nat /\ relayed[held] \in Nat /\ missed[held] \in Nat
      /\ dropped[held] \in Nat /\ Count(held, sigCh) \in Nat
  BY <1>1 DEF IInv, TypeOK, Count
<1> QED
  BY <1>1, <1>2, <1>3

\* A shim that ends early is an abort of the wrapper.
LEMMA EndsAborts ==
  ASSUME IInv, shim = "up", UNCHANGED <<sent, relayed>>,
         Ends("exited", 1) \/ Ends("killed", BySignal)
  PROVE  Wrapper!Abort
  BY DEF Ends, Wrapper!Abort, BySignal, Wrapper!BySignal, childVars

\* Every step maps to a step of the wrapper or to a stutter.
LEMMA WrapperStep == IInv /\ [Next]_vars => Wrapper!Next \/ UNCHANGED Wrapper!wrapperVars
<1> SUFFICES ASSUME IInv, [Next]_vars PROVE Wrapper!Next \/ UNCHANGED Wrapper!wrapperVars
  OBVIOUS
<1> USE SupervisorAssumption DEF IInv, TypeOK, MainStep, Wrapper!Next,
        Wrapper!wrapperVars, At, Then, Ends,
        vars, serverVars, processVars, lifeVars,
        requestVars, supVars, childVars,
        exitVars, signalVars
<1>1. CASE BadEnvironment
  BY <1>1, EndsAborts DEF BadEnvironment
<1>2. CASE Boot
  BY <1>2 DEF Boot
<1>3. CASE StartChild
  BY <1>3 DEF StartChild, Wrapper!Launch, Lifecycle
<1>4. CASE StartFails
  BY <1>4, EndsAborts DEF StartFails
<1>5. CASE StoreAlive
  BY <1>5 DEF StoreAlive
<1>6. CASE LatchStartup
  BY <1>6 DEF LatchStartup
<1>7. CASE Notify
  BY <1>7 DEF Notify
<1>8. CASE Reap
  BY <1>8 DEF Reap
<1>9. CASE StoreDead
  BY <1>9 DEF StoreDead
<1>10. CASE StopSignals
  BY <1>10 DEF StopSignals
<1>11. CASE AwaitSignal
  BY <1>11 DEF AwaitSignal
<1>12. CASE ShutServer
  BY <1>12 DEF ShutServer, BeginShutdown
<1>13. CASE Drain
  BY <1>13 DEF Drain, Drained
<1>14. CASE Exit
  <2>1. ~PidOne \/ child # "running"
    BY <1>14 DEF Exit, Lifecycle, ChildReported
  <2>2. Wrapper!Finish
    BY <1>14, <2>1 DEF Exit, Wrapper!Finish, Wrapper!Propagate, Propagated,
           Lifecycle, ChildReported
  <2> QED
    BY <2>2
<1>15. CASE Serve
  BY <1>15 DEF Serve, Listen
<1>16. CASE ServeFails
  BY <1>16, EndsAborts DEF ServeFails
<1>17. CASE SignalDefault
  BY <1>17, EndsAborts DEF SignalDefault
<1>18. CASE TakeSignal
  BY <1>18 DEF TakeSignal
<1>19. CASE ForwardSignal
  BY <1>19, HeldIsUnrelayed DEF ForwardSignal, Wrapper!Relay, Signals, Lifecycle, ChildReported
<1>20. CASE ChildExits
  BY <1>20 DEF ChildExits, Wrapper!ProcessEnds, BySignal, Wrapper!BySignal
<1>21. CASE ClockPassesWindow
  BY <1>21 DEF ClockPassesWindow, WindowEnds
<1>22. ASSUME NEW s \in Signal, SignalNotified(s) PROVE Wrapper!Next \/ UNCHANGED Wrapper!wrapperVars
  BY <1>22 DEF SignalNotified, Wrapper!Send
<1>23. ASSUME NEW r \in Request, Handle(r) PROVE Wrapper!Next \/ UNCHANGED Wrapper!wrapperVars
  BY <1>23 DEF Handle
<1>24. CASE Terminated \/ UNCHANGED vars
  BY <1>24 DEF Terminated
<1> QED
  BY <1>1, <1>2, <1>3, <1>4, <1>5, <1>6, <1>7, <1>8, <1>9, <1>10, <1>11,
     <1>12, <1>13, <1>14, <1>15, <1>16, <1>17, <1>18, <1>19, <1>20, <1>21,
     <1>22, <1>23, <1>24 DEF Next, Main

\* The supervisor implements the safety part of ProcessWrapper.
THEOREM SupervisorImplementsWrapper == Safety => Wrapper!Safety
  BY WrapperInit, WrapperStep, Invariance, PTL DEF Safety, Wrapper!Safety
=============================================================================
