------------------------- MODULE Standalone_proofs --------------------------
(***************************************************************************)
(* Proofs about Standalone, for every set of requests and every            *)
(* configuration of commands.                                              *)
(***************************************************************************)
EXTENDS Standalone, TLAPS

(* The inductive invariant, in four parts besides the types.               *)

\* Where the two goroutines are tells what has become of the server.
Stopping ==
    /\ main \in {"boot", "notify"} <=> closer = "none"
    /\ closer \in {"none", "wait"} <=> shutdown = "no"
    /\ shutdown # "no" => cancelled
    /\ shim = "up" /\ main \in {"boot", "notify", "listen"} => listener = "none"
    /\ listener = "closed" => shutdown # "no"
    /\ main = "return" => shutdown # "no"
    /\ shim = "up" => code = Unset
    /\ ZeroMeansStopped

\* What lets startup pass: its command, or the end of the window.
Passed == startupDone => startupPassed \/ windowOver

\* What each handler has seen, according to where it is.
HandlerKnows(r) ==
    /\ pc[r] = "idle" <=> endpoint[r] = "none"
    /\ pc[r] = "idle" => status[r] = NoStatus /\ r \notin afterOK
    /\ pc[r] \in {"load", "window"} => endpoint[r] = "startupz"
    /\ pc[r] \notin {"record", "done"} => status[r] = NoStatus
    /\ pc[r] = "store" => startupPassed \/ windowOver
    /\ endpoint[r] = "startupz" /\ (pc[r] = "ok" \/ status[r] = 200) => startupDone
    /\ r \in afterOK =>
          /\ endpoint[r] = "startupz" /\ startupDone
          /\ pc[r] \in {"load", "ok", "record", "done"}
          /\ status[r] # 503
Handlers == \A r \in Request : HandlerKnows(r)

IInv == TypeOK /\ Stopping /\ Passed /\ Handlers

LEMMA InitIInv == Init => IInv
<1> SUFFICES ASSUME Init PROVE IInv
    OBVIOUS
<1> USE DEF Init, ServerInit
<1>1. TypeOK
    BY DEF TypeOK, ServerTypeOK, Handler, NoStatus, Unset
<1>2. Stopping
    BY DEF Stopping, ZeroMeansStopped
<1>3. Passed /\ Handlers
    BY DEF Passed, Handlers, HandlerKnows
<1> QED
    BY <1>1, <1>2, <1>3 DEF IInv

-----------------------------------------------------------------------------
(* The handlers.                                                           *)

\* A handler's step keeps the server's types.
LEMMA HandlerTypes ==
    ASSUME ServerTypeOK, NEW r \in Request, HandlerStep(r)
    PROVE  ServerTypeOK'
<1> USE DEF ServerTypeOK, Handler, NoStatus, Goto, Quiet, Local
<1>1. CASE \E e \in Endpoint : Arrive(r, e) \/ ArriveOtherMethod(r, e)
    BY <1>1 DEF Arrive, ArriveOtherMethod, Entry
<1>2. CASE LoadStartupDone(r) \/ ReadWindow(r) \/ RunCheck(r) \/ Record(r)
    BY <1>2 DEF LoadStartupDone, ReadWindow, RunCheck, Record
<1>3. CASE CheckChild(r)
    BY <1>3 DEF CheckChild, Verdict
<1>4. CASE \E ok \in BOOLEAN : CommandExits(r, ok) \/ CommandLeavesPipe(r, ok)
    BY <1>4 DEF CommandExits, CommandLeavesPipe, Verdict
<1>5. CASE PipeCloses(r)
    BY <1>5 DEF PipeCloses, Verdict
<1>6. CASE StoreStartupDone(r)
    BY <1>6 DEF StoreStartupDone
<1>7. CASE Reply(r)
    BY <1>7 DEF Reply
<1> QED
    BY <1>1, <1>2, <1>3, <1>4, <1>5, <1>6, <1>7 DEF HandlerStep, Progress

\* Whatever a handler does, all of them go on knowing what they did.
LEMMA HandlerKeeps ==
    ASSUME IInv, NEW r \in Request, HandlerStep(r)
    PROVE  Passed' /\ Handlers'
<1> USE DEF IInv, TypeOK, ServerTypeOK, Handler, NoStatus, Handlers, Passed
<1> SUFFICES ASSUME NEW q \in Request PROVE Passed' /\ HandlerKnows(q)'
    OBVIOUS
<1> USE DEF HandlerKnows
<1>1. CASE \E e \in Endpoint : Arrive(r, e)
    BY <1>1, ServerAssumption DEF Arrive, Entry, StartupAnswered, Goto, Quiet
<1>2. CASE \E e \in Endpoint : ArriveOtherMethod(r, e)
    BY <1>2, ServerAssumption DEF ArriveOtherMethod, Goto, Quiet
<1>3. CASE LoadStartupDone(r) \/ ReadWindow(r)
    BY <1>3 DEF LoadStartupDone, ReadWindow, Goto, Local, Quiet
<1>4. CASE CheckChild(r)
    BY <1>4, StandaloneAssumption DEF CheckChild, Verdict, Goto, Quiet
<1>5. CASE RunCheck(r)
    BY <1>5 DEF RunCheck, Goto, Local, Quiet
<1>6. CASE \E ok \in BOOLEAN : CommandExits(r, ok)
    BY <1>6 DEF CommandExits, Verdict, Goto, Quiet
<1>7. CASE \E ok \in BOOLEAN : CommandLeavesPipe(r, ok)
    BY <1>7 DEF CommandLeavesPipe, Goto, Local, Quiet
<1>8. CASE PipeCloses(r)
    <2>1. PICK ok \in BOOLEAN : Verdict(r, ok) /\ pc[r] \in {"pipeok", "pipefail"}
        BY <1>8 DEF PipeCloses
    <2> QED
        BY <2>1 DEF Verdict, Goto, Quiet
<1>9. CASE StoreStartupDone(r)
    BY <1>9 DEF StoreStartupDone, Goto
<1>10. CASE Reply(r)
    BY <1>10 DEF Reply, Goto, Quiet
<1>11. CASE Record(r)
    BY <1>11 DEF Record, Goto, Local, Quiet
<1> QED
    BY <1>1, <1>2, <1>3, <1>4, <1>5, <1>6, <1>7, <1>8, <1>9, <1>10, <1>11
       DEF HandlerStep, Progress

-----------------------------------------------------------------------------
(* The process.                                                            *)

\* Main, the closer, signals and the clock leave the handlers alone.
LEMMA OthersKeepHandlers ==
    ASSUME IInv, UNCHANGED <<processVars, requestVars>>, windowOver => windowOver'
    PROVE  Passed' /\ Handlers'
<1> QED
    BY DEF IInv, Passed, Handlers, HandlerKnows, processVars, requestVars

LEMMA MainKeeps ==
    ASSUME IInv, Main
    PROVE  TypeOK' /\ Stopping' /\ UNCHANGED <<processVars, requestVars, windowOver>>
<1> USE DEF IInv, TypeOK, ServerTypeOK, Stopping, ZeroMeansStopped, At, Ends, Unset, BySignal,
            serverVars, processVars, requestVars
<1>1. CASE BadEnvironment
    BY <1>1 DEF BadEnvironment
<1>2. CASE Boot
    BY <1>2 DEF Boot
<1>3. CASE NotifyContext
    BY <1>3 DEF NotifyContext
<1>4. CASE Serve
    BY <1>4 DEF Serve, Listen
<1>5. CASE ServeFails
    BY <1>5 DEF ServeFails, BindFails
<1>6. CASE ServeReturns
    BY <1>6 DEF ServeReturns
<1>7. CASE Exit
    BY <1>7 DEF Exit
<1> QED
    BY <1>1, <1>2, <1>3, <1>4, <1>5, <1>6, <1>7 DEF Main

LEMMA ServerKeeps ==
    ASSUME IInv, CloserShuts \/ CloserReturns \/ Signalled \/ ClockPassesWindow
    PROVE  /\ TypeOK' /\ Stopping'
           /\ UNCHANGED <<processVars, requestVars>> /\ (windowOver => windowOver')
<1> USE DEF IInv, TypeOK, ServerTypeOK, Stopping, ZeroMeansStopped, Ends, Unset, BySignal,
            serverVars, processVars, requestVars, aloneVars
<1>1. CASE CloserShuts
    BY <1>1 DEF CloserShuts, BeginShutdown
<1>2. CASE CloserReturns
    <2>1. shutdown = "draining" /\ shutdown' \in {"drained", "expired"}
        BY <1>2 DEF CloserReturns, Drained
    <2>2. TypeOK'
        BY <1>2, <2>1 DEF CloserReturns, Drained
    <2>3. Stopping'
        BY <1>2, <2>1 DEF CloserReturns, Drained
    <2>4. UNCHANGED <<processVars, requestVars>>
        BY <1>2 DEF CloserReturns
    <2>5. windowOver' = windowOver
        BY <1>2 DEF CloserReturns, Drained
    <2> QED
        BY <2>2, <2>3, <2>4, <2>5
<1>3. CASE Signalled
    <2>1. UNCHANGED <<serverVars, main, closer>>
        BY <1>3 DEF Signalled
    <2>2. CASE closer = "none"
        BY <1>3, <2>1, <2>2 DEF Signalled
    <2>3. CASE closer # "none"
        BY <1>3, <2>1, <2>3 DEF Signalled
    <2> QED
        BY <2>2, <2>3
<1>4. CASE ClockPassesWindow
    BY <1>4 DEF ClockPassesWindow, WindowEnds
<1> QED
    BY <1>1, <1>2, <1>3, <1>4

LEMMA HandleKeeps ==
    ASSUME IInv, NEW r \in Request, Handle(r)
    PROVE  TypeOK' /\ Stopping'
<1>1. ServerTypeOK'
    BY HandlerTypes DEF Handle, IInv, TypeOK
<1>2. UNCHANGED <<main, closer, cancelled, shim, code>>
    BY DEF Handle, aloneVars
<1>3. UNCHANGED <<listener, shutdown>>
    BY DEF Handle, HandlerStep, Progress, Arrive, ArriveOtherMethod, Served, LoadStartupDone, ReadWindow,
           CheckChild, RunCheck, CommandExits, CommandLeavesPipe, PipeCloses, StoreStartupDone,
           Reply, Record, Verdict, Local, Quiet
<1> QED
    BY <1>1, <1>2, <1>3 DEF IInv, TypeOK, Stopping, ZeroMeansStopped

LEMMA NextIInv == IInv /\ [Next]_vars => IInv'
<1> SUFFICES ASSUME IInv, [Next]_vars PROVE IInv'
    OBVIOUS
<1>1. CASE Main
    BY <1>1, MainKeeps, OthersKeepHandlers DEF IInv
<1>2. CASE CloserShuts \/ CloserReturns \/ Signalled \/ ClockPassesWindow
    BY <1>2, ServerKeeps, OthersKeepHandlers DEF IInv
<1>3. ASSUME NEW r \in Request, Handle(r) PROVE IInv'
    BY <1>3, HandleKeeps, HandlerKeeps DEF IInv, Handle
<1>4. CASE UNCHANGED vars
    BY <1>4 DEF vars, serverVars, aloneVars, IInv, TypeOK, ServerTypeOK, Stopping,
                ZeroMeansStopped, Passed, Handlers, HandlerKnows
<1> QED
    BY <1>1, <1>2, <1>3, <1>4 DEF Next, Terminated

-----------------------------------------------------------------------------
\* The inductive invariant holds in every behaviour.
THEOREM Invariance == Safety => []IInv
BY InitIInv, NextIInv, PTL DEF Safety

\* Every variable of standalone mode keeps its type.
THEOREM TypeCorrect == Spec => []TypeOK
<1>1. IInv => TypeOK
    BY DEF IInv
<1> QED
    BY <1>1, Invariance, PTL DEF Spec

\* A zero status means that a signal came and Shutdown was called.
THEOREM ZeroIsStopped == Spec => []ZeroMeansStopped
<1>1. IInv => ZeroMeansStopped
    BY DEF IInv, Stopping
<1> QED
    BY <1>1, Invariance, PTL DEF Spec

\* A startupz probe that begins after a startupz 200 is never answered 503.
THEOREM StartupLatched == Spec => []StartupLatch
<1>1. IInv => StartupLatch
    BY DEF IInv, TypeOK, ServerTypeOK, Handlers, HandlerKnows, StartupLatch
<1> QED
    BY <1>1, Invariance, PTL DEF Spec

\* No startupz 200 before the startup command succeeds or the window ends.
THEOREM StartupDecided == Spec => []StartupCmdDecides
<1>1. IInv => StartupCmdDecides
    BY DEF IInv, Passed, Handlers, HandlerKnows, StartupCmdDecides, StartupAnswered
<1> QED
    BY <1>1, Invariance, PTL DEF Spec
=============================================================================
