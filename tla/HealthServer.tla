---------------------------- MODULE HealthServer ----------------------------
(***************************************************************************)
(* The HTTP probe server of the health shim (images/health-shim/main.go):  *)
(* the handlers of /livez, /readyz and /startupz, each running in its own  *)
(* goroutine, the package variables they share, and the life of the        *)
(* net/http server around them (Listen, Shutdown, the 5 s drain).          *)
(*                                                                         *)
(* Supervisor and Standalone extend this module: they own the process, say *)
(* when the server listens and shuts down, and interleave HandlerStep with *)
(* their own steps.                                                        *)
(*                                                                         *)
(* Abstractions.  A command is only "configured" or not; running it ends   *)
(* in success or failure.  Time is the two moments the code compares with: *)
(* the end of the startup window and the end of the shutdown drain.        *)
(***************************************************************************)
EXTENDS Naturals

CONSTANTS
    Request,         \* identities of the probe requests of a behaviour
    Endpoint,        \* which of the three wrapped probes clients call
    SupervisorMode,  \* the package variable supervisorMode
    HealthCmd,       \* is HEALTH_CMD set?
    ReadyCmd,        \* is READY_CMD set?
    StartupCmd       \* is STARTUP_CMD set?

ASSUME ServerAssumption ==
    /\ Endpoint \subseteq {"livez", "readyz", "startupz"}
    /\ SupervisorMode \in BOOLEAN
    /\ HealthCmd \in BOOLEAN
    /\ ReadyCmd \in BOOLEAN
    /\ StartupCmd \in BOOLEAN

VARIABLES
    startupDone,    \* atomic.Bool
    childAlive,     \* atomic.Bool
    windowOver,     \* time.Since(startTime) > startupWindow
    listener,       \* the listening socket of ListenAndServe
    shutdown,       \* progress of server.Shutdown
    pc,             \* where the handler goroutine of each request is
    endpoint,       \* the probe each request asked for
    status,         \* the HTTP status each request was answered with
    afterOK,        \* history: startupz requests begun after a startupz 200
    startupPassed   \* history: a startup check has succeeded

processVars == <<startupDone, childAlive>>
lifeVars    == <<windowOver, listener, shutdown>>
requestVars == <<pc, endpoint, status, afterOK, startupPassed>>
serverVars  == <<startupDone, childAlive, windowOver, listener, shutdown,
                 pc, endpoint, status, afterOK, startupPassed>>

NoStatus == 0
Handler  == {"idle", "load", "window", "check", "exec", "pipeok", "pipefail",
             "store", "ok", "fail", "record", "done"}

\* Requests whose handler has not returned: their connections are active.
Busy == {r \in Request : pc[r] \notin {"idle", "done"}}

\* Does the handler of endpoint e hand a command to performCheck?  READY_CMD
\* and STARTUP_CMD default to HEALTH_CMD.
HasCmd(e) ==
    \/ HealthCmd
    \/ e = "readyz" /\ ReadyCmd
    \/ e = "startupz" /\ StartupCmd

StartupAnswered == \E r \in Request : endpoint[r] = "startupz" /\ status[r] = 200

ServerInit ==
    /\ startupDone = FALSE
    /\ childAlive = FALSE
    /\ windowOver = FALSE
    /\ listener = "none"
    /\ shutdown = "no"
    /\ pc = [r \in Request |-> "idle"]
    /\ endpoint = [r \in Request |-> "none"]
    /\ status = [r \in Request |-> NoStatus]
    /\ afterOK = {}
    /\ startupPassed = FALSE

ServerTypeOK ==
    /\ startupDone \in BOOLEAN
    /\ childAlive \in BOOLEAN
    /\ windowOver \in BOOLEAN
    /\ listener \in {"none", "open", "failed", "closed"}
    /\ shutdown \in {"no", "draining", "drained", "expired"}
    /\ pc \in [Request -> Handler]
    /\ endpoint \in [Request -> Endpoint \cup {"none"}]
    /\ status \in [Request -> {NoStatus, 200, 405, 503}]
    /\ afterOK \in SUBSET Request
    /\ startupPassed \in BOOLEAN

-----------------------------------------------------------------------------
(* The server: ListenAndServe and Shutdown of net/http.                    *)

\* ListenAndServe binds the address, unless Shutdown was called before it.
Listen ==
    /\ listener = "none"
    /\ listener' = IF shutdown = "no" THEN "open" ELSE "closed"
    /\ UNCHANGED <<windowOver, shutdown>>

\* The address cannot be bound (net/http then returns the error).
BindFails ==
    /\ listener = "none"
    /\ shutdown = "no"
    /\ listener' = "failed"
    /\ UNCHANGED <<windowOver, shutdown>>

\* Mutant of BeginShutdown: the listener stays open while Shutdown waits.
BeginShutdownListening ==
    /\ shutdown = "no"
    /\ shutdown' = "draining"
    /\ UNCHANGED <<windowOver, listener>>

\* Shutdown closes the listener before it waits for anything.
BeginShutdown ==
    /\ shutdown = "no"
    /\ shutdown' = "draining"
    /\ listener' = IF listener = "open" THEN "closed" ELSE listener
    /\ UNCHANGED windowOver

\* Mutants of Drained: no waiting at all, and waiting without a deadline.
DrainedAtOnce ==
    /\ shutdown = "draining"
    /\ shutdown' = "drained"
    /\ UNCHANGED <<windowOver, listener>>

DrainedWithoutDeadline ==
    /\ shutdown = "draining"
    /\ Busy = {}
    /\ shutdown' = "drained"
    /\ UNCHANGED <<windowOver, listener>>

\* Shutdown returns when every connection is idle or its context expires.
Drained ==
    /\ shutdown = "draining"
    /\ shutdown' = IF Busy = {} THEN "drained" ELSE "expired"
    /\ UNCHANGED <<windowOver, listener>>

\* The startup window ends.
WindowEnds ==
    /\ ~windowOver
    /\ windowOver' = TRUE
    /\ UNCHANGED <<listener, shutdown>>

-----------------------------------------------------------------------------
(* The handlers.  Goto moves one request and leaves the rest alone.        *)

Goto(r, label) == pc' = [pc EXCEPT ![r] = label]

Quiet == UNCHANGED <<startupDone, childAlive, windowOver, listener, shutdown>>
Local == Quiet /\ UNCHANGED <<endpoint, status, afterOK, startupPassed>>

\* Where the handler of endpoint e starts once the method is accepted.
Entry(e) == IF e = "startupz" THEN "load" ELSE "check"

\* A request arrives over a new connection, or over one that has carried one
\* before and that a Shutdown under way has not found idle.
Served ==
    \/ listener = "open"
    \/ shutdown = "draining" /\ \E q \in Request : endpoint[q] # "none"

\* A GET or HEAD request is accepted and its handler starts.
Arrive(r, e) ==
    /\ pc[r] = "idle"
    /\ Served
    /\ Goto(r, Entry(e))
    /\ endpoint' = [endpoint EXCEPT ![r] = e]
    /\ afterOK' = IF e = "startupz" /\ StartupAnswered
                  THEN afterOK \cup {r} ELSE afterOK
    /\ Quiet /\ UNCHANGED <<status, startupPassed>>

\* Any other method is answered 405 at once; the wrapper still records it.
ArriveOtherMethod(r, e) ==
    /\ pc[r] = "idle"
    /\ Served
    /\ Goto(r, "record")
    /\ endpoint' = [endpoint EXCEPT ![r] = e]
    /\ status' = [status EXCEPT ![r] = 405]
    /\ Quiet /\ UNCHANGED <<afterOK, startupPassed>>

\* Mutant of LoadStartupDone: the latch is not consulted.
LoadStartupDoneIgnored(r) ==
    /\ pc[r] = "load"
    /\ Goto(r, "window")
    /\ Local

\* startupz: if startupDone.Load() ...
LoadStartupDone(r) ==
    /\ pc[r] = "load"
    /\ Goto(r, IF startupDone THEN "ok" ELSE "window")
    /\ Local

\* Mutants of ReadWindow: the comparison inverted, and dropped.
ReadWindowInverted(r) ==
    /\ pc[r] = "window"
    /\ Goto(r, IF windowOver THEN "check" ELSE "store")
    /\ Local

ReadWindowNever(r) ==
    /\ pc[r] = "window"
    /\ Goto(r, "check")
    /\ Local

\* startupz: if elapsed > startupWindow ...
ReadWindow(r) ==
    /\ pc[r] = "window"
    /\ Goto(r, IF windowOver THEN "store" ELSE "check")
    /\ Local

\* What the handler does with the verdict of performCheck.
Verdict(r, ok) ==
    /\ Goto(r, IF ~ok THEN "fail"
               ELSE IF endpoint[r] = "startupz" THEN "store" ELSE "ok")
    /\ startupPassed' = (startupPassed \/ (ok /\ endpoint[r] = "startupz"))
    /\ Quiet /\ UNCHANGED <<endpoint, status, afterOK>>

\* Mutant of CheckChild: supervisor mode alone counts as alive.
CheckChildByMode(r) ==
    /\ pc[r] = "check"
    /\ ~HasCmd(endpoint[r])
    /\ Verdict(r, SupervisorMode)

\* performCheck without a command: the child's liveness, or nothing at all.
CheckChild(r) ==
    /\ pc[r] = "check"
    /\ ~HasCmd(endpoint[r])
    /\ Verdict(r, SupervisorMode /\ childAlive)

\* performCheck with a command starts it.
RunCheck(r) ==
    /\ pc[r] = "check"
    /\ HasCmd(endpoint[r])
    /\ Goto(r, "exec")
    /\ Local

\* The command exits, or is killed when its timeout or its client ends.
CommandExits(r, ok) ==
    /\ pc[r] = "exec"
    /\ Verdict(r, ok)

\* The same, but a descendant still holds the output pipe: CombinedOutput
\* keeps waiting, whatever the timeout says.
CommandLeavesPipe(r, ok) ==
    /\ pc[r] = "exec"
    /\ Goto(r, IF ok THEN "pipeok" ELSE "pipefail")
    /\ Local

PipeCloses(r) ==
    /\ pc[r] \in {"pipeok", "pipefail"}
    /\ Verdict(r, pc[r] = "pipeok")

\* startupz: startupDone.Store(true)
StoreStartupDone(r) ==
    /\ pc[r] = "store"
    /\ startupDone' = TRUE
    /\ Goto(r, "ok")
    /\ UNCHANGED <<childAlive, windowOver, listener, shutdown,
                   endpoint, status, afterOK, startupPassed>>

\* Mutant of Reply: a failed check is answered 500.
ReplyInternalError(r) ==
    /\ pc[r] \in {"ok", "fail"}
    /\ status' = [status EXCEPT ![r] = IF pc[r] = "ok" THEN 200 ELSE 500]
    /\ Goto(r, "record")
    /\ Quiet /\ UNCHANGED <<endpoint, afterOK, startupPassed>>

\* writeJSON: from here on the client may see the status.
Reply(r) ==
    /\ pc[r] \in {"ok", "fail"}
    /\ status' = [status EXCEPT ![r] = IF pc[r] = "ok" THEN 200 ELSE 503]
    /\ Goto(r, "record")
    /\ Quiet /\ UNCHANGED <<endpoint, afterOK, startupPassed>>

\* wrapProbe records the probe (module ProbeMetrics) and the handler returns.
Record(r) ==
    /\ pc[r] = "record"
    /\ Goto(r, "done")
    /\ Local

\* The steps of a handler that the scheduler and the timeouts bring about.
Progress(r) ==
    \/ LoadStartupDone(r)
    \/ ReadWindow(r)
    \/ CheckChild(r)
    \/ RunCheck(r)
    \/ \E ok \in BOOLEAN : CommandExits(r, ok) \/ CommandLeavesPipe(r, ok)
    \/ StoreStartupDone(r)
    \/ Reply(r)
    \/ Record(r)

HandlerStep(r) ==
    \/ \E e \in Endpoint : Arrive(r, e) \/ ArriveOtherMethod(r, e)
    \/ Progress(r)
    \/ PipeCloses(r)

-----------------------------------------------------------------------------
(* Properties of the handlers, checked in both modes of operation.         *)

\* Once a startupz probe has been answered 200, a startupz probe that begins
\* later is never answered 503 (handleStartupz latches startupDone before it
\* writes the answer, and nothing resets it).
StartupLatch ==
    \A r \in afterOK : status[r] # 503

\* A startupz 200 with a startup command configured means that the command
\* has succeeded or that the startup window is over (handleStartupz).
StartupCmdDecides ==
    HasCmd("startupz") /\ StartupAnswered => startupPassed \/ windowOver
=============================================================================
