----------------------------- MODULE Supervisor -----------------------------
(***************************************************************************)
(* Supervisor mode of the health shim ("shim run", runSupervisor in        *)
(* images/health-shim/main.go): the main goroutine, the goroutine that     *)
(* runs the HTTP server, the goroutine that forwards signals, the child    *)
(* process, the kernel that delivers signals, and the probe handlers of    *)
(* HealthServer, interleaved at every shared access.                       *)
(***************************************************************************)
EXTENDS HealthServer, Integers

CONSTANTS
    Signal,        \* SIGTERM and SIGINT
    NoSignal,      \* an empty slot
    ChildCode,     \* exit codes of the child
    PidOne,        \* is the shim PID 1, so that its end kills the child?
    ListenCanFail, \* may the address be in use?
    MaxSent        \* bound: signals of each kind sent in a behaviour

ASSUME SupervisorAssumption ==
    /\ SupervisorMode = TRUE
    /\ NoSignal \notin Signal
    /\ ChildCode \subseteq 0..255
    /\ PidOne \in BOOLEAN
    /\ ListenCanFail \in BOOLEAN
    /\ MaxSent \in Nat

VARIABLES
    hasCommand,  \* was a command given on the command line?  Never changes
    main,        \* the next step of runSupervisor
    child,       \* the child process, as the kernel sees it
    childCode,   \* its exit code: Unset, BySignal or a ChildCode
    shim,        \* the shim process: up, exited or killed
    code,        \* its exit code
    notified,    \* is sigCh registered with signal.Notify?
    sigCh,       \* the one slot of the channel sigCh
    held,        \* the signal taken from sigCh and not yet dealt with
    forwarding,  \* has the forwarding goroutine been started?
    sent,        \* history: signals sent while sigCh was registered
    relayed,     \*   ... of these, delivered to the child's process group
    missed,      \*   ... for which kill found no process
    dropped,     \*   ... lost because sigCh was full
    afterDeath   \* history: requests begun after childAlive.Store(false)

childVars  == <<hasCommand, child, childCode>>
exitVars   == <<shim, code>>
signalVars == <<notified, sigCh, held, forwarding, sent, relayed, missed, dropped>>
supVars    == <<main, hasCommand, child, childCode, shim, code, notified,
                sigCh, held, forwarding, sent, relayed, missed, dropped, afterDeath>>
vars       == <<serverVars, supVars>>

Unset    == -2
BySignal == -1

MainStep == {"boot", "start", "alive", "latch", "notify", "wait", "dead",
             "stop", "shutdown", "drain", "exit", "await"}

\* The steps of runSupervisor after childAlive.Store(false).
ChildReported == {"stop", "shutdown", "drain", "exit"}

Init ==
    /\ ServerInit
    /\ hasCommand \in BOOLEAN
    /\ main = "boot"
    /\ child = "none" /\ childCode = Unset
    /\ shim = "up" /\ code = Unset
    /\ notified = FALSE
    /\ sigCh = NoSignal /\ held = NoSignal
    /\ forwarding = FALSE
    /\ sent = [s \in Signal |-> 0]
    /\ relayed = [s \in Signal |-> 0]
    /\ missed = [s \in Signal |-> 0]
    /\ dropped = [s \in Signal |-> 0]
    /\ afterDeath = {}

TypeOK ==
    /\ ServerTypeOK
    /\ hasCommand \in BOOLEAN
    /\ main \in MainStep
    /\ child \in {"none", "running", "zombie", "reaped"}
    /\ childCode \in ChildCode \cup {Unset, BySignal}
    /\ shim \in {"up", "exited", "killed"}
    /\ code \in (0..255) \cup {Unset, BySignal}
    /\ notified \in BOOLEAN
    /\ sigCh \in Signal \cup {NoSignal}
    /\ held \in Signal \cup {NoSignal}
    /\ forwarding \in BOOLEAN
    /\ sent \in [Signal -> Nat]
    /\ relayed \in [Signal -> Nat]
    /\ missed \in [Signal -> Nat]
    /\ dropped \in [Signal -> Nat]
    /\ afterDeath \in SUBSET Request

-----------------------------------------------------------------------------
(* The end of the shim process.  The kernel kills every other process of   *)
(* the container when its PID 1 ends; any other shim leaves an orphan.     *)

Ends(how, c) ==
    /\ shim' = how
    /\ code' = c
    /\ IF PidOne /\ child = "running"
       THEN child' = "zombie" /\ childCode' = BySignal /\ UNCHANGED hasCommand
       ELSE UNCHANGED childVars

-----------------------------------------------------------------------------
(* The main goroutine, one shared access per step.                         *)

At(here) == shim = "up" /\ main = here
Then(next) == main' = next

\* loadEnvConfig rejects HEALTH_TIMEOUT or STARTUP_WINDOW.
BadEnvironment ==
    /\ At("boot")
    /\ Ends("exited", 1)
    /\ UNCHANGED <<serverVars, main, signalVars, afterDeath>>

\* The configuration is read and the server goroutine started.
Boot ==
    /\ At("boot")
    /\ Then(IF hasCommand THEN "start" ELSE "notify")
    /\ UNCHANGED <<serverVars, childVars, exitVars, signalVars, afterDeath>>

\* child.Start() succeeds ...
StartChild ==
    /\ At("start")
    /\ child' = "running"
    /\ Then("alive")
    /\ UNCHANGED <<serverVars, hasCommand, childCode, exitVars, signalVars, afterDeath>>

\* ... or fails, and the shim exits.
StartFails ==
    /\ At("start")
    /\ Ends("exited", 1)
    /\ UNCHANGED <<serverVars, main, signalVars, afterDeath>>

\* childAlive.Store(true)
StoreAlive ==
    /\ At("alive")
    /\ childAlive' = TRUE
    /\ Then("latch")
    /\ UNCHANGED <<startupDone, lifeVars, requestVars,
                   childVars, exitVars, signalVars, afterDeath>>

\* startupDone.Store(true)
LatchStartup ==
    /\ At("latch")
    /\ startupDone' = TRUE
    /\ Then("notify")
    /\ UNCHANGED <<childAlive, lifeVars, requestVars,
                   childVars, exitVars, signalVars, afterDeath>>

\* Mutant of Notify: the forwarding goroutine is forgotten.
NotifyWithoutForwarder ==
    /\ At("notify")
    /\ notified' = TRUE
    /\ Then(IF hasCommand THEN "wait" ELSE "await")
    /\ UNCHANGED <<serverVars, childVars, exitVars, forwarding,
                   sigCh, held, sent, relayed, missed, dropped, afterDeath>>

\* signal.Notify(sigCh, ...) and, with a child, the forwarding goroutine.
Notify ==
    /\ At("notify")
    /\ notified' = TRUE
    /\ forwarding' = hasCommand
    /\ Then(IF hasCommand THEN "wait" ELSE "await")
    /\ UNCHANGED <<serverVars, childVars, exitVars,
                   sigCh, held, sent, relayed, missed, dropped, afterDeath>>

\* Mutant of Reap: the main goroutine does not wait for the child.
ReapEarly ==
    /\ At("wait")
    /\ child' = "reaped"
    /\ Then("dead")
    /\ UNCHANGED <<serverVars, hasCommand, childCode, exitVars, signalVars, afterDeath>>

\* child.Wait() returns: the child has been reaped.
Reap ==
    /\ At("wait")
    /\ child = "zombie"
    /\ child' = "reaped"
    /\ Then("dead")
    /\ UNCHANGED <<serverVars, hasCommand, childCode, exitVars, signalVars, afterDeath>>

\* Mutant of StoreDead: the store is forgotten.
StoreDeadForgotten ==
    /\ At("dead")
    /\ Then("stop")
    /\ UNCHANGED <<serverVars, childVars, exitVars, signalVars, afterDeath>>

\* childAlive.Store(false)
StoreDead ==
    /\ At("dead")
    /\ childAlive' = FALSE
    /\ Then("stop")
    /\ UNCHANGED <<startupDone, lifeVars, requestVars,
                   childVars, exitVars, signalVars, afterDeath>>

\* signal.Stop(sigCh): the default action of the signals is back.
StopSignals ==
    /\ At("stop")
    /\ notified' = FALSE
    /\ Then("shutdown")
    /\ UNCHANGED <<serverVars, childVars, exitVars, forwarding,
                   sigCh, held, sent, relayed, missed, dropped, afterDeath>>

\* Mutant of AwaitSignal: the signal is taken in a loop.
AwaitSignalForever ==
    /\ At("await")
    /\ sigCh # NoSignal
    /\ held' = sigCh
    /\ sigCh' = NoSignal
    /\ UNCHANGED <<serverVars, main, childVars, exitVars, notified, forwarding,
                   sent, relayed, missed, dropped, afterDeath>>

\* Without a command the main goroutine takes the signal from sigCh itself.
AwaitSignal ==
    /\ At("await")
    /\ sigCh # NoSignal
    /\ held' = sigCh
    /\ sigCh' = NoSignal
    /\ Then("shutdown")
    /\ UNCHANGED <<serverVars, childVars, exitVars, notified, forwarding,
                   sent, relayed, missed, dropped, afterDeath>>

\* server.Shutdown with a context of 5 s: begin, wait, return.
ShutServer ==
    /\ At("shutdown")
    /\ BeginShutdown
    /\ Then("drain")
    /\ UNCHANGED <<processVars, requestVars,
                   childVars, exitVars, signalVars, afterDeath>>

Drain ==
    /\ At("drain")
    /\ Drained
    /\ Then("exit")
    /\ UNCHANGED <<processVars, requestVars,
                   childVars, exitVars, signalVars, afterDeath>>

\* Mutant of Propagated: success for a killed child.
PropagatedAsSuccess == IF childCode < 0 THEN 0 ELSE childCode

\* ExitCode() is negative for a child killed by a signal.
Propagated == IF childCode < 0 THEN 1 ELSE childCode

\* os.Exit with the child's code, or the return of main without a child.
Exit ==
    /\ At("exit")
    /\ Ends("exited", IF hasCommand THEN Propagated ELSE 0)
    /\ UNCHANGED <<serverVars, main, signalVars, afterDeath>>

Main ==
    \/ BadEnvironment \/ Boot \/ StartChild \/ StartFails
    \/ StoreAlive \/ LatchStartup \/ Notify \/ Reap \/ StoreDead
    \/ StopSignals \/ AwaitSignal \/ ShutServer \/ Drain \/ Exit

-----------------------------------------------------------------------------
(* The goroutine that runs ListenAndServe.                                 *)

Serve ==
    /\ shim = "up" /\ main # "boot"
    /\ Listen
    /\ UNCHANGED <<processVars, requestVars, supVars>>

\* "health server failed": os.Exit(1) from this goroutine.
ServeFails ==
    /\ shim = "up" /\ main # "boot"
    /\ ListenCanFail
    /\ BindFails
    /\ Ends("exited", 1)
    /\ UNCHANGED <<processVars, requestVars, main, signalVars, afterDeath>>

-----------------------------------------------------------------------------
(* Signals: the kernel, the Go runtime and the forwarding goroutine.       *)

\* A signal arrives while sigCh is registered: it is put in the slot, or
\* dropped if the slot is taken (signal.Notify never blocks to send).
SignalNotified(s) ==
    /\ shim = "up"
    /\ notified
    /\ sent[s] < MaxSent
    /\ sent' = [sent EXCEPT ![s] = @ + 1]
    /\ IF sigCh = NoSignal
       THEN sigCh' = s /\ UNCHANGED dropped
       ELSE dropped' = [dropped EXCEPT ![s] = @ + 1] /\ UNCHANGED sigCh
    /\ UNCHANGED <<serverVars, main, childVars, exitVars,
                   notified, held, forwarding, relayed, missed, afterDeath>>

\* A signal arrives while nothing is registered: the shim dies of it.  (As
\* PID 1, whose default action the kernel ignores, it dies too: the Go runtime
\* then exits with status 2.  "killed" stands for both ends.)
SignalDefault ==
    /\ shim = "up"
    /\ ~notified
    /\ Ends("killed", BySignal)
    /\ UNCHANGED <<serverVars, main, signalVars, afterDeath>>

\* Mutant of TakeSignal: the slot is read but not emptied.
TakeSignalPeeks ==
    /\ shim = "up" /\ forwarding
    /\ held = NoSignal /\ sigCh # NoSignal
    /\ held' = sigCh
    /\ UNCHANGED <<serverVars, main, childVars, exitVars, sigCh,
                   notified, forwarding, sent, relayed, missed, dropped, afterDeath>>

\* for sig := range sigCh
TakeSignal ==
    /\ shim = "up" /\ forwarding
    /\ held = NoSignal /\ sigCh # NoSignal
    /\ held' = sigCh
    /\ sigCh' = NoSignal
    /\ UNCHANGED <<serverVars, main, childVars, exitVars,
                   notified, forwarding, sent, relayed, missed, dropped, afterDeath>>

\* syscall.Kill(-pid, sig): the group is gone once the child is reaped.
ForwardSignal ==
    /\ shim = "up" /\ forwarding
    /\ held # NoSignal
    /\ held' = NoSignal
    /\ IF child = "reaped"
       THEN missed' = [missed EXCEPT ![held] = @ + 1] /\ UNCHANGED relayed
       ELSE relayed' = [relayed EXCEPT ![held] = @ + 1] /\ UNCHANGED missed
    /\ UNCHANGED <<serverVars, main, childVars, exitVars,
                   notified, sigCh, forwarding, sent, dropped, afterDeath>>

-----------------------------------------------------------------------------
(* The child, time, and the probe handlers.                                *)

ChildExits ==
    /\ child = "running"
    /\ child' = "zombie"
    /\ childCode' \in ChildCode \cup {BySignal}
    /\ UNCHANGED <<serverVars, hasCommand, main, exitVars, signalVars, afterDeath>>

ClockPassesWindow ==
    /\ shim = "up"
    /\ WindowEnds
    /\ UNCHANGED <<processVars, requestVars, supVars>>

Handle(r) ==
    /\ shim = "up"
    /\ HandlerStep(r)
    /\ afterDeath' = IF pc[r] = "idle" /\ child = "reaped" /\ main \in ChildReported
                     THEN afterDeath \cup {r} ELSE afterDeath
    /\ UNCHANGED <<main, childVars, exitVars, signalVars>>

\* The shim has ended, and with it the behaviour.
Terminated == shim # "up" /\ child # "running" /\ UNCHANGED vars

Next ==
    \/ Main
    \/ Serve \/ ServeFails
    \/ \E s \in Signal : SignalNotified(s)
    \/ SignalDefault \/ TakeSignal \/ ForwardSignal
    \/ ChildExits \/ ClockPassesWindow
    \/ \E r \in Request : Handle(r)
    \/ Terminated

Safety == Init /\ [][Next]_vars

\* Every goroutine runs when it can, and the 5 s of the drain pass.  The
\* child, the clients, the signals, the startup window and the processes
\* that hold a check's pipe owe nobody a step.
Fairness ==
    /\ WF_vars(Main)
    /\ WF_vars(Serve)
    /\ WF_vars(TakeSignal \/ ForwardSignal)
    /\ \A r \in Request :
          WF_vars(shim = "up" /\ Progress(r)
                  /\ UNCHANGED <<main, childVars, exitVars, signalVars, afterDeath>>)

Spec == Safety /\ Fairness

-----------------------------------------------------------------------------
(* Safety properties.                                                      *)

Count(s, slot) == IF slot = s THEN 1 ELSE 0

\* Every SIGTERM or SIGINT received while sigCh is registered is delivered to
\* the child once, or dropped on a full channel, or found no process, or is
\* still on its way: none is forgotten, none is forwarded twice (runSupervisor,
\* signal.Notify and the forwarding goroutine).
SignalLedger ==
    \A s \in Signal :
        sent[s] = relayed[s] + missed[s] + dropped[s]
                  + Count(s, sigCh) + Count(s, held)

\* A zero exit status is never a lie: with a command, the shim exits 0 only
\* after it has reaped a child that exited 0; and an orderly exit has the code
\* of the child, 1 for a child killed by a signal (the end of runSupervisor).
ExitHonest ==
    shim = "exited" /\ hasCommand =>
        /\ code = 0 => child = "reaped" /\ childCode = 0
        /\ main = "exit" => /\ child = "reaped"
                            /\ code = (IF childCode = BySignal THEN 1 ELSE childCode)

\* A probe without a command that begins after the child's death has been
\* stored is never answered 200, except by the startup latch: livez and readyz
\* stop vouching for the child before the drain serves its last requests
\* (performCheck, childAlive).
NoProbeVouchesForTheDead ==
    \A r \in afterDeath :
        endpoint[r] # "startupz" /\ ~HasCmd(endpoint[r]) => status[r] # 200

\* The same probes never vouch for a child that was not started.
NoProbeVouchesForTheUnborn ==
    \A r \in Request :
        status[r] = 200 /\ ~HasCmd(endpoint[r]) /\ endpoint[r] # "startupz"
            => child # "none"

\* An orderly exit cuts no probe off: every accepted request has been answered
\* and recorded, unless the 5 s of server.Shutdown have passed.
GracefulExit ==
    shim = "exited" /\ main = "exit" => Busy = {} \/ shutdown = "expired"

-----------------------------------------------------------------------------
(* Liveness properties.                                                    *)

\* When the child ends, the shim ends, even if a check hangs on its pipe.
ChildEndEndsShim == child = "zombie" ~> shim # "up"

\* A signal received after signal.Notify leads to a signal for the child,
\* unless the child or the shim ends first.
SomeSignalForwarded ==
    (hasCommand /\ \E s \in Signal : sent[s] > 0)
        ~> \/ \E s \in Signal : relayed[s] > 0
           \/ child # "running" \/ shim # "up"

\* Without a command, a signal received after signal.Notify stops the shim.
SignalEndsIdleShim ==
    (~hasCommand /\ \E s \in Signal : sent[s] > 0) ~> shim # "up"

-----------------------------------------------------------------------------
(* The supervisor implements its abstract promise.                         *)

Wrapper == INSTANCE ProcessWrapper WITH
    proc <- IF child \in {"zombie", "reaped"} THEN "ended" ELSE child,
    procCode <- childCode,
    wrapper <- shim,
    wrapperCode <- code

\* The shim is a process wrapper: see ProcessWrapper for what that promises.
ImplementsWrapper == Wrapper!Spec

-----------------------------------------------------------------------------
(* What the documentation says and the code does not keep.                 *)

\* "exits with the child's exit code" (main.go:566, comparison-matrix.md:102),
\* for a child that was not killed by a signal and has been reaped.
ReapedChildDecidesExit ==
    shim # "up" /\ child = "reaped" /\ childCode # BySignal =>
        shim = "exited" /\ code = childCode

\* "Forward SIGTERM and SIGINT to the child's process group" (main.go:697).
EverySignalForwarded ==
    \A s \in Signal :
        sent[s] > 0 ~> \/ relayed[s] > 0
                       \/ child # "running" \/ shim # "up"
=============================================================================
