----------------------------- MODULE Standalone -----------------------------
(***************************************************************************)
(* Standalone mode of the health shim (runStandalone in                    *)
(* images/health-shim/main.go): the main goroutine blocks in               *)
(* ListenAndServe, and a second goroutine calls Shutdown when the context  *)
(* of signal.NotifyContext is cancelled.                                   *)
(***************************************************************************)
EXTENDS HealthServer, Integers

CONSTANT ListenCanFail   \* may the address be in use?

ASSUME StandaloneAssumption ==
    /\ SupervisorMode = FALSE
    /\ ListenCanFail \in BOOLEAN

VARIABLES
    main,       \* the next step of runStandalone
    closer,     \* the next step of the goroutine that shuts the server down
    cancelled,  \* has a signal cancelled the context?
    shim,       \* the shim process: up, exited or killed
    code        \* its exit code

aloneVars == <<main, closer, cancelled, shim, code>>
vars      == <<serverVars, aloneVars>>

Unset    == -2
BySignal == -1

Init ==
    /\ ServerInit
    /\ main = "boot"
    /\ closer = "none"
    /\ cancelled = FALSE
    /\ shim = "up" /\ code = Unset

TypeOK ==
    /\ ServerTypeOK
    /\ main \in {"boot", "notify", "listen", "serving", "return"}
    /\ closer \in {"none", "wait", "drain", "done"}
    /\ cancelled \in BOOLEAN
    /\ shim \in {"up", "exited", "killed"}
    /\ code \in {Unset, BySignal, 0, 1}

At(here) == shim = "up" /\ main = here
Ends(how, c) == shim' = how /\ code' = c

\* A bad HEALTH_TIMEOUT or STARTUP_WINDOW, or no HEALTH_CMD: os.Exit(1).
BadEnvironment ==
    /\ At("boot")
    /\ Ends("exited", 1)
    /\ UNCHANGED <<serverVars, main, closer, cancelled>>

Boot ==
    /\ At("boot") /\ HealthCmd
    /\ main' = "notify"
    /\ UNCHANGED <<serverVars, closer, cancelled, shim, code>>

\* signal.NotifyContext, and the goroutine that waits on it.
NotifyContext ==
    /\ At("notify")
    /\ main' = "listen"
    /\ closer' = "wait"
    /\ UNCHANGED <<serverVars, cancelled, shim, code>>

\* ListenAndServe binds and serves, or finds the server shut down already.
Serve ==
    /\ At("listen")
    /\ Listen
    /\ main' = IF shutdown = "no" THEN "serving" ELSE "return"
    /\ UNCHANGED <<processVars, requestVars, closer, cancelled, shim, code>>

\* Mutant of ServeFails: every error of ListenAndServe counts as a clean stop.
ServeFailsQuietly ==
    /\ At("listen")
    /\ ListenCanFail
    /\ BindFails
    /\ Ends("exited", 0)
    /\ UNCHANGED <<processVars, requestVars, main, closer, cancelled>>

ServeFails ==
    /\ At("listen")
    /\ ListenCanFail
    /\ BindFails
    /\ Ends("exited", 1)
    /\ UNCHANGED <<processVars, requestVars, main, closer, cancelled>>

\* ListenAndServe returns ErrServerClosed as soon as the listener is closed.
ServeReturns ==
    /\ At("serving")
    /\ listener = "closed"
    /\ main' = "return"
    /\ UNCHANGED <<serverVars, closer, cancelled, shim, code>>

\* runStandalone returns, main returns, the process exits 0.
Exit ==
    /\ At("return")
    /\ Ends("exited", 0)
    /\ UNCHANGED <<serverVars, main, closer, cancelled>>

Main == BadEnvironment \/ Boot \/ NotifyContext \/ Serve \/ ServeFails
        \/ ServeReturns \/ Exit

\* Mutant of CloserShuts: a server that does not listen yet is not shut down.
CloserShutsListening ==
    /\ shim = "up"
    /\ closer = "wait" /\ cancelled
    /\ IF listener = "open"
       THEN BeginShutdown /\ closer' = "drain"
       ELSE UNCHANGED lifeVars /\ closer' = "done"
    /\ UNCHANGED <<processVars, requestVars, main, cancelled, shim, code>>

\* <-ctx.Done(), then server.Shutdown with 5 s.
CloserShuts ==
    /\ shim = "up"
    /\ closer = "wait" /\ cancelled
    /\ BeginShutdown
    /\ closer' = "drain"
    /\ UNCHANGED <<processVars, requestVars, main, cancelled, shim, code>>

CloserReturns ==
    /\ shim = "up"
    /\ closer = "drain"
    /\ Drained
    /\ closer' = "done"
    /\ UNCHANGED <<processVars, requestVars, main, cancelled, shim, code>>

\* The first signal cancels the context, later ones are discarded; before
\* NotifyContext a signal has its default action.
Signalled ==
    /\ shim = "up"
    /\ IF closer = "none"
       THEN Ends("killed", BySignal) /\ UNCHANGED cancelled
       ELSE cancelled' = TRUE /\ UNCHANGED <<shim, code>>
    /\ UNCHANGED <<serverVars, main, closer>>

ClockPassesWindow ==
    /\ shim = "up"
    /\ WindowEnds
    /\ UNCHANGED <<processVars, requestVars, aloneVars>>

Handle(r) ==
    /\ shim = "up"
    /\ HandlerStep(r)
    /\ UNCHANGED aloneVars

Terminated == shim # "up" /\ UNCHANGED vars

Next ==
    \/ Main
    \/ CloserShuts \/ CloserReturns
    \/ Signalled \/ ClockPassesWindow
    \/ \E r \in Request : Handle(r)
    \/ Terminated

Safety == Init /\ [][Next]_vars

\* The goroutines run when they can; signals, clients, the startup window
\* and the processes that hold a check's pipe owe nobody a step.
Fairness ==
    /\ WF_vars(Main)
    /\ WF_vars(CloserShuts \/ CloserReturns)
    /\ \A r \in Request : WF_vars(shim = "up" /\ Progress(r) /\ UNCHANGED aloneVars)

Spec == Safety /\ Fairness

-----------------------------------------------------------------------------
\* The shim exits 0 only because it was told to stop: a zero status means that
\* a signal came and Shutdown was called (runStandalone).
ZeroMeansStopped ==
    shim = "exited" /\ code = 0 => cancelled /\ shutdown # "no"

\* A signal received after NotifyContext ends the shim, also when it comes
\* before ListenAndServe has bound the address.
SignalEndsShim == cancelled ~> shim # "up"

\* A startup probe that is never killed half way is answered 200 once the
\* window is over: a shim that stays up does not keep refusing (fail-open).
StartupFailsOpen ==
    \A r \in Request :
        (windowOver /\ pc[r] = "load") ~> (status[r] = 200 \/ shim # "up")

-----------------------------------------------------------------------------
(* What the documentation says and the code does not keep.                 *)

\* "Graceful shutdown on SIGTERM/SIGINT" (main.go:861): the shim exits 0 only
\* when Shutdown has waited for the probes in flight, or for its 5 s.
GracefulExit ==
    shim = "exited" /\ code = 0 => Busy = {} \/ shutdown = "expired"

\* "HEALTH_TIMEOUT - Timeout per check in seconds" (main.go:26): a check that
\* is started is answered.
ChecksTimeOut ==
    \A r \in Request : pc[r] = "exec" ~> (status[r] # NoStatus \/ shim # "up")
=============================================================================
