--------------------------- MODULE ProcessWrapper ---------------------------
(***************************************************************************)
(* What the supervisor mode of the health shim promises its container      *)
(* ("starts the child process, forwards signals ... and exits with the     *)
(* child's exit code", docs/comparison-matrix.md:101-102), without saying  *)
(* how: no HTTP server, no goroutines, no signal channel.                  *)
(*                                                                         *)
(*   - the process is launched at most once, and the wrapper's exit status *)
(*     is set once;                                                        *)
(*   - a signal is relayed only if the container sent it, and only while   *)
(*     the wrapper runs;                                                   *)
(*   - when the process has ended, the wrapper exits with its exit code,   *)
(*     or is aborted with a nonzero status, and one of the two happens.    *)
(***************************************************************************)
EXTENDS Integers

CONSTANTS
    Signal,       \* the signals the container may send
    ChildCode     \* exit codes of the process

VARIABLES
    hasCommand,   \* was a process to wrap named?  Never changes
    proc, procCode, wrapper, wrapperCode, sent, relayed

wrapperVars == <<hasCommand, proc, procCode, wrapper, wrapperCode, sent, relayed>>

Unset    == -2   \* no exit code yet
BySignal == -1   \* what ExitCode() says of a process killed by a signal

\* The exit code that stands for the process's own.
Propagate(c) == IF c < 0 THEN 1 ELSE c

Init ==
    /\ hasCommand \in BOOLEAN
    /\ proc = "none"
    /\ procCode = Unset
    /\ wrapper = "up"
    /\ wrapperCode = Unset
    /\ sent = [s \in Signal |-> 0]
    /\ relayed = [s \in Signal |-> 0]

Launch ==
    /\ hasCommand /\ wrapper = "up" /\ proc = "none"
    /\ proc' = "running"
    /\ UNCHANGED <<hasCommand, procCode, wrapper, wrapperCode, sent, relayed>>

\* The process may outlive an aborted wrapper.
ProcessEnds ==
    /\ proc = "running"
    /\ proc' = "ended"
    /\ procCode' \in ChildCode \cup {BySignal}
    /\ UNCHANGED <<hasCommand, wrapper, wrapperCode, sent, relayed>>

Send(s) ==
    /\ wrapper = "up"
    /\ sent' = [sent EXCEPT ![s] = @ + 1]
    /\ UNCHANGED <<hasCommand, proc, procCode, wrapper, wrapperCode, relayed>>

Relay(s) ==
    /\ wrapper = "up" /\ proc # "none"
    /\ relayed[s] < sent[s]
    /\ relayed' = [relayed EXCEPT ![s] = @ + 1]
    /\ UNCHANGED <<hasCommand, proc, procCode, wrapper, wrapperCode, sent>>

Finish ==
    /\ wrapper = "up"
    /\ proc = "ended" \/ ~hasCommand
    /\ wrapper' = "exited"
    /\ wrapperCode' = IF hasCommand THEN Propagate(procCode) ELSE 0
    /\ UNCHANGED <<hasCommand, proc, procCode, sent, relayed>>

\* The wrapper gives up with status 1 or is killed; a running process may
\* be killed with it (it is when the wrapper is PID 1 of its container).
Abort ==
    /\ wrapper = "up"
    /\ \/ wrapper' = "exited" /\ wrapperCode' = 1
       \/ wrapper' = "killed" /\ wrapperCode' = BySignal
    /\ \/ UNCHANGED <<proc, procCode>>
       \/ proc = "running" /\ proc' = "ended" /\ procCode' = BySignal
    /\ UNCHANGED <<hasCommand, sent, relayed>>

Next ==
    \/ Launch \/ ProcessEnds \/ Finish \/ Abort
    \/ \E s \in Signal : Send(s) \/ Relay(s)

Safety == Init /\ [][Next]_wrapperVars

\* The end of the process is the end of the wrapper.
Spec == Safety /\ WF_wrapperVars(Finish /\ hasCommand)
=============================================================================
