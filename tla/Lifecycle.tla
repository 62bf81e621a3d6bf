------------------------------ MODULE Lifecycle ------------------------------
(***************************************************************************)
(* What pbtc's main promises about the process as a whole (spec 4.5, 5    *)
(* and 7): it builds its components, and a construction failure exits     *)
(* with a non-zero code; it then runs until interrupted; the shutdown      *)
(* stops the manager, the repository, the file writer and the logger one   *)
(* after the other, the file writer's Stop only once the writer has        *)
(* flushed and exited; the process exits with 0 only when all four have    *)
(* stopped.  A panic (a second signal during shutdown, or a goroutine's)   *)
(* ends it only once it runs.                                              *)
(***************************************************************************)
EXTENDS Integers, Sequences

\* The components the shutdown stops, in order.
StopOrder == <<"mgr", "repo", "wfile", "logr">>

VARIABLES
    phase,     \* "starting", "running", "stopping", "exited", "panicked"
    nstopped,  \* how many of StopOrder have stopped
    flushed,   \* the file writer's goroutine has exited
    status     \* the exit code, -1 before exit

Init ==
    /\ phase = "starting"
    /\ nstopped = 0
    /\ flushed = FALSE
    /\ status = -1

\* A constructor fails: exit with a non-zero code.
Fail ==
    /\ phase = "starting"
    /\ phase' = "exited"
    /\ status' \in 1..4
    /\ UNCHANGED <<nstopped, flushed>>

\* Every component is built.
Ready ==
    /\ phase = "starting"
    /\ phase' = "running"
    /\ UNCHANGED <<nstopped, flushed, status>>

\* SIGINT: the shutdown begins.
Interrupt ==
    /\ phase = "running"
    /\ phase' = "stopping"
    /\ UNCHANGED <<nstopped, flushed, status>>

\* The writer, told to stop, exits.
Flush ==
    /\ phase = "stopping" /\ nstopped = 2 /\ ~flushed
    /\ flushed' = TRUE
    /\ UNCHANGED <<phase, nstopped, status>>

\* The next component's Stop returns; the writer's only once it flushed.
StopNext ==
    /\ phase = "stopping" /\ nstopped < Len(StopOrder)
    /\ StopOrder[nstopped + 1] = "wfile" => flushed
    /\ nstopped' = nstopped + 1
    /\ UNCHANGED <<phase, flushed, status>>

\* All stopped: exit 0.
Finish ==
    /\ phase = "stopping" /\ nstopped = Len(StopOrder)
    /\ phase' = "exited" /\ status' = 0
    /\ UNCHANGED <<nstopped, flushed>>

\* The running process panics.
Panic ==
    /\ phase \in {"running", "stopping"}
    /\ phase' = "panicked"
    /\ UNCHANGED <<nstopped, flushed, status>>

Next == Fail \/ Ready \/ Interrupt \/ Flush \/ StopNext \/ Finish \/ Panic

vars == <<phase, nstopped, flushed, status>>

Spec == Init /\ [][Next]_vars

=============================================================================
