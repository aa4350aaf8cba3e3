----------------------------- MODULE CommandExec -----------------------------
(***************************************************************************)
(* One command of the executor (agent/internal/exec): Executor.Run, the    *)
(* goroutine that waits for the command, and terminateProcessGroup,        *)
(* against the tree of processes the command becomes.                      *)
(*                                                                         *)
(* cmd.Stdout and cmd.Stderr are buffers, so cmd.Wait returns when the     *)
(* command has exited and every process that inherited its output pipes    *)
(* has closed them.  Outside the model: what the command writes and the    *)
(* size limit of the buffers, durations.                                   *)
(***************************************************************************)
CONSTANTS
    Proc,       \* the processes the command may become: a bound on its forks
    Lead        \* the one that Run starts, the leader of the group

ASSUME ExecAssumption == Lead \in Proc

VARIABLES
    run,        \* where Run is
    ctx,        \* the context of Run: "live", "deadline" or "cancelled"
    alive,      \* running processes
    unborn,     \* processes not yet forked
    group,      \* members of the process group
    pipe,       \* processes that hold the output pipes open
    stubborn,   \* processes that ignore SIGTERM
    termed,     \* processes that have been sent SIGTERM
    killed,     \* processes that have been sent SIGKILL
    exit,       \* the exit of the leader: "none", "zero" or "nonzero"
    done,       \* what cmd.Wait returned: "none" yet, "nil", an ExitError ("exit") or "broken"
    kind        \* what Run returned: "none", "ok" or the Kind of a CommandError

tree == <<alive, unborn, group, pipe, stubborn, exit>>
signals == <<termed, killed>>
vars == <<run, ctx, tree, signals, done, kind>>

TypeOK ==
    /\ run \in {"idle", "started", "terminating", "killing", "returned"}
    /\ ctx \in {"live", "deadline", "cancelled"}
    /\ alive \subseteq Proc /\ unborn \subseteq Proc \ alive
    /\ group \subseteq Proc /\ pipe \subseteq alive /\ stubborn \subseteq Proc
    /\ termed \subseteq Proc /\ killed \subseteq Proc
    /\ exit \in {"none", "zero", "nonzero"}
    /\ done \in {"none", "nil", "exit", "broken"}
    /\ kind \in {"none", "ok", "timeout", "cancelled", "non_zero_exit", "not_found", "start_failed"}

Init ==
    /\ run = "idle"
    /\ ctx = "live"
    /\ alive = {} /\ unborn = Proc /\ group = {} /\ pipe = {} /\ stubborn = {}
    /\ termed = {} /\ killed = {}
    /\ exit = "none"
    /\ done = "none"
    /\ kind = "none"

-----------------------------------------------------------------------------
(* Executor.Run.                                                           *)

(* No argv, a dry run, or an error of cmd.Start.                           *)
ReturnEarly(k) ==
    /\ run = "idle"
    /\ k \in {"ok", "not_found", "start_failed"}
    /\ run' = "returned"
    /\ kind' = k
    /\ UNCHANGED <<ctx, tree, signals, done>>

(* cmd.Start, in a process group of its own.                               *)
StartCommand ==
    /\ run = "idle"
    /\ run' = "started"
    /\ alive' = {Lead} /\ unborn' = Proc \ {Lead} /\ group' = {Lead} /\ pipe' = {Lead}
    /\ UNCHANGED <<ctx, stubborn, exit, signals, done, kind>>

(* The timeout of the request passes, or its caller cancels it.            *)
ContextEnds ==
    /\ run # "returned"
    /\ ctx = "live"
    /\ ctx' \in {"deadline", "cancelled"}
    /\ UNCHANGED <<run, tree, signals, done, kind>>

(* The goroutine: done <- cmd.Wait().  The exit of a failed command is an  *)
(* ExitError; copying the output of one that succeeded may fail too.       *)
WaitDone ==
    /\ exit # "none"
    /\ pipe = {}
    /\ done = "none"
    /\ done' \in IF exit = "zero" THEN {"nil", "broken"} ELSE {"exit"}
    /\ UNCHANGED <<run, ctx, tree, signals, kind>>

(* The select of Run takes ctx.Done(): SIGTERM to the group.               *)
Terminate ==
    /\ run = "started"
    /\ ctx # "live"
    /\ run' = "terminating"
    /\ termed' = group \cap alive
    /\ UNCHANGED <<ctx, tree, killed, done, kind>>

(* Mutant: SIGKILL to the leader only.                                     *)
KillLeader ==
    /\ run = "terminating"
    /\ run' = "killing"
    /\ killed' = {Lead} \cap alive
    /\ UNCHANGED <<ctx, tree, termed, done, kind>>

(* The grace period passes: SIGKILL to the group.                          *)
GraceExpires ==
    /\ run = "terminating"
    /\ run' = "killing"
    /\ killed' = group \cap alive
    /\ UNCHANGED <<ctx, tree, termed, done, kind>>

(* Mutant: the exit of the command decides, whatever ended it.             *)
exitFirst == IF done = "nil" THEN "ok" ELSE "non_zero_exit"

(* How Run reports the error of cmd.Wait.                                  *)
classify ==
    CASE done = "nil" -> "ok"
      [] done # "nil" /\ ctx = "deadline" -> "timeout"
      [] done # "nil" /\ ctx = "cancelled" -> "cancelled"
      [] done = "exit" /\ ctx = "live" -> "non_zero_exit"
      [] done \notin {"nil", "exit"} /\ ctx = "live" -> "start_failed"

(* Mutant: after SIGKILL nobody waits for the command.                     *)
ReturnKilled ==
    /\ \/ run \in {"started", "terminating"} /\ done # "none"
       \/ run = "killing"
    /\ run' = "returned"
    /\ kind' = classify
    /\ UNCHANGED <<ctx, tree, signals, done>>

(* Run receives from done, in its select or in terminateProcessGroup, and  *)
(* reads the buffers.                                                      *)
Return ==
    /\ run \in {"started", "terminating", "killing"}
    /\ done # "none"
    /\ run' = "returned"
    /\ kind' = classify
    /\ UNCHANGED <<ctx, tree, signals, done>>

-----------------------------------------------------------------------------
(* The processes.                                                          *)

(* A process forks; the child is in the same group, with the same pipes.   *)
Fork(p, q) ==
    /\ p \in alive \ killed
    /\ q \in unborn
    /\ alive' = alive \cup {q}
    /\ unborn' = unborn \ {q}
    /\ group' = IF p \in group THEN group \cup {q} ELSE group
    /\ pipe' = IF p \in pipe THEN pipe \cup {q} ELSE pipe
    /\ stubborn' = IF p \in stubborn THEN stubborn \cup {q} ELSE stubborn
    /\ UNCHANGED <<run, ctx, exit, signals, done, kind>>

IgnoreTerm(p) ==
    /\ p \in alive
    /\ stubborn' = stubborn \cup {p}
    /\ UNCHANGED <<run, ctx, alive, unborn, group, pipe, exit, signals, done, kind>>

(* A process redirects its output elsewhere.                               *)
ClosePipe(p) ==
    /\ p \in alive
    /\ pipe' = pipe \ {p}
    /\ UNCHANGED <<run, ctx, alive, unborn, group, stubborn, exit, signals, done, kind>>

(* setsid; the leader of a group cannot.                                   *)
Detach(p) ==
    /\ p \in alive \ {Lead}
    /\ group' = group \ {p}
    /\ UNCHANGED <<run, ctx, alive, unborn, pipe, stubborn, exit, signals, done, kind>>

Exit(p, code) ==
    /\ p \in alive
    /\ alive' = alive \ {p}
    /\ pipe' = pipe \ {p}
    /\ exit' = IF p = Lead THEN code ELSE exit
    /\ UNCHANGED <<run, ctx, unborn, group, stubborn, signals, done, kind>>

(* A process exits because of a signal; a handler of SIGTERM may exit 0.   *)
TermExit(p) == p \in termed \ stubborn /\ \E code \in {"zero", "nonzero"} : Exit(p, code)
KillExit(p) == p \in killed /\ Exit(p, "nonzero")

-----------------------------------------------------------------------------
ProcessStep(p) ==
    \/ \E q \in Proc : Fork(p, q)
    \/ IgnoreTerm(p) \/ ClosePipe(p) \/ Detach(p)
    \/ p \notin killed /\ \E code \in {"zero", "nonzero"} : Exit(p, code)
    \/ TermExit(p) \/ KillExit(p)

Next ==
    \/ \E k \in {"ok", "not_found", "start_failed"} : ReturnEarly(k)
    \/ StartCommand \/ ContextEnds \/ WaitDone \/ Terminate \/ GraceExpires \/ Return
    \/ \E p \in Proc : ProcessStep(p)

Spec == Init /\ [][Next]_vars

(* The runtime schedules the two goroutines, the timer fires, the kernel   *)
(* delivers signals.  No process has to exit of its own accord.            *)
FairSpec ==
    /\ Spec
    /\ WF_vars(WaitDone) /\ WF_vars(Terminate) /\ WF_vars(GraceExpires) /\ WF_vars(Return)
    /\ \A p \in Proc : WF_vars(TermExit(p)) /\ WF_vars(KillExit(p))

-----------------------------------------------------------------------------
(* Properties.                                                             *)

(* When Run has read its buffers, no process can write to them any more    *)
(* and the command has been reaped (Run receives from done on every path). *)
OutputIsComplete ==
    (run = "returned" /\ group # {}) => pipe = {} /\ Lead \notin alive

(* A command that the executor interrupted is not reported as one that     *)
(* failed by itself, nor as one that never started, however its exit races *)
(* the timeout (the order of the checks after the select).                 *)
InterruptionIsReported ==
    /\ kind = "non_zero_exit" => termed = {} /\ ctx = "live" /\ exit = "nonzero"
    /\ kind = "start_failed" /\ group # {} => termed = {} /\ ctx = "live" /\ exit = "zero"

(* Run returns once its context has ended, although every process of the   *)
(* group may ignore SIGTERM (terminateProcessGroup: "Using -pid is         *)
(* essential"), unless a process that has left the group keeps the output  *)
(* pipes open, which no signal of the executor reaches.                    *)
RunEnds ==
    (run = "started" /\ ctx # "live") ~> (run = "returned" \/ pipe \ group # {})

(* Inductive strengthening of both invariants: a command that was started  *)
(* has a leader, which exits once; what cmd.Wait has seen stays true; only *)
(* an ended context leads to a signal, and nothing follows the return.     *)
ExecInv ==
    /\ group = {} => alive = {} /\ exit = "none" /\ done = "none" /\ run \in {"idle", "returned"}
    /\ group # {} => Lead \in group /\ Lead \notin unborn /\ run # "idle"
    /\ exit # "none" => Lead \notin alive
    /\ done # "none" => exit # "none" /\ pipe = {}
    /\ done = "exit" => exit = "nonzero"
    /\ done = "broken" => exit = "zero"
    /\ run = "returned" /\ group # {} => done # "none"
    /\ termed # {} => ctx # "live"
    /\ kind # "none" => run = "returned"
    /\ InterruptionIsReported

=============================================================================
