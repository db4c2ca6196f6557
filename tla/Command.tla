------------------------------ MODULE Command ------------------------------
(***************************************************************************)
(* How kickd runs the command of one run, and stops it: Runner.execute,    *)
(* stop and runStopCommand (internal/runner/runner.go) with the process    *)
(* groups of proc_unix.go.                                                 *)
(*                                                                         *)
(* Two goroutines work on a command that was started.  execute's own waits *)
(* for the process, then for the goroutines that copy its output, and then *)
(* decides how the run ended.  The one that os/exec starts waits for the   *)
(* end of the context; then it runs the stop command, sends SIGTERM to the *)
(* process group and, after the stop timeout, SIGKILL to the command.  The *)
(* two meet where the first receives what the second has to say.           *)
(*                                                                         *)
(* The processes are the command (the leader of its group) and those that  *)
(* it leaves behind, which may hold its output open or have left its group.*)
(* Nothing makes a process end but SIGKILL.                                *)
(***************************************************************************)
CONSTANTS Requests,  \* why the dispatcher may end the context of the run
          Children   \* the processes that the command may start

ASSUME CommandAssumption == Requests \subseteq {"user", "replaced", "shutdown"}

VARIABLES
  request,   \* why the dispatcher ended the context that it gave the run
  ctx,       \* execute's own context, which a timeout ends as well
  pc,        \* where execute is
  watcher,   \* where the goroutine of os/exec is
  stopCmd,   \* the stop command: "absent" when the event has none
  asked,     \* SIGTERM was sent to the group
  leader,    \* the process of the command
  child,     \* the processes that it started
  holds,     \* those that hold the standard output or error open
  apart,     \* those that left the process group
  closed,    \* kickd closed its ends of the output pipes
  delayed,   \* waiting for the output ended with ErrWaitDelay
  outcome    \* how the run ended

goVars   == <<pc, watcher, stopCmd, asked, closed, delayed, outcome>>
procVars == <<leader, child, holds, apart>>
commandVars == <<request, ctx, goVars, procVars>>

Stops    == {"timeout", "user", "replaced", "shutdown"}
Outcomes == Stops \cup {"succeeded", "exit_code", "wait_failed", "start_failed"}

CommandTypeOK ==
  /\ request \in Requests \cup {"none"}
  /\ ctx \in Stops \cup {"live"}
  /\ pc \in {"start", "wait", "result", "drain", "sweep", "classify", "cause", "done"}
  /\ watcher \in {"off", "watch", "stop", "delay", "hand"}
  /\ stopCmd \in {"absent", "ready", "running", "over"}
  /\ asked \in BOOLEAN /\ closed \in BOOLEAN /\ delayed \in BOOLEAN
  /\ leader \in {"none", "running", "zero", "nonzero", "killed"}
  /\ child \in [Children -> {"none", "running", "gone", "killed"}]
  /\ holds \subseteq Children /\ apart \subseteq Children
  /\ outcome \in Outcomes \cup {"none"}

Running(c) == child[c] = "running"

\* The goroutines that copy the output are done: every writer is gone, or kickd
\* closed the pipes.
Copied == closed \/ (leader # "running" /\ \A c \in holds : ~Running(c))

CommandInit ==
  /\ request = "none" /\ ctx = "live" /\ pc = "start" /\ watcher = "off"
  /\ stopCmd \in {"absent", "ready"} /\ asked = FALSE
  /\ leader = "none" /\ child = [c \in Children |-> "none"]
  /\ holds = {} /\ apart = {}
  /\ closed = FALSE /\ delayed = FALSE /\ outcome = "none"

-----------------------------------------------------------------------------
\* The dispatcher, the clock and the processes

\* A cancel, a replacement or a stop of kickd ends the dispatcher's context;
\* execute's context ends with it unless its timeout came first.
EndContext(r) ==
  /\ request = "none" /\ pc # "done"
  /\ request' = r
  /\ ctx' = IF ctx = "live" THEN r ELSE ctx
  /\ UNCHANGED <<goVars, procVars>>

\* The timeout of the event passes.
Timeout ==
  /\ ctx = "live" /\ pc # "done"
  /\ ctx' = "timeout"
  /\ UNCHANGED <<request, goVars, procVars>>

Grouped == leader = "running" \/ \E p \in Children \ apart : Running(p)

\* A process of the command starts another one, in its own group or in one that
\* kickd does not know.
Fork(c) ==
  /\ child[c] = "none"
  /\ \/ Grouped /\ UNCHANGED apart
     \/ (Grouped \/ \E p \in Children : Running(p)) /\ apart' = apart \cup {c}
  /\ child' = [child EXCEPT ![c] = "running"]
  /\ holds' \in {holds, holds \cup {c}}
  /\ UNCHANGED <<request, ctx, goVars, leader>>

ChildEnds(c) ==
  /\ Running(c)
  /\ child' = [child EXCEPT ![c] = "gone"]
  /\ UNCHANGED <<request, ctx, goVars, leader, holds, apart>>

\* By itself, or because it obeys the stop command or SIGTERM.
LeaderEnds ==
  /\ leader = "running"
  /\ leader' \in {"zero", "nonzero"}
  /\ UNCHANGED <<request, ctx, goVars, child, holds, apart>>

-----------------------------------------------------------------------------
\* execute, and Cmd.Wait

\* cmd.Start refuses a context that has ended.  A failure to write the payload
\* file comes before it and has nothing to do with the context.
Start ==
  /\ pc = "start"
  /\ \/ /\ ctx = "live"
        /\ leader' = "running" /\ watcher' = "watch" /\ pc' = "wait"
        /\ UNCHANGED outcome
     \/ /\ outcome' \in {"start_failed", IF ctx \in Requests THEN ctx ELSE "start_failed"}
        /\ pc' = "done"
        /\ UNCHANGED <<leader, watcher>>
  /\ UNCHANGED <<request, ctx, stopCmd, asked, child, holds, apart, closed, delayed>>

\* Process.Wait returns.
Reap ==
  /\ pc = "wait" /\ leader # "running"
  /\ pc' = "result"
  /\ UNCHANGED <<request, ctx, watcher, stopCmd, asked, closed, delayed, outcome, procVars>>

\* awaitGoroutines: the output was read to its end ...
Drained ==
  /\ pc = "drain" /\ Copied
  /\ pc' = "sweep"
  /\ UNCHANGED <<request, ctx, watcher, stopCmd, asked, closed, delayed, outcome, procVars>>

\* ... or some process kept it open for the stop timeout, counted from the exit
\* of the command or from SIGTERM.
DrainTimeout ==
  /\ pc = "drain" /\ ~Copied
  /\ closed' = TRUE /\ delayed' = TRUE /\ pc' = "sweep"
  /\ UNCHANGED <<request, ctx, watcher, stopCmd, asked, outcome, procVars>>

\* Mutant: what is left of the group stays.
SweepNothing ==
  /\ pc = "sweep"
  /\ pc' = "classify"
  /\ UNCHANGED <<request, ctx, watcher, stopCmd, asked, closed, delayed, outcome, procVars>>

\* killTree: what is left of the group of a stopped command.
Sweep ==
  /\ pc = "sweep"
  /\ child' = [c \in Children |->
                 IF ctx # "live" /\ Running(c) /\ c \notin apart THEN "killed" ELSE child[c]]
  /\ pc' = "classify"
  /\ UNCHANGED <<request, ctx, watcher, stopCmd, asked, closed, delayed, outcome,
                 leader, holds, apart>>

\* The first case of the switch, after the last lines of output were flushed: the
\* timeout has ended the context.
ClassifyTimeout ==
  /\ pc = "classify"
  /\ IF ctx = "timeout" THEN outcome' = "timeout" /\ pc' = "done"
                        ELSE pc' = "cause" /\ UNCHANGED outcome
  /\ UNCHANGED <<request, ctx, watcher, stopCmd, asked, closed, delayed, procVars>>

\* Mutant: the exit code decides before the context does.
OutcomeByCode ==
  CASE leader = "zero" -> IF delayed THEN "wait_failed" ELSE "succeeded"
    [] leader # "zero" /\ ctx \in {"user", "replaced"} -> ctx
    [] OTHER -> IF ctx = "live" THEN "exit_code" ELSE "shutdown"

\* The other cases read the context again, and decide before the exit code and
\* the error of Wait do.  A timeout that comes between the two readings has no
\* case of its own any more: it counts as a stop of kickd.
Ended ==
  CASE ctx \in {"user", "replaced"}    -> ctx
    [] ctx \in {"shutdown", "timeout"} -> "shutdown"
    [] OTHER -> IF leader # "zero" THEN "exit_code"
                ELSE IF delayed THEN "wait_failed" ELSE "succeeded"

Classify ==
  /\ pc = "cause"
  /\ outcome' = Ended
  /\ pc' = "done"
  /\ UNCHANGED <<request, ctx, watcher, stopCmd, asked, closed, delayed, procVars>>

-----------------------------------------------------------------------------
\* The goroutine of os/exec, and Runner.stop as its cmd.Cancel

\* The process ended while the context lived.
HandNothing ==
  /\ watcher = "watch" /\ pc = "result"
  /\ watcher' = "off" /\ pc' = "drain"
  /\ UNCHANGED <<request, ctx, stopCmd, asked, closed, delayed, outcome, procVars>>

\* The context ended: stop starts the stop command when the event has one.  The
\* process may have ended in the meantime; the select picks either.
BeginStop ==
  /\ watcher = "watch" /\ ctx # "live"
  /\ watcher' = "stop"
  /\ stopCmd' = IF stopCmd = "ready" THEN "running" ELSE stopCmd
  /\ UNCHANGED <<request, ctx, pc, asked, closed, delayed, outcome, procVars>>

\* The stop command ends by itself, or at the stop timeout by SIGTERM, and a
\* second later by SIGKILL.
StopCommandEnds ==
  /\ stopCmd = "running"
  /\ stopCmd' = "over"
  /\ UNCHANGED <<request, ctx, pc, watcher, asked, closed, delayed, outcome, procVars>>

\* Mutant: SIGTERM does not wait for the stop command.
TerminateAtOnce ==
  /\ watcher = "stop"
  /\ asked' = TRUE /\ watcher' = "delay"
  /\ UNCHANGED <<request, ctx, pc, stopCmd, closed, delayed, outcome, procVars>>

\* SIGTERM to the group, which any process of it may ignore.
Terminate ==
  /\ watcher = "stop" /\ stopCmd # "running"
  /\ asked' = TRUE /\ watcher' = "delay"
  /\ UNCHANGED <<request, ctx, pc, stopCmd, closed, delayed, outcome, procVars>>

\* The command ended after SIGTERM and before the stop timeout: execute goes on
\* with the timer that runs.
HandTimer ==
  /\ watcher = "delay" /\ pc = "result"
  /\ watcher' = "off" /\ pc' = "drain"
  /\ UNCHANGED <<request, ctx, stopCmd, asked, closed, delayed, outcome, procVars>>

\* Mutant: the pipes stay open.
KillLeaderOnly ==
  /\ watcher = "delay"
  /\ leader' = IF leader = "running" THEN "killed" ELSE leader
  /\ watcher' = "hand"
  /\ UNCHANGED <<request, ctx, pc, stopCmd, asked, child, holds, apart, closed, delayed, outcome>>
  /\ Copied'

\* The stop timeout has passed since SIGTERM: SIGKILL to the command, and the
\* pipes are closed unless the output has ended by then.
KillLeader ==
  /\ watcher = "delay"
  /\ leader' = IF leader = "running" THEN "killed" ELSE leader
  /\ closed' = TRUE \/ UNCHANGED closed
  /\ watcher' = "hand"
  /\ UNCHANGED <<request, ctx, pc, stopCmd, asked, child, holds, apart, delayed, outcome>>
  /\ Copied'

\* The output is done with: execute does not wait for it again.
HandResult ==
  /\ watcher = "hand" /\ pc = "result"
  /\ watcher' = "off" /\ pc' = "sweep"
  /\ UNCHANGED <<request, ctx, stopCmd, asked, closed, delayed, outcome, procVars>>

-----------------------------------------------------------------------------
Processes == LeaderEnds \/ \E c \in Children : Fork(c) \/ ChildEnds(c)

Execute ==
  \/ Start \/ Reap \/ Drained \/ DrainTimeout \/ Sweep \/ ClassifyTimeout \/ Classify

StopGoroutine ==
  \/ HandNothing \/ BeginStop \/ StopCommandEnds \/ Terminate \/ HandTimer
  \/ KillLeader \/ HandResult

CommandNext ==
  \/ \E r \in Requests : EndContext(r)
  \/ Timeout \/ Processes \/ Execute \/ StopGoroutine

CommandSpec == CommandInit /\ [][CommandNext]_commandVars

\* The goroutines are scheduled and their timers fire.  Nothing is fair about
\* the processes, the dispatcher and the timeout of the event.
CommandFairness == WF_commandVars(Execute) /\ WF_commandVars(StopGoroutine)

CommandFairSpec == CommandSpec /\ CommandFairness

-----------------------------------------------------------------------------
\* What the code promises

BegunToStop == asked \/ stopCmd \in {"running", "over"}

\* docs/internals/execution.md: "no child of a stopped command keeps running".  A
\* run that kickd began to stop, with the stop command or with SIGTERM, leaves no
\* process of its group behind; a process that left the group is out of reach
\* (execute, killTree).
NoChildSurvives ==
  (pc = "done" /\ BegunToStop) =>
    \A c \in Children \ apart : ~Running(c)

\* A process is killed in the order of the documentation: the command not before
\* the stop command is over and SIGTERM was sent, and the rest of its group not
\* before the command itself is gone (stop, Cmd.watchCtx, killTree).
KilledInOrder ==
  /\ leader = "killed" => asked
  /\ asked => stopCmd \in {"absent", "over"}
  /\ (\E c \in Children : child[c] = "killed") => leader \in {"zero", "nonzero", "killed"}

\* The timeout ended the context when the command had ended already and execute
\* had looked for a timeout in vain.
LateTimeout == ctx = "timeout" /\ outcome = "shutdown" /\ ~BegunToStop

\* The outcome of a run that kickd began to stop names the reason for which the
\* context ended first, whatever the command makes of the stop and whatever is
\* asked later.  A stop is recorded for no other reason but in a late timeout,
\* and for a request only if the dispatcher made it.  A run that is recorded as
\* succeeded was never asked to stop, and its output was read to the end
\* (execute, stop).
StoppedForReason ==
  /\ BegunToStop => outcome \in {"none", ctx}
  /\ outcome \in Stops => outcome = ctx \/ LateTimeout
  /\ outcome \in {"user", "replaced", "shutdown"} => request = outcome \/ LateTimeout
  /\ outcome = "succeeded" => ~BegunToStop /\ ~closed /\ leader = "zero"

\* The two contexts agree on why the run is stopped.
ContextsAgree ==
  /\ request # "none" => ctx # "live"
  /\ ctx \notin {"live", "timeout"} => ctx = request
  /\ BegunToStop \/ watcher \in {"stop", "delay", "hand"} => ctx # "live"

\* Where the goroutine of os/exec is, given where execute is.
GoroutinesAgree ==
  /\ watcher = "off" <=> pc \notin {"wait", "result"}
  /\ watcher = "watch" => ~BegunToStop
  /\ watcher = "stop" => ~asked /\ stopCmd # "ready"
  /\ watcher \in {"delay", "hand"} => asked
  /\ stopCmd = "running" => watcher = "stop"

\* What the processes may have gone through by then.
ProcessesAgree ==
  /\ pc = "start" => leader = "none" /\ ~BegunToStop
  /\ leader = "none" => pc \in {"start", "done"} /\ \A c \in Children : child[c] = "none"
  /\ pc \in {"result", "drain", "sweep", "classify", "cause", "done"} => leader # "running"
  /\ (pc \in {"classify", "cause", "done"} /\ BegunToStop) =>
       \A c \in Children \ apart : ~Running(c)
  /\ (\E c \in Children : child[c] = "killed") =>
       pc \in {"classify", "cause", "done"} /\ leader # "running"
  /\ closed => delayed \/ asked

\* The status that the run ended with fits what was asked of it.
OutcomeAgrees ==
  /\ outcome = "none" <=> pc # "done"
  /\ pc = "cause" /\ BegunToStop => ctx # "timeout"
  /\ outcome \in {"succeeded", "exit_code", "wait_failed"} => ctx = "live"
  /\ StoppedForReason

\* The inductive invariant behind the properties above: the two contexts, the two
\* goroutines, the processes and the outcome never contradict each other,
\* whichever of them moves first (execute, Cmd.Wait, Cmd.watchCtx).
CommandInv ==
  /\ CommandTypeOK
  /\ ContextsAgree /\ GoroutinesAgree /\ ProcessesAgree /\ OutcomeAgrees /\ KilledInOrder

StatusOf ==
  CASE outcome = "none"      -> "none"
    [] outcome = "succeeded" -> "succeeded"
    [] outcome = "shutdown"  -> "interrupted"
    [] outcome \in {"user", "replaced"} -> "canceled"
    [] OTHER -> "failed"

Contract == INSTANCE RunContract WITH
  reason <- IF ctx = "live" THEN "none" ELSE ctx,
  status <- StatusOf

\* The dispatcher sees the command as RunContract: it ends once, with a status
\* that fits what ended its context first (execute, finish).
ImplementsContract == Contract!ContractSpec

\* Every run whose command ended or that was asked to stop comes to its end,
\* though the command ignores SIGTERM, the stop command hangs, and other
\* processes keep the output open for ever (execute, Cmd.Wait).
RunsReturn == (leader \notin {"none", "running"} \/ ctx # "live") ~> (pc = "done")
=============================================================================
