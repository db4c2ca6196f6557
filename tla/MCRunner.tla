------------------------------ MODULE MCRunner ------------------------------
(***************************************************************************)
(* The parts that run a command, for TLC.  Command, Output, WaitRun and    *)
(* Backoff share no state; each behaviour follows one of them, and the     *)
(* other parts stay as they begin.                                         *)
(***************************************************************************)
EXTENDS Command, Output, WaitRun, Backoff

CONSTANTS Web, Job,        \* two runs that write to the same file
          WebOut, JobOut   \* their streams

VARIABLE part   \* the part that this behaviour follows

runnerVars == <<part, commandVars, outputVars, waitVars, backoffVars>>

RunnerStreams == {WebOut, JobOut}
RunnerRunOf == [s \in RunnerStreams |-> IF s = WebOut THEN Web ELSE Job]
RunnerSettings == {<<1, 5>>, <<2, 2>>, <<3, 9>>}

RunnerInit ==
  /\ part \in {"command", "output", "wait", "backoff"}
  /\ CommandInit /\ OutputInit /\ WaitInit /\ BackoffInit
  \* One way to begin is enough for the parts that are not followed.
  /\ part # "command" => stopCmd = "absent"
  /\ part # "backoff" => setting = <<1, 5>>

CommandStep(A) == part = "command" /\ A /\ UNCHANGED <<part, outputVars, waitVars, backoffVars>>
OutputStep  == part = "output" /\ OutputNext /\ UNCHANGED <<part, commandVars, waitVars, backoffVars>>
WaitStep(A) == part = "wait" /\ A /\ UNCHANGED <<part, commandVars, outputVars, backoffVars>>
BackoffStep == part = "backoff" /\ BackoffNext /\ UNCHANGED <<part, commandVars, outputVars, waitVars>>

RunnerNext == CommandStep(CommandNext) \/ OutputStep \/ WaitStep(WaitNext) \/ BackoffStep

\* CommandFairness and WaitFairness, for the behaviours that follow those parts.
RunnerFairness ==
  /\ WF_runnerVars(CommandStep(Execute)) /\ WF_runnerVars(CommandStep(StopGoroutine))
  /\ WF_runnerVars(WaitStep(GetRun)) /\ WF_runnerVars(WaitStep(Tick))
  /\ SF_runnerVars(WaitStep(RetryOf))

RunnerSpec == RunnerInit /\ [][RunnerNext]_runnerVars /\ RunnerFairness
=============================================================================
