----------------------------- MODULE MCTriggers -----------------------------
(***************************************************************************)
(* What fires an event, and with what, for TLC: Cron, Wake, Webhook,       *)
(* AfterCycle and Params.  They share no state; each behaviour follows one *)
(* of them, and the other parts stay as they begin.                        *)
(***************************************************************************)
EXTENDS Cron, Wake, Webhook, AfterCycle, Params

CONSTANTS ref, tag   \* two parameters

\* The last definition is one that validate refuses.
Definitions ==
  LET Def(r, t, restarts, triggers) ==
        [declares |-> [p \in {ref, tag} |-> IF p = ref THEN r ELSE t],
         restarts |-> restarts, triggers |-> triggers]
  IN  {Def("optional", "no", FALSE, {"manual", "webhook", "other"}),
       Def("required", "optional", TRUE, {"manual", "webhook"}),
       Def("no", "required", FALSE, {"webhook", "other"})}

VARIABLE part   \* the part that this behaviour follows

triggerVars == <<part, vars, wakeVars, hookVars, cycleVars, paramVars>>

\* One way to begin is enough for a part that is not followed.
TriggersInit ==
  /\ part \in {"cron", "wake", "webhook", "cycle", "params"}
  /\ Init /\ (part # "cron" => clock = 1)
  /\ WakeInit
  /\ WebhookInit /\ (part # "webhook" => inEffect = "wait")
  /\ CycleInit /\ (part # "cycle" => \A n \in Names : follows[n] = {})
  /\ ParamsInit /\ (part # "params" => inUse.restarts)

CronStep(A) == part = "cron" /\ A /\ UNCHANGED <<part, wakeVars, hookVars, cycleVars, paramVars>>
WakeStep == part = "wake" /\ WakeNext /\ UNCHANGED <<part, vars, hookVars, cycleVars, paramVars>>
WebhookStep(A) == part = "webhook" /\ A /\ UNCHANGED <<part, vars, wakeVars, cycleVars, paramVars>>
CycleStep == part = "cycle" /\ CycleNext /\ UNCHANGED <<part, vars, wakeVars, hookVars, paramVars>>
ParamsStep == part = "params" /\ ParamsNext /\ UNCHANGED <<part, vars, wakeVars, hookVars, cycleVars>>

TriggersNext == CronStep(Next) \/ WakeStep \/ WebhookStep(WebhookNext) \/ CycleStep \/ ParamsStep

\* The fairness of FairSpec of Cron and of Webhook, for the behaviours that follow
\* those parts.
TriggersFairness ==
  /\ WF_triggerVars(CronStep(Scheduler)) /\ WF_triggerVars(CronStep(Return))
  /\ WF_triggerVars(CronStep(stage = "ended" /\ StartScheduler))
  /\ WF_triggerVars(WebhookStep(Shutdown))

TriggersSpec == TriggersInit /\ [][TriggersNext]_triggerVars /\ TriggersFairness
=============================================================================
