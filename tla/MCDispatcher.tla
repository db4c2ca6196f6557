---------------------------- MODULE MCDispatcher ----------------------------
(* Small instances of the dispatcher for TLC. *)
EXTENDS DispatcherProperties

CONSTANTS build, deploy   \* two events

Never == [e \in Events |-> {}]

Def(concurrency, restart, follows) ==
  [concurrency |-> concurrency, onInterrupt |-> "rerun", maxAttempts |-> 2,
   restart |-> restart, follows |-> follows]

\* deploy follows build: its after trigger fires on what a run of build usually
\* ends with, and on abandoned, with which only recovery ends a run.
Follows == [Never EXCEPT ![build] = {"succeeded", "canceled", "abandoned"}]
FollowConfig ==
  {[e \in {build, deploy} |-> IF e = build THEN Def("skip", "never", Never)
                                          ELSE Def("queue", "never", Follows)]}

\* The replaced and the queued: deploy follows the runs of build that others replace.
Replaced == [Never EXCEPT ![build] = {"canceled"}]
ChainConfig ==
  {[e \in {build, deploy} |-> IF e = build THEN Def("replace", "never", Never)
                                          ELSE Def("queue", "never", Replaced)]}

\* One event whose definition a reload changes: every policy, with a restart that
\* another definition disables, and no definition at all.
NoEvent == [e \in {} |-> Def("skip", "never", Never)]
ReloadConfigs ==
  {NoEvent} \cup
  {[e \in {build} |-> Def(p, IF p = "skip" THEN "on-failure" ELSE "never", Never)] :
     p \in Policies}

QueueConfig == {[e \in {build} |-> Def("queue", "never", Never)]}

\* The same policies without restarts, and a queue with them.
CallerConfigs == {NoEvent} \cup {[e \in {build} |-> Def(p, "never", Never)] : p \in Policies}
RestartConfig == {[e \in {build} |-> Def("queue", "on-failure", Never)]}

\* Three scenes of the live dispatcher: build fires from other processes and deploy
\* follows it; build fires from other processes and is restarted; webhook callers wait
\* for runs of build while reloads change its definition or remove it.
LiveConfigs == ChainConfig \cup RestartConfig \cup CallerConfigs

\* The runs whose restart is still to be inserted.
RestartsDue == {i \in Ids : out[i] = "failed" /\ pc[i] # "poke"}

\* The scenes do not mix, and no restart finds the table full.
Scenes ==
  \/ /\ specs \in ChainConfig /\ UNCHANGED <<specs, waiters, answered>>
     /\ \A i \in InStatus(runs', {"queued"}) : runs'[i].kind = "fire" => runs'[i].event = build
  \/ /\ specs \in RestartConfig /\ UNCHANGED <<specs, waiters, answered>>
     /\ \A i \in InStatus(runs', {"queued"}) : runs'[i].event = build
     /\ lastId' + Cardinality(RestartsDue') <= MaxRuns
  \/ /\ specs \in CallerConfigs /\ specs' \in CallerConfigs
     /\ lastId' # lastId => waiters' # waiters \/ answered' # answered

LiveSpec == Init /\ [][Next /\ Scenes]_vars /\ Fairness
=============================================================================
