----------------------------- MODULE AgentProofs -----------------------------
(***************************************************************************)
(* Proofs about the agent, for every bound on what happens to it, and of   *)
(* the search for cycles in the configuration that it loads.               *)
(***************************************************************************)
EXTENDS Agent, AfterCycle, TLAPS

\* Where Run is while the triggers are off: before they start, after stop, and,
\* after one failed, until the next configuration.
TriggersOff ==
  /\ pc \in {"boot", "start", "switch", "gone"} => status["trigger"] = "off"
  /\ failed /\ pc \in {"wait", "readMain", "readLinked"} => status["trigger"] = "off"
  /\ pc \in {"boot", "start"} => ~failed

\* A save of f is on its way to the loop, or was seen by no watch.
Noticed(f) ==
  \/ token \/ f \in unseen
  \/ f = "main" /\ f \in queued["config"] \cup pending["config"]
  \/ f = "linked" /\ f \in queued["links"] \cup pending["links"]

\* A file that Run has read is the one on disk, or was noticed since; and where Run
\* has nothing in hand, so is the configuration in force, if the disk holds a valid
\* one.  This speaks of a linked file only while stopLinks discarded no save of it.
ReadOrNoticed ==
  ~ended =>
    /\ pc = "readLinked" => next["main"] = disk["main"] \/ Noticed("main")
    /\ pc \in {"stopTriggers", "switch"} => \A f \in Kept : next[f] = disk[f] \/ Noticed(f)
    /\ pc \in {"boot", "start", "wait", "failing", "shutdown"} =>
         \/ \A f \in Kept : cfg[f] = disk[f]
         \/ \E f \in Files : ~disk[f].valid \/ Noticed(f)

\* The trigger knows of every directory that it does not watch, and of every change.
Listed(p) == p \in queued["trigger"] \cup pending["trigger"]

ChangesListed ==
  /\ status["trigger"] # "on" => unfired = {} /\ walk = "none"
  /\ status["trigger"] = "on" /\ "dir" \in tree /\ ~inner =>
       walk = "found" \/ "dir" \in queued["trigger"]
  /\ "dir" \in unfired => Listed("dir") \/ walk # "none"
  /\ "file" \in unfired =>
       \/ Listed("file")
       \/ "file" \in tree /\ (walk # "none" \/ "dir" \in queued["trigger"])

IInv == TypeOK /\ TriggersOff /\ ReadOrNoticed /\ ChangesListed

\* What happens to the agent.
Env == Save("main") \/ Save("linked") \/ MakeDir \/ WriteFile \/ RemoveFile \/ RemoveDir
         \/ Hangup \/ Stop

LEMMA InitIInv == ASSUME Init PROVE IInv
<1> USE DEF Init, Files, Watchers, Tree
<1>1. TypeOK
  <2>1. disk \in Config BY DEF Config
  <2>2. queued \in [Watchers -> SUBSET (Files \cup Tree)] OBVIOUS
  <2>3. status \in [Watchers -> {"off", "starting", "on"}] OBVIOUS
  <2>4. inputs \in 0 .. MaxInputs BY AgentAssumption
  <2>5. unfired \subseteq Tree /\ unseen \subseteq Files /\ discarded \in BOOLEAN OBVIOUS
  <2>6. cfg \in Config /\ next \in Config /\ pending \in [Watchers -> SUBSET (Files \cup Tree)]
    BY <2>1, <2>2
  <2> HIDE DEF Files, Watchers, Tree
  <2>7. tree \in {{}, {"dir"}, Tree} OBVIOUS
  <2> QED BY <2>1, <2>2, <2>3, <2>4, <2>5, <2>6, <2>7 DEF TypeOK
<1>2. TriggersOff BY DEF TriggersOff
<1>3. ReadOrNoticed BY DEF ReadOrNoticed
<1>4. ChangesListed BY DEF ChangesListed
<1> QED BY <1>1, <1>2, <1>3, <1>4 DEF IInv

LEMMA NextCases ==
  ASSUME Next
  PROVE Env \/ Run \/ Walk \/ LastFlush \/ LastQuit \/ OpenFails
          \/ \E w \in Watchers : \/ Open(w) \/ Flush(w) \/ Quit(w)
                               \/ \E p \in PathsOf(w) : Take(w, p)
BY DEF Next, Env, Watch, Files

-----------------------------------------------------------------------------
\* The types

LEMMA PathsTyped == ASSUME NEW w \in Watchers PROVE PathsOf(w) \subseteq Files \cup Tree
BY DEF PathsOf, Watchers, Files, Tree

LEMMA ChangeTypes ==
  ASSUME TypeOK, NEW paths \in SUBSET Tree, NEW tree2 \in {{}, {"dir"}, Tree}, Change(paths, tree2)
  PROVE TypeOK'
<1> USE DEF Change, agentVars
<1>1. queued' \in [Watchers -> SUBSET (Files \cup Tree)] BY DEF TypeOK, Watchers, Tree
<1>2. inputs' \in 0 .. MaxInputs BY AgentAssumption DEF TypeOK
<1>3. unfired' \subseteq Tree BY DEF TypeOK
<1>4. inner' \in BOOLEAN BY DEF TypeOK
<1> QED BY <1>1, <1>2, <1>3, <1>4 DEF TypeOK

LEMMA EnvTypes == ASSUME TypeOK, Env PROVE TypeOK'
<1>1. ASSUME NEW f \in Files, Save(f) PROVE TypeOK'
  <2>1. disk' \in Config
    <3>1. PICK v \in BOOLEAN : disk' = [disk EXCEPT ![f] = [version |-> @.version + 1, valid |-> v]]
      BY <1>1 DEF Save
    <3>2. disk[f].version + 1 \in Nat BY DEF TypeOK, Config
    <3> QED BY <3>1, <3>2 DEF TypeOK, Config
  <2>2. queued' \in [Watchers -> SUBSET (Files \cup Tree)] BY <1>1 DEF Save, TypeOK, Watchers, Files
  <2>3. inputs' \in 0 .. MaxInputs BY <1>1, AgentAssumption DEF Save, TypeOK
  <2>4. unseen' \subseteq Files /\ discarded' \in BOOLEAN BY <1>1 DEF Save, TypeOK
  <2> QED BY <1>1, <2>1, <2>2, <2>3, <2>4 DEF Save, TypeOK, agentVars
<1>2. CASE MakeDir BY <1>2, ChangeTypes DEF MakeDir, Tree
<1>3. CASE WriteFile BY <1>3, ChangeTypes DEF WriteFile, Tree
<1>4. CASE RemoveFile BY <1>4, ChangeTypes DEF RemoveFile, Tree
<1>5. CASE RemoveDir
  <2>1. tree \subseteq Tree BY DEF TypeOK, Tree
  <2> QED BY <1>5, <2>1, ChangeTypes DEF RemoveDir
<1>6. CASE Hangup BY <1>6, AgentAssumption DEF Hangup, TypeOK, watchVars, history
<1>7. CASE Stop BY <1>7 DEF Stop, TypeOK, watchVars, treeVars, history
<1> QED BY <1>1, <1>2, <1>3, <1>4, <1>5, <1>6, <1>7 DEF Env, Files

LEMMA WatcherTypes ==
  ASSUME TypeOK, NEW w \in Watchers,
         Open(w) \/ Flush(w) \/ Quit(w) \/ \E p \in PathsOf(w) : Take(w, p)
  PROVE TypeOK'
<1>1. CASE Open(w)
  <2>1. inner \in BOOLEAN /\ ("dir" \in tree) \in BOOLEAN BY DEF TypeOK
  <2>2. inner' = IF w = "trigger" THEN "dir" \in tree ELSE inner BY <1>1 DEF Open
  <2>3. inner' \in BOOLEAN
    <3>1. CASE w = "trigger"
      <4>1. inner' = ("dir" \in tree) BY <2>2, <3>1, Zenon
      <4> QED BY <2>1, <4>1, Zenon
    <3>2. CASE w # "trigger"
      <4>1. inner' = inner BY <2>2, <3>2, Zenon
      <4> QED BY <2>1, <4>1, Zenon
    <3> QED BY <3>1, <3>2
  <2> QED BY <1>1, <2>3 DEF Open, TypeOK, agentVars, history
<1>2. CASE Flush(w) BY <1>2 DEF Flush, TypeOK, treeVars
<1>3. CASE Quit(w)
  <2>1. inner' \in BOOLEAN /\ unfired' \subseteq Tree BY <1>3 DEF Quit, TypeOK
  <2>2. queued' \in [Watchers -> SUBSET (Files \cup Tree)]
        /\ pending' \in [Watchers -> SUBSET (Files \cup Tree)] BY <1>3 DEF Quit, TypeOK
  <2>3. status' \in [Watchers -> {"off", "starting", "on"}] BY <1>3 DEF Quit, TypeOK
  <2> QED BY <1>3, <2>1, <2>2, <2>3 DEF Quit, TypeOK, agentVars
<1>4. ASSUME NEW p \in PathsOf(w), Take(w, p) PROVE TypeOK'
  <2>1. queued' \in [Watchers -> SUBSET (Files \cup Tree)] BY <1>4 DEF Take, TypeOK
  <2>2. pending' \in [Watchers -> SUBSET (Files \cup Tree)]
    BY <1>4, PathsTyped DEF Take, Collect, TypeOK
  <2> QED BY <1>4, <2>1, <2>2 DEF Take, TypeOK, agentVars, treeVars, history
<1> QED BY <1>1, <1>2, <1>3, <1>4

LEMMA OtherTypes == ASSUME TypeOK, Walk \/ LastFlush \/ LastQuit \/ OpenFails PROVE TypeOK'
<1>1. CASE AddDir
  <2>1. inner' \in BOOLEAN BY <1>1 DEF AddDir, TypeOK
  <2>2. pending' \in [Watchers -> SUBSET (Files \cup Tree)]
    BY <1>1 DEF AddDir, Collect, TypeOK, Tree, Watchers
  <2> QED BY <1>1, <2>1, <2>2 DEF AddDir, TypeOK, agentVars, history
<1>2. CASE ReadDir BY <1>2 DEF ReadDir, Collect, TypeOK, agentVars, treeVars, history, Tree, Watchers
<1>3. CASE LastFlush
  <2>1. token' \in BOOLEAN /\ leaving' \in BOOLEAN BY <1>3 DEF LastFlush
  <2>2. UNCHANGED <<disk, cfg, next, pc, first, failed, errs, ended, stopped, status, queued,
                    pending, walk, inner, inputs, tree, history>>
    BY <1>3 DEF LastFlush, watchVars, treeVars
  <2> QED BY <2>1, <2>2 DEF TypeOK, history
<1>4. CASE LastQuit
  <2>1. leaving' \in BOOLEAN BY <1>4 DEF LastQuit
  <2> QED BY <1>4, <2>1 DEF LastQuit, TypeOK, watchVars, treeVars, history
<1>5. CASE OpenFails BY <1>5 DEF OpenFails, TypeOK, treeVars, history, Watchers
<1> QED BY <1>1, <1>2, <1>3, <1>4, <1>5 DEF Walk

LEMMA RunTypes == ASSUME TypeOK, Run PROVE TypeOK'
<1> USE DEF TypeOK, watchVars, treeVars, history
<1>1. CASE WatchConfig BY <1>1 DEF WatchConfig, Watchers
<1>2. CASE StartTriggers
  <2>1. /\ pc' = "wait" /\ stopped' \in BOOLEAN /\ errs' \in BOOLEAN
        /\ status' \in [Watchers -> {"off", "starting", "on"}]
    BY <1>2 DEF StartTriggers, Watchers
  <2>2. UNCHANGED <<disk, cfg, next, first, failed, token, ended, leaving, queued, pending,
                    walk, inner, inputs, tree, history>>
    BY <1>2 DEF StartTriggers
  <2> QED BY <2>1, <2>2
<1>3. CASE TakeRequest
  <2>1. token' \in BOOLEAN /\ pc' = "readMain" BY <1>3 DEF TakeRequest
  <2>2. UNCHANGED <<disk, cfg, next, first, failed, errs, ended, stopped, leaving, status,
                    queued, pending, walk, inner, inputs, tree, history>>
    BY <1>3 DEF TakeRequest
  <2> QED BY <2>1, <2>2
<1>4. CASE TakeFailure BY <1>4 DEF TakeFailure
<1>5. CASE TakeEnd BY <1>5 DEF TakeEnd
<1>6. CASE ReadMain BY <1>6 DEF ReadMain, Config, Files
<1>7. CASE ReadLinked
  <2>1. [next EXCEPT !["linked"] = disk["linked"]] \in Config BY DEF Config, Files
  <2>2. next' \in Config /\ stopped' \in BOOLEAN BY <1>7, <2>1 DEF ReadLinked
  <2>3. pc' \in {"switch", "shutdown", "stopTriggers", "wait"} BY <1>7 DEF ReadLinked
  <2> QED BY <1>7, <2>2, <2>3 DEF ReadLinked
<1>8. CASE TriggersStopped BY <1>8 DEF TriggersStopped
<1>9. CASE Exit BY <1>9 DEF Exit
<1>10. CASE Switch
  <2>1. leaving' \in BOOLEAN BY <1>10 DEF Switch
  <2>2. unseen' \subseteq Files /\ discarded' \in BOOLEAN BY <1>10 DEF Switch
  <2> QED BY <1>10, <2>1, <2>2 DEF Switch, Watchers
<1> QED BY <1>1, <1>2, <1>3, <1>4, <1>5, <1>6, <1>7, <1>8, <1>9, <1>10 DEF Run

LEMMA NextTypes == ASSUME TypeOK, Next PROVE TypeOK'
BY NextCases, EnvTypes, WatcherTypes, OtherTypes, RunTypes

-----------------------------------------------------------------------------
\* The triggers

LEMMA OffStays ==
  ASSUME TypeOK, TriggersOff, Next PROVE TriggersOff'
<1> USE DEF TriggersOff
<1>1. CASE Env
  <2>1. pc' = pc /\ failed' = failed /\ status' = status
    BY <1>1 DEF Env, Save, MakeDir, WriteFile, RemoveFile, RemoveDir, Change, Hangup, Stop,
                agentVars, watchVars
  <2> QED BY <2>1
<1>2. CASE Run
  <2>1. CASE WatchConfig BY <2>1 DEF WatchConfig, TypeOK, Watchers
  <2>2. CASE StartTriggers BY <2>2 DEF StartTriggers
  <2>3. CASE TakeRequest \/ TakeFailure \/ TakeEnd
    BY <2>3 DEF TakeRequest, TakeFailure, TakeEnd, watchVars
  <2>4. CASE ReadMain \/ ReadLinked BY <2>4 DEF ReadMain, ReadLinked, watchVars
  <2>5. CASE TriggersStopped BY <2>5 DEF TriggersStopped, watchVars
  <2>6. CASE Exit BY <2>6 DEF Exit, Watchers
  <2>7. CASE Switch BY <2>7 DEF Switch, TypeOK, Watchers
  <2> QED BY <1>2, <2>1, <2>2, <2>3, <2>4, <2>5, <2>6, <2>7 DEF Run
<1>3. CASE Walk \/ LastFlush \/ LastQuit
  BY <1>3 DEF Walk, AddDir, ReadDir, LastFlush, LastQuit, agentVars, watchVars
<1>4. CASE OpenFails BY <1>4 DEF OpenFails, TypeOK, Watchers
<1>5. ASSUME NEW w \in Watchers, Open(w) \/ Flush(w) \/ Quit(w) PROVE TriggersOff'
  <2>1. status["trigger"] = "off" => status'["trigger"] = "off"
    BY <1>5 DEF Open, Flush, Quit, TypeOK, Watchers
  <2>2. pc' = pc /\ failed' = failed BY <1>5 DEF Open, Flush, Quit, agentVars
  <2> QED BY <2>1, <2>2
<1>6. ASSUME NEW w \in Watchers, NEW p \in PathsOf(w), Take(w, p) PROVE TriggersOff'
  BY <1>6 DEF Take, agentVars
<1> QED BY NextCases, <1>1, <1>2, <1>3, <1>4, <1>5, <1>6

-----------------------------------------------------------------------------
\* The configuration

\* What was noticed stays so until a request is taken or the loop starts over.
LEMMA NoticedStays ==
  ASSUME TypeOK, NEW w \in Watchers, NEW f \in Files, Noticed(f), ~ended,
         Open(w) \/ Flush(w) \/ (Quit(w) /\ w = "trigger") \/ \E p \in PathsOf(w) : Take(w, p)
  PROVE Noticed(f)'
<1> USE DEF Noticed, Files, Watchers, TypeOK
<1>1. CASE Open(w) BY <1>1 DEF Open, agentVars, history
<1>2. CASE Flush(w)
  <2>1. unseen' = unseen /\ queued' = queued BY <1>2 DEF Flush
  <2>2. CASE w = "trigger" BY <1>2, <2>1, <2>2 DEF Flush
  <2>3. CASE w # "trigger" BY <1>2, <2>3 DEF Flush
  <2> QED BY <2>2, <2>3
<1>3. CASE Quit(w) /\ w = "trigger" BY <1>3 DEF Quit, agentVars
<1>4. ASSUME NEW p \in PathsOf(w), Take(w, p) PROVE Noticed(f)'
  <2>1. unseen' = unseen /\ token' = token BY <1>4 DEF Take, agentVars, history
  <2>2. p # "dir" => \A v \in Watchers : queued[v] \cup pending[v] \subseteq queued'[v] \cup pending'[v]
    BY <1>4 DEF Take, Collect
  <2>3. p = "dir" => w = "trigger" BY DEF PathsOf
  <2>4. w = "trigger" => \A v \in {"config", "links"} : queued'[v] = queued[v] /\ pending'[v] = pending[v]
    BY <1>4 DEF Take, Collect
  <2> QED BY <2>1, <2>2, <2>3, <2>4
<1> QED BY <1>1, <1>2, <1>3, <1>4

LEMMA EnvReads == ASSUME TypeOK, ReadOrNoticed, Env PROVE ReadOrNoticed'
<1>1. ASSUME NEW f \in Files, Save(f) PROVE ReadOrNoticed'
  <2>1. Noticed(f)' BY <1>1 DEF Save, Noticed, TypeOK, Watchers, Files
  <2>2. \A g \in Files : Noticed(g) => Noticed(g)'
    BY <1>1 DEF Save, Noticed, TypeOK, Watchers, Files, agentVars
  <2>3. \A g \in Files \ {f} : disk'[g] = disk[g] BY <1>1 DEF Save, TypeOK, Config
  <2>4. UNCHANGED <<cfg, next, pc, ended>> BY <1>1 DEF Save, agentVars
  <2>5. Kept \subseteq Files /\ Kept' \subseteq Kept \cup {f} BY <1>1 DEF Save, Kept, Files
  <2> QED BY <2>1, <2>2, <2>3, <2>4, <2>5 DEF ReadOrNoticed, Files
<1>2. CASE MakeDir \/ WriteFile \/ RemoveFile \/ RemoveDir
  <2>1. UNCHANGED <<disk, cfg, next, pc, ended, token, unseen, pending, discarded>>
    BY <1>2 DEF MakeDir, WriteFile, RemoveFile, RemoveDir, Change, agentVars
  <2>2. queued'["config"] = queued["config"] /\ queued'["links"] = queued["links"]
    BY <1>2 DEF MakeDir, WriteFile, RemoveFile, RemoveDir, Change, TypeOK, Watchers
  <2> QED BY <2>1, <2>2 DEF ReadOrNoticed, Noticed, Kept
<1>3. CASE Hangup BY <1>3 DEF Hangup, ReadOrNoticed, Noticed, Kept, watchVars, history
<1>4. CASE Stop BY <1>4 DEF Stop, ReadOrNoticed
<1> QED BY <1>1, <1>2, <1>3, <1>4 DEF Env, Files

LEMMA WatcherReads ==
  ASSUME TypeOK, ReadOrNoticed, NEW w \in Watchers,
         Open(w) \/ Flush(w) \/ Quit(w) \/ \E p \in PathsOf(w) : Take(w, p)
  PROVE ReadOrNoticed'
<1>1. UNCHANGED <<disk, cfg, next, pc, ended, discarded>>
  BY DEF Open, Flush, Quit, Take, agentVars, history
<1>2. CASE ended BY <1>1, <1>2 DEF ReadOrNoticed
<1>3. CASE ~ended
  <2>1. Quit(w) => w = "trigger" BY <1>3 DEF Quit, ContextEnded
  <2>2. \A f \in Files : Noticed(f) => Noticed(f)' BY <1>3, <2>1, NoticedStays
  <2> QED BY <1>1, <2>2 DEF ReadOrNoticed, Kept, Files
<1> QED BY <1>2, <1>3

LEMMA OtherReads ==
  ASSUME TypeOK, ReadOrNoticed, Walk \/ LastFlush \/ LastQuit \/ OpenFails PROVE ReadOrNoticed'
<1>1. UNCHANGED <<disk, cfg, next, pc, ended, queued, unseen, discarded>>
  BY DEF Walk, AddDir, ReadDir, LastFlush, LastQuit, OpenFails, agentVars, watchVars, history
<1>2. token => token'
  BY DEF Walk, AddDir, ReadDir, LastFlush, LastQuit, OpenFails, agentVars
<1>3. pending'["config"] = pending["config"] /\ pending'["links"] = pending["links"]
  BY DEF Walk, AddDir, ReadDir, Collect, LastFlush, LastQuit, OpenFails, watchVars, TypeOK, Watchers
<1> QED BY <1>1, <1>2, <1>3 DEF ReadOrNoticed, Noticed, Kept

LEMMA RunReads == ASSUME TypeOK, ReadOrNoticed, Run PROVE ReadOrNoticed'
<1> USE DEF ReadOrNoticed
<1>1. CASE WatchConfig BY <1>1 DEF WatchConfig, Noticed, Kept, history
<1>2. CASE StartTriggers BY <1>2 DEF StartTriggers, Noticed, Kept, history
<1>3. CASE TakeRequest BY <1>3 DEF TakeRequest
<1>4. CASE TakeFailure BY <1>4 DEF TakeFailure, Noticed, Kept, watchVars, history
<1>5. CASE TakeEnd BY <1>5 DEF TakeEnd
<1>6. CASE ReadMain BY <1>6 DEF ReadMain, TypeOK, Config, Files
<1>7. CASE ReadLinked
  <2>1. \A f \in Files : Noticed(f)' = Noticed(f)
    BY <1>7 DEF ReadLinked, Noticed, watchVars, history
  <2>2. DEFINE read == [next EXCEPT !["linked"] = disk["linked"]]
  <2>3. ~ended => \A f \in Files : read[f] = disk[f] \/ Noticed(f)
    BY <1>7 DEF ReadLinked, TypeOK, Config, Files
  <2>4. UNCHANGED <<disk, cfg, ended>> /\ pc = "readLinked" BY <1>7 DEF ReadLinked
  <2>7. Kept' \subseteq Files BY DEF Kept, Files
  <2>5. CASE \A f \in Files : read[f].valid
    <3>1. next' = read /\ pc' \in {"switch", "shutdown", "stopTriggers"}
          /\ (pc' = "shutdown" => ended)
      BY <1>7, <2>5 DEF ReadLinked
    <3> QED BY <2>1, <2>3, <2>4, <2>7, <3>1
  <2>6. CASE ~\A f \in Files : read[f].valid
    <3>1. pc' = "wait" BY <1>7, <2>6 DEF ReadLinked
    <3>2. PICK f \in Files : ~read[f].valid BY <2>6
    <3> QED BY <2>1, <2>3, <2>4, <3>1, <3>2
  <2> QED BY <2>5, <2>6
<1>8. CASE TriggersStopped BY <1>8 DEF TriggersStopped, Noticed, Kept, watchVars, history
<1>9. CASE Exit BY <1>9 DEF Exit
<1>10. CASE Switch
  <2>1. UNCHANGED <<disk, ended, token>> /\ cfg' = next /\ pc' = "start" /\ pc = "switch"
    BY <1>10 DEF Switch
  <2>2. ASSUME ~ended, NEW f \in Kept', next[f] # disk[f] PROVE Noticed(f)' /\ f \in Files
    <3>1. f \in Files /\ (f = "linked" => ~discarded') BY <2>2 DEF Kept, Files
    <3>2. f = "linked" => ~discarded /\ "linked" \notin queued["links"] \cup pending["links"]
      BY <1>10, <2>2, <3>1 DEF Switch
    <3>3. f \in Kept BY <3>1, <3>2 DEF Kept
    <3>4. Noticed(f) BY <2>1, <2>2, <3>3
    <3>5. f \in unseen => f \in unseen' BY <1>10, <2>1, <2>2, <3>1 DEF Switch
    <3>6. token' = token /\ queued'["config"] = queued["config"]
          /\ pending'["config"] = pending["config"] BY <1>10 DEF Switch, TypeOK, Watchers
    <3> QED BY <3>1, <3>2, <3>4, <3>5, <3>6 DEF Noticed, Files
  <2> QED BY <2>1, <2>2
<1> QED BY <1>1, <1>2, <1>3, <1>4, <1>5, <1>6, <1>7, <1>8, <1>9, <1>10 DEF Run

-----------------------------------------------------------------------------
\* The changes under the trigger

LEMMA EnvLists == ASSUME TypeOK, ChangesListed, Env PROVE ChangesListed'
<1> USE DEF ChangesListed, Listed
<1>1. ASSUME NEW f \in Files, Save(f) PROVE ChangesListed'
  <2>1. queued'["trigger"] = queued["trigger"] BY <1>1 DEF Save, TypeOK, Watchers, Files
  <2> QED BY <1>1, <2>1 DEF Save
<1>2. CASE MakeDir
  BY <1>2 DEF MakeDir, Change, TypeOK, Watchers, Tree
<1>3. CASE WriteFile
  BY <1>3 DEF WriteFile, Change, TypeOK, Watchers, Tree
<1>4. CASE RemoveFile
  BY <1>4 DEF RemoveFile, Change, TypeOK, Watchers, Tree
<1>5. CASE RemoveDir
  BY <1>5 DEF RemoveDir, Change, TypeOK, Watchers, Tree
<1>6. CASE Hangup BY <1>6 DEF Hangup, watchVars, history
<1>7. CASE Stop BY <1>7 DEF Stop, watchVars, treeVars, history
<1> QED BY <1>1, <1>2, <1>3, <1>4, <1>5, <1>6, <1>7 DEF Env, Files

LEMMA WatcherLists ==
  ASSUME TypeOK, ChangesListed, NEW w \in Watchers,
         Open(w) \/ Flush(w) \/ Quit(w) \/ \E p \in PathsOf(w) : Take(w, p)
  PROVE ChangesListed'
<1> USE DEF ChangesListed, Listed
<1>1. CASE Open(w) BY <1>1 DEF Open, history, TypeOK, Watchers
<1>2. CASE Flush(w)
  <2>1. CASE w = "trigger" BY <1>2, <2>1 DEF Flush, treeVars, TypeOK, Watchers
  <2>2. CASE w # "trigger"
    <3>1. pending'["trigger"] = pending["trigger"] BY <1>2, <2>2 DEF Flush, TypeOK, Watchers
    <3> QED BY <1>2, <3>1 DEF Flush, treeVars
  <2> QED BY <2>1, <2>2
<1>3. CASE Quit(w) BY <1>3 DEF Quit, TypeOK, Watchers
<1>4. ASSUME NEW p \in PathsOf(w), Take(w, p) PROVE ChangesListed'
  <2>1. CASE w # "trigger"
    <3>1. p # "dir" BY <2>1 DEF PathsOf, Watchers
    <3>2. queued'["trigger"] = queued["trigger"] /\ pending'["trigger"] = pending["trigger"]
      BY <1>4, <2>1, <3>1 DEF Take, Collect, TypeOK, Watchers
    <3> QED BY <1>4, <3>1, <3>2 DEF Take, treeVars, history
  <2>2. CASE w = "trigger" /\ p = "dir" /\ "dir" \in tree
    BY <1>4, <2>2 DEF Take, treeVars, history, TypeOK, Watchers, Tree
  <2>3. CASE w = "trigger" /\ ~(p = "dir" /\ "dir" \in tree)
    BY <1>4, <2>3 DEF Take, Collect, treeVars, history, TypeOK, Watchers, Tree
  <2> QED BY <2>1, <2>2, <2>3
<1> QED BY <1>1, <1>2, <1>3, <1>4

LEMMA OtherLists ==
  ASSUME TypeOK, ChangesListed, Walk \/ LastFlush \/ LastQuit \/ OpenFails PROVE ChangesListed'
<1> USE DEF ChangesListed, Listed
<1>1. CASE AddDir BY <1>1 DEF AddDir, Collect, history, TypeOK, Watchers, Tree
<1>2. CASE ReadDir BY <1>2 DEF ReadDir, Collect, treeVars, history, TypeOK, Watchers, Tree
<1>3. CASE LastFlush \/ LastQuit BY <1>3 DEF LastFlush, LastQuit, watchVars, treeVars, history
<1>4. CASE OpenFails BY <1>4 DEF OpenFails, treeVars, history, TypeOK, Watchers
<1> QED BY <1>1, <1>2, <1>3, <1>4 DEF Walk

LEMMA RunLists == ASSUME TypeOK, TriggersOff, ChangesListed, Run PROVE ChangesListed'
<1> USE DEF ChangesListed, Listed, treeVars, watchVars, history
<1>1. CASE WatchConfig BY <1>1 DEF WatchConfig, TypeOK, Watchers
<1>2. CASE StartTriggers BY <1>2 DEF StartTriggers, TriggersOff, TypeOK, Watchers
<1>3. CASE TakeRequest \/ TakeFailure \/ TakeEnd BY <1>3 DEF TakeRequest, TakeFailure, TakeEnd
<1>4. CASE ReadMain \/ ReadLinked BY <1>4 DEF ReadMain, ReadLinked
<1>5. CASE TriggersStopped BY <1>5 DEF TriggersStopped
<1>6. CASE Exit BY <1>6 DEF Exit, TypeOK, Watchers
<1>7. CASE Switch BY <1>7 DEF Switch, TypeOK, Watchers
<1> QED BY <1>1, <1>2, <1>3, <1>4, <1>5, <1>6, <1>7 DEF Run

-----------------------------------------------------------------------------

LEMMA NextIInv == ASSUME IInv, [Next]_vars PROVE IInv'
<1>1. CASE UNCHANGED vars
  BY <1>1 DEF vars, agentVars, watchVars, treeVars, history, IInv, TypeOK, TriggersOff,
              ReadOrNoticed, Noticed, Kept, ChangesListed, Listed
<1>2. CASE Next
  <2>1. TypeOK' BY <1>2, NextTypes DEF IInv
  <2>2. TriggersOff' BY <1>2, OffStays DEF IInv
  <2>3. ReadOrNoticed'
    BY <1>2, NextCases, EnvReads, WatcherReads, OtherReads, RunReads DEF IInv
  <2>4. ChangesListed'
    BY <1>2, NextCases, EnvLists, WatcherLists, OtherLists, RunLists DEF IInv
  <2> QED BY <2>1, <2>2, <2>3, <2>4 DEF IInv
<1> QED BY <1>1, <1>2

\* The inductive invariant: the types, where Run is while the triggers are off, and
\* that each save is read, is on its way to the loop, was seen by no watch or was
\* discarded by stopLinks.
THEOREM AgentInvariant == Spec => []IInv
BY InitIInv, NextIInv, PTL DEF Spec

\* The definitions are exchanged while no trigger runs (stop, Configure).
THEOREM OneSet == Spec => []OneSetOfTriggers
<1>1. IInv => OneSetOfTriggers BY DEF IInv, TriggersOff, OneSetOfTriggers
<1> QED BY <1>1, AgentInvariant, PTL

\* Of the saves that a watch noticed, the agent forgets none, but for those of a
\* linked file that it discards with the watch on it; and those are forgotten until
\* the file is read again: the main file is kept whatever was discarded
\* (requestReload, waitForChange, Load, stopLinks).
THEOREM SavesKept == Spec => []NoSaveForgotten
<1>1. IInv => NoSaveForgotten
  <2> SUFFICES ASSUME IInv, Alive, ~ended, unseen = {}, ~ReloadComing,
                      \A f \in Files : disk[f].valid
               PROVE Attended(Kept)
    BY DEF NoSaveForgotten, Attended
  <2>1. \A f \in Files : ~Noticed(f) BY DEF ReloadComing, Noticed, Files
  <2>2. Kept \subseteq Files BY DEF Kept
  <2>3. CASE pc = "readLinked" BY <2>1, <2>2, <2>3 DEF IInv, ReadOrNoticed, Attended, Files
  <2>4. CASE pc \in {"stopTriggers", "switch"}
    BY <2>1, <2>2, <2>4 DEF IInv, ReadOrNoticed, Attended
  <2>5. CASE pc \in {"boot", "start", "wait", "failing", "shutdown"}
    BY <2>1, <2>5 DEF IInv, ReadOrNoticed, Attended
  <2>6. pc # "readMain" /\ pc # "gone" BY DEF ReloadComing, Alive
  <2> QED BY <2>3, <2>4, <2>5, <2>6 DEF IInv, TypeOK
<1> QED BY <1>1, AgentInvariant, PTL

\* No change is overlooked that the trigger could see (translate, addTree, flush).
THEOREM ChangesKept == Spec => []NoChangeForgotten
<1>1. IInv => NoChangeForgotten
  BY DEF IInv, TypeOK, ChangesListed, Listed, NoChangeForgotten, Tree
<1> QED BY <1>1, AgentInvariant, PTL

-----------------------------------------------------------------------------
\* The search for cycles of after triggers, when a configuration is loaded: it
\* finds one when there is one, and only then.

Done     == {n \in Names : state[n] = "done"}
Visiting == {n \in Names : state[n] = "visiting"}

\* The path is what is being visited, each event once, and each follows the next.
PathAgrees ==
  /\ \A k \in 1 .. Len(path) : state[path[k]] = "visiting"
  /\ \A n \in Visiting : \E k \in 1 .. Len(path) : path[k] = n
  /\ \A j, k \in 1 .. Len(path) : path[j] = path[k] => j = k
  /\ \A k \in 1 .. Len(path) - 1 : path[k + 1] \in follows[path[k]]

\* What a call on the path has looked at is done, or is the next call.
LookedAt ==
  /\ \A k \in 1 .. Len(path) :
       \A m \in follows[path[k]] \ left[path[k]] :
         state[m] = "done" \/ (k < Len(path) /\ path[k + 1] = m)
  /\ \A n \in Visiting : left[n] \subseteq follows[n]

\* What a done event follows is done, and no cycle runs through what is done.
DoneClosed ==
  /\ \A n \in Done : follows[n] \subseteq Done
  /\ \A S \in SUBSET Done : S # {} => \E n \in S : follows[n] \cap S = {}

\* The events that the outer loop came to are not new.
LoopAgrees == \A n \in (Names \ Undefined) \ unvisited : state[n] # "new"

\* Once a cycle is found nothing more happens, so the rest is about the search.
CycleInv ==
  /\ CycleTypeOK
  /\ PathAgrees
  /\ found = <<>> => LookedAt /\ DoneClosed /\ LoopAgrees
  /\ FoundIsCycle

-----------------------------------------------------------------------------

\* Initially everything is new.
LEMMA CycleStarts == CycleInit => CycleInv
<1> SUFFICES ASSUME CycleInit PROVE CycleInv
  OBVIOUS
<1> USE DEF CycleInit
<1>1. CycleTypeOK
  BY CycleAssumption DEF CycleTypeOK, Graphs
<1>2. PathAgrees
  BY DEF PathAgrees, Visiting
<1>3. LookedAt /\ DoneClosed /\ LoopAgrees
  BY DEF LookedAt, DoneClosed, LoopAgrees, Done, Visiting
<1>4. FoundIsCycle
  BY DEF FoundIsCycle
<1> QED
  BY <1>1, <1>2, <1>3, <1>4 DEF CycleInv

\* The innermost event is on the path.
LEMMA TopOnPath ==
  ASSUME CycleTypeOK, path # <<>>
  PROVE  Len(path) \in Nat \ {0} /\ Len(path) \in 1 .. Len(path) /\ Top \in Names
BY DEF CycleTypeOK, Top

\* An event of the path is at one of its positions.
LEMMA IndexFound ==
  ASSUME CycleTypeOK, PathAgrees, NEW n \in Names, state[n] = "visiting"
  PROVE  IndexOf(n) \in 1 .. Len(path) /\ path[IndexOf(n)] = n
<1>1. \E k \in 1 .. Len(path) : path[k] = n
  BY DEF PathAgrees, Visiting
<1> QED
  BY <1>1 DEF IndexOf

\* What visit puts together is a cycle, when the innermost event follows n.
LEMMA CycleIsFound ==
  ASSUME CycleInv, NEW n \in Names, state[n] = "visiting",
         path # <<>>, n \in follows[Top]
  PROVE  /\ CycleFrom(n) \in Seq(Names) /\ Len(CycleFrom(n)) > 1
         /\ CycleFrom(n)[1] = CycleFrom(n)[Len(CycleFrom(n))]
         /\ \A i \in 1 .. Len(CycleFrom(n)) - 1 : CycleFrom(n)[i + 1] \in follows[CycleFrom(n)[i]]
<1> DEFINE k == IndexOf(n)  L == Len(path)  c == CycleFrom(n)
<1>1. CycleTypeOK /\ PathAgrees
  BY DEF CycleInv
<1>2. k \in 1 .. L /\ path[k] = n /\ L \in Nat \ {0}
  BY <1>1, IndexFound, TopOnPath
<1>3. c = [i \in 1 .. L - k + 2 |-> IF i <= L - k + 1 THEN path[k + i - 1] ELSE n]
  BY DEF CycleFrom
<1>4. \A j \in 1 .. L : path[j] \in Names
  BY <1>1 DEF CycleTypeOK
<1> HIDE DEF k, L, c
<1>5. c \in Seq(Names) /\ Len(c) = L - k + 2
  BY <1>2, <1>3, <1>4
<1>6. c[1] = n /\ c[Len(c)] = n
  BY <1>2, <1>3, <1>5
<1>7. ASSUME NEW i \in 1 .. Len(c) - 1
      PROVE  c[i + 1] \in follows[c[i]]
  <2>1. c[i] = path[k + i - 1] /\ k + i - 1 \in 1 .. L
    BY <1>2, <1>3, <1>5, <1>7
  <2>2. CASE i <= L - k
    <3>1. c[i + 1] = path[(k + i - 1) + 1] /\ k + i - 1 \in 1 .. L - 1
      BY <1>2, <1>3, <1>5, <2>2
    <3> QED
      BY <3>1, <2>1, <1>1 DEF PathAgrees, L
  <2>3. CASE i = L - k + 1
    <3>1. c[i + 1] = n /\ c[i] = path[L]
      BY <1>2, <1>3, <1>5, <2>3
    <3> QED
      BY <3>1 DEF Top, L
  <2> QED
    BY <2>2, <2>3, <1>2, <1>5
<1> QED
  BY <1>2, <1>5, <1>6, <1>7 DEF c

-----------------------------------------------------------------------------

\* What a call of visit is given: from the outer loop nothing is looked at, from
\* the innermost call n leaves what that call has left.
Called(n, rest) ==
  /\ path = <<>> => rest = left
  /\ path # <<>> => n \in left[Top] /\ rest = [left EXCEPT ![Top] = @ \ {n}]

\* A call for an event that is being visited finds a cycle.
LEMMA VisitingFound ==
  ASSUME CycleInv, found = <<>>, NEW n \in Names, state[n] = "visiting",
         NEW rest \in [Names -> SUBSET Names], Called(n, rest),
         found' = CycleFrom(n), left' = rest, UNCHANGED <<state, path, follows>>,
         unvisited' \in {unvisited, unvisited \ {n}}
  PROVE  CycleInv'
<1>1. CycleTypeOK /\ PathAgrees /\ LookedAt
  BY DEF CycleInv
<1>2. path # <<>>
  BY <1>1 DEF PathAgrees, Visiting
<1>3. n \in follows[Top]
  <2>1. Len(path) \in 1 .. Len(path) /\ Top \in Names
    BY <1>1, <1>2, TopOnPath
  <2>2. Top \in Visiting
    BY <1>1, <2>1 DEF PathAgrees, Visiting, Top
  <2> QED
    BY <1>1, <1>2, <2>2 DEF LookedAt, Called
<1>4. /\ CycleFrom(n) \in Seq(Names) /\ Len(CycleFrom(n)) > 1
      /\ CycleFrom(n)[1] = CycleFrom(n)[Len(CycleFrom(n))]
      /\ \A i \in 1 .. Len(CycleFrom(n)) - 1 : CycleFrom(n)[i + 1] \in follows[CycleFrom(n)[i]]
  BY <1>2, <1>3, CycleIsFound
<1>5. CycleTypeOK'
  BY <1>1, <1>4 DEF CycleTypeOK
<1>6. PathAgrees'
  BY <1>1 DEF PathAgrees, Visiting
<1>7. FoundIsCycle'
  BY <1>4 DEF FoundIsCycle
<1>8. found' # <<>>
  BY <1>4
<1> QED
  BY <1>5, <1>6, <1>7, <1>8 DEF CycleInv

\* A call for an event that is done changes only what is left.
LEMMA DonePassed ==
  ASSUME CycleInv, found = <<>>, NEW n \in Names, state[n] = "done",
         NEW rest \in [Names -> SUBSET Names], Called(n, rest),
         left' = rest, UNCHANGED <<state, path, found, follows>>,
         unvisited' \in {unvisited, unvisited \ {n}}
  PROVE  CycleInv'
<1>1. CycleTypeOK /\ PathAgrees /\ LookedAt /\ DoneClosed /\ LoopAgrees /\ FoundIsCycle
  BY DEF CycleInv
<1>2. CycleTypeOK'
  BY <1>1 DEF CycleTypeOK
<1>3. PathAgrees'
  BY <1>1 DEF PathAgrees, Visiting
<1>4. LookedAt'
  <2>1. \A m \in Names : rest[m] \subseteq left[m] /\ left[m] \ rest[m] \subseteq {n}
    <3>1. CASE path = <<>>
      BY <3>1 DEF Called
    <3>2. CASE path # <<>>
      BY <3>2, <1>1, TopOnPath DEF Called, CycleTypeOK
    <3> QED
      BY <3>1, <3>2
  <2>2. \A k \in 1 .. Len(path) : path[k] \in Names
    BY <1>1 DEF CycleTypeOK
  <2>3. ASSUME NEW k \in 1 .. Len(path), NEW m \in follows[path[k]] \ rest[path[k]]
        PROVE  state[m] = "done" \/ (k < Len(path) /\ path[k + 1] = m)
    <3>1. CASE m = n
      BY <3>1
    <3>2. CASE m # n
      <4>1. m \notin left[path[k]]
        BY <2>1, <2>2, <2>3, <3>2
      <4> QED
        BY <1>1, <2>3, <4>1 DEF LookedAt
    <3> QED
      BY <3>1, <3>2
  <2>4. \A m \in Visiting : rest[m] \subseteq follows[m]
    BY <1>1, <2>1 DEF LookedAt, Visiting
  <2> QED
    BY <2>3, <2>4 DEF LookedAt, Visiting
<1>5. DoneClosed' /\ LoopAgrees' /\ FoundIsCycle'
  BY <1>1 DEF DoneClosed, Done, LoopAgrees, FoundIsCycle
<1> QED
  BY <1>2, <1>3, <1>4, <1>5 DEF CycleInv

\* A call for a new event puts it on the path.
LEMMA NewVisited ==
  ASSUME CycleInv, found = <<>>, NEW n \in Names, state[n] = "new",
         NEW rest \in [Names -> SUBSET Names], Called(n, rest),
         state' = [state EXCEPT ![n] = "visiting"], path' = Append(path, n),
         left' = [rest EXCEPT ![n] = follows[n]], UNCHANGED <<found, follows>>,
         unvisited' \in {unvisited, unvisited \ {n}}
  PROVE  CycleInv'
<1> DEFINE L == Len(path)
<1>1. CycleTypeOK /\ PathAgrees /\ LookedAt /\ DoneClosed /\ LoopAgrees /\ FoundIsCycle
  BY DEF CycleInv
<1>2. /\ L \in Nat /\ Len(path') = L + 1 /\ path'[L + 1] = n
      /\ \A k \in 1 .. L : path'[k] = path[k] /\ path[k] \in Names
  BY <1>1 DEF CycleTypeOK
<1>3. follows \in [Names -> SUBSET Names]
  BY <1>1 DEF CycleTypeOK, Graphs
<1>4. \A m \in Names : state'[m] = IF m = n THEN "visiting" ELSE state[m]
  BY <1>1 DEF CycleTypeOK
<1>5. \A k \in 1 .. L : path[k] # n
  BY <1>1 DEF PathAgrees
<1>6. CycleTypeOK'
  <2>1. state' \in [Names -> {"new", "visiting", "done"}]
    BY <1>1 DEF CycleTypeOK
  <2>2. left' \in [Names -> SUBSET Names]
    BY <1>3
  <2>3. path' \in Seq(Names)
    BY <1>1 DEF CycleTypeOK
  <2> QED
    BY <2>1, <2>2, <2>3, <1>1 DEF CycleTypeOK
<1>7. path # <<>> => n \in follows[Top]
  <2> SUFFICES ASSUME path # <<>> PROVE n \in follows[Top]
    OBVIOUS
  <2>1. L \in 1 .. L /\ Top \in Names
    BY <1>1, TopOnPath
  <2>2. Top \in Visiting
    BY <1>1, <2>1 DEF PathAgrees, Visiting, Top
  <2> QED
    BY <1>1, <2>2 DEF LookedAt, Called
<1> HIDE DEF L
<1>8. PathAgrees'
  <2>1. \A k \in 1 .. L + 1 : state'[path'[k]] = "visiting"
    BY <1>1, <1>2, <1>4 DEF PathAgrees, L
  <2>2. \A m \in Visiting' : \E k \in 1 .. L + 1 : path'[k] = m
    <3> SUFFICES ASSUME NEW m \in Names, state'[m] = "visiting"
                 PROVE  \E k \in 1 .. L + 1 : path'[k] = m
      BY DEF Visiting
    <3>1. CASE m = n
      BY <3>1, <1>2
    <3>2. CASE m # n
      <4>1. PICK k \in 1 .. L : path[k] = m
        BY <3>2, <1>1, <1>4 DEF PathAgrees, Visiting, L
      <4> QED
        BY <4>1, <1>2
    <3> QED
      BY <3>1, <3>2
  <2>3. \A j, k \in 1 .. L + 1 : path'[j] = path'[k] => j = k
    <3> SUFFICES ASSUME NEW j \in 1 .. L + 1, NEW k \in 1 .. L + 1, path'[j] = path'[k]
                 PROVE  j = k
      OBVIOUS
    <3>1. CASE j \in 1 .. L /\ k \in 1 .. L
      BY <3>1, <1>1, <1>2 DEF PathAgrees, L
    <3>2. CASE j = L + 1 \/ k = L + 1
      BY <3>2, <1>2, <1>5
    <3> QED
      BY <3>1, <3>2, <1>2
  <2>4. \A k \in 1 .. L : path'[k + 1] \in follows[path'[k]]
    <3> SUFFICES ASSUME NEW k \in 1 .. L PROVE path'[k + 1] \in follows[path'[k]]
      OBVIOUS
    <3>1. CASE k = L
      <4>1. path # <<>> /\ path'[k] = Top
        BY <3>1, <1>2 DEF Top, L
      <4> QED
        BY <4>1, <3>1, <1>2, <1>7
    <3>2. CASE k \in 1 .. L - 1
      <4>1. path'[k + 1] = path[k + 1] /\ path'[k] = path[k]
        BY <3>2, <1>2
      <4> QED
        BY <4>1, <3>2, <1>1 DEF PathAgrees, L
    <3> QED
      BY <3>1, <3>2, <1>2
  <2> QED
    BY <2>1, <2>2, <2>3, <2>4, <1>2 DEF PathAgrees
<1>9. LookedAt'
  <2>1. /\ left'[n] = follows[n]
        /\ \A m \in Names \ {n} : left'[m] = rest[m] /\ rest[m] \subseteq left[m]
    <3>1. \A m \in Names : rest[m] \subseteq left[m]
      <4>1. CASE path = <<>>
        BY <4>1 DEF Called
      <4>2. CASE path # <<>>
        BY <4>2, <1>1, TopOnPath DEF Called, CycleTypeOK
      <4> QED
        BY <4>1, <4>2
    <3> QED
      BY <3>1
  <2>2. ASSUME NEW k \in 1 .. L, NEW m \in follows[path[k]] \ left'[path[k]]
        PROVE  state'[m] = "done" \/ path'[k + 1] = m
    <3>1. path[k] \in Names \ {n} /\ m \in Names
      BY <1>2, <1>3, <1>5
    <3>2. m \notin rest[path[k]]
      BY <2>1, <2>2, <3>1
    <3>3. CASE m \in left[path[k]]
      <4>1. path # <<>> /\ rest = [left EXCEPT ![Top] = @ \ {n}]
        BY <3>2, <3>3 DEF Called
      <4>2. path[k] = Top /\ m = n
        BY <4>1, <3>1, <3>2, <3>3, <1>1 DEF CycleTypeOK
      <4>3. k = L
        <5>1. L \in 1 .. L /\ path[L] = path[k]
          BY <4>1, <4>2, <1>1, TopOnPath DEF Top, L
        <5> QED
          BY <5>1, <1>1 DEF PathAgrees, L
      <4> QED
        BY <4>2, <4>3, <1>2
    <3>4. CASE m \notin left[path[k]]
      <4>1. state[m] = "done" \/ (k < L /\ path[k + 1] = m)
        BY <3>4, <2>2, <1>1 DEF LookedAt, L
      <4>2. CASE state[m] = "done"
        BY <4>2, <3>1, <1>4
      <4>3. CASE k < L /\ path[k + 1] = m
        BY <4>3, <1>2
      <4> QED
        BY <4>1, <4>2, <4>3
    <3> QED
      BY <3>3, <3>4
  <2>3. ASSUME NEW k \in 1 .. L + 1, NEW m \in follows[path'[k]] \ left'[path'[k]]
        PROVE  state'[m] = "done" \/ (k < L + 1 /\ path'[k + 1] = m)
    <3>1. CASE k = L + 1
      BY <3>1, <2>1, <2>3, <1>2
    <3>2. CASE k \in 1 .. L
      BY <3>2, <2>2, <2>3, <1>2
    <3> QED
      BY <3>1, <3>2, <1>2
  <2>4. ASSUME NEW m \in Visiting' PROVE left'[m] \subseteq follows[m]
    <3>1. CASE m = n
      BY <3>1, <2>1
    <3>2. CASE m # n
      BY <3>2, <2>1, <1>1, <1>4, <2>4 DEF Visiting, LookedAt
    <3> QED
      BY <3>1, <3>2
  <2>5. Len(path') = L + 1 /\ follows' = follows
    BY <1>2
  <2> QED
    BY <2>3, <2>4, <2>5 DEF LookedAt
<1>10. Done' = Done
  BY <1>4 DEF Done
<1>11. DoneClosed' /\ LoopAgrees' /\ FoundIsCycle'
  BY <1>1, <1>4, <1>10 DEF DoneClosed, LoopAgrees, FoundIsCycle
<1> QED
  BY <1>6, <1>8, <1>9, <1>11 DEF CycleInv

\* The innermost call returns: its event is done, and no cycle runs through it.
LEMMA EventLeft ==
  ASSUME CycleInv, LeaveEvent
  PROVE  CycleInv'
<1> DEFINE L == Len(path)
<1>1. CycleTypeOK /\ PathAgrees /\ LookedAt /\ DoneClosed /\ LoopAgrees /\ FoundIsCycle
  BY DEF CycleInv, LeaveEvent
<1>2. L \in Nat \ {0} /\ L \in 1 .. L /\ Top \in Names /\ path[L] = Top
  BY <1>1, TopOnPath DEF LeaveEvent, Top
<1>3. /\ path' \in Seq(Names) /\ Len(path') = L - 1
      /\ \A k \in 1 .. L - 1 : path'[k] = path[k] /\ path[k] \in Names
  BY <1>1, <1>2 DEF LeaveEvent, CycleTypeOK
<1>4. \A m \in Names : state'[m] = IF m = Top THEN "done" ELSE state[m]
  BY <1>1 DEF LeaveEvent, CycleTypeOK
<1>5. state[Top] = "visiting" /\ left[Top] = {} /\ UNCHANGED <<left, follows, found, unvisited>>
  BY <1>1, <1>2 DEF PathAgrees, LeaveEvent
<1>6. follows \in [Names -> SUBSET Names] /\ Top \notin follows[Top]
  BY <1>1, <1>2 DEF CycleTypeOK, Graphs
<1> HIDE DEF L
<1>7. \A k \in 1 .. L - 1 : path[k] # Top
  BY <1>1, <1>2 DEF PathAgrees, L
<1>8. CycleTypeOK'
  BY <1>1, <1>2, <1>3, <1>5 DEF CycleTypeOK, LeaveEvent
<1>9. PathAgrees'
  <2>1. \A k \in 1 .. L - 1 : state'[path'[k]] = "visiting"
    BY <1>1, <1>2, <1>3, <1>4, <1>7 DEF PathAgrees, L
  <2>2. ASSUME NEW m \in Visiting' PROVE \E k \in 1 .. L - 1 : path'[k] = m
    <3>1. m \in Visiting /\ m # Top
      BY <2>2, <1>4 DEF Visiting
    <3>2. PICK k \in 1 .. L : path[k] = m
      BY <3>1, <1>1 DEF PathAgrees, L
    <3>3. k \in 1 .. L - 1
      BY <3>1, <3>2, <1>2
    <3> QED
      BY <3>2, <3>3, <1>3
  <2>3. \A j, k \in 1 .. L - 1 : path'[j] = path'[k] => j = k
    <3>1. \A j, k \in 1 .. L : path[j] = path[k] => j = k BY <1>1 DEF PathAgrees, L
    <3>2. \A j \in 1 .. L - 1 : j \in 1 .. L BY <1>2
    <3>3. \A j \in 1 .. L - 1 : path'[j] = path[j] BY <1>3
    <3> QED BY <3>1, <3>2, <3>3
  <2>4. ASSUME NEW k \in 1 .. (L - 1) - 1 PROVE path'[k + 1] \in follows'[path'[k]]
    <3>1. k \in 1 .. L - 1 /\ k + 1 \in 1 .. L - 1 BY <1>2
    <3>2. path[k + 1] \in follows[path[k]] BY <1>1, <3>1 DEF PathAgrees, L
    <3> QED BY <1>3, <1>5, <3>1, <3>2
  <2> QED
    BY <2>1, <2>2, <2>3, <2>4, <1>3 DEF PathAgrees
<1>10. LookedAt'
  <2>1. ASSUME NEW k \in 1 .. L - 1, NEW m \in follows[path[k]] \ left[path[k]]
        PROVE  state'[m] = "done" \/ (k < L - 1 /\ path'[k + 1] = m)
    <3>1. m \in Names
      BY <2>1, <1>3, <1>6
    <3>2. state[m] = "done" \/ (k < L /\ path[k + 1] = m)
      BY <2>1, <1>1, <1>2 DEF LookedAt, L
    <3>3. CASE state[m] = "done"
      BY <3>1, <3>3, <1>4
    <3>4. CASE path[k + 1] = m
      <4>1. CASE k + 1 = L
        BY <3>1, <3>4, <4>1, <1>2, <1>4
      <4>2. CASE k + 1 \in 1 .. L - 1
        BY <3>4, <4>2, <1>2, <1>3
      <4> QED
        BY <4>1, <4>2, <1>2
    <3> QED
      BY <3>2, <3>3, <3>4
  <2>2. \A m \in Visiting' : left[m] \subseteq follows[m]
    BY <1>1, <1>4 DEF Visiting, LookedAt
  <2> QED
    BY <2>1, <2>2, <1>3, <1>5 DEF LookedAt
<1>11. Done' = Done \cup {Top} /\ Top \notin Done
  BY <1>2, <1>4, <1>5 DEF Done
<1>12. follows[Top] \subseteq Done
  <2> SUFFICES ASSUME NEW m \in follows[Top] PROVE m \in Done
    OBVIOUS
  <2>1. m \in Names
    BY <1>2, <1>6
  <2>2. state[m] = "done" \/ L < L
    BY <1>1, <1>2, <1>5 DEF LookedAt, L
  <2> QED
    BY <2>1, <2>2, <1>2 DEF Done
<1>13. DoneClosed'
  <2>1. \A m \in Done' : follows[m] \subseteq Done'
    BY <1>1, <1>11, <1>12 DEF DoneClosed
  <2>2. ASSUME NEW S \in SUBSET Done', S # {}
        PROVE  \E m \in S : follows[m] \cap S = {}
    <3>1. CASE S \ {Top} = {}
      BY <3>1, <2>2, <1>6
    <3>2. CASE S \ {Top} # {}
      <4>1. S \ {Top} \in SUBSET Done
        BY <1>11
      <4>2. PICK m \in S \ {Top} : follows[m] \cap (S \ {Top}) = {}
        BY <4>1, <3>2, <1>1 DEF DoneClosed
      <4>3. Top \notin follows[m]
        BY <4>1, <4>2, <1>1, <1>11 DEF DoneClosed
      <4> QED
        BY <4>2, <4>3
    <3> QED
      BY <3>1, <3>2
  <2> QED
    BY <2>1, <2>2, <1>5 DEF DoneClosed
<1>14. LoopAgrees' /\ FoundIsCycle'
  BY <1>1, <1>4, <1>5 DEF LoopAgrees, FoundIsCycle
<1> QED
  BY <1>8, <1>9, <1>10, <1>13, <1>14 DEF CycleInv

-----------------------------------------------------------------------------

\* Every call of visit keeps the invariant.
LEMMA VisitKeeps ==
  ASSUME CycleInv, found = <<>>, NEW n \in Names,
         NEW rest \in [Names -> SUBSET Names], Called(n, rest),
         Visit(n, rest), UNCHANGED follows, unvisited' \in {unvisited, unvisited \ {n}}
  PROVE  CycleInv'
<1>1. state[n] \in {"new", "visiting", "done"}
  BY DEF CycleInv, CycleTypeOK
<1>2. CASE state[n] = "visiting"
  BY <1>2, VisitingFound DEF Visit
<1>3. CASE state[n] = "done"
  BY <1>3, DonePassed DEF Visit
<1>4. CASE state[n] = "new"
  BY <1>4, NewVisited DEF Visit
<1> QED
  BY <1>1, <1>2, <1>3, <1>4

\* The invariant is inductive.
LEMMA CycleStep == CycleInv /\ [CycleNext]_cycleVars => CycleInv'
<1> SUFFICES ASSUME CycleInv, [CycleNext]_cycleVars PROVE CycleInv'
  OBVIOUS
<1>1. CycleTypeOK
  BY DEF CycleInv
<1>2. CASE LeaveEvent
  BY <1>2, EventLeft
<1>3. ASSUME NEW n \in Names, VisitEvent(n) PROVE CycleInv'
  <2>1. left \in [Names -> SUBSET Names] /\ Called(n, left)
    BY <1>1, <1>3 DEF CycleTypeOK, VisitEvent, Called
  <2> QED
    BY <1>3, <2>1, VisitKeeps DEF VisitEvent
<1>4. ASSUME NEW n \in Names, VisitFollowed(n) PROVE CycleInv'
  <2> DEFINE rest == [left EXCEPT ![Top] = @ \ {n}]
  <2>1. rest \in [Names -> SUBSET Names] /\ Called(n, rest)
    BY <1>1, <1>4, TopOnPath DEF CycleTypeOK, VisitFollowed, Called
  <2> QED
    BY <1>4, <2>1, VisitKeeps DEF VisitFollowed
<1>5. CASE UNCHANGED cycleVars
  BY <1>5 DEF cycleVars, CycleInv, CycleTypeOK, PathAgrees, LookedAt, DoneClosed, LoopAgrees,
              FoundIsCycle, Done, Visiting
<1> QED
  BY <1>2, <1>3, <1>4, <1>5 DEF CycleNext

\* When nothing is found, everything that is defined is done, and a set of events
\* with an undefined one has that one, which follows nothing.
LEMMA VerdictFollows == CycleInv => VerdictRight
<1> SUFFICES ASSUME CycleInv PROVE VerdictRight
  OBVIOUS
<1>1. ASSUME Finished, NEW S \in SUBSET Names, S # {}
      PROVE  \E n \in S : follows[n] \cap S = {}
  <2>1. CycleTypeOK /\ PathAgrees /\ DoneClosed /\ LoopAgrees
    BY <1>1 DEF CycleInv, Finished
  <2>2. Visiting = {}
    BY <1>1, <2>1 DEF Finished, PathAgrees
  <2>3. Names \ Undefined \subseteq Done
    BY <1>1, <2>1, <2>2 DEF Finished, LoopAgrees, Done, Visiting, CycleTypeOK
  <2>4. CASE S \cap Undefined # {}
    BY <2>4, <2>1 DEF CycleTypeOK, Graphs
  <2>5. CASE S \cap Undefined = {}
    <3>1. S \in SUBSET Done
      BY <2>3, <2>5
    <3> QED
      BY <3>1, <2>1, <1>1 DEF DoneClosed
  <2> QED
    BY <2>4, <2>5
<1> QED
  BY <1>1 DEF VerdictRight, NoneMissed, CycleInv

\* The inductive invariant of the search.
THEOREM CycleInvariant == CycleSpec => []CycleInv
<1> QED
  BY CycleStarts, CycleStep, PTL DEF CycleSpec

\* For every configuration, and in whatever order the search goes: what it reports
\* is a cycle of after triggers, and when it reports none there is none, so that no
\* chain of after triggers fires for ever (afterCycle).
THEOREM CycleVerdict == CycleSpec => []VerdictRight
<1> QED
  BY CycleInvariant, VerdictFollows, PTL

\* What the search has before it: the events that the outer loop has not come to,
\* the events that no call returned from, and the looks from one to another.
Undone   == Names \ Done
Unlooked ==
  {e \in Names \X Names :
     \/ state[e[1]] = "new" /\ e[2] \in follows[e[1]]
     \/ state[e[1]] = "visiting" /\ e[2] \in left[e[1]]}

\* None of the three grows and one of them gets smaller.
Advances ==
  /\ unvisited' \subseteq unvisited /\ Undone' \subseteq Undone /\ Unlooked' \subseteq Unlooked
  /\ unvisited' # unvisited \/ Undone' # Undone \/ Unlooked' # Unlooked

\* A call of visit undoes nothing, and looks only at what was left to it.
LEMMA CallAdvances ==
  ASSUME CycleTypeOK, NEW n \in Names, NEW rest \in [Names -> SUBSET Names], Visit(n, rest),
         \A m \in Names : rest[m] \subseteq left[m], UNCHANGED follows
  PROVE  /\ Undone' \subseteq Undone /\ Unlooked' \subseteq Unlooked
         /\ \A m \in Names : state[m] = "visiting" => state'[m] = "visiting" /\ left'[m] = rest[m]
<1>1. \/ state' = state /\ left' = rest
      \/ /\ state[n] = "new" /\ state' = [state EXCEPT ![n] = "visiting"]
         /\ left' = [rest EXCEPT ![n] = follows[n]]
  BY DEF Visit, CycleTypeOK
<1>2. \A m \in Names : \/ state'[m] = state[m] /\ left'[m] = rest[m]
                       \/ state[m] = "new" /\ state'[m] = "visiting" /\ left'[m] = follows[m]
  <2>1. CASE state' = state /\ left' = rest BY <2>1
  <2>2. CASE /\ state[n] = "new" /\ state' = [state EXCEPT ![n] = "visiting"]
             /\ left' = [rest EXCEPT ![n] = follows[n]]
    <3>1. ASSUME NEW m \in Names, m # n PROVE state'[m] = state[m] /\ left'[m] = rest[m]
      BY <2>2, <3>1 DEF CycleTypeOK
    <3>2. state'[n] = "visiting" /\ left'[n] = follows[n] BY <2>2 DEF CycleTypeOK
    <3> QED BY <2>2, <3>1, <3>2
  <2> QED BY <1>1, <2>1, <2>2
<1>3. Undone' \subseteq Undone BY <1>2 DEF Undone, Done
<1>4. Unlooked' \subseteq Unlooked
  <2>1. ASSUME NEW e \in Names \X Names, e \in Unlooked' PROVE e \in Unlooked
    <3>1. e[1] \in Names BY <2>1
    <3> QED BY <1>2, <2>1, <3>1 DEF Unlooked
  <2> QED BY <2>1 DEF Unlooked
<1>5. ASSUME NEW m \in Names, state[m] = "visiting"
      PROVE  state'[m] = "visiting" /\ left'[m] = rest[m]
  BY <1>2, <1>5
<1> QED BY <1>3, <1>4, <1>5

\* Every step of the search uses something up, so that the search through finitely
\* many events ends and a load of the configuration returns (visit, afterCycle).
THEOREM SearchAdvances == CycleSpec => [][Advances]_cycleVars
<1>1. ASSUME CycleInv, NEW n \in Names, VisitEvent(n) PROVE Advances
  <2>1. CycleTypeOK /\ unvisited' = unvisited \ {n} /\ n \in unvisited /\ Visit(n, left)
        /\ UNCHANGED follows
    BY <1>1 DEF CycleInv, VisitEvent
  <2>2. left \in [Names -> SUBSET Names] BY <2>1 DEF CycleTypeOK
  <2>3. Undone' \subseteq Undone /\ Unlooked' \subseteq Unlooked BY <2>1, <2>2, CallAdvances
  <2> QED BY <2>1, <2>3 DEF Advances
<1>2. ASSUME CycleInv, NEW n \in Names, VisitFollowed(n) PROVE Advances
  <2> DEFINE rest == [left EXCEPT ![Top] = @ \ {n}]
  <2>1. /\ CycleTypeOK /\ PathAgrees /\ path # <<>> /\ n \in left[Top] /\ Visit(n, rest)
        /\ UNCHANGED <<follows, unvisited>>
    BY <1>2 DEF CycleInv, VisitFollowed
  <2>2. Top \in Names /\ state[Top] = "visiting" BY <2>1, TopOnPath DEF PathAgrees, Top
  <2>3. /\ rest \in [Names -> SUBSET Names] /\ rest[Top] = left[Top] \ {n}
        /\ \A m \in Names : rest[m] \subseteq left[m]
    BY <2>1, <2>2 DEF CycleTypeOK
  <2>4. PICK t \in Names : t = Top BY <2>2
  <2> HIDE DEF rest
  <2>5. /\ Undone' \subseteq Undone /\ Unlooked' \subseteq Unlooked
        /\ state'[t] = "visiting" /\ left'[t] = rest[t]
    BY <2>1, <2>2, <2>3, <2>4, CallAdvances
  <2>6. <<t, n>> \in Unlooked BY <2>1, <2>2, <2>4 DEF Unlooked
  <2>7. <<t, n>> \notin Unlooked' BY <2>3, <2>4, <2>5 DEF Unlooked
  <2> QED BY <2>1, <2>5, <2>6, <2>7 DEF Advances
<1>3. ASSUME CycleInv, LeaveEvent PROVE Advances
  <2>1. /\ CycleTypeOK /\ PathAgrees /\ path # <<>> /\ left[Top] = {}
        /\ state' = [state EXCEPT ![Top] = "done"] /\ UNCHANGED <<follows, unvisited, left>>
    BY <1>3 DEF CycleInv, LeaveEvent
  <2>2. PICK t \in Names : t = Top /\ state[t] = "visiting" BY <2>1, TopOnPath DEF PathAgrees, Top
  <2>3. state'[t] = "done" /\ \A m \in Names \ {t} : state'[m] = state[m]
    BY <2>1, <2>2 DEF CycleTypeOK
  <2>4. Undone' \subseteq Undone /\ t \in Undone /\ t \notin Undone'
    BY <2>2, <2>3 DEF Undone, Done
  <2>5. Unlooked' \subseteq Unlooked
    <3>1. ASSUME NEW e \in Names \X Names, e \in Unlooked' PROVE e \in Unlooked
      <4>1. e[1] \in Names BY <3>1
      <4> QED BY <2>1, <2>3, <3>1, <4>1 DEF Unlooked
    <3> QED BY <3>1 DEF Unlooked
  <2> QED BY <2>1, <2>4, <2>5 DEF Advances
<1>4. CycleInv /\ [CycleNext]_cycleVars => [Advances]_cycleVars
  BY <1>1, <1>2, <1>3 DEF CycleNext
<1> QED BY <1>4, CycleInvariant, PTL DEF CycleSpec
=============================================================================
