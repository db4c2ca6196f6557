-------------------------------- MODULE Agent --------------------------------
(***************************************************************************)
(* The agent of kickd between its start and its stop, internal/agent and   *)
(* internal/trigger/file.go: the configuration files, the watches on them, *)
(* the loop that loads them again, and a recursive file trigger, which is  *)
(* stopped and started at each reload.  The watches on the configuration   *)
(* are file watchers too: "config" on its directory, for as long as the    *)
(* agent lives, and "links" on the directory of a file that one of them is *)
(* a link to, from one reload to the next.                                 *)
(***************************************************************************)
EXTENDS Naturals, FiniteSets

CONSTANTS
  Inputs,    \* what happens to the agent, of AllInputs
  MaxInputs  \* bound: saves, changes in the directory of the trigger, and hangups

AllInputs == {"hangup", "stop", "failure", "invalid"}

ASSUME AgentAssumption ==
  /\ MaxInputs \in Nat
  /\ Inputs \subseteq AllInputs

VARIABLES
  disk,      \* the files of the configuration
  \* the agent
  cfg,       \* the configuration in force, and the definitions of the dispatcher
  next,      \* the one being read
  pc,        \* where Run is
  first,     \* the first configuration is in force
  failed,    \* a trigger failed, and none runs until the next configuration
  token,     \* the channel reload holds a request
  errs,      \* errCh holds the error of a trigger
  ended,     \* the context of the agent has ended
  stopped,   \* the context of the triggers has ended
  leaving,   \* a watch whose context has ended may still ask for a reload
  \* the file watchers
  status,    \* of each watcher: "off", "starting", "on"
  queued,    \* the paths of which the OS has notifications for it
  pending,   \* the paths that it has collected since it fired
  walk,      \* how far it is with a new directory
  \* the directory of the trigger: a directory in it, and a file in that one
  tree,      \* the paths that exist
  inner,     \* the new directory is watched
  inputs,    \* how many saves, changes and hangups there were
  \* history
  unfired,   \* paths that changed under the trigger and no firing reported
  unseen,    \* files of the configuration that nobody watched when they were saved
  discarded  \* stopLinks discarded a save of the linked file that a watch had noticed

agentVars == <<cfg, next, pc, first, failed, token, errs, ended, stopped, leaving>>
watchVars == <<status, queued, pending, walk>>
treeVars  == <<tree, inner, inputs>>
history   == <<unfired, unseen, discarded>>
vars      == <<disk, agentVars, watchVars, treeVars, history>>

Files    == {"main", "linked"}
Watchers == {"config", "links", "trigger"}
Tree     == {"dir", "file"}

\* What a watcher reports: the names that its patterns let through, below its root.
PathsOf(w) == CASE w = "config"  -> {"main"}
                [] w = "links"   -> {"linked"}
                [] w = "trigger" -> Tree

Config == [Files -> [version : Nat, valid : BOOLEAN]]

TypeOK ==
  /\ disk \in Config /\ cfg \in Config /\ next \in Config
  /\ pc \in {"boot", "start", "wait", "readMain", "readLinked", "stopTriggers", "switch",
             "failing", "shutdown", "gone"}
  /\ first \in BOOLEAN /\ failed \in BOOLEAN /\ token \in BOOLEAN /\ errs \in BOOLEAN
  /\ ended \in BOOLEAN /\ stopped \in BOOLEAN /\ leaving \in BOOLEAN /\ inner \in BOOLEAN
  /\ status \in [Watchers -> {"off", "starting", "on"}]
  /\ queued \in [Watchers -> SUBSET (Files \cup Tree)]
  /\ pending \in [Watchers -> SUBSET (Files \cup Tree)]
  /\ walk \in {"none", "found", "added"}
  /\ tree \in {{}, {"dir"}, Tree} /\ inputs \in 0 .. MaxInputs
  /\ unfired \subseteq Tree /\ unseen \subseteq Files /\ discarded \in BOOLEAN

Init ==
  /\ disk = [f \in Files |-> [version |-> 0, valid |-> TRUE]]
  /\ cfg = disk /\ next = disk
  /\ pc = "boot" /\ first = TRUE /\ failed = FALSE
  /\ token = FALSE /\ errs = FALSE /\ ended = FALSE /\ stopped = FALSE /\ leaving = FALSE
  /\ status = [w \in Watchers |-> "off"]
  /\ queued = [w \in Watchers |-> {}] /\ pending = queued
  /\ walk = "none" /\ inner = FALSE /\ inputs = 0
  /\ tree \in {{}, {"dir"}, Tree}
  /\ unfired = {} /\ unseen = {} /\ discarded = FALSE

Alive == pc # "gone"

\* The context under which a watcher runs.
ContextEnded(w) ==
  \/ ended
  \/ w = "trigger" /\ stopped

-----------------------------------------------------------------------------
\* The files, and who changes them

\* Somebody saves a file of the configuration.
Save(f) ==
  LET w == IF f = "main" THEN "config" ELSE "links" IN
  /\ Alive /\ ~ended /\ inputs < MaxInputs /\ inputs' = inputs + 1
  /\ \E valid \in IF "invalid" \in Inputs THEN BOOLEAN ELSE {TRUE} :
       disk' = [disk EXCEPT ![f] = [version |-> @.version + 1, valid |-> valid]]
  /\ IF status[w] = "on"
       THEN queued' = [queued EXCEPT ![w] = @ \cup {f}] /\ unseen' = unseen \ {f}
       ELSE unseen' = unseen \cup {f} /\ UNCHANGED queued
  /\ discarded' = (discarded /\ f # "linked")
  /\ UNCHANGED <<agentVars, status, pending, walk, tree, inner, unfired>>

\* A change in the tree is noticed where its directory is watched.  A file that
\* goes before anybody watched it leaves nothing to report.
Change(paths, tree2) ==
  LET on   == status["trigger"] = "on"
      seen == IF inner THEN paths ELSE paths \cap {"dir"}
  IN /\ Alive /\ ~ended /\ inputs < MaxInputs /\ inputs' = inputs + 1
     /\ tree' = tree2
     /\ queued' = IF on THEN [queued EXCEPT !["trigger"] = @ \cup seen] ELSE queued
     /\ unfired' = IF on THEN (unfired \cup paths) \ ((Tree \ tree2) \ seen) ELSE unfired
     /\ inner' = (inner /\ "dir" \in tree2)
     /\ UNCHANGED <<disk, agentVars, status, pending, walk, unseen, discarded>>

MakeDir   == tree = {} /\ Change({"dir"}, {"dir"})
WriteFile == "dir" \in tree /\ Change({"file"}, Tree)
RemoveFile == tree = Tree /\ Change({"file"}, {"dir"})
RemoveDir == "dir" \in tree /\ Change(tree, {})

-----------------------------------------------------------------------------
\* File watchers

\* Run up to its loop: the directories that exist are watched.
Open(w) ==
  /\ status[w] = "starting"
  /\ status' = [status EXCEPT ![w] = "on"]
  /\ inner' = IF w = "trigger" THEN "dir" \in tree ELSE inner
  /\ UNCHANGED <<disk, agentVars, queued, pending, walk, tree, inputs, history>>

\* Run returns the error of a root that cannot be watched.
OpenFails ==
  /\ "failure" \in Inputs /\ status["trigger"] = "starting"
  /\ status' = [status EXCEPT !["trigger"] = "off"] /\ errs' = TRUE
  /\ UNCHANGED <<disk, cfg, next, pc, first, failed, token, ended, stopped, leaving,
                 queued, pending, walk, treeVars, history>>

Collect(w, paths) == pending' = [pending EXCEPT ![w] = @ \cup paths]

\* Mutant: a new directory is reported and not looked into.
TakeFlat(w, p) ==
  /\ status[w] = "on" /\ (w = "trigger" => walk = "none")
  /\ p \in queued[w]
  /\ queued' = [queued EXCEPT ![w] = @ \ {p}]
  /\ Collect(w, {p})
  /\ UNCHANGED <<disk, agentVars, status, walk, treeVars, history>>

\* A notification: translate looks into a directory that is new.
Take(w, p) ==
  /\ status[w] = "on" /\ (w = "trigger" => walk = "none")
  /\ p \in queued[w]
  /\ queued' = [queued EXCEPT ![w] = @ \ {p}]
  /\ IF p = "dir" /\ "dir" \in tree THEN walk' = "found" /\ UNCHANGED pending
                                    ELSE Collect(w, {p}) /\ UNCHANGED walk
  /\ UNCHANGED <<disk, agentVars, status, treeVars, history>>

\* addTree watches the directory; it may have gone again.
AddDir ==
  /\ walk = "found"
  /\ IF "dir" \in tree THEN inner' = TRUE /\ walk' = "added" /\ UNCHANGED pending
                       ELSE Collect("trigger", {"dir"}) /\ walk' = "none" /\ UNCHANGED inner
  /\ UNCHANGED <<disk, agentVars, status, queued, tree, inputs, history>>

\* Mutant: what is in the directory already is not reported.
ReadNothing ==
  /\ walk = "added"
  /\ Collect("trigger", {"dir"}) /\ walk' = "none"
  /\ UNCHANGED <<disk, agentVars, status, queued, treeVars, history>>

\* Then it reads the directory and reports what is there.
ReadDir ==
  /\ walk = "added"
  /\ Collect("trigger", {"dir"} \cup tree) /\ walk' = "none"
  /\ UNCHANGED <<disk, agentVars, status, queued, treeVars, history>>

\* Mutant: the channel of requests has no buffer.
FlushUnbuffered(w) ==
  /\ status[w] = "on" /\ (w = "trigger" => walk = "none")
  /\ pending[w] # {}
  /\ pending' = [pending EXCEPT ![w] = {}]
  /\ token' = (token \/ (w # "trigger" /\ pc = "wait"))
  /\ unfired' = unfired \ pending[w]
  /\ UNCHANGED <<disk, cfg, next, pc, first, failed, errs, ended, stopped, leaving,
                 status, queued, walk, treeVars, unseen, discarded>>

\* The debounce time has passed: a request to reload, or a firing of the event.
Flush(w) ==
  /\ status[w] = "on" /\ (w = "trigger" => walk = "none")
  /\ pending[w] # {}
  /\ pending' = [pending EXCEPT ![w] = {}]
  /\ token' = (token \/ w # "trigger")
  /\ unfired' = unfired \ pending[w]
  /\ UNCHANGED <<disk, cfg, next, pc, first, failed, errs, ended, stopped, leaving,
                 status, queued, walk, treeVars, unseen, discarded>>

\* The context has ended: what was collected is discarded.
Quit(w) ==
  /\ ContextEnded(w) /\ status[w] = "on" /\ (w = "trigger" => walk = "none")
  /\ status' = [status EXCEPT ![w] = "off"]
  /\ queued' = [queued EXCEPT ![w] = {}] /\ pending' = [pending EXCEPT ![w] = {}]
  /\ IF w = "trigger" THEN inner' = FALSE /\ unfired' = {} ELSE UNCHANGED <<inner, unfired>>
  /\ UNCHANGED <<disk, agentVars, walk, tree, inputs, unseen, discarded>>

\* A watch on links that lost its context to a reload fires a last time.
LastFlush ==
  /\ leaving /\ token' = TRUE /\ leaving' = FALSE
  /\ UNCHANGED <<disk, cfg, next, pc, first, failed, errs, ended, stopped,
                 watchVars, treeVars, history>>

LastQuit ==
  /\ leaving /\ leaving' = FALSE
  /\ UNCHANGED <<disk, cfg, next, pc, first, failed, token, errs, ended, stopped,
                 watchVars, treeVars, history>>

-----------------------------------------------------------------------------
\* The agent: Run

\* The first configuration was loaded; the queue was opened and recovered.
WatchConfig ==
  /\ pc = "boot" /\ pc' = "start"
  /\ status' = [status EXCEPT !["config"] = "starting"]
  /\ UNCHANGED <<disk, cfg, next, first, failed, token, errs, ended, stopped, leaving,
                 queued, pending, walk, treeVars, history>>

\* startTriggers makes a context and a channel of errors; watchLinks follows.
StartTriggers ==
  /\ pc = "start" /\ pc' = "wait"
  /\ status' = [status EXCEPT !["trigger"] = "starting", !["links"] = "starting"]
  /\ stopped' = FALSE /\ errs' = FALSE
  /\ UNCHANGED <<disk, cfg, next, first, failed, token, ended, leaving,
                 queued, pending, walk, treeVars, history>>

\* Mutant: nobody listens for requests after a trigger failed.
TakeRequestUnlessFailed ==
  /\ pc = "wait" /\ token /\ ~failed
  /\ token' = FALSE /\ pc' = "readMain"
  /\ UNCHANGED <<disk, cfg, next, first, failed, errs, ended, stopped, leaving,
                 watchVars, treeVars, history>>

\* waitForChange and waitForValidConfig: a request to reload.
TakeRequest ==
  /\ pc = "wait" /\ token
  /\ token' = FALSE /\ pc' = "readMain"
  /\ UNCHANGED <<disk, cfg, next, first, failed, errs, ended, stopped, leaving,
                 watchVars, treeVars, history>>

\* waitForChange: a trigger failed.  That of the first configuration ends the
\* agent; later, the agent waits for a new one.
TakeFailure ==
  /\ pc = "wait" /\ errs /\ ~failed
  /\ errs' = FALSE /\ stopped' = TRUE
  /\ pc' = IF ended \/ first THEN "shutdown" ELSE "failing"
  /\ failed' = ~(ended \/ first)
  /\ UNCHANGED <<disk, cfg, next, first, token, ended, leaving,
                 watchVars, treeVars, history>>

TakeEnd ==
  /\ pc = "wait" /\ ended
  /\ stopped' = TRUE /\ pc' = "shutdown"
  /\ UNCHANGED <<disk, cfg, next, first, failed, token, errs, ended, leaving,
                 watchVars, treeVars, history>>

\* config.Load reads the config file, and then the other files.
ReadMain ==
  /\ pc = "readMain" /\ pc' = "readLinked"
  /\ next' = [next EXCEPT !["main"] = disk["main"]]
  /\ UNCHANGED <<disk, cfg, first, failed, token, errs, ended, stopped, leaving,
                 watchVars, treeVars, history>>

ReadLinked ==
  /\ pc = "readLinked"
  /\ LET read == [next EXCEPT !["linked"] = disk["linked"]] IN
       IF \A f \in Files : read[f].valid
         THEN /\ pc' = IF failed THEN "switch" ELSE IF ended THEN "shutdown" ELSE "stopTriggers"
              /\ next' = read /\ stopped' = TRUE
         ELSE pc' = "wait" /\ next' = cfg /\ UNCHANGED stopped
  /\ UNCHANGED <<disk, cfg, first, failed, token, errs, ended, leaving,
                 watchVars, treeVars, history>>

\* Mutant: stop ends the context of the triggers and does not wait for them.
StopsAtOnce ==
  /\ pc \in {"stopTriggers", "failing"}
  /\ pc' = IF pc = "stopTriggers" THEN "switch" ELSE "wait"
  /\ UNCHANGED <<disk, cfg, next, first, failed, token, errs, ended, stopped, leaving,
                 watchVars, treeVars, history>>

\* stop returns when the triggers have.
TriggersStopped ==
  /\ pc \in {"stopTriggers", "failing"} /\ status["trigger"] = "off"
  /\ pc' = IF pc = "stopTriggers" THEN "switch" ELSE "wait"
  /\ UNCHANGED <<disk, cfg, next, first, failed, token, errs, ended, stopped, leaving,
                 watchVars, treeVars, history>>

\* The process exits, and its other goroutines with it.
Exit ==
  /\ pc = "shutdown" /\ status["trigger"] = "off"
  /\ pc' = "gone" /\ token' = FALSE /\ leaving' = FALSE
  /\ status' = [w \in Watchers |-> "off"]
  /\ queued' = [w \in Watchers |-> {}] /\ pending' = queued'
  /\ UNCHANGED <<disk, cfg, next, first, failed, errs, ended, stopped, walk, treeVars, history>>

\* stopLinks, and Configure with the new definitions.  A watch on links takes what
\* it had noticed along.
Switch ==
  /\ pc = "switch" /\ pc' = "start"
  /\ cfg' = next /\ first' = FALSE /\ failed' = FALSE
  /\ status' = [status EXCEPT !["links"] = "off"]
  /\ queued' = [queued EXCEPT !["links"] = {}] /\ pending' = [pending EXCEPT !["links"] = {}]
  /\ leaving' = (leaving \/ pending["links"] # {})
  /\ unseen' = {f \in unseen : next[f] # disk[f]}
  /\ discarded' = /\ discarded \/ "linked" \in queued["links"] \cup pending["links"]
                  /\ next["linked"] # disk["linked"]
  /\ UNCHANGED <<disk, next, token, errs, ended, stopped, walk, treeVars, unfired>>

\* SIGHUP asks for a reload; a request that is already there is enough.
Hangup ==
  /\ "hangup" \in Inputs /\ pc \notin {"boot", "gone"} /\ ~ended
  /\ inputs < MaxInputs /\ inputs' = inputs + 1
  /\ token' = TRUE
  /\ UNCHANGED <<disk, cfg, next, pc, first, failed, errs, ended, stopped, leaving,
                 watchVars, tree, inner, history>>

Stop ==
  /\ "stop" \in Inputs /\ Alive /\ ended' = TRUE
  /\ UNCHANGED <<disk, cfg, next, pc, first, failed, token, errs, stopped, leaving,
                 watchVars, treeVars, history>>

-----------------------------------------------------------------------------

Run == \/ WatchConfig \/ StartTriggers \/ TakeRequest \/ TakeFailure \/ TakeEnd
       \/ ReadMain \/ ReadLinked \/ TriggersStopped \/ Exit \/ Switch

Watch(w) == Open(w) \/ (\E p \in PathsOf(w) : Take(w, p)) \/ Flush(w) \/ Quit(w)

Walk == AddDir \/ ReadDir

Next ==
  \/ Run \/ Walk
  \/ \E w \in Watchers : Watch(w)
  \/ LastFlush \/ LastQuit \/ OpenFails
  \/ \E f \in Files : Save(f)
  \/ MakeDir \/ WriteFile \/ RemoveFile \/ RemoveDir
  \/ Hangup \/ Stop

Spec == Init /\ [][Next]_vars

\* The goroutines run; a debounce time passes once the changes stop; a select sees
\* the end of its context sooner or later.
FairSpec ==
  /\ Spec
  /\ WF_vars(Run) /\ WF_vars(TakeEnd)
  /\ WF_vars(Walk)
  /\ \A w \in Watchers : WF_vars(Watch(w)) /\ WF_vars(Quit(w))

-----------------------------------------------------------------------------
\* Properties

\* A reload that reads every file is on its way.
ReloadComing ==
  \/ token \/ leaving \/ pc = "readMain"
  \/ \E w \in {"config", "links"} : queued[w] \cup pending[w] # {}

\* The files S are in force as they are on disk, or will be read, or were read, or
\* the configuration has errors.
Attended(S) ==
  \/ \A f \in S : cfg[f] = disk[f]
  \/ ReloadComing
  \/ \E f \in Files : ~disk[f].valid
  \/ /\ pc \in {"readLinked", "stopTriggers", "switch"}
     /\ \A f \in S : next[f] = disk[f] \/ (f = "linked" /\ pc = "readLinked")

Kept == IF discarded THEN Files \ {"linked"} ELSE Files

\* The channel of one request, the debounce, a load that reads the files one after
\* the other and the exchange of the watches on links lose no save (waitForChange,
\* requestReload, Run), but for two that they do lose: one made while nobody watched
\* the file, and one of a linked file that its watch noticed after the load had read
\* the file and that stopLinks discards (agent.go:142), which WatchedSavesReload shows.
NoSaveForgotten == Alive /\ ~ended /\ unseen = {} => Attended(Kept)

\* docs/configuration.md: "the agent also watches the file that it points to, so that
\* saving that file, or pulling the repository that holds it, reloads the config too."
WatchedSavesReload == Alive /\ ~ended /\ unseen = {} => Attended(Files)

\* Every change that the trigger could see is in a notification, in the list for
\* the next firing, or in a new directory that it has yet to look into: a file is
\* not overlooked because it was written before the watch on its directory
\* (translate, addTree).
NoChangeForgotten ==
  \A p \in unfired :
    \/ p \in queued["trigger"] \cup pending["trigger"]
    \/ walk # "none" \/ "dir" \in queued["trigger"]

\* The triggers of two configurations never run together, and no trigger fires
\* while the definitions are exchanged (stop, Configure).
OneSetOfTriggers ==
  pc \in {"switch", "start"} => status["trigger"] = "off"

\* What is saved takes effect, or has errors, or the agent ends, but for the two kinds
\* of saves that NoSaveForgotten names (waitForChange, waitForValidConfig).
SavesTakeEffect ==
  Alive ~> \/ \A f \in Kept : cfg[f] = disk[f]
           \/ ended \/ ~Alive \/ unseen # {} \/ \E f \in Files : ~disk[f].valid

\* What changed under the trigger is reported, or discarded with it.
ChangesAreFired ==
  (unfired # {}) ~> (unfired = {})
=============================================================================
