----------------------------- MODULE Dispatcher -----------------------------
(***************************************************************************)
(* kickd's dispatcher, internal/runner/dispatcher.go, with the agent that  *)
(* starts and stops it (internal/agent/agent.go), the goroutine of each    *)
(* run (internal/runner/runner.go) and the subcommands that write to the   *)
(* same database from other processes (cmd/kickd/ops.go).                  *)
(*                                                                         *)
(* The actors are the loop goroutine, one goroutine per started run, the   *)
(* triggers inside the agent, and "kickd event" and "kickd cancel" outside *)
(* it.  A step is one database transaction or one section under d.mu,      *)
(* together with the work around it that no other actor can observe.       *)
(* A crash ends the agent between any two steps and loses all memory.      *)
(***************************************************************************)
EXTENDS Runs

CONSTANTS
  Configs,        \* the configurations the agent may load
  MaxQueued,      \* MaxQueuedPerEvent
  ScheduleBatch,  \* scheduleBatch
  FollowBatch,    \* followBatch
  FullScan,       \* is the scan every fullScanEvery part of the model?
  Retention,      \* database.retention > 0, and the agent may be down longer
  Inputs,         \* what happens to the agent from outside, of AllInputs
  Timed,          \* the events that some definition gives a timeout
  MaxFirings,     \* bound: no trigger fires once this many rows exist
  MaxStarts       \* bound: how many times the agent process starts

\* "kickd event" and "kickd cancel", triggers, webhook callers that wait for
\* their run, reloads, stop requests and crashes.
AllInputs == {"event", "cancel", "trigger", "webhook", "reload", "stop", "crash"}

Policies == {"skip", "queue", "parallel", "replace"}

AfterStatuses ==
  {"succeeded", "failed", "canceled", "skipped", "dropped", "abandoned"}

\* An event definition.  follows gives, for each event that an after trigger
\* of this one names, the statuses that fire it.
Definition == [concurrency : Policies,
          onInterrupt : {"abandon", "rerun"},
          maxAttempts : Nat \ {0},
          restart     : {"never", "on-failure", "always"},
          follows     : [Events -> SUBSET AfterStatuses]]

ASSUME DispatcherAssumption ==
  /\ Configs # {}
  /\ \A c \in Configs : DOMAIN c \subseteq Events /\ c \in [DOMAIN c -> Definition]
  /\ MaxQueued \in Nat \ {0}
  /\ ScheduleBatch \in Nat \ {0}
  /\ FollowBatch \in Nat \ {0}
  /\ FullScan \in BOOLEAN /\ Retention \in BOOLEAN
  /\ Inputs \subseteq AllInputs /\ Timed \subseteq Events
  /\ MaxFirings \in 0 .. MaxRuns
  /\ MaxStarts \in Nat

VARIABLES
  \* the database
  runs,      \* the runs table
  lastId,    \* the last ID that AUTOINCREMENT gave
  stopped,   \* agent.stopped_at is set: the last agent stopped cleanly
  dirty,     \* data_version differs from lastVersion of Loop
  \* the agent process
  agent,     \* how far Run, or its shutdown function, has come
  starts,    \* how many agent processes have started
  specs,     \* d.specs, and with it d.follows
  \* the loop goroutine
  loop,      \* where it is
  todo,      \* the rows it read and has not handled yet
  full,      \* whether that batch was as large as its limit
  except,    \* schedule: the events whose rows the scan leaves out
  newest,    \* schedule: the newest row of each replace event in the batch
  nextDue,   \* the rows among which d.nextDue is the earliest to be due
  raced,     \* history: rows that this step reads neither as due nor as waiting
  wake,      \* the token in d.wake
  \* the dispatcher's maps, under d.mu
  running,   \* d.running
  active,    \* d.active, as run IDs; 0 is no entry
  ctx,       \* d.cancels with the state of each context; "none" is no entry
  waiters,   \* the keys of d.waiters
  \* the goroutines of the runs
  pc,        \* where the goroutine of each run is
  out,       \* the status that its result gives
  answered   \* history: runs whose waiting caller received the result

dbVars     == <<runs, lastId>>
procVars   == <<agent, starts, specs, stopped>>
scanVars   == <<todo, full, except, newest, nextDue, raced>>
mapVars    == <<running, active, ctx, waiters, answered>>
runVars    == <<pc, out>>
vars == <<dbVars, dirty, procVars, loop, scanVars, wake, mapVars, runVars>>

AgentState == {"down", "recovering", "up", "stopping", "waited", "closed"}
LoopState  == {"off", "recover", "idle", "cancels", "follow", "scan", "rows",
               "start"}
CtxState   == {"none", "live", "user", "replaced", "shutdown"}
RunState   == {"none", "exec", "exited", "recorded", "released", "poke"}
Outcome    == {"none", "succeeded", "failed", "canceled", "interrupted"}

TypeOK ==
  /\ runs \in [Ids -> Row]
  /\ lastId \in 0 .. MaxRuns
  /\ stopped \in BOOLEAN /\ dirty \in BOOLEAN
  /\ agent \in AgentState /\ starts \in Nat
  /\ specs \in Configs
  /\ loop \in LoopState
  /\ todo \subseteq Ids /\ newest \subseteq Ids /\ nextDue \subseteq Ids
  /\ raced \subseteq Ids
  /\ full \in BOOLEAN /\ wake \in BOOLEAN
  /\ except \subseteq Events
  /\ running \in [Events -> Nat]
  /\ active \in [Events -> 0 .. MaxRuns]
  /\ ctx \in [Ids -> CtxState]
  /\ waiters \subseteq Ids /\ answered \subseteq Ids
  /\ pc \in [Ids -> RunState]
  /\ out \in [Ids -> Outcome]

-----------------------------------------------------------------------------
\* Helpers

Defined(e) == e \in DOMAIN specs
Policy(e)  == IF Defined(e) THEN specs[e].concurrency ELSE "undefined"
Event(i)   == runs[i].event

\* The limit that a firing of e carries, under the definitions c; 0 is none.
QueueLimit(c, e) == IF c[e].concurrency = "queue" THEN MaxQueued ELSE 0

\* d.r.ctx is done.
Stopping == agent \in {"stopping", "waited", "closed"}

\* Mutant: the loop does not look at data_version.
ExternalUnseen == dirty' = dirty

\* Another process committed.  Loop compares data_version from when it first
\* read it.
External == dirty' = (loop \notin {"off", "recover"})

\* The definitions that a goroutine may still hold: submit and restart read them
\* and release d.mu before they insert, and reloads come in between.
Known == {specs} \cup (IF "reload" \in Inputs THEN Configs ELSE {})

\* The triggers of the agent run, or their last firings are still under way.
TriggersRun == agent \in {"up", "stopping", "waited", "closed"}

Init ==
  /\ runs = EmptyTable /\ lastId = 0
  /\ stopped = FALSE /\ dirty = FALSE
  /\ agent = "down" /\ starts = 0 /\ specs \in Configs
  /\ loop = "off" /\ wake = FALSE
  /\ todo = {} /\ full = FALSE /\ except = {} /\ newest = {}
  /\ nextDue = {} /\ raced = {}
  /\ running = [e \in Events |-> 0]
  /\ active = [e \in Events |-> 0]
  /\ ctx = [i \in Ids |-> "none"]
  /\ waiters = {} /\ answered = {}
  /\ pc = [i \in Ids |-> "none"]
  /\ out = [i \in Ids |-> "none"]

-----------------------------------------------------------------------------
\* Other processes and the passing of time

\* "kickd event": the firing is queued under the limit of the config file.
Fire(e) ==
  /\ "event" \in Inputs /\ lastId < MaxFirings
  /\ \E c \in Configs :
       /\ e \in DOMAIN c
       /\ runs' = Insert(runs, lastId + 1, NewRun(e, "fire", 0), QueueLimit(c, e))
  /\ lastId' = lastId + 1
  /\ External
  /\ UNCHANGED <<procVars, loop, scanVars, wake, mapVars, runVars>>

\* "kickd cancel <run>".
CancelRun(i) ==
  /\ "cancel" \in Inputs
  /\ \/ runs[i].status = "queued"
     \/ runs[i].status = "running" /\ ~runs[i].cancelReq
  /\ runs' = RequestCancel(runs, {i})
  /\ External
  /\ UNCHANGED <<lastId, procVars, loop, scanVars, wake, mapVars, runVars>>

\* "kickd cancel --event": all the open runs of the event in one transaction.
CancelEvent(e) ==
  LET open == {i \in InStatus(runs, {"queued", "running"}) : Event(i) = e}
  IN  /\ "cancel" \in Inputs
      /\ RequestCancel(runs, open) # runs
      /\ runs' = RequestCancel(runs, open)
      /\ External
      /\ UNCHANGED <<lastId, procVars, loop, scanVars, wake, mapVars, runVars>>

\* The restart delay of a run passes.  A step reads the clock for QueuedRuns,
\* which wants the rows that are due, and again for NextNotBefore, which wants
\* those that are not: a row that becomes due in between is in neither.
BecomeDue(i) ==
  /\ runs[i].status # "absent" /\ ~runs[i].due
  /\ runs' = [runs EXCEPT ![i].due = TRUE]
  /\ raced' = IF loop \in {"rows", "start"} /\ runs[i].status = "queued"
                THEN raced \cup {i} ELSE raced
  /\ UNCHANGED <<lastId, dirty, procVars, loop, todo, full, except, newest,
                 nextDue, wake, mapVars, runVars>>

\* The agent is down for longer than the retention.  While it is up, it scans
\* every few seconds, and nothing stays unhandled for as long as that.
LongDowntime ==
  /\ Retention /\ agent = "down"
  /\ \E i \in InStatus(runs, Final \cup {"interrupted"}) : ~runs[i].old
  /\ runs' = [i \in Ids |->
                IF runs[i].status \in Final \cup {"interrupted"}
                  THEN [runs[i] EXCEPT !.old = TRUE] ELSE runs[i]]
  /\ UNCHANGED <<lastId, dirty, procVars, loop, scanVars, wake, mapVars, runVars>>

-----------------------------------------------------------------------------
\* Triggers inside the agent

\* submit, for a trigger or, when wait, for a webhook caller in RunSync.  It
\* holds d.mu across the insert, so the caller waits before the loop can
\* settle the row.  A firing that is dropped at once is answered at once.
Submit(e, wait) ==
  LET id == lastId + 1
  IN  /\ TriggersRun /\ lastId < MaxFirings
      /\ (IF wait THEN "webhook" ELSE "trigger") \in Inputs
      /\ \E c \in Known :
           /\ e \in DOMAIN c
           /\ runs' = Insert(runs, id, NewRun(e, "fire", 0), QueueLimit(c, e))
      /\ lastId' = id
      /\ IF runs'[id].status = "dropped"
           THEN /\ answered' = IF wait THEN answered \cup {id} ELSE answered
                /\ UNCHANGED <<waiters, wake>>
           ELSE /\ waiters' = IF wait THEN waiters \cup {id} ELSE waiters
                /\ wake' = TRUE
                /\ UNCHANGED answered
      /\ UNCHANGED <<dirty, procVars, loop, scanVars, running, active, ctx, runVars>>

-----------------------------------------------------------------------------
\* The agent process: start, configuration, stop, crash

\* Run loads the configuration, gives it to Configure, and Recover reads the
\* runs that the previous process left behind.
StartAgent(c) ==
  /\ agent = "down" /\ starts < MaxStarts
  /\ agent' = "recovering" /\ starts' = starts + 1 /\ specs' = c
  /\ loop' = "recover" /\ todo' = InterruptedRuns(runs)
  /\ wake' = TRUE
  /\ UNCHANGED <<dbVars, stopped, dirty, full, except, newest, nextDue, raced, mapVars, runVars>>

\* One turn of the loop of Recover.
Recover(i) ==
  LET rerun == /\ Defined(Event(i))
               /\ specs[Event(i)].onInterrupt = "rerun"
               /\ runs[i].attempt < specs[Event(i)].maxAttempts
  IN  /\ loop = "recover" /\ i \in Oldest(todo, 1)
      /\ IF rerun
           THEN /\ lastId < MaxRuns
                /\ runs' = Retry(runs, i, lastId + 1) /\ lastId' = lastId + 1
           ELSE runs' = Abandon(runs, i) /\ UNCHANGED lastId
      /\ todo' = todo \ {i}
      /\ UNCHANGED <<dirty, procVars, loop, full, except, newest, nextDue, raced, wake,
                     mapVars, runVars>>

\* Loop starts: heartbeat (which clears stopped_at), prune, data_version.  It
\* goes on to its first step; the triggers start.
StartLoop ==
  /\ loop = "recover" /\ todo = {}
  /\ agent' = "up" /\ stopped' = FALSE /\ dirty' = FALSE
  /\ runs' = IF Retention THEN Prune(runs) ELSE runs
  /\ loop' = "cancels" /\ todo' = CancelRequests(runs')
  /\ UNCHANGED <<lastId, starts, specs, full, except, newest, nextDue, raced, wake,
                 mapVars, runVars>>

\* Mutant: Configure without the poke.
ConfigureQuiet(c) ==
  /\ "reload" \in Inputs /\ agent = "up" /\ c # specs
  /\ specs' = c
  /\ UNCHANGED <<dbVars, dirty, agent, starts, stopped, loop, scanVars, wake, mapVars, runVars>>

\* A reload: Configure with the new definitions, while runs go on.
Configure(c) ==
  /\ "reload" \in Inputs /\ agent = "up" /\ c # specs
  /\ specs' = c /\ wake' = TRUE
  /\ UNCHANGED <<dbVars, dirty, agent, starts, stopped, loop, scanVars, mapVars, runVars>>

\* A stop request ends d.r.ctx, and with it the context of every run.  No
\* process reads the database after the last one that MaxStarts allows, so that
\* one is neither stopped nor crashes.
Stop ==
  /\ "stop" \in Inputs /\ agent = "up" /\ starts < MaxStarts
  /\ agent' = "stopping"
  /\ ctx' = [i \in Ids |-> IF ctx[i] = "live" THEN "shutdown" ELSE ctx[i]]
  /\ UNCHANGED <<dbVars, dirty, starts, specs, stopped, loop, scanVars, wake,
                 running, active, waiters, answered, runVars>>

\* rn.Wait returns once no run is in flight.
WaitReturns ==
  /\ agent = "stopping" /\ \A i \in Ids : pc[i] = "none"
  /\ agent' = "waited"
  /\ UNCHANGED <<dbVars, dirty, starts, specs, stopped, loop, scanVars, wake,
                 mapVars, runVars>>

\* stopLoop and <-loopDone.  What Loop still does fails, because its database
\* calls take the context that ended.
StopLoop ==
  /\ agent = "waited"
  /\ agent' = "closed" /\ loop' = "off" /\ todo' = {}
  /\ UNCHANGED <<dbVars, dirty, starts, specs, stopped, full, except, newest,
                 nextDue, raced, wake, mapVars, runVars>>

\* The process is gone, and its memory with it.
LoseMemory ==
  /\ agent' = "down" /\ loop' = "off" /\ wake' = FALSE /\ dirty' = FALSE
  /\ todo' = {} /\ full' = FALSE /\ except' = {} /\ newest' = {}
  /\ nextDue' = {} /\ raced' = {}
  /\ running' = [e \in Events |-> 0]
  /\ active' = [e \in Events |-> 0]
  /\ ctx' = [i \in Ids |-> "none"]
  /\ waiters' = {} /\ answered' = {}
  /\ pc' = [i \in Ids |-> "none"]
  /\ out' = [i \in Ids |-> "none"]
  /\ UNCHANGED <<dbVars, starts, specs>>

\* AgentStopped, and the process exits.
ExitAgent == agent = "closed" /\ stopped' = TRUE /\ LoseMemory

Crash ==
  /\ "crash" \in Inputs /\ agent # "down" /\ starts < MaxStarts
  /\ UNCHANGED stopped
  /\ LoseMemory

-----------------------------------------------------------------------------
\* The loop goroutine

\* step: nothing once d.r.ctx is done, else processCancels reads the requests.
BeginStep ==
  IF Stopping THEN UNCHANGED <<loop, todo>>
              ELSE loop' = "cancels" /\ todo' = CancelRequests(runs)

\* case <-d.wake.  lastVersion stays as it is.
Wake ==
  /\ loop = "idle" /\ wake
  /\ wake' = FALSE
  /\ BeginStep
  /\ UNCHANGED <<dbVars, dirty, procVars, full, except, newest, nextDue, raced,
                 mapVars, runVars>>

\* case now := <-tick.C, when it leads to a step.
Tick ==
  /\ loop = "idle"
  /\ dirty \/ FullScan \/ \E i \in nextDue : runs[i].due
  /\ dirty' = FALSE
  /\ BeginStep
  /\ UNCHANGED <<dbVars, procVars, full, except, newest, nextDue, raced, wake,
                 mapVars, runVars>>

\* One turn of processCancels: cancel the command of this process, or record
\* the cancellation of a row that no command of this process backs.
\* cancelSent is left out: a context that is done ignores a second cancel.
ProcessCancel(i) ==
  /\ loop = "cancels" /\ i \in Oldest(todo, 1)
  /\ IF ctx[i] # "none"
       THEN /\ ctx' = [ctx EXCEPT ![i] = IF @ = "live" THEN "user" ELSE @]
            /\ UNCHANGED runs
       ELSE runs' = FinishRun(runs, i, "canceled") /\ UNCHANGED ctx
  /\ todo' = todo \ {i}
  /\ UNCHANGED <<lastId, dirty, procVars, loop, full, except, newest, nextDue, raced,
                 wake, running, active, waiters, answered, runVars>>

\* Mutant: one batch in a step.
ReadEndedOnce ==
  LET batch == UnfollowedRuns(runs, FollowBatch)
  IN  /\ todo = {} /\ loop = "cancels"
      /\ loop' = "follow" /\ todo' = batch /\ full' = FALSE
      /\ UNCHANGED <<dbVars, dirty, procVars, except, newest, nextDue, raced, wake,
                     mapVars, runVars>>

\* follow reads a batch of ended runs: first, and again after a full batch.
ReadEnded ==
  LET batch == UnfollowedRuns(runs, FollowBatch)
  IN  /\ todo = {}
      /\ loop = "cancels" \/ (loop = "follow" /\ full)
      /\ loop' = "follow" /\ todo' = batch
      /\ full' = (Cardinality(batch) = FollowBatch)
      /\ UNCHANGED <<dbVars, dirty, procVars, except, newest, nextDue, raced, wake,
                     mapVars, runVars>>

\* The events that the end of run i fires.
Followers(i) ==
  {e \in DOMAIN specs : /\ runs[i].status # "retried"
                        /\ runs[i].status \in specs[e].follows[Event(i)]}

\* One turn of follow: the firings and the mark commit together.  The poke
\* for a firing that was queued may come early: only this goroutine takes it.
FollowRun(i) ==
  LET fired == Followers(i)
      ids   == lastId + 1 .. lastId + Cardinality(fired)
      max   == [e \in fired |-> QueueLimit(specs, e)]
  IN  /\ loop = "follow" /\ i \in Oldest(todo, 1)
      /\ lastId + Cardinality(fired) <= MaxRuns
      /\ \E slot \in [fired -> ids] :
           /\ \A e, f \in fired : slot[e] = slot[f] => e = f
           /\ runs' = Follow(runs, i, slot, max)
      /\ lastId' = lastId + Cardinality(fired)
      /\ wake' = (wake \/ \E j \in ids : runs'[j].status = "queued")
      /\ todo' = todo \ {i}
      /\ UNCHANGED <<dirty, procVars, loop, full, except, newest, nextDue, raced,
                     mapVars, runVars>>

-----------------------------------------------------------------------------
\* schedule

\* Under d.mu: the events that run and whose rows must wait.
BeginScan ==
  /\ loop = "follow" /\ todo = {} /\ ~full
  /\ except' = {e \in Events : running[e] > 0 /\ Policy(e) = "queue"}
  /\ loop' = "scan"
  /\ UNCHANGED <<dbVars, dirty, procVars, todo, full, newest, nextDue, raced, wake,
                 mapVars, runVars>>

ReadQueued ==
  LET batch == QueuedRuns(runs, ScheduleBatch, except)
  IN  /\ loop = "scan" /\ loop' = "rows"
      /\ todo' = batch /\ full' = (Cardinality(batch) = ScheduleBatch)
      /\ newest' = {i \in batch :
                      /\ Policy(Event(i)) = "replace"
                      /\ \A j \in batch : Event(j) = Event(i) => j <= i}
      /\ except' = {} /\ raced' = {}
      /\ UNCHANGED <<dbVars, dirty, procVars, nextDue, wake, mapVars, runVars>>

\* The loop is done with row i, and goes on with the next one.  A batch that
\* was full and of which some row made progress wakes the loop again; the poke
\* may come early, since only this goroutine takes it.
RowDone(i, progressed) ==
  /\ todo' = todo \ {i}
  /\ loop' = "rows"
  /\ wake' = (wake \/ (progressed /\ full))
  /\ UNCHANGED <<lastId, dirty, procVars, full, except, newest, nextDue, raced>>

\* Mutant: only the caller of a skipped run is told.
SettleRowSkipped(i, st) ==
  /\ runs' = Settle(runs, i, st)
  /\ IF runs' # runs /\ st = "skipped"
       THEN /\ answered' = answered \cup (waiters \cap {i})
            /\ waiters' = waiters \ {i}
       ELSE UNCHANGED <<answered, waiters>>
  /\ UNCHANGED <<running, active, ctx, runVars>>

\* settle: a row that is still queued becomes final, and its caller is told.
SettleRow(i, st) ==
  /\ runs' = Settle(runs, i, st)
  /\ IF runs' # runs
       THEN /\ answered' = answered \cup (waiters \cap {i})
            /\ waiters' = waiters \ {i}
       ELSE UNCHANGED <<answered, waiters>>
  /\ UNCHANGED <<running, active, ctx, runVars>>

\* A row with a newer one of its replace event in the batch never starts.
Superseded(i) == \E n \in newest : Event(n) = Event(i) /\ n # i

SettleReplaced(i) ==
  /\ loop = "rows" /\ i \in Oldest(todo, 1) /\ Superseded(i)
  /\ SettleRow(i, "skipped")
  /\ RowDone(i, TRUE)

\* The check of d.r.ctx: past it, the row is handled even if a stop request
\* comes now.
CheckRow(i) ==
  /\ loop = "rows" /\ i \in Oldest(todo, 1) /\ ~Superseded(i)
  /\ IF Stopping THEN todo' = {} /\ UNCHANGED loop
                 ELSE loop' = "start" /\ UNCHANGED todo
  /\ UNCHANGED <<dbVars, dirty, procVars, full, except, newest, nextDue, raced, wake,
                 mapVars, runVars>>

AtRow(i) == loop = "start" /\ i \in Oldest(todo, 1)

RestartDisabled(i) ==
  Defined(Event(i)) /\ runs[i].kind = "restart" /\ specs[Event(i)].restart = "never"

\* The event was removed, or stopped restarting while this restart waited.
DropRow(i) ==
  /\ AtRow(i)
  /\ ~Defined(Event(i)) \/ RestartDisabled(i)
  /\ SettleRow(i, "dropped")
  /\ RowDone(i, TRUE)

Startable(i) == Defined(Event(i)) /\ ~RestartDisabled(i)

\* Mutant: the activeRun entry decides.
BusyActive(i) == active[Event(i)] # 0 /\ Policy(Event(i)) # "parallel"

Busy(i) == running[Event(i)] > 0 /\ Policy(Event(i)) # "parallel"

SkipRow(i) ==
  /\ AtRow(i) /\ Startable(i) /\ Busy(i) /\ Policy(Event(i)) = "skip"
  /\ SettleRow(i, "skipped")
  /\ RowDone(i, TRUE)

KeepRow(i) ==
  /\ AtRow(i) /\ Startable(i) /\ Busy(i) /\ Policy(Event(i)) = "queue"
  /\ RowDone(i, FALSE)
  /\ UNCHANGED <<runs, mapVars, runVars>>

\* The run in progress is asked to stop; the firing stays queued meanwhile.
\* a.replacing is left out, as cancelSent is.
ReplaceRun(i) ==
  LET a == active[Event(i)]
  IN  /\ AtRow(i) /\ Startable(i) /\ Busy(i) /\ Policy(Event(i)) = "replace"
      /\ ctx' = [j \in Ids |-> IF j = a /\ ctx[j] = "live" THEN "replaced" ELSE ctx[j]]
      /\ RowDone(i, FALSE)
      /\ UNCHANGED <<runs, running, active, waiters, answered, runVars>>

\* Mutant: the runs of a parallel event are not counted.
CountedExclusive(e) ==
  IF Policy(e) = "parallel" THEN running ELSE [running EXCEPT ![e] = @ + 1]

Counted(e) == [running EXCEPT ![e] = @ + 1]

\* StartRun and, when the row was still queued, the start of its goroutine.
\* A run that starts after the stop request has a context that is done.
Start(i) ==
  /\ AtRow(i) /\ Startable(i) /\ ~Busy(i)
  /\ runs' = StartRun(runs, i)
  /\ IF runs' # runs
       THEN /\ running' = Counted(Event(i))
            /\ active' = IF Policy(Event(i)) = "parallel" THEN active
                         ELSE [active EXCEPT ![Event(i)] = i]
            /\ ctx' = [ctx EXCEPT ![i] = IF Stopping THEN "shutdown" ELSE "live"]
            /\ pc' = [pc EXCEPT ![i] = "exec"]
            /\ RowDone(i, TRUE)
       ELSE /\ RowDone(i, FALSE)
            /\ UNCHANGED <<running, active, ctx, pc>>
  /\ UNCHANGED <<waiters, answered, out>>

\* Mutant: what a step before this one read stays.
EndStepStale ==
  /\ loop = "rows" /\ todo = {}
  /\ loop' = "idle" /\ full' = FALSE /\ newest' = {}
  /\ UNCHANGED <<dbVars, dirty, procVars, todo, except, nextDue, raced, wake, mapVars, runVars>>

\* step ends with NextNotBefore.
EndStep ==
  /\ loop = "rows" /\ todo = {}
  /\ nextDue' = WaitingRuns(runs)
  /\ loop' = "idle" /\ full' = FALSE /\ newest' = {}
  /\ UNCHANGED <<dbVars, dirty, procVars, todo, except, raced, wake, mapVars, runVars>>

-----------------------------------------------------------------------------
\* The goroutine of a run: execute, then finish

\* How run i may end, given why the dispatcher canceled its context, before its
\* command started or while it ran, whatever the stop command and the signals do
\* to it (RunContract): "failed" is a failure to start, or a timeout that came
\* first; a timeout that execute sees late is recorded as a stop of kickd is.
Results(i) ==
  {"failed"} \cup (IF Event(i) \in Timed THEN {"interrupted"} ELSE {})
             \cup CASE ctx[i] = "live"     -> {"succeeded"}
                    [] ctx[i] = "shutdown" -> {"interrupted"}
                    [] OTHER               -> {"canceled"}

\* The command ends.
CommandEnds(i) ==
  /\ pc[i] = "exec"
  /\ \E o \in Results(i) : out' = [out EXCEPT ![i] = o]
  /\ pc' = [pc EXCEPT ![i] = "exited"]
  /\ UNCHANGED <<dbVars, dirty, procVars, loop, scanVars, wake, mapVars>>

\* finish, the database: FinishRun.
RecordRun(i) ==
  /\ pc[i] = "exited"
  /\ runs' = FinishRun(runs, i, out[i])
  /\ pc' = [pc EXCEPT ![i] = "recorded"]
  /\ UNCHANGED <<lastId, dirty, procVars, loop, scanVars, wake, mapVars, out>>

\* Mutant: the run of an event that was removed stays counted.
UncountedDefined(e) ==
  IF Defined(e) THEN [running EXCEPT ![e] = @ - 1] ELSE running

Uncounted(e) == [running EXCEPT ![e] = @ - 1]

\* finish, under d.mu: the maps; then the waiting caller is told.
ReleaseRun(i) ==
  /\ pc[i] = "recorded"
  /\ running' = Uncounted(Event(i))
  /\ active' = IF active[Event(i)] = i THEN [active EXCEPT ![Event(i)] = 0] ELSE active
  /\ ctx' = [ctx EXCEPT ![i] = "none"]
  /\ answered' = answered \cup (waiters \cap {i})
  /\ waiters' = waiters \ {i}
  /\ pc' = [pc EXCEPT ![i] = "released"]
  /\ UNCHANGED <<dbVars, dirty, procVars, loop, scanVars, wake, out>>

\* restart: does the event start again after this run?
Restarts(i) ==
  /\ ~Stopping /\ Defined(Event(i))
  /\ CASE specs[Event(i)].restart = "always"     -> out[i] \in {"succeeded", "failed"}
       [] specs[Event(i)].restart = "on-failure" -> out[i] = "failed"
       [] OTHER -> FALSE

\* The restart waits in the queue for its delay.
EnqueueRestart(i) ==
  LET e == Event(i)
  IN  /\ pc[i] = "released" /\ Restarts(i)
      /\ lastId < MaxRuns
      /\ \E c \in Known :
           /\ e \in DOMAIN c
           /\ runs' = Insert(runs, lastId + 1, Delayed(NewRun(e, "restart", 0)), QueueLimit(c, e))
      /\ lastId' = lastId + 1
      /\ pc' = [pc EXCEPT ![i] = "poke"]
      /\ UNCHANGED <<dirty, procVars, loop, scanVars, wake, mapVars, out>>

\* The last poke, and the end of the goroutine: inflight.add(-1).
EndRun(i) ==
  /\ pc[i] = "poke" \/ (pc[i] = "released" /\ ~Restarts(i))
  /\ wake' = TRUE
  /\ pc' = [pc EXCEPT ![i] = "none"]
  /\ out' = [out EXCEPT ![i] = "none"]
  /\ UNCHANGED <<dbVars, dirty, procVars, loop, scanVars, mapVars>>

-----------------------------------------------------------------------------
Outside ==
  \/ \E e \in Events : Fire(e) \/ CancelEvent(e)
  \/ \E i \in Ids : CancelRun(i) \/ BecomeDue(i)
  \/ \E e \in Events, wait \in BOOLEAN : Submit(e, wait)
  \/ LongDowntime

Process ==
  \/ \E c \in Configs : StartAgent(c) \/ Configure(c)
  \/ \E i \in Ids : Recover(i)
  \/ StartLoop \/ Stop \/ WaitReturns \/ StopLoop \/ ExitAgent \/ Crash

HandleRow(i) ==
  \/ SettleReplaced(i) \/ CheckRow(i) \/ DropRow(i) \/ SkipRow(i) \/ KeepRow(i)
  \/ ReplaceRun(i) \/ Start(i)

Loop ==
  \/ Wake \/ Tick \/ ReadEnded \/ BeginScan \/ ReadQueued \/ EndStep
  \/ \E i \in Ids : ProcessCancel(i) \/ FollowRun(i) \/ HandleRow(i)

Run(i) ==
  CommandEnds(i) \/ RecordRun(i) \/ ReleaseRun(i) \/ EnqueueRestart(i) \/ EndRun(i)

Next == Outside \/ Process \/ Loop \/ \E i \in Ids : Run(i)

Spec == Init /\ [][Next]_vars

\* Goroutines are scheduled, commands end (a stopped one is killed), delays
\* pass, and a recovery that began goes on.  Nothing is fair about triggers,
\* users, stop requests, crashes and starts.
Fairness ==
  /\ WF_vars(Loop)
  /\ WF_vars(StartLoop) /\ WF_vars(WaitReturns) /\ WF_vars(StopLoop)
  /\ WF_vars(ExitAgent)
  /\ WF_vars(\E i \in Ids : Recover(i)) /\ WF_vars(\E i \in Ids : BecomeDue(i))
  /\ \A i \in Ids : WF_vars(Run(i))

FairSpec == Spec /\ Fairness
=============================================================================
