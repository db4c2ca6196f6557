# A TLA+ model of kickd

kickd runs commands when events fire: on a schedule, on a webhook call, on a
file change, after another event, or by hand. Every firing is a row of a SQLite
table first, and an agent consumes the rows. This directory models that system
in TLA+, checks the model with TLC and proves what matters most of it with TLAPS.
File and line references are to the repository at the commit it was written for.

## 1. The system

| part | source | state | operations |
|---|---|---|---|
| runs table | `internal/queue/store.go` | the rows of `runs`, the row of `agent` | Enqueue, Retry, Follow, StartRun, FinishRun, Settle, RequestCancel, Prune, queries |
| dispatcher | `internal/runner/dispatcher.go` | definitions, counters, active runs, cancel functions, waiting callers, wake token, `nextDue` | Configure, Recover, submit, Loop and its step, finish, restart |
| runner | `internal/runner/runner.go` | the runs in flight, the open output files | spawn, execute, the two-phase stop, openOutput, Wait |
| agent | `internal/agent/agent.go` | the configuration in force, the triggers that run | Run, reload, shutdown, the config watchers |
| cron trigger | `internal/trigger/cron.go` | next times, saved positions | load, wait, check, fire, save |
| file trigger | `internal/trigger/file.go` | watches, pending changes, debounce timer | translate, addTree, flush |
| webhook server | `internal/trigger/webhook.go` | routes, the requests under way | Register, its handlers, Run |
| wake trigger | `internal/trigger/wake.go` | the last reading | Run |
| subcommands | `cmd/kickd/ops.go` | none | event, cancel, history, status, waitRun |
| configuration | `internal/config/config.go` | none | Load, validate, Apply, afterCycle |
| rotating file | `internal/logging/rotate.go` | the open file, its size, the generations | Write, rotate |
| logging | `internal/logging` | none | formatting, masking |

How they interact. Triggers inside the agent call `submit`, which inserts a row
and pokes the loop through a channel of one token. `kickd event` and `kickd
cancel` are other processes: they commit to the same database, and the loop
notices by `PRAGMA data_version`, every 200 ms. The loop is one goroutine. A step
handles cancel requests, hands ended runs to after triggers, then reads a batch
of due rows and applies each event's concurrency policy. A run that starts is a
goroutine of its own; it executes the command, records the outcome, releases the
dispatcher's maps under `d.mu`, answers a waiting webhook caller, perhaps queues a
restart, and pokes the loop. A reload swaps the definitions under all of this. A
stop request ends one context that every run inherits; a crash ends everything at
any point, and the next process starts with `Recover`.

What makes it hard: four kinds of actors over one table and a handful of maps,
batches read in one transaction and acted on in later ones, memory (counters,
waiting callers) that must agree with rows other processes may change, wakeups
that must not be lost, and crashes between any two commits.

What makes each part correct:

- runs table: an ID is inserted once; a run that was retried has one successor;
  the firing of an after trigger and the mark of its cause commit together.
- dispatcher: the counter is exact; an exclusive event runs once at a time; rows
  and goroutines agree; no row is forgotten; every caller is answered, after the
  outcome is recorded.
- agent: recovery settles everything a previous process left; a reload keeps the queue,
  the runs in progress and the positions of cron triggers. It does not keep everything:
  changes that a file trigger has collected are discarded, requests that come between two
  webhook servers are refused, and a save of a linked file may go unnoticed.
- cron: every scheduled time fires once, across reloads, sleeps and restarts.
- file trigger: every change is reported by some firing; a burst by one.
- runner: a run that kickd began to stop ends, is recorded with the reason, and leaves no
  process of its group behind; nothing is killed before it was asked to stop; a run that ends ends once.
- output: whole lines, all of them, in order, across rotations, crashes and runs that share
  a file.
- webhook server: what a client is told is what the database says; a reload or a stop does
  not wait for a slow client.
- wake trigger: every long sleep fires once, readings that fail included.
- `kickd event --wait`: the exit code is that of the last attempt, whatever repeats or
  deletes the rows meanwhile.
- configuration: a cycle of after triggers is refused, and nothing else for that reason; a
  command receives the parameters that the definition declares.

## 2. Modules

| module | what it is |
|---|---|
| `Runs` | the statements and transactions of the store, as functions of the table |
| `Dispatcher` | the loop, the goroutines of runs, triggers, reloads, start, stop, crash, and the subcommands |
| `DispatcherProperties` | what the dispatcher promises, and promises of the repository it breaks |
| `RunQueue` | the abstract queue of runs that the dispatcher implements |
| `MCDispatcher` | definitions and configurations for TLC |
| `DispatcherProofs` | theorems about the dispatcher's maps, the rows and the goroutines, for every value of the constants |
| `RunQueueProofs` | theorems about what becomes of runs: chains of attempts, after triggers, the refinement of `RunQueue` |
| `WakeupProofs` | theorems about what the loop has seen when it sleeps |
| `RunsProofs` | lemmas about the statements of the store, for the modules that prove about tables |
| `RunContract` | what the dispatcher relies on of a command: one reason, one end, a status that fits |
| `Command` | one command: `execute`, `stop`, the stop command, its process group, and what os/exec adds; implements `RunContract` |
| `Output` | the output file that runs share: lines, openings, rotation, crashes |
| `WaitRun` | `waitRun` as a reader of a table that anybody may change; over `Runs` |
| `Backoff` | the delay of restarts |
| `MCRunner` | the four modules above for TLC |
| `Cron` | one cron trigger: its scheduler, its position in the database, reloads, stops, crashes and the clock |
| `Webhook` | requests from their arrival to the response, with what they need of the dispatcher and of the agent |
| `Wake` | the wake trigger: sleeps and readings |
| `AfterCycle` | the search for cycles of after triggers |
| `Params` | the parameters of an event from the firing to the command |
| `MCTriggers` | the five modules above for TLC |
| `Agent` | the agent between start and stop: the configuration files, the watches on them, the loop that loads them again, and the file trigger that it stops and starts |
| `MCAgent` | the module that TLC checks for it |
| `AgentProofs` | theorems about `Agent` and `AfterCycle` |
| `RunnerProofs` | theorems about `Command` and `WaitRun` |
| `FiringProofs` | theorems about `Cron`, `Wake`, `Params` and `Webhook` |
| `OutputProofs` | theorems about `Output` and `Backoff`, and the induction that they need |

Each component's module ends with its properties; `Dispatcher` has so many that they have a
module of their own. The parts that `MCRunner` and `MCTriggers` put together share no state:
the variable `part` picks one of them in the initial state, the behaviour follows that part,
and the others stay as they begin. So one run checks several modules without a product of
their states. Where parts do meet, the modules state what each relies on: `Dispatcher` ends a
command by any status that `RunContract` allows and `Command` implements it; `WaitRun` and
`Dispatcher` use the same statements of `Runs`, and `WaitRun` allows more of them than
any agent uses; `Webhook` has the steps of the dispatcher that a request can see.

### How `Dispatcher` corresponds to the code

One action is one SQLite transaction or one section under `d.mu`, with what
surrounds it that no other actor sees.

| code | actions |
|---|---|
| `cli.event`, `cli.cancel`, `cli.cancelEvent` | `Fire`, `CancelRun`, `CancelEvent` |
| `submit`, `RunSync` | `Submit(e, wait)` |
| `agent.Run` up to the loop; `Recover` | `StartAgent`, `Recover(i)`, `StartLoop` |
| reload: `Configure` | `Configure(c)` |
| stop request; `rn.Wait`; `stopLoop`; `AgentStopped` | `Stop`, `WaitReturns`, `StopLoop`, `ExitAgent` |
| the process dies | `Crash` |
| `Loop`'s select | `Wake`, `Tick` |
| `processCancels` | `ProcessCancel(i)`, one row a turn |
| `follow` | `ReadEnded`, `FollowRun(i)` |
| `schedule` | `BeginScan`, `ReadQueued`, then one row a turn: `SettleReplaced`, `CheckRow`, `DropRow`, `SkipRow`, `KeepRow`, `ReplaceRun`, `Start`; `EndStep` |
| `execute`, `finish`, `restart` | `CommandEnds`, `RecordRun`, `ReleaseRun`, `EnqueueRestart`, `EndRun` |

The rows of a batch are handled in ascending ID, so `todo` is a set of IDs and the
next row its least element. `loop` and `pc[i]` are the program counters of the loop
and of the goroutine of run `i`. `raced` is a history variable: the restarts that became
due after a step had read the due rows (store.go:483) and before it read the clock again
for the next one that is not due (store.go:498).

### How `Cron` corresponds to the code

| code | actions |
|---|---|
| `startTriggers`; `stop` | `StartScheduler`; `Cancel` |
| the process dies | `Crash` |
| `Run` up to its loop: `now`, `load` | `ReadClock`, `Load`, `Record` |
| `check`: the loop over `schedule.Next`, `save`, `fire` | `Check`, `Save`, `Fire` |
| the select of `Run` | `Check` after the timer, `Return` after the end of the context |
| the wall clock | `Pass`, `Back` |

`check` finds the due times and then writes the position and fires in two steps, under
two contexts: `save` under that of the triggers, `fire` through `submit` under none that
ends. `stage` is where `Run` is. `cause` is the state of the first. `handled`, `lost`, `again` and `base` are history
variables: no guard reads them.

### How `Agent` corresponds to the code

| code | actions |
|---|---|
| `agent.Run` from its start to `watchConfig` | `WatchConfig` |
| `startTriggers`, `watchLinks` | `StartTriggers`; a trigger that fails is `OpenFails` |
| `waitForChange`, `waitForValidConfig` | `TakeRequest`, `TakeFailure`, `TakeEnd` |
| `config.Load` | `ReadMain`, `ReadLinked` |
| `stop` of `startTriggers` | `stopped'` where its caller calls it, then `TriggersStopped` |
| `stopLinks`, `Configure` | `Switch` |
| `shutdown` | `Exit` |
| `requestReload`, `notifyHangup` | `Flush`, `LastFlush`; `Hangup` |
| `FileWatcher.Run` | `Open`, `Take`, `Flush`, `Quit` |
| `translate`, `addTree` | `Take`, `AddDir`, `ReadDir` |

`watchConfig`, `watchLinks` and a file trigger all run a `FileWatcher`; the three
watchers "config", "links" and "trigger" take the same actions. What differs is the
context they live under and what they do when the debounce time has passed. `walk` is
how far `translate` is with a directory that it was told of: between the notification,
the watch (`addTree`) and the reading of the directory, files in it come and go.
`unfired`, `unseen` and `discarded` are history variables: changes that the trigger could
see and has not reported, files saved while nobody watched them, and whether `stopLinks`
(agent.go:142) ended a watch that had noticed a save of the linked file.

### How `Command` corresponds to the code

| code | actions |
|---|---|
| a cancel, a replacement, the stop of the agent; the timeout of the event | `EndContext(r)`; `Timeout` |
| `execute` up to `cmd.Start` | `Start` |
| `Cmd.Wait`: the process, then the output | `Reap`, `Drained`, `DrainTimeout` |
| `execute` after the command: `killTree`; the timeout; the other outcomes | `Sweep`; `ClassifyTimeout`; `Classify` |
| `Cmd.watchCtx`, which calls `cmd.Cancel` | `HandNothing`, `BeginStop`, `HandTimer`, `KillLeader`, `HandResult` |
| `stop`, `runStopCommand` | `BeginStop`, `StopCommandEnds`, `Terminate` |
| the processes of the command | `LeaderEnds`, `Fork(c)`, `ChildEnds(c)` |

`pc` is where `execute` is and `watcher` where the goroutine of os/exec is. After the command,
`execute` reads the context three times, in three actions: for the rest of the group
(runner.go:319), for a timeout (335), and for every other outcome (339). The context may end
between any two of them. os/exec is not
part of the repository: its two goroutines are modelled from what its documentation says of
`Cancel` and `WaitDelay`, and from how `execute` uses them.

### How `Output` corresponds to the code

| code | actions |
|---|---|
| `openOutput`; its `release` | `OpenOutput(r)`; `Release(r)` |
| `lineWriter.Write`, `flush` | `Receive(s)`, `Flush(s)`, `Flushed(s)` |
| `rotatingFile.Write` | `TakeTurn(s)`, `WritePiece` |
| `rotate` | `RemoveOldest`, `Rename`, `Reopen`, one system call a step |
| the process dies | `OutputCrash` |

### How `WaitRun` and `Backoff` correspond to the code

`GetRun`, `RetryOf` and `Tick` are the steps of the loop of `waitRun`, one query each;
`Report` is `reportRuns`; `QueryFails` and `WaitTimeout` are its other ways out. `Leaves`,
`Ends`, `Recovers`, `Ages` and `Prune` are what other processes do to the table between two
queries, with the statements of `Runs`. In `Backoff`, `RestartAfter` is the computation of the
delay in `restart`, and `ChangeSetting` a reload, which leaves `restartDelays` alone.

### How `Webhook`, `Wake`, `AfterCycle` and `Params` correspond to the code

| code | actions |
|---|---|
| the handler of a route | `Arrive`, `Refuse`, `SubmitFails`, `Submitted`, `Reply`, `Leave` |
| `submit`, `RunSync` | `Submitted`, `SubmitFails`; `Reply`, `Leave` |
| `schedule`, `settle`, `finish`, `processCancels` as a request sees them | `Consume`, `FinishHookRun`, `Tell`, `CancelTooLate` |
| `kickd cancel` | `CancelByUser` |
| `webhook.Run` and the agent around it | `ReloadHook`, `Signal`, `CloseAtStop`, `Expire`, `NextServer`, `CloseServer`, `ProcessEnds` |
| `wake.Run` | `StartWatch`, `ReadSlept`, `ReadFails`, `StopWatch` |
| the machine | `Sleep(d)` |
| `afterCycle`: its loop, `visit` | `VisitEvent`, `VisitFollowed`, `LeaveEvent` |
| `kickd event` with `Apply`; a route; any other trigger | `FireManually`, `FireByWebhook`, `FireWithout` |
| `schedule`, `finish`, `restart`, as far as parameters go | `StartWithParams`, `EndRun`, `RestartRun` |
| a save; a reload; a restart of the agent | `Edit`, `LoadFiles`, `StartOver` |

In `AfterCycle`, `path` is the stack of the recursive function `visit` and `left` what each
call of it has not looked at. In `Params`, `firedBy`, `passed` and `ranUnder` are history
variables; so are `owed`, `began` and `fired` of `Wake` and `written` of `Output`.

### Abstractions

Of `Dispatcher`:

- Time is two comparisons. `due` says that `not_before` has passed, `old` that
  `finished_at` is before `now - retention`. `BecomeDue` and `LongDowntime` change
  them. Rows become old only while the agent is down: while it is up it scans every
  few seconds, so nothing that matters stays unhandled for the length of the
  retention, and the hourly prune finds what the prune at start finds.
- `cancelSent` and `a.replacing` only keep the code from canceling a context twice;
  the first cause of a context wins, so they are left out.
- Payloads are always readable, and database calls succeed, but for those of a loop
  whose context ended (`StopLoop`). The `skipped` counter and log lines are left out.
- An event has at most one after trigger per event that it follows; `follows` is the
  set of statuses that it names.
- The poke that the code sends at the end of `follow` and of `schedule` may come
  earlier in the model. Only the loop takes the token, and it is past its select.
- A caller that leaves `RunSync` because its client hung up is in `Webhook` (`Leave`) only.
- A row that is dropped, skipped or replaced is decided and settled in one action.
  The decision is made under `d.mu` and the settle is a transaction after it; what
  may come in between (a reload, a cancel) commutes with one of the two.
- `submit` and `restart` release `d.mu` between reading the definition and inserting
  the row. `Known` lets the insert use any definition that a reload may have replaced.
- After `Stop`, a run's context is done at once: `runCtx` is a child of the context
  that the stop request ends.

Of `Cron`:

- One trigger: the triggers of a scheduler share nothing but the goroutine that handles
  them in turn. Its key stays the same, so a reload finds its record again.
- The times of a schedule are a fixed set, in units of which `MissedAfter` is a multiple.
  `@every` schedules, whose times count from the position, are left out; so is the bound
  of a million times in one check.
- The database keeps milliseconds; scheduled times are whole seconds, so that cutting the
  position off does not move it past one.
- The length of the wait is left out: `Check` may come at any moment, and fairness says
  that it comes. The machine sleeps when `Pass` is taken and the scheduler takes no step.
- A call of the database fails when the context has ended, and only then.
- What `fire` inserts is a row that `Dispatcher` takes up with `Submit`.

Of `Agent`:

- The configuration is the config file and one file that it links to; a version stands for
  the contents, and each save is valid or not. A linked file in the directory of the
  config file would be noticed by "config" too, which only adds requests.
- The notifications for a watcher are a set of paths. The code reads them in order; the
  order decides only how a firing is worded. Notifications that the OS loses are left out.
- `Flush` may come at any moment after a path was collected. The timer that every change
  arms again is an assumption of the liveness properties: the changes stop.
- The limit of 10000 changes shortens the list of a firing that happens all the same. The
  kinds of changes are the default ones, which report every change that the model has.
- One directory inside the root, with one file: a directory in a directory is the same
  step again.
- Nothing is saved or changed after the stop request.
- A save counts as `unseen` while no watch is on its file: before the watch on the config
  file starts, which is after the first load, and between the end of a watch on the links and
  the start of the next. Nothing reads such a save until the next one. A save of the linked
  file that a watch did notice, and that `stopLinks` discards with what the watch collected,
  is not among them: `discarded` says that there is one. `NoSaveForgotten` speaks of the
  linked file only while `discarded` is false, and `WatchedSavesReload`, which does not look
  at it, is refuted by the run `noticed_save`.

Of `Command`:

- Which process is in the group and which holds the output open is chosen when it starts; a
  process never joins the group later. A process may ignore every signal but SIGKILL, and no
  process needs to end.
- The timers are not related to one another: each may fire at any moment after it was set. The
  order that `KilledInOrder` states does not depend on their lengths.
- The outcome is the reason, the exit code as zero or not, or the error of `Wait`. The payload
  file may fail; the environment and the captured output are left out.

Of `Output`:

- Output is measured in units instead of bytes, and `MaxPending` and `MaxSize` in the same
  units. A unit says whether its line ends there.
- Failing renames, removals and openings leave the file system as it was. A write that fails
  half way is left out.
- What one run writes to its log beside its output file, and the report of a failed rotation,
  are left out.

Of `WaitRun` and `Backoff`:

- A row gets older than the retention not before the row that it repeats; the order among all
  other changes is open. A query fails at any time.
- A delay is a natural number; the comparison that keeps Go's duration from overflowing is the
  same comparison with the maximum.

Of `Webhook`:

- One event with one route. "request" stands for every reason to refuse a request after its
  method was accepted; which of them comes first is left out, since none leaves a row.
- "failed" stands for canceled and interrupted too, as it does in the response.
- The dispatcher's part is a row of each request that is started, settled or withdrawn at any
  moment; the order among rows is in `Dispatcher`. `Consume` may come after the signal,
  because the loop looks for the end of the context before it starts a row, not while it does.
- The limit of five seconds is an event of its own (`Expire`).

Of `Wake`: time is in units of which `MinSleep` is a multiple; sleeps are the difference of
the two clocks of the system, which is external.

Of `AfterCycle`: the order of events and triggers is left open, so the result holds for every
order. An after trigger that follows its own event is refused before the search.

Of `Params`: a value is absent, the one of the firing, a default or the empty default of a
required parameter. What is not declared is passed on only by an event that declares nothing.
A handler of a server that was replaced may still use any definition since the process
started (`older`).

Bounds of `MCRunner`: two child processes (one in the group and one outside it, one that holds
the output and one that does not), two streams of two runs on one file, `MaxUnits` 3,
`MaxPending` 1, `MaxSize` 2, `Backups` 2, `MaxFailures` 1 (a line that is too long, a rotation
in the middle of a line of either stream, every generation in use, one failure anywhere),
`MaxRuns` 4 (a run, and three attempts that follow it), `MaxRestarts` 5 with settings that
reach their maximum at once, after a few doublings, and not by a power of two.

Bounds of `MCTriggers`: those of `Cron`; `MaxSlept` 6 with `MinSleep` 2 (three long sleeps, or
short ones that only together are long); two callers and one reload between every two of the
three configurations, of a route (a handler of the old server beside one of the new);
every graph over three events and one name that is not defined; two parameters, three
definitions, the last of which `validate` refuses, and two rows (a run and its restart, or
two firings across a change).

Bounds of `Agent`: `MaxInputs`, the number of saves, changes and hangups together.

Bounds of `Cron`: `MaxClock` (the last reading of the clock) and `MaxStarts` (schedulers
started, by a reload or by a new process).

Bounds of `Dispatcher`, all of them constants: `MaxRuns` (rows ever inserted), `MaxFirings` (no new
firing once so many rows exist, so that retries and after triggers have room),
`MaxStarts` (agent processes), `MaxQueued`, `ScheduleBatch` and `FollowBatch` (1000,
500 and 100 in the code). `Timed` is not a bound but a choice: the events whose definition
has a timeout, one of which may leave its run `interrupted` without a stop. `FullScan`
switches the scan every 5 seconds off where a
run shows that the system does not need it. `Stop` and `Crash` need another start to
follow: nothing reads the database after the last one. A run that would need a row
beyond `MaxRuns` stops there. In the liveness run that does not happen to an end that
anything follows: `Scenes` of `MCDispatcher` ends commands with a failure only while
there is a row for each restart. Every
configuration says `CHECK_DEADLOCK FALSE`: once the firings are used up and the
queue is empty, the system rests.

## 3. What TLC checks

Runs that pass:

| run | instance | properties |
|---|---|---|
| `reloads` | one event; five configurations (each policy, and none); webhook callers, cancels, reloads; 3 rows, queue limit 1, batches of 2 and 1 | `TypeOK`, `RunningCounts`, `AnswersAreRecorded`, `NoLostWakeup`, `ExclusiveStart` |
| `recovery` | two events, the second after the first; `kickd event`, crashes, stops, long downtimes; 3 processes, 5 rows, queue limit 1 | `RowsMatchRuns`, `AfterOnce`, `QueueBounded`, `RetryChain`, `ImplementsRunQueue` |
| `live` | three scenes: a replace event and a queue event that follows its replaced runs; a queue event with restarts; webhook callers under every policy with reloads; 3 rows, batches of 1, no full scan; fairness | `QueueDrains`, `EndsFollowed`, `CallersAnswered` |
| `triggers` | `Cron`: two scheduled times two units apart, noticed on time within one; reloads, stops, crashes, a clock that goes back; three schedulers | `NothingLost`, `TwiceOnlyAgain`, `TimesAreHandled` |
| | `Wake`: sleeps of one to three units, failed readings, reloads | `SleepsFireOnce` |
| | `Webhook`: two requests, right or not, over a reload and a stop, cancels, clients that leave | `RowForAnswer`, `ServerCloses` |
| | `AfterCycle`: every graph of four names | `VerdictRight` |
| | `Params`: three definitions that replace one another while rows wait and run | `CommandGetsParams`, `MissingExplained` |
| `runner` | `Command`: two child processes, a stop for any reason and a timeout at any moment; fairness | `NoChildSurvives`, `KilledInOrder`, `StoppedForReason`, `ImplementsContract`, `RunsReturn` |
| | `Output`: two runs on one file of two units and two generations, a failure, a crash | `KeptIsSuffix`, `KeptInOrder`, `LinesWhole`, `AllWritten` |
| | `WaitRun`: four rows under any agents | `LastAttemptReported`, `WholeChainReported`, `WaitEnds` |
| | `Backoff`: three settings | `WaitsDouble` |
| `agent` | saves, valid or not, of the config file and of a linked one, changes in the tree of a recursive trigger, hangups, a trigger that fails, a stop; three inputs; fairness | `NoSaveForgotten`, `NoChangeForgotten`, `OneSetOfTriggers`, `SavesTakeEffect`, `ChangesAreFired` |

Three rows are enough for one run in progress, one that waits and one that arrives
or restarts; two batches are a full one and the one after it; three processes allow
a crash, a crash during the recovery from it, and a look at the result. Two scheduled
times give checks with none, one and both of them, on time and missed; three schedulers
give one that leaves its position behind, one that goes wrong, and one that looks at it.
Three inputs to the agent give a save while another is being loaded and a third that
mends or breaks it, or a directory that is made, filled and removed while the trigger
looks into it, from every state of the tree.

Some of the properties in words. `RowForAnswer` compares what a client was told
with its row: a request that was refused left none, one that was answered `skipped`,
`dropped`, `succeeded` or `failed` has a row that says so, and only a `submit` that failed
leaves a client without one. `RunsReturn` says that a run that was asked to stop, or whose
command ended, returns, though the command ignores SIGTERM, the stop command hangs and other
processes hold the output open. `KeptIsSuffix` says that the generations, read from the
oldest, are the end of what was written, also when kickd died between two renames, and that
nothing goes before there are as many generations as may be kept. `LastAttemptReported` says
that the attempt that `kickd event --wait` reports as the last is never repeated by anyone,
and that the exit code is of this attempt: 0 when it succeeded and only then, but for what a
late cancel records over it. `StoppedForReason` says that the outcome of a run that kickd
began to stop is the reason for which its context ended first, and that a stop is recorded for
no other run but after a late timeout (below). `NoLostWakeup` and `QueueDrains` say that the
loop needs no periodic scan, in all cases but one, which is below as well: `live` has
restarts, and no scan.
`MissingExplained` names the two ways by which a run can be without a required parameter: a
definition that changed while the row waited, and a restart.

Runs that show where the code departs from what the repository says; each checks
one property, which TLC refutes:

| run | what happens |
|---|---|
| `queue_order` | A batch holds rows 2 and 3 while run 1 is in progress. Row 2 is kept, run 1 ends, row 3 is started. |
| `final_stays` | A cancel request is read, the run ends, records `succeeded` and leaves the maps; its turn in processCancels then records `canceled`. |
| `caller_canceled` | `kickd cancel` ends a queued run that a webhook caller waits for; nobody tells the caller. |
| `error_answered_ok` | A reload removes the event of a request with `wait: true` while its body is read: submit fails, the handler writes nothing, and the client gets status 200. |
| `required_runs` | An event with a required parameter and `restart: always` runs again, with an empty value. |
| `noticed_save` | A linked file is saved after the load has read it and while its old watch still runs; `stopLinks` discards what the watch noticed, and no reload follows. |

Six more departures follow from the same models, and have no run of their own:

- A stop request that comes after `schedule` looked for it and before `StartRun` finds the row
  started and then interrupted (dispatcher.go:501); docs/internals/architecture.md:75 says that
  no new run starts. `RowsMatchRuns` says that its command gets a context that is done, so that
  it is stopped like the others. Recovery has the row back, so nothing is lost; that also holds
  of one that is started after `Wait` saw no command, whose row stays `running` until the next
  process.
- After a downtime longer than the retention, the prune at start (dispatcher.go:306) deletes
  runs whose after triggers have not fired. `AfterOnce` speaks of rows that are there.
- A reload that ends the context during a check of a cron trigger refuses the save of the
  position and lets the firing pass (cron.go:215): the next scheduler fires the same time
  again. `TwiceOnlyAgain` names this case and the clock that goes back, and no other.
- A recovery repeats runs without looking at the limit of their queue (store.go:662), so that
  more than the 1000 runs of docs/runs.md:20 can wait for an event. `QueueBounded` says that
  the repeats are the only ones: every other insert counts them and finds room or is dropped.
- A timeout that ends the context between runner.go:335, which looks for it, and 339, which
  looks for any end of the context, is taken for a stop of kickd: the row becomes
  `interrupted` while the agent goes on, although docs/runs.md:40 says of `interrupted` that the
  agent stopped, and docs/internals/execution.md:57 that a timeout becomes `failed`. The next process repeats or abandons it. `LateTimeout` of `Command`
  is this case; `StoppedForReason`, `ImplementsContract` and `RowsMatchRuns` name it and
  exclude every other one.
- A step reads the clock for the rows that are due (store.go:483) and again for the next one
  that is not (store.go:498). A restart that becomes due in between is in neither, so that no
  timer is set for it: it waits for another wakeup or for the scan every 5 seconds, which
  docs/internals/database.md:91 has as a safeguard only. `NoLostWakeup` and
  `QueueDrains` name the case (`raced`), and nothing else needs the scan.

### Fairness

`FairSpec` is weakly fair to the loop (a goroutine that is never blocked for good: its
select has a ticker), to the goroutine of each run (commands end: a run that was asked
to stop is killed after its stop timeout; a command without a timeout that never ends
is outside of what the model promises), to the delays of restarts and to the turns of a
recovery (each is one condition over all rows, which is enough since they never come back),
and to a shutdown that began. Nothing is fair about users, triggers, reloads, stop
requests, crashes or the start of an agent. The liveness properties are conditional on
an agent that stays up.

`FairSpec` of `Cron` is weakly fair to the scheduler, whose timer fires at least once a
second; to its return, since a select whose context has ended takes that branch sooner or
later; and to the start of the next scheduler after a reload, which the agent does without
waiting for anything. Nothing is fair about the clock.

`FairSpec` of `Agent` is weakly fair to the agent's goroutine, to each watcher, and to the
walk through a new directory, none of which waits for anything but the others. It is fair
to the end of a context in each select, for the same reason as above. Nothing is fair about
users, the directory, failures or the stop request.

The fairness of `Command` is that of the goroutine of `execute` and of the one of os/exec,
whose timers fire. Nothing is fair about the processes, which may hang for ever, nor about the
dispatcher and the timeout of the event. `WaitRun` is weakly fair to its query of the run and
to its tick, and strongly to the query of the repeated run, which may fail once but not each
time it is asked; other users of the table may do nothing. `Webhook` is fair to the end of
`Shutdown` only: clients may send a body slowly for ever, and commands may run for ever.
`MCRunner` and `MCTriggers` state the same conditions for the behaviours that follow those
parts.

## 4. What TLAPS proves

`DispatcherProofs` proves, for every set of events and configurations and every bound:

| theorem | statement |
|---|---|
| `Invariant` | `Spec => []IInv` |
| `TypeCorrect` | `Spec => []TypeOK` |
| `RunningIsExact` | `Spec => []RunningCounts` |
| `StartsExclusive` | `Spec => ExclusiveStart` |
| `BackedInvariant` | `Spec => []BInv` |
| `RowsAreBacked` | `Spec => []RowsMatchRuns` |
| `AnswersRecorded` | `Spec => []AnswersAreRecorded` |

`TypeOK` is not inductive: `finish` decrements `running[e]` without a test, so that it
stays a natural number only because the run is counted. `RunningCounts` says so, but is
not inductive either: `Start` adds a run to the live ones, which changes their number
only if the run was not among them. `QueuedIdle` (a queued row has no goroutine) gives
that; `UnusedIds` keeps it when a row is inserted, and `ExitedHasOutcome` keeps a
recorded row from being queued again. `IInv` is `TypeOK` with these four. The proof has
one lemma per group of actions for the types and one for the counting; lemmas about the
statements of the store say what each leaves alone (`Keeps`). `ExclusiveStart` follows:
only `Start` brings a goroutine to life, its guard reads the counter, and the counter is
the number of live runs, whatever policy was in force when they started.

`RowsMatchRuns` and `AnswersAreRecorded` relate the table to the goroutines, and need both
sides. `Control` is the side of the process: nothing runs before the loop starts, a goroutine
keeps its context until `ReleaseRun`, only a stop interrupts, and after a stop request no
context is live (`StopReaches`), whichever side of the request it was made on. `Backed` is the side of the
table: while the agent recovers, `todo` is exactly the rows that the last process left; an ID
that was not given belongs to no row, so a result cannot have been answered for it; and the
rows that `processCancels` has in hand were running when it read them, so that settling one
that no goroutine backs cannot touch a queued one.

`RunQueueProofs` continues from `BInv`:

| theorem | statement |
|---|---|
| `ChainsAreLinked` | `Spec => []Linked` |
| `RetriesChained` | `LimitsStay` implies `Spec => []RetryChain` |
| `QueueStaysBounded` | `Spec => []QueueBounded` |
| `OnlyEndsAreHanded` | `Spec => []Ends` |
| `DispatcherRefines` | `Spec => ImplementsRunQueue` |
| `FiredAtMostOnce` | `Spec => []Handing` |
| `AfterExactlyOnce` | `FollowsStay` implies `Spec => []AfterOnce` |
| `RowsLive` | `Spec => RowLife` |
| `FinalsStay` | `Spec => FinalButLate` |
| `FiredAsDefined` | `Spec => FiresAsDefined` |
| `RepeatedAsDefined` | `Spec => RepeatsAsDefined` |
| `OvertakenAfterEnd` | `Spec => OvertakesAfterEnd` |

*Chains.* A turn of `Recover` is the only step that links two rows; every other one leaves
chains alone, and `LeftOver` says that the row it takes is the interrupted one. The limit on
their length needs `LimitsStay`: a reload that lowers `max_attempts` leaves chains that are
longer than the new limit. `Linked`, all but the limit, holds of every set of configurations.

*The limit on what waits.* Each step makes no first attempt wait (`NoneWaits`), or one per event
(`RoomFor`), and then the same transaction counted fewer rows than the limit, repeats among
them. The three places that insert several times or hold old definitions are the cases to look
at: `follow` inserts rows of distinct events, a restart and a firing may carry a definition that
a reload replaced, and recovery inserts repeats only. `AlwaysQueues` restricts the statement to
events that no configuration lets do anything but queue: the other policies have no limit. No
strengthening beside `BInv` is needed.

*Refinement.* `StatesOf` computes the abstract state of each row, and one lemma for each
statement of the store says which step of `RunQueue` it is. Two guards of the abstract steps
need more: only runs that are over may be handed to triggers or be repeated. `Ends` says that
what was handed is over, that what caused a run is over (every step of `RunQueue` keeps these
two), and that the batch of `follow` holds ends that were not handed: while the loop is in
`follow`, no other actor changes a row that is final.

*After triggers.* `Handing` says that a run fires each event at most once, that a run which an
after trigger fired names a handed cause, and that `processCancels` changes no handed row.
With `FiredFits`, which compares what was fired with the definitions, it gives `AfterOnce`,
under the condition that the definitions agree on after triggers (`FollowsStay`): otherwise a
run that was handed under one configuration is compared with the next one. The run `reloads`
has such configurations for the other properties, and `AfterOnce` is not one of its own.

*The life of a row.* `RowLife` lists, for every step of every actor, what may become of one row:
`BInv` says where each actor finds the rows it changes, and `Handing` that `processCancels` takes
none that was handed over. One move is not in the documents: `LateCancel`, the turn of
`processCancels` for a row whose run was released after the request was read. `FinalButLate` is
the part of this about final rows, and so the exact extent of what the run `final_stays` shows.
Nothing fired on the old status, because a row that was handed over is out of its reach.

*Reloads.* `AfterOnce` and `RetryChain` look at a state, which cannot tell under which definition
a row was made, and hold only where the definitions agree. `FiresAsDefined` and
`RepeatsAsDefined` say the same of the step, with the definition in force at that step, and hold of
every set of configurations: no reload makes an end fire twice, fire what it should not, or be
repeated beyond the limit that the new process loaded.

*The order of a queue.* `OvertakesAfterEnd` is about events that every configuration queues. A
run starts before an older firing of its event only if there is a third run, older than both, that
ended and was not handed over yet. Three parts of `Ordering` lead there. `ScanClear`: when
`schedule` reads its rows, no event that queues has a live run, since the ones that had were left
out. `LiveAhead`: so a run of the event that lives while the rows are handled was started from
this batch, and is older than the rows that are left. `Passed`: a row that was passed over waits
for such a run. The start of a later row then needs that run to have ended; it cannot have been
handed over, as `follow` comes after the batch. `OnlyRestartsDelayed` is needed because the scan
takes the oldest rows that are due, and only the delay of a restart may leave an older one out.
The run `queue_order` shows the case, and this theorem that there is no other: with nothing ended
in between, the queue keeps its order. TLC checked the statements and the invariants of
these five, on the configurations of the runs and on one with four rows, before they were proved.

`WakeupProofs` continues from `BInv` as well:

| theorem | statement |
|---|---|
| `LoopAttends` | `Cardinality(Events) < ScheduleBatch` implies `Spec => []Attention` |
| `NoWakeupIsLost` | `Cardinality(Events) < ScheduleBatch` implies `Spec => []NoLostWakeup` |

Both speak of every row that waits, restarts among them, with one exception that they name: a
row in `raced`, which became due between the two readings of the clock in one step, and which
the code does leave to the scan every 5 seconds. `NoLostWakeup` speaks of the loop asleep; `Attention` follows what it has to see through every
place of a step. A cancel request is a commit that the loop will notice or is in `todo`
(`CancelsSeen`). While no poke, commit or end of a run is under way, a row that nothing holds
back is still to be read, is in the batch, or the batch was full, or it became due while the
loop sleeps until then (`QueueSeen`), and the same holds of ends (`EndsSeen`). A restart that is not
due yet is known to the loop that sleeps (`DelaySeen`). The rows that are left out of a batch
because a queue event is busy are rows of an event with a run in progress (`BusyLeftOut`). The hard case is a full batch of `schedule`: the loop sleeps after
it unless some row made progress. `FullBatch` says what a full batch without progress looks
like: each row that was handled is the newest row of a `replace` event that runs, and no row
left is of a busy `queue` event, because the scan left these out. Such rows are of different
events, so that fewer events than `scheduleBatch` (500) cannot fill the batch with them. That
condition is needed: with as many busy `replace` events as the batch has rows, the loop does
sleep over the rows behind it, until one of those runs ends. `OldestFull` says that a batch that
leaves a row out is as large as its limit; it rests on least and greatest elements, taken from
the well-founded order of finite subsets.

The proofs assume `RunsAssumption` and `DispatcherAssumption`, which state the types of
the constants; TLC evaluates both on every run.

`FiringProofs` proves of `Cron`, for every schedule, every `MissedAfter` and every bound:

| theorem | statement |
|---|---|
| `CronInvariant` | `Spec => []IInv` |
| `NothingIsLost` | `Spec => []NothingLost` |
| `NothingTwice` | `Spec => []TwiceOnlyAgain` |

Both properties relate the history to the position in the database, while the scheduler
works with the position in memory. `LooksFromSaved` ties the two: while the context lives
they are equal wherever it matters, so the times that a check finds are those after the
saved position (for `NothingLost`) and none before it. `WentBack` says when a position may
lie ahead of the clock or of the scheduler: only where every time in between is one that
may come again. `HandledBelow` says that what was handled lies below the saved position or
may come again. A check that starts at the saved position then cannot find a handled time,
which is `TwiceOnlyAgain`. TLC checked each of these before it was proved. The proofs
assume `CronAssumption`, which TLC evaluates on the run `triggers`.

`AgentProofs` proves, for every set of inputs and any number of them:

| theorem | statement |
|---|---|
| `AgentInvariant` | `Spec => []IInv` |
| `OneSet` | `Spec => []OneSetOfTriggers` |
| `SavesKept` | `Spec => []NoSaveForgotten` |
| `ChangesKept` | `Spec => []NoChangeForgotten` |

`TriggersOff` lists every place of `Run` where no trigger runs: the places before the first
start and after a stop that was waited for, and, after a failure, the wait for another
configuration; `OneSetOfTriggers` is two of them. `ReadOrNoticed` says, for each place of `Run`, which
files the load has in hand, and that each of them is the one on disk unless a later save was
noticed or nobody watched; where nothing is in hand, the same holds of the configuration in
force, unless the disk holds an invalid file. `ChangesListed` splits the paths: a file whose
directory is watched is in a notification or in the list, and one whose directory is not yet
watched has a notification of the directory, or the walk, still before it. `ReadOrNoticed` has
no word about the linked file while a save of it is discarded (`Kept`), but always speaks of the
main file, whose watch lives as long as the agent. The proof has a lemma for each group of
actions. `AgentAssumption` is the only assumption, and TLC evaluates it.

`RunnerProofs` proves of `Command`, for every set of child processes and of reasons to stop:

| theorem | statement |
|---|---|
| `CommandInvariant` | `CommandSpec => []CommandInv` |
| `NoSurvivors` | `CommandSpec => []NoChildSurvives` |
| `KillOrder` | `CommandSpec => []KilledInOrder` |
| `StopReasons` | `CommandSpec => []StoppedForReason` |
| `CommandRefines` | `CommandSpec => ImplementsContract` |

`ContextsAgree` relates the dispatcher's context to the one of `execute`, which a timeout ends
as well; `GoroutinesAgree` says where the goroutine of os/exec can be while `execute` is at a
given place; `ProcessesAgree` what the processes can have gone through by then. The last needs
the other two: that `Sweep` sees an ended context in every run that kickd began to stop.
`StoppedForReason` compares the outcome with the context, which keeps the reason it ended for;
that a timeout is recorded as a stop of kickd only in a `LateTimeout` follows because a run that
kickd began to stop had its context ended before `execute` looks for the timeout. For
the refinement, an end of the context is `Ask`; a failed `Start`, `ClassifyTimeout` when it finds
a timeout, and `Classify` are `End`; every other step stutters. The contract allows a run whose
context ended with a timeout to end as `interrupted`: the dispatcher has to live with it.

`RunnerProofs` proves of `WaitRun`, for every number of rows:

| theorem | statement |
|---|---|
| `WaitInvariant` | `WaitSpec => []WaitInv` |
| `LastAttempt` | `WaitSpec => []LastAttemptReported` |
| `WholeChain` | `WaitSpec => []WholeChainReported` |

`RepeatedAreMarked` says that only a row that is marked as retried, or was pruned since, is
repeated; `ReportedIsFinal` that the row that was reported last is marked otherwise or was
pruned, and that the exit code agrees with its status; together they give `LastAttempt`, which
speaks of both. `ChainLinked` keeps the chain. The lemmas of
`RunsProofs` say what each statement of the store does to one row.

`AgentProofs` also proves `CycleInvariant` and `CycleVerdict` (`CycleSpec => []VerdictRight`),
for every graph: `PathAgrees` says that the path follows the graph and holds what is
"visiting", `LookedAt` that a call has sent on everything that is no longer in `left`, and
`DoneClosed` that "done" events follow only "done" ones and that every set of them has one
that follows none of the set, which is what it means that no cycle runs through them. An
event becomes "done" when everything that it follows is, so it is in no such cycle either.
`SearchAdvances` is about the end of the search: every step takes something out of `unvisited`,
`Undone` or `Unlooked`, and none puts anything back. The three are sets of names and of pairs of
names, so no search takes more steps than there are of them, without any assumption of fairness.

`FiringProofs` also proves `WakeLosesNothing` (`SleepsFireOnce`), `ParamsReachCommand`
(`CommandGetsParams`), `MissingOnlyByRestart` (`MissingExplained`) and `AnswersFitRows`
(`RowForAnswer`), each from an inductive invariant of its own. That of `Webhook`,
`HandlerAgrees`, relates where a handler is to the row of its request and to the result that
was sent to it.

`OutputProofs` proves of `Output`, for every set of streams and of runs that share the file,
every number of generations, every limit, and any number of failures:

| theorem | statement |
|---|---|
| `OutputInvariant` | `OutputSpec => []OutputInv` |
| `LinesAreWhole` | `OutputSpec => []LinesWhole` |
| `AllIsWritten` | `OutputSpec => []AllWritten` |
| `KeptIsInOrder` | `OutputSpec => []KeptInOrder` |
| `KeptIsTheEnd` | `OutputSpec => []KeptIsSuffix` |

`OutputInv` has a part for each side of a write. *Streams* (`HoldsBack`): what a stream
received is written, in its piece or held back, in this order; a piece is whole, and what is
held back has no end of a line. *The history* (`Writes`): the units of a stream are written in
order, and all of them unless an attempt failed, so that a stream with nothing in hand has
written everything. *The mutex* (`Turns`): who has a turn has something to write, a run that
writes has the file open, and a rotation moves a file that is not empty. *The generations*
(`Sliced`): there are numbers `lo` and `hi` such that generation `g` is what was written from
`lo[g]` to `hi[g]`; the slices are in order, and adjacent unless an attempt failed. `LinesWhole`
is a part as well, because a file grows by whole pieces only (`WholeConcat`).

Slices alone are not inductive. A rename that overwrites a generation would leave a gap between
its neighbours, which only a failure may do, so the generation that the next rename fills must be
known to be empty (`Hole`, in `Filled`); that nothing is deleted while a generation is free needs
besides that the generations in use have no gap but that one. After a failure or a crash less is
known, and `Filled` claims less. The newest unit is always there because a rotation that got as
far as to rename the file left it in generation 1 (the last part of `InOrder`). `KeptIs` joins
the slices: `Kept` is made of units at increasing positions, consecutive ones without a failure,
up to the last. Every part was checked by TLC on the states of the run `runner` before it was proved.

`OutputProofs` proves of `Backoff`, for all settings and any number of restarts,
`BackoffInvariant` (`BackoffSpec => []BackoffInv`) and `WaitsAreDoubled`
(`BackoffSpec => []WaitsDouble`): the delay in memory is the last wait, and twice a power of
two that was cut off at the maximum is the next power, cut off (`DoubledLeast`).

*Induction.* The induction theorems of the library take an operator as a parameter, which the
provers cannot instantiate. `OutputProofs` states what it needs of sets and functions instead:
`LeastNumber` (a set of numbers has a least one, from the well-founded order of finite subsets),
`Induction` (a set that has 0 and the successor of each of its numbers has every number) and
`Recursion` (for every first value and every function for the next one there is a function that
they define). The functions that are defined by recursion, `PowerOfTwo` of `Backoff` and the one
inside `FlattenSeq`, are only used through lemmas (`Powers`, `FlattenJoins`) that
derive from `Recursion` that such a function exists.

The assumptions on constants are those of the modules; every one is evaluated by TLC on the
run that checks the module.

Only model-checked: liveness (out of the prover's reach under fairness, as is ENABLED), which
is `QueueDrains`, `EndsFollowed`, `CallersAnswered`, `TimesAreHandled`, `ServerCloses`,
`RunsReturn`, `WaitEnds`, `SavesTakeEffect` and `ChangesAreFired`. Every other property of a
passing run is a theorem.

## 5. Plan

Done: `Runs`, `Dispatcher`, their properties and proofs, the abstract queue and the proof
that the dispatcher implements it; `Cron` and `Agent` with their proofs; `Command`, `WaitRun`,
`AfterCycle`, `Wake`, `Webhook`, `Params`, `Output` and `Backoff` with their proofs.

Left, in this order:

1. The kinds of changes of a file trigger (`changes: [write]` misses what is written
   before the watch on a new directory) and the directory of a linked file that is itself
   removed.
2. `@every` schedules, whose times count from the position.

## 6. Not modelled

- Parsing, defaults and merging of configuration files, and the rules of `validate` that look
  at one value: a pure function of the files. Templates and the environment of a command.
- Which token or signature of a webhook is right, headers, `/healthz`, a server that cannot
  listen. A refused request is modelled, the reason is not.
- Opening, migrating and locking the database file; failing database calls, except where a
  module names them. The code logs them and goes on, and most of what it promises needs a
  database.
- Events and payloads as JSON, log lines and masking: formatting, which nothing in the control
  reads. Command lookup, service installation, the licenses, argument parsing.
- `history`, `logs`, `status`, `events` and `show`, which only read; the counter of skipped
  firings, which no decision reads.
- Panics in a command's goroutine or in a handler.

Hazards of this code that no property covers, beside the departures above: under `replace`,
a restart row that becomes due in the same batch as a firing is judged by its ID; a crash
between `FinishRun` and the insert of a restart loses the restart, because the run is final; a
cron trigger that was removed keeps its record, which counts when a trigger of that key
returns; the search for missed times stops after a million; a trigger that fails with the first
configuration ends `Run` without waiting for runs; changes that never pause put off the firing
of a file trigger without end.
