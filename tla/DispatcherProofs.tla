-------------------------- MODULE DispatcherProofs --------------------------
(***************************************************************************)
(* Proofs about the dispatcher, for every value of its constants.          *)
(***************************************************************************)
EXTENDS DispatcherProperties, RunsProofs, FiniteSetTheorems, TLAPS

-----------------------------------------------------------------------------
\* The inductive invariant

\* An ID that AUTOINCREMENT has not given is in no queue and runs nowhere.
UnusedIds == \A i \in Ids : i > lastId => runs[i].status # "queued" /\ pc[i] = "none"

\* A queued row has no goroutine.
QueuedIdle == \A i \in Ids : runs[i].status = "queued" => pc[i] = "none"

\* A command that ended has an outcome for finish to record.
ExitedHasOutcome == \A i \in Ids : pc[i] = "exited" => out[i] # "none"

Counting == RunningCounts /\ UnusedIds /\ QueuedIdle /\ ExitedHasOutcome

IInv == TypeOK /\ Counting

USE DEF dbVars, procVars, scanVars, mapVars, runVars

LEMMA NextIdType ==
  ASSUME TypeOK, lastId < MaxRuns
  PROVE  lastId + 1 \in Ids
BY RunsAssumption DEF TypeOK, Ids

LEMMA EventType == ASSUME TypeOK, NEW i \in Ids PROVE Event(i) \in Events
BY DEF TypeOK, Row, Event

LEMMA FireTypes ==
  ASSUME TypeOK, NEW e \in Events, Fire(e) PROVE TypeOK'
<1>1. PICK c \in Configs :
        runs' = Insert(runs, lastId + 1, NewRun(e, "fire", 0), QueueLimit(c, e))
  BY DEF Fire
<1>2. lastId < MaxRuns BY RunsAssumption, DispatcherAssumption DEF Fire, TypeOK
<1>3. NewRun(e, "fire", 0) \in Row BY NewRunType, NoRunType DEF Kind
<1>4. runs' \in [Ids -> Row] BY <1>1, <1>2, <1>3, NextIdType, InsertType DEF TypeOK
<1>5. lastId' \in 0 .. MaxRuns BY <1>2, RunsAssumption DEF TypeOK, Fire
<1>6. dirty' \in BOOLEAN BY DEF Fire, External
<1> QED BY <1>4, <1>5, <1>6 DEF TypeOK, Fire

LEMMA OutsideTypes == ASSUME TypeOK, Outside PROVE TypeOK'
<1>1. ASSUME NEW e \in Events, CancelEvent(e) PROVE TypeOK'
  <2>1. runs' \in [Ids -> Row] BY <1>1, RequestCancelType DEF CancelEvent, TypeOK
  <2> QED BY <1>1, <2>1 DEF TypeOK, CancelEvent, External
<1>2. ASSUME NEW i \in Ids, CancelRun(i) PROVE TypeOK'
  <2>1. runs' \in [Ids -> Row] BY <1>2, RequestCancelType DEF CancelRun, TypeOK
  <2> QED BY <1>2, <2>1 DEF TypeOK, CancelRun, External
<1>3. ASSUME NEW i \in Ids, BecomeDue(i) PROVE TypeOK'
  <2>1. runs[i] \in Row /\ runs \in [Ids -> Row] BY DEF TypeOK
  <2>2. [runs[i] EXCEPT !.due = TRUE] \in Row BY <2>1 DEF Row
  <2>3. runs' = [runs EXCEPT ![i] = [runs[i] EXCEPT !.due = TRUE]] BY <1>3 DEF BecomeDue
  <2>4. runs' \in [Ids -> Row] BY <2>1, <2>2, <2>3
  <2> QED BY <1>3, <2>4 DEF TypeOK, BecomeDue
<1>4. ASSUME LongDowntime PROVE TypeOK'
  <2>1. \A i \in Ids : [runs[i] EXCEPT !.old = TRUE] \in Row
    <3>1. \A r \in Row : [r EXCEPT !.old = TRUE] \in Row BY DEF Row
    <3> QED BY <3>1 DEF TypeOK
  <2>2. runs' \in [Ids -> Row] BY <1>4, <2>1 DEF LongDowntime, TypeOK
  <2> QED BY <1>4, <2>2 DEF TypeOK, LongDowntime
<1>5. ASSUME NEW e \in Events, NEW wait \in BOOLEAN, Submit(e, wait) PROVE TypeOK'
  <2>1. PICK c \in Known :
          runs' = Insert(runs, lastId + 1, NewRun(e, "fire", 0), QueueLimit(c, e))
    BY <1>5 DEF Submit
  <2>2. lastId < MaxRuns BY <1>5, RunsAssumption, DispatcherAssumption DEF Submit, TypeOK
  <2>3. NewRun(e, "fire", 0) \in Row BY NewRunType, NoRunType DEF Kind
  <2>4. runs' \in [Ids -> Row] BY <2>1, <2>2, <2>3, NextIdType, InsertType DEF TypeOK
  <2>5. lastId + 1 \in Ids BY <2>2, NextIdType
  <2>6. lastId' \in 0 .. MaxRuns BY <1>5, <2>5 DEF Submit, Ids
  <2>7. answered' \subseteq Ids /\ waiters' \subseteq Ids /\ wake' \in BOOLEAN
    BY <1>5, <2>5 DEF TypeOK, Submit
  <2> QED BY <1>5, <2>4, <2>6, <2>7 DEF TypeOK, Submit
<1> QED BY <1>1, <1>2, <1>3, <1>4, <1>5, FireTypes DEF Outside

LEMMA RecoverTypes == ASSUME TypeOK, NEW i \in Ids, Recover(i) PROVE TypeOK'
<1>1. CASE lastId < MaxRuns /\ runs' = Retry(runs, i, lastId + 1) /\ lastId' = lastId + 1
  <2>1. lastId + 1 \in Ids BY <1>1, NextIdType
  <2>2. runs' \in [Ids -> Row] BY <1>1, <2>1, RetryType DEF TypeOK
  <2>3. lastId' \in 0 .. MaxRuns BY <1>1, <2>1 DEF Ids
  <2> QED BY <2>2, <2>3 DEF TypeOK, Recover
<1>2. CASE runs' = Abandon(runs, i) /\ UNCHANGED lastId
  <2>1. runs' \in [Ids -> Row] BY <1>2, AbandonType DEF TypeOK
  <2> QED BY <1>2, <2>1 DEF TypeOK, Recover
<1> QED BY <1>1, <1>2 DEF Recover

LEMMA MemoryTypes == ASSUME TypeOK, LoseMemory, stopped' \in BOOLEAN PROVE TypeOK'
<1>1. running' \in [Events -> Nat] BY DEF LoseMemory
<1>2. active' \in [Events -> 0 .. MaxRuns] BY NoRunType DEF LoseMemory
<1>3. ctx' \in [Ids -> CtxState] /\ pc' \in [Ids -> RunState] /\ out' \in [Ids -> Outcome]
  BY DEF LoseMemory, CtxState, RunState, Outcome
<1>4. agent' \in AgentState /\ loop' \in LoopState BY DEF LoseMemory, AgentState, LoopState
<1> QED BY <1>1, <1>2, <1>3, <1>4 DEF TypeOK, LoseMemory

LEMMA ProcessTypes == ASSUME TypeOK, Process PROVE TypeOK'
<1>1. ASSUME NEW c \in Configs, StartAgent(c) PROVE TypeOK'
  BY <1>1 DEF TypeOK, StartAgent, AgentState, LoopState, InterruptedRuns, InStatus
<1>2. ASSUME NEW c \in Configs, Configure(c) PROVE TypeOK'
  BY <1>2 DEF TypeOK, Configure
<1>3. ASSUME StartLoop PROVE TypeOK'
  <2>1. runs' \in [Ids -> Row] BY <1>3, PruneType DEF TypeOK, StartLoop
  <2> QED BY <1>3, <2>1 DEF TypeOK, StartLoop, AgentState, LoopState, CancelRequests, InStatus
<1>4. ASSUME Stop PROVE TypeOK'
  BY <1>4 DEF TypeOK, Stop, AgentState, CtxState
<1>5. ASSUME WaitReturns PROVE TypeOK'
  BY <1>5 DEF TypeOK, WaitReturns, AgentState
<1>6. ASSUME StopLoop PROVE TypeOK'
  BY <1>6 DEF TypeOK, StopLoop, AgentState, LoopState
<1>7. ASSUME ExitAgent PROVE TypeOK'
  BY <1>7, MemoryTypes DEF ExitAgent
<1>8. ASSUME Crash PROVE TypeOK'
  BY <1>8, MemoryTypes DEF TypeOK, Crash
<1> QED BY <1>1, <1>2, <1>3, <1>4, <1>5, <1>6, <1>7, <1>8, RecoverTypes DEF Process

LEMMA RowDoneTypes ==
  ASSUME TypeOK, NEW i \in Ids, NEW progressed \in BOOLEAN, RowDone(i, progressed),
         runs' \in [Ids -> Row], running' \in [Events -> Nat],
         active' \in [Events -> 0 .. MaxRuns], ctx' \in [Ids -> CtxState],
         waiters' \subseteq Ids, answered' \subseteq Ids,
         pc' \in [Ids -> RunState], UNCHANGED out
  PROVE  TypeOK'
<1>1. wake' \in BOOLEAN BY DEF RowDone
<1> QED BY <1>1 DEF TypeOK, RowDone, LoopState

LEMMA SettleRowTypes ==
  ASSUME TypeOK, NEW i \in Ids, NEW st \in {"skipped", "dropped"}, SettleRow(i, st),
         RowDone(i, TRUE)
  PROVE  TypeOK'
<1>1. runs' \in [Ids -> Row]
  BY SetStatusType DEF TypeOK, SettleRow, Settle, Status, Final
<1>2. waiters' \subseteq Ids /\ answered' \subseteq Ids BY DEF TypeOK, SettleRow
<1> QED BY <1>1, <1>2, RowDoneTypes DEF TypeOK, SettleRow

LEMMA StartTypes == ASSUME TypeOK, NEW i \in Ids, Start(i) PROVE TypeOK'
<1>1. runs' \in [Ids -> Row] BY SetStatusType DEF TypeOK, Start, StartRun, Status
<1>2. CASE runs' # runs
  <2>1. running' \in [Events -> Nat] BY <1>2, EventType DEF TypeOK, Start, Counted
  <2>2. active' \in [Events -> 0 .. MaxRuns] BY <1>2, EventType DEF TypeOK, Start, Ids
  <2>3. ctx' \in [Ids -> CtxState] BY <1>2 DEF TypeOK, Start, CtxState
  <2>4. pc' \in [Ids -> RunState] BY <1>2 DEF TypeOK, Start, RunState
  <2>5. RowDone(i, TRUE) /\ UNCHANGED <<waiters, answered, out>> BY <1>2 DEF Start
  <2> QED BY <1>1, <2>1, <2>2, <2>3, <2>4, <2>5, RowDoneTypes DEF TypeOK
<1>3. CASE runs' = runs
  <2>1. RowDone(i, FALSE) /\ UNCHANGED <<running, active, ctx, pc, waiters, answered, out>>
    BY <1>3 DEF Start
  <2> QED BY <1>1, <2>1, RowDoneTypes DEF TypeOK
<1> QED BY <1>2, <1>3

LEMMA HandleRowTypes == ASSUME TypeOK, NEW i \in Ids, HandleRow(i) PROVE TypeOK'
<1>1. CASE SettleReplaced(i) BY <1>1, SettleRowTypes DEF SettleReplaced
<1>2. CASE CheckRow(i) BY <1>2 DEF TypeOK, CheckRow, LoopState
<1>3. CASE DropRow(i) BY <1>3, SettleRowTypes DEF DropRow
<1>4. CASE SkipRow(i) BY <1>4, SettleRowTypes DEF SkipRow
<1>5. CASE KeepRow(i) BY <1>5, RowDoneTypes DEF TypeOK, KeepRow
<1>6. CASE ReplaceRun(i)
  <2>1. ctx' \in [Ids -> CtxState] BY <1>6 DEF TypeOK, ReplaceRun, CtxState
  <2> QED BY <1>6, <2>1, RowDoneTypes DEF TypeOK, ReplaceRun
<1>7. CASE Start(i) BY <1>7, StartTypes
<1> QED BY <1>1, <1>2, <1>3, <1>4, <1>5, <1>6, <1>7 DEF HandleRow

LEMMA FollowRunTypes == ASSUME TypeOK, NEW i \in Ids, FollowRun(i) PROVE TypeOK'
<1> DEFINE fired == Followers(i)
           n     == lastId + Cardinality(fired)
           max   == [e \in fired |-> QueueLimit(specs, e)]
<1>1. fired \subseteq Events BY DispatcherAssumption DEF TypeOK, Followers
<1>2. Cardinality(fired) \in Nat BY <1>1, RunsAssumption, FS_Subset, FS_CardinalityType
<1>3. n \in 0 .. MaxRuns BY <1>2, RunsAssumption DEF TypeOK, FollowRun
<1>4. PICK slot \in [fired -> lastId + 1 .. n] : runs' = Follow(runs, i, slot, max)
  BY DEF FollowRun
<1>5. slot \in [fired -> Nat] BY <1>2, <1>3 DEF TypeOK
<1>6. runs' \in [Ids -> Row] BY <1>1, <1>4, <1>5, FollowType DEF TypeOK
<1>7. wake' \in BOOLEAN BY DEF FollowRun
<1>8. lastId' = n BY DEF FollowRun
<1> QED BY <1>3, <1>6, <1>7, <1>8 DEF TypeOK, FollowRun

LEMMA LoopTypes == ASSUME TypeOK, Loop PROVE TypeOK'
<1>1. CASE Wake BY <1>1 DEF TypeOK, Wake, BeginStep, LoopState, CancelRequests, InStatus
<1>2. CASE Tick BY <1>2 DEF TypeOK, Tick, BeginStep, LoopState, CancelRequests, InStatus
<1>3. CASE ReadEnded
  BY <1>3 DEF TypeOK, ReadEnded, LoopState, UnfollowedRuns, Oldest, InStatus
<1>4. CASE BeginScan BY <1>4 DEF TypeOK, BeginScan, LoopState
<1>5. CASE ReadQueued
  <2>1. todo' \subseteq Ids /\ newest' \subseteq Ids
    BY <1>5 DEF ReadQueued, QueuedRuns, Oldest, InStatus
  <2>2. full' \in BOOLEAN BY <1>5 DEF ReadQueued
  <2> QED BY <1>5, <2>1, <2>2 DEF TypeOK, ReadQueued, LoopState
<1>6. CASE EndStep BY <1>6 DEF TypeOK, EndStep, LoopState, WaitingRuns, InStatus
<1>7. ASSUME NEW i \in Ids, ProcessCancel(i) PROVE TypeOK'
  <2>1. runs' \in [Ids -> Row]
    BY <1>7, FinishRunType DEF TypeOK, ProcessCancel, Status, Final
  <2>2. ctx' \in [Ids -> CtxState] BY <1>7 DEF TypeOK, ProcessCancel, CtxState
  <2> QED BY <1>7, <2>1, <2>2 DEF TypeOK, ProcessCancel
<1> QED BY <1>1, <1>2, <1>3, <1>4, <1>5, <1>6, <1>7, FollowRunTypes, HandleRowTypes DEF Loop

LEMMA LiveRunsFinite == \A e \in Events : IsFiniteSet(LiveRuns(e))
<1>1. IsFiniteSet(Ids) BY FS_Interval, RunsAssumption DEF Ids
<1>2. \A e \in Events : LiveRuns(e) \subseteq Ids BY DEF LiveRuns
<1> QED BY <1>1, <1>2, FS_Subset

\* A run that finish takes out of d.running is counted there.
LEMMA Counts ==
  ASSUME TypeOK, RunningCounts, NEW i \in Ids, pc[i] \in {"exec", "exited", "recorded"}
  PROVE  running[Event(i)] > 0
<1> DEFINE e == Event(i)
<1>1. e \in Events BY EventType
<1>2. i \in LiveRuns(e) BY DEF LiveRuns, Event
<1>3. IsFiniteSet(LiveRuns(e)) BY <1>1, LiveRunsFinite
<1>4. Cardinality(LiveRuns(e)) # 0 BY <1>2, <1>3, FS_EmptySet
<1>5. Cardinality(LiveRuns(e)) \in Nat BY <1>3, FS_CardinalityType
<1> QED BY <1>1, <1>4, <1>5 DEF RunningCounts

LEMMA RunTypes == ASSUME TypeOK, Counting, NEW i \in Ids, Run(i) PROVE TypeOK'
<1>1. CASE CommandEnds(i)
  BY <1>1 DEF TypeOK, CommandEnds, Results, RunState, Outcome, CtxState
<1>2. CASE RecordRun(i)
  <2>1. out[i] \in Status BY <1>2 DEF TypeOK, Counting, ExitedHasOutcome, RecordRun, Outcome, Status, Final
  <2>2. runs' \in [Ids -> Row] BY <1>2, <2>1, FinishRunType DEF TypeOK, RecordRun
  <2> QED BY <1>2, <2>2 DEF TypeOK, RecordRun, RunState
<1>3. CASE ReleaseRun(i)
  <2>1. Event(i) \in Events /\ running[Event(i)] > 0
    BY <1>3, EventType, Counts DEF Counting, ReleaseRun
  <2>2. running' \in [Events -> Nat] BY <1>3, <2>1 DEF TypeOK, ReleaseRun, Uncounted
  <2>3. active' \in [Events -> 0 .. MaxRuns] BY <1>3, <2>1, NoRunType DEF TypeOK, ReleaseRun
  <2>4. ctx' \in [Ids -> CtxState] BY <1>3 DEF TypeOK, ReleaseRun, CtxState
  <2>5. pc' \in [Ids -> RunState] BY <1>3 DEF TypeOK, ReleaseRun, RunState
  <2> QED BY <1>3, <2>2, <2>3, <2>4, <2>5 DEF TypeOK, ReleaseRun
<1>4. CASE EnqueueRestart(i)
  <2>1. PICK c \in Known :
          runs' = Insert(runs, lastId + 1, Delayed(NewRun(Event(i), "restart", 0)),
                         QueueLimit(c, Event(i)))
    BY <1>4 DEF EnqueueRestart
  <2>2. lastId + 1 \in Ids BY <1>4, NextIdType DEF EnqueueRestart
  <2>3. NewRun(Event(i), "restart", 0) \in Row BY NewRunType, NoRunType, EventType DEF Kind
  <2>4. Delayed(NewRun(Event(i), "restart", 0)) \in Row BY <2>3 DEF Delayed, Row
  <2>5. runs' \in [Ids -> Row] BY <2>1, <2>2, <2>4, InsertType DEF TypeOK
  <2>6. lastId' \in 0 .. MaxRuns BY <1>4, <2>2 DEF EnqueueRestart, Ids
  <2>7. pc' \in [Ids -> RunState] BY <1>4 DEF TypeOK, EnqueueRestart, RunState
  <2> QED BY <1>4, <2>5, <2>6, <2>7 DEF TypeOK, EnqueueRestart
<1>5. CASE EndRun(i) BY <1>5 DEF TypeOK, EndRun, RunState, Outcome
<1> QED BY <1>1, <1>2, <1>3, <1>4, <1>5 DEF Run

-----------------------------------------------------------------------------
\* d.running counts the live runs

\* No row changes its event, and no row goes back into the queue.
Keeps(t, u, i) ==
  u[i].event = t[i].event /\ (u[i].status = "queued" => t[i].status = "queued")

LEMMA StatementsKeep ==
  ASSUME NEW t \in [Ids -> Row], NEW i \in Ids, NEW S
  PROVE  /\ \A j \in Ids : Keeps(t, t, j)
         /\ \A st \in Status \ {"queued"}, j \in Ids :
              /\ Keeps(t, SetStatus(t, i, st), j)
              /\ Keeps(t, StartRun(t, i), j)
              /\ Keeps(t, Settle(t, i, st), j)
              /\ Keeps(t, FinishRun(t, i, st), j)
         /\ \A j \in Ids : /\ Keeps(t, RequestCancel(t, S), j)
                           /\ Keeps(t, Abandon(t, i), j)
                           /\ Keeps(t, Prune(t), j)
BY DEF Keeps, SetStatus, StartRun, Settle, FinishRun, RequestCancel, Abandon, Prune, Row

LEMMA InsertKeeps ==
  ASSUME NEW t \in [Ids -> Row], NEW id \in Ids, NEW r \in Row, NEW max,
         NEW j \in Ids \ {id}
  PROVE  Insert(t, id, r, max)[j] = t[j]
BY DEF Insert

LEMMA RetryKeeps ==
  ASSUME NEW t \in [Ids -> Row], NEW i \in Ids, NEW id \in Ids, NEW j \in Ids \ {id}
  PROVE  Keeps(t, Retry(t, i, id), j)
BY DEF Keeps, Retry, Row

LEMMA FollowKeeps ==
  ASSUME NEW t \in [Ids -> Row], NEW i \in Ids, NEW slot, NEW max, NEW j \in Ids,
         \A e \in DOMAIN slot : slot[e] # j
  PROVE  Keeps(t, Follow(t, i, slot, max), j)
BY DEF Keeps, Follow, Row

\* What a step does to the table when it does not start a run, and to the
\* goroutines when it neither starts nor releases one.
QueueGrows ==
  /\ lastId <= lastId'
  /\ \A i \in Ids : i <= lastId => Keeps(runs, runs', i)
  /\ \A i \in Ids : i > lastId' => runs'[i].status # "queued"

RunsGoOn ==
  /\ UNCHANGED running
  /\ \A i \in Ids :
       /\ pc'[i] \in {"exec", "exited", "recorded"} <=> pc[i] \in {"exec", "exited", "recorded"}
       /\ pc[i] = "none" => pc'[i] = "none"
       /\ pc'[i] = "exited" => out'[i] # "none"

LEMMA CountingStep ==
  ASSUME TypeOK, TypeOK', Counting, QueueGrows, RunsGoOn
  PROVE  Counting'
<1>0. lastId \in Nat /\ lastId' \in Nat BY RunsAssumption DEF TypeOK
<1>1. ASSUME NEW e \in Events PROVE LiveRuns(e)' = LiveRuns(e)
  <2>1. ASSUME NEW i \in Ids, pc[i] \in {"exec", "exited", "recorded"}
        PROVE  runs'[i].event = runs[i].event
    BY <2>1, <1>0 DEF Counting, UnusedIds, QueueGrows, Keeps, Ids
  <2> QED BY <2>1 DEF LiveRuns, RunsGoOn
<1>2. RunningCounts' BY <1>1 DEF Counting, RunningCounts, RunsGoOn
<1>3. UnusedIds'
  BY <1>0 DEF Counting, UnusedIds, QueueGrows, RunsGoOn, Ids
<1>4. QueuedIdle'
  BY <1>0 DEF Counting, UnusedIds, QueuedIdle, QueueGrows, RunsGoOn, Keeps, Ids
<1>5. ExitedHasOutcome' BY DEF ExitedHasOutcome, RunsGoOn
<1> QED BY <1>2, <1>3, <1>4, <1>5 DEF Counting

LEMMA RunsGoOnFrame ==
  ASSUME Counting, UNCHANGED <<running, pc, out>> PROVE RunsGoOn
BY DEF RunsGoOn, Counting, ExitedHasOutcome

\* A step that adds no row, and keeps those it changes.
LEMMA QueueGrowsFrame ==
  ASSUME TypeOK, Counting, UNCHANGED lastId, \A i \in Ids : Keeps(runs, runs', i)
  PROVE  QueueGrows
BY RunsAssumption DEF TypeOK, QueueGrows, Counting, UnusedIds, Keeps

\* A step that adds the next row.
LEMMA QueueGrowsByOne ==
  ASSUME TypeOK, Counting, lastId < MaxRuns, lastId' = lastId + 1,
         \A i \in Ids \ {lastId + 1} : Keeps(runs, runs', i)
  PROVE  QueueGrows
<1>1. lastId \in Nat BY RunsAssumption DEF TypeOK
<1>2. \A i \in Ids : i <= lastId => i \in Ids \ {lastId + 1} BY <1>1
<1>3. ASSUME NEW i \in Ids, i > lastId' PROVE runs'[i].status # "queued"
  <2>1. i > lastId /\ i # lastId + 1 BY <1>1, <1>3 DEF Ids
  <2> QED BY <2>1 DEF Counting, UnusedIds, Keeps
<1> QED BY <1>1, <1>2, <1>3 DEF QueueGrows

LEMMA NothingCounted ==
  ASSUME TypeOK, TypeOK', Counting, UNCHANGED <<runs, lastId, running, pc, out>>
  PROVE  Counting'
<1>1. QueueGrows BY QueueGrowsFrame DEF Keeps
<1>2. RunsGoOn BY RunsGoOnFrame
<1> QED BY <1>1, <1>2, CountingStep

\* A step that only changes rows it keeps.
LEMMA RowsChange ==
  ASSUME TypeOK, TypeOK', Counting, UNCHANGED <<lastId, running, pc, out>>,
         \A i \in Ids : Keeps(runs, runs', i)
  PROVE  Counting'
<1>1. QueueGrows BY QueueGrowsFrame
<1>2. RunsGoOn BY RunsGoOnFrame
<1> QED BY <1>1, <1>2, CountingStep

\* A step that inserts one row.
LEMMA RowInserted ==
  ASSUME TypeOK, TypeOK', Counting, RunsGoOn, lastId < MaxRuns, lastId' = lastId + 1,
         NEW r \in Row, NEW max, runs' = Insert(runs, lastId + 1, r, max)
  PROVE  Counting'
<1>1. lastId + 1 \in Ids BY NextIdType
<1>2. \A i \in Ids \ {lastId + 1} : runs'[i] = runs[i]
  BY <1>1, InsertKeeps DEF TypeOK
<1>3. QueueGrows BY <1>2, QueueGrowsByOne DEF Keeps
<1> QED BY <1>3, CountingStep

LEMMA OutsideCounts == ASSUME TypeOK, TypeOK', Counting, Outside PROVE Counting'
<1>1. ASSUME NEW e \in Events, Fire(e) PROVE Counting'
  <2>1. PICK c \in Configs :
          runs' = Insert(runs, lastId + 1, NewRun(e, "fire", 0), QueueLimit(c, e))
    BY <1>1 DEF Fire
  <2>2. lastId < MaxRuns BY <1>1, RunsAssumption, DispatcherAssumption DEF Fire, TypeOK
  <2>3. NewRun(e, "fire", 0) \in Row BY NewRunType, NoRunType DEF Kind
  <2>4. RunsGoOn BY <1>1, RunsGoOnFrame DEF Fire
  <2> QED BY <1>1, <2>1, <2>2, <2>3, <2>4, RowInserted DEF Fire
<1>2. ASSUME NEW e \in Events, CancelEvent(e) PROVE Counting'
  BY <1>2, StatementsKeep, RowsChange DEF CancelEvent, TypeOK
<1>3. ASSUME NEW i \in Ids, CancelRun(i) PROVE Counting'
  BY <1>3, StatementsKeep, RowsChange DEF CancelRun, TypeOK
<1>4. ASSUME NEW i \in Ids, BecomeDue(i) PROVE Counting'
  <2>1. \A j \in Ids : Keeps(runs, runs', j) BY <1>4 DEF BecomeDue, Keeps, TypeOK, Row
  <2> QED BY <1>4, <2>1, RowsChange DEF BecomeDue
<1>5. ASSUME LongDowntime PROVE Counting'
  <2>1. \A j \in Ids : Keeps(runs, runs', j) BY <1>5 DEF LongDowntime, Keeps, TypeOK, Row
  <2> QED BY <1>5, <2>1, RowsChange DEF LongDowntime
<1>6. ASSUME NEW e \in Events, NEW wait \in BOOLEAN, Submit(e, wait) PROVE Counting'
  <2>1. PICK c \in Known :
          runs' = Insert(runs, lastId + 1, NewRun(e, "fire", 0), QueueLimit(c, e))
    BY <1>6 DEF Submit
  <2>2. lastId < MaxRuns BY <1>6, RunsAssumption, DispatcherAssumption DEF Submit, TypeOK
  <2>3. NewRun(e, "fire", 0) \in Row BY NewRunType, NoRunType DEF Kind
  <2>4. RunsGoOn BY <1>6, RunsGoOnFrame DEF Submit
  <2> QED BY <1>6, <2>1, <2>2, <2>3, <2>4, RowInserted DEF Submit
<1> QED BY <1>1, <1>2, <1>3, <1>4, <1>5, <1>6 DEF Outside

LEMMA MemoryLost == ASSUME TypeOK, TypeOK', Counting, LoseMemory PROVE Counting'
<1>1. ASSUME NEW e \in Events PROVE LiveRuns(e)' = {} BY DEF LoseMemory, LiveRuns
<1>2. RunningCounts' BY <1>1, FS_EmptySet DEF RunningCounts, LoseMemory
<1> QED BY <1>2 DEF Counting, UnusedIds, QueuedIdle, ExitedHasOutcome, LoseMemory

LEMMA ProcessCounts == ASSUME TypeOK, TypeOK', Counting, Process PROVE Counting'
<1>1. ASSUME NEW c \in Configs, StartAgent(c) PROVE Counting'
  BY <1>1, NothingCounted DEF StartAgent
<1>2. ASSUME NEW c \in Configs, Configure(c) PROVE Counting'
  BY <1>2, NothingCounted DEF Configure
<1>3. ASSUME NEW i \in Ids, Recover(i) PROVE Counting'
  <2>1. CASE lastId < MaxRuns /\ runs' = Retry(runs, i, lastId + 1) /\ lastId' = lastId + 1
    <3>1. lastId + 1 \in Ids BY <2>1, NextIdType
    <3>2. \A j \in Ids \ {lastId + 1} : Keeps(runs, runs', j)
      BY <2>1, <3>1, RetryKeeps DEF TypeOK
    <3>3. QueueGrows BY <2>1, <3>2, QueueGrowsByOne
    <3> QED BY <1>3, <3>3, RunsGoOnFrame, CountingStep DEF Recover
  <2>2. CASE runs' = Abandon(runs, i) /\ UNCHANGED lastId
    BY <1>3, <2>2, StatementsKeep, RowsChange DEF Recover, TypeOK
  <2> QED BY <1>3, <2>1, <2>2 DEF Recover
<1>4. ASSUME StartLoop PROVE Counting'
  <2>1. \A i \in Ids : Keeps(runs, runs', i) BY <1>4, StatementsKeep DEF StartLoop, TypeOK
  <2> QED BY <1>4, <2>1, RowsChange DEF StartLoop
<1>5. ASSUME Stop PROVE Counting' BY <1>5, NothingCounted DEF Stop
<1>6. ASSUME WaitReturns PROVE Counting' BY <1>6, NothingCounted DEF WaitReturns
<1>7. ASSUME StopLoop PROVE Counting' BY <1>7, NothingCounted DEF StopLoop
<1>8. ASSUME ExitAgent \/ Crash PROVE Counting' BY <1>8, MemoryLost DEF ExitAgent, Crash
<1> QED BY <1>1, <1>2, <1>3, <1>4, <1>5, <1>6, <1>7, <1>8 DEF Process

LEMMA SettleRowCounts ==
  ASSUME TypeOK, TypeOK', Counting, NEW i \in Ids, NEW st \in {"skipped", "dropped"},
         SettleRow(i, st), UNCHANGED lastId
  PROVE  Counting'
<1>1. \A j \in Ids : Keeps(runs, runs', j)
  BY StatementsKeep DEF SettleRow, TypeOK, Status, Final
<1> QED BY <1>1, RowsChange DEF SettleRow

\* Start counts the run that it adds to the live ones: its row was queued, and so
\* it was not among them.
LEMMA StartCounts == ASSUME TypeOK, TypeOK', Counting, NEW i \in Ids, Start(i) PROVE Counting'
<1>1. CASE runs' = runs
  BY <1>1, NothingCounted DEF Start, RowDone
<1>2. CASE runs' # runs
  <2> DEFINE e == Event(i)
  <2>0. runs[i].status = "queued" BY <1>2 DEF Start, StartRun
  <2>1. runs' = SetStatus(runs, i, "running") BY <2>0 DEF Start, StartRun
  <2>2. \A j \in Ids : Keeps(runs, runs', j) BY <2>1, StatementsKeep DEF TypeOK, Status
  <2>3. runs'[i].status = "running" BY <2>1 DEF SetStatus, TypeOK, Row
  <2>4. pc[i] = "none" /\ i <= lastId
    BY <2>0, RunsAssumption DEF Counting, QueuedIdle, UnusedIds, TypeOK, Ids
  <2>5. pc' = [pc EXCEPT ![i] = "exec"] /\ UNCHANGED <<lastId, out>>
        /\ running' = [running EXCEPT ![e] = @ + 1]
    BY <1>2 DEF Start, RowDone, Counted
  <2>6. e \in Events BY EventType
  <2>7. ASSUME NEW f \in Events
        PROVE  LiveRuns(f)' = IF f = e THEN LiveRuns(f) \cup {i} ELSE LiveRuns(f)
    BY <2>2, <2>4, <2>5 DEF LiveRuns, Keeps, TypeOK, Event
  <2>8. i \notin LiveRuns(e) BY <2>4 DEF LiveRuns
  <2>9. Cardinality(LiveRuns(e) \cup {i}) = Cardinality(LiveRuns(e)) + 1
    BY <2>6, <2>8, LiveRunsFinite, FS_AddElement
  <2>10. RunningCounts'
    BY <2>5, <2>6, <2>7, <2>9 DEF Counting, RunningCounts, TypeOK
  <2>11. UnusedIds'
    <3>1. ASSUME NEW j \in Ids, j > lastId PROVE runs[j].status # "queued" /\ pc[j] = "none" /\ j # i
      BY <2>0, <3>1 DEF Counting, UnusedIds
    <3>2. ASSUME NEW j \in Ids, j > lastId PROVE runs'[j].status # "queued" /\ pc'[j] = "none"
      BY <2>2, <2>5, <3>1, <3>2 DEF Keeps, TypeOK
    <3> QED BY <2>5, <3>2 DEF UnusedIds
  <2>12. QueuedIdle' BY <2>2, <2>3, <2>5 DEF Counting, QueuedIdle, Keeps, TypeOK
  <2>13. ExitedHasOutcome' BY <2>5 DEF Counting, ExitedHasOutcome, TypeOK
  <2> QED BY <2>10, <2>11, <2>12, <2>13 DEF Counting
<1> QED BY <1>1, <1>2

LEMMA HandleRowCounts ==
  ASSUME TypeOK, TypeOK', Counting, NEW i \in Ids, HandleRow(i) PROVE Counting'
<1>1. CASE SettleReplaced(i) BY <1>1, SettleRowCounts DEF SettleReplaced, RowDone
<1>2. CASE CheckRow(i) BY <1>2, NothingCounted DEF CheckRow
<1>3. CASE DropRow(i) BY <1>3, SettleRowCounts DEF DropRow, RowDone
<1>4. CASE SkipRow(i) BY <1>4, SettleRowCounts DEF SkipRow, RowDone
<1>5. CASE KeepRow(i) BY <1>5, NothingCounted DEF KeepRow, RowDone
<1>6. CASE ReplaceRun(i) BY <1>6, NothingCounted DEF ReplaceRun, RowDone
<1>7. CASE Start(i) BY <1>7, StartCounts
<1> QED BY <1>1, <1>2, <1>3, <1>4, <1>5, <1>6, <1>7 DEF HandleRow

LEMMA FollowRunCounts ==
  ASSUME TypeOK, TypeOK', Counting, NEW i \in Ids, FollowRun(i) PROVE Counting'
<1> DEFINE fired == Followers(i)
           n     == lastId + Cardinality(fired)
           max   == [e \in fired |-> QueueLimit(specs, e)]
<1>1. fired \subseteq Events BY DispatcherAssumption DEF TypeOK, Followers
<1>2. IsFiniteSet(fired) /\ Cardinality(fired) \in Nat
  BY <1>1, RunsAssumption, FS_Subset, FS_CardinalityType
<1>3. PICK slot \in [fired -> lastId + 1 .. n] :
        /\ \A e, f \in fired : slot[e] = slot[f] => e = f
        /\ runs' = Follow(runs, i, slot, max)
  BY DEF FollowRun
<1>4. lastId' = n BY DEF FollowRun
<1>5. \A j \in Ids : j <= lastId \/ j > n => \A e \in DOMAIN slot : slot[e] # j
  BY <1>2 DEF TypeOK, Ids
<1>6. \A j \in Ids : j <= lastId \/ j > n => Keeps(runs, runs', j)
  BY <1>3, <1>5, FollowKeeps DEF TypeOK
<1>7. lastId \in Nat /\ lastId <= n BY <1>2, RunsAssumption DEF TypeOK
<1>8. QueueGrows
  BY <1>2, <1>4, <1>6, <1>7 DEF QueueGrows, Counting, UnusedIds, Keeps, Ids
<1>9. RunsGoOn BY RunsGoOnFrame DEF FollowRun
<1> QED BY <1>8, <1>9, CountingStep

LEMMA LoopCounts == ASSUME TypeOK, TypeOK', Counting, Loop PROVE Counting'
<1>1. CASE Wake BY <1>1, NothingCounted DEF Wake
<1>2. CASE Tick BY <1>2, NothingCounted DEF Tick
<1>3. CASE ReadEnded BY <1>3, NothingCounted DEF ReadEnded
<1>4. CASE BeginScan BY <1>4, NothingCounted DEF BeginScan
<1>5. CASE ReadQueued BY <1>5, NothingCounted DEF ReadQueued
<1>6. CASE EndStep BY <1>6, NothingCounted DEF EndStep
<1>7. ASSUME NEW i \in Ids, ProcessCancel(i) PROVE Counting'
  <2>1. \A j \in Ids : Keeps(runs, runs', j)
    <3>1. CASE UNCHANGED runs BY <3>1 DEF Keeps
    <3>2. CASE runs' = FinishRun(runs, i, "canceled")
      BY <3>2, StatementsKeep DEF TypeOK, Status, Final
    <3> QED BY <1>7, <3>1, <3>2 DEF ProcessCancel
  <2> QED BY <1>7, <2>1, RowsChange DEF ProcessCancel
<1> QED
  BY <1>1, <1>2, <1>3, <1>4, <1>5, <1>6, <1>7, FollowRunCounts, HandleRowCounts DEF Loop

\* finish takes the run out of the live ones and out of d.running.
LEMMA ReleaseCounts ==
  ASSUME TypeOK, TypeOK', Counting, NEW i \in Ids, ReleaseRun(i) PROVE Counting'
<1> DEFINE e == Event(i)
<1>1. pc[i] = "recorded" /\ pc' = [pc EXCEPT ![i] = "released"]
      /\ running' = [running EXCEPT ![e] = @ - 1] /\ UNCHANGED <<runs, lastId, out>>
  BY DEF ReleaseRun, Uncounted
<1>2. e \in Events BY EventType
<1>3. ASSUME NEW f \in Events
      PROVE  LiveRuns(f)' = IF f = e THEN LiveRuns(f) \ {i} ELSE LiveRuns(f)
  BY <1>1 DEF LiveRuns, TypeOK, Event
<1>4. IsFiniteSet(LiveRuns(e)) BY <1>2, LiveRunsFinite
<1>5. i \in LiveRuns(e) BY <1>1 DEF LiveRuns, Event
<1>6. Cardinality(LiveRuns(e) \ {i}) = Cardinality(LiveRuns(e)) - 1
  BY <1>4, <1>5, FS_RemoveElement
<1>7. RunningCounts' BY <1>1, <1>2, <1>3, <1>6 DEF Counting, RunningCounts, TypeOK
<1>8. UnusedIds' BY <1>1 DEF Counting, UnusedIds, TypeOK
<1>9. QueuedIdle' BY <1>1 DEF Counting, QueuedIdle, TypeOK
<1>10. ExitedHasOutcome' BY <1>1 DEF Counting, ExitedHasOutcome, TypeOK
<1> QED BY <1>7, <1>8, <1>9, <1>10 DEF Counting

LEMMA RunCounts == ASSUME TypeOK, TypeOK', Counting, NEW i \in Ids, Run(i) PROVE Counting'
<1>1. CASE CommandEnds(i)
  <2>1. QueueGrows BY <1>1, QueueGrowsFrame DEF Keeps, CommandEnds
  <2>2. out'[i] # "none" BY <1>1 DEF CommandEnds, Results, TypeOK
  <2>3. RunsGoOn
    BY <1>1, <2>2 DEF CommandEnds, RunsGoOn, Counting, ExitedHasOutcome, TypeOK
  <2> QED BY <2>1, <2>3, CountingStep
<1>2. CASE RecordRun(i)
  <2>1. out[i] \in Status \ {"queued"}
    BY <1>2 DEF TypeOK, Counting, ExitedHasOutcome, RecordRun, Outcome, Status, Final
  <2>2. \A j \in Ids : Keeps(runs, runs', j) BY <1>2, <2>1, StatementsKeep DEF RecordRun, TypeOK
  <2>3. QueueGrows BY <1>2, <2>2, QueueGrowsFrame DEF RecordRun
  <2>4. RunsGoOn BY <1>2 DEF RecordRun, RunsGoOn, Counting, ExitedHasOutcome, TypeOK
  <2> QED BY <2>3, <2>4, CountingStep
<1>3. CASE ReleaseRun(i) BY <1>3, ReleaseCounts
<1>4. CASE EnqueueRestart(i)
  <2>1. PICK c \in Known :
          runs' = Insert(runs, lastId + 1, Delayed(NewRun(Event(i), "restart", 0)),
                         QueueLimit(c, Event(i)))
    BY <1>4 DEF EnqueueRestart
  <2>2. NewRun(Event(i), "restart", 0) \in Row BY NewRunType, NoRunType, EventType DEF Kind
  <2>3. Delayed(NewRun(Event(i), "restart", 0)) \in Row BY <2>2 DEF Delayed, Row
  <2>4. RunsGoOn BY <1>4 DEF EnqueueRestart, RunsGoOn, Counting, ExitedHasOutcome, TypeOK
  <2> QED BY <1>4, <2>1, <2>3, <2>4, RowInserted DEF EnqueueRestart
<1>5. CASE EndRun(i)
  <2>1. QueueGrows BY <1>5, QueueGrowsFrame DEF Keeps, EndRun
  <2>2. RunsGoOn BY <1>5 DEF EndRun, RunsGoOn, Counting, ExitedHasOutcome, TypeOK
  <2> QED BY <2>1, <2>2, CountingStep
<1> QED BY <1>1, <1>2, <1>3, <1>4, <1>5 DEF Run

-----------------------------------------------------------------------------
\* Theorems

LEMMA InitIInv == ASSUME Init PROVE IInv
<1>1. TypeOK
  <2>1. runs \in [Ids -> Row] BY EmptyTableType DEF Init
  <2>2. lastId \in 0 .. MaxRuns BY NoRunType DEF Init
  <2>3. running \in [Events -> Nat] /\ active \in [Events -> 0 .. MaxRuns]
    BY NoRunType DEF Init
  <2>4. ctx \in [Ids -> CtxState] /\ pc \in [Ids -> RunState] /\ out \in [Ids -> Outcome]
    BY DEF Init, CtxState, RunState, Outcome
  <2>5. agent \in AgentState /\ loop \in LoopState BY DEF Init, AgentState, LoopState
  <2> QED BY <2>1, <2>2, <2>3, <2>4, <2>5 DEF TypeOK, Init
<1>2. \A e \in Events : LiveRuns(e) = {} BY DEF Init, LiveRuns
<1>3. RunningCounts BY <1>2, FS_EmptySet DEF Init, RunningCounts
<1>4. \A i \in Ids : runs[i].status = "absent"
  BY DEF Init, EmptyTable, NewRun
<1>5. UnusedIds /\ QueuedIdle /\ ExitedHasOutcome
  BY <1>4 DEF Init, UnusedIds, QueuedIdle, ExitedHasOutcome
<1> QED BY <1>1, <1>3, <1>5 DEF IInv, Counting

LEMMA NextIInv == ASSUME IInv, [Next]_vars PROVE IInv'
<1>1. TypeOK'
  <2>1. CASE UNCHANGED vars BY <2>1 DEF IInv, TypeOK, vars
  <2> QED BY <2>1, OutsideTypes, ProcessTypes, LoopTypes, RunTypes DEF IInv, Next
<1>2. Counting'
  <2>1. CASE UNCHANGED vars BY <1>1, <2>1, NothingCounted DEF IInv, vars
  <2> QED BY <1>1, <2>1, OutsideCounts, ProcessCounts, LoopCounts, RunCounts DEF IInv, Next
<1> QED BY <1>1, <1>2 DEF IInv

\* In every state of every behaviour, the variables have their types and d.running
\* counts the live runs; with it, the IDs above the last one are unused, a queued
\* row has no goroutine and a goroutine that ended has an outcome (the whole of
\* dispatcher.go, with crashes, stops and reloads).
THEOREM Invariant == Spec => []IInv
BY InitIInv, NextIInv, PTL DEF Spec

\* Every variable of the dispatcher keeps its type.  d.running never goes below
\* zero, although finish decrements it without a test: that is why the proof needs
\* the invariant that it counts the live runs.
THEOREM TypeCorrect == Spec => []TypeOK
BY Invariant, PTL DEF IInv

\* d.running counts the live runs of each event (schedule, finish).
THEOREM RunningIsExact == Spec => []RunningCounts
BY Invariant, PTL DEF IInv, Counting

Live == {"exec", "exited", "recorded"}

\* Only Start brings a goroutine to life.
LEMMA OnlyStartEnlivens ==
  ASSUME IInv, [Next]_vars, NEW i \in Ids, pc[i] \notin Live, pc'[i] \in Live PROVE Start(i)
<1>1. pc[i] \notin {"exec", "exited", "recorded"} /\ pc'[i] \in {"exec", "exited", "recorded"}
  BY DEF Live
<1>2. ~UNCHANGED vars BY <1>1 DEF vars
<1>3. ~Outside
  BY <1>1 DEF Outside, Fire, CancelEvent, CancelRun, BecomeDue, Submit, LongDowntime
<1>4. ~Process
  BY <1>1 DEF Process, StartAgent, Configure, Recover, StartLoop, Stop, WaitReturns,
              StopLoop, ExitAgent, Crash, LoseMemory
<1>5. ASSUME NEW j \in Ids PROVE ~Run(j)
  BY <1>1 DEF IInv, TypeOK, Run, CommandEnds, RecordRun, ReleaseRun, EnqueueRestart, EndRun
<1>6. ASSUME Loop PROVE Start(i)
  <2>1. PICK j \in Ids : HandleRow(j)
    BY <1>1, <1>6 DEF Loop, Wake, Tick, ReadEnded, BeginScan, ReadQueued, EndStep,
                      ProcessCancel, FollowRun
  <2>2. Start(j)
    BY <1>1, <2>1 DEF HandleRow, SettleReplaced, CheckRow, DropRow, SkipRow, KeepRow,
                      ReplaceRun, SettleRow
  <2>3. j = i BY <1>1, <2>2 DEF IInv, TypeOK, Start
  <2> QED BY <2>2, <2>3
<1> QED BY <1>2, <1>3, <1>4, <1>5, <1>6 DEF Next

LEMMA OnlyStartStarts == ASSUME IInv, [Next]_vars, NEW i \in Ids, Starts(i) PROVE Start(i)
BY OnlyStartEnlivens DEF Starts, Live

LEMMA StartIsExclusive ==
  ASSUME IInv, NEW i \in Ids, Start(i), Policy(Event(i)) # "parallel"
  PROVE  LiveRuns(Event(i)) = {}
<1>1. Event(i) \in Events BY EventType DEF IInv
<1>2. running[Event(i)] = 0 BY <1>1 DEF Start, Busy, IInv, TypeOK
<1> QED BY <1>1, <1>2, LiveRunsFinite, FS_EmptySet DEF IInv, Counting, RunningCounts

\* A run whose event is not parallel when it starts is the only live run of its
\* event, whatever the policy was when the live runs started (schedule, Configure).
THEOREM StartsExclusive == Spec => ExclusiveStart
<1>1. IInv /\ [Next]_vars
        => [\A i \in Ids : Starts(i) /\ Policy(Event(i)) # "parallel"
                              => LiveRuns(Event(i)) = {}]_vars
  BY OnlyStartStarts, StartIsExclusive
<1> QED BY <1>1, Invariant, PTL DEF Spec, ExclusiveStart
-----------------------------------------------------------------------------
\* Rows and goroutines

\* Before the loop starts nothing runs.
IdleUntilUp ==
  /\ agent = "down" => loop = "off"
  /\ agent = "recovering" <=> loop = "recover"
  /\ agent \in {"down", "recovering"} => \A i \in Ids : pc[i] = "none"

\* A goroutine keeps its context in d.cancels until finish releases it, so that
\* processCancels does not take its row for one that no command backs.
ContextsKept == \A i \in Ids : pc[i] \in {"exec", "exited", "recorded"} => ctx[i] # "none"

\* Only the stop of the agent ends a context so.
ShutdownsKnown == \A i \in Ids : ctx[i] = "shutdown" => Stopping

\* A stop request leaves no context that is live, and none becomes so after it.
StopReaches == Stopping => \A i \in Ids : ctx[i] # "live"

Control == IdleUntilUp /\ ContextsKept /\ ShutdownsKnown /\ StopReaches

\* The row of run i is interrupted, or will be when its goroutine records it.
Interrupts(i) == runs[i].status = "interrupted" \/ (pc[i] = "exited" /\ out[i] = "interrupted")

\* The rows and the goroutines, without the contexts.
RowsAgree ==
  agent \notin {"down", "recovering"} =>
    \A i \in Ids :
      /\ runs[i].status = "running" => pc[i] \in {"exec", "exited"}
      /\ pc[i] \in {"exec", "exited"} => runs[i].status = "running"
      /\ Interrupts(i) => Stopping \/ Event(i) \in Timed

\* Recover has before it every row that the previous process left.
LeftOver == agent = "recovering" => todo = InterruptedRuns(runs)

\* An ID that was not given belongs to no row.
UnusedRows == \A i \in Ids : i > lastId => runs[i].status = "absent" /\ runs[i].retryOf = 0

AnsweredKnown == \A i \in answered : i <= lastId

\* The rows of processCancels were running when it read them.
CancelsStarted ==
  loop = "cancels" => \A i \in todo :
    runs[i].status \in {"running", "interrupted", "succeeded", "failed", "canceled"}

Backed ==
  LeftOver /\ UnusedRows /\ AnsweredKnown /\ CancelsStarted /\ RowsAgree /\ AnswersAreRecorded

BInv == IInv /\ Control /\ Backed

LEMMA OutsideControl == ASSUME Control, Outside PROVE Control'
BY DEF Outside, Fire, CancelEvent, CancelRun, BecomeDue, Submit, LongDowntime,
       Control, IdleUntilUp, ContextsKept, ShutdownsKnown, StopReaches, Stopping

LEMMA ProcessControl == ASSUME TypeOK, Control, Process PROVE Control'
<1> USE DEF Control, IdleUntilUp, ContextsKept, ShutdownsKnown, StopReaches, Stopping
<1>1. ASSUME NEW c \in Configs, StartAgent(c) PROVE Control' BY <1>1 DEF StartAgent
<1>2. ASSUME NEW c \in Configs, Configure(c) PROVE Control' BY <1>2 DEF Configure
<1>3. ASSUME NEW i \in Ids, Recover(i) PROVE Control' BY <1>3 DEF Recover
<1>4. ASSUME StartLoop PROVE Control' BY <1>4 DEF StartLoop
<1>5. ASSUME Stop PROVE Control' BY <1>5 DEF Stop, TypeOK, CtxState
<1>6. ASSUME WaitReturns PROVE Control' BY <1>6 DEF WaitReturns
<1>7. ASSUME StopLoop PROVE Control' BY <1>7 DEF StopLoop
<1>8. ASSUME ExitAgent \/ Crash PROVE Control' BY <1>8 DEF ExitAgent, Crash, LoseMemory
<1> QED BY <1>1, <1>2, <1>3, <1>4, <1>5, <1>6, <1>7, <1>8 DEF Process

LEMMA LoopControl == ASSUME TypeOK, Control, Loop PROVE Control'
<1> USE DEF Control, IdleUntilUp, ContextsKept, ShutdownsKnown, StopReaches, Stopping
<1>1. CASE Wake \/ Tick BY <1>1 DEF Wake, Tick, BeginStep
<1>2. CASE ReadEnded \/ BeginScan \/ ReadQueued \/ EndStep
  BY <1>2 DEF ReadEnded, BeginScan, ReadQueued, EndStep
<1>3. ASSUME NEW i \in Ids, ProcessCancel(i) PROVE Control'
  BY <1>3 DEF ProcessCancel, TypeOK, CtxState
<1>4. ASSUME NEW i \in Ids, FollowRun(i) PROVE Control' BY <1>4 DEF FollowRun
<1>5. ASSUME NEW i \in Ids, HandleRow(i) PROVE Control'
  <2>1. CASE SettleReplaced(i) \/ DropRow(i) \/ SkipRow(i)
    BY <1>5, <2>1 DEF SettleReplaced, DropRow, SkipRow, AtRow, SettleRow, RowDone
  <2>2. CASE CheckRow(i) BY <1>5, <2>2 DEF CheckRow
  <2>3. CASE KeepRow(i) BY <1>5, <2>3 DEF KeepRow, AtRow, RowDone
  <2>4. CASE ReplaceRun(i) BY <1>5, <2>4 DEF ReplaceRun, AtRow, RowDone, TypeOK, CtxState
  <2>5. CASE Start(i) BY <1>5, <2>5 DEF Start, AtRow, RowDone, TypeOK, CtxState, RunState
  <2> QED BY <1>5, <2>1, <2>2, <2>3, <2>4, <2>5 DEF HandleRow
<1> QED BY <1>1, <1>2, <1>3, <1>4, <1>5 DEF Loop

LEMMA RunControl == ASSUME TypeOK, Control, NEW i \in Ids, Run(i) PROVE Control'
<1> USE DEF Control, IdleUntilUp, ContextsKept, ShutdownsKnown, StopReaches, Stopping, TypeOK
<1>1. CASE CommandEnds(i) BY <1>1 DEF CommandEnds
<1>2. CASE RecordRun(i) BY <1>2 DEF RecordRun
<1>3. CASE ReleaseRun(i) BY <1>3 DEF ReleaseRun
<1>4. CASE EnqueueRestart(i) BY <1>4 DEF EnqueueRestart
<1>5. CASE EndRun(i) BY <1>5 DEF EndRun
<1> QED BY <1>1, <1>2, <1>3, <1>4, <1>5 DEF Run

\* Row j stays as it is, or leaves the queue without having started.
Settles(t, u, j) ==
  /\ u[j].retryOf = t[j].retryOf /\ u[j].event = t[j].event
  /\ \/ u[j].status = t[j].status
     \/ t[j].status = "queued" /\ u[j].status \in {"canceled", "skipped", "dropped"}

\* Row j is new.
Inserted(j) == j > lastId /\ j <= lastId' /\ runs'[j].status \in {"queued", "dropped"}

\* What a step does that neither starts a run nor records an outcome.
RowsSettle == lastId <= lastId' /\ \A j \in Ids : Settles(runs, runs', j) \/ Inserted(j)

QuietStep ==
  /\ RowsSettle
  /\ \A j \in Ids : pc'[j] \in {"exec", "exited"} <=> pc[j] \in {"exec", "exited"}
  /\ \A j \in Ids : pc'[j] = "exited" /\ out'[j] = "interrupted" =>
       (pc[j] = "exited" /\ out[j] = "interrupted") \/ Stopping \/ Event(j) \in Timed
  /\ agent' \notin {"down", "recovering"} =>
       agent \notin {"down", "recovering"} /\ (Stopping => Stopping')
  /\ agent' = "recovering" => agent = "recovering" /\ todo' = todo
  /\ loop' = "cancels" => (loop = "cancels" /\ todo' \subseteq todo) \/ todo' = CancelRequests(runs')
  /\ \A j \in answered' :
       j \in answered \/ (j <= lastId' /\ runs'[j].status \notin {"queued", "running"})

LEMMA QuietBacked == ASSUME BInv, TypeOK', QuietStep PROVE Backed'
<1>0. lastId \in Nat /\ lastId' \in Nat /\ lastId <= lastId'
  BY RunsAssumption DEF BInv, IInv, TypeOK, QuietStep, RowsSettle
<1>1. ASSUME NEW j \in Ids, Inserted(j)
      PROVE  runs[j].status = "absent" /\ pc[j] = "none" /\ j \notin answered
  BY <1>0, <1>1 DEF Inserted, BInv, IInv, Counting, UnusedIds, Backed, UnusedRows, AnsweredKnown, Ids
<1>2. ASSUME NEW j \in Ids, j > lastId' PROVE Settles(runs, runs', j) /\ j > lastId
  BY <1>0, <1>2 DEF QuietStep, RowsSettle, Inserted, Ids
<1>3. UnusedRows'
  BY <1>2 DEF UnusedRows, Settles, BInv, Backed
<1>4. AnsweredKnown' /\ AnswersAreRecorded'
  <2>1. ASSUME NEW j \in answered' PROVE j <= lastId' /\ runs'[j].status \notin {"queued", "running"}
    <3>1. j \in Ids BY DEF TypeOK
    <3>2. CASE j \in answered
      <4>1. j <= lastId /\ runs[j].status \notin {"queued", "running"}
        BY <3>2 DEF BInv, Backed, AnsweredKnown, AnswersAreRecorded
      <4>2. Settles(runs, runs', j) BY <3>1, <3>2, <1>1 DEF QuietStep, RowsSettle
      <4> QED BY <1>0, <3>1, <4>1, <4>2 DEF Settles, Ids
    <3> QED BY <3>2 DEF QuietStep
  <2> QED BY <2>1 DEF AnsweredKnown, AnswersAreRecorded
<1>5. \A j \in Ids : runs'[j].status \in {"running", "interrupted"}
        <=> runs[j].status \in {"running", "interrupted"}
  BY <1>1 DEF QuietStep, RowsSettle, Inserted, Settles
<1>6. LeftOver'
  BY <1>5 DEF LeftOver, BInv, Backed, QuietStep, InterruptedRuns, InStatus
<1>7. CancelsStarted'
  <2>1. CASE todo' = CancelRequests(runs')
    BY <2>1 DEF CancelsStarted, CancelRequests, InStatus
  <2>2. CASE loop = "cancels" /\ todo' \subseteq todo
    <3>1. ASSUME NEW j \in todo'
          PROVE  runs'[j].status \in {"running", "interrupted", "succeeded", "failed", "canceled"}
      <4>1. j \in Ids /\ runs[j].status \in {"running", "interrupted", "succeeded", "failed", "canceled"}
        BY <2>2 DEF BInv, IInv, TypeOK, Backed, CancelsStarted
      <4>2. Settles(runs, runs', j) BY <4>1, <1>1 DEF QuietStep, RowsSettle
      <4> QED BY <4>1, <4>2 DEF Settles
    <3> QED BY <3>1 DEF CancelsStarted
  <2> QED BY <2>1, <2>2 DEF QuietStep, CancelsStarted
<1>8. RowsAgree'
  <2>1. ASSUME NEW j \in Ids, agent' \notin {"down", "recovering"}
        PROVE  /\ runs'[j].status = "running" => pc'[j] \in {"exec", "exited"}
               /\ pc'[j] \in {"exec", "exited"} => runs'[j].status = "running"
               /\ Interrupts(j)' => Stopping' \/ Event(j)' \in Timed
    <3>1. CASE Inserted(j) BY <3>1, <1>1 DEF Inserted, QuietStep, Interrupts
    <3>2. CASE Settles(runs, runs', j)
      <4>1. Event(j)' = Event(j) BY <3>2 DEF Settles, Event
      <4>2. agent \notin {"down", "recovering"} /\ (Stopping => Stopping') BY <2>1 DEF QuietStep
      <4>3. Interrupts(j)' => Interrupts(j) \/ Stopping \/ Event(j) \in Timed
        BY <3>2 DEF Settles, QuietStep, Interrupts
      <4>4. Interrupts(j)' => Stopping' \/ Event(j)' \in Timed
        BY <4>1, <4>2, <4>3 DEF BInv, Backed, RowsAgree
      <4> QED BY <2>1, <3>2, <4>4 DEF BInv, Backed, RowsAgree, QuietStep, Settles
    <3> QED BY <3>1, <3>2 DEF QuietStep, RowsSettle
  <2> QED BY <2>1 DEF RowsAgree
<1> QED BY <1>3, <1>4, <1>6, <1>7, <1>8 DEF Backed

\* The statements that only settle rows.
LEMMA StatementsSettle ==
  ASSUME NEW t \in [Ids -> Row], NEW i \in Ids, NEW S, NEW j \in Ids
  PROVE  /\ Settles(t, t, j)
         /\ \A st \in {"skipped", "dropped"} : Settles(t, Settle(t, i, st), j)
         /\ Settles(t, RequestCancel(t, S), j)
BY DEF Settles, SetStatus, Settle, RequestCancel, Row

\* The step that inserts one row.
LEMMA InsertSettles ==
  ASSUME TypeOK, lastId < MaxRuns, lastId' = lastId + 1,
         NEW r \in Row, r.status = "queued", NEW max, runs' = Insert(runs, lastId + 1, r, max)
  PROVE  RowsSettle
<1>1. lastId \in Nat /\ lastId + 1 \in Ids BY NextIdType, RunsAssumption DEF TypeOK
<1>2. \A j \in Ids \ {lastId + 1} : runs'[j] = runs[j] BY <1>1, InsertKeeps DEF TypeOK
<1>3. runs'[lastId + 1].status \in {"queued", "dropped"} BY <1>1 DEF TypeOK, Insert, Row
<1> QED BY <1>1, <1>2, <1>3 DEF RowsSettle, Settles, Inserted, Ids

LEMMA RowsSettleFrame ==
  ASSUME TypeOK, UNCHANGED lastId, \A j \in Ids : Settles(runs, runs', j) PROVE RowsSettle
BY RunsAssumption DEF TypeOK, RowsSettle

LEMMA OutsideQuiet == ASSUME BInv, Outside PROVE QuietStep
<1> USE DEF BInv, IInv
<1>1. ASSUME NEW e \in Events, Fire(e) PROVE QuietStep
  <2>1. PICK c \in Configs :
          runs' = Insert(runs, lastId + 1, NewRun(e, "fire", 0), QueueLimit(c, e))
    BY <1>1 DEF Fire
  <2>2. lastId < MaxRuns BY <1>1, RunsAssumption, DispatcherAssumption DEF Fire, TypeOK
  <2>3. NewRun(e, "fire", 0) \in Row BY NewRunType, NoRunType DEF Kind
  <2>4. RowsSettle BY <1>1, <2>1, <2>2, <2>3, InsertSettles DEF Fire, NewRun
  <2> QED BY <1>1, <2>4 DEF Fire, QuietStep, Stopping
<1>2. ASSUME NEW e \in Events, CancelEvent(e) PROVE QuietStep
  <2>1. RowsSettle BY <1>2, StatementsSettle, RowsSettleFrame DEF CancelEvent, TypeOK
  <2> QED BY <1>2, <2>1 DEF CancelEvent, QuietStep, Stopping
<1>3. ASSUME NEW i \in Ids, CancelRun(i) PROVE QuietStep
  <2>1. RowsSettle BY <1>3, StatementsSettle, RowsSettleFrame DEF CancelRun, TypeOK
  <2> QED BY <1>3, <2>1 DEF CancelRun, QuietStep, Stopping
<1>4. ASSUME NEW i \in Ids, BecomeDue(i) PROVE QuietStep
  <2>1. \A j \in Ids : Settles(runs, runs', j) BY <1>4 DEF BecomeDue, Settles, TypeOK, Row
  <2>2. RowsSettle BY <1>4, <2>1, RowsSettleFrame DEF BecomeDue
  <2> QED BY <1>4, <2>2 DEF BecomeDue, QuietStep, Stopping
<1>5. ASSUME LongDowntime PROVE QuietStep
  <2>1. \A j \in Ids : Settles(runs, runs', j) BY <1>5 DEF LongDowntime, Settles, TypeOK, Row
  <2>2. RowsSettle BY <1>5, <2>1, RowsSettleFrame DEF LongDowntime
  <2> QED BY <1>5, <2>2 DEF LongDowntime, QuietStep, Stopping
<1>6. ASSUME NEW e \in Events, NEW wait \in BOOLEAN, Submit(e, wait) PROVE QuietStep
  <2>1. PICK c \in Known :
          runs' = Insert(runs, lastId + 1, NewRun(e, "fire", 0), QueueLimit(c, e))
    BY <1>6 DEF Submit
  <2>2. lastId < MaxRuns BY <1>6, RunsAssumption, DispatcherAssumption DEF Submit, TypeOK
  <2>3. NewRun(e, "fire", 0) \in Row BY NewRunType, NoRunType DEF Kind
  <2>4. RowsSettle BY <1>6, <2>1, <2>2, <2>3, InsertSettles DEF Submit, NewRun
  <2>5. \A j \in answered' :
          j \in answered \/ (j <= lastId' /\ runs'[j].status \notin {"queued", "running"})
    BY <1>6, RunsAssumption DEF Submit, TypeOK
  <2> QED BY <1>6, <2>4, <2>5 DEF Submit, QuietStep, Stopping
<1> QED BY <1>1, <1>2, <1>3, <1>4, <1>5, <1>6 DEF Outside

\* Recover takes one row at a time out of the list, and out of "running" or
\* "interrupted".
LEMMA RecoverBacked == ASSUME BInv, NEW i \in Ids, Recover(i) PROVE Backed'
<1> USE DEF BInv, IInv
<1>1. agent = "recovering" /\ UNCHANGED <<agent, loop, answered, pc>>
  BY DEF Recover, Control, IdleUntilUp
<1>2. loop = "recover" /\ todo = InterruptedRuns(runs) /\ todo' = todo \ {i} /\ i \in todo
  BY <1>1 DEF Recover, Backed, LeftOver, Oldest
<1>3. CASE lastId < MaxRuns /\ runs' = Retry(runs, i, lastId + 1) /\ lastId' = lastId + 1
  <2> DEFINE n == lastId + 1
  <2>1. n \in Ids /\ lastId \in Nat BY <1>3, NextIdType, RunsAssumption DEF TypeOK
  <2>2. i # n
    BY <1>2, <2>1 DEF Backed, UnusedRows, InterruptedRuns, InStatus
  <2>3. runs'[n].status = "queued"
    BY <1>3, <2>1, <2>2 DEF Retry, NewRun, TypeOK
  <2>4. runs'[i].status = "retried" BY <1>3, <2>1, <2>2 DEF Retry, TypeOK, Row
  <2>5. \A j \in Ids \ {i, n} : runs'[j] = runs[j] BY <1>3, <2>1 DEF Retry, TypeOK
  <2>6. runs'[i].retryOf = runs[i].retryOf BY <1>3, <2>1, <2>2 DEF Retry, TypeOK, Row
  <2>7. LeftOver'
    BY <1>1, <1>2, <2>1, <2>3, <2>4, <2>5 DEF LeftOver, InterruptedRuns, InStatus, Backed, UnusedRows
  <2>8. UnusedRows'
    BY <1>2, <1>3, <2>1, <2>2, <2>5 DEF UnusedRows, Backed, InterruptedRuns, InStatus, Ids
  <2>9. AnsweredKnown' /\ AnswersAreRecorded'
    BY <1>1, <1>3, <2>1, <2>4, <2>5 DEF AnsweredKnown, AnswersAreRecorded, Backed, TypeOK, Ids
  <2> QED BY <1>1, <1>2, <2>7, <2>8, <2>9 DEF Backed, CancelsStarted, RowsAgree
<1>4. CASE runs' = Abandon(runs, i) /\ UNCHANGED lastId
  <2>1. runs'[i].status = "abandoned" /\ runs'[i].retryOf = runs[i].retryOf
    BY <1>4 DEF Abandon, TypeOK, Row
  <2>2. \A j \in Ids \ {i} : runs'[j] = runs[j] BY <1>4 DEF Abandon, TypeOK
  <2>3. LeftOver'
    BY <1>1, <1>2, <2>1, <2>2 DEF LeftOver, InterruptedRuns, InStatus
  <2>4. UnusedRows'
    BY <1>2, <1>4, <2>1, <2>2 DEF UnusedRows, Backed, InterruptedRuns, InStatus
  <2>5. AnsweredKnown' /\ AnswersAreRecorded'
    BY <1>1, <1>4, <2>1, <2>2 DEF AnsweredKnown, AnswersAreRecorded, Backed, TypeOK
  <2> QED BY <1>1, <1>2, <2>3, <2>4, <2>5 DEF Backed, CancelsStarted, RowsAgree
<1> QED BY <1>3, <1>4 DEF Recover

LEMMA ProcessBacked == ASSUME BInv, IInv', Control', Process PROVE Backed'
<1> USE DEF BInv, IInv
<1>1. ASSUME NEW c \in Configs, StartAgent(c) PROVE Backed'
  BY <1>1 DEF StartAgent, Backed, LeftOver, UnusedRows, AnsweredKnown, CancelsStarted,
              RowsAgree, AnswersAreRecorded, InterruptedRuns
<1>2. ASSUME NEW c \in Configs, Configure(c) PROVE Backed'
  <2>1. RowsSettle BY <1>2, StatementsSettle, RowsSettleFrame DEF Configure, TypeOK
  <2> QED BY <1>2, <2>1, QuietBacked DEF Configure, QuietStep, Stopping
<1>3. ASSUME NEW i \in Ids, Recover(i) PROVE Backed' BY <1>3, RecoverBacked
<1>4. ASSUME StartLoop PROVE Backed'
  <2>1. agent = "recovering" /\ todo = {} BY <1>4 DEF StartLoop, Control, IdleUntilUp
  <2>2. \A j \in Ids : runs[j].status \notin {"running", "interrupted"} /\ pc[j] = "none"
    BY <2>1 DEF Backed, LeftOver, InterruptedRuns, InStatus, Control, IdleUntilUp
  <2>3. \A j \in Ids : /\ runs'[j].retryOf = runs[j].retryOf
                       /\ runs'[j].status \in {runs[j].status, "pruned"}
                       /\ runs[j].status = "absent" => runs'[j].status = "absent"
    BY <1>4 DEF StartLoop, Prune, TypeOK, Row, Final
  <2>4. UNCHANGED <<lastId, answered, pc>> /\ agent' = "up" /\ loop' = "cancels"
        /\ todo' = CancelRequests(runs')
    BY <1>4 DEF StartLoop
  <2>5. UnusedRows' /\ AnsweredKnown' /\ AnswersAreRecorded'
    BY <2>3, <2>4 DEF Backed, UnusedRows, AnsweredKnown, AnswersAreRecorded, TypeOK
  <2>6. RowsAgree' BY <2>2, <2>3, <2>4 DEF RowsAgree, Interrupts
  <2>7. CancelsStarted' BY <2>4 DEF CancelsStarted, CancelRequests, InStatus
  <2> QED BY <2>4, <2>5, <2>6, <2>7 DEF Backed, LeftOver
<1>5. ASSUME Stop \/ WaitReturns \/ StopLoop PROVE Backed'
  <2>1. UNCHANGED <<runs, lastId, answered, pc, out>> BY <1>5 DEF Stop, WaitReturns, StopLoop
  <2>2. RowsSettle BY <2>1, StatementsSettle, RowsSettleFrame DEF TypeOK
  <2>3. QuietStep BY <1>5, <2>1, <2>2 DEF Stop, WaitReturns, StopLoop, QuietStep, Stopping
  <2> QED BY <2>3, QuietBacked
<1>6. ASSUME ExitAgent \/ Crash PROVE Backed'
  BY <1>6 DEF ExitAgent, Crash, LoseMemory, Backed, LeftOver, UnusedRows, AnsweredKnown,
              CancelsStarted, RowsAgree, AnswersAreRecorded
<1> QED BY <1>1, <1>2, <1>3, <1>4, <1>5, <1>6 DEF Process

\* Start begins a queued row, and its goroutine with it.
LEMMA StartBacked == ASSUME BInv, IInv', NEW i \in Ids, Start(i) PROVE Backed'
<1> USE DEF BInv, IInv
<1>0. loop = "start" /\ agent \notin {"down", "recovering"} /\ loop' = "rows"
      /\ UNCHANGED <<agent, lastId, answered>>
  BY DEF Start, AtRow, RowDone, Control, IdleUntilUp
<1>1. CASE runs' = runs
  <2>1. RowsSettle BY <1>0, <1>1, StatementsSettle, RowsSettleFrame DEF TypeOK
  <2>2. UNCHANGED <<pc, out>> BY <1>1 DEF Start
  <2> QED BY <1>0, <2>1, <2>2, QuietBacked DEF QuietStep, Stopping
<1>2. CASE runs' # runs
  <2>1. runs[i].status = "queued" /\ runs' = SetStatus(runs, i, "running")
    BY <1>2 DEF Start, StartRun
  <2>2. pc' = [pc EXCEPT ![i] = "exec"] /\ UNCHANGED out BY <1>2 DEF Start
  <2>3. /\ runs'[i].status = "running" /\ runs'[i].retryOf = runs[i].retryOf
        /\ \A j \in Ids \ {i} : runs'[j] = runs[j]
    BY <2>1 DEF SetStatus, TypeOK, Row
  <2>4. UnusedRows' BY <1>0, <2>1, <2>3 DEF UnusedRows, Backed
  <2>5. AnsweredKnown' /\ AnswersAreRecorded'
    BY <1>0, <2>1, <2>3 DEF AnsweredKnown, AnswersAreRecorded, Backed, TypeOK
  <2>6. RowsAgree'
    BY <1>0, <2>2, <2>3 DEF RowsAgree, Backed, Stopping, TypeOK, Interrupts, Event
  <2> QED BY <1>0, <2>4, <2>5, <2>6 DEF Backed, LeftOver, CancelsStarted
<1> QED BY <1>1, <1>2

LEMMA HandleRowBacked == ASSUME BInv, IInv', NEW i \in Ids, HandleRow(i) PROVE Backed'
<1> USE DEF BInv, IInv
<1>0. loop \in {"rows", "start"} /\ agent \notin {"down", "recovering"}
  BY DEF HandleRow, SettleReplaced, CheckRow, DropRow, SkipRow, KeepRow, ReplaceRun, Start,
         AtRow, Control, IdleUntilUp
<1>1. ASSUME NEW st \in {"skipped", "dropped"}, SettleRow(i, st), RowDone(i, TRUE) PROVE Backed'
  <2>1. RowsSettle BY <1>1, StatementsSettle, RowsSettleFrame DEF SettleRow, RowDone, TypeOK
  <2>2. runs' # runs => runs'[i].status = st /\ runs[i].status = "queued"
    BY <1>1 DEF SettleRow, Settle, SetStatus, TypeOK, Row
  <2>3. runs[i].status = "queued" => i <= lastId
    BY RunsAssumption DEF Counting, UnusedIds, TypeOK, Ids
  <2>4. \A j \in answered' :
          j \in answered \/ (j <= lastId' /\ runs'[j].status \notin {"queued", "running"})
    BY <1>1, <2>2, <2>3 DEF SettleRow, RowDone
  <2>5. QuietStep BY <1>0, <1>1, <2>1, <2>4 DEF SettleRow, RowDone, QuietStep, Stopping
  <2> QED BY <2>5, QuietBacked
<1>2. CASE CheckRow(i) \/ KeepRow(i) \/ ReplaceRun(i)
  <2>1. UNCHANGED <<runs, lastId, agent, answered, pc, out>> /\ loop' # "cancels"
    BY <1>0, <1>2 DEF CheckRow, KeepRow, ReplaceRun, RowDone
  <2>2. RowsSettle BY <2>1, StatementsSettle, RowsSettleFrame DEF TypeOK
  <2>3. QuietStep BY <1>0, <2>1, <2>2 DEF QuietStep, Stopping
  <2> QED BY <2>3, QuietBacked
<1> QED
  BY <1>1, <1>2, StartBacked DEF HandleRow, SettleReplaced, DropRow, SkipRow

LEMMA FollowRunQuiet == ASSUME BInv, NEW i \in Ids, FollowRun(i) PROVE QuietStep
<1> DEFINE fired == Followers(i)
           n     == lastId + Cardinality(fired)
           max   == [e \in fired |-> QueueLimit(specs, e)]
<1> USE DEF BInv, IInv
<1>1. fired \subseteq Events BY DispatcherAssumption DEF TypeOK, Followers
<1>2. IsFiniteSet(fired) /\ Cardinality(fired) \in Nat
  BY <1>1, RunsAssumption, FS_Subset, FS_CardinalityType
<1>3. PICK slot \in [fired -> lastId + 1 .. n] : runs' = Follow(runs, i, slot, max)
  BY DEF FollowRun
<1>4. lastId' = n /\ lastId \in Nat BY RunsAssumption DEF FollowRun, TypeOK
<1>5. ASSUME NEW j \in Ids, NEW e \in DOMAIN slot, slot[e] = j PROVE Inserted(j)
  <2> DEFINE f == CHOOSE f \in DOMAIN slot : slot[f] = j
             r == NewRun(f, "after", i)
  <2>1. f \in DOMAIN slot /\ slot[f] = j BY <1>5
  <2>2. f \in Events /\ i \in 0 .. MaxRuns BY <1>1, <2>1 DEF Ids
  <2>3. r \in Row /\ r.status = "queued" BY <2>2, NewRunType DEF Kind, NewRun
  <2>4. runs'[j] = Insert(runs, j, r, max[f])[j] BY <1>3, <1>5 DEF Follow
  <2> HIDE DEF r
  <2>5. runs'[j].status \in {"queued", "dropped"} BY <2>3, <2>4 DEF Insert, Row, TypeOK
  <2>6. j > lastId /\ j <= n BY <1>2, <1>4, <2>1 DEF Ids
  <2> QED BY <1>4, <2>5, <2>6 DEF Inserted
<1>6. ASSUME NEW j \in Ids, ~ \E e \in DOMAIN slot : slot[e] = j PROVE Settles(runs, runs', j)
  BY <1>3, <1>6 DEF Follow, Settles, TypeOK, Row
<1>7. RowsSettle BY <1>2, <1>4, <1>5, <1>6 DEF RowsSettle
<1>8. agent # "recovering" BY DEF FollowRun, Control, IdleUntilUp
<1> QED BY <1>7, <1>8 DEF FollowRun, QuietStep, Stopping

LEMMA LoopBacked == ASSUME BInv, IInv', Loop PROVE Backed'
<1> USE DEF BInv, IInv
<1>1. CASE Wake \/ Tick \/ ReadEnded \/ BeginScan \/ ReadQueued \/ EndStep
  <2>1. UNCHANGED <<runs, lastId, agent, answered, pc, out>>
    BY <1>1 DEF Wake, Tick, ReadEnded, BeginScan, ReadQueued, EndStep
  <2>2. RowsSettle BY <2>1, StatementsSettle, RowsSettleFrame DEF TypeOK
  <2>3. agent # "recovering"
    BY <1>1 DEF Wake, Tick, ReadEnded, BeginScan, ReadQueued, EndStep, Control, IdleUntilUp
  <2>4. loop' = "cancels" => todo' = CancelRequests(runs')
    BY <1>1, <2>1 DEF Wake, Tick, BeginStep, ReadEnded, BeginScan, ReadQueued, EndStep
  <2>5. QuietStep BY <2>1, <2>2, <2>3, <2>4 DEF QuietStep, Stopping
  <2> QED BY <2>5, QuietBacked
<1>2. ASSUME NEW i \in Ids, ProcessCancel(i) PROVE Backed'
  <2>0. loop = "cancels" /\ todo' = todo \ {i} /\ i \in todo /\ agent # "recovering"
        /\ UNCHANGED <<lastId, agent, loop, answered, pc, out>>
    BY <1>2 DEF ProcessCancel, Oldest, Control, IdleUntilUp
  <2>1. CASE runs' = runs
    <3>1. RowsSettle BY <2>0, <2>1, StatementsSettle, RowsSettleFrame DEF TypeOK
    <3>2. QuietStep BY <2>0, <3>1 DEF QuietStep, Stopping
    <3> QED BY <3>2, QuietBacked
  <2>2. CASE ctx[i] = "none" /\ runs' = FinishRun(runs, i, "canceled")
    <3>1. /\ runs'[i].status = "canceled" /\ runs'[i].retryOf = runs[i].retryOf
          /\ \A j \in Ids \ {i} : runs'[j] = runs[j]
      BY <2>2 DEF FinishRun, TypeOK, Row
    <3>2. pc[i] \notin {"exec", "exited"} BY <2>2 DEF Control, ContextsKept
    <3>3. runs[i].status # "absent" BY <2>0 DEF Backed, CancelsStarted
    <3>4. UnusedRows' BY <2>0, <3>1, <3>3 DEF UnusedRows, Backed
    <3>5. AnsweredKnown' /\ AnswersAreRecorded'
      BY <2>0, <3>1 DEF AnsweredKnown, AnswersAreRecorded, Backed, TypeOK
    <3>6. RowsAgree' BY <2>0, <3>1, <3>2 DEF RowsAgree, Backed, Stopping, Interrupts, Event
    <3>7. CancelsStarted' BY <2>0, <3>1 DEF CancelsStarted, Backed, TypeOK
    <3> QED BY <2>0, <3>4, <3>5, <3>6, <3>7 DEF Backed, LeftOver
  <2> QED BY <1>2, <2>1, <2>2 DEF ProcessCancel
<1>3. ASSUME NEW i \in Ids, FollowRun(i) PROVE Backed' BY <1>3, FollowRunQuiet, QuietBacked
<1> QED BY <1>1, <1>2, <1>3, HandleRowBacked DEF Loop

LEMMA RunBacked == ASSUME BInv, IInv', Control', NEW i \in Ids, Run(i) PROVE Backed'
<1> USE DEF BInv, IInv
<1>0. pc[i] # "none" BY DEF Run, CommandEnds, RecordRun, ReleaseRun, EnqueueRestart, EndRun
<1>1. agent \notin {"down", "recovering"} BY <1>0 DEF Control, IdleUntilUp
<1>2. UNCHANGED <<agent, loop, todo>>
  BY DEF Run, CommandEnds, RecordRun, ReleaseRun, EnqueueRestart, EndRun
<1>3. CASE CommandEnds(i) \/ EndRun(i)
  <2>1. UNCHANGED <<runs, lastId, answered>> BY <1>3 DEF CommandEnds, EndRun
  <2>2. RowsSettle BY <2>1, StatementsSettle, RowsSettleFrame DEF TypeOK
  <2>3. \A j \in Ids : pc'[j] \in {"exec", "exited"} <=> pc[j] \in {"exec", "exited"}
    BY <1>3 DEF CommandEnds, EndRun, TypeOK
  <2>4. ASSUME NEW j \in Ids, pc'[j] = "exited", out'[j] = "interrupted"
        PROVE  (pc[j] = "exited" /\ out[j] = "interrupted") \/ Stopping \/ Event(j) \in Timed
    <3>1. CASE j = i
      <4>1. CommandEnds(i) BY <1>3, <2>4, <3>1 DEF EndRun, TypeOK
      <4>2. ctx[i] = "shutdown" \/ Event(i) \in Timed
        BY <2>4, <3>1, <4>1 DEF CommandEnds, Results, TypeOK
      <4> QED BY <3>1, <4>2 DEF Control, ShutdownsKnown
    <3>2. CASE j # i BY <1>3, <2>4, <3>2 DEF CommandEnds, EndRun, TypeOK
    <3> QED BY <3>1, <3>2
  <2>5. QuietStep BY <1>1, <1>2, <2>1, <2>2, <2>3, <2>4 DEF QuietStep, Stopping
  <2> QED BY <2>5, QuietBacked
<1>4. CASE RecordRun(i)
  <2>1. /\ runs'[i].status = out[i] /\ runs'[i].retryOf = runs[i].retryOf
        /\ runs'[i].event = runs[i].event
        /\ \A j \in Ids \ {i} : runs'[j] = runs[j]
    BY <1>4 DEF RecordRun, FinishRun, TypeOK, Row
  <2>2. out[i] \in {"succeeded", "failed", "canceled", "interrupted"}
        /\ (out[i] = "interrupted" => Stopping \/ Event(i) \in Timed)
    BY <1>1, <1>4 DEF RecordRun, Counting, ExitedHasOutcome, TypeOK, Outcome, Backed, RowsAgree,
                      Interrupts
  <2>3. UNCHANGED <<lastId, answered, out>> /\ pc[i] = "exited" /\ pc' = [pc EXCEPT ![i] = "recorded"]
    BY <1>4 DEF RecordRun
  <2>4. runs[i].status = "running" BY <1>1, <2>3 DEF Backed, RowsAgree
  <2>5. UnusedRows' BY <2>1, <2>3, <2>4 DEF UnusedRows, Backed
  <2>6. AnsweredKnown' /\ AnswersAreRecorded'
    BY <2>1, <2>2, <2>3 DEF AnsweredKnown, AnswersAreRecorded, Backed, TypeOK
  <2>7. RowsAgree'
    BY <1>1, <1>2, <2>1, <2>2, <2>3 DEF RowsAgree, Backed, Stopping, TypeOK, Interrupts, Event
  <2>8. CancelsStarted' BY <1>2, <2>1, <2>2 DEF CancelsStarted, Backed, TypeOK
  <2> QED BY <1>1, <1>2, <2>5, <2>6, <2>7, <2>8 DEF Backed, LeftOver
<1>5. CASE ReleaseRun(i)
  <2>1. UNCHANGED <<runs, lastId, out>> /\ pc[i] = "recorded" /\ pc' = [pc EXCEPT ![i] = "released"]
        /\ answered' = answered \cup (waiters \cap {i})
    BY <1>5 DEF ReleaseRun
  <2>2. runs[i].status \notin {"queued", "running"}
    BY <1>1, <2>1 DEF Backed, RowsAgree, Counting, QueuedIdle
  <2>3. i <= lastId BY <2>1, RunsAssumption DEF Counting, UnusedIds, TypeOK, Ids
  <2>4. RowsSettle BY <2>1, StatementsSettle, RowsSettleFrame DEF TypeOK
  <2>5. \A j \in Ids : pc'[j] \in {"exec", "exited"} <=> pc[j] \in {"exec", "exited"}
    BY <2>1 DEF TypeOK
  <2>6. \A j \in Ids : pc'[j] = "exited" => pc[j] = "exited" BY <2>1 DEF TypeOK
  <2>7. QuietStep BY <1>1, <1>2, <2>1, <2>2, <2>3, <2>4, <2>5, <2>6 DEF QuietStep, Stopping
  <2> QED BY <2>7, QuietBacked
<1>6. CASE EnqueueRestart(i)
  <2> DEFINE r == Delayed(NewRun(Event(i), "restart", 0))
  <2>1. PICK c \in Known : runs' = Insert(runs, lastId + 1, r, QueueLimit(c, Event(i)))
    BY <1>6 DEF EnqueueRestart
  <2>2. NewRun(Event(i), "restart", 0) \in Row BY NewRunType, NoRunType, EventType DEF Kind
  <2>3. r \in Row BY <2>2 DEF Delayed, Row
  <2>4. r.status = "queued" BY DEF Delayed, NewRun
  <2>5. lastId < MaxRuns /\ lastId' = lastId + 1 /\ UNCHANGED <<answered, out>>
        /\ pc[i] = "released" /\ pc' = [pc EXCEPT ![i] = "poke"]
    BY <1>6 DEF EnqueueRestart
  <2> HIDE DEF r
  <2>6. RowsSettle BY <2>1, <2>3, <2>4, <2>5, InsertSettles
  <2>7. \A j \in Ids : pc'[j] \in {"exec", "exited"} <=> pc[j] \in {"exec", "exited"}
    BY <2>5 DEF TypeOK
  <2>8. \A j \in Ids : pc'[j] = "exited" => pc[j] = "exited" BY <2>5 DEF TypeOK
  <2>9. QuietStep BY <1>1, <1>2, <2>5, <2>6, <2>7, <2>8 DEF QuietStep, Stopping
  <2> QED BY <2>9, QuietBacked
<1> QED BY <1>3, <1>4, <1>5, <1>6 DEF Run

LEMMA InitBInv == ASSUME Init PROVE BInv
<1>1. \A i \in Ids : runs[i].status = "absent" /\ runs[i].retryOf = 0
  BY DEF Init, EmptyTable, NewRun
<1>2. Control
  BY DEF Init, Control, IdleUntilUp, ContextsKept, ShutdownsKnown, StopReaches, Stopping
<1>3. Backed
  BY <1>1 DEF Init, Backed, LeftOver, UnusedRows, AnsweredKnown, CancelsStarted,
              RowsAgree, Interrupts, AnswersAreRecorded
<1> QED BY <1>2, <1>3, InitIInv DEF BInv

LEMMA NextBInv == ASSUME BInv, [Next]_vars PROVE BInv'
<1>1. IInv' BY NextIInv DEF BInv
<1>2. CASE UNCHANGED vars
  BY <1>1, <1>2 DEF vars, BInv, Control, IdleUntilUp, ContextsKept, ShutdownsKnown, StopReaches,
     Stopping, Backed, LeftOver, UnusedRows, AnsweredKnown, CancelsStarted, RowsAgree, Interrupts,
     Event, AnswersAreRecorded, InterruptedRuns, InStatus
<1>3. CASE Next
  <2>1. Control'
    BY <1>3, OutsideControl, ProcessControl, LoopControl, RunControl DEF Next, BInv, IInv
  <2>2. Backed'
    <3>1. CASE Outside BY <1>1, <3>1, OutsideQuiet, QuietBacked DEF IInv
    <3> QED BY <1>1, <1>3, <2>1, <3>1, ProcessBacked, LoopBacked, RunBacked DEF Next
  <2> QED BY <1>1, <2>1, <2>2 DEF BInv
<1> QED BY <1>2, <1>3

\* The inductive invariant behind the next two theorems: what the agent's place, the
\* goroutines, their contexts and the rows know of one another, over crashes, stops,
\* reloads and cancels.
THEOREM BackedInvariant == Spec => []BInv
BY InitBInv, NextBInv, PTL DEF Spec

\* While the loop runs, the rows that are "running" are those whose goroutine has
\* not recorded its outcome yet, only a stop, or the late timeout of an event that has
\* one, leaves a row "interrupted", and the stop reaches every command, one that starts
\* after it included (Recover, schedule, finish, processCancels).
THEOREM RowsAreBacked == Spec => []RowsMatchRuns
<1>1. BInv => RowsMatchRuns
  BY DEF BInv, Backed, RowsAgree, Interrupts, RowsMatchRuns, Control, ContextsKept, StopReaches
<1> QED BY <1>1, BackedInvariant, PTL

\* A caller of a webhook is told only about a row that is no longer queued or running
\* (settle, finish).
THEOREM AnswersRecorded == Spec => []AnswersAreRecorded
<1>1. BInv => AnswersAreRecorded BY DEF BInv, Backed
<1> QED BY <1>1, BackedInvariant, PTL

=============================================================================
