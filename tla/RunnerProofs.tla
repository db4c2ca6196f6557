---------------------------- MODULE RunnerProofs ----------------------------
(***************************************************************************)
(* Proofs about one command, for every set of processes that it may start, *)
(* with the proof that Command implements RunContract, and about kickd     *)
(* event --wait, for every table, every number of attempts and whatever    *)
(* the other users of the table do.                                        *)
(***************************************************************************)
EXTENDS Command, WaitRun, RunsProofs, TLAPS

-----------------------------------------------------------------------------
\* Command

LEMMA InvInit == CommandInit => CommandInv
BY CommandAssumption
   DEF CommandInit, CommandInv, CommandTypeOK, ContextsAgree, GoroutinesAgree,
       ProcessesAgree, OutcomeAgrees, KilledInOrder, BegunToStop, Stops, Outcomes,
       StoppedForReason, LateTimeout

-----------------------------------------------------------------------------
\* One lemma per action

LEMMA InvStutter ==
  ASSUME CommandInv, UNCHANGED commandVars PROVE CommandInv'
BY DEF CommandInv, CommandTypeOK, ContextsAgree, GoroutinesAgree, ProcessesAgree,
       OutcomeAgrees, KilledInOrder, BegunToStop, Stops, Outcomes, StoppedForReason,
       LateTimeout, Running,
       commandVars, goVars, procVars

LEMMA InvEndContext ==
  ASSUME CommandInv, NEW r \in Requests, EndContext(r) PROVE CommandInv'
BY CommandAssumption
   DEF EndContext, CommandInv, CommandTypeOK, ContextsAgree, GoroutinesAgree,
       ProcessesAgree, OutcomeAgrees, KilledInOrder, BegunToStop, Stops, Outcomes, StoppedForReason,
       LateTimeout, Running, goVars, procVars

LEMMA InvTimeout == ASSUME CommandInv, Timeout PROVE CommandInv'
BY CommandAssumption
   DEF Timeout, CommandInv, CommandTypeOK, ContextsAgree, GoroutinesAgree,
       ProcessesAgree, OutcomeAgrees, KilledInOrder, BegunToStop, Stops, Outcomes, StoppedForReason,
       LateTimeout, Running, goVars, procVars

LEMMA InvFork == ASSUME CommandInv, NEW c \in Children, Fork(c) PROVE CommandInv'
BY DEF Fork, Grouped, CommandInv, CommandTypeOK, ContextsAgree, GoroutinesAgree,
       ProcessesAgree, OutcomeAgrees, KilledInOrder, BegunToStop, Stops, Outcomes, StoppedForReason,
       LateTimeout, Running, goVars

LEMMA InvChildEnds == ASSUME CommandInv, NEW c \in Children, ChildEnds(c) PROVE CommandInv'
BY DEF ChildEnds, CommandInv, CommandTypeOK, ContextsAgree, GoroutinesAgree,
       ProcessesAgree, OutcomeAgrees, KilledInOrder, BegunToStop, Stops, Outcomes, StoppedForReason,
       LateTimeout, Running, goVars

LEMMA InvLeaderEnds == ASSUME CommandInv, LeaderEnds PROVE CommandInv'
BY DEF LeaderEnds, CommandInv, CommandTypeOK, ContextsAgree, GoroutinesAgree,
       ProcessesAgree, OutcomeAgrees, KilledInOrder, BegunToStop, Stops, Outcomes, StoppedForReason,
       LateTimeout, Running, goVars

LEMMA InvStart == ASSUME CommandInv, Start PROVE CommandInv'
BY CommandAssumption
   DEF Start, CommandInv, CommandTypeOK, ContextsAgree, GoroutinesAgree,
       ProcessesAgree, OutcomeAgrees, KilledInOrder, BegunToStop, Stops, Outcomes, StoppedForReason,
       LateTimeout, Running

LEMMA InvReap == ASSUME CommandInv, Reap PROVE CommandInv'
BY DEF Reap, CommandInv, CommandTypeOK, ContextsAgree, GoroutinesAgree,
       ProcessesAgree, OutcomeAgrees, KilledInOrder, BegunToStop, Stops, Outcomes, StoppedForReason,
       LateTimeout, Running, procVars

LEMMA InvDrained == ASSUME CommandInv, Drained PROVE CommandInv'
BY DEF Drained, CommandInv, CommandTypeOK, ContextsAgree, GoroutinesAgree,
       ProcessesAgree, OutcomeAgrees, KilledInOrder, BegunToStop, Stops, Outcomes, StoppedForReason,
       LateTimeout, Running, procVars

LEMMA InvDrainTimeout == ASSUME CommandInv, DrainTimeout PROVE CommandInv'
BY DEF DrainTimeout, CommandInv, CommandTypeOK, ContextsAgree, GoroutinesAgree,
       ProcessesAgree, OutcomeAgrees, KilledInOrder, BegunToStop, Stops, Outcomes, StoppedForReason,
       LateTimeout, Running, procVars

LEMMA InvSweep == ASSUME CommandInv, Sweep PROVE CommandInv'
BY DEF Sweep, CommandInv, CommandTypeOK, ContextsAgree, GoroutinesAgree,
       ProcessesAgree, OutcomeAgrees, KilledInOrder, BegunToStop, Stops, Outcomes, StoppedForReason,
       LateTimeout, Running

LEMMA InvClassifyTimeout == ASSUME CommandInv, ClassifyTimeout PROVE CommandInv'
BY CommandAssumption
   DEF ClassifyTimeout, CommandInv, CommandTypeOK, ContextsAgree, GoroutinesAgree,
       ProcessesAgree, OutcomeAgrees, KilledInOrder, BegunToStop, Stops, Outcomes, StoppedForReason,
       LateTimeout, Running, procVars

LEMMA InvClassify == ASSUME CommandInv, Classify PROVE CommandInv'
BY CommandAssumption
   DEF Classify, Ended, CommandInv, CommandTypeOK, ContextsAgree, GoroutinesAgree,
       ProcessesAgree, OutcomeAgrees, KilledInOrder, BegunToStop, Stops, Outcomes, StoppedForReason,
       LateTimeout, Running, procVars

LEMMA InvHandNothing == ASSUME CommandInv, HandNothing PROVE CommandInv'
BY DEF HandNothing, CommandInv, CommandTypeOK, ContextsAgree, GoroutinesAgree,
       ProcessesAgree, OutcomeAgrees, KilledInOrder, BegunToStop, Stops, Outcomes, StoppedForReason,
       LateTimeout, Running, procVars

LEMMA InvBeginStop == ASSUME CommandInv, BeginStop PROVE CommandInv'
BY DEF BeginStop, CommandInv, CommandTypeOK, ContextsAgree, GoroutinesAgree,
       ProcessesAgree, OutcomeAgrees, KilledInOrder, BegunToStop, Stops, Outcomes, StoppedForReason,
       LateTimeout, Running, procVars

LEMMA InvStopCommandEnds == ASSUME CommandInv, StopCommandEnds PROVE CommandInv'
BY DEF StopCommandEnds, CommandInv, CommandTypeOK, ContextsAgree, GoroutinesAgree,
       ProcessesAgree, OutcomeAgrees, KilledInOrder, BegunToStop, Stops, Outcomes, StoppedForReason,
       LateTimeout, Running, procVars

LEMMA InvTerminate == ASSUME CommandInv, Terminate PROVE CommandInv'
BY DEF Terminate, CommandInv, CommandTypeOK, ContextsAgree, GoroutinesAgree,
       ProcessesAgree, OutcomeAgrees, KilledInOrder, BegunToStop, Stops, Outcomes, StoppedForReason,
       LateTimeout, Running, procVars

LEMMA InvHandTimer == ASSUME CommandInv, HandTimer PROVE CommandInv'
BY DEF HandTimer, CommandInv, CommandTypeOK, ContextsAgree, GoroutinesAgree,
       ProcessesAgree, OutcomeAgrees, KilledInOrder, BegunToStop, Stops, Outcomes, StoppedForReason,
       LateTimeout, Running, procVars

LEMMA InvKillLeader == ASSUME CommandInv, KillLeader PROVE CommandInv'
<1>1. CASE closed' = TRUE
  BY <1>1
     DEF KillLeader, CommandInv, CommandTypeOK, ContextsAgree, GoroutinesAgree,
         ProcessesAgree, OutcomeAgrees, KilledInOrder, BegunToStop, Stops, Outcomes, StoppedForReason,
         LateTimeout, Running
<1>2. CASE UNCHANGED closed
  BY <1>2
     DEF KillLeader, CommandInv, CommandTypeOK, ContextsAgree, GoroutinesAgree,
         ProcessesAgree, OutcomeAgrees, KilledInOrder, BegunToStop, Stops, Outcomes, StoppedForReason,
         LateTimeout, Running
<1> QED
  BY <1>1, <1>2 DEF KillLeader

LEMMA InvHandResult == ASSUME CommandInv, HandResult PROVE CommandInv'
BY DEF HandResult, CommandInv, CommandTypeOK, ContextsAgree, GoroutinesAgree,
       ProcessesAgree, OutcomeAgrees, KilledInOrder, BegunToStop, Stops, Outcomes, StoppedForReason,
       LateTimeout, Running, procVars

LEMMA InvNext == CommandInv /\ [CommandNext]_commandVars => CommandInv'
<1> SUFFICES ASSUME CommandInv, [CommandNext]_commandVars PROVE CommandInv'
  OBVIOUS
<1>1. CASE \E r \in Requests : EndContext(r)
  BY <1>1, InvEndContext
<1>2. CASE Timeout
  BY <1>2, InvTimeout
<1>3. CASE Processes
  BY <1>3, InvLeaderEnds, InvFork, InvChildEnds DEF Processes
<1>4. CASE Execute
  BY <1>4, InvStart, InvReap, InvDrained, InvDrainTimeout, InvSweep, InvClassifyTimeout,
     InvClassify DEF Execute
<1>5. CASE StopGoroutine
  BY <1>5, InvHandNothing, InvBeginStop, InvStopCommandEnds, InvTerminate, InvHandTimer,
     InvKillLeader, InvHandResult DEF StopGoroutine
<1>6. CASE UNCHANGED commandVars
  BY <1>6, InvStutter
<1> QED
  BY <1>1, <1>2, <1>3, <1>4, <1>5, <1>6 DEF CommandNext

-----------------------------------------------------------------------------
\* The theorems

\* The contexts, the goroutines, the processes and the outcome never contradict
\* each other, for any processes that the command starts (execute, Cmd.watchCtx).
THEOREM CommandInvariant == CommandSpec => []CommandInv
BY InvInit, InvNext, PTL DEF CommandSpec

\* A run that kickd began to stop leaves no process of its group behind (killTree).
THEOREM NoSurvivors == CommandSpec => []NoChildSurvives
<1>1. CommandInv => NoChildSurvives
  BY DEF CommandInv, ProcessesAgree, NoChildSurvives
<1> QED
  BY <1>1, CommandInvariant, PTL

\* SIGKILL comes after SIGTERM, which comes after the stop command (stop).
THEOREM KillOrder == CommandSpec => []KilledInOrder
<1>1. CommandInv => KilledInOrder
  BY DEF CommandInv
<1> QED
  BY <1>1, CommandInvariant, PTL

\* The outcome of a run that kickd began to stop names what ended its context
\* first, and one that names a request follows the dispatcher's; but for a timeout
\* that comes between the two readings of the context (execute, stop).
THEOREM StopReasons == CommandSpec => []StoppedForReason
<1>1. CommandInv => StoppedForReason
  BY DEF CommandInv, OutcomeAgrees
<1> QED
  BY <1>1, CommandInvariant, PTL

-----------------------------------------------------------------------------
\* The refinement

\* What ended the context, as the contract sees it.
ReasonOf == IF ctx = "live" THEN "none" ELSE ctx

LEMMA ContractStart == CommandInit => Contract!ContractInit
BY DEF CommandInit, Contract!ContractInit, StatusOf

LEMMA ContractStep ==
  CommandInv /\ CommandInv' /\ [CommandNext]_commandVars =>
    [Contract!ContractNext]_<<ReasonOf, StatusOf>>
<1> SUFFICES ASSUME CommandInv, CommandInv', [CommandNext]_commandVars
             PROVE  [Contract!ContractNext]_<<ReasonOf, StatusOf>>
  OBVIOUS
<1>1. CASE ctx = "live" /\ ctx' \in Stops /\ UNCHANGED outcome
  <2>1. ReasonOf = "none" /\ ReasonOf' \in Contract!Reasons
    BY <1>1 DEF ReasonOf, Stops, Contract!Reasons
  <2>2. UNCHANGED StatusOf
    BY <1>1 DEF StatusOf
  <2>3. Contract!Ask
    BY <2>1, <2>2 DEF ReasonOf, Contract!Ask
  <2> QED
    BY <2>3 DEF Contract!ContractNext
<1>2. CASE pc # "done" /\ pc' = "done" /\ UNCHANGED ctx
  <2>1. outcome = "none" /\ outcome' # "none" /\ outcome' \in Outcomes
    BY <1>2 DEF CommandInv, CommandTypeOK, OutcomeAgrees
  <2>2. StatusOf = "none"
    BY <2>1 DEF StatusOf
  <2>3. StatusOf' \in Contract!StatusesFor(ReasonOf)
    <3>1. CASE outcome' \in {"timeout", "exit_code", "wait_failed", "start_failed"}
      <4>1. StatusOf' = "failed"
        BY <3>1 DEF StatusOf
      <4> QED
        BY <4>1 DEF Contract!StatusesFor
    <3>2. CASE outcome' = "succeeded"
      <4>1. ctx = "live"
        BY <1>2, <3>2 DEF CommandInv, OutcomeAgrees
      <4>2. StatusOf' = "succeeded" /\ ReasonOf = "none"
        BY <3>2, <4>1 DEF StatusOf, ReasonOf
      <4> QED
        BY <4>2 DEF Contract!StatusesFor
    <3>3. CASE outcome' \in {"user", "replaced", "shutdown"}
      <4>1. outcome' = ctx \/ (ctx = "timeout" /\ outcome' = "shutdown")
        BY <1>2, <3>3 DEF CommandInv, OutcomeAgrees, StoppedForReason, LateTimeout, Stops
      <4>2. ReasonOf = ctx
        BY <3>3, <4>1 DEF ReasonOf
      <4> QED
        BY <3>3, <4>1, <4>2 DEF StatusOf, Contract!StatusesFor
    <3> QED
      BY <2>1, <3>1, <3>2, <3>3 DEF Outcomes, Stops
  <2>4. UNCHANGED ReasonOf
    BY <1>2 DEF ReasonOf
  <2> QED
    BY <2>2, <2>3, <2>4 DEF ReasonOf, Contract!ContractNext, Contract!End
<1>3. CASE UNCHANGED <<ctx, outcome>>
  BY <1>3 DEF ReasonOf, StatusOf
<1>4. CASE Start \/ ClassifyTimeout \/ Classify
  <2>1. pc # "done" /\ UNCHANGED ctx
    BY <1>4 DEF Start, ClassifyTimeout, Classify
  <2>2. CASE pc' = "done"
    BY <1>2, <2>1, <2>2
  <2>3. CASE pc' # "done"
    BY <1>3, <1>4, <2>1, <2>3 DEF Start, ClassifyTimeout, Classify
  <2> QED
    BY <2>2, <2>3
<1>5. CASE (\E r \in Requests : EndContext(r)) \/ Timeout
  <2>1. UNCHANGED outcome /\ (ctx' = ctx \/ (ctx = "live" /\ ctx' \in Stops))
    BY <1>5, CommandAssumption DEF EndContext, Timeout, Stops, goVars
  <2> QED
    BY <1>1, <1>3, <2>1
<1> QED
  BY <1>3, <1>4, <1>5
     DEF CommandNext, Processes, LeaderEnds, Fork, ChildEnds, Execute, Reap, Drained,
         DrainTimeout, Sweep, StopGoroutine, HandNothing, BeginStop, StopCommandEnds,
         Terminate, HandTimer, KillLeader, HandResult, commandVars, goVars, procVars

\* What the code that runs a command does is what the dispatcher relies on
\* (RunContract): one end, with a status that fits what ended the context first,
\* where a late timeout passes for a stop (execute, finish).
THEOREM CommandRefines == CommandSpec => ImplementsContract
BY ContractStart, ContractStep, InvInit, InvNext, CommandInvariant, PTL
   DEF CommandSpec, ImplementsContract, Contract!ContractSpec, ReasonOf

-----------------------------------------------------------------------------
\* WaitRun

\* An ID that was never used repeats nothing, and a run that is repeated was
\* marked so when its next attempt was inserted.
RepeatedAreMarked ==
  /\ table[1].status # "absent" /\ table[1].retryOf = 0
  /\ \A j \in Ids : table[j].status = "absent" => table[j].retryOf = 0
  /\ \A j \in Ids : table[j].retryOf # 0 =>
       table[table[j].retryOf].status \in {"retried", "pruned"}

\* The attempts seen so far, with the one that is waited for, are linked.
ChainLinked ==
  /\ chain = <<>> => cur = 1
  /\ chain # <<>> => chain[1] = 1 /\ table[cur].retryOf = chain[Len(chain)]
  /\ \A k \in 1 .. Len(chain) - 1 : table[chain[k + 1]].retryOf = chain[k]

\* The last run that was reported ended for good, and waitRun with it.
ReportedIsFinal ==
  /\ reported # <<>> =>
       /\ waitPc = "exit"
       /\ table[LastReported].status \in (Final \ {"retried"}) \cup {"pruned"}
  /\ LastAttemptReported

WaitInv ==
  WaitTypeOK /\ RepeatedAreMarked /\ ChainLinked /\ ReportedIsFinal /\ WholeChainReported

LEMMA FirstId == 1 \in Ids
BY RunsAssumption DEF Ids

LEMMA IdsNotZero == \A i \in Ids : i # 0
BY DEF Ids

LEMMA Positions ==
  ASSUME NEW S, NEW q \in Seq(S)
  PROVE  /\ q # <<>> => Len(q) \in 1 .. Len(q)
         /\ \A k \in 1 .. Len(q) - 1 : k \in 1 .. Len(q) /\ k + 1 \in 1 .. Len(q)
<1>1. Len(q) \in Nat /\ (q # <<>> => Len(q) # 0)
  OBVIOUS
<1> QED
  BY <1>1

LEMMA WaitInvInit == WaitInit => WaitInv
<1> SUFFICES ASSUME WaitInit PROVE WaitInv
  OBVIOUS
<1>1. PICK e \in Events : table = [EmptyTable EXCEPT ![1] = NewRun(e, "fire", 0)]
  BY DEF WaitInit
<1>2. NewRun(e, "fire", 0) \in Row
  BY NewRunType, NoRunType DEF Kind
<1>3. WaitTypeOK
  BY <1>1, <1>2, EmptyTableType, FirstId DEF WaitInit, WaitTypeOK
<1>6. ReportedIsFinal
  BY DEF WaitInit, ReportedIsFinal, LastAttemptReported
<1>4. \A j \in Ids : table[j].retryOf = 0
  BY <1>1, FirstId DEF EmptyTable, NewRun
<1>5. table[1].status = "queued"
  BY <1>1, FirstId, EmptyTableType DEF NewRun
<1> QED
  BY <1>3, <1>4, <1>5, <1>6, FirstId
     DEF WaitInit, WaitInv, RepeatedAreMarked, ChainLinked, WholeChainReported

-----------------------------------------------------------------------------
\* The other users of the table

\* A statement that inserts nothing, and leaves a run that ended for good ended.
Quiet(t, u) ==
  \A i \in Ids :
    /\ u[i].retryOf = t[i].retryOf
    /\ u[i].status = "absent" <=> t[i].status = "absent"
    /\ t[i].status \in {"retried", "pruned"} => u[i].status \in {"retried", "pruned"}
    /\ t[i].status \in (Final \ {"retried"}) \cup {"pruned"} =>
         u[i].status \in (Final \ {"retried"}) \cup {"pruned"}
    /\ t[i].status \in {"succeeded", "canceled", "pruned"} =>
         u[i].status \in {"succeeded", "canceled", "pruned"}
    /\ t[i].status \in Final \cup {"pruned"} /\ t[i].status # "succeeded" =>
         u[i].status # "succeeded"

LEMMA QuietKeeps ==
  ASSUME WaitInv, WaitTypeOK', Quiet(table, table'),
         UNCHANGED <<waitPc, cur, chain, reported, code>>
  PROVE  WaitInv'
<1>1. RepeatedAreMarked'
  <2>1. \A j \in Ids : table[j].retryOf \in 0 .. MaxRuns
    BY DEF WaitInv, WaitTypeOK, Row
  <2>2. \A j \in Ids : table[j].retryOf # 0 => table[j].retryOf \in Ids
    BY <2>1 DEF Ids
  <2> QED
    BY <2>2, FirstId DEF WaitInv, RepeatedAreMarked, Quiet
<1>2. ChainLinked'
  BY DEF WaitInv, WaitTypeOK, ChainLinked, Quiet
<1>3. WholeChainReported'
  BY DEF WaitInv, WaitTypeOK, WholeChainReported, Quiet
<1>4. ReportedIsFinal'
  <2>1. reported # <<>> => LastReported \in Ids /\ LastReported' = LastReported
    BY Positions DEF WaitInv, WaitTypeOK, LastReported
  <2> QED BY <2>1 DEF WaitInv, WaitTypeOK, ReportedIsFinal, LastAttemptReported, Quiet
<1> QED
  BY <1>1, <1>2, <1>3, <1>4 DEF WaitInv

LEMMA StoreKeeps == ASSUME WaitInv, Store PROVE WaitInv'
<1> USE DEF WaitInv, WaitTypeOK
<1>0. UNCHANGED <<waitPc, cur, chain, reported, code>>
  BY DEF Store
<1>1. ASSUME NEW i \in Ids, Leaves(i) PROVE WaitInv'
  <2>1. CASE table' = StartRun(table, i)
    <3>1. table' \in [Ids -> Row]
      BY <2>1, <1>1, SetStatusType DEF Leaves, StartRun, Status
    <3>2. Quiet(table, table')
      BY <1>1, <2>1, <3>1 DEF Quiet, Leaves, StartRun, SetStatus, RowState, Status, Final, Row
    <3> QED BY <1>0, <3>1, <3>2, QuietKeeps
  <2>2. ASSUME NEW st \in {"skipped", "dropped"}, table' = Settle(table, i, st) PROVE WaitInv'
    <3>1. table' \in [Ids -> Row]
      BY <2>2, <1>1, SetStatusType DEF Leaves, Settle, Status, Final
    <3>2. Quiet(table, table')
      BY <1>1, <2>2, <3>1, SMTT(30)
         DEF Quiet, Leaves, Settle, SetStatus, RowState, Status, Final, Row
    <3> QED BY <1>0, <3>1, <3>2, QuietKeeps
  <2>3. CASE table' = RequestCancel(table, {i})
    <3>1. table' \in [Ids -> Row]
      BY <2>3, RequestCancelType
    <3>2. Quiet(table, table')
      BY <1>1, <2>3, <3>1
         DEF Quiet, Leaves, RequestCancel, RowState, Status, Final, Row
    <3> QED BY <1>0, <3>1, <3>2, QuietKeeps
  <2> QED BY <1>1, <2>1, <2>2, <2>3 DEF Leaves
<1>2. ASSUME NEW i \in Ids, Ends(i) PROVE WaitInv'
  <2>1. PICK st \in {"succeeded", "failed", "canceled", "interrupted"} :
          /\ table' = FinishRun(table, i, st)
          /\ \/ table[i].status = "running"
             \/ table[i].status \in {"succeeded", "failed"} /\ st = "canceled"
    BY <1>2 DEF Ends
  <2>2. table' \in [Ids -> Row]
    BY <2>1, FinishRunType DEF Status, Final
  <2>3. Quiet(table, table')
    <3>1. /\ table'[i].status = st /\ table'[i].retryOf = table[i].retryOf
          /\ \A j \in Ids \ {i} : table'[j] = table[j]
      BY <2>1 DEF FinishRun, Row
    <3> QED BY <2>1, <3>1 DEF Quiet, Final
  <2> QED BY <1>0, <2>2, <2>3, QuietKeeps
<1>3. ASSUME NEW i \in Ids, Recovers(i) PROVE WaitInv'
  <2>1. CASE table' = Abandon(table, i)
    <3>1. table' \in [Ids -> Row]
      BY <2>1, AbandonType
    <3>2. Quiet(table, table')
      BY <1>3, <2>1, <3>1 DEF Quiet, Recovers, Abandon, RowState, Status, Final, Row
    <3> QED BY <1>0, <3>1, <3>2, QuietKeeps
  <2>2. ASSUME NEW n \in Unused, table' = Retry(table, i, n) PROVE WaitInv'
    <3>0. n \in Ids /\ table[n].status = "absent" /\ n # i /\ table[n].retryOf = 0
      BY <1>3, <2>2 DEF Unused, Recovers, RepeatedAreMarked
    <3>1. table' \in [Ids -> Row]
      BY <2>2, <3>0, RetryType
    <3>2. /\ table'[i].status = "retried" /\ table'[i].retryOf = table[i].retryOf
          /\ table'[n].status = "queued" /\ table'[n].retryOf = i
          /\ \A j \in Ids \ {i, n} : table'[j] = table[j]
      BY <2>2, <3>0 DEF Retry, NewRun, Row
    <3>3. \A j \in Ids : table[j].retryOf # 0 => table[j].retryOf \in Ids
      BY DEF Row, Ids
    <3>4. i # 0
      BY DEF Ids
    <3>5. RepeatedAreMarked'
      BY <1>3, <3>0, <3>2, <3>3, <3>4, FirstId DEF RepeatedAreMarked, Recovers
    <3>6. \A j \in Ids : table[j].retryOf # 0 => table'[j].retryOf = table[j].retryOf
      BY <3>0, <3>2
    <3>7. ChainLinked'
      <4>1. \A k \in 1 .. Len(chain) : chain[k] \in Ids /\ chain[k] # 0
        BY IdsNotZero
      <4>2. chain # <<>> => Len(chain) \in 1 .. Len(chain)
        BY Positions
      <4>3. \A k \in 1 .. Len(chain) - 1 : k \in 1 .. Len(chain) /\ k + 1 \in 1 .. Len(chain)
        BY Positions
      <4>4. chain' = chain /\ cur' = cur
        BY <1>0
      <4>5. ASSUME chain # <<>> PROVE table'[cur].retryOf = chain[Len(chain)]
        BY <3>6, <4>1, <4>2, <4>5 DEF ChainLinked
      <4>6. ASSUME NEW k \in 1 .. Len(chain) - 1 PROVE table'[chain[k + 1]].retryOf = chain[k]
        BY <3>6, <4>1, <4>3 DEF ChainLinked
      <4> QED
        BY <4>4, <4>5, <4>6 DEF ChainLinked
    <3>8. ReportedIsFinal'
      <4>1. reported # <<>> => LastReported \in Ids /\ LastReported' = LastReported
        BY <1>0, Positions DEF LastReported
      <4>2. reported # <<>> => LastReported # i /\ LastReported # n
        BY <1>3, <3>0 DEF ReportedIsFinal, Recovers, Final
      <4>3. UNCHANGED <<reported, waitPc, code>>
        BY <1>0
      <4>4. reported # <<>> => table'[LastReported'] = table[LastReported]
        BY <3>2, <4>1, <4>2
      <4>5. ASSUME reported # <<>>, NEW j \in Ids PROVE table'[j].retryOf # LastReported'
        BY <3>0, <3>2, <4>1, <4>2, <4>5 DEF ReportedIsFinal, LastAttemptReported
      <4> QED
        BY <4>3, <4>4, <4>5 DEF ReportedIsFinal, LastAttemptReported
    <3>9. WholeChainReported'
      <4>1. \A k \in 1 .. Len(reported) : reported[k] \in Ids /\ reported[k] # 0
        BY IdsNotZero
      <4>2. \A k \in 1 .. Len(reported) - 1 :
              k \in 1 .. Len(reported) /\ k + 1 \in 1 .. Len(reported)
        BY Positions
      <4>3. reported' = reported
        BY <1>0
      <4>4. ASSUME reported # <<>>, NEW k \in 1 .. Len(reported) - 1
            PROVE  table'[reported[k + 1]].retryOf = reported[k]
        BY <3>6, <4>1, <4>2, <4>4 DEF WholeChainReported
      <4> QED
        BY <4>3, <4>4 DEF WholeChainReported
    <3> QED BY <1>0, <3>1, <3>5, <3>7, <3>8, <3>9
  <2> QED BY <1>3, <2>1, <2>2 DEF Recovers
<1>4. ASSUME NEW i \in Ids, Ages(i) PROVE WaitInv'
  <2>1. table' \in [Ids -> Row]
    <3>1. table \in [Ids -> Row] /\ table' = [table EXCEPT ![i].old = TRUE]
      BY <1>4 DEF Ages
    <3>2. [table[i] EXCEPT !.old = TRUE] \in Row
      BY <3>1 DEF Row
    <3> QED BY <3>1, <3>2
  <2>2. ASSUME NEW j \in Ids
        PROVE  table'[j].status = table[j].status /\ table'[j].retryOf = table[j].retryOf
    <3>1. table \in [Ids -> Row] /\ table' = [table EXCEPT ![i].old = TRUE]
      BY <1>4 DEF Ages
    <3>2. table'[j] = table[j] \/ table'[j] = [table[j] EXCEPT !.old = TRUE]
      BY <3>1
    <3>3. table[j] \in Row
      BY <3>1
    <3> QED BY <3>2, <3>3 DEF Row
  <2>3. Quiet(table, table')
    BY <2>2 DEF Quiet
  <2> QED BY <1>0, <2>1, <2>3, QuietKeeps
<1>5. CASE table' = Prune(table)
  <2>1. table' \in [Ids -> Row]
    BY <1>5, PruneType
  <2>2. Quiet(table, table')
    BY <1>5, <2>1 DEF Prune, Quiet, Row, Final
  <2> QED BY <1>0, <2>1, <2>2, QuietKeeps
<1> QED
  BY <1>1, <1>2, <1>3, <1>4, <1>5 DEF Store

-----------------------------------------------------------------------------
\* waitRun

LEMMA GetRunKeeps == ASSUME WaitInv, GetRun PROVE WaitInv'
<1> USE DEF WaitInv, WaitTypeOK
<1>1. CASE UNCHANGED reported
  <2>1. UNCHANGED <<table, cur, chain>>
    BY DEF GetRun
  <2>2. waitPc' \in {"get", "next", "pause", "exit"} /\ code' \in {ExitOK, ExitFailed, ExitTimeout}
    BY DEF GetRun, Report, Exit
  <2>3. reported = <<>> /\ Append(chain, cur) # <<>>
    <3>1. reported = <<>> BY DEF GetRun, ReportedIsFinal
    <3>2. Len(Append(chain, cur)) = Len(chain) + 1 OBVIOUS
    <3>3. Append(chain, cur) # <<>> BY <3>2
    <3> QED BY <3>1, <3>3
  <2>4. waitPc' = "exit" => code' = ExitFailed
    BY <1>1, <2>3 DEF GetRun, Report, Exit
  <2>5. ReportedIsFinal'
    BY <1>1, <2>3, <2>4 DEF ReportedIsFinal, LastAttemptReported, ExitOK, ExitFailed
  <2> QED
    BY <1>1, <2>1, <2>2, <2>5
       DEF RepeatedAreMarked, ChainLinked, WholeChainReported
<1>2. CASE Report(Append(chain, cur)) /\ table[cur].status \in Final \ {"retried"}
  <2> DEFINE rs == Append(chain, cur)
  <2>1. /\ rs \in Seq(Ids) /\ Len(rs) = Len(chain) + 1 /\ rs[Len(rs)] = cur
        /\ \A k \in 1 .. Len(chain) : rs[k] = chain[k]
    OBVIOUS
  <2>2. reported' = rs /\ UNCHANGED <<table, cur, chain>> /\ waitPc' = "exit"
        /\ code' = (IF table[cur].status = "succeeded" THEN ExitOK ELSE ExitFailed)
    BY <1>2, <2>1 DEF GetRun, Report, Exit
  <2>3. WaitTypeOK'
    BY <2>1, <2>2
  <2>4. RepeatedAreMarked' /\ ChainLinked'
    BY <2>2 DEF RepeatedAreMarked, ChainLinked
  <2>5. \A j \in Ids : table[j].retryOf # cur
    BY <1>2 DEF RepeatedAreMarked, Final, Ids
  <2>6. ReportedIsFinal'
    BY <1>2, <2>1, <2>2, <2>5
       DEF ReportedIsFinal, LastAttemptReported, LastReported, ExitOK, ExitFailed
  <2>7. WholeChainReported'
    <3>1. rs[1] = 1
      BY <2>1 DEF ChainLinked
    <3>2. ASSUME NEW k \in 1 .. Len(rs) - 1 PROVE table[rs[k + 1]].retryOf = rs[k]
      <4>1. CASE k = Len(chain)
        BY <2>1, <4>1 DEF ChainLinked
      <4>2. CASE k < Len(chain)
        BY <2>1, <4>2 DEF ChainLinked
      <4> QED BY <2>1, <4>1, <4>2
    <3> QED BY <2>1, <2>2, <3>1, <3>2 DEF WholeChainReported
  <2> QED BY <2>3, <2>4, <2>6, <2>7
<1> QED
  BY <1>1, <1>2 DEF GetRun

LEMMA RetryOfKeeps == ASSUME WaitInv, RetryOf PROVE WaitInv'
<1> USE DEF WaitInv, WaitTypeOK
<1>1. CASE UNCHANGED <<cur, chain>>
  BY <1>1
     DEF RetryOf, RepeatedAreMarked, ChainLinked, ReportedIsFinal, LastAttemptReported,
         LastReported, WholeChainReported
<1>2. ASSUME NEW j \in Repeats(cur), cur' = j, chain' = Append(chain, cur), waitPc' = "get"
      PROVE  WaitInv'
  <2>1. j \in Ids /\ table[j].retryOf = cur
    BY DEF Repeats
  <2>2. UNCHANGED <<table, reported, code>>
    BY DEF RetryOf
  <2>3. /\ chain' \in Seq(Ids) /\ Len(chain') = Len(chain) + 1 /\ chain'[Len(chain')] = cur
        /\ \A k \in 1 .. Len(chain) : chain'[k] = chain[k]
    BY <1>2
  <2>4. ChainLinked'
    <3>1. chain' # <<>> /\ chain'[1] = 1
      BY <1>2, <2>3 DEF ChainLinked
    <3>2. ASSUME NEW k \in 1 .. Len(chain') - 1 PROVE table[chain'[k + 1]].retryOf = chain'[k]
      <4>1. CASE k = Len(chain)
        BY <2>3, <4>1 DEF ChainLinked
      <4>2. CASE k < Len(chain)
        <5>1. k \in 1 .. Len(chain) - 1 /\ k \in 1 .. Len(chain) /\ k + 1 \in 1 .. Len(chain)
          BY <2>3, <4>2
        <5>2. chain'[k] = chain[k] /\ chain'[k + 1] = chain[k + 1]
          BY <2>3, <5>1
        <5> QED BY <5>1, <5>2 DEF ChainLinked
      <4> QED BY <2>3, <4>1, <4>2
    <3> QED BY <1>2, <2>1, <2>2, <2>3, <3>1, <3>2 DEF ChainLinked
  <2> QED
    BY <1>2, <2>1, <2>2, <2>3, <2>4
       DEF RetryOf, RepeatedAreMarked, ReportedIsFinal, LastAttemptReported, LastReported,
           WholeChainReported
<1> QED
  BY <1>1, <1>2 DEF RetryOf

LEMMA OthersKeep ==
  ASSUME WaitInv, Tick \/ QueryFails \/ WaitTimeout \/ UNCHANGED waitVars PROVE WaitInv'
BY DEF Tick, QueryFails, WaitTimeout, Exit, ExitOK, ExitFailed, ExitTimeout, waitVars, WaitInv,
       WaitTypeOK, RepeatedAreMarked, ChainLinked, ReportedIsFinal, LastAttemptReported,
       LastReported, WholeChainReported

-----------------------------------------------------------------------------
\* The theorems

THEOREM WaitInvariant == WaitSpec => []WaitInv
<1>1. WaitInv /\ [WaitNext]_waitVars => WaitInv'
  BY StoreKeeps, GetRunKeeps, RetryOfKeeps, OthersKeep DEF WaitNext, WaitLoop
<1> QED
  BY <1>1, WaitInvInit, PTL DEF WaitSpec

\* The run that kickd event --wait reports as the last attempt is the last one
\* for ever, and the exit code tells whether this attempt succeeded, whatever the
\* agents and the other subcommands do (waitRun, reportRuns).
THEOREM LastAttempt == WaitSpec => []LastAttemptReported
<1>1. WaitInv => LastAttemptReported
  BY DEF WaitInv, ReportedIsFinal
<1> QED
  BY <1>1, WaitInvariant, PTL

\* The runs that it prints are the attempts of its firing, all of them and in
\* order (waitRun, reportRuns).
THEOREM WholeChain == WaitSpec => []WholeChainReported
<1>1. WaitInv => WholeChainReported
  BY DEF WaitInv
<1> QED
  BY <1>1, WaitInvariant, PTL
=============================================================================
