------------------------------ MODULE WaitRun ------------------------------
(***************************************************************************)
(* kickd event --wait: waitRun and reportRuns (cmd/kickd/ops.go), a reader *)
(* that follows one firing through its attempts while the agent, other     *)
(* subcommands and the recoveries of later agents change the runs table.   *)
(*                                                                         *)
(* The others are any of the statements of the store, applied to rows that *)
(* the callers of those statements apply them to: no order among them is   *)
(* assumed, so that the result holds for every agent that uses the store.  *)
(***************************************************************************)
EXTENDS Runs, Sequences

VARIABLES
  table,    \* the runs table
  waitPc,   \* where waitRun is
  cur,      \* the run that it waits for
  chain,    \* the attempts that it saw repeated
  reported, \* the runs that it printed
  code      \* its exit code

waitVars == <<table, waitPc, cur, chain, reported, code>>

ExitOK == 0
ExitFailed == 1
ExitTimeout == 124

WaitTypeOK ==
  /\ table \in [Ids -> Row]
  /\ waitPc \in {"get", "next", "pause", "exit"}
  /\ cur \in Ids
  /\ chain \in Seq(Ids) /\ reported \in Seq(Ids)
  /\ code \in {ExitOK, ExitFailed, ExitTimeout}

\* event: the run was inserted, as queued, and it is the one to wait for.
WaitInit ==
  /\ \E e \in Events : table = [EmptyTable EXCEPT ![1] = NewRun(e, "fire", 0)]
  /\ waitPc = "get" /\ cur = 1 /\ chain = <<>> /\ reported = <<>> /\ code = ExitOK

-----------------------------------------------------------------------------
\* The other users of the table

Unused == {i \in Ids : table[i].status = "absent"}

\* A queued run starts, or ends without having started.
Leaves(i) ==
  /\ table[i].status = "queued"
  /\ \/ table' = StartRun(table, i)
     \/ \E st \in {"skipped", "dropped"} : table' = Settle(table, i, st)
     \/ table' = RequestCancel(table, {i})

\* The run of an agent ends; a cancel that came too late is recorded over it
\* (processCancels).
Ends(i) ==
  \/ /\ table[i].status = "running"
     /\ \E st \in {"succeeded", "failed", "canceled", "interrupted"} :
          table' = FinishRun(table, i, st)
  \/ /\ table[i].status \in {"succeeded", "failed"}
     /\ table' = FinishRun(table, i, "canceled")

\* The recovery of a later agent.
Recovers(i) ==
  /\ table[i].status \in {"running", "interrupted"}
  /\ \/ table' = Abandon(table, i)
     \/ \E n \in Unused :
          (\A j \in Unused : n <= j) /\ table' = Retry(table, i, n)

\* A row gets older than the retention.  Its finished_at is not before that of
\* the run that it repeats.
Ages(i) ==
  /\ table[i].status \in Final /\ ~table[i].old
  /\ table[i].retryOf # 0 =>
       table[table[i].retryOf].old \/ table[table[i].retryOf].status = "pruned"
  /\ table' = [table EXCEPT ![i].old = TRUE]

Store ==
  /\ \/ \E i \in Ids : Leaves(i) \/ Ends(i) \/ Recovers(i) \/ Ages(i)
     \/ table' = Prune(table) /\ table' # table
  /\ UNCHANGED <<waitPc, cur, chain, reported, code>>

-----------------------------------------------------------------------------
\* waitRun

Exit(c) == waitPc' = "exit" /\ code' = c

\* reportRuns: the exit code is 0 only when the last attempt succeeded.
Report(rs) ==
  /\ reported' = rs
  /\ Exit(IF table[rs[Len(rs)]].status = "succeeded" THEN ExitOK ELSE ExitFailed)

\* Mutant: an interrupted run counts as ended.
GetRunFlat ==
  /\ waitPc = "get"
  /\ \/ table[cur].status = "pruned" /\ Exit(ExitFailed) /\ UNCHANGED reported
     \/ table[cur].status = "retried" /\ waitPc' = "next" /\ UNCHANGED <<reported, code>>
     \/ /\ table[cur].status \in (Final \cup {"interrupted"}) \ {"retried"}
        /\ Report(Append(chain, cur))
     \/ table[cur].status \in {"queued", "running"} /\ waitPc' = "pause"
        /\ UNCHANGED <<reported, code>>
  /\ UNCHANGED <<table, cur, chain>>

\* Mutant: a run that is not there is waited for.
GetRunPatient ==
  /\ waitPc = "get"
  /\ \/ table[cur].status = "retried" /\ waitPc' = "next" /\ UNCHANGED <<reported, code>>
     \/ table[cur].status \in Final \ {"retried"} /\ Report(Append(chain, cur))
     \/ /\ table[cur].status \in {"queued", "running", "interrupted", "pruned"}
        /\ waitPc' = "pause" /\ UNCHANGED <<reported, code>>
  /\ UNCHANGED <<table, cur, chain>>

\* GetRun, and the switch over what it returned.
GetRun ==
  /\ waitPc = "get"
  /\ \/ table[cur].status = "pruned" /\ Exit(ExitFailed) /\ UNCHANGED reported
     \/ table[cur].status = "retried" /\ waitPc' = "next" /\ UNCHANGED <<reported, code>>
     \/ table[cur].status \in Final \ {"retried"} /\ Report(Append(chain, cur))
     \/ /\ table[cur].status \in {"queued", "running", "interrupted"}
        /\ waitPc' = "pause" /\ UNCHANGED <<reported, code>>
  /\ UNCHANGED <<table, cur, chain>>

Repeats(i) == {j \in Ids : table[j].retryOf = i /\ table[j].status \notin {"absent", "pruned"}}

\* Mutant: the run that was waited for is forgotten.
RetryOfForgets ==
  /\ waitPc = "next"
  /\ \/ \E j \in Repeats(cur) :
          /\ cur' = j /\ waitPc' = "get" /\ UNCHANGED chain
     \/ Repeats(cur) = {} /\ waitPc' = "pause" /\ UNCHANGED <<cur, chain>>
  /\ UNCHANGED <<table, reported, code>>

\* RetryOf, a query of its own: the run that repeats cur may be there, or may
\* have been pruned.
RetryOf ==
  /\ waitPc = "next"
  /\ \/ \E j \in Repeats(cur) :
          /\ \A k \in Repeats(cur) : j <= k
          /\ cur' = j /\ chain' = Append(chain, cur) /\ waitPc' = "get"
     \/ Repeats(cur) = {} /\ waitPc' = "pause" /\ UNCHANGED <<cur, chain>>
  /\ UNCHANGED <<table, reported, code>>

\* A query fails.  That of GetRun ends the wait, that of RetryOf does not.
QueryFails ==
  /\ \/ waitPc = "get" /\ Exit(ExitFailed)
     \/ waitPc = "next" /\ waitPc' = "pause" /\ UNCHANGED code
  /\ UNCHANGED <<table, cur, chain, reported>>

\* The next tick.
Tick == waitPc = "pause" /\ waitPc' = "get" /\ UNCHANGED <<table, cur, chain, reported, code>>

\* The time of --timeout has passed.
WaitTimeout ==
  /\ waitPc = "pause" /\ Exit(ExitTimeout)
  /\ UNCHANGED <<table, cur, chain, reported>>

WaitLoop == GetRun \/ RetryOf \/ Tick

WaitNext == Store \/ WaitLoop \/ QueryFails \/ WaitTimeout

WaitSpec == WaitInit /\ [][WaitNext]_waitVars

\* waitRun goes on, and RetryOf does not fail every time.  Nothing is fair about
\* the other users of the table.
WaitFairness == WF_waitVars(GetRun) /\ WF_waitVars(Tick) /\ SF_waitVars(RetryOf)

WaitFairSpec == WaitSpec /\ WaitFairness

-----------------------------------------------------------------------------
\* What the code promises

LastReported == reported[Len(reported)]

\* docs/cli.md: "If the run is interrupted and rerun during the wait, kickd event
\* waits for the rerun."  An attempt that was reported as the last one is never
\* repeated, now or later, and the exit code is that of this attempt: 0 when it
\* succeeded and only then, though a late cancel may be recorded over it and it may
\* be pruned (waitRun, reportRuns).
LastAttemptReported ==
  /\ reported # <<>> =>
       /\ \A j \in Ids : table[j].retryOf # LastReported
       /\ code = ExitFailed => table[LastReported].status # "succeeded"
  /\ waitPc = "exit" /\ code = ExitOK =>
       /\ reported # <<>>
       /\ table[LastReported].status \in {"succeeded", "canceled", "pruned"}

\* The runs that are printed are the attempts of the one firing, from the run
\* that was queued on, none left out and none twice (waitRun, reportRuns).
WholeChainReported ==
  reported # <<>> =>
    /\ reported[1] = 1
    /\ \A k \in 1 .. Len(reported) - 1 : table[reported[k + 1]].retryOf = reported[k]

\* The wait ends when the firing does: once no attempt is left to end, waitRun
\* reports, though rows are pruned between its queries (waitRun, Prune).
Unfinished == \E i \in Ids : table[i].status \in {"queued", "running", "interrupted"}

WaitEnds == (~Unfinished) ~> (waitPc = "exit")
=============================================================================
