------------------------ MODULE DispatcherProperties ------------------------
(***************************************************************************)
(* What the dispatcher promises.  The invariants and action properties     *)
(* hold; the definitions under "Promises" quote the repository and are     *)
(* checked one by one, to show where the code departs from them.           *)
(***************************************************************************)
EXTENDS Dispatcher

\* The runs of e that d.running counts: from Start until finish releases them.
LiveRuns(e) ==
  {i \in Ids : pc[i] \in {"exec", "exited", "recorded"} /\ runs[i].event = e}

\* d.running[e] is exactly the number of runs of e that were started and not
\* yet released, whatever the interleaving of the loop, the goroutines of the
\* runs, cancels, reloads and stops: every policy decision reads this counter.
RunningCounts == \A e \in Events : running[e] = Cardinality(LiveRuns(e))

Starts(i) == pc[i] = "none" /\ pc'[i] = "exec"

\* Unless the policy in force is parallel, a run starts only when no run of its
\* event is in progress, across reloads that change the policy (schedule).
ExclusiveStart ==
  [][\A i \in Ids : Starts(i) /\ Policy(Event(i)) # "parallel"
                      => LiveRuns(Event(i)) = {}]_vars

\* A row that says "running" is backed by a goroutine of this process, and
\* nothing is left "interrupted" but by the stop under way or by a late timeout:
\* Recover settled what the previous process left before the loop started new
\* runs, and every finished goroutine recorded its row.  Each command has its context in
\* d.cancels, where a cancel finds it, and a stop request reaches them all, one
\* that the loop starts after the request included (schedule, Start).
RowsMatchRuns ==
  agent \notin {"down", "recovering"} =>
    \A i \in Ids :
      /\ runs[i].status = "running" => pc[i] \in {"exec", "exited"}
      /\ pc[i] \in {"exec", "exited"} => runs[i].status = "running"
      /\ runs[i].status = "interrupted" => Stopping \/ Event(i) \in Timed
      /\ pc[i] = "exec" => ctx[i] \notin (IF Stopping THEN {"none", "live"} ELSE {"none"})

\* A caller of a webhook is told only about a run whose outcome the database
\* already holds (settle and finish write before they send).
AnswersAreRecorded ==
  \A i \in answered : runs[i].status \notin {"queued", "running"}

\* No lost wakeup.  When the loop sleeps with no token in d.wake, with no
\* commit of another process to notice and no run on its way to its poke, then
\* every row that waits to start waits for a run of its own event, for nextDue or,
\* when it is a restart that became due between the two readings of the clock in a
\* step (store.go:483 and 498), for the scan every 5 seconds; every cancel request
\* has reached its run, and every end was handed to after triggers (Loop, step).
Quiet ==
  /\ agent = "up" /\ loop = "idle" /\ ~wake /\ ~dirty
  /\ \A i \in Ids : pc[i] \in {"none", "exec", "exited"}

NoLostWakeup ==
  Quiet => \A i \in Ids :
             /\ runs[i].status = "queued" =>
                  \/ Defined(Event(i)) /\ running[Event(i)] > 0
                  \/ runs[i].kind = "restart" /\ i \in nextDue \cup raced
             /\ runs[i].status = "running" /\ runs[i].cancelReq /\ pc[i] = "exec"
                  => ctx[i] # "live"
             /\ runs[i].status \in {"succeeded", "failed", "canceled"} => runs[i].followed

-----------------------------------------------------------------------------
\* Recovery and after triggers

\* The end of a run fires each after trigger that names its status exactly
\* once, in the transaction that marks the run, and none before: a crash
\* between two steps neither loses nor repeats a firing (follow).
FiredBy(i, e) ==
  {j \in Ids : /\ runs[j].status # "absent" /\ runs[j].kind = "after"
               /\ runs[j].after = i /\ runs[j].retryOf = 0 /\ runs[j].event = e}

AfterOnce ==
  \A i \in Ids, e \in DOMAIN specs :
    IF runs[i].followed
      THEN CASE runs[i].status = "pruned" -> Cardinality(FiredBy(i, e)) <= 1
             [] runs[i].status \in specs[e].follows[Event(i)] -> Cardinality(FiredBy(i, e)) = 1
             [] OTHER -> FiredBy(i, e) = {}
      ELSE FiredBy(i, e) = {}

\* The first attempts of e that wait.
FirstsQueued(e) == {i \in QueuedOf(runs, e) : runs[i].retryOf = 0}

\* e waits for its own runs under every definition that the agent may load.
AlwaysQueues(e) == \A c \in Configs : e \in DOMAIN c => c[e].concurrency = "queue"

\* The limit on what waits holds for every firing, restart and after trigger, in
\* whatever order processes insert them.  Only the repeats of runs that were cut
\* off go over it, and they take the place of firings from then on (insertRun).
QueueBounded ==
  \A e \in Events : AlwaysQueues(e) => Cardinality(FirstsQueued(e)) <= MaxQueued

\* A firing that recovery runs again is one chain of runs: every retried run has
\* one successor, of the same event and cause and with the next attempt, and no
\* chain is longer than max_attempts (Recover, Retry).
RetryChain ==
  \A i \in Ids :
    /\ runs[i].status = "retried" => \E j \in Ids : runs[j].retryOf = i
    /\ \A j, k \in Ids : runs[j].retryOf = i /\ runs[k].retryOf = i => j = k
    /\ \A j \in Ids : runs[j].retryOf = i =>
         /\ runs[i].status \in {"retried", "pruned"} /\ i < j
         /\ runs[j].event = runs[i].event /\ runs[j].kind = runs[i].kind
         /\ runs[j].after = runs[i].after /\ runs[j].attempt = runs[i].attempt + 1
    /\ Defined(Event(i)) => runs[i].attempt <= specs[Event(i)].maxAttempts

\* The dispatcher implements RunQueue.  Its final statuses are one state there,
\* as are a crash and the row it leaves "running".
RunQueueState ==
  [i \in Ids |->
     CASE runs[i].status = "absent"      -> "unused"
       [] runs[i].status = "queued"      -> "waiting"
       [] runs[i].status = "running"     -> "executing"
       [] runs[i].status = "interrupted" -> "cut"
       [] runs[i].status = "pruned"      -> "deleted"
       [] OTHER                          -> "ended"]

AlwaysExclusive ==
  {e \in Events : \A c \in Configs : e \in DOMAIN c => c[e].concurrency # "parallel"}

Abstract == INSTANCE RunQueue WITH
  Exclusive <- AlwaysExclusive,
  state     <- RunQueueState,
  event     <- [i \in Ids |-> runs[i].event],
  cause     <- [i \in Ids |-> IF runs[i].retryOf # 0 THEN runs[i].retryOf ELSE runs[i].after],
  handed    <- {i \in Ids : runs[i].followed}

\* Every step of the dispatcher, of the subcommands and of a crash is a step of
\* the queue that RunQueue describes, or none.
ImplementsRunQueue == Abstract!Spec

-----------------------------------------------------------------------------
\* Liveness

Down == agent # "up"

\* Every queued run is started or settled without the scan every 5 seconds: the
\* token in d.wake, data_version and nextDue are enough, although a batch may be
\* shorter than the queue.  Only a restart that becomes due between the two
\* readings of the clock in a step (store.go:483 and 498) is left to that scan, or
\* to the next step there is another reason for (Loop, schedule, NextNotBefore).
QueueDrains ==
  \A i \in Ids :
    (~Down /\ runs[i].status = "queued")
      ~> (Down \/ runs[i].status # "queued" \/ i \in raced)

\* What a command ended with, or a user canceled, reaches the after triggers
\* without that scan (follow).
EndsFollowed ==
  \A i \in Ids :
    (~Down /\ runs[i].status \in {"succeeded", "failed", "canceled"})
      ~> (Down \/ runs[i].followed)

\* RunSync: a webhook caller that waits for its run receives a result.
CallersAnswered == \A i \in Ids : (~Down /\ i \in waiters) ~> (Down \/ i \in answered)

-----------------------------------------------------------------------------
\* Promises that the code does not keep

\* docs/runs.md: under concurrency: queue, "Waiting runs start one at a time, in
\* the order they were queued."
QueueOrder ==
  [][\A i \in Ids : Starts(i) /\ Policy(Event(i)) = "queue" =>
       ~ \E j \in QueuedOf(runs, Event(i)) : j < i /\ runs[j].kind # "restart"]_vars

\* store.go: "Final reports whether a status will not change any more."
FinalStays ==
  [][\A i \in Ids : runs[i].status \in Final =>
       runs'[i].status \in {runs[i].status, "pruned"}]_vars
=============================================================================
