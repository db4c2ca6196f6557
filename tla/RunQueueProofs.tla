--------------------------- MODULE RunQueueProofs ---------------------------
(***************************************************************************)
(* Proofs of what becomes of a run across processes: the chains of its     *)
(* attempts, what its end fires, and that the dispatcher implements        *)
(* RunQueue, for every value of the constants.                             *)
(***************************************************************************)
EXTENDS DispatcherProofs

USE DEF dbVars, procVars, scanVars, mapVars, runVars

-----------------------------------------------------------------------------
\* The chains of attempts

\* Row j keeps what it repeats, does not go back into the queue, and is not marked as
\* retried nor stops being so.
SameRun(t, u, j) ==
  /\ u[j].event = t[j].event /\ u[j].kind = t[j].kind /\ u[j].after = t[j].after
  /\ u[j].attempt = t[j].attempt /\ u[j].retryOf = t[j].retryOf
  /\ t[j].status \in {"retried", "pruned"} => u[j].status \in {"retried", "pruned"}
  /\ \A st \in {"queued", "retried"} : u[j].status = st => t[j].status = st
  /\ t[j].due => u[j].due

\* Row j is new, and a first attempt.  Only a restart waits for a delay.
FirstAttempt(j) ==
  /\ j > lastId /\ runs'[j].retryOf = 0 /\ runs'[j].attempt = 1
  /\ runs'[j].status # "retried"
  /\ runs'[j].due \/ runs'[j].kind = "restart"

\* What every step but a turn of Recover does.
NoRetry == \A j \in Ids : SameRun(runs, runs', j) \/ FirstAttempt(j)

LEMMA StatementsSame ==
  ASSUME NEW t \in [Ids -> Row], NEW i \in Ids, NEW S, NEW j \in Ids
  PROVE  /\ SameRun(t, t, j)
         /\ \A st \in {"skipped", "dropped"} : SameRun(t, Settle(t, i, st), j)
         /\ SameRun(t, StartRun(t, i), j)
         /\ SameRun(t, RequestCancel(t, S), j)
         /\ SameRun(t, Prune(t), j)
BY DEF SameRun, SetStatus, Settle, StartRun, RequestCancel, Prune, Row

\* An outcome is recorded over a row that was not retried.
LEMMA OutcomesSame ==
  ASSUME NEW t \in [Ids -> Row], NEW i \in Ids, t[i].status \notin {"retried", "pruned"},
         NEW st \in {"succeeded", "failed", "canceled", "interrupted"}, NEW j \in Ids
  PROVE  SameRun(t, FinishRun(t, i, st), j) /\ SameRun(t, Abandon(t, i), j)
BY DEF SameRun, FinishRun, Abandon, Row

LEMMA InsertFirst ==
  ASSUME TypeOK, lastId < MaxRuns, NEW r \in Row, r.status = "queued", r.attempt = 1,
         r.retryOf = 0, r.due \/ r.kind = "restart",
         NEW max, runs' = Insert(runs, lastId + 1, r, max)
  PROVE  NoRetry
<1>1. lastId \in Nat /\ lastId + 1 \in Ids BY NextIdType, RunsAssumption DEF TypeOK
<1>2. \A j \in Ids \ {lastId + 1} : runs'[j] = runs[j] BY <1>1, InsertKeeps DEF TypeOK
<1>3. FirstAttempt(lastId + 1) BY <1>1 DEF TypeOK, Insert, Row, FirstAttempt
<1> QED BY <1>2, <1>3 DEF NoRetry, SameRun

LEMMA OutsideNoRetry == ASSUME BInv, Outside PROVE NoRetry
<1> USE DEF BInv, IInv
<1>1. ASSUME NEW e \in Events, NEW max, lastId < MaxRuns,
             runs' = Insert(runs, lastId + 1, NewRun(e, "fire", 0), max)
      PROVE  NoRetry
  <2>1. NewRun(e, "fire", 0) \in Row BY NewRunType, NoRunType DEF Kind
  <2> QED BY <1>1, <2>1, InsertFirst DEF NewRun
<1>2. ASSUME NEW e \in Events, Fire(e) PROVE NoRetry
  BY <1>1, <1>2, RunsAssumption, DispatcherAssumption DEF Fire, TypeOK
<1>3. ASSUME NEW e \in Events, NEW wait \in BOOLEAN, Submit(e, wait) PROVE NoRetry
  BY <1>1, <1>3, RunsAssumption, DispatcherAssumption DEF Submit, TypeOK
<1>4. ASSUME NEW e \in Events, CancelEvent(e) PROVE NoRetry
  BY <1>4, StatementsSame DEF CancelEvent, TypeOK, NoRetry
<1>5. ASSUME NEW i \in Ids, CancelRun(i) PROVE NoRetry
  BY <1>5, StatementsSame DEF CancelRun, TypeOK, NoRetry
<1>6. ASSUME NEW i \in Ids, BecomeDue(i) PROVE NoRetry
  BY <1>6 DEF BecomeDue, NoRetry, SameRun, TypeOK, Row
<1>7. ASSUME LongDowntime PROVE NoRetry
  BY <1>7 DEF LongDowntime, NoRetry, SameRun, TypeOK, Row
<1> QED BY <1>2, <1>3, <1>4, <1>5, <1>6, <1>7 DEF Outside

\* A turn of Recover finds a row that was cut off.
LEMMA RecoverFinds ==
  ASSUME BInv, NEW i \in Ids, Recover(i) PROVE runs[i].status \in {"running", "interrupted"}
BY DEF BInv, Recover, Oldest, Control, IdleUntilUp, Backed, LeftOver, InterruptedRuns, InStatus

LEMMA ProcessNoRetry ==
  ASSUME BInv, Process
  PROVE  NoRetry \/ \E i \in Ids : Recover(i) /\ runs' = Retry(runs, i, lastId + 1)
<1> USE DEF BInv, IInv, TypeOK
<1>1. ASSUME NEW i \in Ids, Recover(i), runs' = Abandon(runs, i) PROVE NoRetry
  <2>1. runs[i].status \notin {"retried", "pruned"} BY <1>1, RecoverFinds
  <2>2. \A j \in Ids : SameRun(runs, Abandon(runs, i), j) BY <2>1, OutcomesSame
  <2> QED BY <1>1, <2>2 DEF NoRetry
<1>2. ASSUME StartLoop PROVE NoRetry BY <1>2, StatementsSame DEF StartLoop, NoRetry
<1>3. ASSUME UNCHANGED runs PROVE NoRetry BY <1>3, StatementsSame DEF NoRetry
<1> QED
  BY <1>1, <1>2, <1>3 DEF Process, StartAgent, Configure, Recover, Stop, WaitReturns, StopLoop,
                          ExitAgent, Crash, LoseMemory

LEMMA FollowRunNoRetry == ASSUME BInv, NEW i \in Ids, FollowRun(i) PROVE NoRetry
<1> DEFINE fired == Followers(i)
           n     == lastId + Cardinality(fired)
           max   == [e \in fired |-> QueueLimit(specs, e)]
<1> USE DEF BInv, IInv
<1>1. fired \subseteq Events BY DispatcherAssumption DEF TypeOK, Followers
<1>2. IsFiniteSet(fired) /\ Cardinality(fired) \in Nat
  BY <1>1, RunsAssumption, FS_Subset, FS_CardinalityType
<1>3. PICK slot \in [fired -> lastId + 1 .. n] : runs' = Follow(runs, i, slot, max)
  BY DEF FollowRun
<1>4. lastId \in Nat BY RunsAssumption DEF TypeOK
<1>5. ASSUME NEW j \in Ids, NEW e \in DOMAIN slot, slot[e] = j PROVE FirstAttempt(j)
  <2> DEFINE f == CHOOSE f \in DOMAIN slot : slot[f] = j
             r == NewRun(f, "after", i)
  <2>1. f \in DOMAIN slot /\ slot[f] = j BY <1>5
  <2>2. f \in Events /\ i \in 0 .. MaxRuns BY <1>1, <2>1 DEF Ids
  <2>3. r \in Row /\ r.status = "queued" /\ r.attempt = 1 /\ r.retryOf = 0 /\ r.due
    BY <2>2, NewRunType DEF Kind, NewRun
  <2>4. runs'[j] = Insert(runs, j, r, max[f])[j] BY <1>3, <1>5 DEF Follow
  <2> HIDE DEF r
  <2>5. /\ runs'[j].status # "retried" /\ runs'[j].attempt = 1 /\ runs'[j].retryOf = 0
        /\ runs'[j].due
    BY <2>3, <2>4 DEF Insert, Row, TypeOK
  <2>6. j > lastId BY <1>2, <1>4, <2>1 DEF Ids
  <2> QED BY <2>5, <2>6 DEF FirstAttempt
<1>6. ASSUME NEW j \in Ids, ~ \E e \in DOMAIN slot : slot[e] = j PROVE SameRun(runs, runs', j)
  BY <1>3, <1>6 DEF Follow, SameRun, TypeOK, Row
<1> QED BY <1>5, <1>6 DEF NoRetry

LEMMA LoopNoRetry == ASSUME BInv, Loop PROVE NoRetry
<1> USE DEF BInv, IInv, TypeOK
<1>1. ASSUME UNCHANGED runs PROVE NoRetry BY <1>1, StatementsSame DEF NoRetry
<1>2. ASSUME NEW i \in Ids, ProcessCancel(i) PROVE NoRetry
  <2>1. runs[i].status \notin {"retried", "pruned"}
    BY <1>2 DEF ProcessCancel, Oldest, Backed, CancelsStarted
  <2>2. \A j \in Ids : SameRun(runs, FinishRun(runs, i, "canceled"), j) BY <2>1, OutcomesSame
  <2> QED BY <1>1, <1>2, <2>2 DEF ProcessCancel, NoRetry
<1>3. ASSUME NEW i \in Ids, HandleRow(i) PROVE NoRetry
  <2>1. ASSUME NEW st \in {"skipped", "dropped"}, SettleRow(i, st) PROVE NoRetry
    BY <2>1, StatementsSame DEF SettleRow, NoRetry
  <2>2. CASE Start(i) BY <2>2, StatementsSame DEF Start, NoRetry
  <2> QED
    BY <1>1, <1>3, <2>1, <2>2 DEF HandleRow, SettleReplaced, CheckRow, DropRow, SkipRow, KeepRow,
                                  ReplaceRun
<1> QED
  BY <1>1, <1>2, <1>3, FollowRunNoRetry DEF Loop, Wake, Tick, ReadEnded, BeginScan, ReadQueued, EndStep

LEMMA RunNoRetry == ASSUME BInv, NEW i \in Ids, Run(i) PROVE NoRetry
<1> USE DEF BInv, IInv
<1>1. CASE RecordRun(i)
  <2>1. agent \notin {"down", "recovering"} BY <1>1 DEF RecordRun, Control, IdleUntilUp
  <2>2. runs[i].status = "running" BY <1>1, <2>1 DEF RecordRun, Backed, RowsAgree
  <2>3. out[i] \in {"succeeded", "failed", "canceled", "interrupted"}
    BY <1>1 DEF RecordRun, Counting, ExitedHasOutcome, TypeOK, Outcome
  <2>4. \A j \in Ids : SameRun(runs, FinishRun(runs, i, out[i]), j)
    BY <2>2, <2>3, OutcomesSame DEF TypeOK
  <2> QED BY <1>1, <2>4 DEF RecordRun, NoRetry
<1>2. CASE EnqueueRestart(i)
  <2> DEFINE r == Delayed(NewRun(Event(i), "restart", 0))
  <2>1. PICK c \in Known : runs' = Insert(runs, lastId + 1, r, QueueLimit(c, Event(i)))
    BY <1>2 DEF EnqueueRestart
  <2>2. NewRun(Event(i), "restart", 0) \in Row BY NewRunType, NoRunType, EventType DEF Kind
  <2>3. r \in Row BY <2>2 DEF Delayed, Row
  <2>4. r.status = "queued" /\ r.attempt = 1 /\ r.retryOf = 0 /\ r.kind = "restart"
    BY DEF Delayed, NewRun
  <2>5. lastId < MaxRuns BY <1>2 DEF EnqueueRestart
  <2> HIDE DEF r
  <2> QED BY <2>1, <2>3, <2>4, <2>5, InsertFirst
<1>3. CASE UNCHANGED runs BY <1>3, StatementsSame DEF NoRetry, TypeOK
<1> QED BY <1>1, <1>2, <1>3 DEF Run, CommandEnds, ReleaseRun, EndRun

\* The chains, without the limit on their length.
Linked ==
  \A i \in Ids :
    /\ runs[i].status = "retried" => \E j \in Ids : runs[j].retryOf = i
    /\ \A j, k \in Ids : runs[j].retryOf = i /\ runs[k].retryOf = i => j = k
    /\ \A j \in Ids : runs[j].retryOf = i =>
         /\ runs[i].status \in {"retried", "pruned"} /\ i < j
         /\ runs[j].event = runs[i].event /\ runs[j].kind = runs[i].kind
         /\ runs[j].after = runs[i].after /\ runs[j].attempt = runs[i].attempt + 1

\* The limit, under every definition that the agent may load.
AttemptsBounded ==
  \A i \in Ids, c \in Configs :
    runs[i].event \in DOMAIN c => runs[i].attempt <= c[runs[i].event].maxAttempts

\* No reload and no new process changes max_attempts of an event.
LimitsStay ==
  \A c, d \in Configs : \A e \in (DOMAIN c) \cap (DOMAIN d) : c[e].maxAttempts = d[e].maxAttempts

LEMMA LimitType ==
  ASSUME NEW c \in Configs, NEW e \in DOMAIN c
  PROVE  c[e].maxAttempts \in Nat \ {0}
BY DispatcherAssumption DEF Definition

LEMMA NoRetryLinked == ASSUME BInv, BInv', Linked, NoRetry PROVE Linked'
<1> USE DEF BInv
<1>1. ASSUME NEW j \in Ids, FirstAttempt(j) PROVE runs[j].status = "absent" /\ runs'[j].retryOf = 0
  BY <1>1 DEF FirstAttempt, Backed, UnusedRows
<1>2. ASSUME NEW i \in Ids, NEW j \in Ids, runs'[j].retryOf = i
      PROVE  /\ SameRun(runs, runs', j) /\ runs[j].retryOf = i
             /\ SameRun(runs, runs', i) /\ runs[i].status \in {"retried", "pruned"}
  <2>1. SameRun(runs, runs', j) BY <1>1, <1>2 DEF NoRetry, Ids
  <2>2. runs[j].retryOf = i BY <1>2, <2>1 DEF SameRun
  <2>3. runs[i].status \in {"retried", "pruned"} BY <2>2 DEF Linked
  <2> QED BY <1>1, <2>1, <2>2, <2>3 DEF NoRetry
<1>3. ASSUME NEW i \in Ids, runs'[i].status = "retried" PROVE \E j \in Ids : runs'[j].retryOf = i
  <2>1. SameRun(runs, runs', i) BY <1>3 DEF NoRetry, FirstAttempt
  <2>2. PICK j \in Ids : runs[j].retryOf = i BY <1>3, <2>1 DEF SameRun, Linked
  <2>3. ~(j > lastId) BY <2>2 DEF Backed, UnusedRows, Ids
  <2> QED BY <2>2, <2>3 DEF NoRetry, SameRun, FirstAttempt
<1>4. ASSUME NEW i \in Ids, NEW j \in Ids, runs'[j].retryOf = i
      PROVE  /\ runs'[i].status \in {"retried", "pruned"} /\ i < j
             /\ runs'[j].event = runs'[i].event /\ runs'[j].kind = runs'[i].kind
             /\ runs'[j].after = runs'[i].after /\ runs'[j].attempt = runs'[i].attempt + 1
  BY <1>2, <1>4 DEF Linked, SameRun
<1>5. ASSUME NEW i \in Ids, NEW j \in Ids, NEW k \in Ids, runs'[j].retryOf = i, runs'[k].retryOf = i
      PROVE  j = k
  BY <1>2, <1>5 DEF Linked
<1> QED BY <1>3, <1>4, <1>5 DEF Linked

LEMMA NoRetryBounded == ASSUME BInv, AttemptsBounded, NoRetry PROVE AttemptsBounded'
<1>1. ASSUME NEW i \in Ids, NEW c \in Configs, runs'[i].event \in DOMAIN c
      PROVE  runs'[i].attempt <= c[runs'[i].event].maxAttempts
  <2>1. CASE SameRun(runs, runs', i) BY <1>1, <2>1 DEF SameRun, AttemptsBounded
  <2>2. CASE FirstAttempt(i) BY <1>1, <2>2, LimitType DEF FirstAttempt
  <2> QED BY <2>1, <2>2 DEF NoRetry
<1> QED BY <1>1 DEF AttemptsBounded

\* Retry repeats a row that nothing repeats, under an ID that repeats nothing.
LEMMA RetryLinked ==
  ASSUME BInv, Linked, NEW i \in Ids, Recover(i), runs' = Retry(runs, i, lastId + 1)
  PROVE  Linked'
<1> DEFINE n == lastId + 1
<1> USE DEF BInv, IInv
<1>0. runs[i].status \in {"running", "interrupted"} BY RecoverFinds
<1>1. lastId \in Nat /\ i <= lastId /\ i # n
  BY <1>0, RunsAssumption DEF TypeOK, Backed, UnusedRows, Ids
<1>2. n \in Ids
  <2>1. runs'[i].status = "retried" BY <1>1 DEF Retry, TypeOK, Row
  <2>2. Abandon(runs, i)[i].status = "abandoned" BY DEF Abandon, TypeOK, Row
  <2>3. runs' # Abandon(runs, i) BY <2>1, <2>2
  <2> QED BY <2>3, NextIdType DEF Recover
<1>3. /\ runs'[n].retryOf = i /\ runs'[n].event = runs[i].event /\ runs'[n].kind = runs[i].kind
      /\ runs'[n].after = runs[i].after /\ runs'[n].attempt = runs[i].attempt + 1
      /\ runs'[n].status = "queued"
  BY <1>1, <1>2 DEF Retry, NewRun, TypeOK
<1>4. /\ runs'[i].status = "retried" /\ runs'[i].event = runs[i].event
      /\ runs'[i].kind = runs[i].kind /\ runs'[i].after = runs[i].after
      /\ runs'[i].attempt = runs[i].attempt /\ runs'[i].retryOf = runs[i].retryOf
  BY <1>1, <1>2 DEF Retry, TypeOK, Row
<1>5. \A j \in Ids \ {i, n} : runs'[j] = runs[j] BY <1>2 DEF Retry, TypeOK
<1>6. \A j \in Ids : runs[j].retryOf # i BY <1>0 DEF Linked
<1>7. runs[n].status = "absent" /\ runs[n].retryOf = 0
  BY <1>1, <1>2 DEF Backed, UnusedRows
<1>8. \A j \in Ids : runs[j].retryOf # n BY <1>2, <1>7 DEF Linked
<1>9. ASSUME NEW k \in Ids, NEW j \in Ids, runs'[j].retryOf = k
      PROVE  (j = n /\ k = i) \/ (j # n /\ k # i /\ k # n /\ runs[j].retryOf = k)
  BY <1>3, <1>4, <1>5, <1>6, <1>8, <1>9
<1>10. ASSUME NEW k \in Ids, runs'[k].status = "retried" PROVE \E j \in Ids : runs'[j].retryOf = k
  <2>1. CASE k = i BY <1>2, <1>3, <2>1
  <2>2. CASE k # i
    <3>1. runs[k].status = "retried" BY <1>3, <1>5, <1>10, <2>2
    <3>2. PICK j \in Ids : runs[j].retryOf = k BY <3>1 DEF Linked
    <3>3. j # n BY <1>7, <3>2 DEF Ids
    <3> QED BY <1>4, <1>5, <3>2, <3>3
  <2> QED BY <2>1, <2>2
<1>11. ASSUME NEW k \in Ids, NEW j \in Ids, runs'[j].retryOf = k
       PROVE  /\ runs'[k].status \in {"retried", "pruned"} /\ k < j
              /\ runs'[j].event = runs'[k].event /\ runs'[j].kind = runs'[k].kind
              /\ runs'[j].after = runs'[k].after /\ runs'[j].attempt = runs'[k].attempt + 1
  <2>1. CASE j = n /\ k = i BY <1>1, <1>3, <1>4, <2>1 DEF Ids
  <2>2. CASE j # n /\ k # i /\ k # n /\ runs[j].retryOf = k
    BY <1>4, <1>5, <2>2 DEF Linked
  <2> QED BY <1>9, <1>11, <2>1, <2>2
<1>12. ASSUME NEW k \in Ids, NEW j \in Ids, NEW m \in Ids, runs'[j].retryOf = k, runs'[m].retryOf = k
       PROVE  j = m
  BY <1>9, <1>12 DEF Linked
<1> QED BY <1>10, <1>11, <1>12 DEF Linked

\* Recover looks at the limit before it repeats a run.
LEMMA RetryBounded ==
  ASSUME BInv, LimitsStay, AttemptsBounded, NEW i \in Ids, Recover(i),
         runs' = Retry(runs, i, lastId + 1)
  PROVE  AttemptsBounded'
<1> DEFINE n == lastId + 1
<1> USE DEF BInv, IInv
<1>0. runs[i].status \in {"running", "interrupted"} BY RecoverFinds
<1>1. lastId \in Nat /\ i # n
  BY <1>0, RunsAssumption DEF TypeOK, Backed, UnusedRows, Ids
<1>2. runs'[i].status = "retried" BY <1>1 DEF Retry, TypeOK, Row
<1>3. runs' # Abandon(runs, i)
  <2>1. Abandon(runs, i)[i].status = "abandoned" BY DEF Abandon, TypeOK, Row
  <2> QED BY <1>2, <2>1
<1>4. n \in Ids /\ Event(i) \in DOMAIN specs /\ runs[i].attempt < specs[Event(i)].maxAttempts
  BY <1>3, NextIdType DEF Recover, Defined
<1>5. runs'[n].event = Event(i) /\ runs'[n].attempt = runs[i].attempt + 1
  BY <1>1, <1>4 DEF Retry, NewRun, TypeOK, Event
<1>6. \A j \in Ids \ {n} : runs'[j].event = runs[j].event /\ runs'[j].attempt = runs[j].attempt
  BY <1>4 DEF Retry, TypeOK, Row
<1>7. ASSUME NEW c \in Configs, Event(i) \in DOMAIN c
      PROVE  runs[i].attempt + 1 <= c[Event(i)].maxAttempts
  <2>1. c[Event(i)].maxAttempts = specs[Event(i)].maxAttempts
    BY <1>4, <1>7 DEF LimitsStay, TypeOK
  <2>2. c[Event(i)].maxAttempts \in Nat /\ runs[i].attempt \in Nat
    BY <1>7, LimitType DEF TypeOK, Row
  <2> QED BY <1>4, <2>1, <2>2
<1>8. ASSUME NEW j \in Ids, NEW c \in Configs, runs'[j].event \in DOMAIN c
      PROVE  runs'[j].attempt <= c[runs'[j].event].maxAttempts
  <2>1. CASE j = n BY <1>5, <1>7, <1>8, <2>1
  <2>2. CASE j # n BY <1>6, <1>8, <2>2 DEF AttemptsBounded
  <2> QED BY <2>1, <2>2
<1> QED BY <1>8 DEF AttemptsBounded

LEMMA InitChains == ASSUME Init PROVE Linked /\ AttemptsBounded
<1>1. \A i \in Ids : runs[i].status = "absent" /\ runs[i].retryOf = 0 /\ runs[i].attempt = 1
  BY DEF Init, EmptyTable, NewRun
<1>2. Linked BY <1>1 DEF Linked, Ids
<1>3. AttemptsBounded BY <1>1, LimitType DEF AttemptsBounded
<1> QED BY <1>2, <1>3

\* Every step but a turn of Recover leaves the chains alone.
LEMMA StepRetries ==
  ASSUME BInv, [Next]_vars
  PROVE  NoRetry \/ \E i \in Ids : Recover(i) /\ runs' = Retry(runs, i, lastId + 1)
<1>1. CASE UNCHANGED vars BY <1>1, StatementsSame DEF vars, NoRetry, BInv, IInv, TypeOK
<1> QED BY <1>1, OutsideNoRetry, ProcessNoRetry, LoopNoRetry, RunNoRetry DEF Next

LEMMA NextLinked == ASSUME BInv, BInv', Linked, [Next]_vars PROVE Linked'
BY StepRetries, NoRetryLinked, RetryLinked

LEMMA NextBounded ==
  ASSUME LimitsStay, BInv, AttemptsBounded, [Next]_vars PROVE AttemptsBounded'
BY StepRetries, NoRetryBounded, RetryBounded

LEMMA ChainsFollow == ASSUME BInv, Linked, AttemptsBounded PROVE RetryChain
BY DEF RetryChain, Linked, AttemptsBounded, BInv, IInv, TypeOK, Defined, Event

\* Over any number of crashes, recoveries and reloads, a firing that is run again is one
\* chain of runs: each retried run has one successor, which is the next attempt of the
\* same firing (Recover, Retry).
THEOREM ChainsAreLinked == Spec => []Linked
<1>1. Init => Linked BY InitChains
<1>2. BInv /\ BInv' /\ Linked /\ [Next]_vars => Linked' BY NextLinked
<1> QED BY <1>1, <1>2, BackedInvariant, PTL DEF Spec

\* And as long as no reload changes max_attempts of an event, no chain is longer than
\* that; an agent that is given a smaller limit may find longer ones (Recover).
THEOREM RetriesChained == ASSUME LimitsStay PROVE Spec => []RetryChain
<1>1. Init => AttemptsBounded BY InitChains
<1>2. BInv /\ AttemptsBounded /\ [Next]_vars => AttemptsBounded' BY NextBounded
<1>3. BInv /\ Linked /\ AttemptsBounded => RetryChain BY ChainsFollow
<1> QED BY <1>1, <1>2, <1>3, BackedInvariant, ChainsAreLinked, PTL DEF Spec

-----------------------------------------------------------------------------
\* The limit on what waits

\* Row j is a first attempt of e that waits.
Waits(t, j, e) == t[j].status = "queued" /\ t[j].event = e /\ t[j].retryOf = 0

\* No first attempt of e comes to wait.
NoneWaits(e) == \A j \in Ids : Waits(runs', j, e) => Waits(runs, j, e)

\* At most one does, and when it was inserted there was room for it.
RoomFor(e) ==
  /\ Cardinality(QueuedOf(runs, e)) < MaxQueued
  /\ \E k \in Ids : \A j \in Ids \ {k} : Waits(runs', j, e) => Waits(runs, j, e)

LimitKept == \A e \in Events : AlwaysQueues(e) => NoneWaits(e) \/ RoomFor(e)

\* No statement but an insert makes a row wait.
LEMMA StatementsLetWait ==
  ASSUME NEW t \in [Ids -> Row], NEW i \in Ids, NEW j \in Ids,
         NEW e \in Events, NEW st \in Status \ {"queued"}
  PROVE  /\ Waits(Settle(t, i, st), j, e) => Waits(t, j, e)
         /\ Waits(StartRun(t, i), j, e) => Waits(t, j, e)
         /\ Waits(FinishRun(t, i, st), j, e) => Waits(t, j, e)
BY DEF Waits, SetStatus, Settle, StartRun, FinishRun, Row

LEMMA OthersLetWait ==
  ASSUME NEW t \in [Ids -> Row], NEW S, NEW i \in Ids, NEW j \in Ids, NEW e \in Events
  PROVE  /\ Waits(RequestCancel(t, S), j, e) => Waits(t, j, e)
         /\ Waits(Abandon(t, i), j, e) => Waits(t, j, e)
         /\ Waits(Prune(t), j, e) => Waits(t, j, e)
BY DEF Waits, RequestCancel, Abandon, Prune, Row

\* The definition of an event that always queues carries the limit.
LEMMA LimitOf ==
  ASSUME NEW c \in Configs, NEW e \in DOMAIN c, AlwaysQueues(e)
  PROVE  QueueLimit(c, e) = MaxQueued
BY DEF AlwaysQueues, QueueLimit

\* The definitions that a goroutine may hold were all loaded.
LEMMA KnownConfigs == ASSUME TypeOK PROVE Known \subseteq Configs
BY DEF TypeOK, Known

\* An insert that leaves the row queued found room.
LEMMA InsertHasRoom ==
  ASSUME NEW t \in [Ids -> Row], NEW id \in Ids, NEW r \in Row, NEW e \in Events, r.event = e,
         r.status = "queued", Waits(Insert(t, id, r, MaxQueued), id, e)
  PROVE  Cardinality(QueuedOf(t, e)) < MaxQueued
<1>1. Cardinality(QueuedOf(t, e)) \in Nat
  <2>1. QueuedOf(t, e) \subseteq 1 .. MaxRuns BY DEF QueuedOf, InStatus, Ids
  <2>2. IsFiniteSet(1 .. MaxRuns) BY RunsAssumption, FS_Interval
  <2> QED BY <2>1, <2>2, FS_Subset, FS_CardinalityType
<1>2. MaxQueued \in Nat \ {0} BY DispatcherAssumption
<1>3. ASSUME Cardinality(QueuedOf(t, e)) >= MaxQueued PROVE FALSE
  <2>1. Insert(t, id, r, MaxQueued)[id] = [r EXCEPT !.status = "dropped"]
    BY <1>2, <1>3 DEF Insert
  <2>2. Insert(t, id, r, MaxQueued)[id].status # "queued"
    BY <2>1 DEF Row
  <2> QED BY <2>2 DEF Waits
<1> QED BY <1>1, <1>2, <1>3

\* Every transaction that inserts one row under the limit of its definition.
LEMMA InsertLimited ==
  ASSUME TypeOK, lastId < MaxRuns, NEW r \in Row, r.status = "queued",
         NEW c \in Configs, r.event \in DOMAIN c,
         runs' = Insert(runs, lastId + 1, r, QueueLimit(c, r.event))
  PROVE  LimitKept
<1>1. lastId + 1 \in Ids /\ r.event \in Events BY NextIdType DEF TypeOK, Row
<1>2. \A j \in Ids \ {lastId + 1} : runs'[j] = runs[j] BY <1>1, InsertKeeps DEF TypeOK
<1>3. runs'[lastId + 1].event = r.event BY <1>1 DEF Insert, TypeOK, Row
<1>4. ASSUME NEW e \in Events, AlwaysQueues(e) PROVE NoneWaits(e) \/ RoomFor(e)
  <2>1. CASE ~Waits(runs', lastId + 1, e) BY <1>2, <2>1 DEF NoneWaits, Waits
  <2>2. CASE Waits(runs', lastId + 1, e)
    <3>1. r.event = e BY <1>3, <2>2 DEF Waits
    <3>2. QueueLimit(c, e) = MaxQueued BY <1>4, <3>1, LimitOf
    <3>3. Cardinality(QueuedOf(runs, e)) < MaxQueued
      BY <1>1, <2>2, <3>1, <3>2, InsertHasRoom DEF TypeOK
    <3>4. \A j \in Ids \ {lastId + 1} : Waits(runs', j, e) => Waits(runs, j, e)
      BY <1>2 DEF Waits
    <3> QED BY <1>1, <3>3, <3>4 DEF RoomFor
  <2> QED BY <2>1, <2>2
<1> QED BY <1>4 DEF LimitKept

LEMMA FrameLimited == ASSUME UNCHANGED runs PROVE LimitKept
BY DEF LimitKept, NoneWaits, Waits

\* A step whose rows only leave the queue.
LEMMA LeavingLimited ==
  ASSUME \A j \in Ids, e \in Events : Waits(runs', j, e) => Waits(runs, j, e) PROVE LimitKept
BY DEF LimitKept, NoneWaits

LEMMA OutsideLimited == ASSUME BInv, Outside PROVE LimitKept
<1> USE DEF BInv, IInv
<1>1. ASSUME NEW e \in Events, NEW c \in Configs, e \in DOMAIN c, lastId < MaxFirings,
             runs' = Insert(runs, lastId + 1, NewRun(e, "fire", 0), QueueLimit(c, e))
      PROVE  LimitKept
  <2> DEFINE r == NewRun(e, "fire", 0)
  <2>1. r \in Row BY NewRunType, NoRunType DEF Kind
  <2>2. r.status = "queued" /\ r.event = e BY DEF NewRun
  <2>3. runs' = Insert(runs, lastId + 1, r, QueueLimit(c, r.event)) BY <1>1, <2>2
  <2>4. lastId < MaxRuns BY <1>1, RunsAssumption, DispatcherAssumption DEF TypeOK
  <2> HIDE DEF r
  <2> QED BY <1>1, <2>1, <2>2, <2>3, <2>4, InsertLimited
<1>2. ASSUME NEW e \in Events, Fire(e) PROVE LimitKept BY <1>1, <1>2 DEF Fire
<1>3. ASSUME NEW e \in Events, NEW wait \in BOOLEAN, Submit(e, wait) PROVE LimitKept
  BY <1>1, <1>3, KnownConfigs DEF Submit
<1>4. ASSUME NEW e \in Events, CancelEvent(e) PROVE LimitKept
  <2> DEFINE open == {i \in InStatus(runs, {"queued", "running"}) : Event(i) = e}
  <2>1. runs' = RequestCancel(runs, open) BY <1>4 DEF CancelEvent
  <2> HIDE DEF open
  <2> QED BY <2>1, OthersLetWait, LeavingLimited DEF TypeOK
<1>5. ASSUME NEW i \in Ids, CancelRun(i) PROVE LimitKept
  BY <1>5, OthersLetWait, LeavingLimited DEF CancelRun, TypeOK
<1>6. ASSUME NEW i \in Ids, BecomeDue(i) PROVE LimitKept
  BY <1>6, LeavingLimited DEF BecomeDue, Waits, TypeOK, Row
<1>7. ASSUME LongDowntime PROVE LimitKept
  BY <1>7, LeavingLimited DEF LongDowntime, Waits, TypeOK, Row
<1> QED BY <1>2, <1>3, <1>4, <1>5, <1>6, <1>7 DEF Outside

\* What recovery queues are repeats.
LEMMA RecoverLimited == ASSUME BInv, NEW i \in Ids, Recover(i) PROVE LimitKept
<1> USE DEF BInv, IInv
<1>1. CASE lastId < MaxRuns /\ runs' = Retry(runs, i, lastId + 1)
  <2>1. lastId + 1 \in Ids BY <1>1, NextIdType DEF TypeOK
  <2>2. ASSUME NEW j \in Ids, NEW e \in Events, Waits(runs', j, e) PROVE Waits(runs, j, e)
    <3>1. CASE j = i BY <1>1, <2>1, <2>2, <3>1 DEF Waits, Retry, NewRun, TypeOK, Row, Ids
    <3>2. CASE j = lastId + 1 /\ j # i
      <4>1. runs'[j].retryOf = i BY <1>1, <2>1, <3>2 DEF Retry, NewRun, TypeOK
      <4> QED BY <2>2, <4>1 DEF Waits, Ids
    <3>3. CASE j # lastId + 1 /\ j # i BY <1>1, <2>1, <2>2, <3>3 DEF Waits, Retry, TypeOK
    <3> QED BY <3>1, <3>2, <3>3
  <2> QED BY <2>2, LeavingLimited
<1>2. CASE runs' = Abandon(runs, i)
  BY <1>2, OthersLetWait, LeavingLimited DEF TypeOK
<1> QED BY <1>1, <1>2 DEF Recover

LEMMA ProcessLimited == ASSUME BInv, Process PROVE LimitKept
<1> USE DEF BInv, IInv
<1>1. ASSUME StartLoop PROVE LimitKept
  BY <1>1, OthersLetWait, FrameLimited, LeavingLimited DEF StartLoop, TypeOK
<1> QED
  BY <1>1, FrameLimited, RecoverLimited DEF Process, StartAgent, Configure, Stop, WaitReturns,
                                            StopLoop, ExitAgent, Crash, LoseMemory

\* The firings of one end are of different events.
LEMMA FollowLimited == ASSUME BInv, NEW i \in Ids, FollowRun(i) PROVE LimitKept
<1> DEFINE fired == Followers(i)
           n     == lastId + Cardinality(fired)
           max   == [e \in fired |-> QueueLimit(specs, e)]
<1> USE DEF BInv, IInv
<1>1. fired \subseteq Events /\ fired \subseteq DOMAIN specs /\ specs \in Configs
  BY DispatcherAssumption DEF TypeOK, Followers
<1>2. PICK slot \in [fired -> lastId + 1 .. n] :
        /\ \A e, f \in fired : slot[e] = slot[f] => e = f
        /\ runs' = Follow(runs, i, slot, max)
  BY DEF FollowRun
<1>3. ASSUME NEW j \in Ids, ~ \E e \in fired : slot[e] = j, NEW e \in Events, Waits(runs', j, e)
      PROVE  Waits(runs, j, e)
  BY <1>2, <1>3 DEF Follow, Waits, TypeOK, Row
<1>4. ASSUME NEW j \in Ids, NEW f \in fired, slot[f] = j, NEW e \in Events, AlwaysQueues(e),
             Waits(runs', j, e)
      PROVE  f = e /\ Cardinality(QueuedOf(runs, e)) < MaxQueued
  <2> DEFINE r == NewRun(f, "after", i)
  <2>1. f \in Events /\ i \in 0 .. MaxRuns BY <1>1 DEF Ids
  <2>2. r \in Row /\ r.status = "queued" /\ r.event = f BY <2>1, NewRunType DEF Kind, NewRun
  <2>3. (CHOOSE g \in fired : slot[g] = j) = f BY <1>2, <1>4
  <2>4. runs'[j] = Insert(runs, j, r, max[f])[j] BY <1>2, <1>4, <2>3 DEF Follow
  <2> HIDE DEF r
  <2>5. runs'[j].event = f BY <2>2, <2>4 DEF Insert, TypeOK, Row
  <2>6. f = e BY <1>4, <2>5 DEF Waits
  <2>7. max[f] = MaxQueued BY <1>1, <1>4, <2>6, LimitOf
  <2>8. Waits(Insert(runs, j, r, MaxQueued), j, e) BY <1>4, <2>4, <2>7 DEF Waits
  <2> QED BY <2>2, <2>6, <2>8, InsertHasRoom DEF TypeOK
<1>5. ASSUME NEW e \in Events, AlwaysQueues(e) PROVE NoneWaits(e) \/ RoomFor(e)
  <2>1. ASSUME NEW k \in Ids, e \in fired, slot[e] = k, Waits(runs', k, e) PROVE RoomFor(e)
    <3>1. Cardinality(QueuedOf(runs, e)) < MaxQueued BY <1>4, <1>5, <2>1
    <3>2. ASSUME NEW j \in Ids \ {k}, Waits(runs', j, e) PROVE Waits(runs, j, e)
      BY <1>3, <1>4, <1>5, <2>1, <3>2
    <3> QED BY <3>1, <3>2 DEF RoomFor
  <2>2. ASSUME ~ \E k \in Ids : e \in fired /\ slot[e] = k /\ Waits(runs', k, e)
        PROVE  NoneWaits(e)
    BY <1>3, <1>4, <1>5, <2>2 DEF NoneWaits
  <2> QED BY <2>1, <2>2
<1> QED BY <1>5 DEF LimitKept

LEMMA LoopLimited == ASSUME BInv, Loop PROVE LimitKept
<1> USE DEF BInv, IInv, TypeOK
<1>1. ASSUME NEW i \in Ids, ProcessCancel(i) PROVE LimitKept
  <2>1. CASE runs' = FinishRun(runs, i, "canceled")
    BY <2>1, StatementsLetWait, LeavingLimited DEF Status, Final
  <2> QED BY <1>1, <2>1, FrameLimited DEF ProcessCancel
<1>2. ASSUME NEW i \in Ids, HandleRow(i) PROVE LimitKept
  <2>1. ASSUME NEW st \in {"skipped", "dropped"}, SettleRow(i, st) PROVE LimitKept
    BY <2>1, StatementsLetWait, LeavingLimited DEF SettleRow, Status, Final
  <2>2. CASE Start(i) BY <2>2, StatementsLetWait, LeavingLimited DEF Start, Status, Final
  <2> QED
    BY <1>2, <2>1, <2>2, FrameLimited DEF HandleRow, SettleReplaced, CheckRow, DropRow, SkipRow,
                                          KeepRow, ReplaceRun
<1> QED
  BY <1>1, <1>2, FollowLimited, FrameLimited DEF Loop, Wake, Tick, ReadEnded, BeginScan, ReadQueued,
                                                 EndStep

LEMMA RunLimited == ASSUME BInv, NEW i \in Ids, Run(i) PROVE LimitKept
<1> USE DEF BInv, IInv
<1>1. CASE RecordRun(i)
  <2>1. out[i] \in Status \ {"queued"}
    BY <1>1 DEF RecordRun, Counting, ExitedHasOutcome, TypeOK, Outcome, Status, Final
  <2> QED BY <1>1, <2>1, StatementsLetWait, LeavingLimited DEF RecordRun, TypeOK
<1>2. CASE EnqueueRestart(i)
  <2> DEFINE r == Delayed(NewRun(Event(i), "restart", 0))
  <2>1. PICK c \in Known : /\ Event(i) \in DOMAIN c
                           /\ runs' = Insert(runs, lastId + 1, r, QueueLimit(c, Event(i)))
    BY <1>2 DEF EnqueueRestart
  <2>2. NewRun(Event(i), "restart", 0) \in Row BY NewRunType, NoRunType, EventType DEF Kind
  <2>3. r \in Row BY <2>2 DEF Delayed, Row
  <2>4. r.status = "queued" /\ r.event = Event(i) BY DEF Delayed, NewRun
  <2>5. lastId < MaxRuns /\ c \in Configs BY <1>2, <2>1, KnownConfigs DEF EnqueueRestart
  <2> HIDE DEF r
  <2> QED BY <2>1, <2>3, <2>4, <2>5, InsertLimited
<1> QED BY <1>1, <1>2, FrameLimited DEF Run, CommandEnds, ReleaseRun, EndRun

LEMMA StepLimited == ASSUME BInv, [Next]_vars PROVE LimitKept
<1>1. CASE UNCHANGED vars BY <1>1, FrameLimited DEF vars
<1> QED BY <1>1, OutsideLimited, ProcessLimited, LoopLimited, RunLimited DEF Next

\* Where there was room for one row, one more is within the limit.
LEMMA NextWithin == ASSUME BInv, BInv', QueueBounded, [Next]_vars PROVE QueueBounded'
<1>1. ASSUME NEW e \in Events, AlwaysQueues(e) PROVE Cardinality(FirstsQueued(e)') <= MaxQueued
  <2> DEFINE old == FirstsQueued(e)
             new == FirstsQueued(e)'
  <2>1. /\ old = {j \in Ids : Waits(runs, j, e)} /\ new = {j \in Ids : Waits(runs', j, e)}
        /\ old \subseteq QueuedOf(runs, e) /\ QueuedOf(runs, e) \subseteq Ids
    BY DEF FirstsQueued, QueuedOf, InStatus, Waits
  <2>2. IsFiniteSet(Ids) BY FS_Interval, RunsAssumption DEF Ids
  <2>3. IsFiniteSet(old) /\ IsFiniteSet(new) /\ IsFiniteSet(QueuedOf(runs, e))
    BY <2>1, <2>2, FS_Subset
  <2> HIDE DEF old, new
  <2>4. /\ Cardinality(old) \in Nat /\ Cardinality(new) \in Nat /\ MaxQueued \in Nat
        /\ Cardinality(QueuedOf(runs, e)) \in Nat
    BY <2>3, FS_CardinalityType, DispatcherAssumption
  <2>5. CASE NoneWaits(e)
    <3>1. new \subseteq old BY <2>1, <2>5 DEF NoneWaits
    <3>2. Cardinality(new) <= Cardinality(old) BY <2>3, <3>1, FS_Subset
    <3>3. Cardinality(old) <= MaxQueued BY <1>1 DEF old, QueueBounded
    <3> QED BY <2>4, <3>2, <3>3 DEF new
  <2>6. CASE RoomFor(e)
    <3>1. PICK k \in Ids : \A j \in Ids \ {k} : Waits(runs', j, e) => Waits(runs, j, e)
      BY <2>6 DEF RoomFor
    <3>2. new \subseteq old \cup {k} BY <2>1, <3>1
    <3>3. IsFiniteSet(old \cup {k}) /\ Cardinality(old \cup {k}) <= Cardinality(old) + 1
      <4>1. /\ IsFiniteSet(old \cup {k})
            /\ Cardinality(old \cup {k}) = IF k \in old THEN Cardinality(old) ELSE Cardinality(old) + 1
        BY <2>3, FS_AddElement
      <4> QED BY <2>4, <4>1
    <3>4. Cardinality(new) <= Cardinality(old \cup {k}) BY <3>2, <3>3, FS_Subset
    <3>5. Cardinality(old) <= Cardinality(QueuedOf(runs, e)) BY <2>1, <2>3, FS_Subset
    <3>6. Cardinality(QueuedOf(runs, e)) < MaxQueued BY <2>6 DEF RoomFor
    <3>7. Cardinality(old \cup {k}) \in Nat BY <3>3, FS_CardinalityType
    <3> QED BY <2>4, <3>3, <3>4, <3>5, <3>6, <3>7 DEF new
  <2> QED BY <1>1, <2>5, <2>6, StepLimited DEF LimitKept
<1> QED BY <1>1 DEF QueueBounded, AlwaysQueues

LEMMA InitWithin == ASSUME Init PROVE QueueBounded
<1>1. \A i \in Ids : runs[i].status = "absent" BY DEF Init, EmptyTable, NewRun
<1>2. \A e \in Events : FirstsQueued(e) = {} BY <1>1 DEF FirstsQueued, QueuedOf, InStatus
<1> QED BY <1>2, FS_EmptySet, DispatcherAssumption DEF QueueBounded

\* Firings of every kind, from any number of processes, in any order and over crashes and
\* reloads, keep within the limit of an event that queues (insertRun, Follow).
THEOREM QueueStaysBounded == Spec => []QueueBounded
<1>1. Init => QueueBounded BY InitWithin
<1>2. BInv /\ BInv' /\ QueueBounded /\ [Next]_vars => QueueBounded' BY NextWithin
<1> QED BY <1>1, <1>2, BackedInvariant, PTL DEF Spec

-----------------------------------------------------------------------------
\* The rows as states of RunQueue

\* The state that a row with status st has there.
AbstractOf(st) ==
  CASE st = "absent"      -> "unused"
    [] st = "queued"      -> "waiting"
    [] st = "running"     -> "executing"
    [] st = "interrupted" -> "cut"
    [] st = "pruned"      -> "deleted"
    [] OTHER              -> "ended"

LEMMA AbstractOfStatus ==
  ASSUME NEW st \in RowState
  PROVE  /\ AbstractOf(st) = "unused"    <=> st = "absent"
         /\ AbstractOf(st) = "waiting"   <=> st = "queued"
         /\ AbstractOf(st) = "executing" <=> st = "running"
         /\ AbstractOf(st) = "cut"       <=> st = "interrupted"
         /\ AbstractOf(st) = "deleted"   <=> st = "pruned"
         /\ AbstractOf(st) = "ended"     <=> st \in Final
BY DEF AbstractOf, RowState, Status, Final

Becomes(j) == AbstractOf(runs'[j].status)

LEMMA StatesOf ==
  ASSUME TypeOK, TypeOK'
  PROVE  /\ RunQueueState = [j \in Ids |-> AbstractOf(runs[j].status)]
         /\ RunQueueState' = [j \in Ids |-> Becomes(j)]
BY DEF RunQueueState, AbstractOf, Becomes

Cause(r) == IF r.retryOf # 0 THEN r.retryOf ELSE r.after

\* Row j stays a firing of the same event with the same cause, and keeps its mark.
KeepsFiring(j) ==
  /\ runs'[j].event = runs[j].event /\ Cause(runs'[j]) = Cause(runs[j])
  /\ runs'[j].followed = runs[j].followed

KeepsState(j) == KeepsFiring(j) /\ Becomes(j) = AbstractOf(runs[j].status)

AbstractStep == [Abstract!Next]_(Abstract!vars)

USE DEF Cause

LEMMA Stutters == ASSUME TypeOK, TypeOK', \A j \in Ids : KeepsState(j) PROVE AbstractStep
<1>1. RunQueueState' = RunQueueState BY StatesOf DEF KeepsState
<1> QED BY <1>1 DEF AbstractStep, Abstract!vars, KeepsState, KeepsFiring

LEMMA ChangesState ==
  ASSUME TypeOK, TypeOK', NEW S \in SUBSET Ids, NEW st \in RowState,
         \A j \in S : KeepsFiring(j) /\ Becomes(j) = AbstractOf(st),
         \A j \in Ids \ S : KeepsState(j)
  PROVE  /\ RunQueueState' = [j \in Ids |-> IF j \in S THEN AbstractOf(st) ELSE RunQueueState[j]]
         /\ UNCHANGED <<[j \in Ids |-> runs[j].event],
                        [j \in Ids |-> Cause(runs[j])],
                        {j \in Ids : runs[j].followed}>>
BY StatesOf DEF KeepsState, KeepsFiring

LEMMA OneChanges ==
  ASSUME TypeOK, TypeOK', NEW i \in Ids, NEW st \in RowState, KeepsFiring(i),
         runs'[i].status = st, \A j \in Ids \ {i} : KeepsState(j)
  PROVE  /\ Abstract!Become({i}, AbstractOf(st))
         /\ UNCHANGED <<[j \in Ids |-> runs[j].event],
                        [j \in Ids |-> Cause(runs[j])],
                        {j \in Ids : runs[j].followed}>>
<1>1. \A j \in {i} : KeepsFiring(j) /\ Becomes(j) = AbstractOf(st) BY DEF Becomes
<1>2. {i} \in SUBSET Ids OBVIOUS
<1> HIDE DEF Cause
<1> QED BY <1>1, <1>2, ChangesState DEF Abstract!Become

\* Runs end, one that was begun or any number that wait.
LEMMA RunsEnd ==
  ASSUME TypeOK, TypeOK', NEW S \in SUBSET Ids,
         \A j \in S : KeepsFiring(j) /\ runs'[j].status \in Final,
         \A j \in Ids \ S : KeepsState(j),
         \/ \A j \in S : runs[j].status = "queued"
         \/ \E j \in S : S = {j} /\ runs[j].status \in {"running", "interrupted"}
  PROVE  AbstractStep
<1>1. \A j \in S : KeepsFiring(j) /\ Becomes(j) = AbstractOf("succeeded")
  BY DEF Becomes, AbstractOf, Final
<1>2. "succeeded" \in RowState /\ AbstractOf("succeeded") = "ended"
  BY DEF AbstractOf, RowState, Status, Final
<1>3. \/ \A j \in S : RunQueueState[j] = "waiting"
      \/ \E j \in S : S = {j} /\ RunQueueState[j] \in {"executing", "cut"}
  BY StatesOf, AbstractOfStatus DEF TypeOK, Row
<1>4. Abstract!End(S) BY <1>1, <1>2, <1>3, ChangesState DEF Abstract!End, Abstract!Become
<1> QED BY <1>4 DEF AbstractStep, Abstract!Next

LEMMA RunsDeleted ==
  ASSUME TypeOK, TypeOK', NEW S \in SUBSET Ids,
         \A j \in S : KeepsFiring(j) /\ runs[j].status \in Final /\ runs'[j].status = "pruned",
         \A j \in Ids \ S : KeepsState(j)
  PROVE  AbstractStep
<1>1. \A j \in S : KeepsFiring(j) /\ Becomes(j) = AbstractOf("pruned") BY DEF Becomes
<1>2. "pruned" \in RowState /\ AbstractOf("pruned") = "deleted" BY DEF AbstractOf, RowState
<1>3. \A j \in S : RunQueueState[j] = "ended" BY StatesOf, AbstractOfStatus DEF TypeOK, Row
<1>4. Abstract!Delete(S) BY <1>1, <1>2, <1>3, ChangesState DEF Abstract!Delete, Abstract!Become
<1> QED BY <1>4 DEF AbstractStep, Abstract!Next

LEMMA RunCut ==
  ASSUME TypeOK, TypeOK', NEW i \in Ids, KeepsFiring(i), runs[i].status = "running",
         runs'[i].status = "interrupted", \A j \in Ids \ {i} : KeepsState(j)
  PROVE  AbstractStep
<1>2. "interrupted" \in RowState /\ AbstractOf("interrupted") = "cut"
  BY DEF AbstractOf, RowState, Status
<1>3. RunQueueState[i] = "executing" BY StatesOf DEF AbstractOf
<1>4. Abstract!Cut(i) BY <1>2, <1>3, OneChanges DEF Abstract!Cut
<1> QED BY <1>4 DEF AbstractStep, Abstract!Next

LEMMA RunBegins ==
  ASSUME TypeOK, TypeOK', NEW i \in Ids, KeepsFiring(i), runs[i].status = "queued",
         runs'[i].status = "running", \A j \in Ids \ {i} : KeepsState(j),
         Event(i) \in AlwaysExclusive =>
           \A j \in Ids : Event(j) = Event(i) => runs[j].status # "running"
  PROVE  AbstractStep
<1>2. "running" \in RowState /\ AbstractOf("running") = "executing"
  BY DEF AbstractOf, RowState, Status
<1>3. RunQueueState[i] = "waiting" BY StatesOf DEF AbstractOf
<1>4. \A j \in Ids : RunQueueState[j] = "executing" => runs[j].status = "running"
  BY StatesOf, AbstractOfStatus DEF TypeOK, Row
<1>5. Event(i) \in AlwaysExclusive => Abstract!Executing(Event(i)) = {}
  BY <1>4 DEF Abstract!Executing, Event
<1>6. Abstract!Begin(i)
  BY <1>2, <1>3, <1>5, OneChanges DEF Abstract!Begin, Event
<1> QED BY <1>6 DEF AbstractStep, Abstract!Next

-----------------------------------------------------------------------------
\* New rows

\* An ID that was not given becomes a run, with cause c.
BecomesRun(j, c) ==
  /\ runs[j].status = "absent" /\ ~runs[j].followed
  /\ runs'[j].status \in {"queued", "dropped"} /\ ~runs'[j].followed /\ Cause(runs'[j]) = c

LEMMA RunsRecorded ==
  ASSUME TypeOK, TypeOK', NEW New \in SUBSET Ids, NEW S \in SUBSET Ids, NEW c, NEW st,
         \A j \in New : BecomesRun(j, c),
         \A j \in S : runs'[j].event = runs[j].event /\ Cause(runs'[j]) = Cause(runs[j])
                        /\ Becomes(j) = st,
         \A j \in Ids \ (New \cup S) :
           runs'[j].event = runs[j].event /\ Cause(runs'[j]) = Cause(runs[j])
             /\ Becomes(j) = AbstractOf(runs[j].status),
         New \cap S = {}
  PROVE  Abstract!Record(New, c, S, st)
<1>1. \A j \in New : RunQueueState[j] = "unused" /\ RunQueueState'[j] \in {"waiting", "ended"}
  BY StatesOf DEF BecomesRun, Becomes, AbstractOf
<1>2. \A j \in S : RunQueueState'[j] = st BY StatesOf
<1>3. \A j \in Ids \ (New \cup S) : RunQueueState'[j] = RunQueueState[j] BY StatesOf
<1>4. \A j \in Ids \ New : runs'[j].event = runs[j].event /\ Cause(runs'[j]) = Cause(runs[j])
  OBVIOUS
<1>5. \A j \in New : Cause(runs'[j]) = c BY DEF BecomesRun
<1> QED BY <1>1, <1>2, <1>3, <1>4, <1>5 DEF Abstract!Record

LEMMA RunFires ==
  ASSUME TypeOK, TypeOK', NEW n \in Ids, BecomesRun(n, 0), \A j \in Ids \ {n} : KeepsState(j)
  PROVE  AbstractStep
<1>1. Abstract!Record({n}, 0, {}, "ended")
  <2>1. {n} \in SUBSET Ids /\ {} \in SUBSET Ids /\ {n} \cap {} = {} OBVIOUS
  <2>2. \A j \in {n} : BecomesRun(j, 0) OBVIOUS
  <2>3. \A j \in Ids \ ({n} \cup {}) :
          runs'[j].event = runs[j].event /\ Cause(runs'[j]) = Cause(runs[j])
            /\ Becomes(j) = AbstractOf(runs[j].status)
    BY DEF KeepsState, KeepsFiring
  <2> HIDE DEF Cause
  <2> QED BY <2>1, <2>2, <2>3, RunsRecorded
<1>2. {j \in Ids : runs[j].followed}' = {j \in Ids : runs[j].followed}
  BY DEF KeepsState, KeepsFiring, BecomesRun
<1> QED BY <1>1, <1>2 DEF AbstractStep, Abstract!Next, Abstract!Fire

LEMMA RunRepeats ==
  ASSUME TypeOK, TypeOK', NEW i \in Ids, NEW n \in Ids, i # n, BecomesRun(n, i),
         runs'[n].status = "queued", runs'[n].event = runs[i].event,
         runs[i].status \in {"running", "interrupted"}, KeepsFiring(i), runs'[i].status \in Final,
         \A j \in Ids \ {i, n} : KeepsState(j),
         \A k \in Ids : Cause(runs[k]) # i
  PROVE  AbstractStep
<1>1. Becomes(i) = "ended" BY DEF Becomes, AbstractOf, Final
<1>2. Abstract!Record({n}, i, {i}, "ended")
  <2>1. {n} \in SUBSET Ids /\ {i} \in SUBSET Ids /\ {n} \cap {i} = {} OBVIOUS
  <2>2. \A j \in {n} : BecomesRun(j, i) OBVIOUS
  <2>3. \A j \in {i} : runs'[j].event = runs[j].event /\ Cause(runs'[j]) = Cause(runs[j])
                         /\ Becomes(j) = "ended"
    BY <1>1 DEF KeepsFiring
  <2>4. \A j \in Ids \ ({n} \cup {i}) :
          runs'[j].event = runs[j].event /\ Cause(runs'[j]) = Cause(runs[j])
            /\ Becomes(j) = AbstractOf(runs[j].status)
    BY DEF KeepsState, KeepsFiring
  <2> HIDE DEF Cause
  <2> QED BY <2>1, <2>2, <2>3, <2>4, RunsRecorded
<1>3. {j \in Ids : runs[j].followed}' = {j \in Ids : runs[j].followed}
  BY DEF KeepsState, KeepsFiring, BecomesRun
<1>4. RunQueueState'[n] = "waiting" /\ RunQueueState[i] \in {"executing", "cut"}
  BY StatesOf DEF Becomes, AbstractOf
<1>5. Abstract!Repeat(i) BY <1>2, <1>3, <1>4 DEF Abstract!Repeat
<1> QED BY <1>5 DEF AbstractStep, Abstract!Next

LEMMA RunHanded ==
  ASSUME TypeOK, TypeOK', NEW i \in Ids, NEW New \in SUBSET (Ids \ {i}),
         \A j \in New : BecomesRun(j, i),
         runs[i].status \in Final, ~runs[i].followed,
         runs'[i] = [runs[i] EXCEPT !.followed = TRUE],
         \A j \in Ids \ (New \cup {i}) : KeepsState(j)
  PROVE  AbstractStep
<1>0. /\ runs'[i].event = runs[i].event /\ runs'[i].retryOf = runs[i].retryOf
      /\ runs'[i].after = runs[i].after /\ runs'[i].status = runs[i].status /\ runs'[i].followed
  BY DEF TypeOK, Row
<1>1. Abstract!Record(New, i, {}, "ended")
  <2>1. New \in SUBSET Ids /\ {} \in SUBSET Ids /\ New \cap {} = {} OBVIOUS
  <2>2. \A j \in Ids \ (New \cup {}) :
          runs'[j].event = runs[j].event /\ Cause(runs'[j]) = Cause(runs[j])
            /\ Becomes(j) = AbstractOf(runs[j].status)
    BY <1>0 DEF KeepsState, KeepsFiring, Becomes
  <2> HIDE DEF Cause
  <2> QED BY <2>1, <2>2, RunsRecorded
<1>2. {j \in Ids : runs[j].followed}' = {j \in Ids : runs[j].followed} \cup {i}
  BY <1>0 DEF KeepsState, KeepsFiring, BecomesRun
<1>3. RunQueueState[i] = "ended" BY StatesOf DEF AbstractOf, Final
<1>4. Abstract!Hand(i) BY <1>1, <1>2, <1>3 DEF Abstract!Hand
<1> QED BY <1>4 DEF AbstractStep, Abstract!Next

-----------------------------------------------------------------------------
\* What the queue knows of ends

Over == Final \cup {"pruned"}

\* Only ends are handed to after triggers, and only they cause runs.
HandedEnded == \A j \in Ids : runs[j].followed => runs[j].status \in Over
CausesEnded ==
  \A j \in Ids : Cause(runs[j]) # 0 => Cause(runs[j]) \in Ids /\ runs[Cause(runs[j])].status \in Over

\* The batch of follow holds ends that were not handed.
FollowsEnded == loop = "follow" => \A j \in todo : runs[j].status \in Final /\ ~runs[j].followed

Ends == HandedEnded /\ CausesEnded /\ FollowsEnded

\* Every step of RunQueue keeps the first two.
LEMMA AbstractKeeps ==
  ASSUME TypeOK, TypeOK', HandedEnded, CausesEnded, AbstractStep PROVE HandedEnded' /\ CausesEnded'
<1> DEFINE state  == RunQueueState
           cause  == [j \in Ids |-> Cause(runs[j])]
           handed == {j \in Ids : runs[j].followed}
           over   == {j \in Ids : RunQueueState[j] \in {"ended", "deleted"}}
<1>1. /\ over  = {j \in Ids : runs[j].status \in Over}
      /\ over' = {j \in Ids : runs'[j].status \in Over}
  BY StatesOf, AbstractOfStatus DEF Over, TypeOK, Row, Becomes
<1>2. handed \subseteq over /\ \A j \in Ids : cause[j] # 0 => cause[j] \in over
  BY <1>1 DEF HandedEnded, CausesEnded
<1>3. /\ over \subseteq over' /\ handed' \subseteq handed \cup over
      /\ \A j \in Ids : cause'[j] = cause[j] \/ cause'[j] = 0 \/ cause'[j] \in over'
  <2>1. CASE Abstract!Fire BY <2>1 DEF Abstract!Fire, Abstract!Record
  <2>2. ASSUME NEW i \in Ids, Abstract!Begin(i) \/ Abstract!Cut(i) PROVE <1>3
    BY <2>2 DEF Abstract!Begin, Abstract!Cut, Abstract!Become
  <2>3. ASSUME NEW i \in Ids, Abstract!Repeat(i) PROVE <1>3
    BY <2>3 DEF Abstract!Repeat, Abstract!Record
  <2>4. ASSUME NEW i \in Ids, Abstract!Hand(i) PROVE <1>3
    BY <2>4 DEF Abstract!Hand, Abstract!Record
  <2>5. ASSUME NEW S \in SUBSET Ids, Abstract!End(S) \/ Abstract!Delete(S) PROVE <1>3
    BY <2>5 DEF Abstract!End, Abstract!Delete, Abstract!Become
  <2>6. CASE UNCHANGED Abstract!vars BY <2>6 DEF Abstract!vars
  <2> QED BY <2>1, <2>2, <2>3, <2>4, <2>5, <2>6 DEF AbstractStep, Abstract!Next
<1>4. handed' \subseteq over' /\ \A j \in Ids : cause'[j] # 0 => cause'[j] \in over'
  BY <1>2, <1>3
<1> QED BY <1>1, <1>4 DEF HandedEnded, CausesEnded

-----------------------------------------------------------------------------
\* Every step of the dispatcher is a step of RunQueue

\* An ID that was not given carries no mark.
LEMMA UnusedUnmarked ==
  ASSUME BInv, HandedEnded, NEW j \in Ids, j > lastId
  PROVE  runs[j].status = "absent" /\ ~runs[j].followed
BY DEF BInv, Backed, UnusedRows, HandedEnded, Over, Final

LEMMA InsertStep ==
  ASSUME BInv, TypeOK', HandedEnded, lastId < MaxRuns,
         NEW r \in Row, r.status = "queued", ~r.followed, r.retryOf = 0, r.after = 0,
         NEW max, runs' = Insert(runs, lastId + 1, r, max)
  PROVE  AbstractStep
<1> USE DEF BInv, IInv
<1>1. lastId \in Nat /\ lastId + 1 \in Ids BY NextIdType, RunsAssumption DEF TypeOK
<1>2. \A j \in Ids \ {lastId + 1} : KeepsState(j)
  BY <1>1, InsertKeeps DEF TypeOK, KeepsState, KeepsFiring, Becomes
<1>3. runs[lastId + 1].status = "absent" /\ ~runs[lastId + 1].followed BY <1>1, UnusedUnmarked
<1>4. BecomesRun(lastId + 1, 0) BY <1>1, <1>3 DEF BecomesRun, Insert, TypeOK, Row
<1> QED BY <1>1, <1>2, <1>4, RunFires

LEMMA CancelStep ==
  ASSUME BInv, TypeOK', NEW T \in SUBSET Ids, runs' = RequestCancel(runs, T) PROVE AbstractStep
<1> DEFINE S == {j \in T : runs[j].status = "queued"}
<1> USE DEF BInv, IInv
<1>1. \A j \in S : KeepsFiring(j) /\ runs'[j].status \in Final
  BY DEF RequestCancel, KeepsFiring, TypeOK, Row, Final
<1>2. \A j \in Ids \ S : KeepsFiring(j) /\ runs'[j].status = runs[j].status
  BY DEF RequestCancel, KeepsFiring, TypeOK, Row
<1>3. S \in SUBSET Ids /\ \A j \in S : runs[j].status = "queued" OBVIOUS
<1> HIDE DEF S
<1> QED BY <1>1, <1>2, <1>3, RunsEnd DEF KeepsState, Becomes

LEMMA OutsideStep == ASSUME BInv, TypeOK', HandedEnded, Outside PROVE AbstractStep
<1> USE DEF BInv, IInv
<1>1. ASSUME NEW e \in Events, NEW max, lastId < MaxRuns,
             runs' = Insert(runs, lastId + 1, NewRun(e, "fire", 0), max)
      PROVE  AbstractStep
  <2>1. NewRun(e, "fire", 0) \in Row BY NewRunType, NoRunType DEF Kind
  <2> QED BY <1>1, <2>1, InsertStep DEF NewRun
<1>2. ASSUME NEW e \in Events, Fire(e) PROVE AbstractStep
  BY <1>1, <1>2, RunsAssumption, DispatcherAssumption DEF Fire, TypeOK
<1>3. ASSUME NEW e \in Events, NEW wait \in BOOLEAN, Submit(e, wait) PROVE AbstractStep
  BY <1>1, <1>3, RunsAssumption, DispatcherAssumption DEF Submit, TypeOK
<1>4. ASSUME NEW e \in Events, CancelEvent(e) PROVE AbstractStep
  BY <1>4, CancelStep DEF CancelEvent, InStatus
<1>5. ASSUME NEW i \in Ids, CancelRun(i) PROVE AbstractStep
  <2>1. {i} \in SUBSET Ids OBVIOUS
  <2> QED BY <1>5, <2>1, CancelStep DEF CancelRun
<1>6. ASSUME NEW i \in Ids, BecomeDue(i) PROVE AbstractStep
  <2>1. \A j \in Ids : KeepsState(j)
    BY <1>6 DEF BecomeDue, KeepsState, KeepsFiring, Becomes, TypeOK, Row
  <2> QED BY <2>1, Stutters
<1>7. ASSUME LongDowntime PROVE AbstractStep
  <2>1. \A j \in Ids : KeepsState(j)
    BY <1>7 DEF LongDowntime, KeepsState, KeepsFiring, Becomes, TypeOK, Row
  <2> QED BY <2>1, Stutters
<1> QED BY <1>2, <1>3, <1>4, <1>5, <1>6, <1>7 DEF Outside

LEMMA FrameStep == ASSUME TypeOK, TypeOK', UNCHANGED runs PROVE AbstractStep
BY Stutters DEF KeepsState, KeepsFiring, Becomes

LEMMA RecoverStep ==
  ASSUME BInv, TypeOK', HandedEnded, CausesEnded, NEW i \in Ids, Recover(i) PROVE AbstractStep
<1> USE DEF BInv, IInv
<1>1. runs[i].status \in {"running", "interrupted"} BY RecoverFinds
<1>2. CASE lastId < MaxRuns /\ runs' = Retry(runs, i, lastId + 1)
  <2> DEFINE n == lastId + 1
  <2>1. lastId \in Nat /\ n \in Ids BY <1>2, NextIdType, RunsAssumption DEF TypeOK
  <2>2. runs[n].status = "absent" /\ ~runs[n].followed BY <2>1, UnusedUnmarked
  <2>3. i # n BY <1>1, <2>2
  <2>4. /\ runs'[n].status = "queued" /\ runs'[n].retryOf = i /\ ~runs'[n].followed
        /\ runs'[n].event = runs[i].event
    BY <1>2, <2>1, <2>3 DEF Retry, NewRun, TypeOK
  <2>5. /\ runs'[i].event = runs[i].event /\ runs'[i].retryOf = runs[i].retryOf
        /\ runs'[i].after = runs[i].after /\ runs'[i].followed = runs[i].followed
        /\ runs'[i].status = "retried"
    BY <1>2, <2>1, <2>3 DEF Retry, TypeOK, Row
  <2>6. \A j \in Ids \ {i, n} : runs'[j] = runs[j] BY <1>2, <2>1 DEF Retry, TypeOK
  <2>7. i # 0 BY DEF Ids
  <2>8. BecomesRun(n, i) BY <2>2, <2>4, <2>7 DEF BecomesRun
  <2>9. \A k \in Ids : Cause(runs[k]) # i BY <1>1, <2>7 DEF CausesEnded, Over, Final
  <2>10. \A j \in Ids \ {i, n} : KeepsState(j) BY <2>6 DEF KeepsState, KeepsFiring, Becomes
  <2>11. KeepsFiring(i) /\ runs'[i].status \in Final BY <2>5 DEF KeepsFiring, Final
  <2> HIDE DEF n
  <2> QED BY <1>1, <2>1, <2>3, <2>4, <2>8, <2>9, <2>10, <2>11, RunRepeats
<1>3. CASE runs' = Abandon(runs, i)
  <2>1. KeepsFiring(i) /\ runs'[i].status \in Final
    BY <1>3 DEF Abandon, KeepsFiring, TypeOK, Row, Final
  <2>2. \A j \in Ids \ {i} : KeepsState(j)
    BY <1>3 DEF Abandon, KeepsState, KeepsFiring, Becomes, TypeOK
  <2>3. {i} \in SUBSET Ids OBVIOUS
  <2> QED BY <1>1, <2>1, <2>2, <2>3, RunsEnd
<1> QED BY <1>2, <1>3 DEF Recover

LEMMA ProcessStep ==
  ASSUME BInv, TypeOK', HandedEnded, CausesEnded, Process PROVE AbstractStep
<1> USE DEF BInv, IInv
<1>1. CASE UNCHANGED runs BY <1>1, FrameStep
<1>2. ASSUME runs' = Prune(runs) PROVE AbstractStep
  <2> DEFINE S == {j \in Ids : runs[j].old /\ runs[j].status \in Final}
  <2>1. \A j \in S : KeepsFiring(j) /\ runs[j].status \in Final /\ runs'[j].status = "pruned"
    BY <1>2 DEF Prune, KeepsFiring, TypeOK, Row
  <2>2. \A j \in Ids \ S : KeepsState(j)
    BY <1>2 DEF Prune, KeepsState, KeepsFiring, Becomes, TypeOK
  <2> HIDE DEF S
  <2>3. S \in SUBSET Ids BY DEF S
  <2> QED BY <2>1, <2>2, <2>3, RunsDeleted
<1>3. CASE StartLoop BY <1>1, <1>2, <1>3 DEF StartLoop
<1> QED
  BY <1>1, <1>3, RecoverStep DEF Process, StartAgent, Configure, Stop, WaitReturns, StopLoop,
                                 ExitAgent, Crash, LoseMemory

LEMMA FollowStep ==
  ASSUME BInv, TypeOK', HandedEnded, FollowsEnded, NEW i \in Ids, FollowRun(i) PROVE AbstractStep
<1> DEFINE fired == Followers(i)
           n     == lastId + Cardinality(fired)
           max   == [e \in fired |-> QueueLimit(specs, e)]
<1> USE DEF BInv, IInv
<1>1. fired \subseteq Events BY DispatcherAssumption DEF TypeOK, Followers
<1>2. IsFiniteSet(fired) /\ Cardinality(fired) \in Nat
  BY <1>1, RunsAssumption, FS_Subset, FS_CardinalityType
<1>3. PICK slot \in [fired -> lastId + 1 .. n] : runs' = Follow(runs, i, slot, max)
  BY DEF FollowRun
<1>4. lastId \in Nat BY RunsAssumption DEF TypeOK
<1>5. runs[i].status \in Final /\ ~runs[i].followed BY DEF FollowRun, Oldest, FollowsEnded
<1> DEFINE New == {j \in Ids : \E e \in DOMAIN slot : slot[e] = j}
<1>6. ASSUME NEW j \in New PROVE BecomesRun(j, i)
  <2> DEFINE f == CHOOSE f \in DOMAIN slot : slot[f] = j
             r == NewRun(f, "after", i)
  <2>1. f \in DOMAIN slot /\ slot[f] = j OBVIOUS
  <2>2. f \in Events /\ i \in 0 .. MaxRuns BY <1>1, <2>1 DEF Ids
  <2>3. r \in Row /\ r.status = "queued" /\ ~r.followed /\ Cause(r) = i
    BY <2>2, NewRunType DEF Kind, NewRun
  <2>4. runs'[j] = Insert(runs, j, r, max[f])[j] BY <1>3 DEF Follow
  <2> HIDE DEF r
  <2>5. runs'[j].status \in {"queued", "dropped"} /\ ~runs'[j].followed /\ Cause(runs'[j]) = i
    BY <2>3, <2>4 DEF Insert, Row, TypeOK
  <2>6. j > lastId BY <1>2, <1>4, <2>1 DEF Ids
  <2> QED BY <2>5, <2>6, UnusedUnmarked DEF BecomesRun
<1>7. i \notin New BY <1>5, <1>6 DEF BecomesRun, Final
<1>8. runs'[i] = [runs[i] EXCEPT !.followed = TRUE] BY <1>3, <1>7 DEF Follow
<1>9. \A j \in Ids \ (New \cup {i}) : KeepsState(j)
  BY <1>3 DEF Follow, KeepsState, KeepsFiring, Becomes
<1>10. New \in SUBSET (Ids \ {i}) BY <1>7
<1> HIDE DEF New
<1> QED BY <1>5, <1>6, <1>8, <1>9, <1>10, RunHanded

\* A row that is settled or finished, or stays as it is.
LEMMA OneEnds ==
  ASSUME BInv, TypeOK', NEW i \in Ids, runs[i].status \in {"queued", "running", "interrupted"},
         KeepsFiring(i), runs'[i].status \in Final, \A j \in Ids \ {i} : runs'[j] = runs[j]
  PROVE  AbstractStep
<1> USE DEF BInv, IInv
<1>1. {i} \in SUBSET Ids OBVIOUS
<1>2. \A j \in Ids \ {i} : KeepsState(j) BY DEF KeepsState, KeepsFiring, Becomes
<1> QED BY <1>1, <1>2, RunsEnd

LEMMA FinishKeeps ==
  ASSUME TypeOK, NEW i \in Ids, NEW st, runs' = FinishRun(runs, i, st)
  PROVE  KeepsFiring(i) /\ runs'[i].status = st /\ \A j \in Ids \ {i} : runs'[j] = runs[j]
BY DEF FinishRun, KeepsFiring, TypeOK, Row

LEMMA CancelsStep == ASSUME BInv, TypeOK', NEW i \in Ids, ProcessCancel(i) PROVE AbstractStep
<1> USE DEF BInv, IInv
<1>1. runs[i].status \in {"running", "interrupted", "succeeded", "failed", "canceled"}
  BY DEF ProcessCancel, Oldest, Backed, CancelsStarted
<1>2. CASE runs' = FinishRun(runs, i, "canceled")
  <2>1. KeepsFiring(i) /\ runs'[i].status = "canceled" /\ \A j \in Ids \ {i} : runs'[j] = runs[j]
    BY <1>2, FinishKeeps
  <2>2. CASE runs[i].status \in {"running", "interrupted"}
    BY <2>1, <2>2, OneEnds DEF Final
  <2>3. CASE runs[i].status \in {"succeeded", "failed", "canceled"}
    <3>1. \A j \in Ids : KeepsState(j)
      BY <2>1, <2>3 DEF KeepsState, KeepsFiring, Becomes, AbstractOf
    <3> QED BY <3>1, Stutters
  <2> QED BY <1>1, <2>2, <2>3
<1> QED BY <1>2, FrameStep DEF ProcessCancel

LEMMA StartStep == ASSUME BInv, TypeOK', NEW i \in Ids, Start(i) PROVE AbstractStep
<1> USE DEF BInv, IInv
<1>1. CASE runs' = runs BY <1>1, FrameStep
<1>2. CASE runs' # runs
  <2>1. runs[i].status = "queued" /\ runs' = SetStatus(runs, i, "running")
    BY <1>2 DEF Start, StartRun
  <2>2. KeepsFiring(i) /\ runs'[i].status = "running"
    BY <2>1 DEF SetStatus, KeepsFiring, TypeOK, Row
  <2>3. \A j \in Ids \ {i} : KeepsState(j)
    BY <2>1 DEF SetStatus, KeepsState, KeepsFiring, Becomes, TypeOK
  <2>4. ASSUME Event(i) \in AlwaysExclusive, NEW j \in Ids, Event(j) = Event(i)
        PROVE  runs[j].status # "running"
    <3>1. Policy(Event(i)) # "parallel"
      BY <2>4 DEF Start, Startable, Defined, Policy, AlwaysExclusive, TypeOK
    <3>2. LiveRuns(Event(i)) = {} BY <3>1, StartIsExclusive
    <3>3. agent \notin {"down", "recovering"} BY DEF Start, AtRow, Control, IdleUntilUp
    <3> QED BY <2>4, <3>2, <3>3 DEF Backed, RowsAgree, LiveRuns, Event
  <2> QED BY <2>1, <2>2, <2>3, <2>4, RunBegins
<1> QED BY <1>1, <1>2

LEMMA SettleStep ==
  ASSUME BInv, TypeOK', NEW i \in Ids, NEW st \in {"skipped", "dropped"}, SettleRow(i, st)
  PROVE  AbstractStep
<1> USE DEF BInv, IInv
<1>1. CASE runs[i].status = "queued"
  <2>1. runs' = SetStatus(runs, i, st) BY <1>1 DEF SettleRow, Settle
  <2>2. KeepsFiring(i) /\ runs'[i].status \in Final
    BY <2>1 DEF SetStatus, KeepsFiring, TypeOK, Row, Final
  <2>3. \A j \in Ids \ {i} : runs'[j] = runs[j] BY <2>1 DEF SetStatus, TypeOK
  <2> QED BY <1>1, <2>2, <2>3, OneEnds
<1>2. CASE runs[i].status # "queued" BY <1>2, FrameStep DEF SettleRow, Settle
<1> QED BY <1>1, <1>2

LEMMA LoopStep ==
  ASSUME BInv, TypeOK', HandedEnded, FollowsEnded, Loop PROVE AbstractStep
<1> USE DEF BInv, IInv
<1>1. CASE UNCHANGED runs BY <1>1, FrameStep
<1>2. ASSUME NEW i \in Ids, HandleRow(i) PROVE AbstractStep
  BY <1>1, <1>2, SettleStep, StartStep
     DEF HandleRow, SettleReplaced, CheckRow, DropRow, SkipRow, KeepRow, ReplaceRun
<1> QED
  BY <1>1, <1>2, CancelsStep, FollowStep
     DEF Loop, Wake, Tick, ReadEnded, BeginScan, ReadQueued, EndStep

LEMMA RunStep ==
  ASSUME BInv, TypeOK', HandedEnded, NEW i \in Ids, Run(i) PROVE AbstractStep
<1> USE DEF BInv, IInv
<1>1. CASE RecordRun(i)
  <2>1. agent \notin {"down", "recovering"} BY <1>1 DEF RecordRun, Control, IdleUntilUp
  <2>2. runs[i].status = "running" BY <1>1, <2>1 DEF RecordRun, Backed, RowsAgree
  <2>3. out[i] \in {"succeeded", "failed", "canceled", "interrupted"}
    BY <1>1 DEF RecordRun, Counting, ExitedHasOutcome, TypeOK, Outcome
  <2>4. KeepsFiring(i) /\ runs'[i].status = out[i] /\ \A j \in Ids \ {i} : runs'[j] = runs[j]
    BY <1>1, FinishKeeps DEF RecordRun
  <2>5. CASE out[i] = "interrupted"
    <3>1. \A j \in Ids \ {i} : KeepsState(j) BY <2>4 DEF KeepsState, KeepsFiring, Becomes
    <3> QED BY <2>2, <2>4, <2>5, <3>1, RunCut
  <2>6. CASE out[i] # "interrupted" BY <2>2, <2>3, <2>4, <2>6, OneEnds DEF Final
  <2> QED BY <2>5, <2>6
<1>2. CASE EnqueueRestart(i)
  <2> DEFINE r == Delayed(NewRun(Event(i), "restart", 0))
  <2>1. PICK c \in Known : runs' = Insert(runs, lastId + 1, r, QueueLimit(c, Event(i)))
    BY <1>2 DEF EnqueueRestart
  <2>2. NewRun(Event(i), "restart", 0) \in Row BY NewRunType, NoRunType, EventType DEF Kind
  <2>3. r \in Row BY <2>2 DEF Delayed, Row
  <2>4. r.status = "queued" /\ ~r.followed /\ r.retryOf = 0 /\ r.after = 0
    BY DEF Delayed, NewRun
  <2>5. lastId < MaxRuns BY <1>2 DEF EnqueueRestart
  <2> HIDE DEF r
  <2> QED BY <2>1, <2>3, <2>4, <2>5, InsertStep
<1>3. CASE UNCHANGED runs BY <1>3, FrameStep
<1> QED BY <1>1, <1>2, <1>3 DEF Run, CommandEnds, ReleaseRun, EndRun

LEMMA NextStep ==
  ASSUME BInv, TypeOK', HandedEnded, CausesEnded, FollowsEnded, [Next]_vars PROVE AbstractStep
<1> USE DEF BInv, IInv
<1>1. CASE UNCHANGED vars BY <1>1, FrameStep DEF vars
<1> QED BY <1>1, OutsideStep, ProcessStep, LoopStep, RunStep DEF Next

\* A run that ended stays so, unmarked, while follow has it in its batch.
EndsStay == \A j \in Ids : runs[j].status \in Final /\ ~runs[j].followed
                             => runs'[j].status \in Final /\ ~runs'[j].followed

LEMMA InsertStays ==
  ASSUME BInv, lastId < MaxRuns, NEW r \in Row, NEW max, runs' = Insert(runs, lastId + 1, r, max)
  PROVE  EndsStay
<1> USE DEF BInv, IInv
<1>1. lastId \in Nat /\ lastId + 1 \in Ids BY NextIdType, RunsAssumption DEF TypeOK
<1>2. \A j \in Ids \ {lastId + 1} : runs'[j] = runs[j] BY <1>1, InsertKeeps DEF TypeOK
<1>3. runs[lastId + 1].status \notin Final BY <1>1 DEF Backed, UnusedRows, Final
<1> QED BY <1>2, <1>3 DEF EndsStay

LEMMA OutsideStays == ASSUME BInv, Outside PROVE EndsStay
<1> USE DEF BInv, IInv
<1>1. ASSUME NEW e \in Events, NEW max, lastId < MaxRuns,
             runs' = Insert(runs, lastId + 1, NewRun(e, "fire", 0), max)
      PROVE  EndsStay
  <2>1. NewRun(e, "fire", 0) \in Row BY NewRunType, NoRunType DEF Kind
  <2> QED BY <1>1, <2>1, InsertStays
<1>2. ASSUME NEW e \in Events, Fire(e) PROVE EndsStay
  BY <1>1, <1>2, RunsAssumption, DispatcherAssumption DEF Fire, TypeOK
<1>3. ASSUME NEW e \in Events, NEW wait \in BOOLEAN, Submit(e, wait) PROVE EndsStay
  BY <1>1, <1>3, RunsAssumption, DispatcherAssumption DEF Submit, TypeOK
<1>4. ASSUME NEW T, runs' = RequestCancel(runs, T) PROVE EndsStay
  BY <1>4 DEF RequestCancel, EndsStay, Final
<1>5. ASSUME NEW i \in Ids, BecomeDue(i) PROVE EndsStay
  BY <1>5 DEF BecomeDue, EndsStay, TypeOK, Row
<1>6. ASSUME LongDowntime PROVE EndsStay BY <1>6 DEF LongDowntime, EndsStay, TypeOK, Row
<1> QED BY <1>2, <1>3, <1>4, <1>5, <1>6 DEF Outside, CancelEvent, CancelRun

LEMMA RunStays == ASSUME BInv, NEW i \in Ids, Run(i) PROVE EndsStay
<1> USE DEF BInv, IInv
<1>1. CASE RecordRun(i)
  <2>1. agent \notin {"down", "recovering"} BY <1>1 DEF RecordRun, Control, IdleUntilUp
  <2>2. runs[i].status = "running" BY <1>1, <2>1 DEF RecordRun, Backed, RowsAgree
  <2>3. \A j \in Ids \ {i} : runs'[j] = runs[j] BY <1>1, FinishKeeps DEF RecordRun
  <2> QED BY <2>2, <2>3 DEF EndsStay, Final
<1>2. CASE EnqueueRestart(i)
  <2> DEFINE r == Delayed(NewRun(Event(i), "restart", 0))
  <2>1. PICK c \in Known : runs' = Insert(runs, lastId + 1, r, QueueLimit(c, Event(i)))
    BY <1>2 DEF EnqueueRestart
  <2>2. NewRun(Event(i), "restart", 0) \in Row BY NewRunType, NoRunType, EventType DEF Kind
  <2>3. r \in Row BY <2>2 DEF Delayed, Row
  <2>4. lastId < MaxRuns BY <1>2 DEF EnqueueRestart
  <2> HIDE DEF r
  <2> QED BY <2>1, <2>3, <2>4, InsertStays
<1>3. CASE UNCHANGED runs BY <1>3 DEF EndsStay
<1> QED BY <1>1, <1>2, <1>3 DEF Run, CommandEnds, ReleaseRun, EndRun

LEMMA BatchEnded == ASSUME BInv, FollowsEnded, [Next]_vars PROVE FollowsEnded'
<1> USE DEF BInv, IInv
<1>1. ASSUME EndsStay, UNCHANGED <<loop, todo>> PROVE FollowsEnded'
  BY <1>1 DEF FollowsEnded, EndsStay, TypeOK
<1>2. CASE Outside
  <2>1. UNCHANGED <<loop, todo>>
    BY <1>2 DEF Outside, Fire, CancelEvent, CancelRun, BecomeDue, Submit, LongDowntime
  <2> QED BY <1>1, <1>2, <2>1, OutsideStays
<1>3. ASSUME NEW i \in Ids, Run(i) PROVE FollowsEnded'
  <2>1. UNCHANGED <<loop, todo>>
    BY <1>3 DEF Run, CommandEnds, RecordRun, ReleaseRun, EnqueueRestart, EndRun
  <2> QED BY <1>1, <1>3, <2>1, RunStays
<1>4. ASSUME UNCHANGED <<runs, loop, todo>> PROVE FollowsEnded' BY <1>1, <1>4 DEF EndsStay
<1>5. CASE loop' # "follow" BY <1>5 DEF FollowsEnded
<1>6. CASE Process
  BY <1>4, <1>5, <1>6 DEF Process, StartAgent, Configure, Recover, StartLoop, Stop, WaitReturns,
                          StopLoop, ExitAgent, Crash, LoseMemory
<1>7. ASSUME NEW i \in Ids, FollowRun(i) PROVE FollowsEnded'
  <2>1. loop = "follow" /\ todo' \subseteq todo \ {i} BY <1>7 DEF FollowRun
  <2>2. \A j \in todo' : j \in Ids \ {i} /\ runs[j].status \in Final /\ ~runs[j].followed
    BY <2>1 DEF FollowsEnded, TypeOK
  <2>3. \A j \in todo' : Settles(runs, runs', j)
    BY <1>7, <2>2, FollowRunQuiet DEF QuietStep, RowsSettle, Inserted, Backed, UnusedRows, Final
  <2>4. \A j \in todo' : runs'[j].status \in Final BY <2>2, <2>3 DEF Settles, Final
  <2>5. ASSUME NEW j \in Ids, j # i, j <= lastId PROVE runs'[j].followed = runs[j].followed
    <3> DEFINE ids == lastId + 1 .. lastId + Cardinality(Followers(i))
               max == [e \in Followers(i) |-> QueueLimit(specs, e)]
    <3>1. PICK slot \in [Followers(i) -> ids] : runs' = Follow(runs, i, slot, max)
      BY <1>7 DEF FollowRun
    <3>2. \A k \in ids : k # j BY <2>5, RunsAssumption DEF TypeOK, Ids
    <3>3. ~ \E e \in DOMAIN slot : slot[e] = j BY <3>2
    <3> QED BY <2>5, <3>1, <3>3 DEF Follow
  <2>6. ASSUME NEW j \in todo' PROVE j <= lastId
    <3>1. ~(j > lastId) BY <2>2 DEF Backed, UnusedRows, Final
    <3>2. j \in Nat /\ lastId \in Nat BY <2>2, RunsAssumption DEF Ids, TypeOK
    <3> QED BY <3>1, <3>2
  <2> QED BY <2>2, <2>4, <2>5, <2>6 DEF FollowsEnded
<1>8. CASE ReadEnded
  BY <1>8 DEF ReadEnded, FollowsEnded, UnfollowedRuns, Oldest, InStatus
<1>9. ASSUME NEW i \in Ids, ProcessCancel(i) \/ HandleRow(i) PROVE loop' # "follow"
  BY <1>9 DEF ProcessCancel, HandleRow, SettleReplaced, CheckRow, DropRow, SkipRow, KeepRow,
              ReplaceRun, Start, AtRow, RowDone
<1>10. CASE Loop
  BY <1>5, <1>7, <1>8, <1>9, <1>10 DEF Loop, Wake, Tick, BeginStep, BeginScan, ReadQueued, EndStep
<1>11. CASE UNCHANGED vars BY <1>4, <1>11 DEF vars
<1> QED BY <1>2, <1>3, <1>6, <1>10, <1>11 DEF Next

LEMMA InitEnds == ASSUME Init PROVE Ends
<1>1. \A j \in Ids : runs[j].status = "absent" /\ ~runs[j].followed /\ Cause(runs[j]) = 0
  BY DEF Init, EmptyTable, NewRun
<1> QED BY <1>1 DEF Init, Ends, HandedEnded, CausesEnded, FollowsEnded

LEMMA NextEnds == ASSUME BInv, BInv', Ends, [Next]_vars PROVE Ends' /\ AbstractStep
<1>1. TypeOK /\ TypeOK' BY DEF BInv, IInv
<1>2. AbstractStep BY <1>1, NextStep DEF Ends
<1>3. HandedEnded' /\ CausesEnded' BY <1>1, <1>2, AbstractKeeps DEF Ends
<1>4. FollowsEnded' BY BatchEnded DEF Ends
<1> QED BY <1>2, <1>3, <1>4 DEF Ends

LEMMA AbstractStart == ASSUME Init PROVE Abstract!Init
<1>1. TypeOK BY InitIInv DEF IInv
<1>2. \A j \in Ids : runs[j].status = "absent" /\ ~runs[j].followed /\ Cause(runs[j]) = 0
  BY DEF Init, EmptyTable, NewRun
<1>3. RunQueueState = [j \in Ids |-> "unused"] BY <1>2 DEF RunQueueState
<1>4. \A j \in Ids : runs[j].event \in Events BY <1>1 DEF TypeOK, Row
<1> QED BY <1>2, <1>3, <1>4 DEF Abstract!Init

\* In every state, only a run that is over was handed to after triggers or caused
\* another run, and the batch of follow holds ends that were not handed yet (follow,
\* Recover, processCancels).
THEOREM OnlyEndsAreHanded == Spec => []Ends
<1>1. Init => Ends BY InitEnds
<1>2. BInv /\ BInv' /\ Ends /\ [Next]_vars => Ends' BY NextEnds
<1> QED BY <1>1, <1>2, BackedInvariant, PTL DEF Spec

\* The dispatcher, the subcommands, reloads, stops and crashes implement RunQueue: a
\* run that was recorded waits, executes and ends in that order and each at most once,
\* an exclusive event executes one run at a time, and a run that was cut off is
\* repeated at most once.
THEOREM DispatcherRefines == Spec => ImplementsRunQueue
<1>1. Init => Abstract!Init BY AbstractStart
<1>2. BInv /\ BInv' /\ Ends /\ [Next]_vars => [Abstract!Next]_(Abstract!vars)
  BY NextEnds DEF AbstractStep
<1> QED BY <1>1, <1>2, BackedInvariant, OnlyEndsAreHanded, PTL
        DEF Spec, ImplementsRunQueue, Abstract!Spec

-----------------------------------------------------------------------------
\* What the end of a run fires

\* No reload and no new process changes the after triggers.
FollowsStay ==
  \A c, d \in Configs :
    DOMAIN c = DOMAIN d /\ \A e \in DOMAIN c : c[e].follows = d[e].follows

FiredOnce == \A i \in Ids, e \in Events : \A j, k \in FiredBy(i, e) : j = k

CauseHanded ==
  \A j \in Ids : runs[j].after # 0 => runs[j].after \in Ids /\ runs[runs[j].after].followed

\* processCancels changes no row that was handed.
CancelsUnhanded == loop = "cancels" => \A j \in todo : ~runs[j].followed

Handing == FiredOnce /\ CauseHanded /\ CancelsUnhanded

\* What was fired is what the definitions say.
FiredFits ==
  \A i \in Ids, c \in Configs : \A e \in DOMAIN c :
    runs[i].followed /\ runs[i].status # "pruned" =>
      (FiredBy(i, e) # {} <=> runs[i].status \in c[e].follows[runs[i].event])

\* Row j is the same firing, and if it was handed, it stays as it ended.
Stays(t, u, j) ==
  /\ u[j].event = t[j].event /\ u[j].kind = t[j].kind
  /\ u[j].after = t[j].after /\ u[j].retryOf = t[j].retryOf
  /\ u[j].followed = t[j].followed
  /\ t[j].followed => u[j].status \in {t[j].status, "pruned"}
  /\ u[j].status = "absent" <=> t[j].status = "absent"

\* Row j is new, and no firing of an after trigger, or another attempt at one.
NotFired(j) ==
  /\ runs[j].status = "absent" /\ runs'[j].status # "absent" /\ ~runs'[j].followed
  /\ runs'[j].retryOf # 0 \/ runs'[j].kind # "after"
  /\ runs'[j].after # 0 => runs'[j].after \in Ids /\ runs[runs'[j].after].followed

NoHanding == \A j \in Ids : Stays(runs, runs', j) \/ NotFired(j)

LEMMA StatementsStay ==
  ASSUME NEW t \in [Ids -> Row], \A k \in Ids : t[k].followed => t[k].status \in Over,
         NEW i \in Ids, NEW S, NEW j \in Ids
  PROVE  /\ Stays(t, t, j)
         /\ \A st \in {"skipped", "dropped"} : Stays(t, Settle(t, i, st), j)
         /\ Stays(t, StartRun(t, i), j)
         /\ Stays(t, RequestCancel(t, S), j)
         /\ Stays(t, Prune(t), j)
BY DEF Stays, Over, Final, SetStatus, Settle, StartRun, RequestCancel, Prune, Row

LEMMA OutcomesStay ==
  ASSUME NEW t \in [Ids -> Row], NEW i \in Ids, ~t[i].followed, t[i].status # "absent",
         NEW st \in {"succeeded", "failed", "canceled", "interrupted"}, NEW j \in Ids
  PROVE  Stays(t, FinishRun(t, i, st), j) /\ Stays(t, Abandon(t, i), j)
BY DEF Stays, FinishRun, Abandon, Row

LEMMA InsertNoHanding ==
  ASSUME BInv, lastId < MaxRuns, NEW r \in Row, r.status = "queued", ~r.followed, r.after = 0,
         r.kind # "after", NEW max, runs' = Insert(runs, lastId + 1, r, max)
  PROVE  NoHanding
<1> USE DEF BInv, IInv
<1>1. lastId \in Nat /\ lastId + 1 \in Ids BY NextIdType, RunsAssumption DEF TypeOK
<1>2. \A j \in Ids \ {lastId + 1} : runs'[j] = runs[j] BY <1>1, InsertKeeps DEF TypeOK
<1>3. runs[lastId + 1].status = "absent" BY <1>1 DEF Backed, UnusedRows
<1>4. NotFired(lastId + 1) BY <1>1, <1>3 DEF NotFired, Insert, TypeOK, Row
<1> QED BY <1>2, <1>4 DEF NoHanding, Stays

LEMMA OutsideNoHanding == ASSUME BInv, HandedEnded, Outside PROVE NoHanding
<1> USE DEF BInv, IInv
<1>1. ASSUME NEW e \in Events, NEW max, lastId < MaxRuns,
             runs' = Insert(runs, lastId + 1, NewRun(e, "fire", 0), max)
      PROVE  NoHanding
  <2>1. NewRun(e, "fire", 0) \in Row BY NewRunType, NoRunType DEF Kind
  <2> QED BY <1>1, <2>1, InsertNoHanding DEF NewRun
<1>2. ASSUME NEW e \in Events, Fire(e) PROVE NoHanding
  BY <1>1, <1>2, RunsAssumption, DispatcherAssumption DEF Fire, TypeOK
<1>3. ASSUME NEW e \in Events, NEW wait \in BOOLEAN, Submit(e, wait) PROVE NoHanding
  BY <1>1, <1>3, RunsAssumption, DispatcherAssumption DEF Submit, TypeOK
<1>4. ASSUME NEW e \in Events, CancelEvent(e) PROVE NoHanding
  BY <1>4, StatementsStay DEF CancelEvent, TypeOK, NoHanding, HandedEnded
<1>5. ASSUME NEW i \in Ids, CancelRun(i) PROVE NoHanding
  BY <1>5, StatementsStay DEF CancelRun, TypeOK, NoHanding, HandedEnded
<1>6. ASSUME NEW i \in Ids, BecomeDue(i) PROVE NoHanding
  BY <1>6 DEF BecomeDue, NoHanding, Stays, TypeOK, Row
<1>7. ASSUME LongDowntime PROVE NoHanding
  BY <1>7 DEF LongDowntime, NoHanding, Stays, TypeOK, Row
<1> QED BY <1>2, <1>3, <1>4, <1>5, <1>6, <1>7 DEF Outside

LEMMA FrameNoHanding == ASSUME UNCHANGED runs PROVE NoHanding
BY DEF NoHanding, Stays

LEMMA RecoverNoHanding ==
  ASSUME BInv, HandedEnded, CauseHanded, NEW i \in Ids, Recover(i) PROVE NoHanding
<1> USE DEF BInv, IInv
<1>1. runs[i].status \in {"running", "interrupted"} BY RecoverFinds
<1>2. ~runs[i].followed BY <1>1 DEF HandedEnded, Over, Final
<1>3. CASE lastId < MaxRuns /\ runs' = Retry(runs, i, lastId + 1)
  <2> DEFINE n == lastId + 1
  <2>1. lastId \in Nat /\ n \in Ids BY <1>3, NextIdType, RunsAssumption DEF TypeOK
  <2>2. runs[n].status = "absent" BY <2>1 DEF Backed, UnusedRows
  <2>3. i # n BY <1>1, <2>2
  <2>4. /\ runs'[n].status = "queued" /\ runs'[n].retryOf = i /\ ~runs'[n].followed
        /\ runs'[n].after = runs[i].after
    BY <1>3, <2>1, <2>3 DEF Retry, NewRun, TypeOK
  <2>5. NotFired(n) BY <2>2, <2>4 DEF NotFired, CauseHanded, Ids
  <2>6. Stays(runs, runs', i)
    BY <1>1, <1>2, <1>3, <2>1, <2>3 DEF Retry, Stays, TypeOK, Row
  <2>7. \A j \in Ids \ {i, n} : runs'[j] = runs[j] BY <1>3, <2>1 DEF Retry, TypeOK
  <2> QED BY <2>5, <2>6, <2>7 DEF NoHanding, Stays
<1>4. CASE runs' = Abandon(runs, i)
  <2>1. \A j \in Ids : Stays(runs, Abandon(runs, i), j) BY <1>1, <1>2, OutcomesStay DEF TypeOK
  <2> QED BY <1>4, <2>1 DEF NoHanding
<1> QED BY <1>3, <1>4 DEF Recover

LEMMA ProcessNoHanding == ASSUME BInv, HandedEnded, CauseHanded, Process PROVE NoHanding
<1> USE DEF BInv, IInv
<1>1. CASE StartLoop
  BY <1>1, StatementsStay DEF StartLoop, TypeOK, NoHanding, HandedEnded
<1> QED
  BY <1>1, FrameNoHanding, RecoverNoHanding
     DEF Process, StartAgent, Configure, Stop, WaitReturns, StopLoop, ExitAgent, Crash, LoseMemory

LEMMA LoopNoHanding ==
  ASSUME BInv, HandedEnded, CancelsUnhanded, Loop
  PROVE  NoHanding \/ \E i \in Ids : FollowRun(i)
<1> USE DEF BInv, IInv
<1>1. ASSUME NEW i \in Ids, ProcessCancel(i) PROVE NoHanding
  <2>1. ~runs[i].followed /\ runs[i].status # "absent"
    BY <1>1 DEF ProcessCancel, Oldest, CancelsUnhanded, Backed, CancelsStarted
  <2>2. \A j \in Ids : Stays(runs, FinishRun(runs, i, "canceled"), j)
    BY <2>1, OutcomesStay DEF TypeOK
  <2> QED BY <1>1, <2>2, FrameNoHanding DEF ProcessCancel, NoHanding
<1>2. ASSUME NEW i \in Ids, HandleRow(i) PROVE NoHanding
  <2>1. ASSUME NEW st \in {"skipped", "dropped"}, SettleRow(i, st) PROVE NoHanding
    BY <2>1, StatementsStay DEF SettleRow, TypeOK, NoHanding, HandedEnded
  <2>2. CASE Start(i)
    BY <2>2, StatementsStay DEF Start, TypeOK, NoHanding, HandedEnded
  <2> QED BY <1>2, <2>1, <2>2, FrameNoHanding
          DEF HandleRow, SettleReplaced, CheckRow, DropRow, SkipRow, KeepRow, ReplaceRun
<1> QED
  BY <1>1, <1>2, FrameNoHanding
     DEF Loop, Wake, Tick, ReadEnded, BeginScan, ReadQueued, EndStep

LEMMA RunNoHanding == ASSUME BInv, HandedEnded, NEW i \in Ids, Run(i) PROVE NoHanding
<1> USE DEF BInv, IInv
<1>1. CASE RecordRun(i)
  <2>1. agent \notin {"down", "recovering"} BY <1>1 DEF RecordRun, Control, IdleUntilUp
  <2>2. runs[i].status = "running" BY <1>1, <2>1 DEF RecordRun, Backed, RowsAgree
  <2>3. ~runs[i].followed BY <2>2 DEF HandedEnded, Over, Final
  <2>4. out[i] \in {"succeeded", "failed", "canceled", "interrupted"}
    BY <1>1 DEF RecordRun, Counting, ExitedHasOutcome, TypeOK, Outcome
  <2>5. \A j \in Ids : Stays(runs, FinishRun(runs, i, out[i]), j)
    BY <2>2, <2>3, <2>4, OutcomesStay DEF TypeOK
  <2> QED BY <1>1, <2>5 DEF RecordRun, NoHanding
<1>2. CASE EnqueueRestart(i)
  <2> DEFINE r == Delayed(NewRun(Event(i), "restart", 0))
  <2>1. PICK c \in Known : runs' = Insert(runs, lastId + 1, r, QueueLimit(c, Event(i)))
    BY <1>2 DEF EnqueueRestart
  <2>2. NewRun(Event(i), "restart", 0) \in Row BY NewRunType, NoRunType, EventType DEF Kind
  <2>3. r \in Row BY <2>2 DEF Delayed, Row
  <2>4. r.status = "queued" /\ ~r.followed /\ r.kind # "after" /\ r.after = 0
    BY DEF Delayed, NewRun
  <2>5. lastId < MaxRuns BY <1>2 DEF EnqueueRestart
  <2> HIDE DEF r
  <2> QED BY <2>1, <2>3, <2>4, <2>5, InsertNoHanding
<1> QED BY <1>1, <1>2, FrameNoHanding DEF Run, CommandEnds, ReleaseRun, EndRun

LEMMA StepNoHanding ==
  ASSUME BInv, HandedEnded, CauseHanded, CancelsUnhanded, [Next]_vars
  PROVE  NoHanding \/ \E i \in Ids : FollowRun(i)
<1>1. CASE UNCHANGED vars BY <1>1, FrameNoHanding DEF vars
<1> QED BY <1>1, OutsideNoHanding, ProcessNoHanding, LoopNoHanding, RunNoHanding DEF Next

\* A step that hands nothing over fires nothing.
LEMMA FiredSame ==
  ASSUME NoHanding, NEW i \in Ids, NEW e \in Events PROVE FiredBy(i, e)' = FiredBy(i, e)
BY DEF NoHanding, Stays, NotFired, FiredBy

\* The step that hands the end of i over.
LEMMA FollowFires ==
  ASSUME BInv, CauseHanded, FollowsEnded, NEW i \in Ids, FollowRun(i)
  PROVE  /\ runs'[i] = [runs[i] EXCEPT !.followed = TRUE]
         /\ runs[i].status \in Final /\ ~runs[i].followed
         /\ \A j \in Ids \ {i} :
              \/ runs'[j] = runs[j]
              \/ runs[j].status = "absent" /\ runs'[j].after = i /\ ~runs'[j].followed
         /\ \A e \in Events :
              /\ \A j, k \in FiredBy(i, e)' : j = k
              /\ FiredBy(i, e)' # {} <=> e \in Followers(i)
<1> DEFINE fired == Followers(i)
           n     == lastId + Cardinality(fired)
           max   == [e \in fired |-> QueueLimit(specs, e)]
<1> USE DEF BInv, IInv
<1>1. fired \subseteq Events BY DispatcherAssumption DEF TypeOK, Followers
<1>2. IsFiniteSet(fired) /\ Cardinality(fired) \in Nat
  BY <1>1, RunsAssumption, FS_Subset, FS_CardinalityType
<1>3. PICK slot \in [fired -> lastId + 1 .. n] :
        /\ \A e, f \in fired : slot[e] = slot[f] => e = f
        /\ runs' = Follow(runs, i, slot, max)
  BY DEF FollowRun
<1>4. lastId \in Nat /\ n <= MaxRuns BY RunsAssumption DEF TypeOK, FollowRun
<1>5. runs[i].status \in Final /\ ~runs[i].followed BY DEF FollowRun, Oldest, FollowsEnded
<1>6. ASSUME NEW e \in fired PROVE slot[e] \in Ids /\ slot[e] > lastId
  <2>1. slot[e] \in lastId + 1 .. n BY <1>3
  <2>2. n \in Nat BY <1>2, <1>4
  <2> HIDE DEF n
  <2> QED BY <1>4, <2>1, <2>2, RunsAssumption DEF Ids
<1>7. \A e \in fired : runs[slot[e]].status = "absent" BY <1>6 DEF Backed, UnusedRows
<1>8. ASSUME NEW e \in fired
      PROVE  /\ runs'[slot[e]].event = e /\ runs'[slot[e]].kind = "after"
             /\ runs'[slot[e]].after = i /\ runs'[slot[e]].retryOf = 0
             /\ ~runs'[slot[e]].followed /\ runs'[slot[e]].status # "absent"
  <2> DEFINE r == NewRun(e, "after", i)
  <2>1. (CHOOSE f \in DOMAIN slot : slot[f] = slot[e]) = e BY <1>3
  <2>2. runs'[slot[e]] = Insert(runs, slot[e], r, max[e])[slot[e]]
    BY <1>3, <1>6, <2>1 DEF Follow
  <2>3. e \in Events /\ i \in 0 .. MaxRuns BY <1>1 DEF Ids
  <2>4. /\ r \in Row /\ r.event = e /\ r.kind = "after" /\ r.after = i /\ r.retryOf = 0
        /\ ~r.followed /\ r.status = "queued"
    BY <2>3, NewRunType DEF Kind, NewRun
  <2> HIDE DEF r
  <2> QED BY <1>6, <2>2, <2>4 DEF Insert, TypeOK, Row
<1>9. \A j \in Ids : (\A e \in fired : slot[e] # j) /\ j # i => runs'[j] = runs[j]
  BY <1>3 DEF Follow
<1>10. \A e \in fired : slot[e] # i BY <1>5, <1>7 DEF Final
<1>11. runs'[i] = [runs[i] EXCEPT !.followed = TRUE] BY <1>3, <1>10 DEF Follow
<1>12. \A j \in Ids : runs[j].after # i BY <1>5 DEF CauseHanded, Ids
<1>13. runs'[i].after # i BY <1>11, <1>12 DEF TypeOK, Row
<1>14. ASSUME NEW e \in Events PROVE FiredBy(i, e)' = {slot[f] : f \in fired \cap {e}}
  <2>1. ASSUME NEW j \in Ids, runs'[j].after = i, runs'[j].event = e
        PROVE  e \in fired /\ j = slot[e]
    <3>1. PICK f \in fired : slot[f] = j BY <1>9, <1>12, <1>13, <2>1
    <3> QED BY <1>8, <2>1, <3>1
  <2>2. e \in fired => slot[e] \in FiredBy(i, e)' BY <1>6, <1>8 DEF FiredBy
  <2> QED BY <2>1, <2>2 DEF FiredBy
<1>15. \A j \in Ids \ {i} :
         \/ runs'[j] = runs[j]
         \/ runs[j].status = "absent" /\ runs'[j].after = i /\ ~runs'[j].followed
  BY <1>7, <1>8, <1>9
<1> QED BY <1>5, <1>11, <1>14, <1>15

LEMMA OthersFiredSame ==
  ASSUME BInv, CauseHanded, FollowsEnded, NEW i \in Ids, FollowRun(i), NEW k \in Ids \ {i},
         NEW e \in Events
  PROVE  FiredBy(k, e)' = FiredBy(k, e)
<1>1. runs'[i] = [runs[i] EXCEPT !.followed = TRUE] BY FollowFires
<1>2. /\ runs'[i].status = runs[i].status /\ runs'[i].kind = runs[i].kind
      /\ runs'[i].after = runs[i].after /\ runs'[i].retryOf = runs[i].retryOf
      /\ runs'[i].event = runs[i].event
  BY <1>1 DEF BInv, IInv, TypeOK, Row
<1>3. ASSUME NEW j \in Ids PROVE j \in FiredBy(k, e)' <=> j \in FiredBy(k, e)
  <2>1. CASE j = i BY <1>2, <2>1 DEF FiredBy
  <2>2. CASE runs'[j] = runs[j] BY <2>2 DEF FiredBy
  <2>3. CASE runs[j].status = "absent" /\ runs'[j].after = i BY <2>3 DEF FiredBy
  <2>4. j = i \/ runs'[j] = runs[j] \/ (runs[j].status = "absent" /\ runs'[j].after = i)
    BY FollowFires
  <2> QED BY <2>1, <2>2, <2>3, <2>4
<1> QED BY <1>3 DEF FiredBy

\* What step reads of the requests.
LEMMA CancelsRead ==
  ASSUME BInv, [Next]_vars, loop' = "cancels"
  PROVE  (loop = "cancels" /\ todo' \subseteq todo) \/ todo' = CancelRequests(runs')
<1>1. CASE Outside \/ UNCHANGED vars
  BY <1>1 DEF vars, Outside, Fire, CancelEvent, CancelRun, BecomeDue, Submit, LongDowntime
<1>2. CASE Process
  BY <1>2 DEF Process, StartAgent, Configure, Recover, StartLoop, Stop, WaitReturns, StopLoop,
              ExitAgent, Crash, LoseMemory
<1>3. CASE Loop
  <2>1. ASSUME NEW i \in Ids, FollowRun(i) \/ HandleRow(i) PROVE loop' # "cancels"
    BY <2>1 DEF FollowRun, HandleRow, SettleReplaced, CheckRow, DropRow, SkipRow, KeepRow,
                ReplaceRun, Start, AtRow, RowDone
  <2> QED
    BY <1>3, <2>1 DEF Loop, Wake, Tick, BeginStep, ReadEnded, BeginScan, ReadQueued, EndStep,
                      ProcessCancel
<1>4. ASSUME NEW i \in Ids, Run(i) PROVE UNCHANGED <<loop, todo>>
  BY <1>4 DEF Run, CommandEnds, RecordRun, ReleaseRun, EnqueueRestart, EndRun
<1> QED BY <1>1, <1>2, <1>3, <1>4 DEF Next

LEMMA NextHanding ==
  ASSUME BInv, BInv', Ends, Ends', Handing, [Next]_vars PROVE Handing'
<1> USE DEF BInv, IInv, Ends, Handing
<1>1. ASSUME NEW i \in Ids, FollowRun(i) PROVE Handing'
  <2>1. FiredOnce'
    <3>1. ASSUME NEW k \in Ids, NEW e \in Events PROVE \A j, m \in FiredBy(k, e)' : j = m
      <4>1. CASE k = i BY <1>1, <4>1, FollowFires
      <4>2. CASE k # i BY <1>1, <4>2, OthersFiredSame DEF FiredOnce
      <4> QED BY <4>1, <4>2
    <3> QED BY <3>1 DEF FiredOnce
  <2>2. CauseHanded'
    <3>1. /\ runs'[i].followed /\ runs'[i].after = runs[i].after
      BY <1>1, FollowFires DEF TypeOK, Row
    <3>2. \A j \in Ids : runs[j].followed => runs'[j].followed
      BY <1>1, <3>1, FollowFires DEF HandedEnded, Over, Final
    <3>3. \A j \in Ids : runs'[j].after = runs[j].after \/ runs'[j].after = i
      BY <1>1, <3>1, FollowFires
    <3> QED BY <3>1, <3>2, <3>3 DEF CauseHanded
  <2>3. CancelsUnhanded' BY <1>1 DEF FollowRun, CancelsUnhanded
  <2> QED BY <2>1, <2>2, <2>3
<1>2. CASE NoHanding
  <2>1. FiredOnce' BY <1>2, FiredSame DEF FiredOnce
  <2>2. \A j \in Ids : runs[j].followed => runs'[j].followed
    BY <1>2 DEF NoHanding, Stays, NotFired, HandedEnded, Over, Final
  <2>3. CauseHanded' BY <1>2, <2>2 DEF CauseHanded, NoHanding, Stays, NotFired
  <2>4. CancelsUnhanded'
    <3>1. ASSUME loop' = "cancels", NEW j \in todo' PROVE ~runs'[j].followed
      <4>1. j \in Ids BY DEF TypeOK
      <4>2. CASE todo' = CancelRequests(runs')
        BY <4>1, <4>2 DEF CancelRequests, InStatus, HandedEnded, Over, Final
      <4>3. CASE loop = "cancels" /\ todo' \subseteq todo
        BY <1>2, <4>1, <4>3 DEF CancelsUnhanded, NoHanding, Stays, NotFired
      <4> QED BY <3>1, <4>2, <4>3, CancelsRead
    <3> QED BY <3>1 DEF CancelsUnhanded
  <2> QED BY <2>1, <2>3, <2>4
<1> QED BY <1>1, <1>2, StepNoHanding

LEMMA FollowsType ==
  ASSUME NEW c \in Configs, NEW e \in DOMAIN c, NEW f \in Events
  PROVE  e \in Events /\ c[e].follows[f] \subseteq AfterStatuses
<1>1. e \in Events /\ c[e] \in Definition BY DispatcherAssumption
<1>2. c[e].follows \in [Events -> SUBSET AfterStatuses] BY <1>1 DEF Definition
<1> QED BY <1>1, <1>2

LEMMA NextFits ==
  ASSUME FollowsStay, BInv, Ends, Handing, FiredFits, [Next]_vars PROVE FiredFits'
<1> USE DEF BInv, IInv, Ends, Handing
<1>1. ASSUME NEW i \in Ids, FollowRun(i) PROVE FiredFits'
  <2>1. runs'[i].status = runs[i].status /\ runs'[i].event = runs[i].event
    <3>1. runs'[i] = [runs[i] EXCEPT !.followed = TRUE] BY <1>1, FollowFires
    <3> QED BY <3>1 DEF TypeOK, Row
  <2>2. ASSUME NEW k \in Ids, NEW c \in Configs, NEW e \in DOMAIN c,
               runs'[k].followed, runs'[k].status # "pruned"
        PROVE  FiredBy(k, e)' # {} <=> runs'[k].status \in c[e].follows[runs'[k].event]
    <3>0. e \in Events BY DispatcherAssumption
    <3>1. CASE k = i
      <4>1. specs \in Configs /\ runs[i].event \in Events BY DEF TypeOK, Row
      <4>2. DOMAIN c = DOMAIN specs /\ c[e].follows = specs[e].follows BY <4>1 DEF FollowsStay
      <4>3. c[e].follows[runs[i].event] \subseteq AfterStatuses BY <4>1, FollowsType
      <4>4. e \in Followers(i) <=> runs[i].status \in c[e].follows[runs[i].event]
        BY <4>2, <4>3 DEF Followers, Event, AfterStatuses
      <4>5. FiredBy(i, e)' # {} <=> e \in Followers(i) BY <1>1, <3>0, FollowFires
      <4> QED BY <2>1, <3>1, <4>4, <4>5
    <3>2. CASE k # i
      <4>1. runs'[k] = runs[k] BY <1>1, <2>2, <3>2, FollowFires
      <4>2. FiredBy(k, e)' = FiredBy(k, e) BY <1>1, <3>0, <3>2, OthersFiredSame
      <4> QED BY <2>2, <4>1, <4>2 DEF FiredFits
    <3> QED BY <3>1, <3>2
  <2> QED BY <2>2 DEF FiredFits
<1>2. CASE NoHanding
  <2>1. ASSUME NEW k \in Ids, NEW c \in Configs, NEW e \in DOMAIN c,
               runs'[k].followed, runs'[k].status # "pruned"
        PROVE  FiredBy(k, e)' # {} <=> runs'[k].status \in c[e].follows[runs'[k].event]
    <3>1. e \in Events BY DispatcherAssumption
    <3>2. /\ runs[k].followed /\ runs'[k].status = runs[k].status
          /\ runs'[k].event = runs[k].event
      BY <1>2, <2>1 DEF NoHanding, Stays, NotFired
    <3>3. FiredBy(k, e)' = FiredBy(k, e) BY <1>2, <3>1, FiredSame
    <3> QED BY <2>1, <3>2, <3>3 DEF FiredFits
  <2> QED BY <2>1 DEF FiredFits
<1> QED BY <1>1, <1>2, StepNoHanding

LEMMA InitHanding == ASSUME Init PROVE Handing /\ FiredFits
<1>1. \A j \in Ids : runs[j].status = "absent" /\ ~runs[j].followed /\ runs[j].after = 0
  BY DEF Init, EmptyTable, NewRun
<1> QED BY <1>1 DEF Init, Handing, FiredOnce, CauseHanded, CancelsUnhanded, FiredFits, FiredBy

LEMMA FiredCounts == ASSUME BInv, Ends, Handing, FiredFits PROVE AfterOnce
<1> USE DEF BInv, IInv, Ends, Handing
<1>1. ASSUME NEW i \in Ids, NEW e \in DOMAIN specs
      PROVE  IF runs[i].followed
             THEN CASE runs[i].status = "pruned" -> Cardinality(FiredBy(i, e)) <= 1
                    [] runs[i].status \in specs[e].follows[Event(i)]
                         -> Cardinality(FiredBy(i, e)) = 1
                    [] OTHER -> FiredBy(i, e) = {}
             ELSE FiredBy(i, e) = {}
  <2>1. specs \in Configs /\ e \in Events /\ runs[i].event \in Events
    BY DispatcherAssumption DEF TypeOK, Row
  <2>2. FiredBy(i, e) # {} => Cardinality(FiredBy(i, e)) = 1
    <3>1. ASSUME NEW j \in FiredBy(i, e) PROVE FiredBy(i, e) = {j} BY <2>1 DEF FiredOnce
    <3> QED BY <3>1, FS_Singleton
  <2>3. Cardinality({}) = 0 BY FS_EmptySet
  <2>4. ~runs[i].followed => FiredBy(i, e) = {} BY DEF FiredBy, CauseHanded, Ids
  <2>5. runs[i].followed /\ runs[i].status # "pruned" =>
          (FiredBy(i, e) # {} <=> runs[i].status \in specs[e].follows[Event(i)])
    BY <2>1 DEF FiredFits, Event
  <2>6. "pruned" \notin specs[e].follows[Event(i)]
    BY <2>1, FollowsType DEF AfterStatuses, Event
  <2> QED BY <2>2, <2>3, <2>4, <2>5, <2>6
<1> QED BY <1>1 DEF AfterOnce

\* Whatever the reloads, the end of a run fires an event at most once, and only a run
\* that was handed over has fired anything (follow, processCancels).
THEOREM FiredAtMostOnce == Spec => []Handing
<1>1. Init => Handing BY InitHanding
<1>2. BInv /\ BInv' /\ Ends /\ Ends' /\ Handing /\ [Next]_vars => Handing' BY NextHanding
<1> QED BY <1>1, <1>2, BackedInvariant, OnlyEndsAreHanded, PTL DEF Spec

\* And as long as no reload changes the after triggers, what it fired is exactly what
\* they name: no crash loses or repeats a firing (follow, Follow).
THEOREM AfterExactlyOnce == ASSUME FollowsStay PROVE Spec => []AfterOnce
<1>1. Init => FiredFits BY InitHanding
<1>2. BInv /\ Ends /\ Handing /\ FiredFits /\ [Next]_vars => FiredFits' BY NextFits
<1>3. BInv /\ Ends /\ Handing /\ FiredFits => AfterOnce BY FiredCounts
<1> QED BY <1>1, <1>2, <1>3, BackedInvariant, OnlyEndsAreHanded, FiredAtMostOnce, PTL DEF Spec
-----------------------------------------------------------------------------
\* The life of a row

\* Recover repeats a run under this condition, and abandons it otherwise.
Reruns(i) ==
  /\ Defined(Event(i))
  /\ specs[Event(i)].onInterrupt = "rerun"
  /\ runs[i].attempt < specs[Event(i)].maxAttempts

\* processCancels reaches row i after its command was released, and before follow.
LateCancel(i) ==
  /\ loop = "cancels" /\ i \in todo /\ ctx[i] = "none"
  /\ runs[i].status \in {"interrupted", "succeeded", "failed", "canceled"}
  /\ ~runs[i].followed

\* What may become of row i in one step, and who changes it.
Moves(i) ==
  LET s == runs[i].status
      u == runs'[i].status
  IN  \/ u = s
      \/ s = "absent" /\ u \in {"queued", "dropped"}
      \/ s = "queued" /\ u \in {"running", "canceled", "skipped", "dropped"}
      \/ s = "running" /\ pc[i] = "exited" /\ u = out[i]
      \/ /\ s \in {"running", "interrupted"} /\ agent = "recovering"
         /\ u = IF Reruns(i) THEN "retried" ELSE "abandoned"
      \/ s \in Final /\ runs[i].old /\ agent = "recovering" /\ u = "pruned"
      \/ LateCancel(i) /\ u = "canceled"

\* A row that was recorded goes through the queue to its end along these moves only.
RowLife == [][\A i \in Ids : Moves(i)]_vars

LEMMA QuietMoves == ASSUME BInv, RowsSettle, NEW j \in Ids PROVE Moves(j)
<1>1. CASE Settles(runs, runs', j) BY <1>1 DEF Settles, Moves
<1>2. CASE Inserted(j)
  <2>1. runs[j].status = "absent" BY <1>2 DEF Inserted, BInv, Backed, UnusedRows
  <2> QED BY <1>2, <2>1 DEF Inserted, Moves
<1> QED BY <1>1, <1>2 DEF RowsSettle

LEMMA FrameMoves == ASSUME UNCHANGED runs, NEW j \in Ids PROVE Moves(j)
BY DEF Moves

LEMMA RecoverMoves == ASSUME BInv, NEW i \in Ids, Recover(i), NEW j \in Ids PROVE Moves(j)
<1> USE DEF BInv, IInv
<1>0. runs[i].status \in {"running", "interrupted"} /\ agent = "recovering"
  BY RecoverFinds DEF Recover, Control, IdleUntilUp
<1>1. CASE Reruns(i)
  <2> DEFINE n == lastId + 1
  <2>1. lastId < MaxRuns /\ runs' = Retry(runs, i, n) BY <1>1 DEF Recover, Reruns
  <2>2. lastId \in Nat /\ n \in Ids BY <2>1, NextIdType, RunsAssumption DEF TypeOK
  <2>3. runs[n].status = "absent" BY <2>2 DEF Backed, UnusedRows
  <2>4. i # n BY <1>0, <2>3
  <2>5. runs'[n].status = "queued" /\ runs'[i].status = "retried"
    BY <2>1, <2>2, <2>4 DEF Retry, NewRun, TypeOK, Row
  <2>6. \A k \in Ids \ {i, n} : runs'[k] = runs[k] BY <2>1, <2>2 DEF Retry, TypeOK
  <2>7. CASE j = i BY <1>0, <1>1, <2>5, <2>7 DEF Moves
  <2>8. CASE j = n BY <2>3, <2>5, <2>8 DEF Moves
  <2>9. CASE j \in Ids \ {i, n} BY <2>6, <2>9 DEF Moves
  <2> QED BY <2>7, <2>8, <2>9
<1>2. CASE ~Reruns(i)
  <2>1. runs' = Abandon(runs, i) BY <1>2 DEF Recover, Reruns
  <2>2. runs'[i].status = "abandoned" /\ \A k \in Ids \ {i} : runs'[k] = runs[k]
    BY <2>1 DEF Abandon, TypeOK, Row
  <2>3. CASE j = i BY <1>0, <1>2, <2>2, <2>3 DEF Moves
  <2>4. CASE j # i BY <2>2, <2>4 DEF Moves
  <2> QED BY <2>3, <2>4
<1> QED BY <1>1, <1>2

LEMMA ProcessMoves == ASSUME BInv, Process, NEW j \in Ids PROVE Moves(j)
<1> USE DEF BInv, IInv
<1>1. CASE StartLoop
  <2>1. agent = "recovering" BY <1>1 DEF StartLoop, Control, IdleUntilUp
  <2>2. runs'[j].status = runs[j].status
        \/ (runs[j].old /\ runs[j].status \in Final /\ runs'[j].status = "pruned")
    BY <1>1 DEF StartLoop, Prune, TypeOK, Row
  <2> QED BY <2>1, <2>2 DEF Moves
<1> QED
  BY <1>1, RecoverMoves, FrameMoves
     DEF Process, StartAgent, Configure, Stop, WaitReturns, StopLoop, ExitAgent, Crash, LoseMemory

LEMMA LoopMoves == ASSUME BInv, CancelsUnhanded, Loop, NEW j \in Ids PROVE Moves(j)
<1> USE DEF BInv, IInv
<1>1. ASSUME NEW i \in Ids, ProcessCancel(i) PROVE Moves(j)
  <2>1. CASE UNCHANGED runs BY <2>1, FrameMoves
  <2>2. CASE ctx[i] = "none" /\ runs' = FinishRun(runs, i, "canceled")
    <3>1. loop = "cancels" /\ i \in todo BY <1>1 DEF ProcessCancel, Oldest
    <3>2. agent \notin {"down", "recovering"} BY <3>1 DEF Control, IdleUntilUp
    <3>3. runs[i].status # "running" BY <2>2, <3>2 DEF Backed, RowsAgree, Control, ContextsKept
    <3>4. LateCancel(i)
      BY <2>2, <3>1, <3>3 DEF LateCancel, CancelsUnhanded, Backed, CancelsStarted
    <3>5. runs'[i].status = "canceled" /\ \A k \in Ids \ {i} : runs'[k] = runs[k]
      BY <2>2 DEF FinishRun, TypeOK, Row
    <3>6. CASE j = i BY <3>4, <3>5, <3>6 DEF Moves
    <3>7. CASE j # i BY <3>5, <3>7 DEF Moves
    <3> QED BY <3>6, <3>7
  <2> QED BY <1>1, <2>1, <2>2 DEF ProcessCancel
<1>2. ASSUME NEW i \in Ids, HandleRow(i) PROVE Moves(j)
  <2>1. ASSUME NEW st \in {"skipped", "dropped"}, SettleRow(i, st) PROVE Moves(j)
    <3>1. Settles(runs, runs', j) BY <2>1, StatementsSettle DEF SettleRow, TypeOK
    <3> QED BY <3>1 DEF Settles, Moves
  <2>2. CASE Start(i)
    <3>1. runs' = StartRun(runs, i) BY <2>2 DEF Start
    <3>2. \/ runs'[j].status = runs[j].status
          \/ runs[j].status = "queued" /\ runs'[j].status = "running"
      BY <3>1 DEF StartRun, SetStatus, TypeOK, Row
    <3> QED BY <3>2 DEF Moves
  <2> QED BY <1>2, <2>1, <2>2, FrameMoves
          DEF HandleRow, SettleReplaced, CheckRow, DropRow, SkipRow, KeepRow, ReplaceRun
<1>3. ASSUME NEW i \in Ids, FollowRun(i) PROVE Moves(j)
  BY <1>3, FollowRunQuiet, QuietMoves DEF QuietStep
<1> QED
  BY <1>1, <1>2, <1>3, FrameMoves DEF Loop, Wake, Tick, ReadEnded, BeginScan, ReadQueued, EndStep

LEMMA RunMoves == ASSUME BInv, NEW i \in Ids, Run(i), NEW j \in Ids PROVE Moves(j)
<1> USE DEF BInv, IInv
<1>1. CASE RecordRun(i)
  <2>1. agent \notin {"down", "recovering"} BY <1>1 DEF RecordRun, Control, IdleUntilUp
  <2>2. runs[i].status = "running" /\ pc[i] = "exited"
    BY <1>1, <2>1 DEF RecordRun, Backed, RowsAgree
  <2>3. runs'[i].status = out[i] /\ \A k \in Ids \ {i} : runs'[k] = runs[k]
    BY <1>1 DEF RecordRun, FinishRun, TypeOK, Row
  <2>4. CASE j = i BY <2>2, <2>3, <2>4 DEF Moves
  <2>5. CASE j # i BY <2>3, <2>5 DEF Moves
  <2> QED BY <2>4, <2>5
<1>2. CASE EnqueueRestart(i)
  <2> DEFINE r == Delayed(NewRun(Event(i), "restart", 0))
  <2>1. PICK c \in Known : runs' = Insert(runs, lastId + 1, r, QueueLimit(c, Event(i)))
    BY <1>2 DEF EnqueueRestart
  <2>2. NewRun(Event(i), "restart", 0) \in Row BY NewRunType, NoRunType, EventType DEF Kind
  <2>3. r \in Row BY <2>2 DEF Delayed, Row
  <2>4. r.status = "queued" BY DEF Delayed, NewRun
  <2>5. lastId < MaxRuns /\ lastId' = lastId + 1 BY <1>2 DEF EnqueueRestart
  <2> HIDE DEF r
  <2> QED BY <2>1, <2>3, <2>4, <2>5, InsertSettles, QuietMoves
<1> QED BY <1>1, <1>2, FrameMoves DEF Run, CommandEnds, ReleaseRun, EndRun

LEMMA StepMoves == ASSUME BInv, CancelsUnhanded, [Next]_vars, NEW j \in Ids PROVE Moves(j)
<1>1. CASE UNCHANGED vars BY <1>1, FrameMoves DEF vars
<1>2. CASE Outside BY <1>2, OutsideQuiet, QuietMoves DEF QuietStep
<1> QED BY <1>1, <1>2, ProcessMoves, LoopMoves, RunMoves DEF Next

\* A row is queued once, starts or is settled from the queue, records what its command
\* ended with, and is settled by Recover exactly as the definition in force says; the
\* only other change is a cancel that comes late (schedule, finish, Recover, Prune,
\* processCancels).
THEOREM RowsLive == Spec => RowLife
<1>1. BInv /\ Handing /\ [Next]_vars => [\A i \in Ids : Moves(i)]_vars
  BY StepMoves DEF Handing
<1> QED BY <1>1, BackedInvariant, FiredAtMostOnce, PTL DEF Spec, RowLife

\* A final status changes only when the row is deleted, or by a late cancel.
FinalButLate ==
  [][\A i \in Ids : runs[i].status \in Final =>
       \/ runs'[i].status \in {runs[i].status, "pruned"}
       \/ LateCancel(i) /\ runs'[i].status = "canceled"]_vars

\* "Final reports whether a status will not change any more" (store.go) holds of every
\* step but one: the turn of processCancels for a row whose command was released after
\* the request was read.  No such step follows the firing of after triggers.
THEOREM FinalsStay == Spec => FinalButLate
<1>1. ASSUME BInv, NEW i \in Ids, runs[i].status \in Final, Moves(i)
      PROVE  \/ runs'[i].status \in {runs[i].status, "pruned"}
             \/ LateCancel(i) /\ runs'[i].status = "canceled"
  BY <1>1 DEF Moves, Final
<1>2. BInv /\ Handing /\ [Next]_vars =>
        [\A i \in Ids : runs[i].status \in Final =>
           \/ runs'[i].status \in {runs[i].status, "pruned"}
           \/ LateCancel(i) /\ runs'[i].status = "canceled"]_vars
  BY <1>1, StepMoves DEF Handing
<1> QED BY <1>2, BackedInvariant, FiredAtMostOnce, PTL DEF Spec, FinalButLate
-----------------------------------------------------------------------------
\* What is fired and repeated under the definitions in force

\* The step that hands a run over fires exactly the events whose after triggers name
\* its end in the definitions of that moment, each once, and no other step fires one.
FiresAsDefined ==
  [][\A i \in Ids, e \in Events :
       IF ~runs[i].followed /\ runs'[i].followed
         THEN Cardinality(FiredBy(i, e)') = IF e \in Followers(i) THEN 1 ELSE 0
         ELSE FiredBy(i, e)' = FiredBy(i, e)]_vars

LEMMA HandedFires ==
  ASSUME BInv, Ends, Handing, NEW i \in Ids, FollowRun(i), NEW k \in Ids, NEW e \in Events
  PROVE  IF ~runs[k].followed /\ runs'[k].followed
           THEN Cardinality(FiredBy(k, e)') = IF e \in Followers(k) THEN 1 ELSE 0
           ELSE FiredBy(k, e)' = FiredBy(k, e)
<1> USE DEF Ends, Handing
<1>1. CASE k = i
  <2>1. runs[i] \in Row BY DEF BInv, IInv, TypeOK
  <2>2. ~runs[i].followed /\ runs'[i].followed
    <3>1. ~runs[i].followed /\ runs'[i] = [runs[i] EXCEPT !.followed = TRUE] BY FollowFires
    <3> QED BY <2>1, <3>1 DEF Row
  <2>3. FiredBy(i, e)' # {} => Cardinality(FiredBy(i, e)') = 1
    <3>0. \A j, m \in FiredBy(i, e)' : j = m BY FollowFires
    <3>1. ASSUME NEW j \in FiredBy(i, e)' PROVE FiredBy(i, e)' = {j} BY <3>0
    <3> QED BY <3>1, FS_Singleton
  <2>4. FiredBy(i, e)' # {} <=> e \in Followers(i) BY FollowFires
  <2>5. Cardinality({}) = 0 BY FS_EmptySet
  <2> QED BY <1>1, <2>2, <2>3, <2>4, <2>5
<1>2. CASE k # i
  <2>1. runs'[k] = runs[k] \/ ~runs'[k].followed BY <1>2, FollowFires
  <2>2. ~(~runs[k].followed /\ runs'[k].followed) BY <2>1
  <2>3. FiredBy(k, e)' = FiredBy(k, e) BY <1>2, OthersFiredSame
  <2> QED BY <2>2, <2>3
<1> QED BY <1>1, <1>2

LEMMA StepFires ==
  ASSUME BInv, Ends, Handing, [Next]_vars, NEW k \in Ids, NEW e \in Events
  PROVE  IF ~runs[k].followed /\ runs'[k].followed
           THEN Cardinality(FiredBy(k, e)') = IF e \in Followers(k) THEN 1 ELSE 0
           ELSE FiredBy(k, e)' = FiredBy(k, e)
<1>1. CASE NoHanding
  <2>1. ~(~runs[k].followed /\ runs'[k].followed) BY <1>1 DEF NoHanding, Stays, NotFired
  <2>2. FiredBy(k, e)' = FiredBy(k, e) BY <1>1, FiredSame
  <2> QED BY <2>1, <2>2
<1> QED BY <1>1, StepNoHanding, HandedFires DEF Ends, Handing

\* Over reloads that change the after triggers, the end of a run fires exactly what the
\* definitions in force name when it is handed over, in that one transaction (follow,
\* Follow): AfterOnce without its condition on the reloads.
THEOREM FiredAsDefined == Spec => FiresAsDefined
<1>1. BInv /\ Ends /\ Handing /\ [Next]_vars =>
        [\A i \in Ids, e \in Events :
           IF ~runs[i].followed /\ runs'[i].followed
             THEN Cardinality(FiredBy(i, e)') = IF e \in Followers(i) THEN 1 ELSE 0
             ELSE FiredBy(i, e)' = FiredBy(i, e)]_vars
  BY StepFires
<1> QED BY <1>1, BackedInvariant, OnlyEndsAreHanded, FiredAtMostOnce, PTL
        DEF Spec, FiresAsDefined

\* Row j comes to repeat run i: it is new and waits, run i was cut off and is marked,
\* and it is the next attempt of the same firing, within the limit in force.
Repeats(j, i) ==
  /\ runs[j].status = "absent" /\ runs'[j].status = "queued"
  /\ runs[i].status \in {"running", "interrupted"} /\ runs'[i].status = "retried"
  /\ Reruns(i)
  /\ runs'[j].attempt = runs[i].attempt + 1
  /\ runs'[j].attempt <= specs[Event(i)].maxAttempts
  /\ runs'[j].event = runs[i].event /\ runs'[j].kind = runs[i].kind
  /\ runs'[j].after = runs[i].after

RepeatsAsDefined ==
  [][\A j \in Ids : runs[j].retryOf = 0 /\ runs'[j].retryOf # 0
                      => Repeats(j, runs'[j].retryOf)]_vars

LEMMA RetryRepeats ==
  ASSUME BInv, NEW i \in Ids, Recover(i), runs' = Retry(runs, i, lastId + 1),
         NEW j \in Ids, runs[j].retryOf = 0, runs'[j].retryOf # 0
  PROVE  Repeats(j, runs'[j].retryOf)
<1> DEFINE n == lastId + 1
<1> USE DEF BInv, IInv
<1>0. runs[i].status \in {"running", "interrupted"} BY RecoverFinds
<1>1. lastId \in Nat /\ i # n BY <1>0, RunsAssumption DEF TypeOK, Backed, UnusedRows, Ids
<1>2. runs'[i].status = "retried" /\ runs'[i].retryOf = runs[i].retryOf
  BY <1>1 DEF Retry, TypeOK, Row
<1>3. Reruns(i) /\ lastId < MaxRuns
  <2>1. Abandon(runs, i)[i].status = "abandoned" BY DEF Abandon, TypeOK, Row
  <2> QED BY <1>2, <2>1 DEF Recover, Reruns
<1>4. n \in Ids BY <1>3, NextIdType
<1>5. \A k \in Ids \ {i, n} : runs'[k] = runs[k] BY <1>4 DEF Retry, TypeOK
<1>6. j = n BY <1>2, <1>5
<1>7. /\ runs'[n].status = "queued" /\ runs'[n].attempt = runs[i].attempt + 1
      /\ runs'[n].retryOf = i /\ runs'[n].event = runs[i].event
      /\ runs'[n].kind = runs[i].kind /\ runs'[n].after = runs[i].after
  BY <1>1, <1>4 DEF Retry, NewRun, TypeOK
<1>8. runs[n].status = "absent" BY <1>1, <1>4 DEF Backed, UnusedRows
<1>9. runs[i].attempt + 1 <= specs[Event(i)].maxAttempts
  <2>1. runs[i].attempt \in Nat BY DEF TypeOK, Row
  <2>2. specs[Event(i)].maxAttempts \in Nat BY <1>3, LimitType DEF Reruns, Defined, TypeOK
  <2> QED BY <1>3, <2>1, <2>2 DEF Reruns
<1> QED BY <1>0, <1>2, <1>3, <1>6, <1>7, <1>8, <1>9 DEF Repeats

LEMMA StepRepeats ==
  ASSUME BInv, [Next]_vars, NEW j \in Ids, runs[j].retryOf = 0, runs'[j].retryOf # 0
  PROVE  Repeats(j, runs'[j].retryOf)
<1>1. ~NoRetry BY DEF NoRetry, SameRun, FirstAttempt
<1> QED BY <1>1, StepRetries, RetryRepeats

\* Over reloads that change max_attempts or on_interrupt, and over any number of crashes,
\* a run is repeated only when the definition that the new process loaded says so, and
\* within its limit (Recover, Retry): RetryChain without its condition on the reloads.
THEOREM RepeatedAsDefined == Spec => RepeatsAsDefined
<1>1. BInv /\ [Next]_vars =>
        [\A j \in Ids : runs[j].retryOf = 0 /\ runs'[j].retryOf # 0
                          => Repeats(j, runs'[j].retryOf)]_vars
  BY StepRepeats
<1> QED BY <1>1, BackedInvariant, PTL DEF Spec, RepeatsAsDefined
-----------------------------------------------------------------------------
\* The order in which a queue starts its runs

\* e is defined, and queues, under every definition that the agent may load.
QueuesThroughout(e) == \A c \in Configs : e \in DOMAIN c /\ c[e].concurrency = "queue"

Outcomes == {"succeeded", "failed", "canceled", "interrupted"}

\* Run k was started and not handed over yet.
Unhanded(k) == runs[k].status \in Outcomes \cup {"running"} /\ ~runs[k].followed

\* Row j waits, without a delay, and was queued before row i of the same event.
Ahead(j, i) ==
  /\ j < i /\ runs[j].event = runs[i].event
  /\ runs[j].status = "queued" /\ runs[j].kind # "restart"

\* Only a restart waits for a delay.
OnlyRestartsDelayed == \A j \in Ids : runs[j].kind # "restart" => runs[j].due

\* Before it reads the rows, schedule leaves out each event that runs and queues.
ScanClear ==
  loop = "scan" =>
    \A e \in Events \ except : QueuesThroughout(e) => LiveRuns(e) = {}

\* While it handles them, a run of such an event is older than the rows that are left.
LiveAhead ==
  loop \in {"rows", "start"} =>
    \A i \in todo : runs[i].status # "absent" /\
      (QueuesThroughout(Event(i)) => \A k \in LiveRuns(Event(i)) : k < i /\ Unhanded(k))

\* And a row that is passed waits for a run that this batch started before it.
Passed ==
  loop \in {"rows", "start"} =>
    \A i \in todo : QueuesThroughout(Event(i)) =>
      \A j \in Ids \ todo : Ahead(j, i) =>
        \E k \in Ids : k < j /\ Event(k) = Event(i) /\ Unhanded(k)

Ordering == OnlyRestartsDelayed /\ ScanClear /\ LiveAhead /\ Passed

LEMMA OldestIsLeast ==
  ASSUME NEW S \in SUBSET Ids, NEW i \in Oldest(S, 1) PROVE i \in S /\ \A j \in S : i <= j
<1> DEFINE T == {j \in S : j < i}
<1>1. IsFiniteSet(Ids) BY RunsAssumption, FS_Interval DEF Ids
<1>2. IsFiniteSet(T) BY <1>1, FS_Subset
<1>3. i \in S /\ Cardinality(T) < 1 BY DEF Oldest
<1>4. Cardinality(T) = 0 BY <1>2, <1>3, FS_CardinalityType
<1>5. T = {} BY <1>2, <1>4, FS_EmptySet
<1> QED BY <1>3, <1>5 DEF Ids

LEMMA OldestFromBelow ==
  ASSUME NEW S \in SUBSET Ids, NEW n \in Nat, NEW i \in Oldest(S, n), NEW j \in S, j < i
  PROVE  j \in Oldest(S, n)
<1> DEFINE T(k) == {m \in S : m < k}
<1>1. IsFiniteSet(Ids) BY RunsAssumption, FS_Interval DEF Ids
<1>2. IsFiniteSet(T(i)) /\ IsFiniteSet(T(j)) BY <1>1, FS_Subset
<1>3. i \in S BY DEF Oldest
<1>4. T(j) \subseteq T(i)
  <2>1. ASSUME NEW m \in S, m < j PROVE m < i
    <3>1. m \in Ids /\ j \in Ids /\ i \in Ids BY <1>3
    <3>2. m \in Int /\ j \in Int /\ i \in Int BY <3>1 DEF Ids
    <3> QED BY <2>1, <3>2
  <2> QED BY <2>1
<1>5. Cardinality(T(j)) <= Cardinality(T(i)) BY <1>2, <1>4, FS_Subset
<1>6. Cardinality(T(i)) < n BY DEF Oldest
<1>7. Cardinality(T(j)) \in Nat /\ Cardinality(T(i)) \in Nat BY <1>2, FS_CardinalityType
<1> QED BY <1>5, <1>6, <1>7 DEF Oldest

LEMMA DelaysKept == ASSUME BInv, OnlyRestartsDelayed, [Next]_vars PROVE OnlyRestartsDelayed'
<1>1. CASE NoRetry BY <1>1 DEF OnlyRestartsDelayed, NoRetry, SameRun, FirstAttempt
<1>2. ASSUME NEW i \in Ids, Recover(i), runs' = Retry(runs, i, lastId + 1)
      PROVE  OnlyRestartsDelayed'
  <2> DEFINE n == lastId + 1
  <2>1. i # n
    <3>1. lastId \in Nat BY RunsAssumption DEF BInv, IInv, TypeOK
    <3>2. runs[i].status # "absent" BY <1>2, RecoverFinds
    <3>3. ~(i > lastId) BY <3>2 DEF BInv, Backed, UnusedRows
    <3> QED BY <3>1, <3>3
  <2>2. \A j \in Ids : j = n => runs'[j].due BY <1>2, <2>1 DEF BInv, IInv, TypeOK, Retry, NewRun
  <2>3. \A j \in Ids \ {n} : runs'[j].due = runs[j].due /\ runs'[j].kind = runs[j].kind
    BY <1>2 DEF BInv, IInv, TypeOK, Retry, Row
  <2> QED BY <2>2, <2>3 DEF OnlyRestartsDelayed
<1> QED BY <1>1, <1>2, StepRetries

\* While the loop schedules, no row that exists changes its event, goes back into the
\* queue or is handed over.
LEMMA RowsStand ==
  ASSUME BInv, Ends, Handing, [Next]_vars, loop \in {"scan", "rows", "start"},
         NEW j \in Ids, runs[j].status # "absent"
  PROVE  /\ runs'[j].event = runs[j].event /\ runs'[j].kind = runs[j].kind
         /\ runs'[j].status # "absent"
         /\ runs'[j].status = "queued" => runs[j].status = "queued"
         /\ Unhanded(j) => Unhanded(j)'
<1> USE DEF BInv, IInv
<1>1. agent # "recovering" BY DEF Control, IdleUntilUp
<1>2. ~ \E i \in Ids : Recover(i) \/ FollowRun(i) BY DEF Recover, FollowRun
<1>3. NoRetry BY <1>2, StepRetries
<1>4. NoHanding BY <1>2, StepNoHanding DEF Ends, Handing
<1>5. ~(j > lastId) BY DEF Backed, UnusedRows
<1>6. SameRun(runs, runs', j) BY <1>3, <1>5 DEF NoRetry, FirstAttempt
<1>7. Stays(runs, runs', j) BY <1>4 DEF NoHanding, NotFired
<1>8. ASSUME Unhanded(j) PROVE Unhanded(j)'
  <2>1. pc[j] = "exited" => out[j] \in Outcomes
    BY DEF Counting, ExitedHasOutcome, TypeOK, Outcome, Outcomes
  <2>2. Moves(j) BY StepMoves DEF Handing
  <2>3. runs'[j].status \in Outcomes \cup {"running"}
    BY <1>1, <1>8, <2>1, <2>2 DEF Moves, Unhanded, Outcomes
  <2> QED BY <1>7, <1>8, <2>3 DEF Unhanded, Stays
<1> QED BY <1>6, <1>7, <1>8 DEF SameRun, Stays

LEMMA LiveStand ==
  ASSUME BInv, Ends, Handing, [Next]_vars, loop \in {"scan", "rows", "start"},
         NEW e \in Events, NEW k \in LiveRuns(e)', ~Start(k)
  PROVE  k \in LiveRuns(e)
<1> USE DEF BInv, IInv
<1>1. k \in Ids /\ pc'[k] \in Live /\ runs'[k].event = e BY DEF LiveRuns, Live
<1>2. pc[k] \in Live BY <1>1, OnlyStartEnlivens
<1>3. ~(k > lastId) BY <1>1, <1>2 DEF Counting, UnusedIds, Live
<1>4. ~ \E i \in Ids : Recover(i) BY DEF Recover
<1>5. NoRetry BY <1>4, StepRetries
<1>6. runs'[k].event = runs[k].event BY <1>1, <1>3, <1>5 DEF NoRetry, SameRun, FirstAttempt
<1> QED BY <1>1, <1>2, <1>6 DEF LiveRuns, Live

LEMMA ScheduleRepeatsNone ==
  ASSUME BInv, [Next]_vars, loop \in {"scan", "rows", "start"} PROVE NoRetry
<1>1. ~ \E i \in Ids : Recover(i) BY DEF Recover
<1> QED BY <1>1, StepRetries

\* A run that starts was not handed over.
LEMMA StartedUnhanded ==
  ASSUME BInv, BInv', Ends', NEW k \in Ids, Start(k), runs' # runs PROVE Unhanded(k)'
<1> USE DEF BInv, IInv
<1>1. pc' = [pc EXCEPT ![k] = "exec"] /\ loop' = "rows" BY DEF Start, RowDone
<1>2. pc'[k] = "exec" BY <1>1 DEF TypeOK
<1>3. agent' \notin {"down", "recovering"} BY <1>1 DEF Control, IdleUntilUp
<1>4. runs'[k].status = "running" BY <1>2, <1>3 DEF Backed, RowsAgree
<1>5. ~runs'[k].followed BY <1>4 DEF Ends, HandedEnded, Over, Final
<1> QED BY <1>4, <1>5 DEF Unhanded

LEMMA QueuesType ==
  ASSUME TypeOK, NEW e \in Events, QueuesThroughout(e) PROVE Policy(e) = "queue"
BY DEF TypeOK, QueuesThroughout, Policy, Defined

\* A batch holds every older row of its events that is due.
LEMMA ReadOrders ==
  ASSUME BInv, OnlyRestartsDelayed, ScanClear, ReadQueued PROVE LiveAhead' /\ Passed'
<1> DEFINE ready == {i \in InStatus(runs, {"queued"}) : runs[i].due /\ runs[i].event \notin except}
<1> USE DEF BInv, IInv
<1>1. /\ todo' = Oldest(ready, ScheduleBatch) /\ loop = "scan" /\ ready \in SUBSET Ids
      /\ UNCHANGED <<runs, pc>>
  BY DEF ReadQueued, QueuedRuns, InStatus
<1>2. \A i \in todo' : i \in ready BY <1>1 DEF Oldest
<1>3. ASSUME NEW i \in todo' PROVE runs[i].status = "queued" /\ i \in Ids /\ Event(i) \in Events \ except
  BY <1>2, EventType DEF InStatus, Event
<1>4. ASSUME NEW i \in todo', QueuesThroughout(Event(i)) PROVE LiveRuns(Event(i)) = {}
  BY <1>1, <1>3, <1>4 DEF ScanClear
<1>5. LiveAhead'
  <2>1. \A i \in todo' : Event(i)' = Event(i) BY <1>1 DEF Event
  <2>2. \A e \in Events : LiveRuns(e)' = LiveRuns(e) BY <1>1 DEF LiveRuns
  <2>3. \A i \in todo' : runs'[i].status # "absent" BY <1>1, <1>3
  <2> QED BY <1>3, <1>4, <2>1, <2>2, <2>3 DEF LiveAhead, QueuesThroughout
<1>6. ASSUME NEW i \in todo', NEW j \in Ids \ todo', Ahead(j, i) PROVE FALSE
  <2>1. runs[j].due BY <1>6 DEF Ahead, OnlyRestartsDelayed
  <2>2. j \in ready BY <1>2, <1>6, <2>1 DEF Ahead, InStatus
  <2>3. j < i /\ ScheduleBatch \in Nat BY <1>6, DispatcherAssumption DEF Ahead
  <2>4. j \in Oldest(ready, ScheduleBatch) BY <1>1, <2>2, <2>3, OldestFromBelow
  <2> QED BY <1>1, <1>6, <2>4
<1>7. Passed'
  <2>1. \A i \in todo', j \in Ids : Ahead(j, i)' <=> Ahead(j, i) BY <1>1 DEF Ahead
  <2> QED BY <1>6, <2>1 DEF Passed
<1> QED BY <1>5, <1>7

\* What a step does to the rows that schedule has before it.
Handled ==
  /\ loop \in {"rows", "start"} /\ todo' \subseteq todo
  /\ \A k \in Ids : Start(k) => k \in Oldest(todo, 1) /\ todo' = todo \ {k}
  /\ \A j \in todo \ todo' : todo' # {} /\ runs'[j].status = "queued" =>
       ~QueuesThroughout(Event(j)) \/ LiveRuns(Event(j)) # {}

LEMMA HandledOrders ==
  ASSUME BInv, BInv', Ends, Ends', Handing, Ordering, [Next]_vars, Handled
  PROVE  LiveAhead' /\ Passed'
<1> USE DEF BInv, IInv, Ordering
<1>0. loop \in {"rows", "start"} /\ todo' \subseteq todo /\ todo \subseteq Ids
  BY DEF Handled, TypeOK
<1>1. ASSUME NEW i \in todo'
      PROVE  /\ i \in todo /\ i \in Ids /\ runs[i].status # "absent" /\ runs'[i].status # "absent"
             /\ Event(i)' = Event(i) /\ Event(i) \in Events
  <2>1. i \in todo /\ i \in Ids /\ runs[i].status # "absent" BY <1>0 DEF LiveAhead
  <2> QED BY <1>0, <2>1, RowsStand, EventType DEF Event
<1>2. ASSUME NEW i \in todo', NEW e \in Events, e = Event(i), QueuesThroughout(e),
             NEW k \in LiveRuns(e)'
      PROVE  k < i /\ Unhanded(k)'
  <2>1. CASE k \in LiveRuns(e)
    <3>1. k \in Ids /\ k < i /\ Unhanded(k)
      BY <1>0, <1>1, <1>2, <2>1 DEF LiveAhead, LiveRuns
    <3>2. runs[k].status # "absent" BY <3>1 DEF Unhanded, Outcomes
    <3> QED BY <1>0, <3>1, <3>2, RowsStand
  <2>2. CASE Start(k) /\ runs' # runs
    <3>1. k \in Ids BY <1>2 DEF LiveRuns
    <3>2. k \in Oldest(todo, 1) /\ i \in todo \ {k} BY <2>2, <3>1 DEF Handled
    <3>3. todo \in SUBSET Ids BY <1>0
    <3>4. k <= i /\ k # i BY <3>2, <3>3, OldestIsLeast
    <3>5. k < i BY <1>1, <3>1, <3>4 DEF Ids
    <3> QED BY <2>2, <3>1, <3>5, StartedUnhanded
  <2>3. CASE Start(k) /\ runs' = runs
    <3>1. UNCHANGED pc BY <2>3 DEF Start
    <3>2. k \in LiveRuns(e) BY <1>1, <1>2, <2>3, <3>1 DEF LiveRuns
    <3> QED BY <2>1, <3>2
  <2> QED BY <1>0, <1>1, <1>2, <2>1, <2>2, <2>3, LiveStand
<1>3. LiveAhead' BY <1>1, <1>2 DEF LiveAhead, QueuesThroughout
<1>4. ASSUME NEW i \in todo', QueuesThroughout(Event(i)), NEW j \in Ids \ todo', Ahead(j, i)'
      PROVE  \E k \in Ids : k < j /\ Event(k)' = Event(i) /\ Unhanded(k)'
  <2>1. runs[j].status # "absent"
    <3>1. j < i BY <1>4 DEF Ahead
    <3>2. i \in Ids /\ ~(i > lastId) BY <1>1 DEF Backed, UnusedRows
    <3>3. ~(j > lastId) BY <3>1, <3>2, RunsAssumption DEF Ids, TypeOK
    <3>4. SameRun(runs, runs', j) BY <1>0, <3>3, ScheduleRepeatsNone DEF NoRetry, FirstAttempt
    <3> QED BY <1>4, <3>4 DEF Ahead, SameRun
  <2>2. Ahead(j, i) BY <1>0, <1>1, <1>4, <2>1, RowsStand DEF Ahead, Event
  <2>3. PICK k \in Ids : k < j /\ Event(k) = Event(i) /\ Unhanded(k)
    <3>1. CASE j \notin todo BY <1>1, <1>4, <2>2, <3>1, <1>0 DEF Passed
    <3>2. CASE j \in todo
      <4>1. runs'[j].status = "queued" /\ Event(j) = Event(i)
        BY <1>4, <2>2 DEF Ahead, Event
      <4>2. LiveRuns(Event(i)) # {} BY <1>4, <3>2, <4>1 DEF Handled
      <4>3. PICK k \in LiveRuns(Event(i)) : TRUE BY <4>2
      <4>4. k < j /\ Unhanded(k) BY <1>0, <1>4, <3>2, <4>1, <4>3 DEF LiveAhead
      <4>5. k \in Ids /\ Event(k) = Event(i) BY <4>3 DEF LiveRuns, Event
      <4> QED BY <4>4, <4>5
    <3> QED BY <3>1, <3>2
  <2>4. runs[k].status # "absent" BY <2>3 DEF Unhanded, Outcomes
  <2>5. Event(k)' = Event(i) /\ Unhanded(k)' BY <1>0, <2>3, <2>4, RowsStand DEF Event
  <2> QED BY <2>3, <2>5
<1>5. Passed' BY <1>1, <1>4 DEF Passed, QueuesThroughout
<1> QED BY <1>3, <1>5

\* Every turn over a row handles it, or keeps it because a run of its event goes on.
LEMMA RowsHandled == ASSUME BInv, NEW i \in Ids, HandleRow(i) PROVE Handled
<1> USE DEF BInv, IInv
<1>0. todo \in SUBSET Ids BY DEF TypeOK
<1>1. loop \in {"rows", "start"} /\ i \in Oldest(todo, 1)
  BY DEF HandleRow, SettleReplaced, CheckRow, DropRow, SkipRow, KeepRow, ReplaceRun, Start, AtRow
<1>2. i \in todo BY <1>1 DEF Oldest
<1>3. todo' \subseteq todo
  BY DEF HandleRow, SettleReplaced, CheckRow, DropRow, SkipRow, KeepRow, ReplaceRun, Start, RowDone
<1>4. ASSUME NEW k \in Ids, Start(k) PROVE k \in Oldest(todo, 1) /\ todo' = todo \ {k}
  BY <1>4 DEF Start, AtRow, RowDone
<1>5. ASSUME RowDone(i, TRUE), runs'[i].status # "queued" PROVE Handled
  BY <1>1, <1>3, <1>4, <1>5 DEF Handled, RowDone
<1>6. ASSUME NEW st \in {"skipped", "dropped"}, SettleRow(i, st), RowDone(i, TRUE) PROVE Handled
  <2>1. runs'[i].status # "queued" BY <1>6 DEF SettleRow, Settle, SetStatus, TypeOK, Row
  <2> QED BY <1>5, <1>6, <2>1
<1>7. CASE CheckRow(i)
  <2>1. todo' = {} \/ todo' = todo BY <1>7 DEF CheckRow
  <2> QED BY <1>1, <1>3, <1>4, <2>1 DEF Handled
<1>8. CASE KeepRow(i)
  <2>1. running[Event(i)] > 0 /\ todo' = todo \ {i} BY <1>8 DEF KeepRow, Busy, RowDone
  <2>2. Event(i) \in Events BY EventType
  <2>3. LiveRuns(Event(i)) # {}
    BY <2>1, <2>2, FS_EmptySet DEF Counting, RunningCounts
  <2> QED BY <1>1, <1>3, <1>4, <2>1, <2>3 DEF Handled
<1>9. CASE ReplaceRun(i)
  <2>1. Policy(Event(i)) = "replace" /\ todo' = todo \ {i} BY <1>9 DEF ReplaceRun, RowDone
  <2>2. ~QueuesThroughout(Event(i)) BY <2>1, EventType, QueuesType
  <2> QED BY <1>1, <1>3, <1>4, <2>1, <2>2 DEF Handled
<1>10. CASE Start(i)
  <2>1. todo' = todo \ {i} BY <1>4, <1>10
  <2>2. runs'[i].status # "queued" BY <1>10 DEF Start, StartRun, SetStatus, TypeOK, Row
  <2> QED BY <1>1, <1>3, <1>4, <2>1, <2>2 DEF Handled
<1> QED
  BY <1>6, <1>7, <1>8, <1>9, <1>10 DEF HandleRow, SettleReplaced, DropRow, SkipRow

\* Which steps go into a batch, or go on with one.
LEMMA ScheduleSteps ==
  ASSUME [Next]_vars, loop' \in {"scan", "rows", "start"}
  PROVE  \/ BeginScan \/ ReadQueued \/ \E i \in Ids : HandleRow(i)
         \/ UNCHANGED <<loop, todo, except>> /\ ~ \E i \in Ids : Start(i)
<1>0. ASSUME UNCHANGED loop, NEW i \in Ids PROVE ~Start(i) BY <1>0 DEF Start, AtRow, RowDone
<1>1. CASE Outside \/ UNCHANGED vars
  BY <1>0, <1>1 DEF vars, Outside, Fire, CancelEvent, CancelRun, BecomeDue, Submit, LongDowntime
<1>2. CASE Process
  BY <1>0, <1>2 DEF Process, StartAgent, Configure, Recover, StartLoop, Stop, WaitReturns, StopLoop,
                    ExitAgent, Crash, LoseMemory
<1>3. CASE Loop
  BY <1>3 DEF Loop, Wake, Tick, BeginStep, ReadEnded, EndStep, ProcessCancel, FollowRun
<1>4. ASSUME NEW i \in Ids, Run(i) PROVE UNCHANGED <<loop, todo, except>>
  BY <1>4 DEF Run, CommandEnds, RecordRun, ReleaseRun, EnqueueRestart, EndRun
<1> QED BY <1>0, <1>1, <1>2, <1>3, <1>4 DEF Next

LEMMA ScanBegins == ASSUME BInv, BeginScan PROVE ScanClear'
<1> USE DEF BInv, IInv
<1>1. except' = {e \in Events : running[e] > 0 /\ Policy(e) = "queue"} /\ UNCHANGED <<runs, pc>>
  BY DEF BeginScan
<1>2. ASSUME NEW e \in Events \ except', QueuesThroughout(e) PROVE LiveRuns(e)' = {}
  <2>1. running[e] = 0 BY <1>1, <1>2, QueuesType DEF TypeOK
  <2>2. Cardinality(LiveRuns(e)) = 0 BY <2>1 DEF Counting, RunningCounts
  <2>3. LiveRuns(e) = {} BY <2>2, LiveRunsFinite, FS_EmptySet
  <2> QED BY <1>1, <2>3 DEF LiveRuns
<1> QED BY <1>2 DEF ScanClear, QueuesThroughout

LEMMA NextOrdering ==
  ASSUME BInv, BInv', Ends, Ends', Handing, Ordering, [Next]_vars PROVE Ordering'
<1> USE DEF Ordering
<1>1. OnlyRestartsDelayed' BY DelaysKept
<1>2. ScanClear'
  <2>1. ASSUME loop' = "scan", UNCHANGED <<loop, except>>, ~ \E i \in Ids : Start(i) PROVE ScanClear'
    <3>1. ASSUME NEW e \in Events, LiveRuns(e) = {} PROVE LiveRuns(e)' = {}
      <4>1. ASSUME NEW k \in LiveRuns(e)' PROVE FALSE
        <5>1. k \in Ids BY DEF LiveRuns
        <5> QED BY <2>1, <3>1, <5>1, LiveStand
      <4> QED BY <4>1
    <3> QED BY <2>1, <3>1 DEF ScanClear, QueuesThroughout
  <2>2. ASSUME NEW i \in Ids, HandleRow(i) PROVE loop' # "scan"
    BY <2>2 DEF HandleRow, SettleReplaced, CheckRow, DropRow, SkipRow, KeepRow, ReplaceRun, Start,
                RowDone
  <2>3. ReadQueued => loop' # "scan" BY DEF ReadQueued
  <2>4. CASE loop' # "scan" BY <2>4 DEF ScanClear
  <2> QED BY <2>1, <2>2, <2>3, <2>4, ScanBegins, ScheduleSteps
<1>3. LiveAhead' /\ Passed'
  <2>1. CASE loop' \notin {"rows", "start"} BY <2>1 DEF LiveAhead, Passed
  <2>2. CASE loop' \in {"rows", "start"}
    <3>1. ~BeginScan BY <2>2 DEF BeginScan
    <3>2. CASE ReadQueued BY <3>2, ReadOrders
    <3>3. ASSUME NEW i \in Ids, HandleRow(i) PROVE Handled BY <3>3, RowsHandled
    <3>4. CASE UNCHANGED <<loop, todo, except>> /\ ~ \E i \in Ids : Start(i)
      <4>1. Handled BY <2>2, <3>4 DEF Handled
      <4> QED BY <4>1, HandledOrders
    <3>5. CASE Handled BY <3>5, HandledOrders
    <3> QED BY <2>2, <3>1, <3>2, <3>3, <3>4, <3>5, ScheduleSteps
  <2> QED BY <2>1, <2>2
<1> QED BY <1>1, <1>2, <1>3

LEMMA InitOrdering == ASSUME Init PROVE Ordering
<1>1. \A j \in Ids : runs[j].due BY DEF Init, EmptyTable, NewRun
<1> QED BY <1>1 DEF Init, Ordering, OnlyRestartsDelayed, ScanClear, LiveAhead, Passed

\* A run of such an event that starts before an older firing overtakes it because of a
\* third, older still, whose end was not handed over yet.
OvertakesAfterEnd ==
  [][\A i, j \in Ids : Starts(i) /\ QueuesThroughout(Event(i)) /\ Ahead(j, i) =>
       \E k \in Ids : /\ k < j /\ Event(k) = Event(i)
                      /\ runs[k].status \in Outcomes /\ ~runs[k].followed]_vars

LEMMA StepOvertakes ==
  ASSUME BInv, Ordering, [Next]_vars, NEW i \in Ids, NEW j \in Ids,
         Starts(i), QueuesThroughout(Event(i)), Ahead(j, i)
  PROVE  \E k \in Ids : /\ k < j /\ Event(k) = Event(i)
                        /\ runs[k].status \in Outcomes /\ ~runs[k].followed
<1> USE DEF BInv, IInv
<1>1. Start(i) BY OnlyStartStarts
<1>2. loop = "start" /\ i \in Oldest(todo, 1) BY <1>1 DEF Start, AtRow
<1>3. todo \in SUBSET Ids BY DEF TypeOK
<1>4. i \in todo /\ \A m \in todo : i <= m BY <1>2, <1>3, OldestIsLeast
<1>5. j < i BY DEF Ahead
<1>6. j \notin todo BY <1>4, <1>5 DEF Ids
<1>7. PICK k \in Ids : k < j /\ Event(k) = Event(i) /\ Unhanded(k)
  BY <1>2, <1>4, <1>6 DEF Ordering, Passed
<1>8. Policy(Event(i)) = "queue" BY EventType, QueuesType
<1>9. LiveRuns(Event(i)) = {} BY <1>1, <1>8, StartIsExclusive
<1>10. agent \notin {"down", "recovering"} BY <1>2 DEF Control, IdleUntilUp
<1>11. runs[k].status # "running"
  BY <1>7, <1>9, <1>10 DEF Backed, RowsAgree, LiveRuns, Event
<1> QED BY <1>7, <1>11 DEF Unhanded

\* docs/runs.md has the waiting runs of a queue start "in the order they were queued".
\* For an event that every definition queues, a run starts before an older firing only
\* when a still older run of the event ended and was not handed over yet: it was started
\* and released within the batch of rows that schedule had read (schedule, finish).
THEOREM OvertakenAfterEnd == Spec => OvertakesAfterEnd
<1>1. Init => Ordering BY InitOrdering
<1>2. BInv /\ BInv' /\ Ends /\ Ends' /\ Handing /\ Ordering /\ [Next]_vars => Ordering'
  BY NextOrdering
<1>3. BInv /\ Ordering /\ [Next]_vars =>
        [\A i, j \in Ids : Starts(i) /\ QueuesThroughout(Event(i)) /\ Ahead(j, i) =>
           \E k \in Ids : /\ k < j /\ Event(k) = Event(i)
                          /\ runs[k].status \in Outcomes /\ ~runs[k].followed]_vars
  BY StepOvertakes
<1> QED BY <1>1, <1>2, <1>3, BackedInvariant, OnlyEndsAreHanded, FiredAtMostOnce, PTL
        DEF Spec, OvertakesAfterEnd
=============================================================================
