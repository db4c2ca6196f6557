---------------------------- MODULE WakeupProofs -----------------------------
(***************************************************************************)
(* The proof that the loop of the dispatcher loses no wakeup: what it has  *)
(* not seen when it goes to sleep, a poke, a commit or the end of a run    *)
(* will wake it for.                                                       *)
(***************************************************************************)
EXTENDS DispatcherProofs

USE DEF dbVars, procVars, scanVars, mapVars, runVars

-----------------------------------------------------------------------------
\* Batches

LEMMA IdSets ==
  ASSUME NEW S \in SUBSET Ids
  PROVE  S \subseteq Nat /\ IsFiniteSet(S) /\ Cardinality(S) \in Nat
<1>1. Ids \subseteq Nat BY RunsAssumption DEF Ids
<1>2. 1 \in Int /\ MaxRuns \in Int BY RunsAssumption
<1>3. IsFiniteSet(Ids) BY <1>2, FS_Interval DEF Ids
<1>4. IsFiniteSet(S) BY <1>3, FS_Subset
<1> QED BY <1>1, <1>4, FS_CardinalityType

\* A set of IDs has a greatest and a least one.
LEMMA Greatest ==
  ASSUME NEW S \in SUBSET Ids, S # {} PROVE \E m \in S : \A j \in S : j <= m
<1> DEFINE above(i) == {j \in S : j > i}
           sets     == {above(i) : i \in S}
<1>1. S \subseteq Nat /\ IsFiniteSet(S) BY IdSets
<1>2. sets \subseteq FiniteSubsetsOf(S) /\ sets # {}
  <2>1. FiniteSubsetsOf(S) = SUBSET S BY <1>1, FS_FiniteSubsetsOfFinite
  <2>2. \A u \in sets : u \in SUBSET S OBVIOUS
  <2>3. sets # {} OBVIOUS
  <2> QED BY <2>1, <2>2, <2>3
<1>3. IsWellFoundedOn(StrictSubsetOrdering(S), FiniteSubsetsOf(S))
  BY FS_StrictSubsetOrderingWellFounded
<1> HIDE DEF sets
<1>4. PICK m \in sets : \A u \in sets : <<u, m>> \notin StrictSubsetOrdering(S)
  BY <1>2, <1>3, WFMin
<1>5. PICK i \in S : m = above(i) BY <1>4 DEF sets
<1>6. ASSUME NEW j \in S, j > i PROVE FALSE
  <2>1. above(j) \in sets BY DEF sets
  <2>2. \A x \in S : x > j => x > i BY <1>1, <1>6
  <2>3. j \in above(i) /\ j \notin above(j) BY <1>1, <1>6
  <2>4. above(j) # above(i) /\ above(j) \subseteq above(i) BY <2>2, <2>3
  <2>5. <<above(j), above(i)>> \in StrictSubsetOrdering(S) BY <2>4 DEF StrictSubsetOrdering
  <2> QED BY <1>4, <1>5, <2>1, <2>5
<1> QED BY <1>1, <1>6

LEMMA Least ==
  ASSUME NEW S \in SUBSET Ids, S # {} PROVE \E m \in S : \A j \in S : m <= j
<1> DEFINE below(i) == {j \in S : j < i}
           sets     == {below(i) : i \in S}
<1>1. S \subseteq Nat /\ IsFiniteSet(S) BY IdSets
<1>2. sets \subseteq FiniteSubsetsOf(S) /\ sets # {}
  <2>1. FiniteSubsetsOf(S) = SUBSET S BY <1>1, FS_FiniteSubsetsOfFinite
  <2>2. \A u \in sets : u \in SUBSET S OBVIOUS
  <2>3. sets # {} OBVIOUS
  <2> QED BY <2>1, <2>2, <2>3
<1>3. IsWellFoundedOn(StrictSubsetOrdering(S), FiniteSubsetsOf(S))
  BY FS_StrictSubsetOrderingWellFounded
<1> HIDE DEF sets
<1>4. PICK m \in sets : \A u \in sets : <<u, m>> \notin StrictSubsetOrdering(S)
  BY <1>2, <1>3, WFMin
<1>5. PICK i \in S : m = below(i) BY <1>4 DEF sets
<1>6. ASSUME NEW j \in S, j < i PROVE FALSE
  <2>1. below(j) \in sets BY DEF sets
  <2>2. \A x \in S : x < j => x < i BY <1>1, <1>6
  <2>3. j \in below(i) /\ j \notin below(j) BY <1>1, <1>6
  <2>4. below(j) # below(i) /\ below(j) \subseteq below(i) BY <2>2, <2>3
  <2>5. <<below(j), below(i)>> \in StrictSubsetOrdering(S) BY <2>4 DEF StrictSubsetOrdering
  <2> QED BY <1>4, <1>5, <2>1, <2>5
<1> QED BY <1>1, <1>6

\* A batch that leaves a row out is as large as its limit.
LEMMA OldestFull ==
  ASSUME NEW S \in SUBSET Ids, NEW n \in Nat, NEW i \in S \ Oldest(S, n)
  PROVE  Cardinality(Oldest(S, n)) = n
<1> DEFINE below(x) == {j \in S : j < x}
           left     == {x \in S : ~(Cardinality(below(x)) < n)}
<1>1. S \subseteq Nat /\ IsFiniteSet(S) BY IdSets
<1>2. \A x : IsFiniteSet(below(x)) /\ Cardinality(below(x)) \in Nat
  <2> TAKE x
  <2>1. below(x) \in SUBSET Ids OBVIOUS
  <2> QED BY <2>1, IdSets
<1>3. i \in left /\ left \in SUBSET Ids BY DEF Oldest
<1>4. PICK m \in left : \A j \in left : m <= j BY <1>3, Least
<1>5. ASSUME NEW j \in S, j >= m PROVE Cardinality(below(j)) >= n
  <2>0. \A x \in S : x < m => x < j BY <1>1, <1>4, <1>5
  <2>1. below(m) \subseteq below(j) BY <2>0
  <2>2. Cardinality(below(m)) <= Cardinality(below(j)) BY <1>2, <2>1, FS_Subset
  <2>3. Cardinality(below(m)) >= n BY <1>2, <1>4
  <2> QED BY <1>2, <2>2, <2>3
<1>6. ASSUME NEW j \in S, j < m PROVE Cardinality(below(j)) < n BY <1>1, <1>4, <1>6
<1>7. Oldest(S, n) = below(m)
  <2>1. ASSUME NEW j \in S PROVE Cardinality(below(j)) < n <=> j < m
    BY <1>1, <1>2, <1>4, <1>5, <1>6
  <2> QED BY <2>1 DEF Oldest
<1>8. Cardinality(below(m)) >= n BY <1>2, <1>4
<1>9. Cardinality(below(m)) <= n
  <2>1. CASE below(m) = {} BY <2>1, FS_EmptySet
  <2>2. CASE below(m) # {}
    <3>1. PICK k \in below(m) : \A j \in below(m) : j <= k BY <2>2, Greatest
    <3>2. \A x \in S : x < m <=> x < k \/ x = k BY <1>1, <1>4, <3>1
    <3>3. below(m) = below(k) \cup {k} BY <3>1, <3>2
    <3>4. k \notin below(k) BY <1>1
    <3>5. Cardinality(below(m)) = Cardinality(below(k)) + 1 BY <1>2, <3>3, <3>4, FS_AddElement
    <3>6. Cardinality(below(k)) < n BY <1>6, <3>1
    <3> QED BY <1>2, <3>5, <3>6
  <2> QED BY <2>1, <2>2
<1> QED BY <1>2, <1>7, <1>8, <1>9

LEMMA OldestOne == ASSUME NEW S \in SUBSET Ids, NEW i \in Oldest(S, 1), NEW j \in Oldest(S, 1) PROVE i = j
<1>1. SUFFICES ASSUME NEW k \in Oldest(S, 1), NEW m \in Oldest(S, 1), k < m PROVE FALSE
  <2>1. i \in Ids /\ j \in Ids BY DEF Oldest
  <2>2. ~(i < j) /\ ~(j < i) BY <1>1
  <2> QED BY <2>1, <2>2, RunsAssumption DEF Ids
<1> DEFINE below == {n \in S : n < m}
<1>2. below \in SUBSET Ids /\ k \in below BY <1>1 DEF Oldest
<1>3. IsFiniteSet(below) /\ Cardinality(below) \in Nat BY <1>2, IdSets
<1>4. Cardinality(below) = 0 BY <1>3 DEF Oldest
<1> QED BY <1>2, <1>3, <1>4, FS_EmptySet

-----------------------------------------------------------------------------
\* What the rows and the batches keep

\* Only restarts are delayed.
DueKnown ==
  \A i \in Ids : runs[i].kind # "restart" => runs[i].due /\ i \notin nextDue \cup raced

QueuedUnasked == \A i \in Ids : runs[i].status = "queued" => ~runs[i].cancelReq

\* The loop reads before it handles: no batch names a row that is not there.
BatchRead == \A i \in todo \cup newest \cup nextDue \cup raced : i <= lastId

NewestDiffer == \A m, n \in newest : Event(m) = Event(n) => m = n

\* The row at hand passed the check of schedule.
RowChecked == loop = "start" => \A i \in Oldest(todo, 1) : ~Superseded(i)

LoopRuns == agent = "up" => loop \notin {"off", "recover"}

Batches == DueKnown /\ QueuedUnasked /\ BatchRead /\ NewestDiffer /\ RowChecked /\ LoopRuns

\* Row j stays what it is, and does not go back into the queue.
Stable(t, u, j) ==
  /\ u[j].event = t[j].event /\ u[j].kind = t[j].kind
  /\ t[j].due => u[j].due
  /\ u[j].status = "queued" => t[j].status = "queued" /\ u[j].cancelReq = t[j].cancelReq

\* Row j is new.
Fresh(j) ==
  /\ j > lastId /\ ~runs'[j].cancelReq
  /\ runs'[j].kind # "restart" => runs'[j].due

RowsStable == \A j \in Ids : Stable(runs, runs', j) \/ Fresh(j)

LEMMA StatementsStable ==
  ASSUME NEW t \in [Ids -> Row], NEW i \in Ids, NEW S, NEW j \in Ids
  PROVE  /\ Stable(t, t, j)
         /\ \A st \in {"skipped", "dropped"} : Stable(t, Settle(t, i, st), j)
         /\ \A st \in {"succeeded", "failed", "canceled", "interrupted"} :
              Stable(t, FinishRun(t, i, st), j)
         /\ Stable(t, StartRun(t, i), j)
         /\ Stable(t, RequestCancel(t, S), j)
         /\ Stable(t, Abandon(t, i), j)
         /\ Stable(t, Prune(t), j)
BY DEF Stable, SetStatus, Settle, StartRun, FinishRun, RequestCancel, Abandon, Prune, Row

LEMMA InsertStable ==
  ASSUME TypeOK, lastId < MaxRuns, NEW r \in Row, ~r.cancelReq, r.kind # "restart" => r.due,
         NEW max, runs' = Insert(runs, lastId + 1, r, max)
  PROVE  RowsStable
<1>1. lastId \in Nat /\ lastId + 1 \in Ids BY NextIdType, RunsAssumption DEF TypeOK
<1>2. \A j \in Ids \ {lastId + 1} : runs'[j] = runs[j] BY <1>1, InsertKeeps DEF TypeOK
<1>3. Fresh(lastId + 1) BY <1>1 DEF TypeOK, Insert, Row, Fresh
<1> QED BY <1>2, <1>3 DEF RowsStable, Stable

LEMMA OutsideStable == ASSUME BInv, Outside PROVE RowsStable
<1> USE DEF BInv, IInv
<1>1. ASSUME NEW e \in Events, NEW max, lastId < MaxRuns,
             runs' = Insert(runs, lastId + 1, NewRun(e, "fire", 0), max)
      PROVE  RowsStable
  <2>1. NewRun(e, "fire", 0) \in Row BY NewRunType, NoRunType DEF Kind
  <2> QED BY <1>1, <2>1, InsertStable DEF NewRun
<1>2. ASSUME NEW e \in Events, Fire(e) PROVE RowsStable
  BY <1>1, <1>2, RunsAssumption, DispatcherAssumption DEF Fire, TypeOK
<1>3. ASSUME NEW e \in Events, NEW wait \in BOOLEAN, Submit(e, wait) PROVE RowsStable
  BY <1>1, <1>3, RunsAssumption, DispatcherAssumption DEF Submit, TypeOK
<1>4. ASSUME NEW e \in Events, CancelEvent(e) PROVE RowsStable
  BY <1>4, StatementsStable DEF CancelEvent, TypeOK, RowsStable
<1>5. ASSUME NEW i \in Ids, CancelRun(i) PROVE RowsStable
  BY <1>5, StatementsStable DEF CancelRun, TypeOK, RowsStable
<1>6. ASSUME NEW i \in Ids, BecomeDue(i) PROVE RowsStable
  BY <1>6 DEF BecomeDue, RowsStable, Stable, TypeOK, Row
<1>7. ASSUME LongDowntime PROVE RowsStable
  BY <1>7 DEF LongDowntime, RowsStable, Stable, TypeOK, Row
<1> QED BY <1>2, <1>3, <1>4, <1>5, <1>6, <1>7 DEF Outside

LEMMA ProcessStable == ASSUME BInv, Batches, Process PROVE RowsStable
<1> USE DEF BInv, IInv, TypeOK
<1>1. ASSUME NEW i \in Ids, Recover(i) PROVE RowsStable
  <2>1. CASE runs' = Abandon(runs, i) BY <2>1, StatementsStable DEF RowsStable
  <2>2. CASE lastId < MaxRuns /\ runs' = Retry(runs, i, lastId + 1)
    <3> DEFINE n == lastId + 1
    <3>1. n \in Ids /\ lastId \in Nat BY <2>2, NextIdType, RunsAssumption
    <3>2. i # n
      BY <1>1, <3>1 DEF Recover, Oldest, Control, IdleUntilUp, Backed, LeftOver, UnusedRows,
                        InterruptedRuns, InStatus
    <3>3. Fresh(n)
      <4>1. runs'[n] = [NewRun(Event(i), runs[i].kind, runs[i].after)
                          EXCEPT !.attempt = runs[i].attempt + 1, !.retryOf = i]
        BY <2>2, <3>1, <3>2 DEF Retry, Event
      <4>2. runs'[n].due /\ ~runs'[n].cancelReq BY <4>1 DEF NewRun
      <4> QED BY <3>1, <4>2 DEF Fresh
    <3>4. Stable(runs, runs', i) BY <2>2, <3>1, <3>2 DEF Stable, Retry, Row
    <3>5. \A j \in Ids \ {i, n} : runs'[j] = runs[j] BY <2>2, <3>1 DEF Retry
    <3> QED BY <3>3, <3>4, <3>5 DEF RowsStable, Stable
  <2> QED BY <1>1, <2>1, <2>2 DEF Recover
<1>2. ASSUME StartLoop PROVE RowsStable BY <1>2, StatementsStable DEF StartLoop, RowsStable
<1>3. ASSUME UNCHANGED runs PROVE RowsStable BY <1>3, StatementsStable DEF RowsStable
<1> QED
  BY <1>1, <1>2, <1>3 DEF Process, StartAgent, Configure, Stop, WaitReturns, StopLoop,
                          ExitAgent, Crash, LoseMemory

LEMMA FollowRunStable == ASSUME BInv, NEW i \in Ids, FollowRun(i) PROVE RowsStable
<1> DEFINE fired == Followers(i)
           n     == lastId + Cardinality(fired)
           max   == [e \in fired |-> QueueLimit(specs, e)]
<1> USE DEF BInv, IInv
<1>1. fired \subseteq Events BY DispatcherAssumption DEF TypeOK, Followers
<1>2. IsFiniteSet(fired) /\ Cardinality(fired) \in Nat
  BY <1>1, RunsAssumption, FS_Subset, FS_CardinalityType
<1>3. PICK slot \in [fired -> lastId + 1 .. n] : runs' = Follow(runs, i, slot, max)
  BY DEF FollowRun
<1>4. lastId \in Nat BY RunsAssumption DEF TypeOK
<1>5. ASSUME NEW j \in Ids, NEW e \in DOMAIN slot, slot[e] = j PROVE Fresh(j)
  <2> DEFINE f == CHOOSE f \in DOMAIN slot : slot[f] = j
             r == NewRun(f, "after", i)
  <2>1. f \in DOMAIN slot /\ slot[f] = j BY <1>5
  <2>2. f \in Events /\ i \in 0 .. MaxRuns BY <1>1, <2>1 DEF Ids
  <2>3. r \in Row /\ r.due /\ ~r.cancelReq BY <2>2, NewRunType DEF Kind, NewRun
  <2>4. runs'[j] = Insert(runs, j, r, max[f])[j] BY <1>3, <1>5 DEF Follow
  <2> HIDE DEF r
  <2>5. runs'[j].due /\ ~runs'[j].cancelReq BY <2>3, <2>4 DEF Insert, Row, TypeOK
  <2>6. j > lastId BY <1>2, <1>4, <2>1 DEF Ids
  <2> QED BY <2>5, <2>6 DEF Fresh
<1>6. ASSUME NEW j \in Ids, ~ \E e \in DOMAIN slot : slot[e] = j PROVE Stable(runs, runs', j)
  BY <1>3, <1>6 DEF Follow, Stable, TypeOK, Row
<1> QED BY <1>5, <1>6 DEF RowsStable

LEMMA LoopStable == ASSUME BInv, Loop PROVE RowsStable
<1> USE DEF BInv, IInv, TypeOK
<1>1. ASSUME UNCHANGED runs PROVE RowsStable BY <1>1, StatementsStable DEF RowsStable
<1>2. ASSUME NEW i \in Ids, ProcessCancel(i) PROVE RowsStable
  BY <1>1, <1>2, StatementsStable DEF ProcessCancel, RowsStable
<1>3. ASSUME NEW i \in Ids, HandleRow(i) PROVE RowsStable
  <2>1. ASSUME NEW st \in {"skipped", "dropped"}, SettleRow(i, st) PROVE RowsStable
    BY <2>1, StatementsStable DEF SettleRow, RowsStable
  <2>2. CASE Start(i) BY <2>2, StatementsStable DEF Start, RowsStable
  <2> QED
    BY <1>1, <1>3, <2>1, <2>2 DEF HandleRow, SettleReplaced, CheckRow, DropRow, SkipRow, KeepRow,
                                  ReplaceRun
<1> QED
  BY <1>1, <1>2, <1>3, FollowRunStable DEF Loop, Wake, Tick, ReadEnded, BeginScan, ReadQueued, EndStep

LEMMA RunStable == ASSUME BInv, NEW i \in Ids, Run(i) PROVE RowsStable
<1> USE DEF BInv, IInv
<1>1. CASE RecordRun(i)
  <2>1. out[i] \in {"succeeded", "failed", "canceled", "interrupted"}
    BY <1>1 DEF RecordRun, Counting, ExitedHasOutcome, TypeOK, Outcome
  <2>2. \A j \in Ids : Stable(runs, FinishRun(runs, i, out[i]), j)
    BY <2>1, StatementsStable DEF TypeOK
  <2> QED BY <1>1, <2>2 DEF RecordRun, RowsStable
<1>2. CASE EnqueueRestart(i)
  <2> DEFINE r == Delayed(NewRun(Event(i), "restart", 0))
  <2>1. PICK c \in Known : runs' = Insert(runs, lastId + 1, r, QueueLimit(c, Event(i)))
    BY <1>2 DEF EnqueueRestart
  <2>2. NewRun(Event(i), "restart", 0) \in Row BY NewRunType, NoRunType, EventType DEF Kind
  <2>3. r \in Row BY <2>2 DEF Delayed, Row
  <2>4. ~r.cancelReq /\ r.kind = "restart" BY DEF Delayed, NewRun
  <2>5. lastId < MaxRuns BY <1>2 DEF EnqueueRestart
  <2> HIDE DEF r
  <2> QED BY <2>1, <2>3, <2>4, <2>5, InsertStable
<1>3. CASE UNCHANGED runs BY <1>3, StatementsStable DEF RowsStable, TypeOK
<1> QED BY <1>1, <1>2, <1>3 DEF Run, CommandEnds, ReleaseRun, EndRun

\* A row that a batch may name stays what it is.
LEMMA ReadStable ==
  ASSUME TypeOK, Batches, RowsStable, NEW j \in todo \cup newest
  PROVE  j \in Ids /\ Stable(runs, runs', j)
<1>1. j \in Ids /\ j <= lastId BY DEF TypeOK, Batches, BatchRead
<1> QED BY <1>1, RunsAssumption DEF RowsStable, Fresh, TypeOK, Ids

\* What a step does with the batches.
BatchStep ==
  /\ \A j \in todo' : j \in todo \/ runs'[j].status # "absent"
  /\ newest' \subseteq newest \/ (loop = "scan" /\ ReadQueued)
  /\ \A j \in nextDue' \cup raced' :
       j \in nextDue \cup raced \/ (runs[j].status = "queued" /\ ~runs[j].due)
  /\ loop' = "start" => /\ todo' = todo /\ newest' = newest
                        /\ loop = "start" \/ \A i \in Oldest(todo, 1) : ~Superseded(i)
  /\ agent' = "up" => agent = "up" \/ loop' = "cancels"
  /\ agent' = "up" /\ loop' \in {"off", "recover"} => loop' = loop

LEMMA BatchesKept ==
  ASSUME BInv, BInv', Batches, lastId <= lastId', RowsStable, BatchStep
  PROVE  Batches'
<1> USE DEF BInv, IInv
<1>1. lastId \in Nat /\ lastId' \in Nat BY RunsAssumption DEF TypeOK
<1>2. QueuedUnasked' BY DEF RowsStable, Stable, Fresh, QueuedUnasked, Batches
<1>2a. \A j \in nextDue' \cup raced' : j \in Ids /\ j <= lastId
  BY <1>1 DEF BatchStep, Batches, BatchRead, Backed, UnusedRows, TypeOK, Ids
<1>2b. DueKnown'
  <2>1. SUFFICES ASSUME NEW i \in Ids, runs'[i].kind # "restart"
                 PROVE  runs'[i].due /\ i \notin nextDue' \cup raced'
    BY DEF DueKnown
  <2>2. CASE Stable(runs, runs', i) BY <2>1, <2>2 DEF Stable, BatchStep, Batches, DueKnown
  <2>3. CASE Fresh(i) BY <1>1, <1>2a, <2>1, <2>3, RunsAssumption DEF Fresh, Ids
  <2> QED BY <2>2, <2>3 DEF RowsStable
<1>3. \A j \in Ids : runs'[j].status # "absent" => j <= lastId'
  BY <1>1 DEF Backed, UnusedRows, Ids
<1>4. ReadQueued => newest' \subseteq todo'
  BY DEF ReadQueued
<1>5. ReadQueued => \A m, n \in newest' : Event(m)' = Event(n)' => m = n
  <2>1. SUFFICES ASSUME ReadQueued, NEW m \in newest', NEW n \in newest', Event(m)' = Event(n)'
                 PROVE m = n
    OBVIOUS
  <2>2. m \in Ids /\ n \in Ids BY <2>1 DEF TypeOK
  <2>3. Event(m) = Event(n) BY <2>1 DEF ReadQueued, Event
  <2>4. m <= n /\ n <= m BY <2>1, <2>3 DEF ReadQueued
  <2> QED BY <2>2, <2>4, RunsAssumption DEF Ids
<1>6. BatchRead'
  <2>1. \A j \in todo' : j <= lastId'
    <3>1. \A j \in todo' : j \in Ids BY DEF TypeOK
    <3> QED BY <1>1, <1>3, <3>1, RunsAssumption DEF BatchStep, Batches, BatchRead, Ids
  <2>2. \A j \in newest' : j \in newest \/ j \in todo' BY <1>4 DEF BatchStep
  <2>3. \A j \in nextDue' \cup raced' : j <= lastId' BY <1>1, <1>2a, RunsAssumption DEF Ids
  <2> QED BY <1>1, <2>1, <2>2, <2>3, RunsAssumption DEF Batches, BatchRead, TypeOK, Ids
<1>7. NewestDiffer'
  <2>1. CASE newest' \subseteq newest
    BY <2>1, ReadStable DEF NewestDiffer, Batches, Stable, Event
  <2> QED BY <1>5, <2>1 DEF BatchStep, NewestDiffer
<1>8. RowChecked'
  <2>1. SUFFICES ASSUME loop' = "start", NEW i \in Oldest(todo', 1) PROVE ~Superseded(i)'
    BY DEF RowChecked
  <2>2. i \in Oldest(todo, 1) /\ newest' = newest /\ ~Superseded(i)
    BY <2>1 DEF BatchStep, Batches, RowChecked
  <2>3. i \in todo BY <2>2 DEF Oldest
  <2>4. \A n \in newest \cup {i} : Event(n)' = Event(n)
    BY <2>3, ReadStable DEF Stable, Event
  <2> QED BY <2>2, <2>4 DEF Superseded
<1>9. LoopRuns' BY DEF BatchStep, LoopRuns, Batches
<1> QED BY <1>2, <1>2b, <1>6, <1>7, <1>8, <1>9 DEF Batches

LEMMA IdsGrow == ASSUME BInv, Next PROVE lastId <= lastId'
<1> USE DEF BInv, IInv
<1>1. lastId \in Nat BY RunsAssumption DEF TypeOK
<1>2. ASSUME NEW i \in Ids, FollowRun(i) PROVE lastId <= lastId'
  <2>1. Followers(i) \subseteq Events BY DispatcherAssumption DEF TypeOK, Followers
  <2>2. Cardinality(Followers(i)) \in Nat
    BY <2>1, RunsAssumption, FS_Subset, FS_CardinalityType
  <2> QED BY <1>1, <1>2, <2>2 DEF FollowRun
<1>3. CASE Outside
  <2>1. ASSUME NEW e \in Events, Fire(e) PROVE lastId' = lastId + 1 BY <2>1 DEF Fire
  <2>2. ASSUME NEW e \in Events, NEW wait \in BOOLEAN, Submit(e, wait)
        PROVE  lastId' = lastId + 1
    BY <2>2 DEF Submit
  <2>3. ASSUME NEW e \in Events, CancelEvent(e) PROVE lastId' = lastId BY <2>3 DEF CancelEvent
  <2>4. ASSUME NEW i \in Ids, CancelRun(i) \/ BecomeDue(i) PROVE lastId' = lastId
    BY <2>4 DEF CancelRun, BecomeDue
  <2>5. LongDowntime => lastId' = lastId BY DEF LongDowntime
  <2> QED BY <1>1, <1>3, <2>1, <2>2, <2>3, <2>4, <2>5 DEF Outside
<1>4. CASE Process
  BY <1>1, <1>4 DEF Process, StartAgent, Configure, Recover, StartLoop, Stop, WaitReturns, StopLoop,
                    ExitAgent, Crash, LoseMemory
<1>5. ASSUME NEW i \in Ids, HandleRow(i) PROVE lastId <= lastId'
  BY <1>1, <1>5 DEF HandleRow, SettleReplaced, CheckRow, DropRow, SkipRow, KeepRow, ReplaceRun,
                    Start, RowDone
<1>6. CASE Loop
  BY <1>1, <1>2, <1>5, <1>6 DEF Loop, Wake, Tick, ReadEnded, BeginScan, ReadQueued, EndStep,
                                ProcessCancel
<1>7. ASSUME NEW i \in Ids, Run(i) PROVE lastId <= lastId'
  BY <1>1, <1>7 DEF Run, CommandEnds, RecordRun, ReleaseRun, EnqueueRestart, EndRun
<1> QED BY <1>3, <1>4, <1>6, <1>7 DEF Next

LEMMA NextBatch == ASSUME BInv, Batches, Next PROVE BatchStep
<1> USE DEF BInv, IInv
<1>1. ASSUME UNCHANGED <<agent, loop, todo, newest, nextDue>>,
             \A j \in raced' : j \in raced \/ (runs[j].status = "queued" /\ ~runs[j].due)
      PROVE  BatchStep
  BY <1>1 DEF BatchStep, Batches, RowChecked, Oldest
<1>2. CASE Outside
  BY <1>1, <1>2 DEF Outside, Fire, CancelEvent, CancelRun, BecomeDue, Submit, LongDowntime
<1>3. CASE \E i \in Ids : Run(i)
  BY <1>1, <1>3 DEF Run, CommandEnds, RecordRun, ReleaseRun, EnqueueRestart, EndRun
<1>4. CASE Process
  <2>1. ASSUME NEW c \in Configs, StartAgent(c) PROVE BatchStep
    BY <2>1 DEF StartAgent, BatchStep, InterruptedRuns, InStatus
  <2>2. ASSUME NEW c \in Configs, Configure(c) PROVE BatchStep BY <1>1, <2>2 DEF Configure
  <2>3. ASSUME NEW i \in Ids, Recover(i) PROVE BatchStep
    BY <2>3 DEF Recover, BatchStep, Control, IdleUntilUp
  <2>4. CASE StartLoop BY <2>4 DEF StartLoop, BatchStep, CancelRequests, InStatus
  <2>5. CASE Stop \/ WaitReturns
    BY <2>5 DEF Stop, WaitReturns, BatchStep, Batches, RowChecked
  <2>6. CASE StopLoop BY <2>6 DEF StopLoop, BatchStep
  <2>7. CASE ExitAgent \/ Crash BY <2>7 DEF ExitAgent, Crash, LoseMemory, BatchStep
  <2> QED BY <1>4, <2>1, <2>2, <2>3, <2>4, <2>5, <2>6, <2>7 DEF Process
<1>5. CASE Loop
  <2>1. CASE Wake \/ Tick
    BY <2>1 DEF Wake, Tick, BeginStep, BatchStep, CancelRequests, InStatus
  <2>2. CASE ReadEnded
    BY <2>2 DEF ReadEnded, BatchStep, UnfollowedRuns, Oldest, InStatus, Final
  <2>3. CASE BeginScan \/ EndStep
    BY <2>3 DEF BeginScan, EndStep, BatchStep, WaitingRuns, InStatus
  <2>4. CASE ReadQueued
    BY <2>4 DEF ReadQueued, BatchStep, QueuedRuns, Oldest, InStatus
  <2>5. ASSUME NEW i \in Ids, ProcessCancel(i) \/ FollowRun(i) PROVE BatchStep
    BY <2>5 DEF ProcessCancel, FollowRun, BatchStep
  <2>6. ASSUME NEW i \in Ids, HandleRow(i) PROVE BatchStep
    <3>1. CASE CheckRow(i)
      <4>1. \A j \in Oldest(todo, 1) : j = i
        BY <3>1, OldestOne DEF CheckRow, TypeOK
      <4> QED BY <3>1, <4>1 DEF CheckRow, BatchStep
    <3>2. ASSUME NEW p, RowDone(i, p) PROVE BatchStep BY <2>6, <3>2 DEF RowDone, BatchStep, HandleRow
    <3> QED
      BY <2>6, <3>1, <3>2 DEF HandleRow, SettleReplaced, DropRow, SkipRow, KeepRow, ReplaceRun, Start
  <2> QED BY <1>5, <2>1, <2>2, <2>3, <2>4, <2>5, <2>6 DEF Loop
<1> QED BY <1>2, <1>3, <1>4, <1>5 DEF Next

LEMMA NextBatches == ASSUME BInv, BInv', Batches, [Next]_vars PROVE Batches'
<1>1. CASE UNCHANGED vars
  BY <1>1 DEF vars, Batches, DueKnown, QueuedUnasked, BatchRead, NewestDiffer, RowChecked, LoopRuns,
              Superseded, Event
<1>2. CASE Next
  <2>1. RowsStable
    BY <1>2, OutsideStable, ProcessStable, LoopStable, RunStable DEF Next
  <2>2. lastId <= lastId' BY <1>2, IdsGrow
  <2>3. BatchStep BY <1>2, NextBatch
  <2> QED BY <2>1, <2>2, <2>3, BatchesKept
<1> QED BY <1>1, <1>2

-----------------------------------------------------------------------------
\* Cancel requests

\* A request that has not reached the run.
CancelOpen(i) == runs[i].status = "running" /\ runs[i].cancelReq /\ ctx[i] = "live"

\* Every request is a commit that the loop still has to notice, or one that
\* processCancels has in hand.
CancelsSeen ==
  agent = "up" /\ ~dirty => \A i \in Ids : CancelOpen(i) => loop = "cancels" /\ i \in todo

LEMMA CancelsKept ==
  ASSUME CancelsSeen, agent' = "up" => agent = "up", dirty => dirty',
         \A j \in Ids : CancelOpen(j)' =>
           /\ CancelOpen(j)
           /\ loop = "cancels" /\ j \in todo => loop' = "cancels" /\ j \in todo'
  PROVE  CancelsSeen'
BY DEF CancelsSeen

LEMMA CancelsRead ==
  ASSUME BInv', loop' = "cancels", todo' = CancelRequests(runs') PROVE CancelsSeen'
BY DEF CancelsSeen, CancelOpen, CancelRequests, InStatus

LEMMA OutsideCancels == ASSUME BInv, Batches, CancelsSeen, Outside PROVE CancelsSeen'
<1> USE DEF BInv, IInv, TypeOK
<1>1. ASSUME External, UNCHANGED <<agent, loop>> PROVE CancelsSeen'
  BY <1>1 DEF External, CancelsSeen, Batches, LoopRuns
<1>2. ASSUME NEW e \in Events, Fire(e) \/ CancelEvent(e) PROVE CancelsSeen'
  BY <1>1, <1>2 DEF Fire, CancelEvent
<1>3. ASSUME NEW i \in Ids, CancelRun(i) PROVE CancelsSeen' BY <1>1, <1>3 DEF CancelRun
<1>4. ASSUME NEW i \in Ids, BecomeDue(i) PROVE CancelsSeen'
  <2>1. \A j \in Ids : CancelOpen(j)' => CancelOpen(j) BY <1>4 DEF BecomeDue, CancelOpen, Row
  <2> QED BY <1>4, <2>1, CancelsKept DEF BecomeDue
<1>5. ASSUME LongDowntime PROVE CancelsSeen' BY <1>5 DEF LongDowntime, CancelsSeen
<1>6. ASSUME NEW e \in Events, NEW wait \in BOOLEAN, Submit(e, wait) PROVE CancelsSeen'
  <2>1. PICK c \in Known :
          runs' = Insert(runs, lastId + 1, NewRun(e, "fire", 0), QueueLimit(c, e))
    BY <1>6 DEF Submit
  <2>2. lastId + 1 \in Ids
    BY <1>6, NextIdType, RunsAssumption, DispatcherAssumption DEF Submit
  <2>3. NewRun(e, "fire", 0) \in Row BY NewRunType, NoRunType DEF Kind
  <2>4. runs'[lastId + 1].status # "running"
    BY <2>1, <2>2, <2>3 DEF Insert, Row, NewRun
  <2>5. \A j \in Ids \ {lastId + 1} : runs'[j] = runs[j] BY <2>1, <2>2, <2>3, InsertKeeps
  <2>6. \A j \in Ids : CancelOpen(j)' => CancelOpen(j)
    BY <1>6, <2>4, <2>5 DEF Submit, CancelOpen
  <2> QED BY <1>6, <2>6, CancelsKept DEF Submit
<1> QED BY <1>2, <1>3, <1>4, <1>5, <1>6 DEF Outside

LEMMA ProcessCancels == ASSUME BInv, BInv', CancelsSeen, Process PROVE CancelsSeen'
<1>1. ASSUME agent' # "up" PROVE CancelsSeen' BY <1>1 DEF CancelsSeen
<1>2. ASSUME NEW c \in Configs, Configure(c) PROVE CancelsSeen'
  <2>1. \A j \in Ids : CancelOpen(j)' => CancelOpen(j) BY <1>2 DEF Configure, CancelOpen
  <2> QED BY <1>2, <2>1, CancelsKept DEF Configure
<1>3. CASE StartLoop BY <1>3, CancelsRead DEF StartLoop
<1>4. ASSUME NEW i \in Ids, Recover(i) PROVE agent' # "up"
  BY <1>4 DEF Recover, BInv, Control, IdleUntilUp
<1> QED
  BY <1>1, <1>2, <1>3, <1>4 DEF Process, StartAgent, Stop, WaitReturns, StopLoop, ExitAgent, Crash,
                               LoseMemory

\* What a turn of follow inserts is queued or dropped, and marks its run.
LEMMA FollowRunRows ==
  ASSUME BInv, NEW i \in Ids, FollowRun(i), NEW j \in Ids
  PROVE  \/ j \in lastId + 1 .. lastId' /\ runs'[j].status \in {"queued", "dropped"}
         \/ j # i /\ runs'[j] = runs[j]
         \/ j = i /\ runs'[j] = [runs[i] EXCEPT !.followed = TRUE]
<1> DEFINE fired == Followers(i)
           n     == lastId + Cardinality(fired)
           max   == [e \in fired |-> QueueLimit(specs, e)]
<1> USE DEF BInv, IInv
<1>1. fired \subseteq Events BY DispatcherAssumption DEF TypeOK, Followers
<1>2. lastId' = n BY DEF FollowRun
<1>3. PICK slot \in [fired -> lastId + 1 .. n] : runs' = Follow(runs, i, slot, max)
  BY DEF FollowRun
<1>4. CASE \E e \in DOMAIN slot : slot[e] = j
  <2> DEFINE f == CHOOSE f \in DOMAIN slot : slot[f] = j
             r == NewRun(f, "after", i)
  <2>1. f \in DOMAIN slot /\ slot[f] = j BY <1>4
  <2>2. f \in Events /\ i \in 0 .. MaxRuns BY <1>1, <2>1 DEF Ids
  <2>3. r \in Row /\ r.status = "queued" BY <2>2, NewRunType DEF Kind, NewRun
  <2>4. runs'[j] = Insert(runs, j, r, max[f])[j] BY <1>3, <1>4 DEF Follow
  <2> HIDE DEF r
  <2>5. runs'[j].status \in {"queued", "dropped"} BY <2>3, <2>4 DEF Insert, Row, TypeOK
  <2> QED BY <1>2, <2>1, <2>5
<1>5. CASE ~ \E e \in DOMAIN slot : slot[e] = j
  BY <1>3, <1>5 DEF Follow
<1> QED BY <1>4, <1>5

LEMMA LoopCancels == ASSUME BInv, BInv', Batches, CancelsSeen, Loop PROVE CancelsSeen'
<1> USE DEF BInv, IInv, TypeOK
<1>1. CASE Wake \/ Tick
  <2>1. agent' = "up" => loop' = "cancels" /\ todo' = CancelRequests(runs')
    BY <1>1 DEF Wake, Tick, BeginStep, Stopping
  <2> QED BY <2>1, CancelsRead DEF CancelsSeen
<1>2. CASE ReadEnded \/ BeginScan \/ ReadQueued \/ EndStep
  <2>1. \A j \in Ids : CancelOpen(j)' => CancelOpen(j)
    BY <1>2 DEF ReadEnded, BeginScan, ReadQueued, EndStep, CancelOpen
  <2>2. ~(loop = "cancels" /\ todo # {}) /\ UNCHANGED <<agent, dirty>>
    BY <1>2 DEF ReadEnded, BeginScan, ReadQueued, EndStep
  <2> QED BY <2>1, <2>2, CancelsKept
<1>3. ASSUME NEW i \in Ids, ProcessCancel(i) PROVE CancelsSeen'
  <2>1. ~CancelOpen(i)'
    BY <1>3 DEF ProcessCancel, CancelOpen, FinishRun, Row, CtxState
  <2>2. ASSUME NEW j \in Ids \ {i}, CancelOpen(j)' PROVE CancelOpen(j)
    BY <1>3, <2>2 DEF ProcessCancel, CancelOpen, FinishRun
  <2> QED BY <1>3, <2>1, <2>2, CancelsKept DEF ProcessCancel
<1>4. ASSUME NEW i \in Ids, FollowRun(i) PROVE CancelsSeen'
  <2>1. \A j \in Ids : CancelOpen(j)' => CancelOpen(j)
    <3> TAKE j \in Ids
    <3>1. ctx' = ctx BY <1>4 DEF FollowRun
    <3>2. CASE runs'[j].status \in {"queued", "dropped"} BY <3>2 DEF CancelOpen
    <3>3. CASE runs'[j] = runs[j] BY <3>1, <3>3 DEF CancelOpen
    <3>4. CASE j = i /\ runs'[j] = [runs[i] EXCEPT !.followed = TRUE]
      BY <3>1, <3>4 DEF CancelOpen, Row
    <3> QED BY <1>4, <3>2, <3>3, <3>4, FollowRunRows
  <2> QED BY <1>4, <2>1, CancelsKept DEF FollowRun
<1>5. ASSUME NEW i \in Ids, HandleRow(i) PROVE CancelsSeen'
  <2>1. loop \in {"rows", "start"} /\ UNCHANGED <<agent, dirty>>
    BY <1>5 DEF HandleRow, SettleReplaced, CheckRow, DropRow, SkipRow, KeepRow, ReplaceRun, Start,
                AtRow, RowDone
  <2>2. ASSUME NEW st \in {"skipped", "dropped"}, SettleRow(i, st) PROVE CancelsSeen'
    <3>1. \A j \in Ids : CancelOpen(j)' => CancelOpen(j)
      BY <2>2 DEF SettleRow, Settle, SetStatus, CancelOpen, Row
    <3> QED BY <2>1, <3>1, CancelsKept
  <2>3. CASE CheckRow(i) \/ KeepRow(i)
    <3>1. \A j \in Ids : CancelOpen(j)' => CancelOpen(j)
      BY <2>3 DEF CheckRow, KeepRow, CancelOpen
    <3> QED BY <2>1, <3>1, CancelsKept
  <2>4. CASE ReplaceRun(i)
    <3>1. \A j \in Ids : CancelOpen(j)' => CancelOpen(j)
      BY <2>4 DEF ReplaceRun, CancelOpen
    <3> QED BY <2>1, <3>1, CancelsKept
  <2>5. CASE Start(i)
    <3>1. CASE runs' = runs
      <4>1. \A j \in Ids : CancelOpen(j)' => CancelOpen(j) BY <2>5, <3>1 DEF Start, CancelOpen
      <4> QED BY <2>1, <4>1, CancelsKept
    <3>2. CASE runs' # runs
      <4>1. runs[i].status = "queued" /\ runs' = SetStatus(runs, i, "running")
        BY <2>5, <3>2 DEF Start, StartRun
      <4>2. ~runs'[i].cancelReq /\ \A j \in Ids \ {i} : runs'[j] = runs[j]
        BY <4>1 DEF SetStatus, Row, Batches, QueuedUnasked
      <4>3. \A j \in Ids \ {i} : ctx'[j] = ctx[j] BY <2>5, <3>2 DEF Start
      <4>4. \A j \in Ids : CancelOpen(j)' => CancelOpen(j) BY <4>2, <4>3 DEF CancelOpen
      <4> QED BY <2>1, <4>4, CancelsKept
    <3> QED BY <3>1, <3>2
  <2> QED
    BY <1>5, <2>2, <2>3, <2>4, <2>5 DEF HandleRow, SettleReplaced, DropRow, SkipRow
<1> QED BY <1>1, <1>2, <1>3, <1>4, <1>5 DEF Loop

LEMMA RunCancels == ASSUME BInv, CancelsSeen, NEW i \in Ids, Run(i) PROVE CancelsSeen'
<1> USE DEF BInv, IInv, TypeOK
<1>1. UNCHANGED <<agent, dirty, loop, todo>>
  BY DEF Run, CommandEnds, RecordRun, ReleaseRun, EnqueueRestart, EndRun
<1>2. ASSUME \A j \in Ids : CancelOpen(j)' => CancelOpen(j) PROVE CancelsSeen'
  BY <1>1, <1>2, CancelsKept
<1>3. CASE CommandEnds(i) \/ EndRun(i) BY <1>2, <1>3 DEF CommandEnds, EndRun, CancelOpen
<1>4. CASE RecordRun(i) BY <1>2, <1>4 DEF RecordRun, FinishRun, CancelOpen, Row
<1>5. CASE ReleaseRun(i) BY <1>2, <1>5 DEF ReleaseRun, CancelOpen
<1>6. CASE EnqueueRestart(i)
  <2> DEFINE r == Delayed(NewRun(Event(i), "restart", 0))
  <2>1. PICK c \in Known : runs' = Insert(runs, lastId + 1, r, QueueLimit(c, Event(i)))
    BY <1>6 DEF EnqueueRestart
  <2>2. NewRun(Event(i), "restart", 0) \in Row BY NewRunType, NoRunType, EventType DEF Kind
  <2>3. r \in Row /\ ~r.cancelReq BY <2>2 DEF Delayed, Row, NewRun
  <2>4. lastId + 1 \in Ids BY <1>6, NextIdType DEF EnqueueRestart
  <2> HIDE DEF r
  <2>5. ~runs'[lastId + 1].cancelReq /\ \A j \in Ids \ {lastId + 1} : runs'[j] = runs[j]
    BY <2>1, <2>3, <2>4, InsertKeeps DEF Insert, Row
  <2>6. ctx' = ctx BY <1>6 DEF EnqueueRestart
  <2>7. \A j \in Ids : CancelOpen(j)' => CancelOpen(j) BY <2>5, <2>6 DEF CancelOpen
  <2> QED BY <1>2, <2>7
<1> QED BY <1>3, <1>4, <1>5, <1>6 DEF Run

LEMMA NextCancels == ASSUME BInv, BInv', Batches, CancelsSeen, [Next]_vars PROVE CancelsSeen'
<1>1. CASE UNCHANGED vars BY <1>1 DEF vars, CancelsSeen, CancelOpen
<1> QED BY <1>1, OutsideCancels, ProcessCancels, LoopCancels, RunCancels DEF Next

-----------------------------------------------------------------------------
\* Queued rows and ended runs

\* finish is under way, and ends with a poke.
Finishing == \E i \in Ids : pc[i] \in {"recorded", "released", "poke"}

Woken == wake \/ dirty \/ Finishing

Handling == loop \in {"rows", "start"}

\* A row that is due, did not become so between the two readings of the clock, and
\* that no run of its event holds back.
Waits(i) ==
  /\ runs[i].status = "queued" /\ runs[i].due /\ i \notin raced
  /\ ~(Defined(Event(i)) /\ running[Event(i)] > 0)

\* This step of the loop still reads the row, or has it in its batch, or the loop
\* sleeps until the row is due.
QueueSeen ==
  \A i \in Ids : Waits(i) =>
    \/ loop \in {"cancels", "follow", "scan"}
    \/ Handling /\ (i \in todo \/ full)
    \/ loop = "idle" /\ i \in nextDue

\* The loop that sleeps knows every row that is not due yet.
DelaySeen ==
  loop = "idle" => \A i \in Ids : runs[i].status = "queued" /\ ~runs[i].due => i \in nextDue

EndsSeen ==
  \A i \in Ids : runs[i].status \in {"succeeded", "failed", "canceled"} /\ ~runs[i].followed =>
    loop = "cancels" \/ (loop = "follow" /\ (i \in todo \/ full))

\* What the scan leaves out is what runs and must wait, and nothing else.
BusyLeftOut ==
  loop = "scan" => except = {e \in Events : running[e] > 0 /\ Policy(e) = "queue"}

BatchQueued ==
  Handling => \A i \in todo :
    /\ runs[i].status = "queued"
    /\ Policy(Event(i)) = "replace" => \E n \in newest : Event(n) = Event(i)

\* A full batch in which no row has made progress: those that are handled are
\* newest rows of replace events, and the others are not of a busy queue.
FullBatch ==
  Handling /\ full =>
    /\ Cardinality(todo \cup newest) >= ScheduleBatch
    /\ \A i \in todo : Policy(Event(i)) = "queue" => running[Event(i)] = 0

Seen == QueueSeen /\ DelaySeen /\ EndsSeen /\ BusyLeftOut /\ BatchQueued /\ FullBatch

AllSeen == agent = "up" /\ ~Woken => Seen

\* What the properties read of row j does not change, or it is new and dropped.
SameView(j) ==
  \/ /\ runs'[j].status = runs[j].status /\ runs'[j].event = runs[j].event
     /\ runs'[j].due = runs[j].due /\ runs'[j].followed = runs[j].followed
  \/ j > lastId /\ runs'[j].status = "dropped"

LEMMA SeenFrame ==
  ASSUME BInv, Batches, AllSeen, \A j \in Ids : SameView(j),
         UNCHANGED <<agent, specs, loop, scanVars, running>>, Woken => Woken'
  PROVE  AllSeen'
<1> USE DEF BInv, IInv
<1>1. SUFFICES ASSUME agent = "up", ~Woken, Seen PROVE Seen' BY DEF AllSeen
<1>2. ASSUME NEW j \in todo \cup newest
      PROVE  j \in Ids /\ runs'[j].status = runs[j].status /\ Event(j)' = Event(j)
  <2>1. j \in Ids /\ j <= lastId BY DEF TypeOK, Batches, BatchRead
  <2> QED BY <2>1, RunsAssumption DEF SameView, Event, TypeOK, Ids
<1>3. Handling' = Handling /\ \A e : Policy(e)' = Policy(e) /\ Defined(e)' = Defined(e)
  BY DEF Handling, Policy, Defined
<1>4. \A j \in Ids : Waits(j)' => Waits(j) /\ Event(j)' = Event(j)
  BY DEF SameView, Waits, Event, Defined
<1>5. QueueSeen' BY <1>1, <1>3, <1>4 DEF Seen, QueueSeen
<1>5a. DelaySeen' BY <1>1 DEF Seen, DelaySeen, SameView
<1>6. EndsSeen' BY <1>1 DEF Seen, EndsSeen, SameView
<1>7. BusyLeftOut' BY <1>1, <1>3 DEF Seen, BusyLeftOut
<1>8. BatchQueued' BY <1>1, <1>2, <1>3 DEF Seen, BatchQueued
<1>9. FullBatch' BY <1>1, <1>2, <1>3 DEF Seen, FullBatch
<1> QED BY <1>5, <1>5a, <1>6, <1>7, <1>8, <1>9 DEF Seen

LEMMA OutsideSeen == ASSUME BInv, Batches, AllSeen, Outside PROVE AllSeen'
<1> USE DEF BInv, IInv
<1>1. ASSUME External, UNCHANGED <<agent, loop>> PROVE AllSeen'
  BY <1>1 DEF External, AllSeen, Batches, LoopRuns, Woken
<1>2. ASSUME NEW e \in Events, Fire(e) \/ CancelEvent(e) PROVE AllSeen'
  BY <1>1, <1>2 DEF Fire, CancelEvent
<1>3. ASSUME NEW i \in Ids, CancelRun(i) PROVE AllSeen' BY <1>1, <1>3 DEF CancelRun
<1>4. ASSUME UNCHANGED <<agent, specs, loop, scanVars, running, wake, dirty, pc>>,
             \A j \in Ids : SameView(j)
      PROVE  AllSeen'
  <2>1. Woken' = Woken BY <1>4 DEF Woken, Finishing
  <2> QED BY <1>4, <2>1, SeenFrame
<1>5. ASSUME NEW i \in Ids, BecomeDue(i) PROVE AllSeen'
  <2>1. SUFFICES ASSUME agent = "up", ~Woken, Seen PROVE Seen'
    BY <1>5 DEF BecomeDue, AllSeen, Woken, Finishing
  <2>2. /\ UNCHANGED <<specs, loop, todo, full, except, newest, nextDue, running>>
        /\ Handling' = Handling /\ loop \notin {"off", "recover"}
    BY <1>5, <2>1 DEF BecomeDue, Handling, Batches, LoopRuns
  <2>3. /\ \A j \in Ids \ {i} : runs'[j] = runs[j]
        /\ runs'[i] = [runs[i] EXCEPT !.due = TRUE]
    BY <1>5 DEF BecomeDue, TypeOK
  <2>4. \A j \in Ids : /\ runs'[j].status = runs[j].status /\ runs'[j].event = runs[j].event
                       /\ runs'[j].followed = runs[j].followed
    BY <2>3 DEF TypeOK, Row
  <2>5. \A j \in Ids : Event(j)' = Event(j) BY <2>4 DEF Event
  <2>6. \A e : Policy(e)' = Policy(e) /\ Defined(e)' = Defined(e) BY <2>2 DEF Policy, Defined
  <2>7. ASSUME NEW j \in Ids, Waits(j)', j # i PROVE Waits(j)
    <3>1. j \notin raced BY <1>5, <2>7 DEF BecomeDue, Waits
    <3> QED BY <2>2, <2>3, <2>5, <2>6, <2>7, <3>1 DEF Waits
  <2>8. ASSUME Waits(i)' PROVE loop \in {"cancels", "follow", "scan"} \/ (loop = "idle" /\ i \in nextDue)
    <3>1. ~Handling BY <1>5, <2>4, <2>8 DEF BecomeDue, Waits, Handling
    <3>2. loop = "idle" => i \in nextDue
      BY <1>5, <2>1, <2>4, <2>8 DEF BecomeDue, Waits, Seen, DelaySeen
    <3>3. loop \in {"idle", "cancels", "follow", "scan"}
      BY <2>2, <3>1 DEF Handling, TypeOK, LoopState
    <3> QED BY <3>2, <3>3
  <2>9. QueueSeen' BY <2>1, <2>2, <2>7, <2>8 DEF Seen, QueueSeen
  <2>10. DelaySeen' BY <2>1, <2>2, <2>3, <2>4 DEF Seen, DelaySeen, TypeOK, Row
  <2>11. EndsSeen' /\ BusyLeftOut' BY <2>1, <2>2, <2>4, <2>6 DEF Seen, EndsSeen, BusyLeftOut
  <2>12. todo \subseteq Ids /\ newest \subseteq Ids BY DEF TypeOK
  <2>13. BatchQueued' /\ FullBatch'
    BY <2>1, <2>2, <2>4, <2>5, <2>6, <2>12 DEF Seen, BatchQueued, FullBatch
  <2> QED BY <2>9, <2>10, <2>11, <2>13 DEF Seen
<1>6. ASSUME LongDowntime PROVE AllSeen' BY <1>6 DEF LongDowntime, AllSeen
<1>7. ASSUME NEW e \in Events, NEW wait \in BOOLEAN, Submit(e, wait) PROVE AllSeen'
  <2> DEFINE r == NewRun(e, "fire", 0)
  <2>1. PICK c \in Known : runs' = Insert(runs, lastId + 1, r, QueueLimit(c, e))
    BY <1>7 DEF Submit
  <2>2. lastId \in Nat /\ lastId + 1 \in Ids
    BY <1>7, NextIdType, RunsAssumption, DispatcherAssumption DEF Submit, TypeOK
  <2>3. r \in Row BY NewRunType, NoRunType DEF Kind
  <2> HIDE DEF r
  <2>4. \A j \in Ids \ {lastId + 1} : runs'[j] = runs[j] BY <2>1, <2>2, <2>3, InsertKeeps DEF TypeOK
  <2>5. CASE runs'[lastId + 1].status = "dropped"
    <3>1. \A j \in Ids : SameView(j) BY <2>2, <2>4, <2>5 DEF SameView
    <3>2. UNCHANGED wake BY <1>7, <2>5 DEF Submit
    <3> QED BY <1>4, <1>7, <3>1, <3>2 DEF Submit
  <2>6. CASE runs'[lastId + 1].status # "dropped"
    <3>1. wake' BY <1>7, <2>6 DEF Submit
    <3> QED BY <3>1 DEF AllSeen, Woken
  <2> QED BY <2>5, <2>6
<1> QED BY <1>2, <1>3, <1>5, <1>6, <1>7 DEF Outside

LEMMA ProcessSeen == ASSUME BInv, AllSeen, Process PROVE AllSeen'
<1>1. ASSUME agent' # "up" \/ wake' PROVE AllSeen' BY <1>1 DEF AllSeen, Woken
<1>2. CASE StartLoop
  BY <1>2 DEF StartLoop, AllSeen, Seen, QueueSeen, DelaySeen, EndsSeen, BusyLeftOut, BatchQueued, FullBatch,
              Handling
<1>3. ASSUME NEW i \in Ids, Recover(i) PROVE agent' # "up"
  BY <1>3 DEF Recover, BInv, Control, IdleUntilUp
<1> QED
  BY <1>1, <1>2, <1>3 DEF Process, StartAgent, Configure, Stop, WaitReturns, StopLoop, ExitAgent,
                          Crash, LoseMemory

LEMMA RunSeen == ASSUME BInv, Batches, AllSeen, NEW i \in Ids, Run(i) PROVE AllSeen'
<1> USE DEF BInv, IInv
<1>1. ASSUME pc'[i] \in {"recorded", "released", "poke"} PROVE AllSeen'
  BY <1>1 DEF AllSeen, Woken, Finishing
<1>2. CASE CommandEnds(i)
  <2>1. Finishing' = Finishing BY <1>2 DEF CommandEnds, Finishing, TypeOK
  <2>2. UNCHANGED <<runs, agent, specs, loop, scanVars, running, wake, dirty>>
    BY <1>2 DEF CommandEnds
  <2>3. Woken' = Woken BY <2>1, <2>2 DEF Woken
  <2>4. \A j \in Ids : SameView(j) BY <2>2 DEF SameView
  <2> QED BY <2>2, <2>3, <2>4, SeenFrame
<1>3. CASE RecordRun(i) \/ ReleaseRun(i) \/ EnqueueRestart(i)
  BY <1>1, <1>3 DEF RecordRun, ReleaseRun, EnqueueRestart, TypeOK
<1>4. CASE EndRun(i) BY <1>4 DEF EndRun, AllSeen, Woken
<1> QED BY <1>2, <1>3, <1>4 DEF Run

\* The loop is done with row i, and has seen it: it waits no longer, or it is the newest
\* row of its event in a full batch.
LEMMA RowSeen ==
  ASSUME BInv, Batches, Seen, Handling, NEW i \in Ids, i \in todo, todo' = todo \ {i},
         loop' = "rows", UNCHANGED <<specs, full, newest, raced>>,
         \A j \in Ids \ {i} : runs'[j] = runs[j],
         Event(i)' = Event(i), runs'[i].status \in {runs[i].status, "skipped", "dropped", "running"},
         runs'[i].followed = runs[i].followed,
         full => running' = running /\ i \in newest,
         ~full => ~Waits(i)' /\ \A e \in Events : running[e] > 0 => running'[e] > 0
  PROVE  Seen'
<1> USE DEF BInv, IInv
<1>1. \A j \in Ids : Event(j)' = Event(j) BY DEF Event
<1>2. \A e : Policy(e)' = Policy(e) /\ Defined(e)' = Defined(e) BY DEF Policy, Defined
<1>3. Handling' /\ loop \notin {"cancels", "follow", "scan"} BY DEF Handling
<1>4. \A j \in Ids : Event(j) \in Events BY EventType
<1>5. QueueSeen'
  <2>1. SUFFICES ASSUME NEW j \in Ids, Waits(j)', ~full PROVE j \in todo' BY <1>3 DEF QueueSeen
  <2>2. j # i BY <2>1
  <2>3. Waits(j) BY <1>1, <1>2, <1>4, <2>1, <2>2 DEF Waits
  <2> QED BY <1>3, <2>1, <2>2, <2>3 DEF Seen, QueueSeen, Handling
<1>5a. DelaySeen' BY DEF DelaySeen
<1>6. EndsSeen'
  BY <1>3 DEF Seen, EndsSeen
<1>7. BusyLeftOut' BY <1>3 DEF BusyLeftOut, Handling
<1>8. ASSUME NEW j \in todo \cup newest PROVE j \in Ids BY DEF TypeOK
<1>9. BatchQueued' BY <1>1, <1>2, <1>3, <1>8 DEF Seen, BatchQueued
<1>10. FullBatch'
  <2>1. full => todo' \cup newest' = todo \cup newest OBVIOUS
  <2> QED BY <1>1, <1>2, <1>3, <1>8, <2>1 DEF Seen, FullBatch
<1> QED BY <1>5, <1>5a, <1>6, <1>7, <1>9, <1>10 DEF Seen

LEMMA HandleRowSeen == ASSUME BInv, Batches, AllSeen, NEW i \in Ids, HandleRow(i) PROVE AllSeen'
<1> USE DEF BInv, IInv
<1>1. i \in Oldest(todo, 1) /\ i \in todo /\ Handling
  BY DEF HandleRow, SettleReplaced, CheckRow, DropRow, SkipRow, KeepRow, ReplaceRun, Start, AtRow,
         Oldest, Handling
<1>2. Event(i) \in Events BY EventType
<1>3. SUFFICES ASSUME agent' = "up", ~Woken' PROVE Seen' BY DEF AllSeen
<1>4. agent = "up" /\ ~Woken
  <2>1. UNCHANGED <<agent, dirty>> /\ (wake => wake')
    <3>1. ASSUME NEW p, RowDone(i, p) PROVE UNCHANGED <<agent, dirty>> /\ (wake => wake')
      BY <3>1 DEF RowDone
    <3>2. CASE CheckRow(i) BY <3>2 DEF CheckRow
    <3> QED
      BY <3>1, <3>2 DEF HandleRow, SettleReplaced, DropRow, SkipRow, KeepRow, ReplaceRun, Start
  <2>2. Finishing => Finishing'
    <3>1. CASE UNCHANGED pc BY <3>1 DEF Finishing
    <3>2. CASE runs' # runs /\ Start(i)
      <4>1. runs[i].status = "queued" /\ pc' = [pc EXCEPT ![i] = "exec"]
        BY <3>2 DEF Start, StartRun
      <4>2. pc[i] = "none" BY <4>1 DEF Counting, QueuedIdle
      <4> QED BY <4>1, <4>2 DEF Finishing, TypeOK
    <3> QED
      BY <3>1, <3>2 DEF HandleRow, SettleReplaced, CheckRow, DropRow, SkipRow, KeepRow, ReplaceRun,
                        Start, SettleRow
  <2> QED BY <1>3, <2>1, <2>2 DEF Woken
<1>5. Seen BY <1>4 DEF AllSeen
<1>6. ASSUME NEW p, RowDone(i, p)
      PROVE  /\ todo' = todo \ {i} /\ loop' = "rows" /\ UNCHANGED <<specs, full, newest, raced>>
             /\ p => ~full
  BY <1>3, <1>6 DEF RowDone, Woken
<1>7. ASSUME NEW st \in {"skipped", "dropped"}, SettleRow(i, st), RowDone(i, TRUE) PROVE Seen'
  <2>1. \A j \in Ids \ {i} : runs'[j] = runs[j] BY <1>7 DEF SettleRow, Settle, SetStatus, TypeOK
  <2>2. /\ runs'[i].event = runs[i].event /\ runs'[i].followed = runs[i].followed
        /\ runs'[i].status \in {runs[i].status, st} /\ runs'[i].status # "queued"
    BY <1>7 DEF SettleRow, Settle, SetStatus, TypeOK, Row
  <2>3. UNCHANGED running BY <1>7 DEF SettleRow
  <2>4. ~Waits(i)' BY <2>2 DEF Waits
  <2> QED BY <1>1, <1>5, <1>6, <1>7, <2>1, <2>2, <2>3, <2>4, RowSeen DEF Event
<1>8. CASE CheckRow(i)
  <2>1. /\ UNCHANGED <<runs, specs, todo, full, newest, raced, running>>
        /\ Handling' /\ loop' \notin {"scan", "idle"}
    BY <1>4, <1>8 DEF CheckRow, Stopping, Handling
  <2>2. \A j \in Ids : Waits(j)' = Waits(j) BY <2>1 DEF Waits, Event, Defined
  <2>3. loop \notin {"cancels", "follow", "scan", "idle"} BY <1>1 DEF Handling
  <2>4. QueueSeen' BY <1>1, <1>5, <2>1, <2>2, <2>3 DEF Seen, QueueSeen
  <2>5. EndsSeen' BY <1>5, <2>1, <2>3 DEF Seen, EndsSeen
  <2>6. BatchQueued' /\ FullBatch'
    BY <1>1, <1>5, <2>1 DEF Seen, BatchQueued, FullBatch, Event, Policy, Defined
  <2> QED BY <2>1, <2>4, <2>5, <2>6 DEF Seen, BusyLeftOut, DelaySeen
<1>9. CASE KeepRow(i)
  <2>1. Policy(Event(i)) = "queue" /\ running[Event(i)] > 0 /\ Defined(Event(i))
    BY <1>9 DEF KeepRow, Busy, Startable
  <2>2. ~full BY <1>1, <1>2, <1>5, <2>1 DEF Seen, FullBatch, TypeOK
  <2>3. UNCHANGED <<runs, running>> /\ RowDone(i, FALSE) BY <1>9 DEF KeepRow
  <2>4. ~Waits(i)' BY <1>6, <2>1, <2>3 DEF Waits, Event, Defined
  <2> QED BY <1>1, <1>5, <1>6, <2>2, <2>3, <2>4, RowSeen DEF Event
<1>10. CASE ReplaceRun(i)
  <2>1. Policy(Event(i)) = "replace" /\ running[Event(i)] > 0 /\ Defined(Event(i))
    BY <1>10 DEF ReplaceRun, Busy, Startable
  <2>2. ~Superseded(i) BY <1>1, <1>10 DEF ReplaceRun, AtRow, Batches, RowChecked
  <2>3. i \in newest BY <1>1, <1>5, <2>1, <2>2 DEF Seen, BatchQueued, Superseded
  <2>4. UNCHANGED <<runs, running>> /\ RowDone(i, FALSE) BY <1>10 DEF ReplaceRun
  <2>5. ~Waits(i)' BY <1>6, <2>1, <2>4 DEF Waits, Event, Defined
  <2> QED BY <1>1, <1>5, <1>6, <2>3, <2>4, <2>5, RowSeen DEF Event
<1>11. CASE Start(i)
  <2>1. runs[i].status = "queued" BY <1>1, <1>5 DEF Seen, BatchQueued
  <2>2. runs' = SetStatus(runs, i, "running") BY <1>11, <2>1 DEF Start, StartRun
  <2>3. /\ \A j \in Ids \ {i} : runs'[j] = runs[j]
        /\ runs'[i].event = runs[i].event /\ runs'[i].followed = runs[i].followed
        /\ runs'[i].status = "running"
    BY <2>2 DEF SetStatus, TypeOK, Row
  <2>4. runs' # runs BY <2>1, <2>3
  <2>5. running' = Counted(Event(i)) /\ RowDone(i, TRUE) BY <1>11, <2>4 DEF Start
  <2>6. \A e \in Events : running[e] > 0 => running'[e] > 0
    BY <2>5 DEF Counted, TypeOK
  <2>7. ~Waits(i)' BY <2>3 DEF Waits
  <2> QED BY <1>1, <1>5, <1>6, <2>3, <2>5, <2>6, <2>7, RowSeen DEF Event
<1> QED
  BY <1>7, <1>8, <1>9, <1>10, <1>11 DEF HandleRow, SettleReplaced, DropRow, SkipRow

\* The reads of the loop leave rows and maps alone.
LEMMA ReadSeen ==
  ASSUME BInv, Batches, AllSeen, Loop, \A i \in Ids : ~ProcessCancel(i) /\ ~FollowRun(i) /\ ~HandleRow(i),
         Cardinality(Events) < ScheduleBatch
  PROVE  AllSeen'
<1> USE DEF BInv, IInv
<1>1. CASE Wake \/ Tick
  <2>1. agent' = "up" => loop' = "cancels" BY <1>1 DEF Wake, Tick, BeginStep, Stopping
  <2> QED
    BY <2>1 DEF AllSeen, Seen, QueueSeen, DelaySeen, EndsSeen, BusyLeftOut, BatchQueued,
                FullBatch, Handling
<1>2. SUFFICES ASSUME ReadEnded \/ BeginScan \/ ReadQueued \/ EndStep, agent' = "up", ~Woken'
               PROVE  Seen'
  BY <1>1 DEF Loop, AllSeen
<1>3. /\ UNCHANGED <<runs, specs, running, agent, pc, dirty, wake>>
  BY <1>2 DEF ReadEnded, BeginScan, ReadQueued, EndStep
<1>4. Seen BY <1>2, <1>3 DEF AllSeen, Woken, Finishing
<1>5. \A j \in Ids : Event(j)' = Event(j) BY <1>3 DEF Event
<1>5a. ~ReadQueued => \A j \in Ids : Waits(j)' = Waits(j)
  <2>1. ~ReadQueued => UNCHANGED raced BY <1>2 DEF ReadEnded, BeginScan, EndStep
  <2> QED BY <1>3, <1>5, <2>1 DEF Waits, Defined
<1>6. \A e : Policy(e)' = Policy(e) BY <1>3 DEF Policy, Defined
<1>7. CASE ReadEnded
  <2> DEFINE ended == {j \in InStatus(runs, Final) : ~runs[j].followed}
  <2>1. loop' = "follow" /\ todo' = Oldest(ended, FollowBatch)
        /\ full' = (Cardinality(todo') = FollowBatch)
    BY <1>7 DEF ReadEnded, UnfollowedRuns
  <2>2. ASSUME NEW j \in Ids, runs[j].status \in {"succeeded", "failed", "canceled"}, ~runs[j].followed
        PROVE  j \in todo' \/ full'
    <3>1. j \in ended BY <2>2 DEF InStatus, Final
    <3>2. ended \in SUBSET Ids BY DEF InStatus
    <3> HIDE DEF ended
    <3> QED BY <2>1, <3>1, <3>2, OldestFull, DispatcherAssumption
  <2>3. EndsSeen' BY <1>3, <2>1, <2>2 DEF EndsSeen
  <2> QED
    BY <2>1, <2>3 DEF Seen, QueueSeen, DelaySeen, BusyLeftOut, BatchQueued, FullBatch, Handling
<1>8. CASE BeginScan
  <2>1. loop = "follow" /\ todo = {} /\ ~full /\ loop' = "scan"
        /\ except' = {e \in Events : running[e] > 0 /\ Policy(e) = "queue"}
    BY <1>8 DEF BeginScan
  <2>2. EndsSeen' BY <1>3, <1>4, <2>1 DEF Seen, EndsSeen
  <2>3. QueueSeen' /\ DelaySeen' BY <2>1 DEF QueueSeen, DelaySeen
  <2>4. BusyLeftOut' BY <1>3, <1>6, <2>1 DEF BusyLeftOut
  <2> QED BY <2>1, <2>2, <2>3, <2>4 DEF Seen, BatchQueued, FullBatch, Handling
<1>9. CASE ReadQueued
  <2> DEFINE S == {j \in InStatus(runs, {"queued"}) : runs[j].due /\ runs[j].event \notin except}
  <2>1. loop = "scan" /\ loop' = "rows" /\ todo' = Oldest(S, ScheduleBatch)
        /\ full' = (Cardinality(todo') = ScheduleBatch)
        /\ newest' = {j \in todo' : /\ Policy(Event(j)) = "replace"
                                    /\ \A k \in todo' : Event(k) = Event(j) => k <= j}
    BY <1>9 DEF ReadQueued, QueuedRuns
  <2>2. S \in SUBSET Ids BY DEF InStatus
  <2>3. todo' \in SUBSET Ids /\ todo' \subseteq S BY <2>1, <2>2 DEF Oldest
  <2>4. QueueSeen'
    <3>1. SUFFICES ASSUME NEW j \in Ids, Waits(j)' PROVE j \in todo' \/ full'
      BY <2>1 DEF QueueSeen, Handling
    <3>2. /\ runs[j].status = "queued" /\ runs[j].due
          /\ ~(Defined(Event(j)) /\ running[Event(j)] > 0)
      BY <1>3, <1>5, <3>1 DEF Waits, Defined
    <3>3. except = {e \in Events : running[e] > 0 /\ Policy(e) = "queue"}
      BY <1>4, <2>1 DEF Seen, BusyLeftOut
    <3>4. Event(j) \notin except BY <3>2, <3>3 DEF Policy
    <3>5. j \in S BY <3>2, <3>4 DEF InStatus, Event
    <3> HIDE DEF S
    <3> QED BY <2>1, <2>2, <3>5, OldestFull, DispatcherAssumption
  <2>5. EndsSeen' BY <1>3, <1>4, <2>1 DEF Seen, EndsSeen
  <2>6. ASSUME NEW j \in todo' PROVE runs[j].status = "queued" /\ Event(j) \notin except /\ j \in Ids
    BY <2>3 DEF InStatus, Event
  <2>7. ASSUME NEW j \in todo', Policy(Event(j)) = "replace"
        PROVE  \E n \in newest' : Event(n) = Event(j)
    <3> DEFINE same == {k \in todo' : Event(k) = Event(j)}
    <3>1. same \in SUBSET Ids /\ same # {} BY <2>3
    <3>2. PICK n \in same : \A k \in same : k <= n BY <3>1, Greatest
    <3> QED BY <2>1, <2>7, <3>2
  <2>8. BatchQueued' 
    <3>1. \A j \in todo' \cup newest' : Event(j)' = Event(j) BY <1>5, <2>1, <2>3
    <3> QED BY <1>3, <1>6, <2>6, <2>7, <3>1 DEF BatchQueued
  <2>9. FullBatch'
    <3>1. SUFFICES ASSUME full'
                   PROVE  /\ Cardinality(todo' \cup newest') >= ScheduleBatch
                          /\ \A j \in todo' : Policy(Event(j))' = "queue" => running'[Event(j)'] = 0
      BY DEF FullBatch
    <3>2. todo' \cup newest' = todo' BY <2>1
    <3>3. \A j \in todo' : Policy(Event(j)) = "queue" => ~(running[Event(j)] > 0)
      BY <1>4, <2>1, <2>6, EventType DEF Seen, BusyLeftOut
    <3>4. ASSUME NEW j \in todo', Policy(Event(j))' = "queue" PROVE running'[Event(j)'] = 0
      <4>1. Event(j)' = Event(j) /\ Event(j) \in Events BY <1>5, <2>6, EventType
      <4>2. Policy(Event(j)) = "queue" BY <1>3, <3>4 DEF Policy, Defined, Event
      <4> QED BY <1>3, <3>3, <4>1, <4>2 DEF TypeOK
    <3>5. Cardinality(todo') = ScheduleBatch BY <2>1, <3>1
    <3>6. Cardinality(todo' \cup newest') = ScheduleBatch BY <3>2, <3>5, Zenon
    <3>7. Cardinality(todo' \cup newest') >= ScheduleBatch BY <3>6, DispatcherAssumption
    <3> QED BY <3>4, <3>7
  <2> QED BY <2>1, <2>4, <2>5, <2>8, <2>9 DEF Seen, BusyLeftOut, DelaySeen
<1>10. CASE EndStep
  <2>1. Handling /\ loop = "rows" /\ todo = {} /\ loop' = "idle" BY <1>10 DEF EndStep, Handling
  <2>2. ~full
    <3>1. SUFFICES ASSUME full PROVE FALSE OBVIOUS
    <3>2. Cardinality(newest) >= ScheduleBatch
      <4>1. todo \cup newest = newest BY <2>1
      <4> QED BY <1>4, <2>1, <3>1, <4>1 DEF Seen, FullBatch
    <3>3. newest \in SUBSET Ids BY DEF TypeOK
    <3>4. IsFiniteSet(newest) /\ Cardinality(newest) \in Nat BY <3>3, IdSets
    <3>5. IsFiniteSet(Events) /\ Cardinality(Events) \in Nat
      BY RunsAssumption, FS_CardinalityType
    <3>6. Cardinality(Events) < Cardinality(newest)
      BY <3>2, <3>4, <3>5, DispatcherAssumption
    <3> DEFINE f == [n \in newest |-> Event(n)]
    <3>7. f \in [newest -> Events] BY <3>3, EventType
    <3>8. \E m, n \in newest : m # n /\ f[m] = f[n]
      <4> HIDE DEF f
      <4> QED BY <3>4, <3>5, <3>6, <3>7, FS_PigeonHole
    <3> QED BY <3>8 DEF Batches, NewestDiffer
  <2>3. QueueSeen'
    <3>1. \A j \in Ids : ~Waits(j)
      BY <1>4, <2>1, <2>2 DEF Seen, QueueSeen
    <3>2. ~ReadQueued BY <2>1 DEF ReadQueued
    <3> QED BY <1>5a, <3>1, <3>2 DEF QueueSeen
  <2>4. EndsSeen' BY <1>3, <1>4, <2>1 DEF Seen, EndsSeen
  <2>5. DelaySeen' BY <1>10 DEF EndStep, DelaySeen, WaitingRuns, InStatus
  <2> QED BY <2>1, <2>3, <2>4, <2>5 DEF Seen, BusyLeftOut, BatchQueued, FullBatch, Handling
<1> QED BY <1>2, <1>7, <1>8, <1>9, <1>10

LEMMA LoopSeen ==
  ASSUME BInv, Batches, AllSeen, Loop, Cardinality(Events) < ScheduleBatch PROVE AllSeen'
<1> USE DEF BInv, IInv
<1>1. ASSUME NEW i \in Ids, ProcessCancel(i) PROVE AllSeen'
  <2>1. loop' = "cancels" BY <1>1 DEF ProcessCancel
  <2> QED
    BY <2>1 DEF AllSeen, Seen, QueueSeen, DelaySeen, EndsSeen, BusyLeftOut, BatchQueued,
                FullBatch, Handling
<1>2. ASSUME NEW i \in Ids, FollowRun(i) PROVE AllSeen'
  <2>1. SUFFICES ASSUME agent' = "up", ~Woken' PROVE Seen' BY DEF AllSeen
  <2>2. UNCHANGED <<agent, dirty, pc>> /\ (wake => wake') BY <1>2 DEF FollowRun
  <2>3. agent = "up" /\ ~Woken BY <2>1, <2>2 DEF Woken, Finishing
  <2>4. Seen BY <2>3 DEF AllSeen
  <2>5. loop = "follow" /\ loop' = "follow" /\ todo' = todo \ {i} /\ UNCHANGED full
    BY <1>2 DEF FollowRun
  <2>6. ASSUME NEW j \in Ids, runs'[j].status \in {"succeeded", "failed", "canceled"},
               ~runs'[j].followed
        PROVE  j # i /\ runs'[j] = runs[j]
    <3>1. runs[j] \in Row BY DEF TypeOK
    <3>2. CASE j = i /\ runs'[j] = [runs[i] EXCEPT !.followed = TRUE]
      BY <2>6, <3>1, <3>2 DEF Row
    <3> QED BY <1>2, <2>6, <3>2, FollowRunRows
  <2>7. EndsSeen' BY <2>4, <2>5, <2>6 DEF Seen, EndsSeen
  <2> QED
    BY <2>5, <2>7 DEF Seen, QueueSeen, DelaySeen, BusyLeftOut, BatchQueued, FullBatch, Handling
<1>3. ASSUME NEW i \in Ids, HandleRow(i) PROVE AllSeen' BY <1>3, HandleRowSeen
<1> QED BY <1>1, <1>2, <1>3, ReadSeen

LEMMA NextSeen ==
  ASSUME BInv, Batches, AllSeen, [Next]_vars, Cardinality(Events) < ScheduleBatch PROVE AllSeen'
<1>1. CASE UNCHANGED vars
  <2>1. \A j \in Ids : SameView(j) BY <1>1 DEF vars, SameView
  <2>2. Woken' = Woken BY <1>1 DEF vars, Woken, Finishing
  <2> QED BY <1>1, <2>1, <2>2, SeenFrame DEF vars
<1> QED BY <1>1, OutsideSeen, ProcessSeen, LoopSeen, RunSeen DEF Next

-----------------------------------------------------------------------------
\* The loop asleep

\* What the loop knows of its batches, of cancel requests and of what waits.
Attention == Batches /\ CancelsSeen /\ AllSeen

LEMMA InitAttention == ASSUME Init PROVE Attention
<1>1. \A j \in Ids : runs[j].status = "absent" /\ runs[j].due BY DEF Init, EmptyTable, NewRun
<1> QED
  BY <1>1 DEF Init, Attention, Batches, DueKnown, QueuedUnasked, BatchRead, NewestDiffer, RowChecked,
              LoopRuns, CancelsSeen, AllSeen

\* Every cancel request, ended run and due row that waits for the loop, the loop has in
\* hand, or a poke, a commit, the end of a run or nextDue will wake it (processCancels,
\* follow, schedule, Loop).  Left out are the restarts that became due between the two
\* readings of the clock in a step, which nothing but the scan every 5 seconds is sure to
\* find; scheduleBatch is larger than the number of events.
THEOREM LoopAttends == ASSUME Cardinality(Events) < ScheduleBatch PROVE Spec => []Attention
<1>1. Init => Attention BY InitAttention
<1>2. BInv /\ BInv' /\ Attention /\ [Next]_vars => Attention'
  BY NextBatches, NextCancels, NextSeen DEF Attention
<1> QED BY <1>1, <1>2, BackedInvariant, PTL DEF Spec

\* When the loop sleeps with nothing on its way to wake it, every queued row waits for a
\* run of its own event or is a restart that nextDue names or that became due between the
\* two readings of the clock; every cancel request has reached its run, and every end was
\* handed to after triggers (Loop, poke, finish).
THEOREM NoWakeupIsLost == ASSUME Cardinality(Events) < ScheduleBatch PROVE Spec => []NoLostWakeup
<1>1. ASSUME BInv, Attention, Quiet PROVE NoLostWakeup
  <2>1. agent = "up" /\ loop = "idle" /\ ~dirty BY <1>1 DEF Quiet
  <2>2. ~Woken BY <1>1 DEF Quiet, Woken, Finishing
  <2>3. Seen BY <1>1, <2>1, <2>2 DEF Attention, AllSeen
  <2>4. ASSUME NEW i \in Ids, runs[i].status = "queued",
               ~(Defined(Event(i)) /\ running[Event(i)] > 0)
        PROVE  runs[i].kind = "restart" /\ i \in nextDue \cup raced
    <3>1. ~runs[i].due => i \in nextDue BY <2>1, <2>3, <2>4 DEF Seen, DelaySeen
    <3>2. runs[i].due /\ i \notin raced => i \in nextDue
      BY <2>1, <2>3, <2>4 DEF Seen, QueueSeen, Waits, Handling
    <3> QED BY <1>1, <3>1, <3>2 DEF Attention, Batches, DueKnown
  <2>5. \A i \in Ids : ~CancelOpen(i) BY <1>1, <2>1 DEF Attention, CancelsSeen
  <2>6. \A i \in Ids : runs[i].status \in {"succeeded", "failed", "canceled"} => runs[i].followed
    BY <2>1, <2>3 DEF Seen, EndsSeen
  <2> QED BY <2>4, <2>5, <2>6 DEF NoLostWakeup, CancelOpen
<1>2. BInv /\ Attention => NoLostWakeup BY <1>1 DEF NoLostWakeup
<1> QED BY <1>2, BackedInvariant, LoopAttends, PTL

=============================================================================
