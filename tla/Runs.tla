-------------------------------- MODULE Runs --------------------------------
(***************************************************************************)
(* The runs table of kickd's SQLite queue, internal/queue/store.go.        *)
(*                                                                         *)
(* A table is a function from run IDs to rows.  The operators of this      *)
(* module are the statements and the transactions of the store, as pure    *)
(* functions of the table: SQLite serialises them (one connection per      *)
(* process, _txlock=immediate), so one operator is one atomic step of      *)
(* whichever process executes it.                                          *)
(*                                                                         *)
(* Of a row the model keeps what the control of kickd reads.  Times are    *)
(* reduced to the two comparisons the code makes with them: "due" is       *)
(* not_before <= now, and "old" is finished_at < now - retention.          *)
(***************************************************************************)
EXTENDS Naturals, FiniteSets

CONSTANTS Events,   \* the names of the events
          MaxRuns   \* bound: the rows that are ever inserted

ASSUME RunsAssumption ==
  /\ Events # {}
  /\ IsFiniteSet(Events)
  /\ MaxRuns \in Nat \ {0}

Ids == 1 .. MaxRuns   \* AUTOINCREMENT: an ID is never used again

Final == {"succeeded", "failed", "canceled", "skipped", "dropped",
          "abandoned", "retried"}

Status == {"queued", "running", "interrupted"} \cup Final

\* "absent" is an ID not yet used; "pruned" is a deleted row, whose other
\* fields are kept as history for the properties.
RowState == Status \cup {"absent", "pruned"}

Kind == {"fire", "restart", "after"}

\* retryOf is the run that this one repeats, after is the ended run whose
\* after trigger fired this one; 0 is none.
Row == [status    : RowState,
        event     : Events,
        kind      : Kind,
        attempt   : Nat \ {0},
        retryOf   : 0 .. MaxRuns,
        after     : 0 .. MaxRuns,
        cancelReq : BOOLEAN,
        followed  : BOOLEAN,
        due       : BOOLEAN,
        old       : BOOLEAN]

NewRun(e, kind, after) ==
  [status |-> "queued", event |-> e, kind |-> kind, attempt |-> 1,
   retryOf |-> 0, after |-> after, cancelReq |-> FALSE, followed |-> FALSE,
   due |-> TRUE, old |-> FALSE]

Delayed(r) == [r EXCEPT !.due = FALSE]

EmptyTable ==
  [i \in Ids |-> [NewRun(CHOOSE e \in Events : TRUE, "fire", 0)
                    EXCEPT !.status = "absent"]]

-----------------------------------------------------------------------------
\* Queries

InStatus(t, S) == {i \in Ids : t[i].status \in S}

QueuedOf(t, e) == {i \in InStatus(t, {"queued"}) : t[i].event = e}

\* ORDER BY id LIMIT n
Oldest(S, n) == {i \in S : Cardinality({j \in S : j < i}) < n}

\* Mutant: the runs that were handed already are among them.
EndedRuns(t, limit) == Oldest(InStatus(t, Final), limit)

UnfollowedRuns(t, limit) ==
  Oldest({i \in InStatus(t, Final) : ~t[i].followed}, limit)

QueuedRuns(t, limit, except) ==
  Oldest({i \in InStatus(t, {"queued"}) : t[i].due /\ t[i].event \notin except},
         limit)

\* The rows among which NextNotBefore takes the earliest not_before.
WaitingRuns(t) == {i \in InStatus(t, {"queued"}) : ~t[i].due}

CancelRequests(t) == {i \in InStatus(t, {"running"}) : t[i].cancelReq}

\* Mutant: the rows that a crash left "running" are not among them.
StoppedRuns(t) == InStatus(t, {"interrupted"})

InterruptedRuns(t) == InStatus(t, {"running", "interrupted"})

-----------------------------------------------------------------------------
\* Statements and transactions

\* Mutant: the limit is one too high.
InsertOver(t, id, r, max) ==
  [t EXCEPT ![id] =
     IF max > 0 /\ Cardinality(QueuedOf(t, r.event)) > max
       THEN [r EXCEPT !.status = "dropped"]
       ELSE r]

\* insertRun: a firing over the limit of its event is recorded as dropped.
\* max = 0 is no limit.
Insert(t, id, r, max) ==
  [t EXCEPT ![id] =
     IF max > 0 /\ Cardinality(QueuedOf(t, r.event)) >= max
       THEN [r EXCEPT !.status = "dropped"]
       ELSE r]

SetStatus(t, i, st) == [t EXCEPT ![i].status = st]

\* StartRun and Settle change the row only while it is queued.
StartRun(t, i) == IF t[i].status = "queued" THEN SetStatus(t, i, "running") ELSE t
Settle(t, i, st) == IF t[i].status = "queued" THEN SetStatus(t, i, st) ELSE t

\* Mutant: the row of a run that was canceled is left as it is.
FinishRunUncanceled(t, i, st) ==
  IF st = "canceled" THEN t
  ELSE [t EXCEPT ![i] = [@ EXCEPT !.status = st, !.cancelReq = FALSE, !.old = FALSE]]

\* FinishRun changes the row whatever its status.
FinishRun(t, i, st) ==
  [t EXCEPT ![i] = [@ EXCEPT !.status = st, !.cancelReq = FALSE, !.old = FALSE]]

\* RequestCancel, and RequestCancelEvent for a set of rows.
RequestCancel(t, S) ==
  [i \in Ids |->
     IF i \in S
       THEN CASE t[i].status = "queued"  -> [t[i] EXCEPT !.status = "canceled"]
              [] t[i].status = "running" -> [t[i] EXCEPT !.cancelReq = TRUE]
              [] OTHER -> t[i]
       ELSE t[i]]

\* Mutant: the run that is repeated keeps its status.
RetryUnmarked(t, i, id) ==
  [t EXCEPT ![id] = [NewRun(t[i].event, t[i].kind, t[i].after)
                       EXCEPT !.attempt = t[i].attempt + 1, !.retryOf = i]]

\* Retry: the next attempt of the same firing is queued, with no limit.
Retry(t, i, id) ==
  [t EXCEPT ![id] = [NewRun(t[i].event, t[i].kind, t[i].after)
                       EXCEPT !.attempt = t[i].attempt + 1, !.retryOf = i],
            ![i] = [@ EXCEPT !.status = "retried", !.cancelReq = FALSE]]

\* finished_at keeps its first value: a row does not become young again.
Abandon(t, i) == [t EXCEPT ![i] = [@ EXCEPT !.status = "abandoned", !.cancelReq = FALSE]]

\* Mutant: the run that ended is not marked.
FollowUnmarked(t, i, slot, max) ==
  [j \in Ids |->
     IF \E e \in DOMAIN slot : slot[e] = j
       THEN LET e == CHOOSE e \in DOMAIN slot : slot[e] = j
            IN  Insert(t, j, NewRun(e, "after", i), max[e])[j]
       ELSE t[j]]

\* Follow: slot gives each event that fires the ID of its new row; max gives
\* each event its limit.  The events are distinct, so that each insert counts
\* the queue as it was before the transaction.
Follow(t, i, slot, max) ==
  [j \in Ids |->
     IF \E e \in DOMAIN slot : slot[e] = j
       THEN LET e == CHOOSE e \in DOMAIN slot : slot[e] = j
            IN  Insert(t, j, NewRun(e, "after", i), max[e])[j]
       ELSE IF j = i THEN [t[i] EXCEPT !.followed = TRUE] ELSE t[j]]

\* Prune deletes final rows, handed to after triggers or not.
Prune(t) ==
  [i \in Ids |-> IF t[i].old /\ t[i].status \in Final
                   THEN [t[i] EXCEPT !.status = "pruned"] ELSE t[i]]
=============================================================================
