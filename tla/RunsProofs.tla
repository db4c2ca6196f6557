----------------------------- MODULE RunsProofs -----------------------------
(***************************************************************************)
(* Lemmas about the statements of the store, for every table.  The proofs  *)
(* about the modules that use the table rest on them.                      *)
(***************************************************************************)
EXTENDS Runs, TLAPS

-----------------------------------------------------------------------------
\* The statements of the store keep the table a table

LEMMA NewRunType ==
  ASSUME NEW e \in Events, NEW kind \in Kind, NEW after \in 0 .. MaxRuns
  PROVE  NewRun(e, kind, after) \in Row
BY RunsAssumption DEF NewRun, Row, RowState, Status

LEMMA NoRunType == 0 \in 0 .. MaxRuns
BY RunsAssumption

LEMMA EmptyTableType == EmptyTable \in [Ids -> Row]
<1>1. \A e \in Events : [NewRun(e, "fire", 0) EXCEPT !.status = "absent"] \in Row
  <2> TAKE e \in Events
  <2>1. NewRun(e, "fire", 0) \in Row
    BY NewRunType, NoRunType DEF Kind
  <2> QED BY <2>1 DEF Row, RowState
<1>2. (CHOOSE e \in Events : TRUE) \in Events BY RunsAssumption
<1> QED BY <1>1, <1>2 DEF EmptyTable

LEMMA InsertType ==
  ASSUME NEW t \in [Ids -> Row], NEW id \in Ids, NEW r \in Row, NEW max
  PROVE  Insert(t, id, r, max) \in [Ids -> Row]
<1>1. [r EXCEPT !.status = "dropped"] \in Row BY DEF Row, RowState, Status, Final
<1> QED BY <1>1 DEF Insert

LEMMA SetStatusType ==
  ASSUME NEW t \in [Ids -> Row], NEW i \in Ids, NEW st \in Status
  PROVE  SetStatus(t, i, st) \in [Ids -> Row]
BY DEF SetStatus, Row, RowState

LEMMA FinishRunType ==
  ASSUME NEW t \in [Ids -> Row], NEW i \in Ids, NEW st \in Status
  PROVE  FinishRun(t, i, st) \in [Ids -> Row]
BY DEF FinishRun, Row, RowState

LEMMA RequestCancelType ==
  ASSUME NEW t \in [Ids -> Row], NEW S
  PROVE  RequestCancel(t, S) \in [Ids -> Row]
<1>1. ASSUME NEW i \in Ids
      PROVE  [t[i] EXCEPT !.status = "canceled"] \in Row /\ [t[i] EXCEPT !.cancelReq = TRUE] \in Row
  <2>1. t[i] \in Row /\ "canceled" \in RowState BY DEF RowState, Status, Final
  <2>2. [t[i] EXCEPT !.status = "canceled"] \in Row BY <2>1 DEF Row
  <2>3. [t[i] EXCEPT !.cancelReq = TRUE] \in Row BY <2>1 DEF Row
  <2> QED BY <2>2, <2>3
<1> QED BY <1>1 DEF RequestCancel

LEMMA RetryType ==
  ASSUME NEW t \in [Ids -> Row], NEW i \in Ids, NEW id \in Ids
  PROVE  Retry(t, i, id) \in [Ids -> Row]
<1> DEFINE r    == NewRun(t[i].event, t[i].kind, t[i].after)
           next == [r EXCEPT !.attempt = t[i].attempt + 1, !.retryOf = i]
<1>1. r \in Row
  BY NewRunType DEF Row
<1>2. next \in Row
  <2>1. t[i].attempt + 1 \in Nat \ {0} BY DEF Row
  <2>2. i \in 0 .. MaxRuns BY DEF Ids
  <2> HIDE DEF r
  <2> QED BY <1>1, <2>1, <2>2 DEF Row
<1>3. [t[i] EXCEPT !.status = "retried", !.cancelReq = FALSE] \in Row
  <2>1. t[i] \in Row /\ "retried" \in RowState BY DEF RowState, Status, Final
  <2> QED BY <2>1 DEF Row
<1>4. Retry(t, i, id) = [t EXCEPT ![id] = next,
                                 ![i] = [t[i] EXCEPT !.status = "retried", !.cancelReq = FALSE]]
  BY Zenon DEF Retry
<1> HIDE DEF next
<1> QED BY <1>2, <1>3, <1>4

LEMMA AbandonType ==
  ASSUME NEW t \in [Ids -> Row], NEW i \in Ids
  PROVE  Abandon(t, i) \in [Ids -> Row]
<1>1. t[i] \in Row /\ "abandoned" \in RowState BY DEF RowState, Status, Final
<1>2. [t[i] EXCEPT !.status = "abandoned", !.cancelReq = FALSE] \in Row BY <1>1 DEF Row
<1> QED BY <1>2 DEF Abandon

LEMMA FollowType ==
  ASSUME NEW t \in [Ids -> Row], NEW i \in Ids, NEW fired \in SUBSET Events,
         NEW slot \in [fired -> Nat], NEW max
  PROVE  Follow(t, i, slot, max) \in [Ids -> Row]
<1> SUFFICES ASSUME NEW j \in Ids PROVE Follow(t, i, slot, max)[j] \in Row
  BY DEF Follow
<1>1. CASE \E e \in DOMAIN slot : slot[e] = j
  <2> DEFINE f == CHOOSE e \in DOMAIN slot : slot[e] = j
  <2>0. i \in 0 .. MaxRuns BY DEF Ids
  <2>1. f \in Events BY <1>1
  <2>2. NewRun(f, "after", i) \in Row
    BY <2>1, <2>0, NewRunType DEF Kind
  <2>3. Insert(t, j, NewRun(f, "after", i), max[f]) \in [Ids -> Row]
    BY <2>2, InsertType
  <2> QED BY <1>1, <2>3 DEF Follow
<1>2. CASE ~ \E e \in DOMAIN slot : slot[e] = j
  BY <1>2 DEF Follow, Row
<1> QED BY <1>1, <1>2

LEMMA PruneType ==
  ASSUME NEW t \in [Ids -> Row]
  PROVE  Prune(t) \in [Ids -> Row]
BY DEF Prune, Row, RowState
=============================================================================
