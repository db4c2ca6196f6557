------------------------------ MODULE RunQueue ------------------------------
(***************************************************************************)
(* What kickd promises of a run, whoever carries it out: a run that was    *)
(* recorded waits, executes and ends, in that order and each at most once; *)
(* an exclusive event executes one run at a time; a run that was cut off   *)
(* is repeated at most once, by a run of the same event; and the end of a  *)
(* run is handed to after triggers at most once, never before the end.     *)
(* Processes, crashes, wakeups and the rows of the database are not part   *)
(* of it: the dispatcher is shown to implement it.                         *)
(***************************************************************************)
EXTENDS Naturals

CONSTANTS Ids, Events,
          Exclusive  \* the events whose concurrency is not parallel

VARIABLES state, event,
          cause,     \* the run that this one repeats or whose end fired it; 0 is none
          handed     \* the runs whose end was handed to after triggers

vars == <<state, event, cause, handed>>

States == {"unused", "waiting", "executing", "cut", "ended", "deleted"}

Init ==
  /\ state = [i \in Ids |-> "unused"]
  /\ event \in [Ids -> Events]
  /\ cause = [i \in Ids |-> 0]
  /\ handed = {}

Executing(e) == {i \in Ids : state[i] = "executing" /\ event[i] = e}

\* The runs of S leave their states for st.
Become(S, st) == state' = [i \in Ids |-> IF i \in S THEN st ELSE state[i]]

\* The runs of New are recorded, because of run c, as waiting or as dropped at
\* once; those of S end or go on as they are.
Record(New, c, S, st) ==
  /\ \A i \in New : state[i] = "unused" /\ state'[i] \in {"waiting", "ended"}
  /\ \A i \in S : state'[i] = st
  /\ \A i \in Ids \ (New \cup S) : state'[i] = state[i]
  /\ \A i \in Ids \ New : event'[i] = event[i]
  /\ cause' = [i \in Ids |-> IF i \in New THEN c ELSE cause[i]]

Fire == \E i \in Ids : Record({i}, 0, {}, "ended") /\ UNCHANGED handed

Begin(i) ==
  /\ state[i] = "waiting"
  /\ event[i] \in Exclusive => Executing(event[i]) = {}
  /\ Become({i}, "executing")
  /\ UNCHANGED <<event, cause, handed>>

\* Runs end: one that executed, or any number that waited.
End(S) ==
  /\ \/ \A i \in S : state[i] = "waiting"
     \/ \E i \in S : S = {i} /\ state[i] \in {"executing", "cut"}
  /\ Become(S, "ended")
  /\ UNCHANGED <<event, cause, handed>>

Cut(i) ==
  /\ state[i] = "executing"
  /\ Become({i}, "cut")
  /\ UNCHANGED <<event, cause, handed>>

Repeat(i) ==
  /\ state[i] \in {"executing", "cut"}
  /\ \A k \in Ids : ~(cause[k] = i)
  /\ \E j \in Ids : /\ Record({j}, i, {i}, "ended")
                    /\ state'[j] = "waiting" /\ event'[j] = event[i]
  /\ UNCHANGED handed

Hand(i) ==
  /\ state[i] = "ended" /\ i \notin handed
  /\ \E New \in SUBSET Ids : Record(New, i, {}, "ended")
  /\ handed' = handed \cup {i}

Delete(S) ==
  /\ \A i \in S : state[i] = "ended"
  /\ Become(S, "deleted")
  /\ UNCHANGED <<event, cause, handed>>

Next ==
  \/ Fire
  \/ \E i \in Ids : Begin(i) \/ Cut(i) \/ Repeat(i) \/ Hand(i)
  \/ \E S \in SUBSET Ids : End(S) \/ Delete(S)

Spec == Init /\ [][Next]_vars
=============================================================================
