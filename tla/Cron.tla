-------------------------------- MODULE Cron --------------------------------
(***************************************************************************)
(* One cron trigger of kickd, internal/trigger/cron.go: the scheduler that *)
(* looks at the wall clock, the position it keeps in the cron_state table, *)
(* and the agent that stops and starts it at a reload, a stop and a crash. *)
(* Triggers share nothing but the goroutine that handles them in turn.     *)
(*                                                                         *)
(* Time is the wall clock, in units of which the schedule and MissedAfter  *)
(* are multiples.  It passes at any moment: the machine sleeps when it     *)
(* passes and the scheduler takes no step.                                 *)
(***************************************************************************)
EXTENDS Naturals

CONSTANTS
  Schedule,     \* the scheduled times, a set of clock readings
  MissedAfter,  \* how late a time may be noticed and still be on time
  Inputs,       \* what happens to the scheduler, of AllInputs
  MaxClock,     \* bound: the last reading of the clock
  MaxStarts     \* bound: how many times the scheduler starts

AllInputs == {"reload", "stop", "crash", "back"}

ASSUME CronAssumption ==
  /\ Schedule \subseteq 1 .. MaxClock
  /\ MissedAfter \in Nat /\ MaxClock \in Nat \ {0} /\ MaxStarts \in Nat
  /\ Inputs \subseteq AllInputs

VARIABLES
  clock,    \* the wall clock
  saved,    \* cron_state.last_at; 0 is no record
  \* the scheduler
  stage,    \* where Run is
  cause,    \* why its context ended; "none" while it lives
  missed,   \* the setting of that name
  last,     \* cronEntry.last
  now,      \* the reading of the clock it works with
  due,      \* the scheduled times that the check under way found
  starts,   \* how many schedulers started
  \* history
  handled,  \* the times that a firing covered, or that missed: skip left out
  lost,     \* the times that a crash took between the save and the firing
  again,    \* the times that may come again: the position after them was not
            \* saved, or the clock went back
  base      \* the trigger answers for the times after this one

schedVars == <<stage, cause, missed, last, now, due, starts>>
history   == <<handled, lost, again, base>>
vars      == <<clock, saved, schedVars, history>>

Times == 0 .. MaxClock

TypeOK ==
  /\ clock \in Times /\ saved \in Times /\ last \in Times /\ now \in Times
  /\ base \in Times /\ starts \in Nat
  /\ stage \in {"down", "begin", "load", "record", "check", "save", "fire", "wait", "ended"}
  /\ cause \in {"none", "reload", "stop"}
  /\ missed \in {"run", "skip"}
  /\ due \subseteq Schedule /\ handled \subseteq Schedule
  /\ lost \subseteq Schedule /\ again \subseteq Schedule

\* Mutant: a time that is due this very moment is left to the next check.
DueBefore(from, to) == {t \in Schedule : from < t /\ t < to}

\* What schedule.Next finds after from, up to to.
Due(from, to) == {t \in Schedule : from < t /\ t <= to}

\* The latest of the times that are due is noticed early enough.
OnTime == \E t \in due : now - t <= MissedAfter

Init ==
  /\ clock \in 1 .. MaxClock /\ saved = 0
  /\ stage = "down" /\ cause = "none" /\ missed = "run"
  /\ last = 0 /\ now = 0 /\ due = {} /\ starts = 0
  /\ handled = {} /\ lost = {} /\ again = {} /\ base = 0

-----------------------------------------------------------------------------
\* The clock

Pass ==
  /\ clock < MaxClock /\ clock' = clock + 1
  /\ UNCHANGED <<saved, schedVars, history>>

\* Somebody sets the clock back.
Back ==
  /\ "back" \in Inputs
  /\ clock' \in 1 .. clock - 1
  /\ again' = again \cup Due(clock', MaxClock)
  /\ UNCHANGED <<saved, schedVars, handled, lost, base>>

-----------------------------------------------------------------------------
\* The agent

\* startTriggers, when the agent starts and after a reload.
StartScheduler ==
  /\ stage \in {"down", "ended"} /\ starts < MaxStarts
  /\ stage' = "begin" /\ starts' = starts + 1
  /\ missed' \in {"run", "skip"}
  /\ cause' = "none"
  /\ UNCHANGED <<clock, saved, last, now, due, history>>

\* stop, for a reload or for the end of the agent: the context ends, and the
\* agent waits for Run to return.  No scheduler reads the database after the
\* last one that MaxStarts allows, so that one is not stopped.
Cancel ==
  /\ stage \notin {"down", "ended"} /\ cause = "none" /\ starts < MaxStarts
  /\ cause' \in Inputs \cap {"reload", "stop"}
  /\ UNCHANGED <<clock, saved, stage, missed, last, now, due, starts, history>>

Crash ==
  /\ "crash" \in Inputs /\ stage # "down" /\ starts < MaxStarts
  /\ stage' = "down" /\ due' = {}
  /\ lost' = lost \cup {t \in due : t <= saved}
  /\ UNCHANGED <<clock, saved, cause, missed, last, now, starts, handled, again, base>>

-----------------------------------------------------------------------------
\* The scheduler

ReadClock ==
  /\ stage = "begin"
  /\ now' = clock /\ stage' = "load"
  /\ UNCHANGED <<clock, saved, cause, missed, last, due, starts, history>>

\* Mutant: the scheduler starts from now whatever the record says.
LoadNow ==
  /\ stage = "load"
  /\ last' = now /\ stage' = "check"
  /\ UNCHANGED <<clock, saved, cause, missed, now, due, starts, history>>

\* load: a record that is older than now counts.  A query under a context that
\* ended fails, and then the scheduler starts from now but records nothing.
Load ==
  /\ stage = "load"
  /\ IF cause = "none" /\ saved \in 1 .. now - 1
       THEN last' = saved /\ stage' = "check"
       ELSE last' = now /\ stage' = IF cause = "none" THEN "record" ELSE "check"
  /\ UNCHANGED <<clock, saved, cause, missed, now, due, starts, history>>

\* load without a record, or with one in the future: now becomes the record.
Record ==
  /\ stage = "record"
  /\ IF cause = "none" THEN saved' = now /\ base' = now ELSE UNCHANGED <<saved, base>>
  /\ stage' = "check"
  /\ UNCHANGED <<clock, cause, missed, last, now, due, starts, handled, lost, again>>

\* check, up to the save: all the times that are due become one firing.  After
\* a wait the timer wins over the end of the context, or the other way round.
Check ==
  /\ stage \in {"check", "wait"}
  /\ now' = clock
  /\ due' = Due(last, clock)
  /\ IF due' = {} THEN stage' = "wait" /\ UNCHANGED last
                  ELSE stage' = "save" /\ last' = clock
  /\ UNCHANGED <<clock, saved, cause, missed, starts, history>>

\* The times of the check are done with.
Settled == handled' = handled \cup due /\ due' = {} /\ stage' = "wait"

\* Mutant: the position stays in memory.
SaveNothing ==
  /\ stage = "save"
  /\ UNCHANGED saved
  /\ again' = IF cause = "none" THEN again ELSE again \cup due
  /\ IF OnTime \/ missed = "run" THEN stage' = "fire" /\ UNCHANGED <<handled, due>>
                                 ELSE Settled
  /\ UNCHANGED <<clock, cause, missed, last, now, starts, lost, base>>

\* The save fails under a context that ended; the check goes on all the same.
Save ==
  /\ stage = "save"
  /\ IF cause = "none" THEN saved' = now /\ UNCHANGED again
                       ELSE again' = again \cup due /\ UNCHANGED saved
  /\ IF OnTime \/ missed = "run" THEN stage' = "fire" /\ UNCHANGED <<handled, due>>
                                 ELSE Settled
  /\ UNCHANGED <<clock, cause, missed, last, now, starts, lost, base>>

\* fire: the insert does not depend on the context.
Fire ==
  /\ stage = "fire" /\ Settled
  /\ UNCHANGED <<clock, saved, cause, missed, last, now, starts, lost, again, base>>

\* Run returns; at a stop the process ends after it.
Return ==
  /\ stage = "wait" /\ cause # "none"
  /\ stage' = IF cause = "stop" THEN "down" ELSE "ended"
  /\ UNCHANGED <<clock, saved, cause, missed, last, now, due, starts, history>>

Scheduler == ReadClock \/ Load \/ Record \/ Check \/ Save \/ Fire \/ Return

Next == Pass \/ Back \/ StartScheduler \/ Cancel \/ Crash \/ Scheduler

Spec == Init /\ [][Next]_vars

\* The scheduler runs: its timer fires at least every second, and its select
\* sees the end of its context sooner or later.  After a reload the agent
\* starts the next one.
FairSpec ==
  /\ Spec
  /\ WF_vars(Scheduler) /\ WF_vars(Return)
  /\ WF_vars(stage = "ended" /\ StartScheduler)

-----------------------------------------------------------------------------
\* Properties

\* The position in the database is honest: every scheduled time up to it was
\* covered by a firing or skipped, is about to be, or was lost in a crash between
\* the save and the firing of one check.  Reloads, stops, sleeps and clocks that
\* are set lose nothing (load, check).
NothingLost ==
  \A t \in Due(base, saved) : t \in handled \cup lost \cup due

\* A scheduled time fires a second time only when the clock came to it a second
\* time, or when the position after it was refused because the context had ended.
TwiceOnlyAgain == due \cap handled \subseteq again

\* A scheduled time that the clock has reached is handled, by this scheduler or
\* the next, however reloads and sleeps come in between.
TimesAreHandled ==
  \A t \in Schedule :
    (stage # "down" /\ base # 0 /\ base < t /\ t <= clock)
      ~> (stage = "down" \/ t \in handled \cup lost \/ clock < t \/ t <= base)
=============================================================================
