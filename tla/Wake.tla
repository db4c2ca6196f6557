-------------------------------- MODULE Wake --------------------------------
(***************************************************************************)
(* The wake trigger, internal/trigger/wake.go: the watcher reads once a    *)
(* second how long the machine has slept since it booted, and fires when   *)
(* that grew by at least MinSleep.  Time is in units in which a sleep of   *)
(* one is shorter than MinSleep.                                           *)
(***************************************************************************)
EXTENDS Naturals

CONSTANTS MinSleep,  \* the shortest sleep that fires
          MaxSlept   \* bound: how long the machine sleeps in all

ASSUME WakeAssumption == MinSleep \in Nat \ {0} /\ MaxSlept \in Nat

VARIABLES
  slept,     \* how long the machine has slept, as the two clocks give it
  watching,  \* Run is in its loop
  prev,      \* the reading that Run keeps
  owed,      \* history: a long sleep since this watcher started did not fire
  began,     \* history: the first reading of this watcher
  fired   \* history: the sleep that the firings of this watcher reported

wakeVars == <<slept, watching, prev, owed, began, fired>>

WakeTypeOK ==
  /\ slept \in 0 .. MaxSlept /\ prev \in 0 .. MaxSlept /\ began \in 0 .. MaxSlept
  /\ fired \in Nat /\ watching \in BOOLEAN /\ owed \in BOOLEAN

WakeInit ==
  /\ slept = 0 /\ watching = FALSE /\ prev = 0
  /\ owed = FALSE /\ began = 0 /\ fired = 0

\* The machine sleeps for d, at any moment.
Sleep(d) ==
  /\ slept + d <= MaxSlept
  /\ slept' = slept + d
  /\ owed' = (owed \/ (watching /\ d >= MinSleep))
  /\ UNCHANGED <<watching, prev, began, fired>>

\* Run starts, with the agent or after a reload, and reads the clocks.
StartWatch ==
  /\ ~watching /\ watching' = TRUE
  /\ prev' = slept /\ began' = slept /\ fired' = 0 /\ owed' = FALSE
  /\ UNCHANGED slept

\* The context ends.
StopWatch ==
  /\ watching /\ watching' = FALSE /\ owed' = FALSE
  /\ UNCHANGED <<slept, prev, began, fired>>

\* A tick: the sleep since the last reading fires when it is long enough.
ReadSlept ==
  /\ watching
  /\ IF slept - prev >= MinSleep THEN fired' = fired + (slept - prev) /\ owed' = FALSE
                                 ELSE UNCHANGED <<fired, owed>>
  /\ prev' = slept
  /\ UNCHANGED <<slept, watching, began>>

\* Mutant: the tick counts as a reading all the same.
ReadFailsForgets == watching /\ prev' = slept /\ UNCHANGED <<slept, watching, owed, began, fired>>

\* A tick at which the clocks cannot be read is passed over.
ReadFails == watching /\ UNCHANGED wakeVars

WakeNext ==
  StartWatch \/ StopWatch \/ ReadSlept \/ ReadFails \/ \E d \in 1 .. MinSleep + 1 : Sleep(d)

WakeSpec == WakeInit /\ [][WakeNext]_wakeVars

-----------------------------------------------------------------------------
\* What the code promises

\* docs/settings/triggers.md: "fires the event when the machine wakes from a sleep
\* of at least one second".  While one watcher runs, ticks at which the clocks
\* cannot be read lose no such sleep: the next reading still sees it.  And no
\* sleep is reported by two firings (Run).
SleepsFireOnce ==
  /\ owed => slept - prev >= MinSleep
  /\ fired <= prev - began
=============================================================================
