------------------------------ MODULE Backoff ------------------------------
(***************************************************************************)
(* How long a restart waits: the delays that Dispatcher.restart            *)
(* (internal/runner/dispatcher.go) keeps of one event, in units of time.   *)
(* Dispatcher.tla reduces the wait to "not due yet"; here is its length.   *)
(***************************************************************************)
EXTENDS Naturals

CONSTANTS Settings,   \* the pairs of restart_delay and restart_max_delay
          MaxRestarts \* bound: the restarts after short runs in a row

\* The configuration refuses a restart_max_delay below restart_delay, and reads
\* 0 as the default.
ASSUME BackoffAssumption ==
  /\ \A s \in Settings : s[1] \in Nat \ {0} /\ s[2] \in Nat /\ s[1] <= s[2]
  /\ MaxRestarts \in Nat

VARIABLES
  setting,  \* the settings that the event has now
  delay,    \* restartDelays of the event; 0 before the first restart
  waits,    \* history: the delays of the restarts since the last long run
  steady    \* history: the settings did not change since then

backoffVars == <<setting, delay, waits, steady>>

BackoffTypeOK ==
  /\ setting \in Settings /\ delay \in Nat /\ steady \in BOOLEAN
  /\ \E n \in 0 .. MaxRestarts : waits \in [1 .. n -> Nat]

BackoffInit == setting \in Settings /\ delay = 0 /\ waits = <<>> /\ steady = TRUE

Least(a, b) == IF a < b THEN a ELSE b

\* Mutant: the delay is doubled after the comparison with the maximum.
UncappedDelay(long) ==
  IF delay = 0 \/ long THEN setting[1] ELSE 2 * Least(delay, setting[2])

\* A run that lasted restart_max_delay starts the waits again.
NextDelay(long) ==
  IF delay = 0 \/ long THEN setting[1] ELSE Least(2 * delay, setting[2])

Count == CHOOSE n \in 0 .. MaxRestarts : DOMAIN waits = 1 .. n

\* A run of the event ended, and the event restarts it.
RestartAfter(long) ==
  /\ Count < MaxRestarts
  /\ delay' = NextDelay(long)
  /\ LET n == IF long THEN 0 ELSE Count IN
     waits' = [k \in 1 .. n + 1 |-> IF k <= n THEN waits[k] ELSE delay']
  /\ steady' = (long \/ steady)
  /\ UNCHANGED setting

\* Configure: the delays stay as they are.
ChangeSetting ==
  /\ setting' \in Settings \ {setting}
  /\ steady' = (waits = <<>>)
  /\ UNCHANGED <<delay, waits>>

BackoffNext == ChangeSetting \/ \E long \in BOOLEAN : RestartAfter(long)

BackoffSpec == BackoffInit /\ [][BackoffNext]_backoffVars

-----------------------------------------------------------------------------
\* What the code promises

PowerOfTwo[n \in Nat] == IF n = 0 THEN 1 ELSE 2 * PowerOfTwo[n - 1]

\* docs/settings/events.md: "The first restart waits restart_delay, and each
\* restart after a run shorter than restart_max_delay waits twice as long as the
\* one before, up to restart_max_delay".  The closed form of restart's steps.
WaitsDouble ==
  steady => \A k \in DOMAIN waits : waits[k] = Least(setting[1] * PowerOfTwo[k - 1], setting[2])
=============================================================================
