---------------------------- MODULE FiringProofs ----------------------------
(* Proofs about what fires an event: Cron, Wake, Params and Webhook. *)
EXTENDS Cron, Wake, Params, Webhook, TLAPS

-----------------------------------------------------------------------------
\* Cron

Running == {"record", "check", "save", "fire", "wait"}

\* While its context lives, the scheduler looks from the position that the
\* database holds, and only a check under way has times that are due.
LooksFromSaved ==
  /\ stage \in {"check", "wait", "fire"} /\ cause = "none" => last = saved
  /\ stage \in {"record", "save"} => last = now
  /\ stage = "save" /\ cause = "none" => \A t \in Schedule : saved < t /\ t <= now => t \in due
  /\ stage \notin {"save", "fire"} => due = {}
  /\ stage = "save" => \A t \in due : t <= now

\* Where the clock was set back, times come again: those that lie between the clock
\* or the scheduler's position and a later position.
ComesAgain(from, to) == \A t \in Schedule : from < t /\ t <= to => t \in again

WentBack ==
  /\ ComesAgain(clock, saved) /\ ComesAgain(clock, now)
  /\ stage = "load" => ComesAgain(now, saved)
  /\ stage \in Running => ComesAgain(last, saved)

\* What was handled, or is about to fire, is not after the position, or may come
\* again.
HandledBelow ==
  /\ \A t \in handled : t <= saved \/ t \in again
  /\ stage = "fire" => \A t \in due : t <= saved \/ t \in again

IInv == TypeOK /\ LooksFromSaved /\ WentBack /\ HandledBelow /\ NothingLost /\ TwiceOnlyAgain

LEMMA InitIInv == ASSUME Init PROVE IInv
BY CronAssumption DEF Init, IInv, TypeOK, Times, LooksFromSaved, WentBack, ComesAgain, HandledBelow,
                      NothingLost, TwiceOnlyAgain, Due, Running

LEMMA NextTypes == ASSUME TypeOK, Next PROVE TypeOK'
<1> USE CronAssumption DEF TypeOK, Times, schedVars, history
<1>1. CASE Pass BY <1>1 DEF Pass
<1>2. CASE Back
  <2>1. clock' \in Times BY <1>2 DEF Back
  <2>2. Due(clock', MaxClock) \subseteq Schedule BY DEF Due
  <2>3. again' \subseteq Schedule BY <1>2, <2>2 DEF Back
  <2> QED BY <1>2, <2>1, <2>3 DEF Back
<1>3. CASE StartScheduler BY <1>3 DEF StartScheduler
<1>4. CASE Cancel BY <1>4 DEF Cancel
<1>5. CASE Crash BY <1>5 DEF Crash
<1>6. CASE Scheduler
  <2>1. CASE ReadClock BY <2>1 DEF ReadClock
  <2>2. CASE Load BY <2>2 DEF Load
  <2>3. CASE Record BY <2>3 DEF Record
  <2>4. CASE Check BY <2>4 DEF Check, Due
  <2>5. CASE Save BY <2>5 DEF Save, Settled
  <2>6. CASE Fire BY <2>6 DEF Fire, Settled
  <2>7. CASE Return BY <2>7 DEF Return
  <2> QED BY <1>6, <2>1, <2>2, <2>3, <2>4, <2>5, <2>6, <2>7 DEF Scheduler
<1> QED BY <1>1, <1>2, <1>3, <1>4, <1>5, <1>6 DEF Next

\* The rest of IInv.
Positions == LooksFromSaved /\ WentBack /\ HandledBelow /\ NothingLost /\ TwiceOnlyAgain

LEMMA ClockSteps == ASSUME TypeOK, TypeOK', Positions, Pass \/ Back PROVE Positions'
<1> USE CronAssumption DEF TypeOK, Times, schedVars, history, Positions
<1>1. clock' < clock \/ again' = again BY DEF Pass, Back
<1>2. LooksFromSaved' BY DEF Pass, Back, LooksFromSaved, Due
<1>3. again \subseteq again' BY DEF Pass, Back
<1>4. WentBack'
  <2>1. CASE Pass BY <2>1 DEF Pass, WentBack, ComesAgain, Due, Running
  <2>2. CASE Back BY <2>2 DEF Back, WentBack, ComesAgain, Due, Running
  <2> QED BY <2>1, <2>2
<1>5. HandledBelow' BY <1>3 DEF Pass, Back, HandledBelow
<1>6. NothingLost' /\ TwiceOnlyAgain'
  BY <1>3 DEF Pass, Back, NothingLost, TwiceOnlyAgain, Due
<1> QED BY <1>2, <1>4, <1>5, <1>6

LEMMA AgentSteps ==
  ASSUME TypeOK, TypeOK', Positions, StartScheduler \/ Cancel \/ Crash PROVE Positions'
<1> USE CronAssumption DEF TypeOK, Times, history, Positions
<1>1. CASE StartScheduler
  BY <1>1 DEF StartScheduler, LooksFromSaved, WentBack, ComesAgain, HandledBelow, NothingLost,
              TwiceOnlyAgain, Due, Running
<1>2. CASE Cancel
  BY <1>2 DEF Cancel, LooksFromSaved, WentBack, ComesAgain, HandledBelow, NothingLost,
              TwiceOnlyAgain, Due, Running
<1>3. CASE Crash
  BY <1>3 DEF Crash, LooksFromSaved, WentBack, ComesAgain, HandledBelow, NothingLost,
              TwiceOnlyAgain, Due, Running
<1> QED BY <1>1, <1>2, <1>3

LEMMA StartSteps ==
  ASSUME TypeOK, TypeOK', Positions, ReadClock \/ Load \/ Record PROVE Positions'
<1> USE CronAssumption DEF TypeOK, Times, history, Positions
<1>1. CASE ReadClock
  BY <1>1 DEF ReadClock, LooksFromSaved, WentBack, ComesAgain, HandledBelow, NothingLost,
              TwiceOnlyAgain, Due, Running
<1>2. CASE Load
  BY <1>2 DEF Load, LooksFromSaved, WentBack, ComesAgain, HandledBelow, NothingLost,
              TwiceOnlyAgain, Due, Running
<1>3. CASE Record
  BY <1>3 DEF Record, LooksFromSaved, WentBack, ComesAgain, HandledBelow, NothingLost,
              TwiceOnlyAgain, Due, Running
<1> QED BY <1>1, <1>2, <1>3

LEMMA CheckStep == ASSUME TypeOK, TypeOK', Positions, Check PROVE Positions'
<1> USE CronAssumption DEF TypeOK, Times, history, Positions, Check
<1>1. LooksFromSaved' BY DEF LooksFromSaved, Due
<1>2. WentBack' BY DEF WentBack, ComesAgain, Running
<1>3. HandledBelow' BY DEF HandledBelow
<1>4. NothingLost' BY DEF NothingLost, LooksFromSaved, Due
<1>5. TwiceOnlyAgain'
  BY DEF TwiceOnlyAgain, WentBack, ComesAgain, HandledBelow, Due, Running
<1> QED BY <1>1, <1>2, <1>3, <1>4, <1>5

LEMMA SaveStep == ASSUME TypeOK, TypeOK', Positions, Save PROVE Positions'
<1> USE CronAssumption DEF TypeOK, Times, Positions, Save, Settled
<1>1. LooksFromSaved' BY DEF LooksFromSaved
<1>2. WentBack' BY DEF WentBack, ComesAgain, LooksFromSaved, Due, Running
<1>3. HandledBelow' BY DEF HandledBelow, LooksFromSaved, WentBack, ComesAgain, Due, Running
<1>4. NothingLost' BY DEF NothingLost, LooksFromSaved, Due
<1>5. TwiceOnlyAgain' BY DEF TwiceOnlyAgain
<1> QED BY <1>1, <1>2, <1>3, <1>4, <1>5

LEMMA LastSteps == ASSUME TypeOK, TypeOK', Positions, Fire \/ Return PROVE Positions'
<1> USE CronAssumption DEF TypeOK, Times, history, Positions
<1>1. CASE Fire
  BY <1>1 DEF Fire, Settled, LooksFromSaved, WentBack, ComesAgain, HandledBelow, NothingLost,
              TwiceOnlyAgain, Due, Running
<1>2. CASE Return
  BY <1>2 DEF Return, LooksFromSaved, WentBack, ComesAgain, HandledBelow, NothingLost,
              TwiceOnlyAgain, Due, Running
<1> QED BY <1>1, <1>2

LEMMA NextIInv == ASSUME IInv, [Next]_vars PROVE IInv'
<1>1. CASE UNCHANGED vars
  BY <1>1 DEF vars, schedVars, history, IInv, TypeOK, LooksFromSaved, WentBack, ComesAgain,
              HandledBelow, NothingLost, TwiceOnlyAgain, Due
<1>2. CASE Next
  <2>1. TypeOK' BY <1>2, NextTypes DEF IInv
  <2>2. Positions'
    BY <1>2, <2>1, ClockSteps, AgentSteps, StartSteps, CheckStep, SaveStep, LastSteps
       DEF Next, Scheduler, IInv, Positions
  <2> QED BY <2>1, <2>2 DEF IInv, Positions
<1> QED BY <1>1, <1>2

\* The inductive invariant holds in every state: the types, what the scheduler and
\* the database know of each other's position, and the two properties below.
THEOREM CronInvariant == Spec => []IInv
BY InitIInv, NextIInv, PTL DEF Spec

\* No scheduled time up to the saved position is lost but in a crash between the
\* save and the firing (check, fire).
THEOREM NothingIsLost == Spec => []NothingLost
BY CronInvariant, PTL DEF IInv

\* No scheduled time is found due twice but after a refused save or after the clock
\* went back (load, check).
THEOREM NothingTwice == Spec => []TwiceOnlyAgain
BY CronInvariant, PTL DEF IInv

-----------------------------------------------------------------------------
\* Wake

\* The readings of the clocks only grow, and a long sleep that did not fire is
\* still ahead of the reading that Run keeps.
WakeNumbers ==
  /\ slept \in 0 .. MaxSlept /\ prev \in 0 .. MaxSlept /\ began \in 0 .. MaxSlept
  /\ fired \in Nat /\ began <= prev /\ prev <= slept /\ fired <= prev - began

WakeFlags == watching \in BOOLEAN /\ owed \in BOOLEAN /\ (owed => watching)

WakePending == owed => slept - prev >= MinSleep

WakeInv == WakeNumbers /\ WakeFlags /\ WakePending

\* Initially nothing was slept.
LEMMA WakeStarts == WakeInit => WakeInv
<1> SUFFICES ASSUME WakeInit PROVE WakeInv
  OBVIOUS
<1>1. WakeNumbers
  BY WakeAssumption DEF WakeInit, WakeNumbers
<1>2. WakeFlags /\ WakePending
  BY DEF WakeInit, WakeFlags, WakePending
<1> QED
  BY <1>1, <1>2 DEF WakeInv

\* Every step of the watcher and of the machine keeps the invariant.
LEMMA WakeStep == WakeInv /\ [WakeNext]_wakeVars => WakeInv'
<1> SUFFICES ASSUME WakeInv, [WakeNext]_wakeVars PROVE WakeInv'
  OBVIOUS
<1>0. MinSleep \in Nat /\ MaxSlept \in Nat /\ WakeNumbers /\ WakeFlags /\ WakePending
  BY WakeAssumption DEF WakeInv
<1>1. CASE StartWatch
  <2>1. prev' = slept /\ began' = slept /\ fired' = 0 /\ slept' = slept
    BY <1>1 DEF StartWatch
  <2>2. owed' = FALSE /\ watching' = TRUE
    BY <1>1 DEF StartWatch
  <2>3. WakeNumbers'
    BY <1>0, <2>1 DEF WakeNumbers
  <2>4. WakeFlags' /\ WakePending'
    BY <2>2 DEF WakeFlags, WakePending
  <2> QED
    BY <2>3, <2>4 DEF WakeInv
<1>2. CASE StopWatch
  <2>1. UNCHANGED <<slept, prev, began, fired>>
    BY <1>2 DEF StopWatch
  <2>2. owed' = FALSE /\ watching' = FALSE
    BY <1>2 DEF StopWatch
  <2>3. WakeNumbers'
    BY <1>0, <2>1 DEF WakeNumbers
  <2>4. WakeFlags' /\ WakePending'
    BY <2>2 DEF WakeFlags, WakePending
  <2> QED
    BY <2>3, <2>4 DEF WakeInv
<1>3. CASE ReadSlept
  <2>1. prev' = slept /\ slept' = slept /\ began' = began
    BY <1>3 DEF ReadSlept
  <2>2. watching' = watching
    BY <1>3 DEF ReadSlept
  <2>3. owed' = FALSE \/ (owed' = owed /\ ~(slept - prev >= MinSleep))
    BY <1>3 DEF ReadSlept
  <2>4. ~owed'
    BY <1>0, <2>3 DEF WakePending, WakeFlags
  <2>5. fired' = fired + (slept - prev) \/ fired' = fired
    BY <1>3 DEF ReadSlept
  <2>6. WakeNumbers'
    BY <1>0, <2>1, <2>5 DEF WakeNumbers
  <2>7. owed' \in BOOLEAN
    BY <1>0, <2>3 DEF WakeFlags
  <2>8. WakeFlags' /\ WakePending'
    BY <1>0, <2>2, <2>4, <2>7 DEF WakeFlags, WakePending
  <2> QED
    BY <2>6, <2>8 DEF WakeInv
<1>4. ASSUME NEW d \in 1 .. MinSleep + 1, Sleep(d) PROVE WakeInv'
  <2>1. slept' = slept + d /\ slept + d <= MaxSlept /\ UNCHANGED <<prev, began, fired>>
    BY <1>4 DEF Sleep
  <2>2. owed' = (owed \/ (watching /\ d >= MinSleep)) /\ watching' = watching
    BY <1>4 DEF Sleep
  <2>3. WakeNumbers'
    BY <1>0, <2>1 DEF WakeNumbers
  <2>4. WakeFlags'
    BY <1>0, <2>2, Zenon DEF WakeFlags
  <2>5. slept - prev >= MinSleep \/ d >= MinSleep => slept' - prev' >= MinSleep
    BY <1>0, <2>1 DEF WakeNumbers
  <2>6. WakePending'
    BY <1>0, <2>2, <2>5, Zenon DEF WakePending
  <2> QED
    BY <2>3, <2>4, <2>6 DEF WakeInv
<1>5. CASE ReadFails \/ UNCHANGED wakeVars
  BY <1>0, <1>5 DEF ReadFails, wakeVars, WakeInv, WakeNumbers, WakeFlags, WakePending
<1> QED
  BY <1>1, <1>2, <1>3, <1>4, <1>5 DEF WakeNext

\* However often the clocks cannot be read, and whatever MinSleep is: a watcher
\* loses no long sleep and reports none twice (Run of wake.go).
THEOREM WakeLosesNothing == WakeSpec => []SleepsFireOnce
<1>1. WakeInv => SleepsFireOnce
  BY DEF WakeInv, WakeNumbers, WakePending, SleepsFireOnce
<1> QED
  BY <1>1, WakeStarts, WakeStep, PTL DEF WakeSpec

-----------------------------------------------------------------------------
\* Params

\* What a row holds of its firing.
RowHolds(i) ==
  /\ \A p \in passed[i] : data[i][p] = "given"
  /\ kind[i] # "restart" => \A p \in Required(firedBy[i]) : data[i][p] = "given"

ParamsInv ==
  /\ ParamsTypeOK
  /\ Accepts(inUse)
  /\ \A i \in Rows : place[i] # "none" => RowHolds(i)
  /\ CommandGetsParams
  /\ MissingExplained

\* What WithDefaults returns: nothing given is replaced, nothing declared is missing.
LEMMA WithDefaultsFills ==
  ASSUME NEW d \in [ParamNames -> Value], NEW c \in ParamConfigs
  PROVE  /\ WithDefaults(d, c) \in [ParamNames -> Value]
         /\ \A p \in ParamNames : d[p] = "given" => WithDefaults(d, c)[p] = "given"
         /\ \A p \in Declared(c) : WithDefaults(d, c)[p] # "absent"
<1>1. ASSUME NEW p \in ParamNames
      PROVE  /\ WithDefaults(d, c)[p] \in Value
             /\ d[p] = "given" => WithDefaults(d, c)[p] = "given"
             /\ c.declares[p] # "no" => WithDefaults(d, c)[p] # "absent"
  <2> DEFINE v == IF d[p] # "absent" THEN d[p]
                  ELSE CASE c.declares[p] = "optional" -> "default"
                         [] c.declares[p] = "required" -> "empty"
                         [] OTHER                      -> "absent"
  <2>1. WithDefaults(d, c)[p] = v
    BY DEF WithDefaults
  <2>2. d[p] \in Value /\ c.declares[p] \in {"no", "optional", "required"}
    BY ParamsAssumption
  <2> HIDE DEF v
  <2>3. CASE d[p] # "absent"
    <3>1. v = d[p]
      BY <2>3 DEF v
    <3> QED
      BY <3>1, <2>1, <2>2, <2>3
  <2>4. CASE d[p] = "absent" /\ c.declares[p] = "optional"
    <3>1. v = "default"
      BY <2>4 DEF v
    <3> QED
      BY <3>1, <2>1, <2>4 DEF Value
  <2>5. CASE d[p] = "absent" /\ c.declares[p] = "required"
    <3>1. v = "empty"
      BY <2>5 DEF v
    <3> QED
      BY <3>1, <2>1, <2>5 DEF Value
  <2>6. CASE d[p] = "absent" /\ c.declares[p] = "no"
    <3>1. v = "absent"
      BY <2>6 DEF v
    <3> QED
      BY <3>1, <2>1, <2>6 DEF Value
  <2> QED
    BY <2>2, <2>3, <2>4, <2>5, <2>6
<1>2. WithDefaults(d, c) \in [ParamNames -> Value]
  <2>1. WithDefaults(d, c) = [p \in ParamNames |-> WithDefaults(d, c)[p]]
    BY DEF WithDefaults
  <2> QED
    BY <1>1, <2>1
<1> QED
  BY <1>1, <1>2 DEF Declared

\* The data of a firing is data, and holds what was passed.
LEMMA GivenDataHolds ==
  ASSUME NEW S \in SUBSET ParamNames
  PROVE  /\ GivenData(S) \in [ParamNames -> Value] /\ NoData \in [ParamNames -> Value]
         /\ \A p \in S : GivenData(S)[p] = "given"
BY DEF GivenData, NoData, Value

\* A new row keeps the invariant when it holds what its firing passed and what the
\* definition that let it through requires.
LEMMA InsertKeeps ==
  ASSUME ParamsInv,
         NEW k \in {"manual", "webhook", "other", "restart"}, NEW c \in ParamConfigs,
         NEW S \in SUBSET ParamNames, NEW d \in [ParamNames -> Value],
         NEW before \in [Rows -> {"none", "queued", "running", "recorded", "ended"}],
         \A i \in Rows : before[i] = place[i] \/ (place[i] = "recorded" /\ before[i] = "ended"),
         \A p \in S : d[p] = "given",
         k # "restart" => \A p \in Required(c) : d[p] = "given",
         InsertRow(k, c, S, d, before)
  PROVE  ParamsInv'
<1>1. PICK n \in Rows : n = count' /\ n \in 0 .. MaxRows
  BY ParamsAssumption DEF ParamsInv, ParamsTypeOK, InsertRow, Rows
<1>2. ParamsTypeOK
  BY DEF ParamsInv
<1>3. /\ place' = [before EXCEPT ![n] = "queued"] /\ kind' = [kind EXCEPT ![n] = k]
      /\ firedBy' = [firedBy EXCEPT ![n] = c] /\ passed' = [passed EXCEPT ![n] = S]
      /\ data' = [data EXCEPT ![n] = d] /\ UNCHANGED <<onDisk, inUse, older, ranUnder, args>>
  BY <1>1 DEF InsertRow
<1>4. ParamsTypeOK'
  BY <1>1, <1>2, <1>3 DEF ParamsTypeOK
<1>5. Accepts(inUse)'
  BY <1>3 DEF ParamsInv, Accepts, Required
<1>6. ASSUME NEW i \in Rows, i # n
      PROVE  /\ (place'[i] # "none") = (place[i] # "none") /\ Ran(i)' = Ran(i)
             /\ kind'[i] = kind[i] /\ firedBy'[i] = firedBy[i] /\ passed'[i] = passed[i]
             /\ data'[i] = data[i] /\ args'[i] = args[i] /\ ranUnder'[i] = ranUnder[i]
  <2>1. place'[i] = before[i]
    BY <1>3, <1>6
  <2>2. kind'[i] = kind[i] /\ firedBy'[i] = firedBy[i] /\ passed'[i] = passed[i] /\ data'[i] = data[i]
    BY <1>2, <1>3, <1>6 DEF ParamsTypeOK
  <2> QED
    BY <1>3, <2>1, <2>2 DEF Ran
<1>7. /\ place'[n] = "queued" /\ kind'[n] = k /\ firedBy'[n] = c /\ passed'[n] = S /\ data'[n] = d
      /\ ~Ran(n)'
  BY <1>1, <1>2, <1>3 DEF ParamsTypeOK, Ran
<1>8. ASSUME NEW i \in Rows, place'[i] # "none" PROVE RowHolds(i)'
  <2>1. CASE i = n
    BY <2>1, <1>7 DEF RowHolds, Required
  <2>2. CASE i # n
    <3>1. RowHolds(i)
      BY <1>6, <1>8, <2>2 DEF ParamsInv
    <3> QED
      BY <3>1, <1>6, <2>2 DEF RowHolds, Required
  <2> QED
    BY <2>1, <2>2
<1>9. CommandGetsParams'
  BY <1>6, <1>7 DEF ParamsInv, CommandGetsParams, Declared
<1>10. MissingExplained'
  BY <1>6, <1>7 DEF ParamsInv, MissingExplained, Required
<1> QED
  BY <1>4, <1>5, <1>8, <1>9, <1>10 DEF ParamsInv

\* A step that fires nothing and changes no row keeps the invariant, when the
\* definition that the agent has is valid.
LEMMA RowsUntouched ==
  ASSUME ParamsInv, UNCHANGED rowVars, UNCHANGED count,
         {onDisk', inUse'} \cup older' \subseteq ParamConfigs, Accepts(inUse')
  PROVE  ParamsInv'
<1>1. ParamsTypeOK'
  BY DEF ParamsInv, ParamsTypeOK, rowVars
<1>2. Accepts(inUse)'
  BY DEF Accepts, Required
<1>3. \A i \in Rows : place'[i] # "none" => RowHolds(i)'
  BY DEF ParamsInv, RowHolds, Required, rowVars
<1>4. CommandGetsParams' /\ MissingExplained'
  BY DEF ParamsInv, CommandGetsParams, MissingExplained, Ran, Declared, Required, rowVars
<1> QED
  BY <1>1, <1>2, <1>3, <1>4 DEF ParamsInv

\* Every step that moves rows, and no more, keeps the invariant, when no row starts.
LEMMA RowsMoved ==
  ASSUME ParamsInv, UNCHANGED <<onDisk, count, kind, firedBy, passed, data, ranUnder, args>>,
         {inUse'} \cup older' \subseteq ParamConfigs, Accepts(inUse'),
         place' \in [Rows -> {"none", "queued", "running", "recorded", "ended"}],
         \A i \in Rows : (place'[i] # "none" => place[i] # "none") /\ (Ran(i)' => Ran(i))
  PROVE  ParamsInv'
<1>1. ParamsTypeOK'
  BY DEF ParamsInv, ParamsTypeOK
<1>2. Accepts(inUse)'
  BY DEF Accepts, Required
<1>3. \A i \in Rows : place'[i] # "none" => RowHolds(i)'
  BY DEF ParamsInv, RowHolds, Required
<1>4. CommandGetsParams' /\ MissingExplained'
  BY DEF ParamsInv, CommandGetsParams, MissingExplained, Declared, Required
<1> QED
  BY <1>1, <1>2, <1>3, <1>4 DEF ParamsInv

\* A run starts with what its row holds and the defaults of the moment.
LEMMA RunStarts ==
  ASSUME ParamsInv, NEW i \in Rows, StartWithParams(i)
  PROVE  ParamsInv'
<1>1. ParamsTypeOK /\ RowHolds(i)
  BY DEF ParamsInv, StartWithParams
<1>2. /\ data[i] \in [ParamNames -> Value] /\ inUse \in ParamConfigs
      /\ passed[i] \subseteq ParamNames
  BY <1>1 DEF ParamsTypeOK
<1>3. /\ WithDefaults(data[i], inUse) \in [ParamNames -> Value]
      /\ \A p \in ParamNames : data[i][p] = "given" => WithDefaults(data[i], inUse)[p] = "given"
      /\ \A p \in Declared(inUse) : WithDefaults(data[i], inUse)[p] # "absent"
  BY <1>2, WithDefaultsFills
<1>4. /\ place' = [place EXCEPT ![i] = "running"]
      /\ args' = [args EXCEPT ![i] = WithDefaults(data[i], inUse)]
      /\ ranUnder' = [ranUnder EXCEPT ![i] = inUse]
      /\ UNCHANGED <<onDisk, inUse, older, count, kind, firedBy, passed, data>>
  BY DEF StartWithParams
<1>5. ParamsTypeOK'
  BY <1>1, <1>2, <1>3, <1>4 DEF ParamsTypeOK
<1>6. Accepts(inUse)'
  BY <1>4 DEF ParamsInv, Accepts, Required
<1>7. \A j \in Rows : place'[j] # "none" => RowHolds(j)'
  BY <1>1, <1>4 DEF ParamsInv, ParamsTypeOK, RowHolds, Required, StartWithParams
<1>8. args'[i] = WithDefaults(data[i], inUse) /\ ranUnder'[i] = inUse
  BY <1>1, <1>4 DEF ParamsTypeOK
<1>9. ASSUME NEW j \in Rows, j # i
      PROVE  Ran(j)' = Ran(j) /\ args'[j] = args[j] /\ ranUnder'[j] = ranUnder[j]
  BY <1>1, <1>4, <1>9 DEF ParamsTypeOK, Ran
<1>10. ASSUME NEW j \in Rows, Ran(j)'
       PROVE  /\ \A p \in Declared(ranUnder'[j]) : args'[j][p] # "absent"
              /\ \A p \in passed[j] : args'[j][p] = "given"
  <2>1. CASE j = i
    BY <2>1, <1>1, <1>2, <1>3, <1>8 DEF RowHolds
  <2>2. CASE j # i
    BY <2>2, <1>9, <1>10 DEF ParamsInv, CommandGetsParams
  <2> QED
    BY <2>1, <2>2
<1>11. ASSUME NEW j \in Rows, Ran(j)', NEW p \in Required(ranUnder'[j])
       PROVE  args'[j][p] = "given" \/ kind[j] = "restart" \/ firedBy[j] # ranUnder'[j]
  <2>1. CASE j = i
    <3> SUFFICES ASSUME kind[i] # "restart", firedBy[i] = inUse
                 PROVE  args'[i][p] = "given"
      BY <2>1, <1>8
    <3>1. p \in ParamNames /\ data[i][p] = "given"
      BY <2>1, <1>1, <1>8, <1>11 DEF RowHolds, Required
    <3> QED
      BY <3>1, <1>3, <1>8
  <2>2. CASE j # i
    BY <2>2, <1>9, <1>11 DEF ParamsInv, MissingExplained
  <2> QED
    BY <2>1, <2>2
<1>12. CommandGetsParams'
  BY <1>4, <1>10 DEF CommandGetsParams, Declared
<1>13. MissingExplained'
  BY <1>4, <1>11 DEF MissingExplained, Required
<1> QED
  BY <1>5, <1>6, <1>7, <1>12, <1>13 DEF ParamsInv

\* Initially there is no row.
LEMMA ParamsStart == ParamsInit => ParamsInv
<1> SUFFICES ASSUME ParamsInit PROVE ParamsInv
  OBVIOUS
<1>1. ParamsTypeOK
  BY ParamsAssumption DEF ParamsInit, ParamsTypeOK, Value, NoData
<1>2. \A i \in Rows : place[i] = "none"
  BY DEF ParamsInit
<1> QED
  BY <1>1, <1>2 DEF ParamsInv, ParamsInit, CommandGetsParams, MissingExplained, Ran

\* Every step keeps the invariant.
LEMMA ParamsStep == ParamsInv /\ [ParamsNext]_paramVars => ParamsInv'
<1> SUFFICES ASSUME ParamsInv, [ParamsNext]_paramVars PROVE ParamsInv'
  OBVIOUS
<1>1. /\ ParamsTypeOK /\ Accepts(inUse)
      /\ place \in [Rows -> {"none", "queued", "running", "recorded", "ended"}]
      /\ inUse \in ParamConfigs /\ onDisk \in ParamConfigs /\ older \subseteq ParamConfigs
  BY DEF ParamsInv, ParamsTypeOK
<1>2. ASSUME NEW S \in SUBSET ParamNames, FireManually(S) PROVE ParamsInv'
  <2> DEFINE d == WithDefaults(GivenData(S), onDisk)
  <2>1. d \in [ParamNames -> Value] /\ \A p \in S : d[p] = "given"
    BY <1>1, GivenDataHolds, WithDefaultsFills
  <2>2. InsertRow("manual", onDisk, S, d, place) /\ Required(onDisk) \subseteq S
    BY <1>2 DEF FireManually
  <2> HIDE DEF d
  <2> QED
    BY <1>1, <2>1, <2>2, InsertKeeps
<1>3. ASSUME NEW S \in SUBSET ParamNames, NEW c \in ParamConfigs, FireByWebhook(c, S)
      PROVE  ParamsInv'
  <2> DEFINE T == S \cap Declared(c)
             d == WithDefaults(GivenData(T), inUse)
  <2>1. T \in SUBSET ParamNames /\ d \in [ParamNames -> Value] /\ \A p \in T : d[p] = "given"
    BY <1>1, GivenDataHolds, WithDefaultsFills
  <2>2. InsertRow("webhook", c, T, d, place)
    BY <1>3 DEF FireByWebhook
  <2>3. Required(c) \subseteq T
    BY <1>3 DEF FireByWebhook, Required, Declared
  <2> HIDE DEF T, d
  <2> QED
    BY <1>1, <2>1, <2>2, <2>3, InsertKeeps
<1>4. CASE FireWithout
  <2> DEFINE d == WithDefaults(NoData, inUse)
  <2>1. d \in [ParamNames -> Value] /\ {} \in SUBSET ParamNames
    BY <1>1, GivenDataHolds, WithDefaultsFills
  <2>2. InsertRow("other", inUse, {}, d, place)
    BY <1>4 DEF FireWithout
  <2>3. Required(inUse) = {}
    BY <1>1, <1>4 DEF Accepts, FireWithout
  <2> HIDE DEF d
  <2> QED
    BY <1>1, <2>1, <2>2, <2>3, InsertKeeps
<1>5. ASSUME NEW i \in Rows, EndRun(i) PROVE ParamsInv'
  <2>1. \A j \in Rows : (place'[j] # "none" => place[j] # "none") /\ (Ran(j)' => Ran(j))
    BY <1>1, <1>5 DEF EndRun, Ran
  <2> QED
    BY <1>1, <1>5, <2>1, RowsMoved DEF EndRun
<1>6. ASSUME NEW i \in Rows, RestartRun(i) PROVE ParamsInv'
  <2> DEFINE after == [place EXCEPT ![i] = "ended"]
             d == WithDefaults(NoData, inUse)
  <2>1. /\ after \in [Rows -> {"none", "queued", "running", "recorded", "ended"}]
        /\ \A j \in Rows : after[j] = place[j] \/ (place[j] = "recorded" /\ after[j] = "ended")
    BY <1>1, <1>6 DEF RestartRun
  <2>2. d \in [ParamNames -> Value] /\ {} \in SUBSET ParamNames
    BY <1>1, GivenDataHolds, WithDefaultsFills
  <2>3. CASE InsertRow("restart", inUse, {}, d, after)
    <3> HIDE DEF after, d
    <3> QED
      BY <1>1, <2>1, <2>2, <2>3, InsertKeeps
  <2>4. CASE /\ place' = after
             /\ UNCHANGED <<onDisk, inUse, older, count, kind, firedBy, passed, data, ranUnder, args>>
    <3>1. \A j \in Rows : (place'[j] # "none" => place[j] # "none") /\ (Ran(j)' => Ran(j))
      BY <2>1, <2>4 DEF Ran
    <3> QED
      BY <1>1, <2>1, <2>4, <3>1, RowsMoved
  <2> QED
    BY <1>6, <2>3, <2>4 DEF RestartRun
<1>7. ASSUME NEW c \in ParamConfigs, Edit(c) PROVE ParamsInv'
  BY <1>1, <1>7, RowsUntouched DEF Edit
<1>8. CASE LoadFiles
  BY <1>1, <1>8, RowsUntouched DEF LoadFiles
<1>9. CASE StartOver
  <2>1. /\ place' \in [Rows -> {"none", "queued", "running", "recorded", "ended"}]
        /\ \A j \in Rows : place'[j] = IF place[j] = "running" THEN "queued"
                                      ELSE IF place[j] = "recorded" THEN "ended" ELSE place[j]
    BY <1>1, <1>9 DEF StartOver
  <2>2. \A j \in Rows : (place'[j] # "none" => place[j] # "none") /\ (Ran(j)' => Ran(j))
    BY <2>1 DEF Ran
  <2> QED
    BY <1>1, <1>9, <2>1, <2>2, RowsMoved DEF StartOver
<1>10. CASE UNCHANGED paramVars
  BY <1>1, <1>10, RowsUntouched DEF paramVars
<1> QED
  BY <1>2, <1>3, <1>4, RunStarts, <1>5, <1>6, <1>7, <1>8, <1>9, <1>10 DEF ParamsNext

\* For all definitions, however they change while rows wait: a command receives
\* every parameter that its event declares when it starts, and every value that was
\* passed (WithDefaults, specs).
THEOREM ParamsReachCommand == ParamsSpec => []CommandGetsParams
<1>1. ParamsInv => CommandGetsParams
  BY DEF ParamsInv
<1> QED
  BY <1>1, ParamsStart, ParamsStep, PTL DEF ParamsSpec

\* Only a restart, or a definition that changed since the firing, lets a run go
\* without a required parameter (Apply, Register, validate).
THEOREM MissingOnlyByRestart == ParamsSpec => []MissingExplained
<1>1. ParamsInv => MissingExplained
  BY DEF ParamsInv
<1> QED
  BY <1>1, ParamsStart, ParamsStep, PTL DEF ParamsSpec

-----------------------------------------------------------------------------
\* Webhook

\* The rows that are not settled: only these change their status.
Unsettled == {"queued", "running"}

\* A request has a row, or a result that was sent, only when its handler submitted
\* it, and an answer only when its handler is done; the result of a row is what
\* the row says, unless a cancel came over it.
HandlerAgrees(c) ==
  /\ handler[c] \in {"none", "reading"} => row[c] = "none" /\ c \notin told
  /\ handler[c] # "answered" => answer[c] = "none"
  /\ c \in told => result[c] # "none"
  /\ result[c] # "none" => \/ result[c] = row[c]
                           \/ result[c] = "succeeded" /\ row[c] = "failed" /\ c \in canceling
  /\ handler[c] = "waiting" => route[c].wait

HookTypes ==
  /\ handler \in [Callers -> {"none", "reading", "waiting", "answered", "gone", "cut"}]
  /\ route \in [Callers -> [wait : BOOLEAN, server : Nat]] /\ reloads \in Nat
  /\ flaw \in [Callers -> Flaws \cup {"none"}] /\ answer \in [Callers -> Answers]
  /\ row \in [Callers -> RowSet] /\ result \in [Callers -> Results]
  /\ told \subseteq Callers /\ canceling \subseteq Callers

HookInv ==
  /\ HookTypes
  /\ \A c \in Callers : HandlerAgrees(c) /\ AnswerFits(c)

\* A request without a row has no result.
LEMMA NoRowNoResult ==
  ASSUME HookInv, NEW c \in Callers, row[c] = "none"
  PROVE  result[c] = "none"
BY DEF HookInv, HandlerAgrees

\* A step of one request leaves the others as they are.
LEMMA OneRequest ==
  ASSUME HookInv, NEW c \in Callers, HookTypes', HandlerAgrees(c)', AnswerFits(c)',
         \A d \in Callers \ {c} :
           /\ handler'[d] = handler[d] /\ route'[d] = route[d] /\ flaw'[d] = flaw[d]
           /\ answer'[d] = answer[d] /\ row'[d] = row[d] /\ (d \in told') = (d \in told)
           /\ result'[d] = result[d] /\ (d \in canceling') = (d \in canceling)
  PROVE  HookInv'
<1>1. ASSUME NEW d \in Callers \ {c} PROVE HandlerAgrees(d)' /\ AnswerFits(d)'
  BY <1>1 DEF HookInv, HandlerAgrees, AnswerFits
<1> QED
  BY <1>1 DEF HookInv

\* A handler responds: its answer fits the row that its request has.
LEMMA Responds ==
  ASSUME HookInv, NEW c \in Callers, NEW a \in Answers, Respond(c, a),
         row' \in [Callers -> RowSet], \A d \in Callers \ {c} : row'[d] = row[d],
         UNCHANGED <<route, flaw, told, reloads, canceling, result>>,
         result[c] # "none" => row'[c] = row[c],
         a \in Flaws     => row'[c] = "none" /\ flaw[c] = a,
         a = "queued"    => row'[c] # "none" /\ ~route[c].wait,
         a = "skipped"   => row'[c] = "skipped",
         a = "dropped"   => row'[c] = "dropped" \/ (row'[c] = "none" /\ ~route[c].wait),
         a = "succeeded" => row'[c] = "succeeded" \/ c \in canceling,
         a = "failed"    => row'[c] = "failed",
         a = "nothing"   => row'[c] = "none" /\ route[c].wait
  PROVE  HookInv'
<1>1. HookTypes /\ HandlerAgrees(c) /\ answer' = [answer EXCEPT ![c] = a]
      /\ handler' = [handler EXCEPT ![c] = "answered"]
  BY DEF HookInv, Respond
<1>2. HookTypes'
  BY <1>1 DEF HookTypes
<1>3. answer'[c] = a /\ handler'[c] = "answered"
  BY <1>1 DEF HookTypes
<1>4. HandlerAgrees(c)'
  BY <1>1, <1>3 DEF HandlerAgrees
<1>5. AnswerFits(c)'
  BY <1>3 DEF AnswerFits
<1>6. \A d \in Callers \ {c} : handler'[d] = handler[d] /\ answer'[d] = answer[d]
  BY <1>1 DEF HookTypes
<1> QED
  BY <1>2, <1>4, <1>5, <1>6, OneRequest

\* The dispatcher, or a user, changes a row that is not settled: no answer speaks
\* of it but "queued", and no result.
LEMMA RowChanges ==
  ASSUME HookInv, NEW c \in Callers, NEW r \in RowSet \ {"none"}, row[c] \in Unsettled,
         row' = [row EXCEPT ![c] = r], UNCHANGED <<handlerVars, told, canceling, reloads>>,
         result' = result \/ (r \in Results /\ result' = [result EXCEPT ![c] = r])
  PROVE  HookInv'
<1>1. HookTypes /\ HandlerAgrees(c) /\ AnswerFits(c)
  BY DEF HookInv
<1>2. HookTypes'
  BY <1>1 DEF HookTypes, handlerVars
<1>3. row'[c] = r /\ handler' = handler /\ answer' = answer /\ route' = route /\ told' = told
      /\ flaw' = flaw /\ canceling' = canceling
  BY <1>1 DEF HookTypes, handlerVars
<1>4. row[c] \notin Endings \cup {"skipped", "dropped", "none"}
  BY DEF Unsettled, Endings
<1>5. result[c] = "none"
  BY <1>1, <1>4 DEF HookTypes, HandlerAgrees, Results, Endings
<1>6. result'[c] = "none" \/ result'[c] = r
  BY <1>1, <1>5 DEF HookTypes
<1>7. HandlerAgrees(c)'
  <2>1. handler[c] \notin {"none", "reading"} /\ c \notin told
    BY <1>1, <1>4, <1>5 DEF HandlerAgrees
  <2> QED
    BY <1>1, <1>3, <1>6, <2>1 DEF HandlerAgrees
<1>8. AnswerFits(c)'
  <2>1. answer[c] \in {"none", "queued"} \/ (answer[c] = "succeeded" /\ c \in canceling)
    BY <1>1, <1>4 DEF HookTypes, AnswerFits, Answers, Endings
  <2>2. answer[c] = "queued" => ~route[c].wait
    BY <1>1 DEF AnswerFits
  <2> QED
    BY <2>1, <2>2, <1>3 DEF AnswerFits, Flaws
<1>9. \A d \in Callers \ {c} : row'[d] = row[d] /\ result'[d] = result[d]
  BY <1>1 DEF HookTypes
<1> QED
  BY <1>2, <1>3, <1>7, <1>8, <1>9, OneRequest DEF handlerVars

\* A cancel comes after the run succeeded.
LEMMA LateCancelKeeps ==
  ASSUME HookInv, NEW c \in Callers, CancelTooLate(c)
  PROVE  HookInv'
<1>1. /\ HookTypes /\ HandlerAgrees(c) /\ AnswerFits(c) /\ c \in canceling /\ row[c] = "succeeded"
      /\ row' = [row EXCEPT ![c] = "failed"]
      /\ UNCHANGED <<reloads, handler, route, flaw, answer, result, told, canceling>>
  BY DEF HookInv, CancelTooLate, agentVars, handlerVars
<1>2. HookTypes' /\ row'[c] = "failed" /\ \A d \in Callers \ {c} : row'[d] = row[d]
  BY <1>1 DEF HookTypes, RowSet, Endings
<1>3. HandlerAgrees(c)'
  BY <1>1, <1>2 DEF HandlerAgrees
<1>4. AnswerFits(c)'
  <2>1. answer[c] \in {"none", "queued", "succeeded"}
    BY <1>1 DEF HookTypes, AnswerFits, Answers
  <2>2. answer[c] = "queued" => ~route[c].wait
    BY <1>1 DEF AnswerFits
  <2> QED
    BY <1>1, <1>2, <2>1, <2>2 DEF AnswerFits, Flaws
<1> QED
  BY <1>1, <1>2, <1>3, <1>4, OneRequest

\* A user asks to cancel: a queued row is withdrawn, a running one is marked.
LEMMA UserCancelKeeps ==
  ASSUME HookInv, NEW c \in Callers, CancelByUser(c)
  PROVE  HookInv'
<1>0. HookTypes /\ HandlerAgrees(c) /\ AnswerFits(c)
  BY DEF HookInv
<1>1. CASE row[c] = "queued" /\ row' = [row EXCEPT ![c] = "withdrawn"] /\ UNCHANGED canceling
  <2>1. "withdrawn" \in RowSet \ {"none"} /\ row[c] \in Unsettled
        /\ UNCHANGED <<handlerVars, told, canceling, reloads, result>>
    BY <1>1 DEF CancelByUser, agentVars, RowSet, Unsettled
  <2> QED
    BY <1>1, <2>1, RowChanges
<1>2. CASE row[c] = "running" /\ canceling' = canceling \cup {c} /\ UNCHANGED row
  <2>1. UNCHANGED <<reloads, handler, route, flaw, answer, row, result, told>>
    BY <1>2 DEF CancelByUser, agentVars, handlerVars
  <2>2. HookTypes'
    BY <1>0, <1>2, <2>1 DEF HookTypes
  <2>3. HandlerAgrees(c)' /\ AnswerFits(c)'
    BY <1>0, <1>2, <2>1 DEF HandlerAgrees, AnswerFits
  <2> QED
    BY <1>2, <2>1, <2>2, <2>3, OneRequest
<1> QED
  BY <1>1, <1>2 DEF CancelByUser

\* A step of the agent that no handler notices.
LEMMA HandlersUntouched ==
  ASSUME HookInv, UNCHANGED <<handlerVars, queueVars>>, reloads' \in Nat
  PROVE  HookInv'
BY DEF HookInv, HookTypes, HandlerAgrees, AnswerFits, handlerVars, queueVars

\* Initially there is no request.
LEMMA WebhookStarts == WebhookInit => HookInv
<1> SUFFICES ASSUME WebhookInit PROVE HookInv
  OBVIOUS
<1>1. HookTypes
  BY DEF WebhookInit, HookTypes, RowSet, Results, Answers
<1>2. ASSUME NEW c \in Callers PROVE HandlerAgrees(c) /\ AnswerFits(c)
  <2>1. handler[c] = "none" /\ row[c] = "none" /\ answer[c] = "none" /\ c \notin told
        /\ result[c] = "none"
    BY DEF WebhookInit
  <2> QED
    BY <2>1 DEF HandlerAgrees, AnswerFits, Flaws
<1> QED
  BY <1>1, <1>2 DEF HookInv

\* The steps of a handler keep the invariant.
LEMMA HandlerSteps ==
  ASSUME HookInv, NEW c \in Callers,
         \/ \E f \in Flaws \cup {"none"} : Arrive(c, f)
         \/ Refuse(c) \/ SubmitFails(c) \/ Submitted(c) \/ Reply(c) \/ Leave(c)
  PROVE  HookInv'
<1>0. HookTypes /\ HandlerAgrees(c) /\ AnswerFits(c)
  BY DEF HookInv
<1>1. ASSUME NEW f \in Flaws \cup {"none"}, Arrive(c, f) PROVE HookInv'
  <2>1. /\ handler[c] = "none" /\ row[c] = "none" /\ answer[c] = "none" /\ c \notin told
        /\ UNCHANGED <<reloads, row, result, told, canceling>>
        /\ flaw' = [flaw EXCEPT ![c] = f]
        /\ route' = [route EXCEPT ![c] = [wait |-> inEffect = "wait", server |-> reloads]]
    BY <1>0, <1>1 DEF Arrive, HandlerAgrees, agentVars, queueVars
  <2>2. /\ answer' = IF f = "method" THEN [answer EXCEPT ![c] = f] ELSE answer
        /\ handler' = [handler EXCEPT ![c] = IF f = "method" THEN "answered" ELSE "reading"]
    BY <1>1 DEF Arrive, Respond
  <2>3. HookTypes'
    BY <1>0, <2>1, <2>2 DEF HookTypes, Answers, Flaws
  <2>4. /\ flaw'[c] = f /\ row'[c] = "none" /\ c \notin told'
        /\ answer'[c] = (IF f = "method" THEN f ELSE "none")
        /\ handler'[c] = (IF f = "method" THEN "answered" ELSE "reading")
    BY <1>0, <2>1, <2>2 DEF HookTypes
  <2>5. result'[c] = "none"
    BY <1>0, <2>1 DEF HookTypes, HandlerAgrees, Results, Endings
  <2>6. HandlerAgrees(c)' /\ AnswerFits(c)'
    BY <2>4, <2>5 DEF HandlerAgrees, AnswerFits, Flaws
  <2>7. \A d \in Callers \ {c} :
           /\ handler'[d] = handler[d] /\ route'[d] = route[d] /\ flaw'[d] = flaw[d]
           /\ answer'[d] = answer[d] /\ row'[d] = row[d] /\ (d \in told') = (d \in told)
           /\ result'[d] = result[d] /\ (d \in canceling') = (d \in canceling)
    BY <1>0, <2>1, <2>2 DEF HookTypes
  <2> QED
    BY <2>3, <2>6, <2>7, OneRequest
<1>2. CASE Refuse(c)
  <2>1. flaw[c] \in Flaws /\ flaw[c] \in Answers /\ row[c] = "none" /\ row' = row
    BY <1>0, <1>2 DEF Refuse, HookTypes, HandlerAgrees, Answers, queueVars
  <2>2. flaw[c] \notin {"queued", "skipped", "dropped", "succeeded", "failed", "nothing"}
    BY <2>1 DEF Flaws
  <2>3. Respond(c, flaw[c]) /\ UNCHANGED <<route, flaw, told, reloads, canceling, result>>
    BY <1>2 DEF Refuse, agentVars, queueVars
  <2> QED
    BY <1>0, <2>1, <2>2, <2>3, NoRowNoResult, Responds DEF HookTypes
<1>3. CASE SubmitFails(c)
  <2> DEFINE a == IF route[c].wait THEN "nothing" ELSE "dropped"
  <2>1. row[c] = "none" /\ row' = row /\ Respond(c, a)
        /\ UNCHANGED <<route, flaw, told, reloads, canceling, result>>
    BY <1>0, <1>3 DEF SubmitFails, HandlerAgrees, agentVars, queueVars
  <2>2. a \in Answers /\ a \notin Flaws
    BY DEF Answers, Flaws
  <2>3. (a = "nothing" /\ route[c].wait) \/ (a = "dropped" /\ ~route[c].wait)
    OBVIOUS
  <2> HIDE DEF a
  <2> QED
    BY <1>0, <2>1, <2>2, <2>3, NoRowNoResult, Responds DEF HookTypes
<1>4. CASE Submitted(c)
  <2>1. /\ row[c] = "none" /\ answer[c] = "none"
        /\ UNCHANGED <<route, flaw, told, reloads, canceling, result>>
    BY <1>0, <1>4 DEF Submitted, HandlerAgrees, agentVars
  <2>2. CASE row' = [row EXCEPT ![c] = "queued"] /\ ~route[c].wait /\ Respond(c, "queued")
    <3>1. row'[c] = "queued" /\ row' \in [Callers -> RowSet]
          /\ \A d \in Callers \ {c} : row'[d] = row[d]
      BY <1>0, <2>2 DEF HookTypes, RowSet
    <3> QED
      BY <2>1, <2>2, <3>1, NoRowNoResult, Responds DEF Answers, Flaws
  <2>3. CASE row' = [row EXCEPT ![c] = "dropped"] /\ Respond(c, "dropped")
    <3>1. row'[c] = "dropped" /\ row' \in [Callers -> RowSet]
          /\ \A d \in Callers \ {c} : row'[d] = row[d]
      BY <1>0, <2>3 DEF HookTypes, RowSet
    <3> QED
      BY <2>1, <2>3, <3>1, NoRowNoResult, Responds DEF Answers, Flaws
  <2>4. CASE /\ row' = [row EXCEPT ![c] = "queued"] /\ route[c].wait
             /\ handler' = [handler EXCEPT ![c] = "waiting"] /\ UNCHANGED answer
    <3>1. HookTypes'
      BY <1>0, <2>1, <2>4 DEF HookTypes, RowSet
    <3>2. /\ handler'[c] = "waiting" /\ row'[c] = "queued" /\ answer'[c] = "none"
          /\ route'[c] = route[c] /\ told' = told
      BY <1>0, <2>1, <2>4 DEF HookTypes
    <3>3. c \notin told /\ result'[c] = "none"
      BY <1>0, <1>4, <2>1, NoRowNoResult DEF Submitted, HandlerAgrees
    <3>4. HandlerAgrees(c)' /\ AnswerFits(c)'
      BY <3>2, <3>3, <2>4 DEF HandlerAgrees, AnswerFits, Flaws
    <3>5. \A d \in Callers \ {c} : handler'[d] = handler[d] /\ row'[d] = row[d]
      BY <1>0, <2>4 DEF HookTypes
    <3> QED
      BY <2>1, <2>4, <3>1, <3>4, <3>5, OneRequest
  <2> QED
    BY <1>4, <2>2, <2>3, <2>4 DEF Submitted
<1>5. CASE Reply(c)
  <2> DEFINE a == SyncAnswer(result[c])
  <2>1. /\ result[c] # "none" /\ row' = row
        /\ Respond(c, a) /\ UNCHANGED <<route, flaw, told, reloads, canceling, result>>
    BY <1>0, <1>5 DEF Reply, HandlerAgrees, agentVars, queueVars
  <2>2. \/ a = "succeeded" /\ (row[c] = "succeeded" \/ c \in canceling)
        \/ a = "skipped" /\ row[c] = "skipped"
        \/ a = "dropped" /\ row[c] = "dropped"
        \/ a = "failed" /\ row[c] = "failed"
    BY <1>0, <2>1 DEF SyncAnswer, HookTypes, HandlerAgrees, Results, Endings
  <2>3. a \in Answers /\ a \notin Flaws
    BY <2>2 DEF Answers, Flaws
  <2> HIDE DEF a
  <2> QED
    BY <1>0, <2>1, <2>2, <2>3, NoRowNoResult, Responds DEF HookTypes
<1>6. CASE Leave(c)
  <2>1. /\ answer[c] = "none" /\ handler' = [handler EXCEPT ![c] = "gone"]
        /\ UNCHANGED <<route, flaw, answer, row, told, reloads, canceling, result>>
    BY <1>0, <1>6 DEF Leave, Open, HandlerAgrees, agentVars, queueVars
  <2>2. HookTypes' /\ handler'[c] = "gone"
    BY <1>0, <2>1 DEF HookTypes
  <2>3. HandlerAgrees(c)' /\ AnswerFits(c)'
    BY <1>0, <2>1, <2>2 DEF HandlerAgrees, AnswerFits, Flaws
  <2>4. \A d \in Callers \ {c} : handler'[d] = handler[d]
    BY <2>1
  <2> QED
    BY <2>1, <2>2, <2>3, <2>4, OneRequest
<1> QED
  BY <1>1, <1>2, <1>3, <1>4, <1>5, <1>6

\* The process ends: the handlers that are left answer nothing.
LEMMA EndCuts == HookInv /\ ProcessEnds => HookInv'
<1> SUFFICES ASSUME HookInv, ProcessEnds PROVE HookInv'
  OBVIOUS
<1>1. /\ HookTypes /\ UNCHANGED <<reloads, route, flaw, answer, row, told, canceling, result>>
      /\ handler' = [c \in Callers |-> IF c \in Open THEN "cut" ELSE handler[c]]
  BY DEF HookInv, ProcessEnds, queueVars
<1>2. HookTypes'
  BY <1>1 DEF HookTypes
<1>3. ASSUME NEW c \in Callers PROVE HandlerAgrees(c)' /\ AnswerFits(c)'
  <2>1. HandlerAgrees(c) /\ AnswerFits(c)
    BY DEF HookInv
  <2>2. AnswerFits(c)'
    BY <1>1, <2>1 DEF AnswerFits
  <2>3. CASE c \in Open
    <3>1. handler'[c] = "cut" /\ answer[c] = "none"
      BY <1>1, <2>1, <2>3 DEF Open, HandlerAgrees
    <3> QED
      BY <1>1, <2>1, <2>2, <3>1 DEF HandlerAgrees
  <2>4. CASE c \notin Open
    <3>1. handler'[c] = handler[c]
      BY <1>1, <2>4
    <3> QED
      BY <1>1, <2>1, <2>2, <3>1 DEF HandlerAgrees
  <2> QED
    BY <2>3, <2>4
<1> QED
  BY <1>2, <1>3 DEF HookInv

\* The caller is told what its settled row says.
LEMMA TellKeeps ==
  ASSUME HookInv, NEW c \in Callers, Tell(c)
  PROVE  HookInv'
<1>1. /\ HookTypes /\ HandlerAgrees(c) /\ AnswerFits(c)
      /\ UNCHANGED <<reloads, handler, route, flaw, answer, row, canceling, result>>
      /\ told' = told \cup {c} /\ result[c] # "none"
      /\ handler[c] = "waiting"
  BY DEF HookInv, Tell, agentVars, handlerVars
<1>2. HookTypes'
  BY <1>1 DEF HookTypes
<1>3. HandlerAgrees(c)' /\ AnswerFits(c)'
  BY <1>1 DEF HandlerAgrees, AnswerFits
<1> QED
  BY <1>1, <1>2, <1>3, OneRequest

\* Every step keeps the invariant.
LEMMA WebhookStep == HookInv /\ [WebhookNext]_hookVars => HookInv'
<1> SUFFICES ASSUME HookInv, [WebhookNext]_hookVars PROVE HookInv'
  OBVIOUS
<1>0. reloads \in Nat
  BY DEF HookInv, HookTypes
<1>1. ASSUME NEW c \in Callers, Consume(c) PROVE HookInv'
  <2>1. PICK r \in {"dropped", "running", "skipped"} :
          /\ row' = [row EXCEPT ![c] = r]
          /\ result' = IF r = "running" THEN result ELSE [result EXCEPT ![c] = r]
    BY <1>1 DEF Consume
  <2>2. /\ row[c] \in Unsettled /\ UNCHANGED <<handlerVars, told, canceling, reloads>>
        /\ r \in RowSet \ {"none"} /\ (r = "running" \/ r \in Results)
    BY <1>1 DEF Consume, agentVars, Unsettled, RowSet, Results
  <2>3. result' = result \/ (r \in Results /\ result' = [result EXCEPT ![c] = r])
    BY <2>1, <2>2
  <2> QED
    BY <2>1, <2>2, <2>3, RowChanges
<1>2. ASSUME NEW c \in Callers, FinishHookRun(c) PROVE HookInv'
  <2>1. PICK o \in Endings : row' = [row EXCEPT ![c] = o] /\ result' = [result EXCEPT ![c] = o]
    BY <1>2 DEF FinishHookRun
  <2>2. /\ row[c] \in Unsettled /\ UNCHANGED <<handlerVars, told, canceling, reloads>>
        /\ o \in RowSet \ {"none"} /\ o \in Results
    BY <1>2 DEF FinishHookRun, agentVars, Unsettled, RowSet, Results, Endings
  <2> QED
    BY <2>1, <2>2, RowChanges
<1>3. CASE Signal \/ CloseAtStop \/ Shutdown \/ \E k \in HookConfigs : ReloadHook(k)
  <2>1. UNCHANGED <<handlerVars, queueVars>> /\ reloads' \in Nat
    BY <1>0, <1>3 DEF Signal, CloseAtStop, Shutdown, Expire, NextServer, CloseServer, ReloadHook
  <2> QED
    BY <2>1, HandlersUntouched
<1>4. CASE UNCHANGED hookVars
  BY <1>0, <1>4, HandlersUntouched DEF hookVars, agentVars
<1> QED
  BY <1>1, <1>2, <1>3, <1>4, HandlerSteps, TellKeeps, UserCancelKeeps, LateCancelKeeps, EndCuts
     DEF WebhookNext

\* For every number of requests and reloads: what a client is told is what the
\* database records of its request (Register, RunSync, settle, finish).
THEOREM AnswersFitRows == WebhookSpec => []RowForAnswer
<1>1. HookInv => RowForAnswer
  BY DEF HookInv, RowForAnswer
<1> QED
  BY <1>1, WebhookStarts, WebhookStep, PTL DEF WebhookSpec
=============================================================================
