----------------------------- MODULE AfterCycle -----------------------------
(***************************************************************************)
(* afterCycle of internal/config/config.go: the search that keeps after    *)
(* triggers from firing each other for ever.  It is a depth-first search   *)
(* by a recursive function; a step here is one call, or the return from    *)
(* one.  The order of the events and of their triggers is left open.       *)
(***************************************************************************)
EXTENDS Naturals, Sequences

CONSTANTS Names,      \* the names in the configuration
          Undefined   \* those that only an after trigger gives

ASSUME CycleAssumption == Undefined \subseteq Names

VARIABLES
  follows,   \* the events that each event follows
  unvisited, \* the events that the outer loop has not come to
  state,     \* how far each event is: "new", "visiting" or "done"
  path,      \* the calls of visit under way, the outermost first
  left,      \* what each of these calls has not looked at yet
  found      \* the cycle, the first event repeated at its end; else empty

cycleVars == <<follows, unvisited, state, path, left, found>>

\* A trigger that follows its own event is left out, and refused elsewhere.
Graphs == {g \in [Names -> SUBSET Names] :
             /\ \A n \in Names : n \notin g[n]
             /\ \A n \in Undefined : g[n] = {}}

CycleTypeOK ==
  /\ follows \in Graphs
  /\ unvisited \subseteq Names \ Undefined
  /\ state \in [Names -> {"new", "visiting", "done"}]
  /\ path \in Seq(Names) /\ found \in Seq(Names)
  /\ left \in [Names -> SUBSET Names]

CycleInit ==
  /\ follows \in Graphs
  /\ unvisited = Names \ Undefined
  /\ state = [n \in Names |-> "new"]
  /\ path = <<>> /\ found = <<>>
  /\ left = [n \in Names |-> {}]

Top == path[Len(path)]

IndexOf(n) == CHOOSE k \in 1 .. Len(path) : path[k] = n

\* What visit puts together when it comes to an event of the path.
CycleFrom(n) ==
  LET k == IndexOf(n)
  IN  [i \in 1 .. Len(path) - k + 2 |-> IF i <= Len(path) - k + 1 THEN path[k + i - 1] ELSE n]

\* Mutant: an event is done as soon as it is visited.
VisitDone(n, rest) ==
  CASE state[n] = "visiting" -> /\ found' = CycleFrom(n) /\ left' = rest
                                /\ UNCHANGED <<state, path>>
    [] state[n] = "done"     -> left' = rest /\ UNCHANGED <<state, path, found>>
    [] OTHER -> /\ state' = [state EXCEPT ![n] = "done"]
                /\ path' = Append(path, n) /\ left' = [rest EXCEPT ![n] = follows[n]]
                /\ UNCHANGED found

\* A call of visit, up to its loop; rest is what the calls before it have left.
Visit(n, rest) ==
  CASE state[n] = "visiting" -> /\ found' = CycleFrom(n) /\ left' = rest
                                /\ UNCHANGED <<state, path>>
    [] state[n] = "done"     -> left' = rest /\ UNCHANGED <<state, path, found>>
    [] OTHER -> /\ state' = [state EXCEPT ![n] = "visiting"]
                /\ path' = Append(path, n) /\ left' = [rest EXCEPT ![n] = follows[n]]
                /\ UNCHANGED found

\* The outer loop comes to an event.
VisitEvent(n) ==
  /\ found = <<>> /\ path = <<>> /\ n \in unvisited
  /\ unvisited' = unvisited \ {n}
  /\ Visit(n, left)
  /\ UNCHANGED follows

\* The innermost call comes to an event that its own event follows.
VisitFollowed(n) ==
  /\ found = <<>> /\ path # <<>> /\ n \in left[Top]
  /\ Visit(n, [left EXCEPT ![Top] = @ \ {n}])
  /\ UNCHANGED <<follows, unvisited>>

\* The innermost call returns false.
LeaveEvent ==
  /\ found = <<>> /\ path # <<>> /\ left[Top] = {}
  /\ state' = [state EXCEPT ![Top] = "done"]
  /\ path' = [i \in 1 .. Len(path) - 1 |-> path[i]]
  /\ UNCHANGED <<follows, unvisited, left, found>>

CycleNext == LeaveEvent \/ \E n \in Names : VisitEvent(n) \/ VisitFollowed(n)

CycleSpec == CycleInit /\ [][CycleNext]_cycleVars

-----------------------------------------------------------------------------
\* What the search promises

\* What validate reports is a cycle of after triggers.
FoundIsCycle ==
  found # <<>> =>
    /\ Len(found) > 1 /\ found[1] = found[Len(found)]
    /\ \A i \in 1 .. Len(found) - 1 : found[i + 1] \in follows[found[i]]

Finished == path = <<>> /\ unvisited = {} /\ found = <<>>

\* A configuration in which the search finds nothing has no cycle: among any events
\* there is one that follows none of the others.
NoneMissed ==
  Finished => \A S \in SUBSET Names : S # {} => \E n \in S : follows[n] \cap S = {}

\* docs/settings/triggers.md: a configuration whose after triggers form a cycle is
\* refused, and no other is for that reason (validate, afterCycle).
VerdictRight == FoundIsCycle /\ NoneMissed
=============================================================================
