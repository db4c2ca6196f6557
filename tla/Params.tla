------------------------------- MODULE Params -------------------------------
(***************************************************************************)
(* The parameters of one event, from the firing that gives them to the     *)
(* command that receives them: Apply and validate of                       *)
(* internal/config/config.go, the route of a webhook                       *)
(* (internal/trigger/webhook.go), specs of internal/agent/agent.go, and    *)
(* WithDefaults where the dispatcher calls it.  "kickd event" reads the    *)
(* config files, the agent works with what it loaded last, and a row waits *)
(* in the database while both change.                                      *)
(***************************************************************************)
EXTENDS Naturals

CONSTANTS ParamNames,   \* the names of parameters
          ParamConfigs, \* the definitions that the files may hold
          MaxRows       \* bound: the rows that are ever inserted

\* The declarations of a definition, its restart setting, and its triggers: the
\* manual and the webhook trigger can pass parameters, "other" ones cannot.
ASSUME ParamsAssumption ==
  /\ ParamConfigs # {}
  /\ \A c \in ParamConfigs :
       /\ c.declares \in [ParamNames -> {"no", "optional", "required"}]
       /\ c.restarts \in BOOLEAN
       /\ c.triggers \subseteq {"manual", "webhook", "other"}
  /\ MaxRows \in Nat

Rows == 1 .. MaxRows

VARIABLES
  onDisk,   \* the definition in the config files
  inUse,    \* the definition that the agent has
  older,    \* the definitions before it, whose webhook handlers may still run
  count,    \* how many rows there are
  place,    \* where each row is
  kind,     \* the trigger of each row
  firedBy,  \* history: the definition that each row was checked against
  passed,   \* history: the parameters that its firing passed
  data,     \* what the row holds
  ranUnder, \* history: the definition that its run was started with
  args      \* what its command received

rowVars   == <<place, kind, firedBy, passed, data, ranUnder, args>>
paramVars == <<onDisk, inUse, older, count, rowVars>>

\* A value: none, the one of the firing, the default of an optional parameter, or
\* the empty default that specs gives a required one.
Value == {"absent", "given", "default", "empty"}

NoData == [p \in ParamNames |-> "absent"]

ParamsTypeOK ==
  /\ {onDisk, inUse} \cup older \subseteq ParamConfigs
  /\ count \in 0 .. MaxRows
  /\ place \in [Rows -> {"none", "queued", "running", "recorded", "ended"}]
  /\ kind \in [Rows -> {"manual", "webhook", "other", "restart"}]
  /\ firedBy \in [Rows -> ParamConfigs] /\ ranUnder \in [Rows -> ParamConfigs]
  /\ passed \in [Rows -> SUBSET ParamNames]
  /\ data \in [Rows -> [ParamNames -> Value]] /\ args \in [Rows -> [ParamNames -> Value]]

Declared(c) == {p \in ParamNames : c.declares[p] # "no"}
Required(c) == {p \in ParamNames : c.declares[p] = "required"}

\* Mutant: the rule for required parameters is missing.
AcceptsAll(c) == c.triggers # {}

\* validate: a trigger that passes no parameters excludes required ones.  A
\* restart is not a trigger of the definition, and is not looked at.
Accepts(c) == c.triggers # {} /\ (Required(c) # {} => "other" \notin c.triggers)

\* WithDefaults with the defaults that specs makes of c: every declared parameter
\* has one.
WithDefaults(d, c) ==
  [p \in ParamNames |-> IF d[p] # "absent" THEN d[p]
                        ELSE CASE c.declares[p] = "optional" -> "default"
                               [] c.declares[p] = "required" -> "empty"
                               [] OTHER                      -> "absent"]

\* What a firing that passes S has as its data.
GivenData(S) == [p \in ParamNames |-> IF p \in S THEN "given" ELSE "absent"]

ParamsInit ==
  /\ inUse \in {c \in ParamConfigs : Accepts(c)} /\ onDisk = inUse /\ older = {}
  /\ count = 0
  /\ place = [i \in Rows |-> "none"] /\ kind = [i \in Rows |-> "manual"]
  /\ firedBy = [i \in Rows |-> inUse] /\ ranUnder = [i \in Rows |-> inUse]
  /\ passed = [i \in Rows |-> {}]
  /\ data = [i \in Rows |-> NoData] /\ args = [i \in Rows |-> NoData]

-----------------------------------------------------------------------------
\* Firings

\* The next row: its trigger, the definition that let it through, what the firing
\* passed, and its data; before is where the other rows are then.
InsertRow(k, c, S, d, before) ==
  /\ count < MaxRows /\ count' = count + 1
  /\ place' = [before EXCEPT ![count'] = "queued"]
  /\ kind' = [kind EXCEPT ![count'] = k]
  /\ firedBy' = [firedBy EXCEPT ![count'] = c]
  /\ passed' = [passed EXCEPT ![count'] = S]
  /\ data' = [data EXCEPT ![count'] = d]
  /\ UNCHANGED <<onDisk, inUse, older, ranUnder, args>>

\* "kickd event" loads the files, and Apply checks the parameters: with declared
\* ones, nothing else may be passed and no required one left out.
FireManually(S) ==
  /\ Accepts(onDisk) /\ "manual" \in onDisk.triggers
  /\ Required(onDisk) \subseteq S
  /\ Declared(onDisk) # {} => S \subseteq Declared(onDisk)
  /\ InsertRow("manual", onDisk, S, WithDefaults(GivenData(S), onDisk), place)

\* The handler of a route takes the declared ones from the query and refuses a
\* request without the required ones; submit adds the defaults of the definition
\* that the agent has by then.  A handler may outlive its server, and so any number
\* of reloads.
FireByWebhook(c, S) ==
  /\ c \in {inUse} \cup older /\ "webhook" \in c.triggers
  /\ Required(c) \subseteq S
  /\ InsertRow("webhook", c, S \cap Declared(c), WithDefaults(GivenData(S \cap Declared(c)), inUse), place)

\* Any other trigger of the event.
FireWithout ==
  /\ "other" \in inUse.triggers
  /\ InsertRow("other", inUse, {}, WithDefaults(NoData, inUse), place)

-----------------------------------------------------------------------------
\* The dispatcher and the agent

\* Mutant: the command receives the row as it is.
StartBare(i) ==
  /\ place[i] = "queued"
  /\ place' = [place EXCEPT ![i] = "running"]
  /\ args' = [args EXCEPT ![i] = data[i]]
  /\ ranUnder' = [ranUnder EXCEPT ![i] = inUse]
  /\ UNCHANGED <<onDisk, inUse, older, count, kind, firedBy, passed, data>>

\* schedule starts the command, with the defaults that the agent has now for what
\* the row does not hold.
StartWithParams(i) ==
  /\ place[i] = "queued"
  /\ place' = [place EXCEPT ![i] = "running"]
  /\ args' = [args EXCEPT ![i] = WithDefaults(data[i], inUse)]
  /\ ranUnder' = [ranUnder EXCEPT ![i] = inUse]
  /\ UNCHANGED <<onDisk, inUse, older, count, kind, firedBy, passed, data>>

\* The command ends, and finish records it.
EndRun(i) ==
  /\ place[i] = "running"
  /\ place' = [place EXCEPT ![i] = "recorded"]
  /\ UNCHANGED <<onDisk, inUse, older, count, kind, firedBy, passed, data, ranUnder, args>>

\* Then restart, when the definition by then restarts the event after this run,
\* fires it again, without parameters.
RestartRun(i) ==
  /\ place[i] = "recorded"
  /\ LET after == [place EXCEPT ![i] = "ended"] IN
     \/ inUse.restarts /\ InsertRow("restart", inUse, {}, WithDefaults(NoData, inUse), after)
     \/ /\ place' = after
        /\ UNCHANGED <<onDisk, inUse, older, count, kind, firedBy, passed, data, ranUnder, args>>

Edit(c) ==
  /\ onDisk' = c /\ c # onDisk
  /\ UNCHANGED <<inUse, older, count, rowVars>>

\* A reload takes valid files only.
LoadFiles ==
  /\ Accepts(onDisk) /\ onDisk # inUse
  /\ inUse' = onDisk /\ older' = older \cup {inUse}
  /\ UNCHANGED <<onDisk, count, rowVars>>

\* The agent dies and starts again with valid files; what ran is queued anew with
\* the payload that its row holds.
StartOver ==
  /\ Accepts(onDisk)
  /\ inUse' = onDisk /\ older' = {}
  /\ place' = [i \in Rows |-> CASE place[i] = "running"  -> "queued"
                              [] place[i] = "recorded" -> "ended"
                              [] OTHER                 -> place[i]]
  /\ UNCHANGED <<onDisk, count, kind, firedBy, passed, data, ranUnder, args>>

ParamsNext ==
  \/ \E S \in SUBSET ParamNames :
       FireManually(S) \/ \E c \in ParamConfigs : FireByWebhook(c, S)
  \/ FireWithout
  \/ \E i \in Rows : StartWithParams(i) \/ EndRun(i) \/ RestartRun(i)
  \/ \E c \in ParamConfigs : Edit(c)
  \/ LoadFiles \/ StartOver

ParamsSpec == ParamsInit /\ [][ParamsNext]_paramVars

-----------------------------------------------------------------------------
\* What the code promises

Ran(i) == place[i] \in {"running", "recorded", "ended"}

\* docs/settings/params.md: "The command receives every declared parameter, with
\* the value of the firing, its default, or an empty value": those that the agent
\* knows when the run starts, however the definition changed while the row waited,
\* and a value that the firing passed is never replaced (WithDefaults, specs).
CommandGetsParams ==
  \A i \in Rows : Ran(i) =>
    /\ \A p \in Declared(ranUnder[i]) : args[i][p] # "absent"
    /\ \A p \in passed[i] : args[i][p] = "given"

\* A run without a required parameter was let through by another definition than
\* the one it ran under, or is a restart: Apply, the routes and validate let
\* nothing else through.
MissingExplained ==
  \A i \in Rows : Ran(i) =>
    \A p \in Required(ranUnder[i]) :
      args[i][p] = "given" \/ kind[i] = "restart" \/ firedBy[i] # ranUnder[i]

\* docs/settings/params.md: "A firing that lacks a required parameter does not run".
RequiredParamsGiven ==
  \A i \in Rows : Ran(i) /\ firedBy[i] = ranUnder[i] =>
    \A p \in Required(ranUnder[i]) : args[i][p] = "given"
=============================================================================
