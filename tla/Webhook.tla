------------------------------ MODULE Webhook ------------------------------
(***************************************************************************)
(* The webhook server, internal/trigger/webhook.go, from the arrival of a  *)
(* request to its response, with what it needs of the dispatcher: submit   *)
(* and RunSync (internal/runner/dispatcher.go), which insert the row of a  *)
(* request and wait for its result, and of the agent, which closes the     *)
(* server, gives the dispatcher the new configuration and starts the next  *)
(* server (internal/agent/agent.go).                                       *)
(*                                                                         *)
(* There is one event.  A configuration is what it says of it: "absent",   *)
(* or the route with ("wait") or without ("async") wait: true.  A handler  *)
(* is a goroutine that can outlive its server.                             *)
(***************************************************************************)
EXTENDS Naturals

CONSTANTS Callers,     \* the requests
          HookConfigs, \* the configurations the agent may load
          MaxReloads   \* bound: the reloads

ASSUME WebhookAssumption ==
  /\ HookConfigs \subseteq {"absent", "async", "wait"} /\ HookConfigs # {}
  /\ MaxReloads \in Nat

VARIABLES
  \* the agent
  inEffect,  \* the configuration that Configure was given last
  server,    \* "up", "closing", "closed" at a stop, or "ended" with the process
  loading,   \* what the server closes for: a configuration, or "stop"
  expired,   \* the five seconds that Shutdown waits have passed
  signaled,  \* the context of the agent ended
  reloads,   \* how many servers closed for a reload
  \* the handlers
  handler,   \* where the handler of each request is
  route,     \* the route that each request came in by, and its server
  flaw,      \* what is wrong with each request; "none" when nothing is
  answer,    \* the response: what its body says
  \* the dispatcher
  row,       \* the row of each request; "none" when nothing was inserted
  result,    \* what settle or finish makes of each row; "none" before
  told,      \* the requests whose result is in the channel of RunSync
  canceling  \* the requests whose run a user asked to cancel while it ran

agentVars   == <<inEffect, server, loading, expired, signaled, reloads>>
handlerVars == <<handler, route, flaw, answer>>
queueVars   == <<row, result, told, canceling>>
hookVars    == <<agentVars, handlerVars, queueVars>>

\* "request" is a body that is too large or unreadable, a wrong token or signature,
\* or a missing parameter.
Flaws   == {"method", "request"}
\* "failed" stands for canceled and interrupted too.
Endings == {"succeeded", "failed"}
\* "withdrawn" is canceled while it was queued.
Results == {"none", "skipped", "dropped"} \cup Endings
RowSet  == {"none", "queued", "running", "skipped", "dropped", "withdrawn"} \cup Endings
Answers == {"none", "queued", "dropped", "skipped", "succeeded", "failed", "nothing"} \cup Flaws

WebhookTypeOK ==
  /\ inEffect \in HookConfigs /\ server \in {"up", "closing", "closed", "ended"}
  /\ loading \in HookConfigs \cup {"stop"}
  /\ expired \in BOOLEAN /\ signaled \in BOOLEAN /\ reloads \in 0 .. MaxReloads
  /\ handler \in [Callers -> {"none", "reading", "waiting", "answered", "gone", "cut"}]
  /\ route \in [Callers -> [wait : BOOLEAN, server : 0 .. MaxReloads]]
  /\ flaw \in [Callers -> Flaws \cup {"none"}] /\ answer \in [Callers -> Answers]
  /\ row \in [Callers -> RowSet] /\ result \in [Callers -> Results] /\ told \subseteq Callers
  /\ canceling \subseteq Callers

WebhookInit ==
  /\ inEffect \in HookConfigs /\ loading = inEffect
  /\ server = "up" /\ expired = FALSE /\ signaled = FALSE /\ reloads = 0
  /\ handler = [c \in Callers |-> "none"] /\ flaw = [c \in Callers |-> "none"]
  /\ route = [c \in Callers |-> [wait |-> FALSE, server |-> 0]]
  /\ answer = [c \in Callers |-> "none"]
  /\ row = [c \in Callers |-> "none"] /\ result = [c \in Callers |-> "none"]
  /\ told = {} /\ canceling = {}

\* The handlers that have not returned.
Open == {c \in Callers : handler[c] \in {"reading", "waiting"}}

-----------------------------------------------------------------------------
\* The handler

Respond(c, a) ==
  /\ answer' = [answer EXCEPT ![c] = a] /\ handler' = [handler EXCEPT ![c] = "answered"]

\* A request reaches the route, and a wrong method is refused at once.  Without
\* a route there is no server.
Arrive(c, f) ==
  /\ handler[c] = "none" /\ server = "up" /\ inEffect # "absent"
  /\ flaw' = [flaw EXCEPT ![c] = f]
  /\ route' = [route EXCEPT ![c] = [wait |-> inEffect = "wait", server |-> reloads]]
  /\ IF f = "method" THEN Respond(c, f)
                     ELSE handler' = [handler EXCEPT ![c] = "reading"] /\ UNCHANGED answer
  /\ UNCHANGED <<agentVars, queueVars>>

\* The body is read, or is too large or unreadable; then the token, the
\* signature and the required parameters are checked.
Refuse(c) ==
  /\ handler[c] = "reading" /\ flaw[c] # "none"
  /\ Respond(c, flaw[c])
  /\ UNCHANGED <<agentVars, route, flaw, queueVars>>

\* What RunSync and the handler make of a result: ErrBusy, ErrQueueFull, or the
\* exit code and the error.
SyncAnswer(r) ==
  CASE r = "succeeded"            -> "succeeded"
    [] r \in {"skipped", "dropped"} -> r
    [] OTHER                      -> "failed"

\* submit fails: the event is gone since the request came in, or the insert
\* fails.  RunSync returns that error, and the handler takes every error but its
\* two own for a client that disconnected: it writes nothing.
SubmitFails(c) ==
  /\ handler[c] = "reading" /\ flaw[c] = "none"
  /\ Respond(c, IF route[c].wait THEN "nothing" ELSE "dropped")
  /\ UNCHANGED <<agentVars, route, flaw, queueVars>>

\* submit inserts the row.  With too many rows before it, of this or any other
\* trigger, it is inserted as dropped.
Submitted(c) ==
  /\ handler[c] = "reading" /\ flaw[c] = "none" /\ inEffect # "absent"
  /\ \/ /\ row' = [row EXCEPT ![c] = "queued"]
        /\ IF route[c].wait
             THEN handler' = [handler EXCEPT ![c] = "waiting"] /\ UNCHANGED answer
             ELSE Respond(c, "queued")
     \/ row' = [row EXCEPT ![c] = "dropped"] /\ Respond(c, "dropped")
  /\ UNCHANGED <<agentVars, route, flaw, result, told, canceling>>

\* The result arrives before the client goes away.
Reply(c) ==
  /\ handler[c] = "waiting" /\ c \in told
  /\ Respond(c, SyncAnswer(result[c]))
  /\ UNCHANGED <<agentVars, route, flaw, queueVars>>

\* The client disconnects: its body cannot be read, or RunSync returns because
\* the context of the request ended.  The run continues.
Leave(c) ==
  /\ c \in Open
  /\ handler' = [handler EXCEPT ![c] = "gone"]
  /\ UNCHANGED <<agentVars, route, flaw, answer, queueVars>>

-----------------------------------------------------------------------------
\* The dispatcher

\* The loop consumes a row: it starts it, or settles it because another run of
\* the event is in progress, because a newer firing replaces it, or because the
\* event is no longer defined.  Past its check of the runner's context it starts
\* the row although the signal has come.
Consume(c) ==
  /\ row[c] = "queued" /\ server # "ended"
  /\ \E r \in IF inEffect = "absent" THEN {"dropped"} ELSE {"running", "skipped"} :
       /\ row' = [row EXCEPT ![c] = r]
       /\ result' = IF r = "running" THEN result ELSE [result EXCEPT ![c] = r]
  /\ UNCHANGED <<agentVars, handlerVars, told, canceling>>

\* finish records the result.
FinishHookRun(c) ==
  /\ row[c] = "running"
  /\ \E o \in Endings : row' = [row EXCEPT ![c] = o] /\ result' = [result EXCEPT ![c] = o]
  /\ UNCHANGED <<agentVars, handlerVars, told, canceling>>

\* kickd cancel ends a queued row in the database, where only the loop could tell
\* its caller; for a run in progress it leaves a request.
CancelByUser(c) ==
  /\ \/ /\ row[c] = "queued" /\ row' = [row EXCEPT ![c] = "withdrawn"]
        /\ UNCHANGED canceling
     \/ row[c] = "running" /\ canceling' = canceling \cup {c} /\ UNCHANGED row
  /\ UNCHANGED <<agentVars, handlerVars, result, told>>

\* processCancels comes to a request that it read before the run ended, and
\* records it over a run that succeeded.
CancelTooLate(c) ==
  /\ server # "ended" /\ c \in canceling /\ row[c] = "succeeded"
  /\ row' = [row EXCEPT ![c] = "failed"]
  /\ UNCHANGED <<agentVars, handlerVars, result, told, canceling>>

\* Mutant: the caller is told before the row is settled.
TellEarly(c) ==
  /\ handler[c] = "waiting" /\ c \notin told
  /\ told' = told \cup {c}
  /\ UNCHANGED <<agentVars, handlerVars, row, result, canceling>>

\* finish and settle, after the row: the result goes to the waiting caller.
Tell(c) ==
  /\ handler[c] = "waiting" /\ c \notin told /\ result[c] # "none"
  /\ told' = told \cup {c}
  /\ UNCHANGED <<agentVars, handlerVars, row, result, canceling>>

-----------------------------------------------------------------------------
\* The agent

\* A reload, or a signal, ends the context of the server: Run calls Shutdown,
\* which closes the listener and waits for the handlers.
ReloadHook(k) ==
  /\ server = "up" /\ ~signaled /\ reloads < MaxReloads
  /\ server' = "closing" /\ loading' = k /\ expired' = FALSE
  /\ UNCHANGED <<inEffect, signaled, reloads, handlerVars, queueVars>>

Signal ==
  /\ ~signaled /\ signaled' = TRUE
  /\ UNCHANGED <<inEffect, server, loading, expired, reloads, handlerVars, queueVars>>

CloseAtStop ==
  /\ server = "up" /\ signaled
  /\ server' = "closing" /\ loading' = "stop" /\ expired' = FALSE
  /\ UNCHANGED <<inEffect, signaled, reloads, handlerVars, queueVars>>

\* The context of Shutdown ends.
Expire ==
  /\ server = "closing" /\ ~expired /\ expired' = TRUE
  /\ UNCHANGED <<inEffect, server, loading, signaled, reloads, handlerVars, queueVars>>

\* Mutant: Shutdown waits as long as there are handlers.
ShutdownWaits == {c \in Open : route[c].server = reloads} = {}

\* Shutdown returns, and with it Run.
ShutdownDone == expired \/ {c \in Open : route[c].server = reloads} = {}

\* After a reload the agent calls Configure and starts the triggers anew.
NextServer ==
  /\ server = "closing" /\ loading # "stop" /\ ShutdownDone
  /\ inEffect' = loading /\ server' = "up" /\ reloads' = reloads + 1
  /\ UNCHANGED <<loading, expired, signaled, handlerVars, queueVars>>

CloseServer ==
  /\ server = "closing" /\ loading = "stop" /\ ShutdownDone
  /\ server' = "closed"
  /\ UNCHANGED <<inEffect, loading, expired, signaled, reloads, handlerVars, queueVars>>

\* rn.Wait returns and the process ends, with the handlers that are left.
ProcessEnds ==
  /\ server = "closed" /\ \A c \in Callers : row[c] # "running"
  /\ server' = "ended"
  /\ handler' = [c \in Callers |-> IF c \in Open THEN "cut" ELSE handler[c]]
  /\ UNCHANGED <<inEffect, loading, expired, signaled, reloads, route, flaw, answer, queueVars>>

Shutdown == Expire \/ NextServer \/ CloseServer

WebhookNext ==
  \/ \E c \in Callers :
       \/ \E f \in Flaws \cup {"none"} : Arrive(c, f)
       \/ Refuse(c) \/ SubmitFails(c) \/ Submitted(c) \/ Reply(c) \/ Leave(c)
       \/ Consume(c) \/ FinishHookRun(c) \/ Tell(c)
       \/ CancelByUser(c) \/ CancelTooLate(c)
  \/ \E k \in HookConfigs : ReloadHook(k)
  \/ Signal \/ CloseAtStop \/ Shutdown \/ ProcessEnds

WebhookSpec == WebhookInit /\ [][WebhookNext]_hookVars

\* The timer of Shutdown ends, and Run and the agent go on.  Nothing is assumed of
\* clients, which may send a body slowly for ever, nor of commands.
WebhookFairness == WF_hookVars(Shutdown)

-----------------------------------------------------------------------------
\* What the code promises

\* docs/webhook.md, the table of responses: what a client is told is what the
\* database records of its request.  A request that was refused left no row; one
\* that was answered with a result, skipped or dropped has a row that says so
\* (Register, RunSync, settle, finish), unless a cancel overwrites it later.  Only a
\* submit that failed leaves a caller with "dropped", or with nothing, and no row.
AnswerFits(c) ==
  /\ answer[c] \in Flaws     => row[c] = "none" /\ flaw[c] = answer[c]
  /\ answer[c] = "queued"    => row[c] # "none" /\ ~route[c].wait
  /\ answer[c] = "skipped"   => row[c] = "skipped"
  /\ answer[c] = "dropped"   => row[c] = "dropped" \/ (row[c] = "none" /\ ~route[c].wait)
  /\ answer[c] = "succeeded" => row[c] = "succeeded" \/ c \in canceling
  /\ answer[c] = "failed"    => row[c] = "failed"
  /\ answer[c] = "nothing"   => row[c] = "none" /\ route[c].wait

RowForAnswer == \A c \in Callers : AnswerFits(c)

\* A reload or a stop closes the server within the time limit of Shutdown,
\* whatever its clients and its commands do (Run): the next server, or the end of
\* the agent, does not wait for them.
ServerCloses == (server = "closing") ~> (server # "closing")

\* The status code; net/http sends 200 when a handler writes nothing.
OK(c) == handler[c] = "answered" /\ answer[c] \in {"succeeded", "nothing"}

\* docs/webhook.md: 200 is "With wait: true, the command exited with code 0".
OkMeansSucceeded == \A c \in Callers : OK(c) => row[c] = "succeeded"
=============================================================================
