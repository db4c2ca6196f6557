---------------------------- MODULE RunContract ----------------------------
(***************************************************************************)
(* What the dispatcher relies on when it spawns a run: something may end   *)
(* the context of the run, the dispatcher for one of three reasons or the  *)
(* timeout of the event, and the run ends once, with a status that fits    *)
(* what came first.  Dispatcher's CommandEnds is a step of this            *)
(* specification; Command, which models the code that runs the command,    *)
(* implements it.                                                          *)
(***************************************************************************)

VARIABLES reason,  \* what ended the context of the run first; "none" before
          status   \* the status that the run ended with; "none" before

Reasons == {"timeout", "user", "replaced", "shutdown"}

\* A failure to start is "failed" whatever ended the context.  A timeout that
\* comes late, when execute has looked for one already, is taken for a stop.
StatusesFor(r) ==
  {"failed"} \cup CASE r = "none"                    -> {"succeeded"}
                    [] r \in {"timeout", "shutdown"} -> {"interrupted"}
                    [] OTHER                         -> {"canceled"}

ContractInit == reason = "none" /\ status = "none"

Ask ==
  /\ reason = "none"
  /\ reason' \in Reasons
  /\ UNCHANGED status

End ==
  /\ status = "none"
  /\ status' \in StatusesFor(reason)
  /\ UNCHANGED reason

ContractNext == Ask \/ End

ContractSpec == ContractInit /\ [][ContractNext]_<<reason, status>>
=============================================================================
