------------------------------- MODULE MCAgent -------------------------------
(* A small instance of the agent for TLC. *)
EXTENDS Agent
=============================================================================
