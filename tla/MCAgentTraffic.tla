---------------------------- MODULE MCAgentTraffic ----------------------------
(***************************************************************************)
(* Two agents.  The one that is limited is asked by a person or by the      *)
(* other, which may submit work.  Two things happen out of turn: messages  *)
(* a run sends of its own accord, or failures.  Four slots are enough for   *)
(* one chain and what two extra messages start.                            *)
(***************************************************************************)
EXTENDS AgentTraffic

CONSTANTS a, b

=============================================================================
