----------------------------- MODULE MCAgentLoop -----------------------------
(***************************************************************************)
(* The agent loop on a small instance: three different calls, one of them  *)
(* denied and one new every time, small limits, with and without the limit *)
(* on the tool executions of a task.                                       *)
(***************************************************************************)
EXTENDS AgentLoop

CONSTANTS a, b, c

=============================================================================
