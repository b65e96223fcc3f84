---------------------------- MODULE MCControlPlane ----------------------------
(***************************************************************************)
(* Two processes and two requests: an engine and its replacement, either   *)
(* of which can be the one left without a record.                          *)
(***************************************************************************)
EXTENDS ControlPlane

CONSTANTS c1, c2

=============================================================================
