------------------------------- MODULE MCMesh -------------------------------
(***************************************************************************)
(* Two nodes of which both or only one can be dialled, two sockets at a    *)
(* time, one retry after each success, and two faults at any point: a      *)
(* process that ends and perhaps comes back, or a connection that breaks.  *)
(***************************************************************************)
EXTENDS Mesh
=============================================================================
