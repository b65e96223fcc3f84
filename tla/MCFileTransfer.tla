--------------------------- MODULE MCFileTransfer ---------------------------
(***************************************************************************)
(* One transfer of two chunks over every route but the one where pull,     *)
(* push and a hub are all possible, which adds no mode and no fallback to  *)
(* the others.  Two troubles, which a second accept uses up; one where the *)
(* last resort of a push is the hub; and three, which leave one for the    *)
(* two pulls of a second accept, where nothing but a pull is possible.     *)
(***************************************************************************)
EXTENDS FileTransfer

Left ==
  IF route.receiver /\ (route.hub \/ ~route.sender) THEN 1
  ELSE IF route.sender /\ ~route.receiver /\ ~route.hub THEN 3 ELSE 2

MCInit ==
  /\ Init
  /\ ~(route.sender /\ route.receiver /\ route.hub)
  /\ trouble = MaxTrouble - Left

MCSpec == MCInit /\ [][Next]_vars /\ Fairness
=============================================================================
