----------------------------- MODULE MCChatRelay -----------------------------
(***************************************************************************)
(* Two messages for one member that is away at first, one trouble, and two *)
(* turns of the connection.                                                *)
(***************************************************************************)
EXTENDS ChatRelay

CONSTANTS a

MCMember == {a}
MCTo == <<a, a>>

MCInit == Init /\ conn = [m \in Member |-> "off"]
MCSpec == MCInit /\ [][Next]_vars /\ WF_vars(Hub) /\ WF_vars(Sender)
=============================================================================
