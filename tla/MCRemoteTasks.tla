---------------------------- MODULE MCRemoteTasks ----------------------------
(***************************************************************************)
(* One task and one tool call, and an outbox that is full of two answers   *)
(* from before.                                                            *)
(***************************************************************************)
EXTENDS RemoteTasks

CONSTANTS t1, t2, t3, c
MCTasks == {t1, t2, t3}
MCCalls == {c}

MCInit == Init /\ outbox = <<t1, t2>> /\ way = "off"
MCSpec == MCInit /\ [][Next]_vars
            /\ WF_vars(Asker) /\ WF_vars(Worker) /\ WF_vars(Files) /\ WF_vars(Flush)
=============================================================================
