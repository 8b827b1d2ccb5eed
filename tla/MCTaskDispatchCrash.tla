------------------------ MODULE MCTaskDispatchCrash ------------------------
(***************************************************************************)
(* Finite instances of TaskDispatchCrash.                                  *)
(***************************************************************************)
EXTENDS TaskDispatchCrash

CONSTANTS t1, pane1

MCNoDeps == [t \in Task |-> {}]

\* Every handle is a remint of one pane.
MCReminted == [h \in Handle |-> pane1]
=============================================================================
