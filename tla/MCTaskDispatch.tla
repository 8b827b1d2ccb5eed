--------------------------- MODULE MCTaskDispatch ---------------------------
(***************************************************************************)
(* Finite instances of TaskDispatch.                                       *)
(***************************************************************************)
EXTENDS TaskDispatch

CONSTANTS t1, t2, t3, pane1

MCNoDeps == [t \in Task |-> {}]
MCJoin == [t \in Task |-> IF t = t3 THEN {t1, t2} ELSE {}]

\* One handle per pane, and every handle a remint of one pane.
MCOwnPane == [h \in Handle |-> h]
MCReminted == [h \in Handle |-> pane1]
=============================================================================
