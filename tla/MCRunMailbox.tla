---------------------------- MODULE MCRunMailbox ----------------------------
(* Instances of RunMailbox for TLC. *)
EXTENDS RunMailbox

CONSTANTS h1, h2, h3, w1, w2, c1, c2, pane1, pane2

\* h1 and h2 are one pane before and after a remint.
MCPaneOf == [h \in Handle |-> IF h = h3 THEN pane2 ELSE pane1]

\* Every dispatch reports to the first run.
MCOneRun == [w \in Worker |-> 1]

MCWake == {MessageType, {"worker_done"}}
=============================================================================
