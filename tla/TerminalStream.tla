--------------------------- MODULE TerminalStream ---------------------------
(***************************************************************************)
(* What the delivery of a terminal promises its owner: a view of the       *)
(* program's output that only grows, and that ends, when it ends with the  *)
(* output, after all of it.  Records, credit, frames and connections do    *)
(* not appear here.                                                        *)
(***************************************************************************)
EXTENDS Naturals, Sequences

VARIABLES written,  \* how many units of output the program has written
          alive,    \* the program runs
          shown,    \* the units its owner sees
          ended     \* the owner has been told that this is all

Init == written = 0 /\ alive = TRUE /\ shown = <<>> /\ ended = FALSE

\* The program writes more output.
Produce ==
  /\ alive /\ written' \in Nat /\ written' > written
  /\ UNCHANGED <<alive, shown, ended>>

\* The program ends.
Stop == alive /\ alive' = FALSE /\ UNCHANGED <<written, shown, ended>>

\* The owner sees more of the output, up to unit n, and may be told that n was the last.
See ==
  /\ ~ended
  /\ \E n \in Len(shown) .. written :
       /\ shown' = [i \in 1 .. n |-> i]
       /\ ended' => ~alive /\ n = written
  /\ ended' \in BOOLEAN
  /\ UNCHANGED <<written, alive>>

Next == Produce \/ Stop \/ See

Spec == Init /\ [][Next]_<<written, alive, shown, ended>>
=============================================================================
