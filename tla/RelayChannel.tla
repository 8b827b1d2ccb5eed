---------------------------- MODULE RelayChannel ----------------------------
(***************************************************************************)
(* What one direction of the federation relay promises: a channel between  *)
(* two servers that delivers every message at most once, in the order it   *)
(* was accepted, without a gap, although calls are lost, repeated and late *)
(* and either server restarts.                                             *)
(***************************************************************************)
EXTENDS Naturals, Sequences

VARIABLES sent,     \* how many messages the sending server has accepted
          received  \* the messages the receiving server has stored, in order

Init == sent = 0 /\ received = <<>>

\* The sending server accepts one more message, numbered sent + 1.
Accept == sent' = sent + 1 /\ UNCHANGED received

\* The receiving server stores the next messages, up to and including n.
Deliver == \E n \in (Len(received) + 1) .. sent :
             received' = [i \in 1 .. n |-> i] /\ UNCHANGED sent

Next == Accept \/ Deliver

Spec == Init /\ [][Next]_<<sent, received>>
=============================================================================
