------------------------------ MODULE Mailbox ------------------------------
(***************************************************************************)
(* What a Run's mailbox promises its coordinator, whichever terminal that  *)
(* is at the moment: mail is shown oldest first, is shown again until it   *)
(* is acknowledged, and leaves the queue only when it was shown and        *)
(* acknowledged, oldest first, or when the runtime withdraws it.           *)
(***************************************************************************)
EXTENDS Naturals

CONSTANTS Box, Message

VARIABLES
    posted,   \* posted[b]: all mail of mailbox b so far
    queue,    \* queue[b]: the mail that waits to be acknowledged
    shown     \* shown[b]: the mail that some consumer of b was shown

vars == <<posted, queue, shown>>

Init ==
    /\ posted = [b \in Box |-> {}]
    /\ queue = [b \in Box |-> {}]
    /\ shown = [b \in Box |-> {}]

\* No message of S is older than a message of T.
NoneOlder(S, T) == \A m \in S, n \in T : n < m

\* New mail goes to the end; it may make older mail void, or be void itself.
Post(b, m) ==
    /\ \A n \in posted[b] : n < m
    /\ posted' = [posted EXCEPT ![b] = @ \cup {m}]
    /\ \E q \in SUBSET (queue[b] \cup {m}) : queue' = [queue EXCEPT ![b] = q]
    /\ UNCHANGED shown

\* A reply to a message is as good as an acknowledgement of it.
Withdraw(b, m) ==
    /\ queue' = [queue EXCEPT ![b] = @ \ {m}]
    /\ UNCHANGED <<posted, shown>>

\* Consume S, which was shown and is the oldest mail of the queue, and be
\* shown T, which leaves out nothing older that is still to be consumed.
Fetch(b, S, T) ==
    /\ S \subseteq queue[b] \cap shown[b]
    /\ NoneOlder(queue[b] \ S, S)
    /\ queue' = [queue EXCEPT ![b] = @ \ S]
    /\ T \subseteq posted[b]
    /\ NoneOlder(queue'[b] \ T, T)
    /\ shown' = [shown EXCEPT ![b] = @ \cup T]
    /\ UNCHANGED posted

Next ==
    \E b \in Box :
       \/ \E m \in Message : Post(b, m) \/ Withdraw(b, m)
       \/ \E S, T \in SUBSET Message : Fetch(b, S, T)

Spec == Init /\ [][Next]_vars
=============================================================================
