-------------------------- MODULE MutationReceipts --------------------------
(***************************************************************************)
(* The durable receipts that make a repeated mutation harmless: a row per  *)
(* request ID (beginMutationReceipt and its companions in db.ts), and the  *)
(* calls in flight that this process remembers (the executor's inFlight).  *)
(*                                                                         *)
(* The executor runs a call only when its request ID is fresh.  Otherwise  *)
(* it answers without running anything: a row that names another call is   *)
(* refused, a call in flight is joined, a completed row is replayed and a  *)
(* pending row of an earlier process is operation_unknown.  None of these  *)
(* changes a table, so that a repeated call is no action of its own.       *)
(***************************************************************************)
CONSTANTS
  Request,  \* request IDs, each with its caller
  Call,     \* method and payload of a mutation
  NoCall,   \* the call of an absent row
  Result,   \* what a receipt may record
  NoResult  \* nothing recorded yet

VARIABLE receipts  \* mutation_receipts

Receipt == [state : {"absent", "pending", "completed"},
            call : Call \union {NoCall}, result : Result \union {NoResult}]

NoReceipt == [state |-> "absent", call |-> NoCall, result |-> NoResult]

Pending(call)           == [state |-> "pending", call |-> call, result |-> NoResult]
Completed(call, result) == [state |-> "completed", call |-> call, result |-> result]

ReceiptsOK   == receipts \in [Request -> Receipt]
ReceiptsInit == receipts = [r \in Request |-> NoReceipt]

\* Mutant: a pending row of an earlier process is run again.
FreshOrPending(r) == receipts[r].state # "completed"

\* beginMutationReceipt starts the call: there is no row of this request yet.
Fresh(r) == receipts[r].state = "absent"

\* beginMutationReceipt, then completeMutationReceipt: the call has run, or its
\* handler has recorded its acceptance before it waits.
Record(r, call, result) == receipts' = [receipts EXCEPT ![r] = Completed(call, result)]

\* completeMutationReceipt at the end of a handler that has recorded before.
Complete(r, result) == receipts' = [receipts EXCEPT ![r].state = "completed", ![r].result = result]

\* discardPendingMutationReceipt, when the handler throws.
Discard(r) ==
  receipts' = [receipts EXCEPT ![r] = IF receipts[r].state = "pending" THEN NoReceipt ELSE @]

\* The process dies inside the call: the row stays pending for good.
Interrupt(r, call) == receipts' = [receipts EXCEPT ![r] = Pending(call)]
=============================================================================
