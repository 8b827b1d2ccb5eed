------------------------- MODULE TaskDispatchCrash -------------------------
(***************************************************************************)
(* TaskDispatch with a process that may also die inside a handler.         *)
(*                                                                         *)
(* Settling a worker report, starting, stopping and abandoning a worker    *)
(* are each one SQLite transaction.  updateTaskStatus, failDispatch,       *)
(* createDispatchContext, createGate and resolveGate are not: each of      *)
(* their statements commits by itself, so a process that dies between two  *)
(* of them leaves the first ones behind.  A torn step is such a prefix     *)
(* followed by the restart.                                                *)
(***************************************************************************)
EXTENDS TaskDispatch

Restarted ==
    /\ awaiting' = [d \in Dispatch |-> "nothing"]
    /\ sameEpoch' = {}
    /\ UNCHANGED workers

\* updateTaskStatus(t, "completed") dies while it promotes the dependents one
\* by one, or before it completes the active Dispatch.
TornCompletion(t) ==
    /\ tasks[t] # "absent"
    /\ \E promoted \in SUBSET {c \in Task : CompletedTask(t)[c] # tasks[c]} :
        tasks' = [c \in Task |-> IF c = t THEN "completed"
                                 ELSE IF c \in promoted THEN "ready" ELSE tasks[c]]
    /\ UNCHANGED <<dispatches, gates>>
    /\ Restarted

\* Mutant: createDispatchContext marks the Task first and looks for a busy
\* terminal only afterwards.
InsertWithoutLock(d, t, h) ==
    /\ tasks[t] = "ready"
    /\ IsNextRow(d)
    /\ \E n \in 0..CountCap :
        /\ IsPriorFailures(n, t)
        /\ dispatches' = [dispatches EXCEPT ![d] = NewRow(t, h, "dispatched", n, FALSE)]
    /\ UNCHANGED <<tasks, gates>>
    /\ Restarted

\* createDispatchContext dies between its INSERT and the Task's UPDATE.
TornDispatch(d, t, h) ==
    /\ tasks[t] = "ready"
    /\ TerminalIsFree(h)
    /\ IsNextRow(d)
    /\ \E n \in 0..CountCap :
        /\ IsPriorFailures(n, t)
        /\ dispatches' = [dispatches EXCEPT ![d] = NewRow(t, h, "dispatched", n, FALSE)]
    /\ UNCHANGED <<tasks, gates>>
    /\ Restarted

\* Mutant: the status is written by a statement before the revocation.
StatusBeforeRevocation(d) ==
    /\ dispatches' = [dispatches EXCEPT ![d] = Moved(@, "failed")]
    /\ UNCHANGED <<tasks, gates>>
    /\ Restarted

\* failDispatch dies between the row's UPDATE and the Task's.
TornFailure(d) ==
    /\ dispatches' = [dispatches EXCEPT ![d] = FailureCounted(@)]
    /\ UNCHANGED <<tasks, gates>>
    /\ Restarted

\* createGate dies after its INSERT, or after completing the active Dispatch.
TornGate(g, t) ==
    /\ gates[g].status = "absent"
    /\ tasks[t] # "absent"
    /\ gates' = [gates EXCEPT ![g] = [task |-> t, status |-> "pending"]]
    /\ dispatches' \in {dispatches, ActiveCompleted(t)}
    /\ UNCHANGED tasks
    /\ Restarted

\* resolveGate dies between the gate's UPDATE and the Task's.
TornResolution(g) ==
    /\ gates[g].status # "absent"
    /\ gates' = [gates EXCEPT ![g].status = "resolved"]
    /\ UNCHANGED <<tasks, dispatches>>
    /\ Restarted

\* failDispatch is called for an active row, by the handler whose send failed,
\* or for the current row of an unfinished Task.
MayFail(d) ==
    \/ awaiting[d] = "prompt"
    \/ Active(d) /\ dispatches[d].handle # NoHandle
    \/ /\ IsRow(d) /\ IsLatest(d, dispatches[d].task)
       /\ tasks[dispatches[d].task] \notin {"completed", "failed"}

TornNext ==
    \/ \E t \in Task :
        \/ "completed" \in OperatorStatus /\ TornCompletion(t)
        \/ \E d \in Dispatch, h \in Handle : TornDispatch(d, t, h)
        \/ \E g \in Gate : TornGate(g, t)
    \/ \E d \in Dispatch : MayFail(d) /\ TornFailure(d)
    \/ \E g \in Gate : TornResolution(g)

CrashNext == Next \/ TornNext

CrashSpec == Init /\ [][CrashNext]_vars

=============================================================================
