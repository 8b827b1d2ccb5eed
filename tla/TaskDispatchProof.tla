------------------------- MODULE TaskDispatchProof -------------------------
(***************************************************************************)
(* Proofs about TaskDispatch, for any number of tasks, Dispatches,         *)
(* terminals and gates.                                                    *)
(***************************************************************************)
EXTENDS TaskDispatch, TLAPS

-----------------------------------------------------------------------------
(* What the row updates return *)

LEMMA ClosedIsRow ==
    ASSUME NEW r \in Row,
           NEW status \in ActiveStatus \cup SettledStatus \cup {"absent"}
    PROVE  /\ Closed(r, status) \in Row
           /\ Closed(r, status).status = status
           /\ Closed(r, status).revoked
           /\ Closed(r, status).task = r.task
           /\ Closed(r, status).handle = r.handle
  BY DEF Closed, Row, ActiveStatus, SettledStatus

LEMMA MovedIsRow ==
    ASSUME NEW r \in Row, NEW status \in ActiveStatus \cup SettledStatus
    PROVE  /\ Moved(r, status) \in Row
           /\ Moved(r, status).status = status
           /\ Moved(r, status).revoked = r.revoked
           /\ Moved(r, status).task = r.task
           /\ Moved(r, status).handle = r.handle
  BY DEF Moved, Row, ActiveStatus, SettledStatus

LEMMA RevokedIsRow ==
    ASSUME NEW r \in Row
    PROVE  /\ Revoked(r) \in Row
           /\ Revoked(r).status = r.status
           /\ Revoked(r).revoked
           /\ Revoked(r).task = r.task
           /\ Revoked(r).handle = r.handle
  BY DEF Revoked, Row

LEMMA AttachedIsRow ==
    ASSUME NEW r \in Row, NEW h \in Handle
    PROVE  /\ Attached(r, h) \in Row
           /\ Attached(r, h).status = r.status
           /\ Attached(r, h).revoked = FALSE
           /\ Attached(r, h).task = r.task
           /\ Attached(r, h).handle = h
  BY DEF Attached, Row

LEMMA FailureCountedIsSettled ==
    ASSUME NEW r \in Row
    PROVE  /\ FailureCounted(r) \in Row
           /\ FailureCounted(r).status \in {"failed", "circuit_broken"}
           /\ FailureCounted(r).revoked
           /\ FailureCounted(r).task = r.task
           /\ FailureCounted(r).handle = r.handle
  <1> DEFINE n == IF r.failures < CountCap THEN r.failures + 1 ELSE CountCap
             status == IF n >= BreakAt THEN "circuit_broken" ELSE "failed"
  <1>1. n \in 0..CountCap
    BY DEF Row, CountCap
  <1>2. status \in {"failed", "circuit_broken"}
    OBVIOUS
  <1>3. FailureCounted(r) = [r EXCEPT !.failures = n, !.revoked = TRUE, !.status = status]
    BY DEF FailureCounted
  <1> HIDE DEF n, status
  <1> QED BY <1>1, <1>2, <1>3 DEF Row, SettledStatus

LEMMA RetryStatusIsRunnable ==
    ASSUME NEW r
    PROVE  RetryStatus(r) \in {"ready", "failed"}
  BY DEF RetryStatus

\* promoteReadyTasks only moves tasks from pending to ready.
LEMMA PromoteMovesPending ==
    ASSUME NEW status \in [Task -> TaskStatus \cup {"absent"}], NEW t \in Task
    PROVE  /\ Promote(status, t) \in [Task -> TaskStatus \cup {"absent"}]
           /\ \A c \in Task : \/ Promote(status, t)[c] = status[c]
                              \/ status[c] = "pending" /\ Promote(status, t)[c] = "ready"
  BY DEF Promote, TaskStatus

LEMMA CompletedTaskStatus ==
    ASSUME TypeOK, NEW t \in Task
    PROVE  /\ CompletedTask(t) \in [Task -> TaskStatus \cup {"absent"}]
           /\ CompletedTask(t)[t] = "completed"
           /\ \A c \in Task \ {t} :
                \/ CompletedTask(t)[c] = tasks[c]
                \/ tasks[c] = "pending" /\ CompletedTask(t)[c] = "ready"
  <1> DEFINE done == [tasks EXCEPT ![t] = "completed"]
  <1>1. done \in [Task -> TaskStatus \cup {"absent"}] /\ done[t] = "completed"
    BY DEF TypeOK, TaskStatus
  <1>2. \A c \in Task \ {t} : done[c] = tasks[c]
    BY DEF TypeOK
  <1>3. CompletedTask(t) = Promote(done, t)
    BY DEF CompletedTask
  <1> HIDE DEF done
  <1> QED BY <1>1, <1>2, <1>3, PromoteMovesPending

\* completeActiveDispatchForTask leaves a row alone or settles it.
LEMMA ActiveCompletedRows ==
    ASSUME TypeOK, NEW t \in Task
    PROVE  /\ ActiveCompleted(t) \in [Dispatch -> Row]
           /\ \A d \in Dispatch :
                IF IsLatestActive(d, t)
                THEN ActiveCompleted(t)[d] = Closed(dispatches[d], "completed")
                ELSE ActiveCompleted(t)[d] = dispatches[d]
  <1>1. \A d \in Dispatch : dispatches[d] \in Row
    BY DEF TypeOK
  <1>2. \A d \in Dispatch : Closed(dispatches[d], "completed") \in Row
    BY <1>1, ClosedIsRow DEF SettledStatus
  <1> QED BY <1>1, <1>2 DEF ActiveCompleted

LEMMA NewRowIsRow ==
    ASSUME NEW t \in Task, NEW h \in Handle \cup {NoHandle}, NEW status \in ActiveStatus,
           NEW n \in 0..CountCap, NEW mint \in BOOLEAN
    PROVE  NewRow(t, h, status, n, mint) \in Row
  BY DEF NewRow, Row, ActiveStatus

-----------------------------------------------------------------------------
(* Type correctness *)

LEMMA InitTypeOK == Init => TypeOK
  BY ModelAssumption DEF Init, TypeOK, AbsentRow, AbsentGate, Row, TaskStatus,
                         OpenWorker, SettledWorker, Awaited, CountCap

LEMMA TaskStepTypeOK == TypeOK /\ TaskNext => TypeOK'
  <1> SUFFICES ASSUME TypeOK, NEW t \in Task,
                      \/ CreateTask(t)
                      \/ \E status \in OperatorStatus : TaskUpdate(t, status)
                      \/ \E d \in Dispatch, h \in Handle, mint, send \in BOOLEAN :
                            CreateDispatchContext(d, t, h, mint, send)
                      \/ \E d \in Dispatch : WorkerStart(d, t)
                      \/ \E d, prior \in Dispatch : WorkerRetry(d, t, prior)
                      \/ \E g \in Gate : CreateGate(g, t)
               PROVE  TypeOK'
    BY DEF TaskNext
  <1>1. CASE CreateTask(t)
    BY <1>1 DEF TypeOK, CreateTask, TaskStatus
  <1>2. ASSUME NEW status \in OperatorStatus, TaskUpdate(t, status)
        PROVE  TypeOK'
    <2>1. status \in TaskStatus
      BY ModelAssumption
    <2>2. /\ tasks' \in [Task -> TaskStatus \cup {"absent"}]
          /\ dispatches' \in [Dispatch -> Row]
      <3>1. CASE status = "completed"
        <4>1. tasks' = CompletedTask(t) /\ dispatches' = ActiveCompleted(t)
          BY <1>2, <3>1 DEF TaskUpdate
        <4> QED BY <4>1, CompletedTaskStatus, ActiveCompletedRows
      <3>2. CASE status # "completed"
        BY <1>2, <2>1, <3>2 DEF TypeOK, TaskUpdate
      <3> QED BY <3>1, <3>2
    <2> QED BY <1>2, <2>2 DEF TypeOK, TaskUpdate
  <1>3. ASSUME NEW d \in Dispatch, NEW h \in Handle, NEW mint \in BOOLEAN, NEW send \in BOOLEAN,
               CreateDispatchContext(d, t, h, mint, send)
        PROVE  TypeOK'
    BY <1>3, NewRowIsRow DEF TypeOK, CreateDispatchContext, TaskStatus, ActiveStatus, Awaited
  <1>4. ASSUME NEW d \in Dispatch, StartWorker(d, t)
        PROVE  TypeOK'
    <2>1. NewRow(t, NoHandle, "pending", 0, FALSE) \in Row
      <3>1. "pending" \in ActiveStatus /\ 0 \in 0..CountCap /\ FALSE \in BOOLEAN
        BY DEF ActiveStatus, CountCap
      <3> QED BY <3>1, NewRowIsRow
    <2> QED BY <1>4, <2>1 DEF TypeOK, StartWorker, TaskStatus, Awaited, OpenWorker
  <1>5. ASSUME NEW g \in Gate, CreateGate(g, t)
        PROVE  TypeOK'
    BY <1>5, ActiveCompletedRows DEF TypeOK, CreateGate, TaskStatus
  <1> QED BY <1>1, <1>2, <1>3, <1>4, <1>5 DEF WorkerStart, WorkerRetry

LEMMA FailDispatchTypeOK ==
    ASSUME TypeOK, NEW d \in Dispatch, FailDispatch(d)
    PROVE  /\ tasks' \in [Task -> TaskStatus \cup {"absent"}]
           /\ dispatches' \in [Dispatch -> Row]
  <1>1. FailureCounted(dispatches[d]) \in Row
    BY FailureCountedIsSettled DEF TypeOK
  <1>2. RetryStatus(dispatches'[d]) \in TaskStatus
    BY RetryStatusIsRunnable DEF TaskStatus
  <1> QED BY <1>1, <1>2 DEF FailDispatch, TypeOK

LEMMA DispatchStepTypeOK == TypeOK /\ DispatchNext => TypeOK'
  <1> SUFFICES ASSUME TypeOK, NEW d \in Dispatch,
                      \/ PromptAccepted(d)
                      \/ PromptFailed(d)
                      \/ \E h \in Handle : PrepareStartingWorkerAuthority(d, h)
                      \/ MarkWorkerDispatchReady(d)
                      \/ FailWorkerStart(d)
                      \/ WorkerStartUnknown(d)
                      \/ WorkerStartRejected(d)
                      \/ \E outcome \in {"succeeded", "failed"} : SettleWorkerReport(d, outcome)
                      \/ ReleaseContextOnlyDispatch(d)
                      \/ BeginWorkerStop(d)
                      \/ SettleWorkerStop(d)
                      \/ MarkWorkerStopUnknown(d)
                      \/ ReconcileFederatedWorkerStop(d)
                      \/ ResumeFederatedWorker(d)
                      \/ ReconcileFederatedWorkerStart(d)
                      \/ AbandonWorkerDispatch(d)
                      \/ PtyExit(d)
                      \/ HandleEscalation(d)
                      \/ ReconcileMissingWorkerTerminal(d)
                      \/ ShowInterruptedWorker(d)
               PROVE  TypeOK'
    BY DEF DispatchNext
  <1> USE DEF TypeOK
  <1>1. CASE PromptAccepted(d)
    BY <1>1 DEF PromptAccepted, Awaited
  <1>2. CASE PromptFailed(d)
    BY <1>2, FailDispatchTypeOK DEF PromptFailed, Awaited
  <1>3. ASSUME NEW h \in Handle, PrepareStartingWorkerAuthority(d, h)
        PROVE  TypeOK'
    BY <1>3, AttachedIsRow DEF PrepareStartingWorkerAuthority, Awaited
  <1>4. CASE MarkWorkerDispatchReady(d)
    BY <1>4, MovedIsRow DEF MarkWorkerDispatchReady, Awaited, ActiveStatus, OpenWorker
  <1>5. CASE FailWorkerStart(d)
    BY <1>5, ClosedIsRow DEF FailWorkerStart, Awaited, SettledStatus, SettledWorker, TaskStatus
  <1>6. CASE WorkerStartUnknown(d)
    BY <1>6, RevokedIsRow DEF WorkerStartUnknown, StartUnknown, Awaited, OpenWorker, TaskStatus
  <1>7. CASE WorkerStartRejected(d)
    BY <1>7 DEF WorkerStartRejected, Awaited
  <1>8. ASSUME NEW outcome \in {"succeeded", "failed"}, SettleWorkerReport(d, outcome)
        PROVE  TypeOK'
    <2>1. dispatches' \in [Dispatch -> Row]
      BY <1>8, ClosedIsRow DEF SettleWorkerReport, SettledStatus
    <2>2. CompletedTask(dispatches[d].task) \in [Task -> TaskStatus \cup {"absent"}]
      BY DEF CompletedTask, Promote, TaskStatus
    <2>3. tasks' \in [Task -> TaskStatus \cup {"absent"}]
      BY <1>8, <2>2 DEF SettleWorkerReport, TaskStatus
    <2> QED BY <1>8, <2>1, <2>3 DEF SettleWorkerReport, SettledWorker
  <1>9. CASE ReleaseContextOnlyDispatch(d)
    BY <1>9, ClosedIsRow DEF ReleaseContextOnlyDispatch, SettledStatus, TaskStatus
  <1>10. CASE BeginWorkerStop(d)
    BY <1>10, RevokedIsRow DEF BeginWorkerStop, StopRequested, OpenWorker, Awaited, TaskStatus
  <1>11. CASE SettleWorkerStop(d)
    BY <1>11, MovedIsRow DEF SettleWorkerStop, SettledStatus, SettledWorker, Awaited
  <1>12. CASE MarkWorkerStopUnknown(d)
    BY <1>12 DEF MarkWorkerStopUnknown, OpenWorker, Awaited
  <1>13. CASE AbandonWorkerDispatch(d)
    <2>1. dispatches' \in [Dispatch -> Row]
      <3> DEFINE status == IF Active(d) THEN "failed" ELSE dispatches[d].status
      <3>1. status \in ActiveStatus \cup SettledStatus \cup {"absent"}
        BY DEF Row, SettledStatus
      <3>2. Closed(dispatches[d], status) \in Row
        BY <3>1, ClosedIsRow
      <3> QED BY <1>13, <3>2 DEF AbandonWorkerDispatch
    <2> QED BY <1>13, <2>1 DEF AbandonWorkerDispatch, SettledWorker, TaskStatus
  <1>14. CASE PtyExit(d)
    BY <1>14, FailDispatchTypeOK DEF PtyExit
  <1>15. CASE HandleEscalation(d)
    BY <1>15, FailDispatchTypeOK DEF HandleEscalation
  <1>16. CASE ReconcileMissingWorkerTerminal(d)
    <2>1. dispatches' \in [Dispatch -> Row]
      BY <1>16, FailureCountedIsSettled DEF ReconcileMissingWorkerTerminal
    <2>2. tasks' \in [Task -> TaskStatus \cup {"absent"}]
      BY <1>16, RetryStatusIsRunnable DEF ReconcileMissingWorkerTerminal, TaskStatus
    <2> QED BY <1>16, <2>1, <2>2 DEF ReconcileMissingWorkerTerminal, SettledWorker
  <1>17. CASE ShowInterruptedWorker(d)
    BY <1>17, RevokedIsRow DEF ShowInterruptedWorker, StartUnknown, OpenWorker, TaskStatus
  <1>18. CASE ReconcileFederatedWorkerStop(d)
    BY <1>18, MovedIsRow DEF ReconcileFederatedWorkerStop, SettledStatus, SettledWorker, Awaited
  <1>19. CASE ResumeFederatedWorker(d)
    BY <1>19 DEF ResumeFederatedWorker, OpenWorker, TaskStatus, Awaited
  <1>20. CASE ReconcileFederatedWorkerStart(d)
    <2>1. CASE FederatedWorkerRuns(d)
      BY <1>20, <2>1, MovedIsRow
         DEF ReconcileFederatedWorkerStart, FederatedWorkerRuns, ActiveStatus, OpenWorker, TaskStatus
    <2>2. ASSUME NEW state \in {"failed", "stopped"}, FederatedWorkerEnded(d, state)
          PROVE  TypeOK'
      BY <1>20, <2>2, ClosedIsRow
         DEF ReconcileFederatedWorkerStart, FederatedWorkerEnded, SettledStatus, SettledWorker,
             TaskStatus
    <2> QED BY <1>20, <2>1, <2>2 DEF ReconcileFederatedWorkerStart
  <1> QED BY <1>1, <1>2, <1>3, <1>4, <1>5, <1>6, <1>7, <1>8, <1>9, <1>10, <1>11, <1>12,
             <1>13, <1>14, <1>15, <1>16, <1>17, <1>18, <1>19, <1>20

LEMMA NextTypeOK == TypeOK /\ [Next]_vars => TypeOK'
  <1> SUFFICES ASSUME TypeOK, [Next]_vars PROVE TypeOK'
    OBVIOUS
  <1>1. CASE GateNext
    BY <1>1 DEF GateNext, ResolveGate, ReblockGatedTask, TypeOK, TaskStatus
  <1>2. CASE Restart
    BY <1>2 DEF Restart, TypeOK, Awaited
  <1>3. CASE UNCHANGED vars
    BY <1>3 DEF vars, TypeOK
  <1> QED BY <1>1, <1>2, <1>3, TaskStepTypeOK, DispatchStepTypeOK DEF Next

\* Every table keeps its type in every reachable state.
THEOREM TypeCorrectness == Spec => []TypeOK
  BY InitTypeOK, NextTypeOK, PTL DEF Spec

-----------------------------------------------------------------------------
(* The inductive invariant                                                 *)
(*                                                                         *)
(* Most steps change one row that exists, and keep its Task, its kind and  *)
(* its terminal if it is context-only; none makes a settled row active.    *)
(* RowChange states that of a step.  RowStep adds what such a step of a    *)
(* whole handler does to the Tasks: only what another server says of its   *)
(* worker dispatches one anew.                                             *)

RowChange(d) ==
    /\ \A e \in Dispatch \ {d} : /\ dispatches'[e] = dispatches[e]
                                 /\ workers'[e] = workers[e]
                                 /\ awaiting'[e] \in {awaiting[e], "nothing"}
    /\ IsRow(d) /\ IsRow(d)'
    /\ dispatches'[d].task = dispatches[d].task
    /\ workers'[d] = "none" => /\ workers[d] = "none"
                               /\ dispatches'[d].handle = dispatches[d].handle
    /\ Active(d)' => Active(d)
    /\ Settled(d)' => dispatches'[d].revoked
    /\ workers'[d] \in SettledWorker => Settled(d)'
    /\ workers'[d] \in Uncertain => dispatches'[d].revoked

RowStep(d) ==
    /\ RowChange(d)
    /\ \A t \in Task : tasks'[t] = "completed" =>
            \/ tasks[t] = "completed"
            \/ \A e \in Dispatch : IsLatest(e, t) => ~Active(e)'
    /\ \A t \in Task : tasks'[t] = "dispatched" => tasks[t] = "dispatched" \/ Remote # {}
    /\ \A t \in Task : IsLive(d) /\ IsLatest(d, t) => tasks'[t] # "dispatched" \/ IsLive(d)'

LEMMA RowIsActiveOrSettled ==
    ASSUME TypeOK, NEW d \in Dispatch
    PROVE  /\ IsRow(d) <=> Active(d) \/ Settled(d)
           /\ ~(Active(d) /\ Settled(d))
  BY DEF TypeOK, Row, IsRow, Active, Settled, ActiveStatus, SettledStatus

LEMMA RowChangeKeepsOrder ==
    ASSUME RowsInv, TypeOK', NEW d \in Dispatch, RowChange(d)
    PROVE  RowsAreInOrder' /\ RowsAreCoherent'
  <1>1. \A e \in Dispatch : IsRow(e)' <=> IsRow(e)
    BY DEF RowChange, IsRow
  <1>2. RowsAreInOrder'
    BY <1>1 DEF RowsInv, RowsAreInOrder
  <1>3. ASSUME NEW e \in Dispatch
        PROVE  /\ ~IsRow(e)' => /\ dispatches'[e] = AbsentRow
                                /\ workers'[e] = "none" /\ awaiting'[e] = "nothing"
               /\ IsRow(e)' => dispatches'[e].task \in Task
               /\ IsRow(e)' /\ workers'[e] = "none" => dispatches'[e].handle # NoHandle
               /\ workers'[e] \in Uncertain => dispatches'[e].revoked
    <2>1. CASE e = d
      BY <2>1 DEF RowsInv, RowsAreCoherent, RowChange
    <2>2. CASE e # d
      BY <2>2, <1>1 DEF RowsInv, RowsAreCoherent, RowChange
    <2> QED BY <2>1, <2>2
  <1> QED BY <1>2, <1>3 DEF RowsAreCoherent, IsRow

LEMMA RowChangeKeepsInvariant ==
    ASSUME RowsInv, TypeOK', NEW d \in Dispatch, RowChange(d)
    PROVE  RowsInv'
  <1>1. \A e \in Dispatch \ {d} : (Active(e)' <=> Active(e)) /\ (Settled(e)' <=> Settled(e))
    BY DEF RowChange, Active, Settled
  <1>2. SettledIsRevoked'
    BY <1>1 DEF RowsInv, SettledIsRevoked, RowChange
  <1>3. SettledWorkerHoldsNoTerminal'
    BY <1>1 DEF RowsInv, SettledWorkerHoldsNoTerminal, RowChange
  <1>4. ContextOnlyTerminalIsExclusive'
    BY <1>1 DEF RowsInv, ContextOnlyTerminalIsExclusive, RowChange
  <1> QED BY <1>2, <1>3, <1>4, RowChangeKeepsOrder DEF RowsInv

LEMMA RowStepKeepsInvariant ==
    ASSUME IInv, TypeOK', NEW d \in Dispatch, RowStep(d)
    PROVE  IInv'
  <1>1. RowsInv'
    BY RowChangeKeepsInvariant DEF IInv, RowStep
  <1>2. \A e \in Dispatch : Active(e)' => Active(e)
    BY DEF RowStep, RowChange, Active
  <1>3. \A e \in Dispatch, t \in Task : IsLatest(e, t)' => IsLatest(e, t)
    BY DEF RowStep, RowChange, IsLatest, Dispatch
  <1>4. CompletedFreesItsTerminal'
    <2> SUFFICES ASSUME NEW t \in Task, NEW e \in Dispatch,
                        tasks'[t] = "completed", IsLatest(e, t)', Active(e)'
                 PROVE  FALSE
      BY DEF CompletedFreesItsTerminal
    <2>1. IsLatest(e, t) /\ Active(e)
      BY <1>2, <1>3
    <2>2. tasks[t] # "completed"
      BY <2>1 DEF IInv, CompletedFreesItsTerminal
    <2> QED BY <2>1, <2>2 DEF RowStep
  <1> QED BY <1>1, <1>4 DEF IInv

LEMMA PresentRow ==
    ASSUME RowsInv, NEW d \in Dispatch,
           workers[d] # "none" \/ awaiting[d] # "nothing" \/ Active(d) \/ IsRow(d)
    PROVE  IsRow(d) /\ dispatches[d] \in Row
  BY DEF RowsInv, TypeOK, RowsAreCoherent, IsRow, Active, ActiveStatus

\* failDispatch settles the row and gives its Task a status that runs again.
LEMMA FailDispatchIsRowStep ==
    ASSUME RowsInv, NEW d \in Dispatch, IsRow(d), FailDispatch(d), UNCHANGED workers,
           \A e \in Dispatch \ {d} : awaiting'[e] = awaiting[e]
    PROVE  RowStep(d)
  <1> DEFINE r == FailureCounted(dispatches[d])
  <1>1. dispatches[d] \in Row
    BY DEF RowsInv, TypeOK
  <1>2. /\ r.status \in {"failed", "circuit_broken"} /\ r.revoked
        /\ r.task = dispatches[d].task /\ r.handle = dispatches[d].handle
    BY <1>1, FailureCountedIsSettled
  <1>3. dispatches' = [dispatches EXCEPT ![d] = r]
    BY DEF FailDispatch
  <1>4. dispatches'[d] = r /\ \A e \in Dispatch \ {d} : dispatches'[e] = dispatches[e]
    BY <1>3 DEF RowsInv, TypeOK
  <1>5. \E status \in {"ready", "failed"} :
            tasks' = [tasks EXCEPT ![dispatches[d].task] = status]
    BY RetryStatusIsRunnable DEF FailDispatch
  <1>6. \A t \in Task : /\ tasks'[t] = "completed" => tasks[t] = "completed"
                        /\ tasks'[t] = "dispatched" => tasks[t] = "dispatched"
                        /\ t = dispatches[d].task => tasks'[t] # "dispatched"
    BY <1>5 DEF RowsInv, TypeOK
  <1> HIDE DEF r
  <1>7. Settled(d)' /\ ~Active(d)' /\ IsRow(d)'
    BY <1>2, <1>4 DEF Settled, Active, IsRow, ActiveStatus, SettledStatus
  <1> QED BY <1>2, <1>4, <1>6, <1>7 DEF RowStep, RowChange, IsLatest, RowsInv, RowsAreCoherent,
                                          SettledWorkerHoldsNoTerminal

\* Of the operations on one Dispatch, the ones that leave its row alone.
LEMMA WaitingIsRowStep ==
    ASSUME RowsInv, NEW d \in Dispatch,
           PromptAccepted(d) \/ WorkerStartRejected(d) \/ MarkWorkerStopUnknown(d)
    PROVE  RowStep(d)
  <1>1. IsRow(d)
    BY PresentRow DEF PromptAccepted, WorkerStartRejected, MarkWorkerStopUnknown
  <1>2. /\ tasks' = tasks /\ dispatches' = dispatches
        /\ \A e \in Dispatch \ {d} : workers'[e] = workers[e] /\ awaiting'[e] = awaiting[e]
        /\ workers'[d] \in {workers[d], "stop_unknown"} /\ (workers'[d] # workers[d] => workers[d] = "stopping")
    <2>1. CASE PromptAccepted(d)
      <3>1. tasks' = tasks /\ dispatches' = dispatches /\ workers' = workers
        BY <2>1 DEF PromptAccepted
      <3>2. \A e \in Dispatch \ {d} : awaiting'[e] = awaiting[e]
        BY <2>1 DEF PromptAccepted, RowsInv, TypeOK
      <3> QED BY <3>1, <3>2
    <2>2. CASE WorkerStartRejected(d)
      <3>1. tasks' = tasks /\ dispatches' = dispatches /\ workers' = workers
        BY <2>2 DEF WorkerStartRejected
      <3>2. \A e \in Dispatch \ {d} : awaiting'[e] = awaiting[e]
        BY <2>2 DEF WorkerStartRejected, RowsInv, TypeOK
      <3> QED BY <3>1, <3>2
    <2>3. CASE MarkWorkerStopUnknown(d)
      <3>1. tasks' = tasks /\ dispatches' = dispatches
        BY <2>3 DEF MarkWorkerStopUnknown
      <3>2. \A e \in Dispatch \ {d} : workers'[e] = workers[e] /\ awaiting'[e] = awaiting[e]
        BY <2>3 DEF MarkWorkerStopUnknown, RowsInv, TypeOK
      <3>3. workers'[d] \in {workers[d], "stop_unknown"} /\ (workers'[d] # workers[d] => workers[d] = "stopping")
        BY <2>3 DEF MarkWorkerStopUnknown, RowsInv, TypeOK
      <3> QED BY <3>1, <3>2, <3>3
    <2> QED BY <2>1, <2>2, <2>3
  <1>3. /\ Settled(d) => dispatches[d].revoked
        /\ workers[d] \in SettledWorker => Settled(d)
        /\ workers[d] \in Uncertain => dispatches[d].revoked
    BY DEF RowsInv, SettledIsRevoked, SettledWorkerHoldsNoTerminal, RowsAreCoherent
  <1> QED BY <1>1, <1>2, <1>3 DEF RowStep, RowChange, IsRow, Active, Settled, IsLive, SettledWorker, Uncertain

\* The ones that settle the row, or find it settled.
LEMMA SettlingIsRowStep ==
    ASSUME RowsInv, NEW d \in Dispatch,
           \/ PromptFailed(d) \/ PtyExit(d) \/ HandleEscalation(d)
           \/ FailWorkerStart(d) \/ ReleaseContextOnlyDispatch(d)
           \/ SettleWorkerStop(d) \/ AbandonWorkerDispatch(d)
           \/ ReconcileMissingWorkerTerminal(d)
           \/ \E outcome \in {"succeeded", "failed"} : SettleWorkerReport(d, outcome)
    PROVE  RowStep(d)
  <1>1. dispatches[d] \in Row
    BY DEF RowsInv, TypeOK
  <1>2. CASE PromptFailed(d) \/ PtyExit(d) \/ HandleEscalation(d)
    <2>1. IsRow(d)
      BY <1>2, PresentRow DEF PromptFailed, PtyExit, HandleEscalation
    <2> QED BY <1>2, <2>1, FailDispatchIsRowStep DEF PromptFailed, PtyExit, HandleEscalation, RowsInv, TypeOK
  <1>3. CASE FailWorkerStart(d)
    <2>1. IsRow(d)
      BY <1>3, PresentRow DEF FailWorkerStart
    <2>2. /\ Closed(dispatches[d], "failed").status = "failed"
          /\ Closed(dispatches[d], "failed").revoked
          /\ Closed(dispatches[d], "failed").task = dispatches[d].task
      BY <1>1, ClosedIsRow DEF SettledStatus
    <2> QED BY <1>3, <2>1, <2>2 DEF FailWorkerStart, RowStep, RowChange, IsRow, Active, Settled, IsLive,
                  IsLatest, ActiveStatus, SettledStatus, SettledWorker, Uncertain, RowsInv, TypeOK
  <1>4. CASE ReleaseContextOnlyDispatch(d)
    <2>1. /\ Closed(dispatches[d], "failed").status = "failed"
          /\ Closed(dispatches[d], "failed").revoked
          /\ Closed(dispatches[d], "failed").task = dispatches[d].task
          /\ Closed(dispatches[d], "failed").handle = dispatches[d].handle
      BY <1>1, ClosedIsRow DEF SettledStatus
    <2>2. /\ dispatches'[d] = Closed(dispatches[d], "failed")
          /\ \A e \in Dispatch \ {d} : dispatches'[e] = dispatches[e]
          /\ IsRow(d) /\ workers[d] = "none" /\ UNCHANGED <<workers, awaiting>>
      BY <1>4 DEF ReleaseContextOnlyDispatch, RowsInv, TypeOK
    <2>3. \A t \in Task : tasks'[t] = IF t = dispatches[d].task /\ IsLatest(d, t)
                                     THEN "blocked" ELSE tasks[t]
      BY <1>4 DEF ReleaseContextOnlyDispatch, RowsInv, TypeOK
    <2> QED BY <2>1, <2>2, <2>3 DEF RowStep, RowChange, IsRow, Active, Settled, IsLive, IsLatest,
                ActiveStatus, SettledStatus, SettledWorker, Uncertain
  <1>5. CASE SettleWorkerStop(d)
    <2>1. IsRow(d) /\ dispatches[d].revoked /\ ~IsLive(d)
      BY <1>5, PresentRow DEF SettleWorkerStop, RowsInv, RowsAreCoherent, Uncertain, IsLive
    <2>2. /\ Moved(dispatches[d], "failed").status = "failed"
          /\ Moved(dispatches[d], "failed").revoked
          /\ Moved(dispatches[d], "failed").task = dispatches[d].task
      BY <1>1, <2>1, MovedIsRow DEF SettledStatus
    <2>3. /\ dispatches'[d] = IF Active(d) THEN Moved(dispatches[d], "failed") ELSE dispatches[d]
          /\ workers'[d] = "stopped" /\ tasks' = tasks
      BY <1>5 DEF SettleWorkerStop, RowsInv, TypeOK
    <2>4. \A e \in Dispatch \ {d} : /\ dispatches'[e] = dispatches[e]
                                    /\ workers'[e] = workers[e]
                                    /\ awaiting'[e] = awaiting[e]
      BY <1>5 DEF SettleWorkerStop, RowsInv, TypeOK
    <2>5. Settled(d)' /\ dispatches'[d].revoked /\ dispatches'[d].task = dispatches[d].task
      BY <2>1, <2>2, <2>3, RowIsActiveOrSettled DEF Settled, SettledStatus, RowsInv
    <2> QED BY <2>1, <2>3, <2>4, <2>5 DEF RowStep, RowChange, IsRow, Active, Settled, ActiveStatus,
                SettledStatus
  <1>6. CASE AbandonWorkerDispatch(d)
    <2> DEFINE status == IF Active(d) THEN "failed" ELSE dispatches[d].status
               r == Closed(dispatches[d], status)
    <2>1. IsRow(d)
      BY <1>6, PresentRow DEF AbandonWorkerDispatch, OpenWorker, SettledWorker
    <2>2. status \in SettledStatus
      BY <2>1, RowIsActiveOrSettled DEF Settled, SettledStatus, RowsInv
    <2>3. r.status = status /\ r.revoked /\ r.task = dispatches[d].task
      BY <1>1, <2>2, ClosedIsRow
    <2>4. dispatches'[d] = r /\ workers'[d] = "abandoned"
      BY <1>6 DEF AbandonWorkerDispatch, RowsInv, TypeOK
    <2>5. \A e \in Dispatch \ {d} : /\ dispatches'[e] = dispatches[e]
                                    /\ workers'[e] = workers[e]
                                    /\ awaiting'[e] = awaiting[e]
      BY <1>6 DEF AbandonWorkerDispatch, RowsInv, TypeOK
    <2>6. \A t \in Task : tasks'[t] = IF t = dispatches[d].task THEN "blocked" ELSE tasks[t]
      BY <1>6 DEF AbandonWorkerDispatch, RowsInv, TypeOK
    <2> HIDE DEF r, status
    <2>7. Settled(d)' /\ ~Active(d)' /\ IsRow(d)'
      BY <2>2, <2>3, <2>4 DEF Settled, Active, IsRow, ActiveStatus, SettledStatus
    <2> QED BY <2>1, <2>3, <2>4, <2>5, <2>6, <2>7 DEF RowStep, RowChange, IsLatest
  <1>7. CASE ReconcileMissingWorkerTerminal(d)
    <2> DEFINE r == FailureCounted(dispatches[d])
    <2>1. IsRow(d)
      BY <1>7, PresentRow DEF ReconcileMissingWorkerTerminal, OpenWorker
    <2>2. /\ r.status \in {"failed", "circuit_broken"} /\ r.revoked
          /\ r.task = dispatches[d].task
      BY <1>1, FailureCountedIsSettled
    <2>3. /\ dispatches'[d] = IF Active(d) THEN r ELSE dispatches[d]
          /\ workers'[d] \in {"stopped", "abandoned"}
      BY <1>7 DEF ReconcileMissingWorkerTerminal, RowsInv, TypeOK
    <2>4. \A e \in Dispatch \ {d} : /\ dispatches'[e] = dispatches[e]
                                    /\ workers'[e] = workers[e]
                                    /\ awaiting'[e] = awaiting[e]
      BY <1>7 DEF ReconcileMissingWorkerTerminal, RowsInv, TypeOK
    <2> HIDE DEF r
    <2>5. Settled(d)' /\ dispatches'[d].revoked /\ dispatches'[d].task = dispatches[d].task
      BY <2>1, <2>2, <2>3, RowIsActiveOrSettled
         DEF Settled, SettledStatus, RowsInv, SettledIsRevoked
    <2>6. /\ ~Active(d)' /\ IsRow(d)'
      BY <2>5 DEF Settled, Active, IsRow, ActiveStatus, SettledStatus
    <2>7. \E status \in {"ready", "failed"} : \A t \in Task :
            tasks'[t] = IF /\ t = dispatches[d].task /\ Active(d)
                           /\ workers[d] \notin {"stopping", "stop_unknown"}
                           /\ tasks[t] \in {"dispatched", "blocked"}
                        THEN status ELSE tasks[t]
      BY <1>7, RetryStatusIsRunnable DEF ReconcileMissingWorkerTerminal, RowsInv, TypeOK
    <2> QED BY <2>1, <2>3, <2>4, <2>5, <2>6, <2>7 DEF RowStep, RowChange, IsLatest, IsLive
  <1>8. ASSUME NEW outcome \in {"succeeded", "failed"}, SettleWorkerReport(d, outcome)
        PROVE  RowStep(d)
    <2> DEFINE t == dispatches[d].task
               r == Closed(dispatches[d], IF outcome = "succeeded" THEN "completed" ELSE "failed")
    <2>1. /\ r.status \in {"completed", "failed"} /\ r.revoked /\ r.task = t
      BY <1>1, ClosedIsRow DEF SettledStatus
    <2>2. dispatches'[d] = r /\ workers'[d] \in {workers[d], outcome}
      BY <1>8 DEF SettleWorkerReport, RowsInv, TypeOK
    <2>3. \A e \in Dispatch \ {d} : /\ dispatches'[e] = dispatches[e]
                                    /\ workers'[e] = workers[e]
                                    /\ awaiting'[e] = awaiting[e]
      BY <1>8 DEF SettleWorkerReport, RowsInv, TypeOK
    <2>4. Active(d) /\ IsRow(d) /\ IsLatest(d, t)
      BY <1>8 DEF SettleWorkerReport, Active, IsRow, ActiveStatus
    <2>5. \A u \in Task : /\ tasks'[u] = "completed" => u = t \/ tasks[u] = "completed"
                          /\ tasks'[u] = "dispatched" => tasks[u] = "dispatched"
                          /\ u = t => tasks'[u] # "dispatched"
      <3>1. CASE outcome = "succeeded"
        <4>1. t \in Task /\ tasks' = CompletedTask(t)
          BY <1>8, <2>4, <3>1 DEF SettleWorkerReport, RowsInv, RowsAreCoherent
        <4> HIDE DEF t
        <4> QED BY <4>1, CompletedTaskStatus DEF RowsInv
      <3>2. CASE outcome # "succeeded"
        BY <1>8, <3>2 DEF SettleWorkerReport, RowsInv, TypeOK
      <3> QED BY <3>1, <3>2
    <2> HIDE DEF r
    <2>6. Settled(d)' /\ ~Active(d)' /\ IsRow(d)'
      BY <2>1, <2>2 DEF Settled, Active, IsRow, ActiveStatus, SettledStatus
    <2>7. workers'[d] = "none" => /\ workers[d] = "none"
                                  /\ dispatches'[d].handle = dispatches[d].handle
      BY <1>1, <2>2, ClosedIsRow DEF r, SettledStatus
    <2>8. \A e \in Dispatch : IsLatest(e, t) => ~Active(e)'
      BY <2>4, <2>6 DEF IsLatest, Dispatch
    <2>9. workers'[d] \in Uncertain => dispatches'[d].revoked
      BY <2>1, <2>2
    <2> QED BY <2>1, <2>2, <2>3, <2>4, <2>5, <2>6, <2>7, <2>8, <2>9 DEF RowStep, RowChange, IsLatest
  <1> QED BY <1>2, <1>3, <1>4, <1>5, <1>6, <1>7, <1>8

\* The ones that keep the row active, and the worker in doubt or at work.
LEMMA WorkingIsRowStep ==
    ASSUME RowsInv, NEW d \in Dispatch,
           \/ \E h \in Handle : PrepareStartingWorkerAuthority(d, h)
           \/ MarkWorkerDispatchReady(d) \/ WorkerStartUnknown(d)
           \/ BeginWorkerStop(d) \/ ShowInterruptedWorker(d)
    PROVE  RowStep(d)
  <1>1. dispatches[d] \in Row
    BY DEF RowsInv, TypeOK
  <1>2. ASSUME NEW h \in Handle, PrepareStartingWorkerAuthority(d, h)
        PROVE  RowStep(d)
    <2> DEFINE r == Attached(dispatches[d], h)
    <2>1. r.status = dispatches[d].status /\ r.task = dispatches[d].task /\ r.revoked = FALSE
      BY <1>1, AttachedIsRow
    <2> HIDE DEF r
    <2>2. dispatches' = [dispatches EXCEPT ![d] = r]
      BY <1>2 DEF PrepareStartingWorkerAuthority, r
    <2> QED BY <1>2, <2>1, <2>2 DEF PrepareStartingWorkerAuthority, IsStarting, RowStep, RowChange, IsRow, Active,
              Settled, IsLive, ActiveStatus, SettledStatus, SettledWorker, Uncertain, RowsInv, TypeOK
  <1>3. CASE MarkWorkerDispatchReady(d)
    <2> DEFINE r == Moved(dispatches[d], "dispatched")
    <2>1. /\ r.status = "dispatched" /\ r.task = dispatches[d].task
          /\ r.revoked = dispatches[d].revoked
      BY <1>1, MovedIsRow DEF ActiveStatus
    <2> HIDE DEF r
    <2>2. dispatches' = [dispatches EXCEPT ![d] = r]
      BY <1>3 DEF MarkWorkerDispatchReady, r
    <2> QED BY <1>3, <2>1, <2>2 DEF MarkWorkerDispatchReady, IsStarting, RowStep, RowChange, IsRow, Active,
              Settled, IsLive, ActiveStatus, SettledStatus, SettledWorker, Uncertain, RowsInv, TypeOK
  <1>4. ASSUME StartUnknown(d), \A e \in Dispatch \ {d} : awaiting'[e] = awaiting[e]
        PROVE  RowStep(d)
    <2>1. IsRow(d)
      BY <1>4, PresentRow DEF StartUnknown
    <2> DEFINE r == Revoked(dispatches[d])
    <2>2. r.status = dispatches[d].status /\ r.task = dispatches[d].task /\ r.revoked
      BY <1>1, RevokedIsRow
    <2> HIDE DEF r
    <2>3. dispatches' = [dispatches EXCEPT ![d] = r]
      BY <1>4 DEF StartUnknown, r
    <2> QED BY <1>4, <2>1, <2>2, <2>3 DEF StartUnknown, RowStep, RowChange, IsRow, Active, Settled,
              IsLatest, SettledWorker, Uncertain, RowsInv, TypeOK
  <1>5. CASE WorkerStartUnknown(d)
    BY <1>4, <1>5 DEF WorkerStartUnknown, RowsInv, TypeOK
  <1>6. CASE ShowInterruptedWorker(d)
    <2>1. CASE StartUnknown(d)
      BY <1>4, <1>6, <2>1 DEF ShowInterruptedWorker
    <2>2. CASE /\ workers[d] = "stopping"
               /\ workers' = [workers EXCEPT ![d] = "stop_unknown"]
               /\ UNCHANGED <<tasks, dispatches>>
      <3>1. IsRow(d) /\ dispatches[d].revoked
        BY <2>2, PresentRow DEF RowsInv, RowsAreCoherent, Uncertain
      <3> QED BY <1>6, <2>2, <3>1 DEF ShowInterruptedWorker, RowStep, RowChange, IsRow, Active, Settled,
                IsLive, SettledWorker, Uncertain, RowsInv, TypeOK
    <2> QED BY <1>6, <2>1, <2>2 DEF ShowInterruptedWorker
  <1>7. CASE BeginWorkerStop(d)
    <2>1. IsRow(d)
      BY <1>7, PresentRow DEF BeginWorkerStop
    <2> DEFINE r == Revoked(dispatches[d])
    <2>2. r.status = dispatches[d].status /\ r.task = dispatches[d].task /\ r.revoked
      BY <1>1, RevokedIsRow
    <2>3. \A e \in Dispatch \ {d} : /\ dispatches'[e] = dispatches[e]
                                    /\ workers'[e] = workers[e]
                                    /\ awaiting'[e] = awaiting[e]
      BY <1>7 DEF BeginWorkerStop, StopRequested, RowsInv, TypeOK
    <2>4. dispatches'[d] = r /\ workers'[d] \in {"stopping", "stop_unknown"}
      BY <1>7 DEF BeginWorkerStop, StopRequested, RowsInv, TypeOK
    <2>5. \A t \in Task : tasks'[t] = IF t = dispatches[d].task THEN "blocked" ELSE tasks[t]
      BY <1>7 DEF BeginWorkerStop, RowsInv, TypeOK
    <2> HIDE DEF r
    <2> QED BY <2>1, <2>2, <2>3, <2>4, <2>5 DEF RowStep, RowChange, IsRow, Active, Settled, IsLatest,
              SettledWorker
  <1> QED BY <1>2, <1>3, <1>5, <1>6, <1>7

\* What another server tells about its worker.
LEMMA FederatedIsRowStep ==
    ASSUME RowsInv, NEW d \in Dispatch,
           \/ ReconcileFederatedWorkerStop(d) \/ ResumeFederatedWorker(d)
           \/ ReconcileFederatedWorkerStart(d)
    PROVE  RowStep(d)
  <1>1. dispatches[d] \in Row /\ Remote # {}
    BY DEF RowsInv, TypeOK, ReconcileFederatedWorkerStop, ResumeFederatedWorker,
           ReconcileFederatedWorkerStart
  <1>2. IsRow(d)
    BY PresentRow DEF ReconcileFederatedWorkerStop, ResumeFederatedWorker,
                      ReconcileFederatedWorkerStart
  <1>3. /\ Settled(d) => dispatches[d].revoked
        /\ workers[d] \in Uncertain => dispatches[d].revoked
        /\ Active(d) \/ Settled(d)
    BY <1>2, RowIsActiveOrSettled DEF RowsInv, SettledIsRevoked, RowsAreCoherent
  <1>4. CASE ReconcileFederatedWorkerStop(d)
    <2> DEFINE r == Moved(dispatches[d], "failed")
    <2>1. r.status = "failed" /\ r.revoked = dispatches[d].revoked /\ r.task = dispatches[d].task
      BY <1>1, MovedIsRow DEF SettledStatus
    <2>2. /\ dispatches'[d] = IF Active(d) THEN r ELSE dispatches[d]
          /\ workers'[d] = "stopped" /\ tasks' = tasks
          /\ workers[d] \in Uncertain /\ ~IsLive(d)
      BY <1>4 DEF ReconcileFederatedWorkerStop, RowsInv, TypeOK, Uncertain, IsLive
    <2>3. \A e \in Dispatch \ {d} : /\ dispatches'[e] = dispatches[e]
                                    /\ workers'[e] = workers[e]
                                    /\ awaiting'[e] = awaiting[e]
      BY <1>4 DEF ReconcileFederatedWorkerStop, RowsInv, TypeOK
    <2> HIDE DEF r
    <2>4. Settled(d)' /\ dispatches'[d].revoked /\ dispatches'[d].task = dispatches[d].task
      BY <1>3, <2>1, <2>2 DEF Settled, SettledStatus
    <2> QED BY <1>2, <2>2, <2>3, <2>4 DEF RowStep, RowChange, IsRow, Active, Settled, ActiveStatus,
                SettledStatus
  <1>5. ASSUME workers'[d] = "ready",
               \A e \in Dispatch \ {d} : /\ dispatches'[e] = dispatches[e]
                                         /\ workers'[e] = workers[e]
                                         /\ awaiting'[e] = awaiting[e],
               IsRow(d)', dispatches'[d].task = dispatches[d].task,
               dispatches'[d].revoked = dispatches[d].revoked,
               Active(d)' <=> Active(d),
               \A t \in Task : tasks'[t] \in {tasks[t], "dispatched"},
               workers[d] \in {"stopping", "starting", "start_unknown"}
        PROVE  RowStep(d)
    <2>1. Settled(d)' => Settled(d)
      BY <1>3, <1>5 DEF Active, Settled, ActiveStatus, SettledStatus
    <2> QED BY <1>1, <1>2, <1>3, <1>5, <2>1 DEF RowStep, RowChange, IsLive, SettledWorker, Uncertain
  <1>6. CASE ResumeFederatedWorker(d)
    <2>1. dispatches' = dispatches /\ workers'[d] = "ready" /\ workers[d] = "stopping"
      BY <1>6 DEF ResumeFederatedWorker, RowsInv, TypeOK
    <2>2. \A e \in Dispatch \ {d} : workers'[e] = workers[e] /\ awaiting'[e] = awaiting[e]
      BY <1>6 DEF ResumeFederatedWorker, RowsInv, TypeOK
    <2>3. \A t \in Task : tasks'[t] \in {tasks[t], "dispatched"}
      BY <1>6 DEF ResumeFederatedWorker, RowsInv, TypeOK
    <2> QED BY <1>2, <1>5, <2>1, <2>2, <2>3 DEF IsRow, Active
  <1>7. CASE ReconcileFederatedWorkerStart(d) /\ FederatedWorkerRuns(d)
    <2> DEFINE r == Moved(dispatches[d], "dispatched")
    <2>1. /\ r.status = "dispatched" /\ r.revoked = dispatches[d].revoked
          /\ r.task = dispatches[d].task
      BY <1>1, MovedIsRow DEF ActiveStatus
    <2>2. /\ dispatches'[d] = IF dispatches[d].status = "pending" THEN r ELSE dispatches[d]
          /\ workers'[d] = "ready" /\ workers[d] \in {"starting", "start_unknown"}
      BY <1>7 DEF ReconcileFederatedWorkerStart, FederatedWorkerRuns, RowsInv, TypeOK
    <2>3. \A e \in Dispatch \ {d} : /\ dispatches'[e] = dispatches[e]
                                    /\ workers'[e] = workers[e]
                                    /\ awaiting'[e] = awaiting[e]
      BY <1>7 DEF ReconcileFederatedWorkerStart, FederatedWorkerRuns, RowsInv, TypeOK
    <2>4. \A t \in Task : tasks'[t] \in {tasks[t], "dispatched"}
      BY <1>7 DEF ReconcileFederatedWorkerStart, FederatedWorkerRuns, RowsInv, TypeOK
    <2> HIDE DEF r
    <2>5. /\ IsRow(d)' /\ (Active(d)' <=> Active(d))
          /\ dispatches'[d].task = dispatches[d].task
          /\ dispatches'[d].revoked = dispatches[d].revoked
      BY <1>2, <2>1, <2>2 DEF IsRow, Active, ActiveStatus
    <2> QED BY <1>5, <2>2, <2>3, <2>4, <2>5
  <1>8. ASSUME ReconcileFederatedWorkerStart(d),
               NEW state \in {"failed", "stopped"}, FederatedWorkerEnded(d, state)
        PROVE  RowStep(d)
    <2> DEFINE r == Closed(dispatches[d], "failed")
    <2>1. r.status = "failed" /\ r.revoked /\ r.task = dispatches[d].task
      BY <1>1, ClosedIsRow DEF SettledStatus
    <2>2. /\ dispatches'[d] = IF Active(d) THEN r ELSE dispatches[d]
          /\ workers'[d] = state
      BY <1>8 DEF FederatedWorkerEnded, RowsInv, TypeOK
    <2>3. \A e \in Dispatch \ {d} : /\ dispatches'[e] = dispatches[e]
                                    /\ workers'[e] = workers[e]
                                    /\ awaiting'[e] = awaiting[e]
      BY <1>8 DEF ReconcileFederatedWorkerStart, FederatedWorkerEnded, RowsInv, TypeOK
    <2>4. \A t \in Task : /\ tasks'[t] \in {tasks[t], "failed"}
                          /\ t = dispatches[d].task => tasks'[t] # "dispatched"
      BY <1>8 DEF FederatedWorkerEnded, RowsInv, TypeOK
    <2> HIDE DEF r
    <2>5. Settled(d)' /\ dispatches'[d].revoked /\ dispatches'[d].task = dispatches[d].task
      BY <1>3, <2>1, <2>2 DEF Settled, SettledStatus
    <2>6. IsRow(d)' /\ ~Active(d)'
      BY <2>5 DEF IsRow, Active, Settled, ActiveStatus, SettledStatus
    <2> QED BY <1>2, <2>2, <2>3, <2>4, <2>5, <2>6 DEF RowStep, RowChange, IsLatest, Uncertain
  <1> QED BY <1>4, <1>6, <1>7, <1>8 DEF ReconcileFederatedWorkerStart

-----------------------------------------------------------------------------
(* The steps that insert a row, and those that are not about one Dispatch *)

NoRowChange ==
    /\ UNCHANGED <<dispatches, workers>>
    /\ \A d \in Dispatch : awaiting'[d] \in {awaiting[d], "nothing"}

NoRowStep ==
    /\ NoRowChange
    /\ \A t \in Task : tasks'[t] = "completed" =>
            \/ tasks[t] = "completed"
            \/ \A d \in Dispatch : IsLatest(d, t) => ~Active(d)

NoneNewlyDispatched ==
    \A t \in Task : tasks'[t] = "dispatched" => tasks[t] = "dispatched"

InsertChange(d, t) ==
    /\ IsNextRow(d)
    /\ \A e \in Dispatch \ {d} : /\ dispatches'[e] = dispatches[e]
                                 /\ workers'[e] = workers[e]
                                 /\ awaiting'[e] \in {awaiting[e], "nothing"}
    /\ Active(d)' /\ ~dispatches'[d].revoked /\ dispatches'[d].task = t
    /\ \/ workers'[d] = "starting"
       \/ /\ workers'[d] = "none"
          /\ dispatches'[d].handle \in Handle
          /\ TerminalIsFree(dispatches'[d].handle)

InsertStep(d, t) ==
    /\ InsertChange(d, t)
    /\ tasks' = [tasks EXCEPT ![t] = "dispatched"]

LEMMA NoRowChangeKeepsInvariant ==
    ASSUME RowsInv, TypeOK', NoRowChange
    PROVE  RowsInv'
  <1>1. dispatches' = dispatches /\ workers' = workers
    BY DEF NoRowChange
  <1>2. RowsAreInOrder' /\ SettledIsRevoked' /\ SettledWorkerHoldsNoTerminal'
    BY <1>1 DEF RowsInv, RowsAreInOrder, SettledIsRevoked, SettledWorkerHoldsNoTerminal,
                IsRow, Settled
  <1>3. ContextOnlyTerminalIsExclusive'
    BY <1>1 DEF RowsInv, ContextOnlyTerminalIsExclusive, Active
  <1>4. RowsAreCoherent'
    BY <1>1 DEF RowsInv, RowsAreCoherent, IsRow, NoRowChange
  <1> QED BY <1>2, <1>3, <1>4 DEF RowsInv

LEMMA NoRowStepKeepsInvariant ==
    ASSUME IInv, TypeOK', NoRowStep
    PROVE  IInv'
  <1>1. RowsInv'
    BY NoRowChangeKeepsInvariant DEF IInv, NoRowStep
  <1>2. CompletedFreesItsTerminal'
    BY DEF IInv, CompletedFreesItsTerminal, IsLatest, Active, NoRowStep, NoRowChange
  <1> QED BY <1>1, <1>2 DEF IInv

LEMMA InsertChangeKeepsInvariant ==
    ASSUME RowsInv, TypeOK', NEW d \in Dispatch, NEW t \in Task, InsertChange(d, t)
    PROVE  RowsInv'
  <1>1. IsRow(d)' /\ ~Settled(d)' /\ ~IsRow(d)
    BY DEF InsertChange, IsNextRow, Active, Settled, IsRow, ActiveStatus, SettledStatus
  <1>2. \A e \in Dispatch \ {d} : /\ IsRow(e)' <=> IsRow(e)
                                  /\ Active(e)' <=> Active(e)
                                  /\ Settled(e)' <=> Settled(e)
    BY DEF InsertChange, IsRow, Active, Settled
  <1>3. RowsAreInOrder'
    <2> SUFFICES ASSUME NEW e \in Dispatch, NEW f \in Dispatch, f < e, IsRow(e)'
                 PROVE  IsRow(f)'
      BY DEF RowsAreInOrder
    <2>1. CASE f = d
      BY <2>1, <1>1
    <2>2. CASE f # d /\ e = d
      BY <2>2, <1>2 DEF InsertChange, IsNextRow
    <2>3. CASE f # d /\ e # d
      BY <2>3, <1>2 DEF RowsInv, RowsAreInOrder
    <2> QED BY <2>1, <2>2, <2>3
  <1>4. RowsAreCoherent'
    <2> SUFFICES ASSUME NEW e \in Dispatch
                 PROVE  /\ ~IsRow(e)' => /\ dispatches'[e] = AbsentRow
                                         /\ workers'[e] = "none" /\ awaiting'[e] = "nothing"
                        /\ IsRow(e)' => dispatches'[e].task \in Task
                        /\ IsRow(e)' /\ workers'[e] = "none" => dispatches'[e].handle # NoHandle
                        /\ workers'[e] \in Uncertain => dispatches'[e].revoked
      BY DEF RowsAreCoherent, IsRow
    <2>1. CASE e = d
      BY <2>1, <1>1, ModelAssumption DEF InsertChange, Uncertain
    <2>2. CASE e # d
      BY <2>2, <1>2 DEF RowsInv, RowsAreCoherent, InsertChange
    <2> QED BY <2>1, <2>2
  <1>5. SettledIsRevoked'
    BY <1>1, <1>2 DEF RowsInv, SettledIsRevoked, InsertChange
  <1>6. SettledWorkerHoldsNoTerminal'
    BY <1>1, <1>2 DEF RowsInv, SettledWorkerHoldsNoTerminal, InsertChange, SettledWorker
  <1>7. ContextOnlyTerminalIsExclusive'
    <2>1. ASSUME NEW e \in Dispatch \ {d}, Active(e), workers[e] = "none", workers'[d] = "none"
          PROVE  PaneOf[dispatches[e].handle] # PaneOf[dispatches'[d].handle]
      <3>1. dispatches[e].handle # NoHandle
        BY <2>1, PresentRow DEF RowsInv, RowsAreCoherent
      <3> QED BY <2>1, <3>1 DEF InsertChange, TerminalIsFree
    <2> QED BY <2>1, <1>2 DEF RowsInv, ContextOnlyTerminalIsExclusive, InsertChange
  <1> QED BY <1>3, <1>4, <1>5, <1>6, <1>7 DEF RowsInv

LEMMA InsertStepKeepsInvariant ==
    ASSUME IInv, TypeOK', NEW d \in Dispatch, NEW t \in Task, InsertStep(d, t)
    PROVE  IInv'
  <1> USE DEF InsertStep, InsertChange
  <1>1. RowsInv' /\ ~IsRow(d)
    BY InsertChangeKeepsInvariant DEF IInv, IsNextRow
  <1>2. CompletedFreesItsTerminal'
    <2> SUFFICES ASSUME NEW u \in Task, NEW e \in Dispatch,
                        tasks'[u] = "completed", IsLatest(e, u)', Active(e)'
                 PROVE  FALSE
      BY DEF CompletedFreesItsTerminal
    <2>1. u # t /\ tasks[u] = "completed"
      BY DEF IInv, RowsInv, TypeOK
    <2>2. e # d
      BY <2>1 DEF IsLatest
    <2>3. dispatches[d].task # u
      BY <1>1, ModelAssumption DEF IInv, RowsInv, RowsAreCoherent, AbsentRow
    <2>4. IsLatest(e, u) /\ Active(e)
      BY <2>2, <2>3 DEF IsLatest, Active
    <2> QED BY <2>1, <2>4 DEF IInv, CompletedFreesItsTerminal
  <1> QED BY <1>1, <1>2 DEF IInv

\* Completing the active Dispatch of a Task changes one row or none.
LEMMA ActiveCompletedStep ==
    ASSUME RowsInv, NEW t \in Task, dispatches' = ActiveCompleted(t),
           UNCHANGED <<workers, awaiting>>,
           tasks'[t] \in {"completed", "blocked"},
           \A u \in Task \ {t} : /\ tasks'[u] = "completed" => tasks[u] = "completed"
                                 /\ tasks'[u] = "dispatched" => tasks[u] = "dispatched"
    PROVE  \/ NoRowStep /\ NoneNewlyDispatched
           \/ \E d \in Dispatch : RowStep(d)
  <1>0. \A u \in Task : /\ tasks'[u] = "completed" => u = t \/ tasks[u] = "completed"
                        /\ tasks'[u] = "dispatched" => u # t /\ tasks[u] = "dispatched"
    OBVIOUS
  <1>1. CASE \E d \in Dispatch : IsLatestActive(d, t)
    <2> PICK d \in Dispatch : IsLatestActive(d, t)
      BY <1>1
    <2> DEFINE r == Closed(dispatches[d], "completed")
    <2>1. /\ r.status = "completed" /\ r.revoked /\ r.task = t
          /\ r.handle = dispatches[d].handle
      BY ClosedIsRow DEF RowsInv, TypeOK, SettledStatus, IsLatestActive
    <2>2. \A e \in Dispatch \ {d} : ~IsLatestActive(e, t)
      BY DEF IsLatestActive, Dispatch
    <2> HIDE DEF r
    <2>3. dispatches'[d] = r /\ \A e \in Dispatch \ {d} : dispatches'[e] = dispatches[e]
      BY <2>2, ActiveCompletedRows DEF RowsInv, r
    <2>4. Active(d) /\ IsRow(d) /\ Settled(d)' /\ ~Active(d)' /\ IsRow(d)'
      BY <2>1, <2>3 DEF IsLatestActive, Active, Settled, IsRow, ActiveStatus, SettledStatus
    <2>5. \A e \in Dispatch : IsLatest(e, t) => ~Active(e)'
      <3> SUFFICES ASSUME NEW e \in Dispatch, IsLatest(e, t), Active(e)'
                   PROVE  FALSE
        OBVIOUS
      <3>1. e # d /\ Active(e)
        BY <2>3, <2>4 DEF Active
      <3> QED BY <3>1, <2>2 DEF IsLatest, IsLatestActive
    <2>6. workers' = workers /\ awaiting' = awaiting
      OBVIOUS
    <2>7. workers[d] \in Uncertain => dispatches[d].revoked
      BY DEF RowsInv, RowsAreCoherent
    <2>8. \A u \in Task : IsLatest(d, u) => u = t
      BY DEF IsLatest, IsLatestActive
    <2>9. RowStep(d)
      BY <1>0, <2>1, <2>3, <2>4, <2>5, <2>6, <2>7, <2>8 DEF RowStep, RowChange, IsLatestActive
    <2> QED BY <2>9
  <1>2. CASE ~ \E d \in Dispatch : IsLatestActive(d, t)
    <2>1. dispatches' = dispatches
      BY <1>2, ActiveCompletedRows DEF RowsInv, TypeOK
    <2>2. \A e \in Dispatch : IsLatest(e, t) => ~Active(e)
      BY <1>2 DEF IsLatest, IsLatestActive
    <2>3. workers' = workers /\ awaiting' = awaiting
      OBVIOUS
    <2> QED BY <1>0, <2>1, <2>2, <2>3 DEF NoRowStep, NoRowChange, NoneNewlyDispatched
  <1> QED BY <1>1, <1>2

\* Every step inserts a row, changes one row, or leaves the rows alone.
LEMMA StepKinds ==
    ASSUME RowsInv, [Next]_vars
    PROVE  \/ /\ NoRowStep
              /\ "dispatched" \notin OperatorStatus => NoneNewlyDispatched
           \/ \E d \in Dispatch : RowStep(d)
           \/ \E d \in Dispatch, t \in Task : InsertStep(d, t)
  <1>1. CASE UNCHANGED vars
    BY <1>1 DEF vars, NoRowStep, NoRowChange, NoneNewlyDispatched
  <1>2. CASE Restart
    BY <1>2 DEF Restart, NoRowStep, NoRowChange, NoneNewlyDispatched
  <1>3. ASSUME NEW g \in Gate, ResolveGate(g) \/ ReblockGatedTask(g)
        PROVE  NoRowStep /\ NoneNewlyDispatched
    <2>1. /\ UNCHANGED <<dispatches, workers, awaiting>>
          /\ \E status \in {"ready", "blocked"} :
                tasks' = [tasks EXCEPT ![gates[g].task] = status]
      BY <1>3 DEF ResolveGate, ReblockGatedTask
    <2> QED BY <2>1 DEF NoRowStep, NoRowChange, NoneNewlyDispatched, RowsInv, TypeOK
  <1>4. CASE DispatchNext
    BY <1>4, WaitingIsRowStep, SettlingIsRowStep, WorkingIsRowStep, FederatedIsRowStep
       DEF DispatchNext
  <1>5. ASSUME NEW t \in Task, CreateTask(t)
        PROVE  NoRowStep /\ NoneNewlyDispatched
    BY <1>5 DEF CreateTask, NoRowStep, NoRowChange, NoneNewlyDispatched, RowsInv, TypeOK
  <1>6. ASSUME NEW t \in Task, NEW status \in OperatorStatus, TaskUpdate(t, status)
        PROVE  \/ /\ NoRowStep
                  /\ "dispatched" \notin OperatorStatus => NoneNewlyDispatched
               \/ \E d \in Dispatch : RowStep(d)
    <2>1. CASE status = "completed"
      <3>1. dispatches' = ActiveCompleted(t) /\ tasks' = CompletedTask(t)
        BY <1>6, <2>1 DEF TaskUpdate
      <3>2. /\ tasks'[t] \in {"completed", "blocked"}
            /\ \A u \in Task \ {t} :
                 /\ tasks'[u] = "completed" => tasks[u] = "completed"
                 /\ tasks'[u] = "dispatched" => tasks[u] = "dispatched"
        BY <3>1, CompletedTaskStatus DEF RowsInv
      <3>3. UNCHANGED <<workers, awaiting>>
        BY <1>6 DEF TaskUpdate
      <3> QED BY <3>1, <3>2, <3>3, ActiveCompletedStep
    <2>2. CASE status # "completed"
      BY <1>6, <2>2 DEF TaskUpdate, NoRowStep, NoRowChange, NoneNewlyDispatched, RowsInv, TypeOK
    <2> QED BY <2>1, <2>2
  <1>7. ASSUME NEW t \in Task, NEW d \in Dispatch, NEW h \in Handle, NEW mint \in BOOLEAN,
               NEW send \in BOOLEAN, CreateDispatchContext(d, t, h, mint, send)
        PROVE  InsertStep(d, t)
    <2> PICK n \in 0..CountCap :
            dispatches' = [dispatches EXCEPT ![d] = NewRow(t, h, "dispatched", n, mint)]
      BY <1>7 DEF CreateDispatchContext
    <2>1. IsNextRow(d) /\ TerminalIsFree(h) /\ workers' = workers /\ workers[d] = "none"
      BY <1>7 DEF CreateDispatchContext, IsNextRow, RowsInv, RowsAreCoherent
    <2>2. tasks' = [tasks EXCEPT ![t] = "dispatched"]
      BY <1>7 DEF CreateDispatchContext
    <2>3. \A e \in Dispatch \ {d} : dispatches'[e] = dispatches[e] /\ awaiting'[e] = awaiting[e]
      BY <1>7 DEF CreateDispatchContext, RowsInv, TypeOK
    <2>4. dispatches'[d] = NewRow(t, h, "dispatched", n, mint)
      BY DEF RowsInv, TypeOK
    <2> QED BY <2>1, <2>2, <2>3, <2>4 DEF InsertStep, InsertChange, NewRow, Active, ActiveStatus
  <1>8. ASSUME NEW t \in Task, NEW d \in Dispatch, StartWorker(d, t)
        PROVE  InsertStep(d, t)
    <2>1. IsNextRow(d) /\ workers'[d] = "starting" /\ tasks' = [tasks EXCEPT ![t] = "dispatched"]
      BY <1>8 DEF StartWorker, RowsInv, TypeOK
    <2>2. \A e \in Dispatch \ {d} : /\ dispatches'[e] = dispatches[e]
                                    /\ workers'[e] = workers[e]
                                    /\ awaiting'[e] = awaiting[e]
      BY <1>8 DEF StartWorker, RowsInv, TypeOK
    <2>3. dispatches'[d] = NewRow(t, NoHandle, "pending", 0, FALSE)
      BY <1>8 DEF StartWorker, RowsInv, TypeOK
    <2> QED BY <2>1, <2>2, <2>3 DEF InsertStep, InsertChange, NewRow, Active, ActiveStatus
  <1>9. ASSUME NEW t \in Task, NEW g \in Gate, CreateGate(g, t)
        PROVE  \/ NoRowStep /\ NoneNewlyDispatched
               \/ \E d \in Dispatch : RowStep(d)
    <2>1. dispatches' = ActiveCompleted(t) /\ UNCHANGED <<workers, awaiting>>
      BY <1>9 DEF CreateGate
    <2>2. /\ tasks'[t] \in {"completed", "blocked"}
          /\ \A u \in Task \ {t} :
               /\ tasks'[u] = "completed" => tasks[u] = "completed"
               /\ tasks'[u] = "dispatched" => tasks[u] = "dispatched"
      BY <1>9 DEF CreateGate, RowsInv, TypeOK
    <2> QED BY <2>1, <2>2, ActiveCompletedStep
  <1>10. CASE TaskNext
    BY <1>5, <1>6, <1>7, <1>8, <1>9, <1>10 DEF TaskNext, WorkerStart, WorkerRetry
  <1> QED BY <1>1, <1>2, <1>3, <1>4, <1>10 DEF Next, GateNext

-----------------------------------------------------------------------------
(* Theorems *)

LEMMA RowsHold == IInv => RowsInv
  BY DEF IInv

LEMMA InitIInv == Init => IInv
  <1> SUFFICES ASSUME Init PROVE IInv
    OBVIOUS
  <1>1. \A d \in Dispatch : /\ dispatches[d] = AbsentRow /\ workers[d] = "none"
                            /\ awaiting[d] = "nothing" /\ ~IsRow(d) /\ ~Active(d) /\ ~Settled(d)
    BY DEF Init, IsRow, Active, Settled, ActiveStatus, SettledStatus, AbsentRow
  <1> QED BY <1>1, InitTypeOK DEF IInv, RowsInv, RowsAreInOrder, RowsAreCoherent, SettledIsRevoked,
            SettledWorkerHoldsNoTerminal, ContextOnlyTerminalIsExclusive,
            CompletedFreesItsTerminal, SettledWorker, Uncertain

LEMMA NextIInv == IInv /\ [Next]_vars => IInv'
  <1> SUFFICES ASSUME IInv, [Next]_vars PROVE IInv'
    OBVIOUS
  <1>1. TypeOK'
    BY NextTypeOK DEF IInv, RowsInv
  <1> QED BY <1>1, StepKinds, RowsHold, NoRowStepKeepsInvariant, RowStepKeepsInvariant,
             InsertStepKeepsInvariant

\* The inductive invariant holds in every reachable state.
THEOREM Invariance == Spec => []IInv
  BY InitIInv, NextIInv, PTL DEF Spec

\* A settled Dispatch has no authority left, whatever settled it.
THEOREM Revocation == Spec => []SettledIsRevoked
  <1>1. IInv => SettledIsRevoked
    BY DEF IInv, RowsInv
  <1> QED BY <1>1, Invariance, PTL

\* A worker in a final state holds no terminal.
THEOREM SettledWorkers == Spec => []SettledWorkerHoldsNoTerminal
  <1>1. IInv => SettledWorkerHoldsNoTerminal
    BY DEF IInv, RowsInv
  <1> QED BY <1>1, Invariance, PTL

\* The dispatch-lock keeps two context-only Dispatches off one terminal.
THEOREM DispatchLock == Spec => []ContextOnlyTerminalIsExclusive
  <1>1. IInv => ContextOnlyTerminalIsExclusive
    BY DEF IInv, RowsInv
  <1> QED BY <1>1, Invariance, PTL

\* The current attempt at a completed Task holds no terminal.
THEOREM CompletionFrees == Spec => []CompletedFreesItsTerminal
  <1>1. IInv => CompletedFreesItsTerminal
    BY DEF IInv, RowsInv
  <1> QED BY <1>1, Invariance, PTL

\* No step makes a settled Dispatch active again.
THEOREM Settlement == Spec => SettledStaysSettled
  <1>1. ASSUME IInv, [Next]_vars, NEW d \in Dispatch, Settled(d)
        PROVE  Settled(d)'
    <2>1. TypeOK'
      BY <1>1, NextTypeOK DEF IInv, RowsInv
    <2>2. CASE NoRowStep
      BY <1>1, <2>2 DEF NoRowStep, NoRowChange, Settled
    <2>3. CASE \E e \in Dispatch : RowStep(e)
      <3> PICK e \in Dispatch : RowStep(e)
        BY <2>3
      <3>1. CASE e = d
        <4>1. IsRow(d)' /\ ~Active(d)'
          BY <1>1, <3>1, RowIsActiveOrSettled DEF RowStep, RowChange, IInv, RowsInv
        <4> QED BY <2>1, <4>1 DEF TypeOK, Row, IsRow, Active, Settled
      <3>2. CASE e # d
        BY <1>1, <3>2 DEF RowStep, RowChange, Settled
      <3> QED BY <3>1, <3>2
    <2>4. CASE \E e \in Dispatch, t \in Task : InsertStep(e, t)
      <3> PICK e \in Dispatch, t \in Task : InsertStep(e, t)
        BY <2>4
      <3>1. e # d
        BY <1>1, RowIsActiveOrSettled DEF InsertStep, InsertChange, IsNextRow, IInv, RowsInv
      <3> QED BY <1>1, <3>1 DEF InsertStep, InsertChange, Settled
    <2> QED BY <1>1, <2>2, <2>3, <2>4, StepKinds, RowsHold
  <1>2. IInv /\ [Next]_vars => [\A d \in Dispatch : Settled(d) => Settled(d)']_vars
    BY <1>1
  <1> QED BY <1>2, Invariance, PTL DEF Spec, SettledStaysSettled

LEMMA LiveOwnerStep ==
    ASSUME "dispatched" \notin OperatorStatus, Remote = {},
           IInv, DispatchedHasLiveOwner, [Next]_vars
    PROVE  DispatchedHasLiveOwner'
  <1> SUFFICES ASSUME NEW t \in Task, tasks'[t] = "dispatched"
               PROVE  \E d \in Dispatch : IsLatest(d, t)' /\ IsLive(d)'
    BY DEF DispatchedHasLiveOwner
  <1>1. CASE NoRowStep /\ NoneNewlyDispatched
    <2>1. tasks[t] = "dispatched"
      BY <1>1 DEF NoneNewlyDispatched
    <2> PICK d \in Dispatch : IsLatest(d, t) /\ IsLive(d)
      BY <2>1 DEF DispatchedHasLiveOwner
    <2> QED BY <1>1 DEF NoRowStep, NoRowChange, IsLatest, IsLive, Active
  <1>2. CASE \E d \in Dispatch : RowStep(d)
    <2> PICK d \in Dispatch : RowStep(d)
      BY <1>2
    <2>1. tasks[t] = "dispatched"
      BY DEF RowStep, RowChange
    <2> PICK o \in Dispatch : IsLatest(o, t) /\ IsLive(o)
      BY <2>1 DEF DispatchedHasLiveOwner
    <2>2. IsLatest(o, t)'
      BY DEF RowStep, RowChange, IsLatest
    <2>3. IsLive(o)'
      BY DEF RowStep, RowChange, IsLive, Active
    <2> QED BY <2>2, <2>3
  <1>3. CASE \E d \in Dispatch, u \in Task : InsertStep(d, u)
    <2> PICK d \in Dispatch, u \in Task : InsertStep(d, u)
      BY <1>3
    <2>1. CASE t = u
      <3>1. IsLive(d)'
        BY DEF InsertStep, InsertChange, IsLive
      <3>2. ASSUME NEW e \in Dispatch, dispatches'[e].task = t, ~(e <= d)
            PROVE  FALSE
        <4>1. e # d /\ d < e
          BY <3>2 DEF Dispatch
        <4>2. ~IsRow(e)
          BY <4>1 DEF IInv, RowsInv, RowsAreInOrder, InsertStep, InsertChange, IsNextRow
        <4>3. dispatches'[e].task = NoTask
          BY <4>1, <4>2 DEF IInv, RowsInv, RowsAreCoherent, AbsentRow, InsertStep, InsertChange
        <4> QED BY <3>2, <4>3, ModelAssumption
      <3> QED BY <2>1, <3>1, <3>2 DEF InsertStep, InsertChange, IsLatest
    <2>2. CASE t # u
      <3>1. tasks[t] = "dispatched"
        BY <2>2 DEF InsertStep, InsertChange, IInv, RowsInv, TypeOK
      <3> PICK o \in Dispatch : IsLatest(o, t) /\ IsLive(o)
        BY <3>1 DEF DispatchedHasLiveOwner
      <3>2. o # d
        BY PresentRow, RowsHold DEF InsertStep, InsertChange, IsNextRow, IsLive
      <3>3. IsLatest(o, t)'
        BY <2>2, <3>2 DEF InsertStep, InsertChange, IsLatest
      <3>4. IsLive(o)'
        BY <3>2 DEF InsertStep, InsertChange, IsLive, Active
      <3> QED BY <3>3, <3>4
    <2> QED BY <2>1, <2>2
  <1> QED BY <1>1, <1>2, <1>3, StepKinds, RowsHold

\* As long as nobody sets a Task to dispatched by hand and no worker is on another
\* server, a dispatched Task always has a current attempt that can settle it.
THEOREM LiveOwner ==
    ASSUME "dispatched" \notin OperatorStatus, Remote = {}
    PROVE  Spec => []DispatchedHasLiveOwner
  <1>1. Init => DispatchedHasLiveOwner
    BY DEF Init, DispatchedHasLiveOwner
  <1>2. IInv /\ DispatchedHasLiveOwner /\ [Next]_vars => DispatchedHasLiveOwner'
    BY LiveOwnerStep
  <1> QED BY <1>1, <1>2, Invariance, PTL DEF Spec

-----------------------------------------------------------------------------
(* The task graph *)

\* What a step does to the statuses: it creates a Task, completes one and
\* promotes its dependents, or writes one status that is neither of these.
LEMMA TaskEffects ==
    ASSUME IInv, [Next]_vars
    PROVE  \/ tasks' = tasks
           \/ \E t \in Task : CreateTask(t)
           \/ \E t \in Task : tasks[t] # "absent" /\ tasks' = CompletedTask(t)
           \/ \E t \in Task, status \in TaskStatus \ {"completed"} :
                /\ tasks' = [tasks EXCEPT ![t] = status]
                /\ tasks[t] # "absent" \/ Touched(t)
                /\ status = "pending" => "pending" \in OperatorStatus
                /\ status = "ready" => "ready" \in OperatorStatus \/ Touched(t)
  <1> DEFINE Written(t, status) ==
                /\ tasks' = [tasks EXCEPT ![t] = status]
                /\ tasks[t] # "absent" \/ Touched(t)
                /\ status = "pending" => "pending" \in OperatorStatus
                /\ status = "ready" => "ready" \in OperatorStatus \/ Touched(t)
  <1>1. ASSUME UNCHANGED vars \/ Restart
        PROVE  tasks' = tasks
    BY <1>1 DEF vars, Restart
  <1>2. ASSUME NEW g \in Gate, ResolveGate(g) \/ ReblockGatedTask(g)
        PROVE  \/ tasks' = tasks
               \/ \E t \in Task, status \in TaskStatus \ {"completed"} : Written(t, status)
    <2> DEFINE t == gates[g].task
    <2>1. PICK status \in {"ready", "blocked"} : tasks' = [tasks EXCEPT ![t] = status]
      BY <1>2 DEF ResolveGate, ReblockGatedTask
    <2>2. CASE t \in Task
      BY <2>1, <2>2 DEF Touched, TaskStatus
    <2>3. CASE t \notin Task
      BY <2>1, <2>3 DEF IInv, RowsInv, TypeOK
    <2> QED BY <2>2, <2>3
  <1>3. ASSUME TaskNext
        PROVE  \/ \E u \in Task : CreateTask(u)
               \/ \E u \in Task : tasks[u] # "absent" /\ tasks' = CompletedTask(u)
               \/ \E u \in Task, status \in TaskStatus \ {"completed"} : Written(u, status)
    <2>1. PICK u \in Task :
              \/ CreateTask(u)
              \/ \E status \in OperatorStatus : TaskUpdate(u, status)
              \/ \E d \in Dispatch, h \in Handle, mint, send \in BOOLEAN :
                    CreateDispatchContext(d, u, h, mint, send)
              \/ \E d \in Dispatch : WorkerStart(d, u)
              \/ \E d, prior \in Dispatch : WorkerRetry(d, u, prior)
              \/ \E g \in Gate : CreateGate(g, u)
      BY <1>3 DEF TaskNext
    <2>2. ASSUME NEW status \in OperatorStatus, TaskUpdate(u, status)
          PROVE  \/ tasks[u] # "absent" /\ tasks' = CompletedTask(u)
                 \/ status \in TaskStatus \ {"completed"} /\ Written(u, status)
      BY <2>2, ModelAssumption DEF TaskUpdate
    <2>3. ASSUME tasks[u] # "absent", tasks' = [tasks EXCEPT ![u] = "dispatched"]
          PROVE  Written(u, "dispatched")
      BY <2>3
    <2>4. ASSUME NEW g \in Gate, CreateGate(g, u)
          PROVE  Written(u, "blocked")
      BY <2>4 DEF CreateGate
    <2>5. ASSUME NEW d \in Dispatch, NEW h \in Handle, NEW mint \in BOOLEAN, NEW send \in BOOLEAN,
                 CreateDispatchContext(d, u, h, mint, send)
          PROVE  Written(u, "dispatched")
      BY <2>3, <2>5 DEF CreateDispatchContext
    <2>6. ASSUME NEW d \in Dispatch, WorkerStart(d, u) \/ \E prior \in Dispatch : WorkerRetry(d, u, prior)
          PROVE  Written(u, "dispatched")
      BY <2>3, <2>6 DEF WorkerStart, WorkerRetry, StartWorker
    <2>7. "dispatched" \in TaskStatus \ {"completed"} /\ "blocked" \in TaskStatus \ {"completed"}
      BY DEF TaskStatus
    <2> HIDE DEF Written
    <2> QED BY <2>1, <2>2, <2>4, <2>5, <2>6, <2>7
  <1>4. ASSUME NEW d \in Dispatch, IsRow(d), dispatches[d].task \in Task,
               NEW status \in {"ready", "failed", "blocked", "dispatched"},
               tasks' = [tasks EXCEPT ![dispatches[d].task] = status]
        PROVE  \E t \in Task, s \in TaskStatus \ {"completed"} : Written(t, s)
    BY <1>4 DEF Touched, TaskStatus
  <1>5. ASSUME NEW d \in Dispatch,
               \/ PromptAccepted(d) \/ WorkerStartRejected(d) \/ MarkWorkerStopUnknown(d)
               \/ \E h \in Handle : PrepareStartingWorkerAuthority(d, h)
               \/ MarkWorkerDispatchReady(d) \/ SettleWorkerStop(d)
               \/ ReconcileFederatedWorkerStop(d)
        PROVE  tasks' = tasks
    BY <1>5 DEF PromptAccepted, WorkerStartRejected, MarkWorkerStopUnknown,
                PrepareStartingWorkerAuthority, MarkWorkerDispatchReady, SettleWorkerStop,
                ReconcileFederatedWorkerStop
  <1>6. ASSUME NEW d \in Dispatch,
               \/ PromptFailed(d) \/ PtyExit(d) \/ HandleEscalation(d)
               \/ FailWorkerStart(d) \/ WorkerStartUnknown(d) \/ ShowInterruptedWorker(d)
               \/ ReleaseContextOnlyDispatch(d) \/ BeginWorkerStop(d)
               \/ AbandonWorkerDispatch(d) \/ ReconcileMissingWorkerTerminal(d)
               \/ ResumeFederatedWorker(d) \/ ReconcileFederatedWorkerStart(d)
        PROVE  \/ tasks' = tasks
               \/ \E t \in Task, s \in TaskStatus \ {"completed"} : Written(t, s)
    <2>1. IsRow(d) /\ dispatches[d].task \in Task
      <3>1. IsRow(d)
        <4>1. CASE PromptFailed(d) \/ PtyExit(d) \/ HandleEscalation(d)
          BY <4>1, PresentRow, RowsHold DEF PromptFailed, PtyExit, HandleEscalation
        <4>2. CASE \/ FailWorkerStart(d) \/ WorkerStartUnknown(d) \/ ShowInterruptedWorker(d)
                   \/ ReleaseContextOnlyDispatch(d)
          BY <4>2, PresentRow, RowsHold DEF FailWorkerStart, WorkerStartUnknown, ShowInterruptedWorker,
                                  StartUnknown, ReleaseContextOnlyDispatch
        <4>3. CASE \/ BeginWorkerStop(d) \/ AbandonWorkerDispatch(d)
                   \/ ReconcileMissingWorkerTerminal(d)
          BY <4>3, PresentRow, RowsHold DEF BeginWorkerStop, AbandonWorkerDispatch, OpenWorker,
                                  SettledWorker, ReconcileMissingWorkerTerminal
        <4>4. CASE ResumeFederatedWorker(d) \/ ReconcileFederatedWorkerStart(d)
          BY <4>4, PresentRow, RowsHold DEF ResumeFederatedWorker, ReconcileFederatedWorkerStart
        <4> QED BY <1>6, <4>1, <4>2, <4>3, <4>4
      <3> QED BY <3>1 DEF IInv, RowsInv, RowsAreCoherent
    <2>2. \/ tasks' = tasks
          \/ \E status \in {"ready", "failed", "blocked", "dispatched"} :
                tasks' = [tasks EXCEPT ![dispatches[d].task] = status]
      <3>1. CASE PromptFailed(d) \/ PtyExit(d) \/ HandleEscalation(d)
        BY <3>1, RetryStatusIsRunnable DEF PromptFailed, PtyExit, HandleEscalation, FailDispatch
      <3>2. CASE FailWorkerStart(d) \/ ReleaseContextOnlyDispatch(d)
        BY <3>2 DEF FailWorkerStart, ReleaseContextOnlyDispatch
      <3>3. CASE WorkerStartUnknown(d) \/ ShowInterruptedWorker(d)
        BY <3>3 DEF WorkerStartUnknown, ShowInterruptedWorker, StartUnknown
      <3>4. CASE BeginWorkerStop(d) \/ AbandonWorkerDispatch(d)
        BY <3>4 DEF BeginWorkerStop, AbandonWorkerDispatch
      <3>5. CASE ReconcileMissingWorkerTerminal(d)
        BY <3>5, RetryStatusIsRunnable DEF ReconcileMissingWorkerTerminal
      <3>6. CASE ResumeFederatedWorker(d) \/ ReconcileFederatedWorkerStart(d)
        BY <3>6, <2>1 DEF ResumeFederatedWorker, ReconcileFederatedWorkerStart,
                          FederatedWorkerRuns, FederatedWorkerEnded, IInv, RowsInv, TypeOK
      <3> QED BY <1>6, <3>1, <3>2, <3>3, <3>4, <3>5, <3>6
    <2> HIDE DEF Written
    <2> QED BY <2>1, <2>2, <1>4
  <1>7. ASSUME NEW d \in Dispatch, NEW outcome \in {"succeeded", "failed"},
               SettleWorkerReport(d, outcome)
        PROVE  \/ \E t \in Task : tasks[t] # "absent" /\ tasks' = CompletedTask(t)
               \/ \E t \in Task, s \in TaskStatus \ {"completed"} : Written(t, s)
    <2>1. IsRow(d) /\ dispatches[d].task \in Task /\ tasks[dispatches[d].task] = "dispatched"
      BY <1>7 DEF SettleWorkerReport, IsRow, IInv, RowsInv, RowsAreCoherent
    <2>2. CASE outcome = "succeeded"
      BY <1>7, <2>1, <2>2 DEF SettleWorkerReport
    <2>3. CASE outcome # "succeeded"
      BY <1>7, <1>4, <2>1, <2>3 DEF SettleWorkerReport
    <2> QED BY <2>2, <2>3
  <1> HIDE DEF Written
  <1>8. ASSUME DispatchNext
        PROVE  \/ tasks' = tasks
               \/ \E t \in Task : tasks[t] # "absent" /\ tasks' = CompletedTask(t)
               \/ \E t \in Task, status \in TaskStatus \ {"completed"} : Written(t, status)
    BY <1>5, <1>6, <1>7, <1>8 DEF DispatchNext
  <1>9. \/ tasks' = tasks
        \/ \E t \in Task : CreateTask(t)
        \/ \E t \in Task : tasks[t] # "absent" /\ tasks' = CompletedTask(t)
        \/ \E t \in Task, status \in TaskStatus \ {"completed"} : Written(t, status)
    <2>1. CASE UNCHANGED vars \/ Restart
      BY <1>1, <2>1
    <2>2. CASE GateNext
      BY <1>2, <2>2 DEF GateNext
    <2>3. CASE TaskNext
      BY <1>3, <2>3
    <2>4. CASE DispatchNext
      BY <1>8, <2>4
    <2> QED BY <2>1, <2>2, <2>3, <2>4 DEF Next
  <1> QED BY <1>9, Zenon DEF Written

\* Only createGate gives a gate its Task.
LEMMA GateEffects ==
    ASSUME TypeOK, [Next]_vars
    PROVE  \/ \A g \in Gate : gates'[g].task = gates[g].task
           \/ \E g \in Gate, t \in Task : CreateGate(g, t)
  <1>1. CASE UNCHANGED vars \/ Restart
    BY <1>1 DEF vars, Restart
  <1>2. ASSUME NEW g \in Gate, ResolveGate(g) \/ ReblockGatedTask(g)
        PROVE  \A x \in Gate : gates'[x].task = gates[x].task
    BY <1>2 DEF ResolveGate, ReblockGatedTask, TypeOK
  <1>3. CASE TaskNext
    BY <1>3 DEF TaskNext, CreateTask, TaskUpdate, CreateDispatchContext, WorkerStart,
                WorkerRetry, StartWorker
  <1>4. CASE DispatchNext
    BY <1>4 DEF DispatchNext, PromptAccepted, PromptFailed, PrepareStartingWorkerAuthority,
                MarkWorkerDispatchReady, FailWorkerStart, WorkerStartUnknown,
                WorkerStartRejected, SettleWorkerReport, ReleaseContextOnlyDispatch,
                BeginWorkerStop, SettleWorkerStop, MarkWorkerStopUnknown,
                AbandonWorkerDispatch, PtyExit, HandleEscalation,
                ReconcileMissingWorkerTerminal, ShowInterruptedWorker,
                ReconcileFederatedWorkerStop, ResumeFederatedWorker,
                ReconcileFederatedWorkerStart
  <1> QED BY <1>1, <1>2, <1>3, <1>4 DEF Next, GateNext

\* A Task gets its first Dispatch or gate in a step that moves it out of pending.
LEMMA TouchEffects ==
    ASSUME IInv, [Next]_vars, NEW t \in Task, Touched(t)'
    PROVE  Touched(t) \/ tasks'[t] \in {"dispatched", "blocked"}
  <1>1. CASE \E d \in Dispatch : dispatches'[d].task = t
    <2> PICK d \in Dispatch : dispatches'[d].task = t
      BY <1>1
    <2>1. CASE NoRowStep
      BY <2>1 DEF NoRowStep, NoRowChange, Touched
    <2>2. CASE \E e \in Dispatch : RowStep(e)
      BY <2>2 DEF RowStep, RowChange, Touched
    <2>3. CASE \E e \in Dispatch, u \in Task : InsertStep(e, u)
      BY <2>3 DEF InsertStep, InsertChange, Touched, IInv, RowsInv, TypeOK
    <2> QED BY <2>1, <2>2, <2>3, StepKinds, RowsHold
  <1>2. CASE \E g \in Gate : gates'[g].task = t
    <2> PICK g \in Gate : gates'[g].task = t
      BY <1>2
    <2>1. CASE \A x \in Gate : gates'[x].task = gates[x].task
      BY <2>1 DEF Touched
    <2>2. CASE \E x \in Gate, u \in Task : CreateGate(x, u)
      <3> PICK x \in Gate, u \in Task : CreateGate(x, u)
        BY <2>2
      <3>1. CASE x = g
        BY <3>1 DEF CreateGate, IInv, RowsInv, TypeOK
      <3>2. CASE x # g
        BY <3>2 DEF CreateGate, Touched
      <3> QED BY <3>1, <3>2
    <2> QED BY <2>1, <2>2, GateEffects DEF IInv, RowsInv
  <1> QED BY <1>1, <1>2 DEF Touched

LEMMA PendingStep ==
    ASSUME "pending" \notin OperatorStatus, IInv, PendingIsUntouched, [Next]_vars
    PROVE  PendingIsUntouched'
  <1> SUFFICES ASSUME NEW t \in Task, tasks'[t] \in {"absent", "pending"}, Touched(t)'
               PROVE  FALSE
    BY DEF PendingIsUntouched
  <1>1. Touched(t)
    BY TouchEffects
  <1>2. tasks[t] \notin {"absent", "pending"}
    BY <1>1 DEF PendingIsUntouched
  <1>3. CASE tasks' = tasks
    BY <1>2, <1>3
  <1>4. CASE \E u \in Task : CreateTask(u)
    BY <1>2, <1>4 DEF CreateTask, IInv, RowsInv, TypeOK
  <1>5. CASE \E u \in Task : tasks[u] # "absent" /\ tasks' = CompletedTask(u)
    BY <1>2, <1>5, CompletedTaskStatus DEF IInv, RowsInv
  <1>6. ASSUME NEW u \in Task, NEW status \in TaskStatus \ {"completed"},
               tasks' = [tasks EXCEPT ![u] = status],
               status = "pending" => "pending" \in OperatorStatus
        PROVE  FALSE
    BY <1>2, <1>6 DEF IInv, RowsInv, TypeOK, TaskStatus
  <1> QED BY <1>3, <1>4, <1>5, <1>6, TaskEffects

\* promoteReadyTasks leaves a Task pending or finds all it waits for completed.
LEMMA PromotionStep ==
    ASSUME TypeOK, NEW u \in Task, tasks' = CompletedTask(u),
           NEW t \in Task, tasks[t] = "pending", tasks'[t] = "ready"
    PROVE  \A p \in Deps[t] : tasks'[p] = "completed"
  <1> DEFINE done == [tasks EXCEPT ![u] = "completed"]
  <1>1. done \in [Task -> TaskStatus \cup {"absent"}] /\ done[t] # "ready"
    BY DEF TypeOK, TaskStatus
  <1>2. tasks' = Promote(done, u)
    BY DEF CompletedTask
  <1> HIDE DEF done
  <1>3. \A p \in Deps[t] : done[p] = "completed"
    BY <1>1, <1>2 DEF Promote
  <1> QED BY <1>1, <1>2, <1>3, PromoteMovesPending, ModelAssumption

\* As long as nobody sets a Task to pending or ready by hand, a Task leaves
\* pending only when all it depends on is completed.
THEOREM Promotion ==
    ASSUME "pending" \notin OperatorStatus, "ready" \notin OperatorStatus
    PROVE  Spec => PromotedWhenDepsCompleted
  <1>1. Init => PendingIsUntouched
    BY ModelAssumption DEF Init, PendingIsUntouched, Touched, AbsentRow, AbsentGate
  <1>2. IInv /\ PendingIsUntouched /\ [Next]_vars => PendingIsUntouched'
    BY PendingStep
  <1>3. ASSUME IInv, PendingIsUntouched, [Next]_vars,
               NEW t \in Task, tasks[t] = "pending", tasks'[t] = "ready"
        PROVE  \A p \in Deps[t] : tasks'[p] = "completed"
    <2>1. ~Touched(t)
      BY <1>3 DEF PendingIsUntouched
    <2>2. CASE tasks' = tasks
      BY <1>3, <2>2
    <2>3. CASE \E u \in Task : CreateTask(u)
      BY <1>3, <2>3 DEF CreateTask, IInv, RowsInv, TypeOK
    <2>4. CASE \E u \in Task : tasks[u] # "absent" /\ tasks' = CompletedTask(u)
      BY <1>3, <2>4, PromotionStep DEF IInv, RowsInv
    <2>5. ASSUME NEW u \in Task, NEW status \in TaskStatus \ {"completed"},
                 tasks' = [tasks EXCEPT ![u] = status],
                 status = "ready" => "ready" \in OperatorStatus \/ Touched(u)
          PROVE  FALSE
      BY <1>3, <2>1, <2>5 DEF IInv, RowsInv, TypeOK
    <2> QED BY <1>3, <2>2, <2>3, <2>4, <2>5, TaskEffects
  <1>4. IInv /\ PendingIsUntouched /\ [Next]_vars
            => [\A t \in Task : tasks[t] = "pending" /\ tasks'[t] = "ready" =>
                    \A p \in Deps[t] : tasks'[p] = "completed"]_vars
    BY <1>3
  <1> QED BY <1>1, <1>2, <1>4, Invariance, PTL DEF Spec, PromotedWhenDepsCompleted

\* When all tasks were created before any ran, none of them is absent.
AllCreated == \A t \in Task : tasks[t] # "absent"

LEMMA CreatedInitIInv == CreatedInit => IInv /\ AllCreated /\ NoStrandedTask
  <1> SUFFICES ASSUME CreatedInit PROVE IInv /\ AllCreated /\ NoStrandedTask
    OBVIOUS
  <1>1. \A d \in Dispatch : /\ dispatches[d] = AbsentRow /\ workers[d] = "none"
                            /\ awaiting[d] = "nothing" /\ ~IsRow(d) /\ ~Active(d) /\ ~Settled(d)
    BY DEF CreatedInit, IsRow, Active, Settled, ActiveStatus, SettledStatus, AbsentRow
  <1>2. TypeOK
    BY DEF CreatedInit, TypeOK, AbsentRow, AbsentGate, Row, Awaited, TaskStatus, CountCap
  <1>3. IInv
    BY <1>1, <1>2 DEF IInv, RowsInv, RowsAreInOrder, RowsAreCoherent, SettledIsRevoked,
            SettledWorkerHoldsNoTerminal, ContextOnlyTerminalIsExclusive,
            CompletedFreesItsTerminal, SettledWorker, Uncertain
  <1>4. \A t \in Task : /\ tasks[t] # "absent" /\ tasks[t] # "completed"
                        /\ tasks[t] = "pending" => Deps[t] # {}
    BY DEF CreatedInit
  <1> QED BY <1>3, <1>4, ModelAssumption DEF AllCreated, NoStrandedTask

\* A Task promoteReadyTasks leaves pending waits for one that is not completed.
LEMMA StrandStep ==
    ASSUME TypeOK, NoStrandedTask, NEW u \in Task, tasks' = CompletedTask(u),
           NEW t \in Task, tasks'[t] = "pending"
    PROVE  \E p \in Deps[t] : tasks'[p] # "completed"
  <1> DEFINE done == [tasks EXCEPT ![u] = "completed"]
  <1>1. done \in [Task -> TaskStatus \cup {"absent"}] /\ tasks' = Promote(done, u)
    BY DEF TypeOK, TaskStatus, CompletedTask
  <1>2. done[t] = "pending" /\ t # u /\ tasks[t] = "pending"
    <2>1. t # u /\ tasks[t] = "pending"
      BY CompletedTaskStatus
    <2> QED BY <2>1 DEF TypeOK
  <1>3. \E p \in Deps[t] : done[p] # "completed"
    <2>1. CASE u \in Deps[t]
      BY <1>1, <1>2, <2>1 DEF Promote
    <2>2. CASE u \notin Deps[t]
      BY <1>2, <2>2, ModelAssumption DEF NoStrandedTask, TypeOK
    <2> QED BY <2>1, <2>2
  <1> HIDE DEF done
  <1> QED BY <1>1, <1>3, PromoteMovesPending, ModelAssumption

LEMMA NoStrandedStep ==
    ASSUME "pending" \notin OperatorStatus, IInv, AllCreated, NoStrandedTask, [Next]_vars
    PROVE  AllCreated' /\ NoStrandedTask'
  <1>1. CASE tasks' = tasks
    BY <1>1 DEF AllCreated, NoStrandedTask
  <1>2. CASE \E u \in Task : CreateTask(u)
    BY <1>2 DEF CreateTask, AllCreated
  <1>3. CASE \E u \in Task : tasks[u] # "absent" /\ tasks' = CompletedTask(u)
    <2>1. AllCreated'
      BY <1>3, CompletedTaskStatus DEF AllCreated, IInv, RowsInv
    <2>2. NoStrandedTask'
      BY <1>3, StrandStep DEF NoStrandedTask, IInv, RowsInv
    <2> QED BY <2>1, <2>2
  <1>4. ASSUME NEW u \in Task, NEW status \in TaskStatus \ {"completed"},
               tasks' = [tasks EXCEPT ![u] = status],
               status = "pending" => "pending" \in OperatorStatus
        PROVE  AllCreated' /\ NoStrandedTask'
    <2>1. AllCreated'
      BY <1>4 DEF AllCreated, IInv, RowsInv, TypeOK, TaskStatus
    <2>2. ASSUME NEW t \in Task, tasks'[t] = "pending"
          PROVE  \E p \in Deps[t] : tasks'[p] # "completed"
      <3>1. tasks[t] = "pending"
        BY <1>4, <2>2 DEF IInv, RowsInv, TypeOK
      <3>2. PICK p \in Deps[t] : tasks[p] # "completed"
        BY <3>1 DEF NoStrandedTask
      <3>3. p \in Task
        BY ModelAssumption
      <3> QED BY <1>4, <3>2, <3>3 DEF IInv, RowsInv, TypeOK
    <2> QED BY <2>1, <2>2 DEF NoStrandedTask
  <1> QED BY <1>1, <1>2, <1>3, <1>4, TaskEffects

\* As long as nobody sets a Task to pending by hand, a graph that was created
\* before any of it ran never strands a Task.
THEOREM NoneStranded ==
    ASSUME "pending" \notin OperatorStatus
    PROVE  CreatedSpec => []NoStrandedTask
  <1>1. IInv /\ AllCreated /\ NoStrandedTask /\ [Next]_vars
            => (IInv /\ AllCreated /\ NoStrandedTask)'
    BY NextIInv, NoStrandedStep
  <1> QED BY <1>1, CreatedInitIInv, PTL DEF CreatedSpec

=============================================================================
