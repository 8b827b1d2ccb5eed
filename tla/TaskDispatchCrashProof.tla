----------------------- MODULE TaskDispatchCrashProof -----------------------
(***************************************************************************)
(* Proofs about TaskDispatchCrash: what the tables keep when the process   *)
(* may die between any two statements of a handler that is not one         *)
(* transaction.                                                            *)
(***************************************************************************)
EXTENDS TaskDispatchCrash, TaskDispatchProof

-----------------------------------------------------------------------------
(* What the torn handlers leave behind *)

LEMMA RestartedKeepsTypes ==
    ASSUME TypeOK, Restarted
    PROVE  /\ awaiting' \in [Dispatch -> Awaited]
           /\ sameEpoch' \in SUBSET Dispatch
           /\ \A d \in Dispatch : awaiting'[d] = "nothing"
           /\ workers' = workers
           /\ workers' \in [Dispatch -> OpenWorker \cup SettledWorker \cup {"none"}]
  BY DEF Restarted, TypeOK, Awaited

\* A torn completion or resolution leaves the rows as they were.
LEMMA TornCompletionChanges ==
    ASSUME TypeOK, NEW t \in Task, TornCompletion(t)
    PROVE  TypeOK' /\ NoRowChange
  <1>1. tasks' \in [Task -> TaskStatus \cup {"absent"}]
    BY DEF TornCompletion, TypeOK, TaskStatus
  <1>2. dispatches' = dispatches /\ gates' = gates /\ Restarted
    BY DEF TornCompletion
  <1> QED BY <1>1, <1>2, RestartedKeepsTypes DEF TypeOK, NoRowChange

LEMMA TornResolutionChanges ==
    ASSUME TypeOK, NEW g \in Gate, TornResolution(g)
    PROVE  TypeOK' /\ NoRowChange
  <1>1. tasks' = tasks /\ dispatches' = dispatches /\ Restarted
    BY DEF TornResolution
  <1>2. gates' \in [Gate -> [task : Task \cup {NoTask},
                             status : {"absent", "pending", "resolved"}]]
    BY DEF TornResolution, TypeOK
  <1> QED BY <1>1, <1>2, RestartedKeepsTypes DEF TypeOK, NoRowChange

\* A torn failure settles a row that exists, and keeps its Task and its terminal.
LEMMA TornFailureChanges ==
    ASSUME RowsInv, NEW d \in Dispatch, MayFail(d), TornFailure(d)
    PROVE  TypeOK' /\ RowChange(d)
  <1> DEFINE r == FailureCounted(dispatches[d])
  <1>1. IsRow(d) /\ dispatches[d] \in Row
    BY PresentRow DEF MayFail
  <1>2. /\ r \in Row /\ r.status \in {"failed", "circuit_broken"} /\ r.revoked
        /\ r.task = dispatches[d].task /\ r.handle = dispatches[d].handle
    BY <1>1, FailureCountedIsSettled
  <1>3. /\ dispatches' = [dispatches EXCEPT ![d] = r]
        /\ tasks' = tasks /\ gates' = gates /\ Restarted
    BY DEF TornFailure
  <1> HIDE DEF r
  <1>4. TypeOK'
    BY <1>2, <1>3, RestartedKeepsTypes DEF RowsInv, TypeOK
  <1>5. dispatches'[d] = r /\ \A e \in Dispatch \ {d} : dispatches'[e] = dispatches[e]
    BY <1>3 DEF RowsInv, TypeOK
  <1>6. Settled(d)' /\ ~Active(d)' /\ IsRow(d)'
    BY <1>2, <1>5 DEF Settled, Active, IsRow, ActiveStatus, SettledStatus
  <1>7. workers' = workers /\ \A e \in Dispatch : awaiting'[e] = "nothing"
    BY <1>3, RestartedKeepsTypes DEF RowsInv
  <1> QED BY <1>1, <1>2, <1>4, <1>5, <1>6, <1>7 DEF RowChange

\* A torn dispatch inserts a row that holds a terminal no other row held.
LEMMA TornDispatchChanges ==
    ASSUME RowsInv, NEW d \in Dispatch, NEW t \in Task, NEW h \in Handle, TornDispatch(d, t, h)
    PROVE  TypeOK' /\ InsertChange(d, t)
  <1> PICK n \in 0..CountCap :
          dispatches' = [dispatches EXCEPT ![d] = NewRow(t, h, "dispatched", n, FALSE)]
    BY DEF TornDispatch
  <1>1. /\ IsNextRow(d) /\ TerminalIsFree(h) /\ tasks' = tasks /\ gates' = gates
        /\ Restarted
    BY DEF TornDispatch
  <1>2. NewRow(t, h, "dispatched", n, FALSE) \in Row
    BY NewRowIsRow DEF ActiveStatus
  <1>3. TypeOK'
    BY <1>1, <1>2, RestartedKeepsTypes DEF RowsInv, TypeOK
  <1>4. /\ dispatches'[d] = NewRow(t, h, "dispatched", n, FALSE)
        /\ \A e \in Dispatch \ {d} : dispatches'[e] = dispatches[e]
    BY DEF RowsInv, TypeOK
  <1>5. workers' = workers /\ \A e \in Dispatch : awaiting'[e] = "nothing"
    BY <1>1, RestartedKeepsTypes DEF RowsInv
  <1>6. workers[d] = "none"
    BY <1>1 DEF RowsInv, RowsAreCoherent, IsNextRow
  <1> QED BY <1>1, <1>3, <1>4, <1>5, <1>6 DEF InsertChange, NewRow, Active, ActiveStatus

\* A torn gate completes the active Dispatch of its Task or leaves the rows.
LEMMA TornGateChanges ==
    ASSUME RowsInv, NEW g \in Gate, NEW t \in Task, TornGate(g, t)
    PROVE  TypeOK' /\ (NoRowChange \/ \E d \in Dispatch : RowChange(d))
  <1>1. /\ dispatches' \in {dispatches, ActiveCompleted(t)}
        /\ tasks' = tasks /\ Restarted
    BY DEF TornGate
  <1>2. workers' = workers /\ \A e \in Dispatch : awaiting'[e] = "nothing"
    BY <1>1, RestartedKeepsTypes DEF RowsInv
  <1>3. gates' \in [Gate -> [task : Task \cup {NoTask},
                             status : {"absent", "pending", "resolved"}]]
    BY DEF TornGate, RowsInv, TypeOK
  <1>4. TypeOK'
    BY <1>1, <1>3, RestartedKeepsTypes, ActiveCompletedRows DEF RowsInv, TypeOK
  <1>5. CASE dispatches' = dispatches
    BY <1>2, <1>4, <1>5 DEF NoRowChange
  <1>6. CASE dispatches' = ActiveCompleted(t) /\ \E d \in Dispatch : IsLatestActive(d, t)
    <2> PICK d \in Dispatch : IsLatestActive(d, t)
      BY <1>6
    <2> DEFINE r == Closed(dispatches[d], "completed")
    <2>1. /\ r.status = "completed" /\ r.revoked /\ r.task = dispatches[d].task
          /\ r.handle = dispatches[d].handle
      BY ClosedIsRow DEF RowsInv, TypeOK, SettledStatus
    <2>2. \A e \in Dispatch \ {d} : ~IsLatestActive(e, t)
      BY DEF IsLatestActive, Dispatch
    <2> HIDE DEF r
    <2>3. dispatches'[d] = r /\ \A e \in Dispatch \ {d} : dispatches'[e] = dispatches[e]
      BY <1>6, <2>2, ActiveCompletedRows DEF RowsInv, r
    <2>4. IsRow(d) /\ Settled(d)' /\ ~Active(d)' /\ IsRow(d)'
      BY <2>1, <2>3 DEF IsLatestActive, Active, Settled, IsRow, ActiveStatus, SettledStatus
    <2> QED BY <1>2, <1>4, <2>1, <2>3, <2>4 DEF RowChange
  <1>7. CASE dispatches' = ActiveCompleted(t) /\ ~ \E d \in Dispatch : IsLatestActive(d, t)
    <2>1. dispatches' = dispatches
      BY <1>7, ActiveCompletedRows DEF RowsInv, TypeOK
    <2> QED BY <1>5, <2>1
  <1> QED BY <1>1, <1>5, <1>6, <1>7

-----------------------------------------------------------------------------
(* The invariant of the rows *)

\* Torn or whole, a step inserts a row, changes one row, or leaves the rows alone.
LEMMA CrashStepKinds ==
    ASSUME RowsInv, [CrashNext]_vars
    PROVE  /\ TypeOK'
           /\ \/ NoRowChange
              \/ \E d \in Dispatch : RowChange(d)
              \/ \E d \in Dispatch, t \in Task : InsertChange(d, t)
  <1>1. CASE [Next]_vars
    BY <1>1, NextTypeOK, StepKinds DEF RowsInv, NoRowStep, RowStep, InsertStep
  <1>2. CASE TornNext
    BY <1>2, TornCompletionChanges, TornResolutionChanges, TornFailureChanges,
       TornDispatchChanges, TornGateChanges DEF TornNext, RowsInv
  <1> QED BY <1>1, <1>2 DEF CrashNext

LEMMA CrashRowsInv == RowsInv /\ [CrashNext]_vars => RowsInv'
  BY CrashStepKinds, NoRowChangeKeepsInvariant, RowChangeKeepsInvariant,
     InsertChangeKeepsInvariant

\* The invariant of the rows holds wherever the process dies: it needs none of
\* the transactions that updateTaskStatus, failDispatch, createDispatchContext,
\* createGate and resolveGate do without.
THEOREM CrashInvariance == CrashSpec => []RowsInv
  <1>1. Init => RowsInv
    BY InitIInv, RowsHold
  <1> QED BY <1>1, CrashRowsInv, PTL DEF CrashSpec

\* No handler that dies half way leaves a settled Dispatch with its authority.
THEOREM CrashRevocation == CrashSpec => []SettledIsRevoked
  <1>1. RowsInv => SettledIsRevoked
    BY DEF RowsInv
  <1> QED BY <1>1, CrashInvariance, PTL

\* A row whose Task was never marked still holds the dispatch-lock: no second
\* context-only Dispatch gets its terminal.
THEOREM CrashDispatchLock == CrashSpec => []ContextOnlyTerminalIsExclusive
  <1>1. RowsInv => ContextOnlyTerminalIsExclusive
    BY DEF RowsInv
  <1> QED BY <1>1, CrashInvariance, PTL

\* A worker in a final state holds no terminal, whatever was torn around it.
THEOREM CrashSettledWorkers == CrashSpec => []SettledWorkerHoldsNoTerminal
  <1>1. RowsInv => SettledWorkerHoldsNoTerminal
    BY DEF RowsInv
  <1> QED BY <1>1, CrashInvariance, PTL

\* A handler that resumes, is repeated or dies never makes a settled Dispatch
\* active again.
THEOREM CrashSettlement == CrashSpec => SettledStaysSettled
  <1>1. ASSUME RowsInv, [CrashNext]_vars, NEW d \in Dispatch, Settled(d)
        PROVE  Settled(d)'
    <2>1. CASE NoRowChange
      BY <1>1, <2>1 DEF NoRowChange, Settled
    <2>2. ASSUME NEW e \in Dispatch, RowChange(e)
          PROVE  Settled(d)'
      <3>1. TypeOK'
        BY <1>1, CrashStepKinds
      <3>2. CASE d = e
        <4>1. IsRow(d)' /\ ~Active(d)'
          BY <1>1, <2>2, <3>2, RowIsActiveOrSettled DEF RowChange, RowsInv
        <4> QED BY <3>1, <4>1 DEF TypeOK, Row, IsRow, Active, Settled, ActiveStatus, SettledStatus
      <3>3. CASE d # e
        BY <1>1, <2>2, <3>3 DEF RowChange, Settled
      <3> QED BY <3>2, <3>3
    <2>3. ASSUME NEW e \in Dispatch, NEW t \in Task, InsertChange(e, t)
          PROVE  Settled(d)'
      <3>1. d # e
        BY <1>1, <2>3 DEF InsertChange, IsNextRow, IsRow, Settled, SettledStatus
      <3> QED BY <1>1, <2>3, <3>1 DEF InsertChange, Settled
    <2> QED BY <1>1, <2>1, <2>2, <2>3, CrashStepKinds
  <1>2. RowsInv /\ [CrashNext]_vars => [\A d \in Dispatch : Settled(d) => Settled(d)']_vars
    BY <1>1
  <1> QED BY <1>2, CrashInvariance, PTL DEF CrashSpec, SettledStaysSettled

=============================================================================
