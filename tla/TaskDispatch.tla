---------------------------- MODULE TaskDispatch ----------------------------
(***************************************************************************)
(* The Task / Dispatch / Worker / Gate tables of the orchestration         *)
(* database (src/main/runtime/orchestration/db.ts) and every handler of    *)
(* the home runtime that changes them, for local workers and for those on  *)
(* another server.                                                         *)
(*                                                                         *)
(* The runtime is one JavaScript thread: a handler runs to completion      *)
(* between two awaits, so one action is the code from an await to the next *)
(* one.  `awaiting' records, per Dispatch, the handler that is suspended   *)
(* in this process and will resume on the rows it wrote; a restart of the  *)
(* process forgets it, and keeps every row.                                *)
(*                                                                         *)
(* dispatch_contexts rows are numbered by rowid: Dispatch d + 1 is the row *)
(* inserted after Dispatch d.                                              *)
(***************************************************************************)
EXTENDS Naturals

CONSTANTS
    Task,            \* task ids
    NoTask,          \* the task of an absent row
    Deps,            \* Deps[t]: the tasks t is created to wait for
    MaxDispatch,     \* bound: how many Dispatches are ever created
    Remote,          \* the Dispatches whose worker is on another server
    Handle,          \* terminal handles
    NoHandle,        \* a Dispatch whose terminal is not attached yet
    PaneOf,          \* PaneOf[h]: the pane a handle names, two handles of one
                     \* pane being the same terminal before and after a remint
    Gate,            \* bound: decision gates that are ever created
    OperatorStatus   \* the statuses `task-update --status' is used with

Dispatch == 1..MaxDispatch

TaskStatus == {"pending", "ready", "dispatched", "completed", "failed", "blocked"}
ActiveStatus == {"pending", "dispatched"}
SettledStatus == {"completed", "failed", "circuit_broken"}
SettledWorker == {"failed", "succeeded", "stopped", "abandoned"}
OpenWorker == {"starting", "ready", "start_unknown", "stopping", "stop_unknown"}

\* failDispatch breaks the circuit from the third failure on; every count from
\* there on behaves alike, so CountCap is where the model stops counting.
BreakAt == 3
CountCap == 3

ASSUME ModelAssumption ==
    /\ MaxDispatch \in Nat
    /\ Remote \subseteq Dispatch
    /\ NoTask \notin Task
    /\ NoHandle \notin Handle
    /\ Deps \in [Task -> SUBSET Task]
    /\ OperatorStatus \subseteq TaskStatus

VARIABLES
    tasks,       \* tasks.status, "absent" before taskCreate
    dispatches,  \* dispatch_contexts rows
    workers,     \* worker_dispatches.state, "none" for a context-only Dispatch
    gates,       \* decision_gates rows
    awaiting,    \* the handler suspended on a Dispatch in this process
    sameEpoch    \* Dispatches whose worker row carries this runtime's epoch

vars == <<tasks, dispatches, workers, gates, awaiting, sameEpoch>>

Row == [task : Task \cup {NoTask},
        handle : Handle \cup {NoHandle},
        status : ActiveStatus \cup SettledStatus \cup {"absent"},
        failures : 0..CountCap,   \* failure_count
        minted : BOOLEAN,         \* capability_hash is set
        revoked : BOOLEAN]        \* capability_revoked_at is set

AbsentRow == [task |-> NoTask, handle |-> NoHandle, status |-> "absent",
              failures |-> 0, minted |-> FALSE, revoked |-> FALSE]

AbsentGate == [task |-> NoTask, status |-> "absent"]

\* What a suspended handler is waiting for: the prompt of a plain dispatch, the
\* worker's terminal, the worker's prompt, the terminal a worker-stop closes.  A
\* remote worker's server is asked for terminal and prompt in one call.
Awaited == {"nothing", "prompt", "terminal", "input", "close"}

TypeOK ==
    /\ tasks \in [Task -> TaskStatus \cup {"absent"}]
    /\ dispatches \in [Dispatch -> Row]
    /\ workers \in [Dispatch -> OpenWorker \cup SettledWorker \cup {"none"}]
    /\ gates \in [Gate -> [task : Task \cup {NoTask},
                           status : {"absent", "pending", "resolved"}]]
    /\ awaiting \in [Dispatch -> Awaited]
    /\ sameEpoch \in SUBSET Dispatch

Init ==
    /\ tasks = [t \in Task |-> "absent"]
    /\ dispatches = [d \in Dispatch |-> AbsentRow]
    /\ workers = [d \in Dispatch |-> "none"]
    /\ gates = [g \in Gate |-> AbsentGate]
    /\ awaiting = [d \in Dispatch |-> "nothing"]
    /\ sameEpoch = {}

-----------------------------------------------------------------------------
(* Reading the tables *)

IsRow(d) == dispatches[d].status # "absent"
Active(d) == dispatches[d].status \in ActiveStatus
Settled(d) == dispatches[d].status \in SettledStatus

\* getDispatchContext: the Task's row with the highest rowid.
IsLatest(d, t) ==
    /\ dispatches[d].task = t
    /\ \A e \in Dispatch : dispatches[e].task = t => e <= d

IsLatestActive(d, t) ==
    /\ dispatches[d].task = t /\ Active(d)
    /\ \A e \in Dispatch : dispatches[e].task = t /\ Active(e) => e <= d

\* The rowid the next INSERT into dispatch_contexts takes.
IsNextRow(d) ==
    /\ ~IsRow(d)
    /\ \A e \in Dispatch : e < d => IsRow(e)

\* Mutant: a lock on the handle alone, which a reminted handle walks past.
HandleIsFree(h) ==
    \A d \in Dispatch : Active(d) => dispatches[d].handle # h

\* findActiveDispatchForAssignee found nothing: neither the handle nor an
\* equivalent pane is held by an active row.
TerminalIsFree(h) ==
    \A d \in Dispatch : Active(d) /\ dispatches[d].handle # NoHandle =>
        PaneOf[dispatches[d].handle] # PaneOf[h]

\* SELECT MAX(failure_count) over the Task's rows, 0 when there are none.
IsPriorFailures(n, t) ==
    /\ \A d \in Dispatch : dispatches[d].task = t => dispatches[d].failures <= n
    /\ n = 0 \/ \E d \in Dispatch : dispatches[d].task = t /\ dispatches[d].failures = n

-----------------------------------------------------------------------------
(* Row updates shared by the operations *)

\* Mutant: one completed dependency is enough.
PromoteOnFirst(status, t) ==
    [c \in Task |-> IF status[c] = "pending" /\ t \in Deps[c]
                    THEN "ready" ELSE status[c]]

\* promoteReadyTasks(t), run on the statuses in which t is already completed.
Promote(status, t) ==
    [c \in Task |->
        IF /\ status[c] = "pending"
           /\ t \in Deps[c]
           /\ \A p \in Deps[c] : status[p] = "completed"
        THEN "ready" ELSE status[c]]

\* Mutant: the dependents are promoted before the Task's own status is written.
PromotedThenCompleted(t) == [Promote(tasks, t) EXCEPT ![t] = "completed"]

\* updateTaskStatus(t, "completed"), and the same order in settleWorkerReport.
CompletedTask(t) == Promote([tasks EXCEPT ![t] = "completed"], t)

Moved(r, status) == [r EXCEPT !.status = status]
Revoked(r) == [r EXCEPT !.revoked = TRUE]
Closed(r, status) == [r EXCEPT !.status = status, !.revoked = TRUE]
Attached(r, h) == [r EXCEPT !.handle = h, !.minted = TRUE, !.revoked = FALSE]

\* Mutant: a row whose worker is still starting is forgotten.
DispatchedCompleted(t) ==
    [d \in Dispatch |-> IF IsLatestActive(d, t) /\ dispatches[d].status = "dispatched"
                        THEN Closed(dispatches[d], "completed") ELSE dispatches[d]]

\* completeActiveDispatchForTask(t)
ActiveCompleted(t) ==
    [d \in Dispatch |-> IF IsLatestActive(d, t)
                        THEN Closed(dispatches[d], "completed") ELSE dispatches[d]]

FailureCounted(r) ==
    LET n == IF r.failures < CountCap THEN r.failures + 1 ELSE CountCap
    IN  [r EXCEPT !.failures = n, !.revoked = TRUE,
                  !.status = IF n >= BreakAt THEN "circuit_broken" ELSE "failed"]

RetryStatus(r) == IF r.status = "circuit_broken" THEN "failed" ELSE "ready"

\* failDispatch(d): whatever the row's status is, and whichever row is current.
FailDispatch(d) ==
    /\ dispatches' = [dispatches EXCEPT ![d] = FailureCounted(@)]
    /\ tasks' = [tasks EXCEPT ![dispatches[d].task] = RetryStatus(dispatches'[d])]

-----------------------------------------------------------------------------
(* Tasks *)

\* taskCreate: a Task with dependencies starts pending, whatever their status.
CreateTask(t) ==
    /\ tasks[t] = "absent"
    /\ \A p \in Deps[t] : tasks[p] # "absent"
    /\ tasks' = [tasks EXCEPT ![t] = IF Deps[t] = {} THEN "ready" ELSE "pending"]
    /\ UNCHANGED <<dispatches, workers, gates, awaiting, sameEpoch>>

\* taskUpdate: the operator sets any status; `completed' promotes and frees.
TaskUpdate(t, status) ==
    /\ tasks[t] # "absent"
    /\ IF status = "completed"
       THEN tasks' = CompletedTask(t) /\ dispatches' = ActiveCompleted(t)
       ELSE tasks' = [tasks EXCEPT ![t] = status] /\ UNCHANGED dispatches
    /\ UNCHANGED <<workers, gates, awaiting, sameEpoch>>

-----------------------------------------------------------------------------
(* Context-only dispatch: orchestration.dispatch, and the coordinator's own. *)

NewRow(t, h, status, n, mint) ==
    [task |-> t, handle |-> h, status |-> status, failures |-> n,
     minted |-> mint, revoked |-> FALSE]

\* createDispatchContext, then mintDispatchCapability when the RPC injects the
\* prompt itself.  `send' suspends the handler on sendTerminalAgentPrompt; the
\* coordinator sends without minting, a dispatch without --inject does neither.
CreateDispatchContext(d, t, h, mint, send) ==
    /\ d \notin Remote
    /\ tasks[t] = "ready"
    /\ TerminalIsFree(h)
    /\ IsNextRow(d)
    /\ mint => send
    /\ \E n \in 0..CountCap :
        /\ IsPriorFailures(n, t)
        /\ dispatches' = [dispatches EXCEPT ![d] = NewRow(t, h, "dispatched", n, mint)]
    /\ tasks' = [tasks EXCEPT ![t] = "dispatched"]
    /\ awaiting' = [awaiting EXCEPT ![d] = IF send THEN "prompt" ELSE "nothing"]
    /\ UNCHANGED <<workers, gates, sameEpoch>>

PromptAccepted(d) ==
    /\ awaiting[d] = "prompt"
    /\ awaiting' = [awaiting EXCEPT ![d] = "nothing"]
    /\ UNCHANGED <<tasks, dispatches, workers, gates, sameEpoch>>

\* The send threw: failDispatch runs on the row as it is by now.
PromptFailed(d) ==
    /\ awaiting[d] = "prompt"
    /\ FailDispatch(d)
    /\ awaiting' = [awaiting EXCEPT ![d] = "nothing"]
    /\ UNCHANGED <<workers, gates, sameEpoch>>

-----------------------------------------------------------------------------
(* Supervised workers: orchestration.workerStart and what it awaits. *)

\* createStartingWorkerDispatch: a pending row without a terminal, a failure
\* count of its own, and a starting worker.
StartWorker(d, t) ==
    /\ IsNextRow(d)
    /\ dispatches' = [dispatches EXCEPT ![d] = NewRow(t, NoHandle, "pending", 0, FALSE)]
    /\ workers' = [workers EXCEPT ![d] = "starting"]
    /\ tasks' = [tasks EXCEPT ![t] = "dispatched"]
    /\ awaiting' = [awaiting EXCEPT ![d] = "terminal"]
    /\ sameEpoch' = sameEpoch \cup {d}
    /\ UNCHANGED gates

WorkerStart(d, t) ==
    /\ tasks[t] = "ready"
    /\ StartWorker(d, t)

\* worker-start --retry-of prior
WorkerRetry(d, t, prior) ==
    /\ IsLatest(prior, t)
    /\ workers[prior] \in {"failed", "stopped", "abandoned"}
    /\ tasks[t] \in {"failed", "blocked"}
    /\ StartWorker(d, t)

\* The guard the two resumptions below re-read after their await.
IsStarting(d) == dispatches[d].status = "pending" /\ workers[d] = "starting"

\* The terminal is up: prepareStartingWorkerAuthority attaches it, any terminal
\* the operator named included, and the handler goes on to send the prompt.
PrepareStartingWorkerAuthority(d, h) ==
    /\ d \notin Remote
    /\ awaiting[d] = "terminal"
    /\ IsStarting(d)
    /\ dispatches' = [dispatches EXCEPT ![d] = Attached(@, h)]
    /\ awaiting' = [awaiting EXCEPT ![d] = "input"]
    /\ UNCHANGED <<tasks, workers, gates, sameEpoch>>

\* Mutant: the row's status is not read again after the await.
MarkReadyWithoutRereading(d) ==
    /\ awaiting[d] = IF d \in Remote THEN "terminal" ELSE "input"
    /\ workers[d] = "starting"
    /\ dispatches' = [dispatches EXCEPT ![d] = Moved(@, "dispatched")]
    /\ workers' = [workers EXCEPT ![d] = "ready"]
    /\ awaiting' = [awaiting EXCEPT ![d] = "nothing"]
    /\ UNCHANGED <<tasks, gates, sameEpoch>>

\* The prompt was accepted, here or on the worker's server:
\* markWorkerDispatchReady.  A remote row has no terminal and no capability of ours.
MarkWorkerDispatchReady(d) ==
    /\ awaiting[d] = IF d \in Remote THEN "terminal" ELSE "input"
    /\ IsStarting(d)
    /\ dispatches' = [dispatches EXCEPT ![d] = Moved(@, "dispatched")]
    /\ workers' = [workers EXCEPT ![d] = "ready"]
    /\ awaiting' = [awaiting EXCEPT ![d] = "nothing"]
    /\ UNCHANGED <<tasks, gates, sameEpoch>>

\* The handler caught an error (a failed await, or one of the guards above):
\* failWorkerStart, on the worker's state alone.
FailWorkerStart(d) ==
    /\ awaiting[d] \in {"terminal", "input"}
    /\ workers[d] = "starting"
    /\ dispatches' = [dispatches EXCEPT ![d] = Closed(@, "failed")]
    /\ workers' = [workers EXCEPT ![d] = "failed"]
    /\ tasks' = [tasks EXCEPT ![dispatches[d].task] = "failed"]
    /\ awaiting' = [awaiting EXCEPT ![d] = "nothing"]
    /\ UNCHANGED <<gates, sameEpoch>>

\* Mutant: the unknown worker keeps its authority.
StartUnknownKeepingAuthority(d) ==
    /\ workers[d] = "starting"
    /\ workers' = [workers EXCEPT ![d] = "start_unknown"]
    /\ tasks' = [tasks EXCEPT ![dispatches[d].task] = "blocked"]
    /\ UNCHANGED dispatches

\* markWorkerStartUnknown: the row stays active, without authority.
StartUnknown(d) ==
    /\ workers[d] = "starting"
    /\ workers' = [workers EXCEPT ![d] = "start_unknown"]
    /\ dispatches' = [dispatches EXCEPT ![d] = Revoked(@)]
    /\ tasks' = [tasks EXCEPT ![dispatches[d].task] = "blocked"]

WorkerStartUnknown(d) ==
    /\ awaiting[d] = "terminal"
    /\ StartUnknown(d)
    /\ awaiting' = [awaiting EXCEPT ![d] = "nothing"]
    /\ UNCHANGED <<gates, sameEpoch>>

\* The handler's error found the worker no longer starting and was rethrown.
WorkerStartRejected(d) ==
    /\ awaiting[d] \in {"terminal", "input"}
    /\ workers[d] # "starting"
    /\ awaiting' = [awaiting EXCEPT ![d] = "nothing"]
    /\ UNCHANGED <<tasks, dispatches, workers, gates, sameEpoch>>

-----------------------------------------------------------------------------
(* worker_done *)

\* orchestration.send checks the capability of a row that has one.
HasLifecycleAuthority(d) == dispatches[d].minted => ~dispatches[d].revoked

\* settleWorkerReport, for a report it accepts and has not seen before; every
\* other report is turned into a rejection and changes none of these tables.
SettleWorkerReport(d, outcome) ==
    /\ HasLifecycleAuthority(d)
    /\ dispatches[d].status = "dispatched"
    /\ IsLatest(d, dispatches[d].task)
    /\ tasks[dispatches[d].task] = "dispatched"
    /\ dispatches' = [dispatches EXCEPT ![d] =
                        Closed(@, IF outcome = "succeeded" THEN "completed" ELSE "failed")]
    /\ tasks' = IF outcome = "succeeded" THEN CompletedTask(dispatches[d].task)
                ELSE [tasks EXCEPT ![dispatches[d].task] = "failed"]
    /\ workers' = IF workers[d] = "ready" THEN [workers EXCEPT ![d] = outcome] ELSE workers
    /\ UNCHANGED <<gates, awaiting, sameEpoch>>

-----------------------------------------------------------------------------
(* worker-stop and worker-abandon *)

\* Mutant: the Task keeps waiting for the attempt that was released.
ReleaseRowOnly(d) ==
    /\ IsRow(d) /\ workers[d] = "none" /\ Active(d)
    /\ dispatches' = [dispatches EXCEPT ![d] = Closed(@, "failed")]
    /\ UNCHANGED <<tasks, workers, gates, awaiting, sameEpoch>>

\* releaseContextOnlyDispatch: only the current assignment gives its Task back.
ReleaseContextOnlyDispatch(d) ==
    /\ IsRow(d) /\ workers[d] = "none" /\ Active(d)
    /\ dispatches' = [dispatches EXCEPT ![d] = Closed(@, "failed")]
    /\ tasks' = IF IsLatest(d, dispatches[d].task)
                THEN [tasks EXCEPT ![dispatches[d].task] = "blocked"] ELSE tasks
    /\ UNCHANGED <<workers, gates, awaiting, sameEpoch>>

\* The two ways beginWorkerStop's handler goes on: with no recorded terminal the
\* outcome is unknown at once; otherwise it inspects the terminal and closes it, or
\* asks the worker's server to.
StopRequested(d) ==
    \/ /\ d \notin Remote /\ dispatches[d].handle = NoHandle
       /\ workers' = [workers EXCEPT ![d] = "stop_unknown"]
       /\ UNCHANGED awaiting
    \/ /\ workers' = [workers EXCEPT ![d] = "stopping"]
       /\ awaiting' = [awaiting EXCEPT ![d] = "close"]

\* Mutant: the stop does not take the worker's authority away.
StopKeepingAuthority(d) ==
    /\ workers[d] \in {"ready", "start_unknown"}
    /\ StopRequested(d)
    /\ tasks' = [tasks EXCEPT ![dispatches[d].task] = "blocked"]
    /\ UNCHANGED <<dispatches, gates, sameEpoch>>

\* beginWorkerStop of a supervised worker, whichever row is current.
BeginWorkerStop(d) ==
    /\ workers[d] \in {"ready", "start_unknown"}
    /\ StopRequested(d)
    /\ dispatches' = [dispatches EXCEPT ![d] = Revoked(@)]
    /\ tasks' = [tasks EXCEPT ![dispatches[d].task] = "blocked"]
    /\ UNCHANGED <<gates, sameEpoch>>

\* Mutant: the worker is stopped, its dispatch row is left as it was.
StopWorkerOnly(d) ==
    /\ awaiting[d] = "close" /\ dispatches[d].handle # NoHandle
    /\ workers[d] = "stopping"
    /\ workers' = [workers EXCEPT ![d] = "stopped"]
    /\ awaiting' = [awaiting EXCEPT ![d] = "nothing"]
    /\ UNCHANGED <<tasks, dispatches, gates, sameEpoch>>

\* The terminal was closed: settleWorkerStop.
SettleWorkerStop(d) ==
    /\ awaiting[d] = "close" /\ dispatches[d].handle # NoHandle
    /\ workers[d] = "stopping"
    /\ workers' = [workers EXCEPT ![d] = "stopped"]
    /\ dispatches' = IF Active(d) THEN [dispatches EXCEPT ![d] = Moved(@, "failed")]
                     ELSE dispatches
    /\ awaiting' = [awaiting EXCEPT ![d] = "nothing"]
    /\ UNCHANGED <<tasks, gates, sameEpoch>>

\* reconcileFederatedWorkerStop: worker-show, or the stop's own call, has learnt that
\* the worker's server stopped it.  (A start suspended on the same row by now can
\* only be rejected, and is forgotten by BeginWorkerStop.)
ReconcileFederatedWorkerStop(d) ==
    /\ d \in Remote
    /\ workers[d] \in {"stopping", "stop_unknown"}
    /\ workers' = [workers EXCEPT ![d] = "stopped"]
    /\ dispatches' = IF Active(d) THEN [dispatches EXCEPT ![d] = Moved(@, "failed")]
                     ELSE dispatches
    /\ awaiting' \in {awaiting, [awaiting EXCEPT ![d] = "nothing"]}
    /\ UNCHANGED <<tasks, gates, sameEpoch>>

\* resumeFederatedWorkerForTerminalRelay: the worker's server answers the stop that
\* the worker has succeeded or failed; its report is expected by relay.
ResumeFederatedWorker(d) ==
    /\ d \in Remote
    /\ awaiting[d] = "close" /\ workers[d] = "stopping"
    /\ workers' = [workers EXCEPT ![d] = "ready"]
    /\ tasks' = [tasks EXCEPT ![dispatches[d].task] = IF @ = "blocked" THEN "dispatched" ELSE @]
    /\ awaiting' = [awaiting EXCEPT ![d] = "nothing"]
    /\ UNCHANGED <<dispatches, gates, sameEpoch>>

\* The terminal is not exactly the worker's, closing it failed, or settling
\* found the worker no longer stopping: markWorkerStopUnknown.
MarkWorkerStopUnknown(d) ==
    /\ awaiting[d] = "close"
    /\ workers' = IF workers[d] = "stopping"
                  THEN [workers EXCEPT ![d] = "stop_unknown"] ELSE workers
    /\ awaiting' = [awaiting EXCEPT ![d] = "nothing"]
    /\ UNCHANGED <<tasks, dispatches, gates, sameEpoch>>

\* abandonWorkerDispatch of the current attempt, from every state but succeeded.
AbandonWorkerDispatch(d) ==
    /\ workers[d] \in (OpenWorker \cup SettledWorker) \ {"abandoned", "succeeded"}
    /\ IsLatest(d, dispatches[d].task)
    /\ workers' = [workers EXCEPT ![d] = "abandoned"]
    /\ dispatches' = [dispatches EXCEPT ![d] =
                        Closed(@, IF Active(d) THEN "failed" ELSE @.status)]
    /\ tasks' = [tasks EXCEPT ![dispatches[d].task] = "blocked"]
    /\ UNCHANGED <<gates, awaiting, sameEpoch>>

-----------------------------------------------------------------------------
(* The runtime's own observations *)

\* failActiveDispatchOnExit: the row is looked up by the exited handle.
PtyExit(d) ==
    /\ Active(d) /\ dispatches[d].handle # NoHandle
    /\ FailDispatch(d)
    /\ UNCHANGED <<workers, gates, awaiting, sameEpoch>>

\* Coordinator.handleEscalation(t), after which an unchanged failed status is
\* written once more.
HandleEscalation(d) ==
    /\ IsRow(d) /\ IsLatest(d, dispatches[d].task)
    /\ tasks[dispatches[d].task] \notin {"completed", "failed"}
    /\ FailDispatch(d)
    /\ UNCHANGED <<workers, gates, awaiting, sameEpoch>>

\* reconcileMissingWorkerTerminal: recovery found the terminal gone, of a row
\* that was active when it was listed and may be settled by now.
ReconcileMissingWorkerTerminal(d) ==
    /\ workers[d] \in OpenWorker /\ dispatches[d].handle # NoHandle
    /\ LET stopPending == workers[d] \in {"stopping", "stop_unknown"}
           t == dispatches[d].task
       IN  /\ dispatches' = IF Active(d)
                            THEN [dispatches EXCEPT ![d] = FailureCounted(@)]
                            ELSE dispatches
           /\ tasks' = IF Active(d) /\ ~stopPending /\ tasks[t] \in {"dispatched", "blocked"}
                       THEN [tasks EXCEPT ![t] = RetryStatus(dispatches'[d])] ELSE tasks
           /\ workers' = [workers EXCEPT ![d] = IF stopPending THEN "stopped"
                                                ELSE "abandoned"]
    /\ UNCHANGED <<gates, awaiting, sameEpoch>>

\* workerShow of a worker another epoch of the runtime left starting or stopping.
ShowInterruptedWorker(d) ==
    /\ d \notin sameEpoch \cup Remote
    /\ \/ StartUnknown(d)
       \/ /\ workers[d] = "stopping"
          /\ workers' = [workers EXCEPT ![d] = "stop_unknown"]
          /\ UNCHANGED <<tasks, dispatches>>
    /\ UNCHANGED <<gates, awaiting, sameEpoch>>

\* The two outcomes reconcileFederatedWorkerStart writes: the worker runs, or it does
\* not (`failed', `stopped').
FederatedWorkerRuns(d) ==
    /\ workers' = [workers EXCEPT ![d] = "ready"]
    /\ dispatches' = IF dispatches[d].status = "pending"
                     THEN [dispatches EXCEPT ![d] = Moved(@, "dispatched")] ELSE dispatches
    /\ tasks' = [tasks EXCEPT ![dispatches[d].task] = IF @ = "blocked" THEN "dispatched" ELSE @]

FederatedWorkerEnded(d, state) ==
    /\ workers' = [workers EXCEPT ![d] = state]
    /\ dispatches' = IF Active(d) THEN [dispatches EXCEPT ![d] = Closed(@, "failed")]
                     ELSE dispatches
    /\ tasks' = [tasks EXCEPT ![dispatches[d].task] =
                    IF @ \in {"blocked", "dispatched"} THEN "failed" ELSE @]

\* workerShow of a remote worker whose start has no outcome here yet: its server
\* knows one.  Neither the row's status nor the latest Dispatch is looked at.
ReconcileFederatedWorkerStart(d) ==
    /\ d \in Remote
    /\ workers[d] \in {"starting", "start_unknown"}
    /\ \/ FederatedWorkerRuns(d)
       \/ \E state \in {"failed", "stopped"} : FederatedWorkerEnded(d, state)
    /\ UNCHANGED <<gates, awaiting, sameEpoch>>

\* The process dies and comes back: suspended handlers are gone, rows are not.
Restart ==
    /\ awaiting' = [d \in Dispatch |-> "nothing"]
    /\ sameEpoch' = {}
    /\ UNCHANGED <<tasks, dispatches, workers, gates>>

-----------------------------------------------------------------------------
(* Decision gates *)

\* createGate, by gateCreate or a decision_gate message, whatever the Task does.
CreateGate(g, t) ==
    /\ gates[g].status = "absent"
    /\ tasks[t] # "absent"
    /\ gates' = [gates EXCEPT ![g] = [task |-> t, status |-> "pending"]]
    /\ dispatches' = ActiveCompleted(t)
    /\ tasks' = [tasks EXCEPT ![t] = "blocked"]
    /\ UNCHANGED <<workers, awaiting, sameEpoch>>

\* resolveGate, of a gate in any status and a Task in any status.
ResolveGate(g) ==
    /\ gates[g].status # "absent"
    /\ gates' = [gates EXCEPT ![g].status = "resolved"]
    /\ tasks' = [tasks EXCEPT ![gates[g].task] = "ready"]
    /\ UNCHANGED <<dispatches, workers, awaiting, sameEpoch>>

\* Coordinator.processDecisionGates puts a Task with a pending gate back.
ReblockGatedTask(g) ==
    /\ gates[g].status = "pending"
    /\ tasks[gates[g].task] # "blocked"
    /\ tasks' = [tasks EXCEPT ![gates[g].task] = "blocked"]
    /\ UNCHANGED <<dispatches, workers, gates, awaiting, sameEpoch>>

-----------------------------------------------------------------------------

TaskNext ==
    \E t \in Task :
        \/ CreateTask(t)
        \/ \E status \in OperatorStatus : TaskUpdate(t, status)
        \/ \E d \in Dispatch, h \in Handle, mint, send \in BOOLEAN :
                CreateDispatchContext(d, t, h, mint, send)
        \/ \E d \in Dispatch : WorkerStart(d, t)
        \/ \E d, prior \in Dispatch : WorkerRetry(d, t, prior)
        \/ \E g \in Gate : CreateGate(g, t)

DispatchNext ==
    \E d \in Dispatch :
        \/ PromptAccepted(d)
        \/ PromptFailed(d)
        \/ \E h \in Handle : PrepareStartingWorkerAuthority(d, h)
        \/ MarkWorkerDispatchReady(d)
        \/ FailWorkerStart(d)
        \/ WorkerStartUnknown(d)
        \/ WorkerStartRejected(d)
        \/ \E outcome \in {"succeeded", "failed"} : SettleWorkerReport(d, outcome)
        \/ ReleaseContextOnlyDispatch(d)
        \/ BeginWorkerStop(d)
        \/ SettleWorkerStop(d)
        \/ MarkWorkerStopUnknown(d)
        \/ ReconcileFederatedWorkerStop(d)
        \/ ResumeFederatedWorker(d)
        \/ ReconcileFederatedWorkerStart(d)
        \/ AbandonWorkerDispatch(d)
        \/ PtyExit(d)
        \/ HandleEscalation(d)
        \/ ReconcileMissingWorkerTerminal(d)
        \/ ShowInterruptedWorker(d)

GateNext == \E g \in Gate : ResolveGate(g) \/ ReblockGatedTask(g)

Next == TaskNext \/ DispatchNext \/ GateNext \/ Restart

Spec == Init /\ [][Next]_vars

\* All the tasks of the graph were created before any of them ran.
CreatedInit ==
    /\ tasks = [t \in Task |-> IF Deps[t] = {} THEN "ready" ELSE "pending"]
    /\ dispatches = [d \in Dispatch |-> AbsentRow]
    /\ workers = [d \in Dispatch |-> "none"]
    /\ gates = [g \in Gate |-> AbsentGate]
    /\ awaiting = [d \in Dispatch |-> "nothing"]
    /\ sameEpoch = {}

CreatedSpec == CreatedInit /\ [][Next]_vars

-----------------------------------------------------------------------------
(* Safety *)

\* An attempt that can still settle its Task.
IsLive(d) ==
    /\ Active(d) /\ ~dispatches[d].revoked
    /\ workers[d] \in {"none", "starting", "ready"}

\* A dispatched Task always has a current attempt that can still settle it:
\* its latest Dispatch is active, its authority is not revoked, and no stop or
\* unknown start is pending on it.  A Task without one would stay dispatched
\* for ever, since every report about it is rejected.  (Without remote workers: the
\* reconciliation of their starts dispatches a Task whoever it belongs to.)
DispatchedHasLiveOwner ==
    \A t \in Task : tasks[t] = "dispatched" =>
        \E d \in Dispatch : IsLatest(d, t) /\ IsLive(d)

\* The capability of a settled Dispatch is revoked, whichever of the ten ways of
\* settling it was taken: a late worker_done or heartbeat has no authority left.
SettledIsRevoked ==
    \A d \in Dispatch : Settled(d) => dispatches[d].revoked

\* A worker that reached a final state holds no terminal: the retry that final
\* state permits never runs beside the attempt it replaces.
SettledWorkerHoldsNoTerminal ==
    \A d \in Dispatch : workers[d] \in SettledWorker => Settled(d)

\* Two active context-only Dispatches never share a terminal, however its
\* handle was reminted in between (createDispatchContext's dispatch-lock).
ContextOnlyTerminalIsExclusive ==
    \A d, e \in Dispatch :
        /\ d # e /\ Active(d) /\ Active(e)
        /\ workers[d] = "none" /\ workers[e] = "none"
        => PaneOf[dispatches[d].handle] # PaneOf[dispatches[e].handle]

\* Completing a Task, by report or by hand, frees the terminal of its current
\* attempt, and nothing gives that attempt its terminal back.
CompletedFreesItsTerminal ==
    \A t \in Task, d \in Dispatch :
        tasks[t] = "completed" /\ IsLatest(d, t) => ~Active(d)

\* A pending Task has something left to wait for.  "promoteReadyTasks only runs
\* when a dep completes", so a Task that waits for nothing any more is stranded:
\* "a completed task never leaves its ready children unpromoted".
NoStrandedTask ==
    \A t \in Task : tasks[t] = "pending" =>
        \E p \in Deps[t] : tasks[p] # "completed"

\* A settled Dispatch is never made active again, by a handler that resumes
\* after its await on a row settled meanwhile or by any other step.
SettledStaysSettled ==
    [][\A d \in Dispatch : Settled(d) => Settled(d)']_vars

\* A Task leaves pending for ready only when all it depends on is completed.
PromotedWhenDepsCompleted ==
    [][\A t \in Task : tasks[t] = "pending" /\ tasks'[t] = "ready" =>
            \A p \in Deps[t] : tasks'[p] = "completed"]_vars

-----------------------------------------------------------------------------
(* The inductive invariant: what the properties above need to know of a row. *)

\* Rows are inserted in the order of their rowids.
RowsAreInOrder ==
    \A d, e \in Dispatch : e < d /\ IsRow(d) => IsRow(e)

\* A worker whose start or stop has no known outcome.
Uncertain == {"start_unknown", "stopping", "stop_unknown"}

\* Nothing refers to a row that was not inserted; a context-only row has its
\* terminal from the start; no authority survives an uncertain worker.
RowsAreCoherent ==
    \A d \in Dispatch :
        /\ ~IsRow(d) => /\ dispatches[d] = AbsentRow
                        /\ workers[d] = "none" /\ awaiting[d] = "nothing"
        /\ IsRow(d) => dispatches[d].task \in Task
        /\ IsRow(d) /\ workers[d] = "none" => dispatches[d].handle # NoHandle
        /\ workers[d] \in Uncertain => dispatches[d].revoked

\* A Task that never left pending has neither Dispatches nor gates.
Touched(t) ==
    \/ \E d \in Dispatch : dispatches[d].task = t
    \/ \E g \in Gate : gates[g].task = t

PendingIsUntouched ==
    \A t \in Task : tasks[t] \in {"absent", "pending"} => ~Touched(t)

\* Of the rows alone: it survives a process that dies inside a handler.
RowsInv ==
    /\ TypeOK
    /\ RowsAreInOrder
    /\ RowsAreCoherent
    /\ SettledIsRevoked
    /\ SettledWorkerHoldsNoTerminal
    /\ ContextOnlyTerminalIsExclusive

IInv == RowsInv /\ CompletedFreesItsTerminal

=============================================================================
