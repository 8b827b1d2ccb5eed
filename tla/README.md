# Verification of the orchestration runtime

The repository is a desktop application that runs command-line coding agents in
terminals and lets them work for each other: an agent (or a person) creates
*tasks*, a coordinator *dispatches* them to terminals or starts *supervised
workers*, and the agents report back through a command-line client that calls the
runtime over RPC. All of that state lives in one SQLite database
(`src/src/main/runtime/orchestration/db.ts`) that survives restarts, and is
changed by handlers of one JavaScript thread that `await` terminals, prompts and
other machines in the middle of their work. The hard part is what a handler finds
when it resumes, and what a restart leaves. Beside the orchestration runtime the
project models the delivery of a terminal's output over the SSH relay, where
callbacks call each other within one stack and connections come and go.

Line references below are to files under `src/`; `db.ts`, `federation-sync.ts`
and so on are those of `src/src/main/runtime/orchestration/`, and files named
`relay-pty-source-*.ts` and `pty-source-*.ts` those of `src/src/relay/`.

## Inventory

| Component | State | Operations | Interacts with |
|---|---|---|---|
| Tasks, dispatches, workers, gates (`db.ts`) | `tasks`, `dispatch_contexts`, `worker_dispatches`, `decision_gates` | createTask, updateTaskStatus, createDispatchContext, failDispatch, worker start / stop / abandon of local and remote workers, worker report, gates | RPC handlers call it; terminals' exits reach it through `failActiveDispatchOnExit` |
| Runs, messages, deliveries (`db.ts`) | `runs.consumer_generation`, `messages`, `deliveries` | bindRun, getOrCreateRunDelivery, acknowledgeRunDelivery, insertMessage | `orchestration.check` waits on it; binding fences the previous consumer |
| Questions (`db.ts`, `rpc/methods/orchestration.ts`) | `question_threads`, waiting asks in memory | ask, ask --resume, reply, closeQuestionsForDispatch | closed by most ways of settling a Dispatch; answers of a remote worker are queued for the relay |
| Mutation receipts (`db.ts`, `orchestration-mutation-executor.ts`) | `mutation_receipts`, calls in flight | begin, complete, replay, discard | wraps every mutating RPC that carries a request ID |
| Federation relay (`federation-sync.ts`, `orchestration-federation-relay.ts`) | `remote_dispatch_attachments`, `federation_relay_items`, `federated_dispatches` on two machines; checkpoints in memory | enqueue, pull, import, acknowledge, deliver mail, remote stop | carries the reports and questions of a worker on another server, and its mail |
| Terminal source credit (`src/src/relay`) | output queue, delivery record with its ledger, pending exits | output, flush, send, settle, credit, detach, recover, publish the exit | the writers and connections of the dispatcher; the desktop client |
| Dispatcher and writers (`src/src/relay/dispatcher*.ts`) | lanes and budgets of a connection | admit, drain, settle, dispose | seen by the source credit as *accepted*, *refused* and *capacity* |
| Coordinator (`coordinator.ts`) | its poll loop | processMessages, processDecisionGates, dispatchReadyTasks | retired: `orchestration.run` is refused by `rpc/orchestration-contract-fence.ts:20` |
| Worker terminal release (`worker-terminal-*.ts`) | `worker_terminal_resources`, `worker_terminal_archives` | own, adopt, release, archive | worker start and stop, recovery after a restart |
| Terminal daemon (`src/src/main/daemon`) | sessions, stream batches | attach, write, batch | the main process |
| Everything else | | | listed in `PROJECT.json`, `components`, with the reason it is left out |

What makes these hard:

* **Interleaving.** Between two awaits a handler is atomic, across them it is
  not. `worker-start` awaits a terminal and then a prompt; `worker-stop` awaits
  an inspection and a close, or a call to another server; `ask` awaits an answer;
  a pass of the relay awaits two or three calls. The row each of them resumes on
  may have been settled, stopped, abandoned or superseded.
* **Several owners of one fact.** Whether an attempt is alive is in three rows:
  the task's status, the Dispatch's status and revocation, the worker's state;
  for a remote worker also in the attachment on its own server.
* **Crashes.** Some handlers are one SQLite transaction, others are a sequence
  of autocommitted statements. A restart also forgets every suspended handler,
  every waiter and every checkpoint.
* **Lost, late and repeated calls.** Reports, exits, escalations and operator
  commands arrive for attempts that are no longer current; a call between servers
  may be served after its caller gave up, and is repeated.
* **Re-entrance.** In the SSH relay a refused frame reports capacity, which tries
  the exit, which sends frames, all before the first call returns.

The properties that make the system correct: a settled attempt has no authority
and never comes back; a dispatched task has an attempt that can settle it; a
finished worker or a completed task holds no terminal; one terminal has one
context-only Dispatch; a task waits for its dependencies and for nothing else. A
run's mailbox is one queue whoever reads it: nothing is consumed that was not
shown, nothing is acknowledged twice, a hand-over leaves neither a delivery nor a
waiter of the previous consumer in the way, and nobody waits beside mail. A relay
row is imported once, in order, and dropped only after that; the two servers never
settle a Dispatch differently. A request asks one question, an answer is final, a
replayed receipt is true. The owner of a terminal sees its output without loss or
repetition, nothing it may ask for again is reclaimed, the exit comes once and
last, and credit never runs dry.

## Modules

| Module | What it is |
|---|---|
| `TaskDispatch` | The four tables and every handler of the home server that changes them |
| `TaskDispatchCrash` | The same with a process that dies inside a handler |
| `MCTaskDispatch`, `MCTaskDispatchCrash` | Finite instances: graphs and panes |
| `TaskDispatchProof`, `TaskDispatchCrashProof` | Theorems about `TaskDispatch` and `TaskDispatchCrash` for all constants |
| `Mailbox` | What a run's mailbox promises its coordinator (abstract) |
| `RunMailbox` | Runs, messages, deliveries, the checks that read them and the hand-overs |
| `MCRunMailbox` | Finite instances: panes, workers and filters |
| `RunMailboxProof` | Theorems about `RunMailbox`, the refinement of `Mailbox` included |
| `RelayChannel` | What one direction of the relay promises (abstract) |
| `FederationRelay` | One federated Dispatch on two servers: both directions of its relay, its settlement and its stop, with lost and late calls and restarts |
| `MCFederationRelay` | Its instances |
| `FederationRelayProof` | Theorems about `FederationRelay`, the refinement of `RelayChannel` included |
| `MutationReceipts` | The receipts of request IDs, instantiated by `Questions` |
| `Questions` | ask, reply and the end of a Dispatch over the receipts, with restarts |
| `MCQuestions` | Its instance |
| `QuestionsProof` | Theorems about `Questions` |
| `TerminalStream` | What the delivery of a terminal promises its owner (abstract) |
| `PtySource` | One terminal of the SSH relay and the client that owns it |
| `PtySourceInvariant`, `PtySourceRelayProof`, `PtySourceProof` | Its inductive invariant; what each operator of the relay keeps of it; the steps and the theorems, the refinement of `TerminalStream` included |

The parts meet in three places. A `worker_done` is accepted or rejected by the
tables of `TaskDispatch` and stored by `RunMailbox`; `RunMailbox` therefore leaves
the verdict open (`Send` with `rejected`, or `WorkerDone`) and keeps of those tables
only whether a dispatch is `finished`. `FederationRelay` keeps of them the one row
of its Dispatch (`home`), with the ways of settling it that involve both servers: the
worker's report, `worker-stop`, and `worker-show` after a stop. An operator who
completes the task, a gate and `worker-abandon`, which the home decides alone, are in
`TaskDispatch` only. `Questions` keeps only whether its Dispatch is active,
settled or failed, and takes its receipts from `MutationReceipts`; `FederationRelay`
has the same receipts as two sets, `done` and `pending`, since its request IDs are
a method and a sequence number.

### TaskDispatch

`tasks`, `dispatches`, `workers` and `gates` are the four tables, reduced to the
columns that decide anything: the statuses, the assignee handle, `failure_count`,
whether a capability was minted and whether it was revoked. A Dispatch is
numbered by its rowid, because `getDispatchContext` orders by it. `Remote` are the
Dispatches whose worker is on another server. `awaiting[d]` is the handler suspended on Dispatch `d` in this process (none survives
`Restart`), `sameEpoch` the Dispatches whose worker row carries the current
`runtime_epoch`. `PaneOf` maps a handle to its pane: two handles of one pane are
the terminal before and after a remint.

One action is the code from one await to the next:

| Action | Code |
|---|---|
| `CreateTask`, `TaskUpdate` | `createTask`, `orchestration.taskUpdate` with `updateTaskStatus`, `promoteReadyTasks`, `completeActiveDispatchForTask` |
| `CreateDispatchContext`, `PromptAccepted`, `PromptFailed` | `createDispatchContext` and `mintDispatchCapability` up to the awaited send; its two outcomes, `failDispatch` on the second |
| `WorkerStart`, `WorkerRetry` | `createStartingWorkerDispatch` without and with `retryOf` |
| `PrepareStartingWorkerAuthority`, `MarkWorkerDispatchReady`, `FailWorkerStart`, `WorkerStartUnknown`, `WorkerStartRejected` | the resumptions of `orchestration.workerStart` and of `startFederatedWorker`, and their catch |
| `SettleWorkerReport` | `orchestration.send` of a `worker_done` that is accepted |
| `BeginWorkerStop`, `SettleWorkerStop`, `MarkWorkerStopUnknown`, `ReleaseContextOnlyDispatch`, `AbandonWorkerDispatch` | `worker-stop` and `worker-abandon` |
| `ReconcileFederatedWorkerStart`, `ReconcileFederatedWorkerStop`, `ResumeFederatedWorker` | what `worker-show` and `worker-stop` learn of a remote worker (`reconcileFederatedWorkerStart`, `reconcileFederatedWorkerStop`, `resumeFederatedWorkerForTerminalRelay`) |
| `PtyExit`, `ReconcileMissingWorkerTerminal`, `ShowInterruptedWorker`, `HandleEscalation` | what the runtime and the coordinator observe by themselves |
| `CreateGate`, `ResolveGate`, `ReblockGatedTask` | decision gates |
| `Restart` | the process dies between two handlers |

`HandleEscalation` and `ReblockGatedTask` are steps of the coordinator. Its loop is
retired, but its steps are kept: they only add behaviours to what is checked and
proved.

Guards that the code does not have are not in the model: `resolveGate` acts on
a gate in any status, `failDispatch` on a row in any status, `beginWorkerStop`
and `failWorkerStart` on a row that is not the latest.

Abstracted: texts, results, timestamps, worktrees and their setup, who is
notified; several runs (a Dispatch belongs to the run of its task, and no
operation relates two runs); heartbeats, which write no modelled column. A
rejected call is a step that does not exist. A terminal may exit or be found
missing at any moment. What the worker's server does with a remote worker is in
`FederationRelay`; here its answers are open: a start or a stop may turn out either
way at any time.

### TaskDispatchCrash

`updateTaskStatus`, `failDispatch`, `createDispatchContext`, `createGate` and
`resolveGate` are not transactions. Each `Torn...` action is a prefix of the
statements of one of them, followed by the restart. The other handlers are
transactions and need no such action.

### RunMailbox and Mailbox

`runs` holds the bound handle and `consumer_generation` of each run, `messages` the
mail addressed to `run:<id>` by `messages.sequence`, `read` the messages with
`read = 1`, `deliveries` the batches handed out. `finished` are the dispatches that
are no longer `dispatched`. In memory are `checks`, the `orchestration.check --wait`
calls suspended in `waitForMessage`, and `received`, the deliveries whose reply
reached some terminal: a terminal can acknowledge only those.

| Action | Code |
|---|---|
| `CreateRun`, `UseRun` | `createRun`, `bindRun` with `unbindOtherRunsForPane` and `fenceOutstandingDelivery`, and the `cancelMessageWaiters` of `run-create` and `run-use` |
| `Send`, `LateHeartbeat`, `WorkerDone` | `orchestration.send` to a run: `insertMessage`, `reconcileLifecycleMessage` with its rejection, suppression and settlement, `notifyMessageArrived` |
| `Import`, `ImportAgain` | `importFederatedRelayItem` and the notification of `syncFederatedDispatch`, for a new item and for one whose acknowledgement was lost |
| `Settle` | whatever else ends a dispatch |
| `Reply` | `orchestration.reply` to a message that is not a question |
| `CheckAnswers`, `CheckAcks`, `CheckWaits` | `orchestration.check` up to its answer or its wait: `acknowledgeRunDelivery`, then `getOrCreateRunDelivery` |
| `TimesOut` | the waiter's timer or abort listener |
| `WokenIsFenced`, `WokenAnswers`, `WokenFindsNothing` | the rest of the check after `notified` |
| `Restart` | the process dies: waiters are gone, rows stay |

A delivery goes to the terminal that asked (`MayReceive`) or is lost with its
connection; acknowledgements come at any time, repeatedly, and from any handle of
the pane that holds the run. A refused call changes nothing and is no step. The
type filter of a check is a set of types, all of them when there is none.

`Mailbox` keeps three sets for each run: `posted`, `queue` (still to be consumed)
and `shown`. It knows neither deliveries nor consumers. `Fetch(b, S, T)` consumes
the oldest mail `S`, all of which was shown, and shows `T`, which skips nothing
older that is still in the queue. `RunMailbox` implements it with `queue` as the
unread mail and `shown` as the mail of the received deliveries.

Abstracted: subjects, bodies and threads; the capability check and the other
reasons to reject a report, which have the same effect on the mailbox; the push of
mail to an idle terminal, which sets `delivered_at` and nothing that a check reads.

### FederationRelay and RelayChannel

On the worker's server `relay` are the `federation_relay_items` to home, `acked` how
many of them are acknowledged (rows are acknowledged by prefix), `att` the state of
the attachment, `mail` and `mailCursor` the coordinator's mail, `done` and `pending`
the mutation receipts. On the home server `imported` is the cursor, `inbox` the
imported rows, `home` the worker's row, `queued` and `outAcked` the mail to the
worker. `checkpoint`, the acknowledgement checkpoint, `timer`, whether the Dispatch has
its relay timer, `sync`, the running pass, and `stop`, the running `worker-stop`, are
memory of the home: `RestartHome` loses them. `late` are calls whose caller has given up
but that may still arrive.

| Action | Code |
|---|---|
| `Send` | `enqueueFederationRelay`: a new row, or at the limit a report that takes over a heartbeat's row |
| `Tick`, `TimerStops` | the tick of the relay's timer (`orca-runtime.ts:4742`): a pass, or the end of the timer when the worker may not report any more |
| `CheckOrShow` | `orchestration.check` and the first half of `worker-show`: `EnsureRelay`, that is `ensureOrchestrationFederationRelay` |
| `ShowSettled`, `ShowStopped` | the second half of `worker-show`, by what the worker's server answers |
| `ServePull`, `ReceivePull`, `Import`, `ImportFails`, `EndImport` | `syncFederatedDispatch` and `importFederatedRelayItem`, one transaction a row |
| `Acknowledge`, `DeliverMail`, `ServeLate` | `acknowledgeFederationRelay` with its settlements, the delivery of control mail, each under its receipt; a call served after its caller gave up |
| `SendMail` | `orchestration.send` to the worker, or `orchestration.reply`: `enqueueFederationRelay`, then `EnsureRelay` |
| `StopWorker`, `ServeStop`, `CloseTerminal`, `ReceiveStop`, `StopFails` | `worker-stop` over two servers |
| `Timeout`, `RestartHome`, `RestartWorker`, `TornCall` | a lost or slow reply, restarts, a crash between the statements of one call |

From the arrival of the pulled rows to the next call the home runs without a pause:
the other steps of the home are disabled meanwhile (`Running`), a crash is not. The
request ID of an acknowledgement names its last sequence only, so a repetition with
other verdicts is another call under the same ID, which the ledger refuses.

The timer is set by `worker-start`, `check`, `send`, `reply` and `worker-show`, and by
nothing at startup. A start whose outcome `worker-show` learns leaves none either, since
its tick finds the worker `start_unknown` and ends; so `Init` has a `timer` or has not.
For a worker whose stop is unknown a call sets a timer whose first tick takes it back,
which `EnsureRelay` shows as no change.

`RelayChannel` is a channel of numbered messages that accepts, and delivers the next
ones in order. Mail to the worker implements it step by step. Rows to home do not,
because a report may take over a row (see `TakenOverRow`); `InOrder` and
`AckedIsImported` say what remains true.

Abstracted: what rows say beyond their kind; the quota in bytes, which `Limit` stands
for; questions in the relay (they are rows like a status; `Questions` models what
their import does).

### Questions and MutationReceipts

`questions` is `question_threads` in order of creation, `receipts` the
`mutation_receipts` by request ID, `queued` the answers in the relay, `asking` and
`woken` the suspended asks and their resolved waiters. `federated` is drawn once: a
local worker asks through `ask`, a remote one's questions are imported.

| Action | Code |
|---|---|
| `AskNew`, `AskResume` | `orchestration.ask`: the question in one transaction, its acceptance recorded, then the wait |
| `AskWakes`, `AskEnds` | the rest of the handler after its waiter resolved, timed out or was cut |
| `ImportQuestion` | `importFederatedRelayItem` of a question |
| `ReplyTo`, `ReplyRefused` | `orchestration.reply` with `answerQuestion`, and for a remote worker the second transaction, which may hit the quota |
| `Settle`, `StopWorker`, `FailDispatch` | the three kinds of end: questions closed silently, closed with a notification, left open |
| `Restart` | the process dies, between two handlers or inside an ask or a reply |

A call repeated with a request ID that has a receipt, or is in flight, changes
nothing: it is joined, replayed or refused, and is no step. That it changes nothing is
what `Fresh` stands for, and what `OneQuestionPerRequest` depends on.

### PtySource and TerminalStream

`pty` is the program, `relay` everything the relay remembers of its terminal: the
output `queue` and its flush `timer`, the delivery `record` with its ledger
(received, sent, credited, the retained units `held`, span ends, frame boundaries, the
frame in flight, an early ACK), the pending `exit`, the owner's connection, and the
frames on the `wire`. `client` is the desktop's side: its mode, the delivery it
follows, the units it shows, its checkpoint, the ACKs it owes, and during a recovery
the `buffer` of the units and frame ends it keeps back until the notice of completion.
Output is counted in units, numbered as written.

| Action | Code |
|---|---|
| `PtyOutput`, `FlushPendingOutput`, `PtyExit` | `pty-handler.ts`: onData, the flush timer, onExit |
| `WriteSettled`, `CompletionSettled`, `ExitSettled`, `ReplySettled` | the settlement callbacks of the four kinds of frame |
| `AckData`, `LegacyCapacity` | a cumulative credit; a writer that drained |
| `Connect`, `Disconnect`, `GraceExpiry`, `Attach` | the connection of the owner, `pty.attach` with its three answers |
| `Receive`, `AbandonRecovery` | the client takes a frame; a recovery times out |

Callbacks are synchronous, so a step composes `Pump`, `OnCapacity`,
`PublishPendingExit`, `SealAndPublishExit`, `OnCredit` and so on over the whole record,
in the order of the calls. Whether a writer accepts is one choice for a step (`Room`):
nothing drains while the thread runs. Steps with a refusal are bounded by
`MaxRefusals`. The endless recursion of a refused frame with the exit pending ends, in
the code, with a stack overflow that is caught as a publication fault; `Pump` gives
that outcome at once.

`TerminalStream` knows the program, what its owner sees of the output, and whether the
owner was told that this was all. `See` shows more of it, never less, and nothing once
it was told. `PtySource` implements it with `shown` as what the client shows and
`ended` as an exit frame sent by the delivery; the broadcast exit is not one, because
it does end a stream early (see `ExitFollowsData`).

Abstracted: the legacy subscribers are one that is always connected, of which only the
exits are counted; sizes are one unit each, and a frame is at most two. Left out: the
fence `rotationPending` (`relay-pty-source-send-scheduler.ts:84`), which keeps a record
from taking output and from pumping while an attach waits, for at most 5 s, for the
frame in flight; and the notice `pty.deliveryCanceled`, by which a client that is
recovering learns of the end or the replacement of the delivery it follows.

## What is checked

| Run | Question | Bounds |
|---|---|---|
| `TaskDispatchAttempts` | Settled is revoked; settled stays settled | 1 task, 3 attempts, one of them remote, 1 terminal |
| `TaskDispatchGates` | A dispatched task has a live owner; finished workers and completed tasks hold no terminal; one context-only Dispatch per pane | 1 task, 2 local attempts, 2 handles of one pane, 1 gate, an operator who writes every status but `dispatched` |
| `TaskDispatchGraph` | Promotion: never too early, never forgotten; the inductive invariant, types included | a join of 3 tasks, a local and a remote attempt, an operator who completes by hand |
| `TaskDispatchTorn` | Revocation and lock across crashes inside handlers | 1 task, 2 attempts, 2 handles of one pane, 1 gate |
| `RunMailboxHandover` | One run per pane, no stale delivery, no double acknowledgement, no orphan waiter; the queue of `Mailbox`; the inductive invariant, types included | 2 runs, 2 generations each, 3 handles of 2 panes, 2 messages, 3 deliveries of one message, 1 waiting check, a federated worker |
| `RunMailboxWaits` | Nobody waits beside mail, no heartbeat after its report, every wait ends | 1 run, 2 generations, 2 panes, 2 messages, 3 deliveries of one message, 2 waiting checks with or without a filter, a local worker |
| `FederationRelay` | Rows in order and once, dropped only when imported, a sound checkpoint, one verdict on two servers | a relay of 2 rows, 3 sends of a heartbeat or either outcome, a stop, 2 faults |
| `FederationMail` | Mail is the channel of `RelayChannel`; both directions get through | a relay of 2 rows, 2 sends, 2 messages to the worker, 1 fault |
| `Questions` | One question per request, true receipts, final verdicts, an answer ends the wait | 3 asks, 2 replies, 2 answers, 2 questions, 1 crash, local and federated |
| `PtySource` | The stream is exact, nothing is reclaimed early, the exit comes once, `TerminalStream` is implemented, whatever can be sent is sent, exits are retired, a live owner catches up | 5 units in chunks of one or two, a window of 2, retention of 4, 3 connections, 1 refusal |

Why these bounds are enough. A handler of `TaskDispatch` reads and writes one Dispatch
and compares it with the latest and with the latest active one of the same task, so
three attempts give an older, a middle and a current one (the count of failures needs
three as well). `CountCap` stops counting at the breaking count, beyond which all
counts behave alike. Promotion reads one task's dependencies: two make the
difference between *some* and *all*. Locking compares two rows and their panes.
In a mailbox two messages with deliveries of one make *the batch* different from
*the queue*, two runs make *displaced* different from *taken*, and two generations
an old consumer different from the new one; a delivery that is not outstanding was
acknowledged or fenced, so three deliveries leave room for two of either and one
outstanding. In the relay two rows make a prefix different from the whole, three sends
a full relay with a report at its limit, and two faults a call that is lost and its
late arrival across a restart. Two questions and three asks make the asker of a
question different from another that waits beside it; two answers contradict each
other. In `PtySource` a window of two has a frame in flight beside a credited one,
the retention is two windows as in the code, five units outgrow it, and three
connections give a delivery, its recovery, and the recovery of that. The theorems
below remove the bounds for every property but those listed as only model-checked.

`taskUpdate` may also write `dispatched`. A task that is dispatched by hand has no
attempt, so `DispatchedHasLiveOwner` is checked (and proved) without it; and it is
checked and proved for local workers, because a remote start refutes it (below).

The system may really stop in `FederationRelay`, `Questions` and `PtySource`: faults,
sends, questions, units and connections are bounded, and nobody is obliged to act.
Their runs do not check deadlock. In the others `Restart` is always enabled.

**Fairness.** `RunMailboxWaits`: `TimesOut`, because `waitForMessage` sets a timer for
every waiter, and `Continue`, because a resolved promise is continued; mail is not
obliged to arrive. `FederationMail`: `Tick`, because a timer that is set fires every
second; the steps of a pass, and the answers of calls on a working connection. A restart
of the home takes the timer, and with it what `Tick` is owed: only `check`, `send`,
`reply` or `worker-show` sets it again, and nobody is obliged to call them. A late call
need not arrive, nobody need send or stop, and faults are finitely many. `Questions`:
only `AskWakes`, a resolved promise; the timers are left out so that an answer has to
end the wait by itself. `PtySource`: what has begun ends (frames arrive, writes settle,
shown frames are acknowledged, the timers of the grace and of a recovery run out), the
flush timer fires, and a drained writer reports. Nothing in the tables of `TaskDispatch`
is obliged to happen: a worker may never report. The liveness properties name what
defeats them: `Relayed` and `MailDelivered` except the three ways in which the relay is
`Stuck`, and a timer that is never set again (`NobodyAsks`; without this alternative TLC
refutes both), `PendingExitRetired` and `LiveCatchesUp` except a refused frame left
behind (`Stalled`).

### Where the code and its documentation disagree

Two runs state what the repository says and end in a counterexample:

* `TakenOverRow`. At the limit `enqueueFederationRelay` gives a `worker_done` the row
  of a heartbeat (`db.ts:4985`) that may have been pulled or imported already. Rows are
  acknowledged by number, so the acknowledgement of the heartbeat drops the report:
  the home never sees it. `rpc/methods/orchestration-federation.test.ts:542` promises
  convergence *without loss or duplication*. Bounds: a relay of one row, two sends.
* `ExitFollowsData`. A data frame refused while the exit is pending ends, through
  `onCapacity`, in a recursion that exhausts the stack
  (`relay-pty-source-send-scheduler.ts:246`); the fault cancels the delivery and
  broadcasts the exit, so a live owner loses the output before it.
  `relay-pty-source-publication.test.ts:620`: *publishes exit only after preceding
  source data settles*. Bounds: two units, one connection, one refusal.

Others were met while modelling and have no run of their own. Tasks and dispatches:

* The third consecutive failure is said to fail the task (`orchestration.md:176`);
  every `worker-start` begins again from zero failures.
* `db.ts:6307` promises no second concurrent dispatch on a pane; `worker-start
  --terminal` takes no lock.
* Completing a task is said to free its active Dispatch (`db.test.ts:255`); after a late
  failure a task can have two, and one is freed.
* Promotion is said to be in the transaction of the status (`db.ts:3928`); there is no
  transaction, and a crash strands the dependents.
* A `stopped` attempt is said to be replaceable with `--retry-of`
  (`src/skill-guides/orchestration.md:267`); the terminal's exit during the stop makes
  the task `ready`, and the retry is refused.
* `db.ts:6709` avoids a `pending` task that nothing will promote; `createTask`
  (`db.ts:3785`) makes one when the dependencies are completed already.
* `reconcileFederatedWorkerStart` (`db.ts:4394`) looks at the worker's state only: a
  task that a gate has blocked, or whose later attempt was stopped, becomes
  `dispatched` although no attempt of it can be settled.
* A start that failed on the worker's server and is `start_unknown` at home, when
  stopped, becomes `ready` with a report expected (`db.ts:5558`) that never comes;
  only `worker-abandon` ends it. And a `worker-show` during a start makes the worker
  `ready`, whereupon the start itself fails with `dispatch_inactive`.

Mail, relay and questions:

* `syncFederatedDispatch` notifies again for a row imported before, and wakes a waiter
  to the empty result that `rpc/methods/orchestration.ts:647` avoids.
* Nothing marks the heartbeats of a remote worker as read when its report is imported,
  though `db.ts:3549` says that superseded messages must not be consumed.
  `SupersededIsRead` excepts them.
* An acknowledgement repeated after a restart or a lost reply carries no settlements
  any more and is refused as another request, until a new row moves the cursor
  (`federation-sync.test.ts:107`); mail waits meanwhile. A receipt that a crash left
  pending has the same effect. Both are `Stuck`.
* A restart of the home, or a start that `worker-show` reconciles, leaves the relay
  without its timer. What either side has queued then waits until the coordinator
  checks, shows, sends or answers; `rpc/methods/orchestration-federation.test.ts:623`
  shows the first step of it.
* Once the home has settled, its timer stops. If the acknowledgement was lost, the
  attachment stays `ready`: `worker-show` starts a pass only for an attachment that
  knows it is settled, and `worker-stop` answers `already_settled`.
* Two reports with equal outcomes in one batch are two settlements, and their
  acknowledgement is always refused.
* `failDispatch` leaves the questions of its Dispatch open
  (`orchestration-mutation-question-db.test.ts:139`: *closes pending questions with
  their Dispatch*), and a settling report wakes none of the asks it closes.
* An answer is committed before it is queued for the worker's server, and stays
  unqueued after a refusal until the same answer is repeated.

Terminal output:

* With the record full and nothing in flight a refused frame is retried by no capacity
  event (`relay-pty-source-send-scheduler.ts:268`): `Stalled`.
* A pump to a lost connection overwrites the end of the frame that was rolled back
  (`pty-source-credit-ledger.ts:161`), so that a checkpoint the owner has reached is
  refused and its screen restored.
* A recovery longer than one window never completes, since a client acknowledges
  nothing before its end; its timeout abandons it.
* Output kept for a detached owner is never delivered once the program has exited: an
  attach answers that the terminal is not found.

## What is proved

`TaskDispatchProof` holds for any set of tasks, dependencies, handles, panes and
gates, any number of attempts, local or remote, and any statuses the operator writes,
from `ModelAssumption` alone:

* `TypeCorrectness`, `Invariance` (`IInv`), and from it `Revocation`,
  `SettledWorkers`, `DispatchLock`, `CompletionFrees` and `Settlement`;
* `LiveOwner`, if the operator never writes `dispatched` and no worker is remote;
* `Promotion`, if the operator never writes `pending` or `ready`;
* `NoneStranded`, for a graph created before any of it runs, if the operator
  never writes `pending`.

The four invariants are not inductive alone. *Settled is revoked* needs to know
that a stop or start of unknown outcome was already revoked, since settling it
does not revoke again; the lock needs that a context-only row always has a
terminal, and that absent rows are blank; the current attempt being the latest
needs that rows are inserted in order. `RowsAreInOrder` and `RowsAreCoherent` say
that. `RowsInv` is their conjunction with the types and the invariants about rows;
`IInv` adds `CompletedFreesItsTerminal`, the one that a torn handler breaks.
The argument has one idea: but for inserts, every step changes at most one row
that exists, and changes it in one of a few ways. `StepKinds` reduces the actions
to *no row changes* (`NoRowStep`), *one row changes* (`RowStep`) and *a row is
inserted* (`InsertStep`); `RowsInv` is shown for the three changes of rows alone
(`NoRowChange`, `RowChange`, `InsertChange`), the rest of `IInv` for the steps.
`TaskEffects` does the same for what a step does to the statuses of tasks.

`TaskDispatchCrashProof` reuses that: a torn handler is a prefix of one change of rows
followed by a restart, so it is a `NoRowChange`, a `RowChange` or an `InsertChange`
whatever it leaves undone in other tables. `CrashInvariance` is `RowsInv`, and from it
`CrashRevocation`, `CrashDispatchLock`, `CrashSettledWorkers` and `CrashSettlement`
follow for a process that may die between any two statements. What needs two tables to
agree (`DispatchedHasLiveOwner`, `NoStrandedTask`, `CompletedFreesItsTerminal`) is not
claimed: a crash can break it.

`RunMailboxProof` holds for any number of runs, hand-overs, messages, deliveries and
checks, any batch limit, any handles, panes, workers and filters, from
`MailboxAssumption` alone:

* `MailboxTypeCorrectness`, `MailboxInvariance` (`IInv`), `OneRun`, `NeverWedged`,
  `ConsumedOnce`, `NoOrphanWaiter`, `NoLostWakeup` and `NoStaleHeartbeat`, each from `IInv`;
* `Implementation`: `Spec` implements `Mailbox`.

`NeverWedged` justifies a simplification of the model: the branch of
`getOrCreateRunDelivery` that refuses an outstanding delivery of another generation
is left out, and is never reached. The heart of the invariant is `Ledger(dl, rd)`,
what a table of deliveries and a set of read messages are together. It is a
predicate of two values and not of two variables because a check changes both
twice: `AckLedger` shows that an acknowledgement leaves a ledger, `DeliverLedger`
that reading does, and a check is one after the other. `Disjoint` (an acknowledged
delivery shares nothing with a live one) is not inductive alone: a new batch avoids
the acknowledged ones because those are read (`AcknowledgedIsRead`), and it is the
only outstanding one (`OneOutstanding`). `BatchIsOldest`, which rests on
`FirstOfIsOldest`, is what the refinement needs: an acknowledgement consumes from the
front. `StoresStep` treats the four handlers that store mail as one.

`FederationRelayProof` holds for any kinds of message, any limit and window, and any
number of messages, calls and faults, from `RelayAssumption` alone:

* `RelayTypeCorrectness`, `RelayKeepsOrder`, `RelayDropsOnlyImported`,
  `CheckpointSoundness`, `ServersAgree` and `MailSafety`, each from `IInv`;
* `MailRefinement`: mail to the worker implements `RelayChannel`.

What is hard is that knowledge travels: rows in a pass, verdicts in a call in flight,
cursors in a receipt. `IInv` says of each place what it may know. `RowsOK` says that
whatever is pulled or imported is the relay's row of that number, but for a heartbeat
that a report took over, and that a message has one number; `PassOK` that a pass is never ahead of the home's cursor, and
its call never ahead of what is imported; `CallsOK` the same for late calls, with
their verdicts those of the home, which is final once it is an outcome; `DoneOK` that
what a receipt records has happened; `StopOK` where a stop may be when the attachment
is stopping or stopped. Most steps are of one kind, `Quiet`: the
worker's cursors make progress and everything else follows what is known already.
`QuietStep` shows `IInv` for them once; `AckIsProgress` and `StoreIsProgress` show that
a call, repeated or torn, is progress. `Send`, `Import` and the steps of a stop are
shown one by one.

`QuestionsProof` holds for any request IDs and answers and any number of questions and
crashes, from `QuestionAssumption` alone: `AskOnce`, `AskIsReceipted` (what a request
created is covered by its receipt, also after its handler threw), `ReplayTellsTruth` and
`VerdictStays`. `IInv` adds that answered questions have an answer, that receipts name
questions and answers that exist, that every waiting ask has recorded its acceptance
(`WaitsOK`, which makes `Discard` harmless). A *Sound* step changes questions only by
adding an unanswered one or giving an open one its verdict, and `SoundStep` shows that
receipts and queued answers stay true under it.

`PtySourceProof` holds for any amount of output, any window and retention and any
number of connections and refusals, from `PtyAssumption` alone:

* `PtyInvariance` (`IInv`), and from it `PtyTypeCorrect`, `PtyStreamIsExact`,
  `PtyNothingReclaimedEarly`, `PtyExitOnce` and `PtySendsWhatItCan`;
* `PtyImplementsStream`: `Spec` implements `TerminalStream`.

None of them is inductive alone: the client rejects a frame that does not go on where it
is, so the stream is exact only if what is on the wire fits what the client has, what
the record will send next fits what is on the wire, and the queue fits the record. `IInv`
says that, place by place. `Follows(w, c, k, at)` is what the client waits for: the
delivery it follows, or the one an answer under way announces, from position `at`.
`ChainOK` says that the frames of that delivery follow each other from there, `FollowOK`
that they lead to where the record goes on and that nothing after `at` was given up,
`RecoverOK`, `CompleteOK` and `SourceOK` that the notice and the exit come behind all
they close. `AnswerOK` says of an answer that its client is still asking and that no
frame of its delivery overtakes it, and of a replay that it starts no earlier than what
is shown, which is why the view never shrinks. `RecordOK` and `KeepOK` tie credit to the
client's checkpoint, `ExitOK` the exit to its three states in record, terminal and wire,
and `Waits` needs a refusal, which is `SendsWhatItCan`.

A step of the relay composes operators on its record, each the body of a callback, so
`Good` is a predicate of any record, client and program and not of variables.
`PtySourceRelayProof` shows of each operator (`Pump`, `OnCapacity`, `OnCredit`, `Cancel`,
`MaybeClose`, `Publish` and so on) that it keeps `Good`, and of its callers that they do
by citing it; `Carries(r, q, room)` is what a caller may rely on besides: the queue
stays, the delivery stays or is gone, and a frame that waits afterwards waited before
unless the writers refused. `PtySourceProof` has a lemma for each step. Three ideas carry
most of them: `GoesOn`, that the relay resumes the delivery, after whatever changed its
record, without leaving a frame behind; `IdleGood`, that of a client which follows no
delivery hardly anything need be known; and `GoesAhead` with `Moves`, for a frame that
the client takes off the wire. For the refinement `ReceiveGrows` shows that no frame
takes anything back. TLC checked `IInv`, with `Nat` bounded, on the instance of the run
`PtySource` before it was proved.

Only model-checked: the liveness properties `EveryCheckEnds`, `Relayed`,
`MailDelivered`, `AnswerEndsWait`, `PendingExitRetired` and `LiveCatchesUp`, since
liveness under fairness is out of the prover's reach; and the refuted properties. What a
recursive definition or a fold computes for every input would need induction over data,
which the prover cannot do, so no theorem rests on one.

## Not modelled

The resets of the database, and `failActiveDispatchForTask` and `timeoutGate`, which
nothing calls. The coordinator's polling loop, which nothing that ships starts. Of the
mail: what is addressed to a terminal handle, a group or a dispatch, its push to idle
terminals, and the adoption and takeover of a legacy run. Of the receipts: pruning, and
the special dispositions of `workerStart` and `workerRelease`. Of the questions: the
fencing of the replying consumer (it is in `RunMailbox`), the rows of remote questions
on the worker's server, and the questions of a legacy run. Of the relay: the older
protocol (`afterSequence`, no settlements), setup notices, the start of the worker on
its own server, and the sender that waits thirty seconds for its verdict. Of the
terminal output: the turn limit, pausing the program, budgets in bytes and spans over
several terminals, surrogate pairs, a second attach on the same connection, and owners
without flow control. The other components are listed with their reasons in
`PROJECT.json`: most of the repository is user interface, integrations and
command-line plumbing whose state is a view of what is modelled here or of another
system.

## Plan

Next, the most important first:

1. `WorkerTerminalRelease`: a terminal is closed only by its owner.
2. The admission of the dispatcher's writers: lanes and budgets, with what
   `PtySource` assumes of them (`Room`) as the abstract specification.
3. The resets in `TaskDispatch`, mail to handles in `RunMailbox`, the sender's wait for
   its verdict in `FederationRelay`.
4. Proofs: what the rows of a relay to home implement (a channel whose last undelivered
   message may be replaced), as a refinement beside `InOrder` and `AckedIsImported`; the
   part of `DispatchedHasLiveOwner` that survives a crash.
