----------------------------- MODULE RunMailbox -----------------------------
(***************************************************************************)
(* The mailbox of a Run: the rows of runs, messages and deliveries in      *)
(* src/main/runtime/orchestration/db.ts, the `orchestration.check' calls   *)
(* that read it, and the run-create / run-use calls that hand it from one  *)
(* coordinator terminal to another.                                        *)
(*                                                                         *)
(* One JavaScript thread runs the handlers: an action is the code between  *)
(* two awaits.  The only await of a check is waitForMessage, so a check    *)
(* that found mail is one action and a check that waits is two: the call   *)
(* that registers the waiter, and the continuation that reads again.       *)
(* Between a waiter's resolution and its continuation other handlers may   *)
(* run.  The reply of a check can be lost on its way to the terminal.      *)
(*                                                                         *)
(* Messages are numbered by messages.sequence, runs and deliveries in the  *)
(* order of their INSERT.                                                  *)
(***************************************************************************)
EXTENDS Naturals, FiniteSets

CONSTANTS
    MaxRun,          \* bound: runs ever created
    MaxGeneration,   \* bound: hand-overs of one run
    MaxMessage,      \* bound: messages ever inserted
    MaxDelivery,     \* bound: deliveries ever created
    Limit,           \* the most messages one delivery takes (50 in the code)
    Handle,          \* terminal handles
    NoHandle,        \* the handle of a run no terminal is bound to
    PaneOf,          \* PaneOf[h]: the pane of h; two handles of one pane are
                     \* the same terminal before and after a remint
    Worker,          \* dispatches that report to a run
    NoWorker,        \* the sender of an absent message
    RunOf,           \* RunOf[w]: the run that owns dispatch w
    Federated,       \* dispatches whose worker runs on another server
    Check,           \* bound: check calls that are suspended at one time
    Wake             \* the type filters `check --wait --types' is used with

Run == 1..MaxRun
Message == 1..MaxMessage
Delivery == 1..MaxDelivery

\* "status" stands for every type that is not a lifecycle report.
MessageType == {"worker_done", "heartbeat", "status"}

ASSUME MailboxAssumption ==
    /\ MaxRun \in Nat /\ MaxGeneration \in Nat /\ MaxMessage \in Nat
    /\ MaxDelivery \in Nat /\ Limit \in Nat
    /\ NoHandle \notin Handle
    /\ NoWorker \notin Worker
    /\ RunOf \in [Worker -> Run]
    /\ Federated \subseteq Worker
    /\ Wake \subseteq SUBSET MessageType

VARIABLES
    runs,        \* runs: who is bound, and consumer_generation (0: no row)
    messages,    \* messages, less the read flag
    read,        \* the messages with read = 1
    deliveries,  \* deliveries
    finished,    \* the dispatches that are not `dispatched' any more
    checks,      \* the suspended check calls of this process
    received     \* the deliveries some terminal has got the reply of

vars == <<runs, messages, read, deliveries, finished, checks, received>>

NoRun == 0
NoDelivery == 0

AbsentRun == [handle |-> NoHandle, gen |-> 0]
AbsentMessage == [run |-> NoRun, worker |-> NoWorker, type |-> "status", rejected |-> FALSE]
AbsentDelivery == [run |-> NoRun, gen |-> 0, messages |-> {}, status |-> "absent"]
Idle == [pc |-> "idle", run |-> NoRun, gen |-> 0, wake |-> {}]

TypeOK ==
    /\ runs \in [Run -> [handle : Handle \cup {NoHandle}, gen : 0..MaxGeneration]]
    /\ messages \in [Message -> [run : Run \cup {NoRun}, worker : Worker \cup {NoWorker},
                                 type : MessageType, rejected : BOOLEAN]]
    /\ read \in SUBSET Message
    /\ deliveries \in [Delivery ->
                         [run : Run \cup {NoRun}, gen : 0..MaxGeneration,
                          messages : SUBSET Message,
                          status : {"absent", "outstanding", "acknowledged", "fenced"}]]
    /\ finished \in SUBSET Worker
    /\ checks \in [Check -> [pc : {"idle", "waiting", "notified"},
                             run : Run \cup {NoRun}, gen : 0..MaxGeneration,
                             wake : SUBSET MessageType]]
    /\ received \in SUBSET Delivery

Init ==
    /\ runs = [r \in Run |-> AbsentRun]
    /\ messages = [m \in Message |-> AbsentMessage]
    /\ read = {}
    /\ deliveries = [d \in Delivery |-> AbsentDelivery]
    /\ finished = {}
    /\ checks = [c \in Check |-> Idle]
    /\ received = {}

-----------------------------------------------------------------------------
(* Reading the tables *)

Exists(r) == runs[r].gen # 0

Bound(r, p) == runs[r].handle # NoHandle /\ PaneOf[runs[r].handle] = p

\* getCurrentRunForPane: the first row of runsBoundToPane.
Current(r, p) == Bound(r, p) /\ \A q \in Run : Bound(q, p) => r <= q

IsMessage(m) == messages[m].run # NoRun

MailOf(r) == {m \in Message : messages[m].run = r}

Unread(r, rd) == MailOf(r) \ rd

\* Mutant: the newest mail first.
LastOf(S) == {m \in S : Cardinality({n \in S : n > m}) < Limit}

\* ORDER BY sequence ASC LIMIT ?
FirstOf(S) == {m \in S : Cardinality({n \in S : n < m}) < Limit}

Outstanding(dl, d, r) == dl[d].run = r /\ dl[d].status = "outstanding"

Waiting(c, r) == checks[c].pc = "waiting" /\ checks[c].run = r

\* Dispatch w has reported: an accepted worker_done of its own is stored.
Reported(w) ==
    \E m \in Message : /\ messages[m].worker = w
                       /\ messages[m].type = "worker_done"
                       /\ ~messages[m].rejected

HeartbeatsOf(w) ==
    {m \in Message : messages[m].worker = w /\ messages[m].type = "heartbeat"}

IsNextRun(r) == ~Exists(r) /\ \A q \in Run : q < r => Exists(q)
IsNextMessage(m) == ~IsMessage(m) /\ \A n \in Message : n < m => IsMessage(n)
IsNextDelivery(dl, d) ==
    /\ dl[d].status = "absent"
    /\ \A e \in Delivery : e < d => dl[e].status # "absent"

-----------------------------------------------------------------------------
(* Handing a run to a terminal *)

\* unbindOtherRunsForPane: the runs that lose their terminal when h takes r.
Displaced(h, r) == {q \in Run \ {r} : Bound(q, PaneOf[h])}

\* The runs whose consumer_generation goes up: the displaced ones, and r
\* itself when another pane, or another handle of this one, was bound to it.
HandedOver(h, r) == Displaced(h, r) \cup {q \in {r} : runs[q].handle # h}

\* Mutant: a pane keeps the runs it was bound to.
ReboundAlone(h, r) ==
    [q \in Run |-> IF q = r /\ runs[r].handle # h
                   THEN [handle |-> h, gen |-> runs[r].gen + 1] ELSE runs[q]]

Rebound(h, r) ==
    [q \in Run |->
       IF q \notin HandedOver(h, r) THEN runs[q]
       ELSE [handle |-> IF q = r THEN h ELSE NoHandle, gen |-> runs[q].gen + 1]]

\* fenceOutstandingDelivery, for each run of S.
Fenced(S) ==
    [d \in Delivery |-> IF deliveries[d].run \in S /\ deliveries[d].status = "outstanding"
                        THEN [deliveries[d] EXCEPT !.status = "fenced"]
                        ELSE deliveries[d]]

\* The run that is current for the pane of h before the call.
PriorRun(h) == {q \in Run : Current(q, PaneOf[h])}

\* cancelMessageWaiters, for each run of S.
Cancelled(S) ==
    [c \in Check |-> IF checks[c].pc = "waiting" /\ checks[c].run \in S THEN Idle
                     ELSE checks[c]]

\* Mutant: the displaced runs keep their outstanding delivery.
RebindFencingOne(h, r) ==
    /\ \A q \in HandedOver(h, r) : runs[q].gen < MaxGeneration
    /\ runs' = Rebound(h, r)
    /\ deliveries' = Fenced({r})
    /\ checks' = Cancelled(PriorRun(h) \cup {r})
    /\ UNCHANGED <<messages, read, finished, received>>

\* Mutant: only the run that is taken has its waiters cancelled.
RebindCancellingOne(h, r) ==
    /\ \A q \in HandedOver(h, r) : runs[q].gen < MaxGeneration
    /\ runs' = Rebound(h, r)
    /\ deliveries' = Fenced(HandedOver(h, r))
    /\ checks' = Cancelled({r})
    /\ UNCHANGED <<messages, read, finished, received>>

Rebind(h, r) ==
    /\ \A q \in HandedOver(h, r) : runs[q].gen < MaxGeneration
    /\ runs' = Rebound(h, r)
    /\ deliveries' = Fenced(HandedOver(h, r))
    /\ checks' = Cancelled(PriorRun(h) \cup {r})
    /\ UNCHANGED <<messages, read, finished, received>>

CreateRun(h, r) == IsNextRun(r) /\ Rebind(h, r)

UseRun(h, r) == Exists(r) /\ Rebind(h, r)

-----------------------------------------------------------------------------
(* Mail arrives *)

Insert(m, w, t, rejected) ==
    /\ IsNextMessage(m)
    /\ Exists(RunOf[w])
    /\ messages' = [messages EXCEPT ![m] = [run |-> RunOf[w], worker |-> w,
                                            type |-> t, rejected |-> rejected]]

\* Mutant: only waiters without a filter are woken.
NotifiedUnfiltered(r, t) ==
    [c \in Check |-> IF Waiting(c, r) /\ checks[c].wake = MessageType
                     THEN [checks[c] EXCEPT !.pc = "notified"]
                     ELSE checks[c]]

\* notifyMessageArrived: resolve the waiters of run r whose filter lets t through.
Notified(r, t) ==
    [c \in Check |-> IF Waiting(c, r) /\ t \in checks[c].wake
                     THEN [checks[c] EXCEPT !.pc = "notified"]
                     ELSE checks[c]]

\* markAsRead, markAsReadAndDelivered.
MarkRead(S) == read' = read \cup S

\* A message that is stored unread: any other type than a lifecycle report, a
\* heartbeat of a dispatch at work, a report the runtime rejects.  A rejected
\* report keeps its type and its place, and finishes nothing.
Send(m, w, t, rejected) ==
    /\ w \notin Federated
    /\ rejected => t # "status"
    /\ t = "worker_done" => rejected
    /\ t = "heartbeat" /\ w \in finished => rejected
    /\ Insert(m, w, t, rejected)
    /\ checks' = Notified(RunOf[w], t)
    /\ UNCHANGED <<runs, read, deliveries, finished, received>>

\* A heartbeat of a finished dispatch is stored as read, and wakes nobody.
LateHeartbeat(m, w) ==
    /\ w \in finished \ Federated
    /\ Insert(m, w, "heartbeat", FALSE)
    /\ MarkRead({m})
    /\ UNCHANGED <<runs, deliveries, finished, checks, received>>

\* Mutant: the heartbeats before the report stay unread.
WorkerDoneAlone(m, w) ==
    /\ w \notin Federated
    /\ Insert(m, w, "worker_done", FALSE)
    /\ finished' = finished \cup {w}
    /\ checks' = Notified(RunOf[w], "worker_done")
    /\ UNCHANGED <<runs, read, deliveries, received>>

\* An accepted report of a worker of this server supersedes its heartbeats.
\* (settleWorkerReport accepts or rejects it by the tables of TaskDispatch: the
\* report of a settled dispatch is accepted again when the outcome agrees.)
WorkerDone(m, w) ==
    /\ w \notin Federated
    /\ Insert(m, w, "worker_done", FALSE)
    /\ finished' = finished \cup {w}
    /\ MarkRead(HeartbeatsOf(w))
    /\ checks' = Notified(RunOf[w], "worker_done")
    /\ UNCHANGED <<runs, deliveries, received>>

\* importFederatedRelayItem of a message of a worker on another server.  No
\* heartbeat is read here; one can follow the worker's report, because the
\* worker's server closes the relay only when the report's settlement is back.
Import(m, w, t, rejected) ==
    /\ w \in Federated
    /\ rejected => t = "worker_done"
    /\ Insert(m, w, t, rejected)
    /\ finished' = finished \cup {x \in {w} : t = "worker_done" /\ ~rejected}
    /\ checks' = Notified(RunOf[w], t)
    /\ UNCHANGED <<runs, read, deliveries, received>>

\* The acknowledgement of an import was lost: the item is pulled again, stored
\* nowhere, and notified again.
ImportAgain(m) ==
    /\ IsMessage(m) /\ messages[m].worker \in Federated
    /\ checks' = Notified(messages[m].run, messages[m].type)
    /\ UNCHANGED <<runs, messages, read, deliveries, finished, received>>

\* A worker-stop, an abandon or an operator settles the dispatch.
Settle(w) ==
    /\ Exists(RunOf[w])
    /\ finished' = finished \cup {w}
    /\ UNCHANGED <<runs, messages, read, deliveries, checks, received>>

\* orchestration.reply to a message of the mailbox that is not a question.
Reply(m) ==
    /\ IsMessage(m)
    /\ MarkRead({m})
    /\ UNCHANGED <<runs, messages, deliveries, finished, checks, received>>

-----------------------------------------------------------------------------
(* orchestration.check *)

\* Mutant: the fence is not looked at.
AcksFenced(r, a) == a = NoDelivery \/ (a \in received /\ deliveries[a].run = r)

\* acknowledgeRunDelivery passes its guards.  A check without --ack has a = 0.
Acks(r, a) ==
    \/ a = NoDelivery
    \/ /\ a \in received
       /\ deliveries[a].run = r
       /\ deliveries[a].gen = runs[r].gen
       /\ deliveries[a].status # "fenced"

Acknowledges(a) == a # NoDelivery /\ deliveries[a].status # "acknowledged"

\* Mutant: an acknowledgement covers the whole mailbox.
ReadAllAfter(a) == read \cup (IF Acknowledges(a) THEN MailOf(deliveries[a].run) ELSE {})

ReadAfter(a) == read \cup (IF Acknowledges(a) THEN deliveries[a].messages ELSE {})

DeliveriesAfter(a) ==
    IF Acknowledges(a) THEN [deliveries EXCEPT ![a].status = "acknowledged"] ELSE deliveries

\* Mail of run r that a filter lets through.
Wakes(r, wake, rd) == \E m \in Unread(r, rd) : messages[m].type \in wake

\* getOrCreateRunDelivery of the current consumer returns delivery d: the
\* outstanding one as it was created, or else a new one.  (The branch that
\* refuses an outstanding delivery of another generation is not here:
\* OutstandingIsCurrent says that no such delivery exists.)
Delivers(r, wake, rd, dl, d) ==
    \/ /\ Outstanding(dl, d, r) /\ dl[d].gen = runs[r].gen
       /\ deliveries' = dl
    \/ /\ \A e \in Delivery : ~Outstanding(dl, e, r)
       /\ Wakes(r, wake, rd)
       /\ IsNextDelivery(dl, d)
       /\ deliveries' = [dl EXCEPT ![d] = [run |-> r, gen |-> runs[r].gen,
                                           messages |-> FirstOf(Unread(r, rd)),
                                           status |-> "outstanding"]]

DeliversNothing(r, wake, rd, dl) ==
    /\ \A e \in Delivery : ~Outstanding(dl, e, r)
    /\ ~Wakes(r, wake, rd)
    /\ deliveries' = dl

\* The reply reaches the terminal, or is lost with its connection.
MayReceive(d) == received' \in {received, received \cup {d}}

\* A check that answers at once.  Without --wait no filter applies.
CheckAnswers(h, r, a, wake, d) ==
    /\ Current(r, PaneOf[h]) /\ Acks(r, a)
    /\ read' = ReadAfter(a)
    /\ Delivers(r, wake, ReadAfter(a), DeliveriesAfter(a), d)
    /\ MayReceive(d)
    /\ UNCHANGED <<runs, messages, finished, checks>>

\* A check that acknowledges and delivers nothing: --peek or --all, a check
\* without --wait that finds no mail, a wait refused with waiter_exists.
CheckAcks(h, r, a) ==
    /\ Current(r, PaneOf[h]) /\ Acks(r, a)
    /\ read' = ReadAfter(a)
    /\ deliveries' = DeliveriesAfter(a)
    /\ UNCHANGED <<runs, messages, finished, checks, received>>

\* A check --wait that finds nothing registers the run's only waiter.
CheckWaits(c, h, r, a, wake) ==
    /\ checks[c].pc = "idle"
    /\ Current(r, PaneOf[h]) /\ Acks(r, a)
    /\ read' = ReadAfter(a)
    /\ DeliversNothing(r, wake, ReadAfter(a), DeliveriesAfter(a))
    /\ \A b \in Check : ~Waiting(b, r)
    /\ checks' = [checks EXCEPT ![c] = [pc |-> "waiting", run |-> r, gen |-> runs[r].gen,
                                        wake |-> wake]]
    /\ UNCHANGED <<runs, messages, finished, received>>

Ends(c) == checks' = [checks EXCEPT ![c] = Idle]

\* The timer fires, or the caller's connection closes.
TimesOut(c) ==
    /\ checks[c].pc = "waiting"
    /\ Ends(c)
    /\ UNCHANGED <<runs, messages, read, deliveries, finished, received>>

IsCurrent(c) == runs[checks[c].run].gen = checks[c].gen

\* The continuation of a notified waiter: consumer_fenced, mail, or nothing.
WokenIsFenced(c) ==
    /\ checks[c].pc = "notified" /\ ~IsCurrent(c)
    /\ Ends(c)
    /\ UNCHANGED <<runs, messages, read, deliveries, finished, received>>

WokenAnswers(c, d) ==
    /\ checks[c].pc = "notified" /\ IsCurrent(c)
    /\ Delivers(checks[c].run, checks[c].wake, read, deliveries, d)
    /\ MayReceive(d)
    /\ Ends(c)
    /\ UNCHANGED <<runs, messages, read, finished>>

WokenFindsNothing(c) ==
    /\ checks[c].pc = "notified" /\ IsCurrent(c)
    /\ DeliversNothing(checks[c].run, checks[c].wake, read, deliveries)
    /\ Ends(c)
    /\ UNCHANGED <<runs, messages, read, finished, received>>

\* Mutant: a waiter that finds its consumer replaced never answers.
ContinueCurrent(c) ==
    \/ \E d \in Delivery : WokenAnswers(c, d)
    \/ WokenFindsNothing(c)

Continue(c) ==
    \/ WokenIsFenced(c)
    \/ \E d \in Delivery : WokenAnswers(c, d)
    \/ WokenFindsNothing(c)

\* The process restarts: suspended calls are gone, rows stay.
Restart ==
    /\ checks' = [c \in Check |-> Idle]
    /\ UNCHANGED <<runs, messages, read, deliveries, finished, received>>

Ack == Delivery \cup {NoDelivery}

HandOver == \E h \in Handle, r \in Run : CreateRun(h, r) \/ UseRun(h, r)

Arrival ==
    \/ \E m \in Message, w \in Worker :
          \/ \E t \in MessageType, rejected \in BOOLEAN :
                Send(m, w, t, rejected) \/ Import(m, w, t, rejected)
          \/ LateHeartbeat(m, w)
          \/ WorkerDone(m, w)
    \/ \E m \in Message : ImportAgain(m) \/ Reply(m)
    \/ \E w \in Worker : Settle(w)

Reading ==
    \/ \E h \in Handle, r \in Run, a \in Ack :
          \/ \E wake \in Wake \cup {MessageType}, d \in Delivery : CheckAnswers(h, r, a, wake, d)
          \/ CheckAcks(h, r, a)
          \/ \E c \in Check, wake \in Wake : CheckWaits(c, h, r, a, wake)
    \/ \E c \in Check : TimesOut(c) \/ Continue(c)

Next == HandOver \/ Arrival \/ Reading \/ Restart

Spec == Init /\ [][Next]_vars

\* Every waiter has a timer, and a resolved promise is always continued.
Fairness == \A c \in Check : WF_vars(TimesOut(c)) /\ WF_vars(Continue(c))

FairSpec == Spec /\ Fairness

-----------------------------------------------------------------------------
(* Safety *)

\* A pane is bound to at most one run, so that the run current for a terminal
\* never depends on the order of the rows.
OneRunPerPane ==
    \A q, r \in Run :
       /\ runs[q].handle # NoHandle /\ runs[r].handle # NoHandle
       /\ PaneOf[runs[q].handle] = PaneOf[runs[r].handle]
       => q = r

\* The outstanding delivery of a run belongs to its current consumer.  A
\* delivery of an earlier generation could be neither read nor acknowledged by
\* anyone, and would stop the mailbox for good.
OutstandingIsCurrent ==
    \A d \in Delivery :
       deliveries[d].status = "outstanding" => deliveries[d].gen = runs[deliveries[d].run].gen

\* No message is acknowledged twice: a message that one consumer acknowledged
\* is in no delivery that another acknowledged, or still can acknowledge.
AcknowledgedOnce ==
    \A d, e \in Delivery :
       /\ d # e
       /\ deliveries[d].status = "acknowledged"
       /\ deliveries[e].status \in {"outstanding", "acknowledged"}
       => deliveries[d].messages \cap deliveries[e].messages = {}

\* A registered waiter belongs to the current consumer of its run: a terminal
\* that lost the run is not kept waiting, and cannot block its successor.
WaiterIsCurrent ==
    \A c \in Check : checks[c].pc = "waiting" => IsCurrent(c)

\* Nobody waits beside mail it asked for: a registered waiter's filter lets
\* through no unread message of the run.
NobodyWaitsBesideMail ==
    \A c \in Check :
       checks[c].pc = "waiting" => ~Wakes(checks[c].run, checks[c].wake, read)

\* A heartbeat of a worker that has reported.
Superseded(m) ==
    messages[m].type = "heartbeat" /\ ~messages[m].rejected /\ Reported(messages[m].worker)

\* Once a worker of this server has reported, its heartbeats are read: no
\* delivery takes them to the coordinator any more.
SupersededIsRead ==
    \A m \in Message : Superseded(m) /\ messages[m].worker \notin Federated => m \in read

-----------------------------------------------------------------------------
(* The inductive invariant *)

\* What a table of deliveries dl and a set rd of read messages are together,
\* at any moment of a check: also between its acknowledgement and its reading.
Live(dl, d) == dl[d].status \in {"outstanding", "acknowledged"}

DeliveriesHaveRows(dl) ==
    \A d \in Delivery : dl[d].status # "absent" =>
       dl[d].run \in Run /\ dl[d].messages \subseteq MailOf(dl[d].run)

OutstandingHasGen(dl) ==
    \A d \in Delivery :
       dl[d].status = "outstanding" => dl[d].gen = runs[dl[d].run].gen

\* idx_deliveries_one_outstanding
OneOutstanding(dl) ==
    \A d, e \in Delivery :
       dl[d].status = "outstanding" /\ Outstanding(dl, e, dl[d].run) => d = e

AcknowledgedIsRead(dl, rd) ==
    \A d \in Delivery : dl[d].status = "acknowledged" => dl[d].messages \subseteq rd

\* A delivery that is not fenced leaves no older unread mail behind.
BatchIsOldest(dl, rd) ==
    \A d \in Delivery : Live(dl, d) =>
       \A m \in dl[d].messages, n \in MailOf(dl[d].run) :
          n < m => n \in dl[d].messages \cup rd

Disjoint(dl) ==
    \A d, e \in Delivery :
       d # e /\ dl[d].status = "acknowledged" /\ Live(dl, e)
       => dl[d].messages \cap dl[e].messages = {}

Ledger(dl, rd) ==
    /\ DeliveriesHaveRows(dl)
    /\ OutstandingHasGen(dl)
    /\ OneOutstanding(dl)
    /\ AcknowledgedIsRead(dl, rd)
    /\ BatchIsOldest(dl, rd)
    /\ Disjoint(dl)

MessagesAreRows ==
    \A m \in Message :
       \/ messages[m] = AbsentMessage
       \/ messages[m].worker \in Worker /\ messages[m].run = RunOf[messages[m].worker]

NoGaps == \A m, n \in Message : IsMessage(m) /\ n < m => IsMessage(n)

ReportedIsFinished == \A w \in Worker : Reported(w) => w \in finished

SuspendedHasRun == \A c \in Check : checks[c].pc # "idle" => checks[c].run \in Run

ReceivedExists == \A d \in received : deliveries[d].status # "absent"

IInv ==
    /\ TypeOK
    /\ OneRunPerPane
    /\ Ledger(deliveries, read)
    /\ MessagesAreRows
    /\ NoGaps
    /\ ReportedIsFinished
    /\ SupersededIsRead
    /\ SuspendedHasRun
    /\ WaiterIsCurrent
    /\ NobodyWaitsBesideMail
    /\ ReceivedExists

-----------------------------------------------------------------------------
(* Liveness, under FairSpec *)

\* Every check that was suspended ends: with mail, empty, cancelled or fenced.
EveryCheckEnds == \A c \in Check : checks[c].pc # "idle" ~> checks[c].pc = "idle"

-----------------------------------------------------------------------------
(* Refinement *)

Shown(r) ==
    UNION {deliveries[d].messages : d \in {e \in received : deliveries[e].run = r}}

Box == INSTANCE Mailbox WITH
    Box <- Run,
    posted <- [r \in Run |-> MailOf(r)],
    queue <- [r \in Run |-> Unread(r, read)],
    shown <- [r \in Run |-> Shown(r)]

\* The mailboxes of all runs, handed over, replayed and restarted, are the
\* queues of Mailbox: oldest first, and nothing consumed that was not shown.
ImplementsMailbox == Box!Spec
=============================================================================
