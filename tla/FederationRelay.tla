--------------------------- MODULE FederationRelay ---------------------------
(***************************************************************************)
(* The relay of one federated Dispatch: the worker's server queues what    *)
(* its worker reports, the home server of the Run pulls it, imports it     *)
(* into the Run's mailbox, settles the Dispatch by it and acknowledges,    *)
(* and in the same pass sends the coordinator's mail the other way.  Both  *)
(* servers keep their rows in a database; calls between them are lost,     *)
(* time out and arrive late, and either server may restart.                *)
(*                                                                         *)
(* A row of relay is addressed by its sequence number, its index.  Rows    *)
(* are acknowledged by prefix (sequence <= throughSequence), so acked and  *)
(* outAcked stand for the rows' acked_at columns.                          *)
(***************************************************************************)
EXTENDS Naturals, Sequences, FiniteSets

CONSTANTS
  Sends,     \* the kinds of message the worker sends
  Limit,     \* relay rows that may wait for an acknowledgement (256)
  Window,    \* rows one call carries (50)
  MaxSends,  \* bound: messages the worker's server accepts
  MaxMail,   \* bound: messages the coordinator sends to the worker
  MaxFaults  \* bound: timeouts and restarts

\* A worker_done by what it says: its outcome, or one that names another task.
Outcomes   == {"succeeded", "failed"}
WorkerDone == Outcomes \union {"mismatched"}
Kinds      == {"status", "heartbeat"} \union WorkerDone

ASSUME RelayAssumption ==
  /\ Sends \subseteq Kinds
  /\ Limit \in Nat \ {0} /\ Window \in Nat \ {0}
  /\ MaxSends \in Nat /\ MaxMail \in Nat /\ MaxFaults \in Nat

VARIABLES
  \* database of the worker's server
  relay,      \* federation_relay_items, direction to_home: rows [id, kind]
  acked,      \* how many of them are acknowledged
  att,        \* state of the remote_dispatch_attachments row
  mail,       \* coordinator messages stored for the worker, in order
  mailCursor, \* to_worker_imported_sequence
  done,       \* calls with a completed mutation receipt
  pending,    \* calls whose receipt a crash left pending
  \* memory of the worker's server
  epoch,      \* runtimeEpoch, new at every start
  \* database of the home server
  imported,   \* to_home_imported_sequence
  inbox,      \* the Run's mailbox: the imported rows, in order
  home,       \* state of the worker_dispatches row, with its Dispatch and Task
  queued,     \* relay rows in direction to_worker
  outAcked,   \* how many of them are acknowledged
  \* memory of the home server
  checkpoint, \* the federation acknowledgement checkpoint
  timer,      \* orchestrationFederationTimers has the Dispatch's relay timer
  sync,       \* the running syncFederatedDispatch
  stop,       \* the running workerStop
  \* the world
  late,       \* calls in flight whose caller has given up
  sends, faults

worker == <<relay, acked, att, mail, mailCursor, done, pending, epoch, sends>>
homeDb == <<imported, inbox, home, queued, outAcked>>
vars   == <<worker, homeDb, checkpoint, timer, sync, stop, late, faults>>

\* A call is identified by its request ID: the method and the last sequence it
\* covers; args is the rest of its payload.
AckCall(through, verdicts) == [method |-> "ack", key |-> through, args |-> verdicts]
MailCall(first, last)      == [method |-> "mail", key |-> last, args |-> first]

NoSync == [pc |-> "idle", items |-> <<>>, cursor |-> 0, verdicts |-> {},
           epoch |-> 0, mail |-> <<0, 0>>]
NoCheckpoint == [epoch |-> 0, through |-> 0]
NoStop       == [at |-> "none", waits |-> FALSE]

\* worker-start leaves the timer running, a start that worker-show reconciles none.
Init ==
  /\ relay = <<>> /\ acked = 0 /\ att = "ready" /\ mail = <<>> /\ mailCursor = 0
  /\ done = {} /\ pending = {} /\ epoch = 1
  /\ imported = 0 /\ inbox = <<>> /\ home = "ready" /\ queued = 0 /\ outAcked = 0
  /\ checkpoint = NoCheckpoint /\ sync = NoSync /\ stop = NoStop
  /\ timer \in BOOLEAN
  /\ late = {} /\ sends = 0 /\ faults = 0

MaxOf(a, b) == IF a > b THEN a ELSE b
MinOf(a, b) == IF a < b THEN a ELSE b

----------------------------------------------------------------------------
(* The worker's server: what the worker sends.                             *)

Unacked    == (acked + 1) .. Len(relay)
Heartbeats == {s \in Unacked : relay[s].kind = "heartbeat"}
Full       == Len(relay) - acked >= Limit
Row(kind)  == [id |-> sends + 1, kind |-> kind]

\* Mutant: the limit does not hold for a report.
Append1NoLimit(kind) ==
  /\ Full => kind \in WorkerDone
  /\ kind = "heartbeat" => Heartbeats = {}
  /\ relay' = Append(relay, Row(kind))

\* A new row.  A heartbeat is one only when no other waits: otherwise it
\* refreshes the payload of that row, which changes nothing here.
Append1(kind) ==
  /\ ~Full
  /\ kind = "heartbeat" => Heartbeats = {}
  /\ relay' = Append(relay, Row(kind))

\* At the limit a worker_done takes over the row of the oldest heartbeat that
\* is not acknowledged; any other message is refused.
TakeOver(kind) ==
  /\ Full
  /\ kind \in WorkerDone
  /\ \E s \in Heartbeats :
       /\ \A t \in Heartbeats : s <= t
       /\ relay' = [relay EXCEPT ![s] = Row(kind)]

Send(kind) ==
  /\ att = "ready"
  /\ sends < MaxSends
  /\ sends' = sends + 1
  /\ Append1(kind) \/ TakeOver(kind)
  /\ UNCHANGED <<acked, att, mail, mailCursor, done, pending, epoch,
                 homeDb, checkpoint, timer, sync, stop, late, faults>>

----------------------------------------------------------------------------
(* The home server: one pass of syncFederatedDispatch.  It awaits its       *)
(* calls; from the arrival of the pulled rows to the next call it runs      *)
(* without a pause, one transaction per row, so that no other step of the   *)
(* home comes between, while a crash may.                                   *)

Running == sync.pc = "import"
NewPass == [NoSync EXCEPT !.pc = "pull", !.cursor = imported]

StartSync ==
  /\ sync.pc = "idle"
  /\ sync' = NewPass
  /\ UNCHANGED <<worker, homeDb, checkpoint, timer, stop, late, faults>>

\* The relay's timer is memory of the home: a restart loses it.  It relays for a
\* worker that may still report, and stops at the first tick that finds another.
Relaying == home \in {"ready", "stopping"}

Tick == timer /\ Relaying /\ StartSync

TimerStops ==
  /\ ~Running
  /\ timer /\ ~Relaying
  /\ timer' = FALSE
  /\ UNCHANGED <<worker, homeDb, checkpoint, sync, stop, late, faults>>

\* ensureOrchestrationFederationRelay: a lost timer is set again and ticks at
\* once, which starts a pass or joins the one that runs.
EnsureRelay ==
  IF timer \/ ~Relaying THEN UNCHANGED <<timer, sync>>
  ELSE timer' = TRUE /\ sync' = IF sync.pc = "idle" THEN NewPass ELSE sync

\* The coordinator checks its mailbox, or asks for the worker (the first half of
\* worker-show; its answer from the worker's server is ShowSettled or ShowStopped).
CheckOrShow ==
  /\ ~Running
  /\ EnsureRelay
  /\ UNCHANGED <<worker, homeDb, checkpoint, stop, late, faults>>

\* worker-show asks for a pass when it finds the attachment succeeded.
ShowSettled == att = "succeeded" /\ StartSync

\* Mutant: the attachment is not asked whether it stopped.
ShowStoppedUnasked ==
  /\ ~Running
  /\ home \in {"stopping", "stop_unknown"}
  /\ home' = "stopped"
  /\ UNCHANGED <<worker, imported, inbox, queued, outAcked, checkpoint, timer, sync, stop,
                 late, faults>>

\* worker-show reconciles a stop whose outcome was not learnt.
ShowStopped ==
  /\ ~Running
  /\ att = "stopped" /\ home \in {"stopping", "stop_unknown"}
  /\ home' = "stopped"
  /\ UNCHANGED <<worker, imported, inbox, queued, outAcked, checkpoint, timer, sync, stop,
                 late, faults>>

\* The worker's server answers the pull with the rows not acknowledged.
ServePull ==
  /\ sync.pc = "pull"
  /\ sync' = [sync EXCEPT
       !.pc = "pulled", !.epoch = epoch,
       !.items = [i \in 1 .. MinOf(Window, Len(relay) - acked) |->
                    [seq |-> acked + i, row |-> relay[acked + i]]]]
  /\ UNCHANGED <<worker, homeDb, checkpoint, timer, stop, late, faults>>

ReceivePull ==
  /\ sync.pc = "pulled"
  /\ sync' = [sync EXCEPT !.pc = "import",
       !.cursor = IF sync.items = <<>> THEN @ ELSE Head(sync.items).seq - 1]
  /\ UNCHANGED <<worker, homeDb, checkpoint, timer, stop, late, faults>>

Known(id) == \E i \in DOMAIN inbox : inbox[i].id = id

\* Mutant: a row at or before the cursor is accepted without its message.
ImportableAnyId(item) ==
  /\ item.seq = sync.cursor + 1
  /\ item.seq <= imported + 1

\* Mutant: a row imported before is refused.
ImportableOnce(item) ==
  /\ item.seq = sync.cursor + 1
  /\ item.seq = imported + 1

\* importFederatedRelayItem accepts the next row, or one it has already stored.
Importable(item) ==
  /\ item.seq = sync.cursor + 1
  /\ IF item.seq <= imported THEN Known(item.row.id) ELSE item.seq = imported + 1

\* settleWorkerReportInTransaction: a report settles a Dispatch that is still
\* dispatched, and repeats the verdict of one it has settled.
Verdict(kind) == IF kind \in Outcomes /\ home \in {"ready", kind} THEN kind ELSE "rejected"

Import ==
  /\ sync.pc = "import" /\ sync.items # <<>>
  /\ LET item == Head(sync.items)  kind == item.row.kind IN
     /\ Importable(item)
     /\ inbox' = IF Known(item.row.id) THEN inbox ELSE Append(inbox, item.row)
     /\ imported' = MaxOf(imported, item.seq)
     /\ home' = IF kind \in Outcomes /\ Verdict(kind) = kind THEN kind ELSE home
     /\ sync' = [sync EXCEPT
          !.items = Tail(@), !.cursor = item.seq,
          !.verdicts = @ \union {v \in {<<item.seq, Verdict(kind)>>} : kind \in WorkerDone}]
  /\ UNCHANGED <<worker, queued, outAcked, checkpoint, timer, stop, late, faults>>

ImportFails ==
  /\ sync.pc = "import" /\ sync.items # <<>>
  /\ ~Importable(Head(sync.items))
  /\ sync' = NoSync
  /\ UNCHANGED <<worker, homeDb, checkpoint, timer, stop, late, faults>>

AckedThrough == IF checkpoint.epoch = sync.epoch THEN checkpoint.through ELSE 0

\* The last part of a pass: the mail not yet acknowledged, to a ready worker.
MailOrEnd ==
  IF home = "ready" /\ outAcked < queued
  THEN [NoSync EXCEPT !.pc = "mail",
                    !.mail = <<outAcked + 1, MinOf(outAcked + Window, queued)>>]
  ELSE NoSync

\* Mutant: a pass that has nothing to acknowledge sends no mail.
EndImportEarly ==
  /\ sync.pc = "import" /\ sync.items = <<>>
  /\ sync' = IF sync.cursor > AckedThrough THEN [sync EXCEPT !.pc = "ack"] ELSE NoSync
  /\ UNCHANGED <<worker, homeDb, checkpoint, timer, stop, late, faults>>

EndImport ==
  /\ sync.pc = "import" /\ sync.items = <<>>
  /\ sync' = IF sync.cursor > AckedThrough THEN [sync EXCEPT !.pc = "ack"] ELSE MailOrEnd
  /\ UNCHANGED <<worker, homeDb, checkpoint, timer, stop, late, faults>>

\* The coordinator sends control mail or answers a question.
SendMail ==
  /\ ~Running
  /\ home = "ready" /\ queued < MaxMail /\ queued - outAcked < Limit
  /\ queued' = queued + 1
  /\ EnsureRelay
  /\ UNCHANGED <<worker, imported, inbox, home, outAcked, checkpoint, stop, late, faults>>

----------------------------------------------------------------------------
(* The worker's server: the calls that change its database, each under the *)
(* durable mutation receipt of its request ID.                             *)

SyncCall == IF sync.pc = "ack" THEN AckCall(sync.cursor, sync.verdicts)
                               ELSE MailCall(sync.mail[1], sync.mail[2])

\* beginMutationReceipt: the request ID names another payload, or a call that
\* a crash interrupted.
LedgerRefuses(call) ==
  \/ call \in pending
  \/ \E other \in done \union pending :
       other.method = call.method /\ other.key = call.key /\ other # call

Settling(call) == {v \in call.args : v[2] \in Outcomes}

AckRefused(call) ==
  \/ Cardinality(Settling(call)) > 1
  \/ \E v \in Settling(call) : relay[v[1]].kind # v[2] \/ att \notin {"ready", v[2]}

MailRefused(call) ==
  \/ call.args > mailCursor + 1
  \/ call.key > mailCursor /\ att # "ready"

Refused(call) == IF call.method = "ack" THEN AckRefused(call) ELSE MailRefused(call)

Accepted(call) == ~LedgerRefuses(call) /\ (call \in done \/ ~Refused(call))

\* Mutant: every row is acknowledged, not only those up to the cursor.
AckRowsAll(call) ==
  /\ acked' = Len(relay)
  /\ att' = IF Settling(call) = {} THEN att ELSE (CHOOSE v \in Settling(call) : TRUE)[2]
  /\ UNCHANGED <<mail, mailCursor>>

\* acknowledgeFederationRelay, one transaction.
AckRows(call) ==
  /\ acked' = MaxOf(acked, call.key)
  /\ att' = IF Settling(call) = {} THEN att ELSE (CHOOSE v \in Settling(call) : TRUE)[2]
  /\ UNCHANGED <<mail, mailCursor>>

\* Mutant: a message that a torn call stored is stored again.
StoreMailAgain(n, cursor) ==
  /\ mail' = mail \o [i \in 1 .. (MaxOf(n, mailCursor) - mailCursor) |-> mailCursor + i]
  /\ mailCursor' = cursor
  /\ UNCHANGED <<acked, att>>

\* The items of a call up to number n: a message already stored is not stored
\* again, and the cursor follows in a statement of its own.
StoreMail(n, cursor) ==
  /\ mail' = mail \o [i \in 1 .. (MaxOf(n, Len(mail)) - Len(mail)) |-> Len(mail) + i]
  /\ mailCursor' = cursor
  /\ UNCHANGED <<acked, att>>

Effect(call) ==
  IF call.method = "ack" THEN AckRows(call)
  ELSE StoreMail(call.key, MaxOf(mailCursor, call.key))

Serve(call) ==
  \/ /\ Accepted(call) /\ call \notin done
     /\ Effect(call)
     /\ done' = done \union {call}
     /\ UNCHANGED <<relay, pending, epoch, sends>>
  \/ /\ Accepted(call) => call \in done
     /\ UNCHANGED worker

\* Mutant: the checkpoint is recorded although the call failed.
AcknowledgeUnchecked ==
  /\ sync.pc = "ack"
  /\ Serve(SyncCall)
  /\ checkpoint' = [epoch |-> sync.epoch, through |-> sync.cursor]
  /\ sync' = IF Accepted(SyncCall) THEN MailOrEnd ELSE NoSync
  /\ UNCHANGED <<homeDb, timer, stop, late, faults>>

\* A call of the pass and its reply.  A reply that is lost or late is the call
\* served late, after its caller has given up.
Acknowledge ==
  /\ sync.pc = "ack"
  /\ Serve(SyncCall)
  /\ IF Accepted(SyncCall)
     THEN checkpoint' = [epoch |-> sync.epoch, through |-> sync.cursor] /\ sync' = MailOrEnd
     ELSE sync' = NoSync /\ UNCHANGED checkpoint
  /\ UNCHANGED <<homeDb, timer, stop, late, faults>>

DeliverMail ==
  /\ sync.pc = "mail"
  /\ Serve(SyncCall)
  /\ outAcked' = IF Accepted(SyncCall) THEN MaxOf(outAcked, sync.mail[2]) ELSE outAcked
  /\ sync' = NoSync
  /\ UNCHANGED <<imported, inbox, home, queued, checkpoint, timer, stop, late, faults>>

\* A call whose caller has given up arrives all the same.
ServeLate ==
  /\ \E call \in late : Serve(call) /\ late' = late \ {call}
  /\ UNCHANGED <<homeDb, checkpoint, timer, sync, stop, faults>>

----------------------------------------------------------------------------
(* worker-stop: the home fences its Dispatch first, then asks the worker's *)
(* server, which closes the terminal.  stop.at is how far the call is,     *)
(* stop.waits whether the home still waits for it.                         *)

StopCall(at, waits) == stop' = [at |-> at, waits |-> waits]

StopWorker ==
  /\ ~Running
  /\ home = "ready" /\ stop = NoStop
  /\ home' = "stopping" /\ StopCall("sent", TRUE)
  /\ UNCHANGED <<worker, imported, inbox, queued, outAcked, checkpoint, timer, sync, late, faults>>

ServeStop ==
  /\ stop.at = "sent" /\ att = "ready"
  /\ att' = "stopping" /\ StopCall("closing", stop.waits)
  /\ UNCHANGED <<relay, acked, mail, mailCursor, done, pending, epoch, sends,
                 homeDb, checkpoint, timer, sync, late, faults>>

\* The terminal closes, or is not the exact one or fails to close.
CloseTerminal ==
  /\ stop.at = "closing"
  /\ att' \in {"stopped", "stop_unknown"} /\ StopCall("closed", stop.waits)
  /\ UNCHANGED <<relay, acked, mail, mailCursor, done, pending, epoch, sends,
                 homeDb, checkpoint, timer, sync, late, faults>>

ReceiveStop ==
  /\ ~Running
  /\ stop.at = "closed" /\ stop.waits
  /\ home' = IF home \in {"stopping", "stop_unknown"} THEN att ELSE home
  /\ StopCall("closed", FALSE)
  /\ UNCHANGED <<worker, imported, inbox, queued, outAcked, checkpoint, timer, sync, late, faults>>

StopFails ==
  /\ ~Running
  /\ stop.waits
  /\ \/ stop.at = "lost" /\ UNCHANGED faults
     \/ faults < MaxFaults /\ faults' = faults + 1
  /\ home' = IF home = "stopping" THEN "stop_unknown" ELSE home
  /\ StopCall(stop.at, FALSE)
  /\ UNCHANGED <<worker, imported, inbox, queued, outAcked, checkpoint, timer, sync, late>>

----------------------------------------------------------------------------
(* Faults: a call times out, its request still on the way; either server   *)
(* restarts over its database, the worker's also in the middle of a call.  *)

InFlight == IF sync.pc \in {"ack", "mail"} THEN {SyncCall} ELSE {}

Timeout ==
  /\ faults < MaxFaults /\ faults' = faults + 1
  /\ sync.pc \in {"pull", "pulled", "ack", "mail"}
  /\ late' = late \union InFlight
  /\ sync' = NoSync
  /\ UNCHANGED <<worker, homeDb, checkpoint, timer, stop>>

RestartHome ==
  /\ faults < MaxFaults /\ faults' = faults + 1
  /\ late' = late \union InFlight
  /\ sync' = NoSync /\ checkpoint' = NoCheckpoint /\ timer' = FALSE
  /\ stop' = [stop EXCEPT !.waits = FALSE]
  /\ UNCHANGED <<worker, homeDb>>

\* The connection drops: calls not served are gone, and fail at the home.
WorkerDown ==
  /\ faults < MaxFaults /\ faults' = faults + 1
  /\ epoch' = epoch + 1 /\ late' = {}
  /\ sync' = IF sync.pc \in {"pull", "ack", "mail"} THEN NoSync ELSE sync
  /\ stop' = IF stop.at \in {"sent", "closing"} THEN [stop EXCEPT !.at = "lost"] ELSE stop
  /\ UNCHANGED <<relay, sends, homeDb, checkpoint, timer>>

RestartWorker ==
  /\ WorkerDown
  /\ UNCHANGED <<acked, att, mail, mailCursor, done, pending>>

\* The crash falls between the receipt's transactions: the call's rows are
\* written in part or in full, and its receipt stays pending.
TornCall ==
  /\ WorkerDown
  /\ \E call \in late \union InFlight :
       /\ ~LedgerRefuses(call) /\ call \notin done
       /\ pending' = pending \union {call}
       /\ \/ UNCHANGED <<acked, att, mail, mailCursor>>
          \/ call.method = "ack" /\ ~Refused(call) /\ AckRows(call)
          \/ /\ call.method = "mail" /\ ~Refused(call)
             /\ \E n \in mailCursor .. call.key :
                  StoreMail(n, n) \/ (n < call.key /\ StoreMail(n + 1, n))
  /\ UNCHANGED done

Next ==
  \/ \E kind \in Sends : Send(kind)
  \/ Tick \/ TimerStops \/ CheckOrShow \/ ShowSettled \/ ShowStopped \/ ServePull \/ ReceivePull
  \/ Import \/ ImportFails \/ EndImport
  \/ SendMail \/ Acknowledge \/ DeliverMail \/ ServeLate
  \/ StopWorker \/ ServeStop \/ CloseTerminal \/ ReceiveStop \/ StopFails
  \/ Timeout \/ RestartHome \/ RestartWorker \/ TornCall

Spec == Init /\ [][Next]_vars

\* A timer that is set ticks every second, the passes' steps are taken and calls
\* on a working connection are answered.  Nobody promises to check, to show, to
\* send, to stop, or that a late call arrives.
Fairness ==
  /\ WF_vars(Tick) /\ WF_vars(ServePull) /\ WF_vars(ReceivePull)
  /\ WF_vars(Import) /\ WF_vars(ImportFails) /\ WF_vars(EndImport)
  /\ WF_vars(Acknowledge) /\ WF_vars(DeliverMail)

FairSpec == Spec /\ Fairness

----------------------------------------------------------------------------
(* Properties *)

Rows(kinds) == [id : Nat, kind : kinds]

TypeOK ==
  /\ relay \in Seq(Rows(Kinds)) /\ acked \in 0 .. Len(relay)
  /\ Len(relay) - acked <= Limit
  /\ att \in {"ready", "stopping", "stopped", "stop_unknown"} \union Outcomes
  /\ mail \in Seq(Nat) /\ mailCursor \in Nat /\ epoch \in Nat \ {0}
  /\ sends \in 0 .. MaxSends
  /\ imported \in 0 .. Len(relay) /\ inbox \in Seq(Rows(Kinds))
  /\ home \in {"ready", "stopping", "stopped", "stop_unknown"} \union Outcomes /\ timer \in BOOLEAN
  /\ queued \in 0 .. MaxMail /\ outAcked \in 0 .. queued
  /\ faults \in 0 .. MaxFaults

\* Every row reaches the Run's mailbox once and in order, although it is pulled
\* again after every lost acknowledgement; only a heartbeat's row may differ,
\* when a report took it over after the heartbeat was imported.
InOrder ==
  /\ Len(inbox) = imported
  /\ \A s \in DOMAIN inbox :
       \/ inbox[s] = relay[s]
       \/ inbox[s].kind = "heartbeat" /\ relay[s].kind \in WorkerDone

\* The worker's server drops a row from the relay only when the home has imported
\* that sequence number, whatever late, repeated or torn acknowledgement it serves.
AckedIsImported == acked <= imported

\* What the home believes acknowledged under the worker's current epoch, and so
\* does not acknowledge again, is acknowledged.
CheckpointIsSound == checkpoint.through <= acked

\* The two servers never settle one Dispatch differently: the attachment and a
\* sender's verdict follow the home's, and a stop the home recorded is real.
NoSplitVerdict ==
  /\ att \in Outcomes => home = att
  /\ home = "stopped" => att = "stopped"

\* The home acknowledges coordinator mail only when the worker's server stored it.
MailIsStored == outAcked <= mailCursor /\ mailCursor <= Len(mail)

Channel == INSTANCE RelayChannel WITH sent <- queued, received <- mail

\* Mail to the worker is an exactly-once, in-order channel.
MailImplementsChannel == Channel!Spec

\* A pass fails at what only another message gets it past: a row that a report
\* took over after its import; the acknowledgement of rows already dropped, which
\* no longer carries their verdicts; a call whose receipt a crash left pending.
Stuck ==
  \/ \E s \in (acked + 1) .. imported : inbox[s] # relay[s]
  \/ /\ acked = imported /\ checkpoint # [epoch |-> epoch, through |-> imported]
     /\ LedgerRefuses(AckCall(imported, {}))
  \/ \E call \in pending :
       call.key = IF call.method = "ack" THEN imported ELSE MinOf(outAcked + Window, queued)

\* After a home restart, or a start that worker-show reconciled, nothing sets the
\* timer until the coordinator checks, shows, sends or answers.
NobodyAsks == []~timer

\* A message the worker's server accepted reaches the Run's mailbox while the
\* Dispatch is active, over every lost, late or torn call and every restart, unless
\* the relay is stuck for good or nobody asks the home for it again.
Relayed ==
  \A s \in 1 .. MaxSends :
    [](s <= Len(relay) => <>(s <= imported \/ ~Relaying \/ []Stuck \/ NobodyAsks))

\* Mail the coordinator queued reaches a ready worker, unless the relay is stuck for
\* good, or the home restarts behind the mail and nobody asks it again.
MailDelivered ==
  \A m \in 1 .. MaxMail :
    [](m <= queued => <>(m <= mailCursor \/ home # "ready" \/ []Stuck \/ NobodyAsks))

\* Refuted by the code: what was acknowledged has been imported, the row and not
\* only its number.
AckedRowIsImported == \A s \in 1 .. acked : Known(relay[s].id)
=============================================================================
