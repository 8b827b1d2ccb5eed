----------------------------- MODULE PtySource -----------------------------
(***************************************************************************)
(* One terminal of the SSH relay and the desktop client that owns it: the  *)
(* output queue of the terminal, the delivery record with its credit       *)
(* ledger, the frames on the connection, detaching, the recovery of a      *)
(* delivery on another connection, and the publication of the exit.        *)
(*                                                                         *)
(* Output is counted in units, numbered as the program writes them; a      *)
(* position is the number of units before it, where the code counts from   *)
(* the start of each delivery.  0 stands for "no position", which is safe  *)
(* because no frame, credit or recovery ends there.  A legacy subscriber   *)
(* is connected all the time and only its exits are counted.               *)
(*                                                                         *)
(* Callbacks run synchronously in the code, so a step applies the          *)
(* operators below to the whole record relay, one inside the other, as the *)
(* functions call each other.  The room the writers have is one choice for *)
(* the whole step (Rooms): nothing drains while the relay's thread runs.   *)
(***************************************************************************)
EXTENDS Naturals, Sequences, FiniteSets, FiniteSetsExt

CONSTANTS
  MaxUnits,     \* bound: units the program writes
  Window,       \* units in flight a client grants (DEFAULT_PTY_SOURCE_WINDOW_SU)
  Retain,       \* units a record keeps (DEFAULT_RETAINED_SOURCE_SU, two windows)
  MaxConns,     \* bound: connections the client makes
  MaxRefusals   \* bound: steps in which a writer has too little room

ASSUME PtyAssumption ==
  /\ {MaxUnits, Window, Retain, MaxConns} \subseteq Nat \ {0}
  /\ MaxRefusals \in Nat
  /\ Window <= Retain

VARIABLES
  pty,       \* the program: the units it has written, whether it runs
  relay,     \* the relay's memory of this terminal and the frames it has sent
  client,    \* the desktop's side: its mode, its delivery, the units it shows
  refusals   \* steps so far in which a writer had too little room

vars == <<pty, relay, client, refusals>>

Positions == 0 .. MaxUnits
Chunks == {<<n>> : n \in 1 .. MaxUnits} \cup {<<n, n + 1>> : n \in 1 .. MaxUnits - 1}

\* What the writers take in one step: every frame, only the small ones (exits and
\* notices), or none; and the longest data frame for the room that is left.
Rooms == [fits : {"all"}, size : 1 .. 2] \cup [fits : {"small", "none"}, size : {1}]

Free == [fits |-> "all", size |-> 2]

NoRecord == [token |-> 0, conn |-> 0, state |-> "closed", received |-> 0, sent |-> 0,
             credited |-> 0, held |-> <<>>, ends |-> {}, boundaries |-> {}, pending |-> 0,
             attempted |-> 0, reserved |-> 0, activating |-> FALSE, asked |-> FALSE,
             recoveryEnd |-> 0, completing |-> FALSE, exit |-> "idle",
             legacyExit |-> FALSE, restore |-> FALSE]

\* A delivery opened for connection c that starts at position at.
Opened(token, c, at) ==
  [NoRecord EXCEPT !.token = token, !.conn = c, !.state = "active", !.received = at,
     !.sent = at, !.credited = at, !.boundaries = {at}, !.activating = TRUE]

NoCheckpoint == [token |-> 0, end |-> 0]

\* What a recovering client keeps back: the units of its frames and where they end.
NoBuffer == [units |-> <<>>, ends |-> {}]

Init ==
  /\ pty = [written |-> 0, alive |-> TRUE]
  /\ relay = [record |-> NoRecord, queue |-> <<>>, timer |-> FALSE, exit |-> "none",
              projected |-> FALSE, conn |-> 0, wire |-> <<>>, reply |-> FALSE,
              tokens |-> 0, conns |-> 0, subscriber |-> 0]
  /\ client = [mode |-> "down", token |-> 0, next |-> 0, end |-> 0, buffer |-> NoBuffer,
               shown |-> <<>>, checkpoint |-> NoCheckpoint, owed |-> {}, exits |-> 0,
               exitBy |-> "none"]
  /\ refusals = 0

-----------------------------------------------------------------------------
\* What one call of the relay does to its state.

\* The record's client is connected.
Reaches(r) == r.conn # 0 /\ r.record.conn = r.conn

\* The relay has an owner's connection and writes frame to it.
Write(r, frame) == IF r.conn = 0 THEN r ELSE [r EXCEPT !.wire = Append(@, frame)]

\* The legacy broadcast of an exit is all or nothing over the clients.
Broadcast(r, room) ==
  IF room.fits = "none" THEN r
  ELSE Write([r EXCEPT !.record = NoRecord, !.exit = "done", !.projected = FALSE,
                       !.subscriber = @ + 1], [kind |-> "exit", by |-> "broadcast"])

\* The exit goes to the owner alone: the subscribers have it.
ToOwner(r, room) ==
  IF r.conn # 0 /\ room.fits = "none" THEN r
  ELSE Write([r EXCEPT !.record = NoRecord, !.exit = "done", !.projected = FALSE],
             [kind |-> "exit", by |-> "broadcast"])

\* MUTANT: the index of projected exits is not consulted.
AfterRetireForgets(r, room) == Broadcast(r, room)

AfterRetire(r, room) == IF r.projected THEN ToOwner(r, room) ELSE Broadcast(r, room)

\* MUTANT: the window is measured from what was sent, not from what was credited.
FrameEndOpenWindow(r, room) ==
  LET d    == r.record
      most == IF Reaches(r) THEN room.size ELSE 1
      take == IF d.reserved = 0 THEN Min({Window, most}) ELSE d.reserved - d.sent
  IN  IF d.state = "closed" \/ d.sent >= d.received \/ take > Min({Window, most}) THEN 0
      ELSE Min({Min({s \in d.ends : s > d.sent}), d.sent + take})

\* The end of the next frame, or 0: within the span that holds the first unsent
\* unit, the window and the longest frame; after an early ACK the same frame again.
FrameEnd(r, room) ==
  LET d    == r.record
      left == Window - (d.sent - d.credited)
      most == IF Reaches(r) THEN room.size ELSE 1
      take == IF d.reserved = 0 THEN Min({left, most}) ELSE d.reserved - d.sent
  IN  IF \/ d.state = "closed" \/ d.sent >= d.received \/ left <= 0
         \/ take = 0 \/ take > Min({left, most})
      THEN 0
      ELSE Min({Min({s \in d.ends : s > d.sent}), d.sent + take})

\* The notice that a recovery has sent everything.
CompleteRecovery(r, room) ==
  LET d == r.record
  IN  IF /\ ~d.activating /\ d.pending = 0 /\ ~d.completing
         /\ d.recoveryEnd # 0 /\ d.sent >= d.recoveryEnd
         /\ Reaches(r) /\ room.fits # "none"
      THEN Write([r EXCEPT !.record.completing = TRUE],
                 [kind |-> "complete", token |-> d.token])
      ELSE r

\* Sends the next frame.  A refused frame rolls its reservation back, but remembers
\* its end, and reports capacity: with output queued the flush is scheduled; with
\* nothing queued and the exit pending the report seals and pumps again, is refused
\* again, and so on until the stack is exhausted; the fault retires the record and
\* publishes the exit without it.
Pump(r, room) ==
  LET d   == r.record
      end == FrameEnd(r, room)
  IN  IF d.token = 0 \/ d.activating \/ d.pending # 0 \/ d.restore THEN r
      ELSE IF d.recoveryEnd # 0 /\ d.sent >= d.recoveryEnd THEN CompleteRecovery(r, room)
      ELSE IF end = 0 THEN r
      ELSE IF Reaches(r) /\ room.fits = "all"
      THEN Write([r EXCEPT !.record.pending = end, !.record.attempted = end],
                 [kind |-> "data", token |-> d.token, start |-> d.sent,
                  units |-> SubSeq(d.held, d.sent - d.credited + 1, end - d.credited)])
      ELSE IF r.queue # <<>> THEN [r EXCEPT !.record.attempted = end, !.timer = TRUE]
      ELSE IF r.exit = "pending" THEN AfterRetire([r EXCEPT !.record = NoRecord], room)
      ELSE [r EXCEPT !.record.attempted = end]

\* MUTANT: the exit does not wait for the frame in flight and the unsent suffix.
SealAndPublishExitAtOnce(r, room) ==
  LET p == Pump([r EXCEPT !.record.state = "sealed"], room)
      q == IF p.record.legacyExit THEN p
           ELSE [p EXCEPT !.record.legacyExit = TRUE, !.projected = TRUE,
                          !.subscriber = @ + 1]
  IN  IF p.record.token # 0 /\ Reaches(q) /\ room.fits # "none"
      THEN Write([q EXCEPT !.record.exit = "pending"], [kind |-> "exit", by |-> "source"])
      ELSE q

\* Seals the delivery, sends what it can, and once everything is sent projects the
\* exit to the subscribers, one time, and sends the owner its exit frame.
SealAndPublishExit(r, room) ==
  LET p == Pump([r EXCEPT !.record.state = "sealed"], room)
      q == IF p.record.legacyExit THEN p
           ELSE [p EXCEPT !.record.legacyExit = TRUE, !.projected = TRUE,
                          !.subscriber = @ + 1]
  IN  IF p.record.token = 0 \/ p.record.sent # p.record.received THEN p
      ELSE IF Reaches(q) /\ room.fits # "none"
      THEN Write([q EXCEPT !.record.exit = "pending"], [kind |-> "exit", by |-> "source"])
      ELSE q

Prune(r) == IF r.record.state = "closed" THEN [r EXCEPT !.record = NoRecord] ELSE r

PublishPendingExit(r, room) ==
  LET d == r.record
  IN  IF r.queue # <<>> \/ r.exit # "pending" THEN r
      ELSE IF d.token = 0 THEN AfterRetire(r, room)
      ELSE IF d.exit = "published"
      THEN Prune([r EXCEPT !.exit = "done", !.projected = FALSE])
      ELSE IF d.restore THEN Broadcast(r, room)
      ELSE IF d.exit = "pending" THEN r
      ELSE IF d.state = "closed"
      THEN IF d.legacyExit THEN ToOwner(r, room) ELSE Broadcast(r, room)
      ELSE SealAndPublishExit(r, room)

\* MUTANT: capacity only schedules the flush.
OnCapacityFlushOnly(r, room) == [r EXCEPT !.timer = @ \/ r.queue # <<>>]

\* MUTANT: capacity only tries the exit.
OnCapacityExitOnly(r, room) == PublishPendingExit(r, room)

\* The callback onCapacity: schedules the flush and tries the exit.
OnCapacity(r, room) ==
  PublishPendingExit([r EXCEPT !.timer = @ \/ r.queue # <<>>], room)

\* MUTANT: a credit does not resume the delivery.
OnCreditIdle(r, room) ==
  LET d == r.record
  IN  IF d.token = 0 \/ d.restore \/ d.exit = "pending" THEN r
      ELSE OnCapacity(IF d.exit = "idle" /\ d.legacyExit THEN r ELSE Prune(r), room)

\* A credit came, or the delivery was canceled under the record.
OnCredit(r, room) ==
  LET d == r.record
  IN  IF d.token = 0 \/ d.restore \/ d.exit = "pending" THEN r
      ELSE IF d.state = "closed"
      THEN OnCapacity(IF d.exit = "idle" /\ d.legacyExit THEN r ELSE Prune(r), room)
      ELSE OnCapacity(Pump(r, room), room)

Cancel(r) == [r EXCEPT !.record.state = "closed", !.record.pending = 0,
                       !.record.held = <<>>, !.record.ends = {}]

\* MUTANT: one unit beyond the credit is reclaimed.
CreditOneMore(d, end) ==
  [d EXCEPT !.credited = end, !.boundaries = {b \in @ : b >= end}, !.ends = {s \in @ : s > end},
            !.held = SubSeq(@, end - d.credited + 2, Len(@))]

Credit(d, end) ==
  [d EXCEPT !.credited = end, !.boundaries = {b \in @ : b >= end}, !.ends = {s \in @ : s > end},
            !.held = SubSeq(@, end - d.credited + 1, Len(@))]

\* A sealed delivery whose exit and whose last unit are settled closes.
MaybeClose(r) ==
  IF /\ r.record.state = "sealed" /\ r.record.exit = "published"
     /\ r.record.credited = r.record.received
  THEN Cancel(r) ELSE r

\* The delivery takes a chunk, unless it is sealed, recovering or full; without a
\* record the chunk goes to the subscribers.
CanPublish(r, chunk, room) ==
  LET d == r.record
  IN  IF d.token = 0 THEN room.fits = "all"
      ELSE /\ d.state = "active" /\ d.recoveryEnd = 0 /\ ~d.restore
           /\ d.received + Len(chunk) - d.credited <= Retain

Publish(r, chunk, room) ==
  IF r.record.token = 0 THEN r
  ELSE Pump([r EXCEPT !.record.received = @ + Len(chunk), !.record.held = @ \o chunk,
                      !.record.ends = @ \cup {r.record.received + Len(chunk)}], room)

-----------------------------------------------------------------------------
\* Steps of the program and of the relay.

\* The room of a step, within the bound on refusals.
Room(room) ==
  /\ room.fits # "all" => refusals < MaxRefusals
  /\ refusals' = refusals + (IF room.fits = "all" THEN 0 ELSE 1)

PtyOutput(n) ==
  /\ pty.alive /\ pty.written + n <= MaxUnits
  /\ pty' = [pty EXCEPT !.written = @ + n]
  /\ relay' = [relay EXCEPT !.timer = TRUE,
                            !.queue = Append(@, [i \in 1 .. n |-> pty.written + i])]
  /\ UNCHANGED <<client, refusals>>

\* The timer of flushPendingOutput.  It takes the queue out of the map while it
\* publishes the first chunk, so that a callback meanwhile finds no queue.
FlushPendingOutput(room) ==
  LET chunk == Head(relay.queue)
      taken == [relay EXCEPT !.queue = <<>>, !.timer = FALSE]
      after == [Publish(taken, chunk, room) EXCEPT !.queue = Tail(relay.queue)]
  IN  /\ relay.timer /\ relay.queue # <<>>
      /\ relay' = IF ~CanPublish(relay, chunk, room) THEN [relay EXCEPT !.timer = FALSE]
                  ELSE IF after.queue = <<>> THEN PublishPendingExit(after, room)
                  ELSE [after EXCEPT !.timer = TRUE]
      /\ Room(room)
      /\ UNCHANGED <<pty, client>>

\* onExit flushes one chunk in place and tries to publish the exit.
PtyExit(room) ==
  LET chunk   == Head(relay.queue)
      flushed == IF relay.queue = <<>> \/ ~CanPublish(relay, chunk, room) THEN relay
                 ELSE LET p == Publish(relay, chunk, room)
                      IN  [p EXCEPT !.queue = Tail(@), !.timer = @ /\ Len(relay.queue) > 1]
  IN  /\ pty.alive
      /\ pty' = [pty EXCEPT !.alive = FALSE]
      /\ relay' = PublishPendingExit([flushed EXCEPT !.exit = "pending"], room)
      /\ Room(room)
      /\ UNCHANGED client

\* The frame in flight was written: commit, settle an early ACK, go on.
WriteSettled(room) ==
  LET d    == relay.record
      sent == [d EXCEPT !.sent = d.pending, !.boundaries = @ \cup {d.pending},
                        !.pending = 0, !.attempted = 0, !.reserved = 0]
      r    == [relay EXCEPT !.record = IF d.reserved = 0 THEN sent
                                       ELSE Credit(sent, d.reserved)]
  IN  /\ d.pending # 0 /\ Reaches(relay)
      /\ relay' = Pump(OnCapacity(CompleteRecovery(r, room), room), room)
      /\ Room(room)
      /\ UNCHANGED <<pty, client>>

\* The notice of completion was written.
CompletionSettled(room) ==
  /\ relay.record.completing /\ Reaches(relay)
  /\ relay' = Pump(OnCapacity([relay EXCEPT !.record.completing = FALSE,
                                            !.record.recoveryEnd = 0], room), room)
  /\ Room(room)
  /\ UNCHANGED <<pty, client>>

\* The exit frame was written.
ExitSettled(room) ==
  /\ relay.record.exit = "pending" /\ Reaches(relay)
  /\ relay' = OnCapacity(MaybeClose([relay EXCEPT !.record.exit = "published"]), room)
  /\ Room(room)
  /\ UNCHANGED <<pty, client>>

\* The reply to an attach was written: the delivery starts, or the canceled record
\* is dropped.
ReplySettled(room) ==
  LET d == relay.record
      r == [relay EXCEPT !.reply = FALSE]
  IN  /\ relay.reply
      /\ relay' = IF d.activating /\ Reaches(relay)
                  THEN LET s == [r EXCEPT !.record.activating = FALSE]
                       IN  OnCapacity(Pump(CompleteRecovery(s, room), room), room)
                  ELSE IF d.restore THEN OnCapacity([r EXCEPT !.record = NoRecord], room)
                  ELSE r
      /\ Room(room)
      /\ UNCHANGED <<pty, client>>

\* A cumulative ACK of a frame the client has shown.  It may come before the write
\* of that frame is settled, and is kept until then.
AckData(end, room) ==
  LET d        == relay.record
      reserved == IF d.pending # 0 THEN d.pending ELSE d.reserved
  IN  /\ client' = [client EXCEPT !.owed = {e \in @ : e > end}]
      /\ relay' = IF \/ d.token # client.token \/ ~Reaches(relay) \/ d.state = "closed"
                     \/ end <= d.credited
                     \/ end > d.sent /\ end # reserved
                     \/ end <= d.sent /\ end \notin d.boundaries
                  THEN relay
                  ELSE IF end > d.sent THEN [relay EXCEPT !.record.reserved = end]
                  ELSE OnCredit(MaybeClose([relay EXCEPT !.record = Credit(d, end)]), room)
      /\ Room(room)
      /\ UNCHANGED pty

\* A writer drained: the handler and the scheduler try again what was refused, except
\* the next frame of a delivery.
AfterCapacity(room) == CompleteRecovery(OnCapacity(relay, room), room)

LegacyCapacity(room) ==
  /\ relay' = AfterCapacity(room)
  /\ relay' # relay
  /\ Room(room)
  /\ UNCHANGED <<pty, client>>

-----------------------------------------------------------------------------
\* Connections.

Connect ==
  /\ relay.conn = 0 /\ relay.conns < MaxConns
  /\ relay' = [relay EXCEPT !.conn = relay.conns + 1, !.conns = @ + 1]
  /\ client' = [client EXCEPT !.exits = 0,
                  !.mode = IF @ = "exited" THEN @
                           ELSE IF relay.conns = 0 THEN "detached" ELSE "reconnected"]
  /\ UNCHANGED <<pty, refusals>>

\* The connection is lost with the frames on it: the write in flight is rolled back
\* and reports capacity, the unwritten notice, exit frame and reply are undone.  A
\* first activation whose reply was not written is canceled; a recovery stays.
Disconnect ==
  LET d     == relay.record
      off   == [relay EXCEPT !.conn = 0, !.wire = <<>>, !.reply = FALSE]
      undo  == [off EXCEPT !.record.pending = 0, !.record.completing = FALSE,
                           !.record.exit = IF @ = "pending" THEN "idle" ELSE @]
      room  == [fits |-> "small", size |-> 1]
  IN  /\ relay.conn # 0
      /\ relay' = IF d.restore /\ relay.reply
                  THEN OnCapacity([off EXCEPT !.record = NoRecord], room)
                  ELSE IF ~Reaches(relay) THEN off
                  ELSE IF d.activating /\ ~d.asked THEN [off EXCEPT !.record = NoRecord]
                  ELSE IF d.pending # 0 THEN OnCapacity(undo, room)
                  ELSE undo
      /\ client' = [client EXCEPT !.mode = IF @ = "exited" THEN @ ELSE "down",
                                  !.owed = {}, !.buffer = NoBuffer]
      /\ UNCHANGED <<pty, refusals>>

\* Thirty seconds after its owner was lost the delivery is canceled.
GraceExpiry(room) ==
  /\ relay.record.token # 0 /\ ~Reaches(relay) /\ relay.record.state # "closed"
  /\ relay' = OnCredit(Cancel(relay), room)
  /\ Room(room)
  /\ UNCHANGED <<pty, client>>

\* The checkpoint lies on a frame that was sent, or on the last one attempted.
Covered(d, checkpoint) ==
  /\ d.token = checkpoint.token /\ d.state # "closed" /\ d.pending = 0
  /\ checkpoint.end >= d.credited
  /\ checkpoint.end \in d.boundaries \/ checkpoint.end = d.attempted

\* MUTANT: the replacement keeps the spans from the old credit on.
ReplacementUncut(d, token, c, at) ==
  [Opened(token, c, at) EXCEPT
     !.received = d.received, !.recoveryEnd = d.received, !.asked = TRUE,
     !.held = d.held, !.ends = d.ends]

\* The replacement of a delivery at the client's checkpoint, in connection c.
Replacement(d, token, c, at) ==
  [Opened(token, c, at) EXCEPT
     !.received = d.received, !.recoveryEnd = d.received, !.asked = TRUE,
     !.held = SubSeq(d.held, at - d.credited + 1, Len(d.held)), !.ends = {s \in d.ends : s > at}]

\* The client attaches: it asks to recover from its checkpoint after a reconnect, and
\* for a replay of the screen otherwise.  The relay answers with a replacement of the
\* delivery, with a new one and a replay, or that the screen must be restored.
Attach ==
  LET d       == relay.record
      token   == relay.tokens + 1
      recover == client.mode = "reconnected"
      answer(r, reply) == Write([r EXCEPT !.reply = TRUE], reply)
  IN  /\ client.mode \in {"reconnected", "detached"} /\ ~relay.reply
      /\ IF ~pty.alive
         THEN /\ client' = [client EXCEPT !.mode = "exited", !.exitBy = "notFound"]
              /\ relay' = relay
         ELSE /\ client' = [client EXCEPT !.mode = "asking"]
              /\ relay' =
                   IF d.token = 0 /\ ~recover
                   THEN answer([relay EXCEPT !.tokens = token, !.queue = <<>>, !.timer = FALSE,
                                  !.record = Opened(token, relay.conn, pty.written)],
                               [kind |-> "opened", token |-> token, start |-> pty.written])
                   ELSE IF recover /\ d.token # 0 /\ Covered(d, client.checkpoint)
                   THEN LET at == client.checkpoint.end
                        IN  answer([relay EXCEPT !.tokens = token,
                                      !.record = Replacement(d, token, relay.conn, at)],
                                   [kind |-> "recovery", token |-> token, start |-> at,
                                    end |-> d.received])
                   ELSE LET r == IF d.token = 0 THEN relay
                                 ELSE [Cancel(relay) EXCEPT !.record.restore = TRUE,
                                         !.record.activating = FALSE, !.record.recoveryEnd = 0]
                        IN  OnCapacity(answer(r, [kind |-> "restore"]), Free)
      /\ UNCHANGED <<pty, refusals>>

-----------------------------------------------------------------------------
\* Steps of the client.

Show(c, units, end) ==
  [c EXCEPT !.shown = @ \o units, !.checkpoint = [token |-> c.token, end |-> end],
            !.owed = @ \cup {end}, !.next = end]

\* A data frame of another delivery is dropped; one that does not start where the
\* last one ended is rejected by a live client, and spoils a recovery.
TakeData(c, f) ==
  LET end == f.start + Len(f.units)
  IN  IF c.mode \notin {"live", "recovering"} \/ f.token # c.token THEN c
      ELSE IF f.start # c.next THEN [c EXCEPT !.mode = "rejected"]
      ELSE IF c.mode = "live" THEN Show(c, f.units, end)
      ELSE [c EXCEPT !.next = end, !.buffer = [units |-> @.units \o f.units,
                                               ends |-> @.ends \cup {end}]]

\* The end of a recovery: the frames kept back are shown, and each is acknowledged.
TakeComplete(c) ==
  [c EXCEPT !.mode = "live", !.shown = @ \o c.buffer.units, !.owed = @ \cup c.buffer.ends,
            !.checkpoint = [token |-> c.token, end |-> c.end], !.buffer = NoBuffer]

Take(c, f) ==
  CASE f.kind = "data" -> TakeData(c, f)
    [] f.kind = "opened" ->
         [c EXCEPT !.mode = "live", !.token = f.token, !.next = f.start, !.owed = {},
                   !.shown = [i \in 1 .. f.start |-> i], !.checkpoint = NoCheckpoint]
    [] f.kind = "recovery" ->
         [c EXCEPT !.mode = "recovering", !.token = f.token, !.next = f.start,
                   !.end = f.end, !.owed = {}]
    [] f.kind = "restore" -> [c EXCEPT !.mode = "detached", !.checkpoint = NoCheckpoint]
    [] f.kind = "complete" ->
         IF c.mode = "recovering" /\ f.token = c.token /\ c.next = c.end
         THEN TakeComplete(c) ELSE c
    [] f.kind = "exit" ->
         LET e == IF c.mode = "recovering" /\ c.next = c.end THEN TakeComplete(c) ELSE c
         IN  [e EXCEPT !.mode = "exited", !.exits = @ + 1,
                       !.exitBy = IF c.mode = "exited" THEN @
                                  ELSE IF \/ c.mode = "live"
                                          \/ c.mode = "recovering" /\ f.by = "source"
                                  THEN f.by ELSE "early"]

Receive ==
  /\ relay.wire # <<>>
  /\ client' = Take(client, Head(relay.wire))
  /\ relay' = [relay EXCEPT !.wire = Tail(@)]
  /\ UNCHANGED <<pty, refusals>>

\* A recovery that does not end in time is canceled, and its checkpoint forgotten.
AbandonRecovery(room) ==
  /\ client.mode = "recovering"
  /\ client' = [client EXCEPT !.mode = "detached", !.checkpoint = NoCheckpoint,
                              !.buffer = NoBuffer]
  /\ relay' = IF relay.record.token = client.token /\ relay.record.state # "closed"
              THEN OnCredit(Cancel(relay), room) ELSE relay
  /\ Room(room)
  /\ UNCHANGED pty

Next ==
  \/ \E n \in 1 .. 2 : PtyOutput(n)
  \/ Connect \/ Disconnect \/ Attach \/ Receive
  \/ \E room \in Rooms :
       \/ FlushPendingOutput(room) \/ PtyExit(room)
       \/ WriteSettled(room) \/ CompletionSettled(room) \/ ExitSettled(room)
       \/ ReplySettled(room) \/ LegacyCapacity(room)
       \/ GraceExpiry(room) \/ AbandonRecovery(room)
       \/ \E end \in client.owed : AckData(end, room)

\* What the relay and the client have begun ends: frames arrive, writes settle, shown
\* frames are acknowledged, the timers of the grace and of a recovery run out.
Settle ==
  \/ Receive
  \/ WriteSettled(Free) \/ CompletionSettled(Free) \/ ExitSettled(Free) \/ ReplySettled(Free)
  \/ GraceExpiry(Free) \/ AbandonRecovery(Free)
  \/ \E end \in client.owed : AckData(end, Free)

\* Settle can take a step.
Unsettled ==
  LET d == relay.record
  IN  \/ relay.wire # <<>> \/ relay.reply \/ client.mode = "recovering" \/ client.owed # {}
      \/ Reaches(relay) /\ (d.pending # 0 \/ d.completing \/ d.exit = "pending")
      \/ d.token # 0 /\ ~Reaches(relay) /\ d.state # "closed"

\* Weak fairness of Settle (no step of it undoes another, so one condition is fair to
\* all), of the flush timer and of drained writers.  Connections, attaching, output and
\* exit come as they like.  The conditions are WF_vars(Settle), WF_vars(
\* FlushPendingOutput(Free)) and WF_vars(LegacyCapacity(Free)) with ENABLED spelled
\* out: TLC evaluates the operators inside an ENABLED once for every use of them.
Fairness ==
  /\ []<>~Unsettled \/ []<><<Settle>>_vars
  /\ []<>~(relay.timer /\ relay.queue # <<>>) \/ []<><<FlushPendingOutput(Free)>>_vars
  /\ []<>(AfterCapacity(Free) = relay) \/ []<><<LegacyCapacity(Free)>>_vars

Spec == Init /\ [][Next]_vars
FairSpec == Spec /\ Fairness

-----------------------------------------------------------------------------
RecordType ==
  [token : 0 .. 2 * MaxConns, conn : 0 .. MaxConns, state : {"active", "sealed", "closed"},
   received : Positions, sent : Positions, credited : Positions, held : Seq(1 .. MaxUnits),
   ends : SUBSET Positions, boundaries : SUBSET Positions, pending : Positions,
   attempted : Positions, reserved : Positions, activating : BOOLEAN, asked : BOOLEAN,
   recoveryEnd : Positions, completing : BOOLEAN,
   exit : {"idle", "pending", "published"}, legacyExit : BOOLEAN, restore : BOOLEAN]

\* The values of the state, the order of a delivery's positions, and the limits: never
\* more in flight than the window, never more kept than the retention.
TypeOK ==
  /\ pty \in [written : Positions, alive : BOOLEAN]
  /\ relay.record \in RecordType
  /\ relay.queue \in Seq(Chunks)
  /\ relay.exit \in {"none", "pending", "done"}
  /\ client.mode \in {"down", "reconnected", "detached", "asking", "recovering", "live",
                       "exited", "rejected"}
  /\ LET d == relay.record
     IN  /\ d.credited <= d.sent /\ d.sent <= d.received
         /\ d.sent - d.credited <= Window
         /\ d.pending # 0 => d.pending \in d.sent + 1 .. d.credited + Window
         /\ d.received - d.credited <= Retain

\* What the owner shows is the program's output from the start, no unit lost, twice or
\* out of order, over every loss of connection, rollback and recovery; and no frame
\* of its delivery is ever rejected.
StreamIsExact ==
  /\ client.shown = [i \in 1 .. Len(client.shown) |-> i]
  /\ client.mode # "rejected"

\* The queue holds the output after position at, chunk after chunk.
QueueIsOutputAfter(r, p, at) ==
  LET Before(i) == IF i = 1 THEN at ELSE r.queue[i - 1][Len(r.queue[i - 1])]
  IN  /\ \A i \in 1 .. Len(r.queue) : r.queue[i][1] = Before(i) + 1
      /\ Before(Len(r.queue) + 1) = p.written

\* The relay gives up nothing the owner may ask for again: while a delivery is open, all
\* output after what its client has shown is in the record or in the queue.
NothingReclaimedEarly ==
  LET d == relay.record
  IN  d.token # 0 /\ d.state # "closed" /\ d.token = client.checkpoint.token =>
        /\ d.credited <= client.checkpoint.end
        /\ d.held = [i \in 1 .. d.received - d.credited |-> d.credited + i]
        /\ Len(client.shown) = client.checkpoint.end
        /\ QueueIsOutputAfter(relay, pty, d.received)

Stream == INSTANCE TerminalStream
            WITH written <- pty.written, alive <- pty.alive,
                 shown <- client.shown, ended <- client.exitBy = "source"

\* The delivery implements TerminalStream: what an owner sees is never taken back, not by
\* a replay either, the exit frame of the delivery reaches it after all output, and nothing
\* is shown after that.
ImplementsStream == Stream!Spec

\* A subscriber hears of the exit at most once, and the owner once on a connection.
ExitOnce ==
  /\ relay.subscriber <= 1
  /\ client.exits + Cardinality({i \in DOMAIN relay.wire : relay.wire[i].kind = "exit"}) <= 1

\* A frame could go to the connected owner and none is in flight.
Stalled ==
  /\ Reaches(relay) /\ ~relay.record.activating /\ ~relay.record.restore
  /\ relay.record.pending = 0 /\ FrameEnd(relay, Free) # 0

\* Every event that lets a frame go sends one: credit, output, a settled write, a settled
\* reply, the end of a recovery.  Only a refusal leaves a frame behind.
SendsWhatItCan == Stalled => refusals > 0

\* The exit of the program is published in the end, whatever is left of its output,
\* unless a refused frame is left behind: writers that drain schedule the flush, which
\* sends nothing while the record is full.
PendingExitRetired == relay.exit = "pending" ~> relay.exit = "done" \/ Stalled

\* An owner that stays attached sees all output, unless a refused frame is left behind.
LiveCatchesUp == []<>(client.mode # "live" \/ Len(client.shown) = pty.written \/ Stalled)

\* Refuted by the code: a live owner hears of the exit after all output.
ExitFollowsData == client.exitBy = "broadcast" => Len(client.shown) = pty.written
=============================================================================
