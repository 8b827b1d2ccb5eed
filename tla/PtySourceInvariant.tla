------------------------- MODULE PtySourceInvariant -------------------------
(***************************************************************************)
(* The inductive invariant of PtySource.                                    *)
(*                                                                          *)
(* The steps of the relay are compositions of operators on its record r, so *)
(* the invariant is stated of any record r, client c and program p, and not *)
(* of the variables: each operator can then be shown to keep it.            *)
(***************************************************************************)
EXTENDS PtySource

-----------------------------------------------------------------------------
(* The inductive invariant                                                  *)

Answer == {"opened", "recovery", "restore"}

Frame ==
  [kind : {"data"}, token : Nat, start : Nat, units : Seq(Nat)]
    \cup [kind : {"opened"}, token : Nat, start : Nat]
    \cup [kind : {"recovery"}, token : Nat, start : Nat, end : Nat]
    \cup [kind : {"restore"}]
    \cup [kind : {"complete"}, token : Nat]
    \cup [kind : {"exit"}, by : {"source", "broadcast"}]

RelayType ==
  [record : RecordType, queue : Seq(Chunks), timer : BOOLEAN,
   exit : {"none", "pending", "done"}, projected : BOOLEAN, conn : 0 .. MaxConns,
   wire : Seq(Frame), reply : BOOLEAN, tokens : Nat, conns : 0 .. MaxConns,
   subscriber : Nat]

ClientType ==
  [mode : {"down", "reconnected", "detached", "asking", "recovering", "live", "exited",
           "rejected"},
   token : Nat, next : Nat, end : Nat, buffer : [units : Seq(Nat), ends : SUBSET Nat],
   shown : Seq(Nat), checkpoint : [token : Nat, end : Nat], owed : SUBSET Nat,
   exits : Nat, exitBy : {"none", "source", "broadcast", "notFound", "early"}]

Program == [written : Positions, alive : BOOLEAN]

Typed(r, c, p) ==
  /\ r \in RelayType
  /\ c \in ClientType
  /\ p \in Program

\* The record by itself: its positions are in order, it holds the units between the
\* credit and the end of what it received, and its flags agree.
RecordOK(d, p) ==
  /\ d.credited <= d.sent /\ d.sent <= d.received /\ d.received <= p.written
  /\ d.sent <= d.credited + Window
  /\ d.received <= d.credited + Retain
  /\ d.pending # 0 => /\ d.state # "closed" /\ d.sent < d.pending
                      /\ d.pending <= d.credited + Window /\ d.pending <= d.received
  /\ d.reserved # 0 => d.sent < d.reserved /\ d.reserved <= d.received
  /\ d.attempted <= d.received
  /\ \A b \in d.boundaries : b <= d.sent
  /\ \A s \in d.ends : s <= d.received
  /\ d.state # "closed" =>
       /\ Len(d.held) = d.received - d.credited
       /\ \A i \in 1 .. Len(d.held) : d.held[i] = d.credited + i
       /\ d.received > d.credited => d.received \in d.ends
  /\ d.token = 0 => d = NoRecord
  /\ d.recoveryEnd # 0 => d.recoveryEnd = d.received
  /\ d.restore => d.state = "closed" /\ d.exit = "idle" /\ ~d.legacyExit /\ ~d.activating
  /\ d.exit # "idle" => d.sent = d.received /\ d.state # "active"

\* Connections: what a record waits for ends with its connection, and only then is a
\* credit kept for a frame that is not in flight.
ConnOK(r, c) ==
  LET d == r.record
  IN  /\ r.conn # 0 => r.conn = r.conns
      /\ r.conn = 0 => r.wire = <<>> /\ c.mode \in {"down", "exited"}
      /\ r.conns = 0 => c.mode \in {"down", "exited"}
      /\ d.conn <= r.conns
      /\ d.pending # 0 \/ d.completing \/ d.exit = "pending" => Reaches(r)
      /\ d.reserved # 0 /\ d.state # "closed" /\ Reaches(r) => d.pending = d.reserved
      /\ d.token # 0 => d.token = r.tokens
      /\ c.token <= r.tokens /\ c.checkpoint.token <= r.tokens

\* A connection uses at most two tokens: a recovery that is given up, and a delivery.
TokensOK(r, c) ==
  /\ r.tokens <= 2 * r.conns
  /\ c.mode = "reconnected" => r.tokens + 2 <= 2 * r.conns
  /\ c.mode \in {"detached", "recovering"} => r.tokens + 1 <= 2 * r.conns
  /\ \A i \in 1 .. Len(r.wire) :
       r.wire[i].kind \in {"recovery", "restore"} => r.tokens + 1 <= 2 * r.conns

IsExit(w, i) == i \in 1 .. Len(w) /\ w[i].kind = "exit"

\* The exit is projected once and sent once on a connection.
ExitOK(r, c, p) ==
  LET d == r.record
  IN  /\ p.alive <=> r.exit = "none"
      /\ r.exit = "none" =>
           /\ r.subscriber = 0 /\ ~r.projected /\ ~d.legacyExit /\ c.exits = 0
           /\ d.state # "sealed" /\ c.mode # "exited"
           /\ \A i \in 1 .. Len(r.wire) : ~IsExit(r.wire, i)
      /\ r.exit = "pending" => /\ r.subscriber = IF r.projected THEN 1 ELSE 0
                               /\ d.token # 0 => (r.projected <=> d.legacyExit)
      /\ r.subscriber <= 1
      /\ c.exits <= 1
      /\ \A i \in 1 .. Len(r.wire) : IsExit(r.wire, i) =>
           c.exits = 0 /\ \A j \in 1 .. Len(r.wire) : IsExit(r.wire, j) => i = j
      /\ r.conn # 0 /\ (c.exits = 1 \/ \E i \in 1 .. Len(r.wire) : IsExit(r.wire, i)) =>
           r.exit = "done" \/ d.exit # "idle"
      /\ d.exit = "pending" => r.exit = "pending"
      /\ d.exit = "published" => r.exit = "done"

\* What the client keeps and shows.
ClientOK(c, p) ==
  /\ Len(c.shown) <= p.written
  /\ \A i \in 1 .. Len(c.shown) : c.shown[i] = i
  /\ c.mode # "rejected"
  /\ c.mode = "live" => c.next = Len(c.shown)
  /\ c.mode = "recovering" =>
       /\ c.end > 0
       /\ c.next = Len(c.shown) + Len(c.buffer.units)
       /\ \A i \in 1 .. Len(c.buffer.units) : c.buffer.units[i] = Len(c.shown) + i
       /\ \A e \in c.buffer.ends : e <= c.next
  /\ c.mode \in {"live", "recovering"} => c.token # 0 /\ c.next <= p.written
  /\ c.mode \notin {"recovering", "exited"} => c.buffer = NoBuffer
  /\ c.checkpoint.token # 0 => c.checkpoint.end = Len(c.shown) /\ c.checkpoint.end > 0
  /\ c.owed # {} => c.checkpoint.token = c.token /\ c.token # 0
  /\ c.mode \notin {"live", "exited"} => c.owed = {}
  /\ \A e \in c.owed : e <= Len(c.shown)
  /\ c.exitBy # "none" <=> c.mode = "exited"
  /\ c.exitBy = "source" => Len(c.shown) = p.written /\ ~p.alive

IsAnswer(w, i) == i \in 1 .. Len(w) /\ w[i].kind \in Answer

IsData(w, k, i) == i \in 1 .. Len(w) /\ w[i].kind = "data" /\ w[i].token = k

IsComplete(w, k, i) == i \in 1 .. Len(w) /\ w[i].kind = "complete" /\ w[i].token = k

\* At most one answer to an attach is under way, no exit before it, and none of the
\* frames of the delivery it announces.
AnswerOK(w, tokens, c, p) ==
  \A i \in 1 .. Len(w) : IsAnswer(w, i) =>
    /\ c.mode = "asking"
    /\ \A j \in 1 .. Len(w) : /\ IsAnswer(w, j) => i = j
                              /\ j < i => ~IsExit(w, j)
    /\ w[i].kind = "opened" => Len(c.shown) <= w[i].start /\ w[i].start <= p.written
    /\ w[i].kind = "recovery" => w[i].start = Len(c.shown) /\ w[i].end > 0
    /\ w[i].kind # "restore" =>
         /\ w[i].token = tokens /\ c.token < w[i].token
         /\ \A j \in 1 .. Len(w) : j < i => ~IsData(w, tokens, j) /\ ~IsComplete(w, tokens, j)

EndOf(f) == f.start + Len(f.units)

\* Data frames carry the units they name.
DataOK(w, p) ==
  \A i \in 1 .. Len(w) : w[i].kind = "data" =>
    /\ Len(w[i].units) > 0 /\ EndOf(w[i]) <= p.written
    /\ \A n \in 1 .. Len(w[i].units) : w[i].units[n] = w[i].start + n

\* The client follows delivery k, whose next frame it takes at position at.
Follows(w, c, k, at) ==
  \/ c.mode \in {"live", "recovering"} /\ k = c.token /\ at = c.next
  \/ \E i \in 1 .. Len(w) : /\ w[i].kind \in {"opened", "recovery"}
                            /\ k = w[i].token /\ at = w[i].start

\* The client recovers delivery k up to position e.
Recovers(w, c, k, e) ==
  \/ c.mode = "recovering" /\ k = c.token /\ e = c.end
  \/ \E i \in 1 .. Len(w) : w[i].kind = "recovery" /\ k = w[i].token /\ e = w[i].end

\* The frames of delivery k on the wire follow each other from position at on.
Chain(w, k, at) ==
  /\ \A i \in 1 .. Len(w) : IsData(w, k, i) =>
       /\ at <= w[i].start
       /\ \/ w[i].start = at
          \/ \E j \in 1 .. Len(w) : IsData(w, k, j) /\ j < i /\ EndOf(w[j]) = w[i].start
  /\ \A i, j \in 1 .. Len(w) : IsData(w, k, i) /\ IsData(w, k, j) /\ i < j =>
       EndOf(w[i]) <= w[j].start

\* The frames of delivery k before index i of the wire lead from at to position e.
Leads(w, k, at, i, e) ==
  /\ at <= e
  /\ \A j \in 1 .. Len(w) : IsData(w, k, j) /\ j < i => EndOf(w[j]) <= e
  /\ \/ at = e
     \/ \E j \in 1 .. Len(w) : IsData(w, k, j) /\ j < i /\ EndOf(w[j]) = e

\* The end of the last frame the record has sent.
SentTo(d) == IF d.pending # 0 THEN d.pending ELSE d.sent

\* The frames under way are of deliveries that were opened.
OpenedOK(w, tokens) ==
  \A i \in 1 .. Len(w) : w[i].kind \in {"data", "complete"} => w[i].token <= tokens

\* The frames under way are what the client waits for.
ChainOK(w, tokens, c) ==
  \A k, at \in Nat : Follows(w, c, k, at) => k = tokens /\ k # 0 /\ Chain(w, k, at)

\* They go on where the record goes on, and the relay keeps all the client has not
\* acknowledged.
FollowOK(r, c) ==
  \A at \in Nat : Follows(r.wire, c, r.record.token, at) =>
    /\ r.record.conn = r.conn
    /\ r.record.credited <= at /\ r.record.reserved <= at
    /\ Leads(r.wire, r.record.token, at, Len(r.wire) + 1, SentTo(r.record))

\* A recovery ends with its notice.
RecoverOK(w, d, c) ==
  \A e \in Nat : Recovers(w, c, d.token, e) =>
    /\ d.recoveryEnd # 0 => d.recoveryEnd = e
    /\ d.recoveryEnd = 0 => \E i \in 1 .. Len(w) : IsComplete(w, d.token, i)
    /\ d.completing => \E i \in 1 .. Len(w) : IsComplete(w, d.token, i)

\* The notice comes after all frames of the recovery.
CompleteOK(w, c) ==
  \A k, e, at \in Nat : Recovers(w, c, k, e) /\ Follows(w, c, k, at) =>
    \A i \in 1 .. Len(w) : IsComplete(w, k, i) => Leads(w, k, at, i, e)

\* The exit of a delivery comes after all output, and after the end of a recovery.
SourceOK(w, c, p) ==
  \A x \in 1 .. Len(w) : IsExit(w, x) /\ w[x].by = "source" =>
    /\ \A k, at \in Nat : Follows(w, c, k, at) => Leads(w, k, at, x, p.written)
    /\ \A k, e \in Nat : Recovers(w, c, k, e) =>
         e = p.written \/ \E j \in 1 .. Len(w) : IsComplete(w, k, j) /\ j < x

\* The relay keeps all output after the client's checkpoint.
KeepOK(d, c) ==
  d.token # 0 /\ d.state # "closed" /\ d.token = c.checkpoint.token =>
    d.credited <= c.checkpoint.end /\ d.reserved <= c.checkpoint.end

\* What is said of the frames on the wire and the client alone.
WireOK(w, tokens, c, p) ==
  /\ AnswerOK(w, tokens, c, p)
  /\ DataOK(w, p)
  /\ OpenedOK(w, tokens)
  /\ ChainOK(w, tokens, c)
  /\ CompleteOK(w, c)
  /\ SourceOK(w, c, p)

Good(r, c, p) ==
  /\ Typed(r, c, p)
  /\ RecordOK(r.record, p)
  /\ ConnOK(r, c)
  /\ TokensOK(r, c)
  /\ ExitOK(r, c, p)
  /\ ClientOK(c, p)
  /\ WireOK(r.wire, r.tokens, c, p)
  /\ FollowOK(r, c)
  /\ RecoverOK(r.wire, r.record, c)
  /\ KeepOK(r.record, c)

\* The queue goes on where the delivery ends, and is empty once its exit is sent.
QueueOK(r, p) ==
  /\ \A i \in 1 .. Len(r.queue) : r.queue[i][Len(r.queue[i])] <= p.written
  /\ \E at \in Positions :
       /\ QueueIsOutputAfter(r, p, at)
       /\ r.record.token # 0 /\ r.record.state # "closed" => at = r.record.received
       /\ r.record.exit # "idle" => r.queue = <<>>

\* A frame could go to the connected owner and none is in flight.
Waits(r) ==
  LET d == r.record
  IN  /\ Reaches(r) /\ ~d.activating /\ ~d.restore /\ d.pending = 0
      /\ d.state # "closed" /\ d.sent < d.received /\ d.sent - d.credited < Window

IInv ==
  /\ Good(relay, client, pty)
  /\ QueueOK(relay, pty)
  /\ refusals \in Nat
  /\ Waits(relay) => refusals > 0

=============================================================================
