--------------------------- MODULE PtySourceProof ---------------------------
(***************************************************************************)
(* The steps of PtySource keep its invariant, and what follows: what a      *)
(* client has shown is the output of the program, exactly and in order, and *)
(* the exit is the last frame of it, for any amount of output, any window,  *)
(* retention, connections and refusals.                                     *)
(***************************************************************************)
EXTENDS PtySourceRelayProof

-----------------------------------------------------------------------------
(* The steps of the program and of the relay *)

\* A step whose writers have room leaves no frame behind; another one is counted.
LEMMA RoomStep ==
  ASSUME IInv, NEW room \in Rooms, Room(room),
         Good(relay', client', pty'), QueueOK(relay', pty'),
         room.fits = "all" => (Waits(relay') => Waits(relay))
  PROVE  IInv'
  <1>1. refusals \in Nat
    BY DEF IInv
  <1>2. refusals' \in Nat
    BY <1>1 DEF Room
  <1>3. Waits(relay') => refusals' > 0
    BY <1>1 DEF Room, IInv
  <1> QED BY <1>2, <1>3 DEF IInv

LEMMA PtyOutputStep ==
  ASSUME IInv, NEW n \in 1 .. 2, PtyOutput(n)
  PROVE  IInv'
  <1> DEFINE r == relay
             c == client
             p == pty
             x == [i \in 1 .. n |-> p.written + i]
             q == [r EXCEPT !.timer = TRUE, !.queue = Append(r.queue, x)]
             o == [p EXCEPT !.written = p.written + n]
  <1>1. Good(r, c, p) /\ QueueOK(r, p) /\ refusals \in Nat /\ (Waits(r) => refusals > 0)
    BY DEF IInv
  <1>2. /\ p.alive /\ p.written + n <= MaxUnits /\ relay' = q /\ pty' = o /\ client' = c
        /\ refusals' = refusals
    BY DEF PtyOutput
  <1>3. /\ r \in RelayType /\ c \in ClientType /\ p \in Program /\ p.written \in Nat
        /\ r.queue \in Seq(Chunks) /\ r.record \in RecordType /\ r.wire \in Seq(Frame)
        /\ n \in Nat
    <2>1. /\ r \in RelayType /\ c \in ClientType /\ p \in Program /\ p.written \in Nat
          /\ r.record \in RecordType /\ r.wire \in Seq(Frame)
      BY <1>1, RelayTypes DEF Good
    <2> QED BY <2>1 DEF RelayType
  <1>4. x \in Chunks /\ Len(x) = n /\ x[1] = p.written + 1 /\ x[Len(x)] = p.written + n
    <2>1. \A a \in Nat : [i \in 1 .. 1 |-> a + i] = <<a + 1>>
      OBVIOUS
    <2>2. \A a \in Nat : [i \in 1 .. 2 |-> a + i] = <<a + 1, (a + 1) + 1>>
      <3> SUFFICES ASSUME NEW a \in Nat PROVE [i \in 1 .. 2 |-> a + i] = <<a + 1, (a + 1) + 1>>
        OBVIOUS
      <3>1. a + 2 = (a + 1) + 1
        OBVIOUS
      <3>2. \A i \in 1 .. 2 : i = 1 \/ i = 2
        OBVIOUS
      <3> QED BY <3>1, <3>2
    <2>3. CASE n = 1
      <3>1. x = <<p.written + 1>>
        BY <1>3, <2>1, <2>3
      <3>2. p.written + 1 \in 1 .. MaxUnits
        BY <1>2, <1>3, <2>3, Constants
      <3> HIDE DEF x, p
      <3> QED BY <2>3, <3>1, <3>2 DEF Chunks
    <2>4. CASE n = 2
      <3>1. x = <<p.written + 1, (p.written + 1) + 1>>
        BY <1>3, <2>2, <2>4
      <3>2. p.written + 1 \in 1 .. MaxUnits - 1 /\ (p.written + 1) + 1 = p.written + 2
        BY <1>2, <1>3, <2>4, Constants
      <3> HIDE DEF x, p
      <3> QED BY <2>4, <3>1, <3>2 DEF Chunks
    <2> QED BY <2>3, <2>4
  <1> HIDE DEF x
  <1>5. q \in RelayType
    <2>1. Append(r.queue, x) \in Seq(Chunks)
      BY <1>3, <1>4, AppendProperties
    <2> QED BY <1>3, <2>1, RelayUpdates, Zenon
  <1>6. /\ q.record = r.record /\ q.wire = r.wire /\ q.tokens = r.tokens /\ q.conn = r.conn
        /\ q.conns = r.conns /\ q.exit = r.exit /\ q.projected = r.projected
        /\ q.subscriber = r.subscriber /\ q.queue = Append(r.queue, x)
    BY <1>3 DEF RelayType
  <1>7. /\ o \in Program /\ o.written = p.written + n /\ o.alive = p.alive
        /\ o.written \in Nat /\ p.written <= o.written
    <2>1. p.written + n \in Positions /\ p.written + n \in Nat /\ p.written <= p.written + n
      BY <1>2, <1>3, Constants DEF Positions
    <2>2. o.written = p.written + n /\ o.alive = p.alive /\ o \in Program
      BY <1>3, <2>1 DEF Program
    <2> QED BY <2>1, <2>2
  <1> HIDE DEF q, o, r, c, p
  <1>8. Good(q, c, p) /\ (Waits(q) => Waits(r))
    BY <1>1, <1>5, <1>6, AsideKeeps
  <1>9. r.exit = "none" /\ r.record.exit = "idle" /\ q.exit = "none" /\ q.wire = r.wire
    <2>1. r.exit = "none"
      BY <1>1, <1>2 DEF Good, ExitOK, p
    <2> QED BY <1>1, <1>3, <1>6, <2>1 DEF Good, ExitOK, RecordType
  <1>10. Good(q, c, o)
    <2>1. RecordOK(q.record, o)
      <3>1. q.record.received <= o.written
        <4>1. q.record.received \in Nat /\ p.written \in Nat /\ o.written \in Nat
          BY <1>3, <1>6, <1>7, RecordTypes
        <4>2. q.record.received <= p.written /\ p.written <= o.written
          BY <1>7, <1>8 DEF Good, RecordOK
        <4> QED BY <4>1, <4>2
      <3> QED BY <1>8, <3>1 DEF Good, RecordOK
    <2>2. ExitOK(q, c, o)
      BY <1>7, <1>8 DEF Good, ExitOK
    <2>3. ClientOK(c, o)
      <3>1. c.exitBy # "source"
        BY <1>2, <1>8 DEF Good, ClientOK, p
      <3>2. /\ Len(c.shown) \in Nat /\ c.next \in Nat
        BY <1>3, LenProperties DEF ClientType
      <3>3. Len(c.shown) <= o.written /\ (c.mode \in {"live", "recovering"} => c.next <= o.written)
        BY <1>3, <1>7, <1>8, <3>2 DEF Good, ClientOK
      <3> QED BY <1>8, <3>1, <3>3 DEF Good, ClientOK
    <2>4. WireOK(q.wire, q.tokens, c, o)
      <3>1. WireOK(q.wire, q.tokens, c, p)
        BY <1>8 DEF Good
      <3>2. \A i \in 1 .. Len(q.wire) : q.wire[i] \in Frame
        BY <1>3, <1>6, FrameAt
      <3>3. AnswerOK(q.wire, q.tokens, c, o)
        <4>1. \A i \in 1 .. Len(q.wire) : q.wire[i].kind = "opened" => q.wire[i].start \in Nat
          BY <3>2 DEF Frame
        <4>2. \A i \in 1 .. Len(q.wire) : q.wire[i].kind = "opened" =>
                  (q.wire[i].start <= p.written => q.wire[i].start <= o.written)
          BY <1>3, <1>7, <4>1
        <4> QED BY <3>1, <4>2 DEF WireOK, AnswerOK
      <3>4. DataOK(q.wire, o)
        <4>1. \A i \in 1 .. Len(q.wire) : q.wire[i].kind = "data" => EndOf(q.wire[i]) \in Nat
          BY <3>2, EndIsNat
        <4>2. \A i \in 1 .. Len(q.wire) : q.wire[i].kind = "data" =>
                  (EndOf(q.wire[i]) <= p.written => EndOf(q.wire[i]) <= o.written)
          BY <1>3, <1>7, <4>1
        <4> QED BY <3>1, <4>2 DEF WireOK, DataOK
      <3>5. SourceOK(q.wire, c, o)
        BY <1>8, <1>9 DEF Good, ExitOK, SourceOK
      <3> QED BY <3>1, <3>3, <3>4, <3>5 DEF WireOK
    <2> QED BY <1>7, <1>8, <2>1, <2>2, <2>3, <2>4 DEF Good, Typed
  <1>11. QueueOK(q, o)
    <2> DEFINE w == r.queue
               v == q.queue
    <2>1. /\ Len(w) \in Nat /\ Len(v) = Len(w) + 1 /\ v[Len(w) + 1] = x
          /\ \A i \in 1 .. Len(w) : v[i] = w[i] /\ v[i] \in Chunks
      BY <1>3, <1>4, <1>6, AppendProperties, LenProperties, ElementOfSeq
    <2>2. PICK at \in Positions :
            /\ QueueIsOutputAfter(r, p, at)
            /\ r.record.token # 0 /\ r.record.state # "closed" => at = r.record.received
      BY <1>1 DEF QueueOK
    <2> DEFINE B(i) == IF i = 1 THEN at ELSE w[i - 1][Len(w[i - 1])]
               C(i) == IF i = 1 THEN at ELSE v[i - 1][Len(v[i - 1])]
    <2>3. (\A i \in 1 .. Len(w) : w[i][1] = B(i) + 1) /\ B(Len(w) + 1) = p.written
      BY <2>2 DEF QueueIsOutputAfter
    <2>4. \A i \in 1 .. Len(w) : v[i][Len(v[i])] <= o.written
      <3>1. \A i \in 1 .. Len(w) : v[i][Len(v[i])] \in Nat
        BY <2>1, ChunkIs, Constants
      <3>2. \A i \in 1 .. Len(w) : v[i][Len(v[i])] <= p.written
        BY <1>1, <2>1 DEF QueueOK
      <3> HIDE DEF v, w
      <3> QED BY <1>3, <1>7, <3>1, <3>2
    <2> HIDE DEF w, v
    <2>5. \A i \in 1 .. Len(w) + 1 : i # 1 => i - 1 \in 1 .. Len(w)
      BY <2>1
    <2>6. \A i \in 1 .. Len(w) + 1 : C(i) = B(i)
      BY <2>1, <2>5
    <2> HIDE DEF B, C
    <2>7. \A i \in 1 .. Len(v) : i \in 1 .. Len(w) \/ i = Len(w) + 1
      BY <2>1
    <2>8. \A i \in 1 .. Len(v) : v[i][1] = C(i) + 1
      <3>1. \A i \in 1 .. Len(w) : i \in 1 .. Len(w) + 1
        BY <2>1
      <3>2. Len(w) + 1 \in 1 .. Len(w) + 1
        BY <2>1
      <3> QED BY <1>4, <2>1, <2>3, <2>6, <2>7, <3>1, <3>2
    <2>9. C(Len(v) + 1) = o.written
      <3>1. Len(v) + 1 # 1 /\ (Len(v) + 1) - 1 = Len(w) + 1
        BY <2>1
      <3> QED BY <1>4, <1>7, <2>1, <3>1 DEF C
    <2>10. QueueIsOutputAfter(q, o, at)
      BY <2>8, <2>9 DEF QueueIsOutputAfter, C, v
    <2>11. \A i \in 1 .. Len(v) : v[i][Len(v[i])] <= o.written
      BY <1>4, <1>7, <2>1, <2>4, <2>7
    <2> QED BY <1>6, <1>9, <2>2, <2>10, <2>11 DEF QueueOK, v
  <1>12. Waits(q) => refusals > 0
    BY <1>1, <1>8
  <1> QED BY <1>1, <1>2, <1>10, <1>11, <1>12 DEF IInv, c

\* The first chunk of the queue of r is published, where s is r with its queue set aside
\* or not.
LEMMA ChunkPublished ==
  ASSUME NEW r, NEW s, NEW c, NEW p, NEW room \in Rooms, Good(r, c, p), QueueOK(r, p),
         r.queue # <<>>, Good(s, c, p), s.record = r.record,
         NEW chunk, chunk = Head(r.queue), CanPublish(r, chunk, room)
  PROVE  Published(s, Publish(s, chunk, room), Len(chunk), c, p, room)
  <1>1. r \in RelayType /\ p \in Program
    BY RelayTypes DEF Good
  <1>2. /\ chunk \in Chunks /\ r.record.exit = "idle" /\ chunk[Len(chunk)] <= p.written
        /\ r.record.token # 0 /\ r.record.state # "closed" => chunk[1] = r.record.received + 1
    BY <1>1, QueueTaken
  <1>3. CASE r.record.token = 0
    <2>1. Publish(s, chunk, room) = s
      BY <1>3 DEF Publish
    <2>2. ~Waits(s)
      BY <1>3, NoneWaits DEF Good, RecordOK
    <2> QED BY <1>2, <1>3, <2>1, <2>2 DEF Published
  <1>4. CASE r.record.token # 0
    <2>1. CanTake(s.record, chunk, p)
      BY <1>2, <1>4 DEF CanTake, CanPublish
    <2>2. chunk \in Chunks
      BY <1>2
    <2> QED BY <2>1, <2>2, PublishKeeps
  <1> QED BY <1>3, <1>4

LEMMA FlushStep ==
  ASSUME IInv, NEW room \in Rooms, FlushPendingOutput(room)
  PROVE  IInv'
  <1> DEFINE r     == relay
             c     == client
             p     == pty
             chunk == Head(r.queue)
             taken == [r EXCEPT !.queue = <<>>, !.timer = FALSE]
             x     == Publish(taken, chunk, room)
             after == [x EXCEPT !.queue = Tail(r.queue)]
             put   == [after EXCEPT !.timer = TRUE]
             left  == [r EXCEPT !.timer = FALSE]
             last  == PublishPendingExit(after, room)
  <1>1. Good(r, c, p) /\ QueueOK(r, p)
    BY DEF IInv
  <1>2. /\ r.queue # <<>> /\ client' = c /\ pty' = p /\ Room(room)
        /\ relay' = IF ~CanPublish(r, chunk, room) THEN left
                    ELSE IF after.queue = <<>> THEN last ELSE put
    BY DEF FlushPendingOutput
  <1>3. r \in RelayType /\ p \in Program
    BY <1>1, RelayTypes DEF Good
  <1>4. Tail(r.queue) \in Seq(Chunks) /\ <<>> \in Seq(Chunks)
    BY <1>1, <1>2, <1>3, QueueTaken, EmptySeq
  <1>5. CASE ~CanPublish(r, chunk, room)
    <2>1. left \in RelayType
      BY <1>3, RelayUpdates, Zenon
    <2>2. /\ left.record = r.record /\ left.wire = r.wire /\ left.tokens = r.tokens
          /\ left.conn = r.conn /\ left.conns = r.conns /\ left.exit = r.exit
          /\ left.projected = r.projected /\ left.subscriber = r.subscriber
          /\ left.queue = r.queue
      BY <1>3 DEF RelayType
    <2> HIDE DEF left, r, c, p
    <2>3. Good(left, c, p) /\ (Waits(left) => Waits(r))
      BY <1>1, <2>1, <2>2, AsideKeeps
    <2>4. QueueOK(left, p)
      BY <1>1, <2>2, QueueStays
    <2>5. relay' = left
      BY <1>2, <1>5
    <2> QED BY <1>2, <2>3, <2>4, <2>5, RoomStep DEF r, c, p
  <1>6. CASE CanPublish(r, chunk, room)
    <2>1. taken \in RelayType
      BY <1>3, <1>4, RelayUpdates, Zenon
    <2>2. /\ taken.record = r.record /\ taken.wire = r.wire /\ taken.tokens = r.tokens
          /\ taken.conn = r.conn /\ taken.conns = r.conns /\ taken.exit = r.exit
          /\ taken.projected = r.projected /\ taken.subscriber = r.subscriber
      BY <1>3 DEF RelayType
    <2> HIDE DEF taken, p, c
    <2>3. Good(taken, c, p)
      BY <1>1, <2>1, <2>2, AsideKeeps
    <2>4. /\ Good(x, c, p) /\ x.record.exit = "idle"
          /\ x.record.token # 0 =>
               /\ r.record.token # 0 /\ r.record.state # "closed"
               /\ x.record.received = r.record.received + Len(chunk)
          /\ room.fits = "all" => ~Waits(x)
      <3> HIDE DEF chunk
      <3>1. Published(taken, x, Len(chunk), c, p, room)
        BY <1>1, <1>2, <1>6, <2>2, <2>3, ChunkPublished DEF chunk
      <3> HIDE DEF x
      <3> QED BY <2>2, <3>1 DEF Published
    <2> HIDE DEF x
    <2>5. x \in RelayType
      BY <2>4, RelayTypes DEF Good
    <2>6. after \in RelayType /\ put \in RelayType
      BY <1>4, <2>5, RelayUpdates, Zenon
    <2>7. /\ after.record = x.record /\ after.wire = x.wire /\ after.tokens = x.tokens
          /\ after.conn = x.conn /\ after.conns = x.conns /\ after.exit = x.exit
          /\ after.projected = x.projected /\ after.subscriber = x.subscriber
          /\ after.queue = Tail(r.queue)
      BY <2>5 DEF RelayType
    <2>8. /\ put.record = x.record /\ put.wire = x.wire /\ put.tokens = x.tokens
          /\ put.conn = x.conn /\ put.conns = x.conns /\ put.exit = x.exit
          /\ put.projected = x.projected /\ put.subscriber = x.subscriber
          /\ put.queue = Tail(r.queue)
      BY <2>5 DEF RelayType
    <2>9. \A q : /\ q.queue = Tail(r.queue) /\ q.record.exit = "idle"
                 /\ q.record.token # 0 =>
                      /\ r.record.token # 0 /\ r.record.state # "closed"
                      /\ q.record.received = r.record.received + Len(chunk)
                 => QueueOK(q, p)
      BY <1>1, <1>2, <1>3, QueueTaken
    <2> HIDE DEF after, put, chunk
    <2>10. Good(after, c, p) /\ (room.fits = "all" => ~Waits(after))
      BY <2>4, <2>6, <2>7, AsideKeeps
    <2>11. Good(put, c, p) /\ (room.fits = "all" => ~Waits(put))
      BY <2>4, <2>6, <2>8, AsideKeeps
    <2>12. QueueOK(after, p) /\ QueueOK(put, p)
      BY <2>4, <2>7, <2>8, <2>9
    <2>13. Good(last, c, p) /\ Carries(after, last, room)
      BY <2>10, <2>12, PublishPendingExitKeeps
    <2> HIDE DEF last
    <2>14. QueueOK(last, p) /\ (room.fits = "all" => ~Waits(last))
      <3>1. QueueOK(last, p)
        BY <2>12, <2>13, CarriesQueue
      <3> QED BY <2>10, <2>13, <3>1 DEF Carries
    <2>15. relay' = last \/ relay' = put
      BY <1>2, <1>6
    <2>16. /\ Good(relay', client', pty') /\ QueueOK(relay', pty')
           /\ room.fits = "all" => ~Waits(relay')
      BY <1>2, <2>11, <2>12, <2>13, <2>14, <2>15
    <2> QED BY <1>2, <2>16, RoomStep
  <1> QED BY <1>5, <1>6

\* The exit of the program becomes known to the relay.
LEMMA ProgramEnds ==
  ASSUME NEW r, NEW c, NEW p, Good(r, c, p), QueueOK(r, p), p.alive
  PROVE  LET q == [r EXCEPT !.exit = "pending"]
             o == [p EXCEPT !.alive = FALSE]
         IN  Good(q, c, o) /\ QueueOK(q, o) /\ (Waits(q) => Waits(r))
  <1> DEFINE q == [r EXCEPT !.exit = "pending"]
             o == [p EXCEPT !.alive = FALSE]
  <1>1. r \in RelayType /\ p \in Program /\ r.record \in RecordType
    BY RelayTypes DEF Good
  <1>2. q \in RelayType
    BY <1>1, RelayUpdates
  <1>3. o \in Program /\ o.written = p.written /\ o.alive = FALSE
    BY <1>1 DEF Program
  <1>4. /\ q.record = r.record /\ q.wire = r.wire /\ q.exit = "pending" /\ q.conn = r.conn
        /\ q.conns = r.conns /\ q.tokens = r.tokens /\ q.queue = r.queue
        /\ q.projected = r.projected /\ q.subscriber = r.subscriber
    BY <1>1 DEF RelayType
  <1> HIDE DEF q, o
  <1>5. ExitOK(q, c, o)
    BY <1>1, <1>3, <1>4 DEF Good, ExitOK, RecordType
  <1>6. ClientOK(c, o) /\ RecordOK(q.record, o)
    <2>1. ClientOK(c, o)
      BY <1>3 DEF Good, ClientOK
    <2>2. RecordOK(q.record, o)
      BY <1>3, <1>4 DEF Good, RecordOK
    <2> QED BY <2>1, <2>2
  <1>7. WireOK(q.wire, q.tokens, c, o)
    BY <1>3, <1>4 DEF Good, WireOK, AnswerOK, DataOK, SourceOK
  <1>8. /\ ConnOK(q, c) /\ TokensOK(q, c) /\ FollowOK(q, c) /\ RecoverOK(q.wire, q.record, c)
        /\ KeepOK(q.record, c)
    BY <1>4 DEF Good, ConnOK, TokensOK, FollowOK, Reaches
  <1>9. Good(q, c, o)
    BY <1>2, <1>3, <1>5, <1>6, <1>7, <1>8 DEF Good, Typed
  <1>10. QueueOK(q, o) /\ (Waits(q) => Waits(r))
    BY <1>3, <1>4 DEF QueueOK, QueueIsOutputAfter, Waits, Reaches
  <1> QED BY <1>9, <1>10 DEF q, o

LEMMA PtyExitStep ==
  ASSUME IInv, NEW room \in Rooms, PtyExit(room)
  PROVE  IInv'
  <1> DEFINE r       == relay
             c       == client
             p       == pty
             o       == [p EXCEPT !.alive = FALSE]
             chunk   == Head(r.queue)
             x       == Publish(r, chunk, room)
             y       == [x EXCEPT !.queue = Tail(x.queue),
                                  !.timer = x.timer /\ Len(r.queue) > 1]
             flushed == IF r.queue = <<>> \/ ~CanPublish(r, chunk, room) THEN r ELSE y
             ended   == [flushed EXCEPT !.exit = "pending"]
             last    == PublishPendingExit(ended, room)
  <1>1. Good(r, c, p) /\ QueueOK(r, p)
    BY DEF IInv
  <1>2. p.alive /\ client' = c /\ pty' = o /\ Room(room) /\ relay' = last
    BY DEF PtyExit
  <1>3. r \in RelayType /\ p \in Program
    BY <1>1, RelayTypes DEF Good
  <1> HIDE DEF p, c
  <1>4. /\ Good(flushed, c, p) /\ QueueOK(flushed, p)
        /\ room.fits = "all" => (Waits(flushed) => Waits(r))
    <2>1. CASE r.queue = <<>> \/ ~CanPublish(r, chunk, room)
      BY <1>1, <2>1
    <2>2. CASE ~(r.queue = <<>> \/ ~CanPublish(r, chunk, room))
      <3>1. /\ Good(x, c, p) /\ x.record.exit = "idle" /\ x.queue = r.queue
            /\ x.record.token # 0 =>
                 /\ r.record.token # 0 /\ r.record.state # "closed"
                 /\ x.record.received = r.record.received + Len(chunk)
            /\ room.fits = "all" => ~Waits(x)
        <4>1. Published(r, x, Len(chunk), c, p, room)
          BY <1>1, <2>2, ChunkPublished
        <4> HIDE DEF x
        <4> QED BY <4>1 DEF Published
      <3>2. Tail(r.queue) \in Seq(Chunks)
        BY <1>1, <1>3, <2>2, QueueTaken
      <3> HIDE DEF x
      <3>3. x \in RelayType /\ (x.timer /\ Len(r.queue) > 1) \in BOOLEAN
        BY <3>1, RelayTypes DEF Good
      <3> DEFINE b == x.timer /\ Len(r.queue) > 1
      <3>4. y = [x EXCEPT !.queue = Tail(r.queue), !.timer = b]
        BY <3>1
      <3> HIDE DEF b, y
      <3>5. y \in RelayType
        <4>1. b \in BOOLEAN
          BY <3>3 DEF b
        <4> QED BY <3>2, <3>3, <3>4, <4>1, RelayUpdates, Zenon
      <3>6. /\ y.record = x.record /\ y.wire = x.wire /\ y.tokens = x.tokens
            /\ y.conn = x.conn /\ y.conns = x.conns /\ y.exit = x.exit
            /\ y.projected = x.projected /\ y.subscriber = x.subscriber
            /\ y.queue = Tail(r.queue)
        BY <3>3, <3>4 DEF RelayType
      <3>7. Good(y, c, p) /\ (room.fits = "all" => ~Waits(y))
        BY <3>1, <3>5, <3>6, AsideKeeps
      <3>8. QueueOK(y, p)
        <4>1. \A q : /\ q.queue = Tail(r.queue) /\ q.record.exit = "idle"
                     /\ q.record.token # 0 =>
                          /\ r.record.token # 0 /\ r.record.state # "closed"
                          /\ q.record.received = r.record.received + Len(chunk)
                     => QueueOK(q, p)
          BY <1>1, <1>3, <2>2, QueueTaken
        <4> HIDE DEF chunk
        <4> QED BY <3>1, <3>6, <4>1
      <3> QED BY <2>2, <3>7, <3>8
    <2> QED BY <2>1, <2>2
  <1> HIDE DEF flushed
  <1>5. Good(ended, c, o) /\ QueueOK(ended, o) /\ (Waits(ended) => Waits(flushed))
    BY <1>2, <1>4, ProgramEnds
  <1> HIDE DEF ended, o
  <1>6. Good(last, c, o) /\ Carries(ended, last, room)
    BY <1>5, PublishPendingExitKeeps
  <1> HIDE DEF last
  <1>7. QueueOK(last, o)
    BY <1>5, <1>6, CarriesQueue
  <1>8. room.fits = "all" => (Waits(last) => Waits(r))
    BY <1>4, <1>5, <1>6 DEF Carries
  <1>9. Good(relay', client', pty') /\ QueueOK(relay', pty')
    BY <1>2, <1>6, <1>7
  <1> QED BY <1>2, <1>8, <1>9, RoomStep

\* After the record has changed the relay goes on with it, in one of these orders, and
\* leaves no frame behind that was not refused.
LEMMA GoesOn ==
  ASSUME NEW r, NEW c, NEW p, NEW room \in Rooms, Good(r, c, p), QueueOK(r, p),
         NEW q, \/ q = Pump(OnCapacity(CompleteRecovery(r, room), room), room)
                \/ q = Pump(OnCapacity(r, room), room)
                \/ q = OnCapacity(Pump(CompleteRecovery(r, room), room), room)
                \/ q = OnCredit(r, room)
  PROVE  Good(q, c, p) /\ QueueOK(q, p) /\ (room.fits = "all" => ~Waits(q))
  <1>1. ASSUME NEW s, Good(s, c, p), QueueOK(s, p)
        PROVE  LET t == CompleteRecovery(s, room) IN Good(t, c, p) /\ QueueOK(t, p)
    BY <1>1, CompleteRecoveryKeeps, CarriesQueue
  <1>2. ASSUME NEW s, Good(s, c, p), QueueOK(s, p)
        PROVE  LET t == OnCapacity(s, room)
               IN  /\ Good(t, c, p) /\ QueueOK(t, p)
                   /\ room.fits = "all" /\ ~Waits(s) => ~Waits(t)
    <2> DEFINE t == OnCapacity(s, room)
    <2>1. Good(t, c, p) /\ Carries(s, t, room)
      BY <1>2, OnCapacityKeeps
    <2> HIDE DEF t
    <2>2. QueueOK(t, p)
      BY <1>2, <2>1, CarriesQueue
    <2> QED BY <2>1, <2>2 DEF Carries, t
  <1>3. ASSUME NEW s, Good(s, c, p), QueueOK(s, p)
        PROVE  LET t == Pump(s, room)
               IN  Good(t, c, p) /\ QueueOK(t, p) /\ (room.fits = "all" => ~Waits(t))
    <2> DEFINE t == Pump(s, room)
    <2>1. Good(t, c, p) /\ Carries(s, t, room) /\ (room.fits = "all" => ~Waits(t))
      BY <1>3, PumpKeeps
    <2> HIDE DEF t
    <2>2. QueueOK(t, p)
      BY <1>3, <2>1, CarriesQueue
    <2> QED BY <2>1, <2>2 DEF t
  <1>4. CASE q = Pump(OnCapacity(CompleteRecovery(r, room), room), room)
    BY <1>1, <1>2, <1>3, <1>4
  <1>5. CASE q = Pump(OnCapacity(r, room), room)
    BY <1>2, <1>3, <1>5
  <1>6. CASE q = OnCapacity(Pump(CompleteRecovery(r, room), room), room)
    BY <1>1, <1>2, <1>3, <1>6
  <1>7. CASE q = OnCredit(r, room)
    BY <1>7, OnCreditKeeps, CarriesQueue
  <1> QED BY <1>4, <1>5, <1>6, <1>7

\* The record commits the frame that was written.
Committed(d) == [d EXCEPT !.sent = d.pending, !.boundaries = @ \cup {d.pending},
                          !.pending = 0, !.attempted = 0, !.reserved = 0]

LEMMA CommitKeeps ==
  ASSUME NEW r, NEW c, NEW p, Good(r, c, p), QueueOK(r, p), r.record.pending # 0
  PROVE  LET q == [r EXCEPT !.record = Committed(r.record)]
         IN  /\ Good(q, c, p) /\ QueueOK(q, p) /\ q.record = Committed(r.record)
             /\ q.wire = r.wire
  <1> DEFINE d == r.record
             e == Committed(d)
             q == [r EXCEPT !.record = e]
  <1>1. /\ r \in RelayType /\ d \in RecordType /\ RecordOK(d, p)
        /\ d.pending \in Positions /\ d.pending \in Nat /\ d.sent \in Nat /\ d.received \in Nat
        /\ d.credited \in Nat
    BY RelayTypes, RecordTypes DEF Good, RecordType
  <1>2. /\ d.state # "closed" /\ d.sent < d.pending /\ d.pending <= d.credited + Window
        /\ d.pending <= d.received /\ d.credited <= d.sent /\ ~d.restore /\ d.exit = "idle"
    BY <1>1 DEF RecordOK
  <1>3. e \in RecordType
    <2>1. d.boundaries \cup {d.pending} \in SUBSET Positions /\ 0 \in Positions
      BY <1>1, RecordTypes, Constants DEF Positions
    <2> DEFINE B == d.boundaries \cup {d.pending}
    <2>2. e = [d EXCEPT !.sent = d.pending, !.boundaries = B, !.pending = 0, !.attempted = 0,
                        !.reserved = 0]
      BY DEF Committed
    <2> HIDE DEF B, e
    <2> QED BY <1>1, <2>1, <2>2, RecordUpdates, Zenon DEF B
  <1>4. /\ e.token = d.token /\ e.conn = d.conn /\ e.pending = 0
        /\ e.completing = d.completing /\ e.reserved = 0 /\ e.credited = d.credited
        /\ e.sent = d.pending /\ e.received = d.received /\ e.exit = d.exit /\ e.state = d.state
        /\ e.legacyExit = d.legacyExit /\ e.recoveryEnd = d.recoveryEnd
        /\ e.activating = d.activating /\ e.restore = d.restore /\ e.attempted = 0
        /\ e.held = d.held /\ e.boundaries = d.boundaries \cup {d.pending} /\ e.ends = d.ends
    BY <1>1 DEF RecordType, Committed
  <1> HIDE DEF e
  <1>5. q \in RelayType /\ q.record = e /\ q.wire = r.wire /\ SameBeside(r, q)
    <2>1. q \in RelayType
      BY <1>1, <1>3, RelayUpdates
    <2> QED BY <1>1, <2>1 DEF RelayType, SameBeside
  <1> HIDE DEF q
  <1>6. RecordOK(e, p)
    <2>1. d.credited <= d.pending /\ \A b \in d.boundaries \cup {d.pending} : b <= d.pending
      <3>1. \A b \in d.boundaries : b \in Nat /\ b <= d.sent
        <4>1. \A b \in d.boundaries : b <= d.sent
          BY <1>1 DEF RecordOK
        <4>2. \A b \in d.boundaries : b \in Nat
          BY <1>1, RecordTypes, Constants DEF Positions
        <4> QED BY <4>1, <4>2
      <3> QED BY <1>1, <1>2, <3>1
    <2>2. d.token # 0
      BY <1>1, <1>2, NoRecordTypes DEF RecordOK
    <2> HIDE DEF d
    <2> QED BY <1>1, <1>2, <1>4, <2>1, <2>2 DEF RecordOK
  <1>7. ExitOK(q, c, p)
    BY <1>4, <1>5 DEF Good, ExitOK, SameBeside
  <1>8. \A at \in Nat : Follows(r.wire, c, e.token, at) =>
          e.credited <= at /\ e.reserved <= at /\ SentTo(e) = SentTo(d)
    BY <1>4 DEF Good, FollowOK, SentTo
  <1>9. SameDelivery(r, q, c)
    <2>1. KeepOK(e, c)
      <3>1. c.checkpoint.end \in Nat
        BY RelayTypes DEF Good, Typed, ClientType
      <3> QED BY <1>4, <3>1 DEF Good, KeepOK
    <2> QED BY <1>4, <1>5, <1>8, <2>1 DEF Good, ConnOK, RecoverOK, SameDelivery, Reaches
  <1>10. Good(q, c, p)
    BY <1>5, <1>6, <1>7, <1>9, RecordChange DEF SameBeside
  <1>11. QueueOK(q, p)
    BY <1>4, <1>5, QueueStays DEF SameBeside
  <1> QED BY <1>5, <1>10, <1>11 DEF q, e

LEMMA WriteSettledStep ==
  ASSUME IInv, NEW room \in Rooms, WriteSettled(room)
  PROVE  IInv'
  <1> DEFINE r == relay
             c == client
             p == pty
             d == r.record
             s == [r EXCEPT !.record = Committed(d)]
             t == [s EXCEPT !.record = Credit(s.record, d.reserved)]
             u == IF d.reserved = 0 THEN s ELSE t
  <1>1. Good(r, c, p) /\ QueueOK(r, p)
    BY DEF IInv
  <1>2. r \in RelayType /\ d \in RecordType
    BY <1>1, RelayTypes DEF Good
  <1>3. /\ d.pending # 0 /\ Reaches(r) /\ client' = c /\ pty' = p /\ Room(room)
        /\ relay' = Pump(OnCapacity(CompleteRecovery(u, room), room), room)
    <2>1. u = [r EXCEPT !.record = IF d.reserved = 0 THEN Committed(d)
                                   ELSE Credit(Committed(d), d.reserved)]
      BY <1>2 DEF RelayType
    <2> HIDE DEF u
    <2> QED BY <2>1 DEF WriteSettled, Committed
  <1>4. Good(s, c, p) /\ QueueOK(s, p) /\ s.record = Committed(d) /\ s.wire = r.wire
    BY <1>1, <1>3, CommitKeeps
  <1> HIDE DEF s, d, r, c, p
  <1>5. ASSUME d.reserved # 0
        PROVE  Good(t, c, p) /\ QueueOK(t, p)
    <2>1. d.state # "closed" /\ d.sent < d.pending /\ d.credited <= d.sent /\ d.token # 0
      BY <1>1, <1>3, NoRecordTypes DEF Good, RecordOK, d
    <2>2. d.reserved = d.pending
      BY <1>1, <1>3, <1>5, <2>1 DEF Good, ConnOK, d
    <2>3. /\ s.record.token = d.token /\ s.record.state = d.state
          /\ s.record.credited = d.credited /\ s.record.sent = d.pending
      BY <1>2, <1>4 DEF RecordType, Committed
    <2>4. d.reserved \in Positions /\ d.credited <= d.reserved /\ d.reserved <= d.pending
      <3>1. d.reserved \in Positions /\ d.credited \in Nat /\ d.sent \in Nat /\ d.pending \in Nat
        BY <1>2, RecordTypes DEF RecordType
      <3> QED BY <2>1, <2>2, <3>1
    <2>5. \A at \in Nat : Follows(s.wire, c, d.token, at) => d.reserved <= at
      BY <1>1, <1>4 DEF Good, FollowOK, d
    <2>6. d.token = c.checkpoint.token => d.reserved <= c.checkpoint.end
      BY <1>1, <2>1 DEF Good, KeepOK, d
    <2> QED BY <1>4, <2>1, <2>3, <2>4, <2>5, <2>6, CreditKeeps
  <1>6. Good(u, c, p) /\ QueueOK(u, p)
    BY <1>4, <1>5
  <1> HIDE DEF u
  <1>7. Good(relay', c, p) /\ QueueOK(relay', p) /\ (room.fits = "all" => ~Waits(relay'))
    BY <1>3, <1>6, GoesOn
  <1> QED BY <1>3, <1>7, RoomStep

LEMMA CompletionSettledStep ==
  ASSUME IInv, NEW room \in Rooms, CompletionSettled(room)
  PROVE  IInv'
  <1> DEFINE r == relay
             c == client
             p == pty
             d == r.record
             e == [d EXCEPT !.completing = FALSE, !.recoveryEnd = 0]
             q == [r EXCEPT !.record.completing = FALSE, !.record.recoveryEnd = 0]
  <1>1. Good(r, c, p) /\ QueueOK(r, p)
    BY DEF IInv
  <1>2. r \in RelayType /\ d \in RecordType
    BY <1>1, RelayTypes DEF Good
  <1>3. /\ d.completing /\ client' = c /\ pty' = p /\ Room(room)
        /\ relay' = Pump(OnCapacity(q, room), room)
    BY DEF CompletionSettled
  <1>4. q \in RelayType /\ q.record = e /\ q.wire = r.wire /\ SameBeside(r, q)
    <2>1. q \in RelayType
      <3>1. 0 \in Positions
        BY Constants DEF Positions
      <3> QED BY <1>2, <3>1, DeliveryUpdates, Zenon
    <2>2. q.record = e /\ q.wire = r.wire /\ SameBeside(r, q)
      BY <1>2 DEF RelayType, RecordType, SameBeside
    <2> QED BY <2>1, <2>2
  <1>5. /\ e.token = d.token /\ e.conn = d.conn /\ e.pending = d.pending
        /\ ~e.completing /\ e.reserved = d.reserved /\ e.credited = d.credited
        /\ e.sent = d.sent /\ e.received = d.received /\ e.exit = d.exit /\ e.state = d.state
        /\ e.legacyExit = d.legacyExit /\ e.recoveryEnd = 0
        /\ e.activating = d.activating /\ e.restore = d.restore
    BY <1>2 DEF RecordType
  <1>6. RecordOK(e, p)
    <2>1. d.token # 0
      BY <1>1, <1>3 DEF Good, RecordOK, NoRecord
    <2> QED BY <1>1, <1>2, <2>1 DEF Good, RecordOK, RecordType
  <1> HIDE DEF q, d, e, r, c, p
  <1>7. ExitOK(q, c, p)
    BY <1>1, <1>4, <1>5 DEF Good, ExitOK, SameBeside, d
  <1>8. SameDelivery(r, q, c)
    <2>1. RecoverOK(r.wire, e, c)
      BY <1>1, <1>3, <1>5 DEF Good, RecoverOK, d
    <2> QED BY <1>1, <1>4, <1>5, <2>1
        DEF Good, ConnOK, FollowOK, KeepOK, SameDelivery, SentTo, Reaches, d
  <1>9. Good(q, c, p)
    BY <1>1, <1>4, <1>6, <1>7, <1>8, RecordChange DEF SameBeside
  <1>10. QueueOK(q, p)
    BY <1>1, <1>4, <1>5, QueueStays DEF SameBeside, d
  <1>11. Good(relay', c, p) /\ QueueOK(relay', p) /\ (room.fits = "all" => ~Waits(relay'))
    BY <1>3, <1>9, <1>10, GoesOn
  <1> QED BY <1>3, <1>11, RoomStep

\* Dropping the record with nothing queued or no exit sent.
LEMMA DropQueue ==
  ASSUME NEW r, NEW p, QueueOK(r, p), NEW q, q.queue = r.queue, q.record = NoRecord
  PROVE  QueueOK(q, p)
  BY QueueStays, NoRecordTypes

LEMMA ExitSettledStep ==
  ASSUME IInv, NEW room \in Rooms, ExitSettled(room)
  PROVE  IInv'
  <1> DEFINE r == relay
             c == client
             p == pty
             d == r.record
             e == [d EXCEPT !.exit = "published"]
             q == [r EXCEPT !.record.exit = "published"]
             y == [r EXCEPT !.record.exit = "published", !.exit = "done", !.projected = FALSE]
             m == MaybeClose(q)
             t == [m EXCEPT !.timer = m.timer \/ m.queue # <<>>]
             z == [t EXCEPT !.exit = "done", !.projected = FALSE]
  <1>1. Good(r, c, p) /\ QueueOK(r, p)
    BY DEF IInv
  <1>2. r \in RelayType /\ d \in RecordType
    BY <1>1, RelayTypes DEF Good
  <1>3. /\ d.exit = "pending" /\ client' = c /\ pty' = p /\ Room(room)
        /\ relay' = OnCapacity(m, room)
    BY DEF ExitSettled
  <1>4. /\ r.exit = "pending" /\ r.queue = <<>> /\ d.token # 0
        /\ d.sent = d.received /\ d.state # "active"
    BY <1>1, <1>3, NoRecordTypes DEF Good, ExitOK, QueueOK, RecordOK
  <1>5. q \in RelayType /\ q.record = e /\ q.wire = r.wire /\ SameBeside(r, q)
    <2>1. q \in RelayType
      BY <1>2, DeliveryUpdates
    <2>2. q.record = e /\ q.wire = r.wire /\ SameBeside(r, q)
      BY <1>2 DEF RelayType, SameBeside
    <2> QED BY <2>1, <2>2
  <1>6. /\ y \in RelayType /\ y.record = e /\ y.wire = r.wire /\ y.tokens = r.tokens
        /\ y.conn = r.conn /\ y.conns = r.conns /\ y.queue = r.queue /\ y.exit = "done"
        /\ y.projected = FALSE /\ y.subscriber = r.subscriber
    <2>1. y \in RelayType
      BY <1>2, DeliveryUpdates, RelayUpdates, Zenon
    <2> QED BY <1>2, <2>1 DEF RelayType
  <1>7. /\ e.token = d.token /\ e.conn = d.conn /\ e.pending = d.pending
        /\ e.completing = d.completing /\ e.reserved = d.reserved /\ e.credited = d.credited
        /\ e.sent = d.sent /\ e.received = d.received /\ e.exit = "published"
        /\ e.state = d.state /\ e.legacyExit = d.legacyExit /\ e.recoveryEnd = d.recoveryEnd
        /\ e.activating = d.activating /\ e.restore = d.restore
    BY <1>2 DEF RecordType
  <1>8. RecordOK(e, p)
    <2>1. ~d.restore
      BY <1>1, <1>3 DEF Good, RecordOK
    <2> QED BY <1>1, <1>2, <1>4, <2>1 DEF Good, RecordOK, RecordType
  <1> HIDE DEF y, d, e, c, p
  <1>9. ExitOK(y, c, p)
    BY <1>1, <1>4, <1>6, <1>7 DEF Good, ExitOK, d
  <1>10. SameDelivery(r, y, c)
    BY <1>1, <1>6, <1>7
       DEF Good, ConnOK, FollowOK, RecoverOK, KeepOK, SameDelivery, SentTo, Reaches, d
  <1>11. Good(y, c, p)
    BY <1>1, <1>6, <1>8, <1>9, <1>10, RecordChange
  <1>12. Good([y EXCEPT !.record = NoRecord], c, p)
    BY <1>6, <1>11, DropKeeps
  <1> HIDE DEF q
  <1>13. /\ m \in RelayType /\ SameBeside(r, m) /\ m.wire = r.wire
         /\ m.record = e \/ m.record.state = "closed"
         /\ m.record.token = d.token /\ m.record.exit = "published"
    <2>1. CASE m = q
      BY <1>5, <1>7, <2>1
    <2>2. CASE m = Cancel(q)
      <3> DEFINE v == Cancel(q)
      <3>1. q.record \in RecordType
        BY <1>5 DEF RelayType
      <3>2. v \in RelayType
        <4>1. 0 \in Positions /\ <<>> \in Seq(1 .. MaxUnits) /\ {} \in SUBSET Positions
          BY Constants, EmptySeq DEF Positions
        <4> QED BY <1>5, <4>1, DeliveryUpdates, Zenon DEF Cancel
      <3>3. SameBeside(q, v) /\ v.wire = q.wire
        BY <1>5 DEF Cancel, RelayType, SameBeside
      <3>4. /\ v.record.state = "closed" /\ v.record.token = q.record.token
            /\ v.record.exit = q.record.exit
        BY <1>5, <3>1 DEF Cancel, RelayType, RecordType
      <3> HIDE DEF v, m
      <3> QED BY <1>5, <1>7, <2>2, <3>2, <3>3, <3>4 DEF SameBeside, v
    <2> QED BY <2>1, <2>2 DEF MaybeClose
  <1> HIDE DEF m
  <1>14. t \in RelayType /\ z \in RelayType
    <2>1. (m.timer \/ m.queue # <<>>) \in BOOLEAN
      BY <1>13 DEF RelayType
    <2> DEFINE b == m.timer \/ m.queue # <<>>
    <2> HIDE DEF b
    <2>2. [m EXCEPT !.timer = b] \in RelayType
          /\ [[m EXCEPT !.timer = b] EXCEPT !.exit = "done", !.projected = FALSE] \in RelayType
      BY <1>13, <2>1, RelayUpdates, Zenon DEF b
    <2> QED BY <2>2 DEF b
  <1>15. /\ t.record = m.record /\ t.queue = <<>> /\ t.exit = "pending"
         /\ z.record = m.record /\ z.queue = <<>> /\ z.exit = "done" /\ z.projected = FALSE
         /\ z.wire = r.wire /\ z.tokens = r.tokens /\ z.conn = r.conn /\ z.conns = r.conns
         /\ z.subscriber = r.subscriber
    BY <1>4, <1>13 DEF RelayType, SameBeside
  <1>16. relay' = Prune(z)
    <2>1. OnCapacity(m, room) = PublishPendingExit(t, room)
      BY DEF OnCapacity
    <2> HIDE DEF t
    <2>2. t.record.token # 0 /\ t.record.exit = "published"
      BY <1>4, <1>13, <1>15
    <2> QED BY <1>3, <1>15, <2>1, <2>2 DEF PublishPendingExit
  <1> HIDE DEF z, t, r
  <1>17. Good(relay', c, p) /\ QueueOK(relay', p) /\ ~Waits(relay')
    <2>1. CASE m.record.state = "closed"
      <3> DEFINE v == [z EXCEPT !.record = NoRecord]
                 u == [y EXCEPT !.record = NoRecord]
      <3>1. relay' = v
        BY <1>15, <1>16, <2>1 DEF Prune
      <3>2. v \in RelayType
        BY <1>14, RelayUpdates, NoRecordTypes
      <3>3. /\ v.record = NoRecord /\ v.queue = <<>> /\ v.exit = "done" /\ v.projected = FALSE
            /\ v.wire = r.wire /\ v.tokens = r.tokens /\ v.conn = r.conn /\ v.conns = r.conns
            /\ v.subscriber = r.subscriber
        BY <1>14, <1>15 DEF RelayType
      <3>4. /\ u.record = NoRecord /\ u.exit = "done" /\ u.projected = FALSE
            /\ u.wire = r.wire /\ u.tokens = r.tokens /\ u.conn = r.conn /\ u.conns = r.conns
            /\ u.subscriber = r.subscriber
        BY <1>6 DEF RelayType
      <3> HIDE DEF u, v
      <3>5. Good(u, c, p)
        BY <1>12 DEF u
      <3>6. Good(v, c, p)
        BY <3>2, <3>3, <3>4, <3>5, AsideKeeps
      <3>7. QueueOK(v, p)
        BY <1>1, <1>4, <3>3, DropQueue
      <3> QED BY <3>1, <3>3, <3>6, <3>7, NoneWaits
    <2>2. CASE m.record.state # "closed"
      <3>1. relay' = z /\ z.record = e
        BY <1>13, <1>15, <1>16, <2>2 DEF Prune
      <3>2. Good(z, c, p)
        BY <1>6, <1>11, <1>14, <1>15, <3>1, AsideKeeps, ZenonT(30)
      <3>3. QueueOK(z, p)
        BY <1>1, <1>4, <1>7, <1>15, <3>1, QueueStays DEF d
      <3>4. ~Waits(z)
        <4>1. d.sent \in Nat
          BY <1>2, RecordTypes
        <4> QED BY <1>4, <1>7, <3>1, <4>1 DEF Waits
      <3> QED BY <3>1, <3>2, <3>3, <3>4
    <2> QED BY <2>1, <2>2
  <1> QED BY <1>3, <1>17, RoomStep

LEMMA ReplySettledStep ==
  ASSUME IInv, NEW room \in Rooms, ReplySettled(room)
  PROVE  IInv'
  <1> DEFINE r == relay
             c == client
             p == pty
             d == r.record
             q == [r EXCEPT !.reply = FALSE]
             e == [d EXCEPT !.activating = FALSE]
             s == [q EXCEPT !.record.activating = FALSE]
             n == [q EXCEPT !.record = NoRecord]
  <1>1. Good(r, c, p) /\ QueueOK(r, p)
    BY DEF IInv
  <1>2. r \in RelayType /\ d \in RecordType
    BY <1>1, RelayTypes DEF Good
  <1>3. /\ client' = c /\ pty' = p /\ Room(room)
        /\ relay' = IF d.activating /\ Reaches(r)
                    THEN OnCapacity(Pump(CompleteRecovery(s, room), room), room)
                    ELSE IF d.restore THEN OnCapacity(n, room)
                    ELSE q
    BY DEF ReplySettled
  <1>4. q \in RelayType /\ q.record = d /\ q.wire = r.wire /\ SameBeside(r, q)
    <2>1. q \in RelayType
      BY <1>2, RelayUpdates
    <2> QED BY <1>2, <2>1 DEF RelayType, SameBeside
  <1> HIDE DEF q, d, r, c, p
  <1>5. Good(q, c, p) /\ QueueOK(q, p) /\ (Waits(q) => Waits(r))
    <2>1. Good(q, c, p) /\ (Waits(q) => Waits(r))
      BY <1>1, <1>4, AsideKeeps DEF SameBeside, d
    <2>2. QueueOK(q, p)
      BY <1>1, <1>4, QueueStays DEF SameBeside, d
    <2> QED BY <2>1, <2>2
  <1>6. CASE d.activating /\ Reaches(r)
    <2>1. s \in RelayType /\ s.record = e /\ s.wire = q.wire /\ SameBeside(q, s)
      <3>1. s \in RelayType
        BY <1>4, DeliveryUpdates
      <3> QED BY <1>4, <3>1 DEF RelayType, SameBeside
    <2>2. /\ e.token = d.token /\ e.conn = d.conn /\ e.pending = d.pending
          /\ e.completing = d.completing /\ e.reserved = d.reserved /\ e.credited = d.credited
          /\ e.sent = d.sent /\ e.received = d.received /\ e.exit = d.exit
          /\ e.state = d.state /\ e.legacyExit = d.legacyExit
          /\ e.recoveryEnd = d.recoveryEnd /\ e.restore = d.restore
      BY <1>2 DEF RecordType
    <2>3. RecordOK(e, p)
      <3>1. d.token # 0
        BY <1>1, <1>6 DEF Good, RecordOK, NoRecord, d
      <3>2. RecordOK(d, p)
        BY <1>1 DEF Good, d
      <3> QED BY <1>2, <1>6, <3>1, <3>2 DEF RecordOK, RecordType
    <2> HIDE DEF s, e
    <2>4. ExitOK(s, c, p)
      BY <1>4, <1>5, <2>1, <2>2 DEF Good, ExitOK, SameBeside
    <2>5. SameDelivery(q, s, c)
      BY <1>4, <1>5, <2>1, <2>2
         DEF Good, ConnOK, FollowOK, RecoverOK, KeepOK, SameDelivery, SentTo, Reaches
    <2>6. Good(s, c, p)
      BY <1>5, <2>1, <2>3, <2>4, <2>5, RecordChange DEF SameBeside
    <2>7. QueueOK(s, p)
      BY <1>4, <1>5, <2>1, <2>2, QueueStays DEF SameBeside
    <2>8. relay' = OnCapacity(Pump(CompleteRecovery(s, room), room), room)
      BY <1>3, <1>6
    <2>9. Good(relay', c, p) /\ QueueOK(relay', p) /\ (room.fits = "all" => ~Waits(relay'))
      BY <2>6, <2>7, <2>8, GoesOn
    <2> QED BY <1>3, <2>9, RoomStep
  <1>7. CASE ~(d.activating /\ Reaches(r)) /\ d.restore
    <2>1. d.exit = "idle"
      BY <1>1, <1>7 DEF Good, RecordOK, d
    <2>2. Good(n, c, p)
      BY <1>4, <1>5, <2>1, DropKeeps
    <2>3. n.record = NoRecord /\ n.queue = q.queue
      BY <1>4 DEF RelayType
    <2> HIDE DEF n
    <2>4. QueueOK(n, p) /\ ~Waits(n)
      BY <1>5, <2>3, DropQueue, NoneWaits
    <2> DEFINE v == OnCapacity(n, room)
    <2>5. Good(v, c, p) /\ Carries(n, v, room)
      BY <2>2, <2>4, OnCapacityKeeps
    <2>6. relay' = v
      BY <1>3, <1>7
    <2> HIDE DEF v
    <2>7. Good(relay', c, p) /\ QueueOK(relay', p) /\ (room.fits = "all" => ~Waits(relay'))
      <3>1. QueueOK(v, p)
        BY <2>4, <2>5, CarriesQueue
      <3> QED BY <2>4, <2>5, <2>6, <3>1 DEF Carries
    <2> QED BY <1>3, <2>7, RoomStep
  <1>8. CASE ~(d.activating /\ Reaches(r)) /\ ~d.restore
    <2>1. relay' = q
      BY <1>3, <1>8
    <2> QED BY <1>3, <1>5, <2>1, RoomStep DEF r
  <1> QED BY <1>6, <1>7, <1>8

LEMMA LegacyCapacityStep ==
  ASSUME IInv, NEW room \in Rooms, LegacyCapacity(room)
  PROVE  IInv'
  <1> DEFINE r == relay
             c == client
             p == pty
             x == OnCapacity(r, room)
             y == CompleteRecovery(x, room)
  <1>1. Good(r, c, p) /\ QueueOK(r, p)
    BY DEF IInv
  <1>2. client' = c /\ pty' = p /\ Room(room) /\ relay' = y
    BY DEF LegacyCapacity, AfterCapacity
  <1> HIDE DEF c, p
  <1>3. Good(x, c, p) /\ Carries(r, x, room)
    BY <1>1, OnCapacityKeeps
  <1> HIDE DEF x
  <1>4. Good(y, c, p) /\ Carries(x, y, room)
    BY <1>3, CompleteRecoveryKeeps
  <1> HIDE DEF y
  <1>5. Carries(r, y, room)
    BY <1>3, <1>4, CarriesOn
  <1>6. QueueOK(y, p) /\ (room.fits = "all" => (Waits(y) => Waits(r)))
    <2>1. QueueOK(y, p)
      BY <1>1, <1>5, CarriesQueue
    <2> QED BY <1>5, <2>1 DEF Carries
  <1> QED BY <1>2, <1>4, <1>6, RoomStep

LEMMA GraceExpiryStep ==
  ASSUME IInv, NEW room \in Rooms, GraceExpiry(room)
  PROVE  IInv'
  <1> DEFINE r == relay
             c == client
             p == pty
             x == Cancel(r)
             y == OnCredit(x, room)
  <1>1. Good(r, c, p) /\ QueueOK(r, p)
    BY DEF IInv
  <1>2. client' = c /\ pty' = p /\ Room(room) /\ relay' = y /\ r.record.token # 0 /\ ~Reaches(r)
    BY DEF GraceExpiry
  <1>3. r.record.pending = 0
    BY <1>1, <1>2 DEF Good, ConnOK
  <1> HIDE DEF c, p, r
  <1>4. Good(x, c, p) /\ Carries(r, x, room)
    BY <1>1, <1>2, <1>3, CancelKeeps
  <1> HIDE DEF x
  <1>5. QueueOK(x, p)
    BY <1>1, <1>4, CarriesQueue
  <1>6. Good(y, c, p) /\ QueueOK(y, p) /\ (room.fits = "all" => ~Waits(y))
    BY <1>4, <1>5, GoesOn
  <1> HIDE DEF y
  <1> QED BY <1>2, <1>6, RoomStep

\* The client has sent the acknowledgements it owed.
LEMMA OwedShrinks ==
  ASSUME NEW r, NEW c, NEW p, Good(r, c, p), NEW S \in SUBSET c.owed
  PROVE  Good(r, [c EXCEPT !.owed = S], p)
  <1> DEFINE x == [c EXCEPT !.owed = S]
  <1>1. c \in ClientType
    BY RelayTypes DEF Good
  <1>2. x \in ClientType
    BY <1>1 DEF ClientType
  <1>3. /\ x.mode = c.mode /\ x.token = c.token /\ x.next = c.next /\ x.end = c.end
        /\ x.buffer = c.buffer /\ x.shown = c.shown /\ x.checkpoint = c.checkpoint
        /\ x.exits = c.exits /\ x.exitBy = c.exitBy /\ x.owed = S
    BY <1>1 DEF ClientType
  <1> HIDE DEF x
  <1>4. \A w, k, at : Follows(w, x, k, at) <=> Follows(w, c, k, at)
    BY <1>3 DEF Follows
  <1>5. \A w, k, e : Recovers(w, x, k, e) <=> Recovers(w, c, k, e)
    BY <1>3 DEF Recovers
  <1>6. ClientOK(x, p)
    BY <1>3, ZenonT(30) DEF Good, ClientOK
  <1>7. WireOK(r.wire, r.tokens, x, p)
    <2>1. AnswerOK(r.wire, r.tokens, x, p)
      BY <1>3 DEF Good, WireOK, AnswerOK
    <2>2. ChainOK(r.wire, r.tokens, x)
      BY <1>4 DEF Good, WireOK, ChainOK
    <2>3. CompleteOK(r.wire, x)
      BY <1>4, <1>5 DEF Good, WireOK, CompleteOK
    <2>4. SourceOK(r.wire, x, p)
      BY <1>4, <1>5 DEF Good, WireOK, SourceOK
    <2> QED BY <2>1, <2>2, <2>3, <2>4 DEF Good, WireOK
  <1>8. FollowOK(r, x) /\ RecoverOK(r.wire, r.record, x) /\ KeepOK(r.record, x)
    BY <1>3, <1>4, <1>5 DEF Good, FollowOK, RecoverOK, KeepOK
  <1>9. ConnOK(r, x) /\ TokensOK(r, x) /\ ExitOK(r, x, p)
    BY <1>3 DEF Good, ConnOK, TokensOK, ExitOK
  <1>10. Typed(r, x, p) /\ RecordOK(r.record, p)
    BY <1>2 DEF Good, Typed
  <1>11. Good(r, x, p)
    BY <1>6, <1>7, <1>8, <1>9, <1>10 DEF Good
  <1> QED BY <1>11 DEF x

\* An early ACK is kept until the write of its frame is settled.
LEMMA ReserveKeeps ==
  ASSUME NEW r, NEW c, NEW p, Good(r, c, p), QueueOK(r, p), NEW end \in Positions,
         r.record.token # 0, r.record.state # "closed", Reaches(r), r.record.sent < end,
         end = IF r.record.pending # 0 THEN r.record.pending ELSE r.record.reserved,
         \A at \in Nat : Follows(r.wire, c, r.record.token, at) => end <= at,
         r.record.token = c.checkpoint.token => end <= c.checkpoint.end
  PROVE  LET q == [r EXCEPT !.record.reserved = end]
         IN  Good(q, c, p) /\ QueueOK(q, p) /\ (Waits(q) => Waits(r))
  <1> DEFINE d == r.record
             e == [d EXCEPT !.reserved = end]
             q == [r EXCEPT !.record.reserved = end]
  <1>1. r \in RelayType /\ d \in RecordType /\ d.sent \in Nat /\ end \in Nat
    BY RelayTypes, RecordTypes, Constants DEF Good, Positions
  <1>2. q \in RelayType /\ q.record = e /\ q.wire = r.wire /\ SameBeside(r, q)
    <2>1. q \in RelayType
      BY <1>1, DeliveryUpdates
    <2> QED BY <1>1, <2>1 DEF RelayType, SameBeside
  <1>3. /\ e.token = d.token /\ e.conn = d.conn /\ e.pending = d.pending
        /\ e.completing = d.completing /\ e.reserved = end /\ e.credited = d.credited
        /\ e.sent = d.sent /\ e.received = d.received /\ e.exit = d.exit /\ e.state = d.state
        /\ e.legacyExit = d.legacyExit /\ e.recoveryEnd = d.recoveryEnd
        /\ e.activating = d.activating /\ e.restore = d.restore
    BY <1>1 DEF RecordType
  <1>4. end # 0 /\ d.pending = end /\ end <= d.received
    <2>1. end # 0
      BY <1>1
    <2>2. d.pending # 0
      BY <2>1 DEF Good, ConnOK
    <2> QED BY <2>1, <2>2 DEF Good, RecordOK
  <1>5. RecordOK(e, p)
    BY <1>1, <1>4 DEF Good, RecordOK, RecordType
  <1> HIDE DEF q, d, e
  <1>6. ExitOK(q, c, p)
    BY <1>2, <1>3 DEF Good, ExitOK, SameBeside, d
  <1>7. SameDelivery(r, q, c)
    <2>1. \A at \in Nat : Follows(r.wire, c, e.token, at) =>
            e.credited <= at /\ e.reserved <= at /\ SentTo(e) = SentTo(d)
      BY <1>3 DEF Good, FollowOK, SentTo, d
    <2>2. KeepOK(e, c)
      BY <1>3 DEF Good, KeepOK, d
    <2> QED BY <1>2, <1>3, <1>4, <2>1, <2>2 DEF Good, ConnOK, RecoverOK, SameDelivery, Reaches, d
  <1>8. Good(q, c, p)
    BY <1>2, <1>5, <1>6, <1>7, RecordChange DEF SameBeside
  <1>9. QueueOK(q, p)
    BY <1>2, <1>3, QueueStays DEF SameBeside, d
  <1>10. Waits(q) => Waits(r)
    BY <1>2, <1>3 DEF Waits, Reaches, SameBeside, d
  <1> QED BY <1>8, <1>9, <1>10 DEF q

LEMMA AckDataStep ==
  ASSUME IInv, NEW room \in Rooms, NEW end \in client.owed, AckData(end, room)
  PROVE  IInv'
  <1> DEFINE r == relay
             c == client
             p == pty
             d == r.record
             x == [c EXCEPT !.owed = {e \in c.owed : e > end}]
             reserved == IF d.pending # 0 THEN d.pending ELSE d.reserved
             ignored == \/ d.token # c.token \/ ~Reaches(r) \/ d.state = "closed"
                        \/ end <= d.credited
                        \/ (end > d.sent /\ end # reserved)
                        \/ (end <= d.sent /\ end \notin d.boundaries)
             kept == [r EXCEPT !.record.reserved = end]
             q == [r EXCEPT !.record = Credit(d, end)]
             m == MaybeClose(q)
             v == OnCredit(m, room)
  <1>1. Good(r, c, p) /\ QueueOK(r, p)
    BY DEF IInv
  <1>2. r \in RelayType /\ d \in RecordType /\ c \in ClientType /\ r.wire \in Seq(Frame)
    BY <1>1, RelayTypes DEF Good
  <1>3. /\ client' = x /\ pty' = p /\ Room(room)
        /\ relay' = IF ignored THEN r ELSE IF end > d.sent THEN kept ELSE v
    BY DEF AckData
  <1>4. x = [c EXCEPT !.owed = {e \in c.owed : e > end}] /\ {e \in c.owed : e > end} \in SUBSET c.owed
    OBVIOUS
  <1> HIDE DEF x, ignored
  <1>5. SUFFICES /\ Good(relay', c, p) /\ QueueOK(relay', p)
                 /\ room.fits = "all" => (Waits(relay') => Waits(r))
    <2>1. ASSUME Good(relay', c, p)
          PROVE  Good(relay', x, p)
      BY <1>4, <2>1, OwedShrinks
    <2> QED BY <1>3, <2>1, RoomStep
  <1>6. CASE ignored
    BY <1>1, <1>3, <1>6
  <1>7. CASE ~ignored
    <2>1. /\ d.token = c.token /\ Reaches(r) /\ d.state # "closed" /\ ~(end <= d.credited)
          /\ end > d.sent => end = reserved
      BY <1>7 DEF ignored
    <2>2. /\ end \in Nat /\ Len(c.shown) \in Nat /\ d.credited \in Nat /\ d.sent \in Nat
          /\ p.written \in Nat /\ p.written <= MaxUnits /\ c.token \in Nat
      BY <1>1, <1>2, RelayTypes, RecordTypes, LenProperties, Constants, SMTT(30)
         DEF Good, ClientType, Program, Positions
    <2>3. /\ c.checkpoint.token = c.token /\ c.token # 0 /\ end <= Len(c.shown)
          /\ c.checkpoint.end = Len(c.shown) /\ Len(c.shown) <= p.written
      BY <1>1 DEF Good, ClientOK
    <2> HIDE DEF r, c, p, d, reserved
    <2>4. end \in Positions
      BY <2>2, <2>3, Constants DEF Positions
    <2>5. ASSUME NEW at \in Nat, Follows(r.wire, c, d.token, at)
          PROVE  end <= at
      <3>1. CASE c.mode \in {"live", "recovering"} /\ at = c.next
        <4>1. c.next \in Nat /\ Len(c.buffer.units) \in Nat
          BY <1>2, LenProperties DEF ClientType
        <4>2. Len(c.shown) <= c.next
          <5>1. ClientOK(c, p)
            BY <1>1 DEF Good
          <5>2. CASE c.mode = "live"
            <6>1. c.next = Len(c.shown)
              BY <5>1, <5>2 DEF ClientOK
            <6> QED BY <2>2, <6>1
          <5>3. CASE c.mode = "recovering"
            <6>1. c.next = Len(c.shown) + Len(c.buffer.units)
              BY <5>1, <5>3 DEF ClientOK
            <6>2. \A a, b \in Nat : a <= a + b
              OBVIOUS
            <6> QED BY <2>2, <4>1, <6>1, <6>2, Zenon
          <5> QED BY <3>1, <5>2, <5>3
        <4> QED BY <2>2, <2>3, <3>1, <4>1, <4>2
      <3>2. CASE \E i \in 1 .. Len(r.wire) : r.wire[i].kind \in {"opened", "recovery"}
                                             /\ d.token = r.wire[i].token
        <4>1. PICK i \in 1 .. Len(r.wire) : r.wire[i].kind \in {"opened", "recovery"}
                                            /\ d.token = r.wire[i].token
          BY <3>2
        <4>2. c.token < d.token
          BY <1>1, <4>1 DEF Good, WireOK, AnswerOK, IsAnswer, Answer
        <4> QED BY <2>1, <2>2, <4>2
      <3> QED BY <2>5, <3>1, <3>2 DEF Follows
    <2>6. CASE end > d.sent
      <3>1. Good(kept, c, p) /\ QueueOK(kept, p) /\ (Waits(kept) => Waits(r))
        <4>1. d.sent < end /\ d.token # 0
          BY <2>1, <2>2, <2>3, <2>6
        <4>2. end = reserved
          BY <2>1, <2>6
        <4> QED BY <1>1, <2>1, <2>3, <2>4, <2>5, <4>1, <4>2, ReserveKeeps DEF d, reserved
      <3> QED BY <1>3, <1>7, <2>6, <3>1
    <2>7. CASE ~(end > d.sent)
      <3>1. Good(q, c, p) /\ QueueOK(q, p)
        <4>1. d.credited <= end /\ end <= d.sent /\ d.token # 0
          BY <2>1, <2>2, <2>3, <2>7
        <4>2. d.token = c.checkpoint.token => end <= c.checkpoint.end
          BY <2>3
        <4> QED BY <1>1, <2>1, <2>4, <2>5, <4>1, <4>2, CreditKeeps DEF d
      <3> HIDE DEF q
      <3>2. Good(m, c, p) /\ Carries(q, m, room)
        BY <3>1, MaybeCloseKeeps
      <3> HIDE DEF m
      <3>3. QueueOK(m, p)
        BY <3>1, <3>2, CarriesQueue
      <3>4. Good(v, c, p) /\ QueueOK(v, p) /\ (room.fits = "all" => ~Waits(v))
        BY <3>2, <3>3, GoesOn
      <3> QED BY <1>3, <1>7, <2>7, <3>4
    <2> QED BY <2>6, <2>7
  <1> QED BY <1>6, <1>7

-----------------------------------------------------------------------------
(* Connections *)

NoAnswer(w) == \A i \in 1 .. Len(w) : ~IsAnswer(w, i)

Idle(c) == c.mode \notin {"live", "recovering"}

\* An idle client that waits for no answer follows nothing.
LEMMA NobodyFollows ==
  ASSUME NEW w, NEW c, NoAnswer(w), Idle(c)
  PROVE  /\ \A k, at : ~Follows(w, c, k, at)
         /\ \A k, e : ~Recovers(w, c, k, e)
  <1>1. \A i \in 1 .. Len(w) : w[i].kind \notin {"opened", "recovery"}
    BY DEF NoAnswer, IsAnswer, Answer
  <1>2. \A k, at : ~Follows(w, c, k, at)
    BY <1>1 DEF Follows, Idle
  <1>3. \A k, e : ~Recovers(w, c, k, e)
    BY <1>1 DEF Recovers, Idle
  <1> QED BY <1>2, <1>3

LEMMA IdleGood ==
  ASSUME NEW r, NEW c, NEW p, Typed(r, c, p), RecordOK(r.record, p), ConnOK(r, c),
         TokensOK(r, c), ExitOK(r, c, p), ClientOK(c, p), KeepOK(r.record, c),
         NoAnswer(r.wire), Idle(c), DataOK(r.wire, p), OpenedOK(r.wire, r.tokens)
  PROVE  Good(r, c, p)
  <1>1. /\ \A k, at : ~Follows(r.wire, c, k, at)
        /\ \A k, e : ~Recovers(r.wire, c, k, e)
    BY NobodyFollows
  <1>2. AnswerOK(r.wire, r.tokens, c, p)
    BY DEF AnswerOK, NoAnswer
  <1>3. ChainOK(r.wire, r.tokens, c) /\ CompleteOK(r.wire, c)
    BY <1>1 DEF ChainOK, CompleteOK
  <1>4. SourceOK(r.wire, c, p)
    BY <1>1 DEF SourceOK
  <1>5. FollowOK(r, c) /\ RecoverOK(r.wire, r.record, c)
    BY <1>1 DEF FollowOK, RecoverOK
  <1> QED BY <1>2, <1>3, <1>4, <1>5 DEF Good, WireOK

LEMMA EmptyWire ==
  /\ NoAnswer(<<>>) /\ <<>> \in Seq(Frame) /\ \A i : ~IsExit(<<>>, i)
  /\ \A p : DataOK(<<>>, p)
  /\ \A tokens : OpenedOK(<<>>, tokens)
  <1>1. <<>> \in Seq(Frame) /\ Len(<<>>) = 0 /\ 1 .. 0 = {}
    BY EmptySeq
  <1> QED BY <1>1 DEF NoAnswer, IsExit, DataOK, OpenedOK

LEMMA ConnectStep ==
  ASSUME IInv, Connect
  PROVE  IInv'
  <1> DEFINE r == relay
             c == client
             p == pty
             mode == IF c.mode = "exited" THEN c.mode
                     ELSE IF r.conns = 0 THEN "detached" ELSE "reconnected"
             q == [r EXCEPT !.conn = r.conns + 1, !.conns = r.conns + 1]
             x == [c EXCEPT !.exits = 0, !.mode = mode]
  <1>1. Good(r, c, p) /\ QueueOK(r, p)
    BY DEF IInv
  <1>2. r \in RelayType /\ c \in ClientType /\ p \in Program /\ r.conns \in 0 .. MaxConns
        /\ r.tokens \in Nat /\ r.record \in RecordType /\ r.conns \in Nat
    BY <1>1, RelayTypes DEF Good, RelayType
  <1>3. relay' = q /\ client' = x /\ pty' = p /\ refusals' = refusals /\ r.conn = 0
        /\ r.conns < MaxConns
    BY DEF Connect
  <1>4. r.conns + 1 \in 0 .. MaxConns /\ r.conns + 1 \in Nat /\ r.conns + 1 # 0
    BY <1>2, <1>3, Constants
  <1> DEFINE n == r.conns + 1
  <1>5. n \in 0 .. MaxConns
    BY <1>4
  <1> HIDE DEF n
  <1>6. q = [r EXCEPT !.conn = n, !.conns = n] /\ q \in RelayType
    <2>1. [r EXCEPT !.conn = n] \in RelayType
      BY <1>2, <1>5, RelayUpdates
    <2>2. [[r EXCEPT !.conn = n] EXCEPT !.conns = n] \in RelayType
      BY <1>5, <2>1, RelayUpdates
    <2> QED BY <2>2 DEF n
  <1>7. /\ q.record = r.record /\ q.queue = r.queue /\ q.exit = r.exit /\ q.tokens = r.tokens
        /\ q.projected = r.projected /\ q.subscriber = r.subscriber /\ q.wire = r.wire
        /\ q.conn = r.conns + 1 /\ q.conns = r.conns + 1
    BY <1>2 DEF RelayType
  <1>8. mode \in {"exited", "detached", "reconnected"} /\ (c.mode = "exited" <=> mode = "exited")
        /\ (mode = "detached" => r.conns = 0) /\ (mode = "reconnected" => r.conns # 0)
    OBVIOUS
  <1> HIDE DEF mode
  <1>9. x \in ClientType
    BY <1>2, <1>8 DEF ClientType
  <1>10. /\ x.mode = mode /\ x.token = c.token /\ x.next = c.next /\ x.end = c.end
         /\ x.buffer = c.buffer /\ x.shown = c.shown /\ x.checkpoint = c.checkpoint
         /\ x.exits = 0 /\ x.exitBy = c.exitBy /\ x.owed = c.owed
    BY <1>2 DEF ClientType
  <1> HIDE DEF r, c, p, q, x
  <1>11. r.wire = <<>> /\ c.mode \in {"down", "exited"}
    BY <1>1, <1>3 DEF Good, ConnOK
  <1>12. ~Reaches(r) /\ ~Reaches(q) /\ r.record.conn <= r.conns /\ r.record.conn \in Nat
    <2>1. r.record.conn <= r.conns /\ r.record.conn \in Nat
      BY <1>1, <1>2, RecordTypes DEF Good, ConnOK
    <2> QED BY <1>2, <1>3, <1>7, <2>1 DEF Reaches
  <1>13. ConnOK(q, x)
    <2>1. q.record.conn <= q.conns
      BY <1>2, <1>7, <1>12
    <2> QED BY <1>1, <1>4, <1>7, <1>10, <1>12, <2>1 DEF Good, ConnOK
  <1>14. TokensOK(q, x)
    <2>1. r.tokens + 2 <= 2 * (r.conns + 1) /\ r.tokens + 1 <= 2 * (r.conns + 1)
          /\ r.tokens <= 2 * (r.conns + 1)
      BY <1>1, <1>2 DEF Good, TokensOK
    <2> QED BY <1>7, <2>1 DEF TokensOK
  <1>15. ExitOK(q, x, p)
    BY <1>1, <1>7, <1>8, <1>10, <1>11, EmptyWire DEF Good, ExitOK
  <1>16. ClientOK(x, p)
    BY <1>1, <1>8, <1>10, <1>11 DEF Good, ClientOK
  <1>17. KeepOK(q.record, x)
    BY <1>1, <1>7, <1>10 DEF Good, KeepOK
  <1>18. Good(q, x, p)
    <2>1. Typed(q, x, p) /\ RecordOK(q.record, p) /\ Idle(x)
      BY <1>1, <1>2, <1>6, <1>7, <1>8, <1>9, <1>10 DEF Good, Typed, Idle
    <2> QED BY <1>7, <1>11, <1>13, <1>14, <1>15, <1>16, <1>17, <2>1, EmptyWire, IdleGood
  <1>19. QueueOK(q, p)
    BY <1>1, <1>7, QueueStays
  <1>20. ~Waits(q)
    BY <1>12 DEF Waits
  <1> QED BY <1>3, <1>18, <1>19, <1>20 DEF IInv


\* The relay has lost its connection: nothing that its operators do makes another one.
Off(r) == "conn" \in DOMAIN r /\ r.conn = 0

LEMMA OffStays ==
  ASSUME NEW r, Off(r)
  PROVE  /\ \A x : Off([r EXCEPT !.record = x])
         /\ \A x : Off([r EXCEPT !.timer = x])
         /\ \A x : Off([r EXCEPT !.exit = x, !.projected = FALSE])
         /\ \A x : Off([r EXCEPT !.record = NoRecord, !.exit = "done", !.projected = FALSE,
                                 !.subscriber = x])
         /\ Off([r EXCEPT !.record = NoRecord, !.exit = "done", !.projected = FALSE])
         /\ \A x : Off([r EXCEPT !.record.legacyExit = TRUE, !.projected = TRUE, !.subscriber = x])
         /\ \A x : Off([r EXCEPT !.record.attempted = x, !.timer = TRUE])
         /\ \A x : Off([r EXCEPT !.record.attempted = x])
         /\ \A x : Off([r EXCEPT !.record.state = x])
         /\ \A x : Write(r, x) = r
         /\ ~Reaches(r)
  BY DEF Off, Write, Reaches

LEMMA AfterRetireStaysOff ==
  ASSUME NEW r, Off(r), NEW room
  PROVE  Off(Broadcast(r, room)) /\ Off(ToOwner(r, room)) /\ Off(AfterRetire(r, room))
  <1>1. Off(Broadcast(r, room))
    <2> DEFINE s == [r EXCEPT !.record = NoRecord, !.exit = "done", !.projected = FALSE,
                              !.subscriber = @ + 1]
    <2>1. Off(s)
      BY OffStays
    <2> HIDE DEF s
    <2>2. \A f : Write(s, f) = s
      BY <2>1, OffStays
    <2> QED BY <2>1, <2>2 DEF Broadcast, s
  <1>2. Off(ToOwner(r, room))
    <2> DEFINE s == [r EXCEPT !.record = NoRecord, !.exit = "done", !.projected = FALSE]
    <2>1. Off(s)
      BY OffStays
    <2> HIDE DEF s
    <2>2. \A f : Write(s, f) = s
      BY <2>1, OffStays
    <2> QED BY <2>1, <2>2 DEF ToOwner, s
  <1> QED BY <1>1, <1>2 DEF AfterRetire

LEMMA PumpStaysOff ==
  ASSUME NEW r, Off(r), NEW room
  PROVE  Off(Pump(r, room))
  <1> DEFINE end == FrameEnd(r, room)
             s == [r EXCEPT !.record = NoRecord]
             x == [r EXCEPT !.record.attempted = end, !.timer = TRUE]
             y == [r EXCEPT !.record.attempted = end]
  <1>1. Off(s) /\ Off(x) /\ Off(y) /\ ~Reaches(r)
    BY OffStays
  <1>2. CompleteRecovery(r, room) = r
    BY <1>1 DEF CompleteRecovery
  <1>3. Off(AfterRetire(s, room))
    BY <1>1, AfterRetireStaysOff
  <1>4. \/ Pump(r, room) = r \/ Pump(r, room) = CompleteRecovery(r, room)
        \/ Pump(r, room) = x \/ Pump(r, room) = y
        \/ Pump(r, room) = AfterRetire(s, room)
    BY <1>1, Zenon DEF Pump
  <1> QED BY <1>1, <1>2, <1>3, <1>4

LEMMA OnCapacityStaysOff ==
  ASSUME NEW r, Off(r), NEW room
  PROVE  Off(OnCapacity(r, room))
  <1> DEFINE t == [r EXCEPT !.timer = @ \/ r.queue # <<>>]
             u == [t EXCEPT !.exit = "done", !.projected = FALSE]
             s == [t EXCEPT !.record.state = "sealed"]
             k == Pump(s, room)
             l == [k EXCEPT !.record.legacyExit = TRUE, !.projected = TRUE, !.subscriber = @ + 1]
  <1>1. Off(t)
    BY OffStays
  <1> HIDE DEF t
  <1>2. Off(u) /\ Off(s)
    BY <1>1, OffStays
  <1>3. Off(Prune(u))
    BY <1>2, OffStays DEF Prune
  <1>4. Off(k)
    BY <1>2, PumpStaysOff
  <1>5. Off(l) /\ ~Reaches(l) /\ ~Reaches(k)
    BY <1>4, OffStays
  <1>6. SealAndPublishExit(t, room) \in {k, l}
    BY <1>5 DEF SealAndPublishExit
  <1>7. Off(AfterRetire(t, room)) /\ Off(Broadcast(t, room)) /\ Off(ToOwner(t, room))
    BY <1>1, AfterRetireStaysOff
  <1> DEFINE v == PublishPendingExit(t, room)
  <1>8. \/ v = t \/ v = AfterRetire(t, room) \/ v = Prune(u) \/ v = Broadcast(t, room)
        \/ v = ToOwner(t, room) \/ v = SealAndPublishExit(t, room)
    BY Zenon DEF PublishPendingExit
  <1>9. Off(v)
    BY <1>1, <1>3, <1>4, <1>5, <1>6, <1>7, <1>8
  <1> QED BY <1>9 DEF OnCapacity, t


\* What a record loses with its connection.
Undone(d) == [d EXCEPT !.pending = 0, !.completing = FALSE,
                       !.exit = IF @ = "pending" THEN "idle" ELSE @]

LEMMA UndoneIs ==
  ASSUME NEW d \in RecordType, NEW p, RecordOK(d, p)
  PROVE  LET e == Undone(d)
         IN  /\ e \in RecordType /\ RecordOK(e, p)
             /\ e.token = d.token /\ e.conn = d.conn /\ e.state = d.state
             /\ e.credited = d.credited /\ e.reserved = d.reserved /\ e.received = d.received
             /\ e.legacyExit = d.legacyExit /\ e.pending = 0 /\ ~e.completing
             /\ e.exit \in {"idle", "published"} /\ (e.exit # "idle" => e.exit = d.exit)
  <1> DEFINE exit == IF d.exit = "pending" THEN "idle" ELSE d.exit
             e == [d EXCEPT !.pending = 0, !.completing = FALSE, !.exit = exit]
  <1>1. Undone(d) = e /\ d.exit \in {"idle", "pending", "published"} /\ 0 \in Positions
    BY Constants DEF Undone, RecordType, Positions
  <1>2. exit \in {"idle", "published"} /\ (exit # "idle" => exit = d.exit)
    BY <1>1
  <1> HIDE DEF exit
  <1>3. e \in RecordType
    BY <1>1, <1>2 DEF RecordType
  <1>4. /\ e.token = d.token /\ e.conn = d.conn /\ e.pending = 0 /\ e.exit = exit
        /\ e.completing = FALSE /\ e.reserved = d.reserved /\ e.credited = d.credited
        /\ e.sent = d.sent /\ e.received = d.received /\ e.state = d.state
        /\ e.legacyExit = d.legacyExit /\ e.recoveryEnd = d.recoveryEnd
        /\ e.activating = d.activating /\ e.restore = d.restore /\ e.held = d.held
        /\ e.ends = d.ends /\ e.boundaries = d.boundaries /\ e.attempted = d.attempted
    BY DEF RecordType
  <1>5. d = NoRecord => e = d
    <2>1. d.pending = 0 /\ d.completing = FALSE /\ d.exit = exit => e = d
      BY DEF RecordType
    <2> QED BY <1>2, <2>1 DEF NoRecord, exit
  <1> HIDE DEF e
  <1>6. RecordOK(e, p)
    BY <1>2, <1>4, <1>5 DEF RecordOK
  <1> QED BY <1>1, <1>2, <1>3, <1>4, <1>6

\* The relay and the client after the loss of a connection.
LEMMA Unplugged ==
  ASSUME NEW r, NEW c, NEW p, Good(r, c, p), QueueOK(r, p), r.conn # 0,
         NEW d, d = NoRecord \/ d = Undone(r.record),
         NEW mode, mode = IF c.mode = "exited" THEN "exited" ELSE "down"
  PROVE  LET q == [r EXCEPT !.conn = 0, !.wire = <<>>, !.reply = FALSE, !.record = d]
             x == [c EXCEPT !.mode = mode, !.owed = {}, !.buffer = NoBuffer]
         IN  Good(q, x, p) /\ QueueOK(q, p) /\ Off(q)
  <1> DEFINE q == [r EXCEPT !.conn = 0, !.wire = <<>>, !.reply = FALSE, !.record = d]
             x == [c EXCEPT !.mode = mode, !.owed = {}, !.buffer = NoBuffer]
  <1>1. r \in RelayType /\ c \in ClientType /\ p \in Program /\ r.record \in RecordType
        /\ r.tokens \in Nat /\ r.conns \in Nat /\ RecordOK(r.record, p)
    BY RelayTypes DEF Good
  <1>2. d \in RecordType /\ RecordOK(d, p)
    BY <1>1, UndoneIs, NoRecordTypes
  <1>3. q \in RelayType
    <2>1. 0 \in 0 .. MaxConns /\ <<>> \in Seq(Frame) /\ FALSE \in BOOLEAN
      BY Constants, EmptySeq
    <2>2. [r EXCEPT !.conn = 0] \in RelayType
      BY <1>1, <2>1, RelayUpdates
    <2>3. [[r EXCEPT !.conn = 0] EXCEPT !.wire = <<>>] \in RelayType
      BY <2>1, <2>2, RelayUpdates
    <2>4. [[[r EXCEPT !.conn = 0] EXCEPT !.wire = <<>>] EXCEPT !.reply = FALSE] \in RelayType
      BY <2>1, <2>3, RelayUpdates
    <2>5. [[[[r EXCEPT !.conn = 0] EXCEPT !.wire = <<>>] EXCEPT !.reply = FALSE]
             EXCEPT !.record = d] \in RelayType
      BY <1>2, <2>4, RelayUpdates
    <2> QED BY <2>5
  <1>4. /\ q.record = d /\ q.queue = r.queue /\ q.exit = r.exit /\ q.tokens = r.tokens
        /\ q.projected = r.projected /\ q.subscriber = r.subscriber /\ q.wire = <<>>
        /\ q.conn = 0 /\ q.conns = r.conns /\ Off(q)
    BY <1>1 DEF RelayType, Off
  <1>5. /\ mode \in {"exited", "down"} /\ (mode = "exited" <=> c.mode = "exited")
        /\ NoBuffer \in [units : Seq(Nat), ends : SUBSET Nat]
    BY EmptySeq DEF NoBuffer
  <1>6. x \in ClientType
    BY <1>1, <1>5 DEF ClientType
  <1>7. /\ x.mode = mode /\ x.token = c.token /\ x.next = c.next /\ x.end = c.end
        /\ x.buffer = NoBuffer /\ x.shown = c.shown /\ x.checkpoint = c.checkpoint
        /\ x.exits = c.exits /\ x.exitBy = c.exitBy /\ x.owed = {}
    BY <1>1 DEF ClientType
  <1> HIDE DEF q, x
  <1>8. \/ d = NoRecord /\ d.token = 0 /\ d.conn = 0 /\ d.state = "closed" /\ d.exit = "idle"
           /\ ~d.legacyExit /\ d.pending = 0 /\ ~d.completing /\ d.reserved = 0
        \/ /\ d.token = r.record.token /\ d.conn = r.record.conn /\ d.state = r.record.state
           /\ d.credited = r.record.credited /\ d.reserved = r.record.reserved
           /\ d.received = r.record.received /\ d.legacyExit = r.record.legacyExit
           /\ d.pending = 0 /\ ~d.completing /\ d.exit \in {"idle", "published"}
           /\ (d.exit # "idle" => d.exit = r.record.exit)
    BY <1>1, UndoneIs DEF NoRecord
  <1>9. ConnOK(q, x)
    BY <1>1, <1>4, <1>5, <1>7, <1>8 DEF Good, ConnOK, Reaches
  <1>10. TokensOK(q, x)
    BY <1>4, <1>5, <1>7, EmptyWire DEF Good, TokensOK
  <1>11. ExitOK(q, x, p)
    BY <1>4, <1>5, <1>7, <1>8, EmptyWire DEF Good, ExitOK
  <1>12. ClientOK(x, p)
    BY <1>5, <1>7 DEF Good, ClientOK
  <1>13. KeepOK(q.record, x)
    BY <1>4, <1>7, <1>8 DEF Good, KeepOK
  <1>14. Good(q, x, p)
    <2>1. Typed(q, x, p) /\ RecordOK(q.record, p) /\ Idle(x)
      BY <1>1, <1>2, <1>3, <1>4, <1>5, <1>6, <1>7 DEF Typed, Idle
    <2> QED BY <1>4, <1>9, <1>10, <1>11, <1>12, <1>13, <2>1, EmptyWire, IdleGood
  <1>15. QueueOK(q, p)
    <2>1. CASE d = NoRecord
      BY <1>4, <2>1, DropQueue
    <2>2. CASE d # NoRecord
      BY <1>4, <1>8, <2>2, QueueStays
    <2> QED BY <2>1, <2>2
  <1> QED BY <1>4, <1>14, <1>15 DEF q, x

LEMMA DisconnectStep ==
  ASSUME IInv, Disconnect
  PROVE  IInv'
  <1> DEFINE r == relay
             c == client
             p == pty
             d == r.record
             mode == IF c.mode = "exited" THEN "exited" ELSE "down"
             x == [c EXCEPT !.mode = mode, !.owed = {}, !.buffer = NoBuffer]
             With(e) == [r EXCEPT !.conn = 0, !.wire = <<>>, !.reply = FALSE, !.record = e]
             room == [fits |-> "small", size |-> 1]
             none == With(NoRecord)
             undo == With(Undone(d))
  <1>1. Good(r, c, p) /\ QueueOK(r, p)
    BY DEF IInv
  <1>2. r \in RelayType /\ d \in RecordType /\ c \in ClientType /\ room \in Rooms
    BY <1>1, RelayTypes DEF Good, Rooms
  <1>3. r.conn # 0 /\ client' = x /\ pty' = p /\ refusals' = refusals
    BY DEF Disconnect
  <1>4. ~Reaches(r) => Undone(d) = d
    <2>1. ~Reaches(r) => d.pending = 0 /\ d.completing = FALSE /\ d.exit # "pending"
      BY <1>1, <1>2 DEF Good, ConnOK, RecordType
    <2>2. d.pending = 0 /\ d.completing = FALSE /\ d.exit # "pending" => Undone(d) = d
      BY <1>2 DEF RecordType, Undone
    <2> QED BY <2>1, <2>2
  <1>5. \/ relay' = none \/ relay' = undo
        \/ relay' = OnCapacity(none, room) \/ relay' = OnCapacity(undo, room)
    <2> DEFINE off == [r EXCEPT !.conn = 0, !.wire = <<>>, !.reply = FALSE]
               back == [off EXCEPT !.record.pending = 0, !.record.completing = FALSE,
                                   !.record.exit = IF @ = "pending" THEN "idle" ELSE @]
               gone == [off EXCEPT !.record = NoRecord]
    <2>1. back = undo /\ gone = none
      BY <1>2, ZenonT(30) DEF RelayType, RecordType, Undone
    <2>2. ~Reaches(r) => off = undo
      BY <1>2, <1>4 DEF RelayType
    <2>3. relay' = IF d.restore /\ r.reply THEN OnCapacity(gone, room)
                   ELSE IF ~Reaches(r) THEN off
                   ELSE IF d.activating /\ ~d.asked THEN gone
                   ELSE IF d.pending # 0 THEN OnCapacity(back, room) ELSE back
      BY DEF Disconnect
    <2> HIDE DEF off, back, gone, none, undo, room, r, d
    <2> QED BY <2>1, <2>2, <2>3
  <1> HIDE DEF r, c, p, room
  <1>6. /\ Good(none, x, p) /\ QueueOK(none, p) /\ Off(none)
        /\ Good(undo, x, p) /\ QueueOK(undo, p) /\ Off(undo)
    BY <1>1, <1>3, Unplugged
  <1> HIDE DEF x, none, undo
  <1>7. Good(relay', x, p) /\ QueueOK(relay', p) /\ Off(relay')
    <2>1. ASSUME NEW s, Good(s, x, p), QueueOK(s, p), Off(s)
          PROVE  /\ Good(OnCapacity(s, room), x, p) /\ QueueOK(OnCapacity(s, room), p)
                 /\ Off(OnCapacity(s, room))
      <3>1. Good(OnCapacity(s, room), x, p) /\ Carries(s, OnCapacity(s, room), room)
        BY <1>2, <2>1, OnCapacityKeeps
      <3> QED BY <2>1, <3>1, CarriesQueue, OnCapacityStaysOff
    <2> QED BY <1>5, <1>6, <2>1
  <1>8. ~Waits(relay')
    BY <1>7 DEF Waits, Reaches, Off
  <1> QED BY <1>3, <1>7, <1>8 DEF IInv


\* A client that has no delivery, or gives up the one it recovers.
LEMMA GivenUp ==
  ASSUME NEW r, NEW c, NEW p, Good(r, c, p), NEW x \in ClientType,
         NoAnswer(r.wire), Idle(x), x.mode \notin {"rejected", "reconnected"},
         x.mode = "exited" <=> x.exitBy # "none", x.exitBy # "source",
         x.mode \in {"exited", "detached", "asking"}, x.mode = "exited" => r.exit # "none",
         x.mode = "detached" => c.mode = "recovering",
         x.token = c.token, x.shown = c.shown, x.exits = c.exits, x.owed = c.owed,
         x.mode # "exited" => x.owed = {} /\ x.buffer = NoBuffer,
         (x.checkpoint = NoCheckpoint /\ x.owed = {}) \/ x.checkpoint = c.checkpoint,
         r.conn # 0
  PROVE  Good(r, x, p)
  <1>1. r \in RelayType /\ c \in ClientType /\ p \in Program /\ r.tokens \in Nat
    BY RelayTypes DEF Good
  <1>2. ConnOK(r, x)
    BY <1>1 DEF Good, ConnOK, NoCheckpoint
  <1>3. TokensOK(r, x)
    BY DEF Good, TokensOK
  <1>4. ExitOK(r, x, p)
    BY DEF Good, ExitOK
  <1>5. ClientOK(x, p)
    <2>1. ClientOK(c, p)
      BY DEF Good
    <2>2. /\ Len(x.shown) <= p.written
          /\ \A i \in 1 .. Len(x.shown) : x.shown[i] = i
          /\ \A e \in x.owed : e <= Len(x.shown)
      BY <2>1 DEF ClientOK
    <2>3. x.checkpoint.token # 0 => x.checkpoint.end = Len(x.shown) /\ x.checkpoint.end > 0
      BY <2>1 DEF ClientOK, NoCheckpoint
    <2>4. x.owed # {} => x.checkpoint.token = x.token /\ x.token # 0
      BY <2>1 DEF ClientOK
    <2>5. /\ x.mode # "rejected" /\ x.mode \notin {"live", "recovering"}
          /\ x.mode \notin {"recovering", "exited"} => x.buffer = NoBuffer
          /\ x.mode \notin {"live", "exited"} => x.owed = {}
      BY DEF Idle
    <2> QED BY <2>2, <2>3, <2>4, <2>5 DEF ClientOK
  <1>6. KeepOK(r.record, x)
    BY DEF Good, KeepOK, NoCheckpoint
  <1>7. Typed(r, x, p) /\ RecordOK(r.record, p) /\ DataOK(r.wire, p) /\ OpenedOK(r.wire, r.tokens)
    BY <1>1 DEF Good, WireOK, Typed
  <1> QED BY <1>2, <1>3, <1>4, <1>5, <1>6, <1>7, IdleGood

LEMMA AbandonRecoveryStep ==
  ASSUME IInv, NEW room \in Rooms, AbandonRecovery(room)
  PROVE  IInv'
  <1> DEFINE r == relay
             c == client
             p == pty
             d == r.record
             x == [c EXCEPT !.mode = "detached", !.checkpoint = NoCheckpoint, !.buffer = NoBuffer]
             q == Cancel(r)
             v == OnCredit(q, room)
  <1>1. Good(r, c, p) /\ QueueOK(r, p)
    BY DEF IInv
  <1>2. r \in RelayType /\ d \in RecordType /\ c \in ClientType
    BY <1>1, RelayTypes DEF Good
  <1>3. /\ client' = x /\ pty' = p /\ Room(room) /\ c.mode = "recovering"
        /\ relay' = IF d.token = c.token /\ d.state # "closed" THEN v ELSE r
    BY DEF AbandonRecovery
  <1>4. /\ NoBuffer \in [units : Seq(Nat), ends : SUBSET Nat]
        /\ NoCheckpoint \in [token : Nat, end : Nat]
    BY EmptySeq DEF NoBuffer, NoCheckpoint
  <1>5. x \in ClientType
    BY <1>2, <1>4 DEF ClientType
  <1>6. /\ x.mode = "detached" /\ x.token = c.token /\ x.buffer = NoBuffer
        /\ x.shown = c.shown /\ x.checkpoint = NoCheckpoint
        /\ x.exits = c.exits /\ x.exitBy = c.exitBy /\ x.owed = c.owed
    BY <1>2 DEF ClientType
  <1> HIDE DEF r, c, p, x
  <1>7. NoAnswer(r.wire) /\ c.owed = {} /\ c.exitBy = "none" /\ c.token # 0 /\ r.conn # 0
    BY <1>1, <1>3 DEF Good, WireOK, AnswerOK, NoAnswer, ClientOK, ConnOK
  <1>8. Good(r, x, p)
    BY <1>1, <1>3, <1>5, <1>6, <1>7, GivenUp DEF Idle
  <1>9. \A k, at : ~Follows(r.wire, x, k, at)
    BY <1>6, <1>7, NobodyFollows DEF Idle
  <1>10. CASE d.token = c.token /\ d.state # "closed"
    <2>1. Good(q, x, p) /\ Carries(r, q, room)
      BY <1>7, <1>8, <1>9, <1>10, CancelKeeps
    <2> HIDE DEF q
    <2>2. QueueOK(q, p)
      BY <1>1, <2>1, CarriesQueue
    <2>3. Good(v, x, p) /\ QueueOK(v, p) /\ (room.fits = "all" => ~Waits(v))
      BY <2>1, <2>2, GoesOn
    <2> QED BY <1>3, <1>10, <2>3, RoomStep
  <1>11. CASE ~(d.token = c.token /\ d.state # "closed")
    <2>1. relay' = relay
      BY <1>3, <1>11 DEF r
    <2> QED BY <1>1, <1>3, <1>8, <2>1, RoomStep DEF r
  <1> QED BY <1>10, <1>11


\* The record of a delivery that is about to be announced: nothing is sent of it.
Fresh(e, r) ==
  /\ e.token = r.tokens + 1 /\ e.conn = r.conn /\ e.state = "active"
  /\ e.sent = e.credited /\ e.pending = 0 /\ e.reserved = 0 /\ e.activating
  /\ e.exit = "idle" /\ ~e.legacyExit /\ ~e.completing /\ ~e.restore

\* The answer that announces it.
Announces(f, e, r, c, p) ==
  /\ f \in Frame /\ f.token = r.tokens + 1 /\ f.start = e.credited
  /\ \/ f.kind = "opened" /\ r.tokens + 1 <= 2 * r.conns /\ Len(c.shown) <= f.start
     \/ /\ f.kind = "recovery" /\ r.tokens + 2 <= 2 * r.conns
        /\ f.start = Len(c.shown) /\ f.end = e.recoveryEnd /\ f.end > 0

\* An attach opens a delivery and answers with its start: the only delivery that the
\* client follows, with no frame under way.
LEMMA DeliveryAnnounced ==
  ASSUME NEW r, NEW c, NEW p, Good(r, c, p), r.exit = "none", r.conn # 0,
         c.mode = "asking", NoAnswer(r.wire),
         NEW e \in RecordType, RecordOK(e, p), Fresh(e, r),
         NEW f, Announces(f, e, r, c, p),
         NEW q \in RelayType, q.record = e, q.wire = Append(r.wire, f),
         q.tokens = r.tokens + 1, q.conn = r.conn, q.conns = r.conns, q.exit = r.exit,
         q.projected = r.projected, q.subscriber = r.subscriber
  PROVE  Good(q, c, p)
  <1> DEFINE w == r.wire
             v == q.wire
             t == r.tokens + 1
             n == Len(w) + 1
  <1>1. r \in RelayType /\ c \in ClientType /\ p \in Program /\ w \in Seq(Frame)
        /\ f \in Frame /\ r.tokens \in Nat /\ r.conns \in Nat
    BY RelayTypes DEF Good, Announces
  <1>2. /\ Len(w) \in Nat /\ Len(v) = n /\ v[n] = f
        /\ \A i \in 1 .. Len(w) : v[i] = w[i]
    BY <1>1, FramesOfAppend
  <1>3. /\ f.kind \in {"opened", "recovery"} /\ f.token = t /\ f.start = e.credited
        /\ e.credited \in Nat /\ p.written \in Nat /\ e.credited <= p.written
        /\ t \in Nat /\ t # 0
    <2>1. e.credited \in Nat /\ e.sent \in Nat /\ e.received \in Nat /\ p.written \in Nat
      BY <1>1, RecordTypes, Constants DEF Program, Positions
    <2>2. e.credited <= p.written
      BY <2>1 DEF RecordOK
    <2> QED BY <1>1, <2>1, <2>2, SMTT(30) DEF Announces
  <1>4. \A i : IsExit(w, i) => i \in 1 .. Len(w)
    BY DEF IsExit
  <1>5. \A i \in 1 .. Len(w) : ~IsExit(w, i)
    BY DEF Good, ExitOK
  <1>6. \A i : ~IsExit(v, i)
    BY <1>1, <1>3, <1>4, <1>5, KindsOfAppend, ZenonT(30)
  <1>7. \A i : IsAnswer(v, i) <=> i = n
    <2>1. \A i : IsAnswer(w, i) => i \in 1 .. Len(w)
      BY DEF IsAnswer
    <2>2. \A i : IsAnswer(v, i) <=> IsAnswer(w, i) \/ (i = n /\ f.kind \in Answer)
      BY <1>1, KindsOfAppend, ZenonT(30)
    <2> QED BY <1>3, <2>1, <2>2 DEF NoAnswer, Answer
  <1>kinds.
      /\ \A k, i : IsData(v, k, i) <=>
           IsData(w, k, i) \/ (i = n /\ f.kind = "data" /\ f.token = k)
      /\ \A k, i : IsComplete(v, k, i) <=>
           IsComplete(w, k, i) \/ (i = n /\ f.kind = "complete" /\ f.token = k)
      /\ \A k, at : Follows(v, c, k, at) <=>
           \/ Follows(w, c, k, at)
           \/ f.kind \in {"opened", "recovery"} /\ k = f.token /\ at = f.start
      /\ \A k, i : Recovers(v, c, k, i) <=>
           \/ Recovers(w, c, k, i)
           \/ f.kind = "recovery" /\ k = f.token /\ i = f.end
    <2> DEFINE u == Append(w, f)
    <2>1. \A k, i : IsData(u, k, i) <=>
            IsData(w, k, i) \/ (i = n /\ f.kind = "data" /\ f.token = k)
      BY <1>1, KindsOfAppend
    <2>2. \A k, i : IsComplete(u, k, i) <=>
            IsComplete(w, k, i) \/ (i = n /\ f.kind = "complete" /\ f.token = k)
      BY <1>1, KindsOfAppend
    <2>3. \A k, at : Follows(u, c, k, at) <=>
            \/ Follows(w, c, k, at)
            \/ f.kind \in {"opened", "recovery"} /\ k = f.token /\ at = f.start
      BY <1>1, KindsOfAppend
    <2>4. \A k, i : Recovers(u, c, k, i) <=>
            \/ Recovers(w, c, k, i)
            \/ f.kind = "recovery" /\ k = f.token /\ i = f.end
      BY <1>1, KindsOfAppend
    <2>5. v = u
      OBVIOUS
    <2> HIDE DEF u, v, w, n
    <2> QED BY <2>1, <2>2, <2>3, <2>4, <2>5
  <1>8. \A i : ~IsData(v, t, i) /\ ~IsComplete(v, t, i)
    <2> HIDE DEF v
    <2>1. \A i : IsData(v, t, i) => IsData(w, t, i)
      BY <1>3, <1>kinds
    <2>2. \A i : IsComplete(v, t, i) => IsComplete(w, t, i)
      BY <1>3, <1>kinds
    <2>3. \A i \in 1 .. Len(w) : w[i].kind \in {"data", "complete"} => w[i].token <= r.tokens
      BY DEF Good, WireOK, OpenedOK
    <2>4. ~(t <= r.tokens)
      BY <1>1
    <2> HIDE DEF t
    <2> QED BY <2>1, <2>2, <2>3, <2>4 DEF IsData, IsComplete
  <1>9. /\ \A k, at : ~Follows(w, c, k, at)
        /\ \A k, i : ~Recovers(w, c, k, i)
    BY NobodyFollows DEF Idle
  <1>10. \A k, at : Follows(v, c, k, at) <=> k = t /\ at = e.credited
    <2> HIDE DEF v, w, t
    <2> QED BY <1>3, <1>kinds, <1>9
  <1>11. \A k, i : Recovers(v, c, k, i) <=> f.kind = "recovery" /\ k = t /\ i = f.end
    <2> HIDE DEF v, w, t
    <2> QED BY <1>3, <1>kinds, <1>9
  <1>12. /\ f.kind = "opened" => Len(c.shown) <= f.start /\ f.start <= p.written
         /\ f.kind = "recovery" => f.start = Len(c.shown) /\ f.end > 0 /\ f.end = e.recoveryEnd
         /\ r.tokens + 1 <= 2 * r.conns
         /\ f.kind = "recovery" => r.tokens + 2 <= 2 * r.conns
         /\ f.kind # "restore"
    BY <1>1, <1>3 DEF Announces
  <1>13. c.token <= r.tokens /\ c.checkpoint.token <= r.tokens /\ r.conn = r.conns
         /\ c.token \in Nat /\ c.checkpoint.token \in Nat
    BY <1>1 DEF Good, ConnOK, ClientType
  <1>14. \A i : Leads(v, t, e.credited, i, e.credited)
    BY <1>3, <1>8 DEF Leads
  <1>15. t = r.tokens + 1 /\ q.tokens = t
    OBVIOUS
  <1> HIDE DEF w, v, t, n
  <1>16. c.token < t /\ c.checkpoint.token < t /\ r.tokens <= t
    BY <1>1, <1>13, <1>15
  <1>17. AnswerOK(v, t, c, p)
    BY <1>2, <1>3, <1>6, <1>7, <1>8, <1>12, <1>16 DEF AnswerOK
  <1>18. DataOK(v, p)
    <2>1. \A i \in 1 .. Len(v) : v[i].kind = "data" => i \in 1 .. Len(w) /\ v[i] = w[i]
      BY <1>2, <1>3 DEF n
    <2>2. DataOK(w, p)
      BY DEF Good, WireOK, w
    <2> QED BY <2>1, <2>2, ZenonT(30) DEF DataOK
  <1>19. OpenedOK(v, t)
    <2>1. \A i \in 1 .. Len(v) : v[i].kind \in {"data", "complete"} =>
             i \in 1 .. Len(w) /\ v[i] = w[i] /\ v[i] \in Frame
      BY <1>1, <1>2, <1>3, FrameAt, SMTT(30) DEF n
    <2>2. OpenedOK(w, r.tokens)
      BY DEF Good, WireOK, w
    <2>3. \A g \in Frame : g.kind \in {"data", "complete"} => g.token \in Nat
      BY DEF Frame
    <2>4. \A a \in Nat : a <= r.tokens => a <= t
      BY <1>1, <1>3, <1>16
    <2> QED BY <2>1, <2>2, <2>3, <2>4 DEF OpenedOK
  <1>20. ChainOK(v, t, c)
    BY <1>3, <1>8, <1>10 DEF ChainOK, Chain
  <1>21. CompleteOK(v, c) /\ SourceOK(v, c, p)
    <2>1. CompleteOK(v, c)
      BY <1>8, <1>10 DEF CompleteOK
    <2>2. SourceOK(v, c, p)
      BY <1>6 DEF SourceOK
    <2> QED BY <2>1, <2>2
  <1>22. FollowOK(q, c)
    <2>1. SentTo(e) = e.credited /\ e.token = t /\ e.conn = q.conn /\ e.reserved = 0
      BY <1>15 DEF Fresh, SentTo
    <2>2. e.credited <= e.credited /\ 0 <= e.credited
      BY <1>3
    <2> QED BY <1>10, <1>14, <2>1, <2>2 DEF FollowOK, v
  <1>23. RecoverOK(v, e, c)
    <2>1. e.token = t /\ ~e.completing
      BY <1>15 DEF Fresh
    <2>2. f.kind = "recovery" => f.end # 0 /\ e.recoveryEnd = f.end
      BY <1>12
    <2> QED BY <1>11, <2>1, <2>2 DEF RecoverOK
  <1>24. KeepOK(e, c)
    <2>1. e.token # c.checkpoint.token
      BY <1>3, <1>13, <1>15, <1>16 DEF Fresh
    <2> QED BY <2>1 DEF KeepOK
  <1>25. ConnOK(q, c)
    <2>1. e.conn <= q.conns /\ c.token <= q.tokens /\ c.checkpoint.token <= q.tokens
      BY <1>1, <1>13, <1>15, <1>16 DEF Fresh
    <2> QED BY <1>13, <1>15, <2>1 DEF Good, ConnOK, Fresh
  <1>26. TokensOK(q, c)
    <2>1. \A i \in 1 .. Len(v) : v[i].kind \in {"recovery", "restore"} => i = n
      BY <1>7 DEF IsAnswer, Answer
    <2>2. f.kind = "recovery" => t + 1 <= 2 * r.conns
      BY <1>1, <1>12, <1>15
    <2>3. t <= 2 * r.conns
      BY <1>12, <1>15
    <2> QED BY <1>2, <1>12, <1>15, <2>1, <2>2, <2>3 DEF TokensOK, v
  <1>27. ExitOK(q, c, p)
    BY <1>6 DEF Good, ExitOK, Fresh, v
  <1> QED BY <1>1, <1>15, <1>17, <1>18, <1>19, <1>20, <1>21, <1>22, <1>23, <1>24, <1>25,
             <1>26, <1>27 DEF Good, WireOK, Typed, v


\* The other answer: the screen must be restored.
LEMMA RestoreAnnounced ==
  ASSUME NEW r, NEW c, NEW p, Good(r, c, p), r.exit = "none", r.conn # 0,
         c.mode = "asking", NoAnswer(r.wire), r.tokens + 1 <= 2 * r.conns,
         NEW f \in Frame, f.kind = "restore",
         NEW q \in RelayType, q.record = r.record, q.wire = Append(r.wire, f),
         q.tokens = r.tokens, q.conn = r.conn, q.conns = r.conns, q.exit = r.exit,
         q.projected = r.projected, q.subscriber = r.subscriber
  PROVE  Good(q, c, p)
  <1> DEFINE w == r.wire
             v == Append(w, f)
             n == Len(w) + 1
  <1>1. r \in RelayType /\ c \in ClientType /\ p \in Program /\ w \in Seq(Frame)
        /\ r.tokens \in Nat
    BY RelayTypes DEF Good
  <1>2. /\ Len(w) \in Nat /\ Len(v) = n /\ v[n] = f
        /\ \A i \in 1 .. Len(w) : v[i] = w[i]
    BY <1>1, FramesOfAppend
  <1>3. \A i : IsExit(v, i) <=> IsExit(w, i)
    BY <1>1, KindsOfAppend
  <1>4. \A i : IsAnswer(v, i) <=> i = n
    <2>1. \A i : IsAnswer(w, i) => i \in 1 .. Len(w)
      BY DEF IsAnswer
    <2>2. \A i : IsAnswer(v, i) <=> IsAnswer(w, i) \/ (i = n /\ f.kind \in Answer)
      BY <1>1, KindsOfAppend
    <2> QED BY <2>1, <2>2 DEF NoAnswer, Answer
  <1>5. /\ \A k, at : ~Follows(w, c, k, at)
        /\ \A k, i : ~Recovers(w, c, k, i)
    BY NobodyFollows DEF Idle
  <1>6. \A k, at : ~Follows(v, c, k, at)
    <2>1. \A k, at : Follows(v, c, k, at) <=>
            \/ Follows(w, c, k, at)
            \/ f.kind \in {"opened", "recovery"} /\ k = f.token /\ at = f.start
      BY <1>1, KindsOfAppend
    <2> QED BY <1>5, <2>1
  <1>7. \A k, i : ~Recovers(v, c, k, i)
    <2>1. \A k, i : Recovers(v, c, k, i) <=>
            \/ Recovers(w, c, k, i)
            \/ f.kind = "recovery" /\ k = f.token /\ i = f.end
      BY <1>1, KindsOfAppend
    <2> QED BY <1>5, <2>1
  <1>8. \A i : ~IsExit(v, i)
    BY <1>3 DEF Good, ExitOK, IsExit
  <1> HIDE DEF v, w, n
  <1>9. AnswerOK(v, q.tokens, c, p)
    BY <1>2, <1>4, <1>8 DEF AnswerOK
  <1>10. \A i \in 1 .. Len(v) : v[i].kind # "restore" => i \in 1 .. Len(w) /\ v[i] = w[i]
    <2>1. \A i \in 1 .. Len(v) : i \in 1 .. Len(w) \/ i = n
      BY <1>2 DEF n
    <2> QED BY <1>2, <2>1
  <1>11. DataOK(v, p) /\ OpenedOK(v, q.tokens)
    <2>1. DataOK(w, p) /\ OpenedOK(w, r.tokens)
      BY DEF Good, WireOK, w
    <2>2. DataOK(v, p)
      BY <1>10, <2>1 DEF DataOK
    <2>3. OpenedOK(v, q.tokens)
      BY <1>10, <2>1 DEF OpenedOK
    <2> QED BY <2>2, <2>3
  <1>12. ChainOK(v, q.tokens, c) /\ CompleteOK(v, c)
    BY <1>6 DEF ChainOK, CompleteOK
  <1>13. SourceOK(v, c, p)
    BY <1>8 DEF SourceOK
  <1>14. q.wire = v
    BY DEF v, w
  <1>15. FollowOK(q, c) /\ RecoverOK(q.wire, q.record, c)
    BY <1>6, <1>7, <1>14 DEF FollowOK, RecoverOK
  <1>16. ConnOK(q, c)
    BY DEF Good, ConnOK, Reaches
  <1>17. TokensOK(q, c)
    BY DEF Good, TokensOK
  <1>18. ExitOK(q, c, p)
    BY <1>8, <1>14 DEF Good, ExitOK
  <1> QED BY <1>1, <1>9, <1>11, <1>12, <1>13, <1>14, <1>15, <1>16, <1>17, <1>18
          DEF Good, WireOK, Typed


Asking(c) == [c EXCEPT !.mode = "asking"]

\* A client that attaches is connected, follows nothing and waits for no answer.
LEMMA Attaches ==
  ASSUME NEW r, NEW c, NEW p, Good(r, c, p), c.mode \in {"reconnected", "detached"}
  PROVE  /\ r.conn # 0 /\ NoAnswer(r.wire) /\ Good(r, Asking(c), p)
         /\ \A k, at : ~Follows(r.wire, Asking(c), k, at)
         /\ Asking(c).mode = "asking" /\ Asking(c).checkpoint = c.checkpoint
         /\ Asking(c).shown = c.shown
         /\ r.tokens + 1 <= 2 * r.conns
         /\ c.mode = "reconnected" => r.tokens + 2 <= 2 * r.conns
  <1> DEFINE x == Asking(c)
  <1>1. c \in ClientType /\ r.tokens \in Nat /\ r.conns \in Nat
    BY RelayTypes DEF Good
  <1>2. x \in ClientType
    BY <1>1 DEF ClientType, Asking
  <1>3. /\ x.mode = "asking" /\ x.token = c.token /\ x.buffer = c.buffer
        /\ x.shown = c.shown /\ x.checkpoint = c.checkpoint
        /\ x.exits = c.exits /\ x.exitBy = c.exitBy /\ x.owed = c.owed
    BY <1>1 DEF ClientType, Asking
  <1> HIDE DEF x
  <1>4. /\ NoAnswer(r.wire) /\ c.owed = {} /\ c.exitBy = "none" /\ r.conn # 0
        /\ c.buffer = NoBuffer
    BY DEF Good, WireOK, AnswerOK, NoAnswer, ClientOK, ConnOK
  <1>5. Good(r, x, p)
    BY <1>2, <1>3, <1>4, GivenUp DEF Idle
  <1>6. \A k, at : ~Follows(r.wire, x, k, at)
    BY <1>3, <1>4, NobodyFollows DEF Idle
  <1>7. r.tokens + 1 <= 2 * r.conns /\ (c.mode = "reconnected" => r.tokens + 2 <= 2 * r.conns)
    BY <1>1 DEF Good, TokensOK
  <1> QED BY <1>3, <1>4, <1>5, <1>6, <1>7 DEF x

LEMMA OpenedTypes ==
  ASSUME NEW t \in 0 .. 2 * MaxConns, NEW n \in 0 .. MaxConns, NEW at \in Positions
  PROVE  Opened(t, n, at) \in RecordType
  <1>1. 0 \in Positions /\ {} \in SUBSET Positions /\ <<>> \in Seq(1 .. MaxUnits)
    BY Constants, EmptySeq DEF Positions
  <1> QED BY <1>1 DEF Opened, NoRecord, RecordType

\* A new delivery starts at the end of the output, with an empty queue.
LEMMA OpenKeeps ==
  ASSUME NEW r, NEW c, NEW p, Good(r, c, p), r.exit = "none", r.conn # 0,
         c.mode = "asking", NoAnswer(r.wire), r.tokens + 1 <= 2 * r.conns,
         NEW t, t = r.tokens + 1
  PROVE  LET s == [[r EXCEPT !.tokens = t, !.queue = <<>>, !.timer = FALSE,
                             !.record = Opened(t, r.conn, p.written)] EXCEPT !.reply = TRUE]
             q == Write(s, [kind |-> "opened", token |-> t, start |-> p.written])
         IN  Good(q, c, p) /\ QueueOK(q, p) /\ ~Waits(q)
  <1> DEFINE at == p.written
             e == Opened(t, r.conn, at)
             f == [kind |-> "opened", token |-> t, start |-> at]
             s == [[r EXCEPT !.tokens = t, !.queue = <<>>, !.timer = FALSE, !.record = e]
                     EXCEPT !.reply = TRUE]
             q == Write(s, f)
  <1>1. r \in RelayType /\ p \in Program /\ r.tokens \in Nat /\ r.conns \in 0 .. MaxConns
        /\ r.conn \in 0 .. MaxConns /\ at \in Positions /\ at \in Nat /\ MaxConns \in Nat
    BY RelayTypes, Constants DEF Good, RelayType, Program, Positions
  <1>2. t \in Nat /\ t \in 0 .. 2 * MaxConns /\ t # 0
    <2>1. \A a \in 0 .. MaxConns : 2 * a <= 2 * MaxConns /\ 2 * a \in Nat
      BY <1>1
    <2> QED BY <1>1, <2>1
  <1>3. <<>> \in Seq(1 .. MaxUnits) /\ <<>> \in Seq(Chunks) /\ Len(<<>>) = 0
    BY EmptySeq
  <1>4. /\ e.token = t /\ e.conn = r.conn /\ e.state = "active" /\ e.received = at
        /\ e.sent = at /\ e.credited = at /\ e.held = <<>> /\ e.ends = {} /\ e.boundaries = {at}
        /\ e.pending = 0 /\ e.attempted = 0 /\ e.reserved = 0 /\ e.activating
        /\ e.recoveryEnd = 0 /\ e.completing = FALSE /\ e.exit = "idle" /\ e.legacyExit = FALSE
        /\ e.restore = FALSE
    BY DEF Opened, NoRecord
  <1>5. e \in RecordType
    BY <1>1, <1>2, OpenedTypes
  <1>6. s \in RelayType
    <2> HIDE DEF e
    <2>1. [r EXCEPT !.tokens = t] \in RelayType
      BY <1>1, <1>2, RelayUpdates
    <2>2. [[r EXCEPT !.tokens = t] EXCEPT !.queue = <<>>] \in RelayType
      BY <1>3, <2>1, RelayUpdates
    <2>3. [[[r EXCEPT !.tokens = t] EXCEPT !.queue = <<>>] EXCEPT !.timer = FALSE] \in RelayType
      BY <2>2, RelayUpdates
    <2>4. [[[[r EXCEPT !.tokens = t] EXCEPT !.queue = <<>>] EXCEPT !.timer = FALSE]
             EXCEPT !.record = e] \in RelayType
      BY <1>5, <2>3, RelayUpdates
    <2> QED BY <2>4, RelayUpdates
  <1>7. /\ s.record = e /\ s.queue = <<>> /\ s.exit = r.exit /\ s.tokens = t
        /\ s.projected = r.projected /\ s.subscriber = r.subscriber /\ s.wire = r.wire
        /\ s.conn = r.conn /\ s.conns = r.conns
    BY <1>1 DEF RelayType
  <1>8. f \in Frame /\ f.kind = "opened" /\ f.token = t /\ f.start = at
    BY <1>1, <1>2 DEF Frame
  <1> HIDE DEF e, f, s, at
  <1>9. /\ q \in RelayType /\ q.record = e /\ q.queue = <<>> /\ q.exit = r.exit /\ q.tokens = t
        /\ q.projected = r.projected /\ q.subscriber = r.subscriber
        /\ q.conn = r.conn /\ q.conns = r.conns /\ q.wire = Append(r.wire, f)
    <2>1. /\ q \in RelayType /\ q.record = s.record /\ q.queue = s.queue /\ q.exit = s.exit
          /\ q.tokens = s.tokens /\ q.projected = s.projected /\ q.subscriber = s.subscriber
          /\ q.conn = s.conn /\ q.conns = s.conns
          /\ q.wire = IF s.conn = 0 THEN s.wire ELSE Append(s.wire, f)
      BY <1>6, <1>8, Written
    <2> HIDE DEF q
    <2> QED BY <1>7, <2>1
  <1> HIDE DEF q
  <1>10. RecordOK(e, p)
    BY <1>1, <1>2, <1>3, <1>4, Constants, SMTT(30) DEF RecordOK, at
  <1>11. Fresh(e, r)
    BY <1>4 DEF Fresh
  <1>12. Announces(f, e, r, c, p)
    <2>1. Len(c.shown) <= at
      BY DEF Good, ClientOK, at
    <2> QED BY <1>4, <1>8, <2>1 DEF Announces
  <1>13. Good(q, c, p)
    BY <1>5, <1>9, <1>10, <1>11, <1>12, DeliveryAnnounced
  <1>14. QueueOK(q, p)
    <2>1. QueueIsOutputAfter(q, p, at)
      BY <1>3, <1>9 DEF QueueIsOutputAfter, at
    <2>2. \A i \in 1 .. Len(q.queue) : q.queue[i][Len(q.queue[i])] <= p.written
      BY <1>3, <1>9
    <2> QED BY <1>1, <1>3, <1>4, <1>9, <2>1, <2>2 DEF QueueOK
  <1>15. ~Waits(q)
    BY <1>4, <1>9, ClosedNeverWaits
  <1> QED BY <1>13, <1>14, <1>15 DEF q, s, e, f, at


\* A recovery goes on where the client's checkpoint lies: what comes after it was kept.
LEMMA RecoverKeeps ==
  ASSUME NEW r, NEW c, NEW p, Good(r, c, p), QueueOK(r, p), r.exit = "none", r.conn # 0,
         c.mode = "asking", NoAnswer(r.wire), r.tokens + 2 <= 2 * r.conns,
         r.record.token # 0, Covered(r.record, c.checkpoint),
         NEW t, t = r.tokens + 1, NEW at, at = c.checkpoint.end
  PROVE  LET s == [[r EXCEPT !.tokens = t, !.record = Replacement(r.record, t, r.conn, at)]
                     EXCEPT !.reply = TRUE]
             q == Write(s, [kind |-> "recovery", token |-> t, start |-> at,
                            end |-> r.record.received])
         IN  Good(q, c, p) /\ QueueOK(q, p) /\ ~Waits(q)
  <1> DEFINE d == r.record
             e == Replacement(d, t, r.conn, at)
             h == SubSeq(d.held, at - d.credited + 1, Len(d.held))
             ends == {x \in d.ends : x > at}
             f == [kind |-> "recovery", token |-> t, start |-> at, end |-> d.received]
             s == [[r EXCEPT !.tokens = t, !.record = e] EXCEPT !.reply = TRUE]
             q == Write(s, f)
  <1>1. /\ r \in RelayType /\ p \in Program /\ r.tokens \in Nat /\ r.conns \in 0 .. MaxConns
        /\ r.conn \in 0 .. MaxConns /\ MaxConns \in Nat /\ d \in RecordType
        /\ d.received \in Nat /\ d.credited \in Nat /\ d.sent \in Nat /\ d.attempted \in Nat
        /\ d.received \in Positions
    BY RelayTypes, RecordTypes, Constants DEF Good, RelayType, Program
  <1>2. t \in Nat /\ t \in 0 .. 2 * MaxConns /\ t # 0
    <2>1. \A a \in 0 .. MaxConns : 2 * a <= 2 * MaxConns /\ 2 * a \in Nat
      BY <1>1
    <2> QED BY <1>1, <2>1
  <1>3. /\ at = Len(c.shown) /\ at > 0 /\ at \in Nat
    <2>1. c.checkpoint.token # 0
      BY DEF Covered
    <2>2. Len(c.shown) \in Nat
      BY RelayTypes, LenProperties DEF Good, ClientType
    <2> QED BY <2>1, <2>2 DEF Good, ClientOK
  <1>4. d.credited <= at /\ at <= d.received /\ d.state # "closed" /\ d.pending = 0
    <2>1. at \in d.boundaries => at <= d.sent /\ d.sent <= d.received
      BY DEF Good, RecordOK
    <2>2. at = d.attempted => at <= d.received
      BY DEF Good, RecordOK
    <2>3. d.credited <= at /\ d.state # "closed" /\ d.pending = 0
          /\ (at \in d.boundaries \/ at = d.attempted)
      BY DEF Covered
    <2> QED BY <1>1, <1>3, <2>1, <2>2, <2>3, SMTT(30)
  <1>5. /\ h \in Seq(1 .. MaxUnits) /\ Len(h) = d.received - at
        /\ \A i \in 1 .. Len(h) : h[i] = at + i
    BY <1>1, <1>3, <1>4, HeldAfter DEF Good, RecordOK
  <1>6. /\ ends \in SUBSET Positions /\ \A x \in ends : x <= d.received
        /\ at < d.received => d.received \in ends
    <2>1. d.ends \subseteq Positions
      BY <1>1, RecordTypes
    <2>2. d.received > d.credited => d.received \in d.ends
      BY <1>4 DEF Good, RecordOK
    <2>3. \A x \in d.ends : x <= d.received
      BY DEF Good, RecordOK
    <2> QED BY <1>1, <1>3, <1>4, <2>1, <2>2, <2>3
  <1>7. /\ e.token = t /\ e.conn = r.conn /\ e.state = "active" /\ e.received = d.received
        /\ e.sent = at /\ e.credited = at /\ e.held = h /\ e.ends = ends /\ e.boundaries = {at}
        /\ e.pending = 0 /\ e.attempted = 0 /\ e.reserved = 0 /\ e.activating
        /\ e.recoveryEnd = d.received /\ e.completing = FALSE /\ e.exit = "idle"
        /\ e.legacyExit = FALSE /\ e.restore = FALSE /\ e.asked
    BY ZenonT(30) DEF Replacement, Opened, NoRecord
  <1>8. at \in Positions
    BY <1>1, <1>3, <1>4, Constants DEF Positions
  <1>9. e \in RecordType
    <2> DEFINE o == Opened(t, r.conn, at)
    <2>1. e = [o EXCEPT !.received = d.received, !.recoveryEnd = d.received, !.asked = TRUE,
                        !.held = h, !.ends = ends]
      BY DEF Replacement
    <2>2. o \in RecordType
      BY <1>1, <1>2, <1>8, OpenedTypes
    <2> HIDE DEF e, h, ends, d, o
    <2>3. [o EXCEPT !.received = d.received] \in RecordType
      BY <1>1, <2>2, RecordUpdates
    <2>4. [[o EXCEPT !.received = d.received] EXCEPT !.recoveryEnd = d.received] \in RecordType
      BY <1>1, <2>3, RecordUpdates
    <2>5. [[[o EXCEPT !.received = d.received] EXCEPT !.recoveryEnd = d.received]
             EXCEPT !.asked = TRUE] \in RecordType
      BY <2>4, RecordUpdates
    <2>6. [[[[o EXCEPT !.received = d.received] EXCEPT !.recoveryEnd = d.received]
             EXCEPT !.asked = TRUE] EXCEPT !.held = h] \in RecordType
      BY <1>5, <2>5, RecordUpdates
    <2>7. [[[[[o EXCEPT !.received = d.received] EXCEPT !.recoveryEnd = d.received]
             EXCEPT !.asked = TRUE] EXCEPT !.held = h] EXCEPT !.ends = ends] \in RecordType
      BY <1>6, <2>6, RecordUpdates
    <2> QED BY <2>1, <2>7
  <1>10. s \in RelayType
    <2> HIDE DEF e
    <2>1. [r EXCEPT !.tokens = t] \in RelayType
      BY <1>1, <1>2, RelayUpdates
    <2>2. [[r EXCEPT !.tokens = t] EXCEPT !.record = e] \in RelayType
      BY <1>9, <2>1, RelayUpdates
    <2> QED BY <2>2, RelayUpdates
  <1> HIDE DEF e
  <1>11. /\ s.record = e /\ s.queue = r.queue /\ s.exit = r.exit /\ s.tokens = t
         /\ s.projected = r.projected /\ s.subscriber = r.subscriber /\ s.wire = r.wire
         /\ s.conn = r.conn /\ s.conns = r.conns
    BY <1>1 DEF RelayType
  <1> HIDE DEF d
  <1>12. f \in Frame /\ f.kind = "recovery" /\ f.token = t /\ f.start = at /\ f.end = d.received
    BY <1>1, <1>2, <1>3 DEF Frame
  <1> HIDE DEF f, s, h, ends
  <1>13. /\ q \in RelayType /\ q.record = e /\ q.queue = r.queue /\ q.exit = r.exit /\ q.tokens = t
         /\ q.projected = r.projected /\ q.subscriber = r.subscriber
         /\ q.conn = r.conn /\ q.conns = r.conns /\ q.wire = Append(r.wire, f)
    <2>1. /\ q \in RelayType /\ q.record = s.record /\ q.queue = s.queue /\ q.exit = s.exit
          /\ q.tokens = s.tokens /\ q.projected = s.projected /\ q.subscriber = s.subscriber
          /\ q.conn = s.conn /\ q.conns = s.conns
          /\ q.wire = IF s.conn = 0 THEN s.wire ELSE Append(s.wire, f)
      BY <1>10, <1>12, Written
    <2> HIDE DEF q
    <2> QED BY <1>11, <2>1
  <1> HIDE DEF q
  <1>14. RecordOK(e, p)
    <2>1. d.received <= p.written /\ d.received <= at + Retain
      <3>1. d.received <= p.written /\ d.received <= d.credited + Retain
        BY DEF Good, RecordOK, d
      <3> QED BY <1>1, <1>3, <1>4, <3>1, Constants
    <2>2. at <= at /\ at <= d.received /\ at <= at + Window /\ 0 <= d.received
      BY <1>1, <1>3, <1>4, Constants
    <2> QED BY <1>2, <1>3, <1>5, <1>6, <1>7, <2>1, <2>2 DEF RecordOK
  <1>15. Fresh(e, r)
    BY <1>7 DEF Fresh
  <1>16. Announces(f, e, r, c, p)
    <2>1. d.received > 0
      BY <1>1, <1>3, <1>4
    <2> QED BY <1>3, <1>7, <1>12, <2>1 DEF Announces
  <1>17. Good(q, c, p)
    BY <1>9, <1>13, <1>14, <1>15, <1>16, DeliveryAnnounced
  <1>18. QueueOK(q, p)
    BY <1>4, <1>7, <1>13, QueueStays DEF d
  <1>19. ~Waits(q)
    BY <1>7, <1>13, ClosedNeverWaits
  <1> QED BY <1>17, <1>18, <1>19 DEF q, s, e, f, d


\* A record that is given up for a restore of the screen.
LEMMA CanceledForRestore ==
  ASSUME NEW r, NEW c, NEW p, Good(r, c, p), r.exit = "none", Idle(c), NoAnswer(r.wire),
         r.record.token # 0
  PROVE  LET q == [Cancel(r) EXCEPT !.record.restore = TRUE, !.record.activating = FALSE,
                                    !.record.recoveryEnd = 0]
         IN  /\ Good(q, c, p) /\ q.record.state = "closed" /\ q.record.exit = "idle"
             /\ SameBeside(r, q) /\ q.wire = r.wire
  <1> DEFINE k == Cancel(r)
             d == k.record
             e == [d EXCEPT !.restore = TRUE, !.activating = FALSE, !.recoveryEnd = 0]
             q == [k EXCEPT !.record.restore = TRUE, !.record.activating = FALSE,
                            !.record.recoveryEnd = 0]
  <1>1. /\ \A n, at : ~Follows(r.wire, c, n, at)
        /\ \A n, i : ~Recovers(r.wire, c, n, i)
    BY NobodyFollows
  <1>2. /\ Good(k, c, p) /\ SameBeside(r, k) /\ d.state = "closed" /\ d.token # 0
        /\ k.wire = r.wire
    BY <1>1, CancelKeeps
  <1> HIDE DEF k
  <1>3. k \in RelayType /\ d \in RecordType /\ 0 \in Positions
    BY <1>2, RelayTypes, Constants DEF Good, Positions
  <1>4. d.exit = "idle" /\ ~d.legacyExit
    BY <1>2, <1>3 DEF Good, ExitOK, SameBeside, RecordType
  <1>5. q \in RelayType
    <2>1. [k EXCEPT !.record.restore = TRUE] \in RelayType
      BY <1>3, DeliveryUpdates
    <2>2. [[k EXCEPT !.record.restore = TRUE] EXCEPT !.record.activating = FALSE] \in RelayType
      BY <2>1, DeliveryUpdates
    <2> QED BY <1>3, <2>2, DeliveryUpdates
  <1>6. q.record = e /\ q.wire = k.wire /\ SameBeside(k, q)
    BY <1>3 DEF RelayType, SameBeside
  <1>7. /\ e.token = d.token /\ e.conn = d.conn /\ e.pending = d.pending /\ e.exit = d.exit
        /\ e.completing = d.completing /\ e.reserved = d.reserved /\ e.credited = d.credited
        /\ e.sent = d.sent /\ e.received = d.received /\ e.state = d.state
        /\ e.legacyExit = d.legacyExit /\ e.recoveryEnd = 0
        /\ e.activating = FALSE /\ e.restore = TRUE /\ e.held = d.held
        /\ e.ends = d.ends /\ e.boundaries = d.boundaries /\ e.attempted = d.attempted
    BY <1>3 DEF RecordType
  <1> HIDE DEF d, e, q
  <1>8. RecordOK(e, p)
    BY <1>2, <1>4, <1>7 DEF Good, RecordOK, d
  <1>9. ExitOK(q, c, p)
    BY <1>2, <1>6, <1>7 DEF Good, ExitOK, SameBeside, d
  <1>10. SameDelivery(k, q, c)
    <2>1. RecoverOK(k.wire, e, c)
      BY <1>1, <1>2 DEF RecoverOK
    <2>2. KeepOK(e, c)
      BY <1>2, <1>7 DEF KeepOK
    <2>3. e.pending # 0 \/ e.completing \/ e.exit = "pending" => Reaches(k)
      BY <1>2, <1>7 DEF Good, ConnOK, d
    <2> QED BY <1>1, <1>2, <1>6, <1>7, <2>1, <2>2, <2>3 DEF SameDelivery, d
  <1>11. Good(q, c, p)
    BY <1>2, <1>5, <1>6, <1>8, <1>9, <1>10, RecordChange DEF SameBeside
  <1> QED BY <1>2, <1>4, <1>6, <1>7, <1>11 DEF SameBeside, q, k

LEMMA RestoreKeeps ==
  ASSUME NEW r, NEW c, NEW p, Good(r, c, p), QueueOK(r, p), r.exit = "none", r.conn # 0,
         c.mode = "asking", NoAnswer(r.wire), r.tokens + 1 <= 2 * r.conns
  PROVE  LET g == IF r.record.token = 0 THEN r
                  ELSE [Cancel(r) EXCEPT !.record.restore = TRUE, !.record.activating = FALSE,
                                         !.record.recoveryEnd = 0]
             v == OnCapacity(Write([g EXCEPT !.reply = TRUE], [kind |-> "restore"]), Free)
         IN  Good(v, c, p) /\ QueueOK(v, p) /\ ~Waits(v)
  <1> DEFINE g == IF r.record.token = 0 THEN r
                  ELSE [Cancel(r) EXCEPT !.record.restore = TRUE, !.record.activating = FALSE,
                                         !.record.recoveryEnd = 0]
             s == [g EXCEPT !.reply = TRUE]
             f == [kind |-> "restore"]
             q == Write(s, f)
             v == OnCapacity(q, Free)
  <1>1. /\ Good(g, c, p) /\ g.record.state = "closed" /\ g.record.exit = "idle"
        /\ SameBeside(r, g) /\ g.wire = r.wire
    <2>1. CASE r.record.token = 0
      <3>1. r.record = NoRecord
        BY <2>1 DEF Good, RecordOK
      <3> QED BY <2>1, <3>1, NoRecordTypes DEF SameBeside
    <2>2. CASE r.record.token # 0
      BY <2>2, CanceledForRestore DEF Idle
    <2> QED BY <2>1, <2>2
  <1> HIDE DEF g
  <1>2. g \in RelayType /\ Free \in Rooms
    BY <1>1, RelayTypes DEF Good, Free, Rooms
  <1>3. s \in RelayType
    BY <1>2, RelayUpdates
  <1>4. s.record = g.record /\ s.wire = g.wire /\ SameBeside(g, s)
    BY <1>2 DEF RelayType, SameBeside
  <1>5. f \in Frame /\ f.kind = "restore"
    BY DEF Frame
  <1> HIDE DEF s, f
  <1>6. /\ q \in RelayType /\ q.record = s.record /\ q.queue = s.queue /\ q.exit = s.exit
        /\ q.tokens = s.tokens /\ q.projected = s.projected /\ q.subscriber = s.subscriber
        /\ q.conn = s.conn /\ q.conns = s.conns
        /\ q.wire = IF s.conn = 0 THEN s.wire ELSE Append(s.wire, f)
    BY <1>3, <1>5, Written
  <1> HIDE DEF q
  <1>7. Good(q, c, p)
    BY <1>1, <1>4, <1>5, <1>6, RestoreAnnounced, SMTT(30) DEF SameBeside
  <1>8. QueueOK(q, p)
    BY <1>1, <1>4, <1>6, QueueStays DEF SameBeside
  <1>9. Good(v, c, p) /\ Carries(q, v, Free)
    BY <1>2, <1>7, <1>8, OnCapacityKeeps
  <1>10. ~Waits(q)
    BY <1>1, <1>4, <1>6, ClosedNeverWaits
  <1> HIDE DEF v
  <1>11. QueueOK(v, p) /\ ~Waits(v)
    <2>1. QueueOK(v, p)
      BY <1>8, <1>9, CarriesQueue
    <2> QED BY <1>9, <1>10, <2>1 DEF Carries, Free
  <1> QED BY <1>9, <1>11 DEF v, q, s, f, g

LEMMA AttachStep ==
  ASSUME IInv, Attach
  PROVE  IInv'
  <1> DEFINE r == relay
             c == client
             p == pty
             d == r.record
             t == r.tokens + 1
             x == Asking(c)
             gone == [c EXCEPT !.mode = "exited", !.exitBy = "notFound"]
             opened == Write([[r EXCEPT !.tokens = t, !.queue = <<>>, !.timer = FALSE,
                                !.record = Opened(t, r.conn, p.written)] EXCEPT !.reply = TRUE],
                             [kind |-> "opened", token |-> t, start |-> p.written])
             at == c.checkpoint.end
             recovered == Write([[r EXCEPT !.tokens = t, !.record = Replacement(d, t, r.conn, at)]
                                   EXCEPT !.reply = TRUE],
                                [kind |-> "recovery", token |-> t, start |-> at,
                                 end |-> d.received])
             closed == IF d.token = 0 THEN r
                       ELSE [Cancel(r) EXCEPT !.record.restore = TRUE,
                               !.record.activating = FALSE, !.record.recoveryEnd = 0]
             restored == OnCapacity(Write([closed EXCEPT !.reply = TRUE], [kind |-> "restore"]),
                                    Free)
  <1>1. Good(r, c, p) /\ QueueOK(r, p) /\ (Waits(r) => refusals > 0) /\ refusals \in Nat
    BY DEF IInv
  <1>2. c.mode \in {"reconnected", "detached"} /\ pty' = p /\ refusals' = refusals
    BY DEF Attach
  <1>3. ~p.alive => client' = gone /\ relay' = r
    BY DEF Attach
  <1>4. p.alive => client' = x /\
          relay' = IF d.token = 0 /\ c.mode # "reconnected" THEN opened
                   ELSE IF c.mode = "reconnected" /\ d.token # 0 /\ Covered(d, c.checkpoint)
                   THEN recovered ELSE restored
    BY DEF Attach, Asking
  <1> HIDE DEF r, c, p, x
  <1>5. /\ r.conn # 0 /\ NoAnswer(r.wire) /\ Good(r, x, p) /\ x.mode = "asking"
        /\ x.checkpoint = c.checkpoint /\ r.tokens + 1 <= 2 * r.conns
        /\ c.mode = "reconnected" => r.tokens + 2 <= 2 * r.conns
    BY <1>1, <1>2, Attaches DEF x
  <1>6. c \in ClientType /\ (p.alive => r.exit = "none") /\ (~p.alive => r.exit # "none")
    BY <1>1, RelayTypes DEF Good, ExitOK
  <1>7. CASE ~p.alive
    <2>1. gone \in ClientType
      BY <1>6 DEF ClientType
    <2>2. /\ gone.mode = "exited" /\ gone.token = c.token /\ gone.shown = c.shown
          /\ gone.checkpoint = c.checkpoint /\ gone.exits = c.exits
          /\ gone.exitBy = "notFound" /\ gone.owed = c.owed
      BY <1>6 DEF ClientType
    <2> HIDE DEF gone
    <2>3. Good(r, gone, p)
      BY <1>1, <1>5, <1>6, <1>7, <2>1, <2>2, GivenUp DEF Idle
    <2> QED BY <1>1, <1>2, <1>3, <1>7, <2>3 DEF IInv
  <1>8. CASE p.alive
    <2>1. CASE relay' = opened
      <3>1. Good(opened, x, p) /\ QueueOK(opened, p) /\ ~Waits(opened)
        BY <1>5, <1>6, <1>8, OpenKeeps
      <3> HIDE DEF opened
      <3> QED BY <1>1, <1>2, <1>4, <1>8, <2>1, <3>1 DEF IInv
    <2>2. CASE /\ relay' = recovered /\ c.mode = "reconnected"
               /\ d.token # 0 /\ Covered(d, c.checkpoint)
      <3>1. Good(recovered, x, p) /\ QueueOK(recovered, p) /\ ~Waits(recovered)
        BY <1>1, <1>5, <1>6, <1>8, <2>2, RecoverKeeps
      <3> HIDE DEF recovered
      <3> QED BY <1>1, <1>2, <1>4, <1>8, <2>2, <3>1 DEF IInv
    <2>3. CASE relay' = restored
      <3>1. Good(restored, x, p) /\ QueueOK(restored, p) /\ ~Waits(restored)
        BY <1>1, <1>5, <1>6, <1>8, RestoreKeeps
      <3> HIDE DEF restored
      <3> QED BY <1>1, <1>2, <1>4, <1>8, <2>3, <3>1 DEF IInv
    <2> HIDE DEF opened, recovered, restored
    <2> QED BY <1>4, <1>8, <2>1, <2>2, <2>3
  <1> QED BY <1>7, <1>8


-----------------------------------------------------------------------------
(* The client takes the first frame *)

LEMMA TailIs ==
  ASSUME NEW w \in Seq(Frame), w # <<>>
  PROVE  /\ Head(w) = w[1] /\ w[1] \in Frame /\ Tail(w) \in Seq(Frame)
         /\ Len(w) \in Nat /\ Len(Tail(w)) \in Nat /\ Len(w) = Len(Tail(w)) + 1
         /\ 1 \in 1 .. Len(w)
         /\ \A i \in 1 .. Len(Tail(w)) : Tail(w)[i] = w[i + 1] /\ i + 1 \in 1 .. Len(w)
         /\ \A j \in 1 .. Len(w) :
              j = 1 \/ (j - 1 \in 1 .. Len(Tail(w)) /\ Tail(w)[j - 1] = w[j])
  <1> DEFINE t == Tail(w)
  <1>1. Head(w) = w[1] /\ t \in Seq(Frame) /\ Len(w) \in Nat /\ Len(t) \in Nat
        /\ Len(w) = Len(t) + 1 /\ \A i \in 1 .. Len(t) : t[i] = w[i + 1]
    BY HeadTailProperties, LenProperties, EmptySeq
  <1> HIDE DEF t
  <1>2. \A i \in 1 .. Len(t) : i + 1 \in 1 .. Len(w)
    BY <1>1
  <1>3. \A j \in 1 .. Len(w) : j = 1 \/ (j - 1 \in 1 .. Len(t) /\ j - 1 + 1 = j)
    BY <1>1
  <1>4. 1 \in 1 .. Len(w)
    BY <1>1
  <1>5. w[1] \in Frame
    BY <1>4, FrameAt
  <1>6. \A j \in 1 .. Len(w) : j = 1 \/ (j - 1 \in 1 .. Len(t) /\ t[j - 1] = w[j])
    BY <1>1, <1>3
  <1> QED BY <1>1, <1>2, <1>4, <1>5, <1>6 DEF t

\* What the first frame takes away.
LEMMA KindsOfTail ==
  ASSUME NEW w \in Seq(Frame), w # <<>>, NEW c
  PROVE  LET t == Tail(w)
             f == w[1]
         IN  /\ \A i \in 1 .. Len(t) : IsExit(t, i) <=> IsExit(w, i + 1)
             /\ \A i \in 1 .. Len(t) : IsAnswer(t, i) <=> IsAnswer(w, i + 1)
             /\ \A k : \A i \in 1 .. Len(t) : IsData(t, k, i) <=> IsData(w, k, i + 1)
             /\ \A k : \A i \in 1 .. Len(t) : IsComplete(t, k, i) <=> IsComplete(w, k, i + 1)
             /\ \A k, at : Follows(w, c, k, at) <=>
                  \/ Follows(t, c, k, at)
                  \/ f.kind \in {"opened", "recovery"} /\ k = f.token /\ at = f.start
             /\ \A k, e : Recovers(w, c, k, e) <=>
                  \/ Recovers(t, c, k, e)
                  \/ f.kind = "recovery" /\ k = f.token /\ e = f.end
  <1> DEFINE t == Tail(w)
             f == w[1]
  <1>1. /\ Len(w) \in Nat /\ Len(t) \in Nat /\ 1 \in 1 .. Len(w)
        /\ \A i \in 1 .. Len(t) : t[i] = w[i + 1] /\ i + 1 \in 1 .. Len(w)
        /\ \A j \in 1 .. Len(w) : j = 1 \/ (j - 1 \in 1 .. Len(t) /\ t[j - 1] = w[j])
    BY TailIs
  <1> HIDE DEF t
  <1>2. /\ \A i \in 1 .. Len(t) : IsExit(t, i) <=> IsExit(w, i + 1)
        /\ \A i \in 1 .. Len(t) : IsAnswer(t, i) <=> IsAnswer(w, i + 1)
    BY <1>1 DEF IsExit, IsAnswer
  <1>3. /\ \A k : \A i \in 1 .. Len(t) : IsData(t, k, i) <=> IsData(w, k, i + 1)
        /\ \A k : \A i \in 1 .. Len(t) : IsComplete(t, k, i) <=> IsComplete(w, k, i + 1)
    BY <1>1 DEF IsData, IsComplete
  <1>4. ASSUME NEW k, NEW at
        PROVE  Follows(w, c, k, at) <=>
                 \/ Follows(t, c, k, at)
                 \/ f.kind \in {"opened", "recovery"} /\ k = f.token /\ at = f.start
    <2> DEFINE Starts(g) == g.kind \in {"opened", "recovery"} /\ k = g.token /\ at = g.start
    <2>1. (\E i \in 1 .. Len(w) : Starts(w[i])) <=> (\E i \in 1 .. Len(t) : Starts(t[i])) \/ Starts(f)
      <3> HIDE DEF Starts
      <3> QED BY <1>1
    <2> QED BY <2>1 DEF Follows
  <1>5. ASSUME NEW k, NEW e
        PROVE  Recovers(w, c, k, e) <=>
                 \/ Recovers(t, c, k, e)
                 \/ f.kind = "recovery" /\ k = f.token /\ e = f.end
    <2> DEFINE Ends(g) == g.kind = "recovery" /\ k = g.token /\ e = g.end
    <2>1. (\E i \in 1 .. Len(w) : Ends(w[i])) <=> (\E i \in 1 .. Len(t) : Ends(t[i])) \/ Ends(f)
      <3> HIDE DEF Ends
      <3> QED BY <1>1
    <2> QED BY <2>1 DEF Recovers
  <1> QED BY <1>2, <1>3, <1>4, <1>5 DEF t

\* A frame of delivery k moves the position from b to its end.
Moves(f, k, b, at) ==
  IF f.kind = "data" /\ f.token = k THEN f.start = b /\ at = EndOf(f) ELSE at = b

LEMMA TailFollows ==
  ASSUME NEW w \in Seq(Frame), w # <<>>, NEW k \in Nat, NEW b \in Nat, NEW at \in Nat,
         Moves(w[1], k, b, at),
         w[1].kind = "data" => Len(w[1].units) > 0
  PROVE  /\ b <= at
         /\ Chain(w, k, b) => Chain(Tail(w), k, at)
         /\ \A i \in 1 .. Len(w) : \A e \in Nat :
              Leads(w, k, b, i + 1, e) => Leads(Tail(w), k, at, i, e)
  <1> DEFINE t == Tail(w)
             f == w[1]
  <1>1. /\ Len(w) \in Nat /\ Len(t) \in Nat /\ 1 \in 1 .. Len(w) /\ f \in Frame
        /\ \A i \in 1 .. Len(t) : t[i] = w[i + 1] /\ i + 1 \in 1 .. Len(w)
        /\ \A j \in 1 .. Len(w) : j = 1 \/ (j - 1 \in 1 .. Len(t) /\ t[j - 1] = w[j])
        /\ Len(w) = Len(t) + 1
    BY TailIs
  <1>2. \A i \in 1 .. Len(t) : IsData(t, k, i) <=> IsData(w, k, i + 1)
    BY KindsOfTail
  <1>3. IsData(w, k, 1) <=> f.kind = "data" /\ f.token = k
    BY <1>1 DEF IsData
  <1>4. \A i : IsData(w, k, i) => /\ i \in 1 .. Len(w) /\ w[i].start \in Nat
                                  /\ EndOf(w[i]) \in Nat /\ w[i].start <= EndOf(w[i])
    BY FrameAt, EndIsNat DEF IsData
  <1>5. \A i : IsData(t, k, i) => i \in 1 .. Len(t)
    BY DEF IsData
  <1>6. IsData(w, k, 1) => f.start = b /\ at = EndOf(f) /\ b < at
    <2>1. f.kind = "data" => f.start \in Nat /\ Len(f.units) \in Nat /\ Len(f.units) > 0
      BY <1>1, EndIsNat
    <2> QED BY <1>3, <2>1 DEF Moves, EndOf
  <1>7. ~IsData(w, k, 1) => at = b
    BY <1>3 DEF Moves
  <1>8. b <= at
    BY <1>6, <1>7
  <1> HIDE DEF t, f
  <1>9. ASSUME NEW j \in 1 .. Len(w), IsData(w, k, j)
        PROVE  j = 1 \/ (j - 1 \in 1 .. Len(t) /\ t[j - 1] = w[j] /\ IsData(t, k, j - 1))
    <2>1. j - 1 + 1 = j
      BY <1>1
    <2> QED BY <1>1, <1>2, <1>9, <2>1
  <1>10. ASSUME Chain(w, k, b)
         PROVE  Chain(t, k, at)
    <2>1. ASSUME NEW i \in 1 .. Len(t), IsData(t, k, i)
          PROVE  /\ at <= t[i].start
                 /\ \/ t[i].start = at
                    \/ \E j \in 1 .. Len(t) : IsData(t, k, j) /\ j < i /\ EndOf(t[j]) = t[i].start
      <3>1. i + 1 \in 1 .. Len(w) /\ IsData(w, k, i + 1) /\ t[i] = w[i + 1]
        BY <1>1, <1>2, <2>1
      <3>2. /\ b <= w[i + 1].start
            /\ \/ w[i + 1].start = b
               \/ \E j \in 1 .. Len(w) : IsData(w, k, j) /\ j < i + 1 /\ EndOf(w[j]) = w[i + 1].start
        BY <1>10, <3>1 DEF Chain
      <3>3. IsData(w, k, 1) => EndOf(w[1]) <= w[i + 1].start
        <4>1. 1 < i + 1
          OBVIOUS
        <4> QED BY <1>1, <1>10, <3>1, <4>1 DEF Chain
      <3>4. at <= w[i + 1].start /\ (w[i + 1].start = b => w[i + 1].start = at)
        BY <1>4, <1>6, <1>7, <3>1, <3>2, <3>3 DEF f
      <3>5. ASSUME NEW j \in 1 .. Len(w), IsData(w, k, j), j < i + 1,
                   EndOf(w[j]) = w[i + 1].start
            PROVE  \/ w[i + 1].start = at
                   \/ \E n \in 1 .. Len(t) : IsData(t, k, n) /\ n < i /\ EndOf(t[n]) = w[i + 1].start
        <4>1. CASE j = 1
          BY <1>6, <3>5, <4>1 DEF f
        <4>2. CASE j # 1
          <5>1. j - 1 \in 1 .. Len(t) /\ t[j - 1] = w[j] /\ IsData(t, k, j - 1)
            BY <1>9, <3>5, <4>2
          <5>2. j - 1 < i
            BY <3>5
          <5> QED BY <3>5, <5>1, <5>2
        <4> QED BY <4>1, <4>2
      <3> QED BY <3>1, <3>2, <3>4, <3>5
    <2>2. ASSUME NEW i \in 1 .. Len(t), NEW j \in 1 .. Len(t), IsData(t, k, i), IsData(t, k, j),
                 i < j
          PROVE  EndOf(t[i]) <= t[j].start
      <3>1. /\ IsData(w, k, i + 1) /\ t[i] = w[i + 1] /\ i + 1 \in 1 .. Len(w)
            /\ IsData(w, k, j + 1) /\ t[j] = w[j + 1] /\ j + 1 \in 1 .. Len(w)
            /\ i + 1 < j + 1
        BY <1>1, <1>2, <2>2
      <3> QED BY <1>10, <3>1 DEF Chain
    <2> QED BY <2>1, <2>2 DEF Chain
  <1>11. ASSUME NEW i \in 1 .. Len(w), NEW e \in Nat, Leads(w, k, b, i + 1, e)
         PROVE  Leads(t, k, at, i, e)
    <2>1. IsData(w, k, 1) => EndOf(w[1]) <= e
      <3>1. 1 < i + 1
        OBVIOUS
      <3> QED BY <1>1, <1>11, <3>1 DEF Leads
    <2>2. at <= e
      BY <1>6, <1>7, <1>11, <2>1 DEF Leads, f
    <2>3. ASSUME NEW j \in 1 .. Len(t), IsData(t, k, j), j < i
          PROVE  EndOf(t[j]) <= e
      <3>1. IsData(w, k, j + 1) /\ t[j] = w[j + 1] /\ j + 1 \in 1 .. Len(w) /\ j + 1 < i + 1
        BY <1>1, <1>2, <2>3
      <3> QED BY <1>11, <3>1 DEF Leads
    <2>4. at = e \/ \E j \in 1 .. Len(t) : IsData(t, k, j) /\ j < i /\ EndOf(t[j]) = e
      <3>1. CASE b = e
        BY <1>6, <1>7, <2>1, <3>1 DEF f
      <3>2. ASSUME NEW j \in 1 .. Len(w), IsData(w, k, j), j < i + 1, EndOf(w[j]) = e
            PROVE  at = e \/ \E n \in 1 .. Len(t) : IsData(t, k, n) /\ n < i /\ EndOf(t[n]) = e
        <4>1. CASE j = 1
          BY <1>6, <3>2, <4>1 DEF f
        <4>2. CASE j # 1
          <5>1. j - 1 \in 1 .. Len(t) /\ t[j - 1] = w[j] /\ IsData(t, k, j - 1)
            BY <1>9, <3>2, <4>2
          <5>2. j - 1 < i
            BY <3>2
          <5> QED BY <3>2, <5>1, <5>2
        <4> QED BY <4>1, <4>2
      <3>3. b = e \/ \E j \in 1 .. Len(w) : IsData(w, k, j) /\ j < i + 1 /\ EndOf(w[j]) = e
        BY <1>11 DEF Leads
      <3> QED BY <3>1, <3>2, <3>3
    <2> QED BY <2>2, <2>3, <2>4 DEF Leads
  <1> QED BY <1>8, <1>10, <1>11 DEF t


\* How the client x after the first frame f of wire w follows on from the client c before
\* it: a frame of its delivery moves it on, and after the notice nothing is recovered.
GoesAhead(w, c, x) ==
  /\ \A k, at \in Nat : Follows(Tail(w), x, k, at) =>
       \E b \in Nat : Follows(w, c, k, b) /\ Moves(w[1], k, b, at)
  /\ \A k, e \in Nat : Recovers(Tail(w), x, k, e) =>
       Recovers(w, c, k, e) /\ ~IsComplete(w, k, 1)

LEMMA ReceivedKeeps ==
  ASSUME NEW r, NEW c, NEW p, Good(r, c, p), r.wire # <<>>, NEW x \in ClientType,
         ClientOK(x, p), x.token <= r.tokens, x.checkpoint.token <= r.tokens,
         x.mode \in {"reconnected", "detached", "recovering"} => r.tokens + 1 <= 2 * r.conns,
         x.mode # "reconnected",
         NEW q \in RelayType, q.wire = Tail(r.wire), q.record = r.record, q.tokens = r.tokens,
         q.conn = r.conn, q.conns = r.conns, ExitOK(q, x, p), KeepOK(r.record, x),
         GoesAhead(r.wire, c, x), AnswerOK(q.wire, r.tokens, x, p)
  PROVE  Good(q, x, p)
  <1> DEFINE w == r.wire
             t == Tail(w)
             f == w[1]
             d == r.record
  <1>1. /\ r \in RelayType /\ c \in ClientType /\ p \in Program /\ w \in Seq(Frame)
        /\ r.tokens \in Nat /\ d \in RecordType /\ p.written \in Nat
    BY RelayTypes DEF Good
  <1>2. /\ Len(w) \in Nat /\ Len(t) \in Nat /\ 1 \in 1 .. Len(w) /\ f \in Frame
        /\ \A i \in 1 .. Len(t) : t[i] = w[i + 1] /\ i + 1 \in 1 .. Len(w)
        /\ \A j \in 1 .. Len(w) : j = 1 \/ (j - 1 \in 1 .. Len(t) /\ t[j - 1] = w[j])
        /\ Len(w) = Len(t) + 1
    BY <1>1, TailIs
  <1>3. \A i \in 1 .. Len(t) : IsExit(t, i) <=> IsExit(w, i + 1)
    BY <1>1, KindsOfTail
  <1>4. \A k : \A i \in 1 .. Len(t) : IsComplete(t, k, i) <=> IsComplete(w, k, i + 1)
    BY <1>1, KindsOfTail
  <1>5. f.kind = "data" => Len(f.units) > 0
    BY <1>2 DEF Good, WireOK, DataOK
  <1>6. ASSUME NEW k \in Nat, NEW at \in Nat, Follows(t, x, k, at)
        PROVE  \E b \in Nat : /\ Follows(w, c, k, b) /\ b <= at
                              /\ Chain(w, k, b) => Chain(t, k, at)
                              /\ \A i \in 1 .. Len(w) : \A e \in Nat :
                                   Leads(w, k, b, i + 1, e) => Leads(t, k, at, i, e)
    <2>1. PICK b \in Nat : Follows(w, c, k, b) /\ Moves(f, k, b, at)
      BY <1>6 DEF GoesAhead
    <2> HIDE DEF w
    <2>2. /\ b <= at
          /\ Chain(w, k, b) => Chain(t, k, at)
          /\ \A i \in 1 .. Len(w) : \A e \in Nat :
               Leads(w, k, b, i + 1, e) => Leads(t, k, at, i, e)
      BY <1>1, <1>5, <2>1, TailFollows DEF w
    <2> QED BY <2>1, <2>2
  <1>7. ASSUME NEW k \in Nat, NEW e \in Nat, Recovers(t, x, k, e)
        PROVE  Recovers(w, c, k, e) /\ ~IsComplete(w, k, 1)
    BY <1>7 DEF GoesAhead
  <1> HIDE DEF w, t, f, d
  <1>8. DataOK(t, p) /\ OpenedOK(t, r.tokens)
    <2>1. DataOK(w, p) /\ OpenedOK(w, r.tokens)
      BY DEF Good, WireOK, w
    <2>2. DataOK(t, p)
      BY <1>2, <2>1 DEF DataOK
    <2>3. OpenedOK(t, r.tokens)
      BY <1>2, <2>1 DEF OpenedOK
    <2> QED BY <2>2, <2>3
  <1>9. ChainOK(t, r.tokens, x)
    <2> SUFFICES ASSUME NEW k \in Nat, NEW at \in Nat, Follows(t, x, k, at)
                 PROVE  k = r.tokens /\ k # 0 /\ Chain(t, k, at)
      BY DEF ChainOK
    <2>1. PICK b \in Nat : Follows(w, c, k, b) /\ (Chain(w, k, b) => Chain(t, k, at))
      BY <1>6
    <2>2. ChainOK(w, r.tokens, c)
      BY DEF Good, WireOK, w
    <2> QED BY <2>1, <2>2 DEF ChainOK
  <1>10. CompleteOK(t, x)
    <2> SUFFICES ASSUME NEW k \in Nat, NEW e \in Nat, NEW at \in Nat,
                        Recovers(t, x, k, e), Follows(t, x, k, at),
                        NEW i \in 1 .. Len(t), IsComplete(t, k, i)
                 PROVE  Leads(t, k, at, i, e)
      BY DEF CompleteOK
    <2>1. PICK b \in Nat : /\ Follows(w, c, k, b)
                           /\ \A j \in 1 .. Len(w) : \A n \in Nat :
                                Leads(w, k, b, j + 1, n) => Leads(t, k, at, j, n)
      BY <1>6
    <2>2. Recovers(w, c, k, e) /\ IsComplete(w, k, i + 1) /\ i + 1 \in 1 .. Len(w)
          /\ i \in 1 .. Len(w)
      BY <1>2, <1>4, <1>7
    <2>3. CompleteOK(w, c)
      BY DEF Good, WireOK, w
    <2>4. Leads(w, k, b, i + 1, e)
      BY <2>1, <2>2, <2>3 DEF CompleteOK
    <2> QED BY <2>1, <2>2, <2>4
  <1>11. SourceOK(t, x, p)
    <2> SUFFICES ASSUME NEW y \in 1 .. Len(t), IsExit(t, y), t[y].by = "source"
                 PROVE  /\ \A k, at \in Nat : Follows(t, x, k, at) => Leads(t, k, at, y, p.written)
                        /\ \A k, e \in Nat : Recovers(t, x, k, e) =>
                             e = p.written \/ \E j \in 1 .. Len(t) : IsComplete(t, k, j) /\ j < y
      BY DEF SourceOK
    <2>1. /\ \A k, at \in Nat : Follows(w, c, k, at) => Leads(w, k, at, y + 1, p.written)
          /\ \A k, e \in Nat : Recovers(w, c, k, e) =>
               e = p.written \/ \E j \in 1 .. Len(w) : IsComplete(w, k, j) /\ j < y + 1
      <3>1. SourceOK(w, c, p)
        BY DEF Good, WireOK, w
      <3>2. y + 1 \in 1 .. Len(w) /\ IsExit(w, y + 1) /\ w[y + 1].by = "source"
        BY <1>2, <1>3
      <3> QED BY <3>1, <3>2 DEF SourceOK
    <2>2. ASSUME NEW k \in Nat, NEW at \in Nat, Follows(t, x, k, at)
          PROVE  Leads(t, k, at, y, p.written)
      <3>1. PICK b \in Nat : /\ Follows(w, c, k, b)
                             /\ \A j \in 1 .. Len(w) : \A n \in Nat :
                                  Leads(w, k, b, j + 1, n) => Leads(t, k, at, j, n)
        BY <1>6, <2>2
      <3>2. y \in 1 .. Len(w)
        BY <1>2
      <3> QED BY <1>1, <2>1, <3>1, <3>2
    <2>3. ASSUME NEW k \in Nat, NEW e \in Nat, Recovers(t, x, k, e), e # p.written
          PROVE  \E j \in 1 .. Len(t) : IsComplete(t, k, j) /\ j < y
      <3>1. Recovers(w, c, k, e) /\ ~IsComplete(w, k, 1)
        BY <1>7, <2>3
      <3>2. PICK j \in 1 .. Len(w) : IsComplete(w, k, j) /\ j < y + 1
        BY <2>1, <2>3, <3>1
      <3>3. j - 1 \in 1 .. Len(t) /\ j - 1 + 1 = j /\ j - 1 < y
        BY <1>2, <3>1, <3>2
      <3> QED BY <1>4, <3>2, <3>3
    <2> QED BY <2>2, <2>3
  <1>12. FollowOK(q, x)
    <2> SUFFICES ASSUME NEW at \in Nat, Follows(t, x, d.token, at)
                 PROVE  /\ d.conn = r.conn /\ d.credited <= at /\ d.reserved <= at
                        /\ Leads(t, d.token, at, Len(t) + 1, SentTo(d))
      BY DEF FollowOK, t, w, d
    <2>1. d.token \in Nat /\ SentTo(d) \in Nat /\ d.credited \in Nat /\ d.reserved \in Nat
      BY <1>1, RecordTypes DEF SentTo
    <2>2. PICK b \in Nat : /\ Follows(w, c, d.token, b) /\ b <= at
                           /\ \A j \in 1 .. Len(w) : \A n \in Nat :
                                Leads(w, d.token, b, j + 1, n) => Leads(t, d.token, at, j, n)
      BY <1>6, <2>1
    <2>3. /\ d.conn = r.conn /\ d.credited <= b /\ d.reserved <= b
          /\ Leads(w, d.token, b, Len(w) + 1, SentTo(d))
      BY <2>2 DEF Good, FollowOK, d, w
    <2>4. d.credited <= at /\ d.reserved <= at
      BY <2>1, <2>2, <2>3
    <2>5. Len(w) \in 1 .. Len(w) /\ Len(w) = Len(t) + 1
      BY <1>2
    <2>6. Leads(t, d.token, at, Len(w), SentTo(d))
      BY <2>1, <2>2, <2>3, <2>5
    <2> QED BY <2>3, <2>4, <2>5, <2>6
  <1>13. RecoverOK(t, d, x)
    <2> SUFFICES ASSUME NEW e \in Nat, Recovers(t, x, d.token, e)
                 PROVE  /\ d.recoveryEnd # 0 => d.recoveryEnd = e
                        /\ d.recoveryEnd = 0 => \E i \in 1 .. Len(t) : IsComplete(t, d.token, i)
                        /\ d.completing => \E i \in 1 .. Len(t) : IsComplete(t, d.token, i)
      BY DEF RecoverOK
    <2>1. d.token \in Nat
      BY <1>1, RecordTypes
    <2>2. Recovers(w, c, d.token, e) /\ ~IsComplete(w, d.token, 1)
      BY <1>7, <2>1
    <2>3. /\ d.recoveryEnd # 0 => d.recoveryEnd = e
          /\ d.recoveryEnd = 0 => \E i \in 1 .. Len(w) : IsComplete(w, d.token, i)
          /\ d.completing => \E i \in 1 .. Len(w) : IsComplete(w, d.token, i)
      BY <2>2 DEF Good, RecoverOK, w, d
    <2>4. (\E i \in 1 .. Len(w) : IsComplete(w, d.token, i)) =>
             \E i \in 1 .. Len(t) : IsComplete(t, d.token, i)
      <3> SUFFICES ASSUME NEW i \in 1 .. Len(w), IsComplete(w, d.token, i)
                   PROVE  \E j \in 1 .. Len(t) : IsComplete(t, d.token, j)
        OBVIOUS
      <3>1. i - 1 \in 1 .. Len(t) /\ i - 1 + 1 = i
        BY <1>2, <2>2
      <3> QED BY <1>4, <3>1
    <2> QED BY <2>3, <2>4
  <1>14. ConnOK(q, x)
    <2>1. r.conn # 0
      BY DEF Good, ConnOK
    <2>2. r.conns # 0
      BY <2>1 DEF Good, ConnOK
    <2> QED BY <2>1, <2>2 DEF Good, ConnOK, Reaches
  <1>15. TokensOK(q, x)
    <2>1. \A i \in 1 .. Len(t) : t[i].kind \in {"recovery", "restore"} => r.tokens + 1 <= 2 * r.conns
      BY <1>2 DEF Good, TokensOK, w
    <2> QED BY <2>1 DEF Good, TokensOK, t, w
  <1>16. q.wire = t /\ q.record = d
    BY DEF t, w, d
  <1>17. RecordOK(q.record, p) /\ KeepOK(q.record, x)
    BY DEF Good
  <1> QED BY <1>1, <1>8, <1>9, <1>10, <1>11, <1>12, <1>13, <1>14, <1>15, <1>16, <1>17
          DEF Good, WireOK, Typed


\* The wire without its first frame.
Taken(r, q) ==
  /\ q \in RelayType /\ q.wire = Tail(r.wire) /\ q.record = r.record /\ SameBeside(r, q)

LEMMA TakenIs ==
  ASSUME NEW r \in RelayType, r.wire # <<>>
  PROVE  Taken(r, [r EXCEPT !.wire = Tail(@)])
  <1>1. r.wire \in Seq(Frame) /\ Tail(r.wire) \in Seq(Frame)
    BY TailIs DEF RelayType
  <1>2. [r EXCEPT !.wire = Tail(r.wire)] \in RelayType
    BY <1>1, RelayUpdates
  <1> QED BY <1>2 DEF Taken, SameBeside, RelayType

LEMMA ExitsAfter ==
  ASSUME NEW r, NEW c, NEW p, Good(r, c, p), r.wire # <<>>, NEW q, Taken(r, q),
         NEW x, x.exits = c.exits, x.mode = "exited" => c.mode = "exited"
  PROVE  ExitOK(q, x, p)
  <1> DEFINE w == r.wire
             t == Tail(w)
  <1>1. /\ Len(w) \in Nat /\ Len(t) \in Nat
        /\ \A i \in 1 .. Len(t) : i + 1 \in 1 .. Len(w) /\ (IsExit(t, i) <=> IsExit(w, i + 1))
    BY RelayTypes, TailIs, KindsOfTail DEF Good
  <1> HIDE DEF t
  <1>2. ExitOK(r, c, p)
    BY DEF Good
  <1>3. \A i \in 1 .. Len(t) : IsExit(t, i) =>
          c.exits = 0 /\ \A j \in 1 .. Len(t) : IsExit(t, j) => i = j
    <2> SUFFICES ASSUME NEW i \in 1 .. Len(t), IsExit(t, i)
                 PROVE  c.exits = 0 /\ \A j \in 1 .. Len(t) : IsExit(t, j) => i = j
      OBVIOUS
    <2>1. c.exits = 0 /\ \A j \in 1 .. Len(w) : IsExit(w, j) => i + 1 = j
      BY <1>1, <1>2 DEF ExitOK
    <2> QED BY <1>1, <2>1
  <1>4. (\E i \in 1 .. Len(t) : IsExit(t, i)) => \E i \in 1 .. Len(w) : IsExit(w, i)
    BY <1>1
  <1>5. (\A i \in 1 .. Len(w) : ~IsExit(w, i)) => \A i \in 1 .. Len(t) : ~IsExit(t, i)
    BY <1>1
  <1>6. q.wire = t /\ q.record = r.record /\ SameBeside(r, q)
    BY DEF Taken, t
  <1> HIDE DEF w
  <1>7. /\ p.alive <=> q.exit = "none"
        /\ q.exit = "none" =>
           /\ q.subscriber = 0 /\ ~q.projected /\ ~q.record.legacyExit /\ x.exits = 0
           /\ q.record.state # "sealed" /\ x.mode # "exited"
           /\ \A i \in 1 .. Len(t) : ~IsExit(t, i)
    BY <1>2, <1>5, <1>6 DEF ExitOK, SameBeside, w
  <1>8. q.conn # 0 /\ (x.exits = 1 \/ \E i \in 1 .. Len(t) : IsExit(t, i)) =>
           q.exit = "done" \/ q.record.exit # "idle"
    BY <1>2, <1>4, <1>6 DEF ExitOK, SameBeside, w
  <1> QED BY <1>2, <1>3, <1>6, <1>7, <1>8 DEF ExitOK, SameBeside

LEMMA AnswersAfter ==
  ASSUME NEW r, NEW c, NEW p, Good(r, c, p), r.wire # <<>>
  PROVE  /\ AnswerOK(Tail(r.wire), r.tokens, c, p)
         /\ \/ c.mode # "asking" \/ r.wire[1].kind \in Answer \/ r.wire[1].kind = "exit"
            => NoAnswer(Tail(r.wire))
  <1> DEFINE w == r.wire
             t == Tail(w)
  <1>1. /\ Len(w) \in Nat /\ Len(t) \in Nat /\ 1 \in 1 .. Len(w)
        /\ \A i \in 1 .. Len(t) : t[i] = w[i + 1] /\ i + 1 \in 1 .. Len(w)
    BY RelayTypes, TailIs DEF Good
  <1>2. \A i \in 1 .. Len(t) : /\ IsExit(t, i) <=> IsExit(w, i + 1)
                               /\ IsAnswer(t, i) <=> IsAnswer(w, i + 1)
                               /\ IsData(t, r.tokens, i) <=> IsData(w, r.tokens, i + 1)
                               /\ IsComplete(t, r.tokens, i) <=> IsComplete(w, r.tokens, i + 1)
    BY <1>1 DEF IsExit, IsAnswer, IsData, IsComplete
  <1>3. AnswerOK(w, r.tokens, c, p)
    BY DEF Good, WireOK
  <1> HIDE DEF w, t
  <1>4. ASSUME NEW i \in 1 .. Len(t), IsAnswer(t, i)
        PROVE  /\ c.mode = "asking"
               /\ \A j \in 1 .. Len(t) : /\ IsAnswer(t, j) => i = j
                                         /\ j < i => ~IsExit(t, j)
               /\ t[i].kind = "opened" => Len(c.shown) <= t[i].start /\ t[i].start <= p.written
               /\ t[i].kind = "recovery" => t[i].start = Len(c.shown) /\ t[i].end > 0
               /\ t[i].kind # "restore" =>
                    /\ t[i].token = r.tokens /\ c.token < t[i].token
                    /\ \A j \in 1 .. Len(t) : j < i =>
                         ~IsData(t, r.tokens, j) /\ ~IsComplete(t, r.tokens, j)
               /\ ~IsAnswer(w, 1) /\ ~IsExit(w, 1)
    <2>1. i + 1 \in 1 .. Len(w) /\ IsAnswer(w, i + 1) /\ t[i] = w[i + 1]
      BY <1>1, <1>2, <1>4
    <2>2. /\ c.mode = "asking"
          /\ \A j \in 1 .. Len(w) : /\ IsAnswer(w, j) => i + 1 = j
                                    /\ j < i + 1 => ~IsExit(w, j)
      BY <1>3, <2>1 DEF AnswerOK
    <2>3. /\ t[i].kind = "opened" => Len(c.shown) <= t[i].start /\ t[i].start <= p.written
          /\ t[i].kind = "recovery" => t[i].start = Len(c.shown) /\ t[i].end > 0
      BY <1>3, <2>1 DEF AnswerOK
    <2>4. ASSUME t[i].kind # "restore"
          PROVE  /\ t[i].token = r.tokens /\ c.token < t[i].token
                 /\ \A j \in 1 .. Len(w) : j < i + 1 =>
                      ~IsData(w, r.tokens, j) /\ ~IsComplete(w, r.tokens, j)
      BY <1>3, <2>1, <2>4 DEF AnswerOK
    <2>5. \A j \in 1 .. Len(t) : j + 1 \in 1 .. Len(w) /\ (j < i => j + 1 < i + 1)
                                 /\ (i + 1 = j + 1 => i = j)
      BY <1>1
    <2>6. \A j \in 1 .. Len(t) : /\ IsAnswer(t, j) => i = j
                                 /\ j < i => ~IsExit(t, j)
      BY <1>2, <2>2, <2>5
    <2>7. t[i].kind # "restore" => \A j \in 1 .. Len(t) : j < i =>
             ~IsData(t, r.tokens, j) /\ ~IsComplete(t, r.tokens, j)
      BY <1>2, <2>4, <2>5
    <2>8. ~IsAnswer(w, 1) /\ ~IsExit(w, 1)
      <3>1. 1 < i + 1 /\ i + 1 # 1
        OBVIOUS
      <3> QED BY <1>1, <2>2, <3>1
    <2> QED BY <2>2, <2>3, <2>4, <2>6, <2>7, <2>8
  <1>5. AnswerOK(t, r.tokens, c, p)
    BY <1>4 DEF AnswerOK
  <1>6. c.mode # "asking" \/ w[1].kind \in Answer \/ w[1].kind = "exit" => NoAnswer(t)
    BY <1>1, <1>4 DEF NoAnswer, IsAnswer, IsExit
  <1> QED BY <1>5, <1>6 DEF t, w

\* A frame that the client drops is of a delivery that it does not follow.
LEMMA FrameIgnored ==
  ASSUME NEW r, NEW c, NEW p, Good(r, c, p), r.wire # <<>>, NEW q, Taken(r, q),
         r.wire[1].kind \in {"data", "complete"},
         c.mode \in {"live", "recovering"} /\ r.wire[1].token = c.token =>
           c.mode = "live" /\ r.wire[1].kind = "complete"
  PROVE  Good(q, c, p)
  <1> DEFINE w == r.wire
             t == Tail(w)
             f == w[1]
  <1>1. /\ c \in ClientType /\ w \in Seq(Frame) /\ Len(w) \in Nat /\ Len(t) \in Nat
        /\ 1 \in 1 .. Len(w) /\ \A i \in 1 .. Len(t) : t[i] = w[i + 1] /\ i + 1 \in 1 .. Len(w)
    BY RelayTypes, TailIs DEF Good
  <1>2. /\ \A k, at : Follows(w, c, k, at) <=> Follows(t, c, k, at)
        /\ \A k, e : Recovers(w, c, k, e) <=> Recovers(t, c, k, e)
    <2>1. \A k, at : Follows(w, c, k, at) <=>
            \/ Follows(t, c, k, at)
            \/ f.kind \in {"opened", "recovery"} /\ k = f.token /\ at = f.start
      BY <1>1, KindsOfTail
    <2>2. \A k, e : Recovers(w, c, k, e) <=>
            \/ Recovers(t, c, k, e)
            \/ f.kind = "recovery" /\ k = f.token /\ e = f.end
      BY <1>1, KindsOfTail
    <2> HIDE DEF t, w
    <2> QED BY <2>1, <2>2 DEF w
  <1>3. AnswerOK(w, r.tokens, c, p)
    BY DEF Good, WireOK
  <1>4. ASSUME NEW i \in 1 .. Len(t), t[i].kind \in {"opened", "recovery"}
        PROVE  f.token # t[i].token
    <2>1. i + 1 \in 1 .. Len(w) /\ w[i + 1].kind \in {"opened", "recovery"} /\ 1 < i + 1
          /\ w[i + 1] = t[i]
      BY <1>1, <1>4
    <2>2. IsAnswer(w, i + 1) /\ w[i + 1].kind # "restore"
      BY <2>1 DEF IsAnswer, Answer
    <2>3. w[i + 1].token = r.tokens /\ ~IsData(w, r.tokens, 1) /\ ~IsComplete(w, r.tokens, 1)
      BY <1>1, <1>3, <2>1, <2>2 DEF AnswerOK
    <2> QED BY <1>1, <2>1, <2>3 DEF IsData, IsComplete
  <1> HIDE DEF w, t, f
  <1>5. \A k, at : Follows(t, c, k, at) => f.kind = "complete" \/ f.token # k
    BY <1>4 DEF Follows, f, w
  <1>6. \A k, e : Recovers(t, c, k, e) => f.token # k
    BY <1>4 DEF Recovers, f, w
  <1>7. GoesAhead(w, c, c)
    <2>1. \A k, at \in Nat : Follows(t, c, k, at) => Follows(w, c, k, at) /\ Moves(f, k, at, at)
      BY <1>2, <1>5 DEF Moves
    <2>2. \A k, e \in Nat : Recovers(t, c, k, e) => Recovers(w, c, k, e) /\ ~IsComplete(w, k, 1)
      BY <1>2, <1>6 DEF IsComplete, f
    <2> QED BY <2>1, <2>2 DEF GoesAhead, t, f
  <1>8. ExitOK(q, c, p) /\ AnswerOK(q.wire, r.tokens, c, p)
    BY ExitsAfter, AnswersAfter DEF Taken
  <1>9. /\ ClientOK(c, p) /\ KeepOK(r.record, c) /\ c.token <= r.tokens
        /\ c.checkpoint.token <= r.tokens
        /\ c.mode \in {"reconnected", "detached", "recovering"} => r.tokens + 1 <= 2 * r.conns
    <2>1. r.tokens + 2 <= 2 * r.conns => r.tokens + 1 <= 2 * r.conns
      BY RelayTypes DEF Good
    <2> QED BY <2>1 DEF Good, ConnOK, TokensOK
  <1>10. CASE c.mode # "reconnected"
    BY <1>1, <1>7, <1>8, <1>9, <1>10, ReceivedKeeps DEF Taken, SameBeside, w
  <1>11. CASE c.mode = "reconnected"
    <2>1. NoAnswer(t) /\ Idle(c)
      BY <1>11, AnswersAfter DEF Idle, t, w
    <2>2. /\ DataOK(q.wire, p) /\ OpenedOK(q.wire, q.tokens)
      <3>1. DataOK(w, p) /\ OpenedOK(w, r.tokens)
        BY DEF Good, WireOK, w
      <3>2. DataOK(t, p)
        BY <1>1, <3>1 DEF DataOK
      <3>3. OpenedOK(t, r.tokens)
        BY <1>1, <3>1 DEF OpenedOK
      <3> QED BY <3>2, <3>3 DEF Taken, SameBeside, t, w
    <2>3. ConnOK(q, c)
      BY <1>11 DEF Good, ConnOK, Reaches, Taken, SameBeside
    <2>4. TokensOK(q, c)
      <3>1. \A i \in 1 .. Len(t) : t[i].kind \in {"recovery", "restore"} => FALSE
        BY <2>1 DEF NoAnswer, IsAnswer, Answer
      <3> QED BY <3>1 DEF Good, TokensOK, Taken, SameBeside, t, w
    <2>5. Typed(q, c, p) /\ RecordOK(q.record, p)
      BY RelayTypes DEF Good, Typed, Taken
    <2> QED BY <1>8, <1>9, <2>1, <2>2, <2>3, <2>4, <2>5, IdleGood DEF Taken, t, w
  <1> QED BY <1>10, <1>11


LEMMA ZeroPlus ==
  \A i \in Int : 0 + i = i
  OBVIOUS

LEMMA UpTo ==
  ASSUME NEW b \in Nat, NEW e \in Nat, b <= e
  PROVE  \A a \in Nat : a <= b => a <= e
  OBVIOUS

\* Two runs of units that follow each other.
LEMMA RunsJoin ==
  ASSUME NEW s \in Seq(Nat), NEW u \in Seq(Nat), NEW at \in Nat,
         \A i \in 1 .. Len(s) : s[i] = at + i,
         \A i \in 1 .. Len(u) : u[i] = at + Len(s) + i
  PROVE  /\ s \o u \in Seq(Nat) /\ Len(s \o u) = Len(s) + Len(u)
         /\ \A i \in 1 .. Len(s \o u) : (s \o u)[i] = at + i
  <1> DEFINE v == s \o u
  <1>1. /\ v \in Seq(Nat) /\ Len(v) = Len(s) + Len(u) /\ Len(s) \in Nat /\ Len(u) \in Nat
        /\ \A i \in 1 .. Len(s) + Len(u) :
             v[i] = IF i <= Len(s) THEN s[i] ELSE u[i - Len(s)]
    BY ConcatProperties, LenProperties
  <1> HIDE DEF v
  <1>2. ASSUME NEW i \in 1 .. Len(v)
        PROVE  v[i] = at + i
    <2>1. CASE i <= Len(s)
      <3>1. i \in 1 .. Len(s) /\ i \in 1 .. Len(s) + Len(u)
        BY <1>1, <2>1
      <3>2. v[i] = s[i]
        BY <1>1, <2>1, <3>1
      <3>3. s[i] = at + i
        BY <3>1
      <3> QED BY <3>2, <3>3
    <2>2. CASE ~(i <= Len(s))
      <3>1. i - Len(s) \in 1 .. Len(u) /\ v[i] = u[i - Len(s)]
        BY <1>1, <2>2
      <3>2. u[i - Len(s)] = at + Len(s) + (i - Len(s))
        BY <3>1
      <3>3. at + Len(s) + (i - Len(s)) = at + i
        BY <1>1
      <3> QED BY <3>1, <3>2, <3>3
    <2> QED BY <2>1, <2>2
  <1> QED BY <1>1, <1>2 DEF v

LEMMA RunsJoinFromStart ==
  ASSUME NEW s \in Seq(Nat), NEW u \in Seq(Nat),
         \A i \in 1 .. Len(s) : s[i] = i,
         \A i \in 1 .. Len(u) : u[i] = Len(s) + i
  PROVE  /\ s \o u \in Seq(Nat) /\ Len(s \o u) = Len(s) + Len(u)
         /\ \A i \in 1 .. Len(s \o u) : (s \o u)[i] = i
  <1> DEFINE v == s \o u
  <1>1. 0 \in Nat /\ Len(s) \in Nat /\ 0 + Len(s) = Len(s)
    BY LenProperties
  <1>2. \A i \in 1 .. Len(s) : s[i] = 0 + i
    BY ZeroPlus
  <1>3. \A i \in 1 .. Len(u) : u[i] = 0 + Len(s) + i
    BY <1>1
  <1>4. /\ v \in Seq(Nat) /\ Len(v) = Len(s) + Len(u)
        /\ \A i \in 1 .. Len(v) : v[i] = 0 + i
    <2> HIDE DEF v
    <2> QED BY <1>1, <1>2, <1>3, RunsJoin DEF v
  <1> HIDE DEF v
  <1>5. ASSUME NEW i \in 1 .. Len(v)
        PROVE  v[i] = i
    <2>1. v[i] = 0 + i
      BY <1>4
    <2>2. 0 + i = i
      BY ZeroPlus
    <2> QED BY <2>1, <2>2
  <1> QED BY <1>4, <1>5 DEF v

\* The frame goes on where the client is.
GoesOnWith(c, f, p) ==
  /\ f \in Frame /\ f.kind = "data" /\ f.token = c.token /\ f.start = c.next
  /\ Len(f.units) > 0 /\ EndOf(f) <= p.written
  /\ \A n \in 1 .. Len(f.units) : f.units[n] = f.start + n

LEMMA ShownIs ==
  ASSUME NEW c \in ClientType, NEW p \in Program, ClientOK(c, p), NEW f,
         GoesOnWith(c, f, p), c.mode = "live"
  PROVE  LET x == Show(c, f.units, EndOf(f))
         IN  /\ x \in ClientType /\ ClientOK(x, p) /\ x.mode = "live" /\ x.token = c.token
             /\ x.next = EndOf(f) /\ x.exits = c.exits
             /\ x.checkpoint.token = c.token /\ x.checkpoint.end = EndOf(f)
  <1> DEFINE end == EndOf(f)
             shown == c.shown \o f.units
             point == [token |-> c.token, end |-> end]
             owed == c.owed \cup {end}
             x == [c EXCEPT !.shown = shown, !.checkpoint = point, !.owed = owed, !.next = end]
  <1>1. /\ f.units \in Seq(Nat) /\ Len(f.units) \in Nat /\ end \in Nat /\ f.start \in Nat
        /\ Len(f.units) > 0 /\ end = f.start + Len(f.units) /\ end <= p.written
        /\ f.token = c.token /\ f.start = c.next
    BY EndIsNat DEF GoesOnWith, EndOf
  <1>2. /\ c.shown \in Seq(Nat) /\ Len(c.shown) \in Nat /\ c.token \in Nat
        /\ c.owed \in SUBSET Nat
    BY LenProperties DEF ClientType
  <1>3. /\ c.next = Len(c.shown) /\ \A i \in 1 .. Len(c.shown) : c.shown[i] = i
    BY DEF ClientOK
  <1>4. \A n \in 1 .. Len(f.units) : f.units[n] = Len(c.shown) + n
    BY <1>1, <1>3 DEF GoesOnWith
  <1>5. /\ shown \in Seq(Nat) /\ Len(shown) = Len(c.shown) + Len(f.units)
        /\ \A i \in 1 .. Len(shown) : shown[i] = i
    <2> HIDE DEF shown
    <2> QED BY <1>1, <1>2, <1>3, <1>4, RunsJoinFromStart DEF shown
  <1> HIDE DEF shown, end
  <1>6. Len(shown) = end /\ \A i \in 1 .. Len(shown) : shown[i] = i
    <2>1. c.next = Len(c.shown)
      BY <1>3
    <2>2. Len(shown) = end
      BY <1>1, <1>5, <2>1
    <2> QED BY <1>5, <2>2
  <1>7. Show(c, f.units, EndOf(f)) = x
    BY DEF Show, shown, end
  <1>8. owed \in SUBSET Nat /\ point \in [token : Nat, end : Nat]
    BY <1>1, <1>2
  <1>9. x \in ClientType
    <2> HIDE DEF owed, point
    <2> QED BY <1>1, <1>5, <1>8 DEF ClientType
  <1>10. /\ x.mode = c.mode /\ x.token = c.token /\ x.next = end /\ x.end = c.end
         /\ x.buffer = c.buffer /\ x.shown = shown /\ x.checkpoint = point
         /\ x.exits = c.exits /\ x.exitBy = c.exitBy /\ x.owed = owed
    BY DEF ClientType
  <1> HIDE DEF x
  <1>11. ClientOK(x, p)
    <2>1. ClientOK(c, p)
      OBVIOUS
    <2>2. end > 0 /\ end <= p.written /\ \A e \in owed : e <= end
      <3>1. \A e \in c.owed : e <= Len(c.shown) /\ e \in Nat
        BY <1>2, <2>1 DEF ClientOK
      <3>2. c.next = Len(c.shown) /\ Len(c.shown) \in Nat
        BY <1>2, <1>3
      <3>3. end \in Nat /\ Len(c.shown) <= end /\ end > 0 /\ end <= p.written
        <4> HIDE DEF owed, point, x
        <4>1. /\ Len(f.units) \in Nat /\ Len(f.units) > 0
              /\ end = Len(c.shown) + Len(f.units)
          BY <1>1, <3>2
        <4>2. end \in Nat /\ end <= p.written
          BY <1>1
        <4>3. \A a, n \in Nat : n > 0 => a <= a + n /\ a + n > 0
          OBVIOUS
        <4> QED BY <3>2, <4>1, <4>2, <4>3
      <3>4. \A a \in Nat : a <= Len(c.shown) => a <= end
        BY <3>2, <3>3, UpTo
      <3>5. end <= end
        BY <3>3
      <3> HIDE DEF point
      <3> QED BY <3>1, <3>3, <3>4, <3>5
    <2>3. c.token # 0 /\ c.buffer = NoBuffer /\ c.exitBy = "none"
      BY <2>1 DEF ClientOK
    <2>4. point.token = c.token /\ point.end = end
      OBVIOUS
    <2> HIDE DEF point, owed
    <2> QED BY <1>6, <1>10, <2>2, <2>3, <2>4 DEF ClientOK
  <1> QED BY <1>7, <1>9, <1>10, <1>11 DEF end

LEMMA KeptBackIs ==
  ASSUME NEW c \in ClientType, NEW p \in Program, ClientOK(c, p), NEW f,
         GoesOnWith(c, f, p), c.mode = "recovering"
  PROVE  LET x == [c EXCEPT !.next = EndOf(f),
                            !.buffer = [units |-> @.units \o f.units,
                                        ends |-> @.ends \cup {EndOf(f)}]]
         IN  /\ x \in ClientType /\ ClientOK(x, p) /\ x.mode = "recovering"
             /\ x.token = c.token /\ x.next = EndOf(f) /\ x.exits = c.exits /\ x.end = c.end
             /\ x.checkpoint = c.checkpoint
  <1> DEFINE end == EndOf(f)
             units == c.buffer.units \o f.units
             ends == c.buffer.ends \cup {end}
             buffer == [units |-> units, ends |-> ends]
             x == [c EXCEPT !.next = end, !.buffer = buffer]
  <1>1. /\ f.units \in Seq(Nat) /\ Len(f.units) \in Nat /\ end \in Nat /\ f.start \in Nat
        /\ Len(f.units) > 0 /\ end = f.start + Len(f.units) /\ end <= p.written
        /\ f.token = c.token /\ f.start = c.next
    BY EndIsNat DEF GoesOnWith, EndOf
  <1>2. /\ c.shown \in Seq(Nat) /\ Len(c.shown) \in Nat /\ c.token \in Nat
        /\ c.buffer.units \in Seq(Nat) /\ Len(c.buffer.units) \in Nat
        /\ c.buffer.ends \in SUBSET Nat /\ c.buffer \in [units : Seq(Nat), ends : SUBSET Nat]
    BY LenProperties DEF ClientType
  <1>3. /\ c.next = Len(c.shown) + Len(c.buffer.units)
        /\ \A i \in 1 .. Len(c.buffer.units) : c.buffer.units[i] = Len(c.shown) + i
    BY DEF ClientOK
  <1>4. \A n \in 1 .. Len(f.units) : f.units[n] = Len(c.shown) + Len(c.buffer.units) + n
    BY <1>1, <1>3 DEF GoesOnWith
  <1>5. /\ units \in Seq(Nat) /\ Len(units) = Len(c.buffer.units) + Len(f.units)
        /\ \A i \in 1 .. Len(units) : units[i] = Len(c.shown) + i
    <2> HIDE DEF units
    <2> QED BY <1>1, <1>2, <1>3, <1>4, RunsJoin, ZenonT(30) DEF units
  <1> HIDE DEF units, end
  <1>6. end = Len(c.shown) + Len(units)
    <2>1. c.next = Len(c.shown) + Len(c.buffer.units)
      BY <1>3
    <2>2. Len(units) = Len(c.buffer.units) + Len(f.units)
      BY <1>5
    <2>3. end = Len(c.shown) + Len(c.buffer.units) + Len(f.units)
      BY <1>1, <2>1
    <2>4. \A a, b, n \in Nat : a + b + n = a + (b + n)
      OBVIOUS
    <2>5. Len(c.shown) \in Nat /\ Len(c.buffer.units) \in Nat /\ Len(f.units) \in Nat
      BY <1>1, <1>2
    <2>6. Len(c.shown) + Len(c.buffer.units) + Len(f.units)
            = Len(c.shown) + (Len(c.buffer.units) + Len(f.units))
      BY <2>4, <2>5
    <2> QED BY <2>2, <2>3, <2>6, Zenon
  <1>7. [c EXCEPT !.next = EndOf(f), !.buffer = [units |-> @.units \o f.units,
                                                 ends |-> @.ends \cup {EndOf(f)}]] = x
    BY DEF units, end
  <1>8. ends \in SUBSET Nat
    BY <1>1, <1>2
  <1>9. buffer \in [units : Seq(Nat), ends : SUBSET Nat]
    BY <1>5, <1>8
  <1>10. buffer.units = units /\ buffer.ends = ends
    OBVIOUS
  <1> HIDE DEF buffer
  <1>11. x \in ClientType
    BY <1>1, <1>9 DEF ClientType
  <1>12. /\ x.mode = c.mode /\ x.token = c.token /\ x.next = end /\ x.end = c.end
         /\ x.buffer = buffer /\ x.shown = c.shown /\ x.checkpoint = c.checkpoint
         /\ x.exits = c.exits /\ x.exitBy = c.exitBy /\ x.owed = c.owed
    BY DEF ClientType
  <1> HIDE DEF x
  <1>13. ClientOK(x, p)
    <2>1. ClientOK(c, p)
      OBVIOUS
    <2>2. end <= p.written /\ \A e \in ends : e <= end
      <3>1. \A e \in c.buffer.ends : e <= c.next /\ e \in Nat
        BY <1>2, <2>1 DEF ClientOK
      <3>2. c.next \in Nat /\ c.next <= end
        BY <1>1
      <3>3. \A a \in Nat : a <= c.next => a <= end
        BY <1>1, <3>2, UpTo
      <3>4. end <= end
        BY <1>1
      <3> QED BY <1>1, <3>1, <3>3, <3>4
    <2> HIDE DEF ends
    <2> QED BY <1>5, <1>6, <1>10, <1>12, <2>1, <2>2 DEF ClientOK
  <1> QED BY <1>7, <1>11, <1>12, <1>13 DEF end

\* At the end of a recovery the client shows what it kept back.
LEMMA CompletedIs ==
  ASSUME NEW c \in ClientType, NEW p \in Program, ClientOK(c, p), c.mode = "recovering",
         c.next = c.end
  PROVE  LET x == TakeComplete(c)
         IN  /\ x \in ClientType /\ ClientOK(x, p) /\ x.mode = "live" /\ x.token = c.token
             /\ x.next = c.next /\ x.exits = c.exits /\ Len(x.shown) = c.next
             /\ x.checkpoint.token = c.token /\ x.checkpoint.end = c.next
  <1> DEFINE shown == c.shown \o c.buffer.units
             owed == c.owed \cup c.buffer.ends
             point == [token |-> c.token, end |-> c.end]
             x == [c EXCEPT !.mode = "live", !.shown = shown, !.owed = owed,
                            !.checkpoint = point, !.buffer = NoBuffer]
  <1>1. /\ c.shown \in Seq(Nat) /\ Len(c.shown) \in Nat /\ c.token \in Nat /\ c.end \in Nat
        /\ c.buffer.units \in Seq(Nat) /\ Len(c.buffer.units) \in Nat
        /\ c.buffer.ends \in SUBSET Nat /\ c.owed \in SUBSET Nat
        /\ NoBuffer \in [units : Seq(Nat), ends : SUBSET Nat]
    BY LenProperties, EmptySeq DEF ClientType, NoBuffer
  <1>2. /\ c.next = Len(c.shown) + Len(c.buffer.units) /\ c.end > 0
        /\ \A i \in 1 .. Len(c.buffer.units) : c.buffer.units[i] = Len(c.shown) + i
        /\ \A i \in 1 .. Len(c.shown) : c.shown[i] = i
        /\ \A e \in c.buffer.ends : e <= c.next
        /\ c.token # 0 /\ c.next <= p.written /\ c.owed = {} /\ c.exitBy = "none"
    BY DEF ClientOK
  <1>4. /\ shown \in Seq(Nat) /\ Len(shown) = Len(c.shown) + Len(c.buffer.units)
        /\ \A i \in 1 .. Len(shown) : shown[i] = i
    <2> HIDE DEF shown
    <2> QED BY <1>1, <1>2, RunsJoinFromStart DEF shown
  <1>5. TakeComplete(c) = x
    BY DEF TakeComplete
  <1> HIDE DEF shown
  <1>6. Len(shown) = c.next /\ \A i \in 1 .. Len(shown) : shown[i] = i
    BY <1>2, <1>4
  <1>7. owed \in SUBSET Nat /\ point \in [token : Nat, end : Nat]
        /\ \A e \in owed : e <= c.next
    BY <1>1, <1>2
  <1>8. point.token = c.token /\ point.end = c.next
    OBVIOUS
  <1> HIDE DEF owed, point
  <1>9. x \in ClientType
    BY <1>1, <1>4, <1>7 DEF ClientType
  <1>10. /\ x.mode = "live" /\ x.token = c.token /\ x.next = c.next /\ x.end = c.end
         /\ x.buffer = NoBuffer /\ x.shown = shown /\ x.checkpoint = point
         /\ x.exits = c.exits /\ x.exitBy = c.exitBy /\ x.owed = owed
    BY DEF ClientType
  <1> HIDE DEF x
  <1>11. ClientOK(x, p)
    BY <1>2, <1>6, <1>7, <1>8, <1>10 DEF ClientOK
  <1> QED BY <1>5, <1>6, <1>8, <1>9, <1>10, <1>11

LEMMA NoAnswerOK ==
  ASSUME NEW w, NEW tokens, NEW c, NEW p, NoAnswer(w)
  PROVE  AnswerOK(w, tokens, c, p)
  BY DEF NoAnswer, AnswerOK

\* A client that stays on its delivery goes on with the frame.
LEMMA StaysOnDelivery ==
  ASSUME NEW w \in Seq(Frame), w # <<>>, NEW c \in ClientType, NEW x \in ClientType,
         NoAnswer(Tail(w)), c.mode \in {"live", "recovering"}, x.token = c.token,
         Moves(w[1], c.token, c.next, x.next),
         x.mode = "recovering" =>
           c.mode = "recovering" /\ x.end = c.end /\ w[1].kind # "complete"
  PROVE  GoesAhead(w, c, x)
  <1> DEFINE t == Tail(w)
  <1>1. \A i \in 1 .. Len(t) : t[i].kind \notin {"opened", "recovery"}
    BY DEF NoAnswer, IsAnswer, Answer
  <1>2. ASSUME NEW k \in Nat, NEW at \in Nat, Follows(t, x, k, at)
        PROVE  \E b \in Nat : Follows(w, c, k, b) /\ Moves(w[1], k, b, at)
    <2>1. k = c.token /\ at = x.next
      BY <1>1, <1>2 DEF Follows
    <2>2. Follows(w, c, k, c.next) /\ c.next \in Nat
      BY <2>1 DEF Follows, ClientType
    <2> QED BY <2>1, <2>2
  <1>3. ASSUME NEW k \in Nat, NEW e \in Nat, Recovers(t, x, k, e)
        PROVE  Recovers(w, c, k, e) /\ ~IsComplete(w, k, 1)
    <2>1. x.mode = "recovering" /\ k = c.token /\ e = x.end
      BY <1>1, <1>3 DEF Recovers
    <2> QED BY <2>1 DEF Recovers, IsComplete
  <1> QED BY <1>2, <1>3 DEF GoesAhead

\* A client that follows nothing any more, and waits for no answer.
LEMMA FollowsNothing ==
  ASSUME NEW w, NEW c, NEW x, NoAnswer(Tail(w)), Idle(x)
  PROVE  GoesAhead(w, c, x)
  <1>1. /\ \A k, at : ~Follows(Tail(w), x, k, at)
        /\ \A k, e : ~Recovers(Tail(w), x, k, e)
    BY NobodyFollows
  <1> QED BY <1>1 DEF GoesAhead

\* The frame comes when its delivery goes on where the client is.
LEMMA DataGoesOn ==
  ASSUME NEW r, NEW c, NEW p, Good(r, c, p), r.wire # <<>>, r.wire[1].kind = "data",
         c.mode \in {"live", "recovering"}, r.wire[1].token = c.token
  PROVE  GoesOnWith(c, r.wire[1], p)
  <1> DEFINE w == r.wire
             f == w[1]
  <1>1. c \in ClientType /\ w \in Seq(Frame) /\ f \in Frame /\ 1 \in 1 .. Len(w)
        /\ c.token \in Nat /\ c.next \in Nat
    BY RelayTypes, TailIs DEF Good, ClientType
  <1>2. Follows(w, c, c.token, c.next)
    BY DEF Follows
  <1>3. Chain(w, c.token, c.next)
    BY <1>1, <1>2 DEF Good, WireOK, ChainOK
  <1>4. IsData(w, c.token, 1)
    BY <1>1 DEF IsData
  <1>5. \A j \in 1 .. Len(w) : ~(j < 1)
    OBVIOUS
  <1>6. f.start = c.next
    BY <1>1, <1>3, <1>4, <1>5 DEF Chain
  <1>7. /\ Len(f.units) > 0 /\ EndOf(f) <= p.written
        /\ \A n \in 1 .. Len(f.units) : f.units[n] = f.start + n
    BY <1>1 DEF Good, WireOK, DataOK
  <1> QED BY <1>1, <1>6, <1>7 DEF GoesOnWith

\* The relay keeps what comes after the position of the client.
LEMMA KeptForClient ==
  ASSUME NEW r, NEW c, NEW p, Good(r, c, p), c.mode \in {"live", "recovering"},
         NEW x, NEW e \in Nat, c.next <= e,
         x.checkpoint.token = c.token, x.checkpoint.end = e
  PROVE  KeepOK(r.record, x)
  <1>1. r.record \in RecordType /\ c \in ClientType
    BY RelayTypes DEF Good
  <1>2. r.record.credited \in Nat /\ r.record.reserved \in Nat /\ c.next \in Nat
    BY <1>1, RecordTypes DEF ClientType
  <1>3. r.record.token = c.token =>
          r.record.credited <= c.next /\ r.record.reserved <= c.next
    <2>1. Follows(r.wire, c, c.token, c.next)
      BY DEF Follows
    <2> QED BY <1>2, <2>1 DEF Good, FollowOK
  <1> QED BY <1>2, <1>3 DEF KeepOK

LEMMA DataReceived ==
  ASSUME NEW r, NEW c, NEW p, Good(r, c, p), r.wire # <<>>, NEW q, Taken(r, q),
         r.wire[1].kind = "data"
  PROVE  Good(q, TakeData(c, r.wire[1]), p)
  <1> DEFINE f == r.wire[1]
             end == EndOf(f)
             shown == Show(c, f.units, end)
             kept == [c EXCEPT !.next = end, !.buffer = [units |-> @.units \o f.units,
                                                         ends |-> @.ends \cup {end}]]
             x == TakeData(c, f)
  <1>1. r.wire \in Seq(Frame) /\ c \in ClientType /\ f \in Frame /\ p \in Program
    BY RelayTypes, TailIs DEF Good
  <1>2. CASE c.mode \notin {"live", "recovering"} \/ f.token # c.token
    <2>1. Good(q, c, p)
      BY <1>2, FrameIgnored
    <2> QED BY <1>2, <2>1 DEF TakeData
  <1>3. CASE c.mode \in {"live", "recovering"} /\ f.token = c.token
    <2>1. GoesOnWith(c, f, p)
      BY <1>3, DataGoesOn
    <2>2. /\ f.start = c.next /\ f.kind = "data" /\ end \in Nat /\ c.next <= end
          /\ ClientOK(c, p)
      BY <1>1, <2>1, EndIsNat DEF GoesOnWith, Good
    <2>3. NoAnswer(Tail(r.wire))
      BY <1>3, AnswersAfter
    <2>4. x = IF c.mode = "live" THEN shown ELSE kept
      BY <1>3, <2>2 DEF TakeData, EndOf
    <2>5. /\ q \in RelayType /\ q.wire = Tail(r.wire) /\ q.record = r.record
          /\ q.tokens = r.tokens /\ q.conn = r.conn /\ q.conns = r.conns
      BY DEF Taken, SameBeside
    <2>6. c.token <= r.tokens /\ c.checkpoint.token <= r.tokens
          /\ (c.mode = "recovering" => r.tokens + 1 <= 2 * r.conns)
      BY DEF Good, ConnOK, TokensOK
    <2>7. CASE c.mode = "live"
      <3>1. /\ shown \in ClientType /\ ClientOK(shown, p) /\ shown.mode = "live"
            /\ shown.token = c.token /\ shown.next = end /\ shown.exits = c.exits
            /\ shown.checkpoint.token = c.token /\ shown.checkpoint.end = end
        BY <1>1, <2>1, <2>2, <2>7, ShownIs
      <3> HIDE DEF shown, end, x
      <3>2. Moves(f, c.token, c.next, shown.next)
        BY <1>3, <2>2, <3>1 DEF Moves, end
      <3>3. GoesAhead(r.wire, c, shown)
        BY <1>1, <1>3, <2>3, <3>1, <3>2, StaysOnDelivery
      <3>4. KeepOK(r.record, shown)
        BY <1>3, <2>2, <3>1, KeptForClient
      <3>5. ExitOK(q, shown, p) /\ AnswerOK(q.wire, r.tokens, shown, p)
        BY <2>3, <2>5, <3>1, ExitsAfter, NoAnswerOK
      <3>6. Good(q, shown, p)
        BY <2>5, <2>6, <3>1, <3>3, <3>4, <3>5, ReceivedKeeps
      <3> QED BY <2>4, <2>7, <3>6 DEF x
    <2>8. CASE c.mode = "recovering"
      <3>1. /\ kept \in ClientType /\ ClientOK(kept, p) /\ kept.mode = "recovering"
            /\ kept.token = c.token /\ kept.next = end /\ kept.exits = c.exits
            /\ kept.end = c.end /\ kept.checkpoint = c.checkpoint
        BY <1>1, <2>1, <2>2, <2>8, KeptBackIs, ZenonT(30)
      <3> HIDE DEF kept, end, x
      <3>2. Moves(f, c.token, c.next, kept.next)
        BY <1>3, <2>2, <3>1 DEF Moves, end
      <3>3. GoesAhead(r.wire, c, kept)
        BY <1>1, <1>3, <2>2, <2>3, <2>8, <3>1, <3>2, StaysOnDelivery
      <3>4. KeepOK(r.record, kept)
        BY <3>1 DEF Good, KeepOK
      <3>5. ExitOK(q, kept, p) /\ AnswerOK(q.wire, r.tokens, kept, p)
        BY <2>3, <2>5, <3>1, ExitsAfter, NoAnswerOK
      <3>6. Good(q, kept, p)
        BY <2>5, <2>6, <2>8, <3>1, <3>3, <3>4, <3>5, ReceivedKeeps
      <3> QED BY <2>4, <2>8, <3>6 DEF x
    <2> QED BY <1>3, <2>7, <2>8
  <1> QED BY <1>2, <1>3

\* The units from the first one on.
LEMMA UnitsUpTo ==
  ASSUME NEW n \in Nat
  PROVE  LET s == [i \in 1 .. n |-> i]
         IN  s \in Seq(Nat) /\ Len(s) = n /\ \A i \in 1 .. Len(s) : s[i] = i
  <1> DEFINE s == [i \in 1 .. n |-> i]
  <1>1. s \in Seq(Nat)
    <2>1. s \in [1 .. n -> Nat]
      OBVIOUS
    <2> QED BY <2>1, SeqDef
  <1>2. Len(s) \in Nat /\ DOMAIN s = 1 .. Len(s) /\ DOMAIN s = 1 .. n
    BY <1>1, LenProperties
  <1>3. \A a, b \in Nat : 1 .. a = 1 .. b => a = b
    <2> SUFFICES ASSUME NEW a \in Nat, NEW b \in Nat, 1 .. a = 1 .. b
                 PROVE  a = b
      OBVIOUS
    <2>1. a = 0 \/ a \in 1 .. a
      OBVIOUS
    <2>2. b = 0 \/ b \in 1 .. b
      OBVIOUS
    <2>3. a \in 1 .. b => a <= b
      OBVIOUS
    <2>4. b \in 1 .. a => b <= a
      OBVIOUS
    <2>5. 1 .. 0 = {}
      OBVIOUS
    <2>6. a = 0 => b = 0
      BY <2>2, <2>5
    <2>7. b = 0 => a = 0
      BY <2>1, <2>5
    <2> QED BY <2>1, <2>2, <2>3, <2>4, <2>6, <2>7
  <1>4. Len(s) = n
    BY <1>2, <1>3
  <1> QED BY <1>1, <1>4

\* What is known of an answer when it comes.
LEMMA AnswerComes ==
  ASSUME NEW r, NEW c, NEW p, Good(r, c, p), r.wire # <<>>, r.wire[1].kind \in Answer
  PROVE  /\ c.mode = "asking" /\ NoAnswer(Tail(r.wire)) /\ c.exitBy = "none"
         /\ c.buffer = NoBuffer /\ c.owed = {}
         /\ r.wire[1].kind \in {"opened", "recovery"} =>
              /\ r.wire[1].token = r.tokens /\ r.tokens # 0 /\ r.wire[1].start \in Nat
              /\ c.token < r.tokens
         /\ r.wire[1].kind = "opened" =>
              Len(c.shown) <= r.wire[1].start /\ r.wire[1].start <= p.written
         /\ r.wire[1].kind = "recovery" =>
              r.wire[1].start = Len(c.shown) /\ r.wire[1].end > 0 /\ r.wire[1].end \in Nat
         /\ r.wire[1].kind \in {"recovery", "restore"} => r.tokens + 1 <= 2 * r.conns
  <1> DEFINE w == r.wire
             f == w[1]
  <1>1. w \in Seq(Frame) /\ f \in Frame /\ 1 \in 1 .. Len(w) /\ r.tokens \in Nat
    BY RelayTypes, TailIs DEF Good
  <1>2. IsAnswer(w, 1)
    BY <1>1 DEF IsAnswer
  <1>3. /\ c.mode = "asking"
        /\ f.kind = "opened" => Len(c.shown) <= f.start /\ f.start <= p.written
        /\ f.kind = "recovery" => f.start = Len(c.shown) /\ f.end > 0
        /\ f.kind # "restore" => f.token = r.tokens /\ c.token < f.token
    BY <1>1, <1>2 DEF Good, WireOK, AnswerOK
  <1>4. f.kind \in {"opened", "recovery"} => f.start \in Nat /\ f.token \in Nat
    BY <1>1 DEF Frame
  <1>5. f.kind = "recovery" => f.end \in Nat
    BY <1>1 DEF Frame
  <1>6. NoAnswer(Tail(w))
    BY AnswersAfter
  <1>7. f.kind \in {"opened", "recovery"} => r.tokens # 0
    <2> SUFFICES ASSUME f.kind \in {"opened", "recovery"}
                 PROVE  r.tokens # 0
      OBVIOUS
    <2>1. Follows(w, c, f.token, f.start)
      BY <1>1 DEF Follows
    <2>2. f.token = r.tokens /\ f.token # 0
      BY <1>4, <2>1 DEF Good, WireOK, ChainOK
    <2> QED BY <2>2
  <1>8. f.kind \in {"recovery", "restore"} => r.tokens + 1 <= 2 * r.conns
    BY <1>1 DEF Good, TokensOK
  <1>9. c.exitBy = "none" /\ c.buffer = NoBuffer /\ c.owed = {}
    BY <1>3 DEF Good, ClientOK
  <1> QED BY <1>3, <1>4, <1>5, <1>6, <1>7, <1>8, <1>9

\* A client that an answer sets on its delivery.
LEMMA SetOnDelivery ==
  ASSUME NEW w \in Seq(Frame), w # <<>>, NEW c, NEW x,
         w[1].kind \in {"opened", "recovery"}, NoAnswer(Tail(w)), w[1].start \in Nat,
         x.token = w[1].token, x.next = w[1].start,
         x.mode = "recovering" => w[1].kind = "recovery" /\ x.end = w[1].end
  PROVE  GoesAhead(w, c, x)
  <1> DEFINE t == Tail(w)
             f == w[1]
  <1>1. \A i \in 1 .. Len(t) : t[i].kind \notin {"opened", "recovery"}
    BY DEF NoAnswer, IsAnswer, Answer
  <1>2. 1 \in 1 .. Len(w)
    BY TailIs
  <1>3. ASSUME NEW k \in Nat, NEW at \in Nat, Follows(t, x, k, at)
        PROVE  \E b \in Nat : Follows(w, c, k, b) /\ Moves(f, k, b, at)
    <2>1. k = f.token /\ at = f.start
      BY <1>1, <1>3 DEF Follows
    <2>2. Follows(w, c, k, f.start)
      BY <1>2, <2>1 DEF Follows
    <2>3. Moves(f, k, f.start, at)
      BY <2>1 DEF Moves
    <2> QED BY <2>2, <2>3
  <1>4. ASSUME NEW k \in Nat, NEW e \in Nat, Recovers(t, x, k, e)
        PROVE  Recovers(w, c, k, e) /\ ~IsComplete(w, k, 1)
    <2>1. f.kind = "recovery" /\ k = f.token /\ e = f.end
      BY <1>1, <1>4 DEF Recovers
    <2> QED BY <1>2, <2>1 DEF Recovers, IsComplete
  <1> QED BY <1>3, <1>4 DEF GoesAhead

\* The screen is replayed and the client follows the new delivery.
LEMMA OpenedReceived ==
  ASSUME NEW r, NEW c, NEW p, Good(r, c, p), r.wire # <<>>, NEW q, Taken(r, q),
         r.wire[1].kind = "opened"
  PROVE  Good(q, Take(c, r.wire[1]), p)
  <1> DEFINE f == r.wire[1]
             shown == [i \in 1 .. f.start |-> i]
             x == [c EXCEPT !.mode = "live", !.token = f.token, !.next = f.start,
                            !.owed = {}, !.shown = shown, !.checkpoint = NoCheckpoint]
  <1>1. r.wire \in Seq(Frame) /\ c \in ClientType /\ f \in Frame /\ p \in Program
        /\ r.tokens \in Nat /\ ClientOK(c, p)
    BY RelayTypes, TailIs DEF Good
  <1>2. /\ c.mode = "asking" /\ NoAnswer(Tail(r.wire)) /\ c.exitBy = "none"
        /\ c.buffer = NoBuffer /\ f.token = r.tokens /\ r.tokens # 0 /\ f.start \in Nat
        /\ f.start <= p.written /\ f.kind = "opened"
    BY AnswerComes DEF Answer
  <1>3. /\ shown \in Seq(Nat) /\ Len(shown) = f.start
        /\ \A i \in 1 .. Len(shown) : shown[i] = i
    BY <1>2, UnitsUpTo
  <1>4. NoCheckpoint \in [token : Nat, end : Nat] /\ NoCheckpoint.token = 0
    BY DEF NoCheckpoint
  <1>5. Take(c, f) = x
    BY <1>2 DEF Take
  <1> HIDE DEF shown
  <1>6. x \in ClientType
    BY <1>1, <1>2, <1>3, <1>4, ZenonT(30) DEF ClientType
  <1>7. /\ x.mode = "live" /\ x.token = f.token /\ x.next = f.start /\ x.owed = {}
        /\ x.shown = shown /\ x.checkpoint = NoCheckpoint /\ x.buffer = c.buffer
        /\ x.exits = c.exits /\ x.exitBy = c.exitBy
    BY <1>1 DEF ClientType
  <1> HIDE DEF x, f
  <1>8. ClientOK(x, p)
    BY <1>2, <1>3, <1>4, <1>7 DEF ClientOK
  <1>9. GoesAhead(r.wire, c, x)
    BY <1>1, <1>2, <1>7, SetOnDelivery DEF f
  <1>10. KeepOK(r.record, x)
    BY <1>4, <1>7 DEF KeepOK
  <1>11. /\ q \in RelayType /\ q.wire = Tail(r.wire) /\ q.record = r.record
         /\ q.tokens = r.tokens /\ q.conn = r.conn /\ q.conns = r.conns
    BY DEF Taken, SameBeside
  <1>12. ExitOK(q, x, p) /\ AnswerOK(q.wire, r.tokens, x, p)
    BY <1>2, <1>7, <1>11, ExitsAfter, NoAnswerOK
  <1>13. x.token <= r.tokens /\ x.checkpoint.token <= r.tokens
    BY <1>1, <1>2, <1>4, <1>7
  <1>14. Good(q, x, p)
    BY <1>6, <1>7, <1>8, <1>9, <1>10, <1>11, <1>12, <1>13, ReceivedKeeps
  <1> QED BY <1>5, <1>14 DEF f

LEMMA RecoveryReceived ==
  ASSUME NEW r, NEW c, NEW p, Good(r, c, p), r.wire # <<>>, NEW q, Taken(r, q),
         r.wire[1].kind = "recovery"
  PROVE  Good(q, Take(c, r.wire[1]), p)
  <1> DEFINE f == r.wire[1]
             x == [c EXCEPT !.mode = "recovering", !.token = f.token, !.next = f.start,
                            !.end = f.end, !.owed = {}]
  <1>1. r.wire \in Seq(Frame) /\ c \in ClientType /\ f \in Frame /\ p \in Program
        /\ r.tokens \in Nat /\ ClientOK(c, p)
    BY RelayTypes, TailIs DEF Good
  <1>2. /\ c.mode = "asking" /\ NoAnswer(Tail(r.wire)) /\ c.exitBy = "none"
        /\ c.buffer = NoBuffer /\ f.token = r.tokens /\ r.tokens # 0 /\ f.start \in Nat
        /\ f.start = Len(c.shown) /\ f.end > 0 /\ f.end \in Nat /\ f.kind = "recovery"
        /\ c.token < r.tokens /\ r.tokens + 1 <= 2 * r.conns
    BY AnswerComes DEF Answer
  <1>3. Take(c, f) = x
    BY <1>2 DEF Take
  <1>4. x \in ClientType
    BY <1>1, <1>2 DEF ClientType
  <1>5. /\ x.mode = "recovering" /\ x.token = f.token /\ x.next = f.start /\ x.owed = {}
        /\ x.end = f.end /\ x.shown = c.shown /\ x.checkpoint = c.checkpoint
        /\ x.buffer = c.buffer /\ x.exits = c.exits /\ x.exitBy = c.exitBy
    BY <1>1 DEF ClientType
  <1> HIDE DEF x, f
  <1>6. /\ NoBuffer.units = <<>> /\ Len(NoBuffer.units) = 0 /\ NoBuffer.ends = {}
        /\ \A i : ~(i \in 1 .. Len(NoBuffer.units))
    BY EmptySeq DEF NoBuffer
  <1>7. f.start = Len(c.shown) + 0 /\ f.start <= p.written
    <2>1. Len(c.shown) <= p.written
      BY <1>1 DEF ClientOK
    <2> QED BY <1>2, <2>1
  <1>8. ClientOK(x, p)
    BY <1>1, <1>2, <1>5, <1>6, <1>7 DEF ClientOK
  <1>9. GoesAhead(r.wire, c, x)
    BY <1>1, <1>2, <1>5, SetOnDelivery DEF f
  <1>10. KeepOK(r.record, x)
    BY <1>5 DEF Good, KeepOK
  <1>11. /\ q \in RelayType /\ q.wire = Tail(r.wire) /\ q.record = r.record
         /\ q.tokens = r.tokens /\ q.conn = r.conn /\ q.conns = r.conns
    BY DEF Taken, SameBeside
  <1>12. ExitOK(q, x, p) /\ AnswerOK(q.wire, r.tokens, x, p)
    BY <1>2, <1>5, <1>11, ExitsAfter, NoAnswerOK
  <1>13. x.token <= r.tokens /\ x.checkpoint.token <= r.tokens
    BY <1>1, <1>2, <1>5 DEF Good, ConnOK
  <1>14. Good(q, x, p)
    BY <1>2, <1>4, <1>5, <1>8, <1>9, <1>10, <1>11, <1>12, <1>13, ReceivedKeeps
  <1> QED BY <1>3, <1>14 DEF f

LEMMA RestoreReceived ==
  ASSUME NEW r, NEW c, NEW p, Good(r, c, p), r.wire # <<>>, NEW q, Taken(r, q),
         r.wire[1].kind = "restore"
  PROVE  Good(q, Take(c, r.wire[1]), p)
  <1> DEFINE f == r.wire[1]
             x == [c EXCEPT !.mode = "detached", !.checkpoint = NoCheckpoint]
  <1>1. c \in ClientType /\ p \in Program /\ r.tokens \in Nat /\ ClientOK(c, p)
    BY RelayTypes DEF Good
  <1>2. /\ c.mode = "asking" /\ NoAnswer(Tail(r.wire)) /\ c.exitBy = "none"
        /\ c.buffer = NoBuffer /\ c.owed = {} /\ f.kind = "restore"
        /\ r.tokens + 1 <= 2 * r.conns
    BY AnswerComes DEF Answer
  <1>3. NoCheckpoint \in [token : Nat, end : Nat] /\ NoCheckpoint.token = 0
    BY DEF NoCheckpoint
  <1>4. Take(c, f) = x
    BY <1>2 DEF Take
  <1>5. x \in ClientType
    BY <1>1, <1>3 DEF ClientType
  <1>6. /\ x.mode = "detached" /\ x.token = c.token /\ x.owed = c.owed
        /\ x.shown = c.shown /\ x.checkpoint = NoCheckpoint /\ x.buffer = c.buffer
        /\ x.exits = c.exits /\ x.exitBy = c.exitBy
    BY <1>1 DEF ClientType
  <1> HIDE DEF x, f
  <1>7. ClientOK(x, p)
    BY <1>1, <1>2, <1>3, <1>6 DEF ClientOK
  <1>8. GoesAhead(r.wire, c, x)
    BY <1>2, <1>6, FollowsNothing DEF Idle
  <1>9. KeepOK(r.record, x)
    BY <1>3, <1>6 DEF KeepOK
  <1>10. /\ q \in RelayType /\ q.wire = Tail(r.wire) /\ q.record = r.record
         /\ q.tokens = r.tokens /\ q.conn = r.conn /\ q.conns = r.conns
    BY DEF Taken, SameBeside
  <1>11. ExitOK(q, x, p) /\ AnswerOK(q.wire, r.tokens, x, p)
    BY <1>2, <1>6, <1>10, ExitsAfter, NoAnswerOK
  <1>12. x.token <= r.tokens /\ x.checkpoint.token <= r.tokens
    BY <1>1, <1>3, <1>6 DEF Good, ConnOK
  <1>13. Good(q, x, p)
    BY <1>2, <1>5, <1>6, <1>7, <1>8, <1>9, <1>10, <1>11, <1>12, ReceivedKeeps
  <1> QED BY <1>4, <1>13 DEF f

\* The first frame has no frame before it.
LEMMA LeadsHere ==
  ASSUME NEW w, NEW k, NEW at, NEW e, Leads(w, k, at, 1, e)
  PROVE  at = e
  <1>1. \A j \in 1 .. Len(w) : ~(j < 1)
    OBVIOUS
  <1> QED BY <1>1 DEF Leads

\* Where the client is when the notice or the exit of its delivery comes.
LEMMA NoticeComes ==
  ASSUME NEW r, NEW c, NEW p, Good(r, c, p), r.wire # <<>>, c.mode = "recovering",
         IsComplete(r.wire, c.token, 1)
  PROVE  c.next = c.end
  <1>1. c.token \in Nat /\ c.next \in Nat /\ c.end \in Nat
    BY RelayTypes DEF Good, ClientType
  <1>2. 1 \in 1 .. Len(r.wire)
    BY DEF IsComplete
  <1>3. Recovers(r.wire, c, c.token, c.end) /\ Follows(r.wire, c, c.token, c.next)
    BY DEF Recovers, Follows
  <1>4. CompleteOK(r.wire, c)
    BY DEF Good, WireOK
  <1>5. Leads(r.wire, c.token, c.next, 1, c.end)
    BY <1>1, <1>2, <1>3, <1>4 DEF CompleteOK
  <1> QED BY <1>5, LeadsHere

LEMMA SourceExitComes ==
  ASSUME NEW r, NEW c, NEW p, Good(r, c, p), r.wire # <<>>,
         IsExit(r.wire, 1), r.wire[1].by = "source", c.mode \in {"live", "recovering"}
  PROVE  c.next = p.written /\ (c.mode = "recovering" => c.end = p.written)
  <1>1. c.token \in Nat /\ c.next \in Nat /\ c.end \in Nat /\ 1 \in 1 .. Len(r.wire)
    BY RelayTypes DEF Good, ClientType, IsExit
  <1>2. SourceOK(r.wire, c, p)
    BY DEF Good, WireOK
  <1>3. Follows(r.wire, c, c.token, c.next)
    BY DEF Follows
  <1>4. Leads(r.wire, c.token, c.next, 1, p.written)
    BY <1>1, <1>2, <1>3 DEF SourceOK
  <1>5. c.next = p.written
    BY <1>4, LeadsHere
  <1>6. ASSUME c.mode = "recovering"
        PROVE  c.end = p.written
    <2>1. Recovers(r.wire, c, c.token, c.end)
      BY <1>6 DEF Recovers
    <2>2. \A j \in 1 .. Len(r.wire) : ~(j < 1)
      OBVIOUS
    <2> QED BY <1>1, <1>2, <2>1, <2>2 DEF SourceOK
  <1> QED BY <1>5, <1>6

LEMMA CompleteReceived ==
  ASSUME NEW r, NEW c, NEW p, Good(r, c, p), r.wire # <<>>, NEW q, Taken(r, q),
         r.wire[1].kind = "complete"
  PROVE  Good(q, Take(c, r.wire[1]), p)
  <1> DEFINE w == r.wire
             f == w[1]
             x == TakeComplete(c)
  <1>1. w \in Seq(Frame) /\ c \in ClientType /\ f \in Frame /\ p \in Program
        /\ 1 \in 1 .. Len(w) /\ ClientOK(c, p) /\ c.next \in Nat
    BY RelayTypes, TailIs, SMTT(30) DEF Good, ClientType
  <1>2. Take(c, f) = IF c.mode = "recovering" /\ f.token = c.token /\ c.next = c.end
                     THEN x ELSE c
    BY DEF Take
  <1>3. c.mode = "recovering" /\ f.token = c.token => c.next = c.end
    BY <1>1, NoticeComes DEF IsComplete
  <1>4. CASE ~(c.mode = "recovering" /\ f.token = c.token)
    <2>1. Good(q, c, p)
      BY <1>4, FrameIgnored
    <2> QED BY <1>2, <1>4, <2>1
  <1>5. CASE c.mode = "recovering" /\ f.token = c.token
    <2>1. /\ x \in ClientType /\ ClientOK(x, p) /\ x.mode = "live" /\ x.token = c.token
          /\ x.next = c.next /\ x.exits = c.exits
          /\ x.checkpoint.token = c.token /\ x.checkpoint.end = c.next
      BY <1>1, <1>3, <1>5, CompletedIs
    <2> HIDE DEF x, w
    <2>2. NoAnswer(Tail(w))
      BY <1>5, AnswersAfter DEF w
    <2>3. Moves(f, c.token, c.next, x.next)
      BY <2>1 DEF Moves, w
    <2>4. GoesAhead(w, c, x)
      BY <1>1, <1>5, <2>1, <2>2, <2>3, StaysOnDelivery DEF w
    <2>5. c.next <= c.next
      BY <1>1
    <2>6. KeepOK(r.record, x)
      BY <1>1, <1>5, <2>1, <2>5, KeptForClient
    <2>7. /\ q \in RelayType /\ q.wire = Tail(w) /\ q.record = r.record
          /\ q.tokens = r.tokens /\ q.conn = r.conn /\ q.conns = r.conns
      BY DEF Taken, SameBeside, w
    <2>8. ExitOK(q, x, p) /\ AnswerOK(q.wire, r.tokens, x, p)
      BY <2>1, <2>2, <2>7, ExitsAfter, NoAnswerOK
    <2>9. x.token <= r.tokens /\ x.checkpoint.token <= r.tokens
      BY <2>1 DEF Good, ConnOK
    <2>10. Good(q, x, p)
      BY <2>1, <2>4, <2>6, <2>7, <2>8, <2>9, ReceivedKeeps DEF w
    <2> QED BY <1>2, <1>3, <1>5, <2>10 DEF w
  <1> QED BY <1>4, <1>5

\* An exit frame is the only one on its connection, and the first.
LEMMA ExitComes ==
  ASSUME NEW r, NEW c, NEW p, Good(r, c, p), r.wire # <<>>, NEW q, Taken(r, q),
         IsExit(r.wire, 1), NEW x, x.exits = c.exits + 1
  PROVE  ExitOK(q, x, p) /\ ~p.alive
  <1> DEFINE w == r.wire
             t == Tail(w)
  <1>1. /\ Len(w) \in Nat /\ Len(t) \in Nat /\ 1 \in 1 .. Len(w)
        /\ \A i \in 1 .. Len(t) : i + 1 \in 1 .. Len(w) /\ (IsExit(t, i) <=> IsExit(w, i + 1))
    BY RelayTypes, TailIs, KindsOfTail DEF Good
  <1> HIDE DEF t
  <1>2. ExitOK(r, c, p)
    BY DEF Good
  <1>3. c.exits = 0 /\ \A j \in 1 .. Len(w) : IsExit(w, j) => 1 = j
    BY <1>1, <1>2 DEF ExitOK
  <1>4. \A i \in 1 .. Len(t) : ~IsExit(t, i)
    <2>1. \A i \in 1 .. Len(t) : 1 # i + 1
      BY <1>1
    <2> QED BY <1>1, <1>3, <2>1
  <1>5. r.exit # "none" /\ (r.conn # 0 => r.exit = "done" \/ r.record.exit # "idle")
    BY <1>1, <1>2 DEF ExitOK
  <1>6. x.exits = 1
    BY <1>3
  <1>7. q.wire = t /\ q.record = r.record /\ SameBeside(r, q)
    BY DEF Taken, t
  <1> HIDE DEF w
  <1>8. ~p.alive
    BY <1>2, <1>5 DEF ExitOK
  <1> QED BY <1>2, <1>4, <1>5, <1>6, <1>7, <1>8 DEF ExitOK, SameBeside

LEMMA ExitReceived ==
  ASSUME NEW r, NEW c, NEW p, Good(r, c, p), r.wire # <<>>, NEW q, Taken(r, q),
         r.wire[1].kind = "exit"
  PROVE  Good(q, Take(c, r.wire[1]), p)
  <1> DEFINE w == r.wire
             f == w[1]
             e == IF c.mode = "recovering" /\ c.next = c.end THEN TakeComplete(c) ELSE c
             by == IF c.mode = "exited" THEN e.exitBy
                   ELSE IF c.mode = "live" \/ (c.mode = "recovering" /\ f.by = "source")
                   THEN f.by ELSE "early"
             x == [e EXCEPT !.mode = "exited", !.exits = e.exits + 1, !.exitBy = by]
  <1>1. w \in Seq(Frame) /\ c \in ClientType /\ f \in Frame /\ p \in Program
        /\ 1 \in 1 .. Len(w) /\ ClientOK(c, p) /\ IsExit(w, 1) /\ c.next \in Nat
    BY RelayTypes, TailIs, SMTT(30) DEF Good, IsExit, ClientType
  <1>2. Take(c, f) = x
    BY DEF Take
  <1>3. f.by \in {"source", "broadcast"}
    BY <1>1 DEF Frame
  <1>4. /\ e \in ClientType /\ ClientOK(e, p) /\ e.exits = c.exits /\ KeepOK(r.record, e)
        /\ e.token <= r.tokens /\ e.checkpoint.token <= r.tokens
        /\ (c.mode # "recovering" => e = c)
        /\ (c.mode = "recovering" /\ c.next = c.end => Len(e.shown) = c.next)
        /\ (c.mode # "exited" => e.mode # "exited")
    <2>1. CASE c.mode = "recovering" /\ c.next = c.end
      <3> DEFINE y == TakeComplete(c)
      <3>1. /\ y \in ClientType /\ ClientOK(y, p) /\ y.mode = "live" /\ y.token = c.token
            /\ y.next = c.next /\ y.exits = c.exits /\ Len(y.shown) = c.next
            /\ y.checkpoint.token = c.token /\ y.checkpoint.end = c.next
        BY <1>1, <2>1, CompletedIs
      <3>2. e = y
        BY <2>1
      <3> HIDE DEF y, e
      <3>3. c.next <= c.next
        BY <1>1
      <3>4. KeepOK(r.record, y)
        BY <1>1, <2>1, <3>1, <3>3, KeptForClient
      <3>5. y.token <= r.tokens /\ y.checkpoint.token <= r.tokens
        BY <3>1 DEF Good, ConnOK
      <3> QED BY <2>1, <3>1, <3>2, <3>4, <3>5
    <2>2. CASE ~(c.mode = "recovering" /\ c.next = c.end)
      <3>1. e = c
        BY <2>2
      <3>2. KeepOK(r.record, c) /\ c.token <= r.tokens /\ c.checkpoint.token <= r.tokens
        BY DEF Good, ConnOK
      <3> HIDE DEF e
      <3> QED BY <1>1, <2>2, <3>1, <3>2
    <2> QED BY <2>1, <2>2
  <1> HIDE DEF e
  <1>5. by \in {"none", "source", "broadcast", "notFound", "early"} /\ e.exits + 1 \in Nat
    BY <1>3, <1>4 DEF ClientType
  <1>6. by # "none"
    BY <1>1, <1>3, <1>4 DEF ClientOK
  <1>7. by = "source" => Len(e.shown) = p.written
    <2>1. CASE c.mode = "exited"
      BY <1>1, <1>4, <2>1 DEF ClientOK
    <2>2. CASE c.mode = "live" /\ f.by = "source"
      <3>1. c.next = p.written
        BY <1>1, <2>2, SourceExitComes
      <3>2. c.next = Len(c.shown) /\ e = c
        BY <1>1, <1>4, <2>2 DEF ClientOK
      <3> QED BY <3>1, <3>2
    <2>3. CASE c.mode = "recovering" /\ f.by = "source"
      <3>1. c.next = p.written /\ c.end = p.written
        BY <1>1, <2>3, SourceExitComes
      <3> QED BY <1>4, <2>3, <3>1
    <2> QED BY <2>1, <2>2, <2>3
  <1> HIDE DEF by
  <1>8. x \in ClientType
    BY <1>4, <1>5 DEF ClientType
  <1>9. /\ x.mode = "exited" /\ x.token = e.token /\ x.owed = e.owed /\ x.shown = e.shown
        /\ x.checkpoint = e.checkpoint /\ x.exits = e.exits + 1 /\ x.exitBy = by
    BY <1>4 DEF ClientType
  <1> HIDE DEF x
  <1>10. ExitOK(q, x, p) /\ ~p.alive
    BY <1>1, <1>4, <1>9, ExitComes
  <1>11. ClientOK(x, p)
    BY <1>4, <1>6, <1>7, <1>9, <1>10 DEF ClientOK
  <1>12. NoAnswer(Tail(w))
    BY AnswersAfter
  <1>13. GoesAhead(w, c, x)
    BY <1>9, <1>12, FollowsNothing DEF Idle
  <1>14. /\ q \in RelayType /\ q.wire = Tail(w) /\ q.record = r.record
         /\ q.tokens = r.tokens /\ q.conn = r.conn /\ q.conns = r.conns
    BY DEF Taken, SameBeside
  <1>15. AnswerOK(q.wire, r.tokens, x, p)
    BY <1>12, <1>14, NoAnswerOK
  <1>16. KeepOK(r.record, x)
    BY <1>4, <1>9 DEF KeepOK
  <1>17. Good(q, x, p)
    BY <1>4, <1>8, <1>9, <1>10, <1>11, <1>13, <1>14, <1>15, <1>16, ReceivedKeeps
  <1> QED BY <1>2, <1>17

LEMMA ReceiveStep ==
  ASSUME IInv, Receive
  PROVE  IInv'
  <1> DEFINE r == relay
             c == client
             p == pty
             f == r.wire[1]
             q == [r EXCEPT !.wire = Tail(r.wire)]
  <1>1. /\ Good(r, c, p) /\ QueueOK(r, p) /\ refusals \in Nat /\ (Waits(r) => refusals > 0)
        /\ r.wire # <<>> /\ r.wire \in Seq(Frame) /\ r \in RelayType
    BY RelayTypes DEF IInv, Receive, Good
  <1>2. f = Head(r.wire) /\ f \in Frame
    BY <1>1, TailIs
  <1>3. relay' = q /\ client' = Take(c, f) /\ pty' = p /\ refusals' = refusals
    BY <1>2 DEF Receive
  <1>4. Taken(r, q)
    BY <1>1, TakenIs
  <1>5. f.kind \in {"data", "opened", "recovery", "restore", "complete", "exit"}
    BY <1>2 DEF Frame
  <1>6. f.kind = "data" => Take(c, f) = TakeData(c, f)
    BY DEF Take
  <1> HIDE DEF r, c, p, q
  <1>7. Good(q, Take(c, f), p)
    BY <1>1, <1>4, <1>5, <1>6, DataReceived, OpenedReceived, RecoveryReceived,
       RestoreReceived, CompleteReceived, ExitReceived
  <1>8. QueueOK(q, p)
    BY <1>1, <1>4, QueueStays DEF Taken, SameBeside
  <1>9. Waits(q) <=> Waits(r)
    BY <1>4 DEF Taken, SameBeside, Waits, Reaches
  <1> QED BY <1>1, <1>3, <1>7, <1>8, <1>9 DEF IInv

-----------------------------------------------------------------------------
(* The invariant *)

LEMMA InitIInv ==
  Init => IInv
  <1> SUFFICES ASSUME Init
               PROVE  IInv
    OBVIOUS
  <1> DEFINE r == relay
             c == client
             p == pty
             d == NoRecord
  <1>1. /\ p = [written |-> 0, alive |-> TRUE] /\ refusals = 0
        /\ r = [record |-> NoRecord, queue |-> <<>>, timer |-> FALSE, exit |-> "none",
                projected |-> FALSE, conn |-> 0, wire |-> <<>>, reply |-> FALSE,
                tokens |-> 0, conns |-> 0, subscriber |-> 0]
        /\ c = [mode |-> "down", token |-> 0, next |-> 0, end |-> 0, buffer |-> NoBuffer,
                shown |-> <<>>, checkpoint |-> NoCheckpoint, owed |-> {}, exits |-> 0,
                exitBy |-> "none"]
    BY DEF Init
  <1>2. 0 \in Positions /\ 0 \in 0 .. MaxConns /\ 0 \in 0 .. 2 * MaxConns
    BY Constants DEF Positions
  <1>3. \A S : <<>> \in Seq(S)
    BY EmptySeq
  <1>4. NoRecord \in RecordType
    BY <1>2, <1>3 DEF NoRecord, RecordType
  <1>5. NoBuffer \in [units : Seq(Nat), ends : SUBSET Nat]
        /\ NoCheckpoint \in [token : Nat, end : Nat] /\ NoCheckpoint.token = 0
    BY <1>3 DEF NoBuffer, NoCheckpoint
  <1>6. Typed(r, c, p)
    <2>1. r \in RelayType
      BY <1>1, <1>2, <1>3, <1>4 DEF RelayType
    <2>2. c \in ClientType
      BY <1>1, <1>3, <1>5 DEF ClientType
    <2>3. p \in Program
      BY <1>1, <1>2 DEF Program
    <2> QED BY <2>1, <2>2, <2>3 DEF Typed
  <1>7. /\ r.record = d /\ r.queue = <<>> /\ r.exit = "none" /\ r.conn = 0 /\ r.wire = <<>>
        /\ ~r.projected /\ r.tokens = 0 /\ r.conns = 0 /\ r.subscriber = 0
    BY <1>1
  <1>8. /\ c.mode = "down" /\ c.token = 0 /\ c.buffer = NoBuffer /\ c.shown = <<>>
        /\ c.checkpoint.token = 0 /\ c.owed = {} /\ c.exits = 0 /\ c.exitBy = "none"
    BY <1>1, <1>5
  <1>9. p.written = 0 /\ p.alive
    BY <1>1
  <1>10. /\ d.token = 0 /\ d.conn = 0 /\ d.state = "closed" /\ d.received = 0 /\ d.sent = 0
         /\ d.credited = 0 /\ d.pending = 0 /\ d.reserved = 0 /\ d.exit = "idle"
         /\ d.attempted = 0 /\ d.ends = {} /\ d.boundaries = {} /\ d.recoveryEnd = 0
         /\ ~d.completing /\ ~d.legacyExit /\ ~d.restore
    <2>1. /\ d.token = 0 /\ d.conn = 0 /\ d.state = "closed" /\ d.received = 0 /\ d.sent = 0
          /\ d.credited = 0 /\ d.pending = 0 /\ d.reserved = 0 /\ d.exit = "idle"
      BY DEF NoRecord
    <2>2. d.attempted = 0 /\ d.ends = {} /\ d.boundaries = {} /\ d.recoveryEnd = 0
      BY DEF NoRecord
    <2>3. d.completing = FALSE /\ d.legacyExit = FALSE /\ d.restore = FALSE
      BY DEF NoRecord
    <2> QED BY <2>1, <2>2, <2>3
  <1> HIDE DEF r, c, p
  <1>11. RecordOK(d, p)
    <2>1. Window \in Nat /\ Retain \in Nat
      BY Constants
    <2> HIDE DEF d
    <2> QED BY <1>9, <1>10, <2>1 DEF RecordOK, d
  <1> HIDE DEF d
  <1>12. Len(<<>>) = 0 /\ \A i : ~(i \in 1 .. Len(<<>>))
    BY EmptySeq
  <1>13. NoAnswer(r.wire) /\ Idle(c)
    BY <1>7, <1>8, <1>12 DEF NoAnswer, Idle
  <1>14. ConnOK(r, c)
    BY <1>7, <1>8, <1>10 DEF ConnOK
  <1>15. TokensOK(r, c)
    BY <1>7, <1>8, <1>12 DEF TokensOK
  <1>16. ExitOK(r, c, p)
    BY <1>7, <1>8, <1>9, <1>10, <1>12 DEF ExitOK
  <1>17. ClientOK(c, p)
    BY <1>8, <1>9, <1>12 DEF ClientOK
  <1>18. DataOK(r.wire, p) /\ OpenedOK(r.wire, r.tokens)
    BY <1>7, <1>12 DEF DataOK, OpenedOK
  <1>19. KeepOK(r.record, c)
    BY <1>7, <1>8 DEF KeepOK
  <1>20. Good(r, c, p)
    BY <1>6, <1>7, <1>11, <1>13, <1>14, <1>15, <1>16, <1>17, <1>18, <1>19, IdleGood
  <1>21. QueueOK(r, p)
    BY <1>2, <1>7, <1>9, <1>10, <1>12 DEF QueueOK, QueueIsOutputAfter
  <1>22. ~Waits(r)
    BY <1>7, <1>10 DEF Waits
  <1> QED BY <1>1, <1>20, <1>21, <1>22 DEF IInv, r, c, p

LEMMA NextIInv ==
  IInv /\ [Next]_vars => IInv'
  <1> SUFFICES ASSUME IInv, [Next]_vars
               PROVE  IInv'
    OBVIOUS
  <1>1. CASE Next
    <2>1. CASE \E n \in 1 .. 2 : PtyOutput(n)
      BY <2>1, PtyOutputStep
    <2>2. CASE Connect
      BY <2>2, ConnectStep
    <2>3. CASE Disconnect
      BY <2>3, DisconnectStep
    <2>4. CASE Attach
      BY <2>4, AttachStep
    <2>5. CASE Receive
      BY <2>5, ReceiveStep
    <2>6. ASSUME NEW room \in Rooms,
                 \/ FlushPendingOutput(room) \/ PtyExit(room)
                 \/ WriteSettled(room) \/ CompletionSettled(room) \/ ExitSettled(room)
                 \/ ReplySettled(room) \/ LegacyCapacity(room)
                 \/ GraceExpiry(room) \/ AbandonRecovery(room)
                 \/ \E end \in client.owed : AckData(end, room)
          PROVE  IInv'
      BY <2>6, FlushStep, PtyExitStep, WriteSettledStep, CompletionSettledStep,
         ExitSettledStep, ReplySettledStep, LegacyCapacityStep, GraceExpiryStep,
         AbandonRecoveryStep, AckDataStep
    <2> QED BY <1>1, <2>1, <2>2, <2>3, <2>4, <2>5, <2>6 DEF Next
  <1>2. CASE UNCHANGED vars
    <2>1. relay' = relay /\ client' = client /\ pty' = pty /\ refusals' = refusals
      BY <1>2 DEF vars
    <2> QED BY <2>1 DEF IInv
  <1> QED BY <1>1, <1>2

\* In every reachable state the record, the queue, the frames under way and the client
\* agree: this is the invariant the other theorems follow from.
THEOREM PtyInvariance == Spec => []IInv
  BY InitIInv, NextIInv, PTL DEF Spec

\* The state has its type; the positions of a delivery are in order, never more is in
\* flight than the window the client grants, and never more kept than the retention.
THEOREM PtyTypeCorrect == Spec => []TypeOK
  <1>1. IInv => TypeOK
    <2> SUFFICES ASSUME IInv
                 PROVE  TypeOK
      OBVIOUS
    <2> DEFINE d == relay.record
    <2>1. Typed(relay, client, pty) /\ RecordOK(d, pty)
      BY DEF IInv, Good
    <2>2. /\ relay \in RelayType /\ d \in RecordType /\ pty \in Program
          /\ client \in ClientType /\ Window \in Nat /\ Retain \in Nat
      BY <2>1, RelayTypes, Constants
    <2>3. /\ d.sent \in Nat /\ d.credited \in Nat /\ d.received \in Nat /\ d.pending \in Nat
      BY <2>2, RecordTypes
    <2>4. /\ d.credited <= d.sent /\ d.sent <= d.received
          /\ d.sent - d.credited <= Window
          /\ d.pending # 0 => d.pending \in d.sent + 1 .. d.credited + Window
          /\ d.received - d.credited <= Retain
      <3>1. /\ d.credited <= d.sent /\ d.sent <= d.received
            /\ d.sent <= d.credited + Window /\ d.received <= d.credited + Retain
            /\ d.pending # 0 => d.sent < d.pending /\ d.pending <= d.credited + Window
        BY <2>1 DEF RecordOK
      <3> HIDE DEF d
      <3> QED BY <2>2, <2>3, <3>1
    <2> QED BY <2>2, <2>4 DEF TypeOK, RelayType, ClientType, Program
  <1> QED BY <1>1, PtyInvariance, PTL

\* What the owner shows is the output of the program from its start, over every loss of
\* the connection, every rollback of a frame and every recovery.
THEOREM PtyStreamIsExact == Spec => []StreamIsExact
  <1>1. IInv => StreamIsExact
    <2> SUFFICES ASSUME IInv
                 PROVE  StreamIsExact
      OBVIOUS
    <2>1. client \in ClientType /\ ClientOK(client, pty)
      BY RelayTypes DEF IInv, Good
    <2>2. client.shown \in Seq(Nat) /\ DOMAIN client.shown = 1 .. Len(client.shown)
      BY <2>1, LenProperties DEF ClientType
    <2>3. client.shown = [i \in DOMAIN client.shown |-> client.shown[i]]
      BY <2>2
    <2> QED BY <2>1, <2>2, <2>3 DEF StreamIsExact, ClientOK
  <1> QED BY <1>1, PtyInvariance, PTL

\* While a delivery is open the relay keeps, in the record or in the queue, all output
\* after what its client has shown, so a recovery finds it.
THEOREM PtyNothingReclaimedEarly == Spec => []NothingReclaimedEarly
  <1>1. IInv => NothingReclaimedEarly
    <2> DEFINE d == relay.record
    <2> SUFFICES ASSUME IInv, d.token # 0, d.state # "closed",
                        d.token = client.checkpoint.token
                 PROVE  /\ d.credited <= client.checkpoint.end
                        /\ d.held = [i \in 1 .. d.received - d.credited |-> d.credited + i]
                        /\ Len(client.shown) = client.checkpoint.end
                        /\ QueueIsOutputAfter(relay, pty, d.received)
      BY DEF NothingReclaimedEarly
    <2>1. Good(relay, client, pty) /\ QueueOK(relay, pty) /\ d \in RecordType
      BY RelayTypes DEF IInv, Good
    <2>2. d.credited <= client.checkpoint.end
      BY <2>1 DEF Good, KeepOK
    <2>3. d.held = [i \in 1 .. d.received - d.credited |-> d.credited + i]
      <3>1. /\ Len(d.held) = d.received - d.credited
            /\ \A i \in 1 .. Len(d.held) : d.held[i] = d.credited + i
        BY <2>1 DEF Good, RecordOK
      <3>2. d.held \in Seq(1 .. MaxUnits) /\ DOMAIN d.held = 1 .. Len(d.held)
        BY <2>1, RecordTypes, LenProperties
      <3>3. d.held = [i \in DOMAIN d.held |-> d.held[i]]
        BY <3>2
      <3> HIDE DEF d
      <3> QED BY <3>1, <3>2, <3>3
    <2>4. Len(client.shown) = client.checkpoint.end
      BY <2>1 DEF Good, ClientOK
    <2>5. QueueIsOutputAfter(relay, pty, d.received)
      BY <2>1 DEF QueueOK
    <2> QED BY <2>2, <2>3, <2>4, <2>5
  <1> QED BY <1>1, PtyInvariance, PTL

\* A subscriber hears of the exit at most once, and the owner once on a connection.
THEOREM PtyExitOnce == Spec => []ExitOnce
  <1>1. IInv => ExitOnce
    <2> SUFFICES ASSUME IInv
                 PROVE  ExitOnce
      OBVIOUS
    <2> DEFINE w == relay.wire
               S == {i \in DOMAIN w : w[i].kind = "exit"}
    <2>1. /\ ExitOK(relay, client, pty) /\ w \in Seq(Frame) /\ client.exits \in Nat
      BY RelayTypes DEF IInv, Good, ClientType
    <2>2. \A i : i \in S <=> IsExit(w, i)
      BY <2>1, LenProperties DEF IsExit
    <2>3. relay.subscriber <= 1 /\ client.exits <= 1
      BY <2>1 DEF ExitOK
    <2>4. \A i \in S : client.exits = 0 /\ \A j \in S : i = j
      BY <2>1, <2>2 DEF ExitOK, IsExit
    <2> HIDE DEF S
    <2>5. client.exits + Cardinality(S) <= 1
      <3>1. CASE S = {}
        BY <2>1, <2>3, <3>1, FS_EmptySet
      <3>2. CASE S # {}
        <4>1. PICK i \in S : TRUE
          BY <3>2
        <4>2. S = {i} /\ client.exits = 0
          BY <2>4, <4>1
        <4>3. Cardinality({i}) = 1
          BY FS_Singleton
        <4> QED BY <4>2, <4>3
      <3> QED BY <3>1, <3>2
    <2> QED BY <2>3, <2>5 DEF ExitOnce, S
  <1> QED BY <1>1, PtyInvariance, PTL

\* Only a refused frame leaves a frame behind that could go: every event that lets a
\* frame go sends one.
THEOREM PtySendsWhatItCan == Spec => []SendsWhatItCan
  <1>1. IInv => SendsWhatItCan
    <2> SUFFICES ASSUME IInv, Stalled
                 PROVE  refusals > 0
      BY DEF SendsWhatItCan
    <2> DEFINE d == relay.record
    <2>1. d \in RecordType /\ (Waits(relay) => refusals > 0) /\ Window \in Nat
      BY RelayTypes, Constants DEF IInv, Good
    <2>2. /\ Reaches(relay) /\ ~d.activating /\ ~d.restore /\ d.pending = 0
          /\ FrameEnd(relay, Free) # 0
      BY DEF Stalled
    <2>3. /\ d.state # "closed" /\ ~(d.sent >= d.received)
          /\ ~(Window - (d.sent - d.credited) <= 0)
      BY <2>2 DEF FrameEnd
    <2>4. d.sent \in Nat /\ d.received \in Nat /\ d.credited \in Nat
      BY <2>1, RecordTypes
    <2>5. d.sent < d.received /\ d.sent - d.credited < Window
      BY <2>1, <2>3, <2>4
    <2> QED BY <2>1, <2>2, <2>3, <2>5 DEF Waits
  <1> QED BY <1>1, PtyInvariance, PTL

-----------------------------------------------------------------------------
(* The stream that the owner sees *)

\* x shows what c shows and perhaps more, and no more once c was told that this is all.
Grows(c, x) ==
  /\ Len(c.shown) <= Len(x.shown)
  /\ c.exitBy = "source" => x.shown = c.shown /\ x.exitBy = "source"

LEMMA SameViewGrows ==
  ASSUME NEW c \in ClientType, NEW x, x.shown = c.shown, x.exitBy = c.exitBy
  PROVE  Grows(c, x)
  <1>1. Len(c.shown) \in Nat
    BY LenProperties DEF ClientType
  <1> QED BY <1>1 DEF Grows

LEMMA MoreShownGrows ==
  ASSUME NEW c \in ClientType, c.exitBy # "source", NEW more \in Seq(Nat),
         NEW x, x.shown = c.shown \o more
  PROVE  Grows(c, x)
  <1>1. c.shown \in Seq(Nat) /\ Len(c.shown) \in Nat /\ Len(more) \in Nat
    BY LenProperties DEF ClientType
  <1>2. Len(c.shown \o more) = Len(c.shown) + Len(more)
    BY <1>1, ConcatProperties
  <1> QED BY <1>1, <1>2 DEF Grows

\* The end of a recovery shows what was kept back.
LEMMA CompleteGrows ==
  ASSUME NEW c \in ClientType, c.exitBy # "source", NEW x, x.shown = TakeComplete(c).shown
  PROVE  Grows(c, x)
  <1>1. TakeComplete(c).shown = c.shown \o c.buffer.units /\ c.buffer.units \in Seq(Nat)
    BY DEF TakeComplete, ClientType
  <1> QED BY <1>1, MoreShownGrows

\* No frame takes anything back: a replay starts where the output ends, so it shows at
\* least what was shown, and a client that was told the end listens to nothing.
LEMMA ReceiveGrows ==
  ASSUME NEW r, NEW c, NEW p, Good(r, c, p), r.wire # <<>>
  PROVE  Grows(c, Take(c, r.wire[1]))
  <1> DEFINE f == r.wire[1]
             x == Take(c, f)
  <1>1. c \in ClientType /\ f \in Frame /\ ClientOK(c, p)
    BY RelayTypes, TailIs DEF Good
  <1>2. c.mode # "exited" => c.exitBy # "source"
    BY <1>1 DEF ClientOK
  <1>3. CASE f.kind = "data"
    <2>1. x = TakeData(c, f) /\ f.units \in Seq(Nat)
      BY <1>1, <1>3 DEF Take, Frame
    <2>2. CASE x.shown = c.shown /\ x.exitBy = c.exitBy
      BY <1>1, <2>2, SameViewGrows
    <2>3. CASE c.mode = "live" /\ x = Show(c, f.units, EndOf(f))
      <3>1. x.shown = c.shown \o f.units
        BY <1>1, <2>3 DEF Show, ClientType
      <3> QED BY <1>1, <1>2, <2>1, <2>3, <3>1, MoreShownGrows
    <2> QED BY <1>1, <2>1, <2>2, <2>3 DEF TakeData, EndOf, ClientType
  <1>4. CASE f.kind = "opened"
    <2>1. c.mode = "asking" /\ Len(c.shown) <= f.start /\ f.start \in Nat
      BY <1>4, AnswerComes DEF Answer
    <2>2. x.shown = [i \in 1 .. f.start |-> i]
      BY <1>1, <1>4 DEF Take, ClientType
    <2>3. Len(x.shown) = f.start
      BY <2>1, <2>2, UnitsUpTo
    <2> QED BY <1>2, <2>1, <2>3 DEF Grows
  <1>5. CASE f.kind \in {"recovery", "restore"}
    <2>1. x.shown = c.shown /\ x.exitBy = c.exitBy
      BY <1>1, <1>5 DEF Take, ClientType
    <2> QED BY <1>1, <2>1, SameViewGrows
  <1>6. CASE f.kind = "complete"
    <2>1. x = IF c.mode = "recovering" /\ f.token = c.token /\ c.next = c.end
              THEN TakeComplete(c) ELSE c
      BY <1>6 DEF Take
    <2>2. CASE c.mode = "recovering" /\ x = TakeComplete(c)
      BY <1>1, <1>2, <2>2, CompleteGrows
    <2> QED BY <1>1, <2>1, <2>2, SameViewGrows
  <1>7. CASE f.kind = "exit"
    <2> DEFINE e == IF c.mode = "recovering" /\ c.next = c.end THEN TakeComplete(c) ELSE c
    <2>1. e \in ClientType
      <3>1. p \in Program
        BY RelayTypes DEF Good
      <3> QED BY <1>1, <3>1, CompletedIs
    <2>2. x.shown = e.shown /\ (c.mode = "exited" => x.exitBy = e.exitBy)
      BY <1>7, <2>1 DEF Take, ClientType
    <2>3. CASE c.mode = "recovering" /\ e = TakeComplete(c)
      BY <1>1, <1>2, <2>2, <2>3, CompleteGrows
    <2>4. CASE e = c
      BY <1>1, <1>2, <2>2, <2>4, LenProperties DEF Grows, ClientType
    <2> QED BY <2>3, <2>4
  <1> QED BY <1>1, <1>3, <1>4, <1>5, <1>6, <1>7 DEF Frame

\* What a step does to the program and to the view of the owner.
LEMMA ViewStep ==
  ASSUME IInv, [Next]_vars
  PROVE  \/ /\ client' = client /\ pty.alive
            /\ \/ \E n \in 1 .. 2 : pty' = [pty EXCEPT !.written = @ + n]
               \/ pty' = [pty EXCEPT !.alive = FALSE]
         \/ pty' = pty /\ Grows(client, client')
  <1> DEFINE Seen == \/ /\ client' = client /\ pty.alive
                        /\ \/ \E n \in 1 .. 2 : pty' = [pty EXCEPT !.written = @ + n]
                           \/ pty' = [pty EXCEPT !.alive = FALSE]
                     \/ pty' = pty /\ Grows(client, client')
  <1> SUFFICES Seen
    OBVIOUS
  <1>1. client \in ClientType /\ ClientOK(client, pty) /\ Good(relay, client, pty)
    BY RelayTypes DEF IInv, Good
  <1>2. CASE UNCHANGED vars
    BY <1>1, <1>2, SameViewGrows DEF vars
  <1>3. CASE \E n \in 1 .. 2 : PtyOutput(n)
    BY <1>3 DEF PtyOutput
  <1>4. CASE Connect \/ Disconnect
    <2>1. pty' = pty /\ client'.shown = client.shown /\ client'.exitBy = client.exitBy
      BY <1>1, <1>4 DEF Connect, Disconnect, ClientType
    <2> QED BY <1>1, <2>1, SameViewGrows
  <1>5. CASE Attach
    <2>1. pty' = pty /\ client.mode \in {"reconnected", "detached"}
      BY <1>5 DEF Attach
    <2>2. client'.shown = client.shown
      BY <1>1, <1>5 DEF Attach, ClientType
    <2>3. client.exitBy # "source" /\ Len(client.shown) \in Nat
      BY <1>1, <2>1, LenProperties DEF ClientOK, ClientType
    <2> QED BY <2>1, <2>2, <2>3 DEF Grows
  <1>6. CASE Receive
    <2>1. relay.wire # <<>> /\ relay.wire \in Seq(Frame)
      BY <1>1, <1>6, RelayTypes DEF Receive, Good
    <2>2. client' = Take(client, relay.wire[1]) /\ pty' = pty
      BY <1>6, <2>1, TailIs DEF Receive
    <2> QED BY <1>1, <2>1, <2>2, ReceiveGrows
  <1>7. ASSUME NEW room \in Rooms, PtyExit(room)
        PROVE  Seen
    BY <1>7 DEF PtyExit
  <1>8. ASSUME NEW room \in Rooms,
               \/ FlushPendingOutput(room) \/ WriteSettled(room)
               \/ CompletionSettled(room) \/ ExitSettled(room) \/ ReplySettled(room)
               \/ LegacyCapacity(room) \/ GraceExpiry(room) \/ AbandonRecovery(room)
               \/ \E end \in client.owed : AckData(end, room)
        PROVE  Seen
    <2>1. pty' = pty /\ client'.shown = client.shown /\ client'.exitBy = client.exitBy
      BY <1>1, <1>8 DEF FlushPendingOutput, WriteSettled, CompletionSettled, ExitSettled,
         ReplySettled, LegacyCapacity, GraceExpiry, AbandonRecovery, AckData, ClientType
    <2> QED BY <1>1, <2>1, SameViewGrows
  <1> HIDE DEF Seen
  <1> QED BY <1>2, <1>3, <1>4, <1>5, <1>6, <1>7, <1>8 DEF Next

\* The delivery implements TerminalStream.  Every step is one of the program, or shows
\* its owner more of the output and perhaps that this was all, or is not seen from
\* outside: a retry, a rollback, a lost connection, a recovery under way.
THEOREM PtyImplementsStream == Spec => ImplementsStream
  <1>1. Init => Stream!Init
    BY DEF Init, Stream!Init
  <1>2. IInv /\ [Next]_vars =>
          [Stream!Next]_<<pty.written, pty.alive, client.shown, client.exitBy = "source">>
    <2> SUFFICES ASSUME IInv, [Next]_vars
                 PROVE  [Stream!Next]_<<pty.written, pty.alive, client.shown,
                                        client.exitBy = "source">>
      OBVIOUS
    <2>1. pty \in Program /\ pty.written \in Nat
      BY RelayTypes, Constants DEF IInv, Good, Program, Positions
    <2>2. CASE /\ client' = client /\ pty.alive
               /\ \E n \in 1 .. 2 : pty' = [pty EXCEPT !.written = @ + n]
      <3>1. PICK n \in 1 .. 2 : pty' = [pty EXCEPT !.written = @ + n]
        BY <2>2
      <3>2. pty'.written = pty.written + n /\ pty'.alive = pty.alive
        BY <2>1, <3>1 DEF Program
      <3>3. pty'.written \in Nat /\ pty'.written > pty.written
        BY <2>1, <3>2
      <3>4. Stream!Produce
        BY <2>2, <3>2, <3>3 DEF Stream!Produce
      <3> QED BY <3>4 DEF Stream!Next
    <2>3. CASE client' = client /\ pty.alive /\ pty' = [pty EXCEPT !.alive = FALSE]
      <3>1. pty'.written = pty.written /\ pty'.alive = FALSE
        BY <2>1, <2>3 DEF Program
      <3> QED BY <2>3, <3>1 DEF Stream!Next, Stream!Stop
    <2>4. CASE pty' = pty /\ Grows(client, client')
      <3>1. CASE client.exitBy = "source"
        BY <2>4, <3>1 DEF Grows
      <3>2. CASE client.exitBy # "source"
        <4> DEFINE n == Len(client'.shown)
        <4>1. client' \in ClientType /\ ClientOK(client', pty')
          BY NextIInv, RelayTypes DEF IInv, Good
        <4>2. /\ client'.shown \in Seq(Nat) /\ n \in Nat /\ n <= pty.written
              /\ \A i \in 1 .. n : client'.shown[i] = i
              /\ DOMAIN client'.shown = 1 .. n
              /\ Len(client.shown) \in Nat /\ Len(client.shown) <= n
          <5>1. client \in ClientType
            BY RelayTypes DEF IInv, Good
          <5> QED BY <2>4, <4>1, <5>1, LenProperties DEF ClientOK, ClientType, Grows
        <4>3. client'.shown = [i \in 1 .. n |-> i]
          <5>1. client'.shown = [i \in DOMAIN client'.shown |-> client'.shown[i]]
            BY <4>2
          <5> QED BY <4>2, <5>1
        <4>4. client'.exitBy = "source" => ~pty.alive /\ n = pty.written
          BY <2>4, <4>1 DEF ClientOK
        <4>5. n \in Len(client.shown) .. pty.written
          BY <2>1, <4>2
        <4> HIDE DEF n
        <4>6. Stream!See
          BY <2>4, <3>2, <4>3, <4>4, <4>5 DEF Stream!See
        <4> QED BY <4>6 DEF Stream!Next
      <3> QED BY <3>1, <3>2
    <2> QED BY <2>2, <2>3, <2>4, ViewStep
  <1> QED BY <1>1, <1>2, PtyInvariance, PTL DEF Spec, ImplementsStream, Stream!Spec

=============================================================================
