-------------------------- MODULE RunMailboxProof --------------------------
(***************************************************************************)
(* Proofs about RunMailbox, for any number of runs, terminals, messages,   *)
(* deliveries and checks: the inductive invariant, the safety properties,  *)
(* and the refinement of Mailbox.                                          *)
(***************************************************************************)
EXTENDS RunMailbox, FiniteSetTheorems, TLAPS

-----------------------------------------------------------------------------
(* The batch a delivery takes *)

\* FirstOf(S) has no older message of S beside it.
LEMMA FirstOfIsOldest ==
    ASSUME NEW S \in SUBSET Message, NEW m \in FirstOf(S), NEW n \in S, n < m
    PROVE  n \in FirstOf(S)
  <1> DEFINE Before(k) == {j \in S : j < k}
  <1>1. IsFiniteSet(S)
    <2>1. IsFiniteSet(Message)
      BY FS_Interval, MailboxAssumption DEF Message
    <2> QED BY <2>1, FS_Subset
  <1>2. m \in S /\ m \in Nat /\ n \in Nat /\ S \subseteq Nat
    BY DEF FirstOf, Message
  <1>3. Before(n) \subseteq Before(m) /\ Before(m) \subseteq S
    <2>1. ASSUME NEW j \in S, j < n
          PROVE  j < m
      BY <1>2, <2>1
    <2> QED BY <2>1
  <1>4. IsFiniteSet(Before(m)) /\ IsFiniteSet(Before(n))
    BY <1>1, <1>3, FS_Subset
  <1>5. /\ Cardinality(Before(n)) \in Nat /\ Cardinality(Before(m)) \in Nat
        /\ Cardinality(Before(n)) <= Cardinality(Before(m))
    BY <1>3, <1>4, FS_Subset, FS_CardinalityType
  <1>6. Cardinality(Before(m)) < Limit
    BY DEF FirstOf
  <1>7. Cardinality(Before(n)) < Limit
    BY <1>5, <1>6, MailboxAssumption
  <1> QED BY <1>7 DEF FirstOf

LEMMA FirstOfIsSubset ==
    ASSUME NEW S
    PROVE  FirstOf(S) \subseteq S
  BY DEF FirstOf

-----------------------------------------------------------------------------
(* Deliveries: acknowledging and reading *)

DeliveryRow == [run : Run \cup {NoRun}, gen : 0..MaxGeneration, messages : SUBSET Message,
                status : {"absent", "outstanding", "acknowledged", "fenced"}]

LEMMA MessageHasOneRun ==
    ASSUME NEW q \in Run, NEW r \in Run, q # r
    PROVE  MailOf(q) \cap MailOf(r) = {}
  BY DEF MailOf

\* What acknowledgeRunDelivery leaves behind is a ledger again.
LEMMA AckLedger ==
    ASSUME TypeOK, Ledger(deliveries, read), ReceivedExists,
           NEW r \in Run, NEW a \in Ack, Acks(r, a)
    PROVE  /\ DeliveriesAfter(a) \in [Delivery -> DeliveryRow]
           /\ ReadAfter(a) \in SUBSET Message
           /\ read \subseteq ReadAfter(a)
           /\ Ledger(DeliveriesAfter(a), ReadAfter(a))
           /\ \A d \in Delivery :
                 /\ DeliveriesAfter(a)[d].run = deliveries[d].run
                 /\ DeliveriesAfter(a)[d].messages = deliveries[d].messages
                 /\ DeliveriesAfter(a)[d].status = "absent" <=> deliveries[d].status = "absent"
  <1>1. CASE ~Acknowledges(a)
    BY <1>1 DEF DeliveriesAfter, ReadAfter, TypeOK, DeliveryRow
  <1>2. CASE Acknowledges(a)
    <2> DEFINE dl == DeliveriesAfter(a)
               rd == ReadAfter(a)
    <2>1. /\ a \in Delivery /\ deliveries[a].run = r
          /\ deliveries[a].status = "outstanding"
      BY <1>2 DEF Acks, Acknowledges, TypeOK, ReceivedExists, DeliveryRow
    <2>2. /\ dl = [deliveries EXCEPT ![a].status = "acknowledged"]
          /\ rd = read \cup deliveries[a].messages
      BY <1>2 DEF DeliveriesAfter, ReadAfter
    <2>3. deliveries \in [Delivery -> DeliveryRow] /\ read \in SUBSET Message
      BY DEF TypeOK, DeliveryRow
    <2>4. dl \in [Delivery -> DeliveryRow] /\ rd \in SUBSET Message /\ read \subseteq rd
      BY <2>1, <2>2, <2>3 DEF DeliveryRow
    <2>5. \A d \in Delivery :
             /\ dl[d].run = deliveries[d].run
             /\ dl[d].gen = deliveries[d].gen
             /\ dl[d].messages = deliveries[d].messages
             /\ dl[d].status = IF d = a THEN "acknowledged" ELSE deliveries[d].status
      BY <2>1, <2>2, <2>3 DEF DeliveryRow
    <2> HIDE DEF dl, rd
    <2>6. DeliveriesHaveRows(dl) /\ OutstandingHasGen(dl) /\ OneOutstanding(dl)
      BY <2>1, <2>5
      DEF Ledger, DeliveriesHaveRows, OutstandingHasGen, OneOutstanding, Outstanding
    <2>7. AcknowledgedIsRead(dl, rd)
      BY <2>1, <2>2, <2>5 DEF Ledger, AcknowledgedIsRead
    <2>8. BatchIsOldest(dl, rd)
      BY <2>1, <2>2, <2>5 DEF Ledger, BatchIsOldest, Live
    <2>9. Disjoint(dl)
      <3>1. ASSUME NEW d \in Delivery, d # a, Live(deliveries, d)
            PROVE  deliveries[d].messages \cap deliveries[a].messages = {}
        <4>1. CASE deliveries[d].status = "acknowledged"
          BY <2>1, <3>1, <4>1 DEF Ledger, Disjoint, Live
        <4>2. CASE deliveries[d].status = "outstanding"
          <5>1. deliveries[d].run # r
            BY <2>1, <3>1, <4>2 DEF Ledger, OneOutstanding, Outstanding
          <5>2. /\ deliveries[d].run \in Run
                /\ deliveries[d].messages \subseteq MailOf(deliveries[d].run)
                /\ deliveries[a].messages \subseteq MailOf(r)
            BY <2>1, <4>2 DEF Ledger, DeliveriesHaveRows
          <5> QED BY <5>1, <5>2, MessageHasOneRun
        <4> QED BY <3>1, <4>1, <4>2 DEF Live
      <3> QED BY <2>1, <2>5, <3>1 DEF Ledger, Disjoint, Live
    <2> QED BY <2>1, <2>4, <2>5, <2>6, <2>7, <2>8, <2>9 DEF Ledger, dl, rd
  <1> QED BY <1>1, <1>2

\* And so is what getOrCreateRunDelivery leaves behind.
LEMMA DeliverLedger ==
    ASSUME NEW dl \in [Delivery -> DeliveryRow], NEW rd \in SUBSET Message,
           TypeOK, Ledger(dl, rd), NEW r \in Run, NEW wake, NEW d \in Delivery,
           Delivers(r, wake, rd, dl, d)
    PROVE  /\ deliveries' \in [Delivery -> DeliveryRow]
           /\ Ledger(deliveries', rd)
           /\ deliveries'[d].status = "outstanding" /\ deliveries'[d].run = r
           /\ \A e \in Delivery :
                 dl[e].status # "absent" => deliveries'[e] = dl[e]
  <1>1. CASE Outstanding(dl, d, r) /\ deliveries' = dl
    BY <1>1 DEF Outstanding
  <1>2. CASE /\ \A e \in Delivery : ~Outstanding(dl, e, r)
             /\ IsNextDelivery(dl, d)
             /\ deliveries' = [dl EXCEPT ![d] = [run |-> r, gen |-> runs[r].gen,
                                                messages |-> FirstOf(Unread(r, rd)),
                                                status |-> "outstanding"]]
    <2> DEFINE batch == FirstOf(Unread(r, rd))
               new == deliveries'
    <2>1. batch \subseteq MailOf(r) /\ batch \cap rd = {} /\ batch \in SUBSET Message
      BY FirstOfIsSubset DEF Unread, MailOf
    <2>2. \A m \in batch, n \in MailOf(r) : n < m => n \in batch \cup rd
      <3>1. Unread(r, rd) \in SUBSET Message
        BY DEF Unread, MailOf
      <3> QED BY <3>1, FirstOfIsOldest DEF Unread
    <2>3. /\ dl[d].status = "absent"
          /\ \A e \in Delivery : ~(dl[e].run = r /\ dl[e].status = "outstanding")
      BY <1>2 DEF IsNextDelivery, Outstanding
    <2> HIDE DEF batch
    <2>4. new = [dl EXCEPT ![d] = [run |-> r, gen |-> runs[r].gen, messages |-> batch,
                                   status |-> "outstanding"]]
      BY <1>2 DEF batch
    <2>5. runs[r].gen \in 0..MaxGeneration
      BY DEF TypeOK
    <2>6. new \in [Delivery -> DeliveryRow]
      BY <2>1, <2>4, <2>5 DEF DeliveryRow
    <2>7. /\ new[d].status = "outstanding" /\ new[d].run = r
          /\ new[d].gen = runs[r].gen /\ new[d].messages = batch
          /\ \A e \in Delivery \ {d} : new[e] = dl[e]
      BY <2>4
    <2> HIDE DEF new
    <2>8. DeliveriesHaveRows(new) /\ OutstandingHasGen(new) /\ OneOutstanding(new)
      <3>1. DeliveriesHaveRows(new) /\ OutstandingHasGen(new)
        BY <2>1, <2>7 DEF Ledger, DeliveriesHaveRows, OutstandingHasGen
      <3>2. OneOutstanding(new)
        BY <2>3, <2>7 DEF Ledger, OneOutstanding, Outstanding
      <3> QED BY <3>1, <3>2
    <2>9. AcknowledgedIsRead(new, rd)
      BY <2>7 DEF Ledger, AcknowledgedIsRead
    <2>10. BatchIsOldest(new, rd)
      BY <2>2, <2>7 DEF Ledger, BatchIsOldest, Live
    <2>11. Disjoint(new)
      <3>1. \A e \in Delivery \ {d} :
               new[e].status = "acknowledged" => new[e].messages \cap batch = {}
        BY <2>1, <2>7 DEF Ledger, AcknowledgedIsRead
      <3> QED BY <2>7, <3>1 DEF Ledger, Disjoint, Live
    <2> QED BY <2>3, <2>6, <2>7, <2>8, <2>9, <2>10, <2>11 DEF Ledger, new
  <1> QED BY <1>1, <1>2 DEF Delivers

-----------------------------------------------------------------------------
(* The invariant: steps that only read *)

CheckRow == [pc : {"idle", "waiting", "notified"}, run : Run \cup {NoRun},
             gen : 0..MaxGeneration, wake : SUBSET MessageType]

LEMMA LedgerNext ==
    ASSUME UNCHANGED <<runs, messages>>, Ledger(deliveries', read')
    PROVE  Ledger(deliveries, read)'
  BY DEF Ledger, DeliveriesHaveRows, OutstandingHasGen, OneOutstanding, AcknowledgedIsRead,
         BatchIsOldest, Disjoint, Live, Outstanding, MailOf

\* What a step may make of a suspended check.
CheckMoves(c) ==
    \/ checks'[c] = checks[c]
    \/ checks'[c].pc = "idle"
    \/ checks[c].pc = "waiting" /\ checks'[c] = [checks[c] EXCEPT !.pc = "notified"]
    \/ /\ checks'[c].pc = "waiting"
       /\ checks'[c].run \in Run
       /\ checks'[c].gen = runs[checks'[c].run].gen
       /\ ~Wakes(checks'[c].run, checks'[c].wake, read')

LEMMA ReadingStep ==
    ASSUME IInv, UNCHANGED <<runs, messages>>,
           finished' \in SUBSET Worker, finished \subseteq finished',
           deliveries' \in [Delivery -> DeliveryRow],
           read' \in SUBSET Message, read \subseteq read',
           Ledger(deliveries', read'),
           received' \in SUBSET Delivery, ReceivedExists',
           checks' \in [Check -> CheckRow],
           \A c \in Check : CheckMoves(c)
    PROVE  IInv'
  <1>1. TypeOK'
    BY DEF IInv, TypeOK, DeliveryRow, CheckRow
  <1>2. OneRunPerPane' /\ MessagesAreRows' /\ NoGaps'
    BY DEF IInv, OneRunPerPane, MessagesAreRows, NoGaps, IsMessage
  <1>3. Ledger(deliveries, read)'
    BY LedgerNext
  <1>4. ReportedIsFinished' /\ SupersededIsRead'
    BY DEF IInv, ReportedIsFinished, SupersededIsRead, Superseded, Reported
  <1>5. checks \in [Check -> CheckRow]
    BY DEF IInv, TypeOK, CheckRow
  <1>6. ASSUME NEW c \in Check
        PROVE  /\ checks'[c].pc # "idle" => checks'[c].run \in Run
               /\ checks'[c].pc = "waiting" => checks'[c].gen = runs[checks'[c].run].gen
               /\ checks'[c].pc = "waiting" => ~Wakes(checks'[c].run, checks'[c].wake, read')
    <2>1. CASE checks'[c] = checks[c]
      BY <2>1 DEF IInv, SuspendedHasRun, WaiterIsCurrent, IsCurrent, NobodyWaitsBesideMail,
                  Wakes, Unread
    <2>2. CASE checks[c].pc = "waiting" /\ checks'[c] = [checks[c] EXCEPT !.pc = "notified"]
      BY <1>5, <2>2 DEF IInv, SuspendedHasRun, CheckRow
    <2> QED BY <2>1, <2>2 DEF CheckMoves
  <1>7. SuspendedHasRun' /\ WaiterIsCurrent' /\ NobodyWaitsBesideMail'
    BY <1>6 DEF SuspendedHasRun, WaiterIsCurrent, IsCurrent, NobodyWaitsBesideMail, Wakes,
                Unread, MailOf
  <1> QED BY <1>1, <1>2, <1>3, <1>4, <1>7 DEF IInv

LEMMA NotifiedMoves ==
    ASSUME IInv, NEW r, NEW t, checks' = Notified(r, t)
    PROVE  checks' \in [Check -> CheckRow] /\ \A c \in Check : CheckMoves(c)
  <1>1. checks \in [Check -> CheckRow]
    BY DEF IInv, TypeOK, CheckRow
  <1>2. \A c \in Check :
           \/ checks'[c] = checks[c]
           \/ checks[c].pc = "waiting" /\ checks'[c] = [checks[c] EXCEPT !.pc = "notified"]
    BY DEF Notified, Waiting
  <1>3. \A k \in CheckRow : [k EXCEPT !.pc = "notified"] \in CheckRow
    BY DEF CheckRow
  <1>4. checks' \in [Check -> CheckRow]
    BY <1>1, <1>3 DEF Notified
  <1> QED BY <1>2, <1>4 DEF CheckMoves

LEMMA IdleMoves ==
    ASSUME IInv,
           \/ \E c \in Check : Ends(c)
           \/ checks' = [c \in Check |-> Idle]
           \/ \E S : checks' = Cancelled(S)
           \/ UNCHANGED checks
    PROVE  checks' \in [Check -> CheckRow] /\ \A c \in Check : CheckMoves(c)
  <1>1. Idle \in CheckRow /\ Idle.pc = "idle"
    BY MailboxAssumption DEF Idle, CheckRow, NoRun
  <1>2. checks \in [Check -> CheckRow]
    BY DEF IInv, TypeOK, CheckRow
  <1>3. \A c \in Check : checks'[c] = checks[c] \/ checks'[c] = Idle
    BY <1>2 DEF Ends, Cancelled
  <1>4. checks' \in [Check -> CheckRow]
    BY <1>1, <1>2 DEF Ends, Cancelled
  <1> QED BY <1>1, <1>3, <1>4 DEF CheckMoves

LEMMA SettleStep ==
    ASSUME IInv, NEW w \in Worker, Settle(w)
    PROVE  IInv'
  <1>1. checks' \in [Check -> CheckRow] /\ \A c \in Check : CheckMoves(c)
    BY IdleMoves DEF Settle
  <1> QED BY <1>1, ReadingStep DEF Settle, IInv, TypeOK, DeliveryRow, ReceivedExists

LEMMA ReadGrowsLedger ==
    ASSUME Ledger(deliveries, read), NEW rd, read \subseteq rd
    PROVE  Ledger(deliveries, rd)
  BY DEF Ledger, AcknowledgedIsRead, BatchIsOldest

LEMMA ReplyStep ==
    ASSUME IInv, NEW m \in Message, Reply(m)
    PROVE  IInv'
  <1>1. checks' \in [Check -> CheckRow] /\ \A c \in Check : CheckMoves(c)
    BY IdleMoves DEF Reply
  <1>2. read' = read \cup {m} /\ Ledger(deliveries, read')
    BY ReadGrowsLedger DEF Reply, MarkRead, IInv
  <1> QED BY <1>1, <1>2, ReadingStep DEF Reply, IInv, TypeOK, DeliveryRow, ReceivedExists

LEMMA ImportAgainStep ==
    ASSUME IInv, NEW m \in Message, ImportAgain(m)
    PROVE  IInv'
  <1>1. checks' \in [Check -> CheckRow] /\ \A c \in Check : CheckMoves(c)
    BY NotifiedMoves DEF ImportAgain
  <1> QED BY <1>1, ReadingStep DEF ImportAgain, IInv, TypeOK, DeliveryRow, ReceivedExists

\* The steps that change no row at all.
LEMMA QuietStep ==
    ASSUME IInv,
           \/ Restart
           \/ \E c \in Check : TimesOut(c) \/ WokenIsFenced(c) \/ WokenFindsNothing(c)
    PROVE  IInv' /\ UNCHANGED <<runs, messages, read, deliveries, finished, received>>
  <1>1. UNCHANGED <<runs, messages, read, deliveries, finished, received>>
    BY DEF Restart, TimesOut, WokenIsFenced, WokenFindsNothing, DeliversNothing
  <1>2. checks' \in [Check -> CheckRow] /\ \A c \in Check : CheckMoves(c)
    BY IdleMoves DEF Restart, TimesOut, WokenIsFenced, WokenFindsNothing
  <1> QED BY <1>1, <1>2, ReadingStep DEF IInv, TypeOK, DeliveryRow, ReceivedExists

-----------------------------------------------------------------------------
(* The invariant: checks *)

\* What an acknowledgement and, when it is read at once, delivery d leave.
LEMMA CheckAnswersStep ==
    ASSUME IInv, NEW h \in Handle, NEW r \in Run, NEW a \in Ack, NEW wake, NEW d \in Delivery,
           CheckAnswers(h, r, a, wake, d)
    PROVE  /\ IInv'
           /\ Ledger(deliveries', read')
           /\ deliveries'[d].run = r /\ deliveries'[d].status = "outstanding"
           /\ \A e \in Delivery : deliveries[e].status # "absent"
                 => /\ deliveries'[e].run = deliveries[e].run
                    /\ deliveries'[e].messages = deliveries[e].messages
  <1> DEFINE dl == DeliveriesAfter(a)
             rd == ReadAfter(a)
  <1>1. /\ dl \in [Delivery -> DeliveryRow] /\ rd \in SUBSET Message /\ read \subseteq rd
        /\ Ledger(dl, rd)
        /\ \A e \in Delivery : /\ dl[e].run = deliveries[e].run
                               /\ dl[e].messages = deliveries[e].messages
                               /\ dl[e].status = "absent" <=> deliveries[e].status = "absent"
    BY AckLedger DEF CheckAnswers, IInv
  <1>2. read' = rd /\ Delivers(r, wake, rd, dl, d)
    BY DEF CheckAnswers
  <1> HIDE DEF dl, rd
  <1>3. /\ deliveries' \in [Delivery -> DeliveryRow] /\ Ledger(deliveries', rd)
        /\ deliveries'[d].status = "outstanding" /\ deliveries'[d].run = r
        /\ \A e \in Delivery : dl[e].status # "absent" => deliveries'[e] = dl[e]
    BY <1>1, <1>2, DeliverLedger DEF IInv
  <1>4. received' \in SUBSET Delivery /\ ReceivedExists'
    BY <1>1, <1>3 DEF CheckAnswers, MayReceive, IInv, TypeOK, ReceivedExists
  <1>5. checks' \in [Check -> CheckRow] /\ \A c \in Check : CheckMoves(c)
    BY IdleMoves DEF CheckAnswers
  <1>6. UNCHANGED <<runs, messages, finished>> /\ finished' \in SUBSET Worker
    BY DEF CheckAnswers, IInv, TypeOK
  <1>7. IInv'
    BY <1>1, <1>2, <1>3, <1>4, <1>5, <1>6, ReadingStep
  <1> QED BY <1>1, <1>2, <1>3, <1>7

LEMMA AckedStep ==
    ASSUME IInv, NEW r \in Run, NEW a \in Ack, Acks(r, a),
           read' = ReadAfter(a), deliveries' = DeliveriesAfter(a),
           UNCHANGED <<runs, messages, finished, received>>,
           checks' \in [Check -> CheckRow], \A c \in Check : CheckMoves(c)
    PROVE  IInv'
  <1>1. /\ deliveries' \in [Delivery -> DeliveryRow] /\ read' \in SUBSET Message
        /\ read \subseteq read' /\ Ledger(deliveries', read')
        /\ \A e \in Delivery : deliveries'[e].status = "absent" <=> deliveries[e].status = "absent"
    BY AckLedger DEF IInv
  <1>2. received' \in SUBSET Delivery /\ ReceivedExists' /\ finished' \in SUBSET Worker
    BY <1>1 DEF IInv, TypeOK, ReceivedExists
  <1> QED BY <1>1, <1>2, ReadingStep

LEMMA CheckAcksStep ==
    ASSUME IInv, NEW h \in Handle, NEW r \in Run, NEW a \in Ack, CheckAcks(h, r, a)
    PROVE  IInv'
  <1>1. checks' \in [Check -> CheckRow] /\ \A c \in Check : CheckMoves(c)
    BY IdleMoves DEF CheckAcks
  <1> QED BY <1>1, AckedStep DEF CheckAcks

LEMMA CheckWaitsStep ==
    ASSUME IInv, NEW c \in Check, NEW h \in Handle, NEW r \in Run, NEW a \in Ack,
           NEW wake \in Wake, CheckWaits(c, h, r, a, wake)
    PROVE  IInv'
  <1> DEFINE row == [pc |-> "waiting", run |-> r, gen |-> runs[r].gen, wake |-> wake]
  <1>1. checks \in [Check -> CheckRow] /\ runs[r].gen \in 0..MaxGeneration
    BY DEF IInv, TypeOK, CheckRow
  <1>2. row \in CheckRow
    BY <1>1, MailboxAssumption DEF CheckRow
  <1>3. ~Wakes(r, wake, read') /\ deliveries' = DeliveriesAfter(a)
    BY DEF CheckWaits, DeliversNothing
  <1>4. checks' = [checks EXCEPT ![c] = row]
    BY DEF CheckWaits
  <1>5. checks' \in [Check -> CheckRow] /\ \A b \in Check : CheckMoves(b)
    BY <1>1, <1>2, <1>3, <1>4 DEF CheckMoves
  <1> QED BY <1>3, <1>5, AckedStep DEF CheckWaits

LEMMA WokenAnswersStep ==
    ASSUME IInv, NEW c \in Check, NEW d \in Delivery, WokenAnswers(c, d)
    PROVE  /\ IInv'
           /\ checks[c].run \in Run
           /\ Ledger(deliveries', read')
           /\ deliveries'[d].run = checks[c].run /\ deliveries'[d].status = "outstanding"
           /\ \A e \in Delivery : deliveries[e].status # "absent" => deliveries'[e] = deliveries[e]
  <1>1. checks[c].run \in Run
    BY DEF WokenAnswers, IInv, SuspendedHasRun
  <1>2. deliveries \in [Delivery -> DeliveryRow] /\ read \in SUBSET Message
    BY DEF IInv, TypeOK, DeliveryRow
  <1>3. /\ deliveries' \in [Delivery -> DeliveryRow] /\ Ledger(deliveries', read)
        /\ deliveries'[d].status = "outstanding" /\ deliveries'[d].run = checks[c].run
        /\ \A e \in Delivery : deliveries[e].status # "absent" => deliveries'[e] = deliveries[e]
    BY <1>1, <1>2, DeliverLedger DEF WokenAnswers, IInv
  <1>4. received' \in SUBSET Delivery /\ ReceivedExists'
    BY <1>3 DEF WokenAnswers, MayReceive, IInv, TypeOK, ReceivedExists
  <1>5. checks' \in [Check -> CheckRow] /\ \A b \in Check : CheckMoves(b)
    BY IdleMoves DEF WokenAnswers
  <1>6. UNCHANGED <<runs, messages, read, finished>> /\ finished' \in SUBSET Worker
    BY DEF WokenAnswers, IInv, TypeOK
  <1>7. IInv'
    BY <1>2, <1>3, <1>4, <1>5, <1>6, ReadingStep
  <1> QED BY <1>1, <1>3, <1>6, <1>7

-----------------------------------------------------------------------------
(* The invariant: new mail *)

LEMMA InsertRows ==
    ASSUME IInv, NEW m \in Message, NEW w \in Worker, NEW t \in MessageType,
           NEW rejected \in BOOLEAN, Insert(m, w, t, rejected)
    PROVE  /\ RunOf[w] \in Run /\ ~IsMessage(m)
           /\ \A n \in Message \ {m} : messages'[n] = messages[n]
           /\ messages'[m] = [run |-> RunOf[w], worker |-> w, type |-> t, rejected |-> rejected]
           /\ MessagesAreRows' /\ NoGaps'
           /\ \A n \in Message : IsMessage(n) => n < m
           /\ MailOf(RunOf[w])' = MailOf(RunOf[w]) \cup {m}
           /\ \A r \in Run \ {RunOf[w]} : MailOf(r)' = MailOf(r)
  <1>1. RunOf[w] \in Run /\ NoRun \notin Run /\ Message \subseteq Nat
    BY MailboxAssumption DEF Run, NoRun, Message
  <1>2. messages' = [messages EXCEPT ![m] = [run |-> RunOf[w], worker |-> w, type |-> t,
                                             rejected |-> rejected]]
        /\ DOMAIN messages = Message
    BY DEF Insert, IInv, TypeOK
  <1>3. /\ \A n \in Message \ {m} : messages'[n] = messages[n]
        /\ messages'[m] = [run |-> RunOf[w], worker |-> w, type |-> t, rejected |-> rejected]
    BY <1>2
  <1>4. ~IsMessage(m) /\ \A n \in Message : n < m => IsMessage(n)
    BY DEF Insert, IsNextMessage
  <1>5. \A n \in Message : IsMessage(n) => n < m
    <2>1. SUFFICES ASSUME NEW n \in Message, IsMessage(n), ~(n < m)
                   PROVE  FALSE
      OBVIOUS
    <2>2. n # m
      BY <1>4, <2>1
    <2>3. m < n
      BY <1>1, <2>1, <2>2
    <2> QED BY <1>4, <2>1, <2>3 DEF IInv, NoGaps
  <1>6. MessagesAreRows'
    BY <1>3 DEF IInv, MessagesAreRows
  <1>7. \A n \in Message : IsMessage(n)' => IsMessage(n) \/ n = m
    BY <1>3 DEF IsMessage
  <1>71. \A n \in Message : IsMessage(n) => IsMessage(n)'
    BY <1>3, <1>4 DEF IsMessage
  <1>72. IsMessage(m)'
    <2>1. messages'[m].run = RunOf[w]
      BY <1>3
    <2> QED BY <1>1, <2>1 DEF IsMessage
  <1>8. NoGaps'
    BY <1>4, <1>7, <1>71, <1>72 DEF IInv, NoGaps
  <1>9. \A r \in Run \ {RunOf[w]} : MailOf(r)' = MailOf(r)
    <2>1. messages[m].run = NoRun /\ messages'[m].run = RunOf[w]
      BY <1>3, <1>4 DEF IsMessage
    <2> QED BY <1>1, <1>3, <2>1 DEF MailOf
  <1>10. MailOf(RunOf[w])' = MailOf(RunOf[w]) \cup {m}
    BY <1>3 DEF MailOf
  <1> QED BY <1>1, <1>3, <1>4, <1>5, <1>6, <1>8, <1>9, <1>10

\* The step that stores message m, whatever it marks as read and whomever it wakes.
LEMMA InsertStep ==
    ASSUME IInv, NEW m \in Message, NEW w \in Worker, NEW t \in MessageType,
           NEW rejected \in BOOLEAN, Insert(m, w, t, rejected),
           UNCHANGED <<runs, deliveries, received>>,
           read' \in SUBSET Message, read \subseteq read',
           finished' \in SUBSET Worker, finished \subseteq finished',
           t = "worker_done" /\ ~rejected => w \in finished',
           checks' = Notified(RunOf[w], t) \/ (UNCHANGED checks /\ m \in read'),
           w \notin Federated /\ t = "worker_done" /\ ~rejected => HeartbeatsOf(w) \subseteq read',
           w \notin Federated /\ t = "heartbeat" /\ ~rejected /\ w \in finished => m \in read'
    PROVE  IInv'
  <1> DEFINE r == RunOf[w]
  <1>1. /\ r \in Run /\ ~IsMessage(m)
        /\ \A n \in Message \ {m} : messages'[n] = messages[n]
        /\ messages'[m] = [run |-> r, worker |-> w, type |-> t, rejected |-> rejected]
        /\ MessagesAreRows' /\ NoGaps'
        /\ \A n \in Message : IsMessage(n) => n < m
        /\ MailOf(r)' = MailOf(r) \cup {m}
        /\ \A q \in Run \ {r} : MailOf(q)' = MailOf(q)
    BY InsertRows
  <1>2. checks' \in [Check -> CheckRow] /\ \A c \in Check : CheckMoves(c)
    BY NotifiedMoves, IdleMoves
  <1>3. TypeOK'
    <2>1. messages' \in [Message -> [run : Run \cup {NoRun}, worker : Worker \cup {NoWorker},
                                     type : MessageType, rejected : BOOLEAN]]
      BY <1>1 DEF Insert, IInv, TypeOK
    <2> QED BY <1>2, <2>1 DEF IInv, TypeOK, CheckRow
  <1>4. Ledger(deliveries, read)'
    <2>1. Ledger(deliveries, read')
      BY ReadGrowsLedger DEF IInv
    <2>2. \A q \in Run : MailOf(q) \subseteq MailOf(q)'
      BY <1>1
    <2>3. BatchIsOldest(deliveries, read)'
      <3>1. SUFFICES ASSUME NEW d \in Delivery, Live(deliveries, d),
                            NEW k \in deliveries[d].messages,
                            NEW n \in MailOf(deliveries[d].run)', n < k
                     PROVE  n \in deliveries[d].messages \cup read'
        BY DEF BatchIsOldest, Live
      <3>2. /\ deliveries[d].run \in Run
            /\ deliveries[d].messages \subseteq MailOf(deliveries[d].run)
        BY <3>1 DEF IInv, Ledger, DeliveriesHaveRows, Live
      <3>3. k \in MailOf(deliveries[d].run) /\ NoRun \notin Run
        BY <3>2 DEF Run, NoRun
      <3>4. IsMessage(k) /\ k \in Message
        BY <3>2, <3>3 DEF IsMessage, MailOf
      <3>5. k < m
        BY <1>1, <3>4
      <3>6. n # m
        BY <3>1, <3>4, <3>5, MailboxAssumption DEF Message
      <3>7. n \in MailOf(deliveries[d].run)
        BY <1>1, <3>2, <3>6
      <3> QED BY <2>1, <3>1, <3>7 DEF Ledger, BatchIsOldest
    <2> QED BY <2>1, <2>2, <2>3
        DEF Ledger, DeliveriesHaveRows, OutstandingHasGen, OneOutstanding, AcknowledgedIsRead,
            Disjoint, Live, Outstanding
  <1>5. \A x \in Worker : Reported(x)' => \/ Reported(x)
                                          \/ x = w /\ t = "worker_done" /\ ~rejected
    BY <1>1 DEF Reported
  <1>6. ReportedIsFinished'
    BY <1>5 DEF IInv, ReportedIsFinished
  <1>7. SupersededIsRead'
    <2>1. SUFFICES ASSUME NEW n \in Message, Superseded(n)', messages'[n].worker \notin Federated
                   PROVE  n \in read'
      BY DEF SupersededIsRead
    <2>2. messages'[n].type = "heartbeat" /\ ~messages'[n].rejected
      BY <2>1 DEF Superseded
    <2>3. messages'[n].worker \in Worker
      <3>1. messages'[n] # AbsentMessage
        BY <2>2 DEF AbsentMessage
      <3> QED BY <1>1, <3>1 DEF MessagesAreRows
    <2>4. PICK x \in Worker : x = messages'[n].worker
      BY <2>3
    <2>5. Reported(x)'
      BY <2>1, <2>4 DEF Superseded, Reported
    <2>6. CASE n = m
      <3>1. x = w /\ t = "heartbeat" /\ ~rejected
        BY <1>1, <2>2, <2>4, <2>6
      <3>2. w \in finished
        BY <1>5, <2>5, <3>1 DEF IInv, ReportedIsFinished
      <3> QED BY <2>1, <2>4, <2>6, <3>1, <3>2
    <2>7. CASE n # m /\ Reported(x)
      <3>1. messages[n] = messages'[n]
        BY <1>1, <2>7
      <3>2. Superseded(n) /\ messages[n].worker \notin Federated
        BY <2>1, <2>2, <2>4, <2>7, <3>1 DEF Superseded
      <3> QED BY <3>2 DEF IInv, SupersededIsRead
    <2>8. CASE n # m /\ x = w /\ t = "worker_done" /\ ~rejected
      <3>1. n \in HeartbeatsOf(w)
        BY <1>1, <2>2, <2>4, <2>8 DEF HeartbeatsOf
      <3> QED BY <2>1, <2>4, <2>8, <3>1
    <2> QED BY <1>5, <2>5, <2>6, <2>7, <2>8
  <1>8. OneRunPerPane' /\ ReceivedExists'
    BY DEF IInv, OneRunPerPane, ReceivedExists
  <1>9. ASSUME NEW c \in Check
        PROVE  /\ checks'[c].pc # "idle" => checks'[c].run \in Run
               /\ checks'[c].pc = "waiting" => checks'[c] = checks[c]
               /\ checks'[c].pc = "waiting" /\ checks[c].run = r /\ t \in checks[c].wake
                     => m \in read'
    <2>1. CASE checks' = Notified(r, t)
      BY <2>1 DEF Notified, Waiting, IInv, TypeOK, SuspendedHasRun
    <2>2. CASE UNCHANGED checks /\ m \in read'
      BY <2>2 DEF IInv, SuspendedHasRun
    <2> QED BY <2>1, <2>2
  <1>10. SuspendedHasRun' /\ WaiterIsCurrent'
    BY <1>9 DEF SuspendedHasRun, WaiterIsCurrent, IsCurrent, IInv
  <1>11. NobodyWaitsBesideMail'
    <2>1. SUFFICES ASSUME NEW c \in Check, checks'[c].pc = "waiting",
                          NEW n \in MailOf(checks[c].run)', n \notin read',
                          messages'[n].type \in checks[c].wake
                   PROVE  FALSE
      BY <1>9 DEF NobodyWaitsBesideMail, Wakes, Unread
    <2>2. checks[c].run \in Run /\ checks[c].pc = "waiting"
      BY <1>9, <2>1
    <2>3. CASE n = m
      BY <1>1, <1>9, <2>1, <2>2, <2>3 DEF MailOf
    <2>4. CASE n # m
      <3>1. n \in MailOf(checks[c].run)
        <4>1. checks'[c] = checks[c]
          BY <1>9, <2>1
        <4>2. n \in Message /\ messages'[n].run = checks[c].run
          BY <2>1, <4>1 DEF MailOf
        <4> QED BY <1>1, <2>4, <4>2 DEF MailOf
      <3>2. n \notin read /\ messages'[n] = messages[n]
        BY <1>1, <2>1, <2>4, <3>1 DEF MailOf
      <3> QED BY <2>1, <2>2, <3>1, <3>2 DEF IInv, NobodyWaitsBesideMail, Wakes, Unread
    <2> QED BY <2>3, <2>4
  <1> QED BY <1>1, <1>3, <1>4, <1>6, <1>7, <1>8, <1>10, <1>11 DEF IInv

\* The four handlers that store a message.
Stores(m, w, t, rejected) ==
    \/ Send(m, w, t, rejected)
    \/ Import(m, w, t, rejected)
    \/ LateHeartbeat(m, w) /\ t = "heartbeat" /\ ~rejected
    \/ WorkerDone(m, w) /\ t = "worker_done" /\ ~rejected

LEMMA StoresStep ==
    ASSUME IInv, NEW m \in Message, NEW w \in Worker, NEW t \in MessageType,
           NEW rejected \in BOOLEAN, Stores(m, w, t, rejected)
    PROVE  /\ IInv'
           /\ Insert(m, w, t, rejected) /\ read \subseteq read'
           /\ UNCHANGED <<runs, deliveries, received>>
           /\ read' \subseteq read \cup {m} \cup HeartbeatsOf(w)
  <1>1. read \in SUBSET Message /\ finished \in SUBSET Worker /\ HeartbeatsOf(w) \in SUBSET Message
    BY DEF IInv, TypeOK, HeartbeatsOf
  <1>2. CASE Send(m, w, t, rejected)
    BY <1>1, <1>2, InsertStep DEF Send
  <1>3. CASE Import(m, w, t, rejected)
    <2>1. finished' = finished \cup {x \in {w} : t = "worker_done" /\ ~rejected}
      BY <1>3 DEF Import
    <2> QED BY <1>1, <1>3, <2>1, InsertStep DEF Import
  <1>4. CASE LateHeartbeat(m, w) /\ t = "heartbeat" /\ ~rejected
    <2>1. rejected = FALSE
      BY <1>4
    <2> QED BY <1>1, <1>4, <2>1, InsertStep DEF LateHeartbeat, MarkRead
  <1>5. CASE WorkerDone(m, w) /\ t = "worker_done" /\ ~rejected
    <2>1. rejected = FALSE
      BY <1>5
    <2> QED BY <1>1, <1>5, <2>1, InsertStep DEF WorkerDone, MarkRead
  <1> QED BY <1>2, <1>3, <1>4, <1>5 DEF Stores

-----------------------------------------------------------------------------
(* The invariant: a hand-over *)

LEMMA RebindStep ==
    ASSUME IInv, NEW h \in Handle, NEW r \in Run, Rebind(h, r)
    PROVE  /\ IInv'
           /\ UNCHANGED <<messages, read, received>>
           /\ \A d \in Delivery : /\ deliveries'[d].run = deliveries[d].run
                                  /\ deliveries'[d].messages = deliveries[d].messages
  <1> DEFINE bumped == HandedOver(h, r)
  <1>1. /\ runs' = Rebound(h, r) /\ deliveries' = Fenced(bumped)
        /\ checks' = Cancelled(PriorRun(h) \cup {r})
        /\ UNCHANGED <<messages, read, finished, received>>
        /\ \A q \in bumped : runs[q].gen < MaxGeneration
    BY DEF Rebind
  <1>2. bumped \subseteq Run /\ \A q \in Run \ bumped : runs'[q] = runs[q]
    BY <1>1 DEF HandedOver, Displaced, Rebound
  <1>3. deliveries \in [Delivery -> DeliveryRow] /\ read \in SUBSET Message
    BY DEF IInv, TypeOK, DeliveryRow
  <1>4. \A d \in Delivery :
           /\ deliveries'[d].run = deliveries[d].run
           /\ deliveries'[d].gen = deliveries[d].gen
           /\ deliveries'[d].messages = deliveries[d].messages
           /\ deliveries'[d].status = IF deliveries[d].run \in bumped
                                         /\ deliveries[d].status = "outstanding"
                                      THEN "fenced" ELSE deliveries[d].status
    BY <1>1, <1>3 DEF Fenced, DeliveryRow
  <1>5. deliveries' \in [Delivery -> DeliveryRow]
    <2>1. \A k \in DeliveryRow : [k EXCEPT !.status = "fenced"] \in DeliveryRow
      BY DEF DeliveryRow
    <2> QED BY <1>1, <1>3, <2>1 DEF Fenced
  <1>6. /\ checks' \in [Check -> CheckRow]
        /\ \A c \in Check : checks'[c] = checks[c] \/ checks'[c].pc = "idle"
        /\ \A c \in Check : checks'[c].pc = "waiting"
              => checks[c] = checks'[c] /\ checks[c].run \notin PriorRun(h) \cup {r}
    <2>1. checks' \in [Check -> CheckRow]
      BY <1>1, IdleMoves
    <2>2. Idle.pc = "idle"
      BY DEF Idle
    <2> QED BY <1>1, <2>1, <2>2 DEF Cancelled
  <1>7. TypeOK'
    <2>1. runs' \in [Run -> [handle : Handle \cup {NoHandle}, gen : 0..MaxGeneration]]
      <3>1. ASSUME NEW q \in bumped
            PROVE  runs[q].gen + 1 \in 0..MaxGeneration
        BY <1>1, <1>2, MailboxAssumption DEF IInv, TypeOK
      <3> QED BY <1>1, <3>1 DEF Rebound, IInv, TypeOK
    <2> QED BY <1>1, <1>5, <1>6, <2>1 DEF IInv, TypeOK, DeliveryRow, CheckRow
  <1>8. OneRunPerPane'
    <2>1. runs'[r].handle = h
      BY <1>1 DEF Rebound, HandedOver
    <2>2. \A q \in Run \ {r} : \/ runs'[q].handle = NoHandle
                               \/ runs'[q] = runs[q] /\ ~Bound(q, PaneOf[h])
      BY <1>1 DEF Rebound, HandedOver, Displaced
    <2> QED BY <2>1, <2>2 DEF IInv, OneRunPerPane, Bound
  <1>9. Ledger(deliveries, read)'
    <2>1. OutstandingHasGen(deliveries)'
      BY <1>2, <1>4 DEF IInv, Ledger, OutstandingHasGen, DeliveriesHaveRows
    <2>2. /\ DeliveriesHaveRows(deliveries)' /\ AcknowledgedIsRead(deliveries, read)'
          /\ OneOutstanding(deliveries)'
      BY <1>1, <1>4
      DEF IInv, Ledger, DeliveriesHaveRows, AcknowledgedIsRead, OneOutstanding, Outstanding, MailOf
    <2>3. \A d \in Delivery : Live(deliveries, d)' => Live(deliveries, d)
      BY <1>4 DEF Live
    <2>4. BatchIsOldest(deliveries, read)'
      BY <1>1, <1>4, <2>3 DEF IInv, Ledger, BatchIsOldest, MailOf
    <2>5. Disjoint(deliveries)'
      BY <1>4, <2>3 DEF IInv, Ledger, Disjoint
    <2> QED BY <2>1, <2>2, <2>4, <2>5 DEF Ledger
  <1>10. MessagesAreRows' /\ NoGaps' /\ ReportedIsFinished' /\ SupersededIsRead'
    BY <1>1 DEF IInv, MessagesAreRows, NoGaps, IsMessage, ReportedIsFinished, Reported,
                SupersededIsRead, Superseded
  <1>11. SuspendedHasRun'
    BY <1>6 DEF IInv, SuspendedHasRun
  <1>12. bumped \subseteq PriorRun(h) \cup {r}
    <2>1. ASSUME NEW q \in Displaced(h, r)
          PROVE  q \in PriorRun(h)
      <3>1. q \in Run /\ Bound(q, PaneOf[h]) /\ \A p \in Run : Bound(p, PaneOf[h]) => p = q
        BY <2>1 DEF Displaced, Bound, IInv, OneRunPerPane
      <3> QED BY <3>1 DEF PriorRun, Current, Run
    <2> QED BY <2>1 DEF HandedOver
  <1>13. WaiterIsCurrent'
    <2>1. SUFFICES ASSUME NEW c \in Check, checks'[c].pc = "waiting"
                   PROVE  checks'[c].gen = runs'[checks'[c].run].gen
      BY DEF WaiterIsCurrent, IsCurrent
    <2>2. checks[c] = checks'[c] /\ checks[c].run \in Run \ bumped
      BY <1>6, <1>12, <2>1 DEF IInv, SuspendedHasRun
    <2> QED BY <1>2, <2>1, <2>2 DEF IInv, WaiterIsCurrent, IsCurrent
  <1>14. NobodyWaitsBesideMail'
    BY <1>1, <1>6 DEF IInv, NobodyWaitsBesideMail, Wakes, Unread, MailOf
  <1>15. ReceivedExists'
    BY <1>1, <1>4 DEF IInv, TypeOK, ReceivedExists
  <1> QED BY <1>1, <1>4, <1>7, <1>8, <1>9, <1>10, <1>11, <1>13, <1>14, <1>15 DEF IInv

-----------------------------------------------------------------------------
(* The invariant holds *)

LEMMA InitIInv == Init => IInv
  <1> SUFFICES ASSUME Init PROVE IInv
    OBVIOUS
  <1>1. TypeOK
    BY MailboxAssumption
    DEF Init, TypeOK, AbsentRun, AbsentMessage, AbsentDelivery, Idle, NoRun, MessageType
  <1>2. OneRunPerPane /\ MessagesAreRows /\ NoGaps
    BY DEF Init, OneRunPerPane, AbsentRun, MessagesAreRows, NoGaps, IsMessage, AbsentMessage
  <1>3. \A d \in Delivery : deliveries[d].status = "absent"
    BY DEF Init, AbsentDelivery
  <1>4. Ledger(deliveries, read) /\ ReceivedExists
    BY <1>3 DEF Init, Ledger, DeliveriesHaveRows, OutstandingHasGen, OneOutstanding,
                AcknowledgedIsRead, BatchIsOldest, Disjoint, Live, ReceivedExists
  <1>5. ReportedIsFinished /\ SupersededIsRead
    BY DEF Init, ReportedIsFinished, Reported, SupersededIsRead, Superseded, AbsentMessage
  <1>6. \A c \in Check : checks[c].pc = "idle"
    BY DEF Init, Idle
  <1>7. SuspendedHasRun /\ WaiterIsCurrent /\ NobodyWaitsBesideMail
    BY <1>6 DEF SuspendedHasRun, WaiterIsCurrent, NobodyWaitsBesideMail
  <1> QED BY <1>1, <1>2, <1>4, <1>5, <1>7 DEF IInv

\* Next, with the handlers that have the same effect put together.
LEMMA NextEffects ==
    ASSUME Next
    PROVE  \/ \E h \in Handle, r \in Run : Rebind(h, r)
           \/ \E m \in Message, w \in Worker, t \in MessageType, rejected \in BOOLEAN :
                 Stores(m, w, t, rejected)
           \/ \E m \in Message : ImportAgain(m) \/ Reply(m)
           \/ \E w \in Worker : Settle(w)
           \/ \E h \in Handle, r \in Run, a \in Ack, wake \in Wake \cup {MessageType},
                 d \in Delivery : CheckAnswers(h, r, a, wake, d)
           \/ \E h \in Handle, r \in Run, a \in Ack : CheckAcks(h, r, a)
           \/ \E c \in Check, h \in Handle, r \in Run, a \in Ack, wake \in Wake :
                 CheckWaits(c, h, r, a, wake)
           \/ \E c \in Check, d \in Delivery : WokenAnswers(c, d)
           \/ \E c \in Check : TimesOut(c) \/ WokenIsFenced(c) \/ WokenFindsNothing(c)
           \/ Restart
  <1>1. CASE HandOver
    BY <1>1 DEF HandOver, CreateRun, UseRun
  <1>2. CASE Arrival
    BY <1>2 DEF Arrival, Stores, MessageType
  <1>3. CASE Reading
    BY <1>3 DEF Reading, Continue
  <1> QED BY <1>1, <1>2, <1>3 DEF Next

LEMMA NextIInv == IInv /\ [Next]_vars => IInv'
  <1> SUFFICES ASSUME IInv, [Next]_vars PROVE IInv'
    OBVIOUS
  <1>1. CASE Next
    BY <1>1, NextEffects, RebindStep, StoresStep, ImportAgainStep, ReplyStep, SettleStep,
       CheckAnswersStep, CheckAcksStep, CheckWaitsStep, WokenAnswersStep, QuietStep
  <1>2. CASE UNCHANGED vars
    <2>1. checks' \in [Check -> CheckRow] /\ \A c \in Check : CheckMoves(c)
      BY <1>2, IdleMoves DEF vars
    <2> QED BY <1>2, <2>1, ReadingStep DEF vars, IInv, TypeOK, DeliveryRow, ReceivedExists
  <1> QED BY <1>1, <1>2

\* The tables and the suspended checks keep their types.
THEOREM MailboxTypeCorrectness == Spec => []TypeOK
  <1>1. IInv => TypeOK
    BY DEF IInv
  <1> QED BY <1>1, InitIInv, NextIInv, PTL DEF Spec

\* A pane never holds two runs.
THEOREM OneRun == Spec => []OneRunPerPane
  <1>1. IInv => OneRunPerPane
    BY DEF IInv
  <1> QED BY <1>1, InitIInv, NextIInv, PTL DEF Spec

\* The inductive invariant of the mailbox holds in every reachable state: every
\* delivery's rows, batches, consumers and waiters fit together.
THEOREM MailboxInvariance == Spec => []IInv
  BY InitIInv, NextIInv, PTL DEF Spec

\* The mailbox never wedges: what is outstanding can be read and acknowledged
\* by the consumer the run has now.
THEOREM NeverWedged == Spec => []OutstandingIsCurrent
  <1>1. IInv => OutstandingIsCurrent
    BY DEF IInv, Ledger, OutstandingHasGen, OutstandingIsCurrent
  <1> QED BY <1>1, InitIInv, NextIInv, PTL DEF Spec

\* No message is acknowledged twice, whoever the consumers are.
THEOREM ConsumedOnce == Spec => []AcknowledgedOnce
  <1>1. IInv => AcknowledgedOnce
    BY DEF IInv, Ledger, Disjoint, Live, AcknowledgedOnce
  <1> QED BY <1>1, InitIInv, NextIInv, PTL DEF Spec

\* A hand-over leaves no waiter of the previous consumer behind.
THEOREM NoOrphanWaiter == Spec => []WaiterIsCurrent
  <1>1. IInv => WaiterIsCurrent
    BY DEF IInv
  <1> QED BY <1>1, InitIInv, NextIInv, PTL DEF Spec

\* No wake-up is lost.
THEOREM NoLostWakeup == Spec => []NobodyWaitsBesideMail
  <1>1. IInv => NobodyWaitsBesideMail
    BY DEF IInv
  <1> QED BY <1>1, InitIInv, NextIInv, PTL DEF Spec

\* Heartbeats of a worker of this server do not outlive its report.
THEOREM NoStaleHeartbeat == Spec => []SupersededIsRead
  <1>1. IInv => SupersededIsRead
    BY DEF IInv
  <1> QED BY <1>1, InitIInv, NextIInv, PTL DEF Spec

-----------------------------------------------------------------------------
(* Refinement of Mailbox *)

LEMMA ShownNext ==
    ASSUME received' = received,
           \A d \in received : /\ deliveries'[d].run = deliveries[d].run
                               /\ deliveries'[d].messages = deliveries[d].messages,
           NEW r \in Run
    PROVE  Shown(r)' = Shown(r)
  BY DEF Shown

\* Steps that move nothing between the parts of a mailbox.
LEMMA StutterMaps ==
    ASSUME UNCHANGED <<messages, read, received>>,
           \A d \in received : /\ deliveries'[d].run = deliveries[d].run
                               /\ deliveries'[d].messages = deliveries[d].messages
    PROVE  UNCHANGED Box!vars
  <1>1. \A r \in Run : Shown(r)' = Shown(r)
    BY ShownNext
  <1>2. \A r \in Run : MailOf(r)' = MailOf(r) /\ Unread(r, read)' = Unread(r, read)
    BY DEF MailOf, Unread
  <1> QED BY <1>1, <1>2 DEF Box!vars

LEMMA StoresRows ==
    ASSUME IInv, NEW m \in Message, NEW w \in Worker, NEW t \in MessageType,
           NEW rejected \in BOOLEAN, Stores(m, w, t, rejected)
    PROVE  /\ RunOf[w] \in Run
           /\ MailOf(RunOf[w])' = MailOf(RunOf[w]) \cup {m}
           /\ \A r \in Run \ {RunOf[w]} : MailOf(r)' = MailOf(r)
           /\ \A n \in MailOf(RunOf[w]) : n < m
  <1>1. Insert(m, w, t, rejected)
    BY StoresStep
  <1>2. /\ RunOf[w] \in Run /\ ~IsMessage(m)
        /\ \A n \in Message \ {m} : messages'[n] = messages[n]
        /\ messages'[m] = [run |-> RunOf[w], worker |-> w, type |-> t, rejected |-> rejected]
        /\ MessagesAreRows' /\ NoGaps'
        /\ \A n \in Message : IsMessage(n) => n < m
        /\ MailOf(RunOf[w])' = MailOf(RunOf[w]) \cup {m}
        /\ \A r \in Run \ {RunOf[w]} : MailOf(r)' = MailOf(r)
    BY <1>1, InsertRows
  <1>3. \A n \in MailOf(RunOf[w]) : n \in Message /\ IsMessage(n)
    BY <1>2, MailboxAssumption DEF MailOf, IsMessage, Run, NoRun
  <1> QED BY <1>2, <1>3

\* A stored message is a Post of its run's mailbox.
LEMMA StoresMaps ==
    ASSUME IInv, NEW m \in Message, NEW w \in Worker, NEW t \in MessageType,
           NEW rejected \in BOOLEAN, Stores(m, w, t, rejected)
    PROVE  Box!Next
  <1> DEFINE b == RunOf[w]
  <1>1. /\ b \in Run
        /\ MailOf(b)' = MailOf(b) \cup {m}
        /\ \A r \in Run \ {b} : MailOf(r)' = MailOf(r)
        /\ \A n \in MailOf(b) : n < m
    BY StoresRows
  <1>2. read \subseteq read' /\ read' \subseteq read \cup {m} \cup HeartbeatsOf(w)
    BY StoresStep
  <1>3. \A r \in Run \ {b} : HeartbeatsOf(w) \cap MailOf(r) = {}
    BY DEF HeartbeatsOf, MailOf, IInv, MessagesAreRows, AbsentMessage
  <1>4. \A r \in Run \ {b} : m \notin MailOf(r)
    BY <1>1 DEF MailOf
  <1>5. \A r \in Run \ {b} : Unread(r, read)' = Unread(r, read)
    BY <1>1, <1>2, <1>3, <1>4 DEF Unread
  <1>6. Unread(b, read)' \in SUBSET (Unread(b, read) \cup {m})
    BY <1>1, <1>2 DEF Unread
  <1>7. \A r \in Run : Shown(r)' = Shown(r)
    BY ShownNext, StoresStep
  <1> DEFINE posted == [r \in Run |-> MailOf(r)]
             queue == [r \in Run |-> Unread(r, read)]
             shown == [r \in Run |-> Shown(r)]
  <1>8. posted' = [posted EXCEPT ![b] = @ \cup {m}]
    BY <1>1
  <1>9. queue' = [queue EXCEPT ![b] = Unread(b, read)']
    BY <1>1, <1>5
  <1>10. \E q \in SUBSET (queue[b] \cup {m}) : queue' = [queue EXCEPT ![b] = q]
    BY <1>1, <1>6, <1>9
  <1>11. shown' = shown
    BY <1>7
  <1>12. \A n \in posted[b] : n < m
    BY <1>1
  <1>13. Box!Post(b, m)
    BY <1>8, <1>10, <1>11, <1>12 DEF Box!Post
  <1> QED BY <1>1, <1>13 DEF Box!Next

LEMMA ReplyMaps ==
    ASSUME IInv, NEW m \in Message, Reply(m)
    PROVE  Box!Next
  <1> DEFINE b == messages[m].run
             queue == [r \in Run |-> Unread(r, read)]
  <1>1. b \in Run
    BY DEF Reply, IsMessage, IInv, TypeOK, NoRun
  <1>2. \A r \in Run : MailOf(r)' = MailOf(r) /\ Shown(r)' = Shown(r)
    BY ShownNext DEF Reply, MailOf
  <1>3. \A r \in Run : Unread(r, read)' = IF r = b THEN Unread(r, read) \ {m} ELSE Unread(r, read)
    BY <1>1 DEF Reply, MarkRead, Unread, MailOf
  <1>4. queue' = [queue EXCEPT ![b] = @ \ {m}]
    BY <1>1, <1>3
  <1>5. Box!Withdraw(b, m)
    BY <1>2, <1>4 DEF Box!Withdraw
  <1> QED BY <1>1, <1>5 DEF Box!Next

\* A step that consumes the mail of S, as far as it is unread, and shows T.
LEMMA FetchMaps ==
    ASSUME IInv, UNCHANGED messages, NEW b \in Run,
           NEW S \in SUBSET MailOf(b), NEW T \in SUBSET MailOf(b),
           read' = read \cup S,
           S \subseteq Shown(b),
           \A m \in S, n \in MailOf(b) : n < m => n \in S \cup read,
           \A m \in T, n \in MailOf(b) : n < m => n \in T \cup read',
           \A r \in Run : Shown(r)' = IF r = b THEN Shown(r) \cup T ELSE Shown(r)
    PROVE  Box!Next
  <1> DEFINE posted == [r \in Run |-> MailOf(r)]
             queue == [r \in Run |-> Unread(r, read)]
             shown == [r \in Run |-> Shown(r)]
             C == S \ read
  <1>1. Message \subseteq Nat /\ MailOf(b) \subseteq Message
    BY DEF Message, MailOf
  <1>2. C \subseteq queue[b] \cap shown[b]
    BY DEF Unread
  <1>3. Box!NoneOlder(queue[b] \ C, C)
    <2>1. ASSUME NEW m \in queue[b] \ C, NEW n \in C
          PROVE  n < m
      <3>1. m \in MailOf(b) /\ m \notin read /\ m \notin S /\ n \in S /\ n \in MailOf(b)
        BY <2>1 DEF Unread
      <3>2. m \in Nat /\ n \in Nat /\ m # n /\ ~(m < n)
        BY <1>1, <3>1
      <3> QED BY <3>2
    <2> QED BY <2>1 DEF Box!NoneOlder
  <1>4. \A r \in Run : MailOf(r)' = MailOf(r)
    BY DEF MailOf
  <1>5. \A r \in Run : Unread(r, read)' = IF r = b THEN Unread(r, read) \ C ELSE Unread(r, read)
    BY <1>4 DEF Unread, MailOf
  <1>6. queue' = [queue EXCEPT ![b] = @ \ C]
    BY <1>5
  <1>7. posted' = posted /\ T \subseteq posted[b]
    BY <1>4
  <1>8. Box!NoneOlder(queue'[b] \ T, T)
    <2>1. ASSUME NEW m \in queue'[b] \ T, NEW n \in T
          PROVE  n < m
      <3>1. m \in MailOf(b) /\ m \notin read' /\ m \notin T /\ n \in MailOf(b)
        BY <1>4, <2>1 DEF Unread
      <3>2. m \in Nat /\ n \in Nat /\ m # n /\ ~(m < n)
        BY <1>1, <2>1, <3>1
      <3> QED BY <3>2
    <2> QED BY <2>1 DEF Box!NoneOlder
  <1>9. shown' = [shown EXCEPT ![b] = @ \cup T]
    OBVIOUS
  <1>10. Box!Fetch(b, C, T)
    BY <1>2, <1>3, <1>6, <1>7, <1>8, <1>9 DEF Box!Fetch
  <1>11. C \in SUBSET Message /\ T \in SUBSET Message
    BY <1>1
  <1> QED BY <1>10, <1>11 DEF Box!Next

\* The mail that an acknowledgement of a takes out of the queue.
Consumed(a) == IF Acknowledges(a) THEN deliveries[a].messages ELSE {}

LEMMA AckConsumesOldest ==
    ASSUME IInv, NEW r \in Run, NEW a \in Ack, Acks(r, a)
    PROVE  /\ ReadAfter(a) = read \cup Consumed(a)
           /\ Consumed(a) \subseteq MailOf(r)
           /\ Consumed(a) \subseteq Shown(r)
           /\ \A m \in Consumed(a), n \in MailOf(r) : n < m => n \in Consumed(a) \cup read
  <1>1. ReadAfter(a) = read \cup Consumed(a)
    BY DEF ReadAfter, Consumed
  <1>2. CASE ~Acknowledges(a)
    BY <1>1, <1>2 DEF Consumed
  <1>3. CASE Acknowledges(a)
    <2>1. /\ a \in Delivery /\ a \in received /\ deliveries[a].run = r
          /\ deliveries[a].status = "outstanding"
      BY <1>3 DEF Acks, Acknowledges, Ack, IInv, TypeOK, ReceivedExists
    <2>2. Consumed(a) = deliveries[a].messages
      BY <1>3 DEF Consumed
    <2>3. deliveries[a].messages \subseteq MailOf(r)
      BY <2>1 DEF IInv, Ledger, DeliveriesHaveRows
    <2>4. deliveries[a].messages \subseteq Shown(r)
      BY <2>1 DEF Shown
    <2>5. \A m \in deliveries[a].messages, n \in MailOf(r) :
             n < m => n \in deliveries[a].messages \cup read
      BY <2>1 DEF IInv, Ledger, BatchIsOldest, Live
    <2> QED BY <1>1, <2>2, <2>3, <2>4, <2>5
  <1> QED BY <1>2, <1>3

\* What the terminals have been shown after a reply with delivery d, that was
\* received (T is its mail) or lost (T is empty).
LEMMA ReplyShows ==
    ASSUME IInv, NEW r \in Run, NEW d \in Delivery, MayReceive(d), Ledger(deliveries', read'),
           UNCHANGED messages,
           deliveries'[d].run = r, deliveries'[d].status = "outstanding",
           \A e \in Delivery : deliveries[e].status # "absent"
              => /\ deliveries'[e].run = deliveries[e].run
                 /\ deliveries'[e].messages = deliveries[e].messages
    PROVE  \E T \in SUBSET MailOf(r) :
              /\ \A m \in T, n \in MailOf(r) : n < m => n \in T \cup read'
              /\ \A q \in Run : Shown(q)' = IF q = r THEN Shown(q) \cup T ELSE Shown(q)
  <1>1. \A e \in received : /\ deliveries'[e].run = deliveries[e].run
                            /\ deliveries'[e].messages = deliveries[e].messages
    BY DEF IInv, TypeOK, ReceivedExists
  <1>2. CASE received' = received
    <2>1. \A q \in Run : Shown(q)' = Shown(q)
      BY <1>1, <1>2, ShownNext
    <2> WITNESS {} \in SUBSET MailOf(r)
    <2> QED BY <2>1
  <1>3. CASE received' = received \cup {d}
    <2> DEFINE T == deliveries'[d].messages
    <2>1. T \subseteq MailOf(r)
      BY DEF Ledger, DeliveriesHaveRows
    <2>2. \A m \in T, n \in MailOf(r) : n < m => n \in T \cup read'
      BY DEF Ledger, BatchIsOldest, Live
    <2>3. \A q \in Run : Shown(q)' = IF q = r THEN Shown(q) \cup T ELSE Shown(q)
      BY <1>1, <1>3 DEF Shown
    <2>4. T \in SUBSET MailOf(r)
      BY <2>1
    <2> HIDE DEF T
    <2> QED BY <2>2, <2>3, <2>4
  <1> QED BY <1>2, <1>3 DEF MayReceive

LEMMA CheckAnswersMaps ==
    ASSUME IInv, NEW h \in Handle, NEW r \in Run, NEW a \in Ack, NEW wake, NEW d \in Delivery,
           CheckAnswers(h, r, a, wake, d)
    PROVE  Box!Next
  <1>1. Acks(r, a) /\ read' = ReadAfter(a) /\ MayReceive(d) /\ UNCHANGED messages
    BY DEF CheckAnswers
  <1>2. /\ Ledger(deliveries', read')
        /\ deliveries'[d].run = r /\ deliveries'[d].status = "outstanding"
        /\ \A e \in Delivery : deliveries[e].status # "absent"
              => /\ deliveries'[e].run = deliveries[e].run
                 /\ deliveries'[e].messages = deliveries[e].messages
    BY CheckAnswersStep
  <1>4. PICK T \in SUBSET MailOf(r) :
           /\ \A m \in T, n \in MailOf(r) : n < m => n \in T \cup read'
           /\ \A q \in Run : Shown(q)' = IF q = r THEN Shown(q) \cup T ELSE Shown(q)
    BY <1>1, <1>2, ReplyShows
  <1> QED BY <1>1, <1>4, AckConsumesOldest, FetchMaps

LEMMA AckedMaps ==
    ASSUME IInv, NEW r \in Run, NEW a \in Ack, Acks(r, a),
           read' = ReadAfter(a), deliveries' = DeliveriesAfter(a),
           UNCHANGED <<messages, received>>
    PROVE  Box!Next
  <1>1. \A d \in received : /\ deliveries'[d].run = deliveries[d].run
                            /\ deliveries'[d].messages = deliveries[d].messages
    BY AckLedger DEF IInv, TypeOK
  <1>2. \A q \in Run : Shown(q)' = IF q = r THEN Shown(q) \cup {} ELSE Shown(q)
    BY <1>1, ShownNext
  <1>3. /\ read' = read \cup Consumed(a) /\ UNCHANGED messages
        /\ Consumed(a) \in SUBSET MailOf(r) /\ Consumed(a) \subseteq Shown(r)
        /\ \A m \in Consumed(a), n \in MailOf(r) : n < m => n \in Consumed(a) \cup read
    BY AckConsumesOldest
  <1>4. /\ {} \in SUBSET MailOf(r)
        /\ \A m \in {}, n \in MailOf(r) : n < m => n \in {} \cup read'
    OBVIOUS
  <1> QED BY <1>2, <1>3, <1>4, FetchMaps

LEMMA WokenAnswersMaps ==
    ASSUME IInv, NEW c \in Check, NEW d \in Delivery, WokenAnswers(c, d)
    PROVE  Box!Next
  <1> DEFINE r == checks[c].run
  <1>1. MayReceive(d) /\ UNCHANGED <<messages, read>> /\ r \in Run
    BY WokenAnswersStep DEF WokenAnswers
  <1>2. PICK T \in SUBSET MailOf(r) :
           /\ \A m \in T, n \in MailOf(r) : n < m => n \in T \cup read'
           /\ \A q \in Run : Shown(q)' = IF q = r THEN Shown(q) \cup T ELSE Shown(q)
    BY <1>1, WokenAnswersStep, ReplyShows
  <1>3. /\ {} \in SUBSET MailOf(r) /\ read' = read \cup {} /\ {} \subseteq Shown(r)
        /\ \A m \in {}, n \in MailOf(r) : n < m => n \in {} \cup read
    BY <1>1
  <1> HIDE DEF r
  <1> QED BY <1>1, <1>2, <1>3, FetchMaps

\* Steps that settle, cancel, notify or end a wait, and a restart.
LEMMA QuietMaps ==
    ASSUME UNCHANGED <<messages, read, deliveries, received>>
    PROVE  UNCHANGED Box!vars
  BY StutterMaps

LEMMA NextMaps ==
    ASSUME IInv, Next
    PROVE  Box!Next \/ UNCHANGED Box!vars
  <1>1. ASSUME NEW h \in Handle, NEW r \in Run, Rebind(h, r)
        PROVE  UNCHANGED Box!vars
    <2>1. /\ UNCHANGED <<messages, read, received>>
          /\ \A d \in received : /\ deliveries'[d].run = deliveries[d].run
                                 /\ deliveries'[d].messages = deliveries[d].messages
      BY <1>1, RebindStep DEF IInv, TypeOK
    <2> QED BY <2>1, StutterMaps
  <1>2. ASSUME NEW m \in Message, ImportAgain(m)
        PROVE  UNCHANGED Box!vars
    BY <1>2, QuietMaps DEF ImportAgain
  <1>3. ASSUME NEW w \in Worker, Settle(w)
        PROVE  UNCHANGED Box!vars
    BY <1>3, QuietMaps DEF Settle
  <1>4. ASSUME NEW h \in Handle, NEW r \in Run, NEW a \in Ack, CheckAcks(h, r, a)
        PROVE  Box!Next
    BY <1>4, AckedMaps DEF CheckAcks
  <1>5. ASSUME NEW c \in Check, NEW h \in Handle, NEW r \in Run, NEW a \in Ack,
               NEW wake \in Wake, CheckWaits(c, h, r, a, wake)
        PROVE  Box!Next
    BY <1>5, AckedMaps DEF CheckWaits, DeliversNothing
  <1>6. ASSUME NEW c \in Check, TimesOut(c) \/ WokenIsFenced(c) \/ WokenFindsNothing(c)
        PROVE  UNCHANGED Box!vars
    BY <1>6, QuietMaps DEF TimesOut, WokenIsFenced, WokenFindsNothing, DeliversNothing
  <1>7. ASSUME Restart
        PROVE  UNCHANGED Box!vars
    BY <1>7, QuietMaps DEF Restart
  <1> QED BY <1>1, <1>2, <1>3, <1>4, <1>5, <1>6, <1>7, NextEffects, StoresMaps, ReplyMaps,
             CheckAnswersMaps, WokenAnswersMaps

\* The mailboxes of the runs, with their hand-overs, replays, lost replies and
\* restarts, implement the queues of Mailbox.
THEOREM Implementation == Spec => ImplementsMailbox
  <1>1. Init => Box!Init
    <2> SUFFICES ASSUME Init PROVE Box!Init
      OBVIOUS
    <2>1. \A r \in Run : MailOf(r) = {}
      BY DEF Init, MailOf, AbsentMessage, Run, NoRun
    <2>2. \A r \in Run : Unread(r, read) = {} /\ Shown(r) = {}
      BY <2>1 DEF Init, Unread, Shown
    <2> QED BY <2>1, <2>2 DEF Box!Init
  <1>2. IInv /\ [Next]_vars => [Box!Next]_(Box!vars)
    <2> SUFFICES ASSUME IInv, [Next]_vars PROVE Box!Next \/ UNCHANGED Box!vars
      OBVIOUS
    <2>1. CASE Next
      BY <2>1, NextMaps
    <2>2. CASE UNCHANGED vars
      BY <2>2, QuietMaps DEF vars
    <2> QED BY <2>1, <2>2
  <1> QED BY <1>1, <1>2, InitIInv, NextIInv, PTL DEF Spec, ImplementsMailbox, Box!Spec
=============================================================================
