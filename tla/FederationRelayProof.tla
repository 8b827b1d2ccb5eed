------------------------ MODULE FederationRelayProof ------------------------
(***************************************************************************)
(* Proofs about FederationRelay, for any number of messages, calls and     *)
(* faults: the inductive invariant, the safety properties of both          *)
(* directions of the relay, and the refinement of RelayChannel.            *)
(***************************************************************************)
EXTENDS FederationRelay, TLAPS

-----------------------------------------------------------------------------
(* The inductive invariant *)

Verdicts == Outcomes \union {"rejected"}
Item     == [seq : Nat \ {0}, row : Rows(Kinds)]
Call     == [method : {"ack"}, key : Nat, args : SUBSET (Nat \X Verdicts)]
              \union [method : {"mail"}, key : Nat, args : Nat]
Calls    == late \union done \union pending

MemoryOK ==
  /\ sync \in [pc : {"idle", "pull", "pulled", "import", "ack", "mail"}, items : Seq(Item),
               cursor : Nat, verdicts : SUBSET (Nat \X Verdicts), epoch : Nat, mail : Nat \X Nat]
  /\ checkpoint \in [epoch : Nat, through : Nat]
  /\ stop \in [at : {"none", "sent", "closing", "closed", "lost"}, waits : BOOLEAN]
  /\ Calls \subseteq Call

\* Every row that is in the relay, on its way or in the mailbox, under its number.
Numbered(s, rows) == [seq |-> s, row |-> rows[s]]
Pulled == {sync.items[i] : i \in DOMAIN sync.items}
Seen   == {Numbered(s, relay) : s \in DOMAIN relay}
            \union {Numbered(s, inbox) : s \in DOMAIN inbox} \union Pulled

\* A row with number s is still the relay's row, or a report took it over since.
Matches(s, row) ==
  /\ s \in DOMAIN relay
  /\ row = relay[s] \/ (row.kind = "heartbeat" /\ relay[s].kind \in WorkerDone)

RowsOK ==
  /\ Seen \subseteq Item
  /\ \A p \in Seen : p.row.id <= sends /\ Matches(p.seq, p.row)
  /\ \A p, q \in Seen : p.row.id = q.row.id => p = q

PassOK ==
  /\ sync.cursor <= imported
  /\ sync.pc = "pulled" /\ sync.items # <<>> => sync.items[1].seq <= imported + 1
  /\ sync.mail[2] <= queued
  /\ \A v \in sync.verdicts : v[2] \in Outcomes => v[2] = home

\* A call never says more than the home server knows, now or later.
CallOK(c) ==
  /\ c.method = "ack" => c.key <= imported /\ \A v \in c.args : v[2] \in Outcomes => v[2] = home
  /\ c.method = "mail" => c.key <= queued

CallsOK == \A c \in Calls : CallOK(c)

DoneOK == \A c \in done :
  /\ c.method = "ack" => c.key <= acked
  /\ c.method = "mail" => c.key <= mailCursor

StopOK ==
  /\ stop.at = "closing" => att = "stopping"
  /\ stop.at = "closed" => att \in {"stopped", "stop_unknown"}

MailOK == Len(mail) <= queued /\ \A i \in DOMAIN mail : mail[i] = i

IInv ==
  /\ TypeOK /\ MemoryOK
  /\ RowsOK /\ InOrder /\ AckedIsImported
  /\ PassOK /\ CallsOK /\ DoneOK /\ CheckpointIsSound
  /\ StopOK /\ NoSplitVerdict
  /\ MailOK /\ MailIsStored

-----------------------------------------------------------------------------
(* Initial states *)

LEMMA InitIInv == Init => IInv
  <1> SUFFICES ASSUME Init PROVE IInv
    OBVIOUS
  <1> USE DEF Init
  <1>1. TypeOK
    BY RelayAssumption DEF TypeOK, Outcomes
  <1>2. MemoryOK
    BY DEF MemoryOK, NoSync, NoCheckpoint, NoStop, Calls, Verdicts, Outcomes
  <1>3. RowsOK
    BY DEF RowsOK, Seen, Pulled, NoSync
  <1>4. PassOK /\ CallsOK /\ DoneOK /\ CheckpointIsSound /\ StopOK
    BY DEF PassOK, CallsOK, DoneOK, CheckpointIsSound, StopOK, Calls, NoSync, NoCheckpoint, NoStop
  <1>5. InOrder /\ AckedIsImported /\ NoSplitVerdict /\ MailOK /\ MailIsStored
    BY DEF InOrder, AckedIsImported, NoSplitVerdict, MailOK, MailIsStored, Outcomes
  <1> QED BY <1>1, <1>2, <1>3, <1>4, <1>5 DEF IInv

-----------------------------------------------------------------------------
(* The worker's server takes a call *)

LEMMA MaxOfIsMax ==
  ASSUME NEW a \in Nat, NEW b \in Nat
  PROVE  MaxOf(a, b) \in {a, b} /\ MaxOf(a, b) >= a /\ MaxOf(a, b) >= b
  BY DEF MaxOf

LEMMA MinOfIsMin ==
  ASSUME NEW a \in Nat, NEW b \in Nat
  PROVE  MinOf(a, b) \in {a, b} /\ MinOf(a, b) <= a /\ MinOf(a, b) <= b
  BY DEF MinOf

LEMMA Counters ==
  ASSUME IInv
  PROVE  /\ acked \in Nat /\ imported \in Nat /\ acked <= imported
         /\ Len(relay) \in Nat /\ imported <= Len(relay)
         /\ queued \in Nat /\ outAcked \in Nat /\ outAcked <= queued
         /\ mailCursor \in Nat /\ Len(mail) \in Nat
         /\ outAcked <= mailCursor /\ mailCursor <= Len(mail) /\ Len(mail) <= queued
         /\ sends \in Nat /\ faults \in Nat /\ epoch \in Nat
  <1>1. /\ acked \in Nat /\ Len(relay) \in Nat /\ imported \in 0 .. Len(relay)
        /\ queued \in Nat /\ outAcked \in 0 .. queued
    BY RelayAssumption DEF IInv, TypeOK
  <1>2. /\ mailCursor \in Nat /\ Len(mail) \in Nat
        /\ sends \in Nat /\ faults \in Nat /\ epoch \in Nat
    BY RelayAssumption DEF IInv, TypeOK
  <1>3. acked <= imported /\ outAcked <= mailCursor /\ mailCursor <= Len(mail)
        /\ Len(mail) <= queued
    BY DEF IInv, AckedIsImported, MailIsStored, MailOK
  <1> QED BY <1>1, <1>2, <1>3

\* What a call of the home, whole or torn, does to the worker's database: its
\* cursors move on within what the home knows, a ready attachment may settle as
\* the home has, and the mail grows by the messages that come next.
Progress ==
  /\ acked' \in acked .. imported
  /\ att' = att \/ (att = "ready" /\ att' \in Outcomes /\ att' = home)
  /\ mailCursor' \in Nat /\ mailCursor <= mailCursor' /\ mailCursor' <= Len(mail')
  /\ mail' \in Seq(Nat) /\ Len(mail) <= Len(mail') /\ Len(mail') <= queued
  /\ \A i \in DOMAIN mail' : mail'[i] = i

LEMMA AckIsProgress ==
  ASSUME IInv, NEW call \in Call, CallOK(call), call.method = "ack",
         ~AckRefused(call), AckRows(call)
  PROVE  Progress /\ acked' >= call.key
  <1>1. acked \in Nat /\ imported \in Nat /\ acked <= imported /\ call.key \in Nat
        /\ call.key <= imported
    BY DEF IInv, TypeOK, AckedIsImported, Call, CallOK
  <1>2. acked' \in acked .. imported /\ acked' >= call.key
    BY <1>1, MaxOfIsMax DEF AckRows
  <1>3. att' = att \/ (att = "ready" /\ att' \in Outcomes /\ att' = home)
    <2>1. CASE Settling(call) = {}
      BY <2>1 DEF AckRows
    <2>2. CASE Settling(call) # {}
      <3> DEFINE w == CHOOSE v \in Settling(call) : TRUE
      <3>1. w \in Settling(call)
        BY <2>2
      <3>2. w \in call.args /\ w[2] \in Outcomes
        BY <3>1 DEF Settling
      <3>3. w[2] = home
        BY <3>2 DEF CallOK
      <3>4. att \in {"ready", w[2]}
        BY <3>1 DEF AckRefused
      <3>5. att' = w[2]
        BY <2>2 DEF AckRows
      <3> QED BY <3>2, <3>3, <3>4, <3>5
    <2> QED BY <2>1, <2>2
  <1>4. mail' = mail /\ mailCursor' = mailCursor
    BY DEF AckRows
  <1> QED BY <1>2, <1>3, <1>4 DEF Progress, IInv, TypeOK, MailOK, MailIsStored

\* Storing mail up to message n, with the cursor at n or one behind.
LEMMA StoreIsProgress ==
  ASSUME IInv, NEW n \in Nat, NEW cursor \in Nat, n <= queued,
         mailCursor <= cursor, cursor <= MaxOf(n, Len(mail)), StoreMail(n, cursor)
  PROVE  Progress /\ mailCursor' = cursor
  <1>1. /\ mail \in Seq(Nat) /\ Len(mail) \in Nat /\ Len(mail) <= queued /\ queued \in Nat
        /\ \A i \in DOMAIN mail : mail[i] = i
        /\ acked \in Nat /\ imported \in Nat /\ acked <= imported
    BY DEF IInv, TypeOK, MailOK, AckedIsImported
  <1> DEFINE more == MaxOf(n, Len(mail)) - Len(mail)
             tail == [i \in 1 .. more |-> Len(mail) + i]
  <1>2. more \in Nat /\ Len(mail) + more = MaxOf(n, Len(mail)) /\ Len(mail) + more <= queued
    BY <1>1, MaxOfIsMax
  <1>3. tail \in Seq(Nat) /\ Len(tail) = more
    BY <1>1, <1>2
  <1>4. mail' = mail \o tail
    BY DEF StoreMail
  <1> HIDE DEF more
  <1>5. mail' \in Seq(Nat) /\ Len(mail') = Len(mail) + more
    BY <1>1, <1>2, <1>3, <1>4
  <1>6. ASSUME NEW i \in DOMAIN mail'
        PROVE  mail'[i] = i
    <2>1. i \in 1 .. Len(mail) + more
      BY <1>5
    <2>2. CASE i <= Len(mail)
      BY <1>1, <1>2, <1>3, <1>4, <2>1, <2>2
    <2>3. CASE i > Len(mail)
      <3>1. mail'[i] = tail[i - Len(mail)]
        BY <1>1, <1>2, <1>3, <1>4, <2>1, <2>3
      <3>2. i - Len(mail) \in 1 .. more
        BY <1>1, <1>2, <2>1, <2>3
      <3> QED BY <1>1, <3>1, <3>2
    <2> QED BY <1>1, <2>1, <2>2, <2>3
  <1>7. acked' = acked /\ att' = att /\ mailCursor' = cursor
    BY DEF StoreMail
  <1> QED BY <1>1, <1>2, <1>5, <1>6, <1>7 DEF Progress

LEMMA NothingIsProgress ==
  ASSUME IInv, UNCHANGED <<acked, att, mail, mailCursor>>
  PROVE  Progress
  BY DEF Progress, IInv, TypeOK, MailOK, MailIsStored, AckedIsImported

\* A served call: what is done lies within the cursors.
LEMMA ServeIsProgress ==
  ASSUME IInv, NEW call \in Call, CallOK(call), Serve(call)
  PROVE  /\ Progress
         /\ UNCHANGED <<relay, pending, epoch, sends>>
         /\ done' \subseteq done \union {call} /\ DoneOK'
         /\ Accepted(call) => call \in done'
  <1>0. /\ \A c \in done : /\ c.method = "ack" => c.key <= acked
                           /\ c.method = "mail" => c.key <= mailCursor
        /\ call.key \in Nat /\ done \subseteq Call
    BY DEF IInv, DoneOK, MemoryOK, Calls, Call
  <1>1. /\ acked \in Nat /\ mailCursor \in Nat /\ imported \in Nat /\ queued \in Nat
        /\ mailCursor <= Len(mail) /\ Len(mail) \in Nat
    BY Counters
  <1>2. \A c \in done : c.key \in Nat
    BY <1>0 DEF Call
  <1>3. CASE UNCHANGED worker /\ (Accepted(call) => call \in done)
    <2>1. UNCHANGED <<acked, att, mail, mailCursor>> /\ UNCHANGED <<relay, pending, epoch, sends>>
          /\ done' = done
      BY <1>3 DEF worker
    <2> QED BY <1>0, <1>3, <2>1, NothingIsProgress DEF DoneOK
  <1>4. CASE /\ Accepted(call) /\ call \notin done
             /\ Effect(call)
             /\ done' = done \union {call}
             /\ UNCHANGED <<relay, pending, epoch, sends>>
    <2>1. ~Refused(call)
      BY <1>4 DEF Accepted
    <2>2. CASE call.method = "ack"
      <3>1. Progress /\ acked' >= call.key
        BY <1>4, <2>1, <2>2, AckIsProgress DEF Effect, Refused
      <3>2. acked' >= acked /\ acked' \in Nat /\ mailCursor' >= mailCursor /\ mailCursor' \in Nat
        BY <1>1, <3>1 DEF Progress
      <3>3. DoneOK'
        BY <1>0, <1>1, <1>2, <1>4, <2>2, <3>1, <3>2 DEF DoneOK
      <3> QED BY <1>4, <3>1, <3>3
    <2>3. CASE call.method # "ack"
      <3>1. call.method = "mail"
        BY <2>3 DEF Call
      <3>2. call.key <= queued
        BY <3>1 DEF CallOK
      <3> DEFINE cursor == MaxOf(mailCursor, call.key)
      <3>3. StoreMail(call.key, cursor)
        BY <1>4, <2>3 DEF Effect
      <3>4. cursor \in Nat /\ mailCursor <= cursor /\ cursor >= call.key
            /\ cursor <= MaxOf(call.key, Len(mail))
        BY <1>0, <1>1 DEF MaxOf
      <3> HIDE DEF cursor
      <3>5. Progress /\ mailCursor' = cursor
        BY <1>0, <3>2, <3>3, <3>4, StoreIsProgress
      <3>6. acked' >= acked /\ acked' \in Nat
        BY <1>1, <3>5 DEF Progress
      <3>7. DoneOK'
        BY <1>0, <1>1, <1>2, <1>4, <3>1, <3>4, <3>5, <3>6 DEF DoneOK
      <3> QED BY <1>4, <3>5, <3>7
    <2> QED BY <2>2, <2>3
  <1> QED BY <1>3, <1>4 DEF Serve

-----------------------------------------------------------------------------
(* Steps that neither import nor add a message *)

LEMMA RowsShrink ==
  ASSUME RowsOK, UNCHANGED <<relay, sends>>, Seen' \subseteq Seen
  PROVE  RowsOK'
  <1>1. \A p \in Seen' : p \in Seen
    OBVIOUS
  <1> QED BY <1>1 DEF RowsOK, Matches

PassType == [pc : {"idle", "pull", "pulled", "import", "ack", "mail"}, items : Seq(Item),
             cursor : Nat, verdicts : SUBSET (Nat \X Verdicts), epoch : Nat, mail : Nat \X Nat]

\* What such a step may do: the worker's cursors progress, the home's acknowledgement
\* of mail and its checkpoint follow them, and calls come from the home's knowledge.
Quiet ==
  /\ Progress /\ DoneOK'
  /\ UNCHANGED <<relay, sends, imported, inbox, home, queued>>
  /\ epoch' \in Nat \ {0} /\ faults' \in 0 .. MaxFaults
  /\ outAcked' \in Nat /\ outAcked' <= mailCursor' /\ outAcked' <= queued
  /\ \A c \in Calls' : c \in Call /\ CallOK(c)
  /\ sync' \in PassType /\ PassOK' /\ Pulled' \subseteq Seen
  /\ checkpoint' \in [epoch : Nat, through : Nat] /\ checkpoint'.through <= acked'
  /\ stop' \in [at : {"none", "sent", "closing", "closed", "lost"}, waits : BOOLEAN]
  /\ stop'.at \in {stop.at, "lost"}
  /\ timer' \in BOOLEAN

LEMMA QuietStep == IInv /\ Quiet => IInv'
  <1> SUFFICES ASSUME IInv, Quiet PROVE IInv'
    OBVIOUS
  <1>1. /\ relay' = relay /\ sends' = sends /\ imported' = imported /\ inbox' = inbox
        /\ home' = home /\ queued' = queued
    BY DEF Quiet
  <1>2. TypeOK'
    <2>1. relay \in Seq(Rows(Kinds)) /\ inbox \in Seq(Rows(Kinds)) /\ sends \in 0 .. MaxSends
          /\ imported \in 0 .. Len(relay) /\ queued \in 0 .. MaxMail
          /\ home \in {"ready", "stopping", "stopped", "stop_unknown"} \union Outcomes
          /\ att \in {"ready", "stopping", "stopped", "stop_unknown"} \union Outcomes
          /\ Len(relay) - acked <= Limit
      BY DEF IInv, TypeOK
    <2>2. acked' \in 0 .. Len(relay) /\ Len(relay) - acked' <= Limit
      <3>1. acked' \in acked .. imported
        BY DEF Quiet, Progress
      <3>2. acked \in Nat /\ imported \in Nat /\ Len(relay) \in Nat /\ imported <= Len(relay)
        BY Counters
      <3>3. Len(relay) - acked <= Limit /\ Limit \in Nat
        BY <2>1, RelayAssumption
      <3> QED BY <3>1, <3>2, <3>3
    <2>3. att' \in {"ready", "stopping", "stopped", "stop_unknown"} \union Outcomes
      BY <2>1 DEF Quiet, Progress
    <2>4. mail' \in Seq(Nat) /\ mailCursor' \in Nat /\ epoch' \in Nat \ {0}
          /\ outAcked' \in 0 .. queued /\ faults' \in 0 .. MaxFaults /\ timer' \in BOOLEAN
      BY Counters DEF Quiet, Progress
    <2> QED BY <1>1, <2>1, <2>2, <2>3, <2>4 DEF TypeOK
  <1>3. MemoryOK'
    BY DEF Quiet, MemoryOK, PassType
  <1>4. RowsOK'
    <2>1. Seen' \subseteq Seen
      BY <1>1 DEF Quiet, Seen, Numbered
    <2> QED BY <1>1, <2>1, RowsShrink DEF IInv
  <1>5. InOrder'
    BY <1>1 DEF IInv, InOrder
  <1>6. AckedIsImported' /\ CheckpointIsSound'
    BY <1>1, Counters DEF Quiet, Progress, AckedIsImported, CheckpointIsSound
  <1>7. PassOK' /\ DoneOK'
    BY DEF Quiet
  <1>8. CallsOK'
    BY <1>1 DEF Quiet, CallsOK, CallOK
  <1>9. StopOK'
    BY DEF Quiet, Progress, IInv, StopOK
  <1>10. NoSplitVerdict'
    BY <1>1 DEF Quiet, Progress, IInv, NoSplitVerdict
  <1>11. MailOK' /\ MailIsStored'
    BY <1>1 DEF Quiet, Progress, MailOK, MailIsStored
  <1> QED BY <1>2, <1>3, <1>4, <1>5, <1>6, <1>7, <1>8, <1>9, <1>10, <1>11 DEF IInv

\* Nothing of the worker's or the home's database changes.
LEMMA Idle ==
  ASSUME IInv, UNCHANGED <<worker, homeDb>>, faults' \in 0 .. MaxFaults,
         late' \subseteq Call, \A c \in late' : CallOK(c),
         sync' \in PassType, PassOK', Pulled' \subseteq Seen,
         checkpoint' \in {checkpoint, NoCheckpoint}, timer' \in BOOLEAN,
         stop' \in {stop, [stop EXCEPT !.waits = FALSE]}
  PROVE  IInv'
  <1>1. UNCHANGED <<relay, acked, att, mail, mailCursor, done, pending, epoch, sends,
                    imported, inbox, home, queued, outAcked>>
    BY DEF worker, homeDb
  <1>2. Progress /\ DoneOK'
    BY <1>1, NothingIsProgress DEF IInv, DoneOK
  <1>3. epoch' \in Nat \ {0}
    BY <1>1 DEF IInv, TypeOK
  <1>4. outAcked' \in Nat /\ outAcked' <= mailCursor' /\ outAcked' <= queued
    BY <1>1, Counters
  <1>5. \A c \in Calls' : c \in Call /\ CallOK(c)
    BY <1>1 DEF IInv, MemoryOK, CallsOK, Calls
  <1>6. checkpoint' \in [epoch : Nat, through : Nat] /\ checkpoint'.through <= acked'
    <2>1. checkpoint \in [epoch : Nat, through : Nat] /\ checkpoint.through <= acked
      BY DEF IInv, MemoryOK, CheckpointIsSound
    <2> QED BY <1>1, <2>1, Counters DEF NoCheckpoint
  <1>7. /\ stop' \in [at : {"none", "sent", "closing", "closed", "lost"}, waits : BOOLEAN]
        /\ stop'.at = stop.at
    BY DEF IInv, MemoryOK
  <1> QED BY <1>1, <1>2, <1>3, <1>4, <1>5, <1>6, <1>7, QuietStep DEF Quiet

-----------------------------------------------------------------------------
(* The steps of a pass before and after its imports *)

LEMMA PassFacts ==
  ASSUME IInv
  PROVE  /\ sync \in PassType /\ PassOK
         /\ imported \in Nat /\ queued \in Nat /\ outAcked \in Nat
         /\ late \subseteq Call /\ (\A c \in late : CallOK(c))
         /\ faults \in 0 .. MaxFaults /\ timer \in BOOLEAN
  <1>1. sync \in PassType /\ late \subseteq Call
    BY DEF IInv, MemoryOK, PassType, Calls
  <1>2. PassOK /\ (\A c \in late : CallOK(c))
    BY DEF IInv, CallsOK, Calls
  <1>3. faults \in 0 .. MaxFaults /\ timer \in BOOLEAN
    BY DEF IInv, TypeOK
  <1> QED BY <1>1, <1>2, <1>3, Counters

LEMMA NoPass ==
  ASSUME IInv, sync' = NoSync, UNCHANGED <<imported, queued>>
  PROVE  sync' \in PassType /\ PassOK' /\ Pulled' = {}
  <1>1. sync' \in PassType
    BY DEF NoSync, PassType
  <1>2. PassOK'
    BY Counters DEF NoSync, PassOK
  <1>3. Pulled' = {}
    BY DEF NoSync, Pulled
  <1> QED BY <1>1, <1>2, <1>3

LEMMA MailPass ==
  ASSUME IInv, sync' = MailOrEnd, UNCHANGED <<imported, queued>>
  PROVE  sync' \in PassType /\ PassOK' /\ Pulled' = {}
  <1>1. CASE sync' = NoSync
    BY <1>1, NoPass
  <1>2. CASE sync' # NoSync
    <2> DEFINE last == MinOf(outAcked + Window, queued)
    <2>1. outAcked \in Nat /\ queued \in Nat /\ Window \in Nat /\ imported \in Nat
      BY Counters, RelayAssumption
    <2>2. last \in Nat /\ last <= queued
      BY <2>1, MinOfIsMin
    <2> HIDE DEF last
    <2>3. sync' = [NoSync EXCEPT !.pc = "mail", !.mail = <<outAcked + 1, last>>]
      BY <1>2 DEF MailOrEnd, last
    <2>4. sync' \in PassType
      <3>1. sync' = [pc |-> "mail", items |-> <<>>, cursor |-> 0, verdicts |-> {}, epoch |-> 0,
                     mail |-> <<outAcked + 1, last>>]
        BY <2>3 DEF NoSync
      <3> QED BY <2>1, <2>2, <3>1 DEF PassType
    <2>5. PassOK'
      BY <2>1, <2>2, <2>3 DEF NoSync, PassOK
    <2>6. Pulled' = {}
      BY <2>3 DEF NoSync, Pulled
    <2> QED BY <2>4, <2>5, <2>6
  <1> QED BY <1>1, <1>2

\* The call of a pass says what the home server knows.
LEMMA InFlightOK ==
  ASSUME IInv, NEW c \in InFlight
  PROVE  c \in Call /\ CallOK(c) /\ c = SyncCall
  <1>1. sync \in PassType /\ PassOK
    BY PassFacts
  <1>2. CASE sync.pc = "ack"
    <2>1. c = AckCall(sync.cursor, sync.verdicts) /\ c = SyncCall
      BY <1>2 DEF InFlight, SyncCall
    <2>2. sync.cursor \in Nat /\ sync.verdicts \in SUBSET (Nat \X Verdicts)
      BY <1>1 DEF PassType
    <2>3. c \in Call
      BY <2>1, <2>2 DEF AckCall, Call
    <2>4. c.method = "ack" /\ c.key = sync.cursor /\ c.args = sync.verdicts
      BY <2>1 DEF AckCall
    <2>5. CallOK(c)
      BY <1>1, <2>4 DEF CallOK, PassOK
    <2> QED BY <2>1, <2>3, <2>5
  <1>3. CASE sync.pc # "ack"
    <2>1. c = MailCall(sync.mail[1], sync.mail[2]) /\ c = SyncCall
      BY <1>3 DEF InFlight, SyncCall
    <2>2. sync.mail[1] \in Nat /\ sync.mail[2] \in Nat
      BY <1>1 DEF PassType
    <2>3. c \in Call
      BY <2>1, <2>2 DEF MailCall, Call
    <2>4. CallOK(c)
      BY <1>1, <2>1 DEF MailCall, CallOK, PassOK
    <2> QED BY <2>1, <2>3, <2>4
  <1> QED BY <1>2, <1>3

LEMMA FreshPass ==
  ASSUME IInv, sync' = NewPass, imported' = imported, queued' \in Nat
  PROVE  sync' \in PassType /\ PassOK' /\ Pulled' = {}
  <1>1. sync' = [pc |-> "pull", items |-> <<>>, cursor |-> imported, verdicts |-> {},
                 epoch |-> 0, mail |-> <<0, 0>>]
    BY DEF NewPass, NoSync
  <1>2. imported \in Nat
    BY Counters
  <1>3. sync' \in PassType
    BY <1>1, <1>2 DEF PassType
  <1>4. PassOK' /\ Pulled' = {}
    BY <1>1, <1>2 DEF PassOK, Pulled
  <1> QED BY <1>3, <1>4

\* Steps that only start a pass, set the timer or stop it.
LEMMA AskSteps == IInv /\ (StartSync \/ TimerStops \/ CheckOrShow) => IInv'
  <1> SUFFICES ASSUME IInv, StartSync \/ TimerStops \/ CheckOrShow PROVE IInv'
    OBVIOUS
  <1>1. UNCHANGED <<worker, homeDb, checkpoint, stop, late, faults>>
    BY DEF StartSync, TimerStops, CheckOrShow
  <1>2. sync' \in {sync, NewPass} /\ timer' \in {timer, TRUE, FALSE}
    BY DEF StartSync, TimerStops, CheckOrShow, EnsureRelay
  <1>3. imported' = imported /\ queued' = queued /\ home' = home
    BY <1>1 DEF homeDb
  <1>4. sync' \in PassType /\ PassOK' /\ Pulled' \subseteq Seen
    <2>1. CASE sync' = NewPass
      BY <1>3, <2>1, FreshPass, Counters
    <2>2. CASE sync' = sync
      BY <1>3, <2>2, PassFacts DEF PassOK, Pulled, Seen
    <2> QED BY <1>2, <2>1, <2>2
  <1>5. UNCHANGED <<worker, homeDb>> /\ faults' \in 0 .. MaxFaults /\ late' \subseteq Call
        /\ (\A c \in late' : CallOK(c)) /\ checkpoint' \in {checkpoint, NoCheckpoint}
        /\ timer' \in BOOLEAN
        /\ stop' \in {stop, [stop EXCEPT !.waits = FALSE]}
    BY <1>1, <1>2, PassFacts
  <1> QED BY <1>4, <1>5, Idle

LEMMA ServePullStep == IInv /\ ServePull => IInv'
  <1> SUFFICES ASSUME IInv, ServePull PROVE IInv'
    OBVIOUS
  <1> DEFINE n == MinOf(Window, Len(relay) - acked)
             rows == [i \in 1 .. n |-> [seq |-> acked + i, row |-> relay[acked + i]]]
  <1>1. /\ sync' = [sync EXCEPT !.pc = "pulled", !.epoch = epoch, !.items = rows]
        /\ UNCHANGED <<worker, homeDb, checkpoint, timer, stop, late, faults>>
    BY DEF ServePull
  <1>2. /\ acked \in Nat /\ Len(relay) \in Nat /\ acked <= Len(relay) /\ acked <= imported
        /\ imported \in Nat /\ epoch \in Nat /\ relay \in Seq(Rows(Kinds))
    BY Counters DEF IInv, TypeOK
  <1>3. n \in Nat /\ acked + n <= Len(relay)
    <2>1. Window \in Nat /\ Len(relay) - acked \in Nat
      BY <1>2, RelayAssumption
    <2> QED BY <1>2, <2>1, MinOfIsMin
  <1> HIDE DEF n
  <1>4. ASSUME NEW i \in 1 .. n
        PROVE  /\ rows[i] = Numbered(acked + i, relay) /\ rows[i] \in Seen /\ rows[i] \in Item
               /\ rows[i].seq = acked + i
    <2>1. acked + i \in DOMAIN relay /\ rows[i] = Numbered(acked + i, relay)
      BY <1>2, <1>3, <1>4 DEF Numbered
    <2>2. rows[i] \in Seen
      BY <2>1 DEF Seen
    <2>3. Seen \subseteq Item
      BY DEF IInv, RowsOK
    <2> QED BY <2>1, <2>2, <2>3 DEF Numbered
  <1>5. rows \in Seq(Item) /\ DOMAIN rows = 1 .. n
    BY <1>3, <1>4
  <1>6. rows # <<>> => rows[1].seq = acked + 1
    BY <1>3, <1>4, <1>5
  <1> HIDE DEF rows
  <1>7. sync \in PassType /\ PassOK
    BY PassFacts
  <1>8. sync' \in PassType /\ sync'.items = rows /\ sync'.cursor = sync.cursor
        /\ sync'.mail = sync.mail /\ sync'.verdicts = sync.verdicts
    BY <1>1, <1>2, <1>5, <1>7 DEF PassType
  <1>9. PassOK'
    <2>1. imported' = imported /\ queued' = queued /\ home' = home
      BY <1>1 DEF homeDb
    <2> QED BY <1>2, <1>6, <1>7, <1>8, <2>1 DEF PassOK
  <1>10. Pulled' \subseteq Seen
    BY <1>4, <1>5, <1>8 DEF Pulled
  <1>11. UNCHANGED <<worker, homeDb>> /\ faults' \in 0 .. MaxFaults /\ late' \subseteq Call
        /\ (\A c \in late' : CallOK(c)) /\ checkpoint' \in {checkpoint, NoCheckpoint}
        /\ timer' \in BOOLEAN
        /\ stop' \in {stop, [stop EXCEPT !.waits = FALSE]}
    BY <1>1, PassFacts
  <1> QED BY <1>8, <1>9, <1>10, <1>11, Idle

LEMMA ReceivePullStep == IInv /\ ReceivePull => IInv'
  <1> SUFFICES ASSUME IInv, ReceivePull PROVE IInv'
    OBVIOUS
  <1> DEFINE cursor == IF sync.items = <<>> THEN sync.cursor ELSE Head(sync.items).seq - 1
  <1>1. /\ sync' = [sync EXCEPT !.pc = "import", !.cursor = cursor] /\ sync.pc = "pulled"
        /\ UNCHANGED <<worker, homeDb, checkpoint, timer, stop, late, faults>>
    BY DEF ReceivePull
  <1>2. sync \in PassType /\ PassOK /\ imported \in Nat
    BY PassFacts
  <1>3. cursor \in Nat /\ cursor <= imported
    <2>1. CASE sync.items = <<>>
      BY <1>2, <2>1 DEF PassOK, PassType
    <2>2. CASE sync.items # <<>>
      <3>1. Head(sync.items) = sync.items[1] /\ sync.items[1] \in Item
        BY <1>2, <2>2 DEF PassType
      <3>2. sync.items[1].seq \in Nat \ {0} /\ sync.items[1].seq <= imported + 1
        BY <1>1, <1>2, <2>2, <3>1 DEF PassOK, Item
      <3> QED BY <1>2, <2>2, <3>1, <3>2
    <2> QED BY <2>1, <2>2
  <1> HIDE DEF cursor
  <1>4. sync' \in PassType /\ sync'.pc = "import" /\ sync'.items = sync.items
        /\ sync'.cursor = cursor /\ sync'.mail = sync.mail /\ sync'.verdicts = sync.verdicts
    BY <1>1, <1>2, <1>3 DEF PassType
  <1>5. PassOK'
    <2>1. imported' = imported /\ queued' = queued /\ home' = home
      BY <1>1 DEF homeDb
    <2> QED BY <1>2, <1>3, <1>4, <2>1 DEF PassOK
  <1>6. Pulled' \subseteq Seen
    BY <1>4 DEF Pulled, Seen
  <1>7. UNCHANGED <<worker, homeDb>> /\ faults' \in 0 .. MaxFaults /\ late' \subseteq Call
        /\ (\A c \in late' : CallOK(c)) /\ checkpoint' \in {checkpoint, NoCheckpoint}
        /\ timer' \in BOOLEAN
        /\ stop' \in {stop, [stop EXCEPT !.waits = FALSE]}
    BY <1>1, PassFacts
  <1> QED BY <1>4, <1>5, <1>6, <1>7, Idle

LEMMA EndImportStep == IInv /\ (ImportFails \/ EndImport) => IInv'
  <1> SUFFICES ASSUME IInv, ImportFails \/ EndImport PROVE IInv'
    OBVIOUS
  <1>1. UNCHANGED <<worker, homeDb, checkpoint, timer, stop, late, faults>>
    BY DEF ImportFails, EndImport
  <1>2. UNCHANGED <<imported, queued>> /\ home' = home
    BY <1>1 DEF homeDb
  <1>3. sync' \in PassType /\ PassOK' /\ Pulled' \subseteq Seen
    <2>1. CASE sync' = NoSync
      BY <1>2, <2>1, NoPass
    <2>2. CASE sync' = MailOrEnd
      BY <1>2, <2>2, MailPass
    <2>3. CASE sync' = [sync EXCEPT !.pc = "ack"]
      <3>1. sync \in PassType /\ PassOK
        BY PassFacts
      <3>2. sync' \in PassType /\ sync'.pc = "ack" /\ sync'.items = sync.items
            /\ sync'.cursor = sync.cursor /\ sync'.mail = sync.mail
            /\ sync'.verdicts = sync.verdicts
        BY <2>3, <3>1 DEF PassType
      <3>3. PassOK'
        BY <1>2, <3>1, <3>2 DEF PassOK
      <3>4. Pulled' \subseteq Seen
        BY <3>2 DEF Pulled, Seen
      <3> QED BY <3>2, <3>3, <3>4
    <2> QED BY <2>1, <2>2, <2>3 DEF ImportFails, EndImport
  <1>4. UNCHANGED <<worker, homeDb>> /\ faults' \in 0 .. MaxFaults /\ late' \subseteq Call
        /\ (\A c \in late' : CallOK(c)) /\ checkpoint' \in {checkpoint, NoCheckpoint}
        /\ timer' \in BOOLEAN
        /\ stop' \in {stop, [stop EXCEPT !.waits = FALSE]}
    BY <1>1, PassFacts
  <1> QED BY <1>3, <1>4, Idle

LEMMA GiveUpStep == IInv /\ (Timeout \/ RestartHome) => IInv'
  <1> SUFFICES ASSUME IInv, Timeout \/ RestartHome PROVE IInv'
    OBVIOUS
  <1>1. /\ UNCHANGED <<worker, homeDb>> /\ sync' = NoSync
        /\ late' = late \union InFlight
        /\ faults < MaxFaults /\ faults' = faults + 1
        /\ checkpoint' \in {checkpoint, NoCheckpoint}
        /\ stop' \in {stop, [stop EXCEPT !.waits = FALSE]}
        /\ timer' \in {timer, FALSE}
    BY DEF Timeout, RestartHome
  <1>2. UNCHANGED <<imported, queued>>
    BY <1>1 DEF homeDb
  <1>3. sync' \in PassType /\ PassOK' /\ Pulled' \subseteq Seen
    BY <1>1, <1>2, NoPass
  <1>4. late' \subseteq Call /\ (\A c \in late' : CallOK(c))
    BY <1>1, PassFacts, InFlightOK
  <1>5. faults' \in 0 .. MaxFaults
    BY <1>1, PassFacts, RelayAssumption
  <1>6. timer' \in BOOLEAN
    BY <1>1, PassFacts
  <1> QED BY <1>1, <1>3, <1>4, <1>5, <1>6, Idle

-----------------------------------------------------------------------------
(* Calls served, late and torn, and the worker's server restarting *)

LEMMA ServeStep ==
  ASSUME IInv, NEW call \in Call, CallOK(call), Serve(call),
         UNCHANGED <<imported, inbox, home, queued, timer, stop, faults>>, late' \subseteq late,
         sync' \in PassType, PassOK', Pulled' \subseteq Seen,
         outAcked' \in Nat, outAcked' <= mailCursor', outAcked' <= queued,
         checkpoint' \in [epoch : Nat, through : Nat], checkpoint'.through <= acked'
  PROVE  IInv'
  <1>1. /\ Progress /\ UNCHANGED <<relay, pending, epoch, sends>>
        /\ done' \subseteq done \union {call} /\ DoneOK'
    BY ServeIsProgress
  <1>2. epoch' \in Nat \ {0} /\ faults' \in 0 .. MaxFaults
    BY <1>1 DEF IInv, TypeOK
  <1>3. \A c \in Calls' : c \in Call /\ CallOK(c)
    BY <1>1 DEF IInv, MemoryOK, CallsOK, Calls
  <1>4. /\ stop' \in [at : {"none", "sent", "closing", "closed", "lost"}, waits : BOOLEAN]
        /\ stop'.at = stop.at
    BY DEF IInv, MemoryOK
  <1>5. UNCHANGED <<relay, sends, imported, inbox, home, queued>>
    BY <1>1
  <1>6. Quiet
    BY <1>1, <1>2, <1>3, <1>4, <1>5, PassFacts DEF Quiet
  <1> QED BY <1>6, QuietStep

LEMMA AcknowledgeStep == IInv /\ Acknowledge => IInv'
  <1> SUFFICES ASSUME IInv, Acknowledge PROVE IInv'
    OBVIOUS
  <1> DEFINE call == SyncCall
  <1>1. sync.pc = "ack" /\ Serve(call) /\ UNCHANGED <<homeDb, timer, stop, late, faults>>
    BY DEF Acknowledge
  <1>2. call \in Call /\ CallOK(call)
    BY <1>1, InFlightOK DEF InFlight
  <1>3. call.method = "ack" /\ call.key = sync.cursor
    BY <1>1 DEF SyncCall, AckCall
  <1> HIDE DEF call
  <1>4. UNCHANGED <<imported, inbox, home, queued, outAcked, timer, stop, faults>> /\ late' \subseteq late
    BY <1>1 DEF homeDb
  <1>5. Progress /\ DoneOK' /\ (Accepted(call) => call \in done')
    BY <1>1, <1>2, ServeIsProgress
  <1>6. sync' \in PassType /\ PassOK' /\ Pulled' \subseteq Seen
    <2>1. CASE sync' = NoSync
      BY <1>4, <2>1, NoPass
    <2>2. CASE sync' = MailOrEnd
      BY <1>4, <2>2, MailPass
    <2> QED BY <2>1, <2>2 DEF Acknowledge
  <1>7. outAcked' \in Nat /\ outAcked' <= mailCursor' /\ outAcked' <= queued
    BY <1>4, <1>5, Counters DEF Progress
  <1>8. checkpoint' \in [epoch : Nat, through : Nat] /\ checkpoint'.through <= acked'
    <2>1. CASE Accepted(call)
      <3>1. checkpoint' = [epoch |-> sync.epoch, through |-> sync.cursor]
        BY <2>1 DEF Acknowledge, call
      <3>2. call \in done'
        BY <1>5, <2>1
      <3>3. sync.cursor <= acked'
        BY <1>3, <1>5, <3>2 DEF DoneOK
      <3>4. sync \in PassType
        BY PassFacts
      <3> QED BY <3>1, <3>3, <3>4 DEF PassType
    <2>2. CASE ~Accepted(call)
      <3>1. checkpoint' = checkpoint
        BY <2>2 DEF Acknowledge, call
      <3>2. checkpoint \in [epoch : Nat, through : Nat] /\ checkpoint.through <= acked
        BY DEF IInv, MemoryOK, CheckpointIsSound
      <3>3. acked' >= acked /\ acked' \in Nat /\ acked \in Nat
        BY <1>5, Counters DEF Progress
      <3> QED BY <3>1, <3>2, <3>3
    <2> QED BY <2>1, <2>2
  <1> QED BY <1>1, <1>2, <1>4, <1>6, <1>7, <1>8, ServeStep

LEMMA DeliverMailStep == IInv /\ DeliverMail => IInv'
  <1> SUFFICES ASSUME IInv, DeliverMail PROVE IInv'
    OBVIOUS
  <1> DEFINE call == SyncCall
  <1>1. /\ sync.pc = "mail" /\ Serve(call) /\ sync' = NoSync
        /\ UNCHANGED <<imported, inbox, home, queued, checkpoint, timer, stop, late, faults>>
    BY DEF DeliverMail
  <1>2. call \in Call /\ CallOK(call)
    BY <1>1, InFlightOK DEF InFlight
  <1>3. call.method = "mail" /\ call.key = sync.mail[2]
    BY <1>1 DEF SyncCall, MailCall
  <1> HIDE DEF call
  <1>4. Progress /\ DoneOK' /\ (Accepted(call) => call \in done')
    BY <1>1, <1>2, ServeIsProgress
  <1>5. sync' \in PassType /\ PassOK' /\ Pulled' \subseteq Seen
    BY <1>1, NoPass
  <1>6. outAcked' \in Nat /\ outAcked' <= mailCursor' /\ outAcked' <= queued
    <2>1. /\ outAcked \in Nat /\ outAcked <= mailCursor' /\ outAcked <= queued
          /\ mailCursor' \in Nat /\ queued \in Nat
      <3>1. mailCursor' \in Nat /\ mailCursor <= mailCursor'
        BY <1>4 DEF Progress
      <3>2. outAcked \in Nat /\ outAcked <= mailCursor /\ outAcked <= queued
            /\ mailCursor \in Nat /\ queued \in Nat
        BY Counters
      <3> QED BY <3>1, <3>2
    <2>2. CASE Accepted(call)
      <3>1. outAcked' = MaxOf(outAcked, sync.mail[2])
        BY <2>2 DEF DeliverMail, call
      <3>2. sync.mail[2] <= mailCursor'
        BY <1>3, <1>4, <2>2 DEF DoneOK
      <3>3. sync.mail[2] \in Nat /\ sync.mail[2] <= queued
        BY PassFacts DEF PassType, PassOK
      <3> QED BY <2>1, <3>1, <3>2, <3>3, MaxOfIsMax
    <2>3. CASE ~Accepted(call)
      <3>1. outAcked' = outAcked
        BY <2>3 DEF DeliverMail, call
      <3> QED BY <2>1, <3>1
    <2> QED BY <2>2, <2>3
  <1>7. checkpoint' \in [epoch : Nat, through : Nat] /\ checkpoint'.through <= acked'
    <2>1. checkpoint \in [epoch : Nat, through : Nat] /\ checkpoint.through <= acked
      BY DEF IInv, MemoryOK, CheckpointIsSound
    <2>2. acked' >= acked /\ acked' \in Nat /\ acked \in Nat
      BY <1>4, Counters DEF Progress
    <2> QED BY <1>1, <2>1, <2>2
  <1> QED BY <1>1, <1>2, <1>5, <1>6, <1>7, ServeStep

LEMMA ServeLateStep == IInv /\ ServeLate => IInv'
  <1> SUFFICES ASSUME IInv, ServeLate PROVE IInv'
    OBVIOUS
  <1>1. UNCHANGED <<homeDb, checkpoint, timer, sync, stop, faults>>
    BY DEF ServeLate
  <1>2. PICK call \in late : Serve(call) /\ late' = late \ {call}
    BY DEF ServeLate
  <1>3. call \in Call /\ CallOK(call)
    BY <1>2, PassFacts
  <1>4. Progress
    BY <1>2, <1>3, ServeIsProgress
  <1>5. UNCHANGED <<imported, inbox, home, queued, outAcked>>
    BY <1>1 DEF homeDb
  <1>6. sync' \in PassType /\ PassOK' /\ Pulled' \subseteq Seen
    BY <1>1, <1>5, PassFacts DEF PassOK, Pulled, Seen
  <1>7. outAcked' \in Nat /\ outAcked' <= mailCursor' /\ outAcked' <= queued
    BY <1>4, <1>5, Counters DEF Progress
  <1>8. checkpoint' \in [epoch : Nat, through : Nat] /\ checkpoint'.through <= acked'
    <2>1. checkpoint \in [epoch : Nat, through : Nat] /\ checkpoint.through <= acked
      BY DEF IInv, MemoryOK, CheckpointIsSound
    <2>2. acked' >= acked /\ acked' \in Nat /\ acked \in Nat
      BY <1>4, Counters DEF Progress
    <2> QED BY <1>1, <2>1, <2>2
  <1> QED BY <1>1, <1>2, <1>3, <1>5, <1>6, <1>7, <1>8, ServeStep

\* The worker's server goes down, with or without a call torn in its transactions.
LEMMA DownStep ==
  ASSUME IInv, WorkerDown, Progress, done' = done, pending' \subseteq Calls \union InFlight
  PROVE  IInv'
  <1>1. /\ faults < MaxFaults /\ faults' = faults + 1 /\ epoch' = epoch + 1 /\ late' = {}
        /\ sync' \in {NoSync, sync}
        /\ stop' \in {stop, [stop EXCEPT !.at = "lost"]}
        /\ UNCHANGED <<relay, sends, homeDb, checkpoint, timer>>
    BY DEF WorkerDown
  <1>2. UNCHANGED <<relay, sends, imported, inbox, home, queued>> /\ outAcked' = outAcked
    BY <1>1 DEF homeDb
  <1>3. acked' \in Nat /\ acked <= acked' /\ mailCursor' \in Nat /\ mailCursor <= mailCursor'
    BY Counters DEF Progress
  <1>4. DoneOK'
    <2>1. /\ \A c \in done : /\ c.method = "ack" => c.key <= acked
                             /\ c.method = "mail" => c.key <= mailCursor
          /\ \A c \in done : c.key \in Nat
      BY DEF IInv, DoneOK, MemoryOK, Calls, Call
    <2> QED BY <1>3, <2>1, Counters DEF DoneOK
  <1>5. epoch' \in Nat \ {0} /\ faults' \in 0 .. MaxFaults
    <2>1. faults \in 0 .. MaxFaults /\ MaxFaults \in Nat /\ epoch \in Nat
      BY PassFacts, Counters, RelayAssumption
    <2>2. faults' = faults + 1 /\ faults < MaxFaults /\ epoch' = epoch + 1
      BY <1>1
    <2> QED BY <2>1, <2>2
  <1>6. outAcked' \in Nat /\ outAcked' <= mailCursor' /\ outAcked' <= queued
    <2>1. outAcked \in Nat /\ outAcked <= mailCursor /\ outAcked <= queued /\ mailCursor \in Nat
      BY Counters
    <2> QED BY <1>2, <1>3, <2>1
  <1>7. \A c \in Calls' : c \in Call /\ CallOK(c)
    <2>1. \A c \in Calls' : c \in Calls \union InFlight
      BY <1>1 DEF Calls
    <2>2. \A c \in Calls : c \in Call /\ CallOK(c)
      BY DEF IInv, MemoryOK, CallsOK
    <2> QED BY <2>1, <2>2, InFlightOK
  <1>8. sync' \in PassType /\ PassOK' /\ Pulled' \subseteq Seen
    <2>1. CASE sync' = NoSync
      BY <1>2, <2>1, NoPass
    <2>2. CASE sync' = sync
      BY <1>2, <2>2, PassFacts DEF PassOK, Pulled, Seen
    <2> QED BY <1>1, <2>1, <2>2
  <1>9. checkpoint' \in [epoch : Nat, through : Nat] /\ checkpoint'.through <= acked'
    <2>1. checkpoint \in [epoch : Nat, through : Nat] /\ checkpoint.through <= acked
      BY DEF IInv, MemoryOK, CheckpointIsSound
    <2> QED BY <1>1, <1>3, <2>1, Counters
  <1>10. /\ stop' \in [at : {"none", "sent", "closing", "closed", "lost"}, waits : BOOLEAN]
         /\ stop'.at \in {stop.at, "lost"}
    <2>1. stop \in [at : {"none", "sent", "closing", "closed", "lost"}, waits : BOOLEAN]
      BY DEF IInv, MemoryOK
    <2> QED BY <1>1, <2>1
  <1>11. timer' \in BOOLEAN
    BY <1>1, PassFacts
  <1>12. Quiet
    BY <1>2, <1>4, <1>5, <1>6, <1>7, <1>8, <1>9, <1>10, <1>11 DEF Quiet
  <1> QED BY <1>12, QuietStep

LEMMA RestartWorkerStep == IInv /\ RestartWorker => IInv'
  <1> SUFFICES ASSUME IInv, RestartWorker PROVE IInv'
    OBVIOUS
  <1>1. WorkerDown /\ UNCHANGED <<acked, att, mail, mailCursor, done, pending>>
    BY DEF RestartWorker
  <1>2. Progress
    BY <1>1, NothingIsProgress
  <1>3. pending' \subseteq Calls \union InFlight
    BY <1>1 DEF Calls
  <1> QED BY <1>1, <1>2, <1>3, DownStep

LEMMA TornCallStep == IInv /\ TornCall => IInv'
  <1> SUFFICES ASSUME IInv, TornCall PROVE IInv'
    OBVIOUS
  <1>1. PICK call \in late \union InFlight :
          /\ pending' = pending \union {call}
          /\ \/ UNCHANGED <<acked, att, mail, mailCursor>>
             \/ call.method = "ack" /\ ~Refused(call) /\ AckRows(call)
             \/ /\ call.method = "mail" /\ ~Refused(call)
                /\ \E n \in mailCursor .. call.key :
                     StoreMail(n, n) \/ (n < call.key /\ StoreMail(n + 1, n))
    BY DEF TornCall
  <1>2. call \in Call /\ CallOK(call)
    BY PassFacts, InFlightOK
  <1>3. Progress
    <2>1. CASE UNCHANGED <<acked, att, mail, mailCursor>>
      BY <2>1, NothingIsProgress
    <2>2. CASE call.method = "ack" /\ ~Refused(call) /\ AckRows(call)
      BY <1>2, <2>2, AckIsProgress DEF Refused
    <2>3. CASE /\ call.method = "mail"
               /\ \E n \in mailCursor .. call.key :
                    StoreMail(n, n) \/ (n < call.key /\ StoreMail(n + 1, n))
      <3>1. PICK n \in mailCursor .. call.key :
              StoreMail(n, n) \/ (n < call.key /\ StoreMail(n + 1, n))
        BY <2>3
      <3>2. call.key \in Nat /\ call.key <= queued
        BY <1>2, <2>3 DEF CallOK, Call
      <3>3. mailCursor \in Nat /\ queued \in Nat /\ Len(mail) \in Nat
        BY Counters
      <3>4. n \in Nat /\ mailCursor <= n /\ n <= queued
        BY <3>1, <3>2, <3>3
      <3>5. CASE StoreMail(n, n)
        <4>1. n <= MaxOf(n, Len(mail))
          BY <3>3, <3>4, MaxOfIsMax
        <4> QED BY <3>4, <3>5, <4>1, StoreIsProgress
      <3>6. CASE n < call.key /\ StoreMail(n + 1, n)
        <4>1. n + 1 \in Nat /\ n + 1 <= queued
          BY <3>2, <3>3, <3>4, <3>6
        <4>2. n <= MaxOf(n + 1, Len(mail))
          BY <3>3, <3>4, <4>1, MaxOfIsMax
        <4> QED BY <3>4, <3>6, <4>1, <4>2, StoreIsProgress
      <3> QED BY <3>1, <3>5, <3>6
    <2> QED BY <1>1, <2>1, <2>2, <2>3
  <1>4. pending' \subseteq Calls \union InFlight
    BY <1>1 DEF Calls
  <1>5. WorkerDown /\ done' = done
    BY DEF TornCall
  <1> QED BY <1>3, <1>4, <1>5, DownStep

-----------------------------------------------------------------------------
(* Stops, and mail the coordinator sends *)

\* A step of the home server outside a pass: a Dispatch without a verdict moves
\* along its stop, or a message of mail is queued.
LEMMA HomeStep ==
  ASSUME IInv, UNCHANGED <<worker, imported, inbox, outAcked, checkpoint, late>>,
         sync' \in {sync, NewPass}, timer' \in BOOLEAN,
         queued' \in 0 .. MaxMail, queued <= queued', faults' \in 0 .. MaxFaults,
         \/ home' = home
         \/ /\ home \notin Outcomes /\ home' \in {"stopping", "stopped", "stop_unknown"}
            /\ home' = "stopped" => att = "stopped",
         stop' \in [at : {"none", "sent", "closing", "closed", "lost"}, waits : BOOLEAN],
         stop'.at \in {stop.at, "sent"}
  PROVE  IInv'
  <1>1. UNCHANGED <<relay, acked, att, mail, mailCursor, done, pending, epoch, sends,
                    imported, inbox, outAcked, checkpoint, late>>
    BY DEF worker
  <1>2. queued' \in Nat /\ queued <= queued' /\ queued \in Nat
    BY RelayAssumption, Counters
  <1>3. \A o \in Outcomes : o = home => o = home'
    OBVIOUS
  <1>4. TypeOK'
    <2>1. outAcked' \in 0 .. queued'
      BY <1>1, <1>2, Counters
    <2>2. home' \in {"ready", "stopping", "stopped", "stop_unknown"} \union Outcomes
      BY DEF IInv, TypeOK
    <2> QED BY <1>1, <2>1, <2>2 DEF IInv, TypeOK
  <1>4a. sync' \in PassType /\ PassOK' /\ Pulled' \subseteq Pulled
    <2>1. CASE sync' = NewPass
      BY <1>1, <1>2, <2>1, FreshPass
    <2>2. CASE sync' = sync
      <3>1. sync.mail[2] \in Nat
        BY PassFacts DEF PassType
      <3> QED BY <1>1, <1>2, <1>3, <2>2, <3>1, PassFacts DEF PassOK, Pulled
    <2> QED BY <2>1, <2>2
  <1>5. MemoryOK' /\ InOrder' /\ AckedIsImported' /\ DoneOK' /\ CheckpointIsSound' /\ MailIsStored'
    BY <1>1, <1>4a DEF PassType, IInv, MemoryOK, Calls, InOrder, AckedIsImported, DoneOK,
                CheckpointIsSound, MailIsStored
  <1>6. RowsOK'
    <2>1. Seen' \subseteq Seen
      BY <1>1, <1>4a DEF Seen, Numbered
    <2> QED BY <1>1, <2>1, RowsShrink DEF IInv
  <1>7. PassOK'
    BY <1>4a
  <1>8. CallsOK'
    <2>1. ASSUME NEW c \in Calls
          PROVE  CallOK(c)'
      <3>1. c \in Call /\ CallOK(c)
        BY DEF IInv, MemoryOK, CallsOK
      <3>2. c.key \in Nat
        BY <3>1 DEF Call
      <3> QED BY <1>1, <1>2, <1>3, <3>1, <3>2 DEF CallOK
    <2>2. Calls' = Calls
      BY <1>1 DEF Calls
    <2> QED BY <2>1, <2>2 DEF CallsOK
  <1>9. StopOK'
    BY <1>1 DEF IInv, StopOK
  <1>10. NoSplitVerdict'
    BY <1>1 DEF IInv, NoSplitVerdict
  <1>11. MailOK'
    BY <1>1, <1>2, Counters DEF IInv, MailOK
  <1> QED BY <1>4, <1>5, <1>6, <1>7, <1>8, <1>9, <1>10, <1>11 DEF IInv

StopType == [at : {"none", "sent", "closing", "closed", "lost"}, waits : BOOLEAN]

LEMMA HomeSteps ==
  IInv /\ (SendMail \/ ShowStopped \/ StopWorker \/ ReceiveStop \/ StopFails) => IInv'
  <1> SUFFICES ASSUME IInv, SendMail \/ ShowStopped \/ StopWorker \/ ReceiveStop \/ StopFails
               PROVE  IInv'
    OBVIOUS
  <1>1. UNCHANGED <<worker, imported, inbox, outAcked, checkpoint, late>>
        /\ sync' \in {sync, NewPass} /\ timer' \in {timer, TRUE}
    BY DEF SendMail, ShowStopped, StopWorker, ReceiveStop, StopFails, EnsureRelay
  <1>2. /\ queued \in 0 .. MaxMail /\ faults \in 0 .. MaxFaults
        /\ MaxMail \in Nat /\ MaxFaults \in Nat /\ stop \in StopType
    BY RelayAssumption DEF IInv, TypeOK, MemoryOK, StopType
  <1>3. queued' \in 0 .. MaxMail /\ queued <= queued'
    <2>1. queued' = queued \/ (queued < MaxMail /\ queued' = queued + 1)
      BY DEF SendMail, ShowStopped, StopWorker, ReceiveStop, StopFails
    <2> QED BY <1>2, <2>1
  <1>4. faults' \in 0 .. MaxFaults
    <2>1. faults' = faults \/ (faults < MaxFaults /\ faults' = faults + 1)
      BY DEF SendMail, ShowStopped, StopWorker, ReceiveStop, StopFails
    <2> QED BY <1>2, <2>1
  <1>5. \/ home' = home
        \/ /\ home \notin Outcomes /\ home' \in {"stopping", "stopped", "stop_unknown"}
           /\ home' = "stopped" => att = "stopped"
    <2>1. CASE SendMail
      BY <2>1 DEF SendMail
    <2>2. CASE ShowStopped
      BY <2>2 DEF ShowStopped, Outcomes
    <2>3. CASE StopWorker
      BY <2>3 DEF StopWorker, Outcomes
    <2>4. CASE ReceiveStop
      BY <2>4 DEF ReceiveStop, IInv, StopOK, Outcomes
    <2>5. CASE StopFails
      BY <2>5 DEF StopFails, Outcomes
    <2> QED BY <2>1, <2>2, <2>3, <2>4, <2>5
  <1>6. stop' \in StopType /\ stop'.at \in {stop.at, "sent"}
    <2>1. \/ stop' = stop
          \/ stop' = [at |-> "sent", waits |-> TRUE]
          \/ stop' = [at |-> stop.at, waits |-> FALSE]
      BY DEF SendMail, ShowStopped, StopWorker, ReceiveStop, StopFails, StopCall
    <2>2. stop.at \in {"none", "sent", "closing", "closed", "lost"} /\ stop \in StopType
      BY <1>2 DEF StopType
    <2>3. CASE stop' = stop
      BY <2>2, <2>3
    <2>4. CASE stop' = [at |-> "sent", waits |-> TRUE]
      BY <2>4 DEF StopType
    <2>5. CASE stop' = [at |-> stop.at, waits |-> FALSE]
      BY <2>2, <2>5 DEF StopType
    <2> QED BY <2>1, <2>3, <2>4, <2>5
  <1>7. timer' \in BOOLEAN
    BY <1>1, PassFacts
  <1> QED BY <1>1, <1>3, <1>4, <1>5, <1>6, <1>7, HomeStep DEF StopType

LEMMA WorkerStopSteps == IInv /\ (ServeStop \/ CloseTerminal) => IInv'
  <1> SUFFICES ASSUME IInv, ServeStop \/ CloseTerminal
               PROVE  IInv'
    OBVIOUS
  <1>1. UNCHANGED <<relay, acked, mail, mailCursor, done, pending, epoch, sends,
                    imported, inbox, home, queued, outAcked, checkpoint, timer, sync, late, faults>>
    BY DEF ServeStop, CloseTerminal, homeDb
  <1>2. \/ att = "ready" /\ att' = "stopping" /\ stop' = [at |-> "closing", waits |-> stop.waits]
        \/ /\ att = "stopping" /\ att' \in {"stopped", "stop_unknown"}
           /\ stop' = [at |-> "closed", waits |-> stop.waits]
    BY DEF ServeStop, CloseTerminal, StopCall, IInv, StopOK
  <1>3. stop \in StopType
    BY DEF IInv, MemoryOK, StopType
  <1>4. TypeOK'
    BY <1>1, <1>2 DEF IInv, TypeOK
  <1>5. MemoryOK'
    <2>1. stop' \in StopType
      BY <1>2, <1>3 DEF StopType
    <2> QED BY <1>1, <2>1 DEF IInv, MemoryOK, Calls, StopType
  <1>6. RowsOK' /\ PassOK' /\ CallsOK'
    BY <1>1 DEF IInv, RowsOK, Seen, Pulled, Matches, PassOK, CallsOK, CallOK, Calls
  <1>7. /\ InOrder' /\ AckedIsImported' /\ DoneOK' /\ CheckpointIsSound'
        /\ MailOK' /\ MailIsStored'
    BY <1>1 DEF IInv, InOrder, AckedIsImported, DoneOK, CheckpointIsSound, MailOK, MailIsStored
  <1>8. StopOK'
    BY <1>2, <1>3 DEF StopOK
  <1>9. NoSplitVerdict'
    BY <1>1, <1>2 DEF IInv, NoSplitVerdict, Outcomes
  <1> QED BY <1>4, <1>5, <1>6, <1>7, <1>8, <1>9 DEF IInv

-----------------------------------------------------------------------------
(* The worker sends, and the home imports *)

LEMMA RowsGiveOrder == RowsOK /\ Len(inbox) = imported => InOrder
  <1> SUFFICES ASSUME RowsOK, Len(inbox) = imported, NEW s \in DOMAIN inbox
               PROVE  \/ inbox[s] = relay[s]
                      \/ inbox[s].kind = "heartbeat" /\ relay[s].kind \in WorkerDone
    BY DEF InOrder
  <1>1. Numbered(s, inbox) \in Seen
    BY DEF Seen
  <1>2. Matches(s, inbox[s])
    BY <1>1 DEF RowsOK, Numbered
  <1> QED BY <1>2 DEF Matches

\* A message gets a row of its own, at the end or in place of a heartbeat.
NewRow(k, kind) ==
  /\ relay' \in Seq(Rows(Kinds)) /\ Len(relay') \in Nat /\ Len(relay) <= Len(relay')
  /\ Len(relay') - acked <= Limit
  /\ k \in DOMAIN relay' /\ relay'[k] = Row(kind)
  /\ \A t \in DOMAIN relay' : t # k => t \in DOMAIN relay /\ relay'[t] = relay[t]
  /\ \A t \in DOMAIN relay : t \in DOMAIN relay'
  /\ k \in DOMAIN relay => relay[k].kind = "heartbeat" /\ kind \in WorkerDone

LEMMA SendShape ==
  ASSUME IInv, NEW kind \in Kinds, Append1(kind) \/ TakeOver(kind)
  PROVE  \E k \in Nat \ {0} : NewRow(k, kind)
  <1>1. /\ relay \in Seq(Rows(Kinds)) /\ Len(relay) \in Nat /\ acked \in Nat /\ acked <= Len(relay)
        /\ Limit \in Nat /\ Len(relay) - acked <= Limit
    BY RelayAssumption, Counters DEF IInv, TypeOK
  <1>2. Row(kind) \in Rows(Kinds)
    BY Counters DEF Row, Rows
  <1> DEFINE row == Row(kind)
  <1> HIDE DEF row
  <1>3. CASE Append1(kind)
    <2>1. relay' = Append(relay, row) /\ ~(Len(relay) - acked >= Limit)
      BY <1>3 DEF Append1, Full, row
    <2> DEFINE k == Len(relay) + 1
    <2>2. relay' \in Seq(Rows(Kinds)) /\ Len(relay') = k /\ relay'[k] = row
          /\ (\A t \in DOMAIN relay : relay'[t] = relay[t])
      BY <1>1, <1>2, <2>1 DEF row
    <2>3. DOMAIN relay' = 1 .. k /\ DOMAIN relay = 1 .. Len(relay)
      BY <1>1, <2>2
    <2>4. Len(relay') - acked <= Limit /\ Len(relay) <= Len(relay') /\ Len(relay') \in Nat
      BY <1>1, <2>1, <2>2
    <2>5. /\ k \in DOMAIN relay' /\ k \notin DOMAIN relay /\ k \in Nat \ {0}
          /\ \A t \in DOMAIN relay' : t # k => t \in DOMAIN relay /\ relay'[t] = relay[t]
          /\ \A t \in DOMAIN relay : t \in DOMAIN relay'
      BY <1>1, <2>2, <2>3
    <2> HIDE DEF k
    <2> QED BY <2>2, <2>4, <2>5 DEF NewRow, row
  <1>4. CASE TakeOver(kind)
    <2>1. PICK k \in Heartbeats : relay' = [relay EXCEPT ![k] = row]
      BY <1>4 DEF TakeOver, row
    <2>2. k \in (acked + 1) .. Len(relay) /\ relay[k].kind = "heartbeat"
      BY <2>1 DEF Heartbeats, Unacked
    <2>3. k \in DOMAIN relay /\ k \in Nat \ {0}
      BY <1>1, <2>2
    <2>4. /\ relay' \in Seq(Rows(Kinds)) /\ Len(relay') = Len(relay)
          /\ DOMAIN relay' = DOMAIN relay /\ relay'[k] = row
          /\ \A t \in DOMAIN relay : t # k => relay'[t] = relay[t]
      BY <1>1, <1>2, <2>1, <2>3 DEF row
    <2>5. kind \in WorkerDone
      BY <1>4 DEF TakeOver
    <2> QED BY <1>1, <2>2, <2>3, <2>4, <2>5 DEF NewRow, row
  <1> QED BY <1>3, <1>4

LEMMA SendStep == IInv /\ (\E kind \in Sends : Send(kind)) => IInv'
  <1> SUFFICES ASSUME IInv, NEW kind \in Sends, Send(kind) PROVE IInv'
    OBVIOUS
  <1>1. /\ sends < MaxSends /\ sends' = sends + 1
        /\ UNCHANGED <<acked, att, mail, mailCursor, done, pending, epoch,
                       imported, inbox, home, queued, outAcked, checkpoint, timer, sync, stop,
                       late, faults>>
    BY DEF Send, homeDb
  <1>2. kind \in Kinds
    BY RelayAssumption
  <1>3. PICK k \in Nat \ {0} : NewRow(k, kind)
    BY <1>2, SendShape DEF Send
  <1>4. sends \in Nat /\ MaxSends \in Nat
    BY Counters, RelayAssumption
  <1>5. RowsOK'
    <2>0. PICK new : new = Numbered(k, relay')
      OBVIOUS
    <2>1. new.seq = k /\ new.row = relay'[k] /\ relay'[k].id = sends + 1
          /\ relay'[k].kind = kind /\ k \in DOMAIN relay'
      BY <1>3, <2>0 DEF Numbered, Row, NewRow
    <2>2. new \in Item
      BY <1>3, <2>0 DEF Numbered, NewRow, Item
    <2>3. ASSUME NEW p \in Seen'
          PROVE  p = new \/ p \in Seen
      <3>1. CASE \E s \in DOMAIN relay' : p = Numbered(s, relay')
        BY <1>3, <2>0, <3>1 DEF NewRow, Numbered, Seen
      <3>2. CASE \E s \in DOMAIN inbox' : p = Numbered(s, inbox')
        BY <1>1, <3>2 DEF Seen
      <3>3. CASE p \in Pulled'
        BY <1>1, <3>3 DEF Seen, Pulled
      <3> QED BY <3>1, <3>2, <3>3 DEF Seen
    <2>4. ASSUME NEW p \in Seen
          PROVE  p \in Item /\ p.row.id <= sends /\ p.row.id \in Nat
                 /\ Matches(p.seq, p.row)
      <3>1. p \in Item /\ p.row.id <= sends /\ Matches(p.seq, p.row)
        BY DEF IInv, RowsOK
      <3> QED BY <3>1 DEF Item, Rows
    <2>5. ASSUME NEW p \in Seen
          PROVE  Matches(p.seq, p.row)'
      <3>1. p.seq \in DOMAIN relay /\ p.seq \in DOMAIN relay'
            /\ (p.row = relay[p.seq] \/ (p.row.kind = "heartbeat" /\ relay[p.seq].kind \in WorkerDone))
        BY <1>3, <2>4 DEF Matches, NewRow
      <3>2. CASE p.seq = k
        <4>1. relay[k].kind = "heartbeat" /\ kind \in WorkerDone
          BY <1>3, <3>1, <3>2 DEF NewRow
        <4>2. p.row.kind = "heartbeat"
          BY <3>1, <3>2, <4>1
        <4> QED BY <2>1, <3>1, <3>2, <4>1, <4>2 DEF Matches
      <3>3. CASE p.seq # k
        BY <1>3, <3>1, <3>3 DEF Matches, NewRow
      <3> QED BY <3>2, <3>3
    <2>6. Matches(new.seq, new.row)'
      BY <2>1 DEF Matches
    <2>7. Seen' \subseteq Item
      BY <2>2, <2>3, <2>4
    <2>8. \A p \in Seen' : p.row.id <= sends' /\ Matches(p.seq, p.row)'
      <3>1. new.row.id <= sends'
        BY <1>1, <1>4, <2>1
      <3>2. \A p \in Seen : p.row.id <= sends'
        BY <1>1, <1>4, <2>4
      <3> QED BY <2>3, <2>5, <2>6, <3>1, <3>2
    <2>9. ASSUME NEW p \in Seen', NEW q \in Seen', p.row.id = q.row.id
          PROVE  p = q
      <3>1. CASE p \in Seen /\ q \in Seen
        BY <2>9, <3>1 DEF IInv, RowsOK
      <3>2. new.row.id = sends + 1 /\ \A r \in Seen : r.row.id # sends + 1
        BY <1>4, <2>1, <2>4
      <3> QED BY <2>3, <2>9, <3>1, <3>2
    <2> QED BY <2>7, <2>8, <2>9 DEF RowsOK
  <1>6. InOrder'
    <2>1. (Len(inbox) = imported)'
      BY <1>1 DEF IInv, InOrder
    <2> QED BY <1>5, <2>1, RowsGiveOrder, PTL
  <1>7. TypeOK'
    <2>1. sends' \in 0 .. MaxSends
      BY <1>1, <1>4
    <2>2. /\ relay' \in Seq(Rows(Kinds)) /\ Len(relay') \in Nat /\ Len(relay) <= Len(relay')
          /\ Len(relay') - acked <= Limit
      BY <1>3 DEF NewRow
    <2>3. acked' \in 0 .. Len(relay') /\ imported' \in 0 .. Len(relay')
      BY <1>1, <2>2, Counters
    <2> QED BY <1>1, <2>1, <2>2, <2>3 DEF IInv, TypeOK
  <1>8. MemoryOK' /\ PassOK' /\ CallsOK'
    BY <1>1 DEF IInv, MemoryOK, PassOK, CallsOK, CallOK, Calls
  <1>9. /\ AckedIsImported' /\ DoneOK' /\ CheckpointIsSound' /\ StopOK' /\ NoSplitVerdict'
        /\ MailOK' /\ MailIsStored'
    BY <1>1 DEF IInv, AckedIsImported, DoneOK, CheckpointIsSound, StopOK, NoSplitVerdict,
                MailOK, MailIsStored
  <1> QED BY <1>5, <1>6, <1>7, <1>8, <1>9 DEF IInv

\* The item a pass imports next is a row of the relay under its number, and one
\* with a new number is not in the mailbox.
LEMMA NextItem ==
  ASSUME IInv, sync.pc = "import", sync.items # <<>>
  PROVE  LET item == Head(sync.items) IN
         /\ item \in Item /\ item \in Seen /\ item.seq \in 1 .. Len(relay)
         /\ item.seq = imported + 1 => ~Known(item.row.id)
         /\ \A i \in DOMAIN Tail(sync.items) : Tail(sync.items)[i] \in Pulled
         /\ Tail(sync.items) \in Seq(Item)
  <1> DEFINE item == Head(sync.items)
  <1>1. sync.items \in Seq(Item)
    BY PassFacts DEF PassType
  <1>2. item = sync.items[1] /\ 1 \in DOMAIN sync.items
    BY <1>1
  <1>3. item \in Seen
    BY <1>2 DEF Seen, Pulled
  <1> HIDE DEF item
  <1>4. item \in Item /\ Matches(item.seq, item.row)
    BY <1>3 DEF IInv, RowsOK
  <1>5. item.seq \in 1 .. Len(relay)
    BY <1>4 DEF Matches, IInv, TypeOK
  <1>6. ASSUME item.seq = imported + 1, Known(item.row.id)
        PROVE  FALSE
    <2>1. PICK i \in DOMAIN inbox : inbox[i].id = item.row.id
      BY <1>6 DEF Known
    <2>2. Numbered(i, inbox) \in Seen
      BY DEF Seen
    <2>3. Numbered(i, inbox).row.id = item.row.id /\ Numbered(i, inbox).seq = i
      BY <2>1 DEF Numbered
    <2>4. Numbered(i, inbox) = item
      BY <1>3, <2>2, <2>3 DEF IInv, RowsOK
    <2>5. i <= imported
      BY DEF IInv, InOrder, TypeOK
    <2> QED BY <1>6, <2>3, <2>4, <2>5, Counters
  <1>7. \A i \in DOMAIN Tail(sync.items) : Tail(sync.items)[i] \in Pulled
    <2> SUFFICES ASSUME NEW i \in DOMAIN Tail(sync.items)
                 PROVE  Tail(sync.items)[i] \in Pulled
      OBVIOUS
    <2>1. i + 1 \in DOMAIN sync.items /\ Tail(sync.items)[i] = sync.items[i + 1]
      BY <1>1
    <2> QED BY <2>1 DEF Pulled
  <1>8. Tail(sync.items) \in Seq(Item)
    BY <1>1
  <1> QED BY <1>3, <1>4, <1>5, <1>6, <1>7, <1>8 DEF item

LEMMA ImportStep == IInv /\ Import => IInv'
  <1> SUFFICES ASSUME IInv, Import PROVE IInv'
    OBVIOUS
  <1> DEFINE item == Head(sync.items)
             kind == item.row.kind
             verdict == Verdict(kind)
             more == {v \in {<<item.seq, verdict>>} : kind \in WorkerDone}
             rest == Tail(sync.items)
  <1>1. /\ sync.pc = "import" /\ sync.items # <<>> /\ Importable(item)
        /\ inbox' = IF Known(item.row.id) THEN inbox ELSE Append(inbox, item.row)
        /\ imported' = MaxOf(imported, item.seq)
        /\ home' = IF kind \in Outcomes /\ verdict = kind THEN kind ELSE home
        /\ sync' = [sync EXCEPT !.items = rest, !.cursor = item.seq, !.verdicts = @ \union more]
        /\ UNCHANGED <<worker, queued, outAcked, checkpoint, timer, stop, late, faults>>
    BY DEF Import
  <1>2. /\ item \in Item /\ item \in Seen /\ item.seq \in 1 .. Len(relay)
        /\ item.seq = imported + 1 => ~Known(item.row.id)
        /\ \A i \in DOMAIN rest : rest[i] \in Pulled
        /\ rest \in Seq(Item)
    BY <1>1, NextItem
  <1>3. verdict \in Verdicts /\ (verdict \in Outcomes => verdict = kind)
    BY DEF Verdict, Verdicts, Outcomes
  <1>4. /\ home' = home \/ (home = "ready" /\ home' \in Outcomes)
        /\ verdict \in Outcomes => verdict = home'
    BY <1>1, <1>3 DEF Verdict, Outcomes
  <1> HIDE DEF item, verdict
  <1>5. item.seq \in Nat /\ item.row \in Rows(Kinds) /\ item = [seq |-> item.seq, row |-> item.row]
    BY <1>2 DEF Item
  <1>6. \/ item.seq <= imported /\ inbox' = inbox /\ imported' = imported
        \/ /\ item.seq = imported + 1 /\ inbox' = Append(inbox, item.row)
           /\ imported' = imported + 1
    BY <1>1, <1>2, <1>5, Counters DEF Importable, MaxOf
  <1>7. UNCHANGED <<relay, acked, att, mail, mailCursor, done, pending, epoch, sends,
                    queued, outAcked, checkpoint, timer, stop, late, faults>>
    BY <1>1 DEF worker
  <1>8. imported' \in Nat /\ imported <= imported' /\ imported' <= Len(relay) /\ item.seq <= imported'
    BY <1>2, <1>5, <1>6, Counters
  <1>9. \A o \in Outcomes : o = home => o = home'
    BY <1>4 DEF Outcomes
  <1>10. /\ sync' \in PassType /\ sync'.pc = "import" /\ sync'.items = rest
         /\ sync'.cursor = item.seq /\ sync'.mail = sync.mail
         /\ sync'.verdicts = sync.verdicts \union more
    <2>1. sync \in PassType
      BY PassFacts
    <2>2. more \subseteq Nat \X Verdicts
      BY <1>3, <1>5
    <2>3. sync.verdicts \union more \in SUBSET (Nat \X Verdicts)
      BY <2>1, <2>2 DEF PassType
    <2> HIDE DEF more, rest
    <2> QED BY <1>1, <1>2, <1>5, <2>1, <2>3 DEF PassType
  <1>11. inbox' \in Seq(Rows(Kinds)) /\ Len(inbox') = imported'
    <2>1. inbox \in Seq(Rows(Kinds)) /\ Len(inbox) = imported
      BY DEF IInv, TypeOK, InOrder
    <2>2. CASE inbox' = inbox /\ imported' = imported
      BY <2>1, <2>2
    <2>3. CASE inbox' = Append(inbox, item.row) /\ imported' = imported + 1
      <3>1. \A R : inbox \in Seq(R) /\ item.row \in R =>
              Append(inbox, item.row) \in Seq(R) /\ Len(Append(inbox, item.row)) = Len(inbox) + 1
        OBVIOUS
      <3> QED BY <1>5, <2>1, <2>3, <3>1
    <2> QED BY <1>6, <2>2, <2>3
  <1>12. RowsOK'
    <2>1. ASSUME NEW s \in DOMAIN inbox'
          PROVE  Numbered(s, inbox') \in Seen
      <3>1. inbox \in Seq(Rows(Kinds)) /\ Len(inbox) = imported
        BY DEF IInv, TypeOK, InOrder
      <3>2. CASE s \in DOMAIN inbox
        <4>1. inbox'[s] = inbox[s]
          BY <1>5, <1>6, <3>1, <3>2
        <4> QED BY <3>2, <4>1 DEF Seen, Numbered
      <3>3. CASE s \notin DOMAIN inbox
        <4>1. s = imported + 1 /\ item.seq = s /\ inbox'[s] = item.row
          BY <1>5, <1>6, <3>1, <3>3, Counters
        <4> QED BY <1>2, <1>5, <4>1 DEF Numbered
      <3> QED BY <3>2, <3>3
    <2>2. Pulled' \subseteq Seen
      BY <1>2, <1>10 DEF Pulled, Seen
    <2>3. \A s \in DOMAIN relay' : Numbered(s, relay') \in Seen
      BY <1>7 DEF Seen
    <2>4. Seen' \subseteq Seen
      BY <2>1, <2>2, <2>3 DEF Seen
    <2> QED BY <1>7, <2>4, RowsShrink DEF IInv
  <1>13. InOrder'
    <2>1. (Len(inbox) = imported)'
      BY <1>11
    <2> QED BY <1>12, <2>1, RowsGiveOrder, PTL
  <1>14. PassOK'
    <2>1. PassOK
      BY PassFacts
    <2>2. ASSUME NEW v \in sync'.verdicts, v[2] \in Outcomes
          PROVE  v[2] = home'
      <3>1. CASE v \in sync.verdicts
        BY <1>9, <2>1, <2>2, <3>1 DEF PassOK
      <3>2. CASE v \in more
        <4>1. v[2] = verdict
          BY <3>2
        <4> QED BY <1>4, <2>2, <4>1
      <3> QED BY <1>10, <3>1, <3>2
    <2>3. sync'.mail[2] <= queued'
      BY <1>7, <1>10, <2>1 DEF PassOK
    <2> QED BY <1>8, <1>10, <2>2, <2>3 DEF PassOK
  <1>15. CallsOK'
    <2>1. ASSUME NEW c \in Calls
          PROVE  CallOK(c)'
      <3>1. c \in Call /\ CallOK(c)
        BY DEF IInv, MemoryOK, CallsOK
      <3>2. c.key \in Nat
        BY <3>1 DEF Call
      <3> QED BY <1>7, <1>8, <1>9, <3>1, <3>2, Counters DEF CallOK
    <2>2. Calls' = Calls
      BY <1>7 DEF Calls
    <2> QED BY <2>1, <2>2 DEF CallsOK
  <1>16. TypeOK'
    <2>1. imported' \in 0 .. Len(relay)
      BY <1>8, Counters
    <2>2. home' \in {"ready", "stopping", "stopped", "stop_unknown"} \union Outcomes
      BY <1>4 DEF IInv, TypeOK
    <2> QED BY <1>7, <1>11, <2>1, <2>2 DEF IInv, TypeOK
  <1>17. MemoryOK'
    BY <1>7, <1>10 DEF IInv, MemoryOK, PassType, Calls
  <1>18. AckedIsImported'
    BY <1>7, <1>8, Counters DEF AckedIsImported
  <1>19. NoSplitVerdict'
    BY <1>4, <1>7, <1>9 DEF IInv, NoSplitVerdict, Outcomes
  <1>20. DoneOK' /\ CheckpointIsSound' /\ StopOK' /\ MailOK' /\ MailIsStored'
    BY <1>7 DEF IInv, DoneOK, CheckpointIsSound, StopOK, MailOK, MailIsStored
  <1> QED BY <1>12, <1>13, <1>14, <1>15, <1>16, <1>17, <1>18, <1>19, <1>20 DEF IInv

-----------------------------------------------------------------------------
(* The inductive invariant, and what follows from it *)

\* No step of either server, no fault and no stutter leaves the inductive invariant.
LEMMA NextIInv == IInv /\ [Next]_vars => IInv'
  <1> SUFFICES ASSUME IInv, [Next]_vars PROVE IInv'
    OBVIOUS
  <1>1. CASE \E kind \in Sends : Send(kind)
    BY <1>1, SendStep
  <1>2. CASE Tick \/ TimerStops \/ CheckOrShow \/ ShowSettled
    BY <1>2, AskSteps DEF Tick, ShowSettled
  <1>3. CASE ServePull \/ ReceivePull
    BY <1>3, ServePullStep, ReceivePullStep
  <1>4. CASE Import
    BY <1>4, ImportStep
  <1>5. CASE ImportFails \/ EndImport
    BY <1>5, EndImportStep
  <1>6. CASE SendMail \/ ShowStopped \/ StopWorker \/ ReceiveStop \/ StopFails
    BY <1>6, HomeSteps
  <1>7. CASE Acknowledge \/ DeliverMail \/ ServeLate
    BY <1>7, AcknowledgeStep, DeliverMailStep, ServeLateStep
  <1>8. CASE ServeStop \/ CloseTerminal
    BY <1>8, WorkerStopSteps
  <1>9. CASE Timeout \/ RestartHome
    BY <1>9, GiveUpStep
  <1>10. CASE RestartWorker \/ TornCall
    BY <1>10, RestartWorkerStep, TornCallStep
  <1>11. CASE UNCHANGED vars
    <2>1. /\ UNCHANGED <<relay, acked, att, mail, mailCursor, done, pending, epoch, sends>>
          /\ UNCHANGED <<imported, inbox, home, queued, outAcked>>
          /\ UNCHANGED <<checkpoint, timer, sync, stop, late, faults>>
      BY <1>11 DEF vars, worker, homeDb
    <2>2. TypeOK' /\ MemoryOK'
      BY <2>1 DEF IInv, TypeOK, MemoryOK, Calls
    <2>3. RowsOK' /\ PassOK' /\ CallsOK'
      BY <2>1 DEF IInv, RowsOK, Seen, Pulled, Matches, PassOK, CallsOK, CallOK, Calls
    <2>4. InOrder' /\ AckedIsImported' /\ DoneOK' /\ CheckpointIsSound' /\ StopOK'
          /\ NoSplitVerdict' /\ MailOK' /\ MailIsStored'
      BY <2>1 DEF IInv, InOrder, AckedIsImported, DoneOK, CheckpointIsSound, StopOK,
                  NoSplitVerdict, MailOK, MailIsStored
    <2> QED BY <2>2, <2>3, <2>4 DEF IInv
  <1> QED BY <1>1, <1>2, <1>3, <1>4, <1>5, <1>6, <1>7, <1>8, <1>9, <1>10, <1>11 DEF Next

LEMMA RelayInvariance == Spec => []IInv
  BY InitIInv, NextIInv, PTL DEF Spec

\* The relay's state keeps its type for any number of messages, calls and faults:
\* cursors stay within their rows and the queue within its limit.
THEOREM RelayTypeCorrectness == Spec => []TypeOK
  <1>1. IInv => TypeOK
    BY DEF IInv
  <1> QED BY <1>1, RelayInvariance, PTL

\* Rows reach the Run's mailbox once and in order, whatever is pulled again, lost,
\* served late or interrupted (importFederatedRelayItem).
THEOREM RelayKeepsOrder == Spec => []InOrder
  <1>1. IInv => InOrder
    BY DEF IInv
  <1> QED BY <1>1, RelayInvariance, PTL

\* No acknowledgement, repeated, late or torn, drops a row whose number the home has
\* not imported (acknowledgeFederationRelay).
THEOREM RelayDropsOnlyImported == Spec => []AckedIsImported
  <1>1. IInv => AckedIsImported
    BY DEF IInv
  <1> QED BY <1>1, RelayInvariance, PTL

\* The checkpoint that lets the home skip an acknowledgement is never ahead of the
\* worker's rows, across restarts of both servers (syncFederatedDispatch).
THEOREM CheckpointSoundness == Spec => []CheckpointIsSound
  <1>1. IInv => CheckpointIsSound
    BY DEF IInv
  <1> QED BY <1>1, RelayInvariance, PTL

\* The worker's server never settles an attachment differently from the home's
\* Dispatch, and a Dispatch is stopped only when its attachment is.
THEOREM ServersAgree == Spec => []NoSplitVerdict
  <1>1. IInv => NoSplitVerdict
    BY DEF IInv
  <1> QED BY <1>1, RelayInvariance, PTL

\* Coordinator mail is acknowledged only once it is stored, torn imports included
\* (importFederationControlMail).
THEOREM MailSafety == Spec => []MailIsStored
  <1>1. IInv => MailIsStored
    BY DEF IInv
  <1> QED BY <1>1, RelayInvariance, PTL

-----------------------------------------------------------------------------
(* Mail to the worker implements the channel *)

\* Whoever serves a call, the worker's mail only grows.
Grows == mail' = mail \/ \E n, cursor \in Nat : StoreMail(n, cursor)

LEMMA ServeGrows ==
  ASSUME IInv, NEW call \in Call, Serve(call)
  PROVE  Grows
  <1>1. CASE UNCHANGED worker
    BY <1>1 DEF worker, Grows
  <1>2. CASE Effect(call) /\ call.method = "ack"
    BY <1>2 DEF Effect, AckRows, Grows
  <1>3. CASE Effect(call) /\ call.method # "ack"
    <2>1. call.key \in Nat /\ mailCursor \in Nat
      BY Counters DEF Call
    <2>2. MaxOf(mailCursor, call.key) \in Nat
      BY <2>1, MaxOfIsMax
    <2>3. StoreMail(call.key, MaxOf(mailCursor, call.key))
      BY <1>3 DEF Effect
    <2> QED BY <2>1, <2>2, <2>3 DEF Grows
  <1> QED BY <1>1, <1>2, <1>3 DEF Serve

LEMMA GrowsByTail ==
  ASSUME IInv, Grows
  PROVE  Len(mail) <= Len(mail')
  <1>1. mail \in Seq(Nat) /\ Len(mail) \in Nat
    BY Counters DEF IInv, TypeOK
  <1>2. CASE mail' = mail
    BY <1>1, <1>2
  <1>3. CASE \E n, cursor \in Nat : StoreMail(n, cursor)
    <2>1. PICK n \in Nat, cursor \in Nat : StoreMail(n, cursor)
      BY <1>3
    <2> DEFINE more == MaxOf(n, Len(mail)) - Len(mail)
    <2>2. more \in Nat
      BY <1>1, MaxOfIsMax
    <2>3. mail' = mail \o [i \in 1 .. more |-> Len(mail) + i]
      BY <2>1 DEF StoreMail
    <2> HIDE DEF more
    <2>4. [i \in 1 .. more |-> Len(mail) + i] \in Seq(Nat)
      BY <1>1, <2>2
    <2> QED BY <1>1, <2>2, <2>3, <2>4
  <1> QED BY <1>2, <1>3 DEF Grows

LEMMA EveryStepGrows ==
  ASSUME IInv, [Next]_vars
  PROVE  Grows /\ (queued' = queued \/ (queued' = queued + 1 /\ mail' = mail))
  <1>1. CASE \/ \E kind \in Sends : Send(kind)
             \/ Tick \/ TimerStops \/ CheckOrShow \/ ShowSettled \/ ShowStopped \/ ServePull \/ ReceivePull
             \/ Import \/ ImportFails \/ EndImport
             \/ StopWorker \/ ServeStop \/ CloseTerminal \/ ReceiveStop \/ StopFails
             \/ Timeout \/ RestartHome \/ RestartWorker \/ UNCHANGED vars
    <2>1. mail' = mail /\ queued' = queued
      BY <1>1 DEF Send, Tick, TimerStops, CheckOrShow, ShowSettled, StartSync, ShowStopped, ServePull, ReceivePull,
         Import, ImportFails, EndImport, StopWorker, ServeStop, CloseTerminal, ReceiveStop,
         StopFails, Timeout, RestartHome, RestartWorker, WorkerDown, vars, worker, homeDb
    <2> QED BY <2>1 DEF Grows
  <1>2. CASE SendMail
    BY <1>2 DEF SendMail, worker, Grows
  <1>3. CASE Acknowledge \/ DeliverMail
    <2>1. Serve(SyncCall) /\ SyncCall \in InFlight /\ queued' = queued
      BY <1>3 DEF Acknowledge, DeliverMail, InFlight, homeDb
    <2>2. SyncCall \in Call
      BY <2>1, InFlightOK
    <2> QED BY <2>1, <2>2, ServeGrows
  <1>4. CASE ServeLate
    <2>1. queued' = queued /\ \E call \in late : Serve(call)
      BY <1>4 DEF ServeLate, homeDb
    <2> QED BY <2>1, PassFacts, ServeGrows
  <1>5. CASE TornCall
    <2>1. queued' = queued
      BY <1>5 DEF TornCall, WorkerDown, homeDb
    <2>2. PICK call \in late \union InFlight :
            \/ UNCHANGED <<acked, att, mail, mailCursor>>
            \/ AckRows(call)
            \/ \E n \in mailCursor .. call.key :
                 StoreMail(n, n) \/ (n < call.key /\ StoreMail(n + 1, n))
      BY <1>5 DEF TornCall
    <2>3. CASE UNCHANGED <<acked, att, mail, mailCursor>> \/ AckRows(call)
      BY <2>1, <2>3 DEF AckRows, Grows
    <2>4. CASE \E n \in mailCursor .. call.key :
                 StoreMail(n, n) \/ (n < call.key /\ StoreMail(n + 1, n))
      <3>1. PICK n \in mailCursor .. call.key :
              StoreMail(n, n) \/ (n < call.key /\ StoreMail(n + 1, n))
        BY <2>4
      <3>2. call \in Call
        BY PassFacts, InFlightOK
      <3>3. n \in Nat /\ n + 1 \in Nat
        BY <3>1, <3>2, Counters DEF Call
      <3> QED BY <2>1, <3>1, <3>3 DEF Grows
    <2> QED BY <2>2, <2>3, <2>4
  <1> QED BY <1>1, <1>2, <1>3, <1>4, <1>5 DEF Next

\* Mail to the worker is an exactly-once, in-order channel: every step of the relay
\* accepts a message, delivers the next ones, or changes neither.
THEOREM MailRefinement == Spec => MailImplementsChannel
  <1>1. Init => Channel!Init
    BY DEF Init, Channel!Init
  <1>2. IInv /\ [Next]_vars => [Channel!Next]_<<queued, mail>>
    <2> SUFFICES ASSUME IInv, [Next]_vars
                 PROVE  [Channel!Next]_<<queued, mail>>
      OBVIOUS
    <2>1. Grows /\ (queued' = queued \/ (queued' = queued + 1 /\ mail' = mail))
      BY EveryStepGrows
    <2>2. CASE queued' = queued + 1 /\ mail' = mail
      BY <2>2 DEF Channel!Next, Channel!Accept
    <2>3. CASE queued' = queued
      <3>1. /\ mail \in Seq(Nat) /\ Len(mail) \in Nat
            /\ \A i \in DOMAIN mail : mail[i] = i
        BY Counters DEF IInv, TypeOK, MailOK
      <3>2. /\ mail' \in Seq(Nat) /\ Len(mail') \in Nat /\ Len(mail') <= queued
            /\ \A i \in DOMAIN mail' : mail'[i] = i
        <4>1. IInv'
          BY NextIInv
        <4> QED BY <2>3, <4>1 DEF IInv, TypeOK, MailOK
      <3>3. Len(mail) <= Len(mail') /\ queued \in Nat
        BY <2>1, GrowsByTail, Counters
      <3>4. mail' = [i \in 1 .. Len(mail') |-> i]
        BY <3>2
      <3>5. CASE Len(mail') = Len(mail)
        <4>1. mail = [i \in 1 .. Len(mail) |-> i]
          BY <3>1
        <4> QED BY <2>3, <3>4, <3>5, <4>1
      <3>6. CASE Len(mail') # Len(mail)
        <4>1. Len(mail') \in (Len(mail) + 1) .. queued
          BY <3>1, <3>2, <3>3, <3>6
        <4>2. Channel!Deliver
          BY <2>3, <3>4, <4>1 DEF Channel!Deliver
        <4> QED BY <4>2 DEF Channel!Next
      <3> QED BY <3>5, <3>6
    <2> QED BY <2>1, <2>2, <2>3
  <1> QED BY <1>1, <1>2, RelayInvariance, PTL DEF Spec, MailImplementsChannel, Channel!Spec
=============================================================================
