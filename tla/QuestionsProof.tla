--------------------------- MODULE QuestionsProof ---------------------------
(***************************************************************************)
(* Proofs about Questions, for any requests, answers and restarts: a       *)
(* request creates one question, receipts tell the truth, verdicts are     *)
(* final.                                                                  *)
(***************************************************************************)
EXTENDS Questions, TLAPS

-----------------------------------------------------------------------------
(* The inductive invariant *)

Request == Ask \union Reply
Answer  == Body \union {NoAnswer}
Row     == [by : Ask \union {Import}, status : {"pending", "answered", "closed"}, answer : Answer]
Says    == (0 .. MaxQuestions) \X Answer
Tells   == Question \X Answer
Receipt == [state : {"absent", "pending", "completed"},
            call : Says \union {Nothing}, result : Tells \union {Nothing}]

\* Exactly the answered questions have an answer.
AnswersOK == \A q \in DOMAIN questions :
               questions[q].status = "answered" <=> questions[q].answer # NoAnswer

\* What a completed receipt says of its request r holds.
Truth(r) ==
  LET q == receipts[r].result[1]  answer == receipts[r].result[2] IN
  /\ receipts[r].result \in Tells
  /\ q \in DOMAIN questions
  /\ answer # NoAnswer => questions[q].status = "answered" /\ questions[q].answer = answer
  /\ r \in Reply => answer # NoAnswer /\ (federated => <<q, answer>> \in queued)

ReceiptsOK == \A r \in Request : receipts[r].state = "completed" => Truth(r)

QueuedOK == \A pair \in queued :
              questions[pair[1]].status = "answered" /\ questions[pair[1]].answer = pair[2]

\* A call that waits has recorded its acceptance.
WaitsOK == \A r \in Ask : asking[r] # 0 => receipts[r].state = "completed"

IInv ==
  /\ TypeOK /\ AnswersOK /\ ReceiptsOK /\ QueuedOK /\ WaitsOK
  /\ OneQuestionPerRequest /\ EffectIsReceipted

LEMMA LedgerType == Ledger!ReceiptsOK <=> receipts \in [Request -> Receipt]
  BY DEF Ledger!ReceiptsOK, Ledger!Receipt, Request, Receipt, Says, Tells, Answer

LEMMA Types ==
  ASSUME TypeOK
  PROVE  /\ receipts \in [Request -> Receipt]
         /\ questions \in Seq(Row) /\ Len(questions) \in Nat /\ Len(questions) <= MaxQuestions
         /\ DOMAIN questions = 1 .. Len(questions)
         /\ queued \subseteq (DOMAIN questions) \X Body
         /\ asking \in [Ask -> 0 .. Len(questions)]
         /\ MaxQuestions \in Nat /\ NoAnswer \notin Body /\ Ask \intersect Reply = {}
         /\ Import \notin Ask
  <1>1. receipts \in [Request -> Receipt]
    BY LedgerType DEF TypeOK
  <1>2. questions \in Seq(Row) /\ Len(questions) <= MaxQuestions
        /\ queued \subseteq (DOMAIN questions) \X Body /\ asking \in [Ask -> 0 .. Len(questions)]
    BY DEF TypeOK, Row, Answer
  <1> QED BY <1>1, <1>2, QuestionAssumption

LEMMA InitIInv == Init => IInv
  <1> SUFFICES ASSUME Init PROVE IInv
    OBVIOUS
  <1> USE DEF Init
  <1>1. receipts = [r \in Request |-> [state |-> "absent", call |-> Nothing, result |-> Nothing]]
    BY DEF Ledger!ReceiptsInit, Ledger!NoReceipt, Request
  <1>2. TypeOK
    <2>1. receipts \in [Request -> Receipt]
      BY <1>1 DEF Receipt
    <2> QED BY <2>1, LedgerType, QuestionAssumption DEF TypeOK
  <1>3. AnswersOK /\ QueuedOK /\ OneQuestionPerRequest /\ EffectIsReceipted
    BY DEF AnswersOK, QueuedOK, OneQuestionPerRequest, EffectIsReceipted
  <1>4. ReceiptsOK /\ WaitsOK
    BY <1>1 DEF ReceiptsOK, WaitsOK
  <1> QED BY <1>2, <1>3, <1>4 DEF IInv

-----------------------------------------------------------------------------
(* What steps do to questions *)

\* Questions are only added, keep their authors, and change only while open.
Steady ==
  /\ questions' \in Seq(Row) /\ Len(questions') \in Nat
  /\ Len(questions) <= Len(questions') /\ Len(questions') <= MaxQuestions
  /\ DOMAIN questions' = 1 .. Len(questions')
  /\ \A q \in DOMAIN questions : /\ q \in DOMAIN questions'
                                 /\ questions'[q].by = questions[q].by
                                 /\ ~Open(q) => questions'[q] = questions[q]
  /\ AnswersOK'

Same == DOMAIN questions' = DOMAIN questions

LEMMA NoneSteady ==
  ASSUME IInv, UNCHANGED questions
  PROVE  Steady /\ Same
  BY Types DEF IInv, Steady, Same, AnswersOK

LEMMA NewSteady ==
  ASSUME IInv, NEW by \in Ask \union {Import}, Len(questions) < MaxQuestions,
         questions' = Append(questions, NewQuestion(by))
  PROVE  /\ Steady
         /\ \A q \in DOMAIN questions' :
              q \notin DOMAIN questions => q = Len(questions) + 1 /\ questions'[q].by = by
         /\ Len(questions) + 1 \in DOMAIN questions'
         /\ Len(questions') = Len(questions) + 1
  <1> DEFINE row == NewQuestion(by)
             n == Len(questions)
  <1>1. /\ row \in Row /\ row.by = by /\ row.status = "pending" /\ row.answer = NoAnswer
    BY DEF NewQuestion, Row, Answer
  <1> HIDE DEF row
  <1>2. questions \in Seq(Row) /\ n \in Nat /\ n < MaxQuestions /\ MaxQuestions \in Nat
        /\ AnswersOK
    BY Types DEF IInv
  <1>3. /\ questions' \in Seq(Row) /\ Len(questions') = n + 1 /\ questions'[n + 1] = row
        /\ \A q \in 1 .. n : questions'[q] = questions[q]
    BY <1>1, <1>2 DEF row
  <1>4. DOMAIN questions = 1 .. n /\ DOMAIN questions' = 1 .. (n + 1)
    BY <1>2, <1>3
  <1> HIDE DEF n
  <1>5. \A q \in DOMAIN questions' : q \in 1 .. n \/ q = n + 1
    BY <1>2, <1>4
  <1>6. AnswersOK'
    BY <1>1, <1>2, <1>3, <1>4, <1>5 DEF AnswersOK
  <1>7. Steady
    <2>1. Len(questions') \in Nat /\ n <= Len(questions') /\ Len(questions') <= MaxQuestions
          /\ DOMAIN questions' = 1 .. Len(questions')
      BY <1>2, <1>3, <1>4
    <2>2. \A q \in DOMAIN questions : q \in DOMAIN questions' /\ questions'[q] = questions[q]
      BY <1>2, <1>3, <1>4
    <2> QED BY <1>3, <1>6, <2>1, <2>2 DEF Steady, n
  <1>8. \A q \in DOMAIN questions' :
          q \notin DOMAIN questions => q = n + 1 /\ questions'[q].by = by
    BY <1>1, <1>3, <1>4, <1>5
  <1>9. n + 1 \in DOMAIN questions' /\ Len(questions') = n + 1
    BY <1>2, <1>3, <1>4
  <1> QED BY <1>7, <1>8, <1>9 DEF n

LEMMA AnswerSteady ==
  ASSUME IInv, NEW q, NEW b \in Body, Answerable(q, b), questions' = Answered(q, b)
  PROVE  /\ Steady /\ Same /\ q \in DOMAIN questions
         /\ questions'[q].status = "answered" /\ questions'[q].answer = b
  <1> DEFINE row == IF Open(q) THEN [questions[q] EXCEPT !.status = "answered", !.answer = b]
                    ELSE questions[q]
  <1>1. questions \in Seq(Row) /\ DOMAIN questions = 1 .. Len(questions) /\ q \in DOMAIN questions
        /\ Len(questions) \in Nat /\ Len(questions) <= MaxQuestions /\ AnswersOK
        /\ NoAnswer \notin Body
    BY Types DEF IInv, Answerable
  <1>2. questions[q] \in Row
    BY <1>1
  <1>3. row \in Row /\ row.by = questions[q].by /\ row.status = "answered" /\ row.answer = b
        /\ (~Open(q) => row = questions[q])
    BY <1>2 DEF Answerable, Row, Answer
  <1>4. questions' = [questions EXCEPT ![q] = row]
    BY DEF Answered
  <1> HIDE DEF row
  <1>5. /\ questions' \in Seq(Row) /\ DOMAIN questions' = DOMAIN questions
        /\ Len(questions') = Len(questions)
        /\ questions'[q] = row
        /\ \A p \in DOMAIN questions : p # q => questions'[p] = questions[p]
    BY <1>1, <1>3, <1>4
  <1>6. AnswersOK'
    BY <1>1, <1>3, <1>5 DEF AnswersOK
  <1>7. Steady
    BY <1>1, <1>3, <1>5, <1>6 DEF Steady
  <1> QED BY <1>1, <1>3, <1>5, <1>7 DEF Same

LEMMA CloseSteady ==
  ASSUME IInv, questions' = QuestionsClosed
  PROVE  Steady /\ Same
  <1>1. questions \in Seq(Row) /\ DOMAIN questions = 1 .. Len(questions)
        /\ Len(questions) \in Nat /\ Len(questions) <= MaxQuestions /\ AnswersOK
    BY Types DEF IInv
  <1>2. ASSUME NEW q \in DOMAIN questions
        PROVE  /\ questions'[q] \in Row /\ questions'[q].by = questions[q].by
               /\ ~Open(q) => questions'[q] = questions[q]
               /\ Open(q) => questions'[q].status = "closed" /\ questions'[q].answer = questions[q].answer
    <2>1. questions[q] \in Row
      BY <1>1
    <2>2. questions'[q] = IF Open(q) THEN [questions[q] EXCEPT !.status = "closed"]
                          ELSE questions[q]
      BY DEF QuestionsClosed
    <2> QED BY <2>1, <2>2 DEF Row
  <1>3. DOMAIN questions' = DOMAIN questions /\ questions' \in Seq(Row)
        /\ Len(questions') = Len(questions)
    <2>1. questions' = [q \in 1 .. Len(questions) |-> questions'[q]]
      BY <1>1 DEF QuestionsClosed
    <2> QED BY <1>1, <1>2, <2>1
  <1>4. AnswersOK'
    BY <1>1, <1>2, <1>3 DEF AnswersOK, Open
  <1> QED BY <1>1, <1>2, <1>3, <1>4 DEF Steady, Same

-----------------------------------------------------------------------------
(* What steps do to receipts *)

\* A step adds rows and answers and keeps receipts or records ones that are true.
\* A new question is an import's or that of a request that gets its receipt now.
Sound ==
  /\ Steady
  /\ receipts' \in [Request -> Receipt]
  /\ queued \subseteq queued' /\ queued' \subseteq (DOMAIN questions') \X Body
  /\ \A pair \in queued' : \/ pair \in queued
                           \/ /\ questions'[pair[1]].status = "answered"
                              /\ questions'[pair[1]].answer = pair[2]
  /\ federated' = federated /\ federated \in BOOLEAN
  /\ dispatch' \in {"active", "settled", "failed"} /\ crashes' \in 0 .. MaxCrashes
  /\ asking' \in [Ask -> 0 .. Len(questions')]
  /\ woken' \subseteq {r \in Ask : asking'[r] # 0}
  /\ \A r \in Request : \/ receipts'[r] = receipts[r]
                        \/ receipts'[r].state = "pending"
                        \/ Truth(r)'
  /\ \A r \in Request : receipts[r].state # "absent" => receipts'[r].state # "absent"
  /\ \A q \in DOMAIN questions' : q \notin DOMAIN questions =>
       /\ q = Len(questions) + 1
       /\ \/ questions'[q].by = Import
          \/ /\ questions'[q].by \in Ask
             /\ receipts[questions'[q].by].state = "absent"
             /\ receipts'[questions'[q].by].state # "absent"
  /\ WaitsOK'

LEMMA SoundStep == IInv /\ Sound => IInv'
  <1> SUFFICES ASSUME IInv, Sound PROVE IInv'
    OBVIOUS
  <1>1. /\ Steady /\ AnswersOK' /\ WaitsOK' /\ questions' \in Seq(Row)
        /\ Len(questions') <= MaxQuestions
    BY DEF Sound, Steady
  <1>2. TypeOK'
    <2>1. Ledger!ReceiptsOK'
      BY DEF Sound, Ledger!ReceiptsOK, Ledger!Receipt, Request, Receipt, Says, Tells, Answer
    <2> QED BY <1>1, <2>1 DEF TypeOK, Sound, Row, Answer
  <1>3. \A q \in DOMAIN questions : questions[q].status = "answered" =>
          q \in DOMAIN questions' /\ questions'[q] = questions[q]
    BY <1>1 DEF Steady, Open
  <1>4. /\ queued \subseteq (DOMAIN questions) \X Body
        /\ receipts \in [Request -> Receipt] /\ Import \notin Ask
    BY Types DEF IInv
  <1>5. QueuedOK'
    <2> SUFFICES ASSUME NEW pair \in queued'
                 PROVE  questions'[pair[1]].status = "answered"
                        /\ questions'[pair[1]].answer = pair[2]
      BY DEF QueuedOK
    <2>1. CASE pair \in queued
      <3>1. pair[1] \in DOMAIN questions
        BY <1>4, <2>1
      <3>2. questions[pair[1]].status = "answered" /\ questions[pair[1]].answer = pair[2]
        BY <2>1 DEF IInv, QueuedOK
      <3> QED BY <1>3, <3>1, <3>2
    <2>2. CASE pair \notin queued
      BY <2>2 DEF Sound
    <2> QED BY <2>1, <2>2
  <1>6. ReceiptsOK'
    <2> SUFFICES ASSUME NEW r \in Request, receipts'[r].state = "completed"
                 PROVE  Truth(r)'
      BY DEF ReceiptsOK
    <2>1. CASE receipts'[r] = receipts[r]
      <3>1. Truth(r)
        BY <2>1 DEF IInv, ReceiptsOK
      <3> DEFINE q == receipts[r].result[1]
                 answer == receipts[r].result[2]
      <3>2. /\ receipts[r].result \in Tells /\ q \in DOMAIN questions
            /\ answer # NoAnswer => questions[q].status = "answered" /\ questions[q].answer = answer
            /\ r \in Reply => answer # NoAnswer /\ (federated => <<q, answer>> \in queued)
        BY <3>1 DEF Truth
      <3> HIDE DEF q, answer
      <3>3. q \in DOMAIN questions'
        BY <1>1, <3>2 DEF Steady
      <3>4. answer # NoAnswer => questions'[q].status = "answered" /\ questions'[q].answer = answer
        BY <1>3, <3>2
      <3>5. r \in Reply => answer # NoAnswer /\ (federated' => <<q, answer>> \in queued')
        BY <3>2 DEF Sound
      <3> QED BY <2>1, <3>2, <3>3, <3>4, <3>5 DEF Truth, q, answer
    <2>2. CASE receipts'[r] # receipts[r]
      BY <2>2 DEF Sound
    <2> QED BY <2>1, <2>2
  <1>7. \A q \in DOMAIN questions : questions[q].by \in Ask =>
          receipts[questions[q].by].state # "absent"
    BY DEF IInv, EffectIsReceipted, Ledger!Fresh
  <1>8. EffectIsReceipted'
    <2> SUFFICES ASSUME NEW q \in DOMAIN questions', questions'[q].by \in Ask
                 PROVE  receipts'[questions'[q].by].state # "absent"
      BY DEF EffectIsReceipted, Ledger!Fresh
    <2>1. CASE q \in DOMAIN questions
      <3>1. questions'[q].by = questions[q].by
        BY <1>1, <2>1 DEF Steady
      <3>2. questions[q].by \in Request
        BY <3>1 DEF Request
      <3> QED BY <1>7, <2>1, <3>1, <3>2 DEF Sound
    <2>2. CASE q \notin DOMAIN questions
      BY <1>4, <2>2 DEF Sound
    <2> QED BY <2>1, <2>2
  <1>9. OneQuestionPerRequest'
    <2> SUFFICES ASSUME NEW p \in DOMAIN questions', NEW q \in DOMAIN questions',
                        questions'[p].by = questions'[q].by, questions'[p].by # Import
                 PROVE  p = q
      BY DEF OneQuestionPerRequest
    <2>1. questions'[p].by \in Ask
      <3>1. questions'[p] \in Row
        BY <1>1
      <3> QED BY <3>1 DEF Row
    <2>2. CASE p \in DOMAIN questions /\ q \in DOMAIN questions
      BY <1>1, <2>2 DEF Steady, IInv, OneQuestionPerRequest
    <2>3. CASE p \notin DOMAIN questions /\ q \notin DOMAIN questions
      BY <2>3 DEF Sound
    <2>4. CASE p \in DOMAIN questions /\ q \notin DOMAIN questions
      <3>1. receipts[questions'[q].by].state = "absent"
        BY <2>4 DEF Sound
      <3>2. questions[p].by = questions'[p].by
        BY <1>1, <2>4 DEF Steady
      <3> QED BY <1>7, <2>1, <2>4, <3>1, <3>2
    <2>5. CASE p \notin DOMAIN questions /\ q \in DOMAIN questions
      <3>1. receipts[questions'[p].by].state = "absent"
        BY <2>5 DEF Sound
      <3>2. questions[q].by = questions'[q].by
        BY <1>1, <2>5 DEF Steady
      <3> QED BY <1>7, <2>1, <2>5, <3>1, <3>2
    <2> QED BY <2>2, <2>3, <2>4, <2>5
  <1> QED BY <1>1, <1>2, <1>5, <1>6, <1>8, <1>9 DEF IInv

-----------------------------------------------------------------------------
(* Steps that record nothing *)

LEMMA Memory ==
  ASSUME IInv
  PROVE  /\ federated \in BOOLEAN /\ dispatch \in {"active", "settled", "failed"}
         /\ crashes \in 0 .. MaxCrashes
         /\ asking \in [Ask -> 0 .. Len(questions)] /\ woken \subseteq {r \in Ask : asking[r] # 0}
         /\ MaxCrashes \in Nat
         /\ Ask \subseteq Request /\ Reply \subseteq Request
  BY QuestionAssumption DEF IInv, TypeOK, Request

LEMMA Unrecorded ==
  ASSUME IInv, Steady, UNCHANGED <<receipts, queued, federated, asking, crashes>>,
         dispatch' \in {"active", "settled", "failed"},
         woken' \subseteq {r \in Ask : asking[r] # 0},
         \A q \in DOMAIN questions' : q \notin DOMAIN questions =>
           q = Len(questions) + 1 /\ questions'[q].by = Import
  PROVE  IInv'
  <1>1. queued \subseteq (DOMAIN questions) \X Body /\ receipts \in [Request -> Receipt]
    BY Types DEF IInv
  <1>2. queued' \subseteq (DOMAIN questions') \X Body
    BY <1>1 DEF Steady
  <1>3. asking' \in [Ask -> 0 .. Len(questions')]
    <2>1. 0 .. Len(questions) \subseteq 0 .. Len(questions')
      BY Types DEF Steady, IInv
    <2> QED BY <2>1, Memory
  <1>4. WaitsOK'
    BY DEF IInv, WaitsOK
  <1>5. Sound
    BY <1>1, <1>2, <1>3, <1>4, Memory DEF Sound
  <1> QED BY <1>5, SoundStep

LEMMA DispatchSteps ==
  IInv /\ (Settle \/ StopWorker \/ FailDispatch \/ ImportQuestion) => IInv'
  <1> SUFFICES ASSUME IInv, Settle \/ StopWorker \/ FailDispatch \/ ImportQuestion PROVE IInv'
    OBVIOUS
  <1>1. UNCHANGED <<receipts, queued, federated, asking, crashes>>
    BY DEF Settle, StopWorker, FailDispatch, ImportQuestion
  <1>2. /\ dispatch' \in {"active", "settled", "failed"}
        /\ woken' \subseteq {r \in Ask : asking[r] # 0}
    BY Memory DEF Settle, StopWorker, FailDispatch, ImportQuestion
  <1>3. CASE Settle \/ StopWorker \/ FailDispatch
    <2>1. questions' = QuestionsClosed \/ questions' = questions
      BY <1>3 DEF Settle, StopWorker, FailDispatch
    <2>2. Steady /\ Same
      BY <2>1, CloseSteady, NoneSteady
    <2> QED BY <1>1, <1>2, <2>2, Unrecorded DEF Same
  <1>4. CASE ImportQuestion
    <2>1. Len(questions) < MaxQuestions /\ questions' = Append(questions, NewQuestion(Import))
      BY <1>4 DEF ImportQuestion
    <2>2. Steady /\ \A q \in DOMAIN questions' : q \notin DOMAIN questions =>
            q = Len(questions) + 1 /\ questions'[q].by = Import
      BY <2>1, NewSteady
    <2> QED BY <1>1, <1>2, <2>2, Unrecorded
  <1> QED BY <1>3, <1>4

LEMMA RefusedStep ==
  ASSUME IInv, NEW r \in Reply, NEW q \in Question, NEW b \in Body, ReplyRefused(r, q, b)
  PROVE  IInv'
  <1>1. Answerable(q, b) /\ questions' = Answered(q, b)
        /\ UNCHANGED <<receipts, queued, federated, asking, crashes, dispatch, woken>>
    BY DEF ReplyRefused
  <1>2. Steady /\ Same
    BY <1>1, AnswerSteady
  <1> QED BY <1>1, <1>2, Memory, Unrecorded DEF Same

-----------------------------------------------------------------------------
(* Steps that record a receipt *)

LEMMA AskNewStep ==
  ASSUME IInv, NEW r \in Ask, AskNew(r)
  PROVE  IInv'
  <1> DEFINE n == Len(questions) + 1
  <1>1. /\ receipts[r].state = "absent" /\ Len(questions) < MaxQuestions
        /\ questions' = Append(questions, NewQuestion(r))
        /\ receipts' = [receipts EXCEPT ![r] = [state |-> "completed", call |-> <<0, NoAnswer>>,
                                               result |-> <<n, NoAnswer>>]]
        /\ asking' = [asking EXCEPT ![r] = n]
        /\ UNCHANGED <<queued, dispatch, woken, federated, crashes>>
    BY DEF AskNew, Create, Ledger!Fresh, Ledger!Record, Ledger!Completed, AskCall
  <1>2. /\ Steady /\ n \in DOMAIN questions' /\ Len(questions') = n
        /\ \A q \in DOMAIN questions' : q \notin DOMAIN questions =>
             q = n /\ questions'[q].by = r
    BY <1>1, NewSteady
  <1>3. /\ receipts \in [Request -> Receipt] /\ queued \subseteq (DOMAIN questions) \X Body
        /\ Len(questions) \in Nat /\ MaxQuestions \in Nat /\ r \notin Reply /\ r \in Request
    BY Types, Memory DEF IInv
  <1>4. n \in Question /\ n \in Nat /\ n # 0
    BY <1>1, <1>3 DEF Question
  <1> HIDE DEF n
  <1>5. /\ receipts'[r].state = "completed" /\ receipts'[r].result = <<n, NoAnswer>>
        /\ \A s \in Request : s # r => receipts'[s] = receipts[s]
    BY <1>1, <1>3
  <1>6. receipts' \in [Request -> Receipt]
    <2>1. <<0, NoAnswer>> \in Says /\ <<n, NoAnswer>> \in Tells
      BY <1>3, <1>4 DEF Says, Tells, Answer
    <2> QED BY <1>1, <1>3, <2>1 DEF Receipt
  <1>7. Truth(r)'
    BY <1>2, <1>3, <1>4, <1>5 DEF Truth, Tells, Answer
  <1>8. asking' \in [Ask -> 0 .. Len(questions')] /\ woken' \subseteq {s \in Ask : asking'[s] # 0}
    <2>1. 0 .. Len(questions) \subseteq 0 .. n /\ n \in 0 .. n
      BY <1>3, <1>4 DEF n
    <2> QED BY <1>1, <1>2, <1>4, <2>1, Memory
  <1>9. WaitsOK'
    <2>1. \A s \in Ask : s # r => asking'[s] = asking[s]
      BY <1>1, Memory
    <2> QED BY <1>5, <2>1, Memory DEF IInv, WaitsOK
  <1>10. queued' \subseteq (DOMAIN questions') \X Body
    BY <1>1, <1>2, <1>3 DEF Steady
  <1>11. Sound
    <2>1. \A s \in Request : receipts'[s] = receipts[s] \/ Truth(s)'
      BY <1>5, <1>7
    <2>2. \A s \in Request : receipts[s].state # "absent" => receipts'[s].state # "absent"
      BY <1>5
    <2>3. \A q \in DOMAIN questions' : q \notin DOMAIN questions =>
            /\ q = Len(questions) + 1
            /\ questions'[q].by \in Ask /\ receipts[questions'[q].by].state = "absent"
            /\ receipts'[questions'[q].by].state # "absent"
      BY <1>1, <1>2, <1>5 DEF n
    <2> QED BY <1>1, <1>2, <1>6, <1>8, <1>9, <1>10, <2>1, <2>2, <2>3, Memory DEF Sound
  <1> QED BY <1>11, SoundStep

\* A step that leaves the questions and records the receipt of one ask.
LEMMA AskRecords ==
  ASSUME IInv, NEW r \in Ask, receipts' \in [Request -> Receipt],
         receipts'[r].state # "absent", receipts'[r] = receipts[r] \/ Truth(r)',
         \A s \in Request : s # r => receipts'[s] = receipts[s],
         asking' \in [Ask -> 0 .. Len(questions)],
         \A s \in Ask : s # r => asking'[s] = asking[s],
         asking'[r] # 0 => receipts'[r].state = "completed",
         woken' \subseteq {s \in Ask : asking'[s] # 0},
         UNCHANGED <<questions, queued, dispatch, federated, crashes>>
  PROVE  IInv'
  <1>1. Steady /\ Same
    BY NoneSteady
  <1>2. WaitsOK'
    BY Memory DEF IInv, WaitsOK
  <1>3. queued' \subseteq (DOMAIN questions') \X Body
    BY Types DEF IInv
  <1>4. \A s \in Request : receipts'[s] = receipts[s] \/ Truth(s)'
    OBVIOUS
  <1>5. Sound
    BY <1>1, <1>2, <1>3, <1>4, Memory DEF Sound, Same
  <1> QED BY <1>5, SoundStep

LEMMA AskResumeStep ==
  ASSUME IInv, NEW r \in Ask, NEW q \in Question, AskResume(r, q)
  PROVE  IInv'
  <1> DEFINE answer == questions[q].answer
  <1>1. /\ q \in DOMAIN questions
        /\ receipts' = [receipts EXCEPT ![r] = [state |-> "completed", call |-> <<q, NoAnswer>>,
                                               result |-> <<q, answer>>]]
        /\ asking' = [asking EXCEPT ![r] = IF Open(q) THEN q ELSE 0]
        /\ UNCHANGED <<questions, queued, dispatch, woken, federated, crashes>>
        /\ receipts[r].state = "absent"
    BY DEF AskResume, Ledger!Record, Ledger!Completed, AskCall, Ledger!Fresh
  <1>2. /\ receipts \in [Request -> Receipt] /\ questions \in Seq(Row) /\ r \in Request
        /\ DOMAIN questions = 1 .. Len(questions) /\ Len(questions) \in Nat
        /\ Len(questions) <= MaxQuestions /\ MaxQuestions \in Nat /\ r \notin Reply
    BY Types, Memory DEF IInv
  <1>3. answer \in Answer
    <2>1. questions[q] \in Row
      BY <1>1, <1>2
    <2> QED BY <2>1 DEF Row
  <1>4. answer # NoAnswer => questions[q].status = "answered"
    BY <1>1 DEF IInv, AnswersOK
  <1> HIDE DEF answer
  <1>5. q \in Nat /\ q # 0 /\ q \in 0 .. MaxQuestions /\ q \in 0 .. Len(questions)
    BY <1>1, <1>2
  <1>6. /\ receipts'[r].state = "completed" /\ receipts'[r].result = <<q, answer>>
        /\ \A s \in Request : s # r => receipts'[s] = receipts[s]
    BY <1>1, <1>2
  <1>7. receipts' \in [Request -> Receipt]
    <2>1. <<q, NoAnswer>> \in Says /\ <<q, answer>> \in Tells
      BY <1>3, <1>5 DEF Says, Tells, Answer
    <2> QED BY <1>1, <1>2, <2>1 DEF Receipt
  <1>8. Truth(r)'
    BY <1>1, <1>2, <1>3, <1>4, <1>6 DEF Truth, Tells, answer
  <1>9. /\ asking' \in [Ask -> 0 .. Len(questions)]
        /\ \A s \in Ask : s # r => asking'[s] = asking[s]
    BY <1>1, <1>5, Memory
  <1>10. woken' \subseteq {s \in Ask : asking'[s] # 0}
    <2>1. asking[r] = 0
      BY <1>1 DEF IInv, WaitsOK
    <2> QED BY <1>1, <1>9, <2>1, Memory
  <1> QED BY <1>1, <1>6, <1>7, <1>8, <1>9, <1>10, AskRecords

\* A waiting call ends: with the answer, with a refusal, or without an answer.
LEMMA ReturnStep ==
  ASSUME IInv, NEW r \in Ask, asking[r] # 0,
         AskReturns(r) \/ (/\ Ledger!Complete(r, <<asking[r], NoAnswer>>)
                           /\ asking' = [asking EXCEPT ![r] = 0]),
         r \notin woken', woken' \subseteq woken,
         UNCHANGED <<questions, queued, dispatch, federated, crashes>>
  PROVE  IInv'
  <1> DEFINE q == asking[r]
  <1>1. /\ receipts \in [Request -> Receipt] /\ questions \in Seq(Row) /\ r \in Request
        /\ DOMAIN questions = 1 .. Len(questions) /\ Len(questions) \in Nat
        /\ Len(questions) <= MaxQuestions /\ MaxQuestions \in Nat /\ r \notin Reply
        /\ asking \in [Ask -> 0 .. Len(questions)]
    BY Types, Memory DEF IInv
  <1>2. q \in DOMAIN questions /\ q \in Question
    <2>1. q \in 0 .. Len(questions) /\ q # 0
      BY <1>1
    <2> HIDE DEF q
    <2>2. q \in 1 .. Len(questions)
      BY <1>1, <2>1
    <2> QED BY <1>1, <2>2 DEF Question
  <1>3. asking' = [asking EXCEPT ![r] = 0]
    BY DEF AskReturns
  <1>4. /\ asking' \in [Ask -> 0 .. Len(questions)] /\ asking'[r] = 0
        /\ \A s \in Ask : s # r => asking'[s] = asking[s]
    BY <1>1, <1>3
  <1>5. woken' \subseteq {s \in Ask : asking'[s] # 0}
    BY <1>4, Memory
  <1>6. receipts[r].state = "completed"
    BY DEF IInv, WaitsOK
  <1> HIDE DEF q
  <1>7. CASE receipts' = receipts
    BY <1>1, <1>4, <1>5, <1>6, <1>7, AskRecords
  <1>8. CASE \E answer \in Answer : /\ Ledger!Complete(r, <<q, answer>>)
                                    /\ answer # NoAnswer => /\ questions[q].status = "answered"
                                                            /\ questions[q].answer = answer
    <2>1. PICK answer \in Answer : /\ Ledger!Complete(r, <<q, answer>>)
                                   /\ answer # NoAnswer => /\ questions[q].status = "answered"
                                                           /\ questions[q].answer = answer
      BY <1>8
    <2>2. receipts' = [receipts EXCEPT ![r].state = "completed", ![r].result = <<q, answer>>]
      BY <2>1 DEF Ledger!Complete
    <2>3. receipts[r] \in Receipt /\ <<q, answer>> \in Tells
      BY <1>1, <1>2 DEF Tells
    <2>4. /\ receipts'[r].state = "completed" /\ receipts'[r].result = <<q, answer>>
          /\ receipts'[r] \in Receipt
          /\ \A s \in Request : s # r => receipts'[s] = receipts[s]
      BY <1>1, <2>2, <2>3 DEF Receipt
    <2>5. receipts' \in [Request -> Receipt]
      BY <1>1, <2>2, <2>4
    <2>6. Truth(r)'
      BY <1>1, <1>2, <2>1, <2>3, <2>4 DEF Truth
    <2> QED BY <1>4, <1>5, <2>4, <2>5, <2>6, AskRecords
  <1>9. CASE AskReturns(r)
    <2>1. CASE questions[q].status = "answered"
      <3>1. Ledger!Complete(r, <<q, questions[q].answer>>)
        BY <1>9, <2>1 DEF AskReturns, q
      <3>2. questions[q].answer \in Answer
        <4>1. questions[q] \in Row
          BY <1>1, <1>2
        <4> QED BY <4>1 DEF Row
      <3> QED BY <1>8, <2>1, <3>1, <3>2
    <2>2. CASE questions[q].status # "answered"
      <3>1. Ledger!Discard(r)
        BY <1>9, <2>2 DEF AskReturns, q
      <3>2. receipts' = receipts
        BY <1>1, <1>6, <3>1 DEF Ledger!Discard
      <3> QED BY <1>7, <3>2
    <2> QED BY <2>1, <2>2
  <1>10. CASE Ledger!Complete(r, <<q, NoAnswer>>)
    <2>1. NoAnswer \in Answer
      BY DEF Answer
    <2> QED BY <1>8, <1>10, <2>1
  <1> QED BY <1>9, <1>10 DEF q

LEMMA AskEndsStep ==
  ASSUME IInv, NEW r \in Ask, AskWakes(r) \/ AskEnds(r)
  PROVE  IInv'
  <1>1. UNCHANGED <<questions, queued, dispatch, federated, crashes>>
        /\ r \notin woken' /\ woken' \subseteq woken /\ asking[r] # 0
    BY Memory DEF AskWakes, AskEnds
  <1>2. CASE AskReturns(r) \/ (/\ Ledger!Complete(r, <<asking[r], NoAnswer>>)
                               /\ asking' = [asking EXCEPT ![r] = 0])
    BY <1>1, <1>2, ReturnStep
  <1>3. CASE UNCHANGED <<receipts, asking>>
    <2>1. Steady /\ Same
      BY <1>1, NoneSteady
    <2> QED BY <1>1, <1>3, <2>1, Memory, Unrecorded DEF Same
  <1> QED BY <1>2, <1>3 DEF AskWakes, AskEnds

LEMMA ReplyStep ==
  ASSUME IInv, NEW r \in Reply, NEW q \in Question, NEW b \in Body, ReplyTo(r, q, b)
  PROVE  IInv'
  <1>1. /\ receipts[r].state = "absent" /\ Answerable(q, b) /\ questions' = Answered(q, b)
        /\ receipts' = [receipts EXCEPT ![r] = [state |-> "completed", call |-> <<q, b>>,
                                               result |-> <<q, b>>]]
        /\ queued' = IF federated THEN queued \union {<<q, b>>} ELSE queued
        /\ woken' = woken \/ woken' = woken \union {s \in Ask : asking[s] # 0}
        /\ UNCHANGED <<dispatch, asking, federated, crashes>>
    BY Memory DEF ReplyTo, Ledger!Fresh, Ledger!Record, Ledger!Completed, ReplyCall, Waiting
  <1>2. /\ Steady /\ Same /\ q \in DOMAIN questions
        /\ questions'[q].status = "answered" /\ questions'[q].answer = b
    BY <1>1, AnswerSteady
  <1>3. /\ receipts \in [Request -> Receipt] /\ r \in Request /\ r \notin Ask /\ NoAnswer \notin Body
        /\ queued \subseteq (DOMAIN questions) \X Body /\ MaxQuestions \in Nat
        /\ Len(questions) \in Nat /\ DOMAIN questions = 1 .. Len(questions)
    BY Types, Memory DEF IInv
  <1>4. /\ receipts'[r].state = "completed" /\ receipts'[r].result = <<q, b>>
        /\ \A s \in Request : s # r => receipts'[s] = receipts[s]
    BY <1>1, <1>3
  <1>5. receipts' \in [Request -> Receipt]
    <2>1. <<q, b>> \in Says /\ <<q, b>> \in Tells
      BY <1>3 DEF Says, Tells, Answer, Question
    <2> QED BY <1>1, <1>3, <2>1 DEF Receipt
  <1>6. Truth(r)'
    <2>1. <<q, b>> \in Tells /\ q \in DOMAIN questions'
      BY <1>2 DEF Tells, Answer, Same
    <2>2. federated' => <<q, b>> \in queued'
      BY <1>1
    <2> QED BY <1>2, <1>3, <1>4, <2>1, <2>2 DEF Truth
  <1>7. /\ queued \subseteq queued' /\ queued' \subseteq (DOMAIN questions') \X Body
        /\ \A pair \in queued' : \/ pair \in queued
                                 \/ /\ questions'[pair[1]].status = "answered"
                                    /\ questions'[pair[1]].answer = pair[2]
    BY <1>1, <1>2, <1>3 DEF Same
  <1>8. WaitsOK'
    BY <1>1, <1>3, <1>4, Memory DEF IInv, WaitsOK
  <1>9. /\ asking' \in [Ask -> 0 .. Len(questions')] /\ woken' \subseteq {s \in Ask : asking'[s] # 0}
    <2>1. 0 .. Len(questions) \subseteq 0 .. Len(questions')
      BY <1>2, <1>3 DEF Steady
    <2> QED BY <1>1, <2>1, Memory
  <1>10. Sound
    <2>1. \A s \in Request : receipts'[s] = receipts[s] \/ Truth(s)'
      BY <1>4, <1>6
    <2>2. \A s \in Request : receipts[s].state # "absent" => receipts'[s].state # "absent"
      BY <1>4
    <2> QED BY <1>1, <1>2, <1>5, <1>7, <1>8, <1>9, <2>1, <2>2, Memory DEF Sound, Same
  <1> QED BY <1>10, SoundStep

-----------------------------------------------------------------------------
(* Restarts *)

\* A restart that leaves one receipt pending, or none.
LEMMA DownStep ==
  ASSUME IInv, Steady, receipts' \in [Request -> Receipt],
         NEW r \in Request, receipts' = receipts \/ receipts'[r].state = "pending",
         \A s \in Request : s # r => receipts'[s] = receipts[s],
         queued \subseteq queued', queued' \subseteq (DOMAIN questions') \X Body,
         \A pair \in queued' : \/ pair \in queued
                               \/ /\ questions'[pair[1]].status = "answered"
                                  /\ questions'[pair[1]].answer = pair[2],
         asking' = [s \in Ask |-> 0], woken' = {}, crashes' \in 0 .. MaxCrashes,
         UNCHANGED <<dispatch, federated>>,
         \A q \in DOMAIN questions' : q \notin DOMAIN questions =>
           /\ q = Len(questions) + 1 /\ questions'[q].by = r /\ r \in Ask
           /\ receipts[r].state = "absent" /\ receipts'[r].state = "pending"
  PROVE  IInv'
  <1>1. asking' \in [Ask -> 0 .. Len(questions')]
    BY DEF Steady
  <1>2. WaitsOK'
    BY DEF WaitsOK
  <1>3. \A s \in Request : receipts[s].state # "absent" => receipts'[s].state # "absent"
    OBVIOUS
  <1>4. \A s \in Request : receipts'[s] = receipts[s] \/ receipts'[s].state = "pending"
    OBVIOUS
  <1>5. Sound
    BY <1>1, <1>2, <1>3, <1>4, Memory DEF Sound
  <1> QED BY <1>5, SoundStep

LEMMA Interrupted ==
  ASSUME IInv, NEW r \in Request, NEW call \in Says, Ledger!Interrupt(r, call)
  PROVE  /\ receipts' \in [Request -> Receipt] /\ receipts'[r].state = "pending"
         /\ \A s \in Request : s # r => receipts'[s] = receipts[s]
  <1>1. receipts \in [Request -> Receipt]
    BY Types DEF IInv
  <1>2. receipts' = [receipts EXCEPT ![r] = [state |-> "pending", call |-> call, result |-> Nothing]]
    BY DEF Ledger!Interrupt, Ledger!Pending
  <1> QED BY <1>1, <1>2 DEF Receipt

LEMMA RestartStep == IInv /\ Restart => IInv'
  <1> SUFFICES ASSUME IInv, Restart PROVE IInv'
    OBVIOUS
  <1>1. /\ asking' = [r \in Ask |-> 0] /\ woken' = {}
        /\ UNCHANGED <<dispatch, federated>>
    BY DEF Restart
  <1>2. crashes' \in 0 .. MaxCrashes
    BY Memory DEF Restart
  <1>3. /\ receipts \in [Request -> Receipt] /\ queued \subseteq (DOMAIN questions) \X Body
        /\ questions \in Seq(Row) /\ MaxQuestions \in Nat
    BY Types DEF IInv
  <1>4. CASE UNCHANGED <<receipts, questions, queued>>
    <2>1. Steady /\ Same
      BY <1>4, NoneSteady
    <2>2. receipts' \in [Request -> Receipt] /\ queued \subseteq queued'
          /\ queued' \subseteq (DOMAIN questions') \X Body
      BY <1>3, <1>4
    <2>3. WaitsOK'
      BY <1>1 DEF WaitsOK
    <2>4. asking' \in [Ask -> 0 .. Len(questions')]
      BY <1>1, <2>1 DEF Steady
    <2>5. Sound
      BY <1>1, <1>2, <1>4, <2>1, <2>2, <2>3, <2>4, Memory DEF Sound, Same
    <2> QED BY <2>5, SoundStep
  <1>5. ASSUME NEW r \in Ask, TornAsk(r)
        PROVE  IInv'
    <2>1. receipts[r].state = "absent" /\ Ledger!Interrupt(r, <<0, NoAnswer>>) /\ queued' = queued
          /\ (Create(r) \/ UNCHANGED questions)
      BY <1>5 DEF TornAsk, Ledger!Fresh, AskCall
    <2>2. r \in Request /\ <<0, NoAnswer>> \in Says
      BY <1>3, Memory DEF Says, Answer
    <2>3. /\ receipts' \in [Request -> Receipt] /\ receipts'[r].state = "pending"
          /\ \A s \in Request : s # r => receipts'[s] = receipts[s]
      BY <2>1, <2>2, Interrupted
    <2>4. /\ Steady
          /\ \A q \in DOMAIN questions' : q \notin DOMAIN questions =>
               q = Len(questions) + 1 /\ questions'[q].by = r
      <3>1. CASE Create(r)
        BY <3>1, NewSteady DEF Create
      <3>2. CASE UNCHANGED questions
        BY <3>2, NoneSteady DEF Same
      <3> QED BY <2>1, <3>1, <3>2
    <2>5. queued \subseteq queued' /\ queued' \subseteq (DOMAIN questions') \X Body
          /\ \A pair \in queued' : pair \in queued
      BY <1>3, <2>1, <2>4 DEF Steady
    <2> QED BY <1>1, <1>2, <2>1, <2>2, <2>3, <2>4, <2>5, DownStep
  <1>6. ASSUME NEW r \in Reply, NEW q \in DOMAIN questions, NEW b \in Body, TornReply(r, q, b)
        PROVE  IInv'
    <2>1. /\ Ledger!Interrupt(r, <<q, b>>)
          /\ \/ UNCHANGED <<questions, queued>>
             \/ /\ Answerable(q, b) /\ questions' = Answered(q, b)
                /\ queued' = queued \/ queued' = queued \union {<<q, b>>}
      BY <1>6 DEF TornReply, ReplyCall
    <2>2. r \in Request /\ <<q, b>> \in Says
      BY Types, Memory DEF IInv, Says, Answer
    <2>3. /\ receipts' \in [Request -> Receipt] /\ receipts'[r].state = "pending"
          /\ \A s \in Request : s # r => receipts'[s] = receipts[s]
      BY <2>1, <2>2, Interrupted
    <2>4. /\ Steady /\ Same
          /\ queued \subseteq queued' /\ queued' \subseteq (DOMAIN questions') \X Body
          /\ \A pair \in queued' : \/ pair \in queued
                                   \/ /\ questions'[pair[1]].status = "answered"
                                      /\ questions'[pair[1]].answer = pair[2]
      <3>1. CASE UNCHANGED <<questions, queued>>
        BY <1>3, <3>1, NoneSteady DEF Same
      <3>2. CASE /\ Answerable(q, b) /\ questions' = Answered(q, b)
                 /\ queued' = queued \/ queued' = queued \union {<<q, b>>}
        <4>1. Steady /\ Same /\ questions'[q].status = "answered" /\ questions'[q].answer = b
          BY <3>2, AnswerSteady
        <4> QED BY <1>3, <3>2, <4>1 DEF Same
      <3> QED BY <2>1, <3>1, <3>2
    <2> QED BY <1>1, <1>2, <2>2, <2>3, <2>4, DownStep DEF Same
  <1> QED BY <1>4, <1>5, <1>6 DEF Restart

-----------------------------------------------------------------------------
(* The invariant and what follows from it *)

LEMMA NextIInv == IInv /\ [Next]_vars => IInv'
  <1> SUFFICES ASSUME IInv, [Next]_vars PROVE IInv'
    OBVIOUS
  <1>1. CASE UNCHANGED vars
    <2>1. UNCHANGED <<receipts, questions, queued, dispatch, asking, woken, federated, crashes>>
      BY <1>1 DEF vars
    <2>2. Steady /\ Same
      BY <2>1, NoneSteady
    <2> QED BY <2>1, <2>2, Memory, Unrecorded DEF Same
  <1>2. CASE Next
    BY <1>2, AskNewStep, AskEndsStep, AskResumeStep, ReplyStep, RefusedStep, DispatchSteps,
       RestartStep DEF Next
  <1> QED BY <1>1, <1>2

LEMMA QuestionInvariance == Spec => []IInv
  BY InitIInv, NextIInv, PTL DEF Spec

\* A request ID creates at most one question, whatever is repeated, interrupted or
\* refused in between (orchestration.ask under its durable mutation receipt).
THEOREM AskOnce == Spec => []OneQuestionPerRequest
  <1>1. IInv => OneQuestionPerRequest
    BY DEF IInv
  <1> QED BY <1>1, QuestionInvariance, PTL

\* A question that exists has a receipt that keeps its request from running again.
THEOREM AskIsReceipted == Spec => []EffectIsReceipted
  <1>1. IInv => EffectIsReceipted
    BY DEF IInv
  <1> QED BY <1>1, QuestionInvariance, PTL

\* A replayed receipt tells what the tables say now, and queued answers are the
\* questions' own (orchestration.reply, replayMutationResponse).
THEOREM ReplayTellsTruth == Spec => []ReceiptIsTrue
  <1>1. IInv => ReceiptIsTrue
    BY DEF IInv, ReceiptIsTrue, ReceiptsOK, QueuedOK, Truth, Request
  <1> QED BY <1>1, QuestionInvariance, PTL

\* An answer and a closing are final, for every step and restart.
THEOREM VerdictStays == Spec => VerdictIsFinal
  <1>1. IInv /\ [Next]_vars
          => [\A q \in DOMAIN questions : ~Open(q) => questions'[q] = questions[q]]_vars
    <2> SUFFICES ASSUME IInv, Next
                 PROVE  \A q \in DOMAIN questions : ~Open(q) => questions'[q] = questions[q]
      OBVIOUS
    <2>1. Steady \/ UNCHANGED questions
      <3>1. CASE \E r \in Ask : AskNew(r) \/ TornAsk(r)
        BY <3>1, NewSteady DEF AskNew, TornAsk, Create
      <3>2. CASE ImportQuestion
        BY <3>2, NewSteady DEF ImportQuestion
      <3>3. CASE \E r \in Reply, q \in Nat, b \in Body :
                   ReplyTo(r, q, b) \/ ReplyRefused(r, q, b) \/ TornReply(r, q, b)
        BY <3>3, AnswerSteady DEF ReplyTo, ReplyRefused, TornReply
      <3>4. CASE Settle \/ StopWorker
        BY <3>4, CloseSteady DEF Settle, StopWorker
      <3>5. CASE FailDispatch \/ \E r \in Ask : AskWakes(r) \/ AskEnds(r)
                              \/ \E q \in Question : AskResume(r, q)
        BY <3>5 DEF FailDispatch, AskWakes, AskEnds, AskResume
      <3>6. Question \subseteq Nat /\ DOMAIN questions \subseteq Nat
        BY Types DEF IInv, Question
      <3>7. CASE Restart
        BY <3>1, <3>3, <3>6, <3>7 DEF Restart
      <3> QED BY <3>1, <3>2, <3>3, <3>4, <3>5, <3>6, <3>7 DEF Next
    <2> QED BY <2>1 DEF Steady
  <1> QED BY <1>1, QuestionInvariance, PTL DEF Spec, VerdictIsFinal
=============================================================================
