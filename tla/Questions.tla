------------------------------ MODULE Questions ------------------------------
(***************************************************************************)
(* The questions a worker asks about its Dispatch, and their answers:      *)
(* orchestration.ask and orchestration.reply over the question_threads     *)
(* table, each run as a durable mutation.  The worker is local and waits   *)
(* inside its call, or it works on another server, from which its          *)
(* questions are imported and to which the answers are relayed.            *)
(*                                                                         *)
(* A handler runs to its first await without a pause.  ask awaits the      *)
(* answer after it has recorded its acceptance; reply awaits nothing.  A   *)
(* restart may fall between two of a handler's transactions.               *)
(***************************************************************************)
EXTENDS Naturals, Sequences

CONSTANTS
  Ask,           \* request IDs the worker uses for ask
  Reply,         \* request IDs a coordinator uses for reply
  Body,          \* what an answer may say
  NoAnswer,      \* no answer yet
  Import,        \* the author of a question that was imported
  Nothing,       \* an absent call or result
  MaxQuestions,  \* bound: questions
  MaxCrashes     \* bound: restarts

ASSUME QuestionAssumption ==
  /\ Ask \intersect Reply = {} /\ Import \notin Ask \union Reply
  /\ NoAnswer \notin Body
  /\ MaxQuestions \in Nat /\ MaxCrashes \in Nat

Question == 1 .. MaxQuestions

VARIABLES
  receipts,   \* mutation_receipts
  questions,  \* question_threads: rows [by, status, answer], in order of creation
  queued,     \* relayed answers: federation_relay_items of kind reply, <<question, body>>
  dispatch,   \* state of the Dispatch
  asking,     \* memory: asking[r] is the question the call r waits for, 0 for none
  woken,      \* memory: waiting calls whose waiter was resolved
  federated,  \* the worker is on another server
  crashes

vars == <<receipts, questions, queued, dispatch, asking, woken, federated, crashes>>

\* A call is the question it is about, 0 for a new one, and what it says.
AskCall(q)      == <<q, NoAnswer>>
ReplyCall(q, b) == <<q, b>>

Ledger == INSTANCE MutationReceipts WITH
            Request <- Ask \union Reply,
            Call <- (0 .. MaxQuestions) \X (Body \union {NoAnswer}),
            Result <- Question \X (Body \union {NoAnswer}),
            NoCall <- Nothing, NoResult <- Nothing

TypeOK ==
  /\ Ledger!ReceiptsOK
  /\ questions \in Seq([by : Ask \union {Import}, status : {"pending", "answered", "closed"},
                        answer : Body \union {NoAnswer}])
  /\ Len(questions) <= MaxQuestions
  /\ queued \subseteq (DOMAIN questions) \X Body
  /\ dispatch \in {"active", "settled", "failed"}
  /\ asking \in [Ask -> 0 .. Len(questions)]
  /\ woken \subseteq {r \in Ask : asking[r] # 0}
  /\ federated \in BOOLEAN
  /\ crashes \in 0 .. MaxCrashes

Init ==
  /\ Ledger!ReceiptsInit
  /\ questions = <<>> /\ queued = {} /\ dispatch = "active"
  /\ asking = [r \in Ask |-> 0] /\ woken = {}
  /\ federated \in BOOLEAN /\ crashes = 0

Open(q)        == questions[q].status = "pending"
NewQuestion(r) == [by |-> r, status |-> "pending", answer |-> NoAnswer]

----------------------------------------------------------------------------
(* ask *)

\* createQuestion, in one transaction.
Create(r) ==
  /\ dispatch = "active" /\ Len(questions) < MaxQuestions
  /\ questions' = Append(questions, NewQuestion(r))

\* A new question: its acceptance is recorded, and the handler waits.
AskNew(r) ==
  /\ ~federated /\ Ledger!Fresh(r)
  /\ Create(r)
  /\ Ledger!Record(r, AskCall(0), <<Len(questions) + 1, NoAnswer>>)
  /\ asking' = [asking EXCEPT ![r] = Len(questions) + 1]
  /\ UNCHANGED <<queued, dispatch, woken, federated, crashes>>

\* ask --resume: the acceptance is recorded before the question is looked at.
AskResume(r, q) ==
  /\ ~federated /\ Ledger!Fresh(r)
  /\ dispatch = "active" /\ q \in DOMAIN questions
  /\ Ledger!Record(r, AskCall(q), <<q, questions[q].answer>>)
  /\ asking' = [asking EXCEPT ![r] = IF Open(q) THEN q ELSE 0]
  /\ UNCHANGED <<questions, queued, dispatch, woken, federated, crashes>>

\* The handler returns the answer, or throws because the question is closed.
AskReturns(r) ==
  LET q == asking[r] IN
  /\ ~Open(q)
  /\ IF questions[q].status = "answered" THEN Ledger!Complete(r, <<q, questions[q].answer>>)
     ELSE Ledger!Discard(r)
  /\ asking' = [asking EXCEPT ![r] = 0]

\* A resolved waiter: the handler looks at its question and returns or waits on.
AskWakes(r) ==
  /\ r \in woken
  /\ woken' = woken \ {r}
  /\ AskReturns(r) \/ (Open(asking[r]) /\ UNCHANGED <<receipts, asking>>)
  /\ UNCHANGED <<questions, queued, dispatch, federated, crashes>>

\* The waiter's time is over, or the asking connection is closed.
AskEnds(r) ==
  /\ asking[r] # 0 /\ r \notin woken
  /\ \/ AskReturns(r)
     \/ /\ Open(asking[r])
        /\ Ledger!Complete(r, <<asking[r], NoAnswer>>)
        /\ asking' = [asking EXCEPT ![r] = 0]
  /\ UNCHANGED <<questions, queued, dispatch, woken, federated, crashes>>

\* importFederatedRelayItem of a question, whatever the Dispatch's state.
ImportQuestion ==
  /\ federated /\ Len(questions) < MaxQuestions
  /\ questions' = Append(questions, NewQuestion(Import))
  /\ UNCHANGED <<receipts, queued, dispatch, asking, woken, federated, crashes>>

----------------------------------------------------------------------------
(* reply *)

\* Mutant: an answered question accepts any answer as a repetition.
AnswerableAgain(q, b) == q \in DOMAIN questions /\ questions[q].status # "closed"

\* answerQuestion accepts an open question, and the answer it has already.
Answerable(q, b) ==
  /\ q \in DOMAIN questions
  /\ Open(q) \/ (questions[q].status = "answered" /\ questions[q].answer = b)

Answered(q, b) ==
  [questions EXCEPT ![q] = IF Open(q) THEN [@ EXCEPT !.status = "answered", !.answer = b] ELSE @]

\* Mutant: only the call that created the question is woken.
AuthorWaits(q) == {r \in Ask : asking[r] = q /\ questions[q].by = r}

\* notifyMessageArrived(dispatch:<id>): every call that waits for this Dispatch.
Waiting(q) == {r \in Ask : asking[r] # 0}

\* answerQuestion in one transaction; then the local waiters are woken, or the
\* answer is queued for the worker's server in a second transaction.
ReplyTo(r, q, b) ==
  /\ Ledger!Fresh(r)
  /\ Answerable(q, b)
  /\ questions' = Answered(q, b)
  /\ Ledger!Record(r, ReplyCall(q, b), <<q, b>>)
  /\ IF federated THEN queued' = queued \union {<<q, b>>} /\ UNCHANGED woken
     ELSE woken' = woken \union Waiting(q) /\ UNCHANGED queued
  /\ UNCHANGED <<dispatch, asking, federated, crashes>>

\* The relay has no capacity: the answer stays, the call is refused.
ReplyRefused(r, q, b) ==
  /\ federated /\ Ledger!Fresh(r)
  /\ Answerable(q, b)
  /\ questions' = Answered(q, b)
  /\ UNCHANGED <<receipts, queued, dispatch, asking, woken, federated, crashes>>

----------------------------------------------------------------------------
(* The Dispatch *)

\* Mutant: the Dispatch takes its answered questions with it.
AllClosed == [q \in DOMAIN questions |-> [questions[q] EXCEPT !.status = "closed"]]

\* closeQuestionsForDispatch
QuestionsClosed ==
  [q \in DOMAIN questions |-> IF Open(q) THEN [questions[q] EXCEPT !.status = "closed"]
                              ELSE questions[q]]

\* The worker's report settles the Dispatch; nobody is woken.
Settle ==
  /\ dispatch = "active"
  /\ dispatch' = "settled" /\ questions' = QuestionsClosed
  /\ UNCHANGED <<receipts, queued, asking, woken, federated, crashes>>

\* worker-stop, worker-abandon and a failed start close the questions and notify.
StopWorker ==
  /\ dispatch \in {"active", "failed"}
  /\ dispatch' = "settled" /\ questions' = QuestionsClosed
  /\ woken' = woken \union {r \in Ask : asking[r] # 0}
  /\ UNCHANGED <<receipts, queued, asking, federated, crashes>>

\* failDispatch leaves the questions open.
FailDispatch ==
  /\ dispatch = "active"
  /\ dispatch' = "failed"
  /\ UNCHANGED <<receipts, questions, queued, asking, woken, federated, crashes>>

----------------------------------------------------------------------------
(* Restart *)

\* The process dies after none, one or more of a handler's transactions.
TornAsk(r) ==
  /\ ~federated /\ Ledger!Fresh(r)
  /\ Ledger!Interrupt(r, AskCall(0))
  /\ Create(r) \/ UNCHANGED questions
  /\ UNCHANGED queued

TornReply(r, q, b) ==
  /\ Ledger!Fresh(r)
  /\ Ledger!Interrupt(r, ReplyCall(q, b))
  /\ \/ UNCHANGED <<questions, queued>>
     \/ /\ Answerable(q, b) /\ questions' = Answered(q, b)
        /\ UNCHANGED queued \/ (federated /\ queued' = queued \union {<<q, b>>})

Restart ==
  /\ crashes < MaxCrashes /\ crashes' = crashes + 1
  /\ asking' = [r \in Ask |-> 0] /\ woken' = {}
  /\ \/ UNCHANGED <<receipts, questions, queued>>
     \/ \E r \in Ask : TornAsk(r)
     \/ \E r \in Reply, q \in DOMAIN questions, b \in Body : TornReply(r, q, b)
  /\ UNCHANGED <<dispatch, federated>>

Next ==
  \/ \E r \in Ask : AskNew(r) \/ AskWakes(r) \/ AskEnds(r)
  \/ \E r \in Ask, q \in Question : AskResume(r, q)
  \/ \E r \in Reply, q \in Question, b \in Body : ReplyTo(r, q, b) \/ ReplyRefused(r, q, b)
  \/ ImportQuestion \/ Settle \/ StopWorker \/ FailDispatch \/ Restart

Spec == Init /\ [][Next]_vars

\* A resolved promise is continued.  The timers are left out: an answer must not
\* have to wait for one.
FairSpec == Spec /\ \A r \in Ask : WF_vars(AskWakes(r))

----------------------------------------------------------------------------
(* Properties *)

\* A request creates at most one question, however often it is repeated, joined,
\* interrupted by a restart, timed out or refused in the end.
OneQuestionPerRequest ==
  \A p, q \in DOMAIN questions :
    questions[p].by = questions[q].by /\ questions[p].by # Import => p = q

\* What a request has created stays covered by its receipt, also when its handler
\* threw afterwards: otherwise a repetition of the request would run once more.
EffectIsReceipted ==
  \A q \in DOMAIN questions : questions[q].by \in Ask => ~Ledger!Fresh(questions[q].by)

\* A receipt that is replayed tells the truth about the tables of now: an ask's
\* names a question and no answer but the question's own, a reply's was given and
\* is queued; and every queued answer is the question's own.
ReceiptIsTrue ==
  /\ \A r \in Ask \union Reply : receipts[r].state = "completed" =>
       LET q == receipts[r].result[1]  answer == receipts[r].result[2] IN
       /\ q \in DOMAIN questions
       /\ answer # NoAnswer => questions[q].status = "answered" /\ questions[q].answer = answer
       /\ r \in Reply => answer # NoAnswer /\ (federated => <<q, answer>> \in queued)
  /\ \A pair \in queued : questions[pair[1]].status = "answered" /\ questions[pair[1]].answer = pair[2]

\* An answer is final, and so is a closing: neither a second reply nor the end of
\* the Dispatch changes what a question's asker has been or will be told.
VerdictIsFinal ==
  [][\A q \in DOMAIN questions : ~Open(q) => questions'[q] = questions[q]]_vars

\* A call that waits for a question somebody has answered is woken; it does not
\* have to wait for its timer.
AnswerEndsWait ==
  \A r \in Ask, q \in Question :
    (asking[r] = q /\ questions[q].status = "answered") ~> (asking[r] # q)
=============================================================================
