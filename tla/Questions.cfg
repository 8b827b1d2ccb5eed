\* Two answers, three asks, two replies, a restart; local and federated.
CONSTANTS
  Ask = {a1, a2, a3}
  Reply = {r1, r2}
  Body = {yes, no}
  NoAnswer = NoAnswer
  Import = Import
  Nothing = Nothing
  MaxQuestions = 2
  MaxCrashes = 1
SPECIFICATION FairSpec
CHECK_DEADLOCK FALSE
INVARIANTS
  OneQuestionPerRequest
  ReceiptIsTrue
PROPERTIES
  VerdictIsFinal
  AnswerEndsWait
