SPECIFICATION FairSpec
CONSTANTS
  Streams <- SomeStreams
  Objects <- SomeObjects
  Questions <- SomeQuestions
  Replies <- SomeReplies
  Numbers <- SomeNumbers
  Sizes = {8}
  BufSize = 3
  MaxLine = 7
  MaxBulk = 4
  MaxRetained = 20
INVARIANTS Framed RefusedForCause LineAndBulkBounded PageDecoded AnswerDecoded FieldsExact
PROPERTY Answered
CHECK_DEADLOCK FALSE
