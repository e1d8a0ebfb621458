CONSTANTS
  Word = 256
  EnumWord = 262144
  Long = 67108864
  SuidShift = 512
  Messages <- SampleMessages
  ForeignFields <- SampleForeign
  Calls <- SampleCalls
  Answers <- SampleAnswers
  MaxWrites = 2
SPECIFICATION Spec
INVARIANTS
  ReadsAsDeclared
  ConcatenationMerges
  SizeIsLength
  RewritingLosesNothing
  RequestIsRead
  AnswerIsMatched
CHECK_DEADLOCK FALSE
