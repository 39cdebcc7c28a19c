\* Two runs and three questions on the server. In the browser three questions,
\* so that a history can have one message too many; answers may be empty, and
\* questions too long. Questions and midnights are bounded and the user need
\* not do anything, so the system may stop.
SPECIFICATION ChatSpec
CONSTANTS
  Runs = {r1, r2}
  RequestLimit = 3
  TokenLimit = 4
  MaxSteps = 2
  CompletionReserve = 1
  Estimates = {1, 2}
  Costs = {0, 3}
  Written = {1}
  MaxDay = 1
  MaxOpened = 3
  MaxMessages = 4
  MaxMessageChars = 2
  MaxHistoryChars = 5
  MaxQuestions = 3
  MaxAnswer = 2
  MaxTexts = 3
INVARIANTS DailyCeiling CallsCounted ChargeCoversCost RequestsFit AnswerIsWhole
PROPERTIES DoneStays EventuallyIdle
CHECK_DEADLOCK FALSE
