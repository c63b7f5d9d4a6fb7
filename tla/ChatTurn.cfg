SPECIFICATION FairSpec
CONSTANTS
  MaxTurns = 3
  MaxFaults = 1
CHECK_DEADLOCK FALSE
INVARIANTS
  TypeOK
  AnswerRemembered
  FailedTurnLeavesNothing
  TicketHasTurn
  LogTellsOutcome
  OneConversation
PROPERTY ReaderAnswered
