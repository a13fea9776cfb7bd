SPECIFICATION Spec
CONSTANTS
  MaxMessages = 4
  Settings <- MCSettings
  h1 = h1
  h2 = h2
  Attempts = {h1, h2}
  MaxUsers = 2
  Nobody = Nobody
  DailyLimit = 1
  Worker = Worker
INVARIANTS
  NoMessageLost
  NoContentBeforeConsent
  ErasedUserHasNothing
  DailyLimitHolds
  AnswerMeetsQuestion
  OneEntryPerAnswer
  ErasureIsFinal
  LessonsLearned
PROPERTIES
  SettledStays
  EveryMessageAcked
CHECK_DEADLOCK FALSE
