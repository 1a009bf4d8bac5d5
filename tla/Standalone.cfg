SPECIFICATION StandaloneSpec
CONSTANTS
  n1 = n1  n2 = n2
  Hours = 4
  Name = {n1, n2}
  NumEntries = 2
  UniqueNames = TRUE
  Letter = {"{", "b", "i"}
  MaxLength = 7
  Passes <- TwoPasses
  MaxAttempts = 2
  HandlerPanics = TRUE
  MaxNodes = 5
  MaxOrders = 3
  Buyers = {1}
  Users = {"ann", "bob"}
  Texts = {"gold"}
INVARIANTS
  PartsTypeOK ScheduleApplied QuietWhenUnchanged NothingGarbled WholeOrNothing VerdictTrue
  NothingBorrowed OneRecordEach BuyersCounted
PROPERTIES OnceReplaced Terminates SenderLearns
