SPECIFICATION FairSpec
CONSTANTS
  o1 = o1  o2 = o2  c1 = c1  c2 = c2
  Order = {o1, o2}
  Chat = {c1}
  ChatOf <- OneChat
  IgnoreOwnMessages = TRUE
  EmitMessagesForNewOrders = TRUE
  Bootstraps = FALSE
  Persistent = FALSE
  FetchFails = TRUE
  MaxBadSaves = 0
  TornWrites = FALSE
  Crashes = FALSE
  Stops = FALSE
  Closes = TRUE
  Drops = TRUE
  MaxMessages = 3
INVARIANTS NoGap
PROPERTIES EventuallyHandled
