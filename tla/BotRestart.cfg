SPECIFICATION Spec
CONSTANTS
  o1 = o1  o2 = o2  c1 = c1  c2 = c2
  Order = {o1, o2}
  Chat = {c1}
  ChatOf <- OneChat
  IgnoreOwnMessages = TRUE
  EmitMessagesForNewOrders = FALSE
  Bootstraps = TRUE
  Persistent = TRUE
  FetchFails = FALSE
  MaxBadSaves = 0
  TornWrites = FALSE
  Crashes = TRUE
  Stops = TRUE
  Closes = FALSE
  Drops = FALSE
  MaxMessages = 3
INVARIANTS TypeOK HandledOnce
PROPERTIES OldMessagesSkipped ImplementsFeed
