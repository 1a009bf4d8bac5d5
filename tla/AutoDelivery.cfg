SPECIFICATION AutoSpec
CONSTANTS
  o1 = o1  o2 = o2  c1 = c1  c2 = c2  p1 = p1  i1 = i1  i2 = i2
  None = None
  Order = {o1, o2}
  Chat = {c1, c2}
  ChatOf <- TwoChats
  IgnoreOwnMessages = TRUE
  EmitMessagesForNewOrders = FALSE
  Bootstraps = FALSE
  Persistent = TRUE
  FetchFails = TRUE
  MaxBadSaves = 1
  TornWrites = TRUE
  Crashes = TRUE
  Stops = TRUE
  Closes = FALSE
  Drops = FALSE
  MaxMessages = 1
  Product = {p1}
  Item = {i1, i2}
  Amount <- Amounts
  Matching <- OneMatch
  Batch <- TwoBatches
  StoreFaults = TRUE
  LostReplies = FALSE
  MaxInbox = 2
INVARIANTS ServedOnce Accounted
PROPERTIES StateNeverForgets
