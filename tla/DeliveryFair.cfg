SPECIFICATION FairSpec
CONSTANTS
  w1 = w1  w2 = w2  o1 = o1  o2 = o2
  p1 = p1  p2 = p2  i1 = i1  i2 = i2  i3 = i3
  None = None
  Worker = {w1, w2}
  Order = {o1, o2}
  Product = {p1, p2}
  Item = {i1, i2, i3}
  Flows <- FlowsBoth
  Persistent = FALSE
  StoreFaults = FALSE
  LostReplies = TRUE
  Crashes = FALSE
  Amount <- AmountOneTwo
  Matching <- Matching2
  Batch <- BatchPer
  Assigned <- AssignedPartition
  MaxInbox = 2
INVARIANTS RecordTruthful NothingLost
PROPERTIES PendingResolved
