SPECIFICATION Spec
CONSTANTS
  w1 = w1  w2 = w2  o1 = o1  o2 = o2
  p1 = p1  p2 = p2  i1 = i1  i2 = i2  i3 = i3
  None = None
  Worker = {w1}
  Order = {o1, o2}
  Product = {p1, p2}
  Item = {i1, i2, i3}
  Flows <- FlowsProcess
  Persistent = TRUE
  StoreFaults = FALSE
  LostReplies = FALSE
  Crashes = FALSE
  Amount <- AmountUnset
  Matching <- Matching2
  Batch <- BatchTwo
  Assigned <- AssignedShared
  MaxInbox = 1
INVARIANTS DeliveredNotEmpty
