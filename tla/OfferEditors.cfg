SPECIFICATION Spec
CONSTANTS
  w1 = w1  w2 = w2  o1 = o1  o2 = o2
  Editor = {w1, w2}
  Offer = {o1, o2}
  NoOffer = NoOffer
  Prices <- FewPrices
  RivalPrices <- TwoRivals
  UndercutBy = 1
  MinPrice = 2
  Calls = {"edit", "undercut", "create", "deactivateAll", "deleteAll"}
  Failures = TRUE
  Refusals = TRUE
  BadPages = TRUE
SYMMETRY Symmetric
INVARIANTS TypeOK SweepComplete NeverBelowFloor
PROPERTIES ActivationAsked
