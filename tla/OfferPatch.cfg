SPECIFICATION Spec
CONSTANTS
  w1 = w1  w2 = w2  o1 = o1  o2 = o2
  Editor = {w1}
  Offer = {o1}
  NoOffer = NoOffer
  Prices <- FewPrices
  RivalPrices <- FewPrices
  UndercutBy = 1
  MinPrice = 2
  Calls = {"edit", "undercut", "create", "deactivateAll", "deleteAll"}
  Failures = FALSE
  Refusals = FALSE
  BadPages = FALSE
PROPERTIES ActiveKept
