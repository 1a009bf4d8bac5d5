SPECIFICATION Spec
CONSTANTS
  o1 = o1  o2 = o2
  Hours = 6
  Offer = {o1, o2}
  Failures = TRUE
  Crashes = TRUE
INVARIANTS OnlyFailedAstray
