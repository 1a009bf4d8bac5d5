SPECIFICATION FairSpec
CONSTANTS
  w1 = w1  w2 = w2
  s1 = s1  s2 = s2  s3 = s3  s4 = s4  s5 = s5  s6 = s6  s7 = s7  s8 = s8
  Caller = {w1, w2}
  SessionId = {s1, s2, s3, s4, s5, s6, s7, s8}
  None = None
  MaxRetries = 1
INVARIANTS TypeOK PostedOnce GivesUpLate
PROPERTIES CallReturns
