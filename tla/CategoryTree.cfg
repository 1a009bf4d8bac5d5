SPECIFICATION FairSpec
CONSTANTS
  MaxNodes = 3
  MaxCalls = 6
PROPERTIES TreeReturned
CHECK_DEADLOCK FALSE
