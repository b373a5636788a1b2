CONSTANTS
  Kinds = {"permission", "plan", "child"}
  Offered = {"child"}
  Tools = {"Edit"}
  InitiallyAllowed = {"Edit"}
  Containerized = TRUE
  MaxCalls = 2
  MaxConns = 2
SPECIFICATION FairSpec
PROPERTIES
  CallsAreAnswered
  HandlersEnd
CHECK_DEADLOCK FALSE
