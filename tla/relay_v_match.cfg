CONSTANTS
  Kinds = {"permission", "question", "host"}
  Offered = {"host"}
  Tools = {"Edit"}
  InitiallyAllowed = {}
  Containerized = FALSE
  MaxCalls = 2
  MaxConns = 2
SPECIFICATION Spec
INVARIANTS
  AnswersMatch
CHECK_DEADLOCK FALSE
