SPECIFICATION LiveSpec
CONSTANTS
  v1 = v1
  v2 = v2
  NumEvents = 2
  Values = {v1, v2}
  Kinds = {"set_temp", "get_temp"}
  Answered = {"set_temp"}
  Failures = TRUE
  Reentrant = TRUE
INVARIANTS TypeOK NothingLost
PROPERTIES ReportsCatchUp KeepsAlive
