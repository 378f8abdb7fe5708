SPECIFICATION Spec
CONSTANTS
  Workers = {w1}
  Procs = {p1, p2}
  Calls = {"toggle"}
  Limit = 2
  LastDay = 2
  MaxCalls = 3
  MaxReviews = 2
INVARIANT DailyLimit
\* The bounds on calls and days end every behaviour of the model.
CHECK_DEADLOCK FALSE
