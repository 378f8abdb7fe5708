SPECIFICATION Spec
CONSTANTS
  Workers = {w1}
  Procs = {p1, p2}
  Calls = {"toggle", "rate", "complete", "rating"}
  Limit = 1
  LastDay = 2
  MaxCalls = 2
  MaxReviews = 2
SYMMETRY Symmetric
INVARIANTS TypeOK FlagFollowsBonus SerialLimit
\* The bounds on calls and days end every behaviour of the model.
CHECK_DEADLOCK FALSE
