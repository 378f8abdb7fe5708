SPECIFICATION Spec
CONSTANTS
  b1 = b1
  b2 = b2
  w1 = w1
  Bookings = {b1}
  Workers = {w1}
  Operator <- OneWorker
  ByWallet = {b1}
  Procs = {p1, p2}
  Requests = {"create", "accept", "decline", "arrival", "completion", "gps"}
  None = None
  MaxStrikes = 2
  RedisMayFail = TRUE
  MaxRestarts = 1
SYMMETRY Handlers
INVARIANTS FeeOnce JobsAreCharged StrikesBounded
PROPERTIES NeverRequestedAgain OfferKept
