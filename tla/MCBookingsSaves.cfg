SPECIFICATION Spec
CONSTANTS
  b1 = b1
  b2 = b2
  w1 = w1
  Bookings = {b1}
  Workers = {w1}
  Operator <- OneWorker
  ByWallet = {}
  Procs = {p1, p2}
  Requests = {"create", "accept", "reject", "decline", "cancel", "timeout", "gps", "arrival", "completion", "paid", "refresh", "rate", "poll"}
  None = None
  MaxStrikes = 2
  RedisMayFail = FALSE
  MaxRestarts = 0
SYMMETRY Handlers
PROPERTY OfferKept
