SPECIFICATION Spec
CONSTANTS
  b1 = b1
  b2 = b2
  w1 = w1
  Bookings = {b1, b2}
  Workers = {w1}
  Operator <- OneWorker
  ByWallet = {}
  Procs = {p1, p2}
  Requests = {"create", "accept", "reject", "decline", "list", "timeout", "poll"}
  None = None
  MaxStrikes = 3
  RedisMayFail = FALSE
  MaxRestarts = 0
SYMMETRY Handlers
INVARIANTS TypeOK LockedRowIsRequested AnswersAreStored WaitingRequestIsShown
PROPERTY OfferKept
