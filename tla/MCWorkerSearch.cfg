SPECIFICATION Spec
CONSTANTS
  Workers = {w1}
  Bookings = {b1, b2}
  Procs = {p1, p2}
  None = None
  RedisMayFail = TRUE
  MayCrash = TRUE
SYMMETRY Symmetric
INVARIANTS TypeOK IndexFollowsProfile AnswersAreLive StatusFollowsJobs
