SPECIFICATION Spec
CONSTANTS
  i1 = i1
  i2 = i2
  Items = {i1, i2}
  Available = {i1, i2}
  MinHours <- TwoHours
  Reservations = {r1, r2, r3}
  Hours = 3
  Procs = {p1, p2}
  None = None
INVARIANT ConfirmedDoNotOverlap
CHECK_DEADLOCK FALSE
