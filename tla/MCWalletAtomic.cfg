SPECIFICATION Spec
CONSTANTS
  v1 = v1
  v2 = v2
  Users = {u1}
  Procs = {p1, p2}
  Fee = 1
  Bonus = 1
  MaxCalls = 2
  Versions = {v1, v2}
  MayCrash = FALSE
PROPERTY DeductionIsAtomic
CHECK_DEADLOCK FALSE
