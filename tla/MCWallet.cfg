SPECIFICATION Spec
CONSTANTS
  v1 = v1
  v2 = v2
  Users = {u1}
  Procs = {p1, p2}
  Fee = 1
  Bonus = 1
  MaxCalls = 2
  Versions = {v1, v2}
  MayCrash = TRUE
SYMMETRY Symmetric
INVARIANTS TypeOK NeverOverdrawn NoMoneyFromNothing LedgerNeverAhead
CHECK_DEADLOCK FALSE
