SPECIFICATION Spec
CONSTANTS
  Users = {u1}
  Devices = {d1, d2}
  Procs = {p1, p2}
  None = None
  RedisMayFail = FALSE
  MayCrash = FALSE
PROPERTY CodesAreSingleUse
