SPECIFICATION Spec
CONSTANTS
  j1 = j1
  t1 = t1
  Jobs = {j1}
  Talents = {t1}
  Applications = {a1, a2, a3}
  For <- OneJob
  Procs = {p1, p2}
  None = None
  MaxRank = 3
  Penalty = 1
  MaxNoShows = 4
INVARIANT AppliedOnce
