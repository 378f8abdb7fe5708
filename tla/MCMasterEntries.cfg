SPECIFICATION FairSpec
CONSTANTS
  Entries = {e1}
  Types = {"role", "banner"}
  Filters <- TwoFilters
  Procs = {p1, p2}
  None = None
  RedisMayFail = TRUE
  MayCrash = TRUE
INVARIANTS TypeOK ListsFollowTable RemovedStaysOut
PROPERTY ListsSettle
