SPECIFICATION FairSpec
CONSTANTS
  Tasks = {"a"}
  NoTask = NoTask
  Runs = {r1, r2}
  NoRun = NoRun
  Profiles = {"local_maint"}
  Profile <- MCProfile
  MaxLeases <- MCOneLease
  Traits <- MCPlanner
  LeaseTTL = 1
  InTime = TRUE
  Operators = {o1}
  Kinds = {"reconcile"}
  MaxNow = 2
  MaxCommands = 1
  MaxCrashes = 1
  MaxErrors = 0
PROPERTIES KilledRunFound
CHECK_DEADLOCK FALSE
