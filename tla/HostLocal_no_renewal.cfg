SPECIFICATION Spec
CONSTANTS
  Tasks = {"a"}
  NoTask = NoTask
  Runs = {r1, r2}
  NoRun = NoRun
  Profiles = {"local_maint"}
  Profile <- MCProfile
  MaxLeases <- MCOneLease
  Traits <- MCPlanner
  LeaseTTL = 1
  InTime = FALSE
  Operators = {o1}
  Kinds = {"reconcile"}
  MaxNow = 2
  MaxCommands = 1
  MaxCrashes = 0
  MaxErrors = 0
SYMMETRY Symmetry
INVARIANTS RunExclusive
CHECK_DEADLOCK FALSE
