SPECIFICATION Spec
CONSTANTS
  Tasks = {"a", "b"}
  NoTask = NoTask
  Runs = {r1, r2}
  NoRun = NoRun
  Profiles = {"local_maint"}
  Profile <- MCProfile
  MaxLeases <- MCOneLease
  Traits <- MCPlanner
  LeaseTTL = 2
  InTime = TRUE
  Operators = {o1}
  Kinds = {"reconcile"}
  MaxNow = 4
  MaxCommands = 0
  MaxCrashes = 1
  MaxErrors = 1
SYMMETRY Symmetry
INVARIANTS TypeOK LeaseExclusive RunExclusive QuotaKept LedgerBacksRow
CHECK_DEADLOCK FALSE
