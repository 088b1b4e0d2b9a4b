SPECIFICATION FairSpec
CONSTANTS
  Tasks = {"b"}
  NoTask = NoTask
  Runs = {r1, r2}
  NoRun = NoRun
  Profiles = {"local_maint"}
  Profile <- MCProfile
  MaxLeases <- MCOneLease
  Traits <- MCReview
  LeaseTTL = 1
  InTime = FALSE
  Operators = {o1}
  Kinds = {"retry", "approve", "reject", "reconcile"}
  MaxNow = 2
  MaxCommands = 1
  MaxCrashes = 1
  MaxErrors = 0
INVARIANTS RowFindsFiles CompletedBacked
PROPERTIES LeasesReturned
CHECK_DEADLOCK FALSE
