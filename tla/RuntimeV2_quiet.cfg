SPECIFICATION FairSpec
CONSTANTS
  Tasks = {"a", "b"}
  NoTask = NoTask
  Procs = {p1, p2}
  Profiles = {"local_maint"}
  Profile <- MCProfile
  MaxSlots <- MCTwoSlots
  Deps <- MCDeps
  Traits <- MCTraits
  Policy <- MCPolicy
  RetryOnGateFailure = TRUE
  RetryOnWorkerFailure = TRUE
  Operators = FALSE
  MaxLaunches = 4
  MaxCrashes = 0
  MaxErrors = 0
INVARIANTS OwnsSlot QuietTasksSettled
PROPERTIES CompletedStays SlotsReturned BlockedServed
CHECK_DEADLOCK FALSE
