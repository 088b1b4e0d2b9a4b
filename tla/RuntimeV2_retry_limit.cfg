SPECIFICATION Spec
CONSTANTS
  Tasks = {"a"}
  NoTask = NoTask
  Procs = {p1}
  Profiles = {"local_maint"}
  Profile <- MCProfile
  MaxSlots <- MCOneSlot
  Deps <- MCDeps
  Traits <- MCTraits
  Policy <- MCPolicy
  RetryOnGateFailure = TRUE
  RetryOnWorkerFailure = TRUE
  Operators = TRUE
  MaxLaunches = 4
  MaxCrashes = 0
  MaxErrors = 0
INVARIANTS AttemptsWithinPolicy
CHECK_DEADLOCK FALSE
