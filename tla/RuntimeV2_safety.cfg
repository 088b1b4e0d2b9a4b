SPECIFICATION Spec
CONSTANTS
  Tasks = {"a", "b", "c"}
  NoTask = NoTask
  Procs = {p1, p2}
  Profiles = {"local_maint"}
  Profile <- MCProfile
  MaxSlots <- MCOneSlot
  Deps <- MCDeps
  Traits <- MCTraits
  Policy <- MCPolicy
  RetryOnGateFailure = TRUE
  RetryOnWorkerFailure = TRUE
  Operators = TRUE
  MaxLaunches = 3
  MaxCrashes = 1
  MaxErrors = 1
SYMMETRY Symmetry
INVARIANTS TypeOK SlotCap WorkerCap SlotsAccounted ResultBacksAttempt ResultBacksTask DependenciesDone
PROPERTIES ImplementsPool
CHECK_DEADLOCK FALSE
