SPECIFICATION Spec
CONSTANTS
  Ids <- MCIds
  Profiles = {"read", "write"}
  MaxSlots <- MCSlots
  Areas = {"docs", "code", "policy", "plans"}
  PolicySurface = {"policy"}
  TruthSources = {"plans"}
  Manifests <- MCManifests
  MaxStarts = 2
  MaxOutside = 1
  MaxErrors = 1
INVARIANTS TypeOK PlanHoldsEachTask PlanOrdersDependencies ConflictsApart WithinBudget StopHonoured DependenciesOfThisRun SummaryHonest
PROPERTIES RefusedOnlyByOthers
CHECK_DEADLOCK FALSE
