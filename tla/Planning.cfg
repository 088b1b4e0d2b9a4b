SPECIFICATION Spec
CONSTANTS
  TaskOrder <- MCTaskOrder
  NoTask = NoTask
  Artifacts <- MCArtifacts
  Producer <- MCProducer
  Contracts = {"STATE"}
  Lineage <- MCLineage
  Sourced = {"v3.17"}
  Docs = {"README.md", "plan.md"}
  DocCap = 1
  Sources = {"contracts/__init__.py", "stray.py"}
  Approved = {"contracts/__init__.py"}
  Owner <- MCOwner
  Projections <- MCProjections
  RebaseTask = "rebase"
  CloseTask = "close"
  ReviewSets <- MCReviewSets
  Planes <- MCPlanes
  MaxWrites = 1
  MaxSlips = 1
INVARIANTS SelectionVerified StagesInOrder PackageWhole LeadsToMissing PlaneSelects
CHECK_DEADLOCK FALSE
