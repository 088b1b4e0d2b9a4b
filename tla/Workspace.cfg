SPECIFICATION Spec
CONSTANTS
  Tasks = {"a", "b", "c"}
  NoTask = NoTask
  Runs = {r1, r2}
  NoRun = NoRun
  Trees = {"wt"}
  Root = "root"
  Branches = {"main", "topic"}
  Areas = {"src"}
  Tree <- MCTree
  Branch <- MCBranch
  Allowed <- MCAllowed
  Reviewed = {"b"}
  Gated = {"b", "c"}
  MaxFaults = 1
SYMMETRY Symmetry
INVARIANTS LeftTreeRecorded EvidenceAgrees
PROPERTIES NoWorkLost
CHECK_DEADLOCK FALSE
