SPECIFICATION Spec
CONSTANTS
  Commands = {c1, c2}
  Runs = {r1, r2, r3}
  MaxCommands = 3
  MaxSpoils = 1
  MaxRestores = 1
  MaxCrashes = 1
SYMMETRY Symmetry
INVARIANTS SwitchBacked ArchiveRestores
CHECK_DEADLOCK FALSE
