SPECIFICATION ToolsSpec
CONSTANTS
  o1 = o1
  o2 = o2
  x1 = x1
  x2 = x2
  Operators = {o1, o2}
  Importers = {o1, o2}
  Users = {"u1"}
  Docs = {"t1"}
  Dirs = {"d1"}
  Leads = {x1, x2}
  Batches = {x1, x2}
  Rules <- TwoRules
  MaxCommands = 3
  MaxClock = 2
  Copies <- ThreeCopies
  MaxExecutions = 3
SYMMETRY Alike
CHECK_DEADLOCK FALSE
INVARIANTS
  AppliedHasBackup
  WindowsRespected
  DuplicatesOverlap
  RegistryAccurate
  RerunNeverDuplicates
  NoCrossedWait
PROPERTY ForeignChangesSurvive
