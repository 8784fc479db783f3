SPECIFICATION MarketingSpec
CONSTANTS
  e1 = e1
  e2 = e2
  p1 = p1
  None = None
  Editors = {e1, e2}
  Packs = {p1}
  Channels = {"telegram", "insights"}
  Social = {"telegram"}
  Edits <- SmallEdits
  TopicMoves = {"approved", "archived"}
  Profiles = {"s1", "s2"}
  Assets = {"a1", "a2"}
  MaxMediaCalls = 7
  Connections = {"c1"}
  Destinations = {"d1", "d2"}
  Accounts = {"a1"}
  ExternalIds = {"x1", "x2"}
  Types <- TwoTypes
  MaxDestinationCalls = 8
  MaxGuides = 3
  Codes = {"k1", "k2"}
  SeededCodes = {"k1"}
  MaxGuideCalls = 5
  Procs = {"admin"}
  NoProc = NoProc
  Ops = {"bind", "rotate", "disconnect", "recover_activation"}
  Faults = {"commit"}
  MaxVersion = 4
  MaxStores = 6
SYMMETRY EditorSymmetry
CHECK_DEADLOCK FALSE
INVARIANTS
  GatePassed
  ObjectsAccounted
  NoUntrackedActive
  NoDualActive
  InactiveIsReported
PROPERTIES
  DefaultKept
  IdentitiesSettled
  GuideHistoryKept
