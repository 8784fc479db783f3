SPECIFICATION OfficeSpec
CONSTANTS
  w1 = w1
  w2 = w2
  Workers = {w1, w2}
  NoWorker = NoWorker
  None = None
  Unset = Unset
  Stages <- SalesStages
  Policies <- TwoPolicies
  MaxRuns = 2
  MaxVersions = 2
  Ends = {"completed"}
  ModuleCodes <- TwoModules
  ModuleRequires <- CrmRequires
  ModuleOrder <- PartiesFirst
  Plans <- TwoPlans
  Providers = {"bitrix24"}
  Supports <- CrmSupported
  MaxModuleCalls = 4
  Docs = {"d1"}
  Keys = {"name"}
  RequiredKeys = {"name"}
  DefaultedKeys = {}
  Uploads = {y1, y2}
  MaxSigningCalls = 5
  Proposals = {y1, y2}
  MaxAgentCalls = 4
  y1 = y1
  y2 = y2
  Parties = {y1, y2}
  Roles = {"client", "lead"}
  Fields = {"iin"}
  FieldApplies <- ClientsOnly
  RequiredFields = {"iin"}
  Contacts <- OnePhone
  Queries <- PhoneWhatsappOrId
  TelegramIds = {"77"}
  MatchLimit = 1
  MaxDirectoryCalls = 3
  Emails = {y1, y2}
  Slugs = {"s1"}
  Companies = {"c1", "c2"}
  Templates = {"t1"}
  EntryCodes = {"a", "b"}
  MaxSetupCalls = 5
SYMMETRY OfficeSymmetry
CHECK_DEADLOCK FALSE
INVARIANTS
  OneActiveRun
  SignedIsBacked
  DecisionsHonoured
  DirectoryConsistent
  TenantsWhole
PROPERTIES
  PolicyHonoured
  StageSyncKept
  DependenciesClosed
  ExternalBacked
