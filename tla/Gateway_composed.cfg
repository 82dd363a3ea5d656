SPECIFICATION Spec
CONSTANTS
  acme = acme
  east = east
  k1 = k1
  None = None
  Null = Null
  FieldNames <- OneName
  Trim <- TrimNames
  Types <- OneType
  Plain <- PlainTypes
  Texts <- SomeTexts
  Annotations <- OneAnnotation
  Blank <- BlankTexts
  Number <- Numbers
  Pattern <- NoPatterns
  NullText = "<nil>"
  RuleIDs <- OneRuleID
  RuleRank <- IDOrder
  Policies <- OnePolicy
  MaxKeep = 1
  MaxVersion = 1
  Clients = {p1, p2}
  Submitted <- OneSchema
  Requested = {""}
  MaxContracts = 1
  MaxVersions = 1
  Threads = {t1}
  Parts <- AllParts
  Tenants <- TwoTenants
  Keys <- TwoKeys
  ClientIDs = {}
  Requests <- ThreeRequests
  Secret = FALSE
  MaxQuota = 2
  MaxReplays = 1
  MaxRequests = 3
  Payloads <- TwoPayloads
  Saturates = FALSE
  ContractIDs <- TwoContractIDs
  MaxReading = 1
INVARIANTS AcceptedWasPublished MetricsAccount CleanExit
PROPERTIES ImplementsIngestion RequestsComplete SignalStops
CHECK_DEADLOCK FALSE
