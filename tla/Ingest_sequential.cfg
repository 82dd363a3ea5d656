SPECIFICATION QuerySpec
CONSTANTS
  acme = acme
  globex = globex
  k1 = k1
  k2 = k2
  k3 = k3
  c1 = c1
  r1 = r1
  e1 = e1
  s1 = s1
  None = None
  Threads = {t1}
  Parts <- AllParts
  Tenants <- OneTenant
  Keys <- TwoKeysOneDrawn
  ClientIDs = {e1}
  ContractIDs <- OneContract
  Versions = {1}
  RuleIDs = {}
  Schemas = {s1}
  Rules = {}
  Payloads <- FailedChecks
  EmptyPayload <- NoFields
  Conforms <- FitsSchema
  Holds <- PassesRule
  Requests <- Varied
  Secret = FALSE
  MaxQuota = 2
  Window = 2
  MaxAge = 0
  MaxSkew = 0
  MaxReplays = 2
  MaxTime = 1
  MaxRequests = 3
  IDRank <- Descending
  Readers <- NoNames
  Filters <- NoFilters
  Limits = {1}
  DefaultLimit = 2
  MaxLimit = 2
  MaxPages = 0
  MaxBatch = 2
INVARIANTS QueryTypeOK Idempotent SummaryAddsUp BatchResultsAudited
PROPERTIES ImplementsLedger
