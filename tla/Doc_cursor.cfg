SPECIFICATION QuerySpec
CONSTANTS
  acme = acme
  globex = globex
  k1 = k1
  k2 = k2
  k3 = k3
  c1 = c1
  r1 = r1
  e1 = e1
  s1 = s1
  None = None
  Threads = {t1}
  Parts <- AllParts
  Tenants <- OneTenant
  Keys <- ThreeKeys
  ClientIDs = {}
  ContractIDs <- OneContract
  Versions = {1}
  RuleIDs = {}
  Schemas = {s1}
  Rules = {}
  Payloads <- FailedChecks
  EmptyPayload <- NoFields
  Conforms <- FitsSchema
  Holds <- PassesRule
  Requests <- Unnamed
  Secret = FALSE
  MaxQuota = 9
  Window = 2
  MaxAge = 9
  MaxSkew = 0
  MaxReplays = 2
  MaxTime = 1
  MaxRequests = 3
  IDRank <- Descending
  Readers <- NoNames
  Filters <- TenantFilters
  Limits = {1}
  DefaultLimit = 2
  MaxLimit = 2
  MaxPages = 2
  MaxBatch = 0
INVARIANTS ListingResumes
