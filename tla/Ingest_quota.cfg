SPECIFICATION Spec
CONSTANTS
  acme = acme
  globex = globex
  k1 = k1
  k2 = k2
  k3 = k3
  c1 = c1
  r1 = r1
  e1 = e1
  s1 = s1
  None = None
  Threads = {t1, t2}
  Parts <- AllParts
  Tenants <- TwoTenants
  Keys <- ThreeKeys
  ClientIDs = {}
  ContractIDs <- NoNames
  Versions = {1}
  RuleIDs = {}
  Schemas = {s1}
  Rules = {}
  Payloads <- FailedChecks
  EmptyPayload <- NoFields
  Conforms <- FitsSchema
  Holds <- PassesRule
  Requests <- Unrouted
  Secret = FALSE
  MaxQuota = 2
  Window = 2
  MaxAge = 9
  MaxSkew = 0
  MaxReplays = 1
  MaxTime = 3
  MaxRequests = 3
SYMMETRY QuotaSymmetry
INVARIANTS QuotaSpread DuplicatesOwn
PROPERTIES RefusalJustified
CHECK_DEADLOCK FALSE
