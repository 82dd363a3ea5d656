SPECIFICATION Spec
CONSTANTS
  acme = acme
  globex = globex
  k1 = k1
  k2 = k2
  k3 = k3
  c1 = c1
  r1 = r1
  e1 = e1
  s1 = s1
  None = None
  Threads = {t1, t2}
  Parts <- AllParts
  Tenants <- OneTenant
  Keys <- TwoKeysOneDrawn
  ClientIDs = {e1}
  ContractIDs <- OneContract
  Versions = {1}
  RuleIDs = {r1}
  Schemas = {s1}
  Rules <- OneRule
  Payloads <- FailedChecks
  EmptyPayload <- NoFields
  Conforms <- FitsSchema
  Holds <- PassesRule
  Requests <- SharedID
  Secret = FALSE
  MaxQuota = 9
  Window = 2
  MaxAge = 9
  MaxSkew = 0
  MaxReplays = 2
  MaxTime = 0
  MaxRequests = 4
SYMMETRY ThreadSymmetry
INVARIANTS TypeOK ReceiptsBacked LineageIsCurrent LettersMatchFailures ReplayBudget ReplayingIsInFlight ReplayedWasAccepted
PROPERTIES HistoryAppendOnly
