SPECIFICATION APISpec
CONSTANTS
  RuleIDs <- SomeIDs
  RuleRank <- IDOrder
  Texts <- SomeTexts
  Blank <- BlankTexts
  Number <- Numbers
  Pattern <- Patterns
  Null = Null
  Unread = Unread
  NullText = "<nil>"
  ContractIDs = {c1}
  Policies <- FivePolicies
  MaxKeep = 2
  MaxVersion = 5
  Clients = {a1, a2, a3}
  Samples <- FivePayloads
SYMMETRY ClientSymmetry
INVARIANTS APITypeOK KeepsNewest ActiveIsLive LiveIsRetained RulesNeverPanic EvaluationUnambiguous
PROPERTIES VersionsImmutable HistoryExplainsRules ActivationAnswered
