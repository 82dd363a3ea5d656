SPECIFICATION Spec
CONSTANTS
  FieldNames <- ThreeNames
  Trim <- TrimNames
  Types <- ThreeTypes
  Plain <- PlainTypes
  Texts <- TwoTexts
  Annotations <- OneAnnotation
  Tenants = {acme}
  Clients = {p1}
  Submitted <- Thorough
  Requested = {"backward", "forward", "full", "none"}
  MaxContracts = 1
  MaxVersions = 2
INVARIANTS VersionsSubstitutable
PROPERTIES ImplementsHistory
CHECK_DEADLOCK FALSE
