SPECIFICATION Spec
CONSTANTS
  FieldNames <- ThreeNames
  Trim <- TrimNames
  Types <- ThreeTypes
  Plain <- PlainTypes
  Texts <- TwoTexts
  Annotations <- OneAnnotation
  Tenants = {acme}
  Clients = {p1, p2}
  Submitted <- TwoSchemas
  Requested = {"", "forward"}
  MaxContracts = 1
  MaxVersions = 2
PROPERTIES PublishesWhatWasShown
CHECK_DEADLOCK FALSE
