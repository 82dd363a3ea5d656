SPECIFICATION Spec
CONSTANTS
  FieldNames <- ThreeNames
  Trim <- TrimNames
  Types <- ThreeTypes
  Plain <- PlainTypes
  Texts <- TwoTexts
  Annotations <- OneAnnotation
  Tenants = {acme}
  Clients = {p1, p2}
  Submitted <- Evolving
  Requested = {""}
  MaxContracts = 1
  MaxVersions = 2
SYMMETRY ClientSymmetry
INVARIANTS TypeOK RevisionAccounts TagsIdentify ChainCompatible
PROPERTIES OnlyStaleSavesLose
CHECK_DEADLOCK FALSE
