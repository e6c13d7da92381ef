SPECIFICATION FairSpec
CONSTANTS
  CRDs = {d1, d2}
  NoCRD = NoCRD
  CRs = {x1, x2}
  NoCR = NoCR
  Definitions <- SomeDefinitions
  NoDefinition = NoDefinition
  Specs <- SomeSpecs
  NoSpec = NoSpec
  Watched = d1
  MaxChanges = 4
INVARIANTS NoOrphans CreatedStays ConformsToSchema
PROPERTIES OperatorSeesAll
