SPECIFICATION Spec
CONSTANTS
  Builds = {1, 2}
  Calls <- FewCalls
  TreeHashes = {"t1", "t2"}
  TreeOf <- TreesOf
  Units <- TwoUnits
  UnitsOf <- UnitsOfTree
  Models = {"opus", "haiku"}
  Versions = {"v1", "v2"}
  Chunkers = {"hierarchy"}
  Corpora = {"old", "new"}
  Finds <- FindsOf
  Contexts = {"c1", "c2"}
  Empty = ""
  Seeds <- FewSeeds
  MaxAttempts = 2
INVARIANTS
  TypeOK
  SidecarsMatchTheirLabel
  ContextsCiteTheirFacts
  RerunsAreFree
  SameInputSameArtifact
  NothingUnvalidatedIsKept
PROPERTIES
  ImplementsOncePerKey
  EveryBuildEnds
CHECK_DEADLOCK FALSE
