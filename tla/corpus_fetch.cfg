SPECIFICATION Spec
CONSTANTS
  r1 = r1
  r2 = r2
  Runs <- TwoRuns
  Sources = {"rta", "condo"}
  Unknown = "typo"
  Texts = {"old", "new"}
  Policies <- PolicyOf
  Manifests <- FewManifests
  MaxDrifts = 1
  MaxEdits = 1
SYMMETRY SameRuns
INVARIANTS
  TypeOK
  StoredBytesAreVerified
  OkMeansReproduced
  MismatchIsReal
CHECK_DEADLOCK FALSE
