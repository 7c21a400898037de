SPECIFICATION Spec
CONSTANTS
  Statutes = {"rta"}
  Fixtures = {"lease"}
  Texts = {"old", "new"}
  Checkouts <- FewCheckouts
  First <- Main
  IndexName <- OneIndex
  Ingester = "ingest"
  Enricher = "enrich"
  Server = "serve"
  Batches = 1
  MaxRetries = 1
  MaxChanges = 1
INVARIANTS
  TypeOK
  IngestRepairsTheStore
  EqualHashesEqualBuilds
  SidecarsAreOfTheServedBuild
CHECK_DEADLOCK FALSE
