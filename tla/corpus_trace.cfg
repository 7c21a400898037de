SPECIFICATION Spec
CONSTANTS
  Statutes = {"rta"}
  Fixtures = {"lease"}
  Texts = {"old", "new"}
  Checkouts <- FewCheckouts
  First <- Main
  IndexName <- OneIndex
  Ingester = "ingest"
  Enricher = "enrich"
  Server = "serve"
  Batches = 1
  MaxRetries = 1
  MaxChanges = 1
INVARIANT
  AnswersTraceToTheirBuild
CHECK_DEADLOCK FALSE
