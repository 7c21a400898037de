SPECIFICATION Spec
CONSTANTS
  Keys <- FourKeys
  Documents <- ThreeDocuments
  DocOf <- KeyDocs
  LevelOf <- DocLevels
  Corpora <- ThreeCorpora
  Windows <- ThreeWindows
  RrfK = 60
  MaxReply = 3
INVARIANTS
  TypeOK
  FusionRespectsBothRankings
  FilterIsHonoured
  RerankLosesNothing
CHECK_DEADLOCK FALSE
