SPECIFICATION Spec
CONSTANTS
  r1 = r1
  r2 = r2
  r3 = r3
  s1 = s1
  s2 = s2
  NoSession = NoSession
  Requests <- MCRequests
  Sessions <- MCSessions
  SessionOf <- MCSessionOf
  Owned = {r2}
  Disciplines = {"stream-end", "any"}
  DepsChoices <- MCDeps
  Cap = 1
  RawSizes = {1, 2}
  MaxTokens = 1
  MaxStops = 1
INVARIANTS
  TypeOK
  TerminalEventIsLast
  MemoryHoldsOnlyAnsweredTurns
  TurnIsLostOnlyToAFailure
PROPERTIES
  EveryStreamEnds
CHECK_DEADLOCK FALSE
