SPECIFICATION Spec
CONSTANTS
  p1 = p1
  p2 = p2
  p3 = p3
  t1 = t1
  t2 = t2
  term = term
  Texts <- MCTexts
  Paths <- MCPaths
  Terms <- MCTerms
  CrossRefs <- MCCrossRefs
  Resolvable <- MCResolvable
  Mentions <- MCMentions
  Drafts <- MCDrafts
  DepsChoices <- MCDeps
  TopK = 1
  MaxHops = 2
  MaxReformulations = 1
  MaxCriticReretrievals = 1
  RecursionLimit = 24
INVARIANT DegradingStripsSomething
