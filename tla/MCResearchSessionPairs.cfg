CONSTANTS
  Queries = {t, n}
  TopicQueries = {t}
  Urls = {u1, u2, u3}
  Batches <- PairBatches
  FetchBatch = 2
  MaxRequery = 1
  SufficientDocs = 2
  SufficientDocsTopic = 1
  ResultsPerQuery = 3
  MaxAgentSteps = 5
SPECIFICATION Spec
INVARIANTS OneOwner FetchRound FetchedOnce RequeryOnlyWhileShort EveryDocumentJudged
SYMMETRY Symmetry
PROPERTIES ImplementsTrail
