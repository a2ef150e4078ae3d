CONSTANTS
  Queries = {t, n}
  TopicQueries = {t}
  Urls = {u1, u2}
  Batches <- AllBatches
  FetchBatch = 2
  MaxRequery = 1
  SufficientDocs = 2
  SufficientDocsTopic = 1
  ResultsPerQuery = 2
  MaxAgentSteps = 7
SPECIFICATION FairSpec
PROPERTIES Termination
