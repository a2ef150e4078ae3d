\* Two candidates and four texts for the plan; two searches at a time, responses
\* of up to three items; five fetches of two URLs, two at a time.
\* The limits are scaled down: one or two candidates, three queries, two results.
SPECIFICATION ToolsSpec
CONSTANTS
  d1 = d1
  d2 = d2
  NoDoc = NoDoc
  Docs <- MCDocs
  Size <- MCSize
  MaxKeepChars = 10
  Separator = 2
  Messages = {m1, m2}
  MaxAsked = 2
  Kinds = {a, b, c}
  Topic = Topic
  Texts = {w, x, y, z}
  MaxEntries = 5
  CandidatesMin = 1
  CandidatesMax = 2
  MaxQueries = 3
  MaxAttempts = 2
  Calls = {c1, c2}
  Urls = {u1, u2, u3}
  Malformed = Malformed
  MaxItems = 3
  ResultsPerQuery = 2
  Free = Free
  Pages = {p1, p2, p3}
  MaxFetches = 5
  None = None
INVARIANTS
  BudgetIsUsed
  ConversationIsCurrent
  PlanIsSound
  OfferedOnce
  OneDocumentPerUrl
PROPERTIES
  KeptForGood
  CallsAreOneStep
  ToolsAnswer
