SPECIFICATION Spec
CONSTANTS
  Threads = {t1, t2}
  NoNode = NoNode
  Nodes <- MCNodes
  Graphs <- MCGraphs
  SeedSets <- MCSeeds
  Barriers <- MCBarriers
  MaxQuestions = 2
INVARIANTS
  AnswersExact
PROPERTIES
  CacheStays
  QuestionsAnswered
CHECK_DEADLOCK FALSE
