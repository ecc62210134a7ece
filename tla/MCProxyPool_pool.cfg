\* One proxy with up to two threads, that a request may name or not; a batch of two tasks and an urgent one.
CONSTANTS
  Urls = {"p"}
  Requests = {"refresh", "create"}
  Tasks = {"b1", "b2", "i1"}
  Batch <- MCBatch
  Priority <- MCPriority
  Lists <- MCLists
  Threads = 2
  StreakLimit = 1
  Answers = {"proxy_error", "parse_failed"}
  Raised = {"parse_failed"}
  MaxLives = 1
SPECIFICATION FairSpec
INVARIANTS OpenTaskIsHeldOnce CountedOnceByCause OneMoreEachWhileCooling
PROPERTIES TakenInOrder EveryRequestAnswered RetiredThreadsEnd
CHECK_DEADLOCK FALSE
