CONSTANTS
  Services = {inventory}
  Worker = Worker
  NoService = NoService
  inventory = inventory
  Published = 1
  Undecodable = {}
  Strays <- Unroutable
  retry_max_attempts = 2
  FailingTopics = {"retry", "dlq"}
  MaxDisruptions = 1
  MaxReplays = 1
SPECIFICATION FairSpec
INVARIANTS
  RunsWithinBudget
  ReplayIsBounded
PROPERTIES
  EveryEventEnds
CHECK_DEADLOCK FALSE
