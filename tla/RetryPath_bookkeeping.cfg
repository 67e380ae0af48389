CONSTANTS
  Services = {inventory, analytics}
  Worker = Worker
  NoService = NoService
  inventory = inventory
  Published = 2
  Undecodable = {2}
  Strays <- NoStrays
  retry_max_attempts = 2
  FailingTopics = {"retry", "dlq"}
  MaxDisruptions = 2
  MaxReplays = 0
SYMMETRY Symmetry
SPECIFICATION Spec
INVARIANTS
  TypeOK
  NothingFallsBetweenTopics
  RunsWithinBudget
  EndsOncePerService
CHECK_DEADLOCK FALSE
