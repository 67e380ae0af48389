CONSTANTS
  Services = {inventory, analytics}
  Worker = Worker
  NoService = NoService
  inventory = inventory
  Published = 2
  Undecodable = {}
  Strays <- NoStrays
  retry_max_attempts = 2
  FailingTopics = {"source"}
  MaxDisruptions = 1
  MaxReplays = 0
SPECIFICATION Spec
INVARIANTS
  NothingFallsBetweenTopics
CHECK_DEADLOCK FALSE
