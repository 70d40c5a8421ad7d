CONSTANTS
  max_threads = 3
  numa_nodes = 2
  Node <- MCNode
  caller_steal = TRUE
  MaxTasks = 4
  MaxJobs = 2
SPECIFICATION FairSpec
INVARIANTS TypeOK ComputedAtMostOnce ReturnsComplete
PROPERTIES JobsReturn DestructorReturns
CHECK_DEADLOCK FALSE
