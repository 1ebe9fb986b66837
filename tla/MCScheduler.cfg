\* Main thread, two shells, two system tasks; the table has one slot to spare.
CONSTANTS
  MaxTasks = 6
  NumTasks = 5
  Shells = {1, 3}
  MaxKeys = 2
  BypassCap = 6
SPECIFICATION FairSpec
INVARIANTS TypeOK SoleRunner WaitersParked BoundedBypass
PROPERTY ReadyRunsOrCpuTaken
CHECK_DEADLOCK FALSE
