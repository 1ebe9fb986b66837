\* The three tasks of tasking_init.
CONSTANTS
  NumTasks = 3
  Main = Main
  Nobody = Nobody
  MaxPanics = 2
SPECIFICATION Spec
INVARIANT SavesTheThread
CHECK_DEADLOCK FALSE
