CONSTANTS
  l = l  m = m
  NUM_TASKS = 3
  Locks = {l, m}
SPECIFICATION KernelFairSpec
INVARIANTS TasksInOnePlace OneHolder BlockedTasksWait RunsOutWhenDone
PROPERTIES EachTaskRuns
CHECK_DEADLOCK FALSE
