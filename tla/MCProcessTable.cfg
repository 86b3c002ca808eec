CONSTANTS
  l1 = l1  Boot = Boot
  NUM_PCBS = 4
  Tasks = {1, 2, 3, 4}
  Threads = {2}
  Clock = {}
  Order <- InitAndThread
  Queues <- QueuesOfTable
  Delays = {1}
  Locks = {l1}  Conditions = {}  Semaphores = {}  Barriers = {}
  SemInit <- NoObject  Members <- NoObject  LockOf <- NoObject  MaxSem = 0
SPECIFICATION ProcessSpec
INVARIANTS EachTaskInOnePlace MutualExclusion LockOpenInv
PROPERTIES  DeadStayDead
CHECK_DEADLOCK FALSE
