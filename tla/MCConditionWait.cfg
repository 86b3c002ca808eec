CONSTANTS
  clk = clk  k1 = k1  p1 = p1  p2 = p2  l1 = l1  l2 = l2  c1 = c1  s1 = s1  b1 = b1  b2 = b2
  Boot = Boot
  Tasks = {clk, k1, p1, p2}
  Threads = {clk, k1}
  Clock = {clk}
  Delays = {1}
  Order <- OrderMixed
  MaxSem = 2
  Locks = {l2}  Conditions = {c1}  Semaphores = {}  Barriers = {}
  Queues = {l2, c1}
  SemInit <- NoObject  Members <- NoObject  LockOf <- WithTheSecond
SPECIFICATION SyncSpec
INVARIANTS MonitorsExclude
