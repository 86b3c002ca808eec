CONSTANTS
  clk = clk  barrier1 = barrier1  barrier2 = barrier2  barrier3 = barrier3  num = num  caps = caps
  scroll_th = scroll_th  plane = plane  b = b  f0 = f0  f1 = f1  f2 = f2
  thread2 = thread2  thread3 = thread3  l = l  c0mod3 = c0mod3  cnot0mod3 = cnot0mod3
  Boot = Boot
  Tasks = {clk, barrier1, barrier2, barrier3, thread2, thread3, num, caps, scroll_th, plane}
  Threads = {clk, barrier1, barrier2, barrier3, thread2, thread3, num, caps, scroll_th}
  Clock = {clk}
  Order <- SpawnOrder
  Locks = {l}  Conditions = {c0mod3, cnot0mod3}  Semaphores = {f0, f1, f2}  Barriers = {b}
  Queues = {l, c0mod3, cnot0mod3, f0, f1, f2, b}
  LockOf <- OneMonitor  SemInit <- ForksFree  Members <- ThreeMembers  MaxSem = 1
  Delays = {0, 1, 2, 3}
  BarrierThreads = {barrier1, barrier2, barrier3}  First = barrier1  TheBarrier = b
  NUM_ITERATIONS = 2  SleepTicks = {0}
  Iterations <- FourteenAndSeven  YieldEvery <- ThreeAndFour
  NUM_PHILOSOPHERS = 3  phil <- ThreePhilosophers  fork <- ThreeForks
  ThinkTicks = {2}  EatTicks = {1}
SPECIFICATION Spec
PROPERTIES AllPass
