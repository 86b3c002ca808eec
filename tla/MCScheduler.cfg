CONSTANTS
  clk = clk  k1 = k1  k2 = k2  p1 = p1  p2 = p2
  Boot = Boot
  Tasks = {clk, k1, p1, p2}
  Threads = {clk, k1}
  Clock = {clk}
  Queues = {"a", "b"}
  Delays = {1, 2}
  Order <- OrderFour
SPECIFICATION SchedFairSpec
INVARIANTS SchedTypeOK EachTaskInOnePlace
PROPERTIES FifoReady ReadyRuns SleeperRuns
