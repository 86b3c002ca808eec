CONSTANTS
  clk = clk  p1 = p1  p2 = p2  m1 = m1  m2 = m2
  Boot = Boot  NoMsg = NoMsg
  Tasks = {clk, p1, p2}
  Threads = {clk}
  Clock = {clk}
  Order <- OrderAll
  Locks = {}  Conditions = {}  Barriers = {}
  Semaphores <- QueuesOfBoxes  Queues <- QueuesOfBoxes
  SemInit <- ValuesOfBoxes  Members <- NoObject  LockOf <- NoObject  MaxSem = 9
  Delays = {}
  MAX_MBOXEN = 1
  MAX_MBOX_LENGTH = 2
  Names <- ShortAndLong
  Msgs = {m1, m2}
  MaxOpens = 2
SPECIFICATION MailBoxFairSpec
INVARIANTS MailBoxTypeOK EachTaskInOnePlace SlotsHoldInFlight UsersCounted
PROPERTIES IsChannel MessageMeetsReceiver SenderMeetsRoom
