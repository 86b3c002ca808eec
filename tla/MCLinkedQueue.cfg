CONSTANTS
  Queues = {ready_queue, wait_queue}
  Tasks = {t1, t2, t3, t4}
  NULL = NULL
SPECIFICATION LinkSpec
INVARIANTS LinkTypeOK RingsHold
PROPERTIES OldestLeaves
