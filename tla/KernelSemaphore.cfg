SPECIFICATION FairSpec
CONSTANTS
  idle = idle
  low = low
  mid = mid
  high = high
  queue = queue
  mutex = mutex
  mutex2 = mutex2
  NULL = NULL
  Idle = idle
  BasePriority <- PriorityOf
  MaxPended = 1
  MaxLock = 3
  Tasks <- QueueTasks
  Queues = {queue}
  Mutexes = {}
  uxLength <- LengthTwo
  Calls <- SemaphoreCalls
  IsrCalls <- SemaphoreIsrs
INVARIANTS
  LockCountBounded
PROPERTIES
  TopTaskReturns
