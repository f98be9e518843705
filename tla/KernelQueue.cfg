SPECIFICATION Spec
CONSTANTS
  idle = idle
  low = low
  mid = mid
  high = high
  queue = queue
  mutex = mutex
  mutex2 = mutex2
  NULL = NULL
  Idle = idle
  BasePriority <- PriorityOf
  MaxPended = 1
  MaxLock = 2
  Tasks <- QueueTasks
  Queues = {queue, mutex}
  Mutexes = {mutex}
  uxLength <- LengthOne
  Calls <- QueueCalls
  IsrCalls <- QueueIsrs
INVARIANTS
  TypeOK
  NoLostWakeup
  EventListsSound
  LockedOnlyByRunner
  HighestPriorityRuns
