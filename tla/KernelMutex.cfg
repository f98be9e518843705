SPECIFICATION Spec
CONSTANTS
  idle = idle
  low = low
  mid = mid
  high = high
  queue = queue
  mutex = mutex
  mutex2 = mutex2
  NULL = NULL
  Idle = idle
  BasePriority <- PriorityOf
  MaxPended = 1
  MaxLock = 2
  Tasks <- QueueTasks
  Queues = {mutex, mutex2}
  Mutexes = {mutex, mutex2}
  uxLength <- LengthOne
  Calls <- MutexCalls
  IsrCalls = {}
INVARIANTS
  MutexHolders
  PriorityRestored
  WaitersRespected
PROPERTIES
  ImplementsAtomicCalls
  NothingElseOutranks
