SPECIFICATION FairSpec
CONSTANTS
  t1 = t1
  t2 = t2
  NULL = NULL
  Tasks = {t1, t2}
  Calls <- MCCalls
  portMAX_DELAY = 3
  OverflowModulus = 3
  MaxPended = 2
INVARIANTS
  TypeOK
  ListsSound
  TicksAccounted
  PeriodKept
  TimeOutExact
PROPERTIES
  DelaysExact
  DelayEnds
CHECK_DEADLOCK FALSE
