SPECIFICATION Spec
CONSTANTS
  ip = ip
  other = other
  NULL = NULL
  N = 3
  MaxCount = 4
  PoolSize = 2
  Frames = {ip, other}
  StackFrames = {ip}
INVARIANTS
  TypeOK
  RingInStep
  InterruptNotLost
  PbufsAccounted
PROPERTIES
  ImplementsChannel
