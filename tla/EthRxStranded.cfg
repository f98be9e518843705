SPECIFICATION FairSpec
CONSTANTS
  ip = ip
  other = other
  NULL = NULL
  N = 2
  MaxCount = 2
  PoolSize = 3
  Frames = {ip}
  StackFrames = {ip}
PROPERTIES
  EveryFrameIsRead
