SPECIFICATION Spec
CONSTANTS
  listener = listener
  connection = connection
  server = server
  first = first
  second = second
  NULL = NULL
  NUM_SOCKETS = 2
  Conns = {listener, connection}
  Listener = listener
  Servers = {server}
  Selectors = {first, second}
  ReadSets <- SmallReadSets
  MboxSize = 1
  MaxLost = 1
INVARIANTS
  TypeOK
  EventsMatchMessages
  ConnectionsAccounted
  WaitingCounted
  NoSelectMissed
PROPERTIES
  ClosedSocketKept
