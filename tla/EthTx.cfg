SPECIFICATION FairSpec
CONSTANTS
  udp = udp
  ARP = ARP
  NULL = NULL
  N = 2
  Frames = {udp}
INVARIANTS
  TypeOK
  RingSound
  NetifMatchesFlag
PROPERTIES
  OutputEnds
  LinkIsFollowed
