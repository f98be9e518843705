SPECIFICATION FairSpec
CONSTANTS
  pcb1 = pcb1
  pcb2 = pcb2
  NULL = NULL
  Pcbs = {pcb1, pcb2}
  PBUF_POOL_SIZE = 4
  MEMP_NUM_TCPIP_MSG_INPKT = 2
  MEMP_NUM_TCPIP_MSG_API = 1
  TCPIP_MBOX_SIZE = 3
INVARIANTS
  PacketsAccounted
  MessagesAccounted
  CallbackOnItsWay
PROPERTIES
  OoseqReclaimed
