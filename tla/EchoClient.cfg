SPECIFICATION Spec
CONSTANTS
  ipv4 = ipv4
  ipv6 = ipv6
  Proto = {ipv4, ipv6}
  ProtoSeq <- BothProtos
  Length = {1}
  MTU = 1
  ITERATIONS = 2
  CONNECTION_MANAGER = TRUE
  FDS_SIZE = 4
  MaxLinkEvents = 3
  MaxErrors = 1
INVARIANTS
  TypeOK
  SomeoneWillSend
  QuietWhileStopped
  NoConnectForgotten
CHECK_DEADLOCK FALSE
