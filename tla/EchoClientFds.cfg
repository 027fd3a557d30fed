SPECIFICATION Spec
CONSTANTS
  ipv4 = ipv4
  ipv6 = ipv6
  Proto = {ipv6}
  ProtoSeq <- Ipv6Only
  Length = {1}
  MTU = 1
  ITERATIONS = 0
  CONNECTION_MANAGER = TRUE
  FDS_SIZE = 4
  MaxLinkEvents = 10
  MaxErrors = 0
INVARIANT
  WaitsWithinFds
CHECK_DEADLOCK FALSE
