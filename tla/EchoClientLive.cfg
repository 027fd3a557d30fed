SPECIFICATION FairSpec
CONSTANTS
  ipv4 = ipv4
  ipv6 = ipv6
  Proto = {ipv6}
  ProtoSeq <- Ipv6Only
  Length = {1, 2}
  MTU = 2
  ITERATIONS = 0
  CONNECTION_MANAGER = TRUE
  FDS_SIZE = 4
  MaxLinkEvents = 3
  MaxErrors = 1
PROPERTY
  KeepsSending
CHECK_DEADLOCK FALSE
