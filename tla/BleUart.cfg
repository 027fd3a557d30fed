SPECIFICATION FairSpec
CONSTANTS
  Byte = {1, 2}
  BufLen = 2
  FifoLen = 3
INVARIANTS TypeOK AlwaysReachable
PROPERTIES HostToCentralInOrder CentralToHostInOrder EachSideIsServed
CHECK_DEADLOCK FALSE
