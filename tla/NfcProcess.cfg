SPECIFICATION FairSpec
CONSTANTS
  RecordSize <- MCRecordSize
  Length <- MCLength
  Posters <- MCPosters
  Initiator = {i1, i2, i3}
  None = None
  Buffers = {10, 1024}
  MaxErrors = 1
INVARIANTS
  TypeOK
  HeldWhileConnected
  OnePeerAtATime
  MessageDescribesPoster
PROPERTY
  KeepsListening
CHECK_DEADLOCK FALSE
