SPECIFICATION FairSpec
CONSTANTS
  b1 = b1
  b2 = b2
  s1 = s1
  s2 = s2
  n1 = n1
  n2 = n2
  Session = {s1, s2}
  Board = {b1, b2}
  Port = {p1}
  Serial = {n1, n2}
  NoBoard = NoBoard
  NoPort = NoPort
  NoSerial = NoSerial
  HwidOf <- MCHwidOf
  TargetOf <- MCTargetMixed
  RESET_TIMEOUT = 2
  MaxDepartures = 1
PROPERTY
  EveryRunEnds
CHECK_DEADLOCK FALSE
