SPECIFICATION Spec
CONSTANTS
  b1 = b1
  b2 = b2
  s1 = s1
  s2 = s2
  n1 = n1
  n2 = n2
  Session = {s1, s2}
  Board = {b1, b2}
  Port = {p1, p2, p3}
  Serial = {n1, n2}
  NoBoard = NoBoard
  NoPort = NoPort
  NoSerial = NoSerial
  HwidOf <- MCHwidOfBoth
  TargetOf <- MCTargetNordic
  RESET_TIMEOUT = 2
  MaxDepartures = 1
INVARIANTS
  TypeOK
  WrongBoardHasACause
  TouchHitsSelected
PROPERTIES
  PortFollowsBoard
  UploadsAsPromised
SYMMETRY Symmetry
CHECK_DEADLOCK FALSE
