SPECIFICATION Spec
CONSTANTS
  Requested = {"flash_pyocd", "flash_jlink", "flash_uf2", "flash_serial_adafruit", "flash_serial_nordic"}
  Jobs = 2
INVARIANTS
  TypeOK
  WrongCommandHasACause
  ForeignPortHasACause
  ForeignFlagsHaveACause
CHECK_DEADLOCK FALSE
