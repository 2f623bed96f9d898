CONSTANTS
  Stories <- HandedOver
  MaxActs = 1
  MaxNow = 1
SPECIFICATION Spec
PROPERTIES
  SeekRests
CHECK_DEADLOCK FALSE
