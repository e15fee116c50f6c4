SPECIFICATION Spec
CONSTANTS
  e1 = e1
  e2 = e2
  s1 = s1
  s2 = s2
  batt = batt
  temp = temp
  None = None
  Names = {batt, temp}
  Exporters = {e1, e2}
  Sats = {s1}
  Readings <- TwoPackets
  MaxQueue = 2
  MaxStop = 0
  MaxCrash = 0
PROPERTY StoreMonotone
CHECK_DEADLOCK FALSE
