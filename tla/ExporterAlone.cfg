SPECIFICATION FairSpec
CONSTANTS
  e1 = e1
  e2 = e2
  s1 = s1
  s2 = s2
  batt = batt
  temp = temp
  None = None
  Names = {batt, temp}
  Exporters = {e1}
  Sats = {s1, s2}
  Readings <- Fleet
  MaxQueue = 2
  MaxStop = 1
  MaxCrash = 1
INVARIANT ShowsStored
INVARIANT CountsPopped
INVARIANT NextScrapeCatchesUp
PROPERTY GaugesMonotone
PROPERTY StoreMonotone
PROPERTY NewestIsStored
CONSTRAINT ScrapedAlone
CHECK_DEADLOCK FALSE
