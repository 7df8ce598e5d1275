\* Three sensors compete for a table of two slots; all ids fit.
CONSTANTS
  s1 = s1
  s2 = s2
  s3 = s3
  long32 = long32
  cut31 = cut31
  Ids <- MCShortIds
  Stored <- MCStoredShort
  Types = {"temperature", "energy"}
  Readings = {cold, hot}
  None = None
  MAX_SENSORS = 2
SPECIFICATION Spec
INVARIANTS TypeOK UniqueIds AcknowledgedIsKnown
PROPERTIES SlotsAreFrozen ImplementsDirectory
