\* An id of 32 characters, and its truncation to 31.
CONSTANTS
  s1 = s1
  s2 = s2
  s3 = s3
  long32 = long32
  cut31 = cut31
  Ids <- MCLongIds
  Stored <- MCStoredLong
  Types = {"temperature", "energy"}
  Readings = {cold, hot}
  None = None
  MAX_SENSORS = 2
SPECIFICATION Spec
INVARIANT AcknowledgedIsKnown
