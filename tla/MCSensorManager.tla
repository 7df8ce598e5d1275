-------------------------- MODULE MCSensorManager --------------------------
(* Ids for SensorManager: two that fit char id[32], and one of 32          *)
(* characters, which sensors/sensor_base.py accepts, with its truncation.  *)
EXTENDS SensorManager

CONSTANTS s1, s2, s3, long32, cut31

MCShortIds == {s1, s2, s3}
MCStoredShort == [id \in MCShortIds |-> id]

MCLongIds == {s1, long32, cut31}
MCStoredLong == [id \in MCLongIds |-> IF id = long32 THEN cut31 ELSE id]
=============================================================================
