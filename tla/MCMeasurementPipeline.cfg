\* Two threads, lists of three, four calls: the list overflows in mid-call.
\* Four sensors, room for three.
CONSTANTS
  t1 = t1
  t2 = t2
  Threads = {t1, t2}
  NoThread = NoThread
  Serves <- MCServes
  Measurements <- MCMeasurements
  Configured <- MCConfigured
  MAX_ALERTS = 3
  MAX_SENSORS = 3
  MaxCalls = 4
SPECIFICATION FairPipelineSpec
INVARIANTS TypeOK ActiveAreLatest EvaluationIsAtomic RecordIsSerial ReturnTellsRaised TableAgreesWithEngine
PROPERTIES ImplementsFeed RaisedIsTold
