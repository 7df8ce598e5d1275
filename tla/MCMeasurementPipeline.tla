----------------------- MODULE MCMeasurementPipeline -----------------------
(* Thresholds shaped like those of main.c (a warning and a critical one    *)
(* for temperature, a warning for energy), and measurements below, at and  *)
(* above each limit, of two thermometers on two connections.               *)
EXTENDS MeasurementPipeline, TLC

Limit(type, value, level) ==
  [sensor_type |-> type, threshold_value |-> value, level |-> level, condition |-> ">"]

MCConfigured ==
  << Limit("temperature", 30, "WARNING"), Limit("temperature", 50, "CRITICAL"),
     Limit("energy", 500, "WARNING") >>

Reading(id, type, value) == [sensor_id |-> id, sensor_type |-> type, value |-> value]

MCMeasurements ==
  {Reading("temp-1", "temperature", v) : v \in {30, 50, 51}}
    \cup {Reading("temp-2", "temperature", 51), Reading("energy-1", "energy", 501),
          Reading("odd", "pressure", 900)}

CONSTANTS t1, t2

MCServes == (t1 :> {"temp-1", "odd"}) @@ (t2 :> {"temp-2", "energy-1"})
=============================================================================
