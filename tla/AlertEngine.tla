---------------------------- MODULE AlertEngine ----------------------------
(***************************************************************************)
(* server/src/alert_engine.c: the thresholds configured at startup and the *)
(* bounded list of active alerts.                                          *)
(*                                                                         *)
(* main() registers the thresholds before any connection thread exists.    *)
(* Afterwards each connection thread that stores a measurement calls       *)
(* alert_engine_check_measurement, whose loop over the thresholds runs     *)
(* under alert_mutex; one iteration of that loop is one action here.       *)
(*                                                                         *)
(* Of an alert's fields, timestamp is abstracted to the number of the call *)
(* that raised it and message (formatted from the threshold) to the index  *)
(* of the threshold.  No code in src/ calls alert_engine_resolve_alert, so *)
(* is_resolved is always 0 and is left out.  Nor does main() register a    *)
(* threshold without a type, which would be refused.                       *)
(*                                                                         *)
(* Not part of the specification: AddWithoutRoom, AddDroppingNewest,       *)
(* EndAfterFirstAlert, BeginWithoutLock, SkipResettingCount. They are      *)
(* faulty variants of the definitions that follow them; README.md says     *)
(* which property each one violates.                                       *)
(***************************************************************************)
EXTENDS Integers, Sequences

CONSTANTS
  Threads,       \* connection threads
  NoThread,      \* the owner of a free mutex
  Measurements,  \* possible arguments of alert_engine_check_measurement
  Configured,    \* the calls of main(), in order
  MAX_ALERTS,    \* size of both arrays (100 in alert_engine.h)
  MaxCalls       \* bound on the calls in a behaviour

Levels == {"WARNING", "CRITICAL"}

Threshold == [sensor_type : STRING, threshold_value : Int, level : Levels,
              condition : STRING]

ASSUME NoThreadAssumption == NoThread \notin Threads
ASSUME MaxAlertsAssumption == MAX_ALERTS \in Nat \ {0}
ASSUME ConfiguredAssumption == Configured \in Seq(Threshold)
ASSUME MeasurementsAssumption ==
  \A m \in Measurements : m.value \in Int /\ m.sensor_type \in STRING

VARIABLES
  main_pc,           \* index in Configured of the next call of main()
  thresholds,        \* thresholds[0 .. threshold_count-1]
  active_alerts,     \* active_alerts[0 .. active_alert_count-1]
  alert_mutex,       \* the thread that holds the mutex, or NoThread
  pc,                \* "idle" or "loop", per thread
  i,                 \* the loop variable, per thread
  alerts_triggered,  \* the count a call returns, per thread
  arg,               \* number of the thread's current or last call
  calls,             \* history: the measurements, in lock order
  raised             \* history: every alert ever added

locals == <<pc, i, alerts_triggered, arg>>
vars == <<main_pc, thresholds, active_alerts, alert_mutex, locals, calls, raised>>

-----------------------------------------------------------------------------
check_condition(value, threshold, condition) ==
  \/ condition = ">" /\ value > threshold
  \/ condition = "<" /\ value < threshold
  \/ condition = ">=" /\ value >= threshold
  \/ condition = "<=" /\ value <= threshold

(* Threshold k applies to measurement m and its condition is met. *)
Fires(k, m) ==
  /\ thresholds[k].sensor_type = m.sensor_type
  /\ check_condition(m.value, thresholds[k].threshold_value, thresholds[k].condition)

(* The alert that threshold k raises on the n-th call. *)
AlertOf(n, k) ==
  [sensor_id |-> calls[n].sensor_id, sensor_type |-> calls[n].sensor_type,
   value |-> calls[n].value, level |-> thresholds[k].level,
   timestamp |-> n, message |-> k]

AddWithoutRoom(alerts, alert) == Append(alerts, alert)

AddDroppingNewest(alerts, alert) ==
  Append(IF Len(alerts) >= MAX_ALERTS THEN SubSeq(alerts, 1, MAX_ALERTS - 1)
         ELSE alerts, alert)

(* A full array first moves its last MAX_ALERTS - 1 elements down by one. *)
add_active_alert(alerts, alert) ==
  Append(IF Len(alerts) >= MAX_ALERTS THEN SubSeq(alerts, 2, MAX_ALERTS)
         ELSE alerts, alert)

alert_engine_init ==
  /\ main_pc = 1
  /\ thresholds = <<>>
  /\ active_alerts = <<>>
  /\ alert_mutex = NoThread
  /\ pc = [t \in Threads |-> "idle"]
  /\ i = [t \in Threads |-> 0]
  /\ alerts_triggered = [t \in Threads |-> 0]
  /\ arg = [t \in Threads |-> 0]
  /\ calls = <<>>
  /\ raised = <<>>

(* main() ignores the return value of a refused registration. *)
alert_engine_register_threshold ==
  /\ main_pc <= Len(Configured)
  /\ thresholds' = IF Len(thresholds) >= MAX_ALERTS THEN thresholds
                   ELSE Append(thresholds, Configured[main_pc])
  /\ main_pc' = main_pc + 1
  /\ UNCHANGED <<active_alerts, alert_mutex, locals, calls, raised>>

BeginWithoutLock(t, m) ==
  /\ main_pc > Len(Configured)
  /\ Len(calls) < MaxCalls
  /\ pc[t] = "idle"
  /\ alert_mutex' = t
  /\ pc' = [pc EXCEPT ![t] = "loop"]
  /\ i' = [i EXCEPT ![t] = 1]
  /\ alerts_triggered' = [alerts_triggered EXCEPT ![t] = 0]
  /\ calls' = Append(calls, m)
  /\ arg' = [arg EXCEPT ![t] = Len(calls) + 1]
  /\ UNCHANGED <<main_pc, thresholds, active_alerts, raised>>

(* alert_engine_check_measurement, up to and including the lock. *)
BeginCheck(t, m) ==
  /\ main_pc > Len(Configured)
  /\ Len(calls) < MaxCalls
  /\ pc[t] = "idle"
  /\ alert_mutex = NoThread
  /\ alert_mutex' = t
  /\ pc' = [pc EXCEPT ![t] = "loop"]
  /\ i' = [i EXCEPT ![t] = 1]
  /\ alerts_triggered' = [alerts_triggered EXCEPT ![t] = 0]
  /\ calls' = Append(calls, m)
  /\ arg' = [arg EXCEPT ![t] = Len(calls) + 1]
  /\ UNCHANGED <<main_pc, thresholds, active_alerts, raised>>

(* An iteration whose threshold fires. *)
RaiseAlert(t) ==
  /\ pc[t] = "loop"
  /\ i[t] <= Len(thresholds)
  /\ Fires(i[t], calls[arg[t]])
  /\ LET alert == AlertOf(arg[t], i[t])
     IN  /\ active_alerts' = add_active_alert(active_alerts, alert)
         /\ raised' = Append(raised, alert)
  /\ alerts_triggered' = [alerts_triggered EXCEPT ![t] = @ + 1]
  /\ i' = [i EXCEPT ![t] = @ + 1]
  /\ UNCHANGED <<main_pc, thresholds, alert_mutex, pc, arg, calls>>

SkipResettingCount(t) ==
  /\ pc[t] = "loop"
  /\ i[t] <= Len(thresholds)
  /\ ~Fires(i[t], calls[arg[t]])
  /\ i' = [i EXCEPT ![t] = @ + 1]
  /\ alerts_triggered' = [alerts_triggered EXCEPT ![t] = 0]
  /\ UNCHANGED <<main_pc, thresholds, active_alerts, alert_mutex, pc, arg,
                 calls, raised>>

(* An iteration whose threshold does not fire. *)
SkipThreshold(t) ==
  /\ pc[t] = "loop"
  /\ i[t] <= Len(thresholds)
  /\ ~Fires(i[t], calls[arg[t]])
  /\ i' = [i EXCEPT ![t] = @ + 1]
  /\ UNCHANGED <<main_pc, thresholds, active_alerts, alert_mutex, pc,
                 alerts_triggered, arg, calls, raised>>

EndAfterFirstAlert(t) ==
  /\ pc[t] = "loop"
  /\ i[t] > Len(thresholds) \/ alerts_triggered[t] > 0
  /\ alert_mutex' = NoThread
  /\ pc' = [pc EXCEPT ![t] = "idle"]
  /\ UNCHANGED <<main_pc, thresholds, active_alerts, i, alerts_triggered, arg,
                 calls, raised>>

(* Unlock and return alerts_triggered. *)
EndCheck(t) ==
  /\ pc[t] = "loop"
  /\ i[t] > Len(thresholds)
  /\ alert_mutex' = NoThread
  /\ pc' = [pc EXCEPT ![t] = "idle"]
  /\ UNCHANGED <<main_pc, thresholds, active_alerts, i, alerts_triggered, arg,
                 calls, raised>>

(* The behaviour has used up its bound on calls. *)
Finished ==
  /\ Len(calls) = MaxCalls /\ alert_mutex = NoThread
  /\ UNCHANGED vars

Next ==
  \/ alert_engine_register_threshold
  \/ \E t \in Threads :
       \/ \E m \in Measurements : BeginCheck(t, m)
       \/ RaiseAlert(t)
       \/ SkipThreshold(t)
       \/ EndCheck(t)
  \/ Finished

Spec == alert_engine_init /\ [][Next]_vars

-----------------------------------------------------------------------------
ActiveAlert == [sensor_id : {m.sensor_id : m \in Measurements},
                sensor_type : STRING, value : Int, level : Levels,
                timestamp : Nat, message : Nat]

(* Type invariant; neither array is ever overrun. *)
TypeOK ==
  /\ main_pc \in 1 .. Len(Configured) + 1
  /\ thresholds \in Seq(Threshold) /\ Len(thresholds) <= MAX_ALERTS
  /\ active_alerts \in Seq(ActiveAlert) /\ Len(active_alerts) <= MAX_ALERTS
  /\ alert_mutex \in Threads \cup {NoThread}
  /\ pc \in [Threads -> {"idle", "loop"}]
  /\ i \in [Threads -> Nat]
  /\ alerts_triggered \in [Threads -> Nat]
  /\ arg \in [Threads -> 0 .. Len(calls)]
  /\ calls \in Seq(Measurements)
  /\ raised \in Seq(ActiveAlert)

MinOf(a, b) == IF a <= b THEN a ELSE b

(***************************************************************************)
(* The list is the most recent MAX_ALERTS alerts, in the order they were   *)
(* raised: the memmove of a full array drops the oldest and nothing else.  *)
(***************************************************************************)
ActiveAreLatest ==
  active_alerts =
    SubSeq(raised, Len(raised) - MinOf(Len(raised), MAX_ALERTS) + 1, Len(raised))

(* Threshold k has raised its alert for the n-th call. *)
HasRaised(n, k) ==
  \E j \in 1 .. Len(raised) : raised[j].timestamp = n /\ raised[j].message = k

(***************************************************************************)
(* Whoever can lock the engine (GET_ALERTS, the next measurement) finds    *)
(* every finished measurement evaluated against every threshold: a         *)
(* WARNING is never on record without the CRITICAL of the same reading.    *)
(***************************************************************************)
EvaluationIsAtomic ==
  alert_mutex = NoThread =>
    \A n \in 1 .. Len(calls), k \in 1 .. Len(thresholds) :
      HasRaised(n, k) <=> Fires(k, calls[n])

(***************************************************************************)
(* Alerts of different threads never interleave: the record follows the    *)
(* order of the calls, and within a call the order of the thresholds.      *)
(***************************************************************************)
RecordIsSerial ==
  \A j, l \in 1 .. Len(raised) : j < l =>
    \/ raised[j].timestamp < raised[l].timestamp
    \/ /\ raised[j].timestamp = raised[l].timestamp
       /\ raised[j].message < raised[l].message

(***************************************************************************)
(* A call returns a positive count, and so the server broadcasts, exactly  *)
(* when the measurement has put an alert on record.                        *)
(***************************************************************************)
ReturnTellsRaised ==
  \A t \in Threads : (pc[t] = "idle" /\ arg[t] # 0) =>
    ((alerts_triggered[t] > 0) <=> \E k \in 1 .. Len(thresholds) : HasRaised(arg[t], k))
=============================================================================
