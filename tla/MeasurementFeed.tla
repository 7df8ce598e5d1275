-------------------------- MODULE MeasurementFeed --------------------------
(***************************************************************************)
(* What the server promises of a MEASUREMENT (server/src/server.c, case    *)
(* CMD_MEASUREMENT), seen from outside: the value becomes the latest of    *)
(* its sensor; then it is judged, by all thresholds in one step; then, if  *)
(* any is exceeded, the operators are told, once; only then is the sensor  *)
(* answered.  A sensor that is not registered is answered 404 and leaves   *)
(* no trace; so is, with a 500, one for which there is no room.            *)
(***************************************************************************)
EXTENDS Integers, Sequences

CONSTANTS
  Threads,        \* connection threads
  Measurements,   \* what registered sensors may send
  Exceeds,        \* per measurement, the thresholds it exceeds
  Full(_)         \* whether there is no room beside these sensors

VARIABLES
  phase,     \* of each thread's command: idle, stored, tell, reply
  current,   \* the measurement of the command
  latest,    \* per registered sensor, its type and latest value
  record,    \* the verdicts, in the order in which they were reached
  told       \* the threads' measurements the operators were told of, in order

vars == <<phase, current, latest, record, told>>

Init ==
  /\ phase = [t \in Threads |-> "idle"]
  /\ current = [t \in Threads |-> CHOOSE m \in Measurements : TRUE]
  /\ latest = [id \in {} |-> 0]
  /\ record = <<>>
  /\ told = <<>>

Known(m) == m.sensor_id \in DOMAIN latest /\ latest[m.sensor_id].type = m.sensor_type

Goto(t, next) == phase' = [phase EXCEPT ![t] = next]

Register(t, m) ==
  /\ phase[t] = "idle" /\ Goto(t, "reply")
  /\ latest' = IF m.sensor_id \in DOMAIN latest \/ Full(DOMAIN latest) THEN latest
               ELSE [id \in DOMAIN latest \cup {m.sensor_id} |->
                       IF id = m.sensor_id THEN [type |-> m.sensor_type, last_value |-> 0]
                       ELSE latest[id]]
  /\ UNCHANGED <<current, record, told>>

Store(t, m) ==
  /\ phase[t] = "idle" /\ Known(m) /\ Goto(t, "stored")
  /\ current' = [current EXCEPT ![t] = m]
  /\ latest' = [latest EXCEPT ![m.sensor_id].last_value = m.value]
  /\ UNCHANGED <<record, told>>

Refuse(t, m) ==
  /\ phase[t] = "idle" /\ m.sensor_id \notin DOMAIN latest /\ Goto(t, "reply")
  /\ UNCHANGED <<current, latest, record, told>>

Judge(t) ==
  /\ phase[t] = "stored"
  /\ record' = Append(record, [of |-> current[t], by |-> Exceeds[current[t]]])
  /\ Goto(t, IF Exceeds[current[t]] # {} THEN "tell" ELSE "reply")
  /\ UNCHANGED <<current, latest, told>>

Tell(t) ==
  /\ phase[t] = "tell" /\ Goto(t, "reply")
  /\ told' = Append(told, current[t])
  /\ UNCHANGED <<current, latest, record>>

Answer(t) ==
  /\ phase[t] = "reply" /\ Goto(t, "idle")
  /\ UNCHANGED <<current, latest, record, told>>

Next ==
  \E t \in Threads :
    \/ \E m \in Measurements : Register(t, m) \/ Store(t, m) \/ Refuse(t, m)
    \/ Judge(t) \/ Tell(t) \/ Answer(t)

Spec == Init /\ [][Next]_vars
=============================================================================
