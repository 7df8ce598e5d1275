----------------------------- MODULE SensorNode -----------------------------
(***************************************************************************)
(* sensors/sensor_base.py: the loop that connects, registers, measures and *)
(* starts again after a network error, of several sensors, against the     *)
(* server thread of each connection and the server's table of sensors.     *)
(*                                                                         *)
(* A sensor has at most one connection; conn is what has become of it.     *)
(* "closed": the server has ended it, or a reset has; the sensor notices   *)
(* when it next waits for an answer.  "silent": the other side can no      *)
(* longer be heard and the sensor is not told (no keepalive, no timeout):  *)
(* what it sends is given up by TCP after its retransmissions, but an      *)
(* answer that it already waits for never comes.                           *)
(*                                                                         *)
(* The server may end and be started again: its table is in memory.  Of    *)
(* a sensor's reading the table keeps which of the last two it was.  Ids   *)
(* fit their slots and differ (run_sensors.py numbers them).               *)
(*                                                                         *)
(* Not part of the specification: ConnectWithoutRegistering, FullTooLate,  *)
(* SendWithoutWaiting, SendUnvalidated, RecvIgnoringEnd.  They are faulty  *)
(* variants of the definitions that follow them; README.md says which      *)
(* property each one violates.                                             *)
(***************************************************************************)
EXTENDS Integers, FiniteSets

CONSTANTS
  Sensors,      \* the threads of run_sensors.py
  Invalid,      \* sensors whose id ID_PATTERN does not match
  Slow,         \* sensors that may sleep for 60 seconds or more
  MaxSensors,   \* slots in the server's table (50)
  MaxCrashes,   \* bound: ends of the server process in a behaviour
  MaxFaults     \* bound: connections lost to the network in a behaviour

ASSUME SensorsAssumption ==
  /\ IsFiniteSet(Sensors) /\ Invalid \subseteq Sensors /\ Slow \subseteq Sensors
  /\ MaxSensors \in Nat /\ MaxCrashes \in Nat /\ MaxFaults \in Nat

VARIABLES
  pc,        \* where run() is, per sensor
  conn,      \* its connection: none, open, closed or silent
  request,   \* the command the server has not handled yet, or none
  answer,    \* the answer the sensor has not read yet, or none
  value,     \* its last reading: 0 or 1, in turn
  up,        \* the server process is running
  table,     \* the sensors registered in it
  stored,    \* their readings there, or -1
  crashes, faults

connections == <<conn, request, answer>>
server == <<up, table, stored>>
vars == <<pc, connections, value, server, crashes, faults>>

-----------------------------------------------------------------------------
Goto(s, label) == pc' = [pc EXCEPT ![s] = label]

Waiting(s) == pc[s] \in {"registering", "measuring"}

FullTooLate == Cardinality(table) > MaxSensors

Full == Cardinality(table) >= MaxSensors

Disconnect(s) ==
  /\ conn' = [conn EXCEPT ![s] = "none"]
  /\ request' = [request EXCEPT ![s] = "none"]
  /\ answer' = [answer EXCEPT ![s] = "none"]

(* sendall(): into the void, unless the connection is open. *)
Send(s, command) ==
  /\ \/ conn[s] = "open" /\ request' = [request EXCEPT ![s] = command] /\ UNCHANGED conn
     \/ conn[s] # "open" /\ conn' = [conn EXCEPT ![s] = "closed"] /\ UNCHANGED request
  /\ UNCHANGED answer

Init ==
  /\ pc = [s \in Sensors |-> "connect"]
  /\ conn = [s \in Sensors |-> "none"]
  /\ request = [s \in Sensors |-> "none"]
  /\ answer = [s \in Sensors |-> "none"]
  /\ value = [s \in Sensors |-> 0]
  /\ up = TRUE /\ table = {} /\ stored = [s \in Sensors |-> -1]
  /\ crashes = 0 /\ faults = 0

-----------------------------------------------------------------------------
(* run() of a sensor. *)
ConnectWithoutRegistering(s) ==
  /\ pc[s] = "connect"
  /\ \/ /\ up
        /\ conn' = [conn EXCEPT ![s] = "open"]
        /\ Goto(s, IF value[s] = 0 THEN "register" ELSE "measure")
     \/ ~up /\ UNCHANGED conn /\ Goto(s, "retry")
  /\ UNCHANGED <<request, answer, value, server, crashes, faults>>

(* _connect(): refused, or timed out after 10 seconds, if there is no server. *)
Connect(s) ==
  /\ pc[s] = "connect"
  /\ \/ up /\ conn' = [conn EXCEPT ![s] = "open"] /\ Goto(s, "register")
     \/ ~up /\ UNCHANGED conn /\ Goto(s, "retry")
  /\ UNCHANGED <<request, answer, value, server, crashes, faults>>

SendRegister(s) ==
  /\ pc[s] = "register"
  /\ Send(s, "REGISTER_SENSOR")
  /\ Goto(s, "registering")
  /\ UNCHANGED <<value, server, crashes, faults>>

(* The answer to REGISTER_SENSOR; a rejection counts as a network error. *)
RecvRegister(s) ==
  /\ pc[s] = "registering" /\ answer[s] # "none"
  /\ IF answer[s] = "OK"
     THEN Goto(s, "measure") /\ answer' = [answer EXCEPT ![s] = "none"]
                             /\ UNCHANGED <<conn, request>>
     ELSE Goto(s, "retry") /\ Disconnect(s)
  /\ UNCHANGED <<value, server, crashes, faults>>

SendWithoutWaiting(s) ==
  /\ pc[s] \in {"measure", "sleep"} /\ s \notin Invalid
  /\ value' = [value EXCEPT ![s] = 1 - @]
  /\ Send(s, "MEASUREMENT")
  /\ Goto(s, "sleep")
  /\ UNCHANGED <<server, crashes, faults>>

SendUnvalidated(s) ==
  /\ pc[s] \in {"measure", "sleep"}
  /\ value' = [value EXCEPT ![s] = 1 - @]
  /\ Send(s, "MEASUREMENT")
  /\ Goto(s, "measuring")
  /\ UNCHANGED <<server, crashes, faults>>

(* _send_measurement(), as far as its sendall(). *)
SendMeasurement(s) ==
  /\ pc[s] \in {"measure", "sleep"} /\ s \notin Invalid
  /\ value' = [value EXCEPT ![s] = 1 - @]
  /\ Send(s, "MEASUREMENT")
  /\ Goto(s, "measuring")
  /\ UNCHANGED <<server, crashes, faults>>

(* A ValueError, which run() does not catch: the thread ends, its socket open. *)
ValidationFails(s) ==
  /\ pc[s] = "measure" /\ s \in Invalid
  /\ Goto(s, "ended")
  /\ UNCHANGED <<connections, value, server, crashes, faults>>

(* The answer to MEASUREMENT, whatever it is; then time.sleep(interval). *)
RecvMeasurement(s) ==
  /\ pc[s] = "measuring" /\ answer[s] # "none"
  /\ answer' = [answer EXCEPT ![s] = "none"]
  /\ Goto(s, "sleep")
  /\ UNCHANGED <<conn, request, value, server, crashes, faults>>

RecvIgnoringEnd(s) ==
  /\ Waiting(s) /\ conn[s] = "closed" /\ answer[s] = "none"
  /\ IF pc[s] = "measuring" THEN Goto(s, "sleep") /\ UNCHANGED connections
     ELSE Goto(s, "retry") /\ Disconnect(s)
  /\ UNCHANGED <<value, server, crashes, faults>>

(* The connection ends before the answer: OSError or ConnectionError. *)
RecvFails(s) ==
  /\ Waiting(s) /\ conn[s] = "closed" /\ answer[s] = "none"
  /\ Disconnect(s)
  /\ Goto(s, "retry")
  /\ UNCHANGED <<value, server, crashes, faults>>

(* time.sleep(retry_interval) is over. *)
Retry(s) ==
  /\ pc[s] = "retry"
  /\ Goto(s, "connect")
  /\ UNCHANGED <<connections, value, server, crashes, faults>>

(* KeyboardInterrupt *)
Interrupt(s) ==
  /\ pc[s] \notin {"ended", "interrupted"}
  /\ Disconnect(s)
  /\ Goto(s, "interrupted")
  /\ UNCHANGED <<value, server, crashes, faults>>

-----------------------------------------------------------------------------
(* The server. *)
Answer(s, reply) ==
  /\ request' = [request EXCEPT ![s] = "none"]
  /\ answer' = IF conn[s] = "open" THEN [answer EXCEPT ![s] = reply] ELSE answer

ServeRegister(s) ==
  /\ up /\ request[s] = "REGISTER_SENSOR"
  /\ IF s \in table \/ ~Full
     THEN table' = table \cup {s} /\ Answer(s, "OK")
     ELSE UNCHANGED table /\ Answer(s, "ERROR")
  /\ UNCHANGED <<pc, conn, value, up, stored, crashes, faults>>

ServeMeasurement(s) ==
  /\ up /\ request[s] = "MEASUREMENT"
  /\ IF s \in table
     THEN stored' = [stored EXCEPT ![s] = value[s]] /\ Answer(s, "OK")
     ELSE UNCHANGED stored /\ Answer(s, "ERROR")
  /\ UNCHANGED <<pc, conn, value, up, table, crashes, faults>>

(* recv() of the server thread times out; it closes the connection. *)
ReceiveTimesOut(s) ==
  /\ up /\ conn[s] = "open"
  /\ pc[s] = "ended" \/ (pc[s] = "sleep" /\ s \in Slow)
  /\ conn' = [conn EXCEPT ![s] = "closed"]
  /\ UNCHANGED <<pc, request, answer, value, server, crashes, faults>>

(* The process ends, and its table with it; answers on their way may arrive. *)
Crash ==
  /\ up /\ crashes < MaxCrashes
  /\ up' = FALSE /\ table' = {} /\ stored' = [s \in Sensors |-> -1]
  /\ conn' = [s \in Sensors |-> IF conn[s] = "open" THEN "closed" ELSE conn[s]]
  /\ request' = [s \in Sensors |-> "none"]
  /\ \E lost \in SUBSET Sensors :
       answer' = [s \in Sensors |-> IF s \in lost THEN "none" ELSE answer[s]]
  /\ crashes' = crashes + 1
  /\ UNCHANGED <<pc, value, faults>>

(* Somebody starts it again. *)
Start ==
  /\ ~up
  /\ up' = TRUE
  /\ UNCHANGED <<pc, connections, value, table, stored, crashes, faults>>

(* The network loses a connection, with a reset or without a word. *)
ConnectionLost(s) ==
  /\ conn[s] = "open" /\ faults < MaxFaults
  /\ \/ /\ conn' = [conn EXCEPT ![s] = "closed"]
        /\ request' = [request EXCEPT ![s] = "none"]
     \/ conn' = [conn EXCEPT ![s] = "silent"] /\ UNCHANGED request
  /\ \/ answer' = [answer EXCEPT ![s] = "none"]
     \/ UNCHANGED answer
  /\ faults' = faults + 1
  /\ UNCHANGED <<pc, value, server, crashes>>

-----------------------------------------------------------------------------
Run(s) ==
  \/ Connect(s) \/ SendRegister(s) \/ RecvRegister(s)
  \/ SendMeasurement(s) \/ ValidationFails(s) \/ RecvMeasurement(s)
  \/ RecvFails(s) \/ Retry(s)

Serve(s) == ServeRegister(s) \/ ServeMeasurement(s)

Next ==
  \/ \E s \in Sensors :
       Run(s) \/ Interrupt(s) \/ Serve(s) \/ ReceiveTimesOut(s) \/ ConnectionLost(s)
  \/ Crash \/ Start

Spec == Init /\ [][Next]_vars

(***************************************************************************)
(* Sensors and server threads run, and a server that has ended is started. *)
(* That a server thread answers is an assumption about the operators too:  *)
(* a measurement that raises an alert is broadcast before it is answered,  *)
(* and the broadcast ends only if the operators it is sent to read.        *)
(***************************************************************************)
FairSpec ==
  /\ Spec
  /\ \A s \in Sensors : WF_vars(Run(s)) /\ WF_vars(Serve(s))
  /\ WF_vars(Start)

-----------------------------------------------------------------------------
Labels == {"connect", "register", "registering", "measure", "measuring", "sleep",
           "retry", "ended", "interrupted"}

(* Type invariant; the table of sensors is never overrun. *)
TypeOK ==
  /\ pc \in [Sensors -> Labels]
  /\ conn \in [Sensors -> {"none", "open", "closed", "silent"}]
  /\ request \in [Sensors -> {"none", "REGISTER_SENSOR", "MEASUREMENT"}]
  /\ answer \in [Sensors -> {"none", "OK", "ERROR"}]
  /\ value \in [Sensors -> {0, 1}]
  /\ up \in BOOLEAN
  /\ table \subseteq Sensors /\ Cardinality(table) <= MaxSensors
  /\ stored \in [Sensors -> {-1, 0, 1}]
  /\ crashes \in 0 .. MaxCrashes /\ faults \in 0 .. MaxFaults

(***************************************************************************)
(* A sensor that measures over a live connection is in the server's table, *)
(* although the server may have ended and forgotten it before: no          *)
(* measurement of a sensor that has registered is answered "not            *)
(* registered", which the sensor would print and never act upon.           *)
(***************************************************************************)
RegisteredWhileConnected ==
  \A s \in Sensors :
    pc[s] \in {"measure", "measuring", "sleep"} /\ conn[s] = "open" => s \in table

(***************************************************************************)
(* While a sensor sleeps and its connection lives, the server shows its    *)
(* last reading.                                                           *)
(***************************************************************************)
LatestIsStored ==
  \A s \in Sensors : pc[s] = "sleep" /\ conn[s] = "open" => stored[s] = value[s]

(***************************************************************************)
(* An id that the measurements would be refused for is not refused before: *)
(* a sensor's thread ends of itself only over its invalid id, and the      *)
(* server then lists, while the connection lasts, a sensor of which no     *)
(* reading has ever been stored.                                           *)
(***************************************************************************)
EndedNeverMeasured ==
  /\ \A s \in Invalid : stored[s] = -1
  /\ \A s \in Sensors :
       pc[s] = "ended" => s \in Invalid /\ (conn[s] = "open" => s \in table)

Stores(s) == ServeMeasurement(s) /\ s \in table

(***************************************************************************)
(* Every sensor goes on measuring for ever: across ends of the server,     *)
(* timeouts, resets and rejections.  It does not only if it is interrupted, *)
(* if it waits for an answer on a connection that has gone silent, or if   *)
(* the table is full for good; and, what FairSpec excludes, if its server  *)
(* thread is stuck behind an operator that does not read.                  *)
(***************************************************************************)
MeasuringGoesOn ==
  \A s \in Sensors \ Invalid :
    \/ []<><<Stores(s)>>_vars
    \/ <>[](\/ pc[s] = "interrupted"
            \/ Waiting(s) /\ conn[s] = "silent"
            \/ Full /\ s \notin table)
=============================================================================
