-------------------------- MODULE SensorNodeProofs --------------------------
(***************************************************************************)
(* Proofs about SensorNode, for every set of sensors, of invalid ids and   *)
(* of slow sensors, every size of the table, and any number of crashes and *)
(* lost connections.                                                       *)
(***************************************************************************)
EXTENDS SensorNode, FiniteSetTheorems, TLAPS

(* What is on the connection of s, by where s is. *)
InStep(s) ==
  /\ pc[s] \in {"connect", "retry", "interrupted"} => conn[s] = "none"
  /\ ~Waiting(s) => request[s] = "none" /\ answer[s] = "none"
  /\ pc[s] = "registering" => request[s] # "MEASUREMENT"
  /\ pc[s] = "measuring" => request[s] # "REGISTER_SENSOR"
  /\ answer[s] # "none" => request[s] = "none"

(* What the server has done for s, if its connection has lasted. *)
Served(s) ==
  conn[s] = "open" =>
    /\ pc[s] = "registering" /\ answer[s] = "OK" => s \in table
    /\ pc[s] \in {"measure", "measuring", "sleep", "ended"} => s \in table
    /\ pc[s] = "measuring" /\ answer[s] # "none" => stored[s] = value[s]
    /\ pc[s] = "sleep" => stored[s] = value[s]

(* What becomes of a sensor that may not measure, and only of such a one. *)
Validated(s) ==
  /\ s \in Invalid =>
       pc[s] \notin {"measuring", "sleep"} /\ request[s] # "MEASUREMENT" /\ stored[s] = -1
  /\ pc[s] = "ended" => s \in Invalid

Agreement == \A s \in Sensors : InStep(s) /\ Served(s) /\ Validated(s)

IInv == TypeOK /\ Agreement

-----------------------------------------------------------------------------
(* A table that has room for one more. *)
LEMMA RoomForOne ==
  ASSUME NEW s \in Sensors, TypeOK, ~Full
  PROVE  Cardinality(table \cup {s}) <= MaxSensors
<1>1. IsFiniteSet(table)
  BY SensorsAssumption, FS_Subset DEF TypeOK
<1>2. Cardinality(table) \in Nat /\ Cardinality(table \cup {s}) \in Nat
  BY <1>1, FS_CardinalityType, FS_AddElement
<1>3. Cardinality(table \cup {s}) = Cardinality(table) \/
      Cardinality(table \cup {s}) = Cardinality(table) + 1
  BY <1>1, FS_AddElement
<1> QED
  BY <1>2, <1>3, SensorsAssumption DEF Full

LEMMA EmptyTable == Cardinality({}) <= MaxSensors
BY SensorsAssumption, FS_EmptySet

(* What a step of sensor s does not touch of another sensor. *)
Untouched(t) ==
  UNCHANGED <<pc[t], conn[t], request[t], answer[t], value[t], stored[t]>>

LEMMA UntouchedKeeps ==
  ASSUME NEW t \in Sensors, Untouched(t), table \subseteq table', InStep(t), Served(t),
         Validated(t)
  PROVE  InStep(t)' /\ Served(t)' /\ Validated(t)'
BY DEF Untouched, InStep, Served, Validated, Waiting

(* Steps of the sensor keep types. *)
LEMMA RunTypes ==
  ASSUME TypeOK, NEW s \in Sensors, Run(s) \/ Interrupt(s)
  PROVE  TypeOK'
<1>1. UNCHANGED <<server, crashes, faults>>
  BY DEF Run, Connect, SendRegister, RecvRegister, SendMeasurement, ValidationFails,
         RecvMeasurement, RecvFails, Retry, Interrupt
<1>2. pc' \in [Sensors -> Labels]
  BY DEF TypeOK, Run, Connect, SendRegister, RecvRegister, SendMeasurement,
         ValidationFails, RecvMeasurement, RecvFails, Retry, Interrupt, Goto, Labels
<1>3. conn' \in [Sensors -> {"none", "open", "closed", "silent"}]
  BY DEF TypeOK, Run, Connect, SendRegister, RecvRegister, SendMeasurement,
         ValidationFails, RecvMeasurement, RecvFails, Retry, Interrupt, Send, Disconnect,
         connections
<1>4. request' \in [Sensors -> {"none", "REGISTER_SENSOR", "MEASUREMENT"}]
  BY DEF TypeOK, Run, Connect, SendRegister, RecvRegister, SendMeasurement,
         ValidationFails, RecvMeasurement, RecvFails, Retry, Interrupt, Send, Disconnect,
         connections
<1>5. answer' \in [Sensors -> {"none", "OK", "ERROR"}]
  BY DEF TypeOK, Run, Connect, SendRegister, RecvRegister, SendMeasurement,
         ValidationFails, RecvMeasurement, RecvFails, Retry, Interrupt, Send, Disconnect,
         connections
<1>6. value' \in [Sensors -> {0, 1}]
  BY DEF TypeOK, Run, Connect, SendRegister, RecvRegister, SendMeasurement,
         ValidationFails, RecvMeasurement, RecvFails, Retry, Interrupt
<1> QED
  BY <1>1, <1>2, <1>3, <1>4, <1>5, <1>6 DEF TypeOK, server

(* Steps of the sensor keep the agreement with the server. *)
LEMMA RunAgrees ==
  ASSUME IInv, NEW s \in Sensors, Run(s) \/ Interrupt(s)
  PROVE  Agreement'
<1>1. /\ pc \in [Sensors -> Labels]
      /\ conn \in [Sensors -> {"none", "open", "closed", "silent"}]
      /\ request \in [Sensors -> {"none", "REGISTER_SENSOR", "MEASUREMENT"}]
      /\ answer \in [Sensors -> {"none", "OK", "ERROR"}]
      /\ value \in [Sensors -> {0, 1}]
  BY DEF IInv, TypeOK
<1>2. InStep(s) /\ Served(s) /\ Validated(s)
  BY DEF IInv, Agreement
<1>3. table' = table /\ stored' = stored
  BY DEF Run, Connect, SendRegister, RecvRegister, SendMeasurement, ValidationFails,
         RecvMeasurement, RecvFails, Retry, Interrupt, server
<1>4. ASSUME NEW t \in Sensors, t # s PROVE Untouched(t)
  BY <1>1, <1>3, <1>4 DEF Run, Connect, SendRegister, RecvRegister, SendMeasurement,
     ValidationFails, RecvMeasurement, RecvFails, Retry, Interrupt, Goto, Send,
        Disconnect,
     Untouched, connections
<1>5. InStep(s)' /\ Served(s)' /\ Validated(s)'
  <2>1. CASE Connect(s)
    BY <1>1, <1>2, <1>3, <2>1 DEF Connect, Goto, InStep, Served, Validated, Waiting
  <2>2. CASE SendRegister(s)
    BY <1>1, <1>2, <1>3, <2>2 DEF SendRegister, Goto, Send, InStep, Served, Validated,
       Waiting
  <2>3. CASE RecvRegister(s)
    BY <1>1, <1>2, <1>3, <2>3 DEF RecvRegister, Goto, Disconnect, InStep, Served,
       Validated, Waiting
  <2>4. CASE SendMeasurement(s)
    BY <1>1, <1>2, <1>3, <2>4 DEF SendMeasurement, Goto, Send, InStep, Served,
       Validated, Waiting
  <2>5. CASE ValidationFails(s)
    BY <1>1, <1>2, <1>3, <2>5 DEF ValidationFails, Goto, InStep, Served, Validated,
       Waiting,
       connections
  <2>6. CASE RecvMeasurement(s)
    BY <1>1, <1>2, <1>3, <2>6 DEF RecvMeasurement, Goto, InStep, Served, Validated,
       Waiting
  <2>7. CASE RecvFails(s) \/ Interrupt(s)
    BY <1>1, <1>2, <1>3, <2>7 DEF RecvFails, Interrupt, Goto, Disconnect, InStep, Served,
       Validated, Waiting
  <2>8. CASE Retry(s)
    BY <1>1, <1>2, <1>3, <2>8 DEF Retry, Goto, InStep, Served, Validated, Waiting,
       connections
  <2> QED
    BY <2>1, <2>2, <2>3, <2>4, <2>5, <2>6, <2>7, <2>8 DEF Run
<1> QED
  BY <1>3, <1>4, <1>5, UntouchedKeeps DEF IInv, Agreement

(* The server thread of s handles its command. *)
LEMMA ServeKeeps ==
  ASSUME IInv, NEW s \in Sensors, Serve(s)
  PROVE  IInv'
<1>1. /\ pc \in [Sensors -> Labels]
      /\ conn \in [Sensors -> {"none", "open", "closed", "silent"}]
      /\ request \in [Sensors -> {"none", "REGISTER_SENSOR", "MEASUREMENT"}]
      /\ answer \in [Sensors -> {"none", "OK", "ERROR"}]
      /\ stored \in [Sensors -> {-1, 0, 1}] /\ value \in [Sensors -> {0, 1}]
      /\ table \subseteq Sensors
  BY DEF IInv, TypeOK
<1>2. InStep(s) /\ Served(s) /\ Validated(s)
  BY DEF IInv, Agreement
<1>3. TypeOK'
  <2>1. table' \subseteq Sensors /\ Cardinality(table') <= MaxSensors
    BY RoomForOne DEF Serve, ServeRegister, ServeMeasurement, IInv, TypeOK
  <2>2. stored' \in [Sensors -> {-1, 0, 1}]
    BY <1>1 DEF Serve, ServeRegister, ServeMeasurement
  <2>3. /\ request' \in [Sensors -> {"none", "REGISTER_SENSOR", "MEASUREMENT"}]
        /\ answer' \in [Sensors -> {"none", "OK", "ERROR"}]
    BY <1>1 DEF Serve, ServeRegister, ServeMeasurement, Answer
  <2> QED
    BY <2>1, <2>2, <2>3 DEF Serve, ServeRegister, ServeMeasurement, IInv, TypeOK
<1>4. ASSUME NEW t \in Sensors, t # s PROVE Untouched(t)
  BY <1>1, <1>4 DEF Serve, ServeRegister, ServeMeasurement, Answer, Untouched
<1>5. table \subseteq table'
  BY DEF Serve, ServeRegister, ServeMeasurement
<1>6. InStep(s)' /\ Served(s)' /\ Validated(s)'
  <2>1. CASE ServeRegister(s)
    BY <1>1, <1>2, <2>1 DEF ServeRegister, Answer, InStep, Served, Validated, Waiting
  <2>2. CASE ServeMeasurement(s)
    BY <1>1, <1>2, <2>2 DEF ServeMeasurement, Answer, InStep, Served, Validated, Waiting
  <2> QED
    BY <2>1, <2>2 DEF Serve
<1> QED
  BY <1>3, <1>4, <1>5, <1>6, UntouchedKeeps DEF IInv, Agreement

(* Connections end, one or all of them. *)
LEMMA FaultKeeps ==
  ASSUME IInv, \/ \E s \in Sensors : ReceiveTimesOut(s) \/ ConnectionLost(s)
               \/ Crash \/ Start
  PROVE  IInv'
<1>1. /\ conn \in [Sensors -> {"none", "open", "closed", "silent"}]
      /\ request \in [Sensors -> {"none", "REGISTER_SENSOR", "MEASUREMENT"}]
      /\ answer \in [Sensors -> {"none", "OK", "ERROR"}]
      /\ crashes \in 0 .. MaxCrashes /\ faults \in 0 .. MaxFaults
  BY DEF IInv, TypeOK
<1>2. UNCHANGED <<pc, value>>
  BY DEF ReceiveTimesOut, ConnectionLost, Crash, Start
<1>3. /\ conn' \in [Sensors -> {"none", "open", "closed", "silent"}]
      /\ request' \in [Sensors -> {"none", "REGISTER_SENSOR", "MEASUREMENT"}]
      /\ answer' \in [Sensors -> {"none", "OK", "ERROR"}]
  BY <1>1 DEF ReceiveTimesOut, ConnectionLost, Crash, Start, connections
<1>4. \A t \in Sensors :
        /\ conn'[t] = conn[t] \/ (conn[t] = "open" /\ conn'[t] \in {"closed", "silent"})
        /\ request'[t] \in {request[t], "none"} /\ answer'[t] \in {answer[t], "none"}
  BY <1>1 DEF ReceiveTimesOut, ConnectionLost, Crash, Start, connections
<1>5. \/ UNCHANGED <<table, stored>>
      \/ table' = {} /\ stored' = [s \in Sensors |-> -1]
         /\ \A t \in Sensors : conn'[t] # "open"
  BY <1>1 DEF ReceiveTimesOut, ConnectionLost, Crash, Start, server
<1>6. TypeOK'
  <2>1. crashes' \in 0 .. MaxCrashes /\ faults' \in 0 .. MaxFaults
    BY <1>1, SensorsAssumption DEF ReceiveTimesOut, ConnectionLost, Crash, Start
  <2>2. up' \in BOOLEAN
    BY DEF ReceiveTimesOut, ConnectionLost, Crash, Start, server, IInv, TypeOK
  <2>3. /\ table' \subseteq Sensors /\ Cardinality(table') <= MaxSensors
        /\ stored' \in [Sensors -> {-1, 0, 1}]
    BY <1>5, EmptyTable DEF IInv, TypeOK
  <2> QED
    BY <1>2, <1>3, <2>1, <2>2, <2>3 DEF IInv, TypeOK
<1>7. ASSUME NEW t \in Sensors PROVE InStep(t)' /\ Served(t)' /\ Validated(t)'
  <2>1. InStep(t) /\ Served(t) /\ Validated(t)
    BY DEF IInv, Agreement
  <2>2. InStep(t)'
    BY <1>2, <1>4, <2>1 DEF InStep, Waiting
  <2>3. Served(t)'
    BY <1>2, <1>4, <1>5, <2>1 DEF Served
  <2>4. Validated(t)'
    BY <1>2, <1>4, <1>5, <2>1 DEF Validated
  <2> QED
    BY <2>2, <2>3, <2>4
<1> QED
  BY <1>6, <1>7 DEF IInv, Agreement

LEMMA NodeInvariant == Spec => []IInv
<1>1. Init => IInv
  <2>1. Init => TypeOK
    BY EmptyTable, SensorsAssumption DEF Init, TypeOK, Labels
  <2>2. Init => Agreement
    BY DEF Init, Agreement, InStep, Served, Validated, Waiting
  <2> QED
    BY <2>1, <2>2 DEF IInv
<1>2. IInv /\ [Next]_vars => IInv'
  <2>1. IInv /\ UNCHANGED vars => IInv'
    BY DEF IInv, TypeOK, Agreement, InStep, Served, Validated, Waiting, vars,
       connections, server
  <2> QED
    BY <2>1, RunTypes, RunAgrees, ServeKeeps, FaultKeeps DEF Next, IInv
<1> QED
  BY <1>1, <1>2, PTL DEF Spec

(***************************************************************************)
(* Every variable keeps its type, and the server's table never holds more  *)
(* than MaxSensors (sensor_base.py, run; sensor_manager.c).                *)
(***************************************************************************)
THEOREM NodeTypes == Spec => []TypeOK
<1>1. IInv => TypeOK
  BY DEF IInv
<1> QED
  BY <1>1, NodeInvariant, PTL

(***************************************************************************)
(* A sensor that measures over a live connection is registered, whatever   *)
(* crashes and faults came before (sensor_base.py, run).                   *)
(***************************************************************************)
THEOREM Registration == Spec => []RegisteredWhileConnected
<1>1. IInv => RegisteredWhileConnected
  BY DEF IInv, Agreement, Served, RegisteredWhileConnected
<1> QED
  BY <1>1, NodeInvariant, PTL

(***************************************************************************)
(* While a sensor sleeps on a live connection the server holds its last    *)
(* reading (sensor_base.py, _send_measurement; server.c, MEASUREMENT).     *)
(***************************************************************************)
THEOREM Latest == Spec => []LatestIsStored
<1>1. IInv => LatestIsStored
  BY DEF IInv, Agreement, Served, LatestIsStored
<1> QED
  BY <1>1, NodeInvariant, PTL

(***************************************************************************)
(* An invalid id is registered and never measured, and ends no thread but  *)
(* its sensor's own (sensor_base.py, _register, _validate_measurement and  *)
(* run).                                                                   *)
(***************************************************************************)
THEOREM Ended == Spec => []EndedNeverMeasured
<1>1. IInv => EndedNeverMeasured
  BY SensorsAssumption DEF IInv, Agreement, Served, Validated, EndedNeverMeasured
<1> QED
  BY <1>1, NodeInvariant, PTL
=============================================================================
