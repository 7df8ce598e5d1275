------------------------ MODULE MeasurementPipeline ------------------------
(***************************************************************************)
(* server/src/server.c, the cases CMD_REGISTER_SENSOR and CMD_MEASUREMENT  *)
(* of handle_client: the sensor manager, the alert engine (the extended    *)
(* module, whose actions are those between the lock and the unlock of      *)
(* alert_mutex) and the broadcast, composed as a connection thread calls   *)
(* them.  A thread holds none of the three mutexes between them, so        *)
(* threads overtake each other there.                                      *)
(*                                                                         *)
(* A measurement carries the type its sensor has been registered with:     *)
(* sensor_manager_get_sensor_type, which reads a slot that is never        *)
(* changed (see module SensorManager), is part of Store.  A message short  *)
(* of arguments, answered 400, changes nothing and is left out.            *)
(*                                                                         *)
(* A broadcast holds operator_mutex over all of its sends.  How it reaches *)
(* each operator is the subject of module ConnectionThreads; of its sends  *)
(* two things matter here: one to an operator that does not read may block *)
(* for ever, so nothing says that a broadcast ends, and a send, of an      *)
(* answer too, may end the process by SIGPIPE.                             *)
(*                                                                         *)
(* Not part of the specification: StoreCheckingRises, LeaveIfSeveral,      *)
(* TellUnlessBusy.  They are faulty variants of the definitions that       *)
(* follow them; README.md says which property each one violates.           *)
(***************************************************************************)
EXTENDS AlertEngine, FiniteSets

CONSTANTS
  Serves,       \* per thread, the sensors that use its connection
  MAX_SENSORS   \* size of the table of sensors (sensor_manager.c)

(* Each sensor has ids and a connection of its own (run_sensors.py). *)
ASSUME ServesAssumption ==
  \A t, u \in Threads : t # u => Serves[t] \cap Serves[u] = {}

VARIABLES
  step,     \* where the thread is in its command
  reading,  \* the measurement of the command
  table,    \* per registered sensor, its type and last_value
  told,     \* history: numbers of the checks that were broadcast, in order
  operator_mutex,   \* the thread whose broadcast holds it, or NoThread
  alive     \* no send has ended the process

broadcasts == <<operator_mutex, alive>>
pipeline == <<step, reading, table, told, broadcasts>>
allVars == <<vars, pipeline>>

-----------------------------------------------------------------------------
At(t, label) == step[t] = label

Goto(t, label) == step' = [step EXCEPT ![t] = label]

(* A command arrives on the connection of thread t. *)
Receives(t, m) ==
  At(t, "idle") /\ m.sensor_id \in Serves[t] /\ main_pc > Len(Configured)

(* Room for another check: the bound on calls, less those about to be made. *)
Room ==
  Len(calls) + Cardinality({t \in Threads : At(t, "stored")}) < MaxCalls

PipelineInit ==
  /\ alert_engine_init
  /\ step = [t \in Threads |-> "idle"]
  /\ reading = [t \in Threads |-> CHOOSE m \in Measurements : TRUE]
  /\ table = [id \in {} |-> 0]
  /\ told = <<>>
  /\ operator_mutex = NoThread
  /\ alive = TRUE

NewEntry(m) == [type |-> m.sensor_type, last_value |-> 0]

Full(ids) == Cardinality(ids) >= MAX_SENSORS

(* CMD_REGISTER_SENSOR: 200, or 500 if the table is full. *)
Register(t, m) ==
  /\ Receives(t, m)
  /\ table' = IF m.sensor_id \in DOMAIN table \/ Full(DOMAIN table) THEN table
              ELSE [id \in DOMAIN table \cup {m.sensor_id} |->
                      IF id \in DOMAIN table THEN table[id] ELSE NewEntry(m)]
  /\ Goto(t, "reply")
  /\ UNCHANGED <<vars, reading, told, broadcasts>>

Registered(m) ==
  m.sensor_id \in DOMAIN table /\ table[m.sensor_id].type = m.sensor_type

StoreCheckingRises(t, m) ==
  /\ Receives(t, m) /\ Registered(m) /\ Room
  /\ table' = [table EXCEPT ![m.sensor_id].last_value = m.value]
  /\ reading' = [reading EXCEPT ![t] = m]
  /\ Goto(t, IF m.value > table[m.sensor_id].last_value THEN "stored" ELSE "reply")
  /\ UNCHANGED <<vars, told, broadcasts>>

(* CMD_MEASUREMENT: sensor_manager_add_measurement succeeds. *)
Store(t, m) ==
  /\ Receives(t, m) /\ Registered(m) /\ Room
  /\ table' = [table EXCEPT ![m.sensor_id].last_value = m.value]
  /\ reading' = [reading EXCEPT ![t] = m]
  /\ Goto(t, "stored")
  /\ UNCHANGED <<vars, told, broadcasts>>

(* CMD_MEASUREMENT: it does not, and the answer is 404. *)
Refuse(t, m) ==
  /\ Receives(t, m) /\ m.sensor_id \notin DOMAIN table
  /\ Goto(t, "reply")
  /\ UNCHANGED <<vars, reading, table, told, broadcasts>>

(* alert_engine_check_measurement: its lock, its loop, its return. *)
Enter(t) ==
  /\ At(t, "stored") /\ BeginCheck(t, reading[t])
  /\ Goto(t, "check")
  /\ UNCHANGED <<reading, table, told, broadcasts>>

Loop(t) ==
  /\ At(t, "check") /\ (RaiseAlert(t) \/ SkipThreshold(t))
  /\ UNCHANGED pipeline

LeaveIfSeveral(t) ==
  /\ At(t, "check") /\ EndCheck(t)
  /\ Goto(t, IF alerts_triggered[t] > 1 THEN "tell" ELSE "reply")
  /\ UNCHANGED <<reading, table, told, broadcasts>>

Leave(t) ==
  /\ At(t, "check") /\ EndCheck(t)
  /\ Goto(t, IF alerts_triggered[t] > 0 THEN "tell" ELSE "reply")
  /\ UNCHANGED <<reading, table, told, broadcasts>>

TellUnlessBusy(t) ==
  /\ At(t, "tell")
  /\ IF operator_mutex = NoThread
     THEN operator_mutex' = t /\ told' = Append(told, arg[t]) /\ Goto(t, "telling")
     ELSE Goto(t, "reply") /\ UNCHANGED <<told, operator_mutex>>
  /\ UNCHANGED <<vars, reading, table, alive>>

(* broadcast_alert: its lock ... *)
Tell(t) ==
  /\ At(t, "tell") /\ operator_mutex = NoThread
  /\ operator_mutex' = t
  /\ told' = Append(told, arg[t])
  /\ Goto(t, "telling")
  /\ UNCHANGED <<vars, reading, table, alive>>

(* ... and, when its sends have returned, its unlock. *)
EndTell(t) ==
  /\ At(t, "telling")
  /\ operator_mutex' = NoThread
  /\ Goto(t, "reply")
  /\ UNCHANGED <<vars, reading, table, told, alive>>

Answer(t) ==
  /\ At(t, "reply")
  /\ Goto(t, "idle")
  /\ UNCHANGED <<vars, reading, table, told, broadcasts>>

(* SIGPIPE in a send of a broadcast or of an answer: the process is gone. *)
Dies ==
  /\ alive /\ \E t \in Threads : At(t, "telling") \/ At(t, "reply")
  /\ alive' = FALSE
  /\ UNCHANGED <<vars, step, reading, table, told, operator_mutex>>

(* The steps that wait for nothing but alert_mutex and operator_mutex. *)
Proceed(t) == Enter(t) \/ Loop(t) \/ Leave(t) \/ Tell(t)

PipelineNext ==
  \/ alert_engine_register_threshold /\ UNCHANGED pipeline
  \/ /\ alive
     /\ \E t \in Threads :
          \/ \E m \in Measurements : Register(t, m) \/ Store(t, m) \/ Refuse(t, m)
          \/ Proceed(t) \/ EndTell(t) \/ Answer(t)
  \/ Dies
  \/ ~alive /\ UNCHANGED allVars

PipelineSpec == PipelineInit /\ [][PipelineNext]_allVars

(***************************************************************************)
(* Threads go on with a MEASUREMENT they have received; a thread that      *)
(* waits for a mutex gets it once it stays free (calls are bounded, so no  *)
(* thread is overtaken for ever).  Nothing is assumed of sends: EndTell    *)
(* and Answer need not come.                                               *)
(***************************************************************************)
FairPipelineSpec ==
  PipelineSpec /\ \A t \in Threads : WF_allVars(alive /\ Proceed(t))

-----------------------------------------------------------------------------
(* The checks that have been finished. *)
Judged == IF alert_mutex = NoThread THEN calls ELSE SubSeq(calls, 1, Len(calls) - 1)

RaisedBy(n) == {raised[j].message : j \in {l \in 1 .. Len(raised) : raised[l].timestamp = n}}

(***************************************************************************)
(* The three critical sections implement the promise made to a sensor and  *)
(* to the operators: in the record of MeasurementFeed each finished check  *)
(* is one entry, with the thresholds whose alerts it has raised.           *)
(***************************************************************************)
FeedPhase ==
  [t \in Threads |-> IF At(t, "check") THEN "stored"
                     ELSE IF At(t, "telling") THEN "reply" ELSE step[t]]

FeedRecord == [n \in 1 .. Len(Judged) |-> [of |-> Judged[n], by |-> RaisedBy(n)]]

FeedTold == [j \in 1 .. Len(told) |-> calls[told[j]]]

FeedExceeds == [m \in Measurements |->
  {k \in 1 .. MinOf(Len(Configured), MAX_ALERTS) :
     /\ Configured[k].sensor_type = m.sensor_type
     /\ check_condition(m.value, Configured[k].threshold_value, Configured[k].condition)}]

Feed == INSTANCE MeasurementFeed WITH
  phase <- FeedPhase, current <- reading, latest <- table, record <- FeedRecord,
  told <- FeedTold, Exceeds <- FeedExceeds, Full <- Full

ImplementsFeed == Feed!Spec

(***************************************************************************)
(* The table of sensors and the alert engine agree: of a sensor that has   *)
(* no measurement between the two, the table shows the value that was      *)
(* checked last, although storing and checking are not one step.           *)
(***************************************************************************)
LastCheckOf(id) ==
  {n \in 1 .. Len(calls) :
     /\ calls[n].sensor_id = id
     /\ \A l \in n + 1 .. Len(calls) : calls[l].sensor_id # id}

TableAgreesWithEngine ==
  \A t \in Threads : step[t] # "stored" =>
    \A id \in Serves[t] \cap DOMAIN table : \A n \in LastCheckOf(id) :
      table[id].last_value = calls[n].value

IsRaised(n) == \E j \in 1 .. Len(raised) : raised[j].timestamp = n

IsTold(n) == \E j \in 1 .. Len(told) : told[j] = n

(***************************************************************************)
(* Operators are told of every measurement that has put an alert on        *)
(* record, also when several threads have something to tell, unless the    *)
(* process is ended by SIGPIPE before.  The premise is what the code does  *)
(* not ensure, server.c's broadcast_alert having no time limit on its      *)
(* sends: no broadcast keeps operator_mutex for ever, which an operator    *)
(* that stays connected and does not read makes it do.                     *)
(***************************************************************************)
RaisedIsTold ==
  []<>(operator_mutex = NoThread) =>
    \A n \in 1 .. MaxCalls : IsRaised(n) ~> (IsTold(n) \/ ~alive)
=============================================================================
