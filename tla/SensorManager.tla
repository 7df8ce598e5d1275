--------------------------- MODULE SensorManager ---------------------------
(***************************************************************************)
(* server/src/sensor_manager.c: the table of sensors the C server keeps.   *)
(*                                                                         *)
(* The table is the array sensors[0 .. sensor_count-1], here a sequence    *)
(* whose length is sensor_count.  Each function of the file locks          *)
(* sensor_mutex on entry and unlocks it before it returns, and calls       *)
(* nothing that blocks in between, so a call is one action.                *)
(*                                                                         *)
(* An id is stored with strncpy into char id[32]: what is compared with    *)
(* later commands is the truncation Stored[id], not the id that was sent.  *)
(* Types are what the code tells apart, the first 15 characters of a type. *)
(* last_timestamp is written and never read; it is left out.               *)
(*                                                                         *)
(* Not part of the specification: TableFullOffByOne, MatchesMissingLast,   *)
(* RegisterFullAsOk, RegisterOverwritesType, MeasurementRegisters. They    *)
(* are faulty variants of the definitions that follow them; README.md says *)
(* which property each one violates.                                       *)
(***************************************************************************)
EXTENDS Naturals, Sequences

CONSTANTS
  Ids,          \* sensor ids as they appear in commands
  Types,        \* sensor types
  Readings,     \* the value and unit of a measurement
  None,         \* no reading yet (0.0 and ""); in answer, no call yet
  Stored,       \* Stored[id]: what the 31 characters kept of id spell
  MAX_SENSORS   \* size of the array (50 in sensor_manager.h)

ASSUME StoredAssumption ==
  /\ Stored \in [Ids -> Ids]
  /\ \A id \in Ids : Stored[Stored[id]] = Stored[id]
ASSUME CapacityAssumption == MAX_SENSORS \in Nat \ {0}
ASSUME NoneAssumption == None \notin Readings \cup Ids

VARIABLES
  sensors,      \* the table
  answer,       \* the call that returned last, and whether it returned 0
  acknowledged  \* history: ids whose registration has returned 0

vars == <<sensors, answer, acknowledged>>

Sensor == [id : Ids, type : Types, reading : Readings \cup {None},
           is_active : BOOLEAN]

-----------------------------------------------------------------------------
Answer(op, id, ok) == [op |-> op, id |-> id, ok |-> ok]

MatchesMissingLast(id) == {i \in 1 .. Len(sensors) - 1 : sensors[i].id = id}

(* The slots whose stored id equals the id of a command (strcmp). *)
Matches(id) == {i \in 1 .. Len(sensors) : sensors[i].id = id}

(* The loops stop at the first match. *)
SlotOf(id) == CHOOSE i \in Matches(id) : \A j \in Matches(id) : i <= j

TableFullOffByOne == Len(sensors) > MAX_SENSORS

TableFull == Len(sensors) >= MAX_SENSORS

NewSensor(id, type) ==
  [id |-> Stored[id], type |-> type, reading |-> None, is_active |-> TRUE]

sensor_manager_init ==
  /\ sensors = <<>>
  /\ answer = Answer("none", None, TRUE)
  /\ acknowledged = {}

RegisterOverwritesType(id, type) ==
  \/ /\ Matches(id) # {}
     /\ sensors' = [sensors EXCEPT ![SlotOf(id)].type = type]
     /\ answer' = Answer("register", id, TRUE)
     /\ acknowledged' = acknowledged \cup {id}
  \/ /\ Matches(id) = {} /\ ~TableFull
     /\ sensors' = Append(sensors, NewSensor(id, type))
     /\ answer' = Answer("register", id, TRUE)
     /\ acknowledged' = acknowledged \cup {id}

RegisterFullAsOk(id, type) ==
  /\ sensors' = IF Matches(id) # {} \/ TableFull THEN sensors
                ELSE Append(sensors, NewSensor(id, type))
  /\ answer' = Answer("register", id, TRUE)
  /\ acknowledged' = acknowledged \cup {id}

sensor_manager_register(id, type) ==
  \/ /\ Matches(id) # {}
     /\ sensors' = [sensors EXCEPT ![SlotOf(id)].is_active = TRUE]
     /\ answer' = Answer("register", id, TRUE)
     /\ acknowledged' = acknowledged \cup {id}
  \/ /\ Matches(id) = {} /\ ~TableFull
     /\ sensors' = Append(sensors, NewSensor(id, type))
     /\ answer' = Answer("register", id, TRUE)
     /\ acknowledged' = acknowledged \cup {id}
  \/ /\ Matches(id) = {} /\ TableFull
     /\ answer' = Answer("register", id, FALSE)
     /\ UNCHANGED <<sensors, acknowledged>>

(* A measurement of an unknown sensor accepted by registering it. *)
MeasurementRegisters(id, reading) ==
  \/ /\ Matches(id) # {}
     /\ sensors' = [sensors EXCEPT ![SlotOf(id)].reading = reading]
     /\ answer' = Answer("measure", id, TRUE)
     /\ UNCHANGED acknowledged
  \/ /\ Matches(id) = {} /\ ~TableFull
     /\ \E type \in Types :
          sensors' = Append(sensors, [NewSensor(id, type) EXCEPT !.reading = reading])
     /\ answer' = Answer("measure", id, TRUE)
     /\ UNCHANGED acknowledged

sensor_manager_add_measurement(id, reading) ==
  \/ /\ Matches(id) # {}
     /\ sensors' = [sensors EXCEPT ![SlotOf(id)].reading = reading,
                                   ![SlotOf(id)].is_active = TRUE]
     /\ answer' = Answer("measure", id, TRUE)
     /\ UNCHANGED acknowledged
  \/ /\ Matches(id) = {}
     /\ answer' = Answer("measure", id, FALSE)
     /\ UNCHANGED <<sensors, acknowledged>>

Next ==
  \E id \in Ids :
    \/ \E type \in Types : sensor_manager_register(id, type)
    \/ \E reading \in Readings : sensor_manager_add_measurement(id, reading)

Spec == sensor_manager_init /\ [][Next]_vars

-----------------------------------------------------------------------------
(* Type invariant; the table never outgrows the array. *)
TypeOK ==
  /\ sensors \in Seq(Sensor)
  /\ Len(sensors) <= MAX_SENSORS
  /\ answer \in [op : {"none", "register", "measure"},
                 id : Ids \cup {None}, ok : BOOLEAN]
  /\ acknowledged \subseteq Ids

(***************************************************************************)
(* No two slots hold the same sensor, however often sensors re-register    *)
(* after a reconnection.  Holds when every id fits its slot (ShortIds).    *)
(***************************************************************************)
UniqueIds ==
  \A i, j \in 1 .. Len(sensors) : sensors[i].id = sensors[j].id => i = j

(***************************************************************************)
(* A slot, once published, keeps its id and its type for ever.  This is    *)
(* what makes it safe for sensor_manager_get_sensor_type to return a       *)
(* pointer into the table that the caller reads after the unlock.          *)
(***************************************************************************)
SlotsAreFrozen ==
  [][/\ Len(sensors) <= Len(sensors')
     /\ \A i \in 1 .. Len(sensors) :
          /\ sensors'[i].id = sensors[i].id
          /\ sensors'[i].type = sensors[i].type]_vars

(***************************************************************************)
(* A sensor whose registration was answered OK is known: its measurements  *)
(* are not answered "Sensor not registered".                               *)
(***************************************************************************)
AcknowledgedIsKnown == \A id \in acknowledged : Matches(id) # {}

(* Every id fits char id[32] with its terminating zero. *)
ShortIds == \A id \in Ids : Stored[id] = id

-----------------------------------------------------------------------------
(* With short ids, the table implements the map of module SensorDirectory. *)
DirectoryOf(table) ==
  [id \in {table[k].id : k \in 1 .. Len(table)} |->
     LET slot == CHOOSE k \in 1 .. Len(table) : table[k].id = id
     IN  [type |-> table[slot].type, reading |-> table[slot].reading]]

TableAsDirectory == DirectoryOf(sensors)

Directory == INSTANCE SensorDirectory
  WITH directory <- TableAsDirectory, Capacity <- MAX_SENSORS

(* Every call has the effect and the answer of a call on the map. *)
ImplementsDirectory == Directory!Spec
=============================================================================
