-------------------------- MODULE SensorDirectory --------------------------
(***************************************************************************)
(* What the sensor manager of the C server promises its callers: a map     *)
(* from sensor ids to the type given at the FIRST registration and to the  *)
(* last reading, holding at most Capacity sensors.  Nothing is ever        *)
(* removed from it while the server runs.                                  *)
(***************************************************************************)
EXTENDS Naturals, FiniteSets

CONSTANTS
  Ids,        \* sensor ids
  Types,      \* sensor types
  Readings,   \* a value together with its unit
  None,       \* no reading yet; in answer, no call yet
  Capacity    \* number of sensors the directory can hold

VARIABLES
  directory,  \* a partial function from Ids to [type, reading]
  answer      \* the return of the last call: [op, id, ok]

vars == <<directory, answer>>

Reply(op, id, ok) == [op |-> op, id |-> id, ok |-> ok]

Init ==
  /\ directory = [id \in {} |-> [type |-> id, reading |-> None]]
  /\ answer = Reply("none", None, TRUE)

(* A known sensor keeps the type of its first registration. *)
Register(id, type) ==
  \/ /\ id \in DOMAIN directory
     /\ answer' = Reply("register", id, TRUE)
     /\ UNCHANGED directory
  \/ /\ id \notin DOMAIN directory
     /\ Cardinality(DOMAIN directory) < Capacity
     /\ directory' =
          [k \in DOMAIN directory \cup {id} |->
             IF k = id THEN [type |-> type, reading |-> None]
             ELSE directory[k]]
     /\ answer' = Reply("register", id, TRUE)
  \/ /\ id \notin DOMAIN directory
     /\ Cardinality(DOMAIN directory) >= Capacity
     /\ answer' = Reply("register", id, FALSE)
     /\ UNCHANGED directory

Measure(id, reading) ==
  \/ /\ id \in DOMAIN directory
     /\ directory' = [directory EXCEPT ![id].reading = reading]
     /\ answer' = Reply("measure", id, TRUE)
  \/ /\ id \notin DOMAIN directory
     /\ answer' = Reply("measure", id, FALSE)
     /\ UNCHANGED directory

Next ==
  \E id \in Ids :
    \/ \E type \in Types : Register(id, type)
    \/ \E reading \in Readings : Measure(id, reading)

Spec == Init /\ [][Next]_vars
=============================================================================
