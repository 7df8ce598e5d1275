------------------------ MODULE SensorManagerProofs ------------------------
(***************************************************************************)
(* Proofs about SensorManager, for every set of ids, types and readings    *)
(* and every table size.                                                   *)
(***************************************************************************)
EXTENDS SensorManager, SequenceTheorems, FiniteSetTheorems, FunctionTheorems, TLAPS

(* A new slot holds a sensor. *)
LEMMA NewSensorType ==
  ASSUME NEW id \in Ids, NEW type \in Types
  PROVE  NewSensor(id, type) \in Sensor
BY StoredAssumption DEF NewSensor, Sensor

(* The return of a call. *)
LEMMA AnswerType ==
  ASSUME NEW op \in {"register", "measure"}, NEW id \in Ids, NEW ok \in BOOLEAN
  PROVE  Answer(op, id, ok) \in [op : {"none", "register", "measure"},
                                 id : Ids \cup {None}, ok : BOOLEAN]
BY DEF Answer

(* The order on Nat, as the well-foundedness theorem names it. *)
LEMMA LessThanOnNat == OpToRel(<, Nat) = {ss \in Nat \X Nat : ss[1] < ss[2]}
BY Zenon DEF OpToRel

(* A set of naturals that is not empty has a least element. *)
LEMMA LeastElement ==
  ASSUME NEW T \in SUBSET Nat, T # {}
  PROVE  \E x \in T : \A y \in T : x <= y
<1> DEFINE R == {ss \in Nat \X Nat : ss[1] < ss[2]}
<1>1. IsWellFoundedOn(R, Nat)
  BY LessThanOnNat, NatLessThanWellFounded
<1>2. PICK x \in T : \A y \in T : ~(<<y, x>> \in R)
  <2> HIDE DEF R
  <2>. QED
    BY <1>1, WFMin
<1>3. ASSUME NEW y \in T PROVE x <= y
  <2>1. x \in Nat /\ y \in Nat
    OBVIOUS
  <2>2. ~(y < x)
    BY <1>2, <2>1
  <2>. QED
    BY <2>1, <2>2
<1>. QED
  BY <1>3

(* The first match exists whenever there is a match. *)
LEMMA SlotOfMatches ==
  ASSUME NEW id, Matches(id) # {}, sensors \in Seq(Sensor)
  PROVE  SlotOf(id) \in Matches(id) /\ \A j \in Matches(id) : SlotOf(id) <= j
<1>1. Matches(id) \in SUBSET Nat
  BY DEF Matches
<1>2. \E x \in Matches(id) : \A y \in Matches(id) : x <= y
  BY <1>1, LeastElement
<1>. QED
  BY <1>2 DEF SlotOf

(* A registration of a known sensor changes no slot but one, and of it     *)
(* neither id, type nor reading.                                           *)
LEMMA RegisterElements ==
  ASSUME sensors \in Seq(Sensor), NEW j \in 1 .. Len(sensors),
         sensors' = [sensors EXCEPT ![j].is_active = TRUE]
  PROVE  /\ sensors' \in Seq(Sensor)
         /\ Len(sensors') = Len(sensors)
         /\ \A k \in 1 .. Len(sensors) : /\ sensors'[k].id = sensors[k].id
                                         /\ sensors'[k].type = sensors[k].type
                                         /\ sensors'[k].reading = sensors[k].reading
<1> DEFINE e == [sensors[j] EXCEPT !.is_active = TRUE]
<1>1. sensors[j] \in Sensor
  BY ElementOfSeq
<1>2. /\ e \in Sensor
      /\ e.id = sensors[j].id /\ e.type = sensors[j].type /\ e.reading = sensors[j].reading
  BY <1>1 DEF Sensor
<1>3. sensors' = [sensors EXCEPT ![j] = e]
  OBVIOUS
<1>4. /\ [sensors EXCEPT ![j] = e] \in Seq(Sensor)
      /\ Len([sensors EXCEPT ![j] = e]) = Len(sensors)
      /\ \A k \in 1 .. Len(sensors) :
           [sensors EXCEPT ![j] = e][k] = IF k = j THEN e ELSE sensors[k]
  BY <1>2, ExceptSeq
<1> HIDE DEF e
<1>. QED
  BY <1>2, <1>3, <1>4

(* A measurement changes no slot but one, and of it neither id nor type. *)
LEMMA MeasureElements ==
  ASSUME sensors \in Seq(Sensor), NEW j \in 1 .. Len(sensors), NEW r \in Readings,
         sensors' = [sensors EXCEPT ![j].reading = r, ![j].is_active = TRUE]
  PROVE  /\ sensors' \in Seq(Sensor)
         /\ Len(sensors') = Len(sensors)
         /\ sensors'[j].reading = r
         /\ \A k \in 1 .. Len(sensors) :
              /\ sensors'[k].id = sensors[k].id
              /\ sensors'[k].type = sensors[k].type
              /\ k # j => sensors'[k].reading = sensors[k].reading
<1> DEFINE e == [sensors[j] EXCEPT !.reading = r, !.is_active = TRUE]
<1>1. sensors[j] \in Sensor
  BY ElementOfSeq
<1>2. /\ e \in Sensor
      /\ e.id = sensors[j].id /\ e.type = sensors[j].type /\ e.reading = r
  BY <1>1 DEF Sensor
<1>3. sensors' = [sensors EXCEPT ![j] = e]
  BY LenProperties
<1>4. /\ [sensors EXCEPT ![j] = e] \in Seq(Sensor)
      /\ Len([sensors EXCEPT ![j] = e]) = Len(sensors)
      /\ \A k \in 1 .. Len(sensors) :
           [sensors EXCEPT ![j] = e][k] = IF k = j THEN e ELSE sensors[k]
  BY <1>2, ExceptSeq
<1> HIDE DEF e
<1>. QED
  BY <1>2, <1>3, <1>4

-----------------------------------------------------------------------------
(***************************************************************************)
(* Type correctness: the table is a sequence of at most MAX_SENSORS        *)
(* sensors, whatever calls sensor_manager.c receives.                      *)
(***************************************************************************)
THEOREM TypeCorrect == Spec => []TypeOK
<1>1. sensor_manager_init => TypeOK
  BY CapacityAssumption DEF sensor_manager_init, TypeOK, Answer
<1>2. ASSUME TypeOK, [Next]_vars PROVE TypeOK'
  <2>1. ASSUME NEW id \in Ids, NEW type \in Types, sensor_manager_register(id, type)
        PROVE  TypeOK'
    <3>1. CASE Matches(id) # {}
      <4>1. SlotOf(id) \in 1 .. Len(sensors)
        BY <1>2, <3>1, SlotOfMatches DEF Matches, TypeOK
      <4>2. sensors' \in Seq(Sensor) /\ Len(sensors') = Len(sensors)
        BY <1>2, <2>1, <3>1, <4>1, RegisterElements DEF sensor_manager_register, TypeOK
      <4>3. answer' = Answer("register", id, TRUE) /\ acknowledged' = acknowledged \cup {id}
        BY <2>1, <3>1 DEF sensor_manager_register
      <4>4. acknowledged' \subseteq Ids
        BY <1>2, <4>3 DEF TypeOK
      <4>. QED
        BY <1>2, <4>2, <4>3, <4>4, AnswerType DEF TypeOK
    <3>2. CASE Matches(id) = {} /\ ~TableFull
      <4>1. /\ sensors' = Append(sensors, NewSensor(id, type))
            /\ answer' = Answer("register", id, TRUE)
            /\ acknowledged' = acknowledged \cup {id}
        BY <2>1, <3>2 DEF sensor_manager_register
      <4>2. sensors' \in Seq(Sensor) /\ Len(sensors') = Len(sensors) + 1
        BY <1>2, <4>1, NewSensorType, AppendProperties DEF TypeOK
      <4>3. Len(sensors') <= MAX_SENSORS
        BY <1>2, <3>2, <4>2, CapacityAssumption, LenProperties DEF TableFull, TypeOK
      <4>4. acknowledged' \subseteq Ids
        BY <1>2, <4>1 DEF TypeOK
      <4>. QED
        BY <4>1, <4>2, <4>3, <4>4, AnswerType DEF TypeOK
    <3>3. CASE Matches(id) = {} /\ TableFull
      BY <1>2, <2>1, <3>3, AnswerType, ZenonT(60) DEF sensor_manager_register, TypeOK
    <3>. QED
      BY <3>1, <3>2, <3>3
  <2>2. ASSUME NEW id \in Ids, NEW reading \in Readings,
               sensor_manager_add_measurement(id, reading)
        PROVE  TypeOK'
    <3>1. CASE Matches(id) # {}
      <4>1. SlotOf(id) \in 1 .. Len(sensors)
        BY <1>2, <3>1, SlotOfMatches DEF Matches, TypeOK
      <4>2. sensors' \in Seq(Sensor) /\ Len(sensors') = Len(sensors)
        BY <1>2, <2>2, <3>1, <4>1, MeasureElements
        DEF sensor_manager_add_measurement, TypeOK
      <4>. QED
        BY <1>2, <2>2, <3>1, <4>2, AnswerType, ZenonT(60)
        DEF sensor_manager_add_measurement, TypeOK
    <3>2. CASE Matches(id) = {}
      BY <1>2, <2>2, <3>2, AnswerType DEF sensor_manager_add_measurement, TypeOK
    <3>. QED
      BY <3>1, <3>2
  <2>3. CASE UNCHANGED vars
    BY <1>2, <2>3 DEF TypeOK, vars
  <2>. QED
    BY <1>2, <2>1, <2>2, <2>3 DEF Next
<1>. QED
  BY <1>1, <1>2, PTL DEF Spec

-----------------------------------------------------------------------------
(* What every step leaves of the slots it finds. *)
SlotsKept ==
  /\ sensors \in Seq(Sensor) /\ sensors' \in Seq(Sensor)
  /\ Len(sensors) <= Len(sensors')
  /\ \A k \in 1 .. Len(sensors) :
       sensors'[k].id = sensors[k].id /\ sensors'[k].type = sensors[k].type

(* A registration appends, and only marks existing slots. *)
LEMMA RegisterKeepsSlots ==
  ASSUME TypeOK, NEW id \in Ids, NEW type \in Types, sensor_manager_register(id, type)
  PROVE  SlotsKept
<1>1. CASE Matches(id) # {}
  <2>1. SlotOf(id) \in 1 .. Len(sensors)
    BY <1>1, SlotOfMatches DEF Matches, TypeOK
  <2>2. sensors' = [sensors EXCEPT ![SlotOf(id)].is_active = TRUE]
    BY <1>1 DEF sensor_manager_register
  <2>3. sensors \in Seq(Sensor) /\ Len(sensors) \in Nat
    BY LenProperties DEF TypeOK
  <2>4. /\ sensors' \in Seq(Sensor) /\ Len(sensors') = Len(sensors)
        /\ \A k \in 1 .. Len(sensors) :
             sensors'[k].id = sensors[k].id /\ sensors'[k].type = sensors[k].type
    BY <2>1, <2>2, <2>3, RegisterElements
  <2>. QED
    BY <2>3, <2>4 DEF SlotsKept
<1>2. CASE Matches(id) = {} /\ ~TableFull
  <2>1. sensors' = Append(sensors, NewSensor(id, type))
    BY <1>2 DEF sensor_manager_register
  <2>. QED
    BY <2>1, NewSensorType, AppendProperties, LenProperties DEF SlotsKept, TypeOK
<1>3. CASE Matches(id) = {} /\ TableFull
  BY <1>3, LenProperties DEF sensor_manager_register, SlotsKept, TypeOK
<1>. QED
  BY <1>1, <1>2, <1>3

(* A measurement changes a reading, never an id or a type. *)
LEMMA MeasureKeepsSlots ==
  ASSUME TypeOK, NEW id \in Ids, NEW reading \in Readings,
         sensor_manager_add_measurement(id, reading)
  PROVE  SlotsKept /\ Len(sensors') = Len(sensors)
<1>1. CASE Matches(id) # {}
  <2>1. SlotOf(id) \in 1 .. Len(sensors)
    BY <1>1, SlotOfMatches DEF Matches, TypeOK
  <2>2. sensors' = [sensors EXCEPT ![SlotOf(id)].reading = reading,
                                   ![SlotOf(id)].is_active = TRUE]
    BY <1>1 DEF sensor_manager_add_measurement
  <2>3. sensors \in Seq(Sensor) /\ Len(sensors) \in Nat
    BY LenProperties DEF TypeOK
  <2>4. /\ sensors' \in Seq(Sensor) /\ Len(sensors') = Len(sensors)
        /\ \A k \in 1 .. Len(sensors) :
             sensors'[k].id = sensors[k].id /\ sensors'[k].type = sensors[k].type
    BY <2>1, <2>2, <2>3, MeasureElements
  <2>. QED
    BY <2>3, <2>4 DEF SlotsKept
<1>2. CASE Matches(id) = {}
  BY <1>2, LenProperties DEF sensor_manager_add_measurement, SlotsKept, TypeOK
<1>. QED
  BY <1>1, <1>2

(***************************************************************************)
(* A published slot keeps its id and its type for ever, so the pointer     *)
(* that sensor_manager_get_sensor_type returns stays good.                 *)
(***************************************************************************)
THEOREM SlotsFrozen == Spec => SlotsAreFrozen
<1>1. ASSUME TypeOK, [Next]_vars
      PROVE  [/\ Len(sensors) <= Len(sensors')
              /\ \A i \in 1 .. Len(sensors) :
                   /\ sensors'[i].id = sensors[i].id
                   /\ sensors'[i].type = sensors[i].type]_vars
  <2>1. CASE Next
    BY <1>1, <2>1, RegisterKeepsSlots, MeasureKeepsSlots DEF Next, SlotsKept
  <2>. QED
    BY <1>1, <2>1
<1>. QED
  BY <1>1, TypeCorrect, PTL DEF Spec, SlotsAreFrozen

-----------------------------------------------------------------------------
(***************************************************************************)
(* With ids that fit their slot, no sensor has two slots, and a sensor     *)
(* whose registration was acknowledged is known.                           *)
(***************************************************************************)
Identity == UniqueIds /\ AcknowledgedIsKnown

(* Slots stay unique and acknowledged ids stay known. *)
LEMMA IdentityInductive ==
  ASSUME ShortIds, TypeOK, Identity, [Next]_vars
  PROVE  Identity'
<1>1. ASSUME NEW id \in Ids, NEW type \in Types, sensor_manager_register(id, type)
      PROVE  Identity'
  <2>1. SlotsKept
    BY <1>1, RegisterKeepsSlots
  <2>2. CASE Matches(id) # {}
    <3>1. SlotOf(id) \in 1 .. Len(sensors)
      BY <2>2, SlotOfMatches DEF Matches, TypeOK
    <3>2. Len(sensors') = Len(sensors)
      BY <1>1, <2>2, <3>1, RegisterElements DEF sensor_manager_register, TypeOK
    <3>3. acknowledged' = acknowledged \cup {id}
      BY <1>1, <2>2 DEF sensor_manager_register
    <3>4. UniqueIds'
      BY <2>1, <3>2 DEF SlotsKept, Identity, UniqueIds
    <3>5. AcknowledgedIsKnown'
      BY <2>1, <2>2, <3>2, <3>3 DEF SlotsKept, Identity, AcknowledgedIsKnown, Matches
    <3>. QED
      BY <3>4, <3>5 DEF Identity
  <2>3. CASE Matches(id) = {} /\ ~TableFull
    <3>1. /\ sensors' = Append(sensors, NewSensor(id, type))
          /\ acknowledged' = acknowledged \cup {id}
      BY <1>1, <2>3 DEF sensor_manager_register
    <3>2. /\ Len(sensors') = Len(sensors) + 1 /\ Len(sensors) \in Nat
          /\ sensors'[Len(sensors) + 1].id = id
      BY <3>1, NewSensorType, AppendProperties, LenProperties
      DEF TypeOK, NewSensor, ShortIds
    <3>3. \A k \in 1 .. Len(sensors) : sensors'[k].id # id
      BY <2>1, <2>3 DEF SlotsKept, Matches
    <3>4. UniqueIds'
      BY <2>1, <3>2, <3>3 DEF SlotsKept, Identity, UniqueIds
    <3>5. AcknowledgedIsKnown'
      BY <2>1, <3>1, <3>2 DEF SlotsKept, Identity, AcknowledgedIsKnown, Matches
    <3>. QED
      BY <3>4, <3>5 DEF Identity
  <2>4. CASE Matches(id) = {} /\ TableFull
    BY <1>1, <2>4
    DEF sensor_manager_register, Identity, UniqueIds, AcknowledgedIsKnown, Matches
  <2>. QED
    BY <2>2, <2>3, <2>4
<1>2. ASSUME NEW id \in Ids, NEW reading \in Readings,
             sensor_manager_add_measurement(id, reading)
      PROVE  Identity'
  <2>1. SlotsKept /\ Len(sensors') = Len(sensors)
    BY <1>2, MeasureKeepsSlots
  <2>2. acknowledged' = acknowledged
    BY <1>2 DEF sensor_manager_add_measurement
  <2>3. UniqueIds'
    BY <2>1 DEF SlotsKept, Identity, UniqueIds
  <2>4. AcknowledgedIsKnown'
    BY <2>1, <2>2 DEF SlotsKept, Identity, AcknowledgedIsKnown, Matches
  <2>. QED
    BY <2>3, <2>4 DEF Identity
<1>3. CASE UNCHANGED vars
  BY <1>3 DEF vars, Identity, UniqueIds, AcknowledgedIsKnown, Matches
<1>. QED
  BY <1>1, <1>2, <1>3 DEF Next

(* The empty table has no slot and nobody has been acknowledged. *)
LEMMA IdentityInitial ==
  ASSUME sensor_manager_init
  PROVE  Identity
BY DEF sensor_manager_init, Identity, UniqueIds, AcknowledgedIsKnown

(* No two slots for one sensor, however often it reconnects. *)
THEOREM IdsUnique ==
  ASSUME ShortIds
  PROVE  Spec => []UniqueIds
<1>1. Identity => UniqueIds
  BY DEF Identity
<1>2. TypeOK /\ Identity /\ [Next]_vars => Identity'
  BY IdentityInductive
<1>. QED
  BY <1>1, <1>2, IdentityInitial, TypeCorrect, PTL DEF Spec

(* A registered sensor's measurements are never answered "not registered". *)
THEOREM AcknowledgedKnown ==
  ASSUME ShortIds
  PROVE  Spec => []AcknowledgedIsKnown
<1>1. Identity => AcknowledgedIsKnown
  BY DEF Identity
<1>2. TypeOK /\ Identity /\ [Next]_vars => Identity'
  BY IdentityInductive
<1>. QED
  BY <1>1, <1>2, IdentityInitial, TypeCorrect, PTL DEF Spec

-----------------------------------------------------------------------------
(* The table as a map, when no id occurs twice in it. *)
Unique(table) ==
  \A k, l \in 1 .. Len(table) : table[k].id = table[l].id => k = l

(* With unique ids, the map at an id is what its slot holds. *)
LEMMA DirectoryAt ==
  ASSUME NEW table \in Seq(Sensor), Unique(table)
  PROVE  /\ DOMAIN DirectoryOf(table) = {table[k].id : k \in 1 .. Len(table)}
         /\ \A k \in 1 .. Len(table) :
              DirectoryOf(table)[table[k].id] =
                [type |-> table[k].type, reading |-> table[k].reading]
<1>1. ASSUME NEW k \in 1 .. Len(table)
      PROVE  (CHOOSE l \in 1 .. Len(table) : table[l].id = table[k].id) = k
  BY <1>1 DEF Unique
<1>. QED
  BY <1>1 DEF DirectoryOf

(* A function with this domain and these values is the table's map. *)
LEMMA DirectoryIs ==
  ASSUME NEW table \in Seq(Sensor), Unique(table), NEW f,
         f = [id \in DOMAIN f |-> f[id]],
         DOMAIN f = {table[k].id : k \in 1 .. Len(table)},
         \A k \in 1 .. Len(table) :
           f[table[k].id] = [type |-> table[k].type, reading |-> table[k].reading]
  PROVE  DirectoryOf(table) = f
<1>1. ASSUME NEW id \in DOMAIN f PROVE DirectoryOf(table)[id] = f[id]
  <2>1. PICK k \in 1 .. Len(table) : table[k].id = id
    BY <1>1
  <2>2. f[table[k].id] = [type |-> table[k].type, reading |-> table[k].reading]
    OBVIOUS
  <2>3. DirectoryOf(table)[table[k].id] =
          [type |-> table[k].type, reading |-> table[k].reading]
    BY DirectoryAt
  <2>. QED
    BY <2>1, <2>2, <2>3
<1>2. DOMAIN DirectoryOf(table) = DOMAIN f
  BY DirectoryAt
<1>3. DirectoryOf(table) = [id \in DOMAIN DirectoryOf(table) |-> DirectoryOf(table)[id]]
  BY DEF DirectoryOf
<1>. QED
  BY <1>1, <1>2, <1>3

(* It holds as many sensors as the table has slots. *)
LEMMA DirectorySize ==
  ASSUME NEW table \in Seq(Sensor), Unique(table)
  PROVE  Cardinality(DOMAIN DirectoryOf(table)) = Len(table)
<1> DEFINE N == 1 .. Len(table)
           D == {table[k].id : k \in N}
           b == [k \in N |-> table[k].id]
<1>1. Len(table) \in Nat
  BY LenProperties
<1>2. b \in Bijection(N, D)
  BY Fun_IsBij DEF Unique, Injection, IsInjective, Surjection
<1>3. ExistsBijection(N, D)
  BY <1>2 DEF ExistsBijection
<1>4. Cardinality(D) = Len(table)
  BY <1>1, <1>3, FS_CountingElements
<1>. QED
  BY <1>4, DirectoryAt

-----------------------------------------------------------------------------
(* SensorDirectory counts with its own copy of FiniteSets. *)
LEMMA SameCardinality ==
  ASSUME NEW S
  PROVE  Directory!Cardinality(S) = Cardinality(S)
BY Zenon DEF Cardinality, Directory!Cardinality

(* The empty table is the empty map. *)
LEMMA InitRefines ==
  ASSUME sensor_manager_init
  PROVE  Directory!Init
<1> DEFINE f == [id \in {} |-> [type |-> id, reading |-> None]]
<1>1. sensors \in Seq(Sensor) /\ Len(sensors) = 0 /\ Unique(sensors)
  BY DEF sensor_manager_init, Unique
<1>2. DOMAIN f = {sensors[k].id : k \in 1 .. Len(sensors)}
  BY <1>1
<1>3. DirectoryOf(sensors) = f
  BY <1>1, <1>2, DirectoryIs
<1>. QED
  BY <1>3 DEF Directory!Init, Directory!Reply, TableAsDirectory, sensor_manager_init, Answer

(* A repeated registration leaves the map alone. *)
LEMMA KnownRegisterRefines ==
  ASSUME TypeOK, UniqueIds, UniqueIds', NEW id \in Ids, NEW type \in Types,
         sensor_manager_register(id, type), Matches(id) # {}
  PROVE  Directory!Register(id, type)
<1>1. PICK j \in 1 .. Len(sensors) : j = SlotOf(id) /\ sensors[j].id = id
  BY SlotOfMatches DEF Matches, TypeOK
<1>2. sensors' = [sensors EXCEPT ![j].is_active = TRUE]
  BY <1>1 DEF sensor_manager_register
<1>3. /\ sensors \in Seq(Sensor) /\ sensors' \in Seq(Sensor)
      /\ Len(sensors') = Len(sensors)
      /\ \A k \in 1 .. Len(sensors) : /\ sensors'[k].id = sensors[k].id
                                      /\ sensors'[k].type = sensors[k].type
                                      /\ sensors'[k].reading = sensors[k].reading
  BY <1>2, RegisterElements DEF TypeOK
<1>4. Unique(sensors) /\ Unique(sensors')
  BY DEF Unique, UniqueIds
<1> DEFINE f == DirectoryOf(sensors)
<1>5. /\ f = [x \in DOMAIN f |-> f[x]]
      /\ DOMAIN f = {sensors[k].id : k \in 1 .. Len(sensors)}
      /\ \A k \in 1 .. Len(sensors) :
           f[sensors[k].id] = [type |-> sensors[k].type, reading |-> sensors[k].reading]
  BY <1>3, <1>4, DirectoryAt DEF DirectoryOf
<1> HIDE DEF f
<1>6. DOMAIN f = {sensors'[k].id : k \in 1 .. Len(sensors')}
  BY <1>3, <1>5, SMTT(30)
<1>7. ASSUME NEW k \in 1 .. Len(sensors')
      PROVE  f[sensors'[k].id] =
               [type |-> sensors'[k].type, reading |-> sensors'[k].reading]
  BY <1>3, <1>5, <1>7
<1>8. DirectoryOf(sensors') = f
  BY <1>3, <1>4, <1>5, <1>6, <1>7, DirectoryIs, SMTT(30)
<1>9. TableAsDirectory' = TableAsDirectory
  BY <1>8 DEF TableAsDirectory, f
<1>10. id \in DOMAIN TableAsDirectory
  BY <1>1, <1>5 DEF TableAsDirectory, f
<1>11. answer' = Directory!Reply("register", id, TRUE)
  BY DEF sensor_manager_register, Answer, Directory!Reply
<1>. QED
  BY <1>9, <1>10, <1>11 DEF Directory!Register

(* A new slot is a new entry of the map. *)
LEMMA NewRegisterRefines ==
  ASSUME TypeOK, UniqueIds, UniqueIds', ShortIds, NEW id \in Ids, NEW type \in Types,
         sensor_manager_register(id, type), Matches(id) = {}, ~TableFull
  PROVE  Directory!Register(id, type)
<1> DEFINE n == Len(sensors)
           s == NewSensor(id, type)
           f == DirectoryOf(sensors)
           g == [k \in DOMAIN f \cup {id} |->
                   IF k = id THEN [type |-> type, reading |-> None] ELSE f[k]]
<1>1. /\ sensors' = Append(sensors, s)
      /\ answer' = Directory!Reply("register", id, TRUE)
  BY DEF sensor_manager_register, Answer, Directory!Reply
<1>2. /\ sensors \in Seq(Sensor) /\ n \in Nat /\ sensors' \in Seq(Sensor)
      /\ Len(sensors') = n + 1 /\ sensors'[n + 1] = s
      /\ \A k \in 1 .. n : sensors'[k] = sensors[k]
  BY <1>1, NewSensorType, AppendProperties, LenProperties DEF TypeOK
<1>3. s.id = id /\ s.type = type /\ s.reading = None
  BY DEF NewSensor, ShortIds
<1>4. Unique(sensors) /\ Unique(sensors')
  BY DEF Unique, UniqueIds
<1>5. /\ DOMAIN f = {sensors[k].id : k \in 1 .. n}
      /\ \A k \in 1 .. n :
           f[sensors[k].id] = [type |-> sensors[k].type, reading |-> sensors[k].reading]
  BY <1>2, <1>4, DirectoryAt
<1>6. \A k \in 1 .. n : sensors[k].id # id
  BY DEF Matches
<1>7. Cardinality(DOMAIN f) = n
  BY <1>2, <1>4, DirectorySize
<1>8. n < MAX_SENSORS
  BY <1>2, CapacityAssumption DEF TableFull
<1> HIDE DEF f, n, s
<1>9. DOMAIN g = {sensors'[k].id : k \in 1 .. Len(sensors')}
  <2>1. \A k \in 1 .. n + 1 : k \in 1 .. n \/ k = n + 1
    BY <1>2
  <2>2. \A k \in 1 .. n : k \in 1 .. n + 1
    BY <1>2
  <2>3. n + 1 \in 1 .. n + 1
    BY <1>2
  <2>4. DOMAIN g = DOMAIN f \cup {id}
    OBVIOUS
  <2>5. {sensors'[k].id : k \in 1 .. n + 1} = {sensors[k].id : k \in 1 .. n} \cup {id}
    BY <1>2, <1>3, <2>1, <2>2, <2>3
  <2>. QED
    BY <1>2, <1>5, <2>4, <2>5
<1>10. ASSUME NEW k \in 1 .. Len(sensors')
       PROVE  g[sensors'[k].id] =
                [type |-> sensors'[k].type, reading |-> sensors'[k].reading]
  <2>1. CASE k = n + 1
    BY <1>2, <1>3, <2>1
  <2>2. CASE k \in 1 .. n
    <3>1. sensors'[k] = sensors[k] /\ sensors[k].id # id /\ sensors[k].id \in DOMAIN f
      BY <1>2, <1>5, <1>6, <2>2
    <3>2. g[sensors[k].id] = f[sensors[k].id]
      BY <3>1
    <3>3. f[sensors[k].id] = [type |-> sensors[k].type, reading |-> sensors[k].reading]
      BY <1>5, <2>2
    <3>. QED
      BY <3>1, <3>2, <3>3
  <2>. QED
    BY <1>2, <2>1, <2>2
<1>11. g = [k \in DOMAIN g |-> g[k]]
  OBVIOUS
<1> HIDE DEF g
<1>12. DirectoryOf(sensors') = g
  BY <1>2, <1>4, <1>9, <1>10, <1>11, DirectoryIs
<1>13. TableAsDirectory = f /\ TableAsDirectory' = g
  BY <1>12 DEF TableAsDirectory, f
<1>14. id \notin DOMAIN f
  BY <1>5, <1>6
<1>15. Cardinality(DOMAIN TableAsDirectory) < MAX_SENSORS /\ id \notin DOMAIN TableAsDirectory
  BY <1>7, <1>8, <1>13, <1>14
<1>16. TableAsDirectory' =
         [k \in DOMAIN TableAsDirectory \cup {id} |->
            IF k = id THEN [type |-> type, reading |-> None] ELSE TableAsDirectory[k]]
  BY <1>13 DEF g
<1>. QED
  BY <1>1, <1>15, <1>16, SameCardinality, Zenon DEF Directory!Register

(* A full table is a full map. *)
LEMMA FullRegisterRefines ==
  ASSUME TypeOK, UniqueIds, NEW id \in Ids, NEW type \in Types,
         sensor_manager_register(id, type), Matches(id) = {}, TableFull
  PROVE  Directory!Register(id, type)
<1>1. /\ sensors' = sensors
      /\ answer' = Directory!Reply("register", id, FALSE)
  BY DEF sensor_manager_register, Answer, Directory!Reply
<1>2. sensors \in Seq(Sensor) /\ Unique(sensors)
  BY DEF TypeOK, Unique, UniqueIds
<1>3. /\ DOMAIN TableAsDirectory = {sensors[k].id : k \in 1 .. Len(sensors)}
      /\ Cardinality(DOMAIN TableAsDirectory) = Len(sensors)
  BY <1>2, DirectoryAt, DirectorySize DEF TableAsDirectory
<1>4. id \notin DOMAIN TableAsDirectory
  BY <1>3 DEF Matches
<1>5. TableAsDirectory' = TableAsDirectory
  BY <1>1 DEF TableAsDirectory
<1>6. Cardinality(DOMAIN TableAsDirectory) >= MAX_SENSORS
  BY <1>3 DEF TableFull
<1>. QED
  BY <1>1, <1>4, <1>5, <1>6, SameCardinality, Zenon DEF Directory!Register

(* A measurement of a known sensor updates its entry. *)
LEMMA KnownMeasureRefines ==
  ASSUME TypeOK, UniqueIds, UniqueIds', NEW id \in Ids, NEW reading \in Readings,
         sensor_manager_add_measurement(id, reading), Matches(id) # {}
  PROVE  Directory!Measure(id, reading)
<1> DEFINE f == DirectoryOf(sensors)
           g == [f EXCEPT ![id].reading = reading]
<1>1. PICK j \in 1 .. Len(sensors) : j = SlotOf(id) /\ sensors[j].id = id
  BY SlotOfMatches DEF Matches, TypeOK
<1>2. /\ sensors' = [sensors EXCEPT ![j].reading = reading, ![j].is_active = TRUE]
      /\ answer' = Directory!Reply("measure", id, TRUE)
  BY <1>1 DEF sensor_manager_add_measurement, Answer, Directory!Reply
<1>3. /\ sensors \in Seq(Sensor) /\ sensors' \in Seq(Sensor)
      /\ Len(sensors') = Len(sensors)
      /\ sensors'[j].reading = reading
      /\ \A k \in 1 .. Len(sensors) :
           /\ sensors'[k].id = sensors[k].id
           /\ sensors'[k].type = sensors[k].type
           /\ k # j => sensors'[k].reading = sensors[k].reading
  BY <1>2, MeasureElements DEF TypeOK
<1>4. Unique(sensors) /\ Unique(sensors')
  BY DEF Unique, UniqueIds
<1>5. /\ f = [x \in DOMAIN f |-> f[x]]
      /\ DOMAIN f = {sensors[k].id : k \in 1 .. Len(sensors)}
      /\ \A k \in 1 .. Len(sensors) :
           f[sensors[k].id] = [type |-> sensors[k].type, reading |-> sensors[k].reading]
  BY <1>3, <1>4, DirectoryAt DEF DirectoryOf
<1> HIDE DEF f
<1>6. /\ id \in DOMAIN f
      /\ f[id] = [type |-> sensors[j].type, reading |-> sensors[j].reading]
  BY <1>1, <1>5
<1>7. /\ g = [x \in DOMAIN g |-> g[x]] /\ DOMAIN g = DOMAIN f
      /\ g[id] = [f[id] EXCEPT !.reading = reading]
      /\ \A x \in DOMAIN f : x # id => g[x] = f[x]
  BY <1>6
<1> HIDE DEF g
<1>8. DOMAIN g = {sensors'[k].id : k \in 1 .. Len(sensors')}
  <2>1. {sensors'[k].id : k \in 1 .. Len(sensors')} = {sensors[k].id : k \in 1 .. Len(sensors)}
    BY <1>3
  <2>. QED
    BY <1>5, <1>7, <2>1
<1>9. ASSUME NEW k \in 1 .. Len(sensors')
      PROVE  g[sensors'[k].id] =
               [type |-> sensors'[k].type, reading |-> sensors'[k].reading]
  <2>1. CASE k = j
    <3>1. g[id] = [type |-> sensors[j].type, reading |-> reading]
      BY <1>6, <1>7
    <3>. QED
      BY <1>1, <1>3, <2>1, <3>1
  <2>2. CASE k # j
    <3>1. k \in 1 .. Len(sensors) /\ sensors[k].id # id
      BY <1>1, <1>3, <1>4, <2>2 DEF Unique
    <3>2. g[sensors[k].id] = f[sensors[k].id]
      BY <1>5, <1>7, <3>1
    <3>. QED
      BY <1>3, <1>5, <2>2, <3>1, <3>2
  <2>. QED
    BY <2>1, <2>2
<1>10. DirectoryOf(sensors') = g
  BY <1>3, <1>4, <1>7, <1>8, <1>9, DirectoryIs
<1>11. TableAsDirectory = f /\ TableAsDirectory' = g
  BY <1>10 DEF TableAsDirectory, f
<1>. QED
  BY <1>2, <1>6, <1>11 DEF Directory!Measure, g

(* A measurement of an unknown sensor changes nothing. *)
LEMMA UnknownMeasureRefines ==
  ASSUME TypeOK, UniqueIds, NEW id \in Ids, NEW reading \in Readings,
         sensor_manager_add_measurement(id, reading), Matches(id) = {}
  PROVE  Directory!Measure(id, reading)
<1>1. /\ sensors' = sensors
      /\ answer' = Directory!Reply("measure", id, FALSE)
  BY DEF sensor_manager_add_measurement, Answer, Directory!Reply
<1>2. sensors \in Seq(Sensor) /\ Unique(sensors)
  BY DEF TypeOK, Unique, UniqueIds
<1>3. DOMAIN TableAsDirectory = {sensors[k].id : k \in 1 .. Len(sensors)}
  BY <1>2, DirectoryAt DEF TableAsDirectory
<1>4. id \notin DOMAIN TableAsDirectory
  BY <1>3 DEF Matches
<1>5. TableAsDirectory' = TableAsDirectory
  BY <1>1 DEF TableAsDirectory
<1>. QED
  BY <1>1, <1>4, <1>5 DEF Directory!Measure

(***************************************************************************)
(* With ids that fit their slot, every call of sensor_manager.c has the    *)
(* effect and the answer of a call on a map that remembers the type of the *)
(* first registration and the last reading: what a slot's neighbours hold, *)
(* and in which order sensors came, never shows.                           *)
(***************************************************************************)
THEOREM Refines ==
  ASSUME ShortIds
  PROVE  Spec => ImplementsDirectory
<1>1. sensor_manager_init => Directory!Init
  BY InitRefines
<1>2. TypeOK /\ UniqueIds /\ UniqueIds' /\ [Next]_vars
        => [Directory!Next]_(Directory!vars)
  <2>1. ASSUME TypeOK, UniqueIds, UniqueIds',
               NEW id \in Ids, NEW type \in Types, sensor_manager_register(id, type)
        PROVE  Directory!Register(id, type)
    BY <2>1, KnownRegisterRefines, NewRegisterRefines, FullRegisterRefines
  <2>2. ASSUME TypeOK, UniqueIds, UniqueIds',
               NEW id \in Ids, NEW reading \in Readings,
               sensor_manager_add_measurement(id, reading)
        PROVE  Directory!Measure(id, reading)
    BY <2>2, KnownMeasureRefines, UnknownMeasureRefines
  <2>3. ASSUME UNCHANGED vars PROVE UNCHANGED Directory!vars
    BY <2>3 DEF vars, Directory!vars, TableAsDirectory
  <2>. QED
    BY <2>1, <2>2, <2>3 DEF Next, Directory!Next
<1>. QED
  BY <1>1, <1>2, TypeCorrect, IdsUnique, PTL DEF Spec, ImplementsDirectory, Directory!Spec
=============================================================================
