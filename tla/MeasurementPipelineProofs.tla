---------------------- MODULE MeasurementPipelineProofs ----------------------
(***************************************************************************)
(* Proofs about MeasurementPipeline, for any number of threads, sensors    *)
(* and calls, all measurements, and every configuration of thresholds.     *)
(***************************************************************************)
EXTENDS MeasurementPipeline, AlertEngineProofs

Steps == {"idle", "stored", "check", "tell", "telling", "reply"}

(* Where a thread is, and what its command has got so far. *)
Commands ==
  /\ step \in [Threads -> Steps]
  /\ reading = [t \in Threads |-> reading[t]]
  /\ \A t \in Threads :
       /\ step[t] = "check" <=> pc[t] = "loop"
       /\ step[t] \in {"stored", "check", "tell"} => reading[t] \in Measurements
       /\ step[t] = "stored" => reading[t].sensor_id \in Serves[t] \cap DOMAIN table
       /\ step[t] \in {"check", "tell"} =>
            arg[t] \in 1 .. Len(calls) /\ calls[arg[t]] = reading[t]

TableType == table \in [DOMAIN table -> [type : STRING, last_value : Int]]

(* What the table shows of a sensor, by where its thread is. *)
Shown(t, id) ==
  IF step[t] = "stored" /\ reading[t].sensor_id = id
  THEN table[id].last_value = reading[t].value
  ELSE \A n \in LastCheckOf(id) : table[id].last_value = calls[n].value

Ledger ==
  /\ TableType
  /\ \A n \in 1 .. Len(calls) : calls[n].sensor_id \in DOMAIN table
  /\ \A t \in Threads : \A id \in Serves[t] \cap DOMAIN table : Shown(t, id)

-----------------------------------------------------------------------------
(* A step of the pipeline is a step of the engine, or none of it. *)
LEMMA StepOfEngine ==
  ASSUME Commands, [PipelineNext]_allVars
  PROVE  [Next]_vars
<1>1. ASSUME NEW t \in Threads, Enter(t) PROVE Next
  <2>1. BeginCheck(t, reading[t]) /\ reading[t] \in Measurements
    BY <1>1 DEF Enter, At, Commands
  <2> QED
    BY <2>1 DEF Next
<1>2. ASSUME NEW t \in Threads, Loop(t) \/ Leave(t) PROVE Next
  BY <1>2 DEF Loop, Leave, Next
<1>3. ASSUME NEW t \in Threads, Tell(t) \/ EndTell(t) \/ Answer(t) PROVE UNCHANGED vars
  BY <1>3 DEF Tell, EndTell, Answer
<1>4. ASSUME NEW t \in Threads, NEW m \in Measurements,
             Register(t, m) \/ Store(t, m) \/ Refuse(t, m)
      PROVE  UNCHANGED vars
  BY <1>4 DEF Register, Store, Refuse
<1>5. CASE alert_engine_register_threshold
  BY <1>5 DEF Next
<1>6. CASE Dies \/ UNCHANGED allVars
  BY <1>6 DEF Dies, allVars
<1> QED
  BY <1>1, <1>2, <1>3, <1>4, <1>5, <1>6 DEF PipelineNext, Proceed

(* What each step does to the calls. *)
LEMMA CallsGrow ==
  ASSUME TypeOK, Exclusion, Commands, NEW t \in Threads, Enter(t)
  PROVE  /\ Len(calls) \in Nat /\ Len(calls') = Len(calls) + 1
         /\ \A n \in 1 .. Len(calls) : calls'[n] = calls[n]
         /\ calls'[Len(calls) + 1] = reading[t]
         /\ reading[t] \in Measurements
         /\ arg'[t] = Len(calls) + 1
         /\ \A u \in Threads : u # t => arg'[u] = arg[u] /\ pc[u] = "idle" /\ pc'[u] = "idle"
         /\ pc'[t] = "loop" /\ step[t] = "stored"
         /\ step' = [step EXCEPT ![t] = "check"] /\ UNCHANGED <<reading, table, told, raised>>
<1>1. reading[t] \in Measurements /\ BeginCheck(t, reading[t]) /\ step[t] = "stored"
  BY DEF Enter, At, Commands
<1>2. /\ Len(calls) \in Nat /\ Len(calls') = Len(calls) + 1
      /\ \A n \in 1 .. Len(calls) : calls'[n] = calls[n]
      /\ calls'[Len(calls) + 1] = reading[t]
  <2>1. calls \in Seq(Measurements) /\ calls' = Append(calls, reading[t])
    BY <1>1 DEF BeginCheck, TypeOK
  <2>2. Len(calls) \in Nat
    BY <2>1, LenProperties
  <2>3. /\ Len(calls') = Len(calls) + 1 /\ calls'[Len(calls) + 1] = reading[t]
        /\ \A n \in 1 .. Len(calls) : calls'[n] = calls[n]
    BY <1>1, <2>1, AppendProperties
  <2> QED
    BY <2>2, <2>3
<1>3. \A u \in Threads : u # t => arg'[u] = arg[u] /\ pc[u] = "idle" /\ pc'[u] = "idle"
  <2>1. pc \in [Threads -> {"idle", "loop"}] /\ pc' = [pc EXCEPT ![t] = "loop"]
    BY <1>1 DEF TypeOK, BeginCheck
  <2>2. \A u \in Threads : pc[u] # "loop"
    BY <1>1, BeginFacts
  <2>3. \A u \in Threads : u # t => arg'[u] = arg[u]
    BY <1>1, BeginFacts
  <2> QED
    BY <2>1, <2>2, <2>3
<1>4. pc'[t] = "loop" /\ arg'[t] = Len(calls) + 1
  BY <1>1 DEF BeginCheck, TypeOK
<1>5. step' = [step EXCEPT ![t] = "check"] /\ UNCHANGED <<reading, table, told>>
  BY DEF Enter, Goto
<1> QED
  BY <1>1, <1>2, <1>3, <1>4, <1>5 DEF BeginCheck

(* Every other step leaves the calls and the numbers of the threads' calls. *)
LEMMA CallsStay ==
  ASSUME TypeOK, Commands, NEW t \in Threads,
         Loop(t) \/ Leave(t) \/ Tell(t) \/ EndTell(t) \/ Answer(t)
  PROVE  UNCHANGED <<arg, calls, reading, table>>
BY DEF Loop, RaiseAlert, SkipThreshold, Leave, EndCheck, Tell, EndTell, Answer, pipeline, vars,
       locals

(* The end of the process changes nothing but that it is alive. *)
LEMMA DeathFreezes ==
  ASSUME Dies \/ UNCHANGED allVars
  PROVE  UNCHANGED <<vars, pc, arg, calls, raised, alert_mutex, step, reading, table, told>>
BY DEF Dies, allVars, vars, locals, pipeline

LEMMA CommandsKept ==
  ASSUME TypeOK, Exclusion, Commands, TableType, [PipelineNext]_allVars
  PROVE  Commands'
<1>0. step \in [Threads -> Steps] /\ reading = [t \in Threads |-> reading[t]]
      /\ pc \in [Threads -> {"idle", "loop"}]
  BY DEF Commands, TypeOK
<1>1. ASSUME NEW t \in Threads, Enter(t) PROVE Commands'
  <2>1. arg'[t] \in 1 .. Len(calls') /\ calls'[arg'[t]] = reading[t]
    BY <1>1, CallsGrow
  <2>2. step' \in [Threads -> Steps] /\ step'[t] = "check"
        /\ \A u \in Threads : u # t => step'[u] = step[u]
    BY <1>0, <1>1, CallsGrow DEF Steps
  <2>3. ASSUME NEW u \in Threads, u # t, step[u] \in {"check", "tell"}
        PROVE  arg'[u] \in 1 .. Len(calls') /\ calls'[arg'[u]] = reading[u]
    BY <1>1, <2>3, CallsGrow DEF Commands
  <2> QED
    BY <1>1, <2>1, <2>2, <2>3, CallsGrow DEF Commands
<1>2. ASSUME NEW t \in Threads, Loop(t) PROVE Commands'
  <2>1. UNCHANGED <<step, pc>>
    BY <1>2 DEF Loop, RaiseAlert, SkipThreshold, pipeline
  <2> QED
    BY <1>2, <2>1, CallsStay DEF Commands
<1>3. ASSUME NEW t \in Threads, Leave(t) PROVE Commands'
  <2>1. /\ step[t] = "check" /\ step'[t] \in {"tell", "reply"} /\ pc'[t] = "idle"
        /\ step' \in [Threads -> Steps]
        /\ \A u \in Threads : u # t => step'[u] = step[u] /\ pc'[u] = pc[u]
    BY <1>0, <1>3 DEF Leave, EndCheck, Goto, At, Steps
  <2> QED
    BY <1>3, <2>1, CallsStay DEF Commands
<1>4. ASSUME NEW t \in Threads, Tell(t) \/ EndTell(t) \/ Answer(t) PROVE Commands'
  <2>1. /\ step[t] \in {"tell", "telling", "reply"}
        /\ step'[t] \in {"telling", "reply", "idle"} /\ pc' = pc
        /\ step' \in [Threads -> Steps]
        /\ \A u \in Threads : u # t => step'[u] = step[u]
    BY <1>0, <1>4 DEF Tell, EndTell, Answer, Goto, At, Steps, vars, locals
  <2>2. pc[t] # "loop"
    BY <2>1 DEF Commands
  <2> QED
    BY <1>4, <2>1, <2>2, CallsStay DEF Commands
<1>5. ASSUME NEW t \in Threads, NEW m \in Measurements, Register(t, m) \/ Refuse(t, m)
      PROVE  Commands'
  <2>1. /\ step[t] = "idle" /\ step'[t] = "reply" /\ UNCHANGED <<pc, arg, calls, reading>>
        /\ step' \in [Threads -> Steps]
        /\ \A u \in Threads : u # t => step'[u] = step[u]
    BY <1>0, <1>5 DEF Register, Refuse, Receives, Goto, At, Steps, vars, locals
  <2>2. DOMAIN table \subseteq DOMAIN table'
    BY <1>5 DEF Register, Refuse
  <2> QED
    BY <2>1, <2>2 DEF Commands
<1>6. ASSUME NEW t \in Threads, NEW m \in Measurements, Store(t, m) PROVE Commands'
  <2>1. /\ step[t] = "idle" /\ step'[t] = "stored" /\ UNCHANGED <<pc, arg, calls>>
        /\ step' \in [Threads -> Steps]
        /\ reading'[t] = m /\ reading' = [u \in Threads |-> reading'[u]]
        /\ \A u \in Threads : u # t => step'[u] = step[u] /\ reading'[u] = reading[u]
    BY <1>0, <1>6 DEF Store, Receives, Goto, At, Steps, vars, locals
  <2>2. DOMAIN table' = DOMAIN table /\ m.sensor_id \in Serves[t] \cap DOMAIN table
    BY <1>6 DEF Store, Receives, Registered, TableType
  <2>3. pc[t] # "loop"
    BY <2>1 DEF Commands
  <2> QED
    BY <2>1, <2>2, <2>3 DEF Commands
<1>7. CASE alert_engine_register_threshold /\ UNCHANGED pipeline
  BY <1>7 DEF alert_engine_register_threshold, pipeline, locals, Commands
<1>8. CASE Dies \/ UNCHANGED allVars
  BY <1>8, DeathFreezes DEF Commands
<1> QED
  BY <1>1, <1>2, <1>3, <1>4, <1>5, <1>6, <1>7, <1>8 DEF PipelineNext, Proceed

-----------------------------------------------------------------------------
(* The table and the calls. *)
LEMMA LedgerKept ==
  ASSUME TypeOK, Exclusion, Commands, Ledger, [PipelineNext]_allVars
  PROVE  Ledger'
<1>0. step \in [Threads -> Steps] /\ reading = [t \in Threads |-> reading[t]]
  BY DEF Commands
<1>1. ASSUME NEW t \in Threads, Enter(t) PROVE Ledger'
  <2>1. reading[t].sensor_id \in Serves[t] \cap DOMAIN table
    BY <1>1, CallsGrow DEF Commands
  <2>2. TableType'
    BY <1>1, CallsGrow DEF Ledger, TableType
  <2>3. \A n \in 1 .. Len(calls') : n \in 1 .. Len(calls) \/ n = Len(calls) + 1
    BY <1>1, CallsGrow
  <2>4. \A n \in 1 .. Len(calls') : calls'[n].sensor_id \in DOMAIN table'
    BY <1>1, <2>1, <2>3, CallsGrow DEF Ledger
  <2>5. \A n \in LastCheckOf(reading[t].sensor_id)' : n = Len(calls) + 1
    <3>1. \A n \in LastCheckOf(reading[t].sensor_id)' :
            ~(Len(calls) + 1 \in n + 1 .. Len(calls'))
      BY <1>1, CallsGrow DEF LastCheckOf
    <3> QED
      BY <1>1, <2>3, <3>1, CallsGrow DEF LastCheckOf
  <2>6. ASSUME NEW id, id # reading[t].sensor_id
        PROVE  \A n \in LastCheckOf(id)' : n \in LastCheckOf(id) /\ calls'[n] = calls[n]
    <3>1. \A n \in LastCheckOf(id)' : n \in 1 .. Len(calls)
      BY <1>1, <2>3, <2>6, CallsGrow DEF LastCheckOf
    <3>2. \A n \in 1 .. Len(calls) : \A l \in n + 1 .. Len(calls) :
            l \in n + 1 .. Len(calls') /\ calls'[l] = calls[l]
      BY <1>1, CallsGrow
    <3> QED
      BY <1>1, <3>1, <3>2, CallsGrow DEF LastCheckOf
  <2>7. ASSUME NEW u \in Threads, NEW id \in Serves[u] \cap DOMAIN table
        PROVE  Shown(u, id)'
    <3>1. Shown(u, id)
      BY <2>7 DEF Ledger
    <3>2. CASE u = t /\ id = reading[t].sensor_id
      <4>1. table[id].last_value = reading[t].value
        BY <1>1, <3>1, <3>2, CallsGrow DEF Shown
      <4>2. step'[t] = "check"
        BY <1>0, <1>1, CallsGrow
      <4>3. \A n \in LastCheckOf(id)' : calls'[n].value = reading[t].value
        BY <1>1, <2>5, <3>2, CallsGrow
      <4> QED
        BY <1>1, <3>2, <4>1, <4>2, <4>3, CallsGrow DEF Shown
    <3>3. CASE id # reading[t].sensor_id
      <4>1. step'[u] = "stored" => step[u] = "stored"
        BY <1>0, <1>1, CallsGrow
      <4>2. step'[u] = "stored" \/ u = t \/ step[u] # "stored"
        BY <1>0, <1>1, CallsGrow
      <4> QED
        BY <1>1, <2>6, <3>1, <3>3, <4>1, <4>2, CallsGrow DEF Shown
    <3>4. id = reading[t].sensor_id => u = t
      BY <2>1, <2>7, ServesAssumption
    <3> QED
      BY <3>2, <3>3, <3>4
  <2> QED
    BY <1>1, <2>2, <2>4, <2>7, CallsGrow DEF Ledger
<1>2. ASSUME NEW t \in Threads, Loop(t) \/ Leave(t) \/ Tell(t) \/ EndTell(t) \/ Answer(t)
      PROVE  Ledger'
  <2>1. \A u \in Threads : step'[u] = "stored" <=> step[u] = "stored"
    BY <1>0, <1>2 DEF Loop, Leave, Tell, EndTell, Answer, At, Goto, pipeline
  <2>2. UNCHANGED <<arg, calls, reading, table>>
    BY <1>2, CallsStay
  <2> QED
    BY <2>1, <2>2 DEF Ledger, TableType, Shown, LastCheckOf
<1>3. ASSUME NEW t \in Threads, NEW m \in Measurements, Refuse(t, m) PROVE Ledger'
  <2>1. \A u \in Threads : step'[u] = "stored" <=> step[u] = "stored"
    BY <1>0, <1>3 DEF Refuse, Receives, At, Goto
  <2> QED
    BY <1>3, <2>1 DEF Refuse, vars, Ledger, TableType, Shown, LastCheckOf
<1>4. ASSUME NEW t \in Threads, NEW m \in Measurements, Register(t, m) PROVE Ledger'
  <2>1. \A u \in Threads : step'[u] = "stored" <=> step[u] = "stored"
    BY <1>0, <1>4 DEF Register, Receives, At, Goto
  <2>2. UNCHANGED <<calls, reading>>
    BY <1>4 DEF Register, vars
  <2>3. /\ DOMAIN table' = DOMAIN table \cup {m.sensor_id} \/ DOMAIN table' = DOMAIN table
        /\ \A id \in DOMAIN table : table'[id] = table[id]
    BY <1>4 DEF Register
  <2>4. TableType'
    <3>1. NewEntry(m) \in [type : STRING, last_value : Int]
      BY MeasurementsAssumption DEF NewEntry
    <3>2. table \in [DOMAIN table -> [type : STRING, last_value : Int]]
      BY DEF Ledger, TableType
    <3> QED
      BY <1>4, <3>1, <3>2 DEF Register, TableType
  <2>5. ASSUME NEW id, id \notin DOMAIN table PROVE LastCheckOf(id) = {}
    BY <2>5 DEF Ledger, LastCheckOf
  <2>6. \A id : LastCheckOf(id)' = LastCheckOf(id)
    BY <2>2 DEF LastCheckOf
  <2>7. ASSUME NEW u \in Threads, NEW id \in Serves[u] \cap DOMAIN table'
        PROVE  Shown(u, id)'
    <3>1. CASE id \in DOMAIN table
      <4>1. Shown(u, id)
        BY <2>7, <3>1 DEF Ledger
      <4> QED
        BY <2>1, <2>2, <2>3, <2>6, <3>1, <4>1 DEF Shown
    <3>2. CASE id \notin DOMAIN table
      <4>1. ~(step[u] = "stored" /\ reading[u].sensor_id = id)
        BY <3>2 DEF Commands
      <4> QED
        BY <2>1, <2>2, <2>5, <2>6, <3>2, <4>1 DEF Shown
    <3> QED
      BY <3>1, <3>2
  <2> QED
    BY <2>2, <2>3, <2>4, <2>7 DEF Ledger
<1>5. ASSUME NEW t \in Threads, NEW m \in Measurements, Store(t, m) PROVE Ledger'
  <2>1. /\ step[t] = "idle" /\ step'[t] = "stored" /\ reading'[t] = m
        /\ \A u \in Threads : u # t => step'[u] = step[u] /\ reading'[u] = reading[u]
    BY <1>0, <1>5 DEF Store, Receives, At, Goto
  <2>2. calls' = calls /\ m.sensor_id \in Serves[t] \cap DOMAIN table
    BY <1>5 DEF Store, Receives, Registered, vars
  <2>3. table \in [DOMAIN table -> [type : STRING, last_value : Int]] /\ m.value \in Int
    BY MeasurementsAssumption DEF Ledger, TableType
  <2>4. /\ TableType' /\ DOMAIN table' = DOMAIN table
        /\ table'[m.sensor_id].last_value = m.value
        /\ \A id \in DOMAIN table : id # m.sensor_id => table'[id] = table[id]
    BY <1>5, <2>2, <2>3 DEF Store, TableType
  <2>5. \A id : LastCheckOf(id)' = LastCheckOf(id)
    BY <2>2 DEF LastCheckOf
  <2>6. ASSUME NEW u \in Threads, NEW id \in Serves[u] \cap DOMAIN table
        PROVE  Shown(u, id)'
    <3>1. Shown(u, id)
      BY <2>6 DEF Ledger
    <3>2. CASE u = t /\ id = m.sensor_id
      BY <2>1, <2>4, <3>2 DEF Shown
    <3>3. CASE u = t /\ id # m.sensor_id
      BY <2>1, <2>2, <2>4, <2>5, <2>6, <3>1, <3>3 DEF Shown
    <3>4. CASE u # t
      <4>1. id # m.sensor_id
        BY <2>2, <2>6, <3>4, ServesAssumption
      <4> QED
        BY <2>1, <2>2, <2>4, <2>5, <2>6, <3>1, <3>4, <4>1 DEF Shown
    <3> QED
      BY <3>2, <3>3, <3>4
  <2> QED
    BY <2>2, <2>4, <2>6 DEF Ledger
<1>6. CASE alert_engine_register_threshold /\ UNCHANGED pipeline
  BY <1>6 DEF alert_engine_register_threshold, pipeline, Ledger, TableType, Shown, LastCheckOf
<1>7. CASE Dies \/ UNCHANGED allVars
  BY <1>7, DeathFreezes DEF Ledger, TableType, Shown, LastCheckOf
<1> QED
  BY <1>1, <1>2, <1>3, <1>4, <1>5, <1>6, <1>7 DEF PipelineNext, Proceed

-----------------------------------------------------------------------------
PInv == TypeOK /\ Engine /\ Commands /\ Ledger

LEMMA PipelineInitial == PipelineInit => Commands /\ Ledger
<1>1. PipelineInit => Commands
  BY DEF PipelineInit, alert_engine_init, Commands, Steps
<1>2. PipelineInit => Ledger
  BY DEF PipelineInit, alert_engine_init, Ledger, TableType
<1> QED
  BY <1>1, <1>2

(***************************************************************************)
(* The pipeline drives the engine as its specification says, whatever the  *)
(* order in which threads store, check and broadcast (server.c, the case   *)
(* CMD_MEASUREMENT): all that is proved of AlertEngine holds here.         *)
(***************************************************************************)
THEOREM PipelineRefinesEngine == PipelineSpec => Spec
<1>1. PipelineInit => alert_engine_init /\ TypeOK /\ Exclusion
  <2>1. alert_engine_init => TypeOK /\ Exclusion
    BY ExclusionInitial
  <2> QED
    BY <2>1 DEF PipelineInit
<1>2. TypeOK /\ Exclusion /\ [Next]_vars => TypeOK' /\ Exclusion'
  BY ExclusionInductive
<1>3. TypeOK /\ Exclusion /\ Commands /\ Ledger /\ [PipelineNext]_allVars
        => [Next]_vars /\ Commands' /\ Ledger'
  BY StepOfEngine, CommandsKept, LedgerKept DEF Ledger
<1> QED
  BY <1>1, <1>2, <1>3, PipelineInitial, PTL DEF PipelineSpec, Spec

LEMMA PipelineInvariant == PipelineSpec => []PInv
<1>1. TypeOK /\ Engine /\ Commands /\ Ledger /\ [PipelineNext]_allVars => Commands' /\ Ledger'
  BY CommandsKept, LedgerKept DEF Engine, Ledger
<1> QED
  BY <1>1, PipelineInitial, PipelineRefinesEngine, TypeCorrect, EngineInvariant, PTL
     DEF PipelineSpec, PInv

(***************************************************************************)
(* The table of sensors and the engine agree on every sensor that has no   *)
(* measurement between the two (server.c, the case CMD_MEASUREMENT).       *)
(***************************************************************************)
THEOREM TableAgrees == PipelineSpec => []TableAgreesWithEngine
<1>1. PInv => TableAgreesWithEngine
  BY DEF PInv, Ledger, Shown, TableAgreesWithEngine
<1> QED
  BY <1>1, PipelineInvariant, PTL

-----------------------------------------------------------------------------
(* The thresholds are those configured, as far as they fit. *)
Loaded ==
  /\ Len(thresholds) = MinOf(main_pc - 1, MAX_ALERTS)
  /\ \A k \in 1 .. Len(thresholds) : thresholds[k] = Configured[k]

(* Whatever is on record names one of them. *)
Named == \A j \in 1 .. Len(raised) : raised[j].message \in 1 .. Len(thresholds)

(* Whatever is told is the number of a check. *)
Told == told \in Seq(Nat) /\ \A j \in 1 .. Len(told) : told[j] \in 1 .. Len(calls)

LEMMA LoadedKept ==
  ASSUME TypeOK, Loaded, [Next]_vars
  PROVE  Loaded'
<1>1. CASE alert_engine_register_threshold
  <2>1. /\ main_pc \in Nat \ {0} /\ main_pc' = main_pc + 1 /\ MAX_ALERTS \in Nat
        /\ Len(thresholds) \in Nat /\ thresholds \in Seq(Threshold)
        /\ Configured[main_pc] \in Threshold
    BY <1>1, MaxAlertsAssumption, ConfiguredAssumption, LenProperties, ElementOfSeq
       DEF TypeOK, alert_engine_register_threshold
  <2>2. CASE Len(thresholds) >= MAX_ALERTS
    BY <1>1, <2>1, <2>2 DEF alert_engine_register_threshold, Loaded, MinOf
  <2>3. CASE ~(Len(thresholds) >= MAX_ALERTS)
    <3>1. thresholds' = Append(thresholds, Configured[main_pc]) /\ Len(thresholds) = main_pc - 1
      BY <1>1, <2>1, <2>3 DEF alert_engine_register_threshold, Loaded, MinOf
    <3>2. /\ Len(thresholds') = Len(thresholds) + 1
          /\ thresholds'[Len(thresholds) + 1] = Configured[main_pc]
          /\ \A k \in 1 .. Len(thresholds) : thresholds'[k] = thresholds[k]
      BY <2>1, <3>1, AppendProperties
    <3>3. \A k \in 1 .. Len(thresholds') : k \in 1 .. Len(thresholds) \/ k = main_pc
      BY <2>1, <3>1, <3>2
    <3> QED
      BY <2>1, <2>3, <3>1, <3>2, <3>3 DEF Loaded, MinOf
  <2> QED
    BY <2>2, <2>3
<1>2. CASE UNCHANGED <<main_pc, thresholds>>
  BY <1>2 DEF Loaded
<1>3. [Next]_vars => alert_engine_register_threshold \/ UNCHANGED <<main_pc, thresholds>>
  BY DEF Next, BeginCheck, RaiseAlert, SkipThreshold, EndCheck, Finished, vars
<1> QED
  BY <1>1, <1>2, <1>3

LEMMA NamedKept ==
  ASSUME TypeOK, Exclusion, Named, [Next]_vars
  PROVE  Named'
<1>1. CASE alert_engine_register_threshold
  BY <1>1 DEF alert_engine_register_threshold, Exclusion, Named
<1>2. ASSUME NEW t \in Threads, RaiseAlert(t) PROVE Named'
  <2>1. \A j \in 1 .. Len(raised') : j \in 1 .. Len(raised) \/ j = Len(raised) + 1
    BY <1>2, RaiseFacts
  <2> QED
    BY <1>2, <2>1, RaiseFacts DEF Named
<1>3. ASSUME NEW t \in Threads, NEW m \in Measurements, BeginCheck(t, m) PROVE Named'
  BY <1>3 DEF BeginCheck, Named
<1>4. ASSUME NEW t \in Threads, SkipThreshold(t) \/ EndCheck(t) PROVE Named'
  BY <1>4 DEF SkipThreshold, EndCheck, Named
<1>5. CASE Finished \/ UNCHANGED vars
  BY <1>5 DEF Finished, vars, Named
<1> QED
  BY <1>1, <1>2, <1>3, <1>4, <1>5 DEF Next

LEMMA ToldKept ==
  ASSUME TypeOK, Exclusion, Commands, Told, [PipelineNext]_allVars
  PROVE  Told'
<1>1. ASSUME NEW t \in Threads, Tell(t) PROVE Told'
  <2>1. told' = Append(told, arg[t]) /\ arg[t] \in 1 .. Len(calls) /\ calls' = calls
    BY <1>1, CallsStay DEF Tell, At, Commands
  <2>2. arg[t] \in Nat /\ told \in Seq(Nat)
    BY <2>1, LenProperties DEF Told
  <2>3. told' \in Seq(Nat) /\ Len(told') = Len(told) + 1
        /\ told'[Len(told) + 1] = arg[t]
        /\ \A j \in 1 .. Len(told) : told'[j] = told[j]
    BY <2>1, <2>2, AppendProperties
  <2>4. \A j \in 1 .. Len(told') : j \in 1 .. Len(told) \/ j = Len(told) + 1
    BY <2>2, <2>3, LenProperties
  <2> QED
    BY <2>1, <2>3, <2>4 DEF Told
<1>2. ASSUME NEW t \in Threads, Enter(t) PROVE Told'
  <2>1. told' = told /\ \A n \in 1 .. Len(calls) : n \in 1 .. Len(calls')
    BY <1>2, CallsGrow
  <2> QED
    BY <2>1 DEF Told
<1>3. ASSUME UNCHANGED <<told, calls>> PROVE Told'
  BY <1>3 DEF Told
<1>4. ASSUME NEW t \in Threads, Loop(t) \/ Leave(t) \/ EndTell(t) \/ Answer(t)
      PROVE  UNCHANGED <<told, calls>>
  BY <1>4, CallsStay DEF Loop, Leave, EndTell, Answer, pipeline
<1>5. ASSUME NEW t \in Threads, NEW m \in Measurements,
             Register(t, m) \/ Store(t, m) \/ Refuse(t, m)
      PROVE  UNCHANGED <<told, calls>>
  BY <1>5 DEF Register, Store, Refuse, vars
<1>6. CASE alert_engine_register_threshold /\ UNCHANGED pipeline
  BY <1>3, <1>6 DEF alert_engine_register_threshold, pipeline
<1>7. CASE Dies \/ UNCHANGED allVars
  BY <1>3, <1>7, DeathFreezes
<1> QED
  BY <1>1, <1>2, <1>3, <1>4, <1>5, <1>6, <1>7 DEF PipelineNext, Proceed

RInv == PInv /\ Loaded /\ Named /\ Told

LEMMA RefinementInvariant == PipelineSpec => []RInv
<1>1. PipelineInit => Loaded /\ Named /\ Told
  BY MaxAlertsAssumption DEF PipelineInit, alert_engine_init, Loaded, Named, Told, MinOf
<1>2. PInv /\ Loaded /\ Named /\ Told /\ [PipelineNext]_allVars => Loaded' /\ Named' /\ Told'
  BY StepOfEngine, LoadedKept, NamedKept, ToldKept DEF PInv, Engine
<1> QED
  BY <1>1, <1>2, PipelineInvariant, PTL DEF PipelineSpec, RInv

-----------------------------------------------------------------------------
LEMMA FunctionInto ==
  ASSUME NEW D, NEW S, NEW f, f = [n \in D |-> f[n]], \A n \in D : f[n] \in S
  PROVE  f \in [D -> S]
OBVIOUS

LEMMA FunctionIsSeq ==
  ASSUME NEW S, NEW N \in Nat, NEW f \in [1 .. N -> S]
  PROVE  f \in Seq(S) /\ Len(f) = N
OBVIOUS

(* A function on 1 .. N that grows by one entry is a sequence appended to. *)
LEMMA GrownFunction ==
  ASSUME NEW N \in Nat, NEW f, NEW g, NEW x,
         f = [n \in 1 .. N |-> f[n]], g = [n \in 1 .. N + 1 |-> g[n]],
         \A n \in 1 .. N : g[n] = f[n], g[N + 1] = x
  PROVE  g = Append(f, x)
<1> DEFINE S == {g[n] : n \in 1 .. N + 1}
<1>1. \A n \in 1 .. N + 1 : g[n] \in S
  OBVIOUS
<1> HIDE DEF S
<1>2. x \in S /\ \A n \in 1 .. N : f[n] \in S
  <2>1. N + 1 \in 1 .. N + 1 /\ \A n \in 1 .. N : n \in 1 .. N + 1
    OBVIOUS
  <2>2. x \in S
    BY <1>1, <2>1
  <2>3. \A n \in 1 .. N : f[n] \in S
    BY <1>1, <2>1
  <2> QED
    BY <2>2, <2>3
<1>3. f \in Seq(S) /\ Len(f) = N
  <2>1. f \in [1 .. N -> S]
    BY <1>2, FunctionInto
  <2> QED
    BY <2>1, FunctionIsSeq
<1>4. g \in Seq(S) /\ Len(g) = N + 1
  <2>1. g \in [1 .. N + 1 -> S]
    BY <1>1, FunctionInto
  <2> QED
    BY <2>1, FunctionIsSeq
<1>5. /\ Append(f, x) \in Seq(S) /\ Len(Append(f, x)) = N + 1
      /\ \A n \in 1 .. N : Append(f, x)[n] = f[n]
      /\ Append(f, x)[N + 1] = x
  BY <1>2, <1>3, AppendProperties
<1>6. \A n \in 1 .. N + 1 : n \in 1 .. N \/ n = N + 1
  OBVIOUS
<1>7. \A n \in 1 .. N + 1 : g[n] = Append(f, x)[n]
  BY <1>5, <1>6
<1> QED
  BY <1>4, <1>5, <1>7, SeqEqual

(***************************************************************************)
(* The phase of the abstract command follows the step: it is still stored  *)
(* in the check, and operators have been told once their broadcast begins. *)
(***************************************************************************)
Phase(x) == IF x = "check" THEN "stored" ELSE IF x = "telling" THEN "reply" ELSE x

LEMMA PhaseMoves ==
  ASSUME step \in [Threads -> Steps], NEW t \in Threads, NEW x \in Steps,
         step' = [step EXCEPT ![t] = x]
  PROVE  /\ FeedPhase' = [FeedPhase EXCEPT ![t] = Phase(x)]
         /\ FeedPhase[t] = Phase(step[t])
BY DEF FeedPhase, At, Phase

LEMMA RaisedByFacts == \A n, k : k \in RaisedBy(n) <=> HasRaised(n, k)
BY DEF RaisedBy, HasRaised

(* The finished checks are the calls, less the one that is in progress. *)
LEMMA JudgedFacts ==
  ASSUME TypeOK, Exclusion
  PROVE  /\ alert_mutex = NoThread => Judged = calls
         /\ alert_mutex # NoThread =>
              /\ Len(calls) \in Nat \ {0} /\ Len(Judged) = Len(calls) - 1
              /\ \A n \in 1 .. Len(Judged) : Judged[n] = calls[n]
<1>1. calls \in Seq(Measurements) /\ Len(calls) \in Nat
  BY LenProperties DEF TypeOK
<1>2. ASSUME alert_mutex # NoThread PROVE Len(calls) # 0
  <2>1. alert_mutex \in Threads /\ pc[alert_mutex] = "loop"
    BY <1>2 DEF TypeOK, Exclusion
  <2> QED
    BY <2>1 DEF Exclusion
<1>3. ASSUME alert_mutex # NoThread
      PROVE  /\ Len(Judged) = Len(calls) - 1
             /\ \A n \in 1 .. Len(Judged) : Judged[n] = calls[n]
  <2>1. PICK n \in Nat : n = Len(calls) - 1
    BY <1>1, <1>2, <1>3
  <2>2. Judged = SubSeq(calls, 1, n)
    BY <1>3, <2>1 DEF Judged
  <2>3. Len(SubSeq(calls, 1, n)) = n /\ \A l \in 1 .. n : SubSeq(calls, 1, n)[l] = calls[l]
    BY <1>1, <2>1
  <2> QED
    BY <2>1, <2>2, <2>3
<1> QED
  BY <1>1, <1>2, <1>3 DEF Judged

-----------------------------------------------------------------------------
(* Feed's initial state, and its steps one by one. *)
LEMMA FeedInitial ==
  ASSUME PipelineInit
  PROVE  Feed!Init
<1>1. calls = <<>> /\ told = <<>> /\ alert_mutex = NoThread
  BY DEF PipelineInit, alert_engine_init
<1>2. FeedRecord = <<>> /\ FeedTold = <<>>
  BY <1>1 DEF FeedRecord, FeedTold, Judged
<1>3. FeedPhase = [t \in Threads |-> "idle"]
  BY DEF PipelineInit, FeedPhase, At
<1> QED
  BY <1>2, <1>3 DEF PipelineInit, Feed!Init

(* While the calls and the record stay, so does what Feed shows of them. *)
LEMMA RecordStays ==
  ASSUME UNCHANGED <<calls, raised, alert_mutex>>
  PROVE  FeedRecord' = FeedRecord /\ (told' = told => FeedTold' = FeedTold)
BY DEF FeedRecord, FeedTold, Judged, RaisedBy

LEMMA FeedArrivals ==
  ASSUME RInv, NEW t \in Threads, NEW m \in Measurements,
         Register(t, m) \/ Store(t, m) \/ Refuse(t, m)
  PROVE  Feed!Next
<1>1. FeedRecord' = FeedRecord /\ FeedTold' = FeedTold
  BY RecordStays DEF Register, Store, Refuse, vars
<1>2. step \in [Threads -> Steps] /\ step[t] = "idle"
  BY DEF RInv, PInv, Commands, Register, Store, Refuse, Receives, At
<1>3. CASE Register(t, m)
  <2>1. FeedPhase' = [FeedPhase EXCEPT ![t] = "reply"] /\ FeedPhase[t] = "idle"
    BY <1>2, <1>3, PhaseMoves DEF Register, Goto, Steps, Phase
  <2>2. table' = IF m.sensor_id \in DOMAIN table \/ Full(DOMAIN table) THEN table
                 ELSE [id \in DOMAIN table \cup {m.sensor_id} |->
                         IF id = m.sensor_id THEN [type |-> m.sensor_type, last_value |-> 0]
                         ELSE table[id]]
    BY <1>3 DEF Register, NewEntry
  <2>3. Feed!Register(t, m)
    BY <1>1, <1>3, <2>1, <2>2 DEF Register, Feed!Register, Feed!Goto
  <2> QED
    BY <2>3 DEF Feed!Next
<1>4. CASE Store(t, m)
  <2>1. FeedPhase' = [FeedPhase EXCEPT ![t] = "stored"] /\ FeedPhase[t] = "idle"
    BY <1>2, <1>4, PhaseMoves DEF Store, Goto, Steps, Phase
  <2>2. Feed!Store(t, m)
    BY <1>1, <1>4, <2>1 DEF Store, Registered, Feed!Store, Feed!Known, Feed!Goto
  <2> QED
    BY <2>2 DEF Feed!Next
<1>5. CASE Refuse(t, m)
  <2>1. FeedPhase' = [FeedPhase EXCEPT ![t] = "reply"] /\ FeedPhase[t] = "idle"
    BY <1>2, <1>5, PhaseMoves DEF Refuse, Goto, Steps, Phase
  <2>2. Feed!Refuse(t, m)
    BY <1>1, <1>5, <2>1 DEF Refuse, Feed!Refuse, Feed!Goto
  <2> QED
    BY <2>2 DEF Feed!Next
<1> QED
  BY <1>3, <1>4, <1>5

LEMMA FeedAnswers ==
  ASSUME RInv, NEW t \in Threads, Answer(t)
  PROVE  Feed!Next
<1>1. FeedRecord' = FeedRecord /\ FeedTold' = FeedTold
  BY RecordStays DEF Answer, vars
<1>2. step \in [Threads -> Steps] /\ step[t] = "reply"
  BY DEF RInv, PInv, Commands, Answer, At
<1>3. FeedPhase' = [FeedPhase EXCEPT ![t] = "idle"] /\ FeedPhase[t] = "reply"
  BY <1>2, PhaseMoves DEF Answer, Goto, Steps, Phase
<1>4. Feed!Answer(t)
  BY <1>1, <1>3 DEF Answer, Feed!Answer, Feed!Goto
<1> QED
  BY <1>4 DEF Feed!Next

LEMMA FeedTells ==
  ASSUME RInv, NEW t \in Threads, Tell(t)
  PROVE  Feed!Next
<1>1. FeedRecord' = FeedRecord /\ calls' = calls
  BY RecordStays DEF Tell, vars
<1>2. step \in [Threads -> Steps] /\ step[t] = "tell"
      /\ arg[t] \in 1 .. Len(calls) /\ calls[arg[t]] = reading[t]
  BY DEF RInv, PInv, Commands, Tell, At
<1>3. FeedPhase' = [FeedPhase EXCEPT ![t] = "reply"] /\ FeedPhase[t] = "tell"
  BY <1>2, PhaseMoves DEF Tell, Goto, Steps, Phase
<1>4. FeedTold' = Append(FeedTold, reading[t])
  <2>1. told \in Seq(Nat) /\ told' = Append(told, arg[t]) /\ arg[t] \in Nat
    BY <1>2, LenProperties DEF RInv, Told, Tell
  <2>2. Len(told) \in Nat /\ Len(told') = Len(told) + 1 /\ told'[Len(told) + 1] = arg[t]
        /\ \A j \in 1 .. Len(told) : told'[j] = told[j]
    BY <2>1, AppendProperties, LenProperties
  <2>3. FeedTold = [j \in 1 .. Len(told) |-> FeedTold[j]]
        /\ \A j \in 1 .. Len(told) : FeedTold[j] = calls[told[j]]
    BY DEF FeedTold
  <2>4. FeedTold' = [j \in 1 .. Len(told) + 1 |-> FeedTold'[j]]
        /\ \A j \in 1 .. Len(told) + 1 : FeedTold'[j] = calls[told'[j]]
    BY <1>1, <2>2 DEF FeedTold
  <2>5. \A j \in 1 .. Len(told) : j \in 1 .. Len(told) + 1 /\ FeedTold'[j] = FeedTold[j]
    BY <2>2, <2>3, <2>4
  <2>6. FeedTold'[Len(told) + 1] = reading[t]
    BY <1>2, <2>2, <2>4
  <2> QED
    BY <2>2, <2>3, <2>4, <2>5, <2>6, GrownFunction
<1>5. Feed!Tell(t)
  BY <1>1, <1>3, <1>4 DEF Tell, Feed!Tell, Feed!Goto
<1> QED
  BY <1>5 DEF Feed!Next

(* To enter the check, to loop in it and to end a broadcast changes nothing that Feed shows. *)
LEMMA FeedStutters ==
  ASSUME RInv, NEW t \in Threads, Enter(t) \/ Loop(t) \/ EndTell(t)
  PROVE  UNCHANGED Feed!vars
<1>1. TypeOK /\ Exclusion /\ Commands /\ Told /\ step \in [Threads -> Steps]
  BY DEF RInv, PInv, Engine, Commands
<1>2. CASE Enter(t)
  <2>1. FeedPhase' = FeedPhase
    BY <1>1, <1>2, CallsGrow DEF FeedPhase, At
  <2>2. /\ alert_mutex = NoThread /\ alert_mutex' = t /\ t # NoThread
        /\ calls' = Append(calls, reading[t])
    BY <1>2, NoThreadAssumption DEF Enter, BeginCheck
  <2>3. Judged = calls /\ Judged' = SubSeq(calls', 1, Len(calls') - 1)
    BY <2>2 DEF Judged
  <2>4. PICK n \in Nat : n = Len(calls) /\ Len(calls') - 1 = n
    BY <1>1, <1>2, CallsGrow
  <2>5. calls' \in Seq(Measurements)
    BY <1>1, <1>2, <2>2, CallsGrow, AppendProperties DEF TypeOK
  <2>6. Len(SubSeq(calls', 1, n)) = n /\ \A l \in 1 .. n : SubSeq(calls', 1, n)[l] = calls'[l]
    BY <1>1, <1>2, <2>4, <2>5, CallsGrow
  <2>7. Len(Judged') = Len(Judged) /\ \A l \in 1 .. Len(Judged) : Judged'[l] = Judged[l]
    BY <1>1, <1>2, <2>3, <2>4, <2>6, CallsGrow
  <2>8. \A l : RaisedBy(l)' = RaisedBy(l)
    BY <1>1, <1>2, CallsGrow DEF RaisedBy
  <2>9. FeedRecord' = FeedRecord
    BY <2>7, <2>8 DEF FeedRecord
  <2>10. FeedTold' = FeedTold
    BY <1>1, <1>2, CallsGrow DEF FeedTold, Told
  <2> QED
    BY <1>1, <1>2, <2>1, <2>9, <2>10, CallsGrow DEF Feed!vars
<1>3. CASE Loop(t)
  <2>1. UNCHANGED <<calls, alert_mutex, step, reading, table, told>>
    BY <1>3 DEF Loop, RaiseAlert, SkipThreshold, pipeline
  <2>2. FeedPhase' = FeedPhase /\ FeedTold' = FeedTold /\ Judged' = Judged
    BY <2>1 DEF FeedPhase, FeedTold, Judged, At
  <2>3. FeedRecord' = FeedRecord
    <3>1. CASE SkipThreshold(t)
      BY <2>1, <3>1, RecordStays DEF SkipThreshold
    <3>2. CASE RaiseAlert(t)
      <4>1. alert_mutex # NoThread
        BY <1>1, <3>2, NoThreadAssumption DEF RaiseAlert, Exclusion
      <4>2. \A n \in 1 .. Len(Judged) : n # arg[t]
        BY <1>1, <3>2, <4>1, JudgedFacts, RaiseFacts
      <4>3. ASSUME NEW n \in 1 .. Len(Judged) PROVE RaisedBy(n)' = RaisedBy(n)
        <5>1. \A k : HasRaised(n, k)' <=> HasRaised(n, k)
          BY <1>1, <3>2, <4>2, RaisedGrows
        <5>2. \A k : k \in RaisedBy(n)' <=> HasRaised(n, k)'
          BY DEF RaisedBy, HasRaised
        <5> QED
          BY <5>1, <5>2, RaisedByFacts
      <4> QED
        BY <2>2, <4>3 DEF FeedRecord
    <3> QED
      BY <1>3, <3>1, <3>2 DEF Loop
  <2> QED
    BY <2>1, <2>2, <2>3 DEF Feed!vars
<1>4. CASE EndTell(t)
  <2>1. UNCHANGED <<calls, raised, alert_mutex, reading, table, told>>
    BY <1>4 DEF EndTell, vars
  <2>2. FeedPhase' = [FeedPhase EXCEPT ![t] = "reply"] /\ FeedPhase[t] = "reply"
    BY <1>1, <1>4, PhaseMoves DEF EndTell, At, Goto, Steps, Phase
  <2>3. FeedPhase' = FeedPhase
    BY <2>2 DEF FeedPhase
  <2> QED
    BY <2>1, <2>3, RecordStays DEF Feed!vars
<1> QED
  BY <1>2, <1>3, <1>4

(* A finished check has raised exactly the thresholds that are exceeded. *)
LEMMA VerdictIsExceeds ==
  ASSUME RInv, NEW t \in Threads, Leave(t)
  PROVE  /\ RaisedBy(arg[t]) = FeedExceeds[reading[t]]
         /\ alerts_triggered[t] > 0 <=> FeedExceeds[reading[t]] # {}
<1>1. /\ TypeOK /\ Exclusion /\ Evaluated /\ Counted /\ Loaded /\ Named
      /\ pc[t] = "loop" /\ step[t] = "check" /\ i[t] > Len(thresholds)
  BY DEF RInv, PInv, Engine, Leave, EndCheck, At
<1>2. /\ arg[t] \in 1 .. Len(calls) /\ calls[arg[t]] = reading[t] /\ arg[t] # 0
      /\ reading[t] \in Measurements
  BY <1>1 DEF RInv, PInv, Commands, Exclusion
<1>3. Len(thresholds) \in Nat /\ i[t] \in Nat
  BY <1>1, LenProperties DEF TypeOK
<1>4. Len(thresholds) = MinOf(Len(Configured), MAX_ALERTS)
  <2>1. calls # <<>>
    BY <1>2
  <2>2. main_pc \in 1 .. Len(Configured) + 1 /\ Len(Configured) \in Nat
        /\ ~(main_pc <= Len(Configured))
    BY <1>1, <2>1, ConfiguredAssumption, LenProperties DEF TypeOK, Exclusion
  <2>3. main_pc - 1 = Len(Configured)
    BY <2>2
  <2> QED
    BY <1>1, <2>3 DEF Loaded
<1>5. ASSUME NEW k \in 1 .. Len(thresholds)
      PROVE  HasRaised(arg[t], k) <=> Fires(k, reading[t])
  <2>1. \A u \in Threads : pc[u] = "loop" /\ arg[u] = arg[t] => k < i[u]
    <3>1. \A u \in Threads : pc[u] = "loop" => u = t
      BY <1>1 DEF Exclusion
    <3>2. k < i[t]
      BY <1>1, <1>3
    <3> QED
      BY <3>1, <3>2
  <2> QED
    BY <1>1, <1>2, <2>1 DEF Evaluated
<1>6. \A k : HasRaised(arg[t], k) => k \in 1 .. Len(thresholds)
  BY <1>1 DEF Named, HasRaised
<1>7. \A k \in 1 .. Len(thresholds) : Fires(k, reading[t]) <=>
        /\ Configured[k].sensor_type = reading[t].sensor_type
        /\ check_condition(reading[t].value, Configured[k].threshold_value,
                           Configured[k].condition)
  BY <1>1 DEF Loaded, Fires
<1>8. FeedExceeds[reading[t]] = {k \in 1 .. Len(thresholds) : Fires(k, reading[t])}
  BY <1>2, <1>4, <1>7 DEF FeedExceeds
<1>9. RaisedBy(arg[t]) = FeedExceeds[reading[t]]
  BY <1>5, <1>6, <1>8, RaisedByFacts
<1>10. alerts_triggered[t] > 0 <=> \E k \in 1 .. Len(thresholds) : HasRaised(arg[t], k)
  BY <1>1, <1>2 DEF Counted
<1>11. FeedExceeds[reading[t]] # {} <=> \E k \in 1 .. Len(thresholds) : HasRaised(arg[t], k)
  BY <1>5, <1>8
<1> QED
  BY <1>9, <1>10, <1>11

LEMMA FeedJudges ==
  ASSUME RInv, NEW t \in Threads, Leave(t)
  PROVE  Feed!Next
<1>1. /\ TypeOK /\ Exclusion /\ step \in [Threads -> Steps] /\ step[t] = "check"
      /\ pc[t] = "loop"
  BY DEF RInv, PInv, Engine, Commands, Leave, EndCheck, At
<1>2. /\ alert_mutex = t /\ t # NoThread /\ alert_mutex' = NoThread
      /\ arg[t] = Len(calls) /\ calls[arg[t]] = reading[t]
      /\ UNCHANGED <<calls, raised, reading, table, told>>
  BY <1>1, NoThreadAssumption DEF Exclusion, RInv, PInv, Commands, Leave, EndCheck
<1>3. FeedPhase' = [FeedPhase EXCEPT ![t] = IF FeedExceeds[reading[t]] # {} THEN "tell" ELSE "reply"]
      /\ FeedPhase[t] = "stored"
  <2>1. step' = [step EXCEPT ![t] = IF FeedExceeds[reading[t]] # {} THEN "tell" ELSE "reply"]
    BY VerdictIsExceeds DEF Leave, Goto
  <2> QED
    BY <1>1, <2>1, PhaseMoves DEF Steps, Phase
<1>4. FeedRecord' = Append(FeedRecord, [of |-> reading[t], by |-> FeedExceeds[reading[t]]])
  <2>1. PICK N \in Nat : N + 1 = Len(calls) /\ Len(Judged) = N
    BY <1>1, <1>2, JudgedFacts
  <2>2. Judged' = calls
    BY <1>2 DEF Judged
  <2>3. \A n : RaisedBy(n)' = RaisedBy(n)
    BY <1>2 DEF RaisedBy
  <2>4. FeedRecord = [n \in 1 .. N |-> FeedRecord[n]]
        /\ \A n \in 1 .. N : FeedRecord[n] = [of |-> calls[n], by |-> RaisedBy(n)]
    BY <1>1, <1>2, <2>1, JudgedFacts DEF FeedRecord
  <2>5. FeedRecord' = [n \in 1 .. N + 1 |-> FeedRecord'[n]]
        /\ \A n \in 1 .. N + 1 : FeedRecord'[n] = [of |-> calls[n], by |-> RaisedBy(n)]
    BY <2>1, <2>2, <2>3 DEF FeedRecord
  <2>6. FeedRecord'[N + 1] = [of |-> reading[t], by |-> FeedExceeds[reading[t]]]
    BY <1>2, <2>1, <2>5, VerdictIsExceeds
  <2>7. \A n \in 1 .. N : n \in 1 .. N + 1 /\ FeedRecord'[n] = FeedRecord[n]
    BY <2>4, <2>5
  <2> QED
    BY <2>4, <2>5, <2>6, <2>7, GrownFunction
<1>5. FeedTold' = FeedTold
  BY <1>2 DEF FeedTold
<1>6. Feed!Judge(t)
  BY <1>2, <1>3, <1>4, <1>5 DEF Feed!Judge, Feed!Goto
<1> QED
  BY <1>6 DEF Feed!Next

(***************************************************************************)
(* What a sensor and the operators are promised of a measurement (module   *)
(* MeasurementFeed) is kept by the three critical sections of server.c, in *)
(* whatever order threads pass through them.                               *)
(***************************************************************************)
THEOREM PipelineImplementsFeed == PipelineSpec => ImplementsFeed
<1>1. PipelineInit => Feed!Init
  BY FeedInitial
<1>2. RInv /\ [PipelineNext]_allVars => [Feed!Next]_(Feed!vars)
  <2>1. ASSUME RInv, Dies \/ UNCHANGED allVars PROVE UNCHANGED Feed!vars
    BY <2>1, DeathFreezes, RecordStays DEF Feed!vars, FeedPhase, At
  <2>2. ASSUME RInv, alert_engine_register_threshold /\ UNCHANGED pipeline
        PROVE  UNCHANGED Feed!vars
    BY <2>2, RecordStays DEF alert_engine_register_threshold, pipeline, Feed!vars, FeedPhase, At
  <2> QED
    BY <2>1, <2>2, FeedArrivals, FeedAnswers, FeedTells, FeedStutters, FeedJudges
       DEF PipelineNext, Proceed
<1> QED
  BY <1>1, <1>2, RefinementInvariant, PTL DEF PipelineSpec, ImplementsFeed, Feed!Spec
=============================================================================
