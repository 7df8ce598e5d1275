------------------------- MODULE AlertEngineProofs -------------------------
(***************************************************************************)
(* Proofs about AlertEngine, for every number of threads and calls, every  *)
(* configuration of thresholds, all measurements and every array size.     *)
(***************************************************************************)
EXTENDS AlertEngine, SequenceTheorems, TLAPS

(* The mutex excludes, and the loop's locals are within range. *)
Exclusion ==
  /\ alert_mutex # NoThread => pc[alert_mutex] = "loop"
  /\ \A t \in Threads : pc[t] = "loop" =>
       /\ alert_mutex = t
       /\ arg[t] = Len(calls) /\ arg[t] # 0
       /\ i[t] \in 1 .. Len(thresholds) + 1
  /\ \A t, u \in Threads : arg[t] = arg[u] /\ arg[t] # 0 => t = u
  /\ main_pc <= Len(Configured) => calls = <<>> /\ raised = <<>>

(* The alerts on record belong to the calls that have come so far. *)
Recorded ==
  /\ \A j \in 1 .. Len(raised) :
       /\ raised[j].timestamp <= Len(calls)
       /\ \A t \in Threads : pc[t] = "loop" /\ raised[j].timestamp = arg[t] =>
            raised[j].message < i[t]
  /\ RecordIsSerial

(* Each call has raised what its loop has passed and found to fire. *)
Evaluated ==
  \A n \in 1 .. Len(calls), k \in 1 .. Len(thresholds) :
    HasRaised(n, k) <=>
      /\ Fires(k, calls[n])
      /\ \A t \in Threads : pc[t] = "loop" /\ arg[t] = n => k < i[t]

(* The count of a call, running or returned, is positive when it has raised. *)
Counted ==
  \A t \in Threads : arg[t] # 0 =>
    ((alerts_triggered[t] > 0) <=> \E k \in 1 .. Len(thresholds) : HasRaised(arg[t], k))

-----------------------------------------------------------------------------
(* An alert built from a call that exists has the fields of an alert. *)
LEMMA AlertType ==
  ASSUME thresholds \in Seq(Threshold), calls \in Seq(Measurements),
         NEW n \in 1 .. Len(calls), NEW k \in 1 .. Len(thresholds)
  PROVE  AlertOf(n, k) \in ActiveAlert
<1>1. calls[n] \in Measurements /\ thresholds[k] \in Threshold
  BY ElementOfSeq
<1>2. /\ calls[n].value \in Int /\ calls[n].sensor_type \in STRING
      /\ calls[n].sensor_id \in {m.sensor_id : m \in Measurements}
  BY <1>1, MeasurementsAssumption
<1>3. thresholds[k].level \in Levels
  BY <1>1 DEF Threshold
<1>4. n \in Nat /\ k \in Nat
  BY LenProperties
<1>. QED
  BY <1>2, <1>3, <1>4 DEF AlertOf, ActiveAlert

(* Whatever the length of the list, room is made for one more. *)
LEMMA AddStaysBounded ==
  ASSUME NEW alerts \in Seq(ActiveAlert), Len(alerts) <= MAX_ALERTS,
         NEW alert \in ActiveAlert
  PROVE  /\ add_active_alert(alerts, alert) \in Seq(ActiveAlert)
         /\ Len(add_active_alert(alerts, alert)) <= MAX_ALERTS
<1>1. Len(alerts) \in Nat /\ MAX_ALERTS \in Nat /\ MAX_ALERTS >= 1
  BY LenProperties, MaxAlertsAssumption
<1>2. CASE Len(alerts) >= MAX_ALERTS
  <2>1. Len(alerts) = MAX_ALERTS
    BY <1>1, <1>2
  <2>2. /\ SubSeq(alerts, 2, MAX_ALERTS) \in Seq(ActiveAlert)
        /\ Len(SubSeq(alerts, 2, MAX_ALERTS)) = MAX_ALERTS - 1
    BY <1>1, <2>1, SubSeqProperties
  <2>. QED
    BY <1>1, <1>2, <2>2, AppendProperties DEF add_active_alert
<1>3. CASE ~(Len(alerts) >= MAX_ALERTS)
  BY <1>1, <1>3, AppendProperties DEF add_active_alert
<1>. QED
  BY <1>2, <1>3

(* Before main() has configured anything, nobody is in the engine. *)
LEMMA ExclusionInitial ==
  ASSUME alert_engine_init
  PROVE  TypeOK /\ Exclusion
<1>1. Len(Configured) \in Nat
  BY ConfiguredAssumption, LenProperties
<1>2. main_pc \in 1 .. Len(Configured) + 1
  BY <1>1 DEF alert_engine_init
<1>. QED
  BY <1>2, MaxAlertsAssumption DEF alert_engine_init, TypeOK, Exclusion

(* main() registers a threshold, unless the array is full. *)
LEMMA RegisterKeepsExclusion ==
  ASSUME TypeOK, Exclusion, alert_engine_register_threshold
  PROVE  TypeOK' /\ Exclusion'
<1>1. Len(Configured) \in Nat /\ Configured[main_pc] \in Threshold
  <2>1. Len(Configured) \in Nat
    BY ConfiguredAssumption, LenProperties
  <2>2. main_pc \in 1 .. Len(Configured)
    BY <2>1 DEF alert_engine_register_threshold, TypeOK
  <2>. QED
    BY <2>1, <2>2, ConfiguredAssumption, ElementOfSeq
<1>2. /\ thresholds' \in Seq(Threshold) /\ Len(thresholds') <= MAX_ALERTS
      /\ Len(thresholds') \in Nat /\ Len(thresholds) \in Nat
      /\ Len(thresholds') >= Len(thresholds)
  BY <1>1, AppendProperties, LenProperties, MaxAlertsAssumption
  DEF alert_engine_register_threshold, TypeOK
<1>3. main_pc' \in 1 .. Len(Configured) + 1
  BY <1>1 DEF alert_engine_register_threshold, TypeOK
<1>4. TypeOK'
  BY <1>2, <1>3 DEF alert_engine_register_threshold, TypeOK, locals
<1>5. calls = <<>> /\ raised = <<>>
  BY DEF alert_engine_register_threshold, Exclusion
<1>6. Exclusion'
  BY <1>2, <1>5 DEF alert_engine_register_threshold, Exclusion, locals, TypeOK
<1>. QED
  BY <1>4, <1>6

(* A thread locks the engine with a new measurement. *)
LEMMA BeginKeepsExclusion ==
  ASSUME TypeOK, Exclusion, NEW t \in Threads, NEW m \in Measurements, BeginCheck(t, m)
  PROVE  TypeOK' /\ Exclusion'
<1>1. /\ calls' = Append(calls, m) /\ calls' \in Seq(Measurements)
      /\ Len(calls) \in Nat /\ Len(calls') = Len(calls) + 1
  BY AppendProperties, LenProperties DEF BeginCheck, TypeOK
<1>2. Len(thresholds) \in Nat
  BY LenProperties DEF TypeOK
<1>3. arg' \in [Threads -> 0 .. Len(calls')]
  BY <1>1 DEF BeginCheck, TypeOK
<1>4. TypeOK'
  BY <1>1, <1>3 DEF BeginCheck, TypeOK
<1>5. \A u \in Threads : u # t => pc[u] # "loop"
  BY NoThreadAssumption DEF BeginCheck, Exclusion
<1>6. /\ arg'[t] = Len(calls') /\ arg'[t] # 0 /\ i'[t] = 1 /\ pc'[t] = "loop"
      /\ \A u \in Threads : u # t =>
           arg'[u] = arg[u] /\ arg[u] <= Len(calls) /\ pc'[u] = pc[u]
  BY <1>1 DEF BeginCheck, TypeOK
<1>7. /\ alert_mutex' = t /\ thresholds' = thresholds /\ main_pc' = main_pc
      /\ main_pc > Len(Configured)
  BY DEF BeginCheck
<1>8. \A u, v \in Threads : arg'[u] = arg'[v] /\ arg'[u] # 0 => u = v
  BY <1>1, <1>6, SMTT(30) DEF Exclusion, TypeOK
<1>9. \A u \in Threads : pc'[u] = "loop" => u = t
  BY <1>5, <1>6
<1>10. i'[t] \in 1 .. Len(thresholds') + 1
  BY <1>2, <1>6, <1>7
<1>11. ~(main_pc' <= Len(Configured))
  BY <1>7, ConfiguredAssumption, LenProperties DEF TypeOK
<1>12. Exclusion'
  BY <1>6, <1>7, <1>8, <1>9, <1>10, <1>11 DEF Exclusion
<1>. QED
  BY <1>4, <1>12

(* A threshold fires: both arrays keep their bounds. *)
LEMMA RaiseKeepsExclusion ==
  ASSUME TypeOK, Exclusion, NEW t \in Threads, RaiseAlert(t)
  PROVE  TypeOK' /\ Exclusion'
<1>1. /\ Len(thresholds) \in Nat /\ arg[t] \in 1 .. Len(calls)
      /\ i[t] \in 1 .. Len(thresholds)
  BY LenProperties DEF RaiseAlert, Exclusion, TypeOK
<1>2. AlertOf(arg[t], i[t]) \in ActiveAlert
  BY <1>1, AlertType DEF TypeOK
<1>3. /\ active_alerts' = add_active_alert(active_alerts, AlertOf(arg[t], i[t]))
      /\ raised' = Append(raised, AlertOf(arg[t], i[t]))
  BY DEF RaiseAlert
<1>4. active_alerts' \in Seq(ActiveAlert) /\ Len(active_alerts') <= MAX_ALERTS
  BY <1>2, <1>3, AddStaysBounded DEF TypeOK
<1>5. raised' \in Seq(ActiveAlert)
  BY <1>2, <1>3, AppendProperties DEF TypeOK
<1>6. i' \in [Threads -> Nat] /\ alerts_triggered' \in [Threads -> Nat]
  BY SMTT(30) DEF RaiseAlert, TypeOK
<1>7. TypeOK'
  BY <1>4, <1>5, <1>6 DEF RaiseAlert, TypeOK
<1>8. calls # <<>>
  BY <1>1
<1>9. i'[t] = i[t] + 1 /\ \A u \in Threads : u # t => i'[u] = i[u]
  BY DEF RaiseAlert, TypeOK
<1>10. \A u \in Threads : pc[u] = "loop" => i'[u] \in 1 .. Len(thresholds) + 1
  BY <1>1, <1>9 DEF Exclusion
<1>11. /\ UNCHANGED <<main_pc, thresholds, alert_mutex, pc, arg, calls>>
       /\ ~(main_pc <= Len(Configured))
  BY <1>8 DEF RaiseAlert, Exclusion
<1>12. Exclusion'
  BY <1>10, <1>11 DEF Exclusion
<1>. QED
  BY <1>7, <1>12

(* A threshold does not fire. *)
LEMMA SkipKeepsExclusion ==
  ASSUME TypeOK, Exclusion, NEW t \in Threads, SkipThreshold(t)
  PROVE  TypeOK' /\ Exclusion'
<1>1. Len(thresholds) \in Nat /\ i[t] \in 1 .. Len(thresholds)
  BY LenProperties DEF SkipThreshold, Exclusion, TypeOK
<1>2. i'[t] = i[t] + 1 /\ \A u \in Threads : u # t => i'[u] = i[u]
  BY DEF SkipThreshold, TypeOK
<1>3. i' \in [Threads -> Nat]
  BY DEF SkipThreshold, TypeOK
<1>4. TypeOK'
  BY <1>3 DEF SkipThreshold, TypeOK
<1>5. \A u \in Threads : pc[u] = "loop" => i'[u] \in 1 .. Len(thresholds) + 1
  BY <1>1, <1>2 DEF Exclusion
<1>6. UNCHANGED <<main_pc, thresholds, alert_mutex, pc, arg, calls, raised>>
  BY DEF SkipThreshold
<1>7. Exclusion'
  BY <1>5, <1>6 DEF Exclusion
<1>. QED
  BY <1>4, <1>7

(* The loop ends and the mutex is released. *)
LEMMA EndKeepsExclusion ==
  ASSUME TypeOK, Exclusion, NEW t \in Threads, EndCheck(t)
  PROVE  TypeOK' /\ Exclusion'
<1>1. TypeOK'
  BY DEF EndCheck, TypeOK
<1>2. \A u \in Threads : pc'[u] # "loop"
  BY DEF EndCheck, Exclusion, TypeOK
<1>3. /\ UNCHANGED <<main_pc, thresholds, i, arg, calls, raised>>
      /\ alert_mutex' = NoThread
  BY DEF EndCheck
<1>4. Exclusion'
  BY <1>2, <1>3 DEF Exclusion
<1>. QED
  BY <1>1, <1>4

(* Types and mutual exclusion are preserved by every step. *)
LEMMA ExclusionInductive ==
  ASSUME TypeOK, Exclusion, [Next]_vars
  PROVE  TypeOK' /\ Exclusion'
<1>1. ASSUME UNCHANGED vars PROVE TypeOK' /\ Exclusion'
  BY <1>1 DEF vars, locals, TypeOK, Exclusion
<1>2. Finished => UNCHANGED vars
  BY DEF Finished
<1>. QED
  BY <1>1, <1>2, RegisterKeepsExclusion, BeginKeepsExclusion, RaiseKeepsExclusion,
     SkipKeepsExclusion, EndKeepsExclusion DEF Next

(* Only the owner of alert_mutex is inside the loop of alert_engine.c:108. *)
THEOREM Excludes == Spec => [](TypeOK /\ Exclusion)
<1>1. TypeOK /\ Exclusion /\ [Next]_vars => TypeOK' /\ Exclusion'
  BY ExclusionInductive
<1>. QED
  BY <1>1, ExclusionInitial, PTL DEF Spec

(***************************************************************************)
(* Type correctness of the engine: neither array is overrun and no loop    *)
(* variable leaves its array, whatever is configured and measured.         *)
(***************************************************************************)
THEOREM TypeCorrect == Spec => []TypeOK
BY Excludes, PTL

-----------------------------------------------------------------------------
(***************************************************************************)
(* The list and the record.  Stated element by element, the list is the    *)
(* end of the record; a step that adds an alert keeps it so.               *)
(***************************************************************************)
IsTail(alerts, record) ==
  /\ Len(alerts) = MinOf(Len(record), MAX_ALERTS)
  /\ \A k \in 1 .. Len(alerts) : alerts[k] = record[Len(record) - Len(alerts) + k]

(* add_active_alert keeps the list the tail of the record. *)
LEMMA AddKeepsTail ==
  ASSUME NEW alerts \in Seq(ActiveAlert), NEW record \in Seq(ActiveAlert),
         IsTail(alerts, record), NEW alert \in ActiveAlert
  PROVE  IsTail(add_active_alert(alerts, alert), Append(record, alert))
<1> DEFINE new == add_active_alert(alerts, alert)
           longer == Append(record, alert)
<1>1. /\ Len(alerts) \in Nat /\ Len(record) \in Nat
      /\ MAX_ALERTS \in Nat /\ MAX_ALERTS >= 1
  BY LenProperties, MaxAlertsAssumption
<1>2. /\ longer \in Seq(ActiveAlert) /\ Len(longer) = Len(record) + 1
      /\ longer[Len(record) + 1] = alert
      /\ \A k \in 1 .. Len(record) : longer[k] = record[k]
  BY <1>1, AppendProperties
<1>3. Len(alerts) = IF Len(record) <= MAX_ALERTS THEN Len(record) ELSE MAX_ALERTS
  BY DEF IsTail, MinOf
<1>4. CASE Len(alerts) >= MAX_ALERTS
  <2> DEFINE rest == SubSeq(alerts, 2, MAX_ALERTS)
  <2>1. Len(alerts) = MAX_ALERTS /\ Len(record) >= MAX_ALERTS
    BY <1>1, <1>3, <1>4
  <2>2. /\ rest \in Seq(ActiveAlert) /\ Len(rest) = MAX_ALERTS - 1
        /\ \A k \in 1 .. MAX_ALERTS - 1 : rest[k] = alerts[k + 1]
    <3>1. /\ rest \in Seq(ActiveAlert)
          /\ Len(rest) = IF 2 <= MAX_ALERTS THEN MAX_ALERTS - 2 + 1 ELSE 0
          /\ \A k \in 1 .. MAX_ALERTS - 2 + 1 : rest[k] = alerts[2 + k - 1]
      BY <1>1, <2>1, SubSeqProperties
    <3>. QED
      BY <1>1, <3>1
  <2>3. new = Append(rest, alert)
    BY <1>4 DEF add_active_alert
  <2> HIDE DEF rest, new, longer
  <2>4. /\ Len(new) = MAX_ALERTS /\ new[MAX_ALERTS] = alert
        /\ \A k \in 1 .. MAX_ALERTS - 1 : new[k] = alerts[k + 1]
    BY <1>1, <2>2, <2>3, AppendProperties
  <2>5. ASSUME NEW k \in 1 .. MAX_ALERTS
        PROVE  new[k] = longer[Len(record) + 1 - MAX_ALERTS + k]
    <3>1. CASE k = MAX_ALERTS
      BY <1>1, <1>2, <2>4, <3>1
    <3>2. CASE k # MAX_ALERTS
      <4>1. /\ k \in 1 .. MAX_ALERTS - 1 /\ k + 1 \in 1 .. Len(alerts)
            /\ Len(record) - Len(alerts) + (k + 1) \in 1 .. Len(record)
            /\ Len(record) - Len(alerts) + (k + 1) = Len(record) + 1 - MAX_ALERTS + k
        BY <1>1, <2>1, <3>2
      <4>2. alerts[k + 1] = record[Len(record) - Len(alerts) + (k + 1)]
        BY <4>1 DEF IsTail
      <4>. QED
        BY <1>2, <2>4, <4>1, <4>2
    <3>. QED
      BY <3>1, <3>2
  <2>6. Len(new) = MinOf(Len(longer), MAX_ALERTS)
    BY <1>1, <1>2, <2>1, <2>4 DEF MinOf
  <2>7. \A k \in 1 .. Len(new) : new[k] = longer[Len(longer) - Len(new) + k]
    BY <1>1, <1>2, <2>4, <2>5
  <2>8. IsTail(new, longer)
    BY <2>6, <2>7 DEF IsTail
  <2>. QED
    BY <2>8 DEF new, longer
<1>5. CASE ~(Len(alerts) >= MAX_ALERTS)
  <2>1. new = Append(alerts, alert) /\ Len(alerts) = Len(record) /\ Len(record) < MAX_ALERTS
    BY <1>1, <1>3, <1>5 DEF add_active_alert
  <2> HIDE DEF new, longer
  <2>2. /\ Len(new) = Len(record) + 1 /\ new[Len(record) + 1] = alert
        /\ \A k \in 1 .. Len(record) : new[k] = alerts[k]
    BY <1>1, <2>1, AppendProperties
  <2>3. \A k \in 1 .. Len(record) : alerts[k] = record[k]
    BY <1>1, <2>1 DEF IsTail
  <2>4. \A k \in 1 .. Len(new) : new[k] = longer[Len(longer) - Len(new) + k]
    BY <1>1, <1>2, <2>2, <2>3
  <2>. QED
    BY <1>1, <1>2, <2>1, <2>2, <2>4 DEF IsTail, MinOf, new, longer
<1>. QED
  BY <1>4, <1>5

(* A tail as a subsequence, the form in which the property states it. *)
LEMMA TailAsSubSeq ==
  ASSUME NEW alerts \in Seq(ActiveAlert), NEW record \in Seq(ActiveAlert),
         IsTail(alerts, record)
  PROVE  alerts = SubSeq(record, Len(record) - MinOf(Len(record), MAX_ALERTS) + 1,
                         Len(record))
<1>1. /\ Len(record) \in Nat /\ Len(alerts) \in Nat
      /\ Len(alerts) = MinOf(Len(record), MAX_ALERTS) /\ Len(alerts) <= Len(record)
  BY LenProperties, MaxAlertsAssumption DEF IsTail, MinOf
<1>2. PICK first : first = Len(record) - MinOf(Len(record), MAX_ALERTS) + 1
  OBVIOUS
<1>3. /\ first \in 1 .. Len(record) + 1
      /\ Len(record) - first + 1 = Len(alerts)
      /\ \A k \in 1 .. Len(alerts) : first + k - 1 = Len(record) - Len(alerts) + k
  BY <1>1, <1>2
<1>4. PICK latest : latest = SubSeq(record, first, Len(record))
  OBVIOUS
<1>5. /\ latest \in Seq(ActiveAlert)
      /\ Len(latest) = IF first <= Len(record) THEN Len(record) - first + 1 ELSE 0
      /\ \A k \in 1 .. Len(record) - first + 1 : latest[k] = record[first + k - 1]
  BY <1>1, <1>3, <1>4, SubSeqProperties
<1>6. Len(latest) = Len(alerts) /\ \A k \in 1 .. Len(alerts) : latest[k] = alerts[k]
  BY <1>1, <1>3, <1>5 DEF IsTail
<1>7. latest = alerts
  BY <1>5, <1>6, SeqEqual
<1>. QED
  BY <1>2, <1>4, <1>7

(***************************************************************************)
(* GET_ALERTS answers from the most recent alerts, at most MAX_ALERTS of   *)
(* them, in the order they were raised, and every alert older than those   *)
(* is the only thing ever lost.                                            *)
(***************************************************************************)
THEOREM ActiveLatest == Spec => []ActiveAreLatest
<1> DEFINE Kept == IsTail(active_alerts, raised)
<1>1. alert_engine_init => Kept
  BY MaxAlertsAssumption DEF alert_engine_init, IsTail, MinOf
<1>2. TypeOK /\ Exclusion /\ Kept /\ [Next]_vars => Kept'
  <2>1. ASSUME TypeOK, Exclusion, Kept, NEW t \in Threads, RaiseAlert(t)
        PROVE  Kept'
    <3>1. arg[t] \in 1 .. Len(calls) /\ i[t] \in 1 .. Len(thresholds)
      BY <2>1, LenProperties DEF RaiseAlert, Exclusion, TypeOK
    <3>2. AlertOf(arg[t], i[t]) \in ActiveAlert
      BY <2>1, <3>1, AlertType DEF TypeOK
    <3>. QED
      BY <2>1, <3>2, AddKeepsTail DEF RaiseAlert, TypeOK
  <2>2. UNCHANGED <<active_alerts, raised>> /\ Kept => Kept'
    OBVIOUS
  <2>3. alert_engine_register_threshold => UNCHANGED <<active_alerts, raised>>
    BY DEF alert_engine_register_threshold
  <2>4. \A t \in Threads, m \in Measurements :
          BeginCheck(t, m) => UNCHANGED <<active_alerts, raised>>
    BY DEF BeginCheck
  <2>5. \A t \in Threads :
          SkipThreshold(t) \/ EndCheck(t) => UNCHANGED <<active_alerts, raised>>
    BY DEF SkipThreshold, EndCheck
  <2>6. Finished \/ UNCHANGED vars => UNCHANGED <<active_alerts, raised>>
    BY DEF Finished, vars
  <2>. QED
    BY <2>1, <2>2, <2>3, <2>4, <2>5, <2>6 DEF Next
<1>3. ASSUME TypeOK, Kept PROVE ActiveAreLatest
  <2>1. active_alerts \in Seq(ActiveAlert) /\ raised \in Seq(ActiveAlert)
    BY <1>3 DEF TypeOK
  <2>. QED
    BY <1>3, <2>1, TailAsSubSeq DEF ActiveAreLatest
<1>. QED
  BY <1>1, <1>2, <1>3, Excludes, PTL DEF Spec
-----------------------------------------------------------------------------
(***************************************************************************)
(* What the record says of the calls.                                      *)
(***************************************************************************)
RecordType == \A j \in 1 .. Len(raised) : raised[j].timestamp \in Nat /\ raised[j].message \in Nat

(* What the record holds, without the types of the measurements. *)
LEMMA RecordTyped ==
  ASSUME TypeOK
  PROVE  Len(raised) \in Nat /\ RecordType
<1>1. \A j \in 1 .. Len(raised) : raised[j] \in ActiveAlert
  BY ElementOfSeq DEF TypeOK
<1>. QED
  BY <1>1, LenProperties DEF TypeOK, ActiveAlert, RecordType

(* What RaiseAlert does to the record and to the thread's variables. *)
LEMMA RaiseFacts ==
  ASSUME TypeOK, Exclusion, NEW t \in Threads, RaiseAlert(t)
  PROVE  /\ Len(raised) \in Nat /\ Len(raised') = Len(raised) + 1
         /\ \A j \in 1 .. Len(raised) : raised'[j] = raised[j]
         /\ raised'[Len(raised) + 1].timestamp = arg[t]
         /\ raised'[Len(raised) + 1].message = i[t]
         /\ arg[t] = Len(calls) /\ arg[t] \in 1 .. Len(calls)
         /\ i[t] \in 1 .. Len(thresholds) /\ i'[t] = i[t] + 1
         /\ \A u \in Threads : pc[u] = "loop" => u = t
         /\ UNCHANGED <<thresholds, pc, arg, calls>>
<1>1. arg[t] \in 1 .. Len(calls) /\ i[t] \in 1 .. Len(thresholds)
  BY LenProperties DEF RaiseAlert, Exclusion, TypeOK
<1>2. AlertOf(arg[t], i[t]) \in ActiveAlert
  BY <1>1, AlertType DEF TypeOK
<1>3. raised' = Append(raised, AlertOf(arg[t], i[t]))
  BY DEF RaiseAlert
<1>4. /\ Len(raised) \in Nat /\ Len(raised') = Len(raised) + 1
      /\ \A j \in 1 .. Len(raised) : raised'[j] = raised[j]
      /\ raised'[Len(raised) + 1] = AlertOf(arg[t], i[t])
  BY <1>2, <1>3, AppendProperties, LenProperties DEF TypeOK
<1>5. i'[t] = i[t] + 1 /\ UNCHANGED <<thresholds, pc, arg, calls>>
  BY DEF RaiseAlert, TypeOK
<1>6. arg[t] = Len(calls) /\ \A u \in Threads : pc[u] = "loop" => u = t
  BY DEF RaiseAlert, Exclusion
<1>. QED
  BY <1>1, <1>4, <1>5, <1>6 DEF AlertOf

(* A raise adds the pair of its call and its threshold, and no other. *)
LEMMA RaisedGrows ==
  ASSUME TypeOK, Exclusion, NEW t \in Threads, RaiseAlert(t), NEW n, NEW k
  PROVE  HasRaised(n, k)' <=> HasRaised(n, k) \/ (n = arg[t] /\ k = i[t])
<1>1. \A j \in 1 .. Len(raised') : j \in 1 .. Len(raised) \/ j = Len(raised) + 1
  BY RaiseFacts
<1>2. /\ \A j \in 1 .. Len(raised) : j \in 1 .. Len(raised')
      /\ Len(raised) + 1 \in 1 .. Len(raised')
  BY RaiseFacts
<1>. QED
  BY <1>1, <1>2, RaiseFacts DEF HasRaised

(* What BeginCheck does; arg names the call just begun. *)
LEMMA BeginFacts ==
  ASSUME TypeOK, Exclusion, NEW t \in Threads, NEW m \in Measurements, BeginCheck(t, m)
  PROVE  /\ Len(calls) \in Nat /\ Len(calls') = Len(calls) + 1
         /\ \A n \in 1 .. Len(calls) : calls'[n] = calls[n]
         /\ arg'[t] = Len(calls) + 1 /\ i'[t] = 1 /\ alerts_triggered'[t] = 0
         /\ \A u \in Threads : u # t =>
              arg'[u] = arg[u] /\ alerts_triggered'[u] = alerts_triggered[u]
         /\ \A u \in Threads : arg[u] <= Len(calls)
         /\ \A u \in Threads : pc[u] # "loop"
         /\ \A u \in Threads : pc'[u] = "loop" => u = t
         /\ UNCHANGED <<thresholds, raised>>
<1>1. /\ Len(calls) \in Nat /\ Len(calls') = Len(calls) + 1
      /\ \A n \in 1 .. Len(calls) : calls'[n] = calls[n]
  BY AppendProperties, LenProperties DEF BeginCheck, TypeOK
<1>2. \A u \in Threads : pc[u] # "loop"
  BY NoThreadAssumption DEF BeginCheck, Exclusion
<1>. QED
  BY <1>1, <1>2 DEF BeginCheck, TypeOK

-----------------------------------------------------------------------------
(* The record stays in the order of the calls and of the thresholds. *)
LEMMA RecordedInductive ==
  ASSUME TypeOK, Exclusion, Recorded, [Next]_vars
  PROVE  Recorded'
<1>1. ASSUME alert_engine_register_threshold PROVE Recorded'
  BY <1>1 DEF alert_engine_register_threshold, locals, Recorded, RecordIsSerial
<1>2. ASSUME NEW t \in Threads, NEW m \in Measurements, BeginCheck(t, m)
      PROVE  Recorded'
  <2>1. \A j \in 1 .. Len(raised) :
          raised[j].timestamp \in Nat /\ raised[j].timestamp <= Len(calls)
    BY RecordTyped DEF RecordType, Recorded
  <2>2. \A j \in 1 .. Len(raised) : raised[j].timestamp # Len(calls) + 1
    BY <1>2, <2>1, BeginFacts
  <2>. QED
    BY <1>2, <2>1, <2>2, BeginFacts DEF Recorded, RecordIsSerial
<1>3. ASSUME NEW t \in Threads, RaiseAlert(t) PROVE Recorded'
  <2> DEFINE new == Len(raised) + 1
  <2>1. \A j \in 1 .. Len(raised') : j \in 1 .. Len(raised) \/ j = new
    BY <1>3, RaiseFacts
  <2>2. \A j \in 1 .. Len(raised) :
          /\ raised[j].timestamp \in Nat /\ raised[j].message \in Nat
          /\ raised[j].timestamp <= arg[t]
          /\ raised[j].timestamp = arg[t] => raised[j].message < i[t]
    BY <1>3, RecordTyped, RaiseFacts DEF RecordType, Recorded, RaiseAlert
  <2>3. arg[t] \in Nat /\ i[t] \in Nat
    BY DEF TypeOK
  <2>4. ASSUME NEW j \in 1 .. Len(raised'), NEW l \in 1 .. Len(raised'), j < l
        PROVE  \/ raised'[j].timestamp < raised'[l].timestamp
               \/ /\ raised'[j].timestamp = raised'[l].timestamp
                  /\ raised'[j].message < raised'[l].message
    <3>1. CASE l = new
      <4>1. j \in 1 .. Len(raised)
        BY <1>3, <2>1, <2>4, <3>1, RaiseFacts
      <4>. QED
        BY <1>3, <2>2, <2>3, <3>1, <4>1, RaiseFacts
    <3>2. CASE l \in 1 .. Len(raised)
      <4>1. j \in 1 .. Len(raised)
        BY <1>3, <2>4, <3>2, RaiseFacts
      <4>. QED
        BY <1>3, <2>4, <3>2, <4>1, RaiseFacts DEF Recorded, RecordIsSerial
    <3>. QED
      BY <2>1, <3>1, <3>2
  <2>5. \A j \in 1 .. Len(raised') :
          /\ raised'[j].timestamp <= Len(calls')
          /\ raised'[j].timestamp = arg'[t] => raised'[j].message < i'[t]
    <3>1. /\ raised'[new].timestamp = arg[t] /\ raised'[new].message = i[t]
          /\ \A j \in 1 .. Len(raised) : raised'[j] = raised[j]
          /\ calls' = calls /\ arg' = arg /\ i'[t] = i[t] + 1 /\ arg[t] = Len(calls)
      BY <1>3, RaiseFacts
    <3> HIDE DEF new
    <3>2. arg[t] <= Len(calls') /\ i[t] < i'[t]
      BY <2>3, <3>1
    <3>3. \A j \in 1 .. Len(raised) :
            /\ raised[j].timestamp <= Len(calls')
            /\ raised[j].timestamp = arg[t] => raised[j].message < i'[t]
      BY <2>2, <2>3, <3>1
    <3>. QED
      BY <2>1, <3>1, <3>2, <3>3
  <2>6. \A u \in Threads : pc'[u] = "loop" => u = t
    BY <1>3, RaiseFacts
  <2>7. RecordIsSerial'
    BY <2>4 DEF RecordIsSerial
  <2>. QED
    BY <2>5, <2>6, <2>7 DEF Recorded
<1>4. ASSUME NEW t \in Threads, SkipThreshold(t) PROVE Recorded'
  <2>1. i'[t] = i[t] + 1 /\ i[t] \in Nat /\ \A u \in Threads : u # t => i'[u] = i[u]
    BY <1>4 DEF SkipThreshold, TypeOK
  <2>2. UNCHANGED <<pc, arg, calls, raised>>
    BY <1>4 DEF SkipThreshold
  <2>3. \A j \in 1 .. Len(raised) : raised[j].message \in Nat
    BY RecordTyped DEF RecordType
  <2>4. \A j \in 1 .. Len(raised), u \in Threads :
          raised[j].message < i[u] => raised[j].message < i'[u]
    BY <2>1, <2>3
  <2>. QED
    BY <2>2, <2>4 DEF Recorded, RecordIsSerial
<1>5. ASSUME NEW t \in Threads, EndCheck(t) PROVE Recorded'
  <2>1. \A u \in Threads : pc'[u] = "loop" => pc[u] = "loop"
    BY <1>5 DEF EndCheck, TypeOK
  <2>. QED
    BY <1>5, <2>1 DEF EndCheck, Recorded, RecordIsSerial
<1>6. ASSUME Finished \/ UNCHANGED vars PROVE Recorded'
  BY <1>6 DEF Finished, vars, locals, Recorded, RecordIsSerial
<1>. QED
  BY <1>1, <1>2, <1>3, <1>4, <1>5, <1>6 DEF Next

(***************************************************************************)
(* Alerts of different threads never interleave in the record.             *)
(***************************************************************************)
THEOREM Serial == Spec => []RecordIsSerial
<1>1. alert_engine_init => Recorded
  BY DEF alert_engine_init, Recorded, RecordIsSerial
<1>2. TypeOK /\ Exclusion /\ Recorded /\ [Next]_vars => Recorded'
  BY RecordedInductive
<1>3. Recorded => RecordIsSerial
  BY DEF Recorded
<1>. QED
  BY <1>1, <1>2, <1>3, Excludes, PTL DEF Spec
-----------------------------------------------------------------------------
(* Finished calls stay fully evaluated, the current one up to i. *)
LEMMA EvaluatedInductive ==
  ASSUME TypeOK, Exclusion, Recorded, Evaluated, [Next]_vars
  PROVE  Evaluated'
<1>1. ASSUME alert_engine_register_threshold PROVE Evaluated'
  <2>1. calls' = <<>>
    BY <1>1 DEF alert_engine_register_threshold, Exclusion
  <2>. QED
    BY <2>1 DEF Evaluated
<1>2. ASSUME NEW t \in Threads, NEW m \in Measurements, BeginCheck(t, m)
      PROVE  Evaluated'
  <2>1. SUFFICES ASSUME NEW n \in 1 .. Len(calls'), NEW k \in 1 .. Len(thresholds)
                 PROVE  HasRaised(n, k)' <=>
                          /\ Fires(k, calls[n])'
                          /\ \A u \in Threads : pc'[u] = "loop" /\ arg'[u] = n => k < i'[u]
    BY <1>2, BeginFacts DEF Evaluated
  <2>2. HasRaised(n, k)' <=> HasRaised(n, k)
    BY <1>2 DEF BeginCheck, HasRaised
  <2>3. CASE n \in 1 .. Len(calls)
    <3>1. \A u \in Threads : ~(pc'[u] = "loop" /\ arg'[u] = n)
      BY <1>2, <2>3, BeginFacts
    <3>2. HasRaised(n, k) <=> Fires(k, calls[n])
      BY <1>2, <2>3, BeginFacts DEF Evaluated
    <3>3. Fires(k, calls[n])' <=> Fires(k, calls[n])
      BY <1>2, <2>3, BeginFacts DEF Fires
    <3>. QED
      BY <2>2, <3>1, <3>2, <3>3
  <2>4. CASE n = Len(calls) + 1
    <3>1. ~HasRaised(n, k)
      BY <2>4, RecordTyped, BeginFacts, <1>2 DEF RecordType, Recorded, HasRaised
    <3>2. pc'[t] = "loop" /\ arg'[t] = n /\ ~(k < i'[t])
      BY <1>2, <2>4, BeginFacts DEF BeginCheck, TypeOK
    <3>. QED
      BY <2>2, <3>1, <3>2
  <2>. QED
    BY <1>2, <2>3, <2>4, BeginFacts
<1>3. ASSUME NEW t \in Threads, RaiseAlert(t) PROVE Evaluated'
  <2>1. SUFFICES ASSUME NEW n \in 1 .. Len(calls), NEW k \in 1 .. Len(thresholds)
                 PROVE  HasRaised(n, k)' <=>
                          /\ Fires(k, calls[n])'
                          /\ \A u \in Threads : pc'[u] = "loop" /\ arg'[u] = n => k < i'[u]
    BY <1>3, RaiseFacts DEF Evaluated
  <2>2. Fires(k, calls[n])' <=> Fires(k, calls[n])
    BY <1>3, RaiseFacts DEF Fires
  <2>3. HasRaised(n, k)' <=> HasRaised(n, k) \/ (n = arg[t] /\ k = i[t])
    BY <1>3, RaisedGrows
  <2>4. HasRaised(n, k) <=>
          /\ Fires(k, calls[n])
          /\ \A u \in Threads : pc[u] = "loop" /\ arg[u] = n => k < i[u]
    BY DEF Evaluated
  <2>5. pc[t] = "loop" /\ Fires(i[t], calls[arg[t]])
    BY <1>3 DEF RaiseAlert
  <2>6. /\ \A u \in Threads : pc'[u] = "loop" => u = t
        /\ pc'[t] = "loop" /\ arg'[t] = arg[t] /\ i'[t] = i[t] + 1 /\ i[t] \in Nat
    BY <1>3, <2>5, RaiseFacts DEF TypeOK
  <2>7. k < i'[t] <=> k < i[t] \/ k = i[t]
    BY <2>6
  <2>8. \A u \in Threads : pc[u] = "loop" => u = t
    BY <1>3, RaiseFacts
  <2>9. CASE n = arg[t]
    BY <2>2, <2>3, <2>4, <2>5, <2>6, <2>7, <2>8, <2>9
  <2>10. CASE n # arg[t]
    BY <2>2, <2>3, <2>4, <2>6, <2>8, <2>10
  <2>. QED
    BY <2>9, <2>10
<1>4. ASSUME NEW t \in Threads, SkipThreshold(t) PROVE Evaluated'
  <2>1. UNCHANGED <<thresholds, pc, arg, calls, raised>>
    BY <1>4 DEF SkipThreshold
  <2>2. SUFFICES ASSUME NEW n \in 1 .. Len(calls), NEW k \in 1 .. Len(thresholds)
                 PROVE  HasRaised(n, k) <=>
                          /\ Fires(k, calls[n])
                          /\ \A u \in Threads : pc[u] = "loop" /\ arg[u] = n => k < i'[u]
    BY <2>1 DEF Evaluated, HasRaised, Fires
  <2>3. HasRaised(n, k) <=>
          /\ Fires(k, calls[n])
          /\ \A u \in Threads : pc[u] = "loop" /\ arg[u] = n => k < i[u]
    BY DEF Evaluated
  <2>4. pc[t] = "loop" /\ ~Fires(i[t], calls[arg[t]])
    BY <1>4 DEF SkipThreshold
  <2>5. i[t] \in Nat /\ i'[t] = i[t] + 1 /\ \A u \in Threads : u # t => i'[u] = i[u]
    BY <1>4 DEF SkipThreshold, TypeOK
  <2>6. k < i'[t] <=> k < i[t] \/ k = i[t]
    BY <2>5
  <2>7. n = arg[t] /\ k = i[t] => ~Fires(k, calls[n])
    BY <2>4
  <2>8. \A u \in Threads : pc[u] = "loop" => u = t
    BY <2>4 DEF Exclusion
  <2>. QED
    BY <2>3, <2>4, <2>6, <2>7, <2>8
<1>5. ASSUME NEW t \in Threads, EndCheck(t) PROVE Evaluated'
  <2>1. UNCHANGED <<thresholds, i, arg, calls, raised>> /\ \A u \in Threads : pc'[u] # "loop"
    BY <1>5 DEF EndCheck, Exclusion, TypeOK
  <2>2. Len(thresholds) \in Nat /\ i[t] \in Nat /\ i[t] > Len(thresholds)
    BY <1>5, LenProperties DEF EndCheck, TypeOK
  <2>3. \A u \in Threads : pc[u] = "loop" => u = t
    BY <1>5 DEF EndCheck, Exclusion
  <2>4. \A k \in 1 .. Len(thresholds), u \in Threads : pc[u] = "loop" => k < i[u]
    BY <2>2, <2>3
  <2>. QED
    BY <2>1, <2>4 DEF Evaluated, HasRaised, Fires
<1>6. ASSUME Finished \/ UNCHANGED vars PROVE Evaluated'
  BY <1>6 DEF Finished, vars, locals, Evaluated, HasRaised, Fires
<1>. QED
  BY <1>1, <1>2, <1>3, <1>4, <1>5, <1>6 DEF Next

(* The count of a call is positive iff it has raised an alert. *)
LEMMA CountedInductive ==
  ASSUME TypeOK, Exclusion, Recorded, Counted, [Next]_vars
  PROVE  Counted'
<1>1. ASSUME alert_engine_register_threshold PROVE Counted'
  <2>1. \A t \in Threads : arg'[t] = 0
    BY <1>1 DEF alert_engine_register_threshold, Exclusion, TypeOK, locals
  <2>. QED
    BY <2>1 DEF Counted
<1>2. ASSUME NEW t \in Threads, NEW m \in Measurements, BeginCheck(t, m)
      PROVE  Counted'
  <2>1. \A k : ~HasRaised(Len(calls) + 1, k)
    BY <1>2, RecordTyped, BeginFacts DEF RecordType, Recorded, HasRaised
  <2>2. ASSUME NEW u \in Threads, arg'[u] # 0
        PROVE  (alerts_triggered'[u] > 0) <=>
                 \E k \in 1 .. Len(thresholds) : HasRaised(arg'[u], k)
    <3>1. CASE u = t
      <4>1. arg'[u] = Len(calls) + 1 /\ ~(alerts_triggered'[u] > 0)
        BY <1>2, <3>1, BeginFacts
      <4>. QED
        BY <2>1, <4>1
    <3>2. CASE u # t
      <4>1. arg'[u] = arg[u] /\ alerts_triggered'[u] = alerts_triggered[u]
        BY <1>2, <3>2, BeginFacts
      <4>. QED
        BY <2>2, <4>1 DEF Counted
    <3>. QED
      BY <3>1, <3>2
  <2>3. UNCHANGED <<thresholds, raised>>
    BY <1>2 DEF BeginCheck
  <2>. QED
    BY <2>2, <2>3 DEF Counted, HasRaised
<1>3. ASSUME NEW t \in Threads, RaiseAlert(t) PROVE Counted'
  <2>1. UNCHANGED <<thresholds, arg>>
    BY <1>3 DEF RaiseAlert
  <2>2. ASSUME NEW u \in Threads, arg[u] # 0
        PROVE  (alerts_triggered'[u] > 0) <=>
                 \E k \in 1 .. Len(thresholds) : \E j \in 1 .. Len(raised') :
                   raised'[j].timestamp = arg[u] /\ raised'[j].message = k
    <3>1. PICK n : n = arg[u]
      OBVIOUS
    <3>2. \A k : HasRaised(n, k)' <=> HasRaised(n, k) \/ (n = arg[t] /\ k = i[t])
      BY <1>3, RaisedGrows
    <3>3. CASE u = t
      <4>1. alerts_triggered'[u] > 0
        BY <1>3, <3>3 DEF RaiseAlert, TypeOK
      <4>2. PICK k \in 1 .. Len(thresholds) : k = i[t]
        BY <1>3, RaiseFacts
      <4>3. HasRaised(n, k)'
        BY <3>1, <3>2, <3>3, <4>2
      <4>. QED
        BY <3>1, <4>1, <4>3 DEF HasRaised
    <3>4. CASE u # t
      <4>1. alerts_triggered'[u] = alerts_triggered[u] /\ n # arg[t]
        BY <1>3, <2>2, <3>1, <3>4 DEF RaiseAlert, TypeOK, Exclusion
      <4>2. \A k : HasRaised(n, k)' <=> HasRaised(n, k)
        BY <3>2, <4>1
      <4>3. (alerts_triggered[u] > 0) <=> \E k \in 1 .. Len(thresholds) : HasRaised(n, k)
        BY <2>2, <3>1 DEF Counted
      <4>4. (alerts_triggered[u] > 0) <=> \E k \in 1 .. Len(thresholds) : HasRaised(n, k)'
        BY <4>2, <4>3
      <4>. QED
        BY <3>1, <4>1, <4>4 DEF HasRaised
    <3>. QED
      BY <3>3, <3>4
  <2>3. ASSUME NEW u \in Threads, arg'[u] # 0
        PROVE  (alerts_triggered'[u] > 0) <=>
                 \E k \in 1 .. Len(thresholds') : \E j \in 1 .. Len(raised') :
                   raised'[j].timestamp = arg'[u] /\ raised'[j].message = k
    BY <2>1, <2>2, <2>3
  <2>. QED
    BY <2>3 DEF Counted, HasRaised
<1>4. ASSUME NEW t \in Threads, SkipThreshold(t) PROVE Counted'
  BY <1>4 DEF SkipThreshold, Counted, HasRaised
<1>5. ASSUME NEW t \in Threads, EndCheck(t) PROVE Counted'
  BY <1>5 DEF EndCheck, Counted, HasRaised
<1>6. ASSUME Finished \/ UNCHANGED vars PROVE Counted'
  BY <1>6 DEF Finished, vars, locals, Counted, HasRaised
<1>. QED
  BY <1>1, <1>2, <1>3, <1>4, <1>5, <1>6 DEF Next

(* Exclusion and the record, together. *)
Engine == Exclusion /\ Recorded /\ Evaluated /\ Counted

(* All parts of the invariant hold in every state of alert_engine.c. *)
THEOREM EngineInvariant == Spec => []Engine
<1>1. alert_engine_init => Recorded /\ Evaluated /\ Counted
  BY DEF alert_engine_init, Recorded, RecordIsSerial, Evaluated, Counted
<1>2. TypeOK /\ Engine /\ [Next]_vars => Recorded' /\ Evaluated' /\ Counted'
  BY RecordedInductive, EvaluatedInductive, CountedInductive DEF Engine
<1>. QED
  BY <1>1, <1>2, Excludes, PTL DEF Spec, Engine

(***************************************************************************)
(* When the mutex is free, every measurement has been evaluated against    *)
(* every threshold.                                                        *)
(***************************************************************************)
THEOREM Atomic == Spec => []EvaluationIsAtomic
<1>1. Engine => EvaluationIsAtomic
  <2>1. ASSUME Exclusion, alert_mutex = NoThread PROVE \A t \in Threads : pc[t] # "loop"
    BY <2>1, NoThreadAssumption DEF Exclusion
  <2>. QED
    BY <2>1 DEF Engine, Evaluated, EvaluationIsAtomic
<1>. QED
  BY <1>1, EngineInvariant, PTL

(***************************************************************************)
(* The server broadcasts a measurement exactly when it is on record.       *)
(***************************************************************************)
THEOREM ReturnsTell == Spec => []ReturnTellsRaised
<1>1. Engine => ReturnTellsRaised
  BY DEF Engine, Counted, ReturnTellsRaised
<1>. QED
  BY <1>1, EngineInvariant, PTL
=============================================================================
