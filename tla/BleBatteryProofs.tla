-------------------------- MODULE BleBatteryProofs --------------------------
(***************************************************************************)
(* Theorems of BleBattery for every capacity of three or more and every    *)
(* number of failing calls.  PendingIsScheduled is inductive by itself,    *)
(* but only thanks to the capacity: when the queue is full, at least one   *)
(* of its entries is neither the running event nor the update.             *)
(***************************************************************************)
EXTENDS BleBattery, TLAPS

(* What start_advertising builds stays in the builder.                     *)
BuiltOnce ==
  /\ phase = "advertising" => builder.fields = {"flags", "name", "battery"}
  /\ phase # "advertising" => periodic = "none" /\ lag = 0

FewErrors == lag <= errors

(* The builder shows the current level, or the update of it failed before. *)
IInv ==
  /\ TypeOK
  /\ BuiltOnce
  /\ FewErrors
  /\ PayloadShowsLevel
  /\ PendingIsScheduled

-----------------------------------------------------------------------------
LEMMA DischargedType ==
  ASSUME level \in 10..100
  PROVE  /\ Discharged \in 10..100
         /\ Discharged = IF level = 10 THEN 100 ELSE level - 1
<1>1. level - 1 \in 0..255 => (level - 1) % 256 = level - 1
  OBVIOUS
<1> QED
  BY <1>1 DEF Discharged

LEMMA IInvInit == Init => IInv
<1> SUFFICES ASSUME Init PROVE IInv
  OBVIOUS
<1>1. Empty \in Data
  BY DEF Empty, Data
<1>2. TypeOK
  <2>1. 0 \in 0..Capacity /\ 0 \in 0..MaxErrors /\ 50 \in 10..100
    BY CapacityAssumption
  <2> QED
    BY <1>1, <2>1, Zenon DEF Init, TypeOK
<1>3. BuiltOnce /\ FewErrors /\ PayloadShowsLevel
  BY DEF Init, BuiltOnce, FewErrors, PayloadShowsLevel
<1>4. PendingIsScheduled
  BY DEF Init, PendingIsScheduled
<1> QED
  BY <1>2, <1>3, <1>4 DEF IInv

LEMMA DataLevel ==
  ASSUME NEW d \in Data, NEW l \in 10..100
  PROVE  /\ [d EXCEPT !.level = l] \in Data
         /\ [d EXCEPT !.level = l].fields = d.fields
         /\ [d EXCEPT !.level = l].level = l
  BY DEF Data

LEMMA AdvertisingDataType ==
  ASSUME level \in 10..100
  PROVE  /\ AdvertisingData \in Data
         /\ AdvertisingData.fields = {"flags", "name", "battery"}
         /\ AdvertisingData.level = level
  BY DEF AdvertisingData, Data, Field

(* The lag stays within its bound because it never exceeds the errors.     *)
LEMMA TypeStep == TypeOK /\ FewErrors /\ [Next]_vars => TypeOK'
<1> SUFFICES ASSUME TypeOK, FewErrors, [Next]_vars PROVE TypeOK'
  OBVIOUS
<1> USE CapacityAssumption DEF TypeOK, queue, battery, HasRoom, schedule_ble_events
<1>1. CASE BleEvent
  BY <1>1 DEF BleEvent
<1>2. CASE processEvents
  <2>1. queued' \in 0..Capacity /\ running' = TRUE /\ pending' = FALSE
    BY <1>2 DEF processEvents
  <2> QED
    BY <1>2, <2>1 DEF processEvents
<1>3. CASE ProcessingEnds \/ TimePasses
  BY <1>3 DEF ProcessingEnds, TimePasses
<1>4. CASE InitFails
  BY <1>4, AdvertisingDataType DEF InitFails
<1>5. CASE on_init_complete
  BY <1>5, AdvertisingDataType DEF on_init_complete
<1>6. CASE update_battery_level
  <2>1. /\ periodic' = "waiting" /\ level' \in 10..100
        /\ UNCHANGED <<queued, running, pending, phase>>
    BY <1>6, DischargedType DEF update_battery_level, Update, UpdateFails, UpdateRuns
  <2>2. [builder EXCEPT !.level = level'] \in Data
    BY <2>1, DataLevel
  <2>3. builder' \in Data /\ payload' \in Data
    BY <1>6, <2>2 DEF update_battery_level, Update, UpdateFails
  <2>4. errors' \in 0..MaxErrors /\ lag' \in 0..MaxErrors
    BY <1>6 DEF FewErrors, update_battery_level, Update, UpdateFails
  <2> QED
    BY <2>1, <2>3, <2>4
<1>7. CASE UNCHANGED vars
  BY <1>7 DEF vars
<1> QED
  BY <1>1, <1>2, <1>3, <1>4, <1>5, <1>6, <1>7 DEF Next

(* Every step but an update leaves the difference of the levels as it is.  *)
LEMMA IInvStep == IInv /\ [Next]_vars => IInv'
<1> SUFFICES ASSUME IInv, [Next]_vars PROVE IInv'
  OBVIOUS
<1>0. TypeOK /\ TypeOK'
  BY TypeStep DEF IInv
<1>1. PendingIsScheduled'
  <2>1. CASE BleEvent
    BY <1>0, <2>1, CapacityAssumption DEF IInv, TypeOK, PendingIsScheduled, BleEvent,
       schedule_ble_events, HasRoom
  <2>2. CASE ~BleEvent
    BY <1>0, <2>2 DEF IInv, TypeOK, PendingIsScheduled, Next, vars, queue,
       processEvents, ProcessingEnds, TimePasses, InitFails, on_init_complete,
       update_battery_level, Update, UpdateFails, UpdateRuns
  <2> QED
    BY <2>1, <2>2
<1>2. ASSUME UNCHANGED <<phase, level, builder, payload, errors, lag>>,
             periodic = "none" => periodic' = "none"
      PROVE  IInv'
  BY <1>0, <1>1, <1>2 DEF IInv, BuiltOnce, FewErrors, PayloadShowsLevel
<1>3. CASE BleEvent \/ processEvents \/ ProcessingEnds \/ TimePasses \/ UNCHANGED vars
  BY <1>2, <1>3 DEF BleEvent, processEvents, ProcessingEnds, TimePasses, vars, battery
<1>4. CASE InitFails
  BY <1>0, <1>1, <1>4 DEF InitFails, queue, IInv, TypeOK, BuiltOnce, FewErrors,
     PayloadShowsLevel
<1>5. CASE on_init_complete
  <2>1. (payload'.level - level' - lag') % 91 = 0
    BY <1>0, <1>5, AdvertisingDataType
       DEF on_init_complete, IInv, BuiltOnce, TypeOK
  <2> QED
    BY <1>0, <1>1, <1>5, <2>1, AdvertisingDataType DEF on_init_complete, IInv, TypeOK,
       BuiltOnce, FewErrors, PayloadShowsLevel
<1>6. CASE Update
  <2>1. /\ phase = "advertising" /\ phase' = phase
        /\ builder.fields = {"flags", "name", "battery"}
    BY <1>6 DEF Update, UpdateRuns, IInv, BuiltOnce
  <2>2. /\ builder'.fields = builder.fields /\ builder'.level = level'
        /\ payload' = builder' /\ lag' = 0 /\ errors' = errors
    BY <1>0, <1>6, DataLevel DEF Update, TypeOK
  <2>3. (payload'.level - level' - lag') % 91 = 0
    BY <1>0, <2>2 DEF TypeOK
  <2> QED
    BY <1>0, <1>1, <2>1, <2>2, <2>3
       DEF IInv, TypeOK, BuiltOnce, FewErrors, PayloadShowsLevel
<1>7. CASE UpdateFails
  <2>1. /\ phase = "advertising" /\ phase' = phase
        /\ builder.fields = {"flags", "name", "battery"}
        /\ payload.fields = {"flags", "name", "battery"}
        /\ (payload.level - level - lag) % 91 = 0
    BY <1>7 DEF UpdateFails, UpdateRuns, IInv, BuiltOnce, PayloadShowsLevel
  <2>2. /\ builder' \in {builder, [builder EXCEPT !.level = level']}
        /\ payload' = payload /\ lag' = lag + 1 /\ errors' = errors + 1
    BY <1>7 DEF UpdateFails
  <2>4. builder'.fields = builder.fields
    <3>1. builder \in Data /\ level' \in 10..100
      BY <1>0 DEF TypeOK
    <3>2. [builder EXCEPT !.level = level'].fields = builder.fields
      BY <3>1, DataLevel
    <3> QED
      BY <2>2, <3>2
  <2>3. (payload.level - level' - (lag + 1)) % 91 = 0
    <3>1. /\ level \in 10..100 /\ payload.level \in 10..100 /\ lag \in Nat
      BY <1>0, CapacityAssumption DEF TypeOK, Data
    <3>2. level' = IF level = 10 THEN 100 ELSE level - 1
      BY <1>7, <3>1, DischargedType DEF UpdateFails, UpdateRuns
    <3>3. PICK d \in Int : d = payload.level - level - lag
      BY <3>1
    <3>4. d % 91 = 0
      BY <2>1, <3>3, Zenon
    <3>5. PICK q \in Int : d = 91 * q
      BY <3>4
    <3>6. CASE level = 10
      <4>1. payload.level - level' - (lag + 1) = d - 91
        BY <3>1, <3>2, <3>3, <3>6
      <4>2. (d - 91) % 91 = 0
        BY <3>5
      <4> QED
        BY <4>1, <4>2, Zenon
    <3>7. CASE level # 10
      <4>1. level' = level - 1
        BY <3>2, <3>7
      <4>2. payload.level - level' - (lag + 1) = d
        BY <3>1, <3>3, <4>1
      <4> QED
        BY <3>4, <4>2, Zenon
    <3> QED
      BY <3>6, <3>7
  <2> QED
    BY <1>0, <1>1, <2>1, <2>2, <2>3, <2>4
       DEF IInv, TypeOK, BuiltOnce, FewErrors, PayloadShowsLevel
<1> QED
  BY <1>3, <1>4, <1>5, <1>6, <1>7 DEF Next, update_battery_level

THEOREM Invariance == Spec => []IInv
  BY IInvInit, IInvStep, PTL DEF Spec

(* The queue stays within its capacity and the byte within 10..100.        *)
THEOREM TypeCorrect == Spec => []TypeOK
<1>1. IInv => TypeOK
  BY DEF IInv
<1> QED
  BY <1>1, Invariance, PTL

(* What is advertised lags behind the level by the failed updates only.    *)
THEOREM ShowsLevel == Spec => []PayloadShowsLevel
<1>1. IInv => PayloadShowsLevel
  BY DEF IInv
<1> QED
  BY <1>1, Invariance, PTL

(* With room for three events no BLE event goes without a processEvents.   *)
THEOREM NothingForgotten == Spec => []PendingIsScheduled
<1>1. IInv => PendingIsScheduled
  BY DEF IInv
<1> QED
  BY <1>1, Invariance, PTL
=============================================================================
