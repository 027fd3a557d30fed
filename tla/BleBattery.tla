----------------------------- MODULE BleBattery -----------------------------
(***************************************************************************)
(* The battery beacon of examples/mbed-rtos-ble-battery.  One thread runs  *)
(* the event queue, whose entries are calls of BLE::processEvents and the  *)
(* periodic update of the level.  The queue has room for a fixed number of *)
(* events, the one that is running included, and a call that finds it full *)
(* is dropped without a word.                                              *)
(***************************************************************************)
EXTENDS Integers

CONSTANTS
  Capacity,  \* events the queue has room for: 16 in the code
  MaxErrors  \* bound: how many BLE calls fail

(* One slot for the event that runs, one for the update, one for the rest. *)
ASSUME CapacityAssumption == Capacity \in Nat /\ Capacity >= 3 /\ MaxErrors \in Nat

VARIABLES
  queued,    \* calls of processEvents waiting in event_queue
  running,   \* whether one is being executed
  periodic,  \* the call_every event: "none", "waiting" for its time, or "due"
  pending,   \* whether the BLE library has events that nobody processed
  phase,     \* "init", then "advertising", or "failed"
  level,     \* _battery_level
  builder,   \* _adv_data_builder: the fields in it and the level it shows
  payload,   \* what the controller advertises
  errors,    \* how many BLE calls have failed
  lag        \* history: the updates that failed since the last that did not

queue   == <<queued, running, periodic>>
battery == <<phase, level, builder, payload, errors, lag>>
vars    == <<queued, running, periodic, pending, phase, level, builder, payload,
             errors, lag>>

Field == {"manufacturer", "flags", "name", "battery"}
Data  == [fields : SUBSET Field, level : 10..100]

TypeOK ==
  /\ queued \in 0..Capacity
  /\ running \in BOOLEAN
  /\ periodic \in {"none", "waiting", "due"}
  /\ pending \in BOOLEAN
  /\ phase \in {"init", "advertising", "failed"}
  /\ level \in 10..100
  /\ builder \in Data /\ payload \in Data
  /\ errors \in 0..MaxErrors /\ lag \in 0..MaxErrors

Empty == [fields |-> {}, level |-> 50]

Init ==
  /\ queued = 0 /\ running = FALSE /\ periodic = "none"
  /\ pending = FALSE
  /\ phase = "init"
  /\ level = 50
  /\ builder = Empty /\ payload = Empty
  /\ errors = 0 /\ lag = 0

-----------------------------------------------------------------------------
(* The event queue                                                         *)

HasRoom ==
  queued + (IF running THEN 1 ELSE 0) + (IF periodic = "none" THEN 0 ELSE 1) < Capacity

(* Mutant of schedule_ble_events: nothing is scheduled while events are    *)
(* being processed.                                                        *)
ScheduleWhenIdle == queued' = IF HasRoom /\ ~running THEN queued + 1 ELSE queued

schedule_ble_events == queued' = IF HasRoom THEN queued + 1 ELSE queued

(* The library has something to process.  It calls the hook, from whatever *)
(* context it is in, and may leave that out if the last call has not been  *)
(* answered by processEvents.                                              *)
BleEvent ==
  /\ pending' = TRUE
  /\ schedule_ble_events \/ (pending /\ UNCHANGED queued)
  /\ UNCHANGED <<running, periodic, battery>>

processEvents ==
  /\ queued > 0 /\ ~running
  /\ queued' = queued - 1 /\ running' = TRUE
  /\ pending' = FALSE
  /\ UNCHANGED <<periodic, battery>>

ProcessingEnds ==
  /\ running
  /\ running' = FALSE
  /\ UNCHANGED <<queued, periodic, pending, battery>>

TimePasses ==
  /\ periodic = "waiting"
  /\ periodic' = "due"
  /\ UNCHANGED <<queued, running, pending, battery>>

-----------------------------------------------------------------------------
(* on_init_complete and start_advertising, called from processEvents       *)

(* Mutant of AdvertisingData: the builder is not cleared after it built    *)
(* the scan response.                                                      *)
ScanDataToo == [fields |-> Field, level |-> level]

AdvertisingData == [fields |-> {"flags", "name", "battery"}, level |-> level]

(* Each of the calls may be the first that fails.                          *)
InitFails ==
  /\ running /\ phase = "init"
  /\ errors < MaxErrors
  /\ errors' = errors + 1
  /\ phase' = "failed"
  /\ \/ UNCHANGED <<builder, payload>>                      \* ble.init
     \/ builder' = AdvertisingData /\ UNCHANGED payload     \* parameters, payload
     \/ builder' = AdvertisingData /\ payload' = builder'   \* startAdvertising
  /\ UNCHANGED <<queue, pending, level, lag>>

on_init_complete ==
  /\ running /\ phase = "init"
  /\ phase' = "advertising"
  /\ builder' = AdvertisingData /\ payload' = builder'
  /\ periodic' = IF HasRoom THEN "waiting" ELSE "none"
  /\ UNCHANGED <<queued, running, pending, level, errors, lag>>

-----------------------------------------------------------------------------
(* update_battery_level                                                    *)

(* Mutants of Discharged: the level is tested after it is decremented, and *)
(* the test is for the level below.                                        *)
TestedAfter  == IF level = 11 THEN 100 ELSE (level - 1) % 256
TestedTooLow == IF level = 9 THEN 100 ELSE (level - 1) % 256

(* if (_battery_level-- == 10) _battery_level = 100, on a uint8_t.         *)
Discharged == IF level = 10 THEN 100 ELSE (level - 1) % 256

UpdateRuns ==
  /\ periodic = "due" /\ ~running
  /\ periodic' = "waiting"
  /\ level' = Discharged
  /\ UNCHANGED <<queued, running, pending, phase>>

(* Mutant of Update: the payload is set before the builder has the level.  *)
UpdatePayloadFirst ==
  /\ UpdateRuns
  /\ payload' = builder
  /\ builder' = [builder EXCEPT !.level = level']
  /\ lag' = 0
  /\ UNCHANGED errors

Update ==
  /\ UpdateRuns
  /\ builder' = [builder EXCEPT !.level = level']
  /\ payload' = builder'
  /\ lag' = 0
  /\ UNCHANGED errors

(* setServiceData fails, or setAdvertisingPayload after it.                *)
UpdateFails ==
  /\ UpdateRuns
  /\ errors < MaxErrors
  /\ errors' = errors + 1 /\ lag' = lag + 1
  /\ builder' \in {builder, [builder EXCEPT !.level = level']}
  /\ UNCHANGED payload

update_battery_level == Update \/ UpdateFails

Next ==
  \/ BleEvent \/ processEvents \/ ProcessingEnds \/ TimePasses
  \/ InitFails \/ on_init_complete
  \/ update_battery_level

Spec == Init /\ [][Next]_vars

(* dispatch_forever runs what is queued, in the order of the times it is   *)
(* due: calls of processEvents, however many, do not overtake an update    *)
(* that is due.                                                            *)
FairSpec ==
  /\ Spec
  /\ WF_vars(TimePasses) /\ WF_vars(ProcessingEnds)
  /\ SF_vars(processEvents) /\ SF_vars(update_battery_level)

-----------------------------------------------------------------------------
(* Properties                                                              *)

(* What is advertised keeps its fields, none of the scan response's among  *)
(* them, and shows the level as it was before the updates that failed.     *)
PayloadShowsLevel ==
  phase = "advertising" =>
    /\ payload.fields = {"flags", "name", "battery"}
    /\ (payload.level - level - lag) % 91 = 0

(* Although the result of event_queue.call is dropped, a full queue has a  *)
(* processEvents in it: whatever the library has to process is scheduled.  *)
PendingIsScheduled == pending => queued > 0

(* No event of the BLE library waits for ever, however many there are.     *)
EventsAreProcessed == pending ~> ~pending

(* Once the queue accepted the periodic update, 100 and 10 are advertised  *)
(* again and again, though some updates fail and BLE events keep coming.   *)
KeepsDischarging ==
  \A l \in {10, 100} : periodic # "none" ~> payload.level = l
=============================================================================
