----------------------------- MODULE NfcProcess -----------------------------
(***************************************************************************)
(* NFCProcess of examples/mbed-rtos-nfc/src/main.cpp: the callbacks by     *)
(* which the NFC controller tells of peers (remote initiators).  All of    *)
(* them run on one event queue, one after the other, but in an order that  *)
(* the radio decides: the end of a discovery and the peer that ended it are *)
(* told separately, and a peer may be gone again by then.                  *)
(*                                                                         *)
(* The controller is external.  What is assumed of it is what main.cpp     *)
(* relies on: it calls nobody without a delegate, reports a peer only      *)
(* while it discovers, and stops discovering with that report.             *)
(***************************************************************************)
EXTENDS SmartPoster

CONSTANTS
  Initiator,    \* remote initiators, one for each time a peer is discovered
  None,
  Posters,      \* the posters an application may build; main.cpp builds one
  Buffers,      \* lengths of the buffer given to build_ndef_message
  MaxErrors     \* bound: calls of the controller that fail

ASSUME NoneAssumption == None \notin Initiator
ASSUME PostersAssumption == Posters \subseteq Poster /\ Buffers \subseteq Nat
ASSUME ErrorsAssumption == MaxErrors \in Nat

VARIABLES
  pc,           \* main(): "init", "start", then "dispatch"
  delegate,     \* the controller has a delegate
  discovering,  \* the controller discovers
  found,        \* the peer it found and has not reported, or None
  terminated,   \* ends of discoveries not reported yet: "completed", "aborted"
  held,         \* _nfc_remote_initiator
  connected,    \* initiators that are connected
  watched,      \* initiators whose delegate is the NFCProcess
  fresh,        \* initiators not yet used
  poster, message, \* the last poster, and the message built from it
  errors

controller == <<discovering, found, terminated, fresh>>
peers      == <<held, connected, watched>>
built      == <<poster, message>>
vars       == <<pc, delegate, discovering, found, terminated, fresh, held,
                connected, watched, poster, message, errors>>

TypeOK ==
  /\ pc \in {"init", "start", "dispatch"}
  /\ delegate \in BOOLEAN /\ discovering \in BOOLEAN
  /\ found \in Initiator \cup {None}
  /\ terminated \subseteq {"completed", "aborted"}
  /\ held \in Initiator \cup {None}
  /\ connected \subseteq Initiator /\ watched = {held} \ {None}
  /\ fresh \subseteq Initiator
  /\ poster \in Posters \cup {None}
  /\ message.records \in Seq(Kind) /\ message.room \in Nat /\ message.ended \in BOOLEAN
  /\ errors \in 0..MaxErrors

Init ==
  /\ pc = "init" /\ delegate = FALSE
  /\ discovering = FALSE /\ found = None /\ terminated = {} /\ fresh = Initiator
  /\ held = None /\ connected = {} /\ watched = {}
  /\ poster = None /\ message = NoMessage
  /\ errors = 0

-----------------------------------------------------------------------------
Fail == errors < MaxErrors /\ errors' = errors + 1

(* The result is dropped wherever it is called.                            *)
start_discovery ==
  \/ discovering' = TRUE /\ UNCHANGED errors
  \/ Fail /\ UNCHANGED discovering

-----------------------------------------------------------------------------
(* main()                                                                  *)

(* Without initialize() there is no delegate, and main() goes on.          *)
init ==
  /\ pc = "init" /\ pc' = "start"
  /\ \/ delegate' = TRUE /\ UNCHANGED errors
     \/ Fail /\ UNCHANGED delegate         \* initialize
     \/ Fail /\ delegate' = TRUE           \* configure_rf_protocols
  /\ UNCHANGED <<controller, peers, built>>

StartDiscovery ==
  /\ pc = "start" /\ pc' = "dispatch"
  /\ start_discovery
  /\ UNCHANGED <<delegate, found, terminated, fresh, peers, built>>

-----------------------------------------------------------------------------
(* The controller and the radio                                            *)

Find(i) ==
  /\ discovering /\ found = None /\ i \in fresh
  /\ discovering' = FALSE
  /\ found' = i /\ fresh' = fresh \ {i}
  /\ terminated' = terminated \cup {"completed"}
  /\ UNCHANGED <<pc, delegate, peers, built, errors>>

Abort ==
  /\ discovering
  /\ discovering' = FALSE
  /\ terminated' = terminated \cup {"aborted"}
  /\ UNCHANGED <<pc, delegate, found, fresh, peers, built, errors>>

-----------------------------------------------------------------------------
(* NFCController::Delegate                                                 *)

Dispatching == pc = "dispatch" /\ delegate

(* Mutant of on_discovery_terminated: the test is the other way round.     *)
RestartWhenCompleted(reason) ==
  /\ Dispatching /\ reason \in terminated
  /\ terminated' = terminated \ {reason}
  /\ IF reason = "aborted" THEN UNCHANGED <<discovering, errors>> ELSE start_discovery
  /\ UNCHANGED <<pc, delegate, found, fresh, peers, built>>

on_discovery_terminated(reason) ==
  /\ Dispatching /\ reason \in terminated
  /\ terminated' = terminated \ {reason}
  /\ IF reason = "completed" THEN UNCHANGED <<discovering, errors>> ELSE start_discovery
  /\ UNCHANGED <<pc, delegate, found, fresh, peers, built>>

(* Mutant of on_nfc_initiator_discovered: the peer is kept in a local      *)
(* variable.                                                               *)
KeepLocal ==
  /\ Dispatching /\ found # None
  /\ found' = None
  /\ watched' = watched \cup {found}
  /\ \/ connected' = connected \cup {found} /\ UNCHANGED errors
     \/ Fail /\ UNCHANGED connected
  /\ UNCHANGED <<pc, delegate, discovering, terminated, fresh, held, built>>

(* The result of connect() is dropped.                                     *)
on_nfc_initiator_discovered ==
  /\ Dispatching /\ found # None
  /\ held' = found /\ watched' = watched \cup {found}
  /\ found' = None
  /\ \/ connected' = connected \cup {found} /\ UNCHANGED errors
     \/ Fail /\ UNCHANGED connected
  /\ UNCHANGED <<pc, delegate, discovering, terminated, fresh, built>>

-----------------------------------------------------------------------------
(* NFCRemoteInitiator::Delegate                                            *)

(* Mutant of on_disconnected: the delegate is not taken away.              *)
ResetOnly(i) ==
  /\ Dispatching /\ i \in connected \cap watched
  /\ connected' = connected \ {i}
  /\ held' = None
  /\ start_discovery
  /\ UNCHANGED <<pc, delegate, watched, found, terminated, fresh, built>>

(* Mutant of on_disconnected: discovery is left to the controller.         *)
ReleaseOnly(i) ==
  /\ Dispatching /\ i \in connected \cap watched
  /\ connected' = connected \ {i}
  /\ watched' = watched \ {held}
  /\ held' = None
  /\ UNCHANGED <<pc, delegate, controller, built, errors>>

on_disconnected(i) ==
  /\ Dispatching /\ i \in connected \cap watched
  /\ connected' = connected \ {i}
  /\ watched' = watched \ {held}
  /\ held' = None
  /\ start_discovery
  /\ UNCHANGED <<pc, delegate, found, terminated, fresh, built>>

build_ndef_message(i) ==
  /\ Dispatching /\ i \in connected \cap watched
  /\ \E sp \in Posters, n \in Buffers :
       poster' = sp /\ message' = append_record(sp, n)
  /\ UNCHANGED <<pc, delegate, controller, peers, errors>>

-----------------------------------------------------------------------------
Next ==
  \/ init \/ StartDiscovery
  \/ Abort \/ \E i \in Initiator : Find(i)
  \/ \E reason \in {"completed", "aborted"} : on_discovery_terminated(reason)
  \/ on_nfc_initiator_discovered
  \/ \E i \in Initiator : on_disconnected(i) \/ build_ndef_message(i)

Spec == Init /\ [][Next]_vars

(* The queue dispatches every event.  No peer has to come or to go.        *)
FairSpec ==
  /\ Spec
  /\ WF_vars(init) /\ WF_vars(StartDiscovery)
  /\ \A reason \in {"completed", "aborted"} : WF_vars(on_discovery_terminated(reason))
  /\ WF_vars(on_nfc_initiator_discovered)

-----------------------------------------------------------------------------
(* Properties                                                              *)

(* on_disconnected and the message callback run for the initiator that is  *)
(* held: the pointer that on_disconnected dereferences is never NULL, and  *)
(* it never releases another peer than the one that left.                  *)
HeldWhileConnected == \A i \in connected : held = i

(* The process does not discover while it talks to a peer, although three  *)
(* places start a discovery.                                               *)
OnePeerAtATime == connected # {} => ~discovering /\ found = None

(* Every message handed out describes its poster in full, or is empty.     *)
MessageDescribesPoster ==
  poster # None => message = NoMessage \/ Describes(message, poster)

(* As long as no call fails, the process always gets back to discovering   *)
(* or to a peer, whatever aborts and disconnects happen in whatever order. *)
KeepsListening ==
  [](errors = 0) => []<>(discovering \/ connected # {})
=============================================================================
