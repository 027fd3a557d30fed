-------------------------- MODULE EchoClientProofs --------------------------
(***************************************************************************)
(* The safety of EchoClient for every set of protocols in every order,     *)
(* every set of packet lengths, every MTU, number of rounds and of events  *)
(* of the link and failing calls.                                          *)
(*                                                                         *)
(* The main thread, the work queue and event_handler share the work items: *)
(* what the invariant says of an item depends on where the main thread is, *)
(* and each step of the work queue leaves it alive or dead as it was.      *)
(***************************************************************************)
EXTENDS EchoClient, TLAPS

(* Something of p is left that will send again.                            *)
Alive(p) == delayed[p] \/ queued[p] \/ Running(p)

(* ... and if so, it is the handler that stop_udp found running.           *)
Quiet(p) == Alive(p) => p \in overrun

Starting == pc = "socket" \/ (phase = "start" /\ pc \in {"draw", "send", "arm"})

-----------------------------------------------------------------------------
MainType ==
  /\ pc \in {"take", "pending", "socket", "draw", "send", "arm", "check", "poll",
             "recv", "reply", "cancel", "close", "exit"}
  /\ k \in 1..Len(ProtoSeq) /\ phase \in {"start", "process"}
  /\ len \in Length \cup {0} /\ ret \in {0, -1}
  /\ sock \in [Proto -> {"invalid", "open", "closed"}]
  /\ pc = "send" => len \in Length
  /\ pc = "check" => k = 1
  /\ pc = "socket" => phase = "start"
  /\ pc \in {"poll", "recv", "reply"} => phase = "process"

(* A round that is counted leaves the loop when it was the last.           *)
RoundsInv ==
  /\ i \in 0..ITERATIONS
  /\ ITERATIONS > 0 /\ i = ITERATIONS => pc \in {"cancel", "close", "exit"}

WorkType ==
  /\ delayed \in [Proto -> BOOLEAN] /\ queued \in [Proto -> BOOLEAN]
  /\ canceling \in [Proto -> BOOLEAN]
  /\ handler \in [Proto -> {Idle, "send", "arm"}]
  /\ wqlen \in Length \cup {0}
  /\ overrun \subseteq Proto

(* The work queue runs one handler at a time, and an item is only being    *)
(* cancelled while its handler runs.                                       *)
WorkInv ==
  /\ \A p \in Proto : canceling[p] => Running(p)
  /\ \A p, q \in Proto : Running(p) /\ Running(q) => p = q
  /\ \A p \in Proto : handler[p] = "send" => wqlen \in Length

EventsType ==
  /\ connected \in BOOLEAN /\ run_app \in 0..1 /\ mtu \in {0, MTU}
  /\ event \in {Idle, "give", "reset"} /\ link \in BOOLEAN /\ resent \in BOOLEAN
  /\ linkEvents \in 0..MaxLinkEvents /\ errors \in 0..MaxErrors /\ failed \in BOOLEAN

NetType ==
  /\ expecting \in [Proto -> Length \cup {0}]
  /\ inflight \in [Proto -> SUBSET Length] /\ rx \in [Proto -> SUBSET Length]

One(b) == IF b THEN 1 ELSE 0

(* The starts that are over: an event of the link ends at most one         *)
(* k_sem_take, a connect by giving the semaphore and a disconnect by       *)
(* resetting it under a main thread that waits.                            *)
Started ==
  linkEvents + One(~CONNECTION_MANAGER) - run_app - One(event # Idle) - One(Starting)

FdsInv == nfds \in Nat /\ Started \in Nat /\ nfds <= Len(ProtoSeq) * Started

(* Which items are alive while the client runs: all of them, but for the   *)
(* one whose packet is being replaced, and those that have not started.    *)
AliveInv ==
  /\ (pc = "check" /\ ret = 0) \/ pc \in {"poll", "recv", "reply"} =>
       \A p \in Proto : Alive(p)
  /\ pc \in {"draw", "send", "arm"} =>
       IF phase = "process" THEN \A p \in Proto \ {cur} : Alive(p)
                            ELSE \A j \in 1..(k - 1) : Alive(ProtoSeq[j])

(* Which are quiet while it stops: those that stop_udp has cancelled.      *)
QuietInv ==
  /\ pc \in {"take", "pending", "exit"} => \A p \in Proto : Quiet(p)
  /\ pc = "cancel" => \A j \in 1..(k - 1) : Quiet(ProtoSeq[j])
  /\ pc = "close" => \A j \in 1..k : Quiet(ProtoSeq[j])

(* The rounds of the configuration are done.                               *)
Done == ITERATIONS > 0 /\ i >= ITERATIONS

(* A connect that event_handler has dealt with is in the semaphore or in   *)
(* the client that runs, until a call fails or the rounds are done.        *)
ServingInv ==
  /\ pc = "pending" => run_app = 0
  /\ event = "reset" => ~connected
  /\ connected /\ event = Idle /\ ~failed =>
       \/ run_app = 1
       \/ ret = 0 /\ pc \in {"socket", "draw", "send", "arm", "check", "poll", "recv", "reply"}
       \/ pc = "exit" \/ (pc \in {"cancel", "close"} /\ Done)

IInv ==
  /\ MainType /\ RoundsInv /\ WorkType /\ WorkInv /\ EventsType /\ NetType
  /\ FdsInv /\ AliveInv /\ QuietInv /\ ServingInv

-----------------------------------------------------------------------------
LEMMA ProtoFacts ==
  /\ Len(ProtoSeq) \in Nat \ {0}
  /\ \A j \in 1..Len(ProtoSeq) : ProtoSeq[j] \in Proto
  /\ \A p \in Proto : \E j \in 1..Len(ProtoSeq) : ProtoSeq[j] = p
  /\ \A j, l \in 1..Len(ProtoSeq) : ProtoSeq[j] = ProtoSeq[l] => j = l
  BY ProtoSeqAssumption

(* The protocols before the n-th.                                          *)
LEMMA Earlier ==
  ASSUME NEW n \in 1..Len(ProtoSeq)
  PROVE  \A j \in 1..(n - 1) : ProtoSeq[j] \in Proto
<1> SUFFICES ASSUME NEW j \in 1..(n - 1) PROVE j \in 1..Len(ProtoSeq)
  BY ProtoFacts
<1> QED
  BY ProtoFacts

LEMMA IInvInit == Init => IInv
<1> SUFFICES ASSUME Init PROVE IInv
  OBVIOUS
<1> USE DEF Init
<1>1. MainType
  BY ProtoFacts DEF MainType
<1>2. RoundsInv
  BY EchoBounds DEF RoundsInv
<1>3. WorkType /\ WorkInv
  BY DEF WorkType, WorkInv, Running, Idle
<1>4. EventsType
  <2>1. run_app \in 0..1 /\ linkEvents \in 0..MaxLinkEvents /\ errors \in 0..MaxErrors
    BY EchoBounds
  <2> QED
    BY <2>1, Zenon DEF EventsType
<1>5. NetType
  BY DEF NetType
<1>6. FdsInv
  <2>1. Started = 0
    BY EchoBounds DEF Started, Starting, One, Idle
  <2> QED
    BY <2>1, ProtoFacts DEF FdsInv
<1>7. AliveInv /\ QuietInv /\ ServingInv
  BY DEF AliveInv, QuietInv, Quiet, Alive, Running, Idle, ServingInv
<1> QED
  BY <1>1, <1>2, <1>3, <1>4, <1>5, <1>6, <1>7 DEF IInv

-----------------------------------------------------------------------------
(* The main thread                                                         *)

(* An event ends the k_sem_take that main is blocked in.                   *)
Woken ==
  pc = "pending" /\ StartClient /\ UNCHANGED <<len, i, sock, nfds, work, overrun>>

LEMMA EventWakes == EventStep => Woken \/ UNCHANGED main
  BY DEF EventStep, GiveRunApp, ResetRunApp, EndTake, Woken, main

LEMMA OnlyMainStep == [Next]_vars => MainStep \/ PollFails \/ Woken \/ UNCHANGED main
  BY EventWakes
  DEF Next, vars, main, WorkQueueStep, WaitReply, WaitReplySend, WaitReplyArm,
      TimerExpires, L4Connected, L4Disconnected, Deliver, Lose

LEMMA MainTypeStep == MainType /\ [Next]_vars => MainType'
<1> SUFFICES ASSUME MainType, [Next]_vars PROVE MainType'
  OBVIOUS
<1> USE ProtoFacts DEF MainType
<1>0. cur \in Proto /\ (~Last => k + 1 \in 1..Len(ProtoSeq)) /\ 1 \in 1..Len(ProtoSeq)
  BY DEF cur, Last
<1>1. CASE TakeRunApp \/ Woken
  BY <1>0, <1>1 DEF TakeRunApp, Woken, StartClient
<1>2. CASE StartProto
  <2>1. sock' \in [Proto -> {"invalid", "open", "closed"}]
    BY <1>0, <1>2 DEF StartProto
  <2>2. /\ k' \in 1..Len(ProtoSeq) /\ ret' \in {0, -1} /\ UNCHANGED <<phase, len>>
        /\ (pc' = "draw" \/ (pc' = "socket" /\ pc = "socket") \/ (pc' = "check" /\ k' = 1))
    BY <1>0, <1>2 DEF StartProto, SocketsGoOn
  <2> QED
    BY <2>1, <2>2
<1>3. CASE Draw
  BY <1>3 DEF Draw
<1>4. CASE Send
  BY <1>4 DEF Send
<1>5. CASE Arm
  <2>1. /\ UNCHANGED <<phase, sock>> /\ len' = 0
        /\ k' \in 1..Len(ProtoSeq) /\ ret' \in {0, -1}
        /\ (pc' \in {"draw", "cancel"} \/ (pc' = "check" /\ k' = 1)
             \/ (pc' = "recv" /\ phase = "process"))
    BY <1>0, <1>5 DEF Arm, StartGoesOn, ProcessGoesOn, NextProto, RoundEnds
  <2> QED
    BY <2>1
<1>6. CASE Check
  BY <1>6 DEF Check
<1>7. CASE Poll \/ PollFails
  BY <1>0, <1>7 DEF Poll, PollFails
<1>8. CASE RecvNothing \/ RecvError \/ RecvMismatch
  <2>1. /\ UNCHANGED <<phase, len, sock>> /\ phase = "process"
        /\ k' \in 1..Len(ProtoSeq) /\ ret' \in {0, -1}
        /\ (pc' \in {"cancel", "recv"} \/ (pc' = "check" /\ k' = 1))
    BY <1>0, <1>8 DEF RecvNothing, RecvError, RecvMismatch, NextProto, RoundEnds
  <2> QED
    BY <2>1
<1>9. CASE RecvMatch
  BY <1>9 DEF RecvMatch
<1>10. CASE CancelRecv
  BY <1>10 DEF CancelRecv
<1>11. CASE StopCancel
  BY <1>11 DEF StopCancel
<1>12. CASE StopClose
  <2>1. sock' \in [Proto -> {"invalid", "open", "closed"}]
    BY <1>0, <1>12 DEF StopClose
  <2>2. /\ UNCHANGED <<phase, len, ret>> /\ k' \in 1..Len(ProtoSeq)
        /\ pc' \in {"cancel", "take", "exit"}
    BY <1>0, <1>12 DEF StopClose, WaitAgainOrExit
  <2> QED
    BY <2>1, <2>2
<1>13. CASE UNCHANGED main
  BY <1>13 DEF main
<1> QED
  BY <1>1, <1>2, <1>3, <1>4, <1>5, <1>6, <1>7, <1>8, <1>9, <1>10, <1>11, <1>12, <1>13,
     OnlyMainStep DEF MainStep

LEMMA RoundsStep == RoundsInv /\ [Next]_vars => RoundsInv'
<1> SUFFICES ASSUME RoundsInv, [Next]_vars PROVE RoundsInv'
  OBVIOUS
<1> USE EchoBounds DEF RoundsInv
<1>1. CASE TakeRunApp \/ Woken \/ StartProto \/ Draw \/ Send \/ Check \/ Poll \/ PollFails
           \/ RecvMatch \/ CancelRecv \/ StopCancel
  <2>1. i' = i /\ (pc \in {"cancel", "close"} => pc' \in {"cancel", "close"}) /\ pc # "exit"
    BY <1>1 DEF TakeRunApp, Woken, StartProto, Draw, Send, Check, Poll, PollFails, RecvMatch,
       CancelRecv, StopCancel
  <2> QED
    BY <2>1
<1>2. CASE Arm \/ RecvNothing \/ RecvError \/ RecvMismatch
  <2>1. pc \notin {"cancel", "close", "exit"}
    BY <1>2 DEF Arm, RecvNothing, RecvError, RecvMismatch
  <2>2. i' = i \/ (\E r \in {0, -1, ret} : RoundEnds(r))
    BY <1>2 DEF Arm, RecvNothing, RecvError, RecvMismatch, StartGoesOn, ProcessGoesOn,
       NextProto
  <2> QED
    BY <2>1, <2>2 DEF RoundEnds
<1>3. CASE StopClose
  BY <1>3 DEF StopClose, WaitAgainOrExit
<1>4. CASE UNCHANGED main
  BY <1>4 DEF main
<1> QED
  BY <1>1, <1>2, <1>3, <1>4, OnlyMainStep DEF MainStep

-----------------------------------------------------------------------------
(* The events and the network                                              *)

LEMMA LinkIsType ==
  ASSUME EventsType, NEW up \in BOOLEAN, LinkIs(up)
  PROVE  link' \in BOOLEAN /\ resent' \in BOOLEAN /\ linkEvents' \in 0..MaxLinkEvents
<1>1. link' \in BOOLEAN /\ resent' \in BOOLEAN
  BY DEF LinkIs, EventsType
<1>2. linkEvents' \in 0..MaxLinkEvents
  BY EchoBounds DEF LinkIs, EventsType
<1> QED
  BY <1>1, <1>2

LEMMA EventsStep == EventsType /\ [Next]_vars => EventsType'
<1> SUFFICES ASSUME EventsType, [Next]_vars PROVE EventsType'
  OBVIOUS
<1>1. errors' \in 0..MaxErrors /\ failed' \in BOOLEAN
  <2>1. \/ UNCHANGED <<errors, failed>>
        \/ errors < MaxErrors /\ errors' = errors + 1 /\ (UNCHANGED failed \/ failed' = TRUE)
        \/ UNCHANGED errors /\ failed' = FALSE
    BY DEF Next, vars, MainStep, TakeRunApp, StartProto, Draw, Send, Arm, Check, Poll,
       PollFails, RecvNothing, RecvError, RecvMismatch, RecvMatch, CancelRecv, StopCancel,
       StopClose, WorkQueueStep, WaitReply, WaitReplySend, WaitReplyArm, TimerExpires,
       L4Connected, L4Disconnected, EventStep, GiveRunApp, ResetRunApp, Deliver, Lose, Fail
  <2>2. errors' \in 0..MaxErrors
    BY <2>1, EchoBounds DEF EventsType
  <2>3. failed' \in BOOLEAN
    BY <2>1 DEF EventsType
  <2> QED
    BY <2>2, <2>3
<1>2. /\ connected' \in BOOLEAN /\ run_app' \in 0..1 /\ mtu' \in {0, MTU}
      /\ event' \in {Idle, "give", "reset"} /\ link' \in BOOLEAN /\ resent' \in BOOLEAN
      /\ linkEvents' \in 0..MaxLinkEvents
  <2> USE DEF EventsType
  <2>1. CASE UNCHANGED events
    BY <2>1 DEF events
  <2>2. CASE TakeRunApp
    BY <2>2 DEF TakeRunApp
  <2>3. CASE L4Connected
    BY <2>3, LinkIsType DEF L4Connected
  <2>4. CASE L4Disconnected
    BY <2>4, LinkIsType DEF L4Disconnected
  <2>5. CASE GiveRunApp
    BY <2>5 DEF GiveRunApp
  <2>6. CASE ResetRunApp
    BY <2>6 DEF ResetRunApp
  <2> QED
    BY <2>1, <2>2, <2>3, <2>4, <2>5, <2>6
    DEF Next, vars, events, MainStep, StartProto, Draw, Send, Arm, Check, Poll, PollFails,
        RecvNothing, RecvError, RecvMismatch, RecvMatch, CancelRecv, StopCancel, StopClose,
        WorkQueueStep, WaitReply, WaitReplySend, WaitReplyArm, TimerExpires, EventStep,
        Deliver, Lose
<1> QED
  BY <1>1, <1>2, Zenon DEF EventsType

(* send() puts a length on the air that is one.                            *)
LEMMA TransmitType ==
  ASSUME NetType, NEW p \in Proto, NEW n \in Length, Transmit(p, n)
  PROVE  inflight' \in [Proto -> SUBSET Length] /\ rx' \in [Proto -> SUBSET Length]
<1>1. inflight[p] \cup {n} \in SUBSET Length
  BY DEF NetType
<1> QED
  BY <1>1 DEF NetType, Transmit

LEMMA NetStep == MainType /\ WorkInv /\ NetType /\ [Next]_vars => NetType'
<1> SUFFICES ASSUME MainType, WorkInv, NetType, [Next]_vars PROVE NetType'
  OBVIOUS
<1>0. cur \in Proto
  BY ProtoFacts DEF MainType, cur
<1>1. expecting' \in [Proto -> Length \cup {0}]
  <2>1. \/ UNCHANGED expecting
        \/ \E p \in Proto, n \in Length : expecting' = [expecting EXCEPT ![p] = n]
    BY <1>0 DEF Next, vars, MainStep, TakeRunApp, StartProto, Draw, Send, Arm, Check, Poll, PollFails,
       RecvNothing, RecvError, RecvMismatch, RecvMatch, CancelRecv, StopCancel, StopClose,
       WorkQueueStep, WaitReply, WaitReplySend, WaitReplyArm, TimerExpires, L4Connected,
       L4Disconnected, EventStep, GiveRunApp, ResetRunApp, Deliver, Lose
  <2> QED
    BY <2>1 DEF NetType
<1>2. inflight' \in [Proto -> SUBSET Length] /\ rx' \in [Proto -> SUBSET Length]
  <2>1. CASE UNCHANGED net
    BY <2>1 DEF net, NetType
  <2>2. CASE Send
    BY <1>0, <2>1, <2>2, TransmitType DEF Send, MainType
  <2>3. CASE RecvMismatch \/ RecvMatch
    BY <1>0, <2>3 DEF RecvMismatch, RecvMatch, NetType
  <2>4. CASE StopClose
    BY <1>0, <2>4 DEF StopClose, NetType
  <2>5. ASSUME NEW p \in Proto, WaitReplySend(p)
        PROVE  inflight' \in [Proto -> SUBSET Length] /\ rx' \in [Proto -> SUBSET Length]
    BY <2>5, TransmitType DEF WaitReplySend, WorkInv
  <2>6. ASSUME NEW p \in Proto, NEW n \in Length, Deliver(p, n) \/ Lose(p, n)
        PROVE  inflight' \in [Proto -> SUBSET Length] /\ rx' \in [Proto -> SUBSET Length]
    BY <2>6 DEF Deliver, Lose, NetType
  <2> QED
    BY <2>1, <2>2, <2>3, <2>4, <2>5, <2>6
    DEF Next, vars, net, MainStep, TakeRunApp, StartProto, Draw, Arm, Check, Poll, PollFails,
        RecvNothing, RecvError, CancelRecv, StopCancel, WorkQueueStep, WaitReply,
        WaitReplyArm, TimerExpires, L4Connected, L4Disconnected, EventStep, GiveRunApp,
        ResetRunApp
<1> QED
  BY <1>1, <1>2 DEF NetType

-----------------------------------------------------------------------------
(* The array of descriptors                                                *)

LEMMA Product ==
  ASSUME NEW l \in Nat, NEW a \in Nat, NEW b \in Nat, a <= b
  PROVE  l * a <= l * b /\ l * (a + 1) = l * a + l
OBVIOUS

(* A start adds one entry for each protocol, and takes one of the starts   *)
(* that the events allow.                                                  *)
LEMMA FdsStep ==
  MainType /\ EventsType /\ FdsInv /\ [Next]_vars => FdsInv'
<1> SUFFICES ASSUME MainType, EventsType, FdsInv, [Next]_vars PROVE FdsInv'
  OBVIOUS
<1>0. Len(ProtoSeq) \in Nat
  BY ProtoFacts
<1>a. /\ linkEvents \in Nat /\ run_app \in {0, 1} /\ One(~CONNECTION_MANAGER) \in {0, 1}
      /\ One(event # Idle) \in {0, 1} /\ One(Starting) \in {0, 1} /\ Started \in Nat
  BY EchoBounds DEF EventsType, One, FdsInv
<1>b. ASSUME UNCHANGED nfds, Started' \in Int, Started' >= Started PROVE FdsInv'
  <2>1. Started' \in Nat
    BY <1>a, <1>b
  <2>2. Len(ProtoSeq) * Started <= Len(ProtoSeq) * Started'
    BY <1>0, <1>a, <1>b, <2>1, Product
  <2> HIDE DEF Started
  <2>3. Len(ProtoSeq) * Started \in Nat /\ Len(ProtoSeq) * Started' \in Nat
    BY <1>0, <1>a, <2>1
  <2> QED
    BY <1>b, <2>1, <2>2, <2>3 DEF FdsInv
<1>1. CASE TakeRunApp
  <2>1. UNCHANGED <<linkEvents, event, nfds>> /\ One(Starting) = 0
    BY <1>1 DEF TakeRunApp, One, Starting
  <2>2. run_app' + One(Starting') <= run_app + One(Starting)
        /\ run_app' \in Int /\ One(Starting') \in Int
    BY <1>1, <1>a, <2>1 DEF TakeRunApp, StartClient, One, Starting
  <2>3. Started' \in Int /\ Started' >= Started
    BY <1>a, <2>1, <2>2 DEF Started
  <2> QED
    BY <1>b, <2>1, <2>3
<1>2. CASE Arm /\ nfds' # nfds
  <2>1. /\ nfds' = nfds + Len(ProtoSeq) /\ Starting /\ ~Starting'
        /\ UNCHANGED <<linkEvents, event, run_app>>
    BY <1>2 DEF Arm, StartGoesOn, ProcessGoesOn, PrepareFds, Starting, events
  <2>2. Started' = Started + 1
    BY <1>a, <2>1 DEF Started, One
  <2>3. Len(ProtoSeq) * (Started + 1) = Len(ProtoSeq) * Started + Len(ProtoSeq)
    BY <1>0, <1>a, Product
  <2> HIDE DEF Started
  <2>4. Len(ProtoSeq) * Started \in Nat
    BY <1>0, <1>a
  <2> QED
    BY <1>0, <1>a, <2>1, <2>2, <2>3, <2>4 DEF FdsInv
<1>3. CASE ((MainStep /\ ~TakeRunApp) \/ PollFails) /\ UNCHANGED nfds
  <2>1. UNCHANGED <<linkEvents, event, run_app>>
    BY <1>3 DEF MainStep, StartProto, Draw, Send, Arm, Check, Poll, PollFails, RecvNothing,
       RecvError, RecvMismatch, RecvMatch, CancelRecv, StopCancel, StopClose, events
  <2>2. Starting' => Starting
    BY <1>3 DEF MainStep, StartProto, Draw, Send, Arm, Check, Poll, PollFails, RecvNothing,
       RecvError, RecvMismatch, RecvMatch, CancelRecv, StopCancel, StopClose, Starting,
       SocketsGoOn, StartGoesOn, ProcessGoesOn, NextProto, RoundEnds, WaitAgainOrExit, MainType
  <2>3. Started' \in Int /\ Started' >= Started
    BY <1>a, <2>1, <2>2 DEF Started, One
  <2> QED
    BY <1>3, <1>b, <2>3
<1>4. CASE L4Connected \/ L4Disconnected
  <2>1. /\ linkEvents' = linkEvents + 1 /\ event = Idle /\ event' # Idle
        /\ UNCHANGED <<nfds, run_app, pc, phase>>
    BY <1>4 DEF L4Connected, L4Disconnected, LinkIs, main, Idle
  <2>2. Started' = Started
    BY <1>a, <2>1 DEF Started, One, Starting
  <2> QED
    BY <1>a, <1>b, <2>1, <2>2
<1>5. CASE EventStep
  <2>1. UNCHANGED <<linkEvents, nfds>> /\ event # Idle /\ event' = Idle
    BY <1>5 DEF EventStep, GiveRunApp, ResetRunApp, Idle
  <2>2. CASE pc = "pending"
    <3>1. run_app' <= run_app /\ run_app' \in Int /\ One(Starting) = 0 /\ One(Starting') = 1
      BY <1>5, <1>a, <2>2 DEF EventStep, GiveRunApp, ResetRunApp, EndTake, StartClient,
         One, Starting
    <3>2. One(event # Idle) = 1 /\ One(event' # Idle) = 0
      BY <2>1 DEF One
    <3>3. Started' \in Int /\ Started' >= Started
      BY <1>a, <2>1, <3>1, <3>2 DEF Started
    <3> QED
      BY <1>b, <2>1, <3>3
  <2>3. CASE pc # "pending"
    <3>1. run_app' \in {0, 1} /\ UNCHANGED <<pc, phase>>
      BY <1>5, <2>3 DEF EventStep, GiveRunApp, ResetRunApp, EndTake
    <3>2. Starting' = Starting
      BY <3>1 DEF Starting
    <3>3. One(event # Idle) = 1 /\ One(event' # Idle) = 0
      BY <2>1 DEF One
    <3>4. Started' \in Int /\ Started' >= Started
      BY <1>a, <2>1, <3>1, <3>2, <3>3 DEF Started
    <3> QED
      BY <1>b, <2>1, <3>4
  <2> QED
    BY <2>2, <2>3
<1>6. CASE UNCHANGED <<linkEvents, nfds, pc, phase, event, run_app>>
  <2>1. Started' = Started
    BY <1>6 DEF Started, One, Starting
  <2> QED
    BY <1>6, <1>a, <1>b, <2>1
<1>7. (MainStep /\ ~Arm) \/ PollFails => UNCHANGED nfds
  BY DEF MainStep, TakeRunApp, StartProto, Draw, Send, Check, Poll, PollFails, RecvNothing,
     RecvError, RecvMismatch, RecvMatch, CancelRecv, StopCancel, StopClose
<1> QED
  BY <1>1, <1>2, <1>3, <1>4, <1>5, <1>6, <1>7
  DEF Next, vars, main, events, WorkQueueStep, WaitReply, WaitReplySend, WaitReplyArm,
      TimerExpires, Deliver, Lose, MainStep, Arm

-----------------------------------------------------------------------------
(* The work items                                                          *)

LEMMA WorkTypeStep == MainType /\ WorkType /\ [Next]_vars => WorkType'
<1> SUFFICES ASSUME MainType, WorkType, [Next]_vars PROVE WorkType'
  OBVIOUS
<1>0. cur \in Proto
  BY ProtoFacts DEF MainType, cur
<1>1. ASSUME NEW p \in Proto, Cancel(p), UNCHANGED <<handler, wqlen>>,
             overrun' \subseteq Proto
      PROVE  WorkType'
  BY <1>1 DEF Cancel, Running, WorkType
<1>2. CASE UNCHANGED <<work, overrun>>
  BY <1>2 DEF work, WorkType
<1>3. CASE StartProto
  BY <1>0, <1>3 DEF StartProto, WorkType
<1>4. CASE Arm
  BY <1>0, <1>4 DEF Arm, Reschedule, WorkType
<1>5. CASE CancelRecv
  BY <1>0, <1>1, <1>5 DEF CancelRecv, WorkType
<1>6. CASE StopCancel
  BY <1>0, <1>1, <1>6 DEF StopCancel, WorkType
<1>7. ASSUME NEW p \in Proto, WorkQueueStep(p) \/ TimerExpires(p) PROVE WorkType'
  BY <1>7 DEF WorkQueueStep, WaitReply, WaitReplySend, WaitReplyArm, Reschedule,
     TimerExpires, WorkType
<1> QED
  BY <1>2, <1>3, <1>4, <1>5, <1>6, <1>7
  DEF Next, vars, work, MainStep, TakeRunApp, Draw, Send, Check, Poll, PollFails, RecvNothing,
      RecvError, RecvMismatch, RecvMatch, StopClose, L4Connected, L4Disconnected,
      EventStep, GiveRunApp, ResetRunApp, Deliver, Lose

LEMMA WorkInvStep == MainType /\ WorkType /\ WorkInv /\ [Next]_vars => WorkInv'
<1> SUFFICES ASSUME MainType, WorkType, WorkInv, [Next]_vars PROVE WorkInv'
  OBVIOUS
<1>0. cur \in Proto
  BY ProtoFacts DEF MainType, cur
<1>1. ASSUME NEW p \in Proto, UNCHANGED <<handler, wqlen>>,
             canceling' = [canceling EXCEPT ![p] = canceling'[p]],
             canceling'[p] => Running(p)
      PROVE  WorkInv'
  BY <1>1 DEF Running, WorkType, WorkInv
<1>2. CASE UNCHANGED <<canceling, handler, wqlen>>
  BY <1>2 DEF Running, WorkInv
<1>3. CASE StartProto
  BY <1>0, <1>1, <1>3 DEF StartProto, WorkType
<1>4. CASE CancelRecv \/ StopCancel
  BY <1>0, <1>1, <1>4 DEF CancelRecv, StopCancel, Cancel, WorkType
<1>5. ASSUME NEW p \in Proto, WaitReply(p) PROVE WorkInv'
  BY <1>5 DEF WaitReply, Running, Idle, WorkType, WorkInv
<1>6. ASSUME NEW p \in Proto, WaitReplySend(p) PROVE WorkInv'
  BY <1>6 DEF WaitReplySend, Running, Idle, WorkType, WorkInv
<1>7. ASSUME NEW p \in Proto, WaitReplyArm(p) PROVE WorkInv'
  BY <1>7 DEF WaitReplyArm, Running, Idle, WorkType, WorkInv
<1> QED
  BY <1>2, <1>3, <1>4, <1>5, <1>6, <1>7
  DEF Next, vars, work, MainStep, TakeRunApp, Draw, Send, Arm, Check, Poll, PollFails, RecvNothing,
      RecvError, RecvMismatch, RecvMatch, StopClose, WorkQueueStep, TimerExpires,
      L4Connected, L4Disconnected, EventStep, GiveRunApp, ResetRunApp, Deliver, Lose

(* What main thread and work queue do to an item that the main thread does *)
(* not work on.                                                            *)
SameLife(p) == (Alive(p)' <=> Alive(p)) /\ (Quiet(p) => Quiet(p)')

(* The work queue moves items on, and loses or revives none.               *)
LEMMA WorkQueueLife ==
  ASSUME WorkType, WorkInv, NEW p \in Proto, WorkQueueStep(p) \/ TimerExpires(p)
  PROVE  UNCHANGED main /\ \A q \in Proto : SameLife(q)
<1>1. UNCHANGED <<main, overrun>>
  BY DEF WorkQueueStep, WaitReply, WaitReplySend, WaitReplyArm, TimerExpires
<1>2. ASSUME NEW q \in Proto PROVE Alive(q)' <=> Alive(q)
  <2> USE DEF Alive, Running, Idle, WorkType, WorkInv
  <2>1. CASE q # p
    BY <2>1 DEF WorkQueueStep, WaitReply, WaitReplySend, WaitReplyArm, Reschedule,
       TimerExpires
  <2>2. CASE q = p /\ TimerExpires(p)
    BY <2>2 DEF TimerExpires
  <2>3. CASE q = p /\ WaitReply(p)
    BY <2>3 DEF WaitReply
  <2>4. CASE q = p /\ WaitReplySend(p)
    BY <2>4 DEF WaitReplySend
  <2>5. CASE q = p /\ WaitReplyArm(p)
    BY <2>5 DEF WaitReplyArm, Reschedule
  <2> QED
    BY <2>1, <2>2, <2>3, <2>4, <2>5 DEF WorkQueueStep
<1> QED
  BY <1>1, <1>2 DEF SameLife, Quiet

(* So do all other steps, but for one item in a few steps of the main      *)
(* thread.                                                                 *)
LEMMA OthersLife ==
  ASSUME MainType, WorkType, WorkInv, [Next]_vars
  PROVE  \A q \in Proto :
           q # cur \/ ~(StartProto \/ Arm \/ CancelRecv \/ StopCancel) => SameLife(q)
<1>0. cur \in Proto
  BY ProtoFacts DEF MainType, cur
<1>1. CASE UNCHANGED <<work, overrun>>
  BY <1>1 DEF work, SameLife, Quiet, Alive, Running
<1>2. CASE StartProto \/ Arm \/ CancelRecv \/ StopCancel
  <2>1. /\ handler' = handler
        /\ \A q \in Proto \ {cur} : delayed'[q] = delayed[q] /\ queued'[q] = queued[q]
                                    /\ (q \in overrun' <=> q \in overrun)
    BY <1>0, <1>2 DEF StartProto, Arm, CancelRecv, StopCancel, Reschedule, Cancel, WorkType
  <2> QED
    BY <1>2, <2>1 DEF SameLife, Quiet, Alive, Running
<1>3. ASSUME NEW p \in Proto, WorkQueueStep(p) \/ TimerExpires(p)
      PROVE  \A q \in Proto : SameLife(q)
  BY <1>3, WorkQueueLife
<1> QED
  BY <1>1, <1>2, <1>3
  DEF Next, vars, work, MainStep, TakeRunApp, Draw, Send, Check, Poll, PollFails, RecvNothing,
      RecvError, RecvMismatch, RecvMatch, StopClose, L4Connected, L4Disconnected,
      EventStep, GiveRunApp, ResetRunApp, Deliver, Lose

(* No step that changes an item leaves the main thread where it was.       *)
LEMMA MainMoves ==
  MainType /\ (StartProto \/ Arm \/ CancelRecv \/ StopCancel) => ~UNCHANGED <<pc, k>>
  BY ProtoFacts DEF MainType, StartProto, SocketsGoOn, Arm, StartGoesOn, ProcessGoesOn,
     NextProto, RoundEnds, CancelRecv, StopCancel

LEMMA AliveStep ==
  MainType /\ WorkType /\ WorkInv /\ AliveInv /\ [Next]_vars => AliveInv'
<1> SUFFICES ASSUME MainType, WorkType, WorkInv, AliveInv, [Next]_vars PROVE AliveInv'
  OBVIOUS
<1>0. cur \in Proto
  BY ProtoFacts DEF MainType, cur
<1>a. ASSUME \A q \in Proto : Alive(q)' PROVE AliveInv'
  <2>1. k' \in 1..Len(ProtoSeq)
    BY MainTypeStep DEF MainType
  <2>2. \A j \in 1..(k' - 1) : ProtoSeq[j] \in Proto
    BY <2>1, Earlier
  <2> QED
    BY <1>a, <2>2 DEF AliveInv
<1>1. CASE UNCHANGED main
  <2>1. \A q \in Proto : Alive(q)' <=> Alive(q)
    BY <1>1, MainMoves, OthersLife DEF main, SameLife
  <2>2. cur' = cur /\ UNCHANGED <<pc, k, phase, ret>>
    BY <1>1 DEF main, cur
  <2>3. \A j \in 1..(k - 1) : ProtoSeq[j] \in Proto
    BY Earlier DEF MainType
  <2> QED
    BY <2>1, <2>2, <2>3 DEF AliveInv
<1>2. CASE TakeRunApp \/ Woken \/ StopCancel \/ StopClose
  <2>1. pc' \in {"socket", "close", "cancel", "take", "pending", "exit"}
    BY <1>2 DEF TakeRunApp, Woken, StartClient, StopCancel, StopClose, WaitAgainOrExit
  <2> QED
    BY <2>1 DEF AliveInv
<1>3. CASE StartProto
  <2>1. \/ pc' = "socket"
        \/ pc' = "draw" /\ phase' = "start" /\ k' = 1
        \/ pc' = "check" /\ ret' = -1
    BY <1>3 DEF StartProto, SocketsGoOn, MainType
  <2> QED
    BY <2>1 DEF AliveInv
<1>4. CASE Draw \/ Send
  <2>1. \A q \in Proto : Alive(q)' <=> Alive(q)
    BY <1>4, OthersLife DEF Draw, Send, StartProto, Arm, CancelRecv, StopCancel, SameLife
  <2>2. /\ cur' = cur /\ UNCHANGED <<k, phase>>
        /\ pc \in {"draw", "send"} /\ pc' \in {"send", "arm"}
    BY <1>4 DEF Draw, Send, cur
  <2>3. \A j \in 1..(k - 1) : ProtoSeq[j] \in Proto
    BY Earlier DEF MainType
  <2> QED
    BY <2>1, <2>2, <2>3 DEF AliveInv
<1>5. CASE Arm
  <2>1. ASSUME NEW q \in Proto, q = cur PROVE Alive(q)'
    BY <1>5, <2>1 DEF Arm, Reschedule, Alive, WorkType, Running
  <2>2. \A q \in Proto \ {cur} : Alive(q)' <=> Alive(q)
    BY <1>5, OthersLife DEF SameLife
  <2>3. CASE phase = "process"
    <3>1. \A q \in Proto \ {cur} : Alive(q)
      BY <1>5, <2>3 DEF Arm, AliveInv
    <3> QED
      BY <1>a, <2>1, <2>2, <3>1
  <2>4. CASE phase = "start" /\ ret = 0
    <3>a. \A j \in 1..(k - 1) : Alive(ProtoSeq[j])
      BY <1>5, <2>4 DEF Arm, AliveInv
    <3>1. ASSUME NEW j \in 1..k PROVE Alive(ProtoSeq[j])'
      <4>1. ProtoSeq[j] \in Proto /\ (j = k \/ j \in 1..(k - 1))
        BY ProtoFacts DEF MainType
      <4> QED
        BY <2>1, <2>2, <3>a, <4>1 DEF cur
    <3>2. CASE Last
      BY <1>a, <3>1, <3>2, ProtoFacts DEF Last
    <3>3. CASE ~Last
      <4>1. pc' = "draw" /\ k' = k + 1 /\ phase' = "start"
        BY <1>5, <2>4, <3>3 DEF Arm, StartGoesOn, ProcessGoesOn
      <4>2. k' - 1 = k
        BY <4>1 DEF MainType
      <4> QED
        BY <3>1, <4>1, <4>2 DEF AliveInv
    <3> QED
      BY <3>2, <3>3
  <2>5. CASE phase = "start" /\ ret # 0
    <3>1. pc' = "check" /\ ret' # 0
      BY <1>5, <2>5 DEF Arm, StartGoesOn, ProcessGoesOn
    <3> QED
      BY <3>1 DEF AliveInv
  <2> QED
    BY <2>3, <2>4, <2>5 DEF MainType
<1>6. CASE Check \/ Poll \/ PollFails \/ RecvNothing \/ RecvError \/ RecvMismatch \/ RecvMatch
  <2>1. \A q \in Proto : Alive(q)' <=> Alive(q)
    BY <1>6, OthersLife DEF Check, Poll, PollFails, RecvNothing, RecvError, RecvMismatch, RecvMatch,
       StartProto, Arm, CancelRecv, StopCancel, SameLife
  <2>2. CASE \A q \in Proto : Alive(q)
    BY <1>a, <2>1, <2>2
  <2>3. CASE Check /\ ret # 0
    BY <2>3 DEF Check, AliveInv
  <2> QED
    BY <1>6, <2>2, <2>3 DEF Check, Poll, PollFails, RecvNothing, RecvError, RecvMismatch, RecvMatch,
       AliveInv
<1>7. CASE CancelRecv
  <2>1. \A q \in Proto \ {cur} : Alive(q)' <=> Alive(q)
    BY <1>7, OthersLife DEF SameLife
  <2>2. /\ pc = "reply" /\ pc' = "draw" /\ phase' = "process" /\ cur' = cur
    BY <1>7 DEF CancelRecv, MainType, cur
  <2> QED
    BY <2>1, <2>2 DEF AliveInv
<1> QED
  BY <1>1, <1>2, <1>3, <1>4, <1>5, <1>6, <1>7, OnlyMainStep DEF MainStep

LEMMA QuietStep ==
  MainType /\ WorkType /\ WorkInv /\ QuietInv /\ [Next]_vars => QuietInv'
<1> SUFFICES ASSUME MainType, WorkType, WorkInv, QuietInv, [Next]_vars PROVE QuietInv'
  OBVIOUS
<1>0. cur \in Proto /\ \A j \in 1..k : ProtoSeq[j] \in Proto
  BY ProtoFacts DEF MainType, cur
<1>1. CASE UNCHANGED main
  <2>1. \A q \in Proto : Quiet(q) => Quiet(q)'
    BY <1>1, MainMoves, OthersLife DEF main, SameLife
  <2>2. UNCHANGED <<pc, k>>
    BY <1>1 DEF main
  <2> QED
    BY <1>0, <2>1, <2>2 DEF QuietInv, MainType
<1>2. CASE \/ MainStep /\ ~TakeRunApp /\ ~StopCancel /\ ~StopClose
           \/ PollFails \/ Woken
  <2>1. pc' \notin {"take", "pending", "exit", "close"} /\ (pc' = "cancel" => k' = 1)
    BY <1>2 DEF MainStep, Woken, StartClient, StartProto, SocketsGoOn, Draw, Send, Arm,
       StartGoesOn, ProcessGoesOn, NextProto, RoundEnds, Check, Poll, PollFails, RecvNothing,
       RecvError, RecvMismatch, RecvMatch, CancelRecv, MainType
  <2> QED
    BY <2>1 DEF QuietInv
<1>5. CASE TakeRunApp
  <2>1. \A q \in Proto : Quiet(q) => Quiet(q)'
    BY <1>5, OthersLife DEF TakeRunApp, StartProto, Arm, CancelRecv, StopCancel, SameLife
  <2>2. pc = "take" /\ pc' \in {"socket", "pending"}
    BY <1>5 DEF TakeRunApp, StartClient
  <2> QED
    BY <2>1, <2>2 DEF QuietInv
<1>3. CASE StopCancel
  <2>1. ASSUME NEW q \in Proto, q = cur PROVE Quiet(q)'
    BY <1>3, <2>1 DEF StopCancel, Cancel, Quiet, Alive, Running, WorkType
  <2>2. \A q \in Proto \ {cur} : Quiet(q) => Quiet(q)'
    BY <1>3, OthersLife DEF SameLife
  <2>3. \A j \in 1..(k - 1) : Quiet(ProtoSeq[j])
    BY <1>3 DEF StopCancel, QuietInv
  <2>4. \A j \in 1..k : Quiet(ProtoSeq[j])'
    BY <1>0, <2>1, <2>2, <2>3 DEF MainType, cur
  <2> QED
    BY <1>3, <2>4 DEF StopCancel, QuietInv
<1>4. CASE StopClose
  <2>1. \A q \in Proto : Quiet(q) => Quiet(q)'
    BY <1>4, OthersLife DEF StopClose, StartProto, Arm, CancelRecv, StopCancel, SameLife
  <2>2. \A j \in 1..k : Quiet(ProtoSeq[j])
    BY <1>4 DEF StopClose, QuietInv
  <2>3. \A j \in 1..k : Quiet(ProtoSeq[j])'
    BY <1>0, <2>1, <2>2
  <2>4. CASE Last
    BY <1>4, <2>3, <2>4, ProtoFacts DEF StopClose, WaitAgainOrExit, Last, QuietInv
  <2>5. CASE ~Last
    <3>1. pc' = "cancel" /\ k' - 1 = k
      BY <1>4, <2>5 DEF StopClose, MainType
    <3> QED
      BY <2>3, <3>1 DEF QuietInv
  <2> QED
    BY <2>4, <2>5
<1> QED
  BY <1>1, <1>2, <1>3, <1>4, <1>5, OnlyMainStep

-----------------------------------------------------------------------------
(* The semaphore                                                           *)

LEMMA ServingStep ==
  MainType /\ RoundsInv /\ EventsType /\ ServingInv /\ [Next]_vars => ServingInv'
<1> SUFFICES ASSUME MainType, RoundsInv, EventsType, ServingInv, [Next]_vars
             PROVE  ServingInv'
  OBVIOUS
<1> USE DEF ServingInv
<1>1. CASE TakeRunApp
  BY <1>1 DEF TakeRunApp, StartClient, EventsType
<1>2. CASE StartProto \/ Draw \/ Send
  <2>1. /\ UNCHANGED <<connected, event, run_app>>
        /\ pc \in {"socket", "draw", "send"} /\ pc' \in {"socket", "draw", "send", "arm", "check"}
        /\ failed' \/ (UNCHANGED <<failed, ret>>)
    BY <1>2 DEF StartProto, SocketsGoOn, Draw, Send, Fail, events
  <2> QED
    BY <2>1
<1>3. CASE Arm \/ RecvNothing \/ RecvError \/ RecvMismatch
  <2>1. UNCHANGED <<connected, event, run_app>> /\ pc \in {"arm", "recv"}
    BY <1>3 DEF Arm, RecvNothing, RecvError, RecvMismatch, events
  <2>2. \/ failed'
        \/ UNCHANGED failed /\ (ret = 0 => ret' = 0 /\ (pc' \in {"draw", "check", "recv"}
                                                    \/ (pc' = "cancel" /\ Done')))
    BY <1>3, EchoBounds DEF Arm, RecvNothing, RecvError, RecvMismatch, Fail, StartGoesOn,
       ProcessGoesOn, NextProto, RoundEnds, Done, RoundsInv, MainType
  <2>3. pc' # "pending"
    BY <1>3 DEF Arm, RecvNothing, RecvError, RecvMismatch, StartGoesOn, ProcessGoesOn,
       NextProto, RoundEnds
  <2> QED
    BY <2>1, <2>2, <2>3
<1>4. CASE Check
  BY <1>4 DEF Check, events
<1>5. CASE Poll \/ PollFails \/ RecvMatch \/ CancelRecv
  BY <1>5 DEF Poll, PollFails, RecvMatch, CancelRecv, events
<1>6. CASE StopCancel
  BY <1>6 DEF StopCancel, events, Done
<1>7. CASE StopClose
  <2>1. /\ UNCHANGED <<connected, event, run_app, failed, i>> /\ pc = "close"
        /\ pc' \in {"cancel", "take", "exit"} /\ (Done => pc' # "take")
    BY <1>7, EchoBounds DEF StopClose, WaitAgainOrExit, Done, events, RoundsInv
  <2> QED
    BY <2>1 DEF Done
<1>8. CASE L4Connected \/ L4Disconnected
  BY <1>8 DEF L4Connected, L4Disconnected, LinkIs, main, Idle
<1>9. CASE GiveRunApp
  BY <1>9 DEF GiveRunApp, EndTake, StartClient, Idle
<1>10. CASE ResetRunApp
  BY <1>10 DEF ResetRunApp, EndTake, StartClient, Idle
<1>11. CASE UNCHANGED <<main, events, failed>>
  BY <1>11 DEF main, events, Done
<1> QED
  BY <1>1, <1>2, <1>3, <1>4, <1>5, <1>6, <1>7, <1>8, <1>9, <1>10, <1>11
  DEF Next, vars, main, events, MainStep, EventStep, WorkQueueStep, WaitReply,
      WaitReplySend, WaitReplyArm, TimerExpires, Deliver, Lose

-----------------------------------------------------------------------------
THEOREM Invariance == Spec => []IInv
<1>1. IInv /\ [Next]_vars => IInv'
  BY MainTypeStep, RoundsStep, WorkTypeStep, WorkInvStep, EventsStep, NetStep, FdsStep,
     AliveStep, QuietStep, ServingStep, Zenon DEF IInv
<1> QED
  BY <1>1, IInvInit, PTL DEF Spec

(* Every queue, counter and index keeps to its range, and the array of     *)
(* descriptors never gets more entries than one for each protocol and      *)
(* event of the link, connect or disconnect, for either may end a          *)
(* k_sem_take and start the client.                                        *)
THEOREM TypeCorrect == Spec => []TypeOK
<1>1. IInv => TypeOK
  <2> SUFFICES ASSUME IInv PROVE TypeOK
    OBVIOUS
  <2>1. Started \in Nat /\ Started <= MaxLinkEvents + 1
    BY EchoBounds DEF IInv, FdsInv, EventsType, Started, One
  <2>2. Len(ProtoSeq) * Started <= Len(ProtoSeq) * (MaxLinkEvents + 1)
    BY <2>1, EchoBounds, ProtoFacts, Product
  <2> HIDE DEF Started
  <2>3. /\ Len(ProtoSeq) * Started \in Nat /\ Len(ProtoSeq) * (MaxLinkEvents + 1) \in Nat
        /\ nfds \in Nat /\ nfds <= Len(ProtoSeq) * Started
    BY <2>1, EchoBounds, ProtoFacts DEF IInv, FdsInv
  <2>4. nfds \in 0..(Len(ProtoSeq) * (MaxLinkEvents + 1))
    BY <2>2, <2>3
  <2> QED
    BY <2>4, Zenon DEF IInv, MainType, RoundsInv, WorkType, EventsType, NetType, TypeOK
<1> QED
  BY <1>1, Invariance, PTL

(* The array of descriptors cannot overflow before there were more events  *)
(* of the link than it has room for starts.  Connects alone are no bound:  *)
(* a disconnect that comes while main waits in k_sem_take starts the       *)
(* client too.  EchoClientFds shows that the array does overflow then.     *)
THEOREM OverflowTakesEvents ==
  Spec => [](Len(ProtoSeq) * (linkEvents + One(~CONNECTION_MANAGER)) <= FDS_SIZE
               => WaitsWithinFds)
<1>1. IInv => (Len(ProtoSeq) * (linkEvents + One(~CONNECTION_MANAGER)) <= FDS_SIZE
                 => WaitsWithinFds)
  <2> DEFINE starts == linkEvents + One(~CONNECTION_MANAGER)
  <2> SUFFICES ASSUME IInv PROVE Len(ProtoSeq) * starts <= FDS_SIZE => WaitsWithinFds
    OBVIOUS
  <2>1. Started \in Nat /\ starts \in Nat /\ Started <= starts
    BY EchoBounds DEF IInv, FdsInv, EventsType, Started, One
  <2> HIDE DEF Started, starts
  <2>2. Len(ProtoSeq) * Started <= Len(ProtoSeq) * starts
    BY <2>1, ProtoFacts, Product
  <2>3. /\ Len(ProtoSeq) * Started \in Nat /\ Len(ProtoSeq) * starts \in Nat
        /\ nfds \in Nat /\ nfds <= Len(ProtoSeq) * Started
    BY <2>1, ProtoFacts DEF IInv, FdsInv
  <2> QED
    BY <2>2, <2>3, EchoBounds DEF WaitsWithinFds
<1> QED
  BY <1>1, Invariance, PTL

(* While the client waits for an echo, every protocol has a timer set, an  *)
(* item queued or a handler that runs, wherever late echoes, cancels and   *)
(* resends come.                                                           *)
THEOREM TimerIsNeverLost == Spec => []SomeoneWillSend
<1>1. IInv => SomeoneWillSend
  BY DEF IInv, AliveInv, Alive, SomeoneWillSend
<1> QED
  BY <1>1, Invariance, PTL

(* Main is never blocked in k_sem_take while the link is up and its event  *)
(* was dealt with, unless a call failed since: no order of connects,       *)
(* disconnects, resets that end a k_sem_take and rounds loses a connect.   *)
THEOREM ConnectsCount == Spec => []NoConnectForgotten
<1>1. IInv => NoConnectForgotten
  BY DEF IInv, ServingInv, NoConnectForgotten
<1> QED
  BY <1>1, Invariance, PTL

(* After stop_udp only a handler that was running when its item was        *)
(* cancelled can send again, for any number of protocols and rounds.       *)
THEOREM StopsQuietly == Spec => []QuietWhileStopped
<1>1. IInv => QuietWhileStopped
  BY DEF IInv, QuietInv, Quiet, Alive, QuietWhileStopped
<1> QED
  BY <1>1, Invariance, PTL
=============================================================================
