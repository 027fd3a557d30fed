----------------------------- MODULE EchoClient -----------------------------
(***************************************************************************)
(* examples/zephyr-net-echo-client: a UDP client that sends a packet, waits *)
(* for its echo, sends the next one, and sends anew when no echo came in    *)
(* time.  Four parties share its data:                                      *)
(*   - the main thread, start_client(), which blocks in k_sem_take, send    *)
(*     and poll,                                                            *)
(*   - the system work queue, which runs wait_reply() and can block in send,*)
(*   - the network management thread, which runs event_handler(),           *)
(*   - the network, which loses, delays, duplicates and reorders packets.   *)
(* The protocols are processed in the order of ProtoSeq.  The build has no  *)
(* TCP: overlay-ot.conf switches it off, and tcp.c is not in the tree.      *)
(***************************************************************************)
EXTENDS Integers, Sequences

CONSTANTS
  Proto,           \* the enabled protocols
  ProtoSeq,        \* in the order the code handles them
  Length,          \* packet lengths: what "rand % ipsum_len" may draw
  MTU,             \* of the interface
  ITERATIONS,      \* CONFIG_NET_SAMPLE_SEND_ITERATIONS, 0 for ever
  CONNECTION_MANAGER, \* CONFIG_NET_CONNECTION_MANAGER
  FDS_SIZE,        \* fds[4]
  MaxLinkEvents,   \* bound: L4_CONNECTED and L4_DISCONNECTED events
  MaxErrors        \* bound: failing socket, connect, send, recv and poll calls

ASSUME ProtoSeqAssumption ==
  /\ ProtoSeq \in Seq(Proto)
  /\ \A p \in Proto : \E k \in 1..Len(ProtoSeq) : ProtoSeq[k] = p
  /\ \A j, k \in 1..Len(ProtoSeq) : ProtoSeq[j] = ProtoSeq[k] => j = k
  /\ ProtoSeq # <<>>
ASSUME LengthAssumption == Length \subseteq Nat \ {0} /\ MTU \in Nat
ASSUME EchoBounds ==
  /\ ITERATIONS \in Nat /\ CONNECTION_MANAGER \in BOOLEAN /\ FDS_SIZE \in Nat
  /\ MaxLinkEvents \in Nat /\ MaxErrors \in Nat

Idle == "idle"

VARIABLES
  \* main thread
  pc, k,        \* next step, and the index of the protocol it works on
  phase,        \* who called send_udp_data: start_udp or process_udp_proto
  len,          \* the length argument of the send() in progress
  ret, i,       \* the locals of start_client
  sock,         \* protocol -> "invalid", "open", or "closed" but still >= 0
  nfds,
  \* work queue
  delayed, queued, canceling, \* the state of each udp.recv work item
  handler,      \* protocol -> how far its wait_reply is, if it is running
  wqlen,        \* the length argument of its send()
  \* shared with event_handler
  connected, run_app, mtu, event,
  link, resent, \* connection manager: the link, and whether it told it again
  expecting,    \* protocol -> length of the awaited echo
  inflight, rx, \* protocol -> lengths on the air, and in the socket's queue
  linkEvents, errors, \* bounds
  \* History, read by no action:
  overrun,      \* protocols whose handler was running when stop_udp cancelled it
  failed        \* a call failed since the last L4_CONNECTED event was handled

main   == <<pc, k, phase, len, ret, i, sock, nfds>>
work   == <<delayed, queued, canceling, handler, wqlen>>
events == <<connected, run_app, mtu, event, link, resent, linkEvents>>
net    == <<inflight, rx>>
vars   == <<pc, k, phase, len, ret, i, sock, nfds, delayed, queued, canceling,
            handler, wqlen, connected, run_app, mtu, event, link, resent, linkEvents,
            expecting, inflight, rx, errors, overrun, failed>>

TypeOK ==
  /\ pc \in {"take", "pending", "socket", "draw", "send", "arm", "check", "poll",
             "recv", "reply", "cancel", "close", "exit"}
  /\ k \in 1..Len(ProtoSeq) /\ phase \in {"start", "process"}
  /\ len \in Length \cup {0} /\ wqlen \in Length \cup {0}
  /\ ret \in {0, -1} /\ i \in 0..ITERATIONS
  /\ sock \in [Proto -> {"invalid", "open", "closed"}]
  /\ nfds \in 0..(Len(ProtoSeq) * (MaxLinkEvents + 1))
  /\ delayed \in [Proto -> BOOLEAN] /\ queued \in [Proto -> BOOLEAN]
  /\ canceling \in [Proto -> BOOLEAN]
  /\ handler \in [Proto -> {Idle, "send", "arm"}]
  /\ connected \in BOOLEAN /\ run_app \in 0..1 /\ mtu \in {0, MTU}
  /\ event \in {Idle, "give", "reset"} /\ link \in BOOLEAN /\ resent \in BOOLEAN
  /\ expecting \in [Proto -> Length \cup {0}]
  /\ inflight \in [Proto -> SUBSET Length] /\ rx \in [Proto -> SUBSET Length]
  /\ linkEvents \in 0..MaxLinkEvents /\ errors \in 0..MaxErrors
  /\ overrun \subseteq Proto /\ failed \in BOOLEAN

(* Without the connection manager main() gives run_app itself.  With it,   *)
(* event_handler is registered while the link is up or down already.       *)
Init ==
  /\ pc = "take" /\ k = 1 /\ phase = "start" /\ len = 0 /\ ret = 0 /\ i = 0
  /\ sock = [p \in Proto |-> "invalid"] /\ nfds = 0
  /\ delayed = [p \in Proto |-> FALSE] /\ queued = [p \in Proto |-> FALSE]
  /\ canceling = [p \in Proto |-> FALSE]
  /\ handler = [p \in Proto |-> Idle] /\ wqlen = 0
  /\ connected = FALSE /\ run_app = IF CONNECTION_MANAGER THEN 0 ELSE 1
  /\ mtu = 0 /\ event = Idle /\ link \in BOOLEAN /\ resent = FALSE
  /\ expecting = [p \in Proto |-> 0]
  /\ inflight = [p \in Proto |-> {}] /\ rx = [p \in Proto |-> {}]
  /\ linkEvents = 0 /\ errors = 0
  /\ overrun = {} /\ failed = FALSE

-----------------------------------------------------------------------------
(* The kernel and the socket layer, as far as the client uses them         *)

Running(p) == handler[p] # Idle

(* k_work_reschedule: the timer is started anew.                           *)
Reschedule(p) == delayed' = [delayed EXCEPT ![p] = TRUE]

(* k_work_cancel_delayable stops the timer and takes the item out of the   *)
(* queue.  It does not wait for a handler that is running.                 *)
Cancel(p) ==
  /\ delayed' = [delayed EXCEPT ![p] = FALSE]
  /\ queued' = [queued EXCEPT ![p] = FALSE]
  /\ canceling' = [canceling EXCEPT ![p] = Running(p)]

(* send(): a packet leaves through an open socket and its echo may come    *)
(* back.                                                                   *)
Transmit(p, n) ==
  /\ \/ UNCHANGED inflight
     \/ /\ sock[p] = "open"
        /\ inflight' = [inflight EXCEPT ![p] = @ \cup {n}]
  /\ UNCHANGED rx

Fail == errors < MaxErrors /\ errors' = errors + 1 /\ failed' = TRUE

-----------------------------------------------------------------------------
(* Main thread                                                             *)

cur  == ProtoSeq[k]
Last == k = Len(ProtoSeq)

(* run_udp_and_tcp returned r: count the round, and leave or look again.   *)
RoundEnds(r) ==
  /\ ret' = r /\ k' = 1
  /\ i' = IF ITERATIONS > 0 THEN i + 1 ELSE i
  /\ pc' = IF ITERATIONS > 0 /\ i + 1 >= ITERATIONS THEN "cancel" ELSE "check"

(* process_udp_proto returned 0: the next protocol, or the round is over.  *)
NextProto ==
  IF Last THEN RoundEnds(0) ELSE k' = k + 1 /\ pc' = "recv" /\ UNCHANGED <<ret, i>>

(* k_sem_take has returned; whether it got the semaphore is not looked at. *)
StartClient == pc' = "socket" /\ k' = 1 /\ phase' = "start" /\ ret' = 0

TakeRunApp ==
  /\ pc = "take"
  /\ \/ run_app = 1 /\ run_app' = 0 /\ StartClient
     \/ run_app = 0 /\ pc' = "pending" /\ UNCHANGED <<run_app, k, phase, ret>>
  /\ UNCHANGED <<len, i, sock, nfds, work, connected, mtu, event, link, resent, linkEvents,
                 expecting, net, errors, overrun, failed>>

(* start_udp opens the sockets of all protocols before it sends.           *)
SocketsGoOn ==
  IF Last THEN k' = 1 /\ pc' = "draw" ELSE k' = k + 1 /\ UNCHANGED pc

(* start_udp_proto.  Initialising a work item that is still in use is      *)
(* undefined: the item forgets its timer and its place in the queue, or    *)
(* keeps them.                                                             *)
StartProto ==
  /\ pc = "socket"
  /\ canceling' = [canceling EXCEPT ![cur] = FALSE]
  /\ \/ UNCHANGED <<delayed, queued>>
     \/ /\ delayed' = [delayed EXCEPT ![cur] = FALSE]
        /\ queued' = [queued EXCEPT ![cur] = FALSE]
  /\ \/ /\ sock' = [sock EXCEPT ![cur] = "open"]
        /\ SocketsGoOn
        /\ UNCHANGED <<ret, errors, failed>>
     \/ /\ Fail    \* socket() or connect()
        /\ \E state \in {"invalid", "open"} : sock' = [sock EXCEPT ![cur] = state]
        /\ ret' = -1 /\ k' = 1 /\ pc' = "check"
  /\ UNCHANGED <<phase, len, i, nfds, handler, wqlen, events, expecting, net, overrun>>

(* send_udp_data draws a length until it is neither 0 nor above the MTU.   *)
Draw ==
  /\ pc = "draw"
  /\ \E n \in Length :
       /\ n <= mtu
       /\ expecting' = [expecting EXCEPT ![cur] = n]
       /\ len' = n
  /\ pc' = "send"
  /\ UNCHANGED <<k, phase, ret, i, sock, nfds, work, events, net, errors,
                 overrun, failed>>

Send ==
  /\ pc = "send"
  /\ \/ Transmit(cur, len) /\ UNCHANGED <<ret, errors, failed>>
     \/ Fail /\ ret' = -1 /\ UNCHANGED net
  /\ pc' = "arm"
  /\ UNCHANGED <<k, phase, len, i, sock, nfds, work, events, expecting, overrun>>

(* Every open socket is added to fds; nobody ever takes one out.           *)
PrepareFds == nfds' = nfds + Len(ProtoSeq)

(* start_udp goes on with the next protocol, and start_udp_and_tcp with    *)
(* prepare_fds.                                                            *)
StartGoesOn ==
  /\ phase = "start"
  /\ \/ ret = 0 /\ ~Last /\ pc' = "draw" /\ k' = k + 1 /\ UNCHANGED nfds
     \/ ret = 0 /\ Last /\ pc' = "check" /\ k' = 1 /\ PrepareFds
     \/ ret < 0 /\ pc' = "check" /\ k' = 1 /\ UNCHANGED nfds
  /\ UNCHANGED <<ret, i>>

ProcessGoesOn ==
  /\ phase = "process"
  /\ \/ ret = 0 /\ NextProto
     \/ ret < 0 /\ RoundEnds(ret)
  /\ UNCHANGED nfds

(* The wait for the echo starts whether or not send() succeeded.           *)
Arm ==
  /\ pc = "arm"
  /\ Reschedule(cur)
  /\ StartGoesOn \/ ProcessGoesOn
  /\ len' = 0
  /\ UNCHANGED <<phase, sock, queued, canceling, handler, wqlen, events, expecting, net,
                 errors, overrun, failed>>

(* while (connected && ret == 0)                                           *)
Check ==
  /\ pc = "check"
  /\ pc' = IF connected /\ ret = 0 THEN "poll" ELSE "cancel"
  /\ phase' = "process"
  /\ UNCHANGED <<k, len, ret, i, sock, nfds, work, events, expecting, net, errors,
                 overrun, failed>>

(* poll(fds, nfds, -1): only a packet ends it, not a lost connection.      *)
Poll ==
  /\ pc = "poll"
  /\ \E p \in Proto : rx[p] # {}
  /\ pc' = "recv" /\ k' = 1
  /\ UNCHANGED <<phase, len, ret, i, sock, nfds, work, events, expecting, net,
                 errors, overrun, failed>>

(* poll() < 0 is logged; the sockets are looked at as after a wake-up, and *)
(* the round counts.                                                       *)
PollFails ==
  /\ pc = "poll"
  /\ errors < MaxErrors /\ errors' = errors + 1
  /\ pc' = "recv" /\ k' = 1
  /\ UNCHANGED <<phase, len, ret, i, sock, nfds, work, events, expecting, net,
                 overrun, failed>>

RecvNothing ==
  /\ pc = "recv" /\ rx[cur] = {}
  /\ NextProto
  /\ UNCHANGED <<phase, len, sock, nfds, work, events, expecting, net, errors,
                 overrun, failed>>

RecvError ==
  /\ pc = "recv"
  /\ Fail
  /\ RoundEnds(-1)
  /\ UNCHANGED <<phase, len, sock, nfds, work, events, expecting, net, overrun>>

(* compare_udp_data: another length is logged, and nothing else happens.   *)
RecvMismatch ==
  /\ pc = "recv"
  /\ \E n \in rx[cur] :
       /\ n # expecting[cur]
       /\ rx' = [rx EXCEPT ![cur] = @ \ {n}]
  /\ NextProto
  /\ UNCHANGED <<phase, len, sock, nfds, work, events, expecting, inflight, errors,
                 overrun, failed>>

(* Mutant of RecvMatch: the echo is counted and the next round started     *)
(* without a new packet.                                                   *)
RecvMatchOnly ==
  /\ pc = "recv"
  /\ expecting[cur] \in rx[cur]
  /\ rx' = [rx EXCEPT ![cur] = @ \ {expecting[cur]}]
  /\ Cancel(cur)
  /\ NextProto
  /\ UNCHANGED <<phase, len, sock, nfds, handler, wqlen, events, expecting, inflight,
                 errors, overrun, failed>>

RecvMatch ==
  /\ pc = "recv"
  /\ expecting[cur] \in rx[cur]
  /\ rx' = [rx EXCEPT ![cur] = @ \ {expecting[cur]}]
  /\ pc' = "reply"
  /\ UNCHANGED <<k, phase, len, ret, i, sock, nfds, work, events, expecting, inflight,
                 errors, overrun, failed>>

CancelRecv ==
  /\ pc = "reply"
  /\ Cancel(cur)
  /\ pc' = "draw"
  /\ UNCHANGED <<k, phase, len, ret, i, sock, nfds, handler, wqlen, events, expecting, net,
                 errors, overrun, failed>>

(* Mutant of StopCancel: the sockets are closed with the timers running.   *)
StopWithoutCancel ==
  /\ pc = "cancel"
  /\ overrun' = IF Running(cur) THEN overrun \cup {cur} ELSE overrun \ {cur}
  /\ pc' = "close"
  /\ UNCHANGED <<k, phase, len, ret, i, sock, nfds, work, events, expecting, net,
                 errors, failed>>

(* stop_udp, one protocol after the other: cancel both items, close.       *)
StopCancel ==
  /\ pc = "cancel"
  /\ Cancel(cur)
  /\ overrun' = IF Running(cur) THEN overrun \cup {cur} ELSE overrun \ {cur}
  /\ pc' = "close"
  /\ UNCHANGED <<k, phase, len, ret, i, sock, nfds, handler, wqlen, events, expecting, net,
                 errors, failed>>

(* while (iterations == 0 || i < iterations)                               *)
WaitAgainOrExit == pc' = IF ITERATIONS = 0 \/ i < ITERATIONS THEN "take" ELSE "exit"

(* The descriptor keeps its number: sock stays >= 0.                       *)
StopClose ==
  /\ pc = "close"
  /\ sock' = [sock EXCEPT ![cur] = IF @ = "open" THEN "closed" ELSE @]
  /\ inflight' = [inflight EXCEPT ![cur] = {}]
  /\ rx' = [rx EXCEPT ![cur] = {}]
  /\ IF ~Last THEN k' = k + 1 /\ pc' = "cancel"
     ELSE k' = 1 /\ WaitAgainOrExit
  /\ UNCHANGED <<phase, len, ret, i, nfds, work, events, expecting, errors, overrun,
                 failed>>

-----------------------------------------------------------------------------
(* Work queue: the timer expires, and wait_reply calls send_udp_data       *)

TimerExpires(p) ==
  /\ delayed[p]
  /\ delayed' = [delayed EXCEPT ![p] = FALSE]
  /\ queued' = [queued EXCEPT ![p] = ~canceling[p]]
  /\ UNCHANGED <<main, canceling, handler, wqlen, events, expecting, net, errors, overrun,
                 failed>>

WaitReply(p) ==
  /\ queued[p] /\ \A q \in Proto : ~Running(q)
  /\ queued' = [queued EXCEPT ![p] = FALSE]
  /\ handler' = [handler EXCEPT ![p] = "send"]
  /\ \E n \in Length :
       /\ n <= mtu
       /\ expecting' = [expecting EXCEPT ![p] = n]
       /\ wqlen' = n
  /\ UNCHANGED <<main, delayed, canceling, events, net, errors, overrun, failed>>

(* The result of send() is dropped: to the handler a failing call and a    *)
(* lost packet are the same.                                               *)
WaitReplySend(p) ==
  /\ handler[p] = "send"
  /\ Transmit(p, wqlen)
  /\ handler' = [handler EXCEPT ![p] = "arm"] /\ wqlen' = 0
  /\ UNCHANGED <<main, delayed, queued, canceling, events, expecting, errors, overrun,
                 failed>>

(* Mutant of WaitReplyArm: a resend is not watched.                        *)
WaitReplyOnce(p) ==
  /\ handler[p] = "arm"
  /\ canceling' = [canceling EXCEPT ![p] = FALSE]
  /\ handler' = [handler EXCEPT ![p] = Idle]
  /\ UNCHANGED <<main, delayed, queued, wqlen, events, expecting, net, errors, overrun,
                 failed>>

(* The handler starts the wait anew, cancelled or not, and returns.        *)
WaitReplyArm(p) ==
  /\ handler[p] = "arm"
  /\ Reschedule(p)
  /\ canceling' = [canceling EXCEPT ![p] = FALSE]
  /\ handler' = [handler EXCEPT ![p] = Idle]
  /\ UNCHANGED <<main, queued, wqlen, events, expecting, net, errors, overrun, failed>>

-----------------------------------------------------------------------------
(* event_handler: the flag first, then the semaphore                       *)

(* The connection manager tells a link that went up or down, and once, for *)
(* init_app asks it to, how the link is: event_handler can be told the     *)
(* same twice, and of a disconnect before any connect.                     *)
LinkIs(up) ==
  /\ CONNECTION_MANAGER /\ event = Idle
  /\ linkEvents < MaxLinkEvents /\ linkEvents' = linkEvents + 1
  /\ \/ link # up /\ link' = up /\ UNCHANGED resent
     \/ link = up /\ ~resent /\ resent' = TRUE /\ UNCHANGED link

L4Connected ==
  /\ LinkIs(TRUE)
  /\ connected' = TRUE /\ event' = "give"
  /\ UNCHANGED <<main, work, run_app, mtu, expecting, net, errors, overrun, failed>>

L4Disconnected ==
  /\ LinkIs(FALSE)
  /\ connected' = FALSE /\ event' = "reset"
  /\ UNCHANGED <<main, work, run_app, mtu, expecting, net, errors, overrun, failed>>

(* k_sem_give and k_sem_reset both end a k_sem_take that is pending: the   *)
(* one with success, the other with -EAGAIN.                               *)
EndTake ==
  IF pc = "pending" THEN StartClient ELSE UNCHANGED <<pc, k, phase, ret>>

(* Mutant of GiveRunApp: a semaphore given while the client runs is not    *)
(* kept for the next round.                                                *)
GiveToWaiter ==
  /\ event = "give"
  /\ mtu' = MTU /\ event' = Idle /\ failed' = FALSE
  /\ EndTake
  /\ UNCHANGED <<run_app, len, i, sock, nfds, work, connected, link, resent, linkEvents,
                 expecting, net, errors, overrun>>

(* Mutant of GiveRunApp: the semaphore counts every connect event.         *)
GiveEveryTime ==
  /\ event = "give"
  /\ mtu' = MTU /\ event' = Idle /\ failed' = FALSE
  /\ run_app' = IF pc = "pending" THEN run_app ELSE run_app + 1
  /\ EndTake
  /\ UNCHANGED <<len, i, sock, nfds, work, connected, link, resent, linkEvents,
                 expecting, net, errors, overrun>>

(* A thread that is pending gets the semaphore; otherwise it is kept, and  *)
(* its limit is 1.                                                         *)
GiveRunApp ==
  /\ event = "give"
  /\ mtu' = MTU /\ event' = Idle /\ failed' = FALSE
  /\ run_app' = IF pc = "pending" THEN run_app ELSE 1
  /\ EndTake
  /\ UNCHANGED <<len, i, sock, nfds, work, connected, link, resent, linkEvents,
                 expecting, net, errors, overrun>>

ResetRunApp ==
  /\ event = "reset"
  /\ event' = Idle /\ run_app' = 0
  /\ EndTake
  /\ UNCHANGED <<len, i, sock, nfds, work, connected, mtu, link, resent, linkEvents,
                 expecting, net, errors, overrun, failed>>

-----------------------------------------------------------------------------
(* Network                                                                 *)

(* An echo arrives, perhaps not for the last time.                         *)
Deliver(p, n) ==
  /\ n \in inflight[p]
  /\ rx' = [rx EXCEPT ![p] = @ \cup {n}]
  /\ \/ UNCHANGED inflight
     \/ inflight' = [inflight EXCEPT ![p] = @ \ {n}]
  /\ UNCHANGED <<main, work, events, expecting, errors, overrun, failed>>

Lose(p, n) ==
  /\ n \in inflight[p]
  /\ inflight' = [inflight EXCEPT ![p] = @ \ {n}]
  /\ UNCHANGED <<main, work, events, expecting, rx, errors, overrun, failed>>

-----------------------------------------------------------------------------
MainStep ==
  \/ TakeRunApp \/ StartProto \/ Draw \/ Send \/ Arm \/ Check \/ Poll
  \/ RecvNothing \/ RecvError \/ RecvMismatch \/ RecvMatch \/ CancelRecv
  \/ StopCancel \/ StopClose

WorkQueueStep(p) == WaitReply(p) \/ WaitReplySend(p) \/ WaitReplyArm(p)

EventStep == GiveRunApp \/ ResetRunApp

Next ==
  \/ MainStep \/ PollFails
  \/ \E p \in Proto : WorkQueueStep(p) \/ TimerExpires(p)
  \/ L4Connected \/ L4Disconnected \/ EventStep
  \/ \E p \in Proto, n \in Length : Deliver(p, n) \/ Lose(p, n)

Spec == Init /\ [][Next]_vars

(* The kernel runs every thread that can run, time passes, and the work    *)
(* queue is first come, first served: an item queued again and again gets  *)
(* its turn.  Nothing is promised of the network or of the link, nor that  *)
(* a poll that waits ever fails.                                           *)
FairSpec ==
  /\ Spec
  /\ WF_vars(MainStep)
  /\ WF_vars(EventStep)
  /\ \A p \in Proto : WF_vars(TimerExpires(p)) /\ SF_vars(WorkQueueStep(p))

-----------------------------------------------------------------------------
(* Properties                                                              *)

(* While the main thread waits for packets, some timer, queue entry or     *)
(* running handler of each protocol will send again if none comes: the     *)
(* late echo, its cancel and the resend race without ever losing the timer.*)
SomeoneWillSend ==
  pc = "poll" => \A p \in Proto : delayed[p] \/ queued[p] \/ Running(p)

(* Between stop_udp and the next start nothing of the client is left on    *)
(* the work queue, with one exception: a handler that was running when its *)
(* item was cancelled goes on, and sets its timer again.                   *)
QuietWhileStopped ==
  pc \in {"take", "pending", "exit"} =>
    \A p \in Proto : delayed[p] \/ queued[p] \/ Running(p) => p \in overrun

(* No connect is forgotten: main is never blocked in k_sem_take while the  *)
(* link is up and event_handler has dealt with it, whatever connects,      *)
(* disconnects and rounds came in between and whichever of them ended the  *)
(* last k_sem_take, unless a call failed since the last connect.           *)
NoConnectForgotten ==
  pc = "pending" /\ connected /\ event = Idle => failed

(* A packet of p is being sent, or was just sent.                          *)
Sending(p) == (pc = "arm" /\ cur = p) \/ handler[p] = "arm"

(* If the link comes up and stays up, every protocol goes on sending for   *)
(* ever, whatever the network loses, duplicates or delays, whatever        *)
(* connects and disconnects came before, provided that no call failed      *)
(* since the last connect event.                                           *)
KeepsSending ==
  \A p \in Proto :
    <>[](connected /\ event = Idle /\ ~failed) => []<>Sending(p)

(* wait() waits "for event on any socket used", in an array of four        *)
(* entries.                                                                *)
WaitsWithinFds == nfds <= FDS_SIZE
=============================================================================
