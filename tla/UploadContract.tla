--------------------------- MODULE UploadContract ---------------------------
(***************************************************************************)
(* What a serial upload target promises, without ports, modes or polls: an *)
(* invocation chooses a board once, ends once, and programs at most one    *)
(* board, in its last step.  That board is the chosen one, unless the      *)
(* invocation is excused: its choice was lost to the bus before it wrote.  *)
(***************************************************************************)
CONSTANTS
  Session, Board, NoBoard,
  Reporting    \* the sessions whose success means that a board was programmed

VARIABLES
  phase,       \* session -> "requested", "chosen", "ended"
  chosen,      \* session -> the board it chose, or NoBoard
  programmed,  \* session -> the board it wrote, or NoBoard
  verdict,     \* session -> exit status
  excused      \* session -> whether it may miss

vars == <<phase, chosen, programmed, verdict, excused>>

Init ==
  /\ phase = [s \in Session |-> "requested"]
  /\ chosen = [s \in Session |-> NoBoard]
  /\ programmed = [s \in Session |-> NoBoard]
  /\ verdict = [s \in Session |-> "running"]
  /\ excused = [s \in Session |-> FALSE]

(* Whatever happens may excuse sessions that have not ended, and never     *)
(* takes an excuse back.                                                   *)
Excuses ==
  /\ excused' \in [Session -> BOOLEAN]
  /\ \A s \in Session :
       excused'[s] # excused[s] => excused'[s] /\ phase[s] # "ended"

Choose(s) ==
  /\ phase[s] = "requested"
  /\ phase' = [phase EXCEPT ![s] = "chosen"]
  /\ \E b \in Board \cup {NoBoard} : chosen' = [chosen EXCEPT ![s] = b]
  /\ Excuses
  /\ chosen'[s] = NoBoard => excused'[s]
  /\ UNCHANGED <<programmed, verdict>>

Finish(s) ==
  /\ phase[s] = "chosen"
  /\ phase' = [phase EXCEPT ![s] = "ended"]
  /\ \E b \in Board \cup {NoBoard}, status \in {"ok", "error"} :
       /\ programmed' = [programmed EXCEPT ![s] = b]
       /\ verdict' = [verdict EXCEPT ![s] = status]
       /\ b \notin {NoBoard, chosen[s]} => excused[s]
       /\ status = "ok" /\ s \in Reporting => b # NoBoard
  /\ Excuses
  /\ UNCHANGED chosen

Disturb ==
  /\ Excuses
  /\ UNCHANGED <<phase, chosen, programmed, verdict>>

Next == Disturb \/ \E s \in Session : Choose(s) \/ Finish(s)

Spec == Init /\ [][Next]_vars
=============================================================================
