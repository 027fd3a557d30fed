------------------------ MODULE SerialUploadProofs ------------------------
(***************************************************************************)
(* Theorems of SerialUpload for every number of sessions, boards and       *)
(* ports, every timeout and every bound on departures.  The inductive      *)
(* invariant IInv adds to the checked invariants what each session knows   *)
(* about the board it selected: while it is about to use the port, the     *)
(* board is still there unless another party moved it, and the serial      *)
(* number it waits for is one only that board shows.                       *)
(***************************************************************************)
EXTENDS SerialUpload, TLAPS

(* The bus enforces it: a port carries one board.                          *)
OneBoardPerPort == DistinctPorts(at)

(* A session that found a board and has not used the port yet.             *)
BeforeTouch(s) == pc[s] \in {"flush", "touch"}

FoundIsThere ==
  \A s \in Session :
    BeforeTouch(s) /\ moved[s] \cap {"flush", "touch"} = {} =>
      /\ selected[s] \in Board
      /\ upload_port[s] \in Port
      /\ at[selected[s]] = upload_port[s]

SerialIsSelecteds ==
  \A s \in Session :
    ser[s] # NoSerial =>
      /\ selected[s] \in Board
      /\ \E m \in Mode : ser[s] = HwidOf[selected[s]][m].ser

DetectedIsThere ==
  \A s \in Session :
    /\ pc[s] = "upload"
    /\ outcome[s] \in {"already", "detected"}
    /\ "upload" \notin moved[s]
    => /\ selected[s] \in Board
       /\ upload_port[s] \in Port
       /\ at[selected[s]] = upload_port[s]

NothingDoneYet ==
  \A s \in Session :
    /\ pc[s] # "done" => written[s] = NoBoard
    /\ pc[s] \in {"reset", "flush", "touch"} => touched[s] = NoBoard
    /\ pc[s] = "reset" => selected[s] = NoBoard /\ ser[s] = NoSerial
    /\ pc[s] = "upload" => outcome[s] # "none"

IInv ==
  /\ TypeOK
  /\ OneBoardPerPort
  /\ FoundIsThere
  /\ SerialIsSelecteds
  /\ DetectedIsThere
  /\ NothingDoneYet
  /\ WrongBoardHasACause
  /\ TouchHitsSelected

-----------------------------------------------------------------------------
LEMMA InfoType ==
  ASSUME TypeOK, NEW b \in Board
  PROVE  get_serial_port_info(b) \in Hwid
  BY HwidOfAssumption DEF TypeOK, Hwid, get_serial_port_info

LEMMA TypeInit == Init => TypeOK
  BY BoundsAssumption DEF Init, TypeOK

(* One step per action: each assigns values of the declared range only.    *)
LEMMA TypeStep == TypeOK /\ [Next]_vars => TypeOK'
<1> SUFFICES ASSUME TypeOK, [Next]_vars PROVE TypeOK'
  OBVIOUS
<1> USE BoundsAssumption DEF TypeOK, GoTo, bus, local, history
<1>1. ASSUME NEW s \in Session, InvalidPort(s) PROVE TypeOK'
  BY <1>1 DEF InvalidPort
<1>2. ASSUME NEW s \in Session, AlreadyInBootloader(s) PROVE TypeOK'
  BY <1>2 DEF AlreadyInBootloader, Attached
<1>3. ASSUME NEW s \in Session, RememberSerial(s) PROVE TypeOK'
  BY <1>3, InfoType DEF RememberSerial, Attached, Hwid
<1>4. ASSUME NEW s \in Session, FlushSerialBuffer(s) PROVE TypeOK'
  BY <1>4 DEF FlushSerialBuffer
<1>5. ASSUME NEW s \in Session, TouchSerialPort(s) PROVE TypeOK'
  BY <1>5 DEF TouchSerialPort, Attached, LeavesPort, Mode
<1>6. ASSUME NEW s \in Session, DetectReset(s) PROVE TypeOK'
  BY <1>6 DEF DetectReset
<1>7. ASSUME NEW s \in Session, PollAgain(s) PROVE TypeOK'
  BY <1>7 DEF PollAgain
<1>8. ASSUME NEW s \in Session, ResetTimeout(s) PROVE TypeOK'
  BY <1>8 DEF ResetTimeout
<1>9. ASSUME NEW s \in Session, upload_adafruit(s) PROVE TypeOK'
  BY <1>9 DEF upload_adafruit, EndUpload
<1>10. ASSUME NEW s \in Session, upload_nordic(s) PROVE TypeOK'
  BY <1>10 DEF upload_nordic, Attached, LeavesPort, EndUpload, Mode
<1>11. ASSUME NEW s \in Session, TransferFails(s) PROVE TypeOK'
  BY <1>11 DEF TransferFails, Attached, EndUpload
<1>12. ASSUME NEW s \in Session, NoBootloaderAnswers(s) PROVE TypeOK'
  BY <1>12 DEF NoBootloaderAnswers, EndUpload
<1>13. ASSUME NEW b \in Board, Reenumerate(b) PROVE TypeOK'
  BY <1>13 DEF Reenumerate
<1>14. ASSUME NEW b \in Board, Depart(b) PROVE TypeOK'
  BY <1>14 DEF Depart, LeavesPort
<1>15. CASE UNCHANGED vars
  BY <1>15 DEF vars
<1> QED
  BY <1>1, <1>2, <1>3, <1>4, <1>5, <1>6, <1>7, <1>8, <1>9, <1>10, <1>11,
     <1>12, <1>13, <1>14, <1>15 DEF Next, SessionStep

(* Every variable of the upload keeps to its range in every reachable      *)
(* state.                                                                  *)
THEOREM TypeCorrect == Spec => []TypeOK
  BY TypeInit, TypeStep, PTL DEF Spec

-----------------------------------------------------------------------------
LEMMA IInvInit == Init => IInv
<1> SUFFICES ASSUME Init PROVE IInv
  OBVIOUS
<1>1. TypeOK
  BY TypeInit
<1> QED
  BY <1>1, NoValues DEF Init, IInv, OneBoardPerPort, FoundIsThere, BeforeTouch,
     SerialIsSelecteds, DetectedIsThere, NothingDoneYet, WrongBoardHasACause,
     TouchHitsSelected

(* A session whose board is taken away just before it uses the port is on  *)
(* record.                                                                 *)
LEMMA Displaced ==
  ASSUME NEW b \in Board, NEW own \in SUBSET Session, LeavesPort(b, own),
         NEW t \in Session \ own, selected[t] = b, BeforeTouch(t)
  PROVE  moved'[t] \cap {"flush", "touch"} # {}
<1>1. moved'[t] = moved[t] \cup {pc[t]}
  BY DEF LeavesPort, BeforeTouch
<1> QED
  BY <1>1 DEF BeforeTouch

(* A session not yet told of a displacement has its board where it was.    *)
LEMMA StaysThere ==
  ASSUME TypeOK, NEW s \in Session, NEW b \in Board,
         LeavesPort(b, {s}), at' = [at EXCEPT ![b] = NoPort],
         NEW t \in Session, t # s, BeforeTouch(t), selected[t] \in Board,
         moved'[t] \cap {"flush", "touch"} = {}
  PROVE  at'[selected[t]] = at[selected[t]]
<1>1. t \in Session \ {s} /\ {s} \in SUBSET Session
  OBVIOUS
<1>2. selected[t] # b
  BY <1>1, Displaced
<1> QED
  BY <1>2 DEF TypeOK

(* The serial number a session waits for leads it to its own board.        *)
LEMMA ResetIsOfSelected ==
  ASSUME IInv, NEW s \in Session, NEW b \in Board, IsReset(s, b)
  PROVE  b = selected[s] /\ selected[s] \in Board
<1>1. ser[s] # NoSerial /\ ser[s] = HwidOf[b][mode[b]].ser
  BY DEF IsReset, get_serial_port_info
<1>2. selected[s] \in Board /\ mode[b] \in Mode
  BY <1>1 DEF IInv, TypeOK, SerialIsSelecteds
<1>3. PICK m \in Mode : ser[s] = HwidOf[selected[s]][m].ser
  BY <1>1 DEF IInv, SerialIsSelecteds
<1> QED
  BY <1>1, <1>2, <1>3, SerialsIdentify

LEMMA IInvStep == IInv /\ [Next]_vars => IInv'
<1> SUFFICES ASSUME IInv, [Next]_vars PROVE IInv'
  OBVIOUS
<1>0. TypeOK /\ TypeOK'
  BY TypeStep DEF IInv
<1> USE <1>0, NoValues DEF TypeOK, IInv, OneBoardPerPort, DistinctPorts,
     FoundIsThere, BeforeTouch, SerialIsSelecteds, DetectedIsThere,
     NothingDoneYet, WrongBoardHasACause, TouchHitsSelected, GoTo, bus, local,
     history
<1>1. ASSUME NEW s \in Session, InvalidPort(s) PROVE IInv'
  BY <1>1 DEF InvalidPort
<1>2. ASSUME NEW s \in Session, AlreadyInBootloader(s) PROVE IInv'
  BY <1>2 DEF AlreadyInBootloader, Attached
<1>3. ASSUME NEW s \in Session, RememberSerial(s) PROVE IInv'
  BY <1>3, HwidOfAssumption DEF RememberSerial, Attached, get_serial_port_info
<1>4. ASSUME NEW s \in Session, FlushSerialBuffer(s) PROVE IInv'
  BY <1>4 DEF FlushSerialBuffer
<1>5. ASSUME NEW s \in Session, TouchSerialPort(s) PROVE IInv'
  <2>1. OneBoardPerPort'
    BY <1>5 DEF TouchSerialPort, Attached, LeavesPort
  <2>2. FoundIsThere'
    <3> SUFFICES ASSUME NEW t \in Session,
                        BeforeTouch(t)', moved'[t] \cap {"flush", "touch"} = {}
                 PROVE  /\ selected'[t] \in Board
                        /\ upload_port'[t] \in Port
                        /\ at'[selected'[t]] = upload_port'[t]
      OBVIOUS
    <3>1. BeforeTouch(t) /\ t # s /\ UNCHANGED <<selected, upload_port>>
      BY <1>5 DEF TouchSerialPort
    <3>2. moved[t] \cap {"flush", "touch"} = {}
      BY <1>5, <3>1 DEF TouchSerialPort, LeavesPort
    <3>3. selected[t] \in Board
      BY <3>1, <3>2
    <3>4. at'[selected[t]] = at[selected[t]]
      <4>1. CASE UNCHANGED at
        BY <4>1
      <4>2. ASSUME NEW b \in Board, LeavesPort(b, {s}),
                   at' = [at EXCEPT ![b] = NoPort]
            PROVE  at'[selected[t]] = at[selected[t]]
        BY <4>2, <3>1, <3>3, StaysThere
      <4> QED
        BY <1>5, <4>1, <4>2 DEF TouchSerialPort, Attached
    <3> QED
      BY <3>1, <3>2, <3>4
  <2>3. SerialIsSelecteds'
    BY <1>5 DEF TouchSerialPort, Attached, LeavesPort
  <2>4. DetectedIsThere'
    BY <1>5 DEF TouchSerialPort, Attached, LeavesPort
  <2>5. NothingDoneYet'
    BY <1>5 DEF TouchSerialPort, Attached, LeavesPort
  <2>6. WrongBoardHasACause'
    BY <1>5 DEF TouchSerialPort, Attached, LeavesPort
  <2>7. TouchHitsSelected'
    BY <1>5 DEF TouchSerialPort, Attached, LeavesPort
  <2> QED
    BY <2>1, <2>2, <2>3, <2>4, <2>5, <2>6, <2>7
<1>6. ASSUME NEW s \in Session, DetectReset(s) PROVE IInv'
  <2>1. PICK b \in Board : /\ at[b] # NoPort
                          /\ IsReset(s, b)
                          /\ upload_port' = [upload_port EXCEPT ![s] = at[b]]
    BY <1>6 DEF DetectReset
  <2>2. b = selected[s]
    BY <2>1, ResetIsOfSelected
  <2> QED
    BY <1>6, <2>1, <2>2 DEF DetectReset
<1>7. ASSUME NEW s \in Session, PollAgain(s) PROVE IInv'
  BY <1>7 DEF PollAgain
<1>8. ASSUME NEW s \in Session, ResetTimeout(s) PROVE IInv'
  BY <1>8 DEF ResetTimeout
<1>9. ASSUME NEW s \in Session, upload_adafruit(s) PROVE IInv'
  BY <1>9 DEF upload_adafruit, EndUpload
<1>10. ASSUME NEW s \in Session, upload_nordic(s) PROVE IInv'
  <2>1. OneBoardPerPort'
    BY <1>10 DEF upload_nordic, Attached, LeavesPort, EndUpload
  <2>2. FoundIsThere'
    <3> SUFFICES ASSUME NEW t \in Session,
                        BeforeTouch(t)', moved'[t] \cap {"flush", "touch"} = {}
                 PROVE  /\ selected'[t] \in Board
                        /\ upload_port'[t] \in Port
                        /\ at'[selected'[t]] = upload_port'[t]
      OBVIOUS
    <3>1. BeforeTouch(t) /\ t # s /\ UNCHANGED <<selected, upload_port>>
      BY <1>10 DEF upload_nordic, EndUpload
    <3>2. moved[t] \cap {"flush", "touch"} = {}
      BY <1>10, <3>1 DEF upload_nordic, LeavesPort, EndUpload
    <3>3. selected[t] \in Board
      BY <3>1, <3>2
    <3>4. at'[selected[t]] = at[selected[t]]
      <4>1. PICK b \in Board : /\ at' = [at EXCEPT ![b] = NoPort]
                              /\ LeavesPort(b, {s})
        BY <1>10 DEF upload_nordic, Attached
      <4> QED
        BY <4>1, <3>1, <3>3, StaysThere
    <3> QED
      BY <3>1, <3>2, <3>4
  <2>3. SerialIsSelecteds'
    BY <1>10 DEF upload_nordic, Attached, LeavesPort, EndUpload
  <2>4. DetectedIsThere'
    BY <1>10 DEF upload_nordic, Attached, LeavesPort, EndUpload
  <2>5. NothingDoneYet'
    BY <1>10 DEF upload_nordic, Attached, LeavesPort, EndUpload
  <2>6. WrongBoardHasACause'
    BY <1>10 DEF upload_nordic, Attached, LeavesPort, EndUpload
  <2>7. TouchHitsSelected'
    BY <1>10 DEF upload_nordic, Attached, LeavesPort, EndUpload
  <2> QED
    BY <2>1, <2>2, <2>3, <2>4, <2>5, <2>6, <2>7
<1>11. ASSUME NEW s \in Session, TransferFails(s) PROVE IInv'
  BY <1>11 DEF TransferFails, Attached, EndUpload
<1>12. ASSUME NEW s \in Session, NoBootloaderAnswers(s) PROVE IInv'
  BY <1>12 DEF NoBootloaderAnswers, EndUpload
<1>13. ASSUME NEW b \in Board, Reenumerate(b) PROVE IInv'
  BY <1>13 DEF Reenumerate, Attached
<1>14. ASSUME NEW b \in Board, Depart(b) PROVE IInv'
  <2>1. OneBoardPerPort'
    BY <1>14 DEF Depart, LeavesPort
  <2>2. FoundIsThere'
    BY <1>14 DEF Depart, LeavesPort
  <2>3. SerialIsSelecteds'
    BY <1>14 DEF Depart, LeavesPort
  <2>4. DetectedIsThere'
    BY <1>14 DEF Depart, LeavesPort
  <2>5. NothingDoneYet'
    BY <1>14 DEF Depart, LeavesPort
  <2>6. WrongBoardHasACause'
    BY <1>14 DEF Depart, LeavesPort
  <2>7. TouchHitsSelected'
    BY <1>14 DEF Depart, LeavesPort
  <2> QED
    BY <2>1, <2>2, <2>3, <2>4, <2>5, <2>6, <2>7
<1>15. CASE UNCHANGED vars
  BY <1>15 DEF vars
<1> QED
  BY <1>1, <1>2, <1>3, <1>4, <1>5, <1>6, <1>7, <1>8, <1>9, <1>10, <1>11,
     <1>12, <1>13, <1>14, <1>15 DEF Next, SessionStep

(* The inductive invariant holds of every behaviour.                       *)
THEOREM Invariance == Spec => []IInv
  BY IInvInit, IInvStep, PTL DEF Spec

(* The image reaches a board other than the one at UPLOAD_PORT only if the *)
(* port was empty at the look, the reset wait timed out, or the board was  *)
(* taken away after it was found: for any number of sessions and boards.   *)
THEOREM WrongBoardOnlyWithCause == Spec => []WrongBoardHasACause
<1>1. IInv => WrongBoardHasACause
  BY DEF IInv
<1> QED
  BY <1>1, Invariance, PTL

(* The touch restarts no other board than the one found, unless that one   *)
(* was taken away in between.                                              *)
THEOREM TouchOnlySelected == Spec => []TouchHitsSelected
<1>1. IInv => TouchHitsSelected
  BY DEF IInv
<1> QED
  BY <1>1, Invariance, PTL

(* UPLOAD_PORT only ever changes to where the selected board is, however   *)
(* many boards restart at the same time.                                   *)
THEOREM PortFollows == Spec => PortFollowsBoard
<1> DEFINE Follows(s) == upload_port'[s] # upload_port[s] =>
                           selected[s] # NoBoard /\ upload_port'[s] = at[selected[s]]
<1>1. IInv /\ [Next]_vars => [\A s \in Session : Follows(s)]_vars
  <2> SUFFICES ASSUME IInv, Next, NEW s \in Session PROVE Follows(s)
    OBVIOUS
  <2>1. CASE UNCHANGED upload_port
    BY <2>1
  <2>2. ASSUME NEW t \in Session, DetectReset(t) PROVE Follows(s)
    <3>1. PICK b \in Board : /\ IsReset(t, b)
                            /\ upload_port' = [upload_port EXCEPT ![t] = at[b]]
      BY <2>2 DEF DetectReset
    <3>2. b = selected[t] /\ selected[t] \in Board
      BY <3>1, ResetIsOfSelected
    <3> QED
      BY <3>1, <3>2, NoValues DEF IInv, TypeOK
  <2> QED
    BY <2>1, <2>2 DEF Next, SessionStep, InvalidPort, AlreadyInBootloader,
       RememberSerial, FlushSerialBuffer, TouchSerialPort, PollAgain, ResetTimeout,
       upload_adafruit, upload_nordic, TransferFails, NoBootloaderAnswers,
       EndUpload, Reenumerate, Depart, local
<1> QED
  BY <1>1, Invariance, PTL DEF Spec, PortFollowsBoard

-----------------------------------------------------------------------------
(* The most steps a session has left.                                      *)
StepsLeft(s) ==
  CASE pc[s] = "reset"  -> RESET_TIMEOUT + 5
    [] pc[s] = "flush"  -> RESET_TIMEOUT + 4
    [] pc[s] = "touch"  -> RESET_TIMEOUT + 3
    [] pc[s] = "poll"   -> RESET_TIMEOUT - elapsed[s] + 2
    [] pc[s] = "upload" -> 1
    [] pc[s] = "done"   -> 0

(* Every step of a session takes one off, and nothing gives one back: not  *)
(* the bus, not another session, and not a board that keeps restarting.    *)
RunsDown ==
  \A s \in Session :
    /\ StepsLeft(s)' <= StepsLeft(s)
    /\ SessionStep(s) => StepsLeft(s)' < StepsLeft(s)

LEMMA StepsLeftType ==
  ASSUME TypeOK, NEW s \in Session
  PROVE  StepsLeft(s) \in 0..(RESET_TIMEOUT + 5)
<1>1. elapsed[s] \in 0..RESET_TIMEOUT /\ RESET_TIMEOUT \in Nat
  BY BoundsAssumption DEF TypeOK
<1>2. pc[s] \in {"reset", "flush", "touch", "poll", "upload", "done"}
  BY DEF TypeOK
<1> QED
  BY <1>1, <1>2 DEF StepsLeft

LEMMA SessionRunsDown ==
  ASSUME TypeOK, NEW s \in Session, SessionStep(s)
  PROVE  /\ StepsLeft(s)' \in 0..(StepsLeft(s) - 1)
         /\ \A t \in Session \ {s} : pc'[t] = pc[t] /\ elapsed'[t] = elapsed[t]
<1>0. elapsed[s] \in 0..RESET_TIMEOUT /\ RESET_TIMEOUT \in Nat
  BY BoundsAssumption DEF TypeOK
<1> USE DEF TypeOK, GoTo, local
<1>1. CASE InvalidPort(s) \/ AlreadyInBootloader(s)
  <2>1. pc[s] = "reset" /\ pc' = [pc EXCEPT ![s] = "upload"] /\ UNCHANGED elapsed
    BY <1>1 DEF InvalidPort, AlreadyInBootloader
  <2> QED
    BY <1>0, <2>1 DEF StepsLeft
<1>2. CASE RememberSerial(s)
  <2>1. pc[s] = "reset" /\ pc' = [pc EXCEPT ![s] = "flush"] /\ UNCHANGED elapsed
    BY <1>2 DEF RememberSerial
  <2> QED
    BY <1>0, <2>1 DEF StepsLeft
<1>3. CASE FlushSerialBuffer(s)
  <2>1. /\ pc[s] = "flush" /\ UNCHANGED elapsed
        /\ \E label \in {"touch", "done"} : pc' = [pc EXCEPT ![s] = label]
    BY <1>3 DEF FlushSerialBuffer
  <2> QED
    BY <1>0, <2>1 DEF StepsLeft
<1>4. CASE TouchSerialPort(s)
  <2>1. /\ pc[s] = "touch" /\ pc' = [pc EXCEPT ![s] = "poll"]
        /\ elapsed' = [elapsed EXCEPT ![s] = 0]
    BY <1>4 DEF TouchSerialPort
  <2> QED
    BY <1>0, <2>1 DEF StepsLeft
<1>5. CASE PollAgain(s)
  <2>1. /\ pc[s] = "poll" /\ elapsed[s] < RESET_TIMEOUT /\ UNCHANGED pc
        /\ \E t \in {elapsed[s] + 1, RESET_TIMEOUT} : elapsed' = [elapsed EXCEPT ![s] = t]
    BY <1>5 DEF PollAgain
  <2> QED
    BY <1>0, <2>1 DEF StepsLeft
<1>6. CASE DetectReset(s) \/ ResetTimeout(s)
  <2>1. pc[s] = "poll" /\ pc' = [pc EXCEPT ![s] = "upload"] /\ UNCHANGED elapsed
    BY <1>6 DEF DetectReset, ResetTimeout
  <2> QED
    BY <1>0, <2>1 DEF StepsLeft
<1>7. CASE upload_adafruit(s) \/ upload_nordic(s) \/ TransferFails(s)
           \/ NoBootloaderAnswers(s)
  <2>1. pc[s] = "upload" /\ pc' = [pc EXCEPT ![s] = "done"] /\ UNCHANGED elapsed
    BY <1>7 DEF upload_adafruit, upload_nordic, TransferFails, NoBootloaderAnswers,
       EndUpload
  <2> QED
    BY <1>0, <2>1 DEF StepsLeft
<1> QED
  BY <1>1, <1>2, <1>3, <1>4, <1>5, <1>6, <1>7 DEF SessionStep

(* An upload is over after at most RESET_TIMEOUT + 5 of its own steps,     *)
(* whatever the boards and the other sessions do in between.               *)
THEOREM UploadRunsDown == Spec => [][RunsDown]_vars
<1>1. TypeOK /\ [Next]_vars => [RunsDown]_vars
  <2> SUFFICES ASSUME TypeOK, Next, NEW s \in Session
               PROVE  /\ StepsLeft(s)' <= StepsLeft(s)
                      /\ SessionStep(s) => StepsLeft(s)' < StepsLeft(s)
    BY DEF RunsDown
  <2>1. StepsLeft(s) \in Nat
    BY StepsLeftType, BoundsAssumption
  <2>2. CASE SessionStep(s)
    BY <2>1, <2>2, SessionRunsDown
  <2>3. CASE ~SessionStep(s)
    <3>1. pc'[s] = pc[s] /\ elapsed'[s] = elapsed[s]
      BY <2>3, SessionRunsDown DEF Next, Reenumerate, Depart, local
    <3>2. StepsLeft(s)' = StepsLeft(s)
      BY <3>1 DEF StepsLeft
    <3> QED
      BY <2>1, <2>3, <3>2
  <2> QED
    BY <2>2, <2>3
<1> QED
  BY <1>1, TypeCorrect, PTL DEF Spec

-----------------------------------------------------------------------------
(* SerialUpload implements UploadContract: the first step of a session is  *)
(* the contract's Choose, its last one Finish, and all others, the bus's   *)
(* among them, are Disturb or do not show.                                 *)

(* reset_to_bootloader sets its outcome when it returns, and only then.    *)
NoOutcomeYet ==
  \A s \in Session :
    pc[s] \in {"reset", "flush", "touch", "poll"} => outcome[s] = "none"

CInv == IInv /\ NoOutcomeYet

LEMMA CInvInit == Init => CInv
  BY IInvInit DEF CInv, Init, NoOutcomeYet

LEMMA CInvStep == CInv /\ [Next]_vars => CInv'
<1> SUFFICES ASSUME CInv, [Next]_vars PROVE NoOutcomeYet'
  BY IInvStep DEF CInv
<1> USE DEF CInv, IInv, TypeOK, NoOutcomeYet, GoTo, bus, local, history
<1>1. ASSUME NEW s \in Session, SessionStep(s) PROVE NoOutcomeYet'
  BY <1>1 DEF SessionStep, InvalidPort, AlreadyInBootloader, RememberSerial,
     FlushSerialBuffer, TouchSerialPort, DetectReset, PollAgain, ResetTimeout,
     upload_adafruit, upload_nordic, TransferFails, NoBootloaderAnswers, EndUpload
<1>2. ASSUME NEW b \in Board, Reenumerate(b) \/ Depart(b) PROVE NoOutcomeYet'
  BY <1>2 DEF Reenumerate, Depart
<1>3. CASE UNCHANGED vars
  BY <1>3 DEF vars
<1> QED
  BY <1>1, <1>2, <1>3 DEF Next

-----------------------------------------------------------------------------
(* The values the contract's phase and excuses have for one session.       *)
Phase(s) ==
  IF pc[s] = "reset" THEN "requested" ELSE IF pc[s] = "done" THEN "ended" ELSE "chosen"

Excused(s) == outcome[s] \in {"invalid", "timeout"} \/ "upload" \in moved[s]

(* No step takes back an excuse, or gives one to a session that has ended. *)
LEMMA ExcusesStep ==
  ASSUME CInv, Next, NEW t \in Session
  PROVE  Excused(t)' # Excused(t) => Excused(t)' /\ Phase(t) # "ended"
<1> USE DEF CInv, IInv, TypeOK, NoOutcomeYet, GoTo, bus, local, history, Excused,
     Phase
<1>1. ASSUME NEW s \in Session, InvalidPort(s) \/ ResetTimeout(s)
      PROVE  Excused(t)' # Excused(t) => Excused(t)' /\ Phase(t) # "ended"
  BY <1>1 DEF InvalidPort, ResetTimeout
<1>2. ASSUME NEW s \in Session, AlreadyInBootloader(s) \/ DetectReset(s)
      PROVE  Excused(t)' # Excused(t) => Excused(t)' /\ Phase(t) # "ended"
  BY <1>2 DEF AlreadyInBootloader, DetectReset
<1>3. ASSUME NEW s \in Session,
             RememberSerial(s) \/ FlushSerialBuffer(s) \/ PollAgain(s)
      PROVE  Excused(t)' # Excused(t) => Excused(t)' /\ Phase(t) # "ended"
  BY <1>3 DEF RememberSerial, FlushSerialBuffer, PollAgain
<1>4. ASSUME NEW s \in Session, TouchSerialPort(s)
      PROVE  Excused(t)' # Excused(t) => Excused(t)' /\ Phase(t) # "ended"
  BY <1>4 DEF TouchSerialPort, LeavesPort
<1>5. ASSUME NEW s \in Session, upload_nordic(s)
      PROVE  Excused(t)' # Excused(t) => Excused(t)' /\ Phase(t) # "ended"
  BY <1>5 DEF upload_nordic, EndUpload, LeavesPort
<1>6. ASSUME NEW s \in Session,
             upload_adafruit(s) \/ TransferFails(s) \/ NoBootloaderAnswers(s)
      PROVE  Excused(t)' # Excused(t) => Excused(t)' /\ Phase(t) # "ended"
  BY <1>6 DEF upload_adafruit, TransferFails, NoBootloaderAnswers, EndUpload
<1>7. ASSUME NEW b \in Board, Reenumerate(b) \/ Depart(b)
      PROVE  Excused(t)' # Excused(t) => Excused(t)' /\ Phase(t) # "ended"
  BY <1>7 DEF Reenumerate, Depart, LeavesPort
<1> QED
  BY <1>1, <1>2, <1>3, <1>4, <1>5, <1>6, <1>7 DEF Next, SessionStep

LEMMA MapsToExcuses ==
  ASSUME CInv, Next
  PROVE  Contract!Excuses
  BY ExcusesStep, Zenon DEF Contract!Excuses, Excused, Phase

-----------------------------------------------------------------------------
LEMMA MapsToInit == Init => Contract!Init
  BY DEF Init, Contract!Init

(* The first step of a session.                                            *)
LEMMA MapsToChoose ==
  ASSUME CInv, Next, NEW s \in Session,
         InvalidPort(s) \/ AlreadyInBootloader(s) \/ RememberSerial(s)
  PROVE  Contract!Choose(s)
<1> USE DEF CInv, IInv, TypeOK, NothingDoneYet, GoTo, bus, local, history
<1>1. pc[s] = "reset" /\ pc' = [pc EXCEPT ![s] = pc'[s]] /\ pc'[s] \in {"upload", "flush"}
  BY DEF InvalidPort, AlreadyInBootloader, RememberSerial
<1>2. \E b \in Board \cup {NoBoard} : selected' = [selected EXCEPT ![s] = b]
  BY DEF InvalidPort, AlreadyInBootloader, RememberSerial, Attached
<1>3. selected'[s] = NoBoard => outcome'[s] = "invalid"
  BY NoValues DEF InvalidPort, AlreadyInBootloader, RememberSerial, Attached
<1>4. UNCHANGED <<written, result>>
  BY DEF InvalidPort, AlreadyInBootloader, RememberSerial
<1>5. Contract!Excuses
  BY MapsToExcuses
<1>6. [t \in Session |-> Phase(t)][s] = "requested"
  BY <1>1 DEF Phase
<1>7. [t \in Session |-> Phase(t)]' = [[t \in Session |-> Phase(t)] EXCEPT ![s] = "chosen"]
  BY <1>1 DEF Phase
<1>8. selected'[s] = NoBoard => ([t \in Session |-> Excused(t)]')[s]
  BY <1>3 DEF Excused
<1> HIDE DEF CInv, IInv, TypeOK, NothingDoneYet, GoTo, bus, local, history
<1> QED
  BY <1>2, <1>4, <1>5, <1>6, <1>7, <1>8, Zenon DEF Contract!Choose, Phase, Excused

(* The last step of a session: the flush that fails, or the upload.        *)
LEMMA MapsToFinish ==
  ASSUME CInv, CInv', Next, NEW s \in Session, pc[s] \notin {"reset", "done"},
         pc' = [pc EXCEPT ![s] = "done"], UNCHANGED <<selected, outcome>>,
         moved'[s] = moved[s],
         NEW b \in Board \cup {NoBoard}, written' = [written EXCEPT ![s] = b],
         NEW status \in {"ok", "error"}, result' = [result EXCEPT ![s] = status],
         status = "ok" /\ TargetOf[s] = "flash_serial_nordic" => b # NoBoard
  PROVE  Contract!Finish(s)
<1> USE DEF CInv, IInv, TypeOK
<1>1. b \notin {NoBoard, selected[s]} =>
        outcome[s] \in {"invalid", "timeout"} \/ "upload" \in moved[s]
  BY DEF WrongBoardHasACause
<1>2. Contract!Excuses
  BY MapsToExcuses
<1>3. [t \in Session |-> Phase(t)][s] = "chosen"
  BY DEF Phase
<1>4. [t \in Session |-> Phase(t)]' = [[t \in Session |-> Phase(t)] EXCEPT ![s] = "ended"]
  BY DEF Phase
<1>5. b \notin {NoBoard, selected[s]} => [t \in Session |-> Excused(t)][s]
  BY <1>1 DEF Excused
<1>6. status = "ok" /\ s \in {t \in Session : TargetOf[t] = "flash_serial_nordic"}
        => b # NoBoard
  OBVIOUS
<1> HIDE DEF CInv, IInv, TypeOK
<1> QED
  BY <1>2, <1>3, <1>4, <1>5, <1>6, Zenon DEF Contract!Finish, Phase, Excused

(* Every other step of a session, and those of the bus.                    *)
LEMMA MapsToDisturb ==
  ASSUME CInv, Next, UNCHANGED <<selected, written, result>>,
         \A s \in Session : Phase(s)' = Phase(s)
  PROVE  Contract!Disturb
  BY MapsToExcuses DEF Contract!Disturb, Phase

-----------------------------------------------------------------------------
(* Every step of SerialUpload is a step of the contract or none.           *)
LEMMA MapsToNext ==
  CInv /\ CInv' /\ [Next]_vars => [Contract!Next]_(Contract!vars)
<1> SUFFICES ASSUME CInv, CInv', [Next]_vars PROVE [Contract!Next]_(Contract!vars)
  OBVIOUS
<1>1. ASSUME NEW s \in Session,
             InvalidPort(s) \/ AlreadyInBootloader(s) \/ RememberSerial(s), Next
      PROVE  Contract!Next
  BY <1>1, MapsToChoose DEF Contract!Next
<1>2. ASSUME NEW s \in Session, FlushSerialBuffer(s), pc'[s] = "done", Next
      PROVE  Contract!Next
  <2>1. /\ pc[s] = "flush" /\ pc' = [pc EXCEPT ![s] = "done"]
        /\ result' = [result EXCEPT ![s] = "error"]
        /\ UNCHANGED <<selected, outcome, written, moved>>
    BY <1>2 DEF FlushSerialBuffer, GoTo, history, CInv, IInv, TypeOK
  <2>2. written' = [written EXCEPT ![s] = NoBoard]
    BY <2>1 DEF CInv, IInv, TypeOK, NothingDoneYet
  <2> QED
    BY <1>2, <2>1, <2>2, MapsToFinish DEF Contract!Next
<1>3. ASSUME NEW s \in Session, upload_nordic(s), Next
      PROVE  Contract!Next
  <2>1. /\ pc[s] = "upload" /\ pc' = [pc EXCEPT ![s] = "done"]
        /\ result' = [result EXCEPT ![s] = "ok"]
        /\ UNCHANGED <<selected, outcome>>
    BY <1>3 DEF upload_nordic, EndUpload, GoTo
  <2>2. PICK b \in Board : written' = [written EXCEPT ![s] = b] /\ LeavesPort(b, {s})
    BY <1>3 DEF upload_nordic, Attached
  <2>3. moved'[s] = moved[s]
    BY <2>2 DEF LeavesPort
  <2> QED
    BY <1>3, <2>1, <2>2, <2>3, NoValues, MapsToFinish DEF Contract!Next
<1>4. ASSUME NEW s \in Session,
             upload_adafruit(s) \/ NoBootloaderAnswers(s), Next
      PROVE  Contract!Next
  <2>1. PICK status \in {"ok", "error"} :
          /\ EndUpload(s, status)
          /\ UNCHANGED <<written, moved>>
          /\ status = "ok" => TargetOf[s] # "flash_serial_nordic"
    BY <1>4 DEF upload_adafruit, NoBootloaderAnswers
  <2>2. /\ pc[s] = "upload" /\ pc' = [pc EXCEPT ![s] = "done"]
        /\ result' = [result EXCEPT ![s] = status]
        /\ UNCHANGED <<selected, outcome>>
    BY <2>1 DEF EndUpload, GoTo
  <2>3. written' = [written EXCEPT ![s] = NoBoard]
    BY <2>1, <2>2 DEF CInv, IInv, TypeOK, NothingDoneYet
  <2> QED
    BY <1>4, <2>1, <2>2, <2>3, MapsToFinish DEF Contract!Next
<1>5. ASSUME NEW s \in Session, TransferFails(s), Next
      PROVE  Contract!Next
  <2>1. /\ pc[s] = "upload" /\ pc' = [pc EXCEPT ![s] = "done"]
        /\ result' = [result EXCEPT ![s] = "error"]
        /\ UNCHANGED <<selected, outcome, moved>>
    BY <1>5 DEF TransferFails, EndUpload, GoTo
  <2>2. PICK b \in Board : written' = [written EXCEPT ![s] = b]
    BY <1>5 DEF TransferFails, Attached
  <2> QED
    BY <1>5, <2>1, <2>2, MapsToFinish DEF Contract!Next
<1>6. ASSUME NEW s \in Session, Next,
             \/ FlushSerialBuffer(s) /\ pc'[s] # "done"
             \/ TouchSerialPort(s) \/ DetectReset(s) \/ PollAgain(s) \/ ResetTimeout(s)
      PROVE  Contract!Next
  <2>1. UNCHANGED <<selected, written, result>>
    BY <1>6 DEF FlushSerialBuffer, TouchSerialPort, DetectReset, PollAgain,
       ResetTimeout, GoTo, local, history, CInv, IInv, TypeOK
  <2>2. \A t \in Session : Phase(t)' = Phase(t)
    BY <1>6 DEF FlushSerialBuffer, TouchSerialPort, DetectReset, PollAgain,
       ResetTimeout, GoTo, Phase, CInv, IInv, TypeOK
  <2> QED
    BY <1>6, <2>1, <2>2, MapsToDisturb DEF Contract!Next
<1>7. ASSUME NEW b \in Board, Reenumerate(b) \/ Depart(b), Next
      PROVE  Contract!Next
  BY <1>7, MapsToDisturb DEF Reenumerate, Depart, Phase, history, Contract!Next
<1>8. CASE UNCHANGED vars
  BY <1>8 DEF vars, Contract!vars
<1> QED
  BY <1>1, <1>2, <1>3, <1>4, <1>5, <1>6, <1>7, <1>8 DEF Next, SessionStep

(* An invocation programs the board it chose or none, in its last step,    *)
(* unless it is excused, and a success of the nordic target is a board     *)
(* programmed: for any number of sessions, boards and ports.               *)
THEOREM Implements == Spec => UploadsAsPromised
<1>1. Spec => []CInv
  BY CInvInit, CInvStep, PTL DEF Spec
<1> QED
  BY <1>1, MapsToInit, MapsToNext, PTL DEF Spec, UploadsAsPromised, Contract!Spec
=============================================================================
