---------------------------- MODULE SerialUpload ----------------------------
(***************************************************************************)
(* The serial upload of builder/main.py: the action list                   *)
(*                                                                         *)
(*     [reset_to_bootloader, upload_action]                                *)
(*                                                                         *)
(* of the targets flash_serial_adafruit and flash_serial_nordic, run by    *)
(* several concurrent invocations of "pio run" (the sessions), against a   *)
(* USB bus on which boards come and go, change mode and change port.       *)
(*                                                                         *)
(* The code sees the bus only through list_serial_ports(); the scan of one *)
(* list and the env.Replace that follows it are therefore one step, and    *)
(* everything the bus does falls between two such steps.  A file name of   *)
(* this directory's map says which lines each definition stands for.       *)
(***************************************************************************)
EXTENDS Naturals

CONSTANTS
  Session,        \* the concurrent invocations, each with an env of its own
  Board,          \* the devices with a serial port
  Port,           \* port names the operating system hands out
  Serial,         \* USB serial numbers
  NoBoard, NoPort, NoSerial,
  HwidOf,         \* what a board shows in each mode: [ser, dfu]
  TargetOf,       \* the target each session builds
  RESET_TIMEOUT,  \* in polls: 10 s at one poll every 0.5 s in the code
  MaxDepartures   \* bound: how often the environment unplugs or resets a board

Mode == {"app", "boot"}

(* What the "hwid" text of a port says of it: a serial number, or none, and *)
(* whether its VID and PID are among VIDS_PIDS, the known bootloaders.      *)
Hwid == [ser : Serial \cup {NoSerial}, dfu : BOOLEAN]

Target == {"flash_serial_adafruit", "flash_serial_nordic"}

ASSUME NoValues == NoBoard \notin Board /\ NoPort \notin Port /\ NoSerial \notin Serial
ASSUME HwidOfAssumption == HwidOf \in [Board -> [Mode -> Hwid]]
ASSUME TargetOfAssumption == TargetOf \in [Session -> Target]
ASSUME BoundsAssumption == RESET_TIMEOUT \in Nat /\ MaxDepartures \in Nat

(* Serial numbers identify boards: two boards never show the same one.     *)
ASSUME SerialsIdentify ==
  \A b, c \in Board, m, n \in Mode :
     /\ HwidOf[b][m].ser = HwidOf[c][n].ser
     /\ HwidOf[b][m].ser # NoSerial
     => b = c

VARIABLES
  at,           \* board -> the port it shows up at, or NoPort
  mode,         \* board -> running its application or its bootloader
  departures,   \* how often the environment made a board leave the bus
  pc,           \* session -> the next step of its action list
  upload_port,  \* session -> env["UPLOAD_PORT"]
  ser,          \* session -> the local "ser" of reset_to_bootloader
  elapsed,      \* session -> time.time() - start_time, in polls
  outcome,      \* session -> which return reset_to_bootloader took
  result,       \* session -> exit status
  \* History, read by no action:
  selected,     \* session -> the board found at UPLOAD_PORT when it started
  touched,      \* session -> the board its 1200 baud touch reset
  written,      \* session -> the board whose flash it wrote
  moved         \* session -> the steps before which another party took the
                \* selected board off its port

bus      == <<at, mode, departures>>
local    == <<upload_port, ser, elapsed>>
history  == <<selected, touched, written, moved>>
vars     == <<at, mode, departures, pc, upload_port, ser, elapsed, outcome,
              result, selected, touched, written, moved>>

TypeOK ==
  /\ at \in [Board -> Port \cup {NoPort}]
  /\ mode \in [Board -> Mode]
  /\ departures \in 0..MaxDepartures
  /\ pc \in [Session -> {"reset", "flush", "touch", "poll", "upload", "done"}]
  /\ upload_port \in [Session -> Port \cup {NoPort}]
  /\ ser \in [Session -> Serial \cup {NoSerial}]
  /\ elapsed \in [Session -> 0..RESET_TIMEOUT]
  /\ outcome \in [Session -> {"none", "invalid", "already", "detected", "timeout"}]
  /\ result \in [Session -> {"running", "ok", "error"}]
  /\ selected \in [Session -> Board \cup {NoBoard}]
  /\ touched \in [Session -> Board \cup {NoBoard}]
  /\ written \in [Session -> Board \cup {NoBoard}]
  /\ moved \in [Session -> SUBSET {"flush", "touch", "upload"}]

DistinctPorts(f) == \A b, c \in Board : f[b] = f[c] /\ f[b] # NoPort => b = c

(* UPLOAD_PORT comes from the command line or platformio.ini: any name, or *)
(* none.                                                                   *)
Init ==
  /\ at \in [Board -> Port \cup {NoPort}] /\ DistinctPorts(at)
  /\ mode \in [Board -> Mode]
  /\ departures = 0
  /\ pc = [s \in Session |-> "reset"]
  /\ upload_port \in [Session -> Port \cup {NoPort}]
  /\ ser = [s \in Session |-> NoSerial]
  /\ elapsed = [s \in Session |-> 0]
  /\ outcome = [s \in Session |-> "none"]
  /\ result = [s \in Session |-> "running"]
  /\ selected = [s \in Session |-> NoBoard]
  /\ touched = [s \in Session |-> NoBoard]
  /\ written = [s \in Session |-> NoBoard]
  /\ moved = [s \in Session |-> {}]

-----------------------------------------------------------------------------
(* The bus as list_serial_ports() reports it.                              *)

Attached(p) == {b \in Board : at[b] = p /\ p # NoPort}

(* A description without a SER= field does not match REGEX at all: vid, pid *)
(* and ser are then all None, and None is in no VID table.                  *)
get_serial_port_info(b) ==
  LET hwid == HwidOf[b][mode[b]]
  IN  IF hwid.ser = NoSerial THEN [ser |-> NoSerial, dfu |-> FALSE] ELSE hwid

GoTo(s, label) == pc' = [pc EXCEPT ![s] = label]

(* Board b leaves its port by the doing of someone other than the sessions *)
(* in own; the sessions about to use that port do not learn of it.         *)
LeavesPort(b, own) ==
  moved' = [t \in Session |->
              IF selected[t] = b /\ t \notin own /\ pc[t] \in {"flush", "touch", "upload"}
              THEN moved[t] \cup {pc[t]}
              ELSE moved[t]]

-----------------------------------------------------------------------------
(* reset_to_bootloader                                                     *)

(* Mutant of InvalidPort: the early return is forgotten.                   *)
InvalidPortGoesOn(s) ==
  /\ pc[s] = "reset"
  /\ Attached(upload_port[s]) = {}
  /\ outcome' = [outcome EXCEPT ![s] = "invalid"]
  /\ GoTo(s, "flush")
  /\ UNCHANGED <<bus, local, result, history>>

(* "Invalid serial port." is a warning: the action returns None, which is  *)
(* success, and the upload action runs next.                               *)
InvalidPort(s) ==
  /\ pc[s] = "reset"
  /\ Attached(upload_port[s]) = {}
  /\ outcome' = [outcome EXCEPT ![s] = "invalid"]
  /\ GoTo(s, "upload")
  /\ UNCHANGED <<bus, local, result, history>>

AlreadyInBootloader(s) ==
  /\ pc[s] = "reset"
  /\ \E b \in Attached(upload_port[s]) :
       /\ get_serial_port_info(b).dfu
       /\ selected' = [selected EXCEPT ![s] = b]
  /\ outcome' = [outcome EXCEPT ![s] = "already"]
  /\ GoTo(s, "upload")
  /\ UNCHANGED <<bus, local, result, touched, written, moved>>

RememberSerial(s) ==
  /\ pc[s] = "reset"
  /\ \E b \in Attached(upload_port[s]) :
       /\ ~get_serial_port_info(b).dfu
       /\ selected' = [selected EXCEPT ![s] = b]
       /\ ser' = [ser EXCEPT ![s] = get_serial_port_info(b).ser]
  /\ GoTo(s, "flush")
  /\ UNCHANGED <<bus, upload_port, elapsed, outcome, result, touched, written, moved>>

(* FlushSerialBuffer opens the port and raises if it cannot: SCons then    *)
(* stops the target.                                                       *)
FlushSerialBuffer(s) ==
  /\ pc[s] = "flush"
  /\ \/ /\ Attached(upload_port[s]) # {}
        /\ GoTo(s, "touch")
        /\ UNCHANGED result
     \/ /\ GoTo(s, "done")
        /\ result' = [result EXCEPT ![s] = "error"]
  /\ UNCHANGED <<bus, local, outcome, history>>

(* TouchSerialPort swallows every exception.  A board running its          *)
(* application may answer the touch by restarting into its bootloader,     *)
(* which takes it off the bus; anything else ignores it.                   *)
TouchSerialPort(s) ==
  /\ pc[s] = "touch"
  /\ \/ \E b \in Attached(upload_port[s]) :
          /\ mode[b] = "app"
          /\ mode' = [mode EXCEPT ![b] = "boot"]
          /\ at' = [at EXCEPT ![b] = NoPort]
          /\ touched' = [touched EXCEPT ![s] = b]
          /\ LeavesPort(b, {s})
     \/ UNCHANGED <<at, mode, touched, moved>>
  /\ elapsed' = [elapsed EXCEPT ![s] = 0]
  /\ GoTo(s, "poll")
  /\ UNCHANGED <<departures, upload_port, ser, outcome, result, selected, written>>

(* Mutant of IsReset: any bootloader will do.                              *)
AnyBootloader(s, b) ==
  /\ get_serial_port_info(b).ser # NoSerial
  /\ get_serial_port_info(b).dfu

(* A listed port shows the remembered serial number and is a bootloader.   *)
IsReset(s, b) ==
  /\ get_serial_port_info(b).ser # NoSerial
  /\ get_serial_port_info(b).ser = ser[s]
  /\ get_serial_port_info(b).dfu

DetectReset(s) ==
  /\ pc[s] = "poll"
  /\ elapsed[s] < RESET_TIMEOUT
  /\ \E b \in Board :
       /\ at[b] # NoPort
       /\ IsReset(s, b)
       /\ upload_port' = [upload_port EXCEPT ![s] = at[b]]
  /\ outcome' = [outcome EXCEPT ![s] = "detected"]
  /\ GoTo(s, "upload")
  /\ UNCHANGED <<bus, ser, elapsed, result, history>>

(* Mutants of PollAgain: the deadline is tested with <=, and the clock is  *)
(* read anew in every round.                                               *)
PollAgainOnceMore(s) ==
  /\ pc[s] = "poll"
  /\ elapsed[s] <= RESET_TIMEOUT
  /\ \A b \in Board : at[b] # NoPort => ~IsReset(s, b)
  /\ \E t \in {elapsed[s] + 1, RESET_TIMEOUT} : elapsed' = [elapsed EXCEPT ![s] = t]
  /\ UNCHANGED <<bus, pc, upload_port, ser, outcome, result, history>>

PollAgainForever(s) ==
  /\ pc[s] = "poll"
  /\ elapsed[s] < RESET_TIMEOUT
  /\ \A b \in Board : at[b] # NoPort => ~IsReset(s, b)
  /\ UNCHANGED vars

(* Nothing matched: sleep.  A poll takes half a second, or as long as the  *)
(* machine makes it.                                                       *)
PollAgain(s) ==
  /\ pc[s] = "poll"
  /\ elapsed[s] < RESET_TIMEOUT
  /\ \A b \in Board : at[b] # NoPort => ~IsReset(s, b)
  /\ \E t \in {elapsed[s] + 1, RESET_TIMEOUT} : elapsed' = [elapsed EXCEPT ![s] = t]
  /\ UNCHANGED <<bus, pc, upload_port, ser, outcome, result, history>>

(* The loop ends, the function returns None without a word, and the upload *)
(* runs on the port the board was reset away from.                         *)
ResetTimeout(s) ==
  /\ pc[s] = "poll"
  /\ elapsed[s] >= RESET_TIMEOUT
  /\ outcome' = [outcome EXCEPT ![s] = "timeout"]
  /\ GoTo(s, "upload")
  /\ UNCHANGED <<bus, local, result, history>>

-----------------------------------------------------------------------------
(* The upload actions                                                      *)

EndUpload(s, status) ==
  /\ pc[s] = "upload"
  /\ GoTo(s, "done")
  /\ result' = [result EXCEPT ![s] = status]
  /\ UNCHANGED <<departures, local, outcome, selected, touched>>

(* upload_action of upload_serial_adafruit: the command that would run     *)
(* adafruit-nrfutil is the value of a keyword "cmd" of env.Replace and is  *)
(* never called.  The action returns None, success.                        *)
upload_adafruit(s) ==
  /\ TargetOf[s] = "flash_serial_adafruit"
  /\ EndUpload(s, "ok")
  /\ UNCHANGED <<at, mode, written, moved>>

(* upload_nordic calls nrfutil.flash_dfu_package: a bootloader at the port *)
(* takes the image, and restarts into it.                                  *)
upload_nordic(s) ==
  /\ TargetOf[s] = "flash_serial_nordic"
  /\ EndUpload(s, "ok")
  /\ \E b \in Attached(upload_port[s]) :
       /\ mode[b] = "boot"
       /\ mode' = [mode EXCEPT ![b] = "app"]
       /\ at' = [at EXCEPT ![b] = NoPort]
       /\ written' = [written EXCEPT ![s] = b]
       /\ LeavesPort(b, {s})

(* The transfer breaks off: the board keeps a part of the image.           *)
TransferFails(s) ==
  /\ TargetOf[s] = "flash_serial_nordic"
  /\ EndUpload(s, "error")
  /\ \E b \in Attached(upload_port[s]) :
       /\ mode[b] = "boot"
       /\ written' = [written EXCEPT ![s] = b]
  /\ UNCHANGED <<at, mode, moved>>

(* flash_dfu_package raises: no port, or no bootloader answering there.    *)
NoBootloaderAnswers(s) ==
  /\ TargetOf[s] = "flash_serial_nordic"
  /\ EndUpload(s, "error")
  /\ UNCHANGED <<at, mode, written, moved>>

-----------------------------------------------------------------------------
(* The bus                                                                 *)

(* A board off the bus shows up at a free port, not always its last one.   *)
Reenumerate(b) ==
  /\ at[b] = NoPort
  /\ \E p \in Port :
       /\ Attached(p) = {}
       /\ at' = [at EXCEPT ![b] = p]
  /\ UNCHANGED <<mode, departures, pc, local, outcome, result, history>>

(* A board is unplugged, or someone presses its reset button once or twice.*)
Depart(b) ==
  /\ at[b] # NoPort
  /\ departures < MaxDepartures
  /\ departures' = departures + 1
  /\ at' = [at EXCEPT ![b] = NoPort]
  /\ \E m \in Mode : mode' = [mode EXCEPT ![b] = m]
  /\ LeavesPort(b, {})
  /\ UNCHANGED <<pc, local, outcome, result, selected, touched, written>>

-----------------------------------------------------------------------------
SessionStep(s) ==
  \/ InvalidPort(s)
  \/ AlreadyInBootloader(s)
  \/ RememberSerial(s)
  \/ FlushSerialBuffer(s)
  \/ TouchSerialPort(s)
  \/ DetectReset(s)
  \/ PollAgain(s)
  \/ ResetTimeout(s)
  \/ upload_adafruit(s)
  \/ upload_nordic(s)
  \/ TransferFails(s)
  \/ NoBootloaderAnswers(s)

Next ==
  \/ \E s \in Session : SessionStep(s)
  \/ \E b \in Board : Reenumerate(b) \/ Depart(b)

Spec == Init /\ [][Next]_vars

(* Python keeps executing its own lines; nobody promises to plug in boards.*)
FairSpec == Spec /\ \A s \in Session : WF_vars(SessionStep(s))

-----------------------------------------------------------------------------
(* Properties                                                              *)

(* reset_to_bootloader exists so that the image goes to the board the user *)
(* named by its port.  It reaches another board in exactly three ways: the *)
(* port was empty when the action looked, the ten seconds ran out and the  *)
(* stale port was used, or the board was taken away after it was found.    *)
WrongBoardHasACause ==
  \A s \in Session :
    written[s] \notin {NoBoard, selected[s]} =>
      outcome[s] \in {"invalid", "timeout"} \/ "upload" \in moved[s]

(* The 1200 baud touch restarts a board that is running.  It must not hit  *)
(* a board other than the one the action found at UPLOAD_PORT, unless that *)
(* one was taken off the port after the look and before the touch.         *)
TouchHitsSelected ==
  \A s \in Session :
    touched[s] \notin {NoBoard, selected[s]} =>
      moved[s] \cap {"flush", "touch"} # {}

(* env.Replace(UPLOAD_PORT=...) follows the selected board: whenever the   *)
(* port of a session changes, it changes to where that board is now,       *)
(* whatever the other boards and sessions did during the wait.             *)
PortFollowsBoard ==
  [][\A s \in Session :
       upload_port'[s] # upload_port[s] =>
         selected[s] # NoBoard /\ upload_port'[s] = at[selected[s]]]_vars

(* Whatever the boards do, and even if none ever comes back, the wait of   *)
(* reset_to_bootloader ends and the invocation finishes.                   *)
EveryRunEnds == \A s \in Session : <>(pc[s] = "done")

(* Seen from outside, a session chooses a board in its first step and      *)
(* programs at most one in its last, the chosen one unless it is excused;  *)
(* a success of the nordic target means that it did.                       *)
Contract == INSTANCE UploadContract WITH
  Reporting  <- {s \in Session : TargetOf[s] = "flash_serial_nordic"},
  phase      <- [s \in Session |-> IF pc[s] = "reset" THEN "requested"
                                   ELSE IF pc[s] = "done" THEN "ended" ELSE "chosen"],
  chosen     <- selected,
  programmed <- written,
  verdict    <- result,
  excused    <- [s \in Session |-> outcome[s] \in {"invalid", "timeout"}
                                     \/ "upload" \in moved[s]]

UploadsAsPromised == Contract!Spec

(* What the target titles and the READMEs' "Upload firmware" promise: an   *)
(* invocation that has its board in the bootloader and ends well has       *)
(* programmed it.                                                          *)
SuccessIsAFlash ==
  \A s \in Session :
    result[s] = "ok" /\ outcome[s] \in {"already", "detected"} => written[s] # NoBoard
=============================================================================
