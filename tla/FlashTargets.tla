---------------------------- MODULE FlashTargets ----------------------------
(***************************************************************************)
(* The five upload targets of builder/main.py in one invocation of         *)
(* "pio run".  An action list stores its tool and command line in the      *)
(* construction environment and then runs "$UPLOADCMD", which is expanded  *)
(* at that moment; the serial targets first reset the board and store the  *)
(* port it comes back at.  The environment is one object for all targets,  *)
(* and PlatformIO runs SCons with --jobs: the actions of up to Jobs        *)
(* targets interleave.                                                     *)
(*                                                                         *)
(* Two threads never lie between the lines of one env.Replace here; the    *)
(* steps are the look at UPLOAD_PORT, its Replace, the Replace of the      *)
(* command, the expansion with the command, and their end.  What a reset   *)
(* does on the bus is module SerialUpload: here a port is the user's, or   *)
(* named after the target whose reset found the board at it.               *)
(***************************************************************************)
EXTENDS Naturals, FiniteSets

CONSTANTS
  Requested,   \* the targets of the command line
  Jobs         \* --jobs

Swd    == {"flash_pyocd", "flash_jlink"}
Serial == {"flash_serial_adafruit", "flash_serial_nordic"}
Target == Swd \cup Serial \cup {"flash_uf2"}

(* The targets that run "$UPLOADCMD".                                      *)
Commanding == Swd \cup {"flash_uf2"}

(* AddPlatformTarget registers the targets; "upload" is an alias of        *)
(* flash_serial_adafruit.                                                  *)
ASSUME RequestedAssumption == Requested \subseteq Target
ASSUME JobsAssumption == Jobs \in Nat \ {0}

VARIABLES
  env,        \* the variables the actions share
  pc,         \* target -> "waiting", "reset", "touch", "replace", "run", "ok", "failed"
  current,    \* target -> the local current_port of its reset
  ran,        \* target -> what was executed for it, a command or nothing
  \* History, read by no action:
  stored,     \* target -> the port its reset stored, or "none"
  overtaken   \* targets whose variables another target replaced between
              \* their own Replace and their command

vars == <<env, pc, current, ran, stored, overtaken>>

Uploaders == {"user", "west", "uf2conv", "adafruit-nrfutil"}
Runners   == {"none", "pyocd", "jlink"}
Flags     == {"user", "uf2", "dfu serial"}
Ports     == {"user"} \cup Serial
Speeds    == {"none", "user", "115200"}

Environment ==
  [UPLOADER : Uploaders, WEST_RUNNER : Runners, UPLOADCMD : Uploaders,
   UPLOADERFLAGS : Flags, UPLOAD_PORT : Ports, UPLOAD_SPEED : Speeds]

Nothing == [UPLOADER |-> "nothing"]

TypeOK ==
  /\ env \in Environment
  /\ pc \in [Requested -> {"waiting", "reset", "touch", "replace", "run", "ok", "failed"}]
  /\ current \in [Requested -> Ports]
  /\ ran \in [Requested -> Environment \cup {Nothing}]
  /\ stored \in [Requested -> Ports \cup {"none"}]
  /\ overtaken \subseteq Requested

(* "user" stands for what platformio.ini sets or PlatformIO detects.       *)
Init ==
  /\ \E speed \in {"none", "user"} :
       env = [UPLOADER |-> "user", WEST_RUNNER |-> "none", UPLOADCMD |-> "user",
              UPLOADERFLAGS |-> "user", UPLOAD_PORT |-> "user", UPLOAD_SPEED |-> speed]
  /\ pc = [t \in Requested |-> "waiting"]
  /\ current = [t \in Requested |-> "user"]
  /\ ran = [t \in Requested |-> Nothing]
  /\ stored = [t \in Requested |-> "none"]
  /\ overtaken = {}

-----------------------------------------------------------------------------
Active == {t \in Requested : pc[t] \in {"reset", "touch", "replace", "run"}}

GoTo(t, label) == pc' = [pc EXCEPT ![t] = label]

(* A store of t takes the command of the others in group that are about to *)
(* run from them.                                                          *)
Overtakes(t, group) ==
  overtaken' = overtaken \cup {u \in (Requested \cap group) \ {t} : pc[u] = "run"}

(* SCons starts a target when a job is free, and none after a failure.     *)
Start(t) ==
  /\ pc[t] = "waiting"
  /\ Cardinality(Active) < Jobs
  /\ \A u \in Requested : pc[u] # "failed"
  /\ GoTo(t, IF t \in Serial THEN "reset" ELSE "replace")
  /\ UNCHANGED <<env, current, ran, stored, overtaken>>

-----------------------------------------------------------------------------
(* reset_to_bootloader, the first action of the serial targets             *)

AfterReset(t) == IF t = "flash_serial_nordic" THEN "run" ELSE "replace"

(* Mutant of LookUpPort: the port the board will get is stored before the  *)
(* board is there.                                                         *)
StorePortAtOnce(t) ==
  /\ pc[t] = "reset"
  /\ current' = [current EXCEPT ![t] = env.UPLOAD_PORT]
  /\ env' = [env EXCEPT !.UPLOAD_PORT = t]
  /\ GoTo(t, "touch")
  /\ UNCHANGED <<ran, stored, overtaken>>

(* The device at UPLOAD_PORT is looked up.                                 *)
LookUpPort(t) ==
  /\ pc[t] = "reset"
  /\ current' = [current EXCEPT ![t] = env.UPLOAD_PORT]
  /\ GoTo(t, "touch")
  /\ UNCHANGED <<env, ran, stored, overtaken>>

(* No device is there, or none came back in time: the upload goes on all   *)
(* the same, with whatever UPLOAD_PORT is by then.                         *)
ResetFails(t) ==
  /\ pc[t] = "touch"
  /\ GoTo(t, AfterReset(t))
  /\ UNCHANGED <<env, current, ran, stored, overtaken>>

(* The board is in its bootloader already, and the port that was looked up *)
(* is stored again; or it came back, and its new port is stored.  The next *)
(* action of flash_serial_nordic uses that port.                           *)
StorePort(t) ==
  /\ pc[t] = "touch"
  /\ \E port \in {current[t], t} :
       /\ env' = [env EXCEPT !.UPLOAD_PORT = port]
       /\ stored' = [stored EXCEPT ![t] = port]
  /\ GoTo(t, AfterReset(t))
  /\ Overtakes(t, {"flash_serial_nordic"})
  /\ UNCHANGED <<current, ran>>

-----------------------------------------------------------------------------
(* Mutant of Runner: the name of the target is taken for the runner.       *)
RunnerAsTitled(t) == t

Runner(t) == IF t = "flash_jlink" THEN "jlink" ELSE "pyocd"

(* Mutant of ReplaceBySwd: the runner of an earlier target is kept.        *)
ReplaceButRunner(t) ==
  env' = [env EXCEPT !.UPLOADER = "west", !.UPLOADCMD = "west",
                     !.WEST_RUNNER = IF @ = "none" THEN Runner(t) ELSE @]

(* Mutant of ReplaceBySwd: flags are stored as by the other targets.       *)
ReplaceFlagsToo(t) ==
  env' = [env EXCEPT !.UPLOADER = "west", !.WEST_RUNNER = Runner(t), !.UPLOADCMD = "west",
                     !.UPLOADERFLAGS = "uf2"]

(* upload_swd does not replace UPLOADERFLAGS, which its command uses.      *)
ReplaceBySwd(t) ==
  env' = [env EXCEPT !.UPLOADER = "west", !.WEST_RUNNER = Runner(t), !.UPLOADCMD = "west"]

ReplaceByUf2 ==
  env' = [env EXCEPT !.UPLOADER = "uf2conv", !.UPLOADCMD = "uf2conv", !.UPLOADERFLAGS = "uf2"]

ReplaceByAdafruit ==
  env' = [env EXCEPT !.UPLOADER = "adafruit-nrfutil", !.UPLOADCMD = "adafruit-nrfutil",
                     !.UPLOADERFLAGS = "dfu serial",
                     !.UPLOAD_SPEED = IF @ = "none" THEN "115200" ELSE @]

ReplaceSwd(t) ==
  /\ pc[t] = "replace" /\ t \in Swd
  /\ ReplaceBySwd(t)
  /\ GoTo(t, "run")
  /\ Overtakes(t, Commanding)
  /\ UNCHANGED <<current, ran, stored>>

ReplaceUf2(t) ==
  /\ pc[t] = "replace" /\ t = "flash_uf2"
  /\ ReplaceByUf2
  /\ GoTo(t, "run")
  /\ Overtakes(t, Commanding)
  /\ UNCHANGED <<current, ran, stored>>

(* The adafruit action ends here: its command is stored and never run.     *)
ReplaceAdafruit(t) ==
  /\ pc[t] = "replace" /\ t = "flash_serial_adafruit"
  /\ ReplaceByAdafruit
  /\ GoTo(t, "ok")
  /\ Overtakes(t, Commanding)
  /\ UNCHANGED <<current, ran, stored>>

(* upload_nordic calls a function with $UPLOAD_PORT and $UPLOAD_SPEED.     *)
FlashNordic(t) ==
  /\ pc[t] = "run" /\ t = "flash_serial_nordic"
  /\ ran' = [ran EXCEPT ![t] =
               [env EXCEPT !.UPLOAD_SPEED = IF @ = "none" THEN "115200" ELSE @]]
  /\ \E end \in {"ok", "failed"} : GoTo(t, end)
  /\ UNCHANGED <<env, current, stored, overtaken>>

(* "$UPLOADCMD" is expanded, $UPLOADER and the rest within it, and runs;   *)
(* the flags of flash_uf2 hold $UPLOAD_PORT, which is expanded with them.  *)
Run(t) ==
  /\ pc[t] = "run" /\ t \in Commanding
  /\ ran' = [ran EXCEPT ![t] = env]
  /\ \E end \in {"ok", "failed"} : GoTo(t, end)
  /\ UNCHANGED <<env, current, stored, overtaken>>

Reset(t) == LookUpPort(t) \/ ResetFails(t) \/ StorePort(t)

Next ==
  \E t \in Requested :
    \/ Start(t) \/ Reset(t)
    \/ ReplaceSwd(t) \/ ReplaceUf2(t) \/ ReplaceAdafruit(t)
    \/ FlashNordic(t) \/ Run(t)

Spec == Init /\ [][Next]_vars

-----------------------------------------------------------------------------
(* Properties                                                              *)

(* What ran for t is what t built: its tool, with the runner or the flags  *)
(* it chose; for flash_serial_nordic, the port its own reset stored, if it *)
(* stored one.                                                             *)
RanOwnCommand(t) ==
  \/ ran[t] = Nothing
  \/ /\ t \in Swd
     /\ ran[t].UPLOADCMD = "west" /\ ran[t].UPLOADER = "west"
     /\ ran[t].WEST_RUNNER = Runner(t)
  \/ /\ t = "flash_uf2"
     /\ ran[t].UPLOADCMD = "uf2conv" /\ ran[t].UPLOADER = "uf2conv"
     /\ ran[t].UPLOADERFLAGS = "uf2"
  \/ /\ t = "flash_serial_nordic"
     /\ stored[t] # "none" => ran[t].UPLOAD_PORT = stored[t]

(* A target runs with another target's tool, runner or flags only if that  *)
(* one replaced them between the two steps of this one; what ran before in *)
(* the same environment does not matter for them.  flash_serial_nordic     *)
(* programs a port other than the one its own reset stored only if another *)
(* target's reset stored one in between.  Which port flash_uf2 is given    *)
(* does depend on what ran before: see ForeignPortHasACause.               *)
WrongCommandHasACause ==
  \A t \in Requested : RanOwnCommand(t) \/ t \in overtaken

(* The port a command is given is the user's, unless the reset of a serial *)
(* target found its board at another one in the same invocation: that one  *)
(* stays in the environment, and flash_uf2, or a serial target whose own   *)
(* reset stored none, is run on it.  A reset that looked at a port before  *)
(* another target replaced it may bring it back, but no port comes in that *)
(* no reset has stored.                                                    *)
ForeignPortHasACause ==
  \A t \in Requested :
    ran[t] # Nothing /\ ran[t].UPLOAD_PORT # "user" =>
      \E u \in Requested : stored[u] = ran[t].UPLOAD_PORT

(* The targets that store flags of their own, and whether one has.         *)
FlagsStored ==
  \E u \in Requested \cap {"flash_uf2", "flash_serial_adafruit"} :
    pc[u] \in {"run", "ok", "failed"}

(* west is started with the flags the user gave, unless a target that      *)
(* stores flags of its own came before in the same invocation: then an SWD *)
(* target runs with those, for nothing ever sets the user's again.         *)
ForeignFlagsHaveACause ==
  \A t \in Requested \cap Swd :
    ran[t] # Nothing /\ ran[t].UPLOADERFLAGS # "user" => FlagsStored
=============================================================================
