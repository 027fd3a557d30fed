------------------------- MODULE FlashTargetsProofs -------------------------
(***************************************************************************)
(* Theorems of FlashTargets for every set of requested targets and every   *)
(* number of jobs.  The inductive invariant says what the environment      *)
(* holds while a target is about to run its command: the target's own      *)
(* values, unless it was overtaken; and with one job nobody can overtake,  *)
(* because at most one target is active.                                   *)
(***************************************************************************)
EXTENDS FlashTargets, FiniteSetTheorems, TLAPS

(* The values t stored are the ones its command would be expanded with.    *)
EnvIsOwn(t) ==
  /\ t \in Swd => /\ env.UPLOADCMD = "west" /\ env.UPLOADER = "west"
                  /\ env.WEST_RUNNER = Runner(t)
  /\ t = "flash_uf2" => /\ env.UPLOADCMD = "uf2conv" /\ env.UPLOADER = "uf2conv"
                        /\ env.UPLOADERFLAGS = "uf2"
  /\ t = "flash_serial_nordic" /\ stored[t] # "none" => env.UPLOAD_PORT = stored[t]

OwnUnlessOvertaken ==
  \A t \in Requested : pc[t] = "run" /\ t \notin overtaken => EnvIsOwn(t)

(* Which targets come to which step, and that a reset stores once, before   *)
(* anything runs.                                                          *)
Steps ==
  \A t \in Requested :
    /\ pc[t] \in {"reset", "touch"} => t \in Serial
    /\ pc[t] = "run" => t # "flash_serial_adafruit"
    /\ pc[t] \in {"waiting", "reset", "touch"} => stored[t] = "none" /\ ran[t] = Nothing

(* With one job the targets follow each other, and each runs its own       *)
(* command, in whatever order and after whatever failures: its own tool,   *)
(* runner and flags, and flash_serial_nordic on the port its reset stored. *)
(* The port of flash_uf2 is still that of the serial target before it.     *)
OneJobRunsOwnCommands ==
  Jobs = 1 => \A t \in Requested : RanOwnCommand(t)

OneAtATime == Jobs = 1 => \A t, u \in Active : t = u

NobodyOvertakes == Jobs = 1 => overtaken = {}

IInv ==
  /\ TypeOK
  /\ OwnUnlessOvertaken
  /\ Steps
  /\ WrongCommandHasACause
  /\ OneAtATime
  /\ NobodyOvertakes

-----------------------------------------------------------------------------
LEMMA TypeInit == Init => TypeOK
  BY DEF Init, TypeOK, Environment, Uploaders, Runners, Flags, Ports, Speeds

LEMMA TypeStep == TypeOK /\ Steps /\ [Next]_vars => TypeOK'
<1> SUFFICES ASSUME TypeOK, Steps, [Next]_vars PROVE TypeOK'
  OBVIOUS
<1> USE DEF TypeOK, GoTo
<1>1. ASSUME NEW t \in Requested, Start(t) PROVE TypeOK'
  BY <1>1 DEF Start
<1>2. ASSUME NEW t \in Requested, LookUpPort(t) PROVE TypeOK'
  <2>1. env.UPLOAD_PORT \in Ports
    BY DEF Environment
  <2> QED
    BY <1>2, <2>1 DEF LookUpPort
<1>3. ASSUME NEW t \in Requested, ResetFails(t) PROVE TypeOK'
  BY <1>3 DEF ResetFails, AfterReset
<1>4. ASSUME NEW t \in Requested, StorePort(t) PROVE TypeOK'
  <2>0. t \in Serial
    BY <1>4 DEF StorePort, Steps
  <2>1. PICK port \in {current[t], t} :
          /\ env' = [env EXCEPT !.UPLOAD_PORT = port]
          /\ stored' = [stored EXCEPT ![t] = port]
    BY <1>4 DEF StorePort
  <2>2. port \in Ports
    BY <2>0, <2>1 DEF Ports
  <2>3. env' \in Environment
    BY <2>1, <2>2 DEF Environment
  <2> QED
    BY <1>4, <2>1, <2>2, <2>3 DEF StorePort, AfterReset, Overtakes
<1>5. ASSUME NEW t \in Requested, ReplaceSwd(t) PROVE TypeOK'
  <2>1. env' \in Environment
    BY <1>5 DEF ReplaceSwd, ReplaceBySwd, Runner, Environment, Uploaders, Runners
  <2> QED
    BY <1>5, <2>1 DEF ReplaceSwd, Overtakes
<1>6. ASSUME NEW t \in Requested, ReplaceUf2(t) PROVE TypeOK'
  <2>1. env' \in Environment
    BY <1>6 DEF ReplaceUf2, ReplaceByUf2, Environment, Uploaders, Flags
  <2> QED
    BY <1>6, <2>1 DEF ReplaceUf2, Overtakes
<1>7. ASSUME NEW t \in Requested, ReplaceAdafruit(t) PROVE TypeOK'
  <2>1. env' \in Environment
    BY <1>7 DEF ReplaceAdafruit, ReplaceByAdafruit, Environment, Uploaders, Flags, Speeds
  <2> QED
    BY <1>7, <2>1 DEF ReplaceAdafruit, Overtakes
<1>8. ASSUME NEW t \in Requested, FlashNordic(t) PROVE TypeOK'
  <2>1. [env EXCEPT !.UPLOAD_SPEED = IF @ = "none" THEN "115200" ELSE @] \in Environment
    BY DEF Environment, Speeds
  <2> QED
    BY <1>8, <2>1 DEF FlashNordic
<1>9. ASSUME NEW t \in Requested, Run(t) PROVE TypeOK'
  BY <1>9 DEF Run
<1>10. CASE UNCHANGED vars
  BY <1>10 DEF vars
<1> QED
  BY <1>1, <1>2, <1>3, <1>4, <1>5, <1>6, <1>7, <1>8, <1>9, <1>10 DEF Next, Reset

LEMMA StepsStep == TypeOK /\ Steps /\ [Next]_vars => Steps'
<1> SUFFICES ASSUME TypeOK, Steps, [Next]_vars PROVE Steps'
  OBVIOUS
<1> USE DEF TypeOK, Steps, GoTo, Serial, Swd, Commanding
<1>1. ASSUME NEW t \in Requested, Start(t) PROVE Steps'
  BY <1>1 DEF Start
<1>2. ASSUME NEW t \in Requested, Reset(t) PROVE Steps'
  BY <1>2 DEF Reset, LookUpPort, ResetFails, StorePort, AfterReset
<1>3. ASSUME NEW t \in Requested, ReplaceSwd(t) \/ ReplaceUf2(t) \/ ReplaceAdafruit(t)
      PROVE  Steps'
  BY <1>3 DEF ReplaceSwd, ReplaceUf2, ReplaceAdafruit
<1>4. ASSUME NEW t \in Requested, FlashNordic(t) \/ Run(t) PROVE Steps'
  BY <1>4 DEF FlashNordic, Run
<1>5. CASE UNCHANGED vars
  BY <1>5 DEF vars
<1> QED
  BY <1>1, <1>2, <1>3, <1>4, <1>5 DEF Next

(* The environment with the port and speed the serial targets leave in it, *)
(* the program counters and the commands keep to their ranges, for every   *)
(* set of requested targets and number of jobs.                            *)
THEOREM TypeCorrect == Spec => []TypeOK
<1>1. Init => TypeOK /\ Steps
  BY TypeInit DEF Init, Steps
<1>2. (TypeOK /\ Steps) /\ [Next]_vars => (TypeOK /\ Steps)'
  BY TypeStep, StepsStep
<1> QED
  BY <1>1, <1>2, PTL DEF Spec

-----------------------------------------------------------------------------
LEMMA RequestedFinite == IsFiniteSet(Requested)
<1>1. /\ IsFiniteSet({"flash_pyocd"}) /\ IsFiniteSet({"flash_jlink"})
      /\ IsFiniteSet({"flash_uf2"}) /\ IsFiniteSet({"flash_serial_adafruit"})
      /\ IsFiniteSet({"flash_serial_nordic"})
  BY FS_Singleton
<1>2. Target = (({"flash_pyocd"} \cup {"flash_jlink"}) \cup {"flash_uf2"})
               \cup ({"flash_serial_adafruit"} \cup {"flash_serial_nordic"})
  BY DEF Target, Swd, Serial
<1>3. IsFiniteSet(Target)
  BY <1>1, <1>2, FS_Union
<1> QED
  BY <1>3, RequestedAssumption, FS_Subset

(* With one job a target starts only when no other is active.              *)
LEMMA StartsAlone ==
  ASSUME NEW t \in Requested, Start(t), Jobs = 1
  PROVE  Active = {}
<1>1. IsFiniteSet(Active)
  BY RequestedFinite, FS_Subset DEF Active
<1>2. Cardinality(Active) = 0
  BY <1>1, FS_CardinalityType DEF Start
<1> QED
  BY <1>1, <1>2, FS_EmptySet

(* With one job no other target is between its store and its command.      *)
LEMMA OvertakesNobody ==
  ASSUME TypeOK, OneAtATime, NobodyOvertakes, Jobs = 1, NEW group,
         NEW t \in Requested, pc[t] \in {"touch", "replace"}, Overtakes(t, group)
  PROVE  overtaken' = {}
<1>1. \A u \in Requested \ {t} : pc[u] # "run"
  BY DEF OneAtATime, Active
<1> QED
  BY <1>1 DEF Overtakes, NobodyOvertakes

(* A Replace of the command leaves the port, and so what                   *)
(* flash_serial_nordic uses, as it was.                                    *)
LEMMA OthersStay ==
  ASSUME OwnUnlessOvertaken, NEW t \in Requested, Overtakes(t, Commanding),
         \A u \in Requested \ {t} : pc'[u] = pc[u],
         UNCHANGED stored, env'.UPLOAD_PORT = env.UPLOAD_PORT,
         pc'[t] = "run" => EnvIsOwn(t)'
  PROVE  OwnUnlessOvertaken'
<1> SUFFICES ASSUME NEW u \in Requested, pc'[u] = "run", u \notin overtaken'
             PROVE  EnvIsOwn(u)'
  BY DEF OwnUnlessOvertaken
<1>1. CASE u = t
  BY <1>1
<1>2. CASE u # t
  <2>1. pc[u] = "run" /\ u \notin overtaken /\ u \notin Commanding
    BY <1>2 DEF Overtakes
  <2>2. EnvIsOwn(u)
    BY <2>1 DEF OwnUnlessOvertaken
  <2> QED
    BY <2>1, <2>2 DEF EnvIsOwn, Commanding
<1> QED
  BY <1>1, <1>2

LEMMA IInvInit == Init => IInv
  BY TypeInit DEF Init, IInv, OwnUnlessOvertaken, Steps, Active,
     WrongCommandHasACause, RanOwnCommand, OneAtATime, NobodyOvertakes

LEMMA IInvStep == IInv /\ [Next]_vars => IInv'
<1> SUFFICES ASSUME IInv, [Next]_vars PROVE IInv'
  OBVIOUS
<1>0. TypeOK /\ Steps /\ TypeOK' /\ Steps'
  BY TypeStep, StepsStep DEF IInv
<1> USE <1>0 DEF IInv, TypeOK, GoTo, OwnUnlessOvertaken,
     WrongCommandHasACause, OneAtATime, NobodyOvertakes
<1>1. ASSUME NEW t \in Requested, Start(t) PROVE IInv'
  <2>1. OwnUnlessOvertaken' /\ WrongCommandHasACause'
    BY <1>1 DEF Start, EnvIsOwn, RanOwnCommand
  <2>2. OneAtATime'
    <3>1. Jobs = 1 => Active = {}
      BY <1>1, StartsAlone
    <3>2. Jobs = 1 => Active' \subseteq {t}
      BY <1>1, <3>1 DEF Start, Active
    <3> QED
      BY <3>2
  <2> QED
    BY <1>1, <2>1, <2>2 DEF Start
<1>2. ASSUME NEW t \in Requested, LookUpPort(t) PROVE IInv'
  BY <1>2 DEF LookUpPort, Active, EnvIsOwn, RanOwnCommand
<1>3. ASSUME NEW t \in Requested, ResetFails(t) PROVE IInv'
  <2>1. EnvIsOwn(t)' \/ pc'[t] # "run"
    BY <1>3 DEF ResetFails, AfterReset, EnvIsOwn, Steps, Serial, Swd
  <2>2. OwnUnlessOvertaken' /\ WrongCommandHasACause'
    BY <1>3, <2>1 DEF ResetFails, EnvIsOwn, RanOwnCommand
  <2>3. OneAtATime' /\ NobodyOvertakes'
    BY <1>3 DEF ResetFails, Active
  <2> QED
    BY <2>2, <2>3
<1>4. ASSUME NEW t \in Requested, StorePort(t) PROVE IInv'
  <2>0. stored[t] = "none" /\ t \in Serial
    BY <1>4 DEF StorePort, Steps
  <2>1. PICK port \in {current[t], t} :
          /\ env' = [env EXCEPT !.UPLOAD_PORT = port]
          /\ stored' = [stored EXCEPT ![t] = port]
    BY <1>4 DEF StorePort
  <2>2. EnvIsOwn(t)'
    BY <2>0, <2>1 DEF EnvIsOwn, Environment, Serial, Swd
  <2>3. ASSUME NEW u \in Requested \ {t}, pc[u] = "run", u \notin overtaken', EnvIsOwn(u)
        PROVE  EnvIsOwn(u)'
    <3>1. u # "flash_serial_nordic"
      BY <1>4, <2>3 DEF StorePort, Overtakes
    <3> QED
      BY <2>1, <2>3, <3>1 DEF EnvIsOwn, Environment, Runner
  <2>4. OwnUnlessOvertaken'
    BY <1>4, <2>2, <2>3 DEF StorePort, Overtakes
  <2>5. ASSUME NEW u \in Requested PROVE RanOwnCommand(u)' \/ u \in overtaken'
    <3>1. CASE u = t
      BY <1>4, <2>0, <2>1, <3>1 DEF StorePort, Steps, RanOwnCommand
    <3>2. CASE u # t
      BY <1>4, <2>1, <3>2 DEF StorePort, Overtakes, RanOwnCommand, Runner
    <3> QED
      BY <3>1, <3>2
  <2>6. OneAtATime' /\ NobodyOvertakes'
    BY <1>4, OvertakesNobody DEF StorePort, Active
  <2> QED
    BY <2>4, <2>5, <2>6
<1>5. ASSUME NEW t \in Requested, ReplaceSwd(t) PROVE IInv'
  <2>1. EnvIsOwn(t)'
    BY <1>5 DEF ReplaceSwd, ReplaceBySwd, EnvIsOwn, Environment, Swd
  <2>2. OwnUnlessOvertaken'
    <3>1. /\ Overtakes(t, Commanding) /\ \A u \in Requested \ {t} : pc'[u] = pc[u]
          /\ UNCHANGED stored /\ env'.UPLOAD_PORT = env.UPLOAD_PORT
      BY <1>5 DEF ReplaceSwd, ReplaceBySwd, Environment
    <3> QED
      BY <2>1, <3>1, OthersStay
  <2>3. WrongCommandHasACause'
    BY <1>5 DEF ReplaceSwd, Overtakes, RanOwnCommand
  <2>4. OneAtATime' /\ NobodyOvertakes'
    BY <1>5, OvertakesNobody DEF ReplaceSwd, Active
  <2> QED
    BY <2>2, <2>3, <2>4
<1>6. ASSUME NEW t \in Requested, ReplaceUf2(t) PROVE IInv'
  <2>1. EnvIsOwn(t)'
    BY <1>6 DEF ReplaceUf2, ReplaceByUf2, EnvIsOwn, Environment, Swd
  <2>2. OwnUnlessOvertaken'
    <3>1. /\ Overtakes(t, Commanding) /\ \A u \in Requested \ {t} : pc'[u] = pc[u]
          /\ UNCHANGED stored /\ env'.UPLOAD_PORT = env.UPLOAD_PORT
      BY <1>6 DEF ReplaceUf2, ReplaceByUf2, Environment
    <3> QED
      BY <2>1, <3>1, OthersStay
  <2>3. WrongCommandHasACause'
    BY <1>6 DEF ReplaceUf2, Overtakes, RanOwnCommand
  <2>4. OneAtATime' /\ NobodyOvertakes'
    BY <1>6, OvertakesNobody DEF ReplaceUf2, Active
  <2> QED
    BY <2>2, <2>3, <2>4
<1>7. ASSUME NEW t \in Requested, ReplaceAdafruit(t) PROVE IInv'
  <2>1. OwnUnlessOvertaken'
    <3>1. /\ Overtakes(t, Commanding) /\ \A u \in Requested \ {t} : pc'[u] = pc[u]
          /\ UNCHANGED stored /\ env'.UPLOAD_PORT = env.UPLOAD_PORT /\ pc'[t] = "ok"
      BY <1>7 DEF ReplaceAdafruit, ReplaceByAdafruit, Environment
    <3> QED
      BY <3>1, OthersStay
  <2>2. WrongCommandHasACause'
    BY <1>7 DEF ReplaceAdafruit, Overtakes, RanOwnCommand
  <2>3. OneAtATime' /\ NobodyOvertakes'
    BY <1>7, OvertakesNobody DEF ReplaceAdafruit, Active
  <2> QED
    BY <2>1, <2>2, <2>3
<1>8. ASSUME NEW t \in Requested, FlashNordic(t) \/ Run(t) PROVE IInv'
  <2>1. RanOwnCommand(t)' \/ t \in overtaken
    BY <1>8, <1>0 DEF FlashNordic, Run, EnvIsOwn, RanOwnCommand, Environment, Commanding
  <2>2. WrongCommandHasACause'
    BY <1>8, <2>1 DEF FlashNordic, Run, RanOwnCommand
  <2>3. OwnUnlessOvertaken'
    BY <1>8 DEF FlashNordic, Run, EnvIsOwn
  <2>4. OneAtATime' /\ NobodyOvertakes'
    BY <1>8 DEF FlashNordic, Run, Active
  <2> QED
    BY <2>2, <2>3, <2>4
<1>9. CASE UNCHANGED vars
  BY <1>9 DEF vars, Active, EnvIsOwn, RanOwnCommand
<1> QED
  BY <1>1, <1>2, <1>3, <1>4, <1>5, <1>6, <1>7, <1>8, <1>9 DEF Next, Reset

THEOREM Invariance == Spec => []IInv
  BY IInvInit, IInvStep, PTL DEF Spec

(* A target runs a command that is not its own only when another target    *)
(* replaced the shared variables in between: for any number of jobs.       *)
THEOREM WrongCommandOnlyWithCause == Spec => []WrongCommandHasACause
<1>1. IInv => WrongCommandHasACause
  BY DEF IInv
<1> QED
  BY <1>1, Invariance, PTL

(* One job is enough of a cure for the commands: every target runs with    *)
(* its own tool, runner and flags, and flash_serial_nordic on the port its *)
(* own reset stored.  It is none for the port that flash_uf2 is given,     *)
(* which a serial target that ran before leaves behind.                    *)
THEOREM OneJobIsSafe == Spec => []OneJobRunsOwnCommands
<1>1. IInv => OneJobRunsOwnCommands
  BY DEF IInv, NobodyOvertakes, WrongCommandHasACause, OneJobRunsOwnCommands
<1> QED
  BY <1>1, Invariance, PTL

-----------------------------------------------------------------------------
(* Flags other than the user's are in the environment only once a target   *)
(* has stored them; it has then left its Replace behind for good.          *)
FInv ==
  /\ env.UPLOADERFLAGS # "user" => FlagsStored
  /\ ForeignFlagsHaveACause

(* No step takes a target back to before its Replace.                      *)
LEMMA FlagsStayStored ==
  ASSUME TypeOK, Steps, [Next]_vars, FlagsStored
  PROVE  FlagsStored'
<1>1. PICK u \in Requested \cap {"flash_uf2", "flash_serial_adafruit"} :
        pc[u] \in {"run", "ok", "failed"}
  BY DEF FlagsStored
<1>2. pc'[u] \in {"run", "ok", "failed"}
  BY <1>1 DEF TypeOK, Next, vars, GoTo, Start, Reset, LookUpPort, ResetFails, StorePort,
     ReplaceSwd, ReplaceUf2, ReplaceAdafruit, FlashNordic, Run
<1> QED
  BY <1>1, <1>2 DEF FlagsStored

LEMMA FInvStep == TypeOK /\ Steps /\ FInv /\ [Next]_vars => FInv'
<1> SUFFICES ASSUME TypeOK, Steps, FInv, [Next]_vars PROVE FInv'
  OBVIOUS
<1>0. FlagsStored => FlagsStored'
  BY FlagsStayStored
<1> USE <1>0 DEF FInv, TypeOK, GoTo, ForeignFlagsHaveACause
<1>1. ASSUME NEW t \in Requested, Start(t) \/ LookUpPort(t) \/ ResetFails(t) PROVE FInv'
  BY <1>1 DEF Start, LookUpPort, ResetFails
<1>2. ASSUME NEW t \in Requested, StorePort(t) \/ ReplaceSwd(t) PROVE FInv'
  <2>1. env'.UPLOADERFLAGS = env.UPLOADERFLAGS /\ UNCHANGED ran
    BY <1>2 DEF StorePort, ReplaceSwd, ReplaceBySwd, Environment
  <2> QED
    BY <2>1
<1>3. ASSUME NEW t \in Requested, ReplaceUf2(t) \/ ReplaceAdafruit(t) PROVE FInv'
  <2>1. FlagsStored'
    BY <1>3 DEF ReplaceUf2, ReplaceAdafruit, FlagsStored
  <2> QED
    BY <2>1
<1>4. ASSUME NEW t \in Requested, FlashNordic(t) \/ Run(t) PROVE FInv'
  BY <1>4 DEF FlashNordic, Run, Swd
<1>5. CASE UNCHANGED vars
  BY <1>5 DEF vars
<1> QED
  BY <1>1, <1>2, <1>3, <1>4, <1>5 DEF Next, Reset

(* An SWD target runs west with flags other than the user's only after a   *)
(* target that stores flags, for any set of targets and number of jobs.    *)
THEOREM ForeignFlagsOnlyAfterOthers == Spec => []ForeignFlagsHaveACause
<1>1. Init => FInv
  BY DEF Init, FInv, ForeignFlagsHaveACause
<1>2. IInv /\ FInv /\ [Next]_vars => FInv'
  BY FInvStep DEF IInv
<1> QED
  BY <1>1, <1>2, Invariance, PTL DEF Spec, FInv

-----------------------------------------------------------------------------
(* A port that some reset has stored.                                      *)
Known(port) == port = "user" \/ \E u \in Requested : stored[u] = port

(* No other port is in the environment, in the hands of a reset, or in a   *)
(* command.                                                                *)
PInv ==
  /\ Known(env.UPLOAD_PORT)
  /\ \A t \in Requested : Known(current[t])
  /\ \A t \in Requested : ran[t] # Nothing => Known(ran[t].UPLOAD_PORT)

(* What a reset stored stays on record: it stores only once.               *)
LEMMA KnownStays ==
  ASSUME TypeOK, Steps, [Next]_vars, NEW port \in Ports, Known(port)
  PROVE  Known(port)'
<1>1. CASE UNCHANGED stored
  BY <1>1 DEF Known
<1>2. ASSUME NEW t \in Requested, StorePort(t) PROVE Known(port)'
  <2>1. stored[t] = "none" /\ port # "none"
    BY <1>2 DEF StorePort, Steps, Ports, Serial
  <2>2. \A u \in Requested \ {t} : stored'[u] = stored[u]
    BY <1>2 DEF StorePort, TypeOK
  <2> QED
    BY <2>1, <2>2 DEF Known
<1> QED
  BY <1>1, <1>2 DEF Next, vars, Reset, Start, LookUpPort, ResetFails, ReplaceSwd, ReplaceUf2,
     ReplaceAdafruit, FlashNordic, Run

LEMMA PInvStep == TypeOK /\ Steps /\ PInv /\ [Next]_vars => PInv'
<1> SUFFICES ASSUME TypeOK, Steps, PInv, [Next]_vars PROVE PInv'
  OBVIOUS
<1>0. /\ env.UPLOAD_PORT \in Ports /\ \A t \in Requested : current[t] \in Ports
      /\ \A t \in Requested : ran[t] # Nothing => ran[t].UPLOAD_PORT \in Ports
  BY DEF TypeOK, Environment
<1>a. \A port \in Ports : Known(port) => Known(port)'
  BY KnownStays
<1>1. ASSUME UNCHANGED <<current, ran>>, env'.UPLOAD_PORT = env.UPLOAD_PORT PROVE PInv'
  BY <1>0, <1>a, <1>1 DEF PInv
<1>2. ASSUME NEW t \in Requested,
             Start(t) \/ ResetFails(t) \/ ReplaceSwd(t) \/ ReplaceUf2(t) \/ ReplaceAdafruit(t)
      PROVE  PInv'
  <2>1. UNCHANGED <<current, ran>> /\ env'.UPLOAD_PORT = env.UPLOAD_PORT
    BY <1>2 DEF Start, ResetFails, ReplaceSwd, ReplaceBySwd, ReplaceUf2, ReplaceByUf2,
       ReplaceAdafruit, ReplaceByAdafruit, TypeOK, Environment
  <2> QED
    BY <1>1, <2>1
<1>3. ASSUME NEW t \in Requested, LookUpPort(t) PROVE PInv'
  BY <1>0, <1>a, <1>3 DEF LookUpPort, PInv, TypeOK
<1>4. ASSUME NEW t \in Requested, StorePort(t) PROVE PInv'
  <2>1. stored'[t] = env'.UPLOAD_PORT /\ UNCHANGED <<current, ran>>
    BY <1>4 DEF StorePort, TypeOK, Environment
  <2> QED
    BY <1>0, <1>a, <2>1 DEF PInv, Known
<1>5. ASSUME NEW t \in Requested, FlashNordic(t) \/ Run(t) PROVE PInv'
  <2>1. /\ UNCHANGED <<env, current>> /\ \A u \in Requested \ {t} : ran'[u] = ran[u]
        /\ ran'[t].UPLOAD_PORT = env.UPLOAD_PORT
    BY <1>5 DEF FlashNordic, Run, TypeOK, Environment
  <2> QED
    BY <1>0, <1>a, <2>1 DEF PInv
<1>6. CASE UNCHANGED vars
  BY <1>1, <1>6 DEF vars
<1> QED
  BY <1>2, <1>3, <1>4, <1>5, <1>6 DEF Next, Reset

(* No command is given a port that is neither the user's nor one that the  *)
(* reset of a serial target has stored, for any set of targets and number  *)
(* of jobs, though a reset may bring back a port that another replaced.    *)
THEOREM ForeignPortOnlyAfterReset == Spec => []ForeignPortHasACause
<1>1. Init => PInv
  BY DEF Init, PInv, Known
<1>2. IInv /\ PInv /\ [Next]_vars => PInv'
  BY PInvStep DEF IInv
<1>3. PInv => ForeignPortHasACause
  BY DEF PInv, Known, ForeignPortHasACause
<1> QED
  BY <1>1, <1>2, <1>3, Invariance, PTL DEF Spec
=============================================================================
