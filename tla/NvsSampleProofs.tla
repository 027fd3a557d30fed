--------------------------- MODULE NvsSampleProofs ---------------------------
(***************************************************************************)
(* NvsSample for every MAX_REBOOT, every DELETE_AT below it, and any       *)
(* number of power losses.  StringFollowsCounter is not inductive: whether *)
(* the next count may be stored depends on what this boot has done already,*)
(* and that depends on the local counter being the stored one.             *)
(***************************************************************************)
EXTENDS NvsSample, TLAPS

(* As long as no call has failed, past NvsInit the file system is mounted, *)
(* the local counter is 0 until it is read and the stored one afterwards,  *)
(* and from "long" on the string has been written or deleted for it.       *)
BootFollowsCode ==
  failures = 0 =>
    /\ pc # "init" => mounted
    /\ pc \in {"init", "address", "key", "counter"} => reboot_counter = 0
    /\ pc \in {"string", "long", "sleep"} => counter = reboot_counter
    /\ pc \in {"long", "sleep"} =>
         /\ reboot_counter = 0 => "string" \in stored
         /\ reboot_counter = DELETE_AT => "string" \notin stored

(* The inductive invariant.                                                *)
IInv == TypeOK /\ BootFollowsCode /\ StringFollowsCounter
-----------------------------------------------------------------------------
LEMMA ZeroInRange == 0 \in 0..MAX_REBOOT /\ 0 \in 0..MaxCrashes /\ 0 \in 0..MaxFailures
  BY RebootAssumption, NvsBounds

LEMMA TypeInit == Init => TypeOK
  BY ZeroInRange DEF Init, TypeOK

(* The number of failures stays within its bound, whatever a call does.    *)
LEMMA CallsCount ==
  ASSUME NEW r \in BOOLEAN, NEW w \in BOOLEAN, TypeOK, Calls(r, w)
  PROVE  /\ failures' \in 0..MaxFailures
         /\ failures' = 0 => failures = 0 /\ (mounted => r /\ w)
  BY NvsBounds DEF Calls, TypeOK

LEMMA BootType == ASSUME TypeOK, Boot, crashes' \in 0..MaxCrashes PROVE TypeOK'
  BY ZeroInRange DEF Boot, NextPc, TypeOK

LEMMA TypeStep == TypeOK /\ [Next]_vars => TypeOK'
<1> SUFFICES ASSUME TypeOK, [Next]_vars PROVE TypeOK'
  OBVIOUS
<1> USE RebootAssumption, NvsBounds DEF TypeOK, NextPc
<1>1. CASE NvsInit
  BY <1>1 DEF NvsInit
<1>2. ASSUME NEW item \in Item, NEW next \in {"key", "counter"}, AddIfMissing(item, next)
      PROVE  TypeOK'
  <2>1. failures' \in 0..MaxFailures
    BY <1>2, CallsCount DEF AddIfMissing
  <2> QED
    BY <1>2, <2>1 DEF AddIfMissing
<1>3. CASE ReadCounter
  <2>1. failures' \in 0..MaxFailures
    BY <1>3, CallsCount DEF ReadCounter
  <2> QED
    BY <1>3, <2>1 DEF ReadCounter
<1>4. CASE AddCounter
  <2>1. failures' \in 0..MaxFailures
    BY <1>4, CallsCount DEF AddCounter
  <2> QED
    BY <1>4, <2>1 DEF AddCounter
<1>5. CASE StringFound
  <2>1. failures' \in 0..MaxFailures
    BY <1>5, CallsCount DEF StringFound
  <2> QED
    BY <1>5, <2>1 DEF StringFound
<1>6. ASSUME NEW item \in Item, NEW next \in {"long", "sleep"}, AddAtZero(item, next)
      PROVE  TypeOK'
  <2>1. failures' \in 0..MaxFailures
    BY <1>6, CallsCount DEF AddAtZero
  <2> QED
    BY <1>6, <2>1 DEF AddAtZero
<1>7. CASE LongFound
  <2>1. failures' \in 0..MaxFailures
    BY <1>7, CallsCount DEF LongFound
  <2> QED
    BY <1>7, <2>1 DEF LongFound
<1>8. ASSUME NEW n \in 0..MAX_REBOOT, StoreCounter(n)
      PROVE  failures' \in 0..MaxFailures /\ counter' \in 0..MAX_REBOOT \cup {None}
  <2>1. failures' \in 0..MaxFailures
    BY <1>8, CallsCount DEF StoreCounter
  <2> QED
    BY <1>8, <2>1 DEF StoreCounter
<1>9. CASE CountAndReboot
  <2>1. reboot_counter + 1 \in 0..MAX_REBOOT
    BY <1>9 DEF CountAndReboot
  <2> QED
    BY <1>8, <1>9, <2>1 DEF CountAndReboot
<1>10. CASE ExitTest
  <2>1. 0 \in 0..MAX_REBOOT
    OBVIOUS
  <2> QED
    BY <1>8, <1>10, <2>1 DEF ExitTest
<1>11. CASE SysReboot
  BY <1>11, BootType DEF SysReboot
<1>12. CASE Crash
  BY <1>12, BootType DEF Crash
<1>13. CASE UNCHANGED vars
  BY <1>13 DEF vars
<1> QED
  BY <1>1, <1>2, <1>3, <1>4, <1>5, <1>6, <1>7, <1>9, <1>10, <1>11, <1>12, <1>13
  DEF Next, Program, Item

(* What is in flash and the local counter keep to their ranges: the        *)
(* counter never passes MAX_REBOOT.                                        *)
THEOREM TypeCorrect == Spec => []TypeOK
  BY TypeInit, TypeStep, PTL DEF Spec

-----------------------------------------------------------------------------
LEMMA IInvInit == Init => IInv
  BY TypeInit, NoneAssumption DEF IInv, Init, BootFollowsCode, StringFollowsCounter

LEMMA FailuresNeverForgotten ==
  ASSUME TypeOK, [Next]_vars PROVE failures' = 0 => failures = 0
<1> USE NvsBounds DEF TypeOK
<1>1. CASE NvsInit
  BY <1>1 DEF NvsInit
<1>2. ASSUME NEW r \in BOOLEAN, NEW w \in BOOLEAN, Calls(r, w)
      PROVE  failures' = 0 => failures = 0
  BY <1>2, CallsCount
<1>3. ASSUME NEW item, NEW next, AddIfMissing(item, next) \/ AddAtZero(item, next)
      PROVE  failures' = 0 => failures = 0
  BY <1>2, <1>3 DEF AddIfMissing, AddAtZero
<1>4. CASE ReadCounter \/ AddCounter \/ StringFound \/ LongFound
  BY <1>2, <1>4 DEF ReadCounter, AddCounter, StringFound, LongFound
<1>5. CASE CountAndReboot \/ ExitTest
  BY <1>2, <1>5 DEF CountAndReboot, ExitTest, StoreCounter
<1>6. CASE SysReboot \/ Crash
  BY <1>6 DEF SysReboot, Crash, Boot
<1>7. CASE UNCHANGED vars
  BY <1>7 DEF vars
<1> QED
  BY <1>1, <1>3, <1>4, <1>5, <1>6, <1>7 DEF Next, Program

(* One step from a state of the invariant in which no call has failed.     *)
LEMMA IInvStep == IInv /\ [Next]_vars => IInv'
<1> SUFFICES ASSUME IInv, [Next]_vars PROVE IInv'
  OBVIOUS
<1>t. TypeOK /\ TypeOK'
  BY TypeStep DEF IInv
<1> SUFFICES ASSUME failures' = 0 PROVE BootFollowsCode' /\ StringFollowsCounter'
  BY <1>t DEF IInv, BootFollowsCode, StringFollowsCounter
<1>f. failures = 0
  BY <1>t, FailuresNeverForgotten
<1>m. ASSUME NEW r \in BOOLEAN, NEW w \in BOOLEAN, Calls(r, w), pc # "init"
      PROVE  r /\ w
  BY <1>f, <1>m, <1>t, CallsCount DEF IInv, BootFollowsCode
<1> USE <1>t, <1>f, RebootAssumption, NoneAssumption
    DEF TypeOK, IInv, BootFollowsCode, StringFollowsCounter, NextPc
<1>1. CASE NvsInit
  BY <1>1 DEF NvsInit
<1>2. CASE AddIfMissing("address", "key") \/ AddIfMissing("key", "counter")
  BY <1>2 DEF AddIfMissing
<1>3. CASE ReadCounter
  BY <1>3 DEF ReadCounter
<1>4. CASE AddCounter
  <2>1. counter = None /\ counter' = reboot_counter
    BY <1>4, <1>m DEF AddCounter
  <2> QED
    BY <1>4, <2>1 DEF AddCounter
<1>5. CASE StringFound
  <2>1. stored' = IF reboot_counter = DELETE_AT THEN stored \ {"string"} ELSE stored
    BY <1>5, <1>m DEF StringFound
  <2> QED
    BY <1>5, <2>1 DEF StringFound
<1>6. CASE AddAtZero("string", "long")
  <2>1. /\ "string" \notin stored
        /\ stored' = IF reboot_counter = 0 THEN stored \cup {"string"} ELSE stored
    BY <1>6, <1>m DEF AddAtZero
  <2> QED
    BY <1>6, <2>1 DEF AddAtZero
<1>7. CASE LongFound
  BY <1>7 DEF LongFound
<1>8. CASE AddAtZero("long", "sleep")
  BY <1>8 DEF AddAtZero
<1>9. CASE CountAndReboot
  <2>1. counter' = reboot_counter + 1
    BY <1>9, <1>m DEF CountAndReboot, StoreCounter
  <2> QED
    BY <1>9, <2>1 DEF CountAndReboot
<1>10. CASE ExitTest
  <2>1. counter' = 0
    BY <1>10, <1>m DEF ExitTest, StoreCounter
  <2> QED
    BY <1>10, <2>1 DEF ExitTest
<1>11. CASE SysReboot
  BY <1>11 DEF SysReboot, Boot
<1>12. CASE Crash
  BY <1>12 DEF Crash, Boot
<1>13. CASE UNCHANGED vars
  BY <1>13 DEF vars
<1> QED
  BY <1>1, <1>2, <1>3, <1>4, <1>5, <1>6, <1>7, <1>8, <1>9, <1>10, <1>11, <1>12, <1>13
  DEF Next, Program

THEOREM Invariance == Spec => []IInv
  BY IInvInit, IInvStep, PTL DEF Spec

(* However often power is lost, and wherever: while no call failed, the    *)
(* string is in flash exactly while the stored counter says so.            *)
THEOREM StringFollows == Spec => []StringFollowsCounter
<1>1. IInv => StringFollowsCounter
  BY DEF IInv
<1> QED
  BY <1>1, Invariance, PTL

-----------------------------------------------------------------------------
CountChange ==
  counter' # counter =>
    \/ counter = None /\ counter' = 0
    \/ counter # None /\ counter' = counter + 1
    \/ counter = MAX_REBOOT /\ counter' = 0
    \/ failures' > 0

LEMMA CountStep == IInv /\ [Next]_vars => [CountChange]_vars
<1> SUFFICES ASSUME IInv, [Next]_vars PROVE [CountChange]_vars
  OBVIOUS
<1>t. TypeOK /\ failures' \in 0..MaxFailures
  BY TypeStep DEF IInv, TypeOK
<1> SUFFICES ASSUME counter' # counter, failures' = 0 PROVE CountChange
  BY <1>t, NvsBounds DEF CountChange
<1>f. failures = 0
  BY <1>t, FailuresNeverForgotten
<1>m. ASSUME NEW r \in BOOLEAN, NEW w \in BOOLEAN, Calls(r, w), pc # "init"
      PROVE  r /\ w
  BY <1>f, <1>m, <1>t, CallsCount DEF IInv, BootFollowsCode
<1> USE <1>t, <1>f, NoneAssumption, RebootAssumption DEF IInv, BootFollowsCode, TypeOK, CountChange
<1>1. CASE AddCounter
  BY <1>1, <1>m DEF AddCounter
<1>2. CASE CountAndReboot
  BY <1>2, <1>m DEF CountAndReboot, StoreCounter
<1>3. CASE ExitTest
  BY <1>3, <1>m DEF ExitTest, StoreCounter
<1>4. CASE NvsInit \/ ReadCounter \/ StringFound \/ LongFound \/ SysReboot \/ Crash
  BY <1>4 DEF NvsInit, ReadCounter, StringFound, LongFound, SysReboot, Crash, Boot
<1>5. ASSUME NEW item, NEW next, AddIfMissing(item, next) \/ AddAtZero(item, next)
      PROVE  counter' = counter
  BY <1>5 DEF AddIfMissing, AddAtZero
<1> QED
  BY <1>1, <1>2, <1>3, <1>4, <1>5 DEF Next, Program, vars

(* The stored counter never skips, repeats or resets a count, in any step  *)
(* of any run in which no call failed.                                     *)
THEOREM CountsOneByOne == Spec => CounterSteps
<1>1. IInv /\ [Next]_vars => [CountChange]_vars
  BY CountStep
<1>2. Spec => [][CountChange]_vars
  BY <1>1, Invariance, PTL DEF Spec
<1> QED
  BY <1>2, PTL DEF CounterSteps, CountChange
=============================================================================
