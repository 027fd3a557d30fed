------------------------------ MODULE NvsSample ------------------------------
(***************************************************************************)
(* examples/zephyr-subsys-nvs: a program that reboots itself MAX_REBOOT    *)
(* times and keeps five items in flash.  Power may be lost between any two *)
(* steps; what is in flash stays, what is in RAM is gone.  nvs_write and   *)
(* nvs_delete of one item take effect entirely or not at all (the promise  *)
(* of the NVS file system); each call may also fail, and main() looks at   *)
(* no result but "rc > 0" of a read.                                       *)
(***************************************************************************)
EXTENDS Naturals

CONSTANTS
  MAX_REBOOT,   \* 400 in the code
  DELETE_AT,    \* 10 in the code
  MaxCrashes,   \* bound: power losses
  MaxFailures,  \* bound: failing NVS calls
  None          \* an item that is not in flash

ASSUME RebootAssumption ==
  /\ MAX_REBOOT \in Nat /\ DELETE_AT \in Nat
  /\ 0 < DELETE_AT /\ DELETE_AT < MAX_REBOOT
ASSUME NvsBounds == MaxCrashes \in Nat /\ MaxFailures \in Nat
ASSUME NoneAssumption == None \notin Nat

(* The items that are stored once, or while the counter is 0.              *)
Item == {"address", "key", "string", "long"}

VARIABLES
  stored,          \* flash: the items present
  counter,         \* flash: the item RBT_CNT_ID, or None
  pc,
  mounted,         \* nvs_init succeeded in this boot
  reboot_counter,  \* the local of main()
  crashes, failures

vars == <<stored, counter, pc, mounted, reboot_counter, crashes, failures>>

TypeOK ==
  /\ stored \subseteq Item
  /\ counter \in 0..MAX_REBOOT \cup {None}
  /\ pc \in {"init", "address", "key", "counter", "string", "long", "sleep",
             "reboot", "exit"}
  /\ mounted \in BOOLEAN
  /\ reboot_counter \in 0..MAX_REBOOT
  /\ crashes \in 0..MaxCrashes /\ failures \in 0..MaxFailures

Init ==
  /\ stored = {} /\ counter = None
  /\ pc = "init" /\ mounted = FALSE /\ reboot_counter = 0
  /\ crashes = 0 /\ failures = 0

-----------------------------------------------------------------------------
(* The results of the read and the write made for one item: r and w say    *)
(* whether they succeed.  A call fails because the medium does, or because *)
(* nvs_init failed in this boot.                                           *)
Calls(r, w) ==
  IF mounted
  THEN /\ failures' = IF r /\ w THEN failures ELSE failures + 1
       /\ failures' <= MaxFailures
  ELSE ~r /\ ~w /\ UNCHANGED failures

NextPc(label) == pc' = label

-----------------------------------------------------------------------------
(* A failing nvs_init is reported and main() goes on.                      *)
NvsInit ==
  /\ pc = "init"
  /\ mounted' \in BOOLEAN
  /\ failures' = IF mounted' THEN failures ELSE failures + 1
  /\ failures' <= MaxFailures
  /\ NextPc("address")
  /\ UNCHANGED <<stored, counter, reboot_counter, crashes>>

(* ADDRESS_ID, KEY_ID: shown if found, added otherwise.                    *)
AddIfMissing(item, next) ==
  /\ pc = item
  /\ \E r, w \in BOOLEAN :
       /\ Calls(r, w)
       /\ stored' = IF w /\ ~(r /\ item \in stored) THEN stored \cup {item} ELSE stored
  /\ NextPc(next)
  /\ UNCHANGED <<counter, mounted, reboot_counter, crashes>>

(* RBT_CNT_ID was found.                                                   *)
ReadCounter ==
  /\ pc = "counter" /\ counter # None
  /\ Calls(TRUE, TRUE)
  /\ reboot_counter' = counter
  /\ NextPc("string")
  /\ UNCHANGED <<stored, counter, mounted, crashes>>

(* Not found, or not readable: the local 0 is written in its place.        *)
AddCounter ==
  /\ pc = "counter"
  /\ \E r, w \in BOOLEAN :
       /\ Calls(r, w)
       /\ counter = None \/ ~r
       /\ counter' = IF w THEN reboot_counter ELSE counter
  /\ NextPc("string")
  /\ UNCHANGED <<stored, mounted, reboot_counter, crashes>>

(* Mutant of StringFound: deleted one reboot late.                         *)
StringFoundLate ==
  /\ pc = "string" /\ "string" \in stored
  /\ \E w \in BOOLEAN :
       /\ Calls(TRUE, w)
       /\ stored' = IF w /\ reboot_counter = DELETE_AT + 1 THEN stored \ {"string"} ELSE stored
  /\ NextPc("long")
  /\ UNCHANGED <<counter, mounted, reboot_counter, crashes>>

(* STRING_ID is deleted at DELETE_AT.                                      *)
StringFound ==
  /\ pc = "string" /\ "string" \in stored
  /\ \E w \in BOOLEAN :
       /\ Calls(TRUE, w)
       /\ stored' = IF w /\ reboot_counter = DELETE_AT THEN stored \ {"string"} ELSE stored
  /\ NextPc("long")
  /\ UNCHANGED <<counter, mounted, reboot_counter, crashes>>

(* STRING_ID and LONG_ID are added only while the counter is 0.            *)
AddAtZero(item, next) ==
  /\ pc = item
  /\ \E r, w \in BOOLEAN :
       /\ Calls(r, w)
       /\ item \notin stored \/ ~r
       /\ stored' = IF w /\ reboot_counter = 0 THEN stored \cup {item} ELSE stored
  /\ NextPc(next)
  /\ UNCHANGED <<counter, mounted, reboot_counter, crashes>>

LongFound ==
  /\ pc = "long" /\ "long" \in stored
  /\ Calls(TRUE, TRUE)
  /\ NextPc("sleep")
  /\ UNCHANGED <<stored, counter, mounted, reboot_counter, crashes>>

(* The writes of the loop come without a read.                             *)
StoreCounter(n) ==
  \E w \in BOOLEAN :
    /\ Calls(w, w)
    /\ counter' = IF w THEN n ELSE counter

(* Mutant of CountAndReboot: the counter is written to flash before it is  *)
(* incremented.                                                            *)
CountTooLate ==
  /\ pc = "sleep" /\ reboot_counter < MAX_REBOOT
  /\ StoreCounter(reboot_counter)
  /\ reboot_counter' = reboot_counter + 1
  /\ NextPc("reboot")
  /\ UNCHANGED <<stored, mounted, crashes>>

(* Mutant of CountAndReboot: the increment is read back and done twice.    *)
CountTwice ==
  /\ pc = "sleep" /\ reboot_counter < MAX_REBOOT
  /\ reboot_counter' = reboot_counter + 1
  /\ StoreCounter(reboot_counter + 2)
  /\ NextPc("reboot")
  /\ UNCHANGED <<stored, mounted, crashes>>

CountAndReboot ==
  /\ pc = "sleep" /\ reboot_counter < MAX_REBOOT
  /\ reboot_counter' = reboot_counter + 1
  /\ StoreCounter(reboot_counter + 1)
  /\ NextPc("reboot")
  /\ UNCHANGED <<stored, mounted, crashes>>

(* "Reset to 0 and exit test."                                             *)
ExitTest ==
  /\ pc = "sleep" /\ reboot_counter >= MAX_REBOOT
  /\ reboot_counter' = 0
  /\ StoreCounter(0)
  /\ NextPc("exit")
  /\ UNCHANGED <<stored, mounted, crashes>>

Boot ==
  /\ NextPc("init")
  /\ mounted' = FALSE /\ reboot_counter' = 0
  /\ UNCHANGED <<stored, counter, failures>>

SysReboot == pc = "reboot" /\ Boot /\ UNCHANGED crashes

(* Power is lost, or the reset button pressed, at any step.                *)
Crash == crashes < MaxCrashes /\ crashes' = crashes + 1 /\ Boot

Program ==
  \/ NvsInit
  \/ AddIfMissing("address", "key") \/ AddIfMissing("key", "counter")
  \/ ReadCounter \/ AddCounter
  \/ StringFound \/ AddAtZero("string", "long")
  \/ LongFound \/ AddAtZero("long", "sleep")
  \/ CountAndReboot \/ ExitTest \/ SysReboot

Next == Program \/ Crash

Spec == Init /\ [][Next]_vars

(* The processor runs.                                                     *)
FairSpec == Spec /\ WF_vars(Program)

-----------------------------------------------------------------------------
(* Properties                                                              *)

(* Whatever power losses hit it, the string is in flash while the counter  *)
(* is between 1 and DELETE_AT - 1 and gone once it is past DELETE_AT: both *)
(* the write and the delete are done before the counter moves on, and are  *)
(* done again after a power loss in between.                               *)
StringFollowsCounter ==
  counter # None /\ failures = 0 =>
    /\ 0 < counter /\ counter < DELETE_AT => "string" \in stored
    /\ DELETE_AT < counter => "string" \notin stored

(* The stored counter goes up by one, from MAX_REBOOT to 0, or appears as  *)
(* 0: a power loss never skips, repeats or resets a count.                 *)
CounterSteps ==
  [][counter' # counter =>
       \/ counter = None /\ counter' = 0
       \/ counter # None /\ counter' = counter + 1
       \/ counter = MAX_REBOOT /\ counter' = 0
       \/ failures' > 0]_vars

(* With finitely many power losses the test comes to its end.              *)
TestEnds == <>(pc = "exit")
=============================================================================
