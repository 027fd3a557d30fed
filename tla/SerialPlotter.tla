---------------------------- MODULE SerialPlotter ----------------------------
(***************************************************************************)
(* The serial plotter of examples/arduino-serial-plotter: loop() prints    *)
(* sampleBuffer while the PDM interrupt refills it.  The interrupt may     *)
(* come between any two steps of the loop, each of which looks at          *)
(* samplesRead or at the buffer once.  A sample is known by the batch it   *)
(* belongs to: of the latest batch, or older.                              *)
(***************************************************************************)
EXTENDS Naturals

CONSTANTS
  BufferLen,  \* samples in sampleBuffer: 256 in the code
  Sizes       \* the batch sizes the microphone library delivers

ASSUME SizesAssumption == BufferLen \in Nat /\ Sizes \subseteq 0..BufferLen

VARIABLES
  pc,           \* the next step of setup() or loop()
  i,            \* the loop index
  samplesRead,  \* the volatile counter both sides write
  latest,       \* sampleBuffer[0..latest-1] are the samples of the latest batch
  \* History, read by no action:
  from,         \* where the loop stood when the latest batch arrived
  shown         \* the indexes of the latest batch that have been printed

vars == <<pc, i, samplesRead, latest, from, shown>>

TypeOK ==
  /\ pc \in {"setup", "halted", "wait", "check", "print", "clear"}
  /\ i \in 0..BufferLen
  /\ pc = "print" => i < BufferLen
  /\ samplesRead \in {0, latest}
  /\ latest \in 0..BufferLen
  /\ from \in 0..BufferLen
  /\ shown \subseteq 0..(BufferLen - 1)

Init ==
  /\ pc = "setup"
  /\ i = 0 /\ samplesRead = 0 /\ latest = 0
  /\ from = 0 /\ shown = {}

(* PDM.begin starts the microphone, or fails and setup() spins for ever.   *)
setup ==
  /\ pc = "setup"
  /\ pc' \in {"wait", "halted"}
  /\ UNCHANGED <<i, samplesRead, latest, from, shown>>

-----------------------------------------------------------------------------
(* loop                                                                    *)

(* Mutant of Wait: the first sample is skipped.                            *)
WaitSkipsFirst ==
  /\ pc = "wait" /\ samplesRead > 0
  /\ pc' = "check" /\ i' = 1
  /\ UNCHANGED <<samplesRead, latest, from, shown>>

Wait ==
  /\ pc = "wait" /\ samplesRead > 0
  /\ pc' = "check" /\ i' = 0
  /\ UNCHANGED <<samplesRead, latest, from, shown>>

(* Mutant of Check: the counter is tested for samples at all.              *)
CheckAnySamples ==
  /\ pc = "check"
  /\ pc' = IF samplesRead > 0 THEN "print" ELSE "clear"
  /\ UNCHANGED <<i, samplesRead, latest, from, shown>>

(* The condition of the for loop reads the volatile counter in every round.*)
Check ==
  /\ pc = "check"
  /\ pc' = IF i < samplesRead THEN "print" ELSE "clear"
  /\ UNCHANGED <<i, samplesRead, latest, from, shown>>

PrintSample ==
  /\ pc = "print"
  /\ shown' = IF i < latest THEN shown \cup {i} ELSE shown
  /\ pc' = "check" /\ i' = i + 1
  /\ UNCHANGED <<samplesRead, latest, from>>

(* Mutant of Clear: the counter is not cleared.                            *)
ClearNothing ==
  /\ pc = "clear"
  /\ pc' = "wait"
  /\ UNCHANGED <<i, samplesRead, latest, from, shown>>

Clear ==
  /\ pc = "clear"
  /\ pc' = "wait" /\ samplesRead' = 0
  /\ UNCHANGED <<i, latest, from, shown>>

loop == Wait \/ Check \/ PrintSample \/ Clear

-----------------------------------------------------------------------------
(* Mutant of onPDMdata: a batch only ever raises the counter.              *)
RaiseCount ==
  /\ pc \notin {"setup", "halted"}
  /\ \E n \in Sizes :
       latest' = n /\ samplesRead' = IF samplesRead > n THEN samplesRead ELSE n
  /\ from' = IF pc = "wait" THEN 0 ELSE IF pc = "clear" THEN BufferLen ELSE i
  /\ shown' = {}
  /\ UNCHANGED <<pc, i>>

(* The interrupt overwrites the front of the buffer, whatever loop() does. *)
onPDMdata ==
  /\ pc \notin {"setup", "halted"}
  /\ \E n \in Sizes : latest' = n /\ samplesRead' = n
  /\ from' = IF pc = "wait" THEN 0 ELSE IF pc = "clear" THEN BufferLen ELSE i
  /\ shown' = {}
  /\ UNCHANGED <<pc, i>>

Next == setup \/ loop \/ onPDMdata

Spec == Init /\ [][Next]_vars

(* The processor goes on with loop() after each interrupt; nothing is      *)
(* asked of the microphone, which may interrupt as often as it likes.      *)
FairSpec == Spec /\ WF_vars(loop)

-----------------------------------------------------------------------------
(* Properties                                                              *)

(* Once loop() is through, what was printed of the latest batch is exactly *)
(* what lay ahead of the index when it arrived: all of it if the loop was  *)
(* waiting, and nothing if it arrived between the last test and the clear. *)
PrintsTheRest == pc = "wait" /\ samplesRead = 0 => shown = from..(latest - 1)

(* After a sample of the latest batch no sample of an older one is printed,*)
(* though a short batch leaves old samples behind it in the buffer.        *)
NeverGoesBack == [][pc = "print" /\ pc' = "check" /\ shown # {} => i < latest]_vars

(* However often the interrupt comes, the printing ends and the next batch *)
(* is waited for.                                                          *)
AlwaysCatchesUp == []<>(samplesRead = 0)
=============================================================================
