------------------------ MODULE SerialPlotterProofs ------------------------
(***************************************************************************)
(* Theorems of SerialPlotter for every length of the buffer and every set  *)
(* of batch sizes.  The inductive invariant follows the loop: while it     *)
(* prints, the indexes printed of the latest batch are those from where    *)
(* the batch found it up to where it is, as far as the batch reaches.      *)
(***************************************************************************)
EXTENDS SerialPlotter, TLAPS

NothingReceived ==
  pc \in {"setup", "halted"} =>
    samplesRead = 0 /\ latest = 0 /\ from = 0 /\ shown = {}

BatchWaits ==
  pc = "wait" /\ samplesRead # 0 => from = 0 /\ shown = {}

PrintedSoFar ==
  pc \in {"check", "print"} =>
    /\ samplesRead = latest /\ from <= i
    /\ shown = {k \in from..(i - 1) : k < latest}

(* A test that passed before an interrupt may let an old sample through,   *)
(* but nothing of the new batch has been printed then.                     *)
StaleComesFirst == pc = "print" /\ shown # {} => i < latest

Through == pc = "clear" => shown = from..(latest - 1)

IInv ==
  /\ TypeOK
  /\ NothingReceived
  /\ BatchWaits
  /\ PrintedSoFar
  /\ StaleComesFirst
  /\ Through
  /\ PrintsTheRest

LEMMA IInvInit == Init => IInv
  BY SizesAssumption DEF Init, IInv, TypeOK, NothingReceived, BatchWaits,
     PrintedSoFar, StaleComesFirst, Through, PrintsTheRest

LEMMA IInvStep == IInv /\ [Next]_vars => IInv'
<1> SUFFICES ASSUME IInv, [Next]_vars PROVE IInv'
  OBVIOUS
<1> USE SizesAssumption DEF IInv, TypeOK, NothingReceived, BatchWaits, PrintedSoFar,
     StaleComesFirst, Through, PrintsTheRest
<1>1. CASE setup
  BY <1>1 DEF setup
<1>2. CASE Wait
  <2>1. /\ pc = "wait" /\ pc' = "check" /\ samplesRead # 0 /\ i' = 0
        /\ UNCHANGED <<samplesRead, latest, from, shown>>
    BY <1>2 DEF Wait
  <2>2. /\ i' = 0 /\ pc' = "check" /\ from' = 0 /\ shown' = {}
        /\ samplesRead' = latest' /\ latest' \in 0..BufferLen
    BY <2>1
  <2>3. {k \in from'..(i' - 1) : k < latest'} = {}
    BY <2>2
  <2>4. TypeOK'
    BY <2>1, <2>2
  <2> QED
    BY <2>2, <2>3, <2>4
<1>3. CASE Check
  <2>1. /\ pc = "check" /\ pc' = IF i < latest THEN "print" ELSE "clear"
        /\ UNCHANGED <<i, samplesRead, latest, from, shown>>
    BY <1>3 DEF Check
  <2>2. CASE i < latest
    <3>1. pc' = "print" /\ i' < BufferLen
      BY <2>1, <2>2
    <3> QED
      BY <2>1, <2>2, <3>1
  <2>3. CASE ~(i < latest)
    <3>1. {k \in from..(i - 1) : k < latest} = from..(latest - 1)
      BY <2>1, <2>3
    <3>2. pc' = "clear" /\ shown' = from'..(latest' - 1)
      BY <2>1, <2>3, <3>1
    <3> QED
      BY <2>1, <3>2
  <2> QED
    BY <2>2, <2>3
<1>4. CASE PrintSample
  <2>1. /\ pc = "print" /\ pc' = "check" /\ i' = i + 1
        /\ shown' = IF i < latest THEN shown \cup {i} ELSE shown
        /\ UNCHANGED <<samplesRead, latest, from>>
    BY <1>4 DEF PrintSample
  <2>2. i \in from..i
    BY <2>1
  <2>3. {k \in from..((i + 1) - 1) : k < latest} =
          IF i < latest THEN {k \in from..(i - 1) : k < latest} \cup {i}
                        ELSE {k \in from..(i - 1) : k < latest}
    BY <2>2
  <2> QED
    BY <2>1, <2>3
<1>5. CASE Clear
  BY <1>5 DEF Clear
<1>6. CASE onPDMdata
  BY <1>6 DEF onPDMdata
<1>7. CASE UNCHANGED vars
  BY <1>7 DEF vars
<1> QED
  BY <1>1, <1>2, <1>3, <1>4, <1>5, <1>6, <1>7 DEF Next, loop

THEOREM Invariance == Spec => []IInv
  BY IInvInit, IInvStep, PTL DEF Spec

(* No index leaves the buffer and the counter is 0 or the size of the      *)
(* latest batch, wherever the interrupt comes.                             *)
THEOREM TypeCorrect == Spec => []TypeOK
<1>1. IInv => TypeOK
  BY DEF IInv
<1> QED
  BY <1>1, Invariance, PTL

(* What is printed of a batch is what lay ahead of the loop when it came.  *)
THEOREM PrintsRest == Spec => []PrintsTheRest
<1>1. IInv => PrintsTheRest
  BY DEF IInv
<1> QED
  BY <1>1, Invariance, PTL

(* No sample of an older batch follows one of the latest.                  *)
THEOREM NoStepBack == Spec => NeverGoesBack
<1>1. IInv => (pc = "print" /\ pc' = "check" /\ shown # {} => i < latest)
  BY DEF IInv, StaleComesFirst
<1> QED
  BY <1>1, Invariance, PTL DEF NeverGoesBack
=============================================================================
