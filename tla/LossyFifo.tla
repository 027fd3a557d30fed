------------------------------ MODULE LossyFifo ------------------------------
(***************************************************************************)
(* What one direction of a byte bridge promises: what comes out is what    *)
(* went in, in order and never twice, though anything may be lost.         *)
(***************************************************************************)
EXTENDS Naturals, Sequences

CONSTANT Byte

VARIABLES
  flight,  \* the bytes that are in and neither came out nor got lost
  out      \* the bytes that came out last

Enter == \E b \in Byte : flight' = Append(flight, b) /\ UNCHANGED out

(* The first n bytes leave.  Some of them may come out, the rest is lost.  *)
Leave ==
  \E n \in 1..Len(flight) :
    /\ flight' = SubSeq(flight, n + 1, Len(flight))
    /\ out' \in {out} \cup {SubSeq(flight, 1, k) : k \in 1..n}

Spec == flight = <<>> /\ out = <<>> /\ [][Enter \/ Leave]_<<flight, out>>
=============================================================================
