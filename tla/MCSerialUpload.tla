--------------------------- MODULE MCSerialUpload ---------------------------
(* A small bus for SerialUpload: b1 keeps its serial number in both modes, *)
(* as the Adafruit bootloader does, b2 is a board whose application shows   *)
(* no serial number (or a UART adapter in front of it).                     *)
EXTENDS SerialUpload, TLC

CONSTANTS b1, b2, s1, s2, n1, n2

MCHwidOf ==
  [b \in Board |-> [m \in Mode |->
     IF b = b1 THEN [ser |-> n1, dfu |-> m = "boot"]
     ELSE IF m = "app" THEN [ser |-> NoSerial, dfu |-> FALSE]
     ELSE [ser |-> n2, dfu |-> TRUE]]]

(* The same with two well-behaved boards.                                  *)
MCHwidOfBoth ==
  [b \in Board |-> [m \in Mode |->
     [ser |-> IF b = b1 THEN n1 ELSE n2, dfu |-> m = "boot"]]]

MCTargetNordic == [s \in Session |-> "flash_serial_nordic"]

(* Ports are interchangeable, and so are sessions with one target.  Boards  *)
(* are not: HwidOf tells them apart.  Not used for liveness.                *)
Symmetry == Permutations(Port) \cup Permutations(Session)

MCTargetMixed ==
  [s \in Session |-> IF s = s1 THEN "flash_serial_nordic" ELSE "flash_serial_adafruit"]
=============================================================================
