------------------------------- MODULE BleUart -------------------------------
(***************************************************************************)
(* The bridge of examples/arduino-bluefruit-bleuart: loop() carries bytes  *)
(* from the USB serial port to the BLE UART and back, while the host types,*)
(* the central writes, and connections come and go.  Both libraries are    *)
(* external: each keeps what it received in a FIFO until loop() reads it.  *)
(* So is the connection: the program's connect_callback and                *)
(* disconnect_callback are told of its changes and only print status text. *)
(***************************************************************************)
EXTENDS Naturals, Sequences

CONSTANTS
  Byte,     \* the values of a byte
  BufLen,   \* sizeof(buf): 64 in the code
  FifoLen   \* bound: capacity of the two receive FIFOs

ASSUME LengthAssumption == BufLen \in Nat \ {0} /\ FifoLen \in Nat

VARIABLES
  pc,          \* "setup", "serial" and "ble", the loops' tests, and "read"
  serial,      \* typed by the host, not yet read
  buf,         \* buf[0..count-1], while readBytes fills it
  ble,         \* written by the central, not yet read
  connected,   \* whether there is a central
  advertising, \* whether one may connect
  restart,     \* Bluefruit.Advertising.restartOnDisconnect
  toCentral,   \* the last bytes bleuart.write sent
  toHost       \* the last byte Serial.write sent

link == <<connected, advertising, restart>>
vars == <<pc, serial, buf, ble, link, toCentral, toHost>>

Strings(n) == UNION {[1..k -> Byte] : k \in 0..n}

TypeOK ==
  /\ pc \in {"setup", "serial", "read", "ble"}
  /\ serial \in Strings(FifoLen) /\ ble \in Strings(FifoLen)
  /\ buf \in Strings(BufLen) /\ (pc # "read" => buf = <<>>)
  /\ connected \in BOOLEAN /\ advertising \in BOOLEAN /\ restart \in BOOLEAN
  /\ toCentral \in Strings(BufLen) /\ toHost \in Strings(1)

Init ==
  /\ pc = "setup"
  /\ serial = <<>> /\ buf = <<>> /\ ble = <<>>
  /\ connected = FALSE /\ advertising = FALSE /\ restart = FALSE
  /\ toCentral = <<>> /\ toHost = <<>>

-----------------------------------------------------------------------------
(* Mutant of startAdv: advertising is only started once.                   *)
StartAdvOnce == advertising' = TRUE /\ UNCHANGED restart

startAdv == advertising' = TRUE /\ restart' = TRUE

setup ==
  /\ pc = "setup"
  /\ pc' = "serial"
  /\ startAdv
  /\ UNCHANGED <<serial, buf, ble, connected, toCentral, toHost>>

-----------------------------------------------------------------------------
(* loop                                                                    *)

SerialAvailable ==
  /\ pc = "serial"
  /\ pc' = IF serial = <<>> THEN "ble" ELSE "read"
  /\ UNCHANGED <<serial, buf, ble, link, toCentral, toHost>>

(* Mutant of ReadByte: readBytes goes on whatever the length it was given. *)
ReadByteBeyond ==
  /\ pc = "read" /\ serial # <<>>
  /\ buf' = Append(buf, Head(serial)) /\ serial' = Tail(serial)
  /\ UNCHANGED <<pc, ble, link, toCentral, toHost>>

(* Serial.readBytes(buf, sizeof(buf)) waits for bytes until it has enough  *)
(* or none comes for a second.                                             *)
ReadByte ==
  /\ pc = "read" /\ serial # <<>> /\ Len(buf) < BufLen
  /\ buf' = Append(buf, Head(serial)) /\ serial' = Tail(serial)
  /\ UNCHANGED <<pc, ble, link, toCentral, toHost>>

(* Mutant of Chunk: the whole buffer is written, whatever was read into it.*)
WholeBuf == buf \o [k \in 1..(BufLen - Len(buf)) |-> CHOOSE b \in Byte : TRUE]

Chunk == buf

(* The result of bleuart.write is dropped: with no central nothing is sent,*)
(* and the library may take only a part.                                   *)
WriteBle ==
  /\ pc = "read" /\ (Len(buf) = BufLen \/ serial = <<>>)
  /\ pc' = "serial" /\ buf' = <<>>
  /\ \/ UNCHANGED toCentral
     \/ connected /\ \E k \in 1..Len(Chunk) : toCentral' = SubSeq(Chunk, 1, k)
  /\ UNCHANGED <<serial, ble, link, toHost>>

(* Mutants of Forward: the byte is read before the test, so that a missing *)
(* one is sent as well, and nothing is forwarded.                          *)
ForwardUntested ==
  /\ pc = "ble"
  /\ IF ble = <<>> THEN pc' = "serial" /\ UNCHANGED ble
                   ELSE ble' = Tail(ble) /\ UNCHANGED pc
  /\ toHost' = IF ble = <<>> THEN <<CHOOSE b \in Byte : TRUE>> ELSE <<Head(ble)>>
  /\ UNCHANGED <<serial, buf, link, toCentral>>

ForwardNothing ==
  /\ pc = "ble"
  /\ pc' = "serial"
  /\ UNCHANGED <<serial, buf, ble, link, toCentral, toHost>>

(* One round of the second loop, or its end.  The byte is lost if Serial   *)
(* does not take it.                                                       *)
Forward ==
  /\ pc = "ble"
  /\ IF ble = <<>>
     THEN pc' = "serial" /\ UNCHANGED <<ble, toHost>>
     ELSE ble' = Tail(ble) /\ toHost' \in {toHost, <<Head(ble)>>} /\ UNCHANGED pc
  /\ UNCHANGED <<serial, buf, link, toCentral>>

loop == SerialAvailable \/ ReadByte \/ WriteBle \/ Forward

-----------------------------------------------------------------------------
(* The host and the central                                                *)

(* USB holds the host back while the FIFO is full.                         *)
Type ==
  /\ Len(serial) < FifoLen
  /\ \E b \in Byte : serial' = Append(serial, b)
  /\ UNCHANGED <<pc, buf, ble, link, toCentral, toHost>>

(* What the central writes while the FIFO is full is lost.                 *)
CentralWrites ==
  /\ connected /\ Len(ble) < FifoLen
  /\ \E b \in Byte : ble' = Append(ble, b)
  /\ UNCHANGED <<pc, serial, buf, link, toCentral, toHost>>

(* The library stops advertising when a central connects, and when it      *)
(* leaves it starts again if startAdv has asked for that.                  *)
CentralConnects ==
  /\ advertising
  /\ connected' = TRUE /\ advertising' = FALSE
  /\ UNCHANGED <<pc, serial, buf, ble, restart, toCentral, toHost>>

CentralDisconnects ==
  /\ connected
  /\ connected' = FALSE /\ advertising' = restart
  /\ UNCHANGED <<pc, serial, buf, ble, restart, toCentral, toHost>>

Next ==
  \/ setup \/ loop
  \/ Type \/ CentralWrites \/ CentralConnects \/ CentralDisconnects

Spec == Init /\ [][Next]_vars

(* loop() is called again and again, and no call in it blocks for ever.    *)
FairSpec == Spec /\ WF_vars(loop)

-----------------------------------------------------------------------------
(* Properties                                                              *)

(* Whatever the timing, bytes typed on the host reach the central in their *)
(* order and at most once, though a chunk may be lost whole or in part.    *)
ToCentral == INSTANCE LossyFifo WITH flight <- buf \o serial, out <- toCentral

(* The same of the bytes from the central, which come out one by one.      *)
ToHost == INSTANCE LossyFifo WITH flight <- ble, out <- toHost

HostToCentralInOrder == ToCentral!Spec

CentralToHostInOrder == ToHost!Spec

(* After any number of connections a central can connect: one is connected,*)
(* or the device advertises.                                               *)
AlwaysReachable == pc # "setup" => connected \/ advertising

(* Once nothing more is typed, what the central wrote is forwarded, even   *)
(* while it goes on writing; and once the central is silent, what is typed *)
(* is read, even if the host never pauses.                                 *)
EachSideIsServed ==
  /\ <>[](serial = <<>>) =>
       []<>(ble = <<>>) \/ []<><<Len(ble') < Len(ble)>>_ble
  /\ <>[](pc # "setup" /\ ble = <<>>) =>
       []<>(serial = <<>>) \/ []<><<Len(serial') < Len(serial)>>_serial
=============================================================================
