--------------------------- MODULE BleUartProofs ---------------------------
(***************************************************************************)
(* BleUart carries bytes in order and stays reachable, for every set of    *)
(* bytes, every size of the buffer and every capacity of the two FIFOs.    *)
(***************************************************************************)
EXTENDS BleUart, SequenceTheorems, TLAPS

-----------------------------------------------------------------------------
(* Sequences: what the loop does to the bytes on their way.                *)

LEMMA StringsAreShort ==
  ASSUME NEW n \in Nat, NEW s
  PROVE  s \in Strings(n) <=> s \in Seq(Byte) /\ Len(s) <= n
<1>1. ASSUME s \in Strings(n) PROVE s \in Seq(Byte) /\ Len(s) <= n
  <2>1. PICK k \in 0..n : s \in [1..k -> Byte]
    BY <1>1 DEF Strings
  <2>2. s \in Seq(Byte)
    BY <2>1, SeqDef
  <2>3. Len(s) = k
    BY <2>1, <2>2, LenProperties
  <2> QED
    BY <2>2, <2>3
<1>2. ASSUME s \in Seq(Byte), Len(s) <= n PROVE s \in Strings(n)
  <2>1. Len(s) \in 0..n /\ s \in [1..Len(s) -> Byte]
    BY <1>2, LenProperties
  <2> QED
    BY <2>1 DEF Strings
<1> QED
  BY <1>1, <1>2

LEMMA AppendToConcat ==
  ASSUME NEW S, NEW s \in Seq(S), NEW t \in Seq(S), NEW e \in S
  PROVE  s \o Append(t, e) = Append(s \o t, e)
<1>1. <<e>> \in Seq(S) /\ s \o t \in Seq(S)
  BY ConcatProperties
<1> QED
  BY <1>1, AppendIsConcat, ConcatAssociative

(* A byte that moves from the FIFO into the buffer stays where it is.      *)
LEMMA MoveHead ==
  ASSUME NEW S, NEW s \in Seq(S), NEW t \in Seq(S), t # <<>>
  PROVE  Append(s, Head(t)) \o Tail(t) = s \o t
<1>1. Head(t) \in S /\ Tail(t) \in Seq(S) /\ <<Head(t)>> \in Seq(S)
  BY HeadTailProperties
<1>2. <<Head(t)>> \o Tail(t) = t
  <2>1. Len(t) \in Nat \ {0}
    BY EmptySeq
  <2>2. 1 \in 1..Len(t) /\ Len(t) \in 1..Len(t)
    BY <2>1
  <2>3. SubSeq(t, 1, Len(t)) = <<t[1]>> \o SubSeq(t, 1 + 1, Len(t))
    BY <2>2, SubSeqRecursiveFirst
  <2> QED
    BY <2>3, SubSeqFull, TailIsSubSeq
<1> QED
  BY <1>1, <1>2, AppendIsConcat, ConcatAssociative

(* What is left when a whole prefix goes, and what a prefix of it is.      *)
LEMMA Prefix ==
  ASSUME NEW S, NEW s \in Seq(S), NEW t \in Seq(S), s # <<>>
  PROVE  /\ Len(s) \in 1..Len(s \o t)
         /\ SubSeq(s \o t, Len(s) + 1, Len(s \o t)) = t
         /\ \A k \in 1..Len(s) : SubSeq(s \o t, 1, k) = SubSeq(s, 1, k)
<1>1. Len(s) \in Nat \ {0} /\ Len(t) \in Nat /\ Len(s \o t) = Len(s) + Len(t)
  BY EmptySeq, LenProperties, ConcatProperties
<1>2. SubSeq(s \o t, Len(s) + 1, Len(s \o t)) = t
  <2>1. CASE t = <<>>
    BY <1>1, <2>1, SubSeqEmpty
  <2>2. CASE t # <<>>
    <3>1. Len(t) \in Nat \ {0}
      BY <2>2, EmptySeq
    <3>2. SubSeq(s \o t, Len(s) + 1, Len(s) + Len(t)) =
            SubSeq(t, Len(s) + 1 - Len(s), Len(s) + Len(t) - Len(s))
      BY <1>1, <3>1, SubSeqOfConcat2
    <3> QED
      BY <1>1, <3>2, SubSeqFull
  <2> QED
    BY <2>1, <2>2
<1>3. ASSUME NEW k \in 1..Len(s) PROVE SubSeq(s \o t, 1, k) = SubSeq(s, 1, k)
  BY <1>1, SubSeqOfConcat1
<1> QED
  BY <1>1, <1>2, <1>3

-----------------------------------------------------------------------------
FifoInv ==
  /\ pc \in {"setup", "serial", "read", "ble"}
  /\ serial \in Seq(Byte) /\ Len(serial) <= FifoLen
  /\ ble \in Seq(Byte) /\ Len(ble) <= FifoLen
  /\ buf \in Seq(Byte) /\ Len(buf) <= BufLen
  /\ pc # "read" => buf = <<>>
  /\ toCentral \in Seq(Byte) /\ Len(toCentral) <= BufLen
  /\ toHost \in Seq(Byte) /\ Len(toHost) <= 1

(* A connection that ends starts advertising again, because setup() asked  *)
(* for it before the first one came.                                       *)
LinkInv ==
  /\ connected \in BOOLEAN /\ advertising \in BOOLEAN /\ restart \in BOOLEAN
  /\ IF pc = "setup" THEN ~connected /\ ~advertising ELSE restart
  /\ AlwaysReachable

IInv == FifoInv /\ LinkInv

LEMMA IInvInit == Init => IInv
<1> SUFFICES ASSUME Init PROVE IInv
  OBVIOUS
<1>1. FifoInv
  <2>1. <<>> \in Seq(Byte) /\ Len(<<>>) = 0
    BY EmptySeq
  <2> QED
    BY <2>1, LengthAssumption DEF Init, FifoInv
<1>2. LinkInv
  BY DEF Init, LinkInv, AlwaysReachable
<1> QED
  BY <1>1, <1>2 DEF IInv

LEMMA FifoStep == FifoInv /\ [Next]_vars => FifoInv'
<1> SUFFICES ASSUME FifoInv, [Next]_vars PROVE FifoInv'
  OBVIOUS
<1> USE DEF FifoInv
<1>0. /\ Len(serial) \in Nat /\ Len(ble) \in Nat /\ Len(buf) \in Nat
      /\ <<>> \in Seq(Byte) /\ Len(<<>>) = 0
  BY LenProperties, EmptySeq
<1>1. CASE setup
  BY <1>1 DEF setup
<1>2. CASE SerialAvailable
  BY <1>2 DEF SerialAvailable
<1>3. CASE ReadByte
  <2>1. /\ Append(buf, Head(serial)) \in Seq(Byte) /\ Tail(serial) \in Seq(Byte)
        /\ Len(Append(buf, Head(serial))) = Len(buf) + 1
        /\ Len(Tail(serial)) = Len(serial) - 1
    BY <1>3, HeadTailProperties, AppendProperties DEF ReadByte
  <2> QED
    BY <1>0, <1>3, <2>1, LengthAssumption DEF ReadByte
<1>4. CASE WriteBle
  <2>1. toCentral' \in Seq(Byte) /\ Len(toCentral') <= BufLen
    <3>1. CASE UNCHANGED toCentral
      BY <3>1
    <3>2. CASE ~UNCHANGED toCentral
      <4>1. PICK k \in 1..Len(buf) : toCentral' = SubSeq(buf, 1, k)
        BY <1>4, <3>2 DEF WriteBle, Chunk
      <4>2. \A j \in 1..k : buf[j] \in Byte
        BY <1>0, <4>1, ElementOfSeq
      <4>3. SubSeq(buf, 1, k) \in Seq(Byte) /\ Len(SubSeq(buf, 1, k)) = k
        BY <1>0, <4>1, <4>2, SubSeqProperties
      <4> QED
        BY <1>0, <4>1, <4>3, LengthAssumption
    <3> QED
      BY <3>1, <3>2
  <2> QED
    BY <1>0, <1>4, <2>1, LengthAssumption DEF WriteBle
<1>5. CASE Forward
  <2>1. CASE ble = <<>>
    BY <1>5, <2>1 DEF Forward
  <2>2. CASE ble # <<>>
    <3>1. /\ Head(ble) \in Byte /\ Tail(ble) \in Seq(Byte)
          /\ Len(Tail(ble)) = Len(ble) - 1
      BY <2>2, HeadTailProperties
    <3>2. <<Head(ble)>> \in Seq(Byte) /\ Len(<<Head(ble)>>) = 1
      BY <3>1
    <3>3. ble' = Tail(ble) /\ (UNCHANGED toHost \/ toHost' = <<Head(ble)>>)
      BY <1>5, <2>2 DEF Forward
    <3>4. toHost' \in Seq(Byte) /\ Len(toHost') <= 1
      <4>1. CASE UNCHANGED toHost
        BY <4>1
      <4>2. CASE toHost' = <<Head(ble)>>
        <5>1. Len(toHost') = 1
          BY <3>2, <4>2, Zenon
        <5>2. toHost' \in Seq(Byte)
          BY <3>2, <4>2, Zenon
        <5> QED
          BY <5>1, <5>2
      <4> QED
        BY <3>3, <4>1, <4>2
    <3>5. ble' \in Seq(Byte) /\ Len(ble') <= FifoLen
      BY <1>0, <3>1, <3>3, LengthAssumption
    <3> QED
      BY <1>5, <2>2, <3>4, <3>5 DEF Forward
  <2> QED
    BY <2>1, <2>2
<1>6. CASE Type
  <2>1. PICK b \in Byte : serial' = Append(serial, b)
    BY <1>6 DEF Type
  <2>2. serial' \in Seq(Byte) /\ Len(serial') = Len(serial) + 1
    BY <2>1, AppendProperties
  <2> QED
    BY <1>0, <1>6, <2>2, LengthAssumption DEF Type
<1>7. CASE CentralWrites
  <2>1. PICK b \in Byte : ble' = Append(ble, b)
    BY <1>7 DEF CentralWrites
  <2>2. ble' \in Seq(Byte) /\ Len(ble') = Len(ble) + 1
    BY <2>1, AppendProperties
  <2> QED
    BY <1>0, <1>7, <2>2, LengthAssumption DEF CentralWrites
<1>8. CASE CentralConnects \/ CentralDisconnects \/ UNCHANGED vars
  BY <1>8 DEF CentralConnects, CentralDisconnects, vars
<1> QED
  BY <1>1, <1>2, <1>3, <1>4, <1>5, <1>6, <1>7, <1>8 DEF Next, loop

LEMMA LinkStep == FifoInv /\ LinkInv /\ [Next]_vars => LinkInv'
<1> SUFFICES ASSUME FifoInv, LinkInv, [Next]_vars PROVE LinkInv'
  OBVIOUS
<1> USE DEF LinkInv, AlwaysReachable
<1>1. CASE setup
  BY <1>1 DEF setup, startAdv
<1>2. CASE loop \/ Type \/ CentralWrites
  <2>1. UNCHANGED link /\ (pc' = "setup" <=> pc = "setup")
    BY <1>2 DEF loop, SerialAvailable, ReadByte, WriteBle, Forward, Type, CentralWrites
  <2> QED
    BY <2>1 DEF link
<1>3. CASE CentralConnects
  BY <1>3 DEF CentralConnects
<1>4. CASE CentralDisconnects
  BY <1>4 DEF CentralDisconnects
<1>5. CASE UNCHANGED vars
  BY <1>5 DEF vars, link
<1> QED
  BY <1>1, <1>2, <1>3, <1>4, <1>5 DEF Next

THEOREM Invariance == Spec => []IInv
<1>1. IInv /\ [Next]_vars => IInv'
  BY FifoStep, LinkStep DEF IInv
<1> QED
  BY <1>1, IInvInit, PTL DEF Spec

(* Nothing is longer than the buffer or FIFO that holds it, for every size *)
(* of them.                                                                *)
THEOREM TypeCorrect == Spec => []TypeOK
<1>1. IInv => TypeOK
  BY StringsAreShort, LengthAssumption DEF IInv, FifoInv, LinkInv, TypeOK
<1> QED
  BY <1>1, Invariance, PTL

(* After any number of connections a central is connected or can connect.  *)
THEOREM Reachable == Spec => []AlwaysReachable
<1>1. IInv => AlwaysReachable
  BY DEF IInv, LinkInv
<1> QED
  BY <1>1, Invariance, PTL

-----------------------------------------------------------------------------
(* The two directions are lossy FIFOs                                      *)

(* readBytes moves a byte on inside the way to the central, and a write    *)
(* takes the whole buffer off its front.                                   *)
LEMMA ToCentralStep ==
  FifoInv /\ [Next]_vars =>
    [ToCentral!Enter \/ ToCentral!Leave]_<<buf \o serial, toCentral>>
<1> SUFFICES ASSUME FifoInv, [Next]_vars
             PROVE  [ToCentral!Enter \/ ToCentral!Leave]_<<buf \o serial, toCentral>>
  OBVIOUS
<1>0. buf \in Seq(Byte) /\ serial \in Seq(Byte)
  BY DEF FifoInv
<1>1. CASE ReadByte
  <2>1. (buf \o serial)' = buf \o serial
    BY <1>0, <1>1, MoveHead DEF ReadByte
  <2> QED
    BY <1>1, <2>1 DEF ReadByte
<1>2. CASE WriteBle
  <2>1. (buf \o serial)' = serial
    BY <1>0, <1>2, ConcatEmptySeq DEF WriteBle
  <2>2. UNCHANGED toCentral \/ \E k \in 1..Len(buf) : toCentral' = SubSeq(buf, 1, k)
    BY <1>2 DEF WriteBle, Chunk
  <2>3. CASE buf = <<>>
    <3>1. buf \o serial = serial /\ 1..Len(buf) = {}
      BY <1>0, <2>3, ConcatEmptySeq
    <3> QED
      BY <2>1, <2>2, <3>1
  <2>4. CASE buf # <<>>
    <3>1. /\ Len(buf) \in 1..Len(buf \o serial)
          /\ SubSeq(buf \o serial, Len(buf) + 1, Len(buf \o serial)) = serial
          /\ \A k \in 1..Len(buf) : SubSeq(buf \o serial, 1, k) = SubSeq(buf, 1, k)
      BY <1>0, <2>4, Prefix
    <3>2. toCentral' \in {toCentral} \cup {SubSeq(buf \o serial, 1, k) : k \in 1..Len(buf)}
      BY <2>2, <3>1
    <3>3. ToCentral!Leave
      BY <2>1, <3>1, <3>2 DEF ToCentral!Leave
    <3> QED
      BY <3>3
  <2> QED
    BY <2>3, <2>4
<1>3. CASE Type
  <2>1. PICK b \in Byte : serial' = Append(serial, b)
    BY <1>3 DEF Type
  <2>2. (buf \o serial)' = Append(buf \o serial, b)
    BY <1>0, <1>3, <2>1, AppendToConcat DEF Type
  <2> QED
    BY <1>3, <2>2 DEF Type, ToCentral!Enter
<1>4. CASE UNCHANGED <<buf, serial, toCentral>>
  BY <1>4
<1> QED
  BY <1>1, <1>2, <1>3, <1>4 DEF Next, loop, setup, SerialAvailable, Forward, CentralWrites,
     CentralConnects, CentralDisconnects, vars

(* What the host typed reaches the central in order and at most once,      *)
(* however the bytes are cut into chunks and whatever a write takes.       *)
THEOREM HostToCentral == Spec => HostToCentralInOrder
<1>1. Init => buf \o serial = <<>> /\ toCentral = <<>>
  BY DEF Init
<1>2. IInv /\ [Next]_vars =>
        [ToCentral!Enter \/ ToCentral!Leave]_<<buf \o serial, toCentral>>
  BY ToCentralStep DEF IInv
<1> QED
  BY <1>1, <1>2, Invariance, PTL DEF Spec, HostToCentralInOrder, ToCentral!Spec

LEMMA ToHostStep ==
  FifoInv /\ [Next]_vars => [ToHost!Enter \/ ToHost!Leave]_<<ble, toHost>>
<1> SUFFICES ASSUME FifoInv, [Next]_vars
             PROVE  [ToHost!Enter \/ ToHost!Leave]_<<ble, toHost>>
  OBVIOUS
<1>1. CASE Forward
  <2>1. CASE ble = <<>>
    BY <1>1, <2>1 DEF Forward
  <2>2. CASE ble # <<>>
    <3>1. ble \in Seq(Byte) /\ Len(ble) \in Nat \ {0} /\ 1 \in 1..Len(ble)
      BY <2>2, EmptySeq DEF FifoInv
    <3>2. Tail(ble) = SubSeq(ble, 1 + 1, Len(ble))
      BY <2>2, <3>1, TailIsSubSeq
    <3>3. <<Head(ble)>> = SubSeq(ble, 1, 1)
      BY <2>2, <3>1
    <3>4. toHost' \in {toHost} \cup {SubSeq(ble, 1, k) : k \in 1..1}
      BY <1>1, <2>2, <3>3 DEF Forward
    <3>5. ble' = SubSeq(ble, 1 + 1, Len(ble))
      BY <1>1, <2>2, <3>2 DEF Forward
    <3>6. ToHost!Leave
      BY <3>1, <3>4, <3>5 DEF ToHost!Leave
    <3> QED
      BY <3>6
  <2> QED
    BY <2>1, <2>2
<1>2. CASE CentralWrites
  BY <1>2 DEF CentralWrites, ToHost!Enter
<1>3. CASE UNCHANGED <<ble, toHost>>
  BY <1>3
<1> QED
  BY <1>1, <1>2, <1>3 DEF Next, loop, setup, SerialAvailable, ReadByte, WriteBle, Type,
     CentralConnects, CentralDisconnects, vars

(* What the central wrote reaches the host in order and at most once.      *)
THEOREM CentralToHost == Spec => CentralToHostInOrder
<1>1. Init => ble = <<>> /\ toHost = <<>>
  BY DEF Init
<1>2. IInv /\ [Next]_vars => [ToHost!Enter \/ ToHost!Leave]_<<ble, toHost>>
  BY ToHostStep DEF IInv
<1> QED
  BY <1>1, <1>2, Invariance, PTL DEF Spec, CentralToHostInOrder, ToHost!Spec
=============================================================================
