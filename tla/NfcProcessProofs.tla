-------------------------- MODULE NfcProcessProofs --------------------------
(***************************************************************************)
(* Theorems of SmartPoster and NfcProcess for every layout of records,     *)
(* every set of posters and peers, and any number of failing calls.        *)
(***************************************************************************)
EXTENDS NfcProcess, SequenceTheorems, TLAPS

-----------------------------------------------------------------------------
(* The message builder                                                     *)

Builder == [records : Seq(Kind), room : Nat, ended : BOOLEAN]

(* The records of a builder are those of the kinds in S, each one once.    *)
Holds(b, S) ==
  /\ b \in Builder /\ ~b.ended
  /\ {b.records[j] : j \in 1..Len(b.records)} = S
  /\ \A j, l \in 1..Len(b.records) : b.records[j] = b.records[l] => j = l

(* a is b with a record of the kind appended.                              *)
Appended(a, b, S, kind, n, last) ==
  /\ a \in Builder /\ a.ended = last
  /\ a.room = b.room - RecordSize(kind, n)
  /\ {a.records[j] : j \in 1..Len(a.records)} = S \cup {kind}
  /\ \A j, l \in 1..Len(a.records) : a.records[j] = a.records[l] => j = l
  /\ a.records[Len(a.records)] = kind

(* A record for which there is room becomes the last one.                  *)
LEMMA AppendFits ==
  ASSUME NEW S, NEW b, Holds(b, S), NEW kind \in Kind \ S, NEW n \in Length,
         RecordSize(kind, n) <= b.room, NEW last \in BOOLEAN,
         NEW a, a = Append_record(b, kind, n, last)
  PROVE  Appended(a, b, S, kind, n, last)
<1> DEFINE s == b.records
<1>0. RecordSize(kind, n) \in Nat
  BY RecordSizeAssumption
<1>1. s \in Seq(Kind) /\ b.room \in Nat /\ ~b.ended
  BY DEF Holds, Builder
<1>2. a = [records |-> Append(s, kind), room |-> b.room - RecordSize(kind, n),
           ended |-> last]
  BY <1>0, <1>1 DEF Append_record
<1>3. /\ Append(s, kind) \in Seq(Kind) /\ Len(Append(s, kind)) = Len(s) + 1
      /\ \A j \in 1..Len(s) : Append(s, kind)[j] = s[j]
      /\ Append(s, kind)[Len(s) + 1] = kind
      /\ Len(s) \in Nat
  BY <1>1, AppendProperties, LenProperties
<1>4. {s[j] : j \in 1..Len(s)} = S
      /\ \A j, l \in 1..Len(s) : s[j] = s[l] => j = l
  BY DEF Holds
<1>5. {Append(s, kind)[j] : j \in 1..(Len(s) + 1)} = S \cup {kind}
  BY <1>3, <1>4
<1>6. \A j, l \in 1..(Len(s) + 1) :
        Append(s, kind)[j] = Append(s, kind)[l] => j = l
  BY <1>3, <1>4
<1>7. a \in Builder
  BY <1>0, <1>1, <1>2, <1>3 DEF Builder
<1> QED
  BY <1>2, <1>3, <1>5, <1>6, <1>7 DEF Appended

(* a is b, with a record of the kind appended if it is present.            *)
Extended(a, b, S, kind, n, present) ==
  /\ Holds(a, S \cup (IF present THEN {kind} ELSE {}))
  /\ a.room = b.room - (IF present THEN RecordSize(kind, n) ELSE 0)

(* One of the five fields a poster may lack.                               *)
LEMMA OptionalField ==
  ASSUME NEW S, NEW b, Holds(b, S), NEW kind \in Kind \ S, NEW n \in Length,
         NEW present \in BOOLEAN, present => RecordSize(kind, n) <= b.room,
         NEW a, a = IF present THEN Append_record(b, kind, n, FALSE) ELSE b
  PROVE  Extended(a, b, S, kind, n, present)
<1>1. CASE present
  <2>1. a = Append_record(b, kind, n, FALSE)
    BY <1>1
  <2>2. Appended(a, b, S, kind, n, FALSE)
    BY <1>1, <2>1, AppendFits, Zenon
  <2> QED
    BY <1>1, <2>2 DEF Holds, Appended, Extended
<1>2. CASE ~present
  <2>1. b.room - 0 = b.room
    BY DEF Holds, Builder
  <2> QED
    BY <1>2, <2>1 DEF Holds, Extended
<1> QED
  BY <1>1, <1>2

(* What a poster announces, field by field.                                *)
LEMMA SizesAreNat ==
  ASSUME NEW sp \in Poster
  PROVE  /\ sp.title \in Length /\ sp.icon \in Length /\ sp.type \in Length
         /\ sp.uri \in Length /\ 1 \in Length /\ 4 \in Length
         /\ sp.title \in Nat /\ sp.icon \in Nat /\ sp.type \in Nat
         /\ sp.action_set \in BOOLEAN /\ sp.resource_size_set \in BOOLEAN
         /\ get_title_record_size(sp) \in Nat /\ get_icon_record_size(sp) \in Nat
         /\ get_resource_size_record_size(sp) \in Nat
         /\ get_type_record_size(sp) \in Nat /\ get_action_record_size(sp) \in Nat
         /\ get_uri_record_size(sp) \in Nat /\ size(sp) \in Nat
<1>1. /\ sp.title \in Length /\ sp.icon \in Length /\ sp.type \in Length
      /\ sp.uri \in Length /\ 1 \in Length /\ 4 \in Length
      /\ sp.title \in Nat /\ sp.icon \in Nat /\ sp.type \in Nat
      /\ sp.action_set \in BOOLEAN /\ sp.resource_size_set \in BOOLEAN
  BY RecordSizeAssumption DEF Poster
<1>2. \A kind \in Kind, n \in Length : RecordSize(kind, n) \in Nat
  BY RecordSizeAssumption
<1>3. get_title_record_size(sp) \in Nat
  BY <1>1, <1>2 DEF get_title_record_size, Kind
<1>4. get_icon_record_size(sp) \in Nat
  BY <1>1, <1>2 DEF get_icon_record_size, Kind
<1>5. get_resource_size_record_size(sp) \in Nat
  BY <1>1, <1>2 DEF get_resource_size_record_size, Kind
<1>6. get_type_record_size(sp) \in Nat
  BY <1>1, <1>2 DEF get_type_record_size, Kind
<1>7. get_action_record_size(sp) \in Nat
  BY <1>1, <1>2 DEF get_action_record_size, Kind
<1>8. get_uri_record_size(sp) \in Nat
  BY <1>1, <1>2 DEF get_uri_record_size, Kind
<1>9. size(sp) \in Nat
  BY <1>3, <1>4, <1>5, <1>6, <1>7, <1>8 DEF size
<1> QED
  BY <1>1, <1>3, <1>4, <1>5, <1>6, <1>7, <1>8, <1>9

(* Each field, given room for what it announces.                           *)
LEMMA TitleStep ==
  ASSUME NEW sp \in Poster, NEW S, NEW b, Holds(b, S), "title" \notin S,
         get_title_record_size(sp) <= b.room
  PROVE  /\ Holds(append_title(b, sp), S \cup (IF sp.title > 0 THEN {"title"} ELSE {}))
         /\ append_title(b, sp).room = b.room - get_title_record_size(sp)
<1>0. sp.title > 0 <=> sp.title # 0
  BY SizesAreNat
<1>1. append_title(b, sp) =
        IF sp.title > 0 THEN Append_record(b, "title", sp.title, FALSE) ELSE b
  BY <1>0, Zenon DEF append_title
<1>2. get_title_record_size(sp) = IF sp.title > 0 THEN RecordSize("title", sp.title) ELSE 0
  BY SizesAreNat DEF get_title_record_size
<1>3. /\ "title" \in Kind \ S /\ sp.title \in Length /\ (sp.title > 0) \in BOOLEAN
      /\ sp.title > 0 => RecordSize("title", sp.title) <= b.room
  BY <1>2, SizesAreNat DEF Kind
<1>4. Extended(append_title(b, sp), b, S, "title", sp.title, sp.title > 0)
  BY <1>1, <1>3, OptionalField, Zenon
<1> QED
  BY <1>2, <1>4, Zenon DEF Extended

LEMMA IconStep ==
  ASSUME NEW sp \in Poster, NEW S, NEW b, Holds(b, S), "icon" \notin S,
         get_icon_record_size(sp) <= b.room
  PROVE  /\ Holds(append_icon(b, sp), S \cup (IF sp.icon > 0 THEN {"icon"} ELSE {}))
         /\ append_icon(b, sp).room = b.room - get_icon_record_size(sp)
<1>0. sp.icon > 0 <=> sp.icon # 0
  BY SizesAreNat
<1>1. append_icon(b, sp) =
        IF sp.icon > 0 THEN Append_record(b, "icon", sp.icon, FALSE) ELSE b
  BY <1>0, Zenon DEF append_icon
<1>2. get_icon_record_size(sp) = IF sp.icon > 0 THEN RecordSize("icon", sp.icon) ELSE 0
  BY SizesAreNat DEF get_icon_record_size
<1>3. /\ "icon" \in Kind \ S /\ sp.icon \in Length /\ (sp.icon > 0) \in BOOLEAN
      /\ sp.icon > 0 => RecordSize("icon", sp.icon) <= b.room
  BY <1>2, SizesAreNat DEF Kind
<1>4. Extended(append_icon(b, sp), b, S, "icon", sp.icon, sp.icon > 0)
  BY <1>1, <1>3, OptionalField, Zenon
<1> QED
  BY <1>2, <1>4, Zenon DEF Extended

LEMMA ResourceSizeStep ==
  ASSUME NEW sp \in Poster, NEW S, NEW b, Holds(b, S), "size" \notin S,
         get_resource_size_record_size(sp) <= b.room
  PROVE  /\ Holds(append_resource_size(b, sp),
                  S \cup (IF sp.resource_size_set THEN {"size"} ELSE {}))
         /\ append_resource_size(b, sp).room = b.room - get_resource_size_record_size(sp)
<1>1. append_resource_size(b, sp) =
        IF sp.resource_size_set THEN Append_record(b, "size", 4, FALSE) ELSE b
  BY SizesAreNat DEF append_resource_size
<1>2. get_resource_size_record_size(sp) =
        IF sp.resource_size_set THEN RecordSize("size", 4) ELSE 0
  BY SizesAreNat DEF get_resource_size_record_size
<1>3. /\ "size" \in Kind \ S /\ 4 \in Length /\ (sp.resource_size_set) \in BOOLEAN
      /\ sp.resource_size_set => RecordSize("size", 4) <= b.room
  BY <1>2, SizesAreNat DEF Kind
<1>4. Extended(append_resource_size(b, sp), b, S, "size", 4, sp.resource_size_set)
  BY <1>1, <1>3, OptionalField, Zenon
<1> QED
  BY <1>2, <1>4, Zenon DEF Extended

LEMMA TypeRecordStep ==
  ASSUME NEW sp \in Poster, NEW S, NEW b, Holds(b, S), "type" \notin S,
         get_type_record_size(sp) <= b.room
  PROVE  /\ Holds(append_type(b, sp), S \cup (IF sp.type > 0 THEN {"type"} ELSE {}))
         /\ append_type(b, sp).room = b.room - get_type_record_size(sp)
<1>0. sp.type > 0 <=> sp.type # 0
  BY SizesAreNat
<1>1. append_type(b, sp) =
        IF sp.type > 0 THEN Append_record(b, "type", sp.type, FALSE) ELSE b
  BY <1>0, Zenon DEF append_type
<1>2. get_type_record_size(sp) = IF sp.type > 0 THEN RecordSize("type", sp.type) ELSE 0
  BY SizesAreNat DEF get_type_record_size
<1>3. /\ "type" \in Kind \ S /\ sp.type \in Length /\ (sp.type > 0) \in BOOLEAN
      /\ sp.type > 0 => RecordSize("type", sp.type) <= b.room
  BY <1>2, SizesAreNat DEF Kind
<1>4. Extended(append_type(b, sp), b, S, "type", sp.type, sp.type > 0)
  BY <1>1, <1>3, OptionalField, Zenon
<1> QED
  BY <1>2, <1>4, Zenon DEF Extended

LEMMA ActionStep ==
  ASSUME NEW sp \in Poster, NEW S, NEW b, Holds(b, S), "action" \notin S,
         get_action_record_size(sp) <= b.room
  PROVE  /\ Holds(append_action(b, sp), S \cup (IF sp.action_set THEN {"action"} ELSE {}))
         /\ append_action(b, sp).room = b.room - get_action_record_size(sp)
<1>1. append_action(b, sp) =
        IF sp.action_set THEN Append_record(b, "action", 1, FALSE) ELSE b
  BY SizesAreNat DEF append_action
<1>2. get_action_record_size(sp) = IF sp.action_set THEN RecordSize("action", 1) ELSE 0
  BY SizesAreNat DEF get_action_record_size
<1>3. /\ "action" \in Kind \ S /\ 1 \in Length /\ (sp.action_set) \in BOOLEAN
      /\ sp.action_set => RecordSize("action", 1) <= b.room
  BY <1>2, SizesAreNat DEF Kind
<1>4. Extended(append_action(b, sp), b, S, "action", 1, sp.action_set)
  BY <1>1, <1>3, OptionalField, Zenon
<1> QED
  BY <1>2, <1>4, Zenon DEF Extended

(* The six appends fill the room that the six sizes announced: every field *)
(* that is set is written once, and the URI last.                          *)
LEMMA BuildDescribes ==
  ASSUME NEW sp \in Poster
  PROVE  build(sp) \in Builder /\ Describes(build(sp), sp)
<1> DEFINE empty         == NewBuilder(size(sp))
           title         == append_title(empty, sp)
           icon          == append_icon(title, sp)
           resource_size == append_resource_size(icon, sp)
           type          == append_type(resource_size, sp)
           action        == append_action(type, sp)
           uri           == append_uri(action, sp)
           S1 == {} \cup (IF sp.title > 0 THEN {"title"} ELSE {})
           S2 == S1 \cup (IF sp.icon > 0 THEN {"icon"} ELSE {})
           S3 == S2 \cup (IF sp.resource_size_set THEN {"size"} ELSE {})
           S4 == S3 \cup (IF sp.type > 0 THEN {"type"} ELSE {})
           S5 == S4 \cup (IF sp.action_set THEN {"action"} ELSE {})
<1>a. /\ "icon" \notin S1 /\ "size" \notin S2 /\ "type" \notin S3
      /\ "action" \notin S4 /\ "uri" \notin S5 /\ S5 \cup {"uri"} = Fields(sp)
  BY DEF Fields
<1>b. build(sp) = uri
  BY DEF build
<1>0. Holds(empty, {}) /\ empty.room = size(sp)
  <2>1. empty \in Builder
    BY SizesAreNat DEF NewBuilder, Builder
  <2> QED
    BY <2>1 DEF NewBuilder, Holds
<1> HIDE DEF empty
<1>1. Holds(title, S1) /\ title.room = empty.room - get_title_record_size(sp)
  <2>1. get_title_record_size(sp) <= empty.room
    BY <1>0, SizesAreNat DEF size
  <2> QED
    BY <1>0, <2>1, TitleStep
<1> HIDE DEF title
<1>2. Holds(icon, S2) /\ icon.room = title.room - get_icon_record_size(sp)
  <2>1. get_icon_record_size(sp) <= title.room
    BY <1>0, <1>1, SizesAreNat DEF size
  <2> HIDE DEF S1
  <2> QED
    BY <1>a, <1>1, <2>1, IconStep
<1> HIDE DEF icon
<1>3. /\ Holds(resource_size, S3)
      /\ resource_size.room = icon.room - get_resource_size_record_size(sp)
  <2>1. get_resource_size_record_size(sp) <= icon.room
    BY <1>0, <1>1, <1>2, SizesAreNat DEF size
  <2> HIDE DEF S2
  <2> QED
    BY <1>a, <1>2, <2>1, ResourceSizeStep
<1> HIDE DEF resource_size
<1>4. Holds(type, S4) /\ type.room = resource_size.room - get_type_record_size(sp)
  <2>1. get_type_record_size(sp) <= resource_size.room
    BY <1>0, <1>1, <1>2, <1>3, SizesAreNat DEF size
  <2> HIDE DEF S3
  <2> QED
    BY <1>a, <1>3, <2>1, TypeRecordStep
<1> HIDE DEF type
<1>5. Holds(action, S5) /\ action.room = type.room - get_action_record_size(sp)
  <2>1. get_action_record_size(sp) <= type.room
    BY <1>0, <1>1, <1>2, <1>3, <1>4, SizesAreNat DEF size
  <2> HIDE DEF S4
  <2> QED
    BY <1>a, <1>4, <2>1, ActionStep
<1> HIDE DEF action
<1>6. action.room = RecordSize("uri", sp.uri)
  BY <1>0, <1>1, <1>2, <1>3, <1>4, <1>5, SizesAreNat DEF size, get_uri_record_size
<1>7. /\ uri \in Builder /\ uri.ended /\ uri.room = 0
      /\ {uri.records[j] : j \in 1..Len(uri.records)} = S5 \cup {"uri"}
      /\ \A j, l \in 1..Len(uri.records) : uri.records[j] = uri.records[l] => j = l
      /\ uri.records[Len(uri.records)] = "uri"
  <2>1. "uri" \in Kind \ S5
    BY <1>a DEF Kind
  <2>2. RecordSize("uri", sp.uri) \in Nat /\ sp.uri \in Length
    BY SizesAreNat DEF get_uri_record_size
  <2>3. uri = Append_record(action, "uri", sp.uri, TRUE)
    BY DEF append_uri
  <2> HIDE DEF uri, S5
  <2>4. RecordSize("uri", sp.uri) <= action.room
    BY <1>6, <2>2
  <2>5. Appended(uri, action, S5, "uri", sp.uri, TRUE)
    BY <1>5, <2>1, <2>2, <2>3, <2>4, AppendFits, Zenon
  <2>6. uri.ended /\ uri.room = 0
    BY <1>6, <2>2, <2>5 DEF Appended
  <2> QED
    BY <2>5, <2>6, Zenon DEF Appended
<1> HIDE DEF uri, S5
<1> QED
  BY <1>a, <1>b, <1>7 DEF Describes

LEMMA NoMessageType == NoMessage \in Builder
<1>1. <<>> \in Seq(Kind)
  BY EmptySeq
<1> QED
  BY <1>1 DEF NoMessage, Builder

(* append_record hands out the whole message or none.                      *)
LEMMA AppendRecordType ==
  ASSUME NEW sp \in Poster, NEW n \in Nat
  PROVE  /\ append_record(sp, n) \in Builder
         /\ append_record(sp, n) = NoMessage \/ Describes(append_record(sp, n), sp)
  BY NoMessageType, BuildDescribes, Zenon DEF append_record

-----------------------------------------------------------------------------
(* At most one of these holds: the controller discovers, it has found a    *)
(* peer it has not told of, a discovery was aborted and nobody was told, a *)
(* peer is held.  Before main() is through none of them does.              *)
OneActivity ==
  /\ discovering => found = None /\ "aborted" \notin terminated /\ held = None
  /\ found # None => "aborted" \notin terminated /\ held = None
  /\ "aborted" \in terminated => held = None
  /\ pc # "dispatch" => ~discovering /\ found = None /\ terminated = {} /\ held = None

(* The two halves of TypeOK, each with what goes with it.                  *)
PeersInv ==
  /\ pc \in {"init", "start", "dispatch"}
  /\ delegate \in BOOLEAN /\ discovering \in BOOLEAN
  /\ found \in Initiator \cup {None}
  /\ terminated \subseteq {"completed", "aborted"}
  /\ held \in Initiator \cup {None}
  /\ connected \subseteq Initiator /\ watched = {held} \ {None}
  /\ fresh \subseteq Initiator
  /\ errors \in 0..MaxErrors
  /\ OneActivity
  /\ HeldWhileConnected

MessageInv ==
  /\ poster \in Posters \cup {None}
  /\ message \in Builder
  /\ MessageDescribesPoster

IInv == PeersInv /\ MessageInv

LEMMA IInvInit == Init => IInv
<1> SUFFICES ASSUME Init PROVE IInv
  OBVIOUS
<1>1. PeersInv
  <2>1. errors \in 0..MaxErrors /\ watched = {held} \ {None}
    BY ErrorsAssumption DEF Init
  <2>2. OneActivity /\ HeldWhileConnected
    BY DEF Init, OneActivity, HeldWhileConnected
  <2>3. /\ pc \in {"init", "start", "dispatch"}
        /\ delegate \in BOOLEAN /\ discovering \in BOOLEAN
        /\ found \in Initiator \cup {None} /\ held \in Initiator \cup {None}
        /\ terminated \subseteq {"completed", "aborted"}
        /\ connected \subseteq Initiator /\ fresh \subseteq Initiator
    BY DEF Init
  <2> QED
    BY <2>1, <2>2, <2>3, Zenon DEF PeersInv
<1>2. MessageInv
  BY NoMessageType DEF Init, MessageInv, MessageDescribesPoster
<1> QED
  BY <1>1, <1>2 DEF IInv

(* A step counts at most one call that failed.                             *)
LEMMA ErrorsStep ==
  ASSUME errors \in 0..MaxErrors, [Next]_vars
  PROVE  errors' \in 0..MaxErrors
<1>1. errors' = errors \/ Fail
  BY DEF Next, vars, controller, start_discovery, init, StartDiscovery, Abort, Find,
     on_discovery_terminated, on_nfc_initiator_discovered, on_disconnected,
     build_ndef_message
<1> QED
  BY <1>1, ErrorsAssumption DEF Fail

LEMMA PeersStep == PeersInv /\ [Next]_vars => PeersInv'
<1> SUFFICES ASSUME PeersInv, [Next]_vars PROVE PeersInv'
  OBVIOUS
<1>0. errors' \in 0..MaxErrors
  BY ErrorsStep DEF PeersInv
<1> USE NoneAssumption DEF PeersInv, OneActivity, HeldWhileConnected, controller, peers
<1>1. CASE init
  <2>1. delegate' \in BOOLEAN
    BY <1>1 DEF init
  <2> QED
    BY <1>0, <1>1, <2>1, Zenon DEF init
<1>2. CASE StartDiscovery
  <2>1. discovering' \in BOOLEAN
    BY <1>2 DEF StartDiscovery, start_discovery
  <2> QED
    BY <1>0, <1>2, <2>1, Zenon DEF StartDiscovery
<1>3. CASE Abort
  BY <1>0, <1>3 DEF Abort
<1>4. ASSUME NEW i \in Initiator, Find(i) PROVE PeersInv'
  <2>1. discovering /\ discovering' = FALSE /\ found' = i
    BY <1>4 DEF Find
  <2>2. terminated' = terminated \cup {"completed"} /\ fresh' = fresh \ {i}
    BY <1>4 DEF Find
  <2>3. UNCHANGED <<pc, delegate, held, connected, watched>>
    BY <1>4 DEF Find
  <2>4. terminated' \subseteq {"completed", "aborted"} /\ "aborted" \notin terminated'
    BY <2>1, <2>2
  <2>5. fresh' \subseteq Initiator /\ found' \in Initiator \cup {None}
    BY <2>1, <2>2
  <2>6. OneActivity'
    BY <2>1, <2>3, <2>4, Zenon
  <2> QED
    BY <1>0, <2>1, <2>3, <2>4, <2>5, <2>6, Zenon
<1>5. ASSUME NEW reason \in {"completed", "aborted"}, on_discovery_terminated(reason)
      PROVE  PeersInv'
  <2>1. pc = "dispatch" /\ reason \in terminated /\ terminated' = terminated \ {reason}
    BY <1>5 DEF on_discovery_terminated, Dispatching
  <2>2. UNCHANGED <<pc, delegate, found, fresh, held, connected, watched>>
    BY <1>5 DEF on_discovery_terminated
  <2>3. discovering' = discovering \/ (reason = "aborted" /\ discovering' = TRUE)
    <3>1. CASE reason = "completed"
      BY <1>5, <3>1 DEF on_discovery_terminated
    <3>2. CASE reason = "aborted"
      BY <1>5, <3>2 DEF on_discovery_terminated, start_discovery
    <3> QED
      BY <3>1, <3>2
  <2>4. discovering' \in BOOLEAN
    BY <2>3
  <2>5. /\ terminated' \subseteq terminated
        /\ reason = "aborted" => "aborted" \notin terminated'
    BY <2>1
  <2>6. OneActivity'
    <3>1. CASE discovering' = discovering
      BY <2>1, <2>2, <2>5, <3>1, Zenon
    <3>2. CASE reason = "aborted" /\ discovering' = TRUE
      BY <2>1, <2>2, <2>5, <3>2, Zenon
    <3> QED
      BY <2>3, <3>1, <3>2, Zenon
  <2>7. terminated' \subseteq {"completed", "aborted"}
    BY <2>5
  <2> QED
    BY <1>0, <2>2, <2>4, <2>6, <2>7, Zenon
<1>6. CASE on_nfc_initiator_discovered
  <2>1. pc = "dispatch" /\ found # None /\ held' = found /\ found' = None
    BY <1>6 DEF on_nfc_initiator_discovered, Dispatching
  <2>2. watched' = watched \cup {found} /\ connected' \subseteq connected \cup {found}
    BY <1>6 DEF on_nfc_initiator_discovered
  <2>3. UNCHANGED <<pc, delegate, discovering, terminated, fresh>>
    BY <1>6 DEF on_nfc_initiator_discovered
  <2>4. found \in Initiator /\ held = None /\ ~discovering /\ "aborted" \notin terminated
    BY <2>1, Zenon
  <2>5. watched = {} /\ connected = {}
    BY <2>4
  <2>6. watched' = {held'} \ {None} /\ connected' \subseteq {found}
    BY <2>1, <2>2, <2>5
  <2>7. connected' \subseteq Initiator /\ HeldWhileConnected'
    BY <2>1, <2>4, <2>6
  <2>8. OneActivity'
    BY <2>1, <2>3, <2>4, Zenon
  <2>9. held' \in Initiator \cup {None} /\ found' \in Initiator \cup {None}
    BY <2>1, <2>4, Zenon
  <2> QED
    BY <1>0, <2>3, <2>6, <2>7, <2>8, <2>9, Zenon
<1>7. ASSUME NEW i \in Initiator, on_disconnected(i) PROVE PeersInv'
  <2>1. pc = "dispatch" /\ i \in connected /\ i \in watched
    BY <1>7 DEF on_disconnected, Dispatching
  <2>2. connected' = connected \ {i} /\ watched' = watched \ {held} /\ held' = None
    BY <1>7 DEF on_disconnected
  <2>3. UNCHANGED <<pc, delegate, found, terminated, fresh>>
    BY <1>7 DEF on_disconnected
  <2>4. discovering' \in BOOLEAN
    BY <1>7 DEF on_disconnected, start_discovery
  <2>5. held = i /\ held # None
    BY <2>1
  <2>6. ~discovering /\ found = None /\ "aborted" \notin terminated
    BY <2>5, Zenon
  <2>7. watched' = {held'} \ {None} /\ connected' = {}
    BY <2>2, <2>5
  <2>8. connected' \subseteq Initiator /\ HeldWhileConnected'
    BY <2>7
  <2>9. OneActivity'
    BY <2>1, <2>2, <2>3, <2>6, Zenon
  <2>10. held' \in Initiator \cup {None}
    BY <2>2
  <2> QED
    BY <1>0, <2>3, <2>4, <2>7, <2>8, <2>9, <2>10, Zenon
<1>8. ASSUME NEW i \in Initiator, build_ndef_message(i) PROVE PeersInv'
  BY <1>0, <1>8, Zenon DEF build_ndef_message
<1>9. CASE UNCHANGED vars
  BY <1>0, <1>9, Zenon DEF vars
<1> QED
  BY <1>1, <1>2, <1>3, <1>4, <1>5, <1>6, <1>7, <1>8, <1>9 DEF Next

LEMMA MessageStep == MessageInv /\ [Next]_vars => MessageInv'
<1> SUFFICES ASSUME MessageInv, [Next]_vars PROVE MessageInv'
  OBVIOUS
<1>1. CASE UNCHANGED <<poster, message>>
  BY <1>1 DEF MessageInv, MessageDescribesPoster
<1>2. ASSUME NEW i \in Initiator, build_ndef_message(i) PROVE MessageInv'
  <2>1. PICK sp \in Posters, n \in Buffers :
          poster' = sp /\ message' = append_record(sp, n)
    BY <1>2 DEF build_ndef_message
  <2>2. sp \in Poster /\ n \in Nat
    BY PostersAssumption
  <2> QED
    BY <2>1, <2>2, AppendRecordType DEF MessageInv, MessageDescribesPoster
<1> QED
  BY <1>1, <1>2 DEF Next, vars, built, init, StartDiscovery, Abort, Find,
     on_discovery_terminated, on_nfc_initiator_discovered, on_disconnected

THEOREM Invariance == Spec => []IInv
<1>1. IInv /\ [Next]_vars => IInv'
  BY PeersStep, MessageStep DEF IInv
<1> QED
  BY <1>1, IInvInit, PTL DEF Spec

(* Whatever events come in whatever order, at most one initiator is held,  *)
(* and the message handed out is one of records.                           *)
THEOREM TypeCorrect == Spec => []TypeOK
<1>1. IInv => TypeOK
  BY DEF IInv, PeersInv, MessageInv, TypeOK, Builder
<1> QED
  BY <1>1, Invariance, PTL

(* on_disconnected never dereferences NULL and never releases a peer that  *)
(* did not leave, for any number of peers and failing calls.               *)
THEOREM HeldIsConnected == Spec => []HeldWhileConnected
<1>1. IInv => HeldWhileConnected
  BY DEF IInv, PeersInv
<1> QED
  BY <1>1, Invariance, PTL

(* While a peer is connected nothing else goes on, although three places   *)
(* start a discovery and its end is told apart from what it found.         *)
THEOREM OnlyOnePeer == Spec => []OnePeerAtATime
<1>1. IInv => OnePeerAtATime
  BY NoneAssumption DEF IInv, PeersInv, OneActivity, HeldWhileConnected, OnePeerAtATime
<1> QED
  BY <1>1, Invariance, PTL

(* Every message is empty or has all of its poster, for every layout of    *)
(* records, every length of a field and every buffer.                      *)
THEOREM MessagesDescribe == Spec => []MessageDescribesPoster
<1>1. IInv => MessageDescribesPoster
  BY DEF IInv, MessageInv
<1> QED
  BY <1>1, Invariance, PTL
=============================================================================
