---------------------------- MODULE SmartPoster ----------------------------
(***************************************************************************)
(* examples/mbed-rtos-nfc/src/SmartPoster: the NDEF message of a smart     *)
(* poster.  append_record announces the size of its payload first, as the  *)
(* sum of what six get_..._record_size functions say, and is then given a  *)
(* buffer of just that size for what six append_... functions write.  The  *)
(* results of the six are dropped: a record for which there is no room is  *)
(* missing from the message.                                               *)
(*                                                                         *)
(* A poster is which fields it has and how long they are, 0 for an empty   *)
(* field; the texts themselves do not matter here.                         *)
(***************************************************************************)
EXTENDS Naturals, Sequences

CONSTANTS
  RecordSize(_, _),  \* MessageBuilder::compute_record_size of a record type
                     \* and the length of a payload
  Length             \* lengths of the contents considered

Kind == {"title", "icon", "size", "type", "action", "uri"}

(* Every record takes room, at least its header.  An action is one byte, a *)
(* resource size four.                                                     *)
ASSUME RecordSizeAssumption ==
  /\ Length \subseteq Nat /\ {0, 1, 4} \subseteq Length
  /\ \A kind \in Kind, n \in Length : RecordSize(kind, n) \in Nat \ {0}

(* title, icon, type, uri: the lengths of the contents.                    *)
Poster ==
  [title : Length, icon : Length, type : Length, uri : Length,
   action_set : BOOLEAN, resource_size_set : BOOLEAN]

-----------------------------------------------------------------------------
(* What each field contributes to the size announced                       *)

get_title_record_size(sp) ==
  IF sp.title = 0 THEN 0 ELSE RecordSize("title", sp.title)

(* Mutant of get_icon_record_size: forgotten in the sum.                   *)
IconNotCounted(sp) == 0

get_icon_record_size(sp) ==
  IF sp.icon = 0 THEN 0 ELSE RecordSize("icon", sp.icon)

(* sizeof(value): four bytes.                                              *)
get_resource_size_record_size(sp) ==
  IF sp.resource_size_set THEN RecordSize("size", 4) ELSE 0

get_type_record_size(sp) ==
  IF sp.type = 0 THEN 0 ELSE RecordSize("type", sp.type)

get_action_record_size(sp) ==
  IF sp.action_set THEN RecordSize("action", 1) ELSE 0

get_uri_record_size(sp) == RecordSize("uri", sp.uri)

size(sp) ==
  get_uri_record_size(sp) + get_title_record_size(sp) + get_icon_record_size(sp)
    + get_action_record_size(sp) + get_resource_size_record_size(sp)
    + get_type_record_size(sp)

-----------------------------------------------------------------------------
(* A MessageBuilder over a buffer: what is in it, how much room is left,   *)
(* and whether the record that ends the message has been written.          *)

NewBuilder(capacity) == [records |-> <<>>, room |-> capacity, ended |-> FALSE]

(* append_record: false, and nothing happens, after the end or without     *)
(* room.                                                                   *)
Append_record(b, kind, n, last) ==
  IF b.ended \/ RecordSize(kind, n) > b.room
  THEN b
  ELSE [records |-> Append(b.records, kind),
        room    |-> b.room - RecordSize(kind, n),
        ended   |-> last]

append_title(b, sp) ==
  IF sp.title = 0 THEN b ELSE Append_record(b, "title", sp.title, FALSE)

append_icon(b, sp) ==
  IF sp.icon = 0 THEN b ELSE Append_record(b, "icon", sp.icon, FALSE)

append_resource_size(b, sp) ==
  IF sp.resource_size_set THEN Append_record(b, "size", 4, FALSE) ELSE b

append_type(b, sp) ==
  IF sp.type = 0 THEN b ELSE Append_record(b, "type", sp.type, FALSE)

append_action(b, sp) ==
  IF sp.action_set THEN Append_record(b, "action", 1, FALSE) ELSE b

append_uri(b, sp) == Append_record(b, "uri", sp.uri, TRUE)

(* PayloadBuilder::build.                                                  *)
build(sp) ==
  LET title         == append_title(NewBuilder(size(sp)), sp)
      icon          == append_icon(title, sp)
      resource_size == append_resource_size(icon, sp)
      type          == append_type(resource_size, sp)
      action        == append_action(type, sp)
  IN  append_uri(action, sp)

(* SmartPoster::append_record into a message builder whose buffer has      *)
(* capacity bytes: the payload, or NoMessage if it returned false.         *)
NoMessage == [records |-> <<>>, room |-> 0, ended |-> FALSE]

append_record(sp, capacity) ==
  IF sp.uri = 0 \/ RecordSize("Sp", size(sp)) > capacity THEN NoMessage ELSE build(sp)

-----------------------------------------------------------------------------
(* The records a poster should consist of.                                 *)
Fields(sp) ==
  {"uri"} \cup (IF sp.title > 0 THEN {"title"} ELSE {})
          \cup (IF sp.icon > 0 THEN {"icon"} ELSE {})
          \cup (IF sp.type > 0 THEN {"type"} ELSE {})
          \cup (IF sp.action_set THEN {"action"} ELSE {})
          \cup (IF sp.resource_size_set THEN {"size"} ELSE {})

(* The message says all of the poster, each field once, ends with the URI, *)
(* and leaves no byte of the announced size unwritten.                     *)
Describes(message, sp) ==
  /\ message.ended /\ message.room = 0
  /\ {message.records[j] : j \in 1..Len(message.records)} = Fields(sp)
  /\ \A j, l \in 1..Len(message.records) :
       message.records[j] = message.records[l] => j = l
  /\ message.records[Len(message.records)] = "uri"
=============================================================================
