---------------------------- MODULE MCNfcProcess ----------------------------
(* NfcProcess for TLC: every combination of fields, with contents on both   *)
(* sides of the length from which a record has a longer header.             *)
EXTENDS NfcProcess

Long == 5   \* stands for 256

MCRecordSize(kind, n) ==
  n + (IF kind \in {"Sp", "action"} THEN 3 ELSE 1) + (IF n < Long THEN 1 ELSE 4)

MCLength == {0, 1, 4, Long}

MCPosters ==
  [title : {0, Long}, icon : {0, Long}, type : {0, 1}, uri : {0, 1, Long},
   action_set : BOOLEAN, resource_size_set : BOOLEAN]
=============================================================================
