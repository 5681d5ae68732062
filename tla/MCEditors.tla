----------------------------- MODULE MCEditors ------------------------------
(* The editors for TLC: every studio, and the JSON editor over its lists.     *)
EXTENDS Editors

MCKinds == DOMAIN Studios

Copies == [id : Items, marks : SUBSET (0 .. MaxEdits)]
TypeOK == /\ kind \in Kinds /\ page \in {"studio", "editor"} /\ mode \in {"browse", "create", "edit"}
          /\ server \in [Items -> SUBSET (0 .. MaxEdits) \cup {None}]
          /\ store \in [Items -> SUBSET (0 .. MaxEdits) \cup {None}]
          /\ selected \in Copies \cup {None} /\ dialog \in Items \cup {None}
          /\ {json.data, json.text} \cup {t.text : t \in json.timer} \subseteq Copies \cup {None}
          /\ edits \in 0 .. MaxEdits /\ failures \in 0 .. MaxFailures
=============================================================================
