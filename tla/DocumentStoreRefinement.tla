----------------------- MODULE DocumentStoreRefinement -----------------------
(***************************************************************************)
(* The handlers of DocumentStore keep the promise of AuditedOperation, when *)
(* no client resends a request id: an item's record is the one under its   *)
(* request and position, its status the one in outcome, its files those    *)
(* among all versions ever put that carry its request and position.        *)
(***************************************************************************)
EXTENDS DocumentStoreInvariants

AskOf(op) == CASE op \in Uploads -> "save"
               [] op = "delete"  -> "delete"
               [] OTHER          -> "read"

(* The refinement mapping. *)
FilesOf(i) == {v \in written : v.by = i[1] /\ v.pos = i[2]}

AskedItems    == [i \in Slots |-> IF i[2] \in DOMAIN req[i[1]].keys
                                  THEN AskOf(req[i[1]].op) ELSE "none"]
StoredItems   == [i \in Slots |-> Cardinality(FilesOf(i))]
RecordedItems == [i \in Slots |-> audit[i].kind]
ItemStatus    == [i \in Slots |-> IF i[2] \in DOMAIN outcome[i[1]]
                                  THEN outcome[i[1]][i[2]] ELSE 0]

Promise == INSTANCE AuditedOperation WITH
  Requests  <- Requests,
  Positions <- 1 .. MaxItems,
  asked     <- AskedItems,
  stored    <- StoredItems,
  recorded  <- RecordedItems,
  status    <- ItemStatus

(* Every request, item by item, is a sequence store - record and answer,     *)
(* whatever fails or dies in between and whatever other requests do: no      *)
(* second put of an item, no record before or without the item's status, no  *)
(* step of an item before its predecessor is settled, no record that         *)
(* contradicts status or store (file_upload_handler.py:32-81,                *)
(* bulk_upload.py:88-120, delete_files.py:44-60, retrieve_file.py:30-62).    *)
KeepsPromise == Promise!Spec

=============================================================================
