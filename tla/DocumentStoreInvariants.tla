---------------------- MODULE DocumentStoreInvariants ----------------------
(***************************************************************************)
(* The inductive invariant behind the safety properties of DocumentStore:  *)
(* what is true of a handler between its calls, and of the stores while    *)
(* handlers are between their calls.                                       *)
(***************************************************************************)
EXTENDS DocumentStore

(* Where a handler is tells which endpoint it serves, which item it is at,  *)
(* and how many items it has settled.                                       *)
ItemOK ==
  \A r \in Requests :
    /\ Len(req[r].keys) <= MaxItems
    /\ Len(outcome[r]) <= Len(req[r].keys)
    /\ pc[r] \notin {"idle", "crashed"} => req[r].op \in AllOps
    /\ pc[r] = "idle" => req[r].op = "none" /\ req[r].keys = <<>>
    /\ pc[r] \notin Finished => Len(outcome[r]) + 1 = pos[r]
    /\ pc[r] \in {"idle", "collection", "authorise"} => outcome[r] = <<>>
    /\ pc[r] \in ItemSteps \cup {"collection"} => pos[r] <= Len(req[r].keys)
    /\ pc[r] = "collection" => req[r].op = "bulk"
    /\ pc[r] \in {"checks", "exists", "save", "auditUpload"} => req[r].op \in Uploads
    /\ pc[r] \in {"exists", "save"} => Current(r) # NoKey
    /\ pc[r] \in {"authorise", "list", "remove", "auditDelete"} => req[r].op = "delete"
    /\ pc[r] \in {"url", "auditRead"} => req[r].op = "get"
    /\ pc[r] \in {"details", "auditDetails"} => req[r].op = "details"

TypeInv == TypeOK /\ ItemOK

(* An error status is never one of the success statuses, it is there only   *)
(* from the step that failed to the audit step, and each audit step can meet *)
(* only the errors of its own endpoint.                                      *)
AuditSteps == {"auditUpload", "auditDelete", "auditRead", "auditDetails"}

ErrOK ==
  \A r \in Requests :
    /\ err[r] \in {0, 400, 404, 409, 500}
    /\ pc[r] \notin AuditSteps \cup Finished \cup {"remove"} => err[r] = 0
    /\ pc[r] = "remove" => err[r] \in {0, 500}
    /\ pc[r] = "auditUpload" => err[r] # 404
    /\ pc[r] = "auditDelete" => err[r] \in {0, 404, 500}
    /\ pc[r] \in {"auditRead", "auditDetails"} => err[r] # 409

(* Version ids: everything stored was written, ids are handed out in order, *)
(* and a request has not begun in the future.                               *)
VidsOK ==
  /\ bucket \subseteq written
  /\ \A v \in written : v.vid < nextVid
  /\ \A r \in Requests : began[r] <= nextVid

(* A version's writer is past writing it, for the item it was asked for, and *)
(* has not been told of a refusal.                                           *)
WrittenFor(v, r) ==
  /\ pc[r] # "idle" /\ req[r].op \in Uploads
  /\ v.pos \in DOMAIN req[r].keys /\ v.key = req[r].keys[v.pos]
  /\ v.pos <= pos[r]
  /\ v.pos = pos[r] => pc[r] \in {"auditUpload", "done", "crashed"}
  /\ v.pos = pos[r] /\ pc[r] = "auditUpload" => err[r] \in {0, 500}

WritersOK == \A v \in written : v.by # Earlier => WrittenFor(v, v.by)

(* No item is put twice. *)
OnceOK ==
  \A v, w \in written :
    v.by # Earlier /\ w.by = v.by /\ w.pos = v.pos => w = v

(* An upload that reaches the audit step with no error has stored its file. *)
SaveOK ==
  \A r \in Requests :
    /\ pc[r] = "save" => err[r] = 0
    /\ pc[r] = "auditUpload" /\ err[r] = 0 =>
         \E v \in written : v.by = r /\ v.pos = pos[r] /\ v.key = Current(r)

(* While an upload that found no file is under way, whatever is in the       *)
(* bucket under its key came after the request.                              *)
NewSince(r, p) ==
  \A v \in bucket : v.key = req[r].keys[p] =>
    v.vid >= began[r] /\ (v.by = r => v.pos >= p)

FreshOK ==
  \A r \in Requests :
    pc[r] \in {"save", "auditUpload"} /\ err[r] = 0 /\ ~existed[r] => NewSince(r, pos[r])

(* While a deletion has met no error, an old version of its key is still on  *)
(* its list, or a whole reply of newer ones is gone or on the list.  It lists *)
(* nothing that was not put.                                                 *)
OldOf(r, p) == {v \in bucket : v.key = req[r].keys[p] /\ v.vid < began[r]}

NewerListed(r, v) == {w \in versions[r] : w.key = v.key /\ w.vid > v.vid}

RemovalOK ==
  \A r \in Requests :
    /\ pc[r] = "remove" => versions[r] \subseteq written
    /\ pc[r] = "auditDelete" /\ err[r] = 0 => versions[r] = {}
    /\ pc[r] \in {"remove", "auditDelete"} /\ err[r] = 0 =>
         \A v \in OldOf(r, pos[r]) \ versions[r] :
           Cardinality(NewerGone(v) \cup NewerListed(r, v)) >= PageSize

(* When every listing fits in one reply: the old versions of its key are     *)
(* those it still has on its list.                                           *)
RemovalComplete ==
  \A r \in Requests :
    /\ pc[r] = "remove" /\ err[r] = 0 => OldOf(r, pos[r]) \subseteq versions[r]
    /\ pc[r] = "auditDelete" /\ err[r] = 0 => OldOf(r, pos[r]) = {}

(* While a deletion or a look at the details is to report that its key was    *)
(* not found, no old version of it is there.                                 *)
MissingOK ==
  \A r \in Requests :
    pc[r] \in {"auditDelete", "auditDetails"} /\ err[r] = 404 => OldOf(r, pos[r]) = {}

(* A request whose id is its own has no record yet for the items to come. *)
UnauditedOK ==
  ReuseIds = FALSE =>
    \A r \in Requests :
      /\ req[r].id = r
      /\ pc[r] \notin Finished =>
           \A p \in pos[r] .. MaxItems : audit[<<r, p>>].kind = "NONE"

HandlerInv ==
  ErrOK /\ VidsOK /\ WritersOK /\ OnceOK /\ SaveOK /\ FreshOK /\ UnauditedOK

(* Every listing fits in one reply. *)
OnePage == \A k \in Keys : Cardinality(Matching(k)) <= PageSize

=============================================================================
