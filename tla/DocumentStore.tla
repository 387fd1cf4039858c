--------------------------- MODULE DocumentStore ---------------------------
(***************************************************************************)
(* The request handlers of the Secure Document Storage API (SDS) over the  *)
(* two stores they share: one client's versioned S3 bucket and the         *)
(* DynamoDB audit table.                                                   *)
(*                                                                         *)
(* POST /save_file, PUT /save_or_update_file and PUT /bulk_upload run      *)
(* handle_file_upload_logic once per file; DELETE /delete_files runs       *)
(* delete_all_file_versions once per key; GET /get_file and                *)
(* GET /get_file_details read.  Every call a handler makes to S3 or to     *)
(* DynamoDB is one step, because the service is deployed as several        *)
(* replicas (deployments/kubernetes/deployment.yml) and the handlers of    *)
(* different replicas interleave at those calls.  A request is past        *)
(* authentication and has its ClientConfig when it "arrives".              *)
(***************************************************************************)
EXTENDS Integers, Sequences, FiniteSets

CONSTANTS
  Requests,   \* request slots, each used once
  Keys,       \* object keys (folder and file name joined)
  Longer,     \* pairs <<j, k>>: the text of key j starts with k and goes on
  Seed,       \* keys written before the run, oldest version first
  Ops,        \* the endpoints clients call
  MaxItems,   \* bound on the files or keys of one request
  PageSize,   \* versions in one ListObjectVersions reply (1000 on S3)
  Faults,     \* the failures the environment may inject, see FaultKinds
  ReuseIds,   \* may a client send the X-Request-ID of another request?
  Earlier,    \* the writer of the seeded versions
  NoKey       \* no key (or file) given in the request

AllOps == {"post", "put", "bulk", "delete", "get", "details"}

FaultKinds ==
  { "checks",       \* a file check raises instead of returning a status
    "s3",           \* an S3 call raises and has no effect
    "unreachable",  \* an S3 call of get_file raises something else than ClientError
    "audit",        \* the DynamoDB put raises and has no effect
    "lost",         \* a put or delete takes effect and its reply is lost
    "gap",          \* a listed version comes without its VersionId
    "crash" }       \* the replica dies

ASSUME OpsAssumption      == Ops \subseteq AllOps
ASSUME FaultsAssumption   == Faults \subseteq FaultKinds
ASSUME KeysAssumption     == NoKey \notin Keys
ASSUME LongerAssumption   == /\ Longer \subseteq Keys \X Keys
                             /\ \A k \in Keys : <<k, k>> \notin Longer
ASSUME SeedAssumption     == Seed \in Seq(Keys)
ASSUME BoundsAssumption   == MaxItems \in Nat /\ MaxItems > 0
ASSUME PageAssumption     == PageSize \in Nat /\ PageSize > 0
ASSUME ReuseAssumption    == ReuseIds \in BOOLEAN
ASSUME EarlierAssumption  == Earlier \notin Requests

VARIABLES
  bucket,     \* object versions now in the bucket
  nextVid,    \* version ids are handed out in order
  audit,      \* audit table: <<request id, filename position>> -> record
  pc,         \* next step of each request's handler
  req,        \* what each request asks for
  pos,        \* item being handled, 1-based (filename_position + 1)
  existed,    \* file_existed of the upload handler
  err,        \* error_status[0], 0 when error_status is empty
  versions,   \* versions listed and not yet dealt with (delete), or shown (details)
  outcome,    \* status of each item settled so far
  response,   \* HTTP status sent, 0 before
  written,    \* history: every version ever put
  began       \* history: nextVid when the request arrived

store    == <<bucket, nextVid, written>>
handling == <<pos, existed, err, outcome, response>>
vars     == <<bucket, nextVid, audit, pc, req, pos, existed, err, versions,
              outcome, response, written, began>>

-----------------------------------------------------------------------------
(* Data *)

Uploads   == {"post", "put", "bulk"}
Slots     == Requests \X (1 .. MaxItems)
Kinds     == {"CREATE", "UPDATE", "READ", "INFO", "DELETE", "FAILED"}
Version   == [key : Keys, vid : Nat, by : Requests \cup {Earlier}, pos : Nat]
Record    == [key : Keys \cup {NoKey}, kind : Kinds \cup {"NONE"}]
Request   == [op : AllOps \cup {"none"}, keys : Seq(Keys \cup {NoKey}), id : Requests]
Codes     == {200, 201, 204, 400, 403, 404, 409, 500}
NoRecord  == [key |-> NoKey, kind |-> "NONE"]

Finished  == {"done", "crashed"}
ItemSteps == {"checks", "exists", "save", "auditUpload", "list", "remove",
              "auditDelete", "url", "auditRead", "details", "auditDetails"}
Labels    == {"idle", "collection", "authorise"} \cup ItemSteps \cup Finished

(* What a request of each kind can list: bulk_upload needs a file, the      *)
(* single-item endpoints let their item be missing.                         *)
KeyLists(op) ==
  CASE op = "bulk"   -> UNION {[1 .. n -> Keys] : n \in 1 .. MaxItems}
    [] op = "delete" -> UNION {[1 .. n -> Keys] : n \in 0 .. MaxItems}
    [] OTHER         -> [1 .. 1 -> Keys \cup {NoKey}]

(* First step of a request, and of each of its items. *)
Entry(op) ==
  CASE op \in {"post", "put"} -> "checks"
    [] op = "bulk"            -> "collection"
    [] op = "delete"          -> "authorise"
    [] op = "get"             -> "url"
    [] op = "details"         -> "details"

ItemEntry(op) ==
  CASE op \in Uploads -> "checks"
    [] op = "delete"  -> "list"
    [] op = "get"     -> "url"
    [] op = "details" -> "details"

Current(r) == req[r].keys[pos[r]]

-----------------------------------------------------------------------------
(* The bucket *)

(* HeadObject finds a key when it has a version: SDS deletes versions by id, *)
(* so the bucket holds no delete markers.                                    *)
HoldsKey(k) == \E v \in bucket : v.key = k

(* ListObjectVersions is called with the key as Prefix. *)
Matching(k) == {v \in bucket : v.key = k \/ <<v.key, k>> \in Longer}

(* S3 lists keys in text order, so the prefix itself first, and the versions *)
(* of a key newest first.  How the longer keys are ordered among themselves  *)
(* is not used: only the versions of k itself can be deleted.                *)
ListedBefore(k, v, w) ==
  IF v.key = k THEN w.key = k => v.vid > w.vid
               ELSE w.key # k /\ v.vid > w.vid

(* One reply holds PageSize versions and the code asks for no second one. *)
ListingMissesNewest(k) ==
  {v \in Matching(k) : \E w \in Matching(k) : w # v /\ ListedBefore(k, w, v)}
Listing(k) ==
  {v \in Matching(k) :
     Cardinality({w \in Matching(k) : w # v /\ ListedBefore(k, w, v)}) < PageSize}

(* DeleteObject(Key = k, VersionId = v.vid): a pair that names no version is *)
(* answered with success and removes nothing.                                *)
AfterDeleteOfListed(k, v) == bucket \ {v}
AfterDelete(k, v) == {w \in bucket : w.key # k \/ w.vid # v.vid}

(* PutObject of the current item adds a version. *)
Put(r) ==
  LET new == [key |-> Current(r), vid |-> nextVid, by |-> r, pos |-> pos[r]]
  IN  /\ bucket'  = bucket \cup {new}
      /\ written' = written \cup {new}
      /\ nextVid' = nextVid + 1

(* The audit table: put_item overwrites the record under the same key. *)
PositionForgotten(r) == <<req[r].id, 1>>
SlotOf(r) == <<req[r].id, pos[r]>>

KindAsAsked(asked, status) == asked
KindOf(asked, status) == IF status = 0 THEN asked ELSE "FAILED"

Recorded(r, asked) ==
  [audit EXCEPT ![SlotOf(r)] =
     [key |-> Current(r), kind |-> KindOf(asked, err[r])]]

-----------------------------------------------------------------------------
(* Control of a handler *)

Goto(r, label) == pc' = [pc EXCEPT ![r] = label]

Fail(r, status) == err' = [err EXCEPT ![r] = status]

(* The handler sends its answer without handling an item. *)
Answer(r, code) ==
  /\ response' = [response EXCEPT ![r] = code]
  /\ Goto(r, "done")
  /\ UNCHANGED <<store, audit, req, pos, existed, err, versions, outcome, began>>

(* One item is over with this status: the next one starts with fresh locals, *)
(* or the answer is sent.  The answer of the list endpoints is 200 whatever   *)
(* the items' statuses are; the others answer with the status itself.        *)
AnswerOf(op, code) == IF op \in {"bulk", "delete"} THEN 200 ELSE code

Settle(r, code) ==
  /\ outcome' = [outcome EXCEPT ![r] = Append(@, code)]
  /\ existed' = [existed EXCEPT ![r] = FALSE]
  /\ err' = [err EXCEPT ![r] = 0]
  /\ IF pos[r] < Len(req[r].keys)
     THEN /\ pos' = [pos EXCEPT ![r] = @ + 1]
          /\ Goto(r, ItemEntry(req[r].op))
          /\ UNCHANGED response
     ELSE /\ response' = [response EXCEPT ![r] = AnswerOf(req[r].op, code)]
          /\ Goto(r, "done")
          /\ UNCHANGED pos
  /\ UNCHANGED <<req, began>>

-----------------------------------------------------------------------------
(* A request arrives.  CorrelationIdMiddleware gives it an id of its own     *)
(* unless the client sent one.                                               *)
Ids(r) == IF ReuseIds THEN Requests ELSE {r}

Arrive(r) ==
  /\ pc[r] = "idle"
  /\ \E op \in Ops : \E keys \in KeyLists(op), id \in Ids(r) :
       /\ req' = [req EXCEPT ![r] = [op |-> op, keys |-> keys, id |-> id]]
       /\ Goto(r, Entry(op))
  /\ began' = [began EXCEPT ![r] = nextVid]
  /\ UNCHANGED <<store, audit, handling, versions>>

(* bulk_upload: validate_file_collection rejects the request as a whole. *)
CollectionChecks(r) ==
  /\ pc[r] = "collection"
  /\ \/ /\ Goto(r, "checks")
        /\ UNCHANGED <<store, audit, req, handling, versions, began>>
     \/ Answer(r, 400)
     \/ /\ "checks" \in Faults
        /\ Answer(r, 500)

(* run_initial_file_checks: headers, mandatory validators with the virus     *)
(* scan, client validators, checksum (module ValidationPipeline); 400 stands  *)
(* for every 4xx of theirs.  A missing file never passes.  An                 *)
(* exception is not caught here: the item fails with no audit record.        *)
Checks(r) ==
  /\ pc[r] = "checks"
  /\ \/ /\ Current(r) # NoKey
        /\ Goto(r, "exists")
        /\ UNCHANGED <<store, audit, req, handling, versions, began>>
     \/ /\ \E status \in {400, 500} : Fail(r, status)
        /\ Goto(r, "auditUpload")
        /\ UNCHANGED <<store, audit, req, pos, existed, outcome, response, versions, began>>
     \/ /\ "checks" \in Faults
        /\ Settle(r, 500)
        /\ UNCHANGED <<store, audit, versions>>

(* file_exists, and the refusal of a POST of an existing key.  The call is   *)
(* outside every try: when S3 fails the item fails with no audit record.     *)
Conflicts(r) == req[r].op = "post" /\ HoldsKey(Current(r))

SavesAnyway(r) == "save"
AfterCheck(r) == IF Conflicts(r) THEN "auditUpload" ELSE "save"

CheckExists(r) ==
  /\ pc[r] = "exists"
  /\ \/ /\ existed' = [existed EXCEPT ![r] = HoldsKey(Current(r))]
        /\ Fail(r, IF Conflicts(r) THEN 409 ELSE 0)
        /\ Goto(r, AfterCheck(r))
        /\ UNCHANGED <<store, audit, req, pos, outcome, response, versions, began>>
     \/ /\ "s3" \in Faults
        /\ Settle(r, 500)
        /\ UNCHANGED <<store, audit, versions>>

(* s3_service.save: any exception becomes status 500, and the version may    *)
(* have been stored all the same.  One call is one put: that boto3 may send  *)
(* it again by itself, and store a version more, is left out.                *)
SaveErrorDropped(r) == err[r]
SaveError(r) == 500

Save(r) ==
  /\ pc[r] = "save"
  /\ \/ Put(r) /\ UNCHANGED err
     \/ "s3" \in Faults /\ Fail(r, SaveError(r)) /\ UNCHANGED store
     \/ "lost" \in Faults /\ Fail(r, SaveError(r)) /\ Put(r)
  /\ Goto(r, "auditUpload")
  /\ UNCHANGED <<audit, req, pos, existed, outcome, response, versions, began>>

(* The audit record of an upload, then the item's status.  When the table    *)
(* cannot be written the status is 500, whatever happened to the file.       *)
UploadStatusUnrecorded(r, recorded) ==
  IF err[r] # 0 THEN err[r] ELSE IF existed[r] THEN 200 ELSE 201
UploadStatusNeverUpdated(r, recorded) ==
  IF ~recorded THEN 500 ELSE IF err[r] # 0 THEN err[r] ELSE 201
UploadStatus(r, recorded) ==
  IF ~recorded THEN 500
  ELSE IF err[r] # 0 THEN err[r]
  ELSE IF existed[r] THEN 200 ELSE 201

UploadKind(r) == IF existed[r] THEN "UPDATE" ELSE "CREATE"

AuditUpload(r) ==
  /\ pc[r] = "auditUpload"
  /\ \/ audit' = Recorded(r, UploadKind(r)) /\ Settle(r, UploadStatus(r, TRUE))
     \/ "audit" \in Faults /\ UNCHANGED audit /\ Settle(r, UploadStatus(r, FALSE))
     \/ /\ "lost" \in Faults
        /\ audit' = Recorded(r, UploadKind(r))
        /\ Settle(r, UploadStatus(r, FALSE))
  /\ UNCHANGED <<store, versions>>

-----------------------------------------------------------------------------
(* DELETE /delete_files: no keys is a bad request, then the permission to    *)
(* delete is asked of the policy once for the request.                       *)
Authorise(r) ==
  /\ pc[r] = "authorise"
  /\ \/ req[r].keys = <<>> /\ Answer(r, 400)
     \/ req[r].keys # <<>> /\ Answer(r, 403)
     \/ /\ req[r].keys # <<>>
        /\ Goto(r, "list")
        /\ UNCHANGED <<store, audit, req, handling, versions, began>>

(* delete_all_file_versions, the listing. *)
ListVersions(r) ==
  /\ pc[r] = "list"
  /\ \/ /\ Listing(Current(r)) # {}
        /\ versions' = [versions EXCEPT ![r] = Listing(Current(r))]
        /\ Goto(r, "remove")
        /\ UNCHANGED err
     \/ /\ Listing(Current(r)) = {}
        /\ Fail(r, 404) /\ Goto(r, "auditDelete")
        /\ UNCHANGED versions
     \/ /\ "s3" \in Faults
        /\ Fail(r, 500) /\ Goto(r, "auditDelete")
        /\ UNCHANGED versions
  /\ UNCHANGED <<store, audit, req, pos, existed, outcome, response, began>>

(* delete_all_file_versions, one turn of the loop over the listing, in the   *)
(* listing's order.  A failed delete is remembered and the loop goes on; a   *)
(* version without an id ends it.                                            *)
ErrForgotten(r, removed) == IF removed THEN 0 ELSE 500
ErrAfter(r, removed) == IF removed THEN err[r] ELSE 500

AfterTurnUntilGone(r, left) ==
  IF left # {} THEN "remove" ELSE IF err'[r] = 0 THEN "auditDelete" ELSE "list"
AfterTurn(r, left) == IF left # {} THEN "remove" ELSE "auditDelete"

DeleteVersion(r) ==
  /\ pc[r] = "remove"
  /\ \E v \in versions[r] :
       /\ \A w \in versions[r] \ {v} : ListedBefore(Current(r), v, w)
       /\ \/ /\ bucket' = AfterDelete(Current(r), v)
             /\ Fail(r, ErrAfter(r, TRUE))
             /\ versions' = [versions EXCEPT ![r] = versions[r] \ {v}]
          \/ /\ "s3" \in Faults
             /\ Fail(r, ErrAfter(r, FALSE))
             /\ versions' = [versions EXCEPT ![r] = versions[r] \ {v}]
             /\ UNCHANGED bucket
          \/ /\ "lost" \in Faults
             /\ bucket' = AfterDelete(Current(r), v)
             /\ Fail(r, ErrAfter(r, FALSE))
             /\ versions' = [versions EXCEPT ![r] = versions[r] \ {v}]
          \/ /\ "gap" \in Faults
             /\ Fail(r, 500)
             /\ versions' = [versions EXCEPT ![r] = {}]
             /\ UNCHANGED bucket
  /\ Goto(r, AfterTurn(r, versions'[r]))
  /\ UNCHANGED <<nextVid, written, audit, req, pos, existed, outcome, response, began>>

(* The audit record of a deletion.  The item's status is taken before it, so *)
(* a failure to write it changes nothing in the answer.                      *)
DeleteStatusRaw(r) == err[r]
DeleteStatus(r) == IF err[r] = 0 THEN 204 ELSE err[r]

AuditDelete(r) ==
  /\ pc[r] = "auditDelete"
  /\ Settle(r, DeleteStatus(r))
  /\ \/ audit' = Recorded(r, "DELETE")
     \/ "audit" \in Faults /\ UNCHANGED audit
  /\ UNCHANGED <<store, versions>>

-----------------------------------------------------------------------------
(* GET /get_file: a link to the key if HeadObject finds it.  Any exception   *)
(* but ClientError is swallowed by generate_file_url, whose None reads as    *)
(* "not found".                                                              *)
UrlStatus(r) ==
  IF Current(r) = NoKey THEN 400 ELSE IF HoldsKey(Current(r)) THEN 0 ELSE 404

MakeUrl(r) ==
  /\ pc[r] = "url"
  /\ \/ Fail(r, UrlStatus(r))
     \/ "s3" \in Faults /\ Current(r) # NoKey /\ Fail(r, 500)
     \/ "unreachable" \in Faults /\ Current(r) # NoKey /\ Fail(r, 404)
  /\ Goto(r, "auditRead")
  /\ UNCHANGED <<store, audit, req, pos, existed, outcome, response, versions, began>>

(* A read is answered only if it could be recorded. *)
ReadStatus(r, recorded) ==
  IF ~recorded THEN 500 ELSE IF err[r] = 0 THEN 200 ELSE err[r]

RecordRead(r, kind) ==
  /\ \/ audit' = Recorded(r, kind) /\ Settle(r, ReadStatus(r, TRUE))
     \/ "audit" \in Faults /\ UNCHANGED audit /\ Settle(r, ReadStatus(r, FALSE))
     \/ /\ "lost" \in Faults
        /\ audit' = Recorded(r, kind)
        /\ Settle(r, ReadStatus(r, FALSE))
  /\ UNCHANGED <<store, versions>>

AuditRead(r) == pc[r] = "auditRead" /\ RecordRead(r, "READ")

(* GET /get_file_details: the listing is shown as it is.  Neither call is in *)
(* a try, so a failure of S3 escapes before anything is recorded.            *)
ShowDetails(r) ==
  /\ pc[r] = "details"
  /\ \/ /\ Current(r) = NoKey
        /\ Fail(r, 400) /\ Goto(r, "auditDetails")
        /\ UNCHANGED <<store, audit, req, pos, existed, outcome, response, versions, began>>
     \/ /\ Current(r) # NoKey
        /\ Fail(r, IF Listing(Current(r)) = {} THEN 404 ELSE 0)
        /\ versions' = [versions EXCEPT ![r] = Listing(Current(r))]
        /\ Goto(r, "auditDetails")
        /\ UNCHANGED <<store, audit, req, pos, existed, outcome, response, began>>
     \/ /\ "s3" \in Faults /\ Current(r) # NoKey
        /\ Settle(r, 500)
        /\ UNCHANGED <<store, audit, versions>>

AuditDetails(r) == pc[r] = "auditDetails" /\ RecordRead(r, "INFO")

-----------------------------------------------------------------------------
(* The replica running the handler dies: its locals are lost, the stores are *)
(* not, and the client gets no answer.                                       *)
Crash(r) ==
  /\ "crash" \in Faults
  /\ pc[r] \notin {"idle"} \cup Finished
  /\ Goto(r, "crashed")
  /\ UNCHANGED <<store, audit, req, handling, versions, began>>

(* Every request has been dealt with: the service idles. *)
Quiesce ==
  /\ \A r \in Requests : pc[r] \in Finished
  /\ UNCHANGED vars

Seeded ==
  {[key |-> Seed[i], vid |-> i, by |-> Earlier, pos |-> 1] : i \in 1 .. Len(Seed)}

Init ==
  /\ bucket = Seeded
  /\ written = Seeded
  /\ nextVid = Len(Seed) + 1
  /\ audit = [s \in Slots |-> NoRecord]
  /\ pc = [r \in Requests |-> "idle"]
  /\ req = [r \in Requests |-> [op |-> "none", keys |-> <<>>, id |-> r]]
  /\ pos = [r \in Requests |-> 1]
  /\ existed = [r \in Requests |-> FALSE]
  /\ err = [r \in Requests |-> 0]
  /\ versions = [r \in Requests |-> {}]
  /\ outcome = [r \in Requests |-> <<>>]
  /\ response = [r \in Requests |-> 0]
  /\ began = [r \in Requests |-> 0]

Step(r) ==
  \/ CollectionChecks(r)
  \/ Checks(r)
  \/ CheckExists(r)
  \/ Save(r)
  \/ AuditUpload(r)
  \/ Authorise(r)
  \/ ListVersions(r)
  \/ DeleteVersion(r)
  \/ AuditDelete(r)
  \/ MakeUrl(r)
  \/ AuditRead(r)
  \/ ShowDetails(r)
  \/ AuditDetails(r)

Next ==
  \/ \E r \in Requests : Arrive(r) \/ Step(r) \/ Crash(r)
  \/ Quiesce

Spec == Init /\ [][Next]_vars

-----------------------------------------------------------------------------
(* Properties *)

(* Every variable keeps its type: a settled item has a status of the API, an *)
(* audit record belongs to a slot of the table.                              *)
TypeOK ==
  /\ bucket \subseteq Version
  /\ written \subseteq Version
  /\ nextVid \in Nat
  /\ audit \in [Slots -> Record]
  /\ pc \in [Requests -> Labels]
  /\ req \in [Requests -> Request]
  /\ pos \in [Requests -> 1 .. MaxItems]
  /\ existed \in [Requests -> BOOLEAN]
  /\ err \in [Requests -> Codes \cup {0}]
  /\ versions \in [Requests -> SUBSET Version]
  /\ outcome \in [Requests -> Seq(Codes)]
  /\ response \in [Requests -> Codes \cup {0}]
  /\ began \in [Requests -> Nat]

(* Item p of request r has been settled with this status. *)
Settled(r, p, code) == p \in DOMAIN outcome[r] /\ outcome[r][p] = code

Active(r) == pc[r] # "idle"

(* No other request carries r's correlation id. *)
Sole(r) == \A s \in Requests \ {r} : Active(s) => req[s].id # req[r].id

(* The audit record an item with this status should have left. *)
KindFor(op, code) ==
  CASE code = 200 /\ op \in Uploads   -> "UPDATE"
    [] code = 200 /\ op = "get"       -> "READ"
    [] code = 200 /\ op = "details"   -> "INFO"
    [] code = 201                     -> "CREATE"
    [] OTHER                          -> "FAILED"

(* Nothing happens unrecorded: an upload or a read whose status is not 500   *)
(* has its record in the audit table, under the request's id and the item's  *)
(* position, naming the item's key and what really happened to it            *)
(* (file_upload_handler.py:59-75, retrieve_file.py:48-62).                   *)
SettledIsAudited ==
  \A r \in Requests : \A p \in DOMAIN outcome[r] :
    (req[r].op # "delete" /\ outcome[r][p] # 500 /\ Sole(r)) =>
      audit[<<req[r].id, p>>] =
        [key |-> req[r].keys[p], kind |-> KindFor(req[r].op, outcome[r][p])]

(* The audit table never claims a save that did not happen: a CREATE or      *)
(* UPDATE record stands for a version that was put for this key at this      *)
(* position by a request with this id (file_upload_handler.py:47-67).        *)
AuditNeverInventsSaves ==
  \A s \in Slots :
    audit[s].kind \in {"CREATE", "UPDATE"} =>
      \E v \in written :
        v.key = audit[s].key /\ v.pos = s[2] /\ v.by # Earlier /\ req[v.by].id = s[1]

(* An upload reported as saved or updated put a version of its key. *)
SavedMeansStored ==
  \A r \in Requests : \A p \in DOMAIN outcome[r] :
    outcome[r][p] \in {200, 201} /\ req[r].op \in Uploads =>
      \E v \in written : v.by = r /\ v.pos = p /\ v.key = req[r].keys[p]

(* An upload refused by a validator (400) or as a conflict (409) put nothing, *)
(* also when the refusal had to survive the audit step.                       *)
RefusedMeansUnstored ==
  \A v \in written : v.by # Earlier =>
    ~(Settled(v.by, v.pos, 400) \/ Settled(v.by, v.pos, 409))

(* An upload reported as 201 created is new as far as one request can know:  *)
(* of the versions of its key still in the bucket none was there before the  *)
(* request arrived, and none was put by an earlier item of the same request  *)
(* (the check and the put are two calls: file_upload_handler.py:42,50).      *)
CreatedIsNew ==
  \A r \in Requests : \A p \in DOMAIN outcome[r] :
    outcome[r][p] = 201 =>
      \A v \in bucket : v.key = req[r].keys[p] =>
        v.vid >= began[r] /\ (v.by = r => v.pos >= p)

(* A deletion takes the newest versions: when a key was reported as deleted   *)
(* (204) and a version older than the request is still there, a whole reply   *)
(* of newer versions of that key is gone.  So nothing is left when one reply  *)
(* listed everything, whatever else put or deleted versions meanwhile and     *)
(* whichever of the single deletes failed (delete_files.py:71-101).           *)
NewerGone(v) == {w \in written \ bucket : w.key = v.key /\ w.vid > v.vid}

LeftOversAreOlder ==
  \A r \in Requests : \A p \in DOMAIN outcome[r] :
    outcome[r][p] = 204 =>
      \A v \in bucket : v.key = req[r].keys[p] /\ v.vid < began[r] =>
        Cardinality(NewerGone(v)) >= PageSize

(* Nothing vanishes: a version that was put is in the bucket unless some     *)
(* delete request named exactly its key.  Listing by prefix (                *)
(* s3_service.py:111-119) must not take the longer keys along.               *)
NothingVanishes ==
  \A v \in written \ bucket :
    \E r \in Requests :
      req[r].op = "delete" /\ \E p \in DOMAIN req[r].keys : req[r].keys[p] = v.key

(* 404 is the truth where it comes from a listing: when a deletion or a       *)
(* request for details reports that a key was not found, no version older     *)
(* than the request is in the bucket, however long the listing was            *)
(* (delete_files.py:82-85, file_details.py:36-38).                            *)
NotListedIsTrue ==
  \A r \in Requests : \A p \in DOMAIN outcome[r] :
    req[r].op \in {"delete", "details"} /\ outcome[r][p] = 404 =>
      \A v \in bucket : v.key = req[r].keys[p] => v.vid >= began[r]

(* The audit table only grows: no later step changes a record that is there, *)
(* in particular not the next file of the same bulk request, which shares    *)
(* its request id (audit_record.py:19-20).                                   *)
AuditIsAppendOnly ==
  [][\A s \in Slots : audit[s].kind # "NONE" => audit'[s] = audit[s]]_vars

-----------------------------------------------------------------------------
(* What the repository says of the endpoints and the code does not keep.     *)

(* save_file.py:27 "Saves a new file, ensuring no existing files are         *)
(* overwritten": a POST answered 201 put no version over another one.        *)
PostNeverOverwrites ==
  \A r \in Requests : req[r].op = "post" /\ response[r] = 201 =>
    \A v, w \in bucket : v.by = r /\ w.key = v.key => w.vid >= v.vid

(* delete_files.py:28 "204 if all versions of file found and deleted": a key *)
(* reported as deleted has no version left that was there when the request   *)
(* arrived.                                                                  *)
DeletedMeansGone ==
  \A r \in Requests : \A p \in DOMAIN outcome[r] :
    outcome[r][p] = 204 =>
      \A v \in bucket : v.key = req[r].keys[p] => v.vid >= began[r]

=============================================================================
