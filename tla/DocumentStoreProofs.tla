------------------------ MODULE DocumentStoreProofs ------------------------
(***************************************************************************)
(* Types and the inductive invariant of DocumentStore, for every set of    *)
(* requests, keys and faults and every bound.  First the types, one lemma  *)
(* per action.  Then each step of the system is put into one of five       *)
(* classes by what it does to the stores and to the handler (StepClasses); *)
(* the inductive invariants are shown to survive each class.               *)
(***************************************************************************)
EXTENDS DocumentStoreInvariants, TLAPS

(* The key an item is about is one of the request's keys. *)
LEMMA CurrentType ==
  ASSUME TypeInv, NEW r \in Requests, pc[r] \in ItemSteps
  PROVE  /\ pos[r] \in DOMAIN req[r].keys
         /\ Current(r) \in Keys \cup {NoKey}
         /\ SlotOf(r) \in Slots
<1>1. req[r] \in Request /\ pos[r] \in 1 .. MaxItems
  BY DEF TypeInv, TypeOK
<1>2. pos[r] <= Len(req[r].keys)
  BY DEF TypeInv, ItemOK
<1>3. req[r].keys \in Seq(Keys \cup {NoKey}) /\ req[r].id \in Requests
  BY <1>1 DEF Request
<1> QED
  BY <1>1, <1>2, <1>3 DEF Current, SlotOf, Slots

(* A listing is a set of versions. *)
LEMMA ListingType ==
  ASSUME TypeInv, NEW k
  PROVE  Listing(k) \subseteq bucket /\ Listing(k) \subseteq Version
BY DEF TypeInv, TypeOK, Listing, Matching

(* Recording keeps the audit table's type. *)
LEMMA RecordedType ==
  ASSUME TypeInv, NEW r \in Requests, pc[r] \in ItemSteps, NEW asked \in Kinds
  PROVE  Recorded(r, asked) \in [Slots -> Record]
<1>1. SlotOf(r) \in Slots /\ Current(r) \in Keys \cup {NoKey}
  BY CurrentType
<1>2. KindOf(asked, err[r]) \in Kinds
  BY DEF KindOf, Kinds
<1>3. audit \in [Slots -> Record]
  BY DEF TypeInv, TypeOK
<1> QED
  BY <1>1, <1>2, <1>3 DEF Recorded, Record

(* Settling an item keeps the types of what it writes, and the handler's    *)
(* place.                                                                   *)
LEMMA SettleType ==
  ASSUME TypeInv, NEW r \in Requests, NEW code \in Codes,
         pc[r] \in ItemSteps, Settle(r, code)
  PROVE  /\ pc' \in [Requests -> Labels]
         /\ req' \in [Requests -> Request]
         /\ pos' \in [Requests -> 1 .. MaxItems]
         /\ existed' \in [Requests -> BOOLEAN]
         /\ err' \in [Requests -> Codes \cup {0}]
         /\ outcome' \in [Requests -> Seq(Codes)]
         /\ response' \in [Requests -> Codes \cup {0}]
         /\ began' \in [Requests -> Nat]
         /\ ItemOK'
<1> USE DEF TypeInv, TypeOK
<1>1. req' = req /\ began' = began
  BY DEF Settle
<1>2. /\ existed' \in [Requests -> BOOLEAN]
      /\ err' \in [Requests -> Codes \cup {0}]
      /\ outcome' \in [Requests -> Seq(Codes)]
      /\ Len(outcome'[r]) = Len(outcome[r]) + 1
      /\ \A s \in Requests \ {r} : outcome'[s] = outcome[s]
  BY DEF Settle
<1>3. AnswerOf(req[r].op, code) \in Codes
  BY DEF AnswerOf, Codes
<1>4. req[r].op \in AllOps
  BY DEF ItemOK, ItemSteps
<1>5. /\ ItemEntry(req[r].op) \in Labels
      /\ ItemEntry(req[r].op) \in {"checks", "list", "url", "details"}
      /\ ItemEntry(req[r].op) = "checks" => req[r].op \in Uploads
      /\ ItemEntry(req[r].op) = "list" => req[r].op = "delete"
      /\ ItemEntry(req[r].op) = "url" => req[r].op = "get"
      /\ ItemEntry(req[r].op) = "details" => req[r].op = "details"
  BY <1>4 DEF ItemEntry, AllOps, Uploads, Labels, ItemSteps
<1>6. /\ pos[r] <= Len(req[r].keys) /\ Len(outcome[r]) + 1 = pos[r]
      /\ Len(req[r].keys) <= MaxItems /\ Len(req[r].keys) \in Nat
  <2>1. pc[r] \notin Finished
    BY DEF ItemSteps, Finished
  <2>2. req[r].keys \in Seq(Keys \cup {NoKey})
    BY DEF Request
  <2> QED
    BY <2>1, <2>2 DEF ItemOK
<1>7. CASE pos[r] < Len(req[r].keys)
  <2>1. /\ pos' = [pos EXCEPT ![r] = pos[r] + 1]
        /\ pc' = [pc EXCEPT ![r] = ItemEntry(req[r].op)]
        /\ response' = response
    BY <1>7 DEF Settle, Goto
  <2>2. pos'[r] \in 1 .. MaxItems
    BY <2>1, <1>6, <1>7, BoundsAssumption
  <2>3. ItemOK'
    BY <1>1, <1>2, <1>5, <1>6, <1>7, <2>1 DEF ItemOK, Finished, ItemSteps, Current
  <2> QED
    BY <1>1, <1>2, <1>5, <2>1, <2>2, <2>3
<1>8. CASE ~(pos[r] < Len(req[r].keys))
  <2>1. /\ pos' = pos
        /\ pc' = [pc EXCEPT ![r] = "done"]
        /\ response' = [response EXCEPT ![r] = AnswerOf(req[r].op, code)]
    BY <1>8 DEF Settle, Goto
  <2>2. ItemOK'
    BY <1>1, <1>2, <1>6, <2>1 DEF ItemOK, Finished, ItemSteps, Current
  <2> QED
    BY <1>1, <1>2, <1>3, <2>1, <2>2 DEF Labels, Finished
<1> QED
  BY <1>7, <1>8

(* Settling an item keeps the types, whatever else the step records. *)
LEMMA SettleStep ==
  ASSUME TypeInv, NEW r \in Requests, NEW code \in Codes,
         pc[r] \in ItemSteps, Settle(r, code),
         audit' \in [Slots -> Record], UNCHANGED <<store, versions>>
  PROVE  TypeInv'
<1>1. /\ bucket' = bucket /\ written' = written /\ nextVid' = nextVid
      /\ versions' = versions
  BY DEF store
<1>2. /\ bucket \subseteq Version /\ written \subseteq Version /\ nextVid \in Nat
      /\ versions \in [Requests -> SUBSET Version]
  BY DEF TypeInv, TypeOK
<1>3. /\ bucket' \subseteq Version /\ written' \subseteq Version /\ nextVid' \in Nat
      /\ versions' \in [Requests -> SUBSET Version]
  BY <1>1, <1>2
<1> QED
  BY <1>3, SettleType DEF TypeInv, TypeOK

(* What a handler raises or gives up with: 500. *)
LEMMA SettleFailed ==
  ASSUME TypeInv, NEW r \in Requests, pc[r] \in ItemSteps,
         Settle(r, 500), UNCHANGED <<store, audit, versions>>
  PROVE  TypeInv'
<1>1. 500 \in Codes
  BY DEF Codes
<1>2. audit' \in [Slots -> Record]
  BY DEF TypeInv, TypeOK
<1>3. UNCHANGED <<store, versions>>
  OBVIOUS
<1> QED
  BY <1>1, <1>2, <1>3, SettleStep

(* Initially, and whatever step is taken, the types are kept.  One lemma per *)
(* group of actions that write the same variables.                           *)
LEMMA InitType == Init => TypeInv
<1> SUFFICES ASSUME Init PROVE TypeInv
  OBVIOUS
<1>1. Seeded \subseteq Version
  BY SeedAssumption, BoundsAssumption DEF Seeded, Version
<1>2. Len(Seed) + 1 \in Nat
  BY SeedAssumption
<1>3. NoRecord \in Record
  BY DEF NoRecord, Record, Kinds
<1>4. \A r \in Requests :
        [op |-> "none", keys |-> <<>>, id |-> r] \in Request
  BY DEF Request
<1>5. TypeOK
  BY <1>1, <1>2, <1>3, <1>4, BoundsAssumption DEF Init, TypeOK, Labels, Codes
<1>6. ItemOK
  BY BoundsAssumption DEF Init, ItemOK, ItemSteps, Finished
<1> QED
  BY <1>5, <1>6 DEF TypeInv

LEMMA FiniteFunctionIsSeq ==
  ASSUME NEW S, NEW n \in Nat, NEW f \in [1 .. n -> S]
  PROVE  f \in Seq(S) /\ Len(f) = n
OBVIOUS

LEMMA KeyListsType ==
  ASSUME NEW op \in AllOps, NEW keys \in KeyLists(op)
  PROVE  /\ keys \in Seq(Keys \cup {NoKey})
         /\ Len(keys) \in 0 .. MaxItems
         /\ op # "delete" => Len(keys) >= 1
<1>1. CASE op = "bulk"
  BY <1>1, BoundsAssumption DEF KeyLists
<1>2. CASE op = "delete"
  BY <1>2, BoundsAssumption DEF KeyLists
<1>3. CASE op \notin {"bulk", "delete"}
  <2>1. KeyLists(op) = [1 .. 1 -> Keys \cup {NoKey}]
    BY <1>3 DEF KeyLists, AllOps
  <2>2. keys \in [1 .. 1 -> Keys \cup {NoKey}] /\ 1 \in Nat
    BY <2>1
  <2>3. keys \in Seq(Keys \cup {NoKey}) /\ Len(keys) = 1
    BY ONLY <2>2, FiniteFunctionIsSeq
  <2> QED
    BY <2>3, BoundsAssumption
<1> QED
  BY <1>1, <1>2, <1>3

LEMMA ArriveType ==
  ASSUME TypeInv, NEW r \in Requests, Arrive(r)
  PROVE  TypeInv'
<1>1. PICK op \in Ops : \E keys \in KeyLists(op), id \in Ids(r) :
        /\ req' = [req EXCEPT ![r] = [op |-> op, keys |-> keys, id |-> id]]
        /\ Goto(r, Entry(op))
  BY DEF Arrive
<1>2. PICK keys \in KeyLists(op), id \in Ids(r) :
        /\ req' = [req EXCEPT ![r] = [op |-> op, keys |-> keys, id |-> id]]
        /\ pc' = [pc EXCEPT ![r] = Entry(op)]
  BY <1>1 DEF Goto
<1>3. op \in AllOps /\ id \in Requests
  BY OpsAssumption DEF Ids
<1>4. /\ keys \in Seq(Keys \cup {NoKey})
      /\ Len(keys) \in 0 .. MaxItems
      /\ op # "delete" => Len(keys) >= 1
  BY <1>3, KeyListsType
<1>5. [op |-> op, keys |-> keys, id |-> id] \in Request
  BY <1>3, <1>4 DEF Request
<1>6. /\ Entry(op) \in Labels \ (Finished \cup {"idle"})
      /\ Entry(op) \notin {"exists", "save", "auditUpload", "list", "remove",
                          "auditDelete", "auditRead", "auditDetails"}
      /\ Entry(op) = "collection" => op = "bulk"
      /\ Entry(op) = "checks" => op \in Uploads
      /\ Entry(op) = "authorise" <=> op = "delete"
      /\ Entry(op) = "url" => op = "get"
      /\ Entry(op) = "details" => op = "details"
  BY <1>3 DEF Entry, AllOps, Uploads, Labels, ItemSteps, Finished
<1>7. pc[r] = "idle" /\ UNCHANGED <<store, audit, handling, versions>>
  BY DEF Arrive
<1>8. began' = [began EXCEPT ![r] = nextVid]
  BY DEF Arrive
<1>9. TypeOK'
  BY <1>2, <1>5, <1>6, <1>7, <1>8 DEF TypeInv, TypeOK, store, handling
<1>10. outcome[r] = <<>> /\ pos[r] = 1
  <2>1. outcome[r] = <<>>
    BY <1>7 DEF TypeInv, ItemOK
  <2>2. Len(outcome[r]) + 1 = pos[r]
    BY <1>7 DEF TypeInv, ItemOK, Finished
  <2> QED
    BY <2>1, <2>2
<1>11. ItemOK'
  BY <1>2, <1>3, <1>4, <1>6, <1>7, <1>10
     DEF TypeInv, TypeOK, ItemOK, handling, Current, ItemSteps
<1> QED
  BY <1>9, <1>11 DEF TypeInv

(* A step inside an item, or out of the request: only the label moves.       *)
Fits(r, l) ==
  /\ l \in Labels \ {"idle", "collection", "authorise"}
  /\ l \in ItemSteps => pos[r] <= Len(req[r].keys)
  /\ l \in {"checks", "exists", "save", "auditUpload"} => req[r].op \in Uploads
  /\ l \in {"exists", "save"} => Current(r) # NoKey
  /\ l \in {"list", "remove", "auditDelete"} => req[r].op = "delete"
  /\ l \in {"url", "auditRead"} => req[r].op = "get"
  /\ l \in {"details", "auditDetails"} => req[r].op = "details"

LEMMA MoveType ==
  ASSUME TypeInv, NEW r \in Requests, NEW l, Fits(r, l),
         pc[r] \notin Finished \cup {"idle"}, Goto(r, l), UNCHANGED <<req, pos, outcome>>
  PROVE  pc' \in [Requests -> Labels] /\ ItemOK'
<1>1. pc' = [pc EXCEPT ![r] = l] /\ req' = req /\ pos' = pos /\ outcome' = outcome
  BY DEF Goto
<1>2. pc' \in [Requests -> Labels]
  BY <1>1 DEF TypeInv, TypeOK, Fits
<1>3. req[r].op \in AllOps
  BY DEF TypeInv, ItemOK, Finished
<1>4. ItemOK'
  <2>1. ASSUME NEW s \in Requests
        PROVE  pc'[s] = IF s = r THEN l ELSE pc[s]
    BY <1>1 DEF TypeInv, TypeOK
  <2> QED
    BY <1>1, <1>3, <2>1 DEF TypeInv, ItemOK, Fits, Current
<1> QED
  BY <1>2, <1>4

LEMMA AnswerType ==
  ASSUME TypeInv, NEW r \in Requests, NEW code \in Codes,
         pc[r] \notin Finished \cup {"idle"}, Answer(r, code)
  PROVE  TypeInv'
<1>1. Fits(r, "done")
  BY DEF Fits, Labels, ItemSteps, Finished
<1>2. pc' \in [Requests -> Labels] /\ ItemOK'
  BY <1>1, MoveType DEF Answer
<1>3. TypeOK'
  BY <1>2 DEF Answer, TypeInv, TypeOK, store
<1> QED
  BY <1>2, <1>3 DEF TypeInv

LEMMA PutType ==
  ASSUME TypeInv, NEW r \in Requests, pc[r] = "save", Put(r)
  PROVE  bucket' \subseteq Version /\ written' \subseteq Version /\ nextVid' \in Nat
<1>1. Current(r) \in Keys
  BY CurrentType DEF TypeInv, ItemOK, ItemSteps
<1>2. pos[r] \in Nat /\ nextVid \in Nat
  BY BoundsAssumption DEF TypeInv, TypeOK
<1>3. [key |-> Current(r), vid |-> nextVid, by |-> r, pos |-> pos[r]] \in Version
  BY <1>1, <1>2 DEF Version
<1> QED
  BY <1>2, <1>3 DEF Put, TypeInv, TypeOK

LEMMA StatusTypes ==
  ASSUME TypeInv, NEW r \in Requests, NEW recorded \in BOOLEAN
  PROVE  /\ UploadStatus(r, recorded) \in Codes
         /\ ReadStatus(r, recorded) \in Codes
         /\ DeleteStatus(r) \in Codes
         /\ UploadKind(r) \in Kinds
         /\ UrlStatus(r) \in Codes \cup {0}
         /\ SaveError(r) \in Codes
         /\ ErrAfter(r, recorded) \in Codes \cup {0}
BY DEF TypeInv, TypeOK, UploadStatus, ReadStatus, DeleteStatus, UploadKind,
       UrlStatus, SaveError, ErrAfter, Codes, Kinds

LEMMA FailType ==
  ASSUME TypeInv, NEW r \in Requests, NEW status \in Codes \cup {0}, Fail(r, status)
  PROVE  err' \in [Requests -> Codes \cup {0}]
BY DEF Fail, TypeInv, TypeOK

LEMMA ListedType ==
  ASSUME TypeInv, NEW r \in Requests, NEW k,
         versions' \in {versions, [versions EXCEPT ![r] = Listing(k)]}
  PROVE  versions' \in [Requests -> SUBSET Version]
<1>1. Listing(k) \in SUBSET Version
  BY ListingType
<1>2. versions \in [Requests -> SUBSET Version]
  BY DEF TypeInv, TypeOK
<1> QED
  BY <1>1, <1>2

LEMMA CollectionChecksType ==
  ASSUME TypeInv, NEW r \in Requests, CollectionChecks(r)
  PROVE  TypeInv'
<1>0. pc[r] = "collection" /\ pc[r] \notin Finished \cup {"idle"}
  BY DEF CollectionChecks, Finished
<1>1. CASE Answer(r, 400) \/ Answer(r, 500)
  BY <1>0, <1>1, AnswerType DEF Codes
<1>2. CASE Goto(r, "checks") /\ UNCHANGED <<store, audit, req, handling, versions, began>>
  <2>1. Fits(r, "checks")
    BY <1>0 DEF Fits, TypeInv, ItemOK, Labels, ItemSteps, Uploads
  <2>2. pc' \in [Requests -> Labels] /\ ItemOK'
    BY <1>0, <1>2, <2>1, MoveType DEF handling
  <2> QED
    BY <1>2, <2>2 DEF TypeInv, TypeOK, store, handling
<1> QED
  BY <1>1, <1>2 DEF CollectionChecks

LEMMA ChecksType ==
  ASSUME TypeInv, NEW r \in Requests, Checks(r)
  PROVE  TypeInv'
<1>0. pc[r] = "checks" /\ pc[r] \in ItemSteps /\ pc[r] \notin Finished \cup {"idle"}
  BY DEF Checks, Finished, ItemSteps
<1>1. CASE /\ Current(r) # NoKey
           /\ Goto(r, "exists")
           /\ UNCHANGED <<store, audit, req, handling, versions, began>>
  <2>1. Fits(r, "exists")
    BY <1>0, <1>1 DEF Fits, TypeInv, ItemOK, Labels, ItemSteps
  <2>2. pc' \in [Requests -> Labels] /\ ItemOK'
    BY <1>0, <1>1, <2>1, MoveType DEF handling
  <2> QED
    BY <1>1, <2>2 DEF TypeInv, TypeOK, store, handling
<1>2. CASE /\ \E status \in {400, 500} : Fail(r, status)
           /\ Goto(r, "auditUpload")
           /\ UNCHANGED <<store, audit, req, pos, existed, outcome, response,
                          versions, began>>
  <2>1. Fits(r, "auditUpload")
    BY <1>0 DEF Fits, TypeInv, ItemOK, Labels, ItemSteps
  <2>2. pc' \in [Requests -> Labels] /\ ItemOK'
    BY <1>0, <1>2, <2>1, MoveType
  <2>3. err' \in [Requests -> Codes \cup {0}]
    BY <1>2, FailType DEF Codes
  <2> QED
    BY <1>2, <2>2, <2>3 DEF TypeInv, TypeOK, store
<1>3. CASE Settle(r, 500) /\ UNCHANGED <<store, audit, versions>>
  BY <1>0, <1>3, SettleFailed
<1> QED
  BY <1>1, <1>2, <1>3 DEF Checks

LEMMA CheckExistsType ==
  ASSUME TypeInv, NEW r \in Requests, CheckExists(r)
  PROVE  TypeInv'
<1>0. pc[r] = "exists" /\ pc[r] \in ItemSteps /\ pc[r] \notin Finished \cup {"idle"}
  BY DEF CheckExists, Finished, ItemSteps
<1>1. CASE /\ existed' = [existed EXCEPT ![r] = HoldsKey(Current(r))]
           /\ Fail(r, IF Conflicts(r) THEN 409 ELSE 0)
           /\ Goto(r, AfterCheck(r))
           /\ UNCHANGED <<store, audit, req, pos, outcome, response, versions, began>>
  <2>1. Fits(r, AfterCheck(r))
    BY <1>0 DEF Fits, AfterCheck, TypeInv, ItemOK, Labels, ItemSteps
  <2>2. pc' \in [Requests -> Labels] /\ ItemOK'
    BY <1>0, <1>1, <2>1, MoveType
  <2>3. HoldsKey(Current(r)) \in BOOLEAN
    BY DEF HoldsKey
  <2>4. err' \in [Requests -> Codes \cup {0}]
    BY <1>1, FailType DEF Codes
  <2> QED
    BY <1>1, <2>2, <2>3, <2>4 DEF TypeInv, TypeOK, store
<1>2. CASE Settle(r, 500) /\ UNCHANGED <<store, audit, versions>>
  BY <1>0, <1>2, SettleFailed
<1> QED
  BY <1>1, <1>2 DEF CheckExists

LEMMA SaveType ==
  ASSUME TypeInv, NEW r \in Requests, Save(r)
  PROVE  TypeInv'
<1>0. pc[r] = "save" /\ pc[r] \in ItemSteps /\ pc[r] \notin Finished \cup {"idle"}
  BY DEF Save, Finished, ItemSteps
<1>1. Fits(r, "auditUpload")
  BY <1>0 DEF Fits, TypeInv, ItemOK, Labels, ItemSteps
<1>2. pc' \in [Requests -> Labels] /\ ItemOK'
  BY <1>0, <1>1, MoveType DEF Save
<1>3. bucket' \subseteq Version /\ written' \subseteq Version /\ nextVid' \in Nat
  BY <1>0, PutType DEF Save, TypeInv, TypeOK, store
<1>4. err' \in [Requests -> Codes \cup {0}]
  BY StatusTypes DEF Save, Fail, TypeInv, TypeOK
<1> QED
  BY <1>2, <1>3, <1>4 DEF Save, TypeInv, TypeOK

LEMMA AuditUploadType ==
  ASSUME TypeInv, NEW r \in Requests, AuditUpload(r)
  PROVE  TypeInv'
<1>0. pc[r] = "auditUpload" /\ pc[r] \in ItemSteps
  BY DEF AuditUpload, ItemSteps
<1>1. UNCHANGED <<store, versions>>
  BY DEF AuditUpload
<1>2. audit' \in [Slots -> Record]
  <2>1. audit' = audit \/ audit' = Recorded(r, UploadKind(r))
    BY DEF AuditUpload
  <2>2. UploadKind(r) \in Kinds
    BY StatusTypes
  <2>3. Recorded(r, UploadKind(r)) \in [Slots -> Record]
    BY <1>0, <2>2, RecordedType
  <2> QED
    BY <2>1, <2>3 DEF TypeInv, TypeOK
<1>3. PICK recorded \in BOOLEAN : Settle(r, UploadStatus(r, recorded))
  BY DEF AuditUpload
<1> QED
  BY <1>0, <1>1, <1>2, <1>3, StatusTypes, SettleStep

LEMMA AuthoriseType ==
  ASSUME TypeInv, NEW r \in Requests, Authorise(r)
  PROVE  TypeInv'
<1>0. pc[r] = "authorise" /\ pc[r] \notin Finished \cup {"idle"}
  BY DEF Authorise, Finished
<1>1. CASE Answer(r, 400) \/ Answer(r, 403)
  BY <1>0, <1>1, AnswerType DEF Codes
<1>2. CASE /\ req[r].keys # <<>>
           /\ Goto(r, "list")
           /\ UNCHANGED <<store, audit, req, handling, versions, began>>
  <2>1. pos[r] <= Len(req[r].keys)
    <3>1. req[r].keys \in Seq(Keys \cup {NoKey})
      BY DEF TypeInv, TypeOK, Request
    <3>2. Len(req[r].keys) >= 1
      BY <1>2, <3>1
    <3>3. outcome[r] = <<>>
      BY <1>0 DEF TypeInv, ItemOK
    <3>4. Len(outcome[r]) + 1 = pos[r]
      BY <1>0 DEF TypeInv, ItemOK
    <3> QED
      BY <3>2, <3>3, <3>4
  <2>2. Fits(r, "list")
    BY <1>0, <2>1 DEF Fits, TypeInv, ItemOK, Labels, ItemSteps
  <2>3. pc' \in [Requests -> Labels] /\ ItemOK'
    BY <1>0, <1>2, <2>2, MoveType DEF handling
  <2> QED
    BY <1>2, <2>3 DEF TypeInv, TypeOK, store, handling
<1> QED
  BY <1>1, <1>2 DEF Authorise

LEMMA ListVersionsType ==
  ASSUME TypeInv, NEW r \in Requests, ListVersions(r)
  PROVE  TypeInv'
<1>0. pc[r] = "list" /\ pc[r] \in ItemSteps /\ pc[r] \notin Finished \cup {"idle"}
  BY DEF ListVersions, Finished, ItemSteps
<1>1. Fits(r, "remove") /\ Fits(r, "auditDelete")
  BY <1>0 DEF Fits, TypeInv, ItemOK, Labels, ItemSteps
<1>2. pc' \in [Requests -> Labels] /\ ItemOK'
  BY <1>0, <1>1, MoveType DEF ListVersions
<1>3. versions' \in [Requests -> SUBSET Version]
  BY ListedType DEF ListVersions
<1>4. err' \in [Requests -> Codes \cup {0}]
  <2>1. err' = err \/ Fail(r, 404) \/ Fail(r, 500)
    BY DEF ListVersions
  <2> QED
    BY <2>1, FailType DEF TypeInv, TypeOK, Codes
<1> QED
  BY <1>2, <1>3, <1>4 DEF ListVersions, TypeInv, TypeOK, store

LEMMA DeleteVersionType ==
  ASSUME TypeInv, NEW r \in Requests, DeleteVersion(r)
  PROVE  TypeInv'
<1>0. pc[r] = "remove" /\ pc[r] \in ItemSteps /\ pc[r] \notin Finished \cup {"idle"}
  BY DEF DeleteVersion, Finished, ItemSteps
<1>1. Fits(r, AfterTurn(r, versions'[r]))
  BY <1>0 DEF Fits, AfterTurn, TypeInv, ItemOK, Labels, ItemSteps
<1>2. pc' \in [Requests -> Labels] /\ ItemOK'
  BY <1>0, <1>1, MoveType DEF DeleteVersion
<1>3. /\ versions' \in [Requests -> SUBSET Version]
      /\ bucket' \subseteq Version
  <2>1. /\ versions \in [Requests -> SUBSET Version]
        /\ bucket \subseteq Version
    BY DEF TypeInv, TypeOK
  <2>2. bucket' \subseteq bucket
    BY DEF DeleteVersion, AfterDelete
  <2>3. \/ \E v : versions' = [versions EXCEPT ![r] = versions[r] \ {v}]
        \/ versions' = [versions EXCEPT ![r] = {}]
    BY DEF DeleteVersion
  <2> QED
    BY <2>1, <2>2, <2>3
<1>4. err' \in [Requests -> Codes \cup {0}]
  <2>1. Fail(r, ErrAfter(r, TRUE)) \/ Fail(r, ErrAfter(r, FALSE)) \/ Fail(r, 500)
    BY DEF DeleteVersion
  <2>2. /\ ErrAfter(r, TRUE) \in Codes \cup {0}
        /\ ErrAfter(r, FALSE) \in Codes \cup {0}
        /\ 500 \in Codes \cup {0}
    <3>1. 500 \in Codes
      BY DEF Codes
    <3> QED
      BY <3>1, StatusTypes
  <2>3. ASSUME NEW status \in Codes \cup {0}, Fail(r, status)
        PROVE  err' \in [Requests -> Codes \cup {0}]
    BY <2>3, FailType
  <2>4. CASE Fail(r, ErrAfter(r, TRUE))
    BY <2>2, <2>3, <2>4
  <2>5. CASE Fail(r, ErrAfter(r, FALSE))
    BY <2>2, <2>3, <2>5
  <2>6. CASE Fail(r, 500)
    BY <2>2, <2>3, <2>6
  <2> QED
    BY <2>1, <2>4, <2>5, <2>6
<1> QED
  BY <1>2, <1>3, <1>4 DEF DeleteVersion, TypeInv, TypeOK

LEMMA AuditDeleteType ==
  ASSUME TypeInv, NEW r \in Requests, AuditDelete(r)
  PROVE  TypeInv'
<1>0. pc[r] = "auditDelete" /\ pc[r] \in ItemSteps
  BY DEF AuditDelete, ItemSteps
<1>1. UNCHANGED <<store, versions>> /\ Settle(r, DeleteStatus(r))
  BY DEF AuditDelete
<1>2. audit' \in [Slots -> Record]
  BY <1>0, RecordedType DEF AuditDelete, TypeInv, TypeOK, Kinds
<1> QED
  BY <1>0, <1>1, <1>2, StatusTypes, SettleStep

LEMMA RecordReadType ==
  ASSUME TypeInv, NEW r \in Requests, pc[r] \in ItemSteps, NEW kind \in Kinds,
         RecordRead(r, kind)
  PROVE  TypeInv'
<1>1. UNCHANGED <<store, versions>>
  BY DEF RecordRead
<1>2. audit' \in [Slots -> Record]
  BY RecordedType DEF RecordRead, TypeInv, TypeOK
<1>3. PICK recorded \in BOOLEAN : Settle(r, ReadStatus(r, recorded))
  BY DEF RecordRead
<1> QED
  BY <1>1, <1>2, <1>3, StatusTypes, SettleStep

LEMMA MakeUrlType ==
  ASSUME TypeInv, NEW r \in Requests, MakeUrl(r)
  PROVE  TypeInv'
<1>0. pc[r] = "url" /\ pc[r] \in ItemSteps /\ pc[r] \notin Finished \cup {"idle"}
  BY DEF MakeUrl, Finished, ItemSteps
<1>1. Fits(r, "auditRead")
  BY <1>0 DEF Fits, TypeInv, ItemOK, Labels, ItemSteps
<1>2. pc' \in [Requests -> Labels] /\ ItemOK'
  BY <1>0, <1>1, MoveType DEF MakeUrl
<1>3. err' \in [Requests -> Codes \cup {0}]
  <2>1. Fail(r, UrlStatus(r)) \/ Fail(r, 500) \/ Fail(r, 404)
    BY DEF MakeUrl
  <2>2. UrlStatus(r) \in Codes \cup {0} /\ 404 \in Codes /\ 500 \in Codes
    <3>1. 404 \in Codes /\ 500 \in Codes
      BY DEF Codes
    <3> QED
      BY <3>1, StatusTypes
  <2>3. ASSUME NEW status \in Codes \cup {0}, Fail(r, status)
        PROVE  err' \in [Requests -> Codes \cup {0}]
    BY <2>3, FailType
  <2> QED
    BY <2>1, <2>2, <2>3
<1> QED
  BY <1>2, <1>3 DEF MakeUrl, TypeInv, TypeOK, store

LEMMA ShowDetailsType ==
  ASSUME TypeInv, NEW r \in Requests, ShowDetails(r)
  PROVE  TypeInv'
<1>0. pc[r] = "details" /\ pc[r] \in ItemSteps /\ pc[r] \notin Finished \cup {"idle"}
  BY DEF ShowDetails, Finished, ItemSteps
<1>1. CASE Settle(r, 500) /\ UNCHANGED <<store, audit, versions>>
  BY <1>0, <1>1, SettleFailed
<1>2. CASE /\ Goto(r, "auditDetails")
           /\ \E status \in {400, 404, 0} : Fail(r, status)
           /\ versions' \in {versions, [versions EXCEPT ![r] = Listing(Current(r))]}
           /\ UNCHANGED <<store, audit, req, pos, existed, outcome, response, began>>
  <2>1. Fits(r, "auditDetails")
    BY <1>0 DEF Fits, TypeInv, ItemOK, Labels, ItemSteps
  <2>2. pc' \in [Requests -> Labels] /\ ItemOK'
    BY <1>0, <1>2, <2>1, MoveType
  <2>3. versions' \in [Requests -> SUBSET Version]
    BY <1>2, ListedType
  <2>4. err' \in [Requests -> Codes \cup {0}]
    BY <1>2, FailType DEF Codes
  <2> QED
    BY <1>2, <2>2, <2>3, <2>4 DEF TypeInv, TypeOK, store
<1> QED
  BY <1>1, <1>2 DEF ShowDetails

LEMMA CrashType ==
  ASSUME TypeInv, NEW r \in Requests, Crash(r)
  PROVE  TypeInv'
<1>1. Fits(r, "crashed")
  BY DEF Fits, Labels, ItemSteps, Finished
<1>2. pc' \in [Requests -> Labels] /\ ItemOK'
  BY <1>1, MoveType DEF Crash, handling
<1> QED
  BY <1>2 DEF Crash, TypeInv, TypeOK, store, handling

LEMMA NextType ==
  ASSUME TypeInv, [Next]_vars
  PROVE  TypeInv'
<1>1. CASE \E r \in Requests : Arrive(r)
  BY <1>1, ArriveType
<1>2. CASE \E r \in Requests : Crash(r)
  BY <1>2, CrashType
<1>3. ASSUME NEW r \in Requests, Step(r) PROVE TypeInv'
  <2>1. CASE AuditRead(r)
    BY <2>1, RecordReadType DEF AuditRead, Kinds, ItemSteps
  <2>2. CASE AuditDetails(r)
    BY <2>2, RecordReadType DEF AuditDetails, Kinds, ItemSteps
  <2> QED
    BY <1>3, <2>1, <2>2, CollectionChecksType, ChecksType, CheckExistsType, SaveType,
       AuditUploadType, AuthoriseType, ListVersionsType, DeleteVersionType,
       AuditDeleteType, MakeUrlType, ShowDetailsType
       DEF Step
<1>4. CASE UNCHANGED vars
  BY <1>4 DEF vars, TypeInv, TypeOK, ItemOK, Current
<1> QED
  BY <1>1, <1>2, <1>3, <1>4 DEF Next, Quiesce

(* Every variable keeps its type, and a handler's place tells its endpoint   *)
(* and item.                                                                 *)
THEOREM TypeInvariance == Spec => []TypeInv
<1>1. Init => TypeInv
  BY InitType
<1>2. TypeInv /\ [Next]_vars => TypeInv'
  BY NextType
<1> QED
  BY <1>1, <1>2, PTL DEF Spec

(* Type correctness, as the runs check it. *)
THEOREM TypeCorrectness == Spec => []TypeOK
<1>1. TypeInv => TypeOK
  BY DEF TypeInv
<1> QED
  BY <1>1, TypeInvariance, PTL

-----------------------------------------------------------------------------
(* What a step of request r leaves alone. *)
Frame(r) ==
  \A s \in Requests \ {r} :
    /\ pc'[s] = pc[s] /\ req'[s] = req[s] /\ pos'[s] = pos[s]
    /\ existed'[s] = existed[s] /\ err'[s] = err[s] /\ versions'[s] = versions[s]
    /\ outcome'[s] = outcome[s] /\ began'[s] = began[s]

Arrives(r) ==
  /\ pc[r] = "idle" /\ pc'[r] \in {"checks", "collection", "authorise", "url", "details"}
  /\ began'[r] = nextVid
  /\ ReuseIds = FALSE => req'[r].id = r
  /\ UNCHANGED <<store, audit, outcome, err, pos>>

(* The handler goes on, or ends, without touching a store. *)
Moves(r) ==
  /\ pc[r] \notin Finished \cup {"idle"} /\ pc'[r] # "idle"
  /\ pc[r] \in {"save", "remove", "auditUpload", "auditDelete", "auditRead", "auditDetails"}
       => pc'[r] = "crashed"
  /\ pc'[r] = "save" =>
       pc[r] = "exists" /\ existed'[r] = HoldsKey(Current(r)) /\ err'[r] = 0
  /\ pc'[r] \in {"checks", "exists", "list", "remove"} => err'[r] = err[r]
  /\ pc'[r] \notin {"idle", "authorise", "collection", "url", "details"}
  /\ pc'[r] = "auditUpload" => err'[r] \in {400, 409, 500}
  /\ pc'[r] = "remove" => pc[r] = "list" /\ versions'[r] = Listing(Current(r))
  /\ pc'[r] = "auditDelete" => pc[r] = "list" /\ err'[r] \in {404, 500}
  /\ pc'[r] \in {"auditRead", "auditDetails"} => err'[r] \in {0, 400, 404, 500}
  /\ pc'[r] \in {"auditDelete", "auditDetails"} /\ err'[r] = 404 => Listing(Current(r)) = {}
  /\ err'[r] \in {err[r], 0, 400, 404, 409, 500}
  /\ UNCHANGED <<store, audit, req, pos, outcome, began>>

Puts(r) ==
  /\ pc[r] = "save" /\ pc'[r] = "auditUpload"
  /\ err'[r] \in {err[r], 500}
  /\ \/ Put(r)
     \/ UNCHANGED store /\ err'[r] = 500
  /\ UNCHANGED <<audit, req, pos, existed, outcome, began>>

Deletes(r) ==
  /\ pc[r] = "remove" /\ pc'[r] \in {"remove", "auditDelete"}
  /\ pc'[r] = "auditDelete" => versions'[r] = {}
  /\ versions'[r] \subseteq versions[r]
  /\ \/ err'[r] = 500 /\ bucket' \subseteq bucket
     \/ /\ err'[r] = err[r]
        /\ \E v \in versions[r] :
             bucket' = AfterDelete(Current(r), v) /\ versions'[r] = versions[r] \ {v}
  /\ \A v \in bucket \ bucket' : v.key = Current(r)
  /\ bucket' \subseteq bucket
  /\ UNCHANGED <<written, nextVid, audit, req, pos, outcome, began>>

(* What the audit step at this label records. *)
Asked(r) ==
  CASE pc[r] = "auditUpload"  -> UploadKind(r)
    [] pc[r] = "auditDelete"  -> "DELETE"
    [] pc[r] = "auditRead"    -> "READ"
    [] pc[r] = "auditDetails" -> "INFO"

Settles(r, code) ==
  /\ pc[r] \in ItemSteps
  /\ outcome'[r] = Append(outcome[r], code)
  /\ err'[r] = 0
  /\ IF pos[r] < Len(req[r].keys)
     THEN pos'[r] = pos[r] + 1 /\ pc'[r] \in {"checks", "list", "url", "details"}
     ELSE pos'[r] = pos[r] /\ pc'[r] = "done"
  /\ \/ audit' = audit
     \/ pc[r] \in AuditSteps /\ audit' = Recorded(r, Asked(r))
  /\ \/ code = 500
     \/ pc[r] = "auditUpload" /\ code = UploadStatus(r, TRUE) /\ audit' = Recorded(r, Asked(r))
     \/ pc[r] = "auditDelete" /\ code = DeleteStatus(r)
     \/ /\ pc[r] \in {"auditRead", "auditDetails"}
        /\ code = ReadStatus(r, TRUE) /\ audit' = Recorded(r, Asked(r))
  /\ pc[r] = "auditDelete" => code = DeleteStatus(r)
  /\ UNCHANGED <<store, req, began>>

LEMMA ArrivesClass ==
  ASSUME TypeInv, NEW r \in Requests, Arrive(r)
  PROVE  Frame(r) /\ Arrives(r)
<1>1. PICK op \in Ops : \E keys \in KeyLists(op), id \in Ids(r) :
        /\ req' = [req EXCEPT ![r] = [op |-> op, keys |-> keys, id |-> id]]
        /\ Goto(r, Entry(op))
  BY DEF Arrive
<1>2. PICK keys \in KeyLists(op), id \in Ids(r) :
        /\ req' = [req EXCEPT ![r] = [op |-> op, keys |-> keys, id |-> id]]
        /\ pc' = [pc EXCEPT ![r] = Entry(op)]
  BY <1>1 DEF Goto
<1>3. Entry(op) \in {"checks", "collection", "authorise", "url", "details"}
  BY OpsAssumption DEF Entry, AllOps
<1>4. Frame(r)
  BY <1>2 DEF Arrive, handling, store, Frame, TypeInv, TypeOK
<1>5. Arrives(r)
  BY <1>2, <1>3, ReuseAssumption DEF Arrive, handling, store, Arrives, TypeInv, TypeOK, Ids
<1> QED
  BY <1>4, <1>5

LEMMA AnswerMoves ==
  ASSUME TypeInv, NEW r \in Requests, NEW code,
         pc[r] \in {"collection", "authorise"}, Answer(r, code)
  PROVE  Frame(r) /\ Moves(r)
BY DEF Answer, Goto, Frame, Moves, Finished, store, TypeInv, TypeOK

LEMMA SettleSettles ==
  ASSUME TypeInv, NEW r \in Requests, NEW code, pc[r] \in ItemSteps,
         Settle(r, code), UNCHANGED <<store, versions>>,
         \/ audit' = audit
         \/ pc[r] \in AuditSteps /\ audit' = Recorded(r, Asked(r)),
         \/ code = 500
         \/ pc[r] = "auditUpload" /\ code = UploadStatus(r, TRUE) /\ audit' = Recorded(r, Asked(r))
         \/ pc[r] = "auditDelete" /\ code = DeleteStatus(r)
         \/ /\ pc[r] \in {"auditRead", "auditDetails"}
            /\ code = ReadStatus(r, TRUE) /\ audit' = Recorded(r, Asked(r)),
         pc[r] = "auditDelete" => code = DeleteStatus(r)
  PROVE  Frame(r) /\ Settles(r, code)
<1>1. req[r].op \in AllOps
  BY DEF TypeInv, ItemOK, ItemSteps
<1>2. ItemEntry(req[r].op) \in {"checks", "list", "url", "details"}
  BY <1>1 DEF ItemEntry, AllOps, Uploads
<1>3. Frame(r)
  BY DEF Settle, Goto, Frame, TypeInv, TypeOK
<1>4. Settles(r, code)
  BY <1>2 DEF Settle, Goto, Settles, store, TypeInv, TypeOK
<1> QED
  BY <1>3, <1>4

LEMMA EscapeSettles ==
  ASSUME TypeInv, NEW r \in Requests, pc[r] \in {"checks", "exists", "details"},
         Settle(r, 500), UNCHANGED <<store, audit, versions>>
  PROVE  Frame(r) /\ \E code : Settles(r, code)
<1>1. /\ pc[r] \in ItemSteps /\ pc[r] # "auditDelete" /\ audit' = audit
      /\ UNCHANGED <<store, versions>>
  BY DEF ItemSteps
<1>2. Frame(r) /\ Settles(r, 500)
  BY <1>1, SettleSettles
<1> QED
  BY <1>2

LEMMA StepClasses ==
  ASSUME TypeInv, NEW r \in Requests, Step(r)
  PROVE  /\ Frame(r)
         /\ \/ Moves(r)
            \/ Puts(r)
            \/ Deletes(r)
            \/ \E code : Settles(r, code)
<1> DEFINE Classes == /\ Frame(r)
                      /\ \/ Moves(r) \/ Puts(r) \/ Deletes(r)
                         \/ \E code : Settles(r, code)
<1>1. CASE CollectionChecks(r)
  <2>1. CASE Answer(r, 400) \/ Answer(r, 500)
    BY <1>1, <2>1, AnswerMoves DEF CollectionChecks
  <2>2. CASE Goto(r, "checks") /\ UNCHANGED <<store, audit, req, handling, versions, began>>
    BY <1>1, <2>2 DEF CollectionChecks, Goto, handling, store, Frame, Moves, Finished,
                      TypeInv, TypeOK
  <2> QED
    BY <1>1, <2>1, <2>2 DEF CollectionChecks
<1>2. CASE Checks(r)
  <2>1. CASE Goto(r, "exists") /\ UNCHANGED <<store, audit, req, handling, versions, began>>
    BY <1>2, <2>1 DEF Checks, Goto, handling, store, Frame, Moves, Finished, TypeInv, TypeOK
  <2>2. CASE /\ \E status \in {400, 500} : Fail(r, status)
             /\ Goto(r, "auditUpload")
             /\ UNCHANGED <<store, audit, req, pos, existed, outcome, response,
                            versions, began>>
    BY <1>2, <2>2 DEF Checks, Fail, Goto, store, Frame, Moves, Finished, TypeInv, TypeOK
  <2>3. CASE Settle(r, 500) /\ UNCHANGED <<store, audit, versions>>
    BY <1>2, <2>3, EscapeSettles DEF Checks
  <2> QED
    BY <1>2, <2>1, <2>2, <2>3 DEF Checks
<1>3. CASE CheckExists(r)
  <2>1. CASE /\ existed' = [existed EXCEPT ![r] = HoldsKey(Current(r))]
             /\ Fail(r, IF Conflicts(r) THEN 409 ELSE 0)
             /\ Goto(r, AfterCheck(r))
             /\ UNCHANGED <<store, audit, req, pos, outcome, response, versions, began>>
    <3>1. /\ pc' = [pc EXCEPT ![r] = AfterCheck(r)]
          /\ err' = [err EXCEPT ![r] = IF Conflicts(r) THEN 409 ELSE 0]
      BY <2>1 DEF Fail, Goto
    <3>2. Frame(r)
      BY <2>1, <3>1 DEF Frame, TypeInv, TypeOK
    <3>3. /\ pc'[r] = AfterCheck(r) /\ existed'[r] = HoldsKey(Current(r))
          /\ err'[r] = IF Conflicts(r) THEN 409 ELSE 0
      BY <2>1, <3>1 DEF TypeInv, TypeOK
    <3>4. Moves(r)
      BY <1>3, <2>1, <3>3 DEF CheckExists, AfterCheck, store, Moves, Finished
    <3> QED
      BY <3>2, <3>4
  <2>2. CASE Settle(r, 500) /\ UNCHANGED <<store, audit, versions>>
    BY <1>3, <2>2, EscapeSettles DEF CheckExists
  <2> QED
    BY <1>3, <2>1, <2>2 DEF CheckExists
<1>4. CASE Save(r)
  BY <1>4 DEF Save, SaveError, Fail, Goto, Frame, Puts, TypeInv, TypeOK
<1>5. CASE AuditUpload(r)
  <2>1. /\ Asked(r) = UploadKind(r) /\ pc[r] \in AuditSteps /\ pc[r] \in ItemSteps
        /\ pc[r] # "auditDelete"
    BY <1>5 DEF AuditUpload, Asked, AuditSteps, ItemSteps
  <2>2. UploadStatus(r, FALSE) = 500
    BY DEF UploadStatus
  <2>3. UNCHANGED <<store, versions>>
    BY <1>5 DEF AuditUpload
  <2>4. CASE audit' = Recorded(r, UploadKind(r)) /\ Settle(r, UploadStatus(r, TRUE))
    BY <1>5, <2>1, <2>3, <2>4, SettleSettles DEF AuditUpload
  <2>5. CASE audit' = audit /\ Settle(r, UploadStatus(r, FALSE))
    <3>1. Settle(r, 500)
      BY <2>2, <2>5
    <3>2. Frame(r) /\ Settles(r, 500)
      BY <2>1, <2>3, <2>5, <3>1, SettleSettles
    <3> QED
      BY <3>2
  <2>6. CASE audit' = Recorded(r, UploadKind(r)) /\ Settle(r, UploadStatus(r, FALSE))
    <3>1. Settle(r, 500)
      BY <2>2, <2>6
    <3>2. Frame(r) /\ Settles(r, 500)
      BY <2>1, <2>3, <2>6, <3>1, SettleSettles
    <3> QED
      BY <3>2
  <2> QED
    BY <1>5, <2>4, <2>5, <2>6 DEF AuditUpload
<1>6. CASE Authorise(r)
  <2>1. CASE Answer(r, 400) \/ Answer(r, 403)
    BY <1>6, <2>1, AnswerMoves DEF Authorise
  <2>2. CASE Goto(r, "list") /\ UNCHANGED <<store, audit, req, handling, versions, began>>
    BY <1>6, <2>2 DEF Authorise, Goto, handling, store, Frame, Moves, Finished,
                      TypeInv, TypeOK
  <2> QED
    BY <1>6, <2>1, <2>2 DEF Authorise
<1>7. CASE ListVersions(r)
  BY <1>7 DEF ListVersions, Fail, Goto, store, Frame, Moves, Finished, TypeInv, TypeOK
<1>8. CASE DeleteVersion(r)
  <2>0. /\ pc' = [pc EXCEPT ![r] = AfterTurn(r, versions'[r])]
        /\ \E status : err' = [err EXCEPT ![r] = status]
        /\ \E left : versions' = [versions EXCEPT ![r] = left]
        /\ UNCHANGED <<req, pos, existed, outcome, began>>
    <3>1. pc' = [pc EXCEPT ![r] = AfterTurn(r, versions'[r])]
      BY <1>8 DEF DeleteVersion, Goto
    <3>2. \E status : err' = [err EXCEPT ![r] = status]
      <4>1. Fail(r, ErrAfter(r, TRUE)) \/ Fail(r, ErrAfter(r, FALSE)) \/ Fail(r, 500)
        BY <1>8 DEF DeleteVersion
      <4>2. ASSUME NEW status, Fail(r, status) PROVE err' = [err EXCEPT ![r] = status]
        BY <4>2 DEF Fail
      <4> QED
        BY <4>1, <4>2
    <3>3. \E left : versions' = [versions EXCEPT ![r] = left]
      <4>1. PICK v \in versions[r] :
              \/ versions' = [versions EXCEPT ![r] = versions[r] \ {v}]
              \/ versions' = [versions EXCEPT ![r] = {}]
        BY <1>8 DEF DeleteVersion
      <4> QED
        BY <4>1
    <3>4. UNCHANGED <<req, pos, existed, outcome, began>>
      BY <1>8 DEF DeleteVersion
    <3> QED
      BY <3>1, <3>2, <3>3, <3>4
  <2>1. Frame(r)
    BY <2>0 DEF Frame, TypeInv, TypeOK
  <2>2. pc'[r] = AfterTurn(r, versions'[r]) /\ pc[r] = "remove"
    BY <1>8, <2>0 DEF DeleteVersion, TypeInv, TypeOK
  <2>3. pc'[r] \in {"remove", "auditDelete"} /\ (pc'[r] = "auditDelete" => versions'[r] = {})
    BY <2>2 DEF AfterTurn
  <2>4. PICK v \in versions[r] :
          \/ /\ bucket' = AfterDelete(Current(r), v)
             /\ err' = [err EXCEPT ![r] = err[r]]
             /\ versions' = [versions EXCEPT ![r] = versions[r] \ {v}]
          \/ /\ bucket' \in {bucket, AfterDelete(Current(r), v)}
             /\ err' = [err EXCEPT ![r] = 500]
             /\ \/ versions' = [versions EXCEPT ![r] = versions[r] \ {v}]
                \/ versions' = [versions EXCEPT ![r] = {}]
    BY <1>8 DEF DeleteVersion, Fail, ErrAfter
  <2>5. /\ err' = [err EXCEPT ![r] = 500] => err'[r] = 500
        /\ err' = [err EXCEPT ![r] = err[r]] => err'[r] = err[r]
        /\ versions' = [versions EXCEPT ![r] = versions[r] \ {v}]
             => versions'[r] = versions[r] \ {v}
        /\ versions' = [versions EXCEPT ![r] = {}] => versions'[r] = {}
    BY DEF TypeInv, TypeOK
  <2>6. /\ AfterDelete(Current(r), v) \subseteq bucket
        /\ \A w \in bucket \ AfterDelete(Current(r), v) : w.key = Current(r)
    BY DEF AfterDelete
  <2>7. UNCHANGED <<written, nextVid, audit, req, pos, outcome, began>>
    BY <1>8 DEF DeleteVersion
  <2>8. \/ err'[r] = 500 /\ bucket' \subseteq bucket
        \/ /\ err'[r] = err[r]
           /\ \E u \in versions[r] :
                bucket' = AfterDelete(Current(r), u) /\ versions'[r] = versions[r] \ {u}
    BY <2>4, <2>5, <2>6
  <2>9. versions'[r] \subseteq versions[r]
    <3>1. \/ versions' = [versions EXCEPT ![r] = versions[r] \ {v}]
          \/ versions' = [versions EXCEPT ![r] = {}]
      BY <2>4
    <3> QED
      BY <2>5, <3>1
  <2>10. bucket' \subseteq bucket /\ \A w \in bucket \ bucket' : w.key = Current(r)
    BY <2>4, <2>6
  <2>11. Deletes(r)
    BY <2>2, <2>3, <2>7, <2>8, <2>10, <2>9 DEF Deletes
  <2> QED
    BY <2>1, <2>11
<1>9. CASE AuditDelete(r)
  <2>1. Asked(r) = "DELETE" /\ pc[r] = "auditDelete" /\ pc[r] \in AuditSteps /\ pc[r] \in ItemSteps
    BY <1>9 DEF AuditDelete, Asked, AuditSteps, ItemSteps
  <2> QED
    BY <1>9, <2>1, SettleSettles DEF AuditDelete
<1>10. CASE MakeUrl(r)
  BY <1>10 DEF MakeUrl, UrlStatus, Fail, Goto, store, Frame, Moves, Finished, TypeInv, TypeOK
<1>11. ASSUME NEW kind, RecordRead(r, kind), kind = Asked(r),
              pc[r] \in {"auditRead", "auditDetails"}
       PROVE  Classes
  <2>1. pc[r] \in AuditSteps /\ pc[r] \in ItemSteps
    BY <1>11 DEF AuditSteps, ItemSteps
  <2>2. ReadStatus(r, FALSE) = 500
    BY DEF ReadStatus
  <2>3. UNCHANGED <<store, versions>>
    BY <1>11 DEF RecordRead
  <2>4. CASE audit' = Recorded(r, kind) /\ Settle(r, ReadStatus(r, TRUE))
    BY <1>11, <2>1, <2>3, <2>4, SettleSettles
  <2>5. CASE audit' \in {audit, Recorded(r, kind)} /\ Settle(r, ReadStatus(r, FALSE))
    <3>1. Settle(r, 500) /\ pc[r] # "auditDelete"
      BY <1>11, <2>2, <2>5
    <3>2. audit' = audit \/ (pc[r] \in AuditSteps /\ audit' = Recorded(r, Asked(r)))
      BY <1>11, <2>1, <2>5
    <3>3. Frame(r) /\ Settles(r, 500)
      BY <2>1, <2>3, <3>1, <3>2, SettleSettles
    <3> QED
      BY <3>3
  <2> QED
    BY <1>11, <2>4, <2>5 DEF RecordRead
<1>12. CASE AuditRead(r)
  BY <1>11, <1>12 DEF AuditRead, Asked
<1>13. CASE ShowDetails(r)
  <2>1. CASE Settle(r, 500) /\ UNCHANGED <<store, audit, versions>>
    BY <1>13, <2>1, EscapeSettles DEF ShowDetails
  <2>2. CASE ~(Settle(r, 500) /\ UNCHANGED <<store, audit, versions>>)
    BY <1>13, <2>2 DEF ShowDetails, Fail, Goto, store, Frame, Moves, Finished, TypeInv, TypeOK
  <2> QED
    BY <2>1, <2>2
<1>14. CASE AuditDetails(r)
  BY <1>11, <1>14 DEF AuditDetails, Asked
<1> QED
  BY <1>1, <1>2, <1>3, <1>4, <1>5, <1>6, <1>7, <1>8, <1>9, <1>10, <1>12, <1>13, <1>14
     DEF Step

(* Every step of the system is a stutter or belongs to one class. *)
LEMMA NextClasses ==
  ASSUME TypeInv, [Next]_vars
  PROVE  \/ UNCHANGED vars
         \/ \E r \in Requests :
              /\ Frame(r)
              /\ \/ Arrives(r) \/ Moves(r) \/ Puts(r) \/ Deletes(r)
                 \/ \E code : Settles(r, code)
<1>1. ASSUME NEW r \in Requests, Crash(r) PROVE Frame(r) /\ Moves(r)
  BY <1>1 DEF Crash, Goto, handling, store, Frame, Moves, Finished, TypeInv, TypeOK
<1> QED
  BY <1>1, ArrivesClass, StepClasses DEF Next, Quiesce

-----------------------------------------------------------------------------
(* The handler invariant, conjunct by conjunct. *)

LEMMA ErrStep ==
  ASSUME TypeInv, ErrOK, [Next]_vars
  PROVE  ErrOK'
<1> DEFINE Fit(e, l) ==
      /\ e \in {0, 400, 404, 409, 500}
      /\ l \notin AuditSteps \cup Finished \cup {"remove"} => e = 0
      /\ l = "remove" => e \in {0, 500}
      /\ l = "auditUpload" => e # 404
      /\ l = "auditDelete" => e \in {0, 404, 500}
      /\ l \in {"auditRead", "auditDetails"} => e # 409
<1>0. ErrOK <=> \A s \in Requests : Fit(err[s], pc[s])
  BY DEF ErrOK
<1>1. CASE UNCHANGED vars
  BY <1>1 DEF vars, ErrOK
<1>2. ASSUME NEW r \in Requests, Frame(r),
             \/ Arrives(r) \/ Moves(r) \/ Puts(r) \/ Deletes(r)
             \/ \E code : Settles(r, code)
      PROVE  \A s \in Requests : Fit(err'[s], pc'[s])
  <2>0. Fit(err[r], pc[r])
    BY <1>0
  <2>6. Fit(err'[r], pc'[r])
    <3>1. CASE Arrives(r)
      BY <2>0, <3>1 DEF Arrives, AuditSteps, Finished
    <3>2. CASE Moves(r)
      <4>1. pc'[r] \in Labels
        BY NextType DEF TypeInv, TypeOK
      <4> QED
        BY <2>0, <3>2, <4>1 DEF Moves, AuditSteps, Finished, Labels, ItemSteps
    <3>3. CASE Puts(r)
      BY <2>0, <3>3 DEF Puts, AuditSteps, Finished
    <3>4. CASE Deletes(r)
      BY <2>0, <3>4 DEF Deletes, AuditSteps, Finished
    <3>5. CASE \E code : Settles(r, code)
      BY <3>5 DEF Settles, AuditSteps, Finished
    <3> QED
      BY <1>2, <3>1, <3>2, <3>3, <3>4, <3>5
  <2>7. \A s \in Requests \ {r} : Fit(err'[s], pc'[s])
    BY <1>0, <1>2 DEF Frame
  <2> QED
    BY <2>6, <2>7
<1>3. (\A s \in Requests : Fit(err'[s], pc'[s])) => ErrOK'
  BY DEF ErrOK
<1> QED
  BY <1>1, <1>2, <1>3, NextClasses

LEMMA PutEffect ==
  ASSUME TypeInv, NEW r \in Requests, Puts(r)
  PROVE  \/ UNCHANGED store
         \/ \E new : /\ new.key = Current(r) /\ new.vid = nextVid
                     /\ new.by = r /\ new.pos = pos[r]
                     /\ bucket' = bucket \cup {new}
                     /\ written' = written \cup {new}
                     /\ nextVid' = nextVid + 1
<1>1. CASE Put(r)
  <2> DEFINE new == [key |-> Current(r), vid |-> nextVid, by |-> r, pos |-> pos[r]]
  <2>1. /\ bucket' = bucket \cup {new}
        /\ written' = written \cup {new}
        /\ nextVid' = nextVid + 1
    BY <1>1 DEF Put
  <2> QED
    BY <2>1
<1> QED
  BY <1>1 DEF Puts

LEMMA VidsStep ==
  ASSUME TypeInv, VidsOK, [Next]_vars
  PROVE  VidsOK'
<1>0. /\ nextVid \in Nat /\ began \in [Requests -> Nat] /\ began' \in [Requests -> Nat]
      /\ \A v \in written : v.vid \in Nat
  BY NextType DEF TypeInv, TypeOK, Version
<1>1. CASE UNCHANGED vars
  BY <1>1 DEF vars, VidsOK
<1>2. ASSUME NEW r \in Requests, Frame(r),
             Arrives(r) \/ Moves(r) \/ \E code : Settles(r, code)
      PROVE  VidsOK'
  <2>1. bucket' = bucket /\ written' = written /\ nextVid' = nextVid
    BY <1>2 DEF Arrives, Moves, Settles, store
  <2>2. \A s \in Requests \ {r} : began'[s] = began[s]
    BY <1>2 DEF Frame
  <2>3. began'[r] \in {began[r], nextVid}
    BY <1>2 DEF Arrives, Moves, Settles
  <2>4. \A s \in Requests : began'[s] <= nextVid
    BY <1>0, <2>2, <2>3 DEF VidsOK
  <2> QED
    BY <2>1, <2>4 DEF VidsOK
<1>3. ASSUME NEW r \in Requests, Deletes(r) PROVE VidsOK'
  BY <1>3 DEF Deletes, VidsOK
<1>4. ASSUME NEW r \in Requests, Puts(r) PROVE VidsOK'
  <2>1. CASE UNCHANGED store
    BY <1>4, <2>1 DEF Puts, store, VidsOK
  <2>2. CASE ~UNCHANGED store
    <3>1. PICK new : /\ new.vid = nextVid
                     /\ bucket' = bucket \cup {new}
                     /\ written' = written \cup {new}
                     /\ nextVid' = nextVid + 1
      BY <1>4, <2>2, PutEffect
    <3>2. began' = began
      BY <1>4 DEF Puts
    <3> QED
      BY <1>0, <3>1, <3>2 DEF VidsOK
  <2> QED
    BY <2>1, <2>2
<1> QED
  BY <1>1, <1>2, <1>3, <1>4, NextClasses

LEMMA WritersStep ==
  ASSUME TypeInv, ErrOK, SaveOK, WritersOK, [Next]_vars
  PROVE  WritersOK'
<1>0. /\ \A v \in written : v.by \in Requests \cup {Earlier} /\ v.pos \in Nat
      /\ pos \in [Requests -> 1 .. MaxItems]
      /\ pos' \in [Requests -> 1 .. MaxItems]
  BY NextType DEF TypeInv, TypeOK, Version
<1>1. CASE UNCHANGED vars
  BY <1>1 DEF vars, WritersOK, WrittenFor
<1>2. ASSUME NEW r \in Requests, Frame(r), NEW v \in written, v.by \in Requests \ {r}
      PROVE  WrittenFor(v, v.by)'
  BY <1>2, EarlierAssumption DEF Frame, WritersOK, WrittenFor
<1>3. ASSUME NEW r \in Requests, Arrives(r), NEW v \in written, v.by = r
      PROVE  FALSE
  BY <1>3, EarlierAssumption DEF Arrives, WritersOK, WrittenFor
<1>4. ASSUME NEW r \in Requests, Moves(r), NEW v \in written, v.by = r
      PROVE  WrittenFor(v, r)'
  <2>1. WrittenFor(v, r)
    BY <1>4, EarlierAssumption DEF WritersOK
  <2>2. /\ pc[r] \notin Finished \cup {"idle"} /\ pc'[r] # "idle"
        /\ req' = req /\ pos' = pos
    BY <1>4 DEF Moves
  <2>3. pc[r] \in ItemSteps \cup {"collection", "authorise"}
    BY <2>2 DEF TypeInv, TypeOK, Labels
  <2>4. CASE v.pos = pos[r]
    <3>1. pc[r] = "auditUpload"
      BY <2>1, <2>2, <2>4 DEF WrittenFor, Finished
    <3>2. pc'[r] \in Finished
      BY <1>4, <3>1 DEF Moves, Finished
    <3> QED
      BY <2>1, <2>2, <2>4, <3>2 DEF WrittenFor, Finished
  <2>5. CASE v.pos # pos[r]
    BY <2>1, <2>2, <2>5 DEF WrittenFor
  <2> QED
    BY <2>4, <2>5
<1>5. ASSUME NEW r \in Requests, Puts(r), NEW v \in written', v.by = r
      PROVE  WrittenFor(v, r)'
  <2>1. /\ pc[r] = "save" /\ pc'[r] = "auditUpload" /\ req' = req /\ pos' = pos
        /\ err[r] = 0 /\ err'[r] \in {0, 500}
    BY <1>5 DEF Puts, SaveOK
  <2>2. CASE v \in written
    <3>1. WrittenFor(v, r)
      BY <1>5, <2>2, EarlierAssumption DEF WritersOK
    <3> QED
      BY <2>1, <3>1 DEF WrittenFor
  <2>3. CASE v \notin written
    <3>1. v.key = Current(r) /\ v.pos = pos[r]
      BY <1>5, <2>3, PutEffect DEF store
    <3>2. pos[r] \in DOMAIN req[r].keys
      BY <2>1, CurrentType DEF ItemSteps
    <3>3. req[r].op \in Uploads
      BY <2>1 DEF TypeInv, ItemOK
    <3> QED
      BY <1>0, <2>1, <3>1, <3>2, <3>3 DEF WrittenFor, Current
  <2> QED
    BY <2>2, <2>3
<1>6. ASSUME NEW r \in Requests, Deletes(r), NEW v \in written, v.by = r
      PROVE  FALSE
  BY <1>6, EarlierAssumption DEF Deletes, WritersOK, WrittenFor, TypeInv, ItemOK, Uploads
<1>7. ASSUME NEW r \in Requests, NEW code, Settles(r, code), NEW v \in written, v.by = r
      PROVE  WrittenFor(v, r)'
  <2>1. WrittenFor(v, r)
    BY <1>7, EarlierAssumption DEF WritersOK
  <2>2. /\ req' = req /\ pc'[r] # "idle"
        /\ \/ pos'[r] = pos[r] + 1
           \/ pos'[r] = pos[r] /\ pc'[r] = "done"
    BY <1>7 DEF Settles
  <2> QED
    BY <1>0, <2>1, <2>2 DEF WrittenFor
<1>8. ASSUME NEW r \in Requests, Frame(r), NEW v \in written', v.by # Earlier,
             \/ Arrives(r) \/ Moves(r) \/ Puts(r) \/ Deletes(r)
             \/ \E code : Settles(r, code)
      PROVE  WrittenFor(v, v.by)'
  <2>1. v \in written \/ (Puts(r) /\ v.by = r)
    <3>1. CASE Puts(r)
      <4>1. written' = written \/ \E new : new.by = r /\ written' = written \cup {new}
        BY <3>1, PutEffect DEF store
      <4> QED
        BY <1>8, <3>1, <4>1
    <3>2. CASE ~Puts(r)
      <4>1. written' = written
        BY <1>8, <3>2 DEF Arrives, Moves, Deletes, Settles, store
      <4> QED
        BY <1>8, <4>1
    <3> QED
      BY <3>1, <3>2
  <2>2. v.by \in Requests
    BY <1>0, <1>8, <2>1
  <2> QED
    BY <1>2, <1>3, <1>4, <1>5, <1>6, <1>7, <1>8, <2>1, <2>2
<1> QED
  BY <1>1, <1>8, NextClasses DEF WritersOK

LEMMA SaveStep ==
  ASSUME TypeInv, ErrOK, SaveOK, [Next]_vars
  PROVE  SaveOK'
<1>1. CASE UNCHANGED vars
  BY <1>1 DEF vars, SaveOK, Current
<1>2. ASSUME NEW r \in Requests, Frame(r), written \subseteq written',
             NEW s \in Requests \ {r}
      PROVE  /\ pc'[s] = "save" => err'[s] = 0
             /\ pc'[s] = "auditUpload" /\ err'[s] = 0 =>
                  \E v \in written' : v.by = s /\ v.pos = pos'[s] /\ v.key = Current(s)'
  BY <1>2 DEF Frame, SaveOK, Current
<1>3. ASSUME NEW r \in Requests, Arrives(r) \/ Deletes(r) \/ \E code : Settles(r, code)
      PROVE  pc'[r] \notin {"save", "auditUpload"} /\ written' = written
  BY <1>3 DEF Arrives, Deletes, Settles, store
<1>4. ASSUME NEW r \in Requests, Moves(r)
      PROVE  /\ pc'[r] = "save" => err'[r] = 0
             /\ pc'[r] = "auditUpload" => err'[r] # 0
             /\ written' = written
  BY <1>4 DEF Moves, store
<1>5. ASSUME NEW r \in Requests, Puts(r)
      PROVE  /\ pc'[r] = "auditUpload"
             /\ err'[r] = 0 =>
                  \E v \in written' : v.by = r /\ v.pos = pos'[r] /\ v.key = Current(r)'
             /\ written \subseteq written'
  <2>1. Current(r)' = Current(r) /\ pos'[r] = pos[r] /\ pc'[r] = "auditUpload"
    BY <1>5 DEF Puts, Current
  <2>2. CASE UNCHANGED store /\ err'[r] = 500
    BY <2>1, <2>2 DEF store
  <2>3. CASE Put(r)
    <3>1. PICK new : new = [key |-> Current(r), vid |-> nextVid, by |-> r, pos |-> pos[r]]
      OBVIOUS
    <3>2. written' = written \cup {new}
      BY <2>3, <3>1 DEF Put
    <3>3. new.by = r /\ new.pos = pos[r] /\ new.key = Current(r)
      BY <3>1
    <3> QED
      BY <2>1, <3>2, <3>3
  <2> QED
    BY <1>5, <2>2, <2>3 DEF Puts
<1>6. ASSUME NEW r \in Requests, Frame(r),
             \/ Arrives(r) \/ Moves(r) \/ Puts(r) \/ Deletes(r)
             \/ \E code : Settles(r, code)
      PROVE  SaveOK'
  <2>1. written \subseteq written'
    BY <1>3, <1>4, <1>5, <1>6
  <2>2. /\ pc'[r] = "save" => err'[r] = 0
        /\ pc'[r] = "auditUpload" /\ err'[r] = 0 =>
             \E v \in written' : v.by = r /\ v.pos = pos'[r] /\ v.key = Current(r)'
    BY <1>3, <1>4, <1>5, <1>6
  <2> QED
    BY <1>2, <1>6, <2>1, <2>2 DEF SaveOK
<1> QED
  BY <1>1, <1>6, NextClasses

(* What is put is not there yet: its writer is only now at that item. *)
LEMMA OnceStep ==
  ASSUME TypeInv, WritersOK, OnceOK, [Next]_vars
  PROVE  OnceOK'
<1>1. CASE written' = written
  BY <1>1 DEF OnceOK
<1>2. ASSUME NEW r \in Requests, Puts(r), ~UNCHANGED store
      PROVE  OnceOK'
  <2>1. PICK new : /\ new.by = r /\ new.pos = pos[r]
                   /\ written' = written \cup {new}
    BY <1>2, PutEffect
  <2>2. \A v \in written : v.by = r => v.pos # pos[r]
    BY <1>2, EarlierAssumption DEF Puts, WritersOK, WrittenFor
  <2> QED
    BY <2>1, <2>2 DEF OnceOK
<1>3. ASSUME NEW r \in Requests,
             \/ Arrives(r) \/ Moves(r) \/ Puts(r) \/ Deletes(r)
             \/ \E code : Settles(r, code)
      PROVE  written' = written \/ (Puts(r) /\ ~UNCHANGED store)
  BY <1>3 DEF Arrives, Moves, Deletes, Settles, store
<1> QED
  BY <1>1, <1>2, <1>3, NextClasses DEF vars

(* The bucket only gains the version a put hands out. *)
LEMMA BucketGrowth ==
  ASSUME TypeInv, NEW r \in Requests,
         \/ Arrives(r) \/ Moves(r) \/ Puts(r) \/ Deletes(r)
         \/ \E code : Settles(r, code),
         NEW v \in bucket'
  PROVE  v \in bucket \/ (v.by = r /\ v.vid = nextVid /\ v.pos = pos[r])
<1>1. CASE Puts(r) /\ ~UNCHANGED store
  <2>1. PICK new : /\ new.vid = nextVid /\ new.by = r /\ new.pos = pos[r]
                   /\ bucket' = bucket \cup {new}
    BY <1>1, PutEffect
  <2> QED
    BY <2>1
<1>2. CASE ~Puts(r) \/ UNCHANGED store
  <2>1. bucket' \subseteq bucket
    BY <1>2 DEF Arrives, Moves, Deletes, Settles, store
  <2> QED
    BY <2>1
<1> QED
  BY <1>1, <1>2

(* What is new in the bucket stays new: other versions only come later. *)
LEMMA NewSinceKept ==
  ASSUME TypeInv, VidsOK, NEW r \in Requests, Frame(r),
         \/ Arrives(r) \/ Moves(r) \/ Puts(r) \/ Deletes(r)
         \/ \E code : Settles(r, code),
         NEW s \in Requests, NEW p \in Nat, NewSince(s, p),
         s = r => p <= pos[r] /\ ~Arrives(r)
  PROVE  NewSince(s, p)'
<1>1. req'[s] = req[s] /\ began'[s] = began[s]
  BY DEF Frame, Moves, Puts, Deletes, Settles
<1>2. began[s] <= nextVid /\ pos[s] \in Nat /\ nextVid \in Nat /\ began[s] \in Nat
  BY BoundsAssumption DEF VidsOK, TypeInv, TypeOK
<1>3. ASSUME NEW v \in bucket', v.key = req'[s].keys[p]
      PROVE  v.vid >= began[s] /\ (v.by = s => v.pos >= p)
  <2>1. CASE v \in bucket
    BY <1>1, <1>3, <2>1 DEF NewSince
  <2>2. CASE v.by = r /\ v.vid = nextVid /\ v.pos = pos[r]
    BY <1>2, <2>2
  <2> QED
    BY <2>1, <2>2, BucketGrowth
<1> QED
  BY <1>1, <1>3 DEF NewSince

LEMMA FreshStep ==
  ASSUME TypeInv, ErrOK, SaveOK, VidsOK, FreshOK, [Next]_vars
  PROVE  FreshOK'
<1>1. CASE UNCHANGED vars
  BY <1>1 DEF vars, FreshOK, NewSince
<1>2. ASSUME NEW r \in Requests, Frame(r),
             \/ Arrives(r) \/ Moves(r) \/ Puts(r) \/ Deletes(r)
             \/ \E code : Settles(r, code),
             NEW s \in Requests, pc'[s] \in {"save", "auditUpload"},
             err'[s] = 0, ~existed'[s]
      PROVE  NewSince(s, pos[s])' /\ pos'[s] = pos[s]
  <2>1. pos'[s] = pos[s] /\ (s = r => ~Arrives(r))
    BY <1>2 DEF Frame, Arrives, Moves, Puts, Deletes, Settles
  <2>2. NewSince(s, pos[s])
    <3>1. CASE s # r
      BY <1>2, <3>1 DEF Frame, FreshOK
    <3>2. CASE s = r /\ Moves(r)
      <4>1. ~HoldsKey(Current(r))
        BY <1>2, <3>2 DEF Moves
      <4> QED
        BY <3>2, <4>1 DEF HoldsKey, Current, NewSince
    <3>3. CASE s = r /\ Puts(r)
      BY <1>2, <3>3 DEF Puts, SaveOK, FreshOK
    <3> QED
      BY <1>2, <3>1, <3>2, <3>3 DEF Arrives, Deletes, Settles
  <2>3. PICK p \in Nat : p = pos[s]
    BY BoundsAssumption DEF TypeInv, TypeOK
  <2>4. NewSince(s, p)'
    BY <1>2, <2>1, <2>2, <2>3, NewSinceKept
  <2> QED
    BY <2>1, <2>3, <2>4 DEF NewSince
<1> QED
  BY <1>1, <1>2, NextClasses DEF FreshOK

LEMMA UnauditedStep ==
  ASSUME TypeInv, UnauditedOK, [Next]_vars, ReuseIds = FALSE
  PROVE  /\ UnauditedOK'
         /\ \A x \in Slots : audit[x].kind # "NONE" => audit'[x] = audit[x]
<1>0. pos \in [Requests -> 1 .. MaxItems] /\ MaxItems \in Nat
  BY BoundsAssumption DEF TypeInv, TypeOK
<1>1. CASE UNCHANGED vars
  BY <1>1 DEF vars, UnauditedOK
<1>2. ASSUME NEW r \in Requests, Frame(r), Arrives(r) \/ Moves(r) \/ Puts(r) \/ Deletes(r)
      PROVE  UnauditedOK' /\ audit' = audit
  <2>1. /\ audit' = audit /\ req'[r].id = r /\ pos'[r] = pos[r]
        /\ pc'[r] \notin Finished => pc[r] \notin Finished
    BY <1>2 DEF Arrives, Moves, Puts, Deletes, Finished, UnauditedOK
  <2>2. \A s \in Requests \ {r} : req'[s] = req[s] /\ pos'[s] = pos[s] /\ pc'[s] = pc[s]
    BY <1>2 DEF Frame
  <2> QED
    BY <2>1, <2>2 DEF UnauditedOK
<1>3. ASSUME NEW r \in Requests, Frame(r), NEW code, Settles(r, code)
      PROVE  /\ UnauditedOK'
             /\ \A x \in Slots : audit[x].kind # "NONE" => audit'[x] = audit[x]
  <2>1. /\ SlotOf(r) = <<r, pos[r]>> /\ pc[r] \notin Finished /\ req' = req
        /\ audit[<<r, pos[r]>>].kind = "NONE"
    BY <1>0, <1>3 DEF SlotOf, Settles, UnauditedOK, ItemSteps, Finished
  <2>2. \A x \in Slots : x # <<r, pos[r]>> => audit'[x] = audit[x]
    BY <1>3, <2>1 DEF Settles, Recorded, TypeInv, TypeOK
  <2>3. pc'[r] \notin Finished => pos'[r] = pos[r] + 1
    BY <1>3 DEF Settles, Finished
  <2>4. ASSUME NEW s \in Requests, pc'[s] \notin Finished, NEW p \in pos'[s] .. MaxItems
        PROVE  audit'[<<s, p>>].kind = "NONE"
    <3>1. pc[s] \notin Finished /\ p \in pos[s] .. MaxItems /\ (s = r => p # pos[r])
      BY <1>0, <1>3, <2>1, <2>3, <2>4 DEF Frame
    <3>2. <<s, p>> \in Slots /\ <<s, p>> # <<r, pos[r]>>
      BY <1>0, <3>1 DEF Slots
    <3>3. audit[<<s, p>>].kind = "NONE"
      BY <3>1 DEF UnauditedOK
    <3> QED
      BY <2>2, <3>2, <3>3
  <2> QED
    BY <2>1, <2>2, <2>4 DEF UnauditedOK
<1>4. ASSUME NEW r \in Requests, Frame(r),
             \/ Arrives(r) \/ Moves(r) \/ Puts(r) \/ Deletes(r)
             \/ \E code : Settles(r, code)
      PROVE  /\ UnauditedOK'
             /\ \A x \in Slots : audit[x].kind # "NONE" => audit'[x] = audit[x]
  BY <1>2, <1>3, <1>4
<1> QED
  BY <1>1, <1>4, NextClasses DEF vars

LEMMA InitHandlerInv == Init => HandlerInv
<1> SUFFICES ASSUME Init PROVE HandlerInv
  OBVIOUS
<1>1. Len(Seed) \in Nat
  BY SeedAssumption
<1>2. \A v \in Seeded : v.by = Earlier /\ v.vid \in 1 .. Len(Seed)
  BY DEF Seeded
<1>3. ErrOK /\ OnceOK /\ SaveOK /\ FreshOK
  BY <1>2 DEF Init, ErrOK, OnceOK, SaveOK, FreshOK, AuditSteps, Finished
<1>4. VidsOK
  BY <1>1, <1>2 DEF Init, VidsOK
<1>5. WritersOK
  BY <1>2 DEF Init, WritersOK
<1>6. UnauditedOK
  BY BoundsAssumption DEF Init, UnauditedOK, Slots, NoRecord
<1> QED
  BY <1>3, <1>4, <1>5, <1>6 DEF HandlerInv

(* The inductive invariant of the handlers. *)
THEOREM HandlerInvariance == Spec => [](TypeInv /\ HandlerInv)
<1>1. Init => TypeInv /\ HandlerInv
  BY InitType, InitHandlerInv
<1>2. TypeInv /\ HandlerInv /\ [Next]_vars => (TypeInv /\ HandlerInv)'
  <2> SUFFICES ASSUME TypeInv, HandlerInv, [Next]_vars PROVE (TypeInv /\ HandlerInv)'
    OBVIOUS
  <2>1. UnauditedOK'
    BY UnauditedStep DEF HandlerInv, UnauditedOK
  <2> QED
    BY <2>1, NextType, ErrStep, VidsStep, WritersStep, OnceStep,
       SaveStep, FreshStep DEF HandlerInv
<1> QED
  BY <1>1, <1>2, PTL DEF Spec

(* The audit table only grows when clients do not resend request ids: a bulk *)
(* upload or deletion never overwrites the record of an earlier item.        *)
THEOREM AuditGrows ==
  ASSUME ReuseIds = FALSE
  PROVE  Spec => AuditIsAppendOnly
<1>1. TypeInv /\ HandlerInv /\ [Next]_vars
        => [\A s \in Slots : audit[s].kind # "NONE" => audit'[s] = audit[s]]_vars
  BY UnauditedStep DEF HandlerInv
<1> QED
  BY <1>1, HandlerInvariance, PTL DEF Spec, AuditIsAppendOnly

=============================================================================
