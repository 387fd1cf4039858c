------------------------ MODULE DocumentStoreSafety ------------------------
(***************************************************************************)
(* What follows from the inductive invariant of DocumentStore: its safety  *)
(* properties, and that it keeps the abstract promise.  The properties     *)
(* speak of settled items, so each is shown by looking at what a step does *)
(* to the items settled before it (OutcomeGrows) and at which step can     *)
(* settle an item with which status (StatusSource).                        *)
(***************************************************************************)
EXTENDS DocumentStoreRefinement, DocumentStoreProofs, FiniteSetTheorems

(* Statuses are appended: a settled item keeps its status, its request and   *)
(* its begin, and a new status is that of the current item.                  *)
LEMMA OutcomeGrows ==
  ASSUME TypeInv, NEW r \in Requests, Frame(r),
         \/ Arrives(r) \/ Moves(r) \/ Puts(r) \/ Deletes(r)
         \/ \E code : Settles(r, code),
         UnauditedOK, HandlerInv, TypeInv',
         NEW s \in Requests, NEW p \in DOMAIN outcome'[s]
  PROVE  \/ /\ p \in DOMAIN outcome[s] /\ outcome'[s][p] = outcome[s][p]
            /\ p \in 1 .. MaxItems
            /\ req'[s] = req[s] /\ began'[s] = began[s]
            /\ s = r => p < pos[r] /\ ~Arrives(r)
         \/ /\ s = r /\ p = pos[r] /\ p \in 1 .. MaxItems
            /\ Settles(r, outcome'[r][p])
<1>0. /\ outcome[s] \in Seq(Codes) /\ Len(outcome[s]) <= Len(req[s].keys)
      /\ Len(req[s].keys) <= MaxItems /\ Len(req[s].keys) \in Nat
      /\ MaxItems \in Nat /\ pos[r] \in 1 .. MaxItems
  <2>1. outcome[s] \in Seq(Codes) /\ pos[r] \in 1 .. MaxItems
    BY DEF TypeInv, TypeOK
  <2>2. req[s].keys \in Seq(Keys \cup {NoKey})
    BY DEF TypeInv, TypeOK, Request
  <2>3. Len(outcome[s]) <= Len(req[s].keys) /\ Len(req[s].keys) <= MaxItems
    BY <2>1, <2>2 DEF TypeInv, ItemOK
  <2> QED
    BY <2>1, <2>2, <2>3, BoundsAssumption
<1>1. CASE s # r
  <2>1. outcome'[s] = outcome[s] /\ req'[s] = req[s] /\ began'[s] = began[s]
    BY <1>1 DEF Frame
  <2> QED
    BY <1>0, <1>1, <2>1
<1>2. CASE s = r /\ \A code : ~Settles(r, code)
  <2>1. outcome'[r] = outcome[r]
    BY <1>2 DEF Arrives, Moves, Puts, Deletes
  <2>2. ~Arrives(r)
    <3>1. Arrives(r) => outcome[r] = <<>>
      BY DEF Arrives, TypeInv, ItemOK
    <3> QED
      BY <1>2, <2>1, <3>1
  <2>3. req' = req /\ began' = began /\ pc[r] \notin Finished
    BY <1>2, <2>2 DEF Moves, Puts, Deletes, Finished
  <2>4. Len(outcome[r]) + 1 = pos[r]
    BY <2>3 DEF TypeInv, ItemOK
  <2> QED
    BY <1>0, <1>2, <2>1, <2>2, <2>3, <2>4
<1>3. ASSUME NEW code, s = r, Settles(r, code)
      PROVE  \/ /\ p \in DOMAIN outcome[s] /\ outcome'[s][p] = outcome[s][p]
                /\ p \in 1 .. MaxItems
                /\ req'[s] = req[s] /\ began'[s] = began[s]
                /\ s = r => p < pos[r] /\ ~Arrives(r)
             \/ /\ s = r /\ p = pos[r] /\ p \in 1 .. MaxItems
                /\ Settles(r, outcome'[r][p])
  <2>1. /\ outcome'[r] = Append(outcome[r], code) /\ pc[r] \notin Finished
        /\ req' = req /\ began' = began /\ ~Arrives(r)
    BY <1>3 DEF Settles, ItemSteps, Finished, Arrives
  <2>2. Len(outcome[r]) + 1 = pos[r]
    BY <2>1 DEF TypeInv, ItemOK
  <2>3. CASE p = pos[r]
    <3>1. outcome'[r][p] = code
      BY <1>0, <1>3, <2>1, <2>2, <2>3
    <3> QED
      BY <1>0, <1>3, <2>3, <3>1
  <2>4. CASE p # pos[r]
    <3>1. p \in 1 .. Len(outcome[r])
      BY <1>0, <1>3, <2>1, <2>2, <2>4
    <3>2. outcome'[r][p] = outcome[r][p]
      BY <1>0, <1>3, <2>1, <3>1
    <3> QED
      BY <1>0, <1>3, <2>1, <2>2, <3>1, <3>2
  <2> QED
    BY <2>3, <2>4
<1> QED
  BY <1>1, <1>2, <1>3

(* Which step gives an item which status. *)
LEMMA StatusSource ==
  ASSUME TypeInv, ErrOK, NEW r \in Requests, NEW code, Settles(r, code)
  PROVE  /\ code = 500 \/ req[r].op = "delete" \/ audit' = Recorded(r, Asked(r))
         /\ code # 500 /\ req[r].op \in Uploads
              => pc[r] = "auditUpload" /\ code = UploadStatus(r, TRUE)
         /\ code = 201 => pc[r] = "auditUpload" /\ err[r] = 0 /\ ~existed[r]
<1>1. /\ pc[r] = "auditUpload" => req[r].op \in Uploads
      /\ pc[r] = "auditDelete" => req[r].op = "delete"
      /\ pc[r] = "auditRead" => req[r].op = "get"
      /\ pc[r] = "auditDetails" => req[r].op = "details"
  BY DEF TypeInv, ItemOK
<1>2. CASE code = 500
  BY <1>2
<1>3. CASE pc[r] = "auditUpload" /\ code = UploadStatus(r, TRUE) /\ audit' = Recorded(r, Asked(r))
  <2>1. UploadStatus(r, TRUE) = 201 => err[r] = 0 /\ ~existed[r]
    BY DEF UploadStatus, ErrOK
  <2> QED
    BY <1>3, <2>1
<1>4. CASE pc[r] = "auditDelete" /\ code = DeleteStatus(r)
  <2>1. DeleteStatus(r) # 201
    BY DEF DeleteStatus, ErrOK
  <2> QED
    BY <1>1, <1>4, <2>1 DEF Uploads
<1>5. CASE pc[r] \in {"auditRead", "auditDetails"} /\ code = ReadStatus(r, TRUE)
           /\ audit' = Recorded(r, Asked(r))
  <2>1. ReadStatus(r, TRUE) # 201
    BY DEF ReadStatus, ErrOK
  <2> QED
    BY <1>1, <1>5, <2>1 DEF Uploads
<1> QED
  BY <1>2, <1>3, <1>4, <1>5 DEF Settles

LEMMA CreatedStep ==
  ASSUME TypeInv, HandlerInv, CreatedIsNew, [Next]_vars
  PROVE  CreatedIsNew'
<1>0. CreatedIsNew <=> \A r \in Requests : \A p \in DOMAIN outcome[r] :
                          outcome[r][p] = 201 => NewSince(r, p)
  BY DEF CreatedIsNew, NewSince
<1>1. CASE UNCHANGED vars
  BY <1>1 DEF vars, CreatedIsNew
<1>2. ASSUME NEW r \in Requests, Frame(r),
             \/ Arrives(r) \/ Moves(r) \/ Puts(r) \/ Deletes(r)
             \/ \E code : Settles(r, code),
             NEW s \in Requests, NEW p \in DOMAIN outcome'[s], outcome'[s][p] = 201
      PROVE  NewSince(s, p)'
  <2>0. TypeInv'
    BY NextType
  <2>1. CASE /\ p \in DOMAIN outcome[s] /\ outcome'[s][p] = outcome[s][p]
             /\ p \in 1 .. MaxItems
             /\ s = r => p < pos[r] /\ ~Arrives(r)
    <3>1. NewSince(s, p)
      BY <1>0, <1>2, <2>1
    <3>2. p \in Nat /\ pos[r] \in Nat
      BY <2>1, BoundsAssumption DEF TypeInv, TypeOK
    <3> QED
      BY <1>2, <2>1, <3>1, <3>2, NewSinceKept DEF HandlerInv
  <2>2. CASE s = r /\ p = pos[r] /\ p \in 1 .. MaxItems /\ Settles(r, outcome'[r][p])
    <3>0. PICK code : code = outcome'[r][p]
      OBVIOUS
    <3>1. pc[r] = "auditUpload" /\ err[r] = 0 /\ ~existed[r]
      <4>1. Settles(r, code) /\ code = 201 /\ ErrOK
        BY <1>2, <2>2, <3>0 DEF HandlerInv
      <4> QED
        BY <4>1, StatusSource
    <3>2. NewSince(r, p)
      BY <2>2, <3>1 DEF HandlerInv, FreshOK
    <3>3. p \in Nat /\ p <= pos[r] /\ ~Arrives(r)
      BY <2>2, <3>1, BoundsAssumption DEF Arrives
    <3> QED
      BY <1>2, <2>2, <3>2, <3>3, NewSinceKept DEF HandlerInv
  <2> QED
    BY <1>2, <2>0, <2>1, <2>2, OutcomeGrows DEF HandlerInv
<1>3. CASE ~UNCHANGED vars
  BY <1>2, <1>3, NextClasses DEF CreatedIsNew, NewSince
<1> QED
  BY <1>1, <1>3

(* An upload answered 201 hides no version that was there before the request *)
(* arrived, and none of the same request's earlier files: what it may race   *)
(* with is only what other requests put while it ran.                        *)
THEOREM CreatedIsNewAlways == Spec => []CreatedIsNew
<1>1. Init => CreatedIsNew
  BY DEF Init, CreatedIsNew
<1>2. TypeInv /\ HandlerInv /\ CreatedIsNew /\ [Next]_vars => CreatedIsNew'
  BY CreatedStep
<1> QED
  BY <1>1, <1>2, HandlerInvariance, PTL DEF Spec

-----------------------------------------------------------------------------
(* Uploads: what is reported is what was stored. *)

LEMMA SavedStep ==
  ASSUME TypeInv, HandlerInv, SavedMeansStored, [Next]_vars
  PROVE  SavedMeansStored'
<1> DEFINE Stored(s, p) == \E v \in written : v.by = s /\ v.pos = p /\ v.key = req[s].keys[p]
<1>1. CASE UNCHANGED vars
  BY <1>1 DEF vars, SavedMeansStored
<1>2. ASSUME NEW r \in Requests, Frame(r),
             \/ Arrives(r) \/ Moves(r) \/ Puts(r) \/ Deletes(r)
             \/ \E code : Settles(r, code),
             NEW s \in Requests, NEW p \in DOMAIN outcome'[s],
             outcome'[s][p] \in {200, 201}, req'[s].op \in Uploads
      PROVE  Stored(s, p)'
  <2>0. TypeInv'
    BY NextType
  <2>1. written \subseteq written'
    <3>1. Puts(r) => written \subseteq written'
      BY PutEffect DEF store
    <3> QED
      BY <1>2, <3>1 DEF Arrives, Moves, Deletes, Settles, store
  <2>2. CASE /\ p \in DOMAIN outcome[s] /\ outcome'[s][p] = outcome[s][p]
             /\ req'[s] = req[s]
    <3>1. Stored(s, p)
      BY <1>2, <2>2 DEF SavedMeansStored
    <3> QED
      BY <2>1, <2>2, <3>1
  <2>3. CASE s = r /\ p = pos[r] /\ Settles(r, outcome'[r][p])
    <3>0. PICK code : code = outcome'[r][p]
      OBVIOUS
    <3>1. Settles(r, code) /\ code \in {200, 201} /\ ErrOK /\ req' = req
      BY <1>2, <2>3, <3>0 DEF HandlerInv, Settles
    <3>2. pc[r] = "auditUpload" /\ code = UploadStatus(r, TRUE)
      <4>1. code # 500 /\ req[r].op \in Uploads
        BY <1>2, <2>3, <3>1
      <4>2. Settles(r, code) /\ ErrOK
        BY <3>1
      <4>3. code # 500 /\ req[r].op \in Uploads
              => pc[r] = "auditUpload" /\ code = UploadStatus(r, TRUE)
        BY <4>2, StatusSource
      <4> QED
        BY <4>1, <4>3
    <3>3. err[r] = 0
      BY <3>1, <3>2 DEF UploadStatus, ErrOK
    <3>4. Stored(r, p)
      BY <2>3, <3>2, <3>3 DEF HandlerInv, SaveOK, Current
    <3> QED
      BY <2>1, <2>3, <3>1, <3>4
  <2> QED
    BY <1>2, <2>0, <2>2, <2>3, OutcomeGrows DEF HandlerInv
<1>3. CASE ~UNCHANGED vars
  BY <1>2, <1>3, NextClasses DEF SavedMeansStored
<1> QED
  BY <1>1, <1>3

(* An upload whose status is 200 or 201 has put a version of its key. *)
THEOREM SavedMeansStoredAlways == Spec => []SavedMeansStored
<1>1. Init => SavedMeansStored
  BY DEF Init, SavedMeansStored
<1>2. TypeInv /\ HandlerInv /\ SavedMeansStored /\ [Next]_vars => SavedMeansStored'
  BY SavedStep
<1> QED
  BY <1>1, <1>2, HandlerInvariance, PTL DEF Spec

(* A version in the history that was not there before is the one just put. *)
LEMMA WrittenGrowth ==
  ASSUME TypeInv, NEW r \in Requests,
         \/ Arrives(r) \/ Moves(r) \/ Puts(r) \/ Deletes(r)
         \/ \E code : Settles(r, code)
  PROVE  /\ written \subseteq written'
         /\ \A v \in written' \ written :
              Puts(r) /\ v.by = r /\ v.pos = pos[r] /\ v \in bucket'
<1>1. CASE Puts(r) /\ ~UNCHANGED store
  <2>1. PICK new : /\ new.by = r /\ new.pos = pos[r]
                   /\ written' = written \cup {new} /\ bucket' = bucket \cup {new}
    BY <1>1, PutEffect
  <2> QED
    BY <1>1, <2>1
<1>2. CASE ~Puts(r) \/ UNCHANGED store
  <2>1. written' = written
    BY <1>2 DEF Arrives, Moves, Deletes, Settles, store
  <2> QED
    BY <2>1
<1> QED
  BY <1>1, <1>2

LEMMA RefusedStep ==
  ASSUME TypeInv, HandlerInv, RefusedMeansUnstored, [Next]_vars
  PROVE  RefusedMeansUnstored'
<1>1. CASE UNCHANGED vars
  BY <1>1 DEF vars, RefusedMeansUnstored, Settled
<1>2. ASSUME NEW r \in Requests, Frame(r),
             \/ Arrives(r) \/ Moves(r) \/ Puts(r) \/ Deletes(r)
             \/ \E code : Settles(r, code),
             NEW v \in written', v.by # Earlier,
             NEW p \in DOMAIN outcome'[v.by], p = v.pos,
             outcome'[v.by][p] \in {400, 409}
      PROVE  FALSE
  <2>0. TypeInv'
    BY NextType
  <2>1. PICK s \in Requests : s = v.by
    BY <1>2, <2>0 DEF TypeInv, TypeOK, Version
  <2>2. CASE /\ p \in DOMAIN outcome[s] /\ outcome'[s][p] = outcome[s][p]
             /\ p \in 1 .. MaxItems
             /\ s = r => p < pos[r] /\ ~Arrives(r)
    <3>1. v \notin written
      BY <1>2, <2>1, <2>2 DEF RefusedMeansUnstored, Settled
    <3>2. s = r /\ p = pos[r]
      BY <1>2, <2>1, <3>1, WrittenGrowth
    <3> QED
      BY <2>2, <3>2, BoundsAssumption
  <2>3. CASE s = r /\ p = pos[r] /\ Settles(r, outcome'[r][p])
    <3>0. PICK code : code = outcome'[r][p]
      OBVIOUS
    <3>1. Settles(r, code) /\ code \in {400, 409} /\ v.by = r
      BY <1>2, <2>1, <2>3, <3>0
    <3>2. v \in written /\ pc[r] \in ItemSteps
      BY <1>2, <3>1 DEF Settles, store
    <3>3. WrittenFor(v, r)
      <4>1. WrittenFor(v, v.by)
        BY <1>2, <3>2 DEF HandlerInv, WritersOK
      <4> QED
        BY <3>1, <4>1
    <3>4. pc[r] = "auditUpload" /\ err[r] \in {0, 500} /\ req[r].op \in Uploads
      BY <1>2, <2>3, <3>2, <3>3 DEF WrittenFor, ItemSteps
    <3>5. PICK status : status = UploadStatus(r, TRUE)
      OBVIOUS
    <3>6. status \in {200, 201, 500}
      BY <3>4, <3>5 DEF UploadStatus
    <3>7. code = status
      <4>1. code # 500 /\ req[r].op \in Uploads
        BY <3>1, <3>4
      <4>2. Settles(r, code) /\ ErrOK
        BY <3>1 DEF HandlerInv
      <4>3. code # 500 /\ req[r].op \in Uploads
              => pc[r] = "auditUpload" /\ code = UploadStatus(r, TRUE)
        BY <4>2, StatusSource
      <4> QED
        BY <3>5, <4>1, <4>3
    <3> QED
      BY <3>1, <3>6, <3>7
  <2> QED
    BY <1>2, <2>0, <2>1, <2>2, <2>3, OutcomeGrows DEF HandlerInv
<1> QED
  BY <1>1, <1>2, NextClasses DEF RefusedMeansUnstored, Settled

(* An upload refused with 400 or 409 has put no version: the refusal reaches *)
(* the audit step with its error set, past the step that saves.              *)
THEOREM RefusedMeansUnstoredAlways == Spec => []RefusedMeansUnstored
<1>1. Init => RefusedMeansUnstored
  BY DEF Init, RefusedMeansUnstored, Seeded
<1>2. TypeInv /\ HandlerInv /\ RefusedMeansUnstored /\ [Next]_vars => RefusedMeansUnstored'
  BY RefusedStep
<1> QED
  BY <1>1, <1>2, HandlerInvariance, PTL DEF Spec

-----------------------------------------------------------------------------
(* The audit table: its records agree with the statuses, and those of saves  *)
(* with the bucket's history.                                                *)

(* The one record a settling step may change. *)
LEMMA OneRecord ==
  ASSUME TypeInv, NEW r \in Requests,
         \/ Arrives(r) \/ Moves(r) \/ Puts(r) \/ Deletes(r)
         \/ \E code : Settles(r, code),
         NEW x \in Slots, audit'[x] # audit[x]
  PROVE  /\ x = SlotOf(r) /\ pc[r] \in AuditSteps
         /\ audit'[x] = [key |-> Current(r), kind |-> KindOf(Asked(r), err[r])]
         /\ req' = req /\ written' = written
<1>1. PICK code : Settles(r, code)
  BY DEF Arrives, Moves, Puts, Deletes
<1>2. /\ pc[r] \in AuditSteps /\ audit' = Recorded(r, Asked(r))
      /\ req' = req /\ written' = written
  BY <1>1 DEF Settles, store
<1>3. audit \in [Slots -> Record]
  BY DEF TypeInv, TypeOK
<1>4. x = SlotOf(r)
  BY <1>2, <1>3 DEF Recorded
<1>5. audit'[x] = [key |-> Current(r), kind |-> KindOf(Asked(r), err[r])]
  BY <1>2, <1>3, <1>4 DEF Recorded
<1> QED
  BY <1>2, <1>4, <1>5

(* The record written with a status other than 500 says what the status says. *)
LEMMA RecordFits ==
  ASSUME TypeInv, ErrOK, NEW r \in Requests, NEW code, Settles(r, code),
         code # 500, req[r].op # "delete"
  PROVE  audit'[SlotOf(r)] = [key |-> Current(r), kind |-> KindFor(req[r].op, code)]
<1>1. /\ pc[r] = "auditUpload" => req[r].op \in Uploads
      /\ pc[r] = "auditDelete" => req[r].op = "delete"
      /\ pc[r] = "auditRead" => req[r].op = "get"
      /\ pc[r] = "auditDetails" => req[r].op = "details"
  BY DEF TypeInv, ItemOK
<1>2. /\ audit' = Recorded(r, Asked(r)) /\ pc[r] \in ItemSteps
      /\ \/ pc[r] = "auditUpload" /\ code = UploadStatus(r, TRUE)
         \/ pc[r] \in {"auditRead", "auditDetails"} /\ code = ReadStatus(r, TRUE)
  BY <1>1 DEF Settles
<1>3. SlotOf(r) \in Slots /\ audit \in [Slots -> Record]
  BY <1>2, CurrentType DEF TypeInv, TypeOK
<1>4. audit'[SlotOf(r)] = [key |-> Current(r), kind |-> KindOf(Asked(r), err[r])]
  BY <1>2, <1>3 DEF Recorded
<1>5. KindOf(Asked(r), err[r]) = KindFor(req[r].op, code)
  <2>1. CASE err[r] # 0
    <3>1. code = err[r] /\ code \notin {200, 201}
      BY <1>2, <2>1 DEF UploadStatus, ReadStatus, ErrOK
    <3> QED
      BY <2>1, <3>1 DEF KindOf, KindFor
  <2>2. CASE err[r] = 0 /\ pc[r] = "auditUpload"
    BY <1>1, <1>2, <2>2 DEF UploadStatus, KindOf, KindFor, Asked, UploadKind, Uploads
  <2>3. CASE err[r] = 0 /\ pc[r] \in {"auditRead", "auditDetails"}
    <3>1. code = 200
      BY <1>2, <2>3 DEF ReadStatus
    <3>2. CASE pc[r] = "auditRead"
      BY <1>1, <2>3, <3>1, <3>2 DEF KindOf, KindFor, Asked, Uploads
    <3>3. CASE pc[r] = "auditDetails"
      BY <1>1, <2>3, <3>1, <3>3 DEF KindOf, KindFor, Asked, Uploads
    <3> QED
      BY <2>3, <3>2, <3>3
  <2> QED
    BY <1>2, <2>1, <2>2, <2>3
<1> QED
  BY <1>4, <1>5

LEMMA AuditedStep ==
  ASSUME TypeInv, HandlerInv, SettledIsAudited, [Next]_vars
  PROVE  SettledIsAudited'
<1> DEFINE Fit(s, p, code) ==
      [key |-> req[s].keys[p], kind |-> KindFor(req[s].op, code)]
<1>1. CASE UNCHANGED vars
  BY <1>1 DEF vars, SettledIsAudited, Sole, Active
<1>2. ASSUME NEW r \in Requests, Frame(r),
             \/ Arrives(r) \/ Moves(r) \/ Puts(r) \/ Deletes(r)
             \/ \E code : Settles(r, code),
             NEW s \in Requests, NEW p \in DOMAIN outcome'[s],
             req'[s].op # "delete", outcome'[s][p] # 500, Sole(s)'
      PROVE  audit'[<<req'[s].id, p>>] =
               [key |-> req'[s].keys[p], kind |-> KindFor(req'[s].op, outcome'[s][p])]
  <2>0. TypeInv'
    BY NextType
  <2>1. CASE /\ p \in DOMAIN outcome[s] /\ outcome'[s][p] = outcome[s][p]
             /\ p \in 1 .. MaxItems
             /\ req'[s] = req[s]
             /\ s = r => p < pos[r] /\ ~Arrives(r)
    <3>1. Sole(s)
      <4>1. ASSUME NEW q \in Requests \ {s}, Active(q) PROVE Active(q)' /\ req'[q] = req[q]
        <5>1. CASE q = r
          <6>1. ~Arrives(r)
            BY <4>1, <5>1 DEF Active, Arrives
          <6>2. pc'[r] # "idle" /\ req' = req
            BY <1>2, <6>1 DEF Moves, Puts, Deletes, Settles
          <6> QED
            BY <5>1, <6>2 DEF Active
        <5>2. CASE q # r
          BY <1>2, <4>1, <5>2 DEF Active, Frame
        <5> QED
          BY <5>1, <5>2
      <4> QED
        BY <1>2, <2>1, <4>1 DEF Sole
    <3>2. audit[<<req[s].id, p>>] = Fit(s, p, outcome[s][p])
      BY <1>2, <2>1, <3>1 DEF SettledIsAudited
    <3>3. PICK x \in Slots : x = <<req[s].id, p>>
      <4>1. req[s].id \in Requests
        BY DEF TypeInv, TypeOK, Request
      <4> QED
        BY <2>1, <4>1 DEF Slots
    <3>4. audit'[x] = audit[x]
      <4>1. SUFFICES ASSUME audit'[x] # audit[x] PROVE FALSE
        OBVIOUS
      <4>2. x = SlotOf(r) /\ req' = req /\ pc[r] \in AuditSteps
        <5>1. x \in Slots /\ audit'[x] # audit[x]
          BY <3>3, <4>1
        <5>2. \/ Arrives(r) \/ Moves(r) \/ Puts(r) \/ Deletes(r)
              \/ \E code : Settles(r, code)
          BY <1>2
        <5> QED
          BY <5>1, <5>2, OneRecord
      <4>3. req[r].id = req[s].id /\ p = pos[r]
        BY <3>3, <4>2 DEF SlotOf
      <4>4. s # r
        BY <2>1, <4>3, BoundsAssumption DEF TypeInv, TypeOK
      <4>5. pc'[r] # "idle"
        BY <1>2, <4>2 DEF AuditSteps, Arrives, Moves, Puts, Deletes, Settles
      <4> QED
        BY <1>2, <4>2, <4>3, <4>4, <4>5 DEF Sole, Active
    <3> QED
      BY <2>1, <3>2, <3>3, <3>4
  <2>2. CASE s = r /\ p = pos[r] /\ Settles(r, outcome'[r][p])
    <3>0. PICK code : code = outcome'[r][p]
      OBVIOUS
    <3>1. Settles(r, code) /\ code # 500 /\ ErrOK /\ req' = req
      BY <1>2, <2>2, <3>0 DEF HandlerInv, Settles
    <3>2. audit'[SlotOf(r)] = [key |-> Current(r), kind |-> KindFor(req[r].op, code)]
      BY <1>2, <2>2, <3>1, RecordFits
    <3> QED
      BY <2>2, <3>0, <3>1, <3>2 DEF SlotOf, Current
  <2> QED
    BY <1>2, <2>0, <2>1, <2>2, OutcomeGrows DEF HandlerInv
<1> QED
  BY <1>1, <1>2, NextClasses DEF SettledIsAudited

(* An upload or a read whose status is not 500 has left the record that      *)
(* belongs to the status, unless a client resent the request's id; this also *)
(* when ids may be resent by others.                                         *)
THEOREM SettledIsAuditedAlways == Spec => []SettledIsAudited
<1>1. Init => SettledIsAudited
  BY DEF Init, SettledIsAudited
<1>2. TypeInv /\ HandlerInv /\ SettledIsAudited /\ [Next]_vars => SettledIsAudited'
  BY AuditedStep
<1> QED
  BY <1>1, <1>2, HandlerInvariance, PTL DEF Spec

LEMMA InventsStep ==
  ASSUME TypeInv, HandlerInv, AuditNeverInventsSaves, [Next]_vars
  PROVE  AuditNeverInventsSaves'
<1>1. CASE UNCHANGED vars
  BY <1>1 DEF vars, AuditNeverInventsSaves
<1>2. ASSUME NEW r \in Requests, Frame(r),
             \/ Arrives(r) \/ Moves(r) \/ Puts(r) \/ Deletes(r)
             \/ \E code : Settles(r, code),
             NEW x \in Slots, audit'[x].kind \in {"CREATE", "UPDATE"}
      PROVE  \E v \in written' :
               /\ v.key = audit'[x].key /\ v.pos = x[2] /\ v.by # Earlier
               /\ req'[v.by].id = x[1]
  <2>1. written \subseteq written'
    BY <1>2, WrittenGrowth
  <2>2. CASE audit'[x] = audit[x]
    <3>1. PICK v \in written :
            v.key = audit[x].key /\ v.pos = x[2] /\ v.by # Earlier /\ req[v.by].id = x[1]
      BY <1>2, <2>2 DEF AuditNeverInventsSaves
    <3>2. pc[v.by] # "idle" /\ v.by \in Requests
      BY <3>1 DEF HandlerInv, WritersOK, WrittenFor, TypeInv, TypeOK, Version
    <3>3. req'[v.by] = req[v.by]
      BY <1>2, <3>2 DEF Frame, Arrives, Moves, Puts, Deletes, Settles
    <3> QED
      BY <2>1, <2>2, <3>1, <3>3
  <2>3. CASE audit'[x] # audit[x]
    <3>1. /\ x = SlotOf(r) /\ pc[r] \in AuditSteps /\ req' = req
          /\ audit'[x] = [key |-> Current(r), kind |-> KindOf(Asked(r), err[r])]
      BY <1>2, <2>3, OneRecord
    <3>2. audit'[x].key = Current(r) /\ audit'[x].kind = KindOf(Asked(r), err[r])
      BY <3>1
    <3>3. err[r] = 0 /\ pc[r] = "auditUpload"
      BY <1>2, <3>1, <3>2 DEF KindOf, Asked, AuditSteps
    <3>4. PICK v \in written : v.by = r /\ v.pos = pos[r] /\ v.key = Current(r)
      BY <3>3 DEF HandlerInv, SaveOK
    <3>5. x[1] = req[r].id /\ x[2] = pos[r] /\ r # Earlier
      BY <3>1, EarlierAssumption DEF SlotOf
    <3> QED
      BY <2>1, <3>1, <3>2, <3>4, <3>5
  <2> QED
    BY <2>2, <2>3
<1> QED
  BY <1>1, <1>2, NextClasses DEF AuditNeverInventsSaves

(* A record of a save stands for a version that was put, also when clients   *)
(* resend request ids and records are overwritten.                           *)
THEOREM AuditNeverInventsSavesAlways == Spec => []AuditNeverInventsSaves
<1>1. Init => AuditNeverInventsSaves
  BY DEF Init, AuditNeverInventsSaves, NoRecord
<1>2. TypeInv /\ HandlerInv /\ AuditNeverInventsSaves /\ [Next]_vars
        => AuditNeverInventsSaves'
  BY InventsStep
<1> QED
  BY <1>1, <1>2, HandlerInvariance, PTL DEF Spec

-----------------------------------------------------------------------------
(* Deletions. *)

LEMMA FiniteStep ==
  ASSUME TypeInv, IsFiniteSet(bucket), [Next]_vars
  PROVE  IsFiniteSet(bucket')
<1>1. ASSUME NEW r \in Requests,
             \/ Arrives(r) \/ Moves(r) \/ Puts(r) \/ Deletes(r)
             \/ \E code : Settles(r, code)
      PROVE  bucket' \subseteq bucket \/ \E new : bucket' = bucket \cup {new}
  BY <1>1, PutEffect DEF Arrives, Moves, Deletes, Settles, store
<1>2. bucket' \subseteq bucket \/ \E new : bucket' = bucket \cup {new}
  BY <1>1, NextClasses DEF vars
<1> QED
  BY <1>2, FS_Subset, FS_AddElement

LEMMA FiniteWrittenStep ==
  ASSUME TypeInv, IsFiniteSet(written), [Next]_vars
  PROVE  IsFiniteSet(written')
<1>1. ASSUME NEW r \in Requests,
             \/ Arrives(r) \/ Moves(r) \/ Puts(r) \/ Deletes(r)
             \/ \E code : Settles(r, code)
      PROVE  written' = written \/ \E new : written' = written \cup {new}
  BY <1>1, PutEffect DEF Arrives, Moves, Deletes, Settles, store
<1>2. written' = written \/ \E new : written' = written \cup {new}
  BY <1>1, NextClasses DEF vars
<1> QED
  BY <1>2, FS_AddElement

LEMMA FiniteSeed == IsFiniteSet(Seeded)
<1> DEFINE vid(i) == [key |-> Seed[i], vid |-> i, by |-> Earlier, pos |-> 1]
           f == [i \in 1 .. Len(Seed) |-> vid(i)]
<1>1. IsFiniteSet(1 .. Len(Seed))
  BY SeedAssumption, FS_Interval
<1>2. f \in Surjection(1 .. Len(Seed), Seeded)
  BY DEF Seeded, Surjection
<1> QED
  BY <1>1, <1>2, FS_Surjection DEF ExistsSurjection

(* A listing of one reply is complete. *)
LEMMA ListingComplete ==
  ASSUME IsFiniteSet(bucket), OnePage, bucket \subseteq Version, NEW k \in Keys \cup {NoKey}
  PROVE  Listing(k) = Matching(k)
<1>0. CASE k = NoKey
  BY <1>0, KeysAssumption, LongerAssumption DEF Listing, Matching, Version
<1>1. k \in Keys => IsFiniteSet(Matching(k)) /\ Cardinality(Matching(k)) <= PageSize
  BY FS_Subset DEF Matching, OnePage
<1>2. ASSUME k \in Keys, NEW v \in Matching(k)
      PROVE  Cardinality({w \in Matching(k) : w # v /\ ListedBefore(k, w, v)}) < PageSize
  <2> DEFINE Before == {w \in Matching(k) : w # v /\ ListedBefore(k, w, v)}
  <2>1. /\ IsFiniteSet(Matching(k) \ {v})
        /\ Cardinality(Matching(k) \ {v}) = Cardinality(Matching(k)) - 1
    BY <1>1, <1>2, FS_RemoveElement
  <2>2. Before \in SUBSET (Matching(k) \ {v})
    OBVIOUS
  <2>3. IsFiniteSet(Before) /\ Cardinality(Before) <= Cardinality(Matching(k) \ {v})
    BY <2>1, <2>2, FS_Subset
  <2>4. Cardinality(Before) \in Nat /\ Cardinality(Matching(k)) \in Nat
    BY <1>1, <1>2, <2>3, FS_CardinalityType
  <2> QED
    BY <1>1, <1>2, <2>1, <2>3, <2>4, PageAssumption
<1> QED
  BY <1>0, <1>2 DEF Listing

(* Among some versions one is the newest. *)
LEMMA NewestOf ==
  ASSUME TypeInv, VidsOK, NEW V \in SUBSET bucket, V # {}
  PROVE  \E w \in V : \A v \in V : ~(v.vid > w.vid)
<1> DEFINE Age(v) == nextVid - v.vid
           T == {Age(v) : v \in V}
           R == {q \in Nat \X Nat : q[1] < q[2]}
<1>1. \A v \in V : Age(v) \in Nat /\ v.vid \in Nat /\ nextVid \in Nat
  BY DEF VidsOK, TypeInv, TypeOK, Version
<1>2. T \subseteq Nat /\ T # {}
  BY <1>1
<1>3. PICK m \in T : \A n \in T : ~(<<n, m>> \in R)
  <2> HIDE DEF T, R
  <2>1. IsWellFoundedOn(R, Nat)
    BY NatLessThanWellFounded DEF R, OpToRel
  <2> QED
    BY <1>2, <2>1, WFMin
<1>4. PICK w \in V : m = Age(w)
  OBVIOUS
<1>5. \A v \in V : ~(v.vid > w.vid)
  <2>1. \A n \in T : ~(n < m)
    BY <1>2, <1>3
  <2>2. ASSUME NEW v \in V PROVE ~(Age(v) < Age(w))
    BY <1>4, <2>1
  <2> QED
    BY <1>1, <2>2
<1> QED
  BY <1>5

(* What a reply of S3 leaves out is older than a whole reply of versions of   *)
(* the same key.                                                             *)
LEMMA LeftOutIsOlder ==
  ASSUME TypeInv, VidsOK, IsFiniteSet(bucket), NEW k,
         NEW v \in bucket, v.key = k, v \notin Listing(k)
  PROVE  Cardinality({w \in Listing(k) : w.key = k /\ w.vid > v.vid}) >= PageSize
<1> DEFINE Before(u) == {w \in Matching(k) : w # u /\ ListedBefore(k, w, u)}
           Newer(u) == {w \in bucket : w.key = k /\ w.vid > u.vid}
           Shown == {w \in Listing(k) : w.key = k /\ w.vid > v.vid}
<1>0. \A u \in bucket : u.vid \in Nat
  BY DEF TypeInv, TypeOK, Version
<1>1. ASSUME NEW u \in bucket, u.key = k, u \notin Listing(k)
      PROVE  Cardinality(Before(u)) >= PageSize /\ Before(u) \subseteq Newer(u)
  <2>1. Before(u) \in SUBSET bucket
    BY DEF Matching
  <2>2. Cardinality(Before(u)) \in Nat
    BY <2>1, FS_Subset, FS_CardinalityType
  <2>3. u \in Matching(k)
    BY <1>1 DEF Matching
  <2>4. ~(Cardinality(Before(u)) < PageSize)
    BY <1>1, <2>3 DEF Listing
  <2>5. Before(u) \subseteq Newer(u)
    BY <1>1 DEF ListedBefore, Matching
  <2> QED
    BY <2>2, <2>4, <2>5, PageAssumption
<1>2. IsFiniteSet(Shown) /\ Cardinality(Shown) \in Nat
  <2>1. Shown \in SUBSET bucket
    BY DEF Listing, Matching
  <2> QED
    BY <2>1, FS_Subset, FS_CardinalityType
<1>3. ASSUME NEW u \in bucket, u.key = k, u \notin Listing(k), Before(u) \subseteq Shown
      PROVE  Cardinality(Shown) >= PageSize
  <2>1. Cardinality(Before(u)) <= Cardinality(Shown) /\ IsFiniteSet(Before(u))
    BY <1>2, <1>3, FS_Subset
  <2>2. Cardinality(Before(u)) >= PageSize /\ Cardinality(Before(u)) \in Nat
    BY <1>1, <1>3, <2>1, FS_CardinalityType
  <2> HIDE DEF Before, Shown
  <2> QED
    BY <1>2, <2>1, <2>2, PageAssumption
<1>4. CASE Newer(v) \subseteq Listing(k)
  <2>1. Before(v) \subseteq Shown
    BY <1>1, <1>4
  <2> QED
    BY <1>3, <2>1
<1>5. CASE ~(Newer(v) \subseteq Listing(k))
  <2>1. PICK m \in Newer(v) \ Listing(k) :
          \A u \in Newer(v) \ Listing(k) : ~(u.vid > m.vid)
    <3>1. Newer(v) \ Listing(k) \in SUBSET bucket /\ Newer(v) \ Listing(k) # {}
      BY <1>5
    <3> QED
      BY <3>1, NewestOf
  <2>2. Before(m) \subseteq Newer(m)
    BY <1>1, <2>1
  <2>3. Newer(m) \subseteq Newer(v)
    BY <1>0, <2>1
  <2>4. Newer(m) \subseteq Shown
    BY <2>1, <2>3
  <2> QED
    BY <1>3, <2>1, <2>2, <2>4
<1> QED
  BY <1>4, <1>5

(* The old versions of a request's keys only ever go. *)
LEMMA OldOfShrinks ==
  ASSUME TypeInv, VidsOK, NEW r \in Requests, Frame(r),
         \/ Arrives(r) \/ Moves(r) \/ Puts(r) \/ Deletes(r)
         \/ \E code : Settles(r, code),
         NEW s \in Requests, s = r => ~Arrives(r), NEW p \in Nat
  PROVE  OldOf(s, p)' \subseteq OldOf(s, p)
<1>1. req'[s] = req[s] /\ began'[s] = began[s]
  BY DEF Frame, Moves, Puts, Deletes, Settles
<1>2. began[s] <= nextVid /\ nextVid \in Nat /\ began[s] \in Nat
  BY DEF VidsOK, TypeInv, TypeOK
<1>3. \A v \in bucket' : v \in bucket \/ v.vid = nextVid
  BY BucketGrowth
<1> QED
  BY <1>1, <1>2, <1>3 DEF OldOf

(* What is gone stays gone, and more goes: ids are not used again. *)
LEMMA NewerGoneGrows ==
  ASSUME TypeInv, VidsOK, NEW r \in Requests,
         \/ Arrives(r) \/ Moves(r) \/ Puts(r) \/ Deletes(r)
         \/ \E code : Settles(r, code),
         NEW v
  PROVE  NewerGone(v) \subseteq NewerGone(v)' /\ written \subseteq written'
<1>1. written \subseteq written'
  <2>1. CASE Puts(r)
    BY <2>1, PutEffect DEF store
  <2> QED
    BY <2>1 DEF Arrives, Moves, Deletes, Settles, store
<1>2. ASSUME NEW w \in written, w \in bucket' PROVE w \in bucket
  <2>1. w.vid < nextVid /\ nextVid \in Nat /\ w.vid \in Nat
    BY DEF VidsOK, TypeInv, TypeOK, Version
  <2> QED
    BY <1>2, <2>1, BucketGrowth
<1> QED
  BY <1>1, <1>2 DEF NewerGone

LEMMA LargerSet ==
  ASSUME NEW T, IsFiniteSet(T), NEW S \in SUBSET T, Cardinality(S) >= PageSize
  PROVE  Cardinality(T) >= PageSize
<1>1. IsFiniteSet(S) /\ Cardinality(S) <= Cardinality(T)
  BY FS_Subset
<1>2. Cardinality(S) \in Nat /\ Cardinality(T) \in Nat
  BY <1>1, FS_CardinalityType
<1> QED
  BY <1>1, <1>2, PageAssumption

LEMMA RemovalStep ==
  ASSUME TypeInv, HandlerInv, IsFiniteSet(written), RemovalOK, [Next]_vars
  PROVE  RemovalOK'
<1>0. IsFiniteSet(bucket) /\ IsFiniteSet(written')
  BY FiniteWrittenStep, FS_Subset DEF HandlerInv, VidsOK
<1>1. CASE UNCHANGED vars
  BY <1>1 DEF vars, RemovalOK, OldOf, NewerGone, NewerListed
<1>2. ASSUME NEW r \in Requests, Frame(r),
             \/ Arrives(r) \/ Moves(r) \/ Puts(r) \/ Deletes(r)
             \/ \E code : Settles(r, code),
             NEW s \in Requests, pc'[s] \in {"remove", "auditDelete"}
      PROVE  /\ versions'[s] \subseteq written' \/ pc'[s] = "auditDelete"
             /\ pc'[s] = "auditDelete" /\ err'[s] = 0 => versions'[s] = {}
             /\ err'[s] = 0 => \A v \in OldOf(s, pos[s])' \ versions'[s] :
                  Cardinality(NewerGone(v)' \cup NewerListed(s, v)') >= PageSize
  <2>1. pos'[s] = pos[s] /\ (s = r => ~Arrives(r) /\ (Moves(r) \/ Deletes(r)))
    <3>1. CASE s # r
      BY <1>2, <3>1 DEF Frame, Arrives, Moves, Puts, Deletes
    <3>2. CASE s = r
      BY <1>2, <3>2 DEF Arrives, Moves, Puts, Deletes, Settles
    <3> QED
      BY <3>1, <3>2
  <2>2. PICK p \in Nat : p = pos[s]
    BY BoundsAssumption DEF TypeInv, TypeOK
  <2>3. OldOf(s, p)' \subseteq OldOf(s, p)
    BY <1>2, <2>1, <2>2, OldOfShrinks DEF HandlerInv
  <2>4. OldOf(s, pos[s])' = OldOf(s, p)'
    BY <2>1, <2>2 DEF OldOf
  <2>5. \A v : NewerGone(v) \subseteq NewerGone(v)' /\ written \subseteq written'
    BY <1>2, NewerGoneGrows DEF HandlerInv
  <2>6. ASSUME versions'[s] \subseteq written'
        PROVE  \A v : IsFiniteSet(NewerGone(v)' \cup NewerListed(s, v)')
    <3>1. \A v : NewerGone(v)' \cup NewerListed(s, v)' \in SUBSET written'
      BY <2>6 DEF NewerGone, NewerListed
    <3> QED
      BY <1>0, <3>1, FS_Subset
  <2>7. CASE s # r
    <3>1. /\ pc'[s] = pc[s] /\ err'[s] = err[s] /\ versions'[s] = versions[s]
      BY <1>2, <2>7 DEF Frame
    <3>2. /\ pc[s] = "remove" => versions[s] \subseteq written
          /\ pc[s] = "auditDelete" /\ err[s] = 0 => versions[s] = {}
      BY DEF RemovalOK
    <3>3. ASSUME err'[s] = 0, NEW v \in OldOf(s, pos[s])' \ versions'[s]
          PROVE  Cardinality(NewerGone(v)' \cup NewerListed(s, v)') >= PageSize
      <4>1. v \in OldOf(s, pos[s]) \ versions[s]
        BY <2>2, <2>3, <2>4, <3>1, <3>3
      <4>2. Cardinality(NewerGone(v) \cup NewerListed(s, v)) >= PageSize
        BY <1>2, <3>1, <3>3, <4>1 DEF RemovalOK
      <4>3. NewerListed(s, v)' = NewerListed(s, v)
        BY <3>1 DEF NewerListed
      <4>4. versions'[s] \subseteq written'
        BY <1>2, <2>5, <3>1, <3>2, <3>3
      <4> QED
        BY <2>5, <2>6, <4>2, <4>3, <4>4, LargerSet
    <3> QED
      BY <1>2, <2>5, <3>1, <3>2, <3>3
  <2>8. CASE s = r /\ Moves(r)
    <3>1. CASE pc'[r] = "auditDelete"
      BY <2>8, <3>1 DEF Moves
    <3>2. CASE pc'[r] = "remove"
      <4>1. pc[r] = "list" /\ versions'[r] = Listing(Current(r)) /\ UNCHANGED store
        BY <2>8, <3>2 DEF Moves
      <4>2. versions'[r] \subseteq bucket /\ versions'[r] \subseteq written'
        BY <4>1 DEF Listing, Matching, HandlerInv, VidsOK, store
      <4>3. ASSUME NEW v \in OldOf(r, pos[r])' \ versions'[r]
            PROVE  Cardinality(NewerGone(v)' \cup NewerListed(r, v)') >= PageSize
        <5>1. v \in bucket /\ v.key = Current(r) /\ v \notin Listing(Current(r))
          BY <2>2, <2>3, <2>4, <2>8, <4>1, <4>3 DEF OldOf, Current
        <5>2. Cardinality({w \in Listing(Current(r)) : w.key = Current(r) /\ w.vid > v.vid})
                >= PageSize
          BY <1>0, <5>1, LeftOutIsOlder DEF HandlerInv
        <5>3. {w \in Listing(Current(r)) : w.key = Current(r) /\ w.vid > v.vid}
                = NewerListed(r, v)'
          BY <4>1, <5>1 DEF NewerListed
        <5> QED
          BY <2>6, <2>8, <4>2, <5>2, <5>3, LargerSet
      <4> QED
        BY <2>8, <3>2, <4>2, <4>3
    <3> QED
      BY <1>2, <2>8, <3>1, <3>2
  <2>9. CASE s = r /\ Deletes(r)
    <3>1. /\ pc[r] = "remove" /\ req' = req /\ written' = written
          /\ pc'[r] = "auditDelete" => versions'[r] = {}
          /\ versions[r] \subseteq written
      BY <2>9 DEF Deletes, RemovalOK
    <3>2. CASE err'[r] # 0
      BY <1>2, <2>9, <3>1, <3>2 DEF Deletes
    <3>3. CASE err'[r] = 0
      <4>1. PICK u \in versions[r] :
              bucket' = AfterDelete(Current(r), u) /\ versions'[r] = versions[r] \ {u}
        BY <2>9, <3>3 DEF Deletes
      <4>2. err[r] = 0 /\ versions'[r] \subseteq written'
        BY <2>9, <3>1, <3>3, <4>1 DEF Deletes
      <4>3. ASSUME NEW v \in OldOf(r, pos[r])' \ versions'[r]
            PROVE  Cardinality(NewerGone(v)' \cup NewerListed(r, v)') >= PageSize
        <5>1. v \in OldOf(r, pos[r]) /\ v \in bucket' /\ v.key = Current(r)
          BY <2>2, <2>3, <2>4, <2>9, <3>1, <4>3 DEF OldOf, Current
        <5>2. v # u
          BY <4>1, <5>1 DEF AfterDelete
        <5>3. Cardinality(NewerGone(v) \cup NewerListed(r, v)) >= PageSize
          BY <3>1, <4>1, <4>2, <4>3, <5>1, <5>2 DEF RemovalOK
        <5>4. ASSUME NEW w \in NewerListed(r, v)
              PROVE  w \in NewerGone(v)' \cup NewerListed(r, v)'
          <6>1. CASE w # u
            BY <4>1, <5>4, <6>1 DEF NewerListed
          <6>2. CASE w = u
            <7>1. w.key = Current(r) /\ w.vid > v.vid /\ w \in written'
              BY <3>1, <5>1, <5>4 DEF NewerListed
            <7>2. w \notin bucket'
              BY <4>1, <6>2, <7>1 DEF AfterDelete
            <7> QED
              BY <5>1, <7>1, <7>2 DEF NewerGone
          <6> QED
            BY <6>1, <6>2
        <5>5. NewerGone(v) \cup NewerListed(r, v) \subseteq NewerGone(v)' \cup NewerListed(r, v)'
          BY <2>5, <5>4
        <5> QED
          BY <2>6, <2>9, <4>2, <5>3, <5>5, LargerSet
      <4> QED
        BY <2>9, <3>1, <4>2, <4>3
    <3> QED
      BY <3>2, <3>3
  <2> QED
    BY <2>1, <2>7, <2>8, <2>9
<1>3. CASE ~UNCHANGED vars
  <2>1. PICK r \in Requests :
          /\ Frame(r)
          /\ \/ Arrives(r) \/ Moves(r) \/ Puts(r) \/ Deletes(r)
             \/ \E code : Settles(r, code)
    BY <1>3, NextClasses
  <2>2. ASSUME NEW s \in Requests, pc'[s] \in {"remove", "auditDelete"}
        PROVE  pos'[s] = pos[s]
    BY <2>1, <2>2 DEF Frame, Arrives, Moves, Puts, Deletes, Settles
  <2>3. \A s \in Requests : pc'[s] \in {"remove", "auditDelete"} =>
          OldOf(s, pos[s])' = {v \in bucket' : v.key = req'[s].keys[pos'[s]] /\ v.vid < began'[s]}
    BY <2>2 DEF OldOf
  <2> QED
    BY <1>2, <2>1, <2>3 DEF RemovalOK
<1> QED
  BY <1>1, <1>3

LEMMA CompleteStep ==
  ASSUME TypeInv, HandlerInv, IsFiniteSet(bucket), OnePage, RemovalComplete, [Next]_vars
  PROVE  RemovalComplete'
<1>1. CASE UNCHANGED vars
  BY <1>1 DEF vars, RemovalComplete, OldOf
<1>2. ASSUME NEW r \in Requests, Frame(r),
             \/ Arrives(r) \/ Moves(r) \/ Puts(r) \/ Deletes(r)
             \/ \E code : Settles(r, code),
             NEW s \in Requests, pc'[s] \in {"remove", "auditDelete"}, err'[s] = 0
      PROVE  /\ OldOf(s, pos[s])' \subseteq versions'[s]
             /\ pc'[s] = "auditDelete" => OldOf(s, pos[s])' = {}
  <2>1. pos'[s] = pos[s] /\ (s = r => ~Arrives(r) /\ (Moves(r) \/ Deletes(r)))
    <3>1. CASE s # r
      BY <1>2, <3>1 DEF Frame, Arrives, Moves, Puts, Deletes
    <3>2. CASE s = r
      BY <1>2, <3>2 DEF Arrives, Moves, Puts, Deletes, Settles
    <3> QED
      BY <3>1, <3>2
  <2>2. PICK p \in Nat : p = pos[s]
    BY BoundsAssumption DEF TypeInv, TypeOK
  <2>3. OldOf(s, p)' \subseteq OldOf(s, p)
    BY <1>2, <2>1, <2>2, OldOfShrinks DEF HandlerInv
  <2>4. OldOf(s, pos[s])' = OldOf(s, p)'
    BY <2>1, <2>2 DEF OldOf
  <2>5. CASE s # r
    BY <1>2, <2>2, <2>3, <2>4, <2>5 DEF Frame, RemovalComplete
  <2>6. CASE s = r /\ Moves(r)
    <3>1. pc[r] = "list" /\ versions'[r] = Listing(Current(r)) /\ pc'[r] = "remove"
      BY <1>2, <2>6 DEF Moves
    <3>2. Current(r) \in Keys \cup {NoKey} /\ bucket \subseteq Version
      BY <3>1, CurrentType DEF ItemSteps, TypeInv, TypeOK
    <3>3. versions'[r] = Matching(Current(r))
      BY <3>1, <3>2, ListingComplete
    <3>4. OldOf(r, p) \subseteq Matching(Current(r))
      BY <2>2, <2>6 DEF OldOf, Matching, Current
    <3> QED
      BY <2>3, <2>4, <2>6, <3>1, <3>3, <3>4
  <2>7. CASE s = r /\ Deletes(r)
    <3>1. PICK v \in versions[r] :
            bucket' = AfterDelete(Current(r), v) /\ versions'[r] = versions[r] \ {v}
      BY <1>2, <2>7 DEF Deletes
    <3>2. pc[r] = "remove" /\ err[r] = 0 /\ req' = req
      BY <1>2, <2>7 DEF Deletes
    <3>3. OldOf(r, p) \subseteq versions[r]
      BY <2>2, <2>7, <3>2 DEF RemovalComplete
    <3>4. v \notin OldOf(r, p)'
      BY <2>2, <2>7, <3>1, <3>2 DEF OldOf, AfterDelete, Current
    <3>5. pc'[r] = "auditDelete" => versions'[r] = {}
      BY <2>7 DEF Deletes
    <3> QED
      BY <2>3, <2>4, <2>7, <3>1, <3>3, <3>4, <3>5
  <2> QED
    BY <2>1, <2>5, <2>6, <2>7
<1>3. CASE ~UNCHANGED vars
  <2>1. PICK r \in Requests :
          /\ Frame(r)
          /\ \/ Arrives(r) \/ Moves(r) \/ Puts(r) \/ Deletes(r)
             \/ \E code : Settles(r, code)
    BY <1>3, NextClasses
  <2> QED
    BY <1>2, <2>1 DEF RemovalComplete
<1> QED
  BY <1>1, <1>3

(* A status that vouches for the absence of old versions keeps its word.     *)
GoneFor(ops, code) ==
  \A s \in Requests : \A p \in DOMAIN outcome[s] :
    req[s].op \in ops /\ outcome[s][p] = code => OldOf(s, p) = {}

LEMMA GoneIsStated ==
  ASSUME TypeInv
  PROVE  /\ GoneFor(AllOps \cup {"none"}, 204) <=> DeletedMeansGone
         /\ GoneFor({"delete", "details"}, 404) <=> NotListedIsTrue
<1>1. \A s \in Requests : \A v \in bucket : v.vid \in Nat /\ began[s] \in Nat
  BY DEF TypeInv, TypeOK, Version
<1>2. \A s \in Requests : req[s].op \in AllOps \cup {"none"}
  BY DEF TypeInv, TypeOK, Request
<1> QED
  BY <1>1, <1>2 DEF DeletedMeansGone, NotListedIsTrue, GoneFor, OldOf

LEMMA GoneStep ==
  ASSUME TypeInv, HandlerInv, NEW ops, NEW code \in {204, 404}, GoneFor(ops, code), [Next]_vars,
         \A r \in Requests : req[r].op \in ops /\ Settles(r, code) => OldOf(r, pos[r]) = {}
  PROVE  GoneFor(ops, code)'
<1>1. CASE UNCHANGED vars
  BY <1>1 DEF vars, GoneFor, OldOf
<1>2. ASSUME NEW r \in Requests, Frame(r),
             \/ Arrives(r) \/ Moves(r) \/ Puts(r) \/ Deletes(r)
             \/ \E status : Settles(r, status),
             NEW s \in Requests, NEW p \in DOMAIN outcome'[s], outcome'[s][p] = code,
             req'[s].op \in ops
      PROVE  OldOf(s, p)' = {}
  <2>0. TypeInv'
    BY NextType
  <2>1. CASE /\ p \in DOMAIN outcome[s] /\ outcome'[s][p] = outcome[s][p]
             /\ p \in 1 .. MaxItems /\ req'[s] = req[s] /\ (s = r => ~Arrives(r))
    <3>1. OldOf(s, p) = {}
      BY <1>2, <2>1 DEF GoneFor
    <3>2. p \in Nat
      BY <2>1, BoundsAssumption
    <3> QED
      BY <1>2, <2>1, <3>1, <3>2, OldOfShrinks DEF HandlerInv
  <2>2. CASE s = r /\ p = pos[r] /\ p \in 1 .. MaxItems /\ Settles(r, outcome'[r][p])
    <3>1. Settles(r, code) /\ pc[r] \in ItemSteps /\ req' = req
      BY <1>2, <2>2 DEF Settles
    <3>2. OldOf(r, p) = {}
      BY <1>2, <2>2, <3>1
    <3>3. p \in Nat /\ ~Arrives(r)
      BY <2>2, <3>1, BoundsAssumption DEF Arrives, ItemSteps
    <3> QED
      BY <1>2, <2>2, <3>2, <3>3, OldOfShrinks DEF HandlerInv
  <2> QED
    BY <1>2, <2>0, <2>1, <2>2, OutcomeGrows DEF HandlerInv
<1>3. CASE ~UNCHANGED vars
  <2>1. PICK r \in Requests :
          /\ Frame(r)
          /\ \/ Arrives(r) \/ Moves(r) \/ Puts(r) \/ Deletes(r)
             \/ \E status : Settles(r, status)
    BY <1>3, NextClasses
  <2>2. \A s \in Requests : \A p \in DOMAIN outcome'[s] :
          req'[s].op \in ops /\ outcome'[s][p] = code => OldOf(s, p)' = {}
    BY <1>2, <2>1
  <2> QED
    BY <2>2 DEF GoneFor
<1> QED
  BY <1>1, <1>3

LEMMA DeletedSource ==
  ASSUME TypeInv, ErrOK, NEW r \in Requests, Settles(r, 204)
  PROVE  pc[r] = "auditDelete" /\ err[r] = 0
<1>1. UploadStatus(r, TRUE) # 204 /\ ReadStatus(r, TRUE) # 204
  BY DEF UploadStatus, ReadStatus, ErrOK
<1>2. DeleteStatus(r) = 204 => err[r] = 0
  BY DEF DeleteStatus, ErrOK
<1>3. pc[r] = "auditDelete" /\ DeleteStatus(r) = 204
  <2>1. \/ 204 = 500
        \/ 204 = UploadStatus(r, TRUE)
        \/ pc[r] = "auditDelete" /\ 204 = DeleteStatus(r)
        \/ 204 = ReadStatus(r, TRUE)
    BY DEF Settles
  <2>2. 204 # 500
    OBVIOUS
  <2> QED
    BY <1>1, <2>1, <2>2, Zenon
<1> QED
  BY <1>2, <1>3

(* A 204 keeps its word about what it left behind. *)
LEMMA LeftOversStep ==
  ASSUME TypeInv, HandlerInv, IsFiniteSet(written), RemovalOK, LeftOversAreOlder, [Next]_vars
  PROVE  LeftOversAreOlder'
<1> DEFINE Word(s, p) ==
      \A v \in OldOf(s, p) : Cardinality(NewerGone(v)) >= PageSize
<1>0. LeftOversAreOlder <=> \A s \in Requests : \A p \in DOMAIN outcome[s] :
                               outcome[s][p] = 204 => Word(s, p)
  BY DEF LeftOversAreOlder, OldOf
<1>1. CASE UNCHANGED vars
  BY <1>1 DEF vars, LeftOversAreOlder, NewerGone
<1>2. ASSUME NEW r \in Requests, Frame(r),
             \/ Arrives(r) \/ Moves(r) \/ Puts(r) \/ Deletes(r)
             \/ \E status : Settles(r, status),
             NEW s \in Requests, NEW p \in DOMAIN outcome'[s], outcome'[s][p] = 204,
             NEW v \in OldOf(s, p)'
      PROVE  Cardinality(NewerGone(v)') >= PageSize
  <2>0. TypeInv' /\ IsFiniteSet(written')
    BY NextType, FiniteWrittenStep
  <2>1. ASSUME p \in Nat, s = r => ~Arrives(r), Word(s, p)
        PROVE  Cardinality(NewerGone(v)') >= PageSize
    <3>1. v \in OldOf(s, p)
      BY <1>2, <2>1, OldOfShrinks DEF HandlerInv
    <3>2. Cardinality(NewerGone(v)) >= PageSize
      BY <2>1, <3>1
    <3>3. NewerGone(v) \subseteq NewerGone(v)'
      BY <1>2, NewerGoneGrows DEF HandlerInv
    <3>4. IsFiniteSet(NewerGone(v)')
      <4>1. NewerGone(v)' \in SUBSET written'
        BY DEF NewerGone
      <4> QED
        BY <2>0, <4>1, FS_Subset
    <3> QED
      BY <3>2, <3>3, <3>4, LargerSet
  <2>2. CASE /\ p \in DOMAIN outcome[s] /\ outcome'[s][p] = outcome[s][p]
             /\ p \in 1 .. MaxItems /\ (s = r => ~Arrives(r))
    <3>1. Word(s, p)
      BY <1>0, <1>2, <2>2
    <3>2. p \in Nat
      BY <2>2, BoundsAssumption
    <3> QED
      BY <2>1, <2>2, <3>1, <3>2
  <2>3. CASE s = r /\ p = pos[r] /\ p \in 1 .. MaxItems /\ Settles(r, outcome'[r][p])
    <3>1. Settles(r, 204)
      BY <1>2, <2>3
    <3>2. pc[r] = "auditDelete" /\ err[r] = 0
      BY <3>1, DeletedSource DEF HandlerInv
    <3>3. versions[r] = {}
      BY <3>2 DEF RemovalOK
    <3>4. Word(r, pos[r])
      <4>1. ASSUME NEW u \in OldOf(r, pos[r]) PROVE Cardinality(NewerGone(u)) >= PageSize
        <5>1. Cardinality(NewerGone(u) \cup NewerListed(r, u)) >= PageSize
          BY <3>2, <3>3, <4>1 DEF RemovalOK
        <5>2. NewerListed(r, u) = {}
          BY <3>3 DEF NewerListed
        <5> QED
          BY <5>1, <5>2
      <4> QED
        BY <4>1
    <3>5. p \in Nat /\ ~Arrives(r)
      BY <2>3, <3>2, BoundsAssumption DEF Arrives
    <3> QED
      BY <2>1, <2>3, <3>4, <3>5
  <2> QED
    BY <1>2, <2>0, <2>2, <2>3, OutcomeGrows DEF HandlerInv
<1>3. CASE ~UNCHANGED vars
  <2>1. PICK r \in Requests :
          /\ Frame(r)
          /\ \/ Arrives(r) \/ Moves(r) \/ Puts(r) \/ Deletes(r)
             \/ \E status : Settles(r, status)
    BY <1>3, NextClasses
  <2>2. \A s \in Requests : \A p \in DOMAIN outcome'[s] : outcome'[s][p] = 204 =>
          \A v \in OldOf(s, p)' : Cardinality(NewerGone(v)') >= PageSize
    BY <1>2, <2>1
  <2> QED
    BY <2>2 DEF LeftOversAreOlder, OldOf
<1> QED
  BY <1>1, <1>3

LEMMA DeletedStep ==
  ASSUME TypeInv, HandlerInv, RemovalComplete, DeletedMeansGone, [Next]_vars
  PROVE  DeletedMeansGone'
<1>1. ASSUME NEW r \in Requests, Settles(r, 204)
      PROVE  OldOf(r, pos[r]) = {}
  BY <1>1, DeletedSource DEF HandlerInv, RemovalComplete
<1>2. PICK code \in {204, 404} : code = 204
  OBVIOUS
<1>3. /\ GoneFor(AllOps \cup {"none"}, code)
      /\ \A r \in Requests : Settles(r, code) => OldOf(r, pos[r]) = {}
  BY <1>1, <1>2, GoneIsStated
<1>4. GoneFor(AllOps \cup {"none"}, code)'
  BY <1>3, GoneStep
<1>5. TypeInv'
  BY NextType
<1>6. /\ \A s \in Requests : req'[s].op \in AllOps \cup {"none"} /\ began'[s] \in Nat
      /\ \A v \in bucket' : v.vid \in Nat
  BY <1>5 DEF TypeInv, TypeOK, Version, Request
<1> QED
  BY <1>2, <1>4, <1>6 DEF DeletedMeansGone, GoneFor, OldOf

(* A deletion that has met no error has every old version on its list, but    *)
(* for those older than a whole reply of others: the inductive invariant of  *)
(* the loop over the listing, for every size of a reply.                     *)
THEOREM RemovalOKAlways == Spec => []RemovalOK
<1>1. Init => IsFiniteSet(written) /\ RemovalOK
  BY FiniteSeed DEF Init, RemovalOK
<1>2. TypeInv /\ HandlerInv /\ IsFiniteSet(written) /\ RemovalOK /\ [Next]_vars
        => (IsFiniteSet(written) /\ RemovalOK)'
  BY FiniteWrittenStep, RemovalStep
<1> QED
  BY <1>1, <1>2, HandlerInvariance, PTL DEF Spec

(* What a deletion answered 204 leaves of a key is older than a whole reply   *)
(* of versions that are gone.                                                *)
THEOREM LeftOversAreOlderAlways == Spec => []LeftOversAreOlder
<1>1. Init => IsFiniteSet(written) /\ RemovalOK /\ LeftOversAreOlder
  BY FiniteSeed DEF Init, RemovalOK, LeftOversAreOlder
<1>2. /\ TypeInv /\ HandlerInv /\ IsFiniteSet(written) /\ RemovalOK /\ LeftOversAreOlder
      /\ [Next]_vars
    => (IsFiniteSet(written) /\ RemovalOK /\ LeftOversAreOlder)'
  BY FiniteWrittenStep, RemovalStep, LeftOversStep
<1> QED
  BY <1>1, <1>2, HandlerInvariance, PTL DEF Spec

(* So a key answered 204 has none of the versions left that were there when   *)
(* the request arrived, as long as no listing outgrows one reply of S3: what *)
(* delete_files.py:28 says, with the condition it leaves out.                *)
THEOREM DeletedMeansGoneAlways == Spec /\ []OnePage => []DeletedMeansGone
<1>1. Init => IsFiniteSet(bucket) /\ RemovalComplete /\ DeletedMeansGone
  BY FiniteSeed DEF Init, RemovalComplete, DeletedMeansGone
<1>2. /\ TypeInv /\ HandlerInv /\ OnePage
      /\ IsFiniteSet(bucket) /\ RemovalComplete /\ DeletedMeansGone /\ [Next]_vars
    => (IsFiniteSet(bucket) /\ RemovalComplete /\ DeletedMeansGone)'
  BY FiniteStep, CompleteStep, DeletedStep
<1> QED
  BY <1>1, <1>2, HandlerInvariance, PTL DEF Spec

-----------------------------------------------------------------------------
(* Not found: a listing that is empty leaves no version that the request     *)
(* could have meant.                                                         *)

(* However many versions a prefix has, a reply of S3 shows some: the newest  *)
(* version of the key itself has none before it.                             *)
LEMMA NothingListed ==
  ASSUME TypeInv, VidsOK, NEW k, Listing(k) = {}
  PROVE  ~HoldsKey(k)
<1> SUFFICES ASSUME HoldsKey(k) PROVE FALSE
  OBVIOUS
<1> DEFINE V == {v \in bucket : v.key = k}
<1>1. PICK w \in V : \A v \in V : ~(v.vid > w.vid)
  <2>1. V \in SUBSET bucket /\ V # {}
    BY DEF HoldsKey
  <2> QED
    BY <2>1, NewestOf
<1>2. {v \in Matching(k) : v # w /\ ListedBefore(k, v, w)} = {}
  BY <1>1 DEF Matching, ListedBefore
<1>3. Cardinality({v \in Matching(k) : v # w /\ ListedBefore(k, v, w)}) < PageSize
  BY <1>2, FS_EmptySet, PageAssumption
<1>4. w \in Listing(k)
  BY <1>1, <1>3 DEF Listing, Matching
<1> QED
  BY <1>4

LEMMA MissingStep ==
  ASSUME TypeInv, HandlerInv, MissingOK, [Next]_vars
  PROVE  MissingOK'
<1>1. CASE UNCHANGED vars
  BY <1>1 DEF vars, MissingOK, OldOf
<1>2. ASSUME NEW r \in Requests, Frame(r),
             \/ Arrives(r) \/ Moves(r) \/ Puts(r) \/ Deletes(r)
             \/ \E code : Settles(r, code),
             NEW s \in Requests, pc'[s] \in {"auditDelete", "auditDetails"},
             err'[s] = 404
      PROVE  OldOf(s, pos[s])' = {}
  <2>1. s = r => Moves(r) /\ ~Arrives(r) /\ pos'[r] = pos[r]
    <3>1. Deletes(r) => err'[r] # 404
      BY DEF Deletes, HandlerInv, ErrOK
    <3>2. pc'[r] \in {"auditDelete", "auditDetails"}
            => ~Arrives(r) /\ ~Puts(r) /\ \A code : ~Settles(r, code)
      BY DEF Arrives, Puts, Settles
    <3> QED
      BY <1>2, <3>1, <3>2 DEF Moves
  <2>2. PICK p \in Nat : p = pos[s]
    BY BoundsAssumption DEF TypeInv, TypeOK
  <2>3. OldOf(s, p)' \subseteq OldOf(s, p)
    BY <1>2, <2>1, <2>2, OldOfShrinks DEF HandlerInv
  <2>4. OldOf(s, p) = {}
    <3>1. CASE s # r
      BY <1>2, <2>2, <3>1 DEF Frame, MissingOK
    <3>2. CASE s = r
      <4>1. ~HoldsKey(Current(r))
        BY <1>2, <2>1, <3>2, NothingListed DEF Moves, HandlerInv
      <4> QED
        BY <2>2, <3>2, <4>1 DEF HoldsKey, OldOf, Current
    <3> QED
      BY <3>1, <3>2
  <2>5. pos'[s] = pos[s]
    BY <1>2, <2>1 DEF Frame
  <2> QED
    BY <2>2, <2>3, <2>4, <2>5 DEF OldOf
<1> QED
  BY <1>1, <1>2, NextClasses DEF MissingOK

LEMMA NotFoundSource ==
  ASSUME TypeInv, ErrOK, NEW r \in Requests, req[r].op \in {"delete", "details"},
         Settles(r, 404)
  PROVE  pc[r] \in {"auditDelete", "auditDetails"} /\ err[r] = 404
<1>1. /\ ReadStatus(r, TRUE) = 404 => err[r] = 404
      /\ DeleteStatus(r) = 404 => err[r] = 404
  BY DEF ReadStatus, DeleteStatus, ErrOK
<1>2. pc[r] \notin {"auditUpload", "auditRead"}
  BY DEF TypeInv, ItemOK, Uploads
<1>3. \/ 404 = 500
      \/ pc[r] = "auditUpload" /\ 404 = UploadStatus(r, TRUE)
      \/ pc[r] = "auditDelete" /\ 404 = DeleteStatus(r)
      \/ pc[r] \in {"auditRead", "auditDetails"} /\ 404 = ReadStatus(r, TRUE)
  BY DEF Settles
<1>4. 404 # 500
  OBVIOUS
<1> QED
  BY <1>1, <1>2, <1>3, <1>4, Zenon

LEMMA NotListedStep ==
  ASSUME TypeInv, HandlerInv, MissingOK, NotListedIsTrue, [Next]_vars
  PROVE  NotListedIsTrue'
<1>1. ASSUME NEW r \in Requests, req[r].op \in {"delete", "details"}, Settles(r, 404)
      PROVE  OldOf(r, pos[r]) = {}
  BY <1>1, NotFoundSource DEF HandlerInv, MissingOK
<1>2. PICK code \in {204, 404} : code = 404
  OBVIOUS
<1>3. PICK ops : ops = {"delete", "details"}
  OBVIOUS
<1>4. /\ GoneFor(ops, code)
      /\ \A r \in Requests : req[r].op \in ops /\ Settles(r, code) => OldOf(r, pos[r]) = {}
  BY <1>1, <1>2, <1>3, GoneIsStated
<1>5. GoneFor(ops, code)'
  BY <1>4, GoneStep
<1>6. TypeInv'
  BY NextType
<1> QED
  BY <1>2, <1>3, <1>5, <1>6 DEF NotListedIsTrue, GoneFor, OldOf, TypeInv, TypeOK, Version

(* A deletion or a look at the details that reports 404 is right, whatever    *)
(* races with it, whatever fails and however long the listing is.            *)
THEOREM NotListedIsTrueAlways == Spec => []NotListedIsTrue
<1>1. Init => MissingOK /\ NotListedIsTrue
  BY DEF Init, MissingOK, NotListedIsTrue
<1>2. TypeInv /\ HandlerInv /\ MissingOK /\ NotListedIsTrue /\ [Next]_vars
        => (MissingOK /\ NotListedIsTrue)'
  BY MissingStep, NotListedStep
<1> QED
  BY <1>1, <1>2, HandlerInvariance, PTL DEF Spec

-----------------------------------------------------------------------------
(* Nothing is taken along by a deletion that did not name it. *)

LEMMA VanishesStep ==
  ASSUME TypeInv, HandlerInv, NothingVanishes, [Next]_vars
  PROVE  NothingVanishes'
<1>1. CASE UNCHANGED vars
  BY <1>1 DEF vars, NothingVanishes
<1>2. ASSUME NEW r \in Requests, Frame(r),
             \/ Arrives(r) \/ Moves(r) \/ Puts(r) \/ Deletes(r)
             \/ \E code : Settles(r, code),
             NEW v \in written' \ bucket'
      PROVE  \E s \in Requests :
               /\ req'[s].op = "delete"
               /\ \E p \in DOMAIN req'[s].keys : req'[s].keys[p] = v.key
  <2>1. v \in written
    <3>1. v \notin written => Puts(r) /\ ~UNCHANGED store
      BY <1>2, WrittenGrowth DEF store
    <3>2. Puts(r) /\ ~UNCHANGED store =>
            \E new : bucket' = bucket \cup {new} /\ written' = written \cup {new}
      BY PutEffect
    <3> QED
      BY <1>2, <3>1, <3>2
  <2>2. CASE v \notin bucket
    <3>1. PICK s \in Requests :
            req[s].op = "delete" /\ \E p \in DOMAIN req[s].keys : req[s].keys[p] = v.key
      BY <2>1, <2>2 DEF NothingVanishes
    <3>2. pc[s] # "idle"
      BY <3>1 DEF TypeInv, ItemOK
    <3>3. req'[s] = req[s]
      BY <1>2, <3>2 DEF Frame, Arrives, Moves, Puts, Deletes, Settles
    <3> QED
      BY <3>1, <3>3
  <2>3. CASE v \in bucket
    <3>1. Deletes(r)
      <4>1. Puts(r) => bucket \subseteq bucket'
        BY PutEffect DEF store
      <4> QED
        BY <1>2, <2>3, <4>1 DEF Arrives, Moves, Settles, store
    <3>2. v.key = Current(r) /\ pc[r] = "remove" /\ req' = req
      BY <1>2, <2>3, <3>1 DEF Deletes
    <3>3. req[r].op = "delete" /\ pos[r] \in DOMAIN req[r].keys
      BY <3>2, CurrentType DEF TypeInv, ItemOK, ItemSteps
    <3> QED
      BY <3>2, <3>3 DEF Current
  <2> QED
    BY <2>2, <2>3
<1> QED
  BY <1>1, <1>2, NextClasses DEF NothingVanishes

(* A version leaves the bucket only by a deletion that named exactly its     *)
(* key, although deletions list by prefix.                                   *)
THEOREM NothingVanishesAlways == Spec => []NothingVanishes
<1>1. Init => NothingVanishes
  BY DEF Init, NothingVanishes
<1>2. TypeInv /\ HandlerInv /\ NothingVanishes /\ [Next]_vars => NothingVanishes'
  BY VanishesStep
<1> QED
  BY <1>1, <1>2, HandlerInvariance, PTL DEF Spec

------------------------------------------------------------------------------
(* Every handler implements AuditedOperation, when clients resend no request *)
(* id: the initial states map to initial states, an arrival to Ask, a put to *)
(* Store, a settled item to End, and every other step to a stutter.          *)

(* The item a handler is at is an item of the table, whose turn it is. *)
LEMMA ItsTurn ==
  ASSUME TypeInv, NEW r \in Requests, pc[r] \in ItemSteps
  PROVE  /\ <<r, pos[r]>> \in Slots
         /\ AskedItems[<<r, pos[r]>>] = AskOf(req[r].op)
         /\ Promise!Turn(<<r, pos[r]>>)
<1>1. /\ pos[r] \in 1 .. MaxItems /\ pos[r] \in DOMAIN req[r].keys
      /\ MaxItems \in Nat
  BY CurrentType, BoundsAssumption DEF TypeInv, TypeOK
<1>2. <<r, pos[r]>> \in Slots
  BY <1>1 DEF Slots
<1>3. AskedItems[<<r, pos[r]>>] = AskOf(req[r].op)
  BY <1>1, <1>2 DEF AskedItems
<1>4. outcome[r] \in Seq(Codes) /\ Len(outcome[r]) + 1 = pos[r]
  BY DEF TypeInv, TypeOK, ItemOK, ItemSteps, Finished
<1>5. ItemStatus[<<r, pos[r]>>] = 0
  BY <1>1, <1>2, <1>4 DEF ItemStatus
<1>6. ASSUME NEW p \in 1 .. MaxItems, p < pos[r]
      PROVE  ItemStatus[<<r, p>>] # 0
  <2>1. <<r, p>> \in Slots /\ p \in DOMAIN outcome[r]
    BY <1>1, <1>4, <1>6 DEF Slots
  <2>2. ItemStatus[<<r, p>>] = outcome[r][p] /\ outcome[r][p] \in Codes
    BY <1>4, <2>1 DEF ItemStatus
  <2> QED
    BY <2>2 DEF Codes
<1>7. Promise!Turn(<<r, pos[r]>>)
  BY <1>5, <1>6 DEF Promise!Turn
<1> QED
  BY <1>2, <1>3, <1>7

(* An item has no file or one: none before it is put, and none when it was   *)
(* refused, one when its put is known to have worked.                        *)
LEMMA FilesOfItem ==
  ASSUME TypeInv, HandlerInv, NEW r \in Requests, pc[r] \in ItemSteps
  PROVE  /\ StoredItems[<<r, pos[r]>>] \in {0, 1}
         /\ pc[r] # "auditUpload" \/ err[r] \in {400, 409}
              => FilesOf(<<r, pos[r]>>) = {} /\ StoredItems[<<r, pos[r]>>] = 0
         /\ pc[r] = "auditUpload" /\ err[r] = 0 => StoredItems[<<r, pos[r]>>] = 1
<1> DEFINE i == <<r, pos[r]>>
<1>1. /\ i \in Slots /\ r # Earlier
      /\ StoredItems[i] = Cardinality(FilesOf(i))
  BY ItsTurn, EarlierAssumption DEF StoredItems
<1>2. FilesOf(i) = {v \in written : v.by = r /\ v.pos = pos[r]}
  BY DEF FilesOf
<1>3. \A v, w \in FilesOf(i) : v = w
  BY <1>1, <1>2 DEF HandlerInv, OnceOK
<1>4. FilesOf(i) = {} => StoredItems[i] = 0
  BY <1>1, FS_EmptySet
<1>5. ASSUME NEW v \in FilesOf(i)
      PROVE  /\ StoredItems[i] = 1
             /\ pc[r] = "auditUpload" /\ err[r] \in {0, 500}
  <2>1. FilesOf(i) = {v}
    BY <1>3
  <2>2. StoredItems[i] = 1
    BY <1>1, <2>1, FS_Singleton
  <2>3. WrittenFor(v, r)
    <3>1. v \in written /\ v.by = r
      BY <1>2
    <3>2. WrittenFor(v, v.by)
      BY <1>1, <3>1 DEF HandlerInv, WritersOK
    <3> QED
      BY <3>1, <3>2
  <2> QED
    BY <1>2, <2>2, <2>3 DEF WrittenFor, ItemSteps
<1>6. pc[r] = "auditUpload" /\ err[r] = 0 => FilesOf(i) # {}
  BY <1>2 DEF HandlerInv, SaveOK
<1> HIDE DEF i
<1>7. StoredItems[i] \in {0, 1}
  BY <1>4, <1>5
<1>8. pc[r] # "auditUpload" \/ err[r] \in {400, 409} => FilesOf(i) = {}
  BY <1>5
<1>9. pc[r] = "auditUpload" /\ err[r] = 0 => StoredItems[i] = 1
  BY <1>5, <1>6
<1> QED
  BY <1>4, <1>7, <1>8, <1>9 DEF i

(* The initial states. *)
LEMMA PromiseInit == Init => Promise!Init
<1> SUFFICES ASSUME Init PROVE Promise!Init
  OBVIOUS
<1>1. ASSUME NEW i \in Slots
      PROVE  /\ AskedItems[i] = "none" /\ StoredItems[i] = 0
             /\ RecordedItems[i] = "NONE" /\ ItemStatus[i] = 0
  <2>1. i[1] \in Requests
    BY DEF Slots
  <2>2. req[i[1]].keys = <<>> /\ outcome[i[1]] = <<>> /\ audit[i] = NoRecord
    BY <2>1 DEF Init
  <2>3. AskedItems[i] = "none" /\ ItemStatus[i] = 0 /\ RecordedItems[i] = "NONE"
    BY <2>2 DEF AskedItems, ItemStatus, RecordedItems, NoRecord
  <2>4. FilesOf(i) = {}
    BY <2>1, EarlierAssumption DEF Init, Seeded, FilesOf
  <2>5. StoredItems[i] = 0
    BY <2>4, FS_EmptySet DEF StoredItems
  <2> QED
    BY <2>3, <2>5
<1>2. /\ AskedItems = [i \in Slots |-> "none"]
      /\ StoredItems = [i \in Slots |-> 0]
      /\ RecordedItems = [i \in Slots |-> "NONE"]
      /\ ItemStatus = [i \in Slots |-> 0]
  BY <1>1 DEF AskedItems, StoredItems, RecordedItems, ItemStatus
<1> QED
  BY <1>2 DEF Promise!Init, Promise!Items, Slots

(* A step that changes none of the four tables of items is a stutter. *)
LEMMA QuietStep ==
  ASSUME req' = req, written' = written, audit' = audit, outcome' = outcome
  PROVE  UNCHANGED Promise!promised
BY DEF Promise!promised, AskedItems, StoredItems, RecordedItems, ItemStatus, FilesOf

(* An arrival asks for items of a request that had none. *)
LEMMA AskStep ==
  ASSUME TypeInv, TypeInv', NEW r \in Requests, Frame(r), Arrives(r)
  PROVE  Promise!Ask(r)
<1>1. req[r].keys = <<>> /\ written' = written /\ audit' = audit /\ outcome' = outcome
  BY DEF Arrives, store, TypeInv, ItemOK
<1>2. \A p \in 1 .. MaxItems : AskedItems[<<r, p>>] = "none"
  BY <1>1 DEF AskedItems, Slots
<1>3. AskedItems' \in [Slots -> Promise!Asks]
  <2>1. \A op : AskOf(op) \in Promise!Asks
    BY DEF AskOf, Promise!Asks
  <2>2. "none" \in Promise!Asks
    BY DEF Promise!Asks
  <2> QED
    BY <2>1, <2>2 DEF AskedItems
<1>4. ASSUME NEW i \in Slots, i[1] # r PROVE AskedItems'[i] = AskedItems[i]
  <2>1. i[1] \in Requests
    BY DEF Slots
  <2>2. req'[i[1]] = req[i[1]]
    BY <1>4, <2>1 DEF Frame
  <2> QED
    BY <2>2 DEF AskedItems
<1>5. UNCHANGED <<StoredItems, RecordedItems, ItemStatus>>
  BY <1>1 DEF StoredItems, RecordedItems, ItemStatus, FilesOf
<1> QED
  BY <1>2, <1>3, <1>4, <1>5 DEF Promise!Ask, Promise!Items, Slots

(* A put stores the one file of the item whose turn it is. *)
LEMMA StoreStep ==
  ASSUME TypeInv, HandlerInv, NEW r \in Requests, Puts(r), ~UNCHANGED store
  PROVE  Promise!Store(<<r, pos[r]>>)
<1> DEFINE i == <<r, pos[r]>>
<1>1. pc[r] = "save" /\ pc[r] \in ItemSteps /\ req[r].op \in Uploads
  BY DEF Puts, ItemSteps, TypeInv, ItemOK
<1>2. i \in Slots /\ AskedItems[i] = "save" /\ Promise!Turn(i)
  <2>1. i \in Slots /\ AskedItems[i] = AskOf(req[r].op) /\ Promise!Turn(i)
    BY <1>1, ItsTurn
  <2>2. AskOf(req[r].op) = "save"
    BY <1>1 DEF AskOf, Uploads
  <2> QED
    BY <2>1, <2>2
<1>3. FilesOf(i) = {} /\ StoredItems[i] = 0
  BY <1>1, FilesOfItem
<1>4. PICK new : new.by = r /\ new.pos = pos[r] /\ written' = written \cup {new}
  BY PutEffect
<1>5. FilesOf(i)' = {new}
  <2>1. pos' = pos
    BY DEF Puts
  <2> QED
    BY <1>3, <1>4, <2>1 DEF FilesOf
<1>6. ASSUME NEW j \in Slots, j # i PROVE Cardinality(FilesOf(j)') = StoredItems[j]
  <2>1. j = <<j[1], j[2]>>
    BY DEF Slots
  <2>2. ~(j[1] = r /\ j[2] = pos[r])
    BY <1>6, <2>1
  <2>3. FilesOf(j)' = FilesOf(j)
    BY <1>4, <2>2 DEF FilesOf
  <2> QED
    BY <2>3 DEF StoredItems
<1>7. Cardinality(FilesOf(i)') = 1
  BY <1>5, FS_Singleton
<1>8. pos' = pos /\ req' = req /\ audit' = audit /\ outcome' = outcome
  BY DEF Puts
<1>9. StoredItems' = [StoredItems EXCEPT ![i] = 1]
  <2>1. ASSUME NEW j \in Slots PROVE StoredItems'[j] = IF j = i THEN 1 ELSE StoredItems[j]
    BY <1>6, <1>7, <1>8 DEF StoredItems, FilesOf
  <2> QED
    BY <1>2, <2>1 DEF StoredItems
<1>10. UNCHANGED <<AskedItems, RecordedItems, ItemStatus>>
  BY <1>8 DEF AskedItems, RecordedItems, ItemStatus
<1> QED
  BY <1>2, <1>3, <1>9, <1>10 DEF Promise!Store

(* What a settled item leaves: a record, or none, and a status that fit the   *)
(* item's question and what was stored.                                      *)
LEMMA EndFits ==
  ASSUME TypeInv, HandlerInv, NEW r \in Requests, NEW code, Settles(r, code),
         ReuseIds = FALSE
  PROVE  <<audit'[<<r, pos[r]>>].kind, code>> \in Promise!Ends(<<r, pos[r]>>)
<1> DEFINE i == <<r, pos[r]>>
<1>1. /\ pc[r] \in ItemSteps /\ req[r].op \in AllOps
      /\ pc[r] \in {"checks", "exists", "save", "auditUpload"} => req[r].op \in Uploads
      /\ pc[r] \in {"list", "remove", "auditDelete"} => req[r].op = "delete"
      /\ pc[r] \in {"url", "auditRead"} => req[r].op = "get"
      /\ pc[r] \in {"details", "auditDetails"} => req[r].op = "details"
  BY DEF Settles, TypeInv, ItemOK, ItemSteps
<1>2. i \in Slots /\ AskedItems[i] = AskOf(req[r].op) /\ SlotOf(r) = i
  BY <1>1, ItsTurn DEF SlotOf, HandlerInv, UnauditedOK
<1>3. PICK kind : kind = audit'[i].kind
  OBVIOUS
<1>4. \/ audit' = audit /\ kind = "NONE"
      \/ pc[r] \in AuditSteps /\ audit' = Recorded(r, Asked(r))
         /\ kind = KindOf(Asked(r), err[r])
  <2>1. CASE audit' = audit
    <3>1. pc[r] \notin Finished /\ pos[r] \in pos[r] .. MaxItems
      BY <1>1, BoundsAssumption DEF ItemSteps, Finished, TypeInv, TypeOK
    <3>2. audit[i].kind = "NONE"
      BY <3>1 DEF HandlerInv, UnauditedOK
    <3> QED
      BY <1>3, <2>1, <3>2
  <2>2. CASE pc[r] \in AuditSteps /\ audit' = Recorded(r, Asked(r))
    <3>1. audit'[i] = [key |-> Current(r), kind |-> KindOf(Asked(r), err[r])]
      BY <1>2, <2>2 DEF Recorded, TypeInv, TypeOK
    <3> QED
      BY <1>3, <2>2, <3>1
  <2> QED
    BY <2>1, <2>2 DEF Settles
<1>5. CASE req[r].op \in Uploads
  <2>1. PICK n : n = StoredItems[i]
    OBVIOUS
  <2>2. /\ n \in {0, 1}
        /\ err[r] \in {400, 409} => n = 0
        /\ pc[r] = "auditUpload" /\ err[r] = 0 => n = 1
    BY <1>1, <2>1, FilesOfItem
  <2>3. \/ kind = "NONE" /\ code = 500
        \/ /\ pc[r] = "auditUpload" /\ code \in {500, UploadStatus(r, TRUE)}
           /\ kind = KindOf(UploadKind(r), err[r])
    <3>1. pc[r] \notin {"auditDelete", "auditRead", "auditDetails"}
      BY <1>1, <1>5 DEF Uploads
    <3>2. code = 500 \/ (/\ pc[r] = "auditUpload" /\ code = UploadStatus(r, TRUE)
                        /\ audit' = Recorded(r, Asked(r)))
      BY <3>1 DEF Settles
    <3>3. Asked(r) = UploadKind(r) \/ pc[r] # "auditUpload"
      BY DEF Asked
    <3>4. pc[r] \in AuditSteps => pc[r] = "auditUpload"
      BY <3>1 DEF AuditSteps
    <3>5. audit' = Recorded(r, Asked(r)) /\ pc[r] = "auditUpload"
            => kind = KindOf(UploadKind(r), err[r])
      <4>1. ASSUME audit' = Recorded(r, Asked(r)), pc[r] = "auditUpload"
            PROVE  audit'[i] = [key |-> Current(r), kind |-> KindOf(Asked(r), err[r])]
        BY <1>2, <4>1 DEF Recorded, TypeInv, TypeOK
      <4> QED
        BY <1>3, <3>3, <4>1
    <3> QED
      BY <1>4, <3>2, <3>3, <3>4, <3>5
  <2>4. <<kind, code>> \in Promise!SaveEnds(n)
    <3>1. CASE kind = "NONE" /\ code = 500
      BY <3>1 DEF Promise!SaveEnds
    <3>2. CASE /\ pc[r] = "auditUpload" /\ code \in {500, UploadStatus(r, TRUE)}
               /\ kind = KindOf(UploadKind(r), err[r])
      <4>1. CASE err[r] = 0
        <5>1. n = 1 /\ kind = UploadKind(r)
          BY <2>2, <3>2, <4>1 DEF KindOf
        <5>2. \/ kind = "UPDATE" /\ code \in {500, 200}
              \/ kind = "CREATE" /\ code \in {500, 201}
          BY <3>2, <4>1, <5>1 DEF UploadStatus, UploadKind
        <5> QED
          BY <5>1, <5>2 DEF Promise!SaveEnds
      <4>2. CASE err[r] # 0
        <5>1. kind = "FAILED" /\ code \in {500, err[r]} /\ err[r] \in {400, 409, 500}
          BY <3>2, <4>2 DEF KindOf, UploadStatus, HandlerInv, ErrOK
        <5>2. code = 500 \/ (code \in {400, 409} /\ n = 0)
          BY <2>2, <5>1
        <5> QED
          BY <5>1, <5>2 DEF Promise!SaveEnds
      <4> QED
        BY <4>1, <4>2
    <3> QED
      BY <2>3, <3>1, <3>2
  <2>5. AskedItems[i] = "save"
    BY <1>2, <1>5 DEF AskOf, Uploads
  <2> QED
    BY <1>3, <2>1, <2>4, <2>5 DEF Promise!Ends
<1>6. CASE req[r].op = "delete"
  <2>1. pc[r] \in {"list", "remove", "auditDelete"}
    BY <1>1, <1>6 DEF ItemSteps, Uploads
  <2>2. \/ kind = "NONE" /\ code \in {204, 404, 500}
        \/ kind = "DELETE" /\ code = 204
        \/ kind = "FAILED" /\ code \in {404, 500}
    <3>1. CASE pc[r] # "auditDelete"
      BY <1>4, <2>1, <3>1 DEF Settles, AuditSteps
    <3>2. CASE pc[r] = "auditDelete"
      <4>1. code = DeleteStatus(r) /\ err[r] \in {0, 404, 500} /\ Asked(r) = "DELETE"
        BY <3>2 DEF Settles, HandlerInv, ErrOK, Asked
      <4> QED
        BY <1>4, <4>1 DEF DeleteStatus, KindOf
    <3> QED
      BY <3>1, <3>2
  <2>3. <<kind, code>> \in Promise!DeleteEnds
    BY <2>2 DEF Promise!DeleteEnds
  <2>4. AskedItems[i] = "delete"
    BY <1>2, <1>6 DEF AskOf, Uploads
  <2> QED
    BY <1>3, <2>3, <2>4 DEF Promise!Ends
<1>7. CASE req[r].op \in {"get", "details"}
  <2>1. pc[r] \in {"url", "details", "auditRead", "auditDetails"}
    BY <1>1, <1>7 DEF ItemSteps, Uploads
  <2>2. \/ kind = "NONE" /\ code = 500
        \/ kind \in {"READ", "INFO"} /\ code \in {200, 500}
        \/ kind = "FAILED" /\ code \in {400, 404, 500}
    <3>1. CASE pc[r] \in {"url", "details"}
      BY <1>4, <3>1 DEF Settles, AuditSteps
    <3>2. CASE pc[r] \in {"auditRead", "auditDetails"}
      <4>1. Asked(r) \in {"READ", "INFO"} /\ err[r] \in {0, 400, 404, 500}
        BY <3>2 DEF HandlerInv, ErrOK, Asked
      <4>2. code = 500 \/ (code = ReadStatus(r, TRUE) /\ audit' = Recorded(r, Asked(r)))
        BY <3>2 DEF Settles
      <4>3. audit' = Recorded(r, Asked(r)) => kind = KindOf(Asked(r), err[r])
        <5>1. ASSUME audit' = Recorded(r, Asked(r))
              PROVE  audit'[i] = [key |-> Current(r), kind |-> KindOf(Asked(r), err[r])]
          BY <1>2, <5>1 DEF Recorded, TypeInv, TypeOK
        <5> QED
          BY <1>3, <5>1
      <4> QED
        BY <1>4, <4>1, <4>2, <4>3 DEF ReadStatus, KindOf
    <3> QED
      BY <2>1, <3>1, <3>2
  <2>3. <<kind, code>> \in Promise!ReadEnds
    BY <2>2 DEF Promise!ReadEnds
  <2>4. AskedItems[i] = "read"
    BY <1>2, <1>7 DEF AskOf, Uploads
  <2> QED
    BY <1>3, <2>3, <2>4 DEF Promise!Ends
<1> QED
  BY <1>1, <1>5, <1>6, <1>7 DEF AllOps, Uploads

(* A settled item ends. *)
LEMMA EndStep ==
  ASSUME TypeInv, HandlerInv, NEW r \in Requests, Frame(r), NEW code, Settles(r, code),
         ReuseIds = FALSE
  PROVE  Promise!End(<<r, pos[r]>>)
<1> DEFINE i == <<r, pos[r]>>
           kind == audit'[i].kind
<1>1. /\ pc[r] \in ItemSteps /\ req' = req /\ written' = written
      /\ outcome'[r] = Append(outcome[r], code)
  BY DEF Settles, store
<1>2. \A s \in Requests \ {r} : outcome'[s] = outcome[s]
  BY DEF Frame
<1>3. i \in Slots /\ SlotOf(r) = i
  BY <1>1, ItsTurn DEF SlotOf, HandlerInv, UnauditedOK
<1>4. Promise!Turn(i)
  BY <1>1, ItsTurn
<1>5. <<kind, code>> \in Promise!Ends(i)
  BY EndFits
<1>6. \A j \in Slots : j # i => audit'[j] = audit[j]
  BY <1>3, OneRecord
<1>7. \A j \in Slots : RecordedItems'[j] = IF j = i THEN kind ELSE RecordedItems[j]
  BY <1>6 DEF RecordedItems
<1>8. ASSUME NEW j \in Slots PROVE ItemStatus'[j] = IF j = i THEN code ELSE ItemStatus[j]
  <2>1. j = <<j[1], j[2]>> /\ j[1] \in Requests /\ j[2] \in 1 .. MaxItems
    BY DEF Slots
  <2>2. CASE j[1] # r
    BY <1>2, <2>1, <2>2 DEF ItemStatus
  <2>3. CASE j[1] = r
    <3>1. outcome[r] \in Seq(Codes) /\ Len(outcome[r]) + 1 = pos[r] /\ MaxItems \in Nat
      BY <1>1, BoundsAssumption DEF TypeInv, TypeOK, ItemOK, ItemSteps, Finished
    <3>2. DOMAIN outcome'[r] = DOMAIN outcome[r] \cup {pos[r]}
      BY <1>1, <3>1
    <3>3. j = i <=> j[2] = pos[r]
      BY <2>1, <2>3
    <3>4. CASE j[2] = pos[r]
      BY <1>1, <2>3, <3>1, <3>2, <3>3, <3>4 DEF ItemStatus
    <3>5. CASE j[2] # pos[r]
      <4>1. j[2] \in DOMAIN outcome[r] => outcome'[r][j[2]] = outcome[r][j[2]]
        BY <1>1, <3>1
      <4> QED
        BY <2>3, <3>2, <3>3, <3>5, <4>1 DEF ItemStatus
    <3> QED
      BY <3>4, <3>5
  <2> QED
    BY <2>2, <2>3
<1>9. /\ RecordedItems' = [RecordedItems EXCEPT ![i] = kind]
      /\ ItemStatus' = [ItemStatus EXCEPT ![i] = code]
  <2> HIDE DEF kind, i
  <2>1. RecordedItems' = [j \in Slots |-> IF j = i THEN kind ELSE RecordedItems[j]]
    BY <1>7 DEF RecordedItems
  <2>2. ItemStatus' = [j \in Slots |-> IF j = i THEN code ELSE ItemStatus[j]]
    BY <1>8 DEF ItemStatus
  <2>3. DOMAIN RecordedItems = Slots /\ DOMAIN ItemStatus = Slots
    BY DEF RecordedItems, ItemStatus
  <2> QED
    BY <1>3, <2>1, <2>2, <2>3
<1>10. UNCHANGED <<AskedItems, StoredItems>>
  BY <1>1 DEF AskedItems, StoredItems, FilesOf
<1> HIDE DEF kind, i
<1>11. \E e \in Promise!Ends(i) :
         /\ RecordedItems' = [RecordedItems EXCEPT ![i] = e[1]]
         /\ ItemStatus' = [ItemStatus EXCEPT ![i] = e[2]]
  <2>1. <<kind, code>>[1] = kind /\ <<kind, code>>[2] = code
    OBVIOUS
  <2> QED
    BY <1>5, <1>9, <2>1
<1> QED
  BY <1>4, <1>10, <1>11 DEF Promise!End, i

(* Every step of the handlers is a step of the promise, or none. *)
LEMMA PromiseStep ==
  ASSUME TypeInv, HandlerInv, [Next]_vars, ReuseIds = FALSE
  PROVE  [Promise!Next]_(Promise!promised)
<1>1. CASE UNCHANGED vars
  BY <1>1, QuietStep DEF vars
<1>2. ASSUME NEW r \in Requests, Frame(r), Arrives(r)
      PROVE  Promise!Next
  BY <1>2, AskStep, NextType DEF Promise!Next
<1>3. ASSUME NEW r \in Requests, Moves(r) \/ Deletes(r) \/ (Puts(r) /\ UNCHANGED store)
      PROVE  UNCHANGED Promise!promised
  <2>1. req' = req /\ written' = written /\ audit' = audit /\ outcome' = outcome
    BY <1>3 DEF Moves, Deletes, Puts, store
  <2> QED
    BY <2>1, QuietStep
<1>4. ASSUME NEW r \in Requests, Puts(r), ~UNCHANGED store
      PROVE  Promise!Next
  <2>1. pc[r] \in ItemSteps
    BY <1>4 DEF Puts, ItemSteps
  <2>2. <<r, pos[r]>> \in Promise!Items
    BY <2>1, ItsTurn DEF Promise!Items, Slots
  <2>3. Promise!Store(<<r, pos[r]>>)
    BY <1>4, StoreStep
  <2> QED
    BY <2>2, <2>3 DEF Promise!Next
<1>5. ASSUME NEW r \in Requests, Frame(r), NEW code, Settles(r, code)
      PROVE  Promise!Next
  <2>1. pc[r] \in ItemSteps
    BY <1>5 DEF Settles
  <2>2. <<r, pos[r]>> \in Promise!Items
    BY <2>1, ItsTurn DEF Promise!Items, Slots
  <2>3. Promise!End(<<r, pos[r]>>)
    BY <1>5, EndStep
  <2> QED
    BY <2>2, <2>3 DEF Promise!Next
<1> QED
  BY <1>1, <1>2, <1>3, <1>4, <1>5, NextClasses

(* The handlers implement the abstract promise: no interleaving, failure or  *)
(* crash makes an item be stored twice, end twice, end out of order, or end  *)
(* with a record or a status that its question and its file do not allow.    *)
THEOREM HandlersKeepPromise ==
  ASSUME ReuseIds = FALSE
  PROVE  Spec => KeepsPromise
<1>1. Init => Promise!Init
  BY PromiseInit
<1>2. TypeInv /\ HandlerInv /\ [Next]_vars => [Promise!Next]_(Promise!promised)
  BY PromiseStep
<1> QED
  BY <1>1, <1>2, HandlerInvariance, PTL DEF Spec, KeepsPromise, Promise!Spec

=============================================================================
