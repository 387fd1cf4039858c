------------------------------ MODULE EventLoop ------------------------------
(***************************************************************************)
(* The handlers of DocumentStore on the replicas that run them.  A replica *)
(* is one uvicorn process with one event loop: every endpoint is an async  *)
(* function whose calls to the identity provider, S3, DynamoDB and clamd   *)
(* block the loop's thread, so that a handler gives the thread up only     *)
(*   - while its form is parsed (an upload, before its handler starts):    *)
(*     the bytes come from the client, who may take any time to send them, *)
(*   - while a large file is read or rewound: UploadFile hands a file that *)
(*     no longer is in memory to the thread pool                           *)
(*     (mandatory_file_validator.py:43,46).                                *)
(* clamd and the provider are called without a timeout: such a call may    *)
(* never return, and the loop of its replica with it.                      *)
(***************************************************************************)
EXTENDS DocumentStore

CONSTANTS
  Replicas,
  MayHang,    \* may a call without a timeout hang?
  Nowhere     \* the replica of a request that was not sent yet

ASSUME ReplicasAssumption == Nowhere \notin Replicas
ASSUME HangAssumption     == MayHang \in BOOLEAN

VARIABLES
  on,         \* the replica each request was sent to
  queue,      \* per replica: handlers that can go on; the first has the thread
  stage,      \* how far each request's file has come in its checks
  hung        \* replicas whose thread waits for a call that will not return

loopVars == <<on, queue, stage, hung>>
allVars  == <<vars, loopVars>>

OffLoop == {"parsing", "reading", "rewinding"}
Stages  == {"none", "unread", "read", "rewound"} \cup OffLoop

Running(r)   == on[r] # Nowhere /\ pc[r] \notin Finished
HasThread(r) == /\ on[r] \in Replicas \ hung
                /\ queue[on[r]] # <<>> /\ Head(queue[on[r]]) = r

(* What becomes of r's place in the queue, and of its stage. *)
Leaves(r)  == queue' = [queue EXCEPT ![on[r]] = Tail(@)]
Returns(r) == queue' = [queue EXCEPT ![on[r]] = Append(@, r)]
AtStage(r, s) == stage' = [stage EXCEPT ![r] = s]

(* After a step of its handler a request keeps the thread until it is done. *)
QueueAfterYielding(r, q) ==
  IF pc'[r] \in Finished THEN Tail(q)
  ELSE IF pc'[r] \in {"save", "remove"} THEN Append(Tail(q), r) ELSE q
QueueAfter(r, q) == IF pc'[r] \in Finished THEN Tail(q) ELSE q

GoesOn(r) ==
  /\ queue' = [queue EXCEPT ![on[r]] = QueueAfter(r, @)]
  /\ AtStage(r, IF pc'[r] \in {"collection", "checks"} THEN "unread" ELSE "none")
  /\ UNCHANGED <<on, hung>>

-----------------------------------------------------------------------------
(* The load balancer sends a request to some replica; it waits for its turn. *)
Send(r) ==
  /\ on[r] = Nowhere
  /\ \E s \in Replicas :
       /\ on' = [on EXCEPT ![r] = s]
       /\ queue' = [queue EXCEPT ![s] = Append(@, r)]
  /\ UNCHANGED <<vars, stage, hung>>

(* The middlewares and dependencies: the form of an upload is awaited from   *)
(* the client, the other endpoints go straight on.                           *)
Admit(r) ==
  /\ HasThread(r) /\ pc[r] = "idle"
  /\ Arrive(r)
  /\ IF req'[r].op \in Uploads THEN Leaves(r) /\ AtStage(r, "parsing")
                               ELSE UNCHANGED <<queue, stage>>
  /\ UNCHANGED <<on, hung>>

(* validate_optional_body_json: a body that does not fit the model, like a   *)
(* form that cannot be parsed, is refused before the handler starts.         *)
RefuseBody(r) ==
  /\ HasThread(r) /\ stage[r] = "unread"
  /\ pc[r] = Entry(req[r].op) /\ outcome[r] = <<>>
  /\ Answer(r, 400)
  /\ GoesOn(r)

(* The read of a file that is on disk. *)
ReadFile(r) ==
  /\ HasThread(r) /\ stage[r] = "unread"
  /\ pc[r] = "checks" /\ Current(r) # NoKey
  /\ Leaves(r) /\ AtStage(r, "reading")
  /\ UNCHANGED <<vars, on, hung>>

(* clamd answers.  A file in memory has been read on the spot and needs no   *)
(* rewinding elsewhere; one on disk is rewound by the pool.                  *)
Scan(r) ==
  /\ HasThread(r) /\ pc[r] = "checks" /\ Current(r) # NoKey
  /\ \/ stage[r] = "unread" /\ AtStage(r, "rewound") /\ UNCHANGED queue
     \/ stage[r] = "read" /\ AtStage(r, "rewinding") /\ Leaves(r)
  /\ UNCHANGED <<vars, on, hung>>

(* The checks end: with a refusal before the file is read, with an exception *)
(* of the scan, or in any way once the file has been scanned.                *)
Judge(r) ==
  /\ HasThread(r)
  /\ Checks(r)
  /\ CASE stage[r] = "unread"  -> pc'[r] # "exists"
       [] stage[r] = "read"    -> pc'[r] \notin {"exists", "auditUpload"}
       [] stage[r] = "rewound" -> TRUE
  /\ GoesOn(r)

(* Any other call of a handler. *)
Call(r) ==
  /\ HasThread(r) /\ pc[r] \notin {"idle", "checks"}
  /\ Step(r)
  /\ GoesOn(r)

(* What a handler waited for outside the loop has come: it waits for its turn. *)
Forget(r)  == UNCHANGED queue
WakeUp(r)  == Returns(r)

Back(r, from, to) ==
  /\ Running(r) /\ stage[r] = from
  /\ AtStage(r, to) /\ WakeUp(r)
  /\ UNCHANGED <<vars, on, hung>>

(* The client has sent the rest of its form, or has hung up: then the form    *)
(* cannot be parsed, and RefuseBody is the end of it.                        *)
Receive(r) == Back(r, "parsing", "unread")

(* A thread of the pool has finished. *)
Resume(r) == Back(r, "reading", "read") \/ Back(r, "rewinding", "rewound")

(* The provider, asked for keys, or clamd, sent a file, never answers. *)
Hang(r) ==
  /\ MayHang /\ HasThread(r)
  /\ \/ pc[r] = "idle"
     \/ pc[r] = "checks" /\ Current(r) # NoKey /\ stage[r] \in {"unread", "read"}
  /\ hung' = hung \cup {on[r]}
  /\ UNCHANGED <<vars, on, queue, stage>>

(* A replica is killed with all its handlers; a new one takes its place. *)
Kill(s) ==
  /\ "crash" \in Faults
  /\ \E r \in Requests : Running(r) /\ on[r] = s
  /\ pc' = [r \in Requests |-> IF Running(r) /\ on[r] = s THEN "crashed" ELSE pc[r]]
  /\ queue' = [queue EXCEPT ![s] = <<>>]
  /\ stage' = [r \in Requests |-> IF on[r] = s THEN "none" ELSE stage[r]]
  /\ hung' = hung \ {s}
  /\ UNCHANGED <<store, audit, req, handling, versions, began, on>>

Idle ==
  /\ \A r \in Requests : pc[r] \in Finished \/ on[r] \in hung
  /\ UNCHANGED allVars

LoopStep(r) ==
  Admit(r) \/ RefuseBody(r) \/ ReadFile(r) \/ Scan(r) \/ Judge(r) \/ Call(r)

LoopInit ==
  /\ Init
  /\ on = [r \in Requests |-> Nowhere]
  /\ queue = [s \in Replicas |-> <<>>]
  /\ stage = [r \in Requests |-> "none"]
  /\ hung = {}

LoopNext ==
  \/ \E r \in Requests : Send(r) \/ LoopStep(r) \/ Receive(r) \/ Resume(r) \/ Hang(r)
  \/ \E s \in Replicas : Kill(s)
  \/ Idle

(* A loop that does not hang runs the handler whose turn it is, and the pool *)
(* finishes what it was given.  Nothing is assumed of clients, who may stop  *)
(* in the middle of a form and keep the connection (no timeout is configured *)
(* for it), of what hangs and of what is killed.                             *)
LoopSpec ==
  /\ LoopInit /\ [][LoopNext]_allVars
  /\ \A s \in Replicas : WF_allVars(\E r \in Requests : on[r] = s /\ LoopStep(r))
  /\ \A r \in Requests : WF_allVars(Resume(r))

-----------------------------------------------------------------------------
(* Properties *)

Waiting(r) == {i \in DOMAIN queue[on[r]] : queue[on[r]][i] = r}

(* The types, and no handler is lost or run twice: one that is running waits *)
(* exactly once for its thread, or is in the pool's hands.                   *)
LoopOK ==
  /\ TypeOK
  /\ on \in [Requests -> Replicas \cup {Nowhere}]
  /\ queue \in [Replicas -> Seq(Requests)]
  /\ stage \in [Requests -> Stages]
  /\ hung \subseteq Replicas
  /\ \A r \in Requests :
       /\ on[r] = Nowhere => pc[r] = "idle"
       /\ on[r] # Nowhere =>
            Cardinality(Waiting(r)) = IF Running(r) /\ stage[r] \notin OffLoop THEN 1 ELSE 0

(* The client of r stops sending its form and stays connected.               *)
Stalls(r) == <>[](stage[r] = "parsing")

(* Every request sent is answered, or loses its replica, or waits behind a   *)
(* call that hangs on its own replica (clam_av_service.py:26, auth.py:88,93), *)
(* unless its own client stalls: no request is stopped by another replica's  *)
(* hanging call, nor by a client that stalls on its own replica, for parsing *)
(* a form does not keep the thread.                                          *)
AnsweredUnlessHung ==
  \A r \in Requests :
    Stalls(r) \/ (on[r] # Nowhere ~> (pc[r] \in Finished \/ on[r] \in hung))

(* On one replica a POST never overwrites: of two versions of a key, the     *)
(* later is not that of a POST answered 201 by the replica that put the      *)
(* earlier, because the existence check and the put of a handler are not     *)
(* interleaved with another handler of the process                           *)
(* (file_upload_handler.py:42-50).                                           *)
PostsOfAReplicaAreSerial ==
  \A r \in Requests : req[r].op = "post" /\ response[r] = 201 =>
    \A v, w \in bucket :
      v.by = r /\ w.key = v.key /\ w.by # Earlier /\ on[w.by] = on[r] => w.vid >= v.vid

(* When a replica answers that a key is gone, it has left no version that it *)
(* put itself: no upload of the same process slips in between the listing    *)
(* and the last delete (delete_files.py:71-101).                             *)
DeletesOfAReplicaAreSerial ==
  [][\A r \in Requests :
       outcome'[r] # outcome[r] /\ outcome'[r] # <<>> /\ outcome'[r][Len(outcome'[r])] = 204
         => \A v \in bucket' :
              v.key = Current(r) => v.by = Earlier \/ on[v.by] # on[r]]_allVars

=============================================================================
