--------------------------- MODULE EventLoopProofs ---------------------------
(***************************************************************************)
(* For every number of requests, replicas and keys: what was proved of the *)
(* handlers holds when they run on event loops that hang and are killed;   *)
(* no handler is lost or run twice; and on one replica no other handler    *)
(* comes between the existence check of a POST and its put, or between the *)
(* listing of a deletion and its last delete.                              *)
(***************************************************************************)
EXTENDS EventLoop, DocumentStoreSafety

(* What a refused body and a killed replica do: handlers end where they are. *)
Ends ==
  /\ UNCHANGED <<store, audit, req, pos, existed, err, versions, outcome, began>>
  /\ response' \in [Requests -> Codes \cup {0}]
  /\ pc' \in [Requests -> Labels]
  /\ \A r \in Requests :
       \/ pc'[r] = pc[r]
       \/ pc[r] \notin Finished /\ pc'[r] = "crashed"
       \/ pc[r] \notin Finished \cup {"idle"} /\ pc'[r] = "done"

LoopTypes ==
  /\ on \in [Requests -> Replicas \cup {Nowhere}]
  /\ queue \in [Replicas -> Seq(Requests)]
  /\ stage \in [Requests -> Stages]
  /\ hung \subseteq Replicas

(* A request that was not sent has not begun, and no file of a request that  *)
(* has not begun is being checked.                                           *)
SentOK ==
  \A r \in Requests :
    /\ on[r] = Nowhere => pc[r] = "idle"
    /\ pc[r] = "idle" => stage[r] = "none"

(* The handlers that can go on are those in the queues, each of them once and *)
(* at its own replica.                                                       *)
InLoop(r) == Running(r) /\ stage[r] \notin OffLoop

QueueOK ==
  /\ \A s \in Replicas : \A i \in DOMAIN queue[s] : on[queue[s][i]] = s /\ InLoop(queue[s][i])
  /\ \A s \in Replicas : \A i, j \in DOMAIN queue[s] : queue[s][i] = queue[s][j] => i = j
  /\ \A r \in Requests : InLoop(r) => \E i \in DOMAIN queue[on[r]] : queue[on[r]][i] = r

(* A handler between its check and its act is first in its queue. *)
Section == {"save", "remove", "auditDelete"}

First(r) == on[r] \in Replicas /\ queue[on[r]] # <<>> /\ Head(queue[on[r]]) = r

HeadOK == \A r \in Requests : pc[r] \in Section => First(r)

LoopInv == TypeInv /\ HandlerInv /\ LoopTypes /\ SentOK /\ QueueOK /\ HeadOK

(* What a step does to the queues and to the handlers that wait in them.     *)
OthersStay(r) ==
  \A t \in Requests \ {r} : pc'[t] = pc[t] /\ on'[t] = on[t] /\ stage'[t] = stage[t]

StaysFirst(r) == /\ HasThread(r) /\ on'[r] = on[r] /\ pc'[r] # "idle"
                 /\ queue' = queue /\ InLoop(r)'

GivesWay(r) == /\ HasThread(r) /\ on'[r] = on[r]
               /\ queue' = [queue EXCEPT ![on[r]] = Tail(@)]
               /\ ~InLoop(r)' /\ pc'[r] \notin Section \cup {"idle"}

Joins(r) == /\ on'[r] \in Replicas /\ on[r] \in {Nowhere, on'[r]}
            /\ queue' = [queue EXCEPT ![on'[r]] = Append(@, r)]
            /\ ~InLoop(r) /\ InLoop(r)' /\ pc'[r] = pc[r]
            /\ pc[r] = "idle" => stage'[r] = "none"

-----------------------------------------------------------------------------
(* The handlers *)

(* Ending a handler breaks nothing that is promised between its calls. *)
LEMMA EndsType ==
  ASSUME TypeInv, Ends
  PROVE  TypeInv'
<1>1. TypeOK'
  BY DEF Ends, TypeInv, TypeOK, store
<1>2. ItemOK'
  BY DEF Ends, TypeInv, TypeOK, ItemOK, Current, ItemSteps, Finished, store
<1> QED
  BY <1>1, <1>2 DEF TypeInv

LEMMA EndsInv ==
  ASSUME TypeInv, HandlerInv, Ends
  PROVE  HandlerInv'
<1>1. ErrOK'
  BY DEF Ends, HandlerInv, ErrOK, AuditSteps, Finished
<1>2. VidsOK' /\ OnceOK'
  BY DEF Ends, HandlerInv, VidsOK, OnceOK, store
<1>3. WritersOK'
  BY DEF Ends, HandlerInv, WritersOK, WrittenFor, Finished, store, TypeInv, TypeOK, Version
<1>4. SaveOK'
  BY DEF Ends, HandlerInv, SaveOK, Current, store
<1>5. FreshOK'
  BY DEF Ends, HandlerInv, FreshOK, NewSince, store
<1>6. UnauditedOK'
  BY DEF Ends, HandlerInv, UnauditedOK, Finished
<1> QED
  BY <1>1, <1>2, <1>3, <1>4, <1>5, <1>6 DEF HandlerInv

LEMMA RefuseEnds ==
  ASSUME TypeInv, SentOK, NEW r \in Requests, InLoop(r), RefuseBody(r)
  PROVE  Ends /\ \A t \in Requests \ {r} : pc'[t] = pc[t]
<1>1. /\ response' = [response EXCEPT ![r] = 400]
      /\ pc' = [pc EXCEPT ![r] = "done"]
      /\ UNCHANGED <<store, audit, req, pos, existed, err, versions, outcome, began>>
  BY DEF RefuseBody, Answer, Goto
<1>2. response' \in [Requests -> Codes \cup {0}]
  BY <1>1 DEF TypeInv, TypeOK, Codes
<1>3. pc' \in [Requests -> Labels] /\ pc'[r] = "done" /\ \A t \in Requests \ {r} : pc'[t] = pc[t]
  BY <1>1 DEF TypeInv, TypeOK, Labels, Finished
<1>4. pc[r] \notin Finished \cup {"idle"}
  BY DEF InLoop, Running, SentOK, RefuseBody
<1> QED
  BY <1>1, <1>2, <1>3, <1>4 DEF Ends

LEMMA KillEnds ==
  ASSUME TypeInv, NEW s, Kill(s)
  PROVE  Ends
<1>1. pc' = [r \in Requests |-> IF Running(r) /\ on[r] = s THEN "crashed" ELSE pc[r]]
      /\ UNCHANGED <<store, audit, req, handling, versions, began>>
  BY DEF Kill
<1>2. pc' \in [Requests -> Labels]
  BY <1>1 DEF TypeInv, TypeOK, Labels, Finished
<1>3. ASSUME NEW r \in Requests
      PROVE  pc'[r] = pc[r] \/ (pc[r] \notin Finished /\ pc'[r] = "crashed")
  <2>1. pc'[r] = IF on[r] # Nowhere /\ pc[r] \notin Finished /\ on[r] = s
                 THEN "crashed" ELSE pc[r]
    BY <1>1 DEF Running
  <2> QED
    BY <2>1
<1> QED
  BY <1>1, <1>2, <1>3 DEF Ends, handling, TypeInv, TypeOK

(* What the handlers do on their replicas: nothing, a step of the handlers   *)
(* by the one that has its thread, or an end.                                *)
Works(r) ==
  /\ Frame(r)
  /\ \/ Arrives(r) \/ Moves(r) \/ Puts(r) \/ Deletes(r)
     \/ \E code : Settles(r, code)
  /\ pc'[r] = "save" => ~Conflicts(r)

(* No handler comes to save past an existing file it must not replace. *)
LEMMA SavesUnlessConflict ==
  ASSUME TypeInv, NEW r \in Requests, Step(r), pc'[r] = "save"
  PROVE  ~Conflicts(r)
<1>1. Frame(r) /\ (Moves(r) \/ Puts(r) \/ Deletes(r) \/ \E code : Settles(r, code))
  BY StepClasses
<1>2. pc[r] = "exists"
  BY <1>1 DEF Moves, Puts, Deletes, Settles
<1>3. CheckExists(r)
  BY <1>2 DEF Step, CollectionChecks, Checks, Save, AuditUpload, Authorise, ListVersions,
              DeleteVersion, AuditDelete, MakeUrl, AuditRead, ShowDetails, AuditDetails
<1>4. CASE Goto(r, AfterCheck(r))
  BY <1>4 DEF Goto, AfterCheck, TypeInv, TypeOK
<1>5. CASE Settle(r, 500)
  <2>1. req[r].op \in AllOps
    BY <1>2 DEF TypeInv, ItemOK
  <2>2. pc'[r] \in {"done", ItemEntry(req[r].op)}
    BY <1>5 DEF Settle, Goto, TypeInv, TypeOK
  <2> QED
    BY <2>1, <2>2 DEF ItemEntry, AllOps, Uploads
<1> QED
  BY <1>3, <1>4, <1>5 DEF CheckExists

LEMMA RunsInLoop ==
  ASSUME LoopTypes, QueueOK, NEW r \in Requests, HasThread(r)
  PROVE  InLoop(r) /\ First(r) /\ queue[on[r]] \in Seq(Requests)
<1>1. on[r] \in Replicas /\ queue[on[r]] # <<>> /\ Head(queue[on[r]]) = r
  BY DEF HasThread
<1>2. queue[on[r]] \in Seq(Requests)
  BY <1>1 DEF LoopTypes
<1>3. 1 \in DOMAIN queue[on[r]] /\ queue[on[r]][1] = r
  BY <1>1, <1>2
<1> QED
  BY <1>1, <1>2, <1>3 DEF QueueOK, First

LEMMA LoopWorks ==
  ASSUME LoopInv, [LoopNext]_allVars
  PROVE  /\ [Next]_vars \/ Ends
         /\ \/ UNCHANGED vars
            \/ Ends
            \/ \E r \in Requests : HasThread(r) /\ Works(r)
         /\ \A r \in Requests : on[r] # Nowhere => on'[r] = on[r]
<1> USE DEF LoopInv
<1> DEFINE Kept == \A r \in Requests : on[r] # Nowhere => on'[r] = on[r]
<1>1. ASSUME NEW r \in Requests, Send(r) PROVE UNCHANGED vars /\ Kept
  <2>1. PICK s \in Replicas : on' = [on EXCEPT ![r] = s]
    BY <1>1 DEF Send
  <2> QED
    BY <1>1, <2>1 DEF Send, LoopTypes
<1>2. ASSUME NEW r \in Requests, Admit(r)
      PROVE  Next /\ HasThread(r) /\ Works(r) /\ Kept
  BY <1>2, ArrivesClass DEF Admit, Next, Works, Arrives
<1>3. ASSUME NEW r \in Requests, RefuseBody(r) PROVE Ends /\ Kept
  <2>1. InLoop(r)
    BY <1>3, RunsInLoop DEF RefuseBody
  <2>2. Kept
    BY <1>3 DEF RefuseBody, GoesOn
  <2> QED
    BY <1>3, <2>1, <2>2, RefuseEnds
<1>4. ASSUME NEW r \in Requests, ReadFile(r) \/ Scan(r) \/ Receive(r) \/ Resume(r) \/ Hang(r)
      PROVE  UNCHANGED vars /\ Kept
  BY <1>4 DEF ReadFile, Scan, Receive, Resume, Back, Hang
<1>5. ASSUME NEW r \in Requests, Judge(r) \/ Call(r)
      PROVE  Next /\ HasThread(r) /\ Works(r) /\ Kept
  <2>1. HasThread(r) /\ Step(r) /\ GoesOn(r)
    BY <1>5 DEF Judge, Call, Step
  <2> QED
    BY <2>1, StepClasses, SavesUnlessConflict DEF Next, Works, GoesOn
<1>6. ASSUME NEW s \in Replicas, Kill(s) PROVE Ends /\ Kept
  BY <1>6, KillEnds DEF Kill
<1>7. CASE Idle \/ UNCHANGED allVars
  BY <1>7 DEF Idle, allVars, loopVars
<1> QED
  BY <1>1, <1>2, <1>3, <1>4, <1>5, <1>6, <1>7 DEF LoopNext, LoopStep

LEMMA LoopHandlerInv ==
  ASSUME LoopInv, [LoopNext]_allVars
  PROVE  TypeInv' /\ HandlerInv'
<1>1. CASE Ends
  BY <1>1, EndsType, EndsInv DEF LoopInv
<1>2. CASE [Next]_vars
  <2>1. TypeInv /\ HandlerInv
    BY DEF LoopInv
  <2>2. UnauditedOK'
    BY <1>2, <2>1, UnauditedStep DEF HandlerInv, UnauditedOK
  <2> QED
    BY <1>2, <2>1, <2>2, NextType, ErrStep, VidsStep, WritersStep, OnceStep,
       SaveStep, FreshStep DEF HandlerInv
<1> QED
  BY <1>1, <1>2, LoopWorks

-----------------------------------------------------------------------------
(* The queues *)

(* Every step keeps the handlers where they were, but for one that goes on,  *)
(* gives the thread up or comes to wait for it, or for a replica that dies.  *)
LEMMA LoopClasses ==
  ASSUME LoopInv, [LoopNext]_allVars
  PROVE  \/ UNCHANGED <<pc, on, queue, stage>>
         \/ \E r \in Requests :
              OthersStay(r) /\ (StaysFirst(r) \/ GivesWay(r) \/ Joins(r))
         \/ \E s \in Replicas : Kill(s)
<1>0. TypeInv /\ LoopTypes /\ SentOK /\ QueueOK /\ HeadOK
  BY DEF LoopInv
<1>1. ASSUME NEW r \in Requests, Send(r) PROVE OthersStay(r) /\ Joins(r)
  <2>1. PICK s \in Replicas :
          /\ on' = [on EXCEPT ![r] = s]
          /\ queue' = [queue EXCEPT ![s] = Append(@, r)]
    BY <1>1 DEF Send
  <2>2. on[r] = Nowhere /\ pc' = pc /\ stage' = stage /\ pc[r] = "idle" /\ stage[r] = "none"
    BY <1>0, <1>1 DEF Send, vars, SentOK
  <2>3. on'[r] = s /\ \A t \in Requests \ {r} : on'[t] = on[t]
    BY <1>0, <2>1 DEF LoopTypes
  <2> QED
    BY <2>1, <2>2, <2>3, ReplicasAssumption
       DEF OthersStay, Joins, InLoop, Running, Finished, OffLoop
<1>2. ASSUME NEW r \in Requests, Admit(r)
      PROVE  OthersStay(r) /\ (StaysFirst(r) \/ GivesWay(r))
  <2>1. HasThread(r) /\ InLoop(r) /\ on' = on
    BY <1>0, <1>2, RunsInLoop DEF Admit
  <2>2. Frame(r) /\ Arrives(r)
    BY <1>0, <1>2, ArrivesClass DEF Admit
  <2>3. pc'[r] \notin Section \cup Finished \cup {"idle"}
    BY <2>2 DEF Arrives, Section, Finished
  <2>4. CASE Leaves(r) /\ AtStage(r, "parsing")
    <3>1. stage'[r] = "parsing" /\ \A t \in Requests \ {r} : stage'[t] = stage[t]
      BY <1>0, <2>4 DEF AtStage, LoopTypes
    <3> QED
      BY <2>1, <2>2, <2>3, <2>4, <3>1
         DEF Leaves, OthersStay, GivesWay, InLoop, OffLoop, Frame
  <2>5. CASE UNCHANGED <<queue, stage>>
    BY <2>1, <2>2, <2>3, <2>5 DEF OthersStay, StaysFirst, InLoop, Running, Frame
  <2> QED
    BY <1>2, <2>4, <2>5 DEF Admit
<1>3. ASSUME NEW r \in Requests, HasThread(r), GoesOn(r), pc'[r] # "idle",
             \A t \in Requests \ {r} : pc'[t] = pc[t]
      PROVE  OthersStay(r) /\ (StaysFirst(r) \/ GivesWay(r))
  <2>1. InLoop(r) /\ First(r) /\ on' = on /\ queue \in [Replicas -> Seq(Requests)]
    BY <1>0, <1>3, RunsInLoop DEF GoesOn, LoopTypes
  <2>2. /\ stage'[r] \in {"unread", "none"}
        /\ \A t \in Requests \ {r} : stage'[t] = stage[t]
    BY <1>0, <1>3 DEF GoesOn, AtStage, LoopTypes
  <2>3. queue' = [queue EXCEPT ![on[r]] = QueueAfter(r, @)]
    BY <1>3 DEF GoesOn
  <2>4. OthersStay(r)
    BY <1>3, <2>1, <2>2 DEF OthersStay
  <2>5. CASE pc'[r] \in Finished
    <3>1. queue' = [queue EXCEPT ![on[r]] = Tail(@)]
      BY <2>3, <2>5 DEF QueueAfter
    <3> QED
      BY <1>3, <2>1, <2>4, <2>5, <3>1 DEF GivesWay, InLoop, Running, Finished, Section
  <2>6. CASE pc'[r] \notin Finished
    <3>1. queue' = queue
      BY <2>1, <2>3, <2>6 DEF QueueAfter
    <3> QED
      BY <1>3, <2>1, <2>2, <2>4, <2>6, <3>1 DEF StaysFirst, InLoop, Running, OffLoop
  <2> QED
    BY <2>5, <2>6
<1>4. ASSUME NEW r \in Requests, RefuseBody(r)
      PROVE  OthersStay(r) /\ (StaysFirst(r) \/ GivesWay(r))
  <2>1. HasThread(r) /\ GoesOn(r) /\ InLoop(r)
    BY <1>0, <1>4, RunsInLoop DEF RefuseBody
  <2>2. pc'[r] # "idle" /\ \A t \in Requests \ {r} : pc'[t] = pc[t]
    <3>1. Ends /\ \A t \in Requests \ {r} : pc'[t] = pc[t]
      BY <1>0, <1>4, <2>1, RefuseEnds
    <3>2. pc' = [pc EXCEPT ![r] = "done"]
      BY <1>4 DEF RefuseBody, Answer, Goto
    <3> QED
      BY <1>0, <3>1, <3>2 DEF TypeInv, TypeOK
  <2> QED
    BY <1>3, <2>1, <2>2
<1>5. ASSUME NEW r \in Requests, Judge(r) \/ Call(r)
      PROVE  OthersStay(r) /\ (StaysFirst(r) \/ GivesWay(r))
  <2>1. HasThread(r) /\ Step(r) /\ GoesOn(r)
    BY <1>5 DEF Judge, Call, Step
  <2>2. pc'[r] # "idle" /\ \A t \in Requests \ {r} : pc'[t] = pc[t]
    <3>1. Frame(r) /\ (Moves(r) \/ Puts(r) \/ Deletes(r) \/ \E code : Settles(r, code))
      BY <1>0, <2>1, StepClasses
    <3>2. (\E code : Settles(r, code)) => pc'[r] # "idle"
      BY DEF Settles
    <3>3. Moves(r) \/ Puts(r) \/ Deletes(r) => pc'[r] # "idle"
      BY DEF Moves, Puts, Deletes
    <3>4. \A t \in Requests \ {r} : pc'[t] = pc[t]
      BY <3>1 DEF Frame
    <3> QED
      BY <3>1, <3>2, <3>3, <3>4
  <2> QED
    BY <1>3, <2>1, <2>2
<1>6. ASSUME NEW r \in Requests, ReadFile(r) \/ Scan(r)
      PROVE  OthersStay(r) /\ (StaysFirst(r) \/ GivesWay(r))
  <2>1. HasThread(r) /\ InLoop(r) /\ on' = on /\ pc' = pc /\ pc[r] = "checks"
    BY <1>0, <1>6, RunsInLoop DEF ReadFile, Scan, vars
  <2>2. PICK l : /\ AtStage(r, l)
                 /\ \/ l \in OffLoop /\ Leaves(r)
                    \/ l \notin OffLoop /\ queue' = queue
    BY <1>6 DEF ReadFile, Scan, OffLoop
  <2>3. stage'[r] = l /\ \A t \in Requests \ {r} : stage'[t] = stage[t]
    BY <1>0, <2>2 DEF AtStage, LoopTypes
  <2> QED
    BY <2>1, <2>2, <2>3
       DEF OthersStay, StaysFirst, GivesWay, Leaves, InLoop, Running, Section
<1>7. ASSUME NEW r \in Requests, Receive(r) \/ Resume(r) PROVE OthersStay(r) /\ Joins(r)
  <2>0. PICK from \in OffLoop, l \in {"unread", "read", "rewound"} : Back(r, from, l)
    BY <1>7 DEF Receive, Resume, OffLoop
  <2>1. Running(r) /\ stage[r] \in OffLoop /\ on' = on /\ pc' = pc
    BY <2>0 DEF Back, vars
  <2>2. on[r] \in Replicas
    BY <1>0, <2>1 DEF Running, LoopTypes
  <2>3. queue' = [queue EXCEPT ![on[r]] = Append(@, r)]
    BY <2>0 DEF Back, WakeUp, Returns
  <2>4. AtStage(r, l) /\ l \notin OffLoop
    BY <2>0 DEF Back, OffLoop
  <2>5. stage'[r] = l /\ \A t \in Requests \ {r} : stage'[t] = stage[t]
    BY <1>0, <2>4 DEF AtStage, LoopTypes
  <2> QED
    BY <1>0, <2>1, <2>2, <2>3, <2>4, <2>5 DEF OthersStay, Joins, InLoop, Running, SentOK, OffLoop
<1>8. ASSUME NEW r \in Requests, Hang(r) PROVE UNCHANGED <<pc, on, queue, stage>>
  BY <1>8 DEF Hang, vars
<1>9. CASE Idle \/ UNCHANGED allVars
  BY <1>9 DEF Idle, allVars, loopVars, vars
<1> QED
  BY <1>1, <1>2, <1>4, <1>5, <1>6, <1>7, <1>8, <1>9 DEF LoopNext, LoopStep

LEMMA LoopTypesStep ==
  ASSUME LoopInv, [LoopNext]_allVars
  PROVE  LoopTypes'
<1>0. LoopTypes /\ QueueOK
  BY DEF LoopInv
<1>1. queue' \in [Replicas -> Seq(Requests)]
  <2>1. ASSUME NEW r \in Requests, StaysFirst(r) \/ GivesWay(r) \/ Joins(r)
        PROVE  queue' \in [Replicas -> Seq(Requests)]
    <3>1. CASE StaysFirst(r)
      BY <1>0, <3>1 DEF StaysFirst, LoopTypes
    <3>2. CASE GivesWay(r)
      <4>1. on[r] \in Replicas /\ queue[on[r]] # <<>> /\ queue[on[r]] \in Seq(Requests)
        BY <1>0, <3>2, RunsInLoop DEF GivesWay, First
      <4>2. Tail(queue[on[r]]) \in Seq(Requests)
        BY <4>1
      <4> QED
        BY <1>0, <3>2, <4>1, <4>2 DEF GivesWay, LoopTypes
    <3>3. CASE Joins(r)
      <4>1. on'[r] \in Replicas /\ queue[on'[r]] \in Seq(Requests)
        BY <1>0, <3>3 DEF Joins, LoopTypes
      <4>2. Append(queue[on'[r]], r) \in Seq(Requests)
        BY <4>1
      <4> QED
        BY <1>0, <3>3, <4>1, <4>2 DEF Joins, LoopTypes
    <3> QED
      BY <2>1, <3>1, <3>2, <3>3
  <2>2. ASSUME NEW s \in Replicas, Kill(s) PROVE queue' \in [Replicas -> Seq(Requests)]
    <3>1. <<>> \in Seq(Requests)
      OBVIOUS
    <3>2. queue' = [queue EXCEPT ![s] = <<>>]
      BY <2>2 DEF Kill
    <3> QED
      BY <1>0, <3>1, <3>2 DEF LoopTypes
  <2> QED
    BY <1>0, <2>1, <2>2, LoopClasses DEF LoopTypes
<1>2. on' \in [Requests -> Replicas \cup {Nowhere}]
  BY <1>0 DEF LoopNext, Send, LoopStep, Admit, RefuseBody, ReadFile, Scan, Judge, Call,
              GoesOn, Receive, Resume, Back, Hang, Kill, Idle, allVars, loopVars, LoopTypes
<1>3. stage' \in [Requests -> Stages]
  <2>1. ASSUME NEW r \in Requests, NEW l \in Stages, AtStage(r, l)
        PROVE  stage' \in [Requests -> Stages]
    BY <1>0, <2>1 DEF AtStage, LoopTypes
  <2>2. ASSUME NEW r \in Requests, GoesOn(r) PROVE stage' \in [Requests -> Stages]
    <3>1. "unread" \in Stages /\ "none" \in Stages
      BY DEF Stages
    <3> QED
      BY <2>1, <2>2, <3>1 DEF GoesOn
  <2>3. ASSUME NEW r \in Requests, Admit(r) PROVE stage' \in [Requests -> Stages]
    <3>1. "parsing" \in Stages
      BY DEF Stages, OffLoop
    <3> QED
      BY <1>0, <2>1, <2>3, <3>1 DEF Admit, LoopTypes
  <2>4. ASSUME NEW r \in Requests, ReadFile(r) \/ Scan(r) PROVE stage' \in [Requests -> Stages]
    <3>1. "reading" \in Stages /\ "rewound" \in Stages /\ "rewinding" \in Stages
      BY DEF Stages, OffLoop
    <3> QED
      BY <2>1, <2>4, <3>1 DEF ReadFile, Scan
  <2>5. ASSUME NEW r \in Requests, Receive(r) \/ Resume(r)
        PROVE  stage' \in [Requests -> Stages]
    <3>1. AtStage(r, "unread") \/ AtStage(r, "read") \/ AtStage(r, "rewound")
      BY <2>5 DEF Receive, Resume, Back
    <3>2. "unread" \in Stages /\ "read" \in Stages /\ "rewound" \in Stages
      BY DEF Stages
    <3> QED
      BY <2>1, <3>1, <3>2
  <2>6. ASSUME NEW s \in Replicas, Kill(s) PROVE stage' \in [Requests -> Stages]
    BY <1>0, <2>6 DEF Kill, LoopTypes, Stages
  <2>7. CASE UNCHANGED stage
    BY <1>0, <2>7 DEF LoopTypes
  <2> QED
    BY <2>2, <2>3, <2>4, <2>5, <2>6, <2>7
       DEF LoopNext, LoopStep, Send, RefuseBody, Judge, Call, Hang, Idle, allVars, loopVars
<1>4. hung' \subseteq Replicas
  <2>1. ASSUME NEW r \in Requests, Hang(r) PROVE hung' \subseteq Replicas
    BY <1>0, <2>1 DEF Hang, HasThread, LoopTypes
  <2> QED
    BY <1>0, <2>1 DEF LoopNext, Send, LoopStep, Admit, RefuseBody, ReadFile, Scan, Judge, Call,
                      GoesOn, Receive, Resume, Back, Kill, Idle, allVars, loopVars, LoopTypes
<1> QED
  BY <1>1, <1>2, <1>3, <1>4 DEF LoopTypes

LEMMA SentStep ==
  ASSUME LoopInv, [LoopNext]_allVars
  PROVE  SentOK'
<1>0. LoopTypes /\ SentOK /\ QueueOK /\ TypeInv
  BY DEF LoopInv
<1>1. ASSUME NEW r \in Requests, OthersStay(r), StaysFirst(r) \/ GivesWay(r) \/ Joins(r),
             NEW t \in Requests
      PROVE  /\ on'[t] = Nowhere => pc'[t] = "idle"
             /\ pc'[t] = "idle" => stage'[t] = "none"
  <2>1. on'[r] # Nowhere
    BY <1>1, ReplicasAssumption DEF StaysFirst, GivesWay, Joins, HasThread
  <2>2. pc'[r] = "idle" => stage'[r] = "none"
    BY <1>1 DEF StaysFirst, GivesWay, Joins
  <2> QED
    BY <1>0, <1>1, <2>1, <2>2 DEF SentOK, OthersStay
<1>2. ASSUME NEW s \in Replicas, Kill(s), NEW t \in Requests
      PROVE  /\ on'[t] = Nowhere => pc'[t] = "idle"
             /\ pc'[t] = "idle" => stage'[t] = "none"
  <2>1. /\ on'[t] = on[t]
        /\ pc'[t] = IF on[t] # Nowhere /\ pc[t] \notin Finished /\ on[t] = s
                    THEN "crashed" ELSE pc[t]
        /\ stage'[t] = IF on[t] = s THEN "none" ELSE stage[t]
    BY <1>2 DEF Kill, Running
  <2> QED
    BY <1>0, <2>1 DEF SentOK
<1> QED
  BY <1>0, <1>1, <1>2, LoopClasses DEF SentOK

(* One handler goes on, gives its thread up or comes to wait: the others keep *)
(* their places.                                                             *)
LEMMA QueueMoves ==
  ASSUME LoopInv, LoopTypes', NEW r \in Requests, OthersStay(r),
         StaysFirst(r) \/ GivesWay(r) \/ Joins(r)
  PROVE  QueueOK'
<1>0. LoopTypes /\ QueueOK
  BY DEF LoopInv
<1> PICK s \in Replicas : s = on'[r]
  BY <1>0 DEF StaysFirst, GivesWay, Joins, HasThread
<1> DEFINE q == queue[s]
           Before == {t \in Requests : InLoop(t)}
           After  == {t \in Requests : InLoop(t)'}
<1>1. q \in Seq(Requests) /\ queue \in [Replicas -> Seq(Requests)]
  BY <1>0 DEF LoopTypes
<1>2. \A t \in Requests \ {r} : on'[t] = on[t] /\ (t \in After <=> t \in Before)
  BY DEF OthersStay, InLoop, Running
<1>3. on[r] = s \/ on[r] = Nowhere
  BY DEF StaysFirst, GivesWay, Joins
<1>4. \A i \in DOMAIN q : q[i] \in Before /\ on[q[i]] = s
  BY <1>0, <1>1 DEF QueueOK
<1>5. \A i, j \in DOMAIN q : q[i] = q[j] => i = j
  BY <1>0 DEF QueueOK
<1>6. \A t \in Before : on[t] = s => \E i \in DOMAIN q : q[i] = t
  BY <1>0 DEF QueueOK
(* The queue of that replica. *)
<1> DEFINE p == queue'[s]
<1>7. /\ \A i \in DOMAIN p : on'[p[i]] = s /\ p[i] \in After
      /\ \A i, j \in DOMAIN p : p[i] = p[j] => i = j
      /\ \A t \in After : on'[t] = s => \E i \in DOMAIN p : p[i] = t
  <2>1. CASE StaysFirst(r)
    <3>1. p = q /\ r \in After /\ on'[r] = s
      BY <2>1 DEF StaysFirst
    <3>2. r \in Before /\ on[r] = s
      BY <1>0, <2>1, RunsInLoop DEF StaysFirst
    <3> QED
      BY <1>2, <1>4, <1>5, <1>6, <3>1, <3>2
  <2>2. CASE GivesWay(r)
    <3>1. on[r] = s /\ q # <<>> /\ q[1] = r /\ r \notin After
      BY <1>1, <2>2 DEF GivesWay, HasThread
    <3>2. p = Tail(q)
      BY <1>1, <2>2, <3>1 DEF GivesWay
    <3>3. /\ DOMAIN p = 1 .. Len(q) - 1 /\ DOMAIN q = 1 .. Len(q) /\ Len(q) \in Nat
          /\ \A i \in DOMAIN p : p[i] = q[i + 1]
      BY <1>1, <3>1, <3>2
    <3>4. 1 \in DOMAIN q /\ \A i \in DOMAIN p : i + 1 \in DOMAIN q /\ i + 1 # 1
      BY <1>1, <3>1, <3>3
    <3>5. \A i \in DOMAIN p : p[i] \in Before \ {r} /\ on[p[i]] = s
      BY <1>4, <1>5, <3>1, <3>3, <3>4
    <3>6. \A i, j \in DOMAIN p : p[i] = p[j] => i = j
      BY <1>5, <3>3, <3>4
    <3>7. ASSUME NEW t \in After, on'[t] = s
          PROVE  \E i \in DOMAIN p : p[i] = t
      <4>1. t # r /\ t \in Before /\ on[t] = s
        BY <1>2, <3>1, <3>7
      <4>2. PICK i \in DOMAIN q : q[i] = t
        BY <1>6, <4>1
      <4>3. i - 1 \in DOMAIN p /\ p[i - 1] = q[i]
        BY <3>1, <3>3, <4>1, <4>2
      <4> QED
        BY <4>2, <4>3
    <3> QED
      BY <1>2, <3>5, <3>6, <3>7
  <2>3. CASE Joins(r)
    <3>1. p = Append(q, r) /\ r \notin Before /\ r \in After /\ on'[r] = s
      BY <1>1, <2>3 DEF Joins
    <3>2. /\ DOMAIN p = 1 .. Len(q) + 1 /\ DOMAIN q = 1 .. Len(q) /\ Len(q) \in Nat
          /\ p[Len(q) + 1] = r /\ \A i \in DOMAIN q : p[i] = q[i]
      BY <1>1, <3>1
    <3>3. \A i \in DOMAIN p : i = Len(q) + 1 \/ i \in DOMAIN q
      BY <3>2
    <3>4. \A i \in DOMAIN q : q[i] \in Before \ {r}
      BY <1>4, <3>1
    <3>5. \A i \in DOMAIN p : on'[p[i]] = s /\ p[i] \in After
      BY <1>2, <1>4, <3>1, <3>2, <3>3, <3>4
    <3>6. \A i, j \in DOMAIN p : p[i] = p[j] => i = j
      BY <1>5, <3>2, <3>3, <3>4
    <3>7. ASSUME NEW t \in After, on'[t] = s
          PROVE  \E i \in DOMAIN p : p[i] = t
      <4>1. CASE t = r
        BY <3>2, <4>1
      <4>2. CASE t # r
        <5>1. PICK i \in DOMAIN q : q[i] = t
          BY <1>2, <1>6, <3>7, <4>2
        <5>2. i \in DOMAIN p
          BY <3>2
        <5> QED
          BY <3>2, <5>1, <5>2
      <4> QED
        BY <4>1, <4>2
    <3> QED
      BY <3>5, <3>6, <3>7
  <2> QED
    BY <2>1, <2>2, <2>3
(* The other queues. *)
<1>8. ASSUME NEW u \in Replicas, u # s
      PROVE  /\ queue'[u] = queue[u]
             /\ \A i \in DOMAIN queue[u] : queue[u][i] \in Before \ {r} /\ on[queue[u][i]] = u
  <2>1. queue'[u] = queue[u]
    BY <1>1, <1>8 DEF StaysFirst, GivesWay, Joins
  <2>2. \A i \in DOMAIN queue[u] : queue[u][i] \in Before /\ on[queue[u][i]] = u
    BY <1>0, <1>1 DEF QueueOK
  <2> QED
    BY <1>3, <1>8, <2>1, <2>2, ReplicasAssumption
<1>9. \A u \in Replicas : \A i \in DOMAIN queue'[u] :
        on'[queue'[u][i]] = u /\ queue'[u][i] \in After
  <2> SUFFICES ASSUME NEW u \in Replicas, NEW i \in DOMAIN queue'[u]
               PROVE  on'[queue'[u][i]] = u /\ queue'[u][i] \in After
    OBVIOUS
  <2> HIDE DEF q, Before, After
  <2>1. CASE u = s
    BY <1>7, <2>1
  <2>2. CASE u # s
    <3>1. queue[u][i] \in Before \ {r} /\ on[queue[u][i]] = u /\ queue'[u] = queue[u]
      BY <1>8, <2>2
    <3>2. Before \subseteq Requests
      BY DEF Before
    <3> QED
      BY <1>2, <3>1, <3>2
  <2> QED
    BY <2>1, <2>2
<1>10. \A u \in Replicas : \A i, j \in DOMAIN queue'[u] : queue'[u][i] = queue'[u][j] => i = j
  BY <1>0, <1>7, <1>8 DEF QueueOK
<1>11. \A t \in Requests : InLoop(t)' => \E i \in DOMAIN queue'[on'[t]] : queue'[on'[t]][i] = t
  <2> SUFFICES ASSUME NEW t \in Requests, InLoop(t)'
               PROVE  \E i \in DOMAIN queue'[on'[t]] : queue'[on'[t]][i] = t
    OBVIOUS
  <2>1. CASE on'[t] = s
    BY <1>7, <2>1
  <2>2. CASE on'[t] # s
    <3>1. t # r /\ InLoop(t) /\ on'[t] = on[t]
      BY <1>2, <2>2
    <3>2. on[t] \in Replicas
      BY <1>0, <3>1 DEF InLoop, Running, LoopTypes
    <3>3. \E i \in DOMAIN queue[on[t]] : queue[on[t]][i] = t
      BY <1>0, <3>1 DEF QueueOK
    <3> QED
      BY <1>8, <2>2, <3>1, <3>2, <3>3
  <2> QED
    BY <2>1, <2>2
<1>12. \A u \in Replicas : \A i \in DOMAIN queue'[u] :
         on'[queue'[u][i]] = u /\ InLoop(queue[u][i])'
  <2> SUFFICES ASSUME NEW u \in Replicas, NEW i \in DOMAIN queue'[u]
               PROVE  on'[queue'[u][i]] = u /\ InLoop(queue[u][i])'
    OBVIOUS
  <2>1. PICK t \in After : t = queue'[u][i]
    BY <1>9
  <2>2. InLoop(t)' /\ on'[t] = u
    BY <1>9, <2>1
  <2> QED
    BY <2>1, <2>2 DEF InLoop, Running
<1> QED
  BY <1>10, <1>11, <1>12 DEF QueueOK

LEMMA KillQueue ==
  ASSUME LoopInv, LoopTypes', NEW s \in Replicas, Kill(s)
  PROVE  QueueOK'
<1> DEFINE Before == {t \in Requests : InLoop(t)}
           After  == {t \in Requests : InLoop(t)'}
<1>0. LoopTypes /\ QueueOK
  BY DEF LoopInv
<1>1. on' = on /\ queue'[s] = <<>> /\ \A u \in Replicas \ {s} : queue'[u] = queue[u]
  BY <1>0 DEF Kill, LoopTypes
<1>2. ASSUME NEW t \in Requests
      PROVE  t \in After <=> t \in Before /\ on[t] # s
  <2>1. pc'[t] = IF on[t] # Nowhere /\ pc[t] \notin Finished /\ on[t] = s
                 THEN "crashed" ELSE pc[t]
    BY DEF Kill, Running
  <2>2. stage'[t] = IF on[t] = s THEN "none" ELSE stage[t]
    BY DEF Kill
  <2> QED
    BY <1>1, <2>1, <2>2 DEF InLoop, Running, Finished
<1>3. \A u \in Replicas : \A i \in DOMAIN queue'[u] :
        u # s /\ on[queue[u][i]] = u /\ queue[u][i] \in Before
  <2>1. ASSUME NEW u \in Replicas, NEW i \in DOMAIN queue[u]
        PROVE  on[queue[u][i]] = u /\ queue[u][i] \in Before
    <3>1. queue[u] \in Seq(Requests)
      BY <1>0 DEF LoopTypes
    <3> QED
      BY <1>0, <2>1, <3>1 DEF QueueOK
  <2>2. DOMAIN queue'[s] = {}
    BY <1>1
  <2> QED
    BY <1>1, <2>1, <2>2
<1>4. \A u \in Replicas : \A i \in DOMAIN queue'[u] :
        on'[queue'[u][i]] = u /\ InLoop(queue[u][i])'
  <2> SUFFICES ASSUME NEW u \in Replicas, NEW i \in DOMAIN queue'[u]
               PROVE  on'[queue'[u][i]] = u /\ InLoop(queue[u][i])'
    OBVIOUS
  <2>1. u # s /\ queue'[u] = queue[u]
    BY <1>1, <1>3
  <2>2. PICK t \in Before : t = queue[u][i]
    BY <1>3
  <2>3. t \in After /\ on[t] = u
    BY <1>2, <1>3, <2>1, <2>2
  <2> QED
    BY <1>1, <2>1, <2>2, <2>3 DEF InLoop, Running
<1>5. \A u \in Replicas : \A i, j \in DOMAIN queue'[u] : queue'[u][i] = queue'[u][j] => i = j
  BY <1>0, <1>1, <1>3 DEF QueueOK
<1>6. \A t \in Requests : InLoop(t)' => \E i \in DOMAIN queue'[on'[t]] : queue'[on'[t]][i] = t
  <2> SUFFICES ASSUME NEW t \in Requests, InLoop(t)'
               PROVE  \E i \in DOMAIN queue'[on'[t]] : queue'[on'[t]][i] = t
    OBVIOUS
  <2>1. InLoop(t) /\ on[t] # s
    BY <1>2
  <2>2. on[t] \in Replicas
    BY <1>0, <2>1 DEF InLoop, Running, LoopTypes
  <2>3. queue'[on'[t]] = queue[on[t]]
    BY <1>1, <2>1, <2>2
  <2> QED
    BY <1>0, <2>1, <2>3 DEF QueueOK
<1> QED
  BY <1>4, <1>5, <1>6 DEF QueueOK

LEMMA QueueStep ==
  ASSUME LoopInv, LoopTypes', [LoopNext]_allVars
  PROVE  QueueOK'
<1>1. CASE UNCHANGED <<pc, on, queue, stage>>
  BY <1>1 DEF LoopInv, QueueOK, InLoop, Running
<1>2. CASE \E r \in Requests : OthersStay(r) /\ (StaysFirst(r) \/ GivesWay(r) \/ Joins(r))
  BY <1>2, QueueMoves
<1>3. CASE \E s \in Replicas : Kill(s)
  BY <1>3, KillQueue
<1> QED
  BY <1>1, <1>2, <1>3, LoopClasses

(* Who is first in a queue is waiting in it. *)
LEMMA FirstInLoop ==
  ASSUME LoopTypes, QueueOK, NEW r \in Requests, First(r)
  PROVE  InLoop(r)
<1>1. queue[on[r]] \in Seq(Requests) /\ on[r] \in Replicas
  BY DEF First, LoopTypes
<1>2. 1 \in DOMAIN queue[on[r]] /\ queue[on[r]][1] = r
  BY <1>1 DEF First
<1> QED
  BY <1>1, <1>2 DEF QueueOK

(* No other handler passes one that is between its check and its act. *)
LEMMA HeadStep ==
  ASSUME LoopInv, [LoopNext]_allVars
  PROVE  HeadOK'
<1>0. LoopTypes /\ QueueOK /\ HeadOK
  BY DEF LoopInv
<1> SUFFICES ASSUME NEW r \in Requests, pc'[r] \in Section
             PROVE  First(r)'
  BY DEF HeadOK
<1>1. CASE UNCHANGED <<pc, on, queue, stage>>
  BY <1>0, <1>1 DEF HeadOK, First
<1>2. ASSUME NEW t \in Requests, OthersStay(t), StaysFirst(t) \/ GivesWay(t) \/ Joins(t)
      PROVE  First(r)'
  <2>1. CASE t = r /\ StaysFirst(r)
    BY <2>1 DEF StaysFirst, HasThread, First
  <2>2. CASE t = r /\ ~StaysFirst(r)
    <3>1. Joins(r) /\ pc[r] \in Section
      BY <1>2, <2>2 DEF GivesWay, Joins
    <3>2. First(r) /\ ~InLoop(r)
      BY <1>0, <3>1 DEF HeadOK, Joins
    <3> QED
      BY <1>0, <3>2, FirstInLoop
  <2>3. CASE t # r
    <3>1. on'[r] = on[r] /\ First(r)
      BY <1>0, <1>2, <2>3 DEF OthersStay, HeadOK
    <3>2. on[r] \in Replicas /\ queue[on[r]] \in Seq(Requests) /\ queue[on[r]] # <<>>
          /\ Head(queue[on[r]]) = r
      BY <1>0, <3>1 DEF First, LoopTypes
    <3>3. queue'[on[r]] = queue[on[r]] \/ queue'[on[r]] = Append(queue[on[r]], t)
      <4>1. CASE StaysFirst(t)
        BY <4>1 DEF StaysFirst
      <4>2. CASE GivesWay(t)
        <5>1. on[t] # on[r]
          BY <2>3, <3>2, <4>2 DEF GivesWay, HasThread
        <5> QED
          BY <1>0, <3>2, <4>2, <5>1 DEF GivesWay, LoopTypes
      <4>3. CASE Joins(t)
        BY <1>0, <3>2, <4>3 DEF Joins, LoopTypes
      <4> QED
        BY <1>2, <4>1, <4>2, <4>3
    <3>4. Append(queue[on[r]], t) # <<>> /\ Head(Append(queue[on[r]], t)) = r
      BY <3>2
    <3> QED
      BY <3>1, <3>2, <3>3, <3>4 DEF First
  <2> QED
    BY <2>1, <2>2, <2>3
<1>3. ASSUME NEW s \in Replicas, Kill(s)
      PROVE  First(r)'
  <2>1. pc'[r] = IF on[r] # Nowhere /\ pc[r] \notin Finished /\ on[r] = s
                 THEN "crashed" ELSE pc[r]
    BY <1>3 DEF Kill, Running
  <2>2. pc[r] \in Section /\ pc[r] \notin Finished
    BY <2>1 DEF Section, Finished
  <2>3. First(r) /\ on[r] \in Replicas
    BY <1>0, <2>2 DEF HeadOK, First
  <2>4. on[r] # s
    BY <2>1, <2>2, <2>3, ReplicasAssumption DEF Section
  <2>5. queue'[on[r]] = queue[on[r]] /\ on' = on
    BY <1>0, <1>3, <2>3, <2>4 DEF Kill, LoopTypes
  <2> QED
    BY <2>3, <2>5 DEF First
<1> QED
  BY <1>1, <1>2, <1>3, LoopClasses

LEMMA LoopInvInit == LoopInit => LoopInv
<1> SUFFICES ASSUME LoopInit PROVE LoopInv
  OBVIOUS
<1>1. TypeInv /\ HandlerInv
  BY InitType, InitHandlerInv DEF LoopInit
<1>2. <<>> \in Seq(Requests)
  OBVIOUS
<1>3. LoopTypes
  BY <1>2 DEF LoopInit, LoopTypes, Stages
<1>4. SentOK /\ HeadOK
  BY DEF LoopInit, Init, SentOK, HeadOK, Section
<1>5. QueueOK
  <2>1. \A s \in Replicas : DOMAIN queue[s] = {}
    BY DEF LoopInit
  <2>2. \A r \in Requests : ~InLoop(r)
    BY DEF LoopInit, InLoop, Running
  <2> QED
    BY <2>1, <2>2 DEF QueueOK
<1> QED
  BY <1>1, <1>3, <1>4, <1>5 DEF LoopInv

LEMMA LoopInvStep == LoopInv /\ [LoopNext]_allVars => LoopInv'
<1> SUFFICES ASSUME LoopInv, [LoopNext]_allVars PROVE LoopInv'
  OBVIOUS
<1>1. TypeInv' /\ HandlerInv' /\ LoopTypes'
  BY LoopHandlerInv, LoopTypesStep
<1>2. SentOK' /\ QueueOK' /\ HeadOK'
  BY <1>1, SentStep, QueueStep, HeadStep
<1> QED
  BY <1>1, <1>2 DEF LoopInv

(* The invariant of the loops, and with it the one of the handlers: queues   *)
(* and threads restrict what the handlers do, and killing a replica ends its *)
(* handlers where they may end.                                              *)
THEOREM LoopInvariance == LoopSpec => []LoopInv
<1>1. LoopSpec => LoopInit /\ [][LoopNext]_allVars
  BY PTL DEF LoopSpec
<1> QED
  BY <1>1, LoopInvInit, LoopInvStep, PTL

(* No handler is lost or run twice: one that runs waits exactly once for its *)
(* thread, or is in the hands of the pool.                                   *)
THEOREM LoopOKAlways == LoopSpec => []LoopOK
<1>1. LoopInv => LoopOK
  <2> SUFFICES ASSUME LoopInv PROVE LoopOK
    OBVIOUS
  <2>0. TypeOK /\ LoopTypes /\ SentOK /\ QueueOK
    BY DEF LoopInv, TypeInv
  <2>1. ASSUME NEW r \in Requests, on[r] # Nowhere
        PROVE  Cardinality(Waiting(r)) =
                 IF Running(r) /\ stage[r] \notin OffLoop THEN 1 ELSE 0
    <3>1. on[r] \in Replicas
      BY <2>0, <2>1 DEF LoopTypes
    <3>2. CASE InLoop(r)
      <4>1. PICK i \in DOMAIN queue[on[r]] : queue[on[r]][i] = r
        BY <2>0, <3>2 DEF QueueOK
      <4>2. \A j \in DOMAIN queue[on[r]] : queue[on[r]][j] = r => j = i
        BY <2>0, <3>1, <4>1 DEF QueueOK
      <4>3. Waiting(r) = {i}
        BY <4>1, <4>2 DEF Waiting
      <4> QED
        BY <3>2, <4>3, FS_Singleton DEF InLoop
    <3>3. CASE ~InLoop(r)
      <4>1. Waiting(r) = {}
        <5> SUFFICES ASSUME NEW i \in DOMAIN queue[on[r]], queue[on[r]][i] = r PROVE FALSE
          BY DEF Waiting
        <5>1. InLoop(queue[on[r]][i])
          BY <2>0, <3>1 DEF QueueOK
        <5> QED
          BY <3>3, <5>1
      <4> QED
        BY <3>3, <4>1, FS_EmptySet DEF InLoop
    <3> QED
      BY <3>2, <3>3
  <2> QED
    BY <2>0, <2>1 DEF LoopOK, LoopTypes, SentOK
<1> QED
  BY <1>1, LoopInvariance, PTL

-----------------------------------------------------------------------------
(* One replica *)

(* The versions in the bucket that r's own replica put. *)
Mates(r) == {w \in bucket : w.by # Earlier /\ on[w.by] = on[r]}

(* A request that has begun stays what it is, and where it is. *)
LEMMA BegunStays ==
  ASSUME LoopInv, [LoopNext]_allVars, NEW r \in Requests, pc[r] # "idle"
  PROVE  req'[r] = req[r] /\ on'[r] = on[r] /\ on[r] # Nowhere
<1>1. on'[r] = on[r] /\ on[r] # Nowhere
  BY LoopWorks DEF LoopInv, SentOK
<1>2. CASE UNCHANGED vars \/ Ends
  BY <1>1, <1>2 DEF vars, Ends
<1>3. ASSUME NEW t \in Requests, Works(t)
      PROVE  req'[r] = req[r]
  BY <1>3 DEF Works, Frame, Arrives, Moves, Puts, Deletes, Settles
<1> QED
  BY <1>1, <1>2, <1>3, LoopWorks

(* A replica's versions are new only by a put of a handler that has its      *)
(* thread.                                                                   *)
PutsNow(t, w) ==
  /\ HasThread(t) /\ pc[t] = "save" /\ pc'[t] = "auditUpload"
  /\ w.by = t /\ w.vid = nextVid /\ w.key = Current(t)

LEMMA BucketStep ==
  ASSUME LoopInv, [LoopNext]_allVars, NEW w \in bucket'
  PROVE  w \in bucket \/ \E t \in Requests : PutsNow(t, w)
<1>1. CASE UNCHANGED vars \/ Ends
  BY <1>1 DEF vars, Ends, store
<1>2. ASSUME NEW t \in Requests, HasThread(t), Works(t)
      PROVE  w \in bucket \/ PutsNow(t, w)
  <2>1. CASE Puts(t)
    BY <1>2, <2>1, PutEffect DEF LoopInv, Puts, PutsNow, store
  <2>2. CASE ~Puts(t)
    BY <1>2, <2>2 DEF Works, Arrives, Moves, Deletes, Settles, store
  <2> QED
    BY <2>1, <2>2
<1> QED
  BY <1>1, <1>2, LoopWorks

LEMMA MatesStep ==
  ASSUME LoopInv, [LoopNext]_allVars, NEW r \in Requests, pc[r] # "idle",
         NEW w \in bucket', w.by # Earlier, on'[w.by] = on'[r]
  PROVE  w \in Mates(r) \/ \E t \in Requests : PutsNow(t, w) /\ on[t] = on[r]
<1>1. on'[r] = on[r] /\ on[r] # Nowhere
  BY BegunStays
<1>2. CASE w \in bucket
  <2>1. PICK t \in Requests : t = w.by
    BY <1>2 DEF LoopInv, TypeInv, TypeOK, Version
  <2>2. pc[t] # "idle"
    <3>1. WrittenFor(w, w.by)
      BY <1>2 DEF LoopInv, HandlerInv, VidsOK, WritersOK
    <3> QED
      BY <2>1, <3>1 DEF WrittenFor
  <2>3. on'[t] = on[t]
    BY <2>2, BegunStays
  <2> QED
    BY <1>1, <1>2, <2>1, <2>3 DEF Mates
<1>3. ASSUME NEW t \in Requests, PutsNow(t, w)
      PROVE  on[t] = on[r]
  <2>1. pc[t] # "idle" /\ w.by = t
    BY <1>3 DEF PutsNow
  <2> QED
    BY <1>1, <2>1, BegunStays
<1> QED
  BY <1>2, <1>3, BucketStep

(* While a handler is between its check and its act, its replica puts        *)
(* nothing but what it puts itself.                                          *)
LEMMA SectionIsAlone ==
  ASSUME LoopInv, [LoopNext]_allVars, NEW r \in Requests, pc[r] \in Section,
         NEW w \in bucket', w.by # Earlier, on'[w.by] = on'[r]
  PROVE  w \in Mates(r) \/ PutsNow(r, w)
<1>1. ASSUME NEW t \in Requests, HasThread(t), on[t] = on[r]
      PROVE  t = r
  <2>1. First(r)
    BY DEF LoopInv, HeadOK
  <2> QED
    BY <1>1, <2>1 DEF First, HasThread
<1>2. pc[r] # "idle"
  BY DEF Section
<1> QED
  BY <1>1, <1>2, MatesStep DEF PutsNow

(* The check of a POST still stands when it puts, as far as its own replica  *)
(* goes; and after that its version is the first of the replica's.           *)
SerialOK ==
  \A r \in Requests : req[r].op = "post" =>
    /\ pc[r] = "save" => \A w \in Mates(r) : w.key # Current(r)
    /\ \A v \in bucket : \A w \in Mates(r) :
         v.by = r /\ w.key = v.key => w.vid >= v.vid

LEMMA SerialStep ==
  ASSUME LoopInv, SerialOK, [LoopNext]_allVars
  PROVE  SerialOK'
<1>1. ASSUME NEW r \in Requests, req'[r].op = "post", pc'[r] = "save",
             NEW w \in bucket', w.by # Earlier, on'[w.by] = on'[r], w.key = Current(r)'
      PROVE  FALSE
  <2>1. CASE pc[r] = "save"
    <3>1. w \in Mates(r)
      BY <1>1, <2>1, SectionIsAlone DEF Section, PutsNow
    <3>2. req'[r] = req[r]
      BY <2>1, BegunStays
    <3>3. pos'[r] = pos[r]
      <4>1. CASE UNCHANGED vars \/ Ends
        BY <4>1 DEF vars, Ends
      <4>2. ASSUME NEW t \in Requests, Works(t)
            PROVE  pos'[r] = pos[r]
        <5>1. t # r
          <6>1. CASE t = r
            <7>1. Works(r)
              BY <4>2, <6>1
            <7> QED
              BY <1>1, <2>1, <7>1 DEF Works, Arrives, Moves, Puts, Deletes, Settles
          <6> QED
            BY <6>1
        <5> QED
          BY <4>2, <5>1 DEF Works, Frame
      <4> QED
        BY <4>1, <4>2, LoopWorks
    <3> QED
      BY <1>1, <2>1, <3>1, <3>2, <3>3 DEF SerialOK, Current
  <2>2. CASE pc[r] # "save"
    <3>1. Works(r)
      <4>1. ~UNCHANGED vars /\ ~Ends
        BY <1>1, <2>2 DEF vars, Ends
      <4>2. ASSUME NEW t \in Requests, Works(t) PROVE t = r
        BY <1>1, <2>2, <4>2 DEF Works, Frame
      <4> QED
        BY <4>1, <4>2, LoopWorks
    <3>2. Moves(r) /\ ~Conflicts(r)
      BY <1>1, <2>2, <3>1 DEF Works, Arrives, Puts, Deletes, Settles
    <3>3. bucket' = bucket /\ req' = req /\ pos' = pos
      BY <3>2 DEF Moves, store
    <3> QED
      BY <1>1, <3>2, <3>3 DEF Conflicts, HoldsKey, Current
  <2> QED
    BY <2>1, <2>2
<1>2. ASSUME NEW r \in Requests, req'[r].op = "post", NEW v \in bucket', v.by = r,
             NEW w \in bucket', w.by # Earlier, on'[w.by] = on'[r], w.key = v.key
      PROVE  w.vid >= v.vid
  <2>0. /\ nextVid \in Nat
        /\ \A u \in bucket : u.vid \in Nat /\ u.vid < nextVid
    BY DEF LoopInv, TypeInv, TypeOK, HandlerInv, VidsOK, Version
  <2>1. pc[r] # "idle"
    <3>1. CASE v \in bucket
      <4>1. WrittenFor(v, v.by)
        BY <1>2, <3>1, EarlierAssumption DEF LoopInv, HandlerInv, VidsOK, WritersOK
      <4> QED
        BY <1>2, <4>1 DEF WrittenFor
    <3>2. CASE v \notin bucket
      BY <1>2, <3>2, BucketStep DEF PutsNow
    <3> QED
      BY <3>1, <3>2
  <2>2. req[r].op = "post"
    BY <1>2, <2>1, BegunStays
  <2>3. CASE v \in bucket /\ w \in bucket
    <3>1. w \in Mates(r) \/ \E t \in Requests : PutsNow(t, w)
      BY <1>2, <2>1, MatesStep
    <3>2. ~ \E t \in Requests : PutsNow(t, w)
      BY <2>0, <2>3 DEF PutsNow
    <3> QED
      BY <1>2, <2>2, <2>3, <3>1, <3>2 DEF SerialOK
  <2>4. CASE v \in bucket /\ w \notin bucket
    <3>1. w.vid = nextVid
      BY <1>2, <2>4, BucketStep DEF PutsNow
    <3> QED
      BY <2>0, <2>4, <3>1
  <2>5. CASE v \notin bucket
    <3>1. PutsNow(r, v)
      BY <1>2, <2>5, BucketStep DEF PutsNow
    <3>2. pc[r] = "save" /\ v.key = Current(r) /\ v.vid = nextVid
      BY <3>1 DEF PutsNow
    <3>3. w \in Mates(r) \/ PutsNow(r, w)
      BY <1>2, <3>2, SectionIsAlone DEF Section
    <3>4. w \notin Mates(r)
      BY <1>2, <2>2, <3>2 DEF SerialOK
    <3> QED
      BY <2>0, <3>2, <3>3, <3>4 DEF PutsNow
  <2> QED
    BY <2>3, <2>4, <2>5
<1> QED
  BY <1>1, <1>2 DEF SerialOK, Mates

(* On one replica a POST never overwrites what the replica put: the race of  *)
(* two POSTs of one key (PostNeverOverwrites, which the code does not keep)  *)
(* needs two replicas.                                                       *)
THEOREM PostsOfAReplicaAreSerialAlways == LoopSpec => []PostsOfAReplicaAreSerial
<1>1. LoopInit => SerialOK
  BY EarlierAssumption DEF LoopInit, Init, SerialOK
<1>2. LoopInv /\ SerialOK /\ [LoopNext]_allVars => SerialOK'
  BY SerialStep
<1>3. SerialOK => PostsOfAReplicaAreSerial
  BY DEF SerialOK, PostsOfAReplicaAreSerial, Mates
<1>4. LoopSpec => LoopInit /\ [][LoopNext]_allVars
  BY PTL DEF LoopSpec
<1> QED
  BY <1>1, <1>2, <1>3, <1>4, LoopInvariance, PTL

(* While a deletion has met no error, the versions of its key that its own   *)
(* replica put are those it still has on its list.                           *)
DeleteAlone ==
  \A r \in Requests : err[r] = 0 =>
    /\ pc[r] = "remove" => \A w \in Mates(r) : w.key = Current(r) => w \in versions[r]
    /\ pc[r] = "auditDelete" => \A w \in Mates(r) : w.key # Current(r)

LEMMA DeleteAloneStep ==
  ASSUME LoopInv, IsFiniteSet(bucket), OnePage, DeleteAlone, [LoopNext]_allVars
  PROVE  DeleteAlone'
<1> SUFFICES ASSUME NEW r \in Requests, err'[r] = 0, pc'[r] \in {"remove", "auditDelete"},
                    NEW w \in bucket', w.by # Earlier, on'[w.by] = on'[r],
                    w.key = Current(r)'
             PROVE  w \in versions'[r] /\ pc'[r] # "auditDelete"
  BY DEF DeleteAlone, Mates
<1>1. CASE UNCHANGED vars \/ Ends
  <2>1. /\ pc'[r] = pc[r] /\ err'[r] = err[r] /\ versions'[r] = versions[r]
        /\ Current(r)' = Current(r) /\ bucket' = bucket
    BY <1>1 DEF vars, Ends, store, Current
  <2>2. w \in Mates(r)
    BY <2>1, SectionIsAlone DEF Section, PutsNow
  <2> QED
    BY <2>1, <2>2 DEF DeleteAlone
<1>2. ASSUME NEW t \in Requests, t # r, Works(t)
      PROVE  w \in versions'[r] /\ pc'[r] # "auditDelete"
  <2>1. /\ pc'[r] = pc[r] /\ err'[r] = err[r] /\ versions'[r] = versions[r]
        /\ Current(r)' = Current(r)
    BY <1>2 DEF Works, Frame, Current
  <2>2. w \in Mates(r)
    BY <2>1, SectionIsAlone DEF Section, PutsNow
  <2> QED
    BY <2>1, <2>2 DEF DeleteAlone
<1>3. CASE Works(r)
  <2>1. Moves(r) \/ Deletes(r)
    BY <1>3 DEF Works, Arrives, Puts, Settles
  <2>2. req' = req /\ pos' = pos /\ w \in bucket
    BY <2>1 DEF Moves, Deletes, store
  <2>3. w.key = Current(r)
    BY <2>2 DEF Current
  <2>4. CASE Moves(r)
    <3>1. pc[r] = "list" /\ pc'[r] = "remove" /\ versions'[r] = Listing(Current(r))
      BY <2>4 DEF Moves
    <3>2. Current(r) \in Keys \cup {NoKey} /\ bucket \subseteq Version
      BY <3>1, CurrentType DEF ItemSteps, LoopInv, TypeInv, TypeOK
    <3>3. versions'[r] = Matching(Current(r))
      BY <3>1, <3>2, ListingComplete
    <3> QED
      BY <2>2, <2>3, <3>1, <3>3 DEF Matching
  <2>5. CASE Deletes(r)
    <3>1. pc[r] = "remove" /\ err[r] = 0
          /\ \E v \in versions[r] :
                bucket' = AfterDelete(Current(r), v) /\ versions'[r] = versions[r] \ {v}
      BY <2>5 DEF Deletes
    <3>2. w \in Mates(r)
      BY <3>1, SectionIsAlone DEF Section, PutsNow
    <3>3. w \in versions[r]
      BY <2>3, <3>1, <3>2 DEF DeleteAlone
    <3>4. w \in versions'[r]
      BY <2>3, <3>1, <3>3 DEF AfterDelete
    <3> QED
      BY <2>5, <3>4 DEF Deletes
  <2> QED
    BY <2>1, <2>4, <2>5
<1> QED
  BY <1>1, <1>2, <1>3, LoopWorks

(* The answer 204 of an item is that of its deletion's audit step, and no    *)
(* version has come to the bucket in that step.                              *)
LEMMA GoneOnReplica ==
  ASSUME LoopInv, DeleteAlone, [LoopNext]_allVars, NEW r \in Requests,
         outcome'[r] # outcome[r], outcome'[r] # <<>>,
         outcome'[r][Len(outcome'[r])] = 204,
         NEW v \in bucket', v.key = Current(r)
  PROVE  v.by = Earlier \/ on[v.by] # on[r]
<1>1. ASSUME NEW t \in Requests, Works(t) PROVE Works(r)
  BY <1>1 DEF Works, Frame
<1>2. Works(r)
  BY <1>1, LoopWorks DEF vars, Ends
<1>3. PICK code : Settles(r, code)
  BY <1>2 DEF Works, Arrives, Moves, Puts, Deletes
<1>4. code = 204
  <2>1. outcome'[r] = Append(outcome[r], code) /\ outcome[r] \in Seq(Codes)
    BY <1>3 DEF Settles, LoopInv, TypeInv, TypeOK
  <2>2. Append(outcome[r], code)[Len(Append(outcome[r], code))] = code
    BY <2>1
  <2> QED
    BY <2>1, <2>2
<1>5. pc[r] = "auditDelete" /\ err[r] = 0
  BY <1>3, <1>4, DeletedSource DEF LoopInv, HandlerInv
<1>6. v \in bucket
  BY <1>3 DEF Settles, store
<1> QED
  BY <1>5, <1>6 DEF DeleteAlone, Mates

(* When a replica answers that a key is gone, none of the versions it put    *)
(* itself is left, as long as no listing outgrows one reply of S3.           *)
THEOREM DeletesOfAReplicaAreSerialAlways ==
  LoopSpec /\ []OnePage => DeletesOfAReplicaAreSerial
<1>1. LoopInit => IsFiniteSet(bucket) /\ DeleteAlone
  BY FiniteSeed DEF LoopInit, Init, DeleteAlone
<1>2. LoopInv /\ OnePage /\ IsFiniteSet(bucket) /\ DeleteAlone /\ [LoopNext]_allVars
        => (IsFiniteSet(bucket) /\ DeleteAlone)'
  <2> SUFFICES ASSUME LoopInv, OnePage, IsFiniteSet(bucket), DeleteAlone, [LoopNext]_allVars
               PROVE  IsFiniteSet(bucket)' /\ DeleteAlone'
    OBVIOUS
  <2>1. [Next]_vars => IsFiniteSet(bucket')
    BY FiniteStep DEF LoopInv
  <2>2. Ends => IsFiniteSet(bucket')
    BY DEF Ends, store
  <2> QED
    BY <2>1, <2>2, LoopWorks, DeleteAloneStep
<1>3. LoopInv /\ DeleteAlone /\ [LoopNext]_allVars =>
        [\A r \in Requests :
           outcome'[r] # outcome[r] /\ outcome'[r] # <<>> /\ outcome'[r][Len(outcome'[r])] = 204
             => \A v \in bucket' :
                  v.key = Current(r) => v.by = Earlier \/ on[v.by] # on[r]]_allVars
  BY GoneOnReplica
<1>4. LoopSpec => LoopInit /\ [][LoopNext]_allVars
  BY PTL DEF LoopSpec
<1> QED
  BY <1>1, <1>2, <1>3, <1>4, LoopInvariance, PTL DEF DeletesOfAReplicaAreSerial

=============================================================================
