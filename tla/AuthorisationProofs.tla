------------------------- MODULE AuthorisationProofs -------------------------
(***************************************************************************)
(* For every set of files, rules, replicas and every Interval: a deletion  *)
(* goes ahead only under rules that were in some file within the Interval, *)
(* and a rule that stays in a file for longer is in force.  The invariants *)
(* follow a rule from the files into a reading, from there into the policy *)
(* and from the policy to the answers of a deletion.                       *)
(***************************************************************************)
EXTENDS Authorisation, FiniteSetTheorems, TLAPS

Contents == Seq(Rules \cup {Garbled}) \cup {Absent}
Readings == [todo : SUBSET Files, got : SUBSET Rules, files : Int]

PolicyTypes ==
  /\ disk \in [Files -> Contents]
  /\ writing \in {<<>>} \cup Files \X Contents
  /\ policy \in [Replicas -> SUBSET Rules]
  /\ reading \in [Replicas -> Readings]
  /\ timer \in [Replicas -> 0 .. Interval]
  /\ up \in [Replicas -> BOOLEAN]
  /\ asking \in [Replicas -> {"nothing", "route", "delete", "allowed"}]
  /\ gone \in [Rules -> Ages]

(* A rule that can be read now is not gone. *)
DiskOK == \A x \in Rules : OnDisk(disk, x) => gone[x] = 0

(* No tick passes while files are read: what has been read is not gone. *)
GotOK == \A s \in Replicas : \A x \in reading[s].got : gone[x] = 0

(* What is in force was in a file when it was last read, or later. *)
PolicyOK == \A s \in Replicas : \A x \in policy[s] : up[s] /\ gone[x] <= timer[s]

(* No tick passes between the questions of a deletion either. *)
AskOK ==
  \A s \in Replicas :
    /\ asking[s] \in {"delete", "allowed"} => gone[RouteRule] <= Interval
    /\ asking[s] = "allowed" => gone[DeleteRule] <= Interval

RecentInv == PolicyTypes /\ DiskOK /\ GotOK /\ PolicyOK /\ AskOK

-----------------------------------------------------------------------------
(* Reading a file gives rules. *)
LEMMA ReadableRules ==
  ASSUME NEW c \in Contents
  PROVE  Readable(c) \in SUBSET Rules
<1>1. CASE c = Absent
  BY <1>1 DEF Readable
<1>2. CASE c # Absent
  <2>1. c \in Seq(Rules \cup {Garbled})
    BY <1>2 DEF Contents
  <2>2. SUFFICES ASSUME NEW x \in Readable(c)
                 PROVE  x \in Rules
    OBVIOUS
  <2>3. PICK i \in DOMAIN c : x = c[i] /\ \A k \in 1 .. i : c[k] # Garbled
    BY <1>2, <2>2 DEF Readable
  <2>4. i \in 1 .. Len(c)
    BY <2>1, <2>3
  <2>5. i \in 1 .. i
    BY <2>4
  <2>6. c[i] \in Rules \cup {Garbled} /\ c[i] # Garbled
    BY <2>1, <2>3, <2>4, <2>5
  <2> QED
    BY <2>3, <2>6
<1> QED
  BY <1>1, <1>2

(* Contents that operators may give are contents, and so is an emptied file. *)
LEMMA DeployedContents ==
  /\ \A f \in Files : Deployable[f] \subseteq Contents
  /\ <<>> \in Contents
<1>1. <<>> \in Seq(Rules \cup {Garbled})
  OBVIOUS
<1> QED
  BY <1>1, DeployAssumption DEF Contents

(* A change of the files makes no rule older. *)
LEMMA NoteLowers ==
  ASSUME gone \in [Rules -> Ages], NEW d, Note(d)
  PROVE  /\ gone' \in [Rules -> Ages]
         /\ \A x \in Rules : gone'[x] = gone[x] \/ gone'[x] = 0
         /\ \A x \in Rules : OnDisk(disk', x) => gone'[x] = 0
<1>1. 0 \in Ages
  BY IntervalAssumption DEF Ages
<1>2. gone' = [x \in Rules |-> IF OnDisk(d, x) \/ OnDisk(disk, x) THEN 0 ELSE gone[x]]
      /\ disk' = d
  BY DEF Note
<1> QED
  BY <1>1, <1>2

(* The actions of operators. *)
LEMMA FilesInv ==
  ASSUME RecentInv, NEW d \in [Files -> Contents], Note(d),
         writing' \in {<<>>} \cup Files \X Contents, UNCHANGED replicas
  PROVE  RecentInv'
<1>1. gone \in [Rules -> Ages] /\ disk' = d
  BY DEF RecentInv, PolicyTypes, Note
<1>2. gone' \in [Rules -> Ages]
  BY <1>1, NoteLowers
<1>3. \A x \in Rules : gone'[x] = gone[x] \/ gone'[x] = 0
  BY <1>1, NoteLowers
<1>4. DiskOK'
  BY <1>1, NoteLowers DEF DiskOK, OnDisk
<1>5. PolicyTypes'
  BY <1>1, <1>2 DEF RecentInv, PolicyTypes, replicas
<1>6. GotOK'
  <2> SUFFICES ASSUME NEW s \in Replicas, NEW x \in reading[s].got
               PROVE  gone'[x] = 0
    BY DEF GotOK, replicas
  <2>1. reading[s] \in Readings
    BY DEF RecentInv, PolicyTypes
  <2>2. x \in Rules
    BY <2>1 DEF Readings
  <2> QED
    BY <1>3, <2>2 DEF RecentInv, GotOK
<1>7. PolicyOK'
  <2> SUFFICES ASSUME NEW s \in Replicas, NEW x \in policy[s]
               PROVE  up[s] /\ gone'[x] <= timer[s]
    BY DEF PolicyOK, replicas
  <2>1. x \in Rules /\ timer[s] \in 0 .. Interval
    BY DEF RecentInv, PolicyTypes
  <2>2. up[s] /\ gone[x] <= timer[s]
    BY DEF RecentInv, PolicyOK
  <2>3. 0 <= timer[s]
    BY <2>1, IntervalAssumption
  <2> QED
    BY <1>3, <2>1, <2>2, <2>3
<1>8. AskOK'
  <2> SUFFICES ASSUME NEW s \in Replicas
               PROVE  /\ asking[s] \in {"delete", "allowed"} => gone'[RouteRule] <= Interval
                      /\ asking[s] = "allowed" => gone'[DeleteRule] <= Interval
    BY DEF AskOK, replicas
  <2>1. RouteRule \in Rules /\ DeleteRule \in Rules /\ 0 <= Interval
    BY RulesAssumption, IntervalAssumption
  <2>2. /\ asking[s] \in {"delete", "allowed"} => gone[RouteRule] <= Interval
        /\ asking[s] = "allowed" => gone[DeleteRule] <= Interval
    BY DEF RecentInv, AskOK
  <2>3. gone'[RouteRule] = gone[RouteRule] \/ gone'[RouteRule] = 0
    BY <1>3, <2>1
  <2>4. gone'[DeleteRule] = gone[DeleteRule] \/ gone'[DeleteRule] = 0
    BY <1>3, <2>1
  <2> QED
    BY <2>1, <2>2, <2>3, <2>4
<1> QED
  BY <1>4, <1>5, <1>6, <1>7, <1>8 DEF RecentInv

LEMMA RemoveInv ==
  ASSUME RecentInv, NEW f \in Files, Remove(f)
  PROVE  RecentInv'
<1>1. Absent \in Contents
  BY DEF Contents
<1>2. [disk EXCEPT ![f] = Absent] \in [Files -> Contents]
  BY <1>1 DEF RecentInv, PolicyTypes
<1>3. writing' \in {<<>>} \cup Files \X Contents
  BY DEF Remove, RecentInv, PolicyTypes
<1> QED
  BY <1>2, <1>3, FilesInv DEF Remove

LEMMA OpenInv ==
  ASSUME RecentInv, NEW f \in Files, Open(f)
  PROVE  RecentInv'
<1>1. [disk EXCEPT ![f] = <<>>] \in [Files -> Contents]
  BY DeployedContents DEF RecentInv, PolicyTypes
<1>2. PICK content \in Deployable[f] : writing' = <<f, content>>
  BY DEF Open
<1>3. content \in Contents
  BY DeployedContents
<1>4. writing' \in {<<>>} \cup Files \X Contents
  BY <1>2, <1>3
<1> QED
  BY <1>1, <1>4, FilesInv DEF Open

LEMMA CloseInv ==
  ASSUME RecentInv, Close
  PROVE  RecentInv'
<1>1. writing \in Files \X Contents
  BY DEF Close, RecentInv, PolicyTypes
<1>2. writing[1] \in Files /\ writing[2] \in Contents
  BY <1>1
<1>3. [disk EXCEPT ![writing[1]] = writing[2]] \in [Files -> Contents]
  BY <1>2 DEF RecentInv, PolicyTypes
<1>4. writing' \in {<<>>} \cup Files \X Contents
  BY DEF Close
<1> QED
  BY <1>3, <1>4, FilesInv DEF Close

-----------------------------------------------------------------------------
(* The readings of a replica. *)
LEMMA BeginInv ==
  ASSUME RecentInv, NEW s \in Replicas, Begin(s)
  PROVE  RecentInv'
<1> DEFINE first == [todo |-> Present, got |-> {}, files |-> 0]
<1>1. reading' = [reading EXCEPT ![s] = first]
  BY DEF Begin, NoRules, NoFiles
<1>2. first \in Readings
  BY DEF Readings, Present
<1>3. reading' \in [Replicas -> Readings]
  BY <1>1, <1>2 DEF RecentInv, PolicyTypes
<1>4. PolicyTypes'
  BY <1>3 DEF RecentInv, PolicyTypes, Begin
<1>5. GotOK'
  <2> SUFFICES ASSUME NEW t \in Replicas, NEW x \in reading'[t].got
               PROVE  gone[x] = 0
    BY DEF GotOK, Begin
  <2>1. t # s
    BY <1>1 DEF RecentInv, PolicyTypes
  <2>2. reading'[t] = reading[t]
    BY <1>1, <2>1 DEF RecentInv, PolicyTypes
  <2> QED
    BY <2>2 DEF RecentInv, GotOK
<1> QED
  BY <1>4, <1>5 DEF RecentInv, DiskOK, OnDisk, PolicyOK, AskOK, Begin

LEMMA ReadFileInv ==
  ASSUME RecentInv, NEW s \in Replicas, ReadFile(s)
  PROVE  RecentInv'
<1>1. reading[s] \in Readings
  BY DEF RecentInv, PolicyTypes
<1>2. PICK f \in reading[s].todo :
        reading' = [reading EXCEPT ![s] =
          [todo  |-> TodoAfter(s, f),
           got   |-> reading[s].got \cup Readable(disk[f]),
           files |-> IF Sound(disk[f]) THEN reading[s].files + 1 ELSE reading[s].files]]
  BY DEF ReadFile, RecentInv, PolicyTypes
<1> DEFINE next == [todo  |-> TodoAfter(s, f),
                    got   |-> reading[s].got \cup Readable(disk[f]),
                    files |-> IF Sound(disk[f]) THEN reading[s].files + 1
                              ELSE reading[s].files]
<1>3. f \in Files
  BY <1>1 DEF Readings
<1>4. Readable(disk[f]) \in SUBSET Rules
  BY <1>3, ReadableRules DEF RecentInv, PolicyTypes
<1>5. next \in Readings
  BY <1>1, <1>4 DEF Readings, TodoAfter
<1>6. reading' \in [Replicas -> Readings]
  BY <1>2, <1>5 DEF RecentInv, PolicyTypes
<1>7. PolicyTypes'
  BY <1>6 DEF RecentInv, PolicyTypes, ReadFile
<1>8. GotOK'
  <2> SUFFICES ASSUME NEW t \in Replicas, NEW x \in reading'[t].got
               PROVE  gone[x] = 0
    BY DEF GotOK, ReadFile
  <2>1. CASE t # s
    <3>1. reading'[t] = reading[t]
      BY <1>2, <2>1 DEF RecentInv, PolicyTypes
    <3> QED
      BY <3>1 DEF RecentInv, GotOK
  <2>2. CASE t = s
    <3>1. reading'[s] = next
      BY <1>2 DEF RecentInv, PolicyTypes
    <3>2. x \in reading[s].got \/ x \in Readable(disk[f])
      BY <2>2, <3>1
    <3>3. ASSUME x \in Readable(disk[f]) PROVE gone[x] = 0
      <4>1. x \in Rules
        BY <1>4, <3>3
      <4> QED
        BY <1>3, <3>3, <4>1 DEF RecentInv, DiskOK, OnDisk
    <3> QED
      BY <3>2, <3>3 DEF RecentInv, GotOK
  <2> QED
    BY <2>1, <2>2
<1> QED
  BY <1>7, <1>8 DEF RecentInv, DiskOK, OnDisk, PolicyOK, AskOK, ReadFile

LEMMA RestingIsReading == Resting \in Readings /\ Resting.got = {}
  BY DEF Resting, Readings

(* What was read takes effect: it was in a file just now. *)
LEMMA InstallInv ==
  ASSUME RecentInv, NEW s \in Replicas, Install(s)
  PROVE  RecentInv'
<1>1. reading[s] \in Readings
  BY DEF RecentInv, PolicyTypes
<1>2. 0 \in 0 .. Interval
  BY IntervalAssumption
<1>3. policy' \in [Replicas -> SUBSET Rules]
  BY <1>1 DEF RecentInv, PolicyTypes, Install, Readings
<1>4. up' \in [Replicas -> BOOLEAN] /\ timer' \in [Replicas -> 0 .. Interval]
  BY <1>2 DEF RecentInv, PolicyTypes, Install
<1>5. reading' \in [Replicas -> Readings]
  BY RestingIsReading DEF RecentInv, PolicyTypes, Install
<1>6. PolicyTypes'
  BY <1>3, <1>4, <1>5 DEF RecentInv, PolicyTypes, Install
<1>7. GotOK'
  <2> SUFFICES ASSUME NEW t \in Replicas, NEW x \in reading'[t].got
               PROVE  gone[x] = 0
    BY DEF GotOK, Install
  <2>1. reading'[t] = IF t = s THEN Resting ELSE reading[t]
    BY DEF Install, RecentInv, PolicyTypes
  <2> QED
    BY <2>1, RestingIsReading DEF RecentInv, GotOK
<1>8. PolicyOK'
  <2> SUFFICES ASSUME NEW t \in Replicas, NEW x \in policy'[t]
               PROVE  up'[t] /\ gone[x] <= timer'[t]
    BY DEF PolicyOK, Install
  <2>1. CASE t # s
    <3>1. policy'[t] = policy[t] /\ up'[t] = up[t] /\ timer'[t] = timer[t]
      BY <2>1 DEF Install, RecentInv, PolicyTypes
    <3> QED
      BY <3>1 DEF RecentInv, PolicyOK
  <2>2. CASE t = s
    <3>1. policy'[s] = reading[s].got /\ up'[s] = TRUE /\ timer'[s] = 0
      BY DEF Install, RecentInv, PolicyTypes
    <3>2. gone[x] = 0
      BY <2>2, <3>1 DEF RecentInv, GotOK
    <3> QED
      BY <2>2, <3>1, <3>2
  <2> QED
    BY <2>1, <2>2
<1> QED
  BY <1>6, <1>7, <1>8 DEF RecentInv, DiskOK, OnDisk, AskOK, Install

LEMMA RestartInv ==
  ASSUME RecentInv, NEW s \in Replicas, Restart(s)
  PROVE  RecentInv'
<1>1. 0 \in 0 .. Interval
  BY IntervalAssumption
<1>2. policy' \in [Replicas -> SUBSET Rules]
  BY DEF RecentInv, PolicyTypes, Restart
<1>3. up' \in [Replicas -> BOOLEAN] /\ timer' \in [Replicas -> 0 .. Interval]
  BY <1>1 DEF RecentInv, PolicyTypes, Restart
<1>4. reading' \in [Replicas -> Readings]
  BY RestingIsReading DEF RecentInv, PolicyTypes, Restart
<1>5. asking' \in [Replicas -> {"nothing", "route", "delete", "allowed"}]
  BY DEF RecentInv, PolicyTypes, Restart
<1>6. PolicyTypes'
  BY <1>2, <1>3, <1>4, <1>5 DEF RecentInv, PolicyTypes, Restart
<1>7. GotOK'
  <2> SUFFICES ASSUME NEW t \in Replicas, NEW x \in reading'[t].got
               PROVE  gone[x] = 0
    BY DEF GotOK, Restart
  <2>1. reading'[t] = IF t = s THEN Resting ELSE reading[t]
    BY DEF Restart, RecentInv, PolicyTypes
  <2> QED
    BY <2>1, RestingIsReading DEF RecentInv, GotOK
<1>8. PolicyOK'
  <2> SUFFICES ASSUME NEW t \in Replicas, NEW x \in policy'[t]
               PROVE  up'[t] /\ gone[x] <= timer'[t]
    BY DEF PolicyOK, Restart
  <2>1. t # s
    BY DEF Restart, RecentInv, PolicyTypes
  <2>2. policy'[t] = policy[t] /\ up'[t] = up[t] /\ timer'[t] = timer[t]
    BY <2>1 DEF Restart, RecentInv, PolicyTypes
  <2> QED
    BY <2>2 DEF RecentInv, PolicyOK
<1>9. AskOK'
  <2> SUFFICES ASSUME NEW t \in Replicas
               PROVE  /\ asking'[t] \in {"delete", "allowed"} => gone[RouteRule] <= Interval
                      /\ asking'[t] = "allowed" => gone[DeleteRule] <= Interval
    BY DEF AskOK, Restart
  <2>1. asking'[t] = IF t = s THEN "nothing" ELSE asking[t]
    BY DEF Restart, RecentInv, PolicyTypes
  <2> QED
    BY <2>1 DEF RecentInv, AskOK
<1> QED
  BY <1>6, <1>7, <1>8, <1>9 DEF RecentInv, DiskOK, OnDisk, Restart

-----------------------------------------------------------------------------
(* A question is answered by the policy in force, which is no older than the *)
(* replica's last reading.                                                   *)
LEMMA GrantedIsRecent ==
  ASSUME RecentInv, NEW s \in Replicas, NEW x \in Rules, Granted(s, x)
  PROVE  gone[x] <= Interval
<1>1. gone[x] <= timer[s]
  BY DEF Granted, RecentInv, PolicyOK
<1>2. timer[s] \in 0 .. Interval /\ gone[x] \in Ages
  BY DEF RecentInv, PolicyTypes
<1> QED
  BY <1>1, <1>2, IntervalAssumption DEF Ages

LEMMA QuestionInv ==
  ASSUME RecentInv, NEW s \in Replicas,
         Request(s) \/ EnforceRoute(s) \/ EnforceOrError(s) \/ Finish(s)
  PROVE  RecentInv'
<1>1. UNCHANGED <<disk, writing, policy, counted, reading, timer, up, gone, kept>>
  BY DEF Request, EnforceRoute, EnforceOrError, Finish
<1>2. PICK answer \in {"nothing", "route", "delete", "allowed"} :
        /\ asking' = [asking EXCEPT ![s] = answer]
        /\ answer = "delete" => Granted(s, RouteRule)
        /\ answer = "allowed" => asking[s] = "delete" /\ Granted(s, DeleteRule)
  BY DEF Request, EnforceRoute, EnforceOrError, Finish
<1>3. asking' \in [Replicas -> {"nothing", "route", "delete", "allowed"}]
  BY <1>2 DEF RecentInv, PolicyTypes
<1>4. PolicyTypes'
  BY <1>1, <1>3 DEF RecentInv, PolicyTypes
<1>5. AskOK'
  <2> SUFFICES ASSUME NEW t \in Replicas
               PROVE  /\ asking'[t] \in {"delete", "allowed"} => gone[RouteRule] <= Interval
                      /\ asking'[t] = "allowed" => gone[DeleteRule] <= Interval
    BY <1>1 DEF AskOK
  <2>1. CASE t # s
    <3>1. asking'[t] = asking[t]
      BY <1>2, <2>1 DEF RecentInv, PolicyTypes
    <3> QED
      BY <3>1 DEF RecentInv, AskOK
  <2>2. CASE t = s
    <3>1. asking'[s] = answer
      BY <1>2 DEF RecentInv, PolicyTypes
    <3>2. answer = "delete" => gone[RouteRule] <= Interval
      BY <1>2, GrantedIsRecent, RulesAssumption
    <3>3. answer = "allowed" => gone[DeleteRule] <= Interval
      BY <1>2, GrantedIsRecent, RulesAssumption
    <3>4. answer = "allowed" => gone[RouteRule] <= Interval
      BY <1>2 DEF RecentInv, AskOK
    <3> QED
      BY <2>2, <3>1, <3>2, <3>3, <3>4
  <2> QED
    BY <2>1, <2>2
<1> QED
  BY <1>1, <1>4, <1>5 DEF RecentInv, DiskOK, OnDisk, GotOK, PolicyOK

(* Time passes for the rules as it does for the replicas that hold them.     *)
LEMMA TickInv ==
  ASSUME RecentInv, Tick
  PROVE  RecentInv'
<1>1. /\ \A s \in Replicas : reading[s] = Resting
      /\ \A s \in Replicas : up[s] => timer[s] < Interval
      /\ \A s \in Replicas : asking[s] = "nothing"
  BY DEF Tick, Reading
<1>2. timer' = [s \in Replicas |-> IF up[s] THEN timer[s] + 1 ELSE timer[s]]
  BY DEF Tick
<1>3. gone' = [x \in Rules |-> IF OnDisk(disk, x) THEN 0 ELSE Older(gone[x])]
  BY DEF Tick
<1>4. ASSUME NEW s \in Replicas PROVE timer'[s] \in 0 .. Interval
  <2>1. timer[s] \in 0 .. Interval
    BY DEF RecentInv, PolicyTypes
  <2> QED
    BY <1>1, <1>2, <2>1, IntervalAssumption
<1>5. timer' \in [Replicas -> 0 .. Interval]
  BY <1>2, <1>4
<1>6. ASSUME NEW x \in Rules PROVE gone'[x] \in Ages /\ gone'[x] <= gone[x] + 1
  <2>1. gone[x] \in 0 .. Interval + 1
    BY DEF RecentInv, PolicyTypes, Ages
  <2>2. Older(gone[x]) \in 0 .. Interval + 1 /\ Older(gone[x]) <= gone[x] + 1
    BY <2>1, IntervalAssumption DEF Older
  <2> QED
    BY <1>3, <2>1, <2>2, IntervalAssumption DEF Ages
<1>7. gone' \in [Rules -> Ages]
  BY <1>3, <1>6
<1>8. PolicyTypes'
  BY <1>5, <1>7 DEF RecentInv, PolicyTypes, Tick
<1>9. DiskOK'
  BY <1>3 DEF DiskOK, OnDisk, Tick
<1>10. GotOK'
  BY <1>1, RestingIsReading DEF GotOK, Tick
<1>11. PolicyOK'
  <2> SUFFICES ASSUME NEW s \in Replicas, NEW x \in policy[s]
               PROVE  up[s] /\ gone'[x] <= timer'[s]
    BY DEF PolicyOK, Tick
  <2>1. x \in Rules /\ timer[s] \in 0 .. Interval
    BY DEF RecentInv, PolicyTypes
  <2>2. up[s] /\ gone[x] <= timer[s]
    BY DEF RecentInv, PolicyOK
  <2>3. timer'[s] = timer[s] + 1
    BY <1>2, <2>2
  <2>4. gone[x] \in 0 .. Interval + 1 /\ gone'[x] \in 0 .. Interval + 1
    BY <1>6, <2>1 DEF RecentInv, PolicyTypes, Ages
  <2>5. gone'[x] <= gone[x] + 1
    BY <1>6, <2>1
  <2> QED
    BY <2>1, <2>2, <2>3, <2>4, <2>5, IntervalAssumption
<1>12. AskOK'
  BY <1>1 DEF AskOK, Tick
<1> QED
  BY <1>8, <1>9, <1>10, <1>11, <1>12 DEF RecentInv

-----------------------------------------------------------------------------
LEMMA InitRecent == AuthInit => RecentInv
<1> SUFFICES ASSUME AuthInit PROVE RecentInv
  OBVIOUS
<1>1. 0 \in 0 .. Interval /\ 0 \in Ages /\ Interval + 1 \in Ages
  BY IntervalAssumption DEF Ages
<1>2. disk \in [Files -> UNION {Deployable[f] : f \in Files}]
  BY DEF AuthInit
<1>3. UNION {Deployable[f] : f \in Files} \subseteq Contents
  BY DeployedContents
<1>4. disk \in [Files -> Contents]
  BY <1>2, <1>3
<1>5. gone \in [Rules -> Ages]
  BY <1>1 DEF AuthInit
<1>6. timer \in [Replicas -> 0 .. Interval]
  BY <1>1 DEF AuthInit
<1>7. reading \in [Replicas -> Readings]
  BY RestingIsReading DEF AuthInit
<1>8. PolicyTypes
  BY <1>4, <1>5, <1>6, <1>7 DEF AuthInit, PolicyTypes
<1>9. GotOK
  BY RestingIsReading DEF AuthInit, GotOK
<1> QED
  BY <1>8, <1>9 DEF AuthInit, RecentInv, DiskOK, PolicyOK, AskOK

LEMMA StepRecent == RecentInv /\ [AuthNext]_authVars => RecentInv'
<1> SUFFICES ASSUME RecentInv, [AuthNext]_authVars PROVE RecentInv'
  OBVIOUS
<1>1. CASE \E f \in Files : Remove(f) \/ Open(f)
  BY <1>1, RemoveInv, OpenInv
<1>2. CASE Close
  BY <1>2, CloseInv
<1>3. CASE \E s \in Replicas : AuthStep(s)
  <2>1. PICK s \in Replicas : AuthStep(s)
    BY <1>3
  <2>2. CASE Begin(s)
    BY <2>2, BeginInv
  <2>3. CASE ReadFile(s)
    BY <2>3, ReadFileInv
  <2>4. CASE Install(s)
    BY <2>4, InstallInv
  <2>5. CASE Restart(s)
    BY <2>5, RestartInv
  <2>6. CASE Request(s) \/ EnforceRoute(s) \/ EnforceOrError(s) \/ Finish(s)
    BY <2>6, QuestionInv
  <2> QED
    BY <2>1, <2>2, <2>3, <2>4, <2>5, <2>6 DEF AuthStep
<1>4. CASE Tick
  BY <1>4, TickInv
<1>5. CASE UNCHANGED authVars
  BY <1>5 DEF authVars, RecentInv, PolicyTypes, DiskOK, OnDisk, GotOK, PolicyOK, AskOK
<1> QED
  BY <1>1, <1>2, <1>3, <1>4, <1>5 DEF AuthNext

(* What the invariant says of a deletion that goes ahead. *)
LEMMA RecentAllowed == RecentInv => AllowedIsRecent
  BY DEF RecentInv, AskOK, AllowedIsRecent

(* A deletion goes ahead only under a route rule and a delete rule that some *)
(* policy file gave within the last reload interval, with any number of      *)
(* replicas and files, whatever is rewritten, broken or removed while it is  *)
(* read (authz_service.py:50, multifileadapter.py:47-56,                     *)
(* delete_files.py:38).                                                      *)
THEOREM AllowedIsRecentAlways == AuthSpec => []AllowedIsRecent
<1>1. AuthInit => RecentInv
  BY InitRecent
<1>2. RecentInv /\ [AuthNext]_authVars => RecentInv'
  BY StepRecent
<1>3. RecentInv => AllowedIsRecent
  BY RecentAllowed
<1> QED
  BY <1>1, <1>2, <1>3, PTL DEF AuthSpec

-----------------------------------------------------------------------------
(* The other direction: rules that stay in a file.                           *)

KeptTypes == kept \in [Files -> [Rules -> Ages]]

(* A rule that has been kept can be read now. *)
KeptOnDisk == \A f \in Files, x \in Rules : kept[f][x] > 0 => x \in Readable(disk[f])

(* What a file has kept since before the last tick, and so since before the  *)
(* reading under way began, that reading has taken in or will.               *)
KeptOrToDo ==
  \A s \in Replicas : Reading(s) =>
    \A f \in Files, x \in Rules :
      kept[f][x] > 0 => f \in reading[s].todo \/ x \in reading[s].got

(* What a file has kept since before the last reading is in force. *)
KeptInForce ==
  \A s \in Replicas : up[s] =>
    \A f \in Files, x \in Rules : kept[f][x] > timer[s] => x \in policy[s]

KeptInv == RecentInv /\ KeptTypes /\ KeptOnDisk /\ KeptOrToDo /\ KeptInForce

LEMMA KeptFilesInv ==
  ASSUME KeptInv, NEW d, Note(d), UNCHANGED replicas
  PROVE  KeptTypes' /\ KeptOnDisk' /\ KeptOrToDo' /\ KeptInForce'
<1>1. kept' = [f \in Files |-> [x \in Rules |->
                IF x \in Readable(d[f]) THEN kept[f][x] ELSE 0]] /\ disk' = d
  BY DEF Note
<1>2. 0 \in Ages
  BY IntervalAssumption DEF Ages
<1>3. ASSUME NEW f \in Files, NEW x \in Rules
      PROVE  /\ kept'[f][x] \in Ages
             /\ kept'[f][x] = kept[f][x] \/ kept'[f][x] = 0
             /\ kept'[f][x] > 0 => x \in Readable(disk'[f])
  BY <1>1, <1>2 DEF KeptInv, KeptTypes
<1>4. KeptTypes'
  BY <1>1, <1>3 DEF KeptTypes
<1>5. KeptOnDisk'
  BY <1>3 DEF KeptOnDisk
<1>6. KeptOrToDo'
  BY <1>3 DEF KeptInv, KeptOrToDo, Reading, replicas
<1>7. KeptInForce'
  <2> SUFFICES ASSUME NEW s \in Replicas, up[s], NEW f \in Files, NEW x \in Rules,
                      kept'[f][x] > timer[s]
               PROVE  x \in policy[s]
    BY DEF KeptInForce, replicas
  <2>1. timer[s] \in 0 .. Interval
    BY DEF KeptInv, RecentInv, PolicyTypes
  <2>2. kept'[f][x] = kept[f][x]
    BY <1>3, <2>1
  <2> QED
    BY <2>2 DEF KeptInv, KeptInForce
<1> QED
  BY <1>4, <1>5, <1>6, <1>7

LEMMA KeptBeginInv ==
  ASSUME KeptInv, NEW s \in Replicas, Begin(s)
  PROVE  KeptTypes' /\ KeptOnDisk' /\ KeptOrToDo' /\ KeptInForce'
<1>1. UNCHANGED <<disk, policy, timer, up, kept>>
  BY DEF Begin
<1>2. KeptOrToDo'
  <2> SUFFICES ASSUME NEW t \in Replicas, Reading(t)', NEW f \in Files, NEW x \in Rules,
                      kept[f][x] > 0
               PROVE  f \in reading'[t].todo \/ x \in reading'[t].got
    BY <1>1 DEF KeptOrToDo
  <2>1. CASE t # s
    <3>1. reading'[t] = reading[t]
      BY <2>1 DEF Begin, KeptInv, RecentInv, PolicyTypes
    <3> QED
      BY <3>1 DEF KeptInv, KeptOrToDo, Reading
  <2>2. CASE t = s
    <3>1. reading'[s].todo = Present
      BY DEF Begin, KeptInv, RecentInv, PolicyTypes
    <3>2. x \in Readable(disk[f])
      BY DEF KeptInv, KeptOnDisk
    <3>3. disk[f] # Absent
      BY <3>2 DEF Readable
    <3> QED
      BY <2>2, <3>1, <3>3 DEF Present
  <2> QED
    BY <2>1, <2>2
<1> QED
  BY <1>1, <1>2 DEF KeptInv, KeptTypes, KeptOnDisk, KeptInForce

LEMMA KeptReadFileInv ==
  ASSUME KeptInv, NEW s \in Replicas, ReadFile(s)
  PROVE  KeptTypes' /\ KeptOnDisk' /\ KeptOrToDo' /\ KeptInForce'
<1>1. UNCHANGED <<disk, policy, timer, up, kept>>
  BY DEF ReadFile
<1>2. PICK g \in reading[s].todo :
        reading' = [reading EXCEPT ![s] =
          [todo  |-> TodoAfter(s, g),
           got   |-> reading[s].got \cup Readable(disk[g]),
           files |-> IF Sound(disk[g]) THEN reading[s].files + 1 ELSE reading[s].files]]
  BY DEF ReadFile, KeptInv, RecentInv, PolicyTypes
<1>3. KeptOrToDo'
  <2> SUFFICES ASSUME NEW t \in Replicas, Reading(t)', NEW f \in Files, NEW x \in Rules,
                      kept[f][x] > 0
               PROVE  f \in reading'[t].todo \/ x \in reading'[t].got
    BY <1>1 DEF KeptOrToDo
  <2>1. CASE t # s
    <3>1. reading'[t] = reading[t]
      BY <1>2, <2>1 DEF KeptInv, RecentInv, PolicyTypes
    <3> QED
      BY <3>1 DEF KeptInv, KeptOrToDo, Reading
  <2>2. CASE t = s
    <3>1. /\ reading'[s].todo = reading[s].todo \ {g}
          /\ reading'[s].got = reading[s].got \cup Readable(disk[g])
      BY <1>2 DEF KeptInv, RecentInv, PolicyTypes, TodoAfter
    <3>2. f \in reading[s].todo \/ x \in reading[s].got
      BY DEF KeptInv, KeptOrToDo, ReadFile
    <3>3. x \in Readable(disk[f])
      BY DEF KeptInv, KeptOnDisk
    <3> QED
      BY <2>2, <3>1, <3>2, <3>3
  <2> QED
    BY <2>1, <2>2
<1> QED
  BY <1>1, <1>3 DEF KeptInv, KeptTypes, KeptOnDisk, KeptInForce

LEMMA KeptInstallInv ==
  ASSUME KeptInv, NEW s \in Replicas, Install(s)
  PROVE  KeptTypes' /\ KeptOnDisk' /\ KeptOrToDo' /\ KeptInForce'
<1>1. UNCHANGED <<disk, kept>>
  BY DEF Install
<1>2. ASSUME NEW t \in Replicas, t # s
      PROVE  /\ reading'[t] = reading[t] /\ policy'[t] = policy[t]
             /\ timer'[t] = timer[t] /\ up'[t] = up[t]
  BY <1>2 DEF Install, KeptInv, RecentInv, PolicyTypes
<1>3. /\ reading'[s] = Resting
      /\ policy'[s] = reading[s].got
      /\ timer'[s] = 0
  BY DEF Install, KeptInv, RecentInv, PolicyTypes
<1>4. KeptOrToDo'
  <2> SUFFICES ASSUME NEW t \in Replicas, Reading(t)', NEW f \in Files, NEW x \in Rules,
                      kept[f][x] > 0
               PROVE  f \in reading'[t].todo \/ x \in reading'[t].got
    BY <1>1 DEF KeptOrToDo
  <2>1. t # s
    BY <1>3 DEF Reading
  <2> QED
    BY <1>2, <2>1 DEF KeptInv, KeptOrToDo, Reading
<1>5. KeptInForce'
  <2> SUFFICES ASSUME NEW t \in Replicas, up'[t], NEW f \in Files, NEW x \in Rules,
                      kept[f][x] > timer'[t]
               PROVE  x \in policy'[t]
    BY <1>1 DEF KeptInForce
  <2>1. CASE t # s
    BY <1>2, <2>1 DEF KeptInv, KeptInForce
  <2>2. CASE t = s
    <3>1. f \in reading[s].todo \/ x \in reading[s].got
      BY <1>3, <2>2 DEF KeptInv, KeptOrToDo, Install
    <3>2. reading[s].todo = {}
      BY DEF Install
    <3> QED
      BY <1>3, <2>2, <3>1, <3>2
  <2> QED
    BY <2>1, <2>2
<1> QED
  BY <1>1, <1>4, <1>5 DEF KeptInv, KeptTypes, KeptOnDisk

LEMMA KeptRestartInv ==
  ASSUME KeptInv, NEW s \in Replicas, Restart(s)
  PROVE  KeptTypes' /\ KeptOnDisk' /\ KeptOrToDo' /\ KeptInForce'
<1>1. UNCHANGED <<disk, kept>>
  BY DEF Restart
<1>2. ASSUME NEW t \in Replicas, t # s
      PROVE  /\ reading'[t] = reading[t] /\ policy'[t] = policy[t]
             /\ timer'[t] = timer[t] /\ up'[t] = up[t]
  BY <1>2 DEF Restart, KeptInv, RecentInv, PolicyTypes
<1>3. reading'[s] = Resting /\ up'[s] = FALSE
  BY DEF Restart, KeptInv, RecentInv, PolicyTypes
<1>4. KeptOrToDo'
  <2> SUFFICES ASSUME NEW t \in Replicas, Reading(t)', NEW f \in Files, NEW x \in Rules,
                      kept[f][x] > 0
               PROVE  f \in reading'[t].todo \/ x \in reading'[t].got
    BY <1>1 DEF KeptOrToDo
  <2>1. t # s
    BY <1>3 DEF Reading
  <2> QED
    BY <1>2, <2>1 DEF KeptInv, KeptOrToDo, Reading
<1>5. KeptInForce'
  <2> SUFFICES ASSUME NEW t \in Replicas, up'[t], NEW f \in Files, NEW x \in Rules,
                      kept[f][x] > timer'[t]
               PROVE  x \in policy'[t]
    BY <1>1 DEF KeptInForce
  <2>1. t # s
    BY <1>3
  <2> QED
    BY <1>2, <2>1 DEF KeptInv, KeptInForce
<1> QED
  BY <1>1, <1>4, <1>5 DEF KeptInv, KeptTypes, KeptOnDisk

LEMMA KeptTickInv ==
  ASSUME KeptInv, Tick
  PROVE  KeptTypes' /\ KeptOnDisk' /\ KeptOrToDo' /\ KeptInForce'
<1>1. UNCHANGED <<disk, policy, reading, up>>
  BY DEF Tick
<1>2. kept' = [f \in Files |-> [x \in Rules |->
                IF x \in Readable(disk[f]) THEN Older(kept[f][x]) ELSE 0]]
  BY DEF Tick
<1>3. ASSUME NEW f \in Files, NEW x \in Rules
      PROVE  /\ kept'[f][x] \in Ages
             /\ kept'[f][x] <= kept[f][x] + 1
             /\ kept'[f][x] > 0 => x \in Readable(disk[f])
  <2>1. kept[f][x] \in 0 .. Interval + 1
    BY DEF KeptInv, KeptTypes, Ages
  <2>2. Older(kept[f][x]) \in 0 .. Interval + 1 /\ Older(kept[f][x]) <= kept[f][x] + 1
    BY <2>1, IntervalAssumption DEF Older
  <2>3. kept'[f][x] = IF x \in Readable(disk[f]) THEN Older(kept[f][x]) ELSE 0
    BY <1>2
  <2> QED
    BY <2>1, <2>2, <2>3, IntervalAssumption DEF Ages
<1>4. KeptTypes'
  BY <1>2, <1>3 DEF KeptTypes
<1>5. KeptOnDisk'
  BY <1>1, <1>3 DEF KeptOnDisk
<1>6. KeptOrToDo'
  BY <1>1 DEF KeptOrToDo, Reading, Tick
<1>7. KeptInForce'
  <2> SUFFICES ASSUME NEW s \in Replicas, up[s], NEW f \in Files, NEW x \in Rules,
                      kept'[f][x] > timer'[s]
               PROVE  x \in policy[s]
    BY <1>1 DEF KeptInForce
  <2>1. timer'[s] = timer[s] + 1
    BY DEF Tick
  <2>2. timer[s] \in 0 .. Interval
    BY DEF KeptInv, RecentInv, PolicyTypes
  <2>3. kept[f][x] \in 0 .. Interval + 1 /\ kept'[f][x] \in 0 .. Interval + 1
    BY <1>3 DEF KeptInv, KeptTypes, Ages
  <2>4. kept'[f][x] <= kept[f][x] + 1
    BY <1>3
  <2>5. kept[f][x] > timer[s]
    BY <2>1, <2>2, <2>3, <2>4, IntervalAssumption
  <2> QED
    BY <2>5 DEF KeptInv, KeptInForce
<1> QED
  BY <1>4, <1>5, <1>6, <1>7

LEMMA InitKept == AuthInit => KeptInv
<1> SUFFICES ASSUME AuthInit PROVE KeptInv
  OBVIOUS
<1>1. RecentInv
  BY InitRecent
<1>2. 0 \in Ages
  BY IntervalAssumption DEF Ages
<1>3. KeptTypes
  BY <1>2 DEF AuthInit, KeptTypes
<1>4. KeptOnDisk
  BY DEF AuthInit, KeptOnDisk
<1>5. KeptOrToDo /\ KeptInForce
  BY DEF AuthInit, KeptOrToDo, KeptInForce, Reading
<1> QED
  BY <1>1, <1>3, <1>4, <1>5 DEF KeptInv

LEMMA StepKept == KeptInv /\ [AuthNext]_authVars => KeptInv'
<1> SUFFICES ASSUME KeptInv, [AuthNext]_authVars PROVE KeptInv'
  OBVIOUS
<1>1. RecentInv'
  BY StepRecent DEF KeptInv
<1> SUFFICES KeptTypes' /\ KeptOnDisk' /\ KeptOrToDo' /\ KeptInForce'
  BY <1>1 DEF KeptInv
<1>2. CASE \E f \in Files : Remove(f) \/ Open(f)
  <2>1. PICK f \in Files : Remove(f) \/ Open(f)
    BY <1>2
  <2>2. CASE Remove(f)
    BY <2>2, KeptFilesInv DEF Remove
  <2>3. CASE Open(f)
    BY <2>3, KeptFilesInv DEF Open
  <2> QED
    BY <2>1, <2>2, <2>3
<1>3. CASE Close
  BY <1>3, KeptFilesInv DEF Close
<1>4. CASE \E s \in Replicas : AuthStep(s)
  <2>1. PICK s \in Replicas : AuthStep(s)
    BY <1>4
  <2>2. CASE Begin(s)
    BY <2>2, KeptBeginInv
  <2>3. CASE ReadFile(s)
    BY <2>3, KeptReadFileInv
  <2>4. CASE Install(s)
    BY <2>4, KeptInstallInv
  <2>5. CASE Restart(s)
    BY <2>5, KeptRestartInv
  <2>6. CASE Request(s) \/ EnforceRoute(s) \/ EnforceOrError(s) \/ Finish(s)
    <3>1. UNCHANGED <<disk, policy, reading, timer, up, kept>>
      BY <2>6 DEF Request, EnforceRoute, EnforceOrError, Finish
    <3> QED
      BY <3>1 DEF KeptInv, KeptTypes, KeptOnDisk, KeptOrToDo, KeptInForce, Reading
  <2> QED
    BY <2>1, <2>2, <2>3, <2>4, <2>5, <2>6 DEF AuthStep
<1>5. CASE Tick
  BY <1>5, KeptTickInv
<1>6. CASE UNCHANGED authVars
  BY <1>6 DEF authVars, KeptInv, KeptTypes, KeptOnDisk, KeptOrToDo, KeptInForce, Reading
<1> QED
  BY <1>2, <1>3, <1>4, <1>5, <1>6 DEF AuthNext

LEMMA KeptGranted == KeptInv => KeptRulesGrant
<1> SUFFICES ASSUME KeptInv, NEW s \in Replicas, up[s], NEW f \in Files, NEW x \in Rules,
                    kept[f][x] > Interval
             PROVE  x \in policy[s]
  BY DEF KeptRulesGrant, Granted
<1>1. timer[s] \in 0 .. Interval /\ kept[f][x] \in 0 .. Interval + 1
  BY DEF KeptInv, RecentInv, PolicyTypes, KeptTypes, Ages
<1>2. kept[f][x] > timer[s]
  BY <1>1, IntervalAssumption
<1> QED
  BY <1>2 DEF KeptInv, KeptInForce

(* A rule that one file keeps, readable, for longer than an interval is in   *)
(* force at every replica that serves, however many other files are broken   *)
(* or come and go meanwhile (multifileadapter.py:47-56).                     *)
THEOREM KeptRulesGrantAlways == AuthSpec => []KeptRulesGrant
<1>1. AuthInit => KeptInv
  BY InitKept
<1>2. KeptInv /\ [AuthNext]_authVars => KeptInv'
  BY StepKept
<1>3. KeptInv => KeptRulesGrant
  BY KeptGranted
<1> QED
  BY <1>1, <1>2, <1>3, PTL DEF AuthSpec

-----------------------------------------------------------------------------
(* The types, and the number of files a replica counts.                      *)

(* Files hold what operators gave them, or nothing while they are rewritten. *)
GivenOK ==
  /\ \A f \in Files : disk[f] \in Deployable[f] \cup {<<>>}
  /\ writing # <<>> => writing[1] \in Files /\ writing[2] \in Deployable[writing[1]]

(* The files that a reading has counted and those it has still to open are   *)
(* not more than there are.                                                  *)
CountOK ==
  /\ counted \in [Replicas -> 0 .. Cardinality(Files)]
  /\ \A s \in Replicas : Reading(s) =>
       /\ reading[s].files \in Nat
       /\ reading[s].files + Cardinality(reading[s].todo) <= Cardinality(Files)

LEMMA InitGiven == AuthInit => GivenOK /\ CountOK
<1> SUFFICES ASSUME AuthInit PROVE GivenOK /\ CountOK
  OBVIOUS
<1>1. GivenOK
  BY DEF AuthInit, GivenOK
<1>2. Cardinality(Files) \in Nat
  BY FilesAssumption, FS_CardinalityType
<1>3. 0 \in 0 .. Cardinality(Files)
  BY <1>2
<1>4. counted \in [Replicas -> 0 .. Cardinality(Files)]
  BY <1>3 DEF AuthInit
<1>5. \A s \in Replicas : ~Reading(s)
  BY DEF AuthInit, Reading
<1> QED
  BY <1>1, <1>4, <1>5 DEF CountOK

(* Operators give a file only what may be deployed there. *)
LEMMA GivenStep ==
  ASSUME RecentInv, GivenOK, [AuthNext]_authVars
  PROVE  GivenOK'
<1>0. DOMAIN disk = Files
  BY DEF RecentInv, PolicyTypes
<1>1. ASSUME NEW f \in Files, Remove(f) PROVE GivenOK'
  <2>1. disk' = [disk EXCEPT ![f] = Absent] /\ writing' = <<>> /\ Absent \in Deployable[f]
    BY <1>1 DEF Remove, Note
  <2> QED
    BY <1>0, <2>1 DEF GivenOK
<1>2. ASSUME NEW f \in Files, Open(f) PROVE GivenOK'
  <2>1. PICK content \in Deployable[f] : writing' = <<f, content>>
    BY <1>2 DEF Open
  <2>2. disk' = [disk EXCEPT ![f] = <<>>]
    BY <1>2 DEF Open, Note
  <2>3. \A g \in Files : disk'[g] \in Deployable[g] \cup {<<>>}
    BY <1>0, <2>2 DEF GivenOK
  <2>4. writing'[1] = f /\ writing'[2] = content
    BY <2>1
  <2> QED
    BY <2>3, <2>4 DEF GivenOK
<1>3. CASE Close
  <2>1. PICK f \in Files : f = writing[1] /\ writing[2] \in Deployable[f]
    BY <1>3 DEF Close, GivenOK
  <2>2. disk' = [disk EXCEPT ![f] = writing[2]] /\ writing' = <<>>
    BY <1>3, <2>1 DEF Close, Note
  <2> QED
    BY <1>0, <2>1, <2>2 DEF GivenOK
<1>4. CASE UNCHANGED <<disk, writing>>
  BY <1>4 DEF GivenOK
<1>5. ASSUME NEW s \in Replicas, AuthStep(s) PROVE UNCHANGED <<disk, writing>>
  BY <1>5 DEF AuthStep, Begin, ReadFile, Install, Restart, Request, EnforceRoute,
              EnforceOrError, Finish
<1>6. CASE Tick \/ UNCHANGED authVars
  BY <1>4, <1>6 DEF Tick, authVars
<1> QED
  BY <1>1, <1>2, <1>3, <1>4, <1>5, <1>6 DEF AuthNext

(* A reading begins with the files that are there, and each one leaves the   *)
(* list before it is counted.                                                *)
LEMMA CountStep ==
  ASSUME RecentInv, CountOK, [AuthNext]_authVars
  PROVE  CountOK'
<1>0. /\ IsFiniteSet(Files) /\ Cardinality(Files) \in Nat
      /\ reading \in [Replicas -> Readings] /\ up \in [Replicas -> BOOLEAN]
      /\ counted \in [Replicas -> 0 .. Cardinality(Files)]
  BY FilesAssumption, FS_CardinalityType DEF RecentInv, PolicyTypes, CountOK
<1>1. ASSUME NEW s \in Replicas, NEW rd, reading' = [reading EXCEPT ![s] = rd],
             counted' \in [Replicas -> 0 .. Cardinality(Files)],
             rd # Resting => /\ rd.files \in Nat
                             /\ rd.files + Cardinality(rd.todo) <= Cardinality(Files)
      PROVE  CountOK'
  <2>1. ASSUME NEW t \in Replicas, Reading(t)'
        PROVE  /\ reading'[t].files \in Nat
               /\ reading'[t].files + Cardinality(reading'[t].todo) <= Cardinality(Files)
    <3>1. CASE t = s
      <4>1. reading'[t] = rd
        BY <1>0, <1>1, <3>1
      <4> QED
        BY <1>1, <2>1, <4>1 DEF Reading
    <3>2. CASE t # s
      <4>1. reading'[t] = reading[t]
        BY <1>0, <1>1, <3>2
      <4> QED
        BY <2>1, <4>1 DEF Reading, CountOK
    <3> QED
      BY <3>1, <3>2
  <2> QED
    BY <1>1, <2>1 DEF CountOK
<1>2. ASSUME NEW s \in Replicas, Begin(s) PROVE CountOK'
  <2>1. PICK rd : rd = [todo |-> Present, got |-> NoRules(s), files |-> NoFiles(s)]
    OBVIOUS
  <2>2. rd.todo = Present /\ rd.files = 0
    BY <2>1 DEF NoFiles
  <2>3. Present \subseteq Files
    BY DEF Present
  <2>4. Cardinality(Present) \in Nat /\ Cardinality(Present) <= Cardinality(Files)
    BY <1>0, <2>3, FS_Subset, FS_CardinalityType
  <2>5. reading' = [reading EXCEPT ![s] = rd] /\ counted' = counted
    BY <1>2, <2>1 DEF Begin
  <2>6. rd.files \in Nat /\ rd.files + Cardinality(rd.todo) <= Cardinality(Files)
    BY <1>0, <2>2, <2>4
  <2>7. counted' \in [Replicas -> 0 .. Cardinality(Files)]
    BY <1>0, <2>5
  <2> QED
    BY <1>1, <2>5, <2>6, <2>7
<1>3. ASSUME NEW s \in Replicas, ReadFile(s) PROVE CountOK'
  <2>1. PICK f \in reading[s].todo :
          reading' = [reading EXCEPT ![s] =
            [todo  |-> TodoAfter(s, f),
             got   |-> @.got \cup Readable(disk[f]),
             files |-> IF Sound(disk[f]) THEN @.files + 1 ELSE @.files]]
    BY <1>3 DEF ReadFile
  <2>2. PICK rd : rd = [todo  |-> TodoAfter(s, f),
                        got   |-> reading[s].got \cup Readable(disk[f]),
                        files |-> IF Sound(disk[f]) THEN reading[s].files + 1
                                                    ELSE reading[s].files]
    OBVIOUS
  <2>3. rd.todo = reading[s].todo \ {f}
    BY <2>2 DEF TodoAfter
  <2>4. rd.files = reading[s].files \/ rd.files = reading[s].files + 1
    BY <2>2
  <2>5. reading[s].todo \subseteq Files /\ IsFiniteSet(reading[s].todo)
    <3>1. reading[s] \in Readings
      BY <1>0
    <3>2. reading[s].todo \subseteq Files
      BY <3>1 DEF Readings
    <3> QED
      BY <1>0, <3>2, FS_Subset
  <2>6. Cardinality(rd.todo) = Cardinality(reading[s].todo) - 1
    BY <2>1, <2>3, <2>5, FS_RemoveElement
  <2>7. Cardinality(reading[s].todo) \in Nat
    BY <2>5, FS_CardinalityType
  <2>8. /\ reading[s].files \in Nat
        /\ reading[s].files + Cardinality(reading[s].todo) <= Cardinality(Files)
    BY <1>3 DEF ReadFile, CountOK
  <2>9. reading' = [reading EXCEPT ![s] = rd] /\ counted' = counted
    BY <1>0, <1>3, <2>1, <2>2 DEF ReadFile
  <2>10. rd.files \in Nat /\ rd.files + Cardinality(rd.todo) <= Cardinality(Files)
    BY <1>0, <2>4, <2>6, <2>7, <2>8
  <2> QED
    BY <1>0, <1>1, <2>9, <2>10
<1>4. ASSUME NEW s \in Replicas, Install(s) PROVE CountOK'
  <2>1. reading[s].todo = {} /\ reading[s].files \in Nat
        /\ reading[s].files + Cardinality(reading[s].todo) <= Cardinality(Files)
    BY <1>4 DEF Install, CountOK
  <2>2. Cardinality(reading[s].todo) = 0
    BY <2>1, FS_EmptySet
  <2>3. reading[s].files \in 0 .. Cardinality(Files)
    BY <1>0, <2>1, <2>2
  <2>4. counted' = [counted EXCEPT ![s] = IF up[s] THEN @ ELSE reading[s].files]
    BY <1>4 DEF Install
  <2>5. counted' \in [Replicas -> 0 .. Cardinality(Files)]
    BY <1>0, <2>3, <2>4
  <2>6. reading' = [reading EXCEPT ![s] = Resting]
    BY <1>4 DEF Install
  <2> QED
    BY <1>1, <2>5, <2>6
<1>5. ASSUME NEW s \in Replicas, Restart(s) PROVE CountOK'
  <2>1. counted' \in [Replicas -> 0 .. Cardinality(Files)]
    BY <1>0, <1>5 DEF Restart
  <2>2. reading' = [reading EXCEPT ![s] = Resting]
    BY <1>5 DEF Restart
  <2> QED
    BY <1>1, <2>1, <2>2
<1>6. CASE UNCHANGED <<counted, reading>>
  BY <1>6 DEF CountOK, Reading
<1>7. ASSUME NEW f \in Files, Remove(f) \/ Open(f) PROVE UNCHANGED <<counted, reading>>
  BY <1>7 DEF Remove, Open, replicas
<1>8. CASE Close
  BY <1>6, <1>8 DEF Close, replicas
<1>9. CASE Tick \/ UNCHANGED authVars
  BY <1>6, <1>9 DEF Tick, authVars
<1>10. ASSUME NEW s \in Replicas,
              Request(s) \/ EnforceRoute(s) \/ EnforceOrError(s) \/ Finish(s)
       PROVE  UNCHANGED <<counted, reading>>
  BY <1>10 DEF Request, EnforceRoute, EnforceOrError, Finish
<1> QED
  BY <1>2, <1>3, <1>4, <1>5, <1>6, <1>7, <1>8, <1>9, <1>10 DEF AuthNext, AuthStep

LEMMA TypesFollow == KeptInv /\ GivenOK /\ CountOK => AuthTypeOK
<1> SUFFICES ASSUME KeptInv, GivenOK, CountOK PROVE AuthTypeOK
  OBVIOUS
<1>1. PolicyTypes /\ KeptTypes
  BY DEF KeptInv, RecentInv
<1>2. ASSUME NEW s \in Replicas, Reading(s)
      PROVE  reading[s] \in [todo : SUBSET Files, got : SUBSET Rules,
                             files : 0 .. Cardinality(Files)]
  <2>1. reading[s] \in Readings
    BY <1>1 DEF PolicyTypes
  <2>2. reading[s].todo \subseteq Files /\ IsFiniteSet(reading[s].todo)
    <3>1. reading[s].todo \subseteq Files
      BY <2>1 DEF Readings
    <3> QED
      BY <3>1, FilesAssumption, FS_Subset
  <2>3. Cardinality(reading[s].todo) \in Nat /\ Cardinality(Files) \in Nat
    BY <2>2, FilesAssumption, FS_CardinalityType
  <2>4. reading[s].files \in 0 .. Cardinality(Files)
    BY <1>2, <2>3 DEF CountOK
  <2> QED
    BY <2>1, <2>4 DEF Readings
<1>3. counted \in [Replicas -> 0 .. Cardinality(Files)]
  BY DEF CountOK
<1> QED
  BY <1>1, <1>2, <1>3 DEF AuthTypeOK, GivenOK, PolicyTypes, KeptTypes

(* The types, for any finite number of policy files: a replica never counts  *)
(* more files than there are, though they come and go while it reads         *)
(* (multifileadapter.py:47-56).                                              *)
THEOREM AuthTypes == AuthSpec => []AuthTypeOK
<1>1. AuthInit => KeptInv /\ GivenOK /\ CountOK
  BY InitKept, InitGiven
<1>2. KeptInv => RecentInv
  BY DEF KeptInv
<1>3. KeptInv /\ GivenOK /\ CountOK /\ [AuthNext]_authVars => (KeptInv /\ GivenOK /\ CountOK)'
  BY <1>2, StepKept, GivenStep, CountStep
<1>4. KeptInv /\ GivenOK /\ CountOK => AuthTypeOK
  BY TypesFollow
<1> QED
  BY <1>1, <1>3, <1>4, PTL DEF AuthSpec

=============================================================================
