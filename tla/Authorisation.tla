---------------------------- MODULE Authorisation ----------------------------
(***************************************************************************)
(* The permissions of SDS: lines of policy files that AuthzService reads   *)
(* with a MultiFileAdapter into casbin when a replica starts, and again,   *)
(* in a thread of its own, an Interval after the last reading.  Meanwhile  *)
(* operators rewrite, add and remove files.  A reading lists the files,    *)
(* then opens one after the other; requests wait until it is over, since   *)
(* casbin's SyncedEnforcer reads under its write lock, into a new model    *)
(* that replaces the old one at the end.                                   *)
(*                                                                         *)
(* A deletion asks twice: CasbinMiddleware for the route, then the handler *)
(* for DELETE on the client's bucket.  Rules are whole lines here: what    *)
(* the matcher does with one (equality, a regular expression on the        *)
(* action) is not modelled.  Every line that can be decoded is a rule with *)
(* the fields casbin expects: one with fewer or more, in any file, makes   *)
(* casbin raise at every request.                                          *)
(***************************************************************************)
EXTENDS Integers, Sequences, FiniteSets

CONSTANTS
  Replicas,
  Files,        \* paths a policy file may have
  Rules,        \* policy lines
  RouteRule,    \* the rule a deletion needs at CasbinMiddleware
  DeleteRule,   \* the rule it needs in delete_files
  Garbled,      \* a line that cannot be decoded
  Absent,       \* content of a path where no file is
  Deployable,   \* contents that operators give to each file
  Interval      \* CASBIN_RELOAD_INTERVAL, in ticks

ASSUME RulesAssumption    == {RouteRule, DeleteRule} \subseteq Rules /\ Garbled \notin Rules
ASSUME IntervalAssumption == Interval \in Nat /\ Interval > 0
ASSUME FilesAssumption    == IsFiniteSet(Files)
ASSUME DeployAssumption   ==
  /\ Absent \notin Seq(Rules \cup {Garbled})
  /\ Deployable \in [Files -> SUBSET (Seq(Rules \cup {Garbled}) \cup {Absent})]

VARIABLES
  disk,       \* content of each file
  writing,    \* <<file, content>> of the rewrite under way, or <<>>
  policy,     \* rules in force at each replica
  counted,    \* AuthzService._num_policies of each replica
  reading,    \* the reading under way at each replica, or Resting
  timer,      \* ticks since each replica's last reading
  up,         \* replicas that serve requests
  asking,     \* what the request at each replica waits to be allowed
  gone,       \* history: ticks since each rule was last in a file, capped
  kept        \* history: ticks a rule has been readable in a file, capped

authVars == <<disk, writing, policy, counted, reading, timer, up, asking, gone, kept>>
replicas == <<policy, counted, reading, timer, up, asking>>

Resting == [todo |-> {}, got |-> {}, files |-> -1]
Reading(s) == reading[s] # Resting
Ages    == 0 .. Interval + 1
Older(n) == IF n > Interval THEN n ELSE n + 1

(* The lines of a file that a reading takes in: it stops at the first one    *)
(* that cannot be decoded and keeps what came before.                        *)
Sound(content) == content # Absent /\ \A i \in DOMAIN content : content[i] # Garbled
Readable(content) ==
  IF content = Absent THEN {}
  ELSE {content[i] : i \in {j \in DOMAIN content : \A k \in 1 .. j : content[k] # Garbled}}

OnDisk(d, x) == \E f \in Files : x \in Readable(d[f])

(* What a change of the files does to the histories. *)
Note(d) ==
  /\ disk' = d
  /\ gone' = [x \in Rules |-> IF OnDisk(d, x) \/ OnDisk(disk, x) THEN 0 ELSE gone[x]]
  /\ kept' = [f \in Files |-> [x \in Rules |->
                IF x \in Readable(d[f]) THEN kept[f][x] ELSE 0]]

-----------------------------------------------------------------------------
(* Operators: a file is removed, or rewritten, which empties it first.       *)
Remove(f) ==
  /\ writing = <<>> /\ Absent \in Deployable[f] /\ disk[f] # Absent
  /\ Note([disk EXCEPT ![f] = Absent])
  /\ UNCHANGED <<writing, replicas>>

Open(f) ==
  /\ writing = <<>>
  /\ \E content \in Deployable[f] \ {Absent, disk[f]} : writing' = <<f, content>>
  /\ Note([disk EXCEPT ![f] = <<>>])
  /\ UNCHANGED replicas

Close ==
  /\ writing # <<>>
  /\ Note([disk EXCEPT ![writing[1]] = writing[2]])
  /\ writing' = <<>>
  /\ UNCHANGED replicas

-----------------------------------------------------------------------------
(* MultiFileAdapter: the list of paths is made first.                        *)
Present == {f \in Files : disk[f] # Absent}

RulesSoFar(s) == policy[s]
NoRules(s) == {}

CountGoesOn(s) == counted[s]
NoFiles(s) == 0

Begin(s) ==
  /\ ~Reading(s)
  /\ up[s] => timer[s] = Interval
  /\ reading' = [reading EXCEPT ![s] = [todo |-> Present, got |-> NoRules(s), files |-> NoFiles(s)]]
  /\ UNCHANGED <<disk, writing, policy, counted, timer, up, asking, gone, kept>>

(* One file of the list.  A file that has gone, or that stops being          *)
(* readable, is not counted; the others are read all the same.               *)
TodoUnlessBroken(s, f) == IF Sound(disk[f]) THEN reading[s].todo \ {f} ELSE {}
TodoAfter(s, f) == reading[s].todo \ {f}

ReadFile(s) ==
  /\ Reading(s)
  /\ \E f \in reading[s].todo :
       reading' = [reading EXCEPT ![s] =
         [todo  |-> TodoAfter(s, f),
          got   |-> @.got \cup Readable(disk[f]),
          files |-> IF Sound(disk[f]) THEN @.files + 1 ELSE @.files]]
  /\ UNCHANGED <<disk, writing, policy, counted, timer, up, asking, gone, kept>>

(* The new model takes effect.  The number of files is kept from the first   *)
(* reading of the process, the one AuthzService makes when it is imported.   *)
Install(s) ==
  /\ Reading(s) /\ reading[s].todo = {}
  /\ policy' = [policy EXCEPT ![s] = reading[s].got]
  /\ counted' = [counted EXCEPT ![s] = IF up[s] THEN @ ELSE reading[s].files]
  /\ up' = [up EXCEPT ![s] = TRUE]
  /\ reading' = [reading EXCEPT ![s] = Resting]
  /\ timer' = [timer EXCEPT ![s] = 0]
  /\ UNCHANGED <<disk, writing, asking, gone, kept>>

(* A replica is restarted: it serves again after its first reading. *)
Restart(s) ==
  /\ up[s]
  /\ up' = [up EXCEPT ![s] = FALSE]
  /\ policy' = [policy EXCEPT ![s] = {}]
  /\ counted' = [counted EXCEPT ![s] = 0]
  /\ reading' = [reading EXCEPT ![s] = Resting]
  /\ timer' = [timer EXCEPT ![s] = 0]
  /\ asking' = [asking EXCEPT ![s] = "nothing"]
  /\ UNCHANGED <<disk, writing, gone, kept>>

-----------------------------------------------------------------------------
(* A request, a deletion.  Between its two questions the thread of the       *)
(* reload may run, but no other request of the replica.                      *)
Granted(s, x) == x \in policy[s]
CanEnforce(s) == up[s] /\ ~Reading(s)

Request(s) ==
  /\ up[s] /\ asking[s] = "nothing"
  /\ asking' = [asking EXCEPT ![s] = "route"]
  /\ UNCHANGED <<disk, writing, policy, counted, reading, timer, up, gone, kept>>

EnforceRoute(s) ==
  /\ CanEnforce(s) /\ asking[s] = "route"
  /\ asking' = [asking EXCEPT ![s] = IF Granted(s, RouteRule) THEN "delete" ELSE "nothing"]
  /\ UNCHANGED <<disk, writing, policy, counted, reading, timer, up, gone, kept>>

EnforceOrError(s) ==
  /\ CanEnforce(s) /\ asking[s] = "delete"
  /\ asking' = [asking EXCEPT ![s] = IF Granted(s, DeleteRule) THEN "allowed" ELSE "nothing"]
  /\ UNCHANGED <<disk, writing, policy, counted, reading, timer, up, gone, kept>>

Finish(s) ==
  /\ asking[s] = "allowed"
  /\ asking' = [asking EXCEPT ![s] = "nothing"]
  /\ UNCHANGED <<disk, writing, policy, counted, reading, timer, up, gone, kept>>

(* Time passes.  A reading that is due begins, and one that began ends,      *)
(* before the next tick, as does a request: a reading takes no time next to  *)
(* the Interval, and how long one takes is to be added to it.                *)
Tick ==
  /\ \A s \in Replicas : ~Reading(s) /\ (up[s] => timer[s] < Interval)
  /\ \A s \in Replicas : asking[s] = "nothing"
  /\ timer' = [s \in Replicas |-> IF up[s] THEN timer[s] + 1 ELSE timer[s]]
  /\ gone' = [x \in Rules |-> IF OnDisk(disk, x) THEN 0 ELSE Older(gone[x])]
  /\ kept' = [f \in Files |-> [x \in Rules |->
                IF x \in Readable(disk[f]) THEN Older(kept[f][x]) ELSE 0]]
  /\ UNCHANGED <<disk, writing, policy, counted, reading, up, asking>>

AuthInit ==
  /\ disk \in {d \in [Files -> UNION {Deployable[f] : f \in Files}] :
                 \A f \in Files : d[f] \in Deployable[f]}
  /\ writing = <<>>
  /\ policy = [s \in Replicas |-> {}]
  /\ counted = [s \in Replicas |-> 0]
  /\ reading = [s \in Replicas |-> Resting]
  /\ timer = [s \in Replicas |-> 0]
  /\ up = [s \in Replicas |-> FALSE]
  /\ asking = [s \in Replicas |-> "nothing"]
  /\ gone = [x \in Rules |-> IF OnDisk(disk, x) THEN 0 ELSE Interval + 1]
  /\ kept = [f \in Files |-> [x \in Rules |-> 0]]

AuthStep(s) ==
  \/ Begin(s) \/ ReadFile(s) \/ Install(s) \/ Restart(s)
  \/ Request(s) \/ EnforceRoute(s) \/ EnforceOrError(s) \/ Finish(s)

AuthNext ==
  \/ \E f \in Files : Remove(f) \/ Open(f)
  \/ Close
  \/ \E s \in Replicas : AuthStep(s)
  \/ Tick

AuthSpec == AuthInit /\ [][AuthNext]_authVars

-----------------------------------------------------------------------------
(* Properties *)

(* Types; a replica that serves has read its files within the Interval. *)
AuthTypeOK ==
  /\ \A f \in Files : disk[f] \in Deployable[f] \cup {<<>>}
  /\ writing # <<>> => writing[1] \in Files /\ writing[2] \in Deployable[writing[1]]
  /\ policy \in [Replicas -> SUBSET Rules]
  /\ counted \in [Replicas -> 0 .. Cardinality(Files)]
  /\ \A s \in Replicas : Reading(s) =>
       reading[s] \in [todo : SUBSET Files, got : SUBSET Rules, files : 0 .. Cardinality(Files)]
  /\ timer \in [Replicas -> 0 .. Interval]
  /\ up \in [Replicas -> BOOLEAN]
  /\ asking \in [Replicas -> {"nothing", "route", "delete", "allowed"}]
  /\ gone \in [Rules -> Ages]
  /\ kept \in [Files -> [Rules -> Ages]]

(* A deletion goes ahead only under rules that some file gave within the     *)
(* last Interval: a permission that was withdrawn from the files lapses,     *)
(* whatever else was rewritten or broken meanwhile (authz_service.py:50,     *)
(* delete_files.py:38).                                                      *)
AllowedIsRecent ==
  \A s \in Replicas : asking[s] = "allowed" =>
    gone[RouteRule] <= Interval /\ gone[DeleteRule] <= Interval

(* A rule that one file has kept, readable, for longer than an Interval is   *)
(* in force at every replica that serves, also when other files were added,  *)
(* rewritten, removed, or cut off by a line that cannot be decoded, while    *)
(* they were read (multifileadapter.py:47-56).                               *)
KeptRulesGrant ==
  \A s \in Replicas : up[s] =>
    \A f \in Files, x \in Rules : kept[f][x] > Interval => Granted(s, x)

=============================================================================
