---------------------------- MODULE ConfigBuilder ----------------------------
(***************************************************************************)
(* configbuilder.py, with which operators add and edit clients: a client   *)
(* has two files in one directory (home), named after it, a configuration  *)
(* (json) and permissions (csv).  A command reads both into a bundle, asks *)
(* question after question about its lists, and only then writes the       *)
(* configuration, then the permissions.  It may die at any question and    *)
(* between any two writes.  Between commands operators remove the json of  *)
(* a client that is to lose access (docs/client_configurations.md:177).    *)
(***************************************************************************)
EXTENDS Integers, Sequences, FiniteSets, SequencesExt

CONSTANTS
  Clients, Homes,
  Fragments,      \* what an operator may give as a client's id
  Begins,         \* the clients whose id begins with a fragment
  Buckets,
  Routes,         \* the rules of the routes of the application
  FreshPaths, FreshActions, FreshArgs,     \* new values an operator types, no commas
  Recommended,    \* filters of a new client
  AllFilters,     \* every filter there is
  Absent,         \* content of a file that is not there
  Cut,            \* content of a json that was opened but not written
  None,           \* Python's None
  Deployments,    \* sets of files there may be at first
  MaxCommands     \* bound on the commands and removals of a behaviour

RuleAction == "(CREATE)|(READ)"

(* What a rule and a filter may consist of. *)
RulePaths   == Buckets \cup FreshPaths \cup {x.path : x \in ToSet(Routes)}
RuleActions == {RuleAction, "None"} \cup FreshActions \cup {x.action : x \in ToSet(Routes)}
Rule        == [path : RulePaths, action : RuleActions \cup {None}]
Filters     == ToSet(Recommended) \cup ToSet(AllFilters)
Filter      == [name : {x.name : x \in Filters},
                arg  : {x.arg : x \in Filters} \cup FreshArgs \cup {None}]
Config      == [bucket : Buckets \cup {None}, filters : Seq(Filter)]

ASSUME FragmentsAssumption ==
  /\ Begins \in [Fragments -> SUBSET Clients]
  /\ \A c \in Clients : c \in Fragments => c \in Begins[c]
ASSUME FilesAssumption == IsFiniteSet(Clients) /\ IsFiniteSet(Homes)
ASSUME ListsAssumption ==
  /\ Routes \in Seq(Rule)
  /\ Recommended \in Seq(Filter) /\ AllFilters \in Seq(Filter)
ASSUME SentinelsAssumption ==
  /\ None \notin Buckets \cup RulePaths \cup RuleActions
  /\ Absent # Cut /\ Absent \notin Config /\ Cut \notin Config
  /\ Absent \notin Seq(Rule)
ASSUME BoundAssumption == MaxCommands \in Nat

VARIABLES
  json, csv,      \* content of the files of each client in each home
  cmd,            \* the command under way
  at,             \* where it is
  cursor,         \* the item asked about, or the file written
  bundle,         \* the ClientBundle in memory
  removes,        \* items to be removed at the end
  wanted,         \* history: what the operator accepted so far
  before,         \* history: the files when the command began
  last,           \* how the last command ended
  commands        \* commands and removals so far

files   == <<json, csv>>
session == <<cmd, bundle, removes, wanted, before>>
toolVars == <<files, session, at, cursor, last, commands>>

Paths   == Homes \X Clients
Nothing == [bucket |-> None, rules |-> <<>>, filters |-> <<>>]
NoCmd   == [op |-> "none", path |-> <<>>, given |-> None]

(* Loading: a json that was cut short, or has no bucket, does not validate;  *)
(* a csv without a line has no client.                                       *)
Loadable(j, c) == j # Cut /\ (j # Absent => j.bucket # None) /\ c # <<>>

BucketRule(b) == [path |-> b, action |-> RuleAction]

(* get_or_create_clientconfig and get_or_create_clientacl.  load_from_csv     *)
(* keeps the lines of four parts that are the first line's client's: all, of *)
(* a csv that write made of values without commas.                           *)
GetOrCreate(j, c, b) ==
  LET config == IF j # Absent THEN j ELSE [bucket |-> b, filters |-> Recommended]
  IN [bucket  |-> config.bucket,
      filters |-> config.filters,
      rules   |-> IF c # Absent THEN c ELSE <<BucketRule(config.bucket)>>]

(* A line of the csv: None is written as a word. *)
LineRaw(item) == item
Line(item) == [item EXCEPT !.action = IF @ = None THEN "None" ELSE @]
CsvLines(rules) == [i \in DOMAIN rules |-> Line(rules[i])]

(* prompt_for_value: "d" gives None whether it was offered or not. *)
Prompt(current, fresh) == {current, None} \cup fresh

End(how) ==
  /\ last' = how
  /\ at' = "idle" /\ cursor' = 0
  /\ cmd' = NoCmd /\ bundle' = Nothing /\ removes' = <<>> /\ wanted' = Nothing
  /\ before' = <<>>

Begin(op, p, given, b) ==
  /\ commands' = commands + 1
  /\ UNCHANGED files
  /\ IF Loadable(json[p], csv[p])
     THEN /\ cmd' = [op |-> op, path |-> p, given |-> given]
          /\ bundle' = GetOrCreate(json[p], csv[p], b)
          /\ wanted' = bundle'
          /\ before' = files
          /\ at' = IF op = "edit" THEN "client" ELSE "rules"
          /\ last' = "none"
          /\ UNCHANGED <<cursor, removes>>
     ELSE End("refused")

-----------------------------------------------------------------------------
Add(p, b) ==
  /\ at = "idle" /\ commands < MaxCommands
  /\ Begin("add", p, p[2], b)

(* load_clientbundle: there must be one json whose name begins with what was *)
(* given.                                                                    *)
Candidates(given) == {p \in Paths : json[p] # Absent /\ p[2] \in Begins[given]}
PicksAny(given) == Candidates(given)
Picks(given) == IF Cardinality(Candidates(given)) = 1 THEN Candidates(given) ELSE {}

Edit(given) ==
  /\ at = "idle" /\ commands < MaxCommands
  /\ \/ \E p \in Picks(given) : Begin("edit", p, given, None)
     \/ /\ Picks(given) = {}
        /\ commands' = commands + 1
        /\ End("refused")
        /\ UNCHANGED files

(* The display name may be changed too, but that is not written. *)
EditClient ==
  /\ at = "client"
  /\ \E b \in Prompt(bundle.bucket, Buckets) :
       /\ bundle' = [bundle EXCEPT !.bucket = b]
       /\ wanted' = [wanted EXCEPT !.bucket = b]
  /\ at' = "rules"
  /\ UNCHANGED <<files, cmd, removes, before, cursor, last, commands>>

(* The rule of the bucket is made before the question is asked: a bucket     *)
(* that was answered away ends the command.                                  *)
NeedsBucketOnReset(f, answer) == f = "rules" /\ answer = "select"
NeedsBucket(f, answer) == f = "rules"

AllOf(f) == IF f = "rules" THEN Append(Routes, BucketRule(bundle.bucket)) ELSE AllFilters
After(f) == IF f = "rules" THEN "filters" ELSE "apply"

(* "Edit, accept, or select?" *)
ChooseList(f) ==
  /\ at = f /\ cursor = 0
  /\ \E answer \in {"accept", "edit", "select"} :
       IF NeedsBucket(f, answer) /\ bundle.bucket = None
       THEN End("refused")
       ELSE /\ bundle' = IF answer = "select" THEN [bundle EXCEPT ![f] = AllOf(f)] ELSE bundle
            /\ IF answer = "accept" THEN at' = After(f) /\ UNCHANGED <<cursor, wanted>>
               ELSE cursor' = 1 /\ wanted' = [wanted EXCEPT ![f] = <<>>] /\ at' = at
            /\ UNCHANGED <<cmd, removes, before, last>>
  /\ UNCHANGED <<files, commands>>

Revised(f, item) ==
  IF f = "rules"
  THEN [path : Prompt(item.path, FreshPaths) \ {None}, action : Prompt(item.action, FreshActions)]
  ELSE [name : {item.name}, arg : Prompt(item.arg, FreshArgs)]

(* An item to be removed stays in the list until all have been asked about.  *)
DroppedAtOnce(list, i) == [list |-> RemoveAt(list, i), later |-> <<>>]
Dropped(list, i) == [list |-> list, later |-> <<list[i]>>]

EditItem(f) ==
  /\ at = f /\ cursor \in DOMAIN bundle[f]
  /\ \/ \E x \in Revised(f, bundle[f][cursor]) :
          /\ bundle' = [bundle EXCEPT ![f][cursor] = x]
          /\ wanted' = [wanted EXCEPT ![f] = Append(@, x)]
          /\ UNCHANGED removes
     \/ LET d == Dropped(bundle[f], cursor)
        IN /\ bundle' = [bundle EXCEPT ![f] = d.list]
           /\ removes' = removes \o [i \in DOMAIN d.later |-> <<f, d.later[i]>>]
           /\ UNCHANGED wanted
  /\ cursor' = cursor + 1
  /\ UNCHANGED <<files, cmd, before, at, last, commands>>

EndOfList(f) ==
  /\ at = f /\ cursor > Len(bundle[f])
  /\ at' = After(f) /\ cursor' = 0
  /\ UNCHANGED <<files, session, last, commands>>

(* The removals, one by one: list.remove takes out the first item equal to   *)
(* the one that was answered away.                                           *)
Apply ==
  /\ at = "apply"
  /\ \/ /\ removes # <<>>
        /\ LET r == Head(removes)
           IN bundle' = [bundle EXCEPT ![r[1]] = RemoveFirst(@, r[2])]
        /\ removes' = Tail(removes)
        /\ UNCHANGED <<at, cursor>>
     \/ /\ removes = <<>>
        /\ at' = "open" /\ cursor' = 1
        /\ UNCHANGED <<bundle, removes>>
  /\ UNCHANGED <<files, cmd, wanted, before, last, commands>>

-----------------------------------------------------------------------------
(* Writing: each file is opened, which empties it, and filled.  Only an edit *)
(* may overwrite.                                                            *)
AclFirst   == <<"csv", "json">>
WriteOrder == <<"json", "csv">>

NoClash(p) == FALSE
ConfigClash(p) == cmd.op = "add" /\ json[p] # Absent
AclClash(p)    == cmd.op = "add" /\ csv[p] # Absent

Open ==
  /\ at = "open"
  /\ LET p == cmd.path
         f == WriteOrder[cursor]
     IN \/ /\ IF f = "json" THEN ConfigClash(p) ELSE AclClash(p)
           /\ End("refused")
           /\ UNCHANGED files
        \/ /\ ~ IF f = "json" THEN ConfigClash(p) ELSE AclClash(p)
           /\ IF f = "json" THEN json' = [json EXCEPT ![p] = Cut] /\ UNCHANGED csv
                            ELSE csv' = [csv EXCEPT ![p] = <<>>] /\ UNCHANGED json
           /\ at' = "fill"
           /\ UNCHANGED <<session, cursor, last>>
  /\ UNCHANGED commands

Fill ==
  /\ at = "fill"
  /\ IF WriteOrder[cursor] = "json"
     THEN /\ json' = [json EXCEPT ![cmd.path] =
                        [bucket |-> bundle.bucket, filters |-> bundle.filters]]
          /\ UNCHANGED csv
     ELSE /\ csv' = [csv EXCEPT ![cmd.path] = CsvLines(bundle.rules)]
          /\ UNCHANGED json
  /\ IF cursor < Len(WriteOrder)
     THEN cursor' = cursor + 1 /\ at' = "open" /\ UNCHANGED <<session, last>>
     ELSE End("done")
  /\ UNCHANGED commands

(* The command is interrupted, at a question or while it writes. *)
Interrupt ==
  /\ at # "idle"
  /\ End("interrupted")
  /\ UNCHANGED <<files, commands>>

(* The documented way to remove a client. *)
RemoveClient(p) ==
  /\ at = "idle" /\ commands < MaxCommands
  /\ json[p] # Absent
  /\ json' = [json EXCEPT ![p] = Absent]
  /\ commands' = commands + 1
  /\ UNCHANGED <<csv, session, at, cursor, last>>

AllSaid == at = "idle" /\ commands = MaxCommands /\ UNCHANGED toolVars

(* What adding a client leaves when every question is answered "accept". *)
ToolInit ==
  /\ \E deployed \in Deployments, b \in Buckets :
       LET new == GetOrCreate(Absent, Absent, b)
       IN /\ json = [p \in Paths |-> IF p \in deployed
                                    THEN [bucket |-> b, filters |-> new.filters] ELSE Absent]
          /\ csv = [p \in Paths |-> IF p \in deployed THEN new.rules ELSE Absent]
  /\ cmd = NoCmd /\ at = "idle" /\ cursor = 0
  /\ bundle = Nothing /\ removes = <<>> /\ wanted = Nothing /\ before = <<>>
  /\ last = "none" /\ commands = 0

ToolNext ==
  \/ \E p \in Paths : RemoveClient(p) \/ \E b \in Buckets : Add(p, b)
  \/ \E given \in Fragments : Edit(given)
  \/ EditClient
  \/ \E f \in {"rules", "filters"} : ChooseList(f) \/ EditItem(f) \/ EndOfList(f)
  \/ Apply \/ Open \/ Fill \/ Interrupt \/ AllSaid

ToolSpec == ToolInit /\ [][ToolNext]_toolVars

-----------------------------------------------------------------------------
(* Properties *)

Times(s, x) == Cardinality({i \in DOMAIN s : s[i] = x})
SameItems(s, t) == \A x \in ToSet(s) \cup ToSet(t) : Times(s, x) = Times(t, x)

(* Types; a value that is None never reaches a csv, and between commands     *)
(* nothing is left to be removed (configbuilder.py:353-355,384).             *)
CsvLine  == [path : RulePaths, action : RuleActions]
Bundle == [bucket : Buckets \cup {None}, rules : Seq(Rule), filters : Seq(Filter)]
Removal == ({"rules"} \X Rule) \cup ({"filters"} \X Filter)

ToolTypeOK ==
  /\ json \in [Paths -> Config \cup {Absent, Cut}]
  /\ csv \in [Paths -> Seq(CsvLine) \cup {Absent}]
  /\ at \in {"idle", "client", "rules", "filters", "apply", "open", "fill"}
  /\ cmd \in {NoCmd} \cup [op : {"add", "edit"}, path : Paths, given : Clients \cup Fragments]
  /\ at = "idle" <=> cmd = NoCmd
  /\ bundle \in Bundle /\ wanted \in Bundle
  /\ removes \in Seq(Removal) /\ (at = "idle" => removes = <<>>)
  /\ cursor \in Nat /\ commands \in 0 .. MaxCommands
  /\ last \in {"none", "done", "refused", "interrupted"}

(* When a command is done the files hold the bucket, the rules and the       *)
(* filters the operator accepted, one by one: nothing that was answered away *)
(* is kept and nothing that was kept is lost (configbuilder.py:333,384).     *)
WrittenAsAccepted ==
  [][last' = "done" /\ at = "fill" =>
       LET p == cmd.path
       IN /\ json'[p].bucket = wanted.bucket
          /\ SameItems(json'[p].filters, wanted.filters)
          /\ SameItems(csv'[p], CsvLines(wanted.rules))]_toolVars

(* The two files that a finished command has written validate when they are  *)
(* loaded, unless every rule was removed (configbuilder.py:124): however     *)
(* long the session, its bucket was not answered away                        *)
(* (configbuilder.py:331,339).  That a later edit finds them is not said:    *)
(* another client's id may begin with this one's (configbuilder.py:173-176). *)
StaysLoadable ==
  [][last' = "done" /\ at = "fill" =>
       Loadable(json'[cmd.path], csv'[cmd.path]) \/ wanted.rules = <<>>]_toolVars

(* A command that is refused has changed no file that was there when it      *)
(* began, however far it came (configbuilder.py:284,293).                    *)
RefusedLeavesFiles ==
  [][last' = "refused" /\ at # "idle" =>
       \A p \in Paths :
         /\ before[1][p] # Absent => json'[p] = before[1][p]
         /\ before[2][p] # Absent => csv'[p] = before[2][p]]_toolVars

(* No command gives rules to a client before its configuration is complete,  *)
(* wherever the command dies (configbuilder.py:230-233).                     *)
RulesFollowConfig ==
  [][\A p \in Paths : csv'[p] # csv[p] /\ csv'[p] # <<>>
       => json[p] \notin {Absent, Cut}]_toolVars

(* A command changes the files of one client; never those of a client whose  *)
(* id only begins with what was given when a client with that very id is     *)
(* there (configbuilder.py:173-175).                                         *)
OnlyTheNamedClient ==
  [][at # "idle" => \A p \in Paths :
       json'[p] # json[p] \/ csv'[p] # csv[p] =>
         /\ p = cmd.path
         /\ p[2] = cmd.given \/ \A h \in Homes : cmd.given \in Clients
                                   => before[1][<<h, cmd.given>>] = Absent]_toolVars

=============================================================================
