------------------------- MODULE ClientConfigCache -------------------------
(***************************************************************************)
(* How a request gets its ClientConfig and the S3Service that acts for it. *)
(*                                                                         *)
(* client_config_middleware looks the caller up in ClientConfigService, a  *)
(* per-process cache whose entries live CONFIG_TTL seconds and are filled  *)
(* from the files {username}.json under CONFIG_DIR and, second, from the   *)
(* environment.  Later, after the file checks, the handler calls           *)
(* s3_service, which keeps one S3Service per azure_client_id, made from    *)
(* the first ClientConfig that asked for it.  Meanwhile operators replace  *)
(* config files and replicas restart.                                      *)
(***************************************************************************)
EXTENDS Integers, Sequences

CONSTANTS
  Requests,    \* request slots, each used once
  Replicas,    \* processes of the service, each with its own caches
  Users,       \* client ids: authenticated callers (and Anonymous, where given)
  Buckets,
  Anonymous,   \* the name of a caller without a token
  Sources,     \* CONFIG_SOURCES
  EnvUser,     \* LOCAL_CONFIG_AZURE_CLIENT_ID
  EnvConfig,   \* the config the environment gives EnvUser, or None
  Deployable,  \* per user, the file sets operators may install
  Ttl,         \* CONFIG_TTL
  MaxTime,     \* bound on the clock
  None,        \* no config, no entry, no S3Service, no caller yet
  Broken       \* a config file that cannot be read or does not validate

(* What a ClientConfig says, as far as it matters here: azure_client_id and  *)
(* bucket_name.                                                              *)
Config == [id : Users, bucket : Buckets]

Entry  == [config : Config \cup {None}, expires : Nat]

ASSUME SourcesAssumption == Sources \subseteq {"file", "env"}
ASSUME NoneAssumption    == /\ None \notin Config \cup Entry \cup Buckets \cup Users
                            /\ Broken \notin Config \cup {None}
ASSUME EnvAssumption     == /\ EnvConfig \in Config \cup {None}
                            /\ EnvConfig # None => EnvConfig.id = EnvUser
ASSUME TimeAssumption    == Ttl \in Nat /\ MaxTime \in Nat
(* A file named after one user may hold any client id: the builder writes    *)
(* the user's own, files are also edited by hand, and no load compares them. *)
ASSUME DeployAssumption  == Deployable \in [Users -> SUBSET Seq(Config \cup {Broken})]

VARIABLES
  files,     \* per user, the files of that name found under CONFIG_DIR
  now,       \* clock
  cache,     \* per replica, ClientConfigService._configs and _config_ttls
  instance,  \* per replica, bucket of the S3Service kept for each client id
  pc, on, user,  \* each request's progress, replica and caller
  got,       \* client_config of the handler
  acted,     \* bucket the request's S3 calls went to
  seen       \* history: when a load last would have given each config, or -1

vars == <<files, now, cache, instance, pc, on, user, got, acted, seen>>

-----------------------------------------------------------------------------
(* Loading *)

(* Exactly one readable file counts; none, several or a broken one do not. *)
LoadFromFileUnchecked(u) == IF Len(files[u]) = 1 THEN files[u][1] ELSE None
LoadFromFile(u) ==
  IF Len(files[u]) = 1 /\ files[u][1] # Broken THEN files[u][1] ELSE None

(* The environment is trusted only beside another source. *)
LoadFromEnv(u) == IF u = EnvUser THEN EnvConfig ELSE None

Load(u) ==
  IF u = Anonymous THEN None
  ELSE IF "file" \in Sources /\ LoadFromFile(u) # None THEN LoadFromFile(u)
  ELSE IF Sources = {"file", "env"} THEN LoadFromEnv(u) ELSE None

(* get_instance drops an entry once its time is over, and makes a new one    *)
(* whose time starts now.  The entry holds no config until one is loaded.    *)
Live(e) == e # None /\ now <= e.expires

ExpiryOnUse(e) == now + Ttl
Expiry(e) == IF Live(e) THEN e.expires ELSE now + Ttl

(* The config property: what the entry holds, else a load.  A load that      *)
(* finds nothing is tried again next time.                                   *)
ConfigRemembersNone(e, u) == IF Live(e) THEN e.config ELSE Load(u)
ConfigOf(e, u) == IF Live(e) /\ e.config # None THEN e.config ELSE Load(u)

GetConfig(r) ==
  /\ pc[r] = "idle"
  /\ \E rep \in Replicas, u \in Users :
       LET e == cache[rep][u]
           c == ConfigOf(e, u)
       IN  /\ cache' = [cache EXCEPT ![rep][u] = [config |-> c, expires |-> Expiry(e)]]
           /\ on' = [on EXCEPT ![r] = rep]
           /\ user' = [user EXCEPT ![r] = u]
           /\ got' = [got EXCEPT ![r] = c]
           /\ pc' = [pc EXCEPT ![r] = IF c = None THEN "refused" ELSE "configured"]
  /\ UNCHANGED <<files, now, instance, acted, seen>>

-----------------------------------------------------------------------------
(* Using the store *)

(* S3Service.get_instance: kept per azure_client_id, and never dropped. *)
KeptPerProcess(rep, c) ==
  LET made == {x \in Users : instance[rep][x] # None}
  IN  IF made = {} THEN c.bucket ELSE instance[rep][CHOOSE x \in made : TRUE]
BucketFor(rep, c) ==
  IF instance[rep][c.id] = None THEN c.bucket ELSE instance[rep][c.id]

UseStore(r) ==
  /\ pc[r] = "configured"
  /\ LET b == BucketFor(on[r], got[r])
     IN  /\ instance' = [instance EXCEPT ![on[r]][got[r].id] = b]
         /\ acted' = [acted EXCEPT ![r] = b]
  /\ pc' = [pc EXCEPT ![r] = "done"]
  /\ UNCHANGED <<files, now, cache, on, user, got, seen>>

-----------------------------------------------------------------------------
(* Around the handlers *)

Noted == [u \in Users |-> [seen[u] EXCEPT ![Load(u)'] = now']]

Deploy(u) ==
  /\ \E fs \in Deployable[u] \ {files[u]} : files' = [files EXCEPT ![u] = fs]
  /\ UNCHANGED <<now, cache, instance, pc, on, user, got, acted>>
  /\ seen' = Noted

Tick ==
  /\ now < MaxTime
  /\ now' = now + 1
  /\ UNCHANGED <<files, cache, instance, pc, on, user, got, acted>>
  /\ seen' = Noted

(* A restarted replica has empty caches and has lost its requests. *)
Restart(rep) ==
  /\ cache' = [cache EXCEPT ![rep] = [u \in Users |-> None]]
  /\ instance' = [instance EXCEPT ![rep] = [u \in Users |-> None]]
  /\ pc' = [r \in Requests |-> IF pc[r] = "configured" /\ on[r] = rep THEN "lost" ELSE pc[r]]
  /\ UNCHANGED <<files, now, on, user, got, acted, seen>>

Init ==
  /\ files \in {f \in [Users -> UNION {Deployable[u] : u \in Users}] :
                  \A u \in Users : f[u] \in Deployable[u]}
  /\ now = 0
  /\ cache = [rep \in Replicas |-> [u \in Users |-> None]]
  /\ instance = [rep \in Replicas |-> [u \in Users |-> None]]
  /\ pc = [r \in Requests |-> "idle"]
  /\ on = [r \in Requests |-> None]
  /\ user = [r \in Requests |-> None]
  /\ got = [r \in Requests |-> None]
  /\ acted = [r \in Requests |-> None]
  /\ seen = [u \in Users |-> [c \in Config \cup {None} |-> IF c = Load(u) THEN 0 ELSE -1]]

(* Every request has been dealt with: the service idles. *)
Quiesce == (\A r \in Requests : pc[r] \in {"done", "refused", "lost"}) /\ UNCHANGED vars

Next ==
  \/ \E r \in Requests : GetConfig(r) \/ UseStore(r)
  \/ \E u \in Users : Deploy(u)
  \/ \E rep \in Replicas : Restart(rep)
  \/ Tick
  \/ Quiesce

Spec == Init /\ [][Next]_vars

-----------------------------------------------------------------------------
(* Properties *)

(* Types. *)
TypeOK ==
  /\ files \in [Users -> Seq(Config \cup {Broken})]
  /\ now \in 0 .. MaxTime
  /\ cache \in [Replicas -> [Users -> Entry \cup {None}]]
  /\ instance \in [Replicas -> [Users -> Buckets \cup {None}]]
  /\ pc \in [Requests -> {"idle", "configured", "done", "refused", "lost"}]
  /\ on \in [Requests -> Replicas \cup {None}]
  /\ user \in [Requests -> Users \cup {None}]
  /\ got \in [Requests -> Config \cup {None}]
  /\ acted \in [Requests -> Buckets \cup {None}]
  /\ seen \in [Users -> [Config \cup {None} -> -1 .. MaxTime]]

(* Request r is being given its config, or refused, by this step. *)
Answers(r) == pc[r] = "idle" /\ pc'[r] # "idle"

(* A handler's config is at most Ttl old: some time in the last Ttl seconds  *)
(* a fresh load gave exactly it, however often the entry was used since and  *)
(* whatever was deployed (client_config_service.py:34-46).                   *)
ConfigIsRecent ==
  [][\A r \in Requests : Answers(r) =>
       LET at == seen[user'[r]][got'[r]] IN at >= 0 /\ at + Ttl >= now]_vars

(* A refusal is never stale: a caller is turned away only if a load would    *)
(* find no config for it now (client_config_service.py:62-63,171-173).       *)
RefusalIsCurrent ==
  [][\A r \in Requests : Answers(r) /\ pc'[r] = "refused" => Load(user'[r]) = None]_vars

(* A request only ever works in a bucket that some config gave to the client *)
(* id in the request's own config: clients that share a replica do not share *)
(* an S3Service unless their configs hold the same id (s3_service.py:27-38). *)
Given(i, b) == \E u \in Users : seen[u][[id |-> i, bucket |-> b]] >= 0

BucketWasGiven ==
  \A r \in Requests : acted[r] # None => Given(got[r].id, acted[r])

(* No config that was ever there held this client id but its own user's.     *)
IdIsPrivate(i) ==
  \A u \in Users : \A c \in Config : seen[u][c] >= 0 => (c.id = i <=> u = i)

(* So a caller whose client id is in no other file, and whose own files hold  *)
(* no other id, works in buckets its own config gave it.                     *)
OwnBucketOnly ==
  \A r \in Requests : acted[r] # None /\ IdIsPrivate(user[r]) =>
    seen[user[r]][[id |-> user[r], bucket |-> acted[r]]] >= 0

-----------------------------------------------------------------------------
(* What the documentation and the answers say, and the code does not keep.   *)

(* file_upload_handler.py:79 answers "File saved successfully in             *)
(* {client_config.bucket_name}".                                             *)
SavedWhereItSays ==
  \A r \in Requests : pc[r] = "done" => acted[r] = got[r].bucket

=============================================================================
