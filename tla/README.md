# Verification of the Secure Document Storage API

TLA+ models of the Secure Document Storage API (SDS), a FastAPI service that
stores files of client services in S3, scans them on the way in, and keeps an
audit record of every operation in DynamoDB. TLC checks the models on small
instances (`MC*.tla`, `*.cfg`), TLAPS proves the safety properties that hold for
every value of the constants (`*Proofs.tla`, `DocumentStoreSafety.tla`).
`PROJECT.json` maps every definition to its source
lines and lists the runs, the mutants, the hazards and the findings. Paths below
are relative to the repository.

## 1. Inventory

| Component | State it keeps | Operations | Interacts with |
|---|---|---|---|
| Authentication, `src/middleware/auth.py` | two `TTLCache`s of the identity provider's replies, per process | `authenticate`, status check | provider (HTTP, blocking) |
| Authorisation, `src/services/authz_service.py`, `src/utils/multifileadapter.py` | casbin policy, reloaded by a thread; number of files read at start-up | `enforce_or_error`, reload | policy files |
| Client configuration, `src/services/client_config_service.py` | per process: configuration and expiry by user | `get_instance`, `config`, `load` | JSON files, environment |
| S3 service, `src/services/s3_service.py` | one instance, with its configuration, per client and process | existence check, put, list versions, delete version, presigned URL | S3 |
| Validation, `src/validation/`, `checksum_service.py`, `clam_av_service.py` | the position of one upload's stream, `errors_found` | header check, mandatory validators, configured validators, checksum | clamd |
| Upload, `src/handlers/file_upload_handler.py` with `save_file`, `save_or_update_file`, `bulk_upload` | locals `error_status`, `file_existed` | check, existence check, put, audit, answer | all of the above |
| Deletion, `delete_files` | `outcomes` by key, `error_status` | list, delete each version, audit | S3, audit |
| Reading, `retrieve_file`, `file_details` | - | URL or listing, audit | S3, audit |
| Stand-alone checks, `virus_check_file`, `scan_for_suspicious_content` | - | one check of one file, nothing stored | clamd |
| Audit, `src/services/audit_service.py` | the audit table | `add_record`: one put, keyed by request id and file position | DynamoDB |
| Status and health, `status_service.py` | - | aggregate the reporters | all services |
| Configuration builder, `configbuilder.py` | a configuration (json) and permissions (csv) per client and home; the bundle being edited | `add`, `edit`, list, find, get | files the service reads |
| `retention_policy_parser.py` | - | parse a policy string | - |

What is hard here:

* **No transactions.** A handler makes several calls to S3 and one to DynamoDB.
  Several replicas (`deployments/kubernetes/deployment.yml`) interleave at those
  calls; any of them may fail, may take effect and lose its reply, or be the
  last before the pod is killed. Nothing resumes a handler.
* **Check then act.** `file_exists` and `put_object` are two calls, so are the
  version listing and the deletes.
* **One thread per replica.** Every endpoint is `async` and calls S3, DynamoDB,
  clamd and the identity provider with blocking clients, so within one process
  check and act are not interleaved, and a call that hangs (clamd and the
  provider have no timeout) stops all of it. A handler leaves the loop's thread
  only while its form is awaited from the client, who may take any time, and
  while a thread of the pool reads or rewinds a large file.
* **Files that change while they are read.** Policies are read again every few
  seconds, file after file, while operators rewrite them; `configbuilder.py`
  writes a client's two files one after the other and may stop anywhere.
* **Errors that are data.** `error_status` is set, tested and overwritten along
  the handler; the status, the audit record and what is stored must agree at
  the end of every path.
* **Shared stream.** All checks, the checksum and the put read one stream whose
  position survives each of them.
* **Caches.** Four of them, with a time to live or with none: configurations,
  S3 instances, OIDC configuration, signing keys.

What makes each component correct: the status sent, the audit record and the
bucket agree (upload, deletion, reading); 201, 204 and 404 are true of what was
there when the request came; audit records are not lost; what S3 holds is what
clamd approved, in full; a configuration or a key is never used long after it
was withdrawn, nor refused long after it was published; a permission lapses and
takes effect within the reload interval; the files of a client are those its
operator accepted.

## 2. Modules

| Module | Models | Instances |
|---|---|---|
| `DocumentStore` | upload, deletion and reading handlers of all replicas over one bucket and one audit table | `MCDocumentStore` |
| `DocumentStoreInvariants` | the inductive invariant of `DocumentStore` | |
| `DocumentStoreProofs` | types and that invariant, proved | |
| `AuditedOperation` | the abstract promise: each item is stored at most once, then recorded and answered | |
| `DocumentStoreRefinement` | the mapping by which `DocumentStore` keeps it | `MCDocumentStore` |
| `DocumentStoreSafety` | proofs of the safety of `DocumentStore` and of that refinement | |
| `EventLoop` | the handlers of `DocumentStore` on replicas with one thread each | `MCEventLoop` |
| `EventLoopProofs` | its proofs | |
| `ValidationPipeline` | the checks of the files of one request, their stream, the put | `MCValidationPipeline` |
| `ValidationPipelineProofs` | its proofs | |
| `ClientConfigCache` | configuration and S3 instance caches of the replicas, deployments | `MCClientConfigCache` |
| `ClientConfigCacheProofs` | its proofs | |
| `Authorisation` | policy files, their reloading, the two questions of a deletion | `MCAuthorisation` |
| `AuthorisationProofs` | its proofs | |
| `TokenAuth` | token validation over cached provider replies | `MCTokenAuth` |
| `TokenAuthProofs` | its proofs | |
| `ConfigBuilder` | the commands of the configuration builder over the clients' files | `MCConfigBuilder` |
| `ConfigBuilderProofs` | its proofs | |

### DocumentStore

One process per request; `pc[r]` is the next call its handler makes. An action
is one call to S3 or DynamoDB with everything the code does up to the next one,
including the early returns, so the interleavings of the model are those of
replicas. Within one process there are fewer of them: that is `EventLoop`.

* `store`: `bucket` holds the versions that exist, `nextVid` gives ids in order,
  `written` remembers every version that ever was. `audit` is the table by
  `<<request id, position>>`.
* `Arrive` picks endpoint, keys and request id. A client may resend an id
  (`ReuseIds`), as `CorrelationIdMiddleware` takes the client's.
* Upload: `CollectionChecks`, `Checks`, `CheckExists`, `Save`, `AuditUpload`.
* Deletion: `Authorise`, `ListVersions`, `DeleteVersion` for each version,
  `AuditDelete`.
* Reading: `MakeUrl`, `AuditRead`; `ShowDetails`, `AuditDetails`.
* `Crash` ends a handler between any two calls. `Faults` selects the failures
  the environment may cause; they are described where they are declared.
* A listing is by prefix and one reply long (`Matching`, `Listing`), because
  that is what the code asks for. Keys are model values; `Longer` says which key
  is a prefix of which.

What a check answers is a choice here: `Checks` passes, fails with 400 (which
stands for all the 4xx codes), with 500, or raises. Which of these it is, is the
subject of `ValidationPipeline`.

### AuditedOperation and DocumentStoreRefinement

The abstract specification knows no handlers, calls or faults, only the items of
each request: what is to be done (`asked`), how often it was stored, its record,
its status. `Store` happens at most once and before `End`; `End` lets record and
status appear together, in combinations that agree with what was stored
(`SaveEnds`, `DeleteEnds`, `ReadEnds`); items take turns. `DocumentStore` is
mapped onto it by what the outside can see: `stored` counts the versions *ever*
put under the request and position, deleted or not, `recorded` is the row of the
audit table. `SaveEnds` shows what a client cannot conclude: a record `FAILED` or
none, and a 500, are compatible with a stored file; 201 and 200 are not
compatible with anything else than one stored file and its record.

### EventLoop

`EventLoop` composes the handlers with the replicas that run them. `queue[s]` are
the handlers of replica `s` that can go on; only the first takes steps and it
stays first until it is done, awaits its form or hands its file to the thread
pool. `Admit` is `Arrive` with the middlewares, up to the form; `Receive` is the
client sending the rest of the form, or hanging up, which need never happen;
`RefuseBody` is the end of a form that does not fit. `ReadFile`, `Scan`
and `Judge` split `Checks` at the points where `UploadFile` leaves the thread
(`mandatory_file_validator.py:43,46`), `Call` is any other step of the handler,
unchanged. `Resume` is a pool thread that has finished; it puts the handler at the
end of the queue, as `Receive` does. `Hang` is a call without a timeout that never
returns; `Kill` ends all handlers of a replica.
Small files never leave the thread, large ones do, which is a choice of each
request.

### ValidationPipeline

One request to one of the four endpoints that check files (single or bulk
upload, `virus_check_file`, `scan_for_suspicious_content`) walks through
`CollectionStep`, then for each file `CheckHeaders`, `RunMandatory` and `ScanForVirus`, `ConfiguredStep`,
`GetFileChecksum`, `SaveFile`. The two stand-alone checks take part of that walk
(`FirstStep`, `Selected`, `ValidatorsFor`) and answer where an upload would go on
(`AnswerClean`, `ScanOnly`); the scan has its own validators and ignores the
client's. `place` is the stream's position. A file's bytes
are lines, a line is named after the check that objects to it, and each of the
ten validators is an operator from a file and its arguments to a status, or to
`Raised`. An unknown validator name is raised outside the `try`, as in the code.
The text scan has the configured mistakes its code tells apart: scan types that
do not exist, which it answers 400 to the client before it reads anything, and a
delimiter `csv.reader` does not take, which it answers 500 without raising.
`BrokeDown` says which checks could not do their work and said so, by raising or
by that 500; `BreakdownIs500` compares it with the status sent.
S3 refuses a put whose body does not have the checksum sent along.

### ClientConfigCache

`files` are the deployed files per user, `cache` and `instance` the two caches
of each replica. `GetConfig` is `get_config_for_client_or_error`, `UseStore` the
first use of `S3Service.get_instance`; between them `Deploy`, `Tick` and
`Restart` can happen. A file is found by its user's name and may hold any client
id, as nothing compares the two; `S3Service` is kept under the id in the file.
`seen[u][c]` is the last time at which `c` was what a load
for `u` would have returned, a history variable for the properties.

### TokenAuth

One process, as replicas share nothing here. `Authenticate`, `FetchOidcConfig`
and `ValidateToken` are the three stretches of `authenticate` between its
calls to the provider; a reply is good, is JSON without the expected fields
(kept like a good one) or raises (not kept). `Rotate` changes the published keys.
A reply is taken to tell what is published when it arrives.

### Authorisation

`disk` is the content of each policy file, a sequence of lines, one of which may
be undecodable. A reading (`Begin`, `ReadFile` per file, `Install`) takes no time
of its own, so that the interval is the only delay, but anything else may happen
between its steps. It lists the files first, reads each as it is when its turn
comes, keeps the lines before a bad one and goes on with the next file. The new
rules take effect at `Install`; the service asks casbin for a `SyncedEnforcer`, whose reload excludes
enforcement. Operators `Remove` a file or rewrite it (`Open` empties it, `Close`
fills it) at any moment. A deletion asks twice (`EnforceRoute`,
`EnforceOrError`) and a reload may fall in between. `gone` and `kept` are history
variables: how long ago a rule was last in some file, how long one file has kept
it.

### ConfigBuilder

One command after the other over `json` and `csv`, the two files of each client
in each home. A command loads both files into `bundle`, or makes what is missing
(`GetOrCreate`), asks about bucket, rules and filters one by one (`EditClient`,
`ChooseList`, `EditItem`), collects removals and carries them out at the end, one
by one (`Apply`, a step for each turn of its loop), and writes json, then csv,
each by opening, which empties the file, and filling it. `Interrupt` may happen
at any of these. `RemoveClient` is the documented way to remove a client:
deleting its json. `wanted` and `before` are histories of what the operator
accepted and of the files at the beginning.

## 3. Runs

Runs that pass:

| Run | Question | Instance |
|---|---|---|
| `uploads` | do status, store and audit agree at the end of every item, and do all handlers keep the abstract promise? | two requests of any of the six kinds, up to two files or keys each, two keys of which one begins the other, one seeded version, every fault but crashes; no resent ids |
| `removals` | are 201, 204 and the 404 of a listing true, does only what was named disappear, is no save invented? do the invariants of the proofs hold? | three requests of one key each (put, delete, get, details), the same keys, three seeded versions, listings of two, crashes and every fault but refusing validators |
| `event_loop` | is every request answered unless its client stalls or its replica hangs or dies? is a replica's check-then-act atomic? | two requests (post, bulk, delete), two replicas, lists of two, large and small files, refusals, S3 failures, stalling clients, hangs, kills |
| `configs` | how old is the configuration in use, is a refusal current, who gave the bucket in use? | two replicas, three requests of two users, file and environment, files with another's id, a TTL of one tick, two ticks |
| `checks` | what is accepted, stored, reported, and what does 500 stand for? | eight files, eleven validator lists, six collection lists, up to two files, four endpoints |
| `token_caches` | when do keys lapse, when do they take effect? | two keys, a TTL of two ticks, four ticks |
| `authorisation` | how old is the permission a deletion goes ahead under, and does a permission that stays take effect? | one replica, two files that are rewritten, broken or removed, an interval of two ticks |
| `config_builder` | are the files what the operator accepted, whatever is interrupted or refused? | two commands or removals, two clients, two homes |

Every property has a mutant: an operator beside the one it replaces in the
module, wrong the way the code could be, with which the run fails.

Bounds, and why they are enough. *Requests*: each property relates one request
to the others' effects on one key; two requests give each check-then-act race,
a third lets a version come and go, or a cached entry be used, in between. *Items*: two in `uploads` and
`event_loop`, so that a later item can undo or overwrite an earlier one; one in
`removals`, which has three requests instead. *Keys*: two, one a prefix of the
other, the only relation between keys the code can see (one in `event_loop`).
*Listings*: two versions to a reply, and with the three that are seeded and those
that are put a key and its prefix have more. *Faults*: between them `uploads` and
`removals` have all of them. Resent request ids are in no run, because with them
the states of `removals` are more than TLC gets through; what they could break,
`SettledIsAudited` and `AuditNeverInventsSaves`, is proved with them. *Time*: the
clock must pass an expiry and the expiry of the entry that replaced it. *Files*:
one per way to fail, in all ordered pairs. *Replicas*: two in `EventLoop`, so that one can
hang beside the other, and two requests, so that they can share a replica or
not; one in `Authorisation`, as replicas share only the files. *Policy files*:
two, one read before or after the other is changed, and `gone`, `kept` are
capped just above the interval, the only value they are compared with.
*Commands*: two (`MaxCommands`), as each command only sees what its predecessor
or a removal left behind; two clients, one's id a prefix of the other's; at most
one client is there at first; homes and buckets are symmetric. Each list has one or two
items, so that removing can hit the wrong one. The theorems below have no
bounds.

Fairness is assumed in `LoopSpec` only. A replica whose thread is not held by a
hanging call goes on with the handler whose turn it is (weak fairness of the
steps of each replica: an asyncio loop runs what is ready, and S3 and DynamoDB
calls return or raise, boto3 having timeouts), and the thread pool finishes what
it was given (weak fairness of `Resume`). Nothing is assumed of clients: a form is
awaited without a timeout, so `Receive` has no fairness and a client may stall for
ever. Nothing is assumed of hangs, which may happen at every call without a
timeout (`clam_av_service.py:26`, `auth.py:88,93`), or of kills. What remains true
is `AnsweredUnlessHung`: a request comes to its end (an answer, or the end of its
replica) unless its own replica hangs or its own client stalls for ever
(`Stalls`). So neither another replica's hanging call nor another client's half
sent form stops it. It says nothing of what a killed handler leaves behind.

Runs that end in a violation show where code and documentation part; the
findings in `PROJECT.json` quote both sides.

| Run | Promise that is not kept |
|---|---|
| `post_race` | POST ensures "no existing files are overwritten": two POSTs both see none |
| `config_wrong_bucket` | the bucket named in the answer: the old one is in use |
| `two_scans` | "only saved if all validators pass": a second text scan reads nothing |
| `delete_page` | "204 if all versions of file found and deleted": only the versions of one reply of S3 are |

Three more findings are on properties of runs that pass, which say what the code
does where the documentation says something else: the 404 of `get_file` for a file
that is there (`NotListedIsTrue` speaks of listings only), the 204 without a record
(`DeleteEnds`, in `KeepsPromise`), and the lookup that found nothing and is not
remembered (`RefusalIsCurrent`).

## 4. Theorems

Every safety property of the runs that pass is a theorem, for every value of the
constants: any number of requests, replicas, keys, files, rules, clients, any
time to live, lists of any length. Each `Spec => []P` is proved through an
inductive invariant, in lemmas of one action each; where the invariant says more
than the property it is because the property alone is not kept by a step. The
assumptions are the `ASSUME`s of the modules, which TLC evaluates in the runs:
types of the constants, distinct sentinels, finite sets of files and clients,
times that are natural numbers. Seven theorems need a hypothesis more; it is
named below with the behaviour that makes it necessary.

**DocumentStore.** `HandlerInvariance` (`DocumentStoreProofs`) proves `TypeInv`
(`TypeCorrectness` is its first part) and `HandlerInv`, whose parts say what is
true *between* the calls of a handler:
- `ErrOK`: an error status is never a success code, which is why a failed
  audit write cannot turn into a success, and each audit step meets only the
  errors of its own endpoint;
- `VidsOK`: version ids are ordered and no request began in the future;
- `WritersOK`: every version has a writer that was asked for it and has not
  been told of a refusal;
- `OnceOK`: no item is put twice;
- `SaveOK`: an upload that reaches the audit step without an error has stored
  its file, which is needed because the status is chosen two calls later;
- `FreshOK`: while an upload that found no file is under way, the key holds
  only younger versions;
- `UnauditedOK`: the records of the items to come are still free.

`DocumentStoreSafety` draws the consequences. The properties speak of items that
are settled, so there are two lemmas everything else rests on: `OutcomeGrows`,
what a step does to items settled earlier, and `StatusSource`, at which step an
item can get which status. From the invariant alone follow `CreatedIsNewAlways`,
`SavedMeansStoredAlways`, `RefusedMeansUnstoredAlways`, `SettledIsAuditedAlways`,
`AuditNeverInventsSavesAlways` (these two with resent ids) and
`NothingVanishesAlways`. Also for every page size:
- `LeftOversAreOlderAlways`: what a 204 leaves of the versions older than the
  request is older than a whole reply of versions that are gone. Its invariant is
  `RemovalOKAlways`: as long as nothing failed, an old version of the key is on the
  list, or a whole reply of newer ones is gone or on it.
- `NotListedIsTrueAlways`: a deletion or a request for details that answers 404
  found nothing because nothing older than it was there. Its invariant is
  `MissingOK`: while a handler is about to report that, no old version is there.

With a hypothesis:
- `AuditGrows`, `HandlersKeepPromise`: `ReuseIds = FALSE`. A client that sends an
  id again overwrites its records.
- `DeletedMeansGoneAlways`: `[]OnePage`, every listing fits in one reply. The run
  `delete_page` shows that this is needed: `delete_files` never asks for the second
  page. Its invariant is `RemovalComplete`, `RemovalOK` without the reply of newer
  ones.

`HandlersKeepPromise` is the refinement, `Spec => Promise!Spec`. `Init` is mapped
to `Init`, and each step of a handler to the `Ask` of a request, to `Store` or
`End` of its current item, or to nothing. That a put is a `Store`, which may happen
once, is `OnceOK`; that an item is `Store`d before it ends and ends with a
combination that `SaveEnds` allows is `SaveOK`, `WritersOK` and `ErrOK`; that the
record appears with the status, and once, is `UnauditedOK`.

**EventLoop.** Every step is a step of `DocumentStore`, or ends handlers where
they are (`Ends`: a refused body, a killed replica), so `HandlerInv` holds here
too. `LoopInv` adds `QueueOK`, the queues hold exactly the handlers that can go
on, each once and at its own replica, and `HeadOK`, a handler between its check
and its act (`Section`) is first in its queue. The first gives `LoopOKAlways`. The
second says that such handlers are alone on their replica (`SectionIsAlone`), so
what an existence check or a listing has seen of the replica's own versions
(`Mates`) is still so when the handler acts on it. That is `SerialOK`, which gives
`PostsOfAReplicaAreSerialAlways`, and `DeleteAlone`, which gives
`DeletesOfAReplicaAreSerialAlways`, under `[]OnePage` again.

**ValidationPipeline.** `PipelineInv` says of each step where the stream stands
and which mandatory validators have been passed (`StageOK`, `PassedUpTo`), and that
nothing is known yet of files still to come (`Ahead`). It gives `PipelineTypes` and,
for every configuration, `ScannedFirstAlways`. `VerdictInv` is about the loops: the
errors found so far are those of the validators run so far, listed in their order
(`LoopsOK`). It gives `AcceptedPassesAllAlways`, `BreakdownIs500Always` and
`FailuresAllReportedAlways`, all under `OneScan`: no list of a client has two text
scans. The run `two_scans` shows that this is needed.

**ClientConfigCache.** `ConfigIsRecentAlways`: a configuration in use was the
one to load at some time within the TTL. The invariant says of every cache
entry that its configuration was current when or after the entry's expiry was
set, and of every S3 instance that some configuration with its client id once gave
it its bucket. The second part is `BucketWasGivenAlways`, and nothing is assumed of
the files. Whose configuration that was cannot be said of every file, because a
file may hold another client's id; `OwnBucketAlways` is what is left: a caller
whose id is in no other user's configuration, and whose own hold no other id
(`IdIsPrivate`), works in buckets its own configuration gave it.
`RefusalIsCurrentAlways`: a refusal comes from a load that has just been made, as
a lookup that found nothing leaves an entry the next request does not trust.
Types: `CacheTypes`.

**TokenAuth.** `RetiredKeysLapseAlways`: a token is let in only with a key that
was published less than the TTL ago. The invariant: every key in the cache was
still published at most Ttl before the entry's expiry. `SoundTokensPassAlways` is
the other direction, a key published for Ttl works unless the provider failed
since. Its invariant says what the caches remember of the past: a useless reply is
a failure of the provider that is noted (`FailureNoted`), and a published key the
cache misses is younger than the cache (`MissesOnlyNew`). Types: `TokenTypes`.

**Authorisation.** `AllowedIsRecentAlways` and `KeptRulesGrantAlways`. The first
rests on `RecentInv`: what a reading has taken in is not gone, since a reading
takes no time in the model (`GotOK`), so what is in force is no longer gone than
the last reading is past (`PolicyOK`), and neither question of a deletion is
separated from its end by a tick (`AskOK`). The second adds `KeptInv`: what a file
has kept since before the reading under way has been taken in or is still to be
read (`KeptOrToDo`), so what was kept since before the last reading is in force
(`KeptInForce`). Both need that a file which fails neither ends the reading nor
hides the others. `AuthTypes` needs `CountOK`: the files a reading has counted and
those it has still to open are together no more than there are.

**ConfigBuilder.** `ToolInvariance` proves `ToolInv`. Its main part, `Balance`, is an
equation for each list and each item: the answers that named it are as many as the
operator wants to have plus the removals still to be carried out. It survives
every answer, and each turn of the removal loop takes one from the bundle and one
from the removals, so at the end of the loop the bundle has each item as often as
it is wanted: `WrittenAsAcceptedAlways`, for lists of any length with items of which
some are equal. What counting needs is stated once (`TimesAppend`,
`TimesRemoveAt`, `TimesRemoveFirst`, `LineTimes`). `FilesOK` (the files are those at
the beginning but for what has been written) gives `RefusedLeavesFilesAlways`,
`RulesFollowConfigAlways` and `StaysLoadableAlways`, `TargetOK` gives
`OnlyTheNamedClientAlways`. `ToolTypeCorrectness` includes that no line of a csv has
an empty field.

Model-checked only: `AnsweredUnlessHung`, because liveness under fairness is out of
the prover's reach.

## 5. Not modelled

* casbin's matcher and enforcer: a rule is granted when the whole line is there,
  while the library compares subject and object and matches the action with a
  regular expression.
* Status, health and ping: they read each reporter and aggregate, keep no state
  and nothing depends on the order of their steps. Logging, Sentry, the version.
* `available_validators` lists class descriptions. `list`, `find` and `get` of the
  builder load and print.
* `retention_policy_parser.py` has no caller in the service; what it computes is
  calendar arithmetic of `dateutil` behind one regular expression.
* Byte-level work: regular expressions of the validators, CSV parsing, hashing,
  the text of keys and messages. Letter case in configured mimetypes and
  extensions is taken to be lower, as their documentation asks.
* A policy line that can be decoded but has too many or too few fields makes every
  `enforce` of the replica raise. `KeptRulesGrant` is about lines the adapter
  cannot decode.
* boto3 sends a put again when its reply is lost: then two versions are stored and
  one id is returned. `Save` stores one.
* `load_from_csv` (`configbuilder.py:109-124`) drops comments, lines of other ids
  and lines that do not have four parts, so a path typed with a comma in it is
  written and lost at the next edit; an empty first line raises `IndexError`. The values of the model
  have no commas, and its csv files are those the tool writes.
* The bypass of authentication for local development.

## 6. Differences that no run is spent on

Four disagreements of code and documentation have a run of their own and three
more are findings on runs that pass (section 3). These, some of them in more
detail, were met on the way, most of them in a counterexample of an earlier
version of the runs; the models keep the behaviour, so that it bears on the
properties that are checked.

* `s3_service.py:115` lists by prefix. Deleting a key that does not exist but
  begins a longer one answers 204 (`delete_files.py:28-29`: "204 if all versions
  of file found and deleted", "404 if file not found"), and the history of a key
  includes that of longer keys (`file_details.py:24`: "Get version history for
  the specified `file_key`").
* `s3_service.py:117` uses the first reply only. Besides the deletion
  (`delete_page`), the history of a key with more versions than one reply holds is
  cut short, and so is that of a short key whose reply is full of longer ones.
* `delete_files.py:46` keeps outcomes by key: a key listed twice is deleted in its
  first turn and answered 404.
* `s3_service.py:83-85` swallows unexpected exceptions: `get_file` answers 404
  for a file that is there, where `tests/routers/test_retrieve_file.py:31-39`
  expects 500 (of a mock that raises). The fault `unreachable` is on in both runs.
* `client_config_service.py:62`: a lookup that found nothing is repeated by the
  next request, where `docs/client_configurations.md:46` has "The result (a
  `ClientConfig` or `None`) is cached" and line 38 speaks of "cached 'None'
  values". `RefusalIsCurrent` depends on it.
* `client_config_service.py:136-142` takes the file named after the user whatever
  `azure_client_id` it holds, and `s3_service.py:27,35` keeps instances by that id:
  a caller whose file holds another client's id shares that client's instance, and
  with it its bucket, whichever of the two came first.
* `suspicious_content_validator.py:41-46` answers 400 to the client when the scan
  types its operator configured do not exist (its docstring, lines 28-30, says so);
  the scan has then not been run. `BreakdownIs500` does not count it as a breakdown.
* `middleware/auth.py:116` indexes `jwks['keys']` and the header's `kid` outside
  any `try`: the answer is 500, where line 97 says "Raise any token processing
  errors as 401".
* `middleware/auth.py:172` reports "Reachable if OIDC can be fetched" from a reply
  that may be an hour old.
* The documentation names `CONFIG_STORES` where the code reads `CONFIG_SOURCES`
  (`client_config_service.py:74`).
* An empty key given to `delete_files` lists the whole bucket and then fails
  version by version.
* `file_upload_handler.py:72`: when the audit record cannot be written after a
  put, or the put's reply is lost, the status is 500 and the version stays;
  `save_file.py:40` has "Any code other than 201 CREATED means the file has not
  been saved." `SaveEnds` shows every such combination.
* `delete_files.py:57`: the outcome of a key is set before its audit record is
  written, and the error of one key is forgotten at the next, so a deletion
  whose record failed is answered 204; line 30 has "500 if an internal error
  occurred". `DeleteEnds` has `<<"NONE", 204>>`.
* `authz_service.py:53,96,105`: "populated" in the status report compares the
  number of policy files read at start-up, which no reload updates, and wants
  more than one. Without `CASBIN_POLICY` the adapter has no such number and the
  import raises `AttributeError`.
* The two questions of a deletion may be answered under different policies; an
  interval bounds the difference (`AllowedIsRecent`).
* `audit_service.py:35-39` registers the instance before it is initialised: if
  the initialisation raises, the next call gets the instance as it is.
* `json_validator.py` refuses a body with 400 before the handler starts: such a
  request leaves no audit record (`RefuseBody` of `EventLoop`).
* `middleware/auth.py:116`, replies and tokens without the expected fields, and a
  scan of a file that comes without a content type, end in 500.

Of `configbuilder.py`, all of them behaviour of the model `ConfigBuilder`:

* Removing every rule leaves an empty csv (line 124 then fails): the client can
  no longer be edited, and `list` and `find` fail for all clients. This is the
  exception in `StaysLoadable`.
* `docs/client_configurations.md:177` removes a client by removing its json. The
  csv stays in force; adding the client again loads its old rules (line 275),
  writes the json and is then refused at the csv (line 293).
* A client whose id begins another's cannot be edited (lines 173-176); `list`
  leaves it out.
* `add` under another home makes a second json of the same client: then neither
  the tool nor the service finds it.
* An edited bucket leaves the rule of the old bucket in the csv; an edited display
  name is not written at all.
* `StaysLoadable` says that the files of a client validate, no more: as the points
  above show, a client whose files do may still be out of `edit`'s reach.
* An answer "d" is taken as "none" whether it was offered or not (line 317); for
  the bucket the edit then ends at line 339. An empty answer at "[E/a/s]" accepts,
  although E is shown as the default.
* A command interrupted while it writes leaves a json cut short or an empty csv.

## 7. Plan

Done: the modules above, their runs, and a theorem for each safety property and
for the refinement. What is open is written down where it belongs: liveness
(section 4) and the parts that are not modelled (section 5). When the code
changes, the order is: the module, its run, the invariant as a run of its own,
the lemma of the action that changed.
