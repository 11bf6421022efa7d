# Face recognition service: a verification project

TLA+ models of the face recognition backend in `src/`, TLC configurations that
check them on small instances, and TLAPS proofs for every value of the
constants. The reference is the code; where a document or a comment disagrees
with it, the model follows the code and a run shows the disagreement.

## 1. The system

An image is decoded, a face is detected (SCRFD), aligned and embedded (ArcFace),
and the 512-D embedding is stored or searched in PostgreSQL with pgvector. An
async FastAPI application serves it; several workers may share one database and
one Redis.

| component | state | operations | interacts with |
|---|---|---|---|
| unit of work (`app/db/session.py`, `app/repositories/`) | one session per request: identity map, open transaction, row locks | open, flush per `add`/`delete`, commit, rollback | every service; the database |
| schema and triggers (`alembic/`, `app/models/`) | `persons`, `faces`, `recognition_logs`, `users`, `api_keys` | foreign key with cascade, unique `external_id`, the two `is_active` triggers, partial HNSW index | fired by the services' statements |
| recognition service (`app/services/recognition_service.py`) | none of its own | register, register by name, replace image, verify, search, identify | pipeline (a thread), repositories |
| persons and faces API (`app/api/v1/`) | none | create, update, delete person; delete face; listings | sessions, recognition service |
| bulk import (`bulk_import_service.py`) | one background task: position, person cache, batch session | discover, process batch, process image | own sessions, job store, pipeline |
| job store (`job_store.py`) | jobs: state, counters, errors; in process or in Redis with a TTL | create, get, mark_running, record, add_error, mark_finished | written by the import, polled by clients |
| rate limiting (`core/rate_limit.py`) | fixed windows per key, in process or in Redis | allow | enroll (per address), external search (per key) |
| redis client (`core/redis_client.py`) | resolved once per process | get_redis | job store, limiter |
| API-key access (`api/deps.py`, `api_key_service.py`) | `api_keys`: hash, is_active, last_used_at | create, list, revoke, authenticate and touch | limiter, the search's session |
| authentication and roles (`auth_service.py`, `core/security.py`) | `users`; tokens held by clients | login, create user, bootstrap, role check | every endpoint |
| pipeline, SCRFD, aligner, embedder (`app/recognition/`) | the loaded networks | process_single, process_largest, detect with suppression and choice of faces | threads |
| analytics and health | none | counts, match rate, recent events | the tables |
| console (`frontend/app.js`) | token, view, camera stream, enrolment queue, folder import | one handler per widget, each with awaits | the API |
| life cycle, configuration, errors | settings, singletons | start, stop | all |

### What is hard

* **Interleaving.** A request awaits at each statement and, holding its open
  transaction, while a thread runs the networks. READ COMMITTED gives each
  statement its own snapshot; a value read before the inference is used after it.
* **Triggers.** `faces.is_active` copies `persons.is_active` by two triggers
  that run in two transactions.
* **Failure.** A handler may raise after any flush, a worker may die anywhere;
  the import goes on after a failed batch with what it remembers of it.
* **Locks.** A status change or a deletion locks a person and then faces; an
  enrolment locks the person; a replacement locks a face; a search with an API key
  locks the key's row until it is answered.
* **Redis.** A call is several commands; each may fail, executed or not; keys
  expire on their own; workers that started while Redis was away never see it.
* **Time.** Tokens carry a role longer than the table does; windows, keys and
  records expire between two commands.
* **Boundaries.** Boxes outside the image, equal scores, extreme aspect ratios.

### What makes each component correct

* Gallery tables: a face has its person; its embedding has its audit entry; a
  match named in the log was enrolled; an external id is unique; the mirror of
  the status is right; a request is all or nothing; every request ends.
* Bulk import: a face is filed under its directory's person, one person per
  directory; the counters cover what was committed; batches are atomic and
  isolated; the job ends and says so.
* Job store: the counters agree up to the image in hand; what a client is told
  goes only forward; nothing changes after the end; the error list is the first
  messages; records go away; a client that asks learns the end. (Where these fail is
  in section 3.)
* Rate limiter: a bound on what is granted in any stretch of a window; a counter
  that is full always becomes free.
* API keys and users: one account per name; a withdrawn role is used no longer than
  a token lives; a revocation is answered only after the searches it overtakes;
  a start leaves its administrator.
* Detection: the suppression keeps the best of each cluster; an enrolment is
  unambiguous; a search takes the most prominent face; a thumbnail shows the face.
* Console: the camera stops when a view is left, a queue goes to the person it
  was made for, an old answer never replaces a newer one.

## 2. The modules

| module | what it is |
|---|---|
| `Registry` | abstract gallery: people, enrolled faces and the audit log, changed by whole requests |
| `Gallery` | the tables under concurrent requests, statement by statement |
| `GalleryProofs` | theorems about `Gallery`: types, and that no face outlives its person |
| `GalleryAuditProofs` | theorems about `Gallery`: the log answers for embeddings and matches |
| `GalleryRegistryProofs` | theorems about `Gallery`: unique external ids, the mirror, and that it implements `Registry` |
| `MCGallery` | instances of `Gallery` for TLC |
| `BulkImport` | the import task, batch by batch |
| `MCBulkImport` | its instance |
| `BulkImportProofs` | theorems about `BulkImport`: persons of faces, directories, progress, whole batches |
| `JobStore` | the registry of imports in memory and in Redis, command by command, with the import that writes and a client that polls |
| `JobStoreProofs` | theorems about `JobStore`: counters, errors, the end, what a client is told |
| `RateLimiter` | the fixed-window limiter of one key in memory and in Redis, with a clock |
| `RateLimiterProofs` | theorems about `RateLimiter`: budgets, expiries |
| `Access` | accounts, tokens, API keys and the sessions that use them |
| `AccessProofs` | theorems about `Access`: unique names, the end of access, valid keys, bootstrap |
| `Detection` | one inference: letterbox, suppression, choice of the face, thumbnail |
| `DetectionProofs` | theorems about `Detection`: what suppression, choice, letterbox and thumbnail guarantee |
| `MCJobStore`, `MCRateLimiter`, `MCAccess`, `MCDetection` | their instances |

### Gallery

State. `persons`, `faces`, `logs` are the committed rows. `tx[r]` is the session
of request `r`: what the handler holds in its ORM objects (`person`, `face`,
`sets`, `name`, `ext`, `active`), its uncommitted insertions (`inserted`, `log`)
and its locks (`lock` on the person's row, `rows` on faces). `pc[r]` is the
statement that comes next. `raced` is a history variable.

Abstraction. An embedding, its score, box and thumbnail always travel together,
so they are the upload they come from (`image`). Similarity is any outcome: a
recognition may hit any face its WHERE clause admits, or none. Ids are drawn by
uuid4, so a row is named by the request that inserts it. Metadata are left out,
except that a patch of the metadata alone writes the row.

Actions. One per statement, in the order of the code:

| endpoint | chain |
|---|---|
| register, enroll | `Register` / `EnrollByName`, `Infer`, `InsertFace` (the row and its BEFORE trigger), `CheckPerson` (the foreign key), `Record`, `Commit` |
| replace image | `ReplaceImage`, `Infer`, `OverwriteFace`, `Record`, `Commit` |
| delete face | `DeleteFace`, `RemoveFace`, `Commit` |
| create person | `CreatePerson`, `CheckUnique`, `Commit` |
| update person | `UpdatePerson`, `CheckConflict`, `FlushUpdate`, `CheckUnique`, `FireTrigger`, `TouchRow`..., `EndTrigger`, `Refresh`, `Commit` |
| delete person | `DeletePerson`, `FlushDelete`, `FireTrigger` (the cascade), `TouchRow`..., `EndTrigger`, `Commit` |
| verify, search, external search | `Verify` / `Search`, `Infer`, `Query`, `Record`, `Commit` |

Any of them may go to `Rollback` by an exception, or to `Crash`. The database is
external to the code and is modelled by five operators marked so in the map:
conflicts of row locks, waiting for a person's row or a face's row, what READ
COMMITTED shows, waiting on an entry of the unique index. `KEY SHARE` is what the
foreign key takes, `NO KEY UPDATE` what an UPDATE takes unless it changes
`external_id`, which has a unique index, `UPDATE` what that and a DELETE take.

`Registry` says what this should look like from outside: each request is one
atomic operation on people, faces and audit. The mapping is the identity on the
committed tables without `is_active` (the mirror is not atomic, see below); a
session's statements stutter and its commit is the operation.

### BulkImport

State. The committed tables as far as the import touches them (`people`,
`faces`, `audit`), the open session of the batch, `cache` (person_cache), the
job's counters, the position `at`, and two history variables: `landed` (images
whose face was committed at some time) and `known` (persons that ever were).
Actions follow `run`, `_process_batch` and `_process_one`: `Run`, `Infer`,
`Resolve`, `AddFace`, `Reject` (the inner except clause), `StatementFails` (a
failed flush makes the session refuse everything, so the except clause raises as
well), `Commit`, `CommitFails`, `Rollback` (the outer except clause). Two exceptions
are caught by nobody and end the task in a worker that lives on: `is_dir` or
`_discover` raises (an unreadable directory; an outcome of `Run`, after which the job
stays pending), or the rollback itself does (`RollbackFails`: the job stays running).
`Crash` is the process dying and nothing else.
Around it operators delete persons (`DeletePerson`, one step here because its
interleaving with enrolments is what `Gallery` is about). The job store is the
one in process; its record is one step; `JobStore` has both stores.

### JobStore

State. `backend[w]` is the store that worker `w` resolved when it started
(`get_redis` asks once). `job` is the record as a function on the fields that are
there (none: no record), `errors` the list, `ttl` and `ettl` the ticks until Redis
expires the two keys; `pc` and `at` say where the endpoint, then the import, is;
`seen` is the client's last answer. `pushed` and `expired` are histories.

Actions. One per command of Redis, one per call in memory: `Create` and `Expire`
(the endpoint), `NoRoot`, `MarkRunning`, `RecordSuccess` and `RecordFailure` (two
HINCRBY and a transaction on the list), `BatchFailed`, `MarkFinished`. `Unreadable`
is the task ended by an exception of `is_dir` or `_discover`, before `MarkRunning`; a
rollback that raises ends it in `BatchFailed` (both: `died`, in a living worker, with
nothing written). `Call` lets
any command raise, executed or not, and control goes where the code's `except`
clauses send it: out of `record(success=True)` to the record of a failure of the
same image, out of that to the batch, out of the batch's message to the end of the
task. What happens to an image between the calls is its outcome only. `Poll(w)`
asks any worker, `Tick` expires keys, `Crash` kills the worker of the import.

### RateLimiter

State. The key's value and expiry in Redis, a bucket per worker in memory, and per
thread its `place` in `allow` and how long ago it read the clock (`lag`; the code
reads it before it takes the lock). All times are ages, so there is no absolute
clock. `recent` counts, for each n up
to a window, what each store granted in the last n ticks.

Actions. `Enter`, then `CountInMemory` (the body under the lock) or `Incr`,
`CheckTtl`, `Expire` (three commands), each of which may end in `FailOpen`. `Tick`,
`RestartRedis` (nothing is persisted, `docker-compose.yml:23`) and `RestartWorker`
(which resolves its store anew) surround them. `ParseRate` is the setting's
parser. A counter is saturated just above the limit, where all values are alike.

### Access

State. `users` and `keys` are the committed rows, `known` the keys ever handed out,
`tokens` what clients hold, with the ticks each has left; `sess[p]` and `place[p]`
are the session and the statement of a request or of a starting worker. `absent`
(ticks since an account was an active administrator), `late` (the longest such
absence of anybody admitted) and `ready` (starts that returned) are histories.

Actions. `Login` and `Issue` (the expiry counts from the second), `Ensure`,
`CreateUser` and `InsertUser` (waiting for an uncommitted account of that name),
`CreateKey` and `InsertKey`, `RevokeKey` and `DeleteKey`, `Search`, `CheckLimit`,
`Touch`, `Infer`, and `Commit` or `Fail` for all. `Alter` is a change of an account
made in the database, the only way there is: no endpoint updates users. Passwords
and signatures are right or wrong; a key is its hash.

### Detection

State. The image's size, what the network yields (any set of scored boxes), the
detections above the threshold, `order` and `keep` of the suppression's loop, the
faces chosen, the error. Actions are the stages: `Scale`, `Forward` (with the
outputs that the model's file has), `Suppress` (one turn of the loop; among equal
scores any comes first, since the sort promises no order), `Suppressed`, `Choose`.
Coordinates are integers where the code has floats, which keeps every comparison
and every edge; the thresholds are fractions.

## 3. What the runs check

| run | instance | shows |
|---|---|---|
| `gallery` | 3 requests, any endpoint each, 1 seed person, 1 name, 1 external id; 520 thousand states | the invariants below and the refinement of `Registry` |
| `gallery_ends` | 3 requests to the endpoints that take locks; 124 thousand states | `EveryRequestEnds` under fairness |
| `gallery_mirror` | 2 requests | violation of `MirrorInSync` |
| `gallery_names` | 2 enrolments | violation of `OnePersonPerName` |
| `bulk_import` | 7 images, 2 directories, batches of 2; 227 thousand states | the import's invariants, atomic batches, its end |
| `bulk_import_isolation` | the same, database without failures | violation of `PerImageIsolation` |
| `bulk_import_cache` | the same, database with failures | violation of `BatchFailureIsIsolated` |
| `job_store` | 3 images in batches of 2, 2 workers, 2 messages kept, 2 ticks to live, 1 failing command; 806 thousand states | the record of an import, both stores, and what a client is told |
| `rate_limit` | 3 threads on 2 workers, 3 settings, 1 fault; 830 thousand states | the budget of a window, and that a key gets free |
| `access` | 3 processes, any operation each, 2 names, 2 accounts and 1 key that may be there, tokens of 1 tick; 330 thousand states | accounts, tokens, keys and their ends |
| `access_touch` | 3 searches with one key | violation of `TouchNeverBlocks` |
| `detection` | up to 4 of 14 boxes, 4 image shapes, 2 models, 3 entries; 186 thousand states | suppression, choice, thumbnail, letterbox |

Invariants of `gallery`: `FacesHaveAPerson` (no orphan embedding),
`EmbeddingsAreAudited` (the embedding a face carries has a "register" entry by
the request that uploaded it, also after overlapping replacements),
`MatchesWereEnrolled` (a match named in the log was enrolled for that person),
`ExternalIdsAreUnique`, `OnlyRacedFacesAreStale` (a wrong mirror needs an
insertion that overlapped a change of status), `TypeOK`. `ImplementsRegistry` is
the refinement. Each has a mutant of the code that breaks it: a foreign key
dropped, a WHERE clause lost, an audit entry forgotten, a unique index missing, a
trigger missing, a commit in a finally clause, an audit entry that
locks the person it names and so closes a cycle of waits.

`bulk_import`: next to the invariants, `ImportEnds` names every way in which an import
is over: it says so; or it could not read a directory and says "pending", with nothing
enrolled; or a rollback raised and it says "running", with nothing of that batch
enrolled; or its process died. The second and third leave a record in a living worker
that nobody will ever finish.

`job_store`: `CountersAgree` bounds by how much `processed` may differ from the
outcomes and from the position: the image between two commands and one more for
each command that raised (the image is then recorded twice). `ErrorsAreTheFirst`
says that both ways to cap the list come to the same. `TheEndIsTheLastWord`: after
the state says that the import is over, neither counters nor list change.
`PollsGoForward`: a client that asks any worker sees only progress, whatever stores
the workers resolved, until the record expires or dies with its worker; that a job it
has seen is unknown, it is told only by a worker with a store of its own.
`FinishedJobsExpire`: in Redis the record goes away whatever way the import is over,
also after a crash, once `create` has given it its expiry; not if it expired while the
import was running, since the next HINCRBY then makes a hash without one.
`PollerLearnsTheEnd`: a client that keeps asking learns the end, or gets a 404 for one
of the three reasons named; else the record is `Abandoned`: the task is over without
having said so, and the record is in the memory of a worker that lives on or was made
anew in Redis, where nothing removes it.

`rate_limit`: a fixed window grants at most two budgets over any stretch of its
length; `BudgetPerSpan` says that this is all that concurrent first hits, late
EXPIREs, repairs and threads that wait for the lock can make of it, one more for each
restart that empties a store. In memory the budget is never below one, since the
first hit of a window is not compared with the limit. Hits that pass because Redis
failed are granted by nobody and not counted. `ExpiryIsOnItsWay`: without faults, a
counter without expiry has a thread about to give it one; with a fault, `FreeAgain`:
a later hit repairs it.

`access`: `OneAccountPerName`, `RevocationWaits`, `BootstrapLeavesTheAccount`,
`EveryRequestEnds`, and `AccessEndsWithTheToken`: the rights of an administrator are
used less than a token's life, plus the time a login takes between its SELECT and
its token, after the account last had them.

`detection`: `KeptAreApart` and `DroppedHaveABetter` specify greedy suppression
without its loop; the others follow a face to where it is used. `ScalesAlike`
bounds what is lost by scaling back with the factor of the height alone.

**Bounds.** `Requests` bounds how many requests ever arrive. The deepest
interactions involve a writer of the person, a writer of a face and a third
party that observes or waits: three requests. One seed person with one face is
enough to have rows from before and, with `enroll` and `create`, three persons
and three faces in one behaviour. Requests are interchangeable, hence the
symmetry; the liveness run does not use it. `gallery_ends` leaves external ids
out to stay small. A cycle of waits on the unique index would need two
updates with stale checks and two more requests that made them stale, beyond
three requests; PostgreSQL would break it by aborting one, which is a failure the
model has anyway. For the import: the first directory spans three batches and
shares the third with the second directory, whose last image makes an incomplete
batch, so the cache is used within a batch, across batches and across directories. A
batch size that divides the number of images is covered by the theorems only.
`job_store`: a full and an incomplete batch; more messages (of images and batches)
than the list keeps; keys that may expire at any place of the import; `MaxFaults`
bounds the commands of the import that raise. `rate_limit`: a limit of two, so that
hits race for the second; two threads that share a worker and one that does not;
`MaxLag` bounds how long a thread waits for the lock, `MaxFaults` faults. `access`:
three processes are a start, an administrator and a third that observes or waits;
`Lifetime` of one tick and `MaxLag` make every token expire; `MaxAlters` bounds the
changes in the database. `detection`: chains of three overlapping boxes, equal
scores, boxes without extent, outside or across each border, shapes that cannot
be scaled.

**Fairness.** `FairSpec` of `Gallery` is weak fairness of each request's steps:
the event loop runs ready coroutines, PostgreSQL grants a lock that is free to
its waiter, threads of the pipeline return. Arrivals and crashes are not fair.
`EveryRequestEnds` needs no more because a waiter, once its lock is free, is
taken from it only by the finitely many requests that arrive. `FairSpec` of
`BulkImport` is weak fairness of the task, not of crashes or operators. In
`JobStore` the import runs, time passes and the client keeps asking whichever worker answers
(the fairness of a client, not of the code: `PollerLearnsTheEnd` is about a
client that does). In `RateLimiter` time passes, threads run and clients keep
calling: `FreeAgain` holds although they do. In `Access` each process's statements
run; arrivals, changes and time are not fair.

Deadlock checking is off, except in `rate_limit`, where clients never stop: when all
requests are over, the import has ended or the inference is done, nothing is left
to do. That nobody waits for ever is checked as
liveness instead.

### Where code and documents disagree

1. `faces.is_active` is "kept in sync by DB triggers" (`app/models/face.py:44`).
   It is not when an enrolment overlaps a change of status: the insert trigger
   reads the person's status without a lock, the propagation does not see the
   uncommitted face. TLC's trace: the person is inactive; an enrolment inserts a face,
   which copies FALSE; an update sets the person active and finds no face to change;
   both commit. Search filters on the mirror alone and misses an active person; with
   the statuses exchanged it finds an inactive one. (`gallery_mirror`; that this is
   the only way is `OnlyRacedFacesAreStale`.)
2. "Find-or-create a person by name" (`recognition_service.py:109`) makes two
   persons when two enrolments of a new name overlap. (`gallery_names`)
3. "per-image isolation" (`bulk_import_service.py:149`): a face that the database
   refuses takes the rest of its batch with it. (`bulk_import_isolation`)
4. "isolate batch failure" (`bulk_import_service.py:106`): the cache keeps the id of
   a person that was rolled back, so later batches fail too. TLC's trace: the first
   image of a directory inserts and caches the person, the INSERT of its face fails,
   the batch is rolled back, and the next batch takes the id from the cache. A commit
   that fails does the same. (`bulk_import_cache`)
5. `touch` is documented as "own transaction, never blocks search"
   (`api_key_repo.py:24`). It runs in the search's session, so searches with one key
   run one after the other, and a failed one loses its time stamp. (`access_touch`)

Smaller ones, which the models show without a run of their own. `job_store.py:4`
says "atomic per call": a record in Redis is two HINCRBY and a pipeline
(`CountersAgree` says how far apart they get). `job_store.py:100` says that keys expire
"so finished jobs don't accumulate": an import that outlives its record makes a new one
without expiry. A task that ends by an exception nobody catches
(`bulk_import_service.py:59`, `:64`, `:107`) never says so, and in memory its record
stays "pending" or "running" as long as the worker lives (`Abandoned`).
`auth_service.py:46` says "if no users
exist yet": the code asks for that name only, and an existing account of that name
with a lower role is reported as a ready administrator by `create_admin.py:22`
(`Ensure`; hence `BootstrapLeavesTheAccount` promises an account, not a role).
A setting "0/minute" still grants one hit per window in memory, none in Redis.
`scrfd.py:104` falls back for other numbers of outputs, but reads past the end of some
(10, say); the error of the warm-up is swallowed (`pipeline.py:156`), and every
inference raises (`Forward`).

## 4. What is proved

`GalleryProofs`, for any finite or infinite sets of requests, seeds, names and
external ids. The only assumption is `ConstantsAssumption` (`Gallery`): known
endpoints, requests apart from seeds, None apart from the values.

* `TypeCorrect`: `Spec => []TypeOK`.
* `NoOrphanFaces`: `Spec => []FacesHaveAPerson`.
* `Invariance`: the inductive invariant `IInv` behind both.

`FacesHaveAPerson` is not inductive: it speaks of committed rows, and says nothing
of the sessions that are about to change them. `IInv` adds

* `PlaceFits`, `WritesComplete`: what a session holds at each place, so that the
  rows it commits are complete (this is what `TypeOK` needs);
* `LockHolder`, `LockFits`: row locks on a person exclude each other;
* `NewFaceHoldsPerson`: a session that has inserted a face holds KEY SHARE on a
  person that is there, or is its own insertion;
* `CascadeIsComplete`: a deletion that has its lock reaches, before its commit,
  every face committed for its person.

The argument is at the commit (`CommitInv`). A committing deletion takes away a
person; an enrolment in flight for the same person holds KEY SHARE, which
conflicts with FOR UPDATE, so there is none. A committing enrolment adds a face; a
deletion in flight of the same person would hold FOR UPDATE, so its list of faces
is still complete. `MoveInv` deals once with all steps that commit nothing: it
remains to show, one lemma per group of actions, that the session they leave is
well formed. `IInv`, `AInv` and `RInv` (below) were checked by TLC on the instance
of `gallery` before they were proved.

`GalleryAuditProofs`, under the same assumption, adds `AInv` on top of `IInv`:

* `EmbeddingsAnsweredFor`: `Spec => []EmbeddingsAreAudited`.
* `RecognitionsOnRecord`: `Spec => []MatchesWereEnrolled`.

Neither is inductive alone. `EmbeddingsAreAudited` needs `EntryIsReady` (a session
reaches its commit of an embedding only with its own entry, for the same person
and face) and `TargetIsKept`: the person a replacement read before its inference
still owns the face if the face is there at the commit, because a face id is
inserted once (`EnrolledAreOver`) and no request moves a face. `MatchesWereEnrolled`
needs `MatchIsOnRecord`, and that rests on `EmbeddingsAreAudited`: what a query finds
is committed, hence in the log, and the log only grows. `MoveAudit` deals with
the steps that commit nothing, `CommitAudit` with the commit.

`GalleryRegistryProofs`, under the same assumption, adds `RInv` on top of both:

* `ExternalIdsStayUnique`: `Spec => []ExternalIdsAreUnique`.
* `OnlyRacesBreakTheMirror`: `Spec => []OnlyRacedFacesAreStale`.
* `GalleryImplementsRegistry`: `Spec => ImplementsRegistry`.

The first two speak of committed rows, the third of steps; what they need is what a
session holds while it is on its way:

* `PeopleAreOver`: only a request that has committed has its person in the table.
* `Shape`: what a handler has done at each place (its lock, its entry of the log, the
  rows it has locked), so that its commit is the operation it was asked for.
* `KeyFits`: a session that has passed the unique index is alone with its external id,
  among rows and among sessions.
* `RowsFit`: a face whose row a session has locked is there, and no other session has
  locked it.
* `CopyFits`: the status that an enrolment copied is still that of its person, or the
  enrolment is in `raced`. No lock protects that status, hence the history variable.
* `MirrorFits`: an update or a deletion that holds its person's row has a person who is
  there, and it knows all committed faces of that person but those in `raced`.

The commit is again where it matters: `CommitKeys`, `CommitRows`, `CommitCopies`,
`CommitMirrors` and `CommitStatus` take one part each. For the refinement, `InitRefines`
maps the initial state; `NextRefines` says that every step but a commit stutters in
`Registry` and that a commit is one operation there (or none, when an update or a deletion found that
nothing is left to change), by one lemma per operation
(`EnrolmentRefines`, `ReplacementRefines`, `FaceDeletionRefines`, `CreationRefines`,
`PatchRefines`, `DeletionRefines`, `RecognitionRefines`). A deletion refines only
because its cascade is complete (`IInv`), a replacement only because the face it
locked is still there (`RowsFit`), a patch only because its key is still free (`KeyFits`).

`AccessProofs`, for any processes, names, accounts, keys, life time, lag and number
of changes; from `AccessAssumption` (the bootstrap name is a name, roles are of the
three and "admin" among them, the accounts at the start have different names, rows
are named apart):

* `TypeCorrect`, `AccountsAreUnique`, `AccessEnds`, `KeysInUseAreValid`,
  `BootstrapIsDone`: `Spec =>` always `TypeOK`, `OneAccountPerName`,
  `AccessEndsWithTheToken`, `RevocationWaits`, `BootstrapLeavesTheAccount`.

None but the last is inductive. `Sessions` says what each session carries and has
excluded: one that is about to commit an account knows that no row and no other
such session has its name; one that holds a key's row knows that the key is there
and that nobody else holds it. `Fresh` says that the row a session inserts is not
there before. `Absence` is the argument for tokens: for a token that says
"admin", the account's absence plus the ticks the token has left never exceed the
life time plus the lag, and for a login under way the absence is at most its lag; so
whoever is admitted, with at least one tick left, is late by less than their sum.

`RateLimiterProofs`, for any workers and threads, any settings, any lag and any number
of faults; from `RateAssumption`:

* `TypeCorrect`, `BudgetsHold`, `ExpiryComes`: `Spec =>` always `TypeOK`,
  `BudgetPerSpan`, `ExpiryIsOnItsWay`.

`BudgetPerSpan` says nothing of the present window, so it is not inductive. `RedisBudget`
and `MemoryBudget` are: in the last n ticks a store has granted at most one budget for
each restart, one for a span that reaches back before the present window, and what the
present window granted (`Credit`, `Own`, `OwnOf`). A window that ends was open for as
long as a window lasts, so no span reaches back before it and its budget is free for
the next one. In memory a window may be opened with a clock read up to `MaxLag` earlier,
which is why there the bound holds for spans shorter by `MaxLag`. That a counter
without an expiry has a thread that is about to set it needs no strengthening beyond the
types.

`DetectionProofs`, for any boxes, images, thresholds and order among equal scores;
from `DetectionAssumption` (integers and naturals):

* `TypeCorrect`, `FacesAreApart`, `NoFaceIsLost`, `Unambiguous`, `MostProminent`,
  `ThumbnailIsOfTheFace`, `LetterboxScalesAlike`.

Suppression compares a kept box with the boxes behind it; that the kept ones are
apart both ways needs that overlap is symmetric (`SharedIsSymmetric`), and that no
face is lost for a worse one needs that a kept box was a best one of all that were
left. `Staged` and `Chosen` carry the results through the stages.

The last two are about integer division, which the prover does not do where it is not
linear: `Quotient` gives each quotient its two bounds, and the rest is inequalities
between products, one lemma each. A thumbnail is cut from a face that has an extent
unless `MIN_FACE_SIZE` is 0: `LargeEnough` carries the filter's bound to the crop. The
proof did not go through without it, and at 0 a box without width or height is a face
and has no thumbnail, although it lies in the image; `ThumbnailShowsTheFace` says so.

`JobStoreProofs`, for any numbers of images, workers and commands that raise, any
batch size, cap and life time; from `JobStoreAssumption` (naturals, the worker of the
import is one of the workers) and `AnswersAssumption` (404 and "no answer yet" are
not records):

* `TypeCorrect`, `CountersAreClose`, `FirstErrorsAreKept`, `EndIsLast`,
  `ForwardPolls`: `Spec =>` always `TypeOK`, `CountersAgree`, `ErrorsAreTheFirst`, and
  the action properties `TheEndIsTheLastWord` and `PollsGoForward`.

`CountersAgree` needs to know, at each place of the import, how far `processed` may be
ahead of the outcomes and of the position (`Counts`, and `Position` for the batches);
the lemmas `ImageCounted` and `OutcomeCounted` are the two commands of `record`, each
executed or not when it raises. That the list is the first messages needs that it
never expires before the record: each message renews its key (`Listing`), while the
record's key is set once, after the hash (`Kept`). A write after the end is excluded
because a record that says "completed" or "failed" and has not expired is one whose
task is over (the last part of `Counts`). `Seeing` says that the client was told no
more than the record holds, so that the next answer cannot be behind.

`BulkImportProofs`, for any list of images, any directories and any batch size, with or
without a database that fails; from `ImportAssumption` (a list of directories, a batch
of at least one image, names that are not numbers):

* `TypeCorrect`, `NoOrphans`, `FiledRight`, `ProgressIsHonest`, `WholeBatches`: `Spec =>`
  always `TypeOK`, `FacesHaveAPerson`, `FiledUnderTheDirectory`,
  `ProgressCoversTheCommits`, `BatchesAreAtomic`.

The invariant says what the session is for: it holds the images of the open batch that
are behind the present one and no others (`Open`), while what is committed lies in
earlier batches, each whole (`Landing`); the lemmas about division (`Quotient`,
`Batches`) say that batches do not overlap. The cache survives a failed batch, so its
ids may be stale; `NameOf` gives the directory an id was made for, rolled back or not,
and `Filing` carries that a cached id is always one of its own directory: a stale id
can only name a person that is gone, and the foreign key refuses that one.
`Progress` bounds the committed images and those of the session, together, by the
counters, and the counters by the position.

Every invariant, every action property and the refinement that a passing run checks is
thus a theorem. Only model-checked, because liveness under fairness (and the ENABLED in
it) is out of the prover's reach: `EveryRequestEnds` of `Gallery` and of `Access`,
`ImportEnds`, `FinishedJobsExpire` and `PollerLearnsTheEnd`, `FreeAgain`. The
properties of the runs that expect a violation are, of course, not theorems.

## 5. What is not modelled

* The networks and the linear algebra: floating point. Similarities are outcomes.
* Recall of the HNSW index, `ef_search`, `top_k`: a search returns some admissible
  match or none.
* Timestamps, pagination, messages, layout of answers.
* The connection pool: a request that cannot get a connection has not started.
* bcrypt, JWT signatures, SHA-256: a password, token or key is right or wrong.
* slowapi's global limiter per address: a library.
* The decoding of the network's outputs into boxes, landmarks, alignment.
* The console (`frontend/app.js`): a browser program; its hazards are listed in
  `PROJECT.json` without a property.
* Analytics and health: they read and change nothing.
* Settings, logging, the mapping of exceptions to statuses, container files.
* PostgreSQL's fairness among waiters and its deadlock detector (see Bounds).
* Read-only endpoints, except the recognitions, which write the audit log.

## 6. Plan

What is done was planned in this order: the gallery and its abstract registry, the
import, the job store, the limiter, access, detection. What is left:

1. `Console`: camera, enrolment queue, login state of the single-page console.
2. The composition of `BulkImport` with `JobStore` (today the one abstracts the
   other to its outcomes), and of `Access` with `RateLimiter`.
3. Analytics: the match rate from two snapshots.

Theorems left: those of the modules above, once they exist, the composition of import
and job store first. Modules to be proved about declare no RECURSIVE operator.
