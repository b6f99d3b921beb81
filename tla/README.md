# DocumentFeeder in TLA+

A verification project for Document Core: TLA+ modules translated from the source, TLC runs
that check them on small instances, and theorems that TLAPS proves for every instance.

## The system

A document enters through an upload or a watched directory, becomes a row of `document_jobs`,
is claimed by one of several worker processes, and is delivered to a target system, put into
quarantine for a human, or given up after too many attempts. Operators correct, release, retry
and delete jobs through the HTTP interface at the same time.

| Part | Source | State it keeps | Operations | Made correct by |
|---|---|---|---|---|
| Job queue | `store.py` | `document_jobs`, `job_events` | `save`, `claim_next`, `renew_lease`, `claim_delivery`, `retry_failed`, `delete_stalled_job`, `save_event` | a deleted job stays deleted; leases keep workers apart; attempts are bounded |
| Processing and delivery | `pipeline.py` | the job object in memory, the work copy on disk | `process`, `review`, `release`, `_deliver`, `_finalize_work_copy` | delivered means taken and valid; no copy given up early; row and file agree |
| Worker | `worker.py` | the job it has claimed, a heartbeat thread | claim loop, lease renewal | every job comes to rest, crashes included |
| Job requests | `api.py` | the copy a handler has read | review, release, retry, delete | no review lost, no second delivery |
| Ingest and hotfolder | `pipeline.py`, `api.py` | staging files, inbox, a channel's source files | `ingest`, `upload_document`, `watch_hotfolder` | one job per content; no source removed before it is stored; no referenced file removed |
| Audit chain | `store.py`, `api.py` | `audit_events`, anchor settings | `save_audit_event`, retention, verification | an intact chain verifies, a gap does not |
| Users and sessions | `store.py`, `api.py`, `auth.py` | `users`, `user_sessions`, LOGIN entries | login, profile, administration | an administrator remains; a change ends the sessions; guesses are limited |
| Configuration | `store.py`, `api.py`, `pipeline.py`, `secrets.py` | channels, targets, rules | whole-row saves by administrators, watcher and deliveries; key rotation | one default target, no change undone, every process starts again |
| Connectors | `connectors.py`, `connector_registry.py` | none; the files and documents at the target | `deliver`, `healthcheck` | a receipt is true, a document is in one place, waits are kept, pieces cover the document |
| Rules and classifier | `processing.py` | none | `validate`, `classify`, `extract_metadata` | functions of their input |
| Licence, malware scan, file validation | the modules of these names | none | verify, scan | one-request computations |
| Console, migrations, tools, mock target | `static/`, `migrations/`, `tools/` | none | | outside the model |

The parts meet in shared state, not in messages: workers and handlers run in different
processes and threads, read a row into an object, work on the object for as long as an OCR run
or a remote call takes, and write **all** of its columns back. Nothing compares versions. The
hard behaviours follow from that: stale copies saved over newer rows, a lease that ends under
a living worker, a crash between a file operation, a remote call and a commit, none of which
share a transaction. `PROJECT.json` lists the hazards at their lines.

## The modules

    JobStore      the table and its transactions
      Delivery      work copy, target system, faults; what exceptions make of a job
        WorkerProcess   workers, heartbeats, crashes, leases
        JobRequests     the operators' handlers
          Pipeline        both together, fairness, the properties
            MCPipeline      constants of the runs
            PipelineDeliveries > PipelineClaims > PipelineCounts   proofs
    Registry      abstract: contents, each stored once, and one answer for each document
    Ingest        staging, check, lookup, inbox, insert, clean-up
      Hotfolder       the watcher, its channel, the device, the administrator
        Intake          uploads, a worker and deletions beside them; implements Registry
          MCIntake        constants of the runs
          IntakeProofs
    AuditChain    the audit log, independent of the jobs
      MCAudit         constants of the run
      AuditChainProofs
    Users         accounts, sessions, login
      MCUsers         constants of the run
      UsersProofs
    Targets       target systems, their default and their secrets
      MCTargets       constants of the run
      TargetsProofs
    Connectors    what the attempts of workers leave at a target
      MCConnectors    constants of the run
      ConnectorsProofs

**JobStore.** `rows[j]` holds the columns other operations decide on, `live` the jobs that
have a row, `events` those with entries in `job_events`. `next_attempt_at` is kept as `due`
(null or past), `lease_expires_at` as none, live or expired; the two actions of the clock move
them on. Each operator is one database transaction. `Save` overwrites everything or, without a
row, does nothing. `SELECT ... FOR UPDATE SKIP LOCKED` makes claims take effect one after the
other: a row skipped because another transaction has it is not claimable after that one.
A file path is one of three places (a job has one inbox, one quarantine and one completed path
of its own); a document's fields are its type, known or unknown, and whether it has a routing
reference.

**Delivery.** `place[j]` is where the work copy really is, as against `rows[j].path`, which says
where the row thinks it is; `accepted[j]` counts how often the target took the document.
An answer of a target is taken or not, and independently no error, a temporary or a permanent
one; an error although the document was taken is a lost receipt (`Lost`). Crashes, lapsed
leases and lost receipts are drawn from `Budget`, the only bound of the model besides the
finite sets. `Suffer` counts them in `faults`, so that properties can say what they hold
without, or how much each fault may cost.

**WorkerProcess.** `process` in steps, cut wherever another process or a crash can come between
with an effect: claim; extraction with validation; the move into quarantine; the connector
call; the clean-up of the work copy; the save. Errors at every step end in `AfterError`, the
exception path, which retries or fails. `WorkerRenews` is the heartbeat thread. A worker that
cannot renew goes on, as the code does. The branch of `process` for a job still in received
serves direct callers and is never taken after a claim.

**JobRequests.** Each handler reads the row, then works on its copy: review reads and later
saves; release reads, rejects or claims, delivers, cleans up and stores; delete removes the row
and later the files; retry updates at once; events follow in a transaction of their own.
Up to `MaxOpen` requests are under way together. The reads before a retry and a delete add
nothing to the guard of the update that follows, so they are not steps. `ApiCrash` ends every
open request.

**Registry.** What ingest promises, in one atomic step each: a sender hands a content in; it is
accepted if no job has it, recognized as a duplicate if one has, or ends in an error that leaves
open which; an operator's deletion makes the registry forget a content.

**Ingest.** `ingest` of one upload or of the watcher, cut at every call that another thread or a
worker can come between: staging with the hash, type check and scan, `find_by_hash`, the move
into the inbox, the insert of `create_if_absent`, after a conflict the search for the winner,
the clean-up of the loser or of a failed insert, the event. A document is a content and a file
name, because hash prefix and name make its inbox path: two names of one content are two paths
and one job. `inbox` is the set of documents whose path holds a file, `job[j].at` whether the row
names that path or one that bears the job's id. The staging file is private to its ingest and
not shown. `StoreFails` is a store call that raises; when `create_if_absent` raises, the insert
may have been committed or not. `Unborn` ids bound how many ingests are under way.

**Hotfolder.** `watch_hotfolder` over one channel: `Wake` lists the channel and the directory,
`Pick` starts an ingest, `Remove` unlinks the source, `SaveTaken`, `SaveError` and `EndPass` write
the listed copy of the channel back. An exception ends the pass; an error of the store outside
the `try` or inside the handler ends the task (`"dead"`). A device drops files and may write one
again. The administrator reads, edits and saves the channel, or deletes it. Patterns accept every
name here. The channel is one that an administrator has made; `Standard-Hotfolder`, made
again at every start of the service, is not followed across a restart.

**Intake.** Both together with what else touches the inbox. Of the worker it shows only the status
it leaves and what it does with the file (all attempts of a job count as one); of the requests
only the deletion, as row and then file. `ApiCrash` ends uploads, watcher and deletions.

**AuditChain.** The log on PostgreSQL, as `compose.yaml` deploys it. Each action is one SQL
statement of `save_audit_event` (`SaveBegins`, `SaveRead`, `SaveInsert`),
`delete_audit_events_before` (`CleanFirst`, `CleanMax`, `CleanAnchor`, `CleanDelete`) or
`verify_audit_chain` (`VerifyHash`, `VerifyIndex`, `VerifyRows`, then `Report`), because under
READ COMMITTED each statement sees what has been committed by then. Writers hold the advisory
lock from their first statement to the commit (`Acquire`, `Release`); the verifier holds
nothing. What a transaction writes appears in its last step. A hash is the sequence of all
values that went into it, so different values have different hashes. `log` is the set of
chained rows, `anchor` the two settings, `mem` what a thread has read. Threads call the three
functions in any order, which includes the daily task, logins and the middleware. An event is
created before its thread has the lock, so entries need not be in the order of `created_at`.
`Initialize` is one round of the loop that chains older entries at start-up, before anything
else runs. `Damage` is an edit of the table from outside: one changed row, or one missing row
that is not the newest; a chain cut off at its new end looks the same as a shorter one.
On SQLite there is no advisory lock. The model does not cover it; the mutant
`AcquireNothing` shows what then happens: a second entry meets the unique index and is lost.

**Users.** The handlers under `/v1/auth` and `/v1/users`, cut between their transactions. A
request carries the user it acts for, the row it has read (`base`), the row it will write (`copy`)
and the administrators it has counted. `LoginCounts`, `LoginReads`, `LoginOpens`, `SaveUser` and
`LoginSucceeds` are one login: count of failures, comparison of the password, session, time of
the login (a save of the whole row), audit entry. `UpdateArrives`, `UpdateReads`,
`UpdateCounts`, `SaveUser` and `RevokeSessions` are the change of a user: the middleware's check,
the read, the count of administrators, the save, the deletion of the sessions. `failures` holds the
LOGIN entries that `recent_failed_logins` counts; `Ages` is the window moving on. `CutOff` is an
error of the store in one request or a crash of the process. Two flags name the code's own gaps so
that properties can say what they hold without: `unseen`, an administrator removed by a request
that had counted others than there were; `loose`, users with a session or a password from a row
read before it changed.

**Targets.** `target_systems` under its three kinds of writers. Administrators create, edit and
delete; a process that delivers reads a target and saves the same object after the connector call;
a process that starts rotates every secret and, in the API, sees to a default target.
`save_target_system` is two steps, because under READ COMMITTED the statement that clears the flag of
the others sees only what was committed when it began: `SaveSees` and `SaveCommits`. `level` is how
far the exchange of keys has come in each process, `cipher` the key each row's secret is encrypted
with. The flags are `resigned` (an administrator switched the default off himself), `stale` (a row
was overwritten or deleted that had changed since it was read) and `crossed` (a default was saved
without seeing a row made meanwhile).

**Connectors.** One target system of any of the three kinds, jobs that the queue hands to one worker at
a time, and what `deliver` does request by request: name, copy and metadata in a folder; one
multipart POST; token, then one PUT or a session with its pieces. A remote request that fails may have
been heard all the same. `Ends` is the exception path of `process`, with the class of the error, the
maximum of attempts and the delay. `torn` are jobs of which a copy was cut short, `crossed` those
that met another between the check of a name and the copy. `Pipeline` sees of all this only its
contract (`Answers`), which these actions keep: they end in a receipt, a temporary or a permanent
error, and a temporary one may hide that the target has the document.

The three are not composed with `Pipeline`: jobs read neither users nor, but for its kind and
answers, the target, and what a delivery does to a target's row does not depend on the job.

## The runs

The first five are instances of `MCPipeline`, the next three of `MCIntake`, the others of the
module of their name. Deadlock is checked for `audit` only: in the others requests, uploads, files
or jobs are finite in number, and a worker that polls an empty queue changes nothing.

| Run | Instance | Shows |
|---|---|---|
| `workers` | 2 jobs (one valid, one for quarantine), 2 workers, 1 request to retry or delete, one fault of every kind, copies archived | types, leases, deliveries and attempts under all faults |
| `office` | 1 document for quarantine, routing reference required, 2 workers, 4 requests one after the other, one fault of every kind | reviews kept, delivered is final and valid, row and file agree when requests do not overlap |
| `races` | 1 document, 2 workers, 4 overlapping requests, copies deleted on delivery, one API crash | what survives every interleaving of stale copies |
| `recovery` | 2 jobs, 1 worker, 2 requests, one worker crash, fairness | every job comes to rest, every release ends |
| `released_twice` | 1 document, 4 overlapping reviews and releases, no fault | finding: delivered again after a stale review |
| `intake` | 3 uploads of one content under 2 names, 3 jobs, a worker that archives, deletions, one error of the store and of the scanner | one job per content (refinement of `Registry`), no waiting job without its file, no file without an owner |
| `folder` | 2 files, acceptable or refused, 1 edit of the channel, a worker, deletions, one error of the store, one crash, one rewritten file, fairness | no source removed before its content is entered, the folder drains |
| `channel` | 1 file, 1 edit | finding: a channel switched off is on again |
| `audit` | 2 threads, 1 legacy entry, 2 new ones, clock to 2, one crash, one damage, fairness | one chain, no entry lost or removed early, right verdicts, damage reported |
| `users` | 2 users, 2 passwords, 2 tokens, 3 requests, 2 at a time, limit of 1 failure, one crash or error | an administrator remains, sessions are current, guesses are bounded |
| `targets` | 3 targets of 2 names, settings with and without a secret, API and 1 worker, 2 requests, all three levels of keys | one default target, deliveries leave targets alone, processes start again |
| `connectors` | each kind of target, 3 jobs of sizes 2 to 4 in pieces of 2, 2 suffixes, 2 workers, 3 attempts, 2 faults | receipts are true, one place each, waits kept, no failure without a fault |

The bounds. Two workers are needed for a takeover and no property relates three. Two jobs show
the order of the queue and interference through it. Four requests suffice for review, release,
stale save and second release; retry, release and delete in any order fit as well. Two attempts
separate the first, the last and one beyond. One fault of a kind at every possible moment
includes crash during crash recovery of another kind. Model values of workers and requests are
interchangeable and declared symmetric, except under fairness.

What the properties say, and where they stop:

- `DeliveredIsAccepted`, `DeliveredIsValid`, `DiscardOnlyAccepted`, `DeletedStaysDeleted` hold
  without restriction.
- `OneWorkerPerJob` holds until a lease lapses under a living worker, and fails in general when
  overlapping reviews and releases turn an end state back; it is checked with the requests of
  the queue, and proved without releases and, with all requests, when they do not overlap.
- `SentOncePerFault`: at most one delivery more than the faults. It needs requests that do not
  overlap (`workers`); `released_twice` shows why.
- `ReviewsAreKept` and `DeliveredIsFinal` need the same, and no lapsed lease: the history
  and the status are columns like others of a stale copy. Two overlapping reviews do lose one of
  the two entries.
- `PathIsTrue` allows for crashes and lapses, which tear the move from the save (below).
- `DeletedLeavesNoCopy` allows for a crash of the API between commit and unlinking, and does not
  speak of documents already archived.
- `AttemptsBounded`: each crash or lapse buys at most one attempt more than
  `worker_max_attempts`, because only the orderly end of an attempt asks for the maximum.

Fairness (`FairSpec`): workers poll for ever and are restarted by their supervisor; a handler or
a worker that has a job always finishes its step (calls have time limits); leases and backoffs
end because time passes. Operators need not ask for anything and faults need not happen.
Renewals are not assumed fair: a lease lapses only as a fault, so they are not needed.

For intake, three uploads are a winner, a loser and one whose winner has been deleted; two names
give one content two paths; three ids let a content come back after its deletion. Where its
properties stop:

- `WaitingHasFile` excepts a content whose earlier job was deleted: `delete_job` unlinks the path
  after its commit, and a worker may still hold the deleted job; a document of the same content
  and name that comes in between loses its file. It also excepts errors of the store, whose
  clean-up reads and unlinks in two steps.
- `NoFileUnnamed` excepts a second copy placed after the worker has taken the first away while
  the row still names the inbox path: the loser then keeps its file, and nobody removes it.
- `SourceEnteredFirst` excepts a file written again between its copy and its removal.
- `FolderDrains` excepts files that list behind a refused one, because the watcher ends its pass
  there, and the dead watcher. Names are numbered as the directory lists them.

Its fairness: an ingest that has begun ends, and the watcher goes on while it lives; both run in
the API process, which is restarted after a crash. Workers, devices and administrators owe nothing.

For the audit log, two threads are a pair of any two calls, three entries have an oldest, a
middle and a newest, and with the shortest retention at one tick an entry of time 0 expires at
time 2. `SavedIsStored` and `OnlyExpiredGo` are what the lock is for. `VerdictIsRight` says that
the loop of the verifier finds out exactly what `Intact` defines, with one exception: a retention
between the reads (below). Its fairness: calls end, waiters for the lock are served in turn (`SF` of
`SaveRead`), and the daily task verifies again and again (`SF` of `VerifyHash`).

For users, two of them are enough for two administrators who dismiss each other, two requests under
way for every race of two handlers, and the third request for what follows: a login between a save and
its revocation, a guess after the others. A limit of one failure makes the second guess the one too
many. Where its properties stop:

- `AdminRemains` excepts `unseen`: two administrators who dismiss each other at once, or a login
  whose save puts back the row of before a promotion.
- `SessionsAreCurrent` excepts `loose`: a login that compared the old password, or read the user
  before his deactivation, opens its session after the others were deleted, and its save undoes the
  change; a crash between save and revocation leaves the sessions.
- `GuessesBounded` bounds guesses by the limit and the requests under way, not by the limit alone:
  the entry of a failure is written long after the count. It is about the window since the last
  success, which clears the count.

For targets, three rows are the default, one that becomes it and one made meanwhile; one worker beside
the API gives two processes in different states of the key exchange. Where its properties stop:

- `OneDefault` excepts `crossed`: two targets made default at once do not see each other, and there are
  two from then on.
- `DefaultExists` excepts `stale` and `resigned`: a delivery that read its target before that became
  the default saves it without the flag, and none is left; a `PATCH` may simply clear the flag.
- `DeliveriesLeaveTargets` excepts deliveries whose target changed during the call: they undo the
  change, and insert a deleted target again.
- `StartsAgain` excepts a process started with keys behind those of the others, and an API that finds
  no default target but another one called `Dateisystem`, whose name is unique.

For connectors, sizes 2, 3 and 4 in pieces of 2 are the document of one request, the one with a rest,
and the multiple of the piece. Three attempts with waits of -1, 2 and 4 against a cap of 3 make the
backoff, the target's wish and the cap each the larger once. Two faults are one in each of two
attempts, or two of different jobs. Where its properties stop:

- `ReceiptIsTrue` and `OnePlaceEach` except `crossed`: two workers that check one name at once write
  over each other, and both get a receipt. Metadata are excepted between jobs whose names differ in
  the suffix alone: they share one file.
- `OnePlaceEach` lets a copy that was cut short stay beside the whole one: the next attempt takes it
  for somebody else's and picks the name with the id.
- `RetryWaits` is about the wait that the target asked for, up to a day; a manual retry is outside.

## Where documents and code part

Two statements of the documentation have runs that refute them (`released_twice`, `channel`). Three
more disagreements came up; the properties except them by name:

- A worker that dies between moving a document into quarantine (`pipeline.py:219`) and saving the
  row leaves a row whose path names no file: every later attempt fails until the job is failed, while
  its document lies in quarantine. `OPERATIONS.md`: "Ein Worker-Neustart verliert keine Jobs".
  `PathIsTrue` without its premise on crashes shows it.
- When the API process dies during a manual release (`pipeline.py:327`), the job stays in delivering:
  no worker claims it, no request applies to it. `ReleaseEnds` with an API crash in the budget shows
  it.
- A retention that commits between the verifier's reads of anchor and rows (`store.py:681`) makes it
  report an intact chain as broken. `AUDIT.md`: "Damit bleibt die Kette auch nach zulässiger Löschung
  prüfbar".

## The proofs

For any sets of jobs, workers and requests, any settings and any budget of faults:

| Theorem | States |
|---|---|
| `TypeCorrect` | `Spec => []TypeOK` of `Pipeline` |
| `NoResurrection` | `Spec => DeletedStaysDeleted` |
| `DeliveredOnlyAccepted`, `DeliveredOnlyValid`, `NoCopyDiscardedEarly` | the three delivery invariants |
| `DeletionsLeaveNothing` | `Spec => []DeletedLeavesNoCopy` |
| `WorkersExcludeEachOther` | `Spec => []OneWorkerPerJob`, if `"release" \notin Kinds` |
| `AttemptsStayBounded` | `Spec => []AttemptsBounded` |
| `SerialWorkersExcludeEachOther` | `Spec => []OneWorkerPerJob`, one request at a time |
| `DeliveredForGood`, `ReviewsKept` | `Spec => DeliveredIsFinal`, `Spec => ReviewsAreKept`, one request at a time |
| `PathsAreTrue` | `Spec => []PathIsTrue`, one request at a time |
| `SentOncePerFaultOnly` | `Spec => []SentOncePerFault`, one request at a time |
| `IntakeTypeCorrect` | `Spec => []TypeOK` of `Intake` |
| `OneJobForEachContent` | `Spec => []OnePerContent`: no two rows hold one content |
| `IngestImplementsRegistry` | `Spec => RegistryKept`: `Intake` implements `Registry` |
| `WaitingJobsHaveTheirFile`, `NoFileIsForgotten` | `Spec => []WaitingHasFile`, `Spec => []NoFileUnnamed` |
| `SourcesAreEnteredFirst` | `Spec => SourceEnteredFirst` |
| `AuditTypeCorrect` | `Spec => []TypeOK` of `AuditChain` |
| `ChainStaysIntact` | `Spec => []ChainIsIntact` |
| `SavesAreStored` | `Spec => SavedIsStored` |
| `RetentionSparesTheYoung` | `Spec => OnlyExpiredGo` |
| `UsersTypeCorrect` | `Spec => []TypeOK` of `Users` |
| `AnAdminRemains` | `Spec => []AdminRemains` |
| `SessionsStayCurrent` | `Spec => []SessionsAreCurrent` |
| `GuessesStayBounded` | `Spec => []GuessesBounded` |
| `TargetsTypeCorrect` | `Spec => []TypeOK` of `Targets` |
| `DefaultStaysOne`, `ADefaultRemains` | `Spec => []OneDefault`, `Spec => []DefaultExists` |
| `DeliveriesChangeNothing` | `Spec => DeliveriesLeaveTargets` |
| `ProcessesStartAgain` | `Spec => []StartsAgain` |
| `ConnectorsWellTyped` | `Spec => []TypeOK` of `Connectors` |
| `WaitsAreKept`, `NothingFailsByItself` | `Spec => []RetryWaits`, `Spec => []NoFailureByItself` |
| `ReceiptsAreTrue`, `DocumentsInOnePlace` | `Spec => []ReceiptIsTrue`, `Spec => []OnePlaceEach` |

*One request at a time* is `MaxOpen <= 1` with a finite set of requests; `SentOncePerFaultOnly` counts
workers and takes them to be finite too. Both are so in any installation but for the number of
requests that overlap, and there the hypothesis is needed: without any
fault, a stale review takes a delivered row back and has its document sent again (`released_twice`),
and of two overlapping reviews one is lost.
Workers, crashes, lost receipts and requests one after the other stay unlimited. All invariants of the
runs are proved but `VerdictIsRight`.

Assumed are only the types of the constants and their kinds being apart (no worker is called
`Nobody`, the watcher is no upload, the API is no worker, `NoUser` is no user and `NoTarget`
neither a target nor an id), that some contents and names exist and `Standard` is a name, and
that the bounds that count attempts, failures and days are at least one. None of the invariants is inductive as it stands, because the
danger sits in the copies that will be saved later:

- `DeliveryInv` adds to the rows that every worker and request holding a copy that says
  delivered is about to save it, with a valid document the target took; that copies on the way
  to the connector are valid; that a copy under review is a quarantined one; and that the work
  copy of a job with a row is gone only after acceptance.
- `ClaimInv` says, as long as no lease has lapsed, that a worker on a live job owns its row with
  a live lease and is alone; and that no worker is on a job someone is reviewing. The last part
  needs releases to be absent: a stale release would put a delivered job back in quarantine.
- `PathInv` says for rows and for every copy in a worker's or a request's hands that whoever holds it
  knows a document in the inbox to be there, and that only a delivered job names an archived one. A
  deletion therefore unlinks the place where the document is, or the worker that moves it meanwhile
  finds it gone.
- `SerialInv` is what one request at a time buys: the copy a request is going to save agrees with its
  row in status, reviews and path, and a worker's copy in reviews, until a lease lapses. A save
  of a whole row then overwrites nothing, which is `DeliveredIsFinal` and `ReviewsAreKept`.
- `FollowInv` says where a document is while its row does not say so: where the copy says that a worker,
  or a request about to store it, has in hand. It ends with the first fault that tears move and save.
- `AttemptInv` bounds rows and copies; a row that waits, or whose worker is dead or without its
  lease, is strictly below the bound, which pays for the claim that follows; and a copy about to
  be saved is never in processing, nor in received without an attempt left.
- `SendInv` counts who may still send: the workers without a receipt, a request that delivers or will
  put back a row it read before it changed, and a row nobody has in hand. These and the sendings so far
  never exceed one and the faults: a fault adds one of them at most, and every other step passes
  the right to send on or uses it up.

For intake, `TypedFolder` adds `FolderSound` to the types: a file the watcher still has to come to
is in the directory, because only the watcher takes files away; without it `Pick` would hand in
nothing as a content. The refinement maps the rows to the set of their contents, and each
place in `ingest` to an answer still open, given, or none. Its one hard step is the deletion,
which takes a single row: it maps to `Forget` only because `OnePerContent` says that no second row
holds the same content, which `Insert` keeps by its guard, the unique hash. `FindByHash` and
`SelectWinner` map to `Recognize` at the moment at which they find the row; every other step of an
ingest maps to a stutter or to `Fail`. Of the files, `InboxInv` says what each ingest may do to the
one at its path: it removes it only if the content's job keeps its copy elsewhere, or has been deleted, or
a call of the store has failed; and one that has placed a file and not yet asked the table finds the file
still there or the content known. `WaitingHasFile` and `NoFileUnnamed` are inductive beside it.
`SourceKept` says that the file the watcher is at holds what its ingest has read.

For the audit log, `ChainInv` is `Shape` (types; a log that is not empty has a newest row; a
thread that writes has the lock), `Current` (what that thread has read is still so: the tip it
will continue, the row it will anchor) and `ChainIsIntact`. It never counts rows: `Intact` links
each row to the one before it, so that appending one row and cutting off a lower part keep it.
`BoundaryIsOld` adds, for retention, that every row up to the boundary found has expired.

For users, `TypeOK` already says that whoever a request has found is in the table, which holds
because no user is ever deleted. `AdminRemains` alone is not inductive: nothing in it says why the
request that saves next may dismiss somebody. `AdminInv` adds `AllCareful`, that no request about to
dismiss somebody has counted him as the only administrator, and `Staffed`, that users are created
only where there are some. A save whose count is still true then leaves one of those it counted; any
other one that dismisses an administrator sets `unseen`. `SessionInv` adds `AllKeepBase` to
`SessionsAreCurrent`: the copy of a login is the row it has read, of an active user, so that its save
puts back an older password only as `loose` says. `GuessInv` counts, for each name, the wrong guesses
entered in the window and the logins that have counted and not yet entered theirs: a login joins the
second only when the first are below the limit, and there are never more than `MaxOpen` of the second.

For targets, `DefaultInv` adds to the two properties what makes the copies harmless that are still to
be saved (`AllSound`): a copy with the flag is enabled; a copy that lacks the flag of the row it was
read from is an administrator's wish; a delivery's copy is the row it has read; a row about to be
deleted was no default. The one step with work in it is `SaveCommits`: a save with the flag has cleared
every other row unless `crossed`, one without it leaves the default alone unless its own row was the
default, which then is `resigned` or `stale`. `DeliveriesChangeNothing` follows because, by `OneDefault`,
there is no other flag to clear. `KeysInv` says where the exchange of keys has come: no secret is
under the old key once every process has the new one first, none under the new key before a process
has it, and no process has given the old key up while another has only that.

For connectors, `ConnectorsInv` has four parts. `Shape` is the form of the attempts: each worker at
work has a job of its own that waits, and its stage belongs to the kind of target and to one of the
two names of the job. `Accounts` bounds attempts by the limit and the faults and says that a job nobody
works on has an attempt left and waits at least as long as the target asked for; a
job that is being worked on was asked to wait for nothing. `RemoteInv` is about the services: a
document that bears a job's name is that job's, whole, and stays. `FolderInv` is about the folder, where
workers overwrite each other: every statement lets the jobs out that crossed another (`crossed`). What is
left is that a copy goes under the name with the id only while the rendered name holds something else,
and under the rendered one only while nothing lies under the name with the id, so that a job never has
two whole copies; a partial one beside it was cut short (`torn`) or is being written. TLC checked the
parts of the invariant as invariants of the run `connectors` before they were proved.

Only model-checked, and why:

- `VerdictIsRight`: the verifier's loop is a fold over the log, so that the proof is an induction
  over data, for which no prover here instantiates the library's theorems.
- `EveryJobComesToRest`, `ReleaseEnds`, `FolderDrains` and `DamageIsReported`: liveness under fairness needs `ENABLED`,
  which the prover does not handle.
- The two runs that refute a statement are counterexamples.

## Not modelled, and the plan

Not modelled for good: OCR, text extraction and keyword matching (data), socket and file
formats of malware scan and validation, the cipher and the licence check, path templates and
multipart encoding, health checks, the console, the migrations and tools.

To come, in this order:

1. **Monitor**: the heartbeat rows of workers (a late heartbeat thread writes the row again that the
   worker removed on shutdown; an error of the store ends that thread and with it the renewals) and
   the order of a job's events, which only the process that writes them keeps.
2. **Routing**: delivery rules; a job keeps the target of an earlier rule when a review changes its
   type and no rule fits any more.
3. **Lifecycle**: the status model of `ARCHITECTURE.md` as an abstract specification that
   `Pipeline` implements where requests do not overlap, with the mapping proved step by step.
4. **Proofs**: those of the modules above; that `Connectors` keeps the contract of `Answers`, as
   a refinement.
