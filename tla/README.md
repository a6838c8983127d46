# A TLA+ verification of personal-knowledge-notebook

The repository holds two programs that meet in the product only: *P02*, a small
service that accepts jobs over HTTP and fetches public documents for them, and
the *notebook*, a local-first editor with an encrypted backup, whose core has
qualification campaigns of its own. This directory models their stateful parts
in TLA+, checks the models with TLC on small instances, and proves their safety
properties with TLAPS for every value of the constants. `PROJECT.json` lists the
runs, the source lines behind every definition, a mutation of the code for every
property, and the hazards.

    tlc -config MCJobQueueLive.cfg MCJobQueueLive   # one run; the others likewise
    tlapm JobQueueProofs.tla                        # one module of proofs

## The system

| Component | State | Operations | Interacts with |
|---|---|---|---|
| P02 API (`apps/p02-api`) | sessions, rows of `p02.jobs`, a pool of connections | `POST /v1/jobs`, `GET /v1/jobs/<id>` | PostgreSQL; its INSERT feeds the queue through a trigger |
| Job queue store (`crates/p02-store`) | `p02.jobs`, `p02.job_dispatch` | claim, load, complete, release for retry | called by the workers, shares its tables with the API |
| P02 worker (`crates/p02-worker`) | the claim in memory, one connection | `process_one` in a loop, stopped by ctrl-c | the store, the fetcher |
| Fetcher (`crates/p02-fetch`) | host map, two kinds of slots, sockets, connection tasks | `fetch` | called by the worker; DNS and servers |
| Migrations (`crates/p02-store/src/migrate.rs`) | `p02_schema_migrations`, the schema, an advisory lock | `p02-worker migrate` | PostgreSQL; makes the tables of the API and the store |
| Job contract (`crates/p02-domain`) | none | parsing, validation, status of a reason code | API, worker |
| Block domain (`apps/notebook/src/domain`) | blocks, revisions, link and backlink indexes | `decideBlockCommand`, `getBlock` | its caller, which holds the state |
| Backup (`apps/notebook/src/backup`, `ui`) | busy and ready flags, IndexedDB records, a worker per operation | create, restore, startup recovery | IndexedDB shared by all tabs, Web Workers, downloads |
| Core operations (`backup/operation-host.ts`, `notebook-core-worker.ts`; `host.ts`, `isolated-host.ts`, `fault-worker.ts` of the qualification) | a request counter, per call: a worker, its message, buffers, a deadline | canonicalize, seal, open | called by the backup and the qualification pages; call the core |
| Notebook core (`crates/notebook-core`) | none | seal, open, canonical form, validation | called by the workers |
| Qualification campaigns (`tools/qualification/notebook-core-v2`) | a tree's build output and reports, two locks, browsers, disk images | build, measure, summarize; mount, fill, detach | share a machine, and a tree, with one another |
| Notebook server (`apps/notebook/src/server`) | none | static files and headers | none |

What is hard in them:

* **Queue and workers.** Workers race for rows; leases run out under a worker
  that is merely slow; a process is stopped, or its connection drops, between
  any two statements, and even between a COMMIT and its reply. Correct means
  that the two tables agree, that at most one worker may record a result, that
  the recorded result is the last attempt's, and that every job is decided.
* **API.** A request runs two transactions on a pool that all requests share.
  Repeated and concurrent requests with one key must make one job; an answer
  must not be given before the COMMIT that makes it true; a client must not see
  another tenant's rows, though no query names the tenant.
* **Fetcher.** Fetches are dropped by a timeout wherever they wait; their
  connection tasks die some time later; the map of host semaphores is cleaned
  while others hold or wait for permits. Correct means that the numbers of open
  sockets stay bounded, and that no fetch waits for itself or for dead hosts.
* **Contract and result.** The same contract is checked by a schema in one
  program and by hand in the other; whatever a server answers, the worker must
  record a result of it, with what was exchanged.
* **Block domain.** No concurrency inside, but callers decide on what they read
  earlier, and four commands patch two indexes that a fifth relies on.
* **Backup.** A page may be closed at any step; two tabs share one store; a
  worker's answer races a timeout; each of four steps of a backup may fail.
* **Migrations.** Processes of several builds migrate one database at once, and
  any of them may be refused, fail or lose its session between two migrations,
  or between a COMMIT and its reply. Correct means that the rows say what the
  schema is, that no mixture of two builds arises, and that the lock comes back.
* **Core operations.** An answer, an error event and a deadline race to settle
  a call; every await of the page and of the worker may be the last one. Correct
  means that nothing confidential stays readable, that no worker outlives its
  call, and that the caller gets the core's verdict or a closed code.
* **Qualification campaigns.** Campaigns of one tree rebuild its output under
  one another, those of one machine share its browsers and its images; a killed
  one leaves a lock, browsers or an image behind. Correct means that a
  qualification is earned, by the build it names, measured apart from other
  performance campaigns.

## The modules

| Module | Models | Extends or uses |
|---|---|---|
| `JobLifecycle` | what a client that polls a job may see (abstract) | |
| `JobQueue` | queue tables, store operations, workers | instantiates `JobLifecycle` |
| `JobQueueLive` | `JobQueue` with counted faults (crash, lost connection, stall) and fairness | `JobQueue` |
| `JobQueueProofs` | theorems about `JobQueue` and `JobQueueLive` | `JobQueueLive` |
| `IdempotentJobs` | what the two routes promise (abstract) | |
| `JobApi` | requests, sessions, transactions, the pool | instantiates `IdempotentJobs` |
| `JobApiProofs` | theorems about `JobApi` | `JobApi` |
| `SafeFetcher` | slots, sockets, tasks, redirects, timeout | |
| `SafeFetcherProofs` | theorems about `SafeFetcher` | `SafeFetcher` |
| `JobContract` | the checks of commands and results, by the worker and by the schema (operators) | |
| `WorkerAttempt` | one attempt: command, policy, hops, body, recorded result | `JobContract` |
| `WorkerAttemptProofs` | theorems about `JobContract` and `WorkerAttempt` | `WorkerAttempt` |
| `NotebookBlocks` | block commands and stale writers | |
| `NotebookBackup` | pages, operations, workers, the IndexedDB store | |
| `NotebookProofs` | theorems about `NotebookBlocks` and `NotebookBackup` | both |
| `Migrations` | runs of the migration command over one database | |
| `MigrationsProofs` | theorems about `Migrations` | `Migrations` |
| `CoreOperations` | calls of the core on three hosts, their workers and buffers | |
| `CoreOperationsProofs` | theorems about `CoreOperations` | `CoreOperations` |
| `ResourceClass` | manifests, evidence modes, classes, verdicts (operators) | |
| `QualificationCampaign` | trees, builds, browsers, kills and checkouts | |
| `PerformanceCampaign` | class check, machine lock, measurement, summary | `QualificationCampaign`, `ResourceClass` |
| `StorageCampaign` | tree lock, disk images, clean-up | `QualificationCampaign` |
| `Qualification` | the campaigns of a machine together | both campaigns |
| `QualificationProofs` | theorems about `Qualification` | `Qualification` |
| `MC*` | instances for TLC | the module of that name |

Definitions named as mutants (a comment `Mutant:` precedes them) are plausible
bugs. No specification uses them; they show that each property would fail if the
code had that bug.

### JobQueue

`jobs` and `dispatch` are the two tables, with the columns the queue reads;
`pc`, `claim`, `outcome` and `due` are what a worker holds in memory. Each store
operation is one transaction in two steps: the statement that finds and locks
the dispatch row (`ClaimNext`, `Load`, `Record`), and the COMMIT that makes its
effects visible (`ClaimCommit`, `LoadCommit`, `CompleteCommit`,
`ReleaseCommit`). `FOR UPDATE SKIP LOCKED` is `IsNext`, the predicate
`LEASE_HELD` is `LeaseHeld`. `LeaseLost` is the error of the same name.
`Disconnect`, `StoreError`, `Stop` and `Start` are the faults: an open
transaction is rolled back and the lock goes with it. A COMMIT whose reply is
lost is the COMMIT step followed by `Disconnect` or `Stop`. `Enqueue` is the
API's INSERT with the trigger `dispatch_new_job`; as `available_at` is the time
its transaction began, insertion and COMMIT are one step.

`JobQueueLive` is the same next-state relation with its faults counted: `Halt`
(a worker stops), `Cut` (it loses its connection) and `Stall` (time passes while
it holds a lease that is about to end).

The fetch is an outcome chosen among the three terminal statuses. A job of
`Malformed` has a command the worker refuses without a fetch. `Tick` moves the
clock as long as some timestamp is not yet in the past; beyond that no
comparison would change. `RetryDelay` is the doubling of `retry_delay` with its
cap, at which a product beyond it ends whether or not it saturates.

### JobApi

`Send` gives a request its question. `LookUp` and `LookedUp` are the
transaction of `authenticate`, `Begin`, `Insert`, `SelectExisting`, `SelectJob`
and `Commit` the second one. `InTransaction` are the states that hold a
connection. Row-level security is `Visible`. `Insert` waits for another open
transaction with the same key, as the unique index makes it wait, and does
nothing when the key is committed. `CommitUnheard` is a COMMIT whose reply is
lost; the client is answered 503 for a job that exists. `Reject` merges the
statuses 400, 413 and 422. Job ids are named by the request that drew
them. Requests that reach no handler, or bring no token, touch no state and are
left out.

### SafeFetcher

A connection is a pair of a fetch and a hop. `HostPermit` is `host_permit`: it
cleans the map of hosts, gets or makes the semaphore of the host and queues on
it; `HostSlot` and `GlobalSlot` are the two acquisitions, `Dial` and `Send` the
connection and the task that drives it. `DropHop` is what dropping a hop does:
its own objects go at once, the task is only marked, and `Close` and `Free` are
the runtime dropping the socket and, after it, the slots. `Fail` is any error,
refusal or the total timeout, wherever the fetch waits. A semaphore has an
identity so that a map entry made anew is told from the old one.

The destination policy is a verdict attached to each target, and what a
response contains is left out: both are in `WorkerAttempt`.

### JobContract and WorkerAttempt

`JobContract` is pure. `CheckUrl` scans a text as `check_url` does; `SchemaUrl`
says that some way to cut it matches the pattern of the schema. Texts are
sequences of classes of characters, header values a size and a kind.
`ValidCommand` and `ValidResult` are the worker's validation, `SchemaCommand`
and `SchemaResult` the schema's conditions. They differ on a JSON null where an
optional field may stand, which only the schema refuses.

`WorkerAttempt` follows one job through one attempt. `Enqueue` is the API's
verdict, `Load` the claim and the worker's, `Start` the policy on the first URL,
`FollowRedirect`, `RefuseRedirect`, `Answered` and `RefuseBody` what becomes of
a response, `ReadFrame` and `EndBody` the counting of a body, `Settle` and
`Finish` the result. `Refusal` has the order of `check_parsed`. `Civil` is the
arithmetic of `rfc3339`. The parser of URLs is external: it may make anything
of a text but another scheme, credentials the contract has excluded, or a
fragment that is not there.

### NotebookBlocks

`blocks`, `linkIndex` and `backlinksIndex` are `NotebookState`; one action per
command of `decideBlockCommand`, each with the command's guards in order.
Writers read a block (`Read`) and submit a command with the revision they read,
at any later time. Lists of links are sets: nothing depends on their order.

### NotebookBackup

One operation per page, its `stage` naming the promise it waits for. `Refuse`
is a refusal at that stage, including the discard a staged restore goes through
first. The records are `recorded` (the envelopes `encrypted-backup:latest` has
held), `staging` (the life of each `pending:` record) and `receipt`. A
transaction commits or aborts as a whole. `Close` is a page closed, reloaded or
lost at any step, with its worker; a transaction that committed before the page
saw it is `Close` right after the step. `WorkerFails` is an error, or the
timeout, which may beat an answer already posted. `plain` says who holds the
plaintext. The bytes of envelopes and codes are left out: whether a code opens
an envelope is the worker's answer. The feature gate is taken to be open.

### Migrations

A run is one process of `p02-worker migrate`, with the migrations its build
embeds; a relaunch is another run. `Lock` to `Unlock` are the statements of
`migrate` and `apply_all`: the rows are read and verified once, then each
pending migration is a transaction (`Execute`, `Commit`) of its SQL and its row.
`schema` is the SQL that has taken effect, in its order, which nothing in the
program reads: the properties compare it with `recorded`. `SqlFails` is any
statement that fails, `Lose` a session that is lost; PostgreSQL may still commit
what was sent (`CommitUnheard`) before it ends the session (`EndSession`), and
only then drops the lock.

`migrate.rs:8` says that a binary never runs against a schema it did not ship.
`OutcomeIsTrue` shows it of `migrate`; `p02-worker run` does not look at the
recorded migrations, and nothing is claimed of it.

### CoreOperations

One call of the core per element of `Calls`, on one of three hosts: the
product's (`NotebookBackupHost`), the qualification's isolated host with its
injected faults, and its direct host. `Post` is everything a call does up to
its message, and `NotOwned`, `NoMaterial`, `NoWorker`, `NotPosted` are the ways
it ends before. The worker's turns are `Decode`, `Load`, `Compute`, `Summarize`
and their failures; an answer and the wiping of what the worker holds are one
turn, as they are in the code. `Timeout` and `Receive` race to call `Finish`.
`page` and `inside` say which bytes the page and the worker can still read:
posting a message moves them. `trouble` records that something beside the
core's verdict has happened to the call. The core is external: a verdict on a
valid or invalid request. Numbers wrap around at `MaxRequestId`.

The direct host's core may trap or run out of memory (`TrapDirectly`).

`NothingLeftBehind` has two exceptions, which the code has and `Unwiped` names.
`sealFreshOwned` (host.ts:152-178) draws its material before the block that wipes
the plaintext, so a plaintext stays when the random source throws; the product's
host wipes it. And `runIsolatedOperation` drops an answer it cannot decode as it
is (isolated-host.ts:101-114), where the product's host wipes the plaintext and
the envelope in it first (operation-host.ts:286-301): `Dropped` is the
difference. The qualification's README promises the wiping of "host-owned"
buffers; its worker posts lengths and digests only, so that an output can be in
an answer only if the worker is not the one of the repository.

### The qualification campaigns

`ResourceClass` translates `resource-class.ts`: which manifests are accepted,
which classes and evidence modes a machine may be measured for, what a matrix of
reports is worth. `QualificationCampaign` has what the campaigns share: a build
clears the tree's output and writes core, harness and manifest into it, before
either campaign takes its lock, so builds of one tree interleave; `Kill` leaves
everything as it is, browsers included. In `PerformanceCampaign`, `TakeLock`,
`CountBrowsers` and `Teardown` are the global setup and teardown, `Open` to
`WriteReport` the test of one browser, `ReadReport` and `Publish` the summary.
In `StorageCampaign`, `AcquireLock` to `EmptyRuntime` prepare the runtime
directory, `MakeRoot` to `Unmount` are the test of one browser, `CleanUp` and
`Release` the teardown; a detach may fail for any image. Timings, memory sizes
and the checks of the page are the outcome of a step. `Qualification` puts the
campaigns of a machine together, with an operator.

Three things limit what the properties say.

*The commit of a tree.* The report takes `HEAD` and the manifest at the end of
the measurement (performance.playwright.ts:474) and would not notice that they
have changed; the device protocol asks the operator to keep the commit, and no
code does. A plan says whether its tree is left `undisturbed`; where it is not,
`Checkout` may change the commit under the running campaign, and the history
variable `moved` remembers the tree. `SummaryNamesItsBuild` is claimed of the
other trees only. `QualifiedIsEarned` is claimed of all.

*The exclusive cache.* The reports call the browser cache
"exclusive-pinned-browser-cache" (performance.playwright.ts:506), and the
qualification's README (line 18) speaks of a "cross-worktree exclusive lock". The
lock gives less: storage and fault campaigns launch browsers of the same cache
without it, the setup counts those that run when it begins and not those that
start later, and the sampler (performance.playwright.ts:586-591) sums up all of
them. The run with one
performance and one storage campaign reaches such a measurement.
`MeasuredApart` therefore speaks of performance campaigns only: no two of them
measure at once, nor one beside the browsers of another. The stronger reading is
not a property of this code.

*The locks.* The operator removes a lock only when its owner has ended, a storage
lock only when the images are detached, as the refusal says. A performance lock
stays behind a campaign that is killed, and, in `LeaveLock`, behind one whose
setup or teardown cannot remove it or whose teardown cannot read the process
table: `ps` runs first and outside any `try` (performance.global-setup.ts:50).
Such a campaign ends `abandoned`, and `LockIsReleased` says that these are the
only ones. That `hdiutil` shows the images of all trees makes a storage campaign
keep its lock for another tree's image; the operator's removal then applies.

`SameEvidence` leaves out the digest of the resource manifest, which the summary
compares too (summarize-performance.ts:49-50): the manifest is part of the
setting, and the same for all reports.

## The runs

| Run | Instance | Checks |
|---|---|---|
| `job_queue` | 2 workers with one `worker_id`, 2 jobs, one malformed; lease 2, `max_claims` 2, CHECK 4, 2 faults | tables agree; fencing; claims are spent on attempts and faults only; implements `JobLifecycle`; every job is decided |
| `job_queue_blocked` | the same without counted faults, lease 1, CHECK at 2 | *violated*: a ready job can be claimed |
| `job_api` | 2 requests, 2 tenants with a session each, 1 key, 2 operations, pool of 2 | nothing answered is unknown later; implements `IdempotentJobs`; every request is answered |
| `fetcher` | 2 fetches, 2 hosts of which one is silent, 1 redirect, 1 slot per host, 2 in all | types; sockets bounded; the map is that of hosts in flight; a host that answers is served |
| `worker_attempt` | all texts of up to 3 characters of an authority and 3 after it, 1 redirect, bodies of up to 3 bytes (a feed 2), `max_claims` 2, the days around the ends of February, years and centuries | types; results are of the contract; accepted commands run; exchanges are recorded; bodies bounded; dates right |
| `notebook_blocks` | 3 blocks, 2 contents, 2 writers, 2 revisions | indexes mirror links; no dangling link; no content replaced unread |
| `notebook_links` | 2 blocks, 1 content | *violated*: a link is replaced or dropped only by a writer that had read it |
| `backup` | 2 pages, 2 backups, 2 restores | a shown code has its backup; recovered staging stays gone; plaintext confined; receipts replace staging; operations end |
| `backup_two_tabs` | the same | *violated*: a startup recovery removes interrupted restores only |
| `migrations` | 4 runs: 2 of one build, 1 of its successor, 1 of a build with another second migration | what is recorded is the schema; outcomes are true and no two runs make each other fail; no mixture; every run ends |
| `core_operations` | 2 calls of any request, numbers 1 and 2 | nothing confidential left; a worker per pending call; the verdict reaches the caller; every call settles |
| `qualification` | 2 campaigns in 1 tree or 2, 2 browsers, 2 commits; 8 settings: two evidence modes in one tree, two trees, a virtual machine, a manifest that is refused, storage campaigns in one tree and in two, one of each, and one campaign whose tree's commit changes under it | types; no performance campaign measures beside another's browsers; qualifications earned; summaries of trees that stayed name their build; images guarded by their lock; the machine's lock released, but for kills and failures of the removal itself |

The type invariants of `JobQueue`, `NotebookBlocks`, `JobApi`, `NotebookBackup`
(`BackupTypeOK`), `Migrations` and `CoreOperations` are not in a run: they are
proved for every instance, and the same proofs rest on them. Likewise
`RunningIsLeased`, `ResultOfLastAttempt`, `AttemptsNeverRewind`,
`RevisionsRetained`, `AcceptedIsStored`, `OnlyOwnJobsShown`, `VerdictIsGiven` and
`OwnLockAtTeardown` are theorems that no run repeats; of the queue's and the
API's, the refinement that the runs check says as much.

**Findings.** The three violated statements are each quoted in `PROJECT.json`.
At the CHECK of 100 on `claims` the claim statement of the first row fails for
everyone, and later ready jobs are not reached. Linking leaves a block's
revision number as it is, so an edit decided earlier drops the link unseen. The
startup recovery of a second tab deletes the staging of a restore still running
in the first, whose commit then fails. A job can come to the CHECK because
`max_claims` is compared only after a fetch that failed: a claim whose worker
dies is not bounded by it, as `ClaimsAccounted` says exactly.

**Bounds.** Two workers are enough for a claim to be taken over and for its old
holder to come back; two jobs for the order of claiming; `max_claims` 2 gives
one retry, and two faults are one that takes a claim and one that takes its
successor, or one of each kind. Two requests are one that inserts with one that
waits for it, that reads it, or that is another tenant's; both may be in any
transaction, as the pool has two connections. One
redirect makes a hop that must let go of its slots; two fetches, with the
connections of their first hops still closing, are four connections on one slot
per host and two in all, so that both kinds of queue form. Six characters are
enough for a bracketed literal with a port and a path, and for each way a text
can fail in one place; bodies of three bytes in frames of one or two pass the
bound in the frame, in what it decodes to and at the end. Two revisions give a
stale writer, three blocks a chain of links. Two pages are the one that works
and the one that recovers. Four runs are a build's own race, its successor before or after
it, and a stranger, with three migrations at most. Two calls are enough for
answers to be of another's number, as the numbers wrap around after two. Two
browsers give a campaign a next one, two campaigns every pair of kinds, of trees
and of modes. A commit changes at most once under the campaigns of a tree, as
nothing more is said of that tree's evidence afterwards, and in one setting with
a single campaign that comes to build. `MaxRevision`, `ClaimsBound` (of the
CHECK), `MaxFaults`, `MaxRedirects`, `MaxFrame` and `MaxRequestId` are the only bounds on counters
and sizes.

**Symmetry and views.** Symmetry is used in runs without liveness, over
workers, or writers and blocks, which no definition tells apart; jobs are
ranked, so those are not permuted. `MCView` measures timestamps from now and
keeps only the order of those in the past: two states with one view enable the
same steps, and these lead to states with one view.

**Deadlock.** `CHECK_DEADLOCK FALSE` stands where the system may really stop:
all jobs decided and all workers stopped, all requests answered, all fetches
over, the attempt at its end, all runs, calls or campaigns over. The other runs check for deadlock.

## Fairness

* `JobQueueLive`: a worker that can act does, a stopped one is relaunched, and
  time passes as long as it makes no running worker late. Stops, late workers
  and lost connections are faults, at most `MaxFaults`. This is what the 60 s
  lease over the 20 s bound of a fetch is for. A worker that has lost its
  connection neither reconnects nor exits, and nothing is assumed to bring it
  back; every job is decided as long as one worker keeps its connection, or is
  stopped and gets one when it is relaunched.
* `JobApi`: weak fairness of each request's handler. None for failures, lost
  replies or sessions ending: the answer does not depend on them.
* `SafeFetcher`: weak fairness of taking a slot that is free, of exchanges with
  hosts that answer, and of the runtime dropping aborted tasks. None for a
  timeout of a fetch that waits for its slots: it must be served without. Dead
  hosts must be too few to fill all global slots, as one is here.
* `NotebookBackup`: weak fairness of each page's pending promise. Transactions
  and opens have a 10 s deadline, a worker 30 s. A worker need not answer.
  Reading the chosen file, before a restore starts, has no deadline in the code
  and is not part of the operation.
* `Migrations`: weak fairness of each run's next statement, and of PostgreSQL
  noticing a lost session. Each run takes the lock once, so weak fairness of
  taking it is enough. None for failures.
* `CoreOperations`: timers fire and consumers return. Nothing is assumed of a
  worker: it may never load, hang in the core or die silently.
* `Qualification`: a campaign that has been launched runs. Nobody has to launch
  one, end its browsers, or remove a lock, and one that was killed or abandoned
  does nothing more.

## What is proved

Each proof module proves `Spec => []IInv` from `Init => IInv` and
`IInv /\ [Next]_vars => IInv'`, one lemma per action, and derives the
properties. The assumptions are the named `ASSUME`s of the modules only; TLC
evaluates them in every run.

* `JobQueueProofs`: types, `DispatchIffOpen`, `OneLeaseHolder`,
  `ResultOfLastAttempt`, `RunningIsLeased`, `AttemptsNeverRewind`, and
  `Refinement`, that the queue implements `JobLifecycle`; and of `JobQueueLive`,
  `ClaimsAccounted`, for any faults. The properties are not inductive: what
  makes them so is that claims in memory are numbered below the row's, no two
  alike (`ClaimNumbers`); that a row lock has one owner, whose
  token the row still carries (`LockShape`); and that the holder of the token
  has its own attempt on the job row (`HolderSeesAttempt`). Claims are
  accounted for by where the last one is: `LostToFaults` puts a fault behind
  every claim beyond `MaxClaims` that no connected worker holds any more.
* `NotebookProofs`: of the block domain, types, `IndexesMirrorLinks`,
  `NoDanglingLink`, `ContentWasRead`, `RevisionsRetained`. Added: drawn ids are
  new (`DrawnIds`), histories have no gap (`HistoryShape`), and a view is a past
  state of its block (`ViewsArePast`). Of the backup, types,
  `PublishedCodeHasItsBackup`, `ReadyPageIsClean`, `PlaintextConfined`,
  `ReceiptReplacesStaging`. Added: an operation runs in a ready page on an
  identifier of its kind (`RunningFits`), a backup has passed the earlier steps
  (`BackupSteps`), and a restore about to be staged is drawn by its page alone
  (`StagingSteps`).
* `JobApiProofs`: types, `AcceptedIsStored`, `OnlyOwnJobsShown`,
  `NoAnsweredJobUnknown` and the refinement `ImplementsPromise`. Added: a
  handler's state suits its request (`HandlerShape`), an inserted row that is not
  committed has its key to itself (`InsertHoldsKey`), the row that made an
  insert a duplicate stays (`DuplicateIsStored`), and what an open transaction
  has decided still holds when it commits (`DecisionStands`).

* `MigrationsProofs`: types, `SchemaIsRecorded`, `OutcomeIsTrue`,
  `NoMixedSchema`, for any number of runs and builds. The properties need what
  the holder of the lock knows (`HolderKnows`): the rows it has read, with those
  it has added, are what is recorded, all of its own build, and all below the
  version it has come to are there; and what its outcome says while it is about
  to unlock (`ReportHolds`).
* `CoreOperationsProofs`: types, `NothingLeftBehind`, `WorkerPerOperation`,
  `ResultIsVerdict`, for any number of calls. The invariant is a conjunction
  over the calls (`Sound`): where its bytes are at each place of the worker, and
  what a message on its way may say of the request it answers (`SoundMail`).
* `SafeFetcherProofs`: types, `SocketsBounded`, `MapOfHostsInFlight`, for any
  fetches, hosts and limits. What is bounded is the permits of each semaphore
  (`PermitsBounded`), counted with the library's theorems on finite sets; that
  bounds a host because every connection in use refers to the semaphore the map
  has for its host (`SlotShape`), also after the map has been cleaned, and
  because a hop starts on a connection nobody uses (`FreshShape`).
* `WorkerAttemptProofs`: types, `RecordedIsContract`, `AcceptedCommandRuns`,
  `ExchangeIsRecorded`, `HeldWithinBound`, `DatedRight`. First results about the
  operators: `UrlChecksAgree`, that the worker's scanner and the schema's pattern
  accept the same URLs of any length, because neither leaves a choice where the
  authority ends (TLC compares them on short texts only); `CivilIsDate`, that the
  date arithmetic stays in the contract's calendar to the end of 9999; and
  `CivilIsDayAfterDay`, that the date it gives a day has that many days before
  it, though the code counts eras of 400 years that begin in March and
  `DaysBefore` counts the leap years and the days of the months. The counts are
  cardinalities of sets, and the leap years before a year are found by induction
  (`LeapYearsCounted`). The library's theorem for that takes an operator, so
  `NatSetInduction` states induction for a set of numbers, from the least element
  of those outside it. Added for the attempt: what it carries at each stage
  (`FetchShape`), and that a result says what the fetch came to (`ResultShape`).
* `QualificationProofs`: types, `MeasuredApart`, `QualifiedIsEarned`,
  `SummaryNamesItsBuild`, `VolumeIsGuarded`, for any campaigns, trees, browsers
  and manifests, left undisturbed or not; and three properties no run repeats,
  that a summary is never refused a verdict (`VerdictIsGiven`), that a teardown
  finds its own lock (`OwnLockAtTeardown`), and the safety half of
  `LockIsReleased`, that a performance lock left by a campaign that has ended is
  that of a killed or abandoned one (`LeftLocksAreExplained`). The invariant has
  three parts. `MeasurementPart`: a campaign at a place that needs the machine's
  lock has it (`LockIsHeld`), which with the count of browsers at its setup keeps
  the other performance campaigns' browsers away; and a lock has an owner that
  uses it or has left it (`LockIsOwned`). `EvidencePart`: as long as a tree's
  commit stays, every output in it is of that commit (`BuildIsOfHead`), whoever
  wrote it last, and every report names what was measured (`ReportsAreNamed`);
  the host of a campaign past its class check was admitted for that class
  (`HostIsAdmitted`); whether the tree moved or not, a report says no more than
  the machine may be measured for (`ReportsAreHonest`), and what a summary has
  read is one such report per browser (`ReadSoFar`). The summary reads files that
  another campaign may rewrite between two reads, so nothing less than a fact about every file a tree can hold is inductive.
  `StoragePart`: where a campaign is between mount and detach says what of its
  image, its root and its lock there is (`StorageSteps`).

Only model-checked: liveness, which this prover cannot treat: `EventuallyFinal`,
`Answered`, `OperationsEnd`, `ServedDespiteDeadHosts`, `EveryRunEnds`,
`EveryCallSettles` and `LockIsReleased`. Every other property of a passing run
is a theorem. `RetryDelay` is proved to be a natural number, no more: its
exponentiation is outside the provers' arithmetic.

## What is not modelled

* The address ranges of the destination policy, the decoders, the parser of
  URLs and DNS: their verdicts are choices in `SafeFetcher` and `WorkerAttempt`.
* Of the contract, the identifiers, the key, the digest and the time of day:
  their patterns are simple and stated alike twice.
* The validation and canonical form of notebook documents: pure functions over
  texts, whose definitions would be as long as the code. The cryptography is
  out of reach.
* The notebook server and the worker's configuration: they read files or the
  environment once and change no state. The product build, the repository
  checks and vendored code: one-shot programs, or not the project's own. Of the
  qualification, the browser and fault tests are scripts without state; the
  operations they call are in `CoreOperations`.
* Physical time: only the order of timestamps. Loss of PostgreSQL's data.

Three hazards have no property. The new envelope of a backup replaces the stored
one before its download and its code (controller.ts:47): nothing reads the
stored one back yet. A page may be lost after the consumer took the plaintext
and before the receipt (controller.ts:64): the only consumer keeps nothing yet.
And a checkout between a measurement and its report (performance.playwright.ts:474)
makes a summary name another commit, as the code allows: `SummaryNamesItsBuild`
says nothing of a tree where that has happened.

## Plan

1. *Done*: the queue and its workers with the life cycle they implement, the
   block domain, the API, the fetcher, the backup, the contract and the data of
   one attempt, the migrations, the operations of the core with their workers,
   and the qualification campaigns; and a proof of every safety property that a
   passing run checks.
2. `NotebookDocument`: the validation and canonical form of the notebook core
   as operators, checked against a reference definition over small documents.
3. A composition of `JobApi` and `JobQueue` over one `p02.jobs`, to show that
   what a client polls across both is one life cycle per key.
