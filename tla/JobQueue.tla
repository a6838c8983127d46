------------------------------- MODULE JobQueue -------------------------------
(***************************************************************************)
(* The P02 job queue: the tables p02.jobs and p02.job_dispatch, the store  *)
(* operations of crates/p02-store/src/queue.rs and the workers that call   *)
(* them (process_one in crates/p02-worker/src/lib.rs).                     *)
(*                                                                         *)
(* Every store operation is one PostgreSQL transaction and takes two       *)
(* steps here: the statement that checks the dispatch row and locks it,    *)
(* and the COMMIT that publishes the effects and drops the lock.  Between  *)
(* the two other workers run, time passes, the process may die and the     *)
(* connection may drop.  A COMMIT whose reply is lost is the COMMIT step   *)
(* followed by Disconnect or Stop.                                         *)
(***************************************************************************)
EXTENDS Integers

CONSTANTS
  Jobs,         (* Job identifiers.                                        *)
  Malformed,    (* Jobs whose stored command the worker's parser rejects.  *)
  Workers,      (* Worker processes.                                       *)
  WorkerId,     (* worker_id of each worker; several may share one.        *)
  Rank,         (* Position of a job in the order (tenant_id, job_id).     *)
  NoJob,        (* "No job", for a worker that holds no claim.             *)
  NoToken,      (* SQL NULL in job_dispatch.lease_token.                   *)
  Lease,        (* WorkerSettings.lease, in clock ticks.                   *)
  RetryBase,    (* WorkerSettings.retry_base.                              *)
  RetryCap,     (* The "one hour" of retry_delay.                          *)
  MaxClaims,    (* WorkerSettings.max_claims.                              *)
  ClaimsBound   (* The 100 of the CHECK dispatch_claims_bounded.           *)

ASSUME JobQueueAssumption ==
  /\ Malformed \subseteq Jobs
  /\ NoJob \notin Jobs
  /\ NoToken \notin [worker : {WorkerId[w] : w \in Workers}, claim : 1 .. ClaimsBound]
  /\ Rank \in [Jobs -> Nat]
  /\ \A i, j \in Jobs : Rank[i] = Rank[j] => i = j
  /\ Lease \in Nat \ {0}
  /\ RetryBase \in Nat
  /\ RetryCap \in Nat
  /\ MaxClaims \in Nat \ {0}
  /\ ClaimsBound \in Nat \ {0}

VARIABLES
  now,          (* clock_timestamp().                                      *)
  jobs,         (* p02.jobs: state, attempts and result of each row.       *)
  dispatch,     (* p02.job_dispatch: the row of each job, if listed.       *)
  pc,           (* What each worker does next.                             *)
  claim,        (* The Claim each worker holds in memory.                  *)
  outcome,      (* Status the worker's attempt came to.                    *)
  due,          (* Timestamp its open transaction is about to write.       *)
  connected     (* Whether its one database connection is alive.           *)

vars == <<now, jobs, dispatch, pc, claim, outcome, due, connected>>

-----------------------------------------------------------------------------
(* Rows and values.                                                        *)

Terminal == {"succeeded", "refused", "failed"}

Token == [worker : {WorkerId[w] : w \in Workers}, claim : 1 .. ClaimsBound]

\* An attempt's result document: its status, and the attempt it reports.
Result == [status : Terminal \cup {"none"}, token : Token \cup {NoToken}]
NoResult == [status |-> "none", token |-> NoToken]

JobRow == [state    : {"absent", "queued", "running"} \cup Terminal,
           attempts : 0 .. ClaimsBound,
           result   : Result]
NoJobRow == [state |-> "absent", attempts |-> 0, result |-> NoResult]

DispatchRow == [listed      : BOOLEAN,
                availableAt : Nat,
                claims      : 0 .. ClaimsBound,
                token       : Token \cup {NoToken},
                expiresAt   : Nat]
NoDispatchRow == [listed |-> FALSE, availableAt |-> 0, claims |-> 0,
                  token |-> NoToken, expiresAt |-> 0]

Claim == [job : Jobs \cup {NoJob}, token : Token \cup {NoToken}]
NoClaim == [job |-> NoJob, token |-> NoToken]

\* A worker in one of these has a transaction open and holds the lock of
\* the dispatch row of its job.
InTransaction == {"claiming", "loading", "recording"}

Locked(j) == \E w \in Workers : claim[w].job = j /\ pc[w] \in InTransaction

Open(j) == jobs[j].state \in {"queued", "running"}

\* Mutant: claim passes over rows whose lease has expired.
ExpiredNever(j) == dispatch[j].token = NoToken

Expired(j) == dispatch[j].token = NoToken \/ dispatch[j].expiresAt <= now

Ready(j) == dispatch[j].listed /\ dispatch[j].availableAt <= now /\ Expired(j)

\* ORDER BY available_at, tenant_id, job_id.
Before(i, j) ==
  \/ dispatch[i].availableAt < dispatch[j].availableAt
  \/ dispatch[i].availableAt = dispatch[j].availableAt /\ Rank[i] < Rank[j]

\* The row FOR UPDATE SKIP LOCKED LIMIT 1 selects.
IsNext(j) ==
  /\ Ready(j) /\ ~Locked(j)
  /\ \A i \in Jobs \ {j} : Ready(i) /\ ~Locked(i) => Before(j, i)

\* Mutant: LEASE_HELD does not compare the token.
LeaseHeldByAnyone(w) ==
  LET row == dispatch[claim[w].job]
  IN  row.listed /\ row.token # NoToken /\ row.expiresAt > now

\* The SQL predicate LEASE_HELD for the claim of worker w.
LeaseHeld(w) ==
  LET row == dispatch[claim[w].job]
  IN  row.listed /\ row.token = claim[w].token /\ row.expiresAt > now

RetryDelay(n) ==
  LET doubled == RetryBase * 2^(IF n > 17 THEN 16 ELSE n - 1)
  IN  IF doubled \in 0 .. RetryCap THEN doubled ELSE RetryCap

-----------------------------------------------------------------------------
Init ==
  /\ now = 0
  /\ jobs = [j \in Jobs |-> NoJobRow]
  /\ dispatch = [j \in Jobs |-> NoDispatchRow]
  /\ pc = [w \in Workers |-> "idle"]
  /\ claim = [w \in Workers |-> NoClaim]
  /\ outcome = [w \in Workers |-> "none"]
  /\ due = [w \in Workers |-> 0]
  /\ connected = [w \in Workers |-> TRUE]

\* The API's committed INSERT and the trigger dispatch_new_job with it.
Enqueue(j) ==
  /\ jobs[j].state = "absent"
  /\ jobs' = [jobs EXCEPT ![j] = [state |-> "queued", attempts |-> 0, result |-> NoResult]]
  /\ dispatch' = [dispatch EXCEPT ![j] = [listed |-> TRUE, availableAt |-> now, claims |-> 0,
                                          token |-> NoToken, expiresAt |-> 0]]
  /\ UNCHANGED <<now, pc, claim, outcome, due, connected>>

\* Back to the loop of main.rs; whatever transaction was open is rolled back.
Rest(w, next) ==
  /\ pc' = [pc EXCEPT ![w] = next]
  /\ claim' = [claim EXCEPT ![w] = NoClaim]
  /\ outcome' = [outcome EXCEPT ![w] = "none"]
  /\ due' = [due EXCEPT ![w] = 0]

(***************************************************************************)
(* claim: the UPDATE of the next ready row.  A row whose claims stand at   *)
(* the bound fails the CHECK: the statement errs, nothing changes, and the *)
(* worker backs off to try the same row again.                             *)
(***************************************************************************)
ClaimNext(w, j) ==
  /\ pc[w] = "idle" /\ connected[w]
  /\ IsNext(j)
  /\ dispatch[j].claims < ClaimsBound
  /\ pc' = [pc EXCEPT ![w] = "claiming"]
  /\ claim' = [claim EXCEPT ![w] =
       [job |-> j, token |-> [worker |-> WorkerId[w], claim |-> dispatch[j].claims + 1]]]
  /\ due' = [due EXCEPT ![w] = now + Lease]
  /\ UNCHANGED <<now, jobs, dispatch, outcome, connected>>

ClaimCommit(w) ==
  /\ pc[w] = "claiming"
  /\ dispatch' = [dispatch EXCEPT ![claim[w].job] =
       [@ EXCEPT !.claims = claim[w].token.claim, !.token = claim[w].token, !.expiresAt = due[w]]]
  /\ pc' = [pc EXCEPT ![w] = "claimed"]
  /\ due' = [due EXCEPT ![w] = 0]
  /\ UNCHANGED <<now, jobs, claim, outcome, connected>>

\* load_command: SELECT ... FOR UPDATE under LEASE_HELD ...
Load(w) ==
  /\ pc[w] = "claimed" /\ connected[w]
  /\ ~Locked(claim[w].job)
  /\ LeaseHeld(w)
  /\ pc' = [pc EXCEPT ![w] = "loading"]
  /\ UNCHANGED <<now, jobs, dispatch, claim, outcome, due, connected>>

\* ... then the job row, read and marked running, and command_for: a command
\* outside the contract is refused without a fetch.
LoadCommit(w) ==
  LET j == claim[w].job
  IN  /\ pc[w] = "loading"
      /\ Open(j)
      /\ jobs' = [jobs EXCEPT ![j] =
           [@ EXCEPT !.state = "running", !.attempts = claim[w].token.claim]]
      /\ pc' = [pc EXCEPT ![w] = IF j \in Malformed THEN "fetched" ELSE "fetching"]
      /\ outcome' = [outcome EXCEPT ![w] = IF j \in Malformed THEN "refused" ELSE "none"]
      /\ UNCHANGED <<now, dispatch, claim, due, connected>>

(***************************************************************************)
(* The fetch ends.  "succeeded" is an outcome the contract can record,     *)
(* "refused" a policy code or an outcome result.validate() rejects,        *)
(* "failed" a transient code (ReasonCode::status).                         *)
(***************************************************************************)
FetchEnds(w) ==
  /\ pc[w] = "fetching"
  /\ \E status \in Terminal : outcome' = [outcome EXCEPT ![w] = status]
  /\ pc' = [pc EXCEPT ![w] = "fetched"]
  /\ UNCHANGED <<now, jobs, dispatch, claim, due, connected>>

\* Mutant: one retry too many.
RetriesOnceMore(w) == outcome[w] = "failed" /\ claim[w].token.claim <= MaxClaims

Retries(w) == outcome[w] = "failed" /\ claim[w].token.claim < MaxClaims

\* First statement of complete or of release_for_retry, under LEASE_HELD.
Record(w) ==
  /\ pc[w] = "fetched" /\ connected[w]
  /\ ~Locked(claim[w].job)
  /\ LeaseHeld(w)
  /\ pc' = [pc EXCEPT ![w] = "recording"]
  /\ due' = [due EXCEPT ![w] =
               IF Retries(w) THEN now + RetryDelay(claim[w].token.claim) ELSE 0]
  /\ UNCHANGED <<now, jobs, dispatch, claim, outcome, connected>>

\* Mutant: the dispatch row of a finished job stays.
CompleteCommitKeepsDispatch(w) ==
  LET j == claim[w].job
  IN  /\ pc[w] = "recording" /\ ~Retries(w)
      /\ jobs' = [jobs EXCEPT ![j] =
           [@ EXCEPT !.state = outcome[w],
                     !.result = [status |-> outcome[w], token |-> claim[w].token]]]
      /\ Rest(w, "idle")
      /\ UNCHANGED <<now, dispatch, connected>>

\* complete: the dispatch row is gone and the job row holds the result.
CompleteCommit(w) ==
  LET j == claim[w].job
  IN  /\ pc[w] = "recording" /\ ~Retries(w)
      /\ dispatch' = [dispatch EXCEPT ![j] = NoDispatchRow]
      /\ jobs' = [jobs EXCEPT ![j] =
           [@ EXCEPT !.state = outcome[w],
                     !.result = [status |-> outcome[w], token |-> claim[w].token]]]
      /\ Rest(w, "idle")
      /\ UNCHANGED <<now, connected>>

\* release_for_retry: no lease, a later available_at, state queued.
ReleaseCommit(w) ==
  LET j == claim[w].job
  IN  /\ pc[w] = "recording" /\ Retries(w)
      /\ dispatch' = [dispatch EXCEPT ![j] =
           [@ EXCEPT !.token = NoToken, !.expiresAt = 0, !.availableAt = due[w]]]
      /\ jobs' = [jobs EXCEPT ![j].state = "queued"]
      /\ Rest(w, "idle")
      /\ UNCHANGED <<now, connected>>

\* LEASE_HELD matches no row: StoreError::LeaseLost, from load_command,
\* complete or release_for_retry.
LeaseLost(w) ==
  /\ pc[w] \in {"claimed", "fetched"} /\ connected[w]
  /\ ~Locked(claim[w].job)
  /\ ~LeaseHeld(w)
  /\ Rest(w, "idle")
  /\ UNCHANGED <<now, jobs, dispatch, connected>>

(***************************************************************************)
(* Faults.  The connection is opened once, by main; when it drops, the     *)
(* open transaction is rolled back, and the next operation of the worker   *)
(* errs, then every later one.                                             *)
(***************************************************************************)
Disconnect(w) ==
  /\ connected[w]
  /\ connected' = [connected EXCEPT ![w] = FALSE]
  /\ IF pc[w] \in InTransaction THEN Rest(w, "idle")
                                ELSE UNCHANGED <<pc, claim, outcome, due>>
  /\ UNCHANGED <<now, jobs, dispatch>>

StoreError(w) ==
  /\ pc[w] \in {"claimed", "fetched"} /\ ~connected[w]
  /\ Rest(w, "idle")
  /\ UNCHANGED <<now, jobs, dispatch, connected>>

\* ctrl_c drops process_one wherever it waits; a crash is no different.
Stop(w) ==
  /\ pc[w] # "stopped"
  /\ Rest(w, "stopped")
  /\ connected' = [connected EXCEPT ![w] = FALSE]
  /\ UNCHANGED <<now, jobs, dispatch>>

\* main: a new process connects and enters the loop.
Start(w) ==
  /\ pc[w] = "stopped"
  /\ pc' = [pc EXCEPT ![w] = "idle"]
  /\ connected' = [connected EXCEPT ![w] = TRUE]
  /\ UNCHANGED <<now, jobs, dispatch, claim, outcome, due>>

\* The clock moves while some timestamp, written or about to be, is not yet
\* in the past; later ticks would change no comparison.
Tick ==
  /\ \/ \E w \in Workers : due[w] >= now /\ due[w] > 0
     \/ \E j \in Jobs : /\ dispatch[j].listed
                        /\ \/ dispatch[j].availableAt >= now
                           \/ dispatch[j].expiresAt >= now /\ dispatch[j].token # NoToken
  /\ now' = now + 1
  /\ UNCHANGED <<jobs, dispatch, pc, claim, outcome, due, connected>>

Work(w) ==
  \/ \E j \in Jobs : ClaimNext(w, j)
  \/ ClaimCommit(w)
  \/ Load(w)
  \/ LoadCommit(w)
  \/ FetchEnds(w)
  \/ Record(w)
  \/ CompleteCommit(w)
  \/ ReleaseCommit(w)
  \/ LeaseLost(w)
  \/ StoreError(w)

Next ==
  \/ \E j \in Jobs : Enqueue(j)
  \/ \E w \in Workers : Work(w) \/ Disconnect(w) \/ Stop(w) \/ Start(w)
  \/ Tick

Spec == Init /\ [][Next]_vars

-----------------------------------------------------------------------------
(* Properties.                                                             *)

\* Every variable has its type: rows respect the columns' CHECKs, and a
\* worker between jobs holds nothing.
TypeOK ==
  /\ now \in Nat
  /\ jobs \in [Jobs -> JobRow]
  /\ dispatch \in [Jobs -> DispatchRow]
  /\ pc \in [Workers -> {"stopped", "idle", "claimed", "fetching", "fetched"} \cup InTransaction]
  /\ claim \in [Workers -> Claim]
  /\ outcome \in [Workers -> {"none"} \cup Terminal]
  /\ due \in [Workers -> Nat]
  /\ connected \in [Workers -> BOOLEAN]

\* The two tables agree: a job has a dispatch row exactly while it has no
\* result.  No crash, rollback or lost lease strands an open job without a
\* dispatch row, or leaves a finished one claimable; it is also why
\* load_command and complete never meet StoreError::JobMissing.
DispatchIffOpen ==
  \A j \in Jobs : dispatch[j].listed <=> Open(j)

\* Fencing: of two workers that claimed the same job, at most one passes
\* LEASE_HELD, even when both run under one worker_id (the default is
\* p02-worker-<pid>, and processes in separate containers share pids).
OneLeaseHolder ==
  \A v, w \in Workers :
    (v # w /\ claim[v].job # NoJob /\ claim[v].job = claim[w].job)
      => ~(LeaseHeld(v) /\ LeaseHeld(w))

\* What a client reads of a finished job is consistent: the recorded result
\* is that of the last attempt counted on the row, never that of an earlier
\* attempt whose lease had been taken over, and its status is the state.
ResultOfLastAttempt ==
  \A j \in Jobs :
    IF jobs[j].state \in Terminal
      THEN /\ jobs[j].result.status = jobs[j].state
           /\ jobs[j].result.token.claim = jobs[j].attempts
      ELSE jobs[j].result = NoResult

\* A job shown as running is leased, at the claim its attempts count, or was
\* claimed again since; a job whose lease was given back is shown queued.
RunningIsLeased ==
  \A j \in Jobs :
    /\ jobs[j].state = "running" => dispatch[j].token # NoToken
    /\ Open(j) => jobs[j].attempts <= dispatch[j].claims

\* attempts never goes back: a slow load_command cannot overwrite the count,
\* or the running mark, of an attempt that began after its own.
AttemptsNeverRewind ==
  [][\A j \in Jobs : jobs'[j].attempts >= jobs[j].attempts]_vars

\* p02-store/src/queue.rs:45, "Claim the next ready job, if any".  The first
\* ready row is the only one claim looks at: once its claims reach the CHECK
\* every claim of every worker errs, whatever else is ready behind it.
ReadyJobCanBeClaimed ==
  (\E j \in Jobs : Ready(j) /\ ~Locked(j) /\ dispatch[j].claims < ClaimsBound)
    => \E j \in Jobs : IsNext(j) /\ dispatch[j].claims < ClaimsBound

-----------------------------------------------------------------------------
(* The inductive invariant behind the properties: conjuncts that hold in   *)
(* every reachable state and together survive every step.                  *)

\* A worker holds a claim exactly between ClaimNext and the end of the job,
\* and has an outcome once the attempt is over.
ClaimShape ==
  \A w \in Workers :
    /\ pc[w] \in {"idle", "stopped"} <=> claim[w].job = NoJob
    /\ claim[w].job # NoJob => claim[w].token \in Token
    /\ pc[w] \in {"fetched", "recording"} => outcome[w] \in Terminal

\* A lease belongs to the latest claim of a listed job.
RowShape ==
  \A j \in Jobs :
    dispatch[j].token # NoToken => /\ dispatch[j].listed
                                   /\ dispatch[j].token.claim = dispatch[j].claims

\* Claims in memory are numbered below the row's, the one being committed is
\* next, and no two claims of a job share a number.
ClaimNumbers ==
  \A w \in Workers : LET j == claim[w].job IN j # NoJob =>
    /\ jobs[j].state # "absent"
    /\ (dispatch[j].listed /\ pc[w] # "claiming") => claim[w].token.claim <= dispatch[j].claims
    /\ pc[w] = "claiming" => claim[w].token.claim = dispatch[j].claims + 1
    /\ \A v \in Workers \ {w} :
         claim[v].job = j => claim[v].token.claim # claim[w].token.claim

\* A row lock has one owner; its row is listed, and once LEASE_HELD was
\* checked under the lock it still carries the owner's token.
LockShape ==
  \A w \in Workers : pc[w] \in InTransaction =>
    /\ dispatch[claim[w].job].listed
    /\ pc[w] # "claiming" => dispatch[claim[w].job].token = claim[w].token
    /\ \A v \in Workers \ {w} :
         claim[v].job = claim[w].job => pc[v] \notin InTransaction

\* The holder of a row's token sees its own attempt on the job row once it
\* has loaded the command, and an older one before.
HolderSeesAttempt ==
  \A w \in Workers : LET j == claim[w].job IN
    (j # NoJob /\ dispatch[j].token = claim[w].token) =>
      /\ pc[w] \in {"fetching", "fetched", "recording"} =>
           jobs[j].state = "running" /\ jobs[j].attempts = claim[w].token.claim
      /\ pc[w] \in {"claimed", "loading"} => jobs[j].attempts < claim[w].token.claim

IInv == /\ TypeOK /\ ClaimShape /\ RowShape /\ ClaimNumbers /\ LockShape
        /\ HolderSeesAttempt
        /\ DispatchIffOpen /\ RunningIsLeased /\ ResultOfLastAttempt

(***************************************************************************)
(* The queue keeps the promise of JobLifecycle to the clients of the API.  *)
(***************************************************************************)
PublicRow(j) ==
  [state    |-> jobs[j].state,
   attempts |-> jobs[j].attempts,
   status   |-> jobs[j].result.status,
   reports  |-> IF jobs[j].result = NoResult THEN 0 ELSE jobs[j].result.token.claim]

Lifecycle == INSTANCE JobLifecycle WITH rows <- [j \in Jobs |-> PublicRow(j)]

\* Every behaviour of the queue is one of the job lifecycle: a finished job
\* never changes again, a refusal is never retried, and failed is recorded
\* only once the claims are used up (contract p02-job-v1, Results).
ImplementsLifecycle == Lifecycle!Spec
=============================================================================
