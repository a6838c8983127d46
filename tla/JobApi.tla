-------------------------------- MODULE JobApi --------------------------------
(***************************************************************************)
(* The P02 API: the request handler of apps/p02-api/src/app.ts, the         *)
(* transactions of db.ts and the sessions of 0002_sessions.sql.            *)
(*                                                                         *)
(* A request runs two transactions on connections of one small pool: one   *)
(* that looks its session up, then, once the body is read, one that does   *)
(* the work.  Between two steps of a request any step of another may       *)
(* happen, and a session may be revoked or expire.  A client retries by    *)
(* sending a new request with the key of the old one.  Job ids are the     *)
(* requests that drew them: 96 random bits do not repeat.  Requests that no  *)
(* route leads to the handlers, or that carry no token, touch no state.     *)
(***************************************************************************)
EXTENDS Integers, FiniteSets

CONSTANTS
  Requests,     (* HTTP requests, each sent at most once.                  *)
  Sessions,     (* Session tokens that were minted.                        *)
  Owner,        (* sessions.tenant_id.                                     *)
  Keys,         (* Idempotency keys.                                       *)
  Operations,   (* Operations a command can carry.                         *)
  PoolSize,     (* Connections of the pool ("max" in main.ts).             *)
  None

ASSUME JobApiAssumption ==
  /\ None \notin Requests \cup Keys \cup Operations
  /\ None \notin [kind : {"enqueue"}, session : Sessions, key : Keys, operation : Operations]
  /\ None \notin [kind : {"read"}, session : Sessions, job : Requests]
  /\ None \notin [job : Requests, operation : Operations]
  /\ PoolSize \in Nat \ {0}

VARIABLES
  live,         (* Sessions neither revoked nor expired.                   *)
  rows,         (* Committed rows of p02.jobs, by tenant and key.          *)
  asked,        (* What each request carries, None before it is sent.      *)
  pc,           (* What the handler of each request does next.             *)
  tenant,       (* The tenant authenticate found for the request.          *)
  answer        (* The response, held until the handler is done.           *)

vars == <<live, rows, asked, pc, tenant, answer>>

Tenants == {Owner[s] : s \in Sessions}

Row == [job : Requests, operation : Operations]

Enqueue == [kind : {"enqueue"}, session : Sessions, key : Keys, operation : Operations]
Read == [kind : {"read"}, session : Sessions, job : Requests]

Status == {0, 200, 201, 401, 404, 409, 422, 503}
Answer == [status : Status, job : Requests \cup {None}]
NoAnswer == [status |-> 0, job |-> None]
Problem(status) == [status |-> status, job |-> None]

\* Mutant: the transaction of authenticate stays open while the body is read.
InTransactionThroughBody ==
  {"looking", "admitted", "inserting", "inserted", "duplicate", "decided", "reading"}

\* Between BEGIN and COMMIT the handler holds a connection of the pool.
InTransaction == {"looking", "inserting", "inserted", "duplicate", "decided", "reading"}

ConnectionFree == Cardinality({r \in Requests : pc[r] \in InTransaction}) < PoolSize

Key(r) == asked[r].key

\* The rows of p02.jobs the request's transaction can see.
Visible(r) == {rows[tenant[r]][k] : k \in Keys} \ {None}

Move(r, next) == pc' = [pc EXCEPT ![r] = next]

Decide(r, response) == answer' = [answer EXCEPT ![r] = response]

-----------------------------------------------------------------------------
Init ==
  /\ live = Sessions
  /\ rows = [t \in Tenants |-> [k \in Keys |-> None]]
  /\ asked = [r \in Requests |-> None]
  /\ pc = [r \in Requests |-> "unsent"]
  /\ tenant = [r \in Requests |-> None]
  /\ answer = [r \in Requests |-> NoAnswer]

\* A session is revoked, or expires.
EndSession(s) ==
  /\ s \in live
  /\ live' = live \ {s}
  /\ UNCHANGED <<rows, asked, pc, tenant, answer>>

Send(r) ==
  /\ pc[r] = "unsent"
  /\ \E q \in Enqueue \cup Read : asked' = [asked EXCEPT ![r] = q]
  /\ Move(r, "arrived")
  /\ UNCHANGED <<live, rows, tenant, answer>>

\* authenticate: sessionTenant's SELECT, which shows live sessions only.
LookUp(r) ==
  /\ pc[r] = "arrived" /\ ConnectionFree
  /\ Move(r, "looking")
  /\ tenant' = [tenant EXCEPT ![r] =
       IF asked[r].session \in live THEN Owner[asked[r].session] ELSE None]
  /\ UNCHANGED <<live, rows, asked, answer>>

LookedUp(r) ==
  /\ pc[r] = "looking"
  /\ IF tenant[r] = None
       THEN Move(r, "done") /\ Decide(r, Problem(401))
       ELSE Move(r, "admitted") /\ UNCHANGED answer
  /\ UNCHANGED <<live, rows, asked, tenant>>

\* No key, no JSON, a body too large, or a command outside the contract; 422
\* stands for 400 and 413 too.
Reject(r) ==
  /\ pc[r] = "admitted" /\ asked[r].kind = "enqueue"
  /\ Move(r, "done") /\ Decide(r, Problem(422))
  /\ UNCHANGED <<live, rows, asked, tenant>>

\* withTenant opens the second transaction.
Begin(r) ==
  /\ pc[r] = "admitted" /\ ConnectionFree
  /\ Move(r, IF asked[r].kind = "enqueue" THEN "inserting" ELSE "reading")
  /\ UNCHANGED <<live, rows, asked, tenant, answer>>

\* Mutant: no unique constraint on (tenant_id, idempotency_key).
InsertAnyway(r) ==
  /\ pc[r] = "inserting"
  /\ Move(r, "inserted")
  /\ Decide(r, [status |-> 201, job |-> r])
  /\ UNCHANGED <<live, rows, asked, tenant>>

(***************************************************************************)
(* INSERT ... ON CONFLICT (tenant_id, idempotency_key) DO NOTHING: waits   *)
(* for a transaction that has inserted the same key and not ended, then    *)
(* inserts, or returns no row if one is committed.                         *)
(***************************************************************************)
Insert(r) ==
  /\ pc[r] = "inserting"
  /\ \A q \in Requests :
       ~ (pc[q] = "inserted" /\ tenant[q] = tenant[r] /\ Key(q) = Key(r))
  /\ IF rows[tenant[r]][Key(r)] = None
       THEN Move(r, "inserted") /\ Decide(r, [status |-> 201, job |-> r])
       ELSE Move(r, "duplicate") /\ UNCHANGED answer
  /\ UNCHANGED <<live, rows, asked, tenant>>

\* The SELECT that follows, with a snapshot of its own (READ COMMITTED), and
\* the comparison of the operations.
SelectExisting(r) ==
  LET row == rows[tenant[r]][Key(r)]
  IN  /\ pc[r] = "duplicate"
      /\ Move(r, "decided")
      /\ IF row = None \/ row.operation # asked[r].operation
           THEN Decide(r, Problem(409))
           ELSE Decide(r, [status |-> 200, job |-> row.job])
      /\ UNCHANGED <<live, rows, asked, tenant>>

\* readJob: the row of the job, if the tenant has it.
SelectJob(r) ==
  /\ pc[r] = "reading"
  /\ Move(r, "decided")
  /\ IF \E row \in Visible(r) : row.job = asked[r].job
       THEN Decide(r, [status |-> 200, job |-> asked[r].job])
       ELSE Decide(r, Problem(404))
  /\ UNCHANGED <<live, rows, asked, tenant>>

\* COMMIT: the inserted row, and its dispatch row with it, are there.
Store(r) ==
  IF pc[r] = "inserted"
    THEN rows' = [rows EXCEPT ![tenant[r]] = [@ EXCEPT ![Key(r)] =
                    [job |-> r, operation |-> asked[r].operation]]]
    ELSE UNCHANGED rows

Commit(r) ==
  /\ pc[r] \in {"inserted", "decided"}
  /\ Store(r)
  /\ Move(r, "done")
  /\ UNCHANGED <<live, asked, tenant, answer>>

\* The COMMIT is done and its reply lost: handle answers 503 all the same.
CommitUnheard(r) ==
  /\ pc[r] \in {"inserted", "decided"}
  /\ Store(r)
  /\ Move(r, "done") /\ Decide(r, Problem(503))
  /\ UNCHANGED <<live, asked, tenant>>

\* Mutant: an answer worked out before the failure is sent.
FailAsDecided(r) ==
  /\ pc[r] \in InTransaction \cup {"arrived", "admitted"}
  /\ Move(r, "done")
  /\ Decide(r, IF answer[r] = NoAnswer THEN Problem(503) ELSE answer[r])
  /\ UNCHANGED <<live, rows, asked, tenant>>

\* No connection to be had, or a statement or the COMMIT fails and the
\* transaction is rolled back.
Fail(r) ==
  /\ pc[r] \in InTransaction \cup {"arrived", "admitted"}
  /\ Move(r, "done") /\ Decide(r, Problem(503))
  /\ UNCHANGED <<live, rows, asked, tenant>>

Handle(r) ==
  \/ LookUp(r) \/ LookedUp(r) \/ Reject(r) \/ Begin(r)
  \/ Insert(r) \/ SelectExisting(r) \/ SelectJob(r) \/ Commit(r)

Next ==
  \/ \E s \in Sessions : EndSession(s)
  \/ \E r \in Requests : Send(r) \/ Handle(r) \/ CommitUnheard(r) \/ Fail(r)

Spec == Init /\ [][Next]_vars

\* The runtime and the store serve each request that can go on; nothing says
\* that anything fails.
FairSpec == Spec /\ \A r \in Requests : WF_vars(Handle(r))

-----------------------------------------------------------------------------
(* Properties.                                                             *)

\* Every variable has its type, and a request in its second transaction runs
\* it for the tenant that owns its session.
TypeOK ==
  /\ live \in SUBSET Sessions
  /\ rows \in [Tenants -> [Keys -> Row \cup {None}]]
  /\ asked \in [Requests -> Enqueue \cup Read \cup {None}]
  /\ pc \in [Requests -> {"unsent", "arrived", "admitted", "done"} \cup InTransaction]
  /\ tenant \in [Requests -> Tenants \cup {None}]
  /\ answer \in [Requests -> Answer]
  /\ \A r \in Requests : pc[r] \in {"admitted"} \cup (InTransaction \ {"looking"}) =>
       tenant[r] = Owner[asked[r].session]

\* SEMANTICS.md, Commands: "enqueuing the same key twice yields one job".  A
\* 201 or a 200 names the one job stored for the tenant and the key, and that
\* job carries the operation the request asked for, whatever other requests
\* with that key run at the same time, fail or lose their answers.
AcceptedIsStored ==
  \A r \in Requests :
    (pc[r] = "done" /\ asked[r].kind = "enqueue" /\ answer[r].status \in {200, 201})
      => rows[Owner[asked[r].session]][Key(r)] =
           [job |-> answer[r].job, operation |-> asked[r].operation]

\* A client is shown jobs of its own tenant only, though no query names the
\* tenant: the policy of the rows does.
OnlyOwnJobsShown ==
  \A r \in Requests : (pc[r] = "done" /\ answer[r].job # None) =>
    \E k \in Keys : LET row == rows[Owner[asked[r].session]][k] IN
      row # None /\ row.job = answer[r].job

\* A job some client of the tenant has been told of is never unknown to a read
\* that begins later: a job is answered for only once it is committed.
NoAnsweredJobUnknown ==
  [][\A r, q \in Requests :
       (/\ pc[r] = "reading" /\ answer'[r] = Problem(404) /\ pc'[r] = "decided"
        /\ pc[q] = "done" /\ answer[q].job = asked[r].job)
         => Owner[asked[q].session] # Owner[asked[r].session]]_vars

\* Every request is answered: a request that waits, for a connection of the
\* pool or for the transaction that inserts its key, waits for one that can
\* go on.
Answered == \A r \in Requests : pc[r] = "arrived" ~> pc[r] = "done"

\* Seen from outside, each request takes effect at once and as a whole.
Replies == [r \in Requests |-> IF pc[r] = "done" THEN answer[r] ELSE NoAnswer]
Promise == INSTANCE IdempotentJobs WITH made <- rows, replies <- Replies

\* The API keeps the promise of IdempotentJobs: its answers are those of a
\* store that handles the requests one at a time.
ImplementsPromise == Promise!Spec
=============================================================================
