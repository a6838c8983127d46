---------------------------- MODULE IdempotentJobs ----------------------------
(***************************************************************************)
(* What POST /v1/jobs and GET /v1/jobs/<id> promise their clients: requests *)
(* take effect one at a time, a key of a tenant makes one job, and whoever  *)
(* repeats a request learns the job it made.  Only the statuses of an       *)
(* answer and the job it names are visible.                                *)
(***************************************************************************)
CONSTANTS Requests, Sessions, Owner, Keys, Operations, None

VARIABLES
  asked,      (* What each request asks for, once it is sent.              *)
  made,       (* The job each tenant's key has made.                       *)
  replies     (* What each request has been answered.                      *)

promised == <<asked, made, replies>>

Tenants == {Owner[s] : s \in Sessions}

\* Make the job of a key, or read a job, as the owner of the session.
Question ==
  [kind : {"enqueue"}, session : Sessions, key : Keys, operation : Operations]
    \cup [kind : {"read"}, session : Sessions, job : Requests]

Silent == [status |-> 0, job |-> None]

Init ==
  /\ asked = [r \in Requests |-> None]
  /\ made = [t \in Tenants |-> [k \in Keys |-> None]]
  /\ replies = [r \in Requests |-> Silent]

Ask(r) ==
  /\ asked[r] = None
  /\ \E q \in Question : asked' = [asked EXCEPT ![r] = q]
  /\ UNCHANGED <<made, replies>>

Reply(r, status, job) ==
  /\ replies[r] = Silent
  /\ replies' = [replies EXCEPT ![r] = [status |-> status, job |-> job]]
  /\ UNCHANGED asked

\* A key used for the first time makes the job; the answer may get lost on
\* the way out of the store.
Make(r) ==
  LET t == Owner[asked[r].session]
      k == asked[r].key
  IN  /\ asked[r] # None /\ asked[r].kind = "enqueue"
      /\ made[t][k] = None
      /\ made' = [made EXCEPT ![t] = [@ EXCEPT ![k] =
                    [job |-> r, operation |-> asked[r].operation]]]
      /\ Reply(r, 201, r) \/ Reply(r, 503, None)

\* A key used again names the job it made, unless the operation is another.
Repeat(r) ==
  LET row == made[Owner[asked[r].session]][asked[r].key]
  IN  /\ asked[r] # None /\ asked[r].kind = "enqueue"
      /\ row # None
      /\ IF row.operation = asked[r].operation THEN Reply(r, 200, row.job)
                                               ELSE Reply(r, 409, None)
      /\ UNCHANGED made

\* A client reads the jobs of its own tenant.
Show(r) ==
  /\ asked[r] # None /\ asked[r].kind = "read"
  /\ \E k \in Keys : LET row == made[Owner[asked[r].session]][k] IN
       row # None /\ row.job = asked[r].job
  /\ Reply(r, 200, asked[r].job)
  /\ UNCHANGED made

\* Any other answer has no effect and names no job.
Refuse(r) ==
  /\ asked[r] # None
  /\ \E status \in {401, 404, 422, 503} : Reply(r, status, None)
  /\ UNCHANGED made

Next == \E r \in Requests : Ask(r) \/ Make(r) \/ Repeat(r) \/ Show(r) \/ Refuse(r)

Spec == Init /\ [][Next]_promised
=============================================================================
