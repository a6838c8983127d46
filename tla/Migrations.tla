------------------------------ MODULE Migrations ------------------------------
(***************************************************************************)
(* p02-worker migrate: crates/p02-store/src/migrate.rs.  Processes of      *)
(* several builds, each with the migrations compiled into it, migrate one  *)
(* database: a session advisory lock, a verification of what is recorded,  *)
(* then every pending migration in a transaction of its own.  A session    *)
(* may be lost at any point; PostgreSQL ends what the session had begun,   *)
(* one way or the other, and only then drops its lock.                     *)
(***************************************************************************)
EXTENDS Integers, Sequences

CONSTANTS
  Runs,     (* Runs of `p02-worker migrate`; a relaunch is another run.     *)
  Embedded, (* MIGRATIONS of each run's build: the checksum of each version. *)
  Sums,     (* Checksums.                                                  *)
  Newest,   (* The highest version that any of the builds embeds.          *)
  None

ASSUME MigrationsAssumption ==
  /\ Newest \in Nat
  /\ \A r \in Runs : Embedded[r] \in Seq(Sums) /\ Len(Embedded[r]) <= Newest
  /\ None \notin Sums /\ None \notin Runs

VARIABLES
  recorded, (* p02_schema_migrations: the checksum of each version.        *)
  schema,   (* The SQL that has taken effect, in that order.               *)
  lock,     (* The session that holds the advisory lock.                   *)
  pc,       (* What each run does next.                                    *)
  applied,  (* The rows each run has read.                                 *)
  next,     (* The version each run's loop has come to.                    *)
  outcome   (* How each run ends.                                          *)

vars == <<recorded, schema, lock, pc, applied, next, outcome>>

Versions == 1 .. Newest

\* Versions a list of migrations covers: they count from one.
Known(r) == 1 .. Len(Embedded[r])

Rows == [Versions -> Sums \cup {None}]
NoRows == [v \in Versions |-> None]
Present(rows) == {v \in Versions : rows[v] # None}

\* Mutant: the checksum of an applied migration is not compared.
SameVersions(r, rows) == Present(rows) \subseteq Known(r)

\* apply_all's first loop: every recorded version is known to the build and
\* has the checksum of the build's own.
Verified(r, rows) ==
  \A v \in Present(rows) : v \in Known(r) /\ rows[v] = Embedded[r][v]

\* The next version of the list that was not among the rows read.
Pending(r) == {v \in Known(r) : v >= next[r] /\ v \notin Present(applied[r])}
IsNextPending(r, v) == v \in Pending(r) /\ \A u \in Pending(r) : v <= u

\* The session is alive, or was lost and PostgreSQL has not noticed.
Holding == {"locked", "applying", "executed", "unlocking", "lost", "lost in transaction"}

Goto(r, place) == pc' = [pc EXCEPT ![r] = place]
Leave(r, result, place) == Goto(r, place) /\ outcome' = [outcome EXCEPT ![r] = result]

-----------------------------------------------------------------------------
Init ==
  /\ recorded = NoRows
  /\ schema = <<>>
  /\ lock = None
  /\ pc = [r \in Runs |-> "start"]
  /\ applied = [r \in Runs |-> NoRows]
  /\ next = [r \in Runs |-> 1]
  /\ outcome = [r \in Runs |-> "none"]

\* Mutant: no advisory lock.
LockAnyway(r) ==
  /\ pc[r] = "start"
  /\ lock' = r
  /\ Goto(r, "locked")
  /\ UNCHANGED <<recorded, schema, applied, next, outcome>>

\* pg_advisory_lock waits until no session holds the key.
Lock(r) ==
  /\ pc[r] = "start" /\ lock = None
  /\ lock' = r
  /\ Goto(r, "locked")
  /\ UNCHANGED <<recorded, schema, applied, next, outcome>>

\* The rows are read once and verified; the first one that is not this
\* build's stops the run before it has applied anything.
Verify(r) ==
  /\ pc[r] = "locked"
  /\ applied' = [applied EXCEPT ![r] = recorded]
  /\ IF Verified(r, recorded)
       THEN Goto(r, "applying") /\ UNCHANGED outcome
       ELSE Leave(r, "refused", "unlocking")
  /\ UNCHANGED <<recorded, schema, lock, next>>

\* A transaction: the migration's SQL and the INSERT of its row.  The row of
\* a version is there at most once, so a second INSERT fails.
Execute(r) ==
  /\ pc[r] = "applying"
  /\ \E v \in Pending(r) :
       /\ IsNextPending(r, v)
       /\ next' = [next EXCEPT ![r] = v]
       /\ IF v \in Present(recorded)
            THEN Leave(r, "conflict", "unlocking")
            ELSE Goto(r, "executed") /\ UNCHANGED outcome
  /\ UNCHANGED <<recorded, schema, lock, applied>>

\* A statement of the migration fails and the transaction is rolled back.
SqlFails(r) ==
  /\ pc[r] = "executed"
  /\ Leave(r, "error", "unlocking")
  /\ UNCHANGED <<recorded, schema, lock, applied, next>>

\* COMMIT: the SQL has taken effect and is recorded, both or neither.
TakeEffect(r) ==
  /\ schema' = Append(schema, Embedded[r][next[r]])
  /\ recorded' = [recorded EXCEPT ![next[r]] = Embedded[r][next[r]]]

Commit(r) ==
  /\ pc[r] = "executed"
  /\ TakeEffect(r)
  /\ next' = [next EXCEPT ![r] = @ + 1]
  /\ Goto(r, "applying")
  /\ UNCHANGED <<lock, applied, outcome>>

Finish(r) ==
  /\ pc[r] = "applying" /\ Pending(r) = {}
  /\ Leave(r, "migrated", "unlocking")
  /\ UNCHANGED <<recorded, schema, lock, applied, next>>

\* Mutant: `?` on the outcome comes before the unlock, in a session that lives on.
UnlockIfMigrated(r) ==
  /\ pc[r] = "unlocking"
  /\ lock' = IF outcome[r] = "migrated" THEN None ELSE lock
  /\ Goto(r, "ended")
  /\ UNCHANGED <<recorded, schema, applied, next, outcome>>

\* pg_advisory_unlock, whatever the outcome.
Unlock(r) ==
  /\ pc[r] = "unlocking"
  /\ lock' = None
  /\ Goto(r, "ended")
  /\ UNCHANGED <<recorded, schema, applied, next, outcome>>

\* Mutant: the SQL and the INSERT of its row are not one transaction.
CommitUnheardInPart(r) ==
  /\ pc[r] = "lost in transaction"
  /\ schema' = Append(schema, Embedded[r][next[r]])
  /\ Goto(r, "lost")
  /\ UNCHANGED <<recorded, lock, applied, next, outcome>>

(***************************************************************************)
(* The process dies or its session is lost.  A statement it had sent, a    *)
(* COMMIT perhaps, may still be carried out before PostgreSQL ends the     *)
(* session and drops the lock with it.                                     *)
(***************************************************************************)
Lose(r) ==
  /\ pc[r] \in {"locked", "applying", "executed", "unlocking"}
  /\ Leave(r, "error", IF pc[r] = "executed" THEN "lost in transaction" ELSE "lost")
  /\ UNCHANGED <<recorded, schema, lock, applied, next>>

CommitUnheard(r) ==
  /\ pc[r] = "lost in transaction"
  /\ TakeEffect(r)
  /\ Goto(r, "lost")
  /\ UNCHANGED <<lock, applied, next, outcome>>

EndSession(r) ==
  /\ pc[r] \in {"lost", "lost in transaction"}
  /\ lock' = None
  /\ Goto(r, "ended")
  /\ UNCHANGED <<recorded, schema, applied, next, outcome>>

Proceed(r) ==
  Lock(r) \/ Verify(r) \/ Execute(r) \/ Commit(r) \/ Finish(r) \/ Unlock(r) \/ EndSession(r)

Next == \E r \in Runs : Proceed(r) \/ SqlFails(r) \/ Lose(r) \/ CommitUnheard(r)

Spec == Init /\ [][Next]_vars

\* The process goes on, and PostgreSQL notices a lost session.  Each run
\* takes the lock once, so its queue needs no more than weak fairness.
FairSpec == Spec /\ \A r \in Runs : WF_vars(Proceed(r))

-----------------------------------------------------------------------------
(* Properties.                                                             *)

\* Every variable has its type, and a run between Lock and Unlock holds the lock.
TypeOK ==
  /\ recorded \in Rows
  /\ schema \in Seq(Sums)
  /\ lock \in Runs \cup {None}
  /\ pc \in [Runs -> {"start", "ended"} \cup Holding]
  /\ applied \in [Runs -> Rows]
  /\ next \in [Runs -> 1 .. Newest + 1]
  /\ outcome \in [Runs -> {"none", "migrated", "refused", "conflict", "error"}]
  /\ \A r \in Runs : pc[r] \in Holding <=> lock = r

\* What is recorded is what the schema is: every migration that has taken
\* effect is recorded under its number, once, in order, whichever runs and
\* builds applied them and wherever they were interrupted.
SchemaIsRecorded ==
  /\ Present(recorded) = DOMAIN schema
  /\ \A v \in DOMAIN schema : recorded[v] = schema[v]

\* migrate.rs:8, "a binary never runs against a schema it did not ship": a run
\* reports success only over the schema of its own build, whole and in its
\* order; it refuses only a database that holds another build's migration; and
\* two runs at once never make each other fail.
OutcomeIsTrue ==
  [][\A r \in Runs : pc[r] # "ended" /\ pc'[r] = "ended" =>
       /\ outcome[r] = "migrated" => schema' = Embedded[r]
       /\ outcome[r] = "refused" => ~Verified(r, recorded')
       /\ outcome[r] # "conflict"]_vars

\* A build adds to the schema only on top of its own migrations: no database
\* ever holds a mixture that no build embeds.
NoMixedSchema ==
  [][schema' # schema =>
       \E r \in Runs : /\ Len(schema') <= Len(Embedded[r])
                       /\ \A v \in DOMAIN schema' : schema'[v] = Embedded[r][v]]_vars

\* Every run ends, whatever run before it was refused, failed or lost its
\* session: the lock is always given back.
EveryRunEnds == \A r \in Runs : <>(pc[r] = "ended")
=============================================================================
