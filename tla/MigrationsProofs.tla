--------------------------- MODULE MigrationsProofs ---------------------------
(***************************************************************************)
(* Proofs about Migrations, for any runs, builds and checksums.  What a run *)
(* has read when it verified stays true because it holds the lock           *)
(* (HolderKnows): the schema is a beginning of its own list, and what is    *)
(* pending is the rest.                                                     *)
(***************************************************************************)
EXTENDS Migrations, TLAPS

\* The schema is a beginning of the run's own migrations.
IsBeginning(r) ==
  /\ Len(schema) <= Len(Embedded[r])
  /\ \A v \in 1 .. Len(schema) : schema[v] = Embedded[r][v]

\* What has taken effect is a beginning of the run's list, and the rest is what
\* it still has to apply; a migration in its transaction is the first of them.
Knows(r) ==
  /\ IsBeginning(r)
  /\ Pending(r) = {v \in Known(r) : v > Len(schema)}
  /\ pc[r] # "applying" => next[r] = Len(schema) + 1 /\ next[r] \in Known(r)

\* A run past its verification knows the database, and starts its loop at one.
HolderKnows ==
  \A r \in Runs :
    /\ pc[r] \in {"start", "locked"} => next[r] = 1
    /\ pc[r] \in {"applying", "executed", "lost in transaction"} => Knows(r)

\* What a run will report is true until it has given the lock back.
Reports(r) ==
  /\ outcome[r] = "migrated" => schema = Embedded[r]
  /\ outcome[r] = "refused" => ~Verified(r, recorded)
  /\ outcome[r] # "conflict"

ReportHolds ==
  \A r \in Runs :
    /\ pc[r] \in {"lost", "lost in transaction"} => outcome[r] = "error"
    /\ pc[r] = "unlocking" => Reports(r)

IInv == TypeOK /\ SchemaIsRecorded /\ HolderKnows /\ ReportHolds

\* A build's list is no longer than the newest version.
LEMMA Lists ==
  ASSUME NEW r \in Runs
  PROVE  /\ Embedded[r] \in Seq(Sums) /\ Len(Embedded[r]) \in Nat
         /\ Len(Embedded[r]) <= Newest /\ Newest \in Nat
         /\ Known(r) \subseteq Versions
  BY MigrationsAssumption DEF Known, Versions

\* The lock is exclusive: no two runs hold it.
LEMMA Alone ==
  ASSUME TypeOK, NEW r \in Runs, NEW q \in Runs, pc[r] \in Holding, pc[q] \in Holding
  PROVE  q = r
  BY DEF TypeOK

\* In the first state nothing is recorded and nobody holds the lock.
LEMMA InitIInv == Init => IInv
<1> SUFFICES ASSUME Init PROVE IInv
  OBVIOUS
<1>1. TypeOK
  BY MigrationsAssumption DEF Init, TypeOK, NoRows, Rows, Versions, Holding
<1>2. SchemaIsRecorded
  BY MigrationsAssumption DEF Init, SchemaIsRecorded, NoRows, Present, Versions
<1>3. HolderKnows /\ ReportHolds
  BY DEF Init, HolderKnows, ReportHolds
<1>4. QED
  BY <1>1, <1>2, <1>3 DEF IInv

\* What the rest of the state is for a run that another one's step leaves alone.
LeftAlone(q) ==
  pc'[q] = pc[q] /\ applied'[q] = applied[q] /\ next'[q] = next[q] /\ outcome'[q] = outcome[q]

\* A step that leaves the database as it is keeps what the other runs know: it
\* is enough to look at the run that took it.
LEMMA OthersKnow ==
  ASSUME IInv, NEW r \in Runs, UNCHANGED <<recorded, schema>>,
         \A q \in Runs \ {r} : LeftAlone(q),
         pc'[r] \in {"start", "locked"} => next'[r] = 1,
         pc'[r] \in {"applying", "executed", "lost in transaction"} => Knows(r)',
         pc'[r] \in {"lost", "lost in transaction"} => outcome'[r] = "error",
         pc'[r] = "unlocking" => Reports(r)'
  PROVE  SchemaIsRecorded' /\ HolderKnows' /\ ReportHolds'
<1>1. SchemaIsRecorded'
  BY DEF IInv, SchemaIsRecorded, Present
<1>2. ASSUME NEW q \in Runs \ {r}
      PROVE  /\ Knows(q) => Knows(q)'
             /\ Reports(q) => Reports(q)'
  BY DEF LeftAlone, Knows, Reports, IsBeginning, Pending, Verified, Present
<1>3. QED
  BY <1>1, <1>2 DEF IInv, HolderKnows, ReportHolds, LeftAlone

\* Taking the lock, which nobody holds.
LEMMA LockIInv ==
  ASSUME IInv, NEW r \in Runs, Lock(r)
  PROVE  IInv'
<1>1. TypeOK'
  BY MigrationsAssumption DEF IInv, TypeOK, Lock, Goto, Holding
<1>2. pc'[r] = "locked" /\ next'[r] = 1 /\ UNCHANGED <<recorded, schema>>
  BY DEF IInv, TypeOK, HolderKnows, Lock, Goto
<1>3. \A q \in Runs \ {r} : LeftAlone(q)
  BY DEF IInv, TypeOK, Lock, Goto, LeftAlone
<1>4. QED
  BY <1>1, <1>2, <1>3, OthersKnow DEF IInv

\* A database that is verified is a beginning of the list.
LEMMA VerifiedBeginning ==
  ASSUME IInv, NEW r \in Runs, Verified(r, recorded)
  PROVE  IsBeginning(r)
<1>1. \A v \in 1 .. Len(schema) : v \in Known(r) /\ schema[v] = Embedded[r][v]
  BY DEF IInv, TypeOK, SchemaIsRecorded, Verified
<1>2. Len(schema) \in Nat
  BY DEF IInv, TypeOK
<1>3. Len(schema) <= Len(Embedded[r])
  BY <1>1, <1>2, Lists DEF Known
<1>4. QED
  BY <1>1, <1>3 DEF IsBeginning

\* Reading and verifying what is recorded.
LEMMA VerifyIInv ==
  ASSUME IInv, NEW r \in Runs, Verify(r)
  PROVE  IInv'
<1>1. TypeOK'
  BY DEF IInv, TypeOK, Verify, Goto, Leave, Holding
<1>2. \A q \in Runs \ {r} : LeftAlone(q)
  BY DEF IInv, TypeOK, Verify, Goto, Leave, LeftAlone
<1>3. applied'[r] = recorded /\ next'[r] = 1 /\ UNCHANGED <<recorded, schema>>
  BY DEF IInv, TypeOK, HolderKnows, Verify
<1>4. CASE Verified(r, recorded)
  <2>1. pc'[r] = "applying"
    BY <1>4 DEF IInv, TypeOK, Verify, Goto
  <2>2. IsBeginning(r)'
    BY <1>3, <1>4, VerifiedBeginning DEF IsBeginning
  <2>3. Pending(r)' = {v \in Known(r) : v > Len(schema')}
    BY <1>3, Lists DEF IInv, TypeOK, SchemaIsRecorded, Pending, Known
  <2>4. Knows(r)'
    BY <2>1, <2>2, <2>3 DEF Knows, Known
  <2>5. QED
    BY <1>1, <1>2, <1>3, <2>1, <2>4, OthersKnow DEF IInv
<1>5. CASE ~Verified(r, recorded)
  <2>1. pc'[r] = "unlocking" /\ outcome'[r] = "refused"
    BY <1>5 DEF IInv, TypeOK, Verify, Leave, Goto
  <2>2. Reports(r)'
    BY <1>3, <1>5, <2>1 DEF Reports, Verified, Present
  <2>3. QED
    BY <1>1, <1>2, <1>3, <2>1, <2>2, OthersKnow DEF IInv
<1>6. QED
  BY <1>4, <1>5

\* The version a run comes to is the one after those in effect: no conflict.
LEMMA ExecuteIInv ==
  ASSUME IInv, NEW r \in Runs, Execute(r)
  PROVE  IInv'
<1>1. PICK v \in Pending(r) :
        /\ IsNextPending(r, v)
        /\ next' = [next EXCEPT ![r] = v]
        /\ IF v \in Present(recorded)
             THEN Leave(r, "conflict", "unlocking")
             ELSE Goto(r, "executed") /\ UNCHANGED outcome
  BY DEF Execute
<1>2. pc[r] = "applying" /\ Knows(r)
  BY DEF Execute, IInv, HolderKnows
<1>3. Len(schema) \in Nat
  BY DEF IInv, TypeOK
<1>4. v = Len(schema) + 1 /\ v \in Known(r)
  <2>1. v \in Known(r) /\ v > Len(schema)
    BY <1>1, <1>2 DEF Knows
  <2>2. Len(schema) + 1 \in Pending(r)
    BY <1>2, <1>3, <2>1, Lists DEF Knows, Known
  <2>3. v <= Len(schema) + 1
    BY <1>1, <2>2 DEF IsNextPending
  <2>4. QED
    BY <1>3, <2>1, <2>3, Lists DEF Known
<1>5. v \notin Present(recorded)
  BY <1>3, <1>4 DEF IInv, TypeOK, SchemaIsRecorded
<1>6. /\ pc' = [pc EXCEPT ![r] = "executed"] /\ next' = [next EXCEPT ![r] = v]
      /\ UNCHANGED <<recorded, schema, lock, applied, outcome>>
  BY <1>1, <1>5 DEF Execute, Goto
<1>7. v \in 1 .. Newest + 1
  BY <1>4, Lists DEF Versions, Known
<1>8. TypeOK'
  BY <1>2, <1>6, <1>7 DEF IInv, TypeOK, Holding
<1>9. \A q \in Runs \ {r} : LeftAlone(q)
  BY <1>6 DEF IInv, TypeOK, LeftAlone
<1>10. pc'[r] = "executed" /\ next'[r] = v /\ applied'[r] = applied[r]
  BY <1>6 DEF IInv, TypeOK
<1>11. Pending(r)' = {u \in Known(r) : u > Len(schema')}
  <2>1. Pending(r) = {u \in Known(r) : u > Len(schema)}
    BY <1>2 DEF Knows
  <2>2. Pending(r)' = {u \in Known(r) : u >= v /\ u \notin Present(applied[r])}
    BY <1>6, <1>10 DEF Pending, Known, Present
  <2>3. next[r] \in Nat
    BY MigrationsAssumption DEF IInv, TypeOK
  <2>4. Pending(r)' = {u \in Pending(r) : u >= v}
    <3>1. v >= next[r]
      BY <1>1 DEF Pending
    <3>2. QED
      BY <1>4, <2>2, <2>3, <3>1, Lists DEF Pending, Known
  <2>5. QED
    BY <1>3, <1>4, <1>6, <2>1, <2>4, Lists DEF Known
<1>12. Knows(r)'
  BY <1>2, <1>4, <1>6, <1>10, <1>11 DEF Knows, IsBeginning, Known
<1>13. QED
  BY <1>6, <1>8, <1>9, <1>10, <1>12, OthersKnow DEF IInv

\* A run that leaves with an error, or whose session is lost, reports that.
LEMMA LeaveIInv ==
  ASSUME IInv, NEW r \in Runs, SqlFails(r) \/ Lose(r)
  PROVE  IInv'
<1>1. TypeOK'
  BY DEF IInv, TypeOK, SqlFails, Lose, Goto, Leave, Holding
<1>2. /\ \A q \in Runs \ {r} : LeftAlone(q)
      /\ UNCHANGED <<recorded, schema, applied, next>> /\ outcome'[r] = "error"
  BY DEF IInv, TypeOK, SqlFails, Lose, Goto, Leave, LeftAlone
<1>3. /\ pc'[r] \in {"unlocking", "lost", "lost in transaction"}
      /\ pc'[r] = "lost in transaction" => pc[r] = "executed"
  BY DEF IInv, TypeOK, SqlFails, Lose, Goto, Leave
<1>4. Reports(r)'
  BY <1>2 DEF Reports
<1>5. pc'[r] = "lost in transaction" => Knows(r)'
  BY <1>2, <1>3 DEF IInv, HolderKnows, Knows, IsBeginning, Pending, Known, Present
<1>6. QED
  BY <1>1, <1>2, <1>3, <1>4, <1>5, OthersKnow DEF IInv

\* A migration of the run has been executed and may yet take effect.
InTransaction(r) == pc[r] \in {"executed", "lost in transaction"}

\* What takes effect comes next in the run's list, and is recorded as that.
LEMMA TakeEffectFits ==
  ASSUME IInv, NEW r \in Runs, InTransaction(r), TakeEffect(r)
  PROVE  /\ Len(schema') = next[r] /\ next[r] = Len(schema) + 1
         /\ IsBeginning(r)'
         /\ schema' \in Seq(Sums) /\ recorded' \in Rows
         /\ SchemaIsRecorded'
<1>1. Knows(r)
  BY DEF IInv, HolderKnows, InTransaction
<1>2. next[r] = Len(schema) + 1 /\ next[r] \in Known(r)
  BY <1>1 DEF Knows, InTransaction
<1>3. schema \in Seq(Sums) /\ recorded \in Rows /\ Len(schema) \in Nat
  BY DEF IInv, TypeOK
<1>4. PICK n : n = next[r]
  OBVIOUS
<1>5. PICK sum : sum = Embedded[r][n]
  OBVIOUS
<1>6. n \in 1 .. Len(Embedded[r]) /\ n \in Versions
  BY <1>2, <1>4, Lists DEF Known
<1>7. sum \in Sums /\ sum # None
  BY <1>5, <1>6, Lists, MigrationsAssumption
<1>8. schema' = Append(schema, sum) /\ recorded' = [recorded EXCEPT ![n] = sum]
  BY <1>4, <1>5 DEF TakeEffect
<1>9. /\ schema' \in Seq(Sums) /\ Len(schema') = n /\ schema'[n] = sum /\ n = Len(schema) + 1
      /\ \A v \in 1 .. Len(schema) : schema'[v] = schema[v]
  BY <1>2, <1>3, <1>4, <1>7, <1>8
<1>10. recorded' \in Rows
  BY <1>3, <1>6, <1>7, <1>8 DEF Rows
<1>11. IsBeginning(r)'
  <2>1. n <= Len(Embedded[r])
    BY <1>6, Lists
  <2>2. \A v \in 1 .. Len(schema) : schema[v] = Embedded[r][v]
    BY <1>1 DEF Knows, IsBeginning
  <2>3. QED
    BY <1>3, <1>5, <1>9, <2>1, <2>2 DEF IsBeginning
<1>12. Present(recorded') = Present(recorded) \cup {n}
  BY <1>3, <1>6, <1>7, <1>8 DEF Present, Rows
<1>13. Present(recorded) = 1 .. Len(schema)
  BY <1>3 DEF IInv, SchemaIsRecorded
<1>14. \A v \in 1 .. Len(schema) : recorded[v] = schema[v]
  BY <1>3 DEF IInv, SchemaIsRecorded
<1>15. SchemaIsRecorded'
  <2>1. Present(recorded') = 1 .. Len(schema')
    BY <1>3, <1>9, <1>12, <1>13
  <2>2. \A v \in 1 .. Len(schema') : recorded'[v] = schema'[v]
    BY <1>3, <1>6, <1>8, <1>9, <1>14 DEF Rows
  <2>3. DOMAIN schema' = 1 .. Len(schema')
    BY <1>9
  <2>4. QED
    BY <2>1, <2>2, <2>3 DEF SchemaIsRecorded, Present
<1>16. QED
  BY <1>2, <1>4, <1>9, <1>10, <1>11, <1>15

\* The schema changes while its holder is alone: the others are before their
\* lock or have left, and have nothing to know or to report.
LEMMA OthersAway ==
  ASSUME TypeOK, NEW r \in Runs, pc[r] \in Holding, NEW q \in Runs \ {r}
  PROVE  pc[q] \in {"start", "ended"}
  BY DEF TypeOK

\* COMMIT, heard of.
LEMMA CommitIInv ==
  ASSUME IInv, NEW r \in Runs, Commit(r)
  PROVE  IInv'
<1>1. pc[r] = "executed" /\ Knows(r) /\ TakeEffect(r) /\ pc[r] \in Holding
  BY DEF Commit, IInv, HolderKnows, Holding
<1>2. /\ pc' = [pc EXCEPT ![r] = "applying"] /\ next' = [next EXCEPT ![r] = @ + 1]
      /\ UNCHANGED <<lock, applied, outcome>>
  BY DEF Commit, Goto
<1>3. /\ Len(schema') = next[r] /\ next[r] = Len(schema) + 1 /\ Len(schema) \in Nat
      /\ IsBeginning(r)' /\ schema' \in Seq(Sums) /\ recorded' \in Rows /\ SchemaIsRecorded'
  <2>1. Len(schema) \in Nat
    BY DEF IInv, TypeOK
  <2>2. QED
    BY <1>1, <2>1, TakeEffectFits DEF InTransaction
<1>4. next[r] + 1 \in 1 .. Newest + 1
  BY <1>1, <1>3, Lists DEF Knows, Known
<1>5. TypeOK'
  BY <1>1, <1>2, <1>3, <1>4 DEF IInv, TypeOK, Holding
<1>6. pc'[r] = "applying" /\ next'[r] = Len(schema') + 1 /\ applied'[r] = applied[r]
  BY <1>2, <1>3 DEF IInv, TypeOK
<1>7. Pending(r)' = {u \in Known(r) : u > Len(schema')}
  <2>1. Pending(r)' = {u \in Known(r) : u >= Len(schema') + 1 /\ u \notin Present(applied[r])}
    BY <1>6 DEF Pending, Known, Present
  <2>2. {u \in Known(r) : u >= next[r] /\ u \notin Present(applied[r])}
          = {u \in Known(r) : u > Len(schema)}
    BY <1>1 DEF Knows, Pending
  <2>3. QED
    BY <1>3, <2>1, <2>2, Lists DEF Known
<1>8. Knows(r)'
  BY <1>3, <1>6, <1>7 DEF Knows, Known
<1>9. \A q \in Runs \ {r} : pc'[q] \in {"start", "ended"} /\ pc'[q] = pc[q] /\ next'[q] = next[q]
  BY <1>1, <1>2, OthersAway DEF IInv, TypeOK
<1>10. HolderKnows'
  BY <1>6, <1>8, <1>9 DEF IInv, HolderKnows
<1>11. ReportHolds'
  BY <1>6, <1>9 DEF ReportHolds
<1>12. QED
  BY <1>3, <1>5, <1>10, <1>11 DEF IInv

\* COMMIT in a session that is lost.
LEMMA CommitUnheardIInv ==
  ASSUME IInv, NEW r \in Runs, CommitUnheard(r)
  PROVE  IInv'
<1>1. pc[r] = "lost in transaction" /\ TakeEffect(r) /\ pc[r] \in Holding
  BY DEF CommitUnheard, Holding
<1>2. pc' = [pc EXCEPT ![r] = "lost"] /\ UNCHANGED <<lock, applied, next, outcome>>
  BY DEF CommitUnheard, Goto
<1>3. schema' \in Seq(Sums) /\ recorded' \in Rows /\ SchemaIsRecorded'
  BY <1>1, TakeEffectFits DEF InTransaction
<1>4. TypeOK'
  BY <1>1, <1>2, <1>3 DEF IInv, TypeOK, Holding
<1>5. pc'[r] = "lost" /\ outcome'[r] = "error"
  BY <1>1, <1>2 DEF IInv, TypeOK, ReportHolds
<1>6. \A q \in Runs \ {r} : pc'[q] \in {"start", "ended"} /\ pc'[q] = pc[q] /\ next'[q] = next[q]
  BY <1>1, <1>2, OthersAway DEF IInv, TypeOK
<1>7. HolderKnows' /\ ReportHolds'
  BY <1>5, <1>6 DEF IInv, HolderKnows, ReportHolds
<1>8. QED
  BY <1>3, <1>4, <1>7 DEF IInv

\* A run with nothing left to apply has its own schema, whole.
LEMMA FinishIInv ==
  ASSUME IInv, NEW r \in Runs, Finish(r)
  PROVE  IInv'
<1>1. pc[r] = "applying" /\ Knows(r) /\ Pending(r) = {}
  BY DEF Finish, IInv, HolderKnows
<1>2. /\ pc' = [pc EXCEPT ![r] = "unlocking"] /\ outcome' = [outcome EXCEPT ![r] = "migrated"]
      /\ UNCHANGED <<recorded, schema, lock, applied, next>>
  BY DEF Finish, Leave, Goto
<1>3. TypeOK'
  BY <1>1, <1>2 DEF IInv, TypeOK, Holding
<1>4. schema = Embedded[r]
  <2>1. Len(schema) = Len(Embedded[r])
    <3>1. Len(schema) \in Nat /\ Len(schema) <= Len(Embedded[r])
      BY <1>1 DEF IInv, TypeOK, Knows, IsBeginning
    <3>2. ~(Len(Embedded[r]) > Len(schema))
      BY <1>1, <3>1, Lists DEF Knows, Known
    <3>3. QED
      BY <3>1, <3>2, Lists
  <2>2. \A v \in 1 .. Len(schema) : schema[v] = Embedded[r][v]
    BY <1>1 DEF Knows, IsBeginning
  <2>3. schema \in Seq(Sums) /\ Embedded[r] \in Seq(Sums)
    BY Lists DEF IInv, TypeOK
  <2>4. QED
    BY <2>1, <2>2, <2>3
<1>5. pc'[r] = "unlocking" /\ outcome'[r] = "migrated" /\ \A q \in Runs \ {r} : LeftAlone(q)
  BY <1>2 DEF IInv, TypeOK, LeftAlone
<1>6. Reports(r)'
  BY <1>2, <1>4, <1>5 DEF Reports
<1>7. QED
  BY <1>2, <1>3, <1>5, <1>6, OthersKnow DEF IInv

\* The lock is given back, by the run or with its session.
LEMMA ReleaseIInv ==
  ASSUME IInv, NEW r \in Runs, Unlock(r) \/ EndSession(r)
  PROVE  IInv'
<1>1. /\ pc[r] \in {"unlocking", "lost", "lost in transaction"}
      /\ pc' = [pc EXCEPT ![r] = "ended"] /\ lock' = None
      /\ UNCHANGED <<recorded, schema, applied, next, outcome>>
  BY DEF Unlock, EndSession, Goto
<1>2. TypeOK'
  <2>1. lock = r
    BY <1>1 DEF IInv, TypeOK, Holding
  <2>2. \A q \in Runs : pc'[q] \in Holding <=> lock' = q
    BY <1>1, <2>1, MigrationsAssumption DEF IInv, TypeOK, Holding
  <2>3. QED
    BY <1>1, <2>2 DEF IInv, TypeOK
<1>3. pc'[r] = "ended" /\ \A q \in Runs \ {r} : LeftAlone(q)
  BY <1>1 DEF IInv, TypeOK, LeftAlone
<1>4. QED
  BY <1>1, <1>2, <1>3, OthersKnow DEF IInv

\* Every step keeps the invariant.
LEMMA NextIInv == IInv /\ [Next]_vars => IInv'
<1> SUFFICES ASSUME IInv, [Next]_vars PROVE IInv'
  OBVIOUS
<1>1. CASE UNCHANGED vars
  <2>1. UNCHANGED <<recorded, schema, lock, pc, applied, next, outcome>>
    BY <1>1 DEF vars
  <2>2. TypeOK' /\ SchemaIsRecorded'
    BY <2>1 DEF IInv, TypeOK, SchemaIsRecorded, Present
  <2>3. ASSUME NEW r \in Runs
        PROVE  /\ Knows(r) => Knows(r)'
               /\ Reports(r) => Reports(r)'
    BY <2>1 DEF Knows, Reports, IsBeginning, Pending, Verified, Present
  <2>4. QED
    BY <2>1, <2>2, <2>3 DEF IInv, HolderKnows, ReportHolds
<1>2. ASSUME NEW r \in Runs, Proceed(r) \/ SqlFails(r) \/ Lose(r) \/ CommitUnheard(r)
      PROVE  IInv'
  BY <1>2, LockIInv, VerifyIInv, ExecuteIInv, LeaveIInv, CommitIInv, CommitUnheardIInv,
     FinishIInv, ReleaseIInv DEF Proceed
<1>3. QED
  BY <1>1, <1>2 DEF Next

\* The invariant holds in every reachable state.
THEOREM Invariant == Spec => []IInv
  BY InitIInv, NextIInv, PTL DEF Spec

-----------------------------------------------------------------------------
\* Every variable keeps its type, and between Lock and Unlock a run holds the
\* one lock, for any runs and builds.
THEOREM TypeCorrect == Spec => []TypeOK
  BY Invariant, PTL DEF IInv

\* What is recorded is what has taken effect, wherever runs are interrupted.
THEOREM RecordIsSchema == Spec => []SchemaIsRecorded
  BY Invariant, PTL DEF IInv

\* One step of any run ends it with a report that is true.
LEMMA StepReportsTruth ==
  IInv /\ [Next]_vars =>
    \A r \in Runs : pc[r] # "ended" /\ pc'[r] = "ended" =>
      /\ outcome[r] = "migrated" => schema' = Embedded[r]
      /\ outcome[r] = "refused" => ~Verified(r, recorded')
      /\ outcome[r] # "conflict"
<1> SUFFICES ASSUME IInv, [Next]_vars, NEW r \in Runs, pc[r] # "ended", pc'[r] = "ended"
             PROVE  /\ outcome[r] = "migrated" => schema' = Embedded[r]
                    /\ outcome[r] = "refused" => ~Verified(r, recorded')
                    /\ outcome[r] # "conflict"
  OBVIOUS
<1>1. PICK q \in Runs : Proceed(q) \/ SqlFails(q) \/ Lose(q) \/ CommitUnheard(q)
  BY DEF Next, vars
<1>2. Unlock(r) \/ EndSession(r)
  <2>1. pc' = [pc EXCEPT ![q] = pc'[q]]
    BY <1>1 DEF Proceed, Lock, Verify, Execute, Commit, Finish, Unlock, EndSession, SqlFails,
                Lose, CommitUnheard, Goto, Leave, IInv, TypeOK
  <2>2. q = r
    BY <2>1 DEF IInv, TypeOK
  <2>3. QED
    BY <1>1, <2>2 DEF Proceed, Lock, Verify, Execute, Commit, Finish, SqlFails, Lose,
                      CommitUnheard, Goto, Leave, IInv, TypeOK
<1>3. UNCHANGED <<recorded, schema>> /\ pc[r] \in {"unlocking", "lost", "lost in transaction"}
  BY <1>2 DEF Unlock, EndSession
<1>4. Reports(r)
  BY <1>3 DEF IInv, ReportHolds, Reports
<1>5. QED
  BY <1>3, <1>4 DEF Reports

\* A run reports success only over its own schema, refuses only another
\* build's, and never fails because another runs, for any runs and builds.
THEOREM ReportsAreTrue == Spec => OutcomeIsTrue
<1>1. IInv /\ [Next]_vars =>
        [\A r \in Runs : pc[r] # "ended" /\ pc'[r] = "ended" =>
           /\ outcome[r] = "migrated" => schema' = Embedded[r]
           /\ outcome[r] = "refused" => ~Verified(r, recorded')
           /\ outcome[r] # "conflict"]_vars
  BY StepReportsTruth
<1>2. QED
  BY <1>1, Invariant, PTL DEF Spec, OutcomeIsTrue

\* No database ever holds a mixture of two builds' migrations.
THEOREM NeverMixed == Spec => NoMixedSchema
<1>1. IInv /\ [Next]_vars =>
        [schema' # schema =>
           \E r \in Runs : /\ Len(schema') <= Len(Embedded[r])
                           /\ \A v \in DOMAIN schema' : schema'[v] = Embedded[r][v]]_vars
  <2> SUFFICES ASSUME IInv, [Next]_vars, schema' # schema
               PROVE  \E r \in Runs :
                        /\ Len(schema') <= Len(Embedded[r])
                        /\ \A v \in DOMAIN schema' : schema'[v] = Embedded[r][v]
    OBVIOUS
  <2>1. PICK r \in Runs : Commit(r) \/ CommitUnheard(r)
    BY DEF Next, vars, Proceed, Lock, Verify, Execute, Finish, Unlock, EndSession, SqlFails, Lose
  <2>2. pc[r] \in {"executed", "lost in transaction"} /\ TakeEffect(r)
    BY <2>1 DEF Commit, CommitUnheard
  <2>3. IsBeginning(r)' /\ schema' \in Seq(Sums)
    BY <2>2, TakeEffectFits DEF InTransaction
  <2>4. QED
    BY <2>3 DEF IsBeginning
<1>2. QED
  BY <1>1, Invariant, PTL DEF Spec, NoMixedSchema
=============================================================================
