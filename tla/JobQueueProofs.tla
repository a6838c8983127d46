---------------------------- MODULE JobQueueProofs ----------------------------
(***************************************************************************)
(* Proofs about JobQueue, for any number of jobs and workers and any lease,*)
(* retry delays and bounds.                                                *)
(***************************************************************************)
EXTENDS JobQueueLive, TLAPS

\* The delay written by release_for_retry is a time span, whatever the claim.
LEMMA RetryDelayType ==
  ASSUME NEW n
  PROVE  RetryDelay(n) \in Nat
BY JobQueueAssumption DEF RetryDelay

\* The first state satisfies the inductive invariant.
LEMMA InitIInv == Init => IInv
<1> SUFFICES ASSUME Init PROVE IInv
  OBVIOUS
<1> USE JobQueueAssumption DEF Init, NoJobRow, NoDispatchRow, NoResult, NoClaim
<1>1. TypeOK
  BY DEF TypeOK, JobRow, DispatchRow, Claim, Result, Terminal, InTransaction
<1>2. ClaimShape /\ ClaimNumbers /\ LockShape /\ HolderSeesAttempt
  BY DEF ClaimShape, ClaimNumbers, LockShape, HolderSeesAttempt, InTransaction
<1>3. RowShape /\ DispatchIffOpen /\ RunningIsLeased /\ ResultOfLastAttempt
  BY DEF RowShape, DispatchIffOpen, RunningIsLeased, ResultOfLastAttempt, Open, Terminal
<1>4. QED
  BY <1>1, <1>2, <1>3 DEF IInv

(***************************************************************************)
(* The invariant survives each kind of step.                               *)
(***************************************************************************)

\* The API's insert touches a job no worker has a claim on.
LEMMA EnqueueIInv ==
  ASSUME IInv, NEW j \in Jobs, Enqueue(j)
  PROVE  IInv'
<1> USE DEF IInv
<1>1. /\ jobs' \in [Jobs -> JobRow]
      /\ jobs'[j].state = "queued"
      /\ jobs'[j].attempts = 0 /\ jobs'[j].result = NoResult
      /\ \A i \in Jobs \ {j} : jobs'[i] = jobs[i]
  BY JobQueueAssumption DEF Enqueue, TypeOK, JobRow, Result, NoResult
<1>2. /\ dispatch' \in [Jobs -> DispatchRow]
      /\ dispatch'[j].listed /\ dispatch'[j].token = NoToken /\ dispatch'[j].claims = 0
      /\ \A i \in Jobs \ {j} : dispatch'[i] = dispatch[i]
  BY JobQueueAssumption DEF Enqueue, TypeOK, DispatchRow
<1>3. UNCHANGED <<now, pc, claim, outcome, due, connected>> /\ jobs[j].state = "absent"
  BY DEF Enqueue
<1>4. TypeOK'
  BY <1>1, <1>2, <1>3 DEF TypeOK
<1>5. \A w \in Workers : claim[w].job # j /\ claim[w].job \in Jobs \cup {NoJob}
  BY <1>3, JobQueueAssumption DEF ClaimNumbers, TypeOK, Claim
<1>6. ClaimShape' /\ ClaimNumbers' /\ LockShape' /\ HolderSeesAttempt'
  BY <1>1, <1>2, <1>3, <1>5
     DEF ClaimShape, ClaimNumbers, LockShape, HolderSeesAttempt, InTransaction
<1>7. RowShape'
  BY <1>2 DEF RowShape
<1>8. DispatchIffOpen' /\ RunningIsLeased' /\ ResultOfLastAttempt'
  BY <1>1, <1>2, <1>3 DEF DispatchIffOpen, RunningIsLeased, ResultOfLastAttempt, Open, Terminal
<1>9. QED
  BY <1>4, <1>6, <1>7, <1>8

\* A new claim is numbered above every claim of the job held in memory: the
\* row is not locked, so none of them is still to be committed.
LEMMA ClaimNextIInv ==
  ASSUME IInv, NEW w \in Workers, NEW j \in Jobs, ClaimNext(w, j)
  PROVE  IInv'
<1> USE DEF IInv
<1> DEFINE tok == [worker |-> WorkerId[w], claim |-> dispatch[j].claims + 1]
<1>1. /\ dispatch[j].listed /\ dispatch[j].claims \in Nat /\ dispatch[j].claims + 1 \in 1 .. ClaimsBound
      /\ \A v \in Workers : claim[v].job = j => pc[v] \notin InTransaction
      /\ pc[w] = "idle"
  BY JobQueueAssumption DEF ClaimNext, IsNext, Ready, Locked, TypeOK, DispatchRow
<1>2. tok \in Token /\ tok.claim = dispatch[j].claims + 1
  BY <1>1 DEF Token
<1>3. /\ pc' = [pc EXCEPT ![w] = "claiming"] /\ claim' = [claim EXCEPT ![w] = [job |-> j, token |-> tok]]
      /\ due' = [due EXCEPT ![w] = now + Lease]
      /\ UNCHANGED <<now, jobs, dispatch, outcome, connected>>
  BY DEF ClaimNext
<1> HIDE DEF tok
<1>4. /\ pc'[w] = "claiming" /\ claim'[w].job = j /\ claim'[w].token = tok
      /\ \A v \in Workers \ {w} : pc'[v] = pc[v] /\ claim'[v] = claim[v]
  BY <1>3 DEF TypeOK
<1>5. TypeOK'
  BY <1>2, <1>3, JobQueueAssumption DEF TypeOK, Claim, InTransaction
<1>6. ClaimShape'
  BY <1>2, <1>3, <1>4, JobQueueAssumption DEF ClaimShape
<1>7. jobs[j].state # "absent"
  BY <1>1 DEF DispatchIffOpen, Open
<1>8. \A v \in Workers \ {w} : claim[v].job = j => claim[v].token.claim <= dispatch[j].claims
  BY <1>1, JobQueueAssumption DEF ClaimNumbers, InTransaction
<1>9. \A v \in Workers \ {w} : claim[v].job = j => claim[v].token.claim # tok.claim
  <2> SUFFICES ASSUME NEW v \in Workers \ {w}, claim[v].job = j
               PROVE  claim[v].token.claim # tok.claim
    OBVIOUS
  <2>1. claim[v].token \in Token
    BY JobQueueAssumption DEF ClaimShape
  <2>2. QED
    BY <1>1, <1>2, <1>8, <2>1, JobQueueAssumption DEF Token
<1>10. ClaimNumbers'
  BY <1>1, <1>2, <1>3, <1>4, <1>7, <1>9 DEF ClaimNumbers
<1>11. LockShape'
  BY <1>1, <1>3, <1>4 DEF LockShape
<1>12. HolderSeesAttempt'
  BY <1>3, <1>4 DEF HolderSeesAttempt
<1>13. RowShape' /\ DispatchIffOpen' /\ RunningIsLeased' /\ ResultOfLastAttempt'
  BY <1>3 DEF RowShape, DispatchIffOpen, RunningIsLeased, ResultOfLastAttempt, Open
<1>14. QED
  BY <1>5, <1>6, <1>10, <1>11, <1>12, <1>13

\* The committed token is newer than every other claim of the job, so no
\* other worker's token matches the row any more.
LEMMA ClaimCommitIInv ==
  ASSUME IInv, NEW w \in Workers, ClaimCommit(w)
  PROVE  IInv'
<1> USE DEF IInv
<1> DEFINE j == claim[w].job
           tok == claim[w].token
<1>1. pc[w] = "claiming" /\ j \in Jobs /\ tok \in Token /\ tok # NoToken
  BY JobQueueAssumption DEF ClaimCommit, ClaimShape, TypeOK, Claim, Token
<1>2. tok.claim = dispatch[j].claims + 1 /\ dispatch[j].listed /\ jobs[j].state # "absent"
  BY <1>1, JobQueueAssumption DEF ClaimNumbers, LockShape, InTransaction
<1>3. \A v \in Workers \ {w} :
        claim[v].job = j => /\ pc[v] \notin InTransaction
                            /\ claim[v].token.claim # tok.claim
                            /\ claim[v].token.claim <= dispatch[j].claims
  BY <1>1, <1>2, JobQueueAssumption DEF ClaimNumbers, LockShape, InTransaction
<1>4. /\ pc' = [pc EXCEPT ![w] = "claimed"] /\ due' = [due EXCEPT ![w] = 0]
      /\ UNCHANGED <<now, jobs, claim, outcome, connected>>
  BY DEF ClaimCommit
<1>5. /\ pc'[w] = "claimed"
      /\ \A v \in Workers \ {w} : pc'[v] = pc[v]
  BY <1>4 DEF TypeOK
<1>5a. /\ dispatch' = [dispatch EXCEPT ![j] =
                         [@ EXCEPT !.claims = tok.claim, !.token = tok, !.expiresAt = due[w]]]
      /\ dispatch[j] \in DispatchRow /\ due[w] \in Nat /\ tok.claim \in 0 .. ClaimsBound
  BY <1>1, JobQueueAssumption DEF ClaimCommit, TypeOK, Token
<1>6. /\ dispatch' \in [Jobs -> DispatchRow]
      /\ dispatch'[j].claims = tok.claim /\ dispatch'[j].token = tok
      /\ dispatch'[j].listed = dispatch[j].listed
      /\ \A i \in Jobs \ {j} : dispatch'[i] = dispatch[i]
  BY <1>1, <1>5a DEF TypeOK, DispatchRow
<1> HIDE DEF tok, j
<1>7. TypeOK'
  BY <1>4, <1>6 DEF TypeOK
<1>8. ClaimShape'
  BY <1>1, <1>4, <1>5, JobQueueAssumption DEF ClaimShape, j
<1>9. RowShape'
  BY <1>1, <1>2, <1>6 DEF RowShape
<1>10. \A v \in Workers : claim[v].job # NoJob => claim[v].job \in Jobs /\ claim[v].token \in Token
  BY DEF TypeOK, Claim, ClaimShape
<1>11. dispatch[j].claims \in Int /\ jobs[j].attempts \in Int /\ jobs[j].attempts <= dispatch[j].claims
  BY <1>1, <1>2 DEF TypeOK, DispatchRow, JobRow, RunningIsLeased, DispatchIffOpen
<1>12. ClaimNumbers'
  <2> SUFFICES ASSUME NEW v \in Workers, claim[v].job # NoJob
               PROVE  ClaimNumbers!(v)'
    BY <1>4 DEF ClaimNumbers
  <2>1. CASE claim[v].job # j
    BY <1>4, <1>5, <1>6, <1>10, <2>1 DEF ClaimNumbers, j
  <2>2. CASE v = w
    BY <1>1, <1>2, <1>3, <1>4, <1>5, <1>6, <2>2 DEF ClaimNumbers, j, tok, Token
  <2>3. CASE v # w /\ claim[v].job = j
    BY <1>1, <1>2, <1>3, <1>4, <1>5, <1>6, <1>10, <1>11, <2>3, SMTT(20)
       DEF ClaimNumbers, j, tok, Token, InTransaction
  <2>4. QED
    BY <2>1, <2>2, <2>3
<1>13. LockShape'
  BY <1>1, <1>3, <1>4, <1>5, <1>6, <1>10, JobQueueAssumption DEF LockShape, InTransaction, ClaimShape, j
<1>14. HolderSeesAttempt'
  BY <1>1, <1>2, <1>3, <1>4, <1>5, <1>6, <1>10, <1>11 DEF HolderSeesAttempt, j, tok
<1>15. DispatchIffOpen' /\ RunningIsLeased' /\ ResultOfLastAttempt'
  <2>1. DispatchIffOpen' /\ ResultOfLastAttempt'
    BY <1>4, <1>6 DEF DispatchIffOpen, ResultOfLastAttempt, Open
  <2>2. RunningIsLeased'
    BY <1>1, <1>2, <1>4, <1>6, <1>11 DEF RunningIsLeased, Open
  <2>3. QED
    BY <2>1, <2>2
<1>16. QED
  BY <1>7, <1>8, <1>9, <1>12, <1>13, <1>14, <1>15

\* A worker that only moves on, keeping its claim and leaving the tables
\* alone (Load, FetchEnds, Record).
LEMMA MoveIInv ==
  ASSUME IInv, NEW w \in Workers, NEW from, NEW to,
         pc[w] = from, pc' = [pc EXCEPT ![w] = to],
         <<from, to>> \in {<<"claimed", "loading">>, <<"fetching", "fetched">>,
                          <<"fetched", "recording">>},
         to \in InTransaction => LeaseHeld(w) /\ ~Locked(claim[w].job),
         outcome' \in [Workers -> {"none"} \cup Terminal],
         \A v \in Workers \ {w} : outcome'[v] = outcome[v],
         to \in {"fetched", "recording"} => outcome'[w] \in Terminal,
         due' \in [Workers -> Nat],
         UNCHANGED <<now, jobs, dispatch, claim, connected>>
  PROVE  IInv'
<1> USE DEF IInv
<1>1. /\ pc'[w] = to
      /\ \A v \in Workers \ {w} : pc'[v] = pc[v] /\ outcome'[v] = outcome[v]
  BY DEF TypeOK
<1>2. TypeOK'
  BY DEF TypeOK, InTransaction
<1>3. ClaimShape'
  BY <1>1 DEF ClaimShape
<1>4. ClaimNumbers'
  BY <1>1 DEF ClaimNumbers
<1>5. LockShape'
  <2> SUFFICES ASSUME NEW v \in Workers, pc'[v] \in InTransaction
               PROVE  LockShape!(v)'
    BY DEF LockShape
  <2>1. CASE v = w
    BY <1>1, <2>1 DEF LockShape, LeaseHeld, Locked, InTransaction
  <2>2. CASE v # w
    BY <1>1, <2>2 DEF LockShape, Locked
  <2>3. QED
    BY <2>1, <2>2
<1>6. HolderSeesAttempt'
  BY <1>1 DEF HolderSeesAttempt
<1>7. RowShape' /\ DispatchIffOpen' /\ RunningIsLeased' /\ ResultOfLastAttempt'
  BY DEF RowShape, DispatchIffOpen, RunningIsLeased, ResultOfLastAttempt, Open
<1>8. QED
  BY <1>2, <1>3, <1>4, <1>5, <1>6, <1>7

\* A worker that drops its claim and leaves the tables alone (LeaseLost,
\* StoreError, Disconnect, Stop).
LEMMA RestIInv ==
  ASSUME IInv, NEW w \in Workers, NEW next \in {"idle", "stopped"}, Rest(w, next),
         UNCHANGED <<now, jobs, dispatch>>, connected' \in [Workers -> BOOLEAN]
  PROVE  IInv'
<1> USE DEF IInv
<1>1. /\ pc'[w] = next /\ claim'[w].job = NoJob
      /\ \A v \in Workers \ {w} : pc'[v] = pc[v] /\ claim'[v] = claim[v] /\ outcome'[v] = outcome[v]
  BY DEF Rest, TypeOK, NoClaim
<1>2. TypeOK'
  BY DEF Rest, TypeOK, NoClaim, Claim
<1>3. ClaimShape'
  BY <1>1 DEF ClaimShape
<1>4. ClaimNumbers'
  BY <1>1 DEF ClaimNumbers
<1>5. LockShape'
  BY <1>1 DEF LockShape, InTransaction
<1>6. HolderSeesAttempt'
  BY <1>1 DEF HolderSeesAttempt
<1>7. RowShape' /\ DispatchIffOpen' /\ RunningIsLeased' /\ ResultOfLastAttempt'
  BY DEF RowShape, DispatchIffOpen, RunningIsLeased, ResultOfLastAttempt, Open
<1>8. QED
  BY <1>2, <1>3, <1>4, <1>5, <1>6, <1>7

\* Under its row lock the loading worker is still the holder, so it marks
\* its own attempt and no other worker's.
LEMMA LoadCommitIInv ==
  ASSUME IInv, NEW w \in Workers, LoadCommit(w)
  PROVE  IInv'
<1> USE DEF IInv
<1> DEFINE j == claim[w].job
           tok == claim[w].token
<1>1. /\ pc[w] = "loading" /\ j \in Jobs /\ tok \in Token /\ Open(j)
      /\ dispatch[j].listed /\ dispatch[j].token = tok /\ tok # NoToken
      /\ dispatch[j].claims = tok.claim /\ tok.claim \in 0 .. ClaimsBound
  BY JobQueueAssumption, SMTT(20)
     DEF LoadCommit, ClaimShape, LockShape, RowShape, InTransaction, TypeOK, Claim, Token
<1>2. /\ \A v \in Workers \ {w} : pc'[v] = pc[v] /\ outcome'[v] = outcome[v]
      /\ pc'[w] \in {"fetching", "fetched"}
      /\ pc'[w] = "fetched" => outcome'[w] \in Terminal
      /\ UNCHANGED <<now, dispatch, claim, due, connected>>
  BY DEF LoadCommit, TypeOK, Terminal
<1>3. /\ jobs' \in [Jobs -> JobRow]
      /\ jobs'[j].state = "running" /\ jobs'[j].attempts = tok.claim
      /\ jobs'[j].result = jobs[j].result
      /\ \A i \in Jobs \ {j} : jobs'[i] = jobs[i]
  BY <1>1 DEF LoadCommit, TypeOK, JobRow
<1>4. TypeOK'
  BY <1>2, <1>3 DEF TypeOK, LoadCommit, Terminal
<1>5. \A v \in Workers \ {w} : claim[v].job = j => claim[v].token # tok
  BY <1>1, JobQueueAssumption DEF ClaimNumbers
<1>6. \A v \in Workers : claim[v].job # NoJob => claim[v].job \in Jobs
  BY DEF TypeOK, Claim
<1> HIDE DEF j, tok
<1>7. ClaimShape'
  BY <1>1, <1>2, JobQueueAssumption DEF ClaimShape, j
<1>8. ClaimNumbers'
  BY <1>1, <1>2, <1>3, <1>6 DEF ClaimNumbers, j
<1>9. LockShape'
  BY <1>2 DEF LockShape, InTransaction
<1>10. HolderSeesAttempt'
  <2> SUFFICES ASSUME NEW v \in Workers, claim[v].job # NoJob,
                      dispatch[claim[v].job].token = claim[v].token
               PROVE  HolderSeesAttempt!(v)'
    BY <1>2 DEF HolderSeesAttempt
  <2>1. CASE v = w
    BY <1>1, <1>2, <1>3, <2>1 DEF j, tok
  <2>2. CASE v # w
    BY <1>1, <1>2, <1>3, <1>5, <1>6, <2>2 DEF HolderSeesAttempt, j
  <2>3. QED
    BY <2>1, <2>2
<1>11. RowShape' /\ DispatchIffOpen'
  BY <1>1, <1>2, <1>3 DEF RowShape, DispatchIffOpen, Open
<1>12. RunningIsLeased'
  BY <1>1, <1>2, <1>3 DEF RunningIsLeased, Open, Token
<1>13. ResultOfLastAttempt'
  BY <1>1, <1>3 DEF ResultOfLastAttempt, Open, Terminal
<1>14. QED
  BY <1>4, <1>7, <1>8, <1>9, <1>10, <1>11, <1>12, <1>13

\* What a worker about to publish the end of its attempt knows: it is the
\* holder, the job shows its own attempt, and no one else holds the lock.
LEMMA RecordingHolder ==
  ASSUME IInv, NEW w \in Workers, pc[w] = "recording"
  PROVE  /\ claim[w].job \in Jobs /\ claim[w].token \in Token /\ outcome[w] \in Terminal
         /\ dispatch[claim[w].job].listed /\ dispatch[claim[w].job].token = claim[w].token
         /\ jobs[claim[w].job].state = "running"
         /\ jobs[claim[w].job].attempts = claim[w].token.claim
         /\ \A v \in Workers \ {w} : claim[v].job = claim[w].job => pc[v] \notin InTransaction
BY JobQueueAssumption DEF IInv, ClaimShape, LockShape, HolderSeesAttempt, InTransaction,
                          TypeOK, Claim

\* The result published is that of the attempt the row counts, and the job
\* leaves the dispatch table in the same step.
LEMMA CompleteCommitIInv ==
  ASSUME IInv, NEW w \in Workers, CompleteCommit(w)
  PROVE  IInv'
<1> USE DEF IInv
<1> DEFINE j == claim[w].job
<1>1. pc[w] = "recording"
  BY DEF CompleteCommit
<1>2. /\ j \in Jobs /\ claim[w].token \in Token /\ outcome[w] \in Terminal
      /\ jobs[j].state = "running" /\ jobs[j].attempts = claim[w].token.claim
      /\ \A v \in Workers \ {w} : claim[v].job = j => pc[v] \notin InTransaction
  BY <1>1, RecordingHolder
<1>3. /\ pc'[w] = "idle" /\ claim'[w].job = NoJob
      /\ \A v \in Workers \ {w} : pc'[v] = pc[v] /\ claim'[v] = claim[v] /\ outcome'[v] = outcome[v]
  BY DEF CompleteCommit, Rest, TypeOK, NoClaim
<1>4. /\ dispatch' \in [Jobs -> DispatchRow]
      /\ ~dispatch'[j].listed /\ dispatch'[j].token = NoToken
      /\ \A i \in Jobs \ {j} : dispatch'[i] = dispatch[i]
  BY <1>2, JobQueueAssumption DEF CompleteCommit, TypeOK, NoDispatchRow, DispatchRow
<1>5. /\ jobs' \in [Jobs -> JobRow]
      /\ jobs'[j].state = outcome[w] /\ jobs'[j].attempts = jobs[j].attempts
      /\ jobs'[j].result.status = outcome[w] /\ jobs'[j].result.token = claim[w].token
      /\ \A i \in Jobs \ {j} : jobs'[i] = jobs[i]
  <2>1. [status |-> outcome[w], token |-> claim[w].token] \in Result
    BY <1>2 DEF Result
  <2>2. QED
    BY <1>2, <2>1 DEF CompleteCommit, TypeOK, JobRow
<1>6. TypeOK'
  BY <1>4, <1>5 DEF TypeOK, CompleteCommit, Rest, NoClaim, Claim
<1>7. \A v \in Workers : claim[v].job # NoJob => claim[v].job \in Jobs /\ claim[v].token \in Token
  BY DEF TypeOK, Claim, ClaimShape
<1>8. outcome[w] # "absent" /\ outcome[w] \notin {"queued", "running"}
  BY <1>2 DEF Terminal
<1> HIDE DEF j
<1>9. ClaimShape'
  BY <1>3 DEF ClaimShape
<1>10. ClaimNumbers'
  <2> SUFFICES ASSUME NEW v \in Workers, claim'[v].job # NoJob
               PROVE  ClaimNumbers!(v)'
    BY DEF ClaimNumbers
  <2>1. v # w /\ claim'[v] = claim[v] /\ pc'[v] = pc[v] /\ claim[v].job \in Jobs
    BY <1>3, <1>7
  <2>2. CASE claim[v].job = j
    BY <1>2, <1>3, <1>4, <1>5, <1>8, <2>1, <2>2 DEF ClaimNumbers, InTransaction
  <2>3. CASE claim[v].job # j
    BY <1>3, <1>4, <1>5, <2>1, <2>3 DEF ClaimNumbers
  <2>4. QED
    BY <2>2, <2>3
<1>11. LockShape'
  BY <1>2, <1>3, <1>4, <1>7, JobQueueAssumption DEF LockShape, ClaimShape, InTransaction
<1>12. HolderSeesAttempt'
  BY <1>3, <1>4, <1>5, <1>7, JobQueueAssumption DEF HolderSeesAttempt, Token
<1>13. RowShape' /\ DispatchIffOpen'
  BY <1>4, <1>5, <1>8 DEF RowShape, DispatchIffOpen, Open
<1>14. RunningIsLeased'
  BY <1>4, <1>5, <1>8 DEF RunningIsLeased, Open
<1>15. ResultOfLastAttempt'
  BY <1>2, <1>5 DEF ResultOfLastAttempt
<1>16. QED
  BY <1>6, <1>9, <1>10, <1>11, <1>12, <1>13, <1>14, <1>15

\* A released row has no holder and its job is queued.
LEMMA ReleaseCommitIInv ==
  ASSUME IInv, NEW w \in Workers, ReleaseCommit(w)
  PROVE  IInv'
<1> USE DEF IInv
<1> DEFINE j == claim[w].job
<1>1. pc[w] = "recording"
  BY DEF ReleaseCommit
<1>2. /\ j \in Jobs /\ claim[w].token \in Token
      /\ dispatch[j].listed /\ jobs[j].state = "running"
      /\ \A v \in Workers \ {w} : claim[v].job = j => pc[v] \notin InTransaction
  BY <1>1, RecordingHolder
<1>3. /\ pc'[w] = "idle" /\ claim'[w].job = NoJob
      /\ \A v \in Workers \ {w} : pc'[v] = pc[v] /\ claim'[v] = claim[v] /\ outcome'[v] = outcome[v]
  BY DEF ReleaseCommit, Rest, TypeOK, NoClaim
<1>3a. /\ dispatch' = [dispatch EXCEPT ![j] =
                          [@ EXCEPT !.token = NoToken, !.expiresAt = 0, !.availableAt = due[w]]]
       /\ dispatch[j] \in DispatchRow /\ due[w] \in Nat
  BY <1>2 DEF ReleaseCommit, TypeOK
<1>4. /\ dispatch' \in [Jobs -> DispatchRow]
      /\ dispatch'[j].listed /\ dispatch'[j].token = NoToken
      /\ dispatch'[j].claims = dispatch[j].claims
      /\ \A i \in Jobs \ {j} : dispatch'[i] = dispatch[i]
  BY <1>2, <1>3a DEF TypeOK, DispatchRow
<1>5. /\ jobs' \in [Jobs -> JobRow]
      /\ jobs'[j].state = "queued" /\ jobs'[j].attempts = jobs[j].attempts
      /\ jobs'[j].result = jobs[j].result
      /\ \A i \in Jobs \ {j} : jobs'[i] = jobs[i]
  BY <1>2 DEF ReleaseCommit, TypeOK, JobRow
<1>6. TypeOK'
  BY <1>4, <1>5 DEF TypeOK, ReleaseCommit, Rest, NoClaim, Claim
<1>7. \A v \in Workers : claim[v].job # NoJob => claim[v].job \in Jobs /\ claim[v].token \in Token
  BY DEF TypeOK, Claim, ClaimShape
<1> HIDE DEF j
<1>8. ClaimShape'
  BY <1>3 DEF ClaimShape
<1>9. ClaimNumbers'
  <2> SUFFICES ASSUME NEW v \in Workers, claim'[v].job # NoJob
               PROVE  ClaimNumbers!(v)'
    BY DEF ClaimNumbers
  <2>1. v # w /\ claim'[v] = claim[v] /\ pc'[v] = pc[v] /\ claim[v].job \in Jobs
    BY <1>3, <1>7
  <2>2. CASE claim[v].job = j
    BY <1>2, <1>3, <1>4, <1>5, <2>1, <2>2 DEF ClaimNumbers, InTransaction
  <2>3. CASE claim[v].job # j
    BY <1>3, <1>4, <1>5, <2>1, <2>3 DEF ClaimNumbers
  <2>4. QED
    BY <2>2, <2>3
<1>10. LockShape'
  BY <1>2, <1>3, <1>4, <1>7, JobQueueAssumption DEF LockShape, ClaimShape, InTransaction
<1>11. HolderSeesAttempt'
  BY <1>3, <1>4, <1>5, <1>7, JobQueueAssumption DEF HolderSeesAttempt, Token
<1>12. RowShape' /\ DispatchIffOpen'
  BY <1>2, <1>4, <1>5 DEF RowShape, DispatchIffOpen, Open
<1>13. RunningIsLeased'
  BY <1>2, <1>4, <1>5 DEF RunningIsLeased, Open
<1>14. ResultOfLastAttempt'
  BY <1>2, <1>5 DEF ResultOfLastAttempt, Terminal
<1>15. QED
  BY <1>6, <1>8, <1>9, <1>10, <1>11, <1>12, <1>13, <1>14

\* Every step keeps the invariant.
LEMMA StepIInv ==
  ASSUME IInv, [Next]_vars
  PROVE  IInv'
<1>1. CASE UNCHANGED vars
  BY <1>1 DEF vars, IInv, TypeOK, ClaimShape, RowShape, ClaimNumbers, LockShape,
              HolderSeesAttempt, DispatchIffOpen, RunningIsLeased, ResultOfLastAttempt, Open
<1>2. ASSUME NEW j \in Jobs, Enqueue(j) PROVE IInv'
  BY <1>2, EnqueueIInv
<1>3. ASSUME NEW w \in Workers, NEW j \in Jobs, ClaimNext(w, j) PROVE IInv'
  BY <1>3, ClaimNextIInv
<1>4. ASSUME NEW w \in Workers, ClaimCommit(w) PROVE IInv'
  BY <1>4, ClaimCommitIInv
<1>5. ASSUME NEW w \in Workers, Load(w) PROVE IInv'
  <2>1. outcome \in [Workers -> {"none"} \cup Terminal] /\ due \in [Workers -> Nat]
    BY DEF IInv, TypeOK
  <2>2. QED
    BY <1>5, <2>1, MoveIInv DEF Load
<1>6. ASSUME NEW w \in Workers, LoadCommit(w) PROVE IInv'
  BY <1>6, LoadCommitIInv
<1>7. ASSUME NEW w \in Workers, FetchEnds(w) PROVE IInv'
  <2>1. PICK status \in Terminal : outcome' = [outcome EXCEPT ![w] = status]
    BY <1>7 DEF FetchEnds
  <2>2. /\ outcome' \in [Workers -> {"none"} \cup Terminal] /\ outcome'[w] \in Terminal
        /\ \A v \in Workers \ {w} : outcome'[v] = outcome[v]
        /\ due \in [Workers -> Nat]
    BY <2>1 DEF IInv, TypeOK
  <2>3. QED
    BY <1>7, <2>2, MoveIInv DEF FetchEnds, InTransaction
<1>8. ASSUME NEW w \in Workers, Record(w) PROVE IInv'
  <2>1. /\ outcome \in [Workers -> {"none"} \cup Terminal] /\ outcome[w] \in Terminal
    BY <1>8 DEF IInv, TypeOK, ClaimShape, Record
  <2>2. due' \in [Workers -> Nat]
    BY <1>8, RetryDelayType DEF Record, IInv, TypeOK
  <2>3. QED
    BY <1>8, <2>1, <2>2, MoveIInv DEF Record
<1>9. ASSUME NEW w \in Workers, CompleteCommit(w) PROVE IInv'
  BY <1>9, CompleteCommitIInv
<1>10. ASSUME NEW w \in Workers, ReleaseCommit(w) PROVE IInv'
  BY <1>10, ReleaseCommitIInv
<1>11. ASSUME NEW w \in Workers, LeaseLost(w) \/ StoreError(w) PROVE IInv'
  <2>1. connected \in [Workers -> BOOLEAN]
    BY DEF IInv, TypeOK
  <2>2. QED
    BY <1>11, <2>1, RestIInv DEF LeaseLost, StoreError
<1>12. ASSUME NEW w \in Workers, Stop(w) PROVE IInv'
  <2>1. connected' \in [Workers -> BOOLEAN]
    BY <1>12 DEF IInv, TypeOK, Stop
  <2>2. QED
    BY <1>12, <2>1, RestIInv DEF Stop
<1>13. ASSUME NEW w \in Workers, Disconnect(w) PROVE IInv'
  <2>1. connected' \in [Workers -> BOOLEAN]
    BY <1>13 DEF IInv, TypeOK, Disconnect
  <2>2. CASE pc[w] \in InTransaction
    BY <1>13, <2>1, <2>2, RestIInv DEF Disconnect
  <2>3. CASE pc[w] \notin InTransaction
    BY <1>13, <2>1, <2>3
       DEF Disconnect, IInv, TypeOK, ClaimShape, RowShape, ClaimNumbers, LockShape,
           HolderSeesAttempt, DispatchIffOpen, RunningIsLeased, ResultOfLastAttempt, Open
  <2>4. QED
    BY <2>2, <2>3
<1>14. ASSUME NEW w \in Workers, Start(w) PROVE IInv'
  <2> USE DEF IInv
  <2>1. /\ pc'[w] = "idle" /\ \A v \in Workers \ {w} : pc'[v] = pc[v]
        /\ pc[w] = "stopped" /\ claim[w].job = NoJob
        /\ UNCHANGED <<now, jobs, dispatch, claim, outcome, due>>
    BY <1>14 DEF Start, TypeOK, ClaimShape
  <2>2. TypeOK'
    BY <1>14 DEF TypeOK, Start
  <2>3. ClaimShape' /\ ClaimNumbers' /\ LockShape' /\ HolderSeesAttempt'
    BY <2>1 DEF ClaimShape, ClaimNumbers, LockShape, HolderSeesAttempt, InTransaction
  <2>4. RowShape' /\ DispatchIffOpen' /\ RunningIsLeased' /\ ResultOfLastAttempt'
    BY <2>1 DEF RowShape, DispatchIffOpen, RunningIsLeased, ResultOfLastAttempt, Open
  <2>5. QED
    BY <2>2, <2>3, <2>4
<1>15. ASSUME Tick PROVE IInv'
  BY <1>15
     DEF Tick, IInv, TypeOK, ClaimShape, RowShape, ClaimNumbers, LockShape,
         HolderSeesAttempt, DispatchIffOpen, RunningIsLeased, ResultOfLastAttempt, Open
<1>16. QED
  BY <1>1, <1>2, <1>3, <1>4, <1>5, <1>6, <1>7, <1>8, <1>9, <1>10, <1>11, <1>12, <1>13,
     <1>14, <1>15 DEF Next, Work

\* The inductive invariant holds throughout.
THEOREM InductiveInvariant == Spec => []IInv
<1>1. Init => IInv
  BY InitIInv
<1>2. IInv /\ [Next]_vars => IInv'
  BY StepIInv
<1>3. QED
  BY <1>1, <1>2, PTL DEF Spec

\* Every variable keeps its type.
THEOREM TypeCorrect == Spec => []TypeOK
<1>1. IInv => TypeOK
  BY DEF IInv
<1>2. QED
  BY <1>1, InductiveInvariant, PTL

\* A job has a dispatch row exactly while it has no result.
THEOREM TablesAgree == Spec => []DispatchIffOpen
<1>1. IInv => DispatchIffOpen
  BY DEF IInv
<1>2. QED
  BY <1>1, InductiveInvariant, PTL

\* Fencing: at most one worker passes LEASE_HELD for a job, whatever the
\* worker ids, the lease length and the delays.
THEOREM Fencing == Spec => []OneLeaseHolder
<1>1. IInv => OneLeaseHolder
  BY DEF IInv, ClaimNumbers, OneLeaseHolder, LeaseHeld
<1>2. QED
  BY <1>1, InductiveInvariant, PTL

\* The result a client reads is that of the last attempt the row counts.
THEOREM ResultIsLatest == Spec => []ResultOfLastAttempt
<1>1. IInv => ResultOfLastAttempt
  BY DEF IInv
<1>2. QED
  BY <1>1, InductiveInvariant, PTL

\* A running job is leased at its latest claim.
THEOREM RunningLeased == Spec => []RunningIsLeased
<1>1. IInv => RunningIsLeased
  BY DEF IInv
<1>2. QED
  BY <1>1, InductiveInvariant, PTL

-----------------------------------------------------------------------------
(* Refinement: the queue implements JobLifecycle.                          *)

Rows == [j \in Jobs |-> PublicRow(j)]

\* The public row of a job depends on its row of p02.jobs alone.
LEMMA SamePublicRow ==
  ASSUME NEW j \in Jobs, jobs'[j] = jobs[j]
  PROVE  PublicRow(j)' = PublicRow(j)
BY DEF PublicRow

\* A step that leaves p02.jobs alone is a stutter of the lifecycle.
LEMMA TableStutter ==
  ASSUME UNCHANGED jobs
  PROVE  Rows' = Rows
BY DEF Rows, PublicRow

LEMMA RefineInit == Init => Lifecycle!Init
BY DEF Init, Lifecycle!Init, Lifecycle!NewRow, PublicRow, NoJobRow, NoResult

\* A step that changes the row of one job changes its public row alone.
LEMMA OneRow ==
  ASSUME NEW j \in Jobs, \A i \in Jobs \ {j} : jobs'[i] = jobs[i]
  PROVE  Rows' = [Rows EXCEPT ![j] = PublicRow(j)']
BY DEF Rows, PublicRow

LEMMA RefineEnqueue ==
  ASSUME IInv, NEW j \in Jobs, Enqueue(j)
  PROVE  Lifecycle!Submit(j)
<1>1. /\ jobs[j].state = "absent"
      /\ jobs'[j].state = "queued" /\ jobs'[j].attempts = 0 /\ jobs'[j].result = NoResult
      /\ \A i \in Jobs \ {j} : jobs'[i] = jobs[i]
  BY DEF Enqueue, IInv, TypeOK
<1>2. PublicRow(j)' = [state |-> "queued", attempts |-> 0, status |-> "none", reports |-> 0]
  BY <1>1 DEF PublicRow, NoResult
<1>3. Rows' = [Rows EXCEPT ![j] = PublicRow(j)']
  BY <1>1, OneRow
<1>4. Rows[j].state = "absent"
  BY <1>1 DEF Rows, PublicRow
<1>5. QED
  BY <1>2, <1>3, <1>4 DEF Lifecycle!Submit, Lifecycle!NewRow, Rows

\* Marking the job running is the start of a new attempt.
LEMMA RefineLoad ==
  ASSUME IInv, NEW w \in Workers, LoadCommit(w), NEW j \in Jobs, j = claim[w].job,
         NEW n \in 1 .. ClaimsBound, n = claim[w].token.claim
  PROVE  Lifecycle!Attempt(j, n)
<1>1. pc[w] = "loading" /\ j # NoJob /\ dispatch[j].token = claim[w].token
  BY JobQueueAssumption DEF LoadCommit, IInv, LockShape, InTransaction
<1>2. jobs[j].attempts < n
  BY <1>1 DEF IInv, HolderSeesAttempt
<1>3. /\ jobs[j].state \in {"queued", "running"}
      /\ jobs'[j].state = "running" /\ jobs'[j].attempts = n
      /\ jobs'[j].result = jobs[j].result
      /\ \A i \in Jobs \ {j} : jobs'[i] = jobs[i]
  BY <1>1 DEF LoadCommit, Open, IInv, TypeOK, JobRow
<1>4. PublicRow(j)' = [state |-> "running", attempts |-> n,
                       status |-> PublicRow(j).status, reports |-> PublicRow(j).reports]
  BY <1>3 DEF PublicRow, NoResult
<1>5. Rows' = [Rows EXCEPT ![j] = PublicRow(j)']
  BY <1>3, OneRow
<1>6. Rows[j] = PublicRow(j)
  BY DEF Rows
<1>7. Rows[j].state = jobs[j].state /\ Rows[j].attempts = jobs[j].attempts
  BY <1>6 DEF PublicRow
<1>8. n > Rows[j].attempts
  BY <1>2, <1>7 DEF IInv, TypeOK, JobRow
<1>9. QED
  BY <1>3, <1>4, <1>5, <1>6, <1>7, <1>8 DEF Lifecycle!Attempt, Rows

\* Giving a job back happens only while claims are left.
LEMMA RefineRelease ==
  ASSUME IInv, NEW w \in Workers, ReleaseCommit(w), NEW j \in Jobs, j = claim[w].job
  PROVE  Lifecycle!GiveBack(j)
<1>1. pc[w] = "recording" /\ claim[w].token.claim < MaxClaims
  BY DEF ReleaseCommit, Retries
<1>2. jobs[j].state = "running" /\ jobs[j].attempts < MaxClaims
  BY <1>1, RecordingHolder
<1>3. /\ jobs'[j].state = "queued" /\ jobs'[j].attempts = jobs[j].attempts
      /\ jobs'[j].result = jobs[j].result
      /\ \A i \in Jobs \ {j} : jobs'[i] = jobs[i]
  BY DEF ReleaseCommit, IInv, TypeOK, JobRow
<1>4. PublicRow(j)' = [PublicRow(j) EXCEPT !.state = "queued"]
  BY <1>3 DEF PublicRow, NoResult
<1>5. Rows' = [Rows EXCEPT ![j] = PublicRow(j)']
  BY <1>3, OneRow
<1>6. Rows[j] = PublicRow(j)
  BY DEF Rows
<1>7. Rows[j].state = jobs[j].state /\ Rows[j].attempts = jobs[j].attempts
  BY <1>6 DEF PublicRow
<1>8. QED
  BY <1>2, <1>4, <1>5, <1>6, <1>7 DEF Lifecycle!GiveBack, Rows

\* A result is recorded once, reports the last attempt, and is failed only
\* when no claims are left.
LEMMA RefineComplete ==
  ASSUME IInv, NEW w \in Workers, CompleteCommit(w), NEW j \in Jobs, j = claim[w].job
  PROVE  \E status \in Terminal : Lifecycle!Conclude(j, status)
<1>1. pc[w] = "recording" /\ ~Retries(w)
  BY DEF CompleteCommit
<1>2. /\ outcome[w] \in Terminal /\ claim[w].token \in Token
      /\ jobs[j].state = "running" /\ jobs[j].attempts = claim[w].token.claim
  BY <1>1, RecordingHolder
<1>3. outcome[w] = "failed" => jobs[j].attempts >= MaxClaims
  BY <1>1, <1>2, JobQueueAssumption DEF Retries, Token
<1>4. /\ jobs'[j].state = outcome[w] /\ jobs'[j].attempts = jobs[j].attempts
      /\ jobs'[j].result = [status |-> outcome[w], token |-> claim[w].token]
      /\ \A i \in Jobs \ {j} : jobs'[i] = jobs[i]
  BY DEF CompleteCommit, IInv, TypeOK, JobRow
<1>5. jobs'[j].result # NoResult /\ jobs'[j].result.status = outcome[w]
      /\ jobs'[j].result.token.claim = jobs[j].attempts
  BY <1>2, <1>4 DEF NoResult, Terminal
<1>6. PublicRow(j)' = [state |-> outcome[w], attempts |-> jobs[j].attempts,
                       status |-> outcome[w], reports |-> jobs[j].attempts]
  BY <1>4, <1>5 DEF PublicRow
<1>7. Rows' = [Rows EXCEPT ![j] = PublicRow(j)']
  BY <1>4, OneRow
<1>8. Rows[j] = PublicRow(j)
  BY DEF Rows
<1>9. Rows[j].state = jobs[j].state /\ Rows[j].attempts = jobs[j].attempts
  BY <1>8 DEF PublicRow
<1>10. Lifecycle!Conclude(j, outcome[w])
  BY <1>2, <1>3, <1>6, <1>7, <1>8, <1>9 DEF Lifecycle!Conclude, Rows
<1>11. QED
  BY <1>2, <1>10

\* Every step of the queue is a step of the lifecycle, or a stutter.
LEMMA RefineStep == IInv /\ [Next]_vars => [Lifecycle!Next]_Rows
<1> SUFFICES ASSUME IInv, [Next]_vars PROVE Lifecycle!Next \/ UNCHANGED Rows
  OBVIOUS
<1>1. CASE UNCHANGED jobs
  BY <1>1, TableStutter
<1>2. ASSUME NEW j \in Jobs, Enqueue(j) PROVE Lifecycle!Next
  BY <1>2, RefineEnqueue DEF Lifecycle!Next
<1>3. ASSUME NEW w \in Workers, LoadCommit(w) PROVE Lifecycle!Next
  <2>1. PICK j \in Jobs : j = claim[w].job
    BY <1>3 DEF LoadCommit, IInv, TypeOK, Claim, ClaimShape
  <2>2. PICK n \in 1 .. ClaimsBound : n = claim[w].token.claim
    BY <1>3, <2>1, JobQueueAssumption DEF LoadCommit, IInv, ClaimShape, Token
  <2>3. QED
    BY <1>3, <2>1, <2>2, RefineLoad DEF Lifecycle!Next
<1>4. ASSUME NEW w \in Workers, ReleaseCommit(w) PROVE Lifecycle!Next
  <2>1. PICK j \in Jobs : j = claim[w].job
    BY <1>4, RecordingHolder DEF ReleaseCommit
  <2>2. QED
    BY <1>4, <2>1, RefineRelease DEF Lifecycle!Next
<1>5. ASSUME NEW w \in Workers, CompleteCommit(w) PROVE Lifecycle!Next
  <2>1. PICK j \in Jobs : j = claim[w].job
    BY <1>5, RecordingHolder DEF CompleteCommit
  <2>2. PICK status \in Terminal : Lifecycle!Conclude(j, status)
    BY <1>5, <2>1, RefineComplete
  <2>3. QED
    BY <2>2 DEF Lifecycle!Next, Lifecycle!Terminal, Terminal
<1>6. QED
  BY <1>1, <1>2, <1>3, <1>4, <1>5
     DEF Next, Work, vars, ClaimNext, ClaimCommit, Load, FetchEnds, Record, LeaseLost,
         StoreError, Disconnect, Stop, Start, Tick

\* The queue implements the job lifecycle for any jobs, workers, worker ids,
\* lease, retry delays and claim bounds.
THEOREM Refinement == Spec => ImplementsLifecycle
<1>1. Init => Lifecycle!Init
  BY RefineInit
<1>2. IInv /\ [Next]_vars => [Lifecycle!Next]_Rows
  BY RefineStep
<1>3. QED
  BY <1>1, <1>2, InductiveInvariant, PTL DEF Spec, ImplementsLifecycle, Lifecycle!Spec, Rows

\* A job nobody submitted counts no attempts.
Untouched == \A j \in Jobs : jobs[j].state = "absent" => jobs[j].attempts = 0

LEMMA UntouchedHolds == Spec => []Untouched
<1>1. Init => Untouched
  BY DEF Init, Untouched, NoJobRow
<1>2. IInv /\ Untouched /\ [Next]_vars => Untouched'
  <2> SUFFICES ASSUME IInv, Untouched, [Next]_vars, NEW j \in Jobs, jobs'[j].state = "absent"
               PROVE  jobs'[j] = jobs[j]
    BY DEF Untouched
  <2>1. jobs \in [Jobs -> JobRow] /\ jobs[j] \in JobRow
    BY DEF IInv, TypeOK
  <2>2. ASSUME NEW i \in Jobs, Enqueue(i) PROVE jobs'[j] = jobs[j]
    BY <2>1, <2>2 DEF Enqueue
  <2>3. ASSUME NEW w \in Workers, LoadCommit(w) PROVE jobs'[j] = jobs[j]
    <3>1. claim[w].job = j => jobs'[j].state = "running"
      BY <2>1, <2>3 DEF LoadCommit, JobRow
    <3>2. QED
      BY <2>1, <2>3, <3>1 DEF LoadCommit
  <2>4. ASSUME NEW w \in Workers, CompleteCommit(w) PROVE jobs'[j] = jobs[j]
    <3>1. outcome[w] \in Terminal
      BY <2>4, RecordingHolder DEF CompleteCommit
    <3>2. claim[w].job = j => jobs'[j].state = outcome[w]
      BY <2>1, <2>4 DEF CompleteCommit, JobRow
    <3>3. QED
      BY <2>1, <2>4, <3>1, <3>2 DEF CompleteCommit, Terminal
  <2>5. ASSUME NEW w \in Workers, ReleaseCommit(w) PROVE jobs'[j] = jobs[j]
    <3>1. claim[w].job = j => jobs'[j].state = "queued"
      BY <2>1, <2>5 DEF ReleaseCommit, JobRow
    <3>2. QED
      BY <2>1, <2>5, <3>1 DEF ReleaseCommit
  <2>6. QED
    BY <2>2, <2>3, <2>4, <2>5
       DEF Next, Work, vars, ClaimNext, ClaimCommit, Load, FetchEnds, Record, LeaseLost,
           StoreError, Disconnect, Stop, Start, Tick
<1>3. QED
  BY <1>1, <1>2, InductiveInvariant, PTL DEF Spec

\* The number of attempts of a job never goes back.
THEOREM AttemptsGrow == Spec => AttemptsNeverRewind
<1>1. IInv /\ Untouched /\ [Next]_vars
        => [\A j \in Jobs : jobs'[j].attempts >= jobs[j].attempts]_vars
  <2> SUFFICES ASSUME IInv, Untouched, [Next]_vars, NEW j \in Jobs
               PROVE  jobs'[j].attempts >= jobs[j].attempts
    OBVIOUS
  <2>1. jobs[j].attempts \in Nat /\ jobs[j] \in JobRow /\ jobs \in [Jobs -> JobRow]
    BY DEF IInv, TypeOK, JobRow
  <2>2. CASE UNCHANGED jobs
    BY <2>1, <2>2
  <2>3. ASSUME NEW i \in Jobs, Enqueue(i) PROVE jobs'[j].attempts >= jobs[j].attempts
    <3>1. jobs[i].attempts = 0
      BY <2>3 DEF Enqueue, Untouched
    <3>2. QED
      BY <2>1, <2>3, <3>1 DEF Enqueue
  <2>4. ASSUME NEW w \in Workers, LoadCommit(w) PROVE jobs'[j].attempts >= jobs[j].attempts
    <3>1. claim[w].job = j => jobs[j].attempts < claim[w].token.claim /\ claim[w].token \in Token
      BY <2>4, JobQueueAssumption
         DEF LoadCommit, IInv, HolderSeesAttempt, LockShape, ClaimShape, InTransaction
    <3>2. claim[w].job = j => jobs'[j].attempts = claim[w].token.claim
      BY <2>1, <2>4 DEF LoadCommit, JobRow
    <3>3. claim[w].job # j => jobs'[j] = jobs[j]
      BY <2>1, <2>4 DEF LoadCommit
    <3>4. QED
      BY <2>1, <3>1, <3>2, <3>3, JobQueueAssumption DEF Token
  <2>5. ASSUME NEW w \in Workers, CompleteCommit(w) \/ ReleaseCommit(w)
        PROVE  jobs'[j].attempts >= jobs[j].attempts
    <3>1. claim[w].job = j => jobs'[j].attempts = jobs[j].attempts
      <4>1. CompleteCommit(w) /\ claim[w].job = j => jobs'[j].attempts = jobs[j].attempts
        BY <2>1 DEF CompleteCommit, JobRow
      <4>2. ReleaseCommit(w) /\ claim[w].job = j => jobs'[j].attempts = jobs[j].attempts
        BY <2>1 DEF ReleaseCommit, JobRow
      <4>3. QED
        BY <2>5, <4>1, <4>2
    <3>2. claim[w].job # j => jobs'[j] = jobs[j]
      BY <2>1, <2>5 DEF CompleteCommit, ReleaseCommit
    <3>3. QED
      BY <2>1, <3>1, <3>2
  <2>6. QED
    BY <2>2, <2>3, <2>4, <2>5
       DEF Next, Work, vars, ClaimNext, ClaimCommit, Load, FetchEnds, Record, LeaseLost,
           StoreError, Disconnect, Stop, Start, Tick
<1>2. QED
  BY <1>1, InductiveInvariant, UntouchedHolds, PTL DEF Spec, AttemptsNeverRewind
-----------------------------------------------------------------------------
(* Claims are accounted for, in JobQueueLive, whatever MaxFaults.          *)

\* A counted step is a step of the queue.
LEMMA LiveIsQueue ==
  ASSUME [LiveNext]_liveVars
  PROVE  [Next]_vars
BY DEF LiveNext, liveVars, Submit, Proceed, Relaunch, TimelyTick, Stall, Halt, Cut, Next

LEMMA InitLost == Init /\ faults = 0 => LostToFaults
BY JobQueueAssumption
   DEF Init, LostToFaults, NoDispatchRow, InTransaction, Held, NoClaim

\* A step that leaves the tables and the clock alone, and every worker that
\* holds a claim, keeps the account.
LEMMA NobodyLoses ==
  ASSUME IInv, LostToFaults, faults \in Nat, UNCHANGED <<now, dispatch, faults>>,
         \A j \in Jobs : Held(j) => Held(j)',
         \A w \in Workers : pc'[w] \in InTransaction => connected'[w],
         \A w \in Workers : pc'[w] = "claiming" =>
           pc[w] = "claiming" /\ due'[w] = due[w] /\ claim'[w] = claim[w]
  PROVE  LostToFaults'
<1>1. \A j \in Jobs : dispatch[j].claims \in Int /\ MaxClaims \in Int
  BY JobQueueAssumption DEF IInv, TypeOK, DispatchRow
<1>2. \A j \in Jobs : IF Held(j)' THEN dispatch'[j].claims <= MaxClaims + faults'
                                 ELSE dispatch'[j].claims < MaxClaims + faults'
  BY <1>1 DEF LostToFaults
<1>3. \A w \in Workers : pc'[w] = "claiming" =>
        IF due'[w] > now' THEN claim'[w].token.claim <= MaxClaims + faults'
                          ELSE claim'[w].token.claim < MaxClaims + faults'
  BY DEF LostToFaults
<1>4. QED
  BY <1>2, <1>3 DEF LostToFaults

\* A fault pays for whatever is lost by it.
LEMMA FaultPays ==
  ASSUME IInv, LostToFaults, faults \in Nat, faults' = faults + 1, UNCHANGED dispatch,
         \A w \in Workers : pc'[w] \in InTransaction => connected'[w],
         \A w \in Workers : pc'[w] = "claiming" => pc[w] = "claiming" /\ claim'[w] = claim[w]
  PROVE  LostToFaults'
<1>1. \A j \in Jobs : dispatch[j].claims < MaxClaims + faults'
  BY JobQueueAssumption DEF LostToFaults, IInv, TypeOK, DispatchRow
<1>2. \A w \in Workers : pc[w] = "claiming" => claim[w].token.claim < MaxClaims + faults'
  BY JobQueueAssumption
     DEF LostToFaults, IInv, ClaimShape, ClaimNumbers, InTransaction, Token
<1>3. QED
  <2>1. \A j \in Jobs : dispatch'[j].claims < MaxClaims + faults' /\ dispatch'[j].claims \in Int
    BY <1>1 DEF IInv, TypeOK, DispatchRow
  <2>2. \A w \in Workers : pc'[w] = "claiming" =>
          claim'[w].token.claim < MaxClaims + faults' /\ claim'[w].token.claim \in Int
    BY <1>2, JobQueueAssumption DEF IInv, ClaimShape, Token
  <2>3. MaxClaims + faults' \in Int
    BY JobQueueAssumption
  <2>4. QED
    BY <2>1, <2>2, <2>3 DEF LostToFaults

\* A ready row is held by nobody.
LEMMA ReadyIsLost ==
  ASSUME IInv, NEW j \in Jobs, Ready(j)
  PROVE  ~Held(j)
<1> SUFFICES ASSUME NEW w \in Workers, claim[w].job = j, LeaseHeld(w) PROVE FALSE
  BY DEF Held
<1>1. dispatch[j].token = claim[w].token /\ dispatch[j].expiresAt > now
  BY DEF LeaseHeld
<1>2. claim[w].token \in Token
  BY JobQueueAssumption DEF IInv, ClaimShape
<1>3. QED
  BY <1>1, <1>2, JobQueueAssumption DEF Ready, Expired, IInv, TypeOK, DispatchRow, Token

LEMMA ClaimNextLost ==
  ASSUME IInv, LostToFaults, faults \in Nat, NEW w \in Workers, NEW j \in Jobs,
         ClaimNext(w, j), UNCHANGED faults
  PROVE  LostToFaults'
<1>1. ~Held(j)
  BY ReadyIsLost DEF ClaimNext, IsNext
<1>2. /\ pc[w] = "idle" /\ connected[w] /\ pc'[w] = "claiming" /\ claim'[w].job = j
      /\ claim'[w].token.claim = dispatch[j].claims + 1 /\ due'[w] = now + Lease
      /\ \A v \in Workers \ {w} : pc'[v] = pc[v] /\ claim'[v] = claim[v] /\ due'[v] = due[v]
      /\ UNCHANGED <<now, dispatch, connected>>
  BY DEF ClaimNext, IInv, TypeOK
<1>3. dispatch[j].claims + 1 <= MaxClaims + faults /\ due'[w] > now
  BY <1>1, <1>2, JobQueueAssumption DEF LostToFaults, IInv, TypeOK, DispatchRow
<1>4. \A i \in Jobs : Held(i) => Held(i)'
  BY <1>2, JobQueueAssumption DEF Held, LeaseHeld, IInv, ClaimShape
<1>5. QED
  <2>1. \A i \in Jobs : dispatch[i].claims \in Int /\ MaxClaims \in Int
    BY JobQueueAssumption DEF IInv, TypeOK, DispatchRow
  <2>2. \A i \in Jobs : IF Held(i)' THEN dispatch'[i].claims <= MaxClaims + faults'
                                   ELSE dispatch'[i].claims < MaxClaims + faults'
    BY <1>2, <1>4, <2>1 DEF LostToFaults
  <2>3. \A v \in Workers : pc'[v] = "claiming" =>
          IF due'[v] > now' THEN claim'[v].token.claim <= MaxClaims + faults'
                            ELSE claim'[v].token.claim < MaxClaims + faults'
    BY <1>2, <1>3 DEF LostToFaults
  <2>4. QED
    BY <1>2, <2>2, <2>3 DEF LostToFaults, InTransaction

LEMMA ClaimCommitLost ==
  ASSUME IInv, LostToFaults, faults \in Nat, NEW w \in Workers, ClaimCommit(w), UNCHANGED faults,
         NEW j, j = claim[w].job
  PROVE  LostToFaults'
<1>1. pc[w] = "claiming" /\ j \in Jobs /\ claim[w].token \in Token /\ connected[w]
      /\ dispatch[j].listed
  BY JobQueueAssumption
     DEF ClaimCommit, LostToFaults, IInv, ClaimShape, LockShape, InTransaction, TypeOK, Claim
<1>2. /\ pc'[w] = "claimed" /\ \A v \in Workers \ {w} : pc'[v] = pc[v] /\ due'[v] = due[v]
      /\ UNCHANGED <<now, claim, connected>>
  BY DEF ClaimCommit, IInv, TypeOK
<1>3. /\ dispatch'[j].claims = claim[w].token.claim /\ dispatch'[j].token = claim[w].token
      /\ dispatch'[j].expiresAt = due[w] /\ dispatch'[j].listed
      /\ \A i \in Jobs \ {j} : dispatch'[i] = dispatch[i]
  BY <1>1 DEF ClaimCommit, IInv, TypeOK, DispatchRow
<1>4. due[w] > now => Held(j)'
  BY <1>1, <1>2, <1>3 DEF Held, LeaseHeld
<1>5. \A i \in Jobs \ {j} : Held(i) => Held(i)'
  BY <1>1, <1>2, <1>3 DEF Held, LeaseHeld
<1>6. IF due[w] > now THEN claim[w].token.claim <= MaxClaims + faults
                      ELSE claim[w].token.claim < MaxClaims + faults
  BY <1>1 DEF LostToFaults
<1>7. /\ claim[w].token.claim \in Int /\ MaxClaims \in Int
      /\ claim[w].token.claim < MaxClaims + faults => claim[w].token.claim <= MaxClaims + faults
  BY <1>1, JobQueueAssumption DEF Token
<1>8. \A i \in Jobs : IF Held(i)' THEN dispatch'[i].claims <= MaxClaims + faults
                                 ELSE dispatch'[i].claims < MaxClaims + faults
  <2> TAKE i \in Jobs
  <2>1. CASE i = j
    <3>1. dispatch'[i].claims = claim[w].token.claim /\ (due[w] > now => Held(i)')
      BY <1>3, <1>4, <2>1
    <3>2. QED
      BY <1>6, <1>7, <3>1
  <2>2. CASE i # j
    BY <1>3, <1>5, <1>7, <2>2 DEF LostToFaults, IInv, TypeOK, DispatchRow
  <2>3. QED
    BY <2>1, <2>2
<1>9. QED
  BY <1>1, <1>2, <1>8 DEF LostToFaults, InTransaction

\* A job that is released has claims left, one that is complete needs none.
LEMMA EndLost ==
  ASSUME IInv, LostToFaults, faults \in Nat, NEW w \in Workers,
         CompleteCommit(w) \/ ReleaseCommit(w), UNCHANGED faults
  PROVE  LostToFaults'
<1> DEFINE j == claim[w].job
<1>1. /\ pc[w] = "recording" /\ j \in Jobs /\ claim[w].token \in Token
      /\ dispatch[j].token = claim[w].token
  BY RecordingHolder DEF CompleteCommit, ReleaseCommit
<1>2. dispatch[j].claims = claim[w].token.claim
  BY <1>1, JobQueueAssumption DEF IInv, RowShape, Token
<1>3. /\ pc'[w] = "idle" /\ UNCHANGED <<now, connected>>
      /\ \A v \in Workers \ {w} : pc'[v] = pc[v] /\ due'[v] = due[v] /\ claim'[v] = claim[v]
      /\ \A i \in Jobs \ {j} : dispatch'[i] = dispatch[i]
  BY <1>1 DEF CompleteCommit, ReleaseCommit, Rest, IInv, TypeOK
<1>4. dispatch'[j].claims < MaxClaims + faults /\ dispatch'[j].claims \in Nat
  <2>1. CASE CompleteCommit(w)
    BY <1>1, <2>1, JobQueueAssumption DEF CompleteCommit, NoDispatchRow, IInv, TypeOK
  <2>2. CASE ReleaseCommit(w)
    <3>1. dispatch'[j].claims = dispatch[j].claims /\ claim[w].token.claim < MaxClaims
      BY <1>1, <2>2 DEF ReleaseCommit, Retries, IInv, TypeOK, DispatchRow
    <3>2. QED
      BY <1>1, <1>2, <3>1, JobQueueAssumption DEF Token
  <2>3. QED
    BY <2>1, <2>2
<1> HIDE DEF j
<1>5. \A i \in Jobs \ {j} : Held(i) => Held(i)'
  BY <1>1, <1>3 DEF Held, LeaseHeld, j
<1>6. \A i \in Jobs : IF Held(i)' THEN dispatch'[i].claims <= MaxClaims + faults
                                 ELSE dispatch'[i].claims < MaxClaims + faults
  <2> TAKE i \in Jobs
  <2>1. CASE i = j
    BY <1>4, <2>1, JobQueueAssumption
  <2>2. CASE i # j
    BY <1>3, <1>5, <2>2, JobQueueAssumption DEF LostToFaults, IInv, TypeOK, DispatchRow
  <2>3. QED
    BY <2>1, <2>2
<1>7. QED
  BY <1>3, <1>6 DEF LostToFaults, InTransaction

\* A worker at work that is not about to claim loses nothing (Load, LoadCommit,
\* FetchEnds, Record), nor does one that has lost its claim already.
LEMMA WorkLost ==
  ASSUME IInv, LostToFaults, faults \in Nat, NEW w \in Workers, Work(w), UNCHANGED faults
  PROVE  LostToFaults'
<1>1. CASE \E j \in Jobs : ClaimNext(w, j)
  BY <1>1, ClaimNextLost
<1>2. CASE ClaimCommit(w)
  BY <1>2, ClaimCommitLost
<1>3. CASE Load(w) \/ LoadCommit(w) \/ FetchEnds(w) \/ Record(w)
  <2>1. /\ UNCHANGED <<now, dispatch, claim, connected>>
        /\ pc'[w] # "claiming"
        /\ pc'[w] \in InTransaction => connected[w]
        /\ \A v \in Workers \ {w} : pc'[v] = pc[v] /\ due'[v] = due[v]
    BY <1>3 DEF Load, LoadCommit, FetchEnds, Record, IInv, TypeOK, InTransaction
  <2>2. \A j \in Jobs : Held(j) => Held(j)'
    BY <2>1 DEF Held, LeaseHeld
  <2>3. QED
    BY <2>1, <2>2, NobodyLoses DEF LostToFaults
<1>4. CASE LeaseLost(w) \/ StoreError(w)
  <2>1. /\ UNCHANGED <<now, dispatch, connected>> /\ pc'[w] = "idle"
        /\ ~(connected[w] /\ LeaseHeld(w))
        /\ \A v \in Workers \ {w} : pc'[v] = pc[v] /\ due'[v] = due[v] /\ claim'[v] = claim[v]
    BY <1>4 DEF LeaseLost, StoreError, Rest, IInv, TypeOK
  <2>2. \A j \in Jobs : Held(j) => Held(j)'
    BY <2>1 DEF Held, LeaseHeld
  <2>3. QED
    BY <2>1, <2>2, NobodyLoses DEF LostToFaults, InTransaction
<1>5. CASE CompleteCommit(w) \/ ReleaseCommit(w)
  BY <1>5, EndLost
<1>6. QED
  BY <1>1, <1>2, <1>3, <1>4, <1>5 DEF Work

\* A new job has spent no claim.
LEMMA EnqueueLost ==
  ASSUME IInv, LostToFaults, faults \in Nat, NEW j \in Jobs, Enqueue(j), UNCHANGED faults
  PROVE  LostToFaults'
<1>1. /\ dispatch'[j].claims = 0 /\ \A i \in Jobs \ {j} : dispatch'[i] = dispatch[i]
      /\ UNCHANGED <<now, pc, claim, due, connected>>
  BY DEF Enqueue, IInv, TypeOK
<1>2. \A i \in Jobs \ {j} : Held(i) => Held(i)'
  BY <1>1 DEF Held, LeaseHeld
<1>3. \A i \in Jobs : IF Held(i)' THEN dispatch'[i].claims <= MaxClaims + faults
                                 ELSE dispatch'[i].claims < MaxClaims + faults
  <2> TAKE i \in Jobs
  <2>1. CASE i = j
    BY <1>1, <2>1, JobQueueAssumption
  <2>2. CASE i # j
    BY <1>1, <1>2, <2>2, JobQueueAssumption DEF LostToFaults, IInv, TypeOK, DispatchRow
  <2>3. QED
    BY <2>1, <2>2
<1>4. QED
  BY <1>1, <1>3 DEF LostToFaults

\* A timely tick makes no holder late.
LEMMA TickLost ==
  ASSUME IInv, LostToFaults, faults \in Nat, TimelyTick
  PROVE  LostToFaults'
<1>1. now' = now + 1 /\ Timely /\ UNCHANGED <<dispatch, pc, claim, due, connected, faults>>
  BY DEF TimelyTick, Tick
<1>2. \A j \in Jobs : Held(j) => Held(j)'
  <2> SUFFICES ASSUME NEW j \in Jobs, NEW w \in Workers, claim[w].job = j, pc[w] # "claiming",
                      connected[w], LeaseHeld(w)
               PROVE  Held(j)'
    BY DEF Held
  <2>1. dispatch[j].expiresAt > now + 1
    BY <1>1, JobQueueAssumption DEF Timely, Working
  <2>2. LeaseHeld(w)'
    BY <1>1, <2>1 DEF LeaseHeld
  <2>3. QED
    BY <1>1, <2>2 DEF Held
<1>3. \A w \in Workers : pc[w] = "claiming" => due[w] > now + 1
  BY <1>1 DEF Timely
<1>4. \A j \in Jobs : IF Held(j)' THEN dispatch[j].claims <= MaxClaims + faults
                                 ELSE dispatch[j].claims < MaxClaims + faults
  BY <1>2, JobQueueAssumption DEF LostToFaults, IInv, TypeOK, DispatchRow
<1>5. \A w \in Workers : pc[w] = "claiming" => claim[w].token.claim <= MaxClaims + faults
  BY <1>3 DEF LostToFaults, IInv, TypeOK
<1>6. QED
  BY <1>1, <1>3, <1>4, <1>5 DEF LostToFaults

LEMMA LiveStep ==
  ASSUME IInv, LostToFaults, faults \in Nat, [LiveNext]_liveVars
  PROVE  LostToFaults' /\ faults' \in Nat
<1>1. CASE UNCHANGED liveVars
  BY <1>1 DEF liveVars, vars, LostToFaults, Held, LeaseHeld
<1>2. CASE Submit
  BY <1>2, EnqueueLost DEF Submit
<1>3. ASSUME NEW w \in Workers, Proceed(w) PROVE LostToFaults' /\ faults' \in Nat
  BY <1>3, WorkLost DEF Proceed
<1>4. ASSUME NEW w \in Workers, Relaunch(w) PROVE LostToFaults' /\ faults' \in Nat
  <2>1. /\ pc[w] = "stopped" /\ claim[w].job = NoJob /\ pc'[w] = "idle"
        /\ UNCHANGED <<now, dispatch, claim, due, faults>>
        /\ \A v \in Workers \ {w} : pc'[v] = pc[v] /\ connected'[v] = connected[v]
    BY <1>4 DEF Relaunch, Start, IInv, TypeOK, ClaimShape
  <2>2. \A j \in Jobs : Held(j) => Held(j)'
    BY <2>1, JobQueueAssumption DEF Held, LeaseHeld
  <2>3. QED
    BY <2>1, <2>2, NobodyLoses DEF LostToFaults, InTransaction
<1>5. ASSUME NEW w \in Workers, Halt(w) \/ Cut(w) PROVE LostToFaults' /\ faults' \in Nat
  <2>1. /\ faults' = faults + 1 /\ UNCHANGED dispatch
        /\ pc'[w] \notin InTransaction
        /\ \A v \in Workers \ {w} : pc'[v] = pc[v] /\ claim'[v] = claim[v]
                                    /\ connected'[v] = connected[v]
    BY <1>5 DEF Halt, Cut, Stop, Disconnect, Rest, IInv, TypeOK, InTransaction
  <2>2. QED
    BY <2>1, FaultPays DEF LostToFaults, InTransaction
<1>6. CASE TimelyTick
  BY <1>6, TickLost DEF TimelyTick
<1>7. CASE Stall
  BY <1>7, FaultPays DEF Stall, Tick, LostToFaults
<1>8. QED
  BY <1>1, <1>2, <1>3, <1>4, <1>5, <1>6, <1>7 DEF LiveNext

\* A job is claimed at most once per allowed attempt and once per fault,
\* whatever the lease, the number of faults and the order of claims.
THEOREM ClaimsAreSpent == LiveSpec => []ClaimsAccounted
<1>1. LiveInit => IInv /\ LostToFaults /\ faults \in Nat
  BY InitIInv, InitLost DEF LiveInit
<1>2. IInv /\ LostToFaults /\ faults \in Nat /\ [LiveNext]_liveVars
        => (IInv /\ LostToFaults /\ faults \in Nat)'
  BY LiveIsQueue, StepIInv, LiveStep
<1>3. IInv /\ LostToFaults /\ faults \in Nat => ClaimsAccounted
  <2> SUFFICES ASSUME IInv, LostToFaults, faults \in Nat, NEW j \in Jobs
               PROVE  dispatch[j].claims <= MaxClaims + faults
    BY DEF ClaimsAccounted
  <2>1. dispatch[j].claims \in Int /\ MaxClaims \in Int
    BY JobQueueAssumption DEF IInv, TypeOK, DispatchRow
  <2>2. QED
    BY <2>1 DEF LostToFaults
<1>4. QED
  BY <1>1, <1>2, <1>3, PTL DEF LiveSpec
=============================================================================
