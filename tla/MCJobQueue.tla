------------------------------ MODULE MCJobQueue ------------------------------
(***************************************************************************)
(* Small instances of JobQueue.  Both workers run under one worker_id, the *)
(* case in which only the claim number tells their lease tokens apart.     *)
(***************************************************************************)
EXTENDS JobQueue, TLC

CONSTANTS j1, j2, w1, w2

MCJobs == {j1, j2}
MCMalformed == {j2}
MCWorkers == {w1, w2}
MCWorkerId == [w \in {w1, w2} |-> "p02-worker-1"]
MCSymmetry == Permutations({w1, w2})
MCRank == [j \in {j1, j2} |-> IF j = j1 THEN 1 ELSE 2]

\* Timestamps count from now, those in the past are alike but for their order:
\* no guard and no property tells two states with the same view apart.
Since(t) == IF t < now THEN 0 ELSE t + 1 - now
MCView ==
  <<jobs, pc, claim, outcome, connected,
    [w \in Workers |-> IF due[w] = 0 THEN 0 ELSE Since(due[w])],
    [j \in Jobs |-> [dispatch[j] EXCEPT !.availableAt = IF dispatch[j].listed THEN Since(@) ELSE 0,
                                        !.expiresAt = Since(@)]],
    Before(j1, j2)>>
=============================================================================
