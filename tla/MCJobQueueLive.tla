---------------------------- MODULE MCJobQueueLive ----------------------------
(* A small instance of JobQueueLive, both workers under one worker_id.     *)
EXTENDS JobQueueLive

CONSTANTS j1, j2, w1, w2

MCJobs == {j1, j2}
MCMalformed == {j2}
MCWorkers == {w1, w2}
MCWorkerId == [w \in {w1, w2} |-> "p02-worker-1"]
MCRank == [j \in {j1, j2} |-> IF j = j1 THEN 1 ELSE 2]

\* Timestamps count from now, those in the past are alike but for their order:
\* two states with one view have the same steps enabled, leading to states with
\* one view, and a tick always changes it.
Since(t) == IF t < now THEN 0 ELSE t + 1 - now
MCView ==
  <<jobs, pc, claim, outcome, connected, faults,
    [w \in Workers |-> IF due[w] = 0 THEN 0 ELSE Since(due[w])],
    [j \in Jobs |-> [dispatch[j] EXCEPT !.availableAt = IF dispatch[j].listed THEN Since(@) ELSE 0,
                                        !.expiresAt = Since(@)]],
    Before(j1, j2)>>
=============================================================================
