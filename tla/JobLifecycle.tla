----------------------------- MODULE JobLifecycle -----------------------------
(***************************************************************************)
(* What the P02 API promises about a job, whoever works on it: the states  *)
(* of p02-job-v1 and the order in which a client that polls the job may    *)
(* see them.  No worker, lease or clock.  JobQueue implements it.          *)
(***************************************************************************)
EXTENDS Integers

CONSTANTS Jobs, MaxClaims, ClaimsBound

VARIABLE rows   (* state, attempts, result status and the attempt it reports *)

Terminal == {"succeeded", "refused", "failed"}

NewRow == [state |-> "absent", attempts |-> 0, status |-> "none", reports |-> 0]

Init == rows = [j \in Jobs |-> NewRow]

\* The job is accepted.
Submit(j) ==
  /\ rows[j].state = "absent"
  /\ rows' = [rows EXCEPT ![j] = [NewRow EXCEPT !.state = "queued"]]

\* A new attempt starts, after the previous one was given up or given back.
Attempt(j, n) ==
  /\ rows[j].state \in {"queued", "running"}
  /\ n > rows[j].attempts
  /\ rows' = [rows EXCEPT ![j] = [state |-> "running", attempts |-> n,
                                  status |-> rows[j].status, reports |-> rows[j].reports]]

\* A transient failure, while claims are left.
GiveBack(j) ==
  /\ rows[j].state = "running" /\ rows[j].attempts < MaxClaims
  /\ rows' = [rows EXCEPT ![j].state = "queued"]

\* The last attempt is decided, once and for all.
Conclude(j, status) ==
  /\ rows[j].state = "running"
  /\ status = "failed" => rows[j].attempts >= MaxClaims
  /\ rows' = [rows EXCEPT ![j] = [state |-> status, attempts |-> rows[j].attempts,
                                  status |-> status, reports |-> rows[j].attempts]]

Next ==
  \E j \in Jobs :
    \/ Submit(j)
    \/ \E n \in 1 .. ClaimsBound : Attempt(j, n)
    \/ GiveBack(j)
    \/ \E status \in Terminal : Conclude(j, status)

Spec == Init /\ [][Next]_rows
=============================================================================
