----------------------------- MODULE JobQueueLive -----------------------------
(***************************************************************************)
(* JobQueue with its faults counted, and the fairness under which every    *)
(* job is eventually decided.  A fault is a worker that stops, or a stall: *)
(* a tick that carries a running worker past the end of its lease.  The    *)
(* 60 s lease is there to outlast the 20 s bound of the fetcher            *)
(* (WorkerSettings.lease), so a worker that neither stops nor stalls is    *)
(* done in time.  A lost connection is a fault too, and the worst: the     *)
(* worker neither reconnects nor exits, and no fairness brings it back.    *)
(* The queue stands it as long as another worker has its connection, or    *)
(* will have one when it is relaunched: the last is never lost.            *)
(***************************************************************************)
EXTENDS JobQueue

CONSTANT MaxFaults    (* Bound of faults over the whole run. *)

ASSUME FaultsAssumption ==
  /\ MaxFaults \in Nat
  /\ MaxClaims + MaxFaults <= ClaimsBound

VARIABLE faults

liveVars == <<vars, faults>>

\* The end of the lease that worker w works under, or is about to commit.
Working(w) == claim[w].job # NoJob /\ LeaseHeld(w)
Timely ==
  \A w \in Workers : /\ pc[w] = "claiming" => due[w] > now + 1
                     /\ Working(w) => dispatch[claim[w].job].expiresAt > now + 1

LiveInit == Init /\ faults = 0

Submit == (\E j \in Jobs : Enqueue(j)) /\ UNCHANGED faults
Proceed(w) == Work(w) /\ UNCHANGED faults
Relaunch(w) == Start(w) /\ UNCHANGED faults
TimelyTick == Timely /\ Tick /\ UNCHANGED faults

Stall == ~Timely /\ Tick /\ faults < MaxFaults /\ faults' = faults + 1
Halt(w) == Stop(w) /\ faults < MaxFaults /\ faults' = faults + 1
Cut(w) ==
  /\ \E v \in Workers \ {w} : connected[v] \/ pc[v] = "stopped"
  /\ Disconnect(w) /\ faults < MaxFaults /\ faults' = faults + 1

LiveNext ==
  \/ Submit
  \/ \E w \in Workers : Proceed(w) \/ Relaunch(w) \/ Halt(w) \/ Cut(w)
  \/ TimelyTick
  \/ Stall

Fairness ==
  /\ \A w \in Workers : WF_liveVars(Proceed(w)) /\ WF_liveVars(Relaunch(w))
  /\ WF_liveVars(TimelyTick)

LiveSpec == LiveInit /\ [][LiveNext]_liveVars /\ Fairness

\* Every accepted job is decided: leases of stopped workers expire, retries
\* come due, first-in-first-out claiming starves no job, and the claims lost
\* to faults leave enough of the 100 for max_claims attempts.
EventuallyFinal ==
  \A j \in Jobs : jobs[j].state # "absent" ~> jobs[j].state \in Terminal

\* Claims are only spent on attempts and on faults: a job is claimed at most
\* once per allowed attempt and once per fault.
ClaimsAccounted ==
  \A j \in Jobs : dispatch[j].claims <= MaxClaims + faults

-----------------------------------------------------------------------------
(* Why claims are accounted for: the invariant behind ClaimsAccounted.     *)

\* Some worker has committed the claim that counts, and may still use it.
Held(j) ==
  \E w \in Workers : /\ claim[w].job = j /\ pc[w] # "claiming"
                     /\ connected[w] /\ LeaseHeld(w)

\* A fault is behind every claim beyond MaxClaims that nobody holds any more,
\* and behind one about to be committed too late to be held.
LostToFaults ==
  /\ \A j \in Jobs : IF Held(j) THEN dispatch[j].claims <= MaxClaims + faults
                                 ELSE dispatch[j].claims < MaxClaims + faults
  /\ \A w \in Workers : pc[w] = "claiming" =>
       IF due[w] > now THEN claim[w].token.claim <= MaxClaims + faults
                       ELSE claim[w].token.claim < MaxClaims + faults
  /\ \A w \in Workers : pc[w] \in InTransaction => connected[w]
=============================================================================
