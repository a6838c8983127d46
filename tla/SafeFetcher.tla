----------------------------- MODULE SafeFetcher -----------------------------
(***************************************************************************)
(* The fetcher of crates/p02-fetch: SafeFetcher of fetcher.rs, with the     *)
(* destination policy it applies on every hop.                             *)
(*                                                                         *)
(* Fetches run concurrently.  Each hop of a fetch opens one connection, in  *)
(* one slot of its host and one slot of the whole fetcher.  Once the        *)
(* request is written a task of its own drives the connection; dropping the *)
(* hop aborts that task, and the runtime drops what it owns some time       *)
(* later: the socket first, the slots after.  The total timeout may drop a  *)
(* fetch wherever it waits.  What a fetch returns is left out, but for its  *)
(* being over.                                                             *)
(***************************************************************************)
EXTENDS Integers, FiniteSets

CONSTANTS
  Fetches,           (* Calls of fetch.                                    *)
  Hosts,             (* Host keys of host_permit.                          *)
  Targets,           (* URLs: [host, scheme, allowed], allowed being what  *)
                     (* check_parsed says of the URL alone.                *)
  Responsive,        (* Hosts whose servers answer, for the fairness only. *)
  Semaphores,        (* Identities an Arc<Semaphore> can have.             *)
  None,
  MaxRedirects,      (* FetchLimits.max_redirects.                         *)
  PerHost,           (* PER_HOST_CONCURRENCY.                              *)
  Global             (* GLOBAL_CONCURRENCY.                                *)

ASSUME FetcherAssumption ==
  /\ IsFiniteSet(Fetches)
  /\ Targets \subseteq [host : Hosts, scheme : {"http", "https"}, allowed : BOOLEAN]
  /\ Responsive \subseteq Hosts
  /\ None \notin Semaphores \cup Targets
  /\ MaxRedirects \in Nat
  /\ PerHost \in Nat
  /\ Global \in Nat

Hops == 0 .. MaxRedirects
Connections == Fetches \X Hops

VARIABLES
  stage,     (* How far each fetch is.                                     *)
  redirects, (* The redirects each fetch has followed.                     *)
  target,    (* The URL of each hop.                                        *)
  hosts,     (* SafeFetcher.hosts.                                         *)
  conn,      (* The slots and the socket of each hop's connection.         *)
  semaphore  (* The host semaphore it waits on or holds a permit of.       *)

vars == <<stage, redirects, target, hosts, conn, semaphore>>

Current(f) == <<f, redirects[f]>>

\* The connections with both slots, from the first to the last.
Slotted == {"slotted", "open", "driven", "aborted", "closed"}

\* Those with a socket, which the gauge counts.
Connected == {"open", "driven", "aborted"}

\* A waiter holds a reference to its semaphore too, but no permit.
Holders(s) == {c \in Connections : semaphore[c] = s /\ conn[c] \in {"hosted"} \cup Slotted}

GlobalHolders == {c \in Connections : conn[c] \in Slotted}

\* Mutant: only held permits keep an entry of the map.
InUseWhileHeld(s) == Holders(s) # {}

\* Arc::strong_count(semaphore) > 1.
InUse(s) == \E c \in Connections : semaphore[c] = s

Over(f) == stage' = [stage EXCEPT ![f] = "done"]

-----------------------------------------------------------------------------
Init ==
  /\ stage = [f \in Fetches |-> "idle"]
  /\ redirects = [f \in Fetches |-> 0]
  /\ target = [c \in Connections |-> None]
  /\ hosts = [x \in Hosts |-> None]
  /\ conn = [c \in Connections |-> "none"]
  /\ semaphore = [c \in Connections |-> None]

\* Mutant: the URL is not checked.
StartUnchecked(f) ==
  /\ stage[f] = "idle"
  /\ \E t \in Targets : target' = [target EXCEPT ![Current(f)] = t]
  /\ stage' = [stage EXCEPT ![f] = "hop"]
  /\ UNCHANGED <<redirects, hosts, conn, semaphore>>

\* fetch: the validators and check_url, before any network access.
Start(f) ==
  /\ stage[f] = "idle"
  /\ \E t \in Targets :
       IF t.allowed
         THEN stage' = [stage EXCEPT ![f] = "hop"] /\ target' = [target EXCEPT ![Current(f)] = t]
         ELSE Over(f) /\ UNCHANGED target
  /\ UNCHANGED <<redirects, hosts, conn, semaphore>>

\* Mutant: the map is never cleaned.
HostPermitKeepsAll(f) ==
  LET x == target[Current(f)].host
  IN  /\ stage[f] = "hop"
      /\ \E s \in Semaphores :
           /\ IF hosts[x] # None THEN s = hosts[x]
                                 ELSE ~InUse(s) /\ \A y \in Hosts : hosts[y] # s
           /\ hosts' = [hosts EXCEPT ![x] = s]
           /\ semaphore' = [semaphore EXCEPT ![Current(f)] = s]
      /\ conn' = [conn EXCEPT ![Current(f)] = "queued"]
      /\ stage' = [stage EXCEPT ![f] = "slots"]
      /\ UNCHANGED <<redirects, target>>

(***************************************************************************)
(* host_permit, under the lock of the map: entries nobody refers to go, the *)
(* host's is found or made, and the fetch queues for a permit.             *)
(***************************************************************************)
HostPermit(f) ==
  LET x == target[Current(f)].host
      kept == [y \in Hosts |-> IF hosts[y] # None /\ InUse(hosts[y]) THEN hosts[y] ELSE None]
  IN  /\ stage[f] = "hop"
      /\ \E s \in Semaphores :
           /\ IF kept[x] # None THEN s = kept[x]
                                ELSE ~InUse(s) /\ \A y \in Hosts : kept[y] # s
           /\ hosts' = [kept EXCEPT ![x] = s]
           /\ semaphore' = [semaphore EXCEPT ![Current(f)] = s]
      /\ conn' = [conn EXCEPT ![Current(f)] = "queued"]
      /\ stage' = [stage EXCEPT ![f] = "slots"]
      /\ UNCHANGED <<redirects, target>>

HostSlot(f) ==
  LET c == Current(f)
  IN  /\ stage[f] = "slots" /\ conn[c] = "queued"
      /\ Cardinality(Holders(semaphore[c])) < PerHost
      /\ conn' = [conn EXCEPT ![c] = "hosted"]
      /\ UNCHANGED <<stage, redirects, target, hosts, semaphore>>

GlobalSlot(f) ==
  LET c == Current(f)
  IN  /\ stage[f] = "slots" /\ conn[c] = "hosted"
      /\ Cardinality(GlobalHolders) < Global
      /\ conn' = [conn EXCEPT ![c] = "slotted"]
      /\ UNCHANGED <<stage, redirects, target, hosts, semaphore>>

\* One resolution, and a dial of an address of its answer.  That the answer is
\* refused, or that no address can be reached, is Fail.
Dial(f) ==
  LET c == Current(f)
  IN  /\ stage[f] = "slots" /\ conn[c] = "slotted"
      /\ conn' = [conn EXCEPT ![c] = "open"]
      /\ UNCHANGED <<stage, redirects, target, hosts, semaphore>>

\* send: the connection, with its slots, belongs to a task from here on.
Send(f) ==
  LET c == Current(f)
  IN  /\ stage[f] = "slots" /\ conn[c] = "open"
      /\ conn' = [conn EXCEPT ![c] = "driven"]
      /\ stage' = [stage EXCEPT ![f] = "sent"]
      /\ UNCHANGED <<redirects, target, hosts, semaphore>>

\* The fetch lets go of the connection of its hop, wherever that stands: what
\* is on its own stack is dropped, the task of the connection is aborted.
Dropped(c) ==
  CASE conn[c] = "open" -> "closed"
    [] conn[c] = "driven" -> "aborted"
    [] conn[c] \in {"queued", "hosted", "slotted"} -> "none"
    [] OTHER -> conn[c]

DropHop(c) ==
  /\ conn' = [conn EXCEPT ![c] = Dropped(c)]
  /\ semaphore' = [semaphore EXCEPT ![c] = IF Dropped(c) = "none" THEN None ELSE @]

Downgrade(from, to) == from.scheme = "https" /\ to.scheme = "http"

\* Mutant: the hop outlives the redirect it answered with.
RedirectKeepsHop(f) ==
  /\ stage[f] = "sent" /\ redirects[f] < MaxRedirects
  /\ \E t \in Targets :
       /\ t.allowed /\ ~Downgrade(target[Current(f)], t)
       /\ target' = [target EXCEPT ![<<f, redirects[f] + 1>>] = t]
  /\ redirects' = [redirects EXCEPT ![f] = @ + 1]
  /\ stage' = [stage EXCEPT ![f] = "hop"]
  /\ UNCHANGED <<hosts, conn, semaphore>>

\* A redirect that is followed: the hop is dropped at the end of the loop's
\* body, before the next one asks for its slots.  That it is not followed, for
\* its number or its Location, is Fail.
Redirect(f) ==
  /\ stage[f] = "sent" /\ redirects[f] < MaxRedirects
  /\ \E t \in Targets :
       /\ t.allowed /\ ~Downgrade(target[Current(f)], t)
       /\ target' = [target EXCEPT ![<<f, redirects[f] + 1>>] = t]
  /\ redirects' = [redirects EXCEPT ![f] = @ + 1]
  /\ stage' = [stage EXCEPT ![f] = "hop"]
  /\ DropHop(Current(f))
  /\ UNCHANGED hosts

\* A final response: 304 and the statuses without a body at once, a body once
\* it is read to its end.
Finish(f) ==
  /\ stage[f] = "sent"
  /\ Over(f)
  /\ DropHop(Current(f))
  /\ UNCHANGED <<redirects, target, hosts>>

\* Any error or refusal, and the total timeout, wherever the fetch waits.
Fail(f) ==
  /\ stage[f] \in {"hop", "slots", "sent"}
  /\ Over(f)
  /\ IF stage[f] = "hop" THEN UNCHANGED <<conn, semaphore>>
                         ELSE DropHop(Current(f))
  /\ UNCHANGED <<redirects, target, hosts>>

\* The task of a connection ends: on its own, or when the runtime gets to the
\* abort.  The socket is closed ...
Close(c) ==
  /\ conn[c] \in {"driven", "aborted"}
  /\ conn' = [conn EXCEPT ![c] = "closed"]
  /\ UNCHANGED <<stage, redirects, target, hosts, semaphore>>

\* ... and the slots are free.
Free(c) ==
  /\ conn[c] = "closed"
  /\ conn' = [conn EXCEPT ![c] = "none"]
  /\ semaphore' = [semaphore EXCEPT ![c] = None]
  /\ UNCHANGED <<stage, redirects, target, hosts>>

Advance(f) ==
  HostPermit(f) \/ HostSlot(f) \/ GlobalSlot(f) \/ Dial(f) \/ Send(f) \/ Redirect(f) \/ Finish(f)

Next ==
  \/ \E f \in Fetches : Start(f) \/ Advance(f) \/ Fail(f)
  \/ \E c \in Connections : Close(c) \/ Free(c)

Spec == Init /\ [][Next]_vars

(***************************************************************************)
(* What the code itself brings about, the bound of total_timeout apart: it  *)
(* connects or gives up within connect_timeout, servers that are up answer, *)
(* and aborted tasks are dropped.  Nothing here times out a fetch that      *)
(* waits for its slots.                                                    *)
(***************************************************************************)
Host(c) == target[c].host

GetSlots(f) == HostPermit(f) \/ HostSlot(f) \/ GlobalSlot(f)
Exchange(f) ==
  /\ \/ stage[f] = "sent"
     \/ stage[f] = "slots" /\ conn[Current(f)] \in {"slotted", "open"}
  /\ Host(Current(f)) \in Responsive
  /\ Dial(f) \/ Send(f) \/ Redirect(f) \/ Finish(f) \/ Fail(f)

FairSpec ==
  /\ Spec
  /\ \A f \in Fetches : WF_vars(GetSlots(f)) /\ WF_vars(Exchange(f))
  /\ \A c \in Connections : WF_vars(conn[c] = "aborted" /\ Close(c)) /\ WF_vars(Free(c))

-----------------------------------------------------------------------------
(* Properties.                                                             *)

\* Every variable has its type, and a fetch at work has a target the policy
\* allows.
TypeOK ==
  /\ stage \in [Fetches -> {"idle", "hop", "slots", "sent", "done"}]
  /\ redirects \in [Fetches -> Hops]
  /\ target \in [Connections -> Targets \cup {None}]
  /\ hosts \in [Hosts -> Semaphores \cup {None}]
  /\ conn \in [Connections -> {"none", "queued", "hosted", "slotted", "open", "driven", "aborted", "closed"}]
  /\ semaphore \in [Connections -> Semaphores \cup {None}]
  /\ \A f \in Fetches : stage[f] \in {"hop", "slots", "sent"} =>
       target[Current(f)] # None /\ target[Current(f)].allowed

\* G5: at any time at most PER_HOST_CONCURRENCY sockets are open to one host
\* and GLOBAL_CONCURRENCY in all, those of dropped fetches among them, though
\* the semaphore of a host is thrown away and made anew.
SocketsBounded ==
  /\ Cardinality({c \in Connections : conn[c] \in Connected}) <= Global
  /\ \A x \in Hosts :
       Cardinality({c \in Connections : conn[c] \in Connected /\ Host(c) = x}) <= PerHost

\* "so the map stays bounded by the hosts in flight" (fetcher.rs): whenever the
\* map of hosts changes, it is left with the hosts some connection refers to.
MapOfHostsInFlight ==
  [][hosts' # hosts =>
       \A x \in Hosts : hosts'[x] # None =>
         \E c \in Connections : semaphore'[c] = hosts'[x]]_vars

\* A fetch to a host that answers is over in the end, or has gone on to a host
\* that does not: it waits neither for itself, nor for hosts that are down, as
\* long as those can fill fewer than the global slots.
ServedDespiteDeadHosts ==
  \A f \in Fetches :
    LET served == stage[f] \in {"hop", "slots", "sent"} /\ Host(Current(f)) \in Responsive
    IN  served ~> ~served
=============================================================================
