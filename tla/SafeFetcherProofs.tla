-------------------------- MODULE SafeFetcherProofs --------------------------
(***************************************************************************)
(* Proofs about SafeFetcher, for any fetches, hosts and limits.  The bound  *)
(* on sockets is one on the permits of a semaphore; it is one on a host     *)
(* because every connection in use refers to the semaphore the map has for  *)
(* its host (SlotShape), for which host_permit must not drop an entry that  *)
(* anything refers to.                                                     *)
(***************************************************************************)
EXTENDS SafeFetcher, FiniteSetTheorems, TLAPS

\* A connection in use refers to a semaphore, which is its host's in the map.
SlotShape ==
  \A c \in Connections :
    /\ conn[c] = "none" <=> semaphore[c] = None
    /\ semaphore[c] # None => target[c] # None /\ hosts[Host(c)] = semaphore[c]

\* The hop a fetch is about to ask slots for, and those after it, have none.
FreshShape ==
  \A f \in Fetches :
    /\ stage[f] \in {"idle", "hop"} => conn[Current(f)] = "none"
    /\ \A h \in Hops : h > redirects[f] => conn[<<f, h>>] = "none"

\* A semaphore has at most its number of permits out.
PermitsBounded ==
  /\ \A s \in Semaphores : Cardinality(Holders(s)) <= PerHost
  /\ Cardinality(GlobalHolders) <= Global

IInv == TypeOK /\ SlotShape /\ FreshShape /\ PermitsBounded

\* There are finitely many connections, so permits can be counted.
LEMMA Finite ==
  /\ IsFiniteSet(Connections) /\ IsFiniteSet(GlobalHolders)
  /\ \A s : IsFiniteSet(Holders(s))
<1>1. IsFiniteSet(Fetches) /\ IsFiniteSet(Hops)
  BY FetcherAssumption, FS_Interval DEF Hops
<1>2. IsFiniteSet(Connections)
  BY <1>1, FS_Product DEF Connections
<1>3. QED
  BY <1>2, FS_Subset DEF GlobalHolders, Holders

\* Part of a bounded set is bounded ...
LEMMA Smaller ==
  ASSUME NEW T, IsFiniteSet(T), NEW S \in SUBSET T, NEW n \in Nat, Cardinality(T) <= n
  PROVE  Cardinality(S) <= n
<1>1. IsFiniteSet(S) /\ Cardinality(S) <= Cardinality(T)
  BY FS_Subset
<1>2. Cardinality(S) \in Nat /\ Cardinality(T) \in Nat
  BY <1>1, FS_CardinalityType
<1>3. QED
  BY <1>1, <1>2

\* ... and so is one more than one below the bound.
LEMMA OneMore ==
  ASSUME NEW T, IsFiniteSet(T), NEW c, NEW S \in SUBSET (T \cup {c}), NEW n \in Nat,
         Cardinality(T) < n
  PROVE  Cardinality(S) <= n
<1>1. /\ IsFiniteSet(T \cup {c})
      /\ Cardinality(T \cup {c}) = IF c \in T THEN Cardinality(T) ELSE Cardinality(T) + 1
  BY FS_AddElement
<1>2. Cardinality(T) \in Nat
  BY FS_CardinalityType
<1>3. Cardinality(T \cup {c}) <= n
  BY <1>1, <1>2
<1>4. QED
  BY <1>1, <1>3, Smaller

\* A step that hands out no permit.
LEMMA PermitsShrink ==
  ASSUME PermitsBounded,
         \A s \in Semaphores : Holders(s)' \subseteq Holders(s),
         GlobalHolders' \subseteq GlobalHolders
  PROVE  PermitsBounded'
<1>1. \A s \in Semaphores : Cardinality(Holders(s)') <= PerHost
  BY Finite, Smaller, FetcherAssumption DEF PermitsBounded
<1>2. Cardinality(GlobalHolders') <= Global
  BY Finite, Smaller, FetcherAssumption DEF PermitsBounded
<1>3. QED
  BY <1>1, <1>2 DEF PermitsBounded

\* The connection of a hop is its fetch's alone.
LEMMA CurrentIs ==
  ASSUME TypeOK, NEW f \in Fetches
  PROVE  /\ Current(f) \in Connections
         /\ \A g \in Fetches : Current(g) = Current(f) => g = f
         /\ \A g \in Fetches, h \in Hops : <<g, h>> = Current(f) => g = f /\ h = redirects[f]
BY DEF TypeOK, Current, Connections

\* At first nothing is in use.
LEMMA InitKeeps == Init => IInv
<1> SUFFICES ASSUME Init PROVE IInv
  OBVIOUS
<1>1. TypeOK
  BY FetcherAssumption DEF Init, TypeOK, Hops
<1>2. SlotShape
  BY DEF Init, SlotShape
<1>3. FreshShape
  BY FetcherAssumption DEF Init, FreshShape, Current, Connections, Hops
<1>4. PermitsBounded
  <2>1. GlobalHolders = {} /\ \A s \in Semaphores : Holders(s) = {}
    BY FetcherAssumption DEF Init, GlobalHolders, Holders, Slotted
  <2>2. QED
    BY <2>1, FS_EmptySet, FetcherAssumption DEF PermitsBounded
<1>5. QED
  BY <1>1, <1>2, <1>3, <1>4 DEF IInv

\* A fetch that starts asks for nothing yet.
LEMMA StartKeeps == ASSUME IInv, NEW f \in Fetches, Start(f) PROVE IInv'
<1>1. /\ stage[f] = "idle" /\ UNCHANGED <<redirects, hosts, conn, semaphore>>
      /\ conn[Current(f)] = "none" /\ semaphore[Current(f)] = None
  BY CurrentIs DEF IInv, Start, FreshShape, SlotShape
<1>2. \A g \in Fetches : Current(g)' = Current(g)
  BY <1>1 DEF Current
<1>3. CASE stage' = [stage EXCEPT ![f] = "done"] /\ UNCHANGED target
  <2>1. TypeOK'
    BY <1>1, <1>2, <1>3 DEF IInv, TypeOK
  <2>2. SlotShape' /\ FreshShape'
    BY <1>1, <1>2, <1>3 DEF IInv, TypeOK, SlotShape, FreshShape, Host
  <2>3. PermitsBounded'
    BY <1>1, PermitsShrink DEF IInv, Holders, GlobalHolders
  <2>4. QED
    BY <2>1, <2>2, <2>3 DEF IInv
<1>4. ASSUME NEW t \in Targets, t.allowed, stage' = [stage EXCEPT ![f] = "hop"],
             target' = [target EXCEPT ![Current(f)] = t]
      PROVE  IInv'
  <2>1. /\ Current(f) \in Connections /\ t # None
        /\ \A g \in Fetches : Current(g) = Current(f) => g = f
    BY CurrentIs, FetcherAssumption DEF IInv
  <2>2. TypeOK'
    BY <1>1, <1>2, <1>4, <2>1 DEF IInv, TypeOK
  <2>3. SlotShape'
    BY <1>1, <1>4, <2>1 DEF IInv, TypeOK, SlotShape, Host
  <2>4. FreshShape'
    BY <1>1, <1>2, <1>4 DEF IInv, TypeOK, FreshShape
  <2>5. PermitsBounded'
    BY <1>1, PermitsShrink DEF IInv, Holders, GlobalHolders
  <2>6. QED
    BY <2>2, <2>3, <2>4, <2>5 DEF IInv
<1>5. QED
  BY <1>3, <1>4 DEF Start, Over

\* What a connection can be.
States == {"none", "queued", "hosted", "slotted", "open", "driven", "aborted", "closed"}

\* The step of one connection in use, that stays in use.
LEMMA ShapesKept ==
  ASSUME IInv, NEW c \in Connections, conn[c] # "none",
         NEW v \in States \ {"none"}, conn' = [conn EXCEPT ![c] = v],
         UNCHANGED <<redirects, target, hosts, semaphore>>,
         \A f \in Fetches : stage'[f] \in {"idle", "hop"} => stage[f] \in {"idle", "hop"}
  PROVE  SlotShape' /\ FreshShape'
<1>1. SlotShape'
  BY DEF IInv, TypeOK, SlotShape, Host
<1>2. \A d \in Connections : conn'[d] = IF d = c THEN v ELSE conn[d]
  BY DEF IInv, TypeOK
<1>3. \A g \in Fetches : Current(g) \in Connections /\ Current(g)' = Current(g)
  BY CurrentIs DEF IInv, Current
<1>4. \A g \in Fetches, h \in Hops : <<g, h>> \in Connections
  BY DEF Connections
<1>5. FreshShape'
  BY <1>2, <1>3, <1>4 DEF IInv, FreshShape
<1>6. QED
  BY <1>1, <1>5

\* host_permit drops the entries nobody refers to, so what is referred to stays.
LEMMA HostPermitKeeps == ASSUME IInv, NEW f \in Fetches, HostPermit(f) PROVE IInv'
<1> DEFINE c == Current(f)
           x == target[c].host
           kept == [y \in Hosts |-> IF hosts[y] # None /\ InUse(hosts[y]) THEN hosts[y] ELSE None]
<1>1. PICK s \in Semaphores :
        /\ IF kept[x] # None THEN s = kept[x] ELSE ~InUse(s) /\ \A y \in Hosts : kept[y] # s
        /\ hosts' = [kept EXCEPT ![x] = s]
        /\ semaphore' = [semaphore EXCEPT ![c] = s]
  BY DEF HostPermit
<1>2. /\ stage[f] = "hop" /\ conn' = [conn EXCEPT ![c] = "queued"]
      /\ stage' = [stage EXCEPT ![f] = "slots"] /\ UNCHANGED <<redirects, target>>
  BY DEF HostPermit
<1>3. /\ c \in Connections /\ \A g \in Fetches : Current(g) = c => g = f
      /\ \A g \in Fetches, h \in Hops : <<g, h>> = c => g = f /\ h = redirects[f]
  BY CurrentIs DEF IInv
<1>4. conn[c] = "none" /\ semaphore[c] = None
  BY <1>2, <1>3 DEF IInv, FreshShape, SlotShape
<1>5. target[c] # None /\ target[c].allowed /\ \A d \in Connections : target[d] # None => Host(d) \in Hosts
  BY <1>2, FetcherAssumption DEF IInv, TypeOK, Host
<1>6. s # None /\ x \in Hosts /\ Host(c) = x
  BY <1>3, <1>5, FetcherAssumption DEF Host
<1>7. \A g \in Fetches : Current(g)' = Current(g)
  BY <1>2 DEF Current
<1>8. \A y \in Hosts : kept[y] = IF hosts[y] # None /\ InUse(hosts[y]) THEN hosts[y] ELSE None
  OBVIOUS
<1>9. kept \in [Hosts -> Semaphores \cup {None}]
  BY DEF IInv, TypeOK
<1>10. \A d \in Connections : semaphore[d] # None => kept[Host(d)] = semaphore[d]
  BY <1>5, <1>8 DEF IInv, SlotShape, InUse
<1> HIDE DEF c, x, kept
<1>11. TypeOK'
  BY <1>1, <1>2, <1>3, <1>5, <1>7, <1>9 DEF IInv, TypeOK, c
<1>12. SlotShape'
  <2> SUFFICES ASSUME NEW d \in Connections
               PROVE  /\ conn'[d] = "none" <=> semaphore'[d] = None
                      /\ semaphore'[d] # None => target'[d] # None /\ hosts'[Host(d)'] = semaphore'[d]
    BY DEF SlotShape
  <2>1. Host(d)' = Host(d)
    BY <1>2 DEF Host
  <2>2. CASE d = c
    BY <1>1, <1>2, <1>3, <1>5, <1>6, <1>9, <2>1, <2>2 DEF IInv, TypeOK
  <2>3. CASE d # c
    <3>1. conn'[d] = conn[d] /\ semaphore'[d] = semaphore[d] /\ target'[d] = target[d]
      BY <1>1, <1>2, <2>3 DEF IInv, TypeOK
    <3>2. semaphore[d] # None => Host(d) \in Hosts /\ hosts'[Host(d)] = semaphore[d]
      BY <1>1, <1>5, <1>9, <1>10 DEF IInv, SlotShape
    <3>3. QED
      BY <2>1, <3>1, <3>2 DEF IInv, SlotShape
  <2>4. QED
    BY <2>2, <2>3
<1>13. FreshShape'
  <2>1. \A d \in Connections : d # c => conn'[d] = conn[d]
    BY <1>2 DEF IInv, TypeOK
  <2>2. \A g \in Fetches, h \in Hops : <<g, h>> \in Connections /\ Current(g) \in Connections
    BY CurrentIs DEF Connections, IInv
  <2>3. \A g \in Fetches : stage'[g] \in {"idle", "hop"} => g # f /\ stage'[g] = stage[g]
    BY <1>2 DEF IInv, TypeOK
  <2>4. redirects[f] \in Int
    BY DEF IInv, TypeOK, Hops
  <2>5. \A g \in Fetches : stage'[g] \in {"idle", "hop"} => conn'[Current(g)'] = "none"
    BY <1>3, <1>7, <2>1, <2>2, <2>3, CurrentIs DEF IInv, FreshShape
  <2>6. \A g \in Fetches, h \in Hops : h > redirects'[g] => conn'[<<g, h>>] = "none"
    BY <1>2, <1>3, <2>1, <2>2, <2>4 DEF IInv, FreshShape, Hops
  <2>7. QED
    BY <2>5, <2>6 DEF FreshShape
<1>14. PermitsBounded'
  <2>1. \A d \in Connections : conn'[d] \in {"hosted"} \cup Slotted => conn'[d] = conn[d] /\ semaphore'[d] = semaphore[d]
    BY <1>1, <1>2 DEF IInv, TypeOK, Slotted
  <2>2. QED
    BY <2>1, PermitsShrink DEF IInv, Holders, GlobalHolders, Slotted
<1>15. QED
  BY <1>11, <1>12, <1>13, <1>14 DEF IInv

\* A permit of the host is one more.
LEMMA HostSlotKeeps == ASSUME IInv, NEW f \in Fetches, HostSlot(f) PROVE IInv'
<1> DEFINE c == Current(f)
<1>1. /\ c \in Connections /\ conn[c] = "queued" /\ semaphore[c] \in Semaphores
      /\ conn' = [conn EXCEPT ![c] = "hosted"] /\ Cardinality(Holders(semaphore[c])) < PerHost
      /\ UNCHANGED <<stage, redirects, target, hosts, semaphore>>
  BY CurrentIs DEF IInv, TypeOK, SlotShape, HostSlot
<1>2. TypeOK'
  BY <1>1 DEF IInv, TypeOK, Current
<1>3. SlotShape' /\ FreshShape'
  BY <1>1, ShapesKept DEF States
<1>4. PermitsBounded'
  <2>1. \A d \in Connections : conn'[d] = IF d = c THEN "hosted" ELSE conn[d]
    BY <1>1 DEF IInv, TypeOK
  <2>2. Cardinality(GlobalHolders') <= Global
    <3>1. GlobalHolders' \subseteq GlobalHolders
      BY <2>1 DEF GlobalHolders, Slotted
    <3>2. QED
      BY <3>1, Finite, Smaller, FetcherAssumption DEF IInv, PermitsBounded
  <2>3. ASSUME NEW s \in Semaphores
        PROVE  Cardinality(Holders(s)') <= PerHost
    <3>1. CASE s = semaphore[c]
      <4>1. Holders(s)' \subseteq Holders(s) \cup {c}
        BY <1>1, <2>1 DEF Holders
      <4>2. QED
        BY <1>1, <3>1, <4>1, Finite, OneMore, FetcherAssumption
    <3>2. CASE s # semaphore[c]
      <4>1. Holders(s)' \subseteq Holders(s)
        BY <1>1, <2>1, <3>2 DEF Holders
      <4>2. QED
        BY <4>1, Finite, Smaller, FetcherAssumption DEF IInv, PermitsBounded
    <3>3. QED
      BY <3>1, <3>2
  <2>4. QED
    BY <2>2, <2>3 DEF PermitsBounded
<1>5. QED
  BY <1>2, <1>3, <1>4 DEF IInv

\* And so is one of the fetcher.
LEMMA GlobalSlotKeeps == ASSUME IInv, NEW f \in Fetches, GlobalSlot(f) PROVE IInv'
<1> DEFINE c == Current(f)
<1>1. /\ c \in Connections /\ conn[c] = "hosted"
      /\ conn' = [conn EXCEPT ![c] = "slotted"] /\ Cardinality(GlobalHolders) < Global
      /\ UNCHANGED <<stage, redirects, target, hosts, semaphore>>
  BY CurrentIs DEF IInv, GlobalSlot
<1>2. TypeOK'
  BY <1>1 DEF IInv, TypeOK, Current
<1>3. SlotShape' /\ FreshShape'
  BY <1>1, ShapesKept DEF States
<1>4. PermitsBounded'
  <2>1. \A d \in Connections : conn'[d] = IF d = c THEN "slotted" ELSE conn[d]
    BY <1>1 DEF IInv, TypeOK
  <2>2. Cardinality(GlobalHolders') <= Global
    <3>1. GlobalHolders' \subseteq GlobalHolders \cup {c}
      BY <2>1 DEF GlobalHolders
    <3>2. QED
      BY <1>1, <3>1, Finite, OneMore, FetcherAssumption
  <2>3. ASSUME NEW s \in Semaphores
        PROVE  Cardinality(Holders(s)') <= PerHost
    <3>1. Holders(s)' \subseteq Holders(s)
      BY <1>1, <2>1 DEF Holders
    <3>2. QED
      BY <3>1, Finite, Smaller, FetcherAssumption DEF IInv, PermitsBounded
  <2>4. QED
    BY <2>2, <2>3 DEF PermitsBounded
<1>5. QED
  BY <1>2, <1>3, <1>4 DEF IInv

\* A step of a connection that already holds both slots.
LEMMA SlottedKeeps ==
  ASSUME IInv, NEW c \in Connections, conn[c] \in Slotted, NEW v \in Slotted,
         conn' = [conn EXCEPT ![c] = v],
         UNCHANGED <<redirects, target, hosts, semaphore>>,
         stage' \in [Fetches -> {"idle", "hop", "slots", "sent", "done"}],
         \A f \in Fetches : stage'[f] # stage[f] => stage[f] = "slots" /\ stage'[f] = "sent"
  PROVE  IInv'
<1>1. TypeOK'
  BY DEF IInv, TypeOK, Current, Slotted
<1>2. SlotShape' /\ FreshShape'
  BY ShapesKept DEF States, Slotted
<1>3. \A d \in Connections : conn'[d] # conn[d] => conn[d] \in Slotted /\ conn'[d] \in Slotted
  BY DEF IInv, TypeOK
<1>4. PermitsBounded'
  BY <1>3, PermitsShrink DEF IInv, Holders, GlobalHolders
<1>5. QED
  BY <1>1, <1>2, <1>4 DEF IInv

\* Dialling, sending and closing move no permit.
LEMMA DialKeeps == ASSUME IInv, NEW f \in Fetches, Dial(f) PROVE IInv'
<1>1. Current(f) \in Connections
  BY CurrentIs DEF IInv
<1>2. QED
  BY <1>1, SlottedKeeps DEF Dial, Slotted, IInv, TypeOK

LEMMA SendKeeps == ASSUME IInv, NEW f \in Fetches, Send(f) PROVE IInv'
<1>1. Current(f) \in Connections
  BY CurrentIs DEF IInv
<1>2. QED
  BY <1>1, SlottedKeeps DEF Send, Slotted, IInv, TypeOK

LEMMA CloseKeeps == ASSUME IInv, NEW c \in Connections, Close(c) PROVE IInv'
BY SlottedKeeps DEF Close, Slotted, IInv, TypeOK

\* Dropping a hop gives up its slots and its semaphore at once, or leaves both to
\* the task of its connection.
LEMMA DropKeeps ==
  ASSUME IInv, NEW c \in Connections,
         NEW v \in States, v = "none" \/ (v \in Slotted /\ conn[c] \in Slotted),
         conn' = [conn EXCEPT ![c] = v],
         semaphore' = [semaphore EXCEPT ![c] = IF v = "none" THEN None ELSE @],
         UNCHANGED hosts,
         \A d \in Connections : conn[d] # "none" => target'[d] = target[d]
  PROVE  SlotShape' /\ PermitsBounded' /\ \A d \in Connections : conn[d] = "none" => conn'[d] = "none"
<1>1. \A d \in Connections :
        /\ conn'[d] = IF d = c THEN v ELSE conn[d]
        /\ semaphore'[d] = IF d = c /\ v = "none" THEN None ELSE semaphore[d]
  BY DEF IInv, TypeOK
<1>2. \A d \in Connections : conn[d] = "none" => conn'[d] = "none"
  BY <1>1 DEF Slotted
<1>3. SlotShape'
  BY <1>1 DEF IInv, SlotShape, Host, Slotted
<1>4. \A d \in Connections :
        conn'[d] \in {"hosted"} \cup Slotted =>
          semaphore'[d] = semaphore[d] /\ conn[d] \in {"hosted"} \cup Slotted
  BY <1>1 DEF Slotted
<1>5. \A d \in Connections : conn'[d] \in Slotted => conn[d] \in Slotted
  BY <1>1 DEF Slotted
<1>6. PermitsBounded'
  BY <1>4, <1>5, PermitsShrink DEF IInv, Holders, GlobalHolders
<1>7. QED
  BY <1>2, <1>3, <1>6

\* What a connection is once its hop is dropped.
LEMMA DroppedIs ==
  ASSUME IInv, NEW c \in Connections
  PROVE  Dropped(c) \in States /\ (Dropped(c) = "none" \/ (Dropped(c) \in Slotted /\ conn[c] \in Slotted))
BY DEF IInv, TypeOK, Dropped, States, Slotted

\* Connections that are not yet asked for stay so, unless a fetch moves to its next.
LEMMA FreshKept ==
  ASSUME IInv, \A d \in Connections : conn[d] = "none" => conn'[d] = "none",
         redirects' = redirects,
         \A f \in Fetches : stage'[f] \in {"idle", "hop"} => stage[f] \in {"idle", "hop"}
  PROVE  FreshShape'
<1>1. \A g \in Fetches : Current(g) \in Connections /\ Current(g)' = Current(g)
  BY CurrentIs DEF IInv, Current
<1>2. \A g \in Fetches, h \in Hops : <<g, h>> \in Connections
  BY DEF Connections
<1>3. QED
  BY <1>1, <1>2 DEF IInv, FreshShape

\* The slots of a closed connection are given back.
LEMMA FreeKeeps == ASSUME IInv, NEW c \in Connections, Free(c) PROVE IInv'
<1>1. /\ conn[c] = "closed" /\ conn' = [conn EXCEPT ![c] = "none"]
      /\ semaphore' = [semaphore EXCEPT ![c] = None]
      /\ UNCHANGED <<stage, redirects, target, hosts>>
  BY DEF Free
<1>2. SlotShape' /\ PermitsBounded' /\ \A d \in Connections : conn[d] = "none" => conn'[d] = "none"
  BY <1>1, DropKeeps DEF States
<1>3. TypeOK'
  BY <1>1 DEF IInv, TypeOK, Current
<1>4. FreshShape'
  BY <1>1, <1>2, FreshKept DEF IInv, TypeOK
<1>5. QED
  BY <1>2, <1>3, <1>4 DEF IInv

\* The next hop of a redirect is a connection nobody has asked for.
LEMMA RedirectKeeps == ASSUME IInv, NEW f \in Fetches, Redirect(f) PROVE IInv'
<1> DEFINE c == Current(f)
           n == <<f, redirects[f] + 1>>
<1>1. PICK t \in Targets : t.allowed /\ target' = [target EXCEPT ![n] = t]
  BY DEF Redirect
<1>2. /\ stage[f] = "sent" /\ redirects[f] < MaxRedirects
      /\ redirects' = [redirects EXCEPT ![f] = @ + 1] /\ stage' = [stage EXCEPT ![f] = "hop"]
      /\ conn' = [conn EXCEPT ![c] = Dropped(c)]
      /\ semaphore' = [semaphore EXCEPT ![c] = IF Dropped(c) = "none" THEN None ELSE @]
      /\ UNCHANGED hosts
  BY DEF Redirect, DropHop
<1>3. redirects[f] + 1 \in Hops /\ redirects[f] + 1 > redirects[f]
  BY <1>2, FetcherAssumption DEF IInv, TypeOK, Hops
<1>4. c \in Connections /\ n \in Connections /\ conn[n] = "none"
  BY <1>3, CurrentIs DEF IInv, FreshShape, Connections
<1>5. SlotShape' /\ PermitsBounded' /\ \A d \in Connections : conn[d] = "none" => conn'[d] = "none"
  <2>1. \A d \in Connections : conn[d] # "none" => target'[d] = target[d]
    BY <1>1, <1>4 DEF IInv, TypeOK
  <2>2. QED
    BY <1>2, <1>4, <2>1, DroppedIs, DropKeeps
<1>6. /\ \A g \in Fetches \ {f} : /\ stage'[g] = stage[g] /\ redirects'[g] = redirects[g]
                                  /\ Current(g)' = Current(g) /\ Current(g) \in Connections
                                  /\ Current(g) # n
      /\ stage'[f] = "hop" /\ redirects'[f] = redirects[f] + 1 /\ Current(f)' = n
  BY <1>2, CurrentIs DEF IInv, TypeOK, Current
<1>7. TypeOK'
  <2>1. /\ stage' \in [Fetches -> {"idle", "hop", "slots", "sent", "done"}]
        /\ redirects' \in [Fetches -> Hops] /\ target' \in [Connections -> Targets \cup {None}]
        /\ hosts' \in [Hosts -> Semaphores \cup {None}]
        /\ semaphore' \in [Connections -> Semaphores \cup {None}]
    BY <1>1, <1>2, <1>3, <1>4 DEF IInv, TypeOK
  <2>2. conn' \in [Connections -> States]
    BY <1>2, <1>4, DroppedIs DEF IInv, TypeOK, States
  <2>3. t # None
    BY FetcherAssumption
  <2>4. \A g \in Fetches : stage'[g] \in {"hop", "slots", "sent"} =>
          target'[Current(g)'] # None /\ target'[Current(g)'].allowed
    BY <1>1, <1>4, <1>6, <2>3 DEF IInv, TypeOK
  <2>5. QED
    BY <2>1, <2>2, <2>4 DEF TypeOK, States
<1>8. FreshShape'
  <2>1. \A g \in Fetches, h \in Hops : <<g, h>> \in Connections
    BY DEF Connections
  <2>2. \A g \in Fetches : stage'[g] \in {"idle", "hop"} => conn'[Current(g)'] = "none"
    BY <1>4, <1>5, <1>6 DEF IInv, FreshShape
  <2>3. \A g \in Fetches, h \in Hops : h > redirects'[g] => h > redirects[g]
    BY <1>3, <1>6 DEF IInv, TypeOK, Hops
  <2>4. \A g \in Fetches, h \in Hops : h > redirects'[g] => conn'[<<g, h>>] = "none"
    BY <1>5, <2>1, <2>3 DEF IInv, FreshShape
  <2>5. QED
    BY <2>2, <2>4 DEF FreshShape
<1>9. QED
  BY <1>5, <1>7, <1>8 DEF IInv

\* A fetch that is over.
LEMMA OverKeeps ==
  ASSUME IInv, NEW f \in Fetches, stage[f] \in {"hop", "slots", "sent"}, Over(f),
         \/ UNCHANGED <<conn, semaphore>>
         \/ DropHop(Current(f)),
         UNCHANGED <<redirects, target, hosts>>
  PROVE  IInv'
<1> DEFINE c == Current(f)
<1>1. c \in Connections
  BY CurrentIs DEF IInv
<1>2. /\ stage' \in [Fetches -> {"idle", "hop", "slots", "sent", "done"}]
      /\ \A g \in Fetches : stage'[g] = stage[g] \/ stage'[g] = "done"
      /\ \A g \in Fetches : Current(g)' = Current(g)
  BY DEF IInv, TypeOK, Over, Current
<1>3. CASE DropHop(c)
  <2>1. SlotShape' /\ PermitsBounded' /\ \A d \in Connections : conn[d] = "none" => conn'[d] = "none"
    BY <1>1, <1>3, DroppedIs, DropKeeps DEF DropHop
  <2>2. conn' \in [Connections -> States] /\ semaphore' \in [Connections -> Semaphores \cup {None}]
    BY <1>1, <1>3, DroppedIs DEF IInv, TypeOK, DropHop, States
  <2>3. TypeOK'
    BY <1>2, <2>2 DEF IInv, TypeOK, States
  <2>4. FreshShape'
    BY <1>2, <2>1, FreshKept
  <2>5. QED
    BY <2>1, <2>3, <2>4 DEF IInv
<1>4. CASE UNCHANGED <<conn, semaphore>>
  <2>1. TypeOK'
    BY <1>2, <1>4 DEF IInv, TypeOK
  <2>2. SlotShape'
    BY <1>4 DEF IInv, SlotShape, Host
  <2>3. FreshShape'
    BY <1>2, <1>4, FreshKept
  <2>4. PermitsBounded'
    BY <1>4, PermitsShrink DEF IInv, Holders, GlobalHolders
  <2>5. QED
    BY <2>1, <2>2, <2>3, <2>4 DEF IInv
<1>5. QED
  BY <1>3, <1>4

\* The two ways it is.
LEMMA FinishKeeps == ASSUME IInv, NEW f \in Fetches, Finish(f) PROVE IInv'
BY OverKeeps DEF Finish

LEMMA FailKeeps == ASSUME IInv, NEW f \in Fetches, Fail(f) PROVE IInv'
BY OverKeeps DEF Fail

\* IInv is inductive.
LEMMA NextKeeps == IInv /\ [Next]_vars => IInv'
<1> SUFFICES ASSUME IInv, [Next]_vars PROVE IInv'
  OBVIOUS
<1>1. CASE UNCHANGED vars
  <2>1. TypeOK' /\ SlotShape' /\ FreshShape'
    BY <1>1 DEF vars, IInv, TypeOK, SlotShape, FreshShape, Current, Host
  <2>2. PermitsBounded'
    BY <1>1, PermitsShrink DEF vars, IInv, Holders, GlobalHolders
  <2>3. QED
    BY <2>1, <2>2 DEF IInv
<1>2. ASSUME NEW f \in Fetches, Start(f) \/ Advance(f) \/ Fail(f)
      PROVE  IInv'
  BY <1>2, StartKeeps, HostPermitKeeps, HostSlotKeeps, GlobalSlotKeeps, DialKeeps, SendKeeps,
     RedirectKeeps, FinishKeeps, FailKeeps DEF Advance
<1>3. ASSUME NEW c \in Connections, Close(c) \/ Free(c)
      PROVE  IInv'
  BY <1>3, CloseKeeps, FreeKeeps
<1>4. QED
  BY <1>1, <1>2, <1>3 DEF Next

\* So it is an invariant.
LEMMA Invariance == Spec => []IInv
BY InitKeeps, NextKeeps, PTL DEF Spec

\* Every variable has its type, and a fetch at work has a target the policy allows.
THEOREM TypeCorrect == Spec => []TypeOK
<1>1. IInv => TypeOK
  BY DEF IInv
<1>2. QED
  BY <1>1, Invariance, PTL

\* G5: no more sockets are open than the limits allow, to a host or in all, those of
\* dropped fetches among them.
THEOREM SocketsStayBounded == Spec => []SocketsBounded
<1>1. IInv => SocketsBounded
  <2> SUFFICES ASSUME IInv PROVE SocketsBounded
    OBVIOUS
  <2>1. Cardinality({c \in Connections : conn[c] \in Connected}) <= Global
    <3>1. {c \in Connections : conn[c] \in Connected} \subseteq GlobalHolders
      BY DEF GlobalHolders, Connected, Slotted
    <3>2. QED
      BY <3>1, Finite, Smaller, FetcherAssumption DEF IInv, PermitsBounded
  <2>2. ASSUME NEW x \in Hosts
        PROVE  Cardinality({c \in Connections : conn[c] \in Connected /\ Host(c) = x}) <= PerHost
    <3> DEFINE Open == {c \in Connections : conn[c] \in Connected /\ Host(c) = x}
    <3>1. \A c \in Open : hosts[x] # None /\ semaphore[c] = hosts[x] /\ conn[c] \in Slotted
      BY DEF IInv, SlotShape, Connected, Slotted
    <3>2. CASE Open = {}
      <4>1. Cardinality({}) = 0 /\ 0 <= PerHost
        BY FS_EmptySet, FetcherAssumption
      <4>2. QED
        BY <3>2, <4>1
    <3>3. CASE Open # {}
      <4>1. hosts[x] \in Semaphores
        BY <3>1, <3>3 DEF IInv, TypeOK
      <4>2. Open \subseteq Holders(hosts[x])
        BY <3>1 DEF Holders
      <4>3. QED
        BY <4>1, <4>2, Finite, Smaller, FetcherAssumption DEF IInv, PermitsBounded
    <3>4. QED
      BY <3>2, <3>3
  <2>3. QED
    BY <2>1, <2>2 DEF SocketsBounded
<1>2. QED
  BY <1>1, Invariance, PTL

\* "so the map stays bounded by the hosts in flight" (fetcher.rs): a change of the map
\* leaves only hosts some connection refers to.
THEOREM MapStaysBounded == Spec => MapOfHostsInFlight
<1> DEFINE Kept == hosts' # hosts =>
                     \A x \in Hosts : hosts'[x] # None =>
                       \E c \in Connections : semaphore'[c] = hosts'[x]
<1>1. IInv /\ [Next]_vars => [Kept]_vars
  <2> SUFFICES ASSUME IInv, Next, hosts' # hosts, NEW x \in Hosts, hosts'[x] # None
               PROVE  \E c \in Connections : semaphore'[c] = hosts'[x]
    BY DEF vars
  <2>1. PICK f \in Fetches : HostPermit(f)
    BY DEF Next, Start, Advance, HostSlot, GlobalSlot, Dial, Send, Redirect, Finish, Fail, Close, Free
  <2> DEFINE c == Current(f)
             h == target[c].host
             kept == [y \in Hosts |-> IF hosts[y] # None /\ InUse(hosts[y]) THEN hosts[y] ELSE None]
  <2>2. PICK s \in Semaphores :
          hosts' = [kept EXCEPT ![h] = s] /\ semaphore' = [semaphore EXCEPT ![c] = s]
    BY <2>1 DEF HostPermit
  <2>3. c \in Connections /\ semaphore[c] = None
    BY <2>1, CurrentIs DEF IInv, HostPermit, FreshShape, SlotShape
  <2>4. CASE x = h
    <3>1. semaphore'[c] = s
      BY <2>2, <2>3 DEF IInv, TypeOK
    <3>2. hosts'[x] = s
      BY <2>2, <2>4
    <3>3. QED
      BY <2>3, <3>1, <3>2
  <2>5. CASE x # h
    <3>1. hosts'[x] = kept[x]
      BY <2>2, <2>5
    <3>2. hosts'[x] = hosts[x] /\ InUse(hosts[x])
      BY <3>1
    <3>3. PICK d \in Connections : semaphore[d] = hosts[x]
      BY <3>2 DEF InUse
    <3>4. semaphore'[d] = hosts'[x]
      BY <2>2, <2>3, <3>2, <3>3 DEF IInv, TypeOK
    <3>5. QED
      BY <3>4
  <2>6. QED
    BY <2>4, <2>5
<1>2. QED
  BY <1>1, Invariance, PTL DEF Spec, MapOfHostsInFlight
==============================================================================
