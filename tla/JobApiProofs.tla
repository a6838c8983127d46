----------------------------- MODULE JobApiProofs -----------------------------
(***************************************************************************)
(* Proofs about JobApi, for any requests, sessions, tenants and keys and    *)
(* any size of the pool.  The answer of a request is true once it is sent   *)
(* because of what holds while its transaction is open: nobody else can     *)
(* store its key while it has inserted it (InsertHoldsKey), and what it     *)
(* found there stays (DecisionStands), since no row is ever replaced.       *)
(***************************************************************************)
EXTENDS JobApi, TLAPS

\* What a request carries suits the state of its handler, and what it is
\* answered its status.
HandlerShape ==
  \A r \in Requests :
    /\ pc[r] = "unsent" <=> asked[r] = None
    /\ pc[r] = "looking" => tenant[r] \in {None, Owner[asked[r].session]}
    /\ pc[r] \in {"inserting", "inserted", "duplicate"} => asked[r].kind = "enqueue"
    /\ pc[r] = "reading" => asked[r].kind = "read"
    /\ answer[r].status \in {200, 201} => answer[r].job \in Requests

\* An inserted row that is not committed has its key to itself.
InsertHoldsKey ==
  \A r \in Requests : pc[r] = "inserted" =>
    /\ rows[tenant[r]][Key(r)] = None
    /\ answer[r] = [status |-> 201, job |-> r]
    /\ \A q \in Requests \ {r} :
         pc[q] = "inserted" /\ tenant[q] = tenant[r] => Key(q) # Key(r)

\* What the second SELECT looks for is there.
DuplicateIsStored ==
  \A r \in Requests : pc[r] = "duplicate" => rows[tenant[r]][Key(r)] # None

\* An answer read from the rows is still true when the transaction ends.
Stands(r) ==
  IF asked[r].kind = "enqueue"
  THEN LET row == rows[tenant[r]][Key(r)]
       IN  /\ row # None
           /\ answer[r] = IF row.operation = asked[r].operation
                          THEN [status |-> 200, job |-> row.job]
                          ELSE Problem(409)
  ELSE \/ answer[r] = Problem(404)
       \/ /\ answer[r] = [status |-> 200, job |-> asked[r].job]
          /\ \E row \in Visible(r) : row.job = asked[r].job

DecisionStands == \A r \in Requests : pc[r] = "decided" => Stands(r)

IInv ==
  /\ TypeOK
  /\ HandlerShape
  /\ InsertHoldsKey
  /\ DuplicateIsStored
  /\ DecisionStands
  /\ AcceptedIsStored
  /\ OnlyOwnJobsShown

\* In the first state no request is sent and no row is stored.
LEMMA InitIInv == Init => IInv
<1> SUFFICES ASSUME Init PROVE IInv
  OBVIOUS
<1>1. TypeOK
  BY DEF Init, TypeOK, InTransaction, Answer, NoAnswer, Status
<1>2. HandlerShape /\ InsertHoldsKey /\ DuplicateIsStored /\ DecisionStands
  BY DEF Init, HandlerShape, InsertHoldsKey, DuplicateIsStored, DecisionStands, NoAnswer
<1>3. AcceptedIsStored /\ OnlyOwnJobsShown
  BY DEF Init, AcceptedIsStored, OnlyOwnJobsShown
<1>4. QED
  BY <1>1, <1>2, <1>3 DEF IInv

\* What a step of one request does not change keeps the decisions of the others.
LEMMA OthersStand ==
  ASSUME IInv, NEW r \in Requests, UNCHANGED rows,
         \A q \in Requests \ {r} :
           /\ pc'[q] = pc[q] /\ asked'[q] = asked[q]
           /\ tenant'[q] = tenant[q] /\ answer'[q] = answer[q],
         pc'[r] = "decided" => Stands(r)'
  PROVE  DecisionStands'
<1> SUFFICES ASSUME NEW q \in Requests, pc'[q] = "decided", q # r
             PROVE  Stands(q)'
  BY DEF DecisionStands
<1>1. Stands(q)
  BY DEF IInv, DecisionStands
<1>2. Visible(q)' = Visible(q)
  BY DEF Visible
<1>3. QED
  BY <1>1, <1>2 DEF Stands, Key, Problem

\* A session that ends changes nothing for requests it has let in.
LEMMA EndSessionIInv ==
  ASSUME IInv, NEW s \in Sessions, EndSession(s)
  PROVE  IInv'
<1> USE DEF IInv, EndSession
<1>1. TypeOK'
  BY DEF TypeOK
<1>2. HandlerShape' /\ InsertHoldsKey' /\ DuplicateIsStored' /\ DecisionStands'
  BY DEF HandlerShape, InsertHoldsKey, DuplicateIsStored, DecisionStands, Stands, Visible, Key
<1>3. AcceptedIsStored' /\ OnlyOwnJobsShown'
  BY DEF AcceptedIsStored, OnlyOwnJobsShown, Key
<1>4. QED
  BY <1>1, <1>2, <1>3

LEMMA SendIInv ==
  ASSUME IInv, NEW r \in Requests, Send(r)
  PROVE  IInv'
<1> USE DEF IInv, Send, Move
<1>1. TypeOK'
  BY JobApiAssumption DEF TypeOK, InTransaction, Answer, Status, Enqueue, Read
<1>2. HandlerShape'
  BY JobApiAssumption DEF TypeOK, HandlerShape, Enqueue, Read
<1>3. InsertHoldsKey'
  BY DEF TypeOK, InsertHoldsKey, Key, HandlerShape
<1>4. DuplicateIsStored'
  BY DEF TypeOK, DuplicateIsStored, Key, HandlerShape
<1>5. DecisionStands'
  BY OthersStand DEF TypeOK, InTransaction
<1>6. AcceptedIsStored'
  BY DEF TypeOK, AcceptedIsStored, Key, HandlerShape
<1>7. OnlyOwnJobsShown'
  BY DEF TypeOK, OnlyOwnJobsShown, HandlerShape
<1>8. QED
  BY <1>1, <1>2, <1>3, <1>4, <1>5, <1>6, <1>7

LEMMA LookUpIInv ==
  ASSUME IInv, NEW r \in Requests, LookUp(r)
  PROVE  IInv'
<1> USE DEF IInv, LookUp, Move
<1>1. TypeOK'
  BY JobApiAssumption DEF TypeOK, InTransaction, Answer, Status, Enqueue, Read,
         Tenants
<1>2. HandlerShape'
  BY DEF TypeOK, HandlerShape, InTransaction
<1>3. InsertHoldsKey'
  BY DEF TypeOK, InsertHoldsKey, Key
<1>4. DuplicateIsStored'
  BY DEF TypeOK, DuplicateIsStored, Key
<1>5. DecisionStands'
  BY OthersStand DEF TypeOK, InTransaction
<1>6. AcceptedIsStored'
  BY DEF TypeOK, AcceptedIsStored, Key
<1>7. OnlyOwnJobsShown'
  BY DEF TypeOK, OnlyOwnJobsShown
<1>8. QED
  BY <1>1, <1>2, <1>3, <1>4, <1>5, <1>6, <1>7

LEMMA LookedUpIInv ==
  ASSUME IInv, NEW r \in Requests, LookedUp(r)
  PROVE  IInv'
<1> USE DEF IInv, LookedUp, Move, Decide, Problem
<1>1. TypeOK'
  <2>1. Problem(401) \in Answer
    BY DEF Answer, Status
  <2>2. answer' \in [Requests -> Answer]
    BY <2>1 DEF TypeOK
  <2>3. QED
    BY <2>2 DEF TypeOK, HandlerShape, InTransaction
<1>2. HandlerShape'
  BY DEF TypeOK, HandlerShape
<1>3. InsertHoldsKey'
  BY DEF TypeOK, InsertHoldsKey, Key
<1>4. DuplicateIsStored'
  BY DEF TypeOK, DuplicateIsStored, Key
<1>5. DecisionStands'
  BY OthersStand DEF TypeOK, InTransaction
<1>6. AcceptedIsStored'
  BY DEF TypeOK, AcceptedIsStored, Key
<1>7. OnlyOwnJobsShown'
  BY DEF TypeOK, OnlyOwnJobsShown
<1>8. QED
  BY <1>1, <1>2, <1>3, <1>4, <1>5, <1>6, <1>7

LEMMA RejectIInv ==
  ASSUME IInv, NEW r \in Requests, Reject(r)
  PROVE  IInv'
<1> USE DEF IInv, Reject, Move, Decide, Problem
<1>1. TypeOK'
  BY DEF TypeOK, InTransaction, Answer, Status, Enqueue, Read
<1>2. HandlerShape'
  BY DEF TypeOK, HandlerShape
<1>3. InsertHoldsKey'
  BY DEF TypeOK, InsertHoldsKey, Key
<1>4. DuplicateIsStored'
  BY DEF TypeOK, DuplicateIsStored, Key
<1>5. DecisionStands'
  BY OthersStand DEF TypeOK, InTransaction
<1>6. AcceptedIsStored'
  BY DEF TypeOK, AcceptedIsStored, Key
<1>7. OnlyOwnJobsShown'
  BY DEF TypeOK, OnlyOwnJobsShown
<1>8. QED
  BY <1>1, <1>2, <1>3, <1>4, <1>5, <1>6, <1>7

LEMMA BeginIInv ==
  ASSUME IInv, NEW r \in Requests, Begin(r)
  PROVE  IInv'
<1> USE DEF IInv, Begin, Move
<1>1. TypeOK'
  BY DEF TypeOK, InTransaction, Answer, Status, Enqueue, Read
<1>2. HandlerShape'
  BY JobApiAssumption DEF TypeOK, HandlerShape, Enqueue, Read, InTransaction
<1>3. InsertHoldsKey'
  BY DEF TypeOK, InsertHoldsKey, Key
<1>4. DuplicateIsStored'
  BY DEF TypeOK, DuplicateIsStored, Key
<1>5. DecisionStands'
  BY OthersStand DEF TypeOK, InTransaction
<1>6. AcceptedIsStored'
  BY DEF TypeOK, AcceptedIsStored, Key
<1>7. OnlyOwnJobsShown'
  BY DEF TypeOK, OnlyOwnJobsShown
<1>8. QED
  BY <1>1, <1>2, <1>3, <1>4, <1>5, <1>6, <1>7

\* The row this request inserts is not committed, and no other transaction has
\* inserted the same key: it would have waited.
LEMMA InsertIInv ==
  ASSUME IInv, NEW r \in Requests, Insert(r)
  PROVE  IInv'
<1> USE DEF IInv, Insert, Move, Decide
<1>1. TypeOK'
  <2>1. [status |-> 201, job |-> r] \in Answer
    BY DEF Answer, Status
  <2>2. answer' \in [Requests -> Answer]
    BY <2>1 DEF TypeOK
  <2>3. QED
    BY <2>2 DEF TypeOK, InTransaction
<1>2. HandlerShape'
  BY DEF TypeOK, HandlerShape
<1>3. InsertHoldsKey'
  BY DEF TypeOK, InsertHoldsKey, Key
<1>4. DuplicateIsStored'
  BY DEF TypeOK, DuplicateIsStored, Key
<1>5. DecisionStands'
  BY OthersStand DEF TypeOK, InTransaction
<1>6. AcceptedIsStored'
  BY DEF TypeOK, AcceptedIsStored, Key
<1>7. OnlyOwnJobsShown'
  BY DEF TypeOK, OnlyOwnJobsShown
<1>8. QED
  BY <1>1, <1>2, <1>3, <1>4, <1>5, <1>6, <1>7

\* The row that made the insert a duplicate is still there.
LEMMA SelectExistingIInv ==
  ASSUME IInv, NEW r \in Requests, SelectExisting(r)
  PROVE  IInv'
<1> USE DEF IInv, SelectExisting, Move, Decide, Problem
<1> DEFINE row == rows[tenant[r]][Key(r)]
<1>0. /\ row # None /\ row \in Row
      /\ answer'[r] = IF row.operation = asked[r].operation
                     THEN [status |-> 200, job |-> row.job] ELSE Problem(409)
  <2>1. asked[r] \in Enqueue
    BY JobApiAssumption DEF TypeOK, HandlerShape, Enqueue, Read
  <2>2. tenant[r] \in Tenants /\ Key(r) \in Keys
    BY <2>1 DEF TypeOK, InTransaction, Tenants, Enqueue, Key
  <2>3. row # None /\ row \in Row
    BY <2>2 DEF TypeOK, DuplicateIsStored
  <2>4. QED
    BY <2>3 DEF TypeOK
<1>1. TypeOK'
  <2>1. answer'[r] \in Answer
    BY <1>0 DEF Answer, Status, Row
  <2>2. answer' \in [Requests -> Answer]
    BY <2>1 DEF TypeOK
  <2>3. QED
    BY <2>2 DEF TypeOK, InTransaction
<1>2. HandlerShape'
  BY <1>0 DEF TypeOK, HandlerShape, Problem, Row
<1>3. InsertHoldsKey'
  BY DEF TypeOK, InsertHoldsKey, Key
<1>4. DuplicateIsStored'
  BY DEF TypeOK, DuplicateIsStored, Key
<1>5. DecisionStands'
  <2>1. asked[r].kind = "enqueue"
    BY DEF HandlerShape
  <2>2. Stands(r)'
    BY <1>0, <2>1 DEF Stands, Key
  <2>3. QED
    BY <2>2, OthersStand DEF TypeOK
<1>6. AcceptedIsStored'
  BY DEF TypeOK, AcceptedIsStored, Key
<1>7. OnlyOwnJobsShown'
  BY DEF TypeOK, OnlyOwnJobsShown
<1>8. QED
  BY <1>1, <1>2, <1>3, <1>4, <1>5, <1>6, <1>7

LEMMA SelectJobIInv ==
  ASSUME IInv, NEW r \in Requests, SelectJob(r)
  PROVE  IInv'
<1> USE DEF IInv, SelectJob, Move, Decide, Problem
<1>1. TypeOK'
  <2>1. asked[r] \in Read
    BY JobApiAssumption DEF TypeOK, HandlerShape, Enqueue, Read
  <2>2. answer'[r] \in Answer
    BY <2>1 DEF TypeOK, Answer, Status, Read
  <2>3. answer' \in [Requests -> Answer]
    BY <2>2 DEF TypeOK
  <2>4. QED
    BY <2>3 DEF TypeOK, InTransaction
<1>2. HandlerShape'
  BY JobApiAssumption DEF TypeOK, HandlerShape, Read, Enqueue
<1>3. InsertHoldsKey'
  BY DEF TypeOK, InsertHoldsKey, Key
<1>4. DuplicateIsStored'
  BY DEF TypeOK, DuplicateIsStored, Key
<1>5. DecisionStands'
  <2>1. asked[r].kind = "read"
    BY DEF HandlerShape
  <2>2. Stands(r)'
    BY <2>1 DEF TypeOK, Stands, Visible
  <2>3. QED
    BY <2>2, OthersStand DEF TypeOK
<1>6. AcceptedIsStored'
  BY DEF TypeOK, AcceptedIsStored, Key
<1>7. OnlyOwnJobsShown'
  BY DEF TypeOK, OnlyOwnJobsShown
<1>8. QED
  BY <1>1, <1>2, <1>3, <1>4, <1>5, <1>6, <1>7

\* A failure stores nothing and names no job.
LEMMA FailIInv ==
  ASSUME IInv, NEW r \in Requests, Fail(r)
  PROVE  IInv'
<1> USE DEF IInv, Fail, Move, Decide, Problem
<1>1. TypeOK'
  BY DEF TypeOK, InTransaction, Answer, Status, Enqueue, Read
<1>2. HandlerShape'
  BY DEF TypeOK, HandlerShape, InTransaction
<1>3. InsertHoldsKey'
  BY DEF TypeOK, InsertHoldsKey, Key
<1>4. DuplicateIsStored'
  BY DEF TypeOK, DuplicateIsStored, Key
<1>5. DecisionStands'
  BY OthersStand DEF TypeOK, InTransaction
<1>6. AcceptedIsStored'
  BY DEF TypeOK, AcceptedIsStored, Key
<1>7. OnlyOwnJobsShown'
  BY DEF TypeOK, OnlyOwnJobsShown
<1>8. QED
  BY <1>1, <1>2, <1>3, <1>4, <1>5, <1>6, <1>7

\* COMMIT adds the row that was inserted, if one was, and replaces none.
LEMMA StoreAdds ==
  ASSUME IInv, NEW r \in Requests, pc[r] \in {"inserted", "decided"}, Store(r)
  PROVE  /\ rows' \in [Tenants -> [Keys -> Row \cup {None}]]
         /\ \A t \in Tenants, k \in Keys : rows[t][k] # None => rows'[t][k] = rows[t][k]
         /\ pc[r] = "inserted" =>
              /\ tenant[r] \in Tenants /\ Key(r) \in Keys
              /\ rows'[tenant[r]][Key(r)] = [job |-> r, operation |-> asked[r].operation]
              /\ \A t \in Tenants, k \in Keys :
                   t # tenant[r] \/ k # Key(r) => rows'[t][k] = rows[t][k]
         /\ pc[r] = "decided" => rows' = rows
<1>1. CASE pc[r] = "decided"
  BY <1>1 DEF Store, IInv, TypeOK
<1>2. CASE pc[r] = "inserted"
  <2>1. asked[r] \in Enqueue
    BY <1>2, JobApiAssumption DEF IInv, TypeOK, HandlerShape, Enqueue, Read
  <2>2. tenant[r] \in Tenants /\ Key(r) \in Keys
    BY <1>2, <2>1 DEF IInv, TypeOK, InTransaction, Tenants, Enqueue, Key
  <2>3. [job |-> r, operation |-> asked[r].operation] \in Row
    BY <2>1 DEF Enqueue, Row
  <2>4. rows[tenant[r]][Key(r)] = None
    BY <1>2 DEF IInv, InsertHoldsKey
  <2>5. rows' = [rows EXCEPT ![tenant[r]] = [@ EXCEPT ![Key(r)] =
                    [job |-> r, operation |-> asked[r].operation]]]
    BY <1>2 DEF Store
  <2>6. QED
    BY <1>2, <2>2, <2>3, <2>4, <2>5 DEF IInv, TypeOK
<1>3. QED
  BY <1>1, <1>2

\* The end of a transaction, with its answer or with a 503 in its place.
LEMMA EndIInv ==
  ASSUME IInv, NEW r \in Requests, pc[r] \in {"inserted", "decided"}, Store(r),
         pc' = [pc EXCEPT ![r] = "done"], UNCHANGED <<live, asked, tenant>>,
         answer' = answer \/ answer' = [answer EXCEPT ![r] = Problem(503)]
  PROVE  IInv'
<1> USE DEF IInv
<1>1. /\ rows' \in [Tenants -> [Keys -> Row \cup {None}]]
      /\ \A t \in Tenants, k \in Keys : rows[t][k] # None => rows'[t][k] = rows[t][k]
      /\ pc[r] = "inserted" =>
           /\ tenant[r] \in Tenants /\ Key(r) \in Keys
           /\ rows'[tenant[r]][Key(r)] = [job |-> r, operation |-> asked[r].operation]
           /\ \A t \in Tenants, k \in Keys :
                t # tenant[r] \/ k # Key(r) => rows'[t][k] = rows[t][k]
      /\ pc[r] = "decided" => rows' = rows
  BY StoreAdds
<1>2. \A q \in Requests : asked[q] \in Enqueue \cup Read \cup {None}
  BY DEF TypeOK
<1>3. \A q \in Requests : pc[q] # "unsent" =>
        /\ Owner[asked[q].session] \in Tenants
        /\ asked[q].kind = "enqueue" => Key(q) \in Keys
  BY <1>2, JobApiAssumption DEF HandlerShape, Tenants, Enqueue, Read, Key
<1>4. \A q \in Requests : pc[q] \in {"inserting", "inserted", "duplicate", "decided", "reading"} =>
        tenant[q] = Owner[asked[q].session]
  BY DEF TypeOK, InTransaction
<1>5. TypeOK'
  <2>1. Problem(503) \in Answer
    BY DEF Problem, Answer, Status
  <2>2. answer' \in [Requests -> Answer]
    BY <2>1 DEF TypeOK
  <2>3. pc' \in [Requests -> {"unsent", "arrived", "admitted", "done"} \cup InTransaction]
    BY DEF TypeOK
  <2>4. \A q \in Requests : pc'[q] \in {"admitted"} \cup (InTransaction \ {"looking"}) =>
          pc[q] = pc'[q]
    BY DEF TypeOK, InTransaction
  <2>5. QED
    BY <1>1, <2>2, <2>3, <2>4 DEF TypeOK
<1>6. HandlerShape'
  BY DEF HandlerShape, TypeOK, Problem
<1>7. InsertHoldsKey'
  <2> SUFFICES ASSUME NEW q \in Requests, pc'[q] = "inserted"
               PROVE  /\ rows'[tenant[q]][Key(q)] = None
                      /\ answer'[q] = [status |-> 201, job |-> q]
                      /\ \A p \in Requests \ {q} :
                           pc'[p] = "inserted" /\ tenant[p] = tenant[q] => Key(p) # Key(q)
    BY DEF InsertHoldsKey, Key
  <2>1. q # r /\ pc[q] = "inserted"
    BY DEF TypeOK
  <2>2. tenant[q] \in Tenants /\ Key(q) \in Keys
    BY <1>3, <1>4, <2>1 DEF HandlerShape
  <2>3. pc[r] = "inserted" => tenant[q] # tenant[r] \/ Key(q) # Key(r)
    BY <2>1 DEF InsertHoldsKey
  <2>4. rows'[tenant[q]][Key(q)] = rows[tenant[q]][Key(q)]
    BY <1>1, <2>2, <2>3
  <2>5. answer'[q] = answer[q]
    BY <2>1 DEF TypeOK
  <2>6. QED
    BY <2>1, <2>4, <2>5 DEF InsertHoldsKey, TypeOK
<1>8. DuplicateIsStored'
  <2> SUFFICES ASSUME NEW q \in Requests, pc'[q] = "duplicate"
               PROVE  rows'[tenant[q]][Key(q)] # None
    BY DEF DuplicateIsStored, Key
  <2>1. pc[q] = "duplicate"
    BY DEF TypeOK
  <2>2. QED
    BY <1>1, <1>3, <1>4, <2>1 DEF DuplicateIsStored, HandlerShape
<1>9. DecisionStands'
  <2> SUFFICES ASSUME NEW q \in Requests, pc'[q] = "decided"
               PROVE  Stands(q)'
    BY DEF DecisionStands
  <2>1. /\ pc[q] = "decided" /\ answer'[q] = answer[q] /\ Stands(q)
        /\ asked'[q] = asked[q] /\ tenant'[q] = tenant[q]
    BY DEF TypeOK, DecisionStands
  <2>2. tenant[q] \in Tenants
    BY <1>3, <1>4, <2>1
  <2>3. CASE asked[q].kind = "enqueue"
    <3>1. rows'[tenant[q]][Key(q)] = rows[tenant[q]][Key(q)]
      BY <1>1, <1>3, <2>1, <2>2, <2>3 DEF Stands
    <3>2. QED
      BY <2>1, <2>3, <3>1 DEF Stands, Key, Problem
  <2>4. CASE asked[q].kind # "enqueue"
    <3>1. Visible(q) \subseteq Visible(q)'
      BY <1>1, <2>1, <2>2 DEF Visible
    <3>2. QED
      BY <2>1, <2>4, <3>1 DEF Stands, Problem
  <2>5. QED
    BY <2>3, <2>4
<1>10. AcceptedIsStored'
  <2> SUFFICES ASSUME NEW q \in Requests, pc'[q] = "done", asked[q].kind = "enqueue",
                      answer'[q].status \in {200, 201}
               PROVE  rows'[Owner[asked[q].session]][Key(q)] =
                        [job |-> answer'[q].job, operation |-> asked[q].operation]
    BY DEF AcceptedIsStored, Key
  <2>1. CASE q # r
    <3>1. /\ pc[q] = "done" /\ answer'[q] = answer[q]
          /\ Owner[asked[q].session] \in Tenants /\ Key(q) \in Keys
      BY <1>3, <2>1 DEF TypeOK
    <3>2. rows[Owner[asked[q].session]][Key(q)] =
            [job |-> answer[q].job, operation |-> asked[q].operation]
      BY <3>1 DEF AcceptedIsStored
    <3>3. answer[q].job \in Requests
      BY <3>1 DEF HandlerShape
    <3>4. asked[q].operation \in Operations
      BY <1>2, <3>1, JobApiAssumption DEF HandlerShape, Enqueue, Read
    <3>5. [job |-> answer[q].job, operation |-> asked[q].operation] # None
      BY <3>3, <3>4, JobApiAssumption
    <3>6. QED
      BY <1>1, <3>1, <3>2, <3>5
  <2>2. CASE q = r
    <3>1. answer'[r] = answer[r]
      BY <2>2 DEF TypeOK, Problem
    <3>2. CASE pc[r] = "inserted"
      <4>1. tenant[r] = Owner[asked[r].session]
        BY <1>4, <3>2
      <4>2. answer[r] = [status |-> 201, job |-> r]
        BY <3>2 DEF InsertHoldsKey
      <4>3. answer[r].job = r
        BY <4>2
      <4>4. QED
        BY <1>1, <2>2, <3>1, <3>2, <4>1, <4>3
    <3>3. CASE pc[r] = "decided"
      <4>1. /\ Owner[asked[r].session] = tenant[r] /\ tenant[r] \in Tenants
            /\ Key(r) \in Keys /\ Stands(r)
        BY <1>3, <1>4, <2>2, <3>3 DEF DecisionStands
      <4>2. /\ rows[tenant[r]][Key(r)] \in Row
            /\ rows[tenant[r]][Key(r)].operation = asked[r].operation
            /\ answer[r].job = rows[tenant[r]][Key(r)].job
        BY <2>2, <3>1, <4>1 DEF Stands, TypeOK, Problem
      <4>3. QED
        BY <1>1, <2>2, <3>1, <3>3, <4>1, <4>2 DEF Row
    <3>4. QED
      BY <3>2, <3>3
  <2>3. QED
    BY <2>1, <2>2
<1>11. OnlyOwnJobsShown'
  <2> SUFFICES ASSUME NEW q \in Requests, pc'[q] = "done", answer'[q].job # None
               PROVE  \E k \in Keys :
                        LET row == rows'[Owner[asked[q].session]][k]
                        IN  row # None /\ row.job = answer'[q].job
    BY DEF OnlyOwnJobsShown
  <2>1. CASE q # r
    <3>1. /\ pc[q] = "done" /\ answer'[q] = answer[q]
          /\ Owner[asked[q].session] \in Tenants
      BY <1>3, <2>1 DEF TypeOK
    <3>2. QED
      BY <1>1, <3>1 DEF OnlyOwnJobsShown
  <2>2. CASE q = r
    <3>1. answer'[r] = answer[r]
      BY <2>2 DEF TypeOK, Problem
    <3>2. tenant[r] = Owner[asked[r].session] /\ tenant[r] \in Tenants
      BY <1>3, <1>4
    <3>3. SUFFICES \E k \in Keys : /\ rows'[tenant[r]][k] # None
                                  /\ rows'[tenant[r]][k].job = answer[r].job
      <4>1. /\ rows'[Owner[asked[q].session]] = rows'[tenant[r]]
            /\ answer'[q].job = answer[r].job
        BY <2>2, <3>1, <3>2
      <4>2. QED
        BY <4>1
    <3>4. CASE pc[r] = "inserted"
      <4>1. [job |-> r, operation |-> asked[r].operation] \in Row
        BY <1>2, <3>4, JobApiAssumption DEF HandlerShape, Enqueue, Read, Row
      <4>2. answer[r] = [status |-> 201, job |-> r]
        BY <3>4 DEF InsertHoldsKey
      <4>3. answer[r].job = r
        BY <4>2
      <4>4. rows'[tenant[r]][Key(r)] # None /\ Key(r) \in Keys
        BY <1>1, <3>4, <4>1, JobApiAssumption DEF Row
      <4>5. rows'[tenant[r]][Key(r)].job = r
        BY <1>1, <3>4
      <4>6. QED
        BY <4>3, <4>4, <4>5
    <3>5. CASE pc[r] = "decided"
      <4>1. Stands(r) /\ rows' = rows
        BY <1>1, <3>5 DEF DecisionStands
      <4>2. CASE asked[r].kind = "enqueue"
        <5>1. Key(r) \in Keys
          BY <1>3, <3>5, <4>2
        <5>2. rows[tenant[r]][Key(r)] # None /\ answer[r].job = rows[tenant[r]][Key(r)].job
          BY <2>2, <3>1, <4>1, <4>2 DEF Stands, Problem
        <5>3. QED
          BY <4>1, <5>1, <5>2
      <4>3. CASE asked[r].kind # "enqueue"
        <5>1. answer[r].job = asked[r].job /\ \E row \in Visible(r) : row.job = asked[r].job
          BY <2>2, <3>1, <4>1, <4>3 DEF Stands, Problem
        <5>2. PICK k \in Keys : rows[tenant[r]][k] # None /\ rows[tenant[r]][k].job = asked[r].job
          BY <5>1 DEF Visible
        <5>3. QED
          BY <4>1, <5>1, <5>2
      <4>4. QED
        BY <4>2, <4>3
    <3>6. QED
      BY <3>4, <3>5
  <2>3. QED
    BY <2>1, <2>2
<1>12. QED
  BY <1>5, <1>6, <1>7, <1>8, <1>9, <1>10, <1>11

LEMMA CommitIInv ==
  ASSUME IInv, NEW r \in Requests, Commit(r)
  PROVE  IInv'
BY EndIInv DEF Commit, Move

LEMMA CommitUnheardIInv ==
  ASSUME IInv, NEW r \in Requests, CommitUnheard(r)
  PROVE  IInv'
BY EndIInv DEF CommitUnheard, Move, Decide

LEMMA StutterIInv ==
  ASSUME IInv, UNCHANGED vars
  PROVE  IInv'
<1> USE DEF IInv, vars
<1>1. TypeOK'
  BY DEF TypeOK
<1>2. HandlerShape' /\ InsertHoldsKey' /\ DuplicateIsStored' /\ DecisionStands'
  BY DEF HandlerShape, InsertHoldsKey, DuplicateIsStored, DecisionStands, Stands, Visible, Key
<1>3. AcceptedIsStored' /\ OnlyOwnJobsShown'
  BY DEF AcceptedIsStored, OnlyOwnJobsShown, Key
<1>4. QED
  BY <1>1, <1>2, <1>3

LEMMA NextIInv == IInv /\ [Next]_vars => IInv'
<1> SUFFICES ASSUME IInv, Next PROVE IInv'
  BY StutterIInv
<1>1. CASE \E s \in Sessions : EndSession(s)
  BY <1>1, EndSessionIInv
<1>2. CASE \E r \in Requests : Send(r) \/ Handle(r) \/ CommitUnheard(r) \/ Fail(r)
  <2>1. PICK r \in Requests : Send(r) \/ Handle(r) \/ CommitUnheard(r) \/ Fail(r)
    BY <1>2
  <2>2. CASE Send(r)
    BY <2>2, SendIInv
  <2>3. CASE Handle(r)
    BY <2>3, LookUpIInv, LookedUpIInv, RejectIInv, BeginIInv, InsertIInv, SelectExistingIInv,
       SelectJobIInv, CommitIInv DEF Handle
  <2>4. CASE CommitUnheard(r)
    BY <2>4, CommitUnheardIInv
  <2>5. CASE Fail(r)
    BY <2>5, FailIInv
  <2>6. QED
    BY <2>1, <2>2, <2>3, <2>4, <2>5
<1>3. QED
  BY <1>1, <1>2 DEF Next

\* The invariant behind the properties of the API.
THEOREM InductiveInvariant == Spec => []IInv
BY InitIInv, NextIInv, PTL DEF Spec

\* Every variable keeps its type, and the second transaction of a request runs
\* for the tenant that owns its session.
THEOREM TypeCorrect == Spec => []TypeOK
<1>1. IInv => TypeOK
  BY DEF IInv
<1>2. QED
  BY <1>1, InductiveInvariant, PTL

\* A request that was accepted names the one job its key has made, with the
\* operation it asked for, for any number of concurrent requests.
THEOREM AcceptedStored == Spec => []AcceptedIsStored
<1>1. IInv => AcceptedIsStored
  BY DEF IInv
<1>2. QED
  BY <1>1, InductiveInvariant, PTL

\* No answer names a job of another tenant.
THEOREM OwnJobsOnly == Spec => []OnlyOwnJobsShown
<1>1. IInv => OnlyOwnJobsShown
  BY DEF IInv
<1>2. QED
  BY <1>1, InductiveInvariant, PTL

\* A read of a job that was answered for finds it.
LEMMA KnownJobIsFound ==
  ASSUME IInv, NEW r \in Requests, NEW q \in Requests, SelectJob(r),
         pc[q] = "done", answer[q].job = asked[r].job,
         Owner[asked[q].session] = Owner[asked[r].session]
  PROVE  answer'[r] # Problem(404)
<1>1. /\ tenant[r] = Owner[asked[q].session]
      /\ asked[r].job # None
  BY JobApiAssumption DEF IInv, TypeOK, HandlerShape, SelectJob, InTransaction, Enqueue, Read
<1>2. PICK k \in Keys : /\ rows[tenant[r]][k] # None
                        /\ rows[tenant[r]][k].job = asked[r].job
  BY <1>1 DEF IInv, OnlyOwnJobsShown
<1>3. \E row \in Visible(r) : row.job = asked[r].job
  BY <1>2 DEF Visible
<1>4. QED
  BY <1>3 DEF SelectJob, Decide, Problem, IInv, TypeOK

\* A read that begins after some client of the tenant was told of a job is not
\* answered that there is no such job.
THEOREM AnsweredJobsKnown == Spec => NoAnsweredJobUnknown
<1>1. ASSUME IInv, [Next]_vars, NEW r \in Requests, NEW q \in Requests,
             pc[r] = "reading", answer'[r] = Problem(404), pc'[r] = "decided",
             pc[q] = "done", answer[q].job = asked[r].job
      PROVE  Owner[asked[q].session] # Owner[asked[r].session]
  <2>1. SelectJob(r)
    <3>1. pc \in [Requests -> {"unsent", "arrived", "admitted", "done"} \cup InTransaction]
      BY <1>1 DEF IInv, TypeOK
    <3>2. PICK p \in Requests : Send(p) \/ Handle(p) \/ CommitUnheard(p) \/ Fail(p)
      BY <1>1 DEF Next, vars, EndSession
    <3>3. p = r
      BY <1>1, <3>1, <3>2 DEF Send, Handle, LookUp, LookedUp, Reject, Begin, Insert,
         SelectExisting, SelectJob, Commit, CommitUnheard, Fail, Move
    <3>4. QED
      BY <1>1, <3>1, <3>2, <3>3 DEF Send, Handle, LookUp, LookedUp, Reject, Begin, Insert,
         SelectExisting, Commit, CommitUnheard, Fail, Move
  <2>2. QED
    BY <1>1, <2>1, KnownJobIsFound
<1>2. IInv /\ [Next]_vars =>
        [\A r, q \in Requests :
           (/\ pc[r] = "reading" /\ answer'[r] = Problem(404) /\ pc'[r] = "decided"
            /\ pc[q] = "done" /\ answer[q].job = asked[r].job)
             => Owner[asked[q].session] # Owner[asked[r].session]]_vars
  BY <1>1
<1>3. QED
  BY <1>2, InductiveInvariant, PTL DEF Spec, NoAnsweredJobUnknown

-----------------------------------------------------------------------------
(* Refinement: the API keeps the promise of IdempotentJobs.                *)

\* A step that ends no request and starts none shows its client nothing.
LEMMA NothingSeen ==
  ASSUME NEW r \in Requests, pc[r] # "done", pc'[r] # "done",
         \A q \in Requests \ {r} : pc'[q] = pc[q] /\ answer'[q] = answer[q]
  PROVE  Replies' = Replies
<1>1. ASSUME NEW q \in Requests
      PROVE  (IF pc'[q] = "done" THEN answer'[q] ELSE NoAnswer) =
             (IF pc[q] = "done" THEN answer[q] ELSE NoAnswer)
  BY <1>1
<1>2. QED
  BY <1>1 DEF Replies

\* The step that ends a request shows the client its answer.
LEMMA AnswerSeen ==
  ASSUME NEW r \in Requests, pc[r] # "done", pc'[r] = "done",
         \A q \in Requests \ {r} : pc'[q] = pc[q] /\ answer'[q] = answer[q]
  PROVE  /\ Replies[r] = Promise!Silent
         /\ Replies' = [Replies EXCEPT ![r] = answer'[r]]
<1>1. Replies[r] = Promise!Silent
  BY DEF Replies, NoAnswer, Promise!Silent
<1>2. ASSUME NEW q \in Requests
      PROVE  (IF pc'[q] = "done" THEN answer'[q] ELSE NoAnswer) =
             (IF q = r THEN answer'[r]
              ELSE IF pc[q] = "done" THEN answer[q] ELSE NoAnswer)
  BY <1>2
<1>3. Replies' = [q \in Requests |-> IF pc'[q] = "done" THEN answer'[q] ELSE NoAnswer]
  BY DEF Replies
<1>4. QED
  BY <1>1, <1>2, <1>3 DEF Replies

\* An answer the client sees is a reply of the promise.
LEMMA ReplySeen ==
  ASSUME NEW r \in Requests, pc[r] # "done", pc'[r] = "done", UNCHANGED asked,
         \A q \in Requests \ {r} : pc'[q] = pc[q] /\ answer'[q] = answer[q],
         NEW status, NEW job, answer'[r] = [status |-> status, job |-> job]
  PROVE  Promise!Reply(r, status, job)
BY AnswerSeen DEF Promise!Reply

LEMMA RefineInit == Init => Promise!Init
BY DEF Init, Promise!Init, Promise!Silent, Promise!Tenants, Tenants, Replies,
       NoAnswer

LEMMA RefineSend ==
  ASSUME IInv, NEW r \in Requests, Send(r)
  PROVE  Promise!Ask(r)
<1>1. /\ pc[r] = "unsent" /\ pc'[r] = "arrived" /\ asked[r] = None
      /\ \A q \in Requests \ {r} : pc'[q] = pc[q] /\ answer'[q] = answer[q]
  BY DEF Send, Move, IInv, TypeOK, HandlerShape
<1>2. Replies' = Replies
  BY <1>1, NothingSeen
<1>3. QED
  BY <1>1, <1>2 DEF Send, Promise!Ask, Promise!Question, Enqueue, Read

\* Until it ends, nothing a request does can be seen.
LEMMA RefineInside ==
  ASSUME IInv, NEW r \in Requests,
         \/ LookUp(r) \/ Begin(r) \/ Insert(r) \/ SelectExisting(r) \/ SelectJob(r)
         \/ LookedUp(r) /\ tenant[r] # None
  PROVE  UNCHANGED <<asked, rows, Replies>>
<1>1. /\ pc[r] # "done" /\ pc'[r] # "done"
      /\ \A q \in Requests \ {r} : pc'[q] = pc[q] /\ answer'[q] = answer[q]
  BY DEF LookUp, LookedUp, Begin, Insert, SelectExisting, SelectJob, Move, Decide, IInv, TypeOK
<1>2. Replies' = Replies
  BY <1>1, NothingSeen
<1>3. QED
  BY <1>2 DEF LookUp, LookedUp, Begin, Insert, SelectExisting, SelectJob

\* What ends a request outside its COMMIT refuses it.
LEMMA RefineRefuse ==
  ASSUME IInv, NEW r \in Requests,
         \/ LookedUp(r) /\ tenant[r] = None
         \/ Reject(r)
         \/ Fail(r)
  PROVE  Promise!Refuse(r)
<1>1. /\ pc[r] # "done" /\ pc[r] # "unsent" /\ pc'[r] = "done"
      /\ \A q \in Requests \ {r} : pc'[q] = pc[q] /\ answer'[q] = answer[q]
  BY DEF LookedUp, Reject, Fail, InTransaction, Move, Decide, IInv, TypeOK
<1>2. \E status \in {401, 422, 503} : answer'[r] = [status |-> status, job |-> None]
  BY DEF LookedUp, Reject, Fail, Decide, Problem, IInv, TypeOK
<1>3. asked[r] # None /\ UNCHANGED <<asked, rows>>
  BY <1>1 DEF LookedUp, Reject, Fail, IInv, HandlerShape
<1>4. QED
  BY <1>1, <1>2, <1>3, ReplySeen DEF Promise!Refuse

\* The end of a transaction makes the job of the key, repeats it, shows a job,
\* or has no effect at all.
LEMMA RefineEnd ==
  ASSUME IInv, NEW r \in Requests, pc[r] \in {"inserted", "decided"}, Store(r),
         pc' = [pc EXCEPT ![r] = "done"], UNCHANGED <<live, asked, tenant>>,
         answer' = answer \/ answer' = [answer EXCEPT ![r] = Problem(503)]
  PROVE  Promise!Make(r) \/ Promise!Repeat(r) \/ Promise!Show(r) \/ Promise!Refuse(r)
<1>1. /\ pc[r] # "done" /\ pc'[r] = "done" /\ asked[r] # None
      /\ \A q \in Requests \ {r} : pc'[q] = pc[q] /\ answer'[q] = answer[q]
      /\ tenant[r] = Owner[asked[r].session]
      /\ answer'[r] = answer[r] \/ answer'[r] = [status |-> 503, job |-> None]
  BY DEF IInv, TypeOK, HandlerShape, InTransaction, Problem
<1>2. ASSUME NEW status, NEW job, answer'[r] = [status |-> status, job |-> job]
      PROVE  Promise!Reply(r, status, job)
  BY <1>1, <1>2, ReplySeen
<1>3. CASE pc[r] = "inserted"
  <2>1. asked[r].kind = "enqueue" /\ rows[tenant[r]][Key(r)] = None
    BY <1>3 DEF IInv, HandlerShape, InsertHoldsKey
  <2>2. answer[r] = [status |-> 201, job |-> r]
    BY <1>3 DEF IInv, InsertHoldsKey
  <2>3. Promise!Reply(r, 201, r) \/ Promise!Reply(r, 503, None)
    BY <1>1, <1>2, <2>2
  <2>4. Promise!Make(r)
    BY <1>1, <1>3, <2>1, <2>3 DEF Promise!Make, Store, Key
  <2>5. QED
    BY <2>4
<1>4. CASE pc[r] = "decided"
  <2>1. Stands(r) /\ rows' = rows
    BY <1>4 DEF IInv, DecisionStands, Store
  <2>2. CASE answer'[r] = [status |-> 503, job |-> None]
    BY <1>1, <1>2, <2>1, <2>2 DEF Promise!Refuse
  <2>3. CASE answer'[r] = answer[r] /\ asked[r].kind = "enqueue"
    <3>1. /\ rows[tenant[r]][Key(r)] # None
          /\ IF rows[tenant[r]][Key(r)].operation = asked[r].operation
             THEN answer'[r] = [status |-> 200, job |-> rows[tenant[r]][Key(r)].job]
             ELSE answer'[r] = [status |-> 409, job |-> None]
      BY <2>1, <2>3 DEF Stands, Problem
    <3> DEFINE row == rows[Owner[asked[r].session]][asked[r].key]
    <3>2. row # None
      BY <1>1, <3>1 DEF Key
    <3>3. IF row.operation = asked[r].operation
          THEN answer'[r] = [status |-> 200, job |-> row.job]
          ELSE answer'[r] = [status |-> 409, job |-> None]
      BY <1>1, <3>1 DEF Key
    <3> HIDE DEF row
    <3>4. IF row.operation = asked[r].operation THEN Promise!Reply(r, 200, row.job)
                                                ELSE Promise!Reply(r, 409, None)
      BY <1>2, <3>3
    <3>5. Promise!Repeat(r)
      <4>1. UNCHANGED rows
        BY <2>1
      <4>2. QED
        BY <1>1, <2>3, <3>2, <3>4, <4>1 DEF Promise!Repeat, row
    <3>6. QED
      BY <3>5
  <2>4. CASE answer'[r] = answer[r] /\ asked[r].kind # "enqueue"
    <3>1. CASE answer'[r] = [status |-> 404, job |-> None]
      BY <1>1, <1>2, <2>1, <3>1 DEF Promise!Refuse
    <3>2. CASE /\ answer'[r] = [status |-> 200, job |-> asked[r].job]
               /\ \E row \in Visible(r) : row.job = asked[r].job
      <4>1. Promise!Reply(r, 200, asked[r].job)
        BY <1>2, <3>2
      <4>2. asked[r].kind = "read"
        BY <1>1, <2>4 DEF IInv, TypeOK, Enqueue, Read
      <4>3. QED
        BY <1>1, <2>1, <3>2, <4>1, <4>2 DEF Promise!Show, Visible
    <3>3. QED
      BY <2>1, <2>4, <3>1, <3>2 DEF Stands, Problem
  <2>5. QED
    BY <1>1, <2>2, <2>3, <2>4
<1>5. QED
  BY <1>3, <1>4

LEMMA RefineStep == IInv /\ [Next]_vars => [Promise!Next]_<<asked, rows, Replies>>
<1> SUFFICES ASSUME IInv, [Next]_vars
             PROVE  Promise!Next \/ UNCHANGED <<asked, rows, Replies>>
  OBVIOUS
<1>1. CASE UNCHANGED vars
  BY <1>1 DEF vars, Replies
<1>2. ASSUME NEW s \in Sessions, EndSession(s) PROVE UNCHANGED <<asked, rows, Replies>>
  BY <1>2 DEF EndSession, Replies
<1>3. ASSUME NEW r \in Requests, Send(r) \/ Handle(r) \/ CommitUnheard(r) \/ Fail(r)
      PROVE  Promise!Next \/ UNCHANGED <<asked, rows, Replies>>
  <2>1. CASE Send(r)
    BY <2>1, RefineSend DEF Promise!Next
  <2>2. CASE \/ LookUp(r) \/ Begin(r) \/ Insert(r) \/ SelectExisting(r) \/ SelectJob(r)
             \/ LookedUp(r) /\ tenant[r] # None
    BY <2>2, RefineInside
  <2>3. CASE (LookedUp(r) /\ tenant[r] = None) \/ Reject(r) \/ Fail(r)
    BY <2>3, RefineRefuse DEF Promise!Next
  <2>4. CASE Commit(r) \/ CommitUnheard(r)
    <3>1. Promise!Make(r) \/ Promise!Repeat(r) \/ Promise!Show(r) \/ Promise!Refuse(r)
      BY <2>4, RefineEnd DEF Commit, CommitUnheard, Move, Decide
    <3>2. QED
      BY <3>1 DEF Promise!Next
  <2>5. QED
    BY <1>3, <2>1, <2>2, <2>3, <2>4 DEF Handle
<1>4. QED
  BY <1>1, <1>2, <1>3 DEF Next

\* For any requests, sessions, tenants and keys and any size of the pool, the
\* answers are those of a store that handles the requests one at a time.
THEOREM Refinement == Spec => ImplementsPromise
<1>1. Init => Promise!Init
  BY RefineInit
<1>2. IInv /\ [Next]_vars => [Promise!Next]_<<asked, rows, Replies>>
  BY RefineStep
<1>3. QED
  BY <1>1, <1>2, InductiveInvariant, PTL
     DEF Spec, ImplementsPromise, Promise!Spec, Promise!promised
=============================================================================
