------------------------- MODULE CoreOperationsProofs -------------------------
(***************************************************************************)
(* Proofs about CoreOperations, for any number of calls and any size of the *)
(* request numbers.  Calls share their numbers only, so the invariant is    *)
(* one of each call (Sound): what its answer may say and what the page may  *)
(* hold, given what the core decides about its request (Verdicts).          *)
(***************************************************************************)
EXTENDS CoreOperations, TLAPS

Running == {"posted", "loading", "loaded", "summarizing", "done"}

\* The answer on its way to a call: a success is earned; without trouble it is
\* decodable and says what the core decides; and it carries a plaintext at most.
SoundMail(o) ==
  o.mail # None =>
    /\ o.mail \in Answer /\ o.mail.cells \subseteq {"output"}
    /\ o.mail.tag = "ok" => Verdicts(o.request) = {"ok"}
    /\ ~o.trouble => /\ o.mail.id = o.id /\ o.mail.tag \in {"ok", "err"}
                     /\ o.mail.tag = "err" => o.mail.code \in Verdicts(o.request)

\* What holds of every call.
Sound(o) ==
  /\ o \in Op
  /\ o.result # "none" <=> o.pc = "settled"
  /\ o.mail # None => o.worker = "done"
  /\ o.worker \in Running <=> o.pc = "pending"
  /\ o.pc # "ready" => o.request \in Request
  /\ SoundMail(o)
  /\ o.worker = "summarizing" => Verdicts(o.request) = {"ok"}
  /\ o.pc = "pending" => o.page = {}
  /\ o.pc = "consuming" => /\ Verdicts(o.request) = {"ok"}
                           /\ o.inside = {} /\ o.page \subseteq {"input", "output"}
                           /\ o.request.kind = "open"
  /\ o.pc = "settled" =>
       /\ o.inside = {}
       /\ o.page \cap Confidential(o.request) \subseteq Unwiped(o)
       /\ ~o.trouble => o.result \in Verdicts(o.request)
       /\ o.result = "ok" => Verdicts(o.request) = {"ok"}

IInv ==
  /\ nextRequestId \in [{"product", "qualification"} -> 1 .. MaxRequestId]
  /\ op \in [Calls -> Op]
  /\ \A c \in Calls : Sound(op[c])

-----------------------------------------------------------------------------
\* What a request says of its host, its kind and its fault.
LEMMA RequestShape ==
  ASSUME NEW q \in Request
  PROVE  /\ q.host \in {"product", "qualification", "direct"}
         /\ q.kind \in {"canonicalize", "seal", "open"}
         /\ q.kind = "canonicalize" => q.host # "product"
         /\ q.text \in Texts /\ q.fault \in Faults /\ q.valid \in BOOLEAN
  BY DEF Request

\* The core decides on something, a success excludes everything else, and
\* whatever it refuses with is one of the codes.
LEMMA VerdictsShape ==
  ASSUME NEW q \in Request
  PROVE  /\ Verdicts(q) \subseteq Refusals \cup {"ok"}
         /\ "ok" \in Verdicts(q) => Verdicts(q) = {"ok"}
  BY RequestShape DEF Verdicts, FaultCode, Refusals

\* The worker takes whatever its host makes of a recovery code.
LEMMA EveryCodeDecodes ==
  ASSUME NEW q \in Request
  PROVE  Decodes(q)
<1>1. q.text \in Texts
  BY RequestShape
<1>2. q.text.length \in {30, 31, 32, 34}
  BY <1>1 DEF Texts
<1>3. 30 \div 2 = 15 /\ 32 \div 2 = 16 /\ 34 \div 2 = 17
  OBVIOUS
<1>4. SecretLength(q.text) \in 15 .. 17
  BY <1>2, <1>3 DEF SecretLength
<1>5. QED
  BY <1>4 DEF Decodes

\* A step of one call: it is enough that the call is sound after it.
LEMMA OneCall ==
  ASSUME IInv, NEW c \in Calls, NEW o, op' = [op EXCEPT ![c] = o], Sound(o),
         nextRequestId' \in [{"product", "qualification"} -> 1 .. MaxRequestId]
  PROVE  IInv'
<1>1. op' \in [Calls -> Op]
  BY DEF IInv, Sound
<1>2. \A d \in Calls : op'[d] = IF d = c THEN o ELSE op[d]
  BY DEF IInv
<1>3. \A d \in Calls : Sound(op'[d])
  BY <1>2 DEF IInv
<1>4. QED
  BY <1>1, <1>3 DEF IInv

\* The numbers stay in their range, whichever is taken.
LEMMA NumbersInRange ==
  ASSUME IInv, NEW host \in {"product", "qualification"}, TakeId(host) \/ UNCHANGED nextRequestId
  PROVE  /\ nextRequestId' \in [{"product", "qualification"} -> 1 .. MaxRequestId]
         /\ nextRequestId[host] \in 0 .. MaxRequestId
  BY CoreOperationsAssumption DEF IInv, TakeId

\* Every call begins with nothing.
LEMMA InitIInv == Init => IInv
<1> SUFFICES ASSUME Init PROVE IInv
  OBVIOUS
<1>1. NewOp \in Op
  BY CoreOperationsAssumption DEF NewOp, Op
<1>2. Sound(NewOp)
  BY <1>1 DEF NewOp, Sound, SoundMail, Running
<1>3. QED
  BY <1>1, <1>2, CoreOperationsAssumption DEF Init, IInv

\* A call refused without a worker's answer leaves at most the plaintext that
\* sealFreshOwned was given, or an envelope.
LEMMA RefusedIsSound ==
  ASSUME NEW q \in Request, NEW code \in Refusals, NEW left \in SUBSET Cells,
         NEW worker \in {"none", "terminated"},
         \/ left = {}
         \/ left = {"input"} /\ q.host = "direct" /\ q.kind \in {"seal", "open"}
  PROVE  Sound(Refused(q, code, left, worker))
<1>1. PICK o : o = Refused(q, code, left, worker)
  OBVIOUS
<1>2. o = [request |-> q, id |-> 0, pc |-> "settled", result |-> code, page |-> left,
           worker |-> worker, inside |-> {}, mail |-> None, trouble |-> TRUE]
  BY <1>1 DEF Refused, NewOp
<1>3. o \in Op
  BY <1>2, CoreOperationsAssumption DEF Op
<1>4. /\ o.request = q /\ o.pc = "settled" /\ o.result = code /\ o.page = left
      /\ o.worker = worker /\ o.inside = {} /\ o.mail = None /\ o.trouble = TRUE
  BY <1>2
<1>5. code # "none" /\ code # "ok"
  BY DEF Refusals
<1>6. o.page \cap Confidential(o.request) \subseteq Unwiped(o)
  BY <1>4 DEF Unwiped, Confidential
<1>7. Sound(o)
  BY <1>3, <1>4, <1>5, <1>6 DEF Sound, SoundMail, Running
<1>8. QED
  BY <1>1, <1>7

\* Most leave nothing.
LEMMA RefusedWithNothing ==
  ASSUME NEW q \in Request, NEW code \in Refusals, NEW worker \in {"none", "terminated"}
  PROVE  Sound(Refused(q, code, {}, worker))
<1>1. PICK left : left = {}
  OBVIOUS
<1>2. left \in SUBSET Cells
  BY <1>1
<1>3. Sound(Refused(q, code, left, worker))
  BY <1>1, <1>2, RefusedIsSound
<1>4. QED
  BY <1>1, <1>3

\* Calls that fail before their message is posted, or on the page.
LEMMA RefusalsIInv ==
  ASSUME IInv, NEW c \in Calls, NEW q \in Request,
         \/ NotOwned(c, q) \/ NoMaterial(c, q) \/ NoWorker(c, q) \/ NotPosted(c, q)
         \/ TrapDirectly(c, q)
  PROVE  IInv'
<1>1. Thrown(q.host) \subseteq Refusals
  BY DEF Thrown, Refusals
<1>2. CASE NotOwned(c, q)
  <2>1. "resource-limit-exceeded" \in Refusals
    BY DEF Refusals
  <2>2. Sound(Refused(q, "resource-limit-exceeded", {}, "none"))
    BY <2>1, RefusedWithNothing
  <2>3. QED
    BY <1>2, <2>2, OneCall, NumbersInRange DEF NotOwned
<1>3. CASE NoMaterial(c, q)
  <2>1. PICK code \in Thrown(q.host) :
          op' = [op EXCEPT ![c] =
            Refused(q, code, IF q.host = "direct" THEN {"input"} ELSE {}, "none")]
    BY <1>3 DEF NoMaterial
  <2>2. Sound(Refused(q, code, IF q.host = "direct" THEN {"input"} ELSE {}, "none"))
    BY <1>1, <1>3, RefusedIsSound DEF NoMaterial, Cells
  <2>3. QED
    BY <1>3, <2>1, <2>2, OneCall, NumbersInRange DEF NoMaterial
<1>4. ASSUME NoWorker(c, q) \/ NotPosted(c, q)
      PROVE  IInv'
  <2>1. PICK code \in Thrown(q.host), worker \in {"none", "terminated"} :
          op' = [op EXCEPT ![c] = Refused(q, code, {}, worker)]
    BY <1>4 DEF NoWorker, NotPosted
  <2>2. code \in Refusals
    BY <1>1
  <2>3. Sound(Refused(q, code, {}, worker))
    BY <2>2, RefusedWithNothing
  <2>4. q.host \in {"product", "qualification"} /\ TakeId(q.host)
    BY <1>4, RequestShape DEF NoWorker, NotPosted
  <2>5. QED
    BY <2>1, <2>3, <2>4, OneCall, NumbersInRange
<1>5. CASE TrapDirectly(c, q)
  <2>1. PICK code \in Thrown(q.host) :
          op' = [op EXCEPT ![c] =
            Refused(q, code, IF q.kind = "open" THEN {"input"} ELSE {}, "none")]
    BY <1>5 DEF TrapDirectly
  <2>2. Sound(Refused(q, code, IF q.kind = "open" THEN {"input"} ELSE {}, "none"))
    BY <1>1, <1>5, RefusedIsSound DEF TrapDirectly, Cells
  <2>3. QED
    BY <1>5, <2>1, <2>2, OneCall, NumbersInRange DEF TrapDirectly
<1>6. QED
  BY <1>2, <1>3, <1>4, <1>5

\* The message is posted.
LEMMA PostIInv ==
  ASSUME IInv, NEW c \in Calls, NEW q \in Request, Post(c, q)
  PROVE  IInv'
<1>1. q.host \in {"product", "qualification"} /\ TakeId(q.host)
  BY RequestShape DEF Post
<1>2. PICK o : o = [NewOp EXCEPT !.request = q, !.id = nextRequestId[q.host], !.pc = "pending",
                                 !.worker = "posted", !.inside = Handed(q)]
  OBVIOUS
<1>3. op' = [op EXCEPT ![c] = o]
  BY <1>2, Zenon DEF Post
<1>4. o = [request |-> q, id |-> nextRequestId[q.host], pc |-> "pending", result |-> "none",
           page |-> {}, worker |-> "posted", inside |-> Handed(q), mail |-> None,
           trouble |-> FALSE]
  BY <1>2 DEF NewOp
<1>5. o \in Op
  BY <1>1, <1>4, NumbersInRange DEF Op, Handed, Cells
<1>6. Sound(o)
  BY <1>4, <1>5 DEF Sound, SoundMail, Running
<1>7. QED
  BY <1>1, <1>3, <1>6, OneCall, NumbersInRange

\* host.ts calls the core at once.
LEMMA CallDirectlyIInv ==
  ASSUME IInv, NEW c \in Calls, NEW q \in Request, CallDirectly(c, q)
  PROVE  IInv'
<1>1. PICK v \in Verdicts(q) : \E o :
        /\ op' = [op EXCEPT ![c] = o]
        /\ o = [NewOp EXCEPT
             !.request = q,
             !.pc = IF q.kind = "open" /\ v = "ok" THEN "consuming" ELSE "settled",
             !.result = IF q.kind = "open" /\ v = "ok" THEN "none" ELSE v,
             !.page = IF q.kind = "open" THEN {"input"} \cup (IF v = "ok" THEN {"output"} ELSE {})
                                         ELSE {}]
  BY Zenon DEF CallDirectly
<1>2. v \in Refusals \cup {"ok"} /\ (v = "ok" => Verdicts(q) = {"ok"})
  BY <1>1, VerdictsShape
<1>3. "none" \notin Refusals /\ "ok" \notin Refusals
  BY DEF Refusals
<1>4. PICK o :
        /\ op' = [op EXCEPT ![c] = o]
        /\ o = [NewOp EXCEPT
             !.request = q,
             !.pc = IF q.kind = "open" /\ v = "ok" THEN "consuming" ELSE "settled",
             !.result = IF q.kind = "open" /\ v = "ok" THEN "none" ELSE v,
             !.page = IF q.kind = "open" THEN {"input"} \cup (IF v = "ok" THEN {"output"} ELSE {})
                                         ELSE {}]
  BY <1>1
<1>5. CASE q.kind = "open" /\ v = "ok"
  <2>1. o = [request |-> q, id |-> 0, pc |-> "consuming", result |-> "none",
             page |-> {"input", "output"}, worker |-> "none", inside |-> {}, mail |-> None,
             trouble |-> FALSE]
    BY <1>4, <1>5 DEF NewOp
  <2>2. o \in Op
    BY <2>1, CoreOperationsAssumption DEF Op, Cells
  <2>3. Sound(o)
    BY <1>2, <1>5, <2>1, <2>2 DEF Sound, SoundMail, Running
  <2>4. QED
    BY <1>4, <2>3, OneCall, NumbersInRange DEF CallDirectly
<1>6. CASE ~(q.kind = "open" /\ v = "ok")
  <2>1. PICK left : left = IF q.kind = "open" THEN {"input"} ELSE {}
    OBVIOUS
  <2>2. o = [request |-> q, id |-> 0, pc |-> "settled", result |-> v, page |-> left,
             worker |-> "none", inside |-> {}, mail |-> None, trouble |-> FALSE]
    BY <1>4, <1>6, <2>1 DEF NewOp
  <2>3. o \in Op
    BY <1>2, <2>1, <2>2, CoreOperationsAssumption DEF Op, Cells
  <2>4. left \cap Confidential(q) = {}
    BY <2>1 DEF Confidential
  <2>5. /\ o.request = q /\ o.pc = "settled" /\ o.result = v /\ o.page = left
        /\ o.worker = "none" /\ o.inside = {} /\ o.mail = None
    BY <2>2
  <2>6. v # "none"
    BY <1>2, <1>3
  <2>7. Sound(o)
    BY <1>1, <1>2, <2>3, <2>4, <2>5, <2>6 DEF Sound, SoundMail, Running
  <2>8. QED
    BY <1>4, <2>7, OneCall, NumbersInRange DEF CallDirectly
<1>7. QED
  BY <1>5, <1>6

-----------------------------------------------------------------------------
\* An answer that is sound may be sent.
LEMMA AnswersIInv ==
  ASSUME IInv, NEW c \in Calls, NEW answer \in Answer, NEW trouble \in BOOLEAN,
         op[c].pc = "pending", Answers(c, answer, trouble),
         answer.cells \subseteq {"output"},
         answer.tag = "ok" => Verdicts(op[c].request) = {"ok"},
         ~trouble => /\ answer.id = op[c].id /\ answer.tag \in {"ok", "err"}
                     /\ answer.tag = "err" => answer.code \in Verdicts(op[c].request)
  PROVE  IInv'
<1>1. PICK o : o = [op[c] EXCEPT !.worker = "done", !.inside = {}, !.mail = answer,
                                 !.trouble = op[c].trouble \/ trouble]
  OBVIOUS
<1>2. op' = [op EXCEPT ![c] = o]
  BY <1>1, Zenon DEF Answers
<1>3. op[c] \in Op /\ Sound(op[c])
  BY DEF IInv
<1>4. o \in Op
  BY <1>1, <1>3 DEF Op
<1>5. /\ o.request = op[c].request /\ o.id = op[c].id /\ o.pc = op[c].pc
      /\ o.result = op[c].result /\ o.page = op[c].page /\ o.worker = "done"
      /\ o.inside = {} /\ o.mail = answer /\ (~o.trouble => ~trouble)
  BY <1>1, <1>3 DEF Op
<1>6. SoundMail(o)
  BY <1>5 DEF SoundMail
<1>7. Sound(o)
  BY <1>3, <1>4, <1>5, <1>6 DEF Sound, Running
<1>8. QED
  BY <1>2, <1>7, OneCall, NumbersInRange DEF Answers

\* So may a refusal, if there was trouble or it is the core's.
LEMMA ErrorIInv ==
  ASSUME IInv, NEW c \in Calls, NEW code \in Refusals, NEW trouble \in BOOLEAN,
         op[c].pc = "pending", Answers(c, Error(op[c].id, code), trouble),
         ~trouble => code \in Verdicts(op[c].request)
  PROVE  IInv'
<1>1. op[c].id \in 0 .. MaxRequestId
  BY DEF IInv, Op
<1>2. PICK answer : answer = [id |-> op[c].id, tag |-> "err", code |-> code, cells |-> {}]
  OBVIOUS
<1>3. answer \in Answer
  BY <1>1, <1>2 DEF Answer
<1>4. Answers(c, answer, trouble)
  BY <1>2 DEF Error
<1>5. /\ answer.cells = {} /\ answer.tag = "err" /\ answer.id = op[c].id /\ answer.code = code
  BY <1>2
<1>6. QED
  BY <1>3, <1>4, <1>5, AnswersIInv

\* A worker that goes on to another of its awaits.
LEMMA GoesToIInv ==
  ASSUME IInv, NEW c \in Calls, NEW place \in {"loading", "loaded", "summarizing"},
         NEW cells \in SUBSET Cells, op[c].pc = "pending", op[c].worker # "done",
         GoesTo(c, place, cells),
         place = "summarizing" => Verdicts(op[c].request) = {"ok"}
  PROVE  IInv'
<1>1. PICK o : o = [op[c] EXCEPT !.worker = place, !.inside = cells]
  OBVIOUS
<1>2. op' = [op EXCEPT ![c] = o]
  BY <1>1 DEF GoesTo, IInv
<1>3. op[c] \in Op /\ Sound(op[c])
  BY DEF IInv
<1>4. o \in Op
  BY <1>1, <1>3 DEF Op
<1>5. /\ o.request = op[c].request /\ o.id = op[c].id /\ o.pc = op[c].pc
      /\ o.result = op[c].result /\ o.page = op[c].page /\ o.worker = place
      /\ o.inside = cells /\ o.mail = op[c].mail /\ o.trouble = op[c].trouble
  BY <1>1, <1>3 DEF Op
<1>6. op[c].mail = None
  BY <1>3 DEF Sound
<1>7. Sound(o)
  BY <1>3, <1>4, <1>5, <1>6 DEF Sound, SoundMail, Running
<1>8. QED
  BY <1>2, <1>7, OneCall, NumbersInRange DEF GoesTo

\* The worker's steps.  Its loads and its crashes are trouble; what the core
\* decides is a verdict on the request.
LEMMA WorkIInv ==
  ASSUME IInv, NEW c \in Calls, Work(c)
  PROVE  IInv'
<1> DEFINE q == op[c].request
<1>1. op[c] \in Op /\ Sound(op[c])
  BY DEF IInv
<1>2. op[c].pc = "pending" /\ op[c].worker # "done" /\ q \in Request /\ op[c].inside \in SUBSET Cells
  BY <1>1 DEF Work, Decode, Load, LoadFails, Compute, Exhausted, Summarize, SummarizeFails, Crash,
              Garble, At, Sound, Op
<1>3. "internal-failure" \in Refusals /\ "resource-limit-exceeded" \in Refusals
  BY DEF Refusals
<1>4. op[c].id \in 0 .. MaxRequestId /\ 0 \in 0 .. MaxRequestId
  BY <1>1, CoreOperationsAssumption DEF Op
<1> HIDE DEF q
<1>5. CASE Decode(c)
  <2>1. GoesTo(c, "loading", op[c].inside)
    BY <1>2, <1>5, EveryCodeDecodes DEF Decode, q
  <2>2. QED
    BY <1>2, <2>1, GoesToIInv
<1>6. CASE Load(c)
  BY <1>2, <1>6, GoesToIInv DEF Load
<1>7. CASE LoadFails(c)
  BY <1>2, <1>3, <1>7, ErrorIInv DEF LoadFails
<1>8. CASE Exhausted(c)
  BY <1>2, <1>3, <1>8, ErrorIInv DEF Exhausted
<1>9. CASE SummarizeFails(c)
  BY <1>2, <1>3, <1>9, ErrorIInv DEF SummarizeFails
<1>10. CASE Summarize(c)
  <2>1. Verdicts(q) = {"ok"}
    BY <1>1, <1>10 DEF Summarize, At, Sound, q
  <2>2. PICK answer : answer = [id |-> op[c].id, tag |-> "ok", code |-> "internal-failure",
                                cells |-> {}]
    OBVIOUS
  <2>3. /\ answer \in Answer /\ answer.cells = {} /\ answer.id = op[c].id /\ answer.tag = "ok"
    BY <1>3, <1>4, <2>2 DEF Answer
  <2>4. Answers(c, answer, FALSE)
    BY <1>10, <2>2 DEF Summarize
  <2>5. QED
    BY <1>2, <2>1, <2>3, <2>4, AnswersIInv DEF q
<1>11. CASE Crash(c)
  <2>1. PICK answer : answer = [id |-> 0, tag |-> "error event", code |-> "internal-failure",
                                cells |-> {}]
    OBVIOUS
  <2>2. answer \in Answer /\ answer.cells = {} /\ answer.tag = "error event"
    BY <1>3, <1>4, <2>1 DEF Answer
  <2>3. Answers(c, answer, TRUE)
    BY <1>11, <2>1 DEF Crash
  <2>4. QED
    BY <1>2, <2>2, <2>3, AnswersIInv
<1>12. CASE Garble(c)
  <2>1. PICK cells \in {{}, {"output"}} :
          Answers(c, [id |-> op[c].id, tag |-> "undecodable", code |-> "internal-failure",
                      cells |-> cells], TRUE)
    BY <1>12 DEF Garble
  <2>2. PICK answer : answer = [id |-> op[c].id, tag |-> "undecodable",
                                code |-> "internal-failure", cells |-> cells]
    OBVIOUS
  <2>3. answer \in Answer /\ answer.cells \subseteq {"output"} /\ answer.tag = "undecodable"
    BY <1>3, <1>4, <2>2 DEF Answer, Cells
  <2>4. QED
    BY <1>2, <2>1, <2>2, <2>3, AnswersIInv
<1>13. CASE Compute(c)
  <2>1. PICK v \in Verdicts(q) :
          IF v # "ok" THEN Answers(c, Error(op[c].id, v), FALSE)
          ELSE IF q.host = "qualification"
            THEN GoesTo(c, "summarizing",
                        {"output"} \cup (IF q.kind = "open" THEN Handed(q) ELSE {}))
            ELSE Answers(c, [id |-> op[c].id, tag |-> "ok", code |-> "internal-failure",
                             cells |-> IF q.kind = "open" THEN {"output"} ELSE {}], FALSE)
    BY <1>13 DEF Compute, q
  <2>2. v \in Refusals \cup {"ok"} /\ (v = "ok" => Verdicts(q) = {"ok"})
    BY <1>2, <2>1, VerdictsShape
  <2>3. CASE v # "ok"
    BY <1>2, <2>1, <2>2, <2>3, ErrorIInv DEF q
  <2>4. CASE v = "ok" /\ q.host = "qualification"
    <3>1. PICK cells : cells = {"output"} \cup (IF q.kind = "open" THEN Handed(q) ELSE {})
      OBVIOUS
    <3>2. cells \in SUBSET Cells
      BY <3>1 DEF Cells, Handed
    <3>3. GoesTo(c, "summarizing", cells)
      BY <2>1, <2>4, <3>1
    <3>4. QED
      BY <1>2, <2>2, <2>4, <3>2, <3>3, GoesToIInv DEF q
  <2>5. CASE v = "ok" /\ q.host # "qualification"
    <3>1. PICK cells : cells = IF q.kind = "open" THEN {"output"} ELSE {}
      OBVIOUS
    <3>2. PICK answer : answer = [id |-> op[c].id, tag |-> "ok", code |-> "internal-failure",
                                  cells |-> cells]
      OBVIOUS
    <3>3. cells \subseteq {"output"}
      BY <3>1
    <3>4. /\ answer \in Answer /\ answer.cells \subseteq {"output"} /\ answer.tag = "ok"
          /\ answer.id = op[c].id
      BY <1>3, <1>4, <3>2, <3>3 DEF Answer, Cells
    <3>5. Answers(c, answer, FALSE)
      BY <2>1, <2>5, <3>1, <3>2
    <3>6. QED
      BY <1>2, <2>2, <2>5, <3>4, <3>5, AnswersIInv DEF q
  <2>6. QED
    BY <2>3, <2>4, <2>5
<1>14. QED
  BY <1>5, <1>6, <1>7, <1>8, <1>9, <1>10, <1>11, <1>12, <1>13 DEF Work

-----------------------------------------------------------------------------
\* A call that settles, with nothing on the page or with what an undecodable
\* answer brought to the qualification's host.
LEMMA SettleIInv ==
  ASSUME IInv, NEW c \in Calls, NEW result \in Refusals \cup {"ok"}, NEW trouble \in BOOLEAN,
         NEW page \in SUBSET Cells,
         op[c].pc = "pending", Finish(c, "settled", result, page, trouble),
         \/ page = {}
         \/ /\ page \subseteq {"output"} /\ op[c].request.host = "qualification"
            /\ result = "internal-failure" /\ op[c].trouble,
         result = "ok" => Verdicts(op[c].request) = {"ok"},
         ~op[c].trouble /\ ~trouble => result \in Verdicts(op[c].request)
  PROVE  IInv'
<1>1. PICK o : o = [op[c] EXCEPT !.pc = "settled", !.result = result, !.page = page,
                                 !.worker = "terminated", !.inside = {}, !.mail = None,
                                 !.trouble = op[c].trouble \/ trouble]
  OBVIOUS
<1>2. op' = [op EXCEPT ![c] = o]
  BY <1>1, Zenon DEF Finish
<1>3. op[c] \in Op /\ Sound(op[c])
  BY DEF IInv
<1>4. o \in Op
  BY <1>1, <1>3 DEF Op
<1>5. /\ o.request = op[c].request /\ o.pc = "settled" /\ o.result = result /\ o.page = page
      /\ o.worker = "terminated" /\ o.inside = {} /\ o.mail = None
      /\ o.trouble = (op[c].trouble \/ trouble)
  BY <1>1, <1>3 DEF Op
<1>6. result # "none"
  BY DEF Refusals
<1>7. o.page \cap Confidential(o.request) \subseteq Unwiped(o)
  BY <1>5 DEF Unwiped
<1>8. Sound(o)
  BY <1>3, <1>4, <1>5, <1>6, <1>7 DEF Sound, SoundMail, Running
<1>9. QED
  BY <1>2, <1>8, OneCall, NumbersInRange DEF Finish

\* Most settle with nothing.
LEMMA SettleWithNothing ==
  ASSUME IInv, NEW c \in Calls, NEW result \in Refusals \cup {"ok"}, NEW trouble \in BOOLEAN,
         op[c].pc = "pending", Finish(c, "settled", result, {}, trouble),
         result = "ok" => Verdicts(op[c].request) = {"ok"},
         ~op[c].trouble /\ ~trouble => result \in Verdicts(op[c].request)
  PROVE  IInv'
<1>1. PICK page : page = {}
  OBVIOUS
<1>2. page \in SUBSET Cells /\ Finish(c, "settled", result, page, trouble)
  BY <1>1
<1>3. QED
  BY <1>1, <1>2, SettleIInv

\* The deadline.
LEMMA TimeoutIInv ==
  ASSUME IInv, NEW c \in Calls, Timeout(c)
  PROVE  IInv'
  BY SettleWithNothing DEF Timeout, Refusals

\* An answer arrives.
LEMMA ReceiveIInv ==
  ASSUME IInv, NEW c \in Calls, Receive(c)
  PROVE  IInv'
<1>1. PICK answer : answer = op[c].mail
  OBVIOUS
<1>2. op[c] \in Op /\ Sound(op[c]) /\ SoundMail(op[c])
  BY DEF IInv, Sound
<1>3. op[c].pc = "pending" /\ answer # None /\ op[c].request \in Request
  BY <1>1, <1>2 DEF Receive, Sound
<1>4. /\ answer \in Answer /\ answer.cells \subseteq {"output"}
      /\ answer.tag = "ok" => Verdicts(op[c].request) = {"ok"}
      /\ ~op[c].trouble => /\ answer.id = op[c].id /\ answer.tag \in {"ok", "err"}
                           /\ answer.tag = "err" => answer.code \in Verdicts(op[c].request)
  BY <1>1, <1>2, <1>3 DEF SoundMail
<1>5. answer.code \in Refusals /\ "internal-failure" \in Refusals
  BY <1>4 DEF Answer, Refusals
<1>6. CASE ~Decoded(c, answer)
  <2>1. Finish(c, "settled", "internal-failure", Dropped(c, answer), FALSE)
    BY <1>1, <1>6 DEF Receive
  <2>2. op[c].trouble
    BY <1>4, <1>6 DEF Decoded
  <2>3. \/ Dropped(c, answer) = {}
        \/ Dropped(c, answer) \subseteq {"output"} /\ op[c].request.host = "qualification"
    BY <1>4 DEF Dropped
  <2>4. Dropped(c, answer) \in SUBSET Cells
    BY <2>3 DEF Cells
  <2>5. "internal-failure" # "ok"
    OBVIOUS
  <2>6. QED
    BY <1>3, <1>5, <2>1, <2>2, <2>3, <2>4, <2>5, SettleIInv
<1>7. CASE Decoded(c, answer) /\ answer.tag = "err"
  <2>1. Finish(c, "settled", answer.code, {}, FALSE)
    BY <1>1, <1>7 DEF Receive
  <2>2. answer.code # "ok"
    BY <1>5 DEF Refusals
  <2>3. ~op[c].trouble => answer.code \in Verdicts(op[c].request)
    BY <1>4, <1>7
  <2>4. QED
    BY <1>3, <1>5, <2>1, <2>2, <2>3, SettleWithNothing
<1>8. CASE /\ Decoded(c, answer) /\ answer.tag = "ok"
           /\ op[c].request.host = "product" /\ op[c].request.kind = "open"
  <2>1. Finish(c, "consuming", "none", answer.cells, FALSE)
    BY <1>1, <1>8 DEF Receive
  <2>2. PICK o : o = [op[c] EXCEPT !.pc = "consuming", !.result = "none",
                                   !.page = answer.cells, !.worker = "terminated",
                                   !.inside = {}, !.mail = None, !.trouble = op[c].trouble \/ FALSE]
    OBVIOUS
  <2>3. op' = [op EXCEPT ![c] = o]
    BY <2>1, <2>2, Zenon DEF Finish
  <2>4. answer.cells \in SUBSET Cells
    BY <1>4 DEF Cells
  <2>5. o \in Op
    BY <1>2, <2>2, <2>4 DEF Op
  <2>6. /\ o.request = op[c].request /\ o.pc = "consuming" /\ o.result = "none"
        /\ o.page = answer.cells /\ o.worker = "terminated" /\ o.inside = {} /\ o.mail = None
    BY <1>2, <2>2 DEF Op
  <2>7. Sound(o)
    BY <1>3, <1>4, <1>8, <2>5, <2>6 DEF Sound, SoundMail, Running
  <2>8. QED
    BY <2>1, <2>3, <2>7, OneCall, NumbersInRange DEF Finish
<1>9. CASE /\ Decoded(c, answer) /\ answer.tag = "ok"
           /\ ~(op[c].request.host = "product" /\ op[c].request.kind = "open")
  <2>1. Finish(c, "settled", "ok", {}, FALSE)
    BY <1>1, <1>9 DEF Receive
  <2>2. QED
    BY <1>3, <1>4, <1>9, <2>1, SettleWithNothing
<1>10. QED
  BY <1>6, <1>7, <1>8, <1>9 DEF Decoded

\* The consumer returns or throws.
LEMMA ConsumeIInv ==
  ASSUME IInv, NEW c \in Calls, Consume(c)
  PROVE  IInv'
<1>1. \E result \in Refusals \cup {"ok"}, trouble \in BOOLEAN : \E o :
        /\ op' = [op EXCEPT ![c] = o]
        /\ o = [op[c] EXCEPT !.pc = "settled", !.result = result,
                             !.page = op[c].page \ {"output"}, !.trouble = trouble]
        /\ result # "ok" => trouble
  <2>1. op[c] \in Op
    BY DEF IInv
  <2>2. op[c] = [op[c] EXCEPT !.trouble = op[c].trouble] /\ op[c].trouble \in BOOLEAN
    BY <2>1 DEF Op
  <2>3. CASE op' = [op EXCEPT ![c] = [@ EXCEPT !.pc = "settled", !.result = "ok",
                                               !.page = op[c].page \ {"output"}]]
    <3>1. PICK o : o = [op[c] EXCEPT !.pc = "settled", !.result = "ok", !.page = op[c].page \ {"output"}]
      OBVIOUS
    <3>2. o = [op[c] EXCEPT !.pc = "settled", !.result = "ok", !.page = op[c].page \ {"output"},
                            !.trouble = op[c].trouble]
      BY <2>1, <3>1 DEF Op
    <3>3. op' = [op EXCEPT ![c] = o]
      BY <2>3, <3>1, Zenon
    <3>4. QED
      BY <2>2, <3>2, <3>3
  <2>4. CASE \E code \in Refusals :
               op' = [op EXCEPT ![c] = [@ EXCEPT !.pc = "settled", !.result = code,
                                                 !.page = op[c].page \ {"output"}, !.trouble = TRUE]]
    BY <2>4
  <2>5. QED
    BY <2>3, <2>4 DEF Consume
<1>2. PICK result \in Refusals \cup {"ok"}, trouble \in BOOLEAN : \E o :
        /\ op' = [op EXCEPT ![c] = o]
        /\ o = [op[c] EXCEPT !.pc = "settled", !.result = result,
                             !.page = op[c].page \ {"output"}, !.trouble = trouble]
        /\ result # "ok" => trouble
  BY <1>1
<1>3. PICK o :
        /\ op' = [op EXCEPT ![c] = o]
        /\ o = [op[c] EXCEPT !.pc = "settled", !.result = result,
                             !.page = op[c].page \ {"output"}, !.trouble = trouble]
        /\ result # "ok" => trouble
  BY <1>2
<1>4. op[c] \in Op /\ Sound(op[c]) /\ op[c].pc = "consuming"
  BY DEF IInv, Consume
<1>5. /\ Verdicts(op[c].request) = {"ok"} /\ op[c].request \in Request
      /\ op[c].inside = {} /\ op[c].page \subseteq {"input", "output"}
      /\ op[c].request.kind = "open" /\ op[c].mail = None /\ op[c].worker \notin Running
  BY <1>4 DEF Sound, Running
<1>6. o \in Op
  BY <1>3, <1>4 DEF Op
<1>7. /\ o.request = op[c].request /\ o.pc = "settled" /\ o.result = result
      /\ o.page = op[c].page \ {"output"} /\ o.worker = op[c].worker
      /\ o.inside = {} /\ o.mail = None /\ o.trouble = trouble
  BY <1>3, <1>4, <1>5 DEF Op
<1>8. o.page \cap Confidential(o.request) = {}
  BY <1>5, <1>7 DEF Confidential
<1>9. result # "none"
  BY DEF Refusals
<1>10. Sound(o)
  BY <1>3, <1>5, <1>6, <1>7, <1>8, <1>9 DEF Sound, SoundMail, Running
<1>11. QED
  BY <1>3, <1>10, OneCall, NumbersInRange DEF Consume

\* Every step keeps the invariant.
LEMMA NextIInv == IInv /\ [Next]_vars => IInv'
<1> SUFFICES ASSUME IInv, [Next]_vars PROVE IInv'
  OBVIOUS
<1>1. CASE UNCHANGED vars
  BY <1>1 DEF vars, IInv
<1>2. CASE Next
  BY <1>2, RefusalsIInv, PostIInv, CallDirectlyIInv, WorkIInv, TimeoutIInv, ReceiveIInv,
     ConsumeIInv DEF Next
<1>3. QED
  BY <1>1, <1>2

\* The invariant holds in every reachable state.
THEOREM Invariant == Spec => []IInv
  BY InitIInv, NextIInv, PTL DEF Spec

-----------------------------------------------------------------------------
\* Every variable keeps its type, and a call has a result when it is settled.
THEOREM TypeCorrect == Spec => []TypeOK
<1>1. IInv => TypeOK
  BY DEF IInv, Sound, TypeOK
<1>2. QED
  BY <1>1, Invariant, PTL

\* However calls end and wherever they fail, their bytes are wiped, but for
\* those that Unwiped names.
THEOREM Wiped == Spec => []NothingLeftBehind
<1>1. IInv => NothingLeftBehind
  BY DEF IInv, Sound, NothingLeftBehind
<1>2. QED
  BY <1>1, Invariant, PTL

\* A worker runs exactly while its call is pending.
THEOREM WorkersTerminated == Spec => []WorkerPerOperation
<1>1. IInv => WorkerPerOperation
  BY DEF IInv, Sound, Running, WorkerPerOperation
<1>2. QED
  BY <1>1, Invariant, PTL

\* The verdict of the core is the result of the call.
THEOREM VerdictReaches == Spec => []ResultIsVerdict
<1>1. IInv => ResultIsVerdict
  BY DEF IInv, Sound, ResultIsVerdict
<1>2. QED
  BY <1>1, Invariant, PTL
=============================================================================
