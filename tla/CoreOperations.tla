---------------------------- MODULE CoreOperations ----------------------------
(***************************************************************************)
(* One operation of the Notebook core, from the call to its settlement.    *)
(* Three hosts run them:                                                   *)
(*   "product"        NotebookBackupHost (operation-host.ts) with a worker *)
(*                    of notebook-core-worker.ts per operation;            *)
(*   "qualification"  runIsolatedOperation (isolated-host.ts) with a       *)
(*                    worker of fault-worker.ts, which may inject a fault; *)
(*   "direct"         host.ts, which calls the core on the page.           *)
(* A call runs without a break until its message is posted, and a worker   *)
(* between two awaits; everything else is interleaved.  The bytes of a     *)
(* call are "input" (the document, plaintext or envelope), "secret" (the   *)
(* recovery secret) and "output"; page and inside are those that the page  *)
(* and the worker can still read.  The core itself is external: a verdict. *)
(***************************************************************************)
EXTENDS Integers

CONSTANTS
  Calls,          (* Calls of the hosts' operations.                       *)
  MaxRequestId,   (* Number.MAX_SAFE_INTEGER.                              *)
  None            (* No request, no answer.                                *)

ASSUME CoreOperationsAssumption == MaxRequestId \in Nat \ {0}

VARIABLES
  nextRequestId,  (* Of the modules operation-host.ts and isolated-host.ts. *)
  op              (* What each call has come to.                           *)

vars == <<nextRequestId, op>>

-----------------------------------------------------------------------------
(* Calls, answers and codes.                                               *)

Refusals == {"invalid-document", "invalid-seal-request", "invalid-envelope",
             "unsupported-version", "resource-limit-exceeded",
             "authentication-failed", "internal-failure"}

\* The faults of the qualification; "refuse" is an allocation the core is
\* refused (internal-jcs-oom, internal-argon2-oom), "panic" one it aborts on.
\* Those two strike documents that carry the id of the failpoint only: a call
\* "with" such a fault here is one on such a document.
Faults == {"none", "oom", "trap", "hang", "panic", "refuse"}
FaultCode(fault) ==
  IF fault \in {"oom", "refuse"} THEN "resource-limit-exceeded" ELSE "internal-failure"

\* The texts typed as a recovery code: their length, whether they are lower
\* case hexadecimal, and whether they are the code of the envelope.
Texts == {t \in [length : {30, 31, 32, 34}, hex : BOOLEAN, right : BOOLEAN] :
            (t.right => t.length = 32) /\ (t.right \/ t.length # 32 => t.hex)}

Request == {q \in [host : {"product", "qualification", "direct"},
                   kind : {"canonicalize", "seal", "open"},
                   valid : BOOLEAN, text : Texts, fault : Faults] :
              /\ q.kind = "canonicalize" => q.host # "product"
              /\ q.fault # "none" => q.host = "qualification"
              /\ q.kind # "open" \/ ~q.valid \/ q.fault # "none" => q.text.right
              /\ q.fault # "none" => q.valid}

\* decodeRecoveryAttempt: a text that cannot be a code becomes a secret of a
\* size the core refuses, after the same work as for a wrong one.
SecretLength(text) ==
  IF text.hex /\ text.length \in {30, 32, 34} THEN text.length \div 2 ELSE 15

\* Mutant: the worker takes secrets of the one right size.
RightSizeOnly(q) == SecretLength(q.text) = 16

\* decodeRequest of the product's worker, on a message of its own host.
Decodes(q) == q.host = "product" => SecretLength(q.text) \in 15 .. 17

\* The core's answer to a call that meets no trouble.
Verdicts(q) ==
  IF q.fault # "none" THEN {FaultCode(q.fault)}
  ELSE IF q.valid THEN {IF q.text.right THEN "ok" ELSE "authentication-failed"}
  ELSE CASE q.kind = "canonicalize" -> {"invalid-document"}
         [] q.kind = "seal" -> {"invalid-seal-request"}
         [] q.kind = "open" -> {"invalid-envelope", "unsupported-version"}

Cells == {"input", "secret", "output"}

\* Bytes of a call that must not stay: an envelope is public.
Confidential(q) ==
  CASE q.kind = "canonicalize" -> {"input"}
    [] q.kind = "seal" -> {"input", "secret"}
    [] q.kind = "open" -> {"secret", "output"}

\* Bytes handed to the worker: the message transfers its buffers.
Handed(q) == IF q.kind = "canonicalize" THEN {"input"} ELSE {"input", "secret"}

Answer == [id : 0 .. MaxRequestId, tag : {"ok", "err", "error event", "undecodable"},
           code : Refusals, cells : SUBSET Cells]
Error(id, code) == [id |-> id, tag |-> "err", code |-> code, cells |-> {}]

Op == [request : Request \cup {None},
       id      : 0 .. MaxRequestId,
       pc      : {"ready", "pending", "consuming", "settled"},
       result  : Refusals \cup {"none", "ok"},
       page    : SUBSET Cells,
       worker  : {"none", "posted", "loading", "loaded", "summarizing", "done", "terminated"},
       inside  : SUBSET Cells,
       mail    : Answer \cup {None},
       trouble : BOOLEAN]
NewOp == [request |-> None, id |-> 0, pc |-> "ready", result |-> "none", page |-> {},
          worker |-> "none", inside |-> {}, mail |-> None, trouble |-> FALSE]

Init ==
  /\ nextRequestId = [host \in {"product", "qualification"} |-> 1]
  /\ op = [c \in Calls |-> NewOp]

-----------------------------------------------------------------------------
(* The call, up to the message.                                            *)

\* takeRequestId.
TakeId(host) ==
  nextRequestId' = [nextRequestId EXCEPT ![host] = IF @ = MaxRequestId THEN 1 ELSE @ + 1]

Refused(q, code, left, worker) ==
  [NewOp EXCEPT !.request = q, !.pc = "settled", !.result = code, !.page = left,
                !.worker = worker, !.trouble = TRUE]

\* closedBackupRefusal of whatever was thrown; the qualification has one code.
Thrown(host) ==
  IF host = "qualification" THEN {"internal-failure"}
                            ELSE {"internal-failure", "resource-limit-exceeded"}

\* assertOwnedBytes: the caller's view is part of a buffer, too long, or
\* detached already.
NotOwned(c, q) ==
  /\ op[c].pc = "ready" /\ q.host = "product"
  /\ op' = [op EXCEPT ![c] = Refused(q, "resource-limit-exceeded", {}, "none")]
  /\ UNCHANGED nextRequestId

\* The random source fails.  host.ts draws the material before anything wipes
\* the plaintext it was given; the product wipes it.
NoMaterial(c, q) ==
  /\ op[c].pc = "ready" /\ q.host \in {"product", "direct"} /\ q.kind = "seal"
  /\ \E code \in Thrown(q.host) :
       op' = [op EXCEPT ![c] =
         Refused(q, code, IF q.host = "direct" THEN {"input"} ELSE {}, "none")]
  /\ UNCHANGED nextRequestId

\* The worker cannot be made.
NoWorker(c, q) ==
  /\ op[c].pc = "ready" /\ q.host # "direct"
  /\ \E code \in Thrown(q.host) :
       op' = [op EXCEPT ![c] = Refused(q, code, {}, "none")]
  /\ TakeId(q.host)

\* Mutant: a worker made for nothing is left running.
UnusedWorkerStays(c, q) ==
  /\ op[c].pc = "ready" /\ q.host # "direct"
  /\ \E code \in Thrown(q.host) :
       op' = [op EXCEPT ![c] = Refused(q, code, {}, "posted")]
  /\ TakeId(q.host)

\* The worker is made and not used: the deadline is out of range, or the
\* message cannot be posted.
NotPosted(c, q) ==
  /\ op[c].pc = "ready" /\ q.host # "direct"
  /\ \E code \in Thrown(q.host) :
       op' = [op EXCEPT ![c] = Refused(q, code, {}, "terminated")]
  /\ TakeId(q.host)

\* The message is posted and owns the bytes; the deadline runs from here.
Post(c, q) ==
  /\ op[c].pc = "ready" /\ q.host # "direct"
  /\ op' = [op EXCEPT ![c] =
       [NewOp EXCEPT !.request = q, !.id = nextRequestId[q.host], !.pc = "pending",
                     !.worker = "posted", !.inside = Handed(q)]]
  /\ TakeId(q.host)

\* canonicalizeOwned, sealFreshOwned, openForUse: the core is called at once;
\* the plaintext of an opened envelope is lent to the consumer.
CallDirectly(c, q) ==
  /\ op[c].pc = "ready" /\ q.host = "direct"
  /\ \E v \in Verdicts(q) :
       op' = [op EXCEPT ![c] = [NewOp EXCEPT
         !.request = q,
         !.pc = IF q.kind = "open" /\ v = "ok" THEN "consuming" ELSE "settled",
         !.result = IF q.kind = "open" /\ v = "ok" THEN "none" ELSE v,
         !.page = IF q.kind = "open" THEN {"input"} \cup (IF v = "ok" THEN {"output"} ELSE {})
                                     ELSE {}]]
  /\ UNCHANGED nextRequestId

\* The core traps on the page, or its memory gives out.
TrapDirectly(c, q) ==
  /\ op[c].pc = "ready" /\ q.host = "direct"
  /\ \E code \in Thrown(q.host) :
       op' = [op EXCEPT ![c] =
         Refused(q, code, IF q.kind = "open" THEN {"input"} ELSE {}, "none")]
  /\ UNCHANGED nextRequestId

-----------------------------------------------------------------------------
(* The worker.  Its answer and the wiping of what it holds are one turn.   *)

At(c, place) == op[c].pc = "pending" /\ op[c].worker = place

Answers(c, answer, trouble) ==
  /\ op' = [op EXCEPT ![c] = [@ EXCEPT !.worker = "done", !.inside = {}, !.mail = answer,
                                       !.trouble = op[c].trouble \/ trouble]]
  /\ UNCHANGED nextRequestId

GoesTo(c, place, cells) ==
  /\ op' = [op EXCEPT ![c] = [@ EXCEPT !.worker = place, !.inside = cells]]
  /\ UNCHANGED nextRequestId

\* A request that does not decode has no number, and the answer says 0.
Decode(c) ==
  /\ At(c, "posted")
  /\ IF Decodes(op[c].request) THEN GoesTo(c, "loading", op[c].inside)
                               ELSE Answers(c, Error(0, "internal-failure"), FALSE)

Load(c) == At(c, "loading") /\ GoesTo(c, "loaded", op[c].inside)

\* The component or its core cannot be fetched, compiled or instantiated, has
\* imports, or has no memory.
LoadFails(c) ==
  At(c, "loading") /\ Answers(c, Error(op[c].id, "internal-failure"), TRUE)

(***************************************************************************)
(* The core is called.  The product's worker answers at once, with the     *)
(* plaintext of an opened envelope; the qualification's digests the output *)
(* first, and keeps an envelope and its secret until it has.               *)
(***************************************************************************)
Compute(c) ==
  LET q == op[c].request IN
  /\ At(c, "loaded") /\ q.fault # "hang"
  /\ \E v \in Verdicts(q) :
       IF v # "ok" THEN Answers(c, Error(op[c].id, v), FALSE)
       ELSE IF q.host = "qualification"
         THEN GoesTo(c, "summarizing", {"output"} \cup (IF q.kind = "open" THEN Handed(q) ELSE {}))
         ELSE Answers(c, [id |-> op[c].id, tag |-> "ok", code |-> "internal-failure",
                          cells |-> IF q.kind = "open" THEN {"output"} ELSE {}], FALSE)

\* The memory of the device gives out: a RangeError, or a trap of the core.
Exhausted(c) ==
  /\ At(c, "loaded")
  /\ \E code \in {"resource-limit-exceeded", "internal-failure"} :
       Answers(c, Error(op[c].id, code), TRUE)

Summarize(c) ==
  /\ At(c, "summarizing")
  /\ Answers(c, [id |-> op[c].id, tag |-> "ok", code |-> "internal-failure", cells |-> {}], FALSE)

SummarizeFails(c) ==
  At(c, "summarizing") /\ Answers(c, Error(op[c].id, "internal-failure"), TRUE)

\* The worker's script fails to load or to run: an error event.
Crash(c) ==
  /\ \E place \in {"posted", "loading", "loaded", "summarizing"} : At(c, place)
  /\ Answers(c, [id |-> 0, tag |-> "error event", code |-> "internal-failure", cells |-> {}], TRUE)

\* An answer outside the protocol (a script of another release, a message
\* that cannot be deserialized), with an output under its key or without.
Garble(c) ==
  /\ At(c, "loaded")
  /\ \E cells \in {{}, {"output"}} :
       Answers(c, [id |-> op[c].id, tag |-> "undecodable", code |-> "internal-failure",
                   cells |-> cells], TRUE)

Work(c) ==
  \/ Decode(c) \/ Load(c) \/ LoadFails(c) \/ Compute(c) \/ Exhausted(c)
  \/ Summarize(c) \/ SummarizeFails(c) \/ Crash(c) \/ Garble(c)

-----------------------------------------------------------------------------
(* The page.  The first of the deadline, an answer and an error settles    *)
(* the call: finish takes the handlers off and terminates the worker.      *)

Finish(c, pc, result, page, trouble) ==
  /\ op' = [op EXCEPT ![c] = [@ EXCEPT !.pc = pc, !.result = result, !.page = page,
                                       !.worker = "terminated", !.inside = {}, !.mail = None,
                                       !.trouble = op[c].trouble \/ trouble]]
  /\ UNCHANGED nextRequestId

\* Mutant: the deadline runs from the moment the core is there.
TimeoutOnceLoaded(c) ==
  /\ op[c].pc = "pending" /\ op[c].worker \notin {"posted", "loading"}
  /\ Finish(c, "settled", "resource-limit-exceeded", {}, TRUE)

Timeout(c) ==
  /\ op[c].pc = "pending"
  /\ Finish(c, "settled", "resource-limit-exceeded", {}, TRUE)

\* decodeWorkerResponse, decodeResponse.
Decoded(c, answer) == answer.tag \in {"ok", "err"} /\ answer.id = op[c].id

\* Mutant: the product, too, drops an answer that does not decode as it is.
DroppedAsItIs(c, answer) == answer.cells

\* The bytes of an answer that does not decode: wipeReflectedResponse wipes
\* them, runIsolatedOperation drops the answer as it is.
Dropped(c, answer) ==
  IF op[c].request.host = "qualification" THEN answer.cells ELSE {}

\* onmessage, onerror, onmessageerror: whatever is not the decodable answer to
\* this request is an internal failure.
Receive(c) ==
  LET answer == op[c].mail IN
  /\ op[c].pc = "pending" /\ answer # None
  /\ IF ~Decoded(c, answer)
       THEN Finish(c, "settled", "internal-failure", Dropped(c, answer), FALSE)
     ELSE IF answer.tag = "err"
       THEN Finish(c, "settled", answer.code, {}, FALSE)
     ELSE IF op[c].request.host = "product" /\ op[c].request.kind = "open"
       THEN Finish(c, "consuming", "none", answer.cells, FALSE)
     ELSE Finish(c, "settled", "ok", {}, FALSE)

\* The consumer of an opened backup returns or throws; either way the
\* plaintext is wiped.  (What it throws is closed by the product only.)
Consume(c) ==
  /\ op[c].pc = "consuming"
  /\ \/ op' = [op EXCEPT ![c] = [@ EXCEPT !.pc = "settled", !.result = "ok",
                                          !.page = op[c].page \ {"output"}]]
     \/ \E code \in Refusals :
          op' = [op EXCEPT ![c] = [@ EXCEPT !.pc = "settled", !.result = code,
                                            !.page = op[c].page \ {"output"}, !.trouble = TRUE]]
  /\ UNCHANGED nextRequestId

Next ==
  \E c \in Calls :
    \/ \E q \in Request : NotOwned(c, q) \/ NoMaterial(c, q) \/ NoWorker(c, q)
                          \/ NotPosted(c, q) \/ Post(c, q)
                          \/ CallDirectly(c, q) \/ TrapDirectly(c, q)
    \/ Work(c) \/ Timeout(c) \/ Receive(c) \/ Consume(c)

Spec == Init /\ [][Next]_vars

\* Timers fire and consumers return; nothing is assumed of a worker.
FairSpec == Spec /\ \A c \in Calls : WF_vars(Timeout(c)) /\ WF_vars(Consume(c))

-----------------------------------------------------------------------------
(* Properties.                                                             *)

\* Every variable has its type, a call is settled once it has a result, and
\* mail is on its way from a worker that is done.
TypeOK ==
  /\ nextRequestId \in [{"product", "qualification"} -> 1 .. MaxRequestId]
  /\ op \in [Calls -> Op]
  /\ \A c \in Calls : /\ op[c].result # "none" <=> op[c].pc = "settled"
                      /\ op[c].mail # None => op[c].worker = "done"

\* What a call may leave on the page: the plaintext given to sealFreshOwned
\* when the material fails; and the output in an undecodable answer to the
\* qualification's host, whose worker posts lengths and digests only.
Unwiped(o) ==
  IF ~o.trouble THEN {}
  ELSE IF o.request.host = "direct" /\ o.request.kind = "seal" THEN {"input"}
  ELSE IF o.request.host = "qualification" /\ o.result = "internal-failure" THEN {"output"}
  ELSE {}

\* README.md:14 of the qualification, "wiping of host-owned recovery,
\* plaintext, opened plaintext, and Context input buffers": however a call
\* ends, neither the page nor a worker can read its secret, its plaintext or
\* its document afterwards, but for what Unwiped names; while it is pending
\* only the worker can.
NothingLeftBehind ==
  \A c \in Calls : LET o == op[c] IN
    /\ o.pc = "settled" => o.inside = {}
    /\ o.pc = "settled" => o.page \cap Confidential(o.request) \subseteq Unwiped(o)
    /\ o.pc = "pending" => o.page = {}

\* README.md:15 of the qualification, "mandatory termination on success,
\* refusal, startup/clone error, malformed response, trap, OOM, or timeout":
\* a worker runs exactly while its call is pending.
WorkerPerOperation ==
  \A c \in Calls :
    op[c].worker \in {"posted", "loading", "loaded", "summarizing", "done"}
      <=> op[c].pc = "pending"

\* The verdict of the core reaches the caller: without trouble a call ends as
\* the core decides, a recovery code of the wrong form exactly as a wrong one
\* (host.ts:217); an injected fault never ends well; and only a call on valid
\* bytes with the right code ever does, whatever the trouble.
ResultIsVerdict ==
  \A c \in Calls : LET o == op[c] IN o.pc = "settled" =>
    /\ ~o.trouble => o.result \in Verdicts(o.request)
    /\ o.result = "ok" => Verdicts(o.request) = {"ok"}

\* Every call settles, whatever its worker does: never loads, hangs in the
\* core, dies silently or answers something else.
EveryCallSettles == \A c \in Calls : op[c].pc = "pending" ~> op[c].pc = "settled"
=============================================================================
