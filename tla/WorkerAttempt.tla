----------------------------- MODULE WorkerAttempt -----------------------------
(***************************************************************************)
(* The data of one attempt at a job, from the API's check of its command to *)
(* the result the worker records: process_one of crates/p02-worker and, as  *)
(* the fetch it calls, fetch_chain and read_bounded of crates/p02-fetch.    *)
(* Every attempt starts from the stored command and the number of claims;   *)
(* the queue around them is JobQueue, the slots and the connections of      *)
(* concurrent fetches are SafeFetcher.                                     *)
(*                                                                         *)
(* The server, the resolver and the parser of URLs are external: what they  *)
(* answer is any choice.  A body is counted, not carried.                  *)
(***************************************************************************)
EXTENDS JobContract, FiniteSets

CONSTANTS
  Commands,          (* What clients send: [url, kind, validators], one     *)
                     (* validator standing for the two.                    *)
  Headers,           (* Header values of servers.                          *)
  Statuses,          (* What servers answer with.                          *)
  Days,              (* Days since 1970-01-01 on which jobs end.           *)
  FeedCeiling,       (* FEED_BODY_CEILING.                                 *)
  MaxClaims,         (* WorkerSettings.max_claims.                         *)
  MaxFrame           (* Bound: the bytes of a frame, and those one frame    *)
                     (* may decode to, are no more.                        *)

\* FetchSourceOutcome, as the worker builds it.
Outcomes ==
  [finalUrl : [scheme : {"http", "https"}, fits : {TRUE}, rest : Seq(Printable)],
   httpStatus : Statuses, redirects : 0 .. MaxRedirects, notModified : BOOLEAN,
   etag : Headers \cup {None}, contentType : Headers \cup {None},
   body : 0 .. MaxBodyBytes \cup {None}]

\* The calendar of the contract ends with the year 9999.
ASSUME AttemptAssumption ==
  /\ \A c \in Commands : c.kind \in {"feed", "page"} /\ c.url.rest \in Seq(Printable \cup {"unprintable"})
  /\ None \notin RefusedCodes \cup FailedCodes \cup Outcomes
  /\ FeedCeiling \in 1 .. MaxBodyBytes
  /\ MaxClaims \in Nat \ {0} /\ MaxFrame \in Nat \ {0}
  /\ \A status \in Statuses : status = 101 \/ (status \in Nat /\ 200 <= status /\ status <= 999)
  /\ \A day \in Days : day \in Nat /\ day <= 2932896

VARIABLES
  stage,             (* How far the attempt is.                            *)
  command,           (* The command; None once the policy has parsed it,   *)
                     (* for nothing reads it after.                        *)
  request,           (* Claim.claims and FetchRequest.kind.                *)
  target,            (* The FetchTarget of the hop.                        *)
  redirects,
  answer,            (* The final response: its ResponseMeta and coding.   *)
  transferred,       (* read_bounded: the bytes received ...               *)
  held,              (* ... and the length of the sink's buffer.           *)
  reason,            (* The error fetch returned, None if it did not.      *)
  result             (* The result, as built and then as recorded.         *)

vars == <<stage, command, request, target, redirects, answer, transferred, held, reason, result>>

exchange == <<target, redirects, answer, transferred, held>>

-----------------------------------------------------------------------------
(* The policy.                                                             *)

\* What the parser makes of a text: of a host only its kind is kept.
Parsed == [scheme : {"http", "https", "other"}, credentials : BOOLEAN,
           host : {"name", "public", "private", "none"}, defaultPort : BOOLEAN,
           fragment : BOOLEAN, fits : BOOLEAN]

Targets == [scheme : {"http", "https"}, host : {"name", "public"}, fragment : BOOLEAN]

\* check_parsed, what it refuses and in which order.
Refusal(p) ==
  IF ~p.fits THEN "fetch.url_invalid"
  ELSE IF p.scheme = "other" THEN "fetch.scheme_forbidden"
  ELSE IF p.credentials THEN "fetch.credentials_forbidden"
  ELSE IF p.host = "none" THEN "fetch.url_invalid"
  ELSE IF p.host = "private" THEN "fetch.destination_forbidden"
  ELSE IF ~p.defaultPort THEN "fetch.port_forbidden"
  ELSE None

\* Mutant: the fragment is kept.
TargetWithFragment(p) == [scheme |-> p.scheme, host |-> p.host, fragment |-> p.fragment]

\* check_parsed, what it makes of a URL it does not refuse.
TargetOf(p) == [scheme |-> p.scheme, host |-> p.host, fragment |-> FALSE]

\* Url::as_str of a target: the path is never empty, the default port never
\* printed, and everything else percent-encoded.
AsStr(t) ==
  [scheme |-> t.scheme, fits |-> TRUE,
   rest |-> (IF t.host = "name" THEN <<"g">> ELSE <<"[", ":", "a", "]">>)
              \o (IF t.fragment THEN <<"/", "#">> ELSE <<"/">>)]

-----------------------------------------------------------------------------
(* The result.                                                             *)

\* Mutant: January and February stay in the year of their March.
CivilNoCarry(days) ==
  LET z == days + 719468
      era == z \div 146097
      doe == z % 146097
      yoe == (doe - doe \div 1460 + doe \div 36524 - doe \div 146096) \div 365
      doy == doe - (365 * yoe + yoe \div 4 - yoe \div 100)
      mp == (5 * doy + 2) \div 153
  IN  [year |-> yoe + era * 400,
       month |-> IF mp < 10 THEN mp + 3 ELSE mp - 9,
       day |-> doy - (153 * mp + 2) \div 5 + 1]

\* rfc3339, the date.
Civil(days) ==
  LET z == days + 719468
      era == z \div 146097
      doe == z % 146097
      yoe == (doe - doe \div 1460 + doe \div 36524 - doe \div 146096) \div 365
      doy == doe - (365 * yoe + yoe \div 4 - yoe \div 100)
      mp == (5 * doy + 2) \div 153
      month == IF mp < 10 THEN mp + 3 ELSE mp - 9
  IN  [year |-> yoe + era * 400 + (IF month <= 2 THEN 1 ELSE 0),
       month |-> month,
       day |-> doy - (153 * mp + 2) \div 5 + 1]

ReasonResult(code, today) ==
  [status |-> StatusOf(code), reasonCode |-> code, outcome |-> None, completedAt |-> Civil(today)]

\* meta_header, then recordable: a value that is too long or not text is lost,
\* and one the contract does not admit is left out.
Recordable(value, max) ==
  IF value # None /\ value.size <= 1024 /\ value.text # "opaque" /\ CheckHeader(value, max)
    THEN value ELSE None

\* outcome_result and fetch_outcome.
OutcomeResult(today) ==
  [status |-> "succeeded", reasonCode |-> None, completedAt |-> Civil(today),
   outcome |->
     [finalUrl |-> AsStr(target), httpStatus |-> answer.status, redirects |-> redirects,
      notModified |-> answer.status = 304,
      etag |-> Recordable(answer.etag, 1024),
      contentType |-> Recordable(answer.contentType, 255),
      body |-> IF answer.status \in Success THEN held ELSE None]]

-----------------------------------------------------------------------------
Requests == [kind : {"feed", "page"}, claims : 1 .. MaxClaims]

Answers == [status : Statuses \ Followed, coding : {"identity", "compressed"},
            etag : Headers \cup {None}, contentType : Headers \cup {None}]

Init ==
  /\ stage = "sent" /\ command \in Commands /\ request = None
  /\ target = None /\ redirects = 0 /\ answer = None
  /\ transferred = 0 /\ held = 0
  /\ reason = None /\ result = None

\* enqueue: what the schema refuses is answered 422 and never stored.
Enqueue ==
  /\ stage = "sent"
  /\ stage' = IF SchemaCommand(command) THEN "queued" ELSE "refused"
  /\ UNCHANGED <<command, request, reason, result, exchange>>

\* fetch is over, with an outcome, or with an error and nothing else.
FetchReturns ==
  /\ stage' = "fetched"
  /\ UNCHANGED <<request, reason, result>>

FetchFails(code) ==
  /\ stage' = "fetched" /\ reason' = code
  /\ target' = None /\ redirects' = 0 /\ answer' = None
  /\ transferred' = 0 /\ held' = 0
  /\ UNCHANGED <<request, result>>

\* claim, load_command and command_for; the command is this job's.
Load ==
  /\ stage = "queued"
  /\ IF ValidCommand(command)
       THEN /\ stage' = "loaded" /\ UNCHANGED result
            /\ \E claims \in 1 .. MaxClaims :
                 request' = [kind |-> command.kind, claims |-> claims]
       ELSE /\ stage' = "built" /\ UNCHANGED request
            /\ \E today \in Days : result' = ReasonResult("job.command_invalid", today)
  /\ UNCHANGED <<command, reason, exchange>>

\* validator_headers.
ValidatorAllowed(value) == value.size <= 1024 /\ value.text \in {"visible", "edged"}

\* fetch_chain, before any I/O: the validators, then check_url.
Start ==
  /\ stage = "loaded" /\ command' = None
  /\ IF command.validators \notin {None, Null} /\ ~ValidatorAllowed(command.validators.etag)
       THEN FetchFails("fetch.validator_invalid")
       ELSE \/ FetchFails("fetch.url_invalid")
            \/ \E p \in Parsed :
                 /\ p.scheme = command.url.scheme /\ ~p.credentials
                 /\ p.fragment = (\E i \in DOMAIN command.url.rest : command.url.rest[i] = "#")
                 /\ IF Refusal(p) # None
                      THEN FetchFails(Refusal(p))
                      ELSE /\ stage' = "hop" /\ target' = TargetOf(p)
                           /\ UNCHANGED <<request, redirects, answer, transferred, held, reason, result>>

HopErrors ==
  {"fetch.dns_failed", "fetch.dns_no_address", "fetch.destination_forbidden",
   "fetch.connect_failed", "fetch.connect_timeout", "fetch.tls_failed", "fetch.http_protocol",
   "fetch.unavailable", "fetch.url_invalid"}

\* fetch_hop.
HopFails ==
  /\ stage = "hop"
  /\ \E code \in HopErrors : FetchFails(code)
  /\ UNCHANGED command

\* next_hop refuses a Location that leaves https.
Downgrade(p) == target.scheme = "https" /\ p.scheme = "http"

Follow(p) ==
  /\ target' = TargetOf(p) /\ redirects' = redirects + 1
  /\ UNCHANGED <<stage, command, request, answer, transferred, held, reason, result>>

\* Mutant: one redirect too many.
FollowOnceMore ==
  /\ stage = "hop" /\ redirects <= MaxRedirects
  /\ \E p \in Parsed : Refusal(p) = None /\ ~Downgrade(p) /\ Follow(p)

\* fetch_chain, a status that is followed: the limit, the Location and what it
\* resolves to, and the downgrade.
FollowRedirect ==
  /\ stage = "hop" /\ redirects < MaxRedirects
  /\ \E p \in Parsed : Refusal(p) = None /\ ~Downgrade(p) /\ Follow(p)

RefuseRedirect ==
  /\ stage = "hop"
  /\ IF redirects >= MaxRedirects
       THEN FetchFails("fetch.redirect_limit")
       ELSE \/ FetchFails("fetch.redirect_invalid")
            \/ \E p \in Parsed : Refusal(p) # None /\ FetchFails(Refusal(p))
            \/ /\ \E p \in Parsed : Refusal(p) = None /\ Downgrade(p)
               /\ FetchFails("fetch.redirect_downgrade")
  /\ UNCHANGED command

Bound == IF request.kind = "feed" THEN FeedCeiling ELSE MaxBodyBytes

\* fetch_chain, any other status: of a success the body is read ...
Answered ==
  /\ stage = "hop"
  /\ answer' \in Answers
  /\ IF answer'.status \in Success
       THEN stage' = "reading" /\ UNCHANGED <<request, reason, result>>
       ELSE FetchReturns
  /\ UNCHANGED <<command, target, redirects, transferred, held>>

\* ... unless its coding is unknown, or its declared length beyond the bound.
RefuseBody ==
  /\ stage = "hop"
  /\ FetchFails("fetch.encoding_unsupported") \/ FetchFails("fetch.body_too_large")
  /\ UNCHANGED command

\* Mutant: each write is within the bound, but not all of them.
SinkTakesEach(n) == n <= Bound

\* BoundedSink.write.
SinkTakes(n) == n <= Bound - held

\* read_bounded, a frame: counted as it came, then as what the decoder writes.
ReadFrame ==
  /\ stage = "reading"
  /\ \E n \in 1 .. MaxFrame, decoded \in 0 .. MaxFrame :
       /\ answer.coding = "identity" => decoded = n
       /\ IF transferred + n <= Bound /\ SinkTakes(decoded)
            THEN /\ transferred' = transferred + n /\ held' = held + decoded
                 /\ UNCHANGED <<stage, request, target, redirects, answer, reason, result>>
            ELSE FetchFails("fetch.body_too_large")
  /\ UNCHANGED command

\* The end of the body: the decoder writes what it still has.
EndBody ==
  /\ stage = "reading"
  /\ \E decoded \in 0 .. MaxFrame :
       /\ answer.coding = "identity" => decoded = 0
       /\ IF SinkTakes(decoded)
            THEN /\ FetchReturns
                 /\ transferred' = 0 /\ held' = held + decoded
                 /\ UNCHANGED <<target, redirects, answer>>
            ELSE FetchFails("fetch.body_too_large")
  /\ UNCHANGED command

BodyBreaks ==
  /\ stage = "reading"
  /\ \/ FetchFails("fetch.http_protocol")
     \/ answer.coding = "compressed" /\ FetchFails("fetch.decoding_failed")
  /\ UNCHANGED command

\* The total timeout of fetch.
TimeOut ==
  /\ stage \in {"hop", "reading"}
  /\ FetchFails("fetch.total_timeout")
  /\ UNCHANGED command

\* process_one, once the fetch is over: the queue again, while claims are left,
\* or finish.
Settle ==
  /\ stage = "fetched"
  /\ IF reason \in FailedCodes /\ request.claims < MaxClaims
       THEN stage' = "released" /\ UNCHANGED result
       ELSE /\ stage' = "built"
            /\ \E today \in Days :
                 result' = IF reason = None THEN OutcomeResult(today) ELSE ReasonResult(reason, today)
  /\ UNCHANGED <<command, request, reason, exchange>>

\* Mutant: whatever was built is recorded.
FinishUnchecked ==
  /\ stage = "built" /\ stage' = "recorded"
  /\ UNCHANGED <<command, request, reason, result, exchange>>

\* finish: what does not validate is recorded as refused.
Finish ==
  /\ stage = "built" /\ stage' = "recorded"
  /\ IF ValidResult(result)
       THEN UNCHANGED result
       ELSE \E today \in Days : result' = ReasonResult("fetch.url_invalid", today)
  /\ UNCHANGED <<command, request, reason, exchange>>

Next ==
  \/ Enqueue \/ Load \/ Start
  \/ HopFails \/ FollowRedirect \/ RefuseRedirect \/ Answered \/ RefuseBody \/ ReadFrame \/ EndBody \/ BodyBreaks \/ TimeOut
  \/ Settle \/ Finish

Spec == Init /\ [][Next]_vars
-----------------------------------------------------------------------------
(* Properties.                                                             *)

\* Every variable has its type: what is fetched is within the bounds of the
\* fetcher, and a target is one the policy lets through.
TypeOK ==
  /\ stage \in {"sent", "refused", "queued", "loaded", "hop", "reading", "fetched", "released",
                "built", "recorded"}
  /\ command \in Commands \cup {None}
  /\ request \in Requests \cup {None}
  /\ target \in Targets \cup {None}
  /\ redirects \in 0 .. MaxRedirects
  /\ answer \in Answers \cup {None}
  /\ transferred \in Nat /\ held \in Nat
  /\ reason \in RefusedCodes \cup FailedCodes \cup {None}
  /\ result = None \/ result.status \in {"succeeded", "refused", "failed"}

\* Whatever is recorded is a result of the contract, as the schema states it and
\* whatever servers answer: finish falls back to a refusal for what is not.
RecordedIsContract == stage = "recorded" => SchemaResult(result)

\* What the checks before the queue leave no occasion for.
Precluded == {"job.command_invalid", "fetch.validator_invalid"}

\* "both runtimes must give the authority's verdict" (job.rs), where it counts:
\* a command the schema lets the API store is never refused by the worker as
\* invalid, nor are its validators by the fetcher.
AcceptedCommandRuns ==
  /\ result # None => result.reasonCode \notin Precluded
  /\ stage = "queued" => ValidCommand(command)

\* A final answer of a status the contract knows, its body read within the bound,
\* is recorded as it was: the worker builds no outcome that its own validation
\* would then replace by a refusal.
ExchangeIsRecorded ==
  (stage = "recorded" /\ reason = None /\ answer # None /\ answer.status \in Final)
    => /\ result.status = "succeeded"
       /\ result.outcome.httpStatus = answer.status
       /\ result.outcome.redirects = redirects
       /\ result.outcome.body = IF answer.status \in Success THEN held ELSE None

\* G5: at no time is more of a body held than the ceiling of its kind, however it
\* is cut into frames and whatever they decode to.
HeldWithinBound == held > 0 => held <= Bound

\* The reference for rfc3339: the days of the years, months and days before.
LeapYears(before) == {y \in 1970 .. (before - 1) : DaysInMonth(y, 2) = 29}
DaysOfMonths(year, before) ==
  {date \in (1 .. (before - 1)) \X (1 .. 31) : date[2] <= DaysInMonth(year, date[1])}

DaysBefore(date) ==
  365 * (date.year - 1970) + Cardinality(LeapYears(date.year))
    + Cardinality(DaysOfMonths(date.year, date.month)) + date.day - 1

\* The date of a result exists in the calendar the contract checks dates against,
\* and is that of a day on which jobs end, leap years and centuries included.
DatedRight ==
  [][result' # result =>
       ValidDate(result'.completedAt) /\ DaysBefore(result'.completedAt) \in Days]_vars
=============================================================================
