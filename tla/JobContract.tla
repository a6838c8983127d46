------------------------------ MODULE JobContract ------------------------------
(***************************************************************************)
(* The contract p02-job-v1 between the API and the worker, twice: as        *)
(* crates/p02-domain/src/job.rs checks it by hand, and as the vendored      *)
(* schema states it, which the API applies to what it enqueues.            *)
(*                                                                         *)
(* What the API draws or has checked itself (identifiers, tenant, key) is   *)
(* left out of a command, the digest out of a body.  A URL is its scheme,   *)
(* whether its length is within bounds, and the classes of the characters   *)
(* after "://": "a" for one that an IPv6 literal and a name share, "g" for  *)
(* one only a name holds, "@" for one that is printable and in neither,     *)
(* "unprintable" for one that is not, "80" and "443" for their digits.      *)
(***************************************************************************)
EXTENDS Integers, Sequences

CONSTANTS
  MaxBodyBytes,      (* MAX_BODY_BYTES, the ceiling of a page.             *)
  MaxRedirects,      (* MAX_REDIRECTS, REDIRECT_CEILING.                   *)
  None,              (* An optional field that is absent.                  *)
  Null               (* One that is there, as a JSON null.                 *)

ASSUME ContractAssumption ==
  MaxBodyBytes \in Nat \ {0} /\ MaxRedirects \in Nat /\ None # Null

Literal == {"a", "80", "443", ":"}
RegName == {"a", "g", "80", "443"}
Ports == {"80", "443"}
Printable == Literal \cup RegName \cup {"[", "]", "/", "?", "#", "@"}

\* UrlRole: what may follow the authority.
Request == [first |-> {"/", "?", "#"}, tail |-> Printable]
FinalHop == [first |-> {"/", "?"}, tail |-> Printable \ {"#"}]

\* check_url, the authority: the index it ends at, 0 if there is none.
AuthorityEnd(s) ==
  LET close == CHOOSE i \in DOMAIN s : s[i] = "]" /\ \A j \in 1 .. (i - 1) : s[j] # "]"
  IN  IF s = <<>> \/ s[1] # "["
        THEN CHOOSE n \in 0 .. Len(s) :
               /\ \A i \in 1 .. n : s[i] \in RegName
               /\ n < Len(s) => s[n + 1] \notin RegName
        ELSE IF /\ \E i \in DOMAIN s : s[i] = "]"
                /\ close > 2
                /\ \A i \in 2 .. (close - 1) : s[i] \in Literal
               THEN close
               ELSE 0

TailFits(s, from, role) ==
  from < Len(s) => /\ s[from + 1] \in role.first
                   /\ \A i \in (from + 2) .. Len(s) : s[i] \in role.tail

\* Mutant: the explicit port of https is forgotten.
CheckUrlPort80(url, role) ==
  LET s == url.rest
      a == AuthorityEnd(s)
      port == a < Len(s) /\ s[a + 1] = ":"
  IN  /\ url.fits /\ url.scheme \in {"http", "https"}
      /\ a > 0
      /\ IF port THEN a + 2 <= Len(s) /\ s[a + 2] = "80" /\ TailFits(s, a + 2, role)
                 ELSE TailFits(s, a, role)

\* check_url, from left to right.
CheckUrl(url, role) ==
  LET s == url.rest
      a == AuthorityEnd(s)
      port == a < Len(s) /\ s[a + 1] = ":"
  IN  /\ url.fits /\ url.scheme \in {"http", "https"}
      /\ a > 0
      /\ IF port THEN a + 2 <= Len(s) /\ s[a + 2] \in Ports /\ TailFits(s, a + 2, role)
                 ELSE TailFits(s, a, role)

\* The pattern of url and of finalUrl: there is a way to cut the text.
SchemaUrl(url, role) ==
  LET s == url.rest
      IsAuthority(a) ==
        \/ a > 2 /\ s[1] = "[" /\ s[a] = "]" /\ (\A i \in 2 .. (a - 1) : s[i] \in Literal)
        \/ \A i \in 1 .. a : s[i] \in RegName
      IsPort(a, p) == p = a \/ (p = a + 2 /\ s[a + 1] = ":" /\ s[p] \in Ports)
  IN  /\ url.fits /\ url.scheme \in {"http", "https"}
      /\ \E a, p \in DOMAIN s : IsAuthority(a) /\ IsPort(a, p) /\ TailFits(s, p, role)

\* A header value is its size and its text: "visible" at both ends and printable
\* in between, printable but "edged" by a space, with a "tab", or "opaque".
\* check_header, which is also the pattern of the schema.
CheckHeader(value, max) == value.size \in 1 .. max /\ value.text = "visible"

\* JobCommand::validate, after serde, for which a null is an absent field.
ValidCommand(command) ==
  LET etag == command.validators.etag
  IN  /\ CheckUrl(command.url, Request)
      /\ command.validators \notin {None, Null} =>
           etag \notin {None, Null} /\ CheckHeader(etag, 1024)

\* The schema of a command, for which a null has the wrong type.
SchemaCommand(command) ==
  /\ SchemaUrl(command.url, Request)
  /\ command.validators # Null
  /\ command.validators # None =>
       /\ command.validators.etag \notin {None, Null}
       /\ CheckHeader(command.validators.etag, 1024)

RefusedCodes ==
  {"fetch.url_invalid", "fetch.scheme_forbidden", "fetch.credentials_forbidden",
   "fetch.port_forbidden", "fetch.destination_forbidden", "fetch.redirect_invalid",
   "fetch.redirect_limit", "fetch.redirect_downgrade", "fetch.body_too_large",
   "fetch.encoding_unsupported", "fetch.validator_invalid", "job.command_invalid"}

FailedCodes ==
  {"fetch.dns_no_address", "fetch.dns_failed", "fetch.connect_failed", "fetch.connect_timeout",
   "fetch.tls_failed", "fetch.total_timeout", "fetch.http_protocol", "fetch.decoding_failed",
   "fetch.unavailable", "job.lease_expired", "job.attempts_exhausted", "job.store_unavailable"}

\* ReasonCode::status.
StatusOf(code) == IF code \in RefusedCodes THEN "refused" ELSE "failed"

Followed == {301, 302, 303, 307, 308}
Success == 200 .. 299

\* The statuses a result may carry.
Final == (200 .. 599) \ Followed

\* FetchSourceOutcome::validate.
ValidOutcome(outcome) ==
  /\ CheckUrl(outcome.finalUrl, FinalHop)
  /\ outcome.httpStatus \in Final
  /\ outcome.redirects <= MaxRedirects
  /\ outcome.notModified = (outcome.httpStatus = 304)
  /\ outcome.body # None => outcome.httpStatus \in Success /\ outcome.body <= MaxBodyBytes
  /\ outcome.etag # None => CheckHeader(outcome.etag, 1024)
  /\ outcome.contentType # None => CheckHeader(outcome.contentType, 255)

\* parse_timestamp, of a date without its time of day.
DaysInMonth(year, month) ==
  CASE month \in {1, 3, 5, 7, 8, 10, 12} -> 31
    [] month \in {4, 6, 9, 11} -> 30
    [] month = 2 -> IF year % 4 = 0 /\ (year % 100 # 0 \/ year % 400 = 0) THEN 29 ELSE 28
    [] OTHER -> 0

ValidDate(date) ==
  /\ date.year \in Nat /\ date.year <= 9999
  /\ date.day \in 1 .. DaysInMonth(date.year, date.month)

\* JobResult::validate.
ValidResult(result) ==
  /\ ValidDate(result.completedAt)
  /\ IF result.status = "succeeded"
       THEN result.reasonCode = None /\ result.outcome # None /\ ValidOutcome(result.outcome)
       ELSE /\ result.outcome = None /\ result.reasonCode # None
            /\ StatusOf(result.reasonCode) = result.status

\* The schema of a result: the bounds of an outcome, its two conditions on
\* notModified and on body, and the fields and the codes of each status.
SchemaOutcome(o) ==
  /\ SchemaUrl(o.finalUrl, FinalHop)
  /\ o.httpStatus \in Final
  /\ o.redirects \in 0 .. MaxRedirects
  /\ IF o.notModified THEN o.httpStatus = 304 /\ o.body = None ELSE o.httpStatus # 304
  /\ o.body # None => o.body \in 0 .. MaxBodyBytes /\ o.httpStatus \in Success
  /\ o.etag # None => CheckHeader(o.etag, 1024)
  /\ o.contentType # None => CheckHeader(o.contentType, 255)

SchemaResult(result) ==
  /\ ValidDate(result.completedAt)
  /\ CASE result.status = "succeeded" ->
            result.reasonCode = None /\ result.outcome # None /\ SchemaOutcome(result.outcome)
       [] result.status = "refused" -> result.outcome = None /\ result.reasonCode \in RefusedCodes
       [] result.status = "failed" -> result.outcome = None /\ result.reasonCode \in FailedCodes
       [] OTHER -> FALSE
=============================================================================
