--------------------------- MODULE MCWorkerAttempt ---------------------------
(* A small instance of WorkerAttempt: every text of an authority and a rest   *)
(* over the characters that matter, headers and statuses at their bounds,     *)
(* and the days around the ends of months, leap years, centuries and eras.    *)
EXTENDS WorkerAttempt, SequencesExt

MCText(authority, rest) ==
  {a \o r : a \in BoundedSeq({"a", "g", "[", "]", ":", "@"}, authority),
            r \in BoundedSeq({":", "80", "443", "/", "#", "unprintable"}, rest)}

MCUrls == [scheme : {"http", "https"}, fits : {TRUE}, rest : MCText(3, 3)]
            \cup [scheme : {"other", "http"}, fits : BOOLEAN, rest : MCText(1, 1)]

MCPlain == [scheme |-> "https", fits |-> TRUE, rest |-> <<"g", "/", "#">>]

MCValidators == {[size |-> 0, text |-> "visible"], [size |-> 255, text |-> "visible"],
              [size |-> 256, text |-> "visible"], [size |-> 1024, text |-> "visible"],
              [size |-> 1025, text |-> "visible"], [size |-> 9, text |-> "edged"],
              [size |-> 9, text |-> "tab"], [size |-> 9, text |-> "opaque"]}

MCCommands ==
  [url : MCUrls, kind : {"page"}, validators : {None}]
    \cup [url : {MCPlain}, kind : {"feed", "page"},
          validators : {None, Null} \cup [etag : MCValidators \cup {None, Null}]]

MCHeaders == {[size |-> 255, text |-> "visible"], [size |-> 256, text |-> "visible"],
              [size |-> 1025, text |-> "visible"], [size |-> 9, text |-> "tab"]}

MCStatuses == {101, 200, 299, 300, 304, 307, 599, 600}

\* 1970-01-01, 01-31, 02-28, 03-01, 12-31; 2000-02-28, 02-29, 03-01; 2004-02-29;
\* 2099-12-31; 2100-02-28, 03-01; 2400-02-29.
MCDays == {0, 30, 58, 59, 364, 11015, 11016, 11017, 12477, 47481, 47540, 47541, 157113}
=============================================================================
