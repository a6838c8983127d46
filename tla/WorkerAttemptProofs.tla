-------------------------- MODULE WorkerAttemptProofs --------------------------
(***************************************************************************)
(* Proofs about WorkerAttempt and the contract it goes by, for texts of any *)
(* length, any headers, statuses and bounds, and every day to the end of    *)
(* the calendar.  First the contract: the hand-made scanner and the pattern *)
(* of the schema agree because neither leaves a choice where the authority  *)
(* ends.  Then the attempt: what it carries at each stage (FetchShape) and  *)
(* what its result says of it (ResultShape).                                *)
(***************************************************************************)
EXTENDS WorkerAttempt, FiniteSetTheorems, WellFoundedInduction, TLAPS

\* The least number principle, from the induction library.
LessThan == {p \in Nat \X Nat : p[1] < p[2]}
LEMMA LeastExists ==
  ASSUME NEW S \in SUBSET Nat, S # {}
  PROVE  \E n \in S : \A m \in S : n <= m
<1>1. OpToRel(<, Nat) = LessThan
  BY Zenon DEF OpToRel, LessThan
<1>2. IsWellFoundedOn(LessThan, Nat)
  BY <1>1, NatLessThanWellFounded
<1>3. PICK n \in S : \A m \in S : <<m, n>> \notin LessThan
  BY <1>2, WFMin
<1>4. \A m \in S : m < n => <<m, n>> \in LessThan
  <2> SUFFICES ASSUME NEW m \in Nat, m < n PROVE <<m, n>> \in LessThan
    OBVIOUS
  <2>1. <<m, n>> \in Nat \X Nat /\ <<m, n>>[1] < <<m, n>>[2]
    OBVIOUS
  <2>2. QED
    BY <2>1, Zenon DEF LessThan
<1>5. \A m \in S : ~(m < n)
  BY <1>3, <1>4, Zenon
<1>6. QED
  BY <1>5

\* Induction over the naturals, of a property given as a set.
LEMMA NatSetInduction ==
  ASSUME NEW S, 0 \in S, \A n \in Nat : n \in S => n + 1 \in S
  PROVE  Nat \subseteq S
<1> SUFFICES ASSUME Nat \ S # {} PROVE FALSE
  OBVIOUS
<1>1. PICK n \in Nat \ S : \A m \in Nat \ S : n <= m
  BY LeastExists
<1>2. n # 0 /\ n - 1 \in Nat /\ n - 1 + 1 = n
  BY <1>1
<1>3. n - 1 \in S
  BY <1>1, <1>2
<1>4. QED
  BY <1>1, <1>2, <1>3

Text == Seq(Printable \cup {"unprintable"})

\* A name ends at n: what is before is its, what follows is not.
NameEnd(s, n) ==
  /\ \A i \in 1 .. n : s[i] \in RegName
  /\ n < Len(s) => s[n + 1] \notin RegName

\* Every text has one such n, 0 included: the CHOOSE of AuthorityEnd is
\* over a non-empty set.
LEMMA NameEndExists ==
  ASSUME NEW s \in Text
  PROVE  \E n \in 0 .. Len(s) : NameEnd(s, n)
<1> DEFINE S == {k \in 0 .. Len(s) : k < Len(s) => s[k + 1] \notin RegName}
<1>1. S \in SUBSET Nat /\ Len(s) \in S
  BY DEF Text
<1>2. PICK n \in S : \A m \in S : n <= m
  BY <1>1, LeastExists
<1>3. ASSUME NEW i \in 1 .. n
      PROVE  s[i] \in RegName
  <2>1. i - 1 \in 0 .. Len(s) /\ i - 1 < Len(s) /\ (i - 1) + 1 = i /\ ~(n <= i - 1)
    BY DEF Text
  <2>2. i - 1 \notin S
    BY <1>2, <2>1
  <2>3. QED
    BY <2>1, <2>2
<1>4. QED
  BY <1>3 DEF NameEnd

\* And only one: the scanner is deterministic.
LEMMA NameEndUnique ==
  ASSUME NEW s \in Text, NEW n \in 0 .. Len(s), NEW m \in 0 .. Len(s),
         NameEnd(s, n), NameEnd(s, m)
  PROVE  n = m
<1>1. ~(n < m)
  BY DEF NameEnd, Text
<1>2. ~(m < n)
  BY DEF NameEnd, Text
<1>3. QED
  BY <1>1, <1>2 DEF Text

\* The bracket find(']') finds.
FirstClose(s, c) == s[c] = "]" /\ \A j \in 1 .. (c - 1) : s[j] # "]"

\* A text with a closing bracket has a first one ...
LEMMA FirstCloseExists ==
  ASSUME NEW s \in Text, NEW i \in DOMAIN s, s[i] = "]"
  PROVE  \E c \in DOMAIN s : FirstClose(s, c)
<1> DEFINE S == {k \in DOMAIN s : s[k] = "]"}
<1>1. S \in SUBSET Nat /\ i \in S
  BY DEF Text
<1>2. PICK c \in S : \A m \in S : c <= m
  BY <1>1, LeastExists
<1>3. \A j \in 1 .. (c - 1) : j \in DOMAIN s /\ ~(c <= j)
  BY DEF Text
<1>4. \A j \in 1 .. (c - 1) : s[j] # "]"
  BY <1>2, <1>3
<1>5. QED
  BY <1>2, <1>4 DEF FirstClose

\* ... and only one first.
LEMMA FirstCloseUnique ==
  ASSUME NEW s \in Text, NEW c \in DOMAIN s, NEW d \in DOMAIN s,
         FirstClose(s, c), FirstClose(s, d)
  PROVE  c = d
<1>1. ~(c < d) /\ ~(d < c)
  BY DEF FirstClose, Text
<1>2. QED
  BY <1>1 DEF Text

\* What the scanner takes for a name.
LEMMA NameAuthority ==
  ASSUME NEW s \in Text, s = <<>> \/ s[1] # "[", NEW n \in 0 .. Len(s), NameEnd(s, n)
  PROVE  AuthorityEnd(s) = n
<1> DEFINE e == CHOOSE k \in 0 .. Len(s) : NameEnd(s, k)
<1>1. e \in 0 .. Len(s) /\ NameEnd(s, e)
  <2>1. \E k \in 0 .. Len(s) : NameEnd(s, k)
    OBVIOUS
  <2>2. QED
    BY <2>1, Zenon
<1>2. e = n
  BY <1>1, NameEndUnique
<1>3. AuthorityEnd(s) = e
  BY DEF AuthorityEnd, NameEnd
<1>4. QED
  BY <1>2, <1>3

\* What the scanner takes for an address literal.
LEMMA LiteralAuthority ==
  ASSUME NEW s \in Text, s # <<>>, s[1] = "["
  PROVE  \/ \E c \in DOMAIN s :
              /\ FirstClose(s, c)
              /\ AuthorityEnd(s) =
                   IF c > 2 /\ (\A i \in 2 .. (c - 1) : s[i] \in Literal) THEN c ELSE 0
         \/ (\A i \in DOMAIN s : s[i] # "]") /\ AuthorityEnd(s) = 0
<1> DEFINE close == CHOOSE i \in DOMAIN s : FirstClose(s, i)
<1>1. AuthorityEnd(s) = IF /\ \E i \in DOMAIN s : s[i] = "]"
                           /\ close > 2
                           /\ \A i \in 2 .. (close - 1) : s[i] \in Literal
                          THEN close ELSE 0
  BY DEF AuthorityEnd, FirstClose
<1>2. CASE \A i \in DOMAIN s : s[i] # "]"
  BY <1>1, <1>2
<1>3. ASSUME NEW i \in DOMAIN s, s[i] = "]"
      PROVE  close \in DOMAIN s /\ FirstClose(s, close)
  <2>1. \E k \in DOMAIN s : FirstClose(s, k)
    BY <1>3, FirstCloseExists
  <2>2. QED
    BY <2>1, Zenon
<1>4. QED
  BY <1>1, <1>2, <1>3

\* What the scanner and the pattern take for an authority that ends at a.
IsAuthority(s, a) ==
  \/ a > 2 /\ s[1] = "[" /\ s[a] = "]" /\ (\A i \in 2 .. (a - 1) : s[i] \in Literal)
  \/ \A i \in 1 .. a : s[i] \in RegName
IsPort(s, a, p) == p = a \/ (p = a + 2 /\ s[a + 1] = ":" /\ s[p] \in Ports)

\* What the scanner takes for an authority is one for the pattern.
LEMMA ScannedIsAuthority ==
  ASSUME NEW s \in Text, AuthorityEnd(s) > 0
  PROVE  AuthorityEnd(s) \in DOMAIN s /\ IsAuthority(s, AuthorityEnd(s))
<1>1. CASE s = <<>> \/ s[1] # "["
  <2>1. PICK n \in 0 .. Len(s) : NameEnd(s, n)
    BY NameEndExists
  <2>2. AuthorityEnd(s) = n
    BY <1>1, <2>1, NameAuthority
  <2>3. QED
    BY <2>1, <2>2 DEF NameEnd, IsAuthority, Text
<1>2. CASE s # <<>> /\ s[1] = "["
  <2>1. PICK c \in DOMAIN s :
          /\ FirstClose(s, c)
          /\ AuthorityEnd(s) = IF c > 2 /\ (\A i \in 2 .. (c - 1) : s[i] \in Literal) THEN c ELSE 0
    BY <1>2, LiteralAuthority
  <2>2. AuthorityEnd(s) = c /\ c > 2 /\ (\A i \in 2 .. (c - 1) : s[i] \in Literal)
    BY <2>1
  <2>3. QED
    BY <1>2, <2>1, <2>2 DEF IsAuthority, FirstClose
<1>3. QED
  BY <1>1, <1>2

\* What follows the first a characters begins like this, if anything does.
Begins(s, a, first) == a < Len(s) => s[a + 1] \in first

\* An authority of the pattern that a port or a tail may follow is where the
\* scanner stops: the pattern has no second way to cut the text.
LEMMA AuthorityIsScanned ==
  ASSUME NEW s \in Text, NEW a \in DOMAIN s, IsAuthority(s, a), Begins(s, a, {"/", "?", "#", ":"})
  PROVE  AuthorityEnd(s) = a
<1>1. a \in 1 .. Len(s) /\ Len(s) \in Nat /\ s # <<>>
  BY DEF Text
<1>2. CASE s[1] = "["
  <2>1. a > 2 /\ s[a] = "]" /\ (\A i \in 2 .. (a - 1) : s[i] \in Literal)
    BY <1>1, <1>2 DEF IsAuthority, RegName
  <2>2. FirstClose(s, a)
    <3>1. \A j \in 1 .. (a - 1) : j = 1 \/ s[j] \in Literal
      BY <1>1, <2>1
    <3>2. QED
      BY <1>2, <2>1, <3>1 DEF FirstClose, Literal
  <2>3. PICK c \in DOMAIN s :
          /\ FirstClose(s, c)
          /\ AuthorityEnd(s) = IF c > 2 /\ (\A i \in 2 .. (c - 1) : s[i] \in Literal) THEN c ELSE 0
    BY <1>1, <1>2, <2>1, LiteralAuthority
  <2>4. c = a
    BY <2>2, <2>3, FirstCloseUnique
  <2>5. QED
    BY <2>1, <2>3, <2>4
<1>3. CASE s[1] # "["
  <2>1. \A i \in 1 .. a : s[i] \in RegName
    BY <1>3 DEF IsAuthority
  <2>2. NameEnd(s, a)
    BY <2>1 DEF NameEnd, Begins, RegName
  <2>3. QED
    BY <1>1, <1>3, <2>2, NameAuthority
<1>4. QED
  BY <1>2, <1>3

\* "both runtimes must give the authority's verdict" (job.rs): the scanner of the
\* worker and the pattern of the schema accept the same URLs, of any length.
THEOREM UrlChecksAgree ==
  ASSUME NEW url, url.rest \in Text, NEW role \in {Request, FinalHop}
  PROVE  CheckUrl(url, role) <=> SchemaUrl(url, role)
<1> DEFINE s == url.rest
           a == AuthorityEnd(s)
           port == a < Len(s) /\ s[a + 1] = ":"
           Whole == url.fits /\ url.scheme \in {"http", "https"}
<1>1. SchemaUrl(url, role) <=>
        Whole /\ \E b, p \in DOMAIN s : IsAuthority(s, b) /\ IsPort(s, b, p) /\ TailFits(s, p, role)
  BY DEF SchemaUrl, IsAuthority, IsPort
<1>2. CheckUrl(url, role) <=>
        /\ Whole /\ a > 0
        /\ IF port THEN a + 2 <= Len(s) /\ s[a + 2] \in Ports /\ TailFits(s, a + 2, role)
                   ELSE TailFits(s, a, role)
  BY DEF CheckUrl
<1>3. role.first \subseteq {"/", "?", "#"}
  BY DEF Request, FinalHop
<1>4. ASSUME CheckUrl(url, role)
      PROVE  SchemaUrl(url, role)
  <2>1. a \in DOMAIN s /\ IsAuthority(s, a)
    BY <1>2, <1>4, ScannedIsAuthority
  <2>2. CASE port
    <3>1. a + 2 \in DOMAIN s /\ IsPort(s, a, a + 2)
      BY <1>2, <1>4, <2>1, <2>2 DEF IsPort, Text
    <3>2. TailFits(s, a + 2, role)
      BY <1>2, <1>4, <2>2
    <3>3. QED
      BY <1>1, <1>2, <1>4, <2>1, <3>1, <3>2
  <2>3. CASE ~port
    <3>1. IsPort(s, a, a) /\ TailFits(s, a, role)
      BY <1>2, <1>4, <2>3 DEF IsPort
    <3>2. QED
      BY <1>1, <1>2, <1>4, <2>1, <3>1
  <2>4. QED
    BY <2>2, <2>3
<1>5. ASSUME SchemaUrl(url, role)
      PROVE  CheckUrl(url, role)
  <2>1. PICK b \in DOMAIN s, p \in DOMAIN s :
          IsAuthority(s, b) /\ IsPort(s, b, p) /\ TailFits(s, p, role)
    BY <1>1, <1>5
  <2>2. b \in 1 .. Len(s) /\ Len(s) \in Nat /\ p \in 1 .. Len(s)
    BY DEF Text
  <2>3. CASE p = b
    <3>1. b < Len(s) => s[b + 1] \in role.first
      BY <2>1, <2>3 DEF TailFits
    <3>2. Begins(s, b, {"/", "?", "#", ":"}) /\ (b < Len(s) => s[b + 1] # ":")
      BY <1>3, <3>1 DEF Begins
    <3>3. a = b
      BY <2>1, <3>2, AuthorityIsScanned
    <3>4. QED
      BY <1>1, <1>2, <1>5, <2>1, <2>2, <2>3, <3>2, <3>3
  <2>4. CASE p = b + 2 /\ s[b + 1] = ":" /\ s[p] \in Ports
    <3>1. Begins(s, b, {"/", "?", "#", ":"})
      BY <2>4 DEF Begins
    <3>2. a = b
      BY <2>1, <3>1, AuthorityIsScanned
    <3>3. QED
      BY <1>1, <1>2, <1>5, <2>1, <2>2, <2>4, <3>2
  <2>5. QED
    BY <2>1, <2>3, <2>4 DEF IsPort
<1>6. QED
  BY <1>4, <1>5

\* A target without a fragment prints as a URL the final hop may have.
LEMMA TargetIsPrinted ==
  ASSUME NEW t \in Targets, ~t.fragment
  PROVE  /\ AsStr(t) \in [scheme : {"http", "https"}, fits : {TRUE}, rest : Seq(Printable)]
         /\ CheckUrl(AsStr(t), FinalHop)
<1> DEFINE host == IF t.host = "name" THEN <<"g">> ELSE <<"[", ":", "a", "]">>
           s == host \o <<"/">>
<1>1. /\ AsStr(t) = [scheme |-> t.scheme, fits |-> TRUE, rest |-> s]
      /\ t.scheme \in {"http", "https"}
  BY DEF AsStr, Targets
<1>2. s \in Seq(Printable)
  <2>1. {"[", ":", "a", "]", "g", "/"} \subseteq Printable
    BY DEF Printable, Literal, RegName
  <2>2. {<<"g">>, <<"[", ":", "a", "]">>, <<"/">>} \subseteq Seq(Printable)
    BY <2>1
  <2>3. QED
    BY <2>2
<1>3. \E a \in DOMAIN s :
        /\ \/ a > 2 /\ s[1] = "[" /\ s[a] = "]" /\ (\A i \in 2 .. (a - 1) : s[i] \in Literal)
           \/ \A i \in 1 .. a : s[i] \in RegName
        /\ TailFits(s, a, FinalHop)
  <2>1. CASE t.host = "name"
    <3>1. Len(s) = 2 /\ s[1] = "g" /\ s[2] = "/" /\ 1 \in DOMAIN s
      BY <2>1
    <3>2. (\A i \in 1 .. 1 : s[i] \in RegName) /\ TailFits(s, 1, FinalHop)
      BY <3>1 DEF RegName, TailFits, FinalHop
    <3>3. QED
      BY <3>1, <3>2
  <2>2. CASE t.host # "name"
    <3>1. /\ Len(s) = 5 /\ 4 \in DOMAIN s
          /\ s[1] = "[" /\ s[2] = ":" /\ s[3] = "a" /\ s[4] = "]" /\ s[5] = "/"
      BY <2>2
    <3>2. (\A i \in 2 .. 3 : s[i] \in Literal) /\ TailFits(s, 4, FinalHop)
      BY <3>1 DEF Literal, TailFits, FinalHop
    <3>3. QED
      BY <3>1, <3>2
  <2>3. QED
    BY <2>1, <2>2
<1> HIDE DEF s
<1>4. SchemaUrl(AsStr(t), FinalHop)
  BY <1>1, <1>3 DEF SchemaUrl
<1>5. AsStr(t).rest \in Text
  BY <1>1, <1>2 DEF Text
<1>6. QED
  BY <1>1, <1>2, <1>4, <1>5, UrlChecksAgree

\* A command the schema accepts is valid for the worker.
LEMMA AcceptedIsValid ==
  ASSUME NEW c, c.url.rest \in Text, SchemaCommand(c)
  PROVE  ValidCommand(c)
<1>1. CheckUrl(c.url, Request)
  BY UrlChecksAgree DEF SchemaCommand
<1>2. QED
  BY <1>1 DEF SchemaCommand, ValidCommand

\* An outcome valid for the worker is one of the schema.
LEMMA ValidIsSchemaOutcome ==
  ASSUME NEW o \in Outcomes, ValidOutcome(o)
  PROVE  SchemaOutcome(o)
<1>1. o.finalUrl.rest \in Text
  BY DEF Outcomes, Text
<1>2. SchemaUrl(o.finalUrl, FinalHop)
  BY <1>1, UrlChecksAgree DEF ValidOutcome
<1>3. 304 \notin Success
  BY DEF Success
<1>4. o.body = None \/ o.body \in 0 .. MaxBodyBytes
  BY DEF Outcomes
<1>5. o.redirects \in 0 .. MaxRedirects /\ o.notModified \in BOOLEAN
  BY DEF Outcomes
<1>6. /\ o.httpStatus \in Final
      /\ o.body # None => o.httpStatus \in Success
      /\ o.etag # None => CheckHeader(o.etag, 1024)
      /\ o.contentType # None => CheckHeader(o.contentType, 255)
  BY DEF ValidOutcome
<1>7. o.notModified = (o.httpStatus = 304)
  BY DEF ValidOutcome
<1>8. IF o.notModified THEN o.httpStatus = 304 /\ o.body = None ELSE o.httpStatus # 304
  <2>1. CASE o.httpStatus = 304
    <3>1. o.notModified
      BY <1>7, <2>1
    <3>2. o.body = None
      BY <1>3, <1>6, <2>1
    <3>3. QED
      BY <2>1, <3>1, <3>2
  <2>2. CASE o.httpStatus # 304
    <3>1. ~o.notModified
      BY <1>7, <2>2
    <3>2. QED
      BY <2>2, <3>1
  <2>3. QED
    BY <2>1, <2>2
<1>9. QED
  BY <1>2, <1>4, <1>5, <1>6, <1>8 DEF SchemaOutcome

\* rfc3339 never leaves the calendar the contract checks dates against, from
\* 1970 to the last day of 9999: its months and days exist, and it gives
\* February 29 days in leap years only.
THEOREM CivilIsDate ==
  ASSUME NEW days \in Nat, days <= 2932896
  PROVE  ValidDate(Civil(days))
<1> DEFINE z == days + 719468
           era == z \div 146097
           doe == z % 146097
           yoe == (doe - doe \div 1460 + doe \div 36524 - doe \div 146096) \div 365
           doy == doe - (365 * yoe + yoe \div 4 - yoe \div 100)
           mp == (5 * doy + 2) \div 153
           month == IF mp < 10 THEN mp + 3 ELSE mp - 9
           year == yoe + era * 400 + (IF month <= 2 THEN 1 ELSE 0)
           day == doy - (153 * mp + 2) \div 5 + 1
<1>1. /\ z \in Nat /\ era \in Nat /\ era <= 24
      /\ doe \in Nat /\ doe <= 146096 /\ era * 146097 + doe <= 3652364
  BY SMT
<1>2. yoe \in Nat /\ yoe <= 399
  BY <1>1, SMT
<1>3. doy \in Nat /\ doy <= 365
  BY <1>1, <1>2, SMT
<1>4. doy = 365 => (yoe + 1) % 4 = 0 /\ ((yoe + 1) % 100 # 0 \/ (yoe + 1) % 400 = 0)
  BY <1>1, <1>2, SMT
<1>5. era = 24 /\ yoe = 399 => doy <= 305
  BY <1>1, <1>2, SMT
<1> HIDE DEF z, era, doe, yoe, doy
<1>6. mp \in Nat /\ mp <= 11 /\ month \in 1 .. 12 /\ day \in 1 .. 31
  BY <1>3, SMT
<1>7. /\ month \in {4, 6, 9, 11} => day <= 30
      /\ month = 2 => day <= 29 /\ (day = 29 => doy = 365)
  BY <1>3, SMT
<1>8. doy <= 305 => month > 2
  BY <1>3, SMT
<1> HIDE DEF mp, day
<1>9. month = 2 /\ day = 29 => year % 4 = 0 /\ (year % 100 # 0 \/ year % 400 = 0)
  BY <1>1, <1>2, <1>4, <1>7, SMT
<1>10. year \in Nat /\ year <= 9999
  BY <1>1, <1>2, <1>5, <1>6, <1>8, SMT
<1> HIDE DEF month, year
<1>11. day \in 1 .. DaysInMonth(year, month)
  BY <1>6, <1>7, <1>9, <1>10, SMT DEF DaysInMonth
<1>12. Civil(days) = [year |-> year, month |-> month, day |-> day]
  BY SMT DEF Civil, z, era, doe, yoe, doy, mp, month, year, day
<1>13. QED
  BY <1>10, <1>11, <1>12, SMT DEF ValidDate

\* The leap years of the rule from 1970 on, in closed form.
Leaps(year) == year \div 4 - year \div 100 + year \div 400 - 477
LEMMA LeapYearsCounted ==
  ASSUME NEW n \in Nat
  PROVE  /\ IsFiniteSet(LeapYears(1970 + n))
         /\ Cardinality(LeapYears(1970 + n)) = Leaps(1969 + n)
<1> DEFINE S == {k \in Nat : /\ IsFiniteSet(LeapYears(1970 + k))
                             /\ Cardinality(LeapYears(1970 + k)) = Leaps(1969 + k)}
<1>1. 0 \in S
  <2>1. LeapYears(1970) = {}
    BY SMT DEF LeapYears
  <2>2. Leaps(1969) = 0
    BY SMT DEF Leaps
  <2>3. 1970 + 0 = 1970 /\ 1969 + 0 = 1969 /\ 0 \in Nat
    BY SMT
  <2>4. IsFiniteSet(LeapYears(1970)) /\ Cardinality(LeapYears(1970)) = Leaps(1969)
    <3>1. IsFiniteSet({}) /\ Cardinality({}) = 0
      BY FS_EmptySet
    <3>2. QED
      BY <2>1, <2>2, <3>1, SMT
  <2>5. QED
    BY <2>3, <2>4
<1>2. ASSUME NEW k \in Nat, k \in S PROVE k + 1 \in S
  <2> DEFINE y == 1970 + k
  <2>1. DaysInMonth(y, 2) = IF y % 4 = 0 /\ (y % 100 # 0 \/ y % 400 = 0) THEN 29 ELSE 28
    BY SMT DEF DaysInMonth
  <2>2. LeapYears(y + 1) =
          IF DaysInMonth(y, 2) = 29 THEN LeapYears(y) \cup {y} ELSE LeapYears(y)
    BY SMT DEF LeapYears
  <2>3. y \notin LeapYears(y)
    BY SMT DEF LeapYears
  <2>4. Leaps(y) = IF DaysInMonth(y, 2) = 29 THEN Leaps(y - 1) + 1 ELSE Leaps(y - 1)
    BY <2>1, SMT DEF Leaps
  <2>5. 1970 + (k + 1) = y + 1 /\ 1969 + (k + 1) = y /\ 1969 + k = y - 1 /\ k + 1 \in Nat
    BY SMT
  <2>6. IsFiniteSet(LeapYears(y)) /\ Cardinality(LeapYears(y)) = Leaps(y - 1)
    BY <1>2, <2>5
  <2>7. IsFiniteSet(LeapYears(y + 1)) /\ Cardinality(LeapYears(y + 1)) = Leaps(y)
    BY <2>2, <2>3, <2>4, <2>6, FS_AddElement
  <2>8. QED
    BY <2>5, <2>7
<1> HIDE DEF S
<1>3. n \in S
  BY <1>1, <1>2, NatSetInduction
<1>4. QED
  BY <1>3 DEF S

\* A column of pairs has as many as its interval.
LEMMA ColumnCounted ==
  ASSUME NEW a, NEW n \in Nat
  PROVE  IsFiniteSet({a} \X (1 .. n)) /\ Cardinality({a} \X (1 .. n)) = n
<1>1. IsFiniteSet({a}) /\ Cardinality({a}) = 1
  BY FS_Singleton
<1>2. IsFiniteSet(1 .. n) /\ Cardinality(1 .. n) = IF 1 > n THEN 0 ELSE n - 1 + 1
  BY FS_Interval
<1>3. Cardinality(1 .. n) = n
  BY <1>2
<1> DEFINE interval == 1 .. n
<1>4. IsFiniteSet(interval) /\ Cardinality(interval) = n
  BY <1>2, <1>3
<1> HIDE DEF interval
<1>5. IsFiniteSet({a} \X interval) /\ Cardinality({a} \X interval) = 1 * n
  BY <1>1, <1>4, FS_Product
<1>6. QED
  BY <1>5 DEF interval

\* A month adds its days.
LEMMA MonthAdds ==
  ASSUME NEW year \in Nat, NEW m \in 1 .. 11, IsFiniteSet(DaysOfMonths(year, m))
  PROVE  /\ IsFiniteSet(DaysOfMonths(year, m + 1))
         /\ Cardinality(DaysOfMonths(year, m + 1)) =
              Cardinality(DaysOfMonths(year, m)) + DaysInMonth(year, m)
<1> DEFINE length == DaysInMonth(year, m)
           days == {m} \X (1 .. length)
<1>1. length \in 1 .. 31
  BY SMT DEF DaysInMonth
<1> HIDE DEF length
<1>2. IsFiniteSet(days) /\ Cardinality(days) = length
  <2>1. length \in Nat
    BY <1>1
  <2>2. QED
    BY <2>1, ColumnCounted, Zenon
<1>3. DaysOfMonths(year, m + 1) = DaysOfMonths(year, m) \cup days
  BY <1>1 DEF DaysOfMonths, length
<1>4. DaysOfMonths(year, m) \cap days = {}
  BY DEF DaysOfMonths
<1>5. Cardinality(DaysOfMonths(year, m)) \in Nat /\ Cardinality({}) = 0
  BY FS_CardinalityType, FS_EmptySet
<1> HIDE DEF days
<1>6. /\ IsFiniteSet(DaysOfMonths(year, m) \cup days)
      /\ Cardinality(DaysOfMonths(year, m) \cup days) =
           Cardinality(DaysOfMonths(year, m)) + length - 0
  BY <1>2, <1>4, <1>5, FS_Union
<1>7. Cardinality(DaysOfMonths(year, m) \cup days) =
        Cardinality(DaysOfMonths(year, m)) + length
  BY <1>1, <1>5, <1>6
<1>8. QED
  BY <1>3, <1>6, <1>7, Zenon DEF length

\* The days before the first of a month: March has two months before it, and
\* from there on 153 days are five months.
Leap(year) == IF year % 4 = 0 /\ (year % 100 # 0 \/ year % 400 = 0) THEN 1 ELSE 0
MonthStart(year, m) ==
  IF m <= 2 THEN 31 * (m - 1) ELSE 59 + Leap(year) + (153 * (m - 3) + 2) \div 5
LEMMA MonthsCounted ==
  ASSUME NEW year \in Nat, NEW m \in 1 .. 12
  PROVE  Cardinality(DaysOfMonths(year, m)) = MonthStart(year, m)
<1> DEFINE Counted(k) == /\ IsFiniteSet(DaysOfMonths(year, k))
                         /\ Cardinality(DaysOfMonths(year, k)) = MonthStart(year, k)
           S == {k \in Nat : k \in 1 .. 12 => Counted(k)}
<1>1. Counted(1)
  <2>1. DaysOfMonths(year, 1) = {} /\ MonthStart(year, 1) = 0
    BY DEF DaysOfMonths, MonthStart
  <2>2. QED
    BY <2>1, FS_EmptySet
<1>2. ASSUME NEW k \in 1 .. 11, Counted(k) PROVE Counted(k + 1)
  <2>1. MonthStart(year, k + 1) = MonthStart(year, k) + DaysInMonth(year, k)
    BY SMT DEF MonthStart, DaysInMonth, Leap
  <2>2. QED
    BY <1>2, <2>1, MonthAdds
<1>3. \A k \in Nat : k \in S => k + 1 \in S
  BY <1>1, <1>2
<1>4. 0 \in S
  OBVIOUS
<1> HIDE DEF S
<1>5. m \in S
  BY <1>3, <1>4, NatSetInduction
<1>6. QED
  BY <1>5 DEF S

\* rfc3339 gives every day the date that has as many days before it, from 1970
\* to the end of 9999.
THEOREM CivilIsDayAfterDay ==
  ASSUME NEW days \in Nat, days <= 2932896
  PROVE  DaysBefore(Civil(days)) = days
<1> DEFINE z == days + 719468
           era == z \div 146097
           doe == z % 146097
           yoe == (doe - doe \div 1460 + doe \div 36524 - doe \div 146096) \div 365
           doy == doe - (365 * yoe + yoe \div 4 - yoe \div 100)
           mp == (5 * doy + 2) \div 153
           month == IF mp < 10 THEN mp + 3 ELSE mp - 9
           year == yoe + era * 400 + (IF month <= 2 THEN 1 ELSE 0)
           day == doy - (153 * mp + 2) \div 5 + 1
<1>1. /\ z \in Nat /\ era \in Nat /\ era <= 24 /\ era >= 4
      /\ doe \in Nat /\ doe <= 146096 /\ era * 146097 + doe = days + 719468
  BY SMT
<1>2. yoe \in Nat /\ yoe <= 399
  BY <1>1, SMT
<1>3. doy \in Nat /\ doy <= 365 /\ doe = doy + 365 * yoe + yoe \div 4 - yoe \div 100
  BY <1>1, <1>2, SMT
<1>4. era = 4 => yoe >= 370 \/ (yoe = 369 /\ doy >= 306)
  BY <1>1, <1>2, <1>3, SMT
<1> HIDE DEF z, era, doe, yoe, doy
<1>5. mp \in Nat /\ mp <= 11 /\ month \in 1 .. 12
  BY <1>3, SMT
<1>6. mp >= 10 <=> doy >= 306
  BY <1>3, SMT
<1>7. Civil(days) = [year |-> year, month |-> month, day |-> day]
  BY SMT DEF Civil, z, era, doe, yoe, doy, mp, month, year, day
<1> DEFINE march == yoe + era * 400
<1>8. march \in Nat /\ year \in {march, march + 1}
  BY <1>1, <1>2, <1>5, SMT
<1>9. year >= 1970
  BY <1>1, <1>2, <1>3, <1>4, <1>5, <1>6, SMT
<1>10. march \div 4 - march \div 100 + march \div 400 = yoe \div 4 - yoe \div 100 + 97 * era
  BY <1>1, <1>2, SMT
<1>11. 365 * (year - 1970) + Leaps(year - 1) + MonthStart(year, month) + day - 1 = days
  <2>1. CASE mp < 10
    BY <1>1, <1>2, <1>3, <1>5, <1>8, <1>10, <2>1, SMT DEF Leaps, MonthStart, Leap
  <2>2. CASE mp >= 10
    BY <1>1, <1>2, <1>3, <1>5, <1>8, <1>10, <2>2, SMT DEF Leaps, MonthStart, Leap
  <2>3. QED
    BY <1>5, <2>1, <2>2, SMT
<1>12. year \in Nat
  BY <1>8, SMT
<1> HIDE DEF mp, month, year, day, march
<1>13. Cardinality(LeapYears(year)) = Leaps(year - 1)
  <2> DEFINE n == year - 1970
  <2>1. n \in Nat /\ 1970 + n = year /\ 1969 + n = year - 1
    BY <1>9, <1>12, SMT
  <2> HIDE DEF n
  <2>2. Cardinality(LeapYears(1970 + n)) = Leaps(1969 + n)
    BY <2>1, LeapYearsCounted, SMT
  <2>3. QED
    BY <2>1, <2>2, SMT
<1>14. Cardinality(DaysOfMonths(year, month)) = MonthStart(year, month)
  BY <1>5, <1>12, MonthsCounted, SMT
<1>15. QED
  BY <1>7, <1>11, <1>13, <1>14, SMT DEF DaysBefore

-----------------------------------------------------------------------------
(* The attempt: what it carries at each stage.                             *)

\* A command is stored as the schema accepts it, and kept until it is parsed.
CommandShape ==
  /\ stage \in {"sent", "queued", "loaded"} => command \in Commands
  /\ stage \in {"queued", "loaded"} => SchemaCommand(command)

\* A fetch that has not failed has a target without a fragment and, once it is
\* over, an answer; what it holds is within the bound of its request; and it
\* fails for no reason the checks before it exclude.
FetchShape ==
  /\ stage \in {"sent", "refused", "queued", "loaded"} => reason = None /\ held = 0
  /\ stage \in {"loaded", "hop", "reading", "fetched"} => request \in Requests
  /\ stage \in {"hop", "reading"} => reason = None
  /\ stage \in {"hop", "reading", "fetched", "built"} /\ reason = None =>
       target \in Targets /\ ~target.fragment
  /\ stage \in {"reading", "fetched", "built"} /\ reason = None => answer \in Answers
  /\ held > 0 => request \in Requests /\ held <= Bound
  /\ reason \notin Precluded

\* There is a result once it is built, and it says what the fetch came to.
ResultShape ==
  /\ stage \notin {"built", "recorded"} => result = None
  /\ stage = "built" =>
       \E today \in Days :
         result = IF reason = None THEN OutcomeResult(today) ELSE ReasonResult(reason, today)
  /\ stage = "recorded" => result.reasonCode \notin Precluded

IInv ==
  /\ TypeOK /\ CommandShape /\ FetchShape /\ ResultShape
  /\ RecordedIsContract /\ ExchangeIsRecorded

\* What the assumptions come to.
LEMMA Given ==
  /\ \A c \in Commands : c.kind \in {"feed", "page"} /\ c.url.rest \in Text
  /\ None \notin RefusedCodes \cup FailedCodes \cup Outcomes /\ None # Null
  /\ MaxBodyBytes \in Nat /\ FeedCeiling \in 1 .. MaxBodyBytes /\ MaxRedirects \in Nat
  /\ MaxFrame \in Nat
  /\ \A day \in Days : ValidDate(Civil(day))
<1>1. \A day \in Days : day \in Nat /\ day <= 2932896
  BY AttemptAssumption, SMT
<1>2. /\ \A c \in Commands : c.kind \in {"feed", "page"} /\ c.url.rest \in Text
      /\ None \notin RefusedCodes \cup FailedCodes \cup Outcomes
      /\ FeedCeiling \in 1 .. MaxBodyBytes /\ MaxFrame \in Nat
  BY AttemptAssumption, SMT DEF Text
<1>3. None # Null /\ MaxBodyBytes \in Nat /\ MaxRedirects \in Nat
  BY ContractAssumption, SMT
<1>4. \A day \in Days : ValidDate(Civil(day))
  BY <1>1, CivilIsDate, SMT
<1>5. QED
  BY <1>2, <1>3, <1>4

\* What a fetch may fail with.
Reasons == (RefusedCodes \cup FailedCodes) \ Precluded

\* A result with a reason is of the contract, whatever the reason.
LEMMA ReasonIsContract ==
  ASSUME NEW code \in RefusedCodes \cup FailedCodes, NEW today \in Days
  PROVE  /\ ValidResult(ReasonResult(code, today)) /\ SchemaResult(ReasonResult(code, today))
         /\ ReasonResult(code, today).status \in {"refused", "failed"}
         /\ ReasonResult(code, today).reasonCode = code
<1> DEFINE r == ReasonResult(code, today)
<1>1. /\ r.status = StatusOf(code) /\ r.reasonCode = code /\ r.outcome = None
      /\ r.completedAt = Civil(today)
  BY DEF ReasonResult
<1>2. ValidDate(r.completedAt) /\ code # None
  BY <1>1, Given
<1>3. \/ code \in RefusedCodes /\ StatusOf(code) = "refused"
      \/ code \in FailedCodes /\ StatusOf(code) = "failed"
  BY DEF StatusOf
<1> HIDE DEF r
<1>4. ValidResult(r) /\ SchemaResult(r) /\ r.status \in {"refused", "failed"}
  BY <1>1, <1>2, <1>3 DEF ValidResult, SchemaResult
<1>5. QED
  BY <1>1, <1>4 DEF r

\* The bound of a body is within the ceiling of the contract.
LEMMA BoundIsNat ==
  ASSUME request \in Requests
  PROVE  Bound \in Nat /\ Bound <= MaxBodyBytes
BY Given DEF Bound, Requests

\* What the worker builds of a fetch is what was exchanged; if it validates it is
\* of the contract, and it does for every status a result may carry.
LEMMA OutcomeIsContract ==
  ASSUME TypeOK, FetchShape, stage = "built", reason = None, NEW today \in Days
  PROVE  LET r == OutcomeResult(today)
         IN  /\ r.status = "succeeded" /\ r.reasonCode = None
             /\ r.outcome.httpStatus = answer.status /\ r.outcome.redirects = redirects
             /\ r.outcome.body = IF answer.status \in Success THEN held ELSE None
             /\ ValidResult(r) => SchemaResult(r)
             /\ answer.status \in Final => ValidResult(r)
<1> DEFINE r == OutcomeResult(today)
           o == r.outcome
<1>1. /\ r.status = "succeeded" /\ r.reasonCode = None /\ r.completedAt = Civil(today)
      /\ o = [finalUrl |-> AsStr(target), httpStatus |-> answer.status, redirects |-> redirects,
              notModified |-> answer.status = 304,
              etag |-> Recordable(answer.etag, 1024),
              contentType |-> Recordable(answer.contentType, 255),
              body |-> IF answer.status \in Success THEN held ELSE None]
  BY DEF OutcomeResult
<1> HIDE DEF r
<1>2. target \in Targets /\ ~target.fragment /\ answer \in Answers /\ redirects \in 0 .. MaxRedirects
  BY DEF FetchShape, TypeOK
<1>3. held \in 0 .. MaxBodyBytes
  <2>1. held \in Nat /\ (held > 0 => request \in Requests /\ held <= Bound)
    BY DEF TypeOK, FetchShape
  <2>2. QED
    BY <2>1, Given, BoundIsNat
<1>4. /\ Recordable(answer.etag, 1024) \in Headers \cup {None}
      /\ Recordable(answer.etag, 1024) # None => CheckHeader(Recordable(answer.etag, 1024), 1024)
      /\ Recordable(answer.contentType, 255) \in Headers \cup {None}
      /\ Recordable(answer.contentType, 255) # None => CheckHeader(Recordable(answer.contentType, 255), 255)
  BY <1>2 DEF Recordable, Answers
<1>5. /\ AsStr(target) \in [scheme : {"http", "https"}, fits : {TRUE}, rest : Seq(Printable)]
      /\ CheckUrl(AsStr(target), FinalHop)
  BY <1>2, TargetIsPrinted
<1>6. answer.status \in Statuses
  BY <1>2 DEF Answers
<1> HIDE DEF o
<1>7. o \in Outcomes
  <2> DEFINE Urls == [scheme : {"http", "https"}, fits : {TRUE}, rest : Seq(Printable)]
             url == AsStr(target)
             unmodified == answer.status = 304
             etag == Recordable(answer.etag, 1024)
             type == Recordable(answer.contentType, 255)
             body == IF answer.status \in Success THEN held ELSE None
  <2>1. body \in 0 .. MaxBodyBytes \cup {None}
    BY <1>3
  <2>2. url \in Urls /\ unmodified \in BOOLEAN
    BY <1>5
  <2>3. etag \in Headers \cup {None} /\ type \in Headers \cup {None}
    BY <1>4
  <2>4. o = [finalUrl |-> url, httpStatus |-> answer.status, redirects |-> redirects,
             notModified |-> unmodified, etag |-> etag, contentType |-> type, body |-> body]
    BY <1>1
  <2>5. Outcomes = [finalUrl : Urls, httpStatus : Statuses, redirects : 0 .. MaxRedirects,
                    notModified : BOOLEAN, etag : Headers \cup {None},
                    contentType : Headers \cup {None}, body : 0 .. MaxBodyBytes \cup {None}]
    BY DEF Outcomes
  <2> HIDE DEF Urls, url, unmodified, etag, type, body
  <2>6. QED
    BY <1>2, <1>6, <2>1, <2>2, <2>3, <2>4, <2>5
<1>8. o # None /\ ValidDate(r.completedAt)
  BY <1>1, <1>7, Given
<1>9. ValidResult(r) => SchemaResult(r)
  BY <1>1, <1>7, <1>8, ValidIsSchemaOutcome DEF ValidResult, SchemaResult, o
<1>10. ASSUME answer.status \in Final
       PROVE  ValidResult(r)
  <2>1. ValidOutcome(o)
    BY <1>1, <1>2, <1>3, <1>4, <1>5, <1>10, Given DEF ValidOutcome
  <2>2. QED
    BY <1>1, <1>8, <2>1 DEF ValidResult, o
<1>11. QED
  BY <1>1, <1>9, <1>10 DEF r, o

\* The policy gives a target, without its fragment, or a reason.
LEMMA Refusals ==
  ASSUME NEW p \in Parsed
  PROVE  IF Refusal(p) = None THEN TargetOf(p) \in Targets /\ ~TargetOf(p).fragment
                              ELSE Refusal(p) \in Reasons
<1>1. None \notin RefusedCodes
  BY Given
<1>2. QED
  BY <1>1 DEF Parsed, Refusal, TargetOf, Targets, Reasons, RefusedCodes, FailedCodes, Precluded

\* The errors of a hop are among them.
LEMMA HopErrorsAreReasons == HopErrors \subseteq Reasons
BY DEF HopErrors, Reasons, RefusedCodes, FailedCodes, Precluded

\* Until a result is built, what is said of results holds trivially.
LEMMA NoResultYet ==
  ASSUME stage' \notin {"built", "recorded"}, result' = None
  PROVE  ResultShape' /\ RecordedIsContract' /\ ExchangeIsRecorded'
BY DEF ResultShape, RecordedIsContract, ExchangeIsRecorded

\* A fetch that fails has nothing but its reason.
LEMMA FailureKeeps ==
  ASSUME IInv, NEW code \in Reasons, FetchFails(code), stage \in {"loaded", "hop", "reading"},
         command' \in {command, None}
  PROVE  IInv'
<1>1. code # None /\ code \in RefusedCodes \cup FailedCodes /\ code \notin Precluded
  BY Given DEF Reasons
<1>2. TypeOK'
  BY <1>1, Given DEF IInv, TypeOK, FetchFails, ResultShape
<1>3. CommandShape' /\ FetchShape'
  BY <1>1 DEF IInv, CommandShape, FetchShape, FetchFails, Precluded
<1>4. ResultShape' /\ RecordedIsContract' /\ ExchangeIsRecorded'
  BY NoResultYet DEF IInv, ResultShape, FetchFails
<1>5. QED
  BY <1>2, <1>3, <1>4 DEF IInv

\* An attempt begins with its command alone.
LEMMA InitKeeps == Init => IInv
<1> SUFFICES ASSUME Init PROVE IInv
  OBVIOUS
<1>1. TypeOK
  BY Given DEF Init, TypeOK
<1>2. CommandShape /\ FetchShape
  BY Given DEF Init, CommandShape, FetchShape, RefusedCodes, Precluded
<1>3. ResultShape /\ RecordedIsContract /\ ExchangeIsRecorded
  BY DEF Init, ResultShape, RecordedIsContract, ExchangeIsRecorded
<1>4. QED
  BY <1>1, <1>2, <1>3 DEF IInv

\* One lemma per action.  What is queued, the schema has accepted.
LEMMA EnqueueKeeps == IInv /\ Enqueue => IInv'
<1> SUFFICES ASSUME IInv, Enqueue PROVE IInv'
  OBVIOUS
<1>1. TypeOK'
  BY DEF IInv, Enqueue, exchange, TypeOK
<1>2. CommandShape' /\ FetchShape'
  BY DEF IInv, Enqueue, exchange, CommandShape, FetchShape, Bound
<1>3. ResultShape' /\ RecordedIsContract' /\ ExchangeIsRecorded'
  BY NoResultYet DEF IInv, Enqueue, ResultShape
<1>4. QED
  BY <1>1, <1>2, <1>3 DEF IInv

\* A stored command is valid, so it is never refused here.
LEMMA LoadKeeps == IInv /\ Load => IInv'
<1> SUFFICES ASSUME IInv, Load PROVE IInv'
  OBVIOUS
<1>1. command \in Commands /\ ValidCommand(command)
  BY Given, AcceptedIsValid DEF IInv, Load, CommandShape
<1>2. /\ stage' = "loaded" /\ request' \in Requests
      /\ UNCHANGED <<command, reason, result, exchange>>
  BY <1>1, Given DEF Load, Requests
<1>3. TypeOK'
  BY <1>2 DEF IInv, exchange, TypeOK
<1>4. CommandShape' /\ FetchShape'
  BY <1>2 DEF IInv, Load, exchange, CommandShape, FetchShape
<1>5. ResultShape' /\ RecordedIsContract' /\ ExchangeIsRecorded'
  BY <1>2, NoResultYet DEF IInv, Load, ResultShape
<1>6. QED
  BY <1>3, <1>4, <1>5 DEF IInv

\* The validators of an accepted command are headers for the fetcher.
LEMMA ValidatorsPass ==
  ASSUME NEW c, SchemaCommand(c), c.validators \notin {None, Null}
  PROVE  ValidatorAllowed(c.validators.etag)
<1>1. CheckHeader(c.validators.etag, 1024)
  BY DEF SchemaCommand
<1>2. ASSUME NEW max \in Nat, NEW value, CheckHeader(value, max)
      PROVE  value.size <= max /\ value.text = "visible"
  BY <1>2 DEF CheckHeader
<1>3. QED
  BY <1>1, <1>2 DEF ValidatorAllowed

\* The first hop has a target, or the fetch has failed.
LEMMA StartKeeps == IInv /\ Start => IInv'
<1> SUFFICES ASSUME IInv, Start PROVE IInv'
  OBVIOUS
<1>1. stage = "loaded" /\ command' = None
  BY DEF Start
<1>2. command.validators \notin {None, Null} => ValidatorAllowed(command.validators.etag)
  BY <1>1, ValidatorsPass DEF IInv, CommandShape
<1>3. CASE FetchFails("fetch.url_invalid")
  <2>1. "fetch.url_invalid" \in Reasons
    BY DEF Reasons, RefusedCodes, Precluded
  <2>2. QED
    BY <1>1, <1>3, <2>1, FailureKeeps
<1>4. CASE \E p \in Parsed : Refusal(p) # None /\ FetchFails(Refusal(p))
  BY <1>1, <1>4, Refusals, FailureKeeps
<1>5. ASSUME NEW p \in Parsed, Refusal(p) = None, stage' = "hop", target' = TargetOf(p),
             UNCHANGED <<request, redirects, answer, transferred, held, reason, result>>
      PROVE  IInv'
  <2>1. target' \in Targets /\ ~target'.fragment
    BY <1>5, Refusals
  <2>2. TypeOK'
    BY <1>1, <1>5, <2>1 DEF IInv, TypeOK
  <2>3. CommandShape' /\ FetchShape'
    BY <1>1, <1>5, <2>1 DEF IInv, CommandShape, FetchShape
  <2>4. ResultShape' /\ RecordedIsContract' /\ ExchangeIsRecorded'
    BY <1>1, <1>5, NoResultYet DEF IInv, ResultShape
  <2>5. QED
    BY <2>2, <2>3, <2>4 DEF IInv
<1>6. QED
  BY <1>2, <1>3, <1>4, <1>5 DEF Start

\* A hop that fails.
LEMMA HopFailsKeeps == IInv /\ HopFails => IInv'
BY FailureKeeps, HopErrorsAreReasons DEF HopFails

\* A redirect leads to another target, and no more than MaxRedirects do.
LEMMA FollowRedirectKeeps == IInv /\ FollowRedirect => IInv'
<1> SUFFICES ASSUME IInv, FollowRedirect PROVE IInv'
  OBVIOUS
<1>1. PICK p \in Parsed : Refusal(p) = None /\ Follow(p)
  BY DEF FollowRedirect
<1>2. target' \in Targets /\ ~target'.fragment
  BY <1>1, Refusals DEF Follow
<1>3. stage = "hop" /\ redirects' \in 0 .. MaxRedirects
  BY <1>1, Given DEF IInv, TypeOK, FollowRedirect, Follow
<1>4. TypeOK'
  BY <1>1, <1>2, <1>3 DEF IInv, TypeOK, Follow
<1>5. CommandShape' /\ FetchShape'
  BY <1>1, <1>2, <1>3 DEF IInv, CommandShape, FetchShape, Follow, Bound
<1>6. ResultShape' /\ RecordedIsContract' /\ ExchangeIsRecorded'
  BY <1>1, <1>3, NoResultYet DEF IInv, ResultShape, Follow
<1>7. QED
  BY <1>4, <1>5, <1>6 DEF IInv

\* One that is not followed.
LEMMA RefuseRedirectKeeps == IInv /\ RefuseRedirect => IInv'
<1> SUFFICES ASSUME IInv, RefuseRedirect PROVE IInv'
  OBVIOUS
<1>1. {"fetch.redirect_limit", "fetch.redirect_invalid", "fetch.redirect_downgrade"} \subseteq Reasons
  BY DEF Reasons, RefusedCodes, Precluded
<1>2. \E code \in Reasons : FetchFails(code)
  BY <1>1, Refusals DEF RefuseRedirect
<1>3. QED
  BY <1>2, FailureKeeps DEF RefuseRedirect

\* Any other answer ends the hops.
LEMMA AnsweredKeeps == IInv /\ Answered => IInv'
<1> SUFFICES ASSUME IInv, Answered PROVE IInv'
  OBVIOUS
<1>1. /\ stage = "hop" /\ stage' \in {"reading", "fetched"} /\ answer' \in Answers
      /\ UNCHANGED <<command, request, target, redirects, transferred, held, reason, result>>
  BY DEF Answered, FetchReturns
<1>2. TypeOK'
  BY <1>1 DEF IInv, TypeOK
<1>3. CommandShape' /\ FetchShape'
  BY <1>1 DEF IInv, CommandShape, FetchShape, Bound
<1>4. ResultShape' /\ RecordedIsContract' /\ ExchangeIsRecorded'
  BY <1>1, NoResultYet DEF IInv, ResultShape
<1>5. QED
  BY <1>2, <1>3, <1>4 DEF IInv

\* A body that is not read.
LEMMA RefuseBodyKeeps == IInv /\ RefuseBody => IInv'
<1>1. {"fetch.encoding_unsupported", "fetch.body_too_large"} \subseteq Reasons
  BY DEF Reasons, RefusedCodes, Precluded
<1>2. QED
  BY <1>1, FailureKeeps DEF RefuseBody

\* The sink refuses with a reason of the contract.
LEMMA TooLarge == "fetch.body_too_large" \in Reasons
BY DEF Reasons, RefusedCodes, Precluded

\* What a frame adds fits what the bound leaves.
LEMMA ReadFrameKeeps == IInv /\ ReadFrame => IInv'
<1> SUFFICES ASSUME IInv, ReadFrame PROVE IInv'
  OBVIOUS
<1>1. stage = "reading" /\ command' = command
  BY DEF ReadFrame
<1>2. CASE FetchFails("fetch.body_too_large")
  BY <1>1, <1>2, TooLarge, FailureKeeps
<1>3. ASSUME NEW n \in 1 .. MaxFrame, NEW decoded \in 0 .. MaxFrame, SinkTakes(decoded),
             transferred' = transferred + n, held' = held + decoded,
             UNCHANGED <<stage, request, target, redirects, answer, reason, result>>
      PROVE  IInv'
  <2>1. /\ transferred' \in Nat /\ held' \in Nat
        /\ request \in Requests /\ held' <= Bound
    BY <1>1, <1>3, BoundIsNat, Given DEF IInv, TypeOK, FetchShape, SinkTakes
  <2>2. TypeOK'
    BY <1>1, <1>3, <2>1 DEF IInv, TypeOK
  <2>3. CommandShape' /\ FetchShape'
    BY <1>1, <1>3, <2>1 DEF IInv, CommandShape, FetchShape, Bound
  <2>4. ResultShape' /\ RecordedIsContract' /\ ExchangeIsRecorded'
    BY <1>1, <1>3, NoResultYet DEF IInv, ResultShape
  <2>5. QED
    BY <2>2, <2>3, <2>4 DEF IInv
<1>4. QED
  BY <1>2, <1>3 DEF ReadFrame

\* So does what the decoder adds at the end.
LEMMA EndBodyKeeps == IInv /\ EndBody => IInv'
<1> SUFFICES ASSUME IInv, EndBody PROVE IInv'
  OBVIOUS
<1>1. stage = "reading" /\ command' = command
  BY DEF EndBody
<1>2. CASE FetchFails("fetch.body_too_large")
  BY <1>1, <1>2, TooLarge, FailureKeeps
<1>3. ASSUME NEW decoded \in 0 .. MaxFrame, SinkTakes(decoded), FetchReturns,
             transferred' = 0, held' = held + decoded, UNCHANGED <<target, redirects, answer>>
      PROVE  IInv'
  <2>1. held' \in Nat /\ request \in Requests /\ held' <= Bound
    BY <1>1, <1>3, BoundIsNat, Given DEF IInv, TypeOK, FetchShape, SinkTakes
  <2>2. TypeOK'
    BY <1>1, <1>3, <2>1 DEF IInv, TypeOK, FetchReturns
  <2>3. CommandShape' /\ FetchShape'
    BY <1>1, <1>3, <2>1 DEF IInv, CommandShape, FetchShape, Bound, FetchReturns
  <2>4. ResultShape' /\ RecordedIsContract' /\ ExchangeIsRecorded'
    BY <1>1, <1>3, NoResultYet DEF IInv, ResultShape, FetchReturns
  <2>5. QED
    BY <2>2, <2>3, <2>4 DEF IInv
<1>4. QED
  BY <1>2, <1>3 DEF EndBody

\* A body that breaks off.
LEMMA BodyBreaksKeeps == IInv /\ BodyBreaks => IInv'
<1>1. {"fetch.http_protocol", "fetch.decoding_failed"} \subseteq Reasons
  BY DEF Reasons, FailedCodes, Precluded
<1>2. QED
  BY <1>1, FailureKeeps DEF BodyBreaks

\* The total timeout.
LEMMA TimeOutKeeps == IInv /\ TimeOut => IInv'
<1>1. "fetch.total_timeout" \in Reasons
  BY DEF Reasons, FailedCodes, Precluded
<1>2. QED
  BY <1>1, FailureKeeps DEF TimeOut

\* A fetch is settled by what it came to.
LEMMA SettleKeeps == IInv /\ Settle => IInv'
<1> SUFFICES ASSUME IInv, Settle PROVE IInv'
  OBVIOUS
<1>1. /\ stage = "fetched" /\ stage' \in {"released", "built"}
      /\ UNCHANGED <<command, request, reason, target, redirects, answer, transferred, held>>
  BY DEF Settle, exchange
<1>2. CommandShape' /\ FetchShape'
  BY <1>1 DEF IInv, CommandShape, FetchShape, Bound
<1>3. RecordedIsContract' /\ ExchangeIsRecorded'
  BY <1>1 DEF RecordedIsContract, ExchangeIsRecorded
<1>4. CASE stage' = "released" /\ UNCHANGED result
  <2>1. TypeOK'
    BY <1>1, <1>4 DEF IInv, TypeOK
  <2>2. ResultShape'
    BY <1>1, <1>4 DEF IInv, ResultShape
  <2>3. QED
    BY <1>2, <1>3, <2>1, <2>2 DEF IInv
<1>5. ASSUME stage' = "built", NEW today \in Days,
             result' = IF reason = None THEN OutcomeResult(today) ELSE ReasonResult(reason, today)
      PROVE  IInv'
  <2>1. ResultShape'
    BY <1>1, <1>5 DEF ResultShape, OutcomeResult, ReasonResult
  <2>2. result'.status \in {"succeeded", "refused", "failed"}
    <3>1. CASE reason = None
      BY <1>5, <3>1 DEF OutcomeResult
    <3>2. CASE reason # None
      BY <1>5, <3>2, ReasonIsContract DEF IInv, TypeOK
    <3>3. QED
      BY <3>1, <3>2
  <2>3. TypeOK'
    BY <1>1, <1>5, <2>2 DEF IInv, TypeOK
  <2>4. QED
    BY <1>2, <1>3, <2>1, <2>3 DEF IInv
<1>6. QED
  BY <1>4, <1>5 DEF Settle

\* What is recorded is what was built, or a refusal if that does not validate:
\* which a final status excludes.
LEMMA FinishKeeps == IInv /\ Finish => IInv'
<1> SUFFICES ASSUME IInv, Finish PROVE IInv'
  OBVIOUS
<1>1. /\ stage = "built" /\ stage' = "recorded"
      /\ UNCHANGED <<command, request, reason, target, redirects, answer, transferred, held>>
  BY DEF Finish, exchange
<1>2. CommandShape' /\ FetchShape'
  BY <1>1 DEF IInv, CommandShape, FetchShape, Bound
<1>3. PICK today \in Days :
        result = IF reason = None THEN OutcomeResult(today) ELSE ReasonResult(reason, today)
  BY <1>1 DEF IInv, ResultShape
<1>4. /\ "fetch.url_invalid" \in RefusedCodes
      /\ "fetch.url_invalid" \notin Precluded
      /\ None \notin Precluded
  BY Given DEF RefusedCodes, Precluded
<1>5. /\ SchemaResult(result')
      /\ result'.status \in {"succeeded", "refused", "failed"}
      /\ result'.reasonCode \notin Precluded
      /\ (reason = None /\ answer.status \in Final) =>
           /\ result'.status = "succeeded"
           /\ result'.outcome.httpStatus = answer.status
           /\ result'.outcome.redirects = redirects
           /\ result'.outcome.body = IF answer.status \in Success THEN held ELSE None
  <2>1. CASE reason # None
    <3>1. ValidResult(result) /\ reason \in RefusedCodes \cup FailedCodes
      BY <1>3, <2>1, ReasonIsContract DEF IInv, TypeOK
    <3>2. result' = ReasonResult(reason, today)
      BY <1>3, <2>1, <3>1 DEF Finish
    <3>3. QED
      BY <2>1, <3>1, <3>2, ReasonIsContract DEF IInv, FetchShape
  <2>2. CASE reason = None /\ ValidResult(result)
    <3>1. result' = OutcomeResult(today) /\ ValidResult(OutcomeResult(today))
      BY <1>3, <2>2 DEF Finish
    <3>2. QED
      BY <1>1, <1>4, <2>2, <3>1, OutcomeIsContract DEF IInv
  <2>3. CASE reason = None /\ ~ValidResult(result)
    <3>1. PICK day \in Days : result' = ReasonResult("fetch.url_invalid", day)
      BY <2>3 DEF Finish
    <3>2. answer.status \notin Final
      BY <1>1, <1>3, <2>3, OutcomeIsContract DEF IInv
    <3>3. QED
      BY <1>4, <3>1, <3>2, ReasonIsContract
  <2>4. QED
    BY <2>1, <2>2, <2>3
<1>6. TypeOK'
  BY <1>1, <1>5 DEF IInv, TypeOK
<1>7. ResultShape' /\ RecordedIsContract'
  BY <1>1, <1>5 DEF ResultShape, RecordedIsContract
<1>8. ExchangeIsRecorded'
  BY <1>1, <1>5 DEF ExchangeIsRecorded
<1>9. QED
  BY <1>2, <1>6, <1>7, <1>8 DEF IInv

\* IInv is inductive.
LEMMA NextKeeps == IInv /\ [Next]_vars => IInv'
<1> SUFFICES ASSUME IInv, [Next]_vars PROVE IInv'
  OBVIOUS
<1>1. CASE UNCHANGED vars
  BY <1>1 DEF vars, IInv, TypeOK, CommandShape, FetchShape, ResultShape, RecordedIsContract,
              ExchangeIsRecorded, Bound, OutcomeResult
<1>2. CASE Next
  BY <1>2, EnqueueKeeps, LoadKeeps, StartKeeps, HopFailsKeeps, FollowRedirectKeeps,
     RefuseRedirectKeeps, AnsweredKeeps, RefuseBodyKeeps, ReadFrameKeeps, EndBodyKeeps,
     BodyBreaksKeeps, TimeOutKeeps, SettleKeeps, FinishKeeps DEF Next
<1>3. QED
  BY <1>1, <1>2

\* So it is an invariant.
LEMMA Invariance == Spec => []IInv
BY InitKeeps, NextKeeps, PTL DEF Spec

\* Every variable has its type, for any commands, headers, statuses and bounds.
THEOREM TypeCorrect == Spec => []TypeOK
<1>1. IInv => TypeOK
  BY DEF IInv
<1>2. QED
  BY <1>1, Invariance, PTL

\* G5: never is more of a body held than the ceiling of its kind, however it is
\* framed and whatever it decodes to.
THEOREM BodyBounded == Spec => []HeldWithinBound
<1>1. IInv => HeldWithinBound
  BY DEF IInv, FetchShape, HeldWithinBound
<1>2. QED
  BY <1>1, Invariance, PTL

\* Whatever the server answers, what the worker records is a result of the schema.
THEOREM ContractKept == Spec => []RecordedIsContract
<1>1. IInv => RecordedIsContract
  BY DEF IInv
<1>2. QED
  BY <1>1, Invariance, PTL

\* A completed fetch of a status the contract knows is recorded as it was: finish
\* never replaces it by a refusal.
THEOREM ExchangeKept == Spec => []ExchangeIsRecorded
<1>1. IInv => ExchangeIsRecorded
  BY DEF IInv
<1>2. QED
  BY <1>1, Invariance, PTL

\* A command the API may store is never refused by the worker as invalid.
THEOREM AcceptedRuns == Spec => []AcceptedCommandRuns
<1>1. IInv => AcceptedCommandRuns
  <2> SUFFICES ASSUME IInv PROVE AcceptedCommandRuns
    OBVIOUS
  <2>1. stage = "queued" => ValidCommand(command)
    BY Given, AcceptedIsValid DEF IInv, CommandShape
  <2>2. None \notin Precluded
    BY Given DEF Precluded, RefusedCodes
  <2>3. result # None => result.reasonCode \notin Precluded
    <3>1. CASE stage = "built"
      <4>1. PICK today \in Days :
              result = IF reason = None THEN OutcomeResult(today) ELSE ReasonResult(reason, today)
        BY <3>1 DEF IInv, ResultShape
      <4>2. result.reasonCode = reason
        BY <4>1 DEF OutcomeResult, ReasonResult
      <4>3. QED
        BY <4>2 DEF IInv, FetchShape, Precluded
    <3>2. CASE stage # "built"
      BY <3>2 DEF IInv, ResultShape, Precluded
    <3>3. QED
      BY <3>1, <3>2
  <2>4. QED
    BY <2>1, <2>3 DEF AcceptedCommandRuns, Precluded
<1>2. QED
  BY <1>1, Invariance, PTL

\* A result is dated by the step that builds it, or that replaces it.
LEMMA ResultIsDated ==
  ASSUME Next, result' # result
  PROVE  \E today \in Days : result'.completedAt = Civil(today)
<1>1. \E today \in Days :
        \/ result' = OutcomeResult(today)
        \/ \E code : result' = ReasonResult(code, today)
  <2>1. CASE Load
    BY <2>1 DEF Load
  <2>2. CASE Settle
    BY <2>2 DEF Settle
  <2>3. CASE Finish
    BY <2>3 DEF Finish
  <2>4. QED
    BY <2>1, <2>2, <2>3 DEF Next, Enqueue, Start, HopFails, FollowRedirect, Follow, RefuseRedirect,
       Answered, RefuseBody, ReadFrame, EndBody, BodyBreaks, TimeOut, FetchFails, FetchReturns
<1>2. QED
  BY <1>1 DEF OutcomeResult, ReasonResult

\* The date of every result is that of a day on which jobs end: it exists in the
\* calendar and has as many days before it, to the end of 9999.
THEOREM DatesAreRight == Spec => DatedRight
<1>1. [Next]_vars => [result' # result =>
        ValidDate(result'.completedAt) /\ DaysBefore(result'.completedAt) \in Days]_vars
  <2> SUFFICES ASSUME Next, result' # result
               PROVE  ValidDate(result'.completedAt) /\ DaysBefore(result'.completedAt) \in Days
    BY DEF vars
  <2>1. PICK today \in Days : result'.completedAt = Civil(today)
    BY ResultIsDated
  <2>2. today \in Nat /\ today <= 2932896
    BY AttemptAssumption, SMT
  <2>3. ValidDate(Civil(today)) /\ DaysBefore(Civil(today)) = today
    BY <2>2, CivilIsDate, CivilIsDayAfterDay, SMT
  <2>4. QED
    BY <2>1, <2>3
<1>2. QED
  BY <1>1, PTL DEF Spec, DatedRight
================================================================================
