---------------------------- MODULE RequestParser ----------------------------
(***************************************************************************)
(* http_request_parse(): the request line, the header line by line, and    *)
(* what both together allow.  A refused request ends the reading ("return  *)
(* 0" with a status), so that what comes after it is not looked at.        *)
(*                                                                         *)
(* A header line is [key, value]; the key "fold" is a line that begins with *)
(* white space, "bad" one that cannot be read (its key, or a control       *)
(* character), "empty" one without a value.  Values are sequences, of words *)
(* for Connection, of characters or marks for the others.                  *)
(***************************************************************************)
EXTENDS Integers, Sequences, FiniteSets, SequencesExt

CONSTANTS
    Inputs,             \* of [line, lines, before (keep_alive of the last request)]
    allow_http11,
    SizeMax,            \* SSIZE_MAX
    Room,               \* characters for which the buffer of a value has room (64 and more)
    max_request_size    \* in the same unit, 0 for none

VARIABLES input, con

vars == <<input, con>>

\* con->request's pointers into the values, and the headers as gateways get them
Fields == {"Content-Type", "If-Modified-Since", "If-None-Match", "Range"}
Keys == Fields \cup {"Connection", "Content-Length", "Host", "empty"}
Lost == <<"?">>         \* what a pointer reads where the value has been freed

Begin(before) ==
    [http_status |-> 0, keep_alive |-> before, method |-> "GET", version |-> "1.0", uri |-> "",
     in_line |-> FALSE, length |-> -1, connection |-> "unset", last |-> "",
     headers |-> [k \in Keys |-> <<>>], field |-> [f \in Fields |-> <<>>]]

None == [line |-> "none"]
Init == input = None /\ con = Begin(FALSE)

Refused(c, status) == [c EXCEPT !.http_status = status, !.keep_alive = FALSE]

-----------------------------------------------------------------------------
(***************************************************************************)
(* request_check_hostname(): host is a sequence of "a" (a letter), "1" (a  *)
(* digit), "-", ".", ":" and others; addresses in "[ ]" are left out.      *)
(***************************************************************************)
Alnum == {"a", "1"}
AllIn(s, S) == \A i \in 1..Len(s) : s[i] \in S

\* one step of the loop from right to left; s.right is the character looked at before
Label(s) == [s EXCEPT !.label_len = @ + 1]
Dot(s) == [s EXCEPT !.label_len = 0, !.level = @ + 1]
HostFails(s) == [s EXCEPT !.fails = TRUE]

TopDot(s, first) ==
    IF s.right = "" THEN (IF first THEN HostFails(s) ELSE s)              \* a second "." at the end
    ELSE IF s.label_len = 0 \/ (s.is_ip = 0 /\ s.right \notin Alnum) THEN HostFails(s)
    ELSE [Dot(s) EXCEPT !.top = FALSE, !.is_ip = IF @ # 0 /\ s.right = "1" THEN 1 ELSE 0]
TopChar(s, c, first) ==
    IF (first /\ c \notin Alnum) \/ c \notin Alnum \cup {"-"} THEN HostFails(s)
    ELSE [Label(s) EXCEPT !.is_ip = IF ~first /\ @ = -1 /\ c # "1" THEN 0 ELSE @]
DomainChar(s, c, first) ==
    CASE c = "."     -> IF s.label_len = 0 \/ (s.is_ip # 1 /\ s.right = "-") THEN HostFails(s) ELSE Dot(s)
      [] s.is_ip = 1 -> IF c = "1" THEN Label(s) ELSE HostFails(s)
      [] OTHER       -> IF c \in Alnum \/ (c = "-" /\ ~first) THEN Label(s) ELSE HostFails(s)

HostChar(s, c, first) ==
    IF s.fails THEN s
    ELSE [(IF ~s.top THEN DomainChar(s, c, first)
           ELSE IF c = "." THEN TopDot(s, first) ELSE TopChar(s, c, first)) EXCEPT !.right = c]

\* without the port and without one "." at the end
PortAt(host) == {i \in 1..Len(host) : host[i] = ":"}
NoPort(host) == IF PortAt(host) = {} THEN host
                ELSE SubSeq(host, 1, (CHOOSE i \in PortAt(host) : \A j \in PortAt(host) : i <= j) - 1)
NoDot(name) == IF name # <<>> /\ Last(name) = "." THEN Front(name) ELSE name

PortOf(host) == SubSeq(host, Len(NoPort(host)) + 1, Len(host))
\* what it leaves in the buffer
Kept(host) == NoDot(NoPort(host)) \o PortOf(host)

request_check_hostname(host) ==
    LET name == NoDot(NoPort(host))
        start == [top |-> TRUE, label_len |-> 0, is_ip |-> -1, level |-> 0, right |-> "", fails |-> FALSE]
        end == FoldLeft(LAMBDA s, i : HostChar(s, name[i], i = 1), start,
                        [k \in 1..Len(name) |-> Len(name) + 1 - k])
    IN  /\ AllIn(PortOf(host), {":", "1"}) /\ Cardinality(PortAt(host)) <= 1 /\ name # <<>>
        /\ ~end.fails /\ end.label_len > 0 /\ (end.is_ip = 1 => end.level = 3)

-----------------------------------------------------------------------------
\* the request line: its words, and what they are
RequestLine(l, before) ==
    LET c == [Begin(before) EXCEPT !.method = l.method, !.uri = l.uri, !.in_line = l.host # <<>>]
    IN  CASE l.words # 3 -> Refused(c, 400)
          [] l.words = 3 /\ l.method = "unknown" -> Refused(c, 501)
          [] l.words = 3 /\ l.method # "unknown" /\ l.version = "bad" -> Refused(c, 400)
          \* keep_alive stays what it was for the last request
          [] l.words = 3 /\ l.method # "unknown" /\ l.version = "2.0" -> [c EXCEPT !.http_status = 505]
          [] OTHER -> IF l.uri \in {"", "ctl"} THEN Refused(c, 400)
                      ELSE [c EXCEPT !.version = IF l.version = "1.1" /\ allow_http11 THEN "1.1" ELSE "1.0",
                                     !.headers["Host"] = l.host]

Has(c, key) == c.headers[key] # <<>>
\* con->request.http_host is the value itself
HostOf(c) == c.headers["Host"]

\* array_insert_unique(): what comes again is joined to the first, and freed
Insert(c, l) ==
    [c EXCEPT !.headers[l.key] = IF Has(c, l.key) THEN @ \o <<",">> \o l.value ELSE l.value]

\* http_request_split_value(): the first word that is known
Words(value) == SelectSeq(value, LAMBDA w : w \in {"keep-alive", "close"})
Connection(c, value) ==
    IF Words(value) = <<>> THEN c ELSE [c EXCEPT !.connection = Words(value)[1]]

\* the second of two that are the same is ignored, or one too many
Once(c, l, ignored) ==
    IF c.field[l.key] = <<>> THEN Insert([c EXCEPT !.field[l.key] = l.value], l)
    ELSE IF ignored THEN c ELSE Refused(c, 400)

\* one that cannot be read is passed over, but stays; the next one's value goes to it
HttpRange(c, l) ==
    CASE c.field["Range"] # <<>> -> Refused(c, 400)
      [] l.value[1] # "bytes"    -> Insert(c, l)
      [] OTHER -> Insert([c EXCEPT !.field["Range"] = IF Has(c, "Range") THEN Lost ELSE l.value], l)

Digits == <<"0", "1", "2", "3", "4", "5", "6", "7", "8", "9">>
IsNumber(value) == AllIn(value, ToSet(Digits))
Number(value) == FoldLeft(LAMBDA n, d : 10 * n + (CHOOSE k \in 1..10 : Digits[k] = d) - 1, 0, value)

LastLength(c, l) ==                                             \* mutant: the last of several
    IF IsNumber(l.value) THEN Insert([c EXCEPT !.length = Number(l.value)], l) ELSE Refused(c, 400)
ContentLength(c, l) ==
    IF c.length # -1 \/ ~IsNumber(l.value) THEN Refused(c, 400)
    ELSE Insert([c EXCEPT !.length = Number(l.value)], l)

Host(c, l) ==
    IF c.in_line THEN c
    ELSE IF Has(c, "Host") THEN Refused(c, 400) ELSE Insert(c, l)

Header(c, l) ==
    CASE l.key = "Connection"        -> Insert(Connection(c, l.value), l)
      [] l.key = "Content-Length"    -> ContentLength(c, l)
      [] l.key = "Host"              -> Host(c, l)
      [] l.key = "Content-Type"      -> Once(c, l, FALSE)
      [] l.key = "If-Modified-Since" -> Once(c, l, c.field[l.key] = l.value)
      [] l.key = "If-None-Match"     -> Once(c, l, TRUE)
      [] l.key = "Range"             -> HttpRange(c, l)

\* A folded line is added to the value of the last key, wherever that is: the pointers to
\* it see it too, unless the buffer had to move.  What was made of the value is left.
Moves(old, new) == Len(old) <= Room /\ Len(new) > Room
FoldedBeside(c, l) == IF c.last = "" THEN Refused(c, 400) ELSE c        \* mutant: as if it were not there
Folded(c, l) ==
    LET new == c.headers[c.last] \o l.value IN
    CASE c.last = "" -> Refused(c, 400)
      [] c.last # "" /\ ~Has(c, c.last) -> c
      [] OTHER -> [c EXCEPT !.headers[c.last] = new,
                            !.field = [f \in Fields |->
                                IF f # c.last \/ @[f] \in {<<>>, Lost} THEN @[f]
                                ELSE IF Moves(c.headers[f], new) THEN Lost ELSE new]]

HeaderLine(c, l) ==
    CASE c.http_status # 0 -> c
      [] l.key = "bad" -> Refused(c, 400)
      [] l.key = "fold" -> Folded(c, l)
      [] l.key = "417" -> Refused(c, 417)                   \* Expect: 100-continue
      [] l.key = "empty" -> [c EXCEPT !.last = l.key]
      [] OTHER -> [Header(c, l) EXCEPT !.last = l.key]

Persistent(c) == IF c.version = "1.1" THEN c.connection # "close" ELSE c.connection = "keep-alive"

\* the order of the tests decides about the status
Post(c) ==
    LET k == [c EXCEPT !.keep_alive = Persistent(c), !.headers["Host"] = Kept(@)]
        tests == << <<c.version = "1.1" /\ ~Has(c, "Host"), 400>>,
                    <<Has(c, "Host") /\ ~request_check_hostname(HostOf(c)), 400>>,
                    <<c.method \in {"GET", "HEAD"} /\ c.length > 0, 400>>,
                    <<c.method = "POST" /\ c.length = -1, 411>>,
                    <<c.length > SizeMax, 413>>,
                    <<max_request_size # 0 /\ c.length > max_request_size, 413>> >>
        failed == SelectSeq(tests, LAMBDA t : t[1])
    IN  IF c.http_status # 0 THEN c ELSE IF failed = <<>> THEN k ELSE Refused(k, failed[1][2])

http_request_parse(i) == Post(FoldLeft(HeaderLine, RequestLine(i.line, i.before), i.lines))
\* what it returns: there is content to be read
HasContent(c) == c.http_status = 0 /\ c.length > 0

Parse(i) == input = None /\ input' = i /\ con' = http_request_parse(i)
Reset == input # None /\ input' = None /\ con' = Begin(FALSE)

Next == Reset \/ \E i \in Inputs : Parse(i)

Spec == Init /\ [][Next]_vars

-----------------------------------------------------------------------------
Accepted == input # None /\ con.http_status = 0
Given(key) == {k \in 1..Len(input.lines) : input.lines[k].key = key}

(***************************************************************************)
(* A request that is refused before its length is known ends the           *)
(* connection: what follows cannot be told from another request.  (A       *)
(* version that is not known leaves keep_alive as the last request had it.) *)
(***************************************************************************)
RefusedEnds == input # None /\ con.http_status \notin {0, 505} => ~con.keep_alive

(***************************************************************************)
(* An accepted request has one length: that of its only Content-Length,    *)
(* which decides how much is read.  A gateway that gets the header as it   *)
(* came sees the same, unless a line was folded to it: that is added to    *)
(* the header only.                                                        *)
(***************************************************************************)
FoldedTo(key) ==
    \E k \in Given("fold") : \E j \in 1..k - 1 :
        input.lines[j].key = key /\ \A i \in j + 1..k : input.lines[i].key = "fold"
OneLength ==
    Accepted => /\ \A k \in Given("Content-Length") : Number(input.lines[k].value) = con.length
                /\ ~FoldedTo("Content-Length") =>
                      (IF Has(con, "Content-Length") THEN Number(con.headers["Content-Length"]) ELSE -1) = con.length
                /\ con.method = "POST" => con.length >= 0
                /\ con.method \in {"GET", "HEAD"} => con.length <= 0
                /\ con.length <= SizeMax

(***************************************************************************)
(* An accepted request of HTTP/1.1 has one host, that of the request line  *)
(* before that of a Host header (folded lines follow).                     *)
(***************************************************************************)
OneHost ==
    Accepted => /\ con.version = "1.1" => HostOf(con) # <<>>
                /\ input.line.host # <<>> => IsPrefix(NoDot(NoPort(input.line.host)), HostOf(con))
                /\ \A k \in Given("Host") : con.in_line \/ IsPrefix(NoDot(NoPort(input.lines[k].value)), HostOf(con))

(***************************************************************************)
(* What the server makes of a header once is the first of its values, with *)
(* the lines folded to it, and that is what it passes on - as long as the  *)
(* value stays where it was: a folded line too long for its buffer moves   *)
(* it, and a Range after one that could not be read is freed.              *)
(***************************************************************************)
FirstOfEach ==
    Accepted => \A f \in Fields :
        /\ Given(f) # {} /\ f # "Range" => con.field[f] # <<>>
        /\ con.field[f] \notin {<<>>, Lost} =>
              /\ con.field[f] = con.headers[f]
              /\ \E k \in Given(f) : /\ \A j \in Given(f) : k <= j
                                     /\ IsPrefix(input.lines[k].value, con.field[f])
        /\ con.field[f] = Lost => FoldedTo(f) \/ (f = "Range" /\ Cardinality(Given(f)) > 1)

(***************************************************************************)
(* The hostname of the comment: "*( domainlabel "." ) toplabel [ "." ]" or *)
(* four numbers, where a domainlabel begins and ends with a letter or a    *)
(* digit, and a toplabel begins with a letter.                             *)
(***************************************************************************)
Starts(name) == {1} \cup {i + 1 : i \in {j \in 1..Len(name) : name[j] = "."}}
LabelAt(name, i) == SubSeq(name, i, (CHOOSE e \in i..Len(name) + 1 :
                          /\ e = Len(name) + 1 \/ name[e] = "."
                          /\ \A j \in i..e - 1 : name[j] # ".") - 1)
Labels(name) == {LabelAt(name, i) : i \in Starts(name)}
TopLabel(name) == LabelAt(name, CHOOSE i \in Starts(name) : \A j \in Starts(name) : j <= i)
DomainLabel(l) == l # <<>> /\ AllIn(l, Alnum \cup {"-"}) /\ l[1] \in Alnum /\ Last(l) \in Alnum
IPv4(name) == AllIn(name, {"1", "."}) /\ Len(SelectSeq(name, LAMBDA c : c = ".")) = 3
                /\ \A l \in Labels(name) : l # <<>>
Documented(name) ==
    IPv4(name) \/ ((\A l \in Labels(name) : DomainLabel(l)) /\ TopLabel(name)[1] = "a")

(***************************************************************************)
(* What the comment calls a hostname is accepted.  What is accepted is one *)
(* but for its digits and its ends: any label may begin with a digit and   *)
(* end with "-", but where all are numbers there are four, or one; and a   *)
(* second "." at the end is let through.                                   *)
(***************************************************************************)
Accepts(name) == /\ \A l \in Labels(name) : l # <<>> /\ AllIn(l, Alnum \cup {"-"}) /\ l[1] \in Alnum
                 /\ AllIn(name, {"1", "."}) => Cardinality(Starts(name)) \in {1, 4}
HostRight ==
    /\ Accepted /\ Has(con, "Host") =>
          Accepts(NoDot(NoPort(HostOf(con))))
    /\ input # None => \A k \in Given("Host") :
          Documented(NoDot(NoPort(input.lines[k].value))) /\ AllIn(PortOf(input.lines[k].value), {":", "1"})
             => request_check_hostname(input.lines[k].value)

RequestRight == RefusedEnds /\ OneLength /\ OneHost /\ FirstOfEach /\ HostRight
=============================================================================
