---------------------------- MODULE GatewayHeader ----------------------------
(***************************************************************************)
(* The header that a backend answers with, read line by line:              *)
(* fcgi_response_parse(), scgi_response_parse(), cgi_response_parse() and   *)
(* proxy_response_parse().                                                 *)
(*                                                                         *)
(* A line is a record [key, value].  Keys are compared without regard to   *)
(* case, which is left out; the key "Stat" stands for any beginning of     *)
(* "Status", "" for a line without a colon, "HTTP/1" for a status line.    *)
(* The value of X-Sendfile2 is a sequence of [file, from, to], with the    *)
(* file's size or -1 for a file that is not there; -1 of "to": up to the   *)
(* end; "from" -1 for a range that cannot be read.                         *)
(***************************************************************************)
EXTENDS Integers, Sequences, SequencesExt

CONSTANTS Inputs    \* of [gateway, authorizer, allow_xsendfile, before (http_status), lines]

VARIABLES input, header

vars == <<input, header>>

None == [gateway |-> "none"]

\* con before the first line
Begin(i) == [status |-> i.before, parsed |-> {}, content_length |-> -1, keep_alive |-> "",
             headers |-> <<>>, sent |-> <<>>, sendfile2 |-> FALSE, failed |-> FALSE]

Init == input = None /\ header = Begin([before |-> 0])

-----------------------------------------------------------------------------
Parsed(h, flag) == [h EXCEPT !.parsed = @ \cup {flag}]

\* X-Sendfile2: one chunk for each range
Range2(r) == IF r.to = -1 THEN r.file - r.from ELSE r.to - r.from + 1
Bad(r) == r.file = -1 \/ r.from = -1 \/ Range2(r) < 0
SendRange(h, r) ==
    IF h.failed \/ Bad(r) THEN [h EXCEPT !.failed = TRUE]
    ELSE [h EXCEPT !.sent = IF Range2(r) = 0 THEN @ ELSE Append(@, Range2(r))]
SendFile2(h, ranges) == FoldLeft(SendRange, [h EXCEPT !.sendfile2 = TRUE], ranges)

\* an authorizer that lets the request pass does not change the answer
Hidden(i, h) == i.authorizer /\ h.status \in {0, 200}

Forward(h, line) == [h EXCEPT !.headers = Append(@, line)]

\* strtol(); only mod_fastcgi has a lower bound
Unclamped(i, value) == value                     \* mutant
Length(i, value) == IF i.gateway = "fcgi" /\ value < 0 THEN 0 ELSE value

\* what is made of a header for the answer, the rest is only forwarded
Line(i, h, line) ==
    CASE line.key = "Date" -> Parsed(h, "DATE")
      [] line.key = "Location" -> Parsed(h, "LOCATION")
      [] line.key = "Status" -> [Parsed(h, "STATUS") EXCEPT !.status = line.value]
      [] line.key = "Connection" -> [Parsed(h, "CONNECTION") EXCEPT !.keep_alive = line.value]
      [] line.key = "Content-Length" ->
            [Parsed(h, "CONTENT_LENGTH") EXCEPT !.content_length = Length(i, line.value)]
      [] OTHER -> h

\* a line without a colon is skipped by everybody
NoColon(line) == line.key \in {"", "HTTP/1"}

fcgi_response_parse(i, h, line) ==
    LET copied == IF Hidden(i, h) \/ line.key \in {"Status", "Stat"} THEN h ELSE Forward(h, line)
    IN  CASE NoColon(line) \/ h.failed -> h
          [] ~(NoColon(line) \/ h.failed) /\ line.key = "X-Sendfile2" ->
                IF i.allow_xsendfile THEN SendFile2(copied, line.value) ELSE copied
          [] OTHER -> Line(i, copied, line)

\* the status line of a script that sends its header itself
OwnStatusLine(h, line) ==
    IF line.value \in 100..999 THEN [Parsed(h, "STATUS") EXCEPT !.status = line.value] ELSE h
scgi_response_parse(i, h, line, first) ==
    IF first /\ line.key = "HTTP/1" THEN OwnStatusLine(h, line)
    ELSE IF NoColon(line) THEN h ELSE Line(i, Forward(h, line), line)
\* but for the ends of the lines the same code
cgi_response_parse(i, h, line, first) == scgi_response_parse(i, h, line, first)

\* the first line has to be a status line, there is no Status, and Connection is not
\* the client's
proxy_response_parse(i, h, line, first) ==
    IF first THEN [Parsed(h, "STATUS") EXCEPT !.status = IF line.value > 0 THEN line.value ELSE 502]
    ELSE CASE NoColon(line) \/ line.key = "Connection" -> h
           [] line.key = "Status" -> Forward(h, line)
           [] OTHER -> Line(i, Forward(h, line), line)

Read(i, h, k) ==
    CASE i.gateway = "fcgi"  -> fcgi_response_parse(i, h, i.lines[k])
      [] i.gateway = "scgi"  -> scgi_response_parse(i, h, i.lines[k], k = 1)
      [] i.gateway = "cgi"   -> cgi_response_parse(i, h, i.lines[k], k = 1)
      [] i.gateway = "proxy" -> proxy_response_parse(i, h, i.lines[k], k = 1)

Sum(s) == FoldLeft(LAMBDA n, x : n + x, 0, s)
IsLength(line) == line.key = "Content-Length"

\* X-Sendfile2 decides about the length, ...
LengthAdded(h) == [h EXCEPT !.headers = Append(@, [key |-> "Content-Length", value |-> Sum(h.sent)])] \* mutant
LengthReplaced(h) ==
    [h EXCEPT !.headers = Append(SelectSeq(@, LAMBDA l : ~IsLength(l)),
                                 [key |-> "Content-Length", value |-> Sum(h.sent)])]
Fixed(h) ==
    IF ~h.sendfile2 \/ h.failed THEN h
    ELSE [Parsed(LengthReplaced(h), "CONTENT_LENGTH") EXCEPT !.content_length = Sum(h.sent)]

\* ... and a Location without a Status is a redirect (CGI/1.1 rev 03 - 7.2.1.2); a
\* header that cannot be read is a 502
Redirected(i, h) ==
    IF h.failed THEN [h EXCEPT !.status = 502]
    ELSE IF i.gateway # "proxy" /\ "LOCATION" \in h.parsed /\ "STATUS" \notin h.parsed
    THEN [h EXCEPT !.status = 302] ELSE h

response_parse(i) ==
    LET read == FoldLeft(LAMBDA h, k : Read(i, h, k), Begin(i), [k \in 1..Len(i.lines) |-> k])
    IN  Redirected(i, Fixed(read))

Answer(i) == input = None /\ input' = i /\ header' = response_parse(i)
\* the connection is reset
Reset == input # None /\ input' = None /\ header' = Begin([before |-> 0])

Next == Reset \/ \E i \in Inputs : Answer(i)

Spec == Init /\ [][Next]_vars

-----------------------------------------------------------------------------
Keys(lines) == {lines[k].key : k \in 1..Len(lines)}
Lines(key) == SelectSeq(input.lines, LAMBDA l : l.key = key)
HasStatusLine == input.gateway \in {"scgi", "cgi"} /\ input.lines[1].key = "HTTP/1"

(***************************************************************************)
(* With X-Sendfile2 the one Content-Length that the client gets is the     *)
(* length of the chunks, whatever the backend has said before or after it. *)
(***************************************************************************)
SendfileLength ==
    header.sendfile2 /\ ~header.failed =>
        /\ header.content_length = Sum(header.sent)
        /\ ~input.authorizer =>
              SelectSeq(header.headers, IsLength) = <<[key |-> "Content-Length", value |-> Sum(header.sent)]>>

(***************************************************************************)
(* An answer with a Location and no word about the status redirects, in    *)
(* whatever order its lines come; a status that was given stays.           *)
(***************************************************************************)
StatusRight ==
    input # None /\ ~header.failed /\ input.gateway # "proxy" /\ ~HasStatusLine =>
        header.status = IF Lines("Status") # <<>> THEN Last(Lines("Status")).value
                        ELSE IF Lines("Location") # <<>> THEN 302 ELSE input.before

(***************************************************************************)
(* An authorizer that lets the request pass without a word about the       *)
(* status adds nothing to the answer.                                      *)
(***************************************************************************)
AuthorizerSilent ==
    input # None /\ input.gateway = "fcgi" /\ input.authorizer /\ input.before \in {0, 200}
        /\ Lines("Status") = <<>> /\ ~header.sendfile2 => header.headers = <<>>

HeaderRight == SendfileLength /\ StatusRight /\ AuthorizerSilent
=============================================================================
