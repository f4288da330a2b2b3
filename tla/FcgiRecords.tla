----------------------------- MODULE FcgiRecords -----------------------------
(***************************************************************************)
(* What mod_fastcgi writes to a process and reads from it: the content of  *)
(* a request is cut into STDIN records, and the records of the answer are  *)
(* put together from what each read() happens to bring.                    *)
(*                                                                         *)
(* A byte of the answer is a record of its own, which knows where it comes *)
(* from; the content of STDOUT is in units: a line of the header ("h"), a  *)
(* line that cannot be parsed ("bad"), X-Sendfile ("x"), the end of the    *)
(* header ("eoh") and content ("a", "b").  The process is a responder, no  *)
(* authorizer, which may let the request go on.                            *)
(***************************************************************************)
EXTENDS Integers, Sequences, FiniteSets

LOCAL INSTANCE SequencesExt

CONSTANTS
    MaxLength,              \* FCGI_MAX_LENGTH, 65535
    HeaderSize,             \* sizeof(FCGI_Header), 8
    Bodies,                 \* contents of requests: chunks of one kind, [type, lens]
    Answers                 \* sequences of records [type, content, padding]

RecordsAssumption == MaxLength \in Nat \ {0} /\ HeaderSize \in Nat \ {0}

VARIABLES
    body, wb,               \* the request's content, the records that are written
    answer, stream,         \* the records the process writes, what is unread of them
    rb,                     \* chunks that were read, without what is used
    con                     \* what the client gets

vars == <<body, wb, answer, stream, rb, con>>

-----------------------------------------------------------------------------
(***************************************************************************)
(* fcgi_create_env(): STDIN records, each with as much of the chunks as it *)
(* can announce.  A piece of a temporary file is a reference to it, and    *)
(* the last one removes the file.                                          *)
(***************************************************************************)
Start(b, k) == FoldSeq(LAMBDA x, s : x + s, 0, SubSeq(b.lens, 1, k - 1))
Total(b) == Start(b, Len(b.lens) + 1)
Smaller(a, b) == IF a < b THEN a ELSE b
Larger(a, b) == IF a > b THEN a ELSE b

AtOnce(b, k, piece) == b.type = "file"                              \* mutant
Stolen(b, k, piece) == b.type = "file" /\ piece.to = b.lens[k]

\* what bytes from+1..to of the content are, chunk by chunk
Pieces(b, from, to) ==
    LET piece(k) == [chunk |-> k, from |-> Larger(from, Start(b, k)) - Start(b, k),
                     to |-> Smaller(to, Start(b, k + 1)) - Start(b, k)]
        all == SelectSeq([k \in DOMAIN b.lens |-> piece(k)], LAMBDA p : p.from < p.to)
    IN  [k \in DOMAIN all |-> [piece |-> all[k], is_temp |-> Stolen(b, all[k].chunk, all[k])]]

fcgi_create_env(b) ==
    LET n == (Total(b) + MaxLength - 1) \div MaxLength
        record(k) == LET to == Smaller(k * MaxLength, Total(b)) IN
            [length |-> to - (k - 1) * MaxLength, pieces |-> Pieces(b, (k - 1) * MaxLength, to)]
    IN  [k \in 1..n |-> record(k)] \o <<[length |-> 0, pieces |-> <<>>]>>

-----------------------------------------------------------------------------
(***************************************************************************)
(* fastcgi_get_packet(): the header may be spread over chunks, the content *)
(* begins in the chunk the header ends in.                                 *)
(***************************************************************************)
Bytes(k, rec) ==
    [i \in 1..HeaderSize |-> [rec |-> k, part |-> "header", at |-> i]] \o
    [i \in 1..Len(rec.content) |-> [rec |-> k, part |-> "content", at |-> i]] \o
    [i \in 1..rec.padding |-> [rec |-> k, part |-> "padding", at |-> i]]
Written(a) == FlattenSeq([k \in DOMAIN a |-> Bytes(k, a[k])])

Have(chunks) == Len(FlattenSeq(chunks))
From(s, n) == SubSeq(s, n, Len(s))

SkippedOnce(chunks, offset) == From(Head(chunks), offset + 1) \o FlattenSeq(Tail(chunks))

NoPacket == [found |-> FALSE]
fastcgi_get_packet(chunks) ==
    IF Have(chunks) < HeaderSize THEN NoPacket
    ELSE LET k == CHOOSE j \in DOMAIN chunks : /\ Have(SubSeq(chunks, 1, j)) >= HeaderSize
                                               /\ Have(SubSeq(chunks, 1, j - 1)) < HeaderSize
             rec == answer[Head(FlattenSeq(chunks)).rec]        \* what the header says
             len == Len(rec.content) + rec.padding
             content == SkippedOnce(From(chunks, k), HeaderSize - Have(SubSeq(chunks, 1, k - 1)))
         IN  IF Len(content) < len THEN NoPacket
             ELSE [found |-> TRUE, type |-> rec.type,
                   content |-> SubSeq(content, 1, len - rec.padding),
                   used |-> HeaderSize + len]

\* chunks that are used up are removed
Without(chunks, n) ==
    LET cut == [k \in DOMAIN chunks |-> From(chunks[k], n - Have(SubSeq(chunks, 1, k - 1)) + 1)]
    IN  SelectSeq([k \in DOMAIN chunks |->
                      IF n > Have(SubSeq(chunks, 1, k - 1)) THEN cut[k] ELSE chunks[k]],
                  LAMBDA c : c # <<>>)

-----------------------------------------------------------------------------
(***************************************************************************)
(* fcgi_demux_response(): the header is collected over records; its end    *)
(* starts the answer.                                                      *)
(***************************************************************************)
Has(s, x) == \E k \in DOMAIN s : s[k] = x
Upto(s, x) == SubSeq(s, 1, (CHOOSE k \in DOMAIN s : s[k] = x /\ ~Has(SubSeq(s, 1, k - 1), x)))

Unit(byte) == answer[byte.rec].content[byte.at]
Units(bytes) == [k \in DOMAIN bytes |-> Unit(bytes[k])]

fcgi_response_parse(c, header, rest) ==
    IF Has(header, "bad")   \* 502
    THEN [c EXCEPT !.started = TRUE, !.send_content_body = FALSE, !.sent = <<"502">>]
    ELSE IF Has(header, "x")
    THEN [c EXCEPT !.started = TRUE, !.send_content_body = FALSE, !.sent = <<"file">>]
    ELSE [c EXCEPT !.started = TRUE, !.sent = rest]

OnlyThis(c, units) == units              \* mutant: the header has to be in one record
Collected(c, units) == c.response_header \o units

Stdout(c, units) ==
    LET header == Collected(c, units) IN
    IF c.started THEN IF c.send_content_body THEN [c EXCEPT !.sent = @ \o units] ELSE c
    ELSE IF ~Has(header, "eoh") THEN [c EXCEPT !.response_header = header]
    ELSE fcgi_response_parse(c, Upto(header, "eoh"), From(header, Len(Upto(header, "eoh")) + 1))

Demuxed(c, packet) ==
    CASE packet.type = "STDOUT" -> Stdout(c, Units(packet.content))
      [] packet.type = "STDERR" -> c
      [] packet.type = "END"    -> [c EXCEPT !.finished = TRUE]

\* one packet after the other until there is none, or the last
RECURSIVE Packets(_, _)
Packets(chunks, c) ==
    LET p == fastcgi_get_packet(chunks) IN
    IF c.finished \/ ~p.found THEN [rb |-> chunks, con |-> c]
    ELSE Packets(Without(chunks, p.used), Demuxed(c, p))

fcgi_demux_response ==
    /\ wb # <<>> /\ ~con.finished
    /\ \E n \in 1..Len(stream) :
          LET d == Packets(Append(rb, SubSeq(stream, 1, n)), con) IN
          /\ stream' = From(stream, n + 1) /\ rb' = d.rb /\ con' = d.con
    /\ UNCHANGED <<body, wb, answer>>

PrepareWrite ==
    /\ wb = <<>> /\ wb' = fcgi_create_env(body)
    /\ \E a \in Answers : answer' = a /\ stream' = Written(a)
    /\ UNCHANGED <<body, rb, con>>

Arrive ==
    /\ body.lens = <<>> /\ wb = <<>>
    /\ \E b \in Bodies : body' = b /\ body # b
    /\ UNCHANGED <<wb, answer, stream, rb, con>>

Init ==
    /\ body = [type |-> "mem", lens |-> <<>>] /\ wb = <<>> /\ answer = <<>> /\ stream = <<>>
    /\ rb = <<>> /\ con = [response_header |-> <<>>, started |-> FALSE, finished |-> FALSE,
                           send_content_body |-> TRUE, sent |-> <<>>]
Next == Arrive \/ PrepareWrite \/ fcgi_demux_response
Spec == Init /\ [][Next]_vars

-----------------------------------------------------------------------------
(***************************************************************************)
(* Properties.                                                             *)
(***************************************************************************)
\* the content of the request, byte by byte, as it is announced and as it is sent
Content(b) == FlattenSeq([k \in DOMAIN b.lens |-> [i \in 1..b.lens[k] |-> <<k, i>>]])
Sent(record) == FlattenSeq([k \in DOMAIN record.pieces |->
    LET p == record.pieces[k].piece IN [i \in 1..(p.to - p.from) |-> <<p.chunk, p.from + i>>]])

(***************************************************************************)
(* The STDIN records hold the content of the request in order, as much of  *)
(* it as each announces, only the last is empty; and a temporary file is   *)
(* removed once, behind the last of the pieces that refer to it.           *)
(***************************************************************************)
StdinWhole ==
    wb # <<>> =>
        LET pieces == FlattenSeq([k \in DOMAIN wb |-> wb[k].pieces]) IN
        /\ FlattenSeq([k \in DOMAIN wb |-> Sent(wb[k])]) = Content(body)
        /\ \A k \in DOMAIN wb : /\ wb[k].length = Len(Sent(wb[k])) /\ wb[k].length <= MaxLength
                                /\ (wb[k].length = 0) <=> (k = Len(wb))
        /\ body.type = "file" => \A k \in DOMAIN body.lens :
              \E last \in DOMAIN pieces :
                  /\ pieces[last].is_temp /\ pieces[last].piece.chunk = k
                  /\ \A j \in DOMAIN pieces : pieces[j].piece.chunk = k /\ j # last =>
                        j < last /\ ~pieces[j].is_temp

\* all that the process writes to STDOUT
Output(a) == FlattenSeq([k \in DOMAIN a |-> IF a[k].type = "STDOUT" THEN a[k].content ELSE <<>>])
Expected(a) ==
    LET out == Output(a) IN
    IF ~Has(out, "eoh") THEN <<>>
    ELSE LET header == Upto(out, "eoh") IN
         IF Has(header, "bad") THEN <<"502">>
         ELSE IF Has(header, "x") THEN <<"file">> ELSE From(out, Len(header) + 1)

(***************************************************************************)
(* However the answer is cut into records, and the records into reads, the *)
(* client gets its content in order, and when it is finished, all of it.   *)
(***************************************************************************)
AnswerWhole ==
    /\ IsPrefix(con.sent, Expected(answer))
    /\ con.finished => con.sent = Expected(answer)
=============================================================================
