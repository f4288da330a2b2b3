------------------------------- MODULE Response -------------------------------
(***************************************************************************)
(* One request from http_response_prepare() to the last byte of the answer: *)
(* the hooks of the plugins in their order, the file, the error handler,   *)
(* connection_handle_write_prepare() and http_response_write_header(), and *)
(* the content that is appended before and after the header is written.    *)
(*                                                                         *)
(* write_queue is a sequence of [kind, n]: the header, n units of content, *)
(* and for a chunked answer the length n of a chunk, the end of a chunk    *)
(* and the last chunk.  "unsent" tells whether some of it is still to be   *)
(* written.                                                                *)
(***************************************************************************)
EXTENDS Integers, Sequences, SequencesExt

CONSTANTS
    Requests,           \* of [method, version, keep_alive, star (the path is "*")]
    Hooks,              \* of the plugins up to the physical path, in their order
    error_handler,      \* BOOLEAN: server.error-handler-404
    error_file,         \* BOOLEAN: server.errorfile-prefix has the page
    MaxContent,         \* bound: units of content
    MaxLoops            \* bound: how often a request begins again

Places == {"idle", "prepare", "file", "start", "subrequest", "respstart", "write", "done"}
ResponseAssumption ==
    /\ Hooks \in Seq(STRING) /\ Hooks # <<>> /\ Range(Hooks) \cap Places = {} /\ MaxContent \in Nat
    /\ \A r \in Requests : r.keep_alive \in BOOLEAN

VARIABLES
    pc,                 \* idle, prepare, a hook, file, start, subrequest, respstart, write, done
    req, con,           \* the request; the connection's fields about the answer
    write_queue, unsent,
    head,               \* what the header has told the client
    loops, aborted

vars == <<pc, req, con, write_queue, unsent, head, loops, aborted>>

NoRequest == [method |-> "none"]
NoHead == [status |-> 0, length |-> -1, chunked |-> FALSE, close |-> FALSE]
NoAnswer == [http_status |-> 0, mode |-> "DIRECT", file_finished |-> FALSE, file_started |-> FALSE,
             chunked |-> FALSE, content_length |-> -1, wish |-> "none", in_error_handler |-> FALSE,
             saved |-> 0, keep_alive |-> FALSE,
             over |-> FALSE,        \* the backend has ended its answer
             late |-> FALSE]        \* content has come behind an answer without any

Init ==
    /\ pc = "idle" /\ req = NoRequest /\ con = NoAnswer /\ write_queue = <<>> /\ unsent = FALSE
    /\ head = NoHead /\ loops = 0 /\ aborted = FALSE

Item(kind, n) == [kind |-> kind, n |-> n]
Content(n) == IF n = 0 THEN <<>> ELSE <<Item("data", n)>>

\* http_chunk_append_mem(), http_chunk_append_buffer(): none is the end of the content
append_mem(chunked, n) ==
    IF ~chunked THEN Content(n)
    ELSE IF n = 0 THEN <<Item("last", 0)>> ELSE <<Item("length", n)>> \o Content(n) \o <<Item("end", 0)>>
\* mutant: the end of a chunk is forgotten
append_open(chunked, n) ==
    IF ~chunked THEN Content(n)
    ELSE IF n = 0 THEN <<Item("last", 0)>> ELSE <<Item("length", n)>> \o Content(n)
http_chunk_append_mem(chunked, n) == append_mem(chunked, n)

\* http_chunk_append_file() of a DIRECT answer
append_file(n) == Content(n)

Length(queue) ==
    LET units[k \in 0..Len(queue)] ==
            IF k = 0 THEN 0 ELSE units[k - 1] + (IF queue[k].kind = "data" THEN queue[k].n ELSE 0)
    IN  units[Len(queue)]

-----------------------------------------------------------------------------
Arrive(r) ==
    /\ pc = "idle" /\ pc' = "prepare"
    /\ req' = r /\ con' = [NoAnswer EXCEPT !.keep_alive = r.keep_alive]
    /\ UNCHANGED <<write_queue, unsent, head, loops, aborted>>

\* HANDLER_FINISHED: the error handler, once, and only for what was decided here
Rejected(c) == c.mode = "DIRECT" /\ c.http_status \in {403, 404}
Finished(c) ==
    IF Rejected(c) /\ ~c.in_error_handler /\ error_handler
    THEN /\ pc' = "prepare"
         /\ con' = [c EXCEPT !.saved = c.http_status, !.http_status = 0, !.in_error_handler = TRUE]
    ELSE /\ pc' = "respstart"
         /\ con' = LET s == IF Rejected(c) /\ c.in_error_handler THEN c.saved ELSE c.http_status
                   IN  [c EXCEPT !.http_status = IF s = 0 THEN 200 ELSE s]

Status(c, s) == [c EXCEPT !.http_status = s]
NextHook(h) == LET k == CHOOSE i \in 1..Len(Hooks) : Hooks[i] = h
               IN  IF k = Len(Hooks) THEN "file" ELSE Hooks[k + 1]

\* someone has already decided, or the hooks begin
Prepare ==
    /\ pc = "prepare"
    /\ IF con.mode = "DIRECT" /\ con.http_status \notin {0, 200}
       THEN Finished(con) /\ write_queue' = IF con.file_finished THEN write_queue ELSE <<>>
       ELSE pc' = Hooks[1] /\ UNCHANGED <<con, write_queue>>
    /\ UNCHANGED <<req, unsent, head, loops, aborted>>

OptionsStar == pc = "clean" /\ req.method = "OPTIONS" /\ req.star

\* a plugin lets the request pass, answers it, sends it back (a rewrite), or takes it
\* for a gateway; OPTIONS * is answered behind the clean uri
Hook ==
    /\ pc \in Range(Hooks)
    /\ \/ ~OptionsStar /\ pc' = NextHook(pc) /\ UNCHANGED <<con, loops>>
       \/ \E s \in {301, 403} :
              /\ Finished([Status(con, s) EXCEPT !.file_finished = (s = 301)])
              /\ UNCHANGED loops
       \/ pc = "raw" /\ loops < MaxLoops /\ loops' = loops + 1 /\ pc' = "prepare" /\ UNCHANGED con
       \/ /\ pc = "clean" /\ ~OptionsStar
          /\ con' = [con EXCEPT !.mode = "gateway"] /\ pc' = "subrequest" /\ UNCHANGED loops
       \/ /\ OptionsStar
          /\ Finished([Status(con, 200) EXCEPT !.file_finished = TRUE]) /\ UNCHANGED loops
    /\ UNCHANGED <<req, write_queue, unsent, head, aborted>>

\* stat_cache_get_entry(), with the search for PATH_INFO
File ==
    /\ pc = "file"
    /\ \/ pc' = "start" /\ UNCHANGED con
       \/ \E s \in {403, 404, 500} : Finished(Status(con, s))           \* EACCES, ENOENT, others
       \/ Finished([Status(con, 301) EXCEPT !.file_finished = TRUE])    \* a directory without "/"
    /\ UNCHANGED <<req, write_queue, unsent, head, loops, aborted>>

\* handle_subrequest_start: a module answers, a gateway takes it, or nobody
Start ==
    /\ pc = "start"
    /\ \/ \E n \in 0..MaxContent, s \in {200, 206, 304} :
              /\ req.method \in {"GET", "POST", "HEAD"}
              /\ write_queue' = write_queue \o append_file(n)
              /\ Finished([Status(con, s) EXCEPT !.file_finished = TRUE])
       \/ con' = [con EXCEPT !.mode = "gateway"] /\ pc' = "subrequest" /\ UNCHANGED write_queue
       \/ Finished(Status(con, IF req.method = "OPTIONS" THEN 200 ELSE 403)) /\ UNCHANGED write_queue
    /\ UNCHANGED <<req, unsent, head, loops, aborted>>

-----------------------------------------------------------------------------
Running == con.mode = "gateway" /\ pc \in {"subrequest", "write"} /\ ~con.over

\* a backend without an answer: for another one, or 503
Comeback ==
    /\ pc = "subrequest" /\ ~con.file_started
    /\ \/ loops < MaxLoops /\ loops' = loops + 1 /\ pc' = "prepare" /\ con' = [con EXCEPT !.mode = "DIRECT"]
       \/ Finished([Status(con, 503) EXCEPT !.mode = "DIRECT"]) /\ UNCHANGED loops
    /\ UNCHANGED <<req, write_queue, unsent, head, aborted>>

\* the backend's header: with it (mod_cgi, mod_proxy) or with the first content (the
\* others) the answer becomes chunked
Chunks(length) == req.version = "1.1" /\ length = -1
Header ==
    /\ pc = "subrequest" /\ ~con.file_started
    /\ \E s \in {0, 204, 404}, length \in -1..MaxContent, wish \in {"none", "close", "keep-alive"}, early \in BOOLEAN :
           con' = [Status(con, s) EXCEPT !.file_started = TRUE, !.content_length = length, !.wish = wish,
                                         !.chunked = early /\ Chunks(length)]
    /\ UNCHANGED <<pc, req, write_queue, unsent, head, loops, aborted>>

\* nobody compares what the backend sends with what it has announced
Sent == Length(write_queue)
Data ==
    /\ Running /\ con.file_started /\ ~con.file_finished
    /\ \E n \in 1..MaxContent - Sent :
           write_queue' = write_queue \o http_chunk_append_mem(Chunks(con.content_length), n)
    /\ con' = [con EXCEPT !.chunked = Chunks(con.content_length)]
    /\ unsent' = (pc = "write") /\ UNCHANGED <<pc, req, head, loops, aborted>>

End ==
    /\ Running /\ con.file_started /\ ~con.file_finished
    /\ write_queue' = write_queue \o http_chunk_append_mem(con.chunked, 0)
    /\ con' = [con EXCEPT !.file_finished = TRUE, !.over = TRUE]
    /\ unsent' = (pc = "write") /\ UNCHANGED <<pc, req, head, loops, aborted>>

\* an answer that was finished without its content (HEAD, 204): while its header is
\* unsent nothing holds the content back, which mod_fastcgi makes chunked again, ...
Silenced == Running /\ pc = "write" /\ unsent /\ con.file_finished
Late ==
    /\ Silenced /\ Sent < MaxContent
    /\ \E chunked \in {con.chunked, Chunks(con.content_length)} :
           /\ write_queue' = write_queue \o http_chunk_append_mem(chunked, 1)
           /\ con' = [con EXCEPT !.chunked = chunked, !.late = TRUE]
    /\ UNCHANGED <<pc, req, unsent, head, loops, aborted>>

\* ... nor its end, which mod_fastcgi writes and mod_cgi does not
LateEnd ==
    /\ Silenced
    /\ \/ write_queue' = write_queue \o http_chunk_append_mem(con.chunked, 0)
       \/ UNCHANGED write_queue
    /\ con' = [con EXCEPT !.over = TRUE]
    /\ UNCHANGED <<pc, req, unsent, head, loops, aborted>>

\* the backend is gone in the middle of the answer: CON_STATE_ERROR
Broken ==
    /\ Running /\ con.file_started /\ ~con.file_finished
    /\ pc' = "done" /\ aborted' = TRUE
    /\ UNCHANGED <<req, con, write_queue, unsent, head, loops>>

\* http_response_prepare() again: content or the end of it, never the header alone, has
\* put the connection on the joblist
Subrequest ==
    /\ pc = "subrequest" /\ con.file_started /\ (Sent > 0 \/ con.file_finished)
    /\ Finished(con) /\ UNCHANGED <<req, write_queue, unsent, head, loops, aborted>>

-----------------------------------------------------------------------------
\* connection_handle_write_prepare(), in its order: what the method allows, ...
ForMethod(c) ==
    CASE c.mode # "DIRECT" -> c
      [] c.mode = "DIRECT" /\ req.method = "OPTIONS" ->
            IF c.http_status = 200 /\ ~req.star
            THEN [c EXCEPT !.chunked = FALSE, !.content_length = -1, !.file_finished = TRUE] ELSE c
      [] c.mode = "DIRECT" /\ req.method = "unknown" ->
            IF c.http_status \in {400, 414, 505, 207} THEN c ELSE Status(c, 501)
      [] OTHER -> c
NoContent(s) == s \in {204, 205, 304}
Page(c) == c.mode = "DIRECT" /\ c.http_status \in 400..599

\* ... the content that the status has, ...
ForStatus(c) ==
    IF NoContent(c.http_status) THEN [c EXCEPT !.chunked = FALSE, !.content_length = -1, !.file_finished = TRUE]
    ELSE IF Page(c) THEN [c EXCEPT !.file_finished = TRUE] ELSE c
Body(c, queue) ==
    IF NoContent(c.http_status) THEN <<>>
    ELSE IF Page(c) THEN queue \o Content(IF error_file THEN 2 ELSE 1) ELSE queue

\* ... how the client knows its length, ...
NoLength(s) == s \in 100..199 \cup {204, 304}
Told(c, queue) ==
    IF c.file_finished /\ c.content_length = -1 /\ ~c.chunked
    THEN IF NoLength(c.http_status) \/ (Length(queue) = 0 /\ req.method = "HEAD") THEN -1 ELSE Length(queue)
    ELSE c.content_length
EndsByClosing(c) == ~c.file_finished /\ c.content_length = -1 /\ ~c.chunked
KeepAlive(c) ==
    c.keep_alive /\ ~EndsByClosing(c) /\ ~(~c.file_finished /\ c.wish = "close")

\* ... and HEAD
ResponseStart ==
    /\ pc = "respstart" /\ pc' = "write"
    /\ LET c == ForStatus(ForMethod(con))
           emptied == req.method = "OPTIONS" /\ c.mode = "DIRECT" /\ c.http_status = 200 /\ ~req.star
           queue == Body(c, IF emptied THEN <<>> ELSE write_queue)
           isHead == req.method = "HEAD"
           chunked == c.chunked /\ ~isHead
           keep == KeepAlive(c)
       IN  /\ con' = [c EXCEPT !.keep_alive = keep, !.chunked = chunked, !.file_finished = @ \/ isHead]
           /\ write_queue' = <<Item("head", 0)>> \o (IF isHead THEN <<>> ELSE queue)
           /\ head' = [status |-> c.http_status, length |-> Told(c, queue), chunked |-> chunked, close |-> ~keep]
    /\ unsent' = TRUE
    /\ UNCHANGED <<req, loops, aborted>>

\* connection_handle_write(): everything is written, and finished or not
Write ==
    /\ pc = "write" /\ unsent /\ unsent' = FALSE
    /\ pc' = IF con.file_finished THEN "done" ELSE pc
    /\ UNCHANGED <<req, con, write_queue, head, loops, aborted>>

Reset ==
    /\ pc = "done" /\ pc' = "idle" /\ req' = NoRequest /\ con' = NoAnswer /\ write_queue' = <<>>
    /\ unsent' = FALSE /\ head' = NoHead /\ loops' = 0 /\ aborted' = FALSE

Next ==
    \/ \E r \in Requests : Arrive(r)
    \/ Prepare \/ Hook \/ File \/ Start \/ Comeback \/ Header \/ Data \/ End \/ Late \/ LateEnd \/ Broken
    \/ Subrequest \/ ResponseStart \/ Write \/ Reset

Spec == Init /\ [][Next]_vars

-----------------------------------------------------------------------------
TypeOK ==
    /\ pc \in Places \cup Range(Hooks)
    /\ loops \in 0..MaxLoops /\ {unsent, aborted} \subseteq BOOLEAN

Complete == pc = "done" /\ ~aborted
Rest == Tail(write_queue)
IsChunk(k) == /\ Rest[k].kind = "length" /\ Rest[k + 1] = Item("data", Rest[k].n)
              /\ Rest[k + 2].kind = "end"

(***************************************************************************)
(* A client that is to use the connection again can tell where the answer  *)
(* ends: it has no content, or chunks and a last one, or its length -      *)
(* whoever finished it, before or after its header was written.  Two       *)
(* things are up to a backend: the length that it has announced is passed  *)
(* on and what it sends is not compared with it, and its content may come  *)
(* behind the header of an answer that has none.                           *)
(***************************************************************************)
Bodiless == req.method = "HEAD" \/ NoContent(head.status)
AnswerFramed ==
    Complete /\ ~head.close =>
        /\ write_queue[1].kind = "head" /\ (con.late => Bodiless)
        /\ IF Bodiless THEN Rest # <<>> => con.late
           ELSE IF head.chunked
           THEN /\ Len(Rest) % 3 = 1 /\ Last(Rest).kind = "last"
                /\ \A k \in 1..Len(Rest) - 1 : k % 3 = 1 => IsChunk(k)
           ELSE /\ \A k \in 1..Len(Rest) : Rest[k].kind = "data"
                /\ head.length = IF con.content_length # -1 THEN con.content_length ELSE Length(Rest)

(***************************************************************************)
(* The connection is kept just when the client was told so.                *)
(***************************************************************************)
KeepAliveTold == Complete => head.close = ~con.keep_alive

(***************************************************************************)
(* An error handler that does not answer either leaves the status of the   *)
(* first attempt; one that answers takes the place of the error page.      *)
(***************************************************************************)
StatusKept ==
    Complete /\ con.in_error_handler =>
        /\ con.saved \in {403, 404}
        /\ con.mode = "DIRECT" /\ head.status \in {403, 404} => head.status = con.saved
        /\ con.mode = "gateway" => Length(Rest) = Sent

(***************************************************************************)
(* An error page comes alone, and HTTP/1.0 never gets chunks.              *)
(***************************************************************************)
PageAlone ==
    /\ Complete /\ con.mode = "DIRECT" /\ head.status \in 400..599 => Len(Rest) <= 1
    /\ head.chunked => req.version = "1.1"

ResponseRight == AnswerFramed /\ KeepAliveTold /\ StatusKept /\ PageAlone
=============================================================================
