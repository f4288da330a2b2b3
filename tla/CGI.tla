--------------------------------- MODULE CGI ---------------------------------
(***************************************************************************)
(* mod_cgi: a request runs a script as a child process and answers with    *)
(* what the child writes to a pipe.  Whether the child still lives, what   *)
(* the pipe holds and how far the answer is are learnt at different times: *)
(* by the connection's state machine, by events of the pipe, when the      *)
(* connection goes, and once a second for children nobody waits for.       *)
(*                                                                         *)
(* A pid is used again once its process has been waited for.  Reading from *)
(* a pipe does not fail, and waitpid() only for a process that is no child *)
(* (which ChildrenKnown excludes): what the code does then is left out.    *)
(***************************************************************************)
EXTENDS Integers, Sequences, FiniteSets

CONSTANTS
    Requests,               \* connections
    Pids,
    MaxStarts               \* bound: scripts that are started

NoPid == 0
CGIAssumption ==            \* no child and no request is called by what means "none"
    /\ IsFiniteSet(Requests) /\ NoPid \notin Requests /\ NoPid \notin Pids
    /\ MaxStarts \in Nat

VARIABLES
    con,                    \* what the connection knows of its answer
    hctx,                   \* handler_ctx of each connection, and its pipe
    proc,                   \* the kernel's table of children
    cgi_pid,                \* children that nobody waits for
    fds,                    \* descriptors of pipes that are open
    starts

vars == <<con, hctx, proc, cgi_pid, fds, starts>>

\* What a script writes: both halves of a header, a body; text without an end of
\* line, and a line without a colon.  It may stop after any of them.
Scripts == {<<"header", "blank", "body">>, <<"text", "line">>}
Has(s, x) == \E k \in DOMAIN s : s[k] = x

NoCtx == [fd |-> FALSE, pid |-> NoPid, response_header |-> <<>>, unread |-> <<>>, writer |-> FALSE]
Free  == [phase |-> "free", mode |-> "direct", status |-> 0, file_started |-> FALSE,
          file_finished |-> FALSE, sent |-> <<>>, wrote |-> <<>>, joblist |-> FALSE]
NoProc == [state |-> "none", owner |-> NoPid, todo |-> <<>>, stdout |-> FALSE]

Init ==
    /\ con = [r \in Requests |-> Free] /\ hctx = [r \in Requests |-> NoCtx]
    /\ proc = [p \in Pids |-> NoProc] /\ cgi_pid = {} /\ fds = 0 /\ starts = 0

-----------------------------------------------------------------------------
(***************************************************************************)
(* A request is answered by a script.  pipe() or fork() may fail, the body *)
(* of the request may not be had (open() or mmap() of a temporary file),   *)
(* the script may not read it, and fcntl() may fail on the pipe.           *)
(***************************************************************************)
KeptPair(outcome) ==        \* mutant: the first pipe stays when there is no second
    CASE outcome \in {"ok", "unread"} -> 1 [] outcome = "pipe" -> 2 [] OTHER -> 0

\* descriptors that are still open when cgi_create_env() is done
Kept(outcome) == IF outcome \in {"ok", "unread"} THEN 1 ELSE 0

Forked(outcome) == outcome \in {"ok", "unread", "nobody", "fcntl"}
Child(r, script) == [state |-> "alive", owner |-> r, todo |-> script, stdout |-> TRUE]

cgi_create_env(r, outcome, script) ==
    /\ fds' = fds + Kept(outcome)
    /\ IF Forked(outcome)
       THEN \E p \in Pids :
               /\ proc[p].state = "none"
               /\ IF Kept(outcome) = 0      \* the child is left to itself
                  THEN /\ proc' = [proc EXCEPT ![p] = [Child(NoPid, <<>>) EXCEPT !.stdout = FALSE]]
                       /\ UNCHANGED hctx
                  ELSE /\ proc' = [proc EXCEPT ![p] = Child(r, script)]
                       /\ hctx' = [hctx EXCEPT ![r] =
                             [NoCtx EXCEPT !.fd = TRUE, !.pid = p, !.writer = TRUE]]
       ELSE UNCHANGED <<proc, hctx>>

cgi_is_handled(r) ==
    /\ con[r].phase = "free" /\ starts < MaxStarts /\ starts' = starts + 1
    /\ \E outcome \in {"ok", "unread", "nobody", "fcntl", "pipe", "fork"}, script \in Scripts :
          /\ cgi_create_env(r, outcome, script)
          /\ con' = [con EXCEPT ![r] =
                IF Kept(outcome) = 1
                THEN [Free EXCEPT !.phase = "handle", !.mode = "cgi", !.joblist = TRUE,
                                  !.status = IF outcome = "unread" THEN 500 ELSE 0]
                ELSE [Free EXCEPT !.phase = "write", !.status = 500, !.file_finished = TRUE]]
    /\ UNCHANGED cgi_pid

-----------------------------------------------------------------------------
(***************************************************************************)
(* cgi_connection_close(): the pipe is closed; a child that still lives is *)
(* told to end and kept in cgi_pid, one that is dead is waited for.        *)
(***************************************************************************)
Reaped(p) == [proc EXCEPT ![p] = NoProc]
Lonely(p) == cgi_pid \cup {p}

cgi_connection_close(r, c) ==
    LET p == hctx[r].pid IN
    /\ fds' = fds - 1 /\ hctx' = [hctx EXCEPT ![r] = NoCtx]
    /\ \/ p = NoPid /\ con' = [con EXCEPT ![r] = c] /\ UNCHANGED <<proc, cgi_pid>>
       \/ /\ p # NoPid /\ proc[p].state = "alive"
          /\ cgi_pid' = Lonely(p)
          /\ proc' = [proc EXCEPT ![p].state = "told", ![p].stdout = FALSE]
          /\ con' = [con EXCEPT ![r] = c]
       \/ /\ p # NoPid /\ proc[p].state \in {"exited", "killed"}
          /\ proc' = Reaped(p) /\ UNCHANGED cgi_pid
          /\ con' = [con EXCEPT ![r] =
                IF c.file_started \/ c.phase = "free" THEN c
                ELSE [c EXCEPT !.phase = "handle", !.status = 500, !.mode = "direct"]]

\* the client goes away
cgi_connection_close_callback(r) ==
    /\ con[r].phase # "free"
    /\ IF hctx[r].fd THEN cgi_connection_close(r, Free)
       ELSE con' = [con EXCEPT ![r] = Free] /\ UNCHANGED <<hctx, proc, cgi_pid, fds>>
    /\ UNCHANGED starts

-----------------------------------------------------------------------------
(***************************************************************************)
(* Events of the pipe.                                                     *)
(***************************************************************************)
After(s, x) == SubSeq(s, (CHOOSE k \in DOMAIN s : s[k] = x) + 1, Len(s))

LineOnly(s) ==              \* mutant: only the line that shows there is no header is kept
    CASE Has(s, "header") /\ Has(s, "blank") -> [started |-> TRUE, body |-> After(s, "blank")]
      [] ~Has(s, "header") /\ Has(s, "line") -> [started |-> TRUE, body |-> <<"line">>]
      [] OTHER -> [started |-> FALSE, body |-> <<>>]

\* response_header is a header with its end; lines that are none; or neither yet
Split(s) ==
    CASE Has(s, "header") /\ Has(s, "blank") -> [started |-> TRUE, body |-> After(s, "blank")]
      [] ~Has(s, "header") /\ Has(s, "line") -> [started |-> TRUE, body |-> s]
      [] OTHER -> [started |-> FALSE, body |-> <<>>]

\* all the pipe holds is read; its end may be met on the way
cgi_demux_response(r) ==
    LET c == con[r]
        header == hctx[r].response_header \o hctx[r].unread
        s == Split(header)
        d == IF c.file_started THEN [c EXCEPT !.sent = @ \o hctx[r].unread]
             ELSE IF s.started THEN [c EXCEPT !.file_started = TRUE, !.sent = s.body]
             ELSE c
    IN  /\ hctx[r].unread # <<>>
        /\ \/ /\ hctx[r].writer
              /\ con' = [con EXCEPT ![r] = [d EXCEPT !.joblist = TRUE]]
              /\ hctx' = [hctx EXCEPT ![r].unread = <<>>, ![r].response_header =
                             IF c.file_started THEN @ ELSE header]
              /\ UNCHANGED <<proc, cgi_pid, fds>>
           \/ /\ ~hctx[r].writer
              /\ cgi_connection_close(r, [d EXCEPT !.file_finished = TRUE, !.joblist = TRUE])

HungBegun(r) ==             \* mutant: without data it is ignored
    hctx[r].unread = <<>> /\ ~hctx[r].writer /\ con[r].file_started
Hung(r) == hctx[r].unread = <<>> /\ ~hctx[r].writer

(***************************************************************************)
(* Nothing but the end: an unfinished header "is a body in reality".  The  *)
(* final chunk (an empty one where the encoding is not chunked) is queued  *)
(* first, and where file_finished was set before, the header still is: so  *)
(* the write queue is not empty, and the request never ends right here.    *)
(***************************************************************************)
HangUp(r) ==
    LET late == ~con[r].file_started /\ hctx[r].response_header # <<>> IN
    /\ Hung(r)
    /\ cgi_connection_close(r,
          [con[r] EXCEPT !.file_started = @ \/ late, !.file_finished = TRUE, !.joblist = TRUE,
                         !.sent = IF late THEN hctx[r].response_header ELSE @])

cgi_handle_fdevent(r) ==
    /\ hctx[r].fd /\ ~con[r].joblist
    /\ cgi_demux_response(r) \/ HangUp(r)
    /\ UNCHANGED starts

-----------------------------------------------------------------------------
(***************************************************************************)
(* The connection's state machine asks for the answer, writes it, and ends *)
(* the request.                                                            *)
(***************************************************************************)
Respond(c, status) ==       \* a status that is set stays
    [c EXCEPT !.phase = "write", !.status = IF status # 0 THEN status ELSE IF @ = 0 THEN 200 ELSE @,
              !.file_finished = @ \/ status # 0 \/ c.mode = "direct"]

PidStays(h) == h            \* mutant: pid is not cleared
PidGone(h) == [h EXCEPT !.pid = NoPid]

mod_cgi_handle_subrequest(r) ==
    LET p == hctx[r].pid
        c == [con[r] EXCEPT !.joblist = FALSE]
        next == IF c.file_started THEN Respond(c, 0) ELSE c
    IN
    /\ c.phase = "handle" /\ con[r].joblist
    /\ \/ /\ ~hctx[r].fd                                \* nobody's, or an error already
          /\ con' = [con EXCEPT ![r] = Respond(c, 0)]
          /\ UNCHANGED <<hctx, proc, fds>>
       \/ /\ hctx[r].fd /\ (p = NoPid \/ (p # NoPid /\ proc[p].state = "alive"))
          /\ con' = [con EXCEPT ![r] = next] /\ UNCHANGED <<hctx, proc, fds>>
       \/ /\ hctx[r].fd /\ p # NoPid /\ proc[p].state \in {"exited", "killed"}
          /\ proc' = Reaped(p)
          /\ IF c.file_started \/ proc[p].state = "exited"
             THEN /\ hctx' = [hctx EXCEPT ![r] = PidGone(@)]
                  /\ con' = [con EXCEPT ![r] = next] /\ UNCHANGED fds
             ELSE /\ hctx' = [hctx EXCEPT ![r] = NoCtx] /\ fds' = fds - 1
                  /\ con' = [con EXCEPT ![r] = Respond([c EXCEPT !.mode = "direct"], 500)]
    /\ UNCHANGED <<cgi_pid, starts>>

\* what there is of the answer is written; with all of it, connection_reset()
Write(r) ==
    /\ con[r].phase = "write" /\ (con[r].joblist \/ con[r].file_finished)
    /\ IF ~con[r].file_finished
       THEN con' = [con EXCEPT ![r].joblist = FALSE] /\ UNCHANGED <<hctx, proc, cgi_pid, fds>>
       ELSE IF hctx[r].fd THEN cgi_connection_close(r, Free)
       ELSE con' = [con EXCEPT ![r] = Free] /\ UNCHANGED <<hctx, proc, cgi_pid, fds>>
    /\ UNCHANGED starts

Exited(p) == proc[p].state = "exited"    \* mutant: one that a signal has ended is kept
Over(p) == proc[p].state \in {"exited", "killed"}

\* each second: children that nobody waits for
cgi_trigger ==
    LET over == {p \in cgi_pid : Over(p)} IN
    /\ over # {}
    /\ cgi_pid' = cgi_pid \ over
    /\ proc' = [p \in Pids |-> IF p \in over THEN NoProc ELSE proc[p]]
    /\ UNCHANGED <<con, hctx, fds, starts>>

-----------------------------------------------------------------------------
(***************************************************************************)
(* A child writes (or finds nobody reading), closes its output, and ends,  *)
(* in an orderly way or not.                                               *)
(***************************************************************************)
Closed(p) ==
    IF proc[p].stdout THEN [hctx EXCEPT ![proc[p].owner].writer = FALSE] ELSE hctx

Script(p) ==
    LET r == proc[p].owner IN
    /\ proc[p].state \in {"alive", "told"}
    /\ \/ /\ proc[p].stdout /\ proc[p].todo # <<>>
          /\ hctx' = [hctx EXCEPT ![r].unread = Append(@, Head(proc[p].todo))]
          /\ con' = [con EXCEPT ![r].wrote = Append(@, Head(proc[p].todo))]
          /\ proc' = [proc EXCEPT ![p].todo = Tail(@)]
       \/ /\ proc[p].stdout /\ hctx' = Closed(p) /\ UNCHANGED con
          /\ proc' = [proc EXCEPT ![p].stdout = FALSE]
       \/ /\ hctx' = Closed(p) /\ UNCHANGED con
          /\ \E how \in {"exited", "killed"} :
                proc' = [proc EXCEPT ![p].state = how, ![p].stdout = FALSE]
    /\ UNCHANGED <<cgi_pid, fds, starts>>

Next ==
    \/ \E r \in Requests : \/ cgi_is_handled(r) \/ cgi_connection_close_callback(r)
                           \/ cgi_handle_fdevent(r) \/ mod_cgi_handle_subrequest(r)
                           \/ Write(r)
    \/ \E p \in Pids : Script(p)
    \/ cgi_trigger

\* the server goes on, and so do the scripts
Serve(r) == cgi_handle_fdevent(r) \/ mod_cgi_handle_subrequest(r) \/ Write(r)

-----------------------------------------------------------------------------
(***************************************************************************)
(* Properties.                                                             *)
(***************************************************************************)
TypeOK ==
    /\ \A r \in Requests : con[r].phase \in {"free", "handle", "write"} /\ hctx[r].pid \in Pids \cup {NoPid}
    /\ \A p \in Pids : proc[p].state \in {"none", "alive", "told", "exited", "killed"}
    /\ cgi_pid \subseteq Pids /\ fds \in 0..Cardinality(Requests)

(***************************************************************************)
(* Every child that has not been waited for is known in exactly one place: *)
(* to the request that has started it, or in cgi_pid.  So kill() and       *)
(* waitpid() are only used on the own child, never on a process that has   *)
(* got its number since, and no zombie is forgotten.  (A child whose       *)
(* request body or pipe could not be had is known to nobody.)              *)
(***************************************************************************)
ChildrenKnown ==
    \A p \in Pids :
        LET owners == {r \in Requests : hctx[r].pid = p} IN
        /\ \A r \in owners : proc[p].state # "none" /\ proc[p].owner = r
        /\ p \in cgi_pid => proc[p].state # "none" /\ owners = {}
        /\ proc[p].state # "none" /\ proc[p].owner # NoPid => owners # {} \/ p \in cgi_pid

(***************************************************************************)
(* However the start of a script, the script or the client ends, the only  *)
(* descriptors left open are those of requests that are being answered.    *)
(***************************************************************************)
DescriptorsKept == fds = Cardinality({r \in Requests : hctx[r].fd})

\* what the client is to get of what a script has written
Expected(wrote) ==
    IF Has(wrote, "blank") THEN SelectSeq(wrote, LAMBDA x : x \notin {"header", "blank"}) ELSE wrote

(***************************************************************************)
(* An answer that has begun has as content what the script has written     *)
(* behind its header, in order and in one piece, however it was split into *)
(* reads; when it ends, all of that.  A script's answer that ends without  *)
(* having begun has lost neither a header nor a line: at most text without *)
(* an end of line, which is what BodyInReality shows.                      *)
(***************************************************************************)
ContentKept ==
    \A r \in Requests :
        LET c == con[r] IN
        /\ c.file_started =>
              c.sent = Expected(SubSeq(c.wrote, 1, Len(c.wrote) - Len(hctx[r].unread)))
        /\ c.file_finished /\ ~c.file_started /\ c.mode = "cgi" => ~Split(c.wrote).started

(***************************************************************************)
(* What cgi_handle_fdevent() means to do at the end of the pipe: a header  *)
(* that has no end then "is a body in reality", and is sent.  It is so for *)
(* a HUP that comes alone; text that is read together with the end of the  *)
(* pipe (IN|HUP) goes with the handler_ctx.                                *)
(***************************************************************************)
BodyInReality ==
    \A r \in Requests :
        con[r].file_finished /\ con[r].mode = "cgi" => con[r].sent = Expected(con[r].wrote)

(***************************************************************************)
(* A request comes to its end once its script has, and a child that nobody *)
(* waits for is waited for in the end.                                     *)
(***************************************************************************)
Ends == \A r \in Requests : con[r].phase # "free" ~> con[r].phase = "free"
Collected == \A p \in Pids : p \in cgi_pid ~> p \notin cgi_pid
Fairness ==
    /\ \A r \in Requests : WF_vars(Serve(r))
    /\ \A p \in Pids : WF_vars(Script(p))
    /\ WF_vars(cgi_trigger)
Spec == Init /\ [][Next]_vars /\ Fairness
=============================================================================
