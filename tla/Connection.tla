----------------------------- MODULE Connection -----------------------------
(***************************************************************************)
(* One connection object of the server: connection_state_machine() of      *)
(* connections.c, the handlers that change the connection behind its back  *)
(* (connection_handle_fdevent, the per-second trigger of server.c, the     *)
(* events of a gateway backend as mod_proxy.c handles them) and the part   *)
(* of the main loop that decides when each of them runs.                   *)
(*                                                                         *)
(* One iteration of the "while (done == 0)" loop of the state machine is   *)
(* one action, so the client and the kernel can act between two of them.   *)
(* Bytes are abstracted to units: a unit either ends a request header      *)
(* ("end") or does not ("part"); a response is a number of chunks.         *)
(* Time stamps are kept as ages (cur_ts minus the stamp), cut off one      *)
(* second beyond the only value the code compares them with.               *)
(***************************************************************************)
EXTENDS Integers, Sequences

CONSTANTS
    MaxReadIdle,            \* server.max-read-idle, in seconds
    MaxKeepAliveIdle,       \* server.max-keep-alive-idle, in seconds
    MaxWriteIdle,           \* server.max-write-idle, in seconds
    Linger,                 \* HTTP_LINGER_TIMEOUT
    MaxKeepAliveRequests,   \* server.max-keep-alive-requests
    MaxHeader,              \* 64 KiB, in units
    MaxBody,                \* longest request content, in units
    MaxChunks,              \* chunks one handler leaves in write_queue
    MaxRx,                  \* bound: units in the receive buffer
    Hosts,                  \* backends a gateway request can be tried on
    MaxFdWait,              \* bound: entries of the connection in fdwaitqueue
    MaxJump,                \* bound: seconds the clock advances at once
    ErrorHandler,           \* server.error-handler-404 is set
    Throttled               \* a kbytes-per-second limit is set

ASSUME ConnectionAssumption ==
    /\ {MaxReadIdle, MaxKeepAliveIdle, MaxWriteIdle, Linger} \subseteq Nat
    /\ {MaxKeepAliveRequests, MaxHeader, MaxBody, MaxChunks, MaxRx,
        Hosts, MaxFdWait, MaxJump} \subseteq Nat
    /\ MaxJump > 0
    /\ {ErrorHandler, Throttled} \subseteq BOOLEAN

VARIABLES
    state,                  \* con->state
    keep_alive, http_status, mode, in_error_handler, request_count,
    file_started, file_finished, is_readable, is_writable,
    traffic_limit_reached,
    read_queue,             \* units of con->read_queue
    write_queue,            \* number of chunks of con->write_queue
    missing,                \* content units still to come (READ_POST)
    read_idle, write_idle, close_idle,   \* ages of the three time stamps
    interest,               \* what epoll waits for on con->fd
    joblist,                \* how often the connection is in the joblist
    fdwaitqueue,            \* how often it is in the fdwaitqueue
    gateway, hosts,         \* backend connection; backends not yet disabled
    phase, ready,           \* main loop: its phase, descriptors still to dispatch
    pc, entry,              \* inside the state machine?  state it was entered in
    rx, peer, room,         \* kernel socket: received units, client, send buffer
    logged,                 \* handle_request_done calls for this request
    con_open                \* con_opened - con_closed

reqvars  == <<http_status, mode, in_error_handler, file_started, file_finished>>
iovars   == <<is_readable, is_writable, traffic_limit_reached>>
idlevars == <<read_idle, write_idle, close_idle>>
loopvars == <<phase, ready>>
sockvars == <<rx, peer, room>>
acctvars == <<logged, con_open>>

vars == <<state, keep_alive, reqvars, request_count, iovars, read_queue,
          write_queue, missing, idlevars, interest, joblist, fdwaitqueue,
          gateway, hosts, loopvars, pc, entry, sockvars, acctvars>>

States == {"connect", "reqstart", "read", "reqend", "readpost", "handlereq",
           "respstart", "write", "respend", "error", "close"}

Unset == -1                      \* write_request_ts == 0: never written
Older(age, limit, seconds) ==
    IF age + seconds > limit THEN limit + 1 ELSE age + seconds

(***************************************************************************)
(* http_status: 0, 200, 404 (also stands for 403, the other status the     *)
(* error handler takes) and 500 (every other error).                       *)
(***************************************************************************)
Statuses == {0, 200, 404, 500}

Units == {"part", "end"}         \* of received data

TypeOK ==
    /\ state \in States /\ entry \in States /\ pc \in {"idle", "machine"}
    /\ http_status \in Statuses /\ mode \in {"DIRECT", "gateway"}
    /\ keep_alive \in BOOLEAN /\ in_error_handler \in BOOLEAN
    /\ file_started \in BOOLEAN /\ file_finished \in BOOLEAN
    /\ is_readable \in BOOLEAN /\ is_writable \in BOOLEAN
    /\ traffic_limit_reached \in BOOLEAN
    /\ read_queue \in Seq(Units) /\ write_queue \in Nat /\ missing \in Nat
    /\ read_idle \in Nat /\ write_idle \in Nat \cup {Unset} /\ close_idle \in Nat
    /\ interest \in {"none", "IN", "OUT"}
    /\ joblist \in Nat /\ fdwaitqueue \in Nat
    /\ gateway \in {"none", "connecting", "running", "broken"} /\ hosts \in 0..Hosts
    /\ phase \in {"trigger", "fdwait", "dispatch", "jobs"}
    /\ ready \subseteq {"listen", "client", "gateway"}
    /\ rx \in Seq(Units) /\ room \in BOOLEAN
    /\ peer \in {"none", "open", "eof", "rst", "gone"}
    /\ request_count \in Nat /\ logged \in Nat /\ con_open \in Int

Init ==
    /\ state = "connect" /\ entry = "connect" /\ pc = "idle"
    /\ keep_alive = FALSE /\ http_status = 0 /\ mode = "DIRECT"
    /\ in_error_handler = FALSE /\ request_count = 0
    /\ file_started = FALSE /\ file_finished = FALSE
    /\ is_readable = TRUE /\ is_writable = TRUE /\ traffic_limit_reached = FALSE
    /\ read_queue = <<>> /\ write_queue = 0 /\ missing = 0
    /\ read_idle = 0 /\ write_idle = Unset /\ close_idle = 0
    /\ interest = "none" /\ joblist = 0 /\ fdwaitqueue = 0
    /\ gateway = "none" /\ hosts = Hosts
    /\ phase = "trigger" /\ ready = {}
    /\ rx = <<>> /\ peer = "none" /\ room = FALSE
    /\ logged = 0 /\ con_open = 0

-----------------------------------------------------------------------------
(***************************************************************************)
(* The client and the kernel.                                              *)
(***************************************************************************)
ClientVars == <<state, keep_alive, reqvars, request_count, iovars, read_queue,
                write_queue, missing, idlevars, interest, joblist, fdwaitqueue,
                gateway, hosts, loopvars, pc, entry, acctvars>>

\* connect(2): the connection waits in the listen queue
ClientConnect ==
    /\ peer = "none" /\ state = "connect" /\ pc = "idle"
    /\ peer' = "open" /\ rx' = <<>> /\ room' = TRUE
    /\ UNCHANGED ClientVars

ClientSend(unit) ==
    /\ peer = "open" /\ Len(rx) < MaxRx
    /\ rx' = Append(rx, unit)
    /\ UNCHANGED <<ClientVars, peer, room>>

ClientReceive ==
    /\ peer \in {"open", "eof"} /\ ~room
    /\ room' = TRUE
    /\ UNCHANGED <<ClientVars, rx, peer>>

\* FIN: no more data, but the client still receives
ClientFinish ==
    /\ peer = "open"
    /\ peer' = "eof"
    /\ UNCHANGED <<ClientVars, rx, room>>

\* RST: the kernel drops what was received
ClientReset ==
    /\ peer \in {"open", "eof"}
    /\ peer' = "rst" /\ rx' = <<>>
    /\ UNCHANGED <<ClientVars, room>>

\* the client host is gone: no packet ever again
ClientVanish ==
    /\ peer \in {"open", "eof"}
    /\ peer' = "gone"
    /\ UNCHANGED <<ClientVars, rx, room>>

Client == \/ ClientConnect \/ ClientReceive \/ ClientFinish \/ ClientReset
          \/ ClientVanish
          \/ \E unit \in Units : ClientSend(unit)

-----------------------------------------------------------------------------
(***************************************************************************)
(* Reading.                                                                *)
(***************************************************************************)

From(q, n) == SubSeq(q, n + 1, Len(q))

EndsOnLast(q, n) == n = Len(q) /\ q[n] = "end"                   \* mutant
HeaderEnds(q, n) == q[n] = "end" /\ \A i \in 1..(n - 1) : q[i] # "end"
Terminated(q) == \E n \in 1..Len(q) : HeaderEnds(q, n)

\* READ: look for the end of the header in everything read so far
ScanHeader(q, closed) ==
    \/ /\ \E n \in 1..Len(q) : HeaderEnds(q, n) /\ read_queue' = From(q, n)
       /\ state' = "reqend"
       /\ UNCHANGED <<http_status, keep_alive>>
    \/ /\ ~Terminated(q) /\ Len(q) > MaxHeader         \* 414
       /\ read_queue' = q
       /\ http_status' = 500 /\ keep_alive' = FALSE
       /\ state' = "handlereq"
    \/ /\ ~Terminated(q) /\ Len(q) <= MaxHeader
       /\ read_queue' = q
       /\ state' = IF closed THEN "error" ELSE "read"
       /\ UNCHANGED <<http_status, keep_alive>>

\* READ_POST: move the content to request_content_queue; a temporary file
\* that cannot be written turns the request into a 413
StoreContent(q, closed) ==
    LET n == IF Len(q) < missing THEN Len(q) ELSE missing IN
    \/ /\ read_queue' = From(q, n)
       /\ missing' = missing - n
       /\ state' = IF missing = n THEN "handlereq"
                   ELSE IF closed THEN "error" ELSE "readpost"
       /\ UNCHANGED <<http_status, keep_alive>>
    \/ \E k \in 0..(n - 1) :
          /\ read_queue' = From(q, k)
          /\ missing' = missing - k
          /\ http_status' = 500 /\ keep_alive' = FALSE
          /\ state' = "handlereq"

\* connection_handle_read_state() entered with con->is_readable = readable
HandleReadState(readable) ==
    \/ /\ readable /\ rx = <<>> /\ peer = "rst"          \* ECONNRESET
       /\ state' = "error" /\ is_readable' = FALSE /\ read_idle' = 0
       /\ UNCHANGED <<read_queue, missing, http_status, keep_alive, rx>>
    \/ \E n \in 0..Len(rx) :
          /\ n = 0 <=> ~readable \/ rx = <<>>
          /\ ~(readable /\ rx = <<>> /\ peer = "rst")
          /\ rx' = From(rx, n)
          /\ read_idle' = IF readable THEN 0 ELSE read_idle
          /\ is_readable' \in IF n > 0 THEN BOOLEAN ELSE {FALSE}
          /\ LET q      == read_queue \o SubSeq(rx, 1, n)
                 closed == readable /\ rx = <<>> /\ peer = "eof"
             IN  IF state = "read"
                 THEN ScanHeader(q, closed) /\ UNCHANGED missing
                 ELSE StoreContent(q, closed)

(***************************************************************************)
(* Writing: connection_handle_write() with network_write_chunkqueue(),      *)
(* called with "jobs" entries of the connection in the joblist.             *)
(***************************************************************************)

\* the whole server has used up its bytes of this second
GlobalLimit(jobs) ==
    /\ Throttled
    /\ traffic_limit_reached' = TRUE /\ joblist' = jobs + 1
    /\ is_writable' = FALSE
    /\ UNCHANGED <<state, write_queue, room>>

HandleWrite(jobs) ==
    \/ GlobalLimit(jobs)
    \/ /\ peer = "rst"
       /\ state' = "error" /\ joblist' = jobs + 1
       /\ is_writable' = TRUE
       /\ UNCHANGED <<traffic_limit_reached, write_queue, room>>
    \/ /\ peer # "rst"
       /\ \E n \in 0..write_queue, limit \in IF Throttled THEN BOOLEAN ELSE {FALSE} :
             LET complete == n = 0 /\ file_finished IN
             /\ write_queue' = n
             /\ IF room /\ n < write_queue THEN room' \in BOOLEAN
                                           ELSE n = write_queue /\ room' = FALSE
             /\ traffic_limit_reached' = (traffic_limit_reached \/ limit)
             /\ is_writable' = (n = 0)
             /\ state' = IF complete THEN "respend" ELSE "write"
             /\ joblist' = jobs + (IF limit THEN 1 ELSE 0) + (IF complete THEN 1 ELSE 0)

\* mutant: only when something was written
StampProgress == write_idle' = IF state' = "write" /\ write_queue' < write_queue
                               THEN 0 ELSE write_idle

\* the stamp its callers set while the response is not complete
StampWrite == write_idle' = IF state' = "write" THEN 0 ELSE write_idle

-----------------------------------------------------------------------------
(***************************************************************************)
(* Parts shared by the iterations of the state machine.                    *)
(***************************************************************************)

\* mutant: the status survives
ResetKeepsStatus ==
    /\ is_readable' = TRUE /\ is_writable' = TRUE
    /\ file_finished' = FALSE /\ file_started' = FALSE
    /\ mode' = "DIRECT" /\ in_error_handler' = FALSE
    /\ missing' = 0 /\ write_queue' = 0
    /\ gateway' = "none" /\ UNCHANGED http_status

\* connection_reset(), with the handle_connection_reset hooks of the plugins
ConnectionReset ==
    /\ is_readable' = TRUE /\ is_writable' = TRUE
    /\ http_status' = 0 /\ file_finished' = FALSE /\ file_started' = FALSE
    /\ mode' = "DIRECT" /\ in_error_handler' = FALSE
    /\ missing' = 0 /\ write_queue' = 0
    /\ gateway' = "none"

\* shutdown(SHUT_WR) fails on a connection the client has reset; then
\* connection_close() gives the descriptor back at once
ShutdownOrClose ==
    \/ /\ peer # "rst"
       /\ close_idle' = 0 /\ state' = "close"
       /\ UNCHANGED sockvars
    \/ /\ peer = "rst"
       /\ state' = "connect"
       /\ peer' = "none" /\ rx' = <<>> /\ room' = FALSE
       /\ UNCHANGED close_idle

\* mutant: READ_POST is forgotten
WantedNoPost ==
    IF state \in {"read", "close"} THEN "IN"
    ELSE IF state = "write" /\ write_queue > 0 /\ ~is_writable /\ ~traffic_limit_reached
         THEN "OUT" ELSE "none"

\* the fdevent a connection is left with when the machine stops
WantedInterest ==
    IF state \in {"read", "readpost", "close"} THEN "IN"
    ELSE IF state = "write" /\ write_queue > 0 /\ ~is_writable /\ ~traffic_limit_reached
         THEN "OUT" ELSE "none"

\* "while (done == 0)": go on as long as the state changes
Loop(again) ==
    IF again \/ state' # state
    THEN /\ pc' = "machine" /\ entry' = entry
         /\ interest' = IF state' = "connect" THEN "none" ELSE interest
    ELSE /\ pc' = "idle" /\ entry' = "connect"
         /\ interest' = WantedInterest'

In(s) == pc = "machine" /\ state = s

-----------------------------------------------------------------------------
(***************************************************************************)
(* The iterations of connection_state_machine(), one per case.             *)
(***************************************************************************)
ConRequestStart ==
    /\ In("reqstart")
    /\ read_idle' = 0 /\ request_count' = request_count + 1 /\ logged' = 0
    /\ state' = "read" /\ Loop(FALSE)
    /\ UNCHANGED <<keep_alive, reqvars, iovars, read_queue, write_queue, missing,
                   write_idle, close_idle, joblist, fdwaitqueue, gateway, hosts,
                   loopvars, sockvars, con_open>>

\* http_request_parse(): a bad request, a request with content, any other
ConRequestEnd ==
    /\ In("reqend")
    /\ \/ /\ http_status' = 500
          /\ keep_alive' \in {FALSE, keep_alive}         \* as it was: 505
          /\ state' = "handlereq" /\ UNCHANGED missing
       \/ /\ keep_alive' \in BOOLEAN /\ missing' \in 1..MaxBody
          /\ state' = "readpost" /\ UNCHANGED http_status
       \/ /\ keep_alive' \in BOOLEAN
          /\ state' = "handlereq" /\ UNCHANGED <<http_status, missing>>
    /\ Loop(FALSE)
    /\ UNCHANGED <<mode, in_error_handler, file_started, file_finished,
                   request_count, iovars, read_queue, write_queue, idlevars,
                   joblist, fdwaitqueue, gateway, hosts, loopvars, sockvars,
                   acctvars>>

\* HANDLER_FINISHED from http_response_prepare() with con->http_status = status
Finished(status) ==
    IF mode = "DIRECT" /\ status = 404 /\ ErrorHandler /\ ~in_error_handler
    THEN /\ http_status' = 0 /\ in_error_handler' = TRUE
         /\ state' = "handlereq" /\ Loop(TRUE)
    ELSE /\ http_status' = IF status = 0 THEN 200 ELSE status
         /\ state' = "respstart" /\ Loop(FALSE)
         /\ UNCHANGED in_error_handler

\* HANDLER_WAIT_FOR_EVENT and HANDLER_WAIT_FOR_FD
Wait == /\ state' = "handlereq" /\ Loop(FALSE)
        /\ UNCHANGED <<http_status, in_error_handler>>

\* someone has already made a decision
AlreadyDecided ==
    /\ mode = "DIRECT" /\ http_status \notin {0, 200}
    /\ write_queue' = IF file_finished THEN write_queue ELSE 0
    /\ Finished(http_status)
    /\ UNCHANGED <<mode, file_finished, gateway, hosts, joblist, fdwaitqueue>>

\* a handler answers: the whole content is queued, or an error status is left
Answered ==
    /\ mode = "DIRECT" /\ http_status \in {0, 200}
    /\ \/ /\ \E n \in 0..MaxChunks : write_queue' = write_queue + n
          /\ file_finished' = TRUE /\ Finished(200)
       \/ /\ \E status \in {404, 500} : Finished(status)
          /\ UNCHANGED <<write_queue, file_finished>>
    /\ UNCHANGED <<mode, gateway, hosts, joblist, fdwaitqueue>>

\* proxy_write_request() failed: the host is disabled and the request starts over
HostFailed ==
    /\ fdwaitqueue < MaxFdWait
    /\ gateway' = "none" /\ hosts' = hosts - 1 /\ mode' = "DIRECT"
    /\ joblist' = joblist + 1 /\ fdwaitqueue' = fdwaitqueue + 1
    /\ Wait

\* a gateway takes the request; without a usable host it answers 500
ToGateway ==
    /\ mode = "DIRECT" /\ http_status \in {0, 200}
    /\ \/ /\ hosts > 0 /\ HostFailed
       \/ /\ hosts > 0 /\ mode' = "gateway" /\ gateway' \in {"connecting", "running"} /\ Wait
          /\ UNCHANGED <<hosts, joblist, fdwaitqueue>>
       \/ /\ hosts = 0 /\ mode' = mode /\ Finished(500)
          /\ UNCHANGED <<gateway, hosts, joblist, fdwaitqueue>>
    /\ UNCHANGED <<write_queue, file_finished>>

\* mod_proxy_handle_subrequest() called again for a request a gateway has
InGateway ==
    /\ mode = "gateway"
    /\ \/ /\ file_started \/ gateway = "none"
          /\ mode' = mode /\ Finished(http_status)
          /\ UNCHANGED <<gateway, hosts, joblist, fdwaitqueue>>
       \/ /\ ~file_started /\ gateway # "none" /\ mode' = mode
          /\ gateway' \in IF gateway = "connecting" THEN {"connecting", "running"}
                                                    ELSE {gateway}
          /\ Wait
          /\ UNCHANGED <<hosts, joblist, fdwaitqueue>>
       \/ /\ gateway = "connecting" /\ HostFailed
    /\ UNCHANGED <<write_queue, file_finished>>

\* HANDLER_ERROR
HandlerError ==
    /\ state' = "error" /\ Loop(FALSE)
    /\ UNCHANGED <<http_status, mode, in_error_handler, file_finished, write_queue,
                   gateway, hosts, joblist, fdwaitqueue>>

ConHandleRequest ==
    /\ In("handlereq")
    /\ AlreadyDecided \/ Answered \/ ToGateway \/ InGateway \/ HandlerError
    /\ UNCHANGED <<keep_alive, file_started, request_count, iovars, read_queue,
                   missing, idlevars, loopvars, sockvars, acctvars>>

\* mutant
LimitedOneLater(keep) ==
    keep /\ request_count <= MaxKeepAliveRequests + 1 /\ MaxKeepAliveIdle > 0

\* con->keep_alive as http_response_write_header() leaves it
Limited(keep) == keep /\ request_count <= MaxKeepAliveRequests /\ MaxKeepAliveIdle > 0

\* connection_handle_write_prepare(): header only, error page, or the response
\* as the handler left it
ConResponseStart ==
    /\ In("respstart")
    /\ \/ /\ write_queue' = 1 /\ file_finished' = TRUE
          /\ \E keep \in {keep_alive, keep_alive /\ file_finished} : keep_alive' = Limited(keep)
       \/ /\ mode = "DIRECT" /\ http_status \notin {0, 200}
          /\ write_queue' = write_queue + 2 /\ file_finished' = TRUE
          /\ keep_alive' = Limited(keep_alive)
       \/ /\ mode # "DIRECT" \/ http_status \in {0, 200}
          /\ write_queue' = write_queue + 1 /\ UNCHANGED file_finished
          /\ \E keep \in {keep_alive, keep_alive /\ file_finished} : keep_alive' = Limited(keep)
    /\ state' = "write" /\ Loop(FALSE)
    /\ UNCHANGED <<http_status, mode, in_error_handler, file_started, request_count,
                   iovars, read_queue, missing, idlevars, joblist, fdwaitqueue,
                   gateway, hosts, loopvars, sockvars, acctvars>>

ConResponseEnd ==
    /\ In("respend")
    /\ logged' = logged + 1
    /\ \/ /\ keep_alive
          /\ state' = "reqstart" /\ UNCHANGED <<close_idle, sockvars, con_open>>
       \/ /\ ~keep_alive
          /\ ShutdownOrClose /\ con_open' = con_open - 1
    /\ ConnectionReset /\ Loop(FALSE)
    /\ UNCHANGED <<keep_alive, request_count, traffic_limit_reached, read_queue,
                   read_idle, write_idle, joblist, fdwaitqueue, hosts, loopvars>>

\* mutant: the queue is not reset
ConConnectKeepsQueue ==
    /\ In("connect")
    /\ request_count' = 0
    /\ state' = "connect" /\ Loop(FALSE)
    /\ UNCHANGED <<keep_alive, reqvars, iovars, read_queue, write_queue, missing,
                   idlevars, joblist, fdwaitqueue, gateway, hosts, loopvars,
                   sockvars, acctvars>>

ConConnect ==
    /\ In("connect")
    /\ read_queue' = <<>> /\ request_count' = 0
    /\ state' = "connect" /\ Loop(FALSE)
    /\ UNCHANGED <<keep_alive, reqvars, iovars, write_queue, missing, idlevars,
                   joblist, fdwaitqueue, gateway, hosts, loopvars, sockvars, acctvars>>

\* the read() of a lingering close; an end of the stream makes the age expire
Drain(age) ==
    IF rx = <<>>
    THEN /\ close_idle' = IF peer \in {"eof", "rst"} THEN Linger + 1 ELSE age
         /\ UNCHANGED rx
    ELSE /\ \E n \in 1..Len(rx) : rx' = From(rx, n)
         /\ close_idle' = age

ConClose ==
    /\ In("close")
    /\ \/ /\ Drain(close_idle) /\ close_idle' <= Linger
          /\ state' = "close" /\ UNCHANGED <<peer, room>>
       \/ /\ close_idle' = (IF rx = <<>> /\ peer \in {"eof", "rst"} THEN Linger + 1
                                                                ELSE close_idle)
          /\ close_idle' > Linger
          /\ state' = "connect" /\ peer' = "none" /\ rx' = <<>> /\ room' = FALSE
    /\ Loop(FALSE)
    /\ UNCHANGED <<keep_alive, reqvars, request_count, iovars, read_queue,
                   write_queue, missing, read_idle, write_idle, joblist,
                   fdwaitqueue, gateway, hosts, loopvars, acctvars>>

ConRead ==
    /\ In("read") \/ In("readpost")
    /\ HandleReadState(is_readable) /\ Loop(FALSE)
    /\ UNCHANGED <<mode, in_error_handler, file_started, file_finished,
                   request_count, is_writable, traffic_limit_reached, write_queue,
                   write_idle, close_idle, joblist, fdwaitqueue, gateway, hosts,
                   loopvars, peer, room, acctvars>>

ConWrite ==
    /\ In("write")
    /\ IF write_queue > 0 /\ is_writable
       THEN HandleWrite(joblist) /\ StampWrite
       ELSE /\ state' = "write"
            /\ UNCHANGED <<write_queue, room, is_writable, traffic_limit_reached,
                           joblist, write_idle>>
    /\ Loop(FALSE)
    /\ UNCHANGED <<keep_alive, reqvars, request_count, is_readable, read_queue,
                   missing, read_idle, close_idle, fdwaitqueue, gateway, hosts,
                   loopvars, rx, peer, acctvars>>

\* even if the connection was dropped an answered request is logged
NothingLogged == logged' = logged                                \* mutant
LogAnswered == logged' = IF http_status # 0 THEN logged + 1 ELSE logged

ConError ==
    /\ In("error")
    /\ LogAnswered
    /\ ShutdownOrClose /\ ConnectionReset
    /\ keep_alive' = FALSE /\ con_open' = con_open - 1
    /\ Loop(FALSE)
    /\ UNCHANGED <<request_count, traffic_limit_reached, read_queue, read_idle,
                   write_idle, joblist, fdwaitqueue, hosts, loopvars>>

StateMachine ==
    \/ ConRequestStart \/ ConRequestEnd \/ ConHandleRequest \/ ConResponseStart
    \/ ConResponseEnd \/ ConConnect \/ ConClose \/ ConRead \/ ConWrite \/ ConError

Enter(s) == pc' = "machine" /\ entry' = s

-----------------------------------------------------------------------------
(***************************************************************************)
(* Handlers the main loop dispatches.                                      *)
(***************************************************************************)

\* network_server_handle_fdevent(): accept the client, run the machine
Accept ==
    /\ phase = "dispatch" /\ pc = "idle" /\ "listen" \in ready
    /\ ready' = ready \ {"listen"}
    /\ ConnectionReset
    /\ state' = "reqstart" /\ Enter("reqstart")
    /\ con_open' = con_open + 1
    /\ UNCHANGED <<keep_alive, request_count, traffic_limit_reached, read_queue,
                   idlevars, interest, joblist, fdwaitqueue, hosts, phase, sockvars,
                   logged>>

\* both directions are shut: epoll reports EPOLLHUP whatever it waits for
HangUp == peer = "rst" \/ (peer = "eof" /\ state = "close")
Event(e) == \/ e = "IN"  /\ interest = "IN"  /\ (rx # <<>> \/ peer \in {"eof", "rst"})
            \/ e = "OUT" /\ interest = "OUT" /\ (room \/ peer = "rst")
ClientReadyUnasked == HangUp \/ Event("IN") \/ Event("OUT")      \* mutant
ClientReady == interest # "none" /\ (HangUp \/ Event("IN") \/ Event("OUT"))

\* connection_handle_fdevent()
HandleFdevent ==
    /\ phase = "dispatch" /\ pc = "idle" /\ "client" \in ready
    /\ ready' = ready \ {"client"}
    /\ LET readable == is_readable \/ Event("IN")
           writable == is_writable \/ Event("OUT")
       IN
       \/ /\ HangUp /\ state # "close"
          /\ state' = "error"
          /\ is_readable' = readable /\ is_writable' = writable /\ joblist' = joblist + 1
          /\ UNCHANGED <<traffic_limit_reached, read_queue, write_queue, missing,
                         http_status, keep_alive, idlevars, rx, room>>
       \/ /\ ~HangUp /\ state \in {"read", "readpost"}
          /\ HandleReadState(readable)
          /\ is_writable' = writable /\ joblist' = joblist + 1
          /\ UNCHANGED <<traffic_limit_reached, write_queue, write_idle, close_idle, room>>
       \/ /\ ~HangUp /\ state = "write" /\ write_queue > 0 /\ writable
          /\ HandleWrite(joblist + 1)
          /\ StampWrite
          /\ is_readable' = readable
          /\ UNCHANGED <<read_queue, missing, http_status, keep_alive, read_idle,
                         close_idle, rx>>
       \/ /\ state = "close"
          /\ Drain(IF HangUp THEN Linger + 1 ELSE close_idle)
          /\ is_readable' = readable /\ is_writable' = writable /\ joblist' = joblist + 1
          /\ UNCHANGED <<state, traffic_limit_reached, read_queue, write_queue, missing,
                         http_status, keep_alive, read_idle, write_idle, room>>
       \/ /\ ~HangUp /\ state \notin {"read", "readpost", "close"}
          /\ ~(state = "write" /\ write_queue > 0 /\ writable)
          /\ is_readable' = readable /\ is_writable' = writable /\ joblist' = joblist + 1
          /\ UNCHANGED <<state, traffic_limit_reached, read_queue, write_queue, missing,
                         http_status, keep_alive, idlevars, rx, room>>
    /\ UNCHANGED <<mode, in_error_handler, file_started, file_finished, request_count,
                   interest, fdwaitqueue, gateway, hosts, phase, pc, entry, peer,
                   acctvars>>

\* the backend's descriptor: proxy_handle_fdevent() and proxy_demux_response()
GatewayVars == <<keep_alive, request_count, iovars, read_queue, missing, idlevars,
                 interest, fdwaitqueue, phase, pc, entry, sockvars, acctvars>>

GwEvent == /\ phase = "dispatch" /\ pc = "idle" /\ "gateway" \in ready
           /\ ready' = ready \ {"gateway"}

\* FDEVENT_OUT: connect() succeeded, or more of the request was written; else
\* the host is disabled (so it is by the FDEVENT_HUP of a refused connect())
GwWrite ==
    /\ GwEvent /\ gateway = "connecting"
    /\ \/ /\ gateway' \in {"connecting", "running"} /\ UNCHANGED <<hosts, mode, joblist>>
       \/ /\ gateway' = "none" /\ hosts' = hosts - 1 /\ mode' = "DIRECT"
          /\ joblist' = joblist + 1
    /\ UNCHANGED <<GatewayVars, state, http_status, in_error_handler, file_started,
                   file_finished, write_queue>>

\* n chunks reach write_queue; an FDEVENT_HUP with them ends the response, and
\* its last, empty chunk makes sure that the queue is not empty
Deliver(n) ==
    \/ /\ write_queue' = write_queue + n /\ joblist' = joblist + n
       /\ UNCHANGED <<file_finished, gateway>>
    \/ /\ write_queue' = write_queue + n + 1 /\ joblist' = joblist + n + 1
       /\ file_finished' = TRUE /\ gateway' = "none"

\* part of the response header, all of it (with some content), or content
\* (bound: none while MaxChunks chunks wait)
GwRead ==
    /\ GwEvent /\ gateway = "running"
    /\ \/ /\ ~file_started /\ Deliver(0)
          /\ UNCHANGED <<file_started, http_status>>
       \/ /\ ~file_started /\ \E n \in {0, 1} : Deliver(n)
          /\ file_started' = TRUE /\ http_status' \in {200, 404}
       \/ /\ file_started /\ write_queue < MaxChunks /\ Deliver(1)
          /\ UNCHANGED <<file_started, http_status>>
    /\ UNCHANGED <<GatewayVars, state, mode, in_error_handler, hosts>>

\* end of the response: an empty chunk, as above
GwDone ==
    /\ GwEvent /\ gateway \in {"running", "broken"}
    /\ file_finished' = TRUE /\ write_queue' = write_queue + 1
    /\ gateway' = "none" /\ joblist' = joblist + 2
    /\ UNCHANGED <<GatewayVars, state, http_status, mode, in_error_handler,
                   file_started, hosts>>

AnswerWith500 == state' = "handlereq" /\ http_status' = 500 /\ mode' = "DIRECT"

\* kill the connection if the response might have been started
KillOrAnswer ==
    IF file_started
    THEN state' = "error" /\ UNCHANGED <<http_status, mode>>
    ELSE AnswerWith500

\* proxy_demux_response() == -1; the descriptor stays open until the reset
GwFailed ==
    /\ GwEvent /\ gateway = "running"
    /\ KillOrAnswer
    /\ gateway' = "broken" /\ joblist' = joblist + 1
    /\ UNCHANGED <<GatewayVars, in_error_handler, file_started, file_finished,
                   write_queue, hosts>>

Gateway == GwWrite \/ GwRead \/ GwDone \/ GwFailed

-----------------------------------------------------------------------------
(***************************************************************************)
(* The main loop of server.c, one phase after the other.                   *)
(***************************************************************************)
Rest == <<keep_alive, reqvars, request_count, is_readable, is_writable, read_queue,
          write_queue, missing, interest, gateway, sockvars, acctvars>>

\* the clock shows the second it showed before
SameSecond ==
    /\ phase = "trigger" /\ pc = "idle"
    /\ phase' = "fdwait"
    /\ UNCHANGED <<Rest, state, traffic_limit_reached, idlevars, joblist, fdwaitqueue,
                   hosts, ready, pc, entry>>

IdleLimit == IF request_count = 1 THEN MaxReadIdle ELSE MaxKeepAliveIdle

\* mutants: no check of the state; no write timeout
IdleInAnyState == read_idle' > IdleLimit
ReadTimedOut == state \in {"read", "readpost"} /\ read_idle' > IdleLimit

\* has the connection exceeded one of its two idle times?
TimedOut ==
    \/ state \in {"read", "readpost"} /\ read_idle' > IdleLimit
    \/ state = "write" /\ write_idle' # Unset /\ write_idle' > MaxWriteIdle

\* the connection may write again and has to be run
LimitLifted == traffic_limit_reached' # traffic_limit_reached

\* a new second: the trigger of mod_proxy re-enables hosts, the connection is
\* checked for timeouts and may be below its traffic limit again
NewSecond ==
    /\ phase = "trigger" /\ pc = "idle"
    /\ phase' = "fdwait"
    /\ hosts' \in hosts..Hosts
    /\ \E seconds \in 1..MaxJump :
          /\ read_idle' = Older(read_idle, IF MaxReadIdle > MaxKeepAliveIdle
                                           THEN MaxReadIdle ELSE MaxKeepAliveIdle, seconds)
          /\ write_idle' = IF write_idle = Unset THEN Unset
                           ELSE Older(write_idle, MaxWriteIdle, seconds)
          /\ close_idle' = Older(close_idle, Linger, seconds)
    /\ IF state = "connect"
       THEN UNCHANGED <<state, traffic_limit_reached, pc, entry>>
       ELSE /\ traffic_limit_reached' \in IF traffic_limit_reached THEN BOOLEAN ELSE {FALSE}
            /\ state' = IF TimedOut THEN "error" ELSE state
            /\ IF \/ TimedOut
                  \/ state = "close" /\ close_idle' > Linger
                  \/ LimitLifted
               THEN pc' = "machine" /\ entry' = state'
               ELSE UNCHANGED <<pc, entry>>
    /\ UNCHANGED <<Rest, joblist, fdwaitqueue, ready>>

\* an entry of the fdwaitqueue is taken out while descriptors are free
FdWaitPop ==
    /\ phase = "fdwait" /\ pc = "idle" /\ fdwaitqueue > 0
    /\ fdwaitqueue' = fdwaitqueue - 1
    /\ Enter(state)
    /\ UNCHANGED <<Rest, state, traffic_limit_reached, idlevars, joblist, hosts, loopvars>>

\* fdevent_poll(): every descriptor that is ready; a backend may be
Poll ==
    /\ phase = "fdwait" /\ pc = "idle"
    /\ phase' = "dispatch"
    /\ \E backend \in SUBSET {"gateway"} :
          /\ backend # {} => gateway # "none"
          /\ ready' = backend
               \cup (IF peer # "none" /\ state = "connect" THEN {"listen"} ELSE {})
               \cup (IF ClientReady THEN {"client"} ELSE {})
    /\ UNCHANGED <<Rest, state, traffic_limit_reached, idlevars, joblist, fdwaitqueue,
                   hosts, pc, entry>>

Dispatched ==
    /\ phase = "dispatch" /\ pc = "idle" /\ ready = {}
    /\ phase' = "jobs"
    /\ UNCHANGED <<Rest, state, traffic_limit_reached, idlevars, joblist, fdwaitqueue,
                   hosts, ready, pc, entry>>

RunJobUnchecked ==                                               \* mutant
    /\ phase = "jobs" /\ pc = "idle"
    /\ joblist' = joblist - 1
    /\ Enter(state)
    /\ UNCHANGED <<Rest, state, traffic_limit_reached, idlevars, fdwaitqueue, hosts,
                   loopvars>>

RunJob ==
    /\ phase = "jobs" /\ pc = "idle" /\ joblist > 0
    /\ joblist' = joblist - 1
    /\ Enter(state)
    /\ UNCHANGED <<Rest, state, traffic_limit_reached, idlevars, fdwaitqueue, hosts,
                   loopvars>>

NextRound ==
    /\ phase = "jobs" /\ pc = "idle" /\ joblist = 0
    /\ phase' = "trigger"
    /\ UNCHANGED <<Rest, state, traffic_limit_reached, idlevars, joblist, fdwaitqueue,
                   hosts, ready, pc, entry>>

MainLoop == SameSecond \/ NewSecond \/ FdWaitPop \/ Poll \/ Dispatched \/ RunJob
            \/ NextRound \/ Accept \/ HandleFdevent \/ Gateway

Server == StateMachine \/ MainLoop

Next == Client \/ Server

\* The server is one thread that never stops: it always takes its next step.
\* Time passes: the clock is not seen at the same second for ever.
Fairness == WF_vars(Server) /\ SF_vars(NewSecond)

Spec == Init /\ [][Next]_vars /\ Fairness

-----------------------------------------------------------------------------
(***************************************************************************)
(* Properties.                                                             *)
(***************************************************************************)
AtRest == phase = "trigger" /\ pc = "idle"

(***************************************************************************)
(* No connection is forgotten: when the main loop starts a new round, the  *)
(* state the machine left the connection in has somebody who will run the  *)
(* machine again - epoll, the backend, the fdwaitqueue or the trigger that *)
(* lifts the traffic limit - and is none of the transient states.          *)
(***************************************************************************)
Awake ==
    AtRest =>
        /\ state \in {"connect", "read", "readpost", "handlereq", "write", "close"}
        /\ state \in {"read", "readpost", "close"} => interest = "IN"
        /\ state = "write" => \/ interest = "OUT" \/ traffic_limit_reached
                             \/ gateway \in {"running", "broken"}
        /\ state = "handlereq" => gateway # "none" \/ fdwaitqueue > 0

(***************************************************************************)
(* A pipelined request is not left in read_queue until the client sends    *)
(* more: a connection waits in READ only without a complete header and in  *)
(* READ_POST only when all it has read belongs to the content so far.      *)
(***************************************************************************)
PipelinedServed ==
    AtRest => /\ state = "read" => \A i \in 1..Len(read_queue) : read_queue[i] # "end"
              /\ state = "readpost" => read_queue = <<>> /\ missing > 0

(***************************************************************************)
(* Both together: nobody waits for something that will not come.           *)
(***************************************************************************)
NobodyForgotten == Awake /\ PipelinedServed

(***************************************************************************)
(* A connection object in the pool carries nothing of its last client into *)
(* the next one: connection_accept() resets neither read_queue nor         *)
(* request_count, it relies on the CON_STATE_CONNECT iteration for that.   *)
(***************************************************************************)
FreeIsClean ==
    state = "connect" /\ pc = "idle" =>
        /\ read_queue = <<>> /\ request_count = 0 /\ write_queue = 0 /\ missing = 0
        /\ gateway = "none" /\ http_status = 0 /\ mode = "DIRECT"
        /\ interest = "none"

(***************************************************************************)
(* con_opened - con_closed (what mod_status and the angel's statistics     *)
(* report) counts exactly the connections that are neither free nor in     *)
(* their lingering close, on every path through RESPONSE_END and ERROR.    *)
(***************************************************************************)
OpenCounted == con_open = IF state \in {"connect", "close"} THEN 0 ELSE 1

(***************************************************************************)
(* handle_request_done (the access log) is called at most once for a       *)
(* request, and not before its answer is over.                             *)
(***************************************************************************)
LoggedOnce == logged <= 1 /\ (http_status # 0 => logged = 0)

(***************************************************************************)
(* ... and it is called for every request that got an answer: a status is  *)
(* forgotten only by logging it or by handing it to the error handler.     *)
(***************************************************************************)
AnswerLogged ==
    [][http_status # 0 /\ http_status' = 0 => logged' = 1 \/ in_error_handler']_vars

(***************************************************************************)
(* Both together: every answer is logged, and once.                        *)
(***************************************************************************)
Logged == []LoggedOnce /\ AnswerLogged

(***************************************************************************)
(* write_request_ts is never reset.  The write timeout still never uses    *)
(* the stamp of an earlier request: when the machine comes to rest in      *)
(* WRITE from another state, it has just set the stamp.                    *)
(***************************************************************************)
FreshWriteStamp ==
    [][pc = "machine" /\ pc' = "idle" /\ state' = "write" /\ entry # "write"
       => write_idle' = 0]_vars

(***************************************************************************)
(* A handler is called only while its descriptor is registered, although   *)
(* the handlers that run before it in the same round may close             *)
(* descriptors (fdevent_get_handler() ends the server otherwise).          *)
(***************************************************************************)
DispatchedRegistered ==
    phase = "dispatch" /\ pc = "idle" =>
        /\ "gateway" \in ready => gateway # "none"
        /\ "client" \in ready => state # "connect" /\ peer # "none" /\ interest # "none"
        /\ "listen" \in ready => state = "connect"

(***************************************************************************)
(* Keep-alive is bounded: http_response_write_header() ends it, whatever   *)
(* the request parser, the handlers and the error handler have made of     *)
(* keep_alive, with the first request that is counted above                *)
(* server.max-keep-alive-requests.  That is one request more than the      *)
(* documentation allows (SessionLimit).                                    *)
(***************************************************************************)
RequestLimit == request_count <= MaxKeepAliveRequests + 1

(***************************************************************************)
(* doc/configuration.txt:410, of server.max-keep-alive-requests: "maximum  *)
(* number of request within a keep-alive session before the server         *)
(* terminates the connection".                                             *)
(***************************************************************************)
SessionLimit == state = "write" => request_count <= MaxKeepAliveRequests

(***************************************************************************)
(* con_opened - con_closed is right however a connection ends, and no      *)
(* session goes on behind the request that ends it.                        *)
(***************************************************************************)
CountsRight == OpenCounted /\ RequestLimit

(***************************************************************************)
(* The machine, with everything that changes a connection behind its back, *)
(* implements the life of a connection: no event takes it from one stage   *)
(* to another out of order, every answer is logged before the next request *)
(* begins, and keep-alive ends.                                            *)
(***************************************************************************)
Stage == CASE state = "connect" -> "free"
           [] state \in {"reqstart", "read", "reqend", "readpost", "handlereq"} -> "request"
           [] state \in {"respstart", "write", "respend"} -> "response"
           [] state = "error" -> "failed"
           [] state = "close" -> "linger"

Life == INSTANCE Lifecycle WITH
    MaxRequests <- MaxKeepAliveRequests,
    stage <- Stage,
    requests <- IF state = "connect" THEN 0 ELSE request_count,
    logged <- logged,
    open <- con_open

ImplementsLifecycle == Life!Spec

(***************************************************************************)
(* Whatever a client does or fails to do - stop sending, stop reading,     *)
(* disappear - the server takes its connection object back, as long as no  *)
(* backend keeps a request for ever (nothing limits that time).            *)
(***************************************************************************)
Reclaimed == []<>(gateway = "none") => (peer # "none" ~> peer = "none")
=============================================================================
