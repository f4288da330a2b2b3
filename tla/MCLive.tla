------------------------------- MODULE MCLive --------------------------------
(***************************************************************************)
(* What must happen in the end, to one connection, and to the server with  *)
(* two of them: a behaviour is one of one of them, "part"; the other stays *)
(* as it begins.                                                           *)
(***************************************************************************)
EXTENDS Integers, Sequences

VARIABLES part,
    state, keep_alive, http_status, mode, in_error_handler, request_count, file_started,
    file_finished, is_readable, is_writable, traffic_limit_reached, read_queue, write_queue,
    missing, read_idle, write_idle, close_idle, interest, joblist, fdwaitqueue, gateway, hosts,
    phase, ready, pc, entry, rx, peer, room, logged, con_open,           \* Connection
    ptr, used, ndx, states, gw, counts, fd, in_epoll, back, idle, opened, epoll, fdarray, cur_fds,
    want_fds, jobs, fdwaiters, enabled, sockets_disabled, graceful_shutdown, srv_shutdown,
    pid_file, main, i, free_fds, loops, events, con, done                \* Server

connection == <<state, keep_alive, http_status, mode, in_error_handler, request_count, file_started,
                file_finished, is_readable, is_writable, traffic_limit_reached, read_queue,
                write_queue, missing, read_idle, write_idle, close_idle, interest, joblist,
                fdwaitqueue, gateway, hosts, phase, ready, pc, entry, rx, peer, room, logged, con_open>>
server     == <<ptr, used, ndx, states, gw, counts, fd, in_epoll, back, idle, opened, epoll, fdarray,
                cur_fds, want_fds, jobs, fdwaiters, enabled, sockets_disabled, graceful_shutdown,
                srv_shutdown, pid_file, main, i, free_fds, loops, events, con, done>>
vars       == <<part, connection, server>>

\* one request each time the connection is opened: the server has the kept-alive ones
C == INSTANCE Connection WITH
    MaxReadIdle <- 0, MaxKeepAliveIdle <- 1, MaxWriteIdle <- 0, Linger <- 0,
    MaxKeepAliveRequests <- 0, MaxHeader <- 0, MaxBody <- 1, MaxChunks <- 0, MaxRx <- 1,
    Hosts <- 1, MaxFdWait <- 1, MaxJump <- 1, ErrorHandler <- FALSE, Throttled <- FALSE

S == INSTANCE Server WITH
    state <- states, request_count <- counts, joblist <- jobs, fdwaitqueue <- fdwaiters,
    hosts <- enabled, phase <- main,
    Size <- 2, MaxConns <- 2, MaxFds <- 5, SpareFds <- 1, AcceptLoops <- 2, Hosts <- 0,
    MaxKeepAliveRequests <- 1, MaxFdWait <- 0, MaxJobs <- 1

Init == part \in {"connection", "server"} /\ C!Init /\ S!Init

Next ==
    /\ UNCHANGED part
    /\ \/ part = "connection" /\ C!Next /\ UNCHANGED server
       \/ part = "server" /\ S!Next /\ UNCHANGED connection

\* the fairness of each
Fairness ==
    /\ WF_connection(part = "connection" /\ C!Server) /\ SF_connection(part = "connection" /\ C!NewSecond)
    /\ WF_server(part = "server" /\ (S!StateMachine \/ S!MainLoop)) /\ SF_server(part = "server" /\ S!NewSecond)

Spec == Init /\ [][Next]_vars /\ Fairness

-----------------------------------------------------------------------------
(***************************************************************************)
(* Connection: a connection object is taken back whatever its client does, *)
(* unless a backend keeps its request for ever.                            *)
(***************************************************************************)
Reclaimed == part = "connection" => C!Reclaimed

(***************************************************************************)
(* Server: a connection that has exceeded its time is dealt with, although *)
(* the loop that looks for it may miss it.                                 *)
(***************************************************************************)
IdleExpires == part = "server" => S!IdleExpires

(***************************************************************************)
(* Server: a graceful shutdown ends as long as clients come to a halt or   *)
(* leave.                                                                  *)
(***************************************************************************)
GracefulStops == part = "server" => S!GracefulStops
=============================================================================
