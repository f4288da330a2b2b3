------------------------------- MODULE FastCGI -------------------------------
(***************************************************************************)
(* mod_fastcgi: requests are handed to the hosts of one extension.  A host *)
(* runs one or more processes; those of a local host are spawned, reaped   *)
(* and respawned by the server, a remote one is only left alone for a      *)
(* while when it fails.  A request picks a host, then a process, connects, *)
(* writes, reads the answer, and starts over elsewhere when nobody has     *)
(* accepted it.                                                            *)
(*                                                                         *)
(* What is written and read is the subject of FcgiRecords; the connection  *)
(* is reduced to what the plugin sees of it: how often it is in the        *)
(* joblist and the fdwaitqueue, and whether its answer has begun.          *)
(***************************************************************************)
EXTENDS Integers, Sequences, FiniteSets

CONSTANTS
    Requests,               \* connections with a request for this extension
    NHosts,                 \* hosts of the extension
    Local,                  \* hosts with a bin-path
    NProcs,                 \* max-procs of a local host
    MaxReconnects,          \* 5 in the code
    MaxFaults               \* bound: backends that die, sockets that EMFILE denies

FastCGIAssumption ==
    /\ IsFiniteSet(Requests) /\ NHosts \in Nat \ {0} /\ NProcs \in Nat \ {0} /\ Local \subseteq 1..NHosts
    /\ MaxReconnects \in Nat /\ MaxFaults \in Nat

VARIABLES
    hosts,                  \* fcgi_extension_host, with its processes
    last_used,              \* last_used_ndx of the extension
    hctx,                   \* handler_ctx of each request, with its socket
    faults

vars == <<hosts, last_used, hctx, faults>>

Hosts == 1..NHosts
Procs(h) == IF h \in Local THEN 1..NProcs ELSE {1}
None == 0

Idle == [state |-> "none", host |-> None, proc |-> None, got_proc |-> FALSE,
         reconnects |-> 0, asked |-> 0, bytes_out |-> FALSE, file_started |-> FALSE,
         joblist |-> 0, fdwait |-> 0, events |-> {},
         socket |-> "none", unread |-> <<>>]

Init ==
    /\ hosts = [h \in Hosts |->
          [load |-> 0, active_procs |-> Cardinality(Procs(h)),
           procs |-> [p \in Procs(h) |->
              [state |-> "RUNNING", load |-> 0, is_local |-> h \in Local,
               child |-> IF h \in Local THEN "alive" ELSE "none"]]]]
    /\ last_used = None /\ hctx = [r \in Requests |-> Idle] /\ faults = 0

-----------------------------------------------------------------------------
(***************************************************************************)
(* Hosts and processes: every operator takes the hosts and returns them.   *)
(***************************************************************************)
Proc(hs, h, p) == hs[h].procs[p]
Running(hs, h) == {p \in Procs(h) : Proc(hs, h, p).state = "RUNNING"}

fcgi_host_assign(hs, h) == [hs EXCEPT ![h].load = @ + 1]
fcgi_host_reset(hs, h) == [hs EXCEPT ![h].load = @ - 1]
fcgi_proc_load_inc(hs, h, p) == [hs EXCEPT ![h].procs[p].load = @ + 1]
fcgi_proc_load_dec(hs, h, p) == [hs EXCEPT ![h].procs[p].load = @ - 1]

\* a process that does not run is not counted twice
Stopped(hs, h, p, state) ==
    [hs EXCEPT ![h].active_procs = IF Proc(hs, h, p).state = "RUNNING" THEN @ - 1 ELSE @,
               ![h].procs[p].state = state]

fcgi_host_disable(hs, h, p) ==
    Stopped(hs, h, p, IF Proc(hs, h, p).is_local THEN "DIED_WAIT_FOR_PID" ELSE "DIED")

Enabled(hs, h, p) ==
    [hs EXCEPT ![h].active_procs = @ + 1, ![h].procs[p].state = "RUNNING"]

\* somebody else listens on the socket; fork() fails, which nobody notices; the
\* child is up after 100 ms; or it is not, or the socket cannot be had
\* ("two" is seen only when the child before it still lives)
Born(child) == IF child = "none" THEN "alive" ELSE "two"
SpawnResults == {"used", "nofork", "up", "failed"}
fcgi_spawn_connection(hs, h, p, result) ==
    CASE result = "used"   -> [Enabled(hs, h, p) EXCEPT ![h].procs[p].is_local = FALSE,
                                                        ![h].procs[p].child = "none"]
      [] result = "nofork" -> Enabled(hs, h, p)
      [] result = "up"     -> [Enabled(hs, h, p) EXCEPT ![h].procs[p].is_local = TRUE,
                                                        ![h].procs[p].child = Born(@)]
      [] result = "failed" -> hs

\* waitpid() of a child: one that has died is gone afterwards
Reaped(hs, h, p) ==
    IF Proc(hs, h, p).child = "zombie" THEN [hs EXCEPT ![h].procs[p].child = "none"] ELSE hs

\* "due": disabled_until has passed.  The clock moves just before the trigger, which
\* enables whatever is due, so that nothing is when a request fails
Revived(hs, h, p, due) == IF due THEN Enabled(hs, h, p) ELSE hs

Unwaited(proc) == FALSE                 \* mutant: waitpid() is not asked
Lives(proc) == proc.is_local /\ proc.child = "alive"

\* a process that is dead: the server starts its own once nobody is bound to it
Restarted(hs, h, p, result, due) ==
    IF h \notin Local THEN Revived(hs, h, p, due)
    ELSE IF Proc(hs, h, p).load # 0 THEN hs
    ELSE fcgi_spawn_connection(hs, h, p, result)

RestartOne(hs, h, p, result, due) ==
    CASE Proc(hs, h, p).state = "RUNNING" -> hs
      [] Proc(hs, h, p).state = "OVERLOADED" -> Revived(hs, h, p, due)
      [] Proc(hs, h, p).state = "DIED" -> Restarted(hs, h, p, result, due)
      [] Proc(hs, h, p).state = "DIED_WAIT_FOR_PID" ->
            IF Lives(Proc(hs, h, p)) THEN Revived(hs, h, p, due)
            ELSE Restarted([Reaped(hs, h, p) EXCEPT ![h].procs[p].state = "DIED"],
                           h, p, result, due)

\* the processes of a host in turn; a spawn that fails ends the walk
fcgi_restart_dead_procs(hs, h, results, due) ==
    LET walk[p \in 0..NProcs] ==
            IF p = 0 THEN [hs |-> hs, failed |-> FALSE]
            ELSE LET w == walk[p - 1]
                     n == RestartOne(w.hs, h, p, results[p], due)
                 IN  IF w.failed \/ p \notin Procs(h) THEN w
                     ELSE [hs |-> n, failed |-> n[h].procs[p].state = "DIED" /\ h \in Local
                                                /\ n[h].procs[p].load = 0]
    IN walk[NProcs].hs
Results == [1..NProcs -> SpawnResults]

-----------------------------------------------------------------------------
(***************************************************************************)
(* A request takes a host and gives it back.                               *)
(***************************************************************************)
\* the next host in turn if it has nothing to do (whether it runs or not), else the
\* one with the least load that runs, the first of them
LeastLoad(S, load) ==
    CHOOSE s \in S : \A t \in S : load[s] < load[t] \/ (load[s] = load[t] /\ s <= t)

Choices ==
    LET next == IF last_used + 1 > NHosts THEN 1 ELSE last_used + 1
        up == {h \in Hosts : hosts[h].active_procs # 0}
    IN  IF hosts[next].load = 0 THEN {next}
        ELSE IF up = {} THEN {} ELSE {LeastLoad(up, [h \in up |-> hosts[h].load])}

\* the socket is closed and the process no longer bound to the request
Detached(hs, c) ==
    IF c.host # None /\ c.proc # None /\ c.got_proc
    THEN fcgi_proc_load_dec(hs, c.host, c.proc) ELSE hs
ReleasedLate(hs, c) == Detached(hs, c)  \* mutant: the host keeps its load
Released(hs, c) == IF c.host # None THEN fcgi_host_reset(Detached(hs, c), c.host) ELSE hs

\* fcgi_connection_close(): the context goes; the connection has its answer
Close(r, hs, c) == hosts' = Released(hs, c) /\ hctx' = [hctx EXCEPT ![r] = Idle]

\* joblist_append() by the plugin, whoever has called it: "in_joblist" is never set, and
\* the loop that works the joblist off comes to what it appends meanwhile.  The state
\* machine puts the connection into the fdwaitqueue besides; an event does not
Waiting(c, caller) == [c EXCEPT !.fdwait = IF caller = "event" THEN @ ELSE @ + 1]
Unqueued(c, caller) == Waiting(c, caller)       \* mutant: nothing is appended
Queued(c, caller) == [Waiting(c, caller) EXCEPT !.joblist = @ + 1]

fcgi_reconnect(r, hs, c, caller) ==
    /\ hosts' = Released(hs, c)
    /\ hctx' = [hctx EXCEPT ![r] = Queued(
          [c EXCEPT !.state = "INIT", !.reconnects = @ + 1, !.host = None, !.proc = None,
                    !.events = {}, !.socket = "none", !.unread = <<>>], caller)]

\* fcgi_write_request() has failed before a process has taken the request
Again(c) == c.reconnects < MaxReconnects
Refused(r, hs, c, caller) ==
    \E results \in Results :
        LET restarted == fcgi_restart_dead_procs(hs, c.host, results, FALSE)
        IN  IF Again(c) THEN fcgi_reconnect(r, restarted, c, caller)
            ELSE Close(r, restarted, c)

Set(r, hs, c) == hosts' = hs /\ hctx' = [hctx EXCEPT ![r] = c]

(***************************************************************************)
(* PREPARE_WRITE and WRITE: the process gets the load, the environment is  *)
(* built once, and as much is written as the socket takes.                 *)
(***************************************************************************)
\* "asked" counts the sockets that have had any of it
Written(c) ==
    [c EXCEPT !.asked = IF c.state = "WRITE" /\ c.bytes_out THEN @ ELSE @ + 1, !.bytes_out = TRUE]

\* mutant: another process is tried
BrokenAgain(r, hs, c) == fcgi_reconnect(r, hs, [c EXCEPT !.bytes_out = FALSE], "event")
Broken(r, hs, c) == Close(r, hs, c)

\* all of it; a first part (bound: two parts); nothing before the connection is there;
\* or EPIPE and the like: 503
Write(r, hs, c) ==
    \/ /\ c.socket \in {"up", "closed"}
       /\ Set(r, hs, [Written(c) EXCEPT !.state = "READ", !.events = {"IN"}])
    \/ /\ c.socket = "up" /\ ~c.bytes_out
       /\ Set(r, hs, [Written(c) EXCEPT !.state = "WRITE", !.events = {"OUT"}])
    \/ c.socket = "pending" /\ Set(r, hs, [c EXCEPT !.state = "WRITE", !.events = {"OUT"}])
    \/ c.socket # "pending" /\ Broken(r, hs, c)

PrepareWrite(r, hs, c) ==
    LET got == fcgi_proc_load_inc(hs, c.host, c.proc)
        d   == [c EXCEPT !.got_proc = TRUE]
    IN  Write(r, got, d) \/ Close(r, got, d) \* fcgi_create_env() fails: 400

\* connect() to the process with the least load
Connect(r, hs, c, caller) ==
    \/ Set(r, hs, [c EXCEPT !.state = "CONNECT_DELAYED", !.socket = "pending", !.events = {"OUT"}])
    \/ Refused(r, Stopped(hs, c.host, c.proc, "OVERLOADED"), c, caller)
    \/ Refused(r, fcgi_host_disable(hs, c.host, c.proc), c, caller)
    \/ PrepareWrite(r, hs, [c EXCEPT !.socket = "up", !.reconnects = 0])

fcgi_write_request(r, hs, c, caller) ==
    \/ /\ c.state = "INIT"
       /\ LET running == Running(hs, c.host)
              p == LeastLoad(running, [q \in running |-> Proc(hs, c.host, q).load])
          IN  \/ running = {} /\ Refused(r, hs, [c EXCEPT !.proc = None], caller)
                 /\ UNCHANGED faults
              \/ running # {} /\ Connect(r, hs, [c EXCEPT !.proc = p], caller)
                 /\ UNCHANGED faults
              \/ /\ running # {} /\ faults < MaxFaults      \* EMFILE
                 /\ Set(r, hs, [c EXCEPT !.proc = p, !.fdwait = @ + 1])
                 /\ faults' = faults + 1
    \/ /\ c.state = "CONNECT_DELAYED"          \* a connect() under way has no error yet
       /\ IF c.socket = "refused"
          THEN Refused(r, fcgi_host_disable(hs, c.host, c.proc), c, caller)
          ELSE PrepareWrite(r, hs, c)
       /\ UNCHANGED faults
    \/ c.state = "WRITE" /\ Write(r, hs, c) /\ UNCHANGED faults
    \/ c.state = "READ" /\ Set(r, hs, c) /\ UNCHANGED faults

\* "caller": the joblist, the fdwaitqueue, or an event of the backend
mod_fastcgi_handle_subrequest(r, c, caller) ==
    IF c.host # None
    THEN fcgi_write_request(r, hosts, c, caller) /\ UNCHANGED last_used
    ELSE \/ Choices = {} /\ Close(r, hosts, c) /\ UNCHANGED <<last_used, faults>>
         \/ \E h \in Choices :
               /\ last_used' = h
               /\ fcgi_write_request(r, fcgi_host_assign(hosts, h),
                                     [c EXCEPT !.host = h, !.proc = None], caller)

-----------------------------------------------------------------------------
(***************************************************************************)
(* A request arrives, is continued by the joblist or the fdwaitqueue, and  *)
(* may be given up by its client.                                          *)
(***************************************************************************)
\* the run that brings it, and perhaps an entry that the request before has left
fcgi_check_extension(r) ==
    /\ hctx[r].state = "none"
    /\ \E h \in Hosts : hosts[h].active_procs # 0      \* else 500 at once
    /\ \E n \in 1..2 : hctx' = [hctx EXCEPT ![r] = [Idle EXCEPT !.state = "INIT", !.joblist = n]]
    /\ UNCHANGED <<hosts, last_used, faults>>

Continue(r) ==
    LET c == hctx[r] IN
    \/ c.joblist > 0 /\ mod_fastcgi_handle_subrequest(r, [c EXCEPT !.joblist = @ - 1], "joblist")
    \/ c.fdwait > 0 /\ mod_fastcgi_handle_subrequest(r, [c EXCEPT !.fdwait = @ - 1], "fdwait")

\* the client goes away
fcgi_connection_close_callback(r) ==
    /\ hctx[r].state # "none" /\ Close(r, hosts, hctx[r])
    /\ UNCHANGED <<last_used, faults>>

-----------------------------------------------------------------------------
(***************************************************************************)
(* Events of the backend's socket.                                         *)
(***************************************************************************)
\* what the kernel reports: "closed" is a peer that has gone
Ready(c) ==
    {e \in {"IN", "OUT"} : /\ e \in c.events
                           /\ \/ e = "IN" /\ (c.unread # <<>> \/ c.socket = "closed")
                              \/ e = "OUT" /\ c.socket \in {"up", "closed", "refused"}}
    \cup (IF c.socket \in {"closed", "refused"} THEN {"HUP"} ELSE {})

\* a child of this process that has died is replaced at once
Replace(c, results) ==
    LET p == Proc(hosts, c.host, c.proc) IN
    IF p.is_local /\ p.state # "DIED" /\ p.child = "zombie"
    THEN LET n == fcgi_spawn_connection(Reaped(hosts, c.host, c.proc), c.host, c.proc,
                                        results[c.proc])
         IN  IF results[c.proc] = "failed" THEN [n EXCEPT ![c.host].procs[c.proc].state = "DIED"]
             ELSE n
    ELSE hosts

\* nothing has been sent, the request may go elsewhere
Unasked(c) == ~c.file_started /\ ~c.bytes_out /\ c.reconnects < MaxReconnects

Demux(r, c) ==
    LET rest == [c EXCEPT !.unread = <<>>] IN
    IF c.unread = <<>>
    THEN \E results \in Results :
            LET hs == Replace(c, results) IN
            IF Unasked(c)
            THEN /\ hosts' = Released(hs, c)
                 /\ hctx' = [hctx EXCEPT ![r] =
                       [c EXCEPT !.state = "INIT", !.reconnects = @ + 1, !.host = None,
                                 !.proc = None, !.events = {}, !.socket = "none"]]
            ELSE Close(r, hs, c)
    ELSE IF c.unread[Len(c.unread)] = "end" THEN Close(r, hosts, rest)
    ELSE Set(r, hosts, [rest EXCEPT !.file_started = TRUE])

\* IN and HUP together: what could be read does not end the answer, and a HUP of a
\* TCP socket does; on a unix socket it is not believed
fcgi_handle_fdevent(r) ==
    LET c == hctx[r] IN
    /\ c.joblist = 0 /\ Ready(c) # {}      \* the joblist is empty when the events come
    /\ \/ /\ "IN" \in Ready(c) /\ c.state = "READ" /\ Demux(r, c)
          /\ UNCHANGED <<last_used, faults>>
       \/ /\ "OUT" \in Ready(c) /\ c.state \in {"CONNECT_DELAYED", "WRITE"}
          /\ mod_fastcgi_handle_subrequest(r, c, "event")
       \/ /\ "HUP" \in Ready(c) /\ c.state = "READ" /\ c.unread # <<>> /\ c.host \notin Local
          /\ c.unread[Len(c.unread)] # "end"
          /\ Close(r, hosts, c) /\ UNCHANGED <<last_used, faults>>

-----------------------------------------------------------------------------
(***************************************************************************)
(* Backends, the kernel and the clock.                                     *)
(***************************************************************************)
Backend(r) ==
    LET c == hctx[r] IN
    /\ \/ /\ c.socket = "pending"
          /\ \E s \in {"up", "refused"} : hctx' = [hctx EXCEPT ![r].socket = s]
       \/ /\ c.socket = "up" /\ c.bytes_out /\ Len(c.unread) < 2
          /\ c.unread # <<>> => c.unread[Len(c.unread)] # "end"
          /\ \E piece \in {"part", "end"} :
                /\ piece = "part" => ~c.file_started /\ c.unread = <<>>
                /\ hctx' = [hctx EXCEPT ![r].unread = Append(@, piece)]
       \/ c.socket = "up" /\ hctx' = [hctx EXCEPT ![r].socket = "closed"]
    /\ UNCHANGED <<hosts, last_used, faults>>

\* a child dies, and with it every connection to it
Dies(h, p) ==
    /\ faults < MaxFaults /\ Proc(hosts, h, p).child = "alive"
    /\ hosts' = [hosts EXCEPT ![h].procs[p].child = "zombie"]
    /\ hctx' = [r \in Requests |->
          IF hctx[r].host = h /\ hctx[r].proc = p /\ hctx[r].socket \in {"pending", "up"}
          THEN [hctx[r] EXCEPT !.socket = IF @ = "up" THEN "closed" ELSE "refused"]
          ELSE hctx[r]]
    /\ faults' = faults + 1 /\ UNCHANGED last_used

\* each second
mod_fastcgi_handle_trigger ==
    /\ \E h \in Hosts : Running(hosts, h) # Procs(h)
    /\ \E results \in Results, due \in [Hosts -> BOOLEAN] :
          LET all[h \in 0..NHosts] ==
                  IF h = 0 THEN hosts ELSE fcgi_restart_dead_procs(all[h - 1], h, results, due[h])
          IN hosts' = all[NHosts]
    /\ UNCHANGED <<last_used, hctx, faults>>

Next ==
    \/ \E r \in Requests : \/ fcgi_check_extension(r) \/ Continue(r)
                           \/ fcgi_connection_close_callback(r)
                           \/ fcgi_handle_fdevent(r) \/ Backend(r)
    \/ \E h \in Hosts : \E p \in Procs(h) : Dies(h, p)
    \/ mod_fastcgi_handle_trigger

\* the server goes on, connects are answered, and backends answer or go
Fairness == \A r \in Requests :
    WF_vars(Continue(r)) /\ WF_vars(fcgi_handle_fdevent(r)) /\ WF_vars(Backend(r))

Spec == Init /\ [][Next]_vars /\ Fairness

-----------------------------------------------------------------------------
(***************************************************************************)
(* Properties.                                                             *)
(***************************************************************************)
TypeOK ==
    /\ last_used \in 0..NHosts /\ faults \in 0..MaxFaults
    /\ \A h \in Hosts : \A p \in Procs(h) :
          Proc(hosts, h, p).state \in {"RUNNING", "OVERLOADED", "DIED_WAIT_FOR_PID", "DIED"}
    /\ \A r \in Requests : hctx[r].reconnects \in 0..MaxReconnects

\* the requests that hold host h, or process p of it
Holders(h) == {r \in Requests : hctx[r].host = h}
Users(h, p) == {r \in Holders(h) : hctx[r].proc = p /\ hctx[r].got_proc}

(***************************************************************************)
(* The load of a host is the number of requests that have it, the load of a *)
(* process the number of those that are connected to it, after every       *)
(* reconnect, failure and abort: balancing and respawning go by them.      *)
(***************************************************************************)
LoadsAgree ==
    \A h \in Hosts :
        /\ hosts[h].load = Cardinality(Holders(h))
        /\ \A p \in Procs(h) : Proc(hosts, h, p).load = Cardinality(Users(h, p))

(***************************************************************************)
(* No request is sent to a second process once the first has had any of    *)
(* it: it may have been acted upon.                                        *)
(***************************************************************************)
AskedOnce == \A r \in Requests : hctx[r].asked <= 1

(***************************************************************************)
(* A request that is under way is in the joblist, in the fdwaitqueue, or   *)
(* listens to its socket for what its state waits for: however it fails    *)
(* and starts over, somebody will go on with it.                           *)
(***************************************************************************)
Continued ==
    \A r \in Requests :
        LET c == hctx[r] IN
        c.state # "none" =>
            \/ c.joblist > 0 \/ c.fdwait > 0
            \/ c.state \in {"CONNECT_DELAYED", "WRITE"} /\ "OUT" \in c.events
            \/ c.state = "READ" /\ "IN" \in c.events

(***************************************************************************)
(* No process is started while the one in its place, which listens on the  *)
(* same socket, still lives.                                               *)
(***************************************************************************)
OneChild == \A h \in Local : \A p \in Procs(h) : Proc(hosts, h, p).child # "two"

(***************************************************************************)
(* Backends that answer or go away, connects that succeed or fail: in the  *)
(* end every request is answered, if only with an error.                   *)
(***************************************************************************)
Settles == \A r \in Requests : hctx[r].state # "none" ~> hctx[r].state = "none"
=============================================================================
