-------------------------------- MODULE SCGI --------------------------------
(***************************************************************************)
(* mod_scgi: an older copy of mod_fastcgi that has gone its own way.  A    *)
(* request is given its host when it arrives and keeps it; the processes   *)
(* of a host stand in a list that is sorted by load, the first that runs   *)
(* is taken; a process that fails is marked, and the connection starts the *)
(* whole request over.  (Adaptive spawning is disabled: min_procs is       *)
(* max_procs.)  FastCGI says what the connection is reduced to.            *)
(***************************************************************************)
EXTENDS Integers, Sequences, FiniteSets

CONSTANTS
    Requests, NHosts,
    Local,                  \* hosts with a bin-path
    NProcs,                 \* processes of a local host
    MaxReconnects,          \* 5 in the code
    MaxFaults,              \* bound: backends that die, sockets that EMFILE denies
    MaxLoad,                \* bound: load of a host
    SizeModulus             \* 2^64 in the code: the load of a process is a size_t

SCGIAssumption ==
    /\ NHosts \in Nat \ {0} /\ NProcs \in Nat \ {0} /\ Local \subseteq 1..NHosts
    /\ MaxReconnects \in Nat /\ MaxFaults \in Nat /\ MaxLoad \in Nat
    /\ IsFiniteSet(Requests) /\ SizeModulus \in Nat /\ Cardinality(Requests) < SizeModulus

VARIABLES
    hosts,                  \* scgi_extension_host: "first" is its list
    hctx,                   \* handler_ctx of each request, with its socket
    faults,
    calm                    \* history: no request has been reconnected

vars == <<hosts, hctx, faults, calm>>

Hosts == 1..NHosts
Procs(h) == IF h \in Local THEN 1..NProcs ELSE {1}
None == 0
SizeT(n) == n % SizeModulus

Idle == [state |-> "none", host |-> None, proc |-> None, pid |-> FALSE, got_proc |-> FALSE,
         reconnects |-> 0, bytes_out |-> FALSE, file_started |-> FALSE,
         joblist |-> FALSE, fdwait |-> FALSE, socket |-> "none", unread |-> "none"]

Init ==
    /\ hosts = [h \in Hosts |->
          [load |-> 0, active_procs |-> Cardinality(Procs(h)),
           first |-> IF h \in Local THEN [p \in 1..NProcs |-> NProcs + 1 - p] ELSE <<1>>,
           procs |-> [p \in Procs(h) |->
              [state |-> "RUNNING", load |-> 0, is_local |-> h \in Local,
               child |-> IF h \in Local THEN "alive" ELSE "none"]]]]
    /\ hctx = [r \in Requests |-> Idle] /\ faults = 0 /\ calm = TRUE

-----------------------------------------------------------------------------
(***************************************************************************)
(* The list of processes.  Either sort moves one process whose load has    *)
(* changed: to the right past smaller ones, to the left of the first that  *)
(* is not smaller.                                                         *)
(***************************************************************************)
Proc(hs, h, p) == hs[h].procs[p]
Load(hs, h, p) == Proc(hs, h, p).load
At(hs, h, p) == CHOOSE k \in DOMAIN hs[h].first : hs[h].first[k] = p
Cut(s, k) == SubSeq(s, 1, k - 1) \o SubSeq(s, k + 1, Len(s))
Put(s, k, p) == SubSeq(s, 1, k - 1) \o <<p>> \o SubSeq(s, k, Len(s))

NotSorted(hs, h, p) == hs               \* mutant: it stays where it is
scgi_proclist_sort_up(hs, h, p) ==
    LET s == hs[h].first
        k == At(hs, h, p)
        past == {n \in k..Len(s) : \A m \in (k + 1)..n : Load(hs, h, s[m]) < Load(hs, h, p)}
        to == CHOOSE n \in past : \A m \in past : m <= n
    IN  [hs EXCEPT ![h].first = Put(Cut(s, k), to, p)]

scgi_proclist_sort_down(hs, h, p) ==
    LET s == hs[h].first
        k == At(hs, h, p)
        to == CHOOSE n \in 1..k :
                 /\ n = k \/ Load(hs, h, s[n]) >= Load(hs, h, p)
                 /\ \A m \in 1..(n - 1) : Load(hs, h, s[m]) < Load(hs, h, p)
    IN  [hs EXCEPT ![h].first = Put(Cut(s, k), to, p)]

\* what a spawn leaves, as in FastCGI
SpawnResults == {"used", "nofork", "up", "failed"}
Born(child) == IF child = "none" THEN "alive" ELSE "two"
scgi_spawn_connection(hs, h, p, result) ==
    LET up == [hs EXCEPT ![h].procs[p].state = "RUNNING", ![h].active_procs = @ + 1]
    IN  CASE result = "used"   -> [up EXCEPT ![h].procs[p].is_local = FALSE,
                                             ![h].procs[p].child = "none"]
          [] result = "nofork" -> up
          [] result = "up"     -> [up EXCEPT ![h].procs[p].is_local = TRUE,
                                             ![h].procs[p].child = Born(@)]
          [] result = "failed" -> hs

Reaped(hs, h, p) == [hs EXCEPT ![h].procs[p].child = "none"]

(***************************************************************************)
(* scgi_restart_dead_procs(): a remote process is enabled when it is due,  *)
(* a local one that waitpid() has found dead is started once nobody is     *)
(* bound to it.  One whose child is still there is left alone.             *)
(***************************************************************************)
Waited(proc) == proc.child = "zombie"

Died(hs, h, p) ==
    LET proc == Proc(hs, h, p) IN
    IF proc.is_local /\ proc.state = "DIED_WAIT_FOR_PID" /\ Waited(proc)
    THEN [hs EXCEPT ![h].procs[p].child = IF @ = "zombie" THEN "none" ELSE @,
                    ![h].procs[p].state = "DIED"]
    ELSE hs

RestartOne(hs, h, p, result, due) ==
    LET proc == Proc(hs, h, p)
        d == Died(hs, h, p)
    IN  IF ~proc.is_local
        THEN IF proc.state = "DISABLED" /\ due
             THEN [hs EXCEPT ![h].procs[p].state = "RUNNING", ![h].active_procs = @ + 1]
             ELSE hs
        ELSE IF Proc(d, h, p).state # "DIED" \/ Proc(d, h, p).load # 0 THEN d
        ELSE IF result = "failed" THEN d
        ELSE scgi_proclist_sort_down(scgi_spawn_connection(d, h, p, result), h, p)

\* the list is walked while it is sorted (a process that the walk then meets again is
\* met once); a spawn that fails ends the walk
scgi_restart_dead_procs(hs, h, results, due) ==
    LET walk[k \in 0..NProcs] ==
            IF k = 0 THEN [hs |-> hs, failed |-> FALSE]
            ELSE LET w == walk[k - 1]
                     s == w.hs[h].first
                     n == RestartOne(w.hs, h, s[k], results[s[k]], due)
                 IN  IF w.failed \/ k \notin DOMAIN s THEN w
                     ELSE [hs |-> n, failed |-> Proc(n, h, s[k]).state = "DIED"
                                                /\ Load(n, h, s[k]) = 0]
    IN walk[NProcs].hs
Results == [1..NProcs -> SpawnResults]

-----------------------------------------------------------------------------
(***************************************************************************)
(* A request ends, or goes back to its beginning.                          *)
(***************************************************************************)
LoadDec(hs, c) == [hs EXCEPT ![c.host].procs[c.proc].load = SizeT(@ - 1)]

\* scgi_connection_cleanup(): the host's load goes down only with a process
CleanedUp(hs, c) ==
    IF c.proc = None THEN hs
    ELSE scgi_proclist_sort_down(
            [(IF c.got_proc THEN LoadDec(hs, c) ELSE hs) EXCEPT ![c.host].load = @ - 1],
            c.host, c.proc)

Close(r, hs, c) == hosts' = CleanedUp(hs, c) /\ hctx' = [hctx EXCEPT ![r] = Idle]

ReleasesHost(hs, c) == [LoadDec(hs, c) EXCEPT ![c.host].load = @ - 1] \* mutant: the host's too
LoadBack(hs, c) == LoadDec(hs, c)

\* scgi_reconnect(): the host, the process and got_proc stay
scgi_reconnect(r, hs, c, fdwait) ==
    /\ hosts' = scgi_proclist_sort_down(LoadBack(hs, c), c.host, c.proc)
    /\ hctx' = [hctx EXCEPT ![r] = [c EXCEPT !.state = "INIT", !.reconnects = @ + 1,
                                             !.fdwait = fdwait, !.socket = "none"]]

DisabledAgain(hs, c) ==                 \* mutant: it may be disabled already
    IF c.proc = None \/ Proc(hs, c.host, c.proc).is_local THEN hs
    ELSE [hs EXCEPT ![c.host].procs[c.proc].state = "DISABLED", ![c.host].active_procs = @ - 1]

\* a remote process is disabled whatever has failed, a local one only by the request
\* that knows its child
Disabled(hs, c) ==
    LET proc == Proc(hs, c.host, c.proc) IN
    IF c.proc = None \/ proc.is_local \/ proc.state = "DISABLED" THEN hs
    ELSE [hs EXCEPT ![c.host].procs[c.proc].state = "DISABLED", ![c.host].active_procs = @ - 1]

Marked(hs, c) ==
    LET proc == Proc(hs, c.host, c.proc) IN
    IF c.proc # None /\ proc.is_local /\ proc.state = "RUNNING" /\ c.pid
    THEN [hs EXCEPT ![c.host].procs[c.proc].state = "DIED_WAIT_FOR_PID"] ELSE hs

\* not connected: the connection begins anew, with its mode back to DIRECT
Refused(r, hs, c, fdwait) ==
    \E results \in Results :
        LET n == scgi_restart_dead_procs(Marked(Disabled(hs, c), c), c.host, results, FALSE)
        IN  /\ hosts' = CleanedUp(n, c)
            /\ hctx' = [hctx EXCEPT ![r] = [Idle EXCEPT !.state = "again", !.joblist = TRUE, !.fdwait = fdwait]]

Failed(r, hs, c) == Close(r, Disabled(hs, c), c)        \* 503

Set(r, hs, c) == hosts' = hs /\ hctx' = [hctx EXCEPT ![r] = c]

Write(r, hs, c, fdwait) ==
    \/ /\ c.socket \in {"up", "closed"}
       /\ \/ Set(r, hs, [c EXCEPT !.state = "READ", !.bytes_out = TRUE])
          \/ ~c.bytes_out /\ Set(r, hs, [c EXCEPT !.state = "WRITE", !.bytes_out = TRUE])
    \/ c.socket = "pending" /\ Set(r, hs, [c EXCEPT !.state = "WRITE"])
    \/ /\ c.socket # "pending" /\ c.reconnects < MaxReconnects /\ ~c.bytes_out
       /\ scgi_reconnect(r, hs, c, fdwait)
    \/ c.socket # "pending" /\ Failed(r, hs, c)

\* connected: the process gets the load and its place in the list
GotProc(r, hs, c, fdwait) ==
    Write(r, scgi_proclist_sort_up(
                [hs EXCEPT ![c.host].procs[c.proc].load = SizeT(@ + 1)], c.host, c.proc),
          [c EXCEPT !.got_proc = TRUE], fdwait)

FirstRunning(hs, h) ==
    LET s == hs[h].first
        run == {k \in DOMAIN s : Proc(hs, h, s[k]).state = "RUNNING"}
    IN  IF run = {} THEN None ELSE s[CHOOSE k \in run : \A m \in run : k <= m]

scgi_write_request(r, c, fdwait) ==
    \/ /\ c.state = "INIT"
       /\ LET p == FirstRunning(hosts, c.host)
              d == [c EXCEPT !.proc = p, !.pid = IF p = None THEN @ ELSE
                        @ \/ Proc(hosts, c.host, p).is_local]
          IN  \/ p = None /\ Refused(r, hosts, d, fdwait) /\ UNCHANGED faults
              \/ /\ p # None /\ UNCHANGED faults
                 /\ \/ Set(r, hosts, [d EXCEPT !.state = "CONNECT", !.socket = "pending"])
                    \/ Refused(r, hosts, d, fdwait)
                    \/ GotProc(r, hosts, [d EXCEPT !.socket = "up"], fdwait)
              \/ /\ faults < MaxFaults /\ faults' = faults + 1          \* EMFILE
                 /\ Set(r, hosts, [c EXCEPT !.fdwait = TRUE])
    \/ /\ c.state = "CONNECT" /\ UNCHANGED faults
       /\ IF c.socket = "refused" THEN Refused(r, hosts, c, fdwait) ELSE GotProc(r, hosts, c, fdwait)
    \/ c.state = "WRITE" /\ Write(r, hosts, c, fdwait) /\ UNCHANGED faults
    \/ c.state = "READ" /\ Set(r, hosts, c) /\ UNCHANGED faults

-----------------------------------------------------------------------------
(***************************************************************************)
(* Arrival: the host that has the least load and a process, if there is    *)
(* one; "again" is a connection that was sent back to its beginning.       *)
(***************************************************************************)
Best(up) == CHOOSE h \in up : \A g \in up :
                hosts[h].load < hosts[g].load \/ (hosts[h].load = hosts[g].load /\ h <= g)

scgi_check_extension(r) ==
    LET up == {h \in Hosts : hosts[h].active_procs # 0} IN
    /\ hctx[r].state \in {"none", "again"}
    /\ IF up = {} THEN hctx' = [hctx EXCEPT ![r] = Idle] /\ UNCHANGED hosts      \* 500
       ELSE /\ hosts[Best(up)].load < MaxLoad
            /\ hosts' = [hosts EXCEPT ![Best(up)].load = @ + 1]
            /\ hctx' = [hctx EXCEPT ![r] =
                  [Idle EXCEPT !.state = "INIT", !.host = Best(up), !.joblist = TRUE,
                               !.fdwait = hctx[r].fdwait]]
    /\ UNCHANGED faults

Continue(r) ==
    LET c == hctx[r] IN
    /\ c.state # "again"
    /\ \/ c.joblist /\ scgi_write_request(r, [c EXCEPT !.joblist = FALSE], TRUE)
       \/ c.fdwait /\ scgi_write_request(r, [c EXCEPT !.fdwait = FALSE], TRUE)

scgi_connection_close_callback(r) ==
    /\ hctx[r].state # "none" /\ Close(r, hosts, hctx[r])
    /\ UNCHANGED faults

-----------------------------------------------------------------------------
(***************************************************************************)
(* Events of the backend, the backend itself, and the trigger.             *)
(***************************************************************************)
\* end of the answer, or a read error: then a child that has died is replaced
Demux(r, c) ==
    \/ c.unread = "body" /\ Set(r, hosts, [c EXCEPT !.unread = "none", !.file_started = TRUE])
    \/ c.unread = "none" /\ Close(r, hosts, c)
    \/ /\ c.unread = "none"
       /\ \E result \in SpawnResults :
             LET proc == Proc(hosts, c.host, c.proc)
                 n == IF proc.is_local /\ proc.state # "DIED" /\ proc.child = "zombie"
                      THEN IF result = "failed"
                           THEN [Reaped(hosts, c.host, c.proc)
                                    EXCEPT ![c.host].procs[c.proc].state = "DIED"]
                           ELSE scgi_proclist_sort_down(
                                   scgi_spawn_connection(Reaped(hosts, c.host, c.proc),
                                                         c.host, c.proc, result), c.host, c.proc)
                      ELSE hosts
             IN  IF ~c.file_started /\ ~c.bytes_out /\ c.reconnects < MaxReconnects
                 THEN scgi_reconnect(r, n, c, c.fdwait)
                 ELSE Close(r, n, c)

scgi_handle_fdevent(r) ==
    LET c == hctx[r] IN
    /\ ~c.joblist
    /\ \/ /\ c.state = "READ" /\ (c.unread # "none" \/ c.socket = "closed")
          /\ Demux(r, c) /\ UNCHANGED faults
       \/ /\ c.state \in {"CONNECT", "WRITE"} /\ c.socket \in {"up", "closed", "refused"}
          /\ scgi_write_request(r, c, c.fdwait)

Backend(r) ==
    LET c == hctx[r] IN
    /\ \/ /\ c.socket = "pending"
          /\ \E s \in {"up", "refused"} : hctx' = [hctx EXCEPT ![r].socket = s]
       \/ /\ c.socket = "up" /\ c.bytes_out /\ c.unread = "none" /\ ~c.file_started
          /\ hctx' = [hctx EXCEPT ![r].unread = "body"]
       \/ c.socket = "up" /\ hctx' = [hctx EXCEPT ![r].socket = "closed"]
    /\ UNCHANGED <<hosts, faults>>

Dies(h, p) ==
    /\ faults < MaxFaults /\ Proc(hosts, h, p).child = "alive"
    /\ hosts' = [hosts EXCEPT ![h].procs[p].child = "zombie"]
    /\ hctx' = [r \in Requests |->
          IF hctx[r].host = h /\ hctx[r].proc = p /\ hctx[r].socket \in {"pending", "up"}
          THEN [hctx[r] EXCEPT !.socket = IF @ = "up" THEN "closed" ELSE "refused"]
          ELSE hctx[r]]
    /\ faults' = faults + 1

mod_scgi_handle_trigger ==
    /\ \E h \in Hosts, p \in 1..NProcs : p \in Procs(h) /\ Proc(hosts, h, p).state # "RUNNING"
    /\ \E results \in Results, due \in [Hosts -> BOOLEAN] :
          LET all[h \in 0..NHosts] ==
                  IF h = 0 THEN hosts ELSE scgi_restart_dead_procs(all[h - 1], h, results, due[h])
          IN hosts' = all[NHosts]
    /\ UNCHANGED <<hctx, faults>>

Steps ==
    \/ \E r \in Requests : \/ scgi_check_extension(r) \/ Continue(r)
                           \/ scgi_connection_close_callback(r)
                           \/ scgi_handle_fdevent(r) \/ Backend(r)
    \/ \E h \in Hosts : \E p \in Procs(h) : Dies(h, p)
    \/ mod_scgi_handle_trigger

Next ==
    /\ Steps
    /\ calm' = (calm /\ \A r \in Requests : hctx'[r].reconnects <= hctx[r].reconnects)

Spec == Init /\ [][Next]_vars

-----------------------------------------------------------------------------
(***************************************************************************)
(* Properties.                                                             *)
(***************************************************************************)
Holders(h) == {r \in Requests : hctx[r].host = h}
Users(h, p) == {r \in Holders(h) : hctx[r].proc = p /\ hctx[r].got_proc}

(***************************************************************************)
(* active_procs, by which a host is chosen or passed over, is never less   *)
(* than the number of its processes that run.                              *)
(***************************************************************************)
ActiveCovers ==
    \A h \in Hosts :
        hosts[h].active_procs >= Cardinality({p \in Procs(h) : Proc(hosts, h, p).state = "RUNNING"})

(***************************************************************************)
(* A host's load is never less than the number of its requests: it does    *)
(* not go down twice for one of them, and never below zero.                *)
(***************************************************************************)
LoadKept == \A h \in Hosts : hosts[h].load >= Cardinality(Holders(h))

(***************************************************************************)
(* No process is started while the one in its place still lives.           *)
(***************************************************************************)
OneChild == \A h \in Hosts : \A p \in Procs(h) : Proc(hosts, h, p).child # "two"

(***************************************************************************)
(* However processes are moved in it, the list of a host holds each of its *)
(* processes once: none is lost to the requests or to the restarts.        *)
(***************************************************************************)
ListWhole ==
    \A h \in Hosts :
        /\ \A p \in Procs(h) : \E k \in DOMAIN hosts[h].first : hosts[h].first[k] = p
        /\ Len(hosts[h].first) = Cardinality(Procs(h))

(***************************************************************************)
(* As long as no request has been reconnected, the load of a process is    *)
(* the number of its requests, and the list is in the order of the loads.  *)
(***************************************************************************)
ListSorted ==
    calm => \A h \in Hosts :
        /\ \A p \in Procs(h) : Load(hosts, h, p) = Cardinality(Users(h, p))
        /\ \A k \in 2..Len(hosts[h].first) :
              Load(hosts, h, hosts[h].first[k - 1]) <= Load(hosts, h, hosts[h].first[k])

(***************************************************************************)
(* mod_scgi.c:1248, on a request whose connection has failed before the    *)
(* first byte: "next step is resetting this attemp and setup a connection  *)
(* again".  So it is in one of the queues that continue it.                *)
(***************************************************************************)
Reconnects ==
    \A r \in Requests :
        hctx[r].state = "INIT" /\ hctx[r].reconnects > 0 => hctx[r].joblist \/ hctx[r].fdwait
=============================================================================
