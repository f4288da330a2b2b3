-------------------------------- MODULE Proxy --------------------------------
(***************************************************************************)
(* mod_proxy with several hosts behind one extension: a request is given a *)
(* host by the balancing; one that does not answer is disabled for a       *)
(* while, and the request starts over with the hosts that are left.        *)
(* Connection has the details of the one connection, Server those of the   *)
(* descriptors; here the subject is the hosts and who keeps them.          *)
(***************************************************************************)
EXTENDS Integers, FiniteSets

CONSTANTS
    Requests, NHosts,
    Balance,                \* "fair", "hash" or "rr"
    Weight,                 \* of a host for a request: crc32c of path, host and authority
    Retry,                  \* seconds for which a host is disabled (5 in the code)
    ConnectTime,            \* a connect() under way fails after so many seconds
    Posts                   \* requests that have a body

VARIABLES
    hosts, last_used_ndx,
    req,                    \* connection and handler_ctx of each request
    passed                  \* how often in a row round robin has passed over an enabled host

vars == <<hosts, last_used_ndx, req, passed>>

Hosts == 0..(NHosts - 1)
None == -1

ProxyAssumption ==
    /\ NHosts \in Nat \ {0} /\ IsFiniteSet(Requests) /\ Posts \subseteq Requests
    /\ Retry \in Nat /\ ConnectTime \in Nat
    /\ Balance \in {"fair", "hash", "rr"}
    /\ Balance = "hash" => \A r \in Requests, h \in Hosts : Weight[r][h] \in Nat

\* "joblist" and "fdwait" count the entries of the two queues; "revived": a host was enabled
\* again while the request was under way
Free == [phase |-> "free", mode |-> "direct", state |-> "none", host |-> None, socket |-> "none",
         age |-> 0, body |-> "none", status |-> 0, file_started |-> FALSE,
         joblist |-> 0, fdwait |-> 0, revived |-> FALSE]

Init ==
    /\ hosts = [h \in Hosts |-> [is_disabled |-> FALSE, age |-> 0, usage |-> 0]]
    /\ last_used_ndx = 0 /\ req = [r \in Requests |-> Free] /\ passed = [h \in Hosts |-> 0]

-----------------------------------------------------------------------------
(***************************************************************************)
(* The choice of a host.                                                   *)
(***************************************************************************)
Up == {h \in Hosts : ~hosts[h].is_disabled}
First(S) == CHOOSE h \in S : \A g \in S : h <= g

Fair == First({h \in Up : \A g \in Up : hosts[h].usage <= hosts[g].usage})
Hash(r) == First({h \in Up : \A g \in Up : Weight[r][h] >= Weight[r][g]})

Again(S) == First(S)        \* mutant: the search begins at the first host
\* the next one that is enabled, from the start again behind the last
RoundRobin(S) ==
    LET later == {h \in S : h > last_used_ndx}
    IN  IF later # {} THEN First(later) ELSE First(S)

Chosen(r) ==
    CASE Up = {} -> None
      [] Up # {} /\ NHosts = 1 -> 0
      [] Up # {} /\ NHosts > 1 /\ Balance = "fair" -> Fair
      [] Up # {} /\ NHosts > 1 /\ Balance = "hash" -> Hash(r)
      [] Up # {} /\ NHosts > 1 /\ Balance = "rr" -> RoundRobin(Up)

-----------------------------------------------------------------------------
(***************************************************************************)
(* proxy_connection_close(), and a host that has failed: the request goes  *)
(* back to where no host was chosen.                                       *)
(***************************************************************************)
Kept(hs, c) == IF c.host = None \/ c.state = "CONNECT" THEN hs ELSE [hs EXCEPT ![c.host].usage = @ - 1] \* mutant
Released(hs, c) == IF c.host = None THEN hs ELSE [hs EXCEPT ![c.host].usage = @ - 1]
Detached(c) == [c EXCEPT !.state = "none", !.host = None, !.socket = "none", !.age = 0]

\* mod_proxy_handle_subrequest() appends to the joblist and returns HANDLER_WAIT_FOR_FD: the
\* machine puts the request into the fdwaitqueue besides, the loop that dispatches events does not
Queued(c) == [c EXCEPT !.joblist = @ + 1]
Waiting(c, caller) == [c EXCEPT !.fdwait = IF caller = "event" THEN @ ELSE @ + 1]
Restarted(c, caller) == Waiting(Queued([Detached(c) EXCEPT !.mode = "direct"]), caller)

Disabled(hs, h) == [hs EXCEPT ![h].is_disabled = TRUE, ![h].age = 0]
HostFailed(r, hs, c, caller) ==
    /\ hosts' = Released(Disabled(hs, c.host), c)
    /\ req' = [req EXCEPT ![r] = Restarted(c, caller)]

Set(r, hs, c) == hosts' = hs /\ req' = [req EXCEPT ![r] = c]

\* proxy_create_env() takes the body out of its chunks and walks through them until
\* it has all of it: when it was taken before, it runs off the end
Environment(c) ==
    CASE c.body = "none"  -> [c EXCEPT !.state = "WRITE"]
      [] c.body = "whole" -> [c EXCEPT !.state = "WRITE", !.body = "taken"]
      [] c.body = "taken" -> [c EXCEPT !.state = "crashed"]

\* all is written, a part of it, or the backend has gone; nothing, while it is not connected
Write(r, hs, c, caller) ==
    \/ c.socket \notin {"pending", "refused"} /\ Set(r, hs, [c EXCEPT !.state = "READ"])
    \/ (c.body # "none" \/ c.socket = "pending") /\ c.socket # "refused" /\ Set(r, hs, c)
    \/ c.socket # "pending" /\ HostFailed(r, hs, c, caller)

PrepareWrite(r, hs, c, caller) ==
    LET e == Environment(c)
    IN  IF e.state = "crashed" THEN Set(r, hs, e) ELSE Write(r, hs, e, caller)

proxy_write_request(r, hs, c, caller) ==
    \/ /\ c.state = "INIT"                  \* socket(), connect()
       /\ \/ Set(r, hs, [c EXCEPT !.state = "CONNECT", !.socket = "pending"])
          \/ HostFailed(r, hs, c, caller)
          \/ PrepareWrite(r, hs, [c EXCEPT !.socket = "up"], caller)
    \/ /\ c.state = "CONNECT"               \* a connect() under way has no error yet
       /\ IF c.socket = "refused" THEN HostFailed(r, hs, c, caller)
          ELSE PrepareWrite(r, hs, c, caller)
    \/ c.state = "WRITE" /\ Write(r, hs, c, caller)
    \/ c.state = "READ"
       /\ Set(r, hs, IF c.file_started THEN [c EXCEPT !.phase = "write"] ELSE c)

-----------------------------------------------------------------------------
(***************************************************************************)
(* A request arrives; the joblist or the fdwaitqueue runs it, and one that *)
(* has no host is given one; its answer is written.  An entry of the       *)
(* fdwaitqueue that outlives its request runs in vain and is left out.     *)
(***************************************************************************)
Arrive(r) ==
    /\ req[r].phase = "free"
    /\ req' = [req EXCEPT ![r] = [Free EXCEPT !.phase = "handle", !.joblist = 1,
                                     !.body = IF r \in Posts THEN "whole" ELSE "none"]]
    /\ UNCHANGED <<hosts, last_used_ndx, passed>>

Respond(c, status) == [c EXCEPT !.phase = "write", !.status = status]

mod_proxy_check_extension(r, c, caller) ==
    LET h == Chosen(r) IN
    /\ last_used_ndx' = IF NHosts > 1 /\ Balance = "rr" THEN h ELSE last_used_ndx
    /\ passed' = [g \in Hosts |-> IF Balance = "rr" /\ g \in Up \ {h} THEN passed[g] + 1 ELSE 0]
    /\ IF h = None THEN Set(r, hosts, Respond(c, 500))
       ELSE proxy_write_request(r, [hosts EXCEPT ![h].usage = @ + 1],
                [c EXCEPT !.mode = "proxy", !.host = h, !.state = "INIT"], caller)

Handle(r, c, caller) ==
    \/ c.mode = "direct" /\ c.status # 0 /\ Set(r, hosts, Respond(c, c.status))
       /\ UNCHANGED <<last_used_ndx, passed>>
    \/ c.mode = "direct" /\ c.status = 0 /\ mod_proxy_check_extension(r, c, caller)
    \/ c.mode = "proxy" /\ c.state = "none" /\ Set(r, hosts, Respond(c, 200))
       /\ UNCHANGED <<last_used_ndx, passed>>
    \/ c.mode = "proxy" /\ c.state # "none" /\ proxy_write_request(r, hosts, c, caller)
       /\ UNCHANGED <<last_used_ndx, passed>>

\* in WRITE the machine writes to the client, which is nothing to the proxy
Entered(r, c, caller) ==
    IF req[r].phase = "handle" THEN Handle(r, c, caller)
    ELSE Set(r, hosts, c) /\ UNCHANGED <<last_used_ndx, passed>>

Run(r) ==
    /\ req[r].phase # "free"
    /\ \/ req[r].joblist > 0 /\ Entered(r, [req[r] EXCEPT !.joblist = @ - 1], "joblist")
       \/ req[r].fdwait > 0 /\ Entered(r, [req[r] EXCEPT !.fdwait = @ - 1], "fdwait")

\* the answer is written, or the client has gone
mod_proxy_connection_close_callback(r) ==
    /\ req[r].phase # "free" /\ req[r].state # "crashed"
    /\ hosts' = Released(hosts, req[r]) /\ req' = [req EXCEPT ![r] = Free]
    /\ UNCHANGED <<last_used_ndx, passed>>
Written(r) == req[r].phase = "write" /\ req[r].state = "none" /\ mod_proxy_connection_close_callback(r)

-----------------------------------------------------------------------------
(***************************************************************************)
(* Events of the backend, and the clock.                                   *)
(***************************************************************************)
Backend(r) ==
    /\ \/ req[r].socket = "pending" /\ \E s \in {"up", "refused"} : req' = [req EXCEPT ![r].socket = s]
       \/ req[r].socket = "up" /\ \E s \in {"answer", "closed", "reset"} :
              req' = [req EXCEPT ![r].socket = s]
       \/ req[r].socket = "answer" /\ req' = [req EXCEPT ![r].socket = "closed"]
    /\ UNCHANGED <<hosts, last_used_ndx, passed>>

proxy_handle_fdevent(r) ==
    LET c == req[r]
        done == Queued(Detached(c))
    IN
    /\ c.joblist = 0
    /\ \/ /\ c.state = "READ" /\ c.socket = "answer" /\ ~c.file_started
          /\ Set(r, hosts, [Queued(c) EXCEPT !.file_started = TRUE])
       \/ /\ c.state = "READ" /\ c.socket = "closed" /\ Set(r, Released(hosts, c), done)
       \/ /\ c.state = "READ" /\ c.socket = "reset"         \* closed with the request
          /\ IF c.file_started THEN Set(r, Released(hosts, c), Free)
             ELSE Set(r, Released(hosts, c), [done EXCEPT !.mode = "direct", !.status = 500])
       \/ /\ c.state \in {"CONNECT", "WRITE"} /\ c.socket \notin {"none", "pending"}
          /\ proxy_write_request(r, hosts, c, "event")
    /\ UNCHANGED <<last_used_ndx, passed>>

\* mod_proxy_trigger(), each second
AtOnce(host) == TRUE        \* mutant: whatever disable_ts says
Due(host) == host.age >= Retry

\* what the loop has to do comes before the clock is looked at; there are descriptors to
\* spare, so that the fdwaitqueue is worked off (Server has them run out)
Nothing(c) ==
    /\ c.joblist = 0 /\ c.fdwait = 0 /\ (c.socket = "pending" => c.age < ConnectTime)
    /\ c.state \in {"CONNECT", "WRITE"} => c.socket \in {"none", "pending"}

Later(h) == [hosts[h] EXCEPT !.age = IF hosts[h].is_disabled THEN @ + 1 ELSE 0]
Revived == {h \in Hosts : Later(h).is_disabled /\ Due(Later(h))}

Second ==
    /\ \A r \in Requests : Nothing(req[r])
    /\ hosts' = [h \in Hosts |->
          IF h \in Revived THEN [Later(h) EXCEPT !.is_disabled = FALSE, !.age = 0] ELSE Later(h)]
    /\ req' = [r \in Requests |->
          [req[r] EXCEPT !.age = IF req[r].socket = "pending" THEN @ + 1 ELSE @,
                         !.revived = req[r].phase # "free" /\ (@ \/ Revived # {})]]
    /\ \E h \in Hosts : hosts[h].is_disabled
    /\ UNCHANGED <<last_used_ndx, passed>>

Next ==
    \/ \E r \in Requests : \/ Arrive(r) \/ Run(r) \/ mod_proxy_connection_close_callback(r)
                           \/ Backend(r) \/ proxy_handle_fdevent(r)
    \/ Second

\* the server goes on, and backends do something
Goes(r) == Run(r) \/ Written(r) \/ proxy_handle_fdevent(r)

-----------------------------------------------------------------------------
(***************************************************************************)
(* Properties.                                                             *)
(***************************************************************************)
TypeOK ==
    /\ last_used_ndx \in Hosts \cup {None}
    /\ \A h \in Hosts : hosts[h].age \in 0..Retry /\ hosts[h].usage \in 0..Cardinality(Requests)
    /\ \A r \in Requests : req[r].host \in Hosts \cup {None} /\ req[r].age \in 0..ConnectTime

(***************************************************************************)
(* The usage by which "fair" balances is the number of requests that have  *)
(* the host, whether they connect, write, read or wait for their end.      *)
(***************************************************************************)
UsageAgrees == \A h \in Hosts : hosts[h].usage = Cardinality({r \in Requests : req[r].host = h})

(***************************************************************************)
(* Round robin: a host that stays enabled gets a request before any other  *)
(* gets a second one, although hosts are disabled and enabled meanwhile.   *)
(***************************************************************************)
Turns == Balance = "rr" => \A h \in Hosts : passed[h] < NHosts

(***************************************************************************)
(* A request under way is in the joblist or waits for its socket; that it  *)
(* is in the fdwaitqueue, too, is not what it relies on.                   *)
(***************************************************************************)
Continued == \A r \in Requests : req[r].phase = "handle" => req[r].joblist > 0 \/ req[r].socket # "none"

(***************************************************************************)
(* Hosts that do not answer are enabled again after some seconds, and a    *)
(* request tries them again.  It ends nevertheless when all of them fail   *)
(* before the first one is back.  connect() has no timeout here, so with   *)
(* slower ones it may go round for ever: then it ends, or has seen a host  *)
(* come back.                                                              *)
(***************************************************************************)
Quick == NHosts * ConnectTime < Retry
Ends == \A r \in Requests :
    req[r].phase # "free" ~> req[r].phase = "free" \/ (req[r].revived /\ ~Quick)
Fairness ==
    /\ \A r \in Requests : WF_vars(Goes(r)) /\ WF_vars(Backend(r))
    /\ WF_vars(Second)
Spec == Init /\ [][Next]_vars /\ Fairness

(***************************************************************************)
(* mod_proxy.c:950, when a backend cannot be written to: "reset the        *)
(* enviroment and restart the sub-request".  The request that is restarted *)
(* is still complete: its body can be sent to the next host.               *)
(***************************************************************************)
BodyKept == \A r \in Requests : req[r].state # "crashed"
=============================================================================
