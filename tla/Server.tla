-------------------------------- MODULE Server --------------------------------
(***************************************************************************)
(* The main loop of server.c with several connections: the table of        *)
(* connections, the descriptors and their events, the joblist, the         *)
(* fdwaitqueue, the listen socket and the shutdown.  The state machine of  *)
(* a connection is reduced to what these see of it (module Connection has  *)
(* the rest): the states it can stop in, the descriptors it opens and      *)
(* closes, the queues it is put into.                                      *)
(*                                                                         *)
(* Descriptors are numbers and the kernel hands out the lowest free one,   *)
(* so the number of a closed descriptor soon belongs to somebody else.     *)
(***************************************************************************)
EXTENDS ConnTable, Sequences, FiniteSets

CONSTANTS
    MaxConns,               \* srv->max_conns
    MaxFds,                 \* srv->max_fds
    SpareFds,               \* descriptors the fdwaitqueue may not use (16)
    AcceptLoops,            \* accept()s for one event (100)
    Hosts,                  \* hosts of the gateway
    MaxKeepAliveRequests,   \* server.max-keep-alive-requests
    MaxFdWait,              \* bound: entries of the fdwaitqueue
    MaxJobs                 \* bound: a socket takes no more while the joblist is longer

ASSUME ServerAssumption ==
    /\ {MaxConns, MaxFds, SpareFds, AcceptLoops, Hosts, MaxKeepAliveRequests, MaxFdWait, MaxJobs} \subseteq Nat
    /\ MaxConns <= Size /\ MaxConns <= MaxFds \div 2 /\ MaxConns > 0

VARIABLES
    state, gw,              \* per connection: con->state, its gateway request
    request_count,          \* con->request_count
    fd, in_epoll,           \* con->fd; con->fde_ndx # -1
    back,                   \* hctx->fd of the gateway request
    idle,                   \* connections beyond their idle time
    opened,                 \* kernel: open descriptors
    epoll,                  \* kernel: descriptor -> what epoll waits for
    fdarray,                \* ev->fdarray: descriptor -> whom its handler is called for
    cur_fds, want_fds,
    joblist, fdwaitqueue,   \* sequences of connections
    hosts,                  \* hosts not disabled
    sockets_disabled, graceful_shutdown, srv_shutdown,
    pid_file,               \* does the pid file exist?
    phase, i,               \* where the main loop is; index of its for loop
    free_fds, loops,        \* local variables of the fdwaitqueue and accept loops
    events,                 \* what fdevent_poll() reported and is not yet dispatched
    con, done               \* the machine: connection it runs for, or Nobody; its flag

fdvars    == <<opened, epoll, fdarray, cur_fds>>
queues    == <<want_fds, joblist, fdwaitqueue>>
sigvars   == <<graceful_shutdown, srv_shutdown>>
listening == <<sockets_disabled, pid_file>>
loopvars  == <<phase, i, free_fds, loops, events>>
machine   == <<con, done>>

vars == <<table, state, gw, request_count, fd, in_epoll, back, idle, fdvars, queues, hosts, sigvars,
          listening, loopvars, machine>>

Fds     == 0..(MaxFds - 1)
NoFd    == -1
Nobody  == 0                             \* no connection
Listen  == 0                             \* descriptor of the listen socket

\* whom a descriptor belongs to
Client(c)  == [who |-> c, what |-> "client"]
Gateway(c) == [who |-> c, what |-> "gateway"]
Listener   == [who |-> Nobody, what |-> "listen"]
Nothing    == [who |-> Nobody, what |-> "none"]
Owners == [who : Conns, what : {"client", "gateway"}] \cup {Listener, Nothing}

\* REQUEST_START and REQUEST_END are passed within one run of the machine: they
\* are part of the step that leads to them, as are READ_POST of READ and
\* RESPONSE_START of HANDLE_REQUEST
States == {"connect", "read", "handlereq", "write", "respend", "error", "close"}

\* no gateway; connect() or the request not yet over; waiting for the header;
\* header there; all there and the descriptor closed; failed, not yet closed
Gateways == {"none", "connecting", "waiting", "answering", "done", "broken"}

TypeOK ==
    /\ TableTypeOK
    /\ state \in [Conns -> States] /\ gw \in [Conns -> Gateways]
    /\ request_count \in [Conns -> Nat]
    /\ fd \in [Conns -> Fds \cup {NoFd}] /\ in_epoll \in [Conns -> BOOLEAN]
    /\ back \in [Conns -> Fds \cup {NoFd}] /\ idle \subseteq Conns
    /\ opened \subseteq Fds /\ epoll \in [Fds -> {"none", "IN", "OUT"}]
    /\ fdarray \in [Fds -> Owners]
    /\ cur_fds \in Int /\ want_fds \in Int
    /\ joblist \in Seq(Conns) /\ fdwaitqueue \in Seq(Conns) /\ hosts \in 0..Hosts
    /\ {sockets_disabled, graceful_shutdown, srv_shutdown, pid_file} \subseteq BOOLEAN
    /\ phase \in {"signals", "trigger", "sockets", "end", "fdwait", "dispatch",
                  "accept", "jobs", "stopped"}
    /\ i \in Nat /\ free_fds \in Int /\ loops \in Nat
    /\ events \subseteq [fd : Fds, owner : Owners]
    /\ con \in Conns \cup {Nobody} /\ done \in BOOLEAN

\* the listen socket was registered before (network_register_fdevents)
Init ==
    /\ TableInit
    /\ state = [c \in Conns |-> "connect"] /\ gw = [c \in Conns |-> "none"]
    /\ request_count = [c \in Conns |-> 0]
    /\ fd = [c \in Conns |-> NoFd] /\ in_epoll = [c \in Conns |-> FALSE]
    /\ back = [c \in Conns |-> NoFd] /\ idle = {}
    /\ opened = {Listen}
    /\ epoll = [f \in Fds |-> IF f = Listen THEN "IN" ELSE "none"]
    /\ fdarray = [f \in Fds |-> IF f = Listen THEN Listener ELSE Nothing]
    /\ cur_fds = 1 /\ want_fds = 0
    /\ joblist = <<>> /\ fdwaitqueue = <<>> /\ hosts = Hosts
    /\ sockets_disabled = FALSE /\ graceful_shutdown = FALSE /\ srv_shutdown = FALSE
    /\ pid_file = TRUE
    /\ phase = "signals" /\ i = 0 /\ free_fds = 0 /\ loops = 0 /\ events = {}
    /\ con = Nobody /\ done = FALSE

InUse == {c \in Conns : ndx[c] # -1}

-----------------------------------------------------------------------------
(***************************************************************************)
(* fdevent.c with the epoll backend, and the kernel's descriptors.         *)
(***************************************************************************)
LowestFree == CHOOSE f \in Fds \ opened : \A g \in Fds \ opened : f <= g

\* a descriptor is opened, counted and registered; epoll waits for "event"
Open(owner, event) ==
    /\ opened # Fds
    /\ opened' = opened \cup {LowestFree}
    /\ cur_fds' = cur_fds + 1
    /\ fdarray' = [fdarray EXCEPT ![LowestFree] = owner]
    /\ epoll' = [epoll EXCEPT ![LowestFree] = event]

\* fdevent_event_del(), fdevent_unregister(), close() of the descriptors "gone"
Forget(f, gone, value) == [x \in DOMAIN f |-> IF x \in gone THEN value ELSE f[x]]
Close(gone) ==
    /\ opened' = opened \ gone
    /\ cur_fds' = cur_fds - Cardinality(gone)
    /\ fdarray' = Forget(fdarray, gone, Nothing)
    /\ epoll' = Forget(epoll, gone, "none")

\* mutant: fdevent_event_del() of the epoll backend without the check of fde_ndx
EventDelUnchecked(c) ==
    IF fdarray[fd[c]] # Nothing
    THEN /\ epoll' = [epoll EXCEPT ![fd[c]] = "none"]
         /\ in_epoll' = [in_epoll EXCEPT ![c] = FALSE]
    ELSE UNCHANGED <<epoll, in_epoll>>

\* fdevent_event_del(&con->fde_ndx, con->fd)
EventDel(c) ==
    IF fdarray[fd[c]] # Nothing /\ in_epoll[c]
    THEN /\ epoll' = [epoll EXCEPT ![fd[c]] = "none"]
         /\ in_epoll' = [in_epoll EXCEPT ![c] = FALSE]
    ELSE UNCHANGED <<epoll, in_epoll>>

\* fdevent_event_set(&con->fde_ndx, con->fd, event)
EventSet(c, event) ==
    /\ epoll' = [epoll EXCEPT ![fd[c]] = event]
    /\ in_epoll' = [in_epoll EXCEPT ![c] = TRUE]

\* joblist_append(), n times
Jobs(c, n) == joblist' = joblist \o [k \in 1..n |-> c]

-----------------------------------------------------------------------------
(***************************************************************************)
(* connection_state_machine(), one iteration after the other, and its exit.*)
(***************************************************************************)
Run(c) == con' = c /\ done' = FALSE

In(s) == con # Nobody /\ ~done /\ state[con] = s

\* a state is entered with a fresh time stamp
Goto(s) ==
    /\ state' = [state EXCEPT ![con] = s]
    /\ done' = (state[con] = s) /\ con' = con
    /\ idle' = IF state[con] = s THEN idle ELSE idle \ {con}

Outside == <<sigvars, listening, loopvars>>

ConConnect ==
    /\ In("connect") /\ Goto("connect")
    /\ request_count' = [request_count EXCEPT ![con] = 0]
    /\ UNCHANGED <<table, gw, fd, in_epoll, back, fdvars, queues, hosts, Outside>>

ConRead ==
    /\ In("read")
    /\ \/ \E s \in {"read", "handlereq", "error"} : Goto(s)
       \/ /\ done' = TRUE /\ idle' = idle \ {con} /\ UNCHANGED <<con, state>>
    /\ UNCHANGED <<table, gw, request_count, fd, in_epoll, back, fdvars, queues, hosts, Outside>>

\* a response is there, or HANDLER_ERROR
Answer ==
    /\ \/ /\ gw[con] \in {"none", "answering", "done", "broken"}
          /\ Goto("write")
       \/ Goto("error")
    /\ UNCHANGED <<gw, back, fdvars, queues, hosts>>

\* proxy_write_request() has opened the descriptor and waits for its event
GatewayOpened ==
    /\ gw[con] = "none" /\ hosts > 0
    /\ \E g \in {"connecting", "waiting"} :
          /\ Open(Gateway(con), IF g = "connecting" THEN "OUT" ELSE "IN")
          /\ gw' = [gw EXCEPT ![con] = g]
    /\ back' = [back EXCEPT ![con] = LowestFree]
    /\ Goto("handlereq") /\ UNCHANGED <<queues, hosts>>

\* mutant: disabled hosts are tried
AnyHost == hosts' = hosts - 1
HostDisabled ==
    \/ hosts > 0 /\ hosts' = hosts - 1
    \/ gw[con] # "none" /\ hosts < Hosts /\ UNCHANGED hosts    \* it was already

\* ... has failed: the host is disabled, the request starts over
HostFailed ==
    /\ gw[con] \in {"none", "connecting"}
    /\ Len(fdwaitqueue) < MaxFdWait
    /\ HostDisabled
    /\ Close({back[con]} \ {NoFd})
    /\ gw' = [gw EXCEPT ![con] = "none"] /\ back' = [back EXCEPT ![con] = NoFd]
    /\ Jobs(con, 1)
    /\ want_fds' = want_fds + 1 /\ fdwaitqueue' = Append(fdwaitqueue, con)
    /\ Goto("handlereq")

\* the backend has not answered; what it waits for may have changed
GatewayWaits ==
    /\ gw[con] \in {"connecting", "waiting"}
    /\ \/ UNCHANGED <<gw, epoll>>
       \/ /\ gw' = [gw EXCEPT ![con] = "waiting"]
          /\ epoll' = [epoll EXCEPT ![back[con]] = "IN"]
    /\ Goto("handlereq") /\ UNCHANGED <<back, opened, fdarray, cur_fds, queues, hosts>>

ConHandleRequest ==
    /\ In("handlereq")
    /\ Answer \/ GatewayOpened \/ HostFailed \/ GatewayWaits
    /\ UNCHANGED <<table, request_count, fd, in_epoll, Outside>>

\* does everything of the response have to be in write_queue?
Complete(c) == gw[c] \in {"none", "done", "broken"}

ConWrite ==
    /\ In("write")
    /\ \/ Goto("write") /\ UNCHANGED joblist
       \/ /\ Len(joblist) < MaxJobs /\ Jobs(con, 1)
          /\ \/ Goto("error")
             \/ Complete(con) /\ Goto("respend")
    /\ UNCHANGED <<table, gw, request_count, fd, in_epoll, back, fdvars, want_fds, fdwaitqueue, hosts, Outside>>

\* connection_reset(): mod_proxy closes what the request still has open
Reset == gw' = [gw EXCEPT ![con] = "none"] /\ back' = [back EXCEPT ![con] = NoFd]
LeftOpen == {}                           \* mutant: the gateway only closes in its handlers
Backend == {back[con]} \ {NoFd}

\* connection_close(), with the descriptors of a gateway closed before or after it
ConnectionClose(others) ==
    /\ in_epoll' = [in_epoll EXCEPT ![con] = FALSE]
    /\ Close(others \cup {fd[con]})
    /\ ConnectionDel(con)
    /\ Goto("connect")

\* shutdown() succeeds, or fails
Finish ==
    /\ \/ Goto("close") /\ Close(Backend) /\ UNCHANGED <<table, in_epoll>>
       \/ ConnectionClose(Backend)
    /\ Reset /\ UNCHANGED <<request_count, fd, queues, hosts, Outside>>

ConResponseEnd ==
    /\ In("respend")
    /\ \/ /\ request_count[con] <= MaxKeepAliveRequests
          /\ request_count' = [request_count EXCEPT ![con] = @ + 1]
          /\ Goto("read") /\ Close(Backend) /\ Reset
          /\ UNCHANGED <<table, fd, in_epoll, queues, hosts, Outside>>
       \/ Finish

ConError == In("error") /\ Finish

\* nothing to read yet, or the lingering is over
ConClose ==
    /\ In("close")
    /\ \/ con \notin idle /\ Goto("close") /\ UNCHANGED <<table, in_epoll, fdvars>>
       \/ ConnectionClose({})
    /\ UNCHANGED <<gw, request_count, fd, back, queues, hosts, Outside>>

\* the descriptor's events for the state the machine stops in; in WRITE the
\* descriptor is not waited for while a backend has to send more
Exit ==
    /\ con # Nobody /\ done
    /\ CASE state[con] \in {"read", "close"} -> EventSet(con, "IN")
         [] state[con] = "write" -> \/ EventSet(con, "OUT")
                                    \/ gw[con] = "answering" /\ EventDel(con)
         [] OTHER -> EventDel(con)
    /\ con' = Nobody /\ done' = FALSE
    /\ UNCHANGED <<table, state, gw, request_count, fd, back, idle, opened, fdarray, cur_fds, queues,
                   hosts, Outside>>

StateMachine == ConConnect \/ ConRead \/ ConHandleRequest \/ ConWrite \/ ConResponseEnd
                \/ ConError \/ ConClose \/ Exit

-----------------------------------------------------------------------------
(***************************************************************************)
(* The main loop.  It is one thread: its steps are taken between two runs  *)
(* of the machine.                                                         *)
(***************************************************************************)
At(p) == phase = p /\ con = Nobody

ToPhase(p) == phase' = p /\ UNCHANGED <<i, free_fds, loops, events>>

Stays == <<table, gw, request_count, fd, in_epoll, back>>
Quiet == <<Stays, state, idle, fdvars, queues, hosts, machine>>

\* signals come at any time; one that comes while nobody reads its flag is as
\* good as one that comes just before
SigTerm == /\ At("signals")
           /\ srv_shutdown' = TRUE
           /\ UNCHANGED <<Quiet, graceful_shutdown, listening, loopvars>>

SigInt == /\ con = Nobody /\ phase \in {"signals", "sockets", "end"}
          /\ graceful_shutdown' = TRUE
          /\ srv_shutdown' = (srv_shutdown \/ graceful_shutdown)
          /\ UNCHANGED <<Quiet, listening, loopvars>>

Stop == /\ At("signals") /\ srv_shutdown
        /\ pid_file' = (pid_file /\ graceful_shutdown)
        /\ ToPhase("stopped") /\ UNCHANGED <<Quiet, sockets_disabled, sigvars>>

SameSecond == /\ At("signals") /\ ~srv_shutdown
              /\ ToPhase("sockets") /\ UNCHANGED <<Quiet, sigvars, listening>>

\* disabled hosts may be tried again, and any connection may by now have
\* exceeded its time
NewSecond ==
    /\ At("signals") /\ ~srv_shutdown
    /\ hosts' \in hosts..Hosts
    /\ \E late \in SUBSET {c \in InUse : state[c] \in {"read", "write", "close"}} :
          idle' = idle \cup late
    /\ phase' = "trigger" /\ i' = 0
    /\ UNCHANGED <<Stays, state, fdvars, queues, machine, sigvars, listening, free_fds,
                   loops, events>>

\* mutant: nothing is done about a client that does not read
ReadersOnly(c) == c \in idle /\ state[c] \in {"read", "close"}
TimedOut(c) == c \in idle

CheckTimeout ==
    /\ At("trigger") /\ i < used
    /\ i' = i + 1
    /\ IF TimedOut(ptr[i])
       THEN /\ Run(ptr[i])
            /\ state' = [state EXCEPT ![ptr[i]] = IF @ = "close" THEN @ ELSE "error"]
       ELSE UNCHANGED <<state, machine>>
    /\ UNCHANGED <<Stays, idle, fdvars, queues, hosts, sigvars, listening, phase,
                   free_fds, loops, events>>

AllChecked == /\ At("trigger") /\ i >= used
              /\ phase' = "sockets" /\ i' = 0
              /\ UNCHANGED <<Quiet, sigvars, listening, free_fds, loops, events>>

\* there are descriptors and connections to spare
Relaxed == /\ cur_fds + want_fds < (MaxFds * 8) \div 10
           /\ used <= (MaxConns * 9) \div 10
           /\ ~graceful_shutdown

Overloaded == \/ cur_fds + want_fds > (MaxFds * 9) \div 10
              \/ used >= MaxConns
              \/ graceful_shutdown

EnableSockets ==
    /\ epoll' = [epoll EXCEPT ![Listen] = "IN"]
    /\ sockets_disabled' = FALSE
    /\ UNCHANGED <<opened, fdarray, pid_file>>

\* mutant: the descriptor stays in epoll
StillPolled ==
    sockets_disabled' = TRUE /\ UNCHANGED <<epoll, opened, fdarray, pid_file>>

\* when the server is to end gracefully the socket and the pid file go at once
DisableSockets ==
    /\ sockets_disabled' = TRUE
    /\ epoll' = [epoll EXCEPT ![Listen] = "none"]
    /\ IF graceful_shutdown
       THEN /\ opened' = opened \ {Listen} /\ pid_file' = FALSE
            /\ fdarray' = [fdarray EXCEPT ![Listen] = Nothing]
       ELSE UNCHANGED <<opened, fdarray, pid_file>>

CheckSockets ==
    /\ At("sockets")
    /\ \/ sockets_disabled /\ Relaxed /\ EnableSockets
       \/ ~sockets_disabled /\ Overloaded /\ DisableSockets
       \/ /\ IF sockets_disabled THEN ~Relaxed ELSE ~Overloaded
          /\ UNCHANGED <<epoll, opened, fdarray, listening>>
    /\ ToPhase("end")
    /\ UNCHANGED <<Stays, state, idle, cur_fds, queues, hosts, machine, sigvars>>

NoDescriptors == cur_fds = 0                                     \* mutant
NobodyLeft == used = 0

\* all connections of a graceful shutdown are gone; descriptors to share
CheckEnd ==
    /\ At("end")
    /\ srv_shutdown' = (srv_shutdown \/ (graceful_shutdown /\ NobodyLeft))
    /\ free_fds' = IF want_fds > 0 THEN MaxFds - cur_fds - SpareFds ELSE 0
    /\ phase' = "fdwait"
    /\ UNCHANGED <<Quiet, graceful_shutdown, listening, i, loops, events>>

FdWaitPop ==
    /\ At("fdwait") /\ free_fds > 0 /\ fdwaitqueue # <<>>
    /\ Run(Head(fdwaitqueue)) /\ fdwaitqueue' = Tail(fdwaitqueue)
    /\ want_fds' = want_fds - 1 /\ free_fds' = free_fds - 1
    /\ UNCHANGED <<Stays, state, idle, fdvars, joblist, hosts, sigvars, listening, phase,
                   i, loops, events>>

\* any of the descriptors epoll waits for may be ready, or none
Poll ==
    /\ At("fdwait") /\ (free_fds <= 0 \/ fdwaitqueue = <<>>)
    /\ \E ready \in SUBSET {f \in Fds : epoll[f] # "none"} :
          events' = {[fd |-> f, owner |-> fdarray[f]] : f \in ready}
    /\ phase' = "dispatch" /\ free_fds' = 0
    /\ UNCHANGED <<Quiet, sigvars, listening, i, loops>>

\* the next event is that of descriptor f: its handler is called for "owner"
Dispatch(f, owner) ==
    /\ At("dispatch") /\ f \in {e.fd : e \in events} /\ fdarray[f] = owner
    /\ events' = {e \in events : e.fd # f}
    /\ UNCHANGED <<table, request_count, fd, in_epoll, want_fds, fdwaitqueue, sigvars, listening, i,
                   free_fds, loops>>

Become(c, s) == state' = [state EXCEPT ![c] = s]
             /\ idle' = IF state[c] = s THEN idle ELSE idle \ {c}

\* mutant: the machine runs at once
HandledAtOnce(c) == Run(c) /\ UNCHANGED joblist
Deferred(c) == Jobs(c, 1) /\ UNCHANGED machine

\* connection_handle_fdevent(): a hang-up, or what the state waits for
ClientEvent(c) ==
    /\ Dispatch(fd[c], Client(c))
    /\ \/ /\ state[c] # "close" /\ Become(c, "error") /\ Deferred(c)
       \/ /\ state[c] = "close" /\ idle' \in {idle, idle \cup {c}}
          /\ Deferred(c) /\ UNCHANGED state
       \/ /\ state[c] = "read"
          /\ \E s \in {"read", "handlereq", "error"} : state' = [state EXCEPT ![c] = s]
          /\ idle' = idle \ {c} /\ Deferred(c)
       \/ /\ state[c] = "write" /\ Len(joblist) < MaxJobs
          /\ \/ Become(c, "error")
             \/ Complete(c) /\ Become(c, "respend")
          /\ Jobs(c, 2) /\ UNCHANGED machine
       \/ /\ state[c] = "write" /\ idle' = idle \ {c} /\ Deferred(c) /\ UNCHANGED state
       \/ /\ state[c] \notin {"read", "write", "close"} /\ Deferred(c)
          /\ UNCHANGED <<state, idle>>
    /\ UNCHANGED <<gw, back, fdvars, hosts, phase>>

\* proxy_connection_close() from one of its handlers
HangUp(c, g) ==
    /\ gw' = [gw EXCEPT ![c] = g] /\ back' = [back EXCEPT ![c] = NoFd]
    /\ Close({back[c]})

Keeps(c, g) == gw' = [gw EXCEPT ![c] = g] /\ UNCHANGED <<back, fdvars>>

\* proxy_handle_fdevent()
GatewayEvent(c) ==
    /\ Dispatch(back[c], Gateway(c))
    /\ \/ /\ gw[c] = "connecting"
          /\ \/ Keeps(c, "connecting") /\ UNCHANGED <<hosts, joblist>>
             \/ /\ gw' = [gw EXCEPT ![c] = "waiting"]
                /\ epoll' = [epoll EXCEPT ![back[c]] = "IN"]
                /\ UNCHANGED <<back, opened, fdarray, cur_fds, hosts, joblist>>
             \/ /\ hosts' \in {hosts - 1, hosts} \cap 0..(Hosts - 1)
                /\ HangUp(c, "none") /\ Jobs(c, 1)
          /\ UNCHANGED <<state, idle>>
       \/ /\ gw[c] \in {"waiting", "answering"}
          /\ \/ Keeps(c, gw[c]) /\ UNCHANGED joblist
             \/ \E n \in {0, 1} : Keeps(c, "answering") /\ Jobs(c, n)
             \/ \E n \in {1, 2} : HangUp(c, "done") /\ Jobs(c, n)
          /\ UNCHANGED <<state, idle, hosts>>
       \/ /\ gw[c] \in {"waiting", "answering"}
          /\ Keeps(c, "broken") /\ Jobs(c, 1)
          /\ Become(c, IF gw[c] = "answering" THEN "error" ELSE "handlereq")
          /\ UNCHANGED hosts
       \/ /\ gw[c] = "broken" /\ HangUp(c, "done") /\ Jobs(c, 2)
          /\ UNCHANGED <<state, idle, hosts>>
    /\ UNCHANGED <<phase, machine>>

\* network_server_handle_fdevent()
ListenEvent ==
    /\ At("dispatch") /\ Listen \in {e.fd : e \in events} /\ fdarray[Listen] = Listener
    /\ events' = {e \in events : e.fd # Listen}
    /\ phase' = "accept" /\ loops' = 0
    /\ UNCHANGED <<Quiet, sigvars, listening, i, free_fds>>

\* connection_accept()
Accept ==
    /\ At("accept") /\ loops < AcceptLoops
    /\ used < MaxConns
    /\ GetNewConnection
    /\ Open(Client(ptr[used]), "none")
    /\ fd' = [fd EXCEPT ![ptr[used]] = LowestFree]
    /\ in_epoll' = [in_epoll EXCEPT ![ptr[used]] = FALSE]
    /\ state' = [state EXCEPT ![ptr[used]] = "read"]
    /\ request_count' = [request_count EXCEPT ![ptr[used]] = @ + 1]
    /\ Run(ptr[used]) /\ loops' = loops + 1
    /\ UNCHANGED <<gw, back, idle, queues, hosts, sigvars, listening, phase, i, free_fds,
                   events>>

\* nobody waits any more, or enough were accepted
AcceptEnd == /\ At("accept")
             /\ phase' = "dispatch" /\ loops' = 0
             /\ UNCHANGED <<Quiet, sigvars, listening, i, free_fds, events>>

Dispatched == /\ At("dispatch") /\ events = {}
              /\ ToPhase("jobs") /\ UNCHANGED <<Quiet, sigvars, listening>>

RunJob ==
    /\ At("jobs") /\ joblist # <<>>
    /\ Run(Head(joblist)) /\ joblist' = Tail(joblist)
    /\ UNCHANGED <<Stays, state, idle, fdvars, want_fds, fdwaitqueue, hosts, sigvars,
                   listening, loopvars>>

NextRound == /\ At("jobs") /\ joblist = <<>>
             /\ ToPhase("signals") /\ UNCHANGED <<Quiet, sigvars, listening>>

MainLoop ==
    \/ Stop \/ SameSecond \/ NewSecond \/ CheckTimeout \/ AllChecked \/ CheckSockets
    \/ CheckEnd \/ FdWaitPop \/ Poll \/ ListenEvent \/ Accept \/ AcceptEnd
    \/ \E c \in Conns : ClientEvent(c) \/ GatewayEvent(c)
    \/ Dispatched \/ RunJob \/ NextRound

\* the process is gone
Terminated == phase = "stopped" /\ UNCHANGED vars

Next == StateMachine \/ MainLoop \/ SigTerm \/ SigInt \/ Terminated

\* One thread that always takes its next step, on a clock that does not stop.
Fairness == WF_vars(StateMachine \/ MainLoop) /\ SF_vars(NewSecond)

Spec == Init /\ [][Next]_vars /\ Fairness

-----------------------------------------------------------------------------
(***************************************************************************)
(* Properties.                                                             *)
(***************************************************************************)

(***************************************************************************)
(* A connection is in the table of connections exactly while its machine   *)
(* is not in CONNECT, whatever stale entry of the joblist or of the        *)
(* fdwaitqueue the machine is run for, and the table stays in order.       *)
(***************************************************************************)
TableAgrees ==
    /\ TableOK
    /\ con = Nobody => \A c \in Conns : state[c] = "connect" <=> c \notin InUse

(***************************************************************************)
(* Every open descriptor has one owner who knows it and whose handler is   *)
(* registered; cur_fds counts them (the listen socket is never taken off); *)
(* and con->fde_ndx tells what the kernel waits for.  Closed connections   *)
(* keep their descriptor's number, and the machine still runs for them     *)
(* when that number belongs to another connection or to a backend.         *)
(***************************************************************************)
Listening == {f \in {Listen} : fdarray[f] = Listener}
Backends == {back[c] : c \in Conns} \ {NoFd}

DescriptorsAgree ==
    con = Nobody =>
        /\ opened \ Listening = {fd[c] : c \in InUse} \cup Backends
        /\ cur_fds = 1 + Cardinality(opened \ Listening)
        /\ \A c \in InUse : /\ fdarray[fd[c]] = Client(c)
                            /\ in_epoll[c] <=> epoll[fd[c]] # "none"
        /\ \A c \in Conns : back[c] # NoFd => fdarray[back[c]] = Gateway(c)
        /\ \A f \in Fds \ opened : epoll[f] = "none" /\ fdarray[f] = Nothing

(***************************************************************************)
(* Both together: what is kept twice about a connection is kept alike.     *)
(***************************************************************************)
RecordsAgree == TableAgrees /\ DescriptorsAgree

(***************************************************************************)
(* No connection is forgotten when a round is over: the kernel waits for   *)
(* its client or for its backend, or the fdwaitqueue has it.               *)
(***************************************************************************)
Watched ==
    At("signals") =>
        \A c \in InUse :
            /\ state[c] \in {"read", "handlereq", "write", "close"}
            /\ state[c] \in {"read", "close"} => epoll[fd[c]] = "IN"
            /\ state[c] = "write" => \/ epoll[fd[c]] = "OUT"
                                     \/ gw[c] = "answering" /\ epoll[back[c]] = "IN"
            /\ state[c] = "handlereq" =>
                  \/ gw[c] = "connecting" /\ epoll[back[c]] = "OUT"
                  \/ gw[c] \in {"waiting", "answering"} /\ epoll[back[c]] = "IN"
                  \/ gw[c] = "none" /\ \E k \in DOMAIN fdwaitqueue : fdwaitqueue[k] = c

(***************************************************************************)
(* An event goes to the one it was polled for: the handlers that run       *)
(* before it close descriptors and accept() gets their numbers, but never  *)
(* that of a descriptor whose event is still to be dispatched (else        *)
(* fdevent_get_handler() ends the server or another client gets the event).*)
(***************************************************************************)
EventsFresh == con = Nobody => \A e \in events : fdarray[e.fd] = e.owner

(***************************************************************************)
(* No client is accepted while the sockets are disabled, and none after    *)
(* the graceful shutdown has started.                                      *)
(***************************************************************************)
AcceptsOnlyEnabled == [][used' > used => ~sockets_disabled]_vars

(***************************************************************************)
(* A connection that has exceeded its time is dealt with, although the     *)
(* loop that looks for it may miss it.                                     *)
(***************************************************************************)
IdleExpires == \A c \in Conns : c \in idle ~> c \notin idle \/ phase = "stopped"

(***************************************************************************)
(* A graceful shutdown ends as long as clients come to a halt or leave.    *)
(***************************************************************************)
ClientsEnd == \A c \in Conns : []<>(c \in idle \/ c \notin InUse)
GracefulStops == ClientsEnd => (graceful_shutdown ~> phase = "stopped")
=============================================================================
