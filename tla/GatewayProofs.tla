--------------------------- MODULE GatewayProofs ---------------------------
(***************************************************************************)
(* Theorems about the gateways, for any number of requests, hosts,         *)
(* processes and failures.  Each gateway is an instance here, as it is in  *)
(* MCGateways; what a theorem assumes of its constants is the assumption   *)
(* of its module.                                                          *)
(***************************************************************************)
EXTENDS Sequences, FiniteSetTheorems, StepLemmas

CONSTANTS Requests, NHosts,                             \* of each of them
    Balance, Weight, Retry, ConnectTime, Posts,         \* mod_proxy
    Pids, MaxStarts,                                    \* mod_cgi
    Local, NProcs, MaxReconnects, MaxFaults             \* mod_fastcgi

VARIABLES backs, last_used_ndx, req, passed,            \* mod_proxy
    con, ctx, proc, cgi_pid, fds, starts,               \* mod_cgi
    hosts, last_used, hctx, faults                      \* mod_fastcgi

P == INSTANCE Proxy WITH hosts <- backs
C == INSTANCE CGI WITH hctx <- ctx
F == INSTANCE FastCGI

-----------------------------------------------------------------------------
(***************************************************************************)
(* A finite set that is not empty has a member that no other is before, if *)
(* "before" is an order: what every choice of a host or a process rests on. *)
(***************************************************************************)
LEMMA FirstExists ==
    ASSUME NEW S, IsFiniteSet(S), S # {}, NEW R,
           \A s \in S : <<s, s>> \notin R,
           \A s, t, u \in S : <<s, t>> \in R /\ <<t, u>> \in R => <<s, u>> \in R
    PROVE  \E s \in S : \A t \in S : <<t, s>> \notin R
<1> DEFINE Before(s) == {t \in S : <<t, s>> \in R}
           Counts == {Cardinality(Before(s)) : s \in S}
<1>1. \A s \in S : IsFiniteSet(Before(s)) /\ Cardinality(Before(s)) \in Nat
  BY FS_Subset, FS_CardinalityType
<1>0. \A s \in S : Cardinality(Before(s)) \in Counts OBVIOUS
<1> HIDE DEF Before
<1>2. Counts \subseteq Nat /\ Counts # {} BY <1>1
<1>3. PICK n \in Counts : \A m \in Counts : <<m, n>> \notin OpToRel(<, Nat)
  BY <1>2, NatLessThanWellFounded, WFMin
<1>4. PICK s \in S : n = Cardinality(Before(s)) BY <1>3
<1>5. ASSUME NEW t \in S, <<t, s>> \in R PROVE FALSE
  <2>1. Before(t) \subseteq Before(s) /\ t \in Before(s) /\ t \notin Before(t) BY <1>5 DEF Before
  <2>2. Cardinality(Before(t)) <= Cardinality(Before(s)) /\ Cardinality(Before(t)) # Cardinality(Before(s))
    BY <1>1, <2>1, FS_Subset
  <2>3. Cardinality(Before(t)) < Cardinality(Before(s)) BY <1>1, <2>2
  <2>4. <<Cardinality(Before(t)), n>> \in OpToRel(<, Nat) BY <1>1, <1>2, <1>4, <2>3 DEF OpToRel
  <2> QED BY <1>0, <1>3, <2>4
<1> QED BY <1>5

\* An instance has its own copy of what its module extends.
LEMMA SameCardinality ==
    /\ \A S : P!Cardinality(S) = Cardinality(S)
    /\ \A S : P!IsFiniteSet(S) = IsFiniteSet(S)
    /\ \A S : C!Cardinality(S) = Cardinality(S)
    /\ \A S : C!IsFiniteSet(S) = IsFiniteSet(S)
    /\ \A S : F!Cardinality(S) = Cardinality(S)
    /\ \A S : F!IsFiniteSet(S) = IsFiniteSet(S)
BY DEF P!Cardinality, C!Cardinality, F!Cardinality, Cardinality, P!IsFiniteSet, C!IsFiniteSet,
       F!IsFiniteSet, IsFiniteSet

-----------------------------------------------------------------------------
(***************************************************************************)
(* mod_proxy.  A request that has no host is in the hands of the joblist,  *)
(* one that has a host has a socket.                                       *)
(***************************************************************************)
ProxyHosts == [P!Hosts -> [is_disabled : BOOLEAN, age : 0..Retry, usage : Int]]
ProxyRequest ==
    [phase : {"free", "handle", "write"}, mode : {"direct", "proxy"},
     state : {"none", "INIT", "CONNECT", "WRITE", "READ", "crashed"},
     host : P!Hosts \cup {P!None},
     socket : {"none", "pending", "refused", "up", "answer", "closed", "reset"},
     age : 0..ConnectTime, body : {"none", "whole", "taken"}, status : {0, 200, 500},
     file_started : BOOLEAN, joblist : Nat, fdwait : Nat, revived : BOOLEAN]
\* a request is one still when one of its fields gets another value
LEMMA ProxyUpdates ==
    \A c \in ProxyRequest :
        /\ \A x \in {"free", "handle", "write"} : [c EXCEPT !.phase = x] \in ProxyRequest
        /\ \A x \in {"direct", "proxy"} : [c EXCEPT !.mode = x] \in ProxyRequest
        /\ \A x \in {"none", "INIT", "CONNECT", "WRITE", "READ", "crashed"} :
              [c EXCEPT !.state = x] \in ProxyRequest
        /\ \A x \in P!Hosts \cup {P!None} : [c EXCEPT !.host = x] \in ProxyRequest
        /\ \A x \in {"none", "pending", "refused", "up", "answer", "closed", "reset"} :
              [c EXCEPT !.socket = x] \in ProxyRequest
        /\ \A x \in 0..ConnectTime : [c EXCEPT !.age = x] \in ProxyRequest
        /\ \A x \in {"none", "whole", "taken"} : [c EXCEPT !.body = x] \in ProxyRequest
        /\ \A x \in {0, 200, 500} : [c EXCEPT !.status = x] \in ProxyRequest
        /\ \A x \in BOOLEAN : [c EXCEPT !.file_started = x] \in ProxyRequest
        /\ \A x \in Nat : [c EXCEPT !.joblist = x] \in ProxyRequest
        /\ \A x \in Nat : [c EXCEPT !.fdwait = x] \in ProxyRequest
        /\ \A x \in BOOLEAN : [c EXCEPT !.revived = x] \in ProxyRequest
<1> TAKE c \in ProxyRequest
<1>1. \A x \in {"free", "handle", "write"} :
          [c EXCEPT !.phase = x] \in ProxyRequest
  BY DEF ProxyRequest
<1>2. \A x \in {"direct", "proxy"} :
          [c EXCEPT !.mode = x] \in ProxyRequest
  BY DEF ProxyRequest
<1>3. \A x \in {"none", "INIT", "CONNECT", "WRITE", "READ", "crashed"} :
          [c EXCEPT !.state = x] \in ProxyRequest
  BY DEF ProxyRequest
<1>4. \A x \in P!Hosts \cup {P!None} :
          [c EXCEPT !.host = x] \in ProxyRequest
  BY DEF ProxyRequest
<1>5. \A x \in {"none", "pending", "refused", "up", "answer", "closed", "reset"} :
          [c EXCEPT !.socket = x] \in ProxyRequest
  BY DEF ProxyRequest
<1>6. \A x \in 0..ConnectTime : [c EXCEPT !.age = x] \in ProxyRequest BY DEF ProxyRequest
<1>7. \A x \in {"none", "whole", "taken"} :
          [c EXCEPT !.body = x] \in ProxyRequest
  BY DEF ProxyRequest
<1>8. \A x \in {0, 200, 500} : [c EXCEPT !.status = x] \in ProxyRequest BY DEF ProxyRequest
<1>9. \A x \in BOOLEAN : [c EXCEPT !.file_started = x] \in ProxyRequest BY DEF ProxyRequest
<1>10. \A x \in Nat : [c EXCEPT !.joblist = x] \in ProxyRequest BY DEF ProxyRequest
<1>11. \A x \in Nat : [c EXCEPT !.fdwait = x] \in ProxyRequest BY DEF ProxyRequest
<1>12. \A x \in BOOLEAN : [c EXCEPT !.revived = x] \in ProxyRequest BY DEF ProxyRequest
<1> QED BY <1>1, <1>2, <1>3, <1>4, <1>5, <1>6, <1>7, <1>8, <1>9, <1>10, <1>11, <1>12

\* what the queues leave as it was
SameRequest(d, c) ==
    /\ d.host = c.host /\ d.state = c.state /\ d.mode = c.mode /\ d.phase = c.phase
    /\ d.socket = c.socket /\ d.status = c.status
\* put into the queues
LEMMA ProxyJoins ==
    ASSUME NEW c \in ProxyRequest
    PROVE  /\ P!Queued(c) \in ProxyRequest /\ P!Queued(c).joblist > 0
           /\ SameRequest(P!Queued(c), c)
           /\ \A caller : P!Waiting(c, caller) \in ProxyRequest
                          /\ P!Waiting(c, caller).joblist = c.joblist
                          /\ SameRequest(P!Waiting(c, caller), c)
<1>1. c.joblist \in Nat /\ c.fdwait \in Nat BY DEF ProxyRequest
<1>2. P!Queued(c) = [c EXCEPT !.joblist = c.joblist + 1] BY DEF P!Queued
<1>3. [c EXCEPT !.joblist = c.joblist + 1] \in ProxyRequest BY <1>1 DEF ProxyRequest
<1>4. P!Queued(c).joblist > 0 /\ SameRequest(P!Queued(c), c)
  BY <1>1, <1>2 DEF ProxyRequest, SameRequest
<1>5. ASSUME NEW caller
      PROVE  P!Waiting(c, caller) \in ProxyRequest /\ P!Waiting(c, caller).joblist = c.joblist
             /\ SameRequest(P!Waiting(c, caller), c)
  <2>1. PICK n \in Nat : P!Waiting(c, caller) = [c EXCEPT !.fdwait = n]
    <3>1. P!Waiting(c, caller) = [c EXCEPT !.fdwait = IF caller = "event" THEN c.fdwait ELSE c.fdwait + 1]
      BY DEF P!Waiting
    <3> QED BY <1>1, <3>1
  <2> QED BY <2>1 DEF ProxyRequest, SameRequest
<1> QED BY <1>2, <1>3, <1>4, <1>5

\* a queue gives its entry up
LEMMA ProxyLeaves ==
    ASSUME NEW c \in ProxyRequest
    PROVE  /\ c.joblist > 0 =>
                /\ [c EXCEPT !.joblist = @ - 1] \in ProxyRequest
                /\ SameRequest([c EXCEPT !.joblist = @ - 1], c)
           /\ c.fdwait > 0 =>
                /\ [c EXCEPT !.fdwait = @ - 1] \in ProxyRequest
                /\ SameRequest([c EXCEPT !.fdwait = @ - 1], c)
<1>1. c.joblist \in Nat /\ c.fdwait \in Nat BY DEF ProxyRequest
<1>2. CASE c.joblist > 0 BY <1>1, <1>2 DEF ProxyRequest, SameRequest
<1>3. CASE c.fdwait > 0 BY <1>1, <1>3 DEF ProxyRequest, SameRequest
<1> QED BY <1>2, <1>3

ProxyAtRest == {c \in ProxyRequest :
    /\ c.state # "INIT" /\ (c.state = "none" <=> c.host = P!None)
    /\ c.mode = "direct" => c.state = "none"
    /\ c.state # "none" => c.socket # "none"
    /\ c.phase = "handle" /\ c.state = "none" => c.joblist > 0
    /\ c.phase = "write" => c.state \in {"none", "READ"}
    /\ c.phase = "free" => c.state = "none"}

ProxyInv ==
    /\ backs \in ProxyHosts /\ req \in [Requests -> ProxyAtRest]
    /\ P!UsageAgrees

\* what a step makes of a request that was c while the hosts were hs
ProxyMoves(r, hs, c) ==
    /\ backs' \in ProxyHosts
    /\ \E d \in ProxyAtRest :
          /\ req' = [req EXCEPT ![r] = d]
          /\ \A h \in P!Hosts : backs'[h].usage =
                (IF c.host = h THEN hs[h].usage - 1 ELSE hs[h].usage) + (IF d.host = h THEN 1 ELSE 0)

\* A host is counted once more, or once less, when a request takes it or leaves it.
LEMMA ProxyCounts ==
    ASSUME P!ProxyAssumption, ProxyInv, NEW r \in Requests, ProxyMoves(r, backs, req[r])
    PROVE  ProxyInv'
<1>1. PICK d \in ProxyAtRest :
          /\ req' = [req EXCEPT ![r] = d]
          /\ \A h \in P!Hosts : backs'[h].usage =
                (IF req[r].host = h THEN backs[h].usage - 1 ELSE backs[h].usage)
                + (IF d.host = h THEN 1 ELSE 0)
  BY DEF ProxyMoves
<1>2. req' \in [Requests -> ProxyAtRest] /\ backs' \in ProxyHosts
  BY <1>1 DEF ProxyInv, ProxyMoves
<1>3. ASSUME NEW h \in P!Hosts
      PROVE  backs'[h].usage = Cardinality({q \in Requests : req'[q].host = h})
  <2> DEFINE S == {q \in Requests : req[q].host = h}
             T == {q \in Requests : req'[q].host = h}
  <2>1. backs[h].usage = Cardinality(S) /\ IsFiniteSet(S) /\ Cardinality(S) \in Nat
    <3>1. backs[h].usage = Cardinality(S) BY SameCardinality DEF ProxyInv, P!UsageAgrees
    <3>2. IsFiniteSet(Requests) BY SameCardinality DEF P!ProxyAssumption
    <3> QED BY <3>1, <3>2, FS_Subset, FS_CardinalityType
  <2>2. T = IF d.host = h THEN S \cup {r} ELSE S \ {r} BY <1>1 DEF ProxyInv
  <2>3. r \in S <=> req[r].host = h OBVIOUS
  <2>4. backs'[h].usage = (IF req[r].host = h THEN backs[h].usage - 1 ELSE backs[h].usage)
                          + (IF d.host = h THEN 1 ELSE 0)
    BY <1>1
  <2> HIDE DEF S, T
  <2>5. CASE d.host = h
    <3>1. Cardinality(T) = IF r \in S THEN Cardinality(S) ELSE Cardinality(S) + 1
      BY <2>1, <2>2, <2>5, FS_AddElement
    <3> QED BY <2>1, <2>3, <2>4, <2>5, <3>1 DEF T
  <2>6. CASE d.host # h
    <3>1. Cardinality(T) = IF r \in S THEN Cardinality(S) - 1 ELSE Cardinality(S)
      BY <2>1, <2>2, <2>6, FS_RemoveElement
    <3> QED BY <2>1, <2>3, <2>4, <2>6, <3>1 DEF T
  <2> QED BY <2>5, <2>6
<1> QED BY <1>2, <1>3, SameCardinality DEF ProxyInv, P!UsageAgrees

\* Writing to a host, or trying to: the request keeps it, or starts over without one.
LEMMA ProxyWrites ==
    ASSUME P!ProxyAssumption, NEW r \in Requests, NEW hs \in ProxyHosts, NEW c \in ProxyRequest,
           c.host \in P!Hosts, c.mode = "proxy", c.phase = "handle",
           c.state \in {"CONNECT", "WRITE", "READ"} => c.socket # "none", NEW caller,
           P!proxy_write_request(r, hs, c, caller)
    PROVE  ProxyMoves(r, hs, c)
<1>1. c.host # P!None /\ NHosts \in Nat /\ 0 \in 0..Retry /\ 0 \in 0..ConnectTime
  BY DEF P!Hosts, P!None, P!ProxyAssumption
<1>2. ASSUME NEW d \in ProxyAtRest, d.host = c.host, P!Set(r, hs, d) PROVE ProxyMoves(r, hs, c)
  <2>1. \A h \in P!Hosts : hs[h].usage \in Int BY DEF ProxyHosts
  <2>2. \A h \in P!Hosts : hs[h].usage =
            (IF c.host = h THEN hs[h].usage - 1 ELSE hs[h].usage) + (IF d.host = h THEN 1 ELSE 0)
    BY <1>2, <2>1
  <2>3. backs' = hs /\ req' = [req EXCEPT ![r] = d] BY <1>2 DEF P!Set
  <2> QED BY <2>2, <2>3 DEF ProxyMoves
<1>3. ASSUME NEW d \in ProxyRequest, d.host = c.host, P!HostFailed(r, hs, d, caller)
      PROVE  ProxyMoves(r, hs, c)
  <2> DEFINE e == P!Restarted(d, caller)
  <2>1. e \in ProxyAtRest /\ e.host = P!None
    <3> DEFINE e1 == [d EXCEPT !.state = "none"]
               e2 == [e1 EXCEPT !.host = P!None]
               e3 == [e2 EXCEPT !.socket = "none"]
               e4 == [e3 EXCEPT !.age = 0]
               e5 == [e4 EXCEPT !.mode = "direct"]
    <3>1. e = P!Waiting(P!Queued(e5), caller) BY DEF P!Restarted, P!Detached
    <3>2. e1 \in ProxyRequest /\ e1.state = "none" BY DEF ProxyRequest
    <3> HIDE DEF e, e1
    <3>3. e2 \in ProxyRequest /\ e2.state = "none" /\ e2.host = P!None BY <3>2 DEF ProxyRequest
    <3> HIDE DEF e2
    <3>4. e3 \in ProxyRequest /\ e3.state = "none" /\ e3.host = P!None BY <3>3 DEF ProxyRequest
    <3> HIDE DEF e3
    <3>5. e4 \in ProxyRequest /\ e4.state = "none" /\ e4.host = P!None
      BY <1>1, <3>4 DEF ProxyRequest
    <3> HIDE DEF e4
    <3>6. e5 \in ProxyRequest /\ e5.state = "none" /\ e5.host = P!None BY <3>5 DEF ProxyRequest
    <3> HIDE DEF e5
    <3>7. P!Queued(e5) \in ProxyRequest /\ P!Queued(e5).joblist > 0 /\ SameRequest(P!Queued(e5), e5)
      BY <3>6, ProxyJoins
    <3>8. e \in ProxyRequest /\ e.joblist > 0 /\ e.state = "none" /\ e.host = P!None
      BY <3>1, <3>6, <3>7, ProxyJoins DEF SameRequest
    <3> QED BY <3>8 DEF ProxyAtRest
  <2> HIDE DEF e
  <2>2. backs' = [hs EXCEPT ![c.host] =
                    [is_disabled |-> TRUE, age |-> 0, usage |-> hs[c.host].usage - 1]]
    BY <1>1, <1>3 DEF P!HostFailed, P!Released, P!Disabled, ProxyHosts
  <2>3. backs' \in ProxyHosts BY <1>1, <2>2 DEF ProxyHosts
  <2>4. req' = [req EXCEPT ![r] = e] BY <1>3 DEF P!HostFailed, e
  <2>5. \A h \in P!Hosts : backs'[h].usage =
            (IF c.host = h THEN hs[h].usage - 1 ELSE hs[h].usage)
            + (IF e.host = h THEN 1 ELSE 0)
    <3>1. \A h \in P!Hosts : e.host # h /\ hs[h].usage \in Int
      BY <2>1 DEF P!Hosts, P!None, P!ProxyAssumption, ProxyHosts
    <3> QED BY <2>2, <3>1 DEF ProxyHosts
  <2> QED BY <2>1, <2>3, <2>4, <2>5 DEF ProxyMoves
<1>4. ASSUME NEW d \in ProxyRequest, d.host = c.host, d.mode = "proxy", d.socket # "none",
             d.phase = "handle", d.state = "WRITE", P!Write(r, hs, d, caller)
      PROVE  ProxyMoves(r, hs, c)
  <2>1. CASE P!Set(r, hs, [d EXCEPT !.state = "READ"])
    BY <1>1, <1>2, <1>4, <2>1 DEF ProxyAtRest, ProxyRequest
  <2>2. CASE P!Set(r, hs, d) BY <1>1, <1>2, <1>4, <2>2 DEF ProxyAtRest
  <2>3. CASE P!HostFailed(r, hs, d, caller) BY <1>3, <1>4, <2>3
  <2> QED BY <1>4, <2>1, <2>2, <2>3 DEF P!Write
<1>5. ASSUME NEW d \in ProxyRequest, d.host = c.host, d.mode = "proxy", d.socket # "none",
             d.phase = "handle", P!PrepareWrite(r, hs, d, caller)
      PROVE  ProxyMoves(r, hs, c)
  <2>1. CASE d.body = "taken"
    <3>1. P!Set(r, hs, [d EXCEPT !.state = "crashed"])
      BY <1>5, <2>1 DEF P!PrepareWrite, P!Environment, ProxyRequest
    <3> QED BY <1>1, <1>2, <1>5, <3>1 DEF ProxyAtRest, ProxyRequest
  <2>2. CASE d.body = "none"
    <3>1. P!Write(r, hs, [d EXCEPT !.state = "WRITE"], caller)
      BY <1>5, <2>2 DEF P!PrepareWrite, P!Environment, ProxyRequest
    <3> QED BY <1>4, <1>5, <3>1 DEF ProxyRequest
  <2>3. CASE d.body = "whole"
    <3> DEFINE e == [d EXCEPT !.state = "WRITE", !.body = "taken"]
    <3>1. P!Write(r, hs, e, caller)
      BY ZenonT(60), <1>5, <2>3 DEF P!PrepareWrite, P!Environment, ProxyRequest
    <3>2. e \in ProxyRequest BY ZenonT(60), ProxyUpdates
    <3>3. /\ e.host = d.host /\ e.mode = "proxy" /\ e.socket # "none"
          /\ e.phase = "handle" /\ e.state = "WRITE"
      BY <1>5 DEF ProxyRequest
    <3> HIDE DEF e
    <3> QED BY <1>4, <1>5, <3>1, <3>2, <3>3
  <2> QED BY <2>1, <2>2, <2>3 DEF ProxyRequest
<1>6. CASE c.state = "INIT"
  <2>1. CASE P!Set(r, hs, [c EXCEPT !.state = "CONNECT", !.socket = "pending"])
    <3> DEFINE e == [c EXCEPT !.state = "CONNECT", !.socket = "pending"]
    <3>1. e \in ProxyRequest BY ZenonT(60), ProxyUpdates
    <3>2. /\ e.host = c.host /\ e.mode = "proxy" /\ e.state = "CONNECT" /\ e.socket = "pending"
          /\ e.phase = "handle"
      BY DEF ProxyRequest
    <3>3. e \in ProxyAtRest BY <1>1, <3>1, <3>2 DEF ProxyAtRest
    <3> QED BY <1>2, <2>1, <3>2, <3>3
  <2>2. CASE P!HostFailed(r, hs, c, caller) BY <1>3, <2>2
  <2>3. CASE P!PrepareWrite(r, hs, [c EXCEPT !.socket = "up"], caller)
    BY <1>5, <1>6, <2>3 DEF ProxyRequest
  <2> QED BY <1>6, <2>1, <2>2, <2>3 DEF P!proxy_write_request
<1>7. CASE c.state = "CONNECT"
  BY <1>3, <1>5, <1>7 DEF P!proxy_write_request
<1>8. CASE c.state = "WRITE"
  BY <1>4, <1>8 DEF P!proxy_write_request
<1>9. CASE c.state = "READ"
  <2>1. CASE P!Set(r, hs, [c EXCEPT !.phase = "write"])
    BY <1>1, <1>2, <1>9, <2>1 DEF ProxyAtRest, ProxyRequest
  <2>2. CASE P!Set(r, hs, c) BY <1>1, <1>2, <1>9, <2>2 DEF ProxyAtRest
  <2> QED BY <1>9, <2>1, <2>2 DEF P!proxy_write_request
<1> QED BY <1>6, <1>7, <1>8, <1>9 DEF P!proxy_write_request

\* The first of some hosts is one of them.
LEMMA ProxyFirst ==
    ASSUME P!ProxyAssumption, NEW S \in SUBSET P!Hosts, S # {}
    PROVE  P!First(S) \in S /\ \A g \in S : P!First(S) <= g
<1>1. NHosts \in Nat /\ S \subseteq Int BY DEF P!ProxyAssumption, P!Hosts
<1>2. IsFiniteSet(S)
  <2>1. IsFiniteSet(P!Hosts) BY <1>1, FS_Interval DEF P!Hosts
  <2> QED BY <2>1, FS_Subset
<1> DEFINE R == {p \in S \X S : p[1] < p[2]}
<1>3. \A s, t \in S : <<s, t>> \in R <=> s < t OBVIOUS
<1> HIDE DEF R
<1>4. /\ \A s \in S : <<s, s>> \notin R
      /\ \A s, t, u \in S : <<s, t>> \in R /\ <<t, u>> \in R => <<s, u>> \in R
  BY <1>1, <1>3
<1>5. PICK s \in S : \A t \in S : <<t, s>> \notin R BY <1>2, <1>4, FirstExists
<1>6. ASSUME NEW t \in S PROVE s <= t
  <2>1. ~(t < s) BY <1>3, <1>5
  <2> QED BY <1>1, <2>1
<1> QED BY <1>6 DEF P!First

\* However it balances, it chooses an enabled host as long as there is one.
LEMMA ProxyChoice ==
    ASSUME P!ProxyAssumption, backs \in ProxyHosts, NEW r \in Requests
    PROVE  /\ P!Up = {} => P!Chosen(r) = P!None
           /\ P!Up # {} => P!Chosen(r) \in P!Up
           /\ P!Up # {} /\ NHosts > 1 /\ Balance = "rr" => P!Chosen(r) = P!RoundRobin(P!Up)
<1>1. P!Up \subseteq P!Hosts BY DEF P!Up
<1>2. NHosts \in Nat \ {0} /\ P!Hosts \subseteq Int BY DEF P!ProxyAssumption, P!Hosts
<1>3. IsFiniteSet(P!Up)
  <2>1. IsFiniteSet(P!Hosts) BY <1>2, FS_Interval DEF P!Hosts
  <2> QED BY <1>1, <2>1, FS_Subset
<1>4. ASSUME P!Up # {}, NEW W, \A h \in P!Hosts : W[h] \in Int
      PROVE  {h \in P!Up : \A g \in P!Up : W[h] <= W[g]} # {}
  <2> DEFINE R == {p \in P!Up \X P!Up : W[p[1]] < W[p[2]]}
  <2>1. \A s, t \in P!Up : <<s, t>> \in R <=> W[s] < W[t] OBVIOUS
  <2> HIDE DEF R
  <2>2. /\ \A s \in P!Up : <<s, s>> \notin R
        /\ \A s, t, u \in P!Up : <<s, t>> \in R /\ <<t, u>> \in R => <<s, u>> \in R
    BY <1>1, <1>4, <2>1
  <2>3. PICK s \in P!Up : \A t \in P!Up : <<t, s>> \notin R BY <1>3, <1>4, <2>2, FirstExists
  <2>4. ASSUME NEW t \in P!Up PROVE W[s] <= W[t]
    <3>1. ~(W[t] < W[s]) BY <2>1, <2>3
    <3>2. W[s] \in Int /\ W[t] \in Int BY <1>1, <1>4
    <3> QED BY <3>1, <3>2
  <2> QED BY <2>4
<1>5. CASE P!Up = {} BY <1>5 DEF P!Chosen
<1>6. CASE P!Up # {} /\ NHosts = 1
  <2>1. P!Hosts = {0} BY <1>6 DEF P!Hosts
  <2> QED BY <1>1, <1>6, <2>1 DEF P!Chosen
<1>7. CASE P!Up # {} /\ NHosts > 1 /\ Balance = "fair"
  <2> DEFINE S == {h \in P!Up : \A g \in P!Up : backs[h].usage <= backs[g].usage}
             W == [h \in P!Hosts |-> backs[h].usage]
  <2>1. \A h \in P!Hosts : W[h] \in Int BY DEF ProxyHosts
  <2>2. {h \in P!Up : \A g \in P!Up : W[h] <= W[g]} # {} BY <1>4, <1>7, <2>1
  <2>3. S # {} /\ S \subseteq P!Up /\ S \in SUBSET P!Hosts BY <1>1, <2>2
  <2> HIDE DEF S
  <2>4. P!First(S) \in P!Up BY <2>3, ProxyFirst
  <2> QED BY <1>7, <2>4 DEF P!Chosen, P!Fair, S
<1>8. CASE P!Up # {} /\ NHosts > 1 /\ Balance = "hash"
  <2> DEFINE S == {h \in P!Up : \A g \in P!Up : Weight[r][h] >= Weight[r][g]}
             W == [h \in P!Hosts |-> 0 - Weight[r][h]]
  <2>1. \A h \in P!Hosts : Weight[r][h] \in Nat BY <1>8 DEF P!ProxyAssumption
  <2>5. \A h \in P!Hosts : W[h] \in Int BY <2>1
  <2>2. {h \in P!Up : \A g \in P!Up : W[h] <= W[g]} # {} BY <1>4, <1>8, <2>5
  <2>6. PICK h \in P!Up : \A g \in P!Up : W[h] <= W[g] BY <2>2
  <2>7. ASSUME NEW g \in P!Up PROVE Weight[r][h] >= Weight[r][g]
    <3>1. W[h] <= W[g] BY <2>6
    <3>2. W[h] = 0 - Weight[r][h] /\ W[g] = 0 - Weight[r][g] BY <1>1
    <3> QED BY <1>1, <2>1, <3>1, <3>2
  <2>3. S # {} /\ S \subseteq P!Up /\ S \in SUBSET P!Hosts BY <1>1, <2>7
  <2> HIDE DEF S
  <2>4. P!First(S) \in P!Up BY <2>3, ProxyFirst
  <2> QED BY <1>8, <2>4 DEF P!Chosen, P!Hash, S
<1>9. CASE P!Up # {} /\ NHosts > 1 /\ Balance = "rr"
  <2> DEFINE later == {h \in P!Up : h > last_used_ndx}
  <2>1. later # {} => P!First(later) \in later BY <1>1, ProxyFirst
  <2>2. P!First(P!Up) \in P!Up BY <1>1, <1>9, ProxyFirst
  <2>3. P!RoundRobin(P!Up) \in P!Up BY <2>1, <2>2 DEF P!RoundRobin
  <2> QED BY <1>9, <2>3 DEF P!Chosen
<1> QED BY <1>2, <1>5, <1>6, <1>7, <1>8, <1>9 DEF P!ProxyAssumption

\* A step of the request alone, whatever host it has.
LEMMA ProxyStays ==
    ASSUME P!ProxyAssumption, ProxyInv, NEW r \in Requests, NEW d \in ProxyAtRest,
           d.host = req[r].host, backs' = backs, req' = [req EXCEPT ![r] = d]
    PROVE  ProxyMoves(r, backs, req[r])
<1>1. backs \in ProxyHosts BY DEF ProxyInv
<1>2. \A g \in P!Hosts : backs[g].usage \in Int BY <1>1 DEF ProxyHosts
<1>3. \A g \in P!Hosts : backs'[g].usage =
          (IF req[r].host = g THEN backs[g].usage - 1 ELSE backs[g].usage)
          + (IF d.host = g THEN 1 ELSE 0)
  BY <1>2
<1> QED BY <1>1, <1>3 DEF ProxyMoves

\* A queue runs a request; one that has no host is given one.
LEMMA ProxyTakes ==
    ASSUME P!ProxyAssumption, ProxyInv, NEW r \in Requests, req[r].host = P!None,
           NEW c \in ProxyRequest, SameRequest(c, req[r]), c.state = "none", c.mode = "direct",
           c.phase = "handle", NEW caller, P!mod_proxy_check_extension(r, c, caller)
    PROVE  ProxyMoves(r, backs, req[r])
<1> DEFINE h == P!Chosen(r)
<1>1. req[r] \in ProxyAtRest /\ req[r] \in ProxyRequest /\ backs \in ProxyHosts
  BY DEF ProxyInv, ProxyAtRest
<1>2. /\ c \in ProxyRequest /\ c.host = P!None /\ req[r].host = P!None /\ c.state = "none"
      /\ c.mode = "direct" /\ c.phase = "handle"
  BY DEF SameRequest
<1>7. P!mod_proxy_check_extension(r, c, caller) OBVIOUS
<1>3. CASE h = P!None
  <2> DEFINE d == P!Respond(c, 500)
  <2>1. d \in ProxyRequest
    <3> DEFINE e == [c EXCEPT !.phase = "write"]
    <3>1. e \in ProxyRequest BY <1>2 DEF ProxyRequest
    <3>2. d = [e EXCEPT !.status = 500] BY DEF P!Respond
    <3> HIDE DEF d, e
    <3> QED BY <3>1, <3>2 DEF ProxyRequest
  <2>2. d.phase = "write" /\ d.host = P!None /\ d.state = "none" /\ d.mode = "direct"
    BY <1>1, <1>2 DEF P!Respond, ProxyRequest
  <2>3. d \in ProxyAtRest BY <2>1, <2>2 DEF ProxyAtRest
  <2>4. P!Set(r, backs, d) BY <1>3, <1>7 DEF P!mod_proxy_check_extension
  <2> HIDE DEF d
  <2>6. backs' = backs /\ req' = [req EXCEPT ![r] = d] BY <2>4 DEF P!Set
  <2> QED BY <1>2, <2>2, <2>3, <2>6, ProxyStays
<1>4. CASE h # P!None
  <2> DEFINE d == [c EXCEPT !.mode = "proxy", !.host = h, !.state = "INIT"]
             hs == [backs EXCEPT ![h].usage = @ + 1]
  <2>1. h \in P!Hosts
    <3>1. h \in P!Up BY <1>1, <1>4, ProxyChoice
    <3> QED BY <3>1 DEF P!Up
  <2>2. d \in ProxyRequest
    <3> DEFINE d1 == [c EXCEPT !.mode = "proxy"]
               d2 == [d1 EXCEPT !.host = h]
    <3>1. d = [d2 EXCEPT !.state = "INIT"] OBVIOUS
    <3>2. d1 \in ProxyRequest BY <1>2 DEF ProxyRequest
    <3> HIDE DEF d, d1, h
    <3>3. d2 \in ProxyRequest BY <2>1, <3>2 DEF ProxyRequest
    <3> HIDE DEF d2
    <3> QED BY <3>1, <3>3 DEF ProxyRequest
  <2>3. d.host = h /\ d.mode = "proxy" /\ d.phase = "handle" /\ d.state = "INIT"
    BY <1>1, <1>2, <2>1 DEF ProxyRequest
  <2>4. hs \in ProxyHosts BY <1>1, <2>1 DEF ProxyHosts
  <2>5. P!proxy_write_request(r, hs, d, caller) BY <1>4, <1>7 DEF P!mod_proxy_check_extension
  <2>6. \A g \in P!Hosts : hs[g].usage = IF g = h THEN backs[g].usage + 1 ELSE backs[g].usage
    BY <1>1, <2>1 DEF ProxyHosts
  <2>7. \A g \in P!Hosts : g # P!None /\ backs[g].usage \in Int
    BY <1>1 DEF P!Hosts, P!None, P!ProxyAssumption, ProxyHosts
  <2> HIDE DEF d, hs, h
  <2>8. ProxyMoves(r, hs, d) BY <2>1, <2>2, <2>3, <2>4, <2>5, ProxyWrites
  <2>9. \A g \in P!Hosts : (IF d.host = g THEN hs[g].usage - 1 ELSE hs[g].usage)
                           = (IF req[r].host = g THEN backs[g].usage - 1 ELSE backs[g].usage)
    BY <1>2, <2>3, <2>6, <2>7
  <2>10. PICK e \in ProxyAtRest :
             /\ req' = [req EXCEPT ![r] = e]
             /\ \A g \in P!Hosts : backs'[g].usage =
                   (IF d.host = g THEN hs[g].usage - 1 ELSE hs[g].usage)
                   + (IF e.host = g THEN 1 ELSE 0)
    BY <2>8 DEF ProxyMoves
  <2>11. \A g \in P!Hosts : backs'[g].usage =
             (IF req[r].host = g THEN backs[g].usage - 1 ELSE backs[g].usage)
             + (IF e.host = g THEN 1 ELSE 0)
    BY <2>9, <2>10
  <2> QED BY <2>8, <2>10, <2>11 DEF ProxyMoves
<1> QED BY <1>3, <1>4

LEMMA ProxySameHost ==
    ASSUME NEW r, NEW hs, NEW c, NEW d, c.host = d.host, ProxyMoves(r, hs, c)
    PROVE  ProxyMoves(r, hs, d)
BY DEF ProxyMoves

LEMMA ProxyHandles ==
    ASSUME P!ProxyAssumption, ProxyInv, NEW r \in Requests, NEW c \in ProxyRequest,
           SameRequest(c, req[r]), req[r].phase = "handle", NEW caller, P!Handle(r, c, caller)
    PROVE  ProxyMoves(r, backs, req[r])
<1>1. req[r] \in ProxyAtRest /\ req[r] \in ProxyRequest /\ backs \in ProxyHosts
  BY DEF ProxyInv, ProxyAtRest
<1>2. /\ c \in ProxyRequest /\ c.host = req[r].host /\ c.state = req[r].state
      /\ c.mode = req[r].mode /\ c.phase = "handle" /\ c.socket = req[r].socket
      /\ req[r].phase = "handle" /\ c.status = req[r].status
  BY DEF SameRequest
<1>8. \/ c.mode = "direct" /\ c.status # 0 /\ P!Set(r, backs, P!Respond(c, c.status))
      \/ c.mode = "direct" /\ P!mod_proxy_check_extension(r, c, caller)
      \/ c.state = "none" /\ P!Set(r, backs, P!Respond(c, 200))
      \/ c.mode = "proxy" /\ c.state # "none" /\ P!proxy_write_request(r, backs, c, caller)
  BY DEF P!Handle
<1>3. ASSUME c.state = "none", NEW x \in {0, 200, 500}, P!Set(r, backs, P!Respond(c, x))
      PROVE  ProxyMoves(r, backs, req[r])
  <2> DEFINE d == P!Respond(c, x)
             e == [c EXCEPT !.phase = "write"]
  <2>4. e \in ProxyRequest BY ZenonT(60), <1>2, ProxyUpdates
  <2>1. d \in ProxyRequest
    <3>1. d = [e EXCEPT !.status = x] BY DEF P!Respond
    <3> HIDE DEF d, e
    <3>2. \A y \in {0, 200, 500} : [e EXCEPT !.status = y] \in ProxyRequest BY ZenonT(60), <2>4, ProxyUpdates
    <3> QED BY <1>3, <3>1, <3>2
  <2>5. d.phase = "write" /\ d.host = c.host /\ d.state = c.state
    BY <1>2 DEF P!Respond, ProxyRequest
  <2> HIDE DEF d, e
  <2>2. d.phase = "write" /\ d.host = req[r].host /\ d.state = "none" /\ d.host = P!None
    <3>1. req[r].state = "none" BY <1>2, <1>3
    <3>2. req[r].host = P!None BY <1>1, <3>1 DEF ProxyAtRest
    <3> QED BY <1>2, <2>5, <3>1, <3>2
  <2>3. d \in ProxyAtRest BY <2>1, <2>2 DEF ProxyAtRest
  <2>6. backs' = backs /\ req' = [req EXCEPT ![r] = d] BY <1>3 DEF P!Set, d
  <2> QED BY ZenonT(60), <2>2, <2>3, <2>6, ProxyStays
<1>4. CASE c.mode = "direct" /\ c.status # 0 /\ P!Set(r, backs, P!Respond(c, c.status))
  <2>1. c.state = "none" BY <1>1, <1>2, <1>4 DEF ProxyAtRest
  <2>2. c.status \in {0, 200, 500} BY <1>2 DEF ProxyRequest
  <2> QED BY <1>3, <1>4, <2>1, <2>2
<1>5. CASE c.mode = "direct" /\ P!mod_proxy_check_extension(r, c, caller)
  <2>1. c.state = "none" /\ req[r].host = P!None BY <1>1, <1>2, <1>5 DEF ProxyAtRest
  <2> QED BY <1>2, <1>5, <2>1, ProxyTakes
<1>6. CASE c.state = "none" /\ P!Set(r, backs, P!Respond(c, 200))
  BY <1>3, <1>6
<1>7. CASE c.mode = "proxy" /\ c.state # "none" /\ P!proxy_write_request(r, backs, c, caller)
  <2>1. c.host \in P!Hosts /\ c.socket # "none" BY <1>1, <1>2, <1>7 DEF ProxyAtRest, ProxyRequest
  <2>2. ProxyMoves(r, backs, c) BY <1>1, <1>2, <1>7, <2>1, ProxyWrites
  <2> QED BY ONLY <1>2, <2>2, ProxySameHost
<1> QED BY <1>4, <1>5, <1>6, <1>7, <1>8

LEMMA ProxyRuns ==
    ASSUME P!ProxyAssumption, ProxyInv, NEW r \in Requests, P!Run(r)
    PROVE  ProxyMoves(r, backs, req[r])
<1>1. req[r] \in ProxyAtRest /\ req[r] \in ProxyRequest BY DEF ProxyInv, ProxyAtRest
<1>2. PICK c, caller : c \in ProxyRequest /\ SameRequest(c, req[r]) /\ P!Entered(r, c, caller)
  <2>1. CASE req[r].joblist > 0 /\ P!Entered(r, [req[r] EXCEPT !.joblist = @ - 1], "joblist")
    BY <1>1, <2>1, ProxyLeaves
  <2>2. CASE req[r].fdwait > 0 /\ P!Entered(r, [req[r] EXCEPT !.fdwait = @ - 1], "fdwait")
    BY <1>1, <2>2, ProxyLeaves
  <2> QED BY <2>1, <2>2 DEF P!Run
<1>3. CASE req[r].phase = "handle" BY <1>2, <1>3, ProxyHandles DEF P!Entered
<1>4. CASE req[r].phase # "handle"
  <2>1. backs' = backs /\ req' = [req EXCEPT ![r] = c] BY <1>2, <1>4 DEF P!Entered, P!Set
  <2>2. c \in ProxyAtRest /\ c.host = req[r].host
    BY <1>1, <1>2, <1>4 DEF ProxyAtRest, SameRequest
  <2> QED BY <2>1, <2>2, ProxyStays
<1> QED BY <1>3, <1>4

\* A request gives back its host, whether its answer ends, the backend goes, or the client.
LEMMA ProxyReleases ==
    ASSUME P!ProxyAssumption, ProxyInv, NEW r \in Requests, NEW d \in ProxyAtRest,
           d.host = P!None, P!Set(r, P!Released(backs, req[r]), d)
    PROVE  ProxyMoves(r, backs, req[r])
<1>1. req[r] \in ProxyRequest /\ backs \in ProxyHosts
  BY DEF ProxyInv, ProxyAtRest
<1>2. \A g \in P!Hosts : g # P!None /\ backs[g].usage \in Int
  BY <1>1 DEF P!Hosts, P!None, P!ProxyAssumption, ProxyHosts
<1>3. backs' = P!Released(backs, req[r]) /\ req' = [req EXCEPT ![r] = d] BY DEF P!Set
<1>4. CASE req[r].host = P!None
  <2>1. backs' = backs BY <1>3, <1>4 DEF P!Released
  <2> QED BY <1>3, <1>4, <2>1, ProxyStays
<1>5. CASE req[r].host # P!None
  <2>1. req[r].host \in P!Hosts BY <1>1, <1>5 DEF ProxyRequest
  <2>2. backs' = [backs EXCEPT ![req[r].host].usage = @ - 1] BY <1>3, <1>5 DEF P!Released
  <2>3. backs' \in ProxyHosts BY <1>1, <2>1, <2>2 DEF ProxyHosts
  <2>4. \A g \in P!Hosts : backs'[g].usage =
            IF req[r].host = g THEN backs[g].usage - 1 ELSE backs[g].usage
    BY <1>1, <2>1, <2>2 DEF ProxyHosts
  <2>5. \A g \in P!Hosts : backs'[g].usage =
            (IF req[r].host = g THEN backs[g].usage - 1 ELSE backs[g].usage)
            + (IF d.host = g THEN 1 ELSE 0)
    BY <1>2, <2>4
  <2> QED BY <1>3, <2>3, <2>5 DEF ProxyMoves
<1> QED BY <1>4, <1>5

LEMMA ProxyFree ==
    P!ProxyAssumption => P!Free \in ProxyAtRest /\ P!Free.host = P!None
<1> SUFFICES ASSUME P!ProxyAssumption PROVE P!Free \in ProxyAtRest /\ P!Free.host = P!None
  OBVIOUS
<1>2. 0 \in 0..ConnectTime BY DEF P!ProxyAssumption
<1>3. P!Free \in ProxyRequest /\ P!Free.host = P!None BY <1>2 DEF P!Free, ProxyRequest
<1> QED BY <1>3 DEF P!Free, ProxyAtRest

LEMMA ProxyArrives ==
    ASSUME P!ProxyAssumption, ProxyInv, NEW r \in Requests, P!Arrive(r)
    PROVE  ProxyMoves(r, backs, req[r])
<1> DEFINE d == [P!Free EXCEPT !.phase = "handle", !.joblist = 1,
                     !.body = IF r \in Posts THEN "whole" ELSE "none"]
<1>1. P!Free \in ProxyRequest BY ProxyFree DEF ProxyAtRest
<1>2. d \in ProxyRequest
  <2> DEFINE b == IF r \in Posts THEN "whole" ELSE "none"
             d1 == [P!Free EXCEPT !.phase = "handle"]
             d2 == [d1 EXCEPT !.joblist = 1]
  <2>1. b \in {"none", "whole", "taken"} OBVIOUS
  <2>2. d = [d2 EXCEPT !.body = b] OBVIOUS
  <2> HIDE DEF d, b
  <2>3. d1 \in ProxyRequest BY <1>1 DEF ProxyRequest
  <2> HIDE DEF d1
  <2>4. d2 \in ProxyRequest BY <2>3 DEF ProxyRequest
  <2> HIDE DEF d2
  <2> QED BY ONLY <2>1, <2>2, <2>4 DEF ProxyRequest
<1>3. d.host = P!None /\ d.state = "none" /\ d.joblist > 0 /\ d.phase = "handle" BY DEF P!Free
<1>4. d \in ProxyAtRest BY <1>2, <1>3 DEF ProxyAtRest
<1>5. backs' = backs /\ req' = [req EXCEPT ![r] = d] BY DEF P!Arrive
<1>6. req[r].host = P!None BY DEF P!Arrive, ProxyInv, ProxyAtRest
<1> HIDE DEF d
<1> QED BY <1>3, <1>4, <1>5, <1>6, ProxyStays

LEMMA ProxyBackend ==
    ASSUME P!ProxyAssumption, ProxyInv, NEW r \in Requests, P!Backend(r)
    PROVE  ProxyMoves(r, backs, req[r])
<1>1. PICK s \in {"up", "refused", "answer", "closed", "reset"} :
          req' = [req EXCEPT ![r].socket = s]
  BY DEF P!Backend
<1> DEFINE d == [req[r] EXCEPT !.socket = s]
<1>2. req[r] \in ProxyAtRest /\ req[r] \in ProxyRequest BY DEF ProxyInv, ProxyAtRest
<1>3. d \in ProxyRequest
  <2>1. \A x \in {"none", "pending", "refused", "up", "answer", "closed", "reset"} :
            [req[r] EXCEPT !.socket = x] \in ProxyRequest
    BY ZenonT(60), <1>2, ProxyUpdates
  <2> QED BY <2>1
<1>4. /\ d.host = req[r].host /\ d.state = req[r].state /\ d.mode = req[r].mode
      /\ d.phase = req[r].phase /\ d.joblist = req[r].joblist /\ d.socket # "none"
  BY <1>2 DEF ProxyRequest
<1>5. req' = [req EXCEPT ![r] = d] /\ backs' = backs BY <1>1 DEF P!Backend, ProxyInv
<1> HIDE DEF d
<1>6. d \in ProxyAtRest BY <1>2, <1>3, <1>4 DEF ProxyAtRest
<1> QED BY <1>4, <1>5, <1>6, ProxyStays

LEMMA ProxyEvent ==
    ASSUME P!ProxyAssumption, ProxyInv, NEW r \in Requests, P!proxy_handle_fdevent(r)
    PROVE  ProxyMoves(r, backs, req[r])
<1> DEFINE c == req[r]
           done == P!Queued(P!Detached(c))
           late == [done EXCEPT !.mode = "direct", !.status = 500]
<1>1. c \in ProxyAtRest /\ c \in ProxyRequest /\ backs \in ProxyHosts BY DEF ProxyInv, ProxyAtRest
<1>2. done \in ProxyAtRest /\ done.host = P!None /\ done \in ProxyRequest
  <2>1. 0 \in 0..ConnectTime BY DEF P!ProxyAssumption
  <2>2. P!Detached(c) \in ProxyRequest
    <3> DEFINE e1 == [c EXCEPT !.state = "none"]
               e2 == [e1 EXCEPT !.host = P!None]
               e3 == [e2 EXCEPT !.socket = "none"]
    <3>1. P!Detached(c) = [e3 EXCEPT !.age = 0] BY DEF P!Detached
    <3>2. e1 \in ProxyRequest BY <1>1 DEF ProxyRequest
    <3> HIDE DEF e1
    <3>3. e2 \in ProxyRequest BY <3>2 DEF ProxyRequest
    <3> HIDE DEF e2
    <3>4. e3 \in ProxyRequest BY <3>3 DEF ProxyRequest
    <3> HIDE DEF e3
    <3> QED BY <2>1, <3>1, <3>4 DEF ProxyRequest
  <2>3. done \in ProxyRequest /\ done.joblist > 0 /\ SameRequest(done, P!Detached(c))
    BY <2>2, ProxyJoins
  <2>5. P!Detached(c).host = P!None /\ P!Detached(c).state = "none"
    BY <1>1 DEF P!Detached, ProxyRequest
  <2>4. done.host = P!None /\ done.state = "none" /\ done.joblist > 0
    BY <2>3, <2>5 DEF SameRequest
  <2> QED BY <2>3, <2>4 DEF ProxyAtRest
<1>3. late \in ProxyAtRest /\ late.host = P!None
  <2> HIDE DEF done
  <2>3. [done EXCEPT !.mode = "direct"] \in ProxyRequest BY <1>2, ProxyUpdates
  <2> DEFINE direct == [done EXCEPT !.mode = "direct"]
  <2>4. late = [direct EXCEPT !.status = 500] OBVIOUS
  <2>5. direct \in ProxyRequest BY <2>3
  <2> HIDE DEF direct
  <2>6. [direct EXCEPT !.status = 500] \in ProxyRequest BY <2>5 DEF ProxyRequest
  <2>1. late \in ProxyRequest BY <2>4, <2>6
  <2>2. late.host = P!None /\ late.state = done.state /\ late.joblist = done.joblist
        /\ late.phase = done.phase
    BY <1>2 DEF ProxyRequest
  <2> QED BY ZenonT(60), <1>2, <2>1, <2>2 DEF ProxyAtRest
<1>4. CASE c.state = "READ" /\ P!Set(r, backs, [P!Queued(c) EXCEPT !.file_started = TRUE])
  <2> DEFINE q == P!Queued(c)
             d == [q EXCEPT !.file_started = TRUE]
  <2>1. q \in ProxyRequest /\ q.joblist > 0 /\ SameRequest(q, c) BY <1>1, ProxyJoins
  <2>3. backs' = backs /\ req' = [req EXCEPT ![r] = d] BY <1>4 DEF P!Set
  <2> HIDE DEF q
  <2>2. /\ d \in ProxyRequest /\ d.host = c.host /\ d.state = c.state /\ d.mode = c.mode
        /\ d.phase = c.phase /\ d.joblist > 0 /\ d.socket = c.socket
    BY <2>1 DEF ProxyRequest, SameRequest
  <2> HIDE DEF d
  <2>4. d \in ProxyAtRest BY <1>1, <2>2 DEF ProxyAtRest
  <2> QED BY <2>2, <2>3, <2>4, ProxyStays
<1>5. CASE P!Set(r, P!Released(backs, c), done) BY <1>2, <1>5, ProxyReleases
<1>6. CASE P!Set(r, P!Released(backs, c), P!Free) BY <1>6, ProxyFree, ProxyReleases
<1>7. CASE P!Set(r, P!Released(backs, c), late) BY <1>3, <1>7, ProxyReleases
<1>8. CASE c.state \in {"CONNECT", "WRITE"} /\ P!proxy_write_request(r, backs, c, "event")
  <2>1. c.host \in P!Hosts /\ c.mode = "proxy" /\ c.phase = "handle" /\ c.socket # "none"
    BY <1>1, <1>8 DEF ProxyAtRest, ProxyRequest
  <2> QED BY <1>1, <1>8, <2>1, ProxyWrites
<1> QED BY <1>4, <1>5, <1>6, <1>7, <1>8 DEF P!proxy_handle_fdevent

LEMMA ProxyCloses ==
    ASSUME P!ProxyAssumption, ProxyInv, NEW r \in Requests,
           P!mod_proxy_connection_close_callback(r)
    PROVE  ProxyMoves(r, backs, req[r])
<1>1. P!Set(r, P!Released(backs, req[r]), P!Free)
  BY DEF P!mod_proxy_connection_close_callback, P!Set
<1> QED BY <1>1, ProxyFree, ProxyReleases

\* A second passes: hosts may be enabled again, nobody's host changes.
LEMMA ProxySecond ==
    ASSUME P!ProxyAssumption, ProxyInv, P!Second
    PROVE  /\ ProxyInv'
           /\ \A h \in P!Hosts : backs'[h].usage = backs[h].usage
           /\ UNCHANGED <<last_used_ndx, passed>>
<1>1. Retry \in Nat /\ ConnectTime \in Nat BY DEF P!ProxyAssumption
<1>2. ASSUME NEW h \in P!Hosts
      PROVE  /\ backs'[h] \in [is_disabled : BOOLEAN, age : 0..Retry, usage : Int]
             /\ backs'[h].usage = backs[h].usage
  <2> DEFINE b == backs[h]
             later == [b EXCEPT !.age = IF b.is_disabled THEN b.age + 1 ELSE 0]
  <2>1. b \in [is_disabled : BOOLEAN, age : 0..Retry, usage : Int] BY DEF ProxyInv, ProxyHosts
  <2>2. backs'[h] = IF later.is_disabled /\ P!Due(later)
                    THEN [later EXCEPT !.is_disabled = FALSE, !.age = 0] ELSE later
    BY DEF P!Second, P!Later, P!Revived
  <2>3. later = [is_disabled |-> b.is_disabled, age |-> IF b.is_disabled THEN b.age + 1 ELSE 0,
                 usage |-> b.usage]
    BY <2>1
  <2> HIDE DEF later
  <2>4. CASE later.is_disabled /\ P!Due(later)
    <3> DEFINE up == [later EXCEPT !.is_disabled = FALSE]
    <3>1. backs'[h] = [up EXCEPT !.age = 0] BY <2>2, <2>4
    <3>2. later \in [is_disabled : BOOLEAN, age : Int, usage : Int] /\ later.usage = b.usage
      <4>1. b.age \in Int BY <1>1, <2>1
      <4>2. (IF b.is_disabled THEN b.age + 1 ELSE 0) \in Int BY ONLY <4>1
      <4> QED BY <2>1, <2>3, <4>2
    <3> HIDE DEF b
    <3>3. up \in [is_disabled : BOOLEAN, age : Int, usage : Int] /\ up.usage = b.usage BY ONLY <3>2
    <3> HIDE DEF up
    <3>4. 0 \in 0..Retry BY <1>1
    <3> QED BY ONLY <3>1, <3>3, <3>4 DEF b
  <2>5. CASE ~(later.is_disabled /\ P!Due(later))
    <3>1. backs'[h] = later BY <2>2, <2>5
    <3>2. later.age \in 0..Retry
      <4>1. CASE b.is_disabled BY <1>1, <2>1, <2>3, <2>5, <4>1 DEF P!Due
      <4>2. CASE ~b.is_disabled BY <1>1, <2>3, <4>2
      <4> QED BY <4>1, <4>2
    <3> QED BY <2>1, <2>3, <3>1, <3>2
  <2> QED BY <2>4, <2>5
<1>3. ASSUME NEW r \in Requests PROVE req'[r] \in ProxyAtRest /\ req'[r].host = req[r].host
  <2>1. req[r] \in ProxyAtRest /\ req[r] \in ProxyRequest BY DEF ProxyInv, ProxyAtRest
  <2> DEFINE n == IF req[r].socket = "pending" THEN req[r].age + 1 ELSE req[r].age
             b == req[r].phase # "free" /\ (req[r].revived \/ P!Revived # {})
             e == [req[r] EXCEPT !.age = n]
             d == [e EXCEPT !.revived = b]
  <2>2. req'[r] = d BY DEF P!Second
  <2>3. n \in 0..ConnectTime
    <3>1. req[r].socket = "pending" => req[r].age < ConnectTime BY DEF P!Second, P!Nothing
    <3>2. req[r].age \in 0..ConnectTime BY <2>1 DEF ProxyRequest
    <3> QED BY <1>1, <3>1, <3>2
  <2>4. b \in BOOLEAN OBVIOUS
  <2> HIDE DEF b, n
  <2>5. e \in ProxyRequest /\ SameRequest(e, req[r]) /\ e.joblist = req[r].joblist
    BY <2>1, <2>3 DEF ProxyRequest, SameRequest
  <2> HIDE DEF e
  <2>6. d \in ProxyRequest /\ SameRequest(d, req[r]) /\ d.joblist = req[r].joblist
    BY <2>4, <2>5 DEF ProxyRequest, SameRequest
  <2> HIDE DEF d
  <2>7. d \in ProxyAtRest BY <2>1, <2>6 DEF ProxyAtRest, SameRequest
  <2> QED BY <2>2, <2>6, <2>7 DEF SameRequest
<1>4. backs' \in ProxyHosts BY <1>2 DEF P!Second, ProxyHosts
<1>5. req' \in [Requests -> ProxyAtRest] BY <1>3 DEF P!Second
<1>6. ASSUME NEW h \in P!Hosts
      PROVE  {q \in Requests : req'[q].host = h} = {q \in Requests : req[q].host = h}
  BY <1>3
<1>7. \A h \in P!Hosts : backs'[h].usage = Cardinality({q \in Requests : req'[q].host = h})
  <2> TAKE h \in P!Hosts
  <2>1. backs[h].usage = Cardinality({q \in Requests : req[q].host = h})
    BY SameCardinality DEF ProxyInv, P!UsageAgrees
  <2> QED BY <1>2, <1>6, <2>1
<1>8. P!UsageAgrees'
  <2>1. \A h \in P!Hosts : backs'[h].usage = P!Cardinality({q \in Requests : req'[q].host = h})
    BY ONLY <1>7, SameCardinality
  <2> QED BY ONLY <2>1 DEF P!UsageAgrees
<1>9. ProxyInv' BY ONLY <1>4, <1>5, <1>8 DEF ProxyInv
<1>10. UNCHANGED <<last_used_ndx, passed>> BY DEF P!Second
<1> QED BY ONLY <1>2, <1>9, <1>10

(***************************************************************************)
(* Every step of one request is such a move.                               *)
(***************************************************************************)
LEMMA ProxySteps ==
    ASSUME P!ProxyAssumption, ProxyInv, P!Next
    PROVE  ProxyInv'
<1>1. CASE P!Second BY <1>1, ProxySecond
<1>2. ASSUME NEW r \in Requests,
             \/ P!Arrive(r) \/ P!Run(r) \/ P!mod_proxy_connection_close_callback(r)
             \/ P!Backend(r) \/ P!proxy_handle_fdevent(r)
      PROVE  ProxyInv'
  <2>1. ProxyMoves(r, backs, req[r])
    BY <1>2, ProxyArrives, ProxyRuns, ProxyCloses, ProxyBackend, ProxyEvent
  <2> QED BY <2>1, ProxyCounts
<1> QED BY <1>1, <1>2 DEF P!Next

(***************************************************************************)
(* The usage by which hosts are balanced is the number of requests that    *)
(* have the host, after every failure, restart and abort.                  *)
(***************************************************************************)
THEOREM ProxyInvariant == ASSUME P!ProxyAssumption PROVE P!Spec => []ProxyInv
<1>1. P!Init => ProxyInv
  <2> SUFFICES ASSUME P!Init PROVE ProxyInv
    OBVIOUS
  <2>1. 0 \in 0..Retry BY DEF P!ProxyAssumption
  <2>2. backs \in ProxyHosts BY <2>1 DEF P!Init, ProxyHosts
  <2>3. req \in [Requests -> ProxyAtRest] BY ProxyFree DEF P!Init
  <2>4. ASSUME NEW h \in P!Hosts
        PROVE  backs[h].usage = Cardinality({q \in Requests : req[q].host = h})
    <3>1. P!Free.host # h BY <2>4, ProxyFree DEF P!Hosts, P!None, P!ProxyAssumption
    <3>2. {q \in Requests : req[q].host = h} = {} BY <3>1 DEF P!Init
    <3> QED BY <3>2, FS_EmptySet DEF P!Init
  <2> QED BY <2>2, <2>3, <2>4, SameCardinality DEF ProxyInv, P!UsageAgrees
<1>2. ProxyInv /\ [P!Next]_(P!vars) => ProxyInv'
  <2>1. ProxyInv /\ UNCHANGED P!vars => ProxyInv'
    BY DEF P!vars, ProxyInv, P!UsageAgrees
  <2> QED BY <2>1, ProxySteps
<1> QED BY <1>1, <1>2, PTL DEF P!Spec

THEOREM ProxyUsageAgrees == ASSUME P!ProxyAssumption PROVE P!Spec => []P!UsageAgrees
<1>1. ProxyInv => P!UsageAgrees BY DEF ProxyInv
<1> QED BY <1>1, ProxyInvariant, PTL

(***************************************************************************)
(* A request under way is in the joblist or waits for its socket, however  *)
(* often its hosts have failed.                                            *)
(***************************************************************************)
THEOREM ProxyContinued == ASSUME P!ProxyAssumption PROVE P!Spec => []P!Continued
<1>1. ProxyInv => P!Continued
  <2> SUFFICES ASSUME ProxyInv, NEW r \in Requests, req[r].phase = "handle"
               PROVE  req[r].joblist > 0 \/ req[r].socket # "none"
    BY DEF P!Continued
  <2> QED BY DEF ProxyInv, ProxyAtRest
<1> QED BY <1>1, ProxyInvariant, PTL

-----------------------------------------------------------------------------
(***************************************************************************)
(* Round robin.  A host has been passed over at most as often as there are *)
(* hosts from it up to the one that was used last, going round: each turn  *)
(* goes on to a later one, and not beyond a host that is enabled.          *)
(***************************************************************************)
Behind(h, last) == IF last >= h THEN last - h ELSE last - h + NHosts
TurnInv ==
    /\ last_used_ndx \in P!Hosts \cup {P!None} /\ passed \in [P!Hosts -> Nat]
    /\ Balance = "rr" =>
          \A h \in P!Hosts :
              IF NHosts = 1 \/ last_used_ndx = P!None THEN passed[h] = 0
              ELSE passed[h] <= Behind(h, last_used_ndx)

LEMMA TurnTaken ==
    ASSUME P!ProxyAssumption, ProxyInv, TurnInv, NEW r \in Requests, NEW c, NEW caller,
           P!mod_proxy_check_extension(r, c, caller)
    PROVE  TurnInv'
<1> DEFINE h == P!Chosen(r)
<1>1. NHosts \in Nat \ {0} /\ P!None = -1 /\ P!Hosts = 0..(NHosts - 1)
  BY DEF P!ProxyAssumption, P!None, P!Hosts
<1>2. /\ last_used_ndx' = IF NHosts > 1 /\ Balance = "rr" THEN h ELSE last_used_ndx
      /\ passed' = [g \in P!Hosts |-> IF Balance = "rr" /\ g \in P!Up \ {h} THEN passed[g] + 1 ELSE 0]
  BY DEF P!mod_proxy_check_extension
<1>3. backs \in ProxyHosts BY DEF ProxyInv
<1>4. /\ P!Up = {} => h = P!None
      /\ P!Up # {} => h \in P!Up
      /\ P!Up # {} /\ NHosts > 1 /\ Balance = "rr" => h = P!RoundRobin(P!Up)
  BY <1>3, ProxyChoice
<1>5. P!Up \subseteq P!Hosts BY DEF P!Up
<1> HIDE DEF h
<1>6. last_used_ndx' \in P!Hosts \cup {P!None} /\ passed' \in [P!Hosts -> Nat]
  BY <1>2, <1>4, <1>5 DEF TurnInv
<1>7. ASSUME Balance = "rr", NEW g \in P!Hosts
      PROVE  IF NHosts = 1 \/ last_used_ndx' = P!None THEN passed'[g] = 0
             ELSE passed'[g] <= Behind(g, last_used_ndx')
  <2>1. CASE P!Up = {} BY <1>1, <1>2, <1>4, <2>1, <1>6, <1>7 DEF Behind
  <2>2. CASE P!Up # {} /\ NHosts = 1
    <3>1. P!Hosts = {0} BY <1>1, <2>2
    <3>2. g = h BY <1>4, <1>5, <2>2, <3>1
    <3> QED BY <1>2, <2>2, <3>2
  <2>3. CASE P!Up # {} /\ NHosts > 1
    <3>1. last_used_ndx' = h /\ h = P!RoundRobin(P!Up) /\ h \in P!Up /\ h # P!None
      BY <1>1, <1>2, <1>4, <1>5, <1>7, <2>3
    <3>2. CASE g \notin P!Up \ {h}
      <4>1. passed'[g] = 0 BY <1>2, <3>2
      <4>2. 0 <= Behind(g, h) BY <1>1, <1>5, <3>1 DEF Behind
      <4> QED BY <2>3, <3>1, <4>1, <4>2
    <3>3. CASE g \in P!Up \ {h}
      <4> DEFINE later == {k \in P!Up : k > last_used_ndx}
      <4>1. passed'[g] = passed[g] + 1 /\ passed[g] \in Nat BY <1>2, <1>7, <3>3 DEF TurnInv
      <4>2. later \in SUBSET P!Hosts BY <1>5
      <4>3. last_used_ndx \in Int /\ last_used_ndx >= -1 /\ last_used_ndx < NHosts
        BY <1>1 DEF TurnInv
      <4>6. /\ last_used_ndx = -1 => passed[g] = 0
            /\ last_used_ndx # -1 => passed[g] <= Behind(g, last_used_ndx)
        BY <1>1, <1>7, <2>3 DEF TurnInv
      <4>7. h \in 0..(NHosts - 1) /\ g \in 0..(NHosts - 1) /\ g # h BY <1>1, <1>5, <3>1, <3>3
      <4>8. SUFFICES passed[g] + 1 <= Behind(g, h) BY <2>3, <3>1, <4>1
      <4>4. CASE later # {}
        <5>1. h = P!First(later) BY <3>1, <4>4 DEF P!RoundRobin
        <5>2. h > last_used_ndx BY <4>2, <4>4, <5>1, ProxyFirst
        <5>3. g > last_used_ndx => h < g
          <6>1. g \in later => h <= g BY <4>2, <4>4, <5>1, ProxyFirst
          <6> QED BY <1>1, <1>5, <3>1, <3>3, <6>1
        <5> HIDE DEF later
        <5> QED BY <1>1, <4>1, <4>3, <4>6, <4>7, <5>2, <5>3 DEF Behind
      <4>5. CASE later = {}
        <5>1. h = P!First(P!Up) BY <3>1, <4>5 DEF P!RoundRobin
        <5>2. h <= g BY <1>5, <2>3, <3>3, <5>1, ProxyFirst
        <5>3. g <= last_used_ndx /\ h <= last_used_ndx BY <1>1, <1>5, <3>1, <3>3, <4>3, <4>5
        <5> HIDE DEF later
        <5> QED BY <1>1, <4>1, <4>3, <4>6, <4>7, <5>2, <5>3 DEF Behind
      <4> QED BY <4>4, <4>5
    <3> QED BY <3>2, <3>3
  <2> QED BY <1>1, <2>1, <2>2, <2>3
<1> QED BY <1>6, <1>7 DEF TurnInv

LEMMA TurnInvariant == ASSUME P!ProxyAssumption PROVE P!Spec => []TurnInv
<1>1. NHosts \in Nat \ {0} /\ P!None = -1 /\ P!Hosts = 0..(NHosts - 1)
  BY DEF P!ProxyAssumption, P!None, P!Hosts
<1>2. P!Init => TurnInv
  <2> SUFFICES ASSUME P!Init PROVE TurnInv
    OBVIOUS
  <2>1. last_used_ndx = 0 /\ passed = [h \in P!Hosts |-> 0] BY DEF P!Init
  <2>2. \A h \in P!Hosts : 0 <= Behind(h, 0) BY <1>1 DEF Behind
  <2> QED BY <1>1, <2>1, <2>2 DEF TurnInv
<1>3. ProxyInv /\ TurnInv /\ [P!Next]_(P!vars) => TurnInv'
  <2> SUFFICES ASSUME ProxyInv, TurnInv, [P!Next]_(P!vars) PROVE TurnInv'
    OBVIOUS
  <2>1. CASE UNCHANGED <<last_used_ndx, passed>> BY <2>1 DEF TurnInv
  <2>2. ASSUME NEW r \in Requests, P!Run(r) PROVE TurnInv'
    <3>1. ASSUME NEW c, NEW caller, P!Entered(r, c, caller) PROVE TurnInv'
      <4>1. CASE P!mod_proxy_check_extension(r, c, caller) BY <4>1, TurnTaken
      <4> QED BY <2>1, <3>1, <4>1 DEF P!Entered, P!Handle
    <3> QED BY <2>2, <3>1 DEF P!Run
  <2>3. P!Next => UNCHANGED <<last_used_ndx, passed>> \/ \E r \in Requests : P!Run(r)
    BY DEF P!Next, P!Arrive, P!mod_proxy_connection_close_callback, P!Backend,
           P!proxy_handle_fdevent, P!Second
  <2>4. CASE UNCHANGED P!vars BY <2>1, <2>4 DEF P!vars
  <2> QED BY <2>1, <2>2, <2>3, <2>4
<1> QED BY <1>2, <1>3, ProxyInvariant, PTL DEF P!Spec

(***************************************************************************)
(* Round robin: between two of its turns an enabled host is passed over    *)
(* less than once for each host, whichever fail and come back meanwhile.   *)
(***************************************************************************)
THEOREM ProxyTurns == ASSUME P!ProxyAssumption PROVE P!Spec => []P!Turns
<1>1. NHosts \in Nat \ {0} /\ P!None = -1 /\ P!Hosts = 0..(NHosts - 1)
  BY DEF P!ProxyAssumption, P!None, P!Hosts
<1>2. TurnInv => P!Turns
  <2> SUFFICES ASSUME TurnInv, Balance = "rr", NEW h \in P!Hosts PROVE passed[h] < NHosts
    BY DEF P!Turns
  <2>1. passed[h] \in Nat BY DEF TurnInv
  <2>2. CASE NHosts = 1 \/ last_used_ndx = P!None BY <1>1, <2>2 DEF TurnInv
  <2>3. CASE ~(NHosts = 1 \/ last_used_ndx = P!None)
    <3>1. last_used_ndx \in P!Hosts /\ passed[h] <= Behind(h, last_used_ndx)
      BY <2>3 DEF TurnInv
    <3> QED BY <1>1, <2>1, <3>1 DEF Behind
  <2> QED BY <2>2, <2>3
<1> QED BY <1>2, TurnInvariant, PTL

(***************************************************************************)
(* The types of mod_proxy's state.                                         *)
(***************************************************************************)
THEOREM ProxyTypeOK == ASSUME P!ProxyAssumption PROVE P!Spec => []P!TypeOK
<1>1. ProxyInv /\ TurnInv => P!TypeOK
  <2> SUFFICES ASSUME ProxyInv, TurnInv PROVE P!TypeOK
    OBVIOUS
  <2>1. ASSUME NEW h \in P!Hosts
        PROVE  backs[h].age \in 0..Retry /\ backs[h].usage \in 0..Cardinality(Requests)
    <3> DEFINE S == {q \in Requests : req[q].host = h}
    <3>1. IsFiniteSet(Requests) BY SameCardinality DEF P!ProxyAssumption
    <3>2. Cardinality(S) \in Nat /\ Cardinality(S) <= Cardinality(Requests)
          /\ Cardinality(Requests) \in Nat
      BY <3>1, FS_Subset, FS_CardinalityType
    <3>3. backs[h].usage = Cardinality(S) BY SameCardinality DEF ProxyInv, P!UsageAgrees
    <3>4. backs[h].age \in 0..Retry BY DEF ProxyInv, ProxyHosts
    <3> HIDE DEF S
    <3> QED BY <3>2, <3>3, <3>4
  <2>2. ASSUME NEW r \in Requests
        PROVE  req[r].host \in P!Hosts \cup {P!None} /\ req[r].age \in 0..ConnectTime
    BY DEF ProxyInv, ProxyAtRest, ProxyRequest
  <2> QED BY <2>1, <2>2, SameCardinality DEF P!TypeOK, TurnInv
<1> QED BY <1>1, ProxyInvariant, TurnInvariant, PTL

-----------------------------------------------------------------------------
(***************************************************************************)
(* mod_cgi.  The types of its state; a connection that is free has neither *)
(* a pipe nor a child, and a child is only known to a request with a pipe. *)
(***************************************************************************)
Text == Seq({"header", "blank", "body", "text", "line"})      \* what scripts write
CGIPhases == {"free", "handle", "write"}
CGIConnection ==
    [phase : CGIPhases, mode : {"direct", "cgi"}, status : {0, 200, 500},
     file_started : BOOLEAN, file_finished : BOOLEAN, sent : Text, wrote : Text, joblist : BOOLEAN]
CGIContext ==
    [fd : BOOLEAN, pid : Pids \cup {C!NoPid}, response_header : Text, unread : Text,
     writer : BOOLEAN]
CGIChild ==
    [state : {"none", "alive", "told", "exited", "killed"}, owner : Requests \cup {C!NoPid},
     todo : Text, stdout : BOOLEAN]

CGITypes ==
    /\ con \in [Requests -> CGIConnection] /\ ctx \in [Requests -> CGIContext]
    /\ proc \in [Pids -> CGIChild] /\ cgi_pid \subseteq Pids

\* what ChildrenKnown says of one child
Known(p) ==
    /\ \A r \in Requests : ctx[r].pid = p => proc[p].state # "none" /\ proc[p].owner = r
    /\ p \in cgi_pid => proc[p].state # "none" /\ \A r \in Requests : ctx[r].pid # p
    /\ proc[p].state # "none" /\ proc[p].owner # C!NoPid =>
          p \in cgi_pid \/ \E r \in Requests : ctx[r].pid = p

CGIInv ==
    /\ CGITypes /\ C!DescriptorsKept
    /\ \A r \in Requests : (con[r].phase = "free" => ~ctx[r].fd)
                           /\ (~ctx[r].fd => ctx[r].pid = C!NoPid)
    /\ \A p \in Pids : Known(p)

LEMMA CGIConnections ==
    \A c \in CGIConnection :
        /\ \A x \in CGIPhases : [c EXCEPT !.phase = x] \in CGIConnection
        /\ \A x \in {"direct", "cgi"} : [c EXCEPT !.mode = x] \in CGIConnection
        /\ \A x \in {0, 200, 500} : [c EXCEPT !.status = x] \in CGIConnection
        /\ \A x \in BOOLEAN : [c EXCEPT !.file_started = x] \in CGIConnection
        /\ \A x \in BOOLEAN : [c EXCEPT !.file_finished = x] \in CGIConnection
        /\ \A x \in Text : [c EXCEPT !.sent = x] \in CGIConnection
        /\ \A x \in Text : [c EXCEPT !.wrote = x] \in CGIConnection
        /\ \A x \in BOOLEAN : [c EXCEPT !.joblist = x] \in CGIConnection
<1> TAKE c \in CGIConnection
<1>1. \A x \in CGIPhases : [c EXCEPT !.phase = x] \in CGIConnection BY DEF CGIConnection
<1>2. \A x \in {"direct", "cgi"} : [c EXCEPT !.mode = x] \in CGIConnection BY DEF CGIConnection
<1>3. \A x \in {0, 200, 500} : [c EXCEPT !.status = x] \in CGIConnection BY DEF CGIConnection
<1>4. \A x \in BOOLEAN : [c EXCEPT !.file_started = x] \in CGIConnection BY DEF CGIConnection
<1>5. \A x \in BOOLEAN : [c EXCEPT !.file_finished = x] \in CGIConnection BY DEF CGIConnection
<1>6. \A x \in Text : [c EXCEPT !.sent = x] \in CGIConnection BY DEF CGIConnection
<1>7. \A x \in Text : [c EXCEPT !.wrote = x] \in CGIConnection BY DEF CGIConnection
<1>8. \A x \in BOOLEAN : [c EXCEPT !.joblist = x] \in CGIConnection BY DEF CGIConnection
<1> QED BY <1>1, <1>2, <1>3, <1>4, <1>5, <1>6, <1>7, <1>8

LEMMA CGIEnds ==
    \A c \in CGIConnection : [c EXCEPT !.file_finished = TRUE] \in CGIConnection
BY CGIConnections

LEMMA CGINothing ==
    C!CGIAssumption =>
        /\ C!Free \in CGIConnection /\ C!Free.phase = "free"
        /\ C!NoCtx \in CGIContext /\ C!NoCtx.pid = C!NoPid /\ ~C!NoCtx.fd
        /\ C!NoProc \in CGIChild /\ C!NoProc.state = "none"
<1>1. <<>> \in Text BY DEF Text
<1>2. C!Free \in CGIConnection BY <1>1 DEF C!Free, CGIConnection, CGIPhases
<1>3. C!NoCtx \in CGIContext BY <1>1 DEF C!NoCtx, CGIContext
<1>4. C!NoProc \in CGIChild BY <1>1 DEF C!NoProc, CGIChild
<1> QED BY <1>2, <1>3, <1>4 DEF C!Free, C!NoCtx, C!NoProc

\* Pipes are counted as they are opened and closed.
LEMMA PipesCounted ==
    ASSUME C!CGIAssumption, CGIInv, NEW r \in Requests, NEW d \in CGIContext,
           ctx' = [ctx EXCEPT ![r] = d],
           fds' = (IF ctx[r].fd THEN fds - 1 ELSE fds) + (IF d.fd THEN 1 ELSE 0)
    PROVE  C!DescriptorsKept'
<1> DEFINE S == {q \in Requests : ctx[q].fd}
           T == {q \in Requests : ctx'[q].fd}
<1>1. fds = Cardinality(S) BY SameCardinality DEF CGIInv, C!DescriptorsKept
<1>2. IsFiniteSet(Requests) BY SameCardinality DEF C!CGIAssumption
<1>3. IsFiniteSet(S) /\ Cardinality(S) \in Nat BY <1>2, FS_Subset, FS_CardinalityType
<1>4. ctx \in [Requests -> CGIContext] BY DEF CGIInv, CGITypes
<1>5. d.fd \in BOOLEAN /\ ctx[r].fd \in BOOLEAN BY <1>4 DEF CGIContext
<1>6. T = IF d.fd THEN S \cup {r} ELSE S \ {r} BY <1>4
<1>7. r \in S <=> ctx[r].fd OBVIOUS
<1> HIDE DEF S, T
<1>8. CASE d.fd
  <2>1. Cardinality(T) = IF r \in S THEN Cardinality(S) ELSE Cardinality(S) + 1
    BY <1>3, <1>6, <1>8, FS_AddElement
  <2> QED BY <1>1, <1>3, <1>7, <1>8, <2>1, SameCardinality DEF C!DescriptorsKept, T
<1>9. CASE ~d.fd
  <2>1. Cardinality(T) = IF r \in S THEN Cardinality(S) - 1 ELSE Cardinality(S)
    BY <1>3, <1>6, <1>9, FS_RemoveElement
  <2> QED BY <1>1, <1>3, <1>7, <1>9, <2>1, SameCardinality DEF C!DescriptorsKept, T
<1> QED BY <1>5, <1>8, <1>9

\* A step that neither opens nor closes a pipe, and neither starts nor collects a child.
LEMMA CGIQuiet ==
    ASSUME CGIInv, CGITypes', fds' = fds, cgi_pid' = cgi_pid,
           \A r \in Requests : ctx'[r].fd = ctx[r].fd /\ ctx'[r].pid = ctx[r].pid,
           \A p \in Pids : /\ proc'[p].owner = proc[p].owner
                           /\ (proc'[p].state = "none") = (proc[p].state = "none"),
           \A r \in Requests : con'[r].phase = "free" => con[r].phase = "free" \/ ~ctx[r].fd
    PROVE  CGIInv'
<1>1. {q \in Requests : ctx'[q].fd} = {q \in Requests : ctx[q].fd} OBVIOUS
<1>2. C!DescriptorsKept' BY <1>1, SameCardinality DEF CGIInv, C!DescriptorsKept
<1>3. ASSUME NEW p \in Pids PROVE Known(p)'
  <2>1. Known(p) BY DEF CGIInv
  <2> QED BY <2>1 DEF Known
<1>4. \A r \in Requests : /\ con'[r].phase = "free" => ~ctx'[r].fd
                          /\ ~ctx'[r].fd => ctx'[r].pid = C!NoPid
  BY DEF CGIInv
<1> QED BY <1>2, <1>3, <1>4 DEF CGIInv

\* A child is known to one request at most.
LEMMA OneOwner ==
    ASSUME CGIInv, NEW r \in Requests, NEW q \in Requests, ctx[r].pid = ctx[q].pid,
           ctx[r].pid # C!NoPid
    PROVE  r = q
<1>1. ctx[r].pid \in Pids BY DEF CGIInv, CGITypes, CGIContext
<1>2. Known(ctx[r].pid) BY <1>1 DEF CGIInv
<1> QED BY <1>2 DEF Known

(***************************************************************************)
(* The pipe is closed; the child goes to cgi_pid or has been waited for.   *)
(***************************************************************************)
LEMMA CGICloses ==
    ASSUME C!CGIAssumption, CGIInv, NEW r \in Requests, NEW c \in CGIConnection, ctx[r].fd,
           C!cgi_connection_close(r, c)
    PROVE  CGIInv'
<1> DEFINE p == ctx[r].pid
<1>1. /\ con \in [Requests -> CGIConnection] /\ ctx \in [Requests -> CGIContext]
      /\ proc \in [Pids -> CGIChild] /\ cgi_pid \subseteq Pids
  BY DEF CGIInv, CGITypes
<1>2. C!NoPid \notin Pids /\ C!NoCtx \in CGIContext /\ C!NoCtx.pid = C!NoPid /\ ~C!NoCtx.fd
      /\ C!NoProc \in CGIChild /\ C!NoProc.state = "none"
  BY CGINothing DEF C!CGIAssumption
<1>3. ctx' = [ctx EXCEPT ![r] = C!NoCtx] /\ fds' = fds - 1 BY DEF C!cgi_connection_close
<1>4. fds \in Int
  <2>1. IsFiniteSet(Requests) BY SameCardinality DEF C!CGIAssumption
  <2>2. Cardinality({q \in Requests : ctx[q].fd}) \in Nat BY <2>1, FS_Subset, FS_CardinalityType
  <2> QED BY <2>2, SameCardinality DEF CGIInv, C!DescriptorsKept
<1>5. C!DescriptorsKept'
  <2>1. fds' = (IF ctx[r].fd THEN fds - 1 ELSE fds) + (IF C!NoCtx.fd THEN 1 ELSE 0)
    BY <1>2, <1>3, <1>4
  <2> QED BY <1>2, <1>3, <2>1, PipesCounted
<1>6. ctx' \in [Requests -> CGIContext] BY <1>1, <1>2, <1>3
<1>7. con' \in [Requests -> CGIConnection]
  <2> DEFINE d == [c EXCEPT !.phase = "handle"]
             e == [d EXCEPT !.status = 500]
             f == [e EXCEPT !.mode = "direct"]
  <2>3. d \in CGIConnection BY ZenonT(60), CGIConnections DEF CGIPhases
  <2> HIDE DEF d
  <2>4. e \in CGIConnection BY <2>3 DEF CGIConnection
  <2> HIDE DEF e
  <2>6. f \in CGIConnection BY <2>4 DEF CGIConnection
  <2>5. [[[c EXCEPT !.phase = "handle"] EXCEPT !.status = 500] EXCEPT !.mode = "direct"] \in CGIConnection
    BY <2>6 DEF d, e
  <2>1. [c EXCEPT !.phase = "handle", !.status = 500, !.mode = "direct"] \in CGIConnection
    BY <2>5
  <2>2. \/ con' = [con EXCEPT ![r] = c]
        \/ con' = [con EXCEPT ![r] =
                      [c EXCEPT !.phase = "handle", !.status = 500, !.mode = "direct"]]
    BY DEF C!cgi_connection_close
  <2> QED BY <1>1, <2>1, <2>2
<1>8. \A q \in Requests \ {r} : con'[q] = con[q] /\ ctx'[q] = ctx[q]
  BY <1>1, <1>3 DEF C!cgi_connection_close
<1>9. \A q \in Requests : /\ con'[q].phase = "free" => ~ctx'[q].fd
                          /\ ~ctx'[q].fd => ctx'[q].pid = C!NoPid
  BY <1>1, <1>2, <1>3, <1>8 DEF CGIInv
<1>10. \A q \in Requests : p # C!NoPid => ctx'[q].pid # p
  <2> SUFFICES ASSUME NEW q \in Requests, p # C!NoPid, ctx'[q].pid = p PROVE FALSE
    OBVIOUS
  <2>1. q # r BY <1>1, <1>2, <1>3
  <2>2. ctx[q].pid = ctx[r].pid BY <1>8, <2>1
  <2> QED BY <2>1, <2>2, OneOwner
<1>11. \A x \in Pids : x # p => ((\E q \in Requests : ctx'[q].pid = x)
                                 <=> \E q \in Requests : ctx[q].pid = x)
  BY <1>1, <1>2, <1>3, <1>8
<1>12. CASE p = C!NoPid /\ UNCHANGED <<proc, cgi_pid>>
  <2>1. ASSUME NEW x \in Pids PROVE Known(x)'
    <3>1. x # p /\ Known(x) BY <1>2, <1>12 DEF CGIInv
    <3>2. \A q \in Requests : ctx'[q].pid = x => ctx[q].pid = x BY <1>1, <1>2, <1>3, <1>8
    <3> QED BY <1>11, <1>12, <3>1, <3>2 DEF Known
  <2> QED BY <1>1, <1>5, <1>6, <1>7, <1>9, <1>12, <2>1 DEF CGIInv, CGITypes
<1>13. CASE /\ p # C!NoPid /\ proc[p].state = "alive" /\ cgi_pid' = cgi_pid \cup {p}
            /\ proc' = [proc EXCEPT ![p].state = "told", ![p].stdout = FALSE]
  <2>1. p \in Pids BY <1>1, <1>13 DEF CGIContext
  <2>2. proc' \in [Pids -> CGIChild] /\ proc'[p].state = "told"
    <3>1. [proc[p] EXCEPT !.state = "told"] \in CGIChild BY <1>1, <2>1 DEF CGIChild
    <3>2. \A d \in CGIChild : [d EXCEPT !.stdout = FALSE] \in CGIChild
                              /\ [d EXCEPT !.stdout = FALSE].state = d.state
      BY DEF CGIChild
    <3>3. proc' = [proc EXCEPT ![p] = [[proc[p] EXCEPT !.state = "told"] EXCEPT !.stdout = FALSE]]
      BY <1>1, <1>13, <2>1
    <3>4. [proc[p] EXCEPT !.state = "told"].state = "told" BY <1>1, <2>1 DEF CGIChild
    <3> QED BY <1>1, <2>1, <3>1, <3>2, <3>3, <3>4
  <2>3. ASSUME NEW x \in Pids PROVE Known(x)'
    <3>1. CASE x = p BY <1>10, <1>13, <2>2, <3>1 DEF Known
    <3>2. CASE x # p
      <4>1. Known(x) BY DEF CGIInv
      <4>2. \A q \in Requests : ctx'[q].pid = x => ctx[q].pid = x BY <1>1, <1>2, <1>3, <1>8
      <4>3. proc'[x] = proc[x] /\ (x \in cgi_pid' <=> x \in cgi_pid) BY <1>1, <1>13, <3>2
      <4> QED BY <1>11, <3>2, <4>1, <4>2, <4>3 DEF Known
    <3> QED BY <3>1, <3>2
  <2> QED BY <1>1, <1>5, <1>6, <1>7, <1>9, <1>13, <2>1, <2>2, <2>3 DEF CGIInv, CGITypes
<1>14. CASE p # C!NoPid /\ proc' = C!Reaped(p) /\ UNCHANGED cgi_pid
  <2>1. p \in Pids BY <1>1, <1>14 DEF CGIContext
  <2>2. proc' \in [Pids -> CGIChild] /\ proc'[p].state = "none"
    BY <1>1, <1>2, <1>14, <2>1 DEF C!Reaped
  <2>3. ASSUME NEW x \in Pids PROVE Known(x)'
    <3>1. CASE x = p
      <4>1. p \notin cgi_pid BY <2>1 DEF CGIInv, Known
      <4> QED BY <1>10, <1>14, <2>2, <3>1, <4>1 DEF Known
    <3>2. CASE x # p
      <4>1. Known(x) BY DEF CGIInv
      <4>2. \A q \in Requests : ctx'[q].pid = x => ctx[q].pid = x BY <1>1, <1>2, <1>3, <1>8
      <4>3. proc'[x] = proc[x] BY <1>1, <1>14, <3>2 DEF C!Reaped
      <4> QED BY <1>11, <1>14, <3>2, <4>1, <4>2, <4>3 DEF Known
    <3> QED BY <3>1, <3>2
  <2> QED BY <1>1, <1>5, <1>6, <1>7, <1>9, <1>14, <2>2, <2>3 DEF CGIInv, CGITypes
<1> QED BY <1>12, <1>13, <1>14 DEF C!cgi_connection_close, C!Lonely

(***************************************************************************)
(* A script is started, or its start fails on the way.                     *)
(***************************************************************************)
LEMMA CGIStarts ==
    ASSUME C!CGIAssumption, CGIInv, NEW r \in Requests, C!cgi_is_handled(r)
    PROVE  CGIInv'
<1>1. /\ con \in [Requests -> CGIConnection] /\ ctx \in [Requests -> CGIContext]
      /\ proc \in [Pids -> CGIChild] /\ cgi_pid \subseteq Pids /\ cgi_pid' = cgi_pid
  BY DEF CGIInv, CGITypes, C!cgi_is_handled
<1>2. C!NoPid \notin Pids /\ C!NoPid \notin Requests BY DEF C!CGIAssumption
<1>3. ~ctx[r].fd /\ ctx[r].pid = C!NoPid BY DEF CGIInv, C!cgi_is_handled
<1>4. PICK outcome \in {"ok", "unread", "nobody", "fcntl", "pipe", "fork"}, script \in C!Scripts :
          /\ C!cgi_create_env(r, outcome, script)
          /\ con' = [con EXCEPT ![r] =
                IF C!Kept(outcome) = 1
                THEN [C!Free EXCEPT !.phase = "handle", !.mode = "cgi", !.joblist = TRUE,
                                    !.status = IF outcome = "unread" THEN 500 ELSE 0]
                ELSE [C!Free EXCEPT !.phase = "write", !.status = 500, !.file_finished = TRUE]]
  BY DEF C!cgi_is_handled
<1>5. script \in Text /\ <<>> \in Text
  <2>1. <<>> \in Text BY DEF Text
  <2>2. <<"header", "blank", "body">> \in Text BY DEF Text
  <2>3. <<"text", "line">> \in Text BY DEF Text
  <2> QED BY <1>4, <2>1, <2>2, <2>3 DEF C!Scripts
<1>6. con' \in [Requests -> CGIConnection] /\ con'[r].phase # "free"
  <2> DEFINE handled(x) == [C!Free EXCEPT !.phase = "handle", !.mode = "cgi", !.joblist = TRUE,
                                          !.status = x]
             failed == [C!Free EXCEPT !.phase = "write", !.status = 500, !.file_finished = TRUE]
  <2>1. /\ failed.phase = "write"
        /\ \A x \in {0, 500} : handled(x).phase = "handle"
    BY DEF C!Free
  <2>3. con' = [con EXCEPT ![r] = IF C!Kept(outcome) = 1
                                  THEN handled(IF outcome = "unread" THEN 500 ELSE 0) ELSE failed]
    BY <1>4
  <2>4. (IF outcome = "unread" THEN 500 ELSE 0) \in {0, 500} OBVIOUS
  <2>5. failed \in CGIConnection
    <3>1. C!Free \in CGIConnection BY CGINothing
    <3> DEFINE a == [C!Free EXCEPT !.phase = "write"]
               b == [a EXCEPT !.status = 500]
    <3>2. failed = [b EXCEPT !.file_finished = TRUE] OBVIOUS
    <3>3. a \in CGIConnection BY <3>1 DEF CGIConnection, CGIPhases
    <3> HIDE DEF failed, a
    <3>4. b \in CGIConnection BY ONLY <3>3 DEF CGIConnection
    <3> HIDE DEF b
    <3> QED BY ONLY <3>2, <3>4, CGIEnds
  <2>6. ASSUME NEW x \in {0, 500} PROVE handled(x) \in CGIConnection
    <3> DEFINE a == [C!Free EXCEPT !.phase = "handle"]
               b == [a EXCEPT !.mode = "cgi"]
               d == [b EXCEPT !.joblist = TRUE]
    <3>1. C!Free \in CGIConnection BY CGINothing
    <3>2. a \in CGIConnection BY ZenonT(60), <3>1, CGIConnections DEF CGIPhases
    <3>3. b \in CGIConnection BY ZenonT(60), <3>2, CGIConnections
    <3>4. d \in CGIConnection BY ZenonT(60), <3>3, CGIConnections
    <3>5. handled(x) = [d EXCEPT !.status = x] OBVIOUS
    <3> HIDE DEF d
    <3>6. \A y \in {0, 200, 500} : [d EXCEPT !.status = y] \in CGIConnection
      BY ZenonT(60), <3>4, CGIConnections
    <3> QED BY <2>6, <3>5, <3>6
  <2> HIDE DEF handled, failed
  <2>7. (IF C!Kept(outcome) = 1 THEN handled(IF outcome = "unread" THEN 500 ELSE 0) ELSE failed)
            \in {c \in CGIConnection : c.phase # "free"}
    BY <2>1, <2>4, <2>5, <2>6
  <2> QED BY <1>1, <2>3, <2>7
<1>7. \A q \in Requests : q # r => con'[q] = con[q] BY <1>1, <1>4
<1>8. CASE outcome \in {"pipe", "fork"}
  <2>1. ctx' = ctx /\ proc' = proc /\ fds' = fds + 0
    BY <1>4, <1>8 DEF C!cgi_create_env, C!Forked, C!Kept
  <2>2. fds' = fds
    <3>1. IsFiniteSet(Requests) BY SameCardinality DEF C!CGIAssumption
    <3>2. Cardinality({q \in Requests : ctx[q].fd}) \in Nat
      BY <3>1, FS_Subset, FS_CardinalityType
    <3>3. fds \in Nat BY <3>2, SameCardinality DEF CGIInv, C!DescriptorsKept
    <3> QED BY <2>1, <3>3
  <2> QED BY <1>1, <1>3, <1>6, <1>7, <2>1, <2>2, CGIQuiet DEF CGITypes
<1>9. CASE outcome \in {"ok", "unread", "nobody", "fcntl"}
  <2>1. PICK p \in Pids :
          /\ proc[p].state = "none"
          /\ IF outcome \in {"nobody", "fcntl"}
             THEN /\ proc' = [proc EXCEPT ![p] = [C!Child(C!NoPid, <<>>) EXCEPT !.stdout = FALSE]]
                  /\ UNCHANGED ctx
             ELSE /\ proc' = [proc EXCEPT ![p] = C!Child(r, script)]
                  /\ ctx' = [ctx EXCEPT ![r] = [C!NoCtx EXCEPT !.fd = TRUE, !.pid = p, !.writer = TRUE]]
    <3>1. C!Kept(outcome) = 0 <=> outcome \in {"nobody", "fcntl"} BY <1>9 DEF C!Kept
    <3>2. C!Forked(outcome) BY <1>9 DEF C!Forked
    <3> QED BY <1>4, <3>1, <3>2 DEF C!cgi_create_env
  <2>2. p \notin cgi_pid /\ \A q \in Requests : ctx[q].pid # p BY <2>1 DEF CGIInv, Known
  <2>3. fds' = fds + (IF outcome \in {"nobody", "fcntl"} THEN 0 ELSE 1)
    BY <1>4, <1>9 DEF C!cgi_create_env, C!Kept
  <2>4. fds \in Nat
    <3>1. IsFiniteSet(Requests) BY SameCardinality DEF C!CGIAssumption
    <3>2. Cardinality({q \in Requests : ctx[q].fd}) \in Nat
      BY <3>1, FS_Subset, FS_CardinalityType
    <3> QED BY <3>2, SameCardinality DEF CGIInv, C!DescriptorsKept
  <2>5. CASE outcome \in {"nobody", "fcntl"}
    <3> DEFINE d == [C!Child(C!NoPid, <<>>) EXCEPT !.stdout = FALSE]
    <3>1. d \in CGIChild /\ d.owner = C!NoPid /\ d.state = "alive"
      BY <1>5 DEF C!Child, CGIChild
    <3>2. proc' = [proc EXCEPT ![p] = d] /\ ctx' = ctx BY <2>1, <2>5
    <3> HIDE DEF d
    <3>3. proc' \in [Pids -> CGIChild] BY <1>1, <3>1, <3>2
    <3>4. ASSUME NEW x \in Pids PROVE Known(x)'
      <4>1. Known(x) BY DEF CGIInv
      <4>2. CASE x = p BY <1>1, <2>2, <3>1, <3>2, <4>2 DEF Known
      <4>3. CASE x # p BY <1>1, <3>2, <4>1, <4>3 DEF Known
      <4> QED BY <4>2, <4>3
    <3>5. fds' = fds BY <2>3, <2>4, <2>5
    <3>6. C!DescriptorsKept' BY <3>2, <3>5 DEF CGIInv, C!DescriptorsKept
    <3>7. \A q \in Requests : /\ con'[q].phase = "free" => ~ctx'[q].fd
                              /\ ~ctx'[q].fd => ctx'[q].pid = C!NoPid
      BY <1>6, <1>7, <3>2 DEF CGIInv
    <3> QED BY <1>1, <1>6, <3>2, <3>3, <3>4, <3>6, <3>7 DEF CGIInv, CGITypes
  <2>6. CASE outcome \notin {"nobody", "fcntl"}
    <3> DEFINE d == C!Child(r, script)
               e == [C!NoCtx EXCEPT !.fd = TRUE, !.pid = p, !.writer = TRUE]
    <3>1. d \in CGIChild /\ d.owner = r /\ d.state = "alive" BY <1>5 DEF C!Child, CGIChild
    <3>2. e \in CGIContext /\ e.pid = p /\ e.fd BY <1>5 DEF C!NoCtx, CGIContext
    <3>3. proc' = [proc EXCEPT ![p] = d] /\ ctx' = [ctx EXCEPT ![r] = e] BY <2>1, <2>6
    <3> HIDE DEF d, e
    <3>4. proc' \in [Pids -> CGIChild] /\ ctx' \in [Requests -> CGIContext]
      BY <1>1, <3>1, <3>2, <3>3
    <3>5. \A q \in Requests : ctx'[q].pid = IF q = r THEN p ELSE ctx[q].pid
      BY <1>1, <3>2, <3>3
    <3>6. ASSUME NEW x \in Pids PROVE Known(x)'
      <4>1. Known(x) BY DEF CGIInv
      <4>2. CASE x = p BY <1>1, <2>2, <3>1, <3>3, <3>5, <4>2 DEF Known
      <4>3. CASE x # p
        <5>1. proc'[x] = proc[x] BY <1>1, <3>3, <4>3
        <5>2. \A q \in Requests : ctx'[q].pid = x <=> ctx[q].pid = x
          BY <1>2, <1>3, <3>5, <4>3
        <5> QED BY <1>1, <4>1, <5>1, <5>2 DEF Known
      <4> QED BY <4>2, <4>3
    <3>7. fds' = (IF ctx[r].fd THEN fds - 1 ELSE fds) + (IF e.fd THEN 1 ELSE 0)
      BY <1>3, <2>3, <2>4, <2>6, <3>2
    <3>8. C!DescriptorsKept' BY <3>2, <3>3, <3>7, PipesCounted
    <3>9. \A q \in Requests : /\ con'[q].phase = "free" => ~ctx'[q].fd
                              /\ ~ctx'[q].fd => ctx'[q].pid = C!NoPid
      BY <1>1, <1>6, <1>7, <3>2, <3>3 DEF CGIInv
    <3> QED BY <1>1, <1>6, <3>4, <3>6, <3>8, <3>9 DEF CGIInv, CGITypes
  <2> QED BY <2>5, <2>6
<1> QED BY <1>8, <1>9

LEMMA AfterText == ASSUME NEW s \in Text, C!Has(s, "blank") PROVE C!After(s, "blank") \in Text
<1> DEFINE j == CHOOSE k \in DOMAIN s : s[k] = "blank"
<1>1. j \in 1..Len(s) BY DEF C!Has, Text
<1> HIDE DEF j
<1>2. SubSeq(s, j + 1, Len(s)) \in Text BY <1>1 DEF Text
<1> QED BY <1>2 DEF C!After, j

LEMMA SplitText ==
    ASSUME NEW s \in Text
    PROVE  C!Split(s).body \in Text /\ C!Split(s).started \in BOOLEAN
<1>1. <<>> \in Text BY DEF Text
<1>2. CASE C!Has(s, "header") /\ C!Has(s, "blank") BY <1>2, AfterText DEF C!Split
<1>3. CASE ~C!Has(s, "header") /\ C!Has(s, "line") BY <1>3 DEF C!Split
<1>4. CASE /\ ~(C!Has(s, "header") /\ C!Has(s, "blank"))
           /\ ~(~C!Has(s, "header") /\ C!Has(s, "line"))
  BY <1>1, <1>4 DEF C!Split
<1> QED BY <1>2, <1>3, <1>4

\* Events of the pipe.
LEMMA CGIEvent ==
    ASSUME C!CGIAssumption, CGIInv, NEW r \in Requests, C!cgi_handle_fdevent(r)
    PROVE  CGIInv'
<1> DEFINE c == con[r]
           header == ctx[r].response_header \o ctx[r].unread
           s == C!Split(header)
           d == IF c.file_started THEN [c EXCEPT !.sent = @ \o ctx[r].unread]
                ELSE IF s.started THEN [c EXCEPT !.file_started = TRUE, !.sent = s.body]
                ELSE c
           late == ~con[r].file_started /\ ctx[r].response_header # <<>>
           over == [con[r] EXCEPT !.file_started = @ \/ late, !.file_finished = TRUE,
                                  !.joblist = TRUE,
                                  !.sent = IF late THEN ctx[r].response_header ELSE @]
<1>1. /\ con \in [Requests -> CGIConnection] /\ ctx \in [Requests -> CGIContext] /\ ctx[r].fd
      /\ proc \in [Pids -> CGIChild] /\ cgi_pid \subseteq Pids
  BY DEF CGIInv, CGITypes, C!cgi_handle_fdevent
<1>2. /\ ctx[r].response_header \in Text /\ ctx[r].unread \in Text /\ c \in CGIConnection
      /\ c.sent \in Text /\ c.file_started \in BOOLEAN
  BY <1>1 DEF CGIContext, CGIConnection
<1>3. header \in Text BY <1>2 DEF Text
<1>4. s.body \in Text BY <1>3, SplitText
<1>5. d \in CGIConnection /\ d.phase = c.phase
  <2>1. [c EXCEPT !.sent = @ \o ctx[r].unread] \in CGIConnection
    <3> DEFINE x == c.sent \o ctx[r].unread
    <3>1. x \in Text BY <1>2 DEF Text
    <3>2. c \in CGIConnection BY <1>2
    <3> HIDE DEF x, c
    <3>3. [c EXCEPT !.sent = x] \in CGIConnection BY ONLY <3>1, <3>2 DEF CGIConnection
    <3> QED BY <3>3 DEF x
  <2>2. [c EXCEPT !.file_started = TRUE, !.sent = s.body] \in CGIConnection
    <3> DEFINE a == [c EXCEPT !.file_started = TRUE]
    <3>1. [c EXCEPT !.file_started = TRUE, !.sent = s.body] = [a EXCEPT !.sent = s.body] OBVIOUS
    <3>2. c \in CGIConnection BY <1>2
    <3> HIDE DEF c, s
    <3>3. a \in CGIConnection BY ONLY ZenonT(60), <3>2 DEF CGIConnection
    <3> HIDE DEF a
    <3>4. [a EXCEPT !.sent = s.body] \in CGIConnection BY ONLY <1>4, <3>3 DEF CGIConnection
    <3> QED BY ONLY <3>1, <3>4
  <2>3. /\ [c EXCEPT !.sent = @ \o ctx[r].unread].phase = c.phase
        /\ [c EXCEPT !.file_started = TRUE, !.sent = s.body].phase = c.phase
    BY <1>2 DEF CGIConnection
  <2> QED BY <1>2, <2>1, <2>2, <2>3
<1>6. CASE /\ con' = [con EXCEPT ![r] = [d EXCEPT !.joblist = TRUE]]
           /\ ctx' = [ctx EXCEPT ![r].unread = <<>>, ![r].response_header =
                         IF c.file_started THEN @ ELSE header]
           /\ UNCHANGED <<proc, cgi_pid, fds>>
  <2> HIDE DEF d, header
  <2>1. [d EXCEPT !.joblist = TRUE] \in CGIConnection BY <1>5, CGIConnections
  <2>2. [d EXCEPT !.joblist = TRUE].phase = c.phase BY <1>5 DEF CGIConnection
  <2>3. PICK h \in Text : ctx' = [ctx EXCEPT ![r] =
                                     [[ctx[r] EXCEPT !.unread = <<>>] EXCEPT !.response_header = h]]
    <3>1. CASE c.file_started BY <1>1, <1>2, <1>6, <3>1
    <3>2. CASE ~c.file_started BY <1>1, <1>3, <1>6, <3>2
    <3> QED BY <3>1, <3>2
  <2>4. [ctx[r] EXCEPT !.unread = <<>>] \in CGIContext
    <3>1. <<>> \in Text BY DEF Text
    <3> QED BY <1>1, <3>1 DEF CGIContext
  <2>5. \A e \in CGIContext : [e EXCEPT !.response_header = h] \in CGIContext
                              /\ [e EXCEPT !.response_header = h].fd = e.fd
                              /\ [e EXCEPT !.response_header = h].pid = e.pid
    BY <2>3 DEF CGIContext
  <2>6. [ctx[r] EXCEPT !.unread = <<>>].fd = ctx[r].fd
        /\ [ctx[r] EXCEPT !.unread = <<>>].pid = ctx[r].pid
    BY <1>1 DEF CGIContext
  <2>7. ctx' \in [Requests -> CGIContext] BY <1>1, <2>3, <2>4, <2>5
  <2>8. \A q \in Requests : ctx'[q].fd = ctx[q].fd /\ ctx'[q].pid = ctx[q].pid
    BY <1>1, <2>3, <2>4, <2>5, <2>6
  <2>9. con' \in [Requests -> CGIConnection] /\ \A q \in Requests : con'[q].phase = con[q].phase
    BY <1>1, <1>6, <2>1, <2>2
  <2> QED BY <1>1, <1>6, <2>7, <2>8, <2>9, CGIQuiet DEF CGITypes
<1>7. CASE C!cgi_connection_close(r, [d EXCEPT !.file_finished = TRUE, !.joblist = TRUE])
  <2> HIDE DEF d
  <2>1. [d EXCEPT !.file_finished = TRUE] \in CGIConnection BY <1>5, CGIConnections
  <2>2. [d EXCEPT !.file_finished = TRUE, !.joblist = TRUE] \in CGIConnection
    BY <2>1, CGIConnections
  <2> QED BY <1>1, <1>7, <2>2, CGICloses
<1>8. CASE C!cgi_connection_close(r, over)
  <2> DEFINE a == [c EXCEPT !.file_started = c.file_started \/ late]
             b == [a EXCEPT !.file_finished = TRUE]
             e == [b EXCEPT !.joblist = TRUE]
             x == IF late THEN ctx[r].response_header ELSE c.sent
  <2>1. a \in CGIConnection
    <3>1. \A y \in BOOLEAN : [c EXCEPT !.file_started = y] \in CGIConnection
      BY ZenonT(60), <1>2, CGIConnections
    <3>2. (c.file_started \/ late) \in BOOLEAN OBVIOUS
    <3> QED BY <1>2, <3>1
  <2>2. b \in CGIConnection BY ZenonT(60), <2>1, CGIConnections
  <2>3. e \in CGIConnection BY ZenonT(60), <2>2, CGIConnections
  <2>4. x \in Text BY <1>2
  <2>5. over = [e EXCEPT !.sent = x] OBVIOUS
  <2> HIDE DEF over, e, x
  <2>6. over \in CGIConnection BY <2>3, <2>4, <2>5 DEF CGIConnection
  <2> QED BY <1>1, <1>8, <2>6, CGICloses
<1> QED BY <1>6, <1>7, <1>8 DEF C!cgi_handle_fdevent, C!cgi_demux_response, C!HangUp

\* The state machine answers with what there is.
LEMMA RespondTypes ==
    ASSUME NEW c \in CGIConnection, NEW x \in {0, 500}
    PROVE  C!Respond(c, x) \in CGIConnection /\ C!Respond(c, x).phase = "write"
<1> DEFINE a == [c EXCEPT !.phase = "write"]
           y == IF x # 0 THEN x ELSE IF c.status = 0 THEN 200 ELSE c.status
           b == [a EXCEPT !.status = y]
           z == c.file_finished \/ x # 0 \/ c.mode = "direct"
<1>1. a \in CGIConnection BY ZenonT(60), CGIConnections DEF CGIPhases
<1>2. y \in {0, 200, 500} BY DEF CGIConnection
<1>3. b \in CGIConnection
  <2>1. \A v \in {0, 200, 500} : [a EXCEPT !.status = v] \in CGIConnection
    BY ZenonT(60), <1>1, CGIConnections
  <2> HIDE DEF y, a
  <2> QED BY <1>2, <2>1
<1>4. z \in BOOLEAN OBVIOUS
<1>5. C!Respond(c, x) = [b EXCEPT !.file_finished = z] BY DEF C!Respond, CGIConnection
<1>6. C!Respond(c, x).phase = "write" BY DEF C!Respond, CGIConnection
<1> HIDE DEF b, z
<1>7. \A v \in BOOLEAN : [b EXCEPT !.file_finished = v] \in CGIConnection
  BY ZenonT(60), <1>3, CGIConnections
<1> QED BY <1>4, <1>5, <1>6, <1>7

\* A child that the state machine has waited for is known to nobody.
LEMMA CGIReaps ==
    ASSUME C!CGIAssumption, CGIInv, NEW r \in Requests, NEW d \in CGIContext,
           ctx[r].fd, ctx[r].pid # C!NoPid, d.pid = C!NoPid,
           proc' = C!Reaped(ctx[r].pid), cgi_pid' = cgi_pid, ctx' = [ctx EXCEPT ![r] = d]
    PROVE  /\ proc' \in [Pids -> CGIChild] /\ ctx' \in [Requests -> CGIContext]
           /\ \A x \in Pids : Known(x)'
<1> DEFINE p == ctx[r].pid
<1>1. ctx \in [Requests -> CGIContext] /\ proc \in [Pids -> CGIChild] /\ cgi_pid \subseteq Pids
  BY DEF CGIInv, CGITypes
<1>2. C!NoPid \notin Pids /\ C!NoProc \in CGIChild /\ C!NoProc.state = "none"
  BY CGINothing DEF C!CGIAssumption
<1>3. p \in Pids BY <1>1 DEF CGIContext
<1>4. proc' = [proc EXCEPT ![p] = C!NoProc] BY DEF C!Reaped
<1>5. \A q \in Requests : ctx'[q].pid = IF q = r THEN C!NoPid ELSE ctx[q].pid BY <1>1
<1>6. \A q \in Requests : ctx'[q].pid # p
  <2> SUFFICES ASSUME NEW q \in Requests, ctx'[q].pid = p PROVE FALSE
    OBVIOUS
  <2>1. q # r /\ ctx[q].pid = ctx[r].pid BY <1>5
  <2> QED BY <2>1, OneOwner
<1>7. p \notin cgi_pid BY <1>3 DEF CGIInv, Known
<1>8. ASSUME NEW x \in Pids PROVE Known(x)'
  <2>1. Known(x) BY DEF CGIInv
  <2>2. CASE x = p BY <1>1, <1>2, <1>3, <1>4, <1>6, <1>7, <2>2 DEF Known
  <2>3. CASE x # p
    <3>1. proc'[x] = proc[x] BY <1>1, <1>4, <2>3
    <3>2. \A q \in Requests : ctx'[q].pid = x <=> ctx[q].pid = x BY <1>2, <1>5, <2>3
    <3> QED BY <2>1, <3>1, <3>2 DEF Known
  <2> QED BY <2>2, <2>3
<1> QED BY <1>1, <1>2, <1>3, <1>4, <1>8

LEMMA CGIHandles ==
    ASSUME C!CGIAssumption, CGIInv, NEW r \in Requests, C!mod_cgi_handle_subrequest(r)
    PROVE  CGIInv'
<1> DEFINE p == ctx[r].pid
           c == [con[r] EXCEPT !.joblist = FALSE]
           next == IF c.file_started THEN C!Respond(c, 0) ELSE c
<1>1. /\ con \in [Requests -> CGIConnection] /\ ctx \in [Requests -> CGIContext]
      /\ proc \in [Pids -> CGIChild] /\ cgi_pid \subseteq Pids
  BY DEF CGIInv, CGITypes
<1>2. c \in CGIConnection BY <1>1, CGIConnections
<1>3. c.phase = "handle" /\ cgi_pid' = cgi_pid BY DEF C!mod_cgi_handle_subrequest
<1>9. \/ /\ ~ctx[r].fd /\ con' = [con EXCEPT ![r] = C!Respond(c, 0)]
         /\ UNCHANGED <<ctx, proc, fds>>
      \/ con' = [con EXCEPT ![r] = next] /\ UNCHANGED <<ctx, proc, fds>>
      \/ /\ ctx[r].fd /\ p # C!NoPid /\ proc' = C!Reaped(p)
         /\ \/ /\ ctx' = [ctx EXCEPT ![r] = C!PidGone(@)]
               /\ con' = [con EXCEPT ![r] = next] /\ UNCHANGED fds
            \/ /\ ctx' = [ctx EXCEPT ![r] = C!NoCtx] /\ fds' = fds - 1
               /\ con' = [con EXCEPT ![r] = C!Respond([c EXCEPT !.mode = "direct"], 500)]
  BY DEF C!mod_cgi_handle_subrequest
<1>10. [c EXCEPT !.mode = "direct"] \in CGIConnection BY ZenonT(60), <1>2, CGIConnections
<1> HIDE DEF c
<1>4. next \in CGIConnection /\ next.phase # "free" BY <1>2, <1>3, RespondTypes
<1>5. \A d \in CGIConnection : d.phase # "free" /\ con' = [con EXCEPT ![r] = d] =>
          /\ con' \in [Requests -> CGIConnection] /\ con'[r].phase # "free"
          /\ \A q \in Requests \ {r} : con'[q] = con[q]
  BY <1>1
<1> HIDE DEF next
<1>6. C!Respond(c, 0) \in CGIConnection /\ C!Respond(c, 0).phase # "free" BY <1>2, RespondTypes
<1>7. C!Respond([c EXCEPT !.mode = "direct"], 500) \in CGIConnection
      /\ C!Respond([c EXCEPT !.mode = "direct"], 500).phase # "free"
  BY <1>10, RespondTypes
<1>8. fds \in Nat
  <2>1. IsFiniteSet(Requests) BY SameCardinality DEF C!CGIAssumption
  <2>2. Cardinality({q \in Requests : ctx[q].fd}) \in Nat BY <2>1, FS_Subset, FS_CardinalityType
  <2> QED BY <2>2, SameCardinality DEF CGIInv, C!DescriptorsKept
<1>11. /\ con' \in [Requests -> CGIConnection] /\ con'[r].phase # "free"
       /\ \A q \in Requests \ {r} : con'[q] = con[q]
  BY <1>4, <1>5, <1>6, <1>7, <1>9
<1>12. CASE UNCHANGED <<ctx, proc, fds>>
  BY <1>1, <1>3, <1>11, <1>12, CGIQuiet DEF CGITypes
<1>13. CASE /\ ctx[r].fd /\ p # C!NoPid /\ proc' = C!Reaped(p) /\ UNCHANGED fds
            /\ ctx' = [ctx EXCEPT ![r] = C!PidGone(@)]
  <2> DEFINE d == C!PidGone(ctx[r])
  <2>1. d \in CGIContext /\ d.pid = C!NoPid /\ d.fd = ctx[r].fd BY <1>1 DEF C!PidGone, CGIContext
  <2>2. ctx' = [ctx EXCEPT ![r] = d] BY <1>1, <1>13
  <2> HIDE DEF d
  <2>3. /\ proc' \in [Pids -> CGIChild] /\ ctx' \in [Requests -> CGIContext]
        /\ \A x \in Pids : Known(x)'
    BY <1>3, <1>13, <2>1, <2>2, CGIReaps
  <2>4. fds' = (IF ctx[r].fd THEN fds - 1 ELSE fds) + (IF d.fd THEN 1 ELSE 0)
    BY <1>8, <1>13, <2>1
  <2>5. C!DescriptorsKept' BY <2>1, <2>2, <2>4, PipesCounted
  <2>6. \A q \in Requests : /\ con'[q].phase = "free" => ~ctx'[q].fd
                            /\ ~ctx'[q].fd => ctx'[q].pid = C!NoPid
    BY <1>1, <1>11, <2>1, <2>2 DEF CGIInv
  <2> QED BY <1>1, <1>3, <1>11, <2>3, <2>5, <2>6 DEF CGIInv, CGITypes
<1>14. CASE /\ ctx[r].fd /\ p # C!NoPid /\ proc' = C!Reaped(p) /\ fds' = fds - 1
            /\ ctx' = [ctx EXCEPT ![r] = C!NoCtx]
  <2>1. C!NoCtx \in CGIContext /\ C!NoCtx.pid = C!NoPid /\ ~C!NoCtx.fd BY CGINothing
  <2>3. /\ proc' \in [Pids -> CGIChild] /\ ctx' \in [Requests -> CGIContext]
        /\ \A x \in Pids : Known(x)'
    BY <1>3, <1>14, <2>1, CGIReaps
  <2>4. fds' = (IF ctx[r].fd THEN fds - 1 ELSE fds) + (IF C!NoCtx.fd THEN 1 ELSE 0)
    BY <1>8, <1>14, <2>1
  <2>5. C!DescriptorsKept' BY <1>14, <2>1, <2>4, PipesCounted
  <2>6. \A q \in Requests : /\ con'[q].phase = "free" => ~ctx'[q].fd
                            /\ ~ctx'[q].fd => ctx'[q].pid = C!NoPid
    BY <1>1, <1>11, <1>14, <2>1 DEF CGIInv
  <2> QED BY <1>1, <1>3, <1>11, <2>3, <2>5, <2>6 DEF CGIInv, CGITypes
<1> QED BY <1>9, <1>12, <1>13, <1>14

\* The request ends, or its client goes away.
LEMMA CGIEndsOrGoes ==
    ASSUME C!CGIAssumption, CGIInv, NEW r \in Requests,
           C!Write(r) \/ C!cgi_connection_close_callback(r)
    PROVE  CGIInv'
<1>1. /\ con \in [Requests -> CGIConnection] /\ ctx \in [Requests -> CGIContext]
      /\ proc \in [Pids -> CGIChild] /\ cgi_pid \subseteq Pids
  BY DEF CGIInv, CGITypes
<1>2. CASE ctx[r].fd /\ C!cgi_connection_close(r, C!Free) BY <1>2, CGINothing, CGICloses
<1>3. CASE ~ctx[r].fd /\ con' = [con EXCEPT ![r] = C!Free] /\ UNCHANGED <<ctx, proc, cgi_pid, fds>>
  <2>1. con' \in [Requests -> CGIConnection] BY <1>1, <1>3, CGINothing
  <2>2. \A q \in Requests : con'[q].phase = "free" => con[q].phase = "free" \/ ~ctx[q].fd
    BY <1>1, <1>3
  <2> QED BY <1>1, <1>3, <2>1, <2>2, CGIQuiet DEF CGITypes
<1>4. CASE con' = [con EXCEPT ![r].joblist = FALSE] /\ UNCHANGED <<ctx, proc, cgi_pid, fds>>
  <2>1. [con[r] EXCEPT !.joblist = FALSE] \in CGIConnection BY <1>1, CGIConnections
  <2>2. [con[r] EXCEPT !.joblist = FALSE].phase = con[r].phase BY <1>1 DEF CGIConnection
  <2>3. con' = [con EXCEPT ![r] = [con[r] EXCEPT !.joblist = FALSE]] BY <1>1, <1>4
  <2>4. con' \in [Requests -> CGIConnection] /\ \A q \in Requests : con'[q].phase = con[q].phase
    BY <1>1, <2>1, <2>2, <2>3
  <2> QED BY <1>1, <1>4, <2>4, CGIQuiet DEF CGITypes
<1> QED BY <1>2, <1>3, <1>4 DEF C!Write, C!cgi_connection_close_callback

\* Each second the children of cgi_pid that are over are waited for.
LEMMA CGITrigger ==
    ASSUME C!CGIAssumption, CGIInv, C!cgi_trigger
    PROVE  CGIInv'
<1> DEFINE gone == {p \in cgi_pid : C!Over(p)}
<1>1. /\ con \in [Requests -> CGIConnection] /\ ctx \in [Requests -> CGIContext]
      /\ proc \in [Pids -> CGIChild] /\ cgi_pid \subseteq Pids
  BY DEF CGIInv, CGITypes
<1>2. /\ cgi_pid' = cgi_pid \ gone /\ UNCHANGED <<con, ctx, fds>>
      /\ proc' = [p \in Pids |-> IF p \in gone THEN C!NoProc ELSE proc[p]]
  BY DEF C!cgi_trigger
<1>3. C!NoProc \in CGIChild /\ C!NoProc.state = "none" BY CGINothing
<1>4. proc' \in [Pids -> CGIChild] BY <1>1, <1>2, <1>3
<1>5. ASSUME NEW p \in Pids PROVE Known(p)'
  <2>1. Known(p) BY DEF CGIInv
  <2>2. CASE p \in gone BY <1>2, <1>3, <2>1, <2>2 DEF Known
  <2>3. CASE p \notin gone BY <1>2, <2>1, <2>3 DEF Known
  <2> QED BY <2>2, <2>3
<1>6. C!DescriptorsKept' BY <1>2 DEF CGIInv, C!DescriptorsKept
<1> QED BY <1>1, <1>2, <1>4, <1>5, <1>6 DEF CGIInv, CGITypes

\* A script writes, closes its output, or ends.
LEMMA CGIScript ==
    ASSUME C!CGIAssumption, CGIInv, NEW p \in Pids, C!Script(p)
    PROVE  CGIInv'
<1> DEFINE r == proc[p].owner
<1>1. /\ con \in [Requests -> CGIConnection] /\ ctx \in [Requests -> CGIContext]
      /\ proc \in [Pids -> CGIChild] /\ cgi_pid \subseteq Pids /\ proc[p] \in CGIChild
      /\ UNCHANGED <<cgi_pid, fds>> /\ proc[p].state # "none"
  BY DEF CGIInv, CGITypes, C!Script
<1>2. ASSUME NEW d \in CGIChild, d.owner = r, d.state # "none", proc' = [proc EXCEPT ![p] = d],
             ctx' \in [Requests -> CGIContext],
             \A q \in Requests : ctx'[q].fd = ctx[q].fd /\ ctx'[q].pid = ctx[q].pid,
             con' \in [Requests -> CGIConnection],
             \A q \in Requests : con'[q].phase = con[q].phase
      PROVE  CGIInv'
  <2>1. proc' \in [Pids -> CGIChild] BY <1>1, <1>2
  <2>2. \A q \in Pids : /\ proc'[q].owner = proc[q].owner
                        /\ (proc'[q].state = "none") = (proc[q].state = "none")
    BY <1>1, <1>2
  <2> QED BY <1>1, <1>2, <2>1, <2>2, CGIQuiet DEF CGITypes
<1>3. /\ C!Closed(p) \in [Requests -> CGIContext]
      /\ \A q \in Requests : C!Closed(p)[q].fd = ctx[q].fd /\ C!Closed(p)[q].pid = ctx[q].pid
  <2>1. ASSUME NEW q \in Requests
        PROVE  /\ [ctx[q] EXCEPT !.writer = FALSE] \in CGIContext
               /\ [ctx[q] EXCEPT !.writer = FALSE].fd = ctx[q].fd
               /\ [ctx[q] EXCEPT !.writer = FALSE].pid = ctx[q].pid
    BY <1>1 DEF CGIContext
  <2>2. \/ C!Closed(p) = ctx
        \/ C!Closed(p) = [ctx EXCEPT ![r] = [ctx[r] EXCEPT !.writer = FALSE]]
    <3>1. C!Closed(p) = IF proc[p].stdout THEN [ctx EXCEPT ![r].writer = FALSE] ELSE ctx
      BY DEF C!Closed
    <3> QED BY <1>1, <3>1
  <2>3. \/ C!Closed(p) = ctx
        \/ r \in Requests /\ C!Closed(p) = [ctx EXCEPT ![r] = [ctx[r] EXCEPT !.writer = FALSE]]
    BY <1>1, <2>2
  <2> QED BY <1>1, <2>1, <2>3
<1>4. CASE /\ proc[p].stdout /\ proc[p].todo # <<>>
           /\ ctx' = [ctx EXCEPT ![r].unread = Append(@, Head(proc[p].todo))]
           /\ con' = [con EXCEPT ![r].wrote = Append(@, Head(proc[p].todo))]
           /\ proc' = [proc EXCEPT ![p].todo = Tail(@)]
  <2> DEFINE x == Head(proc[p].todo)
             d == [proc[p] EXCEPT !.todo = Tail(@)]
  <2>1. proc[p].todo \in Text BY <1>1 DEF CGIChild
  <2>2. x \in {"header", "blank", "body", "text", "line"} /\ Tail(proc[p].todo) \in Text
    BY <1>4, <2>1 DEF Text
  <2>3. d \in CGIChild /\ d.owner = r /\ d.state = proc[p].state
    BY <1>1, <2>2 DEF CGIChild
  <2>4. proc' = [proc EXCEPT ![p] = d] BY <1>1, <1>4
  <2> HIDE DEF x, d
  <2>5. ASSUME NEW q \in Requests
        PROVE  /\ [ctx[q] EXCEPT !.unread = Append(@, x)] \in CGIContext
               /\ [ctx[q] EXCEPT !.unread = Append(@, x)].fd = ctx[q].fd
               /\ [ctx[q] EXCEPT !.unread = Append(@, x)].pid = ctx[q].pid
    <3>1. ctx[q].unread \in Text BY <1>1 DEF CGIContext
    <3>2. Append(ctx[q].unread, x) \in Text BY <2>2, <3>1 DEF Text
    <3> QED BY <1>1, <3>2 DEF CGIContext
  <2>6. ASSUME NEW q \in Requests
        PROVE  /\ [con[q] EXCEPT !.wrote = Append(@, x)] \in CGIConnection
               /\ [con[q] EXCEPT !.wrote = Append(@, x)].phase = con[q].phase
    <3>1. con[q].wrote \in Text BY <1>1 DEF CGIConnection
    <3>2. Append(con[q].wrote, x) \in Text BY <2>2, <3>1 DEF Text
    <3>3. [con[q] EXCEPT !.wrote = Append(@, x)] \in CGIConnection BY ZenonT(60), <1>1, <3>2, CGIConnections
    <3> QED BY <1>1, <3>3 DEF CGIConnection
  <2>7. \A q \in Requests :
            /\ ctx'[q] = ctx[q] \/ ctx'[q] = [ctx[q] EXCEPT !.unread = Append(@, x)]
            /\ con'[q] = con[q] \/ con'[q] = [con[q] EXCEPT !.wrote = Append(@, x)]
    BY <1>1, <1>4 DEF x
  <2>8. ctx' \in [Requests -> CGIContext]
    <3>1. \A q \in Requests : ctx'[q] \in CGIContext BY <1>1, <2>5, <2>7
    <3>2. ctx' = [q \in Requests |-> ctx'[q]] BY <1>1, <1>4
    <3> QED BY <3>1, <3>2
  <2>9. con' \in [Requests -> CGIConnection]
    <3>1. \A q \in Requests : con'[q] \in CGIConnection BY <1>1, <2>6, <2>7
    <3>2. con' = [q \in Requests |-> con'[q]] BY <1>1, <1>4
    <3> QED BY <3>1, <3>2
  <2>10. \A q \in Requests : /\ ctx'[q].fd = ctx[q].fd /\ ctx'[q].pid = ctx[q].pid
                             /\ con'[q].phase = con[q].phase
    BY <2>5, <2>6, <2>7
  <2> QED BY <1>1, <1>2, <2>3, <2>4, <2>8, <2>9, <2>10
<1>5. CASE ctx' = C!Closed(p) /\ UNCHANGED con /\ proc' = [proc EXCEPT ![p].stdout = FALSE]
  <2> DEFINE d == [proc[p] EXCEPT !.stdout = FALSE]
  <2>1. d \in CGIChild /\ d.owner = r /\ d.state = proc[p].state BY <1>1 DEF CGIChild
  <2>2. proc' = [proc EXCEPT ![p] = d] BY <1>1, <1>5
  <2> QED BY <1>1, <1>2, <1>3, <1>5, <2>1, <2>2
<1>6. CASE /\ ctx' = C!Closed(p) /\ UNCHANGED con
           /\ \E how \in {"exited", "killed"} :
                 proc' = [proc EXCEPT ![p].state = how, ![p].stdout = FALSE]
  <2> PICK how \in {"exited", "killed"} :
                 proc' = [proc EXCEPT ![p].state = how, ![p].stdout = FALSE]
    BY <1>6
  <2> DEFINE d == [proc[p] EXCEPT !.state = how]
             e == [d EXCEPT !.stdout = FALSE]
  <2>1. d \in CGIChild /\ d.owner = r /\ d.state = how BY <1>1 DEF CGIChild
  <2>2. proc' = [proc EXCEPT ![p] = e] BY <1>1
  <2> HIDE DEF d
  <2>3. e \in CGIChild /\ e.owner = r /\ e.state = how BY <2>1 DEF CGIChild
  <2> HIDE DEF e
  <2> QED BY <1>1, <1>2, <1>3, <1>6, <2>2, <2>3
<1> QED BY <1>4, <1>5, <1>6 DEF C!Script

LEMMA CGIInvariant == ASSUME C!CGIAssumption PROVE C!Spec => []CGIInv
<1>1. C!Init => CGIInv
  <2> SUFFICES ASSUME C!Init PROVE CGIInv
    OBVIOUS
  <2>1. CGITypes BY CGINothing DEF C!Init, CGITypes
  <2>2. {q \in Requests : ctx[q].fd} = {} BY CGINothing DEF C!Init
  <2>3. C!DescriptorsKept BY <2>2, SameCardinality, FS_EmptySet DEF C!Init, C!DescriptorsKept
  <2>4. C!NoPid \notin Pids BY DEF C!CGIAssumption
  <2>5. ASSUME NEW p \in Pids PROVE Known(p)
    BY <2>4, CGINothing DEF C!Init, Known
  <2> QED BY <2>1, <2>3, <2>5, CGINothing DEF C!Init, CGIInv
<1>2. CGIInv /\ [C!Next]_(C!vars) => CGIInv'
  <2> SUFFICES ASSUME CGIInv, [C!Next]_(C!vars) PROVE CGIInv'
    OBVIOUS
  <2>1. CASE UNCHANGED C!vars
    BY <2>1 DEF C!vars, CGIInv, CGITypes, C!DescriptorsKept, Known
  <2> QED BY <2>1, CGIStarts, CGIEndsOrGoes, CGIEvent, CGIHandles, CGIScript, CGITrigger DEF C!Next
<1> QED BY <1>1, <1>2, PTL DEF C!Spec

(***************************************************************************)
(* However often a number is used again, kill() and waitpid() are only     *)
(* used on the own child, and no zombie is forgotten.                      *)
(***************************************************************************)
THEOREM CGIChildrenKnown == ASSUME C!CGIAssumption PROVE C!Spec => []C!ChildrenKnown
<1>1. CGIInv => C!ChildrenKnown
  <2> SUFFICES ASSUME CGIInv, NEW p \in Pids
               PROVE
        LET owners == {r \in Requests : ctx[r].pid = p} IN
        /\ \A r \in owners : proc[p].state # "none" /\ proc[p].owner = r
        /\ p \in cgi_pid => proc[p].state # "none" /\ owners = {}
        /\ proc[p].state # "none" /\ proc[p].owner # C!NoPid => owners # {} \/ p \in cgi_pid
    BY DEF C!ChildrenKnown
  <2>1. Known(p) BY DEF CGIInv
  <2> QED BY <2>1 DEF Known
<1> QED BY <1>1, CGIInvariant, PTL

(***************************************************************************)
(* The pipes that are open are those of the requests that read from them.  *)
(***************************************************************************)
THEOREM CGIDescriptorsKept == ASSUME C!CGIAssumption PROVE C!Spec => []C!DescriptorsKept
<1>1. CGIInv => C!DescriptorsKept BY DEF CGIInv
<1> QED BY <1>1, CGIInvariant, PTL

(***************************************************************************)
(* The variables of mod_cgi keep their types; there are never more pipes   *)
(* than requests.                                                          *)
(***************************************************************************)
THEOREM CGITypeOK == ASSUME C!CGIAssumption PROVE C!Spec => []C!TypeOK
<1>1. CGIInv => C!TypeOK
  <2> SUFFICES ASSUME CGIInv PROVE C!TypeOK
    OBVIOUS
  <2>1. con \in [Requests -> CGIConnection] /\ ctx \in [Requests -> CGIContext]
        /\ proc \in [Pids -> CGIChild] /\ cgi_pid \subseteq Pids
    BY DEF CGIInv, CGITypes
  <2>2. ASSUME NEW r \in Requests
        PROVE  con[r].phase \in {"free", "handle", "write"} /\ ctx[r].pid \in Pids \cup {C!NoPid}
    BY <2>1 DEF CGIConnection, CGIContext, CGIPhases
  <2>3. ASSUME NEW p \in Pids
        PROVE  proc[p].state \in {"none", "alive", "told", "exited", "killed"}
    BY <2>1 DEF CGIChild
  <2>4. fds \in 0..C!Cardinality(Requests)
    <3> DEFINE open == {r \in Requests : ctx[r].fd}
    <3>1. fds = Cardinality(open) BY SameCardinality DEF CGIInv, C!DescriptorsKept
    <3>2. IsFiniteSet(Requests) BY SameCardinality DEF C!CGIAssumption
    <3>3. open \subseteq Requests OBVIOUS
    <3> HIDE DEF open
    <3>4. Cardinality(open) \in Nat /\ Cardinality(Requests) \in Nat
          /\ Cardinality(open) <= Cardinality(Requests)
      BY <3>2, <3>3, FS_Subset, FS_CardinalityType
    <3>5. C!Cardinality(Requests) = Cardinality(Requests) BY SameCardinality
    <3> QED BY <3>1, <3>4, <3>5
  <2> QED BY <2>1, <2>2, <2>3, <2>4 DEF C!TypeOK
<1> QED BY <1>1, CGIInvariant, PTL

-----------------------------------------------------------------------------
(***************************************************************************)
(* mod_fastcgi.  A process that is not ours has no child, one that is DIED *)
(* has none left; no process ever has two.                                 *)
(***************************************************************************)
FcgiProcs == {q \in [state : {"RUNNING", "OVERLOADED", "DIED_WAIT_FOR_PID", "DIED"},
                     load : Int, is_local : BOOLEAN, child : {"none", "alive", "zombie"}] :
    q.state = "DIED" \/ ~q.is_local => q.child = "none"}

FcgiHost(h) == [load : Int, active_procs : Int, procs : [F!Procs(h) -> FcgiProcs]]
FcgiHosts == {hs \in [F!Hosts -> UNION {FcgiHost(h) : h \in F!Hosts}] :
    \A h \in F!Hosts : hs[h] \in FcgiHost(h)}

HostLoad(hs, h) == hs[h].load
ProcLoad(hs, h, p) == hs[h].procs[p].load
SameLoads(hs, n) == \A h \in F!Hosts :
    HostLoad(n, h) = HostLoad(hs, h) /\ \A p \in F!Procs(h) : ProcLoad(n, h, p) = ProcLoad(hs, h, p)

WithHost(hs, h, l, a) == [hs EXCEPT ![h].load = l, ![h].active_procs = a]
WithProc(hs, h, p, q) == [hs EXCEPT ![h].procs[p] = q]

\* The hosts are hosts still when one of them, or one process, is another.
LEMMA FcgiReads ==
    ASSUME NEW hs \in FcgiHosts, NEW h \in F!Hosts
    PROVE  /\ hs \in [F!Hosts -> UNION {FcgiHost(g) : g \in F!Hosts}]
           /\ hs[h] \in FcgiHost(h)
           /\ hs[h].load \in Int /\ hs[h].active_procs \in Int
           /\ hs[h].procs \in [F!Procs(h) -> FcgiProcs]
           /\ \A p \in F!Procs(h) : /\ hs[h].procs[p] \in FcgiProcs
                                    /\ hs[h].procs[p].load \in Int
<1>1. hs \in [F!Hosts -> UNION {FcgiHost(g) : g \in F!Hosts}] /\ hs[h] \in FcgiHost(h) BY DEF FcgiHosts
<1>2. hs[h].load \in Int /\ hs[h].active_procs \in Int
      /\ hs[h].procs \in [F!Procs(h) -> FcgiProcs]
  BY <1>1 DEF FcgiHost
<1>3. \A p \in F!Procs(h) : hs[h].procs[p] \in FcgiProcs BY <1>2
<1>4. \A q \in FcgiProcs : q.load \in Int BY DEF FcgiProcs
<1> QED BY <1>1, <1>2, <1>3, <1>4

LEMMA FcgiPut ==
    ASSUME NEW hs \in FcgiHosts, NEW h \in F!Hosts, NEW x \in FcgiHost(h)
    PROVE  [hs EXCEPT ![h] = x] \in FcgiHosts
<1>1. hs \in [F!Hosts -> UNION {FcgiHost(g) : g \in F!Hosts}] BY FcgiReads
<1>2. x \in UNION {FcgiHost(g) : g \in F!Hosts} OBVIOUS
<1>3. [hs EXCEPT ![h] = x] \in [F!Hosts -> UNION {FcgiHost(g) : g \in F!Hosts}] BY <1>1, <1>2
<1>4. \A g \in F!Hosts : [hs EXCEPT ![h] = x][g] = IF g = h THEN x ELSE hs[g] BY <1>1
<1>5. \A g \in F!Hosts : [hs EXCEPT ![h] = x][g] \in FcgiHost(g) BY <1>4, FcgiReads
<1> QED BY <1>3, <1>5 DEF FcgiHosts

LEMMA FcgiWithHost ==
    ASSUME NEW hs \in FcgiHosts, NEW h \in F!Hosts, NEW l \in Int, NEW a \in Int
    PROVE  /\ WithHost(hs, h, l, a) \in FcgiHosts
           /\ \A g \in F!Hosts :
                 /\ HostLoad(WithHost(hs, h, l, a), g) = IF g = h THEN l ELSE HostLoad(hs, g)
                 /\ WithHost(hs, h, l, a)[g].procs = hs[g].procs
                 /\ WithHost(hs, h, l, a)[g].active_procs = IF g = h THEN a ELSE hs[g].active_procs
<1> DEFINE y == [hs[h] EXCEPT !.load = l]
           x == [y EXCEPT !.active_procs = a]
<1>1. hs \in [F!Hosts -> UNION {FcgiHost(g) : g \in F!Hosts}] BY FcgiReads
<1>2. y \in FcgiHost(h) /\ y.load = l /\ y.procs = hs[h].procs BY FcgiReads DEF FcgiHost
<1> HIDE DEF y
<1>3. x \in FcgiHost(h) /\ x.load = l /\ x.active_procs = a /\ x.procs = hs[h].procs
  BY <1>2 DEF FcgiHost
<1>4. WithHost(hs, h, l, a) = [hs EXCEPT ![h] = x] BY <1>1 DEF WithHost, y
<1> HIDE DEF x
<1>5. \A g \in F!Hosts : WithHost(hs, h, l, a)[g] = IF g = h THEN x ELSE hs[g] BY <1>1, <1>4
<1>6. x \in FcgiHost(h) BY <1>3
<1>7. WithHost(hs, h, l, a) \in FcgiHosts BY <1>4, <1>6, FcgiPut
<1> QED BY <1>3, <1>5, <1>7 DEF HostLoad

LEMMA FcgiWithProc ==
    ASSUME NEW hs \in FcgiHosts, NEW h \in F!Hosts, NEW p \in F!Procs(h), NEW q \in FcgiProcs
    PROVE  /\ WithProc(hs, h, p, q) \in FcgiHosts
           /\ WithProc(hs, h, p, q)[h].procs[p] = q
           /\ \A g \in F!Hosts :
                 /\ HostLoad(WithProc(hs, h, p, q), g) = HostLoad(hs, g)
                 /\ WithProc(hs, h, p, q)[g].active_procs = hs[g].active_procs
                 /\ \A o \in F!Procs(g) : ProcLoad(WithProc(hs, h, p, q), g, o) =
                       IF g = h /\ o = p THEN q.load ELSE ProcLoad(hs, g, o)
<1> DEFINE x == [hs[h] EXCEPT !.procs = [hs[h].procs EXCEPT ![p] = q]]
<1>1. hs \in [F!Hosts -> UNION {FcgiHost(g) : g \in F!Hosts}] BY FcgiReads
<1>2. hs[h].procs \in [F!Procs(h) -> FcgiProcs] BY FcgiReads
<1>3. [hs[h].procs EXCEPT ![p] = q] \in [F!Procs(h) -> FcgiProcs] BY <1>2
<1>4. x \in FcgiHost(h) /\ x.load = hs[h].load /\ x.active_procs = hs[h].active_procs
      /\ x.procs = [hs[h].procs EXCEPT ![p] = q]
  BY <1>3, FcgiReads DEF FcgiHost
<1>5. WithProc(hs, h, p, q) = [hs EXCEPT ![h] = x] BY <1>1 DEF WithProc
<1>6. \A g \in F!Hosts : WithProc(hs, h, p, q)[g] = IF g = h THEN x ELSE hs[g] BY <1>1, <1>5
<1>7. \A o \in F!Procs(h) : x.procs[o] = IF o = p THEN q ELSE hs[h].procs[o] BY <1>2, <1>4
<1> HIDE DEF x
<1>9. x \in FcgiHost(h) BY <1>4
<1>8. WithProc(hs, h, p, q) \in FcgiHosts BY <1>5, <1>9, FcgiPut
<1> QED BY <1>4, <1>6, <1>7, <1>8 DEF HostLoad, ProcLoad

\* What the operators on hosts are in these terms.
LEMMA FcgiOperators ==
    ASSUME NEW hs \in FcgiHosts, NEW h \in F!Hosts
    PROVE  /\ F!fcgi_host_assign(hs, h) = WithHost(hs, h, hs[h].load + 1, hs[h].active_procs)
           /\ F!fcgi_host_reset(hs, h) = WithHost(hs, h, hs[h].load - 1, hs[h].active_procs)
           /\ \A p \in F!Procs(h) : LET q == hs[h].procs[p] IN
                 /\ F!fcgi_proc_load_inc(hs, h, p) = WithProc(hs, h, p, [q EXCEPT !.load = q.load + 1])
                 /\ F!fcgi_proc_load_dec(hs, h, p) = WithProc(hs, h, p, [q EXCEPT !.load = q.load - 1])
                 /\ \A s : F!Stopped(hs, h, p, s) =
                       WithProc(WithHost(hs, h, hs[h].load, IF q.state = "RUNNING" THEN hs[h].active_procs - 1
                                                            ELSE hs[h].active_procs),
                                h, p, [q EXCEPT !.state = s])
                 /\ F!Enabled(hs, h, p) =
                       WithProc(WithHost(hs, h, hs[h].load, hs[h].active_procs + 1),
                                h, p, [q EXCEPT !.state = "RUNNING"])
                 /\ F!Reaped(hs, h, p) =
                       IF q.child = "zombie" THEN WithProc(hs, h, p, [q EXCEPT !.child = "none"]) ELSE hs
<1>1. /\ hs \in [F!Hosts -> UNION {FcgiHost(g) : g \in F!Hosts}] /\ hs[h] \in FcgiHost(h)
      /\ hs[h].procs \in [F!Procs(h) -> FcgiProcs]
  BY FcgiReads
<1>2. DOMAIN hs = F!Hosts /\ DOMAIN hs[h] = {"load", "active_procs", "procs"}
      /\ DOMAIN hs[h].procs = F!Procs(h)
  BY <1>1 DEF FcgiHost
<1>3. [hs[h] EXCEPT !.active_procs = hs[h].active_procs] = hs[h]
      /\ [hs[h] EXCEPT !.load = hs[h].load] = hs[h]
  BY <1>1 DEF FcgiHost
<1>4. F!fcgi_host_assign(hs, h) = WithHost(hs, h, hs[h].load + 1, hs[h].active_procs)
  BY <1>1, <1>2 DEF F!fcgi_host_assign, WithHost, FcgiHost
<1>5. F!fcgi_host_reset(hs, h) = WithHost(hs, h, hs[h].load - 1, hs[h].active_procs)
  BY <1>1, <1>2 DEF F!fcgi_host_reset, WithHost, FcgiHost
<1>6. ASSUME NEW p \in F!Procs(h)
      PROVE  LET q == hs[h].procs[p] IN
             /\ F!fcgi_proc_load_inc(hs, h, p) = WithProc(hs, h, p, [q EXCEPT !.load = q.load + 1])
             /\ F!fcgi_proc_load_dec(hs, h, p) = WithProc(hs, h, p, [q EXCEPT !.load = q.load - 1])
             /\ F!Reaped(hs, h, p) =
                   IF q.child = "zombie" THEN WithProc(hs, h, p, [q EXCEPT !.child = "none"]) ELSE hs
  BY <1>1, <1>2 DEF F!fcgi_proc_load_inc, F!fcgi_proc_load_dec, F!Reaped, F!Proc, WithProc
<1>7. ASSUME NEW p \in F!Procs(h), NEW s, NEW a
      PROVE  [hs EXCEPT ![h].active_procs = a, ![h].procs[p].state = s] =
             WithProc(WithHost(hs, h, hs[h].load, a), h, p, [hs[h].procs[p] EXCEPT !.state = s])
  BY <1>1, <1>2, <1>3 DEF WithProc, WithHost, FcgiHost
<1>8. ASSUME NEW p \in F!Procs(h)
      PROVE  LET q == hs[h].procs[p] IN
             /\ \A s : F!Stopped(hs, h, p, s) =
                   WithProc(WithHost(hs, h, hs[h].load, IF q.state = "RUNNING" THEN hs[h].active_procs - 1
                                                        ELSE hs[h].active_procs),
                            h, p, [q EXCEPT !.state = s])
             /\ F!Enabled(hs, h, p) =
                   WithProc(WithHost(hs, h, hs[h].load, hs[h].active_procs + 1),
                            h, p, [q EXCEPT !.state = "RUNNING"])
  <2>1. ASSUME NEW s PROVE F!Stopped(hs, h, p, s) = [hs EXCEPT
           ![h].active_procs = IF hs[h].procs[p].state = "RUNNING" THEN hs[h].active_procs - 1
                               ELSE hs[h].active_procs, ![h].procs[p].state = s]
    BY <1>1 DEF F!Stopped, F!Proc
  <2>2. F!Enabled(hs, h, p) = [hs EXCEPT ![h].active_procs = hs[h].active_procs + 1,
                                         ![h].procs[p].state = "RUNNING"]
    BY <1>1 DEF F!Enabled
  <2>3. \A s, a : [hs EXCEPT ![h].active_procs = a, ![h].procs[p].state = s] =
             WithProc(WithHost(hs, h, hs[h].load, a), h, p, [hs[h].procs[p] EXCEPT !.state = s])
    BY <1>7
  <2>4. \A s : F!Stopped(hs, h, p, s) =
           WithProc(WithHost(hs, h, hs[h].load, IF hs[h].procs[p].state = "RUNNING"
                                                THEN hs[h].active_procs - 1 ELSE hs[h].active_procs),
                    h, p, [hs[h].procs[p] EXCEPT !.state = s])
    <3> TAKE s
    <3> DEFINE a == IF hs[h].procs[p].state = "RUNNING" THEN hs[h].active_procs - 1
                    ELSE hs[h].active_procs
    <3>1. F!Stopped(hs, h, p, s) = [hs EXCEPT ![h].active_procs = a, ![h].procs[p].state = s] BY <2>1
    <3> HIDE DEF a
    <3>2. F!Stopped(hs, h, p, s) =
             WithProc(WithHost(hs, h, hs[h].load, a), h, p, [hs[h].procs[p] EXCEPT !.state = s])
      BY <2>3, <3>1
    <3> QED BY <3>2 DEF a
  <2>5. F!Enabled(hs, h, p) = WithProc(WithHost(hs, h, hs[h].load, hs[h].active_procs + 1),
                                       h, p, [hs[h].procs[p] EXCEPT !.state = "RUNNING"])
    BY <2>2, <2>3
  <2> QED BY <2>4, <2>5
<1> QED BY <1>4, <1>5, <1>6, <1>8

\* A process is one still when its load, its state or its child changes.
LEMMA FcgiProcUpdates ==
    \A q \in FcgiProcs :
        /\ \A n \in Int : LET o == [q EXCEPT !.load = n] IN o \in FcgiProcs /\ o.load = n
        /\ \A s \in {"RUNNING", "OVERLOADED", "DIED_WAIT_FOR_PID", "DIED"} :
              (s = "DIED" => q.child = "none") =>
              LET o == [q EXCEPT !.state = s] IN
              /\ o \in FcgiProcs /\ o.load = q.load /\ o.state = s
              /\ o.child = q.child /\ o.is_local = q.is_local
        /\ LET o == [q EXCEPT !.child = "none"] IN
              /\ o \in FcgiProcs /\ o.load = q.load /\ o.state = q.state
              /\ o.child = "none" /\ o.is_local = q.is_local
<1> TAKE q \in FcgiProcs
<1>1. \A n \in Int : LET o == [q EXCEPT !.load = n] IN o \in FcgiProcs /\ o.load = n BY DEF FcgiProcs
<1>2. ASSUME NEW s \in {"RUNNING", "OVERLOADED", "DIED_WAIT_FOR_PID", "DIED"},
             s = "DIED" => q.child = "none"
      PROVE  LET o == [q EXCEPT !.state = s] IN
             /\ o \in FcgiProcs /\ o.load = q.load /\ o.state = s
             /\ o.child = q.child /\ o.is_local = q.is_local
  BY <1>2 DEF FcgiProcs
<1>3. LET o == [q EXCEPT !.child = "none"] IN
      /\ o \in FcgiProcs /\ o.load = q.load /\ o.state = q.state
      /\ o.child = "none" /\ o.is_local = q.is_local
  BY DEF FcgiProcs
<1> QED BY <1>1, <1>2, <1>3

\* A process may become another, and its host run more of them or fewer: no load changes.
LEMMA FcgiSame ==
    ASSUME NEW hs \in FcgiHosts, NEW h \in F!Hosts, NEW p \in F!Procs(h), NEW a \in Int,
           NEW q \in FcgiProcs, q.load = hs[h].procs[p].load
    PROVE  /\ LET n == WithProc(WithHost(hs, h, hs[h].load, a), h, p, q)
              IN  n \in FcgiHosts /\ SameLoads(hs, n) /\ n[h].procs[p] = q
           /\ LET n == WithProc(hs, h, p, q)
              IN  n \in FcgiHosts /\ SameLoads(hs, n) /\ n[h].procs[p] = q
<1>1. ASSUME NEW m \in FcgiHosts, SameLoads(hs, m)
      PROVE  LET n == WithProc(m, h, p, q)
             IN  n \in FcgiHosts /\ SameLoads(hs, n) /\ n[h].procs[p] = q
  <2> DEFINE n == WithProc(m, h, p, q)
  <2>1. /\ n \in FcgiHosts /\ n[h].procs[p] = q
        /\ \A g \in F!Hosts :
              /\ HostLoad(n, g) = HostLoad(m, g)
              /\ \A o \in F!Procs(g) : ProcLoad(n, g, o) =
                    IF g = h /\ o = p THEN q.load ELSE ProcLoad(m, g, o)
    BY FcgiWithProc
  <2> HIDE DEF n
  <2>2. ProcLoad(hs, h, p) = q.load BY DEF ProcLoad
  <2>3. SameLoads(hs, n) BY <1>1, <2>1, <2>2 DEF SameLoads
  <2> QED BY <2>1, <2>3 DEF n
<1>2. SameLoads(hs, hs) BY DEF SameLoads
<1>3. hs[h].load \in Int BY FcgiReads
<1> DEFINE m == WithHost(hs, h, hs[h].load, a)
<1>4. /\ m \in FcgiHosts
      /\ \A g \in F!Hosts : HostLoad(m, g) = (IF g = h THEN hs[h].load ELSE HostLoad(hs, g))
                            /\ m[g].procs = hs[g].procs
  BY <1>3, FcgiWithHost
<1> HIDE DEF m
<1>5. SameLoads(hs, m) BY <1>4 DEF SameLoads, HostLoad, ProcLoad
<1> QED BY <1>1, <1>2, <1>4, <1>5 DEF m

LEMMA FcgiSameTransitive ==
    ASSUME NEW hs, NEW m, NEW n, SameLoads(hs, m), SameLoads(m, n)
    PROVE  SameLoads(hs, n)
BY DEF SameLoads

\* What changes a process by its state leaves its load alone.
LEMMA FcgiKeeps ==
    ASSUME NEW hs \in FcgiHosts, NEW h \in F!Hosts, NEW p \in F!Procs(h)
    PROVE  /\ \A s \in {"RUNNING", "OVERLOADED", "DIED_WAIT_FOR_PID", "DIED"} :
                 (s = "DIED" => hs[h].procs[p].child = "none") =>
                 /\ F!Stopped(hs, h, p, s) \in FcgiHosts /\ SameLoads(hs, F!Stopped(hs, h, p, s))
                 /\ LET n == [hs EXCEPT ![h].procs[p].state = s]
                    IN  n \in FcgiHosts /\ SameLoads(hs, n)
           /\ LET n == F!Enabled(hs, h, p)
              IN  /\ n \in FcgiHosts /\ SameLoads(hs, n)
                  /\ n[h].procs[p].child = hs[h].procs[p].child
                  /\ n[h].procs[p].state = "RUNNING"
           /\ LET n == F!Reaped(hs, h, p)
              IN  /\ n \in FcgiHosts /\ SameLoads(hs, n)
                  /\ n[h].procs[p].child # "zombie"
                  /\ hs[h].procs[p].child # "alive" => n[h].procs[p].child = "none"
<1> DEFINE q == hs[h].procs[p]
<1>1. q \in FcgiProcs /\ hs[h].active_procs \in Int BY FcgiReads
<1>2. ASSUME NEW s \in {"RUNNING", "OVERLOADED", "DIED_WAIT_FOR_PID", "DIED"},
             s = "DIED" => hs[h].procs[p].child = "none"
      PROVE  /\ F!Stopped(hs, h, p, s) \in FcgiHosts /\ SameLoads(hs, F!Stopped(hs, h, p, s))
             /\ LET n == [hs EXCEPT ![h].procs[p].state = s]
                IN  n \in FcgiHosts /\ SameLoads(hs, n)
  <2> DEFINE o == [q EXCEPT !.state = s]
             a == IF q.state = "RUNNING" THEN hs[h].active_procs - 1 ELSE hs[h].active_procs
  <2>1. o \in FcgiProcs /\ o.load = q.load BY ZenonT(60), <1>1, <1>2, FcgiProcUpdates
  <2>2. F!Stopped(hs, h, p, s) = WithProc(WithHost(hs, h, hs[h].load, a), h, p, o)
    <3>1. \A t : F!Stopped(hs, h, p, t) =
             WithProc(WithHost(hs, h, hs[h].load, IF hs[h].procs[p].state = "RUNNING"
                                                  THEN hs[h].active_procs - 1 ELSE hs[h].active_procs),
                      h, p, [hs[h].procs[p] EXCEPT !.state = t])
      BY FcgiOperators
    <3> QED BY <3>1
  <2>3. [hs EXCEPT ![h].procs[p].state = s] = WithProc(hs, h, p, o)
    <3>1. hs \in [F!Hosts -> UNION {FcgiHost(g) : g \in F!Hosts}] BY FcgiReads
    <3> QED BY <3>1 DEF WithProc
  <2>4. a \in Int BY <1>1
  <2> HIDE DEF o, a
  <2>5. LET n == WithProc(WithHost(hs, h, hs[h].load, a), h, p, o)
        IN  n \in FcgiHosts /\ SameLoads(hs, n)
    BY <2>1, <2>4, FcgiSame
  <2>6. LET n == WithProc(hs, h, p, o) IN n \in FcgiHosts /\ SameLoads(hs, n)
    BY <2>1, <2>4, FcgiSame
  <2> QED BY <2>2, <2>3, <2>5, <2>6
<1>3. LET n == F!Enabled(hs, h, p)
      IN  /\ n \in FcgiHosts /\ SameLoads(hs, n)
          /\ n[h].procs[p].child = hs[h].procs[p].child
          /\ n[h].procs[p].state = "RUNNING"
  <2> DEFINE o == [q EXCEPT !.state = "RUNNING"]
  <2>1. o \in FcgiProcs /\ o.load = q.load /\ o.child = q.child /\ o.state = "RUNNING"
    BY <1>1, FcgiProcUpdates
  <2>2. F!Enabled(hs, h, p) = WithProc(WithHost(hs, h, hs[h].load, hs[h].active_procs + 1), h, p, o)
    BY FcgiOperators
  <2>3. hs[h].active_procs + 1 \in Int BY <1>1
  <2> HIDE DEF o
  <2> QED BY <2>1, <2>2, <2>3, FcgiSame
<1>4. LET n == F!Reaped(hs, h, p)
      IN  /\ n \in FcgiHosts /\ SameLoads(hs, n)
          /\ n[h].procs[p].child # "zombie"
          /\ hs[h].procs[p].child # "alive" => n[h].procs[p].child = "none"
  <2> DEFINE o == [q EXCEPT !.child = "none"]
  <2>1. o \in FcgiProcs /\ o.load = q.load /\ o.child = "none" BY <1>1, FcgiProcUpdates
  <2>2. F!Reaped(hs, h, p) = IF q.child = "zombie" THEN WithProc(hs, h, p, o) ELSE hs
    BY FcgiOperators
  <2>3. q.child \in {"none", "alive", "zombie"} BY <1>1 DEF FcgiProcs
  <2> HIDE DEF o
  <2>4. CASE q.child = "zombie" BY <1>1, <2>1, <2>2, <2>4, FcgiSame
  <2>5. CASE q.child # "zombie" BY <2>2, <2>3, <2>5 DEF SameLoads
  <2> QED BY <2>4, <2>5
<1> QED BY <1>2, <1>3, <1>4

\* No process is started beside another.
LEMMA FcgiSpawns ==
    ASSUME NEW hs \in FcgiHosts, NEW h \in F!Hosts, NEW p \in F!Procs(h), NEW result \in F!SpawnResults,
           hs[h].procs[p].child = "none"
    PROVE  LET n == F!fcgi_spawn_connection(hs, h, p, result)
           IN  /\ n \in FcgiHosts /\ SameLoads(hs, n)
               /\ result = "failed" => n = hs
<1> DEFINE e == F!Enabled(hs, h, p)
           q == e[h].procs[p]
<1>1. e \in FcgiHosts /\ SameLoads(hs, e) /\ q.child = "none" /\ q.state = "RUNNING" BY FcgiKeeps
<1>2. e \in [F!Hosts -> UNION {FcgiHost(g) : g \in F!Hosts}] BY <1>1, FcgiReads
<1>3. q \in FcgiProcs BY <1>1, FcgiReads
<1>4. CASE result = "used"
  <2> DEFINE y == [q EXCEPT !.is_local = FALSE]
             m == [e EXCEPT ![h].procs[p].is_local = FALSE]
             o == [y EXCEPT !.child = "none"]
  <2>1. y \in FcgiProcs /\ y.load = q.load /\ y.child = "none" /\ y.state = "RUNNING" /\ y.is_local = FALSE
    BY <1>1, <1>3 DEF FcgiProcs
  <2>2. m = WithProc(e, h, p, y) BY <1>2 DEF WithProc
  <2>3. F!fcgi_spawn_connection(hs, h, p, result) = [m EXCEPT ![h].procs[p].child = "none"]
    BY <1>4 DEF F!fcgi_spawn_connection
  <2> HIDE DEF y, m, e
  <2>4. o \in FcgiProcs /\ o.load = q.load BY <2>1 DEF FcgiProcs
  <2>5. m \in FcgiHosts /\ SameLoads(e, m) /\ m[h].procs[p] = y BY <1>1, <2>1, <2>2, FcgiSame
  <2>6. m \in [F!Hosts -> UNION {FcgiHost(g) : g \in F!Hosts}] BY <2>5, FcgiReads
  <2>7. [m EXCEPT ![h].procs[p].child = "none"] = WithProc(m, h, p, o)
    BY <2>1, <2>5, <2>6 DEF WithProc
  <2> HIDE DEF o
  <2>8. o.load = m[h].procs[p].load BY <2>1, <2>4, <2>5
  <2>9. WithProc(m, h, p, o) \in FcgiHosts /\ SameLoads(m, WithProc(m, h, p, o))
    BY <2>4, <2>5, <2>8, FcgiReads, FcgiSame
  <2>10. SameLoads(hs, WithProc(m, h, p, o)) BY <1>1, <2>5, <2>9, FcgiSameTransitive
  <2> QED BY <1>4, <2>3, <2>7, <2>9, <2>10
<1>5. CASE result = "nofork" BY <1>1, <1>5 DEF F!fcgi_spawn_connection
<1>6. CASE result = "up"
  <2> DEFINE y == [q EXCEPT !.is_local = TRUE]
             m == [e EXCEPT ![h].procs[p].is_local = TRUE]
             o == [y EXCEPT !.child = "alive"]
  <2>1. y \in FcgiProcs /\ y.load = q.load /\ y.child = "none" /\ y.state = "RUNNING" /\ y.is_local = TRUE
    BY <1>1, <1>3 DEF FcgiProcs
  <2>2. m = WithProc(e, h, p, y) BY <1>2 DEF WithProc
  <2>3. F!fcgi_spawn_connection(hs, h, p, result) = [m EXCEPT ![h].procs[p].child = F!Born(@)]
    BY ONLY ZenonT(60), <1>6 DEF F!fcgi_spawn_connection
  <2> HIDE DEF y, m, e
  <2>4. o \in FcgiProcs /\ o.load = q.load BY <2>1 DEF FcgiProcs
  <2>5. m \in FcgiHosts /\ SameLoads(e, m) /\ m[h].procs[p] = y BY <1>1, <2>1, <2>2, FcgiSame
  <2>6. m \in [F!Hosts -> UNION {FcgiHost(g) : g \in F!Hosts}] BY <2>5, FcgiReads
  <2>7. [m EXCEPT ![h].procs[p].child = F!Born(@)] = WithProc(m, h, p, o)
    BY <2>1, <2>5, <2>6 DEF WithProc, F!Born
  <2> HIDE DEF o
  <2>8. o.load = m[h].procs[p].load BY <2>1, <2>4, <2>5
  <2>9. WithProc(m, h, p, o) \in FcgiHosts /\ SameLoads(m, WithProc(m, h, p, o))
    BY <2>4, <2>5, <2>8, FcgiReads, FcgiSame
  <2>10. SameLoads(hs, WithProc(m, h, p, o)) BY <1>1, <2>5, <2>9, FcgiSameTransitive
  <2> QED BY <1>6, <2>3, <2>7, <2>9, <2>10
<1>7. CASE result = "failed" BY <1>7 DEF F!fcgi_spawn_connection, SameLoads
<1> QED BY <1>4, <1>5, <1>6, <1>7 DEF F!SpawnResults

\* Nor does any of them when a process is looked after.
LEMMA FcgiRestartsOne ==
    ASSUME NEW hs \in FcgiHosts, NEW h \in F!Hosts, NEW p \in F!Procs(h), NEW result \in F!SpawnResults,
           NEW due \in BOOLEAN
    PROVE  LET n == F!RestartOne(hs, h, p, result, due) IN n \in FcgiHosts /\ SameLoads(hs, n)
<1>1. ASSUME NEW m \in FcgiHosts
      PROVE  F!Revived(m, h, p, due) \in FcgiHosts /\ SameLoads(m, F!Revived(m, h, p, due))
  <2>1. F!Enabled(m, h, p) \in FcgiHosts /\ SameLoads(m, F!Enabled(m, h, p)) BY FcgiKeeps
  <2>2. SameLoads(m, m) BY DEF SameLoads
  <2> QED BY <2>1, <2>2 DEF F!Revived
<1>2. ASSUME NEW m \in FcgiHosts, m[h].procs[p].child = "none"
      PROVE  LET n == F!Restarted(m, h, p, result, due) IN n \in FcgiHosts /\ SameLoads(m, n)
  <2>1. CASE h \notin Local BY <1>1, <2>1 DEF F!Restarted
  <2>2. CASE h \in Local /\ F!Proc(m, h, p).load # 0 BY <2>2 DEF F!Restarted, SameLoads
  <2>3. CASE h \in Local /\ ~(F!Proc(m, h, p).load # 0) BY <1>2, <2>3, FcgiSpawns DEF F!Restarted
  <2> QED BY <2>1, <2>2, <2>3
<1>3. hs[h].procs[p] \in FcgiProcs BY FcgiReads
<1>4. CASE F!Proc(hs, h, p).state = "RUNNING" BY <1>4 DEF F!RestartOne, SameLoads
<1>5. CASE F!Proc(hs, h, p).state = "OVERLOADED" BY <1>1, <1>5 DEF F!RestartOne
<1>6. CASE F!Proc(hs, h, p).state = "DIED"
  <2>1. hs[h].procs[p].child = "none" BY <1>3, <1>6 DEF FcgiProcs, F!Proc
  <2> QED BY <1>2, <1>6, <2>1 DEF F!RestartOne
<1>7. CASE F!Proc(hs, h, p).state = "DIED_WAIT_FOR_PID"
  <2>1. CASE F!Lives(F!Proc(hs, h, p)) BY <1>1, <1>7, <2>1 DEF F!RestartOne
  <2>2. CASE ~F!Lives(F!Proc(hs, h, p))
    <3> DEFINE m == F!Reaped(hs, h, p)
               n == [m EXCEPT ![h].procs[p].state = "DIED"]
    <3>1. hs[h].procs[p].child # "alive" BY <1>3, <2>2 DEF FcgiProcs, F!Lives, F!Proc
    <3>2. m \in FcgiHosts /\ SameLoads(hs, m) /\ m[h].procs[p].child = "none" BY <3>1, FcgiKeeps
    <3> HIDE DEF m
    <3>3. n \in FcgiHosts /\ SameLoads(m, n) BY <3>2, FcgiKeeps
    <3>4. n[h].procs[p].child = "none"
      <4>1. m \in [F!Hosts -> UNION {FcgiHost(g) : g \in F!Hosts}]
            /\ m[h] \in FcgiHost(h) /\ m[h].procs \in [F!Procs(h) -> FcgiProcs]
            /\ m[h].procs[p] \in FcgiProcs
        BY <3>2, FcgiReads
      <4> QED BY <3>2, <4>1 DEF FcgiHost, FcgiProcs
    <3>5. F!RestartOne(hs, h, p, result, due) = F!Restarted(n, h, p, result, due)
      BY <1>7, <2>2 DEF F!RestartOne, m
    <3> HIDE DEF n
    <3>6. LET o == F!Restarted(n, h, p, result, due) IN o \in FcgiHosts /\ SameLoads(n, o)
      BY <1>2, <3>3, <3>4
    <3>7. SameLoads(hs, F!Restarted(n, h, p, result, due))
      BY <3>2, <3>3, <3>6, FcgiSameTransitive
    <3> QED BY <3>5, <3>6, <3>7
  <2> QED BY <2>1, <2>2
<1> QED BY <1>3, <1>4, <1>5, <1>6, <1>7 DEF FcgiProcs, F!Proc

-----------------------------------------------------------------------------
(***************************************************************************)
(* The restarts walk over the processes, and the trigger over the hosts, by *)
(* functions that are defined from one number to the next.                 *)
(***************************************************************************)
\* The processes of a host are looked after in turn: no load changes.
LEMMA FcgiRestarts ==
    ASSUME F!FastCGIAssumption, NEW hs \in FcgiHosts, NEW h \in F!Hosts, NEW results \in F!Results,
           NEW due \in BOOLEAN
    PROVE  LET n == F!fcgi_restart_dead_procs(hs, h, results, due)
           IN  n \in FcgiHosts /\ SameLoads(hs, n)
<1> DEFINE S == [hs : {n \in FcgiHosts : SameLoads(hs, n)}, failed : BOOLEAN]
           first == [hs |-> hs, failed |-> FALSE]
           next(w, p) == LET n == F!RestartOne(w.hs, h, p, results[p], due)
                         IN  IF w.failed \/ p \notin F!Procs(h) THEN w
                             ELSE [hs |-> n, failed |-> n[h].procs[p].state = "DIED" /\ h \in Local
                                                        /\ n[h].procs[p].load = 0]
           T == [x \in S \X (1..NProcs) |-> next(x[1], x[2])]
<1>1. NProcs \in Nat BY DEF F!FastCGIAssumption
<1>2. first \in S BY DEF SameLoads
<1>3. ASSUME NEW w \in S, NEW p \in 1..NProcs PROVE next(w, p) \in S
  <2>1. w.hs \in FcgiHosts /\ SameLoads(hs, w.hs) /\ results[p] \in F!SpawnResults
    BY DEF F!Results
  <2>2. CASE w.failed \/ p \notin F!Procs(h) BY <2>2
  <2>3. CASE ~(w.failed \/ p \notin F!Procs(h))
    <3> DEFINE n == F!RestartOne(w.hs, h, p, results[p], due)
    <3>1. n \in FcgiHosts /\ SameLoads(w.hs, n) BY <2>1, <2>3, FcgiRestartsOne
    <3> HIDE DEF n
    <3>2. SameLoads(hs, n) BY <2>1, <3>1, FcgiSameTransitive
    <3>3. next(w, p) = [hs |-> n, failed |-> n[h].procs[p].state = "DIED" /\ h \in Local
                                             /\ n[h].procs[p].load = 0]
      BY <2>3 DEF n
    <3> QED BY <3>1, <3>2, <3>3
  <2> QED BY <2>2, <2>3
<1> HIDE DEF S, first, next
<1>4. T \in [S \X (1..NProcs) -> S] BY <1>3
<1>5. PICK f \in [0..NProcs -> S] : Steps(f, NProcs, first, T)
  <2> HIDE DEF T
  <2> QED BY <1>1, <1>2, <1>4, StepsExist
<1>6. f = [p \in 0..NProcs |-> IF p = 0 THEN first ELSE next(f[p - 1], p)]
  <2>1. ASSUME NEW p \in 0..NProcs PROVE f[p] = IF p = 0 THEN first ELSE next(f[p - 1], p)
    <3>1. CASE p = 0 BY <1>5, <3>1 DEF Steps
    <3>2. CASE p # 0
      <4>1. p \in 1..NProcs /\ p - 1 \in 0..NProcs BY <1>1, <3>2
      <4>2. f[p] = T[<<f[p - 1], p>>] BY <1>5, <4>1 DEF Steps
      <4> QED BY <3>2, <4>1, <4>2
    <3> QED BY <3>1, <3>2
  <2> QED BY <2>1
<1> DEFINE walk == CHOOSE w : w = [p \in 0..NProcs |-> IF p = 0 THEN first ELSE next(w[p - 1], p)]
<1>7. walk = [p \in 0..NProcs |-> IF p = 0 THEN first ELSE next(walk[p - 1], p)] BY <1>6
<1>8. F!fcgi_restart_dead_procs(hs, h, results, due) = walk[NProcs].hs
  BY DEF F!fcgi_restart_dead_procs, first, next
<1> HIDE DEF walk, T
<1>9. walk[0] \in S BY <1>1, <1>2, <1>7
<1>10. ASSUME NEW p \in 1..NProcs, walk[p - 1] \in S PROVE walk[p] \in S
  <2>1. p \in 0..NProcs /\ p # 0 BY <1>1
  <2>2. walk[p] = next(walk[p - 1], p) BY <1>7, <2>1
  <2> QED BY <1>3, <1>10, <2>2
<1>11. walk[NProcs] \in S
  <2>1. \A p \in 0..NProcs : walk[p] \in S BY <1>1, <1>9, <1>10, StepsStay
  <2> QED BY <1>1, <2>1
<1> QED BY <1>8, <1>11 DEF S

\* Each second the processes of every host are looked after.
LEMMA FcgiTriggers ==
    ASSUME F!FastCGIAssumption, hosts \in FcgiHosts, F!mod_fastcgi_handle_trigger
    PROVE  hosts' \in FcgiHosts /\ SameLoads(hosts, hosts')
<1> DEFINE S == {n \in FcgiHosts : SameLoads(hosts, n)}
<1>1. NHosts \in Nat BY DEF F!FastCGIAssumption
<1>2. PICK results \in F!Results, due \in [F!Hosts -> BOOLEAN] :
          hosts' = LET all[h \in 0..NHosts] ==
                           IF h = 0 THEN hosts
                           ELSE F!fcgi_restart_dead_procs(all[h - 1], h, results, due[h])
                   IN all[NHosts]
  BY DEF F!mod_fastcgi_handle_trigger
<1> DEFINE next(hs, h) == F!fcgi_restart_dead_procs(hs, h, results, due[h])
           T == [x \in S \X (1..NHosts) |-> next(x[1], x[2])]
           all == CHOOSE a : a = [h \in 0..NHosts |-> IF h = 0 THEN hosts ELSE next(a[h - 1], h)]
<1>3. hosts' = all[NHosts] BY <1>2
<1>4. hosts \in S BY DEF SameLoads
<1>5. ASSUME NEW hs \in S, NEW h \in 1..NHosts PROVE next(hs, h) \in S
  <2>1. h \in F!Hosts /\ due[h] \in BOOLEAN BY DEF F!Hosts
  <2>2. next(hs, h) \in FcgiHosts /\ SameLoads(hs, next(hs, h)) BY <2>1, FcgiRestarts
  <2> HIDE DEF next
  <2> QED BY <2>2, FcgiSameTransitive
<1> HIDE DEF S, next
<1>6. T \in [S \X (1..NHosts) -> S] BY <1>5
<1>7. PICK f \in [0..NHosts -> S] : Steps(f, NHosts, hosts, T)
  <2> HIDE DEF T
  <2> QED BY <1>1, <1>4, <1>6, StepsExist
<1>8. f = [h \in 0..NHosts |-> IF h = 0 THEN hosts ELSE next(f[h - 1], h)]
  <2>1. ASSUME NEW h \in 0..NHosts PROVE f[h] = IF h = 0 THEN hosts ELSE next(f[h - 1], h)
    <3>1. CASE h = 0 BY <1>7, <3>1 DEF Steps
    <3>2. CASE h # 0
      <4>1. h \in 1..NHosts /\ h - 1 \in 0..NHosts BY <1>1, <3>2
      <4>2. f[h] = T[<<f[h - 1], h>>] BY <1>7, <4>1 DEF Steps
      <4> QED BY <3>2, <4>1, <4>2
    <3> QED BY <3>1, <3>2
  <2> QED BY <2>1
<1>9. all = [h \in 0..NHosts |-> IF h = 0 THEN hosts ELSE next(all[h - 1], h)] BY <1>8
<1> HIDE DEF all, T
<1>10. all[0] \in S BY <1>1, <1>4, <1>9
<1>11. ASSUME NEW h \in 1..NHosts, all[h - 1] \in S PROVE all[h] \in S
  <2>1. h \in 0..NHosts /\ h # 0 BY <1>1
  <2>2. all[h] = next(all[h - 1], h) BY <1>9, <2>1
  <2> QED BY <1>5, <1>11, <2>2
<1>12. all[NHosts] \in S
  <2>1. \A h \in 0..NHosts : all[h] \in S BY <1>1, <1>10, <1>11, StepsStay
  <2> QED BY <1>1, <2>1
<1> QED BY <1>3, <1>12 DEF S

\* The one with the least load is one of them.
LEMMA FcgiLeast ==
    ASSUME NEW S \in SUBSET Int, IsFiniteSet(S), S # {}, NEW load, \A s \in S : load[s] \in Int
    PROVE  F!LeastLoad(S, load) \in S
<1> DEFINE R == {p \in S \X S : load[p[1]] < load[p[2]] \/ (load[p[1]] = load[p[2]] /\ p[1] < p[2])}
<1>1. \A s, t \in S : <<s, t>> \in R <=> load[s] < load[t] \/ (load[s] = load[t] /\ s < t) OBVIOUS
<1> HIDE DEF R
<1>2. \A s \in S : <<s, s>> \notin R BY <1>1
<1>3. \A s, t, u \in S : <<s, t>> \in R /\ <<t, u>> \in R => <<s, u>> \in R
  <2> TAKE s, t, u \in S
  <2>1. s \in Int /\ t \in Int /\ u \in Int /\ load[s] \in Int /\ load[t] \in Int /\ load[u] \in Int
    OBVIOUS
  <2> QED BY <1>1, <2>1
<1>4. PICK s \in S : \A t \in S : <<t, s>> \notin R BY <1>2, <1>3, FirstExists
<1>5. ASSUME NEW t \in S PROVE load[s] < load[t] \/ (load[s] = load[t] /\ s <= t)
  <2>1. ~(load[t] < load[s] \/ (load[t] = load[s] /\ t < s)) BY <1>1, <1>4
  <2>2. s \in Int /\ t \in Int /\ load[s] \in Int /\ load[t] \in Int OBVIOUS
  <2> QED BY <2>1, <2>2
<1> QED BY <1>5 DEF F!LeastLoad

LEMMA FcgiFinite ==
    ASSUME F!FastCGIAssumption
    PROVE  /\ IsFiniteSet(Requests) /\ IsFiniteSet(F!Hosts) /\ F!Hosts \subseteq Int
           /\ \A h \in F!Hosts : /\ IsFiniteSet(F!Procs(h)) /\ F!Procs(h) \subseteq 1..NProcs
                                 /\ h # F!None
<1>1. NHosts \in Nat \ {0} /\ NProcs \in Nat \ {0} BY DEF F!FastCGIAssumption
<1>2. IsFiniteSet(1..NHosts) /\ IsFiniteSet(1..NProcs) BY <1>1, FS_Interval
<1>3. \A h : IsFiniteSet(F!Procs(h)) /\ F!Procs(h) \subseteq 1..NProcs
  <2>1. IsFiniteSet({1}) BY FS_Singleton
  <2>2. {1} \subseteq 1..NProcs BY <1>1
  <2> QED BY <1>2, <2>1, <2>2 DEF F!Procs
<1>4. IsFiniteSet(Requests) BY SameCardinality DEF F!FastCGIAssumption
<1> QED BY <1>1, <1>2, <1>3, <1>4 DEF F!Hosts, F!None

\* A request is given a host, and of a host a process that runs.
LEMMA FcgiChoice ==
    ASSUME F!FastCGIAssumption, hosts \in FcgiHosts, last_used \in 0..NHosts
    PROVE  /\ \A h \in F!Choices : h \in F!Hosts
           /\ \A hs \in FcgiHosts, h \in F!Hosts :
                 LET running == F!Running(hs, h)
                 IN  running # {} =>
                     F!LeastLoad(running, [q \in running |-> F!Proc(hs, h, q).load]) \in F!Procs(h)
<1>1. ASSUME NEW h \in F!Choices PROVE h \in F!Hosts
  <2> DEFINE up == {g \in F!Hosts : hosts[g].active_procs # 0}
             next == IF last_used + 1 > NHosts THEN 1 ELSE last_used + 1
             load == [g \in up |-> hosts[g].load]
  <2>1. CASE hosts[next].load = 0
    <3>1. h = next BY <1>1, <2>1 DEF F!Choices
    <3>2. NHosts \in Nat \ {0} BY DEF F!FastCGIAssumption
    <3> QED BY <3>1, <3>2 DEF F!Hosts
  <2>2. CASE ~(hosts[next].load = 0) /\ up # {}
    <3>1. up \in SUBSET Int /\ IsFiniteSet(up) /\ up \subseteq F!Hosts BY FcgiFinite, FS_Subset
    <3>2. \A g \in up : load[g] \in Int BY FcgiReads
    <3>3. h = F!LeastLoad(up, load) BY <1>1, <2>2 DEF F!Choices
    <3> HIDE DEF up, load
    <3>4. F!LeastLoad(up, load) \in up BY <2>2, <3>1, <3>2, FcgiLeast
    <3> QED BY <3>1, <3>3, <3>4
  <2>3. CASE ~(hosts[next].load = 0) /\ up = {} BY <1>1, <2>3 DEF F!Choices
  <2> QED BY <2>1, <2>2, <2>3
<1>2. ASSUME NEW hs \in FcgiHosts, NEW h \in F!Hosts, F!Running(hs, h) # {}
      PROVE  F!LeastLoad(F!Running(hs, h), [q \in F!Running(hs, h) |-> F!Proc(hs, h, q).load])
                 \in F!Procs(h)
  <2> DEFINE S == F!Running(hs, h)
             load == [q \in S |-> F!Proc(hs, h, q).load]
  <2>1. S \subseteq F!Procs(h) BY DEF F!Running
  <2>2. S \in SUBSET Int /\ IsFiniteSet(S) BY <2>1, FcgiFinite, FS_Subset
  <2>3. \A s \in S : load[s] \in Int BY <2>1, FcgiReads DEF F!Proc
  <2> HIDE DEF S, load
  <2>4. F!LeastLoad(S, load) \in S BY <1>2, <2>2, <2>3, FcgiLeast DEF S
  <2> QED BY <2>1, <2>4 DEF S, load
<1> QED BY <1>1, <1>2

-----------------------------------------------------------------------------
\* A request: its process is one of its host, and it has been sent to at most one.
FcgiRequest ==
    [state : {"none", "INIT", "CONNECT_DELAYED", "WRITE", "READ"},
     host : F!Hosts \cup {F!None}, proc : 0..NProcs, got_proc : BOOLEAN,
     reconnects : 0..MaxReconnects, asked : 0..1, bytes_out : BOOLEAN, file_started : BOOLEAN,
     joblist : Nat, fdwait : Nat, events : SUBSET {"IN", "OUT"},
     socket : {"none", "pending", "up", "closed", "refused"}, unread : Seq({"part", "end"})]

FcgiBound == {c \in FcgiRequest :
    /\ c.host # F!None => c.proc = F!None \/ c.proc \in F!Procs(c.host)
    /\ c.got_proc => c.host # F!None /\ c.proc # F!None}

FcgiKnown == {c \in FcgiBound :
    /\ c.state \in {"none", "INIT", "CONNECT_DELAYED"} => ~c.got_proc /\ ~c.bytes_out
    /\ c.state = "none" => c.host = F!None
    /\ c.state \in {"CONNECT_DELAYED", "WRITE", "READ"} => c.host # F!None /\ c.proc # F!None
    /\ c.state \in {"CONNECT_DELAYED", "WRITE"} => "OUT" \in c.events
    /\ c.state = "READ" => c.bytes_out /\ "IN" \in c.events
    /\ c.asked = (IF c.bytes_out THEN 1 ELSE 0)}

FcgiAtRest == {c \in FcgiKnown : c.state = "INIT" => c.joblist > 0 \/ c.fdwait > 0}

FcgiInv ==
    /\ hosts \in FcgiHosts /\ hctx \in [Requests -> FcgiAtRest]
    /\ last_used \in 0..NHosts /\ faults \in 0..MaxFaults
    /\ F!LoadsAgree

\* the other requests that hold a host, or a process of it
Others(r, h) == {q \in Requests \ {r} : hctx[q].host = h}
OthersOf(r, h, p) == {q \in Others(r, h) : hctx[q].proc = p /\ hctx[q].got_proc}

\* the hosts as they are while request r is at c: the loads count the others and this one
Counted(r, hs, c) == \A h \in F!Hosts :
    /\ HostLoad(hs, h) = Cardinality(Others(r, h)) + (IF c.host = h THEN 1 ELSE 0)
    /\ \A p \in F!Procs(h) : ProcLoad(hs, h, p) =
          Cardinality(OthersOf(r, h, p)) + (IF c.host = h /\ c.proc = p /\ c.got_proc THEN 1 ELSE 0)

\* what a step that has to do with one request leaves behind
FcgiDone(r) ==
    /\ hosts' \in FcgiHosts
    /\ \E d \in FcgiAtRest : hctx' = [hctx EXCEPT ![r] = d] /\ Counted(r, hosts', d)

LEMMA WithOrWithout ==
    ASSUME IsFiniteSet(Requests), NEW r, NEW S \in SUBSET (Requests \ {r}), NEW A, A = S \/ A = S \cup {r}
    PROVE  Cardinality(A) = Cardinality(S) + (IF r \in A THEN 1 ELSE 0)
<1>1. IsFiniteSet(S) /\ Cardinality(S) \in Nat BY FS_Subset, FS_CardinalityType
<1>2. r \notin S OBVIOUS
<1>3. Cardinality(S \cup {r}) = Cardinality(S) + 1 BY <1>1, <1>2, FS_AddElement
<1>4. CASE A = S BY <1>1, <1>2, <1>4
<1>5. CASE A = S \cup {r} BY <1>3, <1>5
<1> QED BY <1>4, <1>5

\* With a request taken out, and put back, the loads agree.
LEMMA FcgiCounts ==
    ASSUME F!FastCGIAssumption, NEW r \in Requests, NEW g, NEW some \in [Requests -> FcgiAtRest],
           \A q \in Requests \ {r} : some[q] = hctx[q], hctx \in [Requests -> FcgiAtRest]
    PROVE  /\ Cardinality({q \in Requests : some[q].host = g}) =
                 Cardinality(Others(r, g)) + (IF some[r].host = g THEN 1 ELSE 0)
           /\ \A p : Cardinality({q \in {o \in Requests : some[o].host = g} :
                                     some[q].proc = p /\ some[q].got_proc}) =
                 Cardinality(OthersOf(r, g, p))
                 + (IF some[r].host = g /\ some[r].proc = p /\ some[r].got_proc THEN 1 ELSE 0)
<1>1. ASSUME NEW S \in SUBSET (Requests \ {r}), NEW A, A = S \/ A = S \cup {r}
      PROVE  Cardinality(A) = Cardinality(S) + (IF r \in A THEN 1 ELSE 0)
  BY <1>1, FcgiFinite, WithOrWithout
<1>2. Cardinality({q \in Requests : some[q].host = g}) =
         Cardinality(Others(r, g)) + (IF some[r].host = g THEN 1 ELSE 0)
  <2> DEFINE A == {q \in Requests : some[q].host = g}
  <2>1. A = Others(r, g) \/ A = Others(r, g) \cup {r} BY DEF Others
  <2>2. Others(r, g) \in SUBSET (Requests \ {r}) BY DEF Others
  <2>3. r \in A <=> some[r].host = g OBVIOUS
  <2> HIDE DEF A
  <2>4. Cardinality(A) = Cardinality(Others(r, g)) + (IF r \in A THEN 1 ELSE 0) BY <1>1, <2>1, <2>2
  <2> QED BY <2>3, <2>4 DEF A
<1>3. ASSUME NEW p
      PROVE  Cardinality({q \in {o \in Requests : some[o].host = g} : some[q].proc = p /\ some[q].got_proc}) =
                 Cardinality(OthersOf(r, g, p))
                 + (IF some[r].host = g /\ some[r].proc = p /\ some[r].got_proc THEN 1 ELSE 0)
  <2> DEFINE A == {q \in {o \in Requests : some[o].host = g} : some[q].proc = p /\ some[q].got_proc}
  <2>1. A = OthersOf(r, g, p) \/ A = OthersOf(r, g, p) \cup {r} BY DEF Others, OthersOf
  <2>2. OthersOf(r, g, p) \in SUBSET (Requests \ {r}) BY DEF Others, OthersOf
  <2>3. r \in A <=> some[r].host = g /\ some[r].proc = p /\ some[r].got_proc OBVIOUS
  <2> HIDE DEF A
  <2>4. Cardinality(A) = Cardinality(OthersOf(r, g, p)) + (IF r \in A THEN 1 ELSE 0)
    BY <1>1, <2>1, <2>2
  <2> QED BY <2>3, <2>4 DEF A
<1> QED BY <1>2, <1>3

\* A step begins with the loads that agree, and ends with loads that do.
LEMMA FcgiBegins ==
    ASSUME F!FastCGIAssumption, FcgiInv, NEW r \in Requests
    PROVE  Counted(r, hosts, hctx[r])
<1>1. ASSUME NEW h \in F!Hosts
      PROVE  /\ HostLoad(hosts, h) = Cardinality({q \in Requests : hctx[q].host = h})
             /\ \A p \in F!Procs(h) : ProcLoad(hosts, h, p) =
                   Cardinality({q \in {o \in Requests : hctx[o].host = h} :
                                    hctx[q].proc = p /\ hctx[q].got_proc})
  BY SameCardinality DEF FcgiInv, F!LoadsAgree, F!Holders, F!Users, F!Proc, HostLoad, ProcLoad
<1>2. hctx \in [Requests -> FcgiAtRest] BY DEF FcgiInv
<1>3. \A q \in Requests \ {r} : hctx[q] = hctx[q] OBVIOUS
<1>4. ASSUME NEW h \in F!Hosts
      PROVE  /\ Cardinality({q \in Requests : hctx[q].host = h}) =
                   Cardinality(Others(r, h)) + (IF hctx[r].host = h THEN 1 ELSE 0)
             /\ \A p : Cardinality({q \in {o \in Requests : hctx[o].host = h} :
                                       hctx[q].proc = p /\ hctx[q].got_proc}) =
                   Cardinality(OthersOf(r, h, p))
                   + (IF hctx[r].host = h /\ hctx[r].proc = p /\ hctx[r].got_proc THEN 1 ELSE 0)
  BY <1>2, <1>3, FcgiCounts
<1> QED BY ZenonT(60), <1>1, <1>4 DEF Counted

LEMMA FcgiEnds ==
    ASSUME F!FastCGIAssumption, FcgiInv, NEW r \in Requests, FcgiDone(r),
           last_used' \in 0..NHosts, faults' \in 0..MaxFaults
    PROVE  FcgiInv'
<1>1. PICK d \in FcgiAtRest : hctx' = [hctx EXCEPT ![r] = d] /\ Counted(r, hosts', d)
  BY DEF FcgiDone
<1>2. hctx \in [Requests -> FcgiAtRest] BY DEF FcgiInv
<1>3. hctx' \in [Requests -> FcgiAtRest] /\ hctx'[r] = d /\ \A q \in Requests \ {r} : hctx'[q] = hctx[q]
  BY <1>1, <1>2
<1>4. ASSUME NEW h \in F!Hosts
      PROVE  /\ HostLoad(hosts', h) = Cardinality({q \in Requests : hctx'[q].host = h})
             /\ \A p \in F!Procs(h) : ProcLoad(hosts', h, p) =
                   Cardinality({q \in {o \in Requests : hctx'[o].host = h} :
                                    hctx'[q].proc = p /\ hctx'[q].got_proc})
  <2>1. /\ Cardinality({q \in Requests : hctx'[q].host = h}) =
              Cardinality(Others(r, h)) + (IF hctx'[r].host = h THEN 1 ELSE 0)
        /\ \A p : Cardinality({q \in {o \in Requests : hctx'[o].host = h} :
                                  hctx'[q].proc = p /\ hctx'[q].got_proc}) =
              Cardinality(OthersOf(r, h, p))
              + (IF hctx'[r].host = h /\ hctx'[r].proc = p /\ hctx'[r].got_proc THEN 1 ELSE 0)
    BY <1>2, <1>3, FcgiCounts
  <2>2. hctx'[r] = d /\ Counted(r, hosts', d) BY <1>1, <1>3
  <2> QED BY <2>1, <2>2 DEF Counted
<1>5. F!LoadsAgree'
  BY <1>4, SameCardinality DEF F!LoadsAgree, F!Holders, F!Users, F!Proc, HostLoad, ProcLoad
<1> QED BY <1>3, <1>5 DEF FcgiInv, FcgiDone

\* A request is one still when one of its fields gets another value.
LEMMA FcgiUpdates ==
    \A c \in FcgiRequest :
        /\ \A x \in {"none", "INIT", "CONNECT_DELAYED", "WRITE", "READ"} : [c EXCEPT !.state = x] \in FcgiRequest
        /\ \A x \in F!Hosts \cup {F!None} : [c EXCEPT !.host = x] \in FcgiRequest
        /\ \A x \in 0..NProcs : [c EXCEPT !.proc = x] \in FcgiRequest
        /\ \A x \in BOOLEAN : [c EXCEPT !.got_proc = x] \in FcgiRequest
        /\ \A x \in 0..MaxReconnects : [c EXCEPT !.reconnects = x] \in FcgiRequest
        /\ \A x \in 0..1 : [c EXCEPT !.asked = x] \in FcgiRequest
        /\ \A x \in BOOLEAN : [c EXCEPT !.bytes_out = x] \in FcgiRequest
        /\ \A x \in BOOLEAN : [c EXCEPT !.file_started = x] \in FcgiRequest
        /\ \A x \in Nat : [c EXCEPT !.joblist = x] \in FcgiRequest
        /\ \A x \in Nat : [c EXCEPT !.fdwait = x] \in FcgiRequest
        /\ \A x \in SUBSET {"IN", "OUT"} : [c EXCEPT !.events = x] \in FcgiRequest
        /\ \A x \in {"none", "pending", "up", "closed", "refused"} : [c EXCEPT !.socket = x] \in FcgiRequest
        /\ \A x \in Seq({"part", "end"}) : [c EXCEPT !.unread = x] \in FcgiRequest
<1> TAKE c \in FcgiRequest
<1>1. \A x \in {"none", "INIT", "CONNECT_DELAYED", "WRITE", "READ"} : [c EXCEPT !.state = x] \in FcgiRequest
  BY DEF FcgiRequest
<1>2. \A x \in F!Hosts \cup {F!None} : [c EXCEPT !.host = x] \in FcgiRequest
  BY DEF FcgiRequest
<1>3. \A x \in 0..NProcs : [c EXCEPT !.proc = x] \in FcgiRequest
  BY DEF FcgiRequest
<1>4. \A x \in BOOLEAN : [c EXCEPT !.got_proc = x] \in FcgiRequest
  BY DEF FcgiRequest
<1>5. \A x \in 0..MaxReconnects : [c EXCEPT !.reconnects = x] \in FcgiRequest
  BY DEF FcgiRequest
<1>6. \A x \in 0..1 : [c EXCEPT !.asked = x] \in FcgiRequest
  BY DEF FcgiRequest
<1>7. \A x \in BOOLEAN : [c EXCEPT !.bytes_out = x] \in FcgiRequest
  BY DEF FcgiRequest
<1>8. \A x \in BOOLEAN : [c EXCEPT !.file_started = x] \in FcgiRequest
  BY DEF FcgiRequest
<1>9. \A x \in Nat : [c EXCEPT !.joblist = x] \in FcgiRequest
  BY DEF FcgiRequest
<1>10. \A x \in Nat : [c EXCEPT !.fdwait = x] \in FcgiRequest
  BY DEF FcgiRequest
<1>11. \A x \in SUBSET {"IN", "OUT"} : [c EXCEPT !.events = x] \in FcgiRequest
  BY DEF FcgiRequest
<1>12. \A x \in {"none", "pending", "up", "closed", "refused"} : [c EXCEPT !.socket = x] \in FcgiRequest
  BY DEF FcgiRequest
<1>13. \A x \in Seq({"part", "end"}) : [c EXCEPT !.unread = x] \in FcgiRequest
  BY DEF FcgiRequest
<1> QED BY <1>1, <1>2, <1>3, <1>4, <1>5, <1>6, <1>7, <1>8, <1>9, <1>10, <1>11, <1>12, <1>13

LEMMA OthersCounted ==
    ASSUME IsFiniteSet(Requests), NEW r, NEW h
    PROVE  Cardinality(Others(r, h)) \in Nat /\ \A p : Cardinality(OthersOf(r, h, p)) \in Nat
<1>1. IsFiniteSet(Others(r, h)) BY FS_Subset DEF Others
<1>2. \A p : IsFiniteSet(OthersOf(r, h, p)) BY <1>1, FS_Subset DEF OthersOf
<1> QED BY <1>1, <1>2, FS_CardinalityType

\* What stays counted: the same holder of the same loads, one that takes a host, or is
\* bound to a process, and one that is released from both.
LEMMA CountedSame ==
    ASSUME NEW r, NEW hs, NEW n, NEW c, NEW d, Counted(r, hs, c), SameLoads(hs, n), d.host = c.host,
           (~c.got_proc /\ ~d.got_proc) \/ (d.proc = c.proc /\ d.got_proc = c.got_proc)
    PROVE  Counted(r, n, d)
BY DEF Counted, SameLoads

LEMMA CountedTaken ==
    ASSUME F!FastCGIAssumption, NEW r, NEW hs \in FcgiHosts, NEW h \in F!Hosts, NEW c, NEW d,
           Counted(r, hs, c), c.host = F!None, d.host = h, ~d.got_proc
    PROVE  LET n == F!fcgi_host_assign(hs, h) IN n \in FcgiHosts /\ Counted(r, n, d)
<1> DEFINE n == F!fcgi_host_assign(hs, h)
<1>1. hs[h].load \in Int /\ hs[h].active_procs \in Int BY FcgiReads
<1>2. n = WithHost(hs, h, hs[h].load + 1, hs[h].active_procs) BY FcgiOperators
<1>3. /\ n \in FcgiHosts
      /\ \A g \in F!Hosts :
            /\ HostLoad(n, g) = IF g = h THEN hs[h].load + 1 ELSE HostLoad(hs, g)
            /\ n[g].procs = hs[g].procs
  BY <1>1, <1>2, FcgiWithHost
<1> HIDE DEF n
<1>4. \A g \in F!Hosts : c.host # g BY FcgiFinite
<1>5. ASSUME NEW g \in F!Hosts
      PROVE  HostLoad(n, g) = Cardinality(Others(r, g)) + (IF d.host = g THEN 1 ELSE 0)
  <2>1. HostLoad(hs, g) = Cardinality(Others(r, g)) + 0 BY <1>4 DEF Counted
  <2>2. Cardinality(Others(r, g)) \in Nat BY FcgiFinite, OthersCounted
  <2>3. CASE g = h
    <3>1. HostLoad(n, g) = HostLoad(hs, g) + 1 BY <1>3, <2>3 DEF HostLoad
    <3> QED BY <2>1, <2>2, <2>3, <3>1
  <2>4. CASE g # h BY <1>3, <2>1, <2>2, <2>4
  <2> QED BY <2>3, <2>4
<1>6. ASSUME NEW g \in F!Hosts, NEW p \in F!Procs(g)
      PROVE  ProcLoad(n, g, p) = Cardinality(OthersOf(r, g, p))
                 + (IF d.host = g /\ d.proc = p /\ d.got_proc THEN 1 ELSE 0)
  <2>1. ProcLoad(n, g, p) = ProcLoad(hs, g, p) BY <1>3 DEF ProcLoad
  <2>2. ProcLoad(hs, g, p) = Cardinality(OthersOf(r, g, p)) + 0 BY <1>4 DEF Counted
  <2> QED BY <2>1, <2>2
<1> QED BY <1>3, <1>5, <1>6 DEF Counted, n

LEMMA CountedGot ==
    ASSUME F!FastCGIAssumption, NEW r, NEW hs \in FcgiHosts, NEW c, NEW d, Counted(r, hs, c),
           c.host \in F!Hosts, c.proc \in F!Procs(c.host), ~c.got_proc,
           d.host = c.host, d.proc = c.proc, d.got_proc
    PROVE  LET n == F!fcgi_proc_load_inc(hs, c.host, c.proc) IN n \in FcgiHosts /\ Counted(r, n, d)
<1> DEFINE h == c.host
           q == hs[h].procs[c.proc]
           o == [q EXCEPT !.load = q.load + 1]
           n == F!fcgi_proc_load_inc(hs, c.host, c.proc)
<1>1. q \in FcgiProcs /\ q.load \in Int BY FcgiReads
<1>2. o \in FcgiProcs /\ o.load = q.load + 1
  <2>1. q.load + 1 \in Int BY <1>1
  <2>2. \A x \in FcgiProcs, y \in Int :
               [x EXCEPT !.load = y] \in FcgiProcs /\ [x EXCEPT !.load = y].load = y
    BY FcgiProcUpdates
  <2> QED BY <1>1, <2>1, <2>2
<1>3. n = WithProc(hs, h, c.proc, o) BY ZenonT(60), FcgiOperators
<1> HIDE DEF o
<1>4. /\ n \in FcgiHosts
      /\ \A g \in F!Hosts :
            /\ HostLoad(n, g) = HostLoad(hs, g)
            /\ \A p \in F!Procs(g) : ProcLoad(n, g, p) =
                  IF g = h /\ p = c.proc THEN q.load + 1 ELSE ProcLoad(hs, g, p)
  BY <1>2, <1>3, FcgiWithProc
<1> HIDE DEF n
<1>5. ASSUME NEW g \in F!Hosts
      PROVE  HostLoad(n, g) = Cardinality(Others(r, g)) + (IF d.host = g THEN 1 ELSE 0)
  BY <1>4 DEF Counted
<1>6. ASSUME NEW g \in F!Hosts, NEW p \in F!Procs(g)
      PROVE  ProcLoad(n, g, p) = Cardinality(OthersOf(r, g, p))
                 + (IF d.host = g /\ d.proc = p /\ d.got_proc THEN 1 ELSE 0)
  <2>1. ProcLoad(hs, g, p) = Cardinality(OthersOf(r, g, p)) + 0 BY DEF Counted
  <2>2. Cardinality(OthersOf(r, g, p)) \in Nat BY FcgiFinite, OthersCounted
  <2>3. CASE g = h /\ p = c.proc
    <3>1. ProcLoad(n, g, p) = ProcLoad(hs, g, p) + 1 BY <1>4, <2>3 DEF ProcLoad
    <3> QED BY <2>1, <2>2, <2>3, <3>1
  <2>4. CASE ~(g = h /\ p = c.proc) BY <1>4, <2>1, <2>2, <2>4
  <2> QED BY <2>3, <2>4
<1> QED BY <1>4, <1>5, <1>6 DEF Counted, n

LEMMA CountedReleased ==
    ASSUME F!FastCGIAssumption, NEW r, NEW hs \in FcgiHosts, NEW c \in FcgiBound, NEW d,
           Counted(r, hs, c), d.host = F!None
    PROVE  LET n == F!Released(hs, c) IN n \in FcgiHosts /\ Counted(r, n, d)
<1> DEFINE h == c.host
           m == F!Detached(hs, c)
           n == F!Released(hs, c)
           bound(g, p) == c.host = g /\ c.proc = p /\ c.got_proc
<1>1. c.host \in F!Hosts \cup {F!None} /\ c.got_proc \in BOOLEAN
      /\ (c.got_proc => c.host # F!None /\ c.proc # F!None /\ c.proc \in F!Procs(c.host))
  BY DEF FcgiBound, FcgiRequest
<1>2. \A g \in F!Hosts : g # d.host /\ g # F!None BY FcgiFinite
<1>3. /\ m \in FcgiHosts
      /\ \A g \in F!Hosts :
            /\ HostLoad(m, g) = HostLoad(hs, g)
            /\ \A p \in F!Procs(g) : ProcLoad(m, g, p) = Cardinality(OthersOf(r, g, p))
  <2>1. CASE ~c.got_proc
    <3>1. m = hs BY <2>1 DEF F!Detached
    <3>2. \A g \in F!Hosts : \A p \in F!Procs(g) : ProcLoad(hs, g, p) = Cardinality(OthersOf(r, g, p)) + 0
      BY <2>1 DEF Counted
    <3>3. \A g \in F!Hosts : \A p \in F!Procs(g) : Cardinality(OthersOf(r, g, p)) \in Nat
      BY FcgiFinite, OthersCounted
    <3> QED BY <3>1, <3>2, <3>3
  <2>2. CASE c.got_proc
    <3> DEFINE q == hs[h].procs[c.proc]
               o == [q EXCEPT !.load = q.load - 1]
    <3>1. h \in F!Hosts /\ c.proc \in F!Procs(h) BY <1>1, <2>2
    <3>2. q \in FcgiProcs /\ q.load \in Int BY <3>1, FcgiReads
    <3>3. o \in FcgiProcs /\ o.load = q.load - 1
      <4>1. q.load - 1 \in Int BY <3>2
      <4>2. \A x \in FcgiProcs, y \in Int :
               [x EXCEPT !.load = y] \in FcgiProcs /\ [x EXCEPT !.load = y].load = y
        BY FcgiProcUpdates
      <4> QED BY <3>2, <4>1, <4>2
    <3>4. m = F!fcgi_proc_load_dec(hs, h, c.proc) BY <1>1, <2>2 DEF F!Detached
    <3>5. m = WithProc(hs, h, c.proc, o) BY <3>1, <3>4, FcgiOperators
    <3> HIDE DEF o, m
    <3>6. /\ m \in FcgiHosts
          /\ \A g \in F!Hosts :
                /\ HostLoad(m, g) = HostLoad(hs, g)
                /\ \A p \in F!Procs(g) : ProcLoad(m, g, p) =
                      IF g = h /\ p = c.proc THEN q.load - 1 ELSE ProcLoad(hs, g, p)
      BY <3>1, <3>3, <3>5, FcgiWithProc
    <3>7. ASSUME NEW g \in F!Hosts, NEW p \in F!Procs(g)
          PROVE  ProcLoad(m, g, p) = Cardinality(OthersOf(r, g, p))
      <4>1. ProcLoad(hs, g, p) = Cardinality(OthersOf(r, g, p)) + (IF bound(g, p) THEN 1 ELSE 0)
        BY DEF Counted
      <4>3. Cardinality(OthersOf(r, g, p)) \in Nat BY FcgiFinite, OthersCounted
      <4>4. CASE g = h /\ p = c.proc
        <5>1. ProcLoad(m, g, p) = ProcLoad(hs, g, p) - 1 BY <3>6, <4>4 DEF ProcLoad
        <5> QED BY <2>2, <4>1, <4>3, <4>4, <5>1
      <4>5. CASE ~(g = h /\ p = c.proc) BY <3>6, <4>1, <4>3, <4>5
      <4> QED BY <4>4, <4>5
    <3> QED BY <3>6, <3>7
  <2> QED BY <1>1, <2>1, <2>2
<1>4. /\ n \in FcgiHosts
      /\ \A g \in F!Hosts :
            /\ HostLoad(n, g) = IF g = h THEN HostLoad(hs, g) - 1 ELSE HostLoad(hs, g)
            /\ \A p \in F!Procs(g) : ProcLoad(n, g, p) = ProcLoad(m, g, p)
  <2>1. CASE h = F!None
    <3>1. n = hs /\ m = hs BY <2>1 DEF F!Released, F!Detached
    <3> HIDE DEF n, m
    <3> QED BY <1>2, <2>1, <3>1
  <2>2. CASE h # F!None
    <3>1. h \in F!Hosts BY <1>1, <2>2
    <3> HIDE DEF m
    <3>2. n = F!fcgi_host_reset(m, h) BY <2>2 DEF F!Released, m
    <3>3. m[h].load \in Int /\ m[h].active_procs \in Int BY <1>3, <3>1, FcgiReads
    <3>4. n = WithHost(m, h, m[h].load - 1, m[h].active_procs) BY <1>3, <3>1, <3>2, FcgiOperators
    <3> HIDE DEF n
    <3>5. /\ n \in FcgiHosts
          /\ \A g \in F!Hosts :
                /\ HostLoad(n, g) = IF g = h THEN m[h].load - 1 ELSE HostLoad(m, g)
                /\ n[g].procs = m[g].procs
      BY <1>3, <3>1, <3>3, <3>4, FcgiWithHost
    <3>6. m[h].load = HostLoad(hs, h) BY <1>3, <3>1 DEF HostLoad
    <3> QED BY <1>3, <3>5, <3>6 DEF ProcLoad
  <2> QED BY <2>1, <2>2
<1> HIDE DEF n, m
<1>5. ASSUME NEW g \in F!Hosts
      PROVE  /\ HostLoad(n, g) = Cardinality(Others(r, g)) + 0
             /\ \A p \in F!Procs(g) : ProcLoad(n, g, p) = Cardinality(OthersOf(r, g, p)) + 0
  <2>1. HostLoad(hs, g) = Cardinality(Others(r, g)) + (IF h = g THEN 1 ELSE 0) BY DEF Counted
  <2>3. Cardinality(Others(r, g)) \in Nat BY FcgiFinite, OthersCounted
  <2>4. HostLoad(n, g) = Cardinality(Others(r, g)) + 0 BY <1>4, <2>1, <2>3
  <2>5. ASSUME NEW p \in F!Procs(g) PROVE ProcLoad(n, g, p) = Cardinality(OthersOf(r, g, p)) + 0
    <3>2. Cardinality(OthersOf(r, g, p)) \in Nat BY FcgiFinite, OthersCounted
    <3>3. ProcLoad(n, g, p) = Cardinality(OthersOf(r, g, p)) BY <1>3, <1>4
    <3> QED BY <3>2, <3>3
  <2> QED BY <2>4, <2>5
<1> QED BY <1>2, <1>4, <1>5 DEF Counted, n

\* The context that no request has.
LEMMA FcgiIdle ==
    ASSUME F!FastCGIAssumption
    PROVE  /\ F!Idle \in FcgiRequest /\ F!Idle \in FcgiAtRest
           /\ F!Idle.host = F!None /\ F!Idle.proc = F!None /\ ~F!Idle.got_proc
           /\ ~F!Idle.bytes_out /\ F!Idle.asked = 0
<1>1. <<>> \in Seq({"part", "end"}) /\ 0 \in 0..NProcs /\ 0 \in 0..MaxReconnects
  BY DEF F!FastCGIAssumption
<1>2. F!Idle \in FcgiRequest BY <1>1 DEF F!Idle, FcgiRequest, F!None
<1> QED BY <1>2 DEF F!Idle, FcgiAtRest, FcgiKnown, FcgiBound

\* What becomes of a request: its context goes,
LEMMA FcgiCloses ==
    ASSUME F!FastCGIAssumption, NEW r \in Requests, NEW hs \in FcgiHosts, NEW c \in FcgiBound,
           Counted(r, hs, c), F!Close(r, hs, c)
    PROVE  FcgiDone(r)
<1>1. F!Idle \in FcgiAtRest /\ F!Idle.host = F!None BY FcgiIdle
<1>2. F!Released(hs, c) \in FcgiHosts /\ Counted(r, F!Released(hs, c), F!Idle)
  BY <1>1, CountedReleased
<1> QED BY <1>1, <1>2 DEF F!Close, FcgiDone

\* it is set,
LEMMA FcgiSets ==
    ASSUME NEW r, NEW hs \in FcgiHosts, NEW d \in FcgiAtRest, Counted(r, hs, d), F!Set(r, hs, d)
    PROVE  FcgiDone(r)
BY DEF F!Set, FcgiDone

\* it starts over,
LEMMA FcgiReconnects ==
    ASSUME F!FastCGIAssumption, NEW r \in Requests, NEW hs \in FcgiHosts, NEW c \in FcgiKnown,
           c.state \in {"INIT", "CONNECT_DELAYED"}, c.reconnects < MaxReconnects,
           Counted(r, hs, c), NEW caller, F!fcgi_reconnect(r, hs, c, caller)
    PROVE  FcgiDone(r)
<1> DEFINE e == [c EXCEPT !.state = "INIT", !.reconnects = @ + 1, !.host = F!None, !.proc = F!None,
                          !.events = {}, !.socket = "none", !.unread = <<>>]
           d == F!Queued(e, caller)
<1>1. c \in FcgiRequest /\ c \in FcgiBound /\ ~c.got_proc /\ ~c.bytes_out /\ c.asked = 0
  BY DEF FcgiKnown, FcgiBound
<1>2. c.reconnects \in 0..MaxReconnects /\ MaxReconnects \in Nat
  BY <1>1 DEF FcgiRequest, F!FastCGIAssumption
<1>3. c.reconnects + 1 \in 0..MaxReconnects /\ 0 \in 0..NProcs /\ <<>> \in Seq({"part", "end"})
      /\ {} \in SUBSET {"IN", "OUT"}
  BY <1>2 DEF F!FastCGIAssumption
<1>4. e \in FcgiRequest
  <2> DEFINE e1 == [c EXCEPT !.state = "INIT"]
             e2 == [e1 EXCEPT !.reconnects = c.reconnects + 1]
             e3 == [e2 EXCEPT !.host = F!None]
             e4 == [e3 EXCEPT !.proc = F!None]
             e5 == [e4 EXCEPT !.events = {}]
             e6 == [e5 EXCEPT !.socket = "none"]
  <2>1. e = [e6 EXCEPT !.unread = <<>>] OBVIOUS
  <2>2. F!None \in 0..NProcs BY <1>3 DEF F!None
  <2> HIDE DEF e
  <2>3. e1 \in FcgiRequest BY <1>1 DEF FcgiRequest
  <2> HIDE DEF e1
  <2>4. e2 \in FcgiRequest BY <1>3, <2>3 DEF FcgiRequest
  <2> HIDE DEF e2
  <2>5. e3 \in FcgiRequest BY <2>4 DEF FcgiRequest
  <2> HIDE DEF e3
  <2>6. e4 \in FcgiRequest BY <2>2, <2>5 DEF FcgiRequest
  <2> HIDE DEF e4
  <2>7. e5 \in FcgiRequest BY <1>3, <2>6 DEF FcgiRequest
  <2> HIDE DEF e5
  <2>8. e6 \in FcgiRequest BY <2>7 DEF FcgiRequest
  <2> HIDE DEF e6
  <2> QED BY <1>3, <2>1, <2>8 DEF FcgiRequest
<1>5. e.state = "INIT" /\ e.host = F!None /\ e.proc = F!None /\ ~e.got_proc /\ ~e.bytes_out
      /\ e.asked = 0 /\ e.joblist \in Nat /\ e.fdwait \in Nat
  BY <1>1 DEF FcgiRequest
<1> HIDE DEF e
<1>6. d \in FcgiRequest /\ d.state = "INIT" /\ d.host = F!None /\ d.proc = F!None /\ ~d.got_proc
      /\ ~d.bytes_out /\ d.asked = 0 /\ d.joblist > 0
  <2> DEFINE n == IF caller = "event" THEN e.fdwait ELSE e.fdwait + 1
             m == e.joblist + 1
             x == [e EXCEPT !.fdwait = n]
             y == [x EXCEPT !.joblist = m]
  <2>1. d = y BY <1>4 DEF F!Queued, F!Waiting, FcgiRequest
  <2>2. n \in Nat /\ m \in Nat /\ m > 0
    <3>1. e.fdwait + 1 \in Nat /\ m \in Nat /\ m > 0 BY <1>5
    <3> QED BY <1>5, <3>1
  <2> HIDE DEF n, m
  <2>3. x \in FcgiRequest /\ x.state = e.state /\ x.host = e.host
        /\ x.proc = e.proc /\ x.got_proc = e.got_proc /\ x.bytes_out = e.bytes_out /\ x.asked = e.asked
    BY <1>4, <2>2 DEF FcgiRequest
  <2> HIDE DEF x
  <2>4. y \in FcgiRequest /\ y.joblist = m /\ y.state = x.state /\ y.host = x.host
        /\ y.proc = x.proc /\ y.got_proc = x.got_proc /\ y.bytes_out = x.bytes_out /\ y.asked = x.asked
    BY <2>2, <2>3 DEF FcgiRequest
  <2> HIDE DEF y, d
  <2> QED BY <1>5, <2>1, <2>2, <2>3, <2>4
<1>7. d \in FcgiAtRest
  <2> HIDE DEF d
  <2> QED BY <1>6 DEF FcgiAtRest, FcgiKnown, FcgiBound
<1>8. hosts' = F!Released(hs, c) /\ hctx' = [hctx EXCEPT ![r] = d] BY DEF F!fcgi_reconnect, e
<1> HIDE DEF d
<1>9. hosts' \in FcgiHosts /\ Counted(r, hosts', d) BY <1>1, <1>6, <1>8, CountedReleased
<1> QED BY <1>7, <1>8, <1>9 DEF FcgiDone

\* or is refused, and does one or the other.
LEMMA FcgiRefuses ==
    ASSUME F!FastCGIAssumption, NEW r \in Requests, NEW hs \in FcgiHosts, NEW c \in FcgiKnown,
           c.state \in {"INIT", "CONNECT_DELAYED"}, c.host # F!None,
           Counted(r, hs, c), NEW caller, F!Refused(r, hs, c, caller)
    PROVE  FcgiDone(r)
<1>1. PICK results \in F!Results :
          LET n == F!fcgi_restart_dead_procs(hs, c.host, results, FALSE)
          IN  IF F!Again(c) THEN F!fcgi_reconnect(r, n, c, caller) ELSE F!Close(r, n, c)
  BY DEF F!Refused
<1> DEFINE n == F!fcgi_restart_dead_procs(hs, c.host, results, FALSE)
<1>2. c.host \in F!Hosts /\ c \in FcgiBound BY DEF FcgiKnown, FcgiBound, FcgiRequest
<1>3. n \in FcgiHosts /\ SameLoads(hs, n) BY <1>2, FcgiRestarts
<1>4. IF F!Again(c) THEN F!fcgi_reconnect(r, n, c, caller) ELSE F!Close(r, n, c) BY <1>1
<1> HIDE DEF n
<1>5. Counted(r, n, c) BY <1>3, CountedSame
<1>6. CASE F!Again(c)
  <2>1. c.reconnects < MaxReconnects BY <1>6 DEF F!Again
  <2> QED BY <1>3, <1>4, <1>5, <1>6, <2>1, FcgiReconnects
<1>7. CASE ~F!Again(c) BY <1>2, <1>3, <1>4, <1>5, <1>7, FcgiCloses
<1> QED BY <1>6, <1>7

\* What is written to a process is written to the first that has any of it.
FcgiWriting == {c \in FcgiBound :
    /\ c.host # F!None /\ c.proc # F!None
    /\ c.state \in {"INIT", "CONNECT_DELAYED", "WRITE"} /\ (c.bytes_out => c.state = "WRITE")
    /\ c.asked = (IF c.bytes_out THEN 1 ELSE 0)}

LEMMA FcgiWrites ==
    ASSUME F!FastCGIAssumption, NEW r \in Requests, NEW hs \in FcgiHosts, NEW c \in FcgiWriting,
           Counted(r, hs, c), F!Write(r, hs, c)
    PROVE  FcgiDone(r)
<1>1. c \in FcgiRequest /\ c \in FcgiBound BY DEF FcgiWriting, FcgiBound
<1>2. ASSUME NEW s \in {"READ", "WRITE"}, NEW e \in SUBSET {"IN", "OUT"},
             s = "READ" => "IN" \in e, s = "WRITE" => "OUT" \in e,
             F!Set(r, hs, [F!Written(c) EXCEPT !.state = s, !.events = e])
      PROVE  FcgiDone(r)
  <2> DEFINE w == [c EXCEPT !.asked = 1, !.bytes_out = TRUE]
             d == [w EXCEPT !.state = s, !.events = e]
  <2>1. F!Written(c) = w
    <3>1. (IF c.state = "WRITE" /\ c.bytes_out THEN c.asked ELSE c.asked + 1) = 1 BY DEF FcgiWriting
    <3> QED BY <1>1, <3>1 DEF F!Written, FcgiRequest
  <2>2. w \in FcgiRequest
    <3>1. 1 \in 0..1 /\ TRUE \in BOOLEAN OBVIOUS
    <3>2. [c EXCEPT !.asked = 1] \in FcgiRequest BY <1>1, <3>1, FcgiUpdates
    <3>3. [[c EXCEPT !.asked = 1] EXCEPT !.bytes_out = TRUE] \in FcgiRequest BY <3>1, <3>2, FcgiUpdates
    <3> QED BY <3>3
  <2>3. w.asked = 1 /\ w.bytes_out /\ w.host = c.host /\ w.proc = c.proc /\ w.got_proc = c.got_proc
    BY <1>1 DEF FcgiRequest
  <2> HIDE DEF w
  <2>4. d \in FcgiRequest BY <1>2, <2>2, FcgiUpdates
  <2>5. d.state = s /\ d.events = e /\ d.asked = 1 /\ d.bytes_out /\ d.host = c.host /\ d.proc = c.proc
        /\ d.got_proc = c.got_proc
    BY <2>2, <2>3 DEF FcgiRequest
  <2>6. F!Set(r, hs, d) BY <1>2, <2>1
  <2> HIDE DEF d
  <2>7. d \in FcgiBound BY <1>1, <2>4, <2>5 DEF FcgiBound
  <2>8. d \in FcgiAtRest BY <1>2, <2>5, <2>7 DEF FcgiAtRest, FcgiKnown, FcgiWriting
  <2>9. Counted(r, hs, d) BY <2>5, CountedSame DEF SameLoads
  <2> QED BY <2>6, <2>8, <2>9, FcgiSets
<1>3. CASE F!Set(r, hs, [F!Written(c) EXCEPT !.state = "READ", !.events = {"IN"}]) BY <1>2, <1>3
<1>4. CASE F!Set(r, hs, [F!Written(c) EXCEPT !.state = "WRITE", !.events = {"OUT"}]) BY <1>2, <1>4
<1>5. CASE F!Set(r, hs, [c EXCEPT !.state = "WRITE", !.events = {"OUT"}])
  <2> DEFINE d == [c EXCEPT !.state = "WRITE", !.events = {"OUT"}]
  <2>1. d \in FcgiRequest BY <1>1, FcgiUpdates
  <2>2. d.state = "WRITE" /\ d.events = {"OUT"} /\ d.asked = c.asked /\ d.bytes_out = c.bytes_out
        /\ d.host = c.host /\ d.proc = c.proc /\ d.got_proc = c.got_proc
    BY <1>1 DEF FcgiRequest
  <2> HIDE DEF d
  <2>3. d \in FcgiBound BY <1>1, <2>1, <2>2 DEF FcgiBound
  <2>4. d \in FcgiAtRest BY <2>2, <2>3 DEF FcgiAtRest, FcgiKnown, FcgiWriting
  <2>5. Counted(r, hs, d) BY <2>2, CountedSame DEF SameLoads
  <2> QED BY <1>5, <2>4, <2>5, FcgiSets DEF d
<1>6. CASE F!Broken(r, hs, c) BY <1>1, <1>6, FcgiCloses DEF F!Broken
<1> QED BY <1>3, <1>4, <1>5, <1>6 DEF F!Write

LEMMA FcgiPrepares ==
    ASSUME F!FastCGIAssumption, NEW r \in Requests, NEW hs \in FcgiHosts, NEW c \in FcgiKnown,
           c.state \in {"INIT", "CONNECT_DELAYED"}, c.host # F!None, c.proc # F!None,
           Counted(r, hs, c), F!PrepareWrite(r, hs, c)
    PROVE  FcgiDone(r)
<1> DEFINE n == F!fcgi_proc_load_inc(hs, c.host, c.proc)
           d == [c EXCEPT !.got_proc = TRUE]
<1>1. c \in FcgiRequest /\ c \in FcgiBound /\ ~c.got_proc /\ ~c.bytes_out /\ c.asked = 0
      /\ c.host \in F!Hosts /\ c.proc \in F!Procs(c.host)
  BY DEF FcgiKnown, FcgiBound, FcgiRequest
<1>2. d \in FcgiRequest /\ d.host = c.host /\ d.proc = c.proc /\ d.got_proc /\ d.state = c.state
      /\ ~d.bytes_out /\ d.asked = 0
  BY <1>1 DEF FcgiRequest
<1>3. F!Write(r, n, d) \/ F!Close(r, n, d) BY DEF F!PrepareWrite
<1> HIDE DEF d
<1>4. n \in FcgiHosts /\ Counted(r, n, d) BY <1>1, <1>2, CountedGot
<1>5. d \in FcgiBound BY <1>1, <1>2 DEF FcgiBound
<1>6. d \in FcgiWriting BY <1>2, <1>5 DEF FcgiWriting
<1> HIDE DEF n
<1>7. CASE F!Write(r, n, d) BY <1>4, <1>6, <1>7, FcgiWrites
<1>8. CASE F!Close(r, n, d) BY <1>4, <1>5, <1>8, FcgiCloses
<1> QED BY <1>3, <1>7, <1>8

\* A process that cannot be reached is stopped, and no load changes.
LEMMA FcgiStops ==
    ASSUME F!FastCGIAssumption, NEW r, NEW hs \in FcgiHosts, NEW c \in FcgiKnown,
           c.host \in F!Hosts, c.proc \in F!Procs(c.host), Counted(r, hs, c)
    PROVE  /\ LET n == F!Stopped(hs, c.host, c.proc, "OVERLOADED") IN n \in FcgiHosts /\ Counted(r, n, c)
           /\ LET n == F!fcgi_host_disable(hs, c.host, c.proc) IN n \in FcgiHosts /\ Counted(r, n, c)
<1> DEFINE h == c.host
           p == c.proc
<1>1. ASSUME NEW n \in FcgiHosts, SameLoads(hs, n) PROVE Counted(r, n, c) BY <1>1, CountedSame
<1>2. LET n == F!Stopped(hs, h, p, "OVERLOADED") IN n \in FcgiHosts /\ SameLoads(hs, n) BY FcgiKeeps
<1>3. hs[h].procs[p] \in FcgiProcs BY FcgiReads
<1>4. LET n == F!fcgi_host_disable(hs, h, p) IN n \in FcgiHosts /\ SameLoads(hs, n)
  <2>1. CASE hs[h].procs[p].is_local BY <2>1, FcgiKeeps DEF F!fcgi_host_disable, F!Proc
  <2>2. CASE ~hs[h].procs[p].is_local
    <3>1. hs[h].procs[p].child = "none" BY <1>3, <2>2 DEF FcgiProcs
    <3> QED BY <2>2, <3>1, FcgiKeeps DEF F!fcgi_host_disable, F!Proc
  <2> QED BY <2>1, <2>2
<1> QED BY <1>1, <1>2, <1>4

LEMMA FcgiConnects ==
    ASSUME F!FastCGIAssumption, NEW r \in Requests, NEW hs \in FcgiHosts, NEW c \in FcgiKnown,
           c.state = "INIT", c.host \in F!Hosts, c.proc \in F!Procs(c.host),
           Counted(r, hs, c), NEW caller, F!Connect(r, hs, c, caller)
    PROVE  FcgiDone(r)
<1>1. c \in FcgiRequest /\ c \in FcgiBound /\ ~c.got_proc /\ ~c.bytes_out /\ c.asked = 0
      /\ c.host # F!None /\ c.proc # F!None
  <2>1. c.proc \in 1..NProcs /\ c.host # F!None BY FcgiFinite
  <2> QED BY <2>1 DEF FcgiKnown, FcgiBound, F!None
<1>2. CASE F!Set(r, hs, [c EXCEPT !.state = "CONNECT_DELAYED", !.socket = "pending", !.events = {"OUT"}])
  <2> DEFINE d == [c EXCEPT !.state = "CONNECT_DELAYED", !.socket = "pending", !.events = {"OUT"}]
  <2>1. d \in FcgiRequest BY <1>1, FcgiUpdates
  <2>2. d.state = "CONNECT_DELAYED" /\ d.events = {"OUT"} /\ d.asked = 0 /\ ~d.bytes_out
        /\ d.host = c.host /\ d.proc = c.proc /\ ~d.got_proc /\ d.got_proc = c.got_proc
    BY <1>1 DEF FcgiRequest
  <2> HIDE DEF d
  <2>3. d \in FcgiBound BY <1>1, <2>1, <2>2 DEF FcgiBound
  <2>4. d \in FcgiAtRest BY <1>1, <2>2, <2>3 DEF FcgiAtRest, FcgiKnown
  <2>5. Counted(r, hs, d) BY <2>2, CountedSame DEF SameLoads
  <2> QED BY <1>2, <2>4, <2>5, FcgiSets DEF d
<1>3. CASE F!Refused(r, F!Stopped(hs, c.host, c.proc, "OVERLOADED"), c, caller)
  <2> DEFINE n == F!Stopped(hs, c.host, c.proc, "OVERLOADED")
  <2>1. n \in FcgiHosts /\ Counted(r, n, c) BY FcgiStops
  <2> HIDE DEF n
  <2> QED BY <1>1, <1>3, <2>1, FcgiRefuses DEF n
<1>4. CASE F!Refused(r, F!fcgi_host_disable(hs, c.host, c.proc), c, caller)
  <2> DEFINE n == F!fcgi_host_disable(hs, c.host, c.proc)
  <2>1. n \in FcgiHosts /\ Counted(r, n, c) BY FcgiStops
  <2> HIDE DEF n
  <2> QED BY <1>1, <1>4, <2>1, FcgiRefuses DEF n
<1>5. CASE F!PrepareWrite(r, hs, [c EXCEPT !.socket = "up", !.reconnects = 0])
  <2> DEFINE d == [c EXCEPT !.socket = "up", !.reconnects = 0]
  <2>1. 0 \in 0..MaxReconnects BY DEF F!FastCGIAssumption
  <2>2. d \in FcgiRequest BY <1>1, <2>1, FcgiUpdates
  <2>3. d.state = "INIT" /\ d.asked = 0 /\ ~d.bytes_out
        /\ d.host = c.host /\ d.proc = c.proc /\ ~d.got_proc /\ d.got_proc = c.got_proc
    BY <1>1 DEF FcgiRequest
  <2> HIDE DEF d
  <2>4. d \in FcgiBound BY <1>1, <2>2, <2>3 DEF FcgiBound
  <2>5. d \in FcgiKnown BY <1>1, <2>3, <2>4 DEF FcgiKnown
  <2>6. Counted(r, hs, d) BY <2>3, CountedSame DEF SameLoads
  <2> QED BY <1>1, <1>5, <2>3, <2>5, <2>6, FcgiPrepares DEF d
<1> QED BY <1>2, <1>3, <1>4, <1>5 DEF F!Connect

\* Whatever its state, writing to a host ends with the request in its place.
LEMMA FcgiWritesRequest ==
    ASSUME F!FastCGIAssumption, FcgiInv, NEW r \in Requests, NEW hs \in FcgiHosts, NEW c \in FcgiKnown,
           c.host # F!None, Counted(r, hs, c), NEW caller, F!fcgi_write_request(r, hs, c, caller)
    PROVE  FcgiDone(r) /\ faults' \in 0..MaxFaults
<1>1. c \in FcgiRequest /\ c \in FcgiBound /\ c.host \in F!Hosts BY DEF FcgiKnown, FcgiBound, FcgiRequest
<1>2. faults \in 0..MaxFaults /\ last_used \in 0..NHosts BY DEF FcgiInv
<1>3. CASE c.state = "INIT"
  <2> DEFINE running == F!Running(hs, c.host)
             p == F!LeastLoad(running, [q \in running |-> F!Proc(hs, c.host, q).load])
  <2>1. ~c.got_proc /\ ~c.bytes_out /\ c.asked = 0 BY <1>3 DEF FcgiKnown
  <2>2. ASSUME NEW x \in 0..NProcs, x = F!None \/ x \in F!Procs(c.host)
        PROVE  LET d == [c EXCEPT !.proc = x] IN
               /\ d \in FcgiKnown /\ d.state = "INIT" /\ d.host = c.host /\ d.proc = x
               /\ Counted(r, hs, d)
    <3> DEFINE d == [c EXCEPT !.proc = x]
    <3>1. d \in FcgiRequest /\ d.state = "INIT" /\ d.host = c.host /\ d.proc = x /\ ~d.got_proc
          /\ ~d.bytes_out /\ d.asked = 0
      BY <1>1, <1>3, <2>1 DEF FcgiRequest
    <3> HIDE DEF d
    <3>2. d \in FcgiBound BY <1>1, <2>2, <3>1 DEF FcgiBound
    <3>3. d \in FcgiKnown BY <3>1, <3>2 DEF FcgiKnown
    <3>4. Counted(r, hs, d) BY <2>1, <3>1, CountedSame DEF SameLoads
    <3> QED BY <3>1, <3>3, <3>4 DEF d
  <2>3. running # {} => p \in F!Procs(c.host) /\ p \in 0..NProcs
    <3>1. running # {} => p \in F!Procs(c.host) BY <1>1, <1>2, FcgiChoice DEF FcgiInv
    <3>2. F!Procs(c.host) \subseteq 0..NProcs BY <1>1, FcgiFinite
    <3> QED BY <3>1, <3>2
  <2>4. CASE running = {} /\ F!Refused(r, hs, [c EXCEPT !.proc = F!None], caller) /\ UNCHANGED faults
    <3> DEFINE d == [c EXCEPT !.proc = F!None]
    <3>1. F!None \in 0..NProcs BY DEF F!None, F!FastCGIAssumption
    <3>2. d \in FcgiKnown /\ d.state = "INIT" /\ d.host = c.host /\ Counted(r, hs, d) BY <2>2, <3>1
    <3>3. F!Refused(r, hs, d, caller) BY <2>4
    <3> HIDE DEF d
    <3>4. FcgiDone(r) BY <3>2, <3>3, FcgiRefuses
    <3> QED BY <1>2, <2>4, <3>4
  <2>5. CASE running # {} /\ F!Connect(r, hs, [c EXCEPT !.proc = p], caller) /\ UNCHANGED faults
    <3> DEFINE d == [c EXCEPT !.proc = p]
    <3>1. F!Connect(r, hs, d, caller) BY <2>5
    <3>2. p \in F!Procs(c.host) /\ p \in 0..NProcs BY <2>3, <2>5
    <3> HIDE DEF p
    <3>3. d \in FcgiKnown /\ d.state = "INIT" /\ d.host = c.host /\ d.proc = p /\ Counted(r, hs, d)
      BY <2>2, <3>2
    <3> HIDE DEF d
    <3>4. FcgiDone(r) BY <1>1, <3>1, <3>2, <3>3, FcgiConnects
    <3> QED BY <1>2, <2>5, <3>4
  <2>6. CASE /\ running # {} /\ faults < MaxFaults
             /\ F!Set(r, hs, [c EXCEPT !.proc = p, !.fdwait = @ + 1]) /\ faults' = faults + 1
    <3> DEFINE d == [c EXCEPT !.proc = p]
               n == c.fdwait + 1
               e == [d EXCEPT !.fdwait = n]
    <3>1. p \in F!Procs(c.host) /\ p \in 0..NProcs BY <2>3, <2>6
    <3>2. F!Set(r, hs, e)
      <4>1. [c EXCEPT !.proc = p, !.fdwait = @ + 1] = e BY <1>1 DEF FcgiKnown, FcgiBound, FcgiRequest
      <4> QED BY <2>6, <4>1
    <3>n. n \in Nat /\ n > 0 BY <1>1 DEF FcgiKnown, FcgiBound, FcgiRequest
    <3> HIDE DEF p, n
    <3>3. d \in FcgiKnown /\ d.state = "INIT" /\ Counted(r, hs, d) BY <2>2, <3>1
    <3> HIDE DEF d
    <3>4. d \in FcgiRequest /\ d \in FcgiBound BY <3>3 DEF FcgiKnown, FcgiBound
    <3>5. e \in FcgiRequest /\ e.state = "INIT" /\ e.host = d.host /\ e.proc = d.proc
          /\ e.got_proc = d.got_proc /\ e.bytes_out = d.bytes_out /\ e.asked = d.asked /\ e.fdwait = n
      BY <3>3, <3>4, <3>n DEF FcgiRequest
    <3> HIDE DEF e
    <3>6. e \in FcgiBound BY <3>4, <3>5 DEF FcgiBound
    <3>7. e \in FcgiAtRest BY <3>3, <3>5, <3>6, <3>n DEF FcgiAtRest, FcgiKnown
    <3>8. Counted(r, hs, e) BY <3>3, <3>5, CountedSame DEF SameLoads
    <3>9. FcgiDone(r) BY <3>2, <3>7, <3>8, FcgiSets
    <3>10. faults' \in 0..MaxFaults BY <1>2, <2>6 DEF F!FastCGIAssumption
    <3> QED BY <3>9, <3>10
  <2> QED BY <1>3, <2>4, <2>5, <2>6 DEF F!fcgi_write_request
<1>4. CASE c.state = "CONNECT_DELAYED"
  <2>1. c.proc # F!None /\ c.proc \in F!Procs(c.host) BY <1>1, <1>4 DEF FcgiKnown, FcgiBound
  <2>2. UNCHANGED faults /\ IF c.socket = "refused"
                            THEN F!Refused(r, F!fcgi_host_disable(hs, c.host, c.proc), c, caller)
                            ELSE F!PrepareWrite(r, hs, c)
    BY <1>4 DEF F!fcgi_write_request
  <2>3. CASE c.socket = "refused"
    <3> DEFINE n == F!fcgi_host_disable(hs, c.host, c.proc)
    <3>1. n \in FcgiHosts /\ Counted(r, n, c) BY <1>1, <2>1, FcgiStops
    <3>2. F!Refused(r, n, c, caller) BY <2>2, <2>3
    <3> HIDE DEF n
    <3>3. FcgiDone(r) BY <1>4, <3>1, <3>2, FcgiRefuses
    <3> QED BY <1>2, <2>2, <3>3
  <2>4. CASE c.socket # "refused"
    <3>1. FcgiDone(r) BY <1>4, <2>1, <2>2, <2>4, FcgiPrepares
    <3> QED BY <1>2, <2>2, <3>1
  <2> QED BY <2>3, <2>4
<1>5. CASE c.state = "WRITE"
  <2>1. c \in FcgiWriting BY <1>1, <1>5 DEF FcgiWriting, FcgiKnown
  <2>2. F!Write(r, hs, c) /\ UNCHANGED faults BY <1>5 DEF F!fcgi_write_request
  <2>3. FcgiDone(r) BY <2>1, <2>2, FcgiWrites
  <2> QED BY <1>2, <2>2, <2>3
<1>6. CASE c.state = "READ"
  <2>1. c \in FcgiAtRest BY <1>6 DEF FcgiAtRest
  <2>2. F!Set(r, hs, c) /\ UNCHANGED faults BY <1>6 DEF F!fcgi_write_request
  <2>3. FcgiDone(r) BY <2>1, <2>2, FcgiSets
  <2> QED BY <1>2, <2>2, <2>3
<1> QED BY <1>3, <1>4, <1>5, <1>6 DEF F!fcgi_write_request

LEMMA FcgiHandles ==
    ASSUME F!FastCGIAssumption, FcgiInv, NEW r \in Requests, NEW c \in FcgiKnown,
           Counted(r, hosts, c), NEW caller, F!mod_fastcgi_handle_subrequest(r, c, caller)
    PROVE  FcgiInv'
<1>1. c \in FcgiRequest /\ c \in FcgiBound BY DEF FcgiKnown, FcgiBound
<1>2. hosts \in FcgiHosts /\ faults \in 0..MaxFaults /\ last_used \in 0..NHosts BY DEF FcgiInv
<1>3. CASE c.host # F!None
  <2>1. FcgiDone(r) /\ faults' \in 0..MaxFaults
    BY <1>2, <1>3, FcgiWritesRequest DEF F!mod_fastcgi_handle_subrequest
  <2>2. last_used' = last_used BY <1>3 DEF F!mod_fastcgi_handle_subrequest
  <2> QED BY <1>2, <2>1, <2>2, FcgiEnds
<1>4. CASE c.host = F!None /\ F!Close(r, hosts, c) /\ UNCHANGED <<last_used, faults>>
  <2>1. FcgiDone(r) BY <1>1, <1>2, <1>4, FcgiCloses
  <2> QED BY <1>2, <1>4, <2>1, FcgiEnds
<1>5. ASSUME NEW h \in F!Choices, c.host = F!None, last_used' = h,
             F!fcgi_write_request(r, F!fcgi_host_assign(hosts, h),
                                  [c EXCEPT !.host = h, !.proc = F!None], caller)
      PROVE  FcgiInv'
  <2> DEFINE n == F!fcgi_host_assign(hosts, h)
             d == [c EXCEPT !.host = h, !.proc = F!None]
  <2>1. h \in F!Hosts /\ h # F!None /\ h \in 0..NHosts
    <3>1. h \in F!Hosts BY <1>2, <1>5, FcgiChoice
    <3> QED BY <3>1, FcgiFinite DEF F!Hosts
  <2>2. ~c.got_proc /\ c.state \in {"none", "INIT"} BY <1>1, <1>5 DEF FcgiKnown, FcgiBound, FcgiRequest
  <2>3. F!None \in 0..NProcs BY DEF F!None, F!FastCGIAssumption
  <2>4. d \in FcgiRequest BY <1>1, <2>1, <2>3, FcgiUpdates
  <2>5. d.host = h /\ d.proc = F!None /\ d.state = c.state /\ d.got_proc = c.got_proc
        /\ d.bytes_out = c.bytes_out /\ d.asked = c.asked
    BY <1>1 DEF FcgiRequest
  <2>6. F!fcgi_write_request(r, n, d, caller) BY <1>5
  <2> HIDE DEF d
  <2>7. c.state = "INIT" BY <2>2, <2>5, <2>6 DEF F!fcgi_write_request
  <2>8. d \in FcgiBound BY <2>2, <2>4, <2>5 DEF FcgiBound
  <2>9. d \in FcgiKnown BY <2>5, <2>7, <2>8 DEF FcgiKnown
  <2>10. n \in FcgiHosts /\ Counted(r, n, d) BY <1>2, <1>5, <2>1, <2>2, <2>5, CountedTaken
  <2> HIDE DEF n
  <2>11. FcgiDone(r) /\ faults' \in 0..MaxFaults BY <2>1, <2>5, <2>6, <2>9, <2>10, FcgiWritesRequest
  <2> QED BY <1>5, <2>1, <2>11, FcgiEnds
<1> QED BY <1>3, <1>4, <1>5 DEF F!mod_fastcgi_handle_subrequest

\* A child that has died is replaced, and no load changes.
LEMMA FcgiReplaces ==
    ASSUME F!FastCGIAssumption, hosts \in FcgiHosts, NEW c, c.host \in F!Hosts,
           c.proc \in F!Procs(c.host), NEW results \in F!Results
    PROVE  LET n == F!Replace(c, results) IN n \in FcgiHosts /\ SameLoads(hosts, n)
<1> DEFINE h == c.host
           p == c.proc
           m == F!Reaped(hosts, h, p)
           n == F!fcgi_spawn_connection(m, h, p, results[p])
           q == hosts[h].procs[p]
<1>1. SameLoads(hosts, hosts) BY DEF SameLoads
<1>2. CASE ~(q.is_local /\ q.state # "DIED" /\ q.child = "zombie")
  <2>1. F!Replace(c, results) = hosts BY <1>2 DEF F!Replace, F!Proc
  <2> QED BY ZenonT(60), <1>1, <2>1
<1>3. CASE q.is_local /\ q.state # "DIED" /\ q.child = "zombie"
  <2>1. m \in FcgiHosts /\ SameLoads(hosts, m) /\ m[h].procs[p].child = "none" BY <1>3, FcgiKeeps
  <2>2. results[p] \in F!SpawnResults
    <3>1. p \in 1..NProcs BY FcgiFinite
    <3> QED BY <3>1 DEF F!Results
  <2>3. F!Replace(c, results) = IF results[p] = "failed" THEN [n EXCEPT ![h].procs[p].state = "DIED"] ELSE n
    BY <1>3 DEF F!Replace, F!Proc
  <2> HIDE DEF m
  <2>4. n \in FcgiHosts /\ SameLoads(m, n) /\ (results[p] = "failed" => n = m) BY <2>1, <2>2, FcgiSpawns
  <2>5. SameLoads(hosts, n) BY <2>1, <2>4, FcgiSameTransitive
  <2> HIDE DEF n
  <2>6. CASE results[p] = "failed"
    <3> DEFINE o == [n EXCEPT ![h].procs[p].state = "DIED"]
    <3>1. n[h].procs[p].child = "none" BY <2>1, <2>4, <2>6
    <3>2. o \in FcgiHosts /\ SameLoads(n, o) BY <2>4, <3>1, FcgiKeeps
    <3> HIDE DEF o
    <3>3. SameLoads(hosts, o) BY <2>5, <3>2, FcgiSameTransitive
    <3> QED BY <2>3, <2>6, <3>2, <3>3 DEF o
  <2>7. CASE results[p] # "failed" BY <2>3, <2>4, <2>5, <2>7
  <2> QED BY <2>6, <2>7
<1> QED BY <1>2, <1>3

\* The backend's answer goes into the context, or ends it.
LEMMA FcgiDemuxes ==
    ASSUME F!FastCGIAssumption, FcgiInv, NEW r \in Requests, hctx[r].state = "READ",
           F!Demux(r, hctx[r])
    PROVE  FcgiDone(r)
<1> DEFINE c == hctx[r]
           rest == [c EXCEPT !.unread = <<>>]
<1>1. c \in FcgiAtRest /\ c \in FcgiKnown /\ c \in FcgiBound /\ c \in FcgiRequest /\ c.bytes_out
      /\ c.host \in F!Hosts /\ c.proc \in F!Procs(c.host)
  <2>1. c \in FcgiAtRest BY DEF FcgiInv
  <2> QED BY <2>1 DEF FcgiAtRest, FcgiKnown, FcgiBound, FcgiRequest
<1>2. hosts \in FcgiHosts BY DEF FcgiInv
<1>3. Counted(r, hosts, c) BY FcgiBegins
<1>4. CASE c.unread = <<>>
  <2>1. PICK results \in F!Results : F!Close(r, F!Replace(c, results), c)
    BY <1>1, <1>4 DEF F!Demux, F!Unasked
  <2> DEFINE n == F!Replace(c, results)
  <2>2. n \in FcgiHosts /\ SameLoads(hosts, n) BY <1>1, <1>2, FcgiReplaces
  <2>3. F!Close(r, n, c) BY <2>1
  <2> HIDE DEF n, c
  <2>4. Counted(r, n, c) BY <1>3, <2>2, CountedSame
  <2> QED BY <1>1, <2>2, <2>3, <2>4, FcgiCloses
<1>5. CASE c.unread # <<>>
  <2>1. <<>> \in Seq({"part", "end"}) OBVIOUS
  <2>2. rest \in FcgiRequest /\ rest.host = c.host /\ rest.proc = c.proc /\ rest.got_proc = c.got_proc
        /\ rest.state = c.state /\ rest.bytes_out = c.bytes_out /\ rest.asked = c.asked
        /\ rest.events = c.events
    BY <1>1, <2>1 DEF FcgiRequest
  <2>3. F!Close(r, hosts, rest) \/ F!Set(r, hosts, [rest EXCEPT !.file_started = TRUE])
    BY <1>5 DEF F!Demux
  <2> HIDE DEF rest
  <2>4. rest \in FcgiBound BY <1>1, <2>2 DEF FcgiBound
  <2>5. Counted(r, hosts, rest) BY <1>3, <2>2, CountedSame DEF SameLoads
  <2>6. CASE F!Close(r, hosts, rest) BY <1>2, <2>4, <2>5, <2>6, FcgiCloses
  <2>7. CASE F!Set(r, hosts, [rest EXCEPT !.file_started = TRUE])
    <3> DEFINE d == [rest EXCEPT !.file_started = TRUE]
    <3>1. d \in FcgiRequest /\ d.host = rest.host /\ d.proc = rest.proc /\ d.got_proc = rest.got_proc
          /\ d.state = rest.state /\ d.bytes_out = rest.bytes_out /\ d.asked = rest.asked
          /\ d.events = rest.events
      BY <2>2 DEF FcgiRequest
    <3>2. F!Set(r, hosts, d) BY <2>7
    <3> HIDE DEF d
    <3>3. d \in FcgiBound BY <2>4, <3>1 DEF FcgiBound
    <3>4. d \in FcgiAtRest BY <1>1, <2>2, <3>1, <3>3 DEF FcgiAtRest, FcgiKnown
    <3>5. Counted(r, hosts, d) BY <2>5, <3>1, CountedSame DEF SameLoads
    <3> QED BY <1>2, <3>2, <3>4, <3>5, FcgiSets
  <2> QED BY <2>3, <2>6, <2>7
<1> QED BY <1>4, <1>5

\* A request whose context changes only in what does not count is in its place.
LEMMA FcgiTouched ==
    ASSUME F!FastCGIAssumption, FcgiInv, NEW r \in Requests, NEW d \in FcgiRequest,
           d.host = hctx[r].host, d.proc = hctx[r].proc, d.got_proc = hctx[r].got_proc,
           d.state = hctx[r].state, d.bytes_out = hctx[r].bytes_out, d.asked = hctx[r].asked,
           d.events = hctx[r].events
    PROVE  /\ d \in FcgiKnown /\ Counted(r, hosts, d)
           /\ d.joblist = hctx[r].joblist /\ d.fdwait = hctx[r].fdwait => d \in FcgiAtRest
<1>1. hctx[r] \in FcgiAtRest /\ hctx[r] \in FcgiKnown /\ hctx[r] \in FcgiBound
  <2>1. hctx[r] \in FcgiAtRest BY DEF FcgiInv
  <2> QED BY <2>1 DEF FcgiAtRest, FcgiKnown
<1>2. d \in FcgiBound BY <1>1 DEF FcgiBound
<1>3. d \in FcgiKnown BY <1>1, <1>2 DEF FcgiKnown
<1>4. Counted(r, hosts, hctx[r]) BY FcgiBegins
<1>5. Counted(r, hosts, d) BY <1>4, CountedSame DEF SameLoads
<1> QED BY <1>1, <1>3, <1>5 DEF FcgiAtRest

LEMMA FcgiStep ==
    ASSUME F!FastCGIAssumption, FcgiInv, [F!Next]_F!vars
    PROVE  FcgiInv'
<1>1. /\ hosts \in FcgiHosts /\ hctx \in [Requests -> FcgiAtRest]
      /\ last_used \in 0..NHosts /\ faults \in 0..MaxFaults
  BY DEF FcgiInv
<1>2. \A r \in Requests : hctx[r] \in FcgiAtRest /\ hctx[r] \in FcgiKnown /\ hctx[r] \in FcgiBound
                          /\ hctx[r] \in FcgiRequest
  <2>1. \A r \in Requests : hctx[r] \in FcgiAtRest BY <1>1
  <2> QED BY <2>1 DEF FcgiAtRest, FcgiKnown, FcgiBound
<1>3. ASSUME NEW r \in Requests, F!fcgi_check_extension(r) PROVE FcgiInv'
  <2>0. PICK n \in 1..2 : hctx' = [hctx EXCEPT ![r] = [F!Idle EXCEPT !.state = "INIT", !.joblist = n]]
    BY <1>3 DEF F!fcgi_check_extension
  <2> DEFINE d == [F!Idle EXCEPT !.state = "INIT", !.joblist = n]
             c == hctx[r]
  <2>1. F!Idle \in FcgiRequest /\ n \in Nat /\ n > 0 BY FcgiIdle
  <2>2. d \in FcgiRequest /\ d.state = "INIT" /\ d.joblist > 0 /\ d.host = F!None /\ d.proc = F!None
        /\ ~d.got_proc /\ ~d.bytes_out /\ d.asked = 0
    BY <2>1, FcgiIdle DEF FcgiRequest
  <2>3. hctx' = [hctx EXCEPT ![r] = d] /\ UNCHANGED <<hosts, last_used, faults>> /\ c.state = "none"
    BY <1>3, <2>0 DEF F!fcgi_check_extension
  <2> HIDE DEF d
  <2>4. c.host = F!None /\ ~c.got_proc BY <1>2, <2>3 DEF FcgiKnown
  <2>5. Counted(r, hosts, c) BY FcgiBegins
  <2> HIDE DEF c
  <2>6. Counted(r, hosts, d) BY <2>2, <2>4, <2>5, CountedSame DEF SameLoads
  <2>7. d \in FcgiBound BY <2>2 DEF FcgiBound
  <2>8. d \in FcgiAtRest BY <2>2, <2>7 DEF FcgiAtRest, FcgiKnown
  <2>9. FcgiDone(r) BY <1>1, <2>3, <2>6, <2>8 DEF FcgiDone
  <2> QED BY <1>1, <2>3, <2>9, FcgiEnds
<1>4. ASSUME NEW r \in Requests, F!Continue(r) PROVE FcgiInv'
  <2> DEFINE c == hctx[r]
             m == c.joblist - 1
             n == c.fdwait - 1
             j == [c EXCEPT !.joblist = m]
             f == [c EXCEPT !.fdwait = n]
  <2>1. c \in FcgiRequest BY <1>2
  <2>a. c.joblist \in Nat /\ c.fdwait \in Nat BY <2>1 DEF FcgiRequest
  <2>b. (c.joblist > 0 => m \in Nat) /\ (c.fdwait > 0 => n \in Nat) BY <2>a
  <2>c. [c EXCEPT !.joblist = @ - 1] = j /\ [c EXCEPT !.fdwait = @ - 1] = f BY <2>1 DEF FcgiRequest
  <2>d. \/ c.joblist > 0 /\ F!mod_fastcgi_handle_subrequest(r, j, "joblist")
        \/ c.fdwait > 0 /\ F!mod_fastcgi_handle_subrequest(r, f, "fdwait")
    BY <1>4, <2>c DEF F!Continue
  <2> HIDE DEF m, n
  <2>2. ASSUME c.joblist > 0
        PROVE
        /\ j \in FcgiRequest /\ j.host = c.host /\ j.proc = c.proc /\ j.got_proc = c.got_proc
        /\ j.state = c.state /\ j.bytes_out = c.bytes_out /\ j.asked = c.asked /\ j.events = c.events
    BY <2>1, <2>2, <2>b DEF FcgiRequest
  <2>3. ASSUME c.fdwait > 0
        PROVE
        /\ f \in FcgiRequest /\ f.host = c.host /\ f.proc = c.proc /\ f.got_proc = c.got_proc
        /\ f.state = c.state /\ f.bytes_out = c.bytes_out /\ f.asked = c.asked /\ f.events = c.events
    BY <2>1, <2>3, <2>b DEF FcgiRequest
  <2> HIDE DEF j, f
  <2>4. CASE c.joblist > 0 /\ F!mod_fastcgi_handle_subrequest(r, j, "joblist")
    <3>1. j \in FcgiKnown /\ Counted(r, hosts, j) BY <2>2, <2>4, FcgiTouched
    <3> QED BY <2>4, <3>1, FcgiHandles
  <2>5. CASE c.fdwait > 0 /\ F!mod_fastcgi_handle_subrequest(r, f, "fdwait")
    <3>1. f \in FcgiKnown /\ Counted(r, hosts, f) BY <2>3, <2>5, FcgiTouched
    <3> QED BY <2>5, <3>1, FcgiHandles
  <2> QED BY <2>d, <2>4, <2>5
<1>5. ASSUME NEW r \in Requests, F!fcgi_connection_close_callback(r) PROVE FcgiInv'
  <2>1. F!Close(r, hosts, hctx[r]) /\ UNCHANGED <<last_used, faults>>
    BY <1>5 DEF F!fcgi_connection_close_callback
  <2>2. Counted(r, hosts, hctx[r]) BY FcgiBegins
  <2>3. FcgiDone(r) BY <1>1, <1>2, <2>1, <2>2, FcgiCloses
  <2> QED BY <1>1, <2>1, <2>3, FcgiEnds
<1>6. ASSUME NEW r \in Requests, F!fcgi_handle_fdevent(r) PROVE FcgiInv'
  <2>0. Counted(r, hosts, hctx[r]) BY FcgiBegins
  <2>1. CASE hctx[r].state = "READ" /\ F!Demux(r, hctx[r]) /\ UNCHANGED <<last_used, faults>>
    <3>1. FcgiDone(r) BY <2>1, FcgiDemuxes
    <3> QED BY <1>1, <2>1, <3>1, FcgiEnds
  <2>2. CASE F!mod_fastcgi_handle_subrequest(r, hctx[r], "event") BY <1>2, <2>0, <2>2, FcgiHandles
  <2>3. CASE F!Close(r, hosts, hctx[r]) /\ UNCHANGED <<last_used, faults>>
    <3>1. FcgiDone(r) BY <1>1, <1>2, <2>0, <2>3, FcgiCloses
    <3> QED BY <1>1, <2>3, <3>1, FcgiEnds
  <2> QED BY <1>6, <2>1, <2>2, <2>3 DEF F!fcgi_handle_fdevent
<1>7. ASSUME NEW r \in Requests, F!Backend(r) PROVE FcgiInv'
  <2> DEFINE c == hctx[r]
  <2>1. c \in FcgiRequest BY <1>2
  <2>2. ASSUME NEW d \in FcgiRequest, hctx' = [hctx EXCEPT ![r] = d],
               d.host = c.host, d.proc = c.proc, d.got_proc = c.got_proc,
               d.state = c.state, d.bytes_out = c.bytes_out, d.asked = c.asked, d.events = c.events,
               d.joblist = c.joblist, d.fdwait = c.fdwait
        PROVE  FcgiInv'
    <3>1. UNCHANGED <<hosts, last_used, faults>> BY <1>7 DEF F!Backend
    <3>2. d \in FcgiAtRest /\ Counted(r, hosts, d) BY <2>2, FcgiTouched
    <3>3. FcgiDone(r) BY <1>1, <2>2, <3>1, <3>2 DEF FcgiDone
    <3> QED BY <1>1, <3>1, <3>3, FcgiEnds
  <2>3. ASSUME NEW s \in {"up", "refused", "closed"}, hctx' = [hctx EXCEPT ![r].socket = s]
        PROVE  FcgiInv'
    <3> DEFINE d == [c EXCEPT !.socket = s]
    <3>1. hctx' = [hctx EXCEPT ![r] = d] BY <1>1, <2>3
    <3>2. /\ d \in FcgiRequest /\ d.host = c.host /\ d.proc = c.proc /\ d.got_proc = c.got_proc
          /\ d.state = c.state /\ d.bytes_out = c.bytes_out /\ d.asked = c.asked /\ d.events = c.events
          /\ d.joblist = c.joblist /\ d.fdwait = c.fdwait
      BY <2>1 DEF FcgiRequest
    <3> HIDE DEF d
    <3> QED BY <2>2, <3>1, <3>2
  <2>4. ASSUME NEW piece \in {"part", "end"}, hctx' = [hctx EXCEPT ![r].unread = Append(@, piece)]
        PROVE  FcgiInv'
    <3> DEFINE u == Append(c.unread, piece)
               d == [c EXCEPT !.unread = u]
    <3>1. u \in Seq({"part", "end"})
      <4>1. c.unread \in Seq({"part", "end"}) BY <2>1 DEF FcgiRequest
      <4> QED BY <4>1
    <3>2. hctx' = [hctx EXCEPT ![r] = d] BY <1>1, <2>4
    <3> HIDE DEF u
    <3>3. /\ d \in FcgiRequest /\ d.host = c.host /\ d.proc = c.proc /\ d.got_proc = c.got_proc
          /\ d.state = c.state /\ d.bytes_out = c.bytes_out /\ d.asked = c.asked /\ d.events = c.events
          /\ d.joblist = c.joblist /\ d.fdwait = c.fdwait
      BY <2>1, <3>1 DEF FcgiRequest
    <3> HIDE DEF d
    <3> QED BY <2>2, <3>2, <3>3
  <2> QED BY <1>7, <2>3, <2>4 DEF F!Backend
<1>8. ASSUME SameLoads(hosts, hosts'), hosts' \in FcgiHosts, hctx' \in [Requests -> FcgiAtRest],
             \A q \in Requests : hctx'[q].host = hctx[q].host /\ hctx'[q].proc = hctx[q].proc
                                 /\ hctx'[q].got_proc = hctx[q].got_proc,
             last_used' = last_used, faults' \in 0..MaxFaults
      PROVE  FcgiInv'
  <2>1. \A h : F!Holders(h)' = F!Holders(h) BY <1>8 DEF F!Holders
  <2>2. \A h, p : F!Users(h, p)' = F!Users(h, p) BY <1>8, <2>1 DEF F!Users, F!Holders
  <2>3. F!LoadsAgree BY DEF FcgiInv
  <2>4. ASSUME NEW h \in F!Hosts
        PROVE  /\ hosts'[h].load = F!Cardinality(F!Holders(h)')
               /\ \A p \in F!Procs(h) : F!Proc(hosts', h, p).load = F!Cardinality(F!Users(h, p)')
    BY <1>8, <2>1, <2>2, <2>3 DEF F!LoadsAgree, SameLoads, HostLoad, ProcLoad, F!Proc
  <2>5. F!LoadsAgree' BY <2>4 DEF F!LoadsAgree
  <2> QED BY <1>1, <1>8, <2>5 DEF FcgiInv
<1>9. ASSUME NEW h \in F!Hosts, NEW p \in F!Procs(h), F!Dies(h, p) PROVE FcgiInv'
  <2> DEFINE q == hosts[h].procs[p]
             o == [q EXCEPT !.child = "zombie"]
             socket(r) == IF hctx[r].socket = "up" THEN "closed" ELSE "refused"
             hit(r) == hctx[r].host = h /\ hctx[r].proc = p /\ hctx[r].socket \in {"pending", "up"}
             d(r) == IF hit(r) THEN [hctx[r] EXCEPT !.socket = socket(r)] ELSE hctx[r]
  <2>1. q \in FcgiProcs /\ q.child = "alive" BY <1>1, <1>9, FcgiReads DEF F!Dies, F!Proc
  <2>2. o \in FcgiProcs /\ o.load = q.load BY <2>1 DEF FcgiProcs
  <2>3. hosts' = WithProc(hosts, h, p, o)
    <3>1. hosts' = [hosts EXCEPT ![h].procs[p].child = "zombie"] BY <1>9 DEF F!Dies
    <3>2. hosts \in [F!Hosts -> UNION {FcgiHost(g) : g \in F!Hosts}] BY <1>1, FcgiReads
    <3> QED BY <3>1, <3>2 DEF WithProc
  <2> HIDE DEF o
  <2>4. hosts' \in FcgiHosts /\ SameLoads(hosts, hosts') BY <1>1, <2>2, <2>3, FcgiReads, FcgiSame
  <2>5. hctx' = [r \in Requests |-> d(r)] BY <1>1, <1>2, <1>9 DEF F!Dies
  <2>6. ASSUME NEW r \in Requests
        PROVE  d(r) \in FcgiAtRest /\ d(r).host = hctx[r].host /\ d(r).proc = hctx[r].proc
               /\ d(r).got_proc = hctx[r].got_proc
    <3>1. CASE ~hit(r) BY <1>2, <3>1
    <3>2. CASE hit(r)
      <4> DEFINE c == hctx[r]
                 e == [c EXCEPT !.socket = socket(r)]
      <4>1. c \in FcgiRequest BY <1>2
      <4>2. /\ e \in FcgiRequest /\ e.host = c.host /\ e.proc = c.proc /\ e.got_proc = c.got_proc
            /\ e.state = c.state /\ e.bytes_out = c.bytes_out /\ e.asked = c.asked /\ e.events = c.events
            /\ e.joblist = c.joblist /\ e.fdwait = c.fdwait
        BY <4>1 DEF FcgiRequest
      <4>3. d(r) = e BY <3>2
      <4> HIDE DEF e, d
      <4>4. e \in FcgiAtRest BY <4>2, FcgiTouched
      <4> QED BY <4>2, <4>3, <4>4
    <3> QED BY <3>1, <3>2
  <2>7. faults' \in 0..MaxFaults /\ last_used' = last_used
    BY <1>1, <1>9 DEF F!Dies, F!FastCGIAssumption
  <2> HIDE DEF d
  <2> QED BY <1>8, <2>4, <2>5, <2>6, <2>7
<1>10. CASE F!mod_fastcgi_handle_trigger
  <2>1. hosts' \in FcgiHosts /\ SameLoads(hosts, hosts') BY <1>1, <1>10, FcgiTriggers
  <2>2. UNCHANGED <<last_used, hctx, faults>> BY <1>10 DEF F!mod_fastcgi_handle_trigger
  <2> QED BY <1>1, <1>8, <2>1, <2>2
<1>11. CASE UNCHANGED F!vars
  <2>1. UNCHANGED <<hosts, last_used, hctx, faults>> BY <1>11 DEF F!vars
  <2>2. SameLoads(hosts, hosts') BY <2>1 DEF SameLoads
  <2> QED BY <1>1, <1>8, <2>1, <2>2
<1> QED BY <1>3, <1>4, <1>5, <1>6, <1>7, <1>9, <1>10, <1>11 DEF F!Next

LEMMA FcgiStart ==
    ASSUME F!FastCGIAssumption, F!Init
    PROVE  FcgiInv
<1> DEFINE first(h) == [state |-> "RUNNING", load |-> 0, is_local |-> h \in Local,
                       child |-> IF h \in Local THEN "alive" ELSE "none"]
           host(h) == [load |-> 0, active_procs |-> F!Cardinality(F!Procs(h)),
                       procs |-> [p \in F!Procs(h) |-> first(h)]]
<1>1. hosts = [h \in F!Hosts |-> host(h)] BY DEF F!Init
<1>2. last_used = 0 /\ faults = 0 /\ hctx = [r \in Requests |-> F!Idle] BY DEF F!Init, F!None
<1>3. \A h \in F!Hosts : first(h) \in FcgiProcs /\ first(h).load = 0
  <2> TAKE h \in F!Hosts
  <2>1. CASE h \in Local
    <3>1. first(h) = [state |-> "RUNNING", load |-> 0, is_local |-> TRUE, child |-> "alive"] BY <2>1
    <3> QED BY <3>1 DEF FcgiProcs
  <2>2. CASE h \notin Local
    <3>0. (h \in Local) = FALSE BY <2>2
    <3>1. first(h) = [state |-> "RUNNING", load |-> 0, is_local |-> FALSE, child |-> "none"]
      BY <2>2, <3>0
    <3> QED BY <3>1 DEF FcgiProcs
  <2> QED BY <2>1, <2>2
<1> HIDE DEF first
<1>4. \A h \in F!Hosts : host(h) \in FcgiHost(h)
  <2>1. \A h \in F!Hosts : F!Cardinality(F!Procs(h)) \in Int
    BY FcgiFinite, SameCardinality, FS_CardinalityType
  <2> QED BY <1>3, <2>1 DEF FcgiHost
<1>5. \A h \in F!Hosts : host(h).load = 0 /\ \A p \in F!Procs(h) : host(h).procs[p].load = 0 BY <1>3
<1> HIDE DEF host
<1>6. hosts \in FcgiHosts BY <1>1, <1>4 DEF FcgiHosts
<1>7. F!Idle \in FcgiAtRest /\ F!Idle.host = F!None /\ ~F!Idle.got_proc BY FcgiIdle
<1>8. \A h \in F!Hosts : F!Holders(h) = {} /\ \A p : F!Users(h, p) = {}
  BY <1>2, <1>7, FcgiFinite DEF F!Holders, F!Users
<1>9. F!Cardinality({}) = 0 BY SameCardinality, FS_EmptySet
<1>10. F!LoadsAgree BY <1>1, <1>5, <1>8, <1>9 DEF F!LoadsAgree, F!Proc
<1> QED BY <1>2, <1>6, <1>7, <1>10 DEF FcgiInv, F!FastCGIAssumption

LEMMA FcgiInvariant ==
    ASSUME F!FastCGIAssumption
    PROVE  F!Spec => []FcgiInv
<1>1. F!Init => FcgiInv BY FcgiStart
<1>2. FcgiInv /\ [F!Next]_F!vars => FcgiInv' BY FcgiStep
<1> QED BY <1>1, <1>2, PTL DEF F!Spec

\* FastCGI.tla, LoadsAgree: the load of a host is the number of requests that have it, the
\* load of a process the number of those connected to it: fcgi_host_assign() and
\* fcgi_proc_load_inc() are undone once on every way out, and no respawn changes them.
THEOREM FcgiLoadsAgree ==
    ASSUME F!FastCGIAssumption
    PROVE  F!Spec => []F!LoadsAgree
<1>1. FcgiInv => F!LoadsAgree BY DEF FcgiInv
<1> QED BY <1>1, FcgiInvariant, PTL

\* FastCGI.tla, AskedOnce: no request is sent to a second process once the first has had
\* any of it: fcgi_reconnect() is reached only before anything is written.
THEOREM FcgiAskedOnce ==
    ASSUME F!FastCGIAssumption
    PROVE  F!Spec => []F!AskedOnce
<1>1. FcgiInv => F!AskedOnce
  <2>1. \A c \in FcgiAtRest : c.asked \in 0..1 BY DEF FcgiAtRest, FcgiKnown, FcgiBound, FcgiRequest
  <2> QED BY <2>1 DEF FcgiInv, F!AskedOnce
<1> QED BY <1>1, FcgiInvariant, PTL

\* FastCGI.tla, Continued: a request that is under way is in the joblist, in the
\* fdwaitqueue, or listens for what its state waits for, whoever has called
\* fcgi_write_request() and however that has failed.
THEOREM FcgiContinued ==
    ASSUME F!FastCGIAssumption
    PROVE  F!Spec => []F!Continued
<1>1. FcgiInv => F!Continued
  <2>1. \A c \in FcgiAtRest : c.state # "none" =>
            \/ c.joblist > 0 \/ c.fdwait > 0
            \/ c.state \in {"CONNECT_DELAYED", "WRITE"} /\ "OUT" \in c.events
            \/ c.state = "READ" /\ "IN" \in c.events
    BY DEF FcgiAtRest, FcgiKnown, FcgiBound, FcgiRequest
  <2> QED BY <2>1 DEF FcgiInv, F!Continued
<1> QED BY <1>1, FcgiInvariant, PTL

\* FastCGI.tla, OneChild: no process is started while the one in its place still lives:
\* each of the three places that spawn has seen the child before it gone.
THEOREM FcgiOneChild ==
    ASSUME F!FastCGIAssumption
    PROVE  F!Spec => []F!OneChild
<1>1. FcgiInv => F!OneChild
  <2> SUFFICES ASSUME FcgiInv, NEW h \in Local, NEW p \in F!Procs(h)
               PROVE  F!Proc(hosts, h, p).child # "two"
    BY DEF F!OneChild
  <2>1. hosts \in FcgiHosts /\ h \in F!Hosts BY DEF FcgiInv, F!FastCGIAssumption, F!Hosts
  <2>2. hosts[h].procs[p] \in FcgiProcs BY <2>1, FcgiReads
  <2> QED BY <2>2 DEF FcgiProcs, F!Proc
<1> QED BY <1>1, FcgiInvariant, PTL

\* FastCGI.tla, TypeOK: the states a process and a request can be in, and a request that
\* starts over no more than MaxReconnects times.
THEOREM FcgiTypeOK ==
    ASSUME F!FastCGIAssumption
    PROVE  F!Spec => []F!TypeOK
<1>1. FcgiInv => F!TypeOK
  <2> SUFFICES ASSUME FcgiInv PROVE F!TypeOK OBVIOUS
  <2>1. \A c \in FcgiAtRest : c.reconnects \in 0..MaxReconnects
    BY DEF FcgiAtRest, FcgiKnown, FcgiBound, FcgiRequest
  <2>2. ASSUME NEW h \in F!Hosts, NEW p \in F!Procs(h)
        PROVE  F!Proc(hosts, h, p).state \in {"RUNNING", "OVERLOADED", "DIED_WAIT_FOR_PID", "DIED"}
    <3>1. hosts[h].procs[p] \in FcgiProcs BY FcgiReads DEF FcgiInv
    <3> QED BY <3>1 DEF FcgiProcs, F!Proc
  <2> QED BY <2>1, <2>2 DEF FcgiInv, F!TypeOK
<1> QED BY <1>1, FcgiInvariant, PTL
=============================================================================
