----------------------------- MODULE ServerProofs -----------------------------
(***************************************************************************)
(* The properties of the main loop, for every number of connections and    *)
(* descriptors.                                                            *)
(*                                                                         *)
(* First the table: connections are taken out of it from many places, in   *)
(* every run of the machine and for entries of the joblist and of the      *)
(* fdwaitqueue that may be stale, and still it is used only as module      *)
(* ConnTable says.  Then one invariant after the other, each inductive     *)
(* together with those before it: the types, who owns which descriptor     *)
(* (OwnInv), the events of a round (EventInv), and what will wake every    *)
(* connection (WatchInv).  All of them hold while the machine runs too,    *)
(* where the properties they give are only stated between two runs.        *)
(*                                                                         *)
(* What makes them short is that a step is taken for one connection        *)
(* (Moved): the lemmas say once what opening, closing and waiting do to    *)
(* the others.                                                             *)
(***************************************************************************)
EXTENDS Server, FiniteSetTheorems, TLAPS

TableInv == TableTypeOK /\ TableOK

(***************************************************************************)
(* An object with an index is in use, and the index is its own.            *)
(***************************************************************************)
LEMMA HasPlace ==
    ASSUME TableInv, NEW c1 \in Conns, ndx[c1] # -1
    PROVE  ndx[c1] \in Places /\ ndx[c1] < used /\ ptr[ndx[c1]] = c1
<1>1. PICK k \in Places : ptr[k] = c1 BY DEF TableInv, TableOK
<1>2. k < used /\ ndx[c1] = k BY <1>1 DEF TableInv, TableOK
<1> QED BY <1>1, <1>2

\* The table begins in order.
LEMMA TableInvInit == TableInit => TableInv
<1> SUFFICES ASSUME TableInit PROVE TableInv
  OBVIOUS
<1> USE TableAssumption DEF TableInit, Places, Conns
<1>1. TableTypeOK BY DEF TableTypeOK
<1>2. ASSUME NEW c1 \in Conns PROVE \E k \in Places : ptr[k] = c1
  <2>1. c1 - 1 \in Places /\ ptr[c1 - 1] = c1 OBVIOUS
  <2> QED BY <2>1
<1>3. \A k, j \in Places : ptr[k] = ptr[j] => k = j OBVIOUS
<1>4. \A k \in Places : ndx[ptr[k]] = IF k < used THEN k ELSE -1 OBVIOUS
<1> QED BY <1>1, <1>2, <1>3, <1>4 DEF TableInv, TableOK

\* The object behind the last one in use is taken.
LEMMA GetKeeps == TableInv /\ GetNewConnection => TableInv'
<1> SUFFICES ASSUME TableInv, GetNewConnection PROVE TableInv'
  OBVIOUS
<1> USE TableAssumption DEF TableInv, GetNewConnection, Places
<1>1. used \in Places /\ ptr[used] \in Conns BY DEF TableTypeOK
<1>2. TableTypeOK' BY <1>1 DEF TableTypeOK
<1>3. \A k \in Places : ptr[k] = ptr[used] => k = used BY <1>1 DEF TableOK
<1>4. \A k \in Places : ndx'[ptr'[k]] = IF k < used' THEN k ELSE -1
  BY <1>1, <1>3 DEF TableOK, TableTypeOK
<1> QED BY <1>2, <1>4 DEF TableOK

\* The last one in use takes the place of the one given back.
LEMMA DelKeeps ==
    ASSUME TableInv, NEW c1 \in Conns, ConnectionDel(c1)
    PROVE  TableInv'
<1> DEFINE here == ndx[c1]
           last == used - 1
<1> USE TableAssumption DEF TableInv, ConnectionDel
<1>1. here \in Places /\ here < used /\ ptr[here] = c1 BY HasPlace
<1>2. last \in Places /\ here <= last /\ ptr[last] \in Conns /\ used' = last
  BY <1>1 DEF TableTypeOK, Places
<1>3. ptr' = [ptr EXCEPT ![here] = ptr[last], ![last] = c1] OBVIOUS
<1>4. ndx' = [ndx EXCEPT ![ptr[last]] = here, ![c1] = -1] OBVIOUS
<1>5. ptr \in [Places -> Conns] /\ ndx \in [Conns -> Places \cup {-1}] BY DEF TableTypeOK
<1> HIDE DEF here, last
<1>6. TableTypeOK'
  <2>1. ptr' \in [Places -> Conns] BY <1>1, <1>2, <1>3, <1>5
  <2>2. ndx' \in [Conns -> Places \cup {-1}] BY <1>1, <1>2, <1>4, <1>5
  <2>3. used' \in 0..Size BY <1>2 DEF Places
  <2> QED BY <2>1, <2>2, <2>3 DEF TableTypeOK
<1>7. \A k, j \in Places : ptr[k] = ptr[j] => k = j BY DEF TableOK
<1>8. /\ ptr'[last] = c1 /\ (here # last => ptr'[here] = ptr[last])
      /\ \A k \in Places : k # here /\ k # last => ptr'[k] = ptr[k]
  BY <1>1, <1>2, <1>3, <1>5
<1>9. ASSUME NEW c \in Conns PROVE \E k \in Places : ptr'[k] = c
  <2>1. PICK k \in Places : ptr[k] = c BY DEF TableOK
  <2>2. CASE k = here BY <1>1, <1>2, <1>8, <2>1, <2>2
  <2>3. CASE k # here /\ k = last BY <1>1, <1>2, <1>8, <2>1, <2>3
  <2>4. CASE k # here /\ k # last BY <1>8, <2>1, <2>4
  <2> QED BY <2>2, <2>3, <2>4
<1>10. ASSUME NEW k \in Places, NEW j \in Places, ptr'[k] = ptr'[j] PROVE k = j
  <2>1. ptr'[here] = ptr[last] /\ ptr'[last] = ptr[here] BY <1>1, <1>8
  <2>2. CASE k = here
    <3>1. CASE j = last /\ j # here BY <1>1, <1>2, <1>7, <1>10, <2>1, <2>2, <3>1
    <3>2. CASE j # last /\ j # here
      <4>1. ptr'[j] = ptr[j] BY <1>8, <3>2
      <4> QED BY <1>2, <1>7, <1>10, <2>1, <2>2, <3>2, <4>1
    <3> QED BY <2>2, <3>1, <3>2
  <2>3. CASE k # here /\ k = last
    <3>1. CASE j = here BY <1>1, <1>2, <1>7, <1>10, <2>1, <2>3, <3>1
    <3>2. CASE j # last /\ j # here
      <4>1. ptr'[j] = ptr[j] BY <1>8, <3>2
      <4> QED BY <1>1, <1>7, <1>10, <2>1, <2>3, <3>2, <4>1
    <3> QED BY <2>3, <3>1, <3>2
  <2>4. CASE k # here /\ k # last
    <3>0. ptr'[k] = ptr[k] BY <1>8, <2>4
    <3>1. CASE j = here BY <1>2, <1>7, <1>10, <2>1, <2>4, <3>0, <3>1
    <3>2. CASE j = last BY <1>1, <1>7, <1>10, <2>1, <2>4, <3>0, <3>2
    <3>3. CASE j # here /\ j # last
      <4>1. ptr'[j] = ptr[j] BY <1>8, <3>3
      <4> QED BY <1>7, <1>10, <3>0, <4>1
    <3> QED BY <3>1, <3>2, <3>3
  <2> QED BY <2>2, <2>3, <2>4
<1>11. ASSUME NEW k \in Places PROVE ndx'[ptr'[k]] = IF k < used' THEN k ELSE -1
  <2>0. ndx[ptr[k]] = IF k < used THEN k ELSE -1 BY DEF TableOK
  <2>1. CASE k = last
    BY <1>2, <1>4, <1>5, <1>8, <2>1 DEF Places
  <2>2. CASE k # last /\ k = here
    <3>1. ptr'[k] = ptr[last] /\ ptr[last] # c1 BY <1>1, <1>2, <1>7, <1>8, <2>2
    <3>2. ndx'[ptr[last]] = here BY <1>2, <1>4, <1>5, <3>1
    <3> QED BY <1>2, <2>2, <3>1, <3>2 DEF Places
  <2>3. CASE k # last /\ k # here
    <3>1. ptr'[k] = ptr[k] /\ ptr[k] # c1 /\ ptr[k] # ptr[last] /\ ptr[k] \in Conns
      BY <1>1, <1>2, <1>5, <1>7, <1>8, <2>3
    <3>2. ndx'[ptr[k]] = ndx[ptr[k]] BY <1>4, <1>5, <3>1
    <3>3. k < used <=> k < used' BY <1>2, <2>3 DEF TableTypeOK, Places
    <3> QED BY <2>0, <3>1, <3>2, <3>3
  <2> QED BY <2>1, <2>2, <2>3
<1> QED BY <1>6, <1>9, <1>10, <1>11 DEF TableOK

\* The invariant is inductive.
LEMMA TableStep == TableInv /\ [TableNext]_table => TableInv'
<1> SUFFICES ASSUME TableInv, [TableNext]_table PROVE TableInv'
  OBVIOUS
<1>1. CASE UNCHANGED table
  BY <1>1 DEF table, TableInv, TableTypeOK, TableOK
<1> QED BY <1>1, GetKeeps, DelKeeps DEF TableNext

(***************************************************************************)
(* Whatever is taken and given back, in whatever order, the table stays    *)
(* consistent.                                                             *)
(***************************************************************************)
THEOREM TableConsistent == TableSpec => []TableOK
<1>1. TableInv => TableOK BY DEF TableInv
<1> QED BY <1>1, TableStep, TableInvInit, PTL DEF TableSpec

(***************************************************************************)
(* connection_del() moves a connection only towards the front.             *)
(***************************************************************************)
THEOREM IndexNeverGrowsHolds == TableSpec => IndexNeverGrows
<1> DEFINE Step == \A c \in Conns :
                       ndx[c] # -1 /\ ndx'[c] # -1 => ndx'[c] <= ndx[c]
<1>1. TableInv /\ [TableNext]_table => [Step]_table
  <2> SUFFICES ASSUME TableInv, TableNext,
                      NEW c \in Conns, ndx[c] # -1, ndx'[c] # -1
               PROVE  ndx'[c] <= ndx[c]
    BY DEF table
  <2>1. ndx[c] \in Places /\ ndx[c] < used /\ ptr[ndx[c]] = c BY HasPlace
  <2>2. ndx \in [Conns -> Places \cup {-1}] /\ used \in Nat /\ ptr \in [Places -> Conns]
    BY TableAssumption DEF TableInv, TableTypeOK
  <2>3. CASE GetNewConnection
    <3>1. used \in Places /\ ndx[ptr[used]] = -1
      BY <2>2, <2>3, TableAssumption DEF GetNewConnection, Places, TableInv, TableOK
    <3>2. ndx'[c] = ndx[c] BY <2>2, <2>3, <3>1 DEF GetNewConnection
    <3> QED BY <2>1, <3>2 DEF Places
  <2>4. ASSUME NEW gone \in Conns, ConnectionDel(gone) PROVE ndx'[c] <= ndx[c]
    <3>1. ndx' = [ndx EXCEPT ![ptr[used - 1]] = ndx[gone], ![gone] = -1]
      BY <2>4 DEF ConnectionDel
    <3>2. c # gone BY <2>2, <3>1
    <3>3. ndx[gone] \in Places /\ ndx[gone] < used BY <2>4, HasPlace DEF ConnectionDel
    <3>4. CASE c = ptr[used - 1]
      <4>1. used - 1 \in Places BY <2>1, <2>2, TableAssumption DEF TableInv, TableTypeOK, Places
      <4>2. ndx[c] = used - 1
        BY <2>2, <3>4, <4>1 DEF TableInv, TableOK
      <4>3. ndx'[c] = ndx[gone] BY <2>2, <3>1, <3>2, <3>4
      <4> QED BY <2>2, <3>3, <4>2, <4>3 DEF Places
    <3>5. CASE c # ptr[used - 1]
      <4>1. ndx'[c] = ndx[c] BY <2>2, <3>1, <3>2, <3>5
      <4> QED BY <2>1, <4>1 DEF Places
    <3> QED BY <3>4, <3>5
  <2> QED BY <2>3, <2>4 DEF TableNext
<1> QED BY <1>1, TableStep, TableInvInit, PTL DEF TableSpec, IndexNeverGrows

-----------------------------------------------------------------------------
(***************************************************************************)
(* The machine only runs for connections, and both queues hold nothing     *)
(* else.                                                                   *)
(***************************************************************************)
RunInv ==
    /\ TableInv
    /\ con \in Conns \cup {Nobody} /\ i \in Nat
    /\ joblist \in Seq(Conns) /\ fdwaitqueue \in Seq(Conns)

LEMMA RunInit == Init => RunInv
BY TableInvInit DEF Init, RunInv

\* joblist_append()
LEMMA JobsType ==
    ASSUME joblist \in Seq(Conns), NEW c \in Conns, NEW n \in Nat, Jobs(c, n)
    PROVE  joblist' \in Seq(Conns)
<1>1. [k \in 1..n |-> c] \in Seq(Conns) OBVIOUS
<1> QED BY <1>1 DEF Jobs

(***************************************************************************)
(* A step of the machine leaves the table alone or gives one connection    *)
(* back.                                                                   *)
(***************************************************************************)
LEMMA MachineStep ==
    ASSUME RunInv, StateMachine
    PROVE  [TableNext]_table /\ RunInv'
<1>1. con \in Conns
  BY DEF RunInv, StateMachine, ConConnect, ConRead, ConHandleRequest, ConWrite,
         ConResponseEnd, ConError, ConClose, Exit, In, Nobody
<1>2. [TableNext]_table
  BY <1>1 DEF StateMachine, ConConnect, ConRead, ConHandleRequest, ConWrite, ConResponseEnd,
         ConError, ConClose, Exit, Finish, ConnectionClose, TableNext
<1>3. con' \in Conns \cup {Nobody}
  BY <1>1 DEF StateMachine, ConConnect, ConRead, ConHandleRequest, ConWrite, ConResponseEnd,
         ConError, ConClose, Exit, Finish, ConnectionClose, Goto, Answer, GatewayOpened,
         HostFailed, GatewayWaits
<1>4. joblist' \in Seq(Conns)
  <2>1. joblist' = joblist \/ Jobs(con, 1)
    BY DEF StateMachine, ConConnect, ConRead, ConHandleRequest, ConWrite, ConResponseEnd,
           ConError, ConClose, Exit, Finish, Answer, GatewayOpened, HostFailed,
           GatewayWaits, queues
  <2> QED BY <1>1, <2>1, JobsType DEF RunInv
<1>5. fdwaitqueue' \in Seq(Conns)
  <2>1. fdwaitqueue' = fdwaitqueue \/ fdwaitqueue' = Append(fdwaitqueue, con)
    BY DEF StateMachine, ConConnect, ConRead, ConHandleRequest, ConWrite, ConResponseEnd,
           ConError, ConClose, Exit, Finish, Answer, GatewayOpened, HostFailed,
           GatewayWaits, queues
  <2> QED BY <1>1, <2>1 DEF RunInv
<1>6. TableInv' BY <1>2, TableStep DEF RunInv
<1>7. i' = i
  BY DEF StateMachine, ConConnect, ConRead, ConHandleRequest, ConWrite, ConResponseEnd,
         ConError, ConClose, Exit, Finish, Outside, loopvars
<1> QED BY <1>2, <1>3, <1>4, <1>5, <1>6, <1>7 DEF RunInv

(***************************************************************************)
(* Outside of the machine only an accept() changes the table; what the     *)
(* machine is run for comes from the table, a queue or an event.           *)
(***************************************************************************)
LEMMA LoopStep ==
    ASSUME RunInv, MainLoop
    PROVE  [TableNext]_table /\ RunInv'
<1> DEFINE Events == \E c \in Conns : ClientEvent(c) \/ GatewayEvent(c)
           Others == Stop \/ SameSecond \/ NewSecond \/ AllChecked \/ CheckSockets \/ CheckEnd
                     \/ Poll \/ ListenEvent \/ AcceptEnd \/ Dispatched \/ NextRound
<1>1. CASE Others
  <2>1. UNCHANGED <<table, con, joblist, fdwaitqueue>>
    BY <1>1 DEF Stop, SameSecond, NewSecond, AllChecked, CheckSockets, CheckEnd, Poll,
           ListenEvent, AcceptEnd, Dispatched, NextRound, Quiet, Stays, queues, machine
  <2>2. i' \in Nat
    BY <1>1 DEF RunInv, Stop, SameSecond, NewSecond, AllChecked, CheckSockets, CheckEnd, Poll,
           ListenEvent, AcceptEnd, Dispatched, NextRound, ToPhase
  <2> QED BY <2>1, <2>2, TableStep DEF RunInv
<1>2. CASE CheckTimeout
  <2>1. UNCHANGED <<table, joblist, fdwaitqueue>> /\ i' = i + 1
    BY <1>2 DEF CheckTimeout, Stays, queues
  <2>2. ptr[i] \in Conns
    BY <1>2, TableAssumption DEF CheckTimeout, At, RunInv, TableInv, TableTypeOK, Places
  <2>3. con' = con \/ con' = ptr[i] BY <1>2 DEF CheckTimeout, Run, machine
  <2> QED BY <2>1, <2>2, <2>3, TableStep DEF RunInv
<1>3. CASE FdWaitPop
  <2>1. UNCHANGED <<table, joblist, i>> BY <1>3 DEF FdWaitPop, Stays
  <2>2. con' = Head(fdwaitqueue) /\ fdwaitqueue' = Tail(fdwaitqueue) /\ fdwaitqueue # <<>>
    BY <1>3 DEF FdWaitPop, Run
  <2> QED BY <2>1, <2>2, TableStep DEF RunInv
<1>4. CASE RunJob
  <2>1. UNCHANGED <<table, fdwaitqueue, i>> BY <1>4 DEF RunJob, Stays, loopvars
  <2>2. con' = Head(joblist) /\ joblist' = Tail(joblist) /\ joblist # <<>>
    BY <1>4 DEF RunJob, Run
  <2> QED BY <2>1, <2>2, TableStep DEF RunInv
<1>5. CASE Accept
  <2>1. GetNewConnection /\ con' = ptr[used] /\ used < MaxConns
    BY <1>5 DEF Accept, Run
  <2>2. UNCHANGED <<joblist, fdwaitqueue, i>> BY <1>5 DEF Accept, queues
  <2>3. ptr[used] \in Conns
    BY <2>1, TableAssumption DEF GetNewConnection, RunInv, TableInv, TableTypeOK, Places
  <2> QED BY <2>1, <2>2, <2>3, TableStep DEF RunInv, TableNext
<1>6. CASE Events
  <2> PICK c \in Conns : ClientEvent(c) \/ GatewayEvent(c) BY <1>6
  <2>1. UNCHANGED <<table, con, fdwaitqueue, i>>
    BY DEF ClientEvent, GatewayEvent, Dispatch, Deferred, machine
  <2>2. joblist' = joblist \/ \E n \in 0..2 : Jobs(c, n)
    <3>1. CASE ClientEvent(c)
      BY <3>1 DEF ClientEvent, Deferred
    <3>2. CASE GatewayEvent(c)
      BY <3>2 DEF GatewayEvent
    <3> QED BY <3>1, <3>2
  <2>3. joblist' \in Seq(Conns) BY <2>2, JobsType DEF RunInv
  <2> QED BY <2>1, <2>3, TableStep DEF RunInv
<1> QED BY <1>1, <1>2, <1>3, <1>4, <1>5, <1>6 DEF MainLoop

(***************************************************************************)
(* Whatever the main loop and the machine do, they use the table only as   *)
(* module ConnTable describes it.                                          *)
(***************************************************************************)
THEOREM ServerUsesTable == Spec => TableSpec
<1>1. Init => TableInit BY DEF Init
<1>2. RunInv /\ [Next]_vars => RunInv' /\ [TableNext]_table
  <2> SUFFICES ASSUME RunInv, [Next]_vars PROVE RunInv' /\ [TableNext]_table
    OBVIOUS
  <2>1. CASE StateMachine BY <2>1, MachineStep
  <2>2. CASE MainLoop BY <2>2, LoopStep
  <2>3. CASE SigTerm \/ SigInt \/ Terminated \/ UNCHANGED vars
    <3>1. UNCHANGED <<table, con, joblist, fdwaitqueue, i>>
      BY <2>3 DEF SigTerm, SigInt, Terminated, vars, Quiet, Stays, queues, machine, loopvars
    <3> QED BY <3>1, TableStep DEF RunInv
  <2> QED BY <2>1, <2>2, <2>3 DEF Next
<1> QED BY <1>1, <1>2, RunInit, PTL DEF Spec, TableSpec

(***************************************************************************)
(* ... so the table is in order in every state of the server, ...          *)
(***************************************************************************)
THEOREM ServerTableOK == Spec => []TableOK
BY ServerUsesTable, TableConsistent, PTL

(***************************************************************************)
(* ... and a connection only moves towards the front.  It may do so while  *)
(* the loop of the trigger walks upwards (server.c:1244): a close in the   *)
(* loop puts the last connection into the place the loop is at, and it is  *)
(* not looked at before the next second.  As its index has become smaller, *)
(* that happens to it no more often than there are places below it.        *)
(***************************************************************************)
THEOREM ServerIndexNeverGrows == Spec => IndexNeverGrows
BY ServerUsesTable, IndexNeverGrowsHolds, PTL

-----------------------------------------------------------------------------
(***************************************************************************)
(* The types of the variables.                                             *)
(***************************************************************************)

\* the kernel finds a free descriptor as long as not all are open
LEMMA LowestFreeType ==
    ASSUME opened # Fds, opened \subseteq Fds
    PROVE  LowestFree \in Fds \ opened
<1> DEFINE free == Fds \ opened
           less == OpToRel(<, Nat)
<1>1. free # {} /\ free \subseteq Nat
  <2>1. Fds \subseteq Nat BY ServerAssumption DEF Fds
  <2> QED BY <2>1
<1>2. \A f, g \in Nat : g < f => <<g, f>> \in less BY DEF OpToRel
<1>3. IsWellFoundedOn(less, Nat) BY NatLessThanWellFounded
<1> HIDE DEF free, less
<1>4. PICK f \in free : \A g \in free : ~(<<g, f>> \in less) BY <1>1, <1>3, WFMin
<1>5. ASSUME NEW g \in free PROVE f <= g
  <2>1. f \in Nat /\ g \in Nat BY <1>1
  <2>2. ~(g < f) BY <1>2, <1>4, <2>1, Zenon
  <2> QED BY <2>1, <2>2
<1>6. LowestFree \in free BY <1>5 DEF LowestFree, free
<1> QED BY <1>6 DEF free

\* the numbers of descriptors and connections the assumption is about
LEMMA Numbers ==
    /\ Listen \in Fds /\ NoFd \notin Fds /\ Nobody \notin Conns
    /\ Hosts \in Nat /\ MaxConns \in Nat /\ IsFiniteSet(Fds)
<1>1. MaxFds \in Nat /\ MaxFds > 1 BY ServerAssumption
<1>2. IsFiniteSet(Fds) BY <1>1, FS_Interval DEF Fds
<1> QED BY <1>1, <1>2, ServerAssumption, TableAssumption DEF Fds, Listen, NoFd, Nobody, Conns

\* what the lemmas about the table rest on is part of the types
LEMMA TypesRun == TypeOK /\ TableOK => RunInv
BY DEF TypeOK, TableInv, RunInv

\* the machine runs for a connection
LEMMA MachineRuns ==
    ASSUME TypeOK, StateMachine
    PROVE  con \in Conns
BY DEF TypeOK, StateMachine, ConConnect, ConRead, ConHandleRequest, ConWrite, ConResponseEnd,
       ConError, ConClose, Exit, In, Nobody

\* types of the kernel's descriptors
FdTypes == /\ opened \subseteq Fds /\ epoll \in [Fds -> {"none", "IN", "OUT"}]
           /\ fdarray \in [Fds -> Owners] /\ cur_fds \in Int

LEMMA OpenTypes ==
    ASSUME FdTypes, NEW owner \in Owners, NEW event \in {"none", "IN", "OUT"},
           Open(owner, event)
    PROVE  FdTypes' /\ LowestFree \in Fds \ opened
<1>1. LowestFree \in Fds \ opened BY LowestFreeType DEF FdTypes, Open
<1> QED BY <1>1 DEF FdTypes, Open

LEMMA CloseTypes ==
    ASSUME FdTypes, NEW gone \in SUBSET (Fds \cup {NoFd}), Close(gone)
    PROVE  FdTypes' /\ Cardinality(gone) \in Nat
<1>1. IsFiniteSet(gone) BY Numbers, FS_AddElement, FS_Subset
<1>2. Cardinality(gone) \in Nat BY <1>1, FS_CardinalityType
<1>3. opened' \subseteq Fds /\ cur_fds' \in Int BY <1>2 DEF FdTypes, Close
<1>4. Nothing \in Owners BY DEF Owners
<1>5. fdarray' \in [Fds -> Owners] /\ epoll' \in [Fds -> {"none", "IN", "OUT"}]
  BY <1>4 DEF FdTypes, Close, Forget
<1> QED BY <1>2, <1>3, <1>5 DEF FdTypes

LEMMA EpollTypes ==
    ASSUME FdTypes, NEW f, NEW event \in {"none", "IN", "OUT"},
           epoll' = [epoll EXCEPT ![f] = event], UNCHANGED <<opened, fdarray, cur_fds>>
    PROVE  FdTypes'
BY DEF FdTypes

\* types of what is kept for a connection
ConTypes == /\ state \in [Conns -> States] /\ gw \in [Conns -> Gateways]
            /\ request_count \in [Conns -> Nat]
            /\ fd \in [Conns -> Fds \cup {NoFd}] /\ in_epoll \in [Conns -> BOOLEAN]
            /\ back \in [Conns -> Fds \cup {NoFd}] /\ idle \subseteq Conns

\* types of the main loop's variables
LoopTypes == /\ want_fds \in Int /\ hosts \in 0..Hosts
             /\ {sockets_disabled, graceful_shutdown, srv_shutdown, pid_file} \subseteq BOOLEAN
             /\ phase \in {"signals", "trigger", "sockets", "end", "fdwait", "dispatch",
                           "accept", "jobs", "stopped"}
             /\ free_fds \in Int /\ loops \in Nat /\ done \in BOOLEAN
             /\ events \subseteq [fd : Fds, owner : Owners]

LEMMA TypesAre == TypeOK <=> /\ TableTypeOK /\ ConTypes /\ FdTypes /\ LoopTypes
                            /\ con \in Conns \cup {Nobody} /\ i \in Nat
                            /\ joblist \in Seq(Conns) /\ fdwaitqueue \in Seq(Conns)
BY DEF TypeOK, ConTypes, FdTypes, LoopTypes

LEMMA TypesInit == Init => TypeOK /\ TableOK
<1> SUFFICES ASSUME Init PROVE TypeOK /\ TableOK
  OBVIOUS
<1>1. RunInv BY RunInit
<1>2. ConTypes BY Numbers DEF Init, ConTypes, States, Gateways
<1>3. FdTypes BY Numbers DEF Init, FdTypes, Owners
<1>4. LoopTypes
  <2>1. want_fds \in Int /\ hosts \in 0..Hosts /\ free_fds \in Int /\ loops \in Nat
    BY Numbers DEF Init
  <2>2. {sockets_disabled, graceful_shutdown, srv_shutdown, pid_file} \subseteq BOOLEAN
    BY DEF Init
  <2>3. phase = "signals" /\ done = FALSE /\ events = {} BY DEF Init
  <2> QED BY <2>1, <2>2, <2>3 DEF LoopTypes
<1> QED BY <1>1, <1>2, <1>3, <1>4, TypesAre DEF RunInv, TableInv

\* where the machine goes
LEMMA GotoTypes ==
    ASSUME ConTypes, con \in Conns, NEW s \in States, Goto(s)
    PROVE  state' \in [Conns -> States] /\ idle' \subseteq Conns /\ done' \in BOOLEAN
BY DEF ConTypes, Goto

(***************************************************************************)
(* A step of the machine keeps the types.                                  *)
(***************************************************************************)
LEMMA MachineTypes ==
    ASSUME TypeOK, TableOK, StateMachine
    PROVE  TypeOK'
<1>1. RunInv' /\ con \in Conns BY TypesRun, MachineRuns, MachineStep
<1>2. TableTypeOK' /\ con' \in Conns \cup {Nobody} /\ i' \in Nat
      /\ joblist' \in Seq(Conns) /\ fdwaitqueue' \in Seq(Conns)
  BY <1>1 DEF RunInv, TableInv
<1>3. ConTypes /\ FdTypes /\ LoopTypes BY TypesAre
<1>4. ConTypes' /\ done' \in BOOLEAN
  <2>1. CASE Exit
    BY <1>1, <1>3, <2>1 DEF Exit, ConTypes, EventSet, EventDel
  <2>2. CASE ~Exit
    <3>1. (\E s \in States : Goto(s)) \/ (state' = state /\ idle' \subseteq Conns /\ done' = TRUE)
      BY <1>1, <1>3, <2>2 DEF StateMachine, ConConnect, ConRead, ConHandleRequest, ConWrite,
         ConResponseEnd, ConError, ConClose, Answer, GatewayOpened, HostFailed, GatewayWaits,
         Finish, ConnectionClose, States, ConTypes
    <3>2. state' \in [Conns -> States] /\ idle' \subseteq Conns /\ done' \in BOOLEAN
      BY <1>1, <1>3, <3>1, GotoTypes DEF ConTypes
    <3>3. request_count' \in [Conns -> Nat]
      BY <1>1, <1>3, <2>2 DEF StateMachine, ConConnect, ConRead, ConHandleRequest, ConWrite,
         ConResponseEnd, ConError, ConClose, Finish, ConTypes
    <3>4. fd' = fd /\ in_epoll' \in [Conns -> BOOLEAN]
      BY <1>1, <1>3, <2>2 DEF StateMachine, ConConnect, ConRead, ConHandleRequest, ConWrite,
         ConResponseEnd, ConError, ConClose, Finish, ConnectionClose, ConTypes
    <3>5. gw' \in [Conns -> Gateways]
      BY <1>1, <1>3, <2>2 DEF StateMachine, ConConnect, ConRead, ConHandleRequest, ConWrite,
         ConResponseEnd, ConError, ConClose, Answer, GatewayOpened, HostFailed, GatewayWaits,
         Finish, Reset, ConTypes, Gateways
    <3>6. back' \in [Conns -> Fds \cup {NoFd}]
      <4>1. back' = back \/ back' = [back EXCEPT ![con] = NoFd]
            \/ (GatewayOpened /\ back' = [back EXCEPT ![con] = LowestFree])
        BY <2>2 DEF StateMachine, ConConnect, ConRead, ConHandleRequest, ConWrite,
           ConResponseEnd, ConError, ConClose, Answer, GatewayOpened, HostFailed,
           GatewayWaits, Finish, Reset
      <4>2. GatewayOpened => LowestFree \in Fds
        BY <1>3, LowestFreeType DEF GatewayOpened, Open, FdTypes
      <4> QED BY <1>1, <1>3, <4>1, <4>2 DEF ConTypes
    <3> QED BY <1>3, <3>2, <3>3, <3>4, <3>5, <3>6 DEF ConTypes
  <2> QED BY <2>1, <2>2
<1>5. FdTypes'
  <2>1. Backend \cup {fd[con]} \subseteq Fds \cup {NoFd} BY <1>1, <1>3 DEF Backend, ConTypes
  <2>2. CASE Exit
    <3>1. UNCHANGED <<opened, fdarray, cur_fds>> BY <2>2 DEF Exit
    <3>2. epoll' = epoll \/ \E e \in {"none", "IN", "OUT"} : epoll' = [epoll EXCEPT ![fd[con]] = e]
      BY <2>2 DEF Exit, EventSet, EventDel
    <3> QED BY <1>3, <3>1, <3>2, EpollTypes DEF FdTypes
  <2>3. CASE ConHandleRequest
    <3>1. CASE Answer BY <1>3, <3>1 DEF Answer, fdvars, FdTypes
    <3>2. CASE GatewayOpened
      <4>1. Gateway(con) \in Owners BY <1>1 DEF Gateway, Owners
      <4> QED BY <1>3, <3>2, <4>1, OpenTypes DEF GatewayOpened
    <3>3. CASE HostFailed
      <4>1. Close({back[con]} \ {NoFd}) BY <3>3 DEF HostFailed
      <4> QED BY <1>3, <2>1, <4>1, CloseTypes DEF Backend
    <3>4. CASE GatewayWaits
      BY <1>3, <3>4, EpollTypes DEF GatewayWaits, FdTypes
    <3> QED BY <2>3, <3>1, <3>2, <3>3, <3>4 DEF ConHandleRequest
  <2>4. CASE ConResponseEnd \/ ConError \/ ConClose
    <3>1. UNCHANGED fdvars \/ Close(Backend) \/ Close(Backend \cup {fd[con]}) \/ Close({} \cup {fd[con]})
      BY <2>4 DEF ConResponseEnd, ConError, ConClose, Finish, ConnectionClose
    <3> QED BY <1>3, <2>1, <3>1, CloseTypes DEF fdvars, FdTypes
  <2>5. CASE ConConnect \/ ConRead \/ ConWrite
    BY <1>3, <2>5 DEF ConConnect, ConRead, ConWrite, fdvars, FdTypes
  <2> QED BY <2>2, <2>3, <2>4, <2>5 DEF StateMachine
<1>6. LoopTypes'
  <2>1. UNCHANGED <<Outside, hosts, want_fds>> \/ HostFailed
    BY DEF StateMachine, ConConnect, ConRead, ConHandleRequest, ConWrite, ConResponseEnd,
       ConError, ConClose, Exit, Answer, GatewayOpened, GatewayWaits, Finish, queues
  <2>2. UNCHANGED Outside
    BY DEF StateMachine, ConConnect, ConRead, ConHandleRequest, ConWrite, ConResponseEnd,
       ConError, ConClose, Exit, Finish
  <2>3. hosts' \in 0..Hosts /\ want_fds' \in Int
    BY <1>3, <2>1, Numbers DEF HostFailed, HostDisabled, LoopTypes
  <2> QED BY <1>3, <1>4, <2>2, <2>3
          DEF LoopTypes, Outside, sigvars, listening, loopvars
<1> QED BY <1>2, <1>4, <1>5, <1>6 DEF TypeOK, ConTypes, FdTypes, LoopTypes

(***************************************************************************)
(* A step of the main loop keeps the types.                                *)
(***************************************************************************)
LEMMA MainLoopTypes ==
    ASSUME TypeOK, TableOK, MainLoop
    PROVE  TypeOK'
<1>1. RunInv /\ RunInv' BY TypesRun, LoopStep
<1>2. TableTypeOK' /\ con' \in Conns \cup {Nobody} /\ i' \in Nat
      /\ joblist' \in Seq(Conns) /\ fdwaitqueue' \in Seq(Conns)
  BY <1>1 DEF RunInv, TableInv
<1>3. ConTypes /\ FdTypes /\ LoopTypes BY TypesAre
<1> SUFFICES ConTypes' /\ FdTypes' /\ LoopTypes'
  BY <1>2 DEF TypeOK, ConTypes, FdTypes, LoopTypes
<1> DEFINE Moves == Stop \/ SameSecond \/ AllChecked \/ CheckEnd \/ ListenEvent \/ AcceptEnd
                    \/ Dispatched \/ NextRound
           Queues == RunJob \/ FdWaitPop
<1>4. CASE Moves
  <2>1. UNCHANGED <<Stays, state, idle, fdvars, want_fds, hosts, done>>
    BY <1>4 DEF Stop, SameSecond, AllChecked, CheckEnd, ListenEvent, AcceptEnd, Dispatched,
       NextRound, Quiet, queues, machine
  <2>2. ConTypes' /\ FdTypes' BY <1>3, <2>1 DEF ConTypes, FdTypes, Stays, fdvars
  <2>3. {sockets_disabled', graceful_shutdown', srv_shutdown', pid_file'} \subseteq BOOLEAN
    <3>1. UNCHANGED <<sockets_disabled, graceful_shutdown>>
          /\ (srv_shutdown' = srv_shutdown \/ srv_shutdown' \in BOOLEAN)
          /\ (pid_file' = pid_file \/ pid_file' \in BOOLEAN)
      BY <1>4 DEF Stop, SameSecond, AllChecked, CheckEnd, ListenEvent, AcceptEnd, Dispatched,
         NextRound, sigvars, listening
    <3> QED BY <1>3, <3>1, Zenon DEF LoopTypes
  <2>4. phase' \in {"sockets", "fdwait", "accept", "dispatch", "jobs", "signals", "stopped"}
    BY <1>4 DEF Stop, SameSecond, AllChecked, CheckEnd, ListenEvent, AcceptEnd, Dispatched,
       NextRound, ToPhase
  <2>5. free_fds' \in Int
    BY ONLY <1>3, <1>4, ServerAssumption DEF Stop, SameSecond, AllChecked, CheckEnd, ListenEvent,
       AcceptEnd, Dispatched, NextRound, ToPhase, LoopTypes, FdTypes
  <2>6. loops' \in Nat /\ events' \subseteq events
    BY <1>3, <1>4 DEF Stop, SameSecond, AllChecked, CheckEnd, ListenEvent, AcceptEnd,
       Dispatched, NextRound, ToPhase, LoopTypes
  <2> QED BY <1>3, <2>1, <2>2, <2>3, <2>4, <2>5, <2>6 DEF LoopTypes
<1>5. CASE Queues
  <2>1. UNCHANGED <<Stays, state, idle, fdvars, hosts, sigvars, listening, phase, loops, events>>
        /\ done' = FALSE /\ want_fds' \in Int /\ free_fds' \in Int
    BY <1>3, <1>5 DEF RunJob, FdWaitPop, Run, LoopTypes, loopvars
  <2> QED BY <1>3, <2>1 DEF ConTypes, FdTypes, LoopTypes, Stays, fdvars, sigvars, listening
<1>6. CASE NewSecond
  <2>1. idle' \subseteq Conns /\ hosts' \in 0..Hosts
    BY <1>3, <1>6, Numbers DEF NewSecond, ConTypes, LoopTypes, InUse
  <2> QED BY <1>3, <1>6, <2>1 DEF NewSecond, ConTypes, FdTypes, LoopTypes, Stays, fdvars, queues,
          machine, sigvars, listening
<1>7. CASE CheckTimeout
  <2>1. state' \in [Conns -> States] /\ done' \in BOOLEAN
    BY <1>3, <1>7 DEF CheckTimeout, ConTypes, LoopTypes, States, Run, machine
  <2> QED BY <1>3, <1>7, <2>1 DEF CheckTimeout, ConTypes, FdTypes, LoopTypes, Stays, fdvars,
          queues, sigvars, listening
<1>8. CASE CheckSockets
  <2>1. FdTypes'
    BY <1>3, <1>8 DEF CheckSockets, EnableSockets, DisableSockets, FdTypes, Owners
  <2>2. sockets_disabled' \in BOOLEAN /\ pid_file' \in BOOLEAN
    <3>1. (sockets_disabled' = sockets_disabled \/ sockets_disabled' \in BOOLEAN)
          /\ (pid_file' = pid_file \/ pid_file' \in BOOLEAN)
      BY <1>8 DEF CheckSockets, EnableSockets, DisableSockets, listening
    <3> QED BY <1>3, <3>1 DEF LoopTypes
  <2> QED BY <1>3, <1>8, <2>1, <2>2 DEF CheckSockets, ConTypes, LoopTypes, Stays, queues,
          machine, sigvars, ToPhase
<1>9. CASE Poll
  <2>1. events' \subseteq [fd : Fds, owner : Owners] BY <1>3, <1>9 DEF Poll, FdTypes
  <2> QED BY <1>3, <1>9, <2>1 DEF Poll, Quiet, ConTypes, FdTypes, LoopTypes, Stays, fdvars,
          queues, machine, sigvars, listening
<1>10. CASE Accept
  <2>1. ptr[used] \in Conns
    BY <1>1, <1>10, TableAssumption DEF Accept, GetNewConnection, RunInv, TableInv, TableTypeOK, Places
  <2>2. Client(ptr[used]) \in Owners BY <2>1 DEF Client, Owners
  <2>3. FdTypes' /\ LowestFree \in Fds BY <1>3, <1>10, <2>2, OpenTypes DEF Accept
  <2>4. ConTypes'
    BY <1>3, <1>10, <2>1, <2>3 DEF Accept, ConTypes, States
  <2>5. UNCHANGED <<want_fds, hosts, sigvars, listening, phase, free_fds, events>>
        /\ done' = FALSE /\ loops' \in Nat
    BY <1>3, <1>10 DEF Accept, Run, queues, LoopTypes
  <2> QED BY <1>3, <2>3, <2>4, <2>5 DEF LoopTypes, sigvars, listening
<1>11. ASSUME NEW c \in Conns, ClientEvent(c) PROVE ConTypes' /\ FdTypes' /\ LoopTypes'
  <2>1. state' \in [Conns -> States] /\ idle' \subseteq Conns
    BY <1>3, <1>11 DEF ClientEvent, Become, ConTypes, States
  <2>2. UNCHANGED <<request_count, fd, in_epoll, want_fds, gw, back, fdvars, hosts, phase,
                    sigvars, listening, free_fds, loops, machine>> /\ events' \subseteq events
    BY <1>11 DEF ClientEvent, Dispatch, Deferred
  <2> QED BY <1>3, <2>1, <2>2 DEF ConTypes, FdTypes, LoopTypes, fdvars, sigvars, listening, machine
<1>12. ASSUME NEW c \in Conns, GatewayEvent(c) PROVE ConTypes' /\ FdTypes' /\ LoopTypes'
  <2>1. UNCHANGED <<request_count, fd, in_epoll, want_fds, phase, sigvars, listening, free_fds,
                    loops, machine>> /\ events' \subseteq events
    BY <1>12 DEF GatewayEvent, Dispatch
  <2>2. state' \in [Conns -> States] /\ idle' \subseteq Conns
    BY <1>3, <1>12 DEF GatewayEvent, Become, ConTypes, States
  <2>3. gw' \in [Conns -> Gateways] /\ back' \in [Conns -> Fds \cup {NoFd}]
    BY <1>3, <1>12 DEF GatewayEvent, Keeps, HangUp, ConTypes, Gateways
  <2>4. hosts' \in 0..Hosts
    BY <1>3, <1>12, Numbers DEF GatewayEvent, LoopTypes
  <2>5. FdTypes'
    <3>1. {back[c]} \subseteq Fds \cup {NoFd} BY <1>3 DEF ConTypes
    <3>2. \/ UNCHANGED fdvars \/ Close({back[c]})
          \/ /\ epoll' = [epoll EXCEPT ![back[c]] = "IN"]
             /\ UNCHANGED <<opened, fdarray, cur_fds>>
      BY <1>12 DEF GatewayEvent, Keeps, HangUp, fdvars
    <3> QED BY <1>3, <3>1, <3>2, CloseTypes, EpollTypes DEF FdTypes, fdvars
  <2> QED BY <1>3, <2>1, <2>2, <2>3, <2>4, <2>5 DEF ConTypes, LoopTypes, sigvars, listening, machine
<1> QED BY <1>4, <1>5, <1>6, <1>7, <1>8, <1>9, <1>10, <1>11, <1>12 DEF MainLoop

\* signals and standing still
LEMMA SignalTypes ==
    ASSUME TypeOK, TableOK, SigTerm \/ SigInt \/ UNCHANGED vars
    PROVE  TypeOK'
<1>1. UNCHANGED <<Quiet, listening, loopvars>>
  BY DEF SigTerm, SigInt, vars, Quiet, Stays, queues, machine, listening, loopvars
<1>2. ConTypes /\ FdTypes /\ LoopTypes BY TypesAre
<1>3. graceful_shutdown' \in BOOLEAN /\ srv_shutdown' \in BOOLEAN
  <2>1. (graceful_shutdown' = graceful_shutdown \/ graceful_shutdown' \in BOOLEAN)
        /\ (srv_shutdown' = srv_shutdown \/ srv_shutdown' \in BOOLEAN)
    BY DEF SigTerm, SigInt, vars, sigvars
  <2> QED BY <1>2, <2>1, Zenon DEF LoopTypes
<1>4. LoopTypes'
  BY <1>1, <1>2, <1>3 DEF LoopTypes, Quiet, listening, loopvars, queues, machine
<1>5. ConTypes' /\ FdTypes' BY <1>1, <1>2 DEF ConTypes, FdTypes, Quiet, Stays, fdvars
<1>6. UNCHANGED <<table, con, i, joblist, fdwaitqueue>>
  BY <1>1 DEF Quiet, Stays, machine, queues, loopvars
<1> QED BY <1>4, <1>5, <1>6 DEF TypeOK, ConTypes, FdTypes, LoopTypes, TableTypeOK, table

LEMMA TypesStep == TypeOK /\ TableOK /\ [Next]_vars => TypeOK' /\ TableOK'
<1> SUFFICES ASSUME TypeOK, TableOK, [Next]_vars PROVE TypeOK' /\ TableOK'
  OBVIOUS
<1>1. TypeOK' BY MachineTypes, MainLoopTypes, SignalTypes DEF Next, Terminated
<1>2. TableOK'
  <2>1. RunInv BY TypesRun
  <2>2. CASE StateMachine \/ MainLoop BY <2>1, <2>2, MachineStep, LoopStep DEF RunInv, TableInv
  <2>3. CASE ~(StateMachine \/ MainLoop)
    <3>1. UNCHANGED table
      BY <2>3 DEF Next, SigTerm, SigInt, Terminated, vars, Quiet, Stays
    <3> QED BY <3>1 DEF TableOK, table
  <2> QED BY <2>2, <2>3
<1> QED BY <1>1, <1>2

(***************************************************************************)
(* Every variable keeps its type: the kernel's descriptors stay below      *)
(* max_fds, an event names a descriptor and whom it belongs to, and the    *)
(* machine only runs for connections.                                      *)
(***************************************************************************)
THEOREM ServerTypeOK == Spec => []TypeOK
BY TypesInit, TypesStep, PTL DEF Spec

-----------------------------------------------------------------------------
(***************************************************************************)
(* Who owns which descriptor, while the machine runs too.                  *)
(***************************************************************************)
ClientsOwn  == \A c \in InUse : fd[c] \in opened /\ fdarray[fd[c]] = Client(c)
BackendsOwn == \A c \in Conns :
                  back[c] # NoFd => back[c] \in opened /\ fdarray[back[c]] = Gateway(c)
AllOwned    == \A f \in opened : \/ f = Listen /\ fdarray[f] = Listener
                                 \/ \E c \in InUse : f = fd[c]
                                 \/ \E c \in Conns : f = back[c]
ClosedClean == \A f \in Fds \ opened : epoll[f] = "none" /\ fdarray[f] = Nothing
Counted     == cur_fds = 1 + Cardinality(opened \ Listening)

\* con->fde_ndx tells what the kernel does; closed connections have none
Told == \A c \in Conns : in_epoll[c] <=> (c \in InUse /\ epoll[fd[c]] # "none")

DescInv == ClientsOwn /\ BackendsOwn /\ AllOwned /\ ClosedClean /\ Counted /\ Told

LEMMA OwnersDiffer ==
    /\ Listener # Nothing
    /\ \A c, d : /\ Client(c) = Client(d) => c = d
                 /\ Gateway(c) = Gateway(d) => c = d
                 /\ Client(c) # Gateway(d)
                 /\ Client(c) # Listener /\ Client(c) # Nothing
                 /\ Gateway(c) # Listener /\ Gateway(c) # Nothing
<1>1. /\ \A c : Client(c).who = c /\ Client(c).what = "client"
      /\ \A c : Gateway(c).who = c /\ Gateway(c).what = "gateway"
      /\ Listener.what = "listen" /\ Nothing.what = "none"
  BY DEF Client, Gateway, Listener, Nothing
<1> QED BY <1>1

\* only the listen socket is not counted
LEMMA ListeningIs == Listening = IF fdarray[Listen] = Listener THEN {Listen} ELSE {}
BY DEF Listening

\* a number more or less
LEMMA CountedOpen ==
    ASSUME TypeOK, Counted, NEW f \in Fds \ opened, opened' = opened \cup {f},
           cur_fds' = cur_fds + 1, Listening' = Listening, f \notin Listening
    PROVE  Counted'
<1> DEFINE S == opened \ Listening
<1>1. IsFiniteSet(S) /\ S \subseteq Fds BY Numbers, FS_Subset DEF TypeOK
<1>2. opened' \ Listening' = S \cup {f} /\ f \notin S OBVIOUS
<1> HIDE DEF S
<1>3. Cardinality(S \cup {f}) = Cardinality(S) + 1 BY <1>1, <1>2, FS_AddElement
<1>4. Cardinality(S) \in Nat BY <1>1, FS_CardinalityType
<1>5. cur_fds = 1 + Cardinality(S) BY DEF Counted, S
<1> QED BY <1>2, <1>3, <1>4, <1>5 DEF Counted

LEMMA CountedClose ==
    ASSUME TypeOK, Counted, NEW gone \in SUBSET (opened \ Listening), opened' = opened \ gone,
           cur_fds' = cur_fds - Cardinality(gone), Listening' = Listening
    PROVE  Counted'
<1> DEFINE S == opened \ Listening
<1>1. IsFiniteSet(S) BY Numbers, FS_Subset DEF TypeOK
<1>2. opened' \ Listening' = S \ gone /\ S \cap gone = gone OBVIOUS
<1>3. IsFiniteSet(gone) BY <1>1, FS_Subset
<1> HIDE DEF S
<1>4. Cardinality(S \ gone) = Cardinality(S) - Cardinality(gone)
  BY ZenonT(60), <1>1, <1>2, FS_Difference
<1>5. Cardinality(S) \in Nat /\ Cardinality(gone) \in Nat
  BY <1>1, <1>3, FS_CardinalityType
<1>6. cur_fds = 1 + Cardinality(S) BY DEF Counted, S
<1>7. Cardinality(opened' \ Listening') = Cardinality(S) - Cardinality(gone) BY <1>2, <1>4
<1>8. cur_fds' = 1 + Cardinality(S) - Cardinality(gone) BY <1>5, <1>6
<1> QED BY <1>5, <1>7, <1>8 DEF Counted

(***************************************************************************)
(* The descriptors of one connection are closed: its backend's, and its    *)
(* own when it is given back.                                              *)
(***************************************************************************)
LEMMA CloseKeeps ==
    ASSUME TypeOK, DescInv, NEW c \in Conns, NEW gone, Close(gone), fd' = fd,
           back' = [back EXCEPT ![c] = NoFd],
           \/ /\ gone = {back[c]} \ {NoFd}
              /\ InUse' = InUse /\ in_epoll' = in_epoll
           \/ /\ c \in InUse /\ gone = ({back[c]} \ {NoFd}) \cup {fd[c]}
              /\ InUse' = InUse \ {c} /\ in_epoll' = [in_epoll EXCEPT ![c] = FALSE]
    PROVE  DescInv'
<1>0. InUse \subseteq Conns BY DEF InUse
<1>1. \A f \in gone : f \in opened /\ fdarray[f] \in {Client(c), Gateway(c)}
  BY DEF DescInv, ClientsOwn, BackendsOwn
<1>2. opened' = opened \ gone /\ opened \subseteq Fds /\ cur_fds' = cur_fds - Cardinality(gone)
  BY DEF Close, TypeOK
<1>3. \A f \in Fds : /\ fdarray'[f] = IF f \in gone THEN Nothing ELSE fdarray[f]
                     /\ epoll'[f] = IF f \in gone THEN "none" ELSE epoll[f]
  BY DEF Close, Forget, TypeOK
<1>4. \A d \in InUse' : d \in InUse /\ fd[d] \in opened /\ fdarray[fd[d]] = Client(d) /\ fd[d] \notin gone
  BY <1>0, OwnersDiffer DEF DescInv, ClientsOwn, BackendsOwn
<1>5. \A d \in Conns : back'[d] = IF d = c THEN NoFd ELSE back[d] BY DEF TypeOK
<1>6. \A d \in Conns : back'[d] # NoFd => back[d] \in opened /\ fdarray[back[d]] = Gateway(d)
                                          /\ back[d] \notin gone
  BY <1>1, <1>5, OwnersDiffer DEF DescInv, BackendsOwn
<1>7. ClientsOwn' BY <1>2, <1>3, <1>4 DEF ClientsOwn
<1>8. BackendsOwn' BY <1>2, <1>3, <1>5, <1>6 DEF BackendsOwn
<1>9. AllOwned'
  <2> SUFFICES ASSUME NEW f \in opened, f \notin gone
               PROVE  \/ f = Listen /\ fdarray'[f] = Listener
                      \/ \E d \in InUse' : f = fd'[d]
                      \/ \E d \in Conns : f = back'[d]
    BY <1>2 DEF AllOwned
  <2>1. CASE f = Listen /\ fdarray[f] = Listener BY <1>2, <1>3, <2>1
  <2>2. ASSUME NEW d \in InUse, f = fd[d] PROVE f = fd'[d] /\ d \in InUse' BY <2>2
  <2>3. ASSUME NEW d \in Conns, f = back[d] PROVE f = back'[d]
    BY <1>2, <1>5, <2>3, Numbers
  <2> QED BY <2>1, <2>2, <2>3 DEF DescInv, AllOwned
<1>10. ClosedClean' BY <1>2, <1>3 DEF DescInv, ClosedClean
<1>11. Counted'
  <2>1. gone \subseteq opened \ Listening BY <1>1, OwnersDiffer, ListeningIs
  <2>2. Listening' = Listening
    BY <1>1, <1>3, Numbers, OwnersDiffer DEF Listening
  <2> QED BY <1>2, <2>1, <2>2, CountedClose DEF DescInv
<1>12. Told'
  <2> SUFFICES ASSUME NEW d \in Conns
               PROVE  in_epoll'[d] <=> (d \in InUse' /\ epoll'[fd'[d]] # "none")
    BY DEF Told
  <2>1. CASE d \in InUse'
    <3>1. in_epoll'[d] = in_epoll[d] /\ fd'[d] = fd[d] BY <2>1 DEF TypeOK
    <3>2. epoll'[fd[d]] = epoll[fd[d]] BY <1>2, <1>3, <1>4, <2>1
    <3> QED BY <1>4, <2>1, <3>1, <3>2 DEF DescInv, Told
  <2>2. CASE d \notin InUse'
    <3>1. in_epoll'[d] = FALSE BY ZenonT(60), <2>2 DEF TypeOK, DescInv, Told
    <3> QED BY <2>2, <3>1
  <2> QED BY <2>1, <2>2
<1> QED BY <1>7, <1>8, <1>9, <1>10, <1>11, <1>12 DEF DescInv

(***************************************************************************)
(* A descriptor is opened for a connection, which takes its number down.   *)
(***************************************************************************)
LEMMA OpenKeeps ==
    ASSUME TypeOK, DescInv, NEW c \in Conns, NEW owner, NEW event, Open(owner, event),
           \/ /\ owner = Gateway(c) /\ back[c] = NoFd
              /\ back' = [back EXCEPT ![c] = LowestFree] /\ fd' = fd
              /\ InUse' = InUse /\ in_epoll' = in_epoll
           \/ /\ owner = Client(c) /\ event = "none" /\ c \notin InUse
              /\ fd' = [fd EXCEPT ![c] = LowestFree] /\ back' = back
              /\ InUse' = InUse \cup {c} /\ in_epoll' = [in_epoll EXCEPT ![c] = FALSE]
    PROVE  DescInv'
<1> DEFINE new == LowestFree
<1>0. new \in Fds \ opened BY LowestFreeType DEF Open, TypeOK
<1>1. opened' = opened \cup {new} /\ opened \subseteq Fds /\ cur_fds' = cur_fds + 1
      /\ InUse \subseteq Conns
  BY DEF Open, TypeOK, InUse
<1>2. \A f \in Fds : /\ fdarray'[f] = IF f = new THEN owner ELSE fdarray[f]
                     /\ epoll'[f] = IF f = new THEN event ELSE epoll[f]
  BY DEF Open, TypeOK
<1>3. (fd' = fd \/ fd' = [fd EXCEPT ![c] = new]) /\ (back' = back \/ back' = [back EXCEPT ![c] = new])
  OBVIOUS
<1>4. fd[c] \in Fds \cup {NoFd} /\ fd \in [Conns -> Fds \cup {NoFd}]
      /\ back \in [Conns -> Fds \cup {NoFd}] /\ in_epoll \in [Conns -> BOOLEAN]
  BY DEF TypeOK
<1> HIDE DEF new
<1>5. \A d \in InUse' : \/ d \in InUse /\ fd'[d] = fd[d] /\ fd[d] \in opened /\ fdarray[fd[d]] = Client(d)
                        \/ d = c /\ fd'[d] = new /\ owner = Client(c)
  BY <1>1, <1>4 DEF DescInv, ClientsOwn, new
<1>6. \A d \in Conns : back'[d] # NoFd =>
         \/ back'[d] = back[d] /\ back[d] \in opened /\ fdarray[back[d]] = Gateway(d)
         \/ d = c /\ back'[d] = new /\ owner = Gateway(c)
  BY <1>4 DEF DescInv, BackendsOwn, new
<1>7. ClientsOwn' BY <1>0, <1>1, <1>2, <1>5 DEF ClientsOwn
<1>8. BackendsOwn' BY <1>0, <1>1, <1>2, <1>6 DEF BackendsOwn
<1>9. AllOwned'
  <2> SUFFICES ASSUME NEW f \in opened'
               PROVE  \/ f = Listen /\ fdarray'[f] = Listener
                      \/ \E d \in InUse' : f = fd'[d]
                      \/ \E d \in Conns : f = back'[d]
    BY DEF AllOwned
  <2>1. CASE f = new
    <3>1. (c \in InUse' /\ fd'[c] = new) \/ back'[c] = new BY <1>4 DEF new
    <3> QED BY <2>1, <3>1
  <2>2. CASE f # new /\ f = Listen /\ fdarray[f] = Listener BY <1>2, <2>2, Numbers
  <2>3. ASSUME NEW d \in InUse, f = fd[d], f # new PROVE f = fd'[d] /\ d \in InUse'
    BY <1>1, <1>4, <2>3
  <2>4. ASSUME NEW d \in Conns, f = back[d], f # new PROVE f = back'[d]
    <3>1. back[d] # NoFd BY <1>0, <1>1, <2>4, Numbers
    <3> QED BY <1>4, <2>4, <3>1
  <2>5. f = new \/ f \in opened BY <1>1
  <2> QED BY <2>1, <2>2, <2>3, <2>4, <2>5 DEF DescInv, AllOwned
<1>10. ClosedClean' BY <1>0, <1>1, <1>2 DEF DescInv, ClosedClean
<1>11. Counted'
  <2>1. fdarray[new] = Nothing BY <1>0 DEF DescInv, ClosedClean
  <2>2. new \notin Listening /\ Listening' = Listening
    BY <1>0, <1>2, <2>1, Numbers, OwnersDiffer DEF Listening
  <2> QED BY <1>0, <1>1, <2>2, CountedOpen DEF DescInv
<1>12. Told'
  <2> SUFFICES ASSUME NEW d \in Conns
               PROVE  in_epoll'[d] <=> (d \in InUse' /\ epoll'[fd'[d]] # "none")
    BY DEF Told
  <2>1. CASE owner = Client(c) /\ d = c
    <3>1. in_epoll'[d] = FALSE /\ fd'[d] = new /\ event = "none"
      BY <1>4, <2>1, OwnersDiffer DEF new
    <3> QED BY <1>0, <1>2, <3>1
  <2>2. CASE ~(owner = Client(c) /\ d = c)
    <3>1. in_epoll'[d] = in_epoll[d] /\ fd'[d] = fd[d] /\ (d \in InUse' <=> d \in InUse)
      BY <1>4, <2>2
    <3>2. d \in InUse => epoll'[fd[d]] = epoll[fd[d]]
      BY <1>0, <1>1, <1>2 DEF DescInv, ClientsOwn
    <3> QED BY <3>1, <3>2 DEF DescInv, Told
  <2> QED BY <2>1, <2>2
<1> QED BY <1>7, <1>8, <1>9, <1>10, <1>11, <1>12 DEF DescInv

(***************************************************************************)
(* What epoll waits for at one descriptor is changed: con->fde_ndx goes    *)
(* with it when it is that of a connection.                                *)
(***************************************************************************)
LEMMA EpollKeeps ==
    ASSUME TypeOK, DescInv, NEW f, NEW event, epoll' = [epoll EXCEPT ![f] = event],
           UNCHANGED <<opened, fdarray, cur_fds, fd, back>>, InUse' = InUse,
           \/ \E c \in InUse : /\ f = fd[c]
                               /\ in_epoll' = [in_epoll EXCEPT ![c] = (event # "none")]
           \/ /\ in_epoll' = in_epoll /\ f \in opened
              /\ fdarray[f] = Listener \/ \E c \in Conns : fdarray[f] = Gateway(c)
    PROVE  DescInv'
<1>0. InUse \subseteq Conns BY DEF InUse
<1>1. f \in opened /\ opened \subseteq Fds BY DEF TypeOK, DescInv, ClientsOwn
<1>2. \A g \in Fds : epoll'[g] = IF g = f THEN event ELSE epoll[g] BY DEF TypeOK
<1>3. ClientsOwn' /\ BackendsOwn' /\ AllOwned'
  BY DEF DescInv, ClientsOwn, BackendsOwn, AllOwned
<1>4. ClosedClean' BY <1>1, <1>2 DEF DescInv, ClosedClean
<1>5. Counted' BY DEF DescInv, Counted, Listening
<1>6. Told'
  <2> SUFFICES ASSUME NEW d \in Conns
               PROVE  in_epoll'[d] <=> (d \in InUse /\ epoll'[fd[d]] # "none")
    BY DEF Told
  <2>1. in_epoll[d] <=> (d \in InUse /\ epoll[fd[d]] # "none") BY DEF DescInv, Told
  <2>2. \A c \in InUse : fd[c] \in Fds /\ fdarray[fd[c]] = Client(c)
    BY <1>1 DEF DescInv, ClientsOwn
  <2>3. ASSUME NEW c \in InUse, f = fd[c], in_epoll' = [in_epoll EXCEPT ![c] = (event # "none")]
        PROVE  in_epoll'[d] <=> (d \in InUse /\ epoll'[fd[d]] # "none")
    <3>1. CASE d = c BY <1>0, <1>1, <1>2, <2>3, <3>1 DEF TypeOK
    <3>2. CASE d # c
      <4>1. d \in InUse => fd[d] # f BY <2>2, <2>3, <3>2, OwnersDiffer
      <4>2. in_epoll'[d] = in_epoll[d] BY <2>3, <3>2 DEF TypeOK
      <4> QED BY <1>2, <2>1, <2>2, <4>1, <4>2
    <3> QED BY <3>1, <3>2
  <2>4. CASE in_epoll' = in_epoll /\ \A c \in InUse : fd[c] # f
    BY <1>2, <2>1, <2>2, <2>4
  <2>5. in_epoll' = in_epoll /\ (fdarray[f] = Listener \/ \E c \in Conns : fdarray[f] = Gateway(c))
        => \A c \in InUse : fd[c] # f
    BY <2>2, OwnersDiffer
  <2> QED BY <2>3, <2>4, <2>5
<1> QED BY <1>3, <1>4, <1>5, <1>6 DEF DescInv

\* nothing happens to the descriptors
LEMMA SameDescs ==
    ASSUME DescInv, UNCHANGED <<opened, epoll, fdarray, cur_fds, fd, back, in_epoll>>,
           InUse' = InUse
    PROVE  DescInv'
BY DEF DescInv, ClientsOwn, BackendsOwn, AllOwned, ClosedClean, Counted, Told, Listening

(***************************************************************************)
(* A step taken for connection c leaves the descriptors of all others as   *)
(* they are, and nobody but the listen socket gets its handler.            *)
(***************************************************************************)
Kept(c) ==
    /\ \A f \in opened :
          fdarray[f] # Client(c) /\ fdarray[f] # Gateway(c) =>
             f \in opened' /\ fdarray'[f] = fdarray[f] /\ epoll'[f] = epoll[f]
    /\ fdarray'[Listen] = Listener => fdarray[Listen] = Listener

LEMMA CloseLeaves ==
    ASSUME TypeOK, DescInv, NEW c \in Conns, NEW gone, Close(gone),
           \A f \in gone : fdarray[f] \in {Client(c), Gateway(c)}
    PROVE  Kept(c)
BY Numbers, OwnersDiffer DEF Kept, Close, Forget, TypeOK

LEMMA OpenLeaves ==
    ASSUME TypeOK, DescInv, NEW c \in Conns, NEW event,
           Open(Client(c), event) \/ Open(Gateway(c), event)
    PROVE  Kept(c)
<1>1. LowestFree \in Fds \ opened BY LowestFreeType DEF Open, TypeOK
<1>2. PICK owner \in {Client(c), Gateway(c)} : Open(owner, event) OBVIOUS
<1>3. opened' = opened \cup {LowestFree} /\ opened \subseteq Fds BY <1>2 DEF Open, TypeOK
<1>4. \A f \in Fds : /\ fdarray'[f] = IF f = LowestFree THEN owner ELSE fdarray[f]
                     /\ epoll'[f] = IF f = LowestFree THEN event ELSE epoll[f]
  BY <1>2 DEF Open, TypeOK
<1>5. owner # Listener BY OwnersDiffer
<1> QED BY <1>1, <1>3, <1>4, <1>5, Numbers DEF Kept

LEMMA EpollLeaves ==
    ASSUME TypeOK, DescInv, NEW c \in Conns, NEW f, NEW event,
           epoll' = [epoll EXCEPT ![f] = event], UNCHANGED <<opened, fdarray>>,
           fdarray[f] = Client(c) \/ fdarray[f] = Gateway(c)
    PROVE  Kept(c)
BY DEF Kept, TypeOK

LEMMA SameLeaves ==
    ASSUME UNCHANGED <<opened, epoll, fdarray>>, NEW c
    PROVE  Kept(c)
BY DEF Kept

\* the table of connections and who is in use
LEMMA InUseDel ==
    ASSUME TypeOK, TableOK, NEW c \in Conns, ConnectionDel(c)
    PROVE  c \in InUse /\ InUse' = InUse \ {c}
<1> DEFINE last == ptr[used - 1]
<1>1. TableInv BY DEF TypeOK, TableInv
<1>2. ndx[c] \in Places /\ ndx[c] < used BY <1>1, HasPlace DEF ConnectionDel
<1>3. used - 1 \in Places /\ used \in Nat
  BY <1>2, TableAssumption DEF TypeOK, TableTypeOK, Places
<1>4. last \in Conns /\ ndx[last] = used - 1
  BY <1>3, TableAssumption DEF TypeOK, TableTypeOK, TableOK, Places
<1>5. ndx' = [ndx EXCEPT ![last] = ndx[c], ![c] = -1] BY DEF ConnectionDel
<1>6. ndx \in [Conns -> Places \cup {-1}] BY DEF TypeOK, TableTypeOK
<1>7. ndx[c] # -1 /\ ndx[last] # -1 BY <1>3, <1>4 DEF ConnectionDel, Places
<1> HIDE DEF last
<1>8. \A d \in Conns : ndx'[d] = IF d = c THEN -1 ELSE IF d = last THEN ndx[c] ELSE ndx[d]
  BY <1>5, <1>6
<1> QED BY <1>4, <1>7, <1>8 DEF InUse

LEMMA InUseGet ==
    ASSUME TypeOK, TableOK, GetNewConnection
    PROVE  ptr[used] \in Conns \ InUse /\ InUse' = InUse \cup {ptr[used]}
<1>1. used \in Places BY TableAssumption DEF GetNewConnection, TypeOK, TableTypeOK, Places
<1>2. ptr[used] \in Conns /\ ndx[ptr[used]] = -1
  BY <1>1 DEF TypeOK, TableTypeOK, TableOK, Places
<1>3. \A d \in Conns : ndx'[d] = IF d = ptr[used] THEN used ELSE ndx[d]
  BY <1>2 DEF GetNewConnection, TypeOK, TableTypeOK
<1>4. used # -1 BY <1>1 DEF Places
<1> QED BY <1>2, <1>3, <1>4 DEF InUse

LEMMA InUsePlace ==
    ASSUME TypeOK, TableOK, i < used
    PROVE  ptr[i] \in InUse
<1>1. i \in Places /\ used \in Nat /\ i # -1
  BY TableAssumption DEF TypeOK, TableTypeOK, Places
<1> QED BY <1>1 DEF TypeOK, TableTypeOK, TableOK, InUse

(***************************************************************************)
(* What a connection is doing and what its gateway request has open.       *)
(***************************************************************************)
InUseStates == \A c \in Conns : state[c] = "connect" <=> c \notin InUse

Request(c) ==
    /\ back[c] # NoFd <=> gw[c] \in {"connecting", "waiting", "answering", "broken"}
    /\ gw[c] # "none" => state[c] \in {"handlereq", "write", "respend", "error"}
    /\ gw[c] = "connecting" => epoll[back[c]] = "OUT"
    /\ gw[c] \in {"waiting", "answering"} => epoll[back[c]] = "IN"
Requests == \A c \in Conns : Request(c)

\* the listen socket, which a graceful shutdown closes
ListenInv ==
    /\ ~graceful_shutdown \/ ~sockets_disabled => fdarray[Listen] = Listener
    /\ sockets_disabled /\ fdarray[Listen] = Listener => epoll[Listen] = "none"

OwnInv == DescInv /\ InUseStates /\ Requests /\ ListenInv

LEMMA OwnInit == Init => OwnInv
<1> SUFFICES ASSUME Init PROVE OwnInv
  OBVIOUS
<1>1. InUse = {} BY DEF Init, TableInit, InUse
<1>2. Listening = {Listen}
  <2>1. fdarray[Listen] = Listener BY Numbers DEF Init
  <2> QED BY <2>1, ListeningIs
<1>3. Cardinality(opened \ Listening) = 0
  <2>1. opened \ Listening = {} BY <1>2 DEF Init
  <2> QED BY <2>1, FS_EmptySet
<1>4. DescInv
  BY <1>1, <1>3, Numbers DEF Init, DescInv, ClientsOwn, BackendsOwn, AllOwned, ClosedClean,
     Counted, Told
<1>5. InUseStates /\ Requests /\ ListenInv
  BY <1>1, Numbers DEF Init, InUseStates, Requests, Request, ListenInv
<1> QED BY <1>4, <1>5 DEF OwnInv

\* only connection c has moved
OnlyFor(c) ==
    /\ Kept(c)
    /\ \A d \in Conns : d # c => /\ state'[d] = state[d] /\ gw'[d] = gw[d]
                                 /\ back'[d] = back[d] /\ fd'[d] = fd[d]
                                 /\ d \in InUse' <=> d \in InUse

(***************************************************************************)
(* ... so the others' requests are what they were, and so is the listen    *)
(* socket.                                                                 *)
(***************************************************************************)
LEMMA OthersKept ==
    ASSUME TypeOK, OwnInv, NEW c \in Conns, OnlyFor(c), DescInv',
           (state'[c] = "connect" <=> c \notin InUse'), Request(c)',
           UNCHANGED <<graceful_shutdown, sockets_disabled>>
    PROVE  OwnInv'
<1>1. InUseStates' BY DEF OwnInv, InUseStates, OnlyFor
<1>2. Requests'
  <2> SUFFICES ASSUME NEW d \in Conns, d # c PROVE Request(d)'
    BY DEF Requests
  <2>1. state'[d] = state[d] /\ gw'[d] = gw[d] /\ back'[d] = back[d] BY DEF OnlyFor
  <2>2. back[d] # NoFd => epoll'[back[d]] = epoll[back[d]]
    BY OwnersDiffer DEF OwnInv, DescInv, BackendsOwn, OnlyFor, Kept
  <2>3. Request(d) BY DEF OwnInv, Requests
  <2> QED BY <2>1, <2>2, <2>3 DEF Request
<1>3. ListenInv'
  <2>1. fdarray[Listen] = Listener => Listen \in opened
    BY Numbers, OwnersDiffer DEF OwnInv, DescInv, ClosedClean
  <2>2. fdarray[Listen] = Listener => fdarray'[Listen] = Listener /\ epoll'[Listen] = epoll[Listen]
    BY <2>1, OwnersDiffer DEF OnlyFor, Kept
  <2> QED BY <2>2 DEF OwnInv, ListenInv, OnlyFor, Kept
<1> QED BY <1>1, <1>2, <1>3 DEF OwnInv

(***************************************************************************)
(* What has to be shown of a step taken for connection c.                  *)
(***************************************************************************)
Moved(c) == /\ OnlyFor(c) /\ DescInv' /\ Request(c)'
            /\ state'[c] = "connect" <=> c \notin InUse'

\* the facts about the machine's connection every step starts from
LEMMA OfCon ==
    ASSUME TypeOK, OwnInv, NEW c \in Conns
    PROVE  /\ c \in InUse <=> state[c] # "connect"
           /\ Request(c)
           /\ c \in InUse => fd[c] \in opened /\ fdarray[fd[c]] = Client(c)
           /\ back[c] # NoFd => back[c] \in opened /\ fdarray[back[c]] = Gateway(c)
           /\ back[c] # NoFd => c \in InUse
BY DEF OwnInv, InUseStates, Requests, Request, DescInv, ClientsOwn, BackendsOwn

\* steps that leave the descriptors and the table alone
LEMMA MovedQuietly ==
    ASSUME TypeOK, OwnInv, NEW c \in Conns,
           UNCHANGED <<table, fdvars, fd, in_epoll, back>>,
           \A d \in Conns : d # c => state'[d] = state[d] /\ gw'[d] = gw[d],
           c \in InUse <=> state'[c] # "connect", Request(c)'
    PROVE  Moved(c)
<1>1. InUse' = InUse BY DEF InUse, table
<1>2. DescInv' BY <1>1, SameDescs DEF OwnInv, fdvars
<1>3. OnlyFor(c) BY <1>1, SameLeaves DEF OnlyFor, fdvars
<1> QED BY <1>1, <1>2, <1>3 DEF Moved

\* the end of a response, with or without the end of the connection
LEMMA FinishMoves ==
    ASSUME TypeOK, TableOK, OwnInv, NEW c \in Conns, c = con, state[c] # "connect",
           \/ Finish
           \/ /\ Goto("read") /\ Close(Backend) /\ Reset
              /\ UNCHANGED <<table, fd, in_epoll>>
    PROVE  Moved(c)
<1>1. c \in InUse /\ fd[c] \in opened /\ fdarray[fd[c]] = Client(c)
  BY OfCon
<1>2. \A f \in Backend : fdarray[f] = Gateway(c) BY OfCon DEF Backend
<1>3. fd' = fd /\ back' = [back EXCEPT ![c] = NoFd] /\ gw' = [gw EXCEPT ![c] = "none"]
  BY DEF Finish, Reset
<1>4. \E s \in {"close", "read", "connect"} : state' = [state EXCEPT ![c] = s]
  BY DEF Finish, ConnectionClose, Goto
<1>5. Request(c)' BY <1>3, <1>4 DEF Request, TypeOK
<1>6. CASE Close(Backend) /\ UNCHANGED <<table, in_epoll>> /\ (Goto("read") \/ Goto("close"))
  <2>1. InUse' = InUse BY <1>6 DEF InUse, table
  <2>2. DescInv' BY <1>3, <1>6, <2>1, CloseKeeps DEF OwnInv, Backend
  <2>3. Kept(c) BY <1>2, <1>6, CloseLeaves DEF OwnInv
  <2>4. state'[c] # "connect" BY <1>6 DEF Goto, TypeOK
  <2>5. \A d \in Conns : d # c => state'[d] = state[d] /\ gw'[d] = gw[d] /\ back'[d] = back[d]
    BY <1>3, <1>4 DEF TypeOK
  <2> QED BY <1>1, <1>3, <1>5, <2>1, <2>2, <2>3, <2>4, <2>5 DEF Moved, OnlyFor
<1>7. CASE ConnectionClose(Backend)
  <2>1. InUse' = InUse \ {c} BY <1>7, InUseDel DEF ConnectionClose
  <2>2. Close(Backend \cup {fd[c]}) /\ in_epoll' = [in_epoll EXCEPT ![c] = FALSE]
    BY <1>7 DEF ConnectionClose
  <2>3. DescInv' BY <1>1, <1>3, <2>1, <2>2, CloseKeeps DEF OwnInv, Backend
  <2>4. Kept(c) BY <1>1, <1>2, <2>2, CloseLeaves DEF OwnInv
  <2>5. state'[c] = "connect" BY <1>7 DEF ConnectionClose, Goto, TypeOK
  <2>6. \A d \in Conns : d # c => state'[d] = state[d] /\ gw'[d] = gw[d] /\ back'[d] = back[d]
    BY <1>3, <1>4 DEF TypeOK
  <2> QED BY <1>3, <1>5, <2>1, <2>3, <2>4, <2>5, <2>6 DEF Moved, OnlyFor
<1> QED BY <1>6, <1>7 DEF Finish

\* what handle_request does with the backend
LEMMA RequestMoves ==
    ASSUME TypeOK, TableOK, OwnInv, NEW c \in Conns, c = con, ConHandleRequest
    PROVE  Moved(c)
<1>1. c \in InUse /\ state[c] = "handlereq" /\ Request(c)
  BY OfCon DEF ConHandleRequest, In
<1>2. InUse' = InUse /\ UNCHANGED <<table, fd, in_epoll>> BY DEF ConHandleRequest, InUse, table
<1>3. back[c] # NoFd => back[c] \in opened /\ fdarray[back[c]] = Gateway(c) BY OfCon
<1>4. CASE Answer
  <2>1. \E s \in {"write", "error"} : state' = [state EXCEPT ![c] = s]
    BY <1>4 DEF Answer, Goto
  <2>2. UNCHANGED <<gw, back, fdvars>> BY <1>4 DEF Answer
  <2>3. Request(c)' BY <1>1, <2>1, <2>2 DEF Request, TypeOK, fdvars
  <2>4. (c \in InUse <=> state'[c] # "connect")
        /\ \A d \in Conns : d # c => state'[d] = state[d] /\ gw'[d] = gw[d]
    BY <1>1, <2>1, <2>2 DEF TypeOK
  <2> QED BY <1>2, <2>2, <2>3, <2>4, MovedQuietly
<1>5. ASSUME NEW g \in {"connecting", "waiting"}, gw[c] = "none", Goto("handlereq"),
             Open(Gateway(c), IF g = "connecting" THEN "OUT" ELSE "IN"),
             gw' = [gw EXCEPT ![c] = g], back' = [back EXCEPT ![c] = LowestFree]
      PROVE  Moved(c)
  <2>1. back[c] = NoFd BY <1>1, <1>5 DEF Request
  <2>2. DescInv' BY <1>2, <1>5, <2>1, OpenKeeps DEF OwnInv
  <2>3. Kept(c) BY <1>5, OpenLeaves DEF OwnInv
  <2>4. LowestFree \in Fds BY <1>5, LowestFreeType DEF Open, TypeOK
  <2>5. \A d \in Conns : state'[d] = IF d = c THEN "handlereq" ELSE state[d]
    BY <1>5 DEF Goto, TypeOK
  <2>6. gw'[c] = g /\ back'[c] = LowestFree
        /\ epoll'[LowestFree] = IF g = "connecting" THEN "OUT" ELSE "IN"
    BY <1>5, <2>4 DEF TypeOK, Open
  <2>7. Request(c)' BY <2>4, <2>5, <2>6, Numbers DEF Request
  <2>8. \A d \in Conns : d # c => gw'[d] = gw[d] /\ back'[d] = back[d] BY <1>5 DEF TypeOK
  <2> QED BY <1>1, <1>2, <2>2, <2>3, <2>5, <2>7, <2>8 DEF Moved, OnlyFor
<1>6. CASE HostFailed
  <2>1. Close({back[c]} \ {NoFd}) /\ back' = [back EXCEPT ![c] = NoFd]
        /\ gw' = [gw EXCEPT ![c] = "none"] /\ state' = [state EXCEPT ![c] = "handlereq"]
    BY <1>6 DEF HostFailed, Goto
  <2>2. DescInv' BY <1>2, <2>1, CloseKeeps DEF OwnInv
  <2>3. \A f \in {back[c]} \ {NoFd} : fdarray[f] = Gateway(c) BY <1>3
  <2>4. Kept(c) BY <2>1, <2>3, CloseLeaves DEF OwnInv
  <2>5. Request(c)' BY <2>1 DEF Request, TypeOK
  <2>6. state'[c] # "connect"
        /\ \A d \in Conns : d # c => state'[d] = state[d] /\ gw'[d] = gw[d] /\ back'[d] = back[d]
    BY <2>1 DEF TypeOK
  <2> QED BY <1>1, <1>2, <2>2, <2>4, <2>5, <2>6 DEF Moved, OnlyFor
<1>7. CASE GatewayWaits
  <2>1. gw[c] \in {"connecting", "waiting"} /\ state' = [state EXCEPT ![c] = "handlereq"]
        /\ UNCHANGED <<back, opened, fdarray, cur_fds>>
    BY <1>7 DEF GatewayWaits, Goto
  <2>2. back[c] # NoFd /\ back[c] \in Fds BY <1>1, <1>3, <2>1 DEF Request, TypeOK
  <2>3. CASE UNCHANGED <<gw, epoll>>
    <3>1. Request(c)' /\ (c \in InUse <=> state'[c] # "connect")
          /\ \A d \in Conns : d # c => state'[d] = state[d] /\ gw'[d] = gw[d]
      BY <1>1, <2>1, <2>3 DEF Request, TypeOK
    <3> QED BY <1>2, <2>1, <2>3, <3>1, MovedQuietly DEF fdvars
  <2>4. CASE gw' = [gw EXCEPT ![c] = "waiting"] /\ epoll' = [epoll EXCEPT ![back[c]] = "IN"]
    <3>1. DescInv' BY <1>2, <1>3, <2>1, <2>2, <2>4, EpollKeeps DEF OwnInv
    <3>2. Kept(c) BY <1>3, <2>1, <2>2, <2>4, EpollLeaves DEF OwnInv
    <3>3. Request(c)' BY <2>1, <2>2, <2>4 DEF Request, TypeOK
    <3>4. state'[c] # "connect"
          /\ \A d \in Conns : d # c => state'[d] = state[d] /\ gw'[d] = gw[d] /\ back'[d] = back[d]
      BY <2>1, <2>4 DEF TypeOK
    <3> QED BY <1>1, <1>2, <3>1, <3>2, <3>3, <3>4 DEF Moved, OnlyFor
  <2> QED BY <1>7, <2>3, <2>4 DEF GatewayWaits
<1> QED BY <1>4, <1>5, <1>6, <1>7 DEF ConHandleRequest, GatewayOpened

\* the descriptor's events when the machine stops
LEMMA ExitMoves ==
    ASSUME TypeOK, TableOK, OwnInv, NEW c \in Conns, c = con, Exit
    PROVE  Moved(c)
<1>1. UNCHANGED <<table, state, gw, fd, back, opened, fdarray, cur_fds>> BY DEF Exit
<1>2. InUse' = InUse BY <1>1 DEF InUse, table
<1>3. Request(c) /\ (c \in InUse <=> state[c] # "connect") BY OfCon
<1>4. CASE UNCHANGED <<epoll, in_epoll>>
  <2>1. Request(c)' BY <1>1, <1>3, <1>4 DEF Request
  <2> QED BY <1>1, <1>3, <1>4, <2>1, MovedQuietly DEF fdvars
<1>5. ASSUME NEW e \in {"none", "IN", "OUT"}, c \in InUse, epoll' = [epoll EXCEPT ![fd[c]] = e],
             in_epoll' = [in_epoll EXCEPT ![c] = (e # "none")]
      PROVE  Moved(c)
  <2>1. fd[c] \in opened /\ fdarray[fd[c]] = Client(c) BY <1>5, OfCon
  <2>2. DescInv' BY <1>1, <1>2, <1>5, EpollKeeps DEF OwnInv
  <2>3. Kept(c) BY <1>1, <1>5, <2>1, EpollLeaves DEF OwnInv
  <2>4. back[c] # NoFd => back[c] # fd[c] BY <2>1, OfCon, OwnersDiffer
  <2>5. back[c] # NoFd => epoll'[back[c]] = epoll[back[c]] BY <1>5, <2>4, OfCon DEF TypeOK
  <2>6. Request(c)' BY <1>1, <1>3, <2>5 DEF Request
  <2> QED BY <1>1, <1>2, <1>3, <2>2, <2>3, <2>6 DEF Moved, OnlyFor
<1>6. \/ UNCHANGED <<epoll, in_epoll>>
      \/ \E e \in {"none", "IN", "OUT"} : /\ epoll' = [epoll EXCEPT ![fd[c]] = e]
                                          /\ in_epoll' = [in_epoll EXCEPT ![c] = (e # "none")]
                                          /\ c \in InUse
  <2>1. in_epoll[c] => c \in InUse BY DEF OwnInv, DescInv, Told
  <2>2. EventDel(c) => \/ UNCHANGED <<epoll, in_epoll>>
                       \/ /\ epoll' = [epoll EXCEPT ![fd[c]] = "none"]
                          /\ in_epoll' = [in_epoll EXCEPT ![c] = ("none" # "none")] /\ c \in InUse
    BY <2>1 DEF EventDel
  <2>3. \A e \in {"IN", "OUT"} : EventSet(c, e) => /\ epoll' = [epoll EXCEPT ![fd[c]] = e]
                                                   /\ in_epoll' = [in_epoll EXCEPT ![c] = (e # "none")]
    BY DEF EventSet
  <2>4. \/ EventDel(c) \/ (c \in InUse /\ \E e \in {"IN", "OUT"} : EventSet(c, e))
    BY <1>3 DEF Exit
  <2> QED BY <2>2, <2>3, <2>4
<1> QED BY <1>4, <1>5, <1>6

(***************************************************************************)
(* Whatever the machine does for its connection is nobody else's business. *)
(***************************************************************************)
LEMMA MachineMoves ==
    ASSUME TypeOK, TableOK, OwnInv, StateMachine, NEW c \in Conns, c = con
    PROVE  Moved(c)
<1>1. Request(c) /\ (c \in InUse <=> state[c] # "connect") BY OfCon
<1>2. CASE ConConnect \/ ConRead \/ ConWrite
  <2>1. UNCHANGED <<table, fdvars, fd, in_epoll, back, gw>> BY <1>2 DEF ConConnect, ConRead, ConWrite
  <2>2. \A d \in Conns : d # c => state'[d] = state[d]
    BY <1>2 DEF ConConnect, ConRead, ConWrite, Goto, TypeOK
  <2>3. /\ state'[c] = "connect" <=> state[c] = "connect"
        /\ gw[c] # "none" => state'[c] \in {"handlereq", "write", "respend", "error"}
    BY <1>1, <1>2 DEF ConConnect, ConRead, ConWrite, In, Goto, TypeOK, Request
  <2>4. Request(c)' BY <1>1, <2>1, <2>3 DEF Request, fdvars
  <2> QED BY <1>1, <2>1, <2>2, <2>3, <2>4, MovedQuietly
<1>3. CASE ConResponseEnd \/ ConError
  BY <1>3, FinishMoves DEF ConResponseEnd, ConError, In
<1>4. CASE ConClose
  <2>0. state[c] = "close" /\ gw[c] = "none" /\ back[c] = NoFd /\ c \in InUse
    BY <1>1, <1>4 DEF ConClose, In, Request
  <2>1. CASE Goto("close") /\ UNCHANGED <<table, in_epoll, fdvars>>
    <3>1. UNCHANGED <<gw, fd, back>> BY <1>4 DEF ConClose
    <3>2. \A d \in Conns : state'[d] = state[d] BY <2>0, <2>1 DEF Goto, TypeOK
    <3>3. Request(c)' BY <1>1, <2>1, <3>1, <3>2 DEF Request, fdvars
    <3> QED BY <2>0, <2>1, <3>1, <3>2, <3>3, MovedQuietly
  <2>2. CASE ConnectionClose({})
    <3>1. back' = [back EXCEPT ![c] = NoFd] /\ gw' = [gw EXCEPT ![c] = "none"]
      BY <1>4, <2>0 DEF ConClose, TypeOK
    <3>2. Backend = {} BY <2>0 DEF Backend
    <3>3. Finish \/ Moved(c)
      <4>1. ConnectionClose(Backend) BY <2>2, <3>2
      <4> QED BY <1>4, <3>1, <4>1 DEF Finish, Reset, ConClose
    <3> QED BY <2>0, <3>3, FinishMoves
  <2> QED BY <1>4, <2>1, <2>2 DEF ConClose
<1> QED BY <1>2, <1>3, <1>4, RequestMoves, ExitMoves DEF StateMachine

\* a client is accepted
LEMMA AcceptMoves ==
    ASSUME TypeOK, TableOK, OwnInv, Accept
    PROVE  ptr[used] \in Conns \ InUse /\ \A c \in Conns : c = ptr[used] => Moved(c)
<1>1. ptr[used] \in Conns \ InUse /\ InUse' = InUse \cup {ptr[used]}
  BY InUseGet DEF Accept
<1> SUFFICES ASSUME NEW c \in Conns, c = ptr[used] PROVE Moved(c)
  BY <1>1
<1>2. Open(Client(c), "none") /\ fd' = [fd EXCEPT ![c] = LowestFree]
      /\ in_epoll' = [in_epoll EXCEPT ![c] = FALSE] /\ state' = [state EXCEPT ![c] = "read"]
      /\ UNCHANGED <<gw, back>>
  BY DEF Accept
<1>3. DescInv' BY <1>1, <1>2, OpenKeeps DEF OwnInv
<1>4. Kept(c) BY <1>2, OpenLeaves DEF OwnInv
<1>5. gw[c] = "none" /\ back[c] = NoFd
  <2>1. state[c] = "connect" /\ Request(c) BY <1>1, OfCon
  <2> QED BY <2>1 DEF Request, TypeOK, Gateways
<1>6. Request(c)' BY <1>2, <1>5 DEF Request
<1>7. state'[c] # "connect" /\ \A d \in Conns : d # c => state'[d] = state[d] /\ fd'[d] = fd[d]
  BY <1>2 DEF TypeOK
<1> QED BY <1>1, <1>2, <1>3, <1>4, <1>6, <1>7 DEF Moved, OnlyFor

\* an event of a client
LEMMA ClientMoves ==
    ASSUME TypeOK, OwnInv, NEW c \in Conns, ClientEvent(c)
    PROVE  Moved(c) /\ c \in InUse
<1>1. fd[c] \in Fds /\ fdarray[fd[c]] = Client(c) BY DEF ClientEvent, Dispatch, TypeOK
<1>2. c \in InUse
  <2>1. fd[c] \in opened BY <1>1, OwnersDiffer DEF OwnInv, DescInv, ClosedClean
  <2>2. \A d \in InUse : fdarray[fd[d]] = Client(d) BY DEF OwnInv, DescInv, ClientsOwn
  <2>3. \A d \in Conns : d \in InUse => c = d \/ fd[d] # fd[c]
    BY <1>1, <2>2, OwnersDiffer
  <2>4. \A d \in Conns : back[d] # fd[c]
    <3> SUFFICES ASSUME NEW d \in Conns, back[d] = fd[c] PROVE FALSE
      OBVIOUS
    <3>1. back[d] # NoFd BY <1>1, Numbers
    <3> QED BY <1>1, <3>1, OfCon, OwnersDiffer
  <2>5. InUse \subseteq Conns BY DEF InUse
  <2> QED BY <1>1, <2>1, <2>3, <2>4, <2>5, OwnersDiffer DEF OwnInv, DescInv, AllOwned
<1>3. Request(c) /\ state[c] # "connect" BY <1>2, OfCon
<1>4. UNCHANGED <<table, fdvars, fd, in_epoll, back, gw>> BY DEF ClientEvent, Dispatch
<1>5. /\ \A d \in Conns : d # c => state'[d] = state[d]
      /\ state'[c] # "connect"
      /\ gw[c] # "none" => state'[c] \in {"handlereq", "write", "respend", "error"}
  BY <1>3 DEF ClientEvent, Become, TypeOK, Request
<1>6. Request(c)' BY <1>3, <1>4, <1>5 DEF Request, fdvars
<1> QED BY <1>2, <1>4, <1>5, <1>6, MovedQuietly

\* an event of a backend
LEMMA BackendMoves ==
    ASSUME TypeOK, OwnInv, NEW c \in Conns, GatewayEvent(c)
    PROVE  Moved(c) /\ c \in InUse /\ back[c] \in opened /\ fdarray[back[c]] = Gateway(c)
<1>1. back[c] \in Fds /\ back[c] # NoFd BY Numbers DEF GatewayEvent, Dispatch, TypeOK
<1>2. c \in InUse /\ Request(c) /\ state[c] # "connect" /\ back[c] \in opened
      /\ fdarray[back[c]] = Gateway(c)
  BY <1>1, OfCon
<1>3. UNCHANGED <<table, fd, in_epoll>> /\ InUse' = InUse
  BY DEF GatewayEvent, Dispatch, InUse, table
<1>4. gw[c] \in {"connecting", "waiting", "answering", "broken"} BY <1>1, <1>2 DEF Request
<1>5. state[c] \in {"handlereq", "write", "respend", "error"} BY <1>2, <1>4 DEF Request
<1>6. /\ \A d \in Conns : d # c => state'[d] = state[d]
      /\ state'[c] \in {"handlereq", "write", "respend", "error"}
  BY <1>5 DEF GatewayEvent, Become, TypeOK
<1>7. ASSUME NEW g \in Gateways, g # "connecting" \/ gw[c] = "connecting",
             g = "waiting" => gw[c] = "waiting", g = "answering" => gw[c] \in {"waiting", "answering"},
             g \in {"connecting", "waiting", "answering", "broken"}, Keeps(c, g)
      PROVE  Moved(c)
  <2>1. UNCHANGED <<back, fdvars>> /\ gw' = [gw EXCEPT ![c] = g] BY <1>7 DEF Keeps
  <2>2. Request(c)'
    <3>1. gw'[c] = g /\ back'[c] = back[c] /\ epoll' = epoll BY <2>1 DEF TypeOK, fdvars
    <3>2. g = "connecting" => epoll[back[c]] = "OUT" BY <1>2, <1>7 DEF Request
    <3>3. g \in {"waiting", "answering"} => epoll[back[c]] = "IN" BY <1>2, <1>7 DEF Request
    <3> QED BY <1>1, <1>6, <1>7, <3>1, <3>2, <3>3 DEF Request
  <2>3. \A d \in Conns : d # c => gw'[d] = gw[d] BY <2>1 DEF TypeOK
  <2> QED BY <1>2, <1>3, <1>6, <2>1, <2>2, <2>3, MovedQuietly
<1>8. ASSUME NEW g \in {"none", "done"}, HangUp(c, g) PROVE Moved(c)
  <2>1. Close({back[c]}) /\ gw' = [gw EXCEPT ![c] = g] /\ back' = [back EXCEPT ![c] = NoFd]
    BY <1>8 DEF HangUp
  <2>2. {back[c]} = {back[c]} \ {NoFd} BY <1>1
  <2>3. DescInv' BY <1>3, <2>1, <2>2, CloseKeeps DEF OwnInv
  <2>4. Kept(c) BY <1>2, <2>1, CloseLeaves DEF OwnInv
  <2>5. Request(c)' BY <1>6, <2>1 DEF Request, TypeOK
  <2>6. \A d \in Conns : d # c => gw'[d] = gw[d] /\ back'[d] = back[d] BY <2>1 DEF TypeOK
  <2> QED BY <1>2, <1>3, <1>6, <2>3, <2>4, <2>5, <2>6 DEF Moved, OnlyFor
<1>9. ASSUME gw' = [gw EXCEPT ![c] = "waiting"], epoll' = [epoll EXCEPT ![back[c]] = "IN"],
             UNCHANGED <<back, opened, fdarray, cur_fds>>
      PROVE  Moved(c)
  <2>1. DescInv' BY <1>2, <1>3, <1>9, EpollKeeps DEF OwnInv
  <2>2. Kept(c) BY <1>2, <1>9, EpollLeaves DEF OwnInv
  <2>3. Request(c)' BY <1>1, <1>6, <1>9 DEF Request, TypeOK
  <2>4. \A d \in Conns : d # c => gw'[d] = gw[d] BY <1>9 DEF TypeOK
  <2> QED BY <1>2, <1>3, <1>6, <1>9, <2>1, <2>2, <2>3, <2>4 DEF Moved, OnlyFor
<1>10. \/ \E g \in Gateways : /\ g # "connecting" \/ gw[c] = "connecting"
                              /\ g = "waiting" => gw[c] = "waiting"
                              /\ g = "answering" => gw[c] \in {"waiting", "answering"}
                              /\ g \in {"connecting", "waiting", "answering", "broken"}
                              /\ Keeps(c, g)
       \/ \E g \in {"none", "done"} : HangUp(c, g)
       \/ /\ gw' = [gw EXCEPT ![c] = "waiting"] /\ epoll' = [epoll EXCEPT ![back[c]] = "IN"]
          /\ UNCHANGED <<back, opened, fdarray, cur_fds>>
  BY DEF GatewayEvent, Gateways
<1> QED BY <1>2, <1>7, <1>8, <1>9, <1>10

\* steps of the main loop that are about no descriptor
LEMMA OwnSame ==
    ASSUME OwnInv, UNCHANGED <<table, state, gw, fd, in_epoll, back, fdvars, sockets_disabled>>,
           graceful_shutdown => graceful_shutdown'
    PROVE  OwnInv'
<1>1. InUse' = InUse BY DEF InUse, table
<1>2. DescInv' BY <1>1, SameDescs DEF OwnInv, fdvars
<1> QED BY <1>1, <1>2 DEF OwnInv, InUseStates, Requests, Request, ListenInv, fdvars

(***************************************************************************)
(* The listen socket is switched off and on, and closed by a graceful      *)
(* shutdown.                                                               *)
(***************************************************************************)
LEMMA SocketsOwn ==
    ASSUME TypeOK, TableOK, OwnInv, CheckSockets
    PROVE  OwnInv'
<1>1. UNCHANGED <<table, state, gw, fd, in_epoll, back, cur_fds, graceful_shutdown>>
      /\ InUse' = InUse
  BY DEF CheckSockets, Stays, sigvars, InUse, table
<1>2. fdarray[Listen] = Listener => Listen \in opened
  BY Numbers, OwnersDiffer DEF OwnInv, DescInv, ClosedClean
<1>3. \A c \in Conns : back[c] # NoFd => back[c] # Listen \/ fdarray[Listen] # Listener
  BY OwnersDiffer DEF OwnInv, DescInv, BackendsOwn
<1>4. InUseStates' BY <1>1 DEF OwnInv, InUseStates
<1>5. CASE UNCHANGED <<epoll, opened, fdarray, listening>>
  BY <1>1, <1>5, OwnSame DEF fdvars, listening
<1>6. ASSUME NEW e \in {"none", "IN"}, epoll' = [epoll EXCEPT ![Listen] = e],
             fdarray[Listen] = Listener, UNCHANGED <<opened, fdarray>>,
             sockets_disabled' = TRUE => e = "none"
      PROVE  OwnInv'
  <2>1. DescInv' BY <1>1, <1>2, <1>6, EpollKeeps DEF OwnInv
  <2>2. Requests'
    <3> SUFFICES ASSUME NEW c \in Conns PROVE Request(c)'
      BY DEF Requests
    <3>1. Request(c) BY OfCon
    <3>2. back[c] # NoFd => epoll'[back[c]] = epoll[back[c]] BY <1>3, <1>6 DEF TypeOK
    <3> QED BY <1>1, <3>1, <3>2 DEF Request
  <2>3. ListenInv' BY <1>1, <1>6, Numbers DEF ListenInv, TypeOK
  <2> QED BY <1>4, <2>1, <2>2, <2>3 DEF OwnInv
<1>7. ASSUME fdarray[Listen] = Listener, opened' = opened \ {Listen},
             fdarray' = [fdarray EXCEPT ![Listen] = Nothing],
             epoll' = [epoll EXCEPT ![Listen] = "none"],
             graceful_shutdown, sockets_disabled' = TRUE
      PROVE  OwnInv'
  <2>1. \A f \in Fds : /\ fdarray'[f] = IF f = Listen THEN Nothing ELSE fdarray[f]
                       /\ epoll'[f] = IF f = Listen THEN "none" ELSE epoll[f]
    BY <1>7 DEF TypeOK
  <2>2. \A c \in InUse : c \in Conns /\ fd[c] \in opened /\ fdarray[fd[c]] = Client(c) /\ fd[c] # Listen
    BY <1>7, OwnersDiffer DEF OwnInv, DescInv, ClientsOwn, InUse
  <2>3. opened \subseteq Fds BY DEF TypeOK
  <2>4. ClientsOwn' /\ BackendsOwn'
    BY <1>1, <1>3, <1>7, <2>1, <2>2, <2>3 DEF ClientsOwn, BackendsOwn, OwnInv, DescInv
  <2>5. AllOwned' /\ ClosedClean'
    BY <1>1, <1>7, <2>1, <2>3 DEF AllOwned, ClosedClean, OwnInv, DescInv
  <2>6. Counted'
    <3>1. opened' \ Listening' = opened \ Listening
      BY <1>7, <2>1, Numbers, OwnersDiffer DEF Listening
    <3> QED BY <1>1, <3>1 DEF Counted, OwnInv, DescInv
  <2>7. Told' BY <1>1, <2>1, <2>2, <2>3 DEF Told, OwnInv, DescInv
  <2>8. Requests'
    <3> SUFFICES ASSUME NEW c \in Conns PROVE Request(c)'
      BY DEF Requests
    <3>1. Request(c) BY OfCon
    <3>2. back[c] # NoFd => epoll'[back[c]] = epoll[back[c]]
      BY <1>3, <1>7, <2>1, <2>3 DEF OwnInv, DescInv, BackendsOwn
    <3> QED BY <1>1, <3>1, <3>2 DEF Request
  <2>9. ListenInv' BY <1>1, <1>7, <2>1, Numbers, OwnersDiffer DEF ListenInv
  <2> QED BY <1>4, <2>4, <2>5, <2>6, <2>7, <2>8, <2>9 DEF OwnInv, DescInv
<1>8. CASE sockets_disabled /\ Relaxed /\ EnableSockets
  <2>1. fdarray[Listen] = Listener BY <1>8 DEF Relaxed, OwnInv, ListenInv
  <2> QED BY <1>6, <1>8, <2>1 DEF EnableSockets
<1>9. CASE ~sockets_disabled /\ DisableSockets
  <2>1. fdarray[Listen] = Listener BY <1>9 DEF OwnInv, ListenInv
  <2> QED BY <1>6, <1>7, <1>9, <2>1 DEF DisableSockets
<1> QED BY <1>5, <1>8, <1>9 DEF CheckSockets

\* the trigger finds a connection beyond its time
LEMMA TimeoutMoves ==
    ASSUME TypeOK, TableOK, OwnInv, CheckTimeout, NEW c \in Conns, c = ptr[i]
    PROVE  Moved(c) /\ c \in InUse
<1>1. c \in InUse BY InUsePlace DEF CheckTimeout
<1>2. UNCHANGED <<table, fdvars, fd, in_epoll, back, gw>> BY DEF CheckTimeout, Stays
<1>3. Request(c) /\ state[c] # "connect" BY <1>1, OfCon
<1>4. \A d \in Conns : d # c => state'[d] = state[d] BY DEF CheckTimeout, TypeOK
<1>5. state'[c] = state[c] \/ state'[c] = "error" BY DEF CheckTimeout, TypeOK
<1>6. Request(c)' BY <1>2, <1>3, <1>5 DEF Request, fdvars
<1> QED BY <1>1, <1>2, <1>3, <1>4, <1>5, <1>6, MovedQuietly

LEMMA OwnStep == TypeOK /\ TableOK /\ OwnInv /\ [Next]_vars => OwnInv'
<1> SUFFICES ASSUME TypeOK, TableOK, OwnInv, [Next]_vars PROVE OwnInv'
  OBVIOUS
<1>0. ASSUME NEW c \in Conns, Moved(c), UNCHANGED <<graceful_shutdown, sockets_disabled>>
      PROVE  OwnInv'
  BY <1>0, OthersKept DEF Moved
<1>1. CASE StateMachine
  <2>1. con \in Conns BY <1>1, MachineRuns
  <2>2. UNCHANGED <<graceful_shutdown, sockets_disabled>>
    BY <1>1 DEF StateMachine, ConConnect, ConRead, ConHandleRequest, ConWrite, ConResponseEnd,
       ConError, ConClose, Exit, Finish, Outside, sigvars, listening
  <2> QED BY <1>0, <1>1, <2>1, <2>2, MachineMoves
<1>2. CASE Accept
  BY <1>0, <1>2, AcceptMoves DEF Accept, sigvars, listening
<1>3. CASE CheckTimeout
  <2>1. ptr[i] \in Conns BY <1>3, InUsePlace DEF CheckTimeout, InUse
  <2> QED BY <1>0, <1>3, <2>1, TimeoutMoves DEF CheckTimeout, sigvars, listening
<1>4. ASSUME NEW c \in Conns, ClientEvent(c) \/ GatewayEvent(c) PROVE OwnInv'
  <2>1. UNCHANGED <<graceful_shutdown, sockets_disabled>>
    BY <1>4 DEF ClientEvent, GatewayEvent, Dispatch, sigvars, listening
  <2> QED BY <1>0, <1>4, <2>1, ClientMoves, BackendMoves
<1>5. CASE CheckSockets BY <1>5, SocketsOwn
<1>6. CASE \/ Stop \/ SameSecond \/ NewSecond \/ AllChecked \/ CheckEnd \/ FdWaitPop \/ Poll
           \/ ListenEvent \/ AcceptEnd \/ Dispatched \/ RunJob \/ NextRound \/ SigTerm \/ SigInt
           \/ Terminated \/ UNCHANGED vars
  <2>1. UNCHANGED <<table, state, gw, fd, in_epoll, back, fdvars, sockets_disabled>>
    BY <1>6 DEF Stop, SameSecond, NewSecond, AllChecked, CheckEnd, FdWaitPop, Poll, ListenEvent,
       AcceptEnd, Dispatched, RunJob, NextRound, SigTerm, SigInt, Terminated, vars, Quiet, Stays,
       listening
  <2>2. graceful_shutdown => graceful_shutdown'
    BY <1>6 DEF Stop, SameSecond, NewSecond, AllChecked, CheckEnd, FdWaitPop, Poll, ListenEvent,
       AcceptEnd, Dispatched, RunJob, NextRound, SigTerm, SigInt, Terminated, vars, sigvars
  <2> QED BY <2>1, <2>2, OwnSame
<1> QED BY <1>1, <1>2, <1>3, <1>4, <1>5, <1>6 DEF Next, MainLoop

(***************************************************************************)
(* What is kept twice about a connection is kept alike: it is in the table *)
(* exactly while its state is not CONNECT; every open descriptor has one   *)
(* owner, who knows its number and whose handler is registered; cur_fds    *)
(* counts them; and fde_ndx tells what the kernel waits for.  The          *)
(* invariant behind it holds while the machine runs too.                   *)
(***************************************************************************)
THEOREM ServerRecordsAgree == Spec => []RecordsAgree
<1> DEFINE All == TypeOK /\ TableOK /\ OwnInv
<1>1. Init => All BY TypesInit, OwnInit
<1>2. All /\ [Next]_vars => All' BY TypesStep, OwnStep
<1>3. All => RecordsAgree
  <2> SUFFICES ASSUME All PROVE RecordsAgree
    OBVIOUS
  <2>1. TableAgrees BY DEF TableAgrees, OwnInv, InUseStates
  <2>2. opened \ Listening = {fd[c] : c \in InUse} \cup Backends
    <3>1. ASSUME NEW f \in opened, f \notin Listening PROVE f \in {fd[c] : c \in InUse} \cup Backends
      <4>1. f # NoFd BY Numbers DEF TypeOK
      <4> QED BY <3>1, <4>1, ListeningIs DEF OwnInv, DescInv, AllOwned, Backends
    <3>2. ASSUME NEW c \in InUse PROVE fd[c] \in opened /\ fd[c] \notin Listening
      BY OwnersDiffer, ListeningIs DEF OwnInv, DescInv, ClientsOwn
    <3>3. ASSUME NEW f \in Backends PROVE f \in opened /\ f \notin Listening
      <4>1. PICK c \in Conns : f = back[c] /\ f # NoFd BY DEF Backends
      <4> QED BY <4>1, OwnersDiffer, ListeningIs DEF OwnInv, DescInv, BackendsOwn
    <3> QED BY <3>1, <3>2, <3>3
  <2>3. \A c \in InUse : c \in Conns /\ (in_epoll[c] <=> epoll[fd[c]] # "none")
    BY DEF OwnInv, DescInv, Told, InUse
  <2> QED BY <2>1, <2>2, <2>3 DEF RecordsAgree, DescriptorsAgree, OwnInv, DescInv, ClientsOwn,
          BackendsOwn, ClosedClean, Counted
<1> QED BY <1>1, <1>2, <1>3, PTL DEF Spec

-----------------------------------------------------------------------------
(***************************************************************************)
(* The events of a round.  Each is still its owner's until it is           *)
(* dispatched; that of the listen socket is there only while the sockets   *)
(* are enabled; and the connections accept() runs the machine for have     *)
(* none yet.                                                               *)
(***************************************************************************)
EventInv ==
    /\ \A e \in events : /\ fdarray[e.fd] = e.owner /\ e.owner # Nothing
                         /\ e.owner = Listener => ~sockets_disabled
    /\ phase \notin {"dispatch", "accept"} => events = {}
    /\ phase = "accept" => ~sockets_disabled
    /\ con # Nobody => /\ phase \in {"trigger", "fdwait", "accept", "jobs"}
                       /\ \A e \in events : e.fd # fd[con] /\ e.fd # back[con]

LEMMA EventInit == Init => EventInv
BY DEF Init, EventInv

\* an event's descriptor is open, and stays its owner's in a step for another
LEMMA EventsKept ==
    ASSUME TypeOK, OwnInv, EventInv, NEW c \in Conns, OnlyFor(c),
           NEW e \in events, e.fd # fd[c], e.fd # back[c]
    PROVE  e.fd \in opened /\ fdarray'[e.fd] = e.owner
<1>1. e.fd \in Fds /\ fdarray[e.fd] = e.owner /\ e.owner # Nothing BY DEF TypeOK, EventInv
<1>2. e.fd \in opened BY <1>1 DEF OwnInv, DescInv, ClosedClean
<1>3. fdarray[e.fd] # Client(c) /\ fdarray[e.fd] # Gateway(c)
  <2>1. opened \subseteq Fds /\ InUse \subseteq Conns BY DEF TypeOK, InUse
  <2>2. \/ fdarray[e.fd] = Listener
        \/ \E d \in InUse : e.fd = fd[d] /\ fdarray[e.fd] = Client(d)
        \/ \E d \in Conns : e.fd = back[d] /\ fdarray[e.fd] = Gateway(d)
    <3>1. e.fd # NoFd BY <1>1, Numbers
    <3> QED BY <1>2, <3>1 DEF OwnInv, DescInv, AllOwned, ClientsOwn, BackendsOwn
  <2> QED BY <2>1, <2>2, OwnersDiffer
<1> QED BY <1>1, <1>2, <1>3 DEF OnlyFor, Kept

LEMMA MachineEvents ==
    ASSUME TypeOK, TableOK, OwnInv, EventInv, StateMachine
    PROVE  EventInv'
<1>1. con \in Conns /\ con # Nobody BY MachineRuns, Numbers
<1>2. UNCHANGED <<events, phase, sockets_disabled>>
  BY DEF StateMachine, ConConnect, ConRead, ConHandleRequest, ConWrite, ConResponseEnd,
     ConError, ConClose, Exit, Finish, Outside, listening, loopvars
<1>3. con' = con \/ con' = Nobody
  BY DEF StateMachine, ConConnect, ConRead, ConHandleRequest, ConWrite, ConResponseEnd,
     ConError, ConClose, Exit, Finish, ConnectionClose, Goto, Answer, GatewayOpened,
     HostFailed, GatewayWaits
<1>4. \A e \in events : e.fd # fd[con] /\ e.fd # back[con] BY <1>1 DEF EventInv
<1>5. PICK c \in Conns : c = con BY <1>1
<1>6. OnlyFor(c) BY <1>5, MachineMoves DEF Moved
<1>7. \A e \in events : e.fd \in opened /\ fdarray'[e.fd] = e.owner
  BY <1>4, <1>5, <1>6, EventsKept
<1>8. fd' = fd
  BY DEF StateMachine, ConConnect, ConRead, ConHandleRequest, ConWrite, ConResponseEnd,
     ConError, ConClose, Exit, Finish
<1>9. back'[c] = back[c] \/ back'[c] = NoFd \/ back'[c] \notin opened
  <2>1. back' = back \/ back' = [back EXCEPT ![con] = NoFd]
        \/ (GatewayOpened /\ back' = [back EXCEPT ![con] = LowestFree])
    BY DEF StateMachine, ConConnect, ConRead, ConHandleRequest, ConWrite, ConResponseEnd,
       ConError, ConClose, Exit, Answer, GatewayOpened, HostFailed, GatewayWaits, Finish, Reset
  <2>2. GatewayOpened => LowestFree \notin opened
    BY LowestFreeType DEF GatewayOpened, Open, TypeOK
  <2> QED BY <1>5, <2>1, <2>2 DEF TypeOK
<1>10. \A e \in events : e.fd # back'[c]
  <2>1. \A e \in events : e.fd # NoFd BY Numbers DEF TypeOK
  <2> QED BY <1>4, <1>5, <1>7, <1>9, <2>1
<1>11. con' # Nobody => con' = c BY <1>3, <1>5
<1> QED BY <1>1, <1>2, <1>4, <1>5, <1>7, <1>8, <1>10, <1>11 DEF EventInv

\* an event is taken and its handler called
LEMMA DispatchEvents ==
    ASSUME TypeOK, EventInv, NEW c \in Conns, ClientEvent(c) \/ GatewayEvent(c)
    PROVE  EventInv'
<1>1. UNCHANGED <<sockets_disabled, phase, con>> /\ phase = "dispatch" /\ con = Nobody
  BY DEF ClientEvent, GatewayEvent, Dispatch, At, listening, machine, Deferred
<1>2. \A e \in events' : e \in events /\ fdarray'[e.fd] = fdarray[e.fd]
  <2>1. CASE ClientEvent(c)
    BY <2>1 DEF ClientEvent, Dispatch, fdvars
  <2>2. CASE GatewayEvent(c)
    <3>1. fdarray' = fdarray \/ fdarray' = Forget(fdarray, {back[c]}, Nothing)
      BY <2>2 DEF GatewayEvent, Keeps, HangUp, Close, fdvars
    <3>2. events' = {e \in events : e.fd # back[c]} BY <2>2 DEF GatewayEvent, Dispatch
    <3>3. \A e \in events : e.fd \in Fds BY DEF TypeOK
    <3> QED BY <3>1, <3>2, <3>3 DEF Forget, TypeOK
  <2> QED BY <2>1, <2>2
<1> QED BY <1>1, <1>2 DEF EventInv

\* epoll reports descriptors that are open, each with its owner
LEMMA PollEvents ==
    ASSUME TypeOK, OwnInv, EventInv, Poll
    PROVE  EventInv'
<1>1. con = Nobody /\ phase' = "dispatch" /\ UNCHANGED <<con, fdarray, sockets_disabled>>
  BY DEF Poll, At, Quiet, machine, fdvars, listening
<1>2. PICK ready \in SUBSET {f \in Fds : epoll[f] # "none"} :
         events' = {[fd |-> f, owner |-> fdarray[f]] : f \in ready}
  BY DEF Poll
<1>3. ASSUME NEW f \in ready
      PROVE  /\ fdarray[f] # Nothing
             /\ fdarray[f] = Listener => ~sockets_disabled
  <2>1. f \in opened /\ epoll[f] # "none" BY DEF OwnInv, DescInv, ClosedClean
  <2>2. \/ f = Listen /\ fdarray[f] = Listener
        \/ \E d \in InUse : fdarray[f] = Client(d)
        \/ \E d \in Conns : fdarray[f] = Gateway(d)
    <3>1. f # NoFd BY Numbers
    <3> QED BY <2>1, <3>1 DEF OwnInv, DescInv, AllOwned, ClientsOwn, BackendsOwn
  <2> QED BY <2>1, <2>2, OwnersDiffer DEF OwnInv, ListenInv
<1>4. \A e \in events' : \E f \in ready : e.fd = f /\ e.owner = fdarray[f]
  BY <1>2
<1> QED BY <1>1, <1>3, <1>4 DEF EventInv

\* accept() gets numbers that were free when epoll was asked
LEMMA AcceptEvents ==
    ASSUME TypeOK, TableOK, OwnInv, EventInv, Accept
    PROVE  EventInv'
<1>1. PICK c \in Conns : c = ptr[used] /\ Moved(c) /\ c \notin InUse BY AcceptMoves
<1>2. UNCHANGED <<events, phase, sockets_disabled, back>> /\ con' = c /\ phase = "accept"
      /\ fd' = [fd EXCEPT ![c] = LowestFree]
  BY <1>1 DEF Accept, Run, listening, At
<1>3. Open(Client(c), "none") /\ LowestFree \in Fds \ opened
  BY <1>1, LowestFreeType DEF Accept, Open, TypeOK
<1>4. \A e \in events : e.fd \in opened /\ fdarray[e.fd] = e.owner
  BY DEF TypeOK, EventInv, OwnInv, DescInv, ClosedClean
<1>5. \A e \in events : fdarray'[e.fd] = e.owner
  BY <1>3, <1>4 DEF Open, TypeOK
<1>6. back[c] = NoFd /\ \A e \in events : e.fd # NoFd
  <2>1. back[c] = NoFd BY <1>1, OfCon
  <2> QED BY <2>1, Numbers DEF TypeOK
<1>7. fd'[c] = LowestFree BY <1>2 DEF TypeOK
<1> QED BY <1>2, <1>3, <1>4, <1>5, <1>6, <1>7 DEF EventInv

LEMMA EventStep == TypeOK /\ TableOK /\ OwnInv /\ EventInv /\ [Next]_vars => EventInv'
<1> SUFFICES ASSUME TypeOK, TableOK, OwnInv, EventInv, [Next]_vars PROVE EventInv'
  OBVIOUS
<1>1. CASE StateMachine BY <1>1, MachineEvents
<1>2. CASE Poll BY <1>2, PollEvents
<1>3. CASE Accept BY <1>3, AcceptEvents
<1>4. ASSUME NEW c \in Conns, ClientEvent(c) \/ GatewayEvent(c) PROVE EventInv'
  BY <1>4, DispatchEvents
<1>5. CASE ListenEvent
  <2>1. PICK e \in events : e.fd = Listen BY <1>5 DEF ListenEvent
  <2>2. ~sockets_disabled BY <1>5, <2>1 DEF ListenEvent, EventInv
  <2> QED BY <1>5, <2>2 DEF ListenEvent, EventInv, At, Quiet, machine, fdvars, listening
<1>6. CASE \/ Stop \/ SameSecond \/ NewSecond \/ CheckTimeout \/ AllChecked \/ CheckSockets
           \/ CheckEnd \/ FdWaitPop
  <2>1. events = {} /\ events' = {}
        /\ phase' \in {"stopped", "sockets", "trigger", "end", "fdwait"}
    BY <1>6 DEF Stop, SameSecond, NewSecond, CheckTimeout, AllChecked, CheckSockets, CheckEnd,
       FdWaitPop, At, ToPhase, EventInv
  <2>2. con' # Nobody => phase' \in {"trigger", "fdwait"}
    BY <1>6 DEF Stop, SameSecond, NewSecond, CheckTimeout, AllChecked, CheckSockets, CheckEnd,
       FdWaitPop, At, ToPhase, Quiet, machine
  <2> QED BY <2>1, <2>2 DEF EventInv
<1>7. CASE AcceptEnd \/ Dispatched \/ RunJob \/ NextRound
  <2>1. UNCHANGED <<fdarray, sockets_disabled, events>>
    BY <1>7 DEF AcceptEnd, Dispatched, RunJob, NextRound, Quiet, fdvars, listening, ToPhase, loopvars
  <2>2. \/ phase' = "dispatch" /\ con' = Nobody
        \/ phase' = "jobs" /\ events = {}
        \/ phase' = "signals" /\ events = {} /\ con' = Nobody
    BY <1>7 DEF AcceptEnd, Dispatched, RunJob, NextRound, At, Quiet, machine, ToPhase, loopvars,
       EventInv
  <2> QED BY <2>1, <2>2 DEF EventInv
<1>8. CASE SigTerm \/ SigInt \/ Terminated \/ UNCHANGED vars
  <2>1. UNCHANGED <<events, fdarray, sockets_disabled, phase, con, fd, back>>
    BY <1>8 DEF SigTerm, SigInt, Terminated, vars, Quiet, Stays, fdvars, machine, listening, loopvars
  <2> QED BY <2>1 DEF EventInv
<1> QED BY <1>1, <1>2, <1>3, <1>4, <1>5, <1>6, <1>7, <1>8 DEF Next, MainLoop

\* the invariants together
Inv == TypeOK /\ TableOK /\ OwnInv /\ EventInv

LEMMA InvAlways == Spec => []Inv
<1>1. Init => Inv BY TypesInit, OwnInit, EventInit DEF Inv
<1>2. Inv /\ [Next]_vars => Inv' BY TypesStep, OwnStep, EventStep DEF Inv
<1> QED BY <1>1, <1>2, PTL DEF Spec

(***************************************************************************)
(* An event goes to the one it was polled for: no handler closes or hands  *)
(* out a descriptor whose event is still to be dispatched.                 *)
(***************************************************************************)
THEOREM ServerEventsFresh == Spec => []EventsFresh
<1>1. Inv => EventsFresh BY DEF Inv, EventInv, EventsFresh
<1> QED BY <1>1, InvAlways, PTL

(***************************************************************************)
(* While the sockets are disabled, and so after a graceful shutdown has    *)
(* closed the listen socket, no client is accepted.                        *)
(***************************************************************************)
THEOREM ServerAcceptsOnlyEnabled == Spec => AcceptsOnlyEnabled
<1> DEFINE Step == used' > used => ~sockets_disabled
<1>1. Inv /\ [Next]_vars => [Step]_vars
  <2> SUFFICES ASSUME Inv, Next, used' > used PROVE ~sockets_disabled
    OBVIOUS
  <2>1. used \in Nat BY TableAssumption DEF Inv, TypeOK, TableTypeOK
  <2>2. RunInv BY TypesRun DEF Inv
  <2>3. CASE Accept BY <2>3 DEF Accept, At, Inv, EventInv
  <2>4. CASE ~Accept
    <3>1. UNCHANGED used \/ used' = used - 1
      BY <2>4 DEF Next, MainLoop, StateMachine, ConConnect, ConRead, ConHandleRequest, ConWrite,
         ConResponseEnd, ConError, ConClose, Exit, Finish, ConnectionClose, ConnectionDel,
         Stop, SameSecond, NewSecond, CheckTimeout, AllChecked, CheckSockets, CheckEnd, FdWaitPop,
         Poll, ListenEvent, AcceptEnd, ClientEvent, GatewayEvent, Dispatch, Dispatched, RunJob,
         NextRound, SigTerm, SigInt, Terminated, vars, Quiet, Stays, table
    <3> QED BY <2>1, <3>1
  <2> QED BY <2>3, <2>4
<1> QED BY <1>1, InvAlways, PTL DEF Spec, AcceptsOnlyEnabled

-----------------------------------------------------------------------------
(***************************************************************************)
(* No connection is forgotten: in every state one that is in use is the    *)
(* machine's, waits in the joblist, or the kernel or the fdwaitqueue will  *)
(* bring it back.                                                          *)
(***************************************************************************)
InSeq(c, s) == \E k \in DOMAIN s : s[k] = c

LEMMA InAppend ==
    ASSUME NEW s \in Seq(Conns), NEW c \in Conns
    PROVE  InSeq(c, Append(s, c)) /\ \A d : InSeq(d, s) => InSeq(d, Append(s, c))
<1>1. Append(s, c)[Len(s) + 1] = c /\ Len(s) + 1 \in DOMAIN Append(s, c) OBVIOUS
<1>2. \A k \in DOMAIN s : k \in DOMAIN Append(s, c) /\ Append(s, c)[k] = s[k] OBVIOUS
<1> QED BY <1>1, <1>2 DEF InSeq

LEMMA InTail ==
    ASSUME NEW s \in Seq(Conns), s # <<>>, NEW c, InSeq(c, s)
    PROVE  c = Head(s) \/ InSeq(c, Tail(s))
<1>1. PICK k \in DOMAIN s : s[k] = c BY DEF InSeq
<1>2. k \in 1..Len(s) /\ Len(s) \in Nat OBVIOUS
<1>3. CASE k = 1 BY <1>1, <1>3
<1>4. CASE k # 1
  <2>1. k - 1 \in DOMAIN Tail(s) /\ Tail(s)[k - 1] = s[k] BY <1>2, <1>4
  <2> QED BY <1>1, <2>1 DEF InSeq
<1> QED BY <1>3, <1>4

LEMMA InJobs ==
    ASSUME joblist \in Seq(Conns), NEW c \in Conns, NEW n \in Nat, Jobs(c, n)
    PROVE  /\ \A d : InSeq(d, joblist) => InSeq(d, joblist')
           /\ n > 0 => InSeq(c, joblist')
<1> DEFINE more == [k \in 1..n |-> c]
<1>1. more \in Seq(Conns) /\ Len(more) = n /\ joblist' = joblist \o more BY DEF Jobs
<1> HIDE DEF more
<1>2. \A k \in DOMAIN joblist : k \in DOMAIN joblist' /\ joblist'[k] = joblist[k] BY <1>1
<1>3. n > 0 => Len(joblist) + 1 \in DOMAIN joblist' /\ joblist'[Len(joblist) + 1] = more[1]
  BY <1>1
<1>4. n > 0 => more[1] = c BY DEF more
<1> QED BY <1>2, <1>3, <1>4 DEF InSeq

Settled(c) ==
    /\ state[c] \in {"read", "handlereq", "write", "close"}
    /\ state[c] \in {"read", "close"} => epoll[fd[c]] = "IN"
    /\ state[c] = "write" => epoll[fd[c]] = "OUT" \/ gw[c] = "answering"
    /\ state[c] = "handlereq" => \/ gw[c] \in {"connecting", "waiting", "answering"}
                                 \/ gw[c] = "none" /\ InSeq(c, fdwaitqueue)

\* the states the machine stops in
MayStop(c) ==
    \/ state[c] \in {"connect", "read", "write", "close"}
    \/ /\ state[c] = "handlereq"
       /\ \/ gw[c] \in {"connecting", "waiting"}
          \/ gw[c] = "none" /\ InSeq(c, fdwaitqueue)

WatchInv ==
    /\ \A c \in InUse : c = con \/ InSeq(c, joblist) \/ Settled(c)
    /\ phase = "signals" => joblist = <<>>
    /\ done => \A c \in Conns : c = con => MayStop(c)

LEMMA WatchInit == Init => WatchInv
BY DEF Init, TableInit, InUse, WatchInv

\* what was settled before a step taken for c is settled after it
LEMMA OthersSettled ==
    ASSUME TypeOK, OwnInv, WatchInv, NEW c \in Conns, OnlyFor(c), con \in {c, Nobody},
           NEW d \in InUse', d # c,
           InSeq(d, joblist) => InSeq(d, joblist'), InSeq(d, fdwaitqueue) => InSeq(d, fdwaitqueue')
    PROVE  InSeq(d, joblist') \/ Settled(d)'
<1>1. d \in Conns /\ d # Nobody BY Numbers DEF InUse
<1>2. d \in InUse /\ state'[d] = state[d] /\ gw'[d] = gw[d] /\ fd'[d] = fd[d] BY <1>1 DEF OnlyFor
<1>3. epoll'[fd[d]] = epoll[fd[d]]
  BY <1>2, OwnersDiffer DEF OwnInv, DescInv, ClientsOwn, OnlyFor, Kept
<1>4. InSeq(d, joblist) \/ Settled(d) BY <1>1, <1>2 DEF WatchInv
<1> QED BY <1>2, <1>3, <1>4 DEF Settled

(***************************************************************************)
(* The machine stops in a state in which something else goes on.           *)
(***************************************************************************)
LEMMA MachineStops ==
    ASSUME TypeOK, OwnInv, WatchInv, StateMachine, NEW c \in Conns, c = con
    PROVE  done' => MayStop(c)'
<1>1. CASE ConConnect \/ ConRead \/ ConWrite \/ ConClose
  <2>1. done' => state'[c] \in {"connect", "read", "write", "close"}
    BY <1>1 DEF ConConnect, ConRead, ConWrite, ConClose, ConnectionClose, In, Goto, TypeOK
  <2> QED BY <2>1 DEF MayStop
<1>2. CASE ConResponseEnd \/ ConError
  <2>1. done' = FALSE
    BY <1>2 DEF ConResponseEnd, ConError, Finish, ConnectionClose, In, Goto
  <2> QED BY <2>1
<1>3. CASE ConHandleRequest
  <2>1. CASE Answer BY <1>3, <2>1 DEF Answer, ConHandleRequest, In, Goto, MayStop, TypeOK
  <2>2. CASE GatewayOpened
    BY <2>2 DEF GatewayOpened, Goto, MayStop, TypeOK
  <2>3. CASE HostFailed
    <3>1. gw'[c] = "none" /\ state'[c] = "handlereq" /\ fdwaitqueue' = Append(fdwaitqueue, c)
      BY <2>3 DEF HostFailed, Goto, TypeOK
    <3>2. InSeq(c, fdwaitqueue') BY <3>1, InAppend DEF TypeOK
    <3> QED BY <3>1, <3>2 DEF MayStop
  <2>4. CASE GatewayWaits
    BY <2>4 DEF GatewayWaits, Goto, MayStop, TypeOK
  <2> QED BY <1>3, <2>1, <2>2, <2>3, <2>4 DEF ConHandleRequest
<1>4. CASE Exit BY <1>4 DEF Exit
<1> QED BY <1>1, <1>2, <1>3, <1>4 DEF StateMachine

\* ... and leaves the descriptor waiting for the right event
LEMMA ExitSettles ==
    ASSUME TypeOK, OwnInv, WatchInv, Exit, NEW c \in InUse, c = con
    PROVE  Settled(c)'
<1>0. c \in Conns BY DEF InUse
<1>1. state[c] # "connect" /\ fd[c] \in Fds BY <1>0, OfCon DEF TypeOK
<1>2. MayStop(c) BY <1>0 DEF Exit, WatchInv
<1>3. UNCHANGED <<state, gw, fd, fdwaitqueue>> BY DEF Exit, queues
<1>4. CASE state[c] = "handlereq" BY <1>2, <1>3, <1>4 DEF MayStop, Settled
<1>5. CASE state[c] \in {"read", "close"}
  <2>1. EventSet(c, "IN") BY <1>5 DEF Exit
  <2>2. epoll'[fd[c]] = "IN" BY <1>1, <2>1 DEF EventSet, TypeOK
  <2> QED BY <1>3, <1>5, <2>2 DEF Settled
<1>6. CASE state[c] = "write"
  <2>1. EventSet(c, "OUT") \/ gw[c] = "answering" BY <1>6 DEF Exit
  <2>2. epoll'[fd[c]] = "OUT" \/ gw[c] = "answering" BY <1>1, <2>1 DEF EventSet, TypeOK
  <2> QED BY <1>3, <1>6, <2>2 DEF Settled
<1> QED BY <1>1, <1>2, <1>4, <1>5, <1>6 DEF MayStop

LEMMA MachineWatch ==
    ASSUME Inv, WatchInv, StateMachine
    PROVE  WatchInv'
<1>0. TypeOK /\ TableOK /\ OwnInv /\ EventInv BY DEF Inv
<1>1. PICK c \in Conns : c = con BY <1>0, MachineRuns
<1>2. OnlyFor(c) BY <1>0, <1>1, MachineMoves DEF Moved
<1>3. \A d : InSeq(d, joblist) => InSeq(d, joblist')
  <2>1. joblist' = joblist \/ Jobs(con, 1)
    BY DEF StateMachine, ConConnect, ConRead, ConHandleRequest, ConWrite, ConResponseEnd,
           ConError, ConClose, Exit, Finish, Answer, GatewayOpened, HostFailed,
           GatewayWaits, queues
  <2> QED BY <1>0, <1>1, <2>1, InJobs DEF TypeOK
<1>4. \A d : InSeq(d, fdwaitqueue) => InSeq(d, fdwaitqueue')
  <2>1. fdwaitqueue' = fdwaitqueue \/ fdwaitqueue' = Append(fdwaitqueue, con)
    BY DEF StateMachine, ConConnect, ConRead, ConHandleRequest, ConWrite, ConResponseEnd,
           ConError, ConClose, Exit, Finish, Answer, GatewayOpened, HostFailed,
           GatewayWaits, queues
  <2> QED BY <1>0, <1>1, <2>1, InAppend DEF TypeOK
<1>5. \A d \in InUse' : d # c => InSeq(d, joblist') \/ Settled(d)'
  BY <1>0, <1>1, <1>2, <1>3, <1>4, OthersSettled
<1>6. phase' = phase /\ phase # "signals"
  <2>1. phase' = phase
    BY DEF StateMachine, ConConnect, ConRead, ConHandleRequest, ConWrite, ConResponseEnd,
       ConError, ConClose, Exit, Finish, Outside, loopvars
  <2> QED BY <1>0, <1>1, <2>1, Numbers DEF EventInv
<1>7. CASE Exit
  <2>1. InUse' = InUse /\ done' = FALSE BY <1>7 DEF Exit, InUse, table
  <2>2. c \in InUse => Settled(c)' BY <1>0, <1>1, <1>7, ExitSettles
  <2> QED BY <1>5, <1>6, <2>1, <2>2 DEF WatchInv
<1>8. CASE ~Exit
  <2>1. con' = con
    BY <1>8 DEF StateMachine, ConConnect, ConRead, ConHandleRequest, ConWrite, ConResponseEnd,
       ConError, ConClose, Finish, ConnectionClose, Goto, Answer, GatewayOpened, HostFailed,
       GatewayWaits
  <2>2. done' => MayStop(c)' BY <1>0, <1>1, MachineStops
  <2> QED BY <1>1, <1>5, <1>6, <2>1, <2>2 DEF WatchInv
<1> QED BY <1>7, <1>8

\* a client's event ends in the joblist
LEMMA ClientWatch ==
    ASSUME Inv, WatchInv, NEW c \in Conns, ClientEvent(c)
    PROVE  WatchInv'
<1>0. TypeOK /\ TableOK /\ OwnInv BY DEF Inv
<1>1. OnlyFor(c) /\ c \in InUse BY <1>0, ClientMoves DEF Moved
<1>2. con = Nobody /\ con' = con /\ phase' = phase /\ phase # "signals" /\ done' = done
      /\ fdwaitqueue' = fdwaitqueue
  BY DEF ClientEvent, Dispatch, At, Deferred, machine
<1>3. \E n \in {1, 2} : Jobs(c, n) BY DEF ClientEvent, Deferred
<1>4. InSeq(c, joblist') /\ \A d : InSeq(d, joblist) => InSeq(d, joblist')
  BY <1>0, <1>3, InJobs DEF TypeOK
<1>5. \A d \in InUse' : d # c => InSeq(d, joblist') \/ Settled(d)'
  BY <1>0, <1>1, <1>2, <1>4, OthersSettled
<1> QED BY <1>2, <1>4, <1>5, Numbers DEF WatchInv

\* so does a backend's, or it leaves its connection where it is
LEMMA BackendWatch ==
    ASSUME Inv, WatchInv, NEW c \in Conns, GatewayEvent(c)
    PROVE  WatchInv'
<1>0. TypeOK /\ TableOK /\ OwnInv BY DEF Inv
<1>1. OnlyFor(c) /\ c \in InUse /\ back[c] \in opened /\ fdarray[back[c]] = Gateway(c)
  BY <1>0, BackendMoves DEF Moved
<1>2. con = Nobody /\ con' = con /\ phase' = phase /\ phase # "signals" /\ done' = done
      /\ fdwaitqueue' = fdwaitqueue /\ fd' = fd
  BY DEF GatewayEvent, Dispatch, At, machine
<1>3. \/ UNCHANGED joblist \/ \E n \in {0, 1, 2} : Jobs(c, n) BY DEF GatewayEvent
<1>4. \A d : InSeq(d, joblist) => InSeq(d, joblist') BY <1>0, <1>3, InJobs DEF TypeOK
<1>5. \A d \in InUse' : d # c => InSeq(d, joblist') \/ Settled(d)'
  BY <1>0, <1>1, <1>2, <1>4, OthersSettled
<1>6. InSeq(c, joblist') \/ Settled(c)'
  <2>1. CASE \E n \in {1, 2} : Jobs(c, n) BY <1>0, <2>1, InJobs DEF TypeOK
  <2>2. CASE ~ \E n \in {1, 2} : Jobs(c, n)
    <3>1. InSeq(c, joblist) \/ Settled(c) BY <1>1, <1>2, Numbers DEF WatchInv
    <3>2. fd[c] \in opened /\ fdarray[fd[c]] = Client(c) BY <1>0, <1>1, OfCon
    <3>3. fd[c] # back[c] BY <1>1, <3>2, OwnersDiffer
    <3>4. epoll' = epoll \/ epoll' = [epoll EXCEPT ![back[c]] = "IN"]
      BY <2>2 DEF GatewayEvent, Keeps, fdvars
    <3>5. epoll'[fd[c]] = epoll[fd[c]]
      <4>1. fd[c] \in Fds BY <1>0, <3>2 DEF TypeOK
      <4> QED BY <1>0, <3>3, <3>4, <4>1 DEF TypeOK
    <3>6. /\ state' = state
          /\ gw'[c] \in {"connecting", "waiting", "answering"}
          /\ gw[c] \in {"connecting", "waiting", "answering"}
          /\ gw[c] = "answering" => gw'[c] = "answering"
      BY <1>0, <2>2 DEF GatewayEvent, Keeps, TypeOK
    <3>7. Settled(c) => Settled(c)' BY <1>2, <3>5, <3>6 DEF Settled
    <3> QED BY <1>4, <3>1, <3>7
  <2> QED BY <2>1, <2>2
<1> QED BY <1>2, <1>5, <1>6, Numbers DEF WatchInv

\* the sockets are enabled and disabled
LEMMA SocketsWatch ==
    ASSUME Inv, WatchInv, CheckSockets
    PROVE  WatchInv'
<1>0. TypeOK /\ OwnInv BY DEF Inv
<1>1. UNCHANGED <<table, state, gw, fd, joblist, fdwaitqueue, con, done>> /\ phase' = "end"
      /\ con = Nobody /\ InUse' = InUse
  BY DEF CheckSockets, At, ToPhase, Stays, queues, machine, InUse, table
<1>2. \A c \in InUse : epoll'[fd[c]] = epoll[fd[c]]
  <2>1. epoll' = epoll \/ (fdarray[Listen] = Listener /\ \E e : epoll' = [epoll EXCEPT ![Listen] = e])
    BY <1>0 DEF CheckSockets, EnableSockets, DisableSockets, Relaxed, OwnInv, ListenInv
  <2>2. \A c \in InUse : fd[c] \in Fds /\ fdarray[fd[c]] = Client(c)
    BY <1>0 DEF OwnInv, DescInv, ClientsOwn, TypeOK
  <2>3. \A c \in InUse : fdarray[Listen] = Listener => fd[c] # Listen BY <2>2, OwnersDiffer
  <2> QED BY <1>0, <2>1, <2>2, <2>3 DEF TypeOK
<1>3. \A c \in InUse : Settled(c) => Settled(c)' BY <1>1, <1>2 DEF Settled
<1> QED BY <1>1, <1>3 DEF WatchInv, MayStop

\* what is taken out of a queue is what the machine runs for
LEMMA QueueWatch ==
    ASSUME Inv, WatchInv, RunJob \/ FdWaitPop
    PROVE  WatchInv'
<1>0. TypeOK BY DEF Inv
<1>1. UNCHANGED <<table, state, gw, fd, epoll, phase>> /\ done' = FALSE /\ con = Nobody
      /\ phase # "signals" /\ InUse' = InUse
  BY DEF RunJob, FdWaitPop, Run, At, Stays, fdvars, loopvars, InUse, table
<1>2. \/ /\ con' = Head(joblist) /\ joblist' = Tail(joblist) /\ joblist # <<>>
         /\ fdwaitqueue' = fdwaitqueue
      \/ /\ con' = Head(fdwaitqueue) /\ fdwaitqueue' = Tail(fdwaitqueue) /\ fdwaitqueue # <<>>
         /\ joblist' = joblist
  BY DEF RunJob, FdWaitPop, Run
<1>3. joblist \in Seq(Conns) /\ fdwaitqueue \in Seq(Conns) BY <1>0 DEF TypeOK
<1>4. \A c : /\ InSeq(c, joblist) => c = con' \/ InSeq(c, joblist')
             /\ InSeq(c, fdwaitqueue) => c = con' \/ InSeq(c, fdwaitqueue')
  BY <1>2, <1>3, InTail
<1>5. ASSUME NEW c \in InUse PROVE c = con' \/ InSeq(c, joblist') \/ Settled(c)'
  <2>1. InSeq(c, joblist) \/ Settled(c) BY <1>1, Numbers DEF WatchInv, InUse
  <2> QED BY <1>1, <1>4, <2>1 DEF Settled
<1> QED BY <1>1, <1>5 DEF WatchInv

LEMMA WatchStep == Inv /\ WatchInv /\ [Next]_vars => WatchInv'
<1> SUFFICES ASSUME Inv, WatchInv, [Next]_vars PROVE WatchInv'
  OBVIOUS
<1>0. TypeOK /\ TableOK /\ OwnInv /\ EventInv BY DEF Inv
<1>1. CASE StateMachine BY <1>1, MachineWatch
<1>2. CASE Accept
  <2>1. PICK c \in Conns : c = ptr[used] /\ OnlyFor(c) BY <1>0, <1>2, AcceptMoves DEF Moved
  <2>2. con = Nobody /\ con' = c /\ done' = FALSE /\ phase' = phase /\ phase # "signals"
        /\ UNCHANGED <<joblist, fdwaitqueue>>
    BY <1>2, <2>1 DEF Accept, At, Run, queues
  <2>3. \A d \in InUse' : d # c => InSeq(d, joblist') \/ Settled(d)'
    BY <1>0, <2>1, <2>2, OthersSettled
  <2> QED BY <2>2, <2>3 DEF WatchInv
<1>3. CASE CheckTimeout
  <2>1. UNCHANGED <<table, gw, fd, fdvars, joblist, fdwaitqueue, phase>> /\ con = Nobody
        /\ phase # "signals" /\ InUse' = InUse
    BY <1>3 DEF CheckTimeout, At, Stays, queues, InUse, table
  <2>2. CASE TimedOut(ptr[i])
    <3>1. PICK c \in Conns : c = ptr[i] /\ OnlyFor(c)
      <4>1. ptr[i] \in Conns BY <1>0, <1>3, InUsePlace DEF CheckTimeout, InUse
      <4> QED BY <1>0, <1>3, <4>1, TimeoutMoves DEF Moved
    <3>2. con' = c /\ done' = FALSE BY <1>3, <2>2, <3>1 DEF CheckTimeout, Run
    <3>3. \A d \in InUse' : d # c => InSeq(d, joblist') \/ Settled(d)'
      BY <1>0, <2>1, <3>1, OthersSettled
    <3> QED BY <2>1, <3>2, <3>3 DEF WatchInv
  <2>3. CASE ~TimedOut(ptr[i])
    <3>1. UNCHANGED <<state, machine>> BY <1>3, <2>3 DEF CheckTimeout
    <3> QED BY <2>1, <3>1 DEF WatchInv, Settled, MayStop, fdvars, machine
  <2> QED BY <2>2, <2>3
<1>4. ASSUME NEW c \in Conns, ClientEvent(c) \/ GatewayEvent(c) PROVE WatchInv'
  BY <1>4, ClientWatch, BackendWatch
<1>5. CASE CheckSockets BY <1>5, SocketsWatch
<1>6. CASE RunJob \/ FdWaitPop BY <1>6, QueueWatch
<1>7. CASE \/ Stop \/ SameSecond \/ NewSecond \/ AllChecked \/ CheckEnd \/ Poll \/ ListenEvent
           \/ AcceptEnd \/ Dispatched \/ NextRound \/ SigTerm \/ SigInt \/ Terminated
           \/ UNCHANGED vars
  <2>1. UNCHANGED <<table, state, gw, fd, epoll, joblist, fdwaitqueue, con, done>>
        /\ InUse' = InUse
    BY <1>7 DEF Stop, SameSecond, NewSecond, AllChecked, CheckEnd, Poll, ListenEvent, AcceptEnd,
       Dispatched, NextRound, SigTerm, SigInt, Terminated, vars, Quiet, Stays, fdvars, queues,
       machine, InUse, table
  <2>2. phase' = "signals" => phase = "signals" \/ joblist = <<>>
    BY <1>7 DEF Stop, SameSecond, NewSecond, AllChecked, CheckEnd, Poll, ListenEvent, AcceptEnd,
       Dispatched, NextRound, SigTerm, SigInt, Terminated, vars, ToPhase, loopvars
  <2> QED BY <2>1, <2>2 DEF WatchInv, Settled, MayStop
<1> QED BY <1>1, <1>2, <1>3, <1>4, <1>5, <1>6, <1>7 DEF Next, MainLoop

(***************************************************************************)
(* When a round is over, the kernel waits for the client or the backend of *)
(* every connection in use, or the fdwaitqueue has it: no connection and   *)
(* no request can be left with nothing that will wake it.                  *)
(***************************************************************************)
THEOREM ServerWatched == Spec => []Watched
<1>1. Inv /\ WatchInv => Watched
  <2> SUFFICES ASSUME Inv, WatchInv, At("signals"), NEW c \in InUse
               PROVE  /\ Settled(c) /\ Request(c)
    BY DEF Watched, Settled, Request, InSeq
  <2>1. c \in Conns /\ c # con BY Numbers DEF At, InUse
  <2>2. ~InSeq(c, joblist) BY DEF At, WatchInv, InSeq
  <2> QED BY <2>1, <2>2 DEF Inv, OwnInv, Requests, WatchInv
<1> QED BY <1>1, WatchInit, WatchStep, InvAlways, PTL DEF Spec
=============================================================================
