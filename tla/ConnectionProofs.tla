-------------------------- MODULE ConnectionProofs --------------------------
(***************************************************************************)
(* Theorems about Connection, for every value of its constants: its types, *)
(* the counters, the log and the life cycle, and that no connection is     *)
(* forgotten or handed to the next client with something left in it.       *)
(* About Chunks, its write queue: that the client gets what was appended.  *)
(* And about Response: that it can tell where its answer ends.             *)
(***************************************************************************)
EXTENDS Connection, SequenceTheorems, StepLemmas

CONSTANTS Backends, FileSize, Page, Window, MaxIov, MaxUnits, MaxQueued       \* of the write queue
VARIABLES backend, queue, appended, sent, bytes_out, size, known, ret, stalled, altered
K == INSTANCE Chunks WITH MaxChunks <- MaxQueued

CONSTANTS Requests, Hooks, error_handler, error_file, MaxContent, MaxLoops      \* of an answer
VARIABLES step, req, con, output, unsent, head, loops, aborted
A == INSTANCE Response WITH pc <- step, write_queue <- output

(***************************************************************************)
(* A connect() in progress goes to a host that is not disabled, so the     *)
(* host that is disabled when it fails was counted.                        *)
(***************************************************************************)
HostInv == gateway = "connecting" => hosts > 0

TypeInv == TypeOK /\ HostInv

\* What is left of a queue, and what is taken from it, are queues.
LEMMA FromType ==
    ASSUME NEW q \in Seq(Units), NEW n \in 0..Len(q)
    PROVE  From(q, n) \in Seq(Units) /\ SubSeq(q, 1, n) \in Seq(Units)
<1>1. \A i \in (n+1)..Len(q) : q[i] \in Units
  OBVIOUS
<1>2. \A i \in 1..n : q[i] \in Units
  OBVIOUS
<1> QED BY <1>1, <1>2, SubSeqProperties DEF From

\* Reading keeps the types of what it changes.
LEMMA ReadType ==
    ASSUME TypeOK, NEW readable \in BOOLEAN, HandleReadState(readable)
    PROVE  /\ read_queue' \in Seq(Units) /\ rx' \in Seq(Units) /\ missing' \in Nat
           /\ state' \in States /\ http_status' \in Statuses
           /\ keep_alive' \in BOOLEAN /\ is_readable' \in BOOLEAN /\ read_idle' \in Nat
<1> USE DEF TypeOK, States, Statuses
<1>1. ASSUME NEW q \in Seq(Units), NEW closed \in BOOLEAN, ScanHeader(q, closed)
      PROVE  /\ read_queue' \in Seq(Units) /\ state' \in States
             /\ http_status' \in Statuses /\ keep_alive' \in BOOLEAN
  <2>1. read_queue' \in Seq(Units)
    <3>1. CASE \E n \in 1..Len(q) : read_queue' = From(q, n)
      <4>1. PICK n \in 1..Len(q) : read_queue' = From(q, n) BY <3>1
      <4>2. n \in 0..Len(q) OBVIOUS
      <4> QED BY <4>1, <4>2, FromType
    <3>2. CASE read_queue' = q BY <3>2
    <3> QED BY <1>1, <3>1, <3>2 DEF ScanHeader
  <2>2. state' \in {"reqend", "handlereq", "error", "read"}
    BY <1>1 DEF ScanHeader
  <2>3. \/ http_status' = http_status /\ keep_alive' = keep_alive
        \/ http_status' = 500 /\ keep_alive' = FALSE
    BY <1>1 DEF ScanHeader
  <2>4. http_status' \in Statuses BY <2>3
  <2>5. keep_alive' \in BOOLEAN BY <2>3
  <2>6. state' \in States BY <2>2
  <2> QED BY <2>1, <2>4, <2>5, <2>6
<1>2. ASSUME NEW q \in Seq(Units), NEW closed \in BOOLEAN, StoreContent(q, closed)
      PROVE  /\ read_queue' \in Seq(Units) /\ state' \in States /\ missing' \in Nat
             /\ http_status' \in Statuses /\ keep_alive' \in BOOLEAN
  <2> DEFINE n == IF Len(q) < missing THEN Len(q) ELSE missing
  <2>1. n \in 0..Len(q) /\ n \in Nat /\ \A k \in 0..n : k \in 0..Len(q) /\ missing - k \in Nat
    OBVIOUS
  <2>2. \E k \in 0..n : read_queue' = From(q, k) /\ missing' = missing - k
    BY <1>2, <2>1 DEF StoreContent
  <2>3. read_queue' \in Seq(Units) /\ missing' \in Nat
    BY <2>1, <2>2, FromType
  <2>4. state' \in {"handlereq", "error", "readpost"}
    BY <1>2 DEF StoreContent
  <2>5. \/ http_status' = http_status /\ keep_alive' = keep_alive
        \/ http_status' = 500 /\ keep_alive' = FALSE
    BY <1>2 DEF StoreContent
  <2>6. http_status' \in Statuses BY <2>5
  <2>7. keep_alive' \in BOOLEAN BY <2>5
  <2>8. state' \in States BY <2>4
  <2> QED BY <2>3, <2>6, <2>7, <2>8
<1>3. CASE /\ readable /\ rx = <<>> /\ peer = "rst"
           /\ state' = "error" /\ is_readable' = FALSE /\ read_idle' = 0
           /\ UNCHANGED <<read_queue, missing, http_status, keep_alive, rx>>
  BY <1>3
<1>4. ASSUME NEW n \in 0..Len(rx), NEW q, NEW closed \in BOOLEAN,
             q = read_queue \o SubSeq(rx, 1, n),
             rx' = From(rx, n), read_idle' = IF readable THEN 0 ELSE read_idle,
             is_readable' \in IF n > 0 THEN BOOLEAN ELSE {FALSE},
             \/ ScanHeader(q, closed) /\ UNCHANGED missing
             \/ StoreContent(q, closed)
      PROVE  /\ read_queue' \in Seq(Units) /\ rx' \in Seq(Units) /\ missing' \in Nat
             /\ state' \in States /\ http_status' \in Statuses
             /\ keep_alive' \in BOOLEAN /\ is_readable' \in BOOLEAN /\ read_idle' \in Nat
  <2>1. rx' \in Seq(Units) /\ q \in Seq(Units)
    BY <1>4, FromType, ConcatProperties
  <2>2. is_readable' \in BOOLEAN /\ read_idle' \in Nat BY <1>4
  <2>3. CASE ScanHeader(q, closed) /\ UNCHANGED missing BY <1>1, <2>1, <2>2, <2>3
  <2>4. CASE StoreContent(q, closed) BY <1>2, <2>1, <2>2, <2>4
  <2> QED BY <1>4, <2>3, <2>4
<1> QED BY ZenonT(60), <1>3, <1>4 DEF HandleReadState

(***************************************************************************)
(* TypeOK in two parts, for the provers: flags and everything else.        *)
(***************************************************************************)
FlagsOK ==
    /\ keep_alive \in BOOLEAN /\ in_error_handler \in BOOLEAN
    /\ file_started \in BOOLEAN /\ file_finished \in BOOLEAN
    /\ is_readable \in BOOLEAN /\ is_writable \in BOOLEAN
    /\ traffic_limit_reached \in BOOLEAN /\ room \in BOOLEAN

DataOK ==
    /\ state \in States /\ entry \in States /\ pc \in {"idle", "machine"}
    /\ http_status \in Statuses /\ mode \in {"DIRECT", "gateway"}
    /\ write_queue \in Nat /\ missing \in Nat
    /\ read_idle \in Nat /\ write_idle \in Nat \cup {Unset} /\ close_idle \in Nat
    /\ interest \in {"none", "IN", "OUT"}
    /\ joblist \in Nat /\ fdwaitqueue \in Nat
    /\ gateway \in {"none", "connecting", "running", "broken"} /\ hosts \in 0..Hosts
    /\ phase \in {"trigger", "fdwait", "dispatch", "jobs"}
    /\ ready \subseteq {"listen", "client", "gateway"}
    /\ peer \in {"none", "open", "eof", "rst", "gone"}
    /\ request_count \in Nat /\ logged \in Nat /\ con_open \in Int

QueuesOK == read_queue \in Seq(Units) /\ rx \in Seq(Units)

\* The parts make the type.
LEMMA TypePartsNext == FlagsOK' /\ DataOK' /\ QueuesOK' => TypeOK'
BY DEF TypeOK, FlagsOK, DataOK, QueuesOK

\* network_write_chunkqueue() puts the connection into the joblist, or leaves the
\* joblist as it is.
LEMMA WriteGrows ==
    ASSUME NEW jobs \in Nat, HandleWrite(jobs)
    PROVE  joblist' \in Nat /\ joblist' >= jobs
<1>1. CASE joblist' = jobs + 1 BY <1>1
<1>2. CASE \E limit, complete \in BOOLEAN :
             joblist' = jobs + (IF limit THEN 1 ELSE 0) + (IF complete THEN 1 ELSE 0)
  <2>1. PICK limit \in BOOLEAN, complete \in BOOLEAN :
             joblist' = jobs + (IF limit THEN 1 ELSE 0) + (IF complete THEN 1 ELSE 0)
    BY <1>2
  <2>2. CASE limit /\ complete BY <2>1, <2>2
  <2>3. CASE limit /\ ~complete BY <2>1, <2>3
  <2>4. CASE ~limit /\ complete BY <2>1, <2>4
  <2>5. CASE ~limit /\ ~complete BY <2>1, <2>5
  <2> QED BY <2>1, <2>2, <2>3, <2>4, <2>5
<1>3. TRUE \in BOOLEAN /\ \A n : (n = 0 /\ file_finished) \in BOOLEAN OBVIOUS
<1> QED BY <1>1, <1>2, <1>3, Zenon DEF HandleWrite, GlobalLimit

\* Writing keeps the types of what it changes.
LEMMA WriteType ==
    ASSUME TypeOK, state = "write", NEW jobs \in Nat, HandleWrite(jobs)
    PROVE  /\ state' \in {"write", "respend", "error"}
           /\ write_queue' \in Nat /\ joblist' \in Nat
           /\ room' \in BOOLEAN /\ is_writable' \in BOOLEAN
           /\ traffic_limit_reached' \in BOOLEAN
<1>1. write_queue \in Nat /\ room \in BOOLEAN /\ traffic_limit_reached \in BOOLEAN
  BY DEF TypeOK
<1>2. state' \in {"write", "respend", "error"} BY DEF HandleWrite, GlobalLimit
<1>3. write_queue' \in Nat
  <2>1. write_queue' = write_queue \/ write_queue' \in 0..write_queue BY Zenon DEF HandleWrite, GlobalLimit
  <2> QED BY <1>1, <2>1
<1>5. joblist' \in Nat BY WriteGrows
<1>6. room' \in BOOLEAN BY <1>1 DEF HandleWrite, GlobalLimit
<1>7. is_writable' \in BOOLEAN BY DEF HandleWrite, GlobalLimit
<1>8. traffic_limit_reached' \in BOOLEAN BY <1>1 DEF HandleWrite, GlobalLimit
<1> QED BY <1>2, <1>3, <1>5, <1>6, <1>7, <1>8

\* Every iteration of the state machine keeps all but the flags and the queues.
LEMMA DataStateMachine == TypeInv /\ StateMachine => DataOK' /\ HostInv'
<1> SUFFICES ASSUME TypeInv, StateMachine PROVE DataOK' /\ HostInv'
  OBVIOUS
<1> {MaxKeepAliveRequests, MaxBody, MaxChunks, Hosts, Linger} \subseteq Nat
  BY ConnectionAssumption
<1> USE DEF TypeInv, TypeOK, DataOK, HostInv, reqvars, iovars, idlevars, loopvars, sockvars,
            acctvars, In, Loop, WantedInterest, States, Statuses, Unset
<1>1. CASE ConRequestStart BY <1>1 DEF ConRequestStart
<1>2. CASE ConRequestEnd
  <2>1. CASE http_status' = 500 /\ keep_alive' = FALSE /\ state' = "handlereq" /\ UNCHANGED missing
    BY <1>2, <2>1 DEF ConRequestEnd
  <2>2. CASE http_status' = 500 /\ UNCHANGED <<keep_alive, missing>> /\ state' = "handlereq"
    BY <1>2, <2>2 DEF ConRequestEnd
  <2>3. CASE keep_alive' \in BOOLEAN /\ missing' \in 1..MaxBody /\ state' = "readpost" /\ UNCHANGED http_status
    BY <1>2, <2>3 DEF ConRequestEnd
  <2>4. CASE keep_alive' \in BOOLEAN /\ state' = "handlereq" /\ UNCHANGED <<http_status, missing>>
    BY <1>2, <2>4 DEF ConRequestEnd
  <2> QED BY <1>2, <2>1, <2>2, <2>3, <2>4 DEF ConRequestEnd
<1>3. CASE ConHandleRequest
  <2>1. CASE AlreadyDecided BY <1>3, <2>1 DEF ConHandleRequest, AlreadyDecided, Finished
  <2>2. CASE Answered BY <1>3, <2>2 DEF ConHandleRequest, Answered, Finished
  <2>3. CASE ToGateway
    <3>1. CASE hosts > 0 /\ HostFailed
      BY <1>3, <2>3, <3>1 DEF ConHandleRequest, ToGateway, HostFailed, Wait
    <3>2. CASE /\ hosts > 0 /\ mode' = "gateway" /\ gateway' \in {"connecting", "running"}
               /\ Wait /\ UNCHANGED <<hosts, joblist, fdwaitqueue>>
      BY <1>3, <2>3, <3>2 DEF ConHandleRequest, ToGateway, Wait
    <3>3. CASE /\ hosts = 0 /\ mode' = mode /\ Finished(500)
               /\ UNCHANGED <<gateway, hosts, joblist, fdwaitqueue>>
      BY <1>3, <2>3, <3>3 DEF ConHandleRequest, ToGateway, Finished
    <3> QED BY <2>3, <3>1, <3>2, <3>3 DEF ToGateway
  <2>4. CASE InGateway
    <3>1. CASE gateway = "connecting" /\ HostFailed
      BY <1>3, <2>4, <3>1 DEF ConHandleRequest, InGateway, HostFailed, Wait
    <3>2. CASE /\ mode' = mode /\ Finished(http_status)
               /\ UNCHANGED <<gateway, hosts, joblist, fdwaitqueue>>
      BY <1>3, <2>4, <3>2 DEF ConHandleRequest, InGateway, Finished
    <3>3. CASE /\ gateway # "none" /\ mode' = mode
               /\ gateway' \in IF gateway = "connecting" THEN {"connecting", "running"}
                                                         ELSE {gateway}
               /\ Wait /\ UNCHANGED <<hosts, joblist, fdwaitqueue>>
      BY <1>3, <2>4, <3>3 DEF ConHandleRequest, InGateway, Wait
    <3> QED BY <2>4, <3>1, <3>2, <3>3 DEF InGateway
  <2>5. CASE HandlerError BY <1>3, <2>5 DEF ConHandleRequest, HandlerError
  <2> QED BY <1>3, <2>1, <2>2, <2>3, <2>4, <2>5 DEF ConHandleRequest
<1>4. CASE ConResponseStart
  <2>1. write_queue' \in {1, write_queue + 1, write_queue + 2} BY <1>4, Zenon DEF ConResponseStart
  <2>2. /\ state' = "write" /\ Loop(FALSE)
        /\ UNCHANGED <<http_status, mode, request_count, missing, idlevars, joblist, fdwaitqueue,
                       gateway, hosts, loopvars, sockvars, acctvars>>
    BY <1>4 DEF ConResponseStart
  <2> QED BY <2>1, <2>2
<1>5. CASE ConResponseEnd BY <1>5 DEF ConResponseEnd, ConnectionReset, ShutdownOrClose
<1>6. CASE ConConnect BY <1>6 DEF ConConnect
<1>7. CASE ConClose BY <1>7 DEF ConClose, Drain
<1>8. CASE ConRead BY <1>8, ReadType DEF ConRead
<1>9. CASE ConWrite
  <2>1. CASE HandleWrite(joblist)
    <3>1. /\ state' \in {"write", "respend", "error"}
          /\ write_queue' \in Nat /\ joblist' \in Nat
      BY <1>9, <2>1, WriteType DEF ConWrite
    <3> QED BY <1>9, <3>1 DEF ConWrite, StampWrite
  <2>2. CASE ~HandleWrite(joblist) BY <1>9, <2>2 DEF ConWrite
  <2> QED BY <2>1, <2>2
<1>10. CASE ConError
  BY <1>10 DEF ConError, LogAnswered, ConnectionReset, ShutdownOrClose
<1> QED BY <1>1, <1>2, <1>3, <1>4, <1>5, <1>6, <1>7, <1>8, <1>9, <1>10 DEF StateMachine

\* An age stays a number.
LEMMA OlderType ==
    ASSUME NEW age \in Nat, NEW limit \in Nat, NEW seconds \in Nat
    PROVE  Older(age, limit, seconds) \in Nat
BY DEF Older

\* So does every step of the main loop with the handlers it dispatches.
LEMMA DataMainLoop == TypeInv /\ MainLoop => DataOK' /\ HostInv'
<1> SUFFICES ASSUME TypeInv, MainLoop PROVE DataOK' /\ HostInv'
  OBVIOUS
<1> {MaxReadIdle, MaxKeepAliveIdle, MaxWriteIdle, Linger, Hosts, MaxJump} \subseteq Nat
  BY ConnectionAssumption
<1> USE DEF TypeInv, TypeOK, DataOK, HostInv, reqvars, iovars, idlevars, loopvars,
            sockvars, acctvars, Rest, GatewayVars, GwEvent, Enter, States, Statuses, Unset
<1>1. CASE SameSecond BY <1>1 DEF SameSecond
<1>2. CASE NewSecond
  <2>1. PICK seconds \in 1..MaxJump :
           /\ read_idle' = Older(read_idle, IF MaxReadIdle > MaxKeepAliveIdle
                                            THEN MaxReadIdle ELSE MaxKeepAliveIdle, seconds)
           /\ write_idle' = IF write_idle = Unset THEN Unset
                            ELSE Older(write_idle, MaxWriteIdle, seconds)
           /\ close_idle' = Older(close_idle, Linger, seconds)
    BY <1>2 DEF NewSecond
  <2>2. seconds \in Nat OBVIOUS
  <2>3. read_idle' \in Nat /\ close_idle' \in Nat BY <2>1, <2>2, OlderType
  <2>4. write_idle' \in Nat \cup {Unset} BY <2>1, <2>2, OlderType
  <2>5. state' \in {state, "error"} /\ entry' \in {entry, state'} /\ pc' \in {pc, "machine"}
    <3>1. CASE state = "connect" BY <1>2, <3>1 DEF NewSecond
    <3>2. CASE state # "connect" BY <1>2, <3>2, Zenon DEF NewSecond
    <3> QED BY <3>1, <3>2
  <2>6. state' \in States /\ entry' \in States /\ pc' \in {"idle", "machine"}
    BY <2>5
  <2>7. hosts' \in 0..Hosts /\ hosts' >= hosts BY <1>2 DEF NewSecond
  <2>8. /\ UNCHANGED <<http_status, mode, write_queue, missing, interest, gateway, peer>>
        /\ UNCHANGED <<request_count, logged, con_open, joblist, fdwaitqueue, ready>>
        /\ phase' = "fdwait"
    BY <1>2 DEF NewSecond
  <2>9. DataOK' BY <2>3, <2>4, <2>6, <2>7, <2>8
  <2>10. HostInv' BY <2>7, <2>8
  <2> QED BY <2>9, <2>10
<1>3. CASE FdWaitPop BY <1>3 DEF FdWaitPop
<1>4. CASE Poll BY <1>4 DEF Poll
<1>5. CASE Dispatched BY <1>5 DEF Dispatched
<1>6. CASE RunJob BY <1>6 DEF RunJob
<1>7. CASE NextRound BY <1>7 DEF NextRound
<1>8. CASE Accept BY <1>8 DEF Accept, ConnectionReset
<1>9. CASE HandleFdevent
  <2>0. /\ UNCHANGED <<mode, request_count, interest, fdwaitqueue, gateway, hosts, phase,
                       pc, entry, peer, logged, con_open>>
        /\ ready' = ready \ {"client"}
    BY <1>9 DEF HandleFdevent
  <2>1. CASE state \in {"read", "readpost"} /\ \E readable \in BOOLEAN : HandleReadState(readable)
    <3>1. state' \in States /\ http_status' \in Statuses /\ missing' \in Nat /\ read_idle' \in Nat
      BY <2>1, ReadType
    <3>2. UNCHANGED <<write_queue, write_idle, close_idle>> /\ joblist' = joblist + 1
      BY <1>9, <2>1 DEF HandleFdevent
    <3> QED BY <2>0, <3>1, <3>2
  <2>2. CASE state = "write" /\ HandleWrite(joblist + 1)
    <3>1. joblist + 1 \in Nat OBVIOUS
    <3>2. /\ state' \in {"write", "respend", "error"}
          /\ write_queue' \in Nat /\ joblist' \in Nat
      BY <2>2, <3>1, WriteType
    <3>3. UNCHANGED <<missing, http_status, read_idle, close_idle>>
      BY <1>9, <2>2 DEF HandleFdevent
    <3>4. write_idle' \in {0, write_idle} BY <1>9, <2>2 DEF HandleFdevent, StampWrite
    <3> QED BY <2>0, <3>2, <3>3, <3>4
  <2>3. CASE /\ state' \in {"error", state} /\ joblist' = joblist + 1
             /\ UNCHANGED <<write_queue, missing, http_status, idlevars>>
    BY <2>0, <2>3
  <2>4. CASE /\ state = "close" /\ joblist' = joblist + 1
             /\ Drain(IF HangUp THEN Linger + 1 ELSE close_idle)
             /\ UNCHANGED <<state, write_queue, missing, http_status, read_idle, write_idle>>
    BY <2>0, <2>4 DEF Drain
  <2>5. (is_readable \/ Event("IN")) \in BOOLEAN OBVIOUS
  <2> QED BY <1>9, <2>1, <2>2, <2>3, <2>4, <2>5, Zenon DEF HandleFdevent
<1>10. CASE Gateway
  <2>1. CASE GwWrite BY <1>10, <2>1 DEF GwWrite
  <2>2. CASE GwRead
    <3>1. ASSUME NEW n \in {0, 1}, Deliver(n)
          PROVE  /\ write_queue' \in Nat /\ joblist' \in Nat
                 /\ gateway' \in {gateway, "none"}
      BY <3>1 DEF Deliver
    <3>2. /\ write_queue' \in Nat /\ joblist' \in Nat
          /\ gateway' \in {gateway, "none"}
      BY <2>2, <3>1 DEF GwRead
    <3>3. /\ ready' \subseteq ready /\ http_status' \in Statuses
          /\ UNCHANGED <<state, mode, hosts, missing, interest, fdwaitqueue, phase, pc, entry>>
          /\ UNCHANGED <<read_idle, write_idle, close_idle, peer, request_count, logged, con_open>>
      BY <2>2 DEF GwRead
    <3>4. DataOK' BY <3>2, <3>3
    <3> QED BY <3>2, <3>3, <3>4
  <2>3. CASE GwDone BY <1>10, <2>3 DEF GwDone
  <2>4. CASE GwFailed BY <1>10, <2>4 DEF GwFailed, KillOrAnswer, AnswerWith500
  <2> QED BY <1>10, <2>1, <2>2, <2>3, <2>4 DEF Gateway
<1> QED BY <1>1, <1>2, <1>3, <1>4, <1>5, <1>6, <1>7, <1>8, <1>9, <1>10 DEF MainLoop

\* The client changes its socket only.
LEMMA TypeClient == TypeInv /\ Client => TypeInv'
<1> SUFFICES ASSUME TypeInv, Client PROVE TypeInv'
  OBVIOUS
<1>1. /\ UNCHANGED ClientVars
      /\ peer' \in {"none", "open", "eof", "rst", "gone"} /\ room' \in BOOLEAN
      /\ rx' \in {rx, <<>>} \/ \E unit \in Units : rx' = Append(rx, unit)
  BY DEF TypeInv, TypeOK, Client, ClientConnect, ClientReceive, ClientFinish, ClientReset,
         ClientVanish, ClientSend
<1>2. rx' \in Seq(Units)
  <2>1. rx \in Seq(Units) /\ <<>> \in Seq(Units) BY DEF TypeInv, TypeOK
  <2>2. CASE \E unit \in Units : rx' = Append(rx, unit) BY <2>1, <2>2
  <2>3. CASE rx' \in {rx, <<>>} BY <2>1, <2>3
  <2> QED BY <1>1, <2>2, <2>3
<1>3. UNCHANGED <<state, keep_alive, http_status, mode, in_error_handler, file_started,
                  file_finished, request_count, is_readable, is_writable,
                  traffic_limit_reached, read_queue, write_queue, missing>>
  BY <1>1 DEF ClientVars, reqvars, iovars
<1>4. UNCHANGED <<read_idle, write_idle, close_idle, interest, joblist, fdwaitqueue,
                  gateway, hosts, phase, ready, pc, entry, logged, con_open>>
  BY <1>1 DEF ClientVars, idlevars, loopvars, acctvars
<1>5. FlagsOK' BY <1>1, <1>3, Zenon DEF TypeInv, TypeOK, FlagsOK
<1>6. DataOK' BY <1>1, <1>3, <1>4 DEF TypeInv, TypeOK, DataOK
<1>7. QueuesOK' BY <1>2, <1>3 DEF TypeInv, TypeOK, QueuesOK
<1>8. HostInv' BY <1>4 DEF TypeInv, HostInv
<1> QED BY <1>5, <1>6, <1>7, <1>8, TypePartsNext DEF TypeInv

\* The flags are assigned from flags and conditions only.
LEMMA FlagsServer == TypeInv /\ Server => FlagsOK'
<1> SUFFICES ASSUME TypeInv, Server PROVE FlagsOK'
  OBVIOUS
<1> USE DEF TypeInv, TypeOK, FlagsOK, reqvars, iovars, sockvars, In, Loop
<1>1. CASE ConRequestStart BY <1>1 DEF ConRequestStart
<1>2. CASE ConRequestEnd BY <1>2 DEF ConRequestEnd
<1>3. CASE ConHandleRequest
  <2>1. UNCHANGED <<keep_alive, file_started, is_readable, is_writable,
                    traffic_limit_reached, room>>
    BY <1>3 DEF ConHandleRequest
  <2>2. in_error_handler' \in {in_error_handler, TRUE}
    BY <1>3, Zenon DEF ConHandleRequest, AlreadyDecided, Answered, ToGateway, InGateway,
                HandlerError, HostFailed, Wait, Finished
  <2>3. file_finished' \in {file_finished, TRUE}
    BY <1>3, Zenon DEF ConHandleRequest, AlreadyDecided, Answered, ToGateway, InGateway,
                HandlerError
  <2>4. in_error_handler' \in BOOLEAN /\ file_finished' \in BOOLEAN
    BY <2>2, <2>3
  <2> QED BY <2>1, <2>4
<1>4. CASE ConResponseStart BY <1>4 DEF ConResponseStart, Limited
<1>5. CASE ConResponseEnd BY <1>5 DEF ConResponseEnd, ConnectionReset, ShutdownOrClose
<1>6. CASE ConConnect BY <1>6 DEF ConConnect
<1>7. CASE ConClose BY <1>7 DEF ConClose
<1>8. CASE ConRead BY <1>8, ReadType DEF ConRead
<1>9. CASE ConWrite BY <1>9, WriteType DEF ConWrite
<1>10. CASE ConError BY <1>10 DEF ConError, ConnectionReset, ShutdownOrClose
<1>11. CASE SameSecond \/ FdWaitPop \/ Poll \/ Dispatched \/ RunJob \/ NextRound
  BY <1>11 DEF SameSecond, FdWaitPop, Poll, Dispatched, RunJob, NextRound, Rest
<1>12. CASE NewSecond BY <1>12 DEF NewSecond, Rest
<1>13. CASE Accept BY <1>13 DEF Accept, ConnectionReset
<1>14. CASE HandleFdevent
  <2>1. (is_readable \/ Event("IN")) \in BOOLEAN /\ (is_writable \/ Event("OUT")) \in BOOLEAN
    OBVIOUS
  <2>2. joblist + 1 \in Nat OBVIOUS
  <2> QED BY <1>14, <2>1, <2>2, ReadType, WriteType DEF HandleFdevent
<1>15. CASE Gateway
  <2>1. UNCHANGED <<keep_alive, in_error_handler, is_readable, is_writable,
                    traffic_limit_reached, room>>
    BY <1>15 DEF Gateway, GwWrite, GwRead, GwDone, GwFailed, GatewayVars
  <2>2. file_started' \in {file_started, TRUE} /\ file_finished' \in {file_finished, TRUE}
    BY <1>15, Zenon DEF Gateway, GwWrite, GwRead, GwDone, GwFailed, Deliver
  <2>3. file_started' \in BOOLEAN /\ file_finished' \in BOOLEAN BY <2>2
  <2> QED BY <2>1, <2>3
<1> QED
  BY <1>1, <1>2, <1>3, <1>4, <1>5, <1>6, <1>7, <1>8, <1>9, <1>10, <1>11, <1>12, <1>13,
     <1>14, <1>15 DEF Server, StateMachine, MainLoop

\* Queues only lose what was at their head.
LEMMA QueuesServer == TypeInv /\ Server => QueuesOK'
<1> SUFFICES ASSUME TypeInv, Server PROVE QueuesOK'
  OBVIOUS
<1>0. read_queue \in Seq(Units) /\ rx \in Seq(Units) /\ <<>> \in Seq(Units)
  BY DEF TypeInv, TypeOK
<1> USE <1>0 DEF QueuesOK, sockvars
<1>1. CASE UNCHANGED <<read_queue, rx>> BY <1>1
<1>2. CASE read_queue' \in {read_queue, <<>>} /\ rx' \in {rx, <<>>} BY <1>2
<1>3. ASSUME NEW age, Drain(age) PROVE rx' \in Seq(Units)
  BY <1>3, FromType DEF Drain
<1>4. CASE ConClose
  <2>1. CASE rx' = <<>> /\ UNCHANGED read_queue BY <2>1
  <2>2. CASE Drain(close_idle) /\ UNCHANGED read_queue BY <1>3, <2>2
  <2> QED BY <1>4, <2>1, <2>2, Zenon DEF ConClose
<1>5. CASE ConRead BY <1>5, ReadType DEF ConRead, TypeInv, TypeOK
<1>6. CASE HandleFdevent
  <2>1. CASE \E readable \in BOOLEAN : HandleReadState(readable)
    BY <2>1, ReadType DEF TypeInv
  <2>2. CASE (\E age : Drain(age)) /\ UNCHANGED read_queue BY <1>3, <2>2
  <2>3. (is_readable \/ Event("IN")) \in BOOLEAN OBVIOUS
  <2> QED BY <1>1, <1>6, <2>1, <2>2, <2>3, Zenon DEF HandleFdevent
<1>7. CASE StateMachine /\ ~ConClose /\ ~ConRead
  BY <1>2, <1>7 DEF StateMachine, ConRequestStart, ConRequestEnd, ConHandleRequest,
     ConResponseStart, ConResponseEnd, ConConnect, ConWrite, ConError, ShutdownOrClose
<1>8. CASE MainLoop /\ ~HandleFdevent
  BY <1>1, <1>8 DEF MainLoop, SameSecond, NewSecond, FdWaitPop, Poll, Dispatched, RunJob,
     NextRound, Accept, Gateway, GwWrite, GwRead, GwDone, GwFailed, GatewayVars, Rest
<1> QED BY <1>4, <1>5, <1>6, <1>7, <1>8 DEF Server

(***************************************************************************)
(* The state of a connection is always of its type.                        *)
(***************************************************************************)
THEOREM TypeCorrect == Spec => []TypeOK
<1>1. Init => TypeInv
  <2> SUFFICES ASSUME Init PROVE TypeInv
    OBVIOUS
  <2>1. Hosts \in 0..Hosts BY ConnectionAssumption
  <2>2. <<>> \in Seq(Units) OBVIOUS
  <2>3. FlagsOK BY DEF Init, FlagsOK
  <2>4. DataOK BY <2>1 DEF Init, DataOK, States, Statuses, Unset
  <2>5. QueuesOK BY <2>2 DEF Init, QueuesOK
  <2> QED BY <2>3, <2>4, <2>5
          DEF TypeInv, TypeOK, HostInv, FlagsOK, DataOK, QueuesOK, Init
<1>2. TypeInv /\ [Next]_vars => TypeInv'
  <2> SUFFICES ASSUME TypeInv, [Next]_vars PROVE TypeInv'
    OBVIOUS
  <2>1. CASE UNCHANGED vars
    BY <2>1 DEF vars, TypeInv, TypeOK, HostInv, reqvars, iovars, idlevars, loopvars,
                sockvars, acctvars
  <2>2. CASE Server
    <3>1. DataOK' /\ HostInv' BY <2>2, DataStateMachine, DataMainLoop DEF Server
    <3>2. FlagsOK' BY <2>2, FlagsServer
    <3>3. QueuesOK' BY <2>2, QueuesServer
    <3> QED BY <3>1, <3>2, <3>3, TypePartsNext DEF TypeInv
  <2> QED BY <2>1, <2>2, TypeClient DEF Next
<1>3. TypeInv => TypeOK BY DEF TypeInv
<1> QED BY <1>1, <1>2, <1>3, PTL DEF Spec

-----------------------------------------------------------------------------
(***************************************************************************)
(* The inductive invariant behind the accounting of open connections.  An  *)
(* event is dispatched only while no machine runs, so the descriptors that *)
(* are ready stay what they were when epoll reported them; a backend       *)
(* belongs to a connection in one of five states; every path to "close" or *)
(* "connect" corrects con_open.                                            *)
(***************************************************************************)
ReadyInv ==
    /\ ready \subseteq {"listen", "client", "gateway"}
    /\ ready # {} => phase = "dispatch" /\ pc = "idle"
    /\ "listen" \in ready => state = "connect" /\ peer # "none"
    /\ "client" \in ready => state # "connect" /\ interest # "none"
    /\ "gateway" \in ready => gateway # "none"

OwnerInv ==
    /\ gateway # "none" => state \in {"handlereq", "respstart", "write", "respend", "error"}
    /\ state # "connect" => peer # "none"
    /\ state = "connect" => interest = "none"

CountInv == ReadyInv /\ OwnerInv /\ OpenCounted

\* Initially nothing is ready, owned or counted.
LEMMA CountInit == Init => CountInv
BY DEF Init, CountInv, ReadyInv, OwnerInv, OpenCounted

\* No action of the client touches more than the socket; it connects only to a
\* connection that is free.
LEMMA CountClient == CountInv /\ Client => CountInv'
<1> SUFFICES ASSUME CountInv, Client PROVE CountInv'
  OBVIOUS
<1> USE DEF CountInv, ReadyInv, OwnerInv, OpenCounted, ClientVars, reqvars, iovars,
            idlevars, loopvars, acctvars
<1>1. CASE ClientConnect BY <1>1 DEF ClientConnect
<1>2. CASE ClientReceive BY <1>2 DEF ClientReceive
<1>3. CASE ClientFinish BY <1>3 DEF ClientFinish
<1>4. CASE ClientReset BY <1>4 DEF ClientReset
<1>5. CASE ClientVanish BY <1>5 DEF ClientVanish
<1>6. ASSUME NEW unit, ClientSend(unit) PROVE CountInv' BY <1>6 DEF ClientSend
<1> QED BY <1>1, <1>2, <1>3, <1>4, <1>5, <1>6 DEF Client

\* Every iteration of the state machine keeps the invariant.
LEMMA CountStateMachine == CountInv /\ StateMachine => CountInv'
<1> SUFFICES ASSUME CountInv, StateMachine PROVE CountInv'
  OBVIOUS
<1> USE DEF CountInv, ReadyInv, OwnerInv, OpenCounted, reqvars, iovars, idlevars,
            loopvars, sockvars, acctvars, In, Loop, WantedInterest
<1>1. CASE ConRequestStart BY <1>1 DEF ConRequestStart
<1>2. CASE ConRequestEnd BY <1>2 DEF ConRequestEnd
<1>3. CASE ConHandleRequest
  <2>1. CASE AlreadyDecided BY <1>3, <2>1 DEF ConHandleRequest, AlreadyDecided, Finished
  <2>2. CASE Answered BY <1>3, <2>2 DEF ConHandleRequest, Answered, Finished
  <2>3. CASE ToGateway
    BY <1>3, <2>3 DEF ConHandleRequest, ToGateway, HostFailed, Wait, Finished
  <2>4. CASE InGateway
    BY <1>3, <2>4 DEF ConHandleRequest, InGateway, HostFailed, Wait, Finished
  <2>5. CASE HandlerError BY <1>3, <2>5 DEF ConHandleRequest, HandlerError
  <2> QED BY <1>3, <2>1, <2>2, <2>3, <2>4, <2>5 DEF ConHandleRequest
<1>4. CASE ConResponseStart BY <1>4 DEF ConResponseStart
<1>5. CASE ConResponseEnd BY <1>5 DEF ConResponseEnd, ConnectionReset, ShutdownOrClose
<1>6. CASE ConConnect BY <1>6 DEF ConConnect
<1>7. CASE ConClose BY <1>7 DEF ConClose, Drain
<1>8. CASE ConRead
  BY ZenonT(60), <1>8 DEF ConRead, HandleReadState, ScanHeader, StoreContent
<1>9. CASE ConWrite BY <1>9 DEF ConWrite, HandleWrite, GlobalLimit
<1>10. CASE ConError BY <1>10 DEF ConError, ConnectionReset, ShutdownOrClose
<1> QED BY <1>1, <1>2, <1>3, <1>4, <1>5, <1>6, <1>7, <1>8, <1>9, <1>10 DEF StateMachine

\* Every step of the main loop and every handler it dispatches keeps it.
LEMMA CountMainLoop == CountInv /\ MainLoop => CountInv'
<1> SUFFICES ASSUME CountInv, MainLoop PROVE CountInv'
  OBVIOUS
<1> USE DEF CountInv, ReadyInv, OwnerInv, OpenCounted, reqvars, iovars, idlevars,
            loopvars, sockvars, acctvars, Rest, GatewayVars, GwEvent, Enter
<1>1. CASE SameSecond BY <1>1 DEF SameSecond
<1>2. CASE NewSecond BY <1>2 DEF NewSecond, TimedOut
<1>3. CASE FdWaitPop BY <1>3 DEF FdWaitPop
<1>4. CASE Poll BY <1>4 DEF Poll, ClientReady
<1>5. CASE Dispatched BY <1>5 DEF Dispatched
<1>6. CASE RunJob BY <1>6 DEF RunJob
<1>7. CASE NextRound BY <1>7 DEF NextRound
<1>8. CASE Accept
  <2>1. "listen" \in ready /\ ready' = ready \ {"listen"} BY <1>8 DEF Accept
  <2>2. state = "connect" /\ gateway = "none" BY <2>1
  <2>3. "client" \notin ready /\ "gateway" \notin ready BY <2>2
  <2>4. ready' = {} BY <2>1, <2>3
  <2>5. ReadyInv' BY <2>4
  <2>6. OwnerInv' BY <1>8, <2>1, <2>2 DEF Accept, ConnectionReset
  <2>7. OpenCounted' BY <1>8, <2>2 DEF Accept
  <2> QED BY <2>5, <2>6, <2>7
<1>9. CASE HandleFdevent
  BY ZenonT(60), <1>9 DEF HandleFdevent, HandleReadState, ScanHeader, StoreContent, HandleWrite, GlobalLimit, Drain
<1>10. CASE Gateway
  <2>1. CASE GwWrite BY <1>10, <2>1 DEF GwWrite
  <2>2. CASE GwRead BY <1>10, <2>2 DEF GwRead, Deliver
  <2>3. CASE GwDone BY <1>10, <2>3 DEF GwDone
  <2>4. CASE GwFailed BY <1>10, <2>4 DEF GwFailed, KillOrAnswer, AnswerWith500
  <2> QED BY <1>10, <2>1, <2>2, <2>3, <2>4 DEF Gateway
<1> QED BY <1>1, <1>2, <1>3, <1>4, <1>5, <1>6, <1>7, <1>8, <1>9, <1>10 DEF MainLoop

(***************************************************************************)
(* What the main loop has polled and what the counters say always agrees   *)
(* with the state the connection is in.                                    *)
(***************************************************************************)
THEOREM CountInvariant == Spec => []CountInv
<1>1. CountInv /\ [Next]_vars => CountInv'
  <2> SUFFICES ASSUME CountInv, [Next]_vars PROVE CountInv'
    OBVIOUS
  <2>1. CASE UNCHANGED vars
    BY <2>1 DEF vars, CountInv, ReadyInv, OwnerInv, OpenCounted, loopvars, sockvars, acctvars
  <2> QED BY <2>1, CountClient, CountStateMachine, CountMainLoop DEF Next, Server
<1> QED BY <1>1, CountInit, PTL DEF Spec

(***************************************************************************)
(* con_opened - con_closed is the number of connections in use.            *)
(***************************************************************************)
THEOREM OpenCountedHolds == Spec => []OpenCounted
<1>1. CountInv => OpenCounted BY DEF CountInv
<1> QED BY <1>1, CountInvariant, PTL

(***************************************************************************)
(* Every handler the main loop calls finds its descriptor registered.      *)
(***************************************************************************)
THEOREM DispatchedRegisteredHolds == Spec => []DispatchedRegistered
<1>1. CountInv => DispatchedRegistered
  BY DEF CountInv, ReadyInv, OwnerInv, DispatchedRegistered
<1> QED BY <1>1, CountInvariant, PTL

-----------------------------------------------------------------------------
(***************************************************************************)
(* The inductive invariant behind the log: a request is unlogged from the  *)
(* REQUEST_START that begins it to the RESPONSE_END or ERROR that ends it, *)
(* and every way out of those leaves a status of 0 behind.                 *)
(***************************************************************************)
Serving == {"read", "reqend", "readpost", "handlereq", "respstart", "write",
            "respend", "error"}

LogInv ==
    /\ request_count \in 0..(MaxKeepAliveRequests + 1) /\ logged \in {0, 1}
    /\ state \in States
    /\ state \in Serving => logged = 0 /\ request_count > 0
    /\ state \notin Serving => http_status = 0
    /\ state = "reqstart" =>
          /\ pc = "machine" /\ request_count <= MaxKeepAliveRequests
          /\ request_count = 0 \/ logged = 1
    /\ state \in {"write", "respend"} /\ keep_alive => request_count <= MaxKeepAliveRequests
    /\ state = "connect" /\ pc = "idle" => request_count = 0

\* The first connection has begun no request.
LEMMA LogInit == Init => LogInv
BY ConnectionAssumption DEF Init, LogInv, Serving, States

\* The client does not touch what the invariant is about.
LEMMA LogClient == LogInv /\ Client => LogInv'
BY DEF LogInv, Serving, States, Client, ClientConnect, ClientReceive, ClientFinish,
       ClientReset, ClientVanish, ClientSend, ClientVars, reqvars, iovars, idlevars,
       loopvars, acctvars

\* connection_handle_read_state() leaves a connection that is being read in one of
\* five states.
LEMMA ReadOutcome ==
    ASSUME NEW readable, state \in {"read", "readpost"}, HandleReadState(readable)
    PROVE  state' \in {"read", "reqend", "readpost", "handlereq", "error"}
<1>1. CASE readable /\ rx = <<>> /\ peer = "rst" /\ state' = "error"
  BY <1>1
<1>2. CASE \E q, closed : ScanHeader(q, closed)
  BY <1>2 DEF ScanHeader
<1>3. CASE \E q, closed : StoreContent(q, closed)
  BY <1>3 DEF StoreContent
<1> QED BY <1>1, <1>2, <1>3 DEF HandleReadState

\* Every iteration of the state machine keeps the invariant.
LEMMA LogStateMachine == LogInv /\ StateMachine => LogInv'
<1> SUFFICES ASSUME LogInv, StateMachine PROVE LogInv'
  OBVIOUS
<1> MaxKeepAliveRequests \in Nat BY ConnectionAssumption
<1> USE DEF LogInv, Serving, States, reqvars, iovars, idlevars, loopvars, sockvars,
            acctvars, In, Loop
<1>1. CASE ConRequestStart
  <2>1. request_count \in Nat /\ request_count <= MaxKeepAliveRequests
    BY <1>1 DEF ConRequestStart
  <2>2. request_count + 1 \in 0..(MaxKeepAliveRequests + 1) /\ request_count + 1 > 0
    BY <2>1
  <2> QED BY <1>1, <2>2 DEF ConRequestStart
<1>2. CASE ConRequestEnd BY <1>2 DEF ConRequestEnd
<1>3. CASE ConHandleRequest
  <2>1. CASE AlreadyDecided BY <1>3, <2>1 DEF ConHandleRequest, AlreadyDecided, Finished
  <2>2. CASE Answered BY <1>3, <2>2 DEF ConHandleRequest, Answered, Finished
  <2>3. CASE ToGateway
    BY <1>3, <2>3 DEF ConHandleRequest, ToGateway, HostFailed, Wait, Finished
  <2>4. CASE InGateway
    BY <1>3, <2>4 DEF ConHandleRequest, InGateway, HostFailed, Wait, Finished
  <2>5. CASE HandlerError BY <1>3, <2>5 DEF ConHandleRequest, HandlerError
  <2> QED BY <1>3, <2>1, <2>2, <2>3, <2>4, <2>5 DEF ConHandleRequest
<1>4. CASE ConResponseStart BY <1>4 DEF ConResponseStart, Limited
<1>5. CASE ConResponseEnd BY <1>5 DEF ConResponseEnd, ConnectionReset, ShutdownOrClose
<1>6. CASE ConConnect BY <1>6 DEF ConConnect
<1>7. CASE ConClose BY <1>7 DEF ConClose, Drain
<1>8. CASE ConRead
  <2>1. state' \in {"read", "reqend", "readpost", "handlereq", "error"}
    BY <1>8, ReadOutcome DEF ConRead
  <2> QED BY <1>8, <2>1 DEF ConRead
<1>9. CASE ConWrite BY <1>9 DEF ConWrite, HandleWrite, GlobalLimit
<1>10. CASE ConError
  BY <1>10 DEF ConError, LogAnswered, ConnectionReset, ShutdownOrClose
<1> QED BY <1>1, <1>2, <1>3, <1>4, <1>5, <1>6, <1>7, <1>8, <1>9, <1>10 DEF StateMachine

\* Every step of the main loop and every handler it dispatches keeps it.
LEMMA LogMainLoop == CountInv /\ LogInv /\ MainLoop => LogInv'
<1> SUFFICES ASSUME CountInv, LogInv, MainLoop PROVE LogInv'
  OBVIOUS
<1> MaxKeepAliveRequests \in Nat BY ConnectionAssumption
<1> USE DEF LogInv, Serving, States, reqvars, iovars, idlevars, loopvars, sockvars,
            acctvars, Rest, GatewayVars, GwEvent, Enter
<1>1. CASE SameSecond BY <1>1 DEF SameSecond
<1>2. CASE NewSecond BY <1>2 DEF NewSecond, TimedOut
<1>3. CASE FdWaitPop BY <1>3 DEF FdWaitPop
<1>4. CASE Poll BY <1>4 DEF Poll
<1>5. CASE Dispatched BY <1>5 DEF Dispatched
<1>6. CASE RunJob BY <1>6 DEF RunJob
<1>7. CASE NextRound BY <1>7 DEF NextRound
<1>8. CASE Accept
  <2>1. state = "connect" BY <1>8 DEF Accept, CountInv, ReadyInv
  <2> QED BY <1>8, <2>1 DEF Accept, ConnectionReset
<1>9. CASE HandleFdevent
  <2>1. state # "connect" BY <1>9 DEF HandleFdevent, CountInv, ReadyInv
  <2>2. state \in Serving \cup {"close", "reqstart"}
    BY <2>1
  <2>3. CASE state \in {"read", "readpost"} /\ \E readable : HandleReadState(readable)
    <3>1. state' \in {"read", "reqend", "readpost", "handlereq", "error"}
      BY <2>3, ReadOutcome
    <3> QED BY <1>9, <2>3, <3>1 DEF HandleFdevent
  <2>4. CASE state' \in {"error", state}
    BY <1>9, <2>1, <2>4 DEF HandleFdevent
  <2>5. CASE state = "write" /\ \E jobs : HandleWrite(jobs)
    <3>1. state' \in {"write", "respend", "error"} BY <2>5 DEF HandleWrite, GlobalLimit
    <3>2. UNCHANGED <<http_status, keep_alive, request_count, logged, pc>>
      BY <1>9, <2>5 DEF HandleFdevent
    <3> QED BY <2>5, <3>1, <3>2
  <2> QED
    BY <1>9, <2>3, <2>4, <2>5 DEF HandleFdevent
<1>10. CASE Gateway
  <2>1. state \in {"handlereq", "respstart", "write", "respend", "error"}
    BY <1>10 DEF Gateway, GwWrite, GwRead, GwDone, GwFailed, CountInv, ReadyInv, OwnerInv
  <2>2. CASE GwWrite BY <2>1, <2>2 DEF GwWrite
  <2>3. CASE GwRead BY <2>1, <2>3 DEF GwRead, Deliver
  <2>4. CASE GwDone BY <2>1, <2>4 DEF GwDone
  <2>5. CASE GwFailed BY <2>1, <2>5 DEF GwFailed, KillOrAnswer, AnswerWith500
  <2> QED BY <1>10, <2>2, <2>3, <2>4, <2>5 DEF Gateway
<1> QED BY <1>1, <1>2, <1>3, <1>4, <1>5, <1>6, <1>7, <1>8, <1>9, <1>10 DEF MainLoop

(***************************************************************************)
(* A status stands only while its request is served, and no more requests  *)
(* are begun than keep-alive allows.                                       *)
(***************************************************************************)
THEOREM LogInvariant == Spec => []LogInv
<1>1. CountInv /\ LogInv /\ [Next]_vars => LogInv'
  <2> SUFFICES ASSUME CountInv, LogInv, [Next]_vars PROVE LogInv'
    OBVIOUS
  <2>1. CASE UNCHANGED vars
    BY <2>1 DEF vars, LogInv, reqvars, acctvars
  <2> QED BY <2>1, LogClient, LogStateMachine, LogMainLoop DEF Next, Server
<1> QED BY <1>1, LogInit, CountInvariant, PTL DEF Spec

-----------------------------------------------------------------------------
(***************************************************************************)
(* Until the header of a backend's response is there, its connection stays *)
(* in HANDLE_REQUEST, where epoll watches nothing of the client; so an     *)
(* error of the backend then can never meet a response on its way out.     *)
(***************************************************************************)
GatewayInv ==
    /\ gateway \in {"connecting", "running"} /\ ~file_started =>
          state = "handlereq" \/ (state = "error" /\ pc = "machine")
    /\ gateway # "none" /\ state = "handlereq" /\ pc = "idle" => interest = "none"
    /\ gateway \in {"connecting", "running"} => mode = "gateway"

\* Every iteration of the state machine keeps the invariant.
LEMMA GatewayStateMachine == CountInv /\ GatewayInv /\ StateMachine => GatewayInv'
<1> SUFFICES ASSUME CountInv, GatewayInv, StateMachine PROVE GatewayInv'
  OBVIOUS
<1> USE DEF CountInv, OwnerInv, GatewayInv, reqvars, iovars, idlevars, loopvars,
            sockvars, acctvars, In, Loop, WantedInterest
<1>1. CASE ConRequestStart BY <1>1 DEF ConRequestStart
<1>2. CASE ConRequestEnd BY <1>2 DEF ConRequestEnd
<1>3. CASE ConHandleRequest
  <2>1. CASE AlreadyDecided BY <1>3, <2>1 DEF ConHandleRequest, AlreadyDecided, Finished
  <2>2. CASE Answered BY <1>3, <2>2 DEF ConHandleRequest, Answered, Finished
  <2>3. CASE ToGateway
    BY <1>3, <2>3 DEF ConHandleRequest, ToGateway, HostFailed, Wait, Finished
  <2>4. CASE InGateway
    BY <1>3, <2>4 DEF ConHandleRequest, InGateway, HostFailed, Wait, Finished
  <2>5. CASE HandlerError BY <1>3, <2>5 DEF ConHandleRequest, HandlerError
  <2> QED BY <1>3, <2>1, <2>2, <2>3, <2>4, <2>5 DEF ConHandleRequest
<1>4. CASE ConResponseStart BY <1>4 DEF ConResponseStart
<1>5. CASE ConResponseEnd BY <1>5 DEF ConResponseEnd, ConnectionReset
<1>6. CASE ConConnect BY <1>6 DEF ConConnect
<1>7. CASE ConClose BY <1>7 DEF ConClose
<1>8. CASE ConRead BY <1>8 DEF ConRead
<1>9. CASE ConWrite BY <1>9 DEF ConWrite, HandleWrite, GlobalLimit
<1>10. CASE ConError BY <1>10 DEF ConError, ConnectionReset
<1> QED BY <1>1, <1>2, <1>3, <1>4, <1>5, <1>6, <1>7, <1>8, <1>9, <1>10 DEF StateMachine

\* Every step of the main loop and every handler it dispatches keeps it.
LEMMA GatewayMainLoop == CountInv /\ GatewayInv /\ MainLoop => GatewayInv'
<1> SUFFICES ASSUME CountInv, GatewayInv, MainLoop PROVE GatewayInv'
  OBVIOUS
<1> USE DEF CountInv, ReadyInv, OwnerInv, GatewayInv, reqvars, iovars, idlevars,
            loopvars, sockvars, acctvars, Rest, GatewayVars, GwEvent, Enter
<1>1. CASE SameSecond BY <1>1 DEF SameSecond
<1>2. CASE NewSecond BY <1>2 DEF NewSecond, TimedOut
<1>3. CASE FdWaitPop BY <1>3 DEF FdWaitPop
<1>4. CASE Poll BY <1>4 DEF Poll
<1>5. CASE Dispatched BY <1>5 DEF Dispatched
<1>6. CASE RunJob BY <1>6 DEF RunJob
<1>7. CASE NextRound BY <1>7 DEF NextRound
<1>8. CASE Accept BY <1>8 DEF Accept, ConnectionReset
<1>9. CASE HandleFdevent
  <2>1. CASE gateway = "none" BY <1>9, <2>1 DEF HandleFdevent
  <2>2. CASE gateway # "none"
    <3>1. state \in {"respstart", "write", "respend", "error"} BY <1>9, <2>2 DEF HandleFdevent
    <3>2. state' # "handlereq" BY <1>9, <3>1 DEF HandleFdevent, HandleWrite, GlobalLimit
    <3> QED BY <1>9, <3>1, <3>2 DEF HandleFdevent
  <2> QED BY <2>1, <2>2
<1>10. CASE Gateway
  <2>1. CASE GwWrite BY <1>10, <2>1 DEF GwWrite
  <2>2. CASE GwRead BY <1>10, <2>2 DEF GwRead, Deliver
  <2>3. CASE GwDone BY <1>10, <2>3 DEF GwDone
  <2>4. CASE GwFailed BY <1>10, <2>4 DEF GwFailed, KillOrAnswer, AnswerWith500
  <2> QED BY <1>10, <2>1, <2>2, <2>3, <2>4 DEF Gateway
<1> QED BY <1>1, <1>2, <1>3, <1>4, <1>5, <1>6, <1>7, <1>8, <1>9, <1>10 DEF MainLoop

(***************************************************************************)
(* A backend that has not answered yet belongs to a connection that waits in*)
(* HANDLE_REQUEST.                                                         *)
(***************************************************************************)
THEOREM GatewayInvariant == Spec => []GatewayInv
<1>1. Init => GatewayInv BY DEF Init, GatewayInv
<1>2. CountInv /\ GatewayInv /\ [Next]_vars => GatewayInv'
  <2> SUFFICES ASSUME CountInv, GatewayInv, [Next]_vars PROVE GatewayInv'
    OBVIOUS
  <2>1. CASE UNCHANGED vars BY <2>1 DEF vars, GatewayInv, reqvars
  <2>2. CASE Client
    BY <2>2 DEF GatewayInv, Client, ClientConnect, ClientReceive, ClientFinish,
                ClientReset, ClientVanish, ClientSend, ClientVars, reqvars
  <2> QED BY <2>1, <2>2, GatewayStateMachine, GatewayMainLoop DEF Next, Server
<1> QED BY <1>1, <1>2, CountInvariant, PTL DEF Spec

-----------------------------------------------------------------------------
(***************************************************************************)
(* handle_request_done is called at most once for a request.               *)
(***************************************************************************)
THEOREM LoggedOnceHolds == Spec => []LoggedOnce
<1>1. LogInv => LoggedOnce BY DEF LogInv, LoggedOnce, Serving
<1> QED BY <1>1, LogInvariant, PTL

(***************************************************************************)
(* Keep-alive ends after max-keep-alive-requests + 1 requests.             *)
(***************************************************************************)
THEOREM RequestLimitHolds == Spec => []RequestLimit
<1>1. LogInv => RequestLimit BY ConnectionAssumption DEF LogInv, RequestLimit
<1> QED BY <1>1, LogInvariant, PTL

(***************************************************************************)
(* Every answer is logged: con->http_status is cleared only by a call of   *)
(* handle_request_done or for the error handler.                           *)
(***************************************************************************)
THEOREM AnswerLoggedHolds == Spec => AnswerLogged
<1> DEFINE Step == http_status # 0 /\ http_status' = 0 => logged' = 1 \/ in_error_handler'
<1>1. CountInv /\ LogInv /\ [Next]_vars => [Step]_vars
  <2> SUFFICES ASSUME CountInv, LogInv, Next, http_status # 0, http_status' = 0
               PROVE  logged' = 1 \/ in_error_handler'
    BY DEF vars
  <2>1. state \in Serving /\ logged = 0 BY DEF LogInv
  <2> USE DEF reqvars, acctvars
  <2>2. ASSUME NEW readable, HandleReadState(readable) PROVE FALSE
    <3>1. ASSUME NEW q, NEW closed, ScanHeader(q, closed) PROVE FALSE
      BY <3>1 DEF ScanHeader
    <3>2. ASSUME NEW q, NEW closed, StoreContent(q, closed) PROVE FALSE
      BY <3>2 DEF StoreContent
    <3> QED BY <2>2, <3>1, <3>2 DEF HandleReadState
  <2>3. CASE Client
    BY <2>3 DEF Client, ClientConnect, ClientReceive, ClientFinish, ClientReset,
                ClientVanish, ClientSend, ClientVars
  <2>4. CASE StateMachine
    <3>1. CASE ConResponseEnd BY <2>1, <3>1 DEF ConResponseEnd
    <3>2. CASE ConError BY <2>1, <3>2 DEF ConError, LogAnswered
    <3>3. CASE ConHandleRequest
      BY ZenonT(60), <3>3 DEF ConHandleRequest, AlreadyDecided, Answered, ToGateway, InGateway,
                  HandlerError, HostFailed, Wait, Finished
    <3>4. CASE ConRead BY <2>2, <3>4 DEF ConRead
    <3>5. CASE ConRequestStart \/ ConConnect \/ ConClose \/ ConWrite
      BY <3>5 DEF ConRequestStart, ConConnect, ConClose, ConWrite
    <3>6. CASE ConRequestEnd
      <4>1. http_status' = 500 \/ UNCHANGED http_status BY <3>6 DEF ConRequestEnd
      <4> QED BY <4>1
    <3>7. CASE ConResponseStart
      <4>1. UNCHANGED http_status BY <3>7 DEF ConResponseStart
      <4> QED BY <4>1
    <3> QED BY <2>4, <3>1, <3>2, <3>3, <3>4, <3>5, <3>6, <3>7 DEF StateMachine
  <2>5. CASE MainLoop
    <3>1. CASE Accept
      BY <2>1, <3>1 DEF Accept, CountInv, ReadyInv, Serving
    <3>2. CASE HandleFdevent BY <2>2, <3>2 DEF HandleFdevent
    <3>3. CASE Gateway
      BY <3>3 DEF Gateway, GwWrite, GwRead, GwDone, GwFailed, KillOrAnswer, AnswerWith500
    <3> QED
      BY <2>5, <3>1, <3>2, <3>3
         DEF MainLoop, SameSecond, NewSecond, FdWaitPop, Poll, Dispatched, RunJob,
             NextRound, Rest
  <2> QED BY <2>3, <2>4, <2>5 DEF Next, Server
<1> QED BY <1>1, CountInvariant, LogInvariant, PTL DEF Spec, AnswerLogged

(***************************************************************************)
(* Every step of the connection is a step of Lifecycle or leaves what      *)
(* Lifecycle sees as it was.                                               *)
(***************************************************************************)
LEMMA LifeStateMachine ==
    CountInv /\ LogInv /\ GatewayInv /\ StateMachine => [Life!Next]_Life!vars
<1> SUFFICES ASSUME CountInv, LogInv, GatewayInv, StateMachine
             PROVE  Life!Next \/ UNCHANGED Life!vars
  OBVIOUS
<1> MaxKeepAliveRequests \in Nat BY ConnectionAssumption
<1> USE DEF LogInv, Serving, States, acctvars, In, Loop, Stage, Life!Next, Life!vars
<1>1. CASE ConRequestStart BY <1>1 DEF ConRequestStart, Life!Begin
<1>2. CASE ConRequestEnd BY <1>2 DEF ConRequestEnd
<1>3. CASE ConHandleRequest
  <2>1. state = "handlereq" /\ state' \in {"handlereq", "respstart", "error"}
    BY <1>3 DEF ConHandleRequest, AlreadyDecided, Answered, ToGateway, InGateway,
                HandlerError, HostFailed, Wait, Finished
  <2> QED BY <1>3, <2>1 DEF ConHandleRequest, Life!Answer, Life!Fail
<1>4. CASE ConResponseStart BY <1>4 DEF ConResponseStart
<1>5. CASE ConResponseEnd
  BY <1>5 DEF ConResponseEnd, ConnectionReset, ShutdownOrClose, Life!Finish, Life!Leave
<1>6. CASE ConConnect BY <1>6 DEF ConConnect
<1>7. CASE ConClose BY <1>7 DEF ConClose, Life!Release
<1>8. CASE ConRead
  <2>1. state' \in {"read", "reqend", "readpost", "handlereq", "error"}
    BY <1>8, ReadOutcome DEF ConRead
  <2> QED BY <1>8, <2>1 DEF ConRead, Life!Fail
<1>9. CASE ConWrite
  <2>1. state = "write" /\ state' \in {"write", "respend", "error"}
    BY <1>9 DEF ConWrite, HandleWrite, GlobalLimit
  <2> QED BY <1>9, <2>1 DEF ConWrite, Life!Fail
<1>10. CASE ConError
  BY <1>10 DEF ConError, LogAnswered, ConnectionReset, ShutdownOrClose, Life!GiveUp,
               Life!Leave
<1> QED BY <1>1, <1>2, <1>3, <1>4, <1>5, <1>6, <1>7, <1>8, <1>9, <1>10 DEF StateMachine

\* The main loop and its handlers: a connection is accepted, fails, or is left
\* in the stage it was in.
LEMMA LifeMainLoop ==
    CountInv /\ LogInv /\ GatewayInv /\ MainLoop => [Life!Next]_Life!vars
<1> SUFFICES ASSUME CountInv, LogInv, GatewayInv, MainLoop
             PROVE  Life!Next \/ UNCHANGED Life!vars
  OBVIOUS
<1> MaxKeepAliveRequests \in Nat BY ConnectionAssumption
<1> USE DEF LogInv, Serving, States, acctvars, Stage, Rest, GatewayVars, GwEvent,
            Life!Next, Life!vars
<1>1. CASE SameSecond BY <1>1 DEF SameSecond
<1>2. CASE NewSecond BY <1>2 DEF NewSecond, TimedOut, Life!Fail
<1>3. CASE FdWaitPop BY <1>3 DEF FdWaitPop
<1>4. CASE Poll BY <1>4 DEF Poll
<1>5. CASE Dispatched BY <1>5 DEF Dispatched
<1>6. CASE RunJob BY <1>6 DEF RunJob
<1>7. CASE NextRound BY <1>7 DEF NextRound
<1>8. CASE Accept
  <2>1. state = "connect" /\ pc = "idle" BY <1>8 DEF Accept, CountInv, ReadyInv
  <2> QED BY <1>8, <2>1 DEF Accept, Life!Accepted
<1>9. CASE HandleFdevent
  <2>1. state # "connect" /\ state # "reqstart"
    BY <1>9 DEF HandleFdevent, CountInv, ReadyInv
  <2>2. UNCHANGED <<request_count, logged, con_open>>
    BY <1>9 DEF HandleFdevent
  <2>3. CASE state \in {"read", "readpost"} /\ \E readable : HandleReadState(readable)
    <3>1. state' \in {"read", "reqend", "readpost", "handlereq", "error"}
      BY <2>3, ReadOutcome
    <3> QED BY <2>2, <2>3, <3>1 DEF Life!Fail
  <2>4. CASE state = "write" /\ \E jobs : HandleWrite(jobs)
    <3>1. state' \in {"write", "respend", "error"} BY <2>4 DEF HandleWrite, GlobalLimit
    <3> QED BY <2>2, <2>4, <3>1 DEF Life!Fail
  <2>5. CASE state' = state BY <2>2, <2>5
  <2>6. CASE state' = "error" /\ state # "close" BY <2>1, <2>2, <2>6 DEF Life!Fail
  <2> QED BY <1>9, <2>3, <2>4, <2>5, <2>6 DEF HandleFdevent
<1>10. CASE Gateway
  <2>1. state \in {"handlereq", "respstart", "write", "respend", "error"}
    BY <1>10 DEF Gateway, GwWrite, GwRead, GwDone, GwFailed, CountInv, ReadyInv, OwnerInv
  <2>2. CASE GwFailed
    <3>1. state' = "error" \/ (state = "handlereq" /\ state' = "handlereq")
      BY <2>2 DEF GwFailed, KillOrAnswer, AnswerWith500, GatewayInv
    <3> QED BY <2>1, <2>2, <3>1 DEF GwFailed, Life!Fail
  <2>3. CASE GwWrite BY <2>3 DEF GwWrite
  <2>4. CASE GwRead BY <2>4 DEF GwRead
  <2>5. CASE GwDone BY <2>5 DEF GwDone
  <2> QED BY <1>10, <2>2, <2>3, <2>4, <2>5 DEF Gateway
<1> QED BY <1>1, <1>2, <1>3, <1>4, <1>5, <1>6, <1>7, <1>8, <1>9, <1>10 DEF MainLoop

(***************************************************************************)
(* Connection implements Lifecycle.                                        *)
(***************************************************************************)
THEOREM LifecycleImplemented == Spec => ImplementsLifecycle
<1>1. Init => Life!Init BY DEF Init, Life!Init, Stage
<1>2. CountInv /\ LogInv /\ GatewayInv /\ [Next]_vars => [Life!Next]_Life!vars
  <2> SUFFICES ASSUME CountInv, LogInv, GatewayInv, [Next]_vars
               PROVE  [Life!Next]_Life!vars
    OBVIOUS
  <2>1. CASE UNCHANGED vars BY <2>1 DEF vars, acctvars, Life!vars, Stage
  <2>2. CASE Client
    BY <2>2 DEF Life!vars, Stage, Client, ClientConnect, ClientReceive, ClientFinish,
                ClientReset, ClientVanish, ClientSend, ClientVars, acctvars
  <2> QED BY <2>1, <2>2, LifeStateMachine, LifeMainLoop DEF Next, Server
<1> QED
  BY <1>1, <1>2, CountInvariant, LogInvariant, GatewayInvariant, PTL
     DEF Spec, ImplementsLifecycle, Life!Spec

(***************************************************************************)
(* What the server counts of a connection is right in every state.         *)
(***************************************************************************)
THEOREM CountsRightHolds == Spec => []CountsRight
BY OpenCountedHolds, RequestLimitHolds, PTL DEF CountsRight

(***************************************************************************)
(* Every answer is logged, and none of them twice.                         *)
(***************************************************************************)
THEOREM LoggedHolds == Spec => Logged
BY LoggedOnceHolds, AnswerLoggedHolds, PTL DEF Logged

-----------------------------------------------------------------------------
(***************************************************************************)
(* The inductive invariant behind the connections that are free: whoever   *)
(* takes a connection out of a response or out of an error has called      *)
(* connection_reset(), and nothing but the machine itself touches it until *)
(* the next request begins.  What connection_reset() does not empty,       *)
(* read_queue, the CONNECT iteration does before the machine stops.        *)
(***************************************************************************)
ResetInv ==
    /\ state \in {"connect", "reqstart", "close"} =>
          write_queue = 0 /\ missing = 0 /\ mode = "DIRECT"
    /\ state = "connect" /\ pc = "idle" => read_queue = <<>>

(***************************************************************************)
(* ... behind the time stamp of the write timeout: the flag is_writable    *)
(* stays set from connection_reset() to the first write of the answer, so  *)
(* a machine that gets to WRITE tries to write before it stops.            *)
(***************************************************************************)
StampInv ==
    /\ state \in {"reqstart", "read", "reqend", "readpost", "handlereq", "respstart"}
          => is_writable
    /\ pc = "machine" /\ state = "write" /\ entry # "write"
          => write_queue > 0 /\ is_writable

(***************************************************************************)
(* ... and behind the answers: one that is not finished has a backend that *)
(* will go on with it, and one that is finished leaves WRITE only when its *)
(* last chunk is gone, so that WRITE is never left with nothing to do.     *)
(***************************************************************************)
AnswerInv ==
    /\ file_started => mode = "gateway"
    /\ gateway = "connecting" => ~file_started
    /\ mode = "gateway" /\ gateway = "none" => file_finished
    /\ state = "respstart" /\ mode = "DIRECT" /\ http_status \in {0, 200} => file_finished
    /\ state = "write" /\ mode = "DIRECT" => file_finished
    /\ state = "write" /\ file_finished => write_queue > 0

ServeInv == ResetInv /\ StampInv /\ AnswerInv

\* connection_handle_fdevent() changes one of the request's own parts: it reads, it
\* writes, or it leaves the request alone; in each case the connection is in the joblist.
LEMMA FdeventOutcome ==
    ASSUME TypeOK, CountInv, HandleFdevent
    PROVE  /\ UNCHANGED <<mode, file_started, file_finished, interest, fdwaitqueue, gateway,
                          phase, pc, entry, peer>>
           /\ state # "connect" /\ pc = "idle" /\ phase = "dispatch" /\ joblist' > 0
           /\ \/ /\ state' \in {state, "error"}
                 /\ UNCHANGED <<write_queue, missing, http_status, read_queue>>
              \/ /\ state \in {"read", "readpost"} /\ UNCHANGED write_queue
                 /\ \E readable \in BOOLEAN : HandleReadState(readable)
              \/ /\ state = "write" /\ write_queue > 0 /\ HandleWrite(joblist + 1)
                 /\ UNCHANGED <<missing, http_status, read_queue>>
           /\ state # "write" /\ is_writable => is_writable'
<1>1. joblist + 1 \in Nat /\ joblist + 1 > 0 /\ joblist \in Nat BY DEF TypeOK
<1>2. state # "connect" BY DEF HandleFdevent, CountInv, ReadyInv
<1>3. /\ UNCHANGED <<mode, file_started, file_finished, interest, fdwaitqueue, gateway,
                     phase, pc, entry, peer>>
      /\ pc = "idle" /\ phase = "dispatch"
  BY DEF HandleFdevent
<1>4. (is_readable \/ Event("IN")) \in BOOLEAN OBVIOUS
<1>5. CASE state = "write" /\ write_queue > 0 /\ HandleWrite(joblist + 1)
  <2>1. UNCHANGED <<missing, http_status, read_queue>>
    BY <1>5, Zenon DEF HandleFdevent, Drain
  <2>2. joblist' > 0 BY <1>1, <1>5, WriteGrows
  <2> QED BY <1>2, <1>3, <1>5, <2>1, <2>2
<1>6. CASE ~(state = "write" /\ write_queue > 0 /\ HandleWrite(joblist + 1))
  <2>1. joblist' = joblist + 1 BY <1>6, Zenon DEF HandleFdevent
  <2>2. joblist' > 0 BY <1>1, <2>1
  <2> QED BY <1>2, <1>3, <1>4, <1>6, <2>2, Zenon DEF HandleFdevent
<1> QED BY <1>5, <1>6

\* A response that is still in WRITE after a write waits for the traffic limit, for the
\* backend or for the socket; a finished one is never left there with an empty queue.
LEMMA WriteOutcome ==
    ASSUME TypeOK, state = "write", write_queue > 0, NEW jobs, HandleWrite(jobs)
    PROVE  /\ state' \in {"write", "respend", "error"}
           /\ state' = "write" => \/ traffic_limit_reached'
                                  \/ write_queue' = 0 /\ ~file_finished
                                  \/ write_queue' > 0 /\ ~is_writable'
           /\ state' = "write" /\ file_finished => write_queue' > 0
<1>1. CASE GlobalLimit(jobs) BY <1>1 DEF GlobalLimit
<1>2. CASE peer = "rst" /\ state' = "error" BY <1>2
<1>3. ASSUME NEW n \in 0..write_queue, write_queue' = n, is_writable' = (n = 0),
             state' = IF n = 0 /\ file_finished THEN "respend" ELSE "write"
      PROVE  /\ state' \in {"write", "respend", "error"}
             /\ state' = "write" => \/ write_queue' = 0 /\ ~file_finished
                                    \/ write_queue' > 0 /\ ~is_writable'
             /\ state' = "write" /\ file_finished => write_queue' > 0
  <2>1. CASE n = 0 BY <1>3, <2>1
  <2>2. CASE n # 0
    <3>1. n > 0 BY <2>2 DEF TypeOK
    <3> QED BY <1>3, <2>2, <3>1
  <2> QED BY <2>1, <2>2
<1> QED BY <1>1, <1>2, <1>3, Zenon DEF HandleWrite

\* Every iteration of the state machine keeps what connection_reset() has done.
LEMMA ResetStateMachine == CountInv /\ LogInv /\ ResetInv /\ StateMachine => ResetInv'
<1> SUFFICES ASSUME CountInv, LogInv, ResetInv, StateMachine PROVE ResetInv'
  OBVIOUS
<1> USE DEF ResetInv, reqvars, In, Loop
<1>1. CASE ConRequestStart BY <1>1 DEF ConRequestStart
<1>2. CASE ConRequestEnd BY <1>2 DEF ConRequestEnd
<1>3. CASE ConHandleRequest
  <2>1. state = "handlereq" /\ state' \in {"handlereq", "respstart", "error"}
    BY <1>3 DEF ConHandleRequest, AlreadyDecided, Answered, ToGateway, InGateway,
                HandlerError, HostFailed, Wait, Finished
  <2> QED BY <2>1
<1>4. CASE ConResponseStart BY <1>4 DEF ConResponseStart
<1>5. CASE ConResponseEnd BY <1>5 DEF ConResponseEnd, ConnectionReset, ShutdownOrClose
<1>6. CASE ConConnect BY <1>6 DEF ConConnect
<1>7. CASE ConClose BY <1>7 DEF ConClose
<1>8. CASE ConRead
  <2>1. state' \in {"read", "reqend", "readpost", "handlereq", "error"}
    BY <1>8, ReadOutcome DEF ConRead
  <2> QED BY <2>1
<1>9. CASE ConWrite
  <2>1. state' \in {"write", "respend", "error"}
    BY <1>9 DEF ConWrite, HandleWrite, GlobalLimit
  <2> QED BY <2>1
<1>10. CASE ConError BY <1>10 DEF ConError, ConnectionReset, ShutdownOrClose
<1> QED BY <1>1, <1>2, <1>3, <1>4, <1>5, <1>6, <1>7, <1>8, <1>9, <1>10 DEF StateMachine

\* So does the main loop: no handler brings a connection back to one of those states.
LEMMA ResetMainLoop == TypeOK /\ CountInv /\ ResetInv /\ MainLoop => ResetInv'
<1> SUFFICES ASSUME TypeOK, CountInv, ResetInv, MainLoop PROVE ResetInv'
  OBVIOUS
<1> USE DEF ResetInv, reqvars, Rest, Enter
<1>1. CASE SameSecond BY <1>1 DEF SameSecond
<1>2. CASE NewSecond
  <2>1. UNCHANGED <<write_queue, missing, mode, read_queue>> BY <1>2 DEF NewSecond
  <2>2. state' \in {state, "error"} /\ (state' = "connect" => UNCHANGED pc)
    BY <1>2 DEF NewSecond
  <2> QED BY <2>1, <2>2
<1>3. CASE FdWaitPop BY <1>3 DEF FdWaitPop
<1>4. CASE Poll BY <1>4 DEF Poll
<1>5. CASE Dispatched BY <1>5 DEF Dispatched
<1>6. CASE RunJob BY <1>6 DEF RunJob
<1>7. CASE NextRound BY <1>7 DEF NextRound
<1>8. CASE Accept BY <1>8 DEF Accept, ConnectionReset
<1>9. CASE HandleFdevent
  <2>1. CASE state' \in {state, "error"} /\ UNCHANGED <<write_queue, missing, read_queue>>
    BY <1>9, <2>1, FdeventOutcome
  <2>2. CASE state \in {"read", "readpost"} /\ \E readable : HandleReadState(readable)
    <3>1. state' \in {"read", "reqend", "readpost", "handlereq", "error"}
      BY <2>2, ReadOutcome
    <3> QED BY <3>1
  <2>3. CASE state = "write" /\ write_queue > 0 /\ HandleWrite(joblist + 1)
    <3>1. state' \in {"write", "respend", "error"} BY <2>3 DEF HandleWrite, GlobalLimit
    <3> QED BY <3>1
  <2> QED BY <1>9, <2>1, <2>2, <2>3, FdeventOutcome
<1>10. CASE Gateway
  <2>1. state \in {"handlereq", "respstart", "write", "respend", "error"}
    BY <1>10 DEF Gateway, GwEvent, GwWrite, GwRead, GwDone, GwFailed, CountInv, ReadyInv, OwnerInv
  <2>2. state' \in {state, "error", "handlereq"}
    BY <1>10 DEF Gateway, GwWrite, GwRead, GwDone, GwFailed, KillOrAnswer, AnswerWith500
  <2> QED BY <2>1, <2>2
<1> QED BY <1>1, <1>2, <1>3, <1>4, <1>5, <1>6, <1>7, <1>8, <1>9, <1>10 DEF MainLoop

\* Every iteration of the state machine leaves is_writable set until it writes.
LEMMA StampStateMachine == TypeOK /\ StampInv /\ StateMachine => StampInv'
<1> SUFFICES ASSUME TypeOK, StampInv, StateMachine PROVE StampInv'
  OBVIOUS
<1> USE DEF StampInv, iovars, In, Loop
<1>1. CASE ConRequestStart BY <1>1 DEF ConRequestStart
<1>2. CASE ConRequestEnd BY <1>2 DEF ConRequestEnd
<1>3. CASE ConHandleRequest
  <2>1. state = "handlereq" /\ state' \in {"handlereq", "respstart", "error"}
    BY <1>3 DEF ConHandleRequest, AlreadyDecided, Answered, ToGateway, InGateway,
                HandlerError, HostFailed, Wait, Finished
  <2> QED BY <1>3, <2>1 DEF ConHandleRequest
<1>4. CASE ConResponseStart
  <2>1. write_queue' \in {1, write_queue + 1, write_queue + 2} BY <1>4 DEF ConResponseStart
  <2>2. write_queue' > 0 BY <2>1 DEF TypeOK
  <2> QED BY <1>4, <2>2 DEF ConResponseStart
<1>5. CASE ConResponseEnd BY <1>5 DEF ConResponseEnd, ConnectionReset, ShutdownOrClose
<1>6. CASE ConConnect BY <1>6 DEF ConConnect
<1>7. CASE ConClose BY <1>7 DEF ConClose
<1>8. CASE ConRead
  <2>1. state' \in {"read", "reqend", "readpost", "handlereq", "error"}
    BY <1>8, ReadOutcome DEF ConRead
  <2> QED BY <1>8, <2>1 DEF ConRead
<1>9. CASE ConWrite
  <2>1. state' \in {"write", "respend", "error"}
    BY <1>9 DEF ConWrite, HandleWrite, GlobalLimit
  <2> QED BY <1>9, <2>1 DEF ConWrite
<1>10. CASE ConError BY <1>10 DEF ConError, ConnectionReset, ShutdownOrClose
<1> QED BY <1>1, <1>2, <1>3, <1>4, <1>5, <1>6, <1>7, <1>8, <1>9, <1>10 DEF StateMachine

\* So does the main loop, and a machine it starts is entered in the state it finds.
LEMMA StampMainLoop ==
    TypeOK /\ CountInv /\ GatewayInv /\ StampInv /\ MainLoop => StampInv'
<1> SUFFICES ASSUME TypeOK, CountInv, GatewayInv, StampInv, MainLoop PROVE StampInv'
  OBVIOUS
<1> USE DEF StampInv, Rest, Enter
<1>1. CASE SameSecond BY <1>1 DEF SameSecond
<1>2. CASE NewSecond BY <1>2 DEF NewSecond
<1>3. CASE FdWaitPop BY <1>3 DEF FdWaitPop
<1>4. CASE Poll BY <1>4 DEF Poll
<1>5. CASE Dispatched BY <1>5 DEF Dispatched
<1>6. CASE RunJob BY <1>6 DEF RunJob
<1>7. CASE NextRound BY <1>7 DEF NextRound
<1>8. CASE Accept BY <1>8 DEF Accept, ConnectionReset
<1>9. CASE HandleFdevent
  <2>1. pc' = "idle" BY <1>9, FdeventOutcome
  <2>2. CASE state' \in {state, "error"} BY <1>9, <2>1, <2>2, FdeventOutcome
  <2>3. CASE state \in {"read", "readpost"} BY <1>9, <2>1, <2>3, FdeventOutcome
  <2>4. CASE state = "write" /\ write_queue > 0 /\ HandleWrite(joblist + 1)
    <3>1. state' \in {"write", "respend", "error"} BY <2>4 DEF HandleWrite, GlobalLimit
    <3> QED BY <2>1, <3>1
  <2> QED BY <1>9, <2>2, <2>3, <2>4, FdeventOutcome
<1>10. CASE Gateway
  <2>1. pc' = "idle" /\ UNCHANGED is_writable
    BY <1>10 DEF Gateway, GwWrite, GwRead, GwDone, GwFailed, GwEvent, GatewayVars, iovars
  <2>2. state' \in {state, "error"} \/ (state = "handlereq" /\ state' = "handlereq")
    BY <1>10 DEF Gateway, GwWrite, GwRead, GwDone, GwFailed, GwEvent, KillOrAnswer,
                 AnswerWith500, GatewayInv
  <2> QED BY <2>1, <2>2
<1> QED BY <1>1, <1>2, <1>3, <1>4, <1>5, <1>6, <1>7, <1>8, <1>9, <1>10 DEF MainLoop

\* Every iteration of the state machine keeps what is known of the answer.
LEMMA AnswerStateMachine ==
    TypeOK /\ GatewayInv /\ AnswerInv /\ StateMachine => AnswerInv'
<1> SUFFICES ASSUME TypeOK, GatewayInv, AnswerInv, StateMachine PROVE AnswerInv'
  OBVIOUS
<1> USE DEF AnswerInv, reqvars, In, Loop
<1>1. CASE ConRequestStart BY <1>1 DEF ConRequestStart
<1>2. CASE ConRequestEnd
  <2>1. UNCHANGED <<file_started, file_finished, mode, gateway>> BY <1>2 DEF ConRequestEnd
  <2>2. state' \in {"handlereq", "readpost"} BY <1>2 DEF ConRequestEnd
  <2> QED BY <2>1, <2>2
<1>3. CASE ConHandleRequest
  <2>0. UNCHANGED file_started /\ state = "handlereq" BY <1>3 DEF ConHandleRequest
  <2>1. CASE AlreadyDecided
    <3>1. UNCHANGED <<mode, file_finished, gateway>> /\ mode = "DIRECT"
          /\ http_status \notin {0, 200} BY <2>1 DEF AlreadyDecided
    <3>2. \/ state' = "handlereq"
          \/ state' = "respstart" /\ http_status' \notin {0, 200}
      BY <2>1, <3>1 DEF AlreadyDecided, Finished
    <3> QED BY <2>0, <3>1, <3>2
  <2>2. CASE Answered
    <3>1. UNCHANGED <<mode, gateway>> /\ mode = "DIRECT" BY <2>2 DEF Answered
    <3>2. \/ state' \in {"handlereq", "respstart"} /\ file_finished' = TRUE
          \/ state' = "handlereq" /\ UNCHANGED file_finished
          \/ state' = "respstart" /\ http_status' \in {404, 500} /\ UNCHANGED file_finished
      <4>1. CASE file_finished' = TRUE /\ Finished(200) BY <4>1 DEF Finished
      <4>2. CASE \E status \in {404, 500} : Finished(status) /\ UNCHANGED file_finished
        BY <4>2 DEF Finished
      <4> QED BY ZenonT(60), <2>2, <4>1, <4>2 DEF Answered
    <3> QED BY <2>0, <3>1, <3>2
  <2>3. CASE ToGateway
    <3>1. UNCHANGED file_finished /\ mode = "DIRECT" BY <2>3 DEF ToGateway
    <3>2. \/ state' = "handlereq" /\ mode' = "DIRECT" /\ gateway' = "none"
          \/ state' = "handlereq" /\ mode' = "gateway" /\ gateway' \in {"connecting", "running"}
          \/ state' \in {"handlereq", "respstart"} /\ mode' = "DIRECT" /\ UNCHANGED gateway
             /\ (state' = "respstart" => http_status' = 500)
      BY <2>3, <3>1 DEF ToGateway, HostFailed, Wait, Finished
    <3> QED BY <2>0, <3>1, <3>2
  <2>4. CASE InGateway
    <3>1. UNCHANGED file_finished /\ mode = "gateway" BY <2>4 DEF InGateway
    <3>2. \/ state' \in {"handlereq", "respstart"} /\ mode' = "gateway" /\ UNCHANGED gateway
          \/ state' = "handlereq" /\ mode' = "gateway" /\ gateway # "none" /\ ~file_started
             /\ gateway' \in {"connecting", "running", gateway}
          \/ state' = "handlereq" /\ mode' = "DIRECT" /\ gateway = "connecting" /\ gateway' = "none"
      BY <2>4, <3>1 DEF InGateway, HostFailed, Wait, Finished
    <3> QED BY <2>0, <3>1, <3>2
  <2>5. CASE HandlerError BY <1>3, <2>5 DEF ConHandleRequest, HandlerError
  <2> QED BY <1>3, <2>1, <2>2, <2>3, <2>4, <2>5 DEF ConHandleRequest
<1>4. CASE ConResponseStart
  <2>0. /\ UNCHANGED <<file_started, mode, gateway>> /\ state = "respstart" /\ state' = "write"
        /\ file_finished' \/ (UNCHANGED file_finished /\ (mode # "DIRECT" \/ http_status \in {0, 200}))
    BY <1>4 DEF ConResponseStart
  <2>1. write_queue' \in {1, write_queue + 1, write_queue + 2} BY <1>4 DEF ConResponseStart
  <2>2. write_queue' > 0 BY <2>1 DEF TypeOK
  <2> QED BY <2>0, <2>2
<1>5. CASE ConResponseEnd BY <1>5 DEF ConResponseEnd, ConnectionReset, ShutdownOrClose
<1>6. CASE ConConnect BY <1>6 DEF ConConnect
<1>7. CASE ConClose BY <1>7 DEF ConClose
<1>8. CASE ConRead
  <2>1. state' \in {"read", "reqend", "readpost", "handlereq", "error"}
    BY <1>8, ReadOutcome DEF ConRead
  <2> QED BY <1>8, <2>1 DEF ConRead
<1>9. CASE ConWrite
  <2>0. UNCHANGED <<file_started, file_finished, mode, gateway>> /\ state = "write"
    BY <1>9 DEF ConWrite
  <2>1. CASE write_queue > 0 /\ is_writable
    <3>1. HandleWrite(joblist) BY <1>9, <2>1 DEF ConWrite
    <3> QED BY <2>0, <2>1, <3>1, WriteOutcome
  <2>2. CASE ~(write_queue > 0 /\ is_writable) BY <1>9, <2>0, <2>2 DEF ConWrite
  <2> QED BY <2>1, <2>2
<1>10. CASE ConError BY <1>10 DEF ConError, ConnectionReset, ShutdownOrClose
<1> QED BY <1>1, <1>2, <1>3, <1>4, <1>5, <1>6, <1>7, <1>8, <1>9, <1>10 DEF StateMachine

\* So does the main loop with the events of the backend.
LEMMA AnswerMainLoop ==
    TypeOK /\ CountInv /\ GatewayInv /\ AnswerInv /\ MainLoop => AnswerInv'
<1> SUFFICES ASSUME TypeOK, CountInv, GatewayInv, AnswerInv, MainLoop PROVE AnswerInv'
  OBVIOUS
<1> USE DEF AnswerInv, reqvars, Rest, Enter
<1>1. CASE SameSecond BY <1>1 DEF SameSecond
<1>2. CASE NewSecond
  <2>1. state' \in {state, "error"} BY <1>2 DEF NewSecond
  <2> QED BY <1>2, <2>1 DEF NewSecond
<1>3. CASE FdWaitPop BY <1>3 DEF FdWaitPop
<1>4. CASE Poll BY <1>4 DEF Poll
<1>5. CASE Dispatched BY <1>5 DEF Dispatched
<1>6. CASE RunJob BY <1>6 DEF RunJob
<1>7. CASE NextRound BY <1>7 DEF NextRound
<1>8. CASE Accept BY <1>8 DEF Accept, ConnectionReset
<1>9. CASE HandleFdevent
  <2>1. UNCHANGED <<mode, file_started, file_finished, gateway>> BY <1>9, FdeventOutcome
  <2>2. CASE state' \in {state, "error"} /\ UNCHANGED <<write_queue, missing, http_status, read_queue>>
    BY <2>1, <2>2
  <2>3. CASE state \in {"read", "readpost"} /\ \E readable \in BOOLEAN : HandleReadState(readable)
    <3>1. state' \in {"read", "reqend", "readpost", "handlereq", "error"}
      BY <2>3, ReadOutcome
    <3> QED BY <2>1, <3>1
  <2>4. CASE state = "write" /\ write_queue > 0 /\ HandleWrite(joblist + 1)
    BY <2>1, <2>4, WriteOutcome
  <2> QED BY <1>9, <2>2, <2>3, <2>4, FdeventOutcome
<1>10. CASE Gateway
  <2>0. state \in {"handlereq", "respstart", "write", "respend", "error"} /\ write_queue \in Nat
    BY <1>10 DEF Gateway, GwEvent, GwWrite, GwRead, GwDone, GwFailed, CountInv, ReadyInv,
                 OwnerInv, TypeOK
  <2>1. CASE GwWrite
    <3>1. state \in {"handlereq", "error"} /\ ~file_started
      BY <2>1 DEF GwWrite, GatewayInv
    <3>2. UNCHANGED <<state, file_started, file_finished>> BY <2>1 DEF GwWrite
    <3>3. \/ gateway' \in {"connecting", "running"} /\ UNCHANGED mode
          \/ gateway' = "none" /\ mode' = "DIRECT"
      BY <2>1 DEF GwWrite
    <3> QED BY <3>1, <3>2, <3>3
  <2>2. CASE GwRead
    <3>1. /\ gateway = "running" /\ mode = "gateway" /\ UNCHANGED <<state, mode>>
          /\ file_started' \in {file_started, TRUE}
      BY <2>2 DEF GwRead, GatewayInv
    <3>2. \E n \in {0, 1} :
            \/ write_queue' = write_queue + n /\ UNCHANGED <<file_finished, gateway>>
            \/ write_queue' = write_queue + n + 1 /\ file_finished' = TRUE /\ gateway' = "none"
      BY <2>2, Zenon DEF GwRead, Deliver
    <3> QED BY <2>0, <3>1, <3>2
  <2>3. CASE GwDone BY <2>0, <2>3 DEF GwDone
  <2>4. CASE GwFailed
    <3>1. UNCHANGED <<file_started, file_finished, write_queue>> /\ gateway' = "broken"
          /\ mode = "gateway"
      BY <2>4 DEF GwFailed, GatewayInv
    <3>2. \/ file_started /\ state' = "error" /\ UNCHANGED mode
          \/ ~file_started /\ state' = "handlereq" /\ mode' = "DIRECT"
      BY <2>4 DEF GwFailed, KillOrAnswer, AnswerWith500
    <3> QED BY <3>1, <3>2
  <2> QED BY <1>10, <2>1, <2>2, <2>3, <2>4 DEF Gateway
<1> QED BY <1>1, <1>2, <1>3, <1>4, <1>5, <1>6, <1>7, <1>8, <1>9, <1>10 DEF MainLoop

(***************************************************************************)
(* What connection_reset(), is_writable and file_finished say of a         *)
(* connection is true in every state.                                      *)
(***************************************************************************)
THEOREM ServeInvariant == Spec => []ServeInv
<1>1. Init => ServeInv BY DEF Init, ServeInv, ResetInv, StampInv, AnswerInv
<1>2. TypeOK /\ CountInv /\ LogInv /\ GatewayInv /\ ServeInv /\ [Next]_vars => ServeInv'
  <2> SUFFICES ASSUME TypeOK, CountInv, LogInv, GatewayInv, ServeInv, [Next]_vars
               PROVE  ServeInv'
    OBVIOUS
  <2>1. CASE UNCHANGED vars
    BY <2>1 DEF vars, ServeInv, ResetInv, StampInv, AnswerInv, reqvars, iovars
  <2>2. CASE Client
    <3>1. UNCHANGED ClientVars
      BY <2>2 DEF Client, ClientConnect, ClientReceive, ClientFinish, ClientReset,
                  ClientVanish, ClientSend
    <3> QED BY <3>1 DEF ClientVars, ServeInv, ResetInv, StampInv, AnswerInv, reqvars, iovars
  <2>3. CASE StateMachine
    BY <2>3, ResetStateMachine, StampStateMachine, AnswerStateMachine DEF ServeInv
  <2>4. CASE MainLoop
    BY <2>4, ResetMainLoop, StampMainLoop, AnswerMainLoop DEF ServeInv
  <2> QED BY <2>1, <2>2, <2>3, <2>4 DEF Next, Server
<1> QED
  BY <1>1, <1>2, TypeCorrect, CountInvariant, LogInvariant, GatewayInvariant, PTL DEF Spec

(***************************************************************************)
(* A connection object in the pool carries nothing of its last client into *)
(* the next one.                                                           *)
(***************************************************************************)
THEOREM FreeIsCleanHolds == Spec => []FreeIsClean
<1>1. CountInv /\ LogInv /\ ServeInv => FreeIsClean
  BY DEF CountInv, OwnerInv, LogInv, Serving, ServeInv, ResetInv, FreeIsClean
<1> QED BY <1>1, CountInvariant, LogInvariant, ServeInvariant, PTL

(***************************************************************************)
(* When the machine comes to rest in WRITE from another state, it has just *)
(* stamped write_request_ts.                                               *)
(***************************************************************************)
THEOREM FreshWriteStampHolds == Spec => FreshWriteStamp
<1> DEFINE Step == pc = "machine" /\ pc' = "idle" /\ state' = "write" /\ entry # "write"
                   => write_idle' = 0
<1>1. ServeInv /\ [Next]_vars => [Step]_vars
  <2> SUFFICES ASSUME ServeInv, Next, pc = "machine", pc' = "idle", state' = "write",
                      entry # "write"
               PROVE  write_idle' = 0
    BY DEF vars
  <2>1. CASE Client
    BY <2>1 DEF Client, ClientConnect, ClientReceive, ClientFinish, ClientReset,
                ClientVanish, ClientSend, ClientVars
  <2>2. CASE MainLoop
    BY <2>2 DEF MainLoop, SameSecond, NewSecond, FdWaitPop, Poll, Dispatched, RunJob,
                NextRound, Accept, HandleFdevent, Gateway, GwWrite, GwRead, GwDone,
                GwFailed, GwEvent
  <2>3. CASE StateMachine
    <3>1. state = "write"
      BY <2>3 DEF StateMachine, ConRequestStart, ConRequestEnd, ConHandleRequest,
                  ConResponseStart, ConResponseEnd, ConConnect, ConClose, ConRead, ConWrite,
                  ConError, AlreadyDecided, Answered, ToGateway, InGateway, HandlerError,
                  HostFailed, Wait, Finished, Loop
    <3>2. ConWrite
      BY <2>3, <3>1 DEF StateMachine, ConRequestStart, ConRequestEnd, ConHandleRequest,
                  ConResponseStart, ConResponseEnd, ConConnect, ConClose, ConRead,
                  ConError, In
    <3>3. write_queue > 0 /\ is_writable BY <3>1 DEF ServeInv, StampInv
    <3> QED BY <3>2, <3>3 DEF ConWrite, StampWrite
  <2> QED BY <2>1, <2>2, <2>3 DEF Next, Server
<1> QED BY <1>1, ServeInvariant, PTL DEF Spec, FreshWriteStamp

-----------------------------------------------------------------------------
(***************************************************************************)
(* The inductive invariant behind "nobody is forgotten".  Every stop of    *)
(* the machine leaves a connection that somebody will run again; whatever  *)
(* changes that behind its back puts the connection into the joblist; and  *)
(* the joblist is empty when the main loop begins its next round.          *)
(***************************************************************************)
Settled ==
    /\ state \in {"connect", "read", "readpost", "handlereq", "write", "close"}
    /\ state \in {"read", "readpost", "close"} => interest = "IN"
    /\ state = "write" => \/ interest = "OUT" \/ traffic_limit_reached
                         \/ gateway \in {"running", "broken"}
    /\ state = "handlereq" => gateway # "none" \/ fdwaitqueue > 0

RestInv ==
    /\ phase = "trigger" => pc = "idle" /\ joblist = 0
    /\ pc = "idle" /\ joblist = 0 => Settled

(***************************************************************************)
(* Whoever reads for a connection looks at all that has been read: in READ *)
(* for the end of a header, in READ_POST for content.                      *)
(***************************************************************************)
QueueInv ==
    pc = "idle" => /\ state = "read" => ~Terminated(read_queue)
                   /\ state = "readpost" => read_queue = <<>> /\ missing > 0

\* The machine stops only in a state in which somebody will start it again.
LEMMA RestStateMachine ==
    TypeOK /\ CountInv /\ GatewayInv /\ AnswerInv /\ RestInv /\ StateMachine => RestInv'
<1> SUFFICES ASSUME TypeOK, CountInv, GatewayInv, AnswerInv, RestInv, StateMachine
             PROVE  RestInv'
  OBVIOUS
<1>1. pc = "machine" /\ UNCHANGED phase
  BY DEF StateMachine, ConRequestStart, ConRequestEnd, ConHandleRequest, ConResponseStart,
         ConResponseEnd, ConConnect, ConClose, ConRead, ConWrite, ConError, In, loopvars
<1>2. phase' # "trigger" BY <1>1 DEF RestInv
<1> SUFFICES ASSUME pc' = "idle" PROVE Settled'
  BY <1>2 DEF RestInv
<1> USE DEF Settled, In, Loop, WantedInterest
<1>3. CASE ConRequestStart BY <1>3 DEF ConRequestStart
<1>4. CASE ConRequestEnd BY <1>4 DEF ConRequestEnd
<1>5. CASE ConHandleRequest
  <2>1. CASE AlreadyDecided BY <1>5, <2>1 DEF ConHandleRequest, AlreadyDecided, Finished
  <2>2. CASE Answered BY <1>5, <2>2 DEF ConHandleRequest, Answered, Finished
  <2>3. CASE HandlerError BY <1>5, <2>3 DEF ConHandleRequest, HandlerError
  <2>4. ASSUME NEW s, Finished(s) PROVE FALSE BY <1>5, <2>4 DEF ConHandleRequest, Finished
  <2>5. CASE ToGateway \/ InGateway
    <3>1. state' = "handlereq" /\ (gateway' # "none" \/ fdwaitqueue' = fdwaitqueue + 1)
      BY <2>4, <2>5 DEF ToGateway, InGateway, HostFailed, Wait
    <3> QED BY <3>1 DEF TypeOK
  <2> QED BY <1>5, <2>1, <2>2, <2>3, <2>5 DEF ConHandleRequest
<1>6. CASE ConResponseStart BY <1>6 DEF ConResponseStart
<1>7. CASE ConResponseEnd BY <1>7 DEF ConResponseEnd, ShutdownOrClose
<1>8. CASE ConConnect BY <1>8 DEF ConConnect
<1>9. CASE ConClose BY <1>9 DEF ConClose
<1>10. CASE ConRead BY <1>10 DEF ConRead
<1>11. CASE ConWrite
  <2>0. state = "write" /\ state' = "write" /\ UNCHANGED <<file_finished, mode, gateway>>
        /\ interest' = WantedInterest'
    BY <1>11 DEF ConWrite, reqvars
  <2>1. ~file_finished => gateway \in {"running", "broken"}
    BY <2>0 DEF AnswerInv, GatewayInv, TypeOK
  <2>2. CASE write_queue > 0 /\ is_writable
    <3>1. HandleWrite(joblist) BY <1>11, <2>2 DEF ConWrite
    <3>2. \/ traffic_limit_reached' \/ ~file_finished
          \/ write_queue' > 0 /\ ~is_writable'
      BY <2>0, <2>2, <3>1, WriteOutcome
    <3> QED BY <2>0, <2>1, <3>2
  <2>3. CASE ~(write_queue > 0 /\ is_writable)
    <3>1. UNCHANGED <<write_queue, is_writable, traffic_limit_reached>>
      BY <1>11, <2>3 DEF ConWrite
    <3>2. write_queue > 0 \/ ~file_finished BY <2>0 DEF AnswerInv
    <3> QED BY <2>0, <2>1, <2>3, <3>1, <3>2
  <2> QED BY <2>2, <2>3
<1>12. CASE ConError BY <1>12 DEF ConError, ShutdownOrClose
<1> QED
  BY <1>3, <1>4, <1>5, <1>6, <1>7, <1>8, <1>9, <1>10, <1>11, <1>12 DEF StateMachine

\* The main loop starts the machine when it changes who will run it, and a handler puts
\* the connection into the joblist when it does.
LEMMA RestMainLoop ==
    TypeOK /\ CountInv /\ RestInv /\ MainLoop => RestInv'
<1> SUFFICES ASSUME TypeOK, CountInv, RestInv, MainLoop PROVE RestInv'
  OBVIOUS
<1>0. joblist \in Nat BY DEF TypeOK
<1> USE DEF RestInv, Settled, Rest, Enter
<1>1. CASE SameSecond BY <1>1 DEF SameSecond
<1>2. CASE NewSecond
  <2>1. UNCHANGED <<interest, gateway, fdwaitqueue, joblist>> /\ phase' = "fdwait" /\ pc = "idle"
    BY <1>2 DEF NewSecond
  <2>2. pc' = "machine" \/ UNCHANGED <<state, traffic_limit_reached>>
    BY <1>2 DEF NewSecond, LimitLifted
  <2>3. CASE pc' = "machine" BY <2>1, <2>3
  <2>4. CASE UNCHANGED <<state, traffic_limit_reached>> BY <2>1, <2>4
  <2> QED BY <2>2, <2>3, <2>4
<1>3. CASE FdWaitPop BY <1>3 DEF FdWaitPop, loopvars
<1>4. CASE Poll BY <1>4 DEF Poll
<1>5. CASE Dispatched BY <1>5 DEF Dispatched
<1>6. CASE RunJob BY <1>6 DEF RunJob, loopvars
<1>7. CASE NextRound BY <1>7 DEF NextRound
<1>8. CASE Accept BY <1>8 DEF Accept
<1>9. CASE HandleFdevent
  <2>1. joblist' > 0 /\ phase' = "dispatch" BY <1>9, FdeventOutcome
  <2> QED BY <2>1
<1>10. CASE Gateway
  <2>1. pc' = "idle" /\ phase' = "dispatch" /\ UNCHANGED <<interest, traffic_limit_reached, fdwaitqueue>>
        /\ pc = "idle"
    BY <1>10 DEF Gateway, GwWrite, GwRead, GwDone, GwFailed, GwEvent, GatewayVars, iovars
  <2>2. \/ joblist' \in {joblist + 1, joblist + 2}
        \/ UNCHANGED <<joblist, state, gateway>>
        \/ /\ UNCHANGED <<joblist, state>> /\ gateway = "connecting"
           /\ gateway' \in {"connecting", "running"}
    <3>1. CASE GwWrite BY <3>1 DEF GwWrite
    <3>2. CASE GwRead
      <4>1. CASE Deliver(0) BY <1>0, <3>2, <4>1 DEF GwRead, Deliver
      <4>2. CASE Deliver(1) BY <1>0, <3>2, <4>2 DEF GwRead, Deliver
      <4> QED BY <3>2, <4>1, <4>2 DEF GwRead
    <3>3. CASE GwDone BY <3>3 DEF GwDone
    <3>4. CASE GwFailed BY <3>4 DEF GwFailed
    <3> QED BY <1>10, <3>1, <3>2, <3>3, <3>4 DEF Gateway
  <2>3. CASE joblist' \in {joblist + 1, joblist + 2}
    <3>1. joblist' # 0 BY <1>0, <2>3
    <3> QED BY <2>1, <3>1
  <2>4. CASE UNCHANGED <<joblist, state, gateway>> BY <2>1, <2>4
  <2>5. CASE /\ UNCHANGED <<joblist, state>> /\ gateway = "connecting"
             /\ gateway' \in {"connecting", "running"}
    BY <2>1, <2>5
  <2> QED BY <2>2, <2>3, <2>4, <2>5
<1> QED BY <1>1, <1>2, <1>3, <1>4, <1>5, <1>6, <1>7, <1>8, <1>9, <1>10 DEF MainLoop

\* connection_handle_read_state() leaves a request in READ only without the end of its
\* header, and in READ_POST only when it has taken all that was there.
LEMMA ReadRest ==
    ASSUME TypeOK, state \in {"read", "readpost"}, NEW readable, HandleReadState(readable)
    PROVE  /\ state' = "read" => ~Terminated(read_queue')
           /\ state' = "readpost" => read_queue' = <<>> /\ missing' > 0
<1>0. read_queue \in Seq(Units) /\ rx \in Seq(Units) /\ missing \in Nat BY DEF TypeOK
<1>1. ASSUME NEW q, NEW closed, ScanHeader(q, closed)
      PROVE  state' # "readpost" /\ (state' = "read" => ~Terminated(read_queue'))
  BY <1>1 DEF ScanHeader, Terminated
<1>2. ASSUME NEW q \in Seq(Units), NEW closed, StoreContent(q, closed)
      PROVE  state' # "read" /\ (state' = "readpost" => read_queue' = <<>> /\ missing' > 0)
  <2> DEFINE n == IF Len(q) < missing THEN Len(q) ELSE missing
  <2>1. state' # "read" BY <1>2 DEF StoreContent
  <2>2. SUFFICES ASSUME state' = "readpost" PROVE read_queue' = <<>> /\ missing' > 0
    BY <2>1
  <2>3. read_queue' = From(q, n) /\ missing' = missing - n /\ missing # n
    BY <1>2, <2>2 DEF StoreContent
  <2>4. n = Len(q) /\ n < missing /\ n \in Nat BY <1>0, <2>3
  <2>5. read_queue' = SubSeq(q, Len(q) + 1, Len(q)) BY <2>3, <2>4 DEF From
  <2>6. read_queue' = <<>> BY <2>4, <2>5
  <2> QED BY <1>0, <2>3, <2>4, <2>6
<1>3. CASE state' = "error" BY <1>3
<1>4. ASSUME NEW n \in 0..Len(rx), NEW q, NEW closed, q = read_queue \o SubSeq(rx, 1, n),
             ScanHeader(q, closed) \/ StoreContent(q, closed)
      PROVE  /\ state' = "read" => ~Terminated(read_queue')
             /\ state' = "readpost" => read_queue' = <<>> /\ missing' > 0
  <2>1. q \in Seq(Units) BY <1>0, <1>4, FromType, ConcatProperties
  <2> QED BY <1>1, <1>2, <1>4, <2>1
<1> QED BY <1>3, <1>4 DEF HandleReadState

\* Every stop of the machine leaves nothing unread behind.
LEMMA QueueStateMachine == TypeOK /\ StateMachine => QueueInv'
<1> SUFFICES ASSUME TypeOK, StateMachine, pc' = "idle"
             PROVE  /\ state' = "read" => ~Terminated(read_queue')
                    /\ state' = "readpost" => read_queue' = <<>> /\ missing' > 0
  BY DEF QueueInv
<1> USE DEF In, Loop
<1>1. CASE ConRead BY <1>1, ReadRest DEF ConRead
<1>2. CASE ~ConRead
  <2>1. state' \notin {"read", "readpost"}
    BY ZenonT(60), <1>2 DEF StateMachine, ConRequestStart, ConRequestEnd, ConHandleRequest,
                ConResponseStart, ConResponseEnd, ConConnect, ConClose, ConWrite, ConError,
                AlreadyDecided, Answered, ToGateway, InGateway, HandlerError, HostFailed,
                Wait, Finished, HandleWrite, GlobalLimit, ShutdownOrClose
  <2> QED BY <2>1
<1> QED BY <1>1, <1>2

\* No handler but the one that reads changes what has been read.
LEMMA QueueMainLoop == TypeOK /\ CountInv /\ QueueInv /\ MainLoop => QueueInv'
<1> SUFFICES ASSUME TypeOK, CountInv, QueueInv, MainLoop PROVE QueueInv'
  OBVIOUS
<1> USE DEF QueueInv, Rest, Enter
<1>1. CASE SameSecond BY <1>1 DEF SameSecond
<1>2. CASE NewSecond
  <2>1. UNCHANGED <<read_queue, missing>> /\ state' \in {state, "error"} /\ pc = "idle"
    BY <1>2 DEF NewSecond
  <2> QED BY <2>1
<1>3. CASE FdWaitPop BY <1>3 DEF FdWaitPop
<1>4. CASE Poll BY <1>4 DEF Poll
<1>5. CASE Dispatched BY <1>5 DEF Dispatched
<1>6. CASE RunJob BY <1>6 DEF RunJob
<1>7. CASE NextRound BY <1>7 DEF NextRound
<1>8. CASE Accept BY <1>8 DEF Accept
<1>9. CASE HandleFdevent
  <2>0. pc = "idle" BY <1>9 DEF HandleFdevent
  <2>1. CASE state' \in {state, "error"} /\ UNCHANGED <<missing, read_queue>>
    BY <2>0, <2>1
  <2>2. CASE state \in {"read", "readpost"} /\ \E readable \in BOOLEAN : HandleReadState(readable)
    BY <2>2, ReadRest
  <2>3. CASE state = "write" /\ HandleWrite(joblist + 1)
    <3>1. state' \in {"write", "respend", "error"} BY <2>3 DEF HandleWrite, GlobalLimit
    <3> QED BY <3>1
  <2> QED BY <1>9, <2>1, <2>2, <2>3, FdeventOutcome
<1>10. CASE Gateway
  <2>1. UNCHANGED <<read_queue, missing>> /\ state' \in {state, "error", "handlereq"} /\ pc = "idle"
    BY <1>10 DEF Gateway, GwWrite, GwRead, GwDone, GwFailed, GwEvent, GatewayVars,
                 KillOrAnswer, AnswerWith500
  <2> QED BY <2>1
<1> QED BY <1>1, <1>2, <1>3, <1>4, <1>5, <1>6, <1>7, <1>8, <1>9, <1>10 DEF MainLoop

(***************************************************************************)
(* A machine that is not running and has no entry in the joblist left its  *)
(* connection in good hands, with nothing unread.                          *)
(***************************************************************************)
THEOREM RestInvariant == Spec => [](RestInv /\ QueueInv)
<1>1. Init => RestInv /\ QueueInv BY DEF Init, RestInv, Settled, QueueInv
<1>2. TypeOK /\ CountInv /\ GatewayInv /\ ServeInv /\ (RestInv /\ QueueInv) /\ [Next]_vars
      => (RestInv /\ QueueInv)'
  <2> SUFFICES ASSUME TypeOK, CountInv, GatewayInv, ServeInv, RestInv, QueueInv, [Next]_vars
               PROVE  RestInv' /\ QueueInv'
    OBVIOUS
  <2>1. CASE UNCHANGED vars
    BY <2>1 DEF vars, RestInv, Settled, QueueInv, loopvars, iovars, Terminated, HeaderEnds
  <2>2. CASE Client
    <3>1. UNCHANGED ClientVars
      BY <2>2 DEF Client, ClientConnect, ClientReceive, ClientFinish, ClientReset,
                  ClientVanish, ClientSend
    <3> QED BY <3>1 DEF ClientVars, RestInv, Settled, QueueInv, loopvars, iovars,
                        Terminated, HeaderEnds
  <2>3. CASE StateMachine
    BY <2>3, RestStateMachine, QueueStateMachine DEF ServeInv
  <2>4. CASE MainLoop BY <2>4, RestMainLoop, QueueMainLoop
  <2> QED BY <2>1, <2>2, <2>3, <2>4 DEF Next, Server
<1> QED BY <1>1, <1>2, TypeCorrect, CountInvariant, GatewayInvariant, ServeInvariant, PTL
        DEF Spec

\* A queue without a first end has no end at all.
LEMMA NoEnd ==
    ASSUME NEW q \in Seq(Units), ~Terminated(q)
    PROVE  \A i \in 1..Len(q) : q[i] # "end"
<1> DEFINE Ends == {i \in 1..Len(q) : q[i] = "end"}
<1>1. SUFFICES ASSUME Ends # {} PROVE FALSE
  OBVIOUS
<1>2. Ends \subseteq Nat OBVIOUS
<1>3. PICK n \in Ends : \A m \in Nat : <<m, n>> \in OpToRel(<, Nat) => m \notin Ends
  BY <1>1, <1>2, NatLessThanWellFounded, WFMin
<1>4. \A i \in 1..(n - 1) : i \in 1..Len(q) /\ i < n /\ i \in Nat
  BY <1>2
<1>5. \A i \in 1..(n - 1) : i \notin Ends
  BY <1>2, <1>3, <1>4 DEF OpToRel
<1>6. HeaderEnds(q, n) BY <1>4, <1>5 DEF HeaderEnds
<1> QED BY <1>6 DEF Terminated

(***************************************************************************)
(* Nobody waits for something that will not come.                          *)
(***************************************************************************)
THEOREM NobodyForgottenHolds == Spec => []NobodyForgotten
<1>1. TypeOK /\ RestInv /\ QueueInv => NobodyForgotten
  <2> SUFFICES ASSUME TypeOK, RestInv, QueueInv, AtRest
               PROVE  /\ Settled
                      /\ state = "read" => \A i \in 1..Len(read_queue) : read_queue[i] # "end"
                      /\ state = "readpost" => read_queue = <<>> /\ missing > 0
    BY DEF NobodyForgotten, Awake, PipelinedServed, Settled
  <2>1. Settled BY DEF RestInv, AtRest
  <2>2. read_queue \in Seq(Units) BY DEF TypeOK
  <2>3. state = "read" => \A i \in 1..Len(read_queue) : read_queue[i] # "end"
    BY <2>2, NoEnd DEF QueueInv, AtRest
  <2> QED BY <2>1, <2>3 DEF QueueInv, AtRest
<1> QED BY <1>1, TypeCorrect, RestInvariant, PTL

-----------------------------------------------------------------------------
(***************************************************************************)
(* The write queue.  A chunk is one of memory, or a range of a file; its   *)
(* window is mapped by network_writev.c only.  The place it has come to is *)
(* in this window, which is a whole one unless it ends where the range     *)
(* does.                                                                   *)
(***************************************************************************)
Values == {"mem", "file"} \X Int
Windowed(c) ==
    LET end == c.map.offset + c.map.length
    IN  /\ c.type = "file"
        /\ c.start + c.offset <= end /\ end <= c.start + Len(c.data)
        /\ c.map.length = Window \/ end = c.start + Len(c.data)
Pieces(b) ==
    {c \in [type : {"mem", "file"}, data : Seq(Values), start : 0..FileSize, offset : Nat,
            map : [offset : Int, length : Int, mapped : BOOLEAN]] :
        /\ c.offset <= Len(c.data)
        /\ c.map.mapped => b = "writev" /\ Windowed(c)
        /\ b = "writev" /\ c.type = "file" /\ ~c.map.mapped => c.offset = 0}
Content == Seq(Values)

LEMMA LeftContent ==
    ASSUME NEW b, NEW c \in Pieces(b)
    PROVE  /\ K!Left(c) \in Content /\ K!ToSend(c) = Len(c.data) - c.offset /\ K!ToSend(c) \in Nat
           /\ Len(K!Left(c)) = K!ToSend(c) /\ (K!Finished(c) <=> K!Left(c) = <<>>)
<1>1. c.data \in Seq(Values) /\ c.offset \in Nat /\ c.offset <= Len(c.data) BY DEF Pieces
<1>2. Len(c.data) \in Nat /\ \A i \in 1..Len(c.data) : c.data[i] \in Values BY <1>1, LenProperties, ElementOfSeq
<1> DEFINE data == c.data
           m == c.offset + 1
           n == Len(data)
<1>3. /\ SubSeq(data, m, n) \in Seq(Values) /\ Len(SubSeq(data, m, n)) = IF m <= n THEN n - m + 1 ELSE 0
    <2>1. m \in Int /\ n \in Int /\ \A i \in m..n : data[i] \in Values BY <1>1, <1>2
    <2> HIDE DEF m, n, data
    <2> QED BY <2>1, SubSeqProperties
<1>4. K!Left(c) = SubSeq(data, m, n) BY DEF K!Left, K!Length
<1>5. K!ToSend(c) = n - c.offset BY DEF K!ToSend, K!Length
<1>6. Len(K!Left(c)) = K!ToSend(c) BY <1>1, <1>2, <1>3, <1>4, <1>5
<1>7. K!Left(c) = <<>> <=> Len(K!Left(c)) = 0 BY <1>3, <1>4, EmptySeq
<1> QED BY <1>1, <1>2, <1>3, <1>4, <1>5, <1>6, <1>7 DEF Content, K!Finished

\* what is so of 0, and of n if of n - 1, is so of all
LEMMA AllNumbers ==
    ASSUME NEW N \in Nat, NEW B, 0 \in B, \A n \in 1..N : n - 1 \in B => n \in B
    PROVE  \A n \in 0..N : n \in B
<1> DEFINE Bad == {n \in 0..N : n \notin B}
<1>1. ASSUME Bad # {} PROVE FALSE
    <2>1. PICK m \in Bad : \A n \in Bad : m <= n
        <3>1. Bad \in SUBSET (0..N) OBVIOUS
        <3> HIDE DEF Bad
        <3> QED BY <1>1, <3>1, LeastNumber
    <2>2. m \in 1..N /\ m - 1 \in 0..N /\ ~(m <= m - 1) BY <2>1
    <2> QED BY <2>1, <2>2
<1> QED BY <1>1

(***************************************************************************)
(* What is left of a queue, chunk after chunk.                             *)
(***************************************************************************)
Walk(f, q) ==
    /\ Len(q) \in Nat /\ f[0] = <<>> /\ K!Rest(q) = f[Len(q)]
    /\ \A k \in 0..Len(q) : f[k] \in Content
    /\ \A k \in 1..Len(q) : K!Left(q[k]) \in Content /\ f[k] = f[k - 1] \o K!Left(q[k])

LEMMA Walks ==
    ASSUME NEW b, NEW q \in Seq(Pieces(b))
    PROVE  /\ K!Rest(q) \in Content
           /\ \E f : Walk(f, q)
<1> DEFINE N == Len(q)
           T == [x \in Content \X (1..N) |-> x[1] \o K!Left(q[x[2]])]
           rest == CHOOSE f : f = [k \in 0..N |-> IF k = 0 THEN <<>> ELSE f[k - 1] \o K!Left(q[k])]
<1>1. N \in Nat /\ <<>> \in Content /\ \A k \in 1..N : K!Left(q[k]) \in Content
    <2>1. \A k \in 1..N : q[k] \in Pieces(b) BY ElementOfSeq
    <2> QED BY <2>1, LenProperties, LeftContent DEF Content
<1>2. T \in [Content \X (1..N) -> Content]
    <2> SUFFICES ASSUME NEW s \in Content, NEW k \in 1..N PROVE s \o K!Left(q[k]) \in Content OBVIOUS
    <2> DEFINE t == K!Left(q[k])
    <2>1. t \in Seq(Values) /\ s \in Seq(Values) BY <1>1 DEF Content
    <2> HIDE DEF t
    <2>2. s \o t \in Seq(Values) BY <2>1
    <2> QED BY <2>2 DEF Content, t
<1>3. PICK f \in [0..N -> Content] : Steps(f, N, <<>>, T)
    <2> HIDE DEF T, N
    <2> QED BY <1>1, <1>2, StepsExist
<1>4. ASSUME NEW k \in 1..N PROVE k - 1 \in 0..N /\ k \in 0..N /\ f[k] = f[k - 1] \o K!Left(q[k])
    <2>1. k - 1 \in 0..N /\ k \in 0..N BY <1>1
    <2>2. f[k] = T[<<f[k - 1], k>>] BY <1>3 DEF Steps
    <2>3. f[k - 1] \in Content BY <1>3, <2>1
    <2> QED BY <2>1, <2>2, <2>3
<1>5. f[0] = <<>> BY <1>3 DEF Steps
<1>6. f = [k \in 0..N |-> IF k = 0 THEN <<>> ELSE f[k - 1] \o K!Left(q[k])]
    <2>1. ASSUME NEW k \in 0..N PROVE f[k] = IF k = 0 THEN <<>> ELSE f[k - 1] \o K!Left(q[k])
        <3>1. CASE k = 0 BY <1>5, <3>1
        <3>2. CASE k # 0 BY ONLY <1>1, <1>4, <3>2
        <3> QED BY <3>1, <3>2
    <2> QED BY <2>1
<1>7. rest = [k \in 0..N |-> IF k = 0 THEN <<>> ELSE rest[k - 1] \o K!Left(q[k])] BY <1>6
<1> HIDE DEF rest, T
<1>8. K!Rest(q) = rest[N] BY DEF K!Rest, rest
<1>9. rest[0] = <<>> BY <1>1, <1>7
<1>10. \A k \in 1..N : rest[k] = rest[k - 1] \o K!Left(q[k])
    <2> TAKE k \in 1..N
    <2>1. k \in 0..N /\ k # 0 BY <1>1
    <2> QED BY <1>7, <2>1
<1>11. \A k \in 0..N : rest[k] = f[k]
    <2> DEFINE B == {k \in 0..N : rest[k] = f[k]}
    <2>1. 0 \in B BY <1>1, <1>5, <1>9
    <2>2. \A k \in 1..N : k - 1 \in B => k \in B BY <1>4, <1>10
    <2>3. \A k \in 0..N : k \in B
        <3> HIDE DEF B, N
        <3> QED BY <1>1, <2>1, <2>2, AllNumbers
    <2> QED BY <2>3
<1>12. K!Rest(q) = f[N] /\ f[N] \in Content BY <1>1, <1>3, <1>8, <1>11
<1>13. Walk(f, q) BY <1>1, <1>3, <1>4, <1>5, <1>12 DEF Walk
<1> QED BY <1>12, <1>13

\* Three contents in a row read the same however they are grouped.
Regrouped(s, t, u) == (s \o t) \o u = s \o (t \o u)

LEMMA Regroup ==
    ASSUME NEW s \in Seq(Values), NEW t \in Seq(Values), NEW u \in Seq(Values)
    PROVE  Regrouped(s, t, u)
BY ConcatAssociative DEF Regrouped

\* what is in front of chunk i was sent; "moved" is sent of it now
LEMMA RestMoved ==
    ASSUME NEW b, NEW q \in Seq(Pieces(b)), NEW r \in Seq(Pieces(b)), Len(q) = Len(r),
           NEW i \in 1..Len(q), NEW moved \in Content,
           \A j \in 1..(i - 1) : K!Left(q[j]) = <<>> /\ K!Left(r[j]) = <<>>,
           K!Left(q[i]) = moved \o K!Left(r[i]),
           \A j \in (i + 1)..Len(q) : K!Left(q[j]) = K!Left(r[j])
    PROVE  K!Rest(q) = moved \o K!Rest(r)
<1> DEFINE N == Len(q)
<1>2. PICK f : Walk(f, q) BY Walks
<1>3. PICK g : Walk(g, r) BY Walks
<1>1. N \in Nat /\ \A k \in 1..N : K!Left(q[k]) \in Content /\ K!Left(r[k]) \in Content BY <1>2, <1>3 DEF Walk
<1>4. /\ f[0] = <<>> /\ g[0] = <<>> /\ K!Rest(q) = f[N] /\ K!Rest(r) = g[N]
      /\ \A k \in 0..N : f[k] \in Content /\ g[k] \in Content
      /\ \A k \in 1..N : f[k] = f[k - 1] \o K!Left(q[k]) /\ g[k] = g[k - 1] \o K!Left(r[k])
    BY <1>2, <1>3 DEF Walk
<1> DEFINE B == {k \in 0..N : IF k < i THEN f[k] = <<>> /\ g[k] = <<>> ELSE f[k] = moved \o g[k]}
<1>5. 0 \in B BY <1>1, <1>4
<1>6. ASSUME NEW k \in 1..N, k - 1 \in B PROVE k \in B
    <2>1. k - 1 \in 0..N /\ k \in 0..N BY <1>1
    <2> DEFINE s == K!Left(q[k])  t == K!Left(r[k])
    <2>2. s \in Seq(Values) /\ t \in Seq(Values) /\ f[k] = f[k - 1] \o s /\ g[k] = g[k - 1] \o t
        BY <1>1, <1>4 DEF Content
    <2>3. CASE k < i
        <3>1. k \in 1..(i - 1) /\ k - 1 < i BY <2>1, <2>3
        <3>2. s = <<>> /\ t = <<>> /\ f[k - 1] = <<>> /\ g[k - 1] = <<>> BY <1>6, <3>1
        <3>3. f[k] = <<>> \o <<>> /\ g[k] = <<>> \o <<>> BY <2>2, <3>2
        <3>4. <<>> \o <<>> = <<>> OBVIOUS
        <3> QED BY <2>1, <2>3, <3>3, <3>4
    <2>4. CASE k = i
        <3>1. k - 1 < i BY <2>1, <2>4
        <3>2. f[k - 1] = <<>> /\ g[k - 1] = <<>> BY <1>6, <3>1
        <3>3. s = moved \o t BY <2>4
        <3> HIDE DEF s, t
        <3>4. f[k] = s /\ g[k] = t BY <2>2, <3>2, ConcatEmptySeq
        <3>5. ~(k < i) /\ f[k] = moved \o g[k] BY <2>4, <3>3, <3>4
        <3> QED BY <2>1, <3>5
    <2>5. CASE k > i
        <3>1. ~(k - 1 < i) /\ k \in (i + 1)..N BY <2>1, <2>5
        <3>2. f[k - 1] = moved \o g[k - 1] /\ s = t BY <1>6, <3>1
        <3> DEFINE u == g[k - 1]
        <3>3. u \in Seq(Values) /\ moved \in Seq(Values) BY <1>4, <2>1 DEF Content
        <3> HIDE DEF s, t
        <3>4. f[k] = (moved \o u) \o t /\ g[k] = u \o t BY <2>2, <3>2
        <3> HIDE DEF u
        <3>5. t \in Seq(Values) BY <2>2
        <3>8. Regrouped(moved, u, t) BY ONLY <3>3, <3>5, Regroup
        <3>6. (moved \o u) \o t = moved \o (u \o t) BY ONLY <3>8 DEF Regrouped
        <3>7. ~(k < i) /\ f[k] = moved \o g[k]
            <4>1. ~(k < i) BY <2>5, <1>1
            <4>2. f[k] = moved \o g[k] BY ONLY <3>4, <3>6 DEF u
            <4> QED BY <4>1, <4>2
        <3> QED BY <2>1, <3>7
    <2> QED BY <2>1, <2>3, <2>4, <2>5
<1>7. \A k \in 0..N : k \in B
    <2> HIDE DEF B, N
    <2> QED BY <1>1, <1>5, <1>6, AllNumbers
<1>8. N \in B /\ ~(N < i) BY <1>1, <1>7
<1> QED BY <1>4, <1>8

\* chunks of which nothing is left
LEMMA RestEmpty ==
    ASSUME NEW b, NEW q \in Seq(Pieces(b)), \A j \in 1..Len(q) : K!Left(q[j]) = <<>>
    PROVE  K!Rest(q) = <<>>
<1> DEFINE N == Len(q)
<1>1. PICK f : Walk(f, q) BY Walks
<1>2. N \in Nat /\ f[0] = <<>> /\ K!Rest(q) = f[N] /\ \A k \in 1..N : f[k] = f[k - 1] \o <<>> BY <1>1 DEF Walk
<1> DEFINE B == {k \in 0..N : f[k] = <<>>}
<1>3. 0 \in B BY <1>2
<1>4. ASSUME NEW k \in 1..N, k - 1 \in B PROVE k \in B
    <2>1. k \in 0..N BY <1>2
    <2>2. f[k] = <<>> \o <<>> BY <1>2, <1>4
    <2>3. <<>> \o <<>> = <<>> OBVIOUS
    <2> QED BY <2>1, <2>2, <2>3
<1>5. \A k \in 0..N : k \in B
    <2> HIDE DEF B, N
    <2> QED BY <1>2, <1>3, <1>4, AllNumbers
<1> QED BY <1>2, <1>5

LEMMA RestAppend ==
    ASSUME NEW b, NEW q \in Seq(Pieces(b)), NEW c \in Pieces(b)
    PROVE  Append(q, c) \in Seq(Pieces(b)) /\ K!Rest(Append(q, c)) = K!Rest(q) \o K!Left(c)
<1> DEFINE r == Append(q, c)
           N == Len(q)
<1>1. r \in Seq(Pieces(b)) /\ Len(r) = N + 1 /\ r[N + 1] = c /\ \A k \in 1..N : r[k] = q[k] BY AppendProperties
<1>2. PICK f : Walk(f, q) BY Walks
<1> HIDE DEF r
<1>3. PICK g : Walk(g, r) BY <1>1, Walks
<1>4. /\ N \in Nat /\ f[0] = <<>> /\ K!Rest(q) = f[N] /\ \A k \in 1..N : f[k] = f[k - 1] \o K!Left(q[k])
    BY <1>2 DEF Walk
<1>5. /\ g[0] = <<>> /\ K!Rest(r) = g[N + 1] /\ \A k \in 1..N + 1 : g[k] = g[k - 1] \o K!Left(r[k])
    BY <1>1, <1>3 DEF Walk
<1> DEFINE B == {k \in 0..N : f[k] = g[k]}
<1>6. 0 \in B BY <1>4, <1>5
<1>7. ASSUME NEW k \in 1..N, k - 1 \in B PROVE k \in B
    <2>1. k \in 0..N /\ k \in 1..N + 1 BY <1>4
    <2> QED BY <1>1, <1>4, <1>5, <1>7, <2>1
<1>8. \A k \in 0..N : k \in B
    <2> HIDE DEF B, N
    <2> QED BY <1>4, <1>6, <1>7, AllNumbers
<1>9. N \in 0..N /\ N + 1 \in 1..N + 1 /\ (N + 1) - 1 = N BY <1>4
<1>10. K!Rest(r) = g[N] \o K!Left(c) BY <1>1, <1>5, <1>9
<1>11. g[N] = f[N] BY <1>8, <1>9
<1>12. K!Rest(r) = K!Rest(q) \o K!Left(c) BY <1>4, <1>10, <1>11
<1> QED BY <1>1, <1>12 DEF r

LEMMA RestPrepend ==
    ASSUME NEW b, NEW q \in Seq(Pieces(b)), NEW c \in Pieces(b)
    PROVE  <<c>> \o q \in Seq(Pieces(b)) /\ K!Rest(<<c>> \o q) = K!Left(c) \o K!Rest(q)
<1> DEFINE r == <<c>> \o q
           N == Len(q)
           l == K!Left(c)
<1>1. r \in Seq(Pieces(b)) /\ Len(r) = N + 1 /\ r[1] = c /\ \A k \in 1..N : r[k + 1] = q[k]
    <2>1. <<c>> \in Seq(Pieces(b)) /\ Len(<<c>>) = 1 /\ <<c>>[1] = c OBVIOUS
    <2>2. N \in Nat BY LenProperties
    <2>3. /\ r \in Seq(Pieces(b)) /\ Len(r) = 1 + N
          /\ \A i \in 1..1 + N : r[i] = IF i <= 1 THEN <<c>>[i] ELSE q[i - 1]
        BY <2>1, ConcatProperties
    <2>4. 1 \in 1..1 + N /\ \A k \in 1..N : k + 1 \in 1..1 + N /\ ~(k + 1 <= 1) /\ (k + 1) - 1 = k BY <2>2
    <2> HIDE DEF r, N
    <2>5. \A k \in 1..N : r[k + 1] = q[k]
        <3> TAKE k \in 1..N
        <3> QED BY <2>3, <2>4
    <2>6. r[1] = c BY <2>1, <2>3, <2>4
    <2> QED BY <2>2, <2>3, <2>5, <2>6
<1>2. PICK f : Walk(f, q) BY Walks
<1> HIDE DEF r
<1>3. PICK g : Walk(g, r) BY <1>1, Walks
<1>4. /\ N \in Nat /\ f[0] = <<>> /\ K!Rest(q) = f[N] /\ \A k \in 0..N : f[k] \in Content
      /\ \A k \in 1..N : f[k] = f[k - 1] \o K!Left(q[k]) /\ K!Left(q[k]) \in Content
    BY <1>2 DEF Walk
<1>5. /\ g[0] = <<>> /\ K!Rest(r) = g[N + 1] /\ \A k \in 1..N + 1 : g[k] = g[k - 1] \o K!Left(r[k])
    BY <1>1, <1>3 DEF Walk
<1>6. l \in Seq(Values) BY LeftContent DEF Content
<1> HIDE DEF l
<1> DEFINE B == {k \in 0..N : g[k + 1] = l \o f[k]}
<1>7. 0 \in B
    <2>1. 1 \in 1..N + 1 /\ 0 \in 0..N /\ 1 - 1 = 0 /\ 0 + 1 = 1 BY <1>4
    <2>2. g[1] = <<>> \o l BY <1>1, <1>5, <2>1 DEF l
    <2>3. <<>> \o l = l /\ l \o <<>> = l BY <1>6, ConcatEmptySeq
    <2> QED BY <1>4, <2>1, <2>2, <2>3
<1>8. ASSUME NEW k \in 1..N, k - 1 \in B PROVE k \in B
    <2>1. k \in 0..N /\ k - 1 \in 0..N /\ k + 1 \in 1..N + 1 /\ (k + 1) - 1 = k /\ (k - 1) + 1 = k BY <1>4
    <2> DEFINE s == f[k - 1]  t == K!Left(q[k])
    <2>2. s \in Seq(Values) /\ t \in Seq(Values) BY <1>4, <2>1 DEF Content
    <2>3. g[k] = l \o s /\ f[k] = s \o t BY <1>4, <1>8, <2>1
    <2>4. g[k + 1] = g[k] \o t BY <1>1, <1>5, <2>1
    <2> HIDE DEF s, t
    <2>6. Regrouped(l, s, t) BY ONLY <1>6, <2>2, Regroup
    <2>5. (l \o s) \o t = l \o (s \o t) BY ONLY <2>6 DEF Regrouped
    <2> QED BY <2>1, <2>3, <2>4, <2>5
<1>9. \A k \in 0..N : k \in B
    <2> HIDE DEF B, N
    <2> QED BY <1>4, <1>7, <1>8, AllNumbers
<1>10. N \in B BY <1>4, <1>9
<1>11. K!Rest(r) = l \o K!Rest(q) BY <1>4, <1>5, <1>10
<1> QED BY <1>1, <1>11 DEF r, l

\* chunkqueue_remove_finished_chunks() removes nothing that is to be sent
Dropped(q, i, r, b) ==
    /\ r \in Seq(Pieces(b)) /\ Len(r) = Len(q) - i + 1
    /\ \A k \in 1..Len(r) : r[k] = q[i + k - 1]
    /\ K!Rest(r) = K!Rest(q)
LEMMA RestDropped ==
    ASSUME NEW b, NEW q \in Seq(Pieces(b)), NEW i \in 1..Len(q), \A j \in 1..(i - 1) : K!Left(q[j]) = <<>>,
           NEW r, r = SubSeq(q, i, Len(q))
    PROVE  Dropped(q, i, r, b)
<1> DEFINE N == Len(q)
           M == N - i + 1
<1>1. N \in Nat /\ i \in Nat /\ M \in Nat BY LenProperties
<1>2. r \in Seq(Pieces(b)) /\ Len(r) = M /\ \A k \in 1..M : r[k] = q[i + k - 1]
    <2>1. N \in Int /\ i \in Int /\ i <= N /\ \A j \in i..N : q[j] \in Pieces(b)
        <3>1. \A j \in i..N : j \in 1..N BY <1>1
        <3> QED BY <1>1, <3>1, ElementOfSeq
    <2> HIDE DEF N
    <2>2. /\ r \in Seq(Pieces(b)) /\ Len(r) = IF i <= N THEN N - i + 1 ELSE 0
          /\ \A k \in 1..N - i + 1 : r[k] = q[i + k - 1]
        BY <2>1, SubSeqProperties DEF N
    <2> QED BY <2>1, <2>2
<1>3. PICK f : Walk(f, q) BY Walks
<1>4. PICK g : Walk(g, r) BY <1>2, Walks
<1>5. /\ f[0] = <<>> /\ K!Rest(q) = f[N] /\ \A k \in 1..N : f[k] = f[k - 1] \o K!Left(q[k])
    BY <1>3 DEF Walk
<1>6. /\ g[0] = <<>> /\ K!Rest(r) = g[M] /\ \A k \in 1..M : g[k] = g[k - 1] \o K!Left(q[i + k - 1])
    BY <1>2, <1>4 DEF Walk
<1> DEFINE I == i - 1
           B == {k \in 0..I : f[k] = <<>>}
<1>7. I \in Nat BY <1>1
<1>8. 0 \in B BY <1>5, <1>7
<1>9. ASSUME NEW k \in 1..I, k - 1 \in B PROVE k \in B
    <2>1. k \in 1..N /\ k \in 0..I /\ k \in 1..(i - 1) BY <1>1
    <2>2. f[k] = <<>> \o <<>> BY <1>5, <1>9, <2>1
    <2>3. <<>> \o <<>> = <<>> OBVIOUS
    <2> QED BY <2>1, <2>2, <2>3
<1>10. \A k \in 0..I : k \in B
    <2> HIDE DEF B, I
    <2> QED BY <1>7, <1>8, <1>9, AllNumbers
<1>11. f[I] = <<>> BY <1>7, <1>10
<1> DEFINE D == {k \in 0..M : g[k] = f[I + k]}
<1>12. 0 \in D BY <1>1, <1>6, <1>11
<1>13. ASSUME NEW k \in 1..M, k - 1 \in D PROVE k \in D
    <2>1. k \in 0..M /\ I + k \in 1..N /\ (I + k) - 1 = I + (k - 1) /\ i + k - 1 = I + k BY <1>1
    <2>2. g[k] = g[k - 1] \o K!Left(q[I + k]) BY <1>6, <2>1
    <2>3. f[I + k] = f[I + (k - 1)] \o K!Left(q[I + k])
        <3> DEFINE m == I + k
        <3>1. m \in 1..N /\ m - 1 = I + (k - 1) BY <2>1
        <3> HIDE DEF m
        <3>2. f[m] = f[m - 1] \o K!Left(q[m]) BY <1>5, <3>1
        <3> QED BY <3>1, <3>2 DEF m
    <2>4. g[k - 1] = f[I + (k - 1)] BY <1>13
    <2> QED BY <2>1, <2>2, <2>3, <2>4
<1>14. \A k \in 0..M : k \in D
    <2> HIDE DEF D, M
    <2> QED BY <1>1, <1>12, <1>13, AllNumbers
<1>15. I + M = N /\ M \in D BY <1>1, <1>14
<1>16. K!Rest(r) = K!Rest(q)
    <2> HIDE DEF I, M, N
    <2>1. g[M] = f[I + M] BY <1>15
    <2> QED BY <1>5, <1>6, <1>15, <2>1
<1> QED BY <1>2, <1>16 DEF Dropped

-----------------------------------------------------------------------------
(***************************************************************************)
(* The loop of a backend.  v is w with n units of chunk i sent.            *)
(***************************************************************************)
Odd(b) == {p \in Int : \E n \in known : n <= p /\ (b = "write" \/ (b = "writev" /\ p < K!PageEnd(n)))}
Loops(b) ==
    [q : Seq(Pieces(b)), c : Nat, room : Nat, end : {"again", "error", "closed"}, st : known, reach : Nat,
     out : Content, ret : {0, -1, -2}, stop : BOOLEAN, altered : SUBSET Odd(b)]
Forward(w, v, i, n, b) ==
    /\ v \in Loops(b) /\ Len(v.q) = Len(w.q) /\ v.q[i] = [w.q[i] EXCEPT !.offset = @ + n]
    /\ \A j \in 1..Len(w.q) : j # i => v.q[j] = w.q[j]
    /\ v.room = w.room - n /\ Len(v.out) = Len(w.out) + n /\ v.out \o K!Rest(v.q) = w.out \o K!Rest(w.q)
    /\ v.c = w.c /\ v.end = w.end /\ v.st = w.st /\ v.ret = w.ret /\ v.stop = w.stop /\ v.altered = w.altered

\* no more is sent of a chunk than is left, and of what is mapped
Sendable(c, n, b) ==
    /\ n \in 0..K!ToSend(c)
    /\ b = "writev" /\ c.type = "file" => c.map.mapped
    /\ c.map.mapped => c.start + c.offset + n <= c.map.offset + c.map.length

Went(c, n) == [c EXCEPT !.offset = @ + n]
Part(c, n) == SubSeq(c.data, c.offset + 1, c.offset + n)
Divided(c, n, b) ==
    LET d == Went(c, n)
    IN  /\ n \in Nat /\ d \in Pieces(b) /\ d.offset = c.offset + n /\ d.type = c.type /\ d.map = c.map
        /\ d.start = c.start /\ d.data = c.data /\ K!ToSend(d) = K!ToSend(c) - n
        /\ Part(c, n) \in Content /\ Len(Part(c, n)) = n /\ K!Left(c) = Part(c, n) \o K!Left(d)

LEMMA PieceSent ==
    ASSUME NEW b, NEW c \in Pieces(b), NEW n, Sendable(c, n, b)
    PROVE  Divided(c, n, b)
<1> DEFINE data == c.data
           o == c.offset
           d == Went(c, n)
           moved == Part(c, n)
<1>1. /\ c.type \in {"mem", "file"} /\ data \in Seq(Values) /\ c.start \in 0..FileSize /\ o \in Nat /\ o <= Len(data)
      /\ c.map \in [offset : Int, length : Int, mapped : BOOLEAN] /\ (c.map.mapped => b = "writev" /\ Windowed(c))
    BY DEF Pieces
<1>2. Len(data) \in Nat /\ \A k \in 1..Len(data) : data[k] \in Values BY <1>1, LenProperties, ElementOfSeq
<1>3. K!ToSend(c) = Len(data) - o BY DEF K!ToSend, K!Length
<1>4. n \in Nat /\ o + n <= Len(data) BY <1>1, <1>2, <1>3 DEF Sendable
<1>5. /\ d.type = c.type /\ d.data = data /\ d.start = c.start /\ d.offset = o + n /\ d.map = c.map
      /\ d \in [type : {"mem", "file"}, data : Seq(Values), start : 0..FileSize, offset : Nat,
                map : [offset : Int, length : Int, mapped : BOOLEAN]]
    <2>1. DOMAIN c = {"type", "data", "start", "offset", "map"} BY DEF Pieces
    <2>2. c = [type |-> c.type, data |-> data, start |-> c.start, offset |-> o, map |-> c.map] BY DEF Pieces
    <2>3. d = [type |-> c.type, data |-> data, start |-> c.start, offset |-> o + n, map |-> c.map] BY <2>2 DEF Went
    <2> HIDE DEF data, o, d
    <2>4. o + n \in Nat BY <1>1, <1>4
    <2>5. /\ c.type \in {"mem", "file"} /\ data \in Seq(Values) /\ c.start \in 0..FileSize
          /\ c.map \in [offset : Int, length : Int, mapped : BOOLEAN]
        BY <1>1
    <2> DEFINE all == 0..FileSize
    <2>6. c.start \in all BY <2>5
    <2>7. data \in Seq(Values) /\ c.type \in {"mem", "file"} /\ c.map \in [offset : Int, length : Int, mapped : BOOLEAN]
        BY <2>5
    <2> HIDE DEF all
    <2>8. d \in [type : {"mem", "file"}, data : Seq(Values), start : all, offset : Nat,
                map : [offset : Int, length : Int, mapped : BOOLEAN]]
        BY ONLY <2>3, <2>4, <2>6, <2>7
    <2>9. d.type = c.type /\ d.data = data /\ d.start = c.start /\ d.offset = o + n /\ d.map = c.map
        BY ONLY <2>3
    <2> QED BY <2>8, <2>9 DEF all
<1>6. d \in Pieces(b)
    <2>1. d.offset <= Len(d.data) BY <1>4, <1>5
    <2>2. d.map.mapped => b = "writev" /\ Windowed(d)
        <3> SUFFICES ASSUME c.map.mapped PROVE b = "writev" /\ Windowed(d) BY <1>5
        <3>1. Windowed(c) /\ b = "writev" /\ c.start + o + n <= c.map.offset + c.map.length BY <1>1 DEF Sendable
        <3>2. c.start + (o + n) <= c.map.offset + c.map.length BY <1>1, <1>4, <3>1
        <3> QED BY <1>5, <3>1, <3>2 DEF Windowed
    <2>3. b = "writev" /\ d.type = "file" => d.map.mapped BY <1>5 DEF Sendable
    <2> HIDE DEF d
    <2> QED BY <1>5, <2>1, <2>2, <2>3 DEF Pieces
<1> DEFINE N == Len(data)
           m == o + 1
           k == o + n
           rest == SubSeq(data, k + 1, N)
<1>7. m \in 1..N + 1 /\ k \in m - 1..N /\ N \in k..N /\ m \in Int /\ k \in Int /\ N \in Nat
    <2>1. N \in Nat /\ o \in Nat /\ n \in Nat /\ o + n <= N BY <1>1, <1>2, <1>4
    <2> HIDE DEF N, o
    <2> QED BY ONLY <2>1
<1>8. moved = SubSeq(data, m, k) /\ K!Left(d) = rest /\ K!Left(c) = SubSeq(data, m, N)
    BY <1>5 DEF K!Left, K!Length, Part
<1>9. K!ToSend(d) = K!ToSend(c) - n BY <1>1, <1>2, <1>3, <1>4, <1>5 DEF K!ToSend, K!Length
<1>10. k - m + 1 = n /\ (m <= k <=> n # 0) BY <1>1, <1>4
<1> HIDE DEF data, N, m, k
<1>11. SubSeq(data, m, k) \o SubSeq(data, k + 1, N) = SubSeq(data, m, N)
    BY <1>1, <1>7, ConcatAdjacentSubSeq DEF N
<1>12. moved \in Seq(Values) /\ Len(moved) = IF m <= k THEN k - m + 1 ELSE 0
    <2>1. \A i \in m..k : data[i] \in Values
        <3>1. \A i \in m..k : i \in 1..N BY <1>7
        <3> QED BY <1>2, <3>1 DEF N
    <2>2. m \in Int /\ k \in Int BY <1>7
    <2>3. SubSeq(data, m, k) \in Seq(Values) /\ Len(SubSeq(data, m, k)) = IF m <= k THEN k - m + 1 ELSE 0
        BY ONLY <2>1, <2>2, SubSeqProperties
    <2> QED BY <1>8, <2>3
<1>13. Len(moved) = n BY <1>4, <1>10, <1>12
<1>14. K!Left(c) = moved \o K!Left(d) BY <1>8, <1>11
<1> QED BY <1>4, <1>5, <1>6, <1>9, <1>12, <1>13, <1>14 DEF Content, data, o, Divided

LEMMA Advanced ==
    ASSUME NEW b, NEW w \in Loops(b), NEW i \in 1..Len(w.q), \A j \in 1..(i - 1) : K!Finished(w.q[j]),
           NEW n, Sendable(w.q[i], n, b), n <= w.room
    PROVE  Forward(w, K!Advance(w, i, n), i, n, b)
<1> DEFINE v == K!Advance(w, i, n)
           q == w.q
           c == q[i]
           d == [c EXCEPT !.offset = @ + n]
           moved == SubSeq(c.data, c.offset + 1, c.offset + n)
           r == [q EXCEPT ![i] = d]
           out == w.out \o moved
<1>1. q \in Seq(Pieces(b)) /\ w.out \in Seq(Values) /\ w.room \in Nat BY DEF Loops, Content
<1>2. \A j \in 1..Len(q) : q[j] \in Pieces(b) BY ZenonT(60), <1>1, ElementOfSeq
<1>3. /\ n \in Nat /\ d \in Pieces(b) /\ K!ToSend(d) = K!ToSend(c) - n
      /\ moved \in Seq(Values) /\ Len(moved) = n /\ K!Left(c) = moved \o K!Left(d)
    <2>1. c \in Pieces(b) BY <1>2
    <2>2. Divided(c, n, b) BY <2>1, PieceSent
    <2> QED BY <2>2 DEF Divided, Content, Went, Part
<1>4. v = [w EXCEPT !.q = r, !.room = w.room - n, !.out = out] BY DEF K!Advance
<1> HIDE DEF v, d, moved
<1>5. /\ r \in Seq(Pieces(b)) /\ Len(r) = Len(q)
      /\ \A j \in 1..Len(q) : r[j] = IF j = i THEN d ELSE q[j]
    <2> HIDE DEF q
    <2>1. i \in 1..Len(q) BY DEF q
    <2> QED BY <1>1, <1>3, <2>1, ExceptSeq
<1>6. out \in Seq(Values) /\ Len(out) = Len(w.out) + n /\ Len(w.out) \in Nat
    BY <1>1, <1>3, ConcatProperties, LenProperties
<1>7. K!Rest(q) = moved \o K!Rest(r)
    <2>1. /\ i \in 1..Len(q) /\ Len(q) = Len(r) /\ r[i] = d
          /\ \A j \in 1..(i - 1) : j \in 1..Len(q) /\ j # i /\ r[j] = q[j] BY <1>5
    <2>2. \A j \in 1..(i - 1) : K!Left(q[j]) = <<>> /\ K!Left(r[j]) = <<>> BY <1>2, <2>1, LeftContent
    <2>3. \A j \in (i + 1)..Len(q) : K!Left(q[j]) = K!Left(r[j]) BY <1>5
    <2>4. K!Left(q[i]) = moved \o K!Left(r[i]) /\ moved \in Content BY <1>3, <2>1 DEF Content
    <2> HIDE DEF q, r, c
    <2> QED BY ZenonT(60), <1>1, <1>5, <2>1, <2>2, <2>3, <2>4, RestMoved
<1>8. out \o K!Rest(r) = w.out \o K!Rest(q)
    <2> DEFINE s == K!Rest(r)  t == w.out
    <2>1. s \in Seq(Values) /\ t \in Seq(Values) /\ moved \in Seq(Values)
        <3>1. r \in Seq(Pieces(b)) BY <1>5
        <3> HIDE DEF r
        <3> QED BY <1>1, <1>3, <3>1, Walks DEF Content
    <2> HIDE DEF s, t
    <2>3. Regrouped(t, moved, s) BY ONLY <2>1, Regroup
    <2>2. (t \o moved) \o s = t \o (moved \o s) BY ONLY <2>3 DEF Regrouped
    <2> QED BY <1>7, <2>2 DEF s, t
<1> HIDE DEF r, out, q
<1>9. /\ v.q = r /\ v.room = w.room - n /\ v.out = out /\ v.c = w.c /\ v.end = w.end /\ v.st = w.st
      /\ v.ret = w.ret /\ v.stop = w.stop /\ v.altered = w.altered
    BY <1>4 DEF Loops
<1>10. v \in Loops(b)
    <2>1. v = [q |-> r, c |-> w.c, room |-> w.room - n, end |-> w.end, st |-> w.st, reach |-> w.reach,
               out |-> out, ret |-> w.ret, stop |-> w.stop, altered |-> w.altered]
        BY <1>4 DEF Loops
    <2>2. w.room - n \in Nat BY <1>1, <1>3
    <2>3. /\ w.c \in Nat /\ w.end \in {"again", "error", "closed"} /\ w.st \in known /\ w.ret \in {0, -1, -2}
          /\ w.reach \in Nat /\ w.stop \in BOOLEAN /\ w.altered \in SUBSET Odd(b)
        BY DEF Loops
    <2> QED BY <1>5, <1>6, <2>1, <2>2, <2>3 DEF Loops, Content
<1>11. r[i] = d BY <1>5 DEF q
<1> QED BY <1>5, <1>6, <1>8, <1>9, <1>10, <1>11 DEF Forward, v, d, q

\* a walk that stays in sets of its own
LEMMA StepsWithin ==
    ASSUME NEW N \in Nat, NEW S, NEW P \in [0..N -> SUBSET S], NEW first \in P[0], NEW T,
           \A k \in 1..N : \A s \in P[k - 1] : T[<<s, k>>] \in P[k]
    PROVE  \E f \in [0..N -> S] : Steps(f, N, first, T) /\ \A k \in 0..N : f[k] \in P[k]
<1> DEFINE U == [x \in S \X (1..N) |-> IF T[x] \in S THEN T[x] ELSE first]
<1>1. first \in S /\ U \in [S \X (1..N) -> S] OBVIOUS
<1>2. PICK f \in [0..N -> S] : Steps(f, N, first, U)
    <2> HIDE DEF U
    <2> QED BY <1>1, StepsExist
<1>3. f[0] = first /\ \A k \in 1..N : f[k] = U[<<f[k - 1], k>>] BY <1>2 DEF Steps
<1> DEFINE B == {k \in 0..N : f[k] \in P[k]}
<1>4. 0 \in B BY <1>3
<1>5. ASSUME NEW k \in 1..N, k - 1 \in B PROVE k \in B /\ f[k] = T[<<f[k - 1], k>>]
    <2>1. k - 1 \in 0..N /\ k \in 0..N OBVIOUS
    <2>2. f[k - 1] \in P[k - 1] /\ f[k - 1] \in S BY <1>5, <2>1
    <2>3. T[<<f[k - 1], k>>] \in P[k] /\ P[k] \in SUBSET S BY <2>1, <2>2
    <2>4. f[k] = T[<<f[k - 1], k>>] BY <1>3, <2>2, <2>3
    <2> QED BY <2>1, <2>3, <2>4
<1>6. \A k \in 0..N : k \in B
    <2> HIDE DEF B
    <2> QED BY <1>4, <1>5, AllNumbers
<1>7. \A k \in 1..N : f[k] = T[<<f[k - 1], k>>]
    <2> TAKE k \in 1..N
    <2>1. k - 1 \in 0..N OBVIOUS
    <2> QED BY <1>5, <1>6, <2>1
<1> QED BY <1>3, <1>6, <1>7 DEF Steps

-----------------------------------------------------------------------------
(***************************************************************************)
(* What is so all the while: together with what is left of its chunks w    *)
(* has sent the whole, the chunks before w.c are finished and no file from *)
(* it on is.  It stops without an error and without having sent anything   *)
(* only at a file whose window has to move.                                *)
(***************************************************************************)
Ready(c) == c.type = "file" /\ c.map.mapped /\ c.start + c.offset = c.map.offset + c.map.length
OpenFile(c) == c.type = "file" => ~K!Finished(c)
Going(w, b, content, L, R) ==
    /\ w \in Loops(b) /\ Len(w.q) = L /\ L \in Nat /\ R \in Nat /\ w.c \in 1..L + 1
    /\ w.out \o K!Rest(w.q) = content /\ Len(w.out) + w.room = R
    /\ \A j \in 1..(w.c - 1) : K!Finished(w.q[j])
    /\ \A j \in (w.c + 1)..L : OpenFile(w.q[j])
    /\ ~w.stop => w.ret = 0
Blocked(w, b, L, R) == Len(w.out) = 0 /\ R > 0 => b = "writev" /\ w.c <= L /\ Ready(w.q[w.c])
InLoop(w, b, content, L, R) ==
    /\ Going(w, b, content, L, R)
    /\ w.c <= L => OpenFile(w.q[w.c])
    /\ w.stop /\ w.ret = 0 => Blocked(w, b, L, R)

LEMMA StopsThere ==
    ASSUME NEW b, NEW content, NEW L, NEW R, NEW w, Going(w, b, content, L, R), w.c <= L => OpenFile(w.q[w.c]),
           NEW v, v \in Loops(b), v.q = w.q, v.c = w.c, v.room = w.room, v.out = w.out, v.stop,
           v.ret = 0 => Blocked(w, b, L, R)
    PROVE  InLoop(v, b, content, L, R)
<1>1. Going(v, b, content, L, R) BY DEF Going
<1>2. (v.c <= L => OpenFile(v.q[v.c])) /\ (v.stop /\ v.ret = 0 => Blocked(v, b, L, R)) BY DEF Blocked
<1> QED BY <1>1, <1>2 DEF InLoop

LEMMA Onward ==
    ASSUME NEW b, NEW content, NEW L, NEW R, NEW w, Going(w, b, content, L, R), ~w.stop,
           w.c <= L, K!Finished(w.q[w.c]),
           NEW v, v = [w EXCEPT !.c = w.c + 1]
    PROVE  InLoop(v, b, content, L, R) /\ v.out = w.out /\ v.c = w.c + 1 /\ ~v.stop
<1>1. w \in Loops(b) /\ w.c \in 1..L + 1 /\ L \in Nat BY DEF Going
<1>2. v = [q |-> w.q, c |-> w.c + 1, room |-> w.room, end |-> w.end, st |-> w.st, reach |-> w.reach,
           out |-> w.out, ret |-> w.ret, stop |-> w.stop, altered |-> w.altered]
    BY <1>1 DEF Loops
<1>3. /\ v.q = w.q /\ v.c = w.c + 1 /\ v.room = w.room /\ v.out = w.out /\ v.ret = w.ret /\ v.stop = w.stop
      /\ v.altered = w.altered
    BY <1>2
<1>4. v \in Loops(b) BY <1>1, <1>2 DEF Loops
<1>5. \A j \in 1..(v.c - 1) : K!Finished(v.q[j])
    <2> SUFFICES ASSUME NEW j \in 1..(v.c - 1) PROVE K!Finished(w.q[j]) BY <1>3
    <2>1. j = w.c \/ j \in 1..(w.c - 1) BY <1>1, <1>3
    <2> QED BY <2>1 DEF Going
<1>6. \A j \in v.c..L : OpenFile(v.q[j]) BY <1>1, <1>3 DEF Going
<1>7. v.c \in 1..L + 1 /\ \A j \in (v.c + 1)..L : j \in v.c..L BY <1>1, <1>3
<1>8. Going(v, b, content, L, R) BY <1>3, <1>4, <1>5, <1>6, <1>7 DEF Going
<1>9. v.c <= L => OpenFile(v.q[v.c]) BY <1>1, <1>6, <1>7
<1> QED BY <1>3, <1>8, <1>9 DEF InLoop

\* what an Advance() of the chunk at hand keeps
LEMMA Carried ==
    ASSUME NEW b, NEW content, NEW L, NEW R, NEW w, Going(w, b, content, L, R), w.c <= L,
           NEW n, Sendable(w.q[w.c], n, b), n <= w.room,
           NEW v, v = K!Advance(w, w.c, n)
    PROVE  /\ Going(v, b, content, L, R) /\ v.c = w.c /\ v.q[v.c] = Went(w.q[w.c], n)
           /\ n \in Nat /\ v.room = w.room - n /\ Len(v.out) = Len(w.out) + n /\ Len(w.out) \in Nat
           /\ v.ret = w.ret /\ v.stop = w.stop /\ v.altered = w.altered
           /\ \A j \in 1..L : j # w.c => v.q[j] = w.q[j]
<1>1. /\ w \in Loops(b) /\ L = Len(w.q) /\ L \in Nat /\ w.c \in 1..L + 1
      /\ \A j \in 1..(w.c - 1) : K!Finished(w.q[j])
    BY DEF Going
<1>2. w.room \in Nat /\ w.out \in Seq(Values) /\ Len(w.out) \in Nat
    <2>1. w.room \in Nat /\ w.out \in Seq(Values) BY <1>1 DEF Loops, Content
    <2> QED BY <2>1, LenProperties
<1> DEFINE i == w.c
<1>3. i \in 1..Len(w.q) BY <1>1
<1>4. Forward(w, v, i, n, b)
    <2>1. /\ Sendable(w.q[i], n, b) /\ n <= w.room /\ v = K!Advance(w, i, n)
          /\ \A j \in 1..(i - 1) : K!Finished(w.q[j])
        BY <1>1
    <2> HIDE DEF i
    <2> QED BY <1>1, <1>3, <2>1, Advanced
<1>5. /\ v \in Loops(b) /\ Len(v.q) = L /\ v.q[i] = Went(w.q[i], n)
      /\ \A j \in 1..L : j # i => v.q[j] = w.q[j]
      /\ v.room = w.room - n /\ Len(v.out) = Len(w.out) + n /\ v.out \o K!Rest(v.q) = w.out \o K!Rest(w.q)
      /\ v.c = w.c /\ v.ret = w.ret /\ v.stop = w.stop /\ v.altered = w.altered
    BY <1>1, <1>4 DEF Forward, Went
<1>6. n \in Nat BY DEF Sendable
<1>7. \A j \in 1..L : j # i => v.q[j] = w.q[j] BY <1>5
<1>8. (\A j \in 1..(i - 1) : j \in 1..L /\ j # i) /\ (\A j \in (i + 1)..L : j \in 1..L /\ j # i) BY <1>1
<1>9. Len(v.out) + v.room = R
    <2>1. Len(w.out) + w.room = R BY DEF Going
    <2> QED BY <1>2, <1>5, <1>6, <2>1
<1>10. Going(v, b, content, L, R) BY <1>1, <1>5, <1>7, <1>8, <1>9 DEF Going
<1> QED BY <1>2, <1>5, <1>6, <1>10

LEMMA Stops ==
    ASSUME NEW b, NEW content, NEW L, NEW R, NEW w, Going(w, b, content, L, R), w.c <= L => OpenFile(w.q[w.c]),
           ~w.stop, NEW code \in {0, -1, -2}, code = 0 => Blocked(w, b, L, R),
           NEW v, v = K!Stop(w, code)
    PROVE  InLoop(v, b, content, L, R) /\ v.out = w.out /\ v.stop /\ v.ret = code
<1>1. w \in Loops(b) BY DEF Going
<1>2. v = [q |-> w.q, c |-> w.c, room |-> w.room, end |-> w.end, st |-> w.st, reach |-> w.reach,
           out |-> w.out, ret |-> code, stop |-> TRUE, altered |-> w.altered]
    BY <1>1 DEF Loops, K!Stop
<1>3. /\ v.q = w.q /\ v.c = w.c /\ v.room = w.room /\ v.out = w.out /\ v.ret = code /\ v.stop = TRUE
      /\ v.altered = w.altered
    BY <1>2
<1>4. v \in Loops(b) BY <1>1, <1>2 DEF Loops
<1>5. v.stop /\ (v.ret = 0 => Blocked(w, b, L, R)) BY <1>1, <1>3
<1>6. InLoop(v, b, content, L, R) BY <1>3, <1>4, <1>5, StopsThere
<1> QED BY <1>3, <1>6

-----------------------------------------------------------------------------
(***************************************************************************)
(* One chunk: w is at it, v what the loop comes to.                        *)
(***************************************************************************)
At(w, b, content, L, R) == InLoop(w, b, content, L, R) /\ ~w.stop /\ w.c <= L
Goes(w, v, b, content, L, R) ==
    /\ InLoop(v, b, content, L, R) /\ Len(v.out) >= Len(w.out) /\ (v.stop \/ v.c > w.c)
    /\ b = "writev" /\ Ready(w.q[w.c]) /\ w.room > 0 => Len(v.out) > Len(w.out) \/ v.ret # 0

LEMMA AtChunk ==
    ASSUME NEW b, NEW content, NEW L, NEW R, NEW w, At(w, b, content, L, R)
    PROVE  /\ w \in Loops(b) /\ w.q[w.c] \in Pieces(b) /\ w.c \in 1..L /\ L = Len(w.q) /\ L \in Nat
           /\ w.room \in Nat /\ Len(w.out) \in Nat /\ Len(w.out) + w.room = R /\ w.ret = 0
           /\ w.end \in {"again", "error", "closed"} /\ w.st \in known /\ w.reach \in Nat
           /\ OpenFile(w.q[w.c])
<1>1. /\ w \in Loops(b) /\ w.c \in 1..L /\ L = Len(w.q) /\ L \in Nat /\ Len(w.out) + w.room = R /\ w.ret = 0
      /\ OpenFile(w.q[w.c])
    BY DEF At, InLoop, Going
<1>2. /\ w.room \in Nat /\ w.q \in Seq(Pieces(b)) /\ w.out \in Seq(Values)
      /\ w.end \in {"again", "error", "closed"} /\ w.st \in known /\ w.reach \in Nat
    BY <1>1 DEF Loops, Content
<1>3. w.q[w.c] \in Pieces(b) BY <1>1, <1>2, ElementOfSeq
<1>4. Len(w.out) \in Nat BY <1>2, LenProperties
<1> QED BY <1>1, <1>2, <1>3, <1>4

LEMMA PutGoes ==
    ASSUME NEW b, NEW content, NEW L, NEW R, NEW w, At(w, b, content, L, R),
           NEW n, Sendable(w.q[w.c], n, b),
           n = 0 => K!Finished(w.q[w.c]) \/ (b = "writev" /\ Ready(w.q[w.c])),
           NEW v, v = K!Put(w, n)
    PROVE  /\ InLoop(v, b, content, L, R) /\ Len(v.out) >= Len(w.out) /\ (v.stop \/ v.c > w.c)
           /\ n > 0 /\ w.room > 0 => Len(v.out) > Len(w.out)
<1> DEFINE c == w.q[w.c]
           m == K!Least(n, w.room)
           u == K!Advance(w, w.c, m)
           d == u.q[u.c]
<1>1. /\ w \in Loops(b) /\ c \in Pieces(b) /\ w.c \in 1..L /\ L \in Nat /\ w.room \in Nat /\ Len(w.out) \in Nat
      /\ Len(w.out) + w.room = R /\ w.end \in {"again", "error", "closed"}
    BY AtChunk
<1>2. K!ToSend(c) \in Nat /\ n \in 0..K!ToSend(c)
    BY <1>1, LeftContent DEF Sendable
<1>3. m \in Nat /\ m <= n /\ m <= w.room /\ (m = n \/ m = w.room) /\ m \in 0..K!ToSend(c) BY <1>1, <1>2 DEF K!Least
<1>4. Sendable(c, m, b)
    <2>1. c.map.mapped => c.start + c.offset + m <= c.map.offset + c.map.length
        <3>1. c.start \in Int /\ c.offset \in Int /\ c.map.offset \in Int /\ c.map.length \in Int
            BY <1>1 DEF Pieces
        <3> QED BY <1>2, <1>3, <3>1 DEF Sendable
    <2> QED BY <1>3, <2>1 DEF Sendable
<1>5. Going(w, b, content, L, R) /\ w.c <= L /\ ~w.stop BY DEF At, InLoop
<1>6. /\ Going(u, b, content, L, R) /\ u.c = w.c /\ d = Went(c, m)
      /\ u.room = w.room - m /\ Len(u.out) = Len(w.out) + m /\ ~u.stop
    <2>1. Sendable(w.q[w.c], m, b) /\ m <= w.room BY <1>3, <1>4
    <2> HIDE DEF m
    <2> QED BY <1>5, <2>1, Carried
<1>7. /\ d.offset = c.offset + m /\ d.type = c.type /\ d.map = c.map /\ d.start = c.start
      /\ K!ToSend(d) = K!ToSend(c) - m
    <2>1. Divided(c, m, b) BY <1>1, <1>4, PieceSent
    <2> QED BY <1>6, <2>1 DEF Divided
<1> HIDE DEF u, d, c, m
<1>11. Len(u.out) >= Len(w.out) /\ (n > 0 /\ w.room > 0 => Len(u.out) > Len(w.out))
    <2> DEFINE lu == Len(u.out)  lw == Len(w.out)  left_room == w.room
    <2>1. lw \in Nat /\ left_room \in Nat /\ lu = lw + m BY <1>1, <1>6
    <2>2. m \in Nat /\ n \in Int /\ (m = n \/ m = left_room) BY <1>2, <1>3
    <2> HIDE DEF lu, lw, left_room
    <2>3. lu >= lw /\ (n > 0 /\ left_room > 0 => lu > lw) BY ONLY <2>1, <2>2
    <2> QED BY ONLY <2>3 DEF lu, lw, left_room
<1>8. CASE w.room < n /\ w.room = 0
    <2> DEFINE code == K!Code(w.end)
    <2>1. v = K!Stop(u, code) BY <1>8 DEF K!Put, u, m
    <2>2. code \in {0, -1, -2} BY <1>1 DEF K!Code
    <2>3. Blocked(u, b, L, R) BY <1>1, <1>3, <1>6, <1>8 DEF Blocked
    <2>4. OpenFile(u.q[u.c])
        <3>1. K!ToSend(d) # 0 BY <1>2, <1>3, <1>7, <1>8
        <3> QED BY <3>1 DEF OpenFile, K!Finished, d
    <2> HIDE DEF code
    <2>5. InLoop(v, b, content, L, R) /\ v.out = u.out /\ v.stop BY <1>6, <2>1, <2>2, <2>3, <2>4, Stops
    <2> QED BY <1>1, <1>3, <1>6, <1>8, <2>5
<1>9. CASE ~(w.room < n /\ w.room = 0) /\ K!Finished(d)
    <2>1. v = [u EXCEPT !.c = u.c + 1]
        <3>1. v = K!Next1(u) BY <1>9 DEF K!Put, u, m
        <3>2. K!Finished(u.q[u.c]) BY <1>9 DEF d
        <3> QED BY <3>1, <3>2 DEF K!Next1
    <2>2. K!Finished(u.q[u.c]) /\ u.c <= L BY <1>5, <1>6, <1>9 DEF d
    <2>3. InLoop(v, b, content, L, R) /\ v.out = u.out /\ v.c = u.c + 1 BY <1>6, <2>1, <2>2, Onward
    <2>4. v.c > w.c BY <1>1, <1>6, <2>3
    <2>5. Len(v.out) >= Len(w.out) /\ (n > 0 /\ w.room > 0 => Len(v.out) > Len(w.out))
        BY ONLY <1>11, <2>3
    <2> QED BY <2>3, <2>4, <2>5
<1>10. CASE ~(w.room < n /\ w.room = 0) /\ ~K!Finished(d)
    <2> DEFINE code == 0
    <2>1. v = K!Stop(u, code)
        <3>1. v = K!Next1(u) BY <1>10 DEF K!Put, u, m
        <3>2. ~K!Finished(u.q[u.c]) BY <1>10 DEF d
        <3> QED BY <3>1, <3>2 DEF K!Next1
    <2>2. code \in {0, -1, -2} OBVIOUS
    <2>3. Blocked(u, b, L, R)
        <3> SUFFICES ASSUME Len(u.out) = 0, R > 0 PROVE b = "writev" /\ u.c <= L /\ Ready(u.q[u.c]) BY DEF Blocked
        <3>1. m = 0 /\ w.room > 0 BY <1>1, <1>3, <1>6
        <3>2. n = 0 BY <1>2, <1>3, <3>1
        <3>3. ~K!Finished(c) BY <1>7, <1>10, <1>2, <3>1 DEF K!Finished
        <3>4. b = "writev" /\ Ready(c) BY <3>2, <3>3 DEF c
        <3>5. d.offset = c.offset
            <4>1. c.offset \in Int BY <1>1 DEF Pieces
            <4> QED BY <1>7, <3>1, <4>1
        <3>6. Ready(d) BY <1>7, <3>4, <3>5 DEF Ready
        <3> QED BY <1>5, <1>6, <3>4, <3>6 DEF d
    <2>4. OpenFile(u.q[u.c]) BY <1>10 DEF OpenFile, d
    <2> HIDE DEF code
    <2>5. InLoop(v, b, content, L, R) /\ v.out = u.out /\ v.stop BY <1>6, <2>1, <2>2, <2>3, <2>4, Stops
    <2>6. Len(v.out) >= Len(w.out) /\ (n > 0 /\ w.room > 0 => Len(v.out) > Len(w.out))
        BY ONLY <1>11, <2>5
    <2> QED BY <2>5, <2>6
<1> QED BY <1>8, <1>9, <1>10

LEMMA StopGoes ==
    ASSUME NEW b, NEW content, NEW L, NEW R, NEW w, At(w, b, content, L, R), NEW code \in {-1, -2},
           NEW v, v = K!Stop(w, code)
    PROVE  Goes(w, v, b, content, L, R)
<1>1. /\ Going(w, b, content, L, R) /\ (w.c <= L => OpenFile(w.q[w.c])) /\ ~w.stop
      /\ code \in {0, -1, -2} /\ (code = 0 => Blocked(w, b, L, R))
    BY DEF At, InLoop
<1>2. InLoop(v, b, content, L, R) /\ v.out = w.out /\ v.stop /\ v.ret = code BY <1>1, Stops
<1>3. Len(w.out) \in Nat BY AtChunk
<1> QED BY <1>2, <1>3 DEF Goes

\* a page ends behind what is in it; what can be read up to there is no more than is asked for
LEMMA ReadBefore ==
    ASSUME Page \in Nat \ {0}, NEW c, K!Place(c) \in Nat, NEW n \in Nat, NEW end \in Int
    PROVE  /\ K!Before(c, n, end) \in 0..n
           /\ K!Before(c, n, end) > 0 => K!Place(c) + K!Before(c, n, end) <= end
BY DEF K!Before, K!Least

LEMMA PageEnds == ASSUME Page \in Nat \ {0}, NEW n \in Nat PROVE K!PageEnd(n) \in Int /\ n <= K!PageEnd(n)
<1> DEFINE m == (-n) % Page
<1>1. m \in Nat OBVIOUS
<1> HIDE DEF m
<1>2. n + m \in Int /\ n <= n + m BY <1>1
<1> QED BY <1>2 DEF K!PageEnd, m

\* places that come as something else change nothing but this
LEMMA AlteredAt ==
    ASSUME NEW b, NEW content, NEW L, NEW R, NEW w, At(w, b, content, L, R), NEW S \in SUBSET Odd(b),
           NEW v, v = [w EXCEPT !.altered = @ \cup S]
    PROVE  /\ At(v, b, content, L, R) /\ v.q = w.q /\ v.c = w.c /\ v.room = w.room /\ v.out = w.out
           /\ v.end = w.end
<1>1. w \in Loops(b) BY AtChunk
<1> DEFINE strange == w.altered \cup S
<1>2. strange \in SUBSET Odd(b) BY <1>1 DEF Loops
<1> HIDE DEF strange
<1>3. v = [q |-> w.q, c |-> w.c, room |-> w.room, end |-> w.end, st |-> w.st, reach |-> w.reach,
           out |-> w.out, ret |-> w.ret, stop |-> w.stop, altered |-> strange]
    BY <1>1 DEF Loops, strange
<1>4. /\ v.q = w.q /\ v.c = w.c /\ v.room = w.room /\ v.out = w.out /\ v.ret = w.ret /\ v.stop = w.stop
      /\ v.end = w.end
    BY <1>3
<1>5. v \in Loops(b) BY <1>1, <1>2, <1>3 DEF Loops
<1>6. Going(v, b, content, L, R) BY <1>4, <1>5 DEF At, InLoop, Going
<1> QED BY <1>4, <1>6 DEF At, InLoop

\* a mapping of which n units are written: all that can be read has a place before the end of the
\* page, or is of network_write.c, and what is not the file's lies behind a size that it had
LEMMA MappingGoes ==
    ASSUME NEW b, NEW content, NEW L, NEW R, NEW w, At(w, b, content, L, R),
           NEW n, Sendable(w.q[w.c], n, b), n = 0 => b = "writev" /\ Ready(w.q[w.c]),
           NEW whole \in BOOLEAN, NEW most \in 0..n, NEW good \in Int,
           \A k \in 0..n : (whole \/ k <= most) =>
               \A p \in K!Place(w.q[w.c])..K!Place(w.q[w.c]) + k - 1 : p >= good => p \in Odd(b),
           NEW v, v = K!PutMapped(w, n, whole, most, good)
    PROVE  /\ InLoop(v, b, content, L, R) /\ Len(v.out) >= Len(w.out) /\ (v.stop \/ v.c > w.c)
           /\ n > 0 /\ w.room > 0 => Len(v.out) > Len(w.out) \/ v.ret # 0
<1> DEFINE c == w.q[w.c]
           place == K!Place(c)
           r == IF whole THEN n ELSE K!Least(most, w.reach)
           out == K!Least(r, w.room)
           others == {p \in place..place + out - 1 : p >= good}
           u == [w EXCEPT !.altered = @ \cup others]
<1>1. /\ c \in Pieces(b) /\ w.room \in Nat /\ w.reach \in Nat /\ Len(w.out) \in Nat BY AtChunk
<1>2. n \in Nat /\ n \in 0..K!ToSend(c) /\ K!ToSend(c) \in Nat BY <1>1, LeftContent DEF Sendable
<1>3. r \in 0..n /\ (whole \/ r <= most) BY <1>1, <1>2 DEF K!Least
<1>4. v = IF w.room = 0 THEN K!Put(u, n) ELSE IF r = 0 /\ n > 0 THEN K!Stop(w, -1) ELSE K!Put(u, r)
    BY DEF K!PutMapped
<1> HIDE DEF r
<1>5. out \in 0..n /\ (whole \/ out <= most) BY <1>1, <1>2, <1>3 DEF K!Least
<1>6. others \in SUBSET Odd(b)
    <2> SUFFICES ASSUME NEW p \in place..place + out - 1, p >= good PROVE p \in Odd(b) OBVIOUS
    <2> HIDE DEF out, place
    <2> QED BY <1>5 DEF place, c
<1> HIDE DEF others, u
<1>7. /\ At(u, b, content, L, R) /\ u.q = w.q /\ u.c = w.c /\ u.room = w.room /\ u.out = w.out
    BY <1>6, AlteredAt DEF u
<1>8. CASE w.room = 0
    <2>1. v = K!Put(u, n) BY <1>4, <1>8
    <2>2. Sendable(u.q[u.c], n, b) /\ (n = 0 => b = "writev" /\ Ready(u.q[u.c])) BY <1>7
    <2>3. InLoop(v, b, content, L, R) /\ Len(v.out) >= Len(u.out) /\ (v.stop \/ v.c > u.c)
        BY <1>7, <2>1, <2>2, PutGoes
    <2> QED BY <1>7, <1>8, <2>3
<1>9. CASE w.room # 0 /\ r = 0 /\ n > 0
    <2>1. v = K!Stop(w, -1) BY <1>4, <1>9
    <2>2. /\ Going(w, b, content, L, R) /\ (w.c <= L => OpenFile(w.q[w.c])) /\ ~w.stop
          /\ -1 \in {0, -1, -2} /\ (-1 = 0 => Blocked(w, b, L, R))
        BY DEF At, InLoop
    <2> DEFINE code == -1
    <2>3. code \in {0, -1, -2} /\ (code = 0 => Blocked(w, b, L, R)) /\ v = K!Stop(w, code) /\ code # 0 BY <2>1
    <2> HIDE DEF code
    <2>4. InLoop(v, b, content, L, R) /\ v.out = w.out /\ v.stop /\ v.ret = code BY <2>2, <2>3, Stops
    <2> QED BY <1>1, <2>3, <2>4
<1>10. CASE w.room # 0 /\ ~(r = 0 /\ n > 0)
    <2>1. v = K!Put(u, r) BY <1>4, <1>10
    <2>2. Sendable(u.q[u.c], r, b) /\ (r = 0 => b = "writev" /\ Ready(u.q[u.c]))
        <3>1. c.map.mapped => c.start + c.offset + r <= c.map.offset + c.map.length
            <4>1. c.start \in Int /\ c.offset \in Int /\ c.map.offset \in Int /\ c.map.length \in Int
                BY <1>1 DEF Pieces
            <4> QED BY <1>2, <1>3, <4>1 DEF Sendable
        <3>2. r \in 0..K!ToSend(c) BY <1>2, <1>3
        <3>3. r = 0 => n = 0 BY <1>2, <1>10
        <3> QED BY <1>7, <3>1, <3>2, <3>3 DEF Sendable
    <2>3. /\ InLoop(v, b, content, L, R) /\ Len(v.out) >= Len(u.out) /\ (v.stop \/ v.c > u.c)
          /\ r > 0 /\ u.room > 0 => Len(v.out) > Len(u.out)
        BY <1>7, <2>1, <2>2, PutGoes
    <2>4. n > 0 => r > 0 BY <1>2, <1>3, <1>10
    <2> QED BY <1>7, <2>3, <2>4
<1> QED BY <1>8, <1>9, <1>10

LEMMA SendableFile ==
    ASSUME NEW b, b # "writev", NEW c \in Pieces(b), size \in Nat
    PROVE  /\ K!ToSend(c) \in Nat /\ K!There(c) \in 0..K!ToSend(c)
           /\ \A n \in 0..K!ToSend(c) : Sendable(c, n, b)
<1>1. c.start \in Nat /\ c.offset \in Nat /\ ~c.map.mapped BY DEF Pieces
<1>2. K!ToSend(c) \in Nat BY LeftContent
<1>3. K!Place(c) \in Nat BY <1>1 DEF K!Place
<1> QED BY <1>1, <1>2, <1>3 DEF K!There, K!Least, Sendable

\* whatever is sent of a file, or of memory in one write()
LEMMA PartGoes ==
    ASSUME NEW b, NEW content, NEW L, NEW R, NEW w, At(w, b, content, L, R), b # "writev",
           NEW n \in 0..K!ToSend(w.q[w.c]), n = 0 => K!Finished(w.q[w.c]),
           NEW v, v = K!Put(w, n)
    PROVE  Goes(w, v, b, content, L, R)
<1>1. w.q[w.c] \in Pieces(b) BY AtChunk
<1>2. Sendable(w.q[w.c], n, b)
    <2>1. ~w.q[w.c].map.mapped BY <1>1 DEF Pieces
    <2> QED BY <2>1 DEF Sendable
<1>3. InLoop(v, b, content, L, R) /\ Len(v.out) >= Len(w.out) /\ (v.stop \/ v.c > w.c)
    BY <1>2, PutGoes
<1> QED BY <1>3 DEF Goes

LEMMA MappedGoes ==
    ASSUME Page \in Nat \ {0}, size \in known, known \in SUBSET Nat,
           NEW content, NEW L, NEW R, NEW w, At(w, "write", content, L, R), w.q[w.c].type = "file",
           NEW v, v = K!WriteMapped(w)
    PROVE  Goes(w, v, "write", content, L, R)
<1> DEFINE c == w.q[w.c]
           b == "write"
           n == K!ToSend(c)
           there == K!PageEnd(w.st)
           here == K!PageEnd(size)
           end == K!Least(here, there)
           readable == K!Before(c, n, end)
           whole == readable = n
           most == IF end = there THEN n ELSE readable
           good == K!Least(size, end)
<1>1. c \in Pieces(b) /\ OpenFile(c) /\ w.st \in known BY AtChunk
<1>2. n \in Nat /\ n # 0 BY <1>1, LeftContent DEF OpenFile, K!Finished
<1>3. K!Place(c) \in Nat
    <2>1. c.start \in Nat /\ c.offset \in Nat BY <1>1 DEF Pieces
    <2> QED BY <2>1 DEF K!Place
<1>4. there \in Int /\ here \in Int /\ w.st <= there
    <2>1. w.st \in Nat /\ size \in Nat BY <1>1
    <2> QED BY <2>1, PageEnds
<1> HIDE DEF there, here, n
<1>5. end \in Int /\ (end = here \/ end = there) BY <1>4 DEF K!Least
<1>6. readable \in 0..n BY <1>2, <1>3, <1>5, ReadBefore
<1> HIDE DEF readable, end
<1>7. most \in 0..n /\ whole \in BOOLEAN /\ good \in Int BY <1>2, <1>5, <1>6 DEF K!Least
<1>8. \A p \in Int : p >= good => p \in Odd(b)
    <2> SUFFICES ASSUME NEW p \in Int, p >= good PROVE \E s \in known : s <= p BY DEF Odd
    <2>1. p >= size \/ p >= there \/ p >= here BY <1>1, <1>4, <1>5 DEF K!Least
    <2>2. size \in Nat /\ w.st \in Nat /\ size <= here BY <1>1, PageEnds DEF here
    <2>3. p >= size \/ p >= w.st BY <1>4, <2>1, <2>2
    <2> QED BY <1>1, <2>3
<1> HIDE DEF most, whole, good
<1>9. CASE K!Place(c) > w.st \/ w.st = 0
    <2>1. v = K!Stop(w, -1) BY <1>9 DEF K!WriteMapped
    <2> QED BY <2>1, StopGoes
<1>10. CASE ~(K!Place(c) > w.st \/ w.st = 0)
    <2>1. v = K!PutMapped(w, n, whole, most, good)
        BY <1>10 DEF K!WriteMapped, whole, most, good, readable, end, n, here, there
    <2>2. Sendable(c, n, b)
        <3>1. ~c.map.mapped BY <1>1 DEF Pieces
        <3>2. n \in 0..K!ToSend(c) BY <1>2 DEF n
        <3> QED BY <3>1, <3>2 DEF Sendable
    <2>3. \A k \in 0..n : (whole \/ k <= most) =>
              \A p \in K!Place(c)..K!Place(c) + k - 1 : p >= good => p \in Odd(b)
        BY <1>3, <1>8
    <2>4. InLoop(v, b, content, L, R) /\ Len(v.out) >= Len(w.out) /\ (v.stop \/ v.c > w.c)
        BY <1>2, <1>7, <2>1, <2>2, <2>3, MappingGoes
    <2> QED BY <2>4 DEF Goes
<1> QED BY <1>9, <1>10

LEMMA SendfileGoes ==
    ASSUME NEW b, b # "writev", NEW content, NEW L, NEW R, NEW w, At(w, b, content, L, R), size \in Nat,
           NEW v, v = K!WriteSendfile(w)
    PROVE  Goes(w, v, b, content, L, R)
<1> DEFINE c == w.q[w.c]
           n == K!There(c)
<1>1. c \in Pieces(b) BY AtChunk
<1>2. n \in 0..K!ToSend(c) BY <1>1, SendableFile
<1>3. CASE n = 0
    <2>1. v = K!Stop(w, -1) \/ v = K!Stop(w, -2)
        <3> HIDE DEF n
        <3> QED BY <1>3 DEF K!WriteSendfile, n
    <2> QED BY <2>1, StopGoes
<1>4. CASE n # 0
    <2>1. v = K!Put(w, n) BY <1>4 DEF K!WriteSendfile
    <2> HIDE DEF n
    <2> QED BY <1>2, <1>4, <2>1, PartGoes
<1> QED BY <1>3, <1>4

LEMMA SslGoes ==
    ASSUME NEW content, NEW L, NEW R, NEW w, At(w, "openssl", content, L, R), size \in Nat,
           w.q[w.c].type = "file", NEW v, v = K!WriteSsl(w)
    PROVE  Goes(w, v, "openssl", content, L, R)
<1> DEFINE b == "openssl"
           c == w.q[w.c]
           all == K!ToSend(c)
           n == K!There(c)
           m == K!Least(n, w.room)
           u == K!Advance(w, w.c, m)
           code == IF w.room = n /\ n > 0 THEN 0 ELSE -1
<1>1. /\ w \in Loops(b) /\ c \in Pieces(b) /\ w.c \in 1..L /\ L \in Nat /\ w.room \in Nat /\ Len(w.out) \in Nat
      /\ Len(w.out) + w.room = R /\ OpenFile(c)
    BY AtChunk
<1>2. all \in Nat /\ n \in 0..all /\ \A k \in 0..all : Sendable(c, k, b) BY <1>1, SendableFile
<1>3. all # 0 BY <1>1, <1>2 DEF OpenFile, K!Finished
<1> HIDE DEF n, all
<1>4. CASE n < all /\ w.room >= n
    <2>1. m = n /\ m <= w.room /\ m \in 0..all BY <1>1, <1>2, <1>4 DEF K!Least
    <2>2. Sendable(c, m, b) BY <1>2, <2>1
    <2>3. v = K!Stop(u, code) BY <1>4 DEF K!WriteSsl, n, all
    <2>4. Going(w, b, content, L, R) /\ w.c <= L /\ ~w.stop BY DEF At, InLoop
    <2> HIDE DEF m, u
    <2>5. /\ Going(u, b, content, L, R) /\ u.c = w.c /\ u.q[u.c] = Went(c, m)
          /\ u.room = w.room - m /\ Len(u.out) = Len(w.out) + m /\ ~u.stop
        <3>1. u = K!Advance(w, w.c, m) BY DEF u
        <3> QED BY <2>1, <2>2, <2>4, <3>1, Carried
    <2>6. OpenFile(u.q[u.c])
        <3>1. K!ToSend(u.q[u.c]) = all - m BY <1>1, <2>2, <2>5, PieceSent DEF Divided, all
        <3> QED BY <1>2, <1>4, <2>1, <3>1 DEF OpenFile, K!Finished
    <2>7. code \in {0, -1, -2} OBVIOUS
    <2>8. code = 0 => Blocked(u, b, L, R) BY <1>1, <1>2, <2>1, <2>5 DEF Blocked
    <2> HIDE DEF code
    <2>9. InLoop(v, b, content, L, R) /\ v.out = u.out /\ v.stop BY <2>3, <2>5, <2>6, <2>7, <2>8, Stops
    <2>10. Len(v.out) >= Len(w.out) BY <1>1, <1>2, <2>1, <2>5, <2>9
    <2> QED BY <2>9, <2>10 DEF Goes
<1>5. CASE ~(n < all /\ w.room >= n)
    <2>1. v = K!Put(w, all) BY <1>5 DEF K!WriteSsl, n, all
    <2>2. all \in 0..K!ToSend(w.q[w.c]) /\ (all = 0 => K!Finished(w.q[w.c])) BY <1>2, <1>3 DEF all
    <2> QED BY <2>1, <2>2, PartGoes
<1> QED BY <1>4, <1>5

\* network_writev.c: the window that is mapped first holds, or ends at, the start of the range
LEMMA FirstWindow ==
    ASSUME FileSize \in Nat, Window \in Nat \ {0}, NEW c, c.start \in 0..FileSize
    PROVE  K!First(c) \in Int /\ K!First(c) + Window >= c.start
<1> DEFINE B == {k \in 0..FileSize : Window * (k + 1) >= c.start}
<1>1. \A k \in 0..FileSize : Window * (k + 1) >= k + 1
    <2> TAKE k \in 0..FileSize
    <2> DEFINE m == k + 1
    <2>1. m \in Nat BY FileSize \in Nat
    <2> HIDE DEF m
    <2>2. Window * m >= m BY <2>1, Z3
    <2> QED BY <2>2 DEF m
<1>2. FileSize \in B BY <1>1
<1>3. PICK k \in B : \A j \in B : k <= j
    <2>1. B \in SUBSET (0..FileSize) /\ B # {} BY <1>2
    <2> HIDE DEF B
    <2> QED BY <2>1, LeastNumber
<1>4. \A j \in 0..k - 1 : Window * (j + 1) < c.start
    <2> TAKE j \in 0..k - 1
    <2>1. j \in 0..FileSize /\ ~(k <= j) BY <1>3
    <2>2. j \notin B BY <1>3, <2>1
    <2>3. Window * (j + 1) \in Int
        <3>1. j + 1 \in Int /\ Window \in Int BY <2>1
        <3> QED BY <3>1
    <2> QED BY <2>1, <2>2, <2>3
<1> DEFINE least == CHOOSE i \in 0..FileSize :
                        Window * (i + 1) >= c.start /\ \A j \in 0..i - 1 : Window * (j + 1) < c.start
<1>5. least \in 0..FileSize /\ Window * (least + 1) >= c.start BY <1>3, <1>4
<1>6. K!First(c) = Window * least BY DEF K!First
<1> HIDE DEF least
<1>7. Window * (least + 1) = Window * least + Window /\ Window * least \in Int
    <2>1. Window \in Int /\ least \in Int BY <1>5
    <2> QED BY ONLY <2>1, Z3
<1> QED BY <1>5, <1>6, <1>7

\* a window that is looked at: what is mapped of the chunk from its place on can be sent, and if
\* this is nothing then it had just been mapped
LEMMA NextWindow ==
    ASSUME FileSize \in Nat, Window \in Nat \ {0}, NEW c \in Pieces("writev"), c.type = "file",
           ~K!Finished(c), NEW m, m = K!Map(c), NEW d, d = [c EXCEPT !.map = m],
           NEW n, n = m.offset + m.length - K!Place(c)
    PROVE  /\ d \in Pieces("writev") /\ K!Left(d) = K!Left(c) /\ OpenFile(d)
           /\ Sendable(d, n, "writev") /\ n \in Nat
           /\ n = 0 => Ready(d) /\ ~Ready(c)
<1> DEFINE all == Len(c.data)
           place == c.start + c.offset
           end == c.start + all
<1>1. /\ c.start \in 0..FileSize /\ c.offset \in Nat /\ c.offset <= all /\ c.data \in Seq(Values)
      /\ c.map \in [offset : Int, length : Int, mapped : BOOLEAN]
      /\ c.map.mapped => Windowed(c)
      /\ ~c.map.mapped => c.offset = 0
    BY DEF Pieces
<1>2. all \in Nat /\ place \in Nat /\ end \in Nat BY <1>1, LenProperties
<1>3. K!ToSend(c) = all - c.offset /\ c.offset < all BY <1>1, <1>2 DEF K!Finished, K!ToSend, K!Length
<1>4. place < end BY <1>1, <1>2, <1>3
<1> DEFINE last == m.offset + m.length
<1>5. /\ m \in [offset : Int, length : Int, mapped : BOOLEAN] /\ m.mapped
      /\ place <= last /\ last <= end /\ (m.length = Window \/ last = end)
      /\ last = place => ~Ready(c)
    <2>1. CASE c.map.mapped /\ place # c.map.offset + c.map.length
        <3>1. m = c.map BY <2>1 DEF K!Map, K!Place
        <3> QED BY <1>1, <2>1, <3>1 DEF Windowed, Ready
    <2>2. CASE c.map.mapped /\ place = c.map.offset + c.map.length
        <3> DEFINE o == c.map.offset + Window
        <3>1. m = [offset |-> o, mapped |-> TRUE, length |-> K!Least(Window, end - o)]
            <4>1. c.map.mapped /\ ~(K!Place(c) # c.map.offset + c.map.length) BY <2>2 DEF K!Place
            <4>2. m = [offset |-> o, mapped |-> TRUE, length |-> K!Least(Window, c.start + K!Length(c) - o)]
                BY <4>1 DEF K!Map
            <4>3. K!Length(c) = all BY DEF K!Length
            <4>4. c.start + K!Length(c) - o = end - o
                <5>1. c.start \in Int /\ all \in Int /\ o \in Int BY <1>1, <1>2
                <5> QED BY <4>3, <5>1
            <4> HIDE DEF o
            <4> QED BY <4>2, <4>4
        <3>2. c.map.length = Window /\ o = place BY <1>1, <1>2, <1>4, <2>2 DEF Windowed
        <3>3. m.offset = place /\ m.mapped = TRUE /\ m.length = K!Least(Window, end - place) BY <3>1, <3>2
        <3>4. K!Least(Window, end - place) \in Int BY <1>2 DEF K!Least
        <3>5. m \in [offset : Int, length : Int, mapped : BOOLEAN] BY <1>2, <3>1, <3>2, <3>4
        <3> HIDE DEF place, end
        <3>6. place <= last /\ last <= end /\ (m.length = Window \/ last = end) /\ last # place
            BY <1>2, <1>4, <3>3 DEF K!Least
        <3> QED BY <3>3, <3>5, <3>6
    <2>3. CASE ~c.map.mapped
        <3> DEFINE o == K!First(c)
        <3>1. m = [offset |-> o, mapped |-> TRUE, length |-> K!Least(Window, end - o)]
            <4>1. m = [offset |-> o, mapped |-> TRUE, length |-> K!Least(Window, c.start + K!Length(c) - o)]
                BY <2>3 DEF K!Map
            <4>2. K!Length(c) = all BY DEF K!Length
            <4>3. c.start + K!Length(c) - o = end - o
                <5>1. c.start \in Int /\ all \in Int /\ o \in Int BY <1>1, <1>2, FirstWindow
                <5> HIDE DEF o
                <5> QED BY <4>2, <5>1
            <4> HIDE DEF o
            <4> QED BY <4>1, <4>3
        <3>2. o \in Int /\ o + Window >= c.start /\ place = c.start BY <1>1, <2>3, FirstWindow
        <3> HIDE DEF o, place, end
        <3>3. m.offset = o /\ m.mapped = TRUE /\ m.length = K!Least(Window, end - o) BY <3>1
        <3>4. K!Least(Window, end - o) \in Int BY <1>2, <3>2 DEF K!Least
        <3>5. m \in [offset : Int, length : Int, mapped : BOOLEAN] BY <3>1, <3>2, <3>4
        <3>6. place <= last /\ last <= end /\ (m.length = Window \/ last = end)
            BY <1>1, <1>2, <1>4, <3>2, <3>3 DEF K!Least
        <3> QED BY <2>3, <3>3, <3>5, <3>6 DEF Ready
    <2> QED BY <2>1, <2>2, <2>3
<1>6. /\ d.type = "file" /\ d.data = c.data /\ d.start = c.start /\ d.offset = c.offset /\ d.map = m
      /\ d \in [type : {"mem", "file"}, data : Seq(Values), start : 0..FileSize, offset : Nat,
                map : [offset : Int, length : Int, mapped : BOOLEAN]]
    <2>1. c = [type |-> c.type, data |-> c.data, start |-> c.start, offset |-> c.offset, map |-> c.map] BY DEF Pieces
    <2>2. d = [type |-> "file", data |-> c.data, start |-> c.start, offset |-> c.offset, map |-> m] BY <2>1
    <2>3. d.type = "file" /\ d.data = c.data /\ d.start = c.start /\ d.offset = c.offset /\ d.map = m BY ONLY <2>2
    <2> DEFINE starts == 0..FileSize
    <2>4. c.start \in starts /\ c.data \in Seq(Values) /\ c.offset \in Nat BY <1>1
    <2>5. m \in [offset : Int, length : Int, mapped : BOOLEAN] BY <1>5
    <2> HIDE DEF starts
    <2>6. d \in [type : {"mem", "file"}, data : Seq(Values), start : starts, offset : Nat,
                map : [offset : Int, length : Int, mapped : BOOLEAN]]
        BY ONLY <2>2, <2>4, <2>5
    <2> QED BY <2>3, <2>6 DEF starts
<1> HIDE DEF all
<1>7. d \in Pieces("writev")
    <2>1. Windowed(d) /\ d.map.mapped /\ d.offset <= Len(d.data) BY <1>1, <1>5, <1>6 DEF Windowed, all
    <2> QED BY <1>6, <2>1 DEF Pieces
<1>8. K!Left(d) = K!Left(c) /\ K!ToSend(d) = K!ToSend(c) BY <1>6 DEF K!Left, K!ToSend, K!Length
<1>9. OpenFile(d) BY <1>8 DEF OpenFile, K!Finished
<1>10. n = last - place
    <2>1. K!Place(c) = place BY DEF K!Place
    <2>2. m.offset \in Int /\ m.length \in Int BY <1>5
    <2> QED BY <1>2, <2>1, <2>2
<1>11. last \in Int /\ n \in 0..K!ToSend(c) /\ place + n <= last
    <2>1. last \in Int BY <1>5
    <2>2. end - place = K!ToSend(c) BY <1>1, <1>2, <1>3
    <2>3. place <= last /\ last <= end BY <1>5
    <2> HIDE DEF last, place, end
    <2> QED BY <1>2, <1>10, <2>1, <2>2, <2>3
<1>12. Sendable(d, n, "writev") BY <1>5, <1>6, <1>8, <1>11 DEF Sendable
<1>13. n = 0 => Ready(d) /\ ~Ready(c) BY ONLY <1>2, <1>5, <1>6, <1>10, <1>11 DEF Ready
<1> QED BY <1>7, <1>8, <1>9, <1>11, <1>12, <1>13

LEMMA WindowGoes ==
    ASSUME FileSize \in Nat, {Page, Window} \subseteq Nat \ {0}, size \in known, known \in SUBSET Nat,
           NEW content, NEW L, NEW R, NEW w, At(w, "writev", content, L, R), w.q[w.c].type = "file", NEW v, v = K!WriteWindow(w)
    PROVE  Goes(w, v, "writev", content, L, R)
<1> DEFINE b == "writev"
           i == w.c
           c == w.q[i]
           m == K!Map(c)
           n == m.offset + m.length - K!Place(c)
           d == [c EXCEPT !.map = m]
           r == [w.q EXCEPT ![i] = d]
           u == [w EXCEPT !.q[w.c].map = m]
<1>1. /\ w \in Loops(b) /\ c \in Pieces(b) /\ i \in 1..L /\ L = Len(w.q) /\ L \in Nat /\ OpenFile(c)
      /\ w.q \in Seq(Pieces(b)) /\ Len(w.out) \in Nat /\ ~w.stop
    <2>1. w \in Loops(b) BY AtChunk
    <2>2. w.q \in Seq(Pieces(b)) BY <2>1 DEF Loops
    <2> QED BY <2>2, AtChunk DEF At
<1>2. /\ d \in Pieces(b) /\ K!Left(d) = K!Left(c) /\ OpenFile(d) /\ Sendable(d, n, b) /\ n \in Nat
      /\ n = 0 => Ready(d) /\ ~Ready(c)
    <2>1. /\ c.type = "file" /\ ~K!Finished(c) /\ c \in Pieces("writev") /\ m = K!Map(c)
          /\ d = [c EXCEPT !.map = m] /\ n = m.offset + m.length - K!Place(c)
        BY <1>1 DEF OpenFile
    <2> HIDE DEF c, m, d, n
    <2>2. /\ d \in Pieces("writev") /\ K!Left(d) = K!Left(c) /\ OpenFile(d)
          /\ Sendable(d, n, "writev") /\ n \in Nat /\ (n = 0 => Ready(d) /\ ~Ready(c))
        BY <2>1, NextWindow
    <2> QED BY <2>2
<1>3. r \in Seq(Pieces(b)) /\ Len(r) = L /\ r[i] = d /\ \A j \in 1..L : j # i => r[j] = w.q[j]
    <2> DEFINE q == w.q
    <2>1. q \in Seq(Pieces(b)) /\ i \in 1..Len(q) /\ d \in Pieces(b) /\ r = [q EXCEPT ![i] = d] BY <1>1, <1>2
    <2> HIDE DEF q, d, r, i
    <2>2. r \in Seq(Pieces(b)) /\ Len(r) = Len(q) /\ \A j \in 1..Len(q) : r[j] = IF j = i THEN d ELSE q[j]
        BY <2>1, ExceptSeq
    <2> QED BY <1>1, <2>1, <2>2 DEF q
<1>4. u = [q |-> r, c |-> i, room |-> w.room, end |-> w.end, st |-> w.st, reach |-> w.reach,
           out |-> w.out, ret |-> w.ret, stop |-> w.stop, altered |-> w.altered]
    <2>1. w = [q |-> w.q, c |-> w.c, room |-> w.room, end |-> w.end, st |-> w.st, reach |-> w.reach,
               out |-> w.out, ret |-> w.ret, stop |-> w.stop, altered |-> w.altered]
        BY <1>1 DEF Loops
    <2>2. u = [w EXCEPT !.q = r] OBVIOUS
    <2> HIDE DEF u, r
    <2> QED BY <2>1, <2>2
<1> HIDE DEF r, d, u, m, n, c
<1>5. /\ u.q = r /\ u.c = i /\ u.room = w.room /\ u.out = w.out /\ u.ret = w.ret /\ u.stop = w.stop
      /\ u.altered = w.altered
    BY <1>4
<1>6. u \in Loops(b) BY <1>1, <1>3, <1>4 DEF Loops
<1>7. K!Rest(w.q) = K!Rest(r)
    <2> DEFINE moved == <<>>
               q == w.q
    <2>1. K!Left(q[i]) = moved \o K!Left(r[i]) /\ moved \in Content
        <3>1. K!Left(d) \in Seq(Values) BY <1>2, LeftContent DEF Content
        <3> DEFINE l == K!Left(d)
        <3> HIDE DEF l
        <3>2. <<>> \o l = l BY <3>1, ConcatEmptySeq DEF l
        <3> QED BY <1>2, <1>3, <3>2 DEF l, Content, c
    <2>2. \A j \in 1..(i - 1) : K!Left(q[j]) = <<>> /\ K!Left(r[j]) = <<>>
        <3> TAKE j \in 1..(i - 1)
        <3>1. j \in 1..L /\ j # i /\ K!Finished(q[j]) BY <1>1 DEF At, InLoop, Going
        <3>2. q[j] \in Pieces(b) BY <1>1, <3>1, ElementOfSeq
        <3> QED BY <1>3, <3>1, <3>2, LeftContent
    <2>3. \A j \in (i + 1)..L : K!Left(q[j]) = K!Left(r[j]) BY <1>1, <1>3
    <2>4. q \in Seq(Pieces(b)) /\ Len(q) = L /\ i \in 1..L BY <1>1
    <2>5. K!Rest(r) \in Seq(Values) BY <1>3, Walks DEF Content
    <2> DEFINE s == K!Rest(r)
    <2> HIDE DEF q, moved, i
    <2>6. K!Rest(q) = moved \o s
        <3>1. /\ q \in Seq(Pieces(b)) /\ r \in Seq(Pieces(b)) /\ Len(q) = Len(r) /\ i \in 1..Len(q)
              /\ moved \in Content /\ K!Left(q[i]) = moved \o K!Left(r[i])
              /\ \A j \in 1..(i - 1) : K!Left(q[j]) = <<>> /\ K!Left(r[j]) = <<>>
              /\ \A j \in (i + 1)..Len(q) : K!Left(q[j]) = K!Left(r[j])
            BY <1>3, <2>1, <2>2, <2>3, <2>4
        <3> QED BY ONLY ZenonT(60), <3>1, RestMoved DEF s
    <2> HIDE DEF s
    <2>7. moved \o s = s BY <2>5, ConcatEmptySeq DEF moved, s
    <2> QED BY <2>6, <2>7 DEF q, s
<1>8. Going(u, b, content, L, R)
    <2>1. \A j \in 1..(u.c - 1) : K!Finished(u.q[j])
        <3> SUFFICES ASSUME NEW j \in 1..(i - 1) PROVE K!Finished(r[j]) BY <1>5
        <3>1. j \in 1..L /\ j # i /\ K!Finished(w.q[j]) BY <1>1 DEF At, InLoop, Going
        <3> QED BY <1>3, <3>1
    <2>2. \A j \in (u.c + 1)..L : OpenFile(u.q[j])
        <3> SUFFICES ASSUME NEW j \in (i + 1)..L PROVE OpenFile(r[j]) BY <1>5
        <3>1. j \in 1..L /\ j # i /\ OpenFile(w.q[j]) BY <1>1 DEF At, InLoop, Going
        <3> QED BY <1>3, <3>1
    <2> QED BY <1>1, <1>3, <1>5, <1>6, <1>7, <2>1, <2>2 DEF At, InLoop, Going
<1>9. At(u, b, content, L, R) /\ u.q[u.c] = d
    <2>1. u.q[u.c] = d /\ u.c <= L /\ ~u.stop BY <1>1, <1>3, <1>5
    <2> QED BY <1>2, <1>8, <2>1 DEF At, InLoop
<1>10. CASE K!Place(c) > w.st
    <2>1. v = K!Stop(w, -1) BY <1>10 DEF K!WriteWindow, c
    <2> QED BY <2>1, StopGoes
<1>11. CASE ~(K!Place(c) > w.st)
    <2> DEFINE end == K!PageEnd(size)
               readable == K!Before(c, n, end)
               whole == readable = n
               good == size
    <2>1. v = K!PutMapped(u, n, whole, readable, good) BY <1>11 DEF K!WriteWindow, c, n, m, u
    <2>2. Sendable(u.q[u.c], n, b) /\ (n = 0 => b = "writev" /\ Ready(u.q[u.c])) BY <1>2, <1>9
    <2>3. K!Place(c) \in Nat /\ K!Place(u.q[u.c]) = K!Place(c)
        <3>1. c.start \in Nat /\ c.offset \in Nat BY <1>1 DEF Pieces
        <3>2. d.start = c.start /\ d.offset = c.offset BY <1>1 DEF d, Pieces
        <3> QED BY <1>9, <3>1, <3>2 DEF K!Place
    <2>4. good \in Nat /\ end \in Int
        <3>1. size \in Nat OBVIOUS
        <3> QED BY <3>1, PageEnds
    <2> HIDE DEF end
    <2>5. readable \in 0..n /\ (readable > 0 => K!Place(c) + readable <= end)
        BY <1>2, <2>3, <2>4, ReadBefore
    <2> HIDE DEF readable
    <2>6. ASSUME NEW k \in 0..n, whole \/ k <= readable, NEW p \in K!Place(c)..K!Place(c) + k - 1, p >= good
          PROVE  p \in Odd(b)
        <3>1. k <= readable /\ k > 0 BY <1>2, <2>3, <2>5, <2>6
        <3>2. p \in Int /\ p < end BY <1>2, <2>3, <2>4, <2>5, <2>6, <3>1
        <3>3. size <= p BY <2>6
        <3> QED BY <3>2, <3>3 DEF Odd, end
    <2>7. whole \in BOOLEAN /\ good \in Int BY <2>4
    <2> HIDE DEF whole, good
    <2>8. /\ InLoop(v, b, content, L, R) /\ Len(v.out) >= Len(u.out) /\ (v.stop \/ v.c > u.c)
          /\ n > 0 /\ u.room > 0 => Len(v.out) > Len(u.out) \/ v.ret # 0
        BY <1>9, <2>1, <2>2, <2>3, <2>5, <2>6, <2>7, MappingGoes
    <2>9. Ready(c) => n > 0 BY <1>2
    <2> QED BY <1>5, <2>8, <2>9 DEF Goes, c
<1> QED BY <1>10, <1>11

-----------------------------------------------------------------------------
(***************************************************************************)
(* writev(): the chunks in memory from w.c on, n of them, and what they    *)
(* come to.                                                                *)
(***************************************************************************)
Vector(w, n, L) == n \in 1..L + 1 - w.c /\ \A j \in w.c..w.c + n - 1 : w.q[j].type = "mem"
LEMMA IovIs ==
    ASSUME MaxIov \in Nat \ {0}, NEW b, NEW content, NEW L, NEW R, NEW w, At(w, b, content, L, R),
           w.q[w.c].type = "mem"
    PROVE  Vector(w, K!Iov(w), L)
<1>1. w.c \in 1..L /\ L = Len(w.q) /\ L \in Nat BY AtChunk
<1> DEFINE others == {j \in w.c..Len(w.q) : w.q[j].type # "mem"} \cup {Len(w.q) + 1, w.c + MaxIov}
           top == L + 1 + MaxIov
           least == CHOOSE j \in others : \A k \in others : j <= k
<1>2. top \in Nat /\ others \in SUBSET (0..top) /\ others # {} BY <1>1
<1>3. least \in others /\ \A k \in others : least <= k
    <2> HIDE DEF others, top
    <2> QED BY <1>2, LeastNumber
<1>4. \A k \in others : k > w.c
    <2> TAKE k \in others
    <2>1. CASE k \in {Len(w.q) + 1, w.c + MaxIov} BY <1>1, <2>1
    <2>2. CASE k \in w.c..Len(w.q) /\ w.q[k].type # "mem"
        <3>1. k # w.c BY <2>2
        <3> QED BY <1>1, <2>2, <3>1
    <2> QED BY <2>1, <2>2
<1>5. least > w.c /\ least <= L + 1 /\ least \in Nat
    <2>1. L + 1 \in others BY <1>1
    <2>2. least \in Nat
        <3>1. least \in 0..top BY <1>2, <1>3
        <3> HIDE DEF least
        <3> QED BY <3>1
    <2> HIDE DEF others, least, top
    <2> QED BY <1>3, <1>4, <2>1, <2>2
<1>6. \A j \in w.c..(least - 1) : w.q[j].type = "mem"
    <2> SUFFICES ASSUME NEW j \in w.c..(least - 1), w.q[j].type # "mem" PROVE FALSE OBVIOUS
    <2>1. j \in w.c..Len(w.q)
        <3> HIDE DEF least
        <3> QED BY <1>1, <1>5
    <2>2. j \in others BY <2>1
    <2>3. least <= j BY <1>3, <2>2
    <2> HIDE DEF least
    <2> QED BY <1>1, <1>5, <2>3
<1>7. K!Iov(w) = least - w.c BY DEF K!Iov
<1> DEFINE n == least - w.c
<1> HIDE DEF least
<1>8. n \in 1..L + 1 - w.c /\ w.c + n - 1 = least - 1 BY <1>1, <1>5
<1> QED BY <1>6, <1>7, <1>8 DEF Vector

Sums(t, w, n) ==
    /\ t \in [0..n -> Nat] /\ t[0] = 0 /\ K!Total(w, n) = t[n]
    /\ \A k \in 1..n : t[k] = t[k - 1] + K!ToSend(w.q[w.c + k - 1])
    /\ \A k \in 0..n : t[k] <= t[n]
LEMMA TotalIs ==
    ASSUME NEW b, NEW L \in Nat, NEW w \in Loops(b), Len(w.q) = L, w.c \in 1..L, NEW n, Vector(w, n, L)
    PROVE  \E t : Sums(t, w, n)
<1>1. n \in Nat /\ \A k \in 1..n : w.c + k - 1 \in 1..L BY DEF Vector
<1>2. \A k \in 1..n : K!ToSend(w.q[w.c + k - 1]) \in Nat
    <2> TAKE k \in 1..n
    <2>1. w.q \in Seq(Pieces(b)) BY DEF Loops
    <2> DEFINE j == w.c + k - 1
    <2>2. j \in 1..Len(w.q) BY <1>1
    <2> HIDE DEF j
    <2>3. w.q[j] \in Pieces(b) BY <2>1, <2>2, ElementOfSeq
    <2>4. K!ToSend(w.q[j]) \in Nat BY <2>3, LeftContent
    <2> QED BY <2>4 DEF j
<1> DEFINE more(k) == K!ToSend(w.q[w.c + k - 1])
           T == [x \in Nat \X (1..n) |-> x[1] + more(x[2])]
           total == CHOOSE f : f = [k \in 0..n |-> IF k = 0 THEN 0 ELSE f[k - 1] + more(k)]
<1>3. T \in [Nat \X (1..n) -> Nat]
    <2> SUFFICES ASSUME NEW s \in Nat, NEW k \in 1..n PROVE s + more(k) \in Nat OBVIOUS
    <2>1. more(k) \in Nat BY <1>2
    <2> HIDE DEF more
    <2> QED BY <2>1
<1>4. PICK f \in [0..n -> Nat] : Steps(f, n, 0, T)
    <2> HIDE DEF T
    <2>1. 0 \in Nat OBVIOUS
    <2> QED BY <1>1, <1>3, <2>1, StepsExist
<1>5. ASSUME NEW k \in 1..n PROVE k - 1 \in 0..n /\ k \in 0..n /\ f[k] = f[k - 1] + more(k)
    <2>1. k - 1 \in 0..n /\ k \in 0..n BY <1>1
    <2>2. f[k] = T[<<f[k - 1], k>>] BY <1>4 DEF Steps
    <2>3. f[k - 1] \in Nat BY <1>4, <2>1
    <2> HIDE DEF more
    <2> QED BY <2>1, <2>2, <2>3
<1>6. f[0] = 0 BY <1>4 DEF Steps
<1> HIDE DEF T
<1>7. f = [k \in 0..n |-> IF k = 0 THEN 0 ELSE f[k - 1] + more(k)]
    <2>1. ASSUME NEW k \in 0..n PROVE f[k] = IF k = 0 THEN 0 ELSE f[k - 1] + more(k)
        <3> HIDE DEF more
        <3>1. CASE k = 0 BY <1>6, <3>1
        <3>2. CASE k # 0
            <4>1. k \in 1..n BY <1>1, <3>2
            <4> QED BY <1>5, <3>2, <4>1
        <3> QED BY <3>1, <3>2
    <2> HIDE DEF more
    <2> QED BY <2>1
<1>8. total = [k \in 0..n |-> IF k = 0 THEN 0 ELSE total[k - 1] + more(k)] BY <1>7
<1>9. K!Total(w, n) = total[n] BY DEF K!Total
<1> HIDE DEF total, more
<1>10. total[0] = 0 BY <1>1, <1>8
<1>11. \A k \in 1..n : total[k] = total[k - 1] + more(k)
    <2> TAKE k \in 1..n
    <2>1. k \in 0..n /\ k # 0 BY <1>1
    <2> QED BY <1>8, <2>1
<1>12. \A k \in 0..n : total[k] = f[k]
    <2> DEFINE B == {k \in 0..n : total[k] = f[k]}
    <2>1. 0 \in B BY <1>1, <1>6, <1>10
    <2>2. \A k \in 1..n : k - 1 \in B => k \in B BY <1>5, <1>11
    <2>3. \A k \in 0..n : k \in B
        <3> HIDE DEF B
        <3> QED BY <1>1, <2>1, <2>2, AllNumbers
    <2> QED BY <2>3
<1> DEFINE Grows == {i \in 0..n : \A k \in 0..i : f[k] <= f[i]}
<1>13. 0 \in Grows BY <1>1, <1>4
<1>14. ASSUME NEW i \in 1..n, i - 1 \in Grows PROVE i \in Grows
    <2>1. i \in 0..n /\ f[i] \in Nat /\ f[i - 1] \in Nat /\ f[i - 1] <= f[i]
        <3>1. i \in 0..n /\ i - 1 \in 0..n /\ f[i] = f[i - 1] + more(i) BY <1>5
        <3>2. more(i) \in Nat BY <1>2 DEF more
        <3>3. f[i] \in Nat /\ f[i - 1] \in Nat BY <1>4, <3>1
        <3> QED BY <3>1, <3>2, <3>3
    <2>2. ASSUME NEW k \in 0..i PROVE f[k] <= f[i]
        <3>1. CASE k = i BY <2>1, <3>1
        <3>2. CASE k # i
            <4>1. k \in 0..i - 1 /\ k \in 0..n BY <1>1, <3>2
            <4>2. f[k] <= f[i - 1] /\ f[k] \in Nat BY <1>4, <1>14, <4>1
            <4> QED BY <2>1, <4>2
        <3> QED BY <3>1, <3>2
    <2> QED BY <2>1, <2>2
<1>15. \A i \in 0..n : i \in Grows
    <2> HIDE DEF Grows
    <2> QED BY <1>1, <1>13, <1>14, AllNumbers
<1>16. \A k \in 0..n : f[k] <= f[n] BY <1>1, <1>15
<1>17. K!Total(w, n) = f[n] BY <1>1, <1>9, <1>12
<1> QED BY <1>4, <1>5, <1>6, <1>16, <1>17 DEF Sums, more

(***************************************************************************)
(* How many of r0 units are shared out: s after k of the chunks.           *)
(***************************************************************************)
SharedOut(s, w, k, total, r0, b, content, L, R) ==
    /\ InLoop(s.w, b, content, L, R) /\ ~s.w.stop
    /\ \A j \in w.c + k..L : s.w.q[j] = w.q[j]
    /\ ~s.partly => s.w.c = w.c + k /\ s.r = r0 - total /\ s.r + Len(s.w.out) = r0 + Len(w.out)
    /\ s.partly => total > r0 /\ Len(s.w.out) = Len(w.out) + r0
Shares(b) == [w : Loops(b), r : Nat, partly : BOOLEAN]

LEMMA ShareKeeps ==
    ASSUME NEW b, NEW content, NEW L, NEW R, NEW w, At(w, b, content, L, R), NEW n, Vector(w, n, L),
           NEW r0 \in Nat, r0 <= w.room, NEW k \in 1..n, NEW total \in Nat,
           NEW s \in Shares(b), SharedOut(s, w, k - 1, total, r0, b, content, L, R),
           NEW next \in Nat, next = total + K!ToSend(w.q[w.c + k - 1]),
           NEW z, z = K!Share(s, w.c + k - 1)
    PROVE  z \in Shares(b) /\ SharedOut(z, w, k, next, r0, b, content, L, R)
<1> DEFINE i == w.c + k - 1
           x == s.w
           c == x.q[i]
           u == K!ToSend(c)
<1>1. /\ w.c \in 1..L /\ L \in Nat /\ n \in 1..L + 1 - w.c /\ i \in 1..L /\ w.q[i].type = "mem"
      /\ w.room \in Nat /\ Len(w.out) \in Nat /\ Len(w.out) + w.room = R
    <2>1. w.c \in 1..L /\ L \in Nat /\ n \in 1..L + 1 - w.c /\ i \in w.c..w.c + n - 1 BY AtChunk DEF Vector
    <2> HIDE DEF i
    <2>2. i \in 1..L BY <2>1
    <2>3. w.q[i].type = "mem" BY <2>1 DEF Vector
    <2> QED BY <2>1, <2>2, <2>3, AtChunk
<1>2. s = [w |-> x, r |-> s.r, partly |-> s.partly] /\ x \in Loops(b) /\ s.r \in Nat /\ s.partly \in BOOLEAN
    BY DEF Shares
<1>3. InLoop(x, b, content, L, R) /\ ~x.stop /\ \A j \in w.c + (k - 1)..L : x.q[j] = w.q[j]
    BY DEF SharedOut
<1>4. c = w.q[i] /\ c.type = "mem" /\ next = total + u
    <2>1. i \in w.c + (k - 1)..L BY <1>1
    <2> QED BY <1>1, <1>3, <2>1
<1>5. \A j \in w.c + k..L : x.q[j] = w.q[j] /\ j # i /\ j \in 1..L
    <2> TAKE j \in w.c + k..L
    <2>1. j \in w.c + (k - 1)..L /\ j # i /\ j \in 1..L BY ONLY <1>1
    <2> QED BY <1>3, <2>1
<1>6. CASE s.partly
    <2>1. z = s BY <1>6 DEF K!Share, K!ShareOne
    <2>2. total > r0 /\ Len(x.out) = Len(w.out) + r0 BY <1>6 DEF SharedOut
    <2>3. next > r0
        <3>1. x.q \in Seq(Pieces(b)) /\ Len(x.q) = L BY <1>2, <1>3 DEF Loops, InLoop, Going
        <3> HIDE DEF i, x
        <3>2. c \in Pieces(b) BY <1>1, <3>1, ElementOfSeq
        <3>3. u \in Nat BY <3>2, LeftContent
        <3> HIDE DEF u
        <3> QED BY <1>4, <2>2, <3>3
    <2> QED BY <1>3, <1>5, <1>6, <2>1, <2>2, <2>3 DEF SharedOut
<1>7. CASE ~s.partly
    <2>1. x.c = i /\ s.r = r0 - total /\ s.r + Len(x.out) = r0 + Len(w.out)
        <3>1. x.c = w.c + (k - 1) /\ s.r = r0 - total /\ s.r + Len(x.out) = r0 + Len(w.out) BY <1>7 DEF SharedOut
        <3> QED BY <1>1, <3>1
    <2>2. At(x, b, content, L, R) BY <1>1, <1>3, <2>1 DEF At
    <2> HIDE DEF x, i
    <2>3. /\ c \in Pieces(b) /\ x.room \in Nat /\ Len(x.out) \in Nat /\ Len(x.out) + x.room = R
          /\ Going(x, b, content, L, R) /\ x.c <= L
        BY ONLY <2>1, <2>2, AtChunk DEF At, InLoop
    <2>4. u \in Nat BY <2>3, LeftContent
    <2>5. s.r <= x.room
        <3> DEFINE lw == Len(w.out)  lx == Len(x.out)  rw == w.room  room_x == x.room  sr == s.r
        <3>1. /\ lw \in Nat /\ lx \in Nat /\ rw \in Nat /\ room_x \in Nat /\ sr \in Nat
              /\ lw + rw = R /\ lx + room_x = R /\ r0 <= rw /\ r0 \in Nat /\ sr + lx = r0 + lw
            BY <1>1, <1>2, <2>1, <2>3
        <3> HIDE DEF lw, lx, rw, room_x, sr
        <3>2. sr <= room_x BY ONLY <3>1
        <3> QED BY <3>2 DEF sr, room_x
    <2>6. \A m \in 0..u : Sendable(c, m, b)
        <3>1. ~c.map.mapped BY <1>4, <2>3 DEF Pieces, Windowed
        <3> QED BY <1>4, <3>1 DEF Sendable
    <2> DEFINE m == IF s.r >= u THEN u ELSE s.r
               a == K!Advance(x, i, m)
    <2>7. m \in 0..u /\ m <= s.r /\ m <= x.room BY <1>2, <2>3, <2>4, <2>5
    <2> HIDE DEF m
    <2>8. /\ Going(a, b, content, L, R) /\ a.c = i /\ a.q[i] = Went(c, m)
          /\ Len(a.out) = Len(x.out) + m /\ ~a.stop /\ \A j \in 1..L : j # i => a.q[j] = x.q[j]
        <3> DEFINE y == K!Advance(x, x.c, m)
        <3>1. Sendable(x.q[x.c], m, b) BY <2>1, <2>6, <2>7
        <3>2. y = K!Advance(x, x.c, m) OBVIOUS
        <3> HIDE DEF y
        <3>3. /\ Going(y, b, content, L, R) /\ y.c = x.c /\ y.q[y.c] = Went(x.q[x.c], m)
              /\ Len(y.out) = Len(x.out) + m /\ y.stop = x.stop /\ \A j \in 1..L : j # x.c => y.q[j] = x.q[j]
            BY ONLY <2>3, <2>7, <3>1, <3>2, Carried
        <3>4. y = a BY <2>1, <3>2
        <3> HIDE DEF a
        <3> QED BY <1>3, <2>1, <3>3, <3>4 DEF x
    <2>9. Divided(c, m, b) BY <2>3, <2>6, <2>7, PieceSent
    <2>10. a.q[i].type = "mem" /\ K!ToSend(a.q[i]) = u - m BY <1>4, <2>8, <2>9 DEF Divided
    <2> HIDE DEF a
    <2>11. CASE s.r >= u
        <3> DEFINE y == [a EXCEPT !.c = i + 1]
        <3>1. m = u BY <2>11 DEF m
        <3>2. z = [w |-> y, r |-> s.r - u, partly |-> FALSE]
            <4>1. ~s.partly /\ s.r >= K!ToSend(s.w.q[w.c + k - 1]) BY <1>7, <2>11 DEF x, i
            <4>2. z = [s EXCEPT !.r = @ - K!ToSend(s.w.q[w.c + k - 1]),
                                !.w = [K!Advance(s.w, w.c + k - 1, K!ToSend(s.w.q[w.c + k - 1]))
                                       EXCEPT !.c = (w.c + k - 1) + 1]]
                BY <4>1 DEF K!Share, K!ShareOne
            <4>3. z = [s EXCEPT !.r = s.r - u, !.w = y] BY <3>1, <4>2 DEF a, x, i
            <4>4. s.partly = FALSE BY <1>2, <1>7
            <4> HIDE DEF y, u
            <4> QED BY <1>2, <4>3, <4>4
        <3>3. K!Finished(a.q[a.c]) /\ a.c <= L /\ y = [a EXCEPT !.c = a.c + 1]
            BY <1>1, <2>4, <2>8, <2>10, <3>1 DEF K!Finished
        <3> HIDE DEF y, u
        <3>4. InLoop(y, b, content, L, R) /\ y.out = a.out /\ y.c = i + 1 /\ ~y.stop
            <4>1. InLoop(y, b, content, L, R) /\ y.out = a.out /\ y.c = a.c + 1 /\ ~y.stop
                BY <2>8, <3>3, Onward
            <4> QED BY <2>8, <4>1
        <3>5. y.q = a.q /\ y \in Loops(b)
            <4>1. a \in Loops(b) BY <2>8 DEF Going
            <4>2. y.q = a.q BY <3>3, <4>1 DEF Loops
            <4>3. y \in Loops(b) BY <3>4 DEF InLoop, Going
            <4> QED BY <4>2, <4>3
        <3>6. z.w = y /\ z.r = s.r - u /\ z.partly = FALSE BY <3>2
        <3>7. z \in Shares(b)
            <4>1. s.r - u \in Nat BY <1>2, <2>4, <2>11
            <4>2. y \in Loops(b) BY <3>5
            <4> QED BY ONLY <3>2, <4>1, <4>2 DEF Shares
        <3>8. \A j \in w.c + k..L : z.w.q[j] = w.q[j] BY <1>5, <2>8, <3>5, <3>6
        <3>9. z.w.c = w.c + k BY ONLY <1>1, <3>4, <3>6 DEF i
        <3>10. z.r = r0 - next /\ z.r + Len(z.w.out) = r0 + Len(w.out)
            <4> DEFINE lw == Len(w.out)  lx == Len(x.out)  la == Len(a.out)  sr == s.r
            <4>1. /\ lw \in Nat /\ lx \in Nat /\ sr \in Nat /\ u \in Nat
                  /\ next = total + u /\ sr = r0 - total /\ sr + lx = r0 + lw /\ la = lx + u
                BY <1>1, <1>2, <1>4, <2>1, <2>3, <2>4, <2>8, <3>1
            <4> HIDE DEF lw, lx, la, sr
            <4>2. sr - u = r0 - next /\ (sr - u) + la = r0 + lw BY ONLY <4>1, total \in Nat, r0 \in Nat
            <4>3. z.w.out = a.out /\ z.r = s.r - u BY <3>4, <3>6
            <4> QED BY <4>2, <4>3 DEF la, lw, sr
        <3> QED BY <3>4, <3>6, <3>7, <3>8, <3>9, <3>10 DEF SharedOut
    <2>12. CASE ~(s.r >= u)
        <3>1. m = s.r BY <2>12 DEF m
        <3>2. z = [w |-> a, r |-> s.r, partly |-> TRUE]
            <4>1. ~s.partly /\ ~(s.r >= K!ToSend(s.w.q[w.c + k - 1])) BY <1>7, <2>12 DEF x, i
            <4>2. z = [s EXCEPT !.partly = TRUE, !.w = [K!Advance(s.w, w.c + k - 1, s.r) EXCEPT !.c = w.c + k - 1]]
                BY <4>1 DEF K!Share, K!ShareOne
            <4>3. z = [s EXCEPT !.partly = TRUE, !.w = [a EXCEPT !.c = i]] BY <3>1, <4>2 DEF a, x, i
            <4>4. [a EXCEPT !.c = i] = a
                <5>1. a \in Loops(b) /\ a.c = i BY <2>8 DEF Going
                <5> QED BY <5>1 DEF Loops
            <4> QED BY <1>2, <4>3, <4>4
        <3>3. z.w = a /\ z.r = s.r /\ z.partly = TRUE BY <3>2
        <3>4. InLoop(a, b, content, L, R) BY <2>8, <2>10 DEF InLoop, OpenFile
        <3>5. z \in Shares(b)
            <4>1. a \in Loops(b) BY <2>8 DEF Going
            <4>2. s.r \in Nat BY <1>2
            <4> QED BY ONLY <3>2, <4>1, <4>2 DEF Shares
        <3>6. \A j \in w.c + k..L : z.w.q[j] = w.q[j] BY <1>5, <2>8, <3>3
        <3> HIDE DEF u
        <3>7. next > r0 /\ Len(a.out) = Len(w.out) + r0
            <4>1. /\ Len(w.out) \in Nat /\ Len(x.out) \in Nat /\ s.r \in Nat /\ u \in Nat
                  /\ next = total + u /\ s.r = r0 - total /\ s.r + Len(x.out) = r0 + Len(w.out)
                  /\ Len(a.out) = Len(x.out) + s.r /\ ~(s.r >= u)
                BY <1>1, <1>2, <1>4, <2>1, <2>3, <2>4, <2>8, <2>12, <3>1 DEF u
            <4> QED BY ONLY <4>1, total \in Nat, r0 \in Nat
        <3> QED BY <2>8, <3>3, <3>4, <3>5, <3>6, <3>7 DEF SharedOut
    <2> QED BY <2>11, <2>12
<1> QED BY <1>6, <1>7

LEMMA SharedIs ==
    ASSUME NEW b, NEW content, NEW L, NEW R, NEW w, At(w, b, content, L, R), NEW n, Vector(w, n, L),
           NEW r0 \in Nat, r0 <= w.room,
           NEW z, z = K!Shared(w, n, r0)
    PROVE  z \in Shares(b) /\ SharedOut(z, w, n, K!Total(w, n), r0, b, content, L, R)
<1>1. w \in Loops(b) /\ L \in Nat /\ L = Len(w.q) /\ w.c \in 1..L /\ Len(w.out) \in Nat BY AtChunk
<1>2. n \in Nat BY <1>1 DEF Vector
<1>3. PICK t : Sums(t, w, n) BY <1>1, TotalIs
<1>4. /\ t \in [0..n -> Nat] /\ t[0] = 0 /\ K!Total(w, n) = t[n]
      /\ \A k \in 1..n : t[k] = t[k - 1] + K!ToSend(w.q[w.c + k - 1])
    BY <1>3 DEF Sums
<1> DEFINE S == Shares(b)
           P == [k \in 0..n |-> {s \in S : SharedOut(s, w, k, t[k], r0, b, content, L, R)}]
           first == [w |-> w, r |-> r0, partly |-> FALSE]
           next(s, k) == K!Share(s, w.c + k - 1)
           T == [x \in S \X (1..n) |-> next(x[1], x[2])]
           shared == CHOOSE f : f = [k \in 0..n |-> IF k = 0 THEN first ELSE next(f[k - 1], k)]
<1>5. first \in P[0]
    <2>1. first \in S BY <1>1 DEF Shares
    <2>2. SharedOut(first, w, 0, t[0], r0, b, content, L, R)
        <3>1. first.w = w /\ first.r = r0 /\ first.partly = FALSE OBVIOUS
        <3>2. w.c + 0 = w.c /\ r0 = r0 - 0 BY <1>1
        <3> HIDE DEF first
        <3>3. InLoop(w, b, content, L, R) /\ ~w.stop BY DEF At
        <3> QED BY <1>4, <3>1, <3>2, <3>3 DEF SharedOut
    <2> HIDE DEF S, first
    <2> QED BY <1>2, <2>1, <2>2
<1>6. ASSUME NEW k \in 1..n, NEW s \in P[k - 1] PROVE next(s, k) \in P[k] /\ T[<<s, k>>] = next(s, k)
    <2>1. k \in 0..n /\ k - 1 \in 0..n BY <1>2
    <2>2. s \in Shares(b) /\ SharedOut(s, w, k - 1, t[k - 1], r0, b, content, L, R) BY <2>1
    <2>3. t[k] \in Nat /\ t[k - 1] \in Nat /\ t[k] = t[k - 1] + K!ToSend(w.q[w.c + k - 1]) BY <1>4, <2>1
    <2> DEFINE z1 == K!Share(s, w.c + k - 1)
               total == t[k - 1]
               more == t[k]
    <2>4. z1 = K!Share(s, w.c + k - 1) OBVIOUS
    <2>5. total \in Nat /\ more \in Nat /\ more = total + K!ToSend(w.q[w.c + k - 1])
          /\ SharedOut(s, w, k - 1, total, r0, b, content, L, R)
        BY <2>2, <2>3
    <2> HIDE DEF z1, total, more
    <2>6. z1 \in Shares(b) /\ SharedOut(z1, w, k, more, r0, b, content, L, R)
        BY <2>2, <2>4, <2>5, ShareKeeps
    <2>7. z1 \in P[k] BY <2>1, <2>6 DEF more
    <2>8. next(s, k) = z1 BY DEF z1
    <2> HIDE DEF next, P
    <2>9. T[<<s, k>>] = next(s, k) BY <2>2
    <2> QED BY <2>7, <2>8, <2>9
<1>7. P \in [0..n -> SUBSET S]
    <2> HIDE DEF S
    <2> QED OBVIOUS
<1>8. \A k \in 1..n : \A s \in P[k - 1] : T[<<s, k>>] \in P[k]
    <2> TAKE k \in 1..n
    <2> TAKE s \in P[k - 1]
    <2> HIDE DEF P, T, next
    <2> QED BY <1>6
<1> HIDE DEF P, T, first, S
<1>9. PICK f \in [0..n -> S] : Steps(f, n, first, T) /\ \A k \in 0..n : f[k] \in P[k]
    BY <1>2, <1>5, <1>7, <1>8, StepsWithin
<1> HIDE DEF next
<1>10. f[0] = first /\ \A k \in 1..n : f[k] = next(f[k - 1], k)
    <2>1. f[0] = first /\ \A k \in 1..n : f[k] = T[<<f[k - 1], k>>] BY <1>9 DEF Steps
    <2>2. \A k \in 1..n : k - 1 \in 0..n BY <1>2
    <2> QED BY <1>6, <1>9, <2>1, <2>2
<1>11. f = [k \in 0..n |-> IF k = 0 THEN first ELSE next(f[k - 1], k)]
    <2>1. ASSUME NEW k \in 0..n PROVE f[k] = IF k = 0 THEN first ELSE next(f[k - 1], k)
        <3>1. CASE k = 0 BY <1>10, <3>1
        <3>2. CASE k # 0
            <4>1. k \in 1..n BY <1>2, <3>2
            <4> QED BY <1>10, <3>2, <4>1
        <3> QED BY <3>1, <3>2
    <2> QED BY <1>9, <2>1
<1>12. shared = [k \in 0..n |-> IF k = 0 THEN first ELSE next(shared[k - 1], k)] BY <1>11
<1>13. z = shared[n] BY DEF K!Shared, shared, first, next
<1> HIDE DEF shared
<1>14. \A k \in 0..n : shared[k] = f[k]
    <2> DEFINE B == {k \in 0..n : shared[k] = f[k]}
    <2>1. shared[0] = first BY <1>2, <1>12
    <2>2. \A k \in 1..n : shared[k] = next(shared[k - 1], k)
        <3> TAKE k \in 1..n
        <3>1. k \in 0..n /\ k # 0 BY <1>2
        <3> QED BY <1>12, <3>1
    <2>3. 0 \in B BY <1>2, <1>10, <2>1
    <2>4. \A k \in 1..n : k - 1 \in B => k \in B BY <1>10, <2>2
    <2>5. \A k \in 0..n : k \in B
        <3> HIDE DEF B
        <3> QED BY <1>2, <2>3, <2>4, AllNumbers
    <2> QED BY <2>5
<1>15. z \in P[n] BY <1>2, <1>9, <1>13, <1>14
<1> QED BY <1>2, <1>4, <1>15 DEF P, S

LEMMA MemoryGoes ==
    ASSUME MaxIov \in Nat \ {0}, NEW b, NEW content, NEW L, NEW R, NEW w, At(w, b, content, L, R),
           w.q[w.c].type = "mem", NEW v, v = K!WriteMemory(w)
    PROVE  Goes(w, v, b, content, L, R)
<1> DEFINE n == K!Iov(w)
           all == K!Total(w, n)
           r == K!Least(all, w.room)
           s == K!Shared(w, n, r)
           end == K!Code(w.end)
<1>1. /\ w.room \in Nat /\ Len(w.out) \in Nat /\ Len(w.out) + w.room = R /\ w.c \in 1..L /\ L \in Nat
      /\ w \in Loops(b) /\ L = Len(w.q) /\ w.end \in {"again", "error", "closed"}
    BY AtChunk
<1>2. Vector(w, n, L) BY IovIs
<1>3. all \in Nat /\ n \in Nat /\ n >= 1
    <2> HIDE DEF n
    <2>1. PICK t : Sums(t, w, n) BY <1>1, <1>2, TotalIs
    <2>2. n \in Nat /\ n >= 1 BY <1>1, <1>2 DEF Vector
    <2> QED BY <2>1, <2>2 DEF Sums
<1>4. r \in Nat /\ r <= w.room /\ r <= all /\ (r = all \/ r = w.room)
    <2> HIDE DEF all
    <2> QED BY <1>1, <1>3 DEF K!Least
<1>5. s \in Shares(b) /\ SharedOut(s, w, n, all, r, b, content, L, R)
    <2> HIDE DEF n, r
    <2>1. r \in Nat /\ r <= w.room BY <1>4
    <2> QED BY <1>2, <2>1, SharedIs
<1>6. Ready(w.q[w.c]) = FALSE BY DEF Ready
<1>7. v = IF all > 0 /\ w.room = 0 /\ w.end # "again" THEN K!Stop(w, end)
          ELSE IF s.partly THEN K!Stop(s.w, 0) ELSE s.w
    BY DEF K!WriteMemory
<1> HIDE DEF n, all, r, s
<1>8. CASE all > 0 /\ w.room = 0 /\ w.end # "again"
    <2>1. v = K!Stop(w, end) BY <1>7, <1>8
    <2>2. end \in {-1, -2} BY <1>1, <1>8 DEF K!Code
    <2> HIDE DEF end
    <2> QED BY <2>1, <2>2, StopGoes
<1>9. CASE ~(all > 0 /\ w.room = 0 /\ w.end # "again") /\ s.partly
    <2> DEFINE code == 0  x == s.w
    <2>1. v = K!Stop(x, code) BY <1>7, <1>9
    <2>2. InLoop(x, b, content, L, R) /\ ~x.stop /\ all > r /\ Len(x.out) = Len(w.out) + r
        BY <1>5, <1>9 DEF SharedOut
    <2>3. Going(x, b, content, L, R) /\ (x.c <= L => OpenFile(x.q[x.c])) BY <2>2 DEF InLoop
    <2> HIDE DEF x
    <2>4. r = w.room BY <1>1, <1>3, <1>4, <2>2
    <2>5. Blocked(x, b, L, R) BY <1>1, <2>2, <2>4 DEF Blocked
    <2>6. InLoop(v, b, content, L, R) /\ v.out = x.out /\ v.stop BY <2>1, <2>2, <2>3, <2>5, Stops
    <2>7. Len(v.out) >= Len(w.out) BY <1>1, <1>4, <2>2, <2>6
    <2> QED BY <1>6, <2>6, <2>7 DEF Goes
<1>10. CASE ~(all > 0 /\ w.room = 0 /\ w.end # "again") /\ ~s.partly
    <2>1. v = s.w BY <1>7, <1>10
    <2>2. /\ InLoop(v, b, content, L, R) /\ v.c = w.c + n /\ s.r = r - all
          /\ s.r + Len(v.out) = r + Len(w.out)
        BY <1>5, <1>10, <2>1 DEF SharedOut
    <2>3. v.c > w.c BY <1>1, <1>3, <2>2
    <2>4. Len(v.out) \in Nat
        <3>1. v.out \in Seq(Values) BY <2>2 DEF InLoop, Going, Loops, Content
        <3> QED BY <3>1, LenProperties
    <2>5. Len(v.out) >= Len(w.out) BY <1>1, <1>3, <1>4, <2>2, <2>4
    <2> QED BY <1>6, <2>2, <2>3, <2>5 DEF Goes
<1> QED BY <1>8, <1>9, <1>10

-----------------------------------------------------------------------------
LEMMA ChunkGoes ==
    ASSUME K!ChunksAssumption, backend \in Backends, size \in known, known \in SUBSET Nat, NEW content, NEW L, NEW R, NEW w,
           At(w, backend, content, L, R), NEW v, v = K!WriteChunk(w)
    PROVE  Goes(w, v, backend, content, L, R)
<1> DEFINE c == w.q[w.c]
           n == K!ToSend(c)
<1>1. c \in Pieces(backend) /\ ~w.stop BY AtChunk DEF At
<1>2. n \in Nat /\ n \in 0..K!ToSend(c) /\ (n = 0 => K!Finished(c)) BY <1>1, LeftContent DEF K!Finished
<1>3. c.type \in {"mem", "file"} BY <1>1 DEF Pieces
<1>4. FileSize \in Nat /\ {Page, Window} \subseteq Nat \ {0} /\ MaxIov \in Nat \ {0} /\ size \in Nat
    BY DEF K!ChunksAssumption
<1> HIDE DEF n
<1>5. CASE c.type = "mem" /\ backend \in {"write", "openssl"}
    <2>1. v = K!Put(w, n) BY <1>1, <1>5 DEF K!WriteChunk, n
    <2> QED BY <1>2, <1>5, <2>1, PartGoes
<1>6. CASE c.type = "mem" /\ backend \notin {"write", "openssl"}
    <2>1. v = K!WriteMemory(w) BY <1>1, <1>6 DEF K!WriteChunk
    <2> QED BY <1>4, <1>6, <2>1, MemoryGoes
<1>7. CASE c.type = "file" /\ backend = "write"
    <2>1. v = K!WriteMapped(w) BY <1>1, <1>7 DEF K!WriteChunk
    <2> QED BY <1>4, <1>7, <2>1, MappedGoes
<1>8. CASE c.type = "file" /\ backend = "writev"
    <2>1. v = K!WriteWindow(w) BY <1>1, <1>8 DEF K!WriteChunk
    <2> QED BY <1>4, <1>8, <2>1, WindowGoes
<1>9. CASE c.type = "file" /\ backend = "openssl"
    <2>1. v = K!WriteSsl(w) BY <1>1, <1>9 DEF K!WriteChunk
    <2> QED BY <1>4, <1>9, <2>1, SslGoes
<1>10. CASE c.type = "file" /\ backend \notin {"write", "writev", "openssl"}
    <2>1. v = K!WriteSendfile(w) BY <1>1, <1>10 DEF K!WriteChunk
    <2> QED BY <1>4, <1>10, <2>1, SendfileGoes
<1> QED BY <1>3, <1>5, <1>6, <1>7, <1>8, <1>9, <1>10

(***************************************************************************)
(* All chunks: v has come to chunk i of w.                                 *)
(***************************************************************************)
Reached(v, i, w, content, L, R) ==
    /\ InLoop(v, backend, content, L, R) /\ (v.stop \/ v.c > i) /\ (i = 0 => v = w)
    /\ i > 0 /\ backend = "writev" /\ R > 0 /\ Ready(w.q[1]) => Len(v.out) > 0 \/ v.ret # 0

LEMMA Reaches ==
    ASSUME K!ChunksAssumption, backend \in Backends, size \in known, known \in SUBSET Nat, NEW content, NEW L \in Nat, NEW R, NEW w,
           InLoop(w, backend, content, L, R), w.c = 1, ~w.stop, Len(w.out) = 0,
           NEW i \in 1..L, NEW v, Reached(v, i - 1, w, content, L, R),
           NEW z, z = K!WriteAt(v, i)
    PROVE  Reached(z, i, w, content, L, R)
<1>1. InLoop(v, backend, content, L, R) /\ v.c \in Nat /\ (v.stop \/ v.c > i - 1)
    BY DEF Reached, InLoop, Going
<1>2. i - 1 = 0 => v = w BY DEF Reached
<1>3. i > 0 /\ i # 0 OBVIOUS
<1>4. CASE v.c # i
    <2>1. z = v BY <1>4 DEF K!WriteAt
    <2>2. i - 1 > 0 \/ v.stop
        <3>1. CASE i = 1 BY <1>2, <1>4, <3>1
        <3>2. CASE i # 1 BY <3>2
        <3> QED BY <3>1, <3>2
    <2>3. v.stop \/ v.c > i BY <1>1, <1>4
    <2>4. i - 1 > 0
        <3>1. i = 1 => v.c = i BY <1>2
        <3> QED BY <1>4, <3>1
    <2> QED BY <1>3, <2>1, <2>3, <2>4 DEF Reached
<1>5. CASE v.c = i /\ v.stop
    <2>1. z = v BY <1>5 DEF K!WriteAt, K!WriteChunk
    <2>2. i - 1 > 0
        <3>1. i = 1 => ~v.stop BY <1>2
        <3> QED BY <1>5, <3>1
    <2> QED BY <1>3, <1>5, <2>1, <2>2 DEF Reached
<1>6. CASE v.c = i /\ ~v.stop
    <2>1. z = K!WriteChunk(v) BY <1>6 DEF K!WriteAt
    <2>2. At(v, backend, content, L, R) BY <1>1, <1>6 DEF At
    <2>3. Goes(v, z, backend, content, L, R) BY <2>1, <2>2, ChunkGoes
    <2>4. Len(v.out) \in Nat /\ v.room \in Nat /\ Len(v.out) + v.room = R /\ v.ret = 0 BY <2>2, AtChunk
    <2>5. Len(z.out) \in Nat
        <3>1. z.out \in Seq(Values) BY <2>3 DEF Goes, InLoop, Going, Loops, Content
        <3> QED BY <3>1, LenProperties
    <2>6. ASSUME backend = "writev", R > 0, Ready(w.q[1]) PROVE Len(z.out) > 0 \/ z.ret # 0
        <3>1. CASE i = 1
            <4>1. v = w /\ v.room > 0 /\ Ready(v.q[v.c]) BY <1>2, <1>6, <2>4, <2>6, <3>1
            <4> QED BY <2>3, <2>4, <2>5, <2>6, <4>1 DEF Goes
        <3>2. CASE i # 1
            <4>1. i - 1 > 0 BY <3>2
            <4>2. Len(v.out) > 0 BY <2>4, <2>6, <4>1 DEF Reached
            <4> QED BY <2>3, <2>4, <2>5, <4>2 DEF Goes
        <3> QED BY <3>1, <3>2
    <2> QED BY <1>3, <1>6, <2>3, <2>6 DEF Goes, Reached
<1> QED BY <1>4, <1>5, <1>6

LEMMA BackendWrites ==
    ASSUME K!ChunksAssumption, backend \in Backends, size \in known, known \in SUBSET Nat, NEW content, NEW L \in Nat, NEW R, NEW w,
           InLoop(w, backend, content, L, R), w.c = 1, ~w.stop, Len(w.out) = 0,
           NEW z, z = K!backend_write(w)
    PROVE  Reached(z, L, w, content, L, R)
<1>1. L = Len(w.q) BY DEF InLoop, Going
<1> DEFINE S == Loops(backend)
           P == [i \in 0..L |-> {v \in S : Reached(v, i, w, content, L, R)}]
           next(v, i) == K!WriteAt(v, i)
           T == [x \in S \X (1..L) |-> next(x[1], x[2])]
           written == CHOOSE f : f = [i \in 0..L |-> IF i = 0 THEN w ELSE next(f[i - 1], i)]
<1>2. w \in P[0]
    <2>1. w \in S BY DEF InLoop, Going
    <2>2. w.c > 0 /\ ~(0 > 0) OBVIOUS
    <2>3. Reached(w, 0, w, content, L, R) BY <2>2 DEF Reached
    <2> HIDE DEF S
    <2> QED BY <2>1, <2>3
<1>3. ASSUME NEW i \in 1..L, NEW v \in P[i - 1] PROVE next(v, i) \in P[i] /\ T[<<v, i>>] = next(v, i)
    <2>1. i \in 0..L /\ i - 1 \in 0..L OBVIOUS
    <2>2. v \in Loops(backend) /\ Reached(v, i - 1, w, content, L, R) BY <2>1
    <2> DEFINE z1 == K!WriteAt(v, i)
    <2>3. z1 = K!WriteAt(v, i) OBVIOUS
    <2> HIDE DEF z1
    <2>4. Reached(z1, i, w, content, L, R) BY <2>2, <2>3, Reaches
    <2>5. z1 \in Loops(backend) BY <2>4 DEF Reached, InLoop, Going
    <2>6. z1 \in P[i] BY <2>1, <2>4, <2>5
    <2>7. next(v, i) = z1 BY DEF z1
    <2> HIDE DEF next, P
    <2>8. T[<<v, i>>] = next(v, i) BY <2>2
    <2> QED BY <2>6, <2>7, <2>8
<1>4. P \in [0..L -> SUBSET S]
    <2> HIDE DEF S
    <2> QED OBVIOUS
<1>5. \A i \in 1..L : \A v \in P[i - 1] : T[<<v, i>>] \in P[i]
    <2> TAKE i \in 1..L
    <2> TAKE v \in P[i - 1]
    <2> HIDE DEF P, T, next
    <2> QED BY <1>3
<1> HIDE DEF P, T, S
<1>6. PICK f \in [0..L -> S] : Steps(f, L, w, T) /\ \A i \in 0..L : f[i] \in P[i]
    BY <1>2, <1>4, <1>5, StepsWithin
<1> HIDE DEF next
<1>7. f[0] = w /\ \A i \in 1..L : f[i] = next(f[i - 1], i)
    <2>1. f[0] = w /\ \A i \in 1..L : f[i] = T[<<f[i - 1], i>>] BY <1>6 DEF Steps
    <2>2. \A i \in 1..L : i - 1 \in 0..L OBVIOUS
    <2> QED BY <1>3, <1>6, <2>1, <2>2
<1>8. f = [i \in 0..L |-> IF i = 0 THEN w ELSE next(f[i - 1], i)]
    <2>1. ASSUME NEW i \in 0..L PROVE f[i] = IF i = 0 THEN w ELSE next(f[i - 1], i)
        <3>1. CASE i = 0 BY <1>7, <3>1
        <3>2. CASE i # 0
            <4>1. i \in 1..L BY <3>2
            <4> QED BY <1>7, <3>2, <4>1
        <3> QED BY <3>1, <3>2
    <2> QED BY <1>6, <2>1
<1>9. written = [i \in 0..L |-> IF i = 0 THEN w ELSE next(written[i - 1], i)] BY <1>8
<1>10. z = written[L]
    <2>1. z = K!backend_write(w) OBVIOUS
    <2> QED BY <1>1, <2>1 DEF K!backend_write, written, next
<1> HIDE DEF written
<1>11. \A i \in 0..L : written[i] = f[i]
    <2> DEFINE B == {i \in 0..L : written[i] = f[i]}
    <2>1. written[0] = w BY <1>9
    <2>2. \A i \in 1..L : written[i] = next(written[i - 1], i)
        <3> TAKE i \in 1..L
        <3>1. i \in 0..L /\ i # 0 OBVIOUS
        <3> QED BY <1>9, <3>1
    <2>3. 0 \in B BY <1>7, <2>1
    <2>4. \A i \in 1..L : i - 1 \in B => i \in B BY <1>7, <2>2
    <2>5. \A i \in 0..L : i \in B
        <3> HIDE DEF B
        <3> QED BY <2>3, <2>4, AllNumbers
    <2> QED BY <2>5
<1>12. z \in P[L] BY <1>6, <1>10, <1>11
<1> QED BY <1>12 DEF P

\* the queue is left with the chunks from the first on that is not finished
LEMMA Removed ==
    ASSUME NEW b, NEW content, NEW L, NEW R, NEW v, InLoop(v, b, content, L, R), v.ret = 0,
           v.stop \/ v.c > L, NEW left, left = K!remove_finished(v.q)
    PROVE  /\ left \in Seq(Pieces(b)) /\ K!Rest(left) = K!Rest(v.q)
           /\ \A j \in 1..Len(left) : OpenFile(left[j])
           /\ left # <<>> /\ Len(v.out) = 0 /\ R > 0 => b = "writev" /\ Ready(left[1])
<1> DEFINE q == v.q
           open == {i \in 1..Len(q) : ~K!Finished(q[i])}
<1>1. /\ q \in Seq(Pieces(b)) /\ L = Len(q) /\ L \in Nat /\ v.c \in 1..L + 1
      /\ \A j \in 1..(v.c - 1) : K!Finished(q[j])
      /\ \A j \in v.c..L : OpenFile(q[j])
    <2>1. /\ v \in Loops(b) /\ L = Len(q) /\ L \in Nat /\ v.c \in 1..L + 1
          /\ \A j \in 1..(v.c - 1) : K!Finished(q[j])
          /\ \A j \in (v.c + 1)..L : OpenFile(q[j])
          /\ v.c <= L => OpenFile(q[v.c])
        BY DEF InLoop, Going
    <2>2. \A j \in v.c..L : j = v.c \/ j \in (v.c + 1)..L BY <2>1
    <2> QED BY <2>1, <2>2 DEF Loops
<1>2. \A j \in 1..L : q[j] \in Pieces(b) BY <1>1, ElementOfSeq
<1> HIDE DEF q
<1>3. CASE open = {}
    <2>1. left = <<>> BY <1>3 DEF K!remove_finished, q
    <2>2. \A j \in 1..Len(q) : K!Left(q[j]) = <<>> BY <1>1, <1>2, <1>3, LeftContent
    <2>3. K!Rest(q) = <<>> BY <1>1, <2>2, RestEmpty
    <2>4. <<>> \in Seq(Pieces(b)) /\ Len(<<>>) = 0 BY EmptySeq
    <2>5. \A j \in 1..Len(left) : FALSE BY <2>1, <2>4
    <2>6. left \in Seq(Pieces(b)) /\ \A j \in 1..Len(left) : K!Left(left[j]) = <<>> BY <2>1, <2>4, <2>5
    <2>7. K!Rest(left) = <<>> BY <2>6, RestEmpty
    <2> QED BY <2>1, <2>3, <2>5, <2>6, <2>7 DEF q
<1>4. CASE open # {}
    <2> DEFINE first == CHOOSE i \in open : \A j \in open : i <= j
    <2>1. first \in open /\ \A j \in open : first <= j
        <3>1. open \in SUBSET (0..L) /\ L \in Nat BY <1>1
        <3> HIDE DEF open
        <3> QED BY <1>4, <3>1, LeastNumber
    <2>2. left = SubSeq(q, first, Len(q)) BY <1>4 DEF K!remove_finished, q
    <2>3. first \in 1..Len(q) /\ ~K!Finished(q[first]) BY <2>1
    <2>4. \A j \in 1..(first - 1) : K!Left(q[j]) = <<>>
        <3> SUFFICES ASSUME NEW j \in 1..(first - 1) PROVE K!Left(q[j]) = <<>> OBVIOUS
        <3>1. j \in 1..L /\ ~(first <= j)
            <4> HIDE DEF first
            <4> QED BY <1>1, <2>3
        <3>2. j \notin open BY <2>1, <3>1
        <3>3. K!Finished(q[j]) BY <1>1, <3>1, <3>2
        <3> QED BY <1>2, <3>1, <3>3, LeftContent
    <2> HIDE DEF first, open
    <2>5. /\ left \in Seq(Pieces(b)) /\ Len(left) = Len(q) - first + 1
          /\ \A k \in 1..Len(left) : left[k] = q[first + k - 1]
          /\ K!Rest(left) = K!Rest(q)
        <3>1. /\ q \in Seq(Pieces(b)) /\ first \in 1..Len(q) /\ left = SubSeq(q, first, Len(q))
              /\ \A j \in 1..(first - 1) : K!Left(q[j]) = <<>>
            BY <1>1, <2>2, <2>3, <2>4
        <3>2. Dropped(q, first, left, b) BY ONLY <3>1, RestDropped
        <3> QED BY <3>2 DEF Dropped
    <2>6. first >= v.c
        <3>1. CASE first < v.c
            <4>1. first \in 1..(v.c - 1) BY <1>1, <2>3, <3>1
            <4> QED BY <1>1, <2>3, <4>1
        <3> QED BY <1>1, <2>3, <3>1
    <2>7. \A j \in 1..Len(left) : OpenFile(left[j])
        <3> TAKE j \in 1..Len(left)
        <3> DEFINE k == first + j - 1
        <3>1. k \in v.c..L BY <1>1, <2>3, <2>5, <2>6
        <3>2. left[j] = q[k] BY <2>5
        <3> HIDE DEF k
        <3> QED BY <1>1, <3>1, <3>2
    <2>8. ASSUME Len(v.out) = 0, R > 0 PROVE b = "writev" /\ Ready(left[1])
        <3>1. v.c <= L BY <1>1, <2>3, <2>6
        <3>2. v.stop BY <1>1, <3>1
        <3>3. b = "writev" /\ Ready(q[v.c]) BY <2>8, <3>2 DEF InLoop, Blocked, q
        <3>4. ~K!Finished(q[v.c]) BY <1>1, <3>1, <3>3 DEF OpenFile, Ready
        <3>5. first <= v.c
            <4>1. v.c \in 1..Len(q) BY <1>1, <3>1
            <4> QED BY <2>1, <3>4, <4>1 DEF open
        <3>6. first = v.c /\ 1 \in 1..Len(left) /\ first + 1 - 1 = first BY <1>1, <2>3, <2>5, <2>6, <3>5
        <3>7. left[1] = q[first]
            <4> DEFINE one == 1
            <4>1. one \in 1..Len(left) /\ first + one - 1 = first BY <3>6
            <4> QED BY <2>5, <4>1
        <3> QED BY <3>3, <3>6, <3>7
    <2> QED BY <2>5, <2>7, <2>8 DEF q
<1> QED BY <1>3, <1>4

\* a chunk that comes into the queue
LEMMA NewChunk ==
    ASSUME NEW b, NEW data \in Content, NEW c, NEW start \in 0..FileSize,
           NEW type \in {"mem", "file"}, type = "file" => Len(data) # 0,
           c = [type |-> type, data |-> data, start |-> start, offset |-> 0, map |-> K!NoMap]
    PROVE  c \in Pieces(b) /\ K!Left(c) = data /\ OpenFile(c) /\ ~Ready(c) /\ Len(data) \in Nat
<1>1. data \in Seq(Values) /\ Len(data) \in Nat BY LenProperties DEF Content
<1>2. /\ c.type = type /\ c.data = data /\ c.start = start /\ c.offset = 0 /\ c.map = K!NoMap
      /\ c.map.mapped = FALSE
    BY DEF K!NoMap
<1>3. K!NoMap \in [offset : Int, length : Int, mapped : BOOLEAN] BY DEF K!NoMap
<1>4. c \in [type : {"mem", "file"}, data : Seq(Values), start : 0..FileSize, offset : Nat,
             map : [offset : Int, length : Int, mapped : BOOLEAN]]
    <2> DEFINE starts == 0..FileSize  map == K!NoMap
    <2>1. /\ start \in starts /\ type \in {"mem", "file"} /\ data \in Seq(Values)
          /\ map \in [offset : Int, length : Int, mapped : BOOLEAN]
          /\ c = [type |-> type, data |-> data, start |-> start, offset |-> 0, map |-> map]
        BY <1>1, <1>3
    <2> HIDE DEF starts, map
    <2>2. c \in [type : {"mem", "file"}, data : Seq(Values), start : starts, offset : Nat,
                 map : [offset : Int, length : Int, mapped : BOOLEAN]]
        BY ONLY <2>1
    <2> QED BY <2>2 DEF starts
<1>5. c \in Pieces(b) BY <1>1, <1>2, <1>4 DEF Pieces
<1>6. K!Left(c) = data
    <2>1. K!Left(c) = SubSeq(data, 1, Len(data)) BY <1>2 DEF K!Left, K!Length
    <2> QED BY <1>1, <2>1, SubSeqFull
<1>7. K!ToSend(c) = Len(data) BY <1>1, <1>2 DEF K!ToSend, K!Length
<1>8. OpenFile(c) /\ ~Ready(c) BY <1>2, <1>7 DEF OpenFile, K!Finished, Ready
<1> QED BY <1>1, <1>5, <1>6, <1>8

-----------------------------------------------------------------------------
(***************************************************************************)
(* What is so of the queue.  A file in it is never finished as long as the *)
(* answer goes on, so that none ends the connection for nothing; a write   *)
(* that sent nothing has left a window to be moved.                        *)
(***************************************************************************)
Sound ==
    /\ backend \in Backends /\ size \in known /\ known \in SUBSET Nat /\ altered \in SUBSET Odd(backend)
    /\ queue \in Seq(Pieces(backend)) /\ sent \in Content /\ sent \o K!Rest(queue) = appended
    /\ bytes_out = Len(sent) /\ ret \in {-2, -1, 0, 1, 2}
    /\ ret >= 0 => \A j \in 1..Len(queue) : OpenFile(queue[j])
    /\ ret = 2 => sent = <<>> /\ stalled = 0
    /\ stalled \in {0, 1}
    /\ stalled = 1 => queue # <<>> /\ backend = "writev" /\ Ready(queue[1])

LEMMA SoundContent ==
    ASSUME Sound
    PROVE  K!Rest(queue) \in Seq(Values) /\ sent \in Seq(Values) /\ appended \in Seq(Values) /\ Len(appended) \in Nat
<1>1. queue \in Seq(Pieces(backend)) /\ sent \in Seq(Values) /\ sent \o K!Rest(queue) = appended
    BY DEF Sound, Content
<1> DEFINE r == K!Rest(queue)
<1>2. r \in Seq(Values) BY <1>1, Walks DEF Content
<1> HIDE DEF r
<1>3. sent \o r \in Seq(Values) BY <1>1, <1>2
<1>4. appended \in Seq(Values) BY <1>1, <1>3 DEF r
<1> QED BY <1>1, <1>2, <1>4, LenProperties DEF r

LEMMA SoundQueue ==
    ASSUME Sound
    PROVE  \A j \in 1..Len(queue) : queue[j] \in Pieces(backend)
BY ElementOfSeq DEF Sound

LEMMA SoundAppend ==
    ASSUME Sound, NEW data \in Content, NEW c, NEW start \in 0..FileSize,
           NEW type \in {"mem", "file"}, type = "file" => Len(data) # 0,
           c = [type |-> type, data |-> data, start |-> start, offset |-> 0, map |-> K!NoMap],
           K!append_chunk(c)
    PROVE  Sound'
<1>1. c \in Pieces(backend) /\ K!Left(c) = data /\ OpenFile(c) BY NewChunk
<1>2. /\ queue' = Append(queue, c) /\ appended' = appended \o data /\ ret >= 0
      /\ UNCHANGED <<backend, sent, bytes_out, size, known, ret, stalled, altered>>
    BY DEF K!append_chunk
<1>3. queue \in Seq(Pieces(backend)) /\ backend' = backend BY <1>2 DEF Sound
<1> DEFINE q == queue  r == Append(q, c)
<1>4. r \in Seq(Pieces(backend)) /\ K!Rest(r) = K!Rest(q) \o K!Left(c) BY <1>1, <1>3, RestAppend
<1>5. Len(r) = Len(q) + 1 /\ r[Len(q) + 1] = c /\ (\A j \in 1..Len(q) : r[j] = q[j]) /\ Len(q) \in Nat
    BY <1>1, <1>3, AppendProperties, LenProperties
<1>6. sent \o K!Rest(r) = appended \o data
    <2> DEFINE s == K!Rest(q)
    <2>1. s \in Seq(Values) /\ sent \in Seq(Values) /\ data \in Seq(Values) BY SoundContent DEF Content
    <2>2. sent \o s = appended BY DEF Sound
    <2> HIDE DEF s
    <2>6. Regrouped(sent, s, data) BY ONLY <2>1, Regroup
    <2>3. (sent \o s) \o data = sent \o (s \o data) BY ONLY <2>6 DEF Regrouped
    <2> QED BY <1>1, <1>4, <2>2, <2>3 DEF s
<1>7. ret >= 0 => \A j \in 1..Len(r) : OpenFile(r[j])
    <2> SUFFICES ASSUME NEW j \in 1..Len(r) PROVE OpenFile(r[j]) OBVIOUS
    <2> HIDE DEF r
    <2>1. CASE j = Len(q) + 1 BY <1>1, <1>5, <2>1
    <2>2. CASE j # Len(q) + 1
        <3>1. j \in 1..Len(q) BY <1>5, <2>2
        <3> QED BY <1>2, <1>5, <3>1 DEF Sound
    <2> QED BY <2>1, <2>2
<1>8. queue # <<>> => r # <<>> /\ r[1] = queue[1]
    <2> SUFFICES ASSUME queue # <<>> PROVE r # <<>> /\ r[1] = queue[1] OBVIOUS
    <2>1. Len(q) > 0 BY <1>3, EmptySeq
    <2>2. 1 \in 1..Len(q) BY <1>5, <2>1
    <2>3. r # <<>>
        <3>1. Len(r) # 0 BY <1>5, <2>1
        <3> HIDE DEF r
        <3> QED BY <3>1
    <2> HIDE DEF r
    <2> QED BY <1>5, <2>2, <2>3
<1> HIDE DEF r
<1>9. queue' = r BY <1>2 DEF r
<1> QED BY <1>2, <1>3, <1>4, <1>6, <1>7, <1>8, <1>9 DEF Sound, Odd

LEMMA SoundPrepend ==
    ASSUME Sound, NEW data \in Content, NEW c,
           c = [type |-> "mem", data |-> data, start |-> 0, offset |-> 0, map |-> K!NoMap],
           ret = 2, queue' = <<c>> \o queue, appended' = data \o appended,
           UNCHANGED <<backend, sent, bytes_out, size, known, ret, stalled, altered>>, FileSize \in Nat
    PROVE  Sound'
<1>1. c \in Pieces(backend) /\ K!Left(c) = data /\ OpenFile(c)
    <2> DEFINE type == "mem"  start == 0
    <2>1. type \in {"mem", "file"} /\ ~(type = "file") /\ start \in 0..FileSize
          /\ c = [type |-> type, data |-> data, start |-> start, offset |-> 0, map |-> K!NoMap]
        OBVIOUS
    <2> HIDE DEF type, start
    <2> QED BY <2>1, NewChunk
<1>2. queue \in Seq(Pieces(backend)) /\ backend' = backend /\ sent = <<>> /\ stalled = 0 BY DEF Sound
<1> DEFINE q == queue  r == <<c>> \o q
<1>3. r \in Seq(Pieces(backend)) /\ K!Rest(r) = K!Left(c) \o K!Rest(q) BY <1>1, <1>2, RestPrepend
<1>4. sent \o K!Rest(r) = data \o appended
    <2> DEFINE s == K!Rest(q)  x == data \o s
    <2>1. s \in Seq(Values) /\ data \in Seq(Values) BY SoundContent DEF Content
    <2>2. <<>> \o s = appended BY <1>2 DEF Sound
    <2> HIDE DEF s
    <2>3. s = appended BY <2>1, <2>2, ConcatEmptySeq
    <2>4. x \in Seq(Values) BY <2>1
    <2> HIDE DEF x
    <2>5. <<>> \o x = x BY <2>4, ConcatEmptySeq
    <2> QED BY <1>1, <1>2, <1>3, <2>3, <2>5 DEF s, x
<1>5. \A j \in 1..Len(r) : OpenFile(r[j])
    <2>1. <<c>> \in Seq(Pieces(backend)) /\ Len(<<c>>) = 1 /\ <<c>>[1] = c BY <1>1
    <2>2. Len(q) \in Nat /\ \A j \in 1..Len(q) : OpenFile(q[j]) BY <1>2, LenProperties DEF Sound
    <2>3. Len(r) = 1 + Len(q) /\ \A j \in 1..1 + Len(q) : r[j] = IF j <= 1 THEN <<c>>[j] ELSE q[j - 1]
        BY <1>2, <2>1, ConcatProperties
    <2> HIDE DEF r
    <2> TAKE j \in 1..Len(r)
    <2>4. CASE j = 1 BY <1>1, <2>1, <2>2, <2>3, <2>4
    <2>5. CASE j # 1
        <3> DEFINE k == j - 1
        <3>1. k \in 1..Len(q) /\ ~(j <= 1) /\ j \in 1..1 + Len(q) BY <2>2, <2>3, <2>5
        <3>2. r[j] = q[k] BY <2>3, <3>1
        <3> HIDE DEF k
        <3> QED BY <2>2, <3>1, <3>2
    <2> QED BY <2>4, <2>5
<1> HIDE DEF r
<1>6. queue' = r BY DEF r
<1>7. /\ sent' = sent /\ bytes_out' = bytes_out /\ size' = size /\ ret' = ret /\ stalled' = stalled
      /\ altered' = altered /\ backend' = backend /\ known' = known
    OBVIOUS
<1>8. ret' >= 0 => \A j \in 1..Len(queue') : OpenFile(queue'[j]) BY <1>5, <1>6
<1>9. sent' \o K!Rest(queue') = appended' BY <1>4, <1>6, <1>7
<1>10. queue' \in Seq(Pieces(backend')) BY <1>3, <1>6, <1>7
<1>11. /\ backend \in Backends /\ size \in known /\ known \in SUBSET Nat /\ sent \in Content
       /\ bytes_out = Len(sent) /\ ret \in {-2, -1, 0, 1, 2}
    BY DEF Sound
<1>12. altered' \in SUBSET Odd(backend)' BY <1>7 DEF Sound, Odd
<1> QED BY ONLY <1>2, <1>7, <1>8, <1>9, <1>10, <1>11, <1>12 DEF Sound

\* network_write_chunkqueue()
LEMMA SoundWrite ==
    ASSUME K!ChunksAssumption, Sound, NEW space \in Nat, NEW end \in {"again", "error", "closed"}, NEW st \in known,
           NEW reach \in Nat, K!Write(space, end, st, reach)
    PROVE  Sound'
<1> DEFINE w == [q |-> queue, c |-> 1, room |-> space, end |-> end, st |-> st, reach |-> reach,
                 out |-> <<>>, ret |-> 0, stop |-> FALSE, altered |-> altered]
           v == K!backend_write(w)
           left == K!remove_finished(v.q)
           content == K!Rest(queue)
           L == Len(queue)
           none == v.out = <<>> /\ space > 0 /\ v.ret >= 0 /\ left # <<>>
<1>1. /\ queue' = IF v.ret >= 0 THEN left ELSE v.q
      /\ ret' = IF v.ret < 0 THEN v.ret ELSE IF left = <<>> THEN 0 ELSE 1
      /\ sent' = sent \o v.out /\ bytes_out' = bytes_out + Len(v.out)
      /\ altered' = v.altered /\ known' = known /\ stalled' = IF none THEN stalled + 1 ELSE 0
      /\ backend' = backend /\ appended' = appended /\ size' = size /\ ret >= 0
    BY DEF K!Write
<1>2. /\ backend \in Backends /\ size \in known /\ known \in SUBSET Nat /\ queue \in Seq(Pieces(backend)) /\ L \in Nat
      /\ \A j \in 1..L : OpenFile(queue[j])
    BY <1>1, LenProperties DEF Sound
<1>3. content \in Seq(Values) /\ <<>> \in Seq(Values) /\ Len(<<>>) = 0 BY SoundContent
<1>4. InLoop(w, backend, content, L, space) /\ w.c = 1 /\ ~w.stop /\ Len(w.out) = 0 /\ w.q = queue
    <2> DEFINE b == backend
    <2>1. /\ w.q = queue /\ w.c = 1 /\ w.room = space /\ w.out = <<>> /\ w.ret = 0 /\ w.stop = FALSE
          /\ w.altered = altered
        OBVIOUS
    <2>2. w \in Loops(b)
        <3>1. altered \in SUBSET Odd(b) BY DEF Sound
        <3> QED BY <1>2, <1>3, <3>1 DEF Loops, Content
    <2> HIDE DEF w
    <2>3. w.out \o content = content BY <1>3, <2>1, ConcatEmptySeq
    <2>4. Going(w, b, content, L, space)
        <3>1. \A j \in 1..(w.c - 1) : FALSE BY <2>1
        <3>2. \A j \in (w.c + 1)..L : OpenFile(w.q[j])
            <4> SUFFICES ASSUME NEW j \in 2..L PROVE OpenFile(queue[j]) BY <2>1
            <4>1. j \in 1..L BY <1>2
            <4> QED BY <1>2, <4>1
        <3>3. Len(w.out) + w.room = space /\ w.c \in 1..L + 1 BY <1>2, <1>3, <2>1
        <3> HIDE DEF content, L
        <3>4. Len(w.q) = L /\ w.out \o K!Rest(w.q) = content BY <2>1, <2>3 DEF L, content
        <3> QED BY <1>2, <2>1, <2>2, <3>1, <3>2, <3>3, <3>4 DEF Going
    <2>5. w.c <= L => OpenFile(w.q[w.c]) BY <1>2, <2>1
    <2> QED BY <1>3, <2>1, <2>4, <2>5 DEF InLoop
<1> HIDE DEF w, content, L
<1>5. Reached(v, L, w, content, L, space)
    <2>1. v = K!backend_write(w) OBVIOUS
    <2> HIDE DEF v
    <2> QED BY <1>2, <1>4, <2>1, BackendWrites
<1> HIDE DEF v
<1>6. /\ v \in Loops(backend) /\ Len(v.out) \in Nat /\ v.out \in Seq(Values) /\ v.q \in Seq(Pieces(backend))
      /\ v.out \o K!Rest(v.q) = content /\ v.ret \in {0, -1, -2}
      /\ v.altered \in SUBSET Odd(backend)
    <2>1. v \in Loops(backend) /\ v.out \o K!Rest(v.q) = content
        BY <1>5 DEF Reached, InLoop, Going
    <2>2. /\ v.out \in Seq(Values) /\ v.q \in Seq(Pieces(backend)) /\ v.ret \in {0, -1, -2}
          /\ v.altered \in SUBSET Odd(backend)
        BY <2>1 DEF Loops, Content
    <2> QED BY <2>1, <2>2, LenProperties
<1>7. v.ret = 0 =>
          /\ left \in Seq(Pieces(backend)) /\ K!Rest(left) = K!Rest(v.q)
          /\ \A j \in 1..Len(left) : OpenFile(left[j])
          /\ left # <<>> /\ Len(v.out) = 0 /\ space > 0 => backend = "writev" /\ Ready(left[1])
    <2> SUFFICES ASSUME v.ret = 0
                 PROVE  /\ left \in Seq(Pieces(backend)) /\ K!Rest(left) = K!Rest(v.q)
                        /\ \A j \in 1..Len(left) : OpenFile(left[j])
                        /\ left # <<>> /\ Len(v.out) = 0 /\ space > 0 => backend = "writev" /\ Ready(left[1])
        OBVIOUS
    <2>1. left = K!remove_finished(v.q) OBVIOUS
    <2>2. InLoop(v, backend, content, L, space) /\ (v.stop \/ v.c > L) BY <1>5 DEF Reached
    <2> HIDE DEF left
    <2> QED BY <2>1, <2>2, Removed
<1>8. stalled = 1 /\ space > 0 => Len(v.out) > 0 \/ v.ret # 0
    <2> SUFFICES ASSUME stalled = 1, space > 0 PROVE Len(v.out) > 0 \/ v.ret # 0 OBVIOUS
    <2>1. backend = "writev" /\ Ready(w.q[1]) /\ queue # <<>> BY <1>4 DEF Sound
    <2>2. L > 0 BY <1>2, <2>1, EmptySeq DEF L
    <2> QED BY <1>5, <2>1, <2>2 DEF Reached
<1> HIDE DEF left
<1>9. queue' \in Seq(Pieces(backend)) /\ K!Rest(queue') = K!Rest(v.q) BY <1>1, <1>6, <1>7
<1>10. sent' \o K!Rest(queue') = appended'
    <2> DEFINE s == K!Rest(v.q)  o == v.out
    <2>1. s \in Seq(Values) /\ o \in Seq(Values) /\ sent \in Seq(Values)
        <3>1. s \in Content BY <1>6, Walks
        <3> QED BY <1>6, <3>1 DEF Content, Sound
    <2>2. sent \o content = appended BY DEF Sound, content
    <2>3. o \o s = content BY <1>6
    <2>4. sent' = sent \o o BY <1>1
    <2> HIDE DEF s, o
    <2>6. Regrouped(sent, o, s) BY ONLY <2>1, Regroup
    <2>5. (sent \o o) \o s = sent \o (o \o s) BY ONLY <2>6 DEF Regrouped
    <2> QED BY <1>1, <1>9, <2>2, <2>3, <2>4, <2>5 DEF s
<1>11. sent' \in Content /\ bytes_out' = Len(sent')
    <2> DEFINE o == v.out
    <2>1. o \in Seq(Values) /\ sent \in Seq(Values) /\ bytes_out = Len(sent) BY <1>6 DEF Sound, Content
    <2>2. sent' = sent \o o /\ bytes_out' = bytes_out + Len(o) BY <1>1
    <2> HIDE DEF o
    <2> QED BY <2>1, <2>2, ConcatProperties DEF Content
<1>12. ret' \in {-2, -1, 0, 1, 2} /\ ret' # 2 /\ (ret' >= 0 => \A j \in 1..Len(queue') : OpenFile(queue'[j]))
    <2>1. CASE v.ret = 0
        <3>1. queue' = left /\ ret' \in {0, 1} BY <1>1, <2>1
        <3> QED BY <1>7, <2>1, <3>1
    <2>2. CASE v.ret # 0
        <3>1. ret' \in {-1, -2} BY <1>1, <1>6, <2>2
        <3> QED BY <3>1
    <2> QED BY <2>1, <2>2
<1>13. /\ stalled' \in {0, 1}
       /\ stalled' = 1 => queue' # <<>> /\ backend' = "writev" /\ Ready(queue'[1])
    <2>1. CASE ~none
        <3>1. stalled' = 0 BY <1>1, <2>1
        <3> QED BY <3>1
    <2>2. CASE none
        <3>1. v.out = <<>> /\ space > 0 /\ v.ret = 0 /\ left # <<>> BY <1>6, <2>2
        <3>2. Len(v.out) = 0 BY <1>3, <3>1
        <3>3. stalled # 1 BY <1>8, <3>1, <3>2
        <3>4. stalled' = 1
            <4>1. stalled = 0 BY <3>3 DEF Sound
            <4> QED BY <1>1, <2>2, <4>1
        <3>5. queue' = left BY <1>1, <3>1
        <3>6. backend = "writev" /\ Ready(left[1]) BY <1>7, <3>1, <3>2
        <3> QED BY <1>1, <3>1, <3>4, <3>5, <3>6
    <2> QED BY <2>1, <2>2
<1>14. altered' \in SUBSET Odd(backend)' BY <1>1, <1>6 DEF Odd
<1>15. backend' \in Backends /\ size' \in known' /\ known' \in SUBSET Nat BY <1>1, <1>2
<1>16. queue' \in Seq(Pieces(backend')) BY <1>1, <1>9
<1> QED BY ONLY <1>10, <1>11, <1>12, <1>13, <1>14, <1>15, <1>16 DEF Sound

LEMMA SoundNext ==
    ASSUME K!ChunksAssumption, Sound, [K!Next]_K!vars
    PROVE  Sound'
<1>1. FileSize \in Nat /\ MaxUnits \in Nat BY DEF K!ChunksAssumption
<1>2. ASSUME NEW n \in 0..2
      PROVE  [i \in 1..n |-> <<"mem", Len(appended) + i>>] \in Content
    <2> DEFINE e(i) == <<"mem", Len(appended) + i>>
    <2>1. \A i \in 1..n : e(i) \in Values
        <3> TAKE i \in 1..n
        <3>1. Len(appended) + i \in Int BY SoundContent
        <3> QED BY <3>1 DEF Values
    <2>2. n \in Nat OBVIOUS
    <2> HIDE DEF e
    <2>3. [i \in 1..n |-> e(i)] \in Seq(Values) BY <2>1, <2>2
    <2> QED BY <2>3 DEF e, Content
<1>3. ASSUME NEW n \in 0..2, K!AppendMem(n) PROVE Sound'
    <2> DEFINE data == [i \in 1..n |-> <<"mem", Len(appended) + i>>]
               c == K!Mem(data)
               type == "mem"  start == 0
    <2>1. K!append_chunk(c) BY <1>3 DEF K!AppendMem
    <2>2. c = [type |-> type, data |-> data, start |-> start, offset |-> 0, map |-> K!NoMap] BY DEF K!Mem
    <2>3. data \in Content BY <1>2
    <2>4. type \in {"mem", "file"} /\ ~(type = "file") /\ start \in 0..FileSize BY <1>1
    <2> HIDE DEF data, c, type, start
    <2> QED BY <2>1, <2>2, <2>3, <2>4, SoundAppend
<1>4. ASSUME NEW n \in 0..2, K!PrependMem(n) PROVE Sound'
    <2> DEFINE data == [i \in 1..n |-> <<"mem", Len(appended) + i>>]
               c == K!Mem(data)
    <2>1. /\ ret = 2 /\ queue' = <<c>> \o queue /\ appended' = c.data \o appended
          /\ UNCHANGED <<backend, sent, bytes_out, size, known, ret, stalled, altered>>
        BY <1>4 DEF K!PrependMem
    <2>2. c = [type |-> "mem", data |-> data, start |-> 0, offset |-> 0, map |-> K!NoMap] /\ c.data = data
        BY DEF K!Mem
    <2>3. data \in Content BY <1>2
    <2> HIDE DEF data, c
    <2>4. appended' = data \o appended BY <2>1, <2>2
    <2> QED BY <1>1, <2>1, <2>2, <2>3, <2>4, SoundPrepend
<1>5. ASSUME NEW start \in 0..FileSize - 1, NEW length \in 0..FileSize - start, K!AppendFile(start, length)
      PROVE  Sound'
    <2> DEFINE data == [i \in 1..length |-> <<"file", start + i - 1>>]
               c == K!File(start, length)
               type == "file"
    <2>1. length # 0 /\ K!append_chunk(c) BY <1>5 DEF K!AppendFile
    <2>2. c = [type |-> type, data |-> data, start |-> start, offset |-> 0, map |-> K!NoMap] BY DEF K!File
    <2>3. length \in Nat /\ start \in 0..FileSize /\ type \in {"mem", "file"} BY <1>1
    <2>4. data \in Seq(Values) /\ Len(data) = length
        <3> DEFINE e(i) == <<"file", start + i - 1>>
        <3>1. \A i \in 1..length : e(i) \in Values
            <4> TAKE i \in 1..length
            <4>1. start + i - 1 \in Int BY <2>3
            <4> QED BY <4>1 DEF Values
        <3> HIDE DEF e
        <3>2. [i \in 1..length |-> e(i)] \in Seq(Values) /\ Len([i \in 1..length |-> e(i)]) = length BY <2>3, <3>1
        <3> QED BY <3>2 DEF e
    <2> HIDE DEF data, c, type
    <2>5. data \in Content /\ (type = "file" => Len(data) # 0) BY <2>1, <2>4 DEF Content
    <2> QED BY <2>1, <2>2, <2>3, <2>5, SoundAppend
<1>6. ASSUME NEW space \in 0..MaxUnits, NEW end \in {"again", "error", "closed"}, NEW st \in known,
             NEW reach \in {0, MaxUnits}, K!Write(space, end, st, reach)
      PROVE  Sound'
    <2>1. space \in Nat /\ reach \in Nat BY <1>1
    <2> QED BY <1>6, <2>1, SoundWrite
<1>7. CASE K!Reset
    <2>1. /\ queue' = <<>> /\ appended' = <<>> /\ sent' = <<>> /\ bytes_out' = 0 /\ ret' = 2 /\ stalled' = 0
          /\ backend' = backend /\ size' = size /\ known' = known /\ altered' = {}
        BY <1>7 DEF K!Reset
    <2>2. <<>> \in Seq(Pieces(backend)) /\ <<>> \in Seq(Values) /\ Len(<<>>) = 0 /\ <<>> \o <<>> = <<>> OBVIOUS
    <2> DEFINE q == <<>>
    <2>3. \A j \in 1..Len(q) : K!Left(q[j]) = <<>> /\ OpenFile(q[j]) BY <2>2
    <2>4. q \in Seq(Pieces(backend)) BY <2>2
    <2> HIDE DEF q
    <2>5. K!Rest(q) = <<>> BY <2>3, <2>4, RestEmpty
    <2>6. sent' \o K!Rest(queue') = appended' BY <2>1, <2>2, <2>5 DEF q
    <2>7. \A j \in 1..Len(queue') : OpenFile(queue'[j]) BY <2>1, <2>3 DEF q
    <2>8. backend \in Backends /\ size \in known /\ known \in SUBSET Nat /\ altered' \in SUBSET Odd(backend)'
        BY <2>1 DEF Sound
    <2>9. queue' \in Seq(Pieces(backend')) /\ sent' \in Content /\ bytes_out' = Len(sent') /\ sent' = <<>>
        BY <2>1, <2>2 DEF Content
    <2> QED BY ONLY <2>1, <2>6, <2>7, <2>8, <2>9 DEF Sound
<1>8. ASSUME K!Shrink(1) \/ K!Grow PROVE Sound'
    <2>1. /\ UNCHANGED <<backend, queue, appended, sent, bytes_out, ret, stalled, altered>>
          /\ size' \in Nat /\ known' = known \cup {size'}
        BY <1>1, <1>8 DEF K!Shrink, K!Grow, K!Resize
    <2>2. altered' \in SUBSET Odd(backend)' BY <2>1 DEF Sound, Odd
    <2>3. size' \in known' /\ known' \in SUBSET Nat BY <2>1 DEF Sound
    <2> QED BY <2>1, <2>2, <2>3 DEF Sound
<1>9. CASE UNCHANGED K!vars
    <2>1. UNCHANGED <<backend, queue, appended, sent, bytes_out, ret, stalled, altered, size, known>>
        BY <1>9 DEF K!vars
    <2> QED BY <2>1 DEF Sound, Odd
<1> QED BY <1>3, <1>4, <1>5, <1>6, <1>7, <1>8, <1>9 DEF K!Next

\* However the kernel divides the writes, the client gets what was appended, in its order and once; the
\* counters count this; the answer is complete just when all of it was sent; no two writes in a row
\* send nothing though the socket took something; only of a mapped file that has been shorter is something
\* else sent, by network_writev.c no more than to the end of a page.
THEOREM ChunksRightHolds == ASSUME K!ChunksAssumption PROVE K!Spec => []K!ChunksRight
<1>1. K!Init => Sound
    <2> SUFFICES ASSUME K!Init PROVE Sound OBVIOUS
    <2> DEFINE q == <<>>
    <2>1. /\ backend \in Backends /\ queue = q /\ appended = <<>> /\ sent = <<>> /\ bytes_out = 0
          /\ size = FileSize /\ known = {FileSize} /\ ret = 2 /\ stalled = 0 /\ altered = {}
        BY DEF K!Init
    <2>2. q \in Seq(Pieces(backend)) /\ q \in Seq(Values) /\ Len(q) = 0 /\ <<>> \o <<>> = <<>> OBVIOUS
    <2>3. \A j \in 1..Len(q) : K!Left(q[j]) = <<>> /\ OpenFile(q[j]) BY <2>2
    <2> HIDE DEF q
    <2>4. K!Rest(q) = <<>> BY <2>2, <2>3, RestEmpty
    <2> QED BY <2>1, <2>2, <2>3, <2>4 DEF Sound, Content, K!ChunksAssumption, q
<1>2. Sound /\ [K!Next]_K!vars => Sound' BY SoundNext
<1>3. Sound => K!ChunksRight
    <2> SUFFICES ASSUME Sound PROVE K!ChunksRight OBVIOUS
    <2>1. sent \o K!Rest(queue) = appended /\ bytes_out = Len(sent) /\ stalled <= 1
          /\ \A p \in altered : K!Strange(p)
        BY DEF Sound, Odd, K!Strange
    <2>2. queue = <<>> => sent = appended
        <3> SUFFICES ASSUME queue = <<>> PROVE sent = appended OBVIOUS
        <3>1. queue \in Seq(Pieces(backend)) /\ \A j \in 1..Len(queue) : K!Left(queue[j]) = <<>> BY DEF Sound
        <3>2. K!Rest(queue) = <<>> BY <3>1, RestEmpty
        <3>3. sent \in Seq(Values) BY DEF Sound, Content
        <3>4. sent \o <<>> = sent BY <3>3, ConcatEmptySeq
        <3> QED BY <2>1, <3>2, <3>4
    <2> QED BY <2>1, <2>2
        DEF K!ChunksRight, K!InOrder, K!Counted, K!CompleteMeansAll, K!Moves, K!Genuine, K!Remaining
<1> QED BY <1>1, <1>2, <1>3, PTL DEF K!Spec

(***************************************************************************)
(* Response: what is in the queue of an answer, and how many units of      *)
(* content.                                                                *)
(***************************************************************************)
Items == [kind : {"head", "data", "length", "end", "last"}, n : Nat]
ContentOf(i) == IF i.kind = "data" THEN i.n ELSE 0

UnitsUpTo(f, q) ==
    /\ f \in [0..Len(q) -> Nat] /\ f[0] = 0 /\ A!Length(q) = f[Len(q)]
    /\ \A k \in 1..Len(q) : f[k] = f[k - 1] + ContentOf(q[k])
LEMMA UnitsCount == ASSUME NEW q \in Seq(Items) PROVE \E f : UnitsUpTo(f, q)
<1> DEFINE N == Len(q)
           T == [x \in Nat \X (1..N) |-> x[1] + ContentOf(q[x[2]])]
           sum == CHOOSE f : f = [k \in 0..N |-> IF k = 0 THEN 0 ELSE f[k - 1] + ContentOf(q[k])]
<1>1. N \in Nat /\ \A k \in 1..N : ContentOf(q[k]) \in Nat
    <2>1. \A k \in 1..N : q[k] \in Items BY ElementOfSeq
    <2> QED BY <2>1 DEF Items, ContentOf
<1>2. T \in [Nat \X (1..N) -> Nat] BY <1>1
<1>3. PICK f \in [0..N -> Nat] : Steps(f, N, 0, T)
    <2> HIDE DEF T, N
    <2>1. 0 \in Nat OBVIOUS
    <2> QED BY <1>1, <1>2, <2>1, StepsExist
<1>4. ASSUME NEW k \in 1..N PROVE k - 1 \in 0..N /\ k \in 0..N /\ f[k] = f[k - 1] + ContentOf(q[k])
    <2>1. k - 1 \in 0..N /\ k \in 0..N BY <1>1
    <2>2. f[k] = T[<<f[k - 1], k>>] BY <1>3 DEF Steps
    <2>3. f[k - 1] \in Nat BY <1>3, <2>1
    <2> QED BY <2>1, <2>2, <2>3
<1>5. f[0] = 0 BY <1>3 DEF Steps
<1> HIDE DEF T
<1>6. f = [k \in 0..N |-> IF k = 0 THEN 0 ELSE f[k - 1] + ContentOf(q[k])]
    <2>1. ASSUME NEW k \in 0..N PROVE f[k] = IF k = 0 THEN 0 ELSE f[k - 1] + ContentOf(q[k])
        <3>1. CASE k = 0 BY <1>5, <3>1
        <3>2. CASE k # 0
            <4>1. k \in 1..N BY <1>1, <3>2
            <4> QED BY <1>4, <3>2, <4>1
        <3> QED BY <3>1, <3>2
    <2> QED BY <2>1
<1>7. sum = [k \in 0..N |-> IF k = 0 THEN 0 ELSE sum[k - 1] + ContentOf(q[k])] BY <1>6
<1>8. A!Length(q) = sum[N] BY DEF A!Length, ContentOf
<1> HIDE DEF sum, N
<1>9. sum[0] = 0 BY <1>1, <1>7
<1>10. \A k \in 1..N : sum[k] = sum[k - 1] + ContentOf(q[k])
    <2> TAKE k \in 1..N
    <2>1. k \in 0..N /\ k # 0 BY <1>1
    <2> QED BY <1>7, <2>1
<1> DEFINE B == {k \in 0..N : sum[k] = f[k]}
<1>11. 0 \in B BY <1>1, <1>5, <1>9
<1>12. \A k \in 1..N : k - 1 \in B => k \in B BY <1>4, <1>10
<1>13. \A k \in 0..N : k \in B
    <2> HIDE DEF B
    <2> QED BY <1>1, <1>11, <1>12, AllNumbers
<1>14. A!Length(q) = f[N] BY <1>1, <1>8, <1>13
<1> QED BY <1>3, <1>4, <1>5, <1>14 DEF UnitsUpTo, N

LEMMA LengthNat == ASSUME NEW q \in Seq(Items) PROVE A!Length(q) \in Nat
<1>1. PICK f : UnitsUpTo(f, q) BY UnitsCount
<1>2. Len(q) \in 0..Len(q) BY LenProperties
<1> QED BY <1>1, <1>2 DEF UnitsUpTo

LEMMA LengthJoined ==
    ASSUME NEW q \in Seq(Items), NEW r \in Seq(Items)
    PROVE  q \o r \in Seq(Items) /\ A!Length(q \o r) = A!Length(q) + A!Length(r)
<1> DEFINE N == Len(q)
           M == Len(r)
           z == q \o r
<1>1. z \in Seq(Items) /\ Len(z) = N + M /\ N \in Nat /\ M \in Nat
      /\ (\A k \in 1..N : z[k] = q[k]) /\ (\A k \in 1..M : z[N + k] = r[k])
    <2>1. z \in Seq(Items) /\ Len(z) = N + M
          /\ \A k \in 1..N + M : z[k] = IF k <= N THEN q[k] ELSE r[k - N]
        BY ConcatProperties
    <2>2. N \in Nat /\ M \in Nat BY LenProperties
    <2> HIDE DEF z, N, M
    <2>3. ASSUME NEW k \in 1..N PROVE z[k] = q[k]
        <3>1. k \in 1..N + M /\ k <= N BY <2>2
        <3> QED BY <2>1, <3>1
    <2>4. ASSUME NEW k \in 1..M PROVE z[N + k] = r[k]
        <3> DEFINE j == N + k
        <3>1. j \in 1..N + M /\ ~(j <= N) /\ j - N = k BY <2>2
        <3> HIDE DEF j
        <3>2. z[j] = r[j - N] BY <2>1, <3>1
        <3>3. z[j] = r[k] BY <3>1, <3>2
        <3> QED BY <3>3 DEF j
    <2> QED BY <2>1, <2>2, <2>3, <2>4
<1>2. PICK f : UnitsUpTo(f, q) BY UnitsCount
<1>3. PICK g : UnitsUpTo(g, r) BY UnitsCount
<1>4. PICK h : UnitsUpTo(h, z) BY <1>1, UnitsCount
<1> HIDE DEF z
<1> DEFINE B == {k \in 0..N : h[k] = f[k]}
           C == {k \in 0..M : h[N + k] = f[N] + g[k]}
<1>5. 0 \in B BY <1>1, <1>2, <1>4 DEF UnitsUpTo
<1>6. ASSUME NEW k \in 1..N, k - 1 \in B PROVE k \in B
    <2>1. k \in 1..N + M /\ k \in 0..N BY <1>1
    <2>2. h[k] = h[k - 1] + ContentOf(z[k]) /\ f[k] = f[k - 1] + ContentOf(q[k]) /\ z[k] = q[k]
        BY <1>1, <1>2, <1>4, <2>1 DEF UnitsUpTo
    <2> QED BY <1>6, <2>1, <2>2
<1>7. \A k \in 0..N : k \in B
    <2> HIDE DEF B, N
    <2> QED BY <1>1, <1>5, <1>6, AllNumbers
<1>8. N \in 0..N /\ h[N] = f[N] /\ f[N] \in Nat BY <1>1, <1>2, <1>7 DEF UnitsUpTo
<1>9. 0 \in C
    <2>1. g[0] = 0 /\ N + 0 = N BY <1>1, <1>3 DEF UnitsUpTo
    <2> QED BY <1>1, <1>8, <2>1
<1>10. ASSUME NEW k \in 1..M, k - 1 \in C PROVE k \in C
    <2>1. N + k \in 1..N + M /\ k \in 0..M /\ k - 1 \in 0..M /\ N + k - 1 = N + (k - 1) BY <1>1
    <2> DEFINE j == N + k
    <2>5. j \in 1..Len(z) /\ z[j] = r[k] BY <1>1, <2>1
    <2> HIDE DEF j
    <2>6. h[j] = h[j - 1] + ContentOf(z[j]) BY <1>4, <2>5 DEF UnitsUpTo
    <2>7. g[k] = g[k - 1] + ContentOf(r[k]) BY <1>3 DEF UnitsUpTo
    <2>2. h[N + k] = h[N + k - 1] + ContentOf(r[k]) /\ g[k] = g[k - 1] + ContentOf(r[k]) BY <2>5, <2>6, <2>7 DEF j
    <2>3. g[k - 1] \in Nat /\ ContentOf(r[k]) \in Nat
        <3>1. r[k] \in Items BY ElementOfSeq
        <3> QED BY <1>3, <2>1, <3>1 DEF UnitsUpTo, ContentOf, Items
    <2>4. h[N + k] = (f[N] + g[k - 1]) + ContentOf(r[k]) BY <1>10, <2>1, <2>2
    <2> HIDE DEF N
    <2>8. f[N] \in Nat BY <1>8
    <2>9. (f[N] + g[k - 1]) + ContentOf(r[k]) = f[N] + (g[k - 1] + ContentOf(r[k])) BY ONLY <2>3, <2>8
    <2>10. h[N + k] = f[N] + g[k] BY ONLY <2>2, <2>4, <2>9
    <2> QED BY ONLY <2>1, <2>10
<1>11. \A k \in 0..M : k \in C
    <2> HIDE DEF C, N, M
    <2> QED BY <1>1, <1>9, <1>10, AllNumbers
<1>12. M \in 0..M BY <1>1
<1>13. h[N + M] = f[N] + g[M] BY <1>11, <1>12
<1>14. A!Length(z) = h[N + M] /\ A!Length(q) = f[N] /\ A!Length(r) = g[M]
    BY <1>1, <1>2, <1>3, <1>4 DEF UnitsUpTo
<1> QED BY <1>1, <1>13, <1>14 DEF z

LEMMA LengthOne ==
    /\ <<>> \in Seq(Items) /\ A!Length(<<>>) = 0
    /\ \A i \in Items : <<i>> \in Seq(Items) /\ A!Length(<<i>>) = ContentOf(i)
<1>1. <<>> \in Seq(Items) /\ Len(<<>>) = 0 BY EmptySeq
<1>2. A!Length(<<>>) = 0
    <2> DEFINE e == <<>>
    <2>1. e \in Seq(Items) /\ Len(e) = 0 BY <1>1
    <2> HIDE DEF e
    <2>2. PICK f : UnitsUpTo(f, e) BY <2>1, UnitsCount
    <2>3. A!Length(e) = 0 BY <2>1, <2>2 DEF UnitsUpTo
    <2> QED BY <2>3 DEF e
<1>3. ASSUME NEW i \in Items PROVE <<i>> \in Seq(Items) /\ A!Length(<<i>>) = ContentOf(i)
    <2> DEFINE e == <<i>>
    <2>1. e \in Seq(Items) /\ Len(e) = 1 /\ e[1] = i OBVIOUS
    <2> HIDE DEF e
    <2>2. PICK f : UnitsUpTo(f, e) BY <2>1, UnitsCount
    <2>3. 1 \in 1..1 /\ 1 - 1 = 0 OBVIOUS
    <2>4. A!Length(e) = f[0] + ContentOf(i) /\ f[0] = 0 BY <2>1, <2>2, <2>3 DEF UnitsUpTo
    <2>5. ContentOf(i) \in Nat BY DEF ContentOf, Items
    <2>6. A!Length(e) = ContentOf(i) BY <2>4, <2>5
    <2> QED BY <2>1, <2>6 DEF e
<1> QED BY <1>1, <1>2, <1>3

(***************************************************************************)
(* How a queue is framed: content alone, or chunks, with the last one when *)
(* the answer is finished.                                                 *)
(***************************************************************************)
Plain(q) == q \in Seq(Items) /\ \A k \in 1..Len(q) : q[k].kind = "data"
Chunk(q, k) == q[k].kind = "length" /\ q[k + 1] = A!Item("data", q[k].n) /\ q[k + 2].kind = "end"
Open(q) == q \in Seq(Items) /\ Len(q) % 3 = 0 /\ \A k \in 1..Len(q) : k % 3 = 1 => Chunk(q, k)
Closed(q) == /\ q \in Seq(Items) /\ q # <<>> /\ Len(q) % 3 = 1 /\ q[Len(q)].kind = "last"
             /\ \A k \in 1..Len(q) - 1 : k % 3 = 1 => Chunk(q, k)
Framed(chunked, finished, q) ==
    IF chunked THEN (IF finished THEN Closed(q) ELSE Open(q)) ELSE Plain(q)

LEMMA JoinedItems ==
    ASSUME NEW q \in Seq(Items), NEW r \in Seq(Items)
    PROVE  /\ q \o r \in Seq(Items) /\ Len(q \o r) = Len(q) + Len(r) /\ Len(q) \in Nat /\ Len(r) \in Nat
           /\ \A k \in 1..Len(q) : (q \o r)[k] = q[k]
           /\ \A k \in 1..Len(r) : (q \o r)[Len(q) + k] = r[k]
<1> DEFINE N == Len(q)
           M == Len(r)
           z == q \o r
<1>1. z \in Seq(Items) /\ Len(z) = N + M
      /\ \A k \in 1..N + M : z[k] = IF k <= N THEN q[k] ELSE r[k - N]
    BY ConcatProperties
<1>2. N \in Nat /\ M \in Nat BY LenProperties
<1> HIDE DEF z, N, M
<1>3. ASSUME NEW k \in 1..N PROVE z[k] = q[k]
    <2>1. k \in 1..N + M /\ k <= N BY <1>2
    <2> QED BY <1>1, <2>1
<1>4. ASSUME NEW k \in 1..M PROVE z[N + k] = r[k]
    <2> DEFINE j == N + k
    <2>1. j \in 1..N + M /\ ~(j <= N) /\ j - N = k BY <1>2
    <2> HIDE DEF j
    <2>2. z[j] = r[j - N] BY <1>1, <2>1
    <2>3. z[j] = r[k] BY <2>1, <2>2
    <2> QED BY <2>3 DEF j
<1> QED BY <1>1, <1>2, <1>3, <1>4 DEF z, N, M

LEMMA PlainJoined ==
    ASSUME NEW q, NEW r, Plain(q), Plain(r)
    PROVE  Plain(q \o r)
<1> DEFINE z == q \o r
           N == Len(q)
           M == Len(r)
<1>1. /\ z \in Seq(Items) /\ Len(z) = N + M /\ N \in Nat /\ M \in Nat
      /\ (\A k \in 1..N : z[k] = q[k]) /\ (\A k \in 1..M : z[N + k] = r[k])
    BY JoinedItems DEF Plain
<1> HIDE DEF z
<1>2. ASSUME NEW k \in 1..N + M PROVE z[k].kind = "data"
    <2>1. CASE k <= N
        <3>1. k \in 1..N BY <1>1, <2>1
        <3> QED BY <1>1, <3>1 DEF Plain
    <2>2. CASE ~(k <= N)
        <3>1. k - N \in 1..M /\ N + (k - N) = k BY <1>1, <2>2
        <3> QED BY <1>1, <3>1 DEF Plain
    <2> QED BY <2>1, <2>2
<1> QED BY <1>1, <1>2 DEF Plain, z

LEMMA PlainContent ==
    ASSUME NEW n \in Nat
    PROVE  Plain(A!Content(n)) /\ A!Length(A!Content(n)) = n
<1>1. CASE n = 0
    <2>1. A!Content(n) = <<>> BY <1>1 DEF A!Content
    <2>2. Plain(<<>>) BY LengthOne DEF Plain
    <2> QED BY <1>1, <2>1, <2>2, LengthOne
<1>2. CASE n # 0
    <2> DEFINE i == A!Item("data", n)
    <2>1. i \in Items /\ i.kind = "data" /\ i.n = n BY DEF A!Item, Items
    <2>2. A!Content(n) = <<i>> BY <1>2 DEF A!Content
    <2> HIDE DEF i
    <2>3. Len(<<i>>) = 1 /\ <<i>>[1] = i OBVIOUS
    <2>4. <<i>> \in Seq(Items) /\ A!Length(<<i>>) = n BY <2>1, LengthOne DEF ContentOf
    <2>5. Plain(<<i>>) BY <2>1, <2>3, <2>4 DEF Plain
    <2> QED BY <2>2, <2>4, <2>5
<1> QED BY <1>1, <1>2

\* Places in chunks of three.
LEMMA Thirds ==
    ASSUME NEW N \in Nat, N % 3 = 0
    PROVE  /\ (N + 1) % 3 = 1 /\ (N + 2) % 3 = 2 /\ (N + 3) % 3 = 0
           /\ \A k \in Nat : k % 3 = 1 /\ k <= N => k + 2 <= N
<1>1. PICK m \in Nat : N = 3 * m
    <2>1. N = 3 * (N \div 3) /\ N \div 3 \in Nat OBVIOUS
    <2> QED BY ONLY <2>1
<1>2. (N + 1) % 3 = 1 /\ (N + 2) % 3 = 2 /\ (N + 3) % 3 = 0 BY ONLY <1>1, m \in Nat
<1>3. ASSUME NEW k \in Nat, k % 3 = 1, k <= N PROVE k + 2 <= N
    <2>1. PICK j \in Nat : k = 3 * j + 1
        <3>1. k = 3 * (k \div 3) + 1 /\ k \div 3 \in Nat BY ONLY <1>3, k \in Nat
        <3> QED BY ONLY <3>1
    <2>2. 3 * j + 1 <= 3 * m BY ONLY <1>1, <1>3, <2>1
    <2>3. j + 1 <= m BY ONLY <2>2, j \in Nat, m \in Nat
    <2> QED BY ONLY <1>1, <2>1, <2>3, j \in Nat, m \in Nat
<1> QED BY <1>2, <1>3

LEMMA OpenChunk ==
    ASSUME NEW q, Open(q), NEW n \in Nat \ {0}
    PROVE  /\ A!append_mem(TRUE, n) \in Seq(Items) /\ Open(q \o A!append_mem(TRUE, n))
           /\ A!Length(q \o A!append_mem(TRUE, n)) = A!Length(q) + n
<1> DEFINE a == A!Item("length", n)
           b == A!Item("data", n)
           c == A!Item("end", 0)
           r == (<<a>> \o <<b>>) \o <<c>>
           z == q \o r
           N == Len(q)
<1>1. a \in Items /\ b \in Items /\ c \in Items /\ a.kind = "length" /\ b.kind = "data" /\ c.kind = "end" /\ a.n = n
      /\ b.n = n
    BY DEF A!Item, Items
<1>2. b = A!Item("data", n) OBVIOUS
<1>3. A!append_mem(TRUE, n) = (<<a>> \o <<b>>) \o <<c>>
    <2>1. n # 0 OBVIOUS
    <2>2. A!Content(n) = <<b>> BY <2>1 DEF A!Content
    <2> QED BY <2>1, <2>2 DEF A!append_mem
<1> HIDE DEF a, b, c
<1>4. <<a>> \in Seq(Items) /\ <<b>> \in Seq(Items) /\ <<c>> \in Seq(Items)
      /\ Len(<<a>>) = 1 /\ Len(<<b>>) = 1 /\ Len(<<c>>) = 1 /\ <<a>>[1] = a /\ <<b>>[1] = b /\ <<c>>[1] = c
    BY <1>1
<1>5. r \in Seq(Items) /\ Len(r) = 3 /\ r[1] = a /\ r[2] = b /\ r[3] = c
    <2> DEFINE s == <<a>>  t == <<b>>  u == <<c>>  st == s \o t
    <2>1. /\ s \in Seq(Items) /\ t \in Seq(Items) /\ u \in Seq(Items)
          /\ Len(s) = 1 /\ Len(t) = 1 /\ Len(u) = 1 /\ s[1] = a /\ t[1] = b /\ u[1] = c
        BY <1>4
    <2> HIDE DEF s, t, u
    <2>2. /\ st \in Seq(Items) /\ Len(st) = Len(s) + Len(t)
          /\ (\A k \in 1..Len(s) : st[k] = s[k]) /\ (\A k \in 1..Len(t) : st[Len(s) + k] = t[k])
        BY <2>1, JoinedItems
    <2>3. st \in Seq(Items) /\ Len(st) = 2 /\ st[1] = a /\ st[2] = b BY <2>1, <2>2
    <2> HIDE DEF st
    <2>4. /\ st \o u \in Seq(Items) /\ Len(st \o u) = Len(st) + Len(u)
          /\ (\A k \in 1..Len(st) : (st \o u)[k] = st[k]) /\ (\A k \in 1..Len(u) : (st \o u)[Len(st) + k] = u[k])
        BY <2>1, <2>3, JoinedItems
    <2>5. st \o u = r BY DEF st, s, t, u
    <2> QED BY <2>1, <2>3, <2>4, <2>5
<1>6. A!Length(r) = n
    <2>1. /\ <<a>> \in Seq(Items) /\ <<b>> \in Seq(Items) /\ <<c>> \in Seq(Items)
          /\ A!Length(<<a>>) = 0 /\ A!Length(<<b>>) = n /\ A!Length(<<c>>) = 0
        BY <1>1, LengthOne DEF ContentOf
    <2> DEFINE ab == <<a>> \o <<b>>
    <2>2. ab \in Seq(Items) /\ A!Length(ab) = 0 + n BY <2>1, LengthJoined
    <2> HIDE DEF ab
    <2>3. A!Length(ab \o <<c>>) = (0 + n) + 0 BY <2>1, <2>2, LengthJoined
    <2>4. A!Length(r) = A!Length(ab \o <<c>>) BY DEF ab
    <2>5. (0 + n) + 0 = n OBVIOUS
    <2> HIDE DEF r
    <2> QED BY ONLY <2>3, <2>4, <2>5
<1>14. A!append_mem(TRUE, n) = r BY <1>3
<1> HIDE DEF r
<1>7. q \in Seq(Items) BY DEF Open
<1>8. /\ z \in Seq(Items) /\ Len(z) = N + 3 /\ N \in Nat
      /\ (\A k \in 1..N : z[k] = q[k]) /\ (\A k \in 1..3 : z[N + k] = r[k])
    <2>1. /\ z \in Seq(Items) /\ Len(z) = N + Len(r) /\ N \in Nat
          /\ (\A k \in 1..N : z[k] = q[k]) /\ (\A k \in 1..Len(r) : z[N + k] = r[k])
        BY <1>5, <1>7, JoinedItems
    <2> HIDE DEF z
    <2> QED BY <1>5, <2>1
<1> HIDE DEF N, z
<1>9. N % 3 = 0 BY DEF Open, N
<1>10. ASSUME NEW k \in 1..N + 3, k % 3 = 1 PROVE Chunk(z, k)
    <2>1. CASE k <= N
        <3>0. k \in Nat BY <1>8
        <3>1. k + 2 <= N BY ONLY <1>8, <1>9, <1>10, <2>1, <3>0, Thirds
        <3>2. k \in 1..N /\ k + 1 \in 1..N /\ k + 2 \in 1..N BY <1>8, <2>1, <3>1
        <3>3. z[k] = q[k] /\ z[k + 1] = q[k + 1] /\ z[k + 2] = q[k + 2] BY <1>8, <3>2
        <3>4. Chunk(q, k) BY <1>10, <3>2 DEF Open, N
        <3> QED BY <3>3, <3>4 DEF Chunk
    <2>2. CASE ~(k <= N)
        <3>1. k = N + 1
            <4>1. k = N + 1 \/ k = N + 2 \/ k = N + 3 BY <1>8, <2>2
            <4>2. (N + 2) % 3 = 2 BY ONLY <1>8, <1>9, Thirds
            <4>3. (N + 3) % 3 = 0 BY ONLY <1>8, <1>9, Thirds
            <4>4. k # N + 2 BY <1>10, <4>2
            <4>5. k # N + 3 BY <1>10, <4>3
            <4> QED BY <4>1, <4>4, <4>5
        <3>2. k + 1 = N + 2 /\ k + 2 = N + 3 BY <1>8, <3>1
        <3>4. 1 \in 1..3 /\ 2 \in 1..3 /\ 3 \in 1..3 OBVIOUS
        <3>5. z[N + 1] = r[1] /\ z[N + 2] = r[2] /\ z[N + 3] = r[3] BY <1>8, <3>4
        <3>3. z[k] = a /\ z[k + 1] = b /\ z[k + 2] = c BY <1>5, <3>1, <3>2, <3>5
        <3> QED BY <1>1, <1>2, <3>3 DEF Chunk
    <2> QED BY <2>1, <2>2
<1>11. Len(z) % 3 = 0 BY ONLY <1>8, <1>9, Thirds
<1>12. Open(z) BY <1>8, <1>10, <1>11 DEF Open
<1>13. A!Length(z) = A!Length(q) + n BY <1>5, <1>6, <1>7, LengthJoined DEF z
<1> QED BY <1>5, <1>12, <1>13, <1>14 DEF z

LEMMA OpenEnd ==
    ASSUME NEW q, Open(q)
    PROVE  /\ A!append_mem(TRUE, 0) \in Seq(Items) /\ Closed(q \o A!append_mem(TRUE, 0))
           /\ A!Length(q \o A!append_mem(TRUE, 0)) = A!Length(q)
<1> DEFINE a == A!Item("last", 0)
           r == <<a>>
           z == q \o r
           N == Len(q)
<1>1. a \in Items /\ a.kind = "last" BY DEF A!Item, Items
<1>2. A!append_mem(TRUE, 0) = r BY DEF A!append_mem
<1> HIDE DEF a
<1>3. r \in Seq(Items) /\ Len(r) = 1 /\ r[1] = a /\ A!Length(r) = 0 BY <1>1, LengthOne DEF ContentOf
<1>12. A!append_mem(TRUE, 0) \in Seq(Items) BY <1>2, <1>3
<1> HIDE DEF r
<1>4. q \in Seq(Items) BY DEF Open
<1>5. /\ z \in Seq(Items) /\ Len(z) = N + 1 /\ N \in Nat
      /\ (\A k \in 1..N : z[k] = q[k]) /\ (\A k \in 1..1 : z[N + k] = r[k])
    <2>1. /\ z \in Seq(Items) /\ Len(z) = N + Len(r) /\ N \in Nat
          /\ (\A k \in 1..N : z[k] = q[k]) /\ (\A k \in 1..Len(r) : z[N + k] = r[k])
        BY <1>3, <1>4, JoinedItems
    <2> HIDE DEF z
    <2> QED BY <1>3, <2>1
<1> HIDE DEF N, z
<1>6. N % 3 = 0 BY DEF Open, N
<1>7. ASSUME NEW k \in 1..Len(z) - 1, k % 3 = 1 PROVE Chunk(z, k)
    <2>1. k \in 1..N BY <1>5
    <2>0. k \in Nat /\ k <= N BY <1>5
    <2>2. k + 2 <= N BY ONLY <1>5, <1>6, <1>7, <2>0, Thirds
    <2>3. k + 1 \in 1..N /\ k + 2 \in 1..N BY <1>5, <2>1, <2>2
    <2>4. z[k] = q[k] /\ z[k + 1] = q[k + 1] /\ z[k + 2] = q[k + 2] BY <1>5, <2>1, <2>3
    <2>5. Chunk(q, k) BY <1>7, <2>1 DEF Open, N
    <2> QED BY <2>4, <2>5 DEF Chunk
<1>8. Len(z) % 3 = 1 /\ z # <<>>
    <2>1. Len(z) % 3 = 1 BY ONLY <1>5, <1>6, Thirds
    <2>2. Len(z) # 0 BY <1>5
    <2> QED BY <2>1, <2>2, EmptySeq
<1>9. z[Len(z)].kind = "last"
    <2>1. 1 \in 1..1 OBVIOUS
    <2>2. z[N + 1] = a BY <1>3, <1>5, <2>1
    <2> QED BY <1>1, <1>5, <2>2
<1>10. Closed(z) BY <1>5, <1>7, <1>8, <1>9 DEF Closed
<1>11. A!Length(z) = A!Length(q)
    <2>1. A!Length(q) \in Nat BY <1>4, LengthNat
    <2>2. A!Length(z) = A!Length(q) + A!Length(r) BY <1>3, <1>4, LengthJoined DEF z
    <2> QED BY <1>3, <2>1, <2>2
<1> QED BY <1>2, <1>10, <1>11, <1>12 DEF z, r

\* http_chunk_append_mem(): content, and the end of it
LEMMA FramedContent ==
    ASSUME NEW chunked \in BOOLEAN, NEW q, Framed(chunked, FALSE, q), NEW n \in Nat \ {0},
           NEW r, r = A!http_chunk_append_mem(chunked, n)
    PROVE  r \in Seq(Items) /\ Framed(chunked, FALSE, q \o r) /\ A!Length(q \o r) = A!Length(q) + n
<1>1. CASE chunked
    <2>1. chunked = TRUE BY <1>1
    <2>2. r = A!append_mem(TRUE, n) /\ Open(q) BY <2>1 DEF A!http_chunk_append_mem, Framed
    <2>3. r \in Seq(Items) /\ Open(q \o r) /\ A!Length(q \o r) = A!Length(q) + n BY <2>2, OpenChunk
    <2> QED BY <2>1, <2>3 DEF Framed
<1>2. CASE ~chunked
    <2>1. r = A!Content(n) /\ Plain(q) BY <1>2 DEF A!http_chunk_append_mem, A!append_mem, Framed
    <2>2. Plain(r) /\ A!Length(r) = n BY <2>1, PlainContent
    <2>3. Plain(q \o r) BY <2>1, <2>2, PlainJoined
    <2>4. A!Length(q \o r) = A!Length(q) + n BY <2>1, <2>2, LengthJoined DEF Plain
    <2> QED BY <1>2, <2>2, <2>3, <2>4 DEF Framed, Plain
<1> QED BY <1>1, <1>2

LEMMA FramedEnd ==
    ASSUME NEW chunked \in BOOLEAN, NEW q, Framed(chunked, FALSE, q), NEW r, r = A!http_chunk_append_mem(chunked, 0)
    PROVE  r \in Seq(Items) /\ Framed(chunked, TRUE, q \o r) /\ A!Length(q \o r) = A!Length(q)
<1>1. CASE chunked
    <2>1. chunked = TRUE BY <1>1
    <2>2. r = A!append_mem(TRUE, 0) /\ Open(q) BY <2>1 DEF A!http_chunk_append_mem, Framed
    <2>3. r \in Seq(Items) /\ Closed(q \o r) /\ A!Length(q \o r) = A!Length(q) BY <2>2, OpenEnd
    <2> QED BY <2>1, <2>3 DEF Framed
<1>2. CASE ~chunked
    <2>1. r = A!Content(0) /\ Plain(q) BY <1>2 DEF A!http_chunk_append_mem, A!append_mem, Framed
    <2>2. Plain(r) /\ A!Length(r) = 0 BY <2>1, PlainContent
    <2>3. Plain(q \o r) BY <2>1, <2>2, PlainJoined
    <2>4. A!Length(q \o r) = A!Length(q) + 0 /\ A!Length(q) \in Nat
        BY <2>1, <2>2, LengthJoined, LengthNat DEF Plain
    <2> QED BY <1>2, <2>2, <2>3, <2>4 DEF Framed, Plain
<1> QED BY <1>1, <1>2

LEMMA FramedItems ==
    ASSUME NEW chunked, NEW finished, NEW q, Framed(chunked, finished, q)
    PROVE  q \in Seq(Items) /\ A!Length(q) \in Nat
<1>1. q \in Seq(Items) BY DEF Framed, Plain, Open, Closed
<1> QED BY <1>1, LengthNat

LEMMA FramedEmpty == \A chunked : Framed(chunked, FALSE, <<>>)
<1>1. <<>> \in Seq(Items) /\ Len(<<>>) = 0 BY EmptySeq
<1>2. Plain(<<>>) BY <1>1 DEF Plain
<1>3. Open(<<>>) BY <1>1 DEF Open
<1> QED BY <1>2, <1>3 DEF Framed

\* The header is in front, and what comes later behind it.
Headed(w) == w \in Seq(Items) /\ w # <<>> /\ w[1].kind = "head"
LEMMA InFront ==
    ASSUME NEW q \in Seq(Items), NEW w, w = <<A!Item("head", 0)>> \o q
    PROVE  Headed(w) /\ Tail(w) = q
<1> DEFINE i == A!Item("head", 0)
<1>1. i \in Items /\ i.kind = "head" BY DEF A!Item, Items
<1> HIDE DEF i
<1>2. <<i>> \in Seq(Items) /\ Len(<<i>>) = 1 /\ <<i>>[1] = i BY <1>1
<1>3. w = <<i>> \o q BY DEF i
<1>4. w \in Seq(Items) /\ Len(w) = 1 + Len(q) /\ Len(q) \in Nat /\ w[1] = i
      /\ \A k \in 1..Len(q) : w[1 + k] = q[k]
    <2> DEFINE s == <<i>>
    <2>1. s \in Seq(Items) /\ Len(s) = 1 /\ s[1] = i /\ w = s \o q BY <1>2, <1>3
    <2> HIDE DEF s
    <2>2. /\ w \in Seq(Items) /\ Len(w) = Len(s) + Len(q) /\ Len(q) \in Nat
          /\ (\A k \in 1..Len(s) : w[k] = s[k]) /\ (\A k \in 1..Len(q) : w[Len(s) + k] = q[k])
        BY <2>1, JoinedItems
    <2> QED BY <2>1, <2>2
<1>5. w # <<>> BY <1>4
<1>6. Tail(w) \in Seq(Items) /\ Len(Tail(w)) = Len(q) /\ \A k \in 1..Len(q) : Tail(w)[k] = q[k]
    <2>1. Len(w) - 1 = Len(q) BY <1>4
    <2>2. Tail(w) \in Seq(Items) /\ Len(Tail(w)) = Len(w) - 1 /\ \A k \in 1..Len(w) - 1 : Tail(w)[k] = w[k + 1]
        BY <1>4, <1>5, HeadTailProperties
    <2>3. \A k \in 1..Len(q) : k + 1 = 1 + k OBVIOUS
    <2> QED BY <1>4, <2>1, <2>2, <2>3
<1>7. Tail(w) = q BY <1>6, SeqEqual
<1> QED BY <1>1, <1>4, <1>5, <1>7 DEF Headed

LEMMA Behind ==
    ASSUME NEW w, Headed(w), NEW r \in Seq(Items)
    PROVE  Headed(w \o r) /\ Tail(w \o r) = Tail(w) \o r
<1> DEFINE z == w \o r
           N == Len(w)
           M == Len(r)
           t == Tail(w)
           u == t \o r
           v == Tail(z)
<1>1. /\ z \in Seq(Items) /\ Len(z) = N + M /\ N \in Nat /\ M \in Nat
      /\ (\A k \in 1..N : z[k] = w[k]) /\ (\A k \in 1..M : z[N + k] = r[k])
    BY JoinedItems DEF Headed
<1>2. N >= 1 BY <1>1, EmptySeq DEF Headed
<1>3. z # <<>> /\ z[1] = w[1] BY <1>1, <1>2
<1>4. t \in Seq(Items) /\ Len(t) = N - 1 /\ \A k \in 1..N - 1 : t[k] = w[k + 1]
    BY HeadTailProperties DEF Headed
<1> HIDE DEF z, t
<1>5. /\ u \in Seq(Items) /\ Len(u) = N - 1 + M
      /\ (\A k \in 1..N - 1 : u[k] = t[k]) /\ (\A k \in 1..M : u[N - 1 + k] = r[k])
    <2>1. /\ u \in Seq(Items) /\ Len(u) = Len(t) + M
          /\ (\A k \in 1..Len(t) : u[k] = t[k]) /\ (\A k \in 1..M : u[Len(t) + k] = r[k])
        BY <1>4, JoinedItems
    <2> QED BY <1>4, <2>1
<1>6. v \in Seq(Items) /\ Len(v) = N + M - 1 /\ \A k \in 1..N + M - 1 : v[k] = z[k + 1]
    BY <1>1, <1>3, HeadTailProperties
<1> HIDE DEF u, v
<1>7. ASSUME NEW k \in 1..Len(u) PROVE v[k] = u[k]
    <2>0. v[k] = z[k + 1] BY <1>1, <1>5, <1>6
    <2>1. CASE k <= N - 1
        <3>1. k \in 1..N - 1 /\ k + 1 \in 1..N BY <1>1, <2>1
        <3> QED BY <1>1, <1>4, <1>5, <2>0, <3>1
    <2>2. CASE ~(k <= N - 1)
        <3> DEFINE j == k - (N - 1)
        <3>1. j \in 1..M /\ k = N - 1 + j /\ k + 1 = N + j BY <1>1, <1>5, <2>2
        <3> HIDE DEF j
        <3>2. u[N - 1 + j] = r[j] /\ z[N + j] = r[j] BY <1>1, <1>5, <3>1
        <3> QED BY <2>0, <3>1, <3>2
    <2> QED BY <2>1, <2>2
<1>8. Len(v) = Len(u) BY <1>1, <1>5, <1>6
<1>9. v = u BY <1>5, <1>6, <1>7, <1>8, SeqEqual
<1> QED BY <1>1, <1>3, <1>9 DEF Headed, z, u, v, t

LEMMA BehindHead ==
    ASSUME NEW w, Headed(w)
    PROVE  Tail(w) \in Seq(Items) /\ A!Length(Tail(w)) = A!Length(w)
<1> DEFINE h == Head(w)
           t == Tail(w)
<1>1. h = w[1] /\ h \in Items /\ t \in Seq(Items) /\ w = <<h>> \o t
    <2>1. Head(w) = w[1] BY DEF Headed
    <2>2. Head(w) \in Items /\ Tail(w) \in Seq(Items) BY HeadTailProperties DEF Headed
    <2>3. w = <<Head(w)>> \o Tail(w) BY DEF Headed
    <2> QED BY <2>1, <2>2, <2>3
<1> HIDE DEF h, t
<1>2. <<h>> \in Seq(Items) /\ A!Length(<<h>>) = 0 BY <1>1, LengthOne DEF ContentOf, Headed
<1>3. A!Length(w) = 0 + A!Length(t) /\ A!Length(t) \in Nat BY <1>1, <1>2, LengthJoined, LengthNat
<1> QED BY <1>1, <1>3 DEF t

(***************************************************************************)
(* The invariant, by the place a request is at: nothing is decided yet,    *)
(* the backend's answer, an answer of the server's own, and one that is    *)
(* being sent or was.                                                      *)
(***************************************************************************)
Answers ==
    [http_status : Nat, mode : {"DIRECT", "gateway"}, file_finished : BOOLEAN, file_started : BOOLEAN,
     chunked : BOOLEAN, content_length : Int, wish : {"none", "close", "keep-alive"},
     in_error_handler : BOOLEAN, saved : Nat, keep_alive : BOOLEAN, over : BOOLEAN, late : BOOLEAN]
Undecided(c, q) == /\ c.http_status = 0 /\ ~c.file_finished /\ ~c.file_started /\ ~c.chunked
                   /\ c.content_length = -1 /\ ~c.late /\ q = <<>>
\* the part of a backend's answer that has come
Coming(c, q) ==
    /\ c.file_started /\ ~c.late /\ Framed(c.chunked, c.file_finished, q)
    /\ c.chunked => A!Chunks(c.content_length)
    /\ A!Chunks(c.content_length) /\ ~c.chunked /\ ~c.file_finished => q = <<>>
    /\ c.file_finished => c.over
Own(c, q) ==
    /\ ~c.file_started /\ ~c.late /\ ~c.chunked /\ c.content_length = -1 /\ Plain(q)
    /\ c.http_status \in {200, 206, 301, 304, 403, 404, 500, 503}
    /\ c.http_status \in {403, 404, 500, 503} => q = <<>>
    /\ q # <<>> => req.method # "unknown"
HeaderSent(q) ==
    /\ Headed(q) /\ head.close = ~con.keep_alive /\ (head.chunked => req.version = "1.1")
    /\ con.mode = "DIRECT" /\ con.in_error_handler /\ head.status \in {403, 404} => head.status = con.saved
    /\ con.mode = "DIRECT" /\ head.status \in 400..599 => Len(Tail(q)) <= 1
Believed(q) ==
    IF req.method = "HEAD" \/ A!NoContent(head.status) THEN con.file_finished /\ (con.chunked \/ Tail(q) # <<>> => con.late)
    ELSE /\ ~con.late /\ (con.mode = "gateway" /\ con.file_finished => con.over)
         /\ IF head.chunked
            THEN con.chunked /\ A!Chunks(con.content_length) /\ Framed(TRUE, con.file_finished, Tail(q))
            ELSE /\ Plain(Tail(q)) /\ ~con.chunked
                 /\ con.content_length = -1 => con.file_finished
                 /\ head.length = IF con.content_length # -1 THEN con.content_length ELSE A!Length(Tail(q))

Hooked == step \in {"prepare", "file", "start"} \cup A!Range(Hooks)
FramingInv ==
    /\ con \in Answers
    /\ con.in_error_handler => con.saved \in {403, 404}
    /\ step = "idle" => Undecided(con, output) /\ con.mode = "DIRECT"
    /\ Hooked => Undecided(con, output) /\ con.mode = "DIRECT"
    /\ step = "subrequest" =>
          /\ con.mode = "gateway"
          /\ IF con.file_started THEN Coming(con, output) /\ con.http_status \in {0, 204, 404}
             ELSE Undecided(con, output)
    /\ step = "respstart" =>
          IF con.mode = "gateway"
          THEN /\ Coming(con, output) /\ con.http_status \in {200, 204, 404}
               /\ con.file_finished \/ A!Length(output) > 0
          ELSE /\ Own(con, output)
               /\ con.in_error_handler /\ con.http_status \in {403, 404} => con.http_status = con.saved
    /\ step = "write" \/ (step = "done" /\ ~aborted) =>
          /\ HeaderSent(output) /\ (~head.close => Believed(output))
          /\ step = "done" => con.file_finished

LEMMA HookPlaces ==
    ASSUME A!ResponseAssumption
    PROVE  /\ \A h \in A!Places : h \notin A!Range(Hooks)
           /\ Hooks[1] \in A!Range(Hooks)
           /\ \A h \in A!Range(Hooks) : A!NextHook(h) \in A!Range(Hooks) \cup {"file"}
<1>1. Hooks \in Seq(STRING) /\ Hooks # <<>> /\ A!Range(Hooks) \cap A!Places = {} BY DEF A!ResponseAssumption
<1>2. Len(Hooks) \in Nat /\ Len(Hooks) # 0 /\ DOMAIN Hooks = 1..Len(Hooks) BY <1>1, EmptySeq, LenProperties
<1>3. \A k \in 1..Len(Hooks) : Hooks[k] \in A!Range(Hooks) BY <1>2 DEF A!Range
<1>4. ASSUME NEW h \in A!Range(Hooks) PROVE A!NextHook(h) \in A!Range(Hooks) \cup {"file"}
    <2> DEFINE k == CHOOSE i \in 1..Len(Hooks) : Hooks[i] = h
    <2>1. \E i \in 1..Len(Hooks) : Hooks[i] = h BY <1>2 DEF A!Range
    <2>2. k \in 1..Len(Hooks) BY <2>1
    <2>3. A!NextHook(h) = IF k = Len(Hooks) THEN "file" ELSE Hooks[k + 1] BY DEF A!NextHook
    <2> HIDE DEF k
    <2>4. CASE k = Len(Hooks) BY <2>3, <2>4
    <2>5. CASE k # Len(Hooks)
        <3> DEFINE n == Len(Hooks)
        <3>2. n \in Nat /\ k \in 1..n /\ k # n BY ONLY <1>2, <2>2, <2>5
        <3> HIDE DEF n
        <3>3. k + 1 \in 1..n BY ONLY <3>2
        <3>1. k + 1 \in 1..Len(Hooks) BY <3>3 DEF n
        <3>4. Hooks[k + 1] \in A!Range(Hooks) BY <1>3, <3>1
        <3> QED BY ONLY ZenonT(60), <2>3, <2>5, <3>4
    <2> QED BY <2>4, <2>5
<1> QED BY <1>1, <1>2, <1>3, <1>4

LEMMA EmptyPlain == Plain(<<>>) /\ A!Length(<<>>) = 0 /\ <<>> \in Seq(Items)
BY LengthOne DEF Plain

\* What the server has decided itself: the error handler is asked, or the answer begins.
LEMMA FinishOwn ==
    ASSUME A!ResponseAssumption, NEW c \in Answers, c.mode = "DIRECT", Own(c, output'),
           c.in_error_handler => c.saved \in {403, 404}, A!Rejected(c) => ~c.file_finished,
           A!Finished(c), UNCHANGED req
    PROVE  FramingInv'
<1>1. CASE A!Rejected(c) /\ ~c.in_error_handler /\ error_handler
    <2>1. step' = "prepare" /\ con' = [c EXCEPT !.saved = c.http_status, !.http_status = 0, !.in_error_handler = TRUE]
        BY <1>1 DEF A!Finished
    <2>2. c.http_status \in {403, 404} /\ ~c.file_finished BY <1>1 DEF A!Rejected
    <2>3. /\ con' \in Answers /\ con'.saved \in {403, 404} /\ con'.http_status = 0 /\ con'.mode = "DIRECT"
          /\ con'.file_finished = c.file_finished /\ con'.file_started = c.file_started
          /\ con'.chunked = c.chunked /\ con'.content_length = c.content_length /\ con'.late = c.late
        <3>1. con' = [c EXCEPT !.saved = c.http_status, !.http_status = 0, !.in_error_handler = TRUE] BY <2>1
        <3>2. c \in Answers /\ c.mode = "DIRECT" /\ c.http_status \in {403, 404} BY <2>2
        <3>3. con' \in Answers BY ONLY ZenonT(60), <3>1, <3>2 DEF Answers
        <3> QED BY ONLY <3>1, <3>2, <3>3 DEF Answers
    <2>4. output' = <<>> BY <2>2 DEF Own
    <2>5. Undecided(con', output') BY <2>2, <2>3, <2>4 DEF Own, Undecided
    <2> QED BY <2>1, <2>3, <2>5 DEF FramingInv, Hooked, Undecided
<1>2. CASE ~(A!Rejected(c) /\ ~c.in_error_handler /\ error_handler)
    <2> DEFINE s == IF A!Rejected(c) /\ c.in_error_handler THEN c.saved ELSE c.http_status
    <2>1. step' = "respstart" /\ con' = [c EXCEPT !.http_status = IF s = 0 THEN 200 ELSE s]
        BY <1>2 DEF A!Finished
    <2>2. s # 0 /\ s \in {200, 206, 301, 304, 403, 404, 500, 503}
          /\ (s \in {403, 404, 500, 503} => output' = <<>>)
          /\ (c.in_error_handler /\ s \in {403, 404} => s = c.saved)
        BY DEF Own, A!Rejected
    <2> HIDE DEF s
    <2>3. /\ con' \in Answers /\ con'.saved = c.saved /\ con'.http_status = s /\ con'.mode = "DIRECT"
          /\ con'.file_finished = c.file_finished /\ con'.file_started = c.file_started
          /\ con'.chunked = c.chunked /\ con'.content_length = c.content_length /\ con'.late = c.late
          /\ con'.in_error_handler = c.in_error_handler
        <3>1. con' = [c EXCEPT !.http_status = s] BY <2>1, <2>2
        <3>2. c \in Answers /\ c.mode = "DIRECT" /\ s \in Nat BY <2>2
        <3>3. con' \in Answers BY ONLY <3>1, <3>2 DEF Answers
        <3> QED BY ONLY <3>1, <3>2, <3>3 DEF Answers
    <2>4. Own(con, output)' BY <2>2, <2>3 DEF Own
    <2>5. "respstart" \in A!Places /\ "respstart" \notin A!Range(Hooks) BY HookPlaces DEF A!Places
    <2> QED BY <2>1, <2>2, <2>3, <2>4, <2>5 DEF FramingInv, Hooked
<1> QED BY <1>1, <1>2

\* A plugin or the file decides, with nothing in the queue.
Decision(c, s, finished) ==
    /\ c \in Answers /\ c.saved = con.saved /\ c.http_status = s /\ c.mode = "DIRECT"
    /\ c.file_finished = finished /\ c.file_started = con.file_started
    /\ c.chunked = con.chunked /\ c.content_length = con.content_length /\ c.late = con.late
    /\ c.in_error_handler = con.in_error_handler
LEMMA Decides ==
    ASSUME A!ResponseAssumption, con \in Answers, con.mode \in {"DIRECT", "gateway"}, Undecided(con, output),
           con.in_error_handler => con.saved \in {403, 404},
           NEW s \in {200, 301, 403, 404, 500, 503}, NEW finished \in BOOLEAN, finished => s \in {200, 301},
           NEW c, Decision(c, s, finished),
           A!Finished(c), UNCHANGED <<req, output>>
    PROVE  FramingInv'
<1>1. /\ c \in Answers /\ c.saved = con.saved /\ c.http_status = s /\ c.mode = "DIRECT"
      /\ c.file_finished = finished /\ c.file_started = con.file_started
      /\ c.chunked = con.chunked /\ c.content_length = con.content_length /\ c.late = con.late
      /\ c.in_error_handler = con.in_error_handler
    BY DEF Decision
<1>2. output' = <<>> BY DEF Undecided
<1>3. Own(c, output') BY <1>1, <1>2, EmptyPlain DEF Own, Undecided
<1>4. A!Rejected(c) => ~c.file_finished BY <1>1 DEF A!Rejected
<1> QED BY <1>1, <1>3, <1>4, FinishOwn

\* A request goes on to the next hook, begins again, or is taken for a gateway.
LEMMA GoesOn ==
    ASSUME A!ResponseAssumption, FramingInv, Hooked \/ (step = "subrequest" /\ ~con.file_started), UNCHANGED output,
           \/ con' = [con EXCEPT !.mode = "gateway"] /\ step' = "subrequest"
           \/ con' = con /\ con.mode = "DIRECT" /\ Hooked'
           \/ con' = [con EXCEPT !.mode = "DIRECT"] /\ step' = "prepare"
    PROVE  FramingInv'
<1>1. con \in Answers /\ Undecided(con, output) /\ (con.in_error_handler => con.saved \in {403, 404})
    BY DEF FramingInv
<1>2. con' \in Answers /\ Undecided(con', output') /\ (con'.in_error_handler => con'.saved \in {403, 404})
      /\ ~con'.file_started
    BY <1>1 DEF Answers, Undecided
<1>3. \A h \in A!Places : h \notin A!Range(Hooks) BY HookPlaces
<1>4. CASE con' = [con EXCEPT !.mode = "gateway"] /\ step' = "subrequest"
    <2>1. con'.mode = "gateway" BY <1>1, <1>4 DEF Answers
    <2>2. ~Hooked' BY <1>3, <1>4 DEF Hooked, A!Places
    <2> QED BY <1>2, <1>4, <2>1, <2>2 DEF FramingInv
<1>5. CASE con' = con /\ con.mode = "DIRECT" /\ Hooked'
    <2>1. step' \notin {"idle", "subrequest", "respstart", "write", "done"} BY <1>3, <1>5 DEF Hooked, A!Places
    <2> QED BY <1>2, <1>5, <2>1 DEF FramingInv
<1>6. CASE con' = [con EXCEPT !.mode = "DIRECT"] /\ step' = "prepare"
    <2>1. con'.mode = "DIRECT" BY <1>1, <1>6 DEF Answers
    <2> QED BY <1>2, <1>6, <2>1 DEF FramingInv
<1> QED BY <1>4, <1>5, <1>6

\* The header is written in front of the queue.
Fits(c, q) ==
    /\ c.http_status \in {200, 204, 206, 301, 304, 403, 404, 500, 501, 503} /\ ~c.late
    /\ c.chunked => A!Chunks(c.content_length)
    /\ A!NoContent(c.http_status) => q = <<>> /\ c.file_finished /\ ~c.chunked
    /\ Framed(c.chunked, c.file_finished, q) \/ A!NoContent(c.http_status)
    /\ c.mode = "gateway" /\ c.file_finished => c.over \/ A!NoContent(c.http_status)
    /\ c.in_error_handler => c.saved \in {403, 404}
    /\ c.mode = "DIRECT" /\ c.in_error_handler /\ c.http_status \in {403, 404} => c.http_status = c.saved
    /\ c.mode = "DIRECT" /\ c.http_status \in 400..599 => Len(q) <= 1
HeaderWritten(c, q) ==
    LET isHead == req.method = "HEAD"
        chunked == c.chunked /\ ~isHead
        keep == A!KeepAlive(c)
    IN  /\ con' = [c EXCEPT !.keep_alive = keep, !.chunked = chunked, !.file_finished = c.file_finished \/ isHead]
        /\ output' = <<A!Item("head", 0)>> \o (IF isHead THEN <<>> ELSE q)
        /\ head' = [status |-> c.http_status, length |-> A!Told(c, q), chunked |-> chunked, close |-> ~keep]
        /\ step' = "write" /\ UNCHANGED req
LEMMA EndKnown ==
    \A s \in {200, 204, 206, 301, 304, 403, 404, 500, 501, 503} : ~A!NoContent(s) => ~A!NoLength(s)
BY DEF A!NoContent, A!NoLength
LEMMA Begins ==
    ASSUME A!ResponseAssumption, NEW c \in Answers, NEW q \in Seq(Items), Fits(c, q), HeaderWritten(c, q)
    PROVE  FramingInv'
<1> DEFINE isHead == req.method = "HEAD"
           keep == A!KeepAlive(c)
           r == IF isHead THEN <<>> ELSE q
<1>0. /\ con' = [c EXCEPT !.keep_alive = keep, !.chunked = c.chunked /\ ~isHead,
                          !.file_finished = c.file_finished \/ isHead]
      /\ output' = <<A!Item("head", 0)>> \o r
      /\ head' = [status |-> c.http_status, length |-> A!Told(c, q), chunked |-> c.chunked /\ ~isHead,
                  close |-> ~keep]
      /\ step' = "write" /\ UNCHANGED req
    BY DEF HeaderWritten
<1>1. keep \in BOOLEAN /\ (keep => ~A!EndsByClosing(c)) BY DEF A!KeepAlive, A!EndsByClosing, Answers
<1>2. isHead \in BOOLEAN /\ (isHead <=> req.method = "HEAD") OBVIOUS
<1> HIDE DEF isHead, keep
<1>3. /\ con' \in Answers /\ con'.keep_alive = keep /\ con'.chunked = (c.chunked /\ ~isHead)
      /\ con'.file_finished = (c.file_finished \/ isHead)
      /\ con'.content_length = c.content_length /\ con'.mode = c.mode /\ con'.saved = c.saved
      /\ con'.in_error_handler = c.in_error_handler /\ con'.late = c.late /\ con'.over = c.over
    <2> DEFINE x == c.chunked /\ ~isHead
               y == c.file_finished \/ isHead
    <2>1. con' = [c EXCEPT !.keep_alive = keep, !.chunked = x, !.file_finished = y] BY <1>0
    <2>2. x \in BOOLEAN /\ y \in BOOLEAN OBVIOUS
    <2> HIDE DEF x, y
    <2>3. c \in Answers /\ keep \in BOOLEAN BY <1>1
    <2>4. con' \in Answers BY ONLY <2>1, <2>2, <2>3 DEF Answers
    <2>5. /\ con'.keep_alive = keep /\ con'.chunked = x /\ con'.file_finished = y
          /\ con'.content_length = c.content_length /\ con'.mode = c.mode /\ con'.saved = c.saved
          /\ con'.in_error_handler = c.in_error_handler /\ con'.late = c.late /\ con'.over = c.over
        BY ONLY <2>1, <2>3, <2>4 DEF Answers
    <2> QED BY <2>4, <2>5 DEF x, y
<1>4. /\ head'.status = c.http_status /\ head'.length = A!Told(c, q) /\ head'.chunked = (c.chunked /\ ~isHead)
      /\ head'.close = ~keep
    BY <1>0
<1>5. r \in Seq(Items) BY EmptyPlain
<1>6. Headed(output') /\ Tail(output') = r
    <2>1. output' = <<A!Item("head", 0)>> \o r BY <1>0
    <2> HIDE DEF r
    <2> QED BY <1>5, <2>1, InFront
<1>7. HeaderSent(output)'
    <2>1. head'.close = ~con'.keep_alive BY <1>3, <1>4
    <2>2. head'.chunked => req'.version = "1.1" BY ZenonT(60), <1>0, <1>4 DEF Fits, A!Chunks
    <2>3. con'.mode = "DIRECT" /\ con'.in_error_handler /\ head'.status \in {403, 404} => head'.status = con'.saved
        BY <1>3, <1>4 DEF Fits
    <2>4. con'.mode = "DIRECT" /\ head'.status \in 400..599 => Len(Tail(output')) <= 1
        <3>1. Len(<<>>) = 0 OBVIOUS
        <3>2. r = <<>> \/ r = q OBVIOUS
        <3> HIDE DEF r
        <3>3. c.mode = "DIRECT" /\ c.http_status \in 400..599 => Len(r) <= 1 BY <3>1, <3>2 DEF Fits
        <3> QED BY <1>3, <1>4, <1>6, <3>3
    <2> QED BY <1>6, <2>1, <2>2, <2>3, <2>4 DEF HeaderSent
<1>8. ASSUME keep PROVE Believed(output)'
    <2>1. CASE isHead \/ A!NoContent(c.http_status)
        <3>3. r = <<>> /\ (c.file_finished \/ isHead) BY <2>1 DEF Fits
        <3> HIDE DEF r
        <3>4. ~con'.chunked BY <1>3, <2>1 DEF Fits
        <3>1. con'.file_finished /\ Tail(output') = <<>> BY <1>3, <1>6, <3>3
        <3>2. req'.method = "HEAD" \/ A!NoContent(head'.status) BY <1>0, <1>2, <1>4, <2>1
        <3> QED BY <3>1, <3>2, <3>4 DEF Believed, A!NoContent
    <2>2. CASE ~(isHead \/ A!NoContent(c.http_status))
        <3>1. req'.method # "HEAD" /\ ~A!NoContent(head'.status) /\ Tail(output') = q
              /\ con'.chunked = c.chunked /\ head'.chunked = c.chunked /\ con'.file_finished = c.file_finished
            BY <1>0, <1>2, <1>3, <1>4, <1>6, <2>2 DEF Answers
        <3>2. Framed(c.chunked, c.file_finished, q) BY <2>2 DEF Fits
        <3>5. ~con'.late /\ (con'.mode = "gateway" /\ con'.file_finished => con'.over)
            BY <1>3, <2>2, <3>1 DEF Fits
        <3>3. CASE c.chunked
            <4>1. A!Chunks(c.content_length) /\ Framed(TRUE, c.file_finished, q) BY <3>2, <3>3 DEF Fits, Framed
            <4>2. A!Chunks(con.content_length)' BY <1>0, <1>3, <4>1 DEF A!Chunks
            <4> QED BY <3>1, <3>3, <3>5, <4>1, <4>2 DEF Believed, A!NoContent
        <3>4. CASE ~c.chunked
            <4>1. Plain(q) BY <3>2, <3>4 DEF Framed
            <4>2. c.content_length = -1 => c.file_finished BY <1>1, <1>8, <3>4 DEF A!EndsByClosing
            <4>3. A!Told(c, q) = IF c.content_length # -1 THEN c.content_length ELSE A!Length(q)
                <5>1. c.http_status \in {200, 204, 206, 301, 304, 403, 404, 500, 501, 503} BY DEF Fits
                <5>2. ~A!NoLength(c.http_status) BY <2>2, <5>1, EndKnown
                <5> QED BY <1>2, <2>2, <3>4, <4>2, <5>2 DEF A!Told
            <4>4. /\ Plain(Tail(output')) /\ ~con'.chunked /\ ~head'.chunked
                  /\ con'.content_length = -1 => con'.file_finished
                  /\ head'.length = IF con'.content_length # -1 THEN con'.content_length
                                    ELSE A!Length(Tail(output'))
                BY <1>3, <1>4, <3>1, <3>4, <4>1, <4>2, <4>3
            <4> QED BY ZenonT(60), <3>1, <3>5, <4>4 DEF Believed, A!NoContent, A!Length
        <3> QED BY <3>3, <3>4
    <2> QED BY <2>1, <2>2
<1>9. ~head'.close => Believed(output)' BY <1>1, <1>4, <1>8
<1>10. ~Hooked' BY <1>0, HookPlaces DEF Hooked, A!Places
<1>11. con'.in_error_handler => con'.saved \in {403, 404} BY <1>3 DEF Fits
<1> QED BY <1>0, <1>3, <1>7, <1>9, <1>10, <1>11 DEF FramingInv

LEMMA BeginGateway ==
    ASSUME A!ResponseAssumption, FramingInv, A!ResponseStart, con.mode = "gateway"
    PROVE  FramingInv'
<1> DEFINE c == A!ForStatus(A!ForMethod(con))
           q == A!Body(c, output)
<1>1. con \in Answers /\ Coming(con, output) /\ con.http_status \in {200, 204, 404}
      /\ (con.in_error_handler => con.saved \in {403, 404})
    BY DEF FramingInv, A!ResponseStart
<1>2. A!ForMethod(con) = con BY DEF A!ForMethod
<1>3. c = IF con.http_status = 204 THEN [con EXCEPT !.chunked = FALSE, !.content_length = -1, !.file_finished = TRUE]
          ELSE con
    BY <1>1, <1>2 DEF A!ForStatus, A!NoContent, A!Page
<1>4. c \in Answers /\ c.http_status = con.http_status /\ c.mode = "gateway" /\ c.late = con.late /\ c.over = con.over
      /\ c.in_error_handler = con.in_error_handler /\ c.saved = con.saved
      /\ (con.http_status = 204 => ~c.chunked /\ c.content_length = -1 /\ c.file_finished)
    <2> HIDE DEF c
    <2>1. con \in Answers /\ con.mode = "gateway" BY <1>1
    <2>2. CASE con.http_status = 204
        <3>1. c = [con EXCEPT !.chunked = FALSE, !.content_length = -1, !.file_finished = TRUE] BY <1>3, <2>2
        <3>2. c \in Answers
            <4> DEFINE n == -1
            <4>1. n \in Int /\ c = [con EXCEPT !.chunked = FALSE, !.content_length = n, !.file_finished = TRUE]
                BY <3>1
            <4> HIDE DEF n
            <4> QED BY ONLY <2>1, <4>1 DEF Answers
        <3> QED BY ONLY <2>1, <2>2, <3>1, <3>2 DEF Answers
    <2>3. CASE con.http_status # 204
        <3>1. c = con BY <1>3, <2>3
        <3> QED BY ONLY <2>1, <2>3, <3>1
    <2> QED BY <2>2, <2>3
<1>5. q = IF con.http_status = 204 THEN <<>> ELSE output
    <2> HIDE DEF c
    <2> QED BY <1>1, <1>4 DEF A!Body, A!NoContent, A!Page
<1>6. q \in Seq(Items)
    <2>1. output \in Seq(Items) BY <1>1, FramedItems DEF Coming
    <2> QED BY <1>5, <2>1, EmptyPlain
<1>7. Fits(c, q)
    <2> HIDE DEF c, q
    <2>1. CASE con.http_status = 204
        BY <1>1, <1>4, <1>5, <2>1, EmptyPlain DEF Fits, A!NoContent, Coming
    <2>2. CASE con.http_status # 204
        <3>1. c = con /\ q = output /\ con.http_status \in {200, 404} BY <1>1, <1>3, <1>5, <2>2
        <3>2. ~A!NoContent(c.http_status) BY <3>1 DEF A!NoContent
        <3> QED BY <1>1, <1>4, <3>1, <3>2 DEF Fits, Coming
    <2> QED BY <2>1, <2>2
<1>9. ~(req.method = "OPTIONS" /\ c.mode = "DIRECT" /\ c.http_status = 200 /\ ~req.star)
    <2> HIDE DEF c
    <2> QED BY <1>4
<1>10. HeaderWritten(c, q) BY <1>9 DEF A!ResponseStart, HeaderWritten
<1> HIDE DEF c, q
<1> QED BY <1>4, <1>6, <1>7, <1>10, Begins

LEMMA BeginOwn ==
    ASSUME A!ResponseAssumption, FramingInv, A!ResponseStart, con.mode = "DIRECT"
    PROVE  FramingInv'
<1> DEFINE m == A!ForMethod(con)
           c == A!ForStatus(m)
           emptied == req.method = "OPTIONS" /\ c.mode = "DIRECT" /\ c.http_status = 200 /\ ~req.star
           o == IF emptied THEN <<>> ELSE output
           q == A!Body(c, o)
<1>1. con \in Answers /\ Own(con, output) /\ (con.in_error_handler => con.saved \in {403, 404})
      /\ (con.in_error_handler /\ con.http_status \in {403, 404} => con.http_status = con.saved)
    BY DEF FramingInv, A!ResponseStart
<1>2. /\ m \in Answers /\ m.mode = "DIRECT" /\ m.late = con.late /\ m.saved = con.saved
      /\ m.in_error_handler = con.in_error_handler /\ ~m.chunked /\ m.content_length = -1
      /\ (m.http_status = con.http_status \/ (m.http_status = 501 /\ req.method = "unknown"))
      /\ req.method = "OPTIONS" /\ con.http_status = 200 /\ ~req.star => m.file_finished
    <2>0. con \in Answers /\ con.mode = "DIRECT" /\ ~con.chunked /\ con.content_length = -1 BY <1>1 DEF Own
    <2>1. CASE req.method = "OPTIONS"
        <3>1. m = IF con.http_status = 200 /\ ~req.star
                  THEN [con EXCEPT !.chunked = FALSE, !.content_length = -1, !.file_finished = TRUE] ELSE con
            BY <2>0, <2>1 DEF A!ForMethod
        <3> HIDE DEF m
        <3> QED BY ZenonT(60), <2>0, <2>1, <3>1 DEF Answers
    <2>2. CASE req.method = "unknown"
        <3>1. m = IF con.http_status \in {400, 414, 505, 207} THEN con ELSE A!Status(con, 501)
            BY <2>0, <2>2 DEF A!ForMethod
        <3> HIDE DEF m
        <3> QED BY <2>0, <2>2, <3>1 DEF Answers, A!Status
    <2>3. CASE req.method \notin {"OPTIONS", "unknown"}
        <3>1. m = con BY <2>0, <2>3 DEF A!ForMethod
        <3> HIDE DEF m
        <3> QED BY <2>0, <2>3, <3>1
    <2> QED BY <2>1, <2>2, <2>3
<1>3. m.http_status \in {200, 206, 301, 304, 403, 404, 500, 501, 503}
    BY <1>1, <1>2 DEF Own
<1>4. m.http_status \in {403, 404, 500, 501, 503} => output = <<>>
    BY <1>1, <1>2 DEF Own
<1> HIDE DEF m
<1>5. /\ c \in Answers /\ c.mode = "DIRECT" /\ c.late = con.late /\ c.saved = con.saved
      /\ c.in_error_handler = con.in_error_handler /\ ~c.chunked /\ c.content_length = -1
      /\ c.http_status = m.http_status
      /\ (m.http_status \in {304, 403, 404, 500, 501, 503} => c.file_finished)
      /\ (m.file_finished => c.file_finished)
    <2>1. c = IF m.http_status = 304 THEN [m EXCEPT !.chunked = FALSE, !.content_length = -1, !.file_finished = TRUE]
              ELSE IF m.http_status \in {403, 404, 500, 501, 503} THEN [m EXCEPT !.file_finished = TRUE] ELSE m
        BY <1>2, <1>3 DEF A!ForStatus, A!NoContent, A!Page
    <2> HIDE DEF c
    <2>0. m \in Answers /\ m.mode = "DIRECT" /\ ~m.chunked /\ m.content_length = -1 BY <1>2
    <2>2. CASE m.http_status = 304
        <3>1. c = [m EXCEPT !.chunked = FALSE, !.content_length = -1, !.file_finished = TRUE] BY <2>1, <2>2
        <3>2. c \in Answers BY ONLY <2>0, <3>1 DEF Answers
        <3>3. /\ c.mode = "DIRECT" /\ c.late = m.late /\ c.saved = m.saved /\ c.in_error_handler = m.in_error_handler
              /\ ~c.chunked /\ c.content_length = -1 /\ c.http_status = m.http_status /\ c.file_finished
            BY ONLY <2>0, <3>1, <3>2 DEF Answers
        <3> QED BY <1>2, <3>2, <3>3
    <2>3. CASE m.http_status \in {403, 404, 500, 501, 503}
        <3>1. c = [m EXCEPT !.file_finished = TRUE] BY <2>1, <2>3
        <3>2. c \in Answers BY ONLY <2>0, <3>1 DEF Answers
        <3>3. /\ c.mode = "DIRECT" /\ c.late = m.late /\ c.saved = m.saved /\ c.in_error_handler = m.in_error_handler
              /\ ~c.chunked /\ c.content_length = -1 /\ c.http_status = m.http_status /\ c.file_finished
            BY ONLY <2>0, <3>1, <3>2 DEF Answers
        <3> QED BY <1>2, <3>2, <3>3
    <2>4. CASE m.http_status \notin {304, 403, 404, 500, 501, 503}
        <3>1. c = m BY <2>1, <2>4
        <3> QED BY <1>2, <2>4, <3>1
    <2> QED BY <2>2, <2>3, <2>4
<1> HIDE DEF c
<1>6. Plain(o) /\ (emptied => c.file_finished) /\ (m.http_status \in {403, 404, 500, 501, 503} => o = <<>>)
    <2>1. emptied => m.file_finished BY <1>2, <1>5
    <2>2. Plain(output) BY <1>1 DEF Own
    <2> QED BY <1>4, <1>5, <2>1, <2>2, EmptyPlain
<1> HIDE DEF emptied, o
<1>7. q \in Seq(Items) /\ Fits(c, q)
    <2>0. c.http_status \in {200, 206, 301, 304, 403, 404, 500, 501, 503} /\ ~c.late BY <1>1, <1>3, <1>5 DEF Own
    <2>4. con.in_error_handler /\ m.http_status \in {403, 404} => m.http_status = con.saved BY <1>1, <1>2
    <2>5. c.in_error_handler => c.saved \in {403, 404} BY <1>1, <1>5
    <2>1. CASE m.http_status = 304
        <3>1. q = <<>> BY <1>5, <2>1 DEF A!Body, A!NoContent
        <3>2. A!NoContent(c.http_status) /\ c.http_status = 304 /\ c.file_finished BY <1>5, <2>1 DEF A!NoContent
        <3> HIDE DEF q
        <3> QED BY <1>1, <1>5, <2>0, <3>1, <3>2, EmptyPlain DEF Fits
    <2>2. CASE m.http_status \in {403, 404, 500, 501, 503}
        <3>1. ~A!NoContent(c.http_status) /\ A!Page(c) BY <1>5, <2>2 DEF A!NoContent, A!Page
        <3> DEFINE n == IF error_file THEN 2 ELSE 1
                   p == A!Content(n)
        <3>2. n \in Nat \ {0} OBVIOUS
        <3>3. q = <<>> \o p BY ZenonT(60), <1>6, <2>2, <3>1 DEF A!Body
        <3> HIDE DEF n, q
        <3>4. Plain(p) BY <3>2, PlainContent
        <3>5. Len(p) = 1
            <4>1. p = <<A!Item("data", n)>> BY <3>2 DEF A!Content
            <4> QED BY <4>1
        <3>6. <<>> \o p = p BY <3>4 DEF Plain
        <3>7. Plain(q) /\ Len(q) = 1 BY <3>3, <3>4, <3>5, <3>6
        <3>8. q \in Seq(Items) BY <3>7 DEF Plain
        <3>9. Framed(c.chunked, c.file_finished, q) BY <1>5, <3>7 DEF Framed
        <3>10. c.in_error_handler /\ c.http_status \in {403, 404} => c.http_status = c.saved BY <1>5, <2>4
        <3> QED BY <1>5, <2>0, <2>5, <3>1, <3>7, <3>8, <3>9, <3>10 DEF Fits
    <2>3. CASE m.http_status \in {200, 206, 301}
        <3>1. ~A!NoContent(c.http_status) /\ ~A!Page(c) /\ c.http_status \notin 400..599
            BY <1>5, <2>3 DEF A!NoContent, A!Page
        <3>2. q = o BY <3>1 DEF A!Body
        <3> HIDE DEF q
        <3>3. q \in Seq(Items) /\ Framed(c.chunked, c.file_finished, q) BY <1>5, <1>6, <3>2 DEF Framed, Plain
        <3>4. c.http_status \notin {403, 404} BY <1>5, <2>3
        <3>5. ~c.chunked /\ c.content_length = -1 BY <1>5
        <3>9. c.mode = "DIRECT" BY <1>5
        <3>6. c.http_status \in {200, 204, 206, 301, 304, 403, 404, 500, 501, 503} BY <2>0
        <3>7. /\ c.mode = "DIRECT" /\ c.in_error_handler /\ c.http_status \in {403, 404} => c.http_status = c.saved
              /\ c.mode = "DIRECT" /\ c.http_status \in 400..599 => Len(q) <= 1
            BY ONLY <3>1, <3>4
        <3>8. /\ ~c.late /\ (c.chunked => A!Chunks(c.content_length))
              /\ (A!NoContent(c.http_status) => q = <<>> /\ c.file_finished /\ ~c.chunked)
              /\ c.mode # "gateway"
            BY ONLY <2>0, <3>1, <3>5, <3>9
        <3> QED BY ONLY <2>5, <3>3, <3>6, <3>7, <3>8 DEF Fits
    <2> QED BY <1>3, <2>1, <2>2, <2>3
<1>8. HeaderWritten(c, q) BY DEF A!ResponseStart, HeaderWritten, o, emptied, c, m
<1> HIDE DEF q
<1> QED BY <1>5, <1>7, <1>8, Begins

LEMMA Quiet ==
    ASSUME A!ResponseAssumption
    PROVE  \A p \in {"idle", "subrequest", "respstart", "write", "done"} :
               p \notin {"prepare", "file", "start"} \cup A!Range(Hooks)
BY HookPlaces DEF A!Places

LEMMA AppendItems ==
    ASSUME NEW chunked \in BOOLEAN, NEW n \in Nat
    PROVE  A!http_chunk_append_mem(chunked, n) \in Seq(Items)
<1>1. Framed(chunked, FALSE, <<>>) BY FramedEmpty
<1>2. CASE n = 0 BY <1>1, <1>2, FramedEnd
<1>3. CASE n # 0
    <2>1. n \in Nat \ {0} BY <1>3
    <2> QED BY <1>1, <2>1, FramedContent
<1> QED BY <1>2, <1>3

LEMMA BlankAnswer ==
    ASSUME NEW b \in BOOLEAN, NEW c, c = [A!NoAnswer EXCEPT !.keep_alive = b] \/ (c = A!NoAnswer /\ ~b)
    PROVE  c \in Answers /\ Undecided(c, <<>>) /\ c.mode = "DIRECT" /\ ~c.in_error_handler
<1> DEFINE n == -1
<1>1. c = [http_status |-> 0, mode |-> "DIRECT", file_finished |-> FALSE, file_started |-> FALSE,
           chunked |-> FALSE, content_length |-> n, wish |-> "none", in_error_handler |-> FALSE,
           saved |-> 0, keep_alive |-> b, over |-> FALSE, late |-> FALSE]
    <2>1. A!NoAnswer = [http_status |-> 0, mode |-> "DIRECT", file_finished |-> FALSE, file_started |-> FALSE,
                        chunked |-> FALSE, content_length |-> n, wish |-> "none", in_error_handler |-> FALSE,
                        saved |-> 0, keep_alive |-> FALSE, over |-> FALSE, late |-> FALSE]
        BY DEF A!NoAnswer
    <2> HIDE DEF n
    <2>2. c = [A!NoAnswer EXCEPT !.keep_alive = b] \/ (c = A!NoAnswer /\ b = FALSE) OBVIOUS
    <2>3. CASE c = [A!NoAnswer EXCEPT !.keep_alive = b] BY ONLY <2>1, <2>3
    <2>4. CASE c = A!NoAnswer /\ b = FALSE BY ONLY <2>1, <2>4
    <2> QED BY <2>2, <2>3, <2>4
<1>2. n \in Int /\ n = -1 OBVIOUS
<1> HIDE DEF n
<1>3. c \in Answers BY ONLY <1>1, <1>2, b \in BOOLEAN DEF Answers
<1>4. /\ c.http_status = 0 /\ ~c.file_finished /\ ~c.file_started /\ ~c.chunked /\ c.content_length = n
      /\ ~c.late /\ c.mode = "DIRECT" /\ ~c.in_error_handler
    BY ONLY <1>1
<1> QED BY <1>2, <1>3, <1>4 DEF Undecided

LEMMA FramingInit == ASSUME A!ResponseAssumption, A!Init PROVE FramingInv
<1>1. step = "idle" /\ con = A!NoAnswer /\ output = <<>>
    BY DEF A!Init
<1>2. con \in Answers /\ Undecided(con, <<>>) /\ con.mode = "DIRECT" /\ ~con.in_error_handler
    BY <1>1, BlankAnswer
<1>3. ~Hooked BY <1>1, Quiet DEF Hooked
<1> QED BY <1>1, <1>2, <1>3 DEF FramingInv

LEMMA FramingArrive ==
    ASSUME A!ResponseAssumption, FramingInv, NEW r \in Requests, A!Arrive(r)
    PROVE  FramingInv'
<1>1. step' = "prepare" /\ con' = [A!NoAnswer EXCEPT !.keep_alive = r.keep_alive] /\ output' = <<>>
    BY DEF A!Arrive, FramingInv, Undecided
<1>2. r.keep_alive \in BOOLEAN BY DEF A!ResponseAssumption
<1>3. con' \in Answers /\ Undecided(con', <<>>) /\ con'.mode = "DIRECT" /\ ~con'.in_error_handler
    BY <1>1, <1>2, BlankAnswer
<1> QED BY <1>1, <1>3 DEF FramingInv

LEMMA FramingReset == ASSUME A!ResponseAssumption, FramingInv, A!Reset PROVE FramingInv'
<1>1. step' = "idle" /\ con' = A!NoAnswer /\ output' = <<>>
    BY DEF A!Reset
<1>2. con' \in Answers /\ Undecided(con', <<>>) /\ con'.mode = "DIRECT" /\ ~con'.in_error_handler
    BY <1>1, BlankAnswer
<1>3. ~Hooked' BY <1>1, Quiet DEF Hooked
<1> QED BY <1>1, <1>2, <1>3 DEF FramingInv

\* What holds while a request goes through the hooks.
LEMMA BeforeAnswer ==
    ASSUME FramingInv, Hooked \/ (step = "subrequest" /\ ~con.file_started)
    PROVE  /\ con \in Answers /\ con.mode \in {"DIRECT", "gateway"} /\ Undecided(con, output)
           /\ con.in_error_handler => con.saved \in {403, 404}
           /\ Hooked => con.mode = "DIRECT"
BY DEF FramingInv, Answers

LEMMA FramingPrepare == ASSUME A!ResponseAssumption, FramingInv, A!Prepare PROVE FramingInv'
<1>1. Hooked BY DEF A!Prepare, Hooked
<1>2. con.http_status = 0 /\ con.mode = "DIRECT" BY <1>1, BeforeAnswer DEF Undecided
<1>3. step' = Hooks[1] /\ UNCHANGED <<con, output>> BY <1>2 DEF A!Prepare
<1>4. Hooked' BY <1>3, HookPlaces DEF Hooked
<1> QED BY <1>1, <1>2, <1>3, <1>4, GoesOn

LEMMA FramingHook == ASSUME A!ResponseAssumption, FramingInv, A!Hook PROVE FramingInv'
<1>1. step \in A!Range(Hooks) /\ Hooked /\ UNCHANGED <<req, output>> BY DEF A!Hook, Hooked
<1>2. /\ con \in Answers /\ con.mode = "DIRECT" /\ Undecided(con, output) /\ ~con.file_finished
      /\ con.in_error_handler => con.saved \in {403, 404}
    BY <1>1, BeforeAnswer DEF Undecided
<1>3. CASE step' = A!NextHook(step) /\ UNCHANGED con
    <2>1. Hooked' BY <1>1, <1>3, HookPlaces DEF Hooked
    <2> QED BY <1>1, <1>2, <1>3, <2>1, GoesOn
<1>4. ASSUME NEW s \in {301, 403}, A!Finished([A!Status(con, s) EXCEPT !.file_finished = (s = 301)])
      PROVE  FramingInv'
    <2>0. PICK f \in BOOLEAN : f = (s = 301) OBVIOUS
    <2>1. (f => s \in {200, 301}) /\ s \in {200, 301, 403, 404, 500, 503} BY ZenonT(60), <2>0
    <2>2. PICK c : c = [A!Status(con, s) EXCEPT !.file_finished = f] OBVIOUS
    <2>3. A!Finished(c) BY <1>4, <2>0, <2>2
    <2>4. Decision(c, s, f)
        <3>1. con \in Answers /\ con.mode = "DIRECT" /\ con.file_finished = FALSE /\ s \in Nat /\ f \in BOOLEAN
            BY <1>2, <2>0, <2>1 DEF Answers
        <3> DEFINE d == [con EXCEPT !.http_status = s]
        <3>3. c = [d EXCEPT !.file_finished = f] BY <2>2 DEF A!Status
        <3>4. d \in Answers BY ONLY <3>1 DEF Answers
        <3> HIDE DEF d
        <3>2. c \in Answers BY ONLY <3>1, <3>3, <3>4 DEF Answers
        <3> QED BY ONLY <3>1, <3>2, <2>1, <2>2 DEF Answers, A!Status, Decision
    <2> QED BY <1>1, <1>2, <2>1, <2>3, <2>4, Decides
<1>5. CASE step' = "prepare" /\ UNCHANGED con
    <2>1. Hooked' BY <1>5 DEF Hooked
    <2> QED BY <1>1, <1>2, <1>5, <2>1, GoesOn
<1>6. CASE con' = [con EXCEPT !.mode = "gateway"] /\ step' = "subrequest"
    BY <1>1, <1>6, GoesOn
<1>7. CASE A!Finished([A!Status(con, 200) EXCEPT !.file_finished = TRUE])
    <2>0. PICK f \in BOOLEAN : f = TRUE OBVIOUS
    <2>1. PICK c : c = [A!Status(con, 200) EXCEPT !.file_finished = f] OBVIOUS
    <2>2. A!Finished(c) BY <1>7, <2>0, <2>1
    <2>3. Decision(c, 200, f)
        <3>1. con \in Answers /\ con.mode = "DIRECT" /\ con.file_finished = FALSE /\ f \in BOOLEAN
            BY <1>2, <2>1 DEF Answers
        <3> DEFINE d == [con EXCEPT !.http_status = 200]
        <3>3. c = [d EXCEPT !.file_finished = f] BY <2>1 DEF A!Status
        <3>4. d \in Answers BY ONLY <3>1 DEF Answers
        <3> HIDE DEF d
        <3>2. c \in Answers BY ONLY <3>1, <3>3, <3>4 DEF Answers
        <3> QED BY ONLY <3>1, <3>2, <2>1 DEF Answers, A!Status, Decision
    <2>4. 200 \in {200, 301, 403, 404, 500, 503} /\ (f => 200 \in {200, 301}) OBVIOUS
    <2> QED BY <1>1, <1>2, <2>2, <2>3, <2>4, Decides
<1> QED BY <1>3, <1>4, <1>5, <1>6, <1>7 DEF A!Hook

LEMMA FramingFile == ASSUME A!ResponseAssumption, FramingInv, A!File PROVE FramingInv'
<1>1. Hooked /\ UNCHANGED <<req, output>> BY DEF A!File, Hooked
<1>2. /\ con \in Answers /\ con.mode = "DIRECT" /\ Undecided(con, output) /\ ~con.file_finished
      /\ con.in_error_handler => con.saved \in {403, 404}
    BY <1>1, BeforeAnswer DEF Undecided
<1>3. CASE step' = "start" /\ UNCHANGED con
    <2>1. Hooked' BY <1>3 DEF Hooked
    <2> QED BY <1>1, <1>2, <1>3, <2>1, GoesOn
<1>4. ASSUME NEW s \in {403, 404, 500}, A!Finished(A!Status(con, s)) PROVE FramingInv'
    <2>1. PICK c : c = A!Status(con, s) OBVIOUS
    <2>2. A!Finished(c) BY <1>4, <2>1
    <2>3. Decision(c, s, FALSE)
        <3>1. con \in Answers /\ con.mode = "DIRECT" /\ con.file_finished = FALSE /\ s \in Nat
            BY <1>2, <2>1 DEF Answers
        <3>2. c \in Answers BY ONLY <3>1, <2>1 DEF Answers, A!Status
        <3> QED BY ONLY <3>1, <3>2, <2>1 DEF Answers, A!Status, Decision
    <2>4. s \in {200, 301, 403, 404, 500, 503} OBVIOUS
    <2> QED BY ZenonT(60), <1>1, <1>2, <2>2, <2>3, <2>4, Decides
<1>5. CASE A!Finished([A!Status(con, 301) EXCEPT !.file_finished = TRUE])
    <2>0. PICK f \in BOOLEAN : f = TRUE OBVIOUS
    <2>1. PICK c : c = [A!Status(con, 301) EXCEPT !.file_finished = f] OBVIOUS
    <2>2. A!Finished(c) BY <1>5, <2>0, <2>1
    <2>3. Decision(c, 301, f)
        <3>1. con \in Answers /\ con.mode = "DIRECT" /\ con.file_finished = FALSE /\ f \in BOOLEAN
            BY <1>2, <2>1 DEF Answers
        <3> DEFINE d == [con EXCEPT !.http_status = 301]
        <3>3. c = [d EXCEPT !.file_finished = f] BY <2>1 DEF A!Status
        <3>4. d \in Answers BY ONLY <3>1 DEF Answers
        <3> HIDE DEF d
        <3>2. c \in Answers BY ONLY <3>1, <3>3, <3>4 DEF Answers
        <3> QED BY ONLY <3>1, <3>2, <2>1 DEF Answers, A!Status, Decision
    <2>4. 301 \in {200, 301, 403, 404, 500, 503} /\ (f => 301 \in {200, 301}) OBVIOUS
    <2> QED BY <1>1, <1>2, <2>2, <2>3, <2>4, Decides
<1> QED BY <1>3, <1>4, <1>5 DEF A!File

LEMMA FramingStart == ASSUME A!ResponseAssumption, FramingInv, A!Start PROVE FramingInv'
<1>1. Hooked /\ UNCHANGED req BY DEF A!Start, Hooked
<1>2. /\ con \in Answers /\ con.mode = "DIRECT" /\ Undecided(con, output) /\ ~con.file_finished
      /\ con.in_error_handler => con.saved \in {403, 404}
    BY <1>1, BeforeAnswer DEF Undecided
<1>3. ASSUME NEW n \in 0..MaxContent, NEW s \in {200, 206, 304}, req.method \in {"GET", "POST", "HEAD"},
             output' = output \o A!append_file(n),
             A!Finished([A!Status(con, s) EXCEPT !.file_finished = TRUE])
      PROVE  FramingInv'
    <2> DEFINE p == A!Content(n)
    <2>0. PICK c : c = [A!Status(con, s) EXCEPT !.file_finished = TRUE] OBVIOUS
    <2>1. A!Finished(c) BY <1>3, <2>0
    <2>2. n \in Nat BY DEF A!ResponseAssumption
    <2>3. Plain(p) BY <2>2, PlainContent
    <2> HIDE DEF p
    <2>4. output' = p
        <3>1. output' = <<>> \o p BY <1>2, <1>3 DEF Undecided, A!append_file, p
        <3> QED BY <2>3, <3>1 DEF Plain
    <2>5. /\ c \in Answers /\ c.http_status = s /\ c.mode = "DIRECT" /\ c.file_finished
          /\ c.file_started = con.file_started /\ c.chunked = con.chunked /\ c.late = con.late
          /\ c.content_length = con.content_length /\ c.in_error_handler = con.in_error_handler
          /\ c.saved = con.saved
        <3>1. con \in Answers /\ con.mode = "DIRECT" /\ s \in Nat BY <1>2
        <3>2. c \in Answers BY ONLY <2>0, <3>1 DEF Answers, A!Status
        <3> QED BY ONLY <2>0, <3>1, <3>2 DEF Answers, A!Status
    <2>6. req'.method # "unknown" BY <1>1, <1>3
    <2>7. Own(c, output)' BY <1>2, <2>3, <2>4, <2>5, <2>6 DEF Own, Undecided
    <2>8. Own(c, output') BY <1>1, <1>3, <2>7 DEF Own
    <2>9. A!Rejected(c) => ~c.file_finished BY <2>5 DEF A!Rejected
    <2>10. c.in_error_handler => c.saved \in {403, 404} BY <1>2, <2>5
    <2> QED BY <1>1, <2>1, <2>5, <2>8, <2>9, <2>10, FinishOwn
<1>4. CASE con' = [con EXCEPT !.mode = "gateway"] /\ step' = "subrequest" /\ UNCHANGED output
    BY <1>1, <1>4, GoesOn
<1>5. CASE A!Finished(A!Status(con, IF req.method = "OPTIONS" THEN 200 ELSE 403)) /\ UNCHANGED output
    <2>1. PICK s : s = IF req.method = "OPTIONS" THEN 200 ELSE 403 OBVIOUS
    <2>2. PICK c : c = A!Status(con, s) OBVIOUS
    <2>3. A!Finished(c) BY <1>5, <2>1, <2>2
    <2>4. s \in {200, 301, 403, 404, 500, 503} BY <2>1
    <2>5. Decision(c, s, FALSE)
        <3>1. con \in Answers /\ con.mode = "DIRECT" /\ con.file_finished = FALSE /\ s \in Nat
            BY <1>2, <2>4 DEF Answers
        <3>2. c \in Answers BY ONLY <3>1, <2>2 DEF Answers, A!Status
        <3> QED BY ONLY <3>1, <3>2, <2>2 DEF Answers, A!Status, Decision
    <2>6. UNCHANGED <<req, output>> BY <1>1, <1>5
    <2> QED BY ZenonT(60), <1>2, <2>3, <2>4, <2>5, <2>6, Decides
<1> QED BY ZenonT(60), <1>3, <1>4, <1>5 DEF A!Start

LEMMA FramingComeback == ASSUME A!ResponseAssumption, FramingInv, A!Comeback PROVE FramingInv'
<1>1. step = "subrequest" /\ ~con.file_started /\ UNCHANGED <<req, output>> BY DEF A!Comeback
<1>2. /\ con \in Answers /\ con.mode \in {"DIRECT", "gateway"} /\ Undecided(con, output) /\ ~con.file_finished
      /\ con.in_error_handler => con.saved \in {403, 404}
    BY <1>1, BeforeAnswer DEF Undecided
<1>3. CASE step' = "prepare" /\ con' = [con EXCEPT !.mode = "DIRECT"] BY <1>1, <1>3, GoesOn
<1>4. CASE A!Finished([A!Status(con, 503) EXCEPT !.mode = "DIRECT"])
    <2>1. PICK c : c = [A!Status(con, 503) EXCEPT !.mode = "DIRECT"] OBVIOUS
    <2>2. A!Finished(c) BY <1>4, <2>1
    <2>3. Decision(c, 503, FALSE)
        <3>1. con \in Answers /\ con.mode \in {"DIRECT", "gateway"} /\ con.file_finished = FALSE
            BY <1>2, <2>1 DEF Answers
        <3> DEFINE d == [con EXCEPT !.http_status = 503]
        <3>3. c = [d EXCEPT !.mode = "DIRECT"] BY <2>1 DEF A!Status
        <3>4. d \in Answers BY ONLY <3>1 DEF Answers
        <3> HIDE DEF d
        <3>2. c \in Answers BY ONLY <3>3, <3>4 DEF Answers
        <3> QED BY ONLY <3>1, <3>2, <2>1 DEF Answers, A!Status, Decision
    <2>4. 503 \in {200, 301, 403, 404, 500, 503} OBVIOUS
    <2> QED BY ZenonT(60), <1>1, <1>2, <2>2, <2>3, <2>4, Decides
<1> QED BY <1>3, <1>4 DEF A!Comeback

LEMMA FramingHeader == ASSUME A!ResponseAssumption, FramingInv, A!Header PROVE FramingInv'
<1>1. step = "subrequest" /\ ~con.file_started /\ UNCHANGED <<step, req, output>> BY DEF A!Header
<1>2. /\ con \in Answers /\ con.mode = "gateway" /\ Undecided(con, output)
      /\ con.in_error_handler => con.saved \in {403, 404}
    BY <1>1 DEF FramingInv
<1>3. PICK s \in {0, 204, 404}, length \in -1..MaxContent, wish \in {"none", "close", "keep-alive"}, early \in BOOLEAN :
          con' = [A!Status(con, s) EXCEPT !.file_started = TRUE, !.content_length = length, !.wish = wish,
                                          !.chunked = early /\ A!Chunks(length)]
    BY DEF A!Header
<1>4. PICK b \in BOOLEAN : b = (early /\ A!Chunks(length)) OBVIOUS
<1>5. /\ con' \in Answers /\ con'.mode = "gateway" /\ con'.file_started /\ con'.chunked = b
      /\ con'.content_length = length /\ con'.http_status = s /\ con'.file_finished = con.file_finished
      /\ con'.in_error_handler = con.in_error_handler /\ con'.saved = con.saved /\ con'.late = con.late
    <2> DEFINE d == [con EXCEPT !.http_status = s]
               e == [d EXCEPT !.file_started = TRUE, !.content_length = length]
    <2>1. con' = [e EXCEPT !.wish = wish, !.chunked = b]
        BY <1>3, <1>4 DEF A!Status
    <2>2. s \in Nat /\ length \in Int /\ b \in BOOLEAN /\ wish \in {"none", "close", "keep-alive"}
        BY DEF A!ResponseAssumption
    <2>3. d \in Answers /\ d.mode = "gateway" /\ d.http_status = s /\ d.file_finished = con.file_finished
          /\ d.in_error_handler = con.in_error_handler /\ d.saved = con.saved /\ d.late = con.late
        <3>1. con \in Answers /\ con.mode = "gateway" /\ s \in Nat BY <1>2, <2>2
        <3>2. d \in Answers BY ONLY <3>1 DEF Answers
        <3> QED BY ONLY <3>1, <3>2 DEF Answers
    <2> HIDE DEF d
    <2>4. e \in Answers BY ONLY ZenonT(60), <2>2, <2>3 DEF Answers
    <2>5. /\ e.mode = d.mode /\ e.file_started
          /\ e.content_length = length /\ e.http_status = d.http_status
          /\ e.file_finished = d.file_finished
          /\ e.in_error_handler = d.in_error_handler /\ e.saved = d.saved /\ e.late = d.late
        BY ONLY <2>3, <2>4 DEF Answers
    <2> HIDE DEF e
    <2>6. con' \in Answers BY ONLY <2>1, <2>2, <2>4 DEF Answers
    <2>7. /\ con'.mode = e.mode /\ con'.file_started = e.file_started /\ con'.chunked = b
          /\ con'.content_length = e.content_length /\ con'.http_status = e.http_status
          /\ con'.file_finished = e.file_finished
          /\ con'.in_error_handler = e.in_error_handler /\ con'.saved = e.saved /\ con'.late = e.late
        BY ONLY <2>1, <2>4 DEF Answers
    <2> QED BY <2>3, <2>5, <2>6, <2>7
<1>6. output' = <<>> /\ ~con'.late /\ con'.file_finished = FALSE BY <1>1, <1>2, <1>5 DEF Undecided, Answers
<1>7. Framed(con'.chunked, FALSE, <<>>)
    <2>1. Framed(b, FALSE, <<>>) BY FramedEmpty
    <2> QED BY <1>5, <2>1
<1>8. b => A!Chunks(length) BY <1>4
<1>9. Coming(con, output)' BY <1>1, <1>5, <1>6, <1>7, <1>8 DEF Coming, A!Chunks
<1>10. ~Hooked' /\ step' = "subrequest" BY <1>1, Quiet DEF Hooked
<1> QED BY <1>2, <1>5, <1>9, <1>10 DEF FramingInv

\* A backend's answer while it comes.
LEMMA AtWork ==
    ASSUME FramingInv, A!Running, con.file_started, ~con.file_finished
    PROVE  /\ con \in Answers /\ con.mode = "gateway"
           /\ con.in_error_handler => con.saved \in {403, 404}
           /\ step = "subrequest" => Coming(con, output) /\ con.http_status \in {0, 204, 404}
           /\ step = "write" =>
                 /\ HeaderSent(output)
                 /\ ~head.close => Believed(output) /\ req.method # "HEAD" /\ ~A!NoContent(head.status)
           /\ step \in {"subrequest", "write"} /\ output \in Seq(Items)
<1>1. /\ con \in Answers /\ con.mode = "gateway" /\ step \in {"subrequest", "write"}
      /\ con.in_error_handler => con.saved \in {403, 404}
      /\ step = "subrequest" => Coming(con, output) /\ con.http_status \in {0, 204, 404}
      /\ step = "write" => HeaderSent(output) /\ (~head.close => Believed(output))
    BY DEF FramingInv, A!Running
<1>2. Believed(output) => req.method # "HEAD" /\ ~A!NoContent(head.status) BY DEF Believed
<1>3. output \in Seq(Items)
    <2>1. CASE step = "subrequest" BY <1>1, <2>1, FramedItems DEF Coming
    <2>2. CASE step = "write" BY <1>1, <2>2 DEF HeaderSent, Headed
    <2> QED BY <1>1, <2>1, <2>2
<1> QED BY <1>1, <1>2, <1>3

\* The header stays in front of what a backend adds.
LEMMA HeaderKept ==
    ASSUME HeaderSent(output), NEW r \in Seq(Items), output' = output \o r,
           con'.mode = "gateway", con'.keep_alive = con.keep_alive, UNCHANGED <<req, head>>
    PROVE  HeaderSent(output)' /\ Tail(output') = Tail(output) \o r
<1>1. Headed(output) BY DEF HeaderSent
<1>2. Headed(output') /\ Tail(output') = Tail(output) \o r BY <1>1, Behind
<1> QED BY <1>2 DEF HeaderSent

LEMMA FramingData == ASSUME A!ResponseAssumption, FramingInv, A!Data PROVE FramingInv'
<1> DEFINE many == A!Chunks(con.content_length)
<1>0. A!Running /\ con.file_started /\ ~con.file_finished /\ UNCHANGED <<step, req, head>> BY DEF A!Data
<1>1. /\ con \in Answers /\ con.mode = "gateway"
      /\ con.in_error_handler => con.saved \in {403, 404}
      /\ step = "subrequest" => Coming(con, output) /\ con.http_status \in {0, 204, 404}
      /\ step = "write" =>
            /\ HeaderSent(output)
            /\ ~head.close => Believed(output) /\ req.method # "HEAD" /\ ~A!NoContent(head.status)
      /\ step \in {"subrequest", "write"} /\ output \in Seq(Items)
    BY <1>0, AtWork
<1>2. PICK n \in 1..MaxContent - A!Sent : output' = output \o A!http_chunk_append_mem(many, n)
    BY DEF A!Data
<1>3. n \in Nat \ {0}
    <2>1. A!Sent \in Nat BY <1>1, LengthNat DEF A!Sent
    <2> QED BY <2>1 DEF A!ResponseAssumption
<1>4. con' = [con EXCEPT !.chunked = many] BY DEF A!Data
<1>5. PICK b \in BOOLEAN : b = many BY DEF A!Chunks
<1>6. /\ con' \in Answers /\ con'.chunked = b /\ con'.mode = con.mode /\ con'.late = con.late
      /\ con'.in_error_handler = con.in_error_handler /\ con'.saved = con.saved
      /\ con'.content_length = con.content_length /\ con'.http_status = con.http_status
      /\ con'.file_finished = con.file_finished /\ con'.file_started = con.file_started
      /\ con'.keep_alive = con.keep_alive /\ con'.over = con.over
    <2>1. con' = [con EXCEPT !.chunked = b] /\ con \in Answers /\ b \in BOOLEAN BY <1>1, <1>4, <1>5
    <2>2. con' \in Answers BY ONLY <2>1 DEF Answers
    <2> QED BY ONLY <2>1, <2>2 DEF Answers
<1> DEFINE r == A!http_chunk_append_mem(b, n)
<1>7. output' = output \o r BY <1>2, <1>5
<1>8. r \in Seq(Items) BY <1>3, AppendItems
<1>9. b => A!Chunks(con.content_length)' BY <1>0, <1>5, <1>6 DEF A!Chunks
<1>20. b <=> A!Chunks(con.content_length) BY <1>5
<1> HIDE DEF many
<1>10. ASSUME NEW q, Framed(b, FALSE, q) PROVE Framed(b, FALSE, q \o r)
    BY <1>3, <1>10, FramedContent
<1> HIDE DEF r
<1>11. ~Hooked' BY <1>0, <1>1, Quiet DEF Hooked
<1>12. CASE step = "subrequest"
    <2>0. Coming(con, output) /\ con.http_status \in {0, 204, 404} BY <1>1, <1>12
    <2>1. Framed(b, FALSE, output)
        <3>0. con.file_finished = FALSE BY <1>0, <1>1 DEF Answers
        <3>1. CASE con.chunked
            <4>1. b = TRUE /\ con.chunked = TRUE BY <1>1, <1>20, <2>0, <3>1 DEF Coming, Answers
            <4> QED BY <2>0, <3>0, <4>1 DEF Coming
        <3>2. CASE ~con.chunked
            <4>1. CASE b
                <5>1. output = <<>> BY <1>20, <2>0, <3>0, <3>2, <4>1 DEF Coming
                <5> QED BY <5>1, FramedEmpty
            <4>2. CASE ~b
                <5>1. b = con.chunked BY <1>1, <3>2, <4>2 DEF Answers
                <5> QED BY <2>0, <3>0, <5>1 DEF Coming
            <4> QED BY <4>1, <4>2
        <3> QED BY <3>1, <3>2
    <2>2. Framed(b, FALSE, output') BY <1>7, <1>10, <2>1
    <2>3. con'.file_finished = FALSE BY <1>0, <1>1, <1>6 DEF Answers
    <2>4. con'.chunked => A!Chunks(con.content_length)' BY <1>6, <1>9
    <2>5. A!Chunks(con.content_length)' => con'.chunked BY <1>0, <1>6, <1>20 DEF A!Chunks
    <2>6. Framed(con'.chunked, con'.file_finished, output') BY <1>6, <2>2, <2>3
    <2>7. Coming(con, output)' BY <1>0, <1>1, <1>6, <2>0, <2>3, <2>4, <2>5, <2>6 DEF Coming, A!Chunks
    <2> QED BY <1>0, <1>1, <1>6, <1>11, <1>12, <2>0, <2>7 DEF FramingInv
<1>13. CASE step = "write"
    <2>1. HeaderSent(output)' /\ Tail(output') = Tail(output) \o r
        BY ZenonT(60), <1>0, <1>1, <1>6, <1>7, <1>8, <1>13, HeaderKept
    <2>2. ASSUME ~head.close PROVE Believed(output)'
        <3>1. Believed(output) /\ req.method # "HEAD" /\ ~A!NoContent(head.status) BY <1>1, <1>13, <2>2
        <3>4. ~con'.late /\ ~con'.file_finished BY <1>0, <1>6, <3>1 DEF Believed
        <3>2. CASE head.chunked
            <4>1. con.chunked /\ A!Chunks(con.content_length) /\ Framed(TRUE, con.file_finished, Tail(output))
                BY <3>1, <3>2 DEF Believed
            <4>2. b = TRUE /\ con.file_finished = FALSE BY <1>0, <1>1, <1>20, <4>1 DEF Answers
            <4>3. Framed(TRUE, FALSE, Tail(output) \o r) BY <1>10, <4>1, <4>2
            <4>4. con'.file_finished = FALSE /\ con'.chunked BY <1>6, <4>2
            <4>5. A!Chunks(con.content_length)' BY <1>9, <4>2
            <4> QED BY ZenonT(60), <1>0, <2>1, <3>1, <3>2, <3>4, <4>3, <4>4, <4>5 DEF Believed, A!NoContent
        <3>3. CASE ~head.chunked
            <4>1. Plain(Tail(output)) /\ ~con.chunked /\ con.content_length # -1 /\ head.length = con.content_length
                BY <1>0, <3>1, <3>3 DEF Believed
            <4>2. b = FALSE BY <1>20, <4>1 DEF A!Chunks
            <4>3. Plain(Tail(output) \o r) BY <1>10, <4>1, <4>2 DEF Framed
            <4>4. ~con'.chunked /\ con'.content_length # -1 /\ head'.length = con'.content_length
                BY <1>0, <1>6, <4>1, <4>2
            <4> QED BY ZenonT(60), <1>0, <2>1, <3>1, <3>3, <3>4, <4>3, <4>4 DEF Believed, A!NoContent, A!Length
        <3> QED BY <3>2, <3>3
    <2> QED BY <1>0, <1>1, <1>6, <1>11, <1>13, <2>1, <2>2 DEF FramingInv
<1> QED BY <1>1, <1>12, <1>13

LEMMA FramingEnd == ASSUME A!ResponseAssumption, FramingInv, A!End PROVE FramingInv'
<1>0. A!Running /\ con.file_started /\ ~con.file_finished /\ UNCHANGED <<step, req, head>> BY DEF A!End
<1>1. /\ con \in Answers /\ con.mode = "gateway"
      /\ con.in_error_handler => con.saved \in {403, 404}
      /\ step = "subrequest" => Coming(con, output) /\ con.http_status \in {0, 204, 404}
      /\ step = "write" =>
            /\ HeaderSent(output)
            /\ ~head.close => Believed(output) /\ req.method # "HEAD" /\ ~A!NoContent(head.status)
      /\ step \in {"subrequest", "write"} /\ output \in Seq(Items)
    BY <1>0, AtWork
<1> DEFINE b == con.chunked
           r == A!http_chunk_append_mem(b, 0)
<1>2. output' = output \o r BY DEF A!End
<1>3. b \in BOOLEAN BY <1>1 DEF Answers
<1>4. /\ con' \in Answers /\ con'.chunked = b /\ con'.mode = con.mode /\ con'.late = con.late
      /\ con'.in_error_handler = con.in_error_handler /\ con'.saved = con.saved
      /\ con'.content_length = con.content_length /\ con'.http_status = con.http_status
      /\ con'.file_finished = TRUE /\ con'.file_started = con.file_started
      /\ con'.keep_alive = con.keep_alive /\ con'.over = TRUE
    <2>1. con' = [con EXCEPT !.file_finished = TRUE, !.over = TRUE] /\ con \in Answers BY <1>1 DEF A!End
    <2>2. con' \in Answers BY ONLY <2>1 DEF Answers
    <2> QED BY ONLY <2>1, <2>2 DEF Answers
<1>5. r \in Seq(Items) BY <1>3, AppendItems
<1>6. ASSUME NEW q, Framed(b, FALSE, q)
      PROVE  Framed(b, TRUE, q \o r) /\ A!Length(q \o r) = A!Length(q)
    BY <1>3, <1>6, FramedEnd
<1> HIDE DEF r
<1>7. ~Hooked' BY <1>0, <1>1, Quiet DEF Hooked
<1>8. con.file_finished = FALSE BY <1>0, <1>1 DEF Answers
<1>12. CASE step = "subrequest"
    <2>0. Coming(con, output) /\ con.http_status \in {0, 204, 404} BY <1>1, <1>12
    <2>1. Framed(b, FALSE, output) BY <1>8, <2>0 DEF Coming
    <2>2. Framed(b, TRUE, output') /\ A!Length(output') = A!Length(output) BY <1>2, <1>6, <2>1
    <2>3. b => A!Chunks(con.content_length) BY <2>0 DEF Coming
    <2>4. Framed(con.chunked, con.file_finished, output)' BY <1>4, <2>2
    <2>5. Coming(con, output)' BY <1>0, <1>1, <1>4, <2>0, <2>3, <2>4 DEF Coming, A!Chunks
    <2> QED BY <1>0, <1>1, <1>4, <1>7, <1>12, <2>0, <2>5 DEF FramingInv
<1>13. CASE step = "write"
    <2>1. HeaderSent(output)' /\ Tail(output') = Tail(output) \o r
        BY ZenonT(60), <1>0, <1>1, <1>2, <1>4, <1>5, <1>13, HeaderKept
    <2>2. ASSUME ~head.close PROVE Believed(output)'
        <3>1. Believed(output) /\ req.method # "HEAD" /\ ~A!NoContent(head.status) BY <1>1, <1>13, <2>2
        <3>4. ~con'.late /\ con'.file_finished /\ con'.over BY <1>4, <3>1 DEF Believed
        <3>2. CASE head.chunked
            <4>1. con.chunked /\ A!Chunks(con.content_length) /\ Framed(TRUE, con.file_finished, Tail(output))
                BY <3>1, <3>2 DEF Believed
            <4>2. b = TRUE BY <1>3, <4>1
            <4>3. Framed(TRUE, TRUE, Tail(output) \o r) BY <1>6, <1>8, <4>1, <4>2
            <4> QED BY ZenonT(60), <1>0, <1>4, <2>1, <3>1, <3>2, <3>4, <4>1, <4>2, <4>3 DEF Believed, A!NoContent, A!Chunks
        <3>3. CASE ~head.chunked
            <4>1. Plain(Tail(output)) /\ ~con.chunked /\ con.content_length # -1 /\ head.length = con.content_length
                BY <1>0, <3>1, <3>3 DEF Believed
            <4>2. b = FALSE BY <1>3, <4>1
            <4>3. Framed(b, FALSE, Tail(output)) BY <4>1, <4>2 DEF Framed
            <4>4. Plain(Tail(output) \o r) BY <1>6, <4>2, <4>3 DEF Framed
            <4>5. ~con'.chunked /\ con'.content_length # -1 /\ head'.length = con'.content_length
                BY <1>0, <1>4, <4>1
            <4> QED BY ZenonT(60), <1>0, <2>1, <3>1, <3>3, <3>4, <4>4, <4>5 DEF Believed, A!NoContent, A!Length
        <3> QED BY <3>2, <3>3
    <2> QED BY <1>0, <1>1, <1>4, <1>7, <1>13, <2>1, <2>2 DEF FramingInv
<1> QED BY <1>1, <1>12, <1>13

\* An answer that was finished without its content.
LEMMA WhenSilenced ==
    ASSUME FramingInv, A!Silenced
    PROVE  /\ step = "write" /\ con \in Answers /\ con.mode = "gateway" /\ con.file_finished
           /\ con.in_error_handler => con.saved \in {403, 404}
           /\ HeaderSent(output) /\ output \in Seq(Items)
           /\ ~head.close => req.method = "HEAD" \/ A!NoContent(head.status)
<1>1. /\ step = "write" /\ con \in Answers /\ con.mode = "gateway" /\ con.file_finished /\ ~con.over
      /\ con.in_error_handler => con.saved \in {403, 404}
      /\ HeaderSent(output) /\ (~head.close => Believed(output))
    BY DEF FramingInv, A!Silenced, A!Running
<1>2. output \in Seq(Items) BY <1>1 DEF HeaderSent, Headed
<1> QED BY <1>1, <1>2 DEF Believed

LEMMA FramingLate == ASSUME A!ResponseAssumption, FramingInv, A!Late PROVE FramingInv'
<1>0. A!Silenced /\ UNCHANGED <<step, req, head>> BY DEF A!Late
<1>1. /\ step = "write" /\ con \in Answers /\ con.mode = "gateway" /\ con.file_finished
      /\ con.in_error_handler => con.saved \in {403, 404}
      /\ HeaderSent(output) /\ output \in Seq(Items)
      /\ ~head.close => req.method = "HEAD" \/ A!NoContent(head.status)
    BY <1>0, WhenSilenced
<1>2. PICK many \in {con.chunked, A!Chunks(con.content_length)} :
          /\ output' = output \o A!http_chunk_append_mem(many, 1)
          /\ con' = [con EXCEPT !.chunked = many, !.late = TRUE]
    BY DEF A!Late
<1>3. many \in BOOLEAN BY <1>1 DEF Answers, A!Chunks
<1>4. /\ con' \in Answers /\ con'.late /\ con'.mode = con.mode /\ con'.keep_alive = con.keep_alive
      /\ con'.in_error_handler = con.in_error_handler /\ con'.saved = con.saved /\ con'.file_finished
    <2>1. con' \in Answers BY ONLY <1>1, <1>2, <1>3 DEF Answers
    <2> QED BY ONLY <1>1, <1>2, <1>3, <2>1 DEF Answers
<1> DEFINE r == A!http_chunk_append_mem(many, 1)
<1>5. output' = output \o r BY <1>2
<1>6. r \in Seq(Items) BY <1>3, AppendItems
<1> HIDE DEF r
<1>7. HeaderSent(output)' BY ZenonT(60), <1>0, <1>1, <1>4, <1>5, <1>6, HeaderKept
<1>8. ~head'.close => Believed(output)' BY <1>0, <1>1, <1>4 DEF Believed, A!NoContent
<1>9. ~Hooked' BY <1>0, <1>1, Quiet DEF Hooked
<1> QED BY <1>0, <1>1, <1>4, <1>7, <1>8, <1>9 DEF FramingInv

LEMMA FramingLateEnd == ASSUME A!ResponseAssumption, FramingInv, A!LateEnd PROVE FramingInv'
<1>0. A!Silenced /\ con' = [con EXCEPT !.over = TRUE] /\ UNCHANGED <<step, req, head>> BY DEF A!LateEnd
<1>1. /\ step = "write" /\ con \in Answers /\ con.mode = "gateway" /\ con.file_finished
      /\ con.in_error_handler => con.saved \in {403, 404}
      /\ HeaderSent(output) /\ output \in Seq(Items)
      /\ ~head.close => Believed(output) /\ (req.method = "HEAD" \/ A!NoContent(head.status))
    BY <1>0, WhenSilenced DEF FramingInv
<1>4. /\ con' \in Answers /\ con'.late = con.late /\ con'.mode = con.mode /\ con'.keep_alive = con.keep_alive
      /\ con'.in_error_handler = con.in_error_handler /\ con'.saved = con.saved /\ con'.file_finished
      /\ con'.chunked = con.chunked
    <2>1. con' \in Answers BY ONLY <1>0, <1>1 DEF Answers
    <2> QED BY ONLY <1>0, <1>1, <2>1 DEF Answers
<1>9. ~Hooked' BY <1>0, <1>1, Quiet DEF Hooked
<1>10. CASE UNCHANGED output
    <2>1. HeaderSent(output)' BY <1>0, <1>1, <1>4, <1>10 DEF HeaderSent, Headed
    <2>2. ~head'.close => Believed(output)' BY <1>0, <1>1, <1>4, <1>10 DEF Believed, A!NoContent
    <2> QED BY <1>0, <1>1, <1>4, <1>9, <2>1, <2>2 DEF FramingInv
<1>11. CASE ~UNCHANGED output
    <2> DEFINE r == A!http_chunk_append_mem(con.chunked, 0)
    <2>1. output' = output \o r BY <1>11 DEF A!LateEnd
    <2>2. r \in Seq(Items) BY <1>1, AppendItems DEF Answers
    <2> HIDE DEF r
    <2>3. HeaderSent(output)' BY ZenonT(60), <1>0, <1>1, <1>4, <2>1, <2>2, HeaderKept
    <2>4. ~head'.close => Believed(output)'
        <3> SUFFICES ASSUME ~head.close PROVE Believed(output)' BY <1>0
        <3>1. Believed(output) /\ (req.method = "HEAD" \/ A!NoContent(head.status)) BY <1>1
        <3>2. con.chunked
            <4> SUFFICES ASSUME ~con.chunked PROVE FALSE OBVIOUS
            <4>1. A!http_chunk_append_mem(con.chunked, 0) = <<>>
                BY DEF A!http_chunk_append_mem, A!append_mem, A!Content
            <4>2. output \o <<>> = output BY <1>1
            <4> QED BY <1>11, <2>1, <4>1, <4>2 DEF r
        <3>3. con.late BY <3>1, <3>2 DEF Believed
        <3> QED BY <1>0, <1>1, <1>4, <3>3 DEF Believed, A!NoContent
    <2> QED BY <1>0, <1>1, <1>4, <1>9, <2>3, <2>4 DEF FramingInv
<1> QED BY <1>10, <1>11

LEMMA FramingBroken == ASSUME A!ResponseAssumption, FramingInv, A!Broken PROVE FramingInv'
<1>1. step' = "done" /\ aborted' /\ UNCHANGED con BY DEF A!Broken
<1>2. ~Hooked' BY <1>1, Quiet DEF Hooked
<1> QED BY <1>1, <1>2 DEF FramingInv

LEMMA FramingSubrequest == ASSUME A!ResponseAssumption, FramingInv, A!Subrequest PROVE FramingInv'
<1>1. step = "subrequest" /\ con.file_started /\ (A!Length(output) > 0 \/ con.file_finished)
      /\ A!Finished(con) /\ UNCHANGED <<req, output>>
    BY DEF A!Subrequest, A!Sent
<1>2. /\ con \in Answers /\ con.mode = "gateway" /\ Coming(con, output) /\ con.http_status \in {0, 204, 404}
      /\ con.in_error_handler => con.saved \in {403, 404}
    BY <1>1 DEF FramingInv
<1>3. PICK s \in {200, 204, 404} : s = IF con.http_status = 0 THEN 200 ELSE con.http_status BY <1>2
<1>4. step' = "respstart" /\ con' = [con EXCEPT !.http_status = s]
    <2>1. ~A!Rejected(con) BY <1>2 DEF A!Rejected
    <2> QED BY <1>1, <1>3, <2>1 DEF A!Finished
<1>5. /\ con' \in Answers /\ con'.http_status = s /\ con'.mode = con.mode /\ con'.late = con.late
      /\ con'.file_finished = con.file_finished /\ con'.file_started = con.file_started /\ con'.over = con.over
      /\ con'.chunked = con.chunked /\ con'.content_length = con.content_length
      /\ con'.in_error_handler = con.in_error_handler /\ con'.saved = con.saved
    <2>1. con' = [con EXCEPT !.http_status = s] /\ con \in Answers /\ s \in Nat BY <1>2, <1>4
    <2>2. con' \in Answers BY ONLY <2>1 DEF Answers
    <2> QED BY ONLY <2>1, <2>2 DEF Answers
<1>6. Framed(con.chunked, con.file_finished, output)' BY <1>1, <1>2, <1>5 DEF Coming
<1>7. A!Length(output)' = A!Length(output) BY <1>1 DEF A!Length
<1>8. Coming(con, output)' BY <1>1, <1>2, <1>5, <1>6, <1>7 DEF Coming, A!Chunks
<1>9. ~Hooked' BY <1>4, Quiet DEF Hooked
<1> QED BY <1>1, <1>2, <1>4, <1>5, <1>7, <1>8, <1>9 DEF FramingInv

\* Nothing is believed of an answer but what is in these four.
LEMMA Unchanging ==
    ASSUME UNCHANGED <<req, con, output, head>>
    PROVE  /\ HeaderSent(output) => HeaderSent(output)'
           /\ Believed(output) => Believed(output)'
           /\ Own(con, output) => Own(con, output)'
           /\ Coming(con, output) => Coming(con, output)'
           /\ Undecided(con, output) => Undecided(con, output)'
           /\ A!Length(output)' = A!Length(output)
<1>1. A!Length(output)' = A!Length(output) /\ A!Length(Tail(output))' = A!Length(Tail(output)) BY DEF A!Length
<1>2. A!Chunks(con.content_length)' = A!Chunks(con.content_length) BY DEF A!Chunks
<1>3. A!NoContent(head.status)' = A!NoContent(head.status) BY DEF A!NoContent
<1>4. Framed(TRUE, con.file_finished, Tail(output))' = Framed(TRUE, con.file_finished, Tail(output)) OBVIOUS
<1>5. Framed(con.chunked, con.file_finished, output)' = Framed(con.chunked, con.file_finished, output) OBVIOUS
<1>6. Plain(Tail(output))' = Plain(Tail(output)) /\ Plain(output)' = Plain(output) OBVIOUS
<1>7. Headed(output)' = Headed(output) OBVIOUS
<1>8. HeaderSent(output) => HeaderSent(output)' BY <1>7 DEF HeaderSent
<1>9. Believed(output) => Believed(output)' BY <1>1, <1>2, <1>3, <1>4, <1>6 DEF Believed
<1>10. Own(con, output) => Own(con, output)' BY <1>6 DEF Own
<1>11. Coming(con, output) => Coming(con, output)' BY <1>1, <1>2, <1>5 DEF Coming
<1>12. Undecided(con, output) => Undecided(con, output)' BY DEF Undecided
<1> QED BY <1>1, <1>8, <1>9, <1>10, <1>11, <1>12

LEMMA FramingWrite == ASSUME A!ResponseAssumption, FramingInv, A!Write PROVE FramingInv'
<1>1. /\ step = "write" /\ step' = (IF con.file_finished THEN "done" ELSE step)
      /\ UNCHANGED <<req, con, output, head>>
    BY DEF A!Write
<1>2. con \in Answers /\ (con.in_error_handler => con.saved \in {403, 404}) /\ HeaderSent(output)
      /\ (~head.close => Believed(output))
    BY <1>1 DEF FramingInv
<1>3. HeaderSent(output)' BY <1>1, <1>2, Unchanging
<1>4. Believed(output) => Believed(output)' BY <1>1, Unchanging
<1>5. step' \in {"write", "done"} /\ (step' = "done" => con'.file_finished) BY <1>1
<1>6. ~Hooked' BY <1>5, Quiet DEF Hooked
<1> QED BY <1>1, <1>2, <1>3, <1>4, <1>5, <1>6 DEF FramingInv

LEMMA FramingStutter == ASSUME FramingInv, UNCHANGED A!vars PROVE FramingInv'
<1>1. UNCHANGED <<step, req, con, output, head, aborted>> BY DEF A!vars
<1>2. Hooked' = Hooked BY <1>1 DEF Hooked, A!Range
<1> QED BY <1>1, <1>2, Unchanging DEF FramingInv

LEMMA FramingStep == ASSUME A!ResponseAssumption, FramingInv, [A!Next]_A!vars PROVE FramingInv'
<1>1. CASE \E r \in Requests : A!Arrive(r) BY <1>1, FramingArrive
<1>2. CASE A!Prepare BY <1>2, FramingPrepare
<1>3. CASE A!Hook BY <1>3, FramingHook
<1>4. CASE A!File BY <1>4, FramingFile
<1>5. CASE A!Start BY <1>5, FramingStart
<1>6. CASE A!Comeback BY <1>6, FramingComeback
<1>7. CASE A!Header BY <1>7, FramingHeader
<1>8. CASE A!Data BY <1>8, FramingData
<1>9. CASE A!End BY <1>9, FramingEnd
<1>10. CASE A!Late BY <1>10, FramingLate
<1>17. CASE A!LateEnd BY <1>17, FramingLateEnd
<1>11. CASE A!Broken BY <1>11, FramingBroken
<1>12. CASE A!Subrequest BY <1>12, FramingSubrequest
<1>13. CASE A!ResponseStart
    <2>1. step = "respstart" BY <1>13 DEF A!ResponseStart
    <2>2. con.mode \in {"DIRECT", "gateway"} BY DEF FramingInv, Answers
    <2> QED BY <1>13, <2>2, BeginGateway, BeginOwn
<1>14. CASE A!Write BY <1>14, FramingWrite
<1>15. CASE A!Reset BY <1>15, FramingReset
<1>16. CASE UNCHANGED A!vars BY <1>16, FramingStutter
<1> QED
    BY <1>1, <1>2, <1>3, <1>4, <1>5, <1>6, <1>7, <1>8, <1>9, <1>10, <1>11, <1>12, <1>13, <1>14, <1>15, <1>16, <1>17
    DEF A!Next

\* What the client has been told is of this request.
HeadInv == head.chunked => step \in {"write", "done"} /\ req.version = "1.1"
LEMMA HeadStep == ASSUME A!ResponseAssumption, FramingInv, FramingInv', HeadInv, [A!Next]_A!vars PROVE HeadInv'
<1>1. CASE step \notin {"write", "done"} /\ UNCHANGED head BY <1>1 DEF HeadInv
<1>2. CASE step' \in {"write", "done"} /\ UNCHANGED <<req, head>> BY <1>2 DEF HeadInv
<1>3. ASSUME NEW r \in Requests, A!Arrive(r) PROVE HeadInv'
    <2>1. step = "idle" /\ UNCHANGED head BY Zenon, <1>3 DEF A!Arrive
    <2> QED BY <1>1, <2>1
<1>4. CASE A!Prepare \/ A!File \/ A!Start \/ A!Comeback \/ A!Header \/ A!Subrequest
    BY <1>1, <1>4 DEF A!Prepare, A!File, A!Start, A!Comeback, A!Header, A!Subrequest
<1>5. CASE A!Hook
    <2>1. step \notin {"write", "done"} /\ UNCHANGED head BY <1>5, HookPlaces DEF A!Hook, A!Places
    <2> QED BY <1>1, <2>1
<1>6. CASE A!Data \/ A!End \/ A!Late \/ A!LateEnd
    <2>1. step \in {"subrequest", "write"} /\ UNCHANGED <<step, req, head>>
        BY <1>6 DEF A!Data, A!End, A!Late, A!LateEnd, A!Silenced, A!Running
    <2> QED BY <1>1, <1>2, <2>1
<1>7. CASE A!Broken BY <1>2, <1>7 DEF A!Broken
<1>8. CASE A!ResponseStart
    <2>1. step' = "write" BY <1>8 DEF A!ResponseStart
    <2>2. HeaderSent(output)' BY <2>1 DEF FramingInv
    <2> QED BY <2>1, <2>2 DEF HeadInv, HeaderSent
<1>9. CASE A!Write BY <1>2, <1>9 DEF A!Write
<1>10. CASE A!Reset BY <1>10 DEF A!Reset, A!NoHead, HeadInv
<1>11. CASE UNCHANGED A!vars BY <1>11 DEF A!vars, HeadInv
<1> QED BY <1>3, <1>4, <1>5, <1>6, <1>7, <1>8, <1>9, <1>10, <1>11 DEF A!Next

\* What the invariant says of an answer that is complete.
LEMMA FramingRight == ASSUME FramingInv, HeadInv PROVE A!ResponseRight
<1>1. ASSUME A!Complete
      PROVE  /\ con \in Answers /\ con.file_finished /\ HeaderSent(output)
             /\ (~head.close => Believed(output))
             /\ (con.in_error_handler => con.saved \in {403, 404})
             /\ Tail(output) \in Seq(Items) /\ A!Length(Tail(output)) = A!Length(output)
    <2>1. /\ con \in Answers /\ con.file_finished /\ HeaderSent(output)
          /\ (~head.close => Believed(output))
          /\ (con.in_error_handler => con.saved \in {403, 404})
        BY <1>1 DEF A!Complete, FramingInv
    <2>2. Headed(output) BY <2>1 DEF HeaderSent
    <2> QED BY <2>1, <2>2, BehindHead
<1>2. A!AnswerFramed
    <2> SUFFICES ASSUME A!Complete, ~head.close
                 PROVE  /\ output[1].kind = "head" /\ (con.late => A!Bodiless)
                        /\ IF A!Bodiless THEN A!Rest # <<>> => con.late
                           ELSE IF head.chunked
                           THEN /\ Len(A!Rest) % 3 = 1 /\ A!Last(A!Rest).kind = "last"
                                /\ \A k \in 1..Len(A!Rest) - 1 : k % 3 = 1 => A!IsChunk(k)
                           ELSE /\ \A k \in 1..Len(A!Rest) : A!Rest[k].kind = "data"
                                /\ head.length = IF con.content_length # -1 THEN con.content_length
                                                 ELSE A!Length(A!Rest)
        BY DEF A!AnswerFramed
    <2>1. Believed(output) /\ Headed(output) /\ con.file_finished BY <1>1 DEF HeaderSent
    <2>7. A!Bodiless = (req.method = "HEAD" \/ A!NoContent(head.status)) BY DEF A!Bodiless
    <2>8. con.late => A!Bodiless BY <2>1, <2>7 DEF Believed
    <2> DEFINE q == Tail(output)
    <2>2. A!Rest = q BY DEF A!Rest
    <2>3. output[1].kind = "head" BY <2>1 DEF Headed
    <2>4. CASE A!Bodiless BY <2>1, <2>2, <2>3, <2>4, <2>7, <2>8 DEF Believed
    <2>5. CASE ~A!Bodiless /\ head.chunked
        <3>1. con.file_finished = TRUE BY <1>1, <2>1 DEF Answers
        <3>2. Closed(q) BY <2>1, <2>5, <2>7, <3>1 DEF Believed, Framed
        <3> HIDE DEF q
        <3>3. A!Last(q) = q[Len(q)] BY DEF A!Last
        <3>4. \A k \in 1..Len(q) - 1 : k % 3 = 1 => A!IsChunk(k)
            <4>1. \A k : Chunk(q, k) => A!IsChunk(k) BY <2>2 DEF Chunk, A!IsChunk
            <4> QED BY <3>2, <4>1 DEF Closed
        <3> QED BY <2>2, <2>3, <2>5, <2>8, <3>2, <3>3, <3>4 DEF Closed
    <2>6. CASE ~A!Bodiless /\ ~head.chunked
        <3>1. Plain(q) /\ head.length = IF con.content_length # -1 THEN con.content_length ELSE A!Length(q)
            BY <2>1, <2>6, <2>7 DEF Believed
        <3> QED BY <2>2, <2>3, <2>6, <2>8, <3>1 DEF Plain
    <2> QED BY <2>4, <2>5, <2>6
<1>3. A!KeepAliveTold BY <1>1 DEF A!KeepAliveTold, HeaderSent
<1>4. A!StatusKept BY <1>1 DEF A!StatusKept, A!Rest, A!Sent, HeaderSent
<1>5. A!PageAlone
    <2>1. A!Complete /\ con.mode = "DIRECT" /\ head.status \in 400..599 => Len(A!Rest) <= 1
        BY <1>1 DEF HeaderSent, A!Rest
    <2>2. head.chunked => req.version = "1.1"
        BY DEF HeadInv
    <2> QED BY <2>1, <2>2 DEF A!PageAlone
<1> QED BY <1>2, <1>3, <1>4, <1>5 DEF A!ResponseRight

(***************************************************************************)
(* http_response_prepare() to http_response_write_header(): for every      *)
(* request, every way through the hooks and every backend, a client that   *)
(* keeps the connection can tell where its answer ends, it is told whether *)
(* the connection is kept, an error handler leaves the first status, and   *)
(* an error page comes alone.                                              *)
(***************************************************************************)
THEOREM ResponseRightHolds == ASSUME A!ResponseAssumption PROVE A!Spec => []A!ResponseRight
<1> DEFINE IInv == FramingInv /\ HeadInv
<1>1. A!Init => IInv
    <2>1. A!Init => HeadInv BY DEF A!Init, A!NoHead, HeadInv
    <2> QED BY <2>1, FramingInit
<1>2. IInv /\ [A!Next]_A!vars => IInv' BY FramingStep, HeadStep
<1>3. IInv => A!ResponseRight BY FramingRight
<1> QED BY <1>1, <1>2, <1>3, PTL DEF A!Spec
=============================================================================
