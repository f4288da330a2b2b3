---------------------------- MODULE MCConnection ----------------------------
(***************************************************************************)
(* A connection, the answer that is made for it, and the write backends    *)
(* that send it, for TLC.  The state machine has two sets of bounds: those *)
(* of the configuration and those of a client that sends requests ahead of *)
(* the answers.  A behaviour is one of one of the four, "part".            *)
(***************************************************************************)
EXTENDS Connection

VARIABLES part,
    step, req, con, answer, unsent, head, loops, aborted,                                   \* Response
    backend, queue, appended, sent, bytes_out, size, known, ret, stalled, altered           \* Chunks

response == <<step, req, con, answer, unsent, head, loops, aborted>>
chunks   == <<backend, queue, appended, sent, bytes_out, size, known, ret, stalled, altered>>

\* no gateway, a header of two units, and two units may wait in the socket
Pipeline == INSTANCE Connection WITH
    MaxReadIdle <- 0, MaxKeepAliveIdle <- 1, MaxWriteIdle <- 0, Linger <- 0,
    MaxKeepAliveRequests <- 1, MaxHeader <- 2, MaxBody <- 0, MaxChunks <- 0, MaxRx <- 2,
    Hosts <- 0, MaxFdWait <- 0, MaxJump <- 1, ErrorHandler <- FALSE, Throttled <- FALSE

\* two units of content, one way back to the beginning
R == INSTANCE Response WITH pc <- step, write_queue <- answer,
        Requests <- [method : {"GET", "HEAD", "OPTIONS", "unknown"}, version : {"1.0", "1.1"},
                     keep_alive : {TRUE}, star : {FALSE}]
                    \cup [method : {"OPTIONS"}, version : {"1.1"}, keep_alive : {TRUE}, star : {TRUE}],
        Hooks <- <<"raw", "clean", "docroot", "physical">>, error_handler <- TRUE, error_file <- FALSE,
        MaxContent <- 2, MaxLoops <- 1

\* files of three units, a window and a page of two, and every size of write
K == INSTANCE Chunks WITH
        Backends <- {"write", "writev", "linuxsendfile", "freebsdsendfile", "openssl"}, FileSize <- 3,
        Page <- 2, Window <- 2, MaxIov <- 2, MaxUnits <- 3, MaxChunks <- 3

ASSUME R!ResponseAssumption /\ K!ChunksAssumption

\* the variables of what does not run keep a value of no meaning, or their first
nil == 0
AllInit ==
    /\ part \in {"gateway", "pipeline", "response", "chunks"}
    /\ IF part = "pipeline" THEN Pipeline!Init ELSE Init
    /\ IF part = "response" THEN R!Init
       ELSE step = nil /\ req = nil /\ con = nil /\ answer = nil /\ unsent = nil /\ head = nil /\ loops = nil
            /\ aborted = nil
    /\ IF part = "chunks" THEN K!Init
       ELSE backend = nil /\ queue = nil /\ appended = nil /\ sent = nil /\ bytes_out = nil /\ size = nil /\ known = nil
            /\ ret = nil /\ stalled = nil /\ altered = nil

AllNext ==
    /\ UNCHANGED part
    /\ \/ part = "gateway" /\ Next /\ UNCHANGED <<response, chunks>>
       \/ part = "pipeline" /\ Pipeline!Next /\ UNCHANGED <<response, chunks>>
       \/ part = "response" /\ R!Next /\ UNCHANGED <<vars, chunks>>
       \/ part = "chunks" /\ K!Next /\ UNCHANGED <<vars, response>>

AllSpec == AllInit /\ [][AllNext]_<<vars, response, chunks, part>>

-----------------------------------------------------------------------------
(***************************************************************************)
(* Answers: a client that may use its connection again can tell where the  *)
(* answer ends, whoever made it.  Write backends: however the kernel       *)
(* divides the writes, it gets what was appended, once and in order.       *)
(***************************************************************************)
Agree ==
    /\ part = "response" => R!TypeOK /\ R!ResponseRight
    /\ part = "chunks" => K!TypeOK /\ K!ChunksRight
=============================================================================
