------------------------------ MODULE MCGateways ------------------------------
(***************************************************************************)
(* The gateways side by side: a behaviour is one of one instance of one of *)
(* them, "part"; the others stay as they begin.                            *)
(***************************************************************************)
EXTENDS Integers, Sequences, FiniteSets

VARIABLES part,
    hosts, hctx, faults, last_used, calm,       \* FastCGI, SCGI
    backs, last_used_ndx, req, passed,          \* Proxy
    con, ctx, proc, cgi_pid, fds, starts,       \* CGI
    body, wb, answer, stream, rb, client,       \* FcgiRecords
    pc, uri, orig_uri, path, pathinfo, ext, in_error_handler, env,      \* GatewayEnv
    input, header                               \* GatewayHeader

fastcgi == <<hosts, hctx, faults, last_used, calm>>
proxy   == <<backs, last_used_ndx, req, passed>>
scripts == <<con, ctx, proc, cgi_pid, fds, starts>>
records == <<body, wb, answer, stream, rb, client>>
told    == <<pc, uri, orig_uri, path, pathinfo, ext, in_error_handler, env>>
headers == <<input, header>>
vars    == <<part, fastcgi, proxy, scripts, records, told, headers>>

\* two requests meet in the one process of one host; one request goes from host to host
FShared == INSTANCE FastCGI WITH Requests <- {1, 2}, NHosts <- 1, Local <- {1}, NProcs <- 1,
                                 MaxReconnects <- 1, MaxFaults <- 1
FHosts  == INSTANCE FastCGI WITH Requests <- {1}, NHosts <- 2, Local <- {1}, NProcs <- 1,
                                 MaxReconnects <- 2, MaxFaults <- 2

\* the same, and two requests for two processes, until one is reconnected
SShared == INSTANCE SCGI WITH Requests <- {1, 2}, NHosts <- 1, Local <- {1}, NProcs <- 1,
                              MaxReconnects <- 1, MaxFaults <- 1, MaxLoad <- 2, SizeModulus <- 4
SHosts  == INSTANCE SCGI WITH Requests <- {1}, NHosts <- 2, Local <- {1}, NProcs <- 1,
                              MaxReconnects <- 1, MaxFaults <- 1, MaxLoad <- 2, SizeModulus <- 4
SSorted == INSTANCE SCGI WITH Requests <- {1, 2}, NHosts <- 1, Local <- {1}, NProcs <- 2,
                              MaxReconnects <- 0, MaxFaults <- 0, MaxLoad <- 3, SizeModulus <- 4

\* a connection that runs three scripts, whose numbers are used again
C == INSTANCE CGI WITH hctx <- ctx, Requests <- {1}, Pids <- {1, 2}, MaxStarts <- 3

\* one request has a body in one instance, none in the others: see ProxyBody.cfg
PTurns == INSTANCE Proxy WITH hosts <- backs, Requests <- {1, 2}, NHosts <- 2, Balance <- "rr", Weight <- <<>>,
                              Retry <- 3, ConnectTime <- 1, Posts <- {}
PFair  == INSTANCE Proxy WITH hosts <- backs, Requests <- {1, 2}, NHosts <- 2, Balance <- "fair", Weight <- <<>>,
                              Retry <- 3, ConnectTime <- 1, Posts <- {}
PHash  == INSTANCE Proxy WITH hosts <- backs, Requests <- {1}, NHosts <- 3, Balance <- "hash",
                              Weight <- <<[h \in 0..2 |-> IF h = 1 THEN 2 ELSE h]>>,
                              Retry <- 4, ConnectTime <- 1, Posts <- {}
\* a host is enabled again while the request still waits for the next one
PSlow  == INSTANCE Proxy WITH hosts <- backs, Requests <- {1}, NHosts <- 2, Balance <- "rr", Weight <- <<>>,
                              Retry <- 1, ConnectTime <- 2, Posts <- {}

\* records of three bytes: contents below, at and beyond it, in one chunk and in several
StdOut(content, padding) == [type |-> "STDOUT", content |-> content, padding |-> padding]
StdErr == [type |-> "STDERR", content |-> <<"a">>, padding |-> 0]
End    == [type |-> "END", content |-> <<"a">>, padding |-> 0]
R == INSTANCE FcgiRecords WITH con <- client, MaxLength <- 3, HeaderSize <- 2,
    Bodies <- [type : {"mem", "file"}, lens : {<<1>>, <<3>>, <<4>>, <<7>>, <<2, 3, 2>>, <<1, 6>>}],
    Answers <- {<<StdOut(<<"h">>, 1), StdOut(<<"eoh", "a">>, 0), StdErr, StdOut(<<>>, 0),
                  StdOut(<<"b">>, 1), End>>,
                <<StdOut(<<"x">>, 0), StdOut(<<"eoh", "a">>, 0), StdOut(<<"a">>, 0), End>>,
                <<StdOut(<<"h", "bad", "eoh">>, 0), StdOut(<<"a">>, 0), End>>, <<End>>}

\* scripts by their name and by the beginning of their path, in every mode; a header
\* that looks like a variable of the server's own
Ext(gateway, key, check_local) ==
    [gateway |-> gateway, key |-> key, check_local |-> check_local, authorizer |-> FALSE,
     fix_root_path_name |-> FALSE, docroot |-> FALSE, break_scriptfilename_for_php |-> FALSE,
     strip_request_uri |-> <<>>]
b == <<"/", "b">>
E == INSTANCE GatewayEnv WITH
    Paths <- {<<"/">>, b, <<"/", "a">>, <<"/", "a", "/">>, <<"/", "a", "/", "b">>,
              <<"/", "a", "b", "/", "a", "/", "b">>, <<"/", "b", "/", "a">>,
              <<"/", "b", "/", "b", "/", "a">>},
    Files <- {b, <<"/", "a", "/", "b">>, <<"/", "a">>}, ErrorHandler <- b, MaxLength <- 60,
    Headers <- <<[name |-> <<"CONTENT", "-", "TYPE">>, value |-> <<"t">>],
                 [name |-> <<"SERVER_NAME">>, value |-> <<"u">>],
                 [name |-> <<"X", "-", "1">>, value |-> <<"v">>]>>,
    Handlers <- {Ext("cgi", <<"b">>, TRUE),
                 [Ext("fcgi", <<"b">>, TRUE) EXCEPT !.break_scriptfilename_for_php = TRUE],
                 Ext("fcgi", <<"/", "a">>, FALSE),
                 [Ext("fcgi", <<"/">>, FALSE) EXCEPT !.fix_root_path_name = TRUE,
                                                    !.strip_request_uri = <<"/", "a">>],
                 [Ext("fcgi", <<"/", "a", "/">>, FALSE) EXCEPT !.authorizer = TRUE],
                 [Ext("scgi", <<"/", "a", "/">>, FALSE) EXCEPT !.docroot = TRUE]}

\* headers of up to three lines, in every order
HeaderLine(key, value) == [key |-> key, value |-> value]
Part(file, from, to) == [file |-> file, from |-> from, to |-> to]
H == INSTANCE GatewayHeader WITH Inputs <-
    [gateway : {"fcgi"}, authorizer : BOOLEAN, allow_xsendfile : {TRUE}, before : {0},
     lines : UNION {[1..n -> {HeaderLine("Status", 404), HeaderLine("Status", 200),
                              HeaderLine("Location", 0), HeaderLine("Content-Length", 7),
                              HeaderLine("Content-Length", -1), HeaderLine("", 0), HeaderLine("X", 0),
                              HeaderLine("X-Sendfile2", <<Part(10, 2, -1), Part(5, 0, 3)>>),
                              HeaderLine("X-Sendfile2", <<Part(10, 2, -1), Part(5, -1, 3)>>)}] : n \in 0..3}]
    \cup [gateway : {"scgi", "cgi", "proxy"}, authorizer : {FALSE}, allow_xsendfile : {FALSE}, before : {0},
          lines : {<<first>> \o rest :
              first \in {HeaderLine("HTTP/1", 404), HeaderLine("HTTP/1", 0), HeaderLine("X", 0)},
              rest \in UNION {[1..n -> {HeaderLine("Status", 404), HeaderLine("Location", 0),
                                        HeaderLine("Connection", "x"), HeaderLine("", 0)}] : n \in 0..2}}]

ASSUME /\ FShared!FastCGIAssumption /\ FHosts!FastCGIAssumption
       /\ SShared!SCGIAssumption /\ SHosts!SCGIAssumption /\ SSorted!SCGIAssumption
       /\ PTurns!ProxyAssumption /\ PFair!ProxyAssumption /\ PHash!ProxyAssumption
       /\ PSlow!ProxyAssumption
       /\ C!CGIAssumption /\ R!RecordsAssumption /\ E!EnvAssumption

Init ==
    /\ \/ part \in {"fcgi hosts", "cgi", "turns", "fair", "hash", "slow", "records", "env", "header"} /\ FHosts!Init /\ calm = TRUE
       \/ part = "fcgi shared" /\ FShared!Init /\ calm = TRUE
       \/ part = "scgi shared" /\ SShared!Init /\ last_used = 0
       \/ part = "scgi hosts"  /\ SHosts!Init /\ last_used = 0
       \/ part = "scgi sorted" /\ SSorted!Init /\ last_used = 0
    /\ \/ part = "turns" /\ PTurns!Init
       \/ part = "fair" /\ PFair!Init
       \/ part = "slow" /\ PSlow!Init
       \/ part \notin {"turns", "fair", "slow"} /\ PHash!Init
    /\ C!Init /\ R!Init /\ E!Init /\ H!Init

OnlyFastCGI == UNCHANGED <<calm, proxy, scripts, records, told, headers>>
OnlySCGI    == UNCHANGED <<last_used, proxy, scripts, records, told, headers>>
OnlyCGI     == UNCHANGED <<fastcgi, proxy, records, told, headers>>
OnlyProxy   == UNCHANGED <<fastcgi, scripts, records, told, headers>>
OnlyRecords == UNCHANGED <<fastcgi, proxy, scripts, told, headers>>
OnlyEnv     == UNCHANGED <<fastcgi, proxy, scripts, records, headers>>
OnlyHeader  == UNCHANGED <<fastcgi, proxy, scripts, records, told>>

Next ==
    /\ UNCHANGED part
    /\ \/ part = "fcgi shared" /\ FShared!Next /\ OnlyFastCGI
       \/ part = "fcgi hosts"  /\ FHosts!Next /\ OnlyFastCGI
       \/ part = "scgi shared" /\ SShared!Next /\ OnlySCGI
       \/ part = "scgi hosts"  /\ SHosts!Next /\ OnlySCGI
       \/ part = "scgi sorted" /\ SSorted!Next /\ OnlySCGI
       \/ part = "cgi"         /\ C!Next /\ OnlyCGI
       \/ part = "turns"       /\ PTurns!Next /\ OnlyProxy
       \/ part = "fair"        /\ PFair!Next /\ OnlyProxy
       \/ part = "hash"        /\ PHash!Next /\ OnlyProxy
       \/ part = "slow"        /\ PSlow!Next /\ OnlyProxy
       \/ part = "records"     /\ R!Next /\ OnlyRecords
       \/ part = "env"         /\ E!Next /\ OnlyEnv
       \/ part = "header"      /\ H!Next /\ OnlyHeader

\* the fairness of each component, for the parts whose liveness is checked
Fairness ==
    /\ WF_vars(part = "fcgi hosts" /\ FHosts!Continue(1) /\ OnlyFastCGI /\ UNCHANGED part)
    /\ WF_vars(part = "fcgi hosts" /\ FHosts!fcgi_handle_fdevent(1) /\ OnlyFastCGI /\ UNCHANGED part)
    /\ WF_vars(part = "fcgi hosts" /\ FHosts!Backend(1) /\ OnlyFastCGI /\ UNCHANGED part)
    /\ WF_vars(part = "cgi" /\ C!Serve(1) /\ OnlyCGI /\ UNCHANGED part)
    /\ \A p \in {1, 2} : WF_vars(part = "cgi" /\ C!Script(p) /\ OnlyCGI /\ UNCHANGED part)
    /\ WF_vars(part = "cgi" /\ C!cgi_trigger /\ OnlyCGI /\ UNCHANGED part)
    /\ WF_vars(part = "hash" /\ PHash!Goes(1) /\ OnlyProxy /\ UNCHANGED part)
    /\ WF_vars(part = "hash" /\ PHash!Backend(1) /\ OnlyProxy /\ UNCHANGED part)
    /\ WF_vars(part = "hash" /\ PHash!Second /\ OnlyProxy /\ UNCHANGED part)
    /\ WF_vars(part = "slow" /\ PSlow!Goes(1) /\ OnlyProxy /\ UNCHANGED part)
    /\ WF_vars(part = "slow" /\ PSlow!Backend(1) /\ OnlyProxy /\ UNCHANGED part)
    /\ WF_vars(part = "slow" /\ PSlow!Second /\ OnlyProxy /\ UNCHANGED part)

Spec == Init /\ [][Next]_vars /\ Fairness

-----------------------------------------------------------------------------
TypeOK ==
    /\ part = "fcgi shared" => FShared!TypeOK
    /\ part = "fcgi hosts"  => FHosts!TypeOK
    /\ C!TypeOK
    /\ part = "turns"       => PTurns!TypeOK
    /\ part = "fair"        => PFair!TypeOK
    /\ part = "hash"        => PHash!TypeOK
    /\ part = "slow"        => PSlow!TypeOK
    /\ E!TypeOK

(***************************************************************************)
(* FastCGI: loads of hosts and processes count the requests that hold them. *)
(***************************************************************************)
LoadsAgree ==
    (part = "fcgi shared" => FShared!LoadsAgree) /\ (part = "fcgi hosts" => FHosts!LoadsAgree)

(***************************************************************************)
(* FastCGI: no second process gets a request that a first has had.         *)
(***************************************************************************)
AskedOnce ==
    (part = "fcgi shared" => FShared!AskedOnce) /\ (part = "fcgi hosts" => FHosts!AskedOnce)

(***************************************************************************)
(* FastCGI and mod_proxy: somebody goes on with every request under way.   *)
(***************************************************************************)
Continued ==
    /\ part = "fcgi shared" => FShared!Continued
    /\ part = "fcgi hosts"  => FHosts!Continued
    /\ part = "turns"       => PTurns!Continued
    /\ part = "fair"        => PFair!Continued
    /\ part = "hash"        => PHash!Continued
    /\ part = "slow"        => PSlow!Continued

(***************************************************************************)
(* FastCGI and SCGI: no process is started beside the one in its place.    *)
(***************************************************************************)
OneChild ==
    /\ part = "fcgi shared" => FShared!OneChild
    /\ part = "fcgi hosts"  => FHosts!OneChild
    /\ part = "scgi shared" => SShared!OneChild
    /\ part = "scgi hosts"  => SHosts!OneChild

(***************************************************************************)
(* FastCGI: every request is answered in the end.                          *)
(***************************************************************************)
Settles == part = "fcgi hosts" => FHosts!Settles

(***************************************************************************)
(* SCGI: active_procs does not fall below the processes that run.          *)
(***************************************************************************)
ActiveCovers ==
    (part = "scgi shared" => SShared!ActiveCovers) /\ (part = "scgi hosts" => SHosts!ActiveCovers)

(***************************************************************************)
(* SCGI: a host's load does not fall below its requests.                   *)
(***************************************************************************)
LoadKept == (part = "scgi shared" => SShared!LoadKept) /\ (part = "scgi hosts" => SHosts!LoadKept)

(***************************************************************************)
(* SCGI: the lists of processes hold each of them once.                    *)
(***************************************************************************)
ListWhole ==
    /\ part = "scgi shared" => SShared!ListWhole
    /\ part = "scgi hosts"  => SHosts!ListWhole
    /\ part = "scgi sorted" => SSorted!ListWhole

(***************************************************************************)
(* SCGI, until it reconnects a request: the loads of processes are exact,  *)
(* and the processes in their order.                                       *)
(***************************************************************************)
ListSorted ==
    /\ part = "scgi shared" => SShared!ListSorted
    /\ part = "scgi hosts"  => SHosts!ListSorted
    /\ part = "scgi sorted" => SSorted!ListSorted

(***************************************************************************)
(* CGI: a child that has not been waited for is known in just one place.   *)
(***************************************************************************)
ChildrenKnown == C!ChildrenKnown

(***************************************************************************)
(* CGI: no pipe stays open without a request that reads from it.           *)
(***************************************************************************)
DescriptorsKept == C!DescriptorsKept

(***************************************************************************)
(* CGI: the content is what the script has written behind its header.      *)
(***************************************************************************)
ContentKept == C!ContentKept

(***************************************************************************)
(* CGI: a request ends once its script has ended.                          *)
(***************************************************************************)
CGIEnds == part = "cgi" => C!Ends

(***************************************************************************)
(* CGI: children that nobody waits for are collected.                      *)
(***************************************************************************)
Collected == part = "cgi" => C!Collected

(***************************************************************************)
(* mod_proxy: a host's usage is the number of requests that have it.       *)
(***************************************************************************)
UsageAgrees ==
    /\ part = "turns" => PTurns!UsageAgrees
    /\ part = "fair"  => PFair!UsageAgrees
    /\ part = "hash"  => PHash!UsageAgrees
    /\ part = "slow"  => PSlow!UsageAgrees

(***************************************************************************)
(* mod_proxy: round robin gives every enabled host its turn.               *)
(***************************************************************************)
Turns == (part = "turns" => PTurns!Turns) /\ (part = "slow" => PSlow!Turns)

(***************************************************************************)
(* mod_proxy: a request ends even if no host ever answers, unless hosts    *)
(* come back while it still waits for the others.                          *)
(***************************************************************************)
ProxyEnds == (part = "hash" => PHash!Ends) /\ (part = "slow" => PSlow!Ends)

(***************************************************************************)
(* FastCGI: the STDIN records hold the content of the request.             *)
(***************************************************************************)
StdinWhole == R!StdinWhole

(***************************************************************************)
(* FastCGI: the client gets what the process wrote, however it was cut.    *)
(***************************************************************************)
AnswerWhole == R!AnswerWhole

(***************************************************************************)
(* Every gateway: what the environment says of the path is the path that   *)
(* was asked for, and of the server what the server says.                  *)
(***************************************************************************)
EnvRight == E!EnvRight

(***************************************************************************)
(* Every gateway: the status and the length are those of the backend's     *)
(* header, in whatever order its lines come.                               *)
(***************************************************************************)
HeaderRight == H!HeaderRight
-----------------------------------------------------------------------------
(***************************************************************************)
(* What the runs check: the properties above by what they are about.       *)
(***************************************************************************)

(***************************************************************************)
(* What a host, a process or the server is counted to have in use is what  *)
(* the requests hold, after every kind of failure.                         *)
(***************************************************************************)
CountsAgree ==
    /\ LoadsAgree /\ UsageAgrees /\ DescriptorsKept      \* exactly
    /\ ActiveCovers /\ LoadKept /\ ListWhole /\ ListSorted       \* as far as SCGI counts

(***************************************************************************)
(* Nobody loses a child, and none is started beside another.               *)
(***************************************************************************)
ChildrenKept == ChildrenKnown /\ OneChild

(***************************************************************************)
(* Nothing of a request or of its answer is lost, repeated or mixed up on  *)
(* the way to the backend and back.                                        *)
(***************************************************************************)
Whole == ContentKept /\ StdinWhole /\ AnswerWhole /\ EnvRight /\ HeaderRight

(***************************************************************************)
(* What was begun comes to its end: requests, scripts, children.           *)
(***************************************************************************)
Ends == Settles /\ CGIEnds /\ Collected /\ ProxyEnds
=============================================================================
