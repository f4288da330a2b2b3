----------------------------- MODULE GatewayEnv -----------------------------
(***************************************************************************)
(* What a gateway tells its backend about a request: http_response_prepare() *)
(* takes uri.path from the request, a handler of the gateway (or the search *)
(* for a file) splits PATH_INFO from it, and the environment is built of   *)
(* both - again for every host that is tried, and for the error handler.   *)
(*                                                                         *)
(* A path is a sequence of characters of which only "/" matters; addresses, *)
(* versions and the like are one value, "x".                               *)
(***************************************************************************)
EXTENDS Integers, Sequences, SequencesExt

CONSTANTS
    Paths,          \* of requests; each begins with "/"
    Files,          \* paths of scripts
    Handlers,       \* fastcgi.server, scgi.server and cgi.assign: see Handler
    Headers,        \* of a request: [name |-> sequence of characters, value |-> sequence]
    ErrorHandler,   \* server.error-handler-404, a script
    MaxLength       \* FCGI_MAX_LENGTH

\* an extension whose hosts are configured alike.  Without check-local the key is the
\* beginning of a path, with it the end of a file's; authorizer: mode of FastCGI
Handler == [gateway : {"fcgi", "scgi", "cgi"}, key : Seq({"/", "a", "b"}), check_local : BOOLEAN,
            authorizer : BOOLEAN, fix_root_path_name : BOOLEAN, docroot : BOOLEAN,
            break_scriptfilename_for_php : BOOLEAN, strip_request_uri : Seq({"/", "a", "b"})]

EnvAssumption ==
    /\ \A p \in Paths \cup Files \cup {ErrorHandler} : Len(p) > 0 /\ p[1] = "/"
    /\ Handlers \subseteq Handler /\ ErrorHandler \in Files /\ MaxLength \in Nat

VARIABLES
    pc,                 \* idle, prepare, create, sent, done
    uri, orig_uri,      \* of con->request
    path, pathinfo,     \* con->uri.path, con->request.pathinfo
    ext,                \* the extension that may take the request
    in_error_handler,
    env                 \* sequence of [name, value]

vars == <<pc, uri, orig_uri, path, pathinfo, ext, in_error_handler, env>>

Nobody == [gateway |-> "none"]

Init ==
    /\ pc = "idle" /\ uri = <<>> /\ orig_uri = <<>> /\ path = <<>> /\ pathinfo = <<>>
    /\ ext = Nobody /\ in_error_handler = FALSE /\ env = <<>>

-----------------------------------------------------------------------------
From(p, k) == SubSeq(p, k, Len(p))

\* the places from k on where a "/" is in p
Slashes(p, k) == {i \in k..Len(p) : p[i] = "/"}
First(S) == CHOOSE i \in S : \A j \in S : i <= j

\* <<SCRIPT_NAME, PATH_INFO>>: the uri handlers of mod_fastcgi and mod_scgi
PrefixSplit(h, p) ==
    LET after == Slashes(p, Len(h.key) + 1)
    IN  IF h.authorizer THEN <<p, pathinfo>>
        ELSE IF h.fix_root_path_name /\ h.key = <<"/">> THEN <<<<>>, p>>
        ELSE IF after = {} THEN <<p, pathinfo>>
        ELSE <<SubSeq(p, 1, First(after) - 1), From(p, First(after))>>

\* ... and that of a file: the longest beginning of the path that is one
ScriptEnds(p) == {k \in 1..Len(p) : SubSeq(p, 1, k) \in Files /\ (k < Len(p) => p[k + 1] = "/")}
Longest(p) == CHOOSE k \in ScriptEnds(p) : \A j \in ScriptEnds(p) : j <= k
NotReset(p, k) == IF pathinfo # <<>> THEN pathinfo ELSE From(p, k + 1)        \* mutant
FileInfo(p, k) == IF k < Len(p) THEN From(p, k + 1) ELSE pathinfo
FileSplit(p) == <<SubSeq(p, 1, Longest(p)), FileInfo(p, Longest(p))>>

-----------------------------------------------------------------------------
Root(h) == IF h.docroot THEN <<"host">> ELSE <<"doc_root">>

\* what stands for a header's character
Letter(h, c) == IF c = "-" \/ (h.gateway = "scgi" /\ c \in {"1", "2"}) THEN "_" ELSE c
Unprefixed(h, name) == <<"">> \o [i \in 1..Len(name) |-> Letter(h, name[i])]  \* mutant
HeaderName(h, name) ==
    <<IF name = <<"CONTENT", "-", "TYPE">> THEN "" ELSE "HTTP_">> \o [i \in 1..Len(name) |-> Letter(h, name[i])]

Var(name, value) == <<[name |-> <<"", name>>, value |-> value, checked |-> TRUE]>>
If(condition, vs) == IF condition THEN vs ELSE <<>>

\* the variables that have nothing to do with the path
ServerVars ==
    FlattenSeq([i \in 1..10 |->
        Var(<<"SERVER_SOFTWARE", "SERVER_NAME", "GATEWAY_INTERFACE", "SERVER_PORT", "SERVER_ADDR", "REMOTE_PORT",
              "REMOTE_ADDR", "REQUEST_METHOD", "REDIRECT_STATUS", "SERVER_PROTOCOL">>[i], <<"x">>)])
ContentLength == Var("CONTENT_LENGTH", <<"x">>)

Path(h) ==
    Var("SCRIPT_NAME", path) \o Var("PATH_INFO", pathinfo)
    \o If(pathinfo # <<>>, Var("PATH_TRANSLATED", Root(h) \o pathinfo))
Script(h) ==
    Var("SCRIPT_FILENAME",
        Root(h) \o path \o If(h.break_scriptfilename_for_php /\ ~h.docroot, pathinfo))
    \o Var("DOCUMENT_ROOT", Root(h))

\* the user's "/" at the end is optional
Stripped(h) == IF Last(h.strip_request_uri) = "/" THEN h.strip_request_uri
               ELSE Append(h.strip_request_uri, "/")
RequestUri(h) ==
    IF h.strip_request_uri # <<>> /\ IsPrefix(Stripped(h), orig_uri)
    THEN <<[name |-> <<"", "REQUEST_URI">>, value |-> From(orig_uri, Len(Stripped(h))), checked |-> FALSE]>>
    ELSE Var("REQUEST_URI", orig_uri)
RedirectUri == If(uri # orig_uri, Var("REDIRECT_URI", uri))

HeaderVars(h) ==
    [i \in 1..Len(Headers) |-> [name |-> HeaderName(h, Headers[i].name), value |-> Headers[i].value,
                                checked |-> TRUE]]

\* fcgi_env_add(): what does not fit is left out, or ends the request
Room(h, e, v) ==
    h.gateway # "fcgi"
    \/ FoldLeft(LAMBDA n, w : n + Len(w.name) + Len(w.value), 0, Append(e, v)) < MaxLength
TooLong == Var("400", <<>>)
Add(h, e, v) ==
    IF e = TooLong THEN e
    ELSE IF Room(h, e, v) THEN Append(e, v) ELSE IF v.checked THEN TooLong ELSE e
fcgi_create_env(h) ==
    ServerVars \o If(~h.authorizer, ContentLength \o Path(h)) \o Script(h) \o RequestUri(h)
    \o RedirectUri \o HeaderVars(h)
scgi_create_env(h) ==
    ContentLength \o Var("SCGI", <<"1">>) \o ServerVars \o Path(h) \o Script(h)
    \o Var("REQUEST_URI", orig_uri) \o RedirectUri \o HeaderVars(h)
cgi_create_env(h) ==
    ServerVars \o If(pathinfo # <<>>, Var("PATH_INFO", pathinfo)) \o Var("REQUEST_URI", orig_uri)
    \o Var("SCRIPT_NAME", path) \o Script(h) \o ContentLength \o HeaderVars(h)

CreateEnv(h) ==
    FoldLeft(LAMBDA e, v : Add(h, e, v), <<>>,
             CASE h.gateway = "fcgi" -> fcgi_create_env(h)
               [] h.gateway = "scgi" -> scgi_create_env(h)
               [] h.gateway = "cgi"  -> cgi_create_env(h))

-----------------------------------------------------------------------------
Arrive(p, h) ==
    /\ pc = "idle" /\ pc' = "prepare"
    /\ uri' = p /\ orig_uri' = p /\ ext' = h
    /\ UNCHANGED <<path, pathinfo, in_error_handler, env>>

\* http_response_prepare() while physical.path is empty, up to the handler that
\* takes the request by its path ...
ByPath == ~ext.check_local /\ IsPrefix(ext.key, uri)
TakenByPath ==
    /\ pc = "prepare" /\ ByPath
    /\ path' = PrefixSplit(ext, uri)[1] /\ pathinfo' = PrefixSplit(ext, uri)[2]
    /\ pc' = "create"
    /\ UNCHANGED <<uri, orig_uri, ext, in_error_handler, env>>

\* ... by the script's name ...
ByFile == ext.check_local /\ ScriptEnds(uri) # {} /\ IsSuffix(ext.key, FileSplit(uri)[1])
TakenByFile ==
    /\ pc = "prepare" /\ ByFile
    /\ path' = FileSplit(uri)[1] /\ pathinfo' = FileSplit(uri)[2]
    /\ pc' = "create"
    /\ UNCHANGED <<uri, orig_uri, ext, in_error_handler, env>>

\* ... or not at all: there is no file (404), or no handler wants it (403), which is
\* the error handler's; pathinfo stays
NotTaken ==
    /\ pc = "prepare" /\ ~ByPath /\ ~ByFile
    /\ IF ScriptEnds(uri) # {} THEN path' = FileSplit(uri)[1] /\ pathinfo' = FileSplit(uri)[2]
       ELSE path' = uri /\ UNCHANGED pathinfo
    /\ IF in_error_handler THEN pc' = "done" /\ UNCHANGED <<uri, in_error_handler>>
       ELSE uri' = ErrorHandler /\ in_error_handler' = TRUE /\ UNCHANGED pc
    /\ UNCHANGED <<orig_uri, ext, env>>

Create ==
    /\ pc = "create"
    /\ env' = CreateEnv(ext)
    /\ pc' = IF env' = TooLong THEN "done" ELSE "sent"
    /\ UNCHANGED <<uri, orig_uri, path, pathinfo, ext, in_error_handler>>

\* the backend has not taken it: the same again for this one (reconnect) ...
Again ==
    /\ pc = "sent" /\ ext.gateway # "cgi"
    /\ pc' = "create" /\ env' = <<>>
    /\ UNCHANGED <<uri, orig_uri, path, pathinfo, ext, in_error_handler>>

\* ... or for another: mode is DIRECT again and physical.path empty
Restart ==
    /\ pc = "sent" /\ ext.gateway # "cgi"
    /\ pc' = "prepare" /\ env' = <<>>
    /\ UNCHANGED <<uri, orig_uri, path, pathinfo, ext, in_error_handler>>

\* connection_reset() after the answer
Answered ==
    /\ pc \in {"sent", "done"}
    /\ pc' = "idle" /\ uri' = <<>> /\ orig_uri' = <<>> /\ path' = <<>> /\ pathinfo' = <<>>
    /\ ext' = Nobody /\ in_error_handler' = FALSE /\ env' = <<>>

Next ==
    \/ \E p \in Paths, h \in Handlers : Arrive(p, h)
    \/ TakenByPath \/ TakenByFile \/ NotTaken \/ Create \/ Again \/ Restart \/ Answered

Spec == Init /\ [][Next]_vars

-----------------------------------------------------------------------------
TypeOK ==
    /\ pc \in {"idle", "prepare", "create", "sent", "done"} /\ in_error_handler \in BOOLEAN
    /\ ext \in Handlers \cup {Nobody} /\ uri \in Paths \cup {<<>>, ErrorHandler}

Values(name) == {env[i].value : i \in {j \in 1..Len(env) : env[j].name = <<"", name>>}}

(***************************************************************************)
(* The script and its PATH_INFO are the path that was asked for, whole and *)
(* without an overlap, also for the second host; and the variables that    *)
(* are made of them agree.                                                 *)
(***************************************************************************)
PathKept ==
    pc = "sent" /\ ~in_error_handler /\ ~ext.authorizer =>
        LET info == IF Values("PATH_INFO") = {} THEN <<>> ELSE CHOOSE v \in Values("PATH_INFO") : TRUE
        IN  /\ \A s \in Values("SCRIPT_NAME") : s \o info = orig_uri
            /\ \A t \in Values("PATH_TRANSLATED"), r \in Values("DOCUMENT_ROOT") : t = r \o info
            /\ info = <<>> => Values("PATH_TRANSLATED") = {}

(***************************************************************************)
(* REQUEST_URI is what the client has asked for, also in the error handler, *)
(* or its end behind strip-request-uri.                                    *)
(***************************************************************************)
UriKept ==
    pc = "sent" => \A u \in Values("REQUEST_URI") : IsSuffix(u, orig_uri) /\ u[1] = "/"

(***************************************************************************)
(* No header of a client is taken for something that the server says.    *)
(***************************************************************************)
OwnVariables ==
    pc = "sent" => \A i \in 1..Len(env), j \in 1..Len(env) :
                       env[i].name = env[j].name /\ env[i].name[1] = "" => i = j

EnvRight == PathKept /\ UriKept /\ OwnVariables
=============================================================================
