------------------------------ MODULE MCModules ------------------------------
(***************************************************************************)
(* The components that share no state with each other, side by side: a     *)
(* behaviour is one of one of them, "part".                                *)
(***************************************************************************)
EXTENDS Integers, Sequences, FiniteSets

VARIABLES part,
    pid, child, coming, told, start_process, is_shutdown, main, pending, handlers, signals,
    flag, worker, num_childs, watcher, waiting, given, deaths, cycled, hups,
    image, format, scaled, offset, pc,
    input, parsed,
    file, clock, mtime_cache, held, answer, honest,
    engine, fs, cur_ts, files, dirs, fam, fam_events, recreated, newest, history, got,
    config, passwords, auth_user, asked, reply,
    tree, props, locks, uri_path, denied, is_readonly, requests, last,
    original, recent, use_etag, copies, work, compressed, crashes,
    blocks, peer, turn, prepared, item, valid, cond_cache, conf, saved, is_proxy_ssl, hctx, passes, moved, accepted,
    stored, converting, faults, deletions

angel    == <<pid, child, coming, told, start_process, is_shutdown, main, pending, handlers, signals>>
workers  == <<flag, worker, num_childs, watcher, waiting, given, deaths, cycled, hups>>
crop     == <<image, format, scaled, offset, pc>>
request  == <<input, parsed>>
static   == <<file, clock, mtime_cache, held, answer, honest>>
cache    == <<engine, fs, cur_ts, files, dirs, fam, fam_events, recreated, newest, history, got>>
auth     == <<config, passwords, auth_user, asked, reply>>
webdav   == <<tree, props, locks, uri_path, denied, is_readonly, requests, last>>
compress == <<original, recent, use_etag, copies, work, compressed, crashes>>
conditions ==
    <<blocks, peer, turn, prepared, item, valid, cond_cache, conf, saved, is_proxy_ssl, hctx, passes, moved, accepted>>
fastdfs  == <<stored, converting, faults, deletions>>

vars == <<part, angel, workers, crop, request, static, cache, auth, webdav, compress, conditions,
          fastdfs>>

-----------------------------------------------------------------------------
\* three servers one after the other, three signals from outside
A == INSTANCE Angel WITH MaxChildren <- 3, MaxSignals <- 3

\* two workers, of which two may die, and two signals from outside
P == INSTANCE Workers WITH parent <- watcher, pending <- waiting, signals <- given,
                           Procs <- {"w1", "w2"}, max_worker <- 2, MaxSignals <- 2, MaxDeaths <- 2

\* sides of up to nine pixels in steps, places on both sides of 100 per cent
C == INSTANCE Crop WITH Sides <- {0, 1, 2, 3, 5, 9}, Places <- {0, 1, 50, 100, 101, 300}, SizeModulus <- 65536

\* every request line with up to two headers, of every kind that is treated on its own,
\* and every host of up to five characters
Letter == <<"a">>
RequestLine(words, method, version, host, uri) ==
    [words |-> words, method |-> method, version |-> version, host |-> host, uri |-> uri]
RequestLines ==
    {RequestLine(3, m, v, h, "/") : m \in {"GET", "POST"}, v \in {"1.1", "1.0"}, h \in {<<>>, Letter}}
    \cup {RequestLine(2, "GET", "1.1", <<>>, "/"), RequestLine(3, "unknown", "1.1", <<>>, "/"),
          RequestLine(3, "PUT", "2.0", <<>>, "/"), RequestLine(3, "GET", "bad", <<>>, "/"),
          RequestLine(3, "GET", "1.1", <<>>, "")}
HeaderLines ==
    [key : {"Connection"}, value : {<<"x", "close", "keep-alive">>, <<"keep-alive">>}]
    \cup [key : {"Content-Length"}, value : {<<"x">>, <<"0">>, <<"1">>, <<"9">>}]
    \cup [key : {"Host"}, value : {Letter, <<"a", "1">>, <<"a", "-">>}]
    \cup [key : {"If-Modified-Since", "If-None-Match"}, value : {<<"t">>, <<"u">>}]
    \cup [key : {"Content-Type"}, value : {<<"t">>}] \cup [key : {"Range"}, value : {<<"bytes">>, <<"x">>}]
    \cup [key : {"fold"}, value : {<<"1">>, <<".">>, <<"a", "a">>}]
    \cup [key : {"bad", "417", "empty"}, value : {<<>>}]
HostNames ==
    UNION {[1..n -> {"a", "1", "-", "."}] : n \in 1..5}
    \cup {<<"1", ".", "1", ".", "1", ".", "1">>, <<"1", ".", "1", ".", "1", "-">>, <<"1", "a", ".", "1">>,
          <<"a", ":", "1">>, <<"a", ":", "a">>, <<"a", ".", ":", "1">>}
RequestInputs ==
    [line : RequestLines, lines : UNION {[1..n -> HeaderLines] : n \in 0..2}, before : BOOLEAN]
    \cup [line : {RequestLine(3, "GET", "1.1", <<>>, "/")},
          lines : {<<[key |-> "Host", value |-> h]>> : h \in HostNames}, before : {FALSE}]
Q == INSTANCE RequestParser WITH con <- parsed, Inputs <- RequestInputs, allow_http11 <- TRUE,
                                 SizeMax <- 8, Room <- 2, max_request_size <- 5

\* every kind of range alone, and before and after those that are in the file and beyond it
ByteRange(kind, a, b) == [kind |-> kind, a |-> a, b |-> b]
ByteRanges == {ByteRange("span", 0, 0), ByteRange("span", 1, 5), ByteRange("span", 1, 0), ByteRange("from", 1, 0),
               ByteRange("suffix", 1, 0), ByteRange("suffix", 0, 0), ByteRange("bad", 0, 0)}
Word == ByteRange("word", 0, 0)
F == INSTANCE StaticFile WITH
        Ranges <- {<<a>> : a \in ByteRanges}
                  \cup {<<a, b>> : a \in {ByteRange("span", 1, 5), ByteRange("span", 0, 0)}, b \in ByteRanges \cup {Word}}
                  \cup {<<Word, ByteRange("from", 1, 0)>>},
        Sizes <- {0, 2}, etag_flags <- {"inode", "size", "mtime"}, FILE_CACHE_MAX <- 2, MaxChanges <- 2, MaxClock <- 3

\* a name that is asked for with links followed and not, and another with one of its keys
StatPaths == {[name |-> "a", follow |-> TRUE], [name |-> "a", follow |-> FALSE], [name |-> "b", follow |-> TRUE]}
HashOf(p) == IF p.follow THEN 2 ELSE 1
DirOf(n) == IF n = "a" THEN 5 ELSE 7
S == INSTANCE StatCache WITH Engines <- {"simple", "fam", "none"}, Paths <- StatPaths, Key <- HashOf, Dir <- DirOf,
                              MaxClock <- 4, MaxVersion <- 2

\* an entry of auth.require alone, of either method, and one behind another, with and without the case
Rule(v) == [k |-> "user", v |-> v]
Keyword(k) == [k |-> k, v |-> ""]
Entry(key, method, rules) == [key |-> key, method |-> method, realm |-> "r", rules |-> rules]
AuthRequires ==
    {<<Entry(<<"a">>, m, r)>> : m \in {"basic", "digest"}, r \in {<<Keyword("valid-user")>>, <<Keyword("group"), Rule("v")>>}}
    \cup {<<Entry(<<"a", "b">>, "basic", <<Rule("v")>>), Entry(<<"a">>, "digest", <<Keyword("valid-user")>>)>>,
          <<Entry(<<"A">>, "basic", <<Rule("u"), Keyword("valid-user")>>), Entry(<<>>, "basic", <<Keyword("valid-user")>>)>>,
          <<Entry(<<"a">>, "none", <<>>)>>}
Line(user, realm, password) == [user |-> user, realm |-> realm, password |-> password]
Broken == [user |-> "broken"]
H == INSTANCE Auth WITH
        file <- passwords, request <- asked, answer <- reply,
        Configs <- [require : AuthRequires, backend : {"htdigest", "htpasswd", "plain"}, force_lowercase : BOOLEAN],
        Files <- {<<Line("u", "r", "p")>>, <<Line("u", "q", "o"), Line("u", "r", "p")>>,
                  <<Line("v", "", "p"), Line("u", "r", "p")>>, <<Broken, Line("u", "r", "p")>>,
                  <<Line("u", "r", "p"), Broken, Line("v", "r", "p")>>},
        Realms <- {"r", "q"}, Paths <- {<<"a">>, <<"A">>, <<"a", "b">>}, Methods <- {"GET", "HEAD"},
        Users <- {"u", "v"}, Secrets <- {"p", "o"}

\* two directories, one within another, and a file; two requests after one another
DirEntry == [kind |-> "dir", content |-> <<>>]
NoEntry == [kind |-> "none", content |-> <<>>]
FileEntry(c) == [kind |-> "file", content |-> c]
Resources == {<<"d">>, <<"e">>, <<"f">>, <<"d", "f">>, <<"d", "g">>, <<"e", "f">>, <<"e", "g">>, <<"d", "g", "f">>, <<"e", "g", "f">>}
Tree(d, df, dg, dgf, e, ef, f) ==
    [p \in Resources |->
        CASE p = <<"d">> -> d [] p = <<"e">> -> e [] p = <<"f">> -> f [] p = <<"d", "f">> -> df
          [] p = <<"d", "g">> -> dg [] p = <<"e", "f">> -> ef [] p = <<"d", "g", "f">> -> dgf [] OTHER -> NoEntry]
W == INSTANCE WebDAV WITH
        fs <- tree,
        Trees <- {Tree(DirEntry, FileEntry(<<1>>), FileEntry(<<2>>), NoEntry, DirEntry, FileEntry(<<3, 4>>), FileEntry(<<5, 6>>)),
                  Tree(DirEntry, NoEntry, DirEntry, FileEntry(<<1, 2>>), NoEntry, NoEntry, FileEntry(<<>>)),
                  Tree(DirEntry, NoEntry, FileEntry(<<1>>), NoEntry, FileEntry(<<2>>), NoEntry, NoEntry)},
        Orders <- {<<"f", "g">>, <<"g", "f">>}, Bodies <- {<<>>, <<8, 9>>}, Denials <- {{}, {<<"d", "f">>}}, MaxRequests <- 2

\* two workers, a file that is written once more, a crash
Accepting(method, encodings, if_none_match) == [method |-> method, encodings |-> encodings, if_none_match |-> if_none_match]
Z == INSTANCE Compress WITH
        file <- original, cache <- copies, answer <- compressed,
        Requests <- {Accepting("GET", {}, <<>>), Accepting("HEAD", {"gzip"}, <<>>), Accepting("GET", {"gzip", "bzip2"}, <<>>),
                     Accepting("GET", {"deflate", "gzip"}, <<"gzip", 1>>), Accepting("POST", {"gzip"}, <<"plain", 2>>)},
        Workers <- {"w1", "w2"}, allowed_encodings <- {"gzip", "deflate"}, compress_cache_dir <- TRUE,
        MaxVersion <- 2, MaxCrashes <- 1

\* conditions within one another and after one another, in the order they are decided in and not,
\* URLs that are rewritten into one another, and connections of a proxy and of others
Test(parent, prev, comp, op, want, sets) ==
    [parent |-> parent, prev |-> prev, comp |-> comp, op |-> op, want |-> want, sets |-> sets]
Root == {"document-root"}
UrlRule(from, to, once) == [from |-> from, to |-> to, once |-> once]
Swap == <<UrlRule("/a", "/b", FALSE), UrlRule("/b", "/a", FALSE)>>
Trust(names) == [i \in names |-> "trust"]
Globally(x) == [i \in {0} |-> x]
Within(block, x, none) == [i \in {0, block} |-> IF i = block THEN x ELSE none]
Conditional(list, trust, rewrite, nf, redirect) ==
    [blocks |-> list, trust |-> trust, rewrite |-> rewrite, rewrite_NF |-> nf, redirect |-> redirect]
ConditionConfigs == {
    Conditional(<<Test(0, 0, "url", "match", "/a", Root), Test(1, 0, "host", "match", "h", Root)>>,
                Trust({}), Globally(Swap), Globally(<<>>), Within(2, {"/a"}, {})),
    Conditional(<<Test(0, 0, "ip", "eq", "client", Root), Test(1, 0, "url", "match", "/a", Root)>>,
                Trust({"proxy"}), Within(1, <<UrlRule("/a", "/b", TRUE)>>, <<>>), Within(1, Swap, <<>>), Within(2, {"/a"}, {})),
    Conditional(<<Test(0, 0, "ip", "eq", "client", Root), Test(0, 1, "ip", "ne", "proxy", Root)>>,
                Trust({"all"}), Globally(<<UrlRule("/a", "/b", FALSE)>>), Globally(<<>>), Within(2, {"/b"}, {})),
    Conditional(<<Test(0, 0, "host", "match", "h", Root), Test(0, 1, "url", "match", "/a", Root), Test(0, 2, "url", "ne", "/a", Root)>>,
                Trust({}), Globally(<<>>), Globally(Swap), Within(3, {"/b"}, {})),
    Conditional(<<Test(0, 0, "url", "match", "/a", Root), Test(0, 1, "host", "match", "h", Root), Test(2, 0, "method", "eq", "GET", Root)>>,
                Trust({}), Globally(<<>>), Globally(<<>>), Within(2, {"/a"}, {})),
    Conditional(<<Test(0, 0, "socket", "eq", "s", {"ssl.engine"}), Test(0, 0, "scheme", "eq", "https", Root),
                  Test(0, 0, "host", "ne", "h", Root)>>,
                Trust({"proxy"}), Within(2, Swap, <<>>), Globally(<<>>), Within(3, {"/a"}, {}))}
D == INSTANCE Conditions WITH
        config <- blocks, pc <- turn, request <- prepared, requests <- accepted, Configs <- ConditionConfigs,
        Requests <- [host : {"h", "i"}, url : {"/a", "/b"}, method : {"GET", "POST"}, https : BOOLEAN,
                     forwarded : {<<>>, <<"client">>, <<"other", "proxy">>, <<"bad">>}],
        Peers <- {"proxy", "client"}, MaxLoops <- 2, MaxRequests <- 2

\* an image, its slaves of every kind of size, and what cannot be one
Image(base, sizes, type) == [base |-> base, sizes |-> sizes, type |-> type]
Plain == Image("m", <<>>, "jpg")
Slave == Image("m", <<"n", "n">>, "jpg")
TwoUnits(n) == 2
Download(n, range, current) == [name |-> n, method |-> "GET", range |-> range, current |-> current]
X == INSTANCE Fastdfs WITH
        files <- stored, work <- converting, Masters <- {Plain}, SizeOf <- TwoUnits, enable <- TRUE,
        filesizes <- <<<<"n", "n">>, <<"*">>>>, filetypes <- {"jpg"}, Workers <- {"w1", "w2"}, MaxFaults <- 1, MaxDeletions <- 1,
        Requests <- {Download(Plain, <<>>, TRUE), [method |-> "POST"]}
                    \cup {Download(n, <<>>, FALSE) : n \in
                            {Plain, Slave, Image("m", <<"n", "0">>, "jpg"), Image("m", <<"n", "x">>, "jpg"),
                             Image("m", <<"n", "n">>, "txt"), Image("l", <<"n", "n">>, "jpg")}}
                    \cup {Download(Slave, s, FALSE) : s \in
                            {<<ByteRange("span", 0, 1), ByteRange("from", 5, 0)>>, <<Word>>}
                            \cup {<<ByteRange(k, a, 0)>> : k \in {"span", "from", "suffix"}, a \in 0..1}}

ASSUME A!AngelAssumption /\ P!WorkersAssumption /\ C!CropAssumption /\ Z!CompressAssumption /\ X!FastdfsAssumption

-----------------------------------------------------------------------------
\* the variables of a component that does not run keep a value of no meaning
nil == 0
Init ==
    /\ part \in {"angel", "workers", "crop", "request", "static", "cache", "auth", "webdav", "compress", "conditions", "fastdfs"}
    /\ A!Init /\ P!Init
    /\ IF part = "crop" THEN C!Init ELSE image = nil /\ format = nil /\ scaled = nil /\ offset = nil /\ pc = nil
    /\ IF part = "request" THEN Q!Init ELSE input = nil /\ parsed = nil
    /\ IF part = "static" THEN F!Init
       ELSE file = nil /\ clock = nil /\ mtime_cache = nil /\ held = nil /\ answer = nil /\ honest = nil
    /\ IF part = "cache" THEN S!Init
       ELSE engine = nil /\ fs = nil /\ cur_ts = nil /\ files = nil /\ dirs = nil /\ fam = nil /\ fam_events = nil
            /\ recreated = nil /\ newest = nil /\ history = nil /\ got = nil
    /\ IF part = "auth" THEN H!Init ELSE config = nil /\ passwords = nil /\ auth_user = nil /\ asked = nil /\ reply = nil
    /\ IF part = "webdav" THEN W!Init
       ELSE tree = nil /\ props = nil /\ locks = nil /\ uri_path = nil /\ denied = nil /\ is_readonly = nil
            /\ requests = nil /\ last = nil
    /\ IF part = "compress" THEN Z!Init
       ELSE original = nil /\ recent = nil /\ use_etag = nil /\ copies = nil /\ work = nil /\ compressed = nil
            /\ crashes = nil
    /\ IF part = "conditions" THEN D!Init
       ELSE blocks = nil /\ peer = nil /\ turn = nil /\ prepared = nil /\ item = nil /\ valid = nil /\ cond_cache = nil
            /\ conf = nil /\ saved = nil /\ is_proxy_ssl = nil /\ hctx = nil /\ passes = nil /\ moved = nil /\ accepted = nil
    /\ IF part = "fastdfs" THEN X!Init ELSE stored = nil /\ converting = nil /\ faults = nil /\ deletions = nil

Next ==
    /\ UNCHANGED part
    /\ \/ part = "angel" /\ A!Next
          /\ UNCHANGED <<workers, crop, request, static, cache, auth, webdav, compress, conditions, fastdfs>>
       \/ part = "workers" /\ P!Next
          /\ UNCHANGED <<angel, crop, request, static, cache, auth, webdav, compress, conditions, fastdfs>>
       \/ part = "crop" /\ C!Next
          /\ UNCHANGED <<angel, workers, request, static, cache, auth, webdav, compress, conditions, fastdfs>>
       \/ part = "request" /\ Q!Next
          /\ UNCHANGED <<angel, workers, crop, static, cache, auth, webdav, compress, conditions, fastdfs>>
       \/ part = "static" /\ F!Next
          /\ UNCHANGED <<angel, workers, crop, request, cache, auth, webdav, compress, conditions, fastdfs>>
       \/ part = "cache" /\ S!Next
          /\ UNCHANGED <<angel, workers, crop, request, static, auth, webdav, compress, conditions, fastdfs>>
       \/ part = "auth" /\ H!Next
          /\ UNCHANGED <<angel, workers, crop, request, static, cache, webdav, compress, conditions, fastdfs>>
       \/ part = "webdav" /\ W!Next
          /\ UNCHANGED <<angel, workers, crop, request, static, cache, auth, compress, conditions, fastdfs>>
       \/ part = "compress" /\ Z!Next
          /\ UNCHANGED <<angel, workers, crop, request, static, cache, auth, webdav, conditions, fastdfs>>
       \/ part = "conditions" /\ D!Next
          /\ UNCHANGED <<angel, workers, crop, request, static, cache, auth, webdav, compress, fastdfs>>
       \/ part = "fastdfs" /\ X!Next
          /\ UNCHANGED <<angel, workers, crop, request, static, cache, auth, webdav, compress, conditions>>

Fairness ==
    /\ WF_angel(part = "angel" /\ (A!Main \/ A!Handlers))
    /\ \A c \in A!Children : WF_angel(part = "angel" /\ A!Ends(c))
    /\ WF_workers(part = "workers" /\ P!ParentSteps)
    /\ \A w \in {"w1", "w2"} : WF_workers(part = "workers" /\ P!WorkerSteps(w))

Spec == Init /\ [][Next]_vars /\ Fairness

-----------------------------------------------------------------------------
TypeOK ==
    /\ part = "angel" => A!TypeOK
    /\ part = "workers" => P!TypeOK
    /\ part = "crop" => C!TypeOK
    /\ part = "static" => F!TypeOK
    /\ part = "cache" => S!TypeOK
    /\ part = "auth" => H!TypeOK
    /\ part = "webdav" => W!TypeOK
    /\ part = "compress" => Z!TypeOK
    /\ part = "conditions" => D!TypeOK
    /\ part = "fastdfs" => X!TypeOK

(***************************************************************************)
(* Angel: there is never a second server beside one that was not told to   *)
(* end, and the angel does not go while there is such a server.            *)
(***************************************************************************)
AngelSafe == part = "angel" => A!AngelSafe

(***************************************************************************)
(* Angel: a start that is asked for does not wait for ever, as long as the *)
(* server that was told to end gets the signal after its execvp().         *)
(***************************************************************************)
StartTaken == part = "angel" => A!StartTaken

(***************************************************************************)
(* Workers: a worker that is missing is counted, neither twice nor never,  *)
(* and none goes on serving when the parent has left.                      *)
(***************************************************************************)
NoneLost == part = "workers" => P!NoneLost

(***************************************************************************)
(* Workers: the parent does not answer the SIGHUP that it sends itself.    *)
(***************************************************************************)
HupsEnd == part = "workers" => P!HupsEnd

(***************************************************************************)
(* Workers: those that are missing are started again unless the server     *)
(* ends, or a fork() fails.                                                *)
(***************************************************************************)
Replaced == part = "workers" => P!Replaced

(***************************************************************************)
(* Crop: the scaled image is the smallest that covers the rectangle, which *)
(* lies inside of it.  Requests: who reads the header line by line and who *)
(* looks at the whole of it agree on its host and its fields, and on its   *)
(* length if no line is folded to it.                                      *)
(***************************************************************************)
Reference ==
    /\ part = "crop" => C!CutInside /\ C!JustCovers
    /\ part = "request" => Q!RequestRight

(***************************************************************************)
(* Files: who is told that its copy is current has the current one, a      *)
(* range is inside of the file and the one that is named, and the date is  *)
(* the file's.  The stat cache gives a path what the file was in this      *)
(* second, or until the monitor tells, and its trees stay search trees.    *)
(* FastDFS: a slave is the whole image of its name, whoever made it first, *)
(* and who asks for what can be made gets it, as far as the code sends it. *)
(***************************************************************************)
Remembered ==
    /\ part = "static" => F!StaticRight
    /\ part = "cache" => S!CacheRight
    /\ part = "fastdfs" => X!FastdfsRight

(***************************************************************************)
(* Passwords: who is let in is permitted and has the password of the path. *)
(* WebDAV: what is said to be done is done, no file is lost or overwritten *)
(* against the request, a refusal changes nothing.  Compressed copies: one *)
(* worker makes it, what is sent is whole, and not older than its etag.    *)
(* Conditions: the blocks in force are those that hold, their settings are *)
(* the ones that are used, and the next request has its own address.       *)
(***************************************************************************)
Trusted ==
    /\ part = "auth" => H!AuthRight
    /\ part = "webdav" => W!WebDAVRight
    /\ part = "compress" => Z!CompressRight
    /\ part = "conditions" => D!ConditionsRight
=============================================================================
