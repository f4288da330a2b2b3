------------------------------- MODULE Compress -------------------------------
(***************************************************************************)
(* mod_compress: workers that answer with a compressed copy of a file,     *)
(* which is made once, by whoever creates it first (O_EXCL), and kept in   *)
(* compress.cache-dir under the etag of the file.  Without an etag, or a   *)
(* directory, the copy is made in memory for each request.                 *)
(*                                                                         *)
(* A version of the file has an etag of its own, but what a worker knows   *)
(* of the file is what the stat cache remembers of this second.            *)
(***************************************************************************)
EXTENDS Integers, Sequences, FiniteSets

CONSTANTS
    Workers,
    allowed_encodings,  \* of those that are known
    compress_cache_dir, \* BOOLEAN: is there one
    Requests,           \* of clients: [method, encodings, if_none_match]
    MaxVersion, MaxCrashes \* bounds

VARIABLES
    file,               \* [version, size, type]
    recent,             \* the versions of this second
    use_etag,
    cache,              \* of <<encoding, etag>>: [of, whole, writer]
    work,               \* of a worker: [pc, request, etag, encoding]
    answer,             \* the last one of each worker
    crashes

vars == <<file, recent, use_etag, cache, work, answer, crashes>>

Encodings == {"bzip2", "gzip", "deflate"}
CompressAssumption ==
    MaxVersion \in Nat \ {0} /\ Workers \cap {"none", "dead"} = {} /\ allowed_encodings \subseteq Encodings

Versions == 1..MaxVersion
NoCopy == [of |-> 0, whole |-> FALSE, writer |-> "none"]
Idle == [pc |-> "idle"]
NoAnswer == [status |-> 0]

Init ==
    /\ file \in [version : {1}, size : {"small", "fits", "large"}, type : {"listed", "other"}]
    /\ file.type = "other" => file.size = "fits"
    /\ use_etag \in BOOLEAN /\ recent = {1}
    /\ cache = [k \in Encodings \X Versions |-> NoCopy]
    /\ work = [w \in Workers |-> Idle] /\ answer = [w \in Workers |-> NoAnswer] /\ crashes = 0

-----------------------------------------------------------------------------
Best(encodings) ==
    CASE "bzip2" \in encodings -> "bzip2"
      [] "bzip2" \notin encodings /\ "gzip" \in encodings -> "gzip"
      [] OTHER -> "deflate"

\* the etag of a copy has the name of the encoding behind that of the file
Plain(etag) == <<"plain", etag>>
Coded(encoding, etag) == <<encoding, etag>>

Reply(w, status, encoding, etag, of, whole, raced) ==
    answer' = [answer EXCEPT ![w] = [status |-> status, encoding |-> encoding, etag |-> etag, of |-> of, whole |-> whole,
                                     raced |-> raced, request |-> work'[w].request]]
Told(w, pc, r, etag, encoding) == work' = [work EXCEPT ![w] = [pc |-> pc, request |-> r, etag |-> etag, encoding |-> encoding]]

Unfit == file.size \in {"small", "large"} \/ file.type # "listed"

\* mod_compress_physical() up to the copy; "plain" is left to mod_staticfile
Physical(w, r, etag) ==
    LET matched == r.encodings \cap allowed_encodings
        encoding == Best(matched)
        known == use_etag /\ r.if_none_match \in {Plain(etag), Coded(encoding, etag)}
    IN  /\ work[w] = Idle /\ answer[w] = NoAnswer /\ etag \in recent
        /\ CASE r.method = "HEAD" \/ Unfit \/ matched = {} -> Told(w, "plain", r, etag, "none") /\ UNCHANGED answer
             [] r.method # "HEAD" /\ ~Unfit /\ matched # {} /\ known ->
                    /\ Told(w, "answered", r, etag, encoding)
                    /\ Reply(w, IF r.method = "GET" THEN 304 ELSE 412, encoding, r.if_none_match, 0, TRUE, FALSE)
             [] OTHER -> /\ Told(w, IF use_etag /\ compress_cache_dir THEN "open" ELSE "buffer", r, etag, encoding)
                         /\ UNCHANGED answer
        /\ UNCHANGED <<file, recent, use_etag, cache, crashes>>

Key(w) == <<work[w].encoding, work[w].etag>>
At(w, pc) == work[w].pc = pc
Goes(w, pc) == work' = [work EXCEPT ![w].pc = pc]
Unchanged == UNCHANGED <<file, recent, use_etag, crashes>>

-----------------------------------------------------------------------------
(***************************************************************************)
(* deflate_file_to_file(): the copy is there as soon as it is created.     *)
(***************************************************************************)
Create(w) ==
    /\ At(w, "open")
    /\ IF cache[Key(w)] # NoCopy THEN Goes(w, "cached") /\ UNCHANGED cache
       ELSE Goes(w, "deflate") /\ cache' = [cache EXCEPT ![Key(w)].writer = w]
    /\ UNCHANGED answer /\ Unchanged

\* the file is opened, mapped, compressed and written: what it is by now
Deflate(w) ==
    /\ At(w, "deflate") /\ Goes(w, "written") /\ cache' = [cache EXCEPT ![Key(w)].of = file.version]
    /\ UNCHANGED answer /\ Unchanged
Close(w) ==
    /\ At(w, "written") /\ Goes(w, "cached") /\ cache' = [cache EXCEPT ![Key(w)].whole = TRUE, ![Key(w)].writer = "none"]
    /\ UNCHANGED answer /\ Unchanged
\* open, mmap, the library or the write failed: the copy is removed, the file sent as it is
Unlinked(w) == cache' = [cache EXCEPT ![Key(w)] = NoCopy]
\* mutant: what was written is left
Left(w) == cache' = [cache EXCEPT ![Key(w)].writer = "none"]
Undone(w) == Unlinked(w)
Fail(w) ==
    /\ work[w].pc \in {"deflate", "written"} /\ Goes(w, "plain") /\ Undone(w)
    /\ UNCHANGED answer /\ Unchanged

\* deflate_file_to_buffer(): with a directory nobody takes the finished answer, which becomes a 403
Buffer(w) ==
    /\ At(w, "buffer") /\ Goes(w, "answered") /\ UNCHANGED cache /\ Unchanged
    /\ Reply(w, IF compress_cache_dir THEN 403 ELSE 200, work[w].encoding,
             IF use_etag THEN Coded(work[w].encoding, work[w].etag) ELSE <<>>, file.version, TRUE, FALSE)
BufferFail(w) == At(w, "buffer") /\ Goes(w, "plain") /\ UNCHANGED <<cache, answer>> /\ Unchanged

\* mod_staticfile sends the copy, or the file
Send(w) ==
    /\ At(w, "cached") /\ Goes(w, "answered") /\ UNCHANGED cache /\ Unchanged
    /\ LET c == cache[Key(w)]
       IN  IF c = NoCopy THEN Reply(w, 403, work[w].encoding, Coded(work[w].encoding, work[w].etag), 0, FALSE, TRUE)
           ELSE Reply(w, 200, work[w].encoding, Coded(work[w].encoding, work[w].etag), c.of, c.whole, c.writer # "none")
SendPlain(w) ==
    /\ At(w, "plain") /\ Goes(w, "answered") /\ UNCHANGED cache /\ Unchanged
    /\ Reply(w, 200, "none", IF use_etag THEN Plain(work[w].etag) ELSE <<>>, file.version, TRUE, FALSE)
Done(w) ==
    /\ At(w, "answered") /\ work' = [work EXCEPT ![w] = Idle] /\ answer' = [answer EXCEPT ![w] = NoAnswer]
    /\ UNCHANGED cache /\ Unchanged

\* the worker dies, and another one takes its place
Crash(w) ==
    /\ work[w] # Idle /\ crashes < MaxCrashes /\ crashes' = crashes + 1
    /\ work' = [work EXCEPT ![w] = Idle] /\ answer' = [answer EXCEPT ![w] = NoAnswer]
    /\ cache' = [k \in DOMAIN cache |-> IF cache[k].writer = w THEN [cache[k] EXCEPT !.writer = "dead"] ELSE cache[k]]
    /\ UNCHANGED <<file, recent, use_etag>>

\* someone writes the file; a second passes
Write == /\ file.version < MaxVersion /\ file' = [file EXCEPT !.version = @ + 1] /\ recent' = recent \cup {file.version + 1}
         /\ UNCHANGED <<use_etag, cache, work, answer, crashes>>
Second == recent # {file.version} /\ recent' = {file.version} /\ UNCHANGED <<file, use_etag, cache, work, answer, crashes>>

Next ==
    \/ /\ \A w \in Workers : answer[w] = NoAnswer       \* an answer is looked at before anything else happens
       /\ \/ \E w \in Workers :
              \/ \E r \in Requests, etag \in recent : Physical(w, r, etag)
              \/ Create(w) \/ Deflate(w) \/ Close(w) \/ Fail(w) \/ Buffer(w) \/ BufferFail(w) \/ Send(w) \/ SendPlain(w)
              \/ Crash(w)
          \/ Write \/ Second
    \/ \E w \in Workers : Done(w)
Spec == Init /\ [][Next]_vars

-----------------------------------------------------------------------------
TypeOK ==
    /\ \A w \in Workers : work[w].pc \in {"idle", "plain", "open", "buffer", "deflate", "written", "cached", "answered"}
    /\ \A k \in DOMAIN cache : cache[k].writer \in Workers \cup {"none", "dead"} /\ cache[k].of \in 0..MaxVersion

(***************************************************************************)
(* A copy in the directory is whole, unless the worker that makes it is    *)
(* still at it, or died: such a copy is sent for ever, as nobody writes it *)
(* again.  One worker at most makes it.                                    *)
(***************************************************************************)
WholeOrWritten ==
    \A k \in DOMAIN cache : cache[k] # NoCopy /\ ~cache[k].whole =>
        \/ cache[k].writer = "dead"
        \/ /\ cache[k].writer \in Workers
           /\ {w \in Workers : work[w].pc \in {"deflate", "written"} /\ Key(w) = k} = {cache[k].writer}

(***************************************************************************)
(* The answer with a Content-Encoding has a whole copy, if none is being   *)
(* made at this moment and no worker died over it; without, it has the     *)
(* file.                                                                   *)
(***************************************************************************)
SentWhole ==
    \A w \in Workers : answer[w] # NoAnswer /\ answer[w].status = 200 /\ ~answer[w].raced =>
        answer[w].whole

(***************************************************************************)
(* What is sent under an etag is not older than the etag says: the copy is *)
(* made after the etag was taken.                                          *)
(***************************************************************************)
NotOlder ==
    \A w \in Workers : answer[w] # NoAnswer /\ answer[w].status = 200 /\ answer[w].of # 0 /\ use_etag =>
        answer[w].of >= answer[w].etag[2]

(***************************************************************************)
(* Only a client that can read it gets an encoding.                        *)
(***************************************************************************)
Readable ==
    \A w \in Workers : answer[w] # NoAnswer /\ answer[w].status = 200 /\ answer[w].encoding # "none" =>
        answer[w].encoding \in answer[w].request.encodings \cap allowed_encodings

CompressRight == WholeOrWritten /\ SentWhole /\ NotOlder /\ Readable
=============================================================================
