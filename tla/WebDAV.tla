-------------------------------- MODULE WebDAV --------------------------------
(***************************************************************************)
(* mod_webdav: the methods that change files, what sqlite remembers of     *)
(* them (properties and locks), and the answers.  A path is the sequence   *)
(* of its names; the content of a file is a sequence of units.             *)
(*                                                                         *)
(* One worker handles a request as a whole.  "disk" is what the file       *)
(* system does meanwhile: "ok", "full", or "short": a write that takes     *)
(* less than all of it.                                                    *)
(***************************************************************************)
EXTENDS Integers, Sequences, SequencesExt

CONSTANTS
    Trees,              \* the file systems to begin with, functions on the paths
    Orders,             \* of readdir()
    Bodies,
    Denials,            \* sets of paths that cannot be removed
    MaxRequests         \* bound

VARIABLES
    fs, props,          \* of each path: [kind, content], and the value of its property or ""
    locks,              \* [token, resource, scope]
    uri_path,           \* p->uri.path: the last Destination
    denied,             \* what may not be removed
    is_readonly,
    requests,           \* so far
    last                \* the request that was answered, and what there was before

vars == <<fs, props, locks, uri_path, denied, is_readonly, requests, last>>

Paths == DOMAIN fs
None == [kind |-> "none", content |-> <<>>]
Dir == [kind |-> "dir", content |-> <<>>]
File(content) == [kind |-> "file", content |-> content]
NoRequest == [method |-> "none"]
NoProp == ""
Tokens == 1..MaxRequests

Init ==
    /\ fs \in Trees /\ props = [p \in Paths |-> NoProp] /\ locks = {} /\ uri_path = <<>>
    /\ denied \in Denials /\ is_readonly \in BOOLEAN /\ (is_readonly => denied = {})
    /\ requests = 0 /\ last = NoRequest

-----------------------------------------------------------------------------
Parent(p) == SubSeq(p, 1, Len(p) - 1)
Base(p) == <<p[Len(p)]>>
Kind(t, p) == IF p = <<>> THEN "dir" ELSE t[p].kind
Below(p) == {q \in Paths : IsPrefix(p, q)}
Under(p) == Below(p) \ {p}
At(d, s, q) == d \o SubSeq(q, Len(s) + 1, Len(q))
Empty(t, p) == \A q \in Under(p) : t[q].kind = "none"

\* what the functions of the module work on; "have" is have_multi_status
Work == [fs |-> fs, props |-> props, have |-> FALSE, status |-> 0]
Removed(w, p) == [w EXCEPT !.fs[p] = None, !.props[p] = NoProp]

webdav_delete_file(w, p) == IF p \in denied THEN [w EXCEPT !.have = TRUE] ELSE [Removed(w, p) EXCEPT !.have = FALSE]
rmdir_works(w, p) == p \notin denied /\ Empty(w.fs, p)

\* an entry's result takes the place of the one before
RECURSIVE webdav_delete_dir(_, _, _)
webdav_delete_dir(w, p, order) ==
    LET Entry(v, name) ==
            LET q == Append(p, name)
            IN  CASE q \notin Paths -> v
                  [] q \in Paths /\ v.fs[q].kind = "none" -> v
                  [] q \in Paths /\ v.fs[q].kind = "dir" ->
                        LET x == webdav_delete_dir(v, q, order)
                        IN  IF rmdir_works(x, q) THEN Removed(x, q) ELSE [x EXCEPT !.have = TRUE]
                  [] OTHER -> webdav_delete_file(v, q)
    IN  FoldLeft(Entry, [w EXCEPT !.have = FALSE], order)

\* INSERT ... SELECT: a value that is there already makes it fail
CopyProps(w, s, d) == IF w.props[d] = NoProp THEN [w EXCEPT !.props[d] = w.props[s]] ELSE w

OpenFails(w, d, overwrite) ==
    CASE w.fs[d].kind # "none" /\ ~overwrite -> 412
      [] w.fs[d].kind = "dir" /\ overwrite -> 409
      [] w.fs[d].kind = "none" /\ Kind(w.fs, Parent(d)) = "none" -> 409
      [] w.fs[d].kind = "none" /\ Kind(w.fs, Parent(d)) = "file" -> 403
      [] OTHER -> 0

\* the content is mapped, and gone if the file is its own copy; a short write is not noticed
webdav_copy_file(w, s, d, overwrite, disk) ==
    LET fails == OpenFails(w, d, overwrite)
        data == w.fs[s].content
        Put(content, status) == [w EXCEPT !.fs[d] = File(content), !.status = status]
    IN  CASE fails # 0 -> [w EXCEPT !.status = fails]
          [] fails = 0 /\ s = d /\ data # <<>> -> Put(<<>>, 403)
          [] fails = 0 /\ (s # d \/ data = <<>>) /\ disk = "full" -> Put(<<>>, 507)
          [] OTHER -> CopyProps(Put(IF disk = "short" THEN SubSeq(data, 1, Len(data) - 1) ELSE data, 0), s, d)

RECURSIVE webdav_copy_dir(_, _, _, _, _, _)
webdav_copy_dir(w, s, d, overwrite, disk, order) ==
    LET Entry(v, name) ==
            LET p == Append(s, name)
                q == Append(d, name)
                made == IF v.fs[q].kind = "none" THEN [v EXCEPT !.fs[q] = Dir] ELSE v
                x == webdav_copy_dir(made, p, q, overwrite, disk, order)
            IN  CASE v.status # 0 \/ p \notin Paths -> v
                  [] v.status = 0 /\ p \in Paths /\ v.fs[p].kind = "none" -> v
                  [] v.status = 0 /\ p \in Paths /\ v.fs[p].kind = "file" -> webdav_copy_file(v, p, q, overwrite, disk)
                  [] OTHER -> \* mkdir() failed: the directory is left out; the properties are those of the parents
                        IF disk = "full" /\ v.fs[q].kind = "none" THEN v
                        ELSE IF x.status # 0 THEN x ELSE CopyProps(x, s, d)
    IN  FoldLeft(Entry, w, order)

\* any If header is a lock
Locked(p) == \E l \in locks : l.resource = p
has_lock(p, if) == if \/ ~Locked(p)

-----------------------------------------------------------------------------
\* a request is answered: r is what is told of it, w what there is afterwards
Answer(r, w) ==
    /\ last = NoRequest /\ requests < MaxRequests /\ requests' = requests + 1
    /\ fs' = w.fs /\ props' = w.props
    /\ last' = [r EXCEPT !.status = w.status, !.fs = fs, !.props = props, !.locks = locks]
    /\ UNCHANGED <<denied, is_readonly>>
Request(method, p, if) ==
    [method |-> method, uri |-> p, dest |-> p, if |-> if, disk |-> "ok", overwrite |-> TRUE, body |-> <<>>,
     status |-> 0, fs |-> <<>>, props |-> <<>>, locks |-> {}]
Told(status) == [Work EXCEPT !.status = status]

Mkcol(p) ==
    /\ Answer(Request("MKCOL", p, FALSE),
              CASE is_readonly -> Told(403)
                [] ~is_readonly /\ fs[p].kind = "none" /\ Kind(fs, Parent(p)) # "dir" -> Told(409)
                [] ~is_readonly /\ fs[p].kind # "none" -> Told(405)
                [] OTHER -> [Told(201) EXCEPT !.fs[p] = Dir])
    /\ UNCHANGED <<locks, uri_path>>

\* the properties of a file, or of the directory itself, stay
DeleteDir(p, order) ==
    LET w == webdav_delete_dir(Work, p, order)
    IN  CASE w.have -> [w EXCEPT !.status = 207]
          [] ~w.have /\ rmdir_works(w, p) -> [w EXCEPT !.fs[p] = None, !.status = 204]
          [] OTHER -> [w EXCEPT !.status = 501]
DeleteFile(p) == IF p \in denied THEN Told(501) ELSE [Told(204) EXCEPT !.fs[p] = None]
\* mutant: rmdir() is not asked
Forced(p, order) == [webdav_delete_dir(Work, p, order) EXCEPT !.status = 204]
Deleted(p, order) == DeleteDir(p, order)
Delete(p, if, order) ==
    /\ Answer(Request("DELETE", p, if),
              CASE is_readonly -> Told(403)
                [] ~is_readonly /\ ~has_lock(p, if) -> Told(423)
                [] ~is_readonly /\ has_lock(p, if) /\ fs[p].kind = "none" -> Told(404)
                [] ~is_readonly /\ has_lock(p, if) /\ fs[p].kind = "dir" -> Deleted(p, order)
                [] OTHER -> DeleteFile(p))
    /\ UNCHANGED <<locks, uri_path>>

-----------------------------------------------------------------------------
Overlay(content, offset, body) ==
    [i \in 1..(IF Len(content) > offset + Len(body) THEN Len(content) ELSE offset + Len(body)) |->
        IF i > offset /\ i <= offset + Len(body) THEN body[i - offset]
        ELSE IF i <= Len(content) THEN content[i] ELSE 0]

\* write() is called until all is written or it fails; a descriptor of -1 fails at the first byte
WriteBody(w, p, offset, body, disk) ==
    CASE body = <<>> -> w
      [] body # <<>> /\ disk = "full" -> [w EXCEPT !.status = 507]
      [] OTHER -> [w EXCEPT !.fs[p].content = Overlay(@, offset, body)]
PutRange(p, offset, body, disk) ==
    CASE fs[p].kind = "none" -> Told(404)
      [] fs[p].kind = "dir" -> Told(403)
      [] OTHER -> WriteBody(Told(200), p, offset, body, disk)
PutWhole(p, body, disk) ==
    CASE fs[p].kind = "file" -> WriteBody([Told(200) EXCEPT !.fs[p] = File(<<>>)], p, 0, body, disk)
      [] fs[p].kind = "none" /\ Kind(fs, Parent(p)) = "dir" ->
            WriteBody([Told(201) EXCEPT !.fs[p] = File(<<>>)], p, 0, body, disk)
      [] fs[p].kind = "none" /\ Kind(fs, Parent(p)) = "none" -> Told(403)
      [] OTHER -> Told(IF body = <<>> THEN 201 ELSE 403)      \* neither opened nor ENOENT
Put(p, if, offset, body, disk) ==
    /\ Answer([Request("PUT", p, if) EXCEPT !.body = body, !.disk = disk],
              CASE is_readonly -> Told(403)
                [] ~is_readonly /\ ~has_lock(p, if) -> Told(423)
                [] ~is_readonly /\ has_lock(p, if) /\ offset >= 0 -> PutRange(p, offset, body, disk)
                [] OTHER -> PutWhole(p, body, disk))
    /\ UNCHANGED <<locks, uri_path>>

-----------------------------------------------------------------------------
\* a directory: its destination is made, its content copied, and, for MOVE, what is left removed
Made(s, d, overwrite) ==
    CASE fs[d].kind = "none" -> IF Kind(fs, Parent(d)) = "dir" THEN [Work EXCEPT !.fs[d] = Dir] ELSE Told(403)
      [] fs[d].kind = "file" -> IF ~overwrite THEN Told(409)
                                ELSE IF d \in denied THEN Told(403) ELSE [Work EXCEPT !.fs[d] = Dir]
      [] OTHER -> Work
TransferDir(move, s, d, overwrite, disk, order) ==
    LET m == Made(s, d, overwrite)
        w == webdav_copy_dir(m, s, d, overwrite, disk, order)
        x == webdav_delete_dir(w, s, order)
        y == IF rmdir_works(x, s) THEN [x EXCEPT !.fs[s] = None] ELSE x
    IN  IF m.status # 0 THEN m ELSE IF w.status # 0 THEN w ELSE [IF move THEN y ELSE w EXCEPT !.status = 201]

\* a file; rename() works unless the file systems differ
Renamed(s, d) ==
    [Work EXCEPT !.fs = IF s = d THEN fs ELSE [fs EXCEPT ![d] = fs[s], ![s] = None],
                 !.props[s] = NoProp]       \* deleted before it could be moved
TransferFile(move, s, named, if, overwrite, disk, xdev) ==
    LET d == IF fs[named].kind = "dir" THEN named \o Base(s) ELSE named
        exists == fs[d].kind # "none"
        parent == Kind(fs, Parent(d))
        status == IF exists THEN 204 ELSE 201
        w == webdav_copy_file(Work, s, d, overwrite, disk)
        x == IF move THEN webdav_delete_file(w, s) ELSE w
    IN  CASE ~has_lock(named, if) -> Told(423)
          [] has_lock(named, if) /\ ~exists /\ parent = "file" -> Told(409)
          [] has_lock(named, if) /\ exists /\ ~overwrite -> Told(412)
          [] has_lock(named, if) /\ (exists => overwrite) /\ move /\ ~xdev /\ parent = "dir" /\ fs[d].kind # "dir"
                /\ s \notin denied -> [Renamed(s, d) EXCEPT !.status = status]
          [] OTHER -> IF w.status # 0 THEN w ELSE [x EXCEPT !.status = status]

Transfer(move, s, d, if, overwrite, disk, xdev, order) ==
    /\ s # d => ~IsPrefix(s, d) /\ ~IsPrefix(d, s)
    /\ fs[s].kind = "dir" => s # d /\ \A q \in Under(s) : At(d, s, q) \in Paths    \* bound: the copies are among the paths
    /\ fs[d].kind = "dir" => Len(d) = 1 /\ d \o Base(s) \in Paths
    /\ Answer([Request(IF move THEN "MOVE" ELSE "COPY", s, if) EXCEPT !.dest = d, !.overwrite = overwrite, !.disk = disk],
              CASE is_readonly -> Told(403)
                [] ~is_readonly /\ move /\ ~has_lock(s, if) -> Told(423)
                [] ~is_readonly /\ (move => has_lock(s, if)) /\ fs[s].kind = "none" -> Told(404)
                [] ~is_readonly /\ (move => has_lock(s, if)) /\ fs[s].kind = "dir" ->
                        TransferDir(move, s, d, overwrite, disk, order)
                [] OTHER -> TransferFile(move, s, d, if, overwrite, disk, xdev))
    /\ uri_path' = IF is_readonly \/ (move /\ ~has_lock(s, if)) THEN uri_path ELSE d
    /\ UNCHANGED locks

-----------------------------------------------------------------------------
\* the commands of a PROPPATCH, in a transaction; a missing file is not an error
Patched(value, c) == IF c.set THEN c.value ELSE NoProp
Proppatch(p, if, commands) ==
    LET bad == \E i \in 1..Len(commands) : commands[i].empty_ns
    IN  /\ Answer([Request("PROPPATCH", p, if) EXCEPT !.body = commands],
                  CASE is_readonly -> Told(403)
                    [] ~is_readonly /\ ~has_lock(p, if) -> Told(423)
                    [] ~is_readonly /\ has_lock(p, if) /\ bad -> Told(400)
                    [] OTHER -> [Told(200) EXCEPT !.props[p] = FoldLeft(Patched, @, commands)])
        /\ UNCHANGED <<locks, uri_path>>

\* Depth: 0; whether there is a lock is asked for the path of the last Destination
Refused(scope) == \E l \in locks : l.resource = uri_path /\ (l.scope # "exclusive" \/ scope = "exclusive")
Lock(p, scope) ==
    LET refused == Refused(scope)
    IN  /\ Answer(Request("LOCK", p, FALSE), Told(IF refused THEN 423 ELSE 201))
        /\ locks' = IF refused THEN locks ELSE locks \cup {[token |-> requests, resource |-> p, scope |-> scope]}
        /\ UNCHANGED uri_path
\* the resource is bound to a statement that has no place for it
Unlock(p, token) ==
    LET removed == {l \in locks : l.token = token}
    IN  /\ Answer(Request("UNLOCK", p, FALSE), Told(IF removed = {} THEN 401 ELSE 204))
        /\ locks' = locks \ removed /\ UNCHANGED uri_path

\* PROPFIND: the resource, or what is in it too
Found(p, depth) == {[path |-> q, prop |-> props[q]] : q \in {r \in Below(p) : fs[r].kind # "none" /\ Len(r) <= Len(p) + depth}}
Propfind(p, depth) ==
    /\ Answer([Request("PROPFIND", p, FALSE) EXCEPT !.body = Found(p, depth)], Told(IF fs[p].kind = "none" THEN 404 ELSE 207))
    /\ UNCHANGED <<locks, uri_path>>

Done == last # NoRequest /\ last' = NoRequest /\ UNCHANGED <<fs, props, locks, uri_path, denied, is_readonly, requests>>

Commands == LET C(set, value, bad) == [set |-> set, value |-> value, empty_ns |-> bad]
            IN  {<<C(TRUE, "v", FALSE)>>, <<C(TRUE, "v", FALSE), C(FALSE, "", FALSE)>>, <<C(TRUE, "w", FALSE), C(TRUE, "", TRUE)>>}
\* what the file system does, and whether the destination may be overwritten
Circumstances == {<<TRUE, "ok", FALSE>>, <<FALSE, "ok", FALSE>>, <<TRUE, "full", FALSE>>, <<TRUE, "ok", TRUE>>,
                  <<TRUE, "full", TRUE>>, <<TRUE, "short", TRUE>>}
Next ==
    \/ /\ last = NoRequest /\ requests < MaxRequests
       /\ \/ \E p \in Paths : Mkcol(p) \/ \E d \in {0, 1} : Propfind(p, d)
          \/ \E p \in Paths, if \in BOOLEAN, order \in Orders : Delete(p, if, order)
          \/ \E p \in Paths, if \in BOOLEAN, body \in Bodies, offset \in {-1, 1}, disk \in {"ok", "full"} :
                 Put(p, if, offset, body, disk)
          \/ \E s, d \in Paths, move \in BOOLEAN, c \in Circumstances, order \in Orders :
                 Transfer(move, s, d, FALSE, c[1], c[2], c[3], order)
          \/ \E p \in Paths, if \in BOOLEAN, c \in Commands : Proppatch(p, if, c)
          \/ \E p \in Paths, scope \in {"exclusive", "shared"} : Lock(p, scope)
          \/ \E p \in Paths, t \in Tokens : Unlock(p, t)
    \/ Done
Spec == Init /\ [][Next]_vars

-----------------------------------------------------------------------------
Statuses == {200, 201, 204, 207, 400, 401, 403, 404, 405, 409, 412, 423, 501, 507}
TypeOK ==
    /\ last # NoRequest => last.status \in Statuses
    /\ \A p \in Paths : fs[p].kind # "none" => Kind(fs, Parent(p)) = "dir"

Was(p) == last.fs[p]
Answered(methods) == last.method \in methods
Done2xx == last.status \in {200, 201, 204}

(***************************************************************************)
(* What is said to be deleted is gone, with all that was in it.            *)
(***************************************************************************)
GoneMeansGone == Answered({"DELETE"}) /\ last.status = 204 => \A q \in Below(last.uri) : fs[q].kind = "none"

(***************************************************************************)
(* No file is lost by COPY or MOVE: it is where it was, or at its new      *)
(* place.  Not when the disk is full while a directory is moved, nor when  *)
(* a write is short, which nobody looks at; nor for a file that is copied  *)
(* onto itself, which is emptied.                                          *)
(***************************************************************************)
Moved(p) == At(last.dest, last.uri, p)
Nested == \E q \in Under(last.uri) : Was(q).kind = "dir"
NothingLost ==
    Answered({"COPY", "MOVE"}) /\ last.disk # "short" /\ (last.disk = "full" => ~Nested) /\ last.uri # last.dest =>
        \A p \in Below(last.uri) : Was(p).kind = "file" =>
            \/ fs[p] = Was(p)
            \/ last.method = "MOVE" /\ (fs[Moved(p)] = Was(p) \/ fs[last.dest \o Base(p)] = Was(p))

(***************************************************************************)
(* Without Overwrite, no file that was there is another afterwards.        *)
(***************************************************************************)
NoOverwrite ==
    Answered({"COPY", "MOVE"}) /\ ~last.overwrite =>
        \A p \in Below(last.dest) \ Below(last.uri) : Was(p).kind = "file" => fs[p] = Was(p)

(***************************************************************************)
(* What a PUT that succeeded wrote is in the file.                         *)
(***************************************************************************)
Written ==
    Answered({"PUT"}) /\ last.status \in {200, 201} /\ last.body # <<>> =>
        \E k \in 0..2 : SubSeq(fs[last.uri].content, k + 1, k + Len(last.body)) = last.body

(***************************************************************************)
(* A request that is refused (locked, read-only, not found) changes        *)
(* nothing, a locked resource that is named changes only for who sends If, *)
(* and nothing changes that is neither below the path nor the destination. *)
(***************************************************************************)
Refusals == {400, 401, 404, 405, 412, 423}
WasLocked(p) == \E l \in last.locks : l.resource = p
Confined ==
    last # NoRequest =>
        /\ last.status \in Refusals /\ (last.status = 412 => Was(last.uri).kind = "file") => fs = last.fs /\ props = last.props
        /\ is_readonly => fs = last.fs /\ props = last.props
        /\ WasLocked(last.uri) /\ ~last.if /\ ~Answered({"COPY", "MKCOL"}) =>
               fs[last.uri] = Was(last.uri) /\ props[last.uri] = last.props[last.uri]
        /\ \A p \in Paths : p \notin Below(last.uri) \cup Below(last.dest) => fs[p] = Was(p) /\ props[p] = last.props[p]

(***************************************************************************)
(* The changes of properties in a request are made all or none.            *)
(***************************************************************************)
AllOrNothing ==
    Answered({"PROPPATCH"}) =>
        IF last.status = 200 THEN LET c == Last(last.body) IN props[last.uri] = IF c.set THEN c.value ELSE NoProp
        ELSE props = last.props

WebDAVRight == GoneMeansGone /\ NothingLost /\ NoOverwrite /\ Written /\ Confined /\ AllOrNothing
=============================================================================
