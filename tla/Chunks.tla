-------------------------------- MODULE Chunks --------------------------------
(***************************************************************************)
(* The chunkqueue of an answer and network_write_chunkqueue() with its     *)
(* backends: one write() per chunk, one writev() for the chunks in memory  *)
(* that follow each other, a file by a window that is mapped, by sendfile()*)
(* or through SSL_write().                                                 *)
(*                                                                         *)
(* The content is made of units: <<"mem", n>> is the n-th that was         *)
(* appended, <<"file", p>> the one at place p of the file.  A call writes  *)
(* at most "room" units before the socket says EAGAIN, an error or that    *)
(* the client is gone.  A mapped file can be read to the end of the page   *)
(* it ends in; a write() that comes to what cannot be read sends up to     *)
(* "reach" units before it, or fails with EFAULT.                          *)
(***************************************************************************)
EXTENDS Integers, Sequences

CONSTANTS
    Backends,           \* of "write", "writev", "linuxsendfile", "freebsdsendfile", "openssl"
    FileSize,
    Page,               \* of memory
    Window,             \* what network_writev.c maps at once (512 KB)
    MaxIov,             \* UIO_MAXIOV
    MaxUnits, MaxChunks \* bounds: on what is appended to a queue

ChunksAssumption ==
    /\ Backends \subseteq {"write", "writev", "linuxsendfile", "freebsdsendfile", "openssl"}
    /\ FileSize \in Nat /\ {Page, Window} \subseteq Nat \ {0} /\ MaxIov \in Nat \ {0} /\ MaxUnits \in Nat

VARIABLES
    backend,
    queue,              \* the chunks
    appended, sent,     \* what was put into the queue and what the client got
    bytes_out,
    size, known,        \* of the file, and all it has had: the stat cache may have an old one
    ret,                \* of the last network_write_chunkqueue(), 2 before the first
    stalled,            \* writes in a row that could, and did not, send anything
    altered             \* the places of the file that came as something else

vars == <<backend, queue, appended, sent, bytes_out, size, known, ret, stalled, altered>>

NoMap == [offset |-> 0, length |-> 0, mapped |-> FALSE]
Mem(data) == [type |-> "mem", data |-> data, start |-> 0, offset |-> 0, map |-> NoMap]
File(start, length) == [type |-> "file", data |-> [i \in 1..length |-> <<"file", start + i - 1>>],
                        start |-> start, offset |-> 0, map |-> NoMap]
Length(c) == Len(c.data)
ToSend(c) == Length(c) - c.offset
Finished(c) == ToSend(c) = 0

Init ==
    /\ backend \in Backends
    /\ queue = <<>> /\ appended = <<>> /\ sent = <<>> /\ bytes_out = 0
    /\ size = FileSize /\ known = {FileSize}
    /\ ret = 2 /\ stalled = 0 /\ altered = {}

-----------------------------------------------------------------------------
append_chunk(c) ==
    /\ ret >= 0 /\ Len(queue) < MaxChunks /\ Len(appended) + Length(c) <= MaxUnits
    /\ queue' = Append(queue, c) /\ appended' = appended \o c.data
    /\ UNCHANGED <<backend, sent, bytes_out, size, known, ret, stalled, altered>>

\* chunkqueue_append_mem(), _buffer(): none makes a chunk too ("" with its end)
AppendMem(n) == append_chunk(Mem([i \in 1..n |-> <<"mem", Len(appended) + i>>]))
AppendFile(start, length) == length # 0 /\ append_chunk(File(start, length))

\* in front of what is there, as the header is, before anything was written
PrependMem(n) ==
    /\ ret = 2 /\ Len(queue) < MaxChunks /\ Len(appended) + n <= MaxUnits
    /\ LET c == Mem([i \in 1..n |-> <<"mem", Len(appended) + i>>])
       IN  queue' = <<c>> \o queue /\ appended' = c.data \o appended
    /\ UNCHANGED <<backend, sent, bytes_out, size, known, ret, stalled, altered>>

remove_finished(q) ==
    LET open == {i \in 1..Len(q) : ~Finished(q[i])}
    IN  IF open = {} THEN <<>> ELSE SubSeq(q, CHOOSE i \in open : \A j \in open : i <= j, Len(q))

\* what is still to be written
Left(c) == SubSeq(c.data, c.offset + 1, Length(c))
Rest(q) ==
    LET rest[k \in 0..Len(q)] == IF k = 0 THEN <<>> ELSE rest[k - 1] \o Left(q[k])
    IN  rest[Len(q)]
Remaining == Rest(queue)

-----------------------------------------------------------------------------
(***************************************************************************)
(* The loop of a backend: w.c is its chunk, w.room what the socket still   *)
(* takes, w.end what it says then; w.ret is 0 while it goes on.            *)
(***************************************************************************)
Least(a, b) == IF a <= b THEN a ELSE b
Code(end) == CASE end = "again" -> 0 [] end = "error" -> -1 [] end = "closed" -> -2

\* n units of chunk i are out
Advance(w, i, n) ==
    [w EXCEPT !.q[i].offset = @ + n, !.room = @ - n,
              !.out = @ \o SubSeq(w.q[i].data, w.q[i].offset + 1, w.q[i].offset + n)]
\* the loop leaves here, after what the socket took
Stop(w, code) == [w EXCEPT !.ret = code, !.stop = TRUE]
Next1(w) == IF Finished(w.q[w.c]) THEN [w EXCEPT !.c = @ + 1] ELSE Stop(w, 0)
Put(w, n) ==
    LET v == Advance(w, w.c, Least(n, w.room))
    IN  IF w.room < n /\ w.room = 0 THEN Stop(v, Code(w.end)) ELSE Next1(v)

(***************************************************************************)
(* writev() takes Iov(w) chunks, those in memory that follow each other    *)
(* from w.c on, Total() units of them; the r that went out are shared out  *)
(* among them.                                                             *)
(***************************************************************************)
Iov(w) == LET others == {j \in w.c..Len(w.q) : w.q[j].type # "mem"} \cup {Len(w.q) + 1, w.c + MaxIov}
          IN  (CHOOSE j \in others : \A k \in others : j <= k) - w.c
Total(w, n) ==
    LET total[k \in 0..n] == IF k = 0 THEN 0 ELSE total[k - 1] + ToSend(w.q[w.c + k - 1])
    IN  total[n]
ShareOne(s, i) ==
    IF s.partly THEN s
    ELSE IF s.r >= ToSend(s.w.q[i])
    THEN [s EXCEPT !.r = @ - ToSend(s.w.q[i]), !.w = [Advance(s.w, i, ToSend(s.w.q[i])) EXCEPT !.c = i + 1]]
    ELSE [s EXCEPT !.partly = TRUE, !.w = [Advance(s.w, i, s.r) EXCEPT !.c = i]]
\* mutant: the chunk that was written partly counts as written
ShareAll(s, i) ==
    IF s.partly THEN s
    ELSE IF s.r >= ToSend(s.w.q[i])
    THEN [s EXCEPT !.r = @ - ToSend(s.w.q[i]), !.w = [Advance(s.w, i, ToSend(s.w.q[i])) EXCEPT !.c = i + 1]]
    ELSE [s EXCEPT !.partly = TRUE, !.w = [Advance(s.w, i, s.r) EXCEPT !.c = i + 1, !.q[i].offset = Length(s.w.q[i])]]
Share(s, i) == ShareOne(s, i)
Shared(w, n, r) ==
    LET s[k \in 0..n] == IF k = 0 THEN [w |-> w, r |-> r, partly |-> FALSE] ELSE Share(s[k - 1], w.c + k - 1)
    IN  s[n]

WriteMemory(w) ==
    LET n == Iov(w)
        all == Total(w, n)
        s == Shared(w, n, Least(all, w.room))
    IN  IF all > 0 /\ w.room = 0 /\ w.end # "again" THEN Stop(w, Code(w.end))
        ELSE IF s.partly THEN Stop(s.w, 0) ELSE s.w

-----------------------------------------------------------------------------
Place(c) == c.start + c.offset
\* what the file has from there on
There(c) == IF size > Place(c) THEN Least(ToSend(c), size - Place(c)) ELSE 0
PageEnd(n) == n + ((-n) % Page)
\* of n units from there on, those before "end"
Before(c, n, end) == IF end > Place(c) THEN Least(n, end - Place(c)) ELSE 0

\* write() of n units of a mapping, which can be read, or only up to "most" of them;
\* those from "good" on are not the file's
PutMapped(w, n, whole, most, good) ==
    LET place == Place(w.q[w.c])
        r == IF whole THEN n ELSE Least(most, w.reach)
        others == {p \in place..place + Least(r, w.room) - 1 : p >= good}
        v == [w EXCEPT !.altered = @ \cup others]
    IN  IF w.room = 0 THEN Put(v, n) ELSE IF r = 0 /\ n > 0 THEN Stop(w, -1) ELSE Put(v, r)

\* network_write.c maps what the stat cache takes for the whole file; of a chunk that is
\* longer, it writes what the memory behind the mapping has
WriteMapped(w) ==
    LET c == w.q[w.c]
        n == ToSend(c)
        end == Least(PageEnd(size), PageEnd(w.st))
        readable == Before(c, n, end)
    IN  IF Place(c) > w.st \/ w.st = 0 THEN Stop(w, -1)
        ELSE PutMapped(w, n, readable = n, IF end = PageEnd(w.st) THEN n ELSE readable, Least(size, end))

\* network_writev.c: a window, moved when all of it is written
First(c) == Window * (CHOOSE k \in 0..FileSize :
                          /\ Window * (k + 1) >= c.start
                          /\ \A j \in 0..k - 1 : Window * (j + 1) < c.start)
Map(c) ==
    IF c.map.mapped /\ Place(c) # c.map.offset + c.map.length THEN c.map
    ELSE LET offset == IF c.map.mapped THEN c.map.offset + Window ELSE First(c)
         IN  [offset |-> offset, mapped |-> TRUE, length |-> Least(Window, c.start + Length(c) - offset)]
WriteWindow(w) ==
    LET c == w.q[w.c]
        m == Map(c)
        n == m.offset + m.length - Place(c)
        v == [w EXCEPT !.q[w.c].map = m]
        readable == Before(c, n, PageEnd(size))
    IN  IF Place(c) > w.st THEN Stop(w, -1) ELSE PutMapped(v, n, readable = n, readable, size)

\* sendfile(): nothing is either the end of the file or of the connection
WriteSendfile(w) ==
    LET c == w.q[w.c]
        gone == IF backend = "linuxsendfile" THEN Place(c) > w.st ELSE Place(c) >= w.st
    IN  IF There(c) = 0 THEN Stop(w, IF gone THEN -1 ELSE -2)
        ELSE Put(w, There(c))

\* network_openssl.c reads the file into its buffer until all is written or WANT_WRITE
WriteSsl(w) ==
    LET c == w.q[w.c]
        v == Advance(w, w.c, Least(There(c), w.room))
    IN  IF There(c) < ToSend(c) /\ w.room >= There(c)
        THEN Stop(v, IF w.room = There(c) /\ There(c) > 0 THEN 0 ELSE -1)
        ELSE Put(w, ToSend(c))

WriteChunk(w) ==
    CASE w.stop -> w
      [] ~w.stop /\ w.q[w.c].type = "mem" ->
            IF backend \in {"write", "openssl"} THEN Put(w, ToSend(w.q[w.c])) ELSE WriteMemory(w)
      [] OTHER ->
            CASE backend = "write" -> WriteMapped(w)
              [] backend = "writev" -> WriteWindow(w)
              [] backend = "openssl" -> WriteSsl(w)
              [] OTHER -> WriteSendfile(w)

WriteAt(w, i) == IF w.c = i THEN WriteChunk(w) ELSE w
backend_write(w) ==
    LET v[i \in 0..Len(w.q)] == IF i = 0 THEN w ELSE WriteAt(v[i - 1], i)
    IN  v[Len(w.q)]

\* network_write_chunkqueue()
Write(room, end, st, reach) ==
    /\ ret >= 0 /\ queue # <<>>
    /\ LET w == backend_write([q |-> queue, c |-> 1, room |-> room, end |-> end, st |-> st, reach |-> reach,
                               out |-> <<>>, ret |-> 0, stop |-> FALSE, altered |-> altered])
           left == remove_finished(w.q)
       IN  /\ queue' = IF w.ret >= 0 THEN left ELSE w.q
           /\ ret' = IF w.ret < 0 THEN w.ret ELSE IF left = <<>> THEN 0 ELSE 1
           /\ sent' = sent \o w.out /\ bytes_out' = bytes_out + Len(w.out)
           /\ altered' = w.altered
           /\ stalled' = IF w.out = <<>> /\ room > 0 /\ w.ret >= 0 /\ left # <<>> THEN stalled + 1 ELSE 0
    /\ UNCHANGED <<backend, appended, size, known>>

\* chunkqueue_reset()
Reset ==
    /\ queue' = <<>> /\ appended' = <<>> /\ sent' = <<>> /\ bytes_out' = 0 /\ ret' = 2 /\ stalled' = 0
    /\ altered' = {} /\ ret # 2 /\ UNCHANGED <<backend, size, known>>

\* another process writes to the file
Resize(n) ==
    /\ size' = n /\ known' = known \cup {n}
    /\ UNCHANGED <<backend, queue, appended, sent, bytes_out, ret, stalled, altered>>
Shrink(n) == n < size /\ Resize(n)
Grow == size < FileSize /\ Resize(FileSize)

Next ==
    \/ \E n \in 0..2 : AppendMem(n) \/ PrependMem(n)
    \/ \E start \in 0..FileSize - 1 : \E length \in 0..FileSize - start : AppendFile(start, length)
    \/ \E room \in 0..MaxUnits, reach \in {0, MaxUnits}, end \in {"again", "error", "closed"}, st \in known :
           /\ room >= Len(Remaining) => room = MaxUnits /\ end = "again"
           /\ backend \notin {"write", "writev"} \/ known = {FileSize} \/ room = 0 => reach = 0
           /\ Write(room, end, st, reach)
    \/ Reset \/ Shrink(1) \/ Grow

Spec == Init /\ [][Next]_vars

-----------------------------------------------------------------------------
TypeOK == /\ ret \in -2..2 /\ size \in known /\ known \subseteq 0..FileSize /\ altered \subseteq 0..FileSize
          /\ \A i \in 1..Len(queue) : queue[i].offset \in 0..Length(queue[i])

(***************************************************************************)
(* However the kernel divides the writes, the client gets what was         *)
(* appended, in its order and once: what it has and what the queue still   *)
(* has make up the whole.                                                  *)
(***************************************************************************)
InOrder == sent \o Remaining = appended

(***************************************************************************)
(* The byte counters count what the client got.                            *)
(***************************************************************************)
Counted == bytes_out = Len(sent)

(***************************************************************************)
(* The answer is complete just when the client has all of it.              *)
(***************************************************************************)
CompleteMeansAll == ret = 0 /\ queue = <<>> => sent = appended

(***************************************************************************)
(* A socket that takes something is not told nothing twice in a row: a     *)
(* window that begins at the end of a range of 512 KB costs one round.     *)
(***************************************************************************)
Moves == stalled <= 1

(***************************************************************************)
(* Something else than the file's content is sent only of a file that is   *)
(* mapped and has been shorter: network_writev.c sends the zeros behind    *)
(* its end, in the same page; network_write.c also what the memory has     *)
(* behind a mapping of the shorter file.  The others never do.             *)
(***************************************************************************)
Strange(p) == \E n \in known : n <= p /\ (backend = "write" \/ (backend = "writev" /\ p < PageEnd(n)))
Genuine == \A p \in altered : Strange(p)

ChunksRight == InOrder /\ Counted /\ CompleteMeansAll /\ Moves /\ Genuine
=============================================================================
